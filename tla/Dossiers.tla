------------------------------ MODULE Dossiers ------------------------------
(* The folders of the tree, kept in three files: the marker of each host in *)
(* ~/.ssh/config, the field of each desktop in rdp.yaml, and the registry   *)
(* folders.yaml.  A command runs on a thread of its own, without a lock:    *)
(* each file is read, changed in memory and written back whole, one after   *)
(* the other, so that two commands overlap, a write may fail, and the shell *)
(* may stop between two files.  A path is the sequence of its names.        *)
EXTENDS Integers, Sequences, FiniteSets
LOCAL INSTANCE SequencesExt

CONSTANTS Hotes,            \* the aliases of ~/.ssh/config, in the order of the file
          Multiples,        \* those of a block of several names
          Inclus,           \* the folders of the hosts of the included files
          Bureaux,          \* the desktops of rdp.yaml, saved or not yet
          Fils,             \* the commands that may run at once
          Demandes,         \* what the page may ask
          Depart,           \* the files at the start
          LANCEMENTS_MAX, PANNES_MAX, ACCIDENTS_MAX

VARIABLES hotes,            \* the folder of each alias in ~/.ssh/config
          bureaux,          \* the folder of each desktop, Absent for none
          registre,         \* folders.yaml
          fil,              \* each command: what is asked, where it is, what it read
          voulu,            \* history: what each thread was asked to do, from which files
          reste             \* what may still be launched, fail, or stop
fichiers == <<hotes, bureaux, registre>>
vars == <<fichiers, fil, voulu, reste>>

Racine == <<>>
Absent == <<"absent">>
Ensemble == {Hotes[i] : i \in DOMAIN Hotes}
Rien == [genre |-> "rien", de |-> Racine, vers |-> Racine, nom |-> ""]
Repos == [d |-> Rien, e |-> "repos", aFaire |-> <<>>, recale |-> FALSE,
          rdp |-> <<>>, lu |-> <<>>]
Personne == [d |-> Rien, avant |-> <<>>, seul |-> TRUE, fois |-> 0]

Sous(p, d) == IsPrefix(d, p)
Remap(p, de, vers) == IF Sous(p, de) THEN vers \o SubSeq(p, Len(de) + 1, Len(p)) ELSE p
Ancetres(p) == {SubSeq(p, 1, n) : n \in 1..Len(p)}

(* Where a folder goes: a rename takes what is under it along, a deletion   *)
(* brings it back to the root; a desktop or a host alone is put in `vers`.  *)
Devient(d, p) == CASE d.genre = "renommer" -> Remap(p, d.de, d.vers)
                   [] d.genre = "supprimer" -> IF Sous(p, d.de) THEN Racine ELSE p
                   [] OTHER -> d.vers
Touche(d, p) == Sous(p, d.de)
EnMasse(d) == d.genre \in {"renommer", "supprimer"}

(* create_in, remove_in, rename_in.                                         *)
Inscrire_Nu(d, R) == IF d.genre = "supprimer" THEN {p \in R : ~Sous(p, d.de)}
                     ELSE IF d.genre = "renommer" THEN {Devient(d, p) : p \in R} \cup {d.vers}
                     ELSE R \cup {d.vers}
Inscrire(d, R) ==
    IF d.genre = "supprimer" THEN {p \in R : ~Sous(p, d.de)}
    ELSE (IF d.genre = "renommer" THEN {Remap(p, d.de, d.vers) : p \in R} ELSE R)
         \cup Ancetres(d.vers)

Init == /\ hotes = Depart.hotes /\ bureaux = Depart.bureaux /\ registre = Depart.registre
        /\ fil = [f \in Fils |-> Repos]
        /\ voulu = [f \in Fils |-> Personne]
        /\ reste = [lancements |-> LANCEMENTS_MAX, pannes |-> PANNES_MAX,
                    accidents |-> ACCIDENTS_MAX]

Ouverts == {f \in Fils : voulu[f].d # Rien}
Aller(f, e) == fil' = [fil EXCEPT ![f].e = e, ![f].lu = <<>>, ![f].rdp = <<>>]
Lire(f, e, lu) == fil' = [fil EXCEPT ![f].e = e, ![f].lu = lu]
Panne == /\ reste.pannes > 0
         /\ reste' = [reste EXCEPT !.pannes = @ - 1]

(* The page asks; what it asks again after an error or a stop is the same   *)
(* request, on the files as they are.                                       *)
Lancer(f, d) ==
    /\ fil[f].e \in {"repos", "ok", "erreur"} /\ reste.lancements > 0
    /\ voulu[f].d \in {Rien, d}
    /\ reste' = [reste EXCEPT !.lancements = @ - 1]
    /\ fil' = [fil EXCEPT ![f] = [Repos EXCEPT !.d = d,
                 !.aFaire = IF d.genre = "ranger" THEN <<[nom |-> d.nom, vers |-> d.vers]>>
                            ELSE <<>>,
                 !.e = CASE EnMasse(d) -> "sonder" [] d.genre = "ranger" -> "lire config"
                         [] d.genre = "bureau" -> "lire bureaux" [] OTHER -> "lire registre"]]
    /\ voulu' = [g \in Fils |->
                   IF g # f THEN [voulu[g] EXCEPT !.seul = @ /\ voulu[g].d = Rien]
                   ELSE IF voulu[f].d = d
                        THEN [voulu[f] EXCEPT !.seul = @ /\ Ouverts = {f}, !.fois = @ + 1]
                        ELSE [d |-> d, avant |-> fichiers, seul |-> Ouverts = {}, fois |-> 1]]
    /\ UNCHANGED fichiers

(* The end of a command: its answer, and for an error no more changes.      *)
Finir(f, e) ==
    /\ fil' = [fil EXCEPT ![f] = [Repos EXCEPT !.d = fil[f].d, !.e = e]]
    /\ UNCHANGED voulu
Oublier(f) ==
    /\ fil[f].e = "ok"
    /\ fil' = [fil EXCEPT ![f] = Repos] /\ voulu' = [voulu EXCEPT ![f] = Personne]
    /\ UNCHANGED <<fichiers, reste>>

(* rdp.yaml is read first: a file that cannot be read stops it all.         *)
Sonder(f) ==
    /\ fil[f].e = "sonder"
    /\ \/ fil' = [fil EXCEPT ![f].e = "lister", ![f].rdp = bureaux] /\ UNCHANGED <<voulu, reste>>
       \/ Panne /\ Finir(f, "erreur")
    /\ UNCHANGED fichiers
(* Then the hosts, and where each goes from where it is now: one of an      *)
(* included file cannot be moved, and refuses it.                           *)
Recales(d) ==
    LET I == SelectSeq(Hotes, LAMBDA h : Touche(d, hotes[h])) IN
    [i \in DOMAIN I |-> [nom |-> I[i], vers |-> Devient(d, hotes[I[i]])]]
Lister_Tout(f) ==
    /\ fil[f].e = "lister"
    /\ fil' = [fil EXCEPT ![f].e = "lire config", ![f].aFaire = Recales(fil[f].d)]
    /\ UNCHANGED <<fichiers, voulu, reste>>
Lister(f) ==
    LET d == fil[f].d IN
    /\ fil[f].e = "lister"
    /\ IF \E p \in Inclus : Touche(d, p) THEN Finir(f, "erreur")
       ELSE /\ fil' = [fil EXCEPT ![f].e = "lire config", ![f].aFaire = Recales(d)]
            /\ UNCHANGED voulu
    /\ UNCHANGED <<fichiers, reste>>

(* set_host_folder_at, once per host: one of several names is left alone    *)
(* without a word, another failure is noted and said at the end.            *)
Bureaux_Lus(f) == fil' = [fil EXCEPT ![f].e = "ecrire bureaux"] /\ UNCHANGED voulu
LireConfig(f) ==
    LET h == Head(fil[f].aFaire).nom
        seul == fil[f].d.genre = "ranger"
    IN
    /\ fil[f].e = "lire config"
    /\ IF fil[f].aFaire = <<>>
       THEN IF fil[f].recale THEN Finir(f, "erreur") ELSE Bureaux_Lus(f)
       ELSE IF h \in Multiples
       THEN IF seul THEN Finir(f, "erreur")
            ELSE fil' = [fil EXCEPT ![f].aFaire = Tail(@)] /\ UNCHANGED voulu
       ELSE Lire(f, "ecrire config", hotes) /\ UNCHANGED voulu
    /\ UNCHANGED <<fichiers, reste>>
EcrireConfig(f) ==
    LET lu == fil[f].lu
        h == Head(fil[f].aFaire)
        suite == [fil[f] EXCEPT !.aFaire = Tail(@), !.lu = <<>>]
        seul == fil[f].d.genre = "ranger"
    IN
    /\ fil[f].e = "ecrire config"
    /\ \/ /\ hotes' = [lu EXCEPT ![h.nom] = h.vers]
          /\ fil' = [fil EXCEPT ![f] = [suite EXCEPT !.e = IF seul THEN "lire registre"
                                                            ELSE "lire config"]]
          /\ UNCHANGED <<bureaux, registre, voulu, reste>>
       \/ /\ Panne
          /\ IF seul THEN Finir(f, "erreur")
             ELSE /\ fil' = [fil EXCEPT ![f] = [suite EXCEPT !.e = "lire config", !.recale = TRUE]]
                  /\ UNCHANGED voulu
          /\ UNCHANGED fichiers

(* A desktop alone is read, then written; a rename or a deletion writes     *)
(* what it read at the start, if it changes.                                *)
LireBureaux(f) ==
    /\ fil[f].e = "lire bureaux"
    /\ \/ Lire(f, "ecrire bureaux", bureaux) /\ UNCHANGED <<voulu, reste>>
       \/ Panne /\ Finir(f, "erreur")
    /\ UNCHANGED fichiers
Ecrits(f) ==
    LET d == fil[f].d
        lu == fil[f].rdp
        neufs == [b \in Bureaux |-> IF lu[b] = Absent THEN Absent ELSE Devient(d, lu[b])]
    IN  IF ~EnMasse(d) THEN [fil[f].lu EXCEPT ![d.nom] = d.vers]
        ELSE IF neufs = lu THEN bureaux ELSE neufs
EcrireBureaux_Sourd(f) ==
    /\ fil[f].e = "ecrire bureaux"
    /\ \/ bureaux' = Ecrits(f) /\ UNCHANGED reste
       \/ Panne /\ UNCHANGED bureaux
    /\ Aller(f, "lire registre")
    /\ UNCHANGED <<hotes, registre, voulu>>
EcrireBureaux(f) ==
    /\ fil[f].e = "ecrire bureaux"
    /\ \/ /\ bureaux' = Ecrits(f)
          /\ Aller(f, "lire registre")
          /\ UNCHANGED <<voulu, reste>>
       \/ Panne /\ Finir(f, "erreur") /\ UNCHANGED bureaux
    /\ UNCHANGED <<hotes, registre>>

(* The registry: a host or a desktop put at the root has nothing to enter.  *)
LireRegistre(f) ==
    /\ fil[f].e = "lire registre"
    /\ \/ /\ fil[f].d.genre \in {"ranger", "bureau"} /\ fil[f].d.vers = Racine
          /\ Finir(f, "ok") /\ UNCHANGED reste
       \/ /\ ~(fil[f].d.genre \in {"ranger", "bureau"} /\ fil[f].d.vers = Racine)
          /\ \/ Lire(f, "ecrire registre", registre) /\ UNCHANGED <<voulu, reste>>
             \/ Panne /\ Finir(f, "erreur")
    /\ UNCHANGED fichiers
EcrireRegistre(f) ==
    /\ fil[f].e = "ecrire registre"
    /\ \/ registre' = Inscrire(fil[f].d, fil[f].lu) /\ Finir(f, "ok") /\ UNCHANGED reste
       \/ Panne /\ Finir(f, "erreur") /\ UNCHANGED registre
    /\ UNCHANGED <<hotes, bureaux>>

(* The shell stops, and starts again: a file is the old one or the new one. *)
Accident ==
    /\ reste.accidents > 0 /\ \E f \in Fils : fil[f].e \notin {"repos", "ok", "erreur"}
    /\ reste' = [reste EXCEPT !.accidents = @ - 1]
    /\ fil' = [f \in Fils |-> Repos]
    /\ voulu' = [f \in Fils |-> IF fil[f].e = "ok" THEN Personne ELSE voulu[f]]
    /\ UNCHANGED fichiers

Next == \/ \E f \in Fils : \/ \E d \in Demandes : Lancer(f, d)
                           \/ Oublier(f) \/ Sonder(f) \/ Lister(f)
                           \/ LireConfig(f) \/ EcrireConfig(f)
                           \/ LireBureaux(f) \/ EcrireBureaux(f)
                           \/ LireRegistre(f) \/ EcrireRegistre(f)
        \/ Accident
Spec == Init /\ [][Next]_vars
-----------------------------------------------------------------------------
Chemins == {Absent} \cup UNION {[1..n -> {"a", "b", "x"}] : n \in 0..4}
TypeOK == /\ hotes \in [Ensemble -> Chemins] /\ bureaux \in [Bureaux -> Chemins]
          /\ registre \subseteq Chemins

\* The registry never holds a folder without those above it, whatever the
\* commands that read it before and wrote it after each other.
AncetresLa == \A p \in registre : Ancetres(p) \subseteq registre

\* A rename, a deletion or a move that answers it succeeded did all of it, and
\* nothing else, however many times it failed or was cut short before: every
\* host (but those of a block of several names) and every desktop is where the
\* request puts what was there at its first attempt, and so is the registry. Of a
\* rename of a folder into itself (the page and the code accept a -> a/x) less can
\* be said: asked again, it takes further what it had moved, and each is where
\* the request puts it when made once, or twice, or as often as it was asked.
Enfonce(d) == d.genre = "renommer" /\ Sous(d.vers, d.de)
Image(d, avant) ==
    LET h == avant[1]  b == avant[2]  r == avant[3] IN
    <<[a \in Ensemble |->
         IF a \in Multiples \/ d.genre \in {"creer", "bureau"} \/ (d.genre = "ranger" /\ d.nom # a)
         THEN h[a] ELSE Devient(d, h[a])],
      [x \in Bureaux |->
         IF d.genre \in {"creer", "ranger"} \/ (d.genre = "bureau" /\ d.nom # x)
            \/ (EnMasse(d) /\ b[x] = Absent)
         THEN b[x] ELSE Devient(d, b[x])],
      IF d.genre \in {"ranger", "bureau"} /\ d.vers = Racine THEN r ELSE Inscrire(d, r)>>
Images(d, avant, n) ==
    LET I[k \in 1..n] == Image(d, IF k = 1 THEN avant ELSE I[k - 1]) IN I
Entier == \A f \in Fils : fil[f].e = "ok" /\ voulu[f].seul =>
    LET d == voulu[f].d
        I == Images(d, voulu[f].avant, IF Enfonce(d) THEN voulu[f].fois ELSE 1)
    IN  /\ \A a \in Ensemble : \E i \in DOMAIN I : hotes[a] = I[i][1][a]
        /\ \A b \in Bureaux : \E i \in DOMAIN I : bureaux[b] = I[i][2][b]
        /\ \E i \in DOMAIN I : registre = I[i][3]

\* A folder that holds a host of an included file is refused before anything
\* is written.
RefusSansEffet ==
    \A f \in Fils : /\ EnMasse(voulu[f].d) /\ voulu[f].seul
                    /\ \E p \in Inclus : Touche(voulu[f].d, p)
        => fichiers = voulu[f].avant

\* A desktop that was saved stays in the file. It does not hold beside a
\* rename or a deletion of a folder, which writes back the list it read first.
BureauGarde == [][\A b \in Bureaux : bureaux[b] # Absent => bureaux'[b] # Absent]_vars
=============================================================================
