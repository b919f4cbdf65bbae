----------------------------- MODULE ConfigSsh -----------------------------

(* ~/.ssh/config, which the user also writes by hand: the reading of its    *)
(* blocks, the resolution of an alias, and the four edits the shell makes   *)
(* in place (add a host, rewrite one, remove one, put one in a folder).     *)
(* A file is the sequence of its lines; a line is what the editors tell     *)
(* apart: a Host line with its patterns and its negations, a Match line, a  *)
(* directive the shell writes back (HostName, which only the block naming   *)
(* the alias gives, and Port, which a pattern block may give too), the      *)
(* shell's marker #Folder, another directive, a free comment, a blank line, *)
(* an Include.  Line ends, quoting, #Tags (as #Folder) and the other two    *)
(* inherited directives (as Port) are left out; an edit is one step here,   *)
(* its reading and its writing apart are in Dossiers.                       *)
EXTENDS Integers, Sequences, FiniteSets
LOCAL INSTANCE SequencesExt
LOCAL INSTANCE FiniteSetsExt

CONSTANTS Noms,             \* the aliases
          Fichiers,         \* the files a user may have written
          Inclus,           \* the lines of the file an Include line names
          Hotes,            \* the hosts a form may ask for; port "" for none
          OPERATIONS_MAX    \* edits of a behaviour

VARIABLES fichier,          \* the lines of ~/.ssh/config
          edition           \* the last edit: what was asked, and its answer
vars == <<fichier, edition>>

Repos == [n |-> 0, genre |-> "", alias |-> "", ok |-> FALSE,
          hote |-> [nom |-> "", hostname |-> "", port |-> "", dossier |-> ""]]
Vide == [k |-> "vide"]

(* The blocks: a Host or a Match line and what follows it.                  *)
Tetes(f) == {i \in DOMAIN f : f[i].k \in {"host", "match"}}
Tete(f, i) == Max({t \in Tetes(f) : t <= i} \cup {0})
Fin(f, i) == Min({t \in Tetes(f) : t > i} \cup {Len(f) + 1}) - 1
SApplique(b, a) == /\ b.k = "host"
                   /\ a \notin b.sauf
                   /\ b.noms \cap {a, "*"} # {}
Litteral(f, a) == {i \in DOMAIN f : f[i].k = "host" /\ SApplique(f[i], a) /\ a \in f[i].noms}

(* Within a block as between blocks, the first value found is kept.         *)
Premiere(f, blocs, k) ==
    LET I == {i \in DOMAIN f : f[i].k = k /\ Tete(f, i) \in blocs} IN
    IF I = {} THEN "" ELSE f[Min(I)].v

Recoudre(f, Morceau(_)) == FlattenSeq([i \in DOMAIN f |-> Morceau(i)])
Lignes(f, I) == Recoudre(f, LAMBDA i : IF i \in I THEN <<f[i]>> ELSE <<>>)

(* The Include lines replaced by what they name, each file once.            *)
Complet(f) ==
    LET Morceau(i) == IF f[i].k # "include" THEN <<f[i]>>
                      ELSE IF \E j \in 1..(i - 1) : f[j].k = "include" THEN <<>>
                      ELSE Append(Inclus, Vide)
    IN  IF \E i \in DOMAIN f : f[i].k = "include" THEN Recoudre(f, Morceau) ELSE f

Declares(f) == UNION {f[i].noms \ {"*"} : i \in {j \in DOMAIN f : f[j].k = "host"}}

Absent == [hostname |-> "absent", port |-> "", dossier |-> ""]
Resoudre(f, a) ==
    LET L == Litteral(f, a)
        B == {i \in DOMAIN f : f[i].k = "host" /\ SApplique(f[i], a)}
    IN  IF L = {} THEN Absent
        ELSE [hostname |-> Premiere(f, L, "hostname"), port |-> Premiere(f, B, "port"),
              dossier |-> Premiere(f, L, "dossier")]

(* The block written for a host: the port by default is not written.        *)
Rendre(h) ==
    <<[k |-> "host", noms |-> {h.nom}, sauf |-> {}], [k |-> "hostname", v |-> h.hostname]>>
    \o (IF h.port \in {"", "22"} THEN <<>> ELSE <<[k |-> "port", v |-> h.port]>>)
    \o (IF h.dossier = "" THEN <<>> ELSE <<[k |-> "dossier", v |-> h.dossier]>>)

(* Only the blocks of that one name are edited.                             *)
Cibles(f, a) == {i \in DOMAIN f : f[i].k = "host" /\ f[i].noms = {a} /\ f[i].sauf = {}}

(* The blank lines and the free comments at the end of a block announce the *)
(* next one; a directive or a marker after them makes them part of it.      *)
Queue_Marqueur(f, i) == /\ i \notin Tetes(f)
                        /\ \A j \in i..Fin(f, i) : f[j].k \in {"vide", "libre", "dossier"}
Queue(f, i) == /\ i \notin Tetes(f)
               /\ \A j \in i..Fin(f, i) : f[j].k \in {"vide", "libre"}

(* No two blank lines in a row, none at the head.                           *)
Compacter(f) ==
    LET Morceau(i) == IF f[i].k = "vide" /\ (i = 1 \/ f[i - 1].k = "vide") THEN <<>>
                      ELSE <<f[i]>>
    IN  Recoudre(f, Morceau)

Sans(f, a) ==
    LET Morceau(i) == IF Tete(f, i) \in Cibles(f, a) /\ ~Queue(f, i) THEN <<>> ELSE <<f[i]>>
    IN  Compacter(Recoudre(f, Morceau))

Regenerees == {"vide", "hostname", "port", "dossier"}
Avec_SansTampon(f, a, h) ==
    LET Preserves(t) == {i \in (t + 1)..Fin(f, t) : f[i].k \notin Regenerees}
        Morceau(i) == IF i \in Cibles(f, a) THEN Rendre(h) \o Lignes(f, Preserves(i))
                      ELSE IF Tete(f, i) \in Cibles(f, a) /\ f[i].k # "vide" THEN <<>>
                      ELSE <<f[i]>>
    IN  Compacter(Recoudre(f, Morceau))
Avec_Derriere(f, a, h) ==
    LET Morceau(i) == IF i \in Cibles(f, a) THEN Rendre(h) ELSE <<f[i]>>
    IN  Compacter(Recoudre(f, Morceau))
Avec(f, a, h) ==
    LET Preserves(t) == {i \in (t + 1)..Fin(f, t) : ~Queue(f, i) /\ f[i].k \notin Regenerees}
        Morceau(i) == IF i \in Cibles(f, a) THEN Rendre(h) \o Lignes(f, Preserves(i))
                      ELSE IF Tete(f, i) \in Cibles(f, a) /\ ~Queue(f, i) THEN <<>>
                      ELSE <<f[i]>>
    IN  Compacter(Recoudre(f, Morceau))

(* The marker follows the last line of the block that is not blank.         *)
Deplacer_EnPlus(f, a, d) ==
    LET Morceau(i) == <<f[i]>> \o (IF d # "" /\ i \in Cibles(f, a)
                                   THEN <<[k |-> "dossier", v |-> d]>> ELSE <<>>)
    IN  Recoudre(f, Morceau)
Deplacer(f, a, d) ==
    LET Place(t) == Max({i \in t..Fin(f, t) : f[i].k \notin {"vide", "dossier"}})
        Morceau(i) == LET t == Tete(f, i) IN
                      IF t \notin Cibles(f, a) THEN <<f[i]>>
                      ELSE (IF f[i].k = "dossier" THEN <<>> ELSE <<f[i]>>)
                           \o (IF d # "" /\ i = Place(t) THEN <<[k |-> "dossier", v |-> d]>>
                               ELSE <<>>)
    IN  Recoudre(f, Morceau)
Suivre_Colle(f, h) == f \o Tail(Rendre(h))
Suivre(f, h) == f \o (IF f = <<>> \/ (Len(f) >= 2 /\ Last(f) = Vide) THEN <<>> ELSE <<Vide>>)
                  \o Rendre(h)
Init == fichier \in Fichiers /\ edition = Repos

Repondre(genre, a, h, ok, f) ==
    /\ edition.n < OPERATIONS_MAX
    /\ edition' = [n |-> edition.n + 1, genre |-> genre, alias |-> a, ok |-> ok, hote |-> h]
    /\ fichier' = IF ok THEN f ELSE fichier

(* append_host: the name is looked for in the whole configuration.          *)
Ajouter_Principal(h) ==
    Repondre("ajouter", h.nom, h, h.nom \notin Declares(fichier), Suivre(fichier, h))
Ajouter(h) ==
    Repondre("ajouter", h.nom, h, h.nom \notin Declares(Complet(fichier)), Suivre(fichier, h))

(* update_host, which may rename.                                           *)
Modifier(a, h) ==
    Repondre("modifier", a, h,
             /\ h.nom = a \/ h.nom \notin Declares(Complet(fichier))
             /\ Cibles(fichier, a) # {},
             Avec(fichier, a, h))

(* remove_host.                                                             *)
Supprimer(a) ==
    Repondre("supprimer", a, Repos.hote, Cibles(fichier, a) # {}, Sans(fichier, a))

(* set_host_folder_at.                                                      *)
Ranger(a, d) ==
    Repondre("ranger", a, [Repos.hote EXCEPT !.dossier = d], Cibles(fichier, a) # {},
             Deplacer(fichier, a, d))

Next == \/ \E h \in Hotes : Ajouter(h)
        \/ \E a \in Noms, h \in Hotes : Modifier(a, h)
        \/ \E a \in Noms : Supprimer(a)
        \/ \E a \in Noms, d \in {"", "d1", "d2"} : Ranger(a, d)
Spec == Init /\ [][Next]_vars
-----------------------------------------------------------------------------
Nommes == {edition.alias, edition.hote.nom}

\* What an edit gives the other aliases: what they had. Their address, the
\* port the pattern blocks give them, their folder, and their being there.
SeulElle ==
    [][fichier' # fichier =>
       LET avant == Complet(fichier)
           apres == Complet(fichier')
       IN  /\ \A a \in Noms \ Nommes' : Resoudre(apres, a) = Resoudre(avant, a)
           /\ edition'.genre = "ranger" =>
              /\ Resoudre(apres, edition'.alias).hostname = Resoudre(avant, edition'.alias).hostname
              /\ Resoudre(apres, edition'.alias).port = Resoudre(avant, edition'.alias).port]_vars

\* The host written is the host asked for: read back from the file it has the
\* address, the folder and (unless it is the default or a pattern block comes
\* first) the port of the form, whatever its block held before; its name is
\* declared once more than never; a removed one is gone; and writing it again
\* changes nothing.
SeuleDeclaration(f, a) == Cardinality(Litteral(f, a)) = 1
EcritureFidele ==
    [][edition'.ok =>
       LET f == Complet(fichier')
           h == edition'.hote
           lu == Resoudre(f, h.nom)
           bloc == Litteral(f, h.nom)
       IN  CASE edition'.genre \in {"ajouter", "modifier"} /\ SeuleDeclaration(f, h.nom) ->
                  /\ lu.hostname = h.hostname
                  /\ lu.dossier = h.dossier
                  /\ Premiere(f, bloc, "port") = (IF h.port = "22" THEN "" ELSE h.port)
                  /\ Avec(fichier', h.nom, h) = Compacter(fichier')
             [] edition'.genre = "ajouter" /\ ~SeuleDeclaration(f, h.nom) -> FALSE
             [] edition'.genre = "supprimer" -> Cibles(fichier', edition'.alias) = {}
             [] edition'.genre = "ranger" /\ SeuleDeclaration(f, edition'.alias) ->
                  Resoudre(f, edition'.alias).dossier = h.dossier
             [] OTHER -> TRUE]_vars

\* What the shell does not write itself stays, in its order: the comments and
\* the directives it does not know, through every edit but the removal of
\* their own block, and those that announce a block still do when the one
\* before is rewritten; a removal takes nothing outside that block, nor the
\* comments that end it, which announce the next one.
Libres(f) == SelectSeq(f, LAMBDA l : l.k \in {"libre", "inconnue", "match", "include"})
Annonces(f, a, K) ==
    {f[i].v : i \in {j \in DOMAIN f :
        /\ f[j].k = "libre"
        /\ \E t \in Cibles(f, a) : j < t /\ \A i \in (j + 1)..(t - 1) : f[i].k \in K}}
LignesGardees ==
    [][fichier' # fichier =>
       IF edition'.genre # "supprimer"
       THEN /\ Libres(fichier') = Libres(fichier)
            /\ edition'.genre # "ranger" => \A a \in Noms \ Nommes' :
                  Annonces(fichier, a, {"vide", "libre"}) = Annonces(fichier', a, {"vide", "libre"})
       ELSE Libres(fichier') =
            Libres(Lignes(fichier,
                {i \in DOMAIN fichier :
                    \/ Tete(fichier, i) \notin Cibles(fichier, edition'.alias)
                    \/ fichier[i].k = "libre" /\
                       \A j \in i..Fin(fichier, i) : fichier[j].k \in {"libre", "vide"}}))]_vars

\* A comment that announces a block, nothing but blank lines, comments or
\* markers between the two, is there as long as that block is (« Les
\* commentaires et les autres hôtes de l'utilisateur restent intacts »). It
\* does not hold: the marker of a folder is put after the comments that end
\* the block, and the removal of that block then takes them for its own.
AnnonceGardee ==
    [][\A a \in Noms \ Nommes' : Cibles(fichier', a) # {} =>
          Annonces(fichier, a, {"vide", "libre", "dossier"}) \subseteq {l.v : l \in
              {fichier'[i] : i \in {j \in DOMAIN fichier' : fichier'[j].k = "libre"}}}]_vars

\* The port of the form is the port the connection takes. It does not hold
\* for 22 where a pattern block gives another.
PortDemande ==
    [][edition'.ok /\ edition'.genre \in {"ajouter", "modifier"} /\ edition'.hote.port # "" =>
       Resoudre(Complet(fichier'), edition'.hote.nom).port = edition'.hote.port]_vars
=============================================================================
