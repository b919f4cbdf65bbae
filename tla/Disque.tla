-------------------------------- MODULE Disque --------------------------------
(***************************************************************************)
(* The shared drive of a desktop (rdp-sidecar/src/disque.rs): the server   *)
(* opens, reads, writes, lists, renames and deletes in one folder of the   *)
(* workstation, through handles.  One thread handles its requests one by   *)
(* one and leaves the answers in a bounded queue that the session's loop   *)
(* writes.  The user of the workstation works in the same folder.          *)
(*                                                                         *)
(* Contents are "empty or not"; a path is a sequence of names, the shared  *)
(* folder being <<"r">>.  What a request asks is chosen when the thread    *)
(* takes it, which is all a server can tell from it.                       *)
(***************************************************************************)
EXTENDS Naturals, Sequences, FiniteSets, SequencesExt

CONSTANTS
  Noms, Sous,       \* names of entries of the folder, of its folders
  Arbres,           \* trees the folder may start as
  Inodes,           \* identities of files
  OUVERTS_MAX,      \* handles the server may hold (512)
  ID_MAX,           \* largest handle number (2^32 - 1)
  REPONSES_EN_VOL,  \* answers between the thread and the loop (8)
  DEMANDES_MAX,     \* bound: requests without an answer
  REQUETES_MAX,     \* bound: requests of the session
  GESTES_MAX        \* bound: what the user does in the folder

VARIABLES
  fs,         \* the tree: what is at each path
  plein,      \* has this file content?
  ouverts,    \* Lecteur::ouverts
  prochain,   \* Lecteur::prochain
  envoyees,   \* requests the server has sent
  demandes,   \* requests in the channel towards the thread, and the one it handles
  renommage,  \* the renaming the thread is in: what it looked at the destination
  reponse,    \* the answer the thread holds
  enVol,      \* answers in the bounded queue
  attendues,  \* requests the server has no answer to
  session,    \* does the loop still take answers?
  gestes,     \* what the user did
  photo,      \* history: the listing asked for, per handle
  vues        \* history: the entries given of it

disque == <<fs, plein>>
lecteur == <<ouverts, prochain>>
file == <<envoyees, enVol, attendues, session>>
histoire == <<photo, vues>>
vars == <<disque, lecteur, demandes, renommage, reponse, file, gestes, histoire>>

-----------------------------------------------------------------------------
(* The file system of the workstation. *)

Racine == <<"r">>
Chemins == {<<"r">>, <<"x">>} \cup ({"r", "x"} \X Noms) \cup ({"r"} \X Noms \X Sous)
Rien == [t |-> "rien"]
Dossier == [t |-> "dossier"]
Fichier(i) == [t |-> "fichier", i |-> i]
Noeuds == {Rien, Dossier, [t |-> "special"]} \cup {Fichier(i) : i \in Inodes} \cup [t : {"lien"}, vers : Chemins]

Parent(p) == Front(p)
\* What is in the tree is in a folder of the tree.
EstArbre(t) == \A q \in Chemins : t[q] # Rien /\ Len(q) > 1 => t[Parent(q)] = Dossier

ASSUME DisqueAssumption ==
  /\ IsFiniteSet(Noms)
  /\ Arbres \subseteq [Chemins -> Noeuds] /\ \A t \in Arbres : EstArbre(t)
  /\ OUVERTS_MAX \in Nat \ {0} /\ ID_MAX \in Nat /\ ID_MAX > OUVERTS_MAX
  /\ REPONSES_EN_VOL \in Nat \ {0} /\ DEMANDES_MAX \in Nat
  /\ REQUETES_MAX \in Nat /\ GESTES_MAX \in Nat

SousRacine(p) == IsPrefix(Racine, p)
Enfants(t, p) == {q \in Chemins : t[q] # Rien /\ Len(q) > 1 /\ Parent(q) = p}
Existe(p) == p \in Chemins /\ fs[p] # Rien
EstDossier(p) == p \in Chemins /\ fs[p] = Dossier
EstFichier(p) == p \in Chemins /\ fs[p].t = "fichier"
Presents(t) == {i \in Inodes : \E p \in Chemins : t[p] = Fichier(i)}
Libres == Inodes \ (Presents(fs) \cup {ouverts[h].i : h \in {k \in DOMAIN ouverts : ~ouverts[k].repertoire}})

\* std::fs::rename: a subtree changes its name.
Source(s, d, q) == s \o SubSeq(q, Len(d) + 1, Len(q))
Deplace(s, d) ==
  [q \in Chemins |->
     IF IsPrefix(d, q) THEN IF Source(s, d, q) \in Chemins THEN fs[Source(s, d, q)] ELSE Rien
     ELSE IF IsPrefix(s, q) THEN Rien
     ELSE fs[q]]
\* Bound: the tree is as deep as Chemins.
Tient(s, d) ==
  \A q \in Chemins : fs[q] # Rien /\ IsPrefix(s, q) => Source(d, s, q) \in Chemins
RenommageAdmis(s, d) ==
  /\ Existe(s) /\ ~IsPrefix(s, d)
  /\ \/ EstFichier(s) /\ ~EstDossier(d)
     \/ EstDossier(s) /\ (~Existe(d) \/ (EstDossier(d) /\ Enfants(fs, d) = {}))

\* canonicalize, of a folder: links followed.
Canonique(p) ==
  IF EstDossier(p) THEN p
  ELSE IF Existe(p) /\ fs[p].t = "lien" /\ EstDossier(fs[p].vers) THEN fs[p].vers
  ELSE <<>>

-----------------------------------------------------------------------------
Reponses == {"aucune", "succes", "remplace", "refus"}
\* No renaming; one whose destination was looked at (`vu`: what was there).
Aucun == [t |-> "aucun"]
Vu(h, d, remplacer) == [t |-> "vu", h |-> h, vers |-> d, remplacer |-> remplacer, vu |-> fs[d]]
Poignees == [chemin : Chemins, i : Inodes \cup {0}, repertoire : BOOLEAN, supprimer : BOOLEAN,
             ecriture : BOOLEAN, entrees : Seq(Noms \cup {".", ".."}), position : Nat]

TypeOK ==
  /\ fs \in [Chemins -> Noeuds]
  /\ plein \in [Inodes -> BOOLEAN]
  /\ DOMAIN ouverts \subseteq 1 .. ID_MAX
  /\ \A h \in DOMAIN ouverts : ouverts[h] \in Poignees
  /\ prochain \in 0 .. ID_MAX
  /\ envoyees \in 0 .. REQUETES_MAX
  /\ demandes \in 0 .. DEMANDES_MAX /\ attendues \in 0 .. DEMANDES_MAX
  /\ reponse \in Reponses
  /\ renommage # Aucun => /\ renommage.h \in DOMAIN ouverts /\ renommage.vers \in Chemins
                         /\ demandes > 0 /\ reponse = "aucune"
  /\ enVol \in 0 .. REPONSES_EN_VOL
  /\ session \in BOOLEAN
  /\ gestes \in 0 .. GESTES_MAX
  /\ DOMAIN photo = DOMAIN ouverts /\ DOMAIN vues = DOMAIN ouverts

\* Lecteur::nouveau: the folder is resolved once, and is one.
Init ==
  /\ fs \in Arbres /\ fs[Racine] = Dossier
  /\ plein = [i \in Inodes |-> i \in Presents(fs)]
  /\ ouverts = <<>> /\ prochain = 1
  /\ envoyees = 0 /\ demandes = 0 /\ renommage = Aucun /\ reponse = "aucune"
  /\ enVol = 0 /\ attendues = 0
  /\ session = TRUE /\ gestes = 0
  /\ photo = <<>> /\ vues = <<>>

-----------------------------------------------------------------------------
(* The requests, the thread, and the loop that writes the answers. *)

\* handle_drive_io_request: the channel hands the request to the thread.
Demander ==
  /\ attendues < DEMANDES_MAX /\ envoyees < REQUETES_MAX /\ session
  /\ envoyees' = envoyees + 1
  /\ demandes' = demandes + 1 /\ attendues' = attendues + 1
  /\ UNCHANGED <<disque, lecteur, renommage, reponse, enVol, session, gestes, histoire>>

Libre == demandes > 0 /\ renommage = Aucun /\ reponse = "aucune"
\* The thread has the answer of the request it took.
Repond(r) ==
  /\ demandes > 0 /\ reponse = "aucune"
  /\ demandes' = demandes - 1
  /\ renommage' = Aucun
  /\ reponse' = r
  /\ UNCHANGED <<file, gestes>>
Selon(ok) == IF ok THEN "succes" ELSE "refus"
Refuse == Repond("refus") /\ UNCHANGED <<disque, lecteur, histoire>>

\* `blocking_send`: waits for a place in the queue.
Deposer_Perdu ==
  /\ reponse # "aucune" /\ reponse' = "aucune"
  /\ enVol' = IF enVol < REPONSES_EN_VOL THEN enVol + 1 ELSE enVol
  /\ UNCHANGED <<disque, lecteur, demandes, renommage, envoyees, attendues, session, gestes, histoire>>
Deposer ==
  /\ reponse # "aucune" /\ enVol < REPONSES_EN_VOL
  /\ enVol' = enVol + 1 /\ reponse' = "aucune"
  /\ UNCHANGED <<disque, lecteur, demandes, renommage, envoyees, attendues, session, gestes, histoire>>

\* The session's loop writes an answer on the channel; the server matches it.
Ecrire ==
  /\ enVol > 0 /\ session
  /\ enVol' = enVol - 1 /\ attendues' = attendues - 1
  /\ UNCHANGED <<disque, lecteur, demandes, renommage, reponse, envoyees, session, gestes, histoire>>

\* The session ends: the queue closes, the thread ends what it is in and returns at
\* its next answer, and the handles go with it.
FinSession ==
  /\ session /\ renommage = Aucun /\ session' = FALSE
  /\ ouverts' = <<>> /\ photo' = <<>> /\ vues' = <<>>
  /\ demandes' = 0 /\ reponse' = "aucune" /\ enVol' = 0 /\ attendues' = 0
  /\ UNCHANGED <<disque, prochain, renommage, envoyees, gestes>>

-----------------------------------------------------------------------------
(* Opening. *)

\* resoudre: a path of the server, brought back under the folder.  A name
\* that is no plain one is refused as such.
Resoudre_Libre(p) ==
  IF p = Racine THEN p
  ELSE LET parent == Canonique(Parent(p))
       IN IF parent = <<>> THEN <<>> ELSE parent \o <<Last(p)>>
Resoudre(p) ==
  IF p = Racine THEN p
  ELSE LET parent == Canonique(Parent(p))
           chemin == parent \o <<Last(p)>>
       IN IF parent # <<>> /\ SousRacine(parent) /\ chemin \in Chemins /\ fs[chemin].t # "lien"
          THEN chemin ELSE <<>>

\* wrapping_add(1).
Suivant(n) == IF n = ID_MAX THEN 0 ELSE n + 1
\* How many times from the next number to n.
Pas(n) == IF n >= prochain THEN n - prochain ELSE n + ID_MAX + 1 - prochain
NumerosLibres == (1 .. ID_MAX) \ DOMAIN ouverts
\* enregistrer: the next number that is neither zero nor in use.
Numero == CHOOSE n \in NumerosLibres : \A m \in NumerosLibres : Pas(n) <= Pas(m)

Enregistrer(p, i, rep, ecr) ==
  LET avec(f, v) == [h \in DOMAIN f \cup {Numero} |-> IF h = Numero THEN v ELSE f[h]]
  IN /\ ouverts' = avec(ouverts, [chemin |-> p, i |-> i, repertoire |-> rep, supprimer |-> FALSE,
                                  ecriture |-> ecr, entrees |-> <<>>, position |-> 0])
     /\ prochain' = Suivant(Numero)
     /\ photo' = avec(photo, <<>>) /\ vues' = avec(vues, <<>>)

OuvrirDossier(p, disposition) ==
  \/ /\ disposition \in {"OPEN", "OPEN_IF"} /\ EstDossier(p)
     /\ Repond("succes") /\ Enregistrer(p, 0, TRUE, FALSE) /\ UNCHANGED disque
  \/ /\ disposition \in {"CREATE", "OPEN_IF"} /\ ~Existe(p)
     /\ Repond("succes") /\ Enregistrer(p, 0, TRUE, FALSE)
     /\ fs' = [fs EXCEPT ![p] = Dossier] /\ UNCHANGED plein
  \/ /\ \/ disposition \in {"OVERWRITE", "OVERWRITE_IF", "SUPERSEDE"}
        \/ disposition = "CREATE" /\ Existe(p)
        \/ disposition = "OPEN" /\ ~EstDossier(p)
        \/ disposition = "OPEN_IF" /\ Existe(p) /\ ~EstDossier(p)
     /\ Refuse

Tronque == {"OVERWRITE", "OVERWRITE_IF", "SUPERSEDE"}

\* The access asked for is "lecture", "ecriture", or "max", which gives way on
\* a file that may only be read (`inscriptible`: may it be written?).
OuvrirFichier(p, disposition) ==
  \/ /\ Existe(p) /\ EstFichier(p) /\ disposition # "CREATE"
     /\ \E acces \in {"lecture", "ecriture", "max"}, inscriptible \in BOOLEAN :
        LET ecrire == acces = "ecriture" \/ disposition \in Tronque
            i == fs[p].i
        IN \/ /\ ecrire => inscriptible
              /\ Repond("succes")
              /\ Enregistrer(p, i, FALSE, inscriptible /\ (ecrire \/ acces = "max"))
              /\ plein' = [plein EXCEPT ![i] = @ /\ disposition \notin Tronque]
              /\ UNCHANGED fs
           \/ ecrire /\ ~inscriptible /\ Refuse
  \/ /\ ~Existe(p) /\ disposition \notin {"OPEN", "OVERWRITE"}
     /\ \E i \in Libres :
          /\ i = CHOOSE j \in Libres : TRUE
          /\ Repond("succes") /\ Enregistrer(p, i, FALSE, TRUE)
          /\ fs' = [fs EXCEPT ![p] = Fichier(i)]
          /\ plein' = [plein EXCEPT ![i] = FALSE]
  \/ /\ \/ Existe(p) /\ (disposition = "CREATE" \/ ~EstFichier(p))
        \/ ~Existe(p) /\ disposition \in {"OPEN", "OVERWRITE"}
     /\ Refuse

\* ouvrir: the bound first, before anything is done on the disk.
Ouvrir_Tard(distant, dossier, disposition) ==
  LET p == Resoudre(distant) IN
  \/ p = <<>> /\ Refuse
  \/ /\ p # <<>> /\ Cardinality(DOMAIN ouverts) < OUVERTS_MAX
     /\ IF dossier \/ EstDossier(p) THEN OuvrirDossier(p, disposition)
        ELSE OuvrirFichier(p, disposition)
  \/ /\ p # <<>> /\ Cardinality(DOMAIN ouverts) >= OUVERTS_MAX
     /\ IF dossier /\ disposition \in {"CREATE", "OPEN_IF"} /\ ~Existe(p)
        THEN Repond("refus") /\ fs' = [fs EXCEPT ![p] = Dossier] /\ UNCHANGED <<plein, lecteur, histoire>>
        ELSE Refuse
Ouvrir(distant, dossier, disposition) ==
  LET p == Resoudre(distant) IN
  IF Cardinality(DOMAIN ouverts) >= OUVERTS_MAX \/ p = <<>> THEN Refuse
  ELSE IF dossier \/ EstDossier(p) THEN OuvrirDossier(p, disposition)
  ELSE OuvrirFichier(p, disposition)

-----------------------------------------------------------------------------
(* Handles. *)

Sauf(f, h) == [k \in DOMAIN f \ {h} |-> f[k]]

\* fermer: the handle goes, then what it was asked to delete, by its path; a
\* folder only if it is empty by then.
Fermer_Recursif(h) ==
  LET o == ouverts[h] IN
  /\ ouverts' = Sauf(ouverts, h) /\ photo' = Sauf(photo, h) /\ vues' = Sauf(vues, h)
  /\ UNCHANGED <<plein, prochain>>
  /\ Repond("succes")
  /\ fs' = IF o.supprimer THEN [q \in Chemins |-> IF IsPrefix(o.chemin, q) THEN Rien ELSE fs[q]] ELSE fs
Fermer(h) ==
  LET o == ouverts[h]
      part == IF o.repertoire THEN EstDossier(o.chemin) /\ Enfants(fs, o.chemin) = {}
                              ELSE Existe(o.chemin) /\ ~EstDossier(o.chemin)
  IN /\ ouverts' = Sauf(ouverts, h) /\ photo' = Sauf(photo, h) /\ vues' = Sauf(vues, h)
     /\ UNCHANGED <<plein, prochain>>
     /\ Repond(Selon(o.supprimer => part))
     /\ fs' = IF o.supprimer /\ part THEN [fs EXCEPT ![o.chemin] = Rien] ELSE fs

\* lire_bloc: the content of the file that was opened, whatever its path.
Lire(h) ==
  /\ Repond(Selon(~ouverts[h].repertoire))
  /\ UNCHANGED <<disque, lecteur, histoire>>

\* ecrire_bloc: what the volume cannot hold is refused before anything is written; a
\* writing that fails on its way is refused with a part written.
EcrireBloc(h) ==
  LET o == ouverts[h] IN
  \/ /\ ~o.repertoire /\ o.ecriture
     /\ \E r \in {"succes", "refus"}, ecrit \in BOOLEAN :
          Repond(r) /\ plein' = [plein EXCEPT ![o.i] = @ \/ ecrit]
     /\ UNCHANGED <<fs, lecteur, histoire>>
  \/ ~(~o.repertoire /\ o.ecriture) /\ Refuse

\* EndOfFile, within what the volume has left, and Allocation, which may cut
\* the file but never makes it grow.
Tailler(h, allocation, taille) ==
  LET o == ouverts[h] IN
  \/ /\ ~o.repertoire /\ o.ecriture
     /\ Repond("succes")
     /\ plein' = [plein EXCEPT ![o.i] = taille /\ (allocation => @)]
     /\ UNCHANGED <<fs, lecteur, histoire>>
  \/ Refuse

\* Basic: the read-only bit, as far as the system lets it be set.
Modifier(h) == Repond("succes") /\ UNCHANGED <<disque, lecteur, histoire>>

\* informations_de: the metadata of the path.
Informer(h) ==
  /\ Repond(Selon(Existe(ouverts[h].chemin)))
  /\ UNCHANGED <<disque, lecteur, histoire>>

\* volume_de, surveillance, verrou, DeviceControl; a handle that is not open.
Autre == \E ok \in BOOLEAN : Repond(Selon(ok)) /\ UNCHANGED <<disque, lecteur, histoire>>

\* The entries of a folder that match, "." and ".." first, then by name; only
\* files and folders.
Liste(p, motif) ==
  LET pris(n) == motif = "*" \/ motif = n
      noms == {n \in Noms : pris(n) /\ \E q \in Enfants(fs, p) : Last(q) = n /\ fs[q].t \in {"fichier", "dossier"}}
  IN (IF motif = "*" THEN <<".", "..">> ELSE <<>>) \o SetToSeq(noms)

\* entree_suivante: the first request takes the snapshot, each gives one
\* entry, the one past the last frees the snapshot.
Enumerer_SansRetour(h, initial, motif) ==
  LET o == ouverts[h]
      liste == IF initial THEN Liste(o.chemin, motif) ELSE o.entrees
      pos == o.position
      reste == pos < Len(liste)
  IN /\ o.repertoire
     /\ Repond(Selon(reste))
     /\ ouverts' = [ouverts EXCEPT ![h].entrees = IF reste THEN liste ELSE <<>>,
                                   ![h].position = IF reste THEN pos + 1 ELSE pos]
     /\ photo' = [photo EXCEPT ![h] = IF initial THEN liste ELSE @]
     /\ vues' = [vues EXCEPT ![h] = (IF initial THEN <<>> ELSE @) \o (IF reste THEN <<liste[pos + 1]>> ELSE <<>>)]
     /\ UNCHANGED <<disque, prochain>>
Enumerer(h, initial, motif) ==
  LET o == ouverts[h]
      liste == IF initial THEN Liste(o.chemin, motif) ELSE o.entrees
      pos == IF initial THEN 0 ELSE o.position
      reste == pos < Len(liste)
  IN IF ~o.repertoire \/ (initial /\ (~EstDossier(o.chemin) \/ liste = <<>>)) THEN Refuse
     ELSE /\ Repond(Selon(reste))
          /\ ouverts' = [ouverts EXCEPT ![h].entrees = IF reste THEN liste ELSE <<>>,
                                        ![h].position = IF reste THEN pos + 1 ELSE pos]
          /\ photo' = [photo EXCEPT ![h] = IF initial THEN liste ELSE @]
          /\ vues' = [vues EXCEPT ![h] = (IF initial THEN <<>> ELSE @)
                                         \o (IF reste THEN <<liste[pos + 1]>> ELSE <<>>)]
          /\ UNCHANGED <<disque, prochain>>

EstLaRacine(h) == ouverts[h].chemin = Racine

\* Disposition: marked for deletion at the close, or no longer.
Marquer(h, supprimer) ==
  LET o == ouverts[h] IN
  IF supprimer /\ (EstLaRacine(h) \/ (o.repertoire /\ (~EstDossier(o.chemin) \/ Enfants(fs, o.chemin) # {})))
  THEN Refuse
  ELSE /\ Repond("succes")
       /\ ouverts' = [ouverts EXCEPT ![h].supprimer = supprimer]
       /\ UNCHANGED <<disque, prochain, histoire>>

\* Rename: the destination is looked at, which refuses a collision...
TesterRenommage_SansVoir(h, distant, remplacer) ==
  LET d == Resoudre(distant)
  IN IF EstLaRacine(h) \/ d = <<>> THEN Refuse
     ELSE IF d = ouverts[h].chemin
          THEN Repond(IF remplacer THEN "remplace" ELSE "succes") /\ UNCHANGED <<disque, lecteur, histoire>>
     ELSE /\ renommage' = Vu(h, d, remplacer)
          /\ UNCHANGED <<disque, lecteur, demandes, reponse, file, gestes, histoire>>
TesterRenommage(h, distant, remplacer) ==
  LET d == Resoudre(distant)
  IN IF EstLaRacine(h) \/ d = <<>> THEN Refuse
     ELSE IF Existe(d) /\ ~remplacer THEN Refuse
     ELSE IF d = ouverts[h].chemin
          THEN Repond(IF remplacer THEN "remplace" ELSE "succes") /\ UNCHANGED <<disque, lecteur, histoire>>
     ELSE /\ renommage' = Vu(h, d, remplacer)
          /\ UNCHANGED <<disque, lecteur, demandes, reponse, file, gestes, histoire>>

\* ... then the file system renames, whatever is there by now: the path of this handle
\* follows, and of no other.
Renommer ==
  /\ renommage # Aucun
  /\ LET h == renommage.h
         s == ouverts[h].chemin
         d == renommage.vers
     IN IF ~RenommageAdmis(s, d) THEN Refuse
        ELSE /\ Tient(s, d)
             /\ Repond(IF renommage.remplacer THEN "remplace" ELSE "succes")
             /\ fs' = Deplace(s, d)
             /\ ouverts' = [ouverts EXCEPT ![h].chemin = d]
             /\ UNCHANGED <<plein, prochain, histoire>>

-----------------------------------------------------------------------------
(* The user of the workstation, in the same folder. *)

Local ==
  /\ session /\ gestes < GESTES_MAX /\ gestes' = gestes + 1
  /\ \E p \in Chemins :
       /\ Len(p) > 1 /\ SousRacine(p) /\ EstDossier(Parent(p))
       /\ \/ /\ ~Existe(p)
             /\ \E i \in Libres :
                  /\ i = CHOOSE j \in Libres : TRUE
                  /\ fs' = [fs EXCEPT ![p] = Fichier(i)]
                  /\ plein' = [plein EXCEPT ![i] = TRUE]
          \/ EstFichier(p) /\ fs' = [fs EXCEPT ![p] = Rien] /\ UNCHANGED plein
  /\ UNCHANGED <<lecteur, demandes, renommage, reponse, file, histoire>>

Distants == {p \in Chemins : SousRacine(p)}

Next ==
  \/ Demander \/ Deposer \/ Ecrire \/ FinSession \/ Local
  \/ Renommer
  \/ Libre /\ Autre
  \/ /\ Libre
     /\ \E p \in Distants, dossier \in BOOLEAN,
          d \in {"OPEN", "CREATE", "OPEN_IF", "OVERWRITE", "OVERWRITE_IF", "SUPERSEDE"} : Ouvrir(p, dossier, d)
  \/ Libre /\ \E h \in DOMAIN ouverts :
       \/ Fermer(h) \/ Lire(h) \/ EcrireBloc(h) \/ Informer(h) \/ Modifier(h)
       \/ \E a \in BOOLEAN, b \in BOOLEAN : Tailler(h, a, b)
       \/ \E b \in BOOLEAN : Marquer(h, b)
       \/ \E b \in BOOLEAN, m \in Noms \cup {"*"} : Enumerer(h, b, m)
       \/ \E p \in Distants, b \in BOOLEAN : TesterRenommage(h, p, b)

Spec == Init /\ [][Next]_vars

-----------------------------------------------------------------------------
(* Properties. *)

Traite == reponse = "aucune" /\ reponse' # "aucune"

\* Nothing but the shared folder: whatever the sequence of openings, renamings
\* and closes, links included, the folder itself stays where it is, nothing
\* outside changes, and every handle is on a path of the folder.
RacineTenue ==
  /\ EstDossier(Racine)
  /\ \A h \in DOMAIN ouverts : SousRacine(ouverts[h].chemin)
  /\ 0 \notin DOMAIN ouverts /\ Cardinality(DOMAIN ouverts) <= OUVERTS_MAX

\* A request that is refused creates, removes, moves and empties nothing: no file is
\* created or emptied for a handle that is then not given.  The one thing it may leave
\* is the part of a block that was written before the writing failed, in a file that
\* stands open for writing.
RefusSansEffet ==
  [][ Traite /\ reponse' = "refus" =>
        /\ fs' = fs
        /\ \A i \in Inodes : plein'[i] # plein[i] =>
             /\ plein'[i]
             /\ \E h \in DOMAIN ouverts :
                  ouverts[h].ecriture /\ ~ouverts[h].repertoire /\ ouverts[h].i = i ]_vars

\* Between the look at the destination of a renaming and the renaming, the user put this
\* file there: the thread has seen something else.
PoseEntreDeux(p) ==
  renommage # Aucun /\ renommage.vers = p /\ renommage.vu # fs[p]

\* A file of the folder disappears only because the server closed a handle on
\* its very path that it had marked, or renamed over it asking to replace: what the user
\* put in a folder marked while it was empty stays.  A renaming that does not ask to
\* replace takes the place of no file it could see; the window it leaves is that of one
\* look, and a file put there meanwhile is lost.
RienDePerdu ==
  [][ Traite =>
        \A p \in Chemins : EstFichier(p) /\ fs[p].i \notin Presents(fs') =>
          \/ reponse' = "remplace"
          \/ PoseEntreDeux(p)
          \/ \E h \in DOMAIN ouverts \ DOMAIN ouverts' : ouverts[h].supprimer /\ ouverts[h].chemin = p ]_vars

\* A listing gives each entry of the folder as it was when it was asked for,
\* once and in order, and all of them before it says there are no more.
EnumerationFidele ==
  \A h \in DOMAIN ouverts :
    /\ IsPrefix(vues[h], photo[h])
    /\ ouverts[h].entrees = <<>> => vues[h] = photo[h]

\* Each request is answered, once: it waits in the channel, in the hands of
\* the thread or in the bounded queue, which never drops one.
ReponseTenue ==
  attendues = demandes + enVol + (IF reponse = "aucune" THEN 0 ELSE 1)

\* The shared folder keeps its root, gives each listing whole and each request one
\* answer.
DossierTenu == RacineTenue /\ EnumerationFidele /\ ReponseTenue

\* What a close deletes is what its handle had opened.
SuppressionVisee ==
  [][ \A h \in DOMAIN ouverts \ DOMAIN ouverts' :
        ouverts[h].supprimer /\ ~ouverts[h].repertoire =>
          Presents(fs) \ Presents(fs') \subseteq {ouverts[h].i} ]_vars
===============================================================================
