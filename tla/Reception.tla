------------------------------ MODULE Reception ------------------------------
(***************************************************************************)
(* Receiving the files copied on the remote desktop                        *)
(* (rdp-sidecar/src/fichiers.rs, its part in session.rs): the list the     *)
(* remote announces, one reception at a time, its requests in flight, the  *)
(* answers in the order the server likes, the work file and its promotion  *)
(* in a folder where the user's other programs write too.                  *)
(*                                                                         *)
(* Every file is announced under one name, so that names collide: the      *)
(* place k of a name is "name (k)", that of its work file "name (k).part". *)
(* Positions count in pieces.                                              *)
(***************************************************************************)
EXTENDS Naturals, Sequences, FiniteSets

CONSTANTS
  Listes,      \* the lists the remote may announce: sequences of descriptors
  Inconnue,    \* no size in the descriptor
  EN_VOL,      \* requests in flight per file (4)
  PLAGE,       \* stream numbers of one reception (2^20)
  FLUX_MAX,    \* largest stream number (2^32 - 1)
  Places,      \* places of a name, 1 .. 9999
  CoupeCourt,  \* may the server give less than it has?
  ANNONCES_MAX, RECEPTIONS_MAX, GESTES_MAX  \* bounds

\* A descriptor: is it a folder, is its name accepted, the size announced and
\* the one the file has.
Descripteurs == [dossier : BOOLEAN, sur : BOOLEAN, taille : Nat \cup {Inconnue}, vraie : Nat]

ReceptionAssumption ==
  /\ \A l \in 1 .. Len(Listes) : Listes[l] \in Seq(Descripteurs)
  /\ EN_VOL \in Nat \ {0} /\ PLAGE \in Nat \ {0} /\ FLUX_MAX \in Nat \ {0}
  /\ CoupeCourt \in BOOLEAN

VARIABLES
  session,   \* is the session up?
  distants,  \* fichiers_distants: the list to receive, 0 for none
  boucle,    \* the loop: free, or opening the next file
  rec,       \* the reception
  enCours,   \* Reception::en_cours
  ecrit,     \* what the work file holds, by position
  laisse,    \* work file to remove when the loop is done, 0 for none
  plage,     \* plage_flux
  serveur,   \* requests the server has to answer
  cibles,    \* what is at each place of the name
  parts,     \* what is at each place of the work name
  compte,    \* lists announced, receptions begun, gestures of the user
  promus     \* history: the files promoted, and what they hold

recues == <<rec, enCours, ecrit, laisse, plage>>
dossier == <<cibles, parts>>
vars == <<session, distants, boucle, recues, serveur, dossier, compte, promus>>

Nulle == [liste |-> 0, prochain |-> 0, flux |-> 0]
Aucun == [index |-> 0, cible |-> 0, part |-> 0, taille |-> 0, demande |-> 0, recu |-> 0,
          enVol |-> {}, fluxTaille |-> 0]

TypeOK ==
  /\ session \in BOOLEAN /\ boucle \in {"libre", "demarre"}
  /\ distants \in 0 .. Len(Listes)
  /\ rec.liste \in 0 .. Len(Listes) /\ rec.flux \in 0 .. FLUX_MAX
  /\ Cardinality(enCours.enVol) <= EN_VOL
  /\ laisse \in Places \cup {0} /\ plage \in 1 .. FLUX_MAX
  /\ cibles \in [Places -> {"libre", "autrui", "recu"}]
  /\ parts \in [Places -> {"libre", "autrui", "travail"}]

Init ==
  /\ session = TRUE /\ distants = 0 /\ boucle = "libre"
  /\ rec = Nulle /\ enCours = Aucun /\ ecrit = {} /\ laisse = 0 /\ plage = 1
  /\ serveur = {}
  /\ cibles = [k \in Places |-> "libre"] /\ parts = [k \in Places |-> "libre"]
  /\ compte = [annonces |-> 0, receptions |-> 0, gestes |-> 0]
  /\ promus = {}

-----------------------------------------------------------------------------
(* The clipboard of the remote. *)

\* PressePapiersDistantChange: the list is forgotten, unless a reception runs.
Change ==
  /\ session /\ boucle = "libre" /\ rec = Nulle /\ distants # 0
  /\ distants' = 0
  /\ UNCHANGED <<session, boucle, recues, serveur, dossier, compte, promus>>

\* FichiersDistants: the list is shown, and kept for who accepts it.
FichiersDistants(l) ==
  /\ session /\ boucle = "libre" /\ compte.annonces < ANNONCES_MAX
  /\ distants' = l
  /\ compte' = [compte EXCEPT !.annonces = @ + 1]
  /\ UNCHANGED <<session, boucle, recues, serveur, dossier, promus>>

\* Message 16, RECEVOIR: one reception at a time, with numbers of its own.
Recevoir ==
  /\ session /\ boucle = "libre" /\ rec = Nulle /\ distants # 0
  /\ compte.receptions < RECEPTIONS_MAX
  /\ rec' = [liste |-> distants, prochain |-> 1, flux |-> plage]
  /\ boucle' = "demarre"
  /\ compte' = [compte EXCEPT !.receptions = @ + 1]
  /\ UNCHANGED <<session, distants, enCours, ecrit, laisse, plage, serveur, dossier, promus>>

-----------------------------------------------------------------------------
(* Requests. *)

Suivant(f) == LET g == (f + 1) % (FLUX_MAX + 1) IN IF g = 0 THEN 1 ELSE g
Apres(f, n) == LET g == (f + n) % (FLUX_MAX + 1) IN IF g = 0 THEN 1 ELSE g

\* What remplir asks for: up to EN_VOL requests, in order, to the end.
AManquer(e) ==
  LET n == EN_VOL - Cardinality(e.enVol)
      reste == IF e.taille > e.demande THEN e.taille - e.demande ELSE 0
  IN IF n < reste THEN n ELSE reste

Abandonner(e) == enCours' = Aucun /\ boucle' = "demarre" /\ laisse' = e.part

\* preparer_requetes: `n` requests of file `e` leave in order, beside those
\* the server has; the one that the channel refuses counts the file as
\* failed, and the rest stays.
Partie(r, e, j) == [flux |-> Apres(r.flux, j), liste |-> r.liste, index |-> e.index, pos |-> e.demande + j]
Suivies(r, e, n) ==
  [e EXCEPT !.demande = @ + n,
            !.enVol = @ \cup {[flux |-> Apres(r.flux, j - 1), pos |-> e.demande + j - 1] : j \in 1 .. n}]
Envoyer_Perdu(r, e, n, deja) ==
  \E partis \in 0 .. n :
    /\ rec' = [r EXCEPT !.flux = Apres(@, n)]
    /\ serveur' = deja \cup {Partie(r, e, j - 1) : j \in 1 .. partis}
    /\ enCours' = Suivies(r, e, n) /\ boucle' = "libre" /\ laisse' = 0
Envoyer(r, e, n, deja) ==
  \E partis \in 0 .. n :
    /\ rec' = [r EXCEPT !.flux = Apres(@, n)]
    /\ serveur' = deja \cup {Partie(r, e, j - 1) : j \in 1 .. partis}
    /\ IF partis = n THEN enCours' = Suivies(r, e, n) /\ boucle' = "libre" /\ laisse' = 0
       ELSE Abandonner(e)
\* demander_taille: the size first, when the descriptor gives none.
EnvoyerTaille(r, e) ==
  /\ rec' = [r EXCEPT !.flux = Apres(@, 1)]
  /\ \/ /\ enCours' = [e EXCEPT !.fluxTaille = r.flux]
        /\ serveur' = serveur \cup {[flux |-> r.flux, liste |-> r.liste, index |-> e.index, pos |-> Inconnue]}
        /\ boucle' = "libre" /\ laisse' = 0
     \/ Abandonner(e) /\ UNCHANGED serveur

-----------------------------------------------------------------------------
(* The files, one after the other. *)

Libres(noms) == {k \in Places : noms[k] = "libre"}
\* sans_collision, ouvrir_travail: the first name nothing holds.
Premiere(noms) == CHOOSE k \in Libres(noms) : \A j \in Libres(noms) : k <= j
Retirer(noms, k) == IF k = 0 THEN noms ELSE [noms EXCEPT ![k] = "libre"]

\* ouvrir: a file to receive gets a name, a work file and its first requests;
\* the work file of the one before goes only then.
Ouvrir(d) ==
  LET k == Premiere(parts)
      e == [Aucun EXCEPT !.index = rec.prochain, !.cible = Premiere(cibles), !.part = k,
                         !.taille = IF d.taille = Inconnue THEN 0 ELSE d.taille]
      suite == [rec EXCEPT !.prochain = @ + 1]
  IN /\ parts' = Retirer([parts EXCEPT ![k] = "travail"], laisse)
     /\ IF d.taille = Inconnue THEN EnvoyerTaille(suite, e) ELSE Envoyer(suite, e, AManquer(e), serveur)
     /\ ecrit' = {}
     /\ UNCHANGED cibles

\* creer_vide: an empty file is made under the first name that is free.
CreerVide(d) ==
  /\ d.sur /\ ~d.dossier /\ d.taille = 0 /\ Libres(cibles) # {}
  /\ cibles' = [cibles EXCEPT ![Premiere(cibles)] = "recu"]
\* creer_sous: a folder, or the folders of a file, one level after the other,
\* none of them a link; a refused name, or one of these steps that fails.
CreerSous == UNCHANGED cibles

\* demarrer, one turn of its loop.
Demarrer ==
  /\ boucle = "demarre" /\ rec.prochain <= Len(Listes[rec.liste])
  /\ LET d == Listes[rec.liste][rec.prochain] IN
     \/ /\ CreerSous \/ CreerVide(d)
        /\ rec' = [rec EXCEPT !.prochain = @ + 1]
        /\ UNCHANGED <<boucle, enCours, ecrit, laisse, serveur, parts>>
     \/ d.sur /\ ~d.dossier /\ Libres(cibles) # {} /\ d.taille # 0 /\ Libres(parts) # {} /\ Ouvrir(d)
  /\ UNCHANGED <<session, distants, plage, compte, promus>>

\* suivre_reception: nothing left, the balance leaves, the next reception
\* takes other numbers.
Finir_MemePlage ==
  /\ boucle = "demarre" /\ rec.prochain > Len(Listes[rec.liste])
  /\ rec' = Nulle /\ boucle' = "libre" /\ laisse' = 0
  /\ parts' = Retirer(parts, laisse)
  /\ UNCHANGED <<session, distants, enCours, ecrit, plage, serveur, cibles, compte, promus>>
Finir ==
  /\ boucle = "demarre" /\ rec.prochain > Len(Listes[rec.liste])
  /\ rec' = Nulle /\ boucle' = "libre" /\ laisse' = 0
  /\ plage' = Apres(plage, PLAGE)
  /\ parts' = Retirer(parts, laisse)
  /\ UNCHANGED <<session, distants, enCours, ecrit, serveur, cibles, compte, promus>>

\* promouvoir: under the name chosen at the start or the first that nothing
\* holds by now, never over a file; a failure leaves the work file to its end.
Promouvoir_Ecrase ==
  /\ cibles' = [cibles EXCEPT ![enCours.cible] = "recu"]
  /\ parts' = Retirer(parts, enCours.part) /\ laisse' = 0
  /\ promus' = promus \cup {[liste |-> rec.liste, index |-> enCours.index, contenu |-> ecrit']}
Promouvoir ==
  \/ /\ Libres(cibles) # {}
     /\ LET k == IF cibles[enCours.cible] = "libre" THEN enCours.cible ELSE Premiere(cibles)
        IN cibles' = [cibles EXCEPT ![k] = "recu"]
     /\ parts' = Retirer(parts, enCours.part) /\ laisse' = 0
     /\ promus' = promus \cup {[liste |-> rec.liste, index |-> enCours.index, contenu |-> ecrit']}
  \/ laisse' = enCours.part /\ UNCHANGED <<dossier, promus>>

\* promouvoir_et_suivre, or more requests.
Poursuivre(e, deja) ==
  IF e.recu >= e.taille /\ e.enVol = {}
  THEN Promouvoir /\ enCours' = Aucun /\ boucle' = "demarre" /\ serveur' = deja /\ UNCHANGED rec
  ELSE Envoyer(rec, e, AManquer(e), deja) /\ UNCHANGED <<dossier, promus>>

-----------------------------------------------------------------------------
(* Answers, in any order. *)

Repond(q) == session /\ boucle = "libre" /\ q \in serveur
EnVol(q) == [flux |-> q.flux, pos |-> q.pos] \in enCours.enVol
Vraie(q) == Listes[q.liste][q.index].vraie

\* A refusal, or a write that fails: the file is given up.
RecevoirEchec(q) ==
  /\ Repond(q) /\ (EnVol(q) \/ enCours.fluxTaille = q.flux)
  /\ serveur' = serveur \ {q} /\ Abandonner(enCours)
  /\ UNCHANGED <<session, distants, rec, ecrit, plage, dossier, compte, promus>>

\* Octets, written at the place of the request that has this number; short of
\* what was asked, the file ends there.
RecevoirBloc(q) ==
  /\ Repond(q)
  /\ \E v \in enCours.enVol, plein \in BOOLEAN :
       /\ v.flux = q.flux
       /\ plein => q.pos \in Nat /\ q.pos < Vraie(q)
       /\ plein \/ q.pos \notin Nat \/ q.pos >= Vraie(q) \/ CoupeCourt
       /\ ecrit' = IF plein THEN ecrit \cup {[pos |-> v.pos, de |-> <<q.liste, q.index, q.pos>>]} ELSE ecrit
       /\ Poursuivre([enCours EXCEPT !.enVol = @ \ {v},
                                     !.recu = IF plein THEN @ + 1 ELSE @,
                                     !.taille = IF plein \/ @ < v.pos THEN @ ELSE v.pos],
                     serveur \ {q})
  /\ UNCHANGED <<session, distants, plage, compte>>

\* The size, when it had to be asked for: what the folder has no room for is
\* refused before any piece (RecevoirEchec).
RecevoirTaille(q) ==
  /\ Repond(q) /\ q.pos = Inconnue /\ enCours.fluxTaille = q.flux
  /\ ecrit' = ecrit
  /\ Poursuivre([enCours EXCEPT !.fluxTaille = 0, !.taille = Vraie(q)], serveur \ {q})
  /\ UNCHANGED <<session, distants, plage, compte>>

\* An answer to a request that is no longer followed.
Ignorer(q) ==
  /\ Repond(q) /\ enCours.fluxTaille # q.flux /\ \A v \in enCours.enVol : v.flux # q.flux
  /\ serveur' = serveur \ {q}
  /\ UNCHANGED <<session, distants, boucle, recues, dossier, compte, promus>>

-----------------------------------------------------------------------------
(* The session ends, the work file goes with its reception; the user's other  *)
(* programs write in the folder.                                              *)

FinSession_Laisse ==
  /\ session /\ boucle = "libre"
  /\ session' = FALSE
  /\ rec' = Nulle /\ enCours' = Aucun
  /\ UNCHANGED <<distants, boucle, ecrit, laisse, plage, serveur, dossier, compte, promus>>
FinSession ==
  /\ session /\ boucle = "libre"
  /\ session' = FALSE
  /\ rec' = Nulle /\ enCours' = Aucun
  /\ parts' = Retirer(parts, enCours.part)
  /\ UNCHANGED <<distants, boucle, ecrit, laisse, plage, serveur, cibles, compte, promus>>

Local ==
  /\ session /\ compte.gestes < GESTES_MAX
  /\ \E k \in Places :
       \/ cibles[k] = "libre" /\ cibles' = [cibles EXCEPT ![k] = "autrui"] /\ UNCHANGED parts
       \/ parts[k] = "libre" /\ parts' = [parts EXCEPT ![k] = "autrui"] /\ UNCHANGED cibles
  /\ compte' = [compte EXCEPT !.gestes = @ + 1]
  /\ UNCHANGED <<session, distants, boucle, recues, serveur, promus>>

Reponse(q) == RecevoirEchec(q) \/ RecevoirBloc(q) \/ RecevoirTaille(q) \/ Ignorer(q)

Next ==
  \/ Change \/ Recevoir \/ Demarrer \/ Finir \/ FinSession \/ Local
  \/ \E l \in 1 .. Len(Listes) : FichiersDistants(l)
  \/ \E q \in serveur : RecevoirEchec(q) \/ RecevoirBloc(q) \/ RecevoirTaille(q) \/ Ignorer(q)

\* The loop goes on, and the server answers each request while the session
\* lasts (or the library closes it as one that had no answer).
Equite ==
  /\ WF_vars(Demarrer) /\ WF_vars(Finir)
  /\ WF_vars(\E q \in serveur : Reponse(q))

Spec == Init /\ [][Next]_vars /\ Equite

-----------------------------------------------------------------------------
(* Properties. *)

\* Nothing the user has is replaced, emptied or removed, under the name of the
\* file or of its work file, even if it appeared while the file was received.
RienEcrase ==
  [][ \A k \in Places : /\ cibles[k] # "libre" => cibles'[k] = cibles[k]
                        /\ parts[k] = "autrui" => parts'[k] = "autrui" ]_vars

\* A file is promoted with what the server has of it, each piece at its place,
\* and nothing else: no late answer of another file or of another reception.
RecuFidele ==
  \A r \in promus :
    r.contenu = {[pos |-> p - 1, de |-> <<r.liste, r.index, p - 1>>] : p \in 1 .. Listes[r.liste][r.index].vraie}

\* The work file lasts as long as its reception, session cut included.
PartRetiree ==
  boucle = "libre" =>
    {k \in Places : parts[k] = "travail"} = (IF enCours.part = 0 THEN {} ELSE {enCours.part})

\* A reception ends, each of its files received or counted in its errors:
\* a request the channel refuses or the server rejects does not hold it.
ReceptionAboutit == (rec # Nulle) ~> (rec = Nulle)

\* A file is promoted once complete: no hole before its last piece.
PromuSansTrou ==
  \A r \in promus : \A c \in r.contenu : \A p \in 0 .. c.pos : \E d \in r.contenu : d.pos = p
===============================================================================
