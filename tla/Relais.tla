-------------------------------- MODULE Relais --------------------------------
(***************************************************************************)
(* The copy of a file from one server to another through this machine      *)
(* (preparer_relais, promouvoir_distant and relayer_vers of                *)
(* crates/avash/src/sftp.rs): a partial file at the target, filled by      *)
(* bands that each have their own descriptor, then promoted to its name.   *)
(* A descriptor follows the file it opened, whatever name that file takes. *)
(***************************************************************************)
EXTENDS Naturals

CONSTANTS
  Copies,      \* copies towards the one target
  LesBandes,      \* bands of the source (none when it is empty)
  Remplace,    \* does the rename of this server replace a file?
  Ensemble,    \* may the copies run together?
  COPIES_MAX,  \* bound: copies begun
  FICHIERS     \* bound: identities of files at the target's host

Noms == {"cible", "partiel"}
Aucun == 0

VARIABLES
  noms,      \* the two names at the target's host: the file each designates
  contenu,   \* what each file holds, band by band
  copie,     \* the copies
  lancees    \* copies begun

vars == <<noms, contenu, copie, lancees>>

Fichiers == 1 .. FICHIERS
Etats == {"repos", "cible", "partiel", "cree", "bandes", "retire", "promet", "tente",
          "ecarte", "renomme", "fini", "refuse", "echec", "garde"}
Repos == [etat |-> "repos", refuser |-> FALSE, annule |-> FALSE,
          bande |-> [b \in LesBandes |-> "attend"], ouvert |-> [b \in LesBandes |-> Aucun]]

TypeOK ==
  /\ noms \in [Noms -> Fichiers \cup {Aucun}]
  /\ contenu \in [Fichiers -> [LesBandes -> {"trou", "ancien", "neuf"}]]
  /\ \A k \in Copies :
       /\ copie[k].etat \in Etats
       /\ copie[k].bande \in [LesBandes -> {"attend", "ouverte", "faite", "courte", "erreur"}]
       /\ copie[k].ouvert \in [LesBandes -> Fichiers \cup {Aucun}]

Init ==
  /\ noms \in {[n \in Noms |-> Aucun], [n \in Noms |-> IF n = "cible" THEN 1 ELSE Aucun]}
  /\ contenu = [f \in Fichiers |-> [b \in LesBandes |-> IF f = 1 THEN "ancien" ELSE "trou"]]
  /\ copie = [k \in Copies |-> Repos]
  /\ lancees = 0

EnCours(k) == copie[k].etat \notin {"repos", "fini", "refuse", "echec", "garde"}
Existe(n) == noms[n] # Aucun
Entier(f) == \E v \in {"ancien", "neuf"} : \A b \in LesBandes : contenu[f][b] = v
Libre(f) == \A n \in Noms : noms[n] # f /\ \A k \in Copies, b \in LesBandes : copie[k].ouvert[b] # f
Va(k, etat) == copie' = [copie EXCEPT ![k].etat = etat]
\* The end of a copy closes its descriptors.
Clot(k, etat) == copie' = [copie EXCEPT ![k] = [Repos EXCEPT !.etat = etat]]

-----------------------------------------------------------------------------
(* preparer_relais. *)

Lancer(k, refuser) ==
  /\ ~EnCours(k) /\ lancees < COPIES_MAX
  /\ Ensemble \/ \A j \in Copies : ~EnCours(j)
  /\ copie' = [copie EXCEPT ![k] = [Repos EXCEPT !.etat = "cible", !.refuser = refuser]]
  /\ lancees' = lancees + 1
  /\ UNCHANGED <<noms, contenu>>

\* The copy of one file refuses to write over the target, or over the bytes an
\* earlier copy left; the copy of a folder merges.
VerifierCible(k) ==
  /\ copie[k].etat = "cible"
  /\ IF copie[k].refuser /\ Existe("cible") THEN Clot(k, "refuse") ELSE Va(k, "partiel")
  /\ UNCHANGED <<noms, contenu, lancees>>
VerifierPartiel(k) ==
  /\ copie[k].etat = "partiel"
  /\ IF copie[k].refuser /\ Existe("partiel") THEN Clot(k, "refuse") ELSE Va(k, "cree")
  /\ UNCHANGED <<noms, contenu, lancees>>

\* The partial is created, or emptied when it is there.
Creer(k) ==
  /\ copie[k].etat = "cree"
  /\ \E f \in Fichiers :
       /\ IF Existe("partiel") THEN f = noms["partiel"]
          ELSE Libre(f) /\ \A g \in Fichiers : Libre(g) => f <= g
       /\ noms' = [noms EXCEPT !["partiel"] = f]
       /\ contenu' = [contenu EXCEPT ![f] = [b \in LesBandes |-> "trou"]]
  /\ Va(k, "bandes")
  /\ UNCHANGED lancees

-----------------------------------------------------------------------------
(* The bands of relayer_vers, all at once. *)

OuvrirBande(k, b) ==
  /\ copie[k].etat = "bandes" /\ copie[k].bande[b] = "attend"
  /\ copie' = [copie EXCEPT ![k].bande[b] = IF Existe("partiel") THEN "ouverte" ELSE "erreur",
                            ![k].ouvert[b] = noms["partiel"]]
  /\ UNCHANGED <<noms, contenu, lancees>>

\* A band is written in full; or the source ends before it; or it stops, on an
\* error or a cancellation, with a hole behind it.
EcrireBande(k, b) ==
  /\ copie[k].etat = "bandes" /\ copie[k].bande[b] = "ouverte" /\ ~copie[k].annule
  /\ contenu' = [contenu EXCEPT ![copie[k].ouvert[b]][b] = "neuf"]
  /\ copie' = [copie EXCEPT ![k].bande[b] = "faite"]
  /\ UNCHANGED <<noms, lancees>>
ArreterBande(k, b, issue) ==
  /\ copie[k].etat = "bandes" /\ copie[k].bande[b] \in {"attend", "ouverte"}
  /\ issue = "courte" => copie[k].bande[b] = "ouverte"
  /\ copie' = [copie EXCEPT ![k].bande[b] = issue]
  /\ UNCHANGED <<noms, contenu, lancees>>
Annuler(k) ==
  /\ copie[k].etat = "bandes" /\ ~copie[k].annule
  /\ copie' = [copie EXCEPT ![k].annule = TRUE]
  /\ UNCHANGED <<noms, contenu, lancees>>

\* join_all, then the count of the bytes: an error or a short band takes the
\* partial away, else it is promoted.
EnPromotion == {"promet", "tente", "ecarte", "renomme"}
Rendues(k) == \A b \in LesBandes : copie[k].bande[b] \notin {"attend", "ouverte"}
Bilan_SansCompte(k) ==
  /\ copie[k].etat = "bandes" /\ Rendues(k)
  /\ Va(k, IF \E b \in LesBandes : copie[k].bande[b] = "erreur" THEN "retire" ELSE "promet")
  /\ UNCHANGED <<noms, contenu, lancees>>
Bilan(k) ==
  /\ copie[k].etat = "bandes" /\ Rendues(k)
  /\ Va(k, IF \A b \in LesBandes : copie[k].bande[b] = "faite" THEN "promet" ELSE "retire")
  /\ UNCHANGED <<noms, contenu, lancees>>
Retirer(k) ==
  /\ copie[k].etat = "retire"
  /\ noms' = [noms EXCEPT !["partiel"] = Aucun]
  /\ Clot(k, "echec")
  /\ UNCHANGED <<contenu, lancees>>

-----------------------------------------------------------------------------
(* promouvoir_distant: each step is a call to the server, with the others'    *)
(* between.                                                                   *)

Promettre(k) ==
  /\ copie[k].etat = "promet"
  /\ Va(k, IF Existe("cible") THEN "tente" ELSE "renomme")
  /\ UNCHANGED <<noms, contenu, lancees>>

Renommable == Existe("partiel") /\ (Remplace \/ ~Existe("cible"))
Renommage == noms' = [n \in Noms |-> IF n = "cible" THEN noms["partiel"] ELSE Aucun]

Tenter(k) ==
  /\ copie[k].etat = "tente"
  /\ IF Renommable THEN Renommage /\ Clot(k, "fini") ELSE Va(k, "ecarte") /\ UNCHANGED noms
  /\ UNCHANGED <<contenu, lancees>>

\* The file in place is removed; a failure says that the bytes are in the partial.
Ecarter(k) ==
  /\ copie[k].etat = "ecarte"
  /\ IF Existe("cible") THEN Va(k, "renomme") ELSE Clot(k, "garde")
  /\ noms' = [noms EXCEPT !["cible"] = Aucun]
  /\ UNCHANGED <<contenu, lancees>>

Renommer_SansGarde(k) ==
  /\ copie[k].etat = "renomme"
  /\ \/ Renommable /\ Renommage /\ Clot(k, "fini")
     \/ noms' = [noms EXCEPT !["partiel"] = Aucun] /\ Clot(k, "garde")
  /\ UNCHANGED <<contenu, lancees>>
Renommer(k) ==
  /\ copie[k].etat = "renomme"
  /\ \/ Renommable /\ Renommage /\ Clot(k, "fini")
     \/ UNCHANGED noms /\ Clot(k, "garde")
  /\ UNCHANGED <<contenu, lancees>>

\* Any other call fails, the connection breaks or the application goes: what is
\* at the target stays as it is.
Couper(k) ==
  /\ EnCours(k)
  /\ Clot(k, IF copie[k].etat \in EnPromotion THEN "garde" ELSE "echec")
  /\ UNCHANGED <<noms, contenu, lancees>>

Next ==
  \E k \in Copies :
    \/ \E refuser \in BOOLEAN : Lancer(k, refuser)
    \/ VerifierCible(k) \/ VerifierPartiel(k) \/ Creer(k)
    \/ \E b \in LesBandes :
         OuvrirBande(k, b) \/ EcrireBande(k, b) \/ \E issue \in {"courte", "erreur"} : ArreterBande(k, b, issue)
    \/ Annuler(k) \/ Bilan(k) \/ Retirer(k)
    \/ Promettre(k) \/ Tenter(k) \/ Ecarter(k) \/ Renommer(k) \/ Couper(k)

Spec == Init /\ [][Next]_vars

-----------------------------------------------------------------------------
(* Properties. *)

\* Whatever the order of the calls, the failures and the cuts, the name asked
\* for never designates a fragment: the former file, the new one, or nothing.
CibleEntiere == Existe("cible") => Entier(noms["cible"])

\* From its last byte on, whatever fails or is cut, a copy leaves its bytes in
\* full at the server: under the partial's name, as its error then says, or
\* under the target's.
PromotionSansPerte ==
  [][\A k \in Copies : copie[k].etat \in EnPromotion
       => \E n \in Noms : noms'[n] # Aucun /\ \A b \in LesBandes : contenu'[noms'[n]][b] = "neuf"]_vars

\* The file in place is never taken away without one to put there: what a copy
\* replaces stays whole until the last byte is there (true of one copy at a time).
EcarteAvecReleve ==
  [][Existe("cible") /\ noms'["cible"] = Aucun => Existe("partiel") /\ Entier(noms["partiel"])]_vars
===============================================================================
