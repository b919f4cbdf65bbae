--------------------------- MODULE TunnelsPreuves --------------------------
(***************************************************************************)
(* Theorems about Tunnels, for every number of definitions, starts, stops, *)
(* tries and reloads.                                                      *)
(*                                                                         *)
(* PasDeFuite counts the owners of a tunnel.  What is inductive is that    *)
(* ownership only changes hands: whoever has a tunnel has one that is open *)
(* (Possession), nobody shares it, and every open tunnel is had by someone *)
(* (Tenu).  Who may still open one has none yet (Vierge).                  *)
(***************************************************************************)
EXTENDS Tunnels, FiniteSetTheorems, TLAPS

-----------------------------------------------------------------------------
(* Types.                                                                  *)

FichesDepart == [etape : EtapesDepart, id : Ids, tient : Departs \cup {Personne},
                 verdict : Verdicts, essai : 0 .. MaxEssais - 1, page : 0 .. MaxRecharges]

FichesArret == [etape : EtapesArret, id : Ids, tient : Departs \cup {Personne},
                geste : {"arreter", "annuler", "supprimer"}, page : 0 .. MaxRecharges]

\* A password is only asked for again while a try is left.
EssaiReste == \A d \in Departs : dep[d].etape = "ressaisie" => dep[d].essai < MaxEssais - 1

TypesInv == TypeOK /\ EssaiReste

LEMMA TypesInit == Init => TypesInv
<1> SUFFICES ASSUME Init PROVE TypesInv
  OBVIOUS
<1>1. (CHOOSE id \in Ids : TRUE) \in Ids
  BY TunnelsAssumption
<1>2. DepartVide \in FichesDepart /\ DepartVide.etape = "libre"
  BY <1>1, TunnelsAssumption DEF DepartVide, FichesDepart, EtapesDepart, Verdicts
<1>3. ArretVide \in FichesArret
  BY <1>1, TunnelsAssumption DEF ArretVide, FichesArret, EtapesArret
<1>4. QED
  BY <1>2, <1>3, TunnelsAssumption
     DEF Init, TypesInv, TypeOK, EssaiReste, FichesDepart, FichesArret, EtatsTunnel

\* The record of one start, replaced by another of the right form.
LEMMA FicheType ==
  ASSUME TypesInv, NEW d \in Departs, NEW r \in FichesDepart,
         dep' = [dep EXCEPT ![d] = r], r.etape = "ressaisie" => r.essai < MaxEssais - 1
  PROVE  dep' \in [Departs -> FichesDepart] /\ EssaiReste'
BY DEF TypesInv, TypeOK, EssaiReste, FichesDepart

LEMMA FicheLue ==
  ASSUME TypesInv, NEW d \in Departs
  PROVE  /\ dep[d] \in FichesDepart
         /\ dep[d].etape \in EtapesDepart /\ dep[d].id \in Ids
         /\ dep[d].tient \in Departs \cup {Personne}
         /\ dep[d].essai \in 0 .. MaxEssais - 1
         /\ dep[d].page \in 0 .. MaxRecharges
BY DEF TypesInv, TypeOK, FichesDepart

LEMMA AllerType ==
  ASSUME TypesInv, NEW d \in Departs, NEW e \in EtapesDepart, Aller(d, e),
         e = "ressaisie" => dep[d].essai < MaxEssais - 1
  PROVE  dep' \in [Departs -> FichesDepart] /\ EssaiReste'
<1>1. dep' = [dep EXCEPT ![d] = [dep[d] EXCEPT !.etape = e]]
  BY DEF Aller, TypesInv, TypeOK
<1>2. [dep[d] EXCEPT !.etape = e] \in FichesDepart
  BY FicheLue DEF FichesDepart
<1>3. QED BY <1>1, <1>2, FicheType, FicheLue DEF FichesDepart

LEMMA RepondreType ==
  ASSUME TypesInv, NEW d \in Departs, NEW v \in Verdicts, Repondre(d, v)
  PROVE  dep' \in [Departs -> FichesDepart] /\ EssaiReste'
<1>1. dep' = [dep EXCEPT ![d] = [dep[d] EXCEPT !.etape = "repondu", !.verdict = v]]
  BY DEF Repondre, TypesInv, TypeOK
<1>2. [dep[d] EXCEPT !.etape = "repondu", !.verdict = v] \in FichesDepart
  BY FicheLue DEF FichesDepart, EtapesDepart
<1>3. QED BY <1>1, <1>2, FicheType, FicheLue DEF FichesDepart

\* A start that goes on with a tunnel in its hands, or lets go of it.
LEMMA TenirType ==
  ASSUME TypesInv, NEW d \in Departs, NEW e \in EtapesDepart \ {"ressaisie"},
         NEW t \in Departs \cup {Personne},
         dep' = [dep EXCEPT ![d].etape = e, ![d].tient = t]
  PROVE  dep' \in [Departs -> FichesDepart] /\ EssaiReste'
<1>1. dep' = [dep EXCEPT ![d] = [dep[d] EXCEPT !.etape = e, !.tient = t]]
  BY DEF TypesInv, TypeOK
<1>2. [dep[d] EXCEPT !.etape = e, !.tient = t] \in FichesDepart
  BY FicheLue DEF FichesDepart
<1>3. QED BY <1>1, <1>2, FicheType, FicheLue DEF FichesDepart

LEMMA LibererType ==
  ASSUME TypesInv, NEW d \in Departs, LibererLigne(d)
  PROVE  busy' \in SUBSET Ids /\ ouvertures' \in [Ids -> Departs \cup {Personne}]
BY FicheLue DEF LibererLigne, IdDe, TypesInv, TypeOK

LEMMA FermerType ==
  ASSUME TypesInv, NEW t \in Departs \cup {Personne}, FermerTunnel(t)
  PROVE  tun' \in [Departs -> EtatsTunnel]
BY DEF FermerTunnel, TypesInv, TypeOK, EtatsTunnel

\* The record of one stop, replaced by another of the right form.
LEMMA ArretType ==
  ASSUME TypesInv, NEW s \in Arrets, NEW r \in FichesArret, arr' = [arr EXCEPT ![s] = r]
  PROVE  arr' \in [Arrets -> FichesArret]
BY DEF TypesInv, TypeOK, FichesArret

LEMMA ArretLu ==
  ASSUME TypesInv, NEW s \in Arrets
  PROVE  /\ arr[s] \in FichesArret
         /\ arr[s].id \in Ids /\ arr[s].tient \in Departs \cup {Personne}
BY DEF TypesInv, TypeOK, FichesArret

LEMMA TypesPas == TypesInv /\ [Next]_vars => TypesInv'
<1> SUFFICES ASSUME TypesInv, [Next]_vars PROVE TypesInv'
  OBVIOUS
<1> USE FicheLue, ArretLu
\* What is left of TypeOK once the records are dealt with.
<1> DEFINE Reste ==
      /\ defs \in SUBSET Ids /\ inner \in [Ids -> Departs \cup {Personne}]
      /\ en_cours \in SUBSET Ids /\ annules \in SUBSET Ids
      /\ tun \in [Departs -> EtatsTunnel]
      /\ busy \in SUBSET Ids /\ ouvertures \in [Ids -> Departs \cup {Personne}]
      /\ recharges \in 0 .. MaxRecharges /\ visees \in SUBSET SUBSET Departs
<1> HIDE DEF Reste
<1>a. Reste
  BY DEF Reste, TypesInv, TypeOK
<1>b. /\ dep \in [Departs -> FichesDepart] /\ EssaiReste
      /\ arr \in [Arrets -> FichesArret]
  BY DEF TypesInv, TypeOK, FichesDepart, FichesArret
<1>c. Reste' /\ dep' \in [Departs -> FichesDepart] /\ EssaiReste' /\ arr' \in [Arrets -> FichesArret]
        => TypesInv'
  BY DEF Reste, TypesInv, TypeOK, FichesDepart, FichesArret
<1>d. UNCHANGED dep => EssaiReste'
  BY <1>b DEF EssaiReste
<1>1. ASSUME NEW d \in Departs, NEW id \in Ids, Cliquer(d, id) PROVE TypesInv'
  <2> DEFINE r == [DepartVide EXCEPT !.etape = "demande", !.id = id, !.page = recharges]
  <2>1. r \in FichesDepart /\ r.etape # "ressaisie"
    <3>1. DepartVide \in FichesDepart
      BY TunnelsAssumption DEF DepartVide, FichesDepart, EtapesDepart, Verdicts
    <3>2. "demande" \in EtapesDepart /\ recharges \in 0 .. MaxRecharges
      BY <1>a DEF Reste, EtapesDepart
    <3> HIDE DEF DepartVide
    <3>3. QED BY <3>1, <3>2 DEF FichesDepart
  <2>2. dep' = [dep EXCEPT ![d] = r]
    BY <1>1 DEF Cliquer
  <2> HIDE DEF r
  <2>3. dep' \in [Departs -> FichesDepart] /\ EssaiReste'
    BY <2>1, <2>2, FicheType
  <2>4. Reste'
    BY <1>1, <1>a DEF Cliquer, Reste, storeVars, frontVars
  <2>5. QED BY <1>1, <2>3, <2>4, <1>b, <1>c DEF Cliquer
<1>2. ASSUME NEW d \in Departs, Renoncer(d) PROVE TypesInv'
  <2>1. dep' \in [Departs -> FichesDepart] /\ EssaiReste'
    BY <1>2, AllerType DEF Renoncer, EtapesDepart
  <2>2. QED BY <1>2, <2>1, <1>a, <1>b, <1>c DEF Renoncer, Reste, storeVars, frontVars
<1>3. ASSUME NEW d \in Departs, Appeler(d) PROVE TypesInv'
  <2>1. dep' \in [Departs -> FichesDepart] /\ EssaiReste'
    BY <1>3, AllerType DEF Appeler, EtapesDepart
  <2>2. QED BY <1>3, <2>1, <1>a, <1>b, <1>c DEF Appeler, Reste, storeVars, IdDe
<1>4. ASSUME NEW d \in Departs, RecevoirReponse(d) PROVE TypesInv'
  <2>1. dep' \in [Departs -> FichesDepart] /\ EssaiReste'
    <3>1. CASE Aller(d, "fin")
      BY <3>1, AllerType DEF EtapesDepart
    <3>2. CASE dep[d].essai < MaxEssais - 1 /\ Aller(d, "ressaisie")
      BY <3>2, AllerType DEF EtapesDepart
    <3>3. QED BY <1>4, <3>1, <3>2 DEF RecevoirReponse
  <2>2. busy' \in SUBSET Ids /\ ouvertures' \in [Ids -> Departs \cup {Personne}]
    BY <1>4, <1>a, LibererType DEF RecevoirReponse, Reste
  <2>3. QED BY <1>4, <2>1, <2>2, <1>a, <1>b, <1>c DEF RecevoirReponse, Reste, storeVars
<1>5. ASSUME NEW d \in Departs, Ressaisir(d) PROVE TypesInv'
  <2>1. dep' \in [Departs -> FichesDepart] /\ EssaiReste'
    <3>1. CASE Aller(d, "fin")
      BY <3>1, AllerType DEF EtapesDepart
    <3>2. CASE dep' = [dep EXCEPT ![d].etape = "lecture", ![d].essai = @ + 1,
                                  ![d].verdict = "aucun"]
      <4> DEFINE r == [dep[d] EXCEPT !.etape = "lecture", !.essai = @ + 1, !.verdict = "aucun"]
      <4>1. dep' = [dep EXCEPT ![d] = r]
        BY <3>2, <1>b
      <4>2. dep[d].essai + 1 \in 0 .. MaxEssais - 1
        BY <1>5, <1>b, TunnelsAssumption DEF Ressaisir, EssaiReste
      <4>3. r \in FichesDepart /\ r.etape = "lecture"
        BY <4>2 DEF FichesDepart, EtapesDepart, Verdicts
      <4> HIDE DEF r
      <4>4. QED BY <4>1, <4>3, FicheType
    <3>3. QED BY <1>5, <3>1, <3>2 DEF Ressaisir
  <2>2. busy' \in SUBSET Ids /\ ouvertures' \in [Ids -> Departs \cup {Personne}]
    BY <1>5, <1>a, LibererType DEF Ressaisir, Reste
  <2>3. QED BY <1>5, <2>1, <2>2, <1>a, <1>b, <1>c DEF Ressaisir, Reste, storeVars
<1>6. ASSUME NEW d \in Departs, Lire(d) PROVE TypesInv'
  <2>1. dep' \in [Departs -> FichesDepart] /\ EssaiReste'
    BY <1>6, AllerType, RepondreType DEF Lire, EtapesDepart, Verdicts
  <2>2. QED BY <1>6, <2>1, <1>a, <1>b, <1>c DEF Lire, Reste, storeVars, frontVars
<1>7. ASSUME NEW d \in Departs, Inscrire(d) PROVE TypesInv'
  <2>1. dep' \in [Departs -> FichesDepart] /\ EssaiReste'
    <3>1. inner[IdDe(d)] \in Departs \cup {Personne}
      BY <1>a DEF Reste, IdDe
    <3>2. "remplace" \in EtapesDepart \ {"ressaisie"}
      BY DEF EtapesDepart
    <3>3. QED BY <1>7, <3>1, <3>2, TenirType DEF Inscrire
  <2>2. QED BY <1>7, <2>1, <1>a, <1>b, <1>c DEF Inscrire, Reste, frontVars, IdDe
<1>8. ASSUME NEW d \in Departs, FermerPrecedent(d) PROVE TypesInv'
  <2>1. dep' \in [Departs -> FichesDepart] /\ EssaiReste'
    BY <1>8, TenirType DEF FermerPrecedent, EtapesDepart
  <2>2. tun' \in [Departs -> EtatsTunnel]
    BY <1>8, FermerType DEF FermerPrecedent
  <2>3. QED BY <1>8, <2>1, <2>2, <1>a, <1>b, <1>c DEF FermerPrecedent, Reste, storeVars, frontVars
<1>9. ASSUME NEW d \in Departs, EchecOuverture(d) PROVE TypesInv'
  <2>1. dep' \in [Departs -> FichesDepart] /\ EssaiReste'
    BY <1>9, RepondreType DEF EchecOuverture, Verdicts
  <2>2. QED BY <1>9, <2>1, <1>a, <1>b, <1>c DEF EchecOuverture, Reste, storeVars, frontVars
<1>10. ASSUME NEW d \in Departs, Ouvrir(d) PROVE TypesInv'
  <2>1. dep' \in [Departs -> FichesDepart] /\ EssaiReste'
    BY <1>10, AllerType DEF Ouvrir, EtapesDepart
  <2>2. QED BY <1>10, <2>1, <1>a, <1>b, <1>c DEF Ouvrir, Reste, storeVars, frontVars, EtatsTunnel
<1>11. ASSUME NEW d \in Departs, Poser(d) PROVE TypesInv'
  <2>1. dep' \in [Departs -> FichesDepart] /\ EssaiReste'
    <3>1. inner[IdDe(d)] \in Departs \cup {Personne}
      BY <1>a DEF Reste, IdDe
    <3>2. "evince" \in EtapesDepart \ {"ressaisie"} /\ "ok" \in Verdicts
      BY DEF EtapesDepart, Verdicts
    <3>3. CASE Repondre(d, "ok")
      BY <3>2, <3>3, RepondreType
    <3>4. ASSUME NEW t \in Departs \cup {Personne},
                 dep' = [dep EXCEPT ![d].etape = "evince", ![d].tient = t]
          PROVE  dep' \in [Departs -> FichesDepart] /\ EssaiReste'
      BY <3>2, <3>4, TenirType
    <3>5. QED BY <1>11, <3>1, <3>3, <3>4 DEF Poser
  <2>2. inner' \in [Ids -> Departs \cup {Personne}]
    BY <1>11, <1>a DEF Poser, Reste
  <2>3. QED BY <1>11, <2>1, <2>2, <1>a, <1>b, <1>c DEF Poser, Reste, frontVars
<1>12. ASSUME NEW d \in Departs, FermerEvince(d) PROVE TypesInv'
  <2>1. dep' \in [Departs -> FichesDepart] /\ EssaiReste'
    BY <1>12, TenirType DEF FermerEvince, EtapesDepart
  <2>2. tun' \in [Departs -> EtatsTunnel]
    BY <1>12, FermerType DEF FermerEvince
  <2>3. QED BY <1>12, <2>1, <2>2, <1>a, <1>b, <1>c DEF FermerEvince, Reste, storeVars, frontVars
<1>13. ASSUME NEW d \in Departs, Revoir(d) PROVE TypesInv'
  <2>1. dep' \in [Departs -> FichesDepart] /\ EssaiReste'
    BY <1>13, RepondreType DEF Revoir, Verdicts
  <2>2. QED BY <1>13, <2>1, <1>a, <1>b, <1>c DEF Revoir, Reste, storeVars, frontVars
<1>14. ASSUME NEW d \in Departs, Perdre(d) PROVE TypesInv'
  <2>1. tun' \in [Departs -> EtatsTunnel]
    BY <1>14, <1>a DEF Perdre, Reste, EtatsTunnel
  <2>2. QED BY <1>14, <2>1, <1>a, <1>b, <1>c, <1>d DEF Perdre, Reste, storeVars, frontVars
<1>15. ASSUME NEW s \in Arrets, NEW id \in Ids, DemanderArret(s, id) PROVE TypesInv'
  <2>1. PICK geste \in {"arreter", "annuler", "supprimer"} :
          arr' = [arr EXCEPT ![s] = [ArretVide EXCEPT !.geste = geste, !.id = id, !.page = recharges,
                    !.etape = IF geste = "supprimer" THEN "confirme" ELSE "appele"]]
    BY <1>15 DEF DemanderArret
  <2> DEFINE r == [ArretVide EXCEPT !.geste = geste, !.id = id, !.page = recharges,
                    !.etape = IF geste = "supprimer" THEN "confirme" ELSE "appele"]
  <2>2. r \in FichesArret
    BY <1>a DEF Reste, ArretVide, FichesArret, EtapesArret
  <2> HIDE DEF r
  <2>3. arr' \in [Arrets -> FichesArret]
    BY <2>1, <2>2, ArretType DEF r
  <2>4. QED BY <1>15, <2>3, <1>a, <1>b, <1>c, <1>d DEF DemanderArret, Reste, storeVars, frontVars
<1>16. ASSUME NEW s \in Arrets, Confirmer(s) PROVE TypesInv'
  <2>1. arr' \in [Arrets -> FichesArret]
    BY <1>16, <1>b DEF Confirmer, FichesArret, EtapesArret
  <2>2. QED BY <1>16, <2>1, <1>a, <1>b, <1>c, <1>d DEF Confirmer, Reste, storeVars, frontVars
<1>17. ASSUME NEW s \in Arrets, RecevoirArret(s) PROVE TypesInv'
  <2>1. arr' \in [Arrets -> FichesArret]
    BY <1>17, <1>b DEF RecevoirArret, FichesArret, EtapesArret
  <2>2. QED BY <1>17, <2>1, <1>a, <1>b, <1>c, <1>d DEF RecevoirArret, Reste, storeVars
<1>18. ASSUME NEW s \in Arrets, Executer(s) PROVE TypesInv'
  <2>1. arr' \in [Arrets -> FichesArret]
    <3> DEFINE r == [arr[s] EXCEPT !.etape = "ferme", !.tient = inner[arr[s].id]]
    <3>1. arr' = [arr EXCEPT ![s] = r]
      BY <1>18, <1>b DEF Executer
    <3>2. inner[arr[s].id] \in Departs \cup {Personne}
      BY <1>a DEF Reste
    <3>3. r \in FichesArret
      BY <3>2 DEF FichesArret, EtapesArret
    <3>4. QED BY <3>1, <3>3, ArretType
  <2>2. visees' \in SUBSET SUBSET Departs /\ annules' \in SUBSET Ids
    BY <1>18, <1>a DEF Executer, EnVolDe, Reste
  <2>3. inner' \in [Ids -> Departs \cup {Personne}]
    BY <1>18, <1>a DEF Executer, Reste
  <2>4. defs' = defs /\ en_cours' = en_cours /\ tun' = tun /\ dep' = dep /\ UNCHANGED frontVars
    BY <1>18 DEF Executer
  <2>5. QED BY <2>1, <2>2, <2>3, <2>4, <1>a, <1>b, <1>c, <1>d DEF Reste, frontVars
<1>19. ASSUME NEW s \in Arrets, Fermer(s) PROVE TypesInv'
  <2>1. arr' \in [Arrets -> FichesArret]
    <3> DEFINE r == [arr[s] EXCEPT !.tient = Personne,
                       !.etape = IF arr[s].geste = "supprimer" THEN "retire" ELSE "repondu"]
    <3>1. arr' = [arr EXCEPT ![s] = r]
      BY <1>19, <1>b DEF Fermer
    <3>2. r \in FichesArret
      BY DEF FichesArret, EtapesArret
    <3>3. QED BY <3>1, <3>2, ArretType
  <2>2. tun' \in [Departs -> EtatsTunnel]
    BY <1>19, FermerType DEF Fermer
  <2>3. QED BY <1>19, <2>1, <2>2, <1>a, <1>b, <1>c, <1>d DEF Fermer, Reste, storeVars, frontVars
<1>20. ASSUME NEW s \in Arrets, RetirerDefinition(s) PROVE TypesInv'
  <2>1. arr' \in [Arrets -> FichesArret]
    BY <1>20, <1>b DEF RetirerDefinition, FichesArret, EtapesArret
  <2>2. QED BY <1>20, <2>1, <1>a, <1>b, <1>c, <1>d DEF RetirerDefinition, Reste, frontVars
<1>21. ASSUME Recharger PROVE TypesInv'
  <2>1. recharges' \in 0 .. MaxRecharges
    BY <1>21, <1>a, TunnelsAssumption DEF Recharger, Reste
  <2>2. QED BY <1>21, <2>1, <1>a, <1>b, <1>c, <1>d DEF Recharger, Reste, storeVars
<1>22. CASE UNCHANGED vars
  BY <1>22, <1>a, <1>b, <1>c, <1>d DEF Reste, vars
<1>23. QED
  BY <1>1, <1>2, <1>3, <1>4, <1>5, <1>6, <1>7, <1>8, <1>9, <1>10, <1>11, <1>12, <1>13, <1>14,
     <1>15, <1>16, <1>17, <1>18, <1>19, <1>20, <1>21, <1>22
     DEF Next, Coeur, CoeurArret

\* Type correctness (TypeOK) of every state the program reaches; in
\* particular a password is never tried more than MaxEssais times.
THEOREM TypeCorrect == Spec => []TypeOK
<1>1. TypesInv => TypeOK
  BY DEF TypesInv
<1>2. QED BY <1>1, TypesInit, TypesPas, PTL DEF Spec

-----------------------------------------------------------------------------
(* Ownership.                                                              *)

\* Before its listener is open a start has no tunnel; when it is about to
\* install one, it has.
Vierge ==
  /\ \A d \in Departs :
       \/ dep[d].etape \in {"libre", "demande", "lecture", "lu", "remplace", "connexion",
                            "ressaisie"}
       \/ dep[d].etape = "repondu" /\ dep[d].verdict = "mdp"
       => tun[d] = "aucun"
  /\ \A d \in Departs : dep[d].etape = "pose" => tun[d] \in Ouverts

\* What one may have: a tunnel open and past its own installation.
Cessible(t) == t \in Departs /\ tun[t] \in Ouverts /\ dep[t].etape # "pose"

\* The store, a start or a stop that has a tunnel has an open one, alone.
DuMagasin ==
  \A id \in Ids : inner[id] # Personne =>
    /\ Cessible(inner[id])
    /\ dep[inner[id]].id = id
    /\ \A d \in Departs : dep[d].tient # inner[id]
    /\ \A s \in Arrets : arr[s].tient # inner[id]

DesDeparts ==
  \A d \in Departs : dep[d].tient # Personne =>
    /\ dep[d].etape \in {"remplace", "evince"}
    /\ Cessible(dep[d].tient)
    /\ \A e \in Departs : dep[e].tient = dep[d].tient => e = d
    /\ \A s \in Arrets : arr[s].tient # dep[d].tient

DesArrets ==
  \A s \in Arrets : arr[s].tient # Personne =>
    /\ arr[s].etape = "ferme"
    /\ Cessible(arr[s].tient)
    /\ \A a \in Arrets : arr[a].tient = arr[s].tient => a = s

Possession == DuMagasin /\ DesDeparts /\ DesArrets

\* An open tunnel is had.
Tenu ==
  \A t \in Departs : tun[t] \in Ouverts =>
    \/ dep[t].etape = "pose"
    \/ \E id \in Ids : inner[id] = t
    \/ \E d \in Departs : dep[d].tient = t
    \/ \E s \in Arrets : arr[s].tient = t

PartageInv == TypesInv /\ Vierge /\ Possession /\ Tenu

LEMMA PartageInit == Init => PartageInv
<1> SUFFICES ASSUME Init PROVE PartageInv
  OBVIOUS
<1>1. \A d \in Departs : dep[d].etape = "libre" /\ dep[d].tient = Personne
  BY DEF Init, DepartVide
<1>2. \A s \in Arrets : arr[s].tient = Personne
  BY DEF Init, ArretVide
<1>3. \A d \in Departs : tun[d] = "aucun"
  BY DEF Init
<1>4. QED
  BY <1>1, <1>2, <1>3, TypesInit
     DEF Init, PartageInv, Vierge, Possession, DuMagasin, DesDeparts, DesArrets, Tenu, Ouverts

\* A start moves on without touching a tunnel.
LEMMA Avance ==
  ASSUME PartageInv, TypesInv', NEW d \in Departs,
         UNCHANGED <<inner, tun, arr>>,
         \A e \in Departs \ {d} : dep'[e] = dep[e],
         dep'[d].tient = dep[d].tient,
         dep[d].tient = Personne,
         dep[d].etape # "pose", dep'[d].etape # "pose",
         dep'[d].id = dep[d].id \/ dep[d].etape = "libre",
         \/ tun[d] = "aucun"
         \/ dep'[d].etape = "fin"
         \/ dep'[d].etape = "repondu" /\ dep'[d].verdict # "mdp"
  PROVE  PartageInv'
<1>1. Vierge'
  BY DEF PartageInv, Vierge
<1>2. Possession'
  <2>1. \A t : Cessible(t) => Cessible(t)'
    BY DEF Cessible
  <2>2. \A e \in Departs : dep'[e].tient = dep[e].tient
    OBVIOUS
  <2>3. \A t \in Departs : Cessible(t) => dep'[t].id = dep[t].id
    BY DEF PartageInv, Vierge, Cessible, Ouverts
  <2>4. DuMagasin'
    BY <2>1, <2>2, <2>3 DEF PartageInv, Possession, DuMagasin, Cessible
  <2>5. DesDeparts'
    BY <2>1, <2>2 DEF PartageInv, Possession, DesDeparts
  <2>6. DesArrets'
    BY <2>1 DEF PartageInv, Possession, DesArrets
  <2>7. QED BY <2>4, <2>5, <2>6 DEF Possession
<1>3. Tenu'
  BY DEF PartageInv, Tenu
<1>4. QED BY <1>1, <1>2, <1>3 DEF PartageInv

\* A stop moves on without touching a tunnel.
LEMMA ArretAvance ==
  ASSUME PartageInv, TypesInv', NEW s \in Arrets,
         UNCHANGED <<inner, tun, dep>>,
         \A a \in Arrets \ {s} : arr'[a] = arr[a],
         arr[s].tient = Personne, arr'[s].tient = Personne
  PROVE  PartageInv'
<1>1. Vierge'
  BY DEF PartageInv, Vierge
<1>2. \A a \in Arrets : arr'[a].tient = arr[a].tient
  OBVIOUS
<1>3. DuMagasin' /\ DesDeparts'
  BY <1>2 DEF PartageInv, Possession, DuMagasin, DesDeparts, Cessible
<1>4. DesArrets'
  BY <1>2 DEF PartageInv, Possession, DesArrets, Cessible
<1>5. Tenu'
  BY <1>2 DEF PartageInv, Tenu
<1>6. QED BY <1>1, <1>3, <1>4, <1>5 DEF PartageInv, Possession

\* The records of the starts after a step of d.
LEMMA Autres ==
  ASSUME TypesInv, NEW d \in Departs, NEW e, NEW t,
         dep' = [dep EXCEPT ![d].etape = e, ![d].tient = t]
  PROVE  /\ \A f \in Departs \ {d} : dep'[f] = dep[f]
         /\ dep'[d].etape = e /\ dep'[d].tient = t
         /\ dep'[d].id = dep[d].id /\ dep'[d].verdict = dep[d].verdict
<1>1. dep \in [Departs -> FichesDepart]
  BY DEF TypesInv, TypeOK, FichesDepart
<1>2. QED BY <1>1, FicheLue DEF FichesDepart

LEMMA AutresAller ==
  ASSUME TypesInv, NEW d \in Departs, NEW e, Aller(d, e)
  PROVE  /\ \A f \in Departs \ {d} : dep'[f] = dep[f]
         /\ dep'[d].etape = e /\ dep'[d].tient = dep[d].tient
         /\ dep'[d].id = dep[d].id /\ dep'[d].verdict = dep[d].verdict
<1>1. dep \in [Departs -> FichesDepart]
  BY DEF TypesInv, TypeOK, FichesDepart
<1>2. QED BY <1>1, FicheLue DEF FichesDepart, Aller

LEMMA AutresRepondre ==
  ASSUME TypesInv, NEW d \in Departs, NEW v, Repondre(d, v)
  PROVE  /\ \A f \in Departs \ {d} : dep'[f] = dep[f]
         /\ dep'[d].etape = "repondu" /\ dep'[d].tient = dep[d].tient
         /\ dep'[d].id = dep[d].id /\ dep'[d].verdict = v
<1>1. dep \in [Departs -> FichesDepart]
  BY DEF TypesInv, TypeOK, FichesDepart
<1>2. QED BY <1>1, FicheLue DEF FichesDepart, Repondre

\* A tunnel is closed by the start that has it.
LEMMA FermeParDepart ==
  ASSUME PartageInv, TypesInv', NEW d \in Departs, NEW e \in {"connexion", "revoir"},
         dep[d].etape = IF e = "connexion" THEN "remplace" ELSE "evince",
         FermerTunnel(dep[d].tient), UNCHANGED <<inner, arr>>,
         \A f \in Departs \ {d} : dep'[f] = dep[f],
         dep'[d].etape = e, dep'[d].tient = Personne, dep'[d].id = dep[d].id
  PROVE  PartageInv'
<1> DEFINE t == dep[d].tient
<1>a. TypesInv
  BY DEF PartageInv
<1>1. \A u \in Departs : tun'[u] = IF u = t THEN "ferme" ELSE tun[u]
  BY <1>a, TunnelsAssumption DEF FermerTunnel, TypesInv, TypeOK
<1>2. \A u : Cessible(u) /\ u # t => Cessible(u)'
  BY <1>1 DEF Cessible
<1>3. t # Personne => Cessible(t)
  BY DEF PartageInv, Possession, DesDeparts
<1>4. Vierge'
  <2>1. e = "connexion" => tun[d] = "aucun" /\ t # d
    BY <1>3, TunnelsAssumption DEF PartageInv, Vierge, Cessible, Ouverts
  <2>2. \A f \in Departs : dep[f].etape = "pose" => t # f
    BY <1>3, TunnelsAssumption DEF Cessible
  <2>3. \A f \in Departs \ {d} : t = f => tun[f] \in Ouverts
    BY <1>3, TunnelsAssumption DEF Cessible
  <2>4. QED BY <1>1, <2>1, <2>2, <2>3 DEF PartageInv, Vierge, Ouverts
<1>5. DuMagasin'
  <2>1. \A id \in Ids : inner[id] # Personne => inner[id] # t
    BY DEF PartageInv, Possession, DuMagasin
  <2>2. \A f \in Departs : dep'[f].id = dep[f].id
    OBVIOUS
  <2>3. \A f \in Departs : dep'[f].tient \in {dep[f].tient, Personne}
    OBVIOUS
  <2>4. QED BY <1>2, <2>1, <2>2, <2>3 DEF PartageInv, Possession, DuMagasin, Cessible
<1>6. DesDeparts'
  <2>1. \A f \in Departs \ {d} : dep[f].tient # Personne => dep[f].tient # t
    BY DEF PartageInv, Possession, DesDeparts
  <2>2. QED BY <1>2, <2>1 DEF PartageInv, Possession, DesDeparts
<1>7. DesArrets'
  <2>1. \A a \in Arrets : arr[a].tient # Personne => arr[a].tient # t
    BY DEF PartageInv, Possession, DesDeparts
  <2>2. QED BY <1>2, <2>1 DEF PartageInv, Possession, DesArrets
<1>8. Tenu'
  BY <1>1, TunnelsAssumption DEF PartageInv, Tenu, Ouverts
<1>9. QED BY <1>4, <1>5, <1>6, <1>7, <1>8 DEF PartageInv, Possession

\* A tunnel is closed by the stop that has it.
LEMMA FermeParArret ==
  ASSUME PartageInv, TypesInv', NEW s \in Arrets, Fermer(s)
  PROVE  PartageInv'
<1> DEFINE t == arr[s].tient
<1>a. TypesInv
  BY DEF PartageInv
<1>b. /\ \A a \in Arrets \ {s} : arr'[a] = arr[a]
      /\ arr'[s].tient = Personne
      /\ dep' = dep /\ inner' = inner
  <2>1. arr \in [Arrets -> FichesArret]
    BY <1>a DEF TypesInv, TypeOK, FichesArret
  <2>2. arr[s] \in FichesArret
    BY <2>1
  <2>3. QED BY <2>1, <2>2 DEF Fermer, FichesArret, storeVars
<1>1. \A u \in Departs : tun'[u] = IF u = t THEN "ferme" ELSE tun[u]
  BY <1>a, TunnelsAssumption DEF Fermer, FermerTunnel, TypesInv, TypeOK
<1>2. \A u : Cessible(u) /\ u # t => Cessible(u)'
  BY <1>1, <1>b DEF Cessible
<1>3. t # Personne => Cessible(t)
  BY DEF PartageInv, Possession, DesArrets
<1>4. Vierge'
  <2>1. \A f \in Departs : t = f => tun[f] \in Ouverts /\ dep[f].etape # "pose"
    BY <1>3, TunnelsAssumption DEF Cessible
  <2>2. QED BY <1>1, <1>b, <2>1 DEF PartageInv, Vierge, Ouverts
<1>5. DuMagasin'
  <2>1. \A id \in Ids : inner[id] # Personne => inner[id] # t
    BY DEF PartageInv, Possession, DuMagasin
  <2>2. \A a \in Arrets : arr'[a].tient \in {arr[a].tient, Personne}
    BY <1>b
  <2>3. QED BY <1>2, <1>b, <2>1, <2>2 DEF PartageInv, Possession, DuMagasin
<1>6. DesDeparts'
  <2>1. \A f \in Departs : dep[f].tient # Personne => dep[f].tient # t
    BY DEF PartageInv, Possession, DesDeparts
  <2>2. \A a \in Arrets : arr'[a].tient \in {arr[a].tient, Personne}
    BY <1>b
  <2>3. QED BY <1>2, <1>b, <2>1, <2>2 DEF PartageInv, Possession, DesDeparts
<1>7. DesArrets'
  <2>1. \A a \in Arrets \ {s} : arr[a].tient # Personne => arr[a].tient # t
    BY DEF PartageInv, Possession, DesArrets
  <2>2. QED BY <1>2, <1>b, <2>1 DEF PartageInv, Possession, DesArrets
<1>8. Tenu'
  BY <1>1, <1>b, TunnelsAssumption DEF PartageInv, Tenu, Ouverts
<1>9. QED BY <1>4, <1>5, <1>6, <1>7, <1>8 DEF PartageInv, Possession

\* The tunnel of an id leaves the store for the hands of a start.
LEMMA InscrirePartage ==
  ASSUME PartageInv, TypesInv', NEW d \in Departs, Inscrire(d)
  PROVE  PartageInv'
<1> DEFINE i == IdDe(d)
<1> DEFINE t == inner[i]
<1>a. TypesInv /\ i \in Ids /\ t \in Departs \cup {Personne}
  BY FicheLue DEF PartageInv, IdDe, TypesInv, TypeOK
<1>b. /\ \A f \in Departs \ {d} : dep'[f] = dep[f]
      /\ dep'[d].etape = "remplace" /\ dep'[d].tient = t /\ dep'[d].id = dep[d].id
  <2>1. dep \in [Departs -> FichesDepart]
    BY <1>a DEF TypesInv, TypeOK, FichesDepart
  <2>2. QED BY <2>1, <1>a, FicheLue DEF FichesDepart, Inscrire
<1>c. /\ tun' = tun /\ arr' = arr /\ dep[d].etape = "lu"
      /\ \A id \in Ids : inner'[id] = IF id = i THEN Personne ELSE inner[id]
  BY <1>a DEF Inscrire, TypesInv, TypeOK
<1>d. tun[d] = "aucun" /\ dep[d].tient = Personne
  BY <1>c DEF PartageInv, Vierge, Possession, DesDeparts
<1> HIDE DEF i, t
<1>1. \A u : Cessible(u) => Cessible(u)' /\ u # d
  BY <1>b, <1>c, <1>d DEF Cessible, Ouverts
<1>2. t # Personne => /\ Cessible(t)
                      /\ \A f \in Departs : dep[f].tient # t
                      /\ \A a \in Arrets : arr[a].tient # t
                      /\ \A id \in Ids \ {i} : inner[id] # t
  BY <1>a DEF PartageInv, Possession, DuMagasin, t
<1>3. Vierge'
  BY <1>b, <1>c, <1>d DEF PartageInv, Vierge, Ouverts
<1>4. DuMagasin'
  <2>1. \A id \in Ids : inner'[id] # Personne => inner[id] = inner'[id] /\ id # i
    BY <1>c
  <2>2. \A f \in Departs : dep'[f].id = dep[f].id
    BY <1>b
  <2>3. \A id \in Ids \ {i} : inner[id] # Personne => inner[id] # t
    BY <1>2
  <2>4. \A f \in Departs : dep'[f].tient = dep[f].tient \/ dep'[f].tient = t
    BY <1>b
  <2>5. QED BY <1>1, <1>c, <2>1, <2>2, <2>3, <2>4 DEF PartageInv, Possession, DuMagasin, Cessible
<1>5. DesDeparts'
  BY <1>1, <1>2, <1>b, <1>c DEF PartageInv, Possession, DesDeparts
<1>6. DesArrets'
  BY <1>1, <1>c DEF PartageInv, Possession, DesArrets
<1>7. Tenu'
  <2> SUFFICES ASSUME NEW u \in Departs, tun'[u] \in Ouverts
               PROVE  \/ dep'[u].etape = "pose"
                      \/ \E id \in Ids : inner'[id] = u
                      \/ \E f \in Departs : dep'[f].tient = u
                      \/ \E s \in Arrets : arr'[s].tient = u
    BY DEF Tenu
  <2>1. u # d
    BY <1>c, <1>d DEF Ouverts
  <2>2. CASE dep[u].etape = "pose"
    BY <2>1, <2>2, <1>b
  <2>3. CASE \E id \in Ids : inner[id] = u
    BY <2>3, <1>b, <1>c DEF t
  <2>4. CASE \E f \in Departs : dep[f].tient = u
    BY <2>4, <1>b, <1>d, TunnelsAssumption
  <2>5. CASE \E s \in Arrets : arr[s].tient = u
    BY <2>5, <1>c
  <2>6. QED BY <2>2, <2>3, <2>4, <2>5, <1>c DEF PartageInv, Tenu
<1>8. QED BY <1>3, <1>4, <1>5, <1>6, <1>7 DEF PartageInv, Possession

\* Likewise for the hands of a stop.
LEMMA ExecuterPartage ==
  ASSUME PartageInv, TypesInv', NEW s \in Arrets, Executer(s)
  PROVE  PartageInv'
<1> DEFINE i == arr[s].id
<1> DEFINE t == inner[i]
<1>a. TypesInv /\ i \in Ids /\ t \in Departs \cup {Personne}
  BY ArretLu DEF PartageInv, TypesInv, TypeOK
<1>b. /\ \A a \in Arrets \ {s} : arr'[a] = arr[a]
      /\ arr'[s].etape = "ferme" /\ arr'[s].tient = t
  <2>1. arr \in [Arrets -> FichesArret]
    BY <1>a DEF TypesInv, TypeOK, FichesArret
  <2>2. QED BY <2>1, <1>a, ArretLu DEF FichesArret, Executer
<1>c. /\ tun' = tun /\ dep' = dep /\ arr[s].etape = "appele"
      /\ \A id \in Ids : inner'[id] = IF id = i THEN Personne ELSE inner[id]
  BY <1>a DEF Executer, TypesInv, TypeOK
<1>d. arr[s].tient = Personne
  BY <1>c DEF PartageInv, Possession, DesArrets
<1> HIDE DEF i, t
<1>1. \A u : Cessible(u) => Cessible(u)'
  BY <1>c DEF Cessible
<1>2. t # Personne => /\ Cessible(t)
                      /\ \A f \in Departs : dep[f].tient # t
                      /\ \A a \in Arrets : arr[a].tient # t
                      /\ \A id \in Ids \ {i} : inner[id] # t
  BY <1>a DEF PartageInv, Possession, DuMagasin, t
<1>3. Vierge'
  BY <1>c DEF PartageInv, Vierge
<1>4. DuMagasin'
  <2>1. \A id \in Ids : inner'[id] # Personne => inner[id] = inner'[id] /\ id # i
    BY <1>c
  <2>2. \A id \in Ids \ {i} : inner[id] # Personne => inner[id] # t
    BY <1>2
  <2>3. \A a \in Arrets : arr'[a].tient = arr[a].tient \/ arr'[a].tient = t
    BY <1>b
  <2>4. QED BY <1>1, <1>c, <2>1, <2>2, <2>3 DEF PartageInv, Possession, DuMagasin
<1>5. DesDeparts'
  <2>1. \A a \in Arrets : arr'[a].tient = arr[a].tient \/ arr'[a].tient = t
    BY <1>b
  <2>2. QED BY <1>1, <1>2, <1>c, <2>1 DEF PartageInv, Possession, DesDeparts
<1>6. DesArrets'
  BY <1>1, <1>2, <1>b DEF PartageInv, Possession, DesArrets
<1>7. Tenu'
  <2> SUFFICES ASSUME NEW u \in Departs, tun'[u] \in Ouverts
               PROVE  \/ dep'[u].etape = "pose"
                      \/ \E id \in Ids : inner'[id] = u
                      \/ \E f \in Departs : dep'[f].tient = u
                      \/ \E a \in Arrets : arr'[a].tient = u
    BY DEF Tenu
  <2>1. CASE \E id \in Ids : inner[id] = u
    BY <2>1, <1>b, <1>c DEF t
  <2>2. CASE \E a \in Arrets : arr[a].tient = u
    BY <2>2, <1>b, <1>d, TunnelsAssumption
  <2>3. QED BY <2>1, <2>2, <1>c DEF PartageInv, Tenu
<1>8. QED BY <1>3, <1>4, <1>5, <1>6, <1>7 DEF PartageInv, Possession

\* The listener opens.
LEMMA OuvrirPartage ==
  ASSUME PartageInv, TypesInv', NEW d \in Departs, Ouvrir(d)
  PROVE  PartageInv'
<1>a. TypesInv
  BY DEF PartageInv
<1>b. /\ \A f \in Departs \ {d} : dep'[f] = dep[f]
      /\ dep'[d].etape = "pose" /\ dep'[d].tient = dep[d].tient /\ dep'[d].id = dep[d].id
  BY <1>a, AutresAller DEF Ouvrir
<1>c. /\ inner' = inner /\ arr' = arr /\ dep[d].etape = "connexion"
      /\ \A u \in Departs : tun'[u] = IF u = d THEN "vif" ELSE tun[u]
  BY <1>a DEF Ouvrir, storeVars, TypesInv, TypeOK
<1>d. tun[d] = "aucun" /\ dep[d].tient = Personne
  BY <1>c DEF PartageInv, Vierge, Possession, DesDeparts
<1>1. \A u : Cessible(u) => Cessible(u)'
  BY <1>b, <1>c, <1>d DEF Cessible, Ouverts
<1>2. \A f \in Departs : dep'[f].tient = dep[f].tient /\ dep'[f].id = dep[f].id
  BY <1>b
<1>3. Vierge'
  BY <1>b, <1>c DEF PartageInv, Vierge, Ouverts
<1>4. DuMagasin'
  BY <1>1, <1>2, <1>c DEF PartageInv, Possession, DuMagasin, Cessible
<1>5. DesDeparts'
  <2>1. \A f \in Departs : dep[f].tient # Personne => dep'[f].etape = dep[f].etape
    BY <1>b, <1>d
  <2>2. QED BY <1>1, <1>2, <1>c, <2>1 DEF PartageInv, Possession, DesDeparts
<1>6. DesArrets'
  BY <1>1, <1>c DEF PartageInv, Possession, DesArrets
<1>7. Tenu'
  BY <1>b, <1>c, <1>2 DEF PartageInv, Tenu
<1>8. QED BY <1>3, <1>4, <1>5, <1>6, <1>7 DEF PartageInv, Possession

\* The session of a tunnel is lost, or its listener.
LEMMA PerdrePartage ==
  ASSUME PartageInv, TypesInv', NEW d \in Departs, Perdre(d)
  PROVE  PartageInv'
<1>1. /\ inner' = inner /\ arr' = arr /\ dep' = dep
      /\ tun[d] \in Ouverts /\ tun'[d] \in Ouverts
      /\ \A u \in Departs \ {d} : tun'[u] = tun[u]
  BY DEF PartageInv, TypesInv, TypeOK, Perdre, storeVars, Ouverts
<1>2. \A u : Cessible(u) => Cessible(u)'
  BY <1>1 DEF Cessible
<1>3. Vierge'
  BY <1>1 DEF PartageInv, Vierge, Ouverts
<1>4. Possession'
  BY <1>1, <1>2 DEF PartageInv, Possession, DuMagasin, DesDeparts, DesArrets
<1>5. Tenu'
  BY <1>1 DEF PartageInv, Tenu
<1>6. QED BY <1>3, <1>4, <1>5 DEF PartageInv

\* A stop was noted: the tunnel stays in the hands of its own start.
LEMMA PoserRefuse ==
  ASSUME PartageInv, TypesInv', NEW d \in Departs, dep[d].etape = "pose",
         UNCHANGED <<inner, tun, arr>>,
         \A f \in Departs \ {d} : dep'[f] = dep[f],
         dep'[d].etape = "evince", dep'[d].tient = d, dep'[d].id = dep[d].id
  PROVE  PartageInv'
<1>1. dep[d].tient = Personne /\ tun[d] \in Ouverts
  BY DEF PartageInv, Possession, DesDeparts, Vierge
<1>2. \A u : Cessible(u) => Cessible(u)' /\ u # d
  BY DEF Cessible
<1>3. Cessible(d)'
  BY <1>1 DEF Cessible
<1>4. Vierge'
  BY DEF PartageInv, Vierge
<1>5. DuMagasin'
  <2>1. \A f \in Departs : dep'[f].id = dep[f].id /\ dep'[f].tient \in {dep[f].tient, d}
    OBVIOUS
  <2>2. QED BY <1>2, <2>1 DEF PartageInv, Possession, DuMagasin, Cessible
<1>6. DesDeparts'
  <2>1. \A a \in Arrets : arr[a].tient # d
    BY <1>2, TunnelsAssumption DEF PartageInv, Possession, DesArrets
  <2>2. \A f \in Departs : dep[f].tient # d
    BY <1>2, TunnelsAssumption DEF PartageInv, Possession, DesDeparts
  <2>3. QED BY <1>2, <1>3, <2>1, <2>2 DEF PartageInv, Possession, DesDeparts
<1>7. DesArrets'
  BY <1>2 DEF PartageInv, Possession, DesArrets
<1>8. Tenu'
  BY <1>1, TunnelsAssumption DEF PartageInv, Tenu
<1>9. QED BY <1>4, <1>5, <1>6, <1>7, <1>8 DEF PartageInv, Possession

\* The tunnel is installed; the one it displaces, if any, is in the hands of
\* the start.
LEMMA PoserInstalle ==
  ASSUME PartageInv, TypesInv', NEW d \in Departs, dep[d].etape = "pose",
         UNCHANGED <<tun, arr>>,
         \A id \in Ids : inner'[id] = IF id = dep[d].id THEN d ELSE inner[id],
         \A f \in Departs \ {d} : dep'[f] = dep[f],
         dep'[d].tient = inner[dep[d].id], dep'[d].id = dep[d].id,
         dep'[d].etape \in {"evince", "repondu"},
         dep'[d].etape = "repondu" => dep'[d].verdict # "mdp",
         inner[dep[d].id] # Personne => dep'[d].etape = "evince"
  PROVE  PartageInv'
<1> DEFINE i == dep[d].id
<1> DEFINE t == inner[i]
<1>a. i \in Ids /\ t \in Departs \cup {Personne}
  BY FicheLue DEF PartageInv, TypesInv, TypeOK
<1>1. dep[d].tient = Personne /\ tun[d] \in Ouverts
  BY DEF PartageInv, Possession, DesDeparts, Vierge
<1>2. \A u : Cessible(u) => Cessible(u)' /\ u # d
  BY DEF Cessible
<1>3. Cessible(d)'
  BY <1>1 DEF Cessible
<1>4. t # Personne => /\ Cessible(t)
                      /\ \A f \in Departs : dep[f].tient # t
                      /\ \A a \in Arrets : arr[a].tient # t
                      /\ \A id \in Ids \ {i} : inner[id] # t
  BY <1>a DEF PartageInv, Possession, DuMagasin
<1>5. Vierge'
  BY DEF PartageInv, Vierge
<1>6. /\ \A a \in Arrets : arr[a].tient # d
      /\ \A f \in Departs : dep[f].tient # d
      /\ t # d
  BY <1>a, <1>2, <1>4, TunnelsAssumption DEF PartageInv, Possession, DesArrets, DesDeparts
<1>7. DuMagasin'
  <2>1. \A f \in Departs : dep'[f].id = dep[f].id /\ dep'[f].tient \in {dep[f].tient, t}
    OBVIOUS
  <2>2. \A f \in Departs : dep'[f].tient # d
    BY <1>6, <2>1
  <2>3. ASSUME NEW id \in Ids \ {i}, inner[id] # Personne
        PROVE  /\ Cessible(inner[id])'
               /\ dep'[inner[id]].id = id
               /\ \A f \in Departs : dep'[f].tient # inner[id]
               /\ \A s \in Arrets : arr'[s].tient # inner[id]
    <3>1. inner'[id] = inner[id] /\ inner[id] \in Departs
      BY <2>3 DEF PartageInv, Possession, DuMagasin, Cessible
    <3>2. Cessible(inner[id]) /\ Cessible(inner[id])'
      BY <2>3, <3>1, <1>2 DEF PartageInv, Possession, DuMagasin, Cessible
    <3>3. QED BY <2>3, <3>1, <3>2, <2>1, <1>4 DEF PartageInv, Possession, DuMagasin
  <2>4. inner'[i] = d
    BY <1>a
  <2>5. \A id \in Ids \ {i} : inner'[id] = inner[id]
    OBVIOUS
  <2>6. dep'[d].id = i /\ \A s \in Arrets : arr'[s].tient # d
    BY <1>6
  <2> SUFFICES ASSUME NEW id \in Ids, inner'[id] # Personne
               PROVE  /\ Cessible(inner[id])'
                      /\ dep'[inner'[id]].id = id
                      /\ \A f \in Departs : dep'[f].tient # inner'[id]
                      /\ \A s \in Arrets : arr'[s].tient # inner'[id]
    BY DEF DuMagasin
  <2>7. CASE id = i
    BY <2>7, <2>2, <2>4, <2>6, <1>3 DEF Cessible
  <2>8. CASE id # i
    BY <2>8, <2>3, <2>5
  <2>9. QED BY <2>7, <2>8
<1>8. DesDeparts'
  <2>1. \A u : u = t /\ u # Personne => Cessible(u)'
    BY <1>2, <1>4
  <2>2. QED BY <1>2, <1>4, <2>1 DEF PartageInv, Possession, DesDeparts, Cessible
<1>9. DesArrets'
  BY <1>2 DEF PartageInv, Possession, DesArrets
<1>10. Tenu'
  <2> SUFFICES ASSUME NEW u \in Departs, tun[u] \in Ouverts
               PROVE  \/ dep'[u].etape = "pose"
                      \/ \E id \in Ids : inner'[id] = u
                      \/ \E f \in Departs : dep'[f].tient = u
                      \/ \E a \in Arrets : arr'[a].tient = u
    BY DEF Tenu
  <2>1. CASE u = d
    BY <2>1, <1>a
  <2>2. CASE u # d /\ dep[u].etape = "pose"
    BY <2>2
  <2>3. CASE \E id \in Ids : inner[id] = u
    BY <2>3
  <2>4. CASE \E f \in Departs : dep[f].tient = u
    BY <2>4, <1>1, TunnelsAssumption
  <2>5. CASE \E a \in Arrets : arr[a].tient = u
    BY <2>5
  <2>6. QED BY <2>1, <2>2, <2>3, <2>4, <2>5 DEF PartageInv, Tenu
<1>11. QED BY <1>5, <1>7, <1>8, <1>9, <1>10 DEF PartageInv, Possession

LEMMA PoserPartage ==
  ASSUME PartageInv, TypesInv', NEW d \in Departs, Poser(d)
  PROVE  PartageInv'
<1>a. /\ TypesInv /\ dep[d].id \in Ids /\ dep[d].etape = "pose"
      /\ UNCHANGED <<tun, arr>>
  BY FicheLue DEF PartageInv, Poser
<1>b. tun[d] \in Ouverts
  BY <1>a DEF PartageInv, Vierge
<1>c. dep[d].tient = Personne
  BY <1>a DEF PartageInv, Possession, DesDeparts
<1>1. CASE IdDe(d) \in annules
  <2>1. dep' = [dep EXCEPT ![d].etape = "evince", ![d].tient = d] /\ inner' = inner
    BY <1>1 DEF Poser
  <2>2. /\ \A f \in Departs \ {d} : dep'[f] = dep[f]
        /\ dep'[d].etape = "evince" /\ dep'[d].tient = d /\ dep'[d].id = dep[d].id
    BY ZenonT(60), <1>a, <2>1, Autres
  <2>3. QED BY <1>a, <2>1, <2>2, PoserRefuse
<1>2. CASE IdDe(d) \notin annules
  <2>1. \A id \in Ids : inner'[id] = IF id = dep[d].id THEN d ELSE inner[id]
    BY <1>2, <1>a DEF Poser, IdDe, TypesInv, TypeOK
  <2>2. CASE inner[IdDe(d)] = Personne
    <3>1. Repondre(d, "ok") /\ inner[dep[d].id] = Personne
      BY <1>2, <2>2 DEF Poser, IdDe
    <3>2. QED BY <1>a, <1>c, <2>1, <3>1, AutresRepondre, PoserInstalle
  <2>3. CASE inner[IdDe(d)] # Personne
    <3>1. dep' = [dep EXCEPT ![d].etape = "evince", ![d].tient = inner[dep[d].id]]
      BY <1>2, <2>3 DEF Poser, IdDe
    <3>2. /\ \A f \in Departs \ {d} : dep'[f] = dep[f]
          /\ dep'[d].etape = "evince" /\ dep'[d].tient = inner[dep[d].id]
          /\ dep'[d].id = dep[d].id /\ dep'[d].verdict = dep[d].verdict
      BY <1>a, <3>1, Autres
    <3>3. QED BY <1>a, <2>1, <3>2, PoserInstalle
  <2>4. QED BY <2>2, <2>3
<1>3. QED BY <1>1, <1>2

LEMMA PartagePas == PartageInv /\ [Next]_vars => PartageInv'
<1> SUFFICES ASSUME PartageInv, [Next]_vars PROVE PartageInv'
  OBVIOUS
<1>a. TypesInv
  BY DEF PartageInv
<1>b. TypesInv'
  BY <1>a, TypesPas
\* Who is not about to close anything has nothing.
<1>c. \A d \in Departs : dep[d].etape \notin {"remplace", "evince"} => dep[d].tient = Personne
  BY DEF PartageInv, Possession, DesDeparts
<1>d. \A s \in Arrets : arr[s].etape # "ferme" => arr[s].tient = Personne
  BY DEF PartageInv, Possession, DesArrets
<1>1. ASSUME NEW d \in Departs, NEW id \in Ids, Cliquer(d, id) PROVE PartageInv'
  <2>1. /\ UNCHANGED <<inner, tun, arr>> /\ dep[d].etape = "libre"
        /\ \A e \in Departs \ {d} : dep'[e] = dep[e]
    BY <1>1, <1>a DEF Cliquer, storeVars, TypesInv, TypeOK
  <2>2. dep'[d].tient = Personne /\ dep'[d].etape = "demande"
    <3>1. dep'[d] = [DepartVide EXCEPT !.etape = "demande", !.id = id, !.page = recharges]
      BY <1>1, <1>a DEF Cliquer, TypesInv, TypeOK
    <3>2. QED BY <3>1 DEF DepartVide
  <2>3. tun[d] = "aucun"
    BY <2>1 DEF PartageInv, Vierge
  <2>4. QED BY <1>b, <1>c, <2>1, <2>2, <2>3, Avance
<1>2. ASSUME NEW d \in Departs, Renoncer(d) PROVE PartageInv'
  <2>1. UNCHANGED <<inner, tun, arr>> /\ dep[d].etape = "demande"
    BY <1>2 DEF Renoncer, storeVars
  <2>2. /\ \A f \in Departs \ {d} : dep'[f] = dep[f]
        /\ dep'[d].etape = "fin" /\ dep'[d].tient = dep[d].tient /\ dep'[d].id = dep[d].id
    BY <1>2, <1>a, AutresAller DEF Renoncer
  <2>3. tun[d] = "aucun"
    BY <2>1 DEF PartageInv, Vierge
  <2>4. QED BY <1>b, <1>c, <2>1, <2>2, <2>3, Avance
<1>3. ASSUME NEW d \in Departs, Appeler(d) PROVE PartageInv'
  <2>1. UNCHANGED <<inner, tun, arr>> /\ dep[d].etape = "demande"
    BY <1>3 DEF Appeler, storeVars
  <2>2. /\ \A f \in Departs \ {d} : dep'[f] = dep[f]
        /\ dep'[d].etape = "lecture" /\ dep'[d].tient = dep[d].tient /\ dep'[d].id = dep[d].id
    BY <1>3, <1>a, AutresAller DEF Appeler
  <2>3. tun[d] = "aucun"
    BY <2>1 DEF PartageInv, Vierge
  <2>4. QED BY <1>b, <1>c, <2>1, <2>2, <2>3, Avance
<1>4. ASSUME NEW d \in Departs, RecevoirReponse(d) PROVE PartageInv'
  <2>1. UNCHANGED <<inner, tun, arr>> /\ dep[d].etape = "repondu"
    BY <1>4 DEF RecevoirReponse, storeVars
  <2>2. CASE Aller(d, "fin")
    <3>1. /\ \A f \in Departs \ {d} : dep'[f] = dep[f]
          /\ dep'[d].etape = "fin" /\ dep'[d].tient = dep[d].tient /\ dep'[d].id = dep[d].id
      BY <2>2, <1>a, AutresAller
    <3>2. dep[d].tient = Personne /\ dep[d].etape # "pose" /\ dep'[d].etape # "pose"
      BY <1>c, <2>1, <3>1
    <3>3. QED BY <1>b, <2>1, <3>1, <3>2, Avance
  <2>3. CASE dep[d].verdict = "mdp" /\ Aller(d, "ressaisie")
    <3>1. /\ \A f \in Departs \ {d} : dep'[f] = dep[f]
          /\ dep'[d].etape = "ressaisie" /\ dep'[d].tient = dep[d].tient /\ dep'[d].id = dep[d].id
      BY <2>3, <1>a, AutresAller
    <3>2. tun[d] = "aucun"
      BY <2>1, <2>3 DEF PartageInv, Vierge
    <3>3. QED BY <1>b, <1>c, <2>1, <3>1, <3>2, Avance
  <2>4. QED BY <1>4, <2>2, <2>3 DEF RecevoirReponse
<1>5. ASSUME NEW d \in Departs, Ressaisir(d) PROVE PartageInv'
  <2>1. UNCHANGED <<inner, tun, arr>> /\ dep[d].etape = "ressaisie"
    BY <1>5 DEF Ressaisir, storeVars
  <2>2. tun[d] = "aucun"
    BY <2>1 DEF PartageInv, Vierge
  <2>3. /\ \A f \in Departs \ {d} : dep'[f] = dep[f]
        /\ dep'[d].etape \in {"lecture", "fin"}
        /\ dep'[d].tient = dep[d].tient /\ dep'[d].id = dep[d].id
    <3>1. CASE Aller(d, "fin")
      BY <3>1, <1>a, AutresAller
    <3>2. CASE dep' = [dep EXCEPT ![d].etape = "lecture", ![d].essai = @ + 1,
                                  ![d].verdict = "aucun"]
      <4>1. dep \in [Departs -> FichesDepart]
        BY <1>a DEF TypesInv, TypeOK, FichesDepart
      <4>2. QED BY <3>2, <4>1, <1>a, FicheLue DEF FichesDepart
    <3>3. QED BY <1>5, <3>1, <3>2 DEF Ressaisir
  <2>4. QED BY <1>b, <1>c, <2>1, <2>2, <2>3, Avance
<1>6. ASSUME NEW d \in Departs, Lire(d) PROVE PartageInv'
  <2>1. UNCHANGED <<inner, tun, arr>> /\ dep[d].etape = "lecture"
    BY <1>6 DEF Lire, storeVars
  <2>2. tun[d] = "aucun"
    BY <2>1 DEF PartageInv, Vierge
  <2>3. /\ \A f \in Departs \ {d} : dep'[f] = dep[f]
        /\ dep'[d].etape \in {"lu", "repondu"}
        /\ dep'[d].tient = dep[d].tient /\ dep'[d].id = dep[d].id
    <3>1. CASE Aller(d, "lu")
      BY <3>1, <1>a, AutresAller
    <3>2. CASE Repondre(d, "echec")
      BY <3>2, <1>a, AutresRepondre
    <3>3. QED BY <1>6, <3>1, <3>2 DEF Lire
  <2>4. QED BY <1>b, <1>c, <2>1, <2>2, <2>3, Avance
<1>7. ASSUME NEW d \in Departs, Inscrire(d) PROVE PartageInv'
  BY <1>7, <1>b, InscrirePartage
<1>8. ASSUME NEW d \in Departs, FermerPrecedent(d) PROVE PartageInv'
  <2>1. /\ UNCHANGED <<inner, arr>> /\ dep[d].etape = "remplace" /\ FermerTunnel(dep[d].tient)
        /\ dep' = [dep EXCEPT ![d].etape = "connexion", ![d].tient = Personne]
    BY <1>8 DEF FermerPrecedent, storeVars
  <2>2. /\ \A f \in Departs \ {d} : dep'[f] = dep[f]
        /\ dep'[d].etape = "connexion" /\ dep'[d].tient = Personne /\ dep'[d].id = dep[d].id
    BY ZenonT(60), <1>a, <2>1, Autres
  <2>3. QED BY <1>b, <2>1, <2>2, FermeParDepart
<1>9. ASSUME NEW d \in Departs, EchecOuverture(d) PROVE PartageInv'
  <2>1. UNCHANGED <<inner, tun, arr>> /\ dep[d].etape = "connexion"
    BY <1>9 DEF EchecOuverture, storeVars
  <2>2. tun[d] = "aucun"
    BY <2>1 DEF PartageInv, Vierge
  <2>3. /\ \A f \in Departs \ {d} : dep'[f] = dep[f]
        /\ dep'[d].etape = "repondu" /\ dep'[d].tient = dep[d].tient /\ dep'[d].id = dep[d].id
    BY <1>9, <1>a, AutresRepondre DEF EchecOuverture
  <2>4. QED BY <1>b, <1>c, <2>1, <2>2, <2>3, Avance
<1>10. ASSUME NEW d \in Departs, Ouvrir(d) PROVE PartageInv'
  BY <1>10, <1>b, OuvrirPartage
<1>11. ASSUME NEW d \in Departs, Poser(d) PROVE PartageInv'
  BY <1>11, <1>b, PoserPartage
<1>12. ASSUME NEW d \in Departs, FermerEvince(d) PROVE PartageInv'
  <2>1. /\ UNCHANGED <<inner, arr>> /\ dep[d].etape = "evince" /\ FermerTunnel(dep[d].tient)
        /\ dep' = [dep EXCEPT ![d].etape = "revoir", ![d].tient = Personne]
    BY <1>12 DEF FermerEvince, storeVars
  <2>2. /\ \A f \in Departs \ {d} : dep'[f] = dep[f]
        /\ dep'[d].etape = "revoir" /\ dep'[d].tient = Personne /\ dep'[d].id = dep[d].id
    BY ZenonT(60), <1>a, <2>1, Autres
  <2>3. QED BY <1>b, <2>1, <2>2, FermeParDepart
<1>13. ASSUME NEW d \in Departs, Revoir(d) PROVE PartageInv'
  <2>1. UNCHANGED <<inner, tun, arr>> /\ dep[d].etape = "revoir"
    BY <1>13 DEF Revoir, storeVars
  <2>2. /\ \A f \in Departs \ {d} : dep'[f] = dep[f]
        /\ dep'[d].etape = "repondu" /\ dep'[d].tient = dep[d].tient /\ dep'[d].id = dep[d].id
        /\ dep'[d].verdict \in {"arrete", "ok"}
    BY <1>13, <1>a, AutresRepondre DEF Revoir
  <2>3. QED BY <1>b, <1>c, <2>1, <2>2, Avance
<1>14. ASSUME NEW d \in Departs, Perdre(d) PROVE PartageInv'
  BY <1>14, <1>b, PerdrePartage
<1>15. ASSUME NEW s \in Arrets, NEW id \in Ids, DemanderArret(s, id) PROVE PartageInv'
  <2>1. /\ UNCHANGED <<inner, tun, dep>> /\ arr[s].etape = "libre"
        /\ \A a \in Arrets \ {s} : arr'[a] = arr[a]
    BY <1>15, <1>a DEF DemanderArret, storeVars, TypesInv, TypeOK
  <2>2. arr'[s].tient = Personne
    BY <1>15, <1>a DEF DemanderArret, ArretVide, TypesInv, TypeOK
  <2>3. QED BY <1>b, <1>d, <2>1, <2>2, ArretAvance
<1>16. ASSUME NEW s \in Arrets, Confirmer(s) \/ RecevoirArret(s) \/ RetirerDefinition(s)
       PROVE  PartageInv'
  <2>1. arr \in [Arrets -> FichesArret] /\ arr[s] \in FichesArret
    BY <1>a, ArretLu DEF TypesInv, TypeOK, FichesArret
  <2>2. UNCHANGED <<inner, tun, dep>> /\ arr[s].etape # "ferme"
    BY <1>16 DEF Confirmer, RecevoirArret, RetirerDefinition, storeVars
  <2>3. /\ \A a \in Arrets \ {s} : arr'[a] = arr[a]
        /\ arr'[s].tient = arr[s].tient
    BY <1>16, <2>1 DEF Confirmer, RecevoirArret, RetirerDefinition, FichesArret
  <2>4. QED BY <1>b, <1>d, <2>2, <2>3, ArretAvance
<1>17. ASSUME NEW s \in Arrets, Executer(s) PROVE PartageInv'
  BY <1>17, <1>b, ExecuterPartage
<1>18. ASSUME NEW s \in Arrets, Fermer(s) PROVE PartageInv'
  BY <1>18, <1>b, FermeParArret
<1>19. CASE UNCHANGED <<inner, tun, dep, arr>>
  BY <1>19, <1>b DEF PartageInv, Vierge, Possession, DuMagasin, DesDeparts, DesArrets,
                     Cessible, Tenu
<1>20. CASE Recharger \/ UNCHANGED vars
  BY <1>19, <1>20 DEF Recharger, vars, storeVars
<1>21. QED
  BY <1>1, <1>2, <1>3, <1>4, <1>5, <1>6, <1>7, <1>8, <1>9, <1>10, <1>11, <1>12, <1>13, <1>14,
     <1>15, <1>16, <1>17, <1>18, <1>20
     DEF Next, Coeur, CoeurArret

\* Ownership is what PasDeFuite counts.
LEMMA UnTenant == PartageInv => PasDeFuite
<1> SUFFICES ASSUME PartageInv, NEW t \in Departs, tun[t] \in Ouverts
             PROVE  Cardinality(Tenants(t)) = 1
  BY DEF PasDeFuite
<1>1. ASSUME NEW x, Tenants(t) = {x} PROVE Cardinality(Tenants(t)) = 1
  BY <1>1, FS_Singleton
<1>2. CASE dep[t].etape = "pose"
  <2>1. /\ \A id \in Ids : inner[id] # t
        /\ \A d \in Departs : dep[d].tient # t
        /\ \A s \in Arrets : arr[s].tient # t
    BY <1>2, TunnelsAssumption DEF PartageInv, Possession, DuMagasin, DesDeparts, DesArrets, Cessible
  <2>2. Tenants(t) = {<<"ouvre", t>>}
    BY <1>2, <2>1 DEF Tenants
  <2>3. QED BY <1>1, <2>2
<1>3. ASSUME NEW id \in Ids, inner[id] = t PROVE Cardinality(Tenants(t)) = 1
  <2>1. /\ dep[t].etape # "pose"
        /\ \A i \in Ids : inner[i] = t => i = id
        /\ \A d \in Departs : dep[d].tient # t
        /\ \A s \in Arrets : arr[s].tient # t
    BY <1>3, TunnelsAssumption DEF PartageInv, Possession, DuMagasin, Cessible
  <2>2. Tenants(t) = {<<"magasin", id>>}
    BY <1>3, <2>1 DEF Tenants
  <2>3. QED BY <1>1, <2>2
<1>4. ASSUME NEW d \in Departs, dep[d].tient = t PROVE Cardinality(Tenants(t)) = 1
  <2>1. /\ dep[t].etape # "pose"
        /\ \A i \in Ids : inner[i] # t
        /\ \A e \in Departs : dep[e].tient = t => e = d
        /\ \A s \in Arrets : arr[s].tient # t
    BY <1>4, TunnelsAssumption DEF PartageInv, Possession, DuMagasin, DesDeparts, Cessible
  <2>2. Tenants(t) = {<<"depart", d>>}
    BY <1>4, <2>1 DEF Tenants
  <2>3. QED BY <1>1, <2>2
<1>5. ASSUME NEW s \in Arrets, arr[s].tient = t PROVE Cardinality(Tenants(t)) = 1
  <2>1. /\ dep[t].etape # "pose"
        /\ \A i \in Ids : inner[i] # t
        /\ \A d \in Departs : dep[d].tient # t
        /\ \A a \in Arrets : arr[a].tient = t => a = s
    BY <1>5, TunnelsAssumption DEF PartageInv, Possession, DuMagasin, DesDeparts, DesArrets, Cessible
  <2>2. Tenants(t) = {<<"arret", s>>}
    BY <1>5, <2>1 DEF Tenants
  <2>3. QED BY <1>1, <2>2
<1>6. QED BY <1>2, <1>3, <1>4, <1>5 DEF PartageInv, Tenu

\* Every tunnel that has not been closed is in the store or in the hands of
\* exactly one call that will install or close it (TunnelStore, tunnel_start,
\* tunnel_stop): none is lost, none is closed twice.
THEOREM AucuneFuite == Spec => []PasDeFuite
<1>1. QED BY PartageInit, PartagePas, UnTenant, PTL DEF Spec

\* The store lists open tunnels only, each under the id it was opened for.
THEOREM MagasinToujoursVrai == Spec => []MagasinVrai
<1>1. PartageInv => MagasinVrai
  BY DEF PartageInv, Possession, DuMagasin, Cessible, MagasinVrai, IdDe
<1>2. QED BY <1>1, PartageInit, PartagePas, PTL DEF Spec

-----------------------------------------------------------------------------
(* The notes of the stops.                                                 *)

\* While the one start a stop was noted against is in flight it is alone and
\* the note is there; afterwards its tunnel is not in the store.
NoteGardee ==
  \A d \in Departs : {d} \in visees =>
    /\ dep[d].etape # "libre"
    /\ inner[dep[d].id] # d
    /\ dep[d].etape \in EnVol =>
         /\ dep[d].id \in annules
         /\ \A e \in Departs : dep[e].id = dep[d].id /\ dep[e].etape \in EnVol => e = d

NoteInv == PartageInv /\ NoteGardee

\* A step that neither notes, nor enters or installs anything.
LEMMA NoteIndifferente ==
  ASSUME NoteGardee, visees' \subseteq visees,
         \A d \in Departs : {d} \in visees' => dep'[d].id = dep[d].id /\ dep'[d].etape # "libre",
         \A d \in Departs : dep'[d].etape \in EnVol => dep[d].etape \in EnVol /\ dep'[d].id = dep[d].id,
         \A id \in Ids : inner'[id] \in {inner[id], Personne},
         \A d \in Departs : dep[d].id \in Ids,
         \A d \in Departs : {d} \in visees' /\ dep'[d].etape \in EnVol /\ dep[d].id \in annules
           => dep[d].id \in annules'
  PROVE  NoteGardee'
BY TunnelsAssumption DEF NoteGardee, EnVol

LEMMA NotePas == NoteInv /\ [Next]_vars => NoteGardee'
<1> SUFFICES ASSUME NoteInv, [Next]_vars PROVE NoteGardee'
  OBVIOUS
<1>a. TypesInv /\ PartageInv /\ NoteGardee
  BY DEF NoteInv, PartageInv
<1>b. \A d \in Departs : dep[d].id \in Ids /\ dep[d].etape \in EtapesDepart
  BY <1>a, FicheLue
\* What a step of one start leaves as it was.
<1>c. ASSUME NEW d \in Departs, \A f \in Departs \ {d} : dep'[f] = dep[f],
             dep'[d].id = dep[d].id, dep'[d].etape # "libre",
             dep'[d].etape \in EnVol => dep[d].etape \in EnVol,
             UNCHANGED <<inner, annules, visees>>
      PROVE  NoteGardee'
  <2>1. \A f \in Departs : {f} \in visees => dep'[f].id = dep[f].id /\ dep'[f].etape # "libre"
    BY <1>a, <1>c DEF NoteGardee
  <2>2. \A f \in Departs : dep'[f].etape \in EnVol => dep[f].etape \in EnVol /\ dep'[f].id = dep[f].id
    BY <1>c
  <2>3. QED BY <1>a, <1>b, <1>c, <2>1, <2>2, NoteIndifferente
<1>1. ASSUME NEW d \in Departs, NEW id \in Ids, Cliquer(d, id) PROVE NoteGardee'
  <2>1. /\ UNCHANGED <<inner, annules, visees>> /\ dep[d].etape = "libre"
        /\ \A f \in Departs \ {d} : dep'[f] = dep[f]
    BY <1>1, <1>a DEF Cliquer, storeVars, TypesInv, TypeOK
  <2>2. dep'[d].etape = "demande"
    <3>1. dep'[d] = [DepartVide EXCEPT !.etape = "demande", !.id = id, !.page = recharges]
      BY <1>1, <1>a DEF Cliquer, TypesInv, TypeOK
    <3>2. QED BY <3>1 DEF DepartVide
  <2>3. {d} \notin visees
    BY <1>a, <2>1 DEF NoteGardee
  <2>4. \A f \in Departs : {f} \in visees => dep'[f].id = dep[f].id /\ dep'[f].etape # "libre"
    BY <1>a, <2>1, <2>3 DEF NoteGardee
  <2>5. \A f \in Departs : dep'[f].etape \in EnVol => dep[f].etape \in EnVol /\ dep'[f].id = dep[f].id
    BY <2>1, <2>2 DEF EnVol
  <2>6. QED BY <1>a, <1>b, <2>1, <2>4, <2>5, NoteIndifferente
<1>2. ASSUME NEW d \in Departs, NEW e \in {"fin", "lecture", "lu", "pose", "ressaisie"}, Aller(d, e),
             e = "pose" => dep[d].etape = "connexion", UNCHANGED <<inner, annules, visees>>
      PROVE  NoteGardee'
  <2>1. /\ \A f \in Departs \ {d} : dep'[f] = dep[f]
        /\ dep'[d].etape = e /\ dep'[d].id = dep[d].id
    BY <1>2, <1>a, AutresAller
  <2>2. dep'[d].etape # "libre" /\ (dep'[d].etape \in EnVol => dep[d].etape \in EnVol)
    BY <1>2, <2>1 DEF EnVol
  <2>3. QED BY <1>c, <1>2, <2>1, <2>2
<1>3. ASSUME NEW d \in Departs, NEW v, Repondre(d, v), UNCHANGED <<inner, annules, visees>>
      PROVE  NoteGardee'
  <2>1. /\ \A f \in Departs \ {d} : dep'[f] = dep[f]
        /\ dep'[d].etape = "repondu" /\ dep'[d].id = dep[d].id
    BY <1>3, <1>a, AutresRepondre
  <2>2. dep'[d].etape # "libre" /\ (dep'[d].etape \in EnVol => dep[d].etape \in EnVol)
    BY <2>1 DEF EnVol
  <2>3. QED BY <1>c, <1>3, <2>1, <2>2
<1>4. ASSUME NEW d \in Departs, Renoncer(d) \/ Appeler(d) \/ RecevoirReponse(d) \/ Lire(d)
                                \/ EchecOuverture(d) \/ Ouvrir(d) \/ Revoir(d)
      PROVE  NoteGardee'
  <2>1. UNCHANGED <<inner, annules, visees>>
    BY <1>4 DEF Renoncer, Appeler, RecevoirReponse, Lire, EchecOuverture, Ouvrir, Revoir, storeVars
  <2>2. \/ \E e \in {"fin", "lecture", "lu", "pose", "ressaisie"} :
             Aller(d, e) /\ (e = "pose" => dep[d].etape = "connexion")
        \/ \E v \in Verdicts : Repondre(d, v)
    BY <1>4 DEF Renoncer, Appeler, RecevoirReponse, Lire, EchecOuverture, Ouvrir, Revoir, Verdicts
  <2>3. QED BY <1>2, <1>3, <2>1, <2>2
<1>5. ASSUME NEW d \in Departs, Ressaisir(d) PROVE NoteGardee'
  <2>1. UNCHANGED <<inner, annules, visees>>
    BY <1>5 DEF Ressaisir, storeVars
  <2>2. CASE Aller(d, "fin")
    BY <1>2, <2>1, <2>2
  <2>3. CASE dep' = [dep EXCEPT ![d].etape = "lecture", ![d].essai = @ + 1,
                                ![d].verdict = "aucun"]
    <3>1. dep \in [Departs -> FichesDepart] /\ dep[d] \in FichesDepart
      BY <1>a, FicheLue DEF TypesInv, TypeOK, FichesDepart
    <3>2. /\ \A f \in Departs \ {d} : dep'[f] = dep[f]
          /\ dep'[d].etape = "lecture" /\ dep'[d].id = dep[d].id
      BY <2>3, <3>1 DEF FichesDepart
    <3>3. dep'[d].etape # "libre" /\ dep'[d].etape \notin EnVol
      BY <3>2 DEF EnVol
    <3>4. QED BY <1>c, <2>1, <3>2, <3>3
  <2>4. QED BY <1>5, <2>2, <2>3 DEF Ressaisir
\* A start that enters takes away the stops noted against its id.
<1>6. ASSUME NEW d \in Departs, Inscrire(d) PROVE NoteGardee'
  <2>1. /\ \A f \in Departs \ {d} : dep'[f] = dep[f]
        /\ dep'[d].etape = "remplace" /\ dep'[d].id = dep[d].id
    BY <1>6, <1>a, Autres DEF Inscrire
  <2>2. /\ annules' = annules \ {dep[d].id}
        /\ \A id \in Ids : inner'[id] \in {inner[id], Personne}
    BY <1>6, <1>a DEF Inscrire, IdDe, TypesInv, TypeOK
  <2>3. \A f \in Departs : {f} \in visees' => {f} \in visees /\ dep[f].id # dep[d].id
    BY <1>6 DEF Inscrire, IdDe
  <2>4. SUFFICES ASSUME NEW f \in Departs, {f} \in visees'
                 PROVE  /\ dep'[f].etape # "libre"
                        /\ inner'[dep'[f].id] # f
                        /\ dep'[f].etape \in EnVol =>
                             /\ dep'[f].id \in annules'
                             /\ \A e \in Departs : dep'[e].id = dep'[f].id /\ dep'[e].etape \in EnVol => e = f
    BY DEF NoteGardee
  <2>5. f # d /\ dep'[f] = dep[f] /\ dep[f].id # dep[d].id /\ {f} \in visees
    BY <2>1, <2>3, <2>4
  <2>6. inner'[dep[f].id] # f
    BY <1>a, <1>b, <2>2, <2>5, TunnelsAssumption DEF NoteGardee
  <2>7. QED BY <1>a, <2>1, <2>2, <2>5, <2>6 DEF NoteGardee
<1>7. ASSUME NEW d \in Departs, FermerPrecedent(d) \/ FermerEvince(d) PROVE NoteGardee'
  <2>1. UNCHANGED <<inner, annules, visees>>
    BY <1>7 DEF FermerPrecedent, FermerEvince, storeVars
  <2>2. /\ \A f \in Departs \ {d} : dep'[f] = dep[f]
        /\ dep'[d].id = dep[d].id /\ dep'[d].etape # "libre"
        /\ dep'[d].etape \in EnVol => dep[d].etape \in EnVol
    <3>1. CASE FermerPrecedent(d)
      <4>1. /\ \A f \in Departs \ {d} : dep'[f] = dep[f]
            /\ dep'[d].etape = "connexion" /\ dep'[d].id = dep[d].id
        BY <3>1, <1>a, Autres DEF FermerPrecedent
      <4>2. dep[d].etape = "remplace"
        BY <3>1 DEF FermerPrecedent
      <4>3. QED BY <4>1, <4>2 DEF EnVol
    <3>2. CASE FermerEvince(d)
      <4>1. /\ \A f \in Departs \ {d} : dep'[f] = dep[f]
            /\ dep'[d].etape = "revoir" /\ dep'[d].id = dep[d].id
        BY <3>2, <1>a, Autres DEF FermerEvince
      <4>2. QED BY <4>1 DEF EnVol
    <3>3. QED BY <1>7, <3>1, <3>2
  <2>3. QED BY <1>c, <2>1, <2>2
\* The start that arrives alone finds the note; another's id is not its own.
<1>8. ASSUME NEW d \in Departs, Poser(d) PROVE NoteGardee'
  <2>1. /\ \A f \in Departs \ {d} : dep'[f] = dep[f]
        /\ dep'[d].etape \in {"evince", "repondu"} /\ dep'[d].id = dep[d].id
    <3>1. CASE \E t : dep' = [dep EXCEPT ![d].etape = "evince", ![d].tient = t]
      <4>1. PICK t : dep' = [dep EXCEPT ![d].etape = "evince", ![d].tient = t]
        BY <3>1
      <4>2. /\ \A f \in Departs \ {d} : dep'[f] = dep[f]
            /\ dep'[d].etape = "evince" /\ dep'[d].id = dep[d].id
        BY <4>1, <1>a, Autres
      <4>3. QED BY <4>2
    <3>2. CASE Repondre(d, "ok")
      BY <3>2, <1>a, AutresRepondre
    <3>3. QED BY <1>8, <3>1, <3>2 DEF Poser
  <2>2. /\ visees' = visees /\ annules' = annules \ {dep[d].id} /\ dep[d].etape \in EnVol
        /\ dep[d].id \in annules => inner' = inner
        /\ \A id \in Ids : inner'[id] = inner[id] \/ inner'[id] = d
    BY <1>8, <1>a DEF Poser, IdDe, EnVol, TypesInv, TypeOK
  <2>3. SUFFICES ASSUME NEW f \in Departs, {f} \in visees
                 PROVE  /\ dep'[f].etape # "libre"
                        /\ inner'[dep'[f].id] # f
                        /\ dep'[f].etape \in EnVol =>
                             /\ dep'[f].id \in annules'
                             /\ \A e \in Departs : dep'[e].id = dep'[f].id /\ dep'[e].etape \in EnVol => e = f
    BY <2>2 DEF NoteGardee
  <2>4. dep'[d].etape \notin EnVol /\ dep'[d].etape # "libre"
    BY <2>1 DEF EnVol
  <2>5. CASE f = d
    <3>1. dep[d].id \in annules /\ inner[dep[d].id] # d
      BY <1>a, <2>2, <2>3, <2>5 DEF NoteGardee
    <3>2. QED BY <2>1, <2>2, <2>4, <2>5, <3>1
  <2>6. CASE f # d
    <3>1. dep'[f] = dep[f]
      BY <2>1, <2>6
    <3>2. inner'[dep[f].id] # f
      BY <1>a, <1>b, <2>2, <2>3, <2>6 DEF NoteGardee
    <3>3. dep[f].etape \in EnVol => dep[f].id # dep[d].id
      BY <1>a, <2>2, <2>3, <2>6 DEF NoteGardee
    <3>4. \A e \in Departs : dep'[e].etape \in EnVol => dep'[e] = dep[e]
      BY <2>1, <2>4
    <3>5. QED BY <1>a, <2>2, <2>3, <3>1, <3>2, <3>3, <3>4 DEF NoteGardee
  <2>7. QED BY <2>5, <2>6
<1>9. ASSUME NEW s \in Arrets, NEW id \in Ids, DemanderArret(s, id) PROVE NoteGardee'
  BY <1>9, <1>a DEF DemanderArret, storeVars, NoteGardee
<1>10. ASSUME NEW s \in Arrets,
              Confirmer(s) \/ RecevoirArret(s) \/ Fermer(s) \/ RetirerDefinition(s)
       PROVE  NoteGardee'
  BY <1>10, <1>a DEF Confirmer, RecevoirArret, Fermer, RetirerDefinition, storeVars, NoteGardee
\* A stop is noted: for the starts that are in flight now.
<1>11. ASSUME NEW s \in Arrets, Executer(s) PROVE NoteGardee'
  <2> DEFINE i == arr[s].id
  <2>1. /\ dep' = dep /\ annules \subseteq annules'
        /\ visees' = visees \/ (visees' = visees \cup {EnVolDe(i)} /\ i \in annules' /\ inner[i] = Personne)
        /\ \A id \in Ids : inner'[id] \in {inner[id], Personne}
    BY <1>11, <1>a DEF Executer, TypesInv, TypeOK
  <2>2. SUFFICES ASSUME NEW f \in Departs, {f} \in visees'
                 PROVE  /\ dep[f].etape # "libre"
                        /\ inner'[dep[f].id] # f
                        /\ dep[f].etape \in EnVol =>
                             /\ dep[f].id \in annules'
                             /\ \A e \in Departs : dep[e].id = dep[f].id /\ dep[e].etape \in EnVol => e = f
    BY <2>1 DEF NoteGardee
  <2>3. CASE {f} \in visees
    BY <1>a, <1>b, <2>1, <2>3, TunnelsAssumption DEF NoteGardee
  <2>4. CASE {f} = EnVolDe(i) /\ i \in annules' /\ inner[i] = Personne
    <3>1. dep[f].id = i /\ dep[f].etape \in EnVol
      BY <2>4 DEF EnVolDe, IdDe
    <3>2. \A e \in Departs : dep[e].id = i /\ dep[e].etape \in EnVol => e = f
      BY <2>4 DEF EnVolDe, IdDe
    <3>3. inner'[i] # f
      BY <1>b, <2>1, <2>4, <3>1, TunnelsAssumption
    <3>4. QED BY <2>4, <3>1, <3>2, <3>3 DEF EnVol
  <2>5. QED BY <2>1, <2>2, <2>3, <2>4
<1>12. ASSUME NEW d \in Departs, Perdre(d) PROVE NoteGardee'
  BY <1>12, <1>a DEF Perdre, storeVars, NoteGardee
<1>13. CASE Recharger \/ UNCHANGED vars
  BY <1>13, <1>a DEF Recharger, vars, storeVars, NoteGardee
<1>14. QED
  BY <1>1, <1>4, <1>5, <1>6, <1>7, <1>8, <1>9, <1>10, <1>11, <1>12, <1>13
     DEF Next, Coeur, CoeurArret

\* A start that a stop found alone in flight is not installed, unless the
\* tunnel was asked for again (tunnel_stop notes, tunnel_start obeys).
THEOREM ArretToujoursVu == Spec => []ArretVu
<1>1. Init => NoteInv
  BY PartageInit DEF Init, NoteInv, NoteGardee
<1>2. NoteInv /\ [Next]_vars => NoteInv'
  BY NotePas, PartagePas DEF NoteInv
<1>3. NoteInv => ArretVu
  BY DEF NoteInv, NoteGardee, ArretVu, IdDe
<1>4. QED BY <1>1, <1>2, <1>3, PTL DEF Spec

-----------------------------------------------------------------------------
(* The row and its attempt.                                                *)

\* What takes the token of the row `id` away from d.
Depossede(id, d) ==
  \/ dep[d].etape # "fin" /\ dep'[d].etape = "fin"
  \/ ouvertures'[id] \in Departs /\ dep[ouvertures'[id]].etape = "demande"
  \/ \E s \in Arrets : /\ arr[s].geste = "annuler" /\ arr[s].id = id
                       /\ arr[s].etape = "repondu" /\ arr'[s].etape = "fin"
  \/ recharges' # recharges

\* The end of an attempt only frees a row that is still its own.
LEMMA LigneALui ==
  ASSUME TypesInv, NEW d \in Departs, Aller(d, "fin"), LibererLigne(d), ~Abandonnee(d),
         dep[d].etape # "fin", NEW id \in Ids, ouvertures'[id] # ouvertures[id]
  PROVE  Depossede(id, ouvertures[id])
<1>1. id = IdDe(d) /\ ouvertures[id] = d
  BY DEF LibererLigne, Abandonnee, IdDe, TypesInv, TypeOK
<1>2. dep'[d].etape = "fin"
  BY AutresAller
<1>3. QED BY <1>1, <1>2 DEF Depossede

LEMMA JetonPas ==
  ASSUME TypesInv, [Next]_vars, NEW id \in Ids, ouvertures'[id] # ouvertures[id]
  PROVE  Depossede(id, ouvertures[id])
<1>1. ASSUME NEW d \in Departs, Appeler(d) PROVE Depossede(id, ouvertures[id])
  <2>1. ouvertures'[id] = d /\ dep[d].etape = "demande"
    BY <1>1 DEF Appeler, TypesInv, TypeOK
  <2>2. QED BY <2>1 DEF Depossede
<1>2. ASSUME NEW d \in Departs, RecevoirReponse(d) PROVE Depossede(id, ouvertures[id])
  <2>1. Aller(d, "fin") /\ LibererLigne(d) /\ ~Abandonnee(d) /\ dep[d].etape # "fin"
    BY <1>2 DEF RecevoirReponse
  <2>2. QED BY <2>1, LigneALui
<1>3. ASSUME NEW d \in Departs, Ressaisir(d) PROVE Depossede(id, ouvertures[id])
  <2>1. Aller(d, "fin") /\ LibererLigne(d) /\ ~Abandonnee(d) /\ dep[d].etape # "fin"
    BY <1>3 DEF Ressaisir
  <2>2. QED BY <2>1, LigneALui
<1>4. ASSUME NEW s \in Arrets, RecevoirArret(s) PROVE Depossede(id, ouvertures[id])
  <2>1. /\ arr[s].geste = "annuler" /\ arr[s].id = id /\ arr[s].etape = "repondu"
    BY <1>4 DEF RecevoirArret, TypesInv, TypeOK
  <2>2. arr'[s].etape = "fin"
    <3>1. arr \in [Arrets -> FichesArret] /\ arr[s] \in FichesArret
      BY ArretLu DEF TypesInv, TypeOK, FichesArret
    <3>2. QED BY <1>4, <3>1 DEF RecevoirArret, FichesArret
  <2>3. QED BY <2>1, <2>2 DEF Depossede
<1>5. ASSUME Recharger PROVE Depossede(id, ouvertures[id])
  BY <1>5 DEF Recharger, Depossede, TypesInv, TypeOK
<1>6. ASSUME NEW d \in Departs, \/ \E i \in Ids : Cliquer(d, i)
                                \/ Renoncer(d) \/ Coeur(d) \/ Perdre(d)
      PROVE  FALSE
  BY <1>6 DEF Cliquer, Renoncer, Coeur, Perdre, Lire, Inscrire, FermerPrecedent, EchecOuverture,
              Ouvrir, Poser, FermerEvince, Revoir, frontVars
<1>7. ASSUME NEW s \in Arrets, \/ \E i \in Ids : DemanderArret(s, i)
                               \/ Confirmer(s) \/ CoeurArret(s)
      PROVE  FALSE
  BY <1>7 DEF DemanderArret, Confirmer, CoeurArret, Executer, Fermer, RetirerDefinition, frontVars
<1>8. QED
  BY <1>1, <1>2, <1>3, <1>4, <1>5, <1>6, <1>7 DEF Next, vars

\* An attempt only loses its row to its own end, to a newer attempt, to
\* « annuler » or to a reload (tunnelStart of web/tunnels.ts, `jeton`).
THEOREM JetonToujoursTenu == Spec => JetonTenu
<1>1. TypesInv /\ [Next]_vars =>
        [\A id \in Ids : LET d == ouvertures[id] IN
           d # Personne /\ ouvertures'[id] # d =>
             \/ dep[d].etape # "fin" /\ dep'[d].etape = "fin"
             \/ ouvertures'[id] \in Departs /\ dep[ouvertures'[id]].etape = "demande"
             \/ \E s \in Arrets : /\ arr[s].geste = "annuler" /\ arr[s].id = id
                                 /\ arr[s].etape = "repondu" /\ arr'[s].etape = "fin"
             \/ recharges' # recharges]_vars
  BY JetonPas DEF Depossede
<1>2. QED BY <1>1, TypesInit, TypesPas, PTL DEF Spec, JetonTenu

=============================================================================
