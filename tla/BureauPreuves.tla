--------------------------- MODULE BureauPreuves ---------------------------
(***************************************************************************)
(* Theorems about Bureau, for every number of tabs, openings, reloads and  *)
(* announcements.                                                          *)
(*                                                                         *)
(* That a living process is registered under its id (EnfantTenu) is        *)
(* inductive because a process comes alive in one place only, which kills  *)
(* the one it replaces, and because an opening is started once: the        *)
(* command « ouvrir » of an opening stands at most once in the queue, and  *)
(* only while the opening has not begun (UneFois).  That its standard      *)
(* input stays open (EntreeTenue) rests on it: the command that takes an   *)
(* input out kills the process registered under the same id.               *)
(*                                                                         *)
(* The second part is about Vnc: a request is with the server or its end   *)
(* on the way, and what is still to be read leads the loop to what the     *)
(* user holds, shares and has copied.                                      *)
(***************************************************************************)
EXTENDS Bureau, Vnc, SequenceTheorems, TLAPS

Fiches == [etape : Etapes, id : Ids, reponse : Reponses, page : 0 .. MaxRecharges]
Fichiers == [etat : {"jamais", "connexion", "direct", "ferme", "retire"},
             ouv : Ouvertures \cup {Personne}]

\* A tab that can be closed has its opening.
Liee ==
  \A i \in Ids : onglet[i].etat \in {"connexion", "direct", "ferme"} => onglet[i].ouv \in Ouvertures

\* An opening that has not begun is called at most once, and no other is.
UneFois ==
  \A n \in 1 .. Len(appels) : appels[n].cmd = "ouvrir" =>
    /\ ouv[appels[n].pour].etape = "appelee"
    /\ \A m \in 1 .. Len(appels) :
         appels[m].cmd = "ouvrir" /\ appels[m].pour = appels[n].pour => m = n

\* An answer is given once, at the end.
Repondues == \A o \in Ouvertures : ouv[o].reponse # "aucune" => ouv[o].etape \in {"repondu", "fin"}

\* No process before the launch, nor after `tuer`.
SansProcessus ==
  \A o \in Ouvertures :
    ouv[o].etape \in {"libre", "appelee", "controle", "trousseau", "retirer"} => proc[o] \notin Vivants

IInv == TypeOK /\ Liee /\ UneFois /\ Repondues /\ SansProcessus /\ EnfantTenu /\ EchecSansReste /\ EntreeTenue

-----------------------------------------------------------------------------
(* What the operators the actions are made of leave.                       *)

\* Aller moves one opening, and leaves its number and its answer.
LEMMA AllerEffet ==
  ASSUME TypeOK, NEW o \in Ouvertures, NEW e \in Etapes, Aller(o, e)
  PROVE  /\ ouv' \in [Ouvertures -> Fiches]
         /\ ouv'[o].etape = e /\ ouv'[o].reponse = ouv[o].reponse
         /\ \A p \in Ouvertures : ouv'[p].id = ouv[p].id
         /\ \A p \in Ouvertures \ {o} : ouv'[p] = ouv[p]
<1>1. ouv \in [Ouvertures -> Fiches]
  BY DEF TypeOK, Fiches
<1>2. ouv[o] \in Fiches
  BY <1>1
<1>3. [ouv[o] EXCEPT !.etape = e] \in Fiches
  BY <1>2 DEF Fiches
<1>4. ouv' = [ouv EXCEPT ![o] = [ouv[o] EXCEPT !.etape = e]]
  BY DEF Aller
<1>5. QED BY <1>1, <1>2, <1>3, <1>4 DEF Fiches

\* Repondre ends one opening with its answer.
LEMMA RepondreEffet ==
  ASSUME TypeOK, NEW o \in Ouvertures, NEW r \in Reponses, Repondre(o, r)
  PROVE  /\ ouv' \in [Ouvertures -> Fiches]
         /\ ouv'[o].etape = "repondu" /\ ouv'[o].reponse = r
         /\ \A p \in Ouvertures : ouv'[p].id = ouv[p].id
         /\ \A p \in Ouvertures \ {o} : ouv'[p] = ouv[p]
<1>1. ouv \in [Ouvertures -> Fiches]
  BY DEF TypeOK, Fiches
<1>2. ouv[o] \in Fiches
  BY <1>1
<1>3. [ouv[o] EXCEPT !.etape = "repondu", !.reponse = r] \in Fiches
  BY <1>2 DEF Fiches, Etapes
<1>4. ouv' = [ouv EXCEPT ![o] = [ouv[o] EXCEPT !.etape = "repondu", !.reponse = r]]
  BY DEF Repondre
<1>5. QED BY <1>1, <1>2, <1>3, <1>4 DEF Fiches

\* The record of an opening.
LEMMA FicheType ==
  ASSUME TypeOK, NEW o \in Ouvertures
  PROVE  ouv[o] \in Fiches /\ ouv[o].id \in Ids
<1>1. ouv[o] \in Fiches
  BY DEF TypeOK, Fiches
<1>2. QED BY <1>1 DEF Fiches

\* Tues kills the processes it is given and no other.
LEMMA TuesEffet ==
  ASSUME TypeOK, NEW P
  PROVE  /\ Tues(P) \in [Ouvertures -> EtatsProc]
         /\ \A o \in Ouvertures : Tues(P)[o] = IF o \in P THEN "fini" ELSE proc[o]
BY DEF TypeOK, Tues, EtatsProc

\* A call of the page bears the number of its opening.
LEMMA AppelType ==
  ASSUME TypeOK, NEW o \in Ouvertures, NEW c \in {"ouvrir", "fermer", "lire"}, NEW n \in 1 .. 3
  PROVE  /\ Appel(c, o, n) \in Appels /\ Appel(c, o, n).cmd = c
         /\ Append(appels, Appel(c, o, n)) \in Seq(Appels)
<1>1. Appel(c, o, n) \in Appels
  BY FicheType DEF Appel, Appels
<1>2. QED BY <1>1 DEF Appel, TypeOK

\* A command of the queue.
LEMMA ElementType ==
  ASSUME TypeOK, NEW n \in 1 .. Len(appels)
  PROVE  /\ appels[n] \in Appels /\ appels[n].pour \in Ouvertures /\ appels[n].id \in Ids
         /\ appels[n].cmd \in {"ouvrir", "fermer", "lire"}
<1>1. appels[n] \in Appels
  BY DEF TypeOK
<1>2. QED BY <1>1 DEF Appels

\* A command other than « ouvrir » at the end of the queue.
LEMMA UneFoisSuite ==
  ASSUME TypeOK, UneFois, NEW a \in Appels, a.cmd # "ouvrir", appels' = Append(appels, a),
         \A o \in Ouvertures : ouv[o].etape = "appelee" => ouv'[o].etape = "appelee"
  PROVE  UneFois'
<1>1. appels \in Seq(Appels) /\ Len(appels') = Len(appels) + 1 /\ appels'[Len(appels) + 1] = a
  BY DEF TypeOK
<1>2. \A n \in 1 .. Len(appels) : appels'[n] = appels[n] /\ appels[n].pour \in Ouvertures
  BY <1>1, ElementType
<1>3. QED BY <1>1, <1>2 DEF UneFois

\* The first command leaves the queue.
LEMMA UneFoisTail ==
  ASSUME TypeOK, UneFois, appels # << >>, appels' = Tail(appels),
         \A o \in Ouvertures : ouv[o].etape = "appelee" /\ ouv'[o].etape # "appelee" =>
           Head(appels).cmd = "ouvrir" /\ Head(appels).pour = o
  PROVE  UneFois'
<1>1. appels \in Seq(Appels) /\ Len(appels) \in Nat /\ Len(appels) > 0
  BY DEF TypeOK
<1>2. Len(appels') = Len(appels) - 1 /\ Head(appels) = appels[1]
  BY <1>1
<1>3. \A n \in 1 .. Len(appels') :
        n + 1 \in 1 .. Len(appels) /\ appels'[n] = appels[n + 1] /\ appels[n + 1].pour \in Ouvertures
  BY <1>1, <1>2, ElementType
<1>4. QED BY <1>1, <1>2, <1>3 DEF UneFois

\* The state of a tab, changed in place.
LEMMA PoserEffet ==
  ASSUME TypeOK, Liee, NEW i \in Ids, NEW e \in {"direct", "ferme"}, Poser(i, e),
         onglet[i].ouv \in Ouvertures
  PROVE  onglet' \in [Ids -> Fichiers] /\ Liee'
<1>1. onglet \in [Ids -> Fichiers]
  BY DEF TypeOK, Fichiers
<1>2. onglet[i] \in Fichiers
  BY <1>1
<1>3. [onglet[i] EXCEPT !.etat = e] \in Fichiers
  BY <1>2 DEF Fichiers
<1>4. onglet' = [onglet EXCEPT ![i] = [onglet[i] EXCEPT !.etat = e]]
  BY DEF Poser
<1>5. onglet'[i].ouv = onglet[i].ouv /\ \A j \in Ids \ {i} : onglet'[j] = onglet[j]
  BY <1>1, <1>2, <1>4 DEF Fichiers
<1>6. QED BY <1>1, <1>3, <1>4, <1>5 DEF Liee

-----------------------------------------------------------------------------
(* The types.                                                              *)

\* A step of an opening's call keeps the types.
LEMMA TypesAppel ==
  ASSUME TypeOK, Liee, NEW o \in Ouvertures, PasAppel(o)
  PROVE  TypeOK' /\ Liee'
<1> USE DEF Etapes, Reponses, Fiches, pageVars, journalVars
<1>1. ouv[o].id \in Ids
  BY FicheType
<1>2. CASE Controler(o)
  <2>1. ouv' \in [Ouvertures -> Fiches]
    BY <1>2, AllerEffet, RepondreEffet DEF Controler
  <2>2. QED BY <1>2, <2>1 DEF Controler, TypeOK, Liee
<1>3. CASE Lancer(o)
  <2>1. ouv' \in [Ouvertures -> Fiches]
    BY <1>3, AllerEffet DEF Lancer
  <2>2. proc' \in [Ouvertures -> EtatsProc]
    BY <1>3, TuesEffet DEF Lancer, EtatsProc
  <2>3. QED BY <1>1, <1>3, <2>1, <2>2 DEF Lancer, TypeOK, Liee
<1>4. CASE NePasLancer(o)
  BY <1>4, RepondreEffet DEF NePasLancer, TypeOK, Liee
<1>5. CASE EnvoyerMotDePasse(o)
  <2>1. ouv' \in [Ouvertures -> Fiches]
    BY <1>5, AllerEffet DEF EnvoyerMotDePasse
  <2>2. QED BY <1>5, <2>1 DEF EnvoyerMotDePasse, TypeOK, Liee
<1>6. CASE Deposer(o)
  <2>1. ouv' \in [Ouvertures -> Fiches]
    BY <1>6, AllerEffet DEF Deposer
  <2>2. QED BY <1>1, <1>6, <2>1 DEF Deposer, TypeOK, Liee
<1>7. CASE Annonce(o)
  <2>1. ouv' \in [Ouvertures -> Fiches]
    BY <1>7, AllerEffet DEF Annonce
  <2>2. QED BY <1>7, <2>1 DEF Annonce, TypeOK, Liee
<1>8. CASE Verifier(o)
  <2>1. ouv' \in [Ouvertures -> Fiches]
    BY <1>8, AllerEffet, RepondreEffet DEF Verifier
  <2>2. QED BY <1>8, <2>1 DEF Verifier, TypeOK, Liee
<1>9. CASE SuivreDiagnostic(o)
  <2>1. ouv' \in [Ouvertures -> Fiches]
    BY <1>9, RepondreEffet DEF SuivreDiagnostic
  <2>2. QED BY <1>1, <1>9, <2>1 DEF SuivreDiagnostic, TypeOK, Liee
<1>10. CASE Echec(o)
  <2>1. ouv' \in [Ouvertures -> Fiches]
    BY <1>10, AllerEffet, RepondreEffet DEF Echec
  <2>2. QED BY <1>10, <2>1 DEF Echec, TypeOK, Liee
<1>11. CASE Tuer(o)
  <2>1. ouv' \in [Ouvertures -> Fiches]
    BY <1>11, AllerEffet DEF Tuer
  <2>2. proc' \in [Ouvertures -> EtatsProc]
    BY <1>11, TuesEffet DEF Tuer
  <2>3. QED BY <1>1, <1>11, <2>1, <2>2 DEF Tuer, TypeOK, Liee
<1>12. CASE RetirerEntree(o)
  <2>1. ouv' \in [Ouvertures -> Fiches]
    BY <1>12, RepondreEffet DEF RetirerEntree
  <2>2. QED BY <1>1, <1>12, <2>1 DEF RetirerEntree, TypeOK, Liee
<1>13. QED
  BY <1>2, <1>3, <1>4, <1>5, <1>6, <1>7, <1>8, <1>9, <1>10, <1>11, <1>12 DEF PasAppel

\* An answer received by the page, or a socket that closes.
LEMMA TypesPage ==
  ASSUME TypeOK, Liee, NEW o \in Ouvertures, PasPage(o)
  PROVE  TypeOK' /\ Liee'
<1> USE DEF journalVars
<1>1. /\ ouv[o].id \in Ids /\ appels \in Seq(Appels)
      /\ Appel("lire", o, 1) \in Appels /\ Appel("fermer", o, 1) \in Appels
  BY FicheType, AppelType DEF TypeOK
<1>2. CASE RecevoirOk(o)
  <2>1. ouv' \in [Ouvertures -> Fiches]
    BY <1>2, AllerEffet DEF RecevoirOk, Etapes
  <2>2. appels' \in Seq(Appels)
    <3>1. Append(appels, Appel("fermer", o, 1)) \in Seq(Appels)
      BY <1>1
    <3>2. QED BY <1>1, <1>2, <3>1 DEF RecevoirOk
  <2>3. ws' \in [Ouvertures -> {"aucune", "ouverte", "fermee"}]
    BY <1>2 DEF RecevoirOk, TypeOK
  <2>4. QED BY <1>2, <2>1, <2>2, <2>3 DEF RecevoirOk, TypeOK, Liee, Fiches
<1>3. CASE RecevoirEchec(o)
  <2>1. ouv' \in [Ouvertures -> Fiches]
    BY <1>3, AllerEffet DEF RecevoirEchec, Etapes
  <2>2. appels' \in Seq(Appels)
    <3>1. Append(appels, Appel("lire", o, 1)) \in Seq(Appels)
      BY <1>1
    <3>2. QED BY <1>1, <1>3, <3>1 DEF RecevoirEchec
  <2>3. onglet' \in [Ids -> Fichiers] /\ Liee'
    <3>1. CASE AOnglet(o) /\ ouv[o].reponse = "echec"
      BY <1>1, <1>3, <3>1, PoserEffet DEF RecevoirEchec, AOnglet
    <3>2. CASE ~(AOnglet(o) /\ ouv[o].reponse = "echec")
      BY <1>3, <3>2 DEF RecevoirEchec, TypeOK, Liee, Fichiers
    <3>3. QED BY <3>1, <3>2
  <2>4. QED BY <1>3, <2>1, <2>2, <2>3 DEF RecevoirEchec, TypeOK, Fiches, Fichiers
<1>4. CASE RecevoirConnecte(o)
  <2>1. onglet' \in [Ids -> Fichiers] /\ Liee'
    BY <1>1, <1>4, PoserEffet DEF RecevoirConnecte, AOnglet
  <2>2. QED BY <1>4, <2>1 DEF RecevoirConnecte, TypeOK, Fichiers
<1>5. CASE PerdreWs(o)
  <2>1. appels' \in Seq(Appels)
    <3>1. <<Appel("lire", o, 1), Appel("fermer", o, 1)>> \in Seq(Appels)
      BY <1>1
    <3>2. appels \o <<Appel("lire", o, 1), Appel("fermer", o, 1)>> \in Seq(Appels)
      BY <1>1, <3>1
    <3>3. QED BY <1>1, <1>5, <3>2 DEF PerdreWs
  <2>2. onglet' \in [Ids -> Fichiers] /\ Liee'
    <3>1. CASE AOnglet(o)
      BY <1>1, <1>5, <3>1, PoserEffet DEF PerdreWs, AOnglet
    <3>2. CASE ~AOnglet(o)
      BY <1>5, <3>2 DEF PerdreWs, TypeOK, Liee, Fichiers
    <3>3. QED BY <3>1, <3>2
  <2>3. ws' \in [Ouvertures -> {"aucune", "ouverte", "fermee"}]
    BY <1>5 DEF PerdreWs, TypeOK
  <2>4. QED BY <1>5, <2>1, <2>2, <2>3 DEF PerdreWs, TypeOK, Fichiers
<1>6. QED BY <1>2, <1>3, <1>4, <1>5 DEF PasPage

\* Every step keeps the types.
LEMMA TypesPas == TypeOK /\ Liee /\ [Next]_vars => TypeOK' /\ Liee'
<1> SUFFICES ASSUME TypeOK, Liee, [Next]_vars PROVE TypeOK' /\ Liee'
  OBVIOUS
<1> USE DEF pageVars, journalVars
<1>1. ASSUME NEW i \in Ids, FermerOnglet(i) PROVE TypeOK' /\ Liee'
  <2>1. onglet[i].ouv \in Ouvertures
    BY <1>1 DEF FermerOnglet, Liee
  <2>2. appels' \in Seq(Appels)
    BY <1>1, <2>1, AppelType DEF FermerOnglet
  <2>3. onglet' \in [Ids -> Fichiers] /\ Liee'
    BY <1>1 DEF FermerOnglet, TypeOK, Liee, Fichiers
  <2>4. ws' \in [Ouvertures -> {"aucune", "ouverte", "fermee"}]
    BY <1>1, <2>1 DEF FermerOnglet, TypeOK
  <2>5. QED BY <1>1, <2>2, <2>3, <2>4 DEF FermerOnglet, TypeOK, Fichiers
<1>2. ASSUME NEW i \in Ids, NEW o \in Ouvertures, OuvrirOnglet(i, o) PROVE TypeOK' /\ Liee'
  <2>1. [cmd |-> "ouvrir", id |-> i, pour |-> o, essai |-> 1] \in Appels
    BY DEF Appels
  <2>2. appels' \in Seq(Appels)
    BY <1>2, <2>1 DEF OuvrirOnglet, TypeOK
  <2>3. onglet' \in [Ids -> Fichiers] /\ Liee'
    BY <1>2 DEF OuvrirOnglet, TypeOK, Liee, Fichiers
  <2>4. ouv' \in [Ouvertures -> Fiches]
    BY <1>2 DEF OuvrirOnglet, TypeOK, Fiches, Etapes, Reponses
  <2>5. QED BY <1>2, <2>2, <2>3, <2>4 DEF OuvrirOnglet, TypeOK, Fiches, Fichiers
<1>3. CASE Recharger
  <2>1. onglet' \in [Ids -> Fichiers] /\ Liee'
    BY <1>3 DEF Recharger, Liee, Fichiers
  <2>2. ws' \in [Ouvertures -> {"aucune", "ouverte", "fermee"}] /\ recharges' \in 0 .. MaxRecharges
    BY <1>3, BureauAssumption DEF Recharger, TypeOK
  <2>3. QED BY <1>3, <2>1, <2>2 DEF Recharger, TypeOK, Fichiers
<1>4. CASE RdpOpen
  <2>1. Head(appels).pour \in Ouvertures
    BY <1>4, ElementType DEF RdpOpen, TypeOK
  <2>2. ouv' \in [Ouvertures -> Fiches]
    BY <1>4, <2>1, AllerEffet DEF RdpOpen, Etapes
  <2>3. appels' \in Seq(Appels)
    BY <1>4 DEF RdpOpen, TypeOK
  <2>4. QED BY <1>4, <2>2, <2>3 DEF RdpOpen, TypeOK, Liee, Fiches
<1>5. CASE RdpClose
  <2>1. Head(appels).id \in Ids
    BY <1>5, ElementType DEF RdpClose, TypeOK
  <2>2. proc' \in [Ouvertures -> EtatsProc]
    BY <1>5, TuesEffet DEF RdpClose
  <2>3. appels' \in Seq(Appels)
    BY <1>5 DEF RdpClose, TypeOK
  <2>4. QED BY <1>5, <2>1, <2>2, <2>3 DEF RdpClose, TypeOK, Liee
<1>6. CASE RdpDiagnostic
  <2>1. Head(appels) \in Appels /\ Tail(appels) \in Seq(Appels)
    BY <1>6, ElementType DEF RdpDiagnostic, TypeOK
  <2>2. Head(appels).essai < 3 => [Head(appels) EXCEPT !.essai = @ + 1] \in Appels
    BY <2>1 DEF Appels
  <2>3. appels' \in Seq(Appels)
    <3>1. CASE appels' = Tail(appels)
      BY <2>1, <3>1
    <3>2. CASE Head(appels).essai < 3 /\ appels' = Append(Tail(appels), [Head(appels) EXCEPT !.essai = @ + 1])
      BY <2>1, <2>2, <3>2
    <3>3. QED BY <1>6, <3>1, <3>2 DEF RdpDiagnostic
  <2>4. Head(appels).id \in Ids
    BY <2>1 DEF Appels
  <2>5. (IF journaux[Head(appels).id] = Personne THEN {} ELSE lignes[journaux[Head(appels).id]])
           \subseteq Ouvertures
    BY <2>4 DEF TypeOK
  <2>6. diag' \in [Ouvertures -> SUBSET Ouvertures]
    BY <1>6, <2>5 DEF RdpDiagnostic, TypeOK
  <2>7. QED BY <1>6, <2>3, <2>6 DEF RdpDiagnostic, TypeOK, Liee
<1>7. CASE CommencerAnnonce
  BY <1>7, BureauAssumption DEF CommencerAnnonce, TypeOK, Liee
<1>8. CASE FinirAnnonce
  BY <1>8 DEF FinirAnnonce, TypeOK, Liee
<1>9. ASSUME NEW o \in Ouvertures, LireMotDePasse(o) \/ Annoncer(o) \/ Servir(o) \/ Finir(o)
      PROVE TypeOK' /\ Liee'
  <2>1. proc' \in [Ouvertures -> EtatsProc]
    BY ZenonT(60), <1>9 DEF LireMotDePasse, Annoncer, Servir, Finir, TypeOK, EtatsProc
  <2>2. annoncees' \in SUBSET Ouvertures
    BY <1>9 DEF LireMotDePasse, Annoncer, Servir, Finir, TypeOK
  <2>3. lignes' \in [Ouvertures -> SUBSET Ouvertures]
    <3>1. CASE Finir(o) /\ suivi[o] # Personne
      <4>1. suivi[o] \in Ouvertures
        BY <3>1 DEF TypeOK
      <4>2. lignes[suivi[o]] \cup {o} \in SUBSET Ouvertures
        BY <4>1 DEF TypeOK
      <4>3. lignes' = [lignes EXCEPT ![suivi[o]] = lignes[suivi[o]] \cup {o}]
        BY <3>1 DEF Finir
      <4>4. QED BY <4>1, <4>2, <4>3 DEF TypeOK
    <3>2. CASE ~(Finir(o) /\ suivi[o] # Personne)
      BY <1>9, <3>2 DEF LireMotDePasse, Annoncer, Servir, Finir, TypeOK
    <3>3. QED BY <3>1, <3>2
  <2>4. QED BY <1>9, <2>1, <2>2, <2>3 DEF LireMotDePasse, Annoncer, Servir, Finir, TypeOK, Liee
<1>10. CASE UNCHANGED vars
  BY <1>10 DEF vars, TypeOK, Liee
<1>11. QED
  BY <1>1, <1>2, <1>3, <1>4, <1>5, <1>6, <1>7, <1>8, <1>9, <1>10, TypesAppel, TypesPage DEF Next

LEMMA TypesInit == Init => TypeOK /\ Liee
<1> SUFFICES ASSUME Init PROVE TypeOK /\ Liee
  OBVIOUS
<1>1. (CHOOSE i \in Ids : TRUE) \in Ids
  BY BureauAssumption DEF Ids
<1>2. ouv \in [Ouvertures -> Fiches]
  BY <1>1, BureauAssumption DEF Init, Fiches, Etapes, Reponses
<1>3. recharges \in 0 .. MaxRecharges /\ annonces \in 0 .. MaxAnnonces
  BY BureauAssumption DEF Init
<1>4. onglet \in [Ids -> Fichiers] /\ appels \in Seq(Appels)
  BY DEF Init, Fichiers
<1>5. /\ ws \in [Ouvertures -> {"aucune", "ouverte", "fermee"}]
      /\ proc \in [Ouvertures -> EtatsProc]
      /\ lignes \in [Ouvertures -> SUBSET Ouvertures] /\ diag \in [Ouvertures -> SUBSET Ouvertures]
  BY DEF Init, EtatsProc
<1>6. QED
  BY <1>2, <1>3, <1>4, <1>5 DEF Init, TypeOK, Liee, Fiches, Fichiers

-----------------------------------------------------------------------------
(* An opening begins once.                                                 *)

LEMMA UneFoisPas == TypeOK /\ Liee /\ UneFois /\ [Next]_vars => UneFois'
<1> SUFFICES ASSUME TypeOK, Liee, UneFois, [Next]_vars PROVE UneFois'
  OBVIOUS
<1> USE DEF pageVars, journalVars
<1>0. ASSUME appels' = appels,
             \A o \in Ouvertures : ouv[o].etape = "appelee" => ouv'[o].etape = "appelee"
      PROVE  UneFois'
  <2>1. \A n \in 1 .. Len(appels) : appels[n].pour \in Ouvertures
    BY ElementType
  <2>2. QED BY <1>0, <2>1 DEF UneFois
<1>1. ASSUME NEW i \in Ids, FermerOnglet(i) PROVE UneFois'
  <2>1. onglet[i].ouv \in Ouvertures
    BY <1>1 DEF FermerOnglet, Liee
  <2>2. QED BY <1>1, <2>1, AppelType, UneFoisSuite DEF FermerOnglet
<1>2. ASSUME NEW i \in Ids, NEW o \in Ouvertures, OuvrirOnglet(i, o) PROVE UneFois'
  <2> DEFINE a == [cmd |-> "ouvrir", id |-> i, pour |-> o, essai |-> 1]
  <2>1. /\ appels \in Seq(Appels) /\ Len(appels) \in Nat /\ Len(appels') = Len(appels) + 1
        /\ appels'[Len(appels) + 1] = a
        /\ \A n \in 1 .. Len(appels) : appels'[n] = appels[n]
    BY <1>2 DEF OuvrirOnglet, TypeOK
  <2>2. \A n \in 1 .. Len(appels) : appels[n].pour \in Ouvertures
    BY ElementType
  <2>3. \A n \in 1 .. Len(appels) : appels[n].cmd = "ouvrir" => appels[n].pour # o
    BY <1>2 DEF UneFois, OuvrirOnglet
  <2>4. ouv'[o].etape = "appelee" /\ \A p \in Ouvertures \ {o} : ouv'[p] = ouv[p]
    BY <1>2 DEF OuvrirOnglet, TypeOK
  <2>5. a.cmd = "ouvrir" /\ a.pour = o
    OBVIOUS
  <2> HIDE DEF a
  <2>6. QED BY <2>1, <2>2, <2>3, <2>4, <2>5 DEF UneFois
<1>3. CASE Recharger
  BY <1>0, <1>3 DEF Recharger
<1>4. CASE RdpOpen
  <2>1. Head(appels).pour \in Ouvertures
    BY <1>4, ElementType DEF RdpOpen, TypeOK
  <2>2. \A p \in Ouvertures \ {Head(appels).pour} : ouv'[p] = ouv[p]
    BY <1>4, <2>1, AllerEffet DEF RdpOpen, Etapes
  <2>3. QED BY <1>4, <2>1, <2>2, UneFoisTail DEF RdpOpen
<1>5. CASE RdpClose
  BY <1>5, UneFoisTail DEF RdpClose
<1>6. CASE RdpDiagnostic
  <2>1. Head(appels) \in Appels /\ Tail(appels) \in Seq(Appels) /\ Head(appels) = appels[1]
        /\ Len(Tail(appels)) = Len(appels) - 1 /\ Len(appels) \in Nat \ {0}
    BY <1>6, ElementType DEF RdpDiagnostic, TypeOK
  <2>2. CASE appels' = Tail(appels)
    BY <1>6, <2>2, UneFoisTail DEF RdpDiagnostic
  <2>3. CASE Head(appels).essai < 3 /\ appels' = Append(Tail(appels), [Head(appels) EXCEPT !.essai = @ + 1])
    <3> DEFINE b == [Head(appels) EXCEPT !.essai = @ + 1]
    <3>0. b \in Appels /\ b.cmd = Head(appels).cmd
      BY SMTT(60), <2>1, <2>3 DEF Appels
    <3>1. b \in Appels /\ b.cmd # "ouvrir"
      BY <1>6, <3>0 DEF RdpDiagnostic
    <3>2. appels' = Append(Tail(appels), b)
      BY <2>3
    <3> HIDE DEF b
    <3>3. Len(appels') = Len(appels) /\ appels'[Len(appels)] = b
          /\ \A n \in 1 .. Len(appels) - 1 : appels'[n] = appels[n + 1]
      BY <2>1, <3>1, <3>2 DEF TypeOK
    <3>4. \A n \in 1 .. Len(appels) : appels'[n].cmd = "ouvrir" =>
            n + 1 \in 1 .. Len(appels) /\ appels'[n] = appels[n + 1]
      BY <2>1, <3>1, <3>3
    <3>5. ouv' = ouv
      BY <1>6 DEF RdpDiagnostic
    <3>6. QED BY <2>1, <3>3, <3>4, <3>5 DEF UneFois
  <2>4. QED BY <1>6, <2>2, <2>3 DEF RdpDiagnostic
<1>7. CASE CommencerAnnonce
  BY <1>0, <1>7 DEF CommencerAnnonce
<1>8. CASE FinirAnnonce
  BY <1>0, <1>8 DEF FinirAnnonce
<1>9. ASSUME NEW o \in Ouvertures, LireMotDePasse(o) \/ Annoncer(o) \/ Servir(o) \/ Finir(o)
      PROVE UneFois'
  BY <1>0, <1>9 DEF LireMotDePasse, Annoncer, Servir, Finir
<1>10. CASE UNCHANGED vars
  BY <1>0, <1>10 DEF vars
<1>11. ASSUME NEW o \in Ouvertures, PasAppel(o) PROVE UneFois'
  <2>1. appels' = appels /\ ouv[o].etape # "appelee"
    BY <1>11 DEF PasAppel, Controler, Lancer, NePasLancer, EnvoyerMotDePasse, Deposer, Annonce,
                 Verifier, SuivreDiagnostic, Echec, Tuer, RetirerEntree
  <2>2. \A p \in Ouvertures \ {o} : ouv'[p] = ouv[p]
    BY <1>11, AllerEffet, RepondreEffet
       DEF PasAppel, Controler, Lancer, NePasLancer, EnvoyerMotDePasse, Deposer, Annonce,
           Verifier, SuivreDiagnostic, Echec, Tuer, RetirerEntree, Etapes, Reponses
  <2>3. QED BY <1>0, <2>1, <2>2
<1>12. ASSUME NEW o \in Ouvertures, PasPage(o) PROVE UneFois'
  <2>1. ouv' = ouv \/ (ouv[o].etape # "appelee" /\ \A p \in Ouvertures \ {o} : ouv'[p] = ouv[p])
    BY <1>12, AllerEffet DEF PasPage, RecevoirOk, RecevoirEchec, RecevoirConnecte, PerdreWs, Etapes
  <2>2. \A p \in Ouvertures : ouv[p].etape = "appelee" => ouv'[p].etape = "appelee"
    BY <2>1
  <2>3. CASE appels' = appels
    BY <1>0, <2>2, <2>3
  <2>4. ASSUME NEW c \in {"fermer", "lire"}, appels' = Append(appels, Appel(c, o, 1)) PROVE UneFois'
    BY <2>2, <2>4, AppelType, UneFoisSuite
  <2>5. CASE appels' = appels \o <<Appel("lire", o, 1), Appel("fermer", o, 1)>>
    <3>1. Appel("lire", o, 1) \in Appels /\ Appel("fermer", o, 1) \in Appels
          /\ Appel("lire", o, 1).cmd # "ouvrir" /\ Appel("fermer", o, 1).cmd # "ouvrir"
      BY AppelType
    <3>2. appels \in Seq(Appels) /\ Len(appels) \in Nat /\ Len(appels') = Len(appels) + 2
          /\ appels'[Len(appels) + 1] = Appel("lire", o, 1)
          /\ appels'[Len(appels) + 2] = Appel("fermer", o, 1)
          /\ \A n \in 1 .. Len(appels) : appels'[n] = appels[n]
      BY <2>5, <3>1 DEF TypeOK
    <3>3. \A n \in 1 .. Len(appels) + 2 : appels'[n].cmd = "ouvrir" => n \in 1 .. Len(appels)
      BY <3>1, <3>2
    <3>4. \A n \in 1 .. Len(appels) : appels[n].pour \in Ouvertures
      BY ElementType
    <3>5. QED BY <2>2, <3>2, <3>3, <3>4 DEF UneFois
  <2>6. QED
    BY <1>12, <2>3, <2>4, <2>5 DEF PasPage, RecevoirOk, RecevoirEchec, RecevoirConnecte, PerdreWs
<1>13. QED
  BY <1>1, <1>2, <1>3, <1>4, <1>5, <1>6, <1>7, <1>8, <1>9, <1>10, <1>11, <1>12 DEF Next

-----------------------------------------------------------------------------
(* The process and its parent.                                             *)

\* What concerns the processes and the calls, apart from the standard inputs.
Tenus == Repondues /\ SansProcessus /\ EnfantTenu /\ EchecSansReste

\* A step of an opening's call.
LEMMA TenusAppel ==
  ASSUME TypeOK, Tenus, NEW o \in Ouvertures, PasAppel(o)
  PROVE  Tenus'
<1> USE DEF Etapes, Reponses, Vivants, Tenus
<1>1. ouv[o].id \in Ids /\ \A p \in Ouvertures : ouv[p].id \in Ids
  BY FicheType
<1>2. ASSUME proc' = proc, inner' = inner,
             \A p \in Ouvertures : ouv'[p].id = ouv[p].id,
             \A p \in Ouvertures \ {o} : ouv'[p] = ouv[p],
             ouv'[o].reponse # "aucune" => ouv'[o].etape \in {"repondu", "fin"},
             ouv'[o].etape \in {"libre", "appelee", "controle", "trousseau", "retirer"}
               \/ ouv'[o].reponse \in {"echec", "annulee"} => proc[o] \notin Vivants
      PROVE  Tenus'
  BY <1>2 DEF Repondues, SansProcessus, EnfantTenu, EchecSansReste
<1>3. CASE Controler(o)
  <2>1. CASE Aller(o, "trousseau")
    BY <1>2, <1>3, <2>1, AllerEffet DEF Controler, Repondues, SansProcessus
  <2>2. CASE Repondre(o, "echec")
    BY <1>2, <1>3, <2>2, RepondreEffet DEF Controler, SansProcessus
  <2>3. QED BY <1>3, <2>1, <2>2 DEF Controler
<1>4. CASE NePasLancer(o)
  BY <1>2, <1>4, RepondreEffet DEF NePasLancer, SansProcessus
<1>5. CASE EnvoyerMotDePasse(o)
  BY <1>2, <1>5, AllerEffet DEF EnvoyerMotDePasse, Repondues
<1>6. CASE Deposer(o)
  BY <1>2, <1>6, AllerEffet DEF Deposer, Repondues
<1>7. CASE Annonce(o)
  BY <1>2, <1>7, AllerEffet DEF Annonce, Repondues
<1>8. CASE Verifier(o)
  <2>1. CASE inner[ouv[o].id] = o
    BY <1>2, <1>8, <2>1, AllerEffet DEF Verifier, Repondues
  <2>2. CASE inner[ouv[o].id] # o
    BY <1>2, <1>8, <2>2, RepondreEffet DEF Verifier, EnfantTenu
  <2>3. QED BY <2>1, <2>2
<1>9. CASE SuivreDiagnostic(o)
  BY <1>2, <1>9, RepondreEffet DEF SuivreDiagnostic
<1>10. CASE Echec(o)
  <2>1. CASE inner[ouv[o].id] = o
    BY <1>2, <1>10, <2>1, AllerEffet DEF Echec, Repondues
  <2>2. CASE inner[ouv[o].id] # o
    BY <1>2, <1>10, <2>2, RepondreEffet DEF Echec, EnfantTenu
  <2>3. QED BY <2>1, <2>2
<1>11. CASE RetirerEntree(o)
  BY <1>2, <1>11, RepondreEffet DEF RetirerEntree, SansProcessus
<1>12. CASE Lancer(o)
  <2>1. /\ ouv'[o].etape = "lance" /\ ouv'[o].reponse = ouv[o].reponse
        /\ \A p \in Ouvertures : ouv'[p].id = ouv[p].id
        /\ \A p \in Ouvertures \ {o} : ouv'[p] = ouv[p]
    BY <1>12, AllerEffet DEF Lancer
  <2>2. /\ proc'[o] = "lit"
        /\ \A p \in Ouvertures \ {o} : proc'[p] = IF p = inner[ouv[o].id] THEN "fini" ELSE proc[p]
    BY <1>12, TuesEffet DEF Lancer
  <2>3. inner'[ouv[o].id] = o /\ \A i \in Ids \ {ouv[o].id} : inner'[i] = inner[i]
    BY <1>1, <1>12 DEF Lancer, TypeOK
  <2>4. ouv[o].reponse = "aucune"
    BY <1>12 DEF Lancer, Repondues
  <2>5. EnfantTenu'
    BY <1>1, <2>1, <2>2, <2>3 DEF EnfantTenu
  <2>6. QED BY <2>1, <2>2, <2>4, <2>5 DEF Repondues, SansProcessus, EchecSansReste
<1>13. CASE Tuer(o)
  <2>1. /\ ouv'[o].etape = "retirer" /\ ouv'[o].reponse = ouv[o].reponse
        /\ \A p \in Ouvertures : ouv'[p].id = ouv[p].id
        /\ \A p \in Ouvertures \ {o} : ouv'[p] = ouv[p]
    BY <1>13, AllerEffet DEF Tuer
  <2>2. \A p \in Ouvertures : proc'[p] = IF p = inner[ouv[o].id] THEN "fini" ELSE proc[p]
    BY <1>13, TuesEffet DEF Tuer
  <2>3. \A i \in Ids \ {ouv[o].id} : inner'[i] = inner[i]
    BY <1>1, <1>13 DEF Tuer, TypeOK
  <2>4. ouv[o].reponse = "aucune"
    BY <1>13 DEF Tuer, Repondues
  <2>5. EnfantTenu' /\ proc'[o] \notin Vivants
    BY <1>1, <2>1, <2>2, <2>3 DEF EnfantTenu
  <2>6. QED BY <2>1, <2>2, <2>4, <2>5 DEF Repondues, SansProcessus, EchecSansReste
<1>14. QED
  BY <1>3, <1>4, <1>5, <1>6, <1>7, <1>8, <1>9, <1>10, <1>11, <1>12, <1>13 DEF PasAppel

LEMMA TenusPas == TypeOK /\ Liee /\ UneFois /\ Tenus /\ [Next]_vars => Tenus'
<1> SUFFICES ASSUME TypeOK, Liee, UneFois, Tenus, [Next]_vars PROVE Tenus'
  OBVIOUS
<1> USE DEF pageVars, journalVars, Tenus
<1>0. ASSUME proc' = proc, inner' = inner, ouv' = ouv PROVE Tenus'
  BY <1>0 DEF Repondues, SansProcessus, EnfantTenu, EchecSansReste
<1>1. ASSUME NEW i \in Ids, FermerOnglet(i) PROVE Tenus'
  BY <1>0, <1>1 DEF FermerOnglet
<1>2. ASSUME NEW i \in Ids, NEW o \in Ouvertures, OuvrirOnglet(i, o) PROVE Tenus'
  <2>1. ouv'[o].etape = "appelee" /\ ouv'[o].reponse = "aucune"
        /\ \A p \in Ouvertures \ {o} : ouv'[p] = ouv[p]
    BY <1>2 DEF OuvrirOnglet, TypeOK
  <2>2. proc[o] \notin Vivants /\ proc' = proc /\ inner' = inner
    BY <1>2 DEF OuvrirOnglet, SansProcessus
  <2>3. QED BY <2>1, <2>2 DEF Repondues, SansProcessus, EnfantTenu, EchecSansReste
<1>3. CASE Recharger
  BY <1>0, <1>3 DEF Recharger
<1>4. CASE RdpOpen
  <2> DEFINE o == Head(appels).pour
  <2>0. 1 \in 1 .. Len(appels) /\ Head(appels) = appels[1] /\ appels[1].cmd = "ouvrir"
    BY <1>4 DEF RdpOpen, TypeOK
  <2>1. o \in Ouvertures /\ ouv[o].etape = "appelee"
    BY <1>4, <2>0, ElementType DEF TypeOK, UneFois
  <2>2. /\ ouv'[o].etape = "controle" /\ ouv'[o].reponse = ouv[o].reponse
        /\ \A p \in Ouvertures : ouv'[p].id = ouv[p].id
        /\ \A p \in Ouvertures \ {o} : ouv'[p] = ouv[p]
    BY <1>4, <2>1, AllerEffet DEF RdpOpen, Etapes
  <2>3. proc' = proc /\ inner' = inner
    BY <1>4 DEF RdpOpen
  <2> HIDE DEF o
  <2>4. QED BY <2>1, <2>2, <2>3 DEF Repondues, SansProcessus, EnfantTenu, EchecSansReste
<1>5. CASE RdpClose
  <2> DEFINE i == Head(appels).id
  <2>1. i \in Ids
    BY <1>5, ElementType DEF RdpClose, TypeOK
  <2>2. \A p \in Ouvertures : proc'[p] = IF p = inner[i] THEN "fini" ELSE proc[p]
    BY <1>5, TuesEffet DEF RdpClose
  <2>3. /\ \A j \in Ids \ {i} : inner'[j] = inner[j]
        /\ ouv' = ouv
    BY <1>5, <2>1 DEF RdpClose, TypeOK
  <2> HIDE DEF i
  <2>4. \A p \in Ouvertures : ouv[p].id \in Ids
    BY FicheType
  <2>5. QED
    BY <2>1, <2>2, <2>3, <2>4 DEF Repondues, SansProcessus, EnfantTenu, EchecSansReste, Vivants
<1>6. CASE RdpDiagnostic
  BY <1>0, <1>6 DEF RdpDiagnostic
<1>7. CASE CommencerAnnonce
  BY <1>0, <1>7 DEF CommencerAnnonce
<1>8. CASE FinirAnnonce
  BY <1>0, <1>8 DEF FinirAnnonce
<1>9. ASSUME NEW o \in Ouvertures, LireMotDePasse(o) \/ Annoncer(o) \/ Servir(o) \/ Finir(o)
      PROVE Tenus'
  <2>1. /\ proc[o] \in Vivants /\ inner' = inner /\ ouv' = ouv
        /\ \A p \in Ouvertures \ {o} : proc'[p] = proc[p]
    BY <1>9 DEF LireMotDePasse, Annoncer, Servir, Finir, Vivants, TypeOK
  <2>2. QED BY <2>1 DEF Repondues, SansProcessus, EnfantTenu, EchecSansReste
<1>10. CASE UNCHANGED vars
  BY <1>0, <1>10 DEF vars
<1>11. ASSUME NEW o \in Ouvertures, PasPage(o) PROVE Tenus'
  <2>1. proc' = proc /\ inner' = inner
    BY <1>11 DEF PasPage, RecevoirOk, RecevoirEchec, RecevoirConnecte, PerdreWs
  <2>2. CASE ouv' = ouv
    BY <1>0, <2>1, <2>2
  <2>3. CASE Aller(o, "fin")
    <3>1. /\ ouv'[o].etape = "fin" /\ ouv'[o].reponse = ouv[o].reponse
          /\ \A p \in Ouvertures : ouv'[p].id = ouv[p].id
          /\ \A p \in Ouvertures \ {o} : ouv'[p] = ouv[p]
      BY <2>3, AllerEffet DEF Etapes
    <3>2. QED BY <2>1, <3>1 DEF Repondues, SansProcessus, EnfantTenu, EchecSansReste
  <2>4. QED
    BY <1>11, <2>2, <2>3 DEF PasPage, RecevoirOk, RecevoirEchec, RecevoirConnecte, PerdreWs
<1>12. QED
  BY <1>1, <1>2, <1>3, <1>4, <1>5, <1>6, <1>7, <1>8, <1>9, <1>10, <1>11, TenusAppel DEF Next

-----------------------------------------------------------------------------
(* The standard inputs.                                                    *)

\* What keeps EntreeTenue: a process that lives lived already, its input is as open as
\* it was, and an opening that shares its number still does.
LEMMA EntreeGardee ==
  ASSUME TypeOK, EntreeTenue,
         \A p \in Ouvertures : ouv[p].etape # "libre" => ouv'[p].etape # "libre" /\ ouv'[p].id = ouv[p].id,
         NEW o \in Ouvertures, proc[o] \in Vivants, ouv[o].etape # "libre",
         EntreeOuverte(o) => EntreeOuverte(o)'
  PROVE  EntreeOuverte(o)' \/ \E p \in Ouvertures \ {o} : ouv'[p].etape # "libre" /\ ouv'[p].id = ouv'[o].id
BY DEF EntreeTenue

LEMMA EntreePas == TypeOK /\ Liee /\ UneFois /\ Tenus /\ EntreeTenue /\ [Next]_vars => EntreeTenue'
<1> SUFFICES ASSUME TypeOK, Liee, UneFois, Tenus, EntreeTenue, [Next]_vars PROVE EntreeTenue'
  OBVIOUS
<1> USE DEF pageVars, journalVars
<1>a. \A p \in Ouvertures : ouv[p].id \in Ids
  BY FicheType
<1>b. \A p \in Ouvertures : proc[p] \in Vivants => ouv[p].etape # "libre"
  BY DEF Tenus, SansProcessus
<1>0. ASSUME \A p \in Ouvertures : ouv[p].etape # "libre" => ouv'[p].etape # "libre" /\ ouv'[p].id = ouv[p].id,
             \A p \in Ouvertures : proc'[p] \in Vivants =>
               proc[p] \in Vivants /\ (EntreeOuverte(p) => EntreeOuverte(p)')
      PROVE  EntreeTenue'
  BY <1>0, <1>b, EntreeGardee DEF EntreeTenue
<1>1. ASSUME NEW i \in Ids, FermerOnglet(i) PROVE EntreeTenue'
  BY <1>0, <1>1 DEF FermerOnglet, EntreeOuverte
<1>2. ASSUME NEW i \in Ids, NEW o \in Ouvertures, OuvrirOnglet(i, o) PROVE EntreeTenue'
  <2>1. ouv'[o].etape = "appelee" /\ ouv[o].etape = "libre"
        /\ \A p \in Ouvertures \ {o} : ouv'[p] = ouv[p]
    BY <1>2 DEF OuvrirOnglet, TypeOK
  <2>2. stdins' = stdins /\ proc' = proc
    BY <1>2 DEF OuvrirOnglet
  <2>3. QED BY <1>0, <1>b, <2>1, <2>2 DEF EntreeOuverte
<1>3. CASE Recharger
  BY <1>0, <1>3 DEF Recharger, EntreeOuverte
<1>4. CASE RdpOpen
  <2> DEFINE o == Head(appels).pour
  <2>1. o \in Ouvertures /\ ouv[o].etape = "appelee"
    BY <1>4, ElementType DEF RdpOpen, TypeOK, UneFois
  <2>2. /\ ouv'[o].etape = "controle" /\ \A p \in Ouvertures : ouv'[p].id = ouv[p].id
        /\ \A p \in Ouvertures \ {o} : ouv'[p] = ouv[p]
    BY <1>4, <2>1, AllerEffet DEF RdpOpen, Etapes
  <2>3. proc' = proc /\ stdins' = stdins
    BY <1>4 DEF RdpOpen
  <2> HIDE DEF o
  <2>4. QED BY <1>0, <2>1, <2>2, <2>3 DEF EntreeOuverte, EnMain
<1>5. CASE RdpClose
  <2> DEFINE i == Head(appels).id
  <2>1. i \in Ids
    BY <1>5, ElementType DEF RdpClose, TypeOK
  <2>2. \A p \in Ouvertures : proc'[p] = IF p = inner[i] THEN "fini" ELSE proc[p]
    BY <1>5, TuesEffet DEF RdpClose
  <2>3. (\A j \in Ids \ {i} : stdins'[j] = stdins[j]) /\ ouv' = ouv
    BY <1>5, <2>1 DEF RdpClose, TypeOK
  <2> HIDE DEF i
  <2>4. \A p \in Ouvertures : proc'[p] \in Vivants => proc[p] \in Vivants /\ ouv[p].id # i
    BY <2>2 DEF Tenus, EnfantTenu, Vivants
  <2>5. QED BY <1>0, <1>a, <2>3, <2>4 DEF EntreeOuverte
<1>6. CASE RdpDiagnostic
  BY <1>0, <1>6 DEF RdpDiagnostic, EntreeOuverte
<1>7. CASE CommencerAnnonce
  BY <1>0, <1>7 DEF CommencerAnnonce, EntreeOuverte
<1>8. CASE FinirAnnonce
  <2>1. \A j \in Ids : stdins[j] # Personne /\ proc[stdins[j]] \in Vivants => stdins'[j] = stdins[j]
    BY <1>8 DEF FinirAnnonce, Vivants
  <2>2. proc' = proc /\ ouv' = ouv
    BY <1>8 DEF FinirAnnonce
  <2>3. \A p \in Ouvertures : p # Personne
    BY BureauAssumption
  <2>4. QED BY <1>0, <1>a, <2>1, <2>2, <2>3 DEF EntreeOuverte
<1>9. ASSUME NEW o \in Ouvertures, LireMotDePasse(o) \/ Annoncer(o) \/ Servir(o) \/ Finir(o)
      PROVE EntreeTenue'
  <2>1. /\ proc[o] \in Vivants /\ stdins' = stdins /\ ouv' = ouv
        /\ \A p \in Ouvertures \ {o} : proc'[p] = proc[p]
    BY <1>9 DEF LireMotDePasse, Annoncer, Servir, Finir, Vivants, TypeOK
  <2>2. QED BY <1>0, <2>1 DEF EntreeOuverte
<1>10. CASE UNCHANGED vars
  BY <1>0, <1>10 DEF vars, EntreeOuverte
<1>11. ASSUME NEW o \in Ouvertures, PasPage(o) PROVE EntreeTenue'
  <2>1. proc' = proc /\ stdins' = stdins
    BY <1>11 DEF PasPage, RecevoirOk, RecevoirEchec, RecevoirConnecte, PerdreWs
  <2>2. CASE ouv' = ouv
    BY <1>0, <2>1, <2>2 DEF EntreeOuverte
  <2>3. CASE ouv[o].etape = "repondu" /\ Aller(o, "fin")
    <3>1. /\ ouv'[o].etape = "fin" /\ \A p \in Ouvertures : ouv'[p].id = ouv[p].id
          /\ \A p \in Ouvertures \ {o} : ouv'[p] = ouv[p]
      BY <2>3, AllerEffet DEF Etapes
    <3>2. QED BY <1>0, <2>1, <2>3, <3>1 DEF EntreeOuverte, EnMain
  <2>4. QED
    BY <1>11, <2>2, <2>3 DEF PasPage, RecevoirOk, RecevoirEchec, RecevoirConnecte, PerdreWs
<1>12. ASSUME NEW o \in Ouvertures, PasAppel(o) PROVE EntreeTenue'
  <2>1. /\ ouv[o].etape # "libre" /\ ouv'[o].etape # "libre"
        /\ \A p \in Ouvertures : ouv'[p].id = ouv[p].id
        /\ \A p \in Ouvertures \ {o} : ouv'[p] = ouv[p]
    BY <1>12, AllerEffet, RepondreEffet
       DEF PasAppel, Controler, Lancer, NePasLancer, EnvoyerMotDePasse, Deposer, Annonce,
           Verifier, SuivreDiagnostic, Echec, Tuer, RetirerEntree, Etapes, Reponses
  <2>2. CASE stdins' = stdins /\ proc' = proc /\ ~Deposer(o)
    <3>1. ouv[o].etape \in EnMain => ouv'[o].etape \in EnMain \/ proc[o] \notin Vivants
      BY <1>12, <2>2, AllerEffet
         DEF PasAppel, Controler, Lancer, NePasLancer, EnvoyerMotDePasse, Annonce,
             Verifier, SuivreDiagnostic, Echec, Tuer, RetirerEntree, EnMain, Etapes, Vivants
    <3>2. QED BY <1>0, <2>1, <2>2, <3>1 DEF EntreeOuverte
  <2>3. CASE Deposer(o)
    <3>1. stdins'[ouv[o].id] = o /\ (\A j \in Ids \ {ouv[o].id} : stdins'[j] = stdins[j]) /\ proc' = proc
      BY <1>a, <2>3 DEF Deposer, TypeOK
    <3>2. SUFFICES ASSUME NEW q \in Ouvertures, proc[q] \in Vivants
                   PROVE  EntreeOuverte(q)' \/ \E p \in Ouvertures \ {q} : ouv'[p].etape # "libre" /\ ouv'[p].id = ouv'[q].id
      BY <3>1 DEF EntreeTenue
    <3>3. CASE ouv[q].id = ouv[o].id
      BY <2>1, <3>1, <3>3 DEF EntreeOuverte
    <3>4. CASE ouv[q].id # ouv[o].id
      BY <1>a, <1>b, <2>1, <3>1, <3>2, <3>4, EntreeGardee DEF EntreeOuverte
    <3>5. QED BY <3>3, <3>4
  <2>4. CASE Lancer(o)
    <3>1. /\ ouv'[o].etape \in EnMain /\ stdins' = stdins
          /\ \A p \in Ouvertures \ {o} : proc'[p] \in Vivants => proc[p] \in Vivants
      BY <2>4, AllerEffet, TuesEffet DEF Lancer, EnMain, Etapes, Vivants
    <3>2. SUFFICES ASSUME NEW q \in Ouvertures, proc'[q] \in Vivants
                   PROVE  EntreeOuverte(q)' \/ \E p \in Ouvertures \ {q} : ouv'[p].etape # "libre" /\ ouv'[p].id = ouv'[q].id
      BY DEF EntreeTenue
    <3>3. CASE q = o
      BY <3>1, <3>3 DEF EntreeOuverte
    <3>4. CASE q # o
      BY <1>b, <2>1, <3>1, <3>2, <3>4, EntreeGardee DEF EntreeOuverte
    <3>5. QED BY <3>3, <3>4
  <2>5. CASE Tuer(o)
    <3>1. /\ stdins' = stdins /\ \A p \in Ouvertures : proc'[p] \in Vivants => proc[p] \in Vivants
      BY <2>5, TuesEffet DEF Tuer, Vivants
    <3>2. ouv[o].etape \notin EnMain
      BY <2>5 DEF Tuer, EnMain
    <3>3. QED BY <1>0, <2>1, <3>1, <3>2 DEF EntreeOuverte
  <2>6. CASE RetirerEntree(o)
    <3>1. /\ proc[o] \notin Vivants /\ proc' = proc
          /\ \A j \in Ids \ {ouv[o].id} : stdins'[j] = stdins[j]
      BY <1>a, <2>6 DEF RetirerEntree, Tenus, SansProcessus, TypeOK
    <3>2. SUFFICES ASSUME NEW q \in Ouvertures, proc[q] \in Vivants
                   PROVE  EntreeOuverte(q)' \/ \E p \in Ouvertures \ {q} : ouv'[p].etape # "libre" /\ ouv'[p].id = ouv'[q].id
      BY <3>1 DEF EntreeTenue
    <3>3. CASE ouv[q].id = ouv[o].id
      BY <2>1, <3>1, <3>2, <3>3
    <3>4. CASE ouv[q].id # ouv[o].id
      BY <1>a, <1>b, <2>1, <3>1, <3>2, <3>4, EntreeGardee DEF EntreeOuverte
    <3>5. QED BY <3>3, <3>4
  <2>7. (stdins' = stdins /\ proc' = proc) \/ Deposer(o) \/ Lancer(o) \/ Tuer(o) \/ RetirerEntree(o)
    BY <1>12 DEF PasAppel, Controler, NePasLancer, EnvoyerMotDePasse, Annonce, Verifier,
                 SuivreDiagnostic, Echec
  <2>8. QED BY <2>2, <2>3, <2>4, <2>5, <2>6, <2>7
<1>13. QED
  BY <1>1, <1>2, <1>3, <1>4, <1>5, <1>6, <1>7, <1>8, <1>9, <1>10, <1>11, <1>12 DEF Next

-----------------------------------------------------------------------------
LEMMA Inductif == Spec => []IInv
<1>1. Init => IInv
  <2> SUFFICES ASSUME Init PROVE IInv
    OBVIOUS
  <2>1. TypeOK /\ Liee
    BY TypesInit
  <2>2. UneFois
    BY DEF Init, UneFois
  <2>3. Repondues /\ SansProcessus /\ EnfantTenu /\ EchecSansReste /\ EntreeTenue
    BY DEF Init, Repondues, SansProcessus, EnfantTenu, EchecSansReste, EntreeTenue, Vivants
  <2>4. QED BY <2>1, <2>2, <2>3 DEF IInv
<1>2. IInv /\ [Next]_vars => IInv'
  BY TypesPas, UneFoisPas, TenusPas, EntreePas DEF IInv, Tenus
<1>3. QED BY <1>1, <1>2, PTL DEF Spec

\* Every state of the supervision is of the types it declares (rdp.rs, web/rdp.ts).
THEOREM TypesDuBureau == Spec => []TypeOK
BY Inductif, PTL DEF IInv

\* A living process is within the reach of its parent and keeps its standard input,
\* and an opening answered by a failure or a cancellation leaves none (rdp_open,
\* rdp_close, Essai::echec of rdp.rs).
THEOREM BureauToujoursTenu == Spec => []BureauTenu
BY Inductif, PTL DEF IInv, BureauTenu, ProcessusTenu
-----------------------------------------------------------------------------
(* The VNC desktop.                                                        *)

Evenement == [type : {"brut"}, zone : ZonesVnc, contenu : ContenusVnc]
             \cup [type : {"copie"}, zone : ZonesVnc, source : ZonesVnc]
             \cup [type : {"fin", "taille"}] \cup [type : {"texte"}, long : BOOLEAN]
Nus == {"ack", "pause", "reprise", "refresh", "coller", "appui", "relache", "molette"}
Entree == [type : Nus] \cup [type : {"partage"}, valeur : BOOLEAN]
          \cup [type : {"annonce"}, valeur : Nat]

TypesServeur ==
  /\ ecran \in [ZonesVnc -> ContenusVnc] /\ change \in SUBSET ZonesVnc /\ borne \in Bornes
  /\ evenements \in Seq(Evenement) /\ demandes \in {0, 1} /\ demande_en_vol \in BOOLEAN

\* A request is with the server, or its end on the way, and never both.
CompteTenu == (demandes = 1 => Fins = {}) /\ DemandeVraie

\* What the messages of type t before the i-th leave in force, d at the start.
EnVigueur(f, i, t, v, d) ==
  \/ \E j \in 1 .. i - 1 : /\ f[j].type = t /\ f[j].valeur = v
                           /\ \A k \in j + 1 .. i - 1 : f[k].type # t
  \/ v = d /\ \A k \in 1 .. i - 1 : f[k].type # t

\* A paste on the way finds the sharing and the text the user had: what it will give
\* was pasted while the sharing was on.
CollesSuivent(f, clip, memoire, faits, ouvert, dernier) ==
  /\ \A i \in 1 .. Len(f), n \in Nat :
       f[i].type = "coller" /\ EnVigueur(f, i, "partage", TRUE, clip)
         /\ EnVigueur(f, i, "annonce", n, memoire) /\ n # 0 => n \in faits
  /\ \A b : EnVigueur(f, Len(f) + 1, "partage", b, clip) => b = ouvert
  /\ \A n \in Nat : EnVigueur(f, Len(f) + 1, "annonce", n, memoire) => n = dernier

\* What a message changes: the value it carries, and what a paste gives, if anything.
Change(m, t, a, b) == IF m.type = t THEN b = m.valeur ELSE b = a
Donne(m, ouvert, dernier, faits) ==
  m.type = "coller" /\ ouvert = TRUE /\ dernier # 0 => dernier \in faits

\* The last press or release on the way is what the user holds.
Boutonne == {"appui", "relache"}
BoutonsSuivent(f, b, t) ==
  /\ (\A i \in 1 .. Len(f) : f[i].type \notin Boutonne) => b = t
  /\ \A i \in 1 .. Len(f) :
       f[i].type \in Boutonne /\ (\A j \in i + 1 .. Len(f) : f[j].type \notin Boutonne)
         => t = IF f[i].type = "appui" THEN {"gauche"} ELSE {}

TypesEntrees ==
  /\ entrees \in Seq(Entree) /\ partage_clip \in BOOLEAN /\ memoire_clip \in Nat
  /\ partage \in BOOLEAN /\ texte \in Nat
  /\ boutons \in SUBSET {"gauche"} /\ tenus \in SUBSET {"gauche"}

IInvServeur == TypesServeur /\ CompteTenu
IInvEntrees ==
  /\ TypesEntrees
  /\ CollesSuivent(entrees, partage_clip, memoire_clip, colles, partage, texte)
  /\ BoutonsSuivent(entrees, boutons, tenus)
  /\ masque = boutons /\ poste \subseteq colles
IInvVnc == IInvServeur /\ IInvEntrees

LEMMA FileAjout ==
  ASSUME NEW S, NEW f \in Seq(S), NEW m \in S, NEW g, g = Append(f, m)
  PROVE  /\ g \in Seq(S) /\ Len(g) = Len(f) + 1 /\ Len(f) \in Nat
         /\ \A i \in 1 .. Len(f) : g[i] = f[i]
         /\ g[Len(f) + 1] = m
OBVIOUS

LEMMA FileReste ==
  ASSUME NEW S, NEW f \in Seq(S), f # << >>, NEW g, g = Tail(f)
  PROVE  /\ g \in Seq(S) /\ Len(f) = Len(g) + 1 /\ Len(g) \in Nat
         /\ \A i \in 1 .. Len(g) : g[i] = f[i + 1]
         /\ Head(f) = f[1] /\ Head(f) \in S
OBVIOUS

-----------------------------------------------------------------------------
(* Its inputs.                                                             *)

LEMMA VigueurAjout ==
  ASSUME NEW f \in Seq(Entree), NEW m \in Entree, NEW g, g = Append(f, m),
         NEW t, NEW v, NEW d
  PROVE  /\ \A i \in 1 .. Len(f) + 1 : EnVigueur(g, i, t, v, d) => EnVigueur(f, i, t, v, d)
         /\ EnVigueur(g, Len(g) + 1, t, v, d) =>
              IF m.type = t THEN v = m.valeur ELSE EnVigueur(f, Len(f) + 1, t, v, d)
<1>1. /\ g \in Seq(Entree) /\ Len(g) = Len(f) + 1 /\ Len(f) \in Nat
      /\ \A i \in 1 .. Len(f) : g[i] = f[i]
      /\ g[Len(f) + 1] = m
  BY FileAjout
<1>2. ASSUME NEW i \in 1 .. Len(f) + 1, EnVigueur(g, i, t, v, d) PROVE EnVigueur(f, i, t, v, d)
  <2>1. \A j \in 1 .. i - 1 : j \in 1 .. Len(f) /\ \A k \in j + 1 .. i - 1 : k \in 1 .. Len(f)
    BY <1>1
  <2>2. QED BY <1>1, <1>2, <2>1 DEF EnVigueur
<1>3. ASSUME EnVigueur(g, Len(g) + 1, t, v, d), m.type = t PROVE v = m.valeur
  <2>1. Len(g) \in 1 .. Len(g) + 1 - 1
    BY <1>1
  <2>2. g[Len(g)].type = t
    BY <1>1, <1>3
  <2>3. PICK j \in 1 .. Len(g) + 1 - 1 : /\ g[j].type = t /\ g[j].valeur = v
                                         /\ \A k \in j + 1 .. Len(g) + 1 - 1 : g[k].type # t
    BY <1>3, <2>1, <2>2 DEF EnVigueur
  <2>4. j = Len(g)
    BY <1>1, <2>2, <2>3
  <2>5. QED BY <1>1, <2>3, <2>4
<1>4. ASSUME EnVigueur(g, Len(g) + 1, t, v, d), m.type # t PROVE EnVigueur(f, Len(f) + 1, t, v, d)
  <2>1. CASE \A k \in 1 .. Len(g) + 1 - 1 : g[k].type # t
    <3>1. v = d
      BY <1>4, <2>1 DEF EnVigueur
    <3>2. \A k \in 1 .. Len(f) + 1 - 1 : f[k].type # t
      BY <1>1, <2>1
    <3>3. QED BY <3>1, <3>2 DEF EnVigueur
  <2>2. CASE ~\A k \in 1 .. Len(g) + 1 - 1 : g[k].type # t
    <3>1. PICK j \in 1 .. Len(g) + 1 - 1 : /\ g[j].type = t /\ g[j].valeur = v
                                           /\ \A k \in j + 1 .. Len(g) + 1 - 1 : g[k].type # t
      BY <1>4, <2>2 DEF EnVigueur
    <3>2. j \in 1 .. Len(f) + 1 - 1 /\ f[j].type = t /\ f[j].valeur = v
      BY <1>1, <1>4, <3>1
    <3>3. \A k \in j + 1 .. Len(f) + 1 - 1 : f[k].type # t
      BY <1>1, <3>1, <3>2
    <3>4. QED BY <3>2, <3>3 DEF EnVigueur
  <2>3. QED BY <2>1, <2>2
<1>5. QED BY <1>2, <1>3, <1>4

LEMMA VigueurReste ==
  ASSUME NEW f \in Seq(Entree), f # << >>, NEW g, g = Tail(f), NEW t, NEW v, NEW d, NEW e,
         e = IF f[1].type = t THEN f[1].valeur ELSE d,
         NEW i \in 1 .. Len(g) + 1, EnVigueur(g, i, t, v, e)
  PROVE  EnVigueur(f, i + 1, t, v, d)
<1>1. /\ g \in Seq(Entree) /\ Len(f) = Len(g) + 1 /\ Len(g) \in Nat
      /\ \A k \in 1 .. Len(g) : g[k] = f[k + 1]
  BY FileReste
<1>2. ASSUME NEW j \in 1 .. i - 1, g[j].type = t, g[j].valeur = v,
             \A k \in j + 1 .. i - 1 : g[k].type # t
      PROVE  EnVigueur(f, i + 1, t, v, d)
  <2>1. j + 1 \in 1 .. i + 1 - 1 /\ f[j + 1].type = t /\ f[j + 1].valeur = v
    BY <1>1, <1>2
  <2>2. ASSUME NEW k \in j + 1 + 1 .. i + 1 - 1 PROVE f[k].type # t
    <3>1. k - 1 \in j + 1 .. i - 1 /\ k - 1 \in 1 .. Len(g) /\ f[k] = g[k - 1]
      BY <1>1
    <3>2. QED BY <1>2, <3>1
  <2>3. QED BY <2>1, <2>2 DEF EnVigueur
<1>3. ASSUME v = e, \A k \in 1 .. i - 1 : g[k].type # t
      PROVE  EnVigueur(f, i + 1, t, v, d)
  <2>1. \A k \in 2 .. i + 1 - 1 : f[k].type # t
    <3>1. SUFFICES ASSUME NEW k \in 2 .. i + 1 - 1 PROVE f[k].type # t
      OBVIOUS
    <3>2. k - 1 \in 1 .. i - 1 /\ k - 1 \in 1 .. Len(g) /\ f[k] = g[k - 1]
      BY <1>1
    <3>3. QED BY <1>3, <3>2
  <2>2. CASE f[1].type = t
    <3>1. 1 \in 1 .. i + 1 - 1 /\ f[1].valeur = v
      BY <1>1, <1>3, <2>2
    <3>2. \A k \in 1 + 1 .. i + 1 - 1 : f[k].type # t
      BY <2>1
    <3>3. QED BY <2>2, <3>1, <3>2 DEF EnVigueur
  <2>3. CASE f[1].type # t
    <3>1. v = d /\ \A k \in 1 .. i + 1 - 1 : f[k].type # t
      BY <1>3, <2>1, <2>3
    <3>2. QED BY <3>1 DEF EnVigueur
  <2>4. QED BY <2>2, <2>3
<1>4. QED BY <1>2, <1>3 DEF EnVigueur

\* A message of the user is added, with what it does to what he holds or shares.
LEMMA ColleAjout ==
  ASSUME NEW f \in Seq(Entree), NEW m \in Entree, NEW g, g = Append(f, m),
         NEW clip, NEW memoire, NEW faits, NEW ouvert, NEW dernier,
         NEW faits2, NEW ouvert2, NEW dernier2,
         CollesSuivent(f, clip, memoire, faits, ouvert, dernier), faits \subseteq faits2,
         Donne(m, ouvert, dernier, faits2),
         Change(m, "partage", ouvert, ouvert2), Change(m, "annonce", dernier, dernier2)
  PROVE  CollesSuivent(g, clip, memoire, faits2, ouvert2, dernier2)
<1>1. /\ Len(g) = Len(f) + 1 /\ Len(f) \in Nat
      /\ \A i \in 1 .. Len(f) : g[i] = f[i]
      /\ g[Len(f) + 1] = m
  BY FileAjout
<1>2. ASSUME NEW i \in 1 .. Len(g), NEW n \in Nat, g[i].type = "coller",
             EnVigueur(g, i, "partage", TRUE, clip), EnVigueur(g, i, "annonce", n, memoire), n # 0
      PROVE  n \in faits2
  <2>1. EnVigueur(f, i, "partage", TRUE, clip) /\ EnVigueur(f, i, "annonce", n, memoire)
    BY <1>1, <1>2, VigueurAjout
  <2>2. CASE i \in 1 .. Len(f)
    BY <1>1, <1>2, <2>1, <2>2 DEF CollesSuivent
  <2>3. CASE i = Len(f) + 1
    <3>1. TRUE = ouvert /\ n = dernier
      BY <2>1, <2>3 DEF CollesSuivent
    <3>2. QED BY <1>1, <1>2, <2>3, <3>1 DEF Donne
  <2>4. QED BY <1>1, <2>2, <2>3
<1>3. ASSUME NEW b, EnVigueur(g, Len(g) + 1, "partage", b, clip) PROVE b = ouvert2
  <2>1. IF m.type = "partage" THEN b = m.valeur ELSE EnVigueur(f, Len(f) + 1, "partage", b, clip)
    BY <1>3, VigueurAjout
  <2>2. QED BY <2>1 DEF CollesSuivent, Change
<1>4. ASSUME NEW n \in Nat, EnVigueur(g, Len(g) + 1, "annonce", n, memoire) PROVE n = dernier2
  <2>1. IF m.type = "annonce" THEN n = m.valeur ELSE EnVigueur(f, Len(f) + 1, "annonce", n, memoire)
    BY <1>4, VigueurAjout
  <2>2. QED BY <2>1 DEF CollesSuivent, Change
<1>5. QED BY <1>2, <1>3, <1>4 DEF CollesSuivent

LEMMA BoutonAjout ==
  ASSUME NEW f \in Seq(Entree), NEW m \in Entree, NEW g, g = Append(f, m), NEW b, NEW t, NEW t2,
         BoutonsSuivent(f, b, t),
         t2 = CASE m.type = "appui" -> {"gauche"} [] m.type = "relache" -> {} [] OTHER -> t
  PROVE  BoutonsSuivent(g, b, t2)
<1>1. /\ Len(g) = Len(f) + 1 /\ Len(f) \in Nat
      /\ \A i \in 1 .. Len(f) : g[i] = f[i]
      /\ g[Len(f) + 1] = m
  BY FileAjout
<1>2. CASE m.type \in Boutonne
  <2>1. t2 = IF m.type = "appui" THEN {"gauche"} ELSE {}
    BY <1>2 DEF Boutonne
  <2>2. Len(f) + 1 \in 1 .. Len(g) /\ g[Len(f) + 1].type \in Boutonne
    BY <1>1, <1>2
  <2>3. ASSUME NEW i \in 1 .. Len(g), \A j \in i + 1 .. Len(g) : g[j].type \notin Boutonne
        PROVE  i = Len(f) + 1
    BY <1>1, <2>2, <2>3
  <2>4. ASSUME NEW i \in 1 .. Len(g), g[i].type \in Boutonne,
               \A j \in i + 1 .. Len(g) : g[j].type \notin Boutonne
        PROVE  t2 = IF g[i].type = "appui" THEN {"gauche"} ELSE {}
    BY <1>1, <2>1, <2>3, <2>4
  <2>5. (\A i \in 1 .. Len(g) : g[i].type \notin Boutonne) => b = t2
    BY <2>2
  <2>6. QED BY <2>4, <2>5 DEF BoutonsSuivent
<1>3. CASE m.type \notin Boutonne
  <2>1. t2 = t
    BY <1>3 DEF Boutonne
  <2>2. (\A i \in 1 .. Len(g) : g[i].type \notin Boutonne) => b = t
    BY <1>1 DEF BoutonsSuivent
  <2>3. ASSUME NEW i \in 1 .. Len(g), g[i].type \in Boutonne,
               \A j \in i + 1 .. Len(g) : g[j].type \notin Boutonne
        PROVE  t = IF g[i].type = "appui" THEN {"gauche"} ELSE {}
    <3>1. i \in 1 .. Len(f) /\ f[i] = g[i]
      BY <1>1, <1>3, <2>3
    <3>2. \A j \in i + 1 .. Len(f) : f[j].type \notin Boutonne
      BY <1>1, <2>3
    <3>3. QED BY <2>3, <3>1, <3>2 DEF BoutonsSuivent
  <2>4. QED BY <2>1, <2>2, <2>3 DEF BoutonsSuivent
<1>4. QED BY <1>2, <1>3

\* The loop reads a message, with what it does to what the loop keeps.
LEMMA ColleReste ==
  ASSUME NEW f \in Seq(Entree), f # << >>, NEW g, g = Tail(f), NEW m, m = Head(f),
         NEW clip, NEW memoire, NEW faits, NEW ouvert, NEW dernier, NEW clip2, NEW memoire2,
         CollesSuivent(f, clip, memoire, faits, ouvert, dernier),
         Change(m, "partage", clip, clip2), Change(m, "annonce", memoire, memoire2)
  PROVE  CollesSuivent(g, clip2, memoire2, faits, ouvert, dernier)
<1>1. /\ Len(f) = Len(g) + 1 /\ Len(g) \in Nat /\ m = f[1]
      /\ \A i \in 1 .. Len(g) : g[i] = f[i + 1]
  BY FileReste
<1>2. ASSUME NEW i \in 1 .. Len(g) + 1, NEW v, EnVigueur(g, i, "partage", v, clip2)
      PROVE  EnVigueur(f, i + 1, "partage", v, clip)
  BY <1>1, <1>2, VigueurReste DEF Change
<1>3. ASSUME NEW i \in 1 .. Len(g) + 1, NEW v, EnVigueur(g, i, "annonce", v, memoire2)
      PROVE  EnVigueur(f, i + 1, "annonce", v, memoire)
  BY <1>1, <1>3, VigueurReste DEF Change
<1>4. ASSUME NEW i \in 1 .. Len(g), NEW n \in Nat, g[i].type = "coller",
             EnVigueur(g, i, "partage", TRUE, clip2), EnVigueur(g, i, "annonce", n, memoire2), n # 0
      PROVE  n \in faits
  <2>1. i \in 1 .. Len(g) + 1 /\ i + 1 \in 1 .. Len(f) /\ f[i + 1].type = "coller"
    BY <1>1, <1>4
  <2>2. QED BY <1>2, <1>3, <1>4, <2>1 DEF CollesSuivent
<1>5. Len(g) + 1 \in 1 .. Len(g) + 1 /\ Len(g) + 1 + 1 = Len(f) + 1
  BY <1>1
<1>6. ASSUME NEW b, EnVigueur(g, Len(g) + 1, "partage", b, clip2) PROVE b = ouvert
  BY <1>2, <1>5, <1>6 DEF CollesSuivent
<1>7. ASSUME NEW n \in Nat, EnVigueur(g, Len(g) + 1, "annonce", n, memoire2) PROVE n = dernier
  BY <1>3, <1>5, <1>7 DEF CollesSuivent
<1>8. QED BY <1>4, <1>6, <1>7 DEF CollesSuivent

LEMMA BoutonReste ==
  ASSUME NEW f \in Seq(Entree), f # << >>, NEW g, g = Tail(f), NEW m, m = Head(f),
         NEW b, NEW b2, NEW t, BoutonsSuivent(f, b, t),
         b2 = CASE m.type = "appui" -> {"gauche"} [] m.type = "relache" -> {} [] OTHER -> b
  PROVE  BoutonsSuivent(g, b2, t)
<1>1. /\ Len(f) = Len(g) + 1 /\ Len(g) \in Nat /\ m = f[1]
      /\ \A i \in 1 .. Len(g) : g[i] = f[i + 1]
  BY FileReste
<1>2. ASSUME NEW i \in 1 .. Len(g), g[i].type \in Boutonne,
             \A j \in i + 1 .. Len(g) : g[j].type \notin Boutonne
      PROVE  t = IF g[i].type = "appui" THEN {"gauche"} ELSE {}
  <2>1. i + 1 \in 1 .. Len(f) /\ f[i + 1] = g[i]
    BY <1>1
  <2>2. ASSUME NEW j \in i + 1 + 1 .. Len(f) PROVE f[j].type \notin Boutonne
    <3>1. j - 1 \in i + 1 .. Len(g) /\ j - 1 \in 1 .. Len(g) /\ f[j] = g[j - 1]
      BY <1>1
    <3>2. QED BY <1>2, <3>1
  <2>3. QED BY <1>2, <2>1, <2>2 DEF BoutonsSuivent
<1>3. ASSUME \A i \in 1 .. Len(g) : g[i].type \notin Boutonne PROVE b2 = t
  <2>1. ASSUME NEW j \in 1 + 1 .. Len(f) PROVE f[j].type \notin Boutonne
    <3>1. j - 1 \in 1 .. Len(g) /\ f[j] = g[j - 1]
      BY <1>1
    <3>2. QED BY <1>3, <3>1
  <2>2. CASE m.type \in Boutonne
    <3>1. t = IF m.type = "appui" THEN {"gauche"} ELSE {}
      BY <1>1, <2>1, <2>2 DEF BoutonsSuivent
    <3>2. QED BY <2>2, <3>1 DEF Boutonne
  <2>3. CASE m.type \notin Boutonne
    <3>1. \A i \in 1 .. Len(f) : f[i].type \notin Boutonne
      BY <1>1, <2>1, <2>3
    <3>2. b = t
      BY <3>1 DEF BoutonsSuivent
    <3>3. QED BY <2>3, <3>2 DEF Boutonne
  <2>4. QED BY <2>2, <2>3
<1>4. QED BY <1>2, <1>3 DEF BoutonsSuivent

\* The user makes a gesture of one message, with what it does.
LEMMA EntreeAjoutee ==
  ASSUME IInvEntrees, NEW m \in Entree, entrees' = Append(entrees, m),
         UNCHANGED <<partage_clip, memoire_clip, boutons, masque, poste>>,
         colles \subseteq colles',
         Donne(m, partage, texte, colles'),
         Change(m, "partage", partage, partage'), Change(m, "annonce", texte, texte'),
         tenus' = CASE m.type = "appui" -> {"gauche"} [] m.type = "relache" -> {} [] OTHER -> tenus
  PROVE  IInvEntrees'
<1>1. partage' \in BOOLEAN /\ texte' \in Nat /\ tenus' \in SUBSET {"gauche"}
  BY DEF IInvEntrees, TypesEntrees, Entree, Nus, Change
<1>2. TypesEntrees'
  BY <1>1, FileAjout DEF IInvEntrees, TypesEntrees
<1>3. CollesSuivent(entrees', partage_clip, memoire_clip, colles', partage', texte')
  <2>1. /\ entrees \in Seq(Entree)
        /\ CollesSuivent(entrees, partage_clip, memoire_clip, colles, partage, texte)
    BY DEF IInvEntrees, TypesEntrees
  <2>2. QED BY <2>1, ColleAjout
<1>4. BoutonsSuivent(entrees', boutons, tenus')
  BY BoutonAjout DEF IInvEntrees, TypesEntrees
<1>5. QED BY <1>2, <1>3, <1>4 DEF IInvEntrees

\* The loop reads a message, with what it does.
LEMMA EntreeLue ==
  ASSUME IInvEntrees, entrees # << >>, entrees' = Tail(entrees), NEW m, m = Head(entrees),
         UNCHANGED <<tenus, partage, texte, colles>>,
         Change(m, "partage", partage_clip, partage_clip'),
         Change(m, "annonce", memoire_clip, memoire_clip'),
         boutons' = CASE m.type = "appui" -> {"gauche"} [] m.type = "relache" -> {} [] OTHER -> boutons,
         masque' = boutons',
         poste' = IF m.type = "coller" /\ partage_clip /\ memoire_clip # 0
                  THEN poste \cup {memoire_clip} ELSE poste
  PROVE  IInvEntrees'
<1>1. m \in Entree /\ m = entrees[1] /\ entrees' \in Seq(Entree) /\ 1 \in 1 .. Len(entrees)
  BY FileReste DEF IInvEntrees, TypesEntrees
<1>2. TypesEntrees'
  <2>1. partage_clip' \in BOOLEAN /\ memoire_clip' \in Nat /\ boutons' \in SUBSET {"gauche"}
    BY <1>1 DEF IInvEntrees, TypesEntrees, Entree, Nus, Change
  <2>2. QED BY <1>1, <2>1 DEF IInvEntrees, TypesEntrees
<1>3. CollesSuivent(entrees', partage_clip', memoire_clip', colles, partage, texte)
  BY ColleReste DEF IInvEntrees, TypesEntrees
<1>4. BoutonsSuivent(entrees', boutons', tenus)
  BY BoutonReste DEF IInvEntrees, TypesEntrees
<1>5. poste' \subseteq colles
  <2>1. ASSUME m.type = "coller", partage_clip, memoire_clip # 0 PROVE memoire_clip \in colles
    <3>1. /\ EnVigueur(entrees, 1, "partage", partage_clip, partage_clip)
          /\ EnVigueur(entrees, 1, "annonce", memoire_clip, memoire_clip)
      BY DEF EnVigueur
    <3>2. partage_clip = TRUE /\ memoire_clip \in Nat
      BY <2>1 DEF IInvEntrees, TypesEntrees
    <3>3. QED BY <1>1, <2>1, <3>1, <3>2 DEF IInvEntrees, CollesSuivent
  <2>2. QED BY <2>1 DEF IInvEntrees
<1>6. QED BY <1>2, <1>3, <1>4, <1>5 DEF IInvEntrees

LEMMA EntreesPas == IInvEntrees /\ [NextVnc]_varsVnc => IInvEntrees'
<1> SUFFICES ASSUME IInvEntrees, [NextVnc]_varsVnc PROVE IInvEntrees'
  OBVIOUS
<1> DEFINE Loin == UNCHANGED <<entrees, partage_clip, memoire_clip, boutons, tenus, partage, texte,
                               colles, masque, poste>>
<1>1. ASSUME Loin PROVE IInvEntrees'
  BY <1>1 DEF IInvEntrees, TypesEntrees, CollesSuivent, BoutonsSuivent
<1>2. CASE UNCHANGED varsVnc
  BY <1>1, <1>2 DEF varsVnc, boucleVars, utilisateurVars
<1>3. ASSUME NEW z \in ZonesVnc, Dessiner(z) \/ Envoyer(z) PROVE IInvEntrees'
  BY <1>1, <1>3 DEF Dessiner, Envoyer, Signaler, boucleVars, utilisateurVars
<1>4. CASE RetaillerVnc \/ FinirEnvoi \/ \E long \in BOOLEAN : Copier(long)
  BY <1>1, <1>4 DEF RetaillerVnc, FinirEnvoi, Copier, Signaler, boucleVars, utilisateurVars
<1>5. CASE Recevoir \/ \E passe \in BOOLEAN : TicVnc(passe)
  BY <1>1, <1>5 DEF Recevoir, TicVnc, utilisateurVars
<1>6. CASE LireAckVnc \/ LirePauseVnc \/ LireRefreshVnc
  <2>1. /\ entrees # << >> /\ entrees' = Tail(entrees)
        /\ Head(entrees).type \in {"ack", "pause", "reprise", "refresh"}
        /\ UNCHANGED <<partage_clip, memoire_clip, boutons, tenus, partage, texte, colles, masque, poste>>
    BY <1>6 DEF LireAckVnc, LirePauseVnc, LireRefreshVnc, LireVnc, utilisateurVars
  <2>2. masque' = boutons'
    BY <2>1 DEF IInvEntrees
  <2>3. QED BY <2>1, <2>2, EntreeLue DEF Change
<1>7. CASE LirePresse
  <2>1. /\ entrees # << >> /\ entrees' = Tail(entrees)
        /\ Head(entrees).type \in {"partage", "annonce", "coller"}
        /\ UNCHANGED <<boutons, tenus, partage, texte, colles, masque>>
    BY <1>7 DEF LirePresse, LireVnc, utilisateurVars
  <2>2. masque' = boutons'
    BY <2>1 DEF IInvEntrees
  <2>3. /\ partage_clip' = IF Head(entrees).type = "partage" THEN Head(entrees).valeur ELSE partage_clip
        /\ memoire_clip' = IF Head(entrees).type = "annonce" THEN Head(entrees).valeur ELSE memoire_clip
        /\ poste' = IF Head(entrees).type = "coller" /\ partage_clip /\ memoire_clip # 0
                    THEN poste \cup {memoire_clip} ELSE poste
    BY <1>7 DEF LirePresse
  <2>4. QED BY <2>1, <2>2, <2>3, EntreeLue DEF Change
<1>8. CASE LireSouris
  <2>1. /\ entrees # << >> /\ entrees' = Tail(entrees)
        /\ Head(entrees).type \in {"appui", "relache", "molette"}
        /\ masque' = boutons'
        /\ UNCHANGED <<partage_clip, memoire_clip, tenus, partage, texte, colles, poste>>
    BY <1>8 DEF LireSouris, LireVnc, utilisateurVars
  <2>2. boutons' = CASE Head(entrees).type = "appui" -> boutons \cup {"gauche"}
                     [] Head(entrees).type = "relache" -> boutons \ {"gauche"}
                     [] Head(entrees).type = "molette" -> boutons
    BY <1>8 DEF LireSouris
  <2>3. boutons \in SUBSET {"gauche"}
    BY DEF IInvEntrees, TypesEntrees
  <2>4. boutons \cup {"gauche"} = {"gauche"} /\ boutons \ {"gauche"} = {}
    BY <2>3
  <2>5. boutons' = CASE Head(entrees).type = "appui" -> {"gauche"} [] Head(entrees).type = "relache" -> {}
                     [] OTHER -> boutons
    BY <2>1, <2>2, <2>4
  <2>6. QED BY <2>1, <2>5, EntreeLue DEF Change
<1>9. CASE Afficher
  <2>1. /\ UNCHANGED <<partage_clip, memoire_clip, boutons, tenus, partage, texte, colles, masque, poste>>
        /\ entrees' = entrees \/ entrees' = Append(entrees, Message("ack"))
    BY <1>9 DEF Afficher, boucleVars, utilisateurVars
  <2>2. Message("ack") \in Entree /\ Message("ack").type = "ack"
    BY DEF Message, Entree, Nus
  <2>3. QED BY <1>1, <2>1, <2>2, EntreeAjoutee DEF Change, Donne
<1>10. CASE CacherVnc
  <2>1. /\ entrees' = entrees \o <<Message("pause")>>
        /\ UNCHANGED <<partage_clip, memoire_clip, boutons, tenus, partage, texte, colles, masque, poste>>
    BY <1>10 DEF CacherVnc, Geste, boucleVars
  <2>2. Message("pause") \in Entree /\ Message("pause").type = "pause" /\ entrees \in Seq(Entree)
    BY DEF Message, Entree, Nus, IInvEntrees, TypesEntrees
  <2>3. entrees' = Append(entrees, Message("pause"))
    BY <2>1, <2>2
  <2>4. QED BY <2>1, <2>2, <2>3, EntreeAjoutee DEF Change, Donne
<1>11. CASE MontrerVnc
  <2>1. /\ entrees' = entrees \o <<Message("reprise"), Message("refresh")>>
        /\ UNCHANGED <<partage_clip, memoire_clip, boutons, tenus, partage, texte, colles, masque, poste>>
    BY <1>11 DEF MontrerVnc, Geste, boucleVars
  <2>2. /\ Message("reprise") \in Entree /\ Message("reprise").type = "reprise"
        /\ Message("refresh") \in Entree /\ Message("refresh").type = "refresh"
        /\ entrees \in Seq(Entree)
    BY DEF Message, Entree, Nus, IInvEntrees, TypesEntrees
  <2>3. PICK f : f = Append(entrees, Message("reprise"))
    OBVIOUS
  <2>4. f \in Seq(Entree) /\ entrees' = Append(f, Message("refresh"))
    BY <2>1, <2>2, <2>3
  <2>5. /\ texte \in Nat
        /\ CollesSuivent(entrees, partage_clip, memoire_clip, colles, partage, texte)
        /\ BoutonsSuivent(entrees, boutons, tenus)
    BY DEF IInvEntrees, TypesEntrees
  <2>6. CollesSuivent(f, partage_clip, memoire_clip, colles, partage, texte)
    BY <2>2, <2>3, <2>5, ColleAjout DEF Change, Donne
  <2>7. CollesSuivent(entrees', partage_clip, memoire_clip, colles, partage, texte)
    BY <2>2, <2>4, <2>5, <2>6, ColleAjout DEF Change, Donne
  <2>8. BoutonsSuivent(f, boutons, tenus)
    BY <2>2, <2>3, <2>5, BoutonAjout
  <2>9. BoutonsSuivent(entrees', boutons, tenus)
    BY <2>2, <2>4, <2>8, BoutonAjout
  <2>10. entrees' \in Seq(Entree)
    BY <2>2, <2>4
  <2>11. QED BY <2>1, <2>7, <2>9, <2>10 DEF IInvEntrees, TypesEntrees
<1>12. CASE Saisie
  <2>0. entrees \in Seq(Entree)
    BY DEF IInvEntrees, TypesEntrees
  <2>1. CASE PartagerVnc
    <3>1. PICK m : m = [type |-> "partage", valeur |-> partage']
      OBVIOUS
    <3>2. /\ entrees' = entrees \o <<m>> /\ partage' = ~partage
          /\ UNCHANGED <<partage_clip, memoire_clip, boutons, tenus, texte, colles, masque, poste>>
      BY <2>1, <3>1 DEF PartagerVnc, Geste, boucleVars
    <3>3. m \in Entree /\ m.type = "partage" /\ m.valeur = partage'
      BY <3>1, <3>2 DEF Entree
    <3>4. entrees' = Append(entrees, m)
      BY <2>0, <3>2, <3>3
    <3>5. QED BY <3>2, <3>3, <3>4, EntreeAjoutee DEF Change, Donne
  <2>2. CASE AnnoncerTexte
    <3>1. PICK m : m = [type |-> "annonce", valeur |-> texte']
      OBVIOUS
    <3>2. /\ entrees' = entrees \o <<m>> /\ texte' = texte + 1
          /\ UNCHANGED <<partage_clip, memoire_clip, boutons, tenus, partage, colles, masque, poste>>
      BY <2>2, <3>1 DEF AnnoncerTexte, Geste, boucleVars
    <3>3. texte' \in Nat
      BY <3>2 DEF IInvEntrees, TypesEntrees
    <3>4. m \in Entree /\ m.type = "annonce" /\ m.valeur = texte'
      BY <3>1, <3>3 DEF Entree
    <3>5. entrees' = Append(entrees, m)
      BY <2>0, <3>2, <3>4
    <3>6. QED BY <3>2, <3>4, <3>5, EntreeAjoutee DEF Change, Donne
  <2>3. CASE Coller
    <3>1. /\ entrees' = entrees \o <<Message("coller")>>
          /\ colles' = IF partage /\ texte # 0 THEN colles \cup {texte} ELSE colles
          /\ UNCHANGED <<partage_clip, memoire_clip, boutons, tenus, partage, texte, masque, poste>>
      BY <2>3 DEF Coller, Geste, boucleVars
    <3>2. Message("coller") \in Entree /\ Message("coller").type = "coller"
      BY DEF Message, Entree, Nus
    <3>3. entrees' = Append(entrees, Message("coller"))
      BY <2>0, <3>1, <3>2
    <3>4. QED BY <3>1, <3>2, <3>3, EntreeAjoutee DEF Change, Donne
  <2>4. CASE Souris
    <3>1. UNCHANGED <<partage_clip, memoire_clip, boutons, partage, texte, colles, masque, poste>>
      BY <2>4 DEF Souris, Geste, boucleVars
    <3>2. PICK t \in {"appui", "relache", "molette"} :
            /\ entrees' = entrees \o <<Message(t)>>
            /\ tenus' = CASE t = "appui" -> tenus \cup {"gauche"} [] t = "relache" -> tenus \ {"gauche"}
                          [] OTHER -> tenus
      BY <2>4 DEF Souris, Geste
    <3>3. Message(t) \in Entree /\ Message(t).type = t
      BY <3>2 DEF Message, Entree, Nus
    <3>4. entrees' = Append(entrees, Message(t))
      BY <2>0, <3>2, <3>3
    <3>5. tenus \in SUBSET {"gauche"}
      BY DEF IInvEntrees, TypesEntrees
    <3>6. tenus \cup {"gauche"} = {"gauche"} /\ tenus \ {"gauche"} = {}
      BY <3>5
    <3>7. tenus' = CASE t = "appui" -> {"gauche"} [] t = "relache" -> {} [] OTHER -> tenus
      BY <3>2, <3>6
    <3>8. QED BY <3>1, <3>2, <3>3, <3>4, <3>7, EntreeAjoutee DEF Change, Donne
  <2>5. QED BY <1>12, <2>1, <2>2, <2>3, <2>4 DEF Saisie
<1>13. QED
  BY <1>2, <1>3, <1>4, <1>5, <1>6, <1>7, <1>8, <1>9, <1>10, <1>11, <1>12
     DEF NextVnc, Serveur, LireMessageVnc, Vue

-----------------------------------------------------------------------------
(* Its requests.                                                           *)

\* The loop may ask for the next update.
LEMMA DemandeSuit ==
  ASSUME IInvServeur, UNCHANGED <<ecran, change, borne, evenements>>,
         NEW pause, Demander(pause, demande_en_vol)
  PROVE  IInvServeur'
<1>1. demandes' \in {0, 1} /\ demande_en_vol' \in BOOLEAN
      /\ (demandes' = 1 => Fins = {}) /\ (demande_en_vol' <=> (demandes' = 1 \/ Fins # {}))
  <2>1. CASE ~pause /\ ~demande_en_vol
    <3>1. demandes = 0 /\ Fins = {}
      BY <2>1 DEF IInvServeur, TypesServeur, CompteTenu, DemandeVraie
    <3>2. demandes' = demandes + 1 /\ demande_en_vol' = TRUE
      BY <2>1 DEF Demander
    <3>3. QED BY <3>1, <3>2
  <2>2. CASE ~(~pause /\ ~demande_en_vol)
    <3>1. demandes' = demandes /\ demande_en_vol' = demande_en_vol
      BY <2>2 DEF Demander
    <3>2. QED BY <3>1 DEF IInvServeur, TypesServeur, CompteTenu, DemandeVraie
  <2>3. QED BY <2>1, <2>2
<1>2. Fins' = Fins
  BY DEF Fins
<1>3. QED BY <1>1, <1>2 DEF IInvServeur, TypesServeur, CompteTenu, DemandeVraie

\* The server signals something that is not the end of an update.
LEMMA SignalSuit ==
  ASSUME IInvServeur, NEW e \in Evenement, e.type # "fin", evenements' = Append(evenements, e),
         ecran' = ecran, change' \in SUBSET ZonesVnc, borne' \in Bornes,
         UNCHANGED <<demandes, demande_en_vol>>
  PROVE  IInvServeur'
<1>1. /\ evenements' \in Seq(Evenement) /\ Len(evenements') = Len(evenements) + 1 /\ Len(evenements) \in Nat
      /\ \A i \in 1 .. Len(evenements) : evenements'[i] = evenements[i]
      /\ evenements'[Len(evenements) + 1] = e
  BY FileAjout DEF IInvServeur, TypesServeur
<1>2. Fins' = Fins
  <2>1. DOMAIN evenements = 1 .. Len(evenements) /\ DOMAIN evenements' = 1 .. Len(evenements) + 1
    BY <1>1 DEF IInvServeur, TypesServeur
  <2>2. QED BY <1>1, <2>1 DEF Fins
<1>3. QED BY <1>1, <1>2 DEF IInvServeur, TypesServeur, CompteTenu, DemandeVraie

LEMMA BornerType ==
  ASSUME borne \in Bornes, NEW quoi \in {"dessins", "tailles", "vides", "textes"}, NEW max, Borner(quoi, max)
  PROVE  borne' \in Bornes
<1>1. borne' = [borne EXCEPT ![quoi] = borne[quoi] + 1]
  BY DEF Borner
<1>2. borne[quoi] + 1 \in Nat
  BY DEF Bornes
<1>3. QED BY <1>1, <1>2 DEF Bornes

LEMMA ServeurPas == VncAssumption /\ IInvServeur /\ [NextVnc]_varsVnc => IInvServeur'
<1> SUFFICES ASSUME VncAssumption, IInvServeur, [NextVnc]_varsVnc PROVE IInvServeur'
  OBVIOUS
<1> DEFINE Loin == UNCHANGED <<ecran, change, borne, evenements, demandes, demande_en_vol>>
<1>1. ASSUME Loin PROVE IInvServeur'
  BY <1>1 DEF IInvServeur, TypesServeur, CompteTenu, DemandeVraie, Fins
<1>2. CASE UNCHANGED varsVnc
  BY <1>1, <1>2 DEF varsVnc, serveurVarsVnc, boucleVars
<1>3. ASSUME NEW z \in ZonesVnc, Dessiner(z) PROVE IInvServeur'
  <2>1. /\ UNCHANGED <<evenements, demandes, demande_en_vol>> /\ change' = change \cup {z}
        /\ borne.dessins < DESSINS_MAX /\ borne' \in Bornes
    BY <1>3, BornerType DEF Dessiner, Borner, boucleVars, IInvServeur, TypesServeur
  <2>2. \E c \in {borne.dessins + 1} \cup {ecran[s] : s \in ZonesVnc} : ecran' = [ecran EXCEPT ![z] = c]
    BY <1>3 DEF Dessiner
  <2>3. borne.dessins + 1 \in ContenusVnc /\ \A s \in ZonesVnc : ecran[s] \in ContenusVnc
    <3>1. borne.dessins \in Nat /\ DESSINS_MAX \in Nat
      BY DEF IInvServeur, TypesServeur, Bornes, VncAssumption
    <3>2. borne.dessins + 1 \in ContenusVnc
      BY <2>1, <3>1 DEF ContenusVnc
    <3>3. QED BY <3>2 DEF IInvServeur, TypesServeur
  <2>4. ecran' \in [ZonesVnc -> ContenusVnc]
    BY <2>2, <2>3 DEF IInvServeur, TypesServeur
  <2>5. QED BY <2>1, <2>4 DEF IInvServeur, TypesServeur, CompteTenu, DemandeVraie, Fins
<1>4. ASSUME NEW z \in ZonesVnc, Envoyer(z) PROVE IInvServeur'
  <2>1. /\ ecran' = ecran /\ demandes' = demandes /\ borne' = borne /\ change' = change \ {z}
        /\ demande_en_vol' = demande_en_vol
        /\ \/ evenements' = Append(evenements, Brut(z, ecran[z]))
           \/ \E s \in ZonesVnc \ {z} : evenements' = Append(evenements, Copie(z, s))
    BY <1>4 DEF Envoyer, Signaler, boucleVars
  <2>2. Brut(z, ecran[z]) \in Evenement /\ Brut(z, ecran[z]).type # "fin"
    BY DEF Brut, Evenement, IInvServeur, TypesServeur
  <2>3. \A s \in ZonesVnc : Copie(z, s) \in Evenement /\ Copie(z, s).type # "fin"
    BY DEF Copie, Evenement
  <2>4. change' \in SUBSET ZonesVnc /\ borne' \in Bornes
    BY <2>1 DEF IInvServeur, TypesServeur
  <2>5. QED BY <2>1, <2>2, <2>3, <2>4, SignalSuit
<1>5. CASE RetaillerVnc
  <2>1. /\ ecran' = ecran /\ demandes' = demandes /\ change' = ZonesVnc
        /\ demande_en_vol' = demande_en_vol
        /\ evenements' = Append(evenements, TailleVnc) /\ borne' \in Bornes
    BY <1>5, BornerType DEF RetaillerVnc, Signaler, boucleVars, IInvServeur, TypesServeur
  <2>2. TailleVnc \in Evenement /\ TailleVnc.type # "fin"
    BY DEF TailleVnc, Evenement
  <2>3. QED BY <2>1, <2>2, SignalSuit
<1>6. ASSUME NEW long \in BOOLEAN, Copier(long) PROVE IInvServeur'
  <2>1. /\ ecran' = ecran /\ demandes' = demandes /\ change' = change
        /\ demande_en_vol' = demande_en_vol
        /\ evenements' = Append(evenements, Texte(long)) /\ borne' \in Bornes
    BY <1>6, BornerType DEF Copier, Signaler, boucleVars, IInvServeur, TypesServeur
  <2>2. Texte(long) \in Evenement /\ Texte(long).type # "fin"
    BY DEF Texte, Evenement
  <2>3. change' \in SUBSET ZonesVnc
    BY <2>1 DEF IInvServeur, TypesServeur
  <2>4. QED BY <2>1, <2>2, <2>3, SignalSuit
<1>7. CASE FinirEnvoi
  <2>1. /\ ecran' = ecran /\ demandes > 0 /\ demandes' = demandes - 1 /\ change' = change
        /\ demande_en_vol' = demande_en_vol
        /\ evenements' = Append(evenements, Fin)
    BY <1>7 DEF FinirEnvoi, Signaler, boucleVars
  <2>2. borne' \in Bornes
    BY <1>7, BornerType DEF FinirEnvoi, IInvServeur, TypesServeur
  <2>3. demandes = 1 /\ demandes' = 0 /\ demande_en_vol
    BY <2>1 DEF IInvServeur, TypesServeur, CompteTenu, DemandeVraie
  <2>4. Fin \in Evenement /\ Fin.type = "fin"
    BY DEF Fin, Evenement
  <2>5. /\ evenements' \in Seq(Evenement) /\ Len(evenements') = Len(evenements) + 1 /\ Len(evenements) \in Nat
        /\ evenements'[Len(evenements) + 1] = Fin
    BY <2>1, <2>4, FileAjout DEF IInvServeur, TypesServeur
  <2>6. Len(evenements) + 1 \in DOMAIN evenements'
    BY <2>5
  <2>7. Fins' # {}
    BY <2>4, <2>5, <2>6 DEF Fins
  <2>8. QED BY <2>1, <2>2, <2>3, <2>5, <2>7 DEF IInvServeur, TypesServeur, CompteTenu, DemandeVraie
<1>8. CASE Recevoir
  <2>1. /\ UNCHANGED <<ecran, change, borne>> /\ evenements' = << >>
        /\ IF Fins # {} THEN Demander(pauseV, FALSE) ELSE UNCHANGED <<demandes, demande_en_vol>>
    BY <1>8 DEF Recevoir, serveurVarsVnc
  <2>2. Fins' = {}
    BY <2>1 DEF Fins
  <2>3. evenements' \in Seq(Evenement)
    BY <2>1
  <2>4. demandes' \in {0, 1} /\ demande_en_vol' \in BOOLEAN /\ (demande_en_vol' <=> demandes' = 1)
    <3>1. CASE Fins # {} /\ ~pauseV
      <4>1. demandes = 0
        BY <3>1 DEF IInvServeur, TypesServeur, CompteTenu
      <4>2. demandes' = demandes + 1 /\ demande_en_vol' = TRUE
        BY <2>1, <3>1 DEF Demander
      <4>3. QED BY <4>1, <4>2
    <3>2. CASE Fins # {} /\ pauseV
      <4>1. demandes = 0
        BY <3>2 DEF IInvServeur, TypesServeur, CompteTenu
      <4>2. demandes' = demandes /\ demande_en_vol' = FALSE
        BY <2>1, <3>2 DEF Demander
      <4>3. demandes' = 0 /\ ~demande_en_vol' /\ demande_en_vol' \in BOOLEAN
        BY <4>1, <4>2
      <4>4. QED BY <4>3
    <3>3. CASE Fins = {}
      <4>1. demandes' = demandes /\ demande_en_vol' = demande_en_vol
        BY <2>1, <3>3
      <4>2. QED BY <3>3, <4>1 DEF IInvServeur, TypesServeur, CompteTenu, DemandeVraie
    <3>4. QED BY <3>1, <3>2, <3>3
  <2>5. QED BY <2>1, <2>2, <2>3, <2>4 DEF IInvServeur, TypesServeur, CompteTenu, DemandeVraie
<1>9. CASE LireAckVnc \/ LirePresse \/ LireSouris \/ Afficher \/ CacherVnc \/ MontrerVnc \/ Saisie
  BY <1>1, <1>9 DEF LireAckVnc, LirePresse, LireSouris, LireVnc, Afficher, CacherVnc, MontrerVnc, Saisie, PartagerVnc,
                    AnnoncerTexte, Coller, Souris, Geste, serveurVarsVnc, boucleVars
<1>10. CASE LirePauseVnc
  <2>1. UNCHANGED <<ecran, change, borne, evenements>>
    BY <1>10 DEF LirePauseVnc, LireVnc, serveurVarsVnc
  <2>2. UNCHANGED <<demandes, demande_en_vol>> \/ Demander(FALSE, demande_en_vol)
    BY <1>10 DEF LirePauseVnc
  <2>3. QED BY <1>1, <2>1, <2>2, DemandeSuit
<1>11. CASE LireRefreshVnc
  <2>1. UNCHANGED <<ecran, change, borne, evenements>> /\ Demander(FALSE, demande_en_vol)
    BY <1>11 DEF LireRefreshVnc, LireVnc, serveurVarsVnc
  <2>2. QED BY <2>1, DemandeSuit
<1>12. ASSUME NEW passe \in BOOLEAN, TicVnc(passe) PROVE IInvServeur'
  <2>1. UNCHANGED <<ecran, change, borne, evenements>> /\ Demander(pauseV, demande_en_vol)
    BY <1>12 DEF TicVnc, serveurVarsVnc
  <2>2. QED BY <2>1, DemandeSuit
<1>13. QED
  BY <1>2, <1>3, <1>4, <1>5, <1>6, <1>7, <1>8, <1>9, <1>10, <1>11, <1>12
     DEF NextVnc, Serveur, LireMessageVnc, Vue

\* The loop of a VNC desktop always knows which request is out, so that none is ever
\* forgotten; the server is told the buttons that the user holds, and no text but what
\* he pasted while the sharing was on (demander_la_suite!, Pointeur::appliquer and the
\* clipboard of vnc.rs).
THEOREM VncToujoursTenu == ASSUME VncAssumption PROVE SpecVnc => []VncTenu
<1>1. InitVnc => IInvVnc
  <2> SUFFICES ASSUME InitVnc PROVE IInvVnc
    OBVIOUS
  <2>1. IInvServeur
    BY DEF InitVnc, VncAssumption, IInvServeur, TypesServeur, CompteTenu, DemandeVraie, Fins, ContenusVnc, Bornes
  <2>2. IInvEntrees
    <3>1. /\ entrees = << >> /\ Len(entrees) = 0
          /\ partage_clip = TRUE /\ partage = TRUE /\ memoire_clip = 0 /\ texte = 0
          /\ boutons = {} /\ tenus = {} /\ masque = {} /\ poste = {}
      BY DEF InitVnc
    <3>2. TypesEntrees
      BY <3>1 DEF TypesEntrees
    <3>3. CollesSuivent(entrees, partage_clip, memoire_clip, colles, partage, texte)
      <4>1. ASSUME NEW t, NEW v, NEW d, EnVigueur(entrees, Len(entrees) + 1, t, v, d) PROVE v = d
        BY <3>1, <4>1 DEF EnVigueur
      <4>2. partage_clip = partage /\ memoire_clip = texte /\ 1 .. Len(entrees) = {}
        BY <3>1
      <4>3. QED BY <4>1, <4>2 DEF CollesSuivent
    <3>4. BoutonsSuivent(entrees, boutons, tenus)
      BY <3>1 DEF BoutonsSuivent
    <3>5. QED BY <3>1, <3>2, <3>3, <3>4 DEF IInvEntrees
  <2>3. QED BY <2>1, <2>2 DEF IInvVnc
<1>2. IInvVnc /\ [NextVnc]_varsVnc => IInvVnc'
  BY ServeurPas, EntreesPas DEF IInvVnc
<1>3. IInvVnc => VncTenu
  <2> SUFFICES ASSUME IInvVnc PROVE VncTenu
    OBVIOUS
  <2>1. ASSUME entrees = << >> PROVE masque = tenus
    BY <2>1 DEF IInvVnc, IInvEntrees, BoutonsSuivent
  <2>2. QED BY <2>1 DEF IInvVnc, IInvServeur, IInvEntrees, CompteTenu, VncTenu, EntreesFideles
<1>4. QED BY <1>1, <1>2, <1>3, PTL DEF SpecVnc
=============================================================================
