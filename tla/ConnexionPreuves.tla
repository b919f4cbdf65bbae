-------------------------- MODULE ConnexionPreuves --------------------------
(***************************************************************************)
(* Theorems about ConnexionBureau, for every set of keys and number of     *)
(* rounds.                                                                 *)
(*                                                                         *)
(* The page is told of the way back because the local listener follows the *)
(* rounds (Guichet): no client and no « direct » before the announcement,  *)
(* a client from the first session on, and an announcement that meets no   *)
(* client ends the process.  Credentials go to a written key because a key *)
(* reaches the stage of the authentication by two ways only, found or      *)
(* appended (Epinglee); other processes only append.  Both are all it      *)
(* takes for the process to implement the abstract one (ProcessusBureau),  *)
(* but for its promise of progress.                                        *)
(*                                                                         *)
(* The second part is about Cadence: no zone of a displayed desktop is     *)
(* forgotten between the image, the frames under way and the canvas, the   *)
(* pause follows the display, and a paused process is silent.              *)
(***************************************************************************)
EXTENDS ConnexionBureau, Cadence, FiniteSetTheorems, SequenceTheorems, TLAPS

\* The local listener, its client and what the tab shows.
Guichet ==
  /\ poste = "aucun" => client = "absent" /\ page = "connexion"
  /\ poste = "annonce" => page = "connexion" /\ etape \in {"attend", "suite", "fini"}
  /\ poste = "annonce" /\ etape = "suite" => issue = "Err"
  /\ poste = "present" => client # "absent"
  /\ etape \in Avant => poste = "aucun"
  /\ etape = "attend" => poste = "annonce"
  /\ etape = "session" => poste = "present"

Ecrite(k) == \E i \in DOMAIN epingles : epingles[i] = k

\* The key of the round, from the moment the server has shown it.
Epinglee ==
  /\ etape \in {"epingle", "memorise", "authentifie", "finalise"} => cle \in Cles
  /\ etape = "memorise" => lu = Aucune
  /\ etape \in {"authentifie", "finalise"} => lu \in {cle, Aucune} /\ Ecrite(cle)
  /\ \A k \in livrees : Ecrite(k)

IInv == TypeOK /\ Guichet /\ DirectVrai /\ Epinglee

-----------------------------------------------------------------------------
\* The two files of the host only grow, and nothing written is lost.
LEMMA Ajout ==
  ASSUME TypeOK, NEW c \in Cles, epingles' = Append(epingles, c)
  PROVE  /\ epingles' \in Seq(Cles)
         /\ Ecrite(c)' /\ \A k : Ecrite(k) => Ecrite(k)'
<1>1. epingles \in Seq(Cles)
  BY DEF TypeOK
<1>2. /\ epingles' \in Seq(Cles) /\ Len(epingles') = Len(epingles) + 1
      /\ \A i \in 1 .. Len(epingles) : epingles'[i] = epingles[i]
      /\ epingles'[Len(epingles) + 1] = c
  BY <1>1
<1>3. DOMAIN epingles = 1 .. Len(epingles) /\ DOMAIN epingles' = 1 .. Len(epingles')
      /\ Len(epingles) \in Nat
  BY <1>1, <1>2
<1>4. QED BY <1>2, <1>3 DEF Ecrite

\* What is found in the file is a key of it, or nothing.
LEMMA Cherche ==
  ASSUME TypeOK
  PROVE  /\ ChercherEmpreinte \in Cles \cup {Aucune}
         /\ ChercherEmpreinte = Aucune \/ Ecrite(ChercherEmpreinte)
<1>1. epingles \in Seq(Cles)
  BY DEF TypeOK
<1>2. CASE epingles = <<>>
  BY <1>2 DEF ChercherEmpreinte
<1>3. CASE epingles # <<>>
  <2>1. Head(epingles) = epingles[1] /\ 1 \in DOMAIN epingles /\ epingles[1] \in Cles
    BY <1>1, <1>3
  <2>2. QED BY <1>3, <2>1 DEF ChercherEmpreinte, Ecrite
<1>4. QED BY <1>2, <1>3

-----------------------------------------------------------------------------
\* The types, the file of the keys apart.
Cases ==
  /\ etape \in Etapes /\ issue \in Issues
  /\ poste \in {"aucun", "annonce", "present"} /\ client \in {"absent", "la", "parti"}
  /\ page \in {"connexion", "direct"} /\ autre \in {"loin", "lu", "passe"}
Drapeaux ==
  /\ redirige \in BOOLEAN /\ dessine \in BOOLEAN /\ hybride \in BOOLEAN /\ muet \in BOOLEAN
  /\ entree \in BOOLEAN /\ sansNla \in BOOLEAN /\ memoire \in BOOLEAN /\ refus \in BOOLEAN
  /\ rejoue \in BOOLEAN
Valeurs ==
  /\ tour \in 0 .. TOURS_MAX /\ politique \in {"Observer", "Accepter"} /\ nature \in Natures
  /\ cle \in Cles \cup {Aucune} /\ lu \in Cles \cup {Aucune} /\ livrees \in SUBSET Cles

LEMMA Parts == TypeOK <=> Cases /\ Drapeaux /\ Valeurs /\ epingles \in Seq(Cles)
BY DEF TypeOK, Cases, Drapeaux, Valeurs

LEMMA TypesPas == ConnexionAssumption /\ TypeOK /\ Epinglee /\ [Next]_vars => TypeOK'
<1> SUFFICES ASSUME ConnexionAssumption, TypeOK, Epinglee, [Next]_vars PROVE TypeOK'
  OBVIOUS
<1> USE DEF Vers, Rendre, Etape, duTour, local, reglages, fichiers, histoire
<1>p. Cases /\ Drapeaux /\ Valeurs /\ epingles \in Seq(Cles)
  BY Parts
<1>1. Cases'
  <2> USE DEF Cases, Etapes, Avant, Connexion, Issues
  <2>1. CASE UNCHANGED vars
    BY <1>p, <2>1 DEF vars
  <2>2. CASE LireArguments \/ Sonder \/ CommencerTour \/ ConnecterTcp \/ Negocier \/ MonterTls
    BY <1>p, <2>2 DEF LireArguments, Sonder, CommencerTour, ConnecterTcp, Negocier, MonterTls
  <2>3. CASE Epingler \/ Memoriser \/ AuthentifierRdstls \/ Authentifier \/ Finaliser \/ DelaiConnexion
    BY <1>p, <2>3 DEF Epingler, Memoriser, AuthentifierRdstls, Authentifier, Finaliser, DelaiConnexion
  <2>4. CASE EtablirPoste \/ AttendreClient \/ Dessiner \/ FinirSession \/ Suivre
    BY <1>p, <2>4 DEF EtablirPoste, AttendreClient, Dessiner, FinirSession, Suivre
  <2>5. CASE FinEntree \/ FermerEntree \/ Presenter \/ Partir \/ SeTaire
    BY <1>p, <2>5 DEF FinEntree, FermerEntree, Presenter, Partir, SeTaire
  <2>6. CASE AutreLit \/ \E k \in Cles : AutreMemorise(k)
    BY <1>p, <2>6 DEF AutreLit, AutreMemorise
  <2>7. QED BY <2>1, <2>2, <2>3, <2>4, <2>5, <2>6 DEF Next, Avancer
<1>2. Drapeaux'
  <2> USE DEF Drapeaux
  <2>1. CASE UNCHANGED vars
    BY <1>p, <2>1 DEF vars
  <2>2. CASE LireArguments \/ Sonder \/ CommencerTour \/ ConnecterTcp \/ Negocier \/ MonterTls
    BY ZenonT(60), <1>p, <2>2 DEF LireArguments, Sonder, CommencerTour, ConnecterTcp, Negocier, MonterTls, Offre
  <2>3. CASE Epingler \/ Memoriser \/ AuthentifierRdstls \/ Authentifier \/ Finaliser \/ DelaiConnexion
    BY ZenonT(60), <1>p, <2>3 DEF Epingler, Memoriser, AuthentifierRdstls, Authentifier, Finaliser, DelaiConnexion
  <2>4. CASE EtablirPoste \/ AttendreClient \/ Dessiner \/ FinirSession \/ Suivre
    BY ZenonT(60), <1>p, <2>4 DEF EtablirPoste, AttendreClient, Dessiner, FinirSession, Suivre, EgfxMemoriser
  <2>5. CASE FinEntree \/ FermerEntree \/ Presenter \/ Partir \/ SeTaire
    BY ZenonT(60), <1>p, <2>5 DEF FinEntree, FermerEntree, Presenter, Partir, SeTaire
  <2>6. CASE AutreLit \/ \E k \in Cles : AutreMemorise(k)
    <3>1. memoire' \in {memoire, TRUE}
      BY <2>6 DEF AutreLit, AutreMemorise
    <3>2. UNCHANGED <<redirige, dessine, hybride, muet, entree, sansNla, refus, rejoue>>
      BY <2>6 DEF AutreLit, AutreMemorise
    <3>3. QED BY <1>p, <3>1, <3>2
  <2>7. QED BY <2>1, <2>2, <2>3, <2>4, <2>5, <2>6 DEF Next, Avancer
<1>3. Valeurs'
  <2> USE DEF Valeurs
  <2>1. CASE UNCHANGED vars
    BY <1>p, <2>1 DEF vars
  <2>2. CASE LireArguments \/ Sonder \/ ConnecterTcp \/ Negocier \/ MonterTls
    BY <1>p, <2>2 DEF LireArguments, Sonder, PolitiquePour, ConnecterTcp, Negocier, MonterTls
  <2>3. CASE CommencerTour
    BY <1>p, <2>3 DEF CommencerTour, ConnexionAssumption
  <2>4. CASE Epingler
    BY <1>p, <2>4, Cherche DEF Epingler
  <2>5. CASE Memoriser \/ Finaliser \/ DelaiConnexion
    BY <1>p, <2>5 DEF Memoriser, Finaliser, DelaiConnexion
  <2>6. CASE AuthentifierRdstls \/ Authentifier
    BY <1>p, <2>6 DEF AuthentifierRdstls, Authentifier, Epinglee
  <2>7. CASE EtablirPoste \/ AttendreClient \/ Dessiner \/ FinirSession \/ Suivre
    BY <1>p, <2>7 DEF EtablirPoste, AttendreClient, Dessiner, FinirSession, Suivre
  <2>8. CASE FinEntree \/ FermerEntree \/ Presenter \/ Partir \/ SeTaire \/ AutreLit \/ \E k \in Cles : AutreMemorise(k)
    BY <1>p, <2>8 DEF FinEntree, FermerEntree, Presenter, Partir, SeTaire, AutreLit, AutreMemorise
  <2>9. QED BY <2>1, <2>2, <2>3, <2>4, <2>5, <2>6, <2>7, <2>8 DEF Next, Avancer
<1>4. epingles' \in Seq(Cles)
  <2>1. ASSUME NEW c \in Cles, epingles' = Append(epingles, c) PROVE epingles' \in Seq(Cles)
    BY <2>1, Ajout
  <2>2. CASE epingles' = epingles
    BY <1>p, <2>2
  <2>3. epingles' = epingles \/ \E c \in Cles : epingles' = Append(epingles, c)
    <3>1. CASE Memoriser
      BY <3>1 DEF Memoriser, Epinglee
    <3>2. CASE \E k \in Cles : AutreMemorise(k)
      BY <3>2 DEF AutreMemorise
    <3>3. CASE UNCHANGED vars \/ LireArguments \/ Sonder \/ CommencerTour \/ ConnecterTcp \/ Negocier \/ MonterTls
      BY <3>3 DEF vars, LireArguments, Sonder, CommencerTour, ConnecterTcp, Negocier, MonterTls
    <3>4. CASE Epingler \/ AuthentifierRdstls \/ Authentifier \/ Finaliser \/ DelaiConnexion \/ EtablirPoste \/ AttendreClient
      BY <3>4 DEF Epingler, AuthentifierRdstls, Authentifier, Finaliser, DelaiConnexion, EtablirPoste, AttendreClient
    <3>5. CASE Dessiner \/ FinirSession \/ Suivre \/ FinEntree \/ FermerEntree \/ Presenter \/ Partir \/ SeTaire \/ AutreLit
      BY <3>5 DEF Dessiner, FinirSession, Suivre, FinEntree, FermerEntree, Presenter, Partir, SeTaire, AutreLit
    <3>6. QED BY <3>1, <3>2, <3>3, <3>4, <3>5 DEF Next, Avancer
  <2>4. QED BY <2>1, <2>2, <2>3
<1>5. (Cases /\ Drapeaux /\ Valeurs /\ epingles \in Seq(Cles))' => TypeOK'
  BY DEF TypeOK, Cases, Drapeaux, Valeurs
<1>6. QED BY <1>1, <1>2, <1>3, <1>4, <1>5

LEMMA GuichetPas == TypeOK /\ Guichet /\ DirectVrai /\ [Next]_vars => Guichet' /\ DirectVrai'
<1> SUFFICES ASSUME TypeOK, Guichet, DirectVrai, [Next]_vars PROVE Guichet' /\ DirectVrai'
  OBVIOUS
<1> USE DEF Guichet, DirectVrai, Avant, Connexion, Vers, Rendre, Etape, duTour, local, reglages,
            fichiers, histoire
<1>1. CASE UNCHANGED vars
  BY <1>1 DEF vars
<1>2. CASE LireArguments \/ Sonder
  BY <1>2 DEF LireArguments, Sonder
<1>3. CASE CommencerTour
  BY <1>3 DEF CommencerTour, TypeOK
<1>4. CASE ConnecterTcp \/ Negocier \/ MonterTls
  BY <1>4 DEF ConnecterTcp, Negocier, MonterTls
<1>5. CASE Epingler
  BY <1>5 DEF Epingler
<1>6. CASE Memoriser
  BY <1>6 DEF Memoriser
<1>7. CASE AuthentifierRdstls \/ Authentifier \/ Finaliser
  BY <1>7 DEF AuthentifierRdstls, Authentifier, Finaliser
<1>8. CASE DelaiConnexion
  BY <1>8 DEF DelaiConnexion, SousDelai
<1>9. CASE EtablirPoste \/ AttendreClient
  BY <1>9 DEF EtablirPoste, AttendreClient
<1>10. CASE Dessiner \/ FinirSession
  BY <1>10 DEF Dessiner, FinirSession
<1>11. CASE Suivre
  BY <1>11 DEF Suivre, FautIlReprendre, EgfxMemoriser
<1>12. CASE FinEntree \/ FermerEntree \/ Presenter \/ Partir \/ SeTaire \/ AutreLit
  BY <1>12 DEF FinEntree, FermerEntree, Presenter, Partir, SeTaire, AutreLit
<1>13. CASE \E k \in Cles : AutreMemorise(k)
  BY <1>13 DEF AutreMemorise
<1>14. QED
  BY <1>1, <1>2, <1>3, <1>4, <1>5, <1>6, <1>7, <1>8, <1>9, <1>10, <1>11, <1>12, <1>13 DEF Next, Avancer

LEMMA EpingleePas == ConnexionAssumption /\ TypeOK /\ Epinglee /\ [Next]_vars => Epinglee'
<1> SUFFICES ASSUME ConnexionAssumption, TypeOK, Epinglee, [Next]_vars PROVE Epinglee'
  OBVIOUS
<1>a. epingles' = epingles => \A k : Ecrite(k) <=> Ecrite(k)'
  BY DEF Ecrite
<1> USE DEF Vers, Rendre, Etape, duTour, local, reglages, fichiers, histoire
<1>1. CASE UNCHANGED vars
  BY <1>a, <1>1 DEF vars, Epinglee
<1>2. CASE LireArguments \/ Sonder \/ CommencerTour
  BY <1>a, <1>2 DEF LireArguments, Sonder, CommencerTour, Epinglee
<1>3. CASE ConnecterTcp \/ Negocier \/ MonterTls
  BY <1>a, <1>3 DEF ConnecterTcp, Negocier, MonterTls, Epinglee
<1>4. CASE Epingler
  <2>1. epingles' = epingles /\ cle' = cle /\ livrees' = livrees /\ lu' = ChercherEmpreinte
        /\ etape = "epingle"
    BY <1>4 DEF Epingler
  <2>2. CASE Juger(lu', cle) = "PremierContact" /\ etape' = "memorise"
    BY <1>a, <2>1, <2>2 DEF Epinglee, Juger
  <2>3. CASE Juger(lu', cle) = "Connu" /\ etape' = "authentifie"
    BY <1>a, <2>1, <2>3, Cherche DEF Epinglee, Juger
  <2>4. CASE etape' = "suite"
    BY <1>a, <2>1, <2>4 DEF Epinglee
  <2>5. QED BY <1>4, <2>2, <2>3, <2>4 DEF Epingler
<1>5. CASE Memoriser
  <2>1. cle' = cle /\ lu' = lu /\ livrees' = livrees /\ etape = "memorise" /\ cle \in Cles /\ lu = Aucune
    BY <1>5 DEF Memoriser, Epinglee
  <2>2. CASE etape' = "authentifie" /\ epingles' = Append(epingles, cle)
    BY <2>1, <2>2, Ajout DEF Epinglee
  <2>3. CASE etape' = "suite" /\ epingles' = epingles
    BY <1>a, <2>1, <2>3 DEF Epinglee
  <2>4. QED BY <1>5, <2>2, <2>3 DEF Memoriser
<1>6. CASE AuthentifierRdstls \/ Authentifier \/ Finaliser \/ DelaiConnexion
  BY <1>a, <1>6 DEF AuthentifierRdstls, Authentifier, Finaliser, DelaiConnexion, SousDelai, Connexion, Epinglee
<1>7. CASE EtablirPoste \/ AttendreClient \/ Dessiner \/ FinirSession \/ Suivre
  BY <1>a, <1>7 DEF EtablirPoste, AttendreClient, Dessiner, FinirSession, Suivre, Epinglee
<1>8. CASE FinEntree \/ FermerEntree \/ Presenter \/ Partir \/ SeTaire \/ AutreLit
  BY <1>a, <1>8 DEF FinEntree, FermerEntree, Presenter, Partir, SeTaire, AutreLit, Epinglee
<1>9. ASSUME NEW k \in Cles, AutreMemorise(k) PROVE Epinglee'
  BY <1>9, Ajout DEF AutreMemorise, Epinglee
<1>10. QED
  BY <1>1, <1>2, <1>3, <1>4, <1>5, <1>6, <1>7, <1>8, <1>9 DEF Next, Avancer

LEMMA Inductif == ASSUME ConnexionAssumption PROVE Spec => []IInv
<1>1. Init => IInv
  <2> SUFFICES ASSUME Init PROVE IInv
    OBVIOUS
  <2>1. TypeOK
    <3>1. Cases
      BY DEF Init, Cases, Etapes, Avant, Issues
    <3>2. Drapeaux
      BY DEF Init, Drapeaux
    <3>3. Valeurs
      BY DEF ConnexionAssumption, Init, Valeurs
    <3>4. epingles \in Seq(Cles)
      BY DEF Init
    <3>5. QED BY <3>1, <3>2, <3>3, <3>4, Parts
  <2>2. Guichet /\ DirectVrai /\ Epinglee
    BY DEF Init, Guichet, DirectVrai, Epinglee, Avant
  <2>3. QED BY <2>1, <2>2 DEF IInv
<1>2. IInv /\ [Next]_vars => IInv'
  BY TypesPas, GuichetPas, EpingleePas DEF IInv
<1>3. QED BY <1>1, <1>2, PTL DEF Spec

-----------------------------------------------------------------------------
\* Every state of the process is of the types it declares (main.rs, connexion.rs,
\* empreintes.rs, acces_local.rs of the sidecar).
THEOREM TypesDeLaConnexion == ASSUME ConnexionAssumption PROVE Spec => []TypeOK
BY Inductif, PTL DEF IInv

\* A password goes only to a key written in rdp_known_hosts, and a process that found
\* a key there goes to that one alone, whatever other processes append meanwhile
\* (epingler_certificat, verifier_empreinte).
THEOREM IdentifiantsToujoursTenus == ASSUME ConnexionAssumption PROVE Spec => []IdentifiantsTenus
<1>1. IInv => IdentifiantsTenus
  BY DEF IInv, Epinglee, IdentifiantsTenus, Ecrite
<1>2. QED BY <1>1, Inductif, PTL

\* The tab is not « direct » while the process connects again (executer).
THEOREM DirectToujoursVrai == ASSUME ConnexionAssumption PROVE Spec => []DirectVrai
BY Inductif, PTL DEF IInv

-----------------------------------------------------------------------------
(* The process is the one that its parent counts on.                       *)

\* What the parent sees, by the place of the process.
LEMMA VieVaut ==
  /\ etape = "fini" => Vie = "fini"
  /\ etape = "arguments" => Vie = "lit"
  /\ etape \notin {"fini", "arguments"} =>
       /\ poste = "present" => Vie = "sert"
       /\ poste = "annonce" => Vie = "attend"
       /\ poste \notin {"present", "annonce"} => Vie = "connecte"
BY DEF Vie

LEMMA VieVaudra ==
  /\ etape' = "fini" => Vie' = "fini"
  /\ etape' = "arguments" => Vie' = "lit"
  /\ etape' \notin {"fini", "arguments"} =>
       /\ poste' = "present" => Vie' = "sert"
       /\ poste' = "annonce" => Vie' = "attend"
       /\ poste' \notin {"present", "annonce"} => Vie' = "connecte"
BY DEF Vie

\* Between two stages, the parent sees nothing move.
LEMMA VieTenue ==
  ASSUME TypeOK, UNCHANGED <<poste, entree, client>>,
         etape = etape' \/ {etape, etape'} \cap {"fini", "arguments"} = {}
  PROVE  UNCHANGED Abstrait!vars
<1>1. Vie' = Vie
  <2>1. CASE etape = etape'
    BY <2>1 DEF Vie
  <2>2. CASE {etape, etape'} \cap {"fini", "arguments"} = {}
    <3>1. etape \notin {"fini", "arguments"} /\ etape' \notin {"fini", "arguments"}
      BY <2>2
    <3>2. QED BY <3>1 DEF Vie
  <2>3. QED BY <2>1, <2>2
<1>2. QED BY <1>1 DEF Abstrait!vars

\* The end, from wherever it stands.
LEMMA VieFinie ==
  ASSUME TypeOK, UNCHANGED <<poste, entree, client>>, etape # "fini", etape' = "fini"
  PROVE  Abstrait!Finir
<1>1. Vie # "fini" /\ Vie' = "fini"
  BY VieVaut, VieVaudra DEF TypeOK
<1>2. QED BY <1>1 DEF Abstrait!Finir, Abstrait!Passer

LEMMA PasAbstrait == IInv /\ [Next]_vars => [Abstrait!Next]_(Abstrait!vars)
<1> SUFFICES ASSUME TypeOK, Guichet, [Next]_vars PROVE Abstrait!Next \/ UNCHANGED Abstrait!vars
  BY DEF IInv
<1> USE DEF Vers, Rendre, Etape, duTour, local, reglages, fichiers, histoire
<1>0. ASSUME UNCHANGED <<poste, entree, client>>, etape # "fini", etape' = "fini"
      PROVE  Abstrait!Next
  BY <1>0, VieFinie DEF Abstrait!Next
<1>1. CASE UNCHANGED vars
  BY <1>1, VieTenue DEF vars
<1>2. CASE LireArguments
  <2>1. CASE etape' = "sonde"
    <3>1. Vie = "lit" /\ Vie' = "connecte" /\ UNCHANGED <<entree, client>>
      BY <1>2, <2>1, VieVaut, VieVaudra DEF LireArguments, Guichet, Avant
    <3>2. QED BY <3>1 DEF Abstrait!Next, Abstrait!Lire, Abstrait!Passer
  <2>2. QED BY <1>0, <1>2, <2>1 DEF LireArguments
<1>3. CASE Sonder
  BY <1>3, VieTenue DEF Sonder
<1>4. CASE CommencerTour
  BY <1>0, <1>4, VieTenue DEF CommencerTour
<1>5. CASE ConnecterTcp \/ Negocier \/ MonterTls
  BY <1>5, VieTenue DEF ConnecterTcp, Negocier, MonterTls
<1>6. CASE Epingler \/ Memoriser
  BY <1>6, VieTenue DEF Epingler, Memoriser
<1>7. CASE AuthentifierRdstls \/ Authentifier \/ Finaliser \/ DelaiConnexion
  BY <1>7, VieTenue DEF AuthentifierRdstls, Authentifier, Finaliser, DelaiConnexion, SousDelai, Connexion
<1>8. CASE EtablirPoste
  <2>1. CASE poste = "aucun" /\ etape' = "attend" /\ poste' = "annonce"
    <3>1. Vie = "connecte" /\ Vie' = "attend" /\ UNCHANGED <<entree, client>>
      BY <1>8, <2>1, VieVaut, VieVaudra DEF EtablirPoste
    <3>2. QED BY <3>1 DEF Abstrait!Next, Abstrait!Annoncer, Abstrait!Passer
  <2>2. QED BY <1>8, <2>1, VieTenue DEF EtablirPoste
<1>9. CASE AttendreClient
  <2>1. CASE client # "absent" /\ etape' = "session" /\ poste' = "present"
    <3>1. Vie = "attend" /\ Vie' = "sert" /\ UNCHANGED <<entree, client>>
      BY <1>9, <2>1, VieVaut, VieVaudra DEF AttendreClient, Guichet
    <3>2. QED BY <2>1, <3>1 DEF Abstrait!Next, Abstrait!Servir, Abstrait!Passer
  <2>2. QED BY <1>9, <2>1, VieTenue DEF AttendreClient
<1>10. CASE Dessiner \/ FinirSession \/ SeTaire
  BY <1>10, VieTenue DEF Dessiner, FinirSession, SeTaire
<1>11. CASE Suivre
  BY <1>0, <1>11, VieTenue DEF Suivre
<1>12. CASE FinEntree
  BY <1>0, <1>12 DEF FinEntree, Avant
<1>13. CASE FermerEntree
  <2>1. Vie' = Vie
    BY <1>13, VieVaut, VieVaudra DEF FermerEntree, TypeOK
  <2>2. QED BY <1>13, <2>1 DEF FermerEntree, Abstrait!Next, Abstrait!FermerEntree
<1>14. CASE Presenter
  <2>1. Vie = "attend" /\ Vie' = "attend"
    BY <1>14, VieVaut, VieVaudra DEF Presenter, Guichet
  <2>2. QED BY <1>14, <2>1 DEF Presenter, Abstrait!Next, Abstrait!Presenter
<1>15. CASE Partir
  <2>1. Vie' = Vie
    BY <1>15, VieVaut, VieVaudra DEF Partir, TypeOK
  <2>2. QED BY <1>15, <2>1 DEF Partir, Abstrait!Next, Abstrait!Partir
<1>16. CASE AutreLit \/ \E k \in Cles : AutreMemorise(k)
  BY <1>16, VieTenue DEF AutreLit, AutreMemorise
<1>17. QED
  BY <1>1, <1>2, <1>3, <1>4, <1>5, <1>6, <1>7, <1>8, <1>9, <1>10, <1>11, <1>12, <1>13, <1>14,
     <1>15, <1>16 DEF Next, Avancer

\* Through its redirections and reconnections the process announces its port once,
\* once connected, serves one client, and ends once: all that ProcessusBureau says but
\* its promise of progress (main.rs, acces_local.rs).
THEOREM ImplementeSurete == ASSUME ConnexionAssumption PROVE Spec => Abstrait!Surete
<1>1. Init => Abstrait!Init
  BY DEF Init, Vie, Abstrait!Init
<1>2. IInv /\ [Next]_vars => [Abstrait!Next]_(Abstrait!vars)
  BY PasAbstrait
<1>3. QED BY <1>1, <1>2, Inductif, PTL DEF Spec, Abstrait!Surete

-----------------------------------------------------------------------------
(* Cadence. *)

\* A frame that brings the zone z.
Porte(m, z) == m.type = "image" /\ z \in DOMAIN m.zones

\* Once everything on its way is painted, the canvas shows the zone as the image has it.
Suit(f, c, im, z) ==
  \/ (\A j \in 1 .. Len(f) : ~Porte(f[j], z)) /\ c[z] = im[z]
  \/ \E i \in 1 .. Len(f) : /\ Porte(f[i], z) /\ f[i].zones[z] = im[z]
                            /\ \A j \in i + 1 .. Len(f) : ~Porte(f[j], z)

ZonesSuivies ==
  affiche /\ ~deplace => \A z \in Zones :
    z \in dirty \/ z \in du \/ EnFile("refresh") \/ Suit(vers_page, canvas, image, z)

\* What the tab said last of its display is what it is.
Dits == {"pause", "reprise", "refresh"}
DitVrai(f, pause, vu) ==
  /\ (\A i \in 1 .. Len(f) : f[i] \notin Dits) => (pause <=> ~vu)
  /\ \A i \in 1 .. Len(f) :
       f[i] \in Dits /\ (\A j \in i + 1 .. Len(f) : f[j] \notin Dits) => (f[i] = "pause" <=> ~vu)

IInvCadence == TypesCadence /\ ZonesSuivies /\ DitVrai(vers_processus, en_pause, affiche)

-----------------------------------------------------------------------------
\* The ends of a queue.
LEMMA QueueAjout ==
  ASSUME NEW S, NEW f \in Seq(S), NEW m \in S, NEW g, g = Append(f, m)
  PROVE  /\ g \in Seq(S) /\ Len(g) = Len(f) + 1 /\ Len(f) \in Nat
         /\ \A i \in 1 .. Len(f) : g[i] = f[i]
         /\ g[Len(f) + 1] = m
OBVIOUS

LEMMA QueueTete ==
  ASSUME NEW S, NEW f \in Seq(S), f # <<>>, NEW g, g = Tail(f)
  PROVE  /\ g \in Seq(S) /\ Len(g) = Len(f) - 1 /\ Len(f) \in Nat \ {0}
         /\ \A i \in 1 .. Len(f) - 1 : g[i] = f[i + 1]
         /\ Head(f) = f[1] /\ f[1] \in S
OBVIOUS

LEMMA SuitAjout ==
  ASSUME NEW f \in Seq(Trame), NEW c, NEW im, NEW z, NEW m \in Trame,
         Suit(f, c, im, z), ~Porte(m, z)
  PROVE  Suit(Append(f, m), c, im, z)
<1>1. PICK g : g = Append(f, m)
  OBVIOUS
<1>2. /\ Len(g) = Len(f) + 1 /\ Len(f) \in Nat
      /\ \A i \in 1 .. Len(f) : g[i] = f[i]
      /\ g[Len(f) + 1] = m
  BY <1>1, QueueAjout
<1>3. CASE (\A j \in 1 .. Len(f) : ~Porte(f[j], z)) /\ c[z] = im[z]
  <2>1. \A j \in 1 .. Len(g) : ~Porte(g[j], z)
    BY <1>2, <1>3
  <2>2. QED BY <1>1, <1>3, <2>1 DEF Suit
<1>4. ASSUME NEW i \in 1 .. Len(f), Porte(f[i], z), f[i].zones[z] = im[z],
             \A j \in i + 1 .. Len(f) : ~Porte(f[j], z)
      PROVE  Suit(g, c, im, z)
  <2>1. i \in 1 .. Len(g) /\ Porte(g[i], z) /\ g[i].zones[z] = im[z]
    BY <1>2, <1>4
  <2>2. \A j \in i + 1 .. Len(g) : ~Porte(g[j], z)
    BY <1>2, <1>4
  <2>3. QED BY <2>1, <2>2 DEF Suit
<1>5. QED BY <1>1, <1>3, <1>4 DEF Suit

LEMMA SuitEnvoi ==
  ASSUME NEW f \in Seq(Trame), NEW c, NEW im, NEW z, NEW m \in Trame,
         Porte(m, z), m.zones[z] = im[z]
  PROVE  Suit(Append(f, m), c, im, z)
<1>1. PICK g : g = Append(f, m)
  OBVIOUS
<1>2. Len(g) = Len(f) + 1 /\ Len(f) \in Nat /\ g[Len(f) + 1] = m
  BY <1>1, QueueAjout
<1>3. Len(g) \in 1 .. Len(g) /\ g[Len(g)] = m /\ \A j \in Len(g) + 1 .. Len(g) : FALSE
  BY <1>2
<1>4. QED BY <1>1, <1>3 DEF Suit

LEMMA SuitLu ==
  ASSUME NEW f \in Seq(Trame), f # <<>>, NEW c, NEW d, NEW im, NEW z,
         Suit(f, c, im, z), d[z] = IF Porte(Head(f), z) THEN Head(f).zones[z] ELSE c[z]
  PROVE  Suit(Tail(f), d, im, z)
<1>1. PICK g : g = Tail(f)
  OBVIOUS
<1>2. /\ Len(g) = Len(f) - 1 /\ Len(f) \in Nat \ {0}
      /\ \A i \in 1 .. Len(f) - 1 : g[i] = f[i + 1]
      /\ Head(f) = f[1]
  BY <1>1, QueueTete
<1>3. CASE (\A j \in 1 .. Len(f) : ~Porte(f[j], z)) /\ c[z] = im[z]
  <2>1. (\A j \in 1 .. Len(g) : ~Porte(g[j], z)) /\ ~Porte(Head(f), z)
    BY <1>2, <1>3
  <2>2. QED BY <1>1, <1>3, <2>1 DEF Suit
<1>4. ASSUME NEW i \in 1 .. Len(f), Porte(f[i], z), f[i].zones[z] = im[z],
             \A j \in i + 1 .. Len(f) : ~Porte(f[j], z)
      PROVE  Suit(g, d, im, z)
  <2>1. CASE i = 1
    <3>1. (\A j \in 1 .. Len(g) : ~Porte(g[j], z)) /\ d[z] = im[z]
      BY <1>2, <1>4, <2>1
    <3>2. QED BY <3>1 DEF Suit
  <2>2. CASE i > 1
    <3>1. PICK k \in Nat : i = k + 1
      BY <1>4, <2>2
    <3>2. k \in 1 .. Len(g) /\ \A j \in k .. Len(g) : j \in 1 .. Len(f) - 1 /\ g[j] = f[j + 1]
      BY <1>2, <1>4, <2>2, <3>1
    <3>3. Porte(g[k], z) /\ g[k].zones[z] = im[z]
      BY <1>2, <1>4, <3>1, <3>2
    <3>4. ASSUME NEW j \in k + 1 .. Len(g) PROVE ~Porte(g[j], z)
      <4>1. j + 1 \in i + 1 .. Len(f) /\ g[j] = f[j + 1]
        BY <1>2, <1>4, <3>1, <3>2
      <4>2. QED BY <1>4, <4>1
    <3>5. QED BY <3>2, <3>3, <3>4 DEF Suit
  <2>3. QED BY <2>1, <2>2
<1>5. QED BY <1>1, <1>3, <1>4 DEF Suit

\* What Arrivera chooses is the last frame that brings the zone.
LEMMA SuitArrive ==
  ASSUME TypesCadence, NEW z \in Zones, Suit(vers_page, canvas, image, z)
  PROVE  Arrivera(z) = image[z]
<1>1. \A i : i \in Trames(z) <=> i \in 1 .. Len(vers_page) /\ Porte(vers_page[i], z)
  BY DEF Trames, Images, Porte
<1>2. CASE \A j \in 1 .. Len(vers_page) : ~Porte(vers_page[j], z)
  <2>1. Trames(z) = {} /\ canvas[z] = image[z]
    BY <1>1, <1>2 DEF Suit
  <2>2. QED BY <2>1 DEF Arrivera
<1>3. ASSUME NEW i \in 1 .. Len(vers_page), Porte(vers_page[i], z), vers_page[i].zones[z] = image[z],
             \A j \in i + 1 .. Len(vers_page) : ~Porte(vers_page[j], z)
      PROVE  Arrivera(z) = image[z]
  <2>0. Len(vers_page) \in Nat
    BY DEF TypesCadence
  <2>1. i \in Trames(z) /\ \A j \in Trames(z) : j <= i /\ j \in Nat
    BY <1>1, <1>3, <2>0
  <2>2. \A k \in Trames(z) : (\A j \in Trames(z) : j <= k) => k = i
    BY <2>1
  <2>3. (CHOOSE k \in Trames(z) : \A j \in Trames(z) : j <= k) = i
    BY <2>1, <2>2
  <2>4. QED BY <1>3, <2>1, <2>3 DEF Arrivera
<1>4. QED BY <1>2, <1>3 DEF Suit

LEMMA ImageTrame ==
  ASSUME NEW S \in SUBSET Zones, NEW im \in [Zones -> Contenus]
  PROVE  /\ Image([z \in S |-> im[z]]) \in Trame /\ Image([z \in S |-> im[z]]).type = "image"
         /\ \A z : Porte(Image([y \in S |-> im[y]]), z) <=> z \in S
         /\ \A z \in S : Image([y \in S |-> im[y]]).zones[z] = im[z]
<1>1. [z \in S |-> im[z]] \in [S -> Contenus]
  OBVIOUS
<1>2. [z \in S |-> im[z]] \in UNION {[R -> Contenus] : R \in SUBSET Zones}
  BY <1>1
<1>3. QED BY <1>2 DEF Image, Trame, Porte

\* flush_dirty! keeps what the tab is owed, and sends nothing during the pause.
LEMMA EmettreTient ==
  ASSUME TypesCadence, NEW im \in [Zones -> Contenus], NEW sale \in SUBSET Zones,
         NEW attente \in BOOLEAN, NEW pause \in BOOLEAN,
         Emettre(im, sale, attente, pause, vers_page)
  PROVE  /\ dirty' \in SUBSET Zones /\ awaiting_ack' \in BOOLEAN /\ vers_page' \in Seq(Trame)
         /\ \A z \in Zones : \A c : z \in sale \/ Suit(vers_page, c, im, z)
                                  => z \in dirty' \/ Suit(vers_page', c, im, z)
         /\ pause => vers_page' = vers_page
<1>0. vers_page \in Seq(Trame)
  BY DEF TypesCadence
<1>1. CASE ~attente /\ ~pause /\ sale # {}
  <2>1. PICK m : m = Image([z \in sale |-> im[z]])
    OBVIOUS
  <2>2. m \in Trame /\ (\A z : Porte(m, z) <=> z \in sale) /\ \A z \in sale : m.zones[z] = im[z]
    BY <2>1, ImageTrame
  <2>3. vers_page' = Append(vers_page, m) /\ dirty' = {} /\ awaiting_ack' = TRUE
    BY <1>1, <2>1 DEF Emettre
  <2>4. vers_page' \in Seq(Trame)
    BY <1>0, <2>2, <2>3
  <2>5. ASSUME NEW z \in Zones, NEW c, z \in sale \/ Suit(vers_page, c, im, z)
        PROVE  Suit(Append(vers_page, m), c, im, z)
    <3>1. CASE z \in sale
      BY <1>0, <2>2, <3>1, SuitEnvoi
    <3>2. CASE z \notin sale
      BY <1>0, <2>2, <2>5, <3>2, SuitAjout
    <3>3. QED BY <3>1, <3>2
  <2>6. QED BY <1>1, <2>3, <2>4, <2>5
<1>2. CASE ~(~attente /\ ~pause /\ sale # {})
  BY <1>0, <1>2 DEF Emettre
<1>3. QED BY <1>1, <1>2

-----------------------------------------------------------------------------
\* What the process reads and what the tab says.
LEMMA DitAjout ==
  ASSUME NEW f \in Seq(Messages), NEW m \in Messages, NEW pause \in BOOLEAN, NEW vu \in BOOLEAN,
         NEW avant \in BOOLEAN, DitVrai(f, pause, avant),
         IF m \in Dits THEN m = "pause" <=> ~vu ELSE vu = avant
  PROVE  Append(f, m) \in Seq(Messages) /\ DitVrai(Append(f, m), pause, vu)
<1>1. PICK g : g = Append(f, m)
  OBVIOUS
<1>2. /\ g \in Seq(Messages) /\ Len(g) = Len(f) + 1 /\ Len(f) \in Nat
      /\ \A i \in 1 .. Len(f) : g[i] = f[i]
      /\ g[Len(f) + 1] = m
  BY <1>1, QueueAjout
<1>3. CASE m \in Dits
  <2>1. Len(f) + 1 \in 1 .. Len(g) /\ g[Len(f) + 1] \in Dits
    BY <1>2, <1>3
  <2>2. \A i \in 1 .. Len(g) : (\A j \in i + 1 .. Len(g) : g[j] \notin Dits) => i = Len(g)
    BY <1>2, <2>1
  <2>3. QED BY <1>1, <1>2, <1>3, <2>1, <2>2 DEF DitVrai
<1>4. CASE m \notin Dits
  <2>1. \A i \in 1 .. Len(g) : g[i] \in Dits => i \in 1 .. Len(f) /\ f[i] = g[i]
    BY <1>2, <1>4
  <2>2. \A i \in 1 .. Len(f) : (\A j \in i + 1 .. Len(g) : g[j] \notin Dits)
                                 => \A j \in i + 1 .. Len(f) : f[j] \notin Dits
    BY <1>2
  <2>3. (\A i \in 1 .. Len(g) : g[i] \notin Dits) => \A i \in 1 .. Len(f) : f[i] \notin Dits
    BY <1>2
  <2>4. QED BY <1>1, <1>2, <1>4, <2>1, <2>2, <2>3 DEF DitVrai
<1>5. QED BY <1>3, <1>4

LEMMA DitLu ==
  ASSUME NEW f \in Seq(Messages), f # <<>>, NEW pause \in BOOLEAN, NEW vu \in BOOLEAN,
         NEW apres \in BOOLEAN, DitVrai(f, pause, vu),
         IF Head(f) \in Dits THEN apres <=> Head(f) = "pause" ELSE apres = pause
  PROVE  Tail(f) \in Seq(Messages) /\ DitVrai(Tail(f), apres, vu)
<1>1. PICK g : g = Tail(f)
  OBVIOUS
<1>2. /\ g \in Seq(Messages) /\ Len(g) = Len(f) - 1 /\ Len(f) \in Nat \ {0}
      /\ \A i \in 1 .. Len(f) - 1 : g[i] = f[i + 1]
      /\ Head(f) = f[1]
  BY <1>1, QueueTete
<1>3. \A i \in 1 .. Len(g) : i + 1 \in 1 .. Len(f) /\ f[i + 1] = g[i]
  BY <1>2
<1>h. \A j \in 2 .. Len(f) : j - 1 \in 1 .. Len(g) /\ g[j - 1] = f[j]
  BY <1>2
<1>4. \A i \in 1 .. Len(g) : (\A j \in i + 1 .. Len(g) : g[j] \notin Dits)
                               => \A j \in i + 1 + 1 .. Len(f) : f[j] \notin Dits
  <2> SUFFICES ASSUME NEW i \in 1 .. Len(g), \A j \in i + 1 .. Len(g) : g[j] \notin Dits,
                      NEW j \in i + 1 + 1 .. Len(f)
               PROVE  f[j] \notin Dits
    OBVIOUS
  <2>1. j \in 2 .. Len(f) /\ j - 1 \in i + 1 .. Len(g)
    BY <1>2
  <2>2. QED BY <1>h, <2>1
<1>5. (\A i \in 1 .. Len(g) : g[i] \notin Dits) => \A j \in 1 + 1 .. Len(f) : f[j] \notin Dits
  BY <1>h
<1>6. (\A i \in 1 .. Len(g) : g[i] \notin Dits) /\ f[1] \notin Dits => \A j \in 1 .. Len(f) : f[j] \notin Dits
  <2>1. \A j \in 1 .. Len(f) : j = 1 \/ j \in 2 .. Len(f)
    BY <1>2
  <2>2. QED BY <1>h, <2>1
<1>7. 1 \in 1 .. Len(f)
  BY <1>2
<1>8. \A i \in 1 .. Len(g) :
        g[i] \in Dits /\ (\A j \in i + 1 .. Len(g) : g[j] \notin Dits) => (g[i] = "pause" <=> ~vu)
  BY <1>3, <1>4 DEF DitVrai
<1>9. (\A i \in 1 .. Len(g) : g[i] \notin Dits) => (apres <=> ~vu)
  BY <1>2, <1>5, <1>6, <1>7 DEF DitVrai
<1>10. QED BY <1>1, <1>2, <1>8, <1>9 DEF DitVrai

LEMMA RefreshLu ==
  ASSUME NEW f \in Seq(Messages), f # <<>>, Head(f) # "refresh",
         NEW i \in 1 .. Len(f), f[i] = "refresh"
  PROVE  \E j \in 1 .. Len(Tail(f)) : Tail(f)[j] = "refresh"
<1>1. PICK g : g = Tail(f)
  OBVIOUS
<1>2. /\ Len(g) = Len(f) - 1 /\ Len(f) \in Nat \ {0} /\ Head(f) = f[1]
      /\ \A j \in 1 .. Len(f) - 1 : g[j] = f[j + 1]
  BY <1>1, QueueTete
<1>3. i - 1 \in 1 .. Len(g) /\ g[i - 1] = "refresh"
  BY <1>2
<1>4. QED BY <1>1, <1>3

LEMMA RefreshAjout ==
  ASSUME NEW f \in Seq(Messages), NEW m \in Messages,
         m = "refresh" \/ \E i \in 1 .. Len(f) : f[i] = "refresh"
  PROVE  \E j \in 1 .. Len(Append(f, m)) : Append(f, m)[j] = "refresh"
<1>1. PICK g : g = Append(f, m)
  OBVIOUS
<1>2. /\ Len(g) = Len(f) + 1 /\ Len(f) \in Nat
      /\ \A i \in 1 .. Len(f) : g[i] = f[i]
      /\ g[Len(f) + 1] = m
  BY <1>1, QueueAjout
<1>3. \E j \in 1 .. Len(g) : g[j] = "refresh"
  BY <1>2
<1>4. QED BY <1>1, <1>3

-----------------------------------------------------------------------------
LEMMA InitTient == InitCadence => IInvCadence
<1> SUFFICES ASSUME InitCadence PROVE IInvCadence
  OBVIOUS
<1>1. TypesCadence
  <2>1. 0 \in Contenus /\ 0 \in 0 .. MaxTailles /\ 0 \in 0 .. MaxBascules
    BY CadenceAssumption DEF Contenus
  <2>2. <<>> \in Seq(Trame) /\ <<>> \in Seq(Messages)
    OBVIOUS
  <2>3. QED BY <2>1, <2>2 DEF InitCadence, TypesCadence
<1>2. ZonesSuivies
  BY DEF InitCadence, ZonesSuivies
<1>3. DitVrai(vers_processus, en_pause, affiche)
  BY DEF InitCadence, DitVrai
<1>4. QED BY <1>1, <1>2, <1>3 DEF IInvCadence

LEMMA ServeurTient ==
  ASSUME IInvCadence, (\E z \in Zones : DessinerZone(z)) \/ ChangerTaille
  PROVE  IInvCadence'
<1> USE DEF serveurVars, pageVars, cadenceVars
<1>1. ASSUME NEW z \in Zones, DessinerZone(z) PROVE IInvCadence'
  <2>1. dessins + 1 \in Contenus /\ dessins \in Nat
    <3>1. IsFiniteSet(du \ {z})
      BY CadenceAssumption, FS_Subset DEF IInvCadence, TypesCadence
    <3>2. Cardinality(du \ {z}) \in Nat
      BY <3>1, FS_CardinalityType
    <3>3. QED BY <1>1, <3>2, CadenceAssumption DEF DessinerZone, IInvCadence, TypesCadence, Contenus
  <2>2. PICK im : im = [image EXCEPT ![z] = dessins + 1]
    OBVIOUS
  <2>3. im \in [Zones -> Contenus] /\ \A y \in Zones : y # z => im[y] = image[y]
    BY <2>1, <2>2 DEF IInvCadence, TypesCadence
  <2>4. image' = im /\ Emettre(im, dirty \cup {z}, awaiting_ack, en_pause, vers_page)
    BY <1>1, <2>2 DEF DessinerZone, Emettre
  <2>5. /\ dirty' \in SUBSET Zones /\ awaiting_ack' \in BOOLEAN /\ vers_page' \in Seq(Trame)
        /\ \A y \in Zones : \A c : y \in dirty \cup {z} \/ Suit(vers_page, c, im, y)
                                 => y \in dirty' \/ Suit(vers_page', c, im, y)
    BY <2>3, <2>4, EmettreTient DEF IInvCadence, TypesCadence
  <2>6. TypesCadence'
    BY <1>1, <2>1, <2>3, <2>4, <2>5 DEF DessinerZone, IInvCadence, TypesCadence
  <2>7. ZonesSuivies'
    <3> SUFFICES ASSUME affiche', ~deplace', NEW y \in Zones
                 PROVE  y \in dirty' \/ y \in du' \/ EnFile("refresh")' \/ Suit(vers_page, canvas, image, y)'
      BY DEF ZonesSuivies
    <3>1. UNCHANGED <<affiche, deplace, canvas, vers_processus>> /\ du' = du \ {z}
      BY <1>1 DEF DessinerZone
    <3>2. CASE y = z
      BY <2>4, <2>5, <3>1, <3>2
    <3>3. CASE y # z
      <4>1. y \in dirty \/ y \in du \/ EnFile("refresh") \/ Suit(vers_page, canvas, image, y)
        BY <3>1 DEF IInvCadence, ZonesSuivies
      <4>2. Suit(vers_page, canvas, image, y) => Suit(vers_page, canvas, im, y)
        BY <2>3, <3>3 DEF Suit
      <4>3. QED BY <2>4, <2>5, <3>1, <3>3, <4>1, <4>2 DEF EnFile
    <3>4. QED BY <3>2, <3>3
  <2>8. QED BY <1>1, <2>6, <2>7 DEF DessinerZone, IInvCadence
<1>2. CASE ChangerTaille
  <2>1. Taille \in Trame
    BY DEF Trame
  <2>2. TypesCadence'
    <3>1. Append(vers_page, Taille) \in Seq(Trame)
      BY <2>1 DEF IInvCadence, TypesCadence
    <3>2. tailles + 1 \in 0 .. MaxTailles
      BY <1>2, CadenceAssumption DEF ChangerTaille, IInvCadence, TypesCadence
    <3>3. QED BY <1>2, <3>1, <3>2 DEF ChangerTaille, IInvCadence, TypesCadence
  <2>3. QED BY <1>2, <2>2 DEF ChangerTaille, IInvCadence, ZonesSuivies
<1>3. QED BY <1>1, <1>2

\* A step that only sends what is dirty, whatever it reads that is not REFRESH.
LEMMA EnvoiTient ==
  ASSUME IInvCadence, NEW attente \in BOOLEAN,
         Emettre(image, dirty, attente, en_pause', vers_page), en_pause' \in BOOLEAN,
         UNCHANGED <<serveurVars, pageVars>>,
         \/ UNCHANGED <<vers_processus, en_pause>>
         \/ /\ vers_processus # <<>> /\ vers_processus' = Tail(vers_processus)
            /\ Head(vers_processus) # "refresh"
            /\ IF Head(vers_processus) \in Dits THEN en_pause' <=> Head(vers_processus) = "pause"
               ELSE en_pause' = en_pause
  PROVE  IInvCadence'
<1> USE DEF serveurVars, pageVars
<1>1. PICK p \in BOOLEAN : p = en_pause'
  OBVIOUS
<1>2. Emettre(image, dirty, attente, p, vers_page)
  BY <1>1
<1>3. /\ dirty' \in SUBSET Zones /\ awaiting_ack' \in BOOLEAN /\ vers_page' \in Seq(Trame)
      /\ \A y \in Zones : \A c : y \in dirty \/ Suit(vers_page, c, image, y)
                               => y \in dirty' \/ Suit(vers_page', c, image, y)
  BY <1>2, EmettreTient DEF IInvCadence, TypesCadence
<1>4. /\ vers_processus' \in Seq(Messages) /\ DitVrai(vers_processus', p, affiche)
      /\ EnFile("refresh") => EnFile("refresh")'
  <2>1. CASE UNCHANGED <<vers_processus, en_pause>>
    BY <1>1, <2>1 DEF IInvCadence, TypesCadence, EnFile
  <2>2. CASE ~UNCHANGED <<vers_processus, en_pause>>
    <3>1. Tail(vers_processus) \in Seq(Messages) /\ DitVrai(Tail(vers_processus), p, affiche)
      BY <1>1, <2>2, DitLu DEF IInvCadence, TypesCadence
    <3>2. EnFile("refresh") => EnFile("refresh")'
      BY <2>2, RefreshLu DEF IInvCadence, TypesCadence, EnFile
    <3>3. QED BY <2>2, <3>1, <3>2
  <2>3. QED BY <2>1, <2>2
<1>5. TypesCadence'
  BY <1>3, <1>4 DEF IInvCadence, TypesCadence
<1>6. ZonesSuivies'
  BY <1>3, <1>4 DEF IInvCadence, ZonesSuivies
<1>7. QED BY <1>1, <1>4, <1>5, <1>6 DEF IInvCadence

LEMMA BoucleTient ==
  ASSUME IInvCadence, LireMessage \/ \E passe \in BOOLEAN : Tic(passe)
  PROVE  IInvCadence'
<1>0. en_pause \in BOOLEAN /\ awaiting_ack \in BOOLEAN /\ vers_processus \in Seq(Messages)
  BY DEF IInvCadence, TypesCadence
<1>1. CASE LireAck
  BY <1>0, <1>1, EnvoiTient DEF LireAck, Lire, Dits
<1>2. CASE LirePause
  <2>1. Tail(vers_processus) \in Seq(Messages) /\ DitVrai(Tail(vers_processus), TRUE, affiche)
    BY <1>0, <1>2, DitLu DEF LirePause, Lire, Dits, IInvCadence, TypesCadence
  <2>2. EnFile("refresh") => EnFile("refresh")'
    BY <1>0, <1>2, RefreshLu DEF LirePause, Lire, EnFile
  <2>3. TypesCadence'
    BY <1>2, <2>1 DEF LirePause, Lire, IInvCadence, TypesCadence, serveurVars, cadenceVars, pageVars
  <2>4. ZonesSuivies'
    BY <1>2, <2>2 DEF LirePause, Lire, IInvCadence, ZonesSuivies, serveurVars, cadenceVars, pageVars
  <2>5. QED BY <1>2, <2>1, <2>3, <2>4 DEF LirePause, Lire, IInvCadence, pageVars
<1>3. CASE LireReprise
  <2>1. Emettre(image, dirty, awaiting_ack, en_pause', vers_page)
    BY <1>3 DEF LireReprise
  <2>2. QED BY <1>0, <1>3, <2>1, EnvoiTient DEF LireReprise, Lire, Dits
<1>4. CASE LireRefresh
  <2>1. Tail(vers_processus) \in Seq(Messages) /\ DitVrai(Tail(vers_processus), FALSE, affiche)
    BY <1>0, <1>4, DitLu DEF LireRefresh, Lire, Dits, IInvCadence, TypesCadence
  <2>2. PICK m : m = Image(image)
    OBVIOUS
  <2>3. m \in Trame /\ \A z \in Zones : Porte(m, z) /\ m.zones[z] = image[z]
    <3>1. image \in [Zones -> Contenus] /\ image = [z \in Zones |-> image[z]]
      BY DEF IInvCadence, TypesCadence
    <3>2. /\ Image([z \in Zones |-> image[z]]) \in Trame
          /\ \A z : Porte(Image([y \in Zones |-> image[y]]), z) <=> z \in Zones
          /\ \A z \in Zones : Image([y \in Zones |-> image[y]]).zones[z] = image[z]
      BY <3>1, ImageTrame
    <3>3. m = Image([z \in Zones |-> image[z]])
      BY <2>2, <3>1
    <3>4. QED BY <3>2, <3>3
  <2>4. vers_page \in Seq(Trame)
    BY DEF IInvCadence, TypesCadence
  <2>5. vers_page' = Append(vers_page, m)
    BY <1>4, <2>2 DEF LireRefresh
  <2>6. \A z \in Zones : Suit(Append(vers_page, m), canvas, image, z)
    BY <2>3, <2>4, SuitEnvoi
  <2>7. ZonesSuivies'
    BY <1>4, <2>5, <2>6 DEF LireRefresh, ZonesSuivies, serveurVars, pageVars
  <2>8. Append(vers_page, m) \in Seq(Trame)
    BY <2>3, <2>4
  <2>9. TypesCadence'
    BY <1>4, <2>1, <2>5, <2>8 DEF LireRefresh, Lire, IInvCadence, TypesCadence, serveurVars, pageVars
  <2>10. QED BY <1>4, <2>1, <2>7, <2>9 DEF LireRefresh, Lire, IInvCadence, pageVars
<1>5. ASSUME NEW passe \in BOOLEAN, Tic(passe) PROVE IInvCadence'
  <2>1. Emettre(image, dirty, awaiting_ack /\ ~passe, en_pause', vers_page)
    BY <1>5 DEF Tic
  <2>2. PICK a \in BOOLEAN : a = (awaiting_ack /\ ~passe)
    BY <1>0
  <2>3. Emettre(image, dirty, a, en_pause', vers_page)
    BY <2>1, <2>2
  <2>4. QED BY <1>0, <1>5, <2>3, EnvoiTient DEF Tic
<1>6. QED BY <1>1, <1>2, <1>3, <1>4, <1>5 DEF LireMessage

-----------------------------------------------------------------------------
\* The page reads: a size changes nothing, an image is painted and acknowledged.
LEMMA PageTient ==
  ASSUME IInvCadence, Page
  PROVE  IInvCadence'
<1> USE DEF serveurVars, pageVars
<1>0. /\ vers_page \in Seq(Trame) /\ vers_processus \in Seq(Messages) /\ vers_page # <<>>
      /\ Head(vers_page) \in Trame /\ Tail(vers_page) \in Seq(Trame)
  <2>1. vers_page \in Seq(Trame) /\ vers_processus \in Seq(Messages) /\ vers_page # <<>>
    BY DEF IInvCadence, TypesCadence, Page, Peindre, Retailler
  <2>2. QED BY <2>1
<1>1. PICK m : m = Head(vers_page)
  OBVIOUS
<1>2. CASE Peindre
  <2>1. m \in Trame /\ m.type = "image"
    BY <1>0, <1>1, <1>2 DEF Peindre
  <2>a. PICK c \in UNION {[S -> Contenus] : S \in SUBSET Zones} : m = Image(c)
    BY <2>1 DEF Trame, Taille
  <2>2. PICK S \in SUBSET Zones : c \in [S -> Contenus]
    BY <2>a
  <2>3. m.zones = c /\ (\A z : Porte(m, z) <=> z \in S) /\ \A z \in S : c[z] \in Contenus
    BY <2>a, <2>2 DEF Image, Porte
  <2>4. PICK d : d = [z \in Zones |-> IF z \in DOMAIN m.zones THEN m.zones[z] ELSE canvas[z]]
    OBVIOUS
  <2>5. /\ d \in [Zones -> Contenus \cup {Noir}]
        /\ \A z \in Zones : d[z] = IF Porte(m, z) THEN m.zones[z] ELSE canvas[z]
    <3>1. \A z : z \in DOMAIN m.zones <=> Porte(m, z)
      BY <2>1 DEF Porte
    <3>2. \A z \in Zones : (IF Porte(m, z) THEN m.zones[z] ELSE canvas[z]) \in Contenus \cup {Noir}
      BY <2>3 DEF IInvCadence, TypesCadence
    <3>3. QED BY <2>4, <3>1, <3>2
  <2>6. /\ canvas' = d /\ vers_page' = Tail(vers_page) /\ vers_processus' = Append(vers_processus, "ack")
        /\ UNCHANGED <<serveurVars, dirty, awaiting_ack, en_pause, affiche, bascules, deplace>>
    BY <1>1, <1>2, <2>4 DEF Peindre
  <2>7. \A z \in Zones : Suit(vers_page, canvas, image, z) => Suit(Tail(vers_page), d, image, z)
    BY <1>0, <1>1, <2>5, SuitLu
  <2>8. "ack" \in Messages /\ "ack" \notin Dits
    BY DEF Messages, Dits
  <2>9. Append(vers_processus, "ack") \in Seq(Messages) /\ DitVrai(Append(vers_processus, "ack"), en_pause, affiche)
    BY <1>0, <2>8, DitAjout DEF IInvCadence, TypesCadence
  <2>10. EnFile("refresh") => EnFile("refresh")'
    BY <1>0, <2>6, <2>8, RefreshAjout DEF EnFile
  <2>11. TypesCadence'
    BY <1>0, <2>5, <2>6, <2>9 DEF IInvCadence, TypesCadence
  <2>12. ZonesSuivies'
    BY <2>6, <2>7, <2>10 DEF IInvCadence, ZonesSuivies
  <2>13. QED BY <2>6, <2>9, <2>11, <2>12 DEF IInvCadence
<1>3. CASE Retailler
  <2>1. m = Taille /\ \A z : ~Porte(m, z)
    BY <1>1, <1>3 DEF Retailler, Taille, Porte
  <2>2. \A z \in Zones : Suit(vers_page, canvas, image, z) => Suit(Tail(vers_page), canvas, image, z)
    BY <1>0, <1>1, <2>1, SuitLu
  <2>3. TypesCadence'
    BY <1>0, <1>3 DEF Retailler, IInvCadence, TypesCadence
  <2>4. ZonesSuivies'
    BY <1>3, <2>2 DEF Retailler, IInvCadence, ZonesSuivies, EnFile
  <2>5. QED BY <1>3, <2>3, <2>4 DEF Retailler, IInvCadence
<1>4. QED BY <1>2, <1>3 DEF Page

\* The user: what is hidden is not owed, what is shown again after it is asked for.
LEMMA UserTient ==
  ASSUME IInvCadence, (\E reparente \in BOOLEAN : Montrer(reparente)) \/ Cacher \/ Effacer \/ Partager
  PROVE  IInvCadence'
<1> USE DEF serveurVars, cadenceVars
<1>0. /\ vers_processus \in Seq(Messages) /\ en_pause \in BOOLEAN /\ affiche \in BOOLEAN
      /\ deplace \in BOOLEAN /\ DitVrai(vers_processus, en_pause, affiche)
      /\ canvas \in [Zones -> Contenus \cup {Noir}] /\ Perdu \in [Zones -> Contenus \cup {Noir}]
      /\ {"reprise", "refresh", "pause"} \subseteq Messages \cap Dits
  BY DEF IInvCadence, TypesCadence, Perdu, Messages, Dits
<1>b. Basculer => bascules' \in 0 .. MaxBascules
  BY CadenceAssumption DEF Basculer, IInvCadence, TypesCadence
<1>1. ASSUME NEW reparente \in BOOLEAN, Montrer(reparente) PROVE IInvCadence'
  <2>1. PICK s : s = Append(vers_processus, "reprise") /\ s \in Seq(Messages)
    <3>1. "reprise" \in Messages
      BY <1>0
    <3>2. Append(vers_processus, "reprise") \in Seq(Messages)
      BY <1>0, <3>1
    <3>3. QED BY <3>2
  <2>2. DitVrai(s, en_pause, TRUE) /\ (EnFile("refresh") => \E i \in 1 .. Len(s) : s[i] = "refresh")
    BY <1>0, <2>1, DitAjout, RefreshAjout DEF EnFile
  <2>3. PICK r : r = Append(s, "refresh") /\ r \in Seq(Messages)
    <3>1. "refresh" \in Messages
      BY <1>0
    <3>2. Append(s, "refresh") \in Seq(Messages)
      BY <2>1, <3>1
    <3>3. QED BY <3>2
  <2>4. DitVrai(r, en_pause, TRUE) /\ \E i \in 1 .. Len(r) : r[i] = "refresh"
    <3>1. "refresh" \in Messages /\ "refresh" \in Dits /\ "refresh" # "pause"
      BY <1>0
    <3>2. s \in Seq(Messages) /\ DitVrai(s, en_pause, TRUE)
      BY <2>1, <2>2
    <3>3. DitVrai(Append(s, "refresh"), en_pause, TRUE)
      BY <1>0, <3>1, <3>2, DitAjout
    <3>4. \E i \in 1 .. Len(Append(s, "refresh")) : Append(s, "refresh")[i] = "refresh"
      BY <3>1, <3>2, RefreshAjout
    <3>5. QED BY <2>3, <3>3, <3>4
  <2>5. vers_processus \o <<"reprise">> = s /\ vers_processus \o <<"reprise", "refresh">> = r
    BY <1>0, <2>1, <2>3
  <2>6. /\ vers_processus' = IF DoitRafraichir(reparente) THEN r ELSE s
        /\ affiche' = TRUE /\ deplace' = (deplace /\ ~DoitRafraichir(reparente))
        /\ canvas' \in (IF reparente THEN {canvas, Perdu} ELSE {canvas})
        /\ UNCHANGED <<serveurVars, cadenceVars, en_pause>> /\ Basculer
    BY <1>1, <2>5 DEF Montrer
  <2>7. vers_processus' \in Seq(Messages) /\ DitVrai(vers_processus', en_pause, TRUE)
    BY <2>1, <2>2, <2>3, <2>4, <2>6
  <2>8. TypesCadence'
    BY <1>0, <1>b, <2>6, <2>7 DEF IInvCadence, TypesCadence
  <2>9. ZonesSuivies'
    <3>1. CASE DoitRafraichir(reparente)
      <4>1. EnFile("refresh")'
        BY <2>4, <2>6, <3>1 DEF EnFile
      <4>2. QED BY <4>1 DEF ZonesSuivies
    <3>2. CASE ~DoitRafraichir(reparente)
      <4>1. affiche /\ ~reparente /\ canvas' = canvas /\ vers_processus' = s
        BY <2>6, <3>2 DEF DoitRafraichir
      <4>2. EnFile("refresh") => EnFile("refresh")'
        BY <2>2, <4>1 DEF EnFile
      <4>3. QED BY <2>6, <3>2, <4>1, <4>2 DEF IInvCadence, ZonesSuivies
    <3>3. QED BY <3>1, <3>2
  <2>10. QED BY <2>6, <2>7, <2>8, <2>9 DEF IInvCadence
<1>2. CASE Cacher
  <2>1. /\ Append(vers_processus, "pause") \in Seq(Messages)
        /\ DitVrai(Append(vers_processus, "pause"), en_pause, FALSE)
    BY <1>0, DitAjout
  <2>2. TypesCadence'
    BY <1>0, <1>b, <1>2, <2>1 DEF Cacher, IInvCadence, TypesCadence
  <2>3. QED BY <1>2, <2>1, <2>2 DEF Cacher, IInvCadence, ZonesSuivies
<1>3. CASE Effacer
  <2>1. TypesCadence'
    BY <1>0, <1>3 DEF Effacer, IInvCadence, TypesCadence
  <2>2. QED BY <1>3, <2>1 DEF Effacer, IInvCadence, ZonesSuivies
<1>4. CASE Partager
  <2>1. /\ Append(vers_processus, "reprise") \in Seq(Messages)
        /\ DitVrai(Append(vers_processus, "reprise"), en_pause, TRUE)
    BY <1>0, DitAjout
  <2>2. TypesCadence'
    BY <1>0, <1>b, <1>4, <2>1 DEF Partager, IInvCadence, TypesCadence
  <2>3. QED BY <1>4, <2>1, <2>2 DEF Partager, IInvCadence, ZonesSuivies
<1>5. QED BY <1>1, <1>2, <1>3, <1>4

LEMMA CadencePas == IInvCadence /\ [NextCadence]_varsCadence => IInvCadence'
<1>1. IInvCadence /\ UNCHANGED varsCadence => IInvCadence'
  BY DEF varsCadence, serveurVars, cadenceVars, pageVars, IInvCadence, TypesCadence, ZonesSuivies, EnFile
<1>2. QED BY <1>1, ServeurTient, BoucleTient, PageTient, UserTient DEF NextCadence

LEMMA CadenceInvariante == SpecCadence => []IInvCadence
BY CadencePas, InitTient, PTL DEF SpecCadence

-----------------------------------------------------------------------------
\* Nothing drawn is lost on its way to a displayed tab, and once the process has read
\* what it was told its pause follows the display, for every screen and every number
\* of drawings (flush_dirty!, REFRESH and PAUSE of session.rs, focusRdp of rdp.ts).
THEOREM EcranToujoursTenu == SpecCadence => []EcranTenu
<1>1. IInvCadence => RienDePerdu
  BY SuitArrive DEF IInvCadence, ZonesSuivies, RienDePerdu
<1>2. IInvCadence => PauseSuitLAffichage
  <2> SUFFICES ASSUME IInvCadence, ~EnFile("pause"), ~EnFile("reprise"), ~EnFile("refresh")
               PROVE  en_pause = ~affiche
    BY DEF PauseSuitLAffichage
  <2>1. \A i \in 1 .. Len(vers_processus) : vers_processus[i] \notin Dits
    BY DEF EnFile, Dits
  <2>2. QED BY <2>1 DEF IInvCadence, TypesCadence, DitVrai
<1>3. IInvCadence => EcranTenu
  BY <1>1, <1>2 DEF EcranTenu, IInvCadence
<1>4. QED BY <1>3, CadenceInvariante, PTL

\* Reading a queue leaves no more images in it, nor does a size at its end.
LEMMA MoinsDImages ==
  ASSUME NEW f \in Seq(Trame), NEW g \in Seq(Trame),
         g = f \/ g = Append(f, Taille) \/ (f # <<>> /\ g = Tail(f))
  PROVE  Cardinality({i \in 1 .. Len(g) : g[i].type = "image"})
           <= Cardinality({i \in 1 .. Len(f) : f[i].type = "image"})
<1> DEFINE I == {i \in 1 .. Len(f) : f[i].type = "image"}
           J == {i \in 1 .. Len(g) : g[i].type = "image"}
<1>0. IsFiniteSet(I) /\ IsFiniteSet(J)
  <2>1. Len(f) \in Nat /\ Len(g) \in Nat
    OBVIOUS
  <2>2. IsFiniteSet(1 .. Len(f)) /\ IsFiniteSet(1 .. Len(g))
    BY <2>1, FS_Interval
  <2>3. QED BY <2>2, FS_Subset
<1>1. CASE g = f
  BY <1>0, <1>1, FS_CardinalityType
<1>2. CASE g = Append(f, Taille)
  <2>1. Taille \in Trame /\ Taille.type # "image"
    BY DEF Trame, Taille
  <2>2. /\ Len(g) = Len(f) + 1 /\ Len(f) \in Nat /\ g[Len(f) + 1] = Taille
        /\ \A i \in 1 .. Len(f) : g[i] = f[i]
    BY <1>2, <2>1, QueueAjout
  <2>3. J \subseteq I
    BY <2>1, <2>2
  <2>4. QED BY <1>0, <2>3, FS_Subset
<1>3. CASE f # <<>> /\ g = Tail(f)
  <2>1. /\ Len(g) = Len(f) - 1 /\ Len(f) \in Nat /\ \A i \in 1 .. Len(f) - 1 : g[i] = f[i + 1]
    BY <1>3, QueueTete
  <2>2. PICK h : h = [i \in J |-> i + 1]
    OBVIOUS
  <2>3. \A i \in J : i + 1 \in I /\ i \in Nat
    BY <2>1
  <2>4. h \in Injection(J, I)
    BY <2>2, <2>3 DEF Injection, IsInjective
  <2>5. QED BY <1>0, <2>4, FS_Injection
<1>4. QED BY <1>1, <1>2, <1>3

\* A paused process sends no frame (in_pause of flush_dirty!).
THEOREM SilenceToujours == SpecCadence => SilenceEnPause
<1>1. ASSUME IInvCadence, [NextCadence]_varsCadence, en_pause, en_pause'
      PROVE  Cardinality(Images') <= Cardinality(Images)
  <2>1. IInvCadence'
    BY <1>1, CadencePas
  <2>2. vers_page \in Seq(Trame) /\ vers_page' \in Seq(Trame)
    BY <1>1, <2>1 DEF IInvCadence, TypesCadence
  <2>3. \/ vers_page' = vers_page \/ vers_page' = Append(vers_page, Taille)
        \/ vers_page # <<>> /\ vers_page' = Tail(vers_page)
    <3>1. ASSUME NEW z \in Zones, DessinerZone(z) PROVE vers_page' = vers_page
      BY <1>1, <3>1 DEF DessinerZone, Emettre
    <3>2. CASE LireMessage
      BY <1>1, <3>2 DEF LireMessage, LireAck, LirePause, LireReprise, LireRefresh, Emettre, cadenceVars
    <3>3. ASSUME NEW passe \in BOOLEAN, Tic(passe) PROVE vers_page' = vers_page
      BY <1>1, <3>3 DEF Tic, Emettre
    <3>4. CASE Page \/ ChangerTaille
      BY <3>4 DEF Page, Peindre, Retailler, ChangerTaille
    <3>5. ASSUME (\E reparente \in BOOLEAN : Montrer(reparente)) \/ Cacher \/ Effacer \/ Partager
                 \/ UNCHANGED varsCadence
          PROVE  vers_page' = vers_page
      BY <3>5 DEF Montrer, Cacher, Effacer, Partager, cadenceVars, varsCadence
    <3>6. QED BY <1>1, <3>1, <3>2, <3>3, <3>4, <3>5 DEF NextCadence
  <2>4. QED BY <2>2, <2>3, MoinsDImages DEF Images
<1>2. IInvCadence /\ [NextCadence]_varsCadence =>
        [en_pause /\ en_pause' => Cardinality(Images') <= Cardinality(Images)]_varsCadence
  BY <1>1
<1>3. QED BY <1>2, CadenceInvariante, PTL DEF SpecCadence, SilenceEnPause
=============================================================================
