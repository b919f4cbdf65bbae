-------------------------- MODULE CanalSftpPreuves -------------------------
(***************************************************************************)
(* Theorems about CanalSftp, for every number of tabs, sessions, calls and *)
(* copies.  The only assumption beside those of CanalSftp is that there    *)
(* are finitely many copies, without which counting them means nothing.    *)
(*                                                                         *)
(* CanauxTenus is inductive because a slot, once filled, keeps its channel *)
(* (RangementStable); TypeOK needs CompteExact, since only the number of   *)
(* copies under way bounds the counter.                                    *)
(***************************************************************************)
EXTENDS CanalSftp, FiniteSetTheorems, TLAPS

\* The types, all but the bound of the counter.
Types ==
  /\ inner \in [Ids -> Sessions \cup {Aucun}]
  /\ session \in [Sessions -> [etat : EtatsSession, id : Ids, connectee : BOOLEAN]]
  /\ sftp \in [Sessions -> Appels \cup {Aucun}]
  /\ file \in [Sessions -> Seq(Sessions \cup Appels \cup Copies)]
  /\ canal \in [Appels -> {"aucun", "ouvert", "ferme"}]
  /\ appel \in [Appels -> [etape : EtapesAppel, id : Ids,
                           session : Sessions \cup {Aucun}, rendu : Appels \cup {Aucun}]]
  /\ copie \in [Copies -> [etape : EtapesCopie, id : Ids, session : Sessions \cup {Aucun}]]
  /\ copies_directes \in [Ids -> Int]

\* A call or a copy that is in line for a session has one.
Placees ==
  /\ \A a \in Appels : appel[a].etape = "attend" => appel[a].session \in Sessions
  /\ \A c \in Copies : copie[c].etape \in {"inscrire", "attend"} => copie[c].session \in Sessions

LEMMA TypesInit == Init => Types /\ Placees
<1> SUFFICES ASSUME Init PROVE Types /\ Placees
  OBVIOUS
<1>1. PICK id \in Ids :
        /\ session = [s \in Sessions |-> [etat |-> "neuve", id |-> id, connectee |-> FALSE]]
        /\ appel = [a \in Appels |-> [etape |-> "libre", id |-> id,
                                      session |-> Aucun, rendu |-> Aucun]]
        /\ copie = [c \in Copies |-> [etape |-> "libre", id |-> id, session |-> Aucun]]
  BY DEF Init
<1>2. file \in [Sessions -> Seq(Sessions \cup Appels \cup Copies)]
  BY DEF Init
<1>3. QED
  BY <1>1, <1>2 DEF Init, Types, Placees, EtatsSession, EtapesAppel, EtapesCopie

LEMMA DemanderType ==
  ASSUME Types, NEW s \in Sessions, NEW x \in Sessions \cup Appels \cup Copies, Demander(s, x)
  PROVE  file' \in [Sessions -> Seq(Sessions \cup Appels \cup Copies)]
<1>1. Append(file[s], x) \in Seq(Sessions \cup Appels \cup Copies)
  BY DEF Types
<1>2. QED BY <1>1 DEF Types, Demander

LEMMA RendreType ==
  ASSUME Types, NEW s \in Sessions, file[s] # << >>, Rendre(s)
  PROVE  file' \in [Sessions -> Seq(Sessions \cup Appels \cup Copies)]
<1>1. Tail(file[s]) \in Seq(Sessions \cup Appels \cup Copies)
  BY DEF Types
<1>2. QED BY <1>1 DEF Types, Rendre

\* The record of a session, and what a step makes of it.
LEMMA SessionType ==
  ASSUME Types, NEW s \in Sessions
  PROVE  /\ session[s] \in [etat : EtatsSession, id : Ids, connectee : BOOLEAN]
         /\ session[s].id \in Ids
         /\ session[s].connectee \in BOOLEAN
<1>1. session[s] \in [etat : EtatsSession, id : Ids, connectee : BOOLEAN]
  BY DEF Types
<1>2. QED BY <1>1

\* What each step of a call leaves in its record.
LEMMA SuivreType ==
  ASSUME Types, NEW a \in Appels, NEW r, Suivre(a, r),
         r \in [etape : EtapesAppel, id : Ids, session : Sessions \cup {Aucun},
                rendu : Appels \cup {Aucun}]
  PROVE  appel' \in [Appels -> [etape : EtapesAppel, id : Ids,
                                session : Sessions \cup {Aucun}, rendu : Appels \cup {Aucun}]]
BY DEF Types, Suivre

LEMMA TypesPas == Types /\ Placees /\ [Next]_vars => Types' /\ Placees'
<1> SUFFICES ASSUME Types, Placees, [Next]_vars PROVE Types' /\ Placees'
  OBVIOUS
<1> DEFINE Fiches == [etape : EtapesAppel, id : Ids, session : Sessions \cup {Aucun},
                      rendu : Appels \cup {Aucun}]
<1>1. ASSUME NEW s \in Sessions, NEW id \in Ids, Enregistrer(s, id) PROVE Types' /\ Placees'
  BY <1>1 DEF Enregistrer, Types, Placees, EtatsSession
<1>2. ASSUME NEW id \in Ids, Retirer(id) PROVE Types' /\ Placees'
  BY <1>2 DEF Retirer, Types, Placees
<1>3. ASSUME NEW s \in Sessions, FinDuRelais(s) PROVE Types' /\ Placees'
  <2>1. file' \in [Sessions -> Seq(Sessions \cup Appels \cup Copies)]
    BY <1>3, DemanderType DEF FinDuRelais
  <2>2. session' \in [Sessions -> [etat : EtatsSession, id : Ids, connectee : BOOLEAN]]
    <3>1. session' = [session EXCEPT ![s] = [@ EXCEPT !.etat = "finissante"]]
      BY <1>3 DEF FinDuRelais
    <3>2. [session[s] EXCEPT !.etat = "finissante"] \in [etat : EtatsSession, id : Ids, connectee : BOOLEAN]
      BY SessionType DEF EtatsSession
    <3>3. QED BY <3>1, <3>2 DEF Types
  <2>3. inner' \in [Ids -> Sessions \cup {Aucun}]
    BY <1>3 DEF FinDuRelais, Types
  <2>4. QED BY <1>3, <2>1, <2>2, <2>3 DEF FinDuRelais, Types, Placees
<1>4. ASSUME NEW s \in Sessions, Deconnecter(s) PROVE Types' /\ Placees'
  <2>1. file' \in [Sessions -> Seq(Sessions \cup Appels \cup Copies)]
    BY <1>4, RendreType DEF Deconnecter, Tient
  <2>2. session' \in [Sessions -> [etat : EtatsSession, id : Ids, connectee : BOOLEAN]]
    <3>1. session' = [session EXCEPT ![s] = [@ EXCEPT !.etat = "finie", !.connectee = FALSE]]
      BY <1>4 DEF Deconnecter
    <3>2. [session[s] EXCEPT !.etat = "finie", !.connectee = FALSE]
            \in [etat : EtatsSession, id : Ids, connectee : BOOLEAN]
      BY SessionType DEF EtatsSession
    <3>3. QED BY <3>1, <3>2 DEF Types
  <2>3. QED BY <1>4, <2>1, <2>2 DEF Deconnecter, Types, Placees
<1>5. ASSUME NEW s \in Sessions, Perdre(s) PROVE Types' /\ Placees'
  <2>1. session' \in [Sessions -> [etat : EtatsSession, id : Ids, connectee : BOOLEAN]]
    <3>1. session' = [session EXCEPT ![s] = [@ EXCEPT !.connectee = FALSE]]
      BY <1>5 DEF Perdre
    <3>2. [session[s] EXCEPT !.connectee = FALSE] \in [etat : EtatsSession, id : Ids, connectee : BOOLEAN]
      BY SessionType
    <3>3. QED BY <3>1, <3>2 DEF Types
  <2>2. QED BY <1>5, <2>1 DEF Perdre, Types, Placees
<1>6. ASSUME NEW a \in Appels, NEW id \in Ids, Consulter(a, id) PROVE Types' /\ Placees'
  <2>1. appel' \in [Appels -> Fiches]
    <3>1. CASE inner[id] # Aucun /\ sftp[inner[id]] # Aucun
      <4>1. Suivre(a, [etape |-> "rendu", id |-> id, session |-> Aucun, rendu |-> sftp[inner[id]]])
        BY <1>6, <3>1 DEF Consulter
      <4>2. [etape |-> "rendu", id |-> id, session |-> Aucun, rendu |-> sftp[inner[id]]] \in Fiches
        BY <3>1 DEF Types, EtapesAppel
      <4>3. QED BY <4>1, <4>2, SuivreType
    <3>2. CASE ~(inner[id] # Aucun /\ sftp[inner[id]] # Aucun)
      <4>1. Suivre(a, [etape |-> "compter", id |-> id, session |-> Aucun, rendu |-> Aucun])
        BY <1>6, <3>2 DEF Consulter
      <4>2. [etape |-> "compter", id |-> id, session |-> Aucun, rendu |-> Aucun] \in Fiches
        BY DEF EtapesAppel
      <4>3. QED BY <4>1, <4>2, SuivreType
    <3>3. QED BY <3>1, <3>2
  <2>2. appel'[a].etape \in {"rendu", "compter"} /\ \A b \in Appels \ {a} : appel'[b] = appel[b]
    BY <1>6 DEF Consulter, Suivre, Types
  <2>3. QED BY <1>6, <2>1, <2>2 DEF Consulter, Types, Placees
<1>7. ASSUME NEW a \in Appels, Appel(a) PROVE Types' /\ Placees'
  <2>0. appel[a] \in Fiches /\ appel[a].id \in Ids
    BY DEF Types
  <2>1. CASE Compter(a)
    <3>1. appel' \in [Appels -> Fiches]
      BY <2>0, <2>1, SuivreType DEF Compter, EtapesAppel
    <3>2. QED BY <2>1, <3>1 DEF Compter, Suivre, Types, Placees
  <2>2. CASE SansSession(a)
    <3>1. appel' \in [Appels -> Fiches]
      BY <2>0, <2>2, SuivreType DEF SansSession, EtapesAppel
    <3>2. QED BY <2>2, <3>1 DEF SansSession, Suivre, Types, Placees
  <2>3. CASE Prendre(a)
    <3>1. inner[appel[a].id] \in Sessions
      BY <2>0, <2>3 DEF Prendre, Types
    <3>2. appel' \in [Appels -> Fiches]
      BY <2>0, <2>3, <3>1, SuivreType DEF Prendre, EtapesAppel
    <3>3. file' \in [Sessions -> Seq(Sessions \cup Appels \cup Copies)]
      BY <2>3, <3>1, DemanderType DEF Prendre
    <3>4. QED BY <2>3, <3>1, <3>2, <3>3 DEF Prendre, Suivre, Types, Placees
  <2>4. CASE Ouvrir(a)
    <3>1. appel[a].session \in Sessions
      BY <2>4 DEF Ouvrir, Placees
    <3>2. appel' \in [Appels -> Fiches]
      BY <2>0, <2>4, SuivreType DEF Ouvrir, EtapesAppel
    <3>3. file' \in [Sessions -> Seq(Sessions \cup Appels \cup Copies)]
      BY <2>4, <3>1, RendreType DEF Ouvrir, Tient
    <3>4. QED BY <2>4, <3>2, <3>3 DEF Ouvrir, Suivre, Types, Placees
  <2>5. CASE Refuser(a)
    <3>1. appel[a].session \in Sessions
      BY <2>5 DEF Refuser, Placees
    <3>2. appel' \in [Appels -> Fiches]
      BY <2>0, <2>5, SuivreType DEF Refuser, EtapesAppel
    <3>3. file' \in [Sessions -> Seq(Sessions \cup Appels \cup Copies)]
      BY <2>5, <3>1, RendreType DEF Refuser, Tient
    <3>4. QED BY <2>5, <3>2, <3>3 DEF Refuser, Suivre, Types, Placees
  <2>6. CASE Ranger(a)
    <3>0. inner[appel[a].id] # Aucun => inner[appel[a].id] \in Sessions
      BY <2>0 DEF Types
    <3>1. CASE inner[appel[a].id] # Aucun /\ sftp[inner[appel[a].id]] = Aucun
      <4>1. appel' \in [Appels -> Fiches]
        BY <2>0, <2>6, <3>1, SuivreType DEF Ranger, EtapesAppel
      <4>2. sftp' \in [Sessions -> Appels \cup {Aucun}]
        BY ZenonT(60), <2>6, <3>0, <3>1 DEF Ranger, Types
      <4>3. Suivre(a, [appel[a] EXCEPT !.etape = "rendu", !.rendu = a])
        BY <2>6, <3>1 DEF Ranger
      <4>4. \A b \in Appels : appel'[b].etape = "attend" => appel'[b] = appel[b]
        BY <2>0, <4>3 DEF Suivre, Types
      <4>5. QED BY <2>6, <4>1, <4>2, <4>4 DEF Ranger, Types, Placees
    <3>2. CASE ~(inner[appel[a].id] # Aucun /\ sftp[inner[appel[a].id]] = Aucun)
      <4>0. (IF inner[appel[a].id] = Aucun THEN Aucun ELSE sftp[inner[appel[a].id]]) \in Appels \cup {Aucun}
        BY <3>0 DEF Types
      <4>1. appel' \in [Appels -> Fiches]
        BY <2>0, <2>6, <3>2, <4>0, SuivreType DEF Ranger, EtapesAppel
      <4>2. PICK r \in Appels \cup {Aucun} : Suivre(a, [appel[a] EXCEPT !.etape = "fermer", !.rendu = r])
        BY <2>6, <3>2, <4>0 DEF Ranger
      <4>3. \A b \in Appels : appel'[b].etape = "attend" => appel'[b] = appel[b]
        BY <2>0, <4>2 DEF Suivre, Types
      <4>4. UNCHANGED sftp
        BY <2>6, <3>2 DEF Ranger
      <4>5. QED BY <2>6, <4>1, <4>3, <4>4 DEF Ranger, Types, Placees
    <3>3. QED BY <3>1, <3>2
  <2>7. CASE Fermer(a)
    <3>1. appel' \in [Appels -> Fiches]
      BY <2>0, <2>7, SuivreType DEF Fermer, EtapesAppel
    <3>2. QED BY <2>7, <3>1 DEF Fermer, Suivre, Types, Placees
  <2>8. QED BY <1>7, <2>1, <2>2, <2>3, <2>4, <2>5, <2>6, <2>7 DEF Appel
<1>8. ASSUME NEW c \in Copies, NEW id \in Ids, Copier(c, id) PROVE Types' /\ Placees'
  <2>1. inner[id] \in Sessions
    BY <1>8 DEF Copier, Types
  <2>2. QED BY <1>8, <2>1 DEF Copier, Types, Placees, EtapesCopie
<1>9. ASSUME NEW c \in Copies, Copie(c) PROVE Types' /\ Placees'
  <2>1. CASE InscrireCopie(c)
    <3>1. copie[c].session \in Sessions
      BY <2>1 DEF InscrireCopie, Placees
    <3>2. file' \in [Sessions -> Seq(Sessions \cup Appels \cup Copies)]
      BY <2>1, <3>1, DemanderType DEF InscrireCopie
    <3>3. copies_directes' \in [Ids -> Int]
      BY <2>1 DEF InscrireCopie, Types
    <3>4. copie' \in [Copies -> [etape : EtapesCopie, id : Ids, session : Sessions \cup {Aucun}]]
      BY <2>1 DEF InscrireCopie, Types, EtapesCopie
    <3>5. Placees'
      BY <2>1, <3>1 DEF InscrireCopie, Types, Placees
    <3>6. QED BY <2>1, <3>2, <3>3, <3>4, <3>5 DEF InscrireCopie, Types
  <2>2. CASE FinirCopie(c)
    <3>1. copie[c].session \in Sessions
      BY <2>2 DEF FinirCopie, Placees
    <3>2. file' \in [Sessions -> Seq(Sessions \cup Appels \cup Copies)]
      BY <2>2, <3>1, RendreType DEF FinirCopie, Tient
    <3>3. QED BY ZenonT(60), <2>2, <3>2 DEF FinirCopie, Types, Placees, EtapesCopie
  <2>3. CASE Decompter(c)
    <3>1. copies_directes' \in [Ids -> Int]
      BY <2>3 DEF Decompter, Types
    <3>2. copie' \in [Copies -> [etape : EtapesCopie, id : Ids, session : Sessions \cup {Aucun}]]
      BY ZenonT(60), <2>3 DEF Decompter, Types, EtapesCopie
    <3>3. Placees'
      BY <2>3 DEF Decompter, Types, Placees
    <3>4. QED BY <2>3, <3>1, <3>2, <3>3 DEF Decompter, Types
  <2>4. QED BY <1>9, <2>1, <2>2, <2>3 DEF Copie
<1>10. CASE UNCHANGED vars
  BY <1>10 DEF vars, Types, Placees
<1>11. QED
  BY <1>1, <1>2, <1>3, <1>4, <1>5, <1>6, <1>7, <1>8, <1>9, <1>10 DEF Next

-----------------------------------------------------------------------------
(* The channels.                                                           *)

\* A filled slot keeps its channel: only Ranger writes a slot, and an empty one.
LEMMA EmplacementPas ==
  ASSUME Types, [Next]_vars, NEW s \in Sessions, sftp[s] # Aucun
  PROVE  sftp'[s] = sftp[s]
<1>1. ASSUME NEW a \in Appels, Ranger(a) PROVE sftp'[s] = sftp[s]
  <2>1. CASE inner[appel[a].id] # Aucun /\ sftp[inner[appel[a].id]] = Aucun
    BY <1>1, <2>1 DEF Ranger, Types
  <2>2. CASE ~(inner[appel[a].id] # Aucun /\ sftp[inner[appel[a].id]] = Aucun)
    BY <1>1, <2>2 DEF Ranger
  <2>3. QED BY <2>1, <2>2
<1>2. CASE UNCHANGED sftp
  BY <1>2
<1>3. QED
  BY <1>1, <1>2 DEF Next, vars, Appel, Copie, Enregistrer, Retirer, FinDuRelais, Deconnecter,
     Perdre, Consulter, Compter, SansSession, Prendre, Ouvrir, Refuser, Fermer, Copier,
     InscrireCopie, FinirCopie, Decompter

\* A call that has its channel in hand keeps it until it stores or closes it.
LEMMA CanauxPas ==
  ASSUME Types, CanauxTenus, [Next]_vars
  PROVE  CanauxTenus'
<1> SUFFICES ASSUME NEW a \in Appels, canal'[a] = "ouvert"
             PROVE  \/ appel'[a].etape \in {"ranger", "fermer"}
                    \/ \E s \in Sessions : sftp'[s] = a
  BY DEF CanauxTenus
<1> DEFINE But == \/ appel'[a].etape \in {"ranger", "fermer"}
                  \/ \E s \in Sessions : sftp'[s] = a
<1>1. ASSUME NEW s \in Sessions, sftp[s] = a PROVE But
  BY <1>1, EmplacementPas, CanalSftpAssumption DEF Types
<1>2. ASSUME canal[a] = "ouvert", UNCHANGED appel PROVE But
  BY <1>1, <1>2 DEF CanauxTenus
<1>3. ASSUME NEW b \in Appels, NEW r, Suivre(b, r), canal[a] = "ouvert",
             appel[b].etape \notin {"ranger", "fermer"}
      PROVE  But
  BY <1>1, <1>3 DEF CanauxTenus, Suivre, Types
<1>4. ASSUME NEW b \in Appels, NEW id \in Ids, Consulter(b, id) PROVE But
  <2>1. \E r : Suivre(b, r)
    BY <1>4 DEF Consulter
  <2>2. QED BY <1>3, <1>4, <2>1 DEF Consulter
<1>5. ASSUME NEW b \in Appels, Appel(b) PROVE But
  <2>1. CASE Compter(b) \/ SansSession(b) \/ Prendre(b) \/ Refuser(b)
    <3>1. (\E r : Suivre(b, r)) /\ UNCHANGED canal /\ appel[b].etape \notin {"ranger", "fermer"}
      BY <2>1 DEF Compter, SansSession, Prendre, Refuser
    <3>2. QED BY <1>3, <3>1
  <2>2. CASE Ouvrir(b)
    <3>1. CASE a = b
      BY <2>2, <3>1 DEF Ouvrir, Suivre, Types
    <3>2. CASE a # b
      <4>1. canal[a] = "ouvert" /\ appel[b].etape \notin {"ranger", "fermer"} /\ \E r : Suivre(b, r)
        BY <2>2, <3>2 DEF Ouvrir, Types
      <4>2. QED BY <1>3, <4>1
    <3>3. QED BY <3>1, <3>2
  <2>3. CASE Ranger(b)
    <3>1. CASE a # b
      <4>1. appel'[a] = appel[a] /\ canal[a] = "ouvert"
        <5>1. \E r : Suivre(b, r)
          BY <2>3 DEF Ranger
        <5>2. QED BY <2>3, <3>1, <5>1 DEF Ranger, Suivre, Types
      <4>2. QED BY <1>1, <4>1 DEF CanauxTenus
    <3>2. CASE a = b /\ inner[appel[b].id] # Aucun /\ sftp[inner[appel[b].id]] = Aucun
      BY <2>3, <3>2 DEF Ranger, Types
    <3>3. CASE a = b /\ ~(inner[appel[b].id] # Aucun /\ sftp[inner[appel[b].id]] = Aucun)
      <4>1. PICK r : Suivre(b, [appel[b] EXCEPT !.etape = "fermer", !.rendu = r])
        BY <2>3, <3>3 DEF Ranger
      <4>2. appel[b] \in [etape : EtapesAppel, id : Ids, session : Sessions \cup {Aucun},
                          rendu : Appels \cup {Aucun}]
        BY DEF Types
      <4>3. appel'[b].etape = "fermer"
        BY <4>1, <4>2 DEF Suivre, Types
      <4>4. QED BY <3>3, <4>3
    <3>4. QED BY <3>1, <3>2, <3>3
  <2>4. CASE Fermer(b)
    <3>1. a # b
      BY <2>4 DEF Fermer, Types
    <3>2. appel'[a] = appel[a] /\ canal[a] = "ouvert"
      BY <2>4, <3>1 DEF Fermer, Suivre, Types
    <3>3. QED BY <1>1, <3>2 DEF CanauxTenus
  <2>5. QED BY <1>5, <2>1, <2>2, <2>3, <2>4 DEF Appel
<1>6. CASE UNCHANGED <<canal, appel>>
  BY <1>2, <1>6
<1>7. QED
  BY <1>4, <1>5, <1>6 DEF Next, vars, Copie, Enregistrer, Retirer, FinDuRelais, Deconnecter,
     Perdre, Copier, InscrireCopie, FinirCopie, Decompter

-----------------------------------------------------------------------------
(* The handles.                                                            *)

\* The end of the relay takes the handle out of the store in the same step.
LEMMA ListePas ==
  ASSUME Types, Placees, FinieNonListee, [Next]_vars
  PROVE  FinieNonListee'
<1> SUFFICES ASSUME NEW i \in Ids, inner'[i] # Aucun
             PROVE  session'[inner'[i]] =
                      [etat |-> "vivante", id |-> i, connectee |-> session'[inner'[i]].connectee]
  BY DEF FinieNonListee
<1>0. inner[i] # Aucun =>
        /\ inner[i] \in Sessions
        /\ session[inner[i]] = [etat |-> "vivante", id |-> i, connectee |-> session[inner[i]].connectee]
  BY DEF FinieNonListee, Types
<1>1. ASSUME NEW s \in Sessions, NEW id \in Ids, Enregistrer(s, id)
      PROVE  session'[inner'[i]] =
               [etat |-> "vivante", id |-> i, connectee |-> session'[inner'[i]].connectee]
  <2>1. CASE i = id
    BY <1>1, <2>1 DEF Enregistrer, Types
  <2>2. CASE i # id
    <3>1. inner'[i] = inner[i] /\ inner[i] # s
      BY <1>0, <1>1, <2>2 DEF Enregistrer, Types
    <3>2. QED BY <1>0, <1>1, <3>1 DEF Enregistrer, Types
  <2>3. QED BY <2>1, <2>2
<1>2. ASSUME NEW id \in Ids, Retirer(id)
      PROVE  session'[inner'[i]] =
               [etat |-> "vivante", id |-> i, connectee |-> session'[inner'[i]].connectee]
  BY <1>0, <1>2 DEF Retirer, Types
<1>3. ASSUME NEW s \in Sessions, FinDuRelais(s)
      PROVE  session'[inner'[i]] =
               [etat |-> "vivante", id |-> i, connectee |-> session'[inner'[i]].connectee]
  <2>1. inner'[i] = inner[i] /\ inner[i] # s
    BY <1>0, <1>3 DEF FinDuRelais, Types
  <2>2. QED BY <1>0, <1>3, <2>1 DEF FinDuRelais, Types
<1>4. ASSUME NEW s \in Sessions, Deconnecter(s)
      PROVE  session'[inner'[i]] =
               [etat |-> "vivante", id |-> i, connectee |-> session'[inner'[i]].connectee]
  <2>1. inner'[i] = inner[i] /\ inner[i] # s
    BY <1>0, <1>4 DEF Deconnecter
  <2>2. QED BY <1>0, <1>4, <2>1 DEF Deconnecter, Types
<1>5. ASSUME NEW s \in Sessions, Perdre(s)
      PROVE  session'[inner'[i]] =
               [etat |-> "vivante", id |-> i, connectee |-> session'[inner'[i]].connectee]
  <2>1. inner'[i] = inner[i] /\ inner[i] \in Sessions
    BY <1>0, <1>5 DEF Perdre
  <2>2. session'[inner[i]].etat = "vivante" /\ session'[inner[i]].id = i
    BY <1>0, <1>5, <2>1 DEF Perdre, Types
  <2>3. session'[inner[i]] \in [etat : EtatsSession, id : Ids, connectee : BOOLEAN]
    BY <2>1, TypesPas DEF Types
  <2>4. QED BY <2>1, <2>2, <2>3
<1>6. CASE UNCHANGED <<inner, session>>
  BY <1>0, <1>6
<1>7. QED
  BY <1>1, <1>2, <1>3, <1>4, <1>5, <1>6 DEF Next, vars, Appel, Copie, Consulter, Compter,
     SansSession, Prendre, Ouvrir, Refuser, Ranger, Fermer, Copier, InscrireCopie, FinirCopie,
     Decompter

-----------------------------------------------------------------------------
(* The counter.                                                            *)

\* The copies that the counter of `id` counts.
EnCompte(id) == {c \in Copies : copie[c].id = id /\ copie[c].etape \in {"attend", "decompter"}}

\* A finite set that gains, or loses, one element.
LEMMA UnDePlus ==
  ASSUME NEW S, IsFiniteSet(S), NEW x, x \notin S
  PROVE  Cardinality(S \cup {x}) = Cardinality(S) + 1 /\ Cardinality(S) \in Nat
BY FS_AddElement, FS_CardinalityType

LEMMA UnDeMoins ==
  ASSUME NEW S, IsFiniteSet(S), NEW x, x \in S
  PROVE  Cardinality(S \ {x}) = Cardinality(S) - 1 /\ Cardinality(S) \in Nat
BY FS_RemoveElement, FS_CardinalityType

\* A copy is counted when it is entered and taken back when its counter is
\* dropped, once each, under the id it was asked for.
LEMMA ComptePas ==
  ASSUME Types, IsFiniteSet(Copies), CompteExact, [Next]_vars
  PROVE  CompteExact'
<1> SUFFICES ASSUME NEW i \in Ids PROVE copies_directes'[i] = Cardinality(EnCompte(i)')
  BY DEF CompteExact, EnCompte
<1>0. copies_directes[i] = Cardinality(EnCompte(i)) /\ IsFiniteSet(EnCompte(i))
  BY FS_Subset DEF CompteExact, EnCompte
<1>1. ASSUME NEW c \in Copies, NEW id \in Ids, Copier(c, id)
      PROVE  copies_directes'[i] = Cardinality(EnCompte(i)')
  <2>1. EnCompte(i)' = EnCompte(i)
    BY <1>1 DEF EnCompte, Copier, Types
  <2>2. QED BY <1>0, <1>1, <2>1 DEF Copier
<1>2. ASSUME NEW c \in Copies, InscrireCopie(c)
      PROVE  copies_directes'[i] = Cardinality(EnCompte(i)')
  <2>1. CASE copie[c].id = i
    <3>1. EnCompte(i)' = EnCompte(i) \cup {c} /\ c \notin EnCompte(i)
      BY <1>2, <2>1 DEF EnCompte, InscrireCopie, Types
    <3>2. copies_directes'[i] = copies_directes[i] + 1
      BY <1>2, <2>1 DEF InscrireCopie, Types
    <3>3. QED BY <1>0, <3>1, <3>2, UnDePlus
  <2>2. CASE copie[c].id # i
    <3>1. EnCompte(i)' = EnCompte(i)
      BY <1>2, <2>2 DEF EnCompte, InscrireCopie, Types
    <3>2. copies_directes'[i] = copies_directes[i]
      BY <1>2, <2>2 DEF InscrireCopie, Types
    <3>3. QED BY <1>0, <3>1, <3>2
  <2>3. QED BY <2>1, <2>2
<1>3. ASSUME NEW c \in Copies, FinirCopie(c)
      PROVE  copies_directes'[i] = Cardinality(EnCompte(i)')
  <2>1. EnCompte(i)' = EnCompte(i)
    BY <1>3 DEF EnCompte, FinirCopie, Types
  <2>2. QED BY <1>0, <1>3, <2>1 DEF FinirCopie
<1>4. ASSUME NEW c \in Copies, Decompter(c)
      PROVE  copies_directes'[i] = Cardinality(EnCompte(i)')
  <2>1. CASE copie[c].id = i
    <3>1. EnCompte(i)' = EnCompte(i) \ {c} /\ c \in EnCompte(i)
      BY <1>4, <2>1 DEF EnCompte, Decompter, Types
    <3>2. copies_directes'[i] = copies_directes[i] - 1
      BY <1>4, <2>1 DEF Decompter, Types
    <3>3. QED BY <1>0, <3>1, <3>2, UnDeMoins
  <2>2. CASE copie[c].id # i
    <3>1. EnCompte(i)' = EnCompte(i)
      BY <1>4, <2>2 DEF EnCompte, Decompter, Types
    <3>2. copies_directes'[i] = copies_directes[i]
      BY <1>4, <2>2 DEF Decompter, Types
    <3>3. QED BY <1>0, <3>1, <3>2
  <2>3. QED BY <2>1, <2>2
<1>5. CASE UNCHANGED <<copie, copies_directes>>
  BY <1>0, <1>5 DEF EnCompte
<1>6. QED
  BY <1>1, <1>2, <1>3, <1>4, <1>5 DEF Next, vars, Enregistrer, Retirer, FinDuRelais, Deconnecter,
     Perdre, Consulter, Appel, Compter, SansSession, Prendre, Ouvrir, Refuser, Ranger, Fermer, Copie

\* The counter stays below the number of copies.
LEMMA TypeDuCompte ==
  ASSUME Types, CompteExact, IsFiniteSet(Copies)
  PROVE  TypeOK
<1>1. ASSUME NEW id \in Ids PROVE copies_directes[id] \in 0 .. Cardinality(Copies)
  <2>1. EnCompte(id) \subseteq Copies /\ copies_directes[id] = Cardinality(EnCompte(id))
    BY DEF EnCompte, CompteExact
  <2>2. /\ IsFiniteSet(EnCompte(id)) /\ Cardinality(EnCompte(id)) <= Cardinality(Copies)
        /\ Cardinality(EnCompte(id)) \in Nat /\ Cardinality(Copies) \in Nat
    BY <2>1, FS_Subset, FS_CardinalityType
  <2>3. QED BY <2>1, <2>2
<1>2. copies_directes \in [Ids -> 0 .. Cardinality(Copies)]
  BY <1>1 DEF Types
<1>3. QED BY <1>2 DEF Types, TypeOK

-----------------------------------------------------------------------------
(* The theorems.                                                           *)

\* The invariant that the others follow from.
Socle == Types /\ Placees /\ CanauxTenus /\ FinieNonListee

LEMMA SocleToujours == Spec => []Socle
<1>1. Init => Socle
  BY ZenonT(60), TypesInit, CanalSftpAssumption DEF Socle, Init, CanauxTenus, FinieNonListee
<1>2. Socle /\ [Next]_vars => Socle'
  BY TypesPas, CanauxPas, ListePas DEF Socle
<1>3. QED BY <1>1, <1>2, PTL DEF Spec

\* Calls that race for the channel of one handle all end with the same one.
THEOREM EmplacementStable == Spec => RangementStable
<1>1. Socle /\ [Next]_vars => [\A s \in Sessions : sftp[s] # Aucun => sftp'[s] = sftp[s]]_vars
  BY EmplacementPas DEF Socle
<1>2. QED BY <1>1, SocleToujours, PTL DEF Spec, RangementStable

\* No SFTP channel stays open with nobody to use or to close it (sftp_of), no
\* ended session is listed (clore_session), and the count of direct copies is
\* exact (CopieDirecteEnCours).
THEOREM CanalToujoursTenu ==
  ASSUME IsFiniteSet(Copies)
  PROVE  Spec => [](CanalTenu /\ TypeOK)
<1>1. Init => CompteExact
  <2>1. ASSUME Init, NEW id \in Ids PROVE EnCompte(id) = {}
    BY <2>1 DEF Init, EnCompte
  <2>2. QED BY <2>1, FS_EmptySet DEF Init, CompteExact, EnCompte
<1>2. Socle /\ CompteExact /\ [Next]_vars => CompteExact'
  BY ComptePas DEF Socle
<1>3. Socle /\ CompteExact => CanalTenu /\ TypeOK
  BY TypeDuCompte DEF Socle, CanalTenu
<1>4. QED BY <1>1, <1>2, <1>3, SocleToujours, PTL DEF Spec
=============================================================================
