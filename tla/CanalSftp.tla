----------------------------- MODULE CanalSftp -----------------------------
(***************************************************************************)
(* The SFTP channel of a tab (sftp_of, crates/avash-ui/src/commands/       *)
(* sftp.rs) and what competes with it: the direct copies of the tab        *)
(* (sftp_copier_vers with `direct`), the end of the session and the next   *)
(* session of the same tab.                                                *)
(*                                                                         *)
(* Three mutexes are taken one after the other, never together with an     *)
(* `await`: `inner` (the handles and their `sftp` slot), `copies_directes` *)
(* and, by the tasks, the asynchronous mutex of the SSH session, which     *)
(* serves its waiters in order.  A step is what happens under one of them. *)
(* A channel is named by the call that opened it, a handle by its session. *)
(* The OS probe, which holds the session at most four seconds after the    *)
(* opening, is left out: it changes none of this state.                    *)
(***************************************************************************)
EXTENDS Naturals, Sequences, FiniteSets

CONSTANTS
  Ids,        \* numbers of tabs
  Sessions,   \* SSH sessions that may be registered (bounds the model)
  Appels,     \* calls of a command that needs the channel (bounds the model)
  Copies,     \* direct copies that may be asked for (bounds the model)
  Aucun       \* no handle, no channel

ASSUME CanalSftpAssumption ==
  /\ Sessions \cap Appels = {} /\ Sessions \cap Copies = {} /\ Appels \cap Copies = {}
  /\ Aucun \notin Sessions \cup Appels \cup Copies

VARIABLES
  inner,           \* SessionStore.inner: the session whose handle each id has
  session,         \* each session: its relay, its id, whether it is connected
  sftp,            \* SessionHandle.sftp of the handle of each session
  file,            \* who holds (the head) or awaits the lock of each session
  canal,           \* the channel each call opened
  appel,           \* each call of sftp_of: step, id, session, answer
  copie,           \* each direct copy: step, id, session
  copies_directes  \* SessionStore.copies_directes: copies under way by id

vars == <<inner, session, sftp, file, canal, appel, copie, copies_directes>>

-----------------------------------------------------------------------------
EtatsSession ==
  {"neuve",       \* not registered yet
   "vivante",     \* its relay runs
   "finissante",  \* its relay has ended, the disconnection is in line
   "finie"}

EtapesAppel ==
  {"libre",
   "compter",     \* no channel in the slot: are there direct copies?
   "prendre",     \* none: take the opener of the handle
   "attend",      \* in line for the lock of the session, or opening
   "ranger",      \* has a fresh channel, about to look at the slot again
   "fermer",      \* the fresh channel is one too many
   "rendu",       \* answered with a channel
   "occupee",     \* answered SESSION_OCCUPEE
   "inconnue",    \* answered that the session is unknown
   "echec"}       \* the channel was refused

EtapesCopie == {"libre", "inscrire", "attend", "decompter", "finie"}

TypeOK ==
  /\ inner \in [Ids -> Sessions \cup {Aucun}]
  /\ session \in [Sessions -> [etat : EtatsSession, id : Ids, connectee : BOOLEAN]]
  /\ sftp \in [Sessions -> Appels \cup {Aucun}]
  /\ file \in [Sessions -> Seq(Sessions \cup Appels \cup Copies)]
  /\ canal \in [Appels -> {"aucun", "ouvert", "ferme"}]
  /\ appel \in [Appels -> [etape : EtapesAppel, id : Ids,
                           session : Sessions \cup {Aucun}, rendu : Appels \cup {Aucun}]]
  /\ copie \in [Copies -> [etape : EtapesCopie, id : Ids, session : Sessions \cup {Aucun}]]
  /\ copies_directes \in [Ids -> 0 .. Cardinality(Copies)]

Init ==
  /\ inner = [id \in Ids |-> Aucun]
  /\ \E id \in Ids :
       /\ session = [s \in Sessions |-> [etat |-> "neuve", id |-> id, connectee |-> FALSE]]
       /\ appel = [a \in Appels |-> [etape |-> "libre", id |-> id,
                                     session |-> Aucun, rendu |-> Aucun]]
       /\ copie = [c \in Copies |-> [etape |-> "libre", id |-> id, session |-> Aucun]]
  /\ sftp = [s \in Sessions |-> Aucun]
  /\ file = [s \in Sessions |-> << >>]
  /\ canal = [a \in Appels |-> "aucun"]
  /\ copies_directes = [id \in Ids |-> 0]

Tient(s, x) == file[s] # << >> /\ Head(file[s]) = x

Demander(s, x) == file' = [file EXCEPT ![s] = Append(@, x)]

Rendre(s) == file' = [file EXCEPT ![s] = Tail(@)]

-----------------------------------------------------------------------------
(* The session of the tab.                                                 *)

\* enregistrer_session: a new session for this id, with an empty slot.
Enregistrer(s, id) ==
  /\ session[s].etat = "neuve"
  /\ session' = [session EXCEPT ![s] = [etat |-> "vivante", id |-> id, connectee |-> TRUE]]
  /\ inner' = [inner EXCEPT ![id] = s]
  /\ UNCHANGED <<sftp, file, canal, appel, copie, copies_directes>>

\* pty_close removes the handle.
Retirer(id) ==
  /\ inner[id] # Aucun
  /\ inner' = [inner EXCEPT ![id] = Aucun]
  /\ UNCHANGED <<session, sftp, file, canal, appel, copie, copies_directes>>

\* A slip: the handle stays until the disconnection.
FinDuRelais_Attend(s) ==
  /\ session[s].etat = "vivante"
  /\ session' = [session EXCEPT ![s].etat = "finissante"]
  /\ Demander(s, s)
  /\ UNCHANGED <<inner, sftp, canal, appel, copie, copies_directes>>

\* The relay has ended (the shell ended, the connection was lost, the handle
\* was dropped): the handle leaves the store if it is still this session's,
\* and only then does the disconnection ask for the session.
FinDuRelais(s) ==
  /\ session[s].etat = "vivante"
  /\ session' = [session EXCEPT ![s].etat = "finissante"]
  /\ inner' = [inner EXCEPT ![session[s].id] = IF @ = s THEN Aucun ELSE @]
  /\ Demander(s, s)
  /\ UNCHANGED <<sftp, canal, appel, copie, copies_directes>>

Deconnecter(s) ==
  /\ session[s].etat = "finissante"
  /\ Tient(s, s)
  /\ session' = [session EXCEPT ![s].etat = "finie", ![s].connectee = FALSE]
  /\ Rendre(s)
  /\ UNCHANGED <<inner, sftp, canal, appel, copie, copies_directes>>

\* The connection is lost.
Perdre(s) ==
  /\ session[s].connectee
  /\ session' = [session EXCEPT ![s].connectee = FALSE]
  /\ UNCHANGED <<inner, sftp, file, canal, appel, copie, copies_directes>>

-----------------------------------------------------------------------------
(* sftp_of.                                                                *)

Suivre(a, champs) == appel' = [appel EXCEPT ![a] = champs]

\* Is the channel open already?
Consulter(a, id) ==
  LET s == inner[id] IN
  /\ appel[a].etape = "libre"
  /\ Suivre(a, IF s # Aucun /\ sftp[s] # Aucun
               THEN [etape |-> "rendu", id |-> id, session |-> Aucun, rendu |-> sftp[s]]
               ELSE [etape |-> "compter", id |-> id, session |-> Aucun, rendu |-> Aucun])
  /\ UNCHANGED <<inner, session, sftp, file, canal, copie, copies_directes>>

\* A direct copy holds the session: say so at once.
Compter(a) ==
  /\ appel[a].etape = "compter"
  /\ Suivre(a, [appel[a] EXCEPT !.etape = IF copies_directes[appel[a].id] > 0
                                          THEN "occupee" ELSE "prendre"])
  /\ UNCHANGED <<inner, session, sftp, file, canal, copie, copies_directes>>

SansSession(a) ==
  /\ appel[a].etape = "prendre"
  /\ inner[appel[a].id] = Aucun
  /\ Suivre(a, [appel[a] EXCEPT !.etape = "inconnue"])
  /\ UNCHANGED <<inner, session, sftp, file, canal, copie, copies_directes>>

\* The opener of the handle is cloned, the lock of `inner` released, and the
\* opener asks for the session it was made with.
Prendre(a) ==
  LET s == inner[appel[a].id] IN
  /\ appel[a].etape = "prendre"
  /\ s # Aucun
  /\ Suivre(a, [appel[a] EXCEPT !.etape = "attend", !.session = s])
  /\ Demander(s, a)
  /\ UNCHANGED <<inner, session, sftp, canal, copie, copies_directes>>

\* SftpHandle::open_on, under the lock of the session.
Ouvrir(a) ==
  LET s == appel[a].session IN
  /\ appel[a].etape = "attend"
  /\ Tient(s, a)
  /\ session[s].connectee
  /\ canal' = [canal EXCEPT ![a] = "ouvert"]
  /\ Suivre(a, [appel[a] EXCEPT !.etape = "ranger"])
  /\ Rendre(s)
  /\ UNCHANGED <<inner, session, sftp, copie, copies_directes>>

\* A slip: the refusal leaves with the lock.
Refuser_VerrouGarde(a) ==
  LET s == appel[a].session IN
  /\ appel[a].etape = "attend"
  /\ Tient(s, a)
  /\ Suivre(a, [appel[a] EXCEPT !.etape = "echec"])
  /\ UNCHANGED <<inner, session, sftp, file, canal, copie, copies_directes>>

\* The server refuses the channel, or the connection is lost.
Refuser(a) ==
  LET s == appel[a].session IN
  /\ appel[a].etape = "attend"
  /\ Tient(s, a)
  /\ Suivre(a, [appel[a] EXCEPT !.etape = "echec"])
  /\ Rendre(s)
  /\ UNCHANGED <<inner, session, sftp, canal, copie, copies_directes>>

\* Slips: the channel that is one too many is forgotten; the slot is not
\* looked at again.
Ranger_SansFermer(a) ==
  LET s == inner[appel[a].id] IN
  /\ appel[a].etape = "ranger"
  /\ IF s # Aucun /\ sftp[s] = Aucun
     THEN /\ sftp' = [sftp EXCEPT ![s] = a]
          /\ Suivre(a, [appel[a] EXCEPT !.etape = "rendu", !.rendu = a])
     ELSE /\ Suivre(a, [appel[a] EXCEPT !.etape = IF s = Aucun THEN "inconnue" ELSE "rendu",
                                        !.rendu = IF s = Aucun THEN Aucun ELSE sftp[s]])
          /\ UNCHANGED sftp
  /\ UNCHANGED <<inner, session, file, canal, copie, copies_directes>>

Ranger_SansRevoir(a) ==
  LET s == inner[appel[a].id] IN
  /\ appel[a].etape = "ranger"
  /\ s # Aucun
  /\ sftp' = [sftp EXCEPT ![s] = a]
  /\ Suivre(a, [appel[a] EXCEPT !.etape = "rendu", !.rendu = a])
  /\ UNCHANGED <<inner, session, file, canal, copie, copies_directes>>

\* The slot of the handle this id has now is looked at again.  Whoever filled
\* it first wins; without a handle nobody wants the channel.
Ranger(a) ==
  LET s == inner[appel[a].id] IN
  /\ appel[a].etape = "ranger"
  /\ IF s # Aucun /\ sftp[s] = Aucun
     THEN /\ sftp' = [sftp EXCEPT ![s] = a]
          /\ Suivre(a, [appel[a] EXCEPT !.etape = "rendu", !.rendu = a])
     ELSE /\ Suivre(a, [appel[a] EXCEPT !.etape = "fermer",
                                        !.rendu = IF s = Aucun THEN Aucun ELSE sftp[s]])
          /\ UNCHANGED sftp
  /\ UNCHANGED <<inner, session, file, canal, copie, copies_directes>>

\* The channel that is one too many is closed, then the call answers.
Fermer(a) ==
  /\ appel[a].etape = "fermer"
  /\ canal' = [canal EXCEPT ![a] = "ferme"]
  /\ Suivre(a, [appel[a] EXCEPT !.etape = IF appel[a].rendu = Aucun THEN "inconnue" ELSE "rendu"])
  /\ UNCHANGED <<inner, session, sftp, file, copie, copies_directes>>

-----------------------------------------------------------------------------
(* sftp_copier_vers, direct.                                               *)

\* The executor of the source is cloned.
Copier(c, id) ==
  /\ copie[c].etape = "libre"
  /\ inner[id] # Aucun
  /\ copie' = [copie EXCEPT ![c] = [etape |-> "inscrire", id |-> id, session |-> inner[id]]]
  /\ UNCHANGED <<inner, session, sftp, file, canal, appel, copies_directes>>

\* CopieDirecteEnCours::inscrire, then the executor asks for the session.
InscrireCopie(c) ==
  /\ copie[c].etape = "inscrire"
  /\ copies_directes' = [copies_directes EXCEPT ![copie[c].id] = @ + 1]
  /\ Demander(copie[c].session, c)
  /\ copie' = [copie EXCEPT ![c].etape = "attend"]
  /\ UNCHANGED <<inner, session, sftp, canal, appel>>

\* run_avec_agent is over: scp has ended, was cancelled or lost its session.
\* The session has been held all along.
FinirCopie(c) ==
  /\ copie[c].etape = "attend"
  /\ Tient(copie[c].session, c)
  /\ Rendre(copie[c].session)
  /\ copie' = [copie EXCEPT ![c].etape = "decompter"]
  /\ UNCHANGED <<inner, session, sftp, canal, appel, copies_directes>>

\* Slips: the count is taken back by the Drop and by hand; an error leaves
\* without the Drop.
Decompter_Deux(c) ==
  /\ copie[c].etape = "decompter"
  /\ copies_directes' = [copies_directes EXCEPT ![copie[c].id] = @ - 2]
  /\ copie' = [copie EXCEPT ![c].etape = "finie"]
  /\ UNCHANGED <<inner, session, sftp, file, canal, appel>>

Decompter_Oublie(c) ==
  /\ copie[c].etape = "decompter"
  /\ copies_directes' = IF session[copie[c].session].connectee
                        THEN [copies_directes EXCEPT ![copie[c].id] = @ - 1]
                        ELSE copies_directes
  /\ copie' = [copie EXCEPT ![c].etape = "finie"]
  /\ UNCHANGED <<inner, session, sftp, file, canal, appel>>

\* CopieDirecteEnCours::drop, whatever the outcome.
Decompter(c) ==
  /\ copie[c].etape = "decompter"
  /\ copies_directes' = [copies_directes EXCEPT ![copie[c].id] = @ - 1]
  /\ copie' = [copie EXCEPT ![c].etape = "finie"]
  /\ UNCHANGED <<inner, session, sftp, file, canal, appel>>

-----------------------------------------------------------------------------
Appel(a) ==
  \/ Compter(a) \/ SansSession(a) \/ Prendre(a)
  \/ Ouvrir(a) \/ Refuser(a) \/ Ranger(a) \/ Fermer(a)

Copie(c) == InscrireCopie(c) \/ FinirCopie(c) \/ Decompter(c)

Next ==
  \/ \E s \in Sessions, id \in Ids : Enregistrer(s, id)
  \/ \E id \in Ids : Retirer(id)
  \/ \E s \in Sessions : FinDuRelais(s) \/ Deconnecter(s) \/ Perdre(s)
  \/ \E a \in Appels, id \in Ids : Consulter(a, id)
  \/ \E a \in Appels : Appel(a)
  \/ \E c \in Copies, id \in Ids : Copier(c, id)
  \/ \E c \in Copies : Copie(c)

Spec == Init /\ [][Next]_vars

\* The runtime runs the calls it accepted, the lock serves in order, and a
\* command ends (scp is not interactive, and can be cancelled).
Fairness ==
  /\ \A a \in Appels : WF_vars(Appel(a))
  /\ \A c \in Copies : WF_vars(Copie(c))
  /\ \A s \in Sessions : WF_vars(Deconnecter(s))

FairSpec == Spec /\ Fairness

-----------------------------------------------------------------------------
(* Properties.                                                             *)

\* No channel is left open on the server with nobody to use it: an open
\* channel is in the slot of a session's handle or in the hands of the call
\* that opened it (the losing channel of two concurrent calls is closed).
CanauxTenus ==
  \A a \in Appels : canal[a] = "ouvert" =>
    \/ appel[a].etape \in {"ranger", "fermer"}
    \/ \E s \in Sessions : sftp[s] = a

\* Two calls never part with different channels of one handle: a filled slot
\* is not filled again.
RangementStable == [][\A s \in Sessions : sftp[s] # Aucun => sftp'[s] = sftp[s]]_vars

\* The count of direct copies of a tab is that of the copies under way: a
\* count left behind would refuse the panel for ever.
CompteExact ==
  \A id \in Ids :
    copies_directes[id] =
      Cardinality({c \in Copies : copie[c].id = id /\ copie[c].etape \in {"attend", "decompter"}})

\* A tab whose relay has ended is no longer listed, even while a copy keeps the
\* disconnection waiting (fermer_onglet_apres_pump).
FinieNonListee ==
  \A id \in Ids : inner[id] # Aucun => session[inner[id]] =
    [etat |-> "vivante", id |-> id, connectee |-> session[inner[id]].connectee]

\* The three together: no channel is lost, no count left behind, no ended tab
\* listed, whatever the calls, the copies and the ends of sessions cross.
CanalTenu == CanauxTenus /\ CompteExact /\ FinieNonListee

\* The channel of a handle was opened on the session of that handle.
CanalDeLaSession ==
  \A id \in Ids : inner[id] # Aucun /\ sftp[inner[id]] # Aucun =>
    appel[sftp[inner[id]]].session = inner[id]

\* Every call is answered, and a session whose relay has ended is
\* disconnected, whatever was in line before them.
AppelRepondu ==
  \A a \in Appels :
    (appel[a].etape = "compter") ~> (appel[a].etape \in {"rendu", "occupee", "inconnue", "echec"})

FinieDeconnectee ==
  \A s \in Sessions : (session[s].etat = "finissante") ~> (session[s].etat = "finie")
=============================================================================
