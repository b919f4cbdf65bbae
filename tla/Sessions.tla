------------------------------ MODULE Sessions ------------------------------
(***************************************************************************)
(* The life of a terminal tab, from the front (web/main.ts) to the session *)
(* store of the core (crates/avash-ui/src/commands/sessions.rs).           *)
(*                                                                         *)
(* An opening is one call of `pty_open` (or `pty_open_manual`,             *)
(* `serie_open`), a closing one call of `pty_close`: both are asynchronous *)
(* commands that run on the threads of the runtime, so their steps         *)
(* interleave.  A step here is what happens between two acquisitions of a  *)
(* lock.  The lock of `inner` is explicit (`verrou`) because other steps   *)
(* run while it is held: those that take only `en_cours` or `annules`.     *)
(*                                                                         *)
(* SESSION_EPOCH numbers the registered sessions; the number is only ever  *)
(* compared for equality and two openings never share one, so the opening  *)
(* itself stands for its epoch.                                            *)
(***************************************************************************)
EXTENDS Naturals, FiniteSets

CONSTANTS
  Ids,            \* numbers of tabs; the front gives them out again after a reload
  Ouvertures,     \* calls of pty_open that may be made (bounds the model)
  Fermetures,     \* calls of pty_close that may be made (bounds the model)
  MaxRecharges,   \* how often the webview may be reloaded (bounds the model)
  Personne        \* nobody: no tab, no handle, a free lock

ASSUME SessionsAssumption ==
  /\ Ouvertures \cap Fermetures = {}
  /\ Personne \notin Ouvertures \cup Fermetures
  /\ MaxRecharges \in Nat

VARIABLES
  inner,      \* SessionStore.inner: the handle of each id, named by its opening
  annules,    \* SessionStore.annules: ids closed before they were registered
  en_cours,   \* SessionStore.en_cours: ids whose session is being established
  verrou,     \* who holds the lock of `inner`
  ouv,        \* each opening: where it stands, the id it works for, and the
              \* loading of the page that called it, which alone reads its answer
  ferm,       \* each closing: where it stands and the id it closes
  reponses,   \* openings that have ended and whose answer the front has not read
  evts,       \* openings whose `pty-closed` event the front has not read
  onglet,     \* the tabs of the page: the opening each one waits for or shows
  servis,     \* ids given out since the page was loaded (nextId)
  recharges,  \* reloads so far
  visees      \* history: openings that a pty_close found in `en_cours`

storeVars == <<inner, annules, en_cours, verrou>>
frontVars == <<onglet, servis, recharges>>
vars == <<inner, annules, en_cours, verrou, ouv, ferm, reponses, evts,
          onglet, servis, recharges, visees>>

-----------------------------------------------------------------------------
EtapesOuverture ==
  {"libre",        \* not called yet
   "appelee",      \* called; the keyring is being read, `en_cours` says nothing
   "etablir",      \* in `en_cours`; connecting, authenticating, opening the pty
   "etablie",      \* connected; about to take the lock of `inner`
   "sous_verrou",  \* holds `inner`, has left `en_cours`
   "vivante",      \* registered; its relay runs
   "finie",        \* its relay has ended
   "echec",        \* answered with an error
   "annulee"}      \* answered with CONNEXION_ANNULEE

EtapesFermeture == {"libre", "appelee", "sous_verrou", "finie"}

\* The loadings of the page.
Pages == 0 .. MaxRecharges

EtatsOnglet == {"connecting", "live", "closed"}

\* The id of such an opening is in `en_cours`.
Inscrites == {"etablir", "etablie"}

EnVol == {"appelee", "sous_verrou"} \cup Inscrites

SansOnglet == [o |-> Personne, etat |-> "closed", closed |-> FALSE]

IdDe(o) == ouv[o].id

TypeOK ==
  /\ inner \in [Ids -> Ouvertures \cup {Personne}]
  /\ annules \in SUBSET Ids
  /\ en_cours \in SUBSET Ids
  /\ verrou \in Ouvertures \cup Fermetures \cup {Personne}
  /\ ouv \in [Ouvertures -> [etape : EtapesOuverture, id : Ids, page : Pages]]
  /\ ferm \in [Fermetures -> [etape : EtapesFermeture, id : Ids]]
  /\ reponses \in SUBSET Ouvertures
  /\ evts \in SUBSET Ouvertures
  /\ onglet \in [Ids -> [o : Ouvertures \cup {Personne},
                         etat : EtatsOnglet, closed : BOOLEAN]]
  /\ servis \in SUBSET Ids
  /\ recharges \in Pages
  /\ visees \in SUBSET Ouvertures

Init ==
  /\ inner = [id \in Ids |-> Personne]
  /\ annules = {}
  /\ en_cours = {}
  /\ verrou = Personne
  /\ \E id \in Ids :
       /\ ouv = [o \in Ouvertures |-> [etape |-> "libre", id |-> id, page |-> 0]]
       /\ ferm = [f \in Fermetures |-> [etape |-> "libre", id |-> id]]
  /\ reponses = {}
  /\ evts = {}
  /\ onglet = [id \in Ids |-> SansOnglet]
  /\ servis = {}
  /\ recharges = 0
  /\ visees = {}

Aller(o, etape) == ouv' = [ouv EXCEPT ![o].etape = etape]

\* The answer of a call: its promise died with the page that made it.
TenirPromesse(o) ==
  reponses' = IF ouv[o].page = recharges THEN reponses \cup {o} ELSE reponses

-----------------------------------------------------------------------------
(* The front.                                                              *)

\* A slip: the flag of the previous end is kept.
Appeler_ClosGarde(o, id) ==
  /\ ouv[o].etape = "libre"
  /\ ouv' = [ouv EXCEPT ![o] = [etape |-> "appelee", id |-> id, page |-> recharges]]
  /\ onglet' = [onglet EXCEPT ![id].o = o, ![id].etat = "connecting"]
  /\ UNCHANGED <<storeVars, ferm, reponses, evts, recharges, visees>>

\* The tab `id` calls pty_open and shows "connecting".
Appeler(o, id) ==
  /\ ouv[o].etape = "libre"
  /\ ouv' = [ouv EXCEPT ![o] = [etape |-> "appelee", id |-> id, page |-> recharges]]
  /\ onglet' = [onglet EXCEPT ![id] = [o |-> o, etat |-> "connecting", closed |-> FALSE]]
  /\ UNCHANGED <<storeVars, ferm, reponses, evts, recharges, visees>>

\* newSessionShell takes the next number and the first connection starts.
NouvelOnglet(o, id) ==
  /\ id \notin servis
  /\ servis' = servis \cup {id}
  /\ Appeler(o, id)

\* Enter in a tab marked closed, or a password typed again after a refusal:
\* the same id is used again.
Reconnecter(o, id) ==
  /\ onglet[id].o # Personne
  /\ onglet[id].closed
  /\ UNCHANGED servis
  /\ Appeler(o, id)

\* closeSession: the tab goes at once, pty_close is called and not awaited.
FermerOnglet(f, id) ==
  /\ ferm[f].etape = "libre"
  /\ onglet[id].o # Personne
  /\ ferm' = [ferm EXCEPT ![f] = [etape |-> "appelee", id |-> id]]
  /\ onglet' = [onglet EXCEPT ![id] = SansOnglet]
  /\ UNCHANGED <<storeVars, ouv, reponses, evts, servis, recharges, visees>>

\* The webview is reloaded: the tabs and nextId are forgotten, the answers to
\* the calls of the old page are lost, and the core keeps everything.
Recharger ==
  /\ recharges < MaxRecharges
  /\ recharges' = recharges + 1
  /\ onglet' = [id \in Ids |-> SansOnglet]
  /\ servis' = {}
  /\ evts' = {}
  /\ reponses' = {}
  /\ UNCHANGED <<storeVars, ouv, ferm, visees>>

\* The promise of pty_open settles.  Ok: the tab of that number is shown live,
\* whichever opening it waits for by now.  An annulment is silent.  Any other
\* error marks the tab closed.  A tab that has gone reads nothing.
RecevoirReponse(o) ==
  /\ o \in reponses
  /\ reponses' = reponses \ {o}
  /\ LET id == IdDe(o) IN
       IF onglet[id].o = Personne \/ ouv[o].etape = "annulee"
       THEN UNCHANGED onglet
       ELSE IF ouv[o].etape = "echec"
            THEN onglet' = [onglet EXCEPT ![id].etat = "closed", ![id].closed = TRUE]
            ELSE onglet' = [onglet EXCEPT ![id].etat = "live"]
  /\ UNCHANGED <<storeVars, ouv, ferm, evts, servis, recharges, visees>>

\* The listener of `pty-closed`.  The event carries the id and nothing else.
RecevoirFin(o) ==
  /\ o \in evts
  /\ evts' = evts \ {o}
  /\ LET id == IdDe(o) IN
       onglet' = IF onglet[id].o # Personne /\ ~onglet[id].closed
                 THEN [onglet EXCEPT ![id].etat = "closed", ![id].closed = TRUE]
                 ELSE onglet
  /\ UNCHANGED <<storeVars, ouv, ferm, reponses, servis, recharges, visees>>

-----------------------------------------------------------------------------
(* pty_open and open_on_target.                                            *)

\* The host is unknown: the error leaves before `en_cours` is touched.
EchecTrousseau(o) ==
  /\ ouv[o].etape = "appelee"
  /\ Aller(o, "echec")
  /\ TenirPromesse(o)
  /\ UNCHANGED <<storeVars, ferm, evts, frontVars, visees>>

\* A slip: the set of ids receives the number of the session.
Inscrire_Epoque(o) ==
  /\ ouv[o].etape = "appelee"
  /\ en_cours' = en_cours \cup {o}
  /\ Aller(o, "etablir")
  /\ UNCHANGED <<inner, annules, verrou, ferm, reponses, evts, frontVars, visees>>

Inscrire(o) ==
  /\ ouv[o].etape = "appelee"
  /\ en_cours' = en_cours \cup {IdDe(o)}
  /\ Aller(o, "etablir")
  /\ UNCHANGED <<inner, annules, verrou, ferm, reponses, evts, frontVars, visees>>

\* `etablir` fails: `en_cours`, then `annules` under the guard of `en_cours`.
\* The lock of `inner` is not taken.
EchecEtablir(o) ==
  /\ ouv[o].etape = "etablir"
  /\ en_cours' = en_cours \ {IdDe(o)}
  /\ annules' = annules \ {IdDe(o)}
  /\ Aller(o, "echec")
  /\ TenirPromesse(o)
  /\ UNCHANGED <<inner, verrou, ferm, evts, frontVars, visees>>

\* `etablir` succeeds: the channels are there and the epoch is drawn.
Etablir(o) ==
  /\ ouv[o].etape = "etablir"
  /\ Aller(o, "etablie")
  /\ UNCHANGED <<storeVars, ferm, reponses, evts, frontVars, visees>>

\* enregistrer_session: the lock of `inner`, then out of `en_cours`.
EntrerEnregistrer(o) ==
  /\ ouv[o].etape = "etablie"
  /\ verrou = Personne
  /\ verrou' = o
  /\ en_cours' = en_cours \ {IdDe(o)}
  /\ Aller(o, "sous_verrou")
  /\ UNCHANGED <<inner, annules, ferm, reponses, evts, frontVars, visees>>

\* The annulment is consumed, the session just established is let go.
Annuler(o) ==
  /\ ouv[o].etape = "sous_verrou"
  /\ IdDe(o) \in annules
  /\ annules' = annules \ {IdDe(o)}
  /\ verrou' = Personne
  /\ Aller(o, "annulee")
  /\ TenirPromesse(o)
  /\ UNCHANGED <<inner, en_cours, ferm, evts, frontVars, visees>>

\* A slip: the handle goes in whatever `annules` says.
Enregistrer_SansTest(o) ==
  /\ ouv[o].etape = "sous_verrou"
  /\ inner' = [inner EXCEPT ![IdDe(o)] = o]
  /\ verrou' = Personne
  /\ Aller(o, "vivante")
  /\ TenirPromesse(o)
  /\ UNCHANGED <<annules, en_cours, ferm, evts, frontVars, visees>>

\* The handle goes in, the one it replaces is dropped; the relay is started.
Enregistrer(o) ==
  /\ ouv[o].etape = "sous_verrou"
  /\ IdDe(o) \notin annules
  /\ inner' = [inner EXCEPT ![IdDe(o)] = o]
  /\ verrou' = Personne
  /\ Aller(o, "vivante")
  /\ TenirPromesse(o)
  /\ UNCHANGED <<annules, en_cours, ferm, evts, frontVars, visees>>

\* Slips: the relay that panics removes nothing; the handle goes without an
\* event; the epoch is not compared; an outdated epoch keeps the relay running.
Clore_SansRetrait(o) ==
  /\ ouv[o].etape = "vivante"
  /\ verrou = Personne
  /\ Aller(o, "finie")
  /\ UNCHANGED <<storeVars, ferm, reponses, evts, frontVars, visees>>

Clore_Muet(o) ==
  /\ ouv[o].etape = "vivante"
  /\ verrou = Personne
  /\ Aller(o, "finie")
  /\ inner' = [inner EXCEPT ![IdDe(o)] = IF @ = o THEN Personne ELSE @]
  /\ UNCHANGED <<annules, en_cours, verrou, ferm, reponses, evts, frontVars, visees>>

Clore_SansEpoque(o) ==
  /\ ouv[o].etape = "vivante"
  /\ verrou = Personne
  /\ Aller(o, "finie")
  /\ inner' = [inner EXCEPT ![IdDe(o)] = Personne]
  /\ evts' = evts \cup {o}
  /\ UNCHANGED <<annules, en_cours, verrou, ferm, reponses, frontVars, visees>>

Clore_SiCourante(o) ==
  /\ ouv[o].etape = "vivante"
  /\ verrou = Personne
  /\ inner[IdDe(o)] = o
  /\ Aller(o, "finie")
  /\ inner' = [inner EXCEPT ![IdDe(o)] = Personne]
  /\ evts' = evts \cup {o}
  /\ UNCHANGED <<annules, en_cours, verrou, ferm, reponses, frontVars, visees>>

\* The relay ends: the far side has closed, the relay has panicked, or the
\* handle was dropped.  clore_session removes the handle only if it is still
\* this session's, and emits `pty-closed` only if it removed something.
Clore(o) ==
  /\ ouv[o].etape = "vivante"
  /\ verrou = Personne
  /\ Aller(o, "finie")
  /\ IF inner[IdDe(o)] = o
     THEN /\ inner' = [inner EXCEPT ![IdDe(o)] = Personne]
          /\ evts' = evts \cup {o}
     ELSE UNCHANGED <<inner, evts>>
  /\ UNCHANGED <<annules, en_cours, verrou, ferm, reponses, frontVars, visees>>

-----------------------------------------------------------------------------
(* pty_close.                                                              *)

\* Under the lock of `inner`: the handle is removed.  Without a handle, an id
\* in `en_cours` is to be annulled; `annules` has its own lock, taken after
\* the one of `en_cours` is released.
Fermer(f) ==
  LET id == ferm[f].id IN
  /\ ferm[f].etape = "appelee"
  /\ verrou = Personne
  /\ inner' = [inner EXCEPT ![id] = Personne]
  /\ IF inner[id] = Personne /\ id \in en_cours
     THEN /\ verrou' = f
          /\ ferm' = [ferm EXCEPT ![f].etape = "sous_verrou"]
          /\ visees' = visees \cup {o \in Ouvertures : ouv[o].etape \in Inscrites /\ ouv[o].id = id}
     ELSE /\ ferm' = [ferm EXCEPT ![f].etape = "finie"]
          /\ UNCHANGED <<verrou, visees>>
  /\ UNCHANGED <<annules, en_cours, ouv, reponses, evts, frontVars>>

\* A slip: the guard of `inner` outlives the note.
NoterAnnulation_VerrouGarde(f) ==
  /\ ferm[f].etape = "sous_verrou"
  /\ annules' = annules \cup {ferm[f].id}
  /\ ferm' = [ferm EXCEPT ![f].etape = "finie"]
  /\ UNCHANGED <<inner, en_cours, verrou, ouv, reponses, evts, frontVars, visees>>

NoterAnnulation(f) ==
  /\ ferm[f].etape = "sous_verrou"
  /\ annules' = annules \cup {ferm[f].id}
  /\ verrou' = Personne
  /\ ferm' = [ferm EXCEPT ![f].etape = "finie"]
  /\ UNCHANGED <<inner, en_cours, ouv, reponses, evts, frontVars, visees>>

\* The end of a relay whose handle has been dropped.
CloreLachee(o) == inner[IdDe(o)] # o /\ Clore(o)

-----------------------------------------------------------------------------
Ouverture(o) ==
  \/ EchecTrousseau(o)
  \/ Inscrire(o)
  \/ EchecEtablir(o)
  \/ Etablir(o)
  \/ EntrerEnregistrer(o)
  \/ Annuler(o)
  \/ Enregistrer(o)

Fermeture(f) == Fermer(f) \/ NoterAnnulation(f)

Next ==
  \/ \E o \in Ouvertures, id \in Ids : NouvelOnglet(o, id) \/ Reconnecter(o, id)
  \/ \E f \in Fermetures, id \in Ids : FermerOnglet(f, id)
  \/ Recharger
  \/ \E o \in Ouvertures : RecevoirReponse(o) \/ RecevoirFin(o)
  \/ \E o \in Ouvertures : Ouverture(o) \/ Clore(o)
  \/ \E f \in Fermetures : Fermeture(f)

Spec == Init /\ [][Next]_vars

\* The runtime runs every call it has accepted, a connection ends (it has time
\* limits), and a relay whose handle was dropped sees its channel closed.  A
\* session whose handle is kept may live for ever; the user owes nothing.
Fairness ==
  /\ \A o \in Ouvertures : /\ WF_vars(Ouverture(o))
                           /\ WF_vars(CloreLachee(o))
                           /\ WF_vars(RecevoirReponse(o))
                           /\ WF_vars(RecevoirFin(o))
  /\ \A f \in Fermetures : WF_vars(Fermeture(f))

FairSpec == Spec /\ Fairness

-----------------------------------------------------------------------------
(* Safety.                                                                 *)

\* A handle of the store is that of a registered session of this id whose
\* relay has not ended: nothing the store lists is dead or misfiled.  (An
\* evicted or closed session may outlive its handle for the time its relay
\* takes to see its channels closed.)
HandleVivant ==
  \A id \in Ids : inner[id] # Personne =>
    /\ inner[id] \in Ouvertures
    /\ ouv[inner[id]].etape = "vivante"
    /\ ouv[inner[id]].id = id

\* Until the page is reloaded, an opening that pty_close found being established
\* is never registered: it fails or is annulled (SessionStore.annules,
\* enregistrer_session).
FermeeJamaisEnregistree ==
  recharges = 0 => \A o \in visees : ouv[o].etape \notin {"vivante", "finie"}

\* A tab closed by its user leaves no session behind it: what the store holds
\* belongs to an open tab or a pty_close is on its way.
FermeeSansSuite ==
  \A id \in Ids : inner[id] # Personne =>
    \/ onglet[id].o = inner[id]
    \/ \E f \in Fermetures : ferm[f].id = id /\ ferm[f].etape \in {"appelee", "sous_verrou"}

\* `annules` only names ids whose opening is still in flight: an annulment that
\* stays behind would strike the next tab with that number.
AnnulationAttendue ==
  \A id \in annules : \E o \in Ouvertures : ouv[o].id = id /\ ouv[o].etape \in EnVol

\* A tab shown live and taking keystrokes has its session in the store, or the
\* page still has something of the tab's own opening to read: the event of its
\* end, or its answer.  The answer of an earlier opening, read late, may show the
\* tab live while it reconnects, and no longer than that.
LiveAUneSession ==
  \A id \in Ids : LET o == onglet[id].o IN
    onglet[id].etat = "live" /\ ~onglet[id].closed =>
      \/ inner[id] = o
      \/ o \in evts \cup reponses
      \/ ouv[o].etape \in EnVol

\* A tab marked closed, which ignores the keyboard, has no living session.
ClosNAPlusDeSession ==
  \A id \in Ids : onglet[id].o # Personne /\ onglet[id].closed => inner[id] # onglet[id].o

\* Until the page is reloaded, what a tab shows is the truth about its session:
\* the end of a session, the answer of the call that opened it and the
\* reconnections of the tab travel apart, and the tab never ends up live without
\* a session and taking keystrokes, nor deaf with one.
OngletVrai == recharges = 0 => LiveAUneSession /\ ClosNAPlusDeSession

\* A handle leaves the store for a reason of its own: its relay has ended, a
\* newer session of this id takes the place, or pty_close is called for the
\* id.  The end of an older relay never removes it (the epoch of
\* clore_session).
RetraitLegitime ==
  [][\A id \in Ids : inner[id] # Personne /\ inner'[id] # inner[id] =>
       \/ ouv'[inner[id]].etape = "finie"
       \/ inner'[id] # Personne
       \/ \E f \in Fermetures : /\ ferm[f] = [etape |-> "appelee", id |-> id]
                                /\ ferm'[f].etape = "finie"]_vars

(* Liveness.                                                               *)

\* Every call of pty_open is answered: nobody keeps the lock of the store.
OuvertureRepondue ==
  \A o \in Ouvertures : (ouv[o].etape = "appelee") ~> (ouv[o].etape \notin EnVol)

\* A session whose handle was dropped (evicted by a newer one under the same
\* id, or closed) ends.
EvinceeSEteint ==
  \A o \in Ouvertures :
    (ouv[o].etape = "vivante" /\ inner[IdDe(o)] # o) ~> (ouv[o].etape = "finie")
=============================================================================
