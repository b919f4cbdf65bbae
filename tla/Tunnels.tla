------------------------------ MODULE Tunnels ------------------------------
(***************************************************************************)
(* The SSH tunnels: the list of the front (web/tunnels.ts), the commands   *)
(* of the core (crates/avash-ui/src/commands/tunnels.rs) and the tunnel    *)
(* itself (crates/avash/src/tunnel.rs).                                    *)
(*                                                                         *)
(* A start is one click on « démarrer » or « relancer » with the calls of  *)
(* `tunnel_start` it leads to, a stop one click on « arrêter »,            *)
(* « annuler » or « supprimer ».  The three tables of TunnelStore are      *)
(* always taken under the lock of `inner`, so a section under that lock is *)
(* one step; connecting, closing and reading the keyring are not.          *)
(*                                                                         *)
(* The listening port of a definition is the resource two tunnels fight    *)
(* for: a second `Tunnel::open` of the same definition fails while the     *)
(* first one listens.  A tunnel is named by the start that opened it.      *)
(***************************************************************************)
EXTENDS Naturals, FiniteSets

CONSTANTS
  Ids,            \* saved definitions
  Departs,        \* starts that may be asked for (bounds the model)
  Arrets,         \* stops that may be asked for (bounds the model)
  MaxEssais,      \* how often a password is tried before giving up
  MaxRecharges,   \* how often the webview may be reloaded (bounds the model)
  Personne        \* no tunnel, no start

ASSUME TunnelsAssumption ==
  /\ Ids # {}
  /\ Personne \notin Departs
  /\ MaxEssais \in Nat \ {0}
  /\ MaxRecharges \in Nat

VARIABLES
  defs,        \* tunnels.yaml: the definitions saved
  inner,       \* TunnelStore.inner: the tunnel of each id
  en_cours,    \* TunnelStore.en_cours
  annules,     \* TunnelStore.annules
  tun,         \* the tunnel each start has opened
  dep,         \* each start: where it stands, its id, the tunnel it must close
  arr,         \* each stop: likewise
  busy,        \* tunnels.busy of the front: rows that show « annuler »
  ouvertures,  \* the token of the attempt each row waits for
  recharges,   \* reloads so far
  visees       \* history: for each stop that was noted, the starts in flight then

storeVars == <<defs, inner, en_cours, annules>>
frontVars == <<busy, ouvertures, recharges>>
vars == <<defs, inner, en_cours, annules, tun, dep, arr, busy, ouvertures,
          recharges, visees>>

-----------------------------------------------------------------------------
EtapesDepart ==
  {"libre",       \* not asked for
   "demande",     \* host_needs_password or the password dialog, row not busy yet
   "lecture",     \* tunnel_start called: reads the definitions and the keyring
   "lu",          \* both read; about to take the lock
   "remplace",    \* in `en_cours`; closes the tunnel it took out of the store
   "connexion",   \* connecting, then opening the listener
   "pose",        \* the tunnel is open and belongs to this call
   "evince",      \* closes the tunnel it displaced, or its own
   "revoir",      \* looks whether the store still has a tunnel
   "repondu",     \* answered; the front has not read the answer
   "ressaisie",   \* the front asks for the password again
   "fin"}

EtapesArret == {"libre", "confirme", "appele", "ferme", "retire", "repondu", "fin"}

Verdicts == {"aucun", "ok", "echec", "mdp", "arrete"}

\* `vif` listens over a living session, `muet` listens and its session is
\* lost, `mort` no longer listens and has not been closed.
EtatsTunnel == {"aucun", "vif", "muet", "mort", "ferme"}
Ouverts == {"vif", "muet", "mort"}
TientLePort == {"vif", "muet"}

\* Between the two sections of tunnel_start: what `en_cours` means to say.
EnVol == {"remplace", "connexion", "pose"}

DepartVide == [etape |-> "libre", id |-> CHOOSE id \in Ids : TRUE, tient |-> Personne,
               verdict |-> "aucun", essai |-> 0, page |-> 0]
ArretVide == [etape |-> "libre", id |-> CHOOSE id \in Ids : TRUE, tient |-> Personne,
              geste |-> "arreter", page |-> 0]

TypeOK ==
  /\ defs \in SUBSET Ids
  /\ inner \in [Ids -> Departs \cup {Personne}]
  /\ en_cours \in SUBSET Ids
  /\ annules \in SUBSET Ids
  /\ tun \in [Departs -> EtatsTunnel]
  /\ dep \in [Departs -> [etape : EtapesDepart, id : Ids, tient : Departs \cup {Personne},
                          verdict : Verdicts, essai : 0 .. MaxEssais - 1,
                          page : 0 .. MaxRecharges]]
  /\ arr \in [Arrets -> [etape : EtapesArret, id : Ids, tient : Departs \cup {Personne},
                         geste : {"arreter", "annuler", "supprimer"},
                         page : 0 .. MaxRecharges]]
  /\ busy \in SUBSET Ids
  /\ ouvertures \in [Ids -> Departs \cup {Personne}]
  /\ recharges \in 0 .. MaxRecharges
  /\ visees \in SUBSET SUBSET Departs

Init ==
  /\ defs = Ids
  /\ inner = [id \in Ids |-> Personne]
  /\ en_cours = {}
  /\ annules = {}
  /\ tun = [d \in Departs |-> "aucun"]
  /\ dep = [d \in Departs |-> DepartVide]
  /\ arr = [s \in Arrets |-> ArretVide]
  /\ busy = {}
  /\ ouvertures = [id \in Ids |-> Personne]
  /\ recharges = 0
  /\ visees = {}

Aller(d, etape) == dep' = [dep EXCEPT ![d].etape = etape]
Repondre(d, verdict) == dep' = [dep EXCEPT ![d].etape = "repondu", ![d].verdict = verdict]

IdDe(d) == dep[d].id

\* `abandonnee()`: another attempt has the row, or « annuler » took the token.
Abandonnee(d) == ouvertures[IdDe(d)] # d

\* The page that made this call is gone, nobody reads its answer.
Orphelin(x) == x.page # recharges

\* Tunnel::close, or nothing to close.
FermerTunnel(t) ==
  IF t = Personne THEN UNCHANGED tun ELSE tun' = [tun EXCEPT ![t] = "ferme"]

-----------------------------------------------------------------------------
(* The front: a row and its buttons.                                       *)

\* « Démarrer » or « relancer ».  The row is frozen only after
\* host_needs_password and the password dialog, so a second click passes.
Cliquer(d, id) ==
  /\ dep[d].etape = "libre"
  /\ id \notin busy
  /\ dep' = [dep EXCEPT ![d] = [DepartVide EXCEPT !.etape = "demande", !.id = id,
                                                  !.page = recharges]]
  /\ UNCHANGED <<storeVars, tun, arr, frontVars, visees>>

\* The password dialog is dismissed before anything was asked of the core.
Renoncer(d) ==
  /\ dep[d].etape = "demande"
  /\ Aller(d, "fin")
  /\ UNCHANGED <<storeVars, tun, arr, frontVars, visees>>

\* The row becomes busy, the attempt takes its token and tunnel_start is called.
Appeler(d) ==
  /\ dep[d].etape = "demande" /\ ~Orphelin(dep[d])
  /\ busy' = busy \cup {IdDe(d)}
  /\ ouvertures' = [ouvertures EXCEPT ![IdDe(d)] = d]
  /\ Aller(d, "lecture")
  /\ UNCHANGED <<storeVars, tun, arr, recharges, visees>>

\* `finally` of an attempt that still has its token.
LibererLigne(d) ==
  /\ busy' = busy \ {IdDe(d)}
  /\ ouvertures' = [ouvertures EXCEPT ![IdDe(d)] = Personne]

\* A slip: an abandoned attempt frees the row of the one that follows it.
RecevoirReponse_SansJeton(d) ==
  /\ dep[d].etape = "repondu" /\ ~Orphelin(dep[d])
  /\ IF dep[d].verdict = "mdp" /\ dep[d].essai < MaxEssais - 1 /\ ~Abandonnee(d)
       THEN Aller(d, "ressaisie") /\ UNCHANGED <<busy, ouvertures>>
       ELSE Aller(d, "fin") /\ LibererLigne(d)
  /\ UNCHANGED <<storeVars, tun, arr, recharges, visees>>

\* A slip: one try too many is asked for.
RecevoirReponse_UnDeTrop(d) ==
  /\ dep[d].etape = "repondu" /\ ~Orphelin(dep[d])
  /\ IF dep[d].verdict = "mdp" /\ ~Abandonnee(d)
       THEN Aller(d, "ressaisie") /\ UNCHANGED <<busy, ouvertures>>
       ELSE Aller(d, "fin") /\ IF Abandonnee(d) THEN UNCHANGED <<busy, ouvertures>>
                                               ELSE LibererLigne(d)
  /\ UNCHANGED <<storeVars, tun, arr, recharges, visees>>

\* A slip: the row is only given back after a success or a refused password.
RecevoirReponse_SansFinally(d) ==
  /\ dep[d].etape = "repondu" /\ ~Orphelin(dep[d])
  /\ IF dep[d].verdict = "mdp" /\ dep[d].essai < MaxEssais - 1 /\ ~Abandonnee(d)
       THEN Aller(d, "ressaisie") /\ UNCHANGED <<busy, ouvertures>>
       ELSE /\ Aller(d, "fin")
            /\ IF dep[d].verdict = "ok" /\ ~Abandonnee(d)
                 THEN LibererLigne(d) ELSE UNCHANGED <<busy, ouvertures>>
  /\ UNCHANGED <<storeVars, tun, arr, recharges, visees>>

\* The answer of tunnel_start.  An abandoned attempt says nothing and leaves
\* the row alone; a refused password is asked for again while a try is left.
RecevoirReponse(d) ==
  /\ dep[d].etape = "repondu" /\ ~Orphelin(dep[d])
  /\ \/ Abandonnee(d) /\ Aller(d, "fin") /\ UNCHANGED <<busy, ouvertures>>
     \/ /\ ~Abandonnee(d)
        /\ dep[d].verdict = "mdp" /\ dep[d].essai < MaxEssais - 1
        /\ Aller(d, "ressaisie")
        /\ UNCHANGED <<busy, ouvertures>>
     \/ /\ ~Abandonnee(d)
        /\ ~(dep[d].verdict = "mdp" /\ dep[d].essai < MaxEssais - 1)
        /\ Aller(d, "fin")
        /\ LibererLigne(d)
  /\ UNCHANGED <<storeVars, tun, arr, recharges, visees>>

\* The user types another password, or gives up; an attempt abandoned while
\* the dialog was open stops there.
Ressaisir(d) ==
  /\ dep[d].etape = "ressaisie" /\ ~Orphelin(dep[d])
  /\ \/ /\ ~Abandonnee(d)
        /\ dep' = [dep EXCEPT ![d].etape = "lecture", ![d].essai = @ + 1, ![d].verdict = "aucun"]
        /\ UNCHANGED <<busy, ouvertures>>
     \/ ~Abandonnee(d) /\ Aller(d, "fin") /\ LibererLigne(d)
     \/ Abandonnee(d) /\ Aller(d, "fin") /\ UNCHANGED <<busy, ouvertures>>
  /\ UNCHANGED <<storeVars, tun, arr, recharges, visees>>

\* « Arrêter » on a row that is not busy, « annuler » on one that is, or
\* « supprimer », frozen on a busy row, which first asks for a confirmation.
DemanderArret(s, id) ==
  /\ arr[s].etape = "libre"
  /\ \E geste \in {"arreter", "annuler", "supprimer"} :
       /\ (geste = "annuler") <=> (id \in busy)
       /\ arr' = [arr EXCEPT ![s] =
                   [ArretVide EXCEPT !.geste = geste, !.id = id, !.page = recharges,
                      !.etape = IF geste = "supprimer" THEN "confirme" ELSE "appele"]]
  /\ UNCHANGED <<storeVars, tun, dep, frontVars, visees>>

\* The confirmation of a deletion: the row is not looked at again.
Confirmer(s) ==
  /\ arr[s].etape = "confirme" /\ ~Orphelin(arr[s])
  /\ \E etape \in {"appele", "fin"} : arr' = [arr EXCEPT ![s].etape = etape]
  /\ UNCHANGED <<storeVars, tun, dep, frontVars, visees>>

\* The answer of tunnel_stop: « annuler » takes the token and frees the row.
RecevoirArret(s) ==
  /\ arr[s].etape = "repondu" /\ ~Orphelin(arr[s])
  /\ arr' = [arr EXCEPT ![s].etape = "fin"]
  /\ IF arr[s].geste = "annuler"
       THEN /\ busy' = busy \ {arr[s].id}
            /\ ouvertures' = [ouvertures EXCEPT ![arr[s].id] = Personne]
       ELSE UNCHANGED <<busy, ouvertures>>
  /\ UNCHANGED <<storeVars, tun, dep, recharges, visees>>

\* The webview is reloaded: the front forgets, the calls go on in the core.
Recharger ==
  /\ recharges < MaxRecharges
  /\ recharges' = recharges + 1
  /\ busy' = {}
  /\ ouvertures' = [id \in Ids |-> Personne]
  /\ UNCHANGED <<storeVars, tun, dep, arr, visees>>

-----------------------------------------------------------------------------
(* tunnel_start.                                                           *)

\* The definition is looked up on the disk; unknown, or the keyring or the
\* host refuses: the call ends before it touched the store.
Lire(d) ==
  /\ dep[d].etape = "lecture"
  /\ \/ IdDe(d) \in defs /\ Aller(d, "lu")
     \/ Repondre(d, "echec")
  /\ UNCHANGED <<storeVars, tun, arr, frontVars, visees>>

\* First section: the call announces itself, a stop noted for an earlier call
\* is forgotten and the tunnel to replace leaves the store.
Inscrire(d) ==
  /\ dep[d].etape = "lu"
  /\ en_cours' = en_cours \cup {IdDe(d)}
  /\ annules' = annules \ {IdDe(d)}
  /\ inner' = [inner EXCEPT ![IdDe(d)] = Personne]
  /\ dep' = [dep EXCEPT ![d].etape = "remplace", ![d].tient = inner[IdDe(d)]]
  /\ visees' = {lot \in visees : \A e \in lot : IdDe(e) # IdDe(d)}
  /\ UNCHANGED <<defs, tun, arr, frontVars>>

FermerPrecedent(d) ==
  /\ dep[d].etape = "remplace"
  /\ FermerTunnel(dep[d].tient)
  /\ dep' = [dep EXCEPT ![d].etape = "connexion", ![d].tient = Personne]
  /\ UNCHANGED <<storeVars, arr, frontVars, visees>>

\* Another tunnel of this definition listens on its port.
PortPris(id) == \E d \in Departs : IdDe(d) = id /\ tun[d] \in TientLePort

\* connect_via or Tunnel::open fails: `?` leaves with `en_cours` as it is.
EchecOuverture(d) ==
  /\ dep[d].etape = "connexion"
  /\ \E verdict \in {"echec", "mdp"} : Repondre(d, verdict)
  /\ UNCHANGED <<storeVars, tun, arr, frontVars, visees>>

Ouvrir(d) ==
  /\ dep[d].etape = "connexion"
  /\ ~PortPris(IdDe(d))
  /\ tun' = [tun EXCEPT ![d] = "vif"]
  /\ Aller(d, "pose")
  /\ UNCHANGED <<storeVars, arr, frontVars, visees>>

\* A slip: the tunnel that was there is overwritten and dropped unclosed.
Poser_Ecrase(d) ==
  /\ dep[d].etape = "pose"
  /\ en_cours' = en_cours \ {IdDe(d)}
  /\ annules' = annules \ {IdDe(d)}
  /\ IF IdDe(d) \in annules
       THEN /\ dep' = [dep EXCEPT ![d].etape = "evince", ![d].tient = d]
            /\ UNCHANGED inner
       ELSE inner' = [inner EXCEPT ![IdDe(d)] = d] /\ Repondre(d, "ok")
  /\ UNCHANGED <<defs, tun, arr, frontVars, visees>>

\* A slip: the note of a stop is not looked at.
Poser_SansNote(d) ==
  /\ dep[d].etape = "pose"
  /\ en_cours' = en_cours \ {IdDe(d)}
  /\ inner' = [inner EXCEPT ![IdDe(d)] = d]
  /\ IF inner[IdDe(d)] = Personne
       THEN Repondre(d, "ok")
       ELSE dep' = [dep EXCEPT ![d].etape = "evince", ![d].tient = inner[IdDe(d)]]
  /\ UNCHANGED <<defs, annules, tun, arr, frontVars, visees>>

\* Second section: a stop noted meanwhile is consumed and the new tunnel is
\* closed instead of being installed; a tunnel displaced is closed too.
Poser(d) ==
  /\ dep[d].etape = "pose"
  /\ en_cours' = en_cours \ {IdDe(d)}
  /\ annules' = annules \ {IdDe(d)}
  /\ \/ /\ IdDe(d) \in annules
        /\ dep' = [dep EXCEPT ![d].etape = "evince", ![d].tient = d]
        /\ UNCHANGED inner
     \/ /\ IdDe(d) \notin annules
        /\ inner' = [inner EXCEPT ![IdDe(d)] = d]
        /\ IF inner[IdDe(d)] = Personne
             THEN Repondre(d, "ok")
             ELSE dep' = [dep EXCEPT ![d].etape = "evince", ![d].tient = inner[IdDe(d)]]
  /\ UNCHANGED <<defs, tun, arr, frontVars, visees>>

FermerEvince(d) ==
  /\ dep[d].etape = "evince"
  /\ FermerTunnel(dep[d].tient)
  /\ dep' = [dep EXCEPT ![d].etape = "revoir", ![d].tient = Personne]
  /\ UNCHANGED <<storeVars, arr, frontVars, visees>>

\* Nothing in the store any more: « Tunnel arrêté pendant l'ouverture. »
Revoir(d) ==
  /\ dep[d].etape = "revoir"
  /\ Repondre(d, IF inner[IdDe(d)] = Personne THEN "arrete" ELSE "ok")
  /\ UNCHANGED <<storeVars, tun, arr, frontVars, visees>>

-----------------------------------------------------------------------------
(* tunnel_stop and tunnel_def_delete.                                      *)

\* The starts of `id` that are between their two sections.
EnVolDe(id) == {d \in Departs : IdDe(d) = id /\ dep[d].etape \in EnVol}

\* A slip: the tunnel to close is looked up and stays in the store.
Executer_Laisse(s) ==
  /\ arr[s].etape = "appele"
  /\ arr' = [arr EXCEPT ![s].etape = "ferme", ![s].tient = inner[arr[s].id]]
  /\ UNCHANGED <<storeVars, tun, dep, frontVars, visees>>

\* The tunnel leaves the store; tunnel_stop that finds none notes the stop if
\* a start is in flight, tunnel_def_delete does not.
Executer(s) ==
  LET id == arr[s].id
      note == arr[s].geste # "supprimer" /\ inner[id] = Personne /\ id \in en_cours
  IN /\ arr[s].etape = "appele"
     /\ inner' = [inner EXCEPT ![id] = Personne]
     /\ arr' = [arr EXCEPT ![s].etape = "ferme", ![s].tient = inner[id]]
     /\ annules' = IF note THEN annules \cup {id} ELSE annules
     /\ visees' = IF note THEN visees \cup {EnVolDe(id)} ELSE visees
     /\ UNCHANGED <<defs, en_cours, tun, dep, frontVars>>

Fermer(s) ==
  /\ arr[s].etape = "ferme"
  /\ FermerTunnel(arr[s].tient)
  /\ arr' = [arr EXCEPT ![s].tient = Personne,
               ![s].etape = IF arr[s].geste = "supprimer" THEN "retire" ELSE "repondu"]
  /\ UNCHANGED <<storeVars, dep, frontVars, visees>>

\* remove_def_in.
RetirerDefinition(s) ==
  /\ arr[s].etape = "retire"
  /\ defs' = defs \ {arr[s].id}
  /\ arr' = [arr EXCEPT ![s].etape = "repondu"]
  /\ UNCHANGED <<inner, en_cours, annules, tun, dep, frontVars, visees>>

\* The session of a tunnel is lost, or its listener breaks.
Perdre(d) ==
  /\ tun[d] = "vif"
  /\ \E etat \in {"muet", "mort"} : tun' = [tun EXCEPT ![d] = etat]
  /\ UNCHANGED <<storeVars, dep, arr, frontVars, visees>>

-----------------------------------------------------------------------------
Coeur(d) ==
  \/ Lire(d) \/ Inscrire(d) \/ FermerPrecedent(d) \/ EchecOuverture(d) \/ Ouvrir(d)
  \/ Poser(d) \/ FermerEvince(d) \/ Revoir(d)

CoeurArret(s) == Executer(s) \/ Fermer(s) \/ RetirerDefinition(s)

Next ==
  \/ \E d \in Departs :
       \/ \E id \in Ids : Cliquer(d, id)
       \/ Renoncer(d) \/ Appeler(d) \/ RecevoirReponse(d) \/ Ressaisir(d)
       \/ Coeur(d) \/ Perdre(d)
  \/ \E s \in Arrets :
       \/ \E id \in Ids : DemanderArret(s, id)
       \/ Confirmer(s) \/ RecevoirArret(s) \/ CoeurArret(s)
  \/ Recharger

Spec == Init /\ [][Next]_vars

\* The runtime runs every command it was given (a connection that does not
\* come is cut by its delay) and the page reads the answers it gets; the user
\* owes nothing, and may leave a password dialog open for ever.
Fairness ==
  /\ \A d \in Departs : WF_vars(Coeur(d)) /\ WF_vars(RecevoirReponse(d))
  /\ \A s \in Arrets : WF_vars(CoeurArret(s)) /\ WF_vars(RecevoirArret(s))

FairSpec == Spec /\ Fairness

-----------------------------------------------------------------------------
(* Safety.                                                                 *)

\* Who answers for the tunnel that start `t` opened: the store, the call that
\* opened it and has not installed it, a call that must close it.
Tenants(t) ==
  {<<"magasin", id>> : id \in {i \in Ids : inner[i] = t}}
  \cup {<<"ouvre", d>> : d \in {e \in Departs : e = t /\ dep[e].etape = "pose"}}
  \cup {<<"depart", d>> : d \in {e \in Departs : dep[e].tient = t}}
  \cup {<<"arret", s>> : s \in {a \in Arrets : arr[a].tient = t}}

\* A tunnel that has not been closed is in the store, or in the hands of
\* exactly one call that will install or close it: none survives unseen
\* (« sa socket d'écoute et sa tâche survivaient, invisibles de l'interface »,
\* TunnelStore), and none is closed twice.
PasDeFuite ==
  \A d \in Departs : tun[d] \in Ouverts => Cardinality(Tenants(d)) = 1

\* The store lists no tunnel that was closed, and under its own id only.
MagasinVrai ==
  \A id \in Ids : inner[id] # Personne =>
    tun[inner[id]] \in Ouverts /\ IdDe(inner[id]) = id

\* A start that a stop found alone in flight is not installed, unless the
\* user asked for the tunnel again (tunnel_stop notes, tunnel_start obeys).
ArretVu == \A d \in Departs : {d} \in visees => inner[IdDe(d)] # d

\* The same of every start in flight: « au lieu d'installer un tunnel que
\* l'utilisateur vient d'arrêter » (tunnel_stop).  Two starts in flight share
\* one note, which the first to arrive consumes.
ArretNote == \A lot \in visees : \A d \in lot : inner[IdDe(d)] # d

\* An attempt only loses its row to its own end, to a newer attempt, to
\* « annuler » or to a reload: the end of an abandoned attempt does not free
\* the row of the one that followed it.
JetonTenu ==
  [][\A id \in Ids : LET d == ouvertures[id] IN
       d # Personne /\ ouvertures'[id] # d =>
         \/ dep[d].etape # "fin" /\ dep'[d].etape = "fin"
         \/ ouvertures'[id] \in Departs /\ dep[ouvertures'[id]].etape = "demande"
         \/ \E s \in Arrets : /\ arr[s].geste = "annuler" /\ arr[s].id = id
                             /\ arr[s].etape = "repondu" /\ arr'[s].etape = "fin"
         \/ recharges' # recharges]_vars

(* Liveness.                                                               *)

\* Every busy row is given back, unless the user leaves a password dialog
\* open: every call of tunnel_start is answered and its answer read.
LigneRendue ==
  \A id \in Ids : (id \in busy) ~>
    (id \notin busy \/ dep[ouvertures[id]].etape = "ressaisie")
=============================================================================
