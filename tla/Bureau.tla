------------------------------- MODULE Bureau -------------------------------
(***************************************************************************)
(* A remote desktop seen from the application: the tab of the page         *)
(* (web/rdp.ts), the command that launches the desktop process and the     *)
(* tables it keeps (crates/avash-ui/src/rdp.rs), and as much of the        *)
(* process as its parent can tell.                                         *)
(*                                                                         *)
(* An opening is one call of `rdp_open`; the process and the standard      *)
(* input it creates bear its name.  The page numbers its tabs from one     *)
(* again after a reload, so two openings may share an id.  The commands of *)
(* the page start one by one in the order it sent them (`appels`):         *)
(* rdp_close and rdp_diagnostic run to their end there, rdp_open becomes a *)
(* task of its own that gives way at each await.                           *)
(***************************************************************************)
EXTENDS Naturals, Sequences, FiniteSets

CONSTANTS
  Onglets,        \* numbers the page may give to its tabs
  Ouvertures,     \* calls of rdp_open (bounds the model)
  MaxRecharges,   \* reloads of the page (bounds the model)
  MaxAnnonces,    \* designations of files announced (bounds the model)
  Personne        \* no opening

ASSUME BureauAssumption ==
  /\ Onglets # {} /\ Personne \notin Ouvertures
  /\ MaxRecharges \in Nat /\ MaxAnnonces \in Nat

VARIABLES
  onglet,      \* page: state of each tab and the opening it waits for or shows
  ws,          \* page: the local WebSocket of each opening
  appels,      \* commands sent by the page and not yet started
  recharges,   \* reloads so far
  ouv,         \* core: where each call of rdp_open stands, its id, its answer
  inner,       \* RdpStore.inner: the process registered under each id
  stdins,      \* RdpStore.stdins: the standard input kept under each id
  annonceur,   \* does annoncer_designations hold the lock of `stdins`?
  annonces,    \* designations announced so far
  journaux,    \* RdpStore.journaux: the log under each id, named by its creator
  suivi,       \* the log the reader of each process writes to
  lignes,      \* per log, the processes that wrote a line in it
  diag,        \* history: per opening, whose lines its tab was shown
  proc,        \* the process of each opening
  annoncees    \* the processes that wrote « PORT JETON » on their output

pageVars == <<onglet, ws, recharges>>
journalVars == <<journaux, suivi, lignes>>
vars == <<onglet, ws, appels, recharges, ouv, inner, stdins, annonceur, annonces,
          journaux, suivi, lignes, diag, proc, annoncees>>

-----------------------------------------------------------------------------
Etapes ==
  {"libre", "appelee",
   "controle", "trousseau",                     \* before the process is registered
   "lance",                                     \* registered, password not written
   "depot",                                     \* password written, input not filed
   "annonce",                                   \* waits for « PORT JETON »
   "verif", "suivi",                            \* announced; is it still ours?
   "echec", "tuer", "retirer",                  \* a failure after the spawn
   "repondu", "fin"}

Reponses == {"aucune", "ok", "echec", "annulee"}

\* `lit` waits for the password, `connecte` negotiates, `attend` has announced
\* its port and waits for its client, `sert` has it.
EtatsProc == {"aucun", "lit", "connecte", "attend", "sert", "fini"}
Vivants == {"lit", "connecte", "attend", "sert"}

EnMain == {"lance", "depot"}   \* the call itself holds the standard input

Ids == Onglets
Appels == [cmd : {"ouvrir", "fermer", "lire"}, id : Ids, pour : Ouvertures, essai : 1 .. 3]

TypeOK ==
  /\ onglet \in [Ids -> [etat : {"jamais", "connexion", "direct", "ferme", "retire"},
                         ouv : Ouvertures \cup {Personne}]]
  /\ ws \in [Ouvertures -> {"aucune", "ouverte", "fermee"}]
  /\ appels \in Seq(Appels)
  /\ recharges \in 0 .. MaxRecharges
  /\ ouv \in [Ouvertures -> [etape : Etapes, id : Ids, reponse : Reponses,
                             page : 0 .. MaxRecharges]]
  /\ inner \in [Ids -> Ouvertures \cup {Personne}]
  /\ stdins \in [Ids -> Ouvertures \cup {Personne}]
  /\ annonceur \in BOOLEAN /\ annonces \in 0 .. MaxAnnonces
  /\ journaux \in [Ids -> Ouvertures \cup {Personne}]
  /\ suivi \in [Ouvertures -> Ouvertures \cup {Personne}]
  /\ lignes \in [Ouvertures -> SUBSET Ouvertures]
  /\ diag \in [Ouvertures -> SUBSET Ouvertures]
  /\ proc \in [Ouvertures -> EtatsProc]
  /\ annoncees \in SUBSET Ouvertures

Init ==
  /\ onglet = [i \in Ids |-> [etat |-> "jamais", ouv |-> Personne]]
  /\ ws = [o \in Ouvertures |-> "aucune"]
  /\ appels = <<>> /\ recharges = 0
  /\ ouv = [o \in Ouvertures |-> [etape |-> "libre", id |-> CHOOSE i \in Ids : TRUE,
                                  reponse |-> "aucune", page |-> 0]]
  /\ inner = [i \in Ids |-> Personne]
  /\ stdins = [i \in Ids |-> Personne]
  /\ annonceur = FALSE /\ annonces = 0
  /\ journaux = [i \in Ids |-> Personne]
  /\ suivi = [o \in Ouvertures |-> Personne]
  /\ lignes = [o \in Ouvertures |-> {}]
  /\ diag = [o \in Ouvertures |-> {}]
  /\ proc = [o \in Ouvertures |-> "aucun"]
  /\ annoncees = {}

-----------------------------------------------------------------------------
\* The tab of opening `o`, if this page still has it.
AOnglet(o) == onglet[ouv[o].id].ouv = o /\ ouv[o].page = recharges
EntreeOuverte(o) == ouv[o].etape \in EnMain \/ stdins[ouv[o].id] = o
Appel(cmd, o, n) == [cmd |-> cmd, id |-> ouv[o].id, pour |-> o, essai |-> n]
Aller(o, etape) == ouv' = [ouv EXCEPT ![o].etape = etape]
Repondre(o, r) == ouv' = [ouv EXCEPT ![o].etape = "repondu", ![o].reponse = r]
Tues(P) == [p \in Ouvertures |-> IF p \in P THEN "fini" ELSE proc[p]]
Poser(i, etat) == onglet' = [onglet EXCEPT ![i].etat = etat]

-----------------------------------------------------------------------------
(* The page. *)

\* openRdp: the next number never given since the page was loaded.
OuvrirOnglet(i, o) ==
  /\ onglet[i].etat = "jamais" /\ ouv[o].etape = "libre"
  /\ onglet' = [onglet EXCEPT ![i] = [etat |-> "connexion", ouv |-> o]]
  /\ ouv' = [ouv EXCEPT ![o] = [etape |-> "appelee", id |-> i, reponse |-> "aucune",
                                page |-> recharges]]
  /\ appels' = Append(appels, [cmd |-> "ouvrir", id |-> i, pour |-> o, essai |-> 1])
  /\ UNCHANGED <<ws, recharges, inner, stdins, annonceur, annonces,
                 journalVars, diag, proc, annoncees>>

\* closeRdp: the WebSocket is closed, the process is asked for, the tab removed.
FermerOnglet(i) ==
  LET o == onglet[i].ouv IN
  /\ onglet[i].etat \in {"connexion", "direct", "ferme"}
  /\ onglet' = [onglet EXCEPT ![i] = [etat |-> "retire", ouv |-> Personne]]
  /\ ws' = [ws EXCEPT ![o] = IF @ = "ouverte" THEN "fermee" ELSE @]
  /\ appels' = Append(appels, Appel("fermer", o, 1))
  /\ UNCHANGED <<recharges, ouv, inner, stdins, annonceur, annonces, journalVars,
                 diag, proc, annoncees>>

Recharger ==
  /\ recharges < MaxRecharges
  /\ recharges' = recharges + 1
  /\ onglet' = [i \in Ids |-> [etat |-> "jamais", ouv |-> Personne]]
  /\ ws' = [o \in Ouvertures |-> IF ws[o] = "ouverte" THEN "fermee" ELSE ws[o]]
  /\ UNCHANGED <<appels, ouv, inner, stdins, annonceur, annonces, journalVars, diag,
                 proc, annoncees>>

\* The answer of rdp_open.  A tab gone meanwhile sends rdp_close again.
RecevoirOk(o) ==
  /\ ouv[o].etape = "repondu" /\ ouv[o].reponse = "ok"
  /\ Aller(o, "fin")
  /\ IF AOnglet(o)
     THEN ws' = [ws EXCEPT ![o] = "ouverte"] /\ UNCHANGED appels
     ELSE /\ appels' = IF ouv[o].page = recharges
                       THEN Append(appels, Appel("fermer", o, 1)) ELSE appels
          /\ UNCHANGED ws
  /\ UNCHANGED <<onglet, recharges, inner, stdins, annonceur, annonces, journalVars,
                 diag, proc, annoncees>>

\* A slip: every failure is taken for a cancellation.
RecevoirEchec_Muet(o) ==
  /\ ouv[o].etape = "repondu" /\ ouv[o].reponse \in {"echec", "annulee"}
  /\ Aller(o, "fin")
  /\ UNCHANGED <<onglet, appels, ws, recharges, inner, stdins, annonceur, annonces,
                 journalVars, diag, proc, annoncees>>

\* A cancelled opening says nothing, any other failure shows the closed tab.
RecevoirEchec(o) ==
  /\ ouv[o].etape = "repondu" /\ ouv[o].reponse \in {"echec", "annulee"}
  /\ Aller(o, "fin")
  /\ IF AOnglet(o) /\ ouv[o].reponse = "echec"
     THEN Poser(ouv[o].id, "ferme") /\ appels' = Append(appels, Appel("lire", o, 1))
     ELSE UNCHANGED <<onglet, appels>>
  /\ UNCHANGED <<ws, recharges, inner, stdins, annonceur, annonces, journalVars, diag,
                 proc, annoncees>>

\* ws.onmessage [1]: the desktop is there.
RecevoirConnecte(o) ==
  /\ ws[o] = "ouverte" /\ proc[o] = "sert" /\ AOnglet(o)
  /\ onglet[ouv[o].id].etat = "connexion"
  /\ Poser(ouv[o].id, "direct")
  /\ UNCHANGED <<ws, appels, recharges, ouv, inner, stdins, annonceur, annonces,
                 journalVars, diag, proc, annoncees>>

\* ws.onclose: the diagnostic is asked for, then the process is closed.
PerdreWs(o) ==
  /\ ws[o] = "ouverte" /\ proc[o] = "fini"
  /\ ws' = [ws EXCEPT ![o] = "fermee"]
  /\ IF AOnglet(o)
     THEN /\ Poser(ouv[o].id, "ferme")
          /\ appels' = appels \o <<Appel("lire", o, 1), Appel("fermer", o, 1)>>
     ELSE UNCHANGED <<onglet, appels>>
  /\ UNCHANGED <<recharges, ouv, inner, stdins, annonceur, annonces, journalVars,
                 diag, proc, annoncees>>

-----------------------------------------------------------------------------
(* Commands, started on the main thread. *)

RdpOpen ==
  /\ appels # <<>> /\ Head(appels).cmd = "ouvrir"
  /\ Aller(Head(appels).pour, "controle")
  /\ appels' = Tail(appels)
  /\ UNCHANGED <<pageVars, inner, stdins, annonceur, annonces, journalVars, diag, proc, annoncees>>

\* The input is only taken out with a child, and only if nobody announces.
RdpClose ==
  /\ appels # <<>> /\ Head(appels).cmd = "fermer"
  /\ LET i == Head(appels).id IN
     /\ proc' = Tues({inner[i]})
     /\ inner' = [inner EXCEPT ![i] = Personne]
     /\ stdins' = IF inner[i] # Personne /\ ~annonceur
                  THEN [stdins EXCEPT ![i] = Personne] ELSE stdins
     /\ journaux' = [journaux EXCEPT ![i] = Personne]
  /\ appels' = Tail(appels)
  /\ UNCHANGED <<pageVars, ouv, annonceur, annonces, suivi, lignes, diag, annoncees>>

\* Read again up to three times while nothing comes.
RdpDiagnostic ==
  /\ appels # <<>> /\ Head(appels).cmd = "lire"
  /\ LET a == Head(appels)
         lu == IF journaux[a.id] = Personne THEN {} ELSE lignes[journaux[a.id]] IN
     /\ diag' = [diag EXCEPT ![a.pour] = @ \cup lu]
     /\ appels' = IF lu = {} /\ a.essai < 3
                  THEN Append(Tail(appels), [a EXCEPT !.essai = @ + 1])
                  ELSE Tail(appels)
  /\ UNCHANGED <<pageVars, ouv, inner, stdins, annonceur, annonces, journalVars, proc, annoncees>>

-----------------------------------------------------------------------------
(* rdp_open. *)

\* `controler`: password, shared folder, address; then the binary.
Controler(o) ==
  /\ ouv[o].etape = "controle"
  /\ Aller(o, "trousseau") \/ Repondre(o, "echec")
  /\ UNCHANGED <<pageVars, appels, inner, stdins, annonceur, annonces, journalVars,
                 diag, proc, annoncees>>

\* A slip: the child that was registered is dropped without being killed.
Lancer_Oublie(o) ==
  /\ ouv[o].etape = "trousseau"
  /\ Aller(o, "lance")
  /\ proc' = [proc EXCEPT ![o] = "lit"]
  /\ inner' = [inner EXCEPT ![ouv[o].id] = o]
  /\ UNCHANGED <<pageVars, appels, stdins, annonceur, annonces, journalVars, diag,
                 annoncees>>

\* The keyring may fail, the launch too.  The new child takes the place of the
\* one registered under the id, which is killed.
Lancer(o) ==
  /\ ouv[o].etape = "trousseau"
  /\ Aller(o, "lance")
  /\ proc' = [Tues({inner[ouv[o].id]}) EXCEPT ![o] = "lit"]
  /\ inner' = [inner EXCEPT ![ouv[o].id] = o]
  /\ UNCHANGED <<pageVars, appels, stdins, annonceur, annonces, journalVars, diag, annoncees>>

NePasLancer(o) ==
  /\ ouv[o].etape = "trousseau"
  /\ Repondre(o, "echec")
  /\ UNCHANGED <<pageVars, appels, inner, stdins, annonceur, annonces, journalVars,
                 diag, proc, annoncees>>

\* The pipe of a dead child may still take the line; that of a live one does.
EnvoyerMotDePasse(o) ==
  /\ ouv[o].etape = "lance"
  /\ \/ Aller(o, "depot")
     \/ proc[o] = "fini" /\ Aller(o, "echec")
  /\ UNCHANGED <<pageVars, appels, inner, stdins, annonceur, annonces, journalVars,
                 diag, proc, annoncees>>

\* A slip: the input is closed once the password is written.
Deposer_Ferme(o) ==
  /\ ouv[o].etape = "depot" /\ ~annonceur
  /\ Aller(o, "annonce")
  /\ UNCHANGED <<pageVars, appels, inner, stdins, annonceur, annonces, journalVars,
                 diag, proc, annoncees>>

Deposer(o) ==
  /\ ouv[o].etape = "depot" /\ ~annonceur
  /\ Aller(o, "annonce")
  /\ stdins' = [stdins EXCEPT ![ouv[o].id] = o]
  /\ UNCHANGED <<pageVars, appels, inner, annonceur, annonces, journalVars, diag, proc, annoncees>>

\* A slip: no delay, only a line or the end of the stream.
Annonce_SansDelai(o) ==
  /\ ouv[o].etape = "annonce"
  /\ \/ o \in annoncees /\ Aller(o, "verif")
     \/ o \notin annoncees /\ proc[o] = "fini" /\ Aller(o, "echec")
  /\ UNCHANGED <<pageVars, appels, inner, stdins, annonceur, annonces, journalVars,
                 diag, proc, annoncees>>

\* `lire_annonce` under its delay: a line, the end of the stream, or sixty
\* seconds without either.
Annonce(o) ==
  /\ ouv[o].etape = "annonce"
  /\ IF o \in annoncees THEN Aller(o, "verif") ELSE Aller(o, "echec")
  /\ UNCHANGED <<pageVars, appels, inner, stdins, annonceur, annonces, journalVars,
                 diag, proc, annoncees>>

Verifier(o) ==
  /\ ouv[o].etape = "verif"
  /\ IF inner[ouv[o].id] = o THEN Aller(o, "suivi") ELSE Repondre(o, "annulee")
  /\ UNCHANGED <<pageVars, appels, inner, stdins, annonceur, annonces, journalVars,
                 diag, proc, annoncees>>

\* `suivre_diagnostic`: the log found under the id, or a new one.
SuivreDiagnostic(o) ==
  LET i == ouv[o].id
      j == IF journaux[i] = Personne THEN o ELSE journaux[i] IN
  /\ ouv[o].etape = "suivi"
  /\ journaux' = [journaux EXCEPT ![i] = j]
  /\ suivi' = [suivi EXCEPT ![o] = j]
  /\ Repondre(o, "ok")
  /\ UNCHANGED <<pageVars, appels, inner, stdins, annonceur, annonces, lignes, diag, proc, annoncees>>

\* `echec` looks under one lock, `tuer` acts under another.
Echec(o) ==
  /\ ouv[o].etape = "echec"
  /\ IF inner[ouv[o].id] = o THEN Aller(o, "tuer") ELSE Repondre(o, "annulee")
  /\ UNCHANGED <<pageVars, appels, inner, stdins, annonceur, annonces, journalVars,
                 diag, proc, annoncees>>

Tuer(o) ==
  LET i == ouv[o].id IN
  /\ ouv[o].etape = "tuer"
  /\ proc' = Tues({inner[i]})
  /\ inner' = [inner EXCEPT ![i] = Personne]
  /\ journaux' = [journaux EXCEPT ![i] = Personne]
  /\ Aller(o, "retirer")
  /\ UNCHANGED <<pageVars, appels, stdins, annonceur, annonces, suivi, lignes, diag, annoncees>>

RetirerEntree(o) ==
  /\ ouv[o].etape = "retirer" /\ ~annonceur
  /\ stdins' = [stdins EXCEPT ![ouv[o].id] = Personne]
  /\ Repondre(o, "echec")
  /\ UNCHANGED <<pageVars, appels, inner, annonceur, annonces, journalVars, diag, proc, annoncees>>

\* `annoncer_designations`: every input gets the paths, the dead ones go.
CommencerAnnonce ==
  /\ ~annonceur /\ annonces < MaxAnnonces
  /\ annonceur' = TRUE /\ annonces' = annonces + 1
  /\ UNCHANGED <<pageVars, appels, ouv, inner, stdins, journalVars, diag, proc, annoncees>>

FinirAnnonce ==
  /\ annonceur
  /\ annonceur' = FALSE
  /\ stdins' = [i \in Ids |-> IF stdins[i] # Personne /\ proc[stdins[i]] = "fini"
                              THEN Personne ELSE stdins[i]]
  /\ UNCHANGED <<pageVars, appels, ouv, inner, annonces, journalVars, diag, proc, annoncees>>

-----------------------------------------------------------------------------
(* The process, as its parent sees it. *)

LireMotDePasse(o) ==
  /\ proc[o] = "lit" /\ ouv[o].etape # "lance"
  /\ proc' = [proc EXCEPT ![o] = "connecte"]
  /\ UNCHANGED <<pageVars, appels, ouv, inner, stdins, annonceur, annonces,
                 journalVars, diag, annoncees>>

Annoncer(o) ==
  /\ proc[o] = "connecte"
  /\ proc' = [proc EXCEPT ![o] = "attend"]
  /\ annoncees' = annoncees \cup {o}
  /\ UNCHANGED <<pageVars, appels, ouv, inner, stdins, annonceur, annonces,
                 journalVars, diag>>

\* The client that holds the token; only the page that got the answer does.
Servir(o) ==
  /\ proc[o] = "attend" /\ ws[o] = "ouverte"
  /\ proc' = [proc EXCEPT ![o] = "sert"]
  /\ UNCHANGED <<pageVars, appels, ouv, inner, stdins, annonceur, annonces,
                 journalVars, diag, annoncees>>

\* A failure, the end of the session, the end of the standard input, a client
\* that left or that never came: the reason goes to the standard error.
Finir(o) ==
  /\ proc[o] \in Vivants
  /\ proc' = [proc EXCEPT ![o] = "fini"]
  /\ lignes' = IF suivi[o] = Personne THEN lignes
               ELSE [lignes EXCEPT ![suivi[o]] = @ \cup {o}]
  /\ UNCHANGED <<pageVars, appels, ouv, inner, stdins, annonceur, annonces, journaux,
                 suivi, diag, annoncees>>

\* What ends a process for certain: nobody holds its input, its client has
\* left, or a minute has passed without one.
DoitFinir(o) ==
  \/ proc[o] \in Vivants /\ ~EntreeOuverte(o)
  \/ proc[o] = "sert" /\ ws[o] = "fermee"
  \/ proc[o] = "attend" /\ ws[o] # "ouverte"

-----------------------------------------------------------------------------
PasAppel(o) ==
  \/ Controler(o) \/ Lancer(o) \/ NePasLancer(o) \/ EnvoyerMotDePasse(o) \/ Deposer(o)
  \/ Annonce(o) \/ Verifier(o) \/ SuivreDiagnostic(o) \/ Echec(o) \/ Tuer(o)
  \/ RetirerEntree(o)

PasPage(o) ==
  RecevoirOk(o) \/ RecevoirEchec(o) \/ RecevoirConnecte(o) \/ PerdreWs(o)

Next ==
  \/ \E i \in Ids : FermerOnglet(i) \/ \E o \in Ouvertures : OuvrirOnglet(i, o)
  \/ Recharger \/ RdpOpen \/ RdpClose \/ RdpDiagnostic \/ CommencerAnnonce \/ FinirAnnonce
  \/ \E o \in Ouvertures :
        \/ PasAppel(o) \/ PasPage(o)
        \/ LireMotDePasse(o) \/ Annoncer(o) \/ Servir(o) \/ Finir(o)

(* Tasks, timers and the event loop of the page run; a process may hang     *)
(* while it connects, so nothing but the delay of its parent ends that.     *)
Fairness ==
  /\ WF_vars(RdpOpen) /\ WF_vars(RdpClose) /\ WF_vars(RdpDiagnostic) /\ WF_vars(FinirAnnonce)
  /\ \A o \in Ouvertures :
       /\ WF_vars(PasAppel(o)) /\ WF_vars(PasPage(o)) /\ WF_vars(Servir(o))
       /\ WF_vars(DoitFinir(o) /\ Finir(o))

Spec == Init /\ [][Next]_vars /\ Fairness

-----------------------------------------------------------------------------
\* Registered under its id: rdp_close, the next opening of the id or a
\* failure can reach it.
EnfantTenu == \A o \in Ouvertures : proc[o] \in Vivants => inner[ouv[o].id] = o

EchecSansReste ==
  \A o \in Ouvertures : ouv[o].reponse \in {"echec", "annulee"} => proc[o] \notin Vivants

(* A living process is always within reach of its parent, and an opening    *)
(* answered by a failure or a cancellation leaves none behind: rdp.rs       *)
(* registers the child before its first way out, and `echec` kills ours     *)
(* where an eviction or a closing had not.                                  *)
ProcessusTenu == EnfantTenu /\ EchecSansReste

(* The standard input of a living process stays open, unless another        *)
(* opening of the same id filed its own over it: without it the process     *)
(* believes that its parent is gone, and ends.                              *)
EntreeTenue ==
  \A o \in Ouvertures :
    proc[o] \in Vivants =>
      \/ EntreeOuverte(o)
      \/ \E p \in Ouvertures \ {o} : ouv[p].etape # "libre" /\ ouv[p].id = ouv[o].id

(* A living process is within reach of its parent and keeps its input.     *)
BureauTenu == ProcessusTenu /\ EntreeTenue

(* A process whose tab is gone comes to its end, whenever the tab went:     *)
(* before the process was registered, while it connects, after a reload     *)
(* that forgot the tab and the answer.  No session stays open for nobody.   *)
SessionRendue ==
  \A o \in Ouvertures : (proc[o] \in Vivants /\ ~AOnglet(o)) ~> (proc[o] = "fini")

(* A tab does not stay on « connexion »: whatever hangs in the process or   *)
(* fails on the way, the opening ends in a desktop, a failure that shows or *)
(* a cancellation.                                                          *)
OuvertureAboutit ==
  \A i \in Ids, o \in Ouvertures :
    (onglet[i] = [etat |-> "connexion", ouv |-> o])
      ~> (onglet[i] # [etat |-> "connexion", ouv |-> o] \/ ouv[o].reponse = "annulee")

(* « Fermé par l'utilisateur, ou évincé par une ouverture plus récente »:   *)
(* an opening told that it was cancelled has lost its tab.                  *)
AnnulationMeritee ==
  \A o \in Ouvertures :
    ouv[o].etape = "repondu" /\ ouv[o].reponse = "annulee" => ~AOnglet(o)

=============================================================================
