------------------------------- MODULE Commande -------------------------------
(***************************************************************************)
(* Commands run on the SSH session of a tab (executer_borne and            *)
(* run_avec_agent of crates/avash/src/ssh.rs), under the lock of the       *)
(* session (executeur of commands/sessions.rs), and the SSH agent of this  *)
(* machine lent to the server while a command runs: the flag, the handler  *)
(* that opens a relay, the guard that ends them. A direct copy is such a   *)
(* command (sftp_copier_vers of commands/sftp.rs).                         *)
(***************************************************************************)
EXTENDS Naturals, FiniteSets

CONSTANTS
  Commandes,   \* commands asked for, each once
  AvecAgent,   \* those that lend the agent; the others have a delay
  Relais,      \* channels the server opens towards the agent, each once
  PLAFOND      \* bound of the code: output kept (in blocks)

CommandeAssumption == AvecAgent \subseteq Commandes /\ PLAFOND \in Nat

VARIABLES
  verrou,     \* the command that holds the session, or none
  cmd,        \* the commands
  agent,      \* agent_redirige: is the agent lent?
  relais,     \* what the handler does of each channel, and its relay
  table       \* relais_agent: the relays to interrupt

vars == <<verrou, cmd, agent, relais, table>>

Personne == "personne"
Etats == {"repos", "attend", "canal", "verdict", "boucle", "rendu"}
Statuts == {"aucun", "zero", "autre"}
\* What the caller is given: a code, or one of the errors.
Issues == {"", "zero", "autre", "echec"}
Repos == [etat |-> "repos", sortie |-> 0, statut |-> "aucun", canal |-> "aucun",
          tronquee |-> FALSE, annule |-> FALSE, issue |-> ""]

TypeOK ==
  /\ verrou \in Commandes \cup {Personne}
  /\ \A c \in Commandes :
       /\ cmd[c].etat \in Etats /\ cmd[c].sortie \in 0 .. PLAFOND
       /\ cmd[c].statut \in Statuts /\ cmd[c].issue \in Issues
       /\ cmd[c].canal \in {"aucun", "ouvert", "ferme"}
  /\ agent \in BOOLEAN
  /\ \A r \in Relais :
       relais[r] \in {"rien", "ouverture", "relaye", "fini"}
  /\ table \subseteq Relais

Init ==
  /\ verrou = Personne
  /\ cmd = [c \in Commandes |-> Repos]
  /\ agent = FALSE
  /\ relais = [r \in Relais |-> "rien"]
  /\ table = {}

Va(c, etat) == cmd' = [cmd EXCEPT ![c].etat = etat]
Agent == UNCHANGED <<agent, relais, table>>

-----------------------------------------------------------------------------
(* The lock of the session, and the start of a command. *)

Demander(c) ==
  /\ cmd[c].etat = "repos"
  /\ Va(c, "attend")
  /\ UNCHANGED verrou /\ Agent

\* The lock is let go at once.
Prendre_Libre(c) ==
  /\ cmd[c].etat = "attend" /\ verrou = Personne
  /\ Va(c, "canal")
  /\ agent' = (agent \/ c \in AvecAgent)
  /\ UNCHANGED <<verrou, relais, table>>

\* The flag goes up before the channel is asked for.
Prendre(c) ==
  /\ cmd[c].etat = "attend" /\ verrou = Personne
  /\ verrou' = c
  /\ Va(c, "canal")
  /\ agent' = (agent \/ c \in AvecAgent)
  /\ UNCHANGED <<relais, table>>

\* Only the flag comes down.
Garde_Drapeau(c) ==
  /\ agent' = (agent /\ c \notin AvecAgent)
  /\ UNCHANGED <<relais, table>>

\* GardeAgent: the flag comes down, every relay of the table is interrupted.
Garde(c) ==
  IF c \in AvecAgent
  THEN /\ agent' = FALSE
       /\ relais' = [r \in Relais |-> IF r \in table /\ relais[r] = "relaye" THEN "fini" ELSE relais[r]]
       /\ table' = {}
  ELSE UNCHANGED <<agent, relais, table>>

\* The command ends: what it knows becomes what the caller is given, whatever
\* the channel has become.
Rendre(c, issue, canal, tronquee) ==
  /\ cmd' = [cmd EXCEPT ![c] = [@ EXCEPT !.etat = "rendu", !.issue = issue, !.canal = canal,
                                          !.tronquee = tronquee, !.sortie = 0, !.annule = FALSE,
                                          !.statut = IF issue = "echec" THEN "aucun" ELSE @]]
  /\ verrou' = Personne
  /\ Garde(c)

\* channel_open_session, then the agent is asked for, or the command sent.
OuvrirCanal(c) ==
  /\ cmd[c].etat = "canal"
  /\ \/ /\ cmd' = [cmd EXCEPT ![c].canal = "ouvert",
                     ![c].etat = IF c \in AvecAgent THEN "verdict" ELSE "boucle"]
        /\ UNCHANGED verrou /\ Agent
     \/ Rendre(c, "echec", "aucun", FALSE)

\* agent_forward: a refusal ends the command; any other answer, or five seconds
\* without one, sends it.
Verdict(c) ==
  /\ cmd[c].etat = "verdict"
  /\ \/ Va(c, "boucle") /\ UNCHANGED verrou /\ Agent
     \/ Rendre(c, "echec", "ouvert", FALSE)

-----------------------------------------------------------------------------
(* The loop of a command. Every way out of it closes the channel. *)

Noter(c, champ, valeur) ==
  /\ cmd' = [cmd EXCEPT ![c] = [@ EXCEPT ![champ] = valeur]]
  /\ UNCHANGED verrou /\ Agent

Sortir(c, issue) == Rendre(c, issue, "ferme", FALSE)

\* Output, up to the ceiling: the command is then given up, with the status it
\* has.
Statut(c) == IF cmd[c].statut = "autre" THEN "autre" ELSE "zero"
LireDonnees(c) ==
  /\ cmd[c].etat = "boucle"
  /\ \/ cmd[c].sortie < PLAFOND /\ Noter(c, "sortie", cmd[c].sortie + 1)
     \/ cmd[c].sortie = PLAFOND /\ Rendre(c, Statut(c), "ferme", TRUE)

LireStatut(c) ==
  /\ cmd[c].etat = "boucle" /\ cmd[c].statut = "aucun"
  /\ \E s \in {"zero", "autre"} : Noter(c, "statut", s)

\* No status, no harm.
Conclure_Zero(c) == Statut(c)

\* What a command closed by the server is worth.
Conclure(c) == IF cmd[c].statut = "aucun" THEN "echec" ELSE cmd[c].statut

LireFin(c) ==
  /\ cmd[c].etat = "boucle"
  /\ Sortir(c, "echec") \/ Sortir(c, Conclure(c))   \* a signal, or the end

\* The commands that lend the agent look at nothing else than the channel.
Interrompre_Jamais(c) == cmd[c].etat = "boucle" /\ cmd[c].annule /\ cmd[c].statut # "aucun" /\ Sortir(c, "echec")

\* The delay of run_borne; the flag the user raises, looked at every 50 ms.
Expirer(c) == cmd[c].etat = "boucle" /\ c \notin AvecAgent /\ Sortir(c, "echec")
Annuler(c) ==
  /\ cmd[c].etat \in {"attend", "canal", "verdict", "boucle"} /\ c \in AvecAgent /\ ~cmd[c].annule
  /\ Noter(c, "annule", TRUE)
Interrompre(c) == cmd[c].etat = "boucle" /\ cmd[c].annule /\ Sortir(c, "echec")

-----------------------------------------------------------------------------
(* server_channel_open_agent_forward. *)

Relaye(r, etat) == relais' = [relais EXCEPT ![r] = etat]

\* One request at a time: the handler runs in the loop of the session.
DemanderAgent(r) ==
  /\ relais[r] = "rien" /\ \A q \in Relais : relais[q] # "ouverture"
  /\ Relaye(r, IF agent THEN "ouverture" ELSE "fini")
  /\ UNCHANGED <<verrou, cmd, agent, table>>

\* The agent of this machine is joined; the relays that ended leave the table.
OuvrirAgent(r) ==
  /\ relais[r] = "ouverture"
  /\ \/ /\ Relaye(r, "relaye")
        /\ table' = {q \in table : relais[q] = "relaye"} \cup {r}
     \/ Relaye(r, "fini") /\ UNCHANGED table
  /\ UNCHANGED <<verrou, cmd, agent>>

\* The server closes the channel.
FinirRelais(r) ==
  /\ relais[r] = "relaye"
  /\ Relaye(r, "fini")
  /\ UNCHANGED <<verrou, cmd, agent, table>>

Next ==
  \/ \E c \in Commandes :
       \/ Demander(c) \/ Prendre(c) \/ OuvrirCanal(c) \/ Verdict(c)
       \/ LireDonnees(c) \/ LireStatut(c) \/ LireFin(c)
       \/ Expirer(c) \/ Annuler(c) \/ Interrompre(c)
  \/ \E r \in Relais : DemanderAgent(r) \/ OuvrirAgent(r) \/ FinirRelais(r)

\* The tasks run, the timers fire, the lock is fair; nothing is expected of the
\* server once the channel is open.
Equite == \A c \in Commandes :
  /\ SF_vars(Prendre(c)) /\ WF_vars(OuvrirCanal(c)) /\ WF_vars(Verdict(c))
  /\ WF_vars(Expirer(c)) /\ WF_vars(Interrompre(c))

Spec == Init /\ [][Next]_vars /\ Equite

-----------------------------------------------------------------------------
(* Properties. *)

\* A command is given as succeeded, or failed with a code, when the server said
\* so, and a channel cut off is neither (executer_borne).
IssueVraie ==
  \A c \in Commandes : cmd[c].issue \in {"zero", "autre"} /\ ~cmd[c].tronquee =>
    cmd[c].statut = cmd[c].issue

\* While a command that lends the agent runs, it is lent, whatever another one
\* does; a relay of that command is gone when it is (GardeAgent).
PretEntier ==
  /\ \A c \in AvecAgent : cmd[c].etat \in {"canal", "verdict", "boucle"} => agent
  /\ \A r \in table : relais[r] \in {"relaye", "fini"}
  /\ agent => \E c \in AvecAgent : cmd[c].etat \in {"canal", "verdict", "boucle"}
PretRendu ==
  [][\A c \in AvecAgent : verrou = c /\ verrou' # c =>
       \A r \in Relais : relais[r] = "relaye" => relais'[r] # "relaye"]_vars

\* A command that holds the session, and that is cancelled or has a delay,
\* comes back and lets the session go, although the server is silent.
CommandeRendue ==
  \A c \in Commandes : verrou = c /\ (c \notin AvecAgent \/ cmd[c].annule) ~> cmd[c].etat = "rendu"

\* A channel of the agent is open during a command, and only during it
\* (SECURITY.md).
PretBorne == \A r \in Relais : relais[r] = "relaye" => agent

\* No channel is left open by a command that ended.
CanalRendu == \A c \in Commandes : cmd[c].etat = "rendu" => cmd[c].canal # "ouvert"

\* A success is what the server confirmed.
ReussiteConfirmee == \A c \in Commandes : cmd[c].issue = "zero" => cmd[c].statut = "zero"
=============================================================================
