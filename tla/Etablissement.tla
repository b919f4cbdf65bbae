----------------------------- MODULE Etablissement -----------------------------
(***************************************************************************)
(* A tab that connects by SSH: the page that asks for the password and     *)
(* tries again (connectByAlias of web/main.ts), the chain of jump hosts    *)
(* and the delay of each link (connect_via, connect_hop, etablir of        *)
(* crates/avash/src/ssh.rs), and what is presented to a server to log in   *)
(* (authenticate and what it calls). The servers and the agent answer what *)
(* they like, or never.                                                    *)
(***************************************************************************)
EXTENDS Integers, FiniteSets

CONSTANTS
  N,          \* links of the chain; the last one is the host of the tab
  AvecCle,    \* links that have a key file
  REFUS_MAX,  \* bound of the code: passwords refused
  TOURS_MAX,  \* bound of the code: rounds of keyboard-interactive
  QUESTIONS_MAX, \* bound: questions of a round
  OUVERTURES  \* bound: connections asked for

ASSUME EtablissementAssumption ==
  /\ N \in Nat \ {0} /\ AvecCle \subseteq 1 .. N /\ REFUS_MAX \in Nat \ {0}
  /\ {TOURS_MAX, QUESTIONS_MAX, OUVERTURES} \subseteq Nat

VARIABLES
  page,       \* the loop of the page
  trousseau,  \* is a password of the host in the keyring?
  lien,       \* the link being established
  tenues,     \* links whose session is held
  vues,       \* history: links whose host key was accepted
  envois,     \* history: times the password went to each link
  ouvertures  \* connections asked for

varsEtablissement == <<page, trousseau, lien, tenues, vues, envois, ouvertures>>

Maillons == 1 .. N
Etapes == {"aucune", "tcp", "canal", "poignee", "cle", "agent", "mdp", "clavier"}
\* What a failed connection says: [AVASH_PASSWORD_REQUIRED], that the
\* authentication failed, or something else.
Messages == {"", "mdp_requis", "refuse", "autre"}

SansLien == [etape |-> "aucune", maillon |-> 1, tours |-> 0]
PageNeuve == [phase |-> "repos", etat |-> "closed", saisi |-> FALSE, memoriser |-> FALSE,
              refuses |-> 0, message |-> ""]

TypesEtablissement ==
  /\ page \in [phase : {"repos", "sonde", "avant", "appel", "question"},
               etat : {"closed", "connecting", "live"}, saisi : BOOLEAN, memoriser : BOOLEAN,
               refuses : 0 .. REFUS_MAX, message : Messages]
  /\ trousseau \in BOOLEAN
  /\ lien \in [etape : Etapes, maillon : Maillons, tours : 0 .. TOURS_MAX]
  /\ tenues \subseteq Maillons /\ vues \subseteq Maillons
  /\ envois \in [Maillons -> Nat]

InitEtablissement ==
  /\ page = PageNeuve /\ trousseau \in BOOLEAN
  /\ lien = SansLien /\ tenues = {} /\ vues = {}
  /\ envois = [i \in Maillons |-> 0]
  /\ ouvertures = 0

-----------------------------------------------------------------------------
(* The page. *)

Tab == UNCHANGED <<lien, tenues, vues, envois, ouvertures>>

\* host_needs_password: a key or a password of the keyring is enough, or else
\* the agent is asked.
Ouvrir ==
  /\ page.phase = "repos" /\ ouvertures < OUVERTURES
  /\ ouvertures' = ouvertures + 1
  /\ tenues' = {}
  /\ page' = [PageNeuve EXCEPT !.etat = "connecting",
                !.phase = IF N \in AvecCle \/ trousseau THEN "appel" ELSE "sonde"]
  /\ UNCHANGED <<trousseau, lien, vues, envois>>

\* agent_has_identities: the agent answers, or is held for empty after DELAI_AGENT.
SonderAgent ==
  /\ page.phase = "sonde"
  /\ \E vide \in BOOLEAN : page' = [page EXCEPT !.phase = IF vide THEN "avant" ELSE "appel"]
  /\ UNCHANGED trousseau /\ Tab

\* The first question, left without an answer: the loop returns.
SaisirAvant ==
  /\ page.phase = "avant"
  /\ \/ \E garder \in BOOLEAN :
          page' = [page EXCEPT !.phase = "appel", !.saisi = TRUE, !.memoriser = garder]
     \/ page' = [page EXCEPT !.phase = "repos"]
  /\ UNCHANGED trousseau /\ Tab

\* A later one: the tab is closed if it is left.
SaisirApres ==
  /\ page.phase = "question"
  /\ \/ \E garder \in BOOLEAN :
          page' = [page EXCEPT !.phase = "appel", !.saisi = TRUE, !.memoriser = garder]
     \/ page' = [page EXCEPT !.phase = "repos", !.etat = "closed"]
  /\ UNCHANGED trousseau /\ Tab

\* override_password: what was typed, or else the keyring, for the host of the
\* tab; the links on the way have no password (resolve_jumps).
MdpCible == page.saisi \/ trousseau
AUnMdp(i) == i = N /\ MdpCible

\* pty_open has failed.
Retomber(message) ==
  LET refuses == page.refuses + IF page.saisi THEN 1 ELSE 0 IN
  page' = CASE message # "mdp_requis" -> [page EXCEPT !.phase = "repos", !.etat = "closed", !.message = message]
            [] message = "mdp_requis" /\ refuses >= REFUS_MAX -> [page EXCEPT !.phase = "repos", !.etat = "closed", !.refuses = refuses]
            [] OTHER -> [page EXCEPT !.phase = "question", !.refuses = refuses, !.message = message]

\* pty_open has succeeded: the typed password is kept if the user asked.
Reussir ==
  /\ page' = [page EXCEPT !.phase = "repos", !.etat = "live"]
  /\ trousseau' = (trousseau \/ (page.saisi /\ page.memoriser))

-----------------------------------------------------------------------------
(* The links. *)

\* An error unwinds: every session of the chain is dropped with it.
Echouer(message) ==
  /\ lien' = SansLien /\ tenues' = {}
  /\ Retomber(message)
  /\ UNCHANGED <<trousseau, vues, envois, ouvertures>>

Avancer(etape) ==
  /\ lien' = [lien EXCEPT !.etape = etape]
  /\ UNCHANGED <<page, trousseau, tenues, vues, envois, ouvertures>>

\* connect_via, connect_borne: the first link by TCP.
Connecter ==
  /\ page.phase = "appel" /\ lien.etape = "aucune"
  /\ lien' = [SansLien EXCEPT !.etape = "tcp"]
  /\ vues' = {} /\ envois' = [i \in Maillons |-> 0]
  /\ UNCHANGED <<page, trousseau, tenues, ouvertures>>

JoindreTcp ==
  /\ lien.etape = "tcp"
  /\ Avancer("poignee") \/ Echouer("autre")

\* connect_hop: a channel of the link before.
OuvrirCanal ==
  /\ lien.etape = "canal"
  /\ Avancer("poignee") \/ Echouer("autre")

\* Its key is not looked at.
Poignee_SansCle ==
  /\ lien.etape = "poignee"
  /\ Avancer("agent")

\* connect_stream: banner, exchange of keys, host key.
Poignee ==
  /\ lien.etape = "poignee"
  /\ \/ /\ lien' = [lien EXCEPT !.etape = IF lien.maillon \in AvecCle THEN "cle" ELSE "agent"]
        /\ vues' = vues \cup {lien.maillon}
        /\ UNCHANGED <<page, trousseau, tenues, envois, ouvertures>>
     \/ Echouer("autre")

\* The authentication has no delay.
SousDelai_Poignee == lien.etape \in {"tcp", "canal", "poignee"}

\* The delay of the link: every wait of it, the agent's included, is under it.
SousDelai == lien.etape # "aucune"
Expirer == SousDelai /\ Echouer("autre")

\* The links before are let go.
Etabli_Lache ==
  /\ tenues' = {lien.maillon}
  /\ IF lien.maillon < N
     THEN /\ lien' = [SansLien EXCEPT !.etape = "canal", !.maillon = lien.maillon + 1]
          /\ UNCHANGED <<page, trousseau>>
     ELSE /\ lien' = SansLien
          /\ Reussir
  /\ UNCHANGED <<vues, ouvertures>>

\* The link is up. It is held by the next one, the last by the tab.
Etabli ==
  /\ tenues' = tenues \cup {lien.maillon}
  /\ IF lien.maillon < N
     THEN /\ lien' = [SansLien EXCEPT !.etape = "canal", !.maillon = lien.maillon + 1]
          /\ UNCHANGED <<page, trousseau>>
     ELSE /\ lien' = SansLien
          /\ Reussir
  /\ UNCHANGED <<vues, ouvertures>>

-----------------------------------------------------------------------------
(* authenticate: the key, the agent, the password, then keyboard-interactive. *)

\* A key that cannot be loaded, or is refused, leaves the agent.
ParCle ==
  /\ lien.etape = "cle"
  /\ \/ Etabli /\ UNCHANGED envois
     \/ Avancer("agent")
     \/ Echouer("autre")

\* The password of the tab goes to every link.
ParAgent_Cible ==
  /\ lien.etape = "agent"
  /\ \/ Etabli /\ UNCHANGED envois
     \/ MdpCible /\ Avancer("mdp")
     \/ ~MdpCible /\ Echouer("mdp_requis")

\* authenticate_agent, then the password if there is one.
ParAgent ==
  /\ lien.etape = "agent"
  /\ \/ Etabli /\ UNCHANGED envois
     \/ AUnMdp(lien.maillon) /\ Avancer("mdp")
     \/ ~AUnMdp(lien.maillon) /\ Echouer("mdp_requis")

Envoyer(n) == envois' = [envois EXCEPT ![lien.maillon] = @ + n]

ParMotDePasse ==
  /\ lien.etape = "mdp"
  /\ \/ Envoyer(1) /\ Etabli
     \/ Envoyer(1) /\ lien' = [lien EXCEPT !.etape = "clavier", !.tours = 0]
        /\ UNCHANGED <<page, trousseau, tenues, vues, ouvertures>>
     \/ Echouer("autre")

\* A round of questions: answered by the password for each, up to TOURS_MAX
\* rounds; one that would show its answer ends everything. What the server says
\* after the last round is not looked at.
Clavier ==
  /\ lien.etape = "clavier"
  /\ \/ lien.tours < TOURS_MAX /\ Etabli /\ UNCHANGED envois
     \/ /\ lien.tours < TOURS_MAX
        /\ \E n \in 0 .. QUESTIONS_MAX : Envoyer(n)
        /\ lien' = [lien EXCEPT !.tours = @ + 1]
        /\ UNCHANGED <<page, trousseau, tenues, vues, ouvertures>>
     \/ \E message \in {"refuse", "autre"} : Echouer(message)

NextEtablissement ==
  \/ Ouvrir \/ SonderAgent \/ SaisirAvant \/ SaisirApres
  \/ Connecter \/ JoindreTcp \/ OuvrirCanal \/ Poignee \/ Expirer
  \/ ParCle \/ ParAgent \/ ParMotDePasse \/ Clavier

\* The tasks run and the timers fire; nothing is expected of a server, of the
\* agent or of the user.
EquiteEtablissement == WF_varsEtablissement(Connecter) /\ WF_varsEtablissement(Expirer)

SpecEtablissement == InitEtablissement /\ [][NextEtablissement]_varsEtablissement
FairSpecEtablissement == SpecEtablissement /\ EquiteEtablissement

-----------------------------------------------------------------------------
(* Properties. *)

\* The password goes to the host of the tab alone, once its key is accepted and
\* every link before it is authenticated, and a bounded number of times
\* (authenticate, TOURS_MAX).
MdpTenu ==
  lien.etape # "aucune" => \A i \in Maillons : envois[i] > 0 =>
    /\ i = N /\ i \in vues /\ Maillons \ {N} \subseteq tenues \cap vues
    /\ envois[i] <= 1 + QUESTIONS_MAX * TOURS_MAX

\* A live tab holds every link of its chain, each with its host key accepted;
\* one that failed holds none (jumps of AvashSession).
RebondsTenus ==
  /\ page.etat = "live" => tenues = Maillons /\ vues = Maillons
  /\ page.etat = "closed" => tenues = {}

\* What a tab that connects promises.
EtablissementTenu == TypesEtablissement /\ MdpTenu /\ RebondsTenus

\* A connection comes to an end, whatever the servers and the agent do
\* (DELAI_CONNEXION_SSH).
AppelAboutit == page.phase = "appel" ~> page.phase # "appel"

\* A tab at rest is connected or says it is closed: it does not stay
\* "connecting" (main.ts: a cancelled password should leave no dead tab).
OngletDit == page.phase = "repos" => page.etat # "connecting"

\* A refused password is asked for again, three times at most (main.ts).
RefusRedemande == page.phase = "repos" /\ page.message = "refuse" => page.refuses >= REFUS_MAX

\* A password counts as refused when a server was given it.
RefusEssaye == page.refuses > 0 => envois[N] > 0

\* A password enters the keyring after a server took it.
MemoriseEssaye == [][trousseau' # trousseau => envois'[N] > 0]_varsEtablissement
=============================================================================
