--------------------------- MODULE ConnexionBureau ---------------------------
(***************************************************************************)
(* The process of a desktop between its launch and its end                 *)
(* (rdp-sidecar/src/main.rs, args.rs, connexion.rs, empreintes.rs,         *)
(* acces_local.rs, the outcome of session.rs): its arguments, the rounds   *)
(* of connection and the stages of each, the pinned key of the server, the *)
(* local client, and the decision to start again with the graphics         *)
(* channel.  The processes of one host share two files, read and appended  *)
(* without a lock: another one is modelled by what it does to them.        *)
(*                                                                         *)
(* The server is free: at each stage it answers, refuses, cuts or stays    *)
(* silent until the delay of that stage.                                   *)
(***************************************************************************)
EXTENDS Naturals, Sequences

CONSTANTS
  Cles,        \* keys the server may present
  Aucune,      \* no key
  TOURS_MAX,   \* rounds of connection (six in the code)
  Natures      \* how the server may draw: "classique", "graphique"

ConnexionAssumption ==
  Aucune \notin Cles /\ TOURS_MAX \in Nat \ {0}

VARIABLES
  etape,      \* where the process stands
  tour,       \* rounds begun
  redirige,   \* does the next or current round follow a redirection?
  politique,  \* egfx::Politique of the process
  dessine,    \* has this round drawn an image?
  muet,       \* has the server fallen silent in this round?
  hybride,    \* did the server choose CredSSP?
  cle,        \* key presented in this round
  lu,         \* what rdp_known_hosts held when it was read, in this round
  issue,      \* outcome of `executer`
  poste,      \* the local listener: none, announced, with its client
  client,     \* the client, as the page sees it
  entree,     \* is the standard input open?
  page,       \* the last state told to the tab
  sansNla,    \* --sans-nla
  nature,     \* how the server draws
  epingles,   \* rdp_known_hosts: the lines of this host
  memoire,    \* rdp_canal_graphique: is this host in it?
  autre,      \* another process of the host at its first contact
  livrees,    \* history: the keys that were given credentials
  refus,      \* history: has the server refused the password?
  rejoue      \* history: did a round begin after a refusal?

fichiers == <<epingles, memoire, autre>>
local == <<poste, client, entree, page>>
reglages == <<sansNla, nature>>
histoire == <<livrees, refus, rejoue>>
duTour == <<redirige, politique, dessine, muet, hybride, cle, lu>>
vars == <<etape, tour, duTour, issue, local, reglages, fichiers, histoire>>

-----------------------------------------------------------------------------
Avant == {"arguments", "sonde"}
Connexion == {"tcp", "negocie", "tls", "epingle", "memorise", "authentifie", "finalise"}
SousDelai == Connexion \ {"tcp"}   \* under the 25 s of the connection
Etapes == Avant \cup {"tour"} \cup Connexion \cup {"etablit", "attend", "session", "suite", "fini"}
Issues == {"aucune", "Fini", "Rediriger", "Reprendre", "Err", "FermeeApresAuth"}

TypeOK ==
  /\ etape \in Etapes
  /\ tour \in 0 .. TOURS_MAX
  /\ redirige \in BOOLEAN /\ dessine \in BOOLEAN
  /\ politique \in {"Observer", "Accepter"}
  /\ hybride \in BOOLEAN /\ muet \in BOOLEAN
  /\ cle \in Cles \cup {Aucune} /\ lu \in Cles \cup {Aucune}
  /\ issue \in Issues
  /\ poste \in {"aucun", "annonce", "present"}
  /\ client \in {"absent", "la", "parti"}
  /\ entree \in BOOLEAN
  /\ page \in {"connexion", "direct"}
  /\ sansNla \in BOOLEAN /\ nature \in Natures
  /\ epingles \in Seq(Cles) /\ memoire \in BOOLEAN
  /\ autre \in {"loin", "lu", "passe"}
  /\ livrees \in SUBSET Cles
  /\ refus \in BOOLEAN /\ rejoue \in BOOLEAN

Init ==
  /\ etape = "arguments" /\ tour = 0
  /\ redirige = FALSE /\ dessine = FALSE /\ hybride = FALSE /\ muet = FALSE
  /\ politique = "Observer"
  /\ cle = Aucune /\ lu = Aucune
  /\ issue = "aucune"
  /\ poste = "aucun" /\ client = "absent"
  /\ entree = TRUE /\ page = "connexion"
  /\ sansNla \in BOOLEAN /\ nature \in Natures
  /\ epingles = <<>> /\ memoire = FALSE /\ autre = "loin"
  /\ livrees = {} /\ refus = FALSE /\ rejoue = FALSE

-----------------------------------------------------------------------------
Vers(e) == etape' = e

\* `executer` returns: main decides what follows.
Rendre(i) == Vers("suite") /\ issue' = i

\* One stage of the connection, answered by the server: on to the next, or a
\* failure.
Etape(de, vers) ==
  /\ etape = de /\ ~muet
  /\ (Vers(vers) /\ UNCHANGED issue) \/ Rendre("Err")

-----------------------------------------------------------------------------
(* Before the rounds. *)

\* parse_args: options, then the password on the first line.
LireArguments ==
  /\ etape = "arguments"
  /\ Vers("sonde") \/ Vers("fini")
  /\ UNCHANGED <<tour, duTour, issue, local, reglages, fichiers, histoire>>

\* What earlier sessions noted of the host.
PolitiquePour == IF memoire THEN "Accepter" ELSE "Observer"

\* The layout of the keyboard, each probe bounded by two seconds; then what is
\* known of the host.
Sonder ==
  /\ etape = "sonde"
  /\ Vers("tour")
  /\ politique' = PolitiquePour
  /\ UNCHANGED <<tour, redirige, dessine, muet, hybride, cle, lu, issue, local,
                 reglages, fichiers, histoire>>

-----------------------------------------------------------------------------
(* A round. *)

\* A slip: the page is not told that the connection starts again.
CommencerTour_Muet ==
  /\ etape = "tour"
  /\ IF tour = TOURS_MAX THEN Vers("fini") /\ UNCHANGED tour
     ELSE Vers("tcp") /\ tour' = tour + 1
  /\ dessine' = FALSE /\ cle' = Aucune /\ lu' = Aucune
  /\ UNCHANGED <<redirige, politique, muet, hybride, issue, local, reglages, fichiers, histoire>>

\* executer: the page is told first that the connection starts again, if it is
\* there; if it has left, the announcement may fail.
CommencerTour ==
  /\ etape = "tour"
  /\ IF tour = TOURS_MAX
     THEN Vers("fini") /\ UNCHANGED <<tour, issue, page, rejoue>>
     ELSE /\ tour' = tour + 1
          /\ \/ Vers("tcp") /\ UNCHANGED issue
                /\ rejoue' = (rejoue \/ refus)
                /\ page' = IF poste = "present" THEN "connexion" ELSE page
             \/ /\ poste = "present" /\ client = "parti"
                /\ Rendre("Err") /\ UNCHANGED <<page, rejoue>>
  /\ dessine' = FALSE /\ hybride' = FALSE /\ muet' = FALSE
  /\ cle' = Aucune /\ lu' = Aucune
  /\ UNCHANGED <<redirige, politique, poste, client, entree, reglages, fichiers, livrees, refus>>

\* Ten seconds of its own.
ConnecterTcp ==
  /\ Etape("tcp", "negocie") \/ (etape = "tcp" /\ Rendre("Err"))
  /\ UNCHANGED <<tour, duTour, local, reglages, fichiers, histoire>>

\* The server is offered CredSSP, and besides: plain TLS with --sans-nla, RDSTLS
\* after a redirection.
Offre == IF sansNla \/ redirige THEN BOOLEAN ELSE {TRUE}

Negocier ==
  /\ Etape("negocie", "tls")
  /\ hybride' \in Offre
  /\ UNCHANGED <<tour, redirige, politique, dessine, muet, cle, lu, local, reglages,
                 fichiers, histoire>>

\* Either stack hands over the key that the server presents.
MonterTls ==
  /\ Etape("tls", "epingle")
  /\ cle' \in Cles
  /\ UNCHANGED <<tour, redirige, politique, dessine, muet, hybride, lu, local, reglages,
                 fichiers, histoire>>

\* The first line of the host is the one that counts.
ChercherEmpreinte == IF epingles = <<>> THEN Aucune ELSE Head(epingles)

Juger(memorisee, presentee) ==
  IF memorisee = Aucune THEN "PremierContact"
  ELSE IF memorisee = presentee THEN "Connu" ELSE "Change"

\* A slip: a changed key is learnt in silence.
Epingler_Reapprend ==
  /\ etape = "epingle"
  /\ lu' = ChercherEmpreinte
  /\ \/ Vers(IF ChercherEmpreinte = cle THEN "authentifie" ELSE "memorise")
        /\ UNCHANGED issue
     \/ Rendre("Err")
  /\ UNCHANGED <<tour, redirige, politique, dessine, muet, hybride, cle, local, reglages,
                 fichiers, histoire>>

\* epingler_certificat: an unreadable file is a refusal, a changed key too.
Epingler ==
  /\ etape = "epingle"
  /\ lu' = ChercherEmpreinte
  /\ \/ Juger(lu', cle) = "PremierContact" /\ Vers("memorise") /\ UNCHANGED issue
     \/ Juger(lu', cle) = "Connu" /\ Vers("authentifie") /\ UNCHANGED issue
     \/ Rendre("Err")
  /\ UNCHANGED <<tour, redirige, politique, dessine, muet, hybride, cle, local, reglages,
                 fichiers, histoire>>

\* One line, appended; nothing is read again.
Memoriser ==
  /\ etape = "memorise"
  /\ \/ Vers("authentifie") /\ epingles' = Append(epingles, cle) /\ UNCHANGED issue
     \/ Rendre("Err") /\ UNCHANGED epingles
  /\ UNCHANGED <<tour, duTour, local, reglages, memoire, autre, histoire>>

\* Redirected, and the server did not choose CredSSP.
Rdstls == redirige /\ ~hybride

\* rdstls_authentifier: the credentials that the server made for itself.
AuthentifierRdstls ==
  /\ Etape("authentifie", "finalise") /\ Rdstls
  /\ livrees' = livrees \cup {cle}
  /\ UNCHANGED <<tour, duTour, local, reglages, fichiers, refus, rejoue>>

\* The password, by CredSSP or in the Client Info PDU.  A refusal comes as an
\* answer, or as a cut that nothing tells from a closing once authenticated.
Authentifier ==
  /\ etape = "authentifie" /\ ~muet /\ ~Rdstls
  /\ livrees' = livrees \cup {cle}
  /\ \/ Vers("finalise") /\ UNCHANGED <<issue, refus>>
     \/ Rendre("Err") /\ refus' = TRUE
     \/ Rendre("FermeeApresAuth") /\ refus' = TRUE
  /\ UNCHANGED <<tour, duTour, local, reglages, fichiers, rejoue>>

\* Licence, capabilities, activation: done, failed, or closed by the server.
Finaliser ==
  /\ \/ Etape("finalise", "etablit")
     \/ etape = "finalise" /\ ~muet /\ Rendre("FermeeApresAuth")
  /\ UNCHANGED <<tour, duTour, local, reglages, fichiers, histoire>>

\* A slip: the delay only covers the way to the authentication.
DelaiConnexion_Court ==
  /\ etape \in {"negocie", "tls"} /\ Rendre("Err")
  /\ UNCHANGED <<tour, duTour, local, reglages, fichiers, histoire>>

\* The delay of the whole connection.
DelaiConnexion ==
  /\ etape \in SousDelai /\ Rendre("Err")
  /\ UNCHANGED <<tour, duTour, local, reglages, fichiers, histoire>>

-----------------------------------------------------------------------------
(* The local client and the session. *)

\* A slip: every round opens a listener of its own.
EtablirPoste_Neuf ==
  /\ etape = "etablit"
  /\ \/ Vers("attend") /\ poste' = "annonce" /\ UNCHANGED issue
     \/ Rendre("Err") /\ UNCHANGED poste
  /\ UNCHANGED <<tour, duTour, client, entree, page, reglages, fichiers, histoire>>

\* The size is judged; then the listener, unless it survives from an earlier
\* round, and its announcement.
EtablirPoste ==
  /\ etape = "etablit"
  /\ \/ /\ poste = "present" /\ Vers("session") /\ page' = "direct"
        /\ UNCHANGED <<poste, issue>>
     \/ /\ poste = "aucun" /\ Vers("attend") /\ poste' = "annonce"
        /\ UNCHANGED <<page, issue>>
     \/ Rendre("Err") /\ UNCHANGED <<poste, page>>
  /\ UNCHANGED <<tour, duTour, client, entree, reglages, fichiers, histoire>>

\* The first client with the token, which is told [1]; or a minute without one.
AttendreClient ==
  /\ etape = "attend"
  /\ \/ /\ client # "absent" /\ Vers("session")
        /\ poste' = "present" /\ page' = "direct"
        /\ UNCHANGED issue
     \/ client = "absent" /\ Rendre("Err") /\ UNCHANGED <<poste, page>>
  /\ UNCHANGED <<tour, duTour, client, entree, reglages, fichiers, histoire>>

\* A Windows server given the graphics channel falls silent on the classic
\* path; a GNOME one has no other.
PeutDessiner ==
  nature = IF politique = "Accepter" THEN "graphique" ELSE "classique"

Dessiner ==
  /\ etape = "session" /\ PeutDessiner /\ ~dessine
  /\ dessine' = TRUE
  /\ UNCHANGED <<etape, tour, redirige, politique, muet, hybride, cle, lu, issue, local,
                 reglages, fichiers, histoire>>

\* The server ends it, redirects, or the connection breaks; the client leaves;
\* nothing drawn after four seconds without the graphics channel.
FinirSession ==
  /\ etape = "session"
  /\ \/ Rendre("Fini") \/ Rendre("Rediriger") \/ Rendre("Err")
     \/ politique = "Observer" /\ ~dessine /\ Rendre("Reprendre")
  /\ UNCHANGED <<tour, duTour, local, reglages, fichiers, histoire>>

FautIlReprendre ==
  /\ politique = "Observer" /\ ~dessine
  /\ issue \in {"Fini", "FermeeApresAuth"}

EgfxMemoriser(vu) == memoire' = (memoire \/ vu)

\* main, after a round.
Suivre ==
  LET i == IF FautIlReprendre THEN "Reprendre" ELSE issue IN
  /\ etape = "suite"
  /\ issue' = "aucune"
  /\ Vers(IF i \in {"Reprendre", "Rediriger"} THEN "tour" ELSE "fini")
  /\ redirige' = (i = "Rediriger")
  /\ politique' = IF i = "Reprendre" THEN "Accepter" ELSE politique
  /\ EgfxMemoriser(i = "Reprendre")
  /\ UNCHANGED <<tour, dessine, muet, hybride, cle, lu, local, reglages, epingles, autre, histoire>>

-----------------------------------------------------------------------------
(* The parent and the page. *)

FermerEntree ==
  /\ entree /\ entree' = FALSE
  /\ UNCHANGED <<etape, tour, duTour, issue, poste, client, page, reglages, fichiers, histoire>>

\* The thread of the standard input ends the process, once the password is read.
FinEntree ==
  /\ ~entree /\ etape \notin Avant \cup {"fini"}
  /\ Vers("fini")
  /\ UNCHANGED <<tour, duTour, issue, local, reglages, fichiers, histoire>>

Presenter ==
  /\ etape = "attend" /\ client = "absent" /\ client' = "la"
  /\ UNCHANGED <<etape, tour, duTour, issue, poste, entree, page, reglages, fichiers, histoire>>

Partir ==
  /\ client = "la" /\ client' = "parti"
  /\ UNCHANGED <<etape, tour, duTour, issue, poste, entree, page, reglages, fichiers, histoire>>

\* The server neither answers nor closes any more.
SeTaire ==
  /\ etape \in Connexion /\ ~muet /\ muet' = TRUE
  /\ UNCHANGED <<etape, tour, redirige, politique, dessine, hybride, cle, lu, issue,
                 local, reglages, fichiers, histoire>>

\* Another process of the host reads no key, then writes the one it was shown.
AutreLit ==
  /\ autre = "loin" /\ epingles = <<>> /\ autre' = "lu"
  /\ UNCHANGED <<etape, tour, duTour, issue, local, reglages, epingles, memoire, histoire>>

AutreMemorise(k) ==
  /\ autre = "lu" /\ autre' = "passe"
  /\ epingles' = Append(epingles, k) /\ memoire' \in {memoire, TRUE}
  /\ UNCHANGED <<etape, tour, duTour, issue, local, reglages, histoire>>

-----------------------------------------------------------------------------
\* What goes on by itself: answers, and the delay of every wait.
Avancer ==
  \/ LireArguments \/ Sonder \/ CommencerTour \/ ConnecterTcp \/ Negocier
  \/ MonterTls \/ Epingler \/ Memoriser \/ AuthentifierRdstls \/ Authentifier
  \/ Finaliser \/ DelaiConnexion \/ EtablirPoste \/ AttendreClient \/ Suivre \/ FinEntree

Next ==
  \/ Avancer \/ Dessiner \/ FinirSession \/ FermerEntree \/ Presenter \/ Partir \/ SeTaire
  \/ AutreLit \/ \E k \in Cles : AutreMemorise(k)

(* The process goes on by itself where it can, and its delays come to their *)
(* end; the server owes nothing.  A session lasts as long as both sides     *)
(* want it; it ends when the client has left.                               *)
Fairness ==
  WF_vars(Avancer) /\ WF_vars(client = "parti" /\ FinirSession)

Spec == Init /\ [][Next]_vars /\ Fairness

-----------------------------------------------------------------------------
(* A password goes only to a key that is written down; and a process that   *)
(* found a key written goes to that one alone.  Two first contacts at once  *)
(* may each write and use their own: the first line then decides for all    *)
(* who come after.                                                          *)
IdentifiantsTenus ==
  /\ \A k \in livrees : \E i \in DOMAIN epingles : epingles[i] = k
  /\ etape \in {"authentifie", "finalise"} => lu \in {cle, Aucune}

(* The tab is « direct » only while a session is up: whatever makes the     *)
(* connection start again, the page has been told before.                   *)
DirectVrai ==
  page = "direct" => etape \notin Connexion \cup {"etablit"}

(* « Un échec pré-session ne doit ni mémoriser ni relancer »: a password    *)
(* that was refused is not presented again by the same process.             *)
RefusNonRejoue == ~rejoue

(* The process comes to a session or to its end, whatever the server does.  *)
Aboutit == TRUE ~> (etape \in {"session", "fini"})

-----------------------------------------------------------------------------
(* The abstract process that the application counts on.                     *)
Vie ==
  IF etape = "fini" THEN "fini"
  ELSE IF etape = "arguments" THEN "lit"
  ELSE CASE poste = "present" -> "sert"
         [] poste = "annonce" -> "attend"
         [] OTHER -> "connecte"

Abstrait == INSTANCE ProcessusBureau WITH vie <- Vie

(* The process implements ProcessusBureau through its redirections and      *)
(* reconnections: one announcement, only once it is connected, one client;  *)
(* and it does not outlive its parent, its client or the wait for one.      *)
ImplementeProcessus == Abstrait!Spec

=============================================================================
