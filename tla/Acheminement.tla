----------------------------- MODULE Acheminement -----------------------------
(***************************************************************************)
(* What flows through an open tunnel: the listener, or the registration at *)
(* the server, that brings connections (Tunnel::open, accept_loop of       *)
(* crates/avash/src/tunnel.rs, remote_forward and                          *)
(* server_channel_open_forwarded_tcpip of ssh.rs), what each goes through  *)
(* before it is relayed (relay_one, socks5_handshake), and the relay that  *)
(* copies both ways and counts (ForwardCounters::relay).                   *)
(***************************************************************************)
EXTENDS Naturals, FiniteSets, Functions

CONSTANTS
  Connexions,  \* connections that clients may open
  Genres,      \* kinds of tunnel looked at
  UNITES,      \* bound: units each side sends
  TAMPON,      \* bound: units the system holds between two ends
  LOT,         \* bound of the code: units read at once
  Echo         \* does the destination send back each unit before it reads on?

ASSUME AcheminementAssumption ==
  /\ IsFiniteSet(Connexions)
  /\ Genres \subseteq {"local", "remote", "dynamic"} /\ Echo \in BOOLEAN
  /\ UNITES \in Nat /\ {TAMPON, LOT} \subseteq Nat \ {0}

VARIABLES
  genre,   \* the kind of the tunnel
  tunnel,  \* its life; whether the server listens for it, and is known to
  cx,      \* its connections
  actives, \* ForwardCounters
  octets

varsAcheminement == <<genre, tunnel, cx, actives, octets>>

\* The side whose bytes go up (a of relay), and the other.
Cotes == {"a", "b"}
Autre(x) == IF x = "a" THEN "b" ELSE "a"
\* The side that is a channel of the session.
CoteCanal == IF genre = "remote" THEN "a" ELSE "b"

Deux(v) == [x \in Cotes |-> v]
Repos == [phase |-> "repos", pc |-> "choix", main |-> 0, lot |-> 0, close |-> Deux(FALSE),
          emis |-> Deux(0), recu |-> Deux(0), entrant |-> Deux(0), sortant |-> Deux(0),
          fin |-> Deux(FALSE), coupe |-> Deux(FALSE)]

Connexion ==
  [phase : {"repos", "file", "negocie", "joint", "relaie", "fini", "refuse"},
   pc : {"choix", "a", "b"}, main : 0 .. LOT, lot : 0 .. LOT, close : [Cotes -> BOOLEAN],
   emis : [Cotes -> Nat], recu : [Cotes -> Nat],
   entrant : [Cotes -> 0 .. TAMPON], sortant : [Cotes -> 0 .. TAMPON],
   fin : [Cotes -> BOOLEAN], coupe : [Cotes -> BOOLEAN]]

TypesAcheminement ==
  /\ genre \in Genres
  /\ tunnel \in [phase : {"repos", "ouvre", "ouvert", "ferme"}, ecoute : BOOLEAN, connu : BOOLEAN]
  /\ cx \in [Connexions -> Connexion]
  /\ actives \in Nat /\ octets \in [Cotes -> Nat]

InitAcheminement ==
  /\ genre \in Genres
  /\ tunnel = [phase |-> "repos", ecoute |-> FALSE, connu |-> FALSE]
  /\ cx = [c \in Connexions |-> Repos]
  /\ actives = 0 /\ octets = Deux(0)

Ailleurs == UNCHANGED <<genre, tunnel, actives, octets>>

-----------------------------------------------------------------------------
(* The life of the tunnel. *)

\* The destination is entered once the server has answered.
DemanderTunnel_Inconnu ==
  /\ tunnel.phase = "repos"
  /\ tunnel' = [tunnel EXCEPT !.phase = "ouvre"]
  /\ UNCHANGED <<genre, cx, actives, octets>>

\* remote_forward: the destination is entered before the request.
DemanderTunnel ==
  /\ tunnel.phase = "repos"
  /\ tunnel' = [tunnel EXCEPT !.phase = "ouvre", !.connu = genre = "remote"]
  /\ UNCHANGED <<genre, cx, actives, octets>>

\* The server listens: its answer is still on its way.
EcouterServeur ==
  /\ genre = "remote" /\ tunnel.phase = "ouvre" /\ ~tunnel.ecoute
  /\ tunnel' = [tunnel EXCEPT !.ecoute = TRUE]
  /\ UNCHANGED <<genre, cx, actives, octets>>

\* Tunnel::open: the listener is bound, or the server has answered.
OuvrirTunnel ==
  /\ tunnel.phase = "ouvre" /\ (genre = "remote" => tunnel.ecoute)
  /\ tunnel' = [tunnel EXCEPT !.phase = "ouvert", !.ecoute = TRUE]
  /\ UNCHANGED <<genre, cx, actives, octets>>

\* A side is gone: what it had sent and not been read is lost, what goes to it too.
Perdre(k, x) == [k EXCEPT !.coupe[x] = TRUE, !.entrant[x] = 0, !.sortant[x] = 0]

\* Tunnel::close: the listener, the registration, then the session. The relays
\* are not interrupted: their channel ends.
FermerTunnel ==
  /\ tunnel.phase = "ouvert"
  /\ tunnel' = [phase |-> "ferme", ecoute |-> FALSE, connu |-> FALSE]
  /\ cx' = [c \in Connexions |->
              IF cx[c].phase = "file" THEN [Repos EXCEPT !.phase = "refuse"]
              ELSE IF cx[c].phase \in {"joint", "relaie"} THEN Perdre(cx[c], CoteCanal)
              ELSE cx[c]]
  /\ UNCHANGED <<genre, actives, octets>>

-----------------------------------------------------------------------------
(* A connection, up to its relay. *)

\* A client reaches the port.
Arriver(c) ==
  /\ cx[c].phase = "repos" /\ tunnel.ecoute
  /\ cx' = [cx EXCEPT ![c].phase = "file"]
  /\ Ailleurs

\* accept_loop; or the handler, that knows the destination or rejects.
Accepter(c) ==
  /\ cx[c].phase = "file" /\ (genre # "remote" => tunnel.phase = "ouvert")
  /\ cx' = [cx EXCEPT ![c].phase = CASE genre = "dynamic" -> "negocie"
                                     [] genre = "remote" /\ ~tunnel.connu -> "refuse"
                                     [] OTHER -> "joint"]
  /\ Ailleurs

\* socks5_handshake: the destination, or a refusal.
Negocier(c) ==
  /\ cx[c].phase = "negocie"
  /\ \E p \in {"joint", "refuse"} : cx' = [cx EXCEPT ![c].phase = p]
  /\ Ailleurs

\* open_direct_tcpip, or the connection to the local destination.
Joindre(c) ==
  /\ cx[c].phase = "joint"
  /\ \/ /\ genre = "remote" \/ tunnel.phase # "ferme"
        /\ cx' = [cx EXCEPT ![c].phase = "relaie"] /\ actives' = actives + 1
        /\ UNCHANGED <<genre, tunnel, octets>>
     \/ cx' = [cx EXCEPT ![c] = [Repos EXCEPT !.phase = "refuse"]] /\ Ailleurs

-----------------------------------------------------------------------------
(* The two ends of a connection. *)

Bout(c, k) == cx' = [cx EXCEPT ![c] = k] /\ Ailleurs
EnEcho(x) == Echo /\ x = "b"

Emettre(c, x) ==
  LET k == cx[c] IN
  /\ k.phase = "relaie" /\ ~k.fin[x] /\ ~k.coupe[x]
  /\ k.emis[x] < UNITES /\ k.entrant[x] < TAMPON
  /\ EnEcho(x) => k.emis[x] < k.recu[x]
  /\ Bout(c, [k EXCEPT !.emis[x] = @ + 1, !.entrant[x] = @ + 1])

\* An end that has said everything says so.
FinirCote(c, x) ==
  LET k == cx[c] IN
  /\ k.phase = "relaie" /\ ~k.fin[x] /\ ~k.coupe[x]
  /\ EnEcho(x) => k.emis[x] = k.recu[x] /\ k.close[x] /\ k.sortant[x] = 0
  /\ Bout(c, [k EXCEPT !.fin[x] = TRUE])

Recevoir(c, x) ==
  LET k == cx[c] IN
  /\ k.sortant[x] > 0
  /\ EnEcho(x) => k.emis[x] = k.recu[x]
  /\ Bout(c, [k EXCEPT !.sortant[x] = @ - 1, !.recu[x] = @ + 1])

\* An end is cut.
CouperCote(c, x) ==
  /\ cx[c].phase = "relaie" /\ ~cx[c].coupe[x]
  /\ Bout(c, Perdre(cx[c], x))

-----------------------------------------------------------------------------
(* ForwardCounters::relay. *)

\* The end of a side stops both ways.
Lire_DemiFermee(c, x) ==
  LET k == cx[c]
      n == IF k.entrant[x] < LOT THEN k.entrant[x] ELSE LOT
  IN /\ k.phase = "relaie" /\ k.pc = "choix" /\ ~k.close[x] /\ ~k.close[Autre(x)] /\ n > 0
     /\ Bout(c, [k EXCEPT !.entrant[x] = @ - n, !.main = n, !.lot = n, !.pc = x])

\* What is there, up to the size of the buffer.
Lire(c, x) ==
  LET k == cx[c]
      n == IF k.entrant[x] < LOT THEN k.entrant[x] ELSE LOT
  IN /\ k.phase = "relaie" /\ k.pc = "choix" /\ ~k.close[Autre(x)] /\ n > 0
     /\ Bout(c, [k EXCEPT !.entrant[x] = @ - n, !.main = n, !.lot = n, !.pc = x])

Rendre(c, k) ==
  /\ cx' = [cx EXCEPT ![c] = [k EXCEPT !.phase = "fini"]]
  /\ actives' = actives - 1
  /\ UNCHANGED <<genre, tunnel, octets>>

\* The relay stops at the first end it reads.
LireFin_Premiere(c, x) ==
  LET k == cx[c] IN
  /\ k.phase = "relaie" /\ k.pc = "choix" /\ k.entrant[x] = 0
  /\ k.fin[x] \/ k.coupe[x]
  /\ Rendre(c, [k EXCEPT !.close = Deux(TRUE)])

\* An error is not an end.
LireFin_SansErreur(c, x) ==
  LET k == cx[c]
      suite == [k EXCEPT !.close[Autre(x)] = TRUE]
  IN /\ k.phase = "relaie" /\ k.pc = "choix" /\ ~k.close[Autre(x)] /\ k.entrant[x] = 0
     /\ k.fin[x]
     /\ IF k.close[x] THEN Rendre(c, suite) ELSE Bout(c, suite)

\* The end of a side, or an error: the other is told, and goes on.
LireFin(c, x) ==
  LET k == cx[c]
      suite == [k EXCEPT !.close[Autre(x)] = TRUE]
  IN /\ k.phase = "relaie" /\ k.pc = "choix" /\ ~k.close[Autre(x)] /\ k.entrant[x] = 0
     /\ k.fin[x] \/ k.coupe[x]
     /\ IF k.close[x] THEN Rendre(c, suite) ELSE Bout(c, suite)

\* write_all, a unit at a time; nothing is read meanwhile. The lot is counted
\* once it is written.
EcrireCote(c, x) ==
  LET k == cx[c]
      y == Autre(x)
      suite == [k EXCEPT !.sortant[y] = @ + 1, !.main = @ - 1]
  IN /\ k.phase = "relaie" /\ k.pc = x /\ ~k.coupe[y] /\ k.sortant[y] < TAMPON
     /\ IF k.main > 1
        THEN Bout(c, suite)
        ELSE /\ cx' = [cx EXCEPT ![c] = [suite EXCEPT !.pc = "choix", !.lot = 0]]
             /\ octets' = [octets EXCEPT ![x] = @ + k.lot]
             /\ UNCHANGED <<genre, tunnel, actives>>

\* Nothing is given back.
Casser_Compte(c) ==
  LET k == cx[c] IN
  /\ k.phase = "relaie" /\ k.pc # "choix" /\ k.coupe[Autre(k.pc)]
  /\ Bout(c, [k EXCEPT !.phase = "fini"])

\* The other side is gone: both are dropped.
Casser(c) ==
  LET k == cx[c] IN
  /\ k.phase = "relaie" /\ k.pc # "choix" /\ k.coupe[Autre(k.pc)]
  /\ Rendre(c, [Perdre(k, k.pc) EXCEPT !.pc = "choix", !.main = 0, !.lot = 0])

NextAcheminement ==
  \/ DemanderTunnel \/ EcouterServeur \/ OuvrirTunnel \/ FermerTunnel
  \/ \E c \in Connexions :
       \/ Arriver(c) \/ Accepter(c) \/ Negocier(c) \/ Joindre(c) \/ Casser(c)
       \/ \E x \in Cotes :
            \/ Emettre(c, x) \/ FinirCote(c, x) \/ Recevoir(c, x) \/ CouperCote(c, x)
            \/ Lire(c, x) \/ LireFin(c, x) \/ EcrireCote(c, x)

\* The tasks run; select! draws among the arms that are ready, so none is
\* passed over for ever; each end reads what it is sent, and an end that sends
\* back does; nothing else is expected of them.
EquiteAcheminement == \A c \in Connexions :
  /\ WF_varsAcheminement(Casser(c))
  /\ \A x \in Cotes :
       /\ SF_varsAcheminement(Lire(c, x)) /\ SF_varsAcheminement(LireFin(c, x)) /\ WF_varsAcheminement(EcrireCote(c, x))
       /\ WF_varsAcheminement(Recevoir(c, x)) /\ WF_varsAcheminement(Emettre(c, x) /\ EnEcho(x))

SpecAcheminement == InitAcheminement /\ [][NextAcheminement]_varsAcheminement
FairSpecAcheminement == SpecAcheminement /\ EquiteAcheminement

-----------------------------------------------------------------------------
(* Properties. *)

Intacte(k) == \A x \in Cotes : ~k.coupe[x]
Livre(k, x) == k.recu[Autre(x)] + k.sortant[Autre(x)]

\* Every unit of an uncut connection is somewhere between its two ends; an end
\* is told of the end of the other after its last unit, and the relay is over
\* when both are (relay, comment on the half close).
RienDePerdu == \A c \in Connexions : LET k == cx[c] IN Intacte(k) =>
  \A x \in Cotes :
    /\ k.emis[x] = k.entrant[x] + (IF k.pc = x THEN k.main ELSE 0) + Livre(k, x)
    /\ k.close[Autre(x)] => k.fin[x] /\ k.emis[x] = Livre(k, x)
    /\ k.phase = "fini" => k.close[x]

\* What a connection has brought to the total of the units that x sent: those of a
\* lot are counted at its end.
Portes(x) == [c \in Connexions |->
                Livre(cx[c], x) - IF cx[c].pc = x THEN cx[c].lot - cx[c].main ELSE 0]

\* What the interface shows: the connections being relayed, and the units
\* written, never one that was not.
ComptesVrais ==
  /\ actives = Cardinality({c \in Connexions : cx[c].phase = "relaie"})
  /\ (\A c \in Connexions : Intacte(cx[c])) => \A x \in Cotes : octets[x] = SumFunction(Portes(x))

\* What the connections of a tunnel promise.
AcheminementTenu == TypesAcheminement /\ RienDePerdu /\ ComptesVrais

\* A client that the server lets through before it has answered the request for
\* a remote port finds its destination (comment of remote_forward).
ConnueAvant ==
  [][\A c \in Connexions :
       cx[c].phase = "file" /\ cx'[c].phase = "refuse" => tunnel'.phase = "ferme"]_varsAcheminement

\* A unit sent reaches the other end, or the connection is cut
\* (ForwardCounters::relay).
Coule == \A c \in Connexions : \A x \in Cotes :
  cx[c].entrant[x] > 0 ~> cx[c].entrant[x] = 0 \/ cx[c].phase = "fini"

\* A connection whose ends have said everything is over.
RelaisRendu == \A c \in Connexions :
  cx[c].phase = "relaie" /\ (\A x \in Cotes : cx[c].fin[x] \/ cx[c].coupe[x]) ~> cx[c].phase # "relaie"
=============================================================================
