------------------------------- MODULE Sortie -------------------------------
(***************************************************************************)
(* The output of a terminal tab, from the server to the screen and to the  *)
(* recording: the pump of crates/avash/src/ssh.rs, the relay               *)
(* `relayer_sortie` and the acknowledgements of                            *)
(* crates/avash-ui/src/commands/sessions.rs, the recorder of               *)
(* crates/avash/src/enregistrement.rs, and the listener of web/main.ts.    *)
(*                                                                         *)
(* One tab number serves successive sessions 1, 2, ...: a reconnection or  *)
(* a reload of the webview opens the next one while the previous relay may *)
(* still be draining, and both speak of the same id.  Each await of the    *)
(* relay is a state, what it does between two awaits is one step.          *)
(*                                                                         *)
(* Time is abstract: a deadline may pass whenever it is set, and whether   *)
(* the window COALESCE has been quiet is chosen at each block.             *)
(***************************************************************************)
EXTENDS Naturals, Sequences, FiniteSets

-----------------------------------------------------------------------------
(* Utf8Stream of sessions.rs: decoding an output that arrives in arbitrary   *)
(* blocks.  A byte is known by its role: "a" stands alone, "l" announces one *)
(* continuation, "L" announces two, "c" continues.  A character is one of    *)
(* "A", "e", "E", or "?" for the replacement character.                      *)

Octets == {"a", "l", "L", "c"}
Caracteres == {"A", "e", "E", "?"}

Suites(b) == CASE b = "l" -> 1 [] b = "L" -> 2 [] OTHER -> 0
Lettre(b) == CASE b = "a" -> "A" [] b = "l" -> "e" [] b = "L" -> "E" [] OTHER -> "?"

\* What `str::from_utf8` finds at position i of s: a character, an invalid
\* sequence with the length `error_len` gives it, or a truncated end.
UniteA(s, i) ==
  LET voulues == Suites(s[i])
      tient(k) == \A q \in 1 .. k : i + q <= Len(s) /\ s[i + q] = "c"
      k == CHOOSE n \in 0 .. voulues : tient(n) /\ (n = voulues \/ ~ tient(n + 1))
  IN [taille |-> k + 1,
      sorte |-> IF s[i] = "c" THEN "invalide"
                ELSE IF k = voulues THEN "valide"
                ELSE IF i + k = Len(s) THEN "tronquee"
                ELSE "invalide"]

\* Nothing read, nothing held.
Debut == [texte |-> <<>>, reste |-> <<>>]

\* What is read of s from position i on, `lu` being what is read from the
\* positions that follow.
LuA(s, i, lu) ==
  IF i > Len(s) THEN Debut
  ELSE LET u == UniteA(s, i)
           lettre == IF u.sorte = "valide" THEN Lettre(s[i]) ELSE "?"
       IN IF u.sorte = "tronquee" THEN [texte |-> <<>>, reste |-> SubSeq(s, i, Len(s))]
          ELSE [texte |-> <<lettre>> \o lu[i + u.taille].texte, reste |-> lu[i + u.taille].reste]

\* One call of push: the text it returns and the carry it leaves.
Push(carry, bloc) ==
  LET s == carry \o bloc
      lu[i \in 1 .. Len(s) + 1] == LuA(s, i, lu)
  IN lu[1]

\* The definition it must agree with: a lossy decoder that reads all the
\* bytes of the stream one by one, and what it has not finished reading.
Pas(e, b) ==
  LET coupe == IF e.reste = <<>> THEN e.texte ELSE Append(e.texte, "?") IN
  IF e.reste = <<>> \/ b # "c"
  THEN IF Suites(b) > 0 THEN [texte |-> coupe, reste |-> <<b>>]
       ELSE [texte |-> Append(coupe, Lettre(b)), reste |-> <<>>]
  ELSE IF Len(e.reste) = Suites(e.reste[1])
       THEN [texte |-> Append(e.texte, Lettre(e.reste[1])), reste |-> <<>>]
       ELSE [texte |-> e.texte, reste |-> Append(e.reste, b)]

LectureDepuis(debut, octets) ==
  LET etat[n \in 0 .. Len(octets)] == IF n = 0 THEN debut ELSE Pas(etat[n - 1], octets[n])
  IN etat[Len(octets)]

Lecture(octets) == LectureDepuis(Debut, octets)

-----------------------------------------------------------------------------
(* The tab.                                                                *)

CONSTANTS
  MaxSessions,   \* sessions the tab number serves (bounds the model)
  MaxOctets,     \* bytes the servers send in all (bounds the model)
  Blocs,         \* the blocks the server of each session may send (bounds the model)
  CapCanal,      \* capacity of the channel from the pump to the relay
  EN_VOL_MAX,    \* messages without acknowledgement
  FLUSH,         \* text that is emitted at once (FLUSH_BYTES)
  Enregistrables, \* sessions a recording may be asked of (bounds the model)
  MaxGestes      \* recordings asked for (bounds the model)

ASSUME SortieAssumption ==
  /\ MaxSessions \in Nat \ {0} /\ MaxOctets \in Nat /\ Blocs \in [1 .. MaxSessions -> SUBSET Seq(Octets)]
  /\ CapCanal \in Nat \ {0} /\ EN_VOL_MAX \in Nat \ {0} /\ FLUSH \in Nat \ {0}
  /\ MaxGestes \in Nat /\ Enregistrables \subseteq 1 .. MaxSessions

VARIABLES
  courante,   \* the latest session opened on the number; 0 before the first
  poignee,    \* each session: its handle is in SessionStore.inner
  pompe,      \* each session: "absente", "vit", "finie"
  attente,    \* en_attente of the pump: a block, or <<>>
  canal,      \* out_tx/out_rx
  relais,     \* each session: the locals of relayer_sortie
  dernier,    \* Accuse.dernier of each session
  permis,     \* the permit of Accuse.reveil
  accuses,    \* Accuses.inner for the number: whose Accuse; 0 for none
  reveil,     \* pty_ack stands before notify_one for this session; 0
  file,       \* pty-output messages the page has not written yet
  acks,       \* calls of pty_ack on their way
  enr,        \* each session: its recorder and its file
  gestes,     \* recordings asked for so far
  recu,       \* history: bytes the pump took and did not abandon
  emis,       \* history: the text each relay has emitted
  vu,         \* history: the last message of each relay the page has written
  indu        \* history: sessions whose Accuse was given another's number

sessionVars == <<courante, poignee>>
pompeVars == <<pompe, attente, recu>>
sortieVars == <<relais, emis, file>>
ackVars == <<dernier, accuses, reveil, acks, indu>>
vars == <<courante, poignee, pompe, attente, canal, relais, dernier, permis,
          accuses, reveil, file, acks, enr, gestes, recu, emis,
          vu, indu>>

-----------------------------------------------------------------------------
Sessions == 1 .. MaxSessions
Textes == Seq(Caracteres)

\* `lit` is in recv, with the window open; `attend` is in notified().
EtapesRelais == {"absent", "lit", "attend", "fini"}

RelaisNeuf == [etape |-> "absent", carry |-> <<>>, tampon |-> <<>>, echeance |-> FALSE,
               premier |-> TRUE, seq |-> 0, filet |-> 0]

\* `depuis` is how much text the session had given when the recorder was put
\* in its slot, `texte` what it was given, `disque` how much was flushed.
EnrVide == [etat |-> "aucun", depuis |-> 0, texte |-> <<>>, disque |-> 0]
EtatsEnr == {"aucun", "actif", "condamne", "clos"}

MaxEntre(a, b) == IF a >= b THEN a ELSE b
Aplat(blocs) ==
  LET f[n \in 0 .. Len(blocs)] == IF n = 0 THEN <<>> ELSE f[n - 1] \o blocs[n]
  IN f[Len(blocs)]
OctetsPris ==
  LET f[n \in 0 .. MaxSessions] == IF n = 0 THEN 0 ELSE f[n - 1] + Len(recu[n])
  IN f[MaxSessions]

\* All the text a relay has decoded.
Decode(g) == emis[g] \o relais[g].tampon

TypeOK ==
  /\ courante \in 0 .. MaxSessions
  /\ poignee \in [Sessions -> BOOLEAN]
  /\ pompe \in [Sessions -> {"absente", "vit", "finie"}]
  /\ attente \in [Sessions -> Seq(Octets)]
  /\ canal \in [Sessions -> Seq(Seq(Octets))]
  /\ \A g \in Sessions : Len(canal[g]) <= CapCanal
  /\ relais \in [Sessions -> [etape : EtapesRelais, carry : Seq(Octets), tampon : Textes,
                              echeance : BOOLEAN, premier : BOOLEAN, seq : Nat, filet : Nat]]
  /\ \A g \in Sessions : Len(relais[g].carry) < 3 /\ relais[g].filet <= relais[g].seq
  /\ dernier \in [Sessions -> Nat]
  /\ permis \in [Sessions -> BOOLEAN]
  /\ {accuses, reveil} \subseteq 0 .. MaxSessions
  /\ file \in Seq([session : Sessions, seq : Nat])
  /\ acks \subseteq [session : Sessions, seq : Nat]
  /\ enr \in [Sessions -> [etat : EtatsEnr, depuis : Nat, texte : Textes, disque : Nat]]
  /\ gestes \in 0 .. MaxGestes
  /\ recu \in [Sessions -> Seq(Octets)]
  /\ emis \in [Sessions -> Textes]
  /\ vu \in [Sessions -> Nat]
  /\ indu \subseteq Sessions

Init ==
  /\ courante = 0
  /\ poignee = [g \in Sessions |-> FALSE]
  /\ pompe = [g \in Sessions |-> "absente"]
  /\ attente = [g \in Sessions |-> <<>>]
  /\ canal = [g \in Sessions |-> <<>>]
  /\ relais = [g \in Sessions |-> RelaisNeuf]
  /\ dernier = [g \in Sessions |-> 0]
  /\ permis = [g \in Sessions |-> FALSE]
  /\ accuses = 0 /\ reveil = 0
  /\ file = <<>> /\ acks = {}
  /\ enr = [g \in Sessions |-> EnrVide]
  /\ gestes = 0
  /\ recu = [g \in Sessions |-> <<>>]
  /\ emis = [g \in Sessions |-> <<>>]
  /\ vu = [g \in Sessions |-> 0]
  /\ indu = {}

-----------------------------------------------------------------------------
\* The recorder.  A refused write condemns it and takes it out of its slot;
\* the file then promises nothing more.
Condamne == [EnrVide EXCEPT !.etat = "condamne"]
Noter_Avale(e, texte) ==   \* a refused write leaves the recorder in its slot
  IF e.etat = "actif" THEN {[e EXCEPT !.texte = @ \o texte], e} ELSE {e}

Noter(e, texte) ==
  IF e.etat = "actif" THEN {[e EXCEPT !.texte = @ \o texte], Condamne} ELSE {e}
Vider(e) ==
  IF e.etat = "actif" THEN {[e EXCEPT !.disque = Len(e.texte)], Condamne} ELSE {e}
\* arreter: the last flush, and an error for an incomplete file.
Cloturer(e) ==
  IF e.etat = "actif"
  THEN {[e EXCEPT !.etat = "clos", !.disque = Len(e.texte)], Condamne} ELSE {e}

\* A session is registered under the number, which drops the handle of the
\* one before, and its relay starts.
Ouvrir ==
  /\ courante < MaxSessions
  /\ LET g == courante + 1 IN
     /\ courante' = g
     /\ poignee' = [h \in Sessions |-> h = g]
     /\ pompe' = [pompe EXCEPT ![g] = "vit"]
     /\ relais' = [relais EXCEPT ![g].etape = "lit"]
     /\ accuses' = g
  /\ UNCHANGED <<attente, canal, dernier, permis, reveil, file, acks, gestes, enr,
                 recu, emis, vu, indu>>

-----------------------------------------------------------------------------
\* The pump.  It reads the server while no block waits, and serves the
\* keyboard whether one waits or not.
LireServeur(g, bloc) ==
  /\ pompe[g] = "vit" /\ attente[g] = <<>>
  /\ OctetsPris + Len(bloc) <= MaxOctets
  /\ recu' = [recu EXCEPT ![g] = @ \o bloc]
  /\ IF Len(canal[g]) < CapCanal
     THEN canal' = [canal EXCEPT ![g] = Append(@, bloc)] /\ UNCHANGED attente
     ELSE attente' = [attente EXCEPT ![g] = bloc] /\ UNCHANGED canal
  /\ UNCHANGED <<sessionVars, pompe, sortieVars, ackVars, permis, gestes, enr, vu>>

PousserAttente_Repete(g) ==   \* the block is sent and still waits
  /\ pompe[g] = "vit" /\ attente[g] # <<>> /\ Len(canal[g]) < CapCanal
  /\ canal' = [canal EXCEPT ![g] = Append(@, attente[g])]
  /\ UNCHANGED <<sessionVars, pompeVars, sortieVars, ackVars, permis, gestes, enr, vu>>

\* A block that waits goes as soon as the channel has room.
PousserAttente(g) ==
  /\ pompe[g] = "vit" /\ attente[g] # <<>> /\ Len(canal[g]) < CapCanal
  /\ canal' = [canal EXCEPT ![g] = Append(@, attente[g])]
  /\ attente' = [attente EXCEPT ![g] = <<>>]
  /\ UNCHANGED <<sessionVars, pompe, recu, sortieVars, ackVars, permis, gestes, enr, vu>>

FinServeur(g) ==
  /\ pompe[g] = "vit" /\ attente[g] = <<>>
  /\ pompe' = [pompe EXCEPT ![g] = "finie"]
  /\ UNCHANGED <<sessionVars, attente, recu, canal, sortieVars, ackVars, permis, gestes,
                 enr, vu>>

\* The handle was dropped, or a key or a resize met a dead connection: the
\* block that waits is abandoned.
Couper(g) ==
  /\ pompe[g] = "vit"
  /\ pompe' = [pompe EXCEPT ![g] = "finie"]
  /\ recu' = [recu EXCEPT ![g] = SubSeq(@, 1, Len(@) - Len(attente[g]))]
  /\ attente' = [attente EXCEPT ![g] = <<>>]
  /\ UNCHANGED <<sessionVars, canal, sortieVars, ackVars, permis, gestes, enr, vu>>

-----------------------------------------------------------------------------
\* The relay.
EnVol(seq, accuse) == IF seq >= accuse THEN seq - accuse ELSE 0
Place_UnDeTrop(g, r) == EnVol(r.seq, MaxEntre(dernier[g], r.filet)) <= EN_VOL_MAX

Place(g, r) == EnVol(r.seq, MaxEntre(dernier[g], r.filet)) < EN_VOL_MAX
Reprendre(g, r) == [r EXCEPT !.etape = IF Place(g, r) THEN "lit" ELSE "attend"]

\* emettre_tampon: the message leaves, then the recorder is flushed.
EmettreTampon(g, r, e) ==
  /\ file' = Append(file, [session |-> g, seq |-> r.seq + 1])
  /\ emis' = [emis EXCEPT ![g] = @ \o r.tampon]
  /\ \E apres \in Vider(e) : enr' = [enr EXCEPT ![g] = apres]
  /\ relais' = [relais EXCEPT ![g] =
                  Reprendre(g, [r EXCEPT !.seq = @ + 1, !.tampon = <<>>,
                                         !.echeance = FALSE, !.premier = FALSE])]

Garder(g, r, e) ==
  /\ relais' = [relais EXCEPT ![g] = [r EXCEPT !.echeance = TRUE]]
  /\ enr' = [enr EXCEPT ![g] = e]
  /\ UNCHANGED <<emis, file>>

Lire(g) ==
  /\ relais[g].etape = "lit" /\ canal[g] # <<>>
  /\ canal' = [canal EXCEPT ![g] = Tail(@)]
  /\ LET p == Push(relais[g].carry, Head(canal[g]))
         r == [relais[g] EXCEPT !.carry = p.reste, !.tampon = @ \o p.texte]
     IN IF p.texte = <<>>
        THEN relais' = [relais EXCEPT ![g] = r] /\ UNCHANGED <<emis, file, enr>>
        ELSE \E calme \in BOOLEAN, e \in Noter(enr[g], p.texte) :
             /\ r.premier => calme
             /\ IF calme \/ Len(r.tampon) >= FLUSH
                THEN EmettreTampon(g, r, e) ELSE Garder(g, r, e)
  /\ UNCHANGED <<sessionVars, pompeVars, ackVars, permis, gestes, vu>>

\* The window closes on a text that waits.
Echeance(g) ==
  /\ relais[g].etape = "lit" /\ relais[g].echeance
  /\ EmettreTampon(g, relais[g], enr[g])
  /\ UNCHANGED <<sessionVars, pompeVars, canal, ackVars, permis, gestes, vu>>

\* notified() returns: the condition is looked at again.
Eveil(g) ==
  /\ relais[g].etape = "attend" /\ permis[g]
  /\ permis' = [permis EXCEPT ![g] = FALSE]
  /\ relais' = [relais EXCEPT ![g] = Reprendre(g, @)]
  /\ UNCHANGED <<sessionVars, pompeVars, canal, emis, file, ackVars, gestes, enr, vu>>

Absoudre_UnDeTrop(r) == [r EXCEPT !.filet = r.seq + 1]   \* the message to come too
Absoudre_AZero(r) == [r EXCEPT !.filet = 0]   \* forgets, so that the wait goes on

\* What was sent is held to be acknowledged.
Absoudre(r) == [r EXCEPT !.filet = r.seq]

\* No acknowledgement came within FILET.
ExpirerFilet(g) ==
  /\ relais[g].etape = "attend"
  /\ relais' = [relais EXCEPT ![g] = Reprendre(g, Absoudre(@))]
  /\ UNCHANGED <<sessionVars, pompeVars, canal, emis, file, ackVars, permis, gestes, enr, vu>>

SansAccuse_Aveugle(g) == 0   \* withdraws whatever Accuse is there

\* The Accuse of the number once g has withdrawn its own.
SansAccuse(g) == IF accuses = g THEN 0 ELSE accuses

\* The channel is closed and empty: the rest leaves and the Accuse is withdrawn.
FinRelais(g) ==
  /\ relais[g].etape = "lit" /\ canal[g] = <<>> /\ pompe[g] = "finie"
  /\ accuses' = SansAccuse(g)
  /\ IF relais[g].tampon = <<>>
     THEN relais' = [relais EXCEPT ![g].etape = "fini"] /\ UNCHANGED <<emis, file, enr>>
     ELSE /\ file' = Append(file, [session |-> g, seq |-> relais[g].seq + 1])
          /\ emis' = [emis EXCEPT ![g] = @ \o relais[g].tampon]
          /\ \E e \in Vider(enr[g]) : enr' = [enr EXCEPT ![g] = e]
          /\ relais' = [relais EXCEPT ![g].etape = "fini", ![g].tampon = <<>>,
                                      ![g].seq = @ + 1]
  /\ UNCHANGED <<sessionVars, pompeVars, canal, dernier, permis, reveil, acks, indu,
                 gestes, vu>>

-----------------------------------------------------------------------------
\* The end of the session, then the tab closed by the user: the handle goes
\* and the recording is finished.
Retirer(g) ==
  /\ poignee[g]
  /\ poignee' = [poignee EXCEPT ![g] = FALSE]
  /\ \E e \in Cloturer(enr[g]) : enr' = [enr EXCEPT ![g] = e]
  /\ UNCHANGED <<courante, pompeVars, canal, sortieVars, ackVars, permis, gestes, vu>>

CloreSession(g) == relais[g].etape = "fini" /\ Retirer(g)
PtyClose(g) == Retirer(g)

-----------------------------------------------------------------------------
\* The page writes a message in its terminal and acknowledges it.
Ecrire ==
  /\ file # <<>>
  /\ file' = Tail(file)
  /\ vu' = [vu EXCEPT ![Head(file).session] = Head(file).seq]
  /\ acks' = acks \cup {Head(file)}
  /\ UNCHANGED <<sessionVars, pompeVars, canal, relais, emis, dernier, permis, accuses,
                 reveil, indu, gestes, enr>>

\* It knows no such tab: closed, or gone with a reload.
Ignorer ==
  /\ file # <<>> /\ ~ poignee[Head(file).session]
  /\ file' = Tail(file)
  /\ UNCHANGED <<sessionVars, pompeVars, canal, relais, emis, ackVars, permis, gestes,
                 enr, vu>>

PtyAck_Muet(a) ==   \* notifies nobody
  /\ reveil = 0
  /\ acks' = acks \ {a}
  /\ IF accuses = 0 THEN UNCHANGED <<dernier, reveil, indu>>
     ELSE /\ dernier' = [dernier EXCEPT ![accuses] = MaxEntre(@, a.seq)]
          /\ reveil' = 0
          /\ indu' = IF a.session = accuses THEN indu ELSE indu \cup {accuses}
  /\ UNCHANGED <<sessionVars, pompeVars, canal, sortieVars, permis, accuses, gestes,
                 enr, vu>>

\* pty_ack: the number's Accuse of the moment is given the message's seq,
\* then its relay is notified.
PtyAck(a) ==
  /\ reveil = 0
  /\ acks' = acks \ {a}
  /\ IF accuses = 0 THEN UNCHANGED <<dernier, reveil, indu>>
     ELSE /\ dernier' = [dernier EXCEPT ![accuses] = MaxEntre(@, a.seq)]
          /\ reveil' = accuses
          /\ indu' = IF a.session = accuses THEN indu ELSE indu \cup {accuses}
  /\ UNCHANGED <<sessionVars, pompeVars, canal, sortieVars, permis, accuses, gestes,
                 enr, vu>>

Notifier ==
  /\ reveil # 0
  /\ permis' = [permis EXCEPT ![reveil] = TRUE]
  /\ reveil' = 0
  /\ UNCHANGED <<sessionVars, pompeVars, canal, sortieVars, dernier, accuses, acks, indu,
                 gestes, enr, vu>>

-----------------------------------------------------------------------------
\* The recording, from the page.
\* enregistrement_demarrer fills an empty slot once the header and the screen
\* are on the disk; when that fails the file is removed and the slot stays.
Demarrer(g) ==
  /\ g \in Enregistrables /\ gestes < MaxGestes
  /\ poignee[g] /\ enr[g].etat # "actif"
  /\ gestes' = gestes + 1
  /\ enr' = [enr EXCEPT ![g] = [EnrVide EXCEPT !.etat = "actif", !.depuis = Len(Decode(g))]]
  /\ UNCHANGED <<sessionVars, pompeVars, canal, sortieVars, ackVars, permis, vu>>

Arreter(g) ==
  /\ poignee[g] /\ enr[g].etat = "actif"
  /\ \E e \in Cloturer(enr[g]) : enr' = [enr EXCEPT ![g] = e]
  /\ UNCHANGED <<sessionVars, pompeVars, canal, sortieVars, ackVars, permis, gestes, vu>>

\* pty_resize writes an event of its own and flushes.
Redimensionner(g) ==
  /\ poignee[g] /\ enr[g].etat = "actif"
  /\ \E e \in Vider(enr[g]) : enr' = [enr EXCEPT ![g] = e]
  /\ UNCHANGED <<sessionVars, pompeVars, canal, sortieVars, ackVars, permis, gestes, vu>>

-----------------------------------------------------------------------------
Relais(g) == Lire(g) \/ Echeance(g) \/ Eveil(g) \/ ExpirerFilet(g) \/ FinRelais(g)
Pompe(g) ==
  \/ \E bloc \in Blocs[g] : LireServeur(g, bloc)
  \/ PousserAttente(g) \/ FinServeur(g) \/ Couper(g)

Next ==
  \/ Ouvrir \/ Ecrire \/ Ignorer \/ Notifier
  \/ \E a \in acks : PtyAck(a)
  \/ \E g \in Sessions :
       \/ Relais(g) \/ Pompe(g) \/ CloreSession(g) \/ PtyClose(g)
       \/ Demarrer(g) \/ Arreter(g) \/ Redimensionner(g)

\* The runtime polls a task that is ready and its timers expire; the page, the
\* server and the user owe nothing.
Fairness == \A g \in Sessions : WF_vars(Relais(g)) /\ WF_vars(PousserAttente(g))

Spec == Init /\ [][Next]_vars
FairSpec == Spec /\ Fairness

-----------------------------------------------------------------------------
\* What the relay has given the page, what it holds and what its decoder
\* carries are together one lossy decoding of the bytes it took, whatever the
\* blocks were: a character cut in two is not lost, nothing is repeated.
TexteFidele ==
  \A g \in Sessions :
    LET retenus == Len(Aplat(canal[g])) + Len(attente[g])
        lecture == Lecture(SubSeq(recu[g], 1, Len(recu[g]) - retenus))
    IN lecture.texte = Decode(g) /\ lecture.reste = relais[g].carry

\* Back-pressure: the page is never more than EN_VOL_MAX messages behind a
\* relay, those the FILET has absolved apart, unless the relay's Accuse was
\* given the number of another session's message.
FenetreTenue ==
  \A g \in Sessions \ indu :
    EnVol(relais[g].seq, MaxEntre(relais[g].filet, vu[g])) <= EN_VOL_MAX

\* No wake-up is lost: a relay that waits although its window is open has its
\* permit, or pty_ack is about to give it.
EveilTenu ==
  \A g \in Sessions :
    relais[g].etape = "attend" /\ Place(g, relais[g]) => permis[g] \/ reveil = g

\* The acknowledgements of the number go to the latest relay as long as it
\* lives; the end of an older one does not take its place away.
AccuseAtteint ==
  courante > 0 /\ relais[courante].etape \in {"lit", "attend"} => accuses = courante

\* The three of them: the flow between a relay and the page neither overflows nor
\* stops, whoever acknowledges.
FluxTenu == FenetreTenue /\ EveilTenu /\ AccuseAtteint

\* A recording has no hole: it is the text decoded since it began, up to now
\* while it runs; what the page has been sent is then on the disk, and a
\* recording said to be finished is there entirely.
EnregistrementContinu ==
  \A g \in Sessions :
    LET e == enr[g] IN e.etat # "aucun" =>
      /\ e.texte = SubSeq(Decode(g), e.depuis + 1, e.depuis + Len(e.texte))
      /\ e.etat = "actif" => /\ e.depuis + Len(e.texte) = Len(Decode(g))
                             /\ e.depuis + e.disque >= Len(emis[g])
      /\ e.etat = "clos" => e.disque = Len(e.texte)

\* Text never stays in the core, even for a page that acknowledges nothing:
\* once the servers are silent everything that was read has been emitted, and
\* a relay whose pump is gone has ended.
SortieRendue ==
  <>[](\A g \in Sessions :
         /\ attente[g] = <<>> /\ canal[g] = <<>> /\ relais[g].tampon = <<>>
         /\ pompe[g] = "finie" => relais[g].etape = "fini")

-----------------------------------------------------------------------------
(* An instance of Blocs for TLC: the first session sends bytes that stand  *)
(* alone or cut a character in two, the second plain text.                 *)

MCBlocs == <<{<<"c">>, <<"L", "c">>}, {<<"a">>}>>
=============================================================================
