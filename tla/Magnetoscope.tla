----------------------------- MODULE Magnetoscope -----------------------------
(***************************************************************************)
(* The recording of what an RDP server sends, its replay without a network,  *)
(* and the capture of one picture (rdp-sidecar: magnetoscope.rs, capture.rs, *)
(* the part of session.rs they share).  Every process of the desktop that is *)
(* started with AVASH_RDP_ENREGISTRER writes the same file, each at its own  *)
(* place.                                                                    *)
(*                                                                         *)
(* A PDU has a channel, a length and one effect; the picture is a row of     *)
(* points.  A file is a row of cells: its header, for each PDU a head and as *)
(* many cells as it is long, and Zero where nobody wrote.  The decoders      *)
(* (IronRDP, Surfaces) are external: what is cut or mixed they refuse.       *)
(***************************************************************************)
EXTENDS Integers, Sequences, FiniteSets
LOCAL INSTANCE SequencesExt

CONSTANTS
  Modes,       \* what each process of the desktop with the variable set may be: a session, a
               \* capture
  Pdus,        \* what a server may send
  Tailles,     \* sizes a desktop may have
  PLAFOND,     \* cells a recording may hold
  DESSIN, MUET,  \* the two windows of a capture, in waits: the server draws, or not
  ECHANGES_MAX, PANNES_MAX   \* bounds: connections and PDUs; writes that fail

MagnetoscopeAssumption ==
  /\ Tailles \subseteq Nat \ {0} /\ PLAFOND \in Nat \ {0}
  /\ DESSIN \in Nat /\ MUET \in Nat /\ DESSIN <= MUET
  /\ \A p \in DOMAIN Modes : Modes[p] \subseteq {"session", "capture"}
  /\ \A d \in Pdus : d.voie \in {"fast", "x224"} /\ d.n \in Nat

Processus == DOMAIN Modes

VARIABLES
  proc,        \* each process: its session or its capture
  fichier,     \* the cells of the recording
  ecrivains,   \* history: who has written it since it was last created
  echanges, pannes
vars == <<proc, fichier, ecrivains, echanges, pannes>>

-----------------------------------------------------------------------------
(* The picture.                                                            *)

Neuve(t) == [i \in 1 .. t |-> "noir"]

\* nouvelle_taille, etirer: the picture restarts from the old one, stretched;
\* a size of 0 is none announced.
Etiree(image, t) == IF t \in {0, Len(image)} THEN image ELSE [i \in 1 .. t |-> "etire"]

\* The replay and the capture restart from black.
Videe(image, t) == IF t \in {0, Len(image)} THEN image ELSE Neuve(t)

\* peindre_rgba: what falls outside is left.
Poser(image, ou, quoi) == IF ou \in DOMAIN image THEN [image EXCEPT ![ou] = quoi] ELSE image

\* Egfx, the queue of what the graphics channel has decoded.
RienSorti == [taille |-> 0, trames |-> <<>>]

\* process: a classic drawing is in the picture at once, what the graphics channel decodes
\* in its queue.
Traiter(image, sortie, d) ==
  [image |-> IF d.effet = "dessin" THEN Poser(image, d.ou, d.quoi) ELSE image,
   sortie |-> CASE d.effet = "trame" -> [sortie EXCEPT !.trames = Append(@, d)]
                [] d.effet = "taille" -> [sortie EXCEPT !.taille = d.ou]
                [] OTHER -> sortie]

\* peindre_egfx, peindre_en_attente, once the picture has the announced size: the frames.
Peindre(image, sortie) == FoldLeft(LAMBDA im, d : Poser(im, d.ou, d.quoi), image, sortie.trames)

-----------------------------------------------------------------------------
(* The file.                                                               *)

Zero == [c |-> "zero"]
Entete(t) == [c |-> "entete", taille |-> t]
Tete(d) == [c |-> "tete", voie |-> d.voie, n |-> d.n]
Charge(d) == [k \in 1 .. d.n |-> [c |-> "charge", de |-> d, k |-> k]]

\* write_all at the place of a descriptor.
EcrireA(f, pos, cellules) ==
  IF cellules = <<>> THEN f ELSE
  [i \in 1 .. (IF pos + Len(cellules) > Len(f) THEN pos + Len(cellules) ELSE Len(f)) |->
     IF i \in pos + 1 .. pos + Len(cellules) THEN cellules[i - pos]
     ELSE IF i <= Len(f) THEN f[i] ELSE Zero]

\* plafond_depuis: what the recording may hold.
Depasse(enr, d) == enr.ecrit + d.n + 1 > PLAFOND

\* Enregistreur::ajouter: nothing beyond the ceiling; a PDU that could not be written
\* whole is not counted, whatever of it is in the file.
Ajouter(enr, d) ==
  IF Depasse(enr, d) THEN {[cellules |-> <<>>, enr |-> [enr EXCEPT !.sature = TRUE], rate |-> FALSE]}
  ELSE LET Bon == <<Tete(d)>> \o Charge(d)
       IN  {[cellules |-> Bon, rate |-> FALSE,
             enr |-> [enr EXCEPT !.pos = @ + Len(Bon), !.ecrit = @ + Len(Bon)]]}
           \cup {[cellules |-> SubSeq(Bon, 1, k), rate |-> TRUE, enr |-> [enr EXCEPT !.pos = @ + k]] :
                 k \in 0 .. Len(Bon) - 1}

\* lire: the PDU a head announces, cut at the end of the file; cells that are not those of
\* one PDU are refused by whoever decodes them.
Faux(voie) == [voie |-> voie, n |-> 0, effet |-> "faux", ou |-> 0, quoi |-> ""]
Decoder(voie, cellules) ==
  IF cellules # <<>> /\ cellules[1].c = "charge" /\ cellules = Charge(cellules[1].de) THEN cellules[1].de
  ELSE Faux(voie)

\* A head of zeros is an empty FastPath PDU; payload where a head should be is an action
\* nobody knows.
LectureDes(f) ==
  LET Pas(e, i) ==
        IF i < e.i \/ e.rate THEN e
        ELSE CASE f[i].c = "zero" -> [e EXCEPT !.i = i + 1, !.pdus = Append(@, Faux("fast"))]
               [] f[i].c = "tete" ->
                    LET fin == IF i + f[i].n > Len(f) THEN Len(f) ELSE i + f[i].n
                    IN  [e EXCEPT !.i = fin + 1, !.pdus = Append(@, Decoder(f[i].voie, SubSeq(f, i + 1, fin)))]
               [] OTHER -> [e EXCEPT !.rate = TRUE]
  IN  FoldLeft(Pas, [i |-> 2, pdus |-> <<>>, rate |-> FALSE], [i \in 1 .. Len(f) - 1 |-> i + 1])
Lire(f) ==
  IF f = <<>> \/ f[1].c # "entete" THEN [lu |-> FALSE, taille |-> 0, pdus |-> <<>>]
  ELSE LET e == LectureDes(f) IN [lu |-> ~e.rate, taille |-> f[1].taille, pdus |-> IF e.rate THEN <<>> ELSE e.pdus]

\* rejouer_jusqu_a, not tolerant: a FastPath PDU that is refused ends the replay, one of a
\* static channel is counted.  The clipboard of the replay refuses everything.
Refuse(d) == d.effet \in {"faux", "canal"}
Rejouer(lecture, limite) ==
  LET Pas(e, d) ==
        LET apres == Traiter(e.image, RienSorti, d)
        IN  IF e.rate THEN e
            ELSE IF Refuse(d) THEN IF d.voie = "fast" THEN [e EXCEPT !.rate = TRUE] ELSE [e EXCEPT !.hors = @ + 1]
            ELSE [e EXCEPT !.image = Peindre(Videe(apres.image, apres.sortie.taille), apres.sortie), !.acceptes = @ + 1]
  IN  FoldLeft(Pas, [image |-> Neuve(lecture.taille), acceptes |-> 0, hors |-> 0, rate |-> FALSE],
               SubSeq(lecture.pdus, 1, IF limite > Len(lecture.pdus) THEN Len(lecture.pdus) ELSE limite))

-----------------------------------------------------------------------------
(* The processes.                                                          *)

Absent == [etat |-> "absent", mode |-> "", depart |-> 0, image |-> <<>>, sortie |-> RienSorti, canal |-> "ferme",
           dessine |-> FALSE, classique |-> FALSE, age |-> 0, ouvertA |-> 0, png |-> <<>>, coupe |-> FALSE,
           enr |-> [pos |-> 0, ecrit |-> 0, sature |-> FALSE], recus |-> <<>>, rate |-> FALSE]

Init ==
  /\ proc = [p \in Processus |-> Absent] /\ fichier = <<>> /\ ecrivains = {}
  /\ echanges = 0 /\ pannes = 0

Echange == echanges < ECHANGES_MAX /\ echanges' = echanges + 1
Panne(oui) == IF oui THEN pannes < PANNES_MAX /\ pannes' = pannes + 1 ELSE UNCHANGED pannes

\* session, up to its loop: connected, the recording is created, or emptied; a redirection
\* comes back here.
Ouvrir(p, mode, t) ==
  /\ proc[p].etat = "absent" \/ (proc[p].etat = "redirige" /\ proc[p].mode = mode)
  /\ Echange
  /\ \/ /\ proc' = [proc EXCEPT ![p] = [Absent EXCEPT !.etat = "lit", !.mode = mode, !.depart = t,
                                         !.image = Neuve(t), !.enr.pos = 1, !.enr.ecrit = 1]]
        /\ fichier' = <<Entete(t)>> /\ ecrivains' = {p} /\ UNCHANGED pannes
     \/ /\ Panne(TRUE)
        /\ proc' = [proc EXCEPT ![p] = [Absent EXCEPT !.etat = "erreur", !.mode = mode, !.rate = TRUE]]
        /\ (UNCHANGED <<fichier, ecrivains>>) \/ (fichier' = <<>> /\ ecrivains' = {p})

\* The window of a capture.
Limite(e) == IF e.dessine THEN DESSIN ELSE MUET
Ecoute(e) == e.etat = "lit" /\ (e.mode = "capture" => e.age < Limite(e))

\* annonce_a_emettre: once the channel is open, once.
Annoncer(e) == IF e.canal = "ouvert" THEN [e EXCEPT !.canal = "annonce"] ELSE e

\* What one loop makes of a PDU: the graphics queue, then the outputs.  A session sees the
\* classic change of size; a capture does not.
Suite(e, d) ==
  LET apres == Traiter(e.image, e.sortie, d)
      annonce == apres.sortie.taille
      peinte == Peindre(IF e.mode = "session" THEN Etiree(apres.image, annonce) ELSE Videe(apres.image, annonce),
                        apres.sortie)
  IN  IF d.effet = "faux" THEN [e EXCEPT !.etat = "erreur"]
      ELSE [e EXCEPT
        !.image = IF d.effet = "desactive" /\ e.mode = "session" THEN Etiree(peinte, d.ou) ELSE peinte,
        !.sortie = RienSorti,
        !.dessine = @ \/ d.effet = "dessin" \/ apres.sortie.trames # <<>>,
        !.classique = @ \/ d.effet = "dessin",
        !.canal = IF d.effet = "ouvre" THEN "ouvert" ELSE @,
        !.ouvertA = IF d.effet = "ouvre" THEN e.age ELSE @,
        !.etat = CASE d.effet = "fin" -> IF e.mode = "session" THEN "fini" ELSE "capture"
                   [] d.effet = "redirige" -> "redirige"
                   [] OTHER -> @]

\* What a server may send: frames and sizes once the capabilities are known, and the
\* channel opens once.
Envoyable(e, d) == /\ d.effet \in {"trame", "taille"} => e.canal = "annonce"
                   /\ d.effet = "ouvre" => e.canal = "ferme"

\* read_pdu: recorded first, then, in a capture, the announcement, then decoded.
Recevoir(p, d) ==
  LET e == proc[p]
  IN  /\ Ecoute(e) /\ Envoyable(e, d) /\ Echange
      /\ \E a \in Ajouter(e.enr, d) :
           LET note == [e EXCEPT !.enr = a.enr, !.recus = Append(@, d), !.rate = @ \/ a.rate]
           IN  /\ Panne(a.rate)
               /\ fichier' = EcrireA(fichier, e.enr.pos, a.cellules)
               /\ ecrivains' = IF a.cellules = <<>> THEN ecrivains ELSE ecrivains \cup {p}
               /\ proc' = [proc EXCEPT ![p] = Suite(IF e.mode = "capture" THEN Annoncer(note) ELSE note, d)]

\* Nothing came: a capture announces and paints, a session that has drawn nothing the
\* classic way announces.
Attendre(p) ==
  LET e == proc[p]
      vu == [Annoncer(e) EXCEPT !.image = Peindre(Videe(e.image, e.sortie.taille), e.sortie), !.sortie = RienSorti]
  IN  /\ Ecoute(e)
      /\ \/ e.mode = "capture" /\ proc' = [proc EXCEPT ![p] = [vu EXCEPT !.age = @ + 1]]
         \/ /\ e.mode = "session" /\ ~e.classique /\ e.canal = "ouvert"
            /\ proc' = [proc EXCEPT ![p] = Annoncer(e)]
      /\ UNCHANGED <<fichier, ecrivains, echanges, pannes>>

\* The server hangs up.
Raccrocher(p) ==
  LET e == proc[p]
  IN  /\ Ecoute(e)
      /\ proc' = [proc EXCEPT ![p].etat = IF e.mode = "session" THEN "erreur" ELSE "capture", ![p].coupe = TRUE]
      /\ UNCHANGED <<fichier, ecrivains, echanges, pannes>>

\* The window is over, or the server: what waits is painted and the picture written, or it
\* is not.
Capturer(p) ==
  LET e == proc[p]
      image == Peindre(Videe(e.image, e.sortie.taille), e.sortie)
  IN  /\ e.etat = "capture" \/ (e.etat = "lit" /\ e.mode = "capture" /\ ~Ecoute(e))
      /\ \/ proc' = [proc EXCEPT ![p].etat = "fini", ![p].png = image] /\ UNCHANGED pannes
         \/ proc' = [proc EXCEPT ![p].etat = "erreur"] /\ Panne(TRUE)
      /\ UNCHANGED <<fichier, ecrivains, echanges>>

Next == \E p \in Processus :
  \/ \E mode \in Modes[p], t \in Tailles : Ouvrir(p, mode, t)
  \/ \E d \in Pdus : Recevoir(p, d)
  \/ Attendre(p) \/ Raccrocher(p) \/ Capturer(p)

Spec == Init /\ [][Next]_vars

-----------------------------------------------------------------------------
(* Properties.                                                             *)

TypeOK ==
  /\ \A p \in Processus : /\ proc[p].etat \in {"absent", "lit", "capture", "redirige", "fini", "erreur"}
                          /\ proc[p].recus \in Seq(Pdus) /\ proc[p].age \in 0 .. MUET
  /\ ecrivains \subseteq Processus /\ pannes \in 0 .. PANNES_MAX

\* The recording is that of p alone, and every write of it succeeded.
Seul(p) == ecrivains = {p} /\ proc[p].etat # "absent" /\ ~proc[p].rate

\* A recording reads back as PDUs received, in their order and each whole; all of them
\* while the ceiling was not reached (Enregistreur::ajouter, lire).
EnregistrementFidele ==
  \A p \in Processus : Seul(p) =>
    LET l == Lire(fichier)
        r == proc[p].recus
    IN  /\ l.lu /\ l.taille = proc[p].depart
        /\ IF proc[p].enr.sature
           THEN \E choix \in SUBSET DOMAIN r : l.pdus = [k \in 1 .. Cardinality(choix) |-> r[SetToSortSeq(choix, <)[k]]]
           ELSE l.pdus = r
        /\ Len(fichier) <= PLAFOND \/ Len(fichier) = 1

\* However many processes write it, while every write succeeds the file begins with a
\* header and is never longer than the ceiling.
EnteteTenu == pannes = 0 /\ fichier # <<>> =>
  fichier[1].c = "entete" /\ (Len(fichier) <= PLAFOND \/ Len(fichier) = 1)

\* What the PDUs r leave at a point: the last of them to paint it since the size changed,
\* `Taille(d)` being the size a PDU sets, 0 for none.
TailleApres(r, depart, n, Taille(_)) ==
  LET J == {j \in 1 .. n : Taille(r[j]) # 0}
  IN  IF J = {} THEN depart ELSE Taille(r[CHOOSE j \in J : \A i \in J : i <= j])
Peints(r, depart, x, Taille(_)) ==
  {i \in DOMAIN r : /\ r[i].effet \in {"dessin", "trame"} /\ r[i].ou = x /\ x <= TailleApres(r, depart, i, Taille)
                    /\ \A j \in i + 1 .. Len(r) :
                         TailleApres(r, depart, j, Taille) = TailleApres(r, depart, j - 1, Taille)}
Dernier(r, I) == r[CHOOSE i \in I : \A j \in I : j <= i].quoi
TailleEgfx(d) == IF d.effet = "taille" THEN d.ou ELSE 0

\* A capture shows all that the server drew, to the last PDU (run_shot).
CaptureFidele ==
  \A p \in Processus : proc[p].png # <<>> =>
    LET e == proc[p]
    IN  /\ Len(e.png) = TailleApres(e.recus, e.depart, Len(e.recus), TailleEgfx)
        /\ \A x \in DOMAIN e.png :
             LET I == Peints(e.recus, e.depart, x, TailleEgfx)
             IN  e.png[x] = IF I = {} THEN "noir" ELSE Dernier(e.recus, I)

\* A capture does not end, the server silent, before it has told it what it can show
\* (run_shot: the wait is when one must speak).
AnnonceFaite ==
  \A p \in Processus : LET e == proc[p] IN
    e.png # <<>> /\ ~e.coupe /\ e.age >= Limite(e) /\ e.canal = "ouvert" => e.ouvertA = e.age

\* The replay of a whole recording, however far, gives at each point what the session had
\* painted there, whatever the server refused on the static channels; it fails only where
\* the session failed (rejouer_jusqu_a).  Classic changes of size apart.
RejeuFidele ==
  \A p \in Processus :
    LET e == proc[p]
        l == Lire(fichier)
    IN  Seul(p) /\ ~e.enr.sature /\ ~(\E i \in DOMAIN e.recus : e.recus[i].effet = "desactive") =>
          \A n \in 0 .. Len(e.recus) :
            LET v == Rejouer(l, n)
                r == SubSeq(e.recus, 1, n)
            IN  /\ v.rate <=> \E i \in 1 .. n : r[i].effet = "faux" /\ r[i].voie = "fast"
                /\ ~v.rate => v.acceptes + v.hors = n
                /\ Len(v.image) = TailleApres(r, e.depart, n, TailleEgfx)
                /\ n = Len(e.recus) /\ e.mode = "session" =>
                     /\ Len(v.image) = Len(e.image)
                     /\ \A x \in DOMAIN e.image : e.image[x] # "etire" => v.image[x] = e.image[x]

MagnetoscopeTenu == TypeOK /\ EnregistrementFidele /\ EnteteTenu /\ CaptureFidele /\ AnnonceFaite /\ RejeuFidele

-----------------------------------------------------------------------------
(* Statements of the source that the code does not keep.                   *)

\* A recording that reached its ceiling is shorter, nothing else: it is not, a small PDU
\* is written after a large one that was left out.
PlusCourt == \A p \in Processus : Seul(p) => IsPrefix(Lire(fichier).pdus, proc[p].recus)

\* A recording under way reads back, when no write fails: a second desktop opened with the
\* same variable empties it, and the first goes on writing at its own place.
SessionSuivante == pannes = 0 /\ fichier # <<>> =>
  \E p \in Processus : LET pdus == Lire(fichier).pdus IN
    Lire(fichier).lu /\ \A i \in DOMAIN pdus : pdus[i] \in ToSet(proc[p].recus)

\* The picture of the replay is that of the session, resized as it was: the session
\* stretches what it had, the replay begins again in black.
MemeGeste == \A p \in Processus :
  LET e == proc[p] IN
    Seul(p) /\ e.mode = "session" /\ ~e.enr.sature /\ ~(\E i \in DOMAIN e.recus : e.recus[i].effet = "desactive") =>
      LET v == Rejouer(Lire(fichier), Len(e.recus)) IN ~v.rate => v.image = e.image

\* A recording of a window that grew is replayed at its new size: not when the size came
\* by the classic way.
AgrandieRejouee == \A p \in Processus :
  LET e == proc[p] IN
    Seul(p) /\ e.mode = "session" /\ ~e.enr.sature =>
      LET v == Rejouer(Lire(fichier), Len(e.recus)) IN ~v.rate => Len(v.image) = Len(e.image)
===============================================================================
