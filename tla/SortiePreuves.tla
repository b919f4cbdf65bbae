---------------------------- MODULE SortiePreuves ---------------------------
(***************************************************************************)
(* Theorems about Sortie, for every number of sessions and bytes, every    *)
(* set of blocks and every capacity.                                       *)
(*                                                                         *)
(* Three inductive invariants, each beside the types (Types):              *)
(*   Flux        numbers of messages are in order from the relay to the    *)
(*               acknowledgements, an Accuse that only its own session was *)
(*               acknowledged on never runs ahead of what the page wrote,  *)
(*               and a relay reads only while its window is open;          *)
(*   Enregistre  a recorder never holds, nor has flushed, more than the    *)
(*               session decoded;                                          *)
(*   Fidele      there is a beginning of the server's bytes that was       *)
(*               decoded, and the rest is in the channel or in the pump.   *)
(* What each step of a relay does is stated once, pointwise (LireEffet,    *)
(* EcheanceEffet, FinRelaisEffet, AttenteEffet), and used by all three.    *)
(*                                                                         *)
(* Before them, about Utf8Stream alone: decoding a stream block by block     *)
(* with push gives what reading its bytes one by one gives, for every      *)
(* stream and every way of cutting it.  The inductions there are over a    *)
(* set: the positions at which a fact holds include 0 and, with each       *)
(* position, the next one (Recurrence), which follows from the least       *)
(* element of a non-empty set of naturals.  A recursive function is first  *)
(* shown to exist on the domain it is given (LectureExiste, LuExiste); its *)
(* equations are then all that is used.                                    *)
(***************************************************************************)
EXTENDS Sortie, TLAPS, WellFoundedInduction, SequenceTheorems

\* A non-empty set of naturals has a least element.
LEMMA MoindreElement ==
  ASSUME NEW T, T \subseteq Nat, T # {}
  PROVE  \E m \in T : \A n \in T : m <= n
<1> DEFINE R == {ss \in Nat \X Nat : ss[1] < ss[2]}
<1>1. IsWellFoundedOn(R, Nat)
  BY NatLessThanWellFounded DEF OpToRel
<1>2. \A m \in Nat, n \in Nat : <<n, m>> \in R <=> n < m
  OBVIOUS
<1> HIDE DEF R
<1>3. PICK m \in T : \A n \in T : ~(<<n, m>> \in R)
  BY <1>1, WFMin
<1>4. \A n \in T : ~(n < m)
  BY <1>2, <1>3
<1>5. QED BY <1>3, <1>4

\* Induction, on a set: the integers up to b where something holds.
LEMMA Recurrence ==
  ASSUME NEW T, NEW b \in Nat, 0 \in T,
         \A n \in 0 .. b : n \in T /\ n + 1 \in 0 .. b => n + 1 \in T
  PROVE  0 .. b \subseteq T
<1> SUFFICES ASSUME (0 .. b) \ T # {} PROVE FALSE
  OBVIOUS
<1> DEFINE U == (0 .. b) \ T
<1>0. U \subseteq Nat /\ U # {}
  OBVIOUS
<1> HIDE DEF U
<1>1. PICK m \in U : \A n \in U : m <= n
  BY <1>0, MoindreElement
<1> USE DEF U
<1>2. m # 0 /\ m - 1 \in 0 .. b /\ m - 1 \in T
  BY <1>1
<1>3. QED BY <1>1, <1>2

-----------------------------------------------------------------------------
Restes == {<<>>, <<"l">>, <<"L">>, <<"L", "c">>}
Etats == [texte : Seq(Caracteres), reste : Restes]

\* A second element after the only one.
LEMMA AjoutAUn ==
  ASSUME NEW x, NEW y
  PROVE  Append(<<x>>, y) = <<x, y>>
<1> DEFINE S == {x, y}
<1>1. <<x>> \in Seq(S) /\ <<x, y>> \in Seq(S) /\ y \in S
  OBVIOUS
<1>2. Append(<<x>>, y) \in Seq(S) /\ Len(Append(<<x>>, y)) = 2
      /\ Append(<<x>>, y)[1] = x /\ Append(<<x>>, y)[2] = y
  BY <1>1, AppendProperties
<1>3. Len(<<x, y>>) = 2 /\ <<x, y>>[1] = x /\ <<x, y>>[2] = y
  OBVIOUS
<1> DEFINE p == Append(<<x>>, y)
           q == <<x, y>>
<1>4. p \in Seq(S) /\ q \in Seq(S) /\ Len(p) = Len(q) /\ \A i \in 1 .. Len(p) : p[i] = q[i]
  BY <1>1, <1>2, <1>3
<1> HIDE DEF S, p, q
<1>5. p = q
  BY <1>4, SeqEqual
<1>6. QED BY <1>5 DEF p, q

\* One byte leads from a state of the reading to another.
LEMMA PasType ==
  ASSUME NEW e \in Etats, NEW b \in Octets
  PROVE  Pas(e, b) \in Etats
<1>1. \A q \in Caracteres : Append(e.texte, q) \in Seq(Caracteres)
  BY DEF Etats
<1>2. e.texte \in Seq(Caracteres) /\ e.reste \in Restes
  BY DEF Etats
<1>3. Lettre(b) \in Caracteres /\ "?" \in Caracteres
  BY DEF Lettre, Caracteres, Octets
<1>4. CASE e.reste = <<>> \/ b # "c"
  <2>1. Suites(b) > 0 => <<b>> \in Restes
    BY DEF Suites, Octets, Restes
  <2>2. \A t \in Seq(Caracteres) : Append(t, Lettre(b)) \in Seq(Caracteres)
    BY <1>3
  <2>3. QED BY <1>1, <1>2, <1>3, <1>4, <2>1, <2>2 DEF Pas, Etats, Restes
<1>5. CASE ~(e.reste = <<>> \/ b # "c")
  <2>1. e.reste \in {<<"l">>, <<"L">>, <<"L", "c">>} /\ b = "c"
    BY <1>2, <1>5 DEF Restes
  <2>2. Lettre(e.reste[1]) \in Caracteres
    BY <2>1 DEF Lettre, Caracteres
  <2>3. Append(e.texte, Lettre(e.reste[1])) \in Seq(Caracteres)
    BY <1>1, <2>2
  <2>4. Len(e.reste) # Suites(e.reste[1]) => Append(e.reste, b) \in Restes
    <3>1. CASE e.reste = <<"L">>
      <4>1. Append(<<"L">>, "c") = <<"L", "c">>
        BY AjoutAUn
      <4>2. QED BY <2>1, <3>1, <4>1 DEF Restes
    <3>2. CASE e.reste = <<"l">>
      <4>1. Len(<<"l">>) = 1 /\ Suites("l") = 1
        BY DEF Suites
      <4>2. QED BY <3>2, <4>1
    <3>4. CASE e.reste = <<"L", "c">>
      <4>1. Len(<<"L", "c">>) = 2 /\ Suites("L") = 2
        BY DEF Suites
      <4>2. QED BY <3>4, <4>1
    <3>3. QED BY <2>1, <3>1, <3>2, <3>4
  <2>5. QED BY <1>2, <1>5, <2>3, <2>4 DEF Pas, Etats, Restes
<1>6. QED BY <1>4, <1>5

\* f gives the states of a reading of s from e.
Suit(f, e, s) ==
  /\ f \in [0 .. Len(s) -> Etats] /\ f[0] = e
  /\ \A n \in 1 .. Len(s) : f[n] = Pas(f[n - 1], s[n])

\* The recursive function of LectureDepuis is one of them.
LEMMA LectureExiste ==
  ASSUME NEW e \in Etats, NEW s \in Seq(Octets)
  PROVE  \E f : Suit(f, e, s) /\ LectureDepuis(e, s) = f[Len(s)]
<1> DEFINE P(n, g) == /\ g \in [0 .. n -> Etats] /\ g[0] = e
                      /\ \A k \in 1 .. n : g[k] = Pas(g[k - 1], s[k])
           T == {n \in 0 .. Len(s) : \E g : P(n, g)}
<1>1. 0 \in T
  <2>1. P(0, [k \in 0 .. 0 |-> e])
    OBVIOUS
  <2>2. 0 \in 0 .. Len(s)
    OBVIOUS
  <2> HIDE DEF P
  <2>3. QED BY <2>1, <2>2
<1>2. ASSUME NEW n \in 0 .. Len(s), n \in T, n + 1 \in 0 .. Len(s) PROVE n + 1 \in T
  <2>1. PICK g : P(n, g)
    BY <1>2
  <2> DEFINE h == [k \in 0 .. n + 1 |-> IF k = n + 1 THEN Pas(g[n], s[n + 1]) ELSE g[k]]
  <2>2. Pas(g[n], s[n + 1]) \in Etats
    BY <1>2, <2>1, PasType
  <2>3. h \in [0 .. n + 1 -> Etats] /\ h[0] = e
    BY <1>2, <2>1, <2>2
  <2>4. \A k \in 1 .. n + 1 : h[k] = Pas(h[k - 1], s[k])
    BY <1>2, <2>1
  <2>5. P(n + 1, h)
    BY <2>3, <2>4
  <2>6. QED BY <1>2, <2>5
<1>3. Len(s) \in T
  <2>1. Len(s) \in Nat
    OBVIOUS
  <2> HIDE DEF T
  <2>2. 0 .. Len(s) \subseteq T
    BY <1>1, <1>2, <2>1, Recurrence
  <2>3. QED BY <2>1, <2>2
<1>4. PICK g : P(Len(s), g)
  BY <1>3
<1> DEFINE Corps(f) == [n \in 0 .. Len(s) |-> IF n = 0 THEN e ELSE Pas(f[n - 1], s[n])]
           etat == CHOOSE f : f = Corps(f)
<1>5. g = Corps(g)
  BY <1>4
<1>6. etat = Corps(etat)
  BY <1>5
<1>7. LectureDepuis(e, s) = etat[Len(s)]
  BY DEF LectureDepuis
<1>8. etat \in [0 .. Len(s) -> Etats]
  <2> DEFINE V == {n \in 0 .. Len(s) : etat[n] \in Etats}
  <2> HIDE DEF etat
  <2>1. 0 \in V
    BY <1>6
  <2>2. ASSUME NEW n \in 0 .. Len(s), n \in V, n + 1 \in 0 .. Len(s) PROVE n + 1 \in V
    <3>1. etat[n + 1] = Pas(etat[n], s[n + 1])
      BY <1>6, <2>2
    <3>2. QED BY <2>2, <3>1, PasType
  <2>3. Len(s) \in Nat
    OBVIOUS
  <2> HIDE DEF V
  <2>4. 0 .. Len(s) \subseteq V
    BY <2>1, <2>2, <2>3, Recurrence
  <2> USE DEF V
  <2>5. QED BY <1>6, <2>4
<1>9. Suit(etat, e, s)
  <2> HIDE DEF etat
  <2>1. etat[0] = e
    BY <1>6
  <2>2. \A n \in 1 .. Len(s) : etat[n] = Pas(etat[n - 1], s[n])
    BY <1>6
  <2>3. QED BY <1>8, <2>1, <2>2 DEF Suit
<1>10. QED BY <1>7, <1>9

\* There is only one.
LEMMA LectureUnique ==
  ASSUME NEW e \in Etats, NEW s \in Seq(Octets), NEW f, NEW g, Suit(f, e, s), Suit(g, e, s)
  PROVE  f = g
<1> DEFINE T == {n \in 0 .. Len(s) : f[n] = g[n]}
<1>1. 0 \in T
  BY DEF Suit
<1>2. ASSUME NEW n \in 0 .. Len(s), n \in T, n + 1 \in 0 .. Len(s) PROVE n + 1 \in T
  BY <1>2 DEF Suit
<1>3. Len(s) \in Nat
  OBVIOUS
<1> HIDE DEF T
<1>4. 0 .. Len(s) \subseteq T
  BY <1>1, <1>2, <1>3, Recurrence
<1> USE DEF T
<1>5. QED BY <1>4 DEF Suit

\* Any reading of s from e ends where LectureDepuis does.
LEMMA LectureEst ==
  ASSUME NEW e \in Etats, NEW s \in Seq(Octets), NEW f, Suit(f, e, s)
  PROVE  LectureDepuis(e, s) = f[Len(s)] /\ LectureDepuis(e, s) \in Etats
<1>1. PICK g : Suit(g, e, s) /\ LectureDepuis(e, s) = g[Len(s)]
  BY LectureExiste
<1>2. f = g
  BY <1>1, LectureUnique
<1>3. QED BY <1>1, <1>2 DEF Suit

\* The readings of no byte, of one, and of two streams end to end.
LEMMA LectureVide ==
  ASSUME NEW e \in Etats
  PROVE  LectureDepuis(e, <<>>) = e
<1>1. Suit([n \in 0 .. 0 |-> e], e, <<>>)
  BY DEF Suit
<1>2. <<>> \in Seq(Octets) /\ Len(<<>>) = 0
  OBVIOUS
<1>3. QED BY <1>1, <1>2, LectureEst

LEMMA LectureUn ==
  ASSUME NEW e \in Etats, NEW b \in Octets
  PROVE  LectureDepuis(e, <<b>>) = Pas(e, b)
<1> DEFINE f == [n \in 0 .. 1 |-> IF n = 0 THEN e ELSE Pas(e, b)]
<1>1. <<b>> \in Seq(Octets) /\ Len(<<b>>) = 1 /\ <<b>>[1] = b
  OBVIOUS
<1>2. Suit(f, e, <<b>>)
  BY <1>1, PasType DEF Suit
<1>3. QED BY <1>1, <1>2, LectureEst

LEMMA LectureConcat ==
  ASSUME NEW e \in Etats, NEW s \in Seq(Octets), NEW t \in Seq(Octets)
  PROVE  LectureDepuis(e, s \o t) = LectureDepuis(LectureDepuis(e, s), t)
<1>1. PICK f : Suit(f, e, s) /\ LectureDepuis(e, s) = f[Len(s)]
  BY LectureExiste
<1> DEFINE m == f[Len(s)]
<1>2. m \in Etats
  BY <1>1 DEF Suit
<1>3. PICK g : Suit(g, m, t) /\ LectureDepuis(m, t) = g[Len(t)]
  BY <1>2, LectureExiste
<1> DEFINE h == [n \in 0 .. Len(s) + Len(t) |-> IF n <= Len(s) THEN f[n] ELSE g[n - Len(s)]]
<1>4. s \o t \in Seq(Octets) /\ Len(s \o t) = Len(s) + Len(t)
  OBVIOUS
<1>5. \A n \in 1 .. Len(s) + Len(t) : (s \o t)[n] = IF n <= Len(s) THEN s[n] ELSE t[n - Len(s)]
  OBVIOUS
<1>6. h \in [0 .. Len(s \o t) -> Etats] /\ h[0] = e
  BY <1>1, <1>3, <1>4 DEF Suit
<1>7. ASSUME NEW n \in 1 .. Len(s \o t) PROVE h[n] = Pas(h[n - 1], (s \o t)[n])
  <2>1. CASE n <= Len(s)
    BY <1>1, <1>4, <1>5, <2>1 DEF Suit
  <2>2. CASE n = Len(s) + 1
    BY <1>1, <1>3, <1>4, <1>5, <2>2 DEF Suit
  <2>3. CASE n > Len(s) + 1
    <3>1. n - Len(s) \in 1 .. Len(t) /\ n - 1 - Len(s) = (n - Len(s)) - 1
      BY <1>4, <2>3
    <3>2. h[n] = g[n - Len(s)] /\ h[n - 1] = g[(n - Len(s)) - 1]
      BY <1>4, <2>3
    <3>3. QED BY <1>3, <1>4, <1>5, <2>3, <3>1, <3>2 DEF Suit
  <2>4. QED BY <1>4, <2>1, <2>2, <2>3
<1>8. Suit(h, e, s \o t)
  BY <1>6, <1>7 DEF Suit
<1>9. h[Len(s \o t)] = g[Len(t)]
  <2>1. CASE Len(t) = 0
    BY <1>3, <1>4, <2>1 DEF Suit
  <2>2. CASE Len(t) # 0
    BY <1>4, <2>2
  <2>3. QED BY <2>1, <2>2
<1>10. QED BY <1>1, <1>3, <1>4, <1>8, <1>9, LectureEst

\* The longest run of bytes that continue position i, among those it announces.
LEMMA UniteCas ==
  ASSUME NEW s \in Seq(Octets), NEW i \in 1 .. Len(s),
         NEW v \in 0 .. 2, v = Suites(s[i]), NEW k \in 0 .. v,
         i + k <= Len(s), \A q \in 1 .. k : s[i + q] = "c",
         k = v \/ i + k = Len(s) \/ s[i + k + 1] # "c"
  PROVE  UniteA(s, i) = [taille |-> k + 1,
                         sorte |-> IF s[i] = "c" THEN "invalide"
                                   ELSE IF k = v THEN "valide"
                                   ELSE IF i + k = Len(s) THEN "tronquee" ELSE "invalide"]
<1> DEFINE tient(n) == \A q \in 1 .. n : i + q <= Len(s) /\ s[i + q] = "c"
           bon(n) == tient(n) /\ (n = v \/ ~ tient(n + 1))
<1>0. i \in Nat /\ Len(s) \in Nat
  OBVIOUS
<1>1. bon(k)
  <2>1. tient(k)
    BY <1>0
  <2>2. k = v \/ ~ tient(k + 1)
    BY <1>0
  <2>3. QED BY <2>1, <2>2
<1>2. ASSUME NEW n \in 0 .. v, bon(n) PROVE n = k
  <2>1. ~(n < k)
    BY <1>0, <1>2
  <2>2. ~(k < n)
    BY SMTT(60), <1>0, <1>2
  <2>3. QED BY <1>0, <2>1, <2>2
<1>3. (CHOOSE n \in 0 .. v : bon(n)) = k
  <2> HIDE DEF bon
  <2>1. QED BY <1>1, <1>2
<1>4. QED BY <1>3 DEF UniteA

\* Every unit has such a run.
LEMMA UniteSuite ==
  ASSUME NEW s \in Seq(Octets), NEW i \in 1 .. Len(s), NEW v \in 0 .. 2
  PROVE  \E k \in 0 .. v :
           /\ i + k <= Len(s) /\ \A q \in 1 .. k : s[i + q] = "c"
           /\ k = v \/ i + k = Len(s) \/ s[i + k + 1] # "c"
<1> DEFINE bon(k) == /\ k \in 0 .. v
                     /\ i + k <= Len(s) /\ \A q \in 1 .. k : s[i + q] = "c"
                     /\ k = v \/ i + k = Len(s) \/ s[i + k + 1] # "c"
<1>0. i \in Nat /\ Len(s) \in Nat
  OBVIOUS
<1>1. CASE v = 0 \/ i = Len(s) \/ s[i + 1] # "c"
  <2>1. bon(0)
    BY <1>0, <1>1
  <2>2. QED BY <2>1
<1>2. CASE ~(v = 0 \/ i = Len(s) \/ s[i + 1] # "c")
  <2>1. CASE v = 1 \/ i + 1 = Len(s) \/ s[i + 2] # "c"
    <3>1. bon(1)
      BY <1>0, <1>2, <2>1
    <3>2. QED BY <3>1
  <2>2. CASE ~(v = 1 \/ i + 1 = Len(s) \/ s[i + 2] # "c")
    <3>1. bon(2)
      <4>1. v = 2 /\ i + 2 <= Len(s) /\ s[i + 1] = "c" /\ s[i + 2] = "c"
        BY <1>0, <1>2, <2>2
      <4>2. \A q \in 1 .. 2 : q = 1 \/ q = 2
        OBVIOUS
      <4>3. QED BY <4>1, <4>2
    <3>2. QED BY <3>1
  <2>3. QED BY <2>1, <2>2
<1>3. QED BY <1>1, <1>2

\* The unit at i of s is the byte and the k that continue it; then LuA reads ...
Unite(s, i, v, k) ==
  v = Suites(s[i]) /\ k <= v /\ i + k <= Len(s) /\ \A q \in 1 .. k : s[i + q] = "c"
Tronquee(s, i, v, k) ==
  /\ s[i] # "c" /\ k < v /\ i + k = Len(s)
  /\ \A lu : LuA(s, i, lu) = [texte |-> <<>>, reste |-> SubSeq(s, i, Len(s))]
Lue(s, i, v, k) ==
  /\ k = v
  /\ \A lu : LuA(s, i, lu) = [texte |-> <<Lettre(s[i])>> \o lu[i + k + 1].texte,
                             reste |-> lu[i + k + 1].reste]
Invalide(s, i, v, k) ==
  /\ s[i] # "c" /\ k < v /\ i + k < Len(s) /\ s[i + k + 1] # "c"
  /\ \A lu : LuA(s, i, lu) = [texte |-> <<"?">> \o lu[i + k + 1].texte,
                             reste |-> lu[i + k + 1].reste]

\* What `str::from_utf8` finds at i: a truncated end, a letter, or an invalid sequence.
LEMMA LuAEst ==
  ASSUME NEW s \in Seq(Octets), NEW i \in 1 .. Len(s)
  PROVE  \E v \in 0 .. 2, k \in 0 .. 2 :
           Unite(s, i, v, k) /\ (Tronquee(s, i, v, k) \/ Lue(s, i, v, k) \/ Invalide(s, i, v, k))
<1> DEFINE v == Suites(s[i])
<1>0. v \in 0 .. 2 /\ i \in Nat /\ Len(s) \in Nat /\ s[i] \in Octets
  BY DEF Suites
<1>c. s[i] = "c" => v = 0 /\ Lettre(s[i]) = "?"
  BY DEF Suites, Lettre
<1> HIDE DEF v
<1>1. PICK k \in 0 .. v :
        /\ i + k <= Len(s) /\ \A q \in 1 .. k : s[i + q] = "c"
        /\ k = v \/ i + k = Len(s) \/ s[i + k + 1] # "c"
  BY <1>0, UniteSuite
<1>2. UniteA(s, i) = [taille |-> k + 1,
                      sorte |-> IF s[i] = "c" THEN "invalide"
                                ELSE IF k = v THEN "valide"
                                ELSE IF i + k = Len(s) THEN "tronquee" ELSE "invalide"]
  BY <1>0, <1>1, UniteCas DEF v
<1>3. i + (k + 1) = i + k + 1 /\ ~(i > Len(s)) /\ k \in Nat
  BY <1>0
<1>4. UniteA(s, i).taille = k + 1
  BY <1>2
<1>5. Unite(s, i, v, k)
  BY <1>1 DEF Unite, v
<1>6. CASE s[i] # "c" /\ k < v /\ i + k = Len(s)
  <2>1. UniteA(s, i).sorte = "tronquee"
    BY <1>0, <1>2, <1>6
  <2>2. Tronquee(s, i, v, k)
    BY <1>3, <1>6, <2>1 DEF Tronquee, LuA
  <2>3. QED BY <1>0, <1>5, <2>2
<1>7. CASE k = v
  <2>1. UniteA(s, i).sorte = IF s[i] = "c" THEN "invalide" ELSE "valide"
    BY <1>2, <1>7
  <2>2. Lue(s, i, v, k)
    BY <1>c, <1>3, <1>4, <1>7, <2>1 DEF Lue, LuA
  <2>3. QED BY <1>0, <1>5, <2>2
<1>8. CASE s[i] # "c" /\ k < v /\ i + k < Len(s)
  <2>1. UniteA(s, i).sorte = "invalide" /\ s[i + k + 1] # "c"
    BY <1>0, <1>1, <1>2, <1>8
  <2>2. Invalide(s, i, v, k)
    BY <1>3, <1>4, <1>8, <2>1 DEF Invalide, LuA
  <2>3. QED BY <1>0, <1>5, <2>2
<1>9. QED BY <1>c, <1>0, <1>1, <1>6, <1>7, <1>8

\* A truncated end is a remainder the reader by bytes may hold.
LEMMA ResteTronque ==
  ASSUME NEW s \in Seq(Octets), NEW i \in 1 .. Len(s), NEW v \in 0 .. 2, NEW k \in 0 .. 2,
         Unite(s, i, v, k), Tronquee(s, i, v, k)
  PROVE  /\ SubSeq(s, i, Len(s)) = IF k = 0 THEN <<s[i]>> ELSE <<"L", "c">>
         /\ SubSeq(s, i, Len(s)) \in Restes
<1> DEFINE r == SubSeq(s, i, Len(s))
<1>0. i \in Nat /\ Len(s) \in Nat /\ k < v /\ i + k = Len(s) /\ v = Suites(s[i]) /\ s[i] \in Octets
  BY DEF Unite, Tronquee
<1>1. r \in Seq(Octets) /\ Len(r) = k + 1 /\ \A q \in 1 .. k + 1 : r[q] = s[i + q - 1]
  BY <1>0
<1>2. r[1] = s[i]
  BY <1>0, <1>1
<1> HIDE DEF r
<1>3. CASE k = 0
  <2>1. <<s[i]>> \in Seq(Octets) /\ Len(<<s[i]>>) = 1
    BY <1>0
  <2>2. r = <<s[i]>>
    BY <1>1, <1>2, <1>3, <2>1, SeqEqual
  <2>3. s[i] \in {"l", "L"}
    BY <1>0, <1>3 DEF Suites, Octets
  <2>4. QED BY <1>3, <2>2, <2>3 DEF Restes, r
<1>4. CASE k = 1
  <2>1. v = 2 /\ s[i] = "L"
    BY <1>0, <1>4 DEF Suites
  <2>2. r[2] = "c"
    BY <1>0, <1>1, <1>4 DEF Unite
  <2>3. <<"L", "c">> \in Seq(Octets) /\ Len(<<"L", "c">>) = 2
    BY DEF Octets
  <2>4. \A q \in 1 .. 2 : q = 1 \/ q = 2
    OBVIOUS
  <2>5. \A q \in 1 .. Len(r) : r[q] = <<"L", "c">>[q]
    BY <1>1, <1>2, <1>4, <2>1, <2>2, <2>4
  <2>6. r = <<"L", "c">>
    BY <1>1, <1>4, <2>3, <2>5, SeqEqual
  <2>7. QED BY <1>4, <2>6 DEF Restes, r
<1>5. QED BY <1>0, <1>3, <1>4

LEMMA EtatEst ==
  ASSUME NEW t \in Seq(Caracteres), NEW r \in Restes
  PROVE  [texte |-> t, reste |-> r] \in Etats
BY DEF Etats

\* What is read from i on has its type when what follows has.
LEMMA LuAType ==
  ASSUME NEW s \in Seq(Octets), NEW i \in 1 .. Len(s) + 1, NEW g,
         \A j \in i + 1 .. Len(s) + 1 : g[j] \in Etats
  PROVE  LuA(s, i, g) \in Etats
<1>0. i \in Nat /\ Len(s) \in Nat
  OBVIOUS
<1>1. CASE i = Len(s) + 1
  BY <1>0, <1>1 DEF LuA, Debut, Etats, Restes
<1>2. CASE i \in 1 .. Len(s)
  <2>1. PICK v \in 0 .. 2, k \in 0 .. 2 :
          Unite(s, i, v, k) /\ (Tronquee(s, i, v, k) \/ Lue(s, i, v, k) \/ Invalide(s, i, v, k))
    BY <1>2, LuAEst
  <2>2. i + k + 1 \in i + 1 .. Len(s) + 1
    BY <1>0, <2>1 DEF Unite
  <2>3. g[i + k + 1].texte \in Seq(Caracteres) /\ g[i + k + 1].reste \in Restes
    BY <2>2 DEF Etats
  <2>4. Lettre(s[i]) \in Caracteres /\ "?" \in Caracteres
    BY DEF Lettre, Caracteres
  <2>5. \A q \in Caracteres : <<q>> \o g[i + k + 1].texte \in Seq(Caracteres)
    BY <2>3
  <2>6. CASE Tronquee(s, i, v, k)
    <3>1. LuA(s, i, g) = [texte |-> <<>>, reste |-> SubSeq(s, i, Len(s))]
      BY <2>6 DEF Tronquee
    <3>2. SubSeq(s, i, Len(s)) \in Restes
      BY <1>2, <2>1, <2>6, ResteTronque
    <3>3. <<>> \in Seq(Caracteres)
      OBVIOUS
    <3>4. QED BY <3>1, <3>2, <3>3, EtatEst
  <2>7. CASE Lue(s, i, v, k)
    <3>1. LuA(s, i, g) = [texte |-> <<Lettre(s[i])>> \o g[i + k + 1].texte, reste |-> g[i + k + 1].reste]
      BY <2>7 DEF Lue
    <3>2. <<Lettre(s[i])>> \o g[i + k + 1].texte \in Seq(Caracteres)
      BY <2>4, <2>5
    <3>3. QED BY <2>3, <3>1, <3>2, EtatEst
  <2>8. CASE Invalide(s, i, v, k)
    <3>1. LuA(s, i, g) = [texte |-> <<"?">> \o g[i + k + 1].texte, reste |-> g[i + k + 1].reste]
      BY <2>8 DEF Invalide
    <3>2. <<"?">> \o g[i + k + 1].texte \in Seq(Caracteres)
      BY <2>4, <2>5
    <3>3. QED BY <2>3, <3>1, <3>2, EtatEst
  <2>9. QED BY <2>1, <2>6, <2>7, <2>8
<1>3. QED BY <1>0, <1>1, <1>2

\* LuA looks only at what follows i.
LEMMA LuAApres ==
  ASSUME NEW s \in Seq(Octets), NEW i \in 1 .. Len(s) + 1, NEW g, NEW h,
         \A j \in i + 1 .. Len(s) + 1 : g[j] = h[j]
  PROVE  LuA(s, i, g) = LuA(s, i, h)
<1>0. i \in Nat /\ Len(s) \in Nat
  OBVIOUS
<1>1. CASE i = Len(s) + 1
  BY <1>0, <1>1 DEF LuA
<1>2. CASE i \in 1 .. Len(s)
  <2>1. PICK v \in 0 .. 2, k \in 0 .. 2 :
          Unite(s, i, v, k) /\ (Tronquee(s, i, v, k) \/ Lue(s, i, v, k) \/ Invalide(s, i, v, k))
    BY <1>2, LuAEst
  <2>2. g[i + k + 1] = h[i + k + 1]
    BY <1>0, <2>1 DEF Unite
  <2>3. QED BY <2>1, <2>2 DEF Tronquee, Lue, Invalide
<1>3. QED BY <1>0, <1>1, <1>2

\* What push has read from each position.
LitTout(s, lu) ==
  /\ lu \in [1 .. Len(s) + 1 -> Etats]
  /\ \A i \in 1 .. Len(s) + 1 : lu[i] = LuA(s, i, lu)

\* The recursive function of push is a reading of the whole.
LEMMA LuExiste ==
  ASSUME NEW carry \in Seq(Octets), NEW bloc \in Seq(Octets)
  PROVE  \E lu : LitTout(carry \o bloc, lu) /\ Push(carry, bloc) = lu[1]
<1> DEFINE s == carry \o bloc
           L == Len(s)
           P(n, g) == /\ g \in [L + 1 - n .. L + 1 -> Etats]
                      /\ \A i \in L + 1 - n .. L + 1 : g[i] = LuA(s, i, g)
           T == {n \in 0 .. L : \E g : P(n, g)}
<1>0. s \in Seq(Octets) /\ L \in Nat
  OBVIOUS
<1> HIDE DEF s
<1>1. 0 \in T
  <2> DEFINE g == [i \in L + 1 .. L + 1 |-> Debut]
  <2>1. \A i \in L + 1 .. L + 1 : LuA(s, i, g) = Debut /\ g[i] = Debut
    BY <1>0 DEF LuA
  <2>2. Debut \in Etats
    BY DEF Debut, Etats, Restes
  <2>3. P(0, g)
    BY <1>0, <2>1, <2>2
  <2>4. 0 \in 0 .. L
    BY <1>0
  <2> HIDE DEF P, g
  <2>5. QED BY <2>3, <2>4
<1>2. ASSUME NEW n \in 0 .. L, n \in T, n + 1 \in 0 .. L PROVE n + 1 \in T
  <2>1. PICK g : P(n, g)
    BY <1>2
  <2> DEFINE j == L - n
             h == [i \in j .. L + 1 |-> IF i = j THEN LuA(s, j, g) ELSE g[i]]
  <2>2. j \in 1 .. L /\ L + 1 - n = j + 1 /\ L + 1 - (n + 1) = j
    BY <1>0, <1>2
  <2>b. \A i \in j + 1 .. L + 1 : g[i] \in Etats /\ g[i] = LuA(s, i, g)
    BY <2>1, <2>2
  <2>3. LuA(s, j, g) \in Etats
    <3> HIDE DEF j
    <3>1. j \in 1 .. Len(s) + 1
      BY <1>0, <2>2
    <3>2. QED BY <1>0, <2>b, <3>1, LuAType
  <2>4. h \in [j .. L + 1 -> Etats]
    BY <1>0, <2>1, <2>2, <2>3
  <2>5. \A i \in j + 1 .. L + 1 : h[i] = g[i]
    BY <1>0, <2>2
  <2>6. ASSUME NEW i \in j .. L + 1 PROVE h[i] = LuA(s, i, h)
    <3>1. i \in 1 .. L + 1 /\ \A q \in i + 1 .. L + 1 : h[q] = g[q]
      BY <1>0, <2>2, <2>5
    <3>2. LuA(s, i, h) = LuA(s, i, g)
      BY ZenonT(60), <1>0, <3>1, LuAApres
    <3>3. h[i] = LuA(s, i, g)
      <4>1. CASE i = j
        BY <1>0, <2>2, <4>1
      <4>2. CASE i # j
        <5>1. i \in j + 1 .. L + 1
          BY <1>0, <2>2, <4>2
        <5>2. QED BY <2>b, <2>5, <5>1
      <4>3. QED BY <4>1, <4>2
    <3>4. QED BY <3>2, <3>3
  <2> HIDE DEF h, j
  <2>7. P(n + 1, h)
    BY <2>2, <2>4, <2>6
  <2>8. QED BY <1>2, <2>7
<1>3. L \in T
  <2> HIDE DEF T
  <2>1. 0 .. L \subseteq T
    BY <1>0, <1>1, <1>2, Recurrence
  <2>2. QED BY <1>0, <2>1
<1>4. PICK g : P(L, g)
  BY <1>3
<1> DEFINE Corps(f) == [i \in 1 .. L + 1 |-> LuA(s, i, f)]
           lu == CHOOSE f : f = Corps(f)
<1>5. g = Corps(g)
  BY <1>0, <1>4
<1>6. lu = Corps(lu)
  BY <1>5
<1>7. Push(carry, bloc) = lu[1]
  BY DEF Push, s
<1> HIDE DEF lu
<1>8. \A i \in 1 .. L + 1 : lu[i] = LuA(s, i, lu)
  BY <1>6
<1>9. lu \in [1 .. L + 1 -> Etats]
  <2> DEFINE V == {n \in 0 .. L : \A i \in L + 1 - n .. L + 1 : lu[i] \in Etats}
  <2>1. 0 \in V
    <3>1. LuA(s, L + 1, lu) \in Etats
      BY <1>0, LuAType
    <3>2. QED BY <1>0, <1>8, <3>1
  <2>2. ASSUME NEW n \in 0 .. L, n \in V, n + 1 \in 0 .. L PROVE n + 1 \in V
    <3>1. L - n \in 1 .. L /\ \A j \in L - n + 1 .. L + 1 : lu[j] \in Etats
      BY <1>0, <2>2
    <3>2. LuA(s, L - n, lu) \in Etats
      BY SMTT(60), <1>0, <3>1, LuAType
    <3>3. lu[L - n] \in Etats
      BY <1>0, <1>8, <3>1, <3>2
    <3>4. QED BY <1>0, <2>2, <3>1, <3>3
  <2> HIDE DEF V
  <2>3. 0 .. L \subseteq V
    BY <1>0, <2>1, <2>2, Recurrence
  <2> USE DEF V
  <2>4. \A i \in 1 .. L + 1 : lu[i] \in Etats
    BY <1>0, <2>3
  <2>5. QED BY <1>6, <2>4
<1>10. LitTout(s, lu)
  BY <1>8, <1>9 DEF LitTout
<1>11. QED BY <1>7, <1>10 DEF s

\* Read from i on, byte by byte, s gives what `lu` says it gives.
Accord(s, lu, i) ==
  \A t \in Seq(Caracteres) :
    LectureDepuis([texte |-> t, reste |-> <<>>], SubSeq(s, i, Len(s)))
      = [texte |-> t \o lu[i].texte, reste |-> lu[i].reste]

\* Reading on from i is one byte, then the rest.
LEMMA Deroule ==
  ASSUME NEW e \in Etats, NEW s \in Seq(Octets), NEW i \in 1 .. Len(s)
  PROVE  /\ Pas(e, s[i]) \in Etats
         /\ LectureDepuis(e, SubSeq(s, i, Len(s))) = LectureDepuis(Pas(e, s[i]), SubSeq(s, i + 1, Len(s)))
<1> DEFINE r == SubSeq(s, i, Len(s))
           q == SubSeq(s, i + 1, Len(s))
           h == <<s[i]>>
<1>0. i \in Nat /\ Len(s) \in Nat /\ s[i] \in Octets
  OBVIOUS
<1>1. r \in Seq(Octets) /\ Len(r) = Len(s) - i + 1 /\ \A n \in 1 .. Len(s) - i + 1 : r[n] = s[i + n - 1]
  BY <1>0
<1>2. q \in Seq(Octets) /\ Len(q) = Len(s) - i /\ \A n \in 1 .. Len(s) - i : q[n] = s[i + n]
  BY <1>0
<1>3. h \in Seq(Octets) /\ Len(h) = 1 /\ h[1] = s[i]
  BY <1>0
<1> HIDE DEF r, q, h
<1>4. h \o q \in Seq(Octets) /\ Len(h \o q) = Len(s) - i + 1
      /\ \A n \in 1 .. Len(s) - i + 1 : (h \o q)[n] = IF n = 1 THEN h[1] ELSE q[n - 1]
  <2>1. h \o q \in Seq(Octets) /\ Len(h \o q) = Len(h) + Len(q)
    BY <1>2, <1>3, ConcatProperties
  <2>2. \A n \in 1 .. Len(h) + Len(q) : (h \o q)[n] = IF n <= Len(h) THEN h[n] ELSE q[n - Len(h)]
    BY <1>2, <1>3, ConcatProperties
  <2>3. Len(h) + Len(q) = Len(s) - i + 1
    BY <1>0, <1>2, <1>3
  <2>4. \A n \in 1 .. Len(s) - i + 1 : (h \o q)[n] = IF n = 1 THEN h[1] ELSE q[n - 1]
    <3> SUFFICES ASSUME NEW n \in 1 .. Len(s) - i + 1
                 PROVE  (h \o q)[n] = IF n = 1 THEN h[1] ELSE q[n - 1]
      OBVIOUS
    <3>1. n \in 1 .. Len(h) + Len(q) /\ n \in Nat /\ n >= 1
      BY <1>0, <2>3
    <3>2. (h \o q)[n] = IF n <= 1 THEN h[n] ELSE q[n - 1]
      BY <1>3, <2>2, <3>1
    <3>3. n <= 1 <=> n = 1
      BY <3>1
    <3>4. QED BY <3>2, <3>3
  <2>5. QED BY <2>1, <2>3, <2>4
<1>5. ASSUME NEW n \in 1 .. Len(r) PROVE r[n] = (h \o q)[n]
  <2>1. n \in 1 .. Len(s) - i + 1
    BY <1>1
  <2>2. CASE n = 1
    BY SMTT(60), <1>0, <1>1, <1>3, <1>4, <2>1, <2>2
  <2>3. CASE n # 1
    <3>1. n - 1 \in 1 .. Len(s) - i /\ i + n - 1 = i + (n - 1)
      BY <1>0, <2>1, <2>3
    <3>2. q[n - 1] = s[i + (n - 1)]
      BY <1>2, <3>1
    <3>3. QED BY <1>1, <1>4, <2>1, <2>3, <3>1, <3>2
  <2>4. QED BY <2>2, <2>3
<1>6. r = h \o q
  BY ZenonT(60), <1>1, <1>4, <1>5, SeqEqual
<1>7. LectureDepuis(e, h) = Pas(e, s[i])
  BY <1>0, LectureUn DEF h
<1>8. LectureDepuis(e, r) = LectureDepuis(Pas(e, s[i]), q)
  BY <1>2, <1>3, <1>6, <1>7, LectureConcat
<1>9. QED BY <1>0, <1>8, PasType DEF r, q

\* With a letter put before it.
LEMMA Prefixe ==
  ASSUME NEW t \in Seq(Caracteres), NEW x \in Caracteres, NEW u \in Seq(Caracteres)
  PROVE  Append(t, x) \o u = t \o (<<x>> \o u) /\ Append(t, x) \in Seq(Caracteres)
<1>1. <<x>> \in Seq(Caracteres) /\ Append(t, x) = t \o <<x>>
  BY AppendIsConcat
<1>2. (t \o <<x>>) \o u = t \o (<<x>> \o u)
  BY <1>1, ConcatAssociative
<1>3. QED BY <1>1, <1>2

\* push and the reading by bytes agree at the end of the stream, at i when they agree after it,
\* and so everywhere.
LEMMA AccordVide ==
  ASSUME NEW s \in Seq(Octets), NEW lu, LitTout(s, lu)
  PROVE  Accord(s, lu, Len(s) + 1)
<1>1. Len(s) \in Nat /\ SubSeq(s, Len(s) + 1, Len(s)) = <<>>
  BY SubSeqEmpty
<1>2. lu[Len(s) + 1] = [texte |-> <<>>, reste |-> <<>>]
  <2>1. Len(s) + 1 \in 1 .. Len(s) + 1 /\ Len(s) + 1 > Len(s)
    BY <1>1
  <2>2. lu[Len(s) + 1] = LuA(s, Len(s) + 1, lu)
    BY <2>1 DEF LitTout
  <2>3. LuA(s, Len(s) + 1, lu) = Debut
    BY <2>1 DEF LuA
  <2>4. QED BY <2>2, <2>3 DEF Debut
<1> SUFFICES ASSUME NEW t \in Seq(Caracteres)
             PROVE  LectureDepuis([texte |-> t, reste |-> <<>>], SubSeq(s, Len(s) + 1, Len(s)))
                      = [texte |-> t \o lu[Len(s) + 1].texte, reste |-> lu[Len(s) + 1].reste]
  BY DEF Accord
<1>3. [texte |-> t, reste |-> <<>>] \in Etats
  BY EtatEst DEF Restes
<1>4. LectureDepuis([texte |-> t, reste |-> <<>>], <<>>) = [texte |-> t, reste |-> <<>>]
  BY <1>3, LectureVide
<1>5. t \o <<>> = t
  BY ConcatEmptySeq
<1>6. lu[Len(s) + 1].texte = <<>> /\ lu[Len(s) + 1].reste = <<>>
  BY <1>2
<1>7. QED BY <1>1, <1>4, <1>5, <1>6

\* The reading of one unit, letter or replacement, from the state between two units.
LEMMA AccordPas ==
  ASSUME NEW s \in Seq(Octets), NEW lu, LitTout(s, lu), NEW i \in 1 .. Len(s),
         \A j \in i + 1 .. Len(s) + 1 : Accord(s, lu, j)
  PROVE  Accord(s, lu, i)
<1>0. i \in Nat /\ Len(s) \in Nat /\ s[i] \in Octets
  OBVIOUS
<1> SUFFICES ASSUME NEW t \in Seq(Caracteres)
             PROVE  LectureDepuis([texte |-> t, reste |-> <<>>], SubSeq(s, i, Len(s)))
                      = [texte |-> t \o lu[i].texte, reste |-> lu[i].reste]
  BY DEF Accord
<1> DEFINE e0 == [texte |-> t, reste |-> <<>>]
           D(j) == SubSeq(s, j, Len(s))
           Lit(e, j) == LectureDepuis(e, D(j))
           voulu == [texte |-> t \o lu[i].texte, reste |-> lu[i].reste]
<1>1. PICK v \in 0 .. 2, k \in 0 .. 2 :
        Unite(s, i, v, k) /\ (Tronquee(s, i, v, k) \/ Lue(s, i, v, k) \/ Invalide(s, i, v, k))
  BY LuAEst
<1>2. /\ v = Suites(s[i]) /\ k <= v /\ i + k <= Len(s)
      /\ (k >= 1 => s[i + 1] = "c") /\ (k = 2 => s[i + 2] = "c")
  BY <1>0, <1>1 DEF Unite
<1>3. e0 \in Etats
  BY EtatEst DEF Restes
<1>4. /\ v = 0 => s[i] \in {"a", "c"}
      /\ v = 1 => s[i] = "l"
      /\ v = 2 => s[i] = "L"
  BY <1>0, <1>2 DEF Suites, Octets
<1>5. lu[i] = LuA(s, i, lu)
  BY <1>0 DEF LitTout
<1>6. \A j \in 1 .. Len(s) + 1 : lu[j].texte \in Seq(Caracteres)
  BY DEF LitTout, Etats

\* What is left once the byte i, and those that continue it, are read.
<1>7. \A e \in Etats, j \in 1 .. Len(s) : Pas(e, s[j]) \in Etats /\ Lit(e, j) = Lit(Pas(e, s[j]), j + 1)
  BY Deroule
<1>8. ASSUME NEW x \in Caracteres, NEW j \in i + 1 .. Len(s) + 1,
             lu[i] = [texte |-> <<x>> \o lu[j].texte, reste |-> lu[j].reste]
      PROVE  Lit([texte |-> Append(t, x), reste |-> <<>>], j) = voulu
  <2>1. lu[j].texte \in Seq(Caracteres)
    BY <1>0, <1>6
  <2>2. Append(t, x) \o lu[j].texte = t \o (<<x>> \o lu[j].texte) /\ Append(t, x) \in Seq(Caracteres)
    BY <2>1, Prefixe
  <2>3. Lit([texte |-> Append(t, x), reste |-> <<>>], j)
          = [texte |-> Append(t, x) \o lu[j].texte, reste |-> lu[j].reste]
    BY <2>2 DEF Accord
  <2>4. QED BY <1>8, <2>2, <2>3
<1>9. ASSUME NEW j \in 1 .. Len(s), s[j] # "c", NEW r \in Restes \ {<<>>}
      PROVE  Lit([texte |-> t, reste |-> r], j) = Lit([texte |-> Append(t, "?"), reste |-> <<>>], j)
  <2> DEFINE e == [texte |-> t, reste |-> r]
             q == [texte |-> Append(t, "?"), reste |-> <<>>]
  <2>1. e \in Etats /\ q \in Etats
    <3>1. "?" \in Caracteres /\ <<>> \in Restes /\ r \in Restes
      BY <1>9 DEF Caracteres, Restes
    <3>2. Append(t, "?") \in Seq(Caracteres)
      BY <3>1
    <3>3. QED BY <3>1, <3>2, EtatEst
  <2>2. Pas(e, s[j]) = Pas(q, s[j])
    BY <1>9 DEF Pas
  <2>3. QED BY <1>7, <1>9, <2>1, <2>2
<1>10. v = 0 => Pas(e0, s[i]) = [texte |-> Append(t, Lettre(s[i])), reste |-> <<>>]
  BY <1>2 DEF Pas
<1>11. v > 0 => Pas(e0, s[i]) = [texte |-> t, reste |-> <<s[i]>>]
  BY <1>2 DEF Pas
<1>12. v = 2 => Pas([texte |-> t, reste |-> <<"L">>], "c") = [texte |-> t, reste |-> <<"L", "c">>]
  <2> DEFINE x == <<"L">>
  <2>1. Len(x) = 1 /\ Suites("L") = 2 /\ x[1] = "L" /\ x # <<>> /\ x \in Seq(Octets)
    BY DEF Suites, Octets
  <2>2. Append(x, "c") = <<"L", "c">>
    BY AjoutAUn
  <2> HIDE DEF x
  <2> DEFINE e == [texte |-> t, reste |-> x]
  <2>5. e.texte = t /\ e.reste = x
    OBVIOUS
  <2> HIDE DEF e
  <2>6. Pas(e, "c") = [texte |-> t, reste |-> Append(x, "c")]
    BY SMTT(60), <2>1, <2>5 DEF Pas
  <2> USE DEF e
  <2>3. Pas([texte |-> t, reste |-> x], "c") = [texte |-> t, reste |-> Append(x, "c")]
    BY <2>6
  <2>4. QED BY <2>2, <2>3 DEF x
<1>13. Pas([texte |-> t, reste |-> <<"l">>], "c") = [texte |-> Append(t, Lettre("l")), reste |-> <<>>]
  <2>1. Len(<<"l">>) = 1 /\ Suites("l") = 1 /\ <<"l">>[1] = "l" /\ <<"l">> # <<>>
    BY DEF Suites
  <2>2. QED BY <2>1 DEF Pas
<1>14. Pas([texte |-> t, reste |-> <<"L", "c">>], "c") = [texte |-> Append(t, Lettre("L")), reste |-> <<>>]
  <2>1. Len(<<"L", "c">>) = 2 /\ Suites("L") = 2 /\ <<"L", "c">>[1] = "L" /\ <<"L", "c">> # <<>>
    BY DEF Suites
  <2>2. QED BY <2>1 DEF Pas
<1>15. CASE Lue(s, i, v, k)
  <2>1. k = v /\ lu[i] = [texte |-> <<Lettre(s[i])>> \o lu[i + k + 1].texte, reste |-> lu[i + k + 1].reste]
    BY <1>5, <1>15 DEF Lue
  <2>2. Lettre(s[i]) \in Caracteres
    BY DEF Lettre, Caracteres
  <2>3. i + k + 1 \in i + 1 .. Len(s) + 1
    BY <1>0, <1>2
  <2>4. Lit([texte |-> Append(t, Lettre(s[i])), reste |-> <<>>], i + k + 1) = voulu
    BY <1>8, <2>1, <2>2, <2>3
  <2>5. CASE v = 0
    BY <1>0, <1>3, <1>7, <1>10, <2>1, <2>4, <2>5
  <2>6. CASE v = 1
    <3>1. i + 1 \in 1 .. Len(s) /\ s[i] = "l" /\ s[i + 1] = "c" /\ i + k + 1 = (i + 1) + 1
      BY <1>0, <1>2, <1>4, <2>1, <2>6
    <3>2. Lit(e0, i) = Lit([texte |-> t, reste |-> <<"l">>], i + 1)
      BY <1>3, <1>7, <1>11, <2>6, <3>1
    <3>3. [texte |-> t, reste |-> <<"l">>] \in Etats
      BY EtatEst DEF Restes
    <3>4. QED BY <1>7, <1>13, <2>4, <3>1, <3>2, <3>3
  <2>7. CASE v = 2
    <3>1. /\ i + 1 \in 1 .. Len(s) /\ i + 2 \in 1 .. Len(s) /\ i + k + 1 = (i + 2) + 1 /\ (i + 1) + 1 = i + 2
          /\ s[i] = "L" /\ s[i + 1] = "c" /\ s[i + 2] = "c"
      BY SMTT(60), <1>0, <1>2, <1>4, <2>1, <2>7
    <3>2. Lit(e0, i) = Lit([texte |-> t, reste |-> <<"L">>], i + 1)
      BY <1>3, <1>7, <1>11, <2>7, <3>1
    <3>3. [texte |-> t, reste |-> <<"L">>] \in Etats /\ [texte |-> t, reste |-> <<"L", "c">>] \in Etats
      BY EtatEst DEF Restes
    <3>4. Lit(e0, i) = Lit([texte |-> t, reste |-> <<"L", "c">>], i + 2)
      BY <1>7, <1>12, <2>7, <3>1, <3>2, <3>3
    <3>5. QED BY <1>7, <1>14, <2>4, <3>1, <3>3, <3>4
  <2>8. QED BY <2>5, <2>6, <2>7

\* A run that is too short.
<1> DEFINE r0 == IF k = 0 THEN <<s[i]>> ELSE <<"L", "c">>
<1>16. ASSUME k < v
       PROVE  /\ r0 \in Restes \ {<<>>} /\ [texte |-> t, reste |-> r0] \in Etats
              /\ Lit(e0, i) = Lit([texte |-> t, reste |-> r0], i + k + 1)
  <2>1. Lit(e0, i) = Lit([texte |-> t, reste |-> <<s[i]>>], i + 1)
    BY <1>0, <1>3, <1>7, <1>11, <1>16
  <2>2. <<s[i]>> \in Restes \ {<<>>} /\ [texte |-> t, reste |-> <<s[i]>>] \in Etats
    <3>1. s[i] \in {"l", "L"}
      BY <1>4, <1>16
    <3>2. QED BY <3>1, EtatEst DEF Restes
  <2>3. CASE k = 0
    <3>1. i + k + 1 = i + 1 /\ r0 = <<s[i]>>
      BY <1>0, <2>3
    <3>2. QED BY <2>1, <2>2, <3>1
  <2>4. CASE k # 0
    <3>1. k = 1 /\ v = 2 /\ s[i] = "L" /\ s[i + 1] = "c" /\ i + 1 \in 1 .. Len(s) /\ i + k + 1 = (i + 1) + 1
      BY <1>0, <1>2, <1>4, <1>16, <2>4
    <3>2. <<"L", "c">> \in Restes \ {<<>>} /\ [texte |-> t, reste |-> <<"L", "c">>] \in Etats
      BY EtatEst DEF Restes
    <3>3. Lit(e0, i) = Lit([texte |-> t, reste |-> <<"L", "c">>], i + k + 1)
      BY <1>7, <1>12, <2>1, <2>2, <3>1
    <3>4. r0 = <<"L", "c">>
      BY <2>4
    <3>5. QED BY <3>2, <3>3, <3>4
  <2>5. QED BY <2>3, <2>4
<1> HIDE DEF r0
<1>17. CASE Invalide(s, i, v, k)
  <2>1. /\ k < v /\ s[i + k + 1] # "c"
        /\ lu[i] = [texte |-> <<"?">> \o lu[i + k + 1].texte, reste |-> lu[i + k + 1].reste]
    BY <1>5, <1>17 DEF Invalide
  <2>2. i + k + 1 \in 1 .. Len(s) /\ i + k + 1 \in i + 1 .. Len(s) + 1
    <3>1. i + k < Len(s)
      BY <1>17 DEF Invalide
    <3>2. QED BY <1>0, <3>1
  <2>4. Lit(e0, i) = Lit([texte |-> Append(t, "?"), reste |-> <<>>], i + k + 1)
    BY <1>9, <1>16, <2>1, <2>2
  <2>5. "?" \in Caracteres
    BY DEF Caracteres
  <2>6. QED BY <1>8, <2>1, <2>2, <2>4, <2>5
<1>18. CASE Tronquee(s, i, v, k)
  <2>1. k < v /\ i + k = Len(s) /\ lu[i] = [texte |-> <<>>, reste |-> SubSeq(s, i, Len(s))]
    BY <1>5, <1>18 DEF Tronquee
  <2>3. SubSeq(s, i, Len(s)) = r0
    BY <1>1, <1>18, ResteTronque DEF r0
  <2>4. i + k + 1 = Len(s) + 1 /\ D(Len(s) + 1) = <<>>
    BY <1>0, <2>1, SubSeqEmpty
  <2>5. Lit([texte |-> t, reste |-> r0], i + k + 1) = [texte |-> t, reste |-> r0]
    BY <1>16, <2>1, <2>4, LectureVide
  <2>6. t \o <<>> = t
    BY ConcatEmptySeq
  <2>7. lu[i].texte = <<>> /\ lu[i].reste = r0
    BY <2>1, <2>3
  <2>8. voulu = [texte |-> t, reste |-> r0]
    BY <2>6, <2>7
  <2>9. QED BY <1>16, <2>1, <2>5, <2>8
<1>19. QED BY <1>1, <1>15, <1>17, <1>18

LEMMA AccordPartout ==
  ASSUME NEW s \in Seq(Octets), NEW lu, LitTout(s, lu)
  PROVE  Accord(s, lu, 1)
<1> DEFINE L == Len(s)
           T == {n \in 0 .. L : \A j \in L + 1 - n .. L + 1 : Accord(s, lu, j)}
<1>0. L \in Nat
  OBVIOUS
<1>1. 0 \in T
  <2>1. \A j \in L + 1 - 0 .. L + 1 : j = L + 1
    BY <1>0
  <2>2. QED BY <1>0, <2>1, AccordVide
<1>2. ASSUME NEW n \in 0 .. L, n \in T, n + 1 \in 0 .. L PROVE n + 1 \in T
  <2>1. L - n \in 1 .. L /\ \A j \in (L - n) + 1 .. L + 1 : Accord(s, lu, j)
    BY <1>0, <1>2
  <2>2. Accord(s, lu, L - n)
    BY <2>1, AccordPas
  <2>3. \A j \in L + 1 - (n + 1) .. L + 1 : j = L - n \/ j \in (L - n) + 1 .. L + 1
    BY <1>0, <1>2
  <2>4. QED BY <1>2, <2>1, <2>2, <2>3
<1> HIDE DEF T
<1>3. 0 .. L \subseteq T
  BY <1>0, <1>1, <1>2, Recurrence
<1> USE DEF T
<1>4. L \in T /\ 1 \in L + 1 - L .. L + 1
  BY <1>0, <1>3
<1>5. QED BY <1>4

\* What `push` holds back between two calls, read again from scratch, is held again.
LEMMA ResteRelu ==
  ASSUME NEW e \in Etats
  PROVE  /\ e.reste \in Seq(Octets)
         /\ LectureDepuis([texte |-> e.texte, reste |-> <<>>], e.reste) = e
<1> DEFINE t == e.texte
           E(r) == [texte |-> t, reste |-> r]
<1>0. t \in Seq(Caracteres) /\ e.reste \in Restes /\ e = E(e.reste)
  BY DEF Etats
<1>1. \A r \in Restes : E(r) \in Etats
  BY <1>0, EtatEst
<1>2. {"l", "L", "c"} \subseteq Octets /\ Restes = {<<>>, <<"l">>, <<"L">>, <<"L", "c">>}
  BY DEF Octets, Restes
<1> HIDE DEF t
<1>3. ASSUME NEW b \in {"l", "L"} PROVE LectureDepuis(E(<<>>), <<b>>) = E(<<b>>)
  <2>1. Pas(E(<<>>), b) = E(<<b>>)
    BY <1>3 DEF Pas, Suites
  <2>2. QED BY <1>1, <1>2, <2>1, LectureUn
<1>4. CASE e.reste = <<>>
  BY <1>0, <1>1, <1>2, <1>4, LectureVide
<1>5. CASE e.reste \in {<<"l">>, <<"L">>}
  <2>1. PICK b \in {"l", "L"} : e.reste = <<b>>
    BY <1>5
  <2>2. <<b>> \in Seq(Octets) /\ LectureDepuis(E(<<>>), <<b>>) = E(<<b>>)
    BY <1>2, <1>3
  <2>3. QED BY <1>0, <2>1, <2>2 DEF t
<1>6. CASE e.reste = <<"L", "c">>
  <2> DEFINE x == <<"L">>
             y == <<"c">>
  <2>1. Len(x) = 1 /\ Suites("L") = 2 /\ x[1] = "L" /\ x # <<>> /\ x \in Seq(Octets) /\ y \in Seq(Octets)
    BY <1>2 DEF Suites
  <2>2. Append(x, "c") = <<"L", "c">> /\ x \o y = <<"L", "c">>
    <3>1. Append(x, "c") = <<"L", "c">>
      BY AjoutAUn
    <3>2. Append(x, "c") = x \o y
      BY <1>2, <2>1, AppendIsConcat
    <3>3. QED BY <3>1, <3>2
  <2>3. E(x) \in Etats /\ LectureDepuis(E(<<>>), x) = E(x)
    BY <1>1, <1>2, <1>3
  <2>4. LectureDepuis(E(x), y) = Pas(E(x), "c")
    BY <1>2, <2>3, LectureUn
  <2> HIDE DEF x, y
  <2>5. Pas(E(x), "c") = E(Append(x, "c"))
    BY <2>1 DEF Pas
  <2>6. LectureDepuis(E(<<>>), x \o y) = LectureDepuis(E(x), y)
    BY <1>1, <1>2, <2>1, <2>3, LectureConcat
  <2>7. <<"L", "c">> \in Seq(Octets)
    BY <1>2
  <2>8. LectureDepuis(E(<<>>), <<"L", "c">>) = E(<<"L", "c">>)
    BY <2>2, <2>4, <2>5, <2>6
  <2>9. QED BY <1>0, <1>6, <2>7, <2>8 DEF t
<1>7. QED BY <1>0, <1>2, <1>4, <1>5, <1>6

\* Whatever was read before, push goes on as the byte by byte reading does: the text of a
\* stream and what is held of its end do not depend on how it was cut into blocks
\* (Utf8Stream::push).
THEOREM PushSuitLecture ==
  ASSUME NEW e \in Etats, NEW bloc \in Seq(Octets)
  PROVE  LET p == Push(e.reste, bloc) IN
         p \in Etats /\ LectureDepuis(e, bloc) = [texte |-> e.texte \o p.texte, reste |-> p.reste]
<1> DEFINE s == e.reste \o bloc
           t == e.texte
<1>1. e.reste \in Seq(Octets) /\ t \in Seq(Caracteres)
  BY ResteRelu DEF Etats
<1>2. s \in Seq(Octets) /\ Len(s) \in Nat
  BY <1>1
<1>3. PICK lu : LitTout(s, lu) /\ Push(e.reste, bloc) = lu[1]
  BY <1>1, LuExiste
<1>4. lu[1] \in Etats
  <2> HIDE DEF s
  <2>1. 1 \in 1 .. Len(s) + 1
    BY <1>2
  <2>2. QED BY <1>3, <2>1 DEF LitTout
<1>5. SubSeq(s, 1, Len(s)) = s
  BY <1>2, SubSeqFull
<1>6. LectureDepuis([texte |-> t, reste |-> <<>>], s) = [texte |-> t \o lu[1].texte, reste |-> lu[1].reste]
  BY ZenonT(60), <1>1, <1>2, <1>3, <1>5, AccordPartout DEF Accord
<1>7. [texte |-> t, reste |-> <<>>] \in Etats
  BY <1>1, EtatEst DEF Restes
<1>8. LectureDepuis([texte |-> t, reste |-> <<>>], s) = LectureDepuis(e, bloc)
  BY <1>1, <1>7, ResteRelu, LectureConcat
<1>9. QED BY <1>3, <1>4, <1>6, <1>8

-----------------------------------------------------------------------------

LEMMA Constantes ==
  /\ MaxSessions \in Nat \ {0} /\ CapCanal \in Nat \ {0} /\ EN_VOL_MAX \in Nat \ {0}
  /\ \A g \in Sessions : \A bloc \in Blocs[g] : bloc \in Seq(Octets)
BY SortieAssumption DEF Sessions

Reliquats == \A g \in Sessions : relais[g].carry \in Restes

RelaisType == [etape : EtapesRelais, carry : Seq(Octets), tampon : Textes,
               echeance : BOOLEAN, premier : BOOLEAN, seq : Nat, filet : Nat]
EnrType == [etat : EtatsEnr, depuis : Nat, texte : Textes, disque : Nat]

LEMMA RestesCourts ==
  \A r \in Restes : r \in Seq(Octets) /\ Len(r) < 3
<1>1. Len(<<>>) = 0 /\ Len(<<"l">>) = 1 /\ Len(<<"L">>) = 1 /\ Len(<<"L", "c">>) = 2
  OBVIOUS
<1>2. <<>> \in Seq(Octets) /\ <<"l">> \in Seq(Octets) /\ <<"L">> \in Seq(Octets) /\ <<"L", "c">> \in Seq(Octets)
  BY DEF Octets
<1> SUFFICES ASSUME NEW r \in Restes PROVE r \in Seq(Octets) /\ Len(r) < 3
  OBVIOUS
<1>3. r = <<>> \/ r = <<"l">> \/ r = <<"L">> \/ r = <<"L", "c">>
  BY DEF Restes
<1>4. CASE r = <<>>
  BY <1>2, <1>4
<1>5. CASE r = <<"l">>
  BY <1>1, <1>2, <1>5
<1>6. CASE r = <<"L">>
  BY <1>1, <1>2, <1>6
<1>7. CASE r = <<"L", "c">>
  BY <1>1, <1>2, <1>7
<1>8. QED BY <1>3, <1>4, <1>5, <1>6, <1>7

\* A block decoded after what the relay carries.
LEMMA PushRelais ==
  ASSUME TypeOK, Reliquats, NEW g \in Sessions, canal[g] # <<>>
  PROVE  LET p == Push(relais[g].carry, Head(canal[g])) IN
         /\ Head(canal[g]) \in Seq(Octets) /\ Tail(canal[g]) \in Seq(Seq(Octets))
         /\ Len(Tail(canal[g])) = Len(canal[g]) - 1
         /\ p.texte \in Textes /\ p.reste \in Restes /\ p.reste \in Seq(Octets) /\ Len(p.reste) < 3
<1>1. Head(canal[g]) \in Seq(Octets) /\ Tail(canal[g]) \in Seq(Seq(Octets))
      /\ Len(Tail(canal[g])) = Len(canal[g]) - 1
  BY SMTT(60) DEF TypeOK
<1>2. [texte |-> <<>>, reste |-> relais[g].carry] \in Etats
  <2>1. <<>> \in Seq(Caracteres) /\ relais[g].carry \in Restes
    BY DEF Reliquats
  <2>2. QED BY <2>1, EtatEst
<1>3. Push(relais[g].carry, Head(canal[g])) \in Etats
  BY <1>1, <1>2, PushSuitLecture
<1>4. QED BY <1>1, <1>3, RestesCourts DEF Etats, Textes

\* The recorder after each of its operations.
LEMMA EnrApres ==
  ASSUME NEW e \in EnrType
  PROVE  /\ \A texte \in Textes : \A n \in Noter(e, texte) : n \in EnrType
         /\ \A n \in Vider(e) : n \in EnrType
         /\ \A n \in Cloturer(e) : n \in EnrType
<1>1. Condamne \in EnrType
  <2>1. Condamne = [etat |-> "condamne", depuis |-> 0, texte |-> <<>>, disque |-> 0]
    BY DEF Condamne, EnrVide
  <2>2. <<>> \in Textes
    BY DEF Textes
  <2>3. QED BY <2>1, <2>2 DEF EnrType, EtatsEnr
<1>2. Len(e.texte) \in Nat /\ \A texte \in Textes : e.texte \o texte \in Textes
  BY DEF EnrType, Textes
<1>3. QED BY <1>1, <1>2 DEF Noter, Vider, Cloturer, EnrType, EtatsEnr

LEMMA ReprendreType ==
  ASSUME NEW g, NEW r \in RelaisType
  PROVE  /\ Reprendre(g, r) \in RelaisType /\ Reprendre(g, r).etape \in {"lit", "attend"}
         /\ Reprendre(g, r).carry = r.carry /\ Reprendre(g, r).tampon = r.tampon
         /\ Reprendre(g, r).seq = r.seq /\ Reprendre(g, r).filet = r.filet
         /\ Reprendre(g, r).etape = "lit" <=> Place(g, r)
BY DEF Reprendre, RelaisType, EtapesRelais

\* A message leaves.
LEMMA EmettreEffet ==
  ASSUME TypeOK, NEW g \in Sessions, NEW r \in RelaisType, NEW e \in EnrType, EmettreTampon(g, r, e)
  PROVE  /\ file' \in Seq([session : Sessions, seq : Nat])
         /\ emis' \in [Sessions -> Textes] /\ enr' \in [Sessions -> EnrType]
         /\ relais' \in [Sessions -> RelaisType]
         /\ relais'[g].etape \in {"lit", "attend"}
         /\ relais'[g].carry = r.carry /\ relais'[g].tampon = <<>>
         /\ relais'[g].seq = r.seq + 1 /\ relais'[g].filet = r.filet
         /\ relais'[g].etape = "lit" <=> Place(g, relais'[g])
         /\ emis'[g] = emis[g] \o r.tampon
         /\ enr'[g] \in Vider(e)
         /\ \A h \in Sessions \ {g} : relais'[h] = relais[h] /\ emis'[h] = emis[h] /\ enr'[h] = enr[h]
         /\ file' = Append(file, [session |-> g, seq |-> r.seq + 1])
<1> DEFINE q == [r EXCEPT !.seq = @ + 1, !.tampon = <<>>, !.echeance = FALSE, !.premier = FALSE]
<1>1. q \in RelaisType /\ q.carry = r.carry /\ q.tampon = <<>> /\ q.seq = r.seq + 1 /\ q.filet = r.filet
  <2>1. <<>> \in Textes
    BY DEF Textes
  <2>2. q.carry = r.carry /\ q.tampon = <<>> /\ q.seq = r.seq + 1 /\ q.filet = r.filet
    BY DEF RelaisType
  <2>3. r.seq + 1 \in Nat
    BY DEF RelaisType
  <2>4. q \in RelaisType
    BY <2>1, <2>3 DEF RelaisType
  <2>5. QED BY <2>2, <2>4
<1>2. relais' = [relais EXCEPT ![g] = Reprendre(g, q)]
  BY DEF EmettreTampon
<1>3. [session |-> g, seq |-> r.seq + 1] \in [session : Sessions, seq : Nat]
  BY DEF RelaisType
<1>4. emis[g] \o r.tampon \in Textes
  BY DEF TypeOK, RelaisType, Textes
<1>5. relais \in [Sessions -> RelaisType] /\ enr \in [Sessions -> EnrType]
  BY DEF TypeOK, RelaisType, EnrType
<1> HIDE DEF q
<1>6. relais'[g] = Reprendre(g, q) /\ relais' \in [Sessions -> RelaisType]
      /\ \A h \in Sessions \ {g} : relais'[h] = relais[h]
  BY <1>1, <1>2, <1>5, ReprendreType
<1>7. Place(g, relais'[g]) <=> Place(g, q)
  BY <1>1, <1>6, ReprendreType DEF Place
<1>8. PICK apres \in Vider(e) : enr' = [enr EXCEPT ![g] = apres]
  BY DEF EmettreTampon
<1>9. apres \in EnrType
  BY EnrApres, <1>8
<1>10. file' = Append(file, [session |-> g, seq |-> r.seq + 1]) /\ emis' = [emis EXCEPT ![g] = @ \o r.tampon]
  BY DEF EmettreTampon
<1>11. file' \in Seq([session : Sessions, seq : Nat])
  BY <1>3, <1>10 DEF TypeOK
<1>12. emis' \in [Sessions -> Textes] /\ emis'[g] = emis[g] \o r.tampon
       /\ \A h \in Sessions \ {g} : emis'[h] = emis[h]
  BY <1>4, <1>10 DEF TypeOK
<1>13. enr' \in [Sessions -> EnrType] /\ enr'[g] \in Vider(e)
       /\ \A h \in Sessions \ {g} : enr'[h] = enr[h]
  BY <1>5, <1>8, <1>9
<1>14. QED BY <1>1, <1>6, <1>7, <1>10, <1>11, <1>12, <1>13, ReprendreType

\* What a step of the relay of g does to its numbers: a message leaves, or none.
Envoie(g) ==
  /\ relais[g].etape = "lit" /\ relais'[g].seq = relais[g].seq + 1
  /\ relais'[g].filet = relais[g].filet
  /\ file' = Append(file, [session |-> g, seq |-> relais[g].seq + 1])
  /\ relais'[g].etape = "lit" => Place(g, relais'[g])
  /\ relais'[g].etape = "attend" => ~ Place(g, relais'[g])
Retient(g) ==
  /\ relais'[g].seq = relais[g].seq /\ relais'[g].filet = relais[g].filet /\ file' = file
  /\ relais[g].etape = "lit" /\ relais'[g].etape \in {"lit", "fini"}

\* What it has read, and what it still has to read.
Gardes(g) == \A h \in Sessions \ {g} : relais'[h] = relais[h] /\ emis'[h] = emis[h] /\ enr'[h] = enr[h]

LEMMA LireEffet ==
  ASSUME TypeOK, Reliquats, NEW g \in Sessions, Lire(g)
  PROVE  LET p == Push(relais[g].carry, Head(canal[g])) IN
         /\ canal[g] # <<>> /\ canal' = [canal EXCEPT ![g] = Tail(@)]
         /\ relais' \in [Sessions -> RelaisType] /\ emis' \in [Sessions -> Textes]
         /\ enr' \in [Sessions -> EnrType] /\ file' \in Seq([session : Sessions, seq : Nat])
         /\ relais'[g].carry = p.reste /\ relais'[g].etape \in {"lit", "attend"}
         /\ Envoie(g) \/ Retient(g)
         /\ Decode(g)' = Decode(g) \o p.texte
         /\ \/ enr'[g] = enr[g] /\ p.texte = <<>> /\ emis'[g] = emis[g]
            \/ enr'[g] \in Noter(enr[g], p.texte) /\ emis'[g] = emis[g]
            \/ \E e \in Noter(enr[g], p.texte) : enr'[g] \in Vider(e) /\ emis'[g] = Decode(g)'
         /\ Gardes(g)
<1> DEFINE p == Push(relais[g].carry, Head(canal[g]))
           r == [relais[g] EXCEPT !.carry = p.reste, !.tampon = @ \o p.texte]
<1>1. /\ p.texte \in Textes /\ p.reste \in Restes /\ p.reste \in Seq(Octets)
      /\ relais[g].etape = "lit" /\ canal[g] # <<>>
  BY PushRelais DEF Lire
<1>2. relais \in [Sessions -> RelaisType] /\ enr \in [Sessions -> EnrType]
  BY DEF TypeOK, RelaisType, EnrType
<1>3. relais[g].tampon \o p.texte \in Textes /\ emis[g] \in Textes /\ relais[g].tampon \in Textes
      /\ (emis[g] \o relais[g].tampon) \o p.texte = emis[g] \o (relais[g].tampon \o p.texte)
  <2>1. emis[g] \in Textes /\ relais[g].tampon \in Textes
    BY <1>2 DEF TypeOK, RelaisType
  <2> DEFINE a == emis[g]
             b == relais[g].tampon
             c == p.texte
  <2>2. a \in Seq(Caracteres) /\ b \in Seq(Caracteres) /\ c \in Seq(Caracteres)
    BY <1>1, <2>1 DEF Textes
  <2> HIDE DEF a, b, c
  <2>3. b \o c \in Seq(Caracteres) /\ (a \o b) \o c = a \o (b \o c)
    BY SMTT(60), <2>2, ConcatAssociative, ConcatProperties
  <2>4. QED BY <2>1, <2>2, <2>3 DEF Textes, a, b, c
<1>4. /\ r \in RelaisType /\ r.carry = p.reste /\ r.tampon = relais[g].tampon \o p.texte
      /\ r.seq = relais[g].seq /\ r.filet = relais[g].filet /\ r.etape = "lit"
  <2> HIDE DEF p
  <2>1. relais[g] \in RelaisType
    BY <1>2
  <2>2. QED BY <1>1, <1>3, <2>1 DEF RelaisType
<1>5. canal' = [canal EXCEPT ![g] = Tail(@)]
      /\ IF p.texte = <<>>
         THEN relais' = [relais EXCEPT ![g] = r] /\ UNCHANGED <<emis, file, enr>>
         ELSE \E calme \in BOOLEAN, e \in Noter(enr[g], p.texte) :
              /\ r.premier => calme
              /\ IF calme \/ Len(r.tampon) >= FLUSH
                 THEN EmettreTampon(g, r, e) ELSE Garder(g, r, e)
  BY DEF Lire
<1> HIDE DEF p, r
<1>6. CASE p.texte = <<>>
  <2>1. relais' = [relais EXCEPT ![g] = r] /\ emis' = emis /\ file' = file /\ enr' = enr
    BY <1>5, <1>6
  <2>2. relais' \in [Sessions -> RelaisType] /\ relais'[g] = r
        /\ \A h \in Sessions \ {g} : relais'[h] = relais[h]
    BY <1>2, <1>4, <2>1
  <2>3. Decode(g)' = Decode(g) \o p.texte
    BY <1>3, <1>4, <2>1, <2>2 DEF Decode
  <2>4. Retient(g)
    BY <1>1, <1>4, <2>1, <2>2 DEF Retient
  <2>5. QED BY <1>1, <1>2, <1>4, <1>5, <1>6, <2>1, <2>2, <2>3, <2>4 DEF p, TypeOK, Gardes
<1>7. CASE p.texte # <<>>
  <2>1. PICK calme \in BOOLEAN, e \in Noter(enr[g], p.texte) :
          IF calme \/ Len(r.tampon) >= FLUSH THEN EmettreTampon(g, r, e) ELSE Garder(g, r, e)
    BY <1>5, <1>7
  <2>2. e \in EnrType
    BY <1>1, <1>2, <2>1, EnrApres
  <2>3. CASE EmettreTampon(g, r, e)
    <3>1. Envoie(g)
      <4>1. /\ relais'[g].seq = r.seq + 1 /\ relais'[g].filet = r.filet
            /\ file' = Append(file, [session |-> g, seq |-> r.seq + 1])
            /\ relais'[g].etape = "lit" <=> Place(g, relais'[g])
        BY <1>4, <2>2, <2>3, EmettreEffet
      <4>2. [session |-> g, seq |-> r.seq + 1] = [session |-> g, seq |-> relais[g].seq + 1]
        BY <1>4
      <4>3. QED BY <1>1, <1>4, <4>1, <4>2 DEF Envoie
    <3>2. emis'[g] = emis[g] \o r.tampon /\ relais'[g].tampon = <<>> /\ emis'[g] \in Textes
      BY <1>4, <2>2, <2>3, EmettreEffet
    <3>3. Decode(g)' = emis'[g]
      BY <3>2, ConcatEmptySeq DEF Decode, Textes
    <3>4. Decode(g)' = Decode(g) \o p.texte
      BY <1>3, <1>4, <3>2, <3>3 DEF Decode
    <3>5. Gardes(g)
      BY <1>4, <2>2, <2>3, EmettreEffet DEF Gardes
    <3>6. QED BY <1>1, <1>4, <1>5, <2>1, <2>2, <2>3, <3>1, <3>3, <3>4, <3>5, EmettreEffet DEF p
  <2>4. CASE Garder(g, r, e)
    <3>1. relais' = [relais EXCEPT ![g] = [r EXCEPT !.echeance = TRUE]] /\ enr' = [enr EXCEPT ![g] = e]
          /\ emis' = emis /\ file' = file
      BY <2>4 DEF Garder
    <3>2. [r EXCEPT !.echeance = TRUE] \in RelaisType
      BY <1>4 DEF RelaisType
    <3>3. /\ relais' \in [Sessions -> RelaisType] /\ relais'[g] = [r EXCEPT !.echeance = TRUE]
          /\ \A h \in Sessions \ {g} : relais'[h] = relais[h]
      BY <1>2, <3>1, <3>2
    <3>4. /\ relais'[g].carry = r.carry /\ relais'[g].tampon = r.tampon /\ relais'[g].seq = r.seq
          /\ relais'[g].filet = r.filet /\ relais'[g].etape = "lit"
      BY <1>4, <3>3 DEF RelaisType
    <3>5. Decode(g)' = Decode(g) \o p.texte
      BY <1>3, <1>4, <3>1, <3>4 DEF Decode
    <3>6. Retient(g)
      BY <1>1, <1>4, <3>1, <3>4 DEF Retient
    <3>7. enr' \in [Sessions -> EnrType] /\ enr'[g] = e /\ \A h \in Sessions \ {g} : enr'[h] = enr[h]
      BY <1>2, <2>2, <3>1
    <3>8. QED BY <1>1, <1>4, <1>5, <2>1, <3>1, <3>3, <3>4, <3>5, <3>6, <3>7 DEF p, TypeOK, Gardes
  <2>5. QED BY <2>1, <2>3, <2>4
<1>8. QED BY <1>6, <1>7

\* The window closes, or the channel does: what was decoded leaves whole, or none is there.
LEMMA EcheanceEffet ==
  ASSUME TypeOK, NEW g \in Sessions, Echeance(g)
  PROVE  /\ relais' \in [Sessions -> RelaisType] /\ emis' \in [Sessions -> Textes]
         /\ enr' \in [Sessions -> EnrType] /\ file' \in Seq([session : Sessions, seq : Nat])
         /\ relais'[g].carry = relais[g].carry /\ relais'[g].etape \in {"lit", "attend"}
         /\ Envoie(g) /\ Decode(g)' = Decode(g)
         /\ enr'[g] \in Vider(enr[g]) /\ emis'[g] = Decode(g)'
         /\ Gardes(g)
<1>1. relais[g] \in RelaisType /\ enr[g] \in EnrType /\ EmettreTampon(g, relais[g], enr[g])
      /\ relais[g].etape = "lit"
  BY DEF Echeance, TypeOK, RelaisType, EnrType
<1>2. emis'[g] = Decode(g) /\ relais'[g].tampon = <<>> /\ emis'[g] \in Seq(Caracteres)
  BY <1>1, EmettreEffet DEF Decode, Textes
<1>3. Decode(g)' = emis'[g]
  BY <1>2, ConcatEmptySeq DEF Decode
<1>4. Envoie(g)
  BY <1>1, EmettreEffet DEF Envoie
<1>5. Gardes(g)
  BY <1>1, EmettreEffet DEF Gardes
<1>6. QED BY <1>1, <1>2, <1>3, <1>4, <1>5, EmettreEffet

LEMMA FinRelaisEffet ==
  ASSUME TypeOK, NEW g \in Sessions, FinRelais(g)
  PROVE  /\ relais' \in [Sessions -> RelaisType] /\ emis' \in [Sessions -> Textes]
         /\ enr' \in [Sessions -> EnrType] /\ file' \in Seq([session : Sessions, seq : Nat])
         /\ relais'[g].carry = relais[g].carry /\ relais'[g].etape = "fini"
         /\ Envoie(g) \/ Retient(g)
         /\ Decode(g)' = Decode(g)
         /\ \/ enr'[g] = enr[g] /\ emis'[g] = emis[g]
            \/ enr'[g] \in Vider(enr[g]) /\ emis'[g] = Decode(g)'
         /\ Gardes(g)
<1>1. relais \in [Sessions -> RelaisType] /\ enr \in [Sessions -> EnrType] /\ relais[g].etape = "lit"
  BY DEF FinRelais, TypeOK, RelaisType, EnrType
<1>2. CASE relais[g].tampon = <<>>
  <2>1. relais' = [relais EXCEPT ![g].etape = "fini"] /\ emis' = emis /\ file' = file /\ enr' = enr
    BY <1>2 DEF FinRelais
  <2>2. /\ relais' \in [Sessions -> RelaisType] /\ relais'[g].etape = "fini"
        /\ relais'[g].carry = relais[g].carry /\ relais'[g].tampon = relais[g].tampon
        /\ relais'[g].seq = relais[g].seq /\ relais'[g].filet = relais[g].filet
        /\ \A h \in Sessions \ {g} : relais'[h] = relais[h]
    BY <1>1, <2>1 DEF RelaisType, EtapesRelais
  <2>3. QED BY <1>1, <2>1, <2>2 DEF Retient, Gardes, Decode, TypeOK
<1>3. CASE relais[g].tampon # <<>>
  <2>1. /\ file' = Append(file, [session |-> g, seq |-> relais[g].seq + 1])
        /\ emis' = [emis EXCEPT ![g] = @ \o relais[g].tampon]
        /\ \E e \in Vider(enr[g]) : enr' = [enr EXCEPT ![g] = e]
        /\ relais' = [relais EXCEPT ![g].etape = "fini", ![g].tampon = <<>>, ![g].seq = @ + 1]
    BY <1>3 DEF FinRelais
  <2>2. <<>> \in Textes /\ relais[g].seq + 1 \in Nat /\ relais[g].tampon \in Textes
        /\ emis[g] \o relais[g].tampon \in Textes
    <3>1. <<>> \in Textes /\ relais[g].seq + 1 \in Nat /\ relais[g].tampon \in Textes /\ emis[g] \in Textes
      <4>1. <<>> \in Textes
        BY DEF Textes
      <4>2. QED BY SMTT(60), <1>1, <4>1 DEF TypeOK, RelaisType
    <3>2. emis[g] \o relais[g].tampon \in Textes
      BY <3>1, ConcatProperties DEF Textes
    <3>3. QED BY <3>1, <3>2
  <2>3. relais' \in [Sessions -> RelaisType]
    BY SMTT(60), <1>1, <2>1, <2>2 DEF RelaisType, EtapesRelais
  <2>4. /\ relais'[g].etape = "fini" /\ relais'[g].tampon = <<>> /\ relais'[g].seq = relais[g].seq + 1
        /\ relais'[g].carry = relais[g].carry /\ relais'[g].filet = relais[g].filet
        /\ \A h \in Sessions \ {g} : relais'[h] = relais[h]
    BY <1>1, <2>1 DEF RelaisType
  <2>5. emis' \in [Sessions -> Textes] /\ emis'[g] = Decode(g)
        /\ \A h \in Sessions \ {g} : emis'[h] = emis[h]
    BY <2>1, <2>2 DEF TypeOK, Decode
  <2>6. PICK e \in Vider(enr[g]) : enr' = [enr EXCEPT ![g] = e]
    BY <2>1
  <2>7. enr' \in [Sessions -> EnrType] /\ enr'[g] = e /\ \A h \in Sessions \ {g} : enr'[h] = enr[h]
    BY <1>1, <2>6, EnrApres
  <2>8. [session |-> g, seq |-> relais[g].seq + 1] \in [session : Sessions, seq : Nat]
    BY <2>2
  <2>9. file' \in Seq([session : Sessions, seq : Nat])
    BY <2>1, <2>8 DEF TypeOK
  <2>10. Decode(g)' = emis'[g]
    BY <2>4, <2>5, ConcatEmptySeq DEF Decode, Textes
  <2>11. Envoie(g)
    BY <1>1, <2>1, <2>4 DEF Envoie
  <2>12. QED BY <2>3, <2>4, <2>5, <2>6, <2>7, <2>9, <2>10, <2>11 DEF Gardes
<1>4. QED BY <1>2, <1>3

\* The waits: only the step of the relay, and what it holds acknowledged, change.
Attentes(g) ==
  /\ relais' \in [Sessions -> RelaisType]
  /\ relais[g].etape = "attend" /\ relais'[g].etape \in {"lit", "attend"}
  /\ relais'[g].carry = relais[g].carry /\ relais'[g].tampon = relais[g].tampon
  /\ relais'[g].seq = relais[g].seq /\ relais'[g].filet \in {relais[g].filet, relais[g].seq}
  /\ relais'[g].etape = "lit" <=> Place(g, relais'[g])
  /\ \A h \in Sessions \ {g} : relais'[h] = relais[h]

LEMMA AttenteEffet ==
  ASSUME TypeOK, NEW g \in Sessions, Eveil(g) \/ ExpirerFilet(g)
  PROVE  Attentes(g)
<1>1. relais \in [Sessions -> RelaisType] /\ relais[g] \in RelaisType
  BY DEF TypeOK, RelaisType
<1>2. PICK r \in RelaisType :
        /\ relais' = [relais EXCEPT ![g] = Reprendre(g, r)]
        /\ r.carry = relais[g].carry /\ r.tampon = relais[g].tampon /\ r.seq = relais[g].seq
        /\ r.filet \in {relais[g].filet, relais[g].seq}
  <2>1. CASE Eveil(g)
    BY <1>1, <2>1 DEF Eveil
  <2>2. CASE ExpirerFilet(g)
    <3>1. Absoudre(relais[g]) \in RelaisType
      BY <1>1 DEF Absoudre, RelaisType
    <3>2. /\ Absoudre(relais[g]).carry = relais[g].carry /\ Absoudre(relais[g]).tampon = relais[g].tampon
          /\ Absoudre(relais[g]).seq = relais[g].seq /\ Absoudre(relais[g]).filet = relais[g].seq
      BY <1>1 DEF Absoudre, RelaisType
    <3>3. QED BY <2>2, <3>1, <3>2 DEF ExpirerFilet
  <2>3. QED BY <2>1, <2>2
<1>3. relais'[g] = Reprendre(g, r) /\ \A h \in Sessions \ {g} : relais'[h] = relais[h]
  BY <1>1, <1>2
<1>4. relais' \in [Sessions -> RelaisType]
  BY <1>1, <1>2, ReprendreType
<1>5. Place(g, relais'[g]) <=> Place(g, r)
  BY <1>3, ReprendreType DEF Place
<1>6. QED BY <1>2, <1>3, <1>4, <1>5, ReprendreType DEF Attentes, Eveil, ExpirerFilet

LEMMA EnrPage ==
  ASSUME TypeOK, NEW g \in Sessions,
         Retirer(g) \/ Demarrer(g) \/ Arreter(g) \/ Redimensionner(g)
  PROVE  /\ enr' \in [Sessions -> EnrType] /\ gestes' \in 0 .. MaxGestes
         /\ poignee' \in [Sessions -> BOOLEAN]
         /\ \A h \in Sessions \ {g} : enr'[h] = enr[h]
         /\ \/ enr'[g] \in Cloturer(enr[g]) \cup Vider(enr[g])
            \/ enr'[g] = [EnrVide EXCEPT !.etat = "actif", !.depuis = Len(Decode(g))]
         /\ UNCHANGED <<courante, pompe, attente, canal, recu, relais, emis, file, dernier,
                        accuses, reveil, acks, indu, permis, vu>>
<1>1. enr \in [Sessions -> EnrType] /\ enr[g] \in EnrType
  BY DEF TypeOK, EnrType
<1>2. UNCHANGED <<courante, pompe, attente, canal, recu, relais, emis, file, dernier,
                  accuses, reveil, acks, indu, permis, vu>>
  BY DEF Retirer, Demarrer, Arreter, Redimensionner, pompeVars, sortieVars, ackVars, sessionVars
<1>3. gestes' \in 0 .. MaxGestes
  <2>1. gestes' = gestes \/ (gestes < MaxGestes /\ gestes' = gestes + 1)
    BY DEF Retirer, Demarrer, Arreter, Redimensionner
  <2>2. gestes \in 0 .. MaxGestes /\ MaxGestes \in Nat
    BY SortieAssumption DEF TypeOK
  <2>3. QED BY <2>1, <2>2
<1>4. poignee' \in [Sessions -> BOOLEAN]
  BY DEF TypeOK, Retirer, Demarrer, Arreter, Redimensionner, sessionVars
<1>5. CASE Demarrer(g)
  <2> DEFINE e == [EnrVide EXCEPT !.etat = "actif", !.depuis = Len(Decode(g))]
  <2>1. Decode(g) \in Textes
    <3>1. emis[g] \in Seq(Caracteres) /\ relais[g].tampon \in Seq(Caracteres)
      BY DEF TypeOK, Textes
    <3>2. QED BY <3>1, ConcatProperties DEF Decode, Textes
  <2>2. EnrVide \in EnrType
    <3>1. <<>> \in Textes /\ "aucun" \in EtatsEnr
      BY DEF Textes, EtatsEnr
    <3>2. QED BY <3>1 DEF EnrVide, EnrType
  <2>3. Len(Decode(g)) \in Nat
    BY <2>1 DEF Textes
  <2>4. e \in EnrType
    <3> DEFINE d == Len(Decode(g))
    <3> HIDE DEF d
    <3>1. \A n \in Nat : [EnrVide EXCEPT !.etat = "actif", !.depuis = n] \in EnrType
      BY <2>2 DEF EnrType, EtatsEnr
    <3>2. QED BY <2>3, <3>1
  <2>5. enr' = [enr EXCEPT ![g] = e]
    BY <1>5 DEF Demarrer
  <2> HIDE DEF e
  <2>6. enr' \in [Sessions -> EnrType] /\ enr'[g] = e /\ \A h \in Sessions \ {g} : enr'[h] = enr[h]
    BY <1>1, <2>4, <2>5
  <2>7. QED BY <1>2, <1>3, <1>4, <2>6 DEF e
<1>6. CASE Retirer(g) \/ Arreter(g) \/ Redimensionner(g)
  <2>1. PICK e \in Cloturer(enr[g]) \cup Vider(enr[g]) : enr' = [enr EXCEPT ![g] = e]
    BY <1>6 DEF Retirer, Arreter, Redimensionner
  <2>2. e \in EnrType
    BY <1>1, <2>1, EnrApres
  <2>3. enr' \in [Sessions -> EnrType] /\ enr'[g] = e /\ \A h \in Sessions \ {g} : enr'[h] = enr[h]
    BY <1>1, <2>1, <2>2
  <2>4. QED BY <1>2, <1>3, <1>4, <2>1, <2>3
<1>7. QED BY <1>5, <1>6

Types == TypeOK /\ Reliquats

\* A step of the pump of g.
LEMMA PompeTypes ==
  ASSUME TypeOK, Reliquats, NEW g \in Sessions, Pompe(g)
  PROVE  TypeOK' /\ Reliquats'
<1> USE DEF sessionVars, pompeVars, sortieVars, ackVars
<1>1. ASSUME canal' \in [Sessions -> Seq(Seq(Octets))], \A h \in Sessions : Len(canal'[h]) <= CapCanal,
             pompe' \in [Sessions -> {"absente", "vit", "finie"}],
             attente' \in [Sessions -> Seq(Octets)], recu' \in [Sessions -> Seq(Octets)],
             UNCHANGED <<sessionVars, sortieVars, ackVars, permis, gestes, enr, vu>>
      PROVE  TypeOK' /\ Reliquats'
  BY <1>1 DEF TypeOK, Reliquats
<1>2. /\ canal \in [Sessions -> Seq(Seq(Octets))] /\ \A h \in Sessions : Len(canal[h]) <= CapCanal
      /\ attente \in [Sessions -> Seq(Octets)] /\ recu \in [Sessions -> Seq(Octets)]
      /\ pompe \in [Sessions -> {"absente", "vit", "finie"}] /\ CapCanal \in Nat
  BY Constantes DEF TypeOK
<1>3. ASSUME NEW bloc \in Seq(Octets), Len(canal[g]) < CapCanal, canal' = [canal EXCEPT ![g] = Append(@, bloc)]
      PROVE  canal' \in [Sessions -> Seq(Seq(Octets))] /\ \A h \in Sessions : Len(canal'[h]) <= CapCanal
  <2>1. Append(canal[g], bloc) \in Seq(Seq(Octets)) /\ Len(Append(canal[g], bloc)) = Len(canal[g]) + 1
    BY <1>2, AppendProperties
  <2>2. QED BY <1>2, <1>3, <2>1
<1>4. ASSUME NEW bloc \in Blocs[g], LireServeur(g, bloc) PROVE TypeOK' /\ Reliquats'
  <2>1. bloc \in Seq(Octets)
    BY Constantes
  <2>2. recu' = [recu EXCEPT ![g] = @ \o bloc]
        /\ UNCHANGED <<sessionVars, pompe, sortieVars, ackVars, permis, gestes, enr, vu>>
        /\ \/ Len(canal[g]) < CapCanal /\ canal' = [canal EXCEPT ![g] = Append(@, bloc)] /\ attente' = attente
           \/ attente' = [attente EXCEPT ![g] = bloc] /\ canal' = canal
    BY <1>4 DEF LireServeur
  <2>3. recu' \in [Sessions -> Seq(Octets)]
    <3>1. recu[g] \o bloc \in Seq(Octets)
      BY <1>2, <2>1, ConcatProperties
    <3>2. QED BY <1>2, <2>2, <3>1
  <2>4. CASE Len(canal[g]) < CapCanal /\ canal' = [canal EXCEPT ![g] = Append(@, bloc)] /\ attente' = attente
    BY <1>1, <1>2, <1>3, <2>1, <2>2, <2>3, <2>4
  <2>5. CASE attente' = [attente EXCEPT ![g] = bloc] /\ canal' = canal
    BY <1>1, <1>2, <2>1, <2>2, <2>3, <2>5
  <2>6. QED BY <2>2, <2>4, <2>5
<1>5. CASE PousserAttente(g)
  <2>1. <<>> \in Seq(Octets)
    OBVIOUS
  <2>2. attente' \in [Sessions -> Seq(Octets)]
    BY <1>2, <1>5, <2>1 DEF PousserAttente
  <2>3. attente[g] \in Seq(Octets)
    BY <1>2
  <2>4. QED BY <1>1, <1>2, <1>3, <1>5, <2>2, <2>3 DEF PousserAttente
<1>6. CASE FinServeur(g)
  BY <1>1, <1>2, <1>6 DEF FinServeur
<1>7. CASE Couper(g)
  <2>1. <<>> \in Seq(Octets)
    OBVIOUS
  <2>2. attente' \in [Sessions -> Seq(Octets)]
    BY <1>2, <1>7, <2>1 DEF Couper
  <2>3. SubSeq(recu[g], 1, Len(recu[g]) - Len(attente[g])) \in Seq(Octets)
    <3>1. Len(recu[g]) \in Nat /\ Len(attente[g]) \in Nat /\ recu[g] \in Seq(Octets)
      BY <1>2
    <3>2. QED BY <3>1
  <2>4. recu' \in [Sessions -> Seq(Octets)]
    BY <1>2, <1>7, <2>3 DEF Couper
  <2>5. QED BY <1>1, <1>2, <1>7, <2>2, <2>4 DEF Couper
<1>8. QED BY <1>4, <1>5, <1>6, <1>7 DEF Pompe

\* A step of the relay of g.
LEMMA RelaisTypes ==
  ASSUME TypeOK, Reliquats, NEW g \in Sessions, Relais(g)
  PROVE  TypeOK' /\ Reliquats'
<1> USE DEF sessionVars, pompeVars, sortieVars, ackVars
<1>1. ASSUME relais' \in [Sessions -> RelaisType],
             \A h \in Sessions : relais'[h].carry \in Restes /\ relais'[h].filet <= relais'[h].seq,
             emis' \in [Sessions -> Textes], enr' \in [Sessions -> EnrType],
             file' \in Seq([session : Sessions, seq : Nat]),
             canal' \in [Sessions -> Seq(Seq(Octets))], \A h \in Sessions : Len(canal'[h]) <= CapCanal,
             permis' \in [Sessions -> BOOLEAN], accuses' \in 0 .. MaxSessions,
             UNCHANGED <<sessionVars, pompeVars, dernier, reveil, acks, indu, gestes, vu>>
      PROVE  TypeOK' /\ Reliquats'
  <2>1. \A h \in Sessions : Len(relais'[h].carry) < 3
    BY <1>1, RestesCourts
  <2>2. QED BY <1>1, <2>1 DEF TypeOK, Reliquats, RelaisType, EnrType
<1>2. /\ relais \in [Sessions -> RelaisType] /\ emis \in [Sessions -> Textes] /\ enr \in [Sessions -> EnrType]
      /\ file \in Seq([session : Sessions, seq : Nat]) /\ permis \in [Sessions -> BOOLEAN]
      /\ canal \in [Sessions -> Seq(Seq(Octets))] /\ \A h \in Sessions : Len(canal[h]) <= CapCanal
      /\ \A h \in Sessions : relais[h].carry \in Restes /\ relais[h].filet <= relais[h].seq
      /\ \A h \in Sessions : relais[h].seq \in Nat /\ relais[h].filet \in Nat
      /\ accuses \in 0 .. MaxSessions
  BY DEF TypeOK, Reliquats, RelaisType, EnrType
<1>3. ASSUME Gardes(g), Envoie(g) \/ Retient(g), relais'[g].carry \in Restes
      PROVE  \A h \in Sessions : relais'[h].carry \in Restes /\ relais'[h].filet <= relais'[h].seq
  <2>1. \A h \in Sessions \ {g} : relais'[h] = relais[h]
    BY <1>3 DEF Gardes
  <2>2. relais'[g].filet = relais[g].filet /\ relais'[g].seq \in {relais[g].seq, relais[g].seq + 1}
    BY <1>3 DEF Envoie, Retient
  <2>3. relais'[g].filet <= relais'[g].seq
    BY <1>2, <2>2
  <2>4. QED BY <1>2, <1>3, <2>1, <2>3
<1>4. CASE Lire(g)
  <2>1. relais'[g].carry \in Restes
    BY <1>4, LireEffet, PushRelais
  <2>2. canal' = [canal EXCEPT ![g] = Tail(@)] /\ Tail(canal[g]) \in Seq(Seq(Octets))
        /\ Len(Tail(canal[g])) = Len(canal[g]) - 1 /\ Len(canal[g]) \in Nat
    BY <1>2, <1>4, LireEffet, PushRelais
  <2>3. canal' \in [Sessions -> Seq(Seq(Octets))] /\ \A h \in Sessions : Len(canal'[h]) <= CapCanal
    BY <1>2, <2>2, Constantes
  <2>4. UNCHANGED <<sessionVars, pompeVars, ackVars, permis, gestes, vu>>
    BY <1>4 DEF Lire
  <2>5. QED BY <1>1, <1>2, <1>3, <1>4, <2>1, <2>3, <2>4, LireEffet
<1>5. CASE Echeance(g)
  <2>1. UNCHANGED <<sessionVars, pompeVars, canal, ackVars, permis, gestes, vu>>
    BY <1>5 DEF Echeance
  <2>2. QED BY <1>1, <1>2, <1>3, <1>5, <2>1, EcheanceEffet
<1>6. CASE FinRelais(g)
  <2>1. UNCHANGED <<sessionVars, pompeVars, canal, dernier, permis, reveil, acks, indu, gestes, vu>>
        /\ accuses' \in 0 .. MaxSessions
    BY <1>2, <1>6, Constantes DEF FinRelais, SansAccuse
  <2>2. QED BY <1>1, <1>2, <1>3, <1>6, <2>1, FinRelaisEffet
<1>7. CASE Eveil(g) \/ ExpirerFilet(g)
  <2>1. Attentes(g)
    BY <1>7, AttenteEffet
  <2>2. \A h \in Sessions : relais'[h].carry \in Restes /\ relais'[h].filet <= relais'[h].seq
    <3>1. \A h \in Sessions \ {g} : relais'[h] = relais[h]
      BY <2>1 DEF Attentes
    <3>2. relais'[g].carry = relais[g].carry /\ relais'[g].seq = relais[g].seq
          /\ relais'[g].filet \in {relais[g].filet, relais[g].seq}
      BY <2>1 DEF Attentes
    <3>3. relais'[g].carry \in Restes /\ relais'[g].filet <= relais'[g].seq
      BY <1>2, <3>2
    <3>4. QED BY <1>2, <3>1, <3>3
  <2>3. UNCHANGED <<sessionVars, pompeVars, canal, emis, file, ackVars, gestes, enr, vu>>
        /\ permis' \in [Sessions -> BOOLEAN]
    BY <1>2, <1>7 DEF Eveil, ExpirerFilet
  <2>4. QED BY <1>1, <1>2, <2>1, <2>2, <2>3 DEF Attentes
<1>8. QED BY <1>4, <1>5, <1>6, <1>7 DEF Relais

LEMMA TypesPas ==
  Types /\ [Next]_vars => Types'
<1> SUFFICES ASSUME TypeOK, Reliquats, [Next]_vars PROVE TypeOK' /\ Reliquats'
  BY DEF Types
<1> USE DEF sessionVars, pompeVars, sortieVars, ackVars
<1>1. ASSUME UNCHANGED <<pompe, attente, canal, recu, relais, emis, gestes, enr, poignee, courante>>,
             file' \in Seq([session : Sessions, seq : Nat]), dernier' \in [Sessions -> Nat],
             permis' \in [Sessions -> BOOLEAN], {accuses', reveil'} \subseteq 0 .. MaxSessions,
             acks' \subseteq [session : Sessions, seq : Nat],
             vu' \in [Sessions -> Nat], indu' \subseteq Sessions
      PROVE  TypeOK' /\ Reliquats'
  BY <1>1 DEF TypeOK, Reliquats
<1>2. /\ file \in Seq([session : Sessions, seq : Nat]) /\ dernier \in [Sessions -> Nat]
      /\ permis \in [Sessions -> BOOLEAN] /\ {accuses, reveil} \subseteq 0 .. MaxSessions
      /\ acks \subseteq [session : Sessions, seq : Nat]
      /\ vu \in [Sessions -> Nat] /\ indu \subseteq Sessions /\ MaxSessions \in Nat
  BY Constantes DEF TypeOK
<1>3. CASE UNCHANGED vars
  BY <1>3 DEF TypeOK, Reliquats, vars
<1>4. CASE Ouvrir
  <2> DEFINE g == courante + 1
  <2>1. g \in Sessions /\ g \in 0 .. MaxSessions
    BY <1>2, <1>4 DEF Ouvrir, Sessions, TypeOK
  <2>2. relais \in [Sessions -> RelaisType]
    BY DEF TypeOK, RelaisType
  <2>3. relais' = [relais EXCEPT ![g].etape = "lit"] /\ courante' = g /\ accuses' = g
        /\ poignee' = [h \in Sessions |-> h = g] /\ pompe' = [pompe EXCEPT ![g] = "vit"]
        /\ UNCHANGED <<attente, canal, dernier, permis, reveil, file, acks, gestes, enr, recu, emis, vu, indu>>
    BY <1>4 DEF Ouvrir
  <2>4. relais' \in [Sessions -> RelaisType] /\ \A h \in Sessions :
          relais'[h].carry = relais[h].carry /\ relais'[h].seq = relais[h].seq /\ relais'[h].filet = relais[h].filet
    BY ZenonT(60), <2>1, <2>2, <2>3 DEF RelaisType, EtapesRelais
  <2> HIDE DEF g
  <2>5. poignee' \in [Sessions -> BOOLEAN] /\ pompe' \in [Sessions -> {"absente", "vit", "finie"}]
    BY <2>3 DEF TypeOK
  <2>6. QED BY ZenonT(60), <1>2, <2>1, <2>3, <2>4, <2>5 DEF TypeOK, Reliquats, RelaisType
<1>5. CASE file # <<>> /\ (Ecrire \/ Ignorer)
  <2>1. Head(file) \in [session : Sessions, seq : Nat] /\ Tail(file) \in Seq([session : Sessions, seq : Nat])
    BY <1>2, <1>5, HeadTailProperties
  <2>2. CASE Ecrire
    <3>1. vu' \in [Sessions -> Nat] /\ acks' \subseteq [session : Sessions, seq : Nat]
      BY <1>2, <2>1, <2>2 DEF Ecrire
    <3>2. QED BY <1>1, <1>2, <2>1, <2>2, <3>1 DEF Ecrire
  <2>3. CASE Ignorer
    BY <1>1, <1>2, <2>1, <2>3 DEF Ignorer
  <2>4. QED BY <1>5, <2>2, <2>3
<1>6. CASE Notifier
  <2>1. permis' \in [Sessions -> BOOLEAN] /\ reveil' = 0
    BY <1>2, <1>6 DEF Notifier, Sessions
  <2>2. QED BY <1>1, <1>2, <1>6, <2>1 DEF Notifier
<1>7. ASSUME NEW a \in acks, PtyAck(a) PROVE TypeOK' /\ Reliquats'
  <2>1. a.seq \in Nat
    BY <1>2
  <2>2. acks' \subseteq [session : Sessions, seq : Nat]
    BY <1>2, <1>7 DEF PtyAck
  <2>3. CASE accuses = 0
    BY <1>1, <1>2, <1>7, <2>2, <2>3 DEF PtyAck
  <2>4. CASE accuses # 0
    <3>1. accuses \in Sessions /\ MaxEntre(dernier[accuses], a.seq) \in Nat
      BY <1>2, <2>1, <2>4 DEF Sessions, MaxEntre
    <3>2. dernier' \in [Sessions -> Nat] /\ reveil' = accuses /\ indu' \subseteq Sessions
      BY <1>2, <1>7, <2>4, <3>1 DEF PtyAck
    <3>3. QED BY <1>1, <1>2, <1>7, <2>2, <3>2 DEF PtyAck
  <2>5. QED BY <2>3, <2>4
<1>8. ASSUME NEW g \in Sessions, Retirer(g) \/ Demarrer(g) \/ Arreter(g) \/ Redimensionner(g)
      PROVE  TypeOK' /\ Reliquats'
  <2>1. /\ enr' \in [Sessions -> EnrType] /\ gestes' \in 0 .. MaxGestes
        /\ poignee' \in [Sessions -> BOOLEAN]
        /\ UNCHANGED <<courante, pompe, attente, canal, recu, relais, emis, file, dernier,
                       accuses, reveil, acks, indu, permis, vu>>
    BY <1>8, EnrPage
  <2>2. QED BY <2>1 DEF TypeOK, Reliquats, EnrType
<1>9. QED
  <2>1. Ecrire \/ Ignorer => file # <<>>
    BY DEF Ecrire, Ignorer
  <2>2. QED BY <1>3, <1>4, <1>5, <1>6, <1>7, <1>8, <2>1, PompeTypes, RelaisTypes
               DEF Next, CloreSession, PtyClose

LEMMA TypesDebut ==
  Init => Types
<1> SUFFICES ASSUME Init PROVE Types
  OBVIOUS
<1>1. <<>> \in Seq(Octets) /\ <<>> \in Seq(Seq(Octets)) /\ <<>> \in Textes /\ Len(<<>>) = 0
      /\ <<>> \in Seq([session : Sessions, seq : Nat]) /\ <<>> \in Restes
  BY DEF Textes, Restes
<1>2. RelaisNeuf \in RelaisType /\ EnrVide \in EnrType
  BY <1>1 DEF RelaisNeuf, RelaisType, EnrVide, EnrType, EtapesRelais, EtatsEnr
<1>3. relais \in [Sessions -> RelaisType] /\ enr \in [Sessions -> EnrType]
      /\ \A g \in Sessions : relais[g].carry = <<>> /\ relais[g].filet = 0 /\ relais[g].seq = 0
  BY <1>2 DEF Init, RelaisNeuf
<1>4. QED BY <1>1, <1>3, Constantes, SortieAssumption DEF Init, Types, TypeOK, Reliquats, RelaisType, EnrType

\* Type correctness of the terminal's output: the channel never exceeds its capacity,
\* what the decoder carries is the beginning of one character, and nothing is absolved
\* that was not sent.
THEOREM TypesDeLaSortie ==
  Spec => []TypeOK
<1>1. Spec => []Types
  BY TypesDebut, TypesPas, PTL DEF Spec
<1>2. Types => TypeOK
  BY DEF Types
<1>3. QED BY <1>1, <1>2, PTL

-----------------------------------------------------------------------------
\* What makes the flow inductive.  A session has a relay once it is opened; what the page has
\* written, what waits for it and what was sent are in order; an acknowledgement speaks of
\* what was written; and a relay only reads while its window is open.
Ouverts == \A g \in Sessions :
  (relais[g].etape = "absent" <=> courante < g) /\ (courante < g => relais[g].seq = 0)
Numeros ==
  /\ \A g \in Sessions : vu[g] <= relais[g].seq
  /\ \A n \in 1 .. Len(file) :
       vu[file[n].session] <= file[n].seq /\ file[n].seq <= relais[file[n].session].seq
  /\ \A n, m \in 1 .. Len(file) :
       n < m /\ file[n].session = file[m].session => file[n].seq <= file[m].seq
  /\ \A a \in acks : a.seq <= vu[a.session]
Credits == \A g \in Sessions :
  (g \notin indu => dernier[g] <= vu[g]) /\ (relais[g].etape = "lit" => Place(g, relais[g]))
Flux == Ouverts /\ Numeros /\ Credits /\ FluxTenu

\* The numbers the proofs compare.
LEMMA Nombres ==
  ASSUME TypeOK
  PROVE  /\ \A g \in Sessions : relais[g].seq \in Nat /\ relais[g].filet \in Nat /\ dernier[g] \in Nat
                                /\ vu[g] \in Nat /\ relais[g].filet <= relais[g].seq
         /\ \A n \in 1 .. Len(file) : file[n].session \in Sessions /\ file[n].seq \in Nat
         /\ \A a \in acks : a.session \in Sessions /\ a.seq \in Nat
         /\ courante \in 0 .. MaxSessions /\ accuses \in 0 .. MaxSessions /\ reveil \in 0 .. MaxSessions
         /\ Len(file) \in Nat /\ EN_VOL_MAX \in Nat /\ EN_VOL_MAX > 0 /\ Sessions \subseteq Nat \ {0}
         /\ relais \in [Sessions -> RelaisType] /\ permis \in [Sessions -> BOOLEAN]
<1>1. \A g \in Sessions : relais[g].seq \in Nat /\ relais[g].filet \in Nat /\ dernier[g] \in Nat
                          /\ vu[g] \in Nat /\ relais[g].filet <= relais[g].seq
  BY DEF TypeOK
<1>2. Len(file) \in Nat /\ \A n \in 1 .. Len(file) : file[n] \in [session : Sessions, seq : Nat]
  <2> DEFINE M == [session : Sessions, seq : Nat]
  <2>1. file \in Seq(M)
    BY DEF TypeOK
  <2> HIDE DEF M
  <2>2. Len(file) \in Nat /\ \A n \in 1 .. Len(file) : file[n] \in M
    BY <2>1, ElementOfSeq
  <2>3. QED BY <2>2 DEF M
<1>3. relais \in [Sessions -> RelaisType] /\ permis \in [Sessions -> BOOLEAN]
  BY DEF TypeOK, RelaisType
<1>4. /\ \A a \in acks : a.session \in Sessions /\ a.seq \in Nat
      /\ courante \in 0 .. MaxSessions /\ accuses \in 0 .. MaxSessions /\ reveil \in 0 .. MaxSessions
  BY DEF TypeOK
<1>5. EN_VOL_MAX \in Nat /\ EN_VOL_MAX > 0 /\ Sessions \subseteq Nat \ {0}
  BY Constantes DEF Sessions
<1>6. QED BY <1>1, <1>2, <1>3, <1>4, <1>5

\* A message more is one more for the page: the window had room for it.
LEMMA UnDePlus ==
  ASSUME NEW s \in Nat, NEW d \in Nat, NEW f \in Nat, NEW v \in Nat, d <= v,
         EnVol(s, MaxEntre(d, f)) < EN_VOL_MAX
  PROVE  EnVol(s + 1, MaxEntre(f, v)) <= EN_VOL_MAX
BY Constantes DEF EnVol, MaxEntre

LEMMA MoinsEnVol ==
  ASSUME NEW s \in Nat, NEW d \in Nat, NEW f \in Nat, NEW e \in Nat, NEW g \in Nat, d <= e, f <= g
  PROVE  EnVol(s, MaxEntre(e, g)) <= EnVol(s, MaxEntre(d, f))
BY DEF EnVol, MaxEntre

\* The step of a relay that sends, or keeps what it read.
LEMMA FluxRelais ==
  ASSUME TypeOK, Flux, NEW g \in Sessions, Envoie(g) \/ Retient(g),
         relais' \in [Sessions -> RelaisType], file' \in Seq([session : Sessions, seq : Nat]),
         \A h \in Sessions \ {g} : relais'[h] = relais[h],
         relais'[g].etape \in {"lit", "attend", "fini"},
         accuses' = accuses \/ (relais'[g].etape = "fini" /\ accuses' = SansAccuse(g)),
         UNCHANGED <<courante, vu, dernier, acks, permis, reveil, indu>>
  PROVE  Flux'
<1>0. /\ \A h \in Sessions : relais[h].seq \in Nat /\ relais[h].filet \in Nat /\ dernier[h] \in Nat
                             /\ vu[h] \in Nat /\ relais[h].filet <= relais[h].seq
      /\ \A n \in 1 .. Len(file) : file[n].session \in Sessions /\ file[n].seq \in Nat
      /\ Len(file) \in Nat /\ EN_VOL_MAX \in Nat /\ EN_VOL_MAX > 0
      /\ courante \in 0 .. MaxSessions /\ Sessions \subseteq Nat \ {0}
      /\ accuses \in 0 .. MaxSessions
  BY Nombres
<1>1. relais[g].etape = "lit" /\ Place(g, relais[g]) /\ relais'[g].filet = relais[g].filet
  BY DEF Envoie, Retient, Flux, Credits
<1>2. ~ (courante < g)
  BY <1>1 DEF Flux, Ouverts
<1>3. Ouverts'
  BY <1>2 DEF Flux, Ouverts
<1>a. AccuseAtteint'
  <2> SUFFICES ASSUME courante > 0, relais'[courante].etape \in {"lit", "attend"}
               PROVE  accuses' = courante
    BY DEF AccuseAtteint
  <2>1. courante \in Sessions
    BY <1>0, Constantes DEF Sessions
  <2>2. CASE courante = g
    BY <1>1, <2>2 DEF Flux, FluxTenu, AccuseAtteint
  <2>3. CASE courante # g
    <3>1. accuses = courante
      BY <2>1, <2>3 DEF Flux, FluxTenu, AccuseAtteint
    <3>2. QED BY <2>3, <3>1 DEF SansAccuse
  <2>4. QED BY <2>2, <2>3
<1>4. CASE Envoie(g)
  <2>1. /\ relais'[g].seq = relais[g].seq + 1
        /\ file' = Append(file, [session |-> g, seq |-> relais[g].seq + 1])
        /\ relais'[g].etape = "lit" => Place(g, relais'[g])
        /\ relais'[g].etape = "attend" => ~ Place(g, relais'[g])
    BY <1>4 DEF Envoie
  <2> DEFINE m == [session |-> g, seq |-> relais[g].seq + 1]
  <2>2. m.session = g /\ m.seq = relais[g].seq + 1 /\ m \in [session : Sessions, seq : Nat]
    BY <1>0
  <2> HIDE DEF m
  <2>3. /\ Len(file') = Len(file) + 1 /\ file'[Len(file) + 1] = m
        /\ \A n \in 1 .. Len(file) : file'[n] = file[n]
    BY <2>1, <2>2, AppendProperties DEF TypeOK, m
  <2>4. Numeros'
    <3>0. \A h \in Sessions : relais'[h].seq \in Nat /\ relais[h].seq <= relais'[h].seq
      BY SMTT(60), <1>0, <2>1 DEF RelaisType
    <3>1. \A h \in Sessions : vu'[h] <= relais'[h].seq
      <4>1. \A h \in Sessions : vu'[h] = vu[h] /\ vu[h] <= relais[h].seq
        BY DEF Flux, Numeros
      <4>2. QED BY <1>0, <3>0, <4>1
    <3>2. ASSUME NEW n \in 1 .. Len(file')
          PROVE  vu'[file'[n].session] <= file'[n].seq /\ file'[n].seq <= relais'[file'[n].session].seq
      <4>1. CASE n = Len(file) + 1
        <5>1. file'[n] = m
          BY <2>3, <4>1
        <5>2. QED BY SMTT(60), <1>0, <2>1, <2>2, <5>1 DEF Flux, Numeros
      <4>2. CASE n \in 1 .. Len(file)
        <5>1. file'[n] = file[n] /\ file[n].session \in Sessions /\ file[n].seq \in Nat
          BY <1>0, <2>3, <4>2
        <5>2. vu[file[n].session] <= file[n].seq /\ file[n].seq <= relais[file[n].session].seq
          BY <4>2 DEF Flux, Numeros
        <5> DEFINE h == file[n].session
        <5>3. h \in Sessions /\ file'[n].session = h /\ file'[n].seq = file[n].seq /\ vu'[h] = vu[h]
              /\ vu[h] <= file[n].seq /\ file[n].seq <= relais[h].seq /\ file[n].seq \in Nat
          BY <5>1, <5>2
        <5> HIDE DEF h
        <5>4. file[n].seq <= relais'[h].seq
          <6>1. relais[h].seq \in Nat /\ relais'[h].seq \in Nat /\ relais[h].seq <= relais'[h].seq
            BY <1>0, <3>0, <5>3
          <6>2. QED BY <5>3, <6>1
        <5>5. QED BY <5>3, <5>4
      <4>3. QED BY <1>0, <2>3, <4>1, <4>2
    <3>3. ASSUME NEW n \in 1 .. Len(file'), NEW k \in 1 .. Len(file'), n < k,
                 file'[n].session = file'[k].session
          PROVE  file'[n].seq <= file'[k].seq
      <4>1. n \in 1 .. Len(file) /\ file'[n] = file[n]
        BY SMTT(60), <1>0, <2>3, <3>3
      <4>2. CASE k = Len(file) + 1
        <5>1. file'[k] = m
          BY <2>3, <4>2
        <5>2. file[n].session = g /\ file[n].seq <= relais[g].seq /\ file[n].seq \in Nat
          BY <1>0, <2>2, <3>3, <4>1, <5>1 DEF Flux, Numeros
        <5>3. file'[k].seq = relais[g].seq + 1 /\ relais[g].seq \in Nat
          BY <1>0, <2>2, <5>1
        <5>4. QED BY SMTT(60), <4>1, <5>2, <5>3
      <4>3. CASE k \in 1 .. Len(file)
        BY <2>3, <3>3, <4>1, <4>3 DEF Flux, Numeros
      <4>4. QED BY <1>0, <2>3, <4>2, <4>3
    <3>4. \A a \in acks' : a.seq <= vu'[a.session]
      BY DEF Flux, Numeros
    <3>5. QED BY <3>1, <3>2, <3>3, <3>4 DEF Numeros
  <2>5. Credits'
    BY <2>1 DEF Flux, Credits, Place
  <2>6. FenetreTenue'
    <3>1. ASSUME g \notin indu PROVE EnVol(relais'[g].seq, MaxEntre(relais'[g].filet, vu'[g])) <= EN_VOL_MAX
      <4>1. dernier[g] <= vu[g]
        BY <3>1 DEF Flux, Credits
      <4>2. EnVol(relais[g].seq, MaxEntre(dernier[g], relais[g].filet)) < EN_VOL_MAX
        BY <1>1 DEF Place
      <4>3. EnVol(relais[g].seq + 1, MaxEntre(relais[g].filet, vu[g])) <= EN_VOL_MAX
        BY <1>0, <4>1, <4>2, UnDePlus
      <4>4. QED BY <1>1, <2>1, <4>3
    <3>2. QED BY <3>1 DEF Flux, FluxTenu, FenetreTenue
  <2>7. EveilTenu'
    BY <2>1 DEF Flux, FluxTenu, EveilTenu, Place
  <2>8. QED BY <1>3, <1>a, <2>4, <2>5, <2>6, <2>7 DEF Flux, FluxTenu
<1>5. CASE Retient(g)
  <2>1. /\ relais'[g].seq = relais[g].seq /\ file' = file /\ relais'[g].etape \in {"lit", "fini"}
    BY <1>5 DEF Retient
  <2>2. \A h \in Sessions : relais'[h].seq = relais[h].seq /\ relais'[h].filet = relais[h].filet
    BY <1>1, <2>1
  <2>3. \A h \in Sessions : Place(h, relais[h]) <=> Place(h, relais[h])'
    BY <2>2 DEF Place
  <2>4. Numeros'
    BY <1>0, <2>1, <2>2 DEF Flux, Numeros
  <2>5. Credits'
    BY <1>1, <2>3 DEF Flux, Credits
  <2>6. FenetreTenue' /\ EveilTenu'
    BY <2>1, <2>2, <2>3 DEF Flux, FluxTenu, FenetreTenue, EveilTenu
  <2>7. QED BY <1>3, <1>a, <2>4, <2>5, <2>6 DEF Flux, FluxTenu
<1>6. QED BY <1>4, <1>5

\* A relay that waits looks at its window again.
LEMMA FluxAttente ==
  ASSUME TypeOK, Flux, NEW g \in Sessions, Eveil(g) \/ ExpirerFilet(g)
  PROVE  Flux'
<1>0. /\ \A h \in Sessions : relais[h].seq \in Nat /\ relais[h].filet \in Nat /\ dernier[h] \in Nat
                             /\ vu[h] \in Nat /\ relais[h].filet <= relais[h].seq
      /\ EN_VOL_MAX \in Nat /\ EN_VOL_MAX > 0 /\ permis \in [Sessions -> BOOLEAN]
  BY Nombres
<1>1. Attentes(g)
  BY AttenteEffet
<1>2. /\ UNCHANGED <<courante, file, vu, dernier, acks, accuses, reveil, indu>>
      /\ \A h \in Sessions \ {g} : permis'[h] = permis[h]
  BY <1>0 DEF Eveil, ExpirerFilet, sessionVars, pompeVars, ackVars
<1>3. /\ relais[g].etape = "attend" /\ relais'[g].etape \in {"lit", "attend"}
      /\ relais'[g].seq = relais[g].seq /\ relais'[g].filet \in {relais[g].filet, relais[g].seq}
      /\ relais'[g].etape = "lit" <=> Place(g, relais'[g])
      /\ \A h \in Sessions \ {g} : relais'[h] = relais[h]
  BY <1>1 DEF Attentes
<1>4. \A h \in Sessions : relais'[h].seq = relais[h].seq
  BY <1>3
<1>5. Ouverts'
  BY <1>2, <1>3, <1>4 DEF Flux, Ouverts
<1>6. Numeros'
  <2>1. \A n \in 1 .. Len(file) : file[n].session \in Sessions
    BY Nombres
  <2>2. QED BY <1>2, <1>4, <2>1 DEF Flux, Numeros
<1>7. Credits'
  BY <1>2, <1>3 DEF Flux, Credits, Place
<1>8. FenetreTenue'
  <2>1. relais[g].filet <= relais'[g].filet /\ relais'[g].filet \in Nat
    BY <1>0, <1>3
  <2>2. EnVol(relais'[g].seq, MaxEntre(relais'[g].filet, vu'[g]))
          <= EnVol(relais[g].seq, MaxEntre(relais[g].filet, vu[g]))
    BY <1>0, <1>2, <1>3, <2>1 DEF EnVol, MaxEntre
  <2>3. g \notin indu => EnVol(relais[g].seq, MaxEntre(relais[g].filet, vu[g])) <= EN_VOL_MAX
    BY DEF Flux, FluxTenu, FenetreTenue
  <2>4. EnVol(relais[g].seq, MaxEntre(relais[g].filet, vu[g])) \in Nat
        /\ EnVol(relais'[g].seq, MaxEntre(relais'[g].filet, vu'[g])) \in Nat
    BY <1>0, <1>2, <1>3, <2>1 DEF EnVol, MaxEntre
  <2>5. g \notin indu => EnVol(relais'[g].seq, MaxEntre(relais'[g].filet, vu'[g])) <= EN_VOL_MAX
    BY <1>0, <2>2, <2>3, <2>4
  <2>6. QED BY <1>2, <1>3, <2>5 DEF Flux, FluxTenu, FenetreTenue
<1>9. EveilTenu'
  BY <1>2, <1>3 DEF Flux, FluxTenu, EveilTenu, Place
<1>10. AccuseAtteint'
  <2>1. courante > 0 => courante \in Sessions
    BY Nombres, Constantes DEF Sessions
  <2>2. \A h \in Sessions : relais'[h].etape \in {"lit", "attend"} => relais[h].etape \in {"lit", "attend"}
    BY <1>3
  <2>3. QED BY <1>2, <2>1, <2>2 DEF Flux, FluxTenu, AccuseAtteint
<1>11. QED BY <1>5, <1>6, <1>7, <1>8, <1>9, <1>10 DEF Flux, FluxTenu

\* The next session opens.
LEMMA FluxOuvrir ==
  ASSUME TypeOK, Flux, Ouvrir
  PROVE  Flux'
<1>0. /\ \A h \in Sessions : relais[h].seq \in Nat /\ relais[h].filet \in Nat /\ dernier[h] \in Nat
                             /\ vu[h] \in Nat /\ relais[h].filet <= relais[h].seq
      /\ EN_VOL_MAX \in Nat /\ EN_VOL_MAX > 0 /\ relais \in [Sessions -> RelaisType]
      /\ courante \in Nat /\ Sessions \subseteq Nat \ {0}
  BY Nombres
<1>g. PICK g \in Sessions : g = courante + 1
  BY <1>0, Constantes DEF Ouvrir, Sessions
<1>1. g \in Sessions /\ courante < g
  BY <1>0, <1>g
<1>2. /\ courante' = g /\ accuses' = g /\ relais' = [relais EXCEPT ![g].etape = "lit"]
      /\ UNCHANGED <<dernier, reveil, permis, file, acks, vu, indu>>
  BY <1>g DEF Ouvrir
<1>4. \A h \in Sessions : g < h => courante < h
  BY <1>0, <1>g
<1>5. \A h \in Sessions : courante < h => h = g \/ g < h
  BY <1>0, <1>g
<1>6. /\ relais'[g].etape = "lit" /\ \A h \in Sessions \ {g} : relais'[h] = relais[h]
      /\ relais'[g].seq = relais[g].seq /\ relais'[g].filet = relais[g].filet
  BY <1>0, <1>1, <1>2 DEF RelaisType
<1>7. \A h \in Sessions : relais'[h].seq = relais[h].seq /\ relais'[h].filet = relais[h].filet
  BY <1>6
<1>8. relais[g].seq = 0 /\ relais[g].filet = 0
  <2>1. relais[g].seq = 0
    BY <1>1 DEF Flux, Ouverts
  <2>2. QED BY <1>0, <1>1, <2>1
<1>9. Ouverts'
  <2>1. ASSUME NEW h \in Sessions PROVE (relais'[h].etape = "absent" <=> g < h) /\ (g < h => relais'[h].seq = 0)
    <3>1. CASE h = g
      BY <1>0, <1>1, <1>6, <3>1
    <3>2. CASE h # g
      <4>1. (relais[h].etape = "absent" <=> courante < h) /\ (courante < h => relais[h].seq = 0)
        BY DEF Flux, Ouverts
      <4>2. courante < h <=> g < h
        BY <1>4, <1>5, <3>2
      <4>3. QED BY <1>6, <3>2, <4>1, <4>2
    <3>3. QED BY <3>1, <3>2
  <2>2. QED BY <1>2, <2>1 DEF Ouverts
<1>10. Numeros'
  <2>1. \A n \in 1 .. Len(file) : file[n].session \in Sessions
    BY Nombres
  <2>2. QED BY <1>2, <1>7, <2>1 DEF Flux, Numeros
<1>11. Credits'
  <2>1. Place(g, relais[g])'
    <3>1. EnVol(0, MaxEntre(dernier[g], 0)) = 0
      BY <1>0, <1>1 DEF EnVol, MaxEntre
    <3>2. relais'[g].seq = 0 /\ relais'[g].filet = 0 /\ dernier'[g] = dernier[g]
      BY <1>1, <1>2, <1>7, <1>8
    <3>3. EnVol(relais'[g].seq, MaxEntre(dernier'[g], relais'[g].filet)) < EN_VOL_MAX
      BY <1>0, <3>1, <3>2
    <3>4. QED BY <3>3 DEF Place
  <2>2. \A h \in Sessions \ {g} : Place(h, relais[h])' <=> Place(h, relais[h])
    BY <1>2, <1>6 DEF Place
  <2>3. \A h \in Sessions : (h \notin indu' => dernier'[h] <= vu'[h])
    BY <1>2 DEF Flux, Credits
  <2>4. QED BY <1>6, <2>1, <2>2, <2>3 DEF Flux, Credits
<1>12. FenetreTenue'
  BY <1>2, <1>7 DEF Flux, FluxTenu, FenetreTenue
<1>13. EveilTenu'
  BY <1>2, <1>6 DEF Flux, FluxTenu, EveilTenu, Place
<1>14. AccuseAtteint'
  BY <1>2 DEF AccuseAtteint
<1>15. QED BY <1>9, <1>10, <1>11, <1>12, <1>13, <1>14 DEF Flux, FluxTenu

\* The page takes a message out of what waits for it, and writes it or not.
LEMMA FluxPage ==
  ASSUME TypeOK, Flux, Ecrire \/ Ignorer
  PROVE  Flux'
<1>0. /\ \A h \in Sessions : relais[h].seq \in Nat /\ relais[h].filet \in Nat /\ dernier[h] \in Nat
                             /\ vu[h] \in Nat /\ relais[h].filet <= relais[h].seq
      /\ \A n \in 1 .. Len(file) : file[n].session \in Sessions /\ file[n].seq \in Nat
      /\ \A a \in acks : a.session \in Sessions /\ a.seq \in Nat
      /\ Len(file) \in Nat /\ EN_VOL_MAX \in Nat
  BY Nombres
<1>1. /\ file # <<>> /\ file' = Tail(file)
      /\ UNCHANGED <<relais, courante, dernier, accuses, reveil, permis, indu>>
  BY DEF Ecrire, Ignorer, sessionVars, pompeVars, sortieVars, ackVars
<1> DEFINE m == file[1]
<1>2. /\ Len(file) > 0 /\ Len(file') = Len(file) - 1
      /\ \A n \in 1 .. Len(file) - 1 : file'[n] = file[n + 1]
      /\ Head(file) = m
  BY <1>1, HeadTailProperties, EmptySeq DEF TypeOK
<1>3. m.session \in Sessions /\ m.seq \in Nat
  BY <1>0, <1>2
<1>4. m.seq <= relais[m.session].seq /\ vu[m.session] <= m.seq
  BY <1>0, <1>2 DEF Flux, Numeros
<1>5. \A n \in 2 .. Len(file) : file[n].session = m.session => m.seq <= file[n].seq
  BY <1>0, <1>2 DEF Flux, Numeros
<1> HIDE DEF m
<1>6. \/ vu' = [vu EXCEPT ![m.session] = m.seq] /\ acks' = acks \cup {m}
      \/ vu' = vu /\ acks' = acks
  BY <1>2 DEF Ecrire, Ignorer, ackVars
<1>7. /\ \A h \in Sessions : vu'[h] \in Nat /\ vu[h] <= vu'[h] /\ vu'[h] <= relais[h].seq
      /\ \A h \in Sessions : vu'[h] = vu[h] \/ (h = m.session /\ vu'[h] = m.seq)
  <2>1. \A h \in Sessions : vu[h] <= relais[h].seq
    BY DEF Flux, Numeros
  <2>2. \A h \in Sessions : vu'[h] = vu[h] \/ (h = m.session /\ vu'[h] = m.seq)
    BY <1>3, <1>6 DEF TypeOK
  <2>3. QED BY <1>0, <1>3, <1>4, <2>1, <2>2
<1>8. Numeros'
  <2>1. \A h \in Sessions : vu'[h] <= relais'[h].seq
    BY <1>1, <1>7
  <2>2. ASSUME NEW n \in 1 .. Len(file')
        PROVE  vu'[file'[n].session] <= file'[n].seq /\ file'[n].seq <= relais'[file'[n].session].seq
    <3> DEFINE k == n + 1
               x == file[k]
    <3>1. k \in 2 .. Len(file) /\ k \in 1 .. Len(file) /\ file'[n] = x
      BY <1>0, <1>2
    <3>2. x.session \in Sessions /\ x.seq \in Nat /\ x.seq <= relais[x.session].seq /\ vu[x.session] <= x.seq
      BY <1>0, <3>1 DEF Flux, Numeros
    <3>3. x.session = m.session => m.seq <= x.seq
      BY <1>5, <3>1
    <3> HIDE DEF x
    <3>4. vu'[x.session] <= x.seq
      BY <1>7, <3>2, <3>3
    <3>5. QED BY <1>1, <3>1, <3>2, <3>4
  <2>3. ASSUME NEW n \in 1 .. Len(file'), NEW k \in 1 .. Len(file'), n < k,
               file'[n].session = file'[k].session
        PROVE  file'[n].seq <= file'[k].seq
    <3>1. n + 1 \in 1 .. Len(file) /\ k + 1 \in 1 .. Len(file) /\ n + 1 < k + 1
          /\ file'[n] = file[n + 1] /\ file'[k] = file[k + 1]
      BY <1>0, <1>2, <2>3
    <3>2. QED BY <2>3, <3>1 DEF Flux, Numeros
  <2>4. \A a \in acks' : a.seq <= vu'[a.session]
    <3>1. ASSUME NEW a \in acks PROVE a.seq <= vu'[a.session]
      <4>1. a.seq \in Nat /\ a.session \in Sessions /\ a.seq <= vu[a.session]
        BY <1>0 DEF Flux, Numeros
      <4>2. vu[a.session] \in Nat /\ vu'[a.session] \in Nat /\ vu[a.session] <= vu'[a.session]
        BY <1>0, <1>7, <4>1
      <4>3. QED BY <4>1, <4>2
    <3>2. CASE vu' = [vu EXCEPT ![m.session] = m.seq] /\ acks' = acks \cup {m}
      <4>1. vu'[m.session] = m.seq
        BY <1>3, <3>2 DEF TypeOK
      <4>2. QED BY <1>3, <3>1, <3>2, <4>1
    <3>3. QED BY <1>6, <3>1, <3>2
  <2>5. QED BY <2>1, <2>2, <2>3, <2>4 DEF Numeros
<1>9. Ouverts' /\ EveilTenu' /\ AccuseAtteint'
  BY <1>1 DEF Flux, FluxTenu, Ouverts, EveilTenu, AccuseAtteint, Place
<1>10. Credits'
  <2>1. \A h \in Sessions : h \notin indu' => dernier'[h] <= vu'[h]
    <3> SUFFICES ASSUME NEW h \in Sessions, h \notin indu PROVE dernier[h] <= vu'[h]
      BY <1>1
    <3>1. dernier[h] <= vu[h]
      BY DEF Flux, Credits
    <3>2. QED BY <1>0, <1>7, <3>1
  <2>2. QED BY <1>1, <2>1 DEF Flux, Credits, Place
<1>11. FenetreTenue'
  <2> SUFFICES ASSUME NEW h \in Sessions, h \notin indu
               PROVE  EnVol(relais[h].seq, MaxEntre(relais[h].filet, vu'[h])) <= EN_VOL_MAX
    BY <1>1 DEF FenetreTenue
  <2>1. EnVol(relais[h].seq, MaxEntre(relais[h].filet, vu[h])) <= EN_VOL_MAX
    BY DEF Flux, FluxTenu, FenetreTenue
  <2>2. QED BY <1>0, <1>7, <2>1 DEF EnVol, MaxEntre
<1>12. QED BY <1>8, <1>9, <1>10, <1>11 DEF Flux, FluxTenu

\* An acknowledgement reaches the core, whoever it is about.
LEMMA FluxAck ==
  ASSUME TypeOK, Flux, NEW a \in acks, PtyAck(a)
  PROVE  Flux'
<1>0. /\ \A h \in Sessions : relais[h].seq \in Nat /\ relais[h].filet \in Nat /\ dernier[h] \in Nat
                             /\ vu[h] \in Nat
      /\ a.session \in Sessions /\ a.seq \in Nat /\ accuses \in 0 .. MaxSessions /\ EN_VOL_MAX \in Nat
      /\ a.seq <= vu[a.session]
  BY Nombres DEF Flux, Numeros
<1>1. /\ reveil = 0 /\ acks' = acks \ {a}
      /\ UNCHANGED <<relais, courante, file, vu, accuses, permis>>
  BY DEF PtyAck, sessionVars, pompeVars, sortieVars
<1>2. Ouverts' /\ Numeros' /\ AccuseAtteint'
  BY <1>1 DEF Flux, FluxTenu, Ouverts, Numeros, AccuseAtteint
<1>3. CASE accuses = 0
  <2>1. UNCHANGED <<dernier, reveil, indu>>
    BY <1>3 DEF PtyAck
  <2>2. QED BY <1>1, <1>2, <2>1 DEF Flux, FluxTenu, Credits, FenetreTenue, EveilTenu, Place
<1>4. CASE accuses # 0
  <2> DEFINE d == MaxEntre(dernier[accuses], a.seq)
  <2>1. /\ dernier' = [dernier EXCEPT ![accuses] = d] /\ reveil' = accuses
        /\ indu' = IF a.session = accuses THEN indu ELSE indu \cup {accuses}
    BY <1>4 DEF PtyAck
  <2>2. accuses \in Sessions /\ d \in Nat /\ dernier[accuses] <= d /\ (d = dernier[accuses] \/ d = a.seq)
    <3>1. accuses \in Sessions
      BY <1>0, <1>4, Constantes DEF Sessions
    <3>2. QED BY <1>0, <3>1 DEF MaxEntre
  <2> HIDE DEF d
  <2>3. dernier'[accuses] = d /\ \A h \in Sessions \ {accuses} : dernier'[h] = dernier[h]
    BY <2>1, <2>2 DEF TypeOK
  <2>4. \A h \in Sessions : Place(h, relais[h]) => Place(h, relais[h])'
    <3> SUFFICES ASSUME NEW h \in Sessions, Place(h, relais[h])
                 PROVE  EnVol(relais[h].seq, MaxEntre(dernier'[h], relais[h].filet)) < EN_VOL_MAX
      BY <1>1 DEF Place
    <3>1. dernier'[h] \in Nat /\ dernier[h] <= dernier'[h]
      BY <1>0, <2>2, <2>3
    <3>2. EnVol(relais[h].seq, MaxEntre(dernier[h], relais[h].filet)) < EN_VOL_MAX
      BY DEF Place
    <3>3. QED BY <1>0, <3>1, <3>2 DEF EnVol, MaxEntre
  <2>5. Credits'
    <3>1. \A h \in Sessions : h \notin indu' => dernier'[h] <= vu[h]
      <4> SUFFICES ASSUME NEW h \in Sessions, h \notin indu' PROVE dernier'[h] <= vu[h]
        OBVIOUS
      <4>1. h \notin indu /\ dernier[h] <= vu[h] /\ (h = accuses => a.session = accuses)
        BY <2>1 DEF Flux, Credits
      <4>2. CASE h = accuses
        BY <1>0, <2>2, <2>3, <4>1, <4>2
      <4>3. QED BY <2>3, <4>1, <4>2
    <3>2. QED BY <1>1, <2>4, <3>1 DEF Flux, Credits
  <2>6. FenetreTenue'
    <3>1. indu \subseteq indu'
      BY <2>1
    <3>2. QED BY <1>1, <3>1 DEF Flux, FluxTenu, FenetreTenue
  <2>7. EveilTenu'
    <3> SUFFICES ASSUME NEW h \in Sessions, relais[h].etape = "attend", Place(h, relais[h])'
                 PROVE  permis[h] \/ accuses = h
      BY <1>1, <2>1 DEF EveilTenu
    <3>1. CASE h # accuses
      <4>1. Place(h, relais[h])
        BY <1>1, <2>3, <3>1 DEF Place
      <4>2. 0 \notin Sessions
        BY DEF Sessions
      <4>3. QED BY <1>1, <4>1, <4>2 DEF Flux, FluxTenu, EveilTenu
    <3>2. QED BY <3>1
  <2>8. QED BY <1>2, <2>5, <2>6, <2>7 DEF Flux, FluxTenu
<1>5. QED BY <1>3, <1>4

LEMMA FluxPas ==
  TypeOK /\ Reliquats /\ Flux /\ [Next]_vars => Flux'
<1> SUFFICES ASSUME TypeOK, Reliquats, Flux, [Next]_vars PROVE Flux'
  OBVIOUS
<1> USE DEF sessionVars, pompeVars, sortieVars, ackVars
<1>1. ASSUME UNCHANGED <<courante, relais, file, vu, dernier, acks, permis, accuses, reveil, indu>>
      PROVE  Flux'
  BY <1>1 DEF Flux, FluxTenu, Ouverts, Numeros, Credits, FenetreTenue, EveilTenu, AccuseAtteint, Place
<1>2. CASE UNCHANGED vars
  BY <1>1, <1>2 DEF vars
<1>3. ASSUME NEW g \in Sessions, Pompe(g) PROVE Flux'
  BY <1>1, <1>3 DEF Pompe, LireServeur, PousserAttente, FinServeur, Couper
<1>4. ASSUME NEW g \in Sessions, Retirer(g) \/ Demarrer(g) \/ Arreter(g) \/ Redimensionner(g) PROVE Flux'
  BY <1>1, <1>4 DEF Retirer, Demarrer, Arreter, Redimensionner
<1>5. CASE Notifier
  <2>1. /\ permis' = [permis EXCEPT ![reveil] = TRUE] /\ reveil # 0 /\ permis \in [Sessions -> BOOLEAN]
        /\ UNCHANGED <<courante, relais, file, vu, dernier, acks, accuses, indu>>
    BY <1>5 DEF Notifier, TypeOK
  <2>2. EveilTenu'
    BY <2>1 DEF Flux, FluxTenu, EveilTenu, Place
  <2>3. QED BY <2>1, <2>2 DEF Flux, FluxTenu, Ouverts, Numeros, Credits, FenetreTenue, AccuseAtteint, Place
<1>6. ASSUME NEW g \in Sessions, Lire(g) PROVE Flux'
  <2>1. UNCHANGED <<courante, vu, dernier, acks, accuses, permis, reveil, indu>>
    BY <1>6 DEF Lire
  <2>2. QED BY ZenonT(60), <1>6, <2>1, LireEffet, FluxRelais DEF Gardes
<1>7. ASSUME NEW g \in Sessions, Echeance(g) PROVE Flux'
  <2>1. UNCHANGED <<courante, vu, dernier, acks, accuses, permis, reveil, indu>>
    BY <1>7 DEF Echeance
  <2>2. QED BY <1>7, <2>1, EcheanceEffet, FluxRelais DEF Gardes
<1>8. ASSUME NEW g \in Sessions, FinRelais(g) PROVE Flux'
  <2>1. UNCHANGED <<courante, vu, dernier, acks, permis, reveil, indu>> /\ accuses' = SansAccuse(g)
    BY <1>8 DEF FinRelais
  <2>2. QED BY <1>8, <2>1, FinRelaisEffet, FluxRelais DEF Gardes
<1>9. QED
  BY <1>2, <1>3, <1>4, <1>5, <1>6, <1>7, <1>8, FluxAttente, FluxOuvrir, FluxPage, FluxAck
     DEF Next, Relais, CloreSession, PtyClose

\* The flow between a relay and the page neither overflows nor stops: the page is never more than
\* EN_VOL_MAX messages behind a relay, no wake-up is lost, and the latest relay keeps its
\* acknowledgements.
THEOREM FluxToujoursTenu ==
  Spec => []FluxTenu
<1> DEFINE I == Types /\ Flux
<1>1. Init => I
  <2>1. Init => Flux
    <3> SUFFICES ASSUME Init PROVE Flux
      OBVIOUS
    <3>1. \A g \in Sessions : relais[g] = RelaisNeuf /\ dernier[g] = 0 /\ vu[g] = 0 /\ 0 < g
      BY Constantes DEF Init, Sessions
    <3>2. Len(file) = 0 /\ acks = {} /\ courante = 0
      BY DEF Init
    <3>3. EN_VOL_MAX \in Nat /\ EN_VOL_MAX > 0 /\ EnVol(0, MaxEntre(0, 0)) = 0
      BY Constantes DEF EnVol, MaxEntre
    <3>4. \A g \in Sessions : relais[g].etape = "absent" /\ relais[g].seq = 0 /\ relais[g].filet = 0
      BY <3>1 DEF RelaisNeuf
    <3>5. Ouverts /\ Numeros /\ Credits
      BY <3>1, <3>2, <3>4 DEF Ouverts, Numeros, Credits
    <3>6. FenetreTenue /\ EveilTenu /\ AccuseAtteint
      BY <3>1, <3>2, <3>3, <3>4 DEF FenetreTenue, EveilTenu, AccuseAtteint
    <3>7. QED BY <3>5, <3>6 DEF Flux, FluxTenu
  <2>2. QED BY <2>1, TypesDebut
<1>2. I /\ [Next]_vars => I'
  BY TypesPas, FluxPas DEF Types
<1>3. I => FluxTenu
  BY DEF Flux
<1>4. QED BY <1>1, <1>2, <1>3, PTL DEF Spec

-----------------------------------------------------------------------------
\* A recorder e of a session that has decoded d and emitted m: what EnregistrementContinu says,
\* and that nothing was recorded, or flushed, that is not there.
Suivi(e, d, m) ==
  /\ e.depuis + Len(e.texte) <= Len(d) /\ e.disque <= Len(e.texte)
  /\ e.etat # "aucun" =>
       /\ e.texte = SubSeq(d, e.depuis + 1, e.depuis + Len(e.texte))
       /\ e.etat = "actif" => e.depuis + Len(e.texte) = Len(d) /\ e.depuis + e.disque >= Len(m)
       /\ e.etat = "clos" => e.disque = Len(e.texte)
Enregistre == \A g \in Sessions : Suivi(enr[g], Decode(g), emis[g])

\* A text that goes on keeps what it began with.
LEMMA SousSuite ==
  ASSUME NEW d \in Textes, NEW t \in Textes, NEW a \in Nat, NEW b \in Nat, a + b <= Len(d)
  PROVE  /\ SubSeq(d \o t, a + 1, a + b) = SubSeq(d, a + 1, a + b)
         /\ a + b = Len(d) => SubSeq(d \o t, a + 1, a + b + Len(t)) = SubSeq(d, a + 1, a + b) \o t
<1>0. /\ d \in Seq(Caracteres) /\ t \in Seq(Caracteres) /\ d \o t \in Seq(Caracteres)
      /\ Len(d) \in Nat /\ Len(t) \in Nat /\ Len(d \o t) = Len(d) + Len(t)
      /\ \A i \in 1 .. Len(d) + Len(t) : (d \o t)[i] = IF i <= Len(d) THEN d[i] ELSE t[i - Len(d)]
  BY ConcatProperties DEF Textes
<1> DEFINE dt == d \o t
<1> HIDE DEF dt
<1>d. dt \in Seq(Caracteres) /\ Len(dt) = Len(d) + Len(t)
      /\ \A i \in 1 .. Len(d) + Len(t) : dt[i] = IF i <= Len(d) THEN d[i] ELSE t[i - Len(d)]
  BY <1>0 DEF dt
<1>1. /\ SubSeq(d, a + 1, a + b) \in Seq(Caracteres) /\ Len(SubSeq(d, a + 1, a + b)) = b
      /\ \A i \in 1 .. b : SubSeq(d, a + 1, a + b)[i] = d[a + i]
  BY <1>0
<1>2. /\ SubSeq(dt, a + 1, a + b) \in Seq(Caracteres) /\ Len(SubSeq(dt, a + 1, a + b)) = b
      /\ \A i \in 1 .. b : SubSeq(dt, a + 1, a + b)[i] = dt[a + i]
  BY <1>0, <1>d
<1>3. SubSeq(dt, a + 1, a + b) = SubSeq(d, a + 1, a + b)
  <2> DEFINE x == SubSeq(dt, a + 1, a + b)
             y == SubSeq(d, a + 1, a + b)
  <2>1. \A i \in 1 .. b : dt[a + i] = d[a + i]
    BY <1>0, <1>d
  <2>2. x \in Seq(Caracteres) /\ y \in Seq(Caracteres) /\ Len(x) = Len(y) /\ \A i \in 1 .. Len(x) : x[i] = y[i]
    BY <1>1, <1>2, <2>1
  <2> HIDE DEF x, y
  <2>3. x = y
    BY <2>2, SeqEqual
  <2>4. QED BY <2>3 DEF x, y
<1>4. ASSUME a + b = Len(d) PROVE SubSeq(dt, a + 1, a + b + Len(t)) = SubSeq(d, a + 1, a + b) \o t
  <2> DEFINE x == SubSeq(dt, a + 1, a + b + Len(t))
             y == SubSeq(d, a + 1, a + b)
             z == y \o t
  <2>1. x \in Seq(Caracteres) /\ Len(x) = b + Len(t) /\ \A i \in 1 .. b + Len(t) : x[i] = dt[a + i]
    BY <1>0, <1>d, <1>4
  <2>2. y \in Seq(Caracteres) /\ Len(y) = b /\ \A i \in 1 .. b : y[i] = d[a + i]
    BY <1>1
  <2> HIDE DEF x, y
  <2>3. z \in Seq(Caracteres) /\ Len(z) = b + Len(t)
        /\ \A i \in 1 .. b + Len(t) : z[i] = IF i <= b THEN y[i] ELSE t[i - b]
    <3>1. z \in Seq(Caracteres) /\ Len(z) = Len(y) + Len(t)
          /\ \A i \in 1 .. Len(y) + Len(t) : z[i] = IF i <= Len(y) THEN y[i] ELSE t[i - Len(y)]
      <4>1. y \in Seq(Caracteres) /\ t \in Seq(Caracteres)
        BY <1>0, <2>2
      <4>2. QED BY <4>1, ConcatProperties
    <3>2. QED BY <2>2, <3>1
  <2> HIDE DEF z
  <2>4. \A i \in 1 .. b + Len(t) : x[i] = z[i]
    <3> SUFFICES ASSUME NEW i \in 1 .. b + Len(t) PROVE dt[a + i] = IF i <= b THEN y[i] ELSE t[i - b]
      BY <2>1, <2>3
    <3>1. a + i \in 1 .. Len(d) + Len(t) /\ (a + i <= Len(d) <=> i <= b) /\ a + i - Len(d) = i - b
      <4>1. Len(d) \in Nat /\ Len(t) \in Nat /\ a + b = Len(d)
        BY <1>0, <1>4
      <4>2. QED BY <4>1
    <3>2. dt[a + i] = IF a + i <= Len(d) THEN d[a + i] ELSE t[a + i - Len(d)]
      BY SMTT(60), <1>d, <3>1
    <3>3. i <= b => y[i] = d[a + i]
      BY <2>2
    <3>4. QED BY <3>1, <3>2, <3>3
  <2>5. x = z
    BY <2>1, <2>3, <2>4, SeqEqual
  <2>6. QED BY <2>5 DEF x, y, z
<1>5. QED BY <1>3, <1>4 DEF dt

\* The recorder is given what was decoded.
LEMMA SuiviNoter ==
  ASSUME NEW e \in EnrType, NEW d \in Textes, NEW m \in Textes, NEW t \in Textes, Suivi(e, d, m),
         Len(m) <= Len(d), NEW n \in Noter(e, t)
  PROVE  Suivi(n, d \o t, m)
<1>0. /\ Len(d) \in Nat /\ Len(t) \in Nat /\ Len(d \o t) = Len(d) + Len(t) /\ Len(m) \in Nat
      /\ e.texte \in Textes /\ Len(e.texte) \in Nat /\ e.depuis \in Nat /\ e.disque \in Nat
      /\ e.texte \o t \in Textes /\ Len(e.texte \o t) = Len(e.texte) + Len(t)
  <2>1. e.texte \in Textes /\ e.depuis \in Nat /\ e.disque \in Nat
    BY DEF EnrType
  <2>2. QED BY <2>1, ConcatProperties DEF Textes
<1>1. CASE n = e /\ e.etat # "actif"
  <2>1. SubSeq(d \o t, e.depuis + 1, e.depuis + Len(e.texte)) = SubSeq(d, e.depuis + 1, e.depuis + Len(e.texte))
    <3> DEFINE a == e.depuis
               b == Len(e.texte)
    <3>1. a \in Nat /\ b \in Nat /\ a + b <= Len(d)
      BY <1>0 DEF Suivi
    <3> HIDE DEF a, b
    <3>2. SubSeq(d \o t, a + 1, a + b) = SubSeq(d, a + 1, a + b)
      BY <3>1, SousSuite
    <3>3. QED BY <3>2 DEF a, b
  <2>2. e.depuis + Len(e.texte) <= Len(d \o t)
    BY <1>0 DEF Suivi
  <2>3. QED BY <1>1, <2>1, <2>2 DEF Suivi
<1>2. CASE n = Condamne
  <2>1. n.etat = "condamne" /\ n.depuis = 0 /\ n.texte = <<>> /\ n.disque = 0 /\ Len(<<>>) = 0
    BY <1>2 DEF Condamne, EnrVide
  <2>2. SubSeq(d \o t, 1, 0) = <<>>
    BY SubSeqEmpty
  <2>3. QED BY <1>0, <2>1, <2>2 DEF Suivi
<1>3. CASE e.etat = "actif" /\ n = [e EXCEPT !.texte = @ \o t]
  <2>1. n.etat = "actif" /\ n.depuis = e.depuis /\ n.texte = e.texte \o t /\ n.disque = e.disque
    BY <1>3 DEF EnrType
  <2>2. e.depuis + Len(e.texte) = Len(d) /\ e.depuis + e.disque >= Len(m) /\ e.disque <= Len(e.texte)
        /\ e.texte = SubSeq(d, e.depuis + 1, e.depuis + Len(e.texte))
    BY <1>3 DEF Suivi
  <2>3. SubSeq(d \o t, e.depuis + 1, e.depuis + Len(e.texte) + Len(t)) = e.texte \o t
    <3> DEFINE a == e.depuis
               b == Len(e.texte)
    <3>1. a \in Nat /\ b \in Nat /\ a + b <= Len(d) /\ a + b = Len(d) /\ e.texte = SubSeq(d, a + 1, a + b)
      BY <1>0, <2>2
    <3> HIDE DEF a, b
    <3>2. SubSeq(d \o t, a + 1, a + b + Len(t)) = SubSeq(d, a + 1, a + b) \o t
      BY SMTT(60), <3>1, SousSuite
    <3>3. SubSeq(d \o t, a + 1, a + b + Len(t)) = e.texte \o t
      BY <3>1, <3>2
    <3>4. QED BY <3>3 DEF a, b
  <2>4. e.depuis + Len(e.texte) + Len(t) = e.depuis + Len(n.texte)
    BY <1>0, <2>1
  <2>5. n.texte = SubSeq(d \o t, n.depuis + 1, n.depuis + Len(n.texte))
    BY <2>1, <2>3, <2>4
  <2>6. n.depuis + Len(n.texte) = Len(d \o t) /\ n.disque <= Len(n.texte) /\ Len(n.texte) \in Nat
        /\ n.depuis \in Nat /\ Len(d \o t) \in Nat
    <3> DEFINE k == Len(e.texte)
    <3>1. Len(n.texte) = k + Len(t) /\ k \in Nat /\ Len(t) \in Nat /\ n.disque <= k /\ n.disque \in Nat
          /\ n.depuis \in Nat /\ n.depuis + k = Len(d) /\ Len(d \o t) = Len(d) + Len(t) /\ Len(d) \in Nat
      BY <1>0, <2>1, <2>2
    <3> HIDE DEF k
    <3>2. QED BY SMTT(60), <3>1
  <2>7. n.depuis + n.disque >= Len(m)
    BY <2>1, <2>2
  <2>8. n.depuis + Len(n.texte) <= Len(d \o t)
    BY <2>6
  <2>9. QED BY <2>1, <2>5, <2>6, <2>7, <2>8 DEF Suivi
<1>4. QED BY <1>1, <1>2, <1>3 DEF Noter

\* The recorder is flushed, or closed, and what was decoded may leave.
LEMMA SuiviVider ==
  ASSUME NEW e \in EnrType, NEW d \in Textes, NEW m \in Textes, NEW apres \in Textes, Suivi(e, d, m),
         Len(apres) <= Len(d), NEW n \in Vider(e) \cup Cloturer(e)
  PROVE  Suivi(n, d, apres) \/ (apres = m /\ Suivi(n, d, m))
<1>0. /\ Len(d) \in Nat /\ Len(apres) \in Nat
      /\ Len(e.texte) \in Nat /\ e.depuis \in Nat /\ e.disque \in Nat
  BY DEF Textes, EnrType
<1>1. CASE n = e /\ e.etat # "actif"
  BY <1>0, <1>1 DEF Suivi
<1>2. CASE n = Condamne
  <2>1. n.etat = "condamne" /\ n.depuis = 0 /\ n.texte = <<>> /\ n.disque = 0 /\ Len(<<>>) = 0
    BY <1>2 DEF Condamne, EnrVide
  <2>2. SubSeq(d, 1, 0) = <<>>
    BY SubSeqEmpty
  <2>3. QED BY <1>0, <2>1, <2>2 DEF Suivi
<1>3. CASE e.etat = "actif" /\ n \in {[e EXCEPT !.disque = Len(e.texte)],
                                      [e EXCEPT !.etat = "clos", !.disque = Len(e.texte)]}
  <2>1. n.etat \in {"actif", "clos"} /\ n.depuis = e.depuis /\ n.texte = e.texte /\ n.disque = Len(e.texte)
    BY <1>3 DEF EnrType
  <2>2. e.depuis + Len(e.texte) = Len(d) /\ e.texte = SubSeq(d, e.depuis + 1, e.depuis + Len(e.texte))
    BY <1>3 DEF Suivi
  <2>3. QED BY <1>0, <2>1, <2>2 DEF Suivi
<1>4. QED BY <1>1, <1>2, <1>3 DEF Vider, Cloturer

\* A recorder put in its slot while d has been decoded.
LEMMA SuiviNeuf ==
  ASSUME NEW d \in Textes, NEW m \in Textes, Len(m) <= Len(d)
  PROVE  Suivi([EnrVide EXCEPT !.etat = "actif", !.depuis = Len(d)], d, m)
<1> DEFINE n == [EnrVide EXCEPT !.etat = "actif", !.depuis = Len(d)]
<1>1. n.etat = "actif" /\ n.depuis = Len(d) /\ n.texte = <<>> /\ n.disque = 0 /\ Len(<<>>) = 0
  BY DEF EnrVide
<1>2. Len(d) \in Nat /\ Len(m) \in Nat /\ SubSeq(d, Len(d) + 1, Len(d)) = <<>>
  BY SubSeqEmpty DEF Textes
<1> HIDE DEF n
<1>3. Suivi(n, d, m)
  BY <1>1, <1>2 DEF Suivi
<1>4. QED BY <1>3 DEF n

LEMMA EnregistrePas ==
  TypeOK /\ Reliquats /\ Enregistre /\ [Next]_vars => Enregistre'
<1> SUFFICES ASSUME TypeOK, Reliquats, Enregistre, [Next]_vars, NEW g \in Sessions
             PROVE  Suivi(enr'[g], Decode(g)', emis'[g])
  BY DEF Enregistre
<1> USE DEF sessionVars, pompeVars, sortieVars, ackVars
<1>0. /\ enr[g] \in EnrType /\ Decode(g) \in Textes /\ emis[g] \in Textes /\ Len(emis[g]) <= Len(Decode(g))
      /\ Suivi(enr[g], Decode(g), emis[g])
  <2>1. enr[g] \in EnrType /\ emis[g] \in Textes /\ relais[g].tampon \in Textes
    BY DEF TypeOK, EnrType
  <2>2. Decode(g) \in Textes /\ Len(Decode(g)) = Len(emis[g]) + Len(relais[g].tampon)
        /\ Len(emis[g]) \in Nat /\ Len(relais[g].tampon) \in Nat
    BY <2>1, ConcatProperties DEF Decode, Textes
  <2>3. Suivi(enr[g], Decode(g), emis[g])
    BY DEF Enregistre
  <2>4. Len(emis[g]) <= Len(Decode(g))
    <3> DEFINE a == Len(emis[g])
               b == Len(relais[g].tampon)
               c == Len(Decode(g))
    <3>1. a \in Nat /\ b \in Nat /\ c = a + b
      BY <2>2
    <3> HIDE DEF a, b, c
    <3>2. a <= c
      BY <3>1
    <3>3. QED BY <3>2 DEF a, c
  <2>5. QED BY <2>1, <2>2, <2>3, <2>4
<1>1. ASSUME enr'[g] = enr[g], emis'[g] = emis[g], relais'[g].tampon = relais[g].tampon
      PROVE  Suivi(enr'[g], Decode(g)', emis'[g])
  BY <1>0, <1>1 DEF Decode
<1>2. CASE UNCHANGED <<relais, emis, enr>>
  BY <1>1, <1>2
<1>3. CASE Ouvrir
  <2>1. relais \in [Sessions -> RelaisType] /\ relais' = [relais EXCEPT ![courante + 1].etape = "lit"]
        /\ emis' = emis /\ enr' = enr
    BY <1>3 DEF Ouvrir, TypeOK, RelaisType
  <2>2. relais'[g].tampon = relais[g].tampon
    BY <2>1 DEF RelaisType
  <2>3. QED BY <1>1, <2>1, <2>2
<1>4. ASSUME NEW h \in Sessions, h # g, Gardes(h) PROVE Suivi(enr'[g], Decode(g)', emis'[g])
  BY <1>1, <1>4 DEF Gardes
<1>5. CASE Lire(g)
  <2> DEFINE t == Push(relais[g].carry, Head(canal[g])).texte
  <2>1. /\ t \in Textes /\ Decode(g)' = Decode(g) \o t
        /\ \/ enr'[g] = enr[g] /\ t = <<>> /\ emis'[g] = emis[g]
           \/ enr'[g] \in Noter(enr[g], t) /\ emis'[g] = emis[g]
           \/ \E e \in Noter(enr[g], t) : enr'[g] \in Vider(e) /\ emis'[g] = Decode(g)'
    <3>1. canal[g] # <<>>
      BY <1>5 DEF Lire
    <3>2. QED BY <1>5, <3>1, LireEffet, PushRelais
  <2> HIDE DEF t
  <2> DEFINE d == Decode(g) \o t
  <2>2. d \in Textes /\ Len(emis[g]) <= Len(d) /\ Len(d) \in Nat
    BY <1>0, <2>1, ConcatProperties DEF Textes
  <2>3. \A e \in Noter(enr[g], t) : e \in EnrType /\ Suivi(e, d, emis[g])
    BY <1>0, <2>1, EnrApres, SuiviNoter
  <2> HIDE DEF d
  <2>4. Decode(g)' = d
    BY <2>1 DEF d
  <2>5. CASE enr'[g] = enr[g] /\ t = <<>> /\ emis'[g] = emis[g]
    <3>1. d = Decode(g)
      BY <1>0, <2>5, ConcatEmptySeq DEF d, Textes
    <3>2. QED BY <1>0, <2>4, <2>5, <3>1
  <2>6. CASE enr'[g] \in Noter(enr[g], t) /\ emis'[g] = emis[g]
    BY <2>3, <2>4, <2>6
  <2>7. ASSUME NEW e \in Noter(enr[g], t), enr'[g] \in Vider(e), emis'[g] = d
        PROVE  Suivi(enr'[g], d, d)
    <3>1. e \in EnrType /\ Suivi(e, d, emis[g])
      BY <2>3, <2>7
    <3>2. QED BY <1>0, <2>2, <2>7, <3>1, SuiviVider
  <2>8. QED BY <2>1, <2>4, <2>5, <2>6, <2>7
<1>6. CASE Echeance(g) \/ FinRelais(g)
  <2>1. /\ Decode(g)' = Decode(g)
        /\ \/ enr'[g] = enr[g] /\ emis'[g] = emis[g]
           \/ enr'[g] \in Vider(enr[g]) /\ emis'[g] = Decode(g)'
    BY <1>6, EcheanceEffet, FinRelaisEffet
  <2> DEFINE d == Decode(g)
  <2>2. d \in Textes /\ Len(d) \in Nat
    BY <1>0 DEF Textes
  <2>3. \A n \in Vider(enr[g]) : Suivi(n, d, d)
    BY <1>0, <2>2, SuiviVider
  <2>4. QED BY <1>0, <2>1, <2>3
<1>7. CASE Eveil(g) \/ ExpirerFilet(g)
  <2>1. relais'[g].tampon = relais[g].tampon
    BY <1>7, AttenteEffet DEF Attentes
  <2>2. emis' = emis /\ enr' = enr
    BY <1>7 DEF Eveil, ExpirerFilet
  <2>3. QED BY <1>1, <2>1, <2>2
<1>8. ASSUME NEW h \in Sessions, h # g, Relais(h) PROVE Suivi(enr'[g], Decode(g)', emis'[g])
  <2>1. CASE Lire(h) \/ Echeance(h) \/ FinRelais(h)
    BY <1>4, <1>8, <2>1, LireEffet, EcheanceEffet, FinRelaisEffet
  <2>2. CASE Eveil(h) \/ ExpirerFilet(h)
    <3>1. relais'[g] = relais[g]
      BY <1>8, <2>2, AttenteEffet DEF Attentes
    <3>2. emis' = emis /\ enr' = enr
      BY <2>2 DEF Eveil, ExpirerFilet
    <3>3. QED BY <1>1, <3>1, <3>2
  <2>3. QED BY <1>8, <2>1, <2>2 DEF Relais
<1>9. ASSUME NEW h \in Sessions, Retirer(h) \/ Demarrer(h) \/ Arreter(h) \/ Redimensionner(h)
      PROVE  Suivi(enr'[g], Decode(g)', emis'[g])
  <2>1. /\ \A k \in Sessions \ {h} : enr'[k] = enr[k]
        /\ \/ enr'[h] \in Cloturer(enr[h]) \cup Vider(enr[h])
           \/ enr'[h] = [EnrVide EXCEPT !.etat = "actif", !.depuis = Len(Decode(h))]
        /\ UNCHANGED <<relais, emis>>
    BY <1>9, EnrPage
  <2>2. Decode(g)' = Decode(g) /\ emis'[g] = emis[g]
    BY <2>1 DEF Decode
  <2>3. CASE h # g
    BY <1>0, <2>1, <2>2, <2>3
  <2>4. CASE h = g
    <3> DEFINE d == Decode(g)
               m == emis[g]
    <3>1. \A n \in Vider(enr[g]) \cup Cloturer(enr[g]) : Suivi(n, d, m)
      BY <1>0, SuiviVider
    <3>2. Suivi([EnrVide EXCEPT !.etat = "actif", !.depuis = Len(d)], d, m)
      BY <1>0, SuiviNeuf
    <3>3. Suivi(enr'[g], d, m)
      BY <2>1, <2>4, <3>1, <3>2
    <3>4. QED BY <2>2, <3>3
  <2>5. QED BY <2>3, <2>4
<1>10. CASE UNCHANGED vars
  BY <1>2, <1>10 DEF vars
<1>11. ASSUME NEW h \in Sessions, Pompe(h) PROVE UNCHANGED <<relais, emis, enr>>
  BY <1>11 DEF Pompe, LireServeur, PousserAttente, FinServeur, Couper
<1>12. ASSUME NEW a \in acks, PtyAck(a) PROVE UNCHANGED <<relais, emis, enr>>
  BY <1>12 DEF PtyAck
<1>13. CASE Ecrire \/ Ignorer \/ Notifier
  BY <1>2, <1>13 DEF Ecrire, Ignorer, Notifier
<1>14. ASSUME NEW h \in Sessions, Relais(h) PROVE Suivi(enr'[g], Decode(g)', emis'[g])
  BY <1>5, <1>6, <1>7, <1>8, <1>14 DEF Relais
<1>15. QED
  BY <1>2, <1>3, <1>9, <1>10, <1>11, <1>12, <1>13, <1>14 DEF Next, CloreSession, PtyClose

\* A recording has no hole, what the page was sent is then on the disk, and one that is said to be
\* finished is there entirely, whenever it was started or stopped and whatever failed.
THEOREM EnregistrementToujoursContinu ==
  Spec => []EnregistrementContinu
<1> DEFINE I == Types /\ Enregistre
<1>1. Init => I
  <2>1. Init => Enregistre
    <3> SUFFICES ASSUME Init, NEW g \in Sessions PROVE Suivi(enr[g], Decode(g), emis[g])
      BY DEF Enregistre
    <3>1. enr[g].etat = "aucun" /\ enr[g].depuis = 0 /\ enr[g].texte = <<>> /\ enr[g].disque = 0
      BY DEF Init, EnrVide
    <3>2. Decode(g) = <<>> /\ Len(<<>>) = 0
      <4>1. emis[g] = <<>> /\ relais[g].tampon = <<>> /\ <<>> \in Seq(Caracteres)
        BY DEF Init, RelaisNeuf
      <4>2. QED BY <4>1, ConcatEmptySeq DEF Decode
    <3>3. QED BY <3>1, <3>2 DEF Suivi
  <2>2. QED BY <2>1, TypesDebut
<1>2. I /\ [Next]_vars => I'
  BY TypesPas, EnregistrePas DEF Types
<1>3. I => EnregistrementContinu
  BY DEF Enregistre, Suivi, EnregistrementContinu
<1>4. QED BY <1>1, <1>2, <1>3, PTL DEF Spec

-----------------------------------------------------------------------------
\* One block after those before it, and f, what the first blocks of s are end to end.
Flots == Seq(Octets)
Rien == <<>>
Puis(t, b) == t \o b
Aboute(f, s) ==
  /\ f \in [0 .. Len(s) -> Flots] /\ f[0] = Rien
  /\ \A n \in 1 .. Len(s) : f[n] = Puis(f[n - 1], s[n])

LEMMA Bloc ==
  ASSUME NEW s \in Seq(Flots), NEW n \in 1 .. Len(s), NEW t \in Flots
  PROVE  s[n] \in Flots /\ Puis(t, s[n]) \in Flots
<1>1. s[n] \in Flots
  BY ElementOfSeq
<1>2. QED BY <1>1, ConcatProperties DEF Puis, Flots

LEMMA AplatExiste ==
  ASSUME NEW s \in Seq(Flots)
  PROVE  \E f : Aboute(f, s) /\ Aplat(s) = f[Len(s)]
<1> DEFINE P(n, g) == /\ g \in [0 .. n -> Flots] /\ g[0] = Rien
                      /\ \A k \in 1 .. n : g[k] = Puis(g[k - 1], s[k])
           T == {n \in 0 .. Len(s) : \E g : P(n, g)}
<1>0. Rien \in Flots /\ Len(s) \in Nat
  BY DEF Rien, Flots
<1>1. 0 \in T
  <2>1. P(0, [k \in 0 .. 0 |-> Rien])
    BY <1>0
  <2>2. 0 \in 0 .. Len(s)
    BY <1>0
  <2> HIDE DEF P
  <2>3. QED BY <2>1, <2>2
<1>2. ASSUME NEW n \in 0 .. Len(s), n \in T, n + 1 \in 0 .. Len(s) PROVE n + 1 \in T
  <2>1. PICK g : P(n, g)
    BY <1>2
  <2> DEFINE h == [k \in 0 .. n + 1 |-> IF k = n + 1 THEN Puis(g[n], s[n + 1]) ELSE g[k]]
  <2>2. Puis(g[n], s[n + 1]) \in Flots
    <3>1. g[n] \in Flots /\ n + 1 \in 1 .. Len(s)
      BY <1>0, <1>2, <2>1
    <3>2. QED BY <3>1, Bloc
  <2>3. h \in [0 .. n + 1 -> Flots] /\ h[0] = Rien
    BY <1>2, <2>1, <2>2
  <2>4. \A k \in 1 .. n + 1 : h[k] = Puis(h[k - 1], s[k])
    BY <1>2, <2>1
  <2>5. P(n + 1, h)
    BY <2>3, <2>4
  <2>6. QED BY <1>2, <2>5
<1>3. Len(s) \in T
  <2> HIDE DEF T
  <2>1. 0 .. Len(s) \subseteq T
    BY <1>0, <1>1, <1>2, Recurrence
  <2>2. QED BY <1>0, <2>1
<1>4. PICK g : P(Len(s), g)
  BY <1>3
<1> DEFINE Corps(f) == [n \in 0 .. Len(s) |-> IF n = 0 THEN Rien ELSE Puis(f[n - 1], s[n])]
           bout == CHOOSE f : f = Corps(f)
<1>5. g = Corps(g)
  BY <1>4
<1>6. bout = Corps(bout)
  BY <1>5
<1>7. Aplat(s) = bout[Len(s)]
  BY DEF Aplat, Puis, Rien
<1>8. bout \in [0 .. Len(s) -> Flots]
  <2> DEFINE V == {n \in 0 .. Len(s) : bout[n] \in Flots}
  <2> HIDE DEF bout
  <2>1. 0 \in V
    BY <1>0, <1>6
  <2>2. ASSUME NEW n \in 0 .. Len(s), n \in V, n + 1 \in 0 .. Len(s) PROVE n + 1 \in V
    <3>1. bout[n + 1] = Puis(bout[n], s[n + 1])
      BY <1>6, <2>2
    <3>2. n + 1 \in 1 .. Len(s) /\ bout[n] \in Flots
      BY <1>0, <2>2
    <3>3. QED BY <2>2, <3>1, <3>2, Bloc
  <2> HIDE DEF V
  <2>3. 0 .. Len(s) \subseteq V
    BY <1>0, <2>1, <2>2, Recurrence
  <2> USE DEF V
  <2>4. QED BY <1>6, <2>3
<1>9. Aboute(bout, s)
  <2> HIDE DEF bout
  <2>1. bout[0] = Rien
    BY <1>0, <1>6
  <2>2. \A n \in 1 .. Len(s) : bout[n] = Puis(bout[n - 1], s[n])
    BY <1>6
  <2>3. QED BY <1>8, <2>1, <2>2 DEF Aboute
<1>10. QED BY <1>7, <1>9

\* Whatever puts the blocks end to end gives the same bytes.
LEMMA AplatEst ==
  ASSUME NEW s \in Seq(Flots), NEW f, Aboute(f, s)
  PROVE  Aplat(s) = f[Len(s)] /\ Aplat(s) \in Flots
<1>0. Len(s) \in Nat
  OBVIOUS
<1>1. PICK g : Aboute(g, s) /\ Aplat(s) = g[Len(s)]
  BY AplatExiste
<1> DEFINE T == {n \in 0 .. Len(s) : f[n] = g[n]}
<1>2. 0 \in T
  BY <1>1 DEF Aboute
<1>3. ASSUME NEW n \in 0 .. Len(s), n \in T, n + 1 \in 0 .. Len(s) PROVE n + 1 \in T
  BY <1>1, <1>3 DEF Aboute
<1> HIDE DEF T
<1>4. 0 .. Len(s) \subseteq T
  BY <1>0, <1>2, <1>3, Recurrence
<1> USE DEF T
<1>5. QED BY <1>0, <1>1, <1>4 DEF Aboute

LEMMA AplatVide ==
  Aplat(<<>>) = <<>>
<1>1. <<>> \in Seq(Flots) /\ Len(<<>>) = 0 /\ Rien \in Flots
  BY DEF Flots, Rien
<1> DEFINE f == [n \in 0 .. 0 |-> Rien]
<1>2. Aboute(f, <<>>)
  BY <1>1 DEF Aboute
<1>3. Aplat(<<>>) = f[0]
  BY <1>1, <1>2, AplatEst
<1>4. QED BY <1>3 DEF Rien

LEMMA AplatAjout ==
  ASSUME NEW s \in Seq(Flots), NEW b \in Flots
  PROVE  Aplat(Append(s, b)) = Aplat(s) \o b /\ Aplat(s) \in Flots
<1> DEFINE t == Append(s, b)
<1>0. Len(s) \in Nat
  OBVIOUS
<1>1. /\ t \in Seq(Flots) /\ Len(t) = Len(s) + 1 /\ t[Len(s) + 1] = b
      /\ \A n \in 1 .. Len(s) : t[n] = s[n]
  BY AppendProperties
<1> HIDE DEF t
<1>2. PICK f : Aboute(f, s) /\ Aplat(s) = f[Len(s)]
  BY AplatExiste
<1>3. Aplat(s) \in Flots
  BY <1>2, AplatEst
<1> DEFINE g == [n \in 0 .. Len(s) + 1 |-> IF n = Len(s) + 1 THEN Puis(f[Len(s)], b) ELSE f[n]]
<1>4. Puis(f[Len(s)], b) \in Flots
  BY <1>2, <1>3, ConcatProperties DEF Puis, Flots
<1>5. Aboute(g, t)
  <2>1. g \in [0 .. Len(t) -> Flots] /\ g[0] = Rien
    BY <1>0, <1>1, <1>2, <1>4 DEF Aboute
  <2>2. \A n \in 1 .. Len(s) : g[n] = Puis(g[n - 1], t[n])
    BY <1>0, <1>1, <1>2 DEF Aboute
  <2>3. g[Len(s) + 1] = Puis(g[Len(s)], t[Len(s) + 1])
    BY <1>0, <1>1
  <2>4. ASSUME NEW n \in 1 .. Len(t) PROVE g[n] = Puis(g[n - 1], t[n])
    <3>1. n \in 1 .. Len(s) \/ n = Len(s) + 1
      BY <1>0, <1>1
    <3>2. n = Len(s) + 1 => n - 1 = Len(s)
      BY <1>0
    <3>3. QED BY <2>2, <2>3, <3>1, <3>2
  <2>5. QED BY <2>1, <2>4 DEF Aboute
<1>6. Aplat(t) = g[Len(s) + 1]
  BY <1>1, <1>5, AplatEst
<1>7. g[Len(s) + 1] = f[Len(s)] \o b
  BY <1>0 DEF Puis
<1>8. QED BY <1>2, <1>3, <1>6, <1>7 DEF t

LEMMA TroisBouts ==
  ASSUME NEW x \in Seq(Octets), NEW y \in Seq(Octets), NEW z \in Seq(Octets)
  PROVE  (x \o y) \o z = x \o (y \o z)
BY ConcatAssociative

LEMMA AplatTete ==
  ASSUME NEW s \in Seq(Flots), s # <<>>
  PROVE  /\ Head(s) \in Flots /\ Aplat(Tail(s)) \in Flots
         /\ Aplat(s) = Head(s) \o Aplat(Tail(s))
<1> DEFINE t == Tail(s)
           b == s[1]
<1>0. /\ Len(s) \in Nat /\ Len(s) > 0 /\ Head(s) = b /\ b \in Flots
      /\ t \in Seq(Flots) /\ Len(t) = Len(s) - 1 /\ \A n \in 1 .. Len(s) - 1 : t[n] = s[n + 1]
  <2>1. Len(s) \in Nat /\ Len(s) > 0 /\ Head(s) = s[1]
    BY EmptySeq
  <2>2. s[1] \in Flots
    BY <2>1, ElementOfSeq
  <2>3. QED BY <2>1, <2>2, HeadTailProperties
<1> HIDE DEF t, b
<1>1. PICK f : Aboute(f, s) /\ Aplat(s) = f[Len(s)]
  BY AplatExiste
<1>2. PICK g : Aboute(g, t) /\ Aplat(t) = g[Len(t)]
  BY <1>0, AplatExiste
<1>3. Aplat(t) \in Flots
  BY <1>0, <1>2, AplatEst
<1> DEFINE T == {n \in 0 .. Len(t) : f[n + 1] = Puis(b, g[n])}
<1>4. 0 \in T
  <2>1. f[1] = Puis(f[0], s[1]) /\ f[0] = Rien /\ g[0] = Rien /\ s[1] = b
    BY <1>0, <1>1, <1>2 DEF Aboute, b
  <2>2. Puis(b, Rien) = b /\ Puis(Rien, b) = b
    BY <1>0, ConcatEmptySeq DEF Puis, Flots, Rien
  <2>3. f[0 + 1] = Puis(b, g[0]) /\ 0 \in 0 .. Len(t)
    BY <1>0, <2>1, <2>2
  <2>4. QED BY <2>3
<1>5. ASSUME NEW n \in 0 .. Len(t), n \in T, n + 1 \in 0 .. Len(t) PROVE n + 1 \in T
  <2>0. n \in Nat /\ n + 1 \in 1 .. Len(t) /\ n + 2 \in 1 .. Len(s) /\ (n + 2) - 1 = n + 1
        /\ (n + 1) - 1 = n /\ (n + 1) + 1 = n + 2
    BY <1>0, <1>5
  <2>1. f[n + 2] = Puis(f[n + 1], s[n + 2])
    BY <1>1, <2>0 DEF Aboute
  <2>2. g[n + 1] = Puis(g[n], t[n + 1]) /\ g[n] \in Flots
    BY <1>0, <1>2, <2>0 DEF Aboute
  <2>s. t[n + 1] = s[n + 2]
    BY <1>0, <2>0
  <2>3. t[n + 1] \in Flots
    BY <1>0, <1>5, ElementOfSeq
  <2>4. Puis(Puis(b, g[n]), t[n + 1]) = Puis(b, Puis(g[n], t[n + 1]))
    <3>1. b \in Seq(Octets) /\ g[n] \in Seq(Octets) /\ t[n + 1] \in Seq(Octets)
      BY <1>0, <2>2, <2>3 DEF Flots
    <3>2. QED BY <3>1, TroisBouts DEF Puis
  <2>5. f[n + 1] = Puis(b, g[n])
    BY <1>5
  <2>6. f[(n + 1) + 1] = Puis(b, g[n + 1])
    BY <2>0, <2>1, <2>2, <2>s, <2>4, <2>5
  <2>7. QED BY <1>5, <2>6
<1>6. f[Len(t) + 1] = Puis(b, g[Len(t)])
  <2> HIDE DEF T
  <2>0. Len(t) \in Nat
    BY <1>0
  <2>1. 0 .. Len(t) \subseteq T
    BY <1>4, <1>5, <2>0, Recurrence
  <2> USE DEF T
  <2>2. QED BY <2>0, <2>1
<1>7. Aplat(s) = Puis(b, Aplat(t))
  BY <1>0, <1>1, <1>2, <1>6
<1>8. QED BY <1>0, <1>3, <1>7 DEF t, Puis

\* c is what the relay of g has read of its server's bytes: what follows is in the channel, or
\* waits in the pump, and it was decoded as one reading of c would decode it.
ALu(g, c) ==
  /\ c \in Seq(Octets)
  /\ recu[g] = c \o (Aplat(canal[g]) \o attente[g])
  /\ Lecture(c) = [texte |-> Decode(g), reste |-> relais[g].carry]
Fidele == \A g \in Sessions : \E c : ALu(g, c)

LEMMA FlotsDe ==
  ASSUME TypeOK, NEW g \in Sessions
  PROVE  /\ canal[g] \in Seq(Flots) /\ Aplat(canal[g]) \in Seq(Octets) /\ attente[g] \in Seq(Octets)
         /\ recu[g] \in Seq(Octets)
<1>1. canal[g] \in Seq(Flots) /\ attente[g] \in Seq(Octets) /\ recu[g] \in Seq(Octets)
  BY DEF TypeOK, Flots
<1>2. Aplat(canal[g]) \in Seq(Octets)
  BY <1>1, AplatAjout DEF Flots
<1>3. QED BY <1>1, <1>2

\* Without its end, what was there before it.
LEMMA SansLaFin ==
  ASSUME NEW z \in Seq(Octets), NEW a \in Seq(Octets)
  PROVE  SubSeq(z \o a, 1, Len(z \o a) - Len(a)) = z
<1>1. /\ z \o a \in Seq(Octets) /\ Len(z \o a) = Len(z) + Len(a)
      /\ \A i \in 1 .. Len(z) + Len(a) : (z \o a)[i] = IF i <= Len(z) THEN z[i] ELSE a[i - Len(z)]
      /\ Len(z) \in Nat /\ Len(a) \in Nat
  BY ConcatProperties
<1> DEFINE za == z \o a
<1>2. za \in Seq(Octets) /\ Len(za) = Len(z) + Len(a) /\ \A i \in 1 .. Len(z) : za[i] = z[i]
  BY <1>1
<1> HIDE DEF za
<1> DEFINE q == SubSeq(za, 1, Len(z))
<1>3. q \in Seq(Octets) /\ Len(q) = Len(z) /\ \A i \in 1 .. Len(z) : q[i] = z[i]
  BY <1>1, <1>2
<1> HIDE DEF q
<1>4. q = z
  BY <1>3, SeqEqual
<1>5. Len(za) - Len(a) = Len(z)
  BY <1>1, <1>2
<1>6. QED BY <1>4, <1>5 DEF q, za

\* The pump takes a block, gives one or gives one up: what was read stays read.
LEMMA FidelePompe ==
  ASSUME TypeOK, NEW g \in Sessions, Pompe(g), NEW c, ALu(g, c)
  PROVE  ALu(g, c)'
<1> USE DEF sortieVars
<1> DEFINE x == Aplat(canal[g])
           a == attente[g]
<1>0. c \in Seq(Octets) /\ x \in Seq(Octets) /\ a \in Seq(Octets) /\ recu[g] = c \o (x \o a)
  BY FlotsDe DEF ALu
<1>1. relais' = relais /\ emis' = emis
  BY DEF Pompe, LireServeur, PousserAttente, FinServeur, Couper
<1>2. ASSUME recu'[g] = c \o (Aplat(canal'[g]) \o attente'[g]) PROVE ALu(g, c)'
  BY <1>1, <1>2 DEF ALu, Decode
<1>3. ASSUME NEW bloc \in Blocs[g], LireServeur(g, bloc) PROVE ALu(g, c)'
  <2>1. bloc \in Seq(Octets) /\ a = <<>> /\ recu'[g] = (c \o (x \o a)) \o bloc
    BY <1>0, <1>3, Constantes DEF LireServeur, TypeOK
  <2>2. (c \o (x \o a)) \o bloc = c \o (x \o bloc) /\ x \o a = x
    <3> HIDE DEF x, a
    <3>1. x \o a = x
      BY <1>0, <2>1, ConcatEmptySeq
    <3>2. QED BY SMTT(60), <1>0, <2>1, <3>1, ConcatAssociative
  <2>3. CASE Len(canal[g]) < CapCanal
    <3>1. canal'[g] = Append(canal[g], bloc) /\ attente'[g] = a
      BY <1>3, <2>3 DEF LireServeur, TypeOK
    <3>2. Aplat(canal'[g]) = x \o bloc
      BY <2>1, <3>1, FlotsDe, AplatAjout DEF Flots
    <3>3. x \o bloc \in Seq(Octets) /\ (x \o bloc) \o <<>> = x \o bloc
      <4> HIDE DEF x
      <4>1. x \o bloc \in Seq(Octets)
        BY <1>0, <2>1, ConcatProperties
      <4>2. QED BY <4>1, ConcatEmptySeq
    <3>4. QED BY <1>2, <2>1, <2>2, <3>1, <3>2, <3>3
  <2>4. CASE ~(Len(canal[g]) < CapCanal)
    <3>1. canal'[g] = canal[g] /\ attente'[g] = bloc
      BY <1>3, <2>4 DEF LireServeur, TypeOK
    <3>2. QED BY <1>2, <2>1, <2>2, <3>1
  <2>5. QED BY <2>3, <2>4
<1>4. CASE PousserAttente(g)
  <2>1. recu'[g] = recu[g] /\ canal'[g] = Append(canal[g], a) /\ attente'[g] = <<>>
    BY <1>4 DEF PousserAttente, TypeOK
  <2>2. Aplat(canal'[g]) = x \o a
    BY <1>0, <2>1, FlotsDe, AplatAjout DEF Flots
  <2>3. (x \o a) \o <<>> = x \o a
    <3> HIDE DEF x, a
    <3>1. x \o a \in Seq(Octets)
      BY <1>0, ConcatProperties
    <3>2. QED BY <3>1, ConcatEmptySeq
  <2>4. QED BY <1>0, <1>2, <2>1, <2>2, <2>3
<1>5. CASE FinServeur(g)
  BY <1>0, <1>2, <1>5 DEF FinServeur
<1>6. CASE Couper(g)
  <2>1. /\ recu'[g] = SubSeq(recu[g], 1, Len(recu[g]) - Len(a))
        /\ canal'[g] = canal[g] /\ attente'[g] = <<>>
    BY <1>6 DEF Couper, TypeOK
  <2>2. SubSeq(c \o (x \o a), 1, Len(c \o (x \o a)) - Len(a)) = c \o x /\ x \o <<>> = x
    <3> HIDE DEF x, a
    <3>1. c \o x \in Seq(Octets) /\ (c \o x) \o a = c \o (x \o a) /\ x \o <<>> = x
      BY SMTT(60), <1>0, ConcatProperties, ConcatAssociative, ConcatEmptySeq
    <3> DEFINE y == c \o x
    <3> HIDE DEF y
    <3>2. SubSeq(y \o a, 1, Len(y \o a) - Len(a)) = y
      BY <1>0, <3>1, SansLaFin DEF y
    <3>3. QED BY <3>1, <3>2 DEF y
  <2>3. QED BY <1>0, <1>2, <2>1, <2>2
<1>7. QED BY <1>3, <1>4, <1>5, <1>6 DEF Pompe

\* The relay reads one block more.
LEMMA FideleLire ==
  ASSUME TypeOK, Reliquats, NEW g \in Sessions, Lire(g), NEW c, ALu(g, c),
         NEW d, d = c \o Head(canal[g])
  PROVE  ALu(g, d)'
<1> DEFINE b == Head(canal[g])
           y == Aplat(Tail(canal[g]))
           a == attente[g]
           e == [texte |-> Decode(g), reste |-> relais[g].carry]
           p == Push(relais[g].carry, b)
<1>1. /\ canal[g] # <<>> /\ canal'[g] = Tail(canal[g]) /\ attente'[g] = a /\ recu'[g] = recu[g]
  BY DEF Lire, TypeOK, pompeVars
<1>2. Decode(g)' = Decode(g) \o p.texte /\ relais'[g].carry = p.reste
  BY LireEffet
<1>3. c \in Seq(Octets) /\ a \in Seq(Octets) /\ b \in Seq(Octets) /\ y \in Seq(Octets)
      /\ Aplat(canal[g]) = b \o y /\ recu[g] = c \o ((b \o y) \o a) /\ Lecture(c) = e
  BY <1>1, FlotsDe, AplatTete DEF ALu, Flots
<1>4. c \o ((b \o y) \o a) = (c \o b) \o (y \o a) /\ c \o b \in Seq(Octets)
  <2> HIDE DEF a, b, y
  <2>1. y \o a \in Seq(Octets) /\ c \o b \in Seq(Octets)
    BY <1>3, ConcatProperties
  <2>2. \A u, v, w \in Seq(Octets) : (u \o v) \o w = u \o (v \o w)
    BY TroisBouts
  <2>3. (b \o y) \o a = b \o (y \o a)
    BY ZenonT(60), <1>3, <2>2
  <2>4. c \o (b \o (y \o a)) = (c \o b) \o (y \o a)
    BY ZenonT(60), <1>3, <2>1, <2>2
  <2>5. QED BY <2>1, <2>3, <2>4
<1>5. e \in Etats
  <2>1. Decode(g) \in Seq(Caracteres)
    <3>1. emis[g] \in Seq(Caracteres) /\ relais[g].tampon \in Seq(Caracteres)
      BY DEF TypeOK, Textes
    <3>2. QED BY <3>1, ConcatProperties DEF Decode
  <2>2. relais[g].carry \in Restes
    BY DEF Reliquats
  <2>3. QED BY <2>1, <2>2, EtatEst
<1>6. Lecture(c \o b) = [texte |-> Decode(g) \o p.texte, reste |-> p.reste]
  <2>1. Debut \in Etats
    BY DEF Debut, Etats, Restes
  <2>2. Lecture(c \o b) = LectureDepuis(e, b)
    BY <1>3, <2>1, LectureConcat DEF Lecture
  <2>3. LectureDepuis(e, b) = [texte |-> e.texte \o Push(e.reste, b).texte, reste |-> Push(e.reste, b).reste]
    BY <1>3, <1>5, PushSuitLecture
  <2>4. e.texte = Decode(g) /\ e.reste = relais[g].carry
    OBVIOUS
  <2>5. QED BY <2>2, <2>3, <2>4
<1>7. d = c \o b
  OBVIOUS
<1>8. d \in Seq(Octets) /\ recu'[g] = d \o (Aplat(canal'[g]) \o attente'[g])
  BY <1>1, <1>3, <1>4, <1>7
<1>9. Lecture(d) = [texte |-> Decode(g)', reste |-> relais'[g].carry]
  BY <1>2, <1>6, <1>7
<1>10. QED BY <1>8, <1>9 DEF ALu

LEMMA FidelePas ==
  TypeOK /\ Reliquats /\ Fidele /\ [Next]_vars => Fidele'
<1> SUFFICES ASSUME TypeOK, Reliquats, Fidele, [Next]_vars, NEW g \in Sessions PROVE \E c : ALu(g, c)'
  BY DEF Fidele
<1> USE DEF sessionVars, pompeVars, sortieVars, ackVars
<1>0. PICK c : ALu(g, c)
  BY DEF Fidele
<1>1. ASSUME recu'[g] = recu[g], canal'[g] = canal[g], attente'[g] = attente[g],
             Decode(g)' = Decode(g), relais'[g].carry = relais[g].carry
      PROVE  ALu(g, c)'
  BY <1>0, <1>1 DEF ALu
<1>2. CASE UNCHANGED <<recu, canal, attente, relais, emis>>
  <2>1. Decode(g)' = Decode(g)
    BY <1>2 DEF Decode
  <2>2. QED BY <1>1, <1>2, <2>1
<1>3. CASE Ouvrir
  <2>1. relais \in [Sessions -> RelaisType] /\ relais' = [relais EXCEPT ![courante + 1].etape = "lit"]
        /\ UNCHANGED <<recu, canal, attente, emis>>
    BY <1>3 DEF Ouvrir, TypeOK, RelaisType
  <2>2. relais'[g].tampon = relais[g].tampon /\ relais'[g].carry = relais[g].carry
    BY <2>1 DEF RelaisType
  <2>3. Decode(g)' = Decode(g)
    BY <2>1, <2>2 DEF Decode
  <2>4. QED BY <1>1, <2>1, <2>2, <2>3
<1>4. ASSUME NEW h \in Sessions, Pompe(h) PROVE \E x : ALu(g, x)'
  <2>1. CASE h = g
    BY <1>0, <1>4, <2>1, FidelePompe
  <2>2. CASE h # g
    <3>t. DOMAIN recu = Sessions /\ DOMAIN canal = Sessions /\ DOMAIN attente = Sessions
      BY DEF TypeOK
    <3>1. recu'[g] = recu[g] /\ canal'[g] = canal[g] /\ attente'[g] = attente[g] /\ relais' = relais /\ emis' = emis
      <4>1. CASE \E bloc \in Blocs[h] : LireServeur(h, bloc)
        BY <2>2, <3>t, <4>1 DEF LireServeur
      <4>2. CASE PousserAttente(h) \/ FinServeur(h) \/ Couper(h)
        BY <2>2, <3>t, <4>2 DEF PousserAttente, FinServeur, Couper
      <4>3. QED BY <1>4, <4>1, <4>2 DEF Pompe
    <3>2. Decode(g)' = Decode(g)
      BY <3>1 DEF Decode
    <3>3. QED BY <1>1, <3>1, <3>2
  <2>3. QED BY <2>1, <2>2
<1>5. CASE Lire(g)
  BY <1>0, <1>5, FideleLire
<1>6. CASE Echeance(g) \/ FinRelais(g)
  <2>1. Decode(g)' = Decode(g) /\ relais'[g].carry = relais[g].carry
    BY <1>6, EcheanceEffet, FinRelaisEffet
  <2>2. UNCHANGED <<recu, canal, attente>>
    BY <1>6 DEF Echeance, FinRelais
  <2>3. QED BY <1>1, <2>1, <2>2
<1>7. ASSUME NEW h \in Sessions, Eveil(h) \/ ExpirerFilet(h) PROVE ALu(g, c)'
  <2>1. relais'[g].tampon = relais[g].tampon /\ relais'[g].carry = relais[g].carry
    BY <1>7, AttenteEffet DEF Attentes
  <2>2. UNCHANGED <<recu, canal, attente, emis>>
    BY <1>7 DEF Eveil, ExpirerFilet
  <2>3. Decode(g)' = Decode(g)
    BY <2>1, <2>2 DEF Decode
  <2>4. QED BY <1>1, <2>1, <2>2, <2>3
<1>8. ASSUME NEW h \in Sessions, h # g, Lire(h) \/ Echeance(h) \/ FinRelais(h) PROVE ALu(g, c)'
  <2>1. relais'[g] = relais[g] /\ emis'[g] = emis[g]
    BY <1>8, LireEffet, EcheanceEffet, FinRelaisEffet DEF Gardes
  <2>2. recu' = recu /\ canal'[g] = canal[g] /\ attente' = attente
    BY <1>8 DEF Lire, Echeance, FinRelais, TypeOK
  <2>3. Decode(g)' = Decode(g)
    BY <2>1 DEF Decode
  <2>4. QED BY <1>1, <2>1, <2>2, <2>3
<1>9. ASSUME NEW h \in Sessions, Relais(h) PROVE \E x : ALu(g, x)'
  BY <1>5, <1>1, <1>6, <1>7, <1>8, <1>9 DEF Relais
<1>10. ASSUME NEW h \in Sessions, Retirer(h) \/ Demarrer(h) \/ Arreter(h) \/ Redimensionner(h)
       PROVE  UNCHANGED <<recu, canal, attente, relais, emis>>
  BY <1>10 DEF Retirer, Demarrer, Arreter, Redimensionner
<1>11. ASSUME NEW a \in acks, PtyAck(a) PROVE UNCHANGED <<recu, canal, attente, relais, emis>>
  BY <1>11 DEF PtyAck
<1>12. CASE Ecrire \/ Ignorer \/ Notifier \/ UNCHANGED vars
  BY <1>2, <1>12 DEF Ecrire, Ignorer, Notifier, vars
<1>13. QED
  <2>1. CASE \E h \in Sessions : Relais(h) \/ Pompe(h)
    BY <1>4, <1>9, <2>1
  <2>2. CASE Ouvrir
    BY <1>3, <2>2
  <2>3. CASE UNCHANGED <<recu, canal, attente, relais, emis>>
    BY <1>2, <2>3
  <2>4. CASE Ecrire \/ Ignorer \/ Notifier \/ UNCHANGED vars
    BY <1>12, <2>4
  <2>5. QED
    BY <1>10, <1>11, <2>1, <2>2, <2>3, <2>4 DEF Next, CloreSession, PtyClose

\* What a session shows is one decoding of the bytes its server sent, however they were cut into
\* blocks and whatever the relay waited for.
THEOREM TexteToujoursFidele ==
  Spec => []TexteFidele
<1> DEFINE I == Types /\ Fidele
<1>1. Init => I
  <2>1. Init => Fidele
    <3> SUFFICES ASSUME Init, NEW g \in Sessions PROVE ALu(g, <<>>)
      BY DEF Fidele
    <3>1. /\ recu[g] = <<>> /\ canal[g] = <<>> /\ attente[g] = <<>> /\ emis[g] = <<>>
          /\ relais[g].tampon = <<>> /\ relais[g].carry = <<>>
      BY DEF Init, RelaisNeuf
    <3>2. <<>> \in Seq(Octets) /\ <<>> \in Seq(Caracteres)
      OBVIOUS
    <3>3. <<>> \o <<>> = <<>>
      BY <3>2, ConcatEmptySeq
    <3>4. Debut \in Etats /\ Debut = [texte |-> <<>>, reste |-> <<>>]
      BY DEF Debut, Etats, Restes
    <3>5. Lecture(<<>>) = Debut
      BY <3>4, LectureVide DEF Lecture
    <3>6. Decode(g) = <<>>
      BY <3>1, <3>3 DEF Decode
    <3>7. QED BY <3>1, <3>2, <3>3, <3>4, <3>5, <3>6, AplatVide DEF ALu
  <2>2. QED BY <2>1, TypesDebut
<1>2. I /\ [Next]_vars => I'
  BY TypesPas, FidelePas DEF Types
<1>3. I => TexteFidele
  <2> SUFFICES ASSUME TypeOK, Fidele, NEW g \in Sessions
               PROVE  LET retenus == Len(Aplat(canal[g])) + Len(attente[g])
                          lecture == Lecture(SubSeq(recu[g], 1, Len(recu[g]) - retenus))
                      IN lecture.texte = Decode(g) /\ lecture.reste = relais[g].carry
    BY DEF TexteFidele, Types
  <2> DEFINE x == Aplat(canal[g])
             a == attente[g]
             n == Len(x) + Len(a)
  <2>1. PICK c : ALu(g, c)
    BY DEF Fidele
  <2>2. c \in Seq(Octets) /\ x \in Seq(Octets) /\ a \in Seq(Octets) /\ recu[g] = c \o (x \o a)
    BY <2>1, FlotsDe DEF ALu
  <2>3. SubSeq(recu[g], 1, Len(recu[g]) - n) = c
    <3> HIDE DEF x, a
    <3> DEFINE y == x \o a
    <3>1. y \in Seq(Octets) /\ Len(y) = n
      BY <2>2, ConcatProperties
    <3> HIDE DEF y
    <3>2. SubSeq(c \o y, 1, Len(c \o y) - Len(y)) = c
      BY <2>2, <3>1, SansLaFin
    <3>3. QED BY <2>2, <3>1, <3>2 DEF y
  <2>4. Lecture(c) = [texte |-> Decode(g), reste |-> relais[g].carry]
    BY <2>1 DEF ALu
  <2> DEFINE l == Lecture(SubSeq(recu[g], 1, Len(recu[g]) - n))
  <2>5. l = [texte |-> Decode(g), reste |-> relais[g].carry]
    BY <2>3, <2>4
  <2>6. l.texte = Decode(g) /\ l.reste = relais[g].carry
    <3> HIDE DEF l
    <3>1. QED BY <2>5
  <2>7. QED BY <2>6
<1>4. QED BY <1>1, <1>2, <1>3, PTL DEF Spec
=============================================================================
