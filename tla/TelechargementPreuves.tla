----------------------- MODULE TelechargementPreuves -----------------------
(***************************************************************************)
(* What Telechargement promises, for every size of block, every number of  *)
(* bands, runs and versions: a file about to be promoted is the remote one *)
(* and has no hole, no card is ahead of the disk, a card only grows.       *)
(*                                                                         *)
(* Terminer only compares a COUNT with the size of the file.  That it is   *)
(* enough takes arithmetic over the set of the bands: the bands add up to  *)
(* the file (BandesTotal) and cover it (BandesCouvrent), no band receives  *)
(* more than its length, so a right count means that each one is complete  *)
(* (CompteRond).  The sums are those of MapThenSumSet; the inductions, over*)
(* the naturals and over finite sets, are made on the set where the claim  *)
(* holds, whose complement would have a least element (PlusPetit, Montee,  *)
(* ParElements).                                                           *)
(*                                                                         *)
(* The inductive invariant IInv follows the bytes from a write to the      *)
(* promotion: what a band received is in the work file (Recue), what it    *)
(* announces is on the disk (Synchronisee), what a card says of the remote *)
(* file as it is, is on both (Promise), a run takes all of it (Gardee).    *)
(* A card and a run are dated (Datee, Lancee): a promise about an older    *)
(* version of the file binds nobody.                                       *)
(*                                                                         *)
(* The lemmas on sums and counts serve the other parts, about what         *)
(* Etablissement (where a password goes, what a tab holds) and             *)
(* Acheminement (what a relay holds and counts) promise, about the scenes  *)
(* of MCSsh that gather them, and about Surfaces (its accounts).           *)
(*                                                                         *)
(* Surfaces writes with folds.  Each fold is unfolded once, one element    *)
(* after the other, from the equation FoldLeft solves.  What is proved of  *)
(* the image is proved of the image to come (EcranAttendu: what the loop   *)
(* would show now), which every command keeps and Peindre makes the image. *)
(***************************************************************************)
EXTENDS Telechargement, MCSsh, Surfaces, TLAPS, WellFoundedInduction, FiniteSetTheorems, SequenceTheorems

\* A non-empty set of naturals has a least element.
LEMMA PlusPetit ==
  ASSUME NEW T, T \subseteq Nat, T # {}
  PROVE  \E m \in T : \A n \in T : m <= n
<1> DEFINE R == {ss \in Nat \X Nat : ss[1] < ss[2]}
<1>1. IsWellFoundedOn(R, Nat)
  BY NatLessThanWellFounded DEF OpToRel
<1>2. \A m \in Nat, n \in Nat : <<n, m>> \in R <=> n < m
  OBVIOUS
<1> HIDE DEF R
<1>3. PICK m \in T : \A n \in T : ~(<<n, m>> \in R)
  BY <1>1, WFMin
<1>4. \A n \in T : ~(n < m)
  BY <1>2, <1>3
<1>5. QED BY <1>3, <1>4

\* Induction, on a set: where something holds.
LEMMA Montee ==
  ASSUME NEW T, 0 \in T, \A n \in Nat : n \in T => n + 1 \in T
  PROVE  Nat \subseteq T
<1> SUFFICES ASSUME Nat \ T # {} PROVE FALSE
  OBVIOUS
<1> DEFINE U == Nat \ T
<1>0. U \subseteq Nat /\ U # {}
  OBVIOUS
<1> HIDE DEF U
<1>1. PICK m \in U : \A n \in U : m <= n
  BY <1>0, PlusPetit
<1> USE DEF U
<1>2. m # 0 /\ m - 1 \in Nat /\ m - 1 \in T
  BY <1>1
<1>3. QED BY <1>1, <1>2

-----------------------------------------------------------------------------
(* Sums over a finite set.                                                 *)

Un(s) == CHOOSE x \in s : TRUE

\* The equation of MapThenSumSet, with its summands in a function.
Corps(g, S, f) == [s \in SUBSET S |-> IF s = {} THEN 0 ELSE f[Un(s)] + g[s \ {Un(s)}]]

Cumule(g, S, f) == g = Corps(g, S, f)

\* It takes its summands in any order.
Additif(g, S, f) ==
  /\ g \in [SUBSET S -> Nat] /\ g[{}] = 0
  /\ \A s \in SUBSET S : \A x \in s : g[s] = f[x] + g[s \ {x}]

LEMMA CumulExiste ==
  ASSUME NEW S, IsFiniteSet(S), NEW f \in [S -> Nat]
  PROVE  \E g : Cumule(g, S, f)
<1> DEFINE D(n) == {s \in SUBSET S : Cardinality(s) <= n}
           P(n, g) == g = [s \in D(n) |-> IF s = {} THEN 0 ELSE f[Un(s)] + g[s \ {Un(s)}]]
           T == {n \in Nat : \E g : P(n, g)}
<1>0. \A s \in SUBSET S : IsFiniteSet(s) /\ Cardinality(s) \in Nat /\ Cardinality(s) <= Cardinality(S)
  BY FS_Subset, FS_CardinalityType
<1>1. \A s \in SUBSET S : s # {} => /\ Un(s) \in s
                                    /\ Cardinality(s \ {Un(s)}) = Cardinality(s) - 1
                                    /\ Cardinality(s) > 0
  <2> SUFFICES ASSUME NEW s \in SUBSET S, s # {}
               PROVE  Un(s) \in s /\ Cardinality(s \ {Un(s)}) = Cardinality(s) - 1 /\ Cardinality(s) > 0
    OBVIOUS
  <2>1. Un(s) \in s
    BY DEF Un
  <2>2. IsFiniteSet(s) /\ Cardinality(s) \in Nat
    BY <1>0
  <2>3. Cardinality(s) # 0
    BY <2>2, FS_EmptySet
  <2>4. Cardinality(s \ {Un(s)}) = Cardinality(s) - 1
    BY <2>1, <2>2, FS_RemoveElement
  <2>5. QED BY <2>1, <2>2, <2>3, <2>4
<1>2. 0 \in T
  <2> DEFINE g == [s \in D(0) |-> 0]
  <2>1. \A s \in D(0) : s = {}
    <3> SUFFICES ASSUME NEW s \in SUBSET S, Cardinality(s) <= 0, s # {} PROVE FALSE
      OBVIOUS
    <3>1. Cardinality(s) > 0
      BY <1>1
    <3>2. QED BY <1>0, <3>1
  <2>2. P(0, g)
    BY <2>1
  <2> HIDE DEF P, g
  <2>3. QED BY <2>2
<1>3. \A n \in Nat : n \in T => n + 1 \in T
  <2> HIDE DEF P
  <2> SUFFICES ASSUME NEW n \in Nat, NEW g, P(n, g) PROVE \E h : P(n + 1, h)
    OBVIOUS
  <2> USE DEF P
  <2> DEFINE h == [s \in D(n + 1) |-> IF s = {} THEN 0 ELSE f[Un(s)] + g[s \ {Un(s)}]]
  <2>1. \A s \in D(n) : h[s] = g[s]
    <3>1. \A s \in D(n) : s \in D(n + 1)
      BY <1>0
    <3>2. QED BY <3>1
  <2>2. \A s \in D(n + 1) : s # {} => s \ {Un(s)} \in D(n)
    BY <1>0, <1>1
  <2>3. P(n + 1, h)
    BY <2>1, <2>2
  <2> HIDE DEF P, h
  <2>4. QED BY <2>3
<1>4. Cardinality(S) \in T
  <2> HIDE DEF T
  <2>1. Nat \subseteq T
    BY <1>2, <1>3, Montee
  <2>2. QED BY <2>1, FS_CardinalityType
<1>5. PICK g : P(Cardinality(S), g)
  BY <1>4
<1>6. D(Cardinality(S)) = SUBSET S
  BY <1>0
<1>7. Cumule(g, S, f)
  BY <1>5, <1>6 DEF Cumule, Corps
<1> HIDE DEF P
<1>8. QED BY <1>7

LEMMA CumulAjoute ==
  ASSUME NEW S, IsFiniteSet(S), NEW f \in [S -> Nat], NEW g, Cumule(g, S, f)
  PROVE  Additif(g, S, f)
<1> DEFINE T == {n \in Nat : \A s \in SUBSET S : Cardinality(s) <= n =>
                   g[s] \in Nat /\ \A x \in s : g[s] = f[x] + g[s \ {x}]}
<1>0. \A s \in SUBSET S : IsFiniteSet(s) /\ Cardinality(s) \in Nat /\ Cardinality(s) <= Cardinality(S)
  BY FS_Subset, FS_CardinalityType
<1>1. \A s \in SUBSET S : \A x \in s : Cardinality(s \ {x}) = Cardinality(s) - 1 /\ s \ {x} \in SUBSET S
  BY <1>0, FS_RemoveElement
<1>2. \A s \in SUBSET S : s # {} => Un(s) \in s /\ g[s] = f[Un(s)] + g[s \ {Un(s)}]
  BY DEF Cumule, Corps, Un
<1>3. g[{}] = 0
  BY DEF Cumule, Corps
<1>4. 0 \in T
  <2> SUFFICES ASSUME NEW s \in SUBSET S, Cardinality(s) <= 0
               PROVE  g[s] \in Nat /\ \A x \in s : g[s] = f[x] + g[s \ {x}]
    OBVIOUS
  <2>1. Cardinality(s) = 0 /\ IsFiniteSet(s)
    BY <1>0
  <2>2. s = {}
    BY <2>1, FS_EmptySet
  <2>3. QED BY <1>3, <2>2
<1>5. \A n \in Nat : n \in T => n + 1 \in T
  <2> SUFFICES ASSUME NEW n \in Nat, n \in T PROVE n + 1 \in T
    OBVIOUS
  <2> SUFFICES ASSUME NEW s \in SUBSET S, Cardinality(s) <= n + 1
               PROVE  g[s] \in Nat /\ \A x \in s : g[s] = f[x] + g[s \ {x}]
    OBVIOUS
  <2>0. \A t \in SUBSET S : Cardinality(t) <= n => g[t] \in Nat /\ \A x \in t : g[t] = f[x] + g[t \ {x}]
    OBVIOUS
  <2> HIDE DEF T
  <2>1. CASE s = {}
    BY <1>3, <2>1
  <2>2. CASE s # {}
    <3>1. PICK y \in s : g[s] = f[y] + g[s \ {y}]
      BY <1>2, <2>2
    <3>2. \A x \in s : s \ {x} \in SUBSET S /\ Cardinality(s \ {x}) <= n
      BY <1>0, <1>1
    <3>3. g[s] \in Nat
      BY <2>0, <3>1, <3>2
    <3>4. ASSUME NEW x \in s PROVE g[s] = f[x] + g[s \ {x}]
      <4>1. CASE x = y
        BY <3>1, <4>1
      <4>2. CASE x # y
        <5>1. g[s \ {y}] = f[x] + g[(s \ {y}) \ {x}]
          BY <2>0, <3>2, <4>2
        <5>2. g[s \ {x}] = f[y] + g[(s \ {x}) \ {y}]
          BY <2>0, <3>2, <4>2
        <5>3. (s \ {y}) \ {x} = (s \ {x}) \ {y}
          OBVIOUS
        <5>4. g[(s \ {x}) \ {y}] \in Nat
          <6>1. (s \ {x}) \ {y} \in SUBSET S /\ Cardinality((s \ {x}) \ {y}) <= n
            <7>1. y \in s \ {x}
              BY <4>2
            <7>2. Cardinality((s \ {x}) \ {y}) = Cardinality(s \ {x}) - 1 /\ s \ {x} \in SUBSET S
              BY <1>1, <7>1
            <7>3. QED BY <1>0, <3>2, <7>2
          <6>2. QED BY <2>0, <6>1
        <5>5. f[x] \in Nat /\ f[y] \in Nat
          OBVIOUS
        <5>6. \A a, b, c \in Nat : a + (b + c) = b + (a + c)
          OBVIOUS
        <5>7. g[s] = f[y] + (f[x] + g[(s \ {x}) \ {y}])
          BY <3>1, <5>1, <5>3
        <5>8. QED BY <5>2, <5>4, <5>5, <5>6, <5>7
      <4>3. QED BY <4>1, <4>2
    <3>5. QED BY <3>3, <3>4
  <2>3. QED BY <2>1, <2>2
<1>6. Cardinality(S) \in T
  <2> HIDE DEF T
  <2>1. Nat \subseteq T
    BY <1>4, <1>5, Montee
  <2>2. QED BY <2>1, FS_CardinalityType
<1>7. \A s \in SUBSET S : g[s] \in Nat /\ \A x \in s : g[s] = f[x] + g[s \ {x}]
  BY <1>0, <1>6
<1>8. g \in [SUBSET S -> Nat]
  <2>1. g = [s \in SUBSET S |-> g[s]]
    BY DEF Cumule, Corps
  <2>2. QED BY <1>7, <2>1
<1>9. QED BY <1>3, <1>7, <1>8 DEF Additif

\* Induction on the subsets of a finite set, on a set: those where something holds.
LEMMA ParElements ==
  ASSUME NEW S, IsFiniteSet(S), NEW Z, {} \in Z,
         \A s \in SUBSET S : \A x \in s : s \ {x} \in Z => s \in Z
  PROVE  SUBSET S \subseteq Z
<1> DEFINE T == {n \in Nat : \A s \in SUBSET S : Cardinality(s) <= n => s \in Z}
<1>0. \A s \in SUBSET S : IsFiniteSet(s) /\ Cardinality(s) \in Nat /\ Cardinality(s) <= Cardinality(S)
  BY FS_Subset, FS_CardinalityType
<1>1. \A s \in SUBSET S : \A x \in s : Cardinality(s \ {x}) = Cardinality(s) - 1 /\ s \ {x} \in SUBSET S
  BY <1>0, FS_RemoveElement
<1>2. 0 \in T
  <2> SUFFICES ASSUME NEW s \in SUBSET S, Cardinality(s) <= 0 PROVE s \in Z
    OBVIOUS
  <2>1. Cardinality(s) = 0 /\ IsFiniteSet(s)
    BY <1>0
  <2>2. s = {}
    BY <2>1, FS_EmptySet
  <2>3. QED BY <2>2
<1>3. \A n \in Nat : n \in T => n + 1 \in T
  <2> SUFFICES ASSUME NEW n \in Nat, n \in T PROVE n + 1 \in T
    OBVIOUS
  <2> SUFFICES ASSUME NEW s \in SUBSET S, Cardinality(s) <= n + 1 PROVE s \in Z
    OBVIOUS
  <2>1. CASE s = {}
    BY <2>1
  <2>2. CASE s # {}
    <3>1. PICK x : x \in s
      BY <2>2
    <3>2. Cardinality(s \ {x}) <= n /\ s \ {x} \in SUBSET S
      BY <1>0, <1>1, <3>1
    <3>3. QED BY <3>1, <3>2
  <2>3. QED BY <2>1, <2>2
<1>4. Cardinality(S) \in T
  <2> HIDE DEF T
  <2>1. Nat \subseteq T
    BY <1>2, <1>3, Montee
  <2>2. QED BY <2>1, FS_CardinalityType
<1>5. QED BY <1>0, <1>4

\* The sum of a disjoint union.
LEMMA CumulUnion ==
  ASSUME NEW S, IsFiniteSet(S), NEW f \in [S -> Nat], NEW g, Cumule(g, S, f),
         NEW s \in SUBSET S, NEW t \in SUBSET S, s \cap t = {}
  PROVE  g[s \cup t] = g[s] + g[t]
<1> DEFINE Z == {u \in SUBSET S : u \cap s = {} => g[s \cup u] = g[s] + g[u]}
<1>1. /\ g \in [SUBSET S -> Nat] /\ g[{}] = 0
      /\ \A u \in SUBSET S : \A x \in u : g[u] = f[x] + g[u \ {x}]
  <2>1. Additif(g, S, f)
    BY CumulAjoute
  <2>2. QED BY <2>1 DEF Additif
<1>2. {} \in Z
  <2>1. s \cup {} = s
    OBVIOUS
  <2>2. QED BY <1>1, <2>1
<1>3. ASSUME NEW u \in SUBSET S, NEW x \in u, u \ {x} \in Z, u \cap s = {}
      PROVE  g[s \cup u] = g[s] + g[u]
  <2>1. g[u] = f[x] + g[u \ {x}] /\ g[s \cup u] = f[x] + g[(s \cup u) \ {x}]
    BY <1>1, <1>3
  <2>2. (s \cup u) \ {x} = s \cup (u \ {x}) /\ u \ {x} \in SUBSET S
    BY <1>3
  <2>3. g[s \cup (u \ {x})] = g[s] + g[u \ {x}]
    BY <1>3
  <2>4. \A a, b, c \in Nat : a + (b + c) = b + (a + c)
    OBVIOUS
  <2>5. f[x] \in Nat /\ g[s] \in Nat /\ g[u \ {x}] \in Nat
    BY <1>1, <2>2
  <2>6. g[s \cup u] = f[x] + (g[s] + g[u \ {x}])
    BY <2>1, <2>2, <2>3
  <2>7. QED BY <2>1, <2>4, <2>5, <2>6
<1>4. \A u \in SUBSET S : \A x \in u : u \ {x} \in Z => u \in Z
  BY <1>3
<1> HIDE DEF Z
<1>5. SUBSET S \subseteq Z
  BY <1>2, <1>4, ParElements
<1> USE DEF Z
<1>6. QED BY <1>5

\* Smaller summands give a smaller sum, or the same one if they are the same.
LEMMA CumulCompare ==
  ASSUME NEW S, IsFiniteSet(S), NEW f \in [S -> Nat], NEW g, Cumule(g, S, f),
         NEW e \in [S -> Nat], NEW h, Cumule(h, S, e),
         \A x \in S : f[x] <= e[x]
  PROVE  \A s \in SUBSET S : g[s] <= h[s] /\ (g[s] = h[s] => \A x \in s : f[x] = e[x])
<1> DEFINE Z == {s \in SUBSET S : g[s] <= h[s] /\ (g[s] = h[s] => \A x \in s : f[x] = e[x])}
<1>1. /\ g \in [SUBSET S -> Nat] /\ g[{}] = 0
      /\ \A u \in SUBSET S : \A x \in u : g[u] = f[x] + g[u \ {x}]
  <2>1. Additif(g, S, f)
    BY CumulAjoute
  <2>2. QED BY <2>1 DEF Additif
<1>2. /\ h \in [SUBSET S -> Nat] /\ h[{}] = 0
      /\ \A u \in SUBSET S : \A x \in u : h[u] = e[x] + h[u \ {x}]
  <2>1. Additif(h, S, e)
    BY CumulAjoute
  <2>2. QED BY <2>1 DEF Additif
<1>3. {} \in Z
  BY <1>1, <1>2
<1>4. ASSUME NEW s \in SUBSET S, NEW x \in s, s \ {x} \in Z PROVE s \in Z
  <2> DEFINE a == f[x]
             b == e[x]
             c == g[s \ {x}]
             d == h[s \ {x}]
  <2>1. a \in Nat /\ b \in Nat /\ c \in Nat /\ d \in Nat /\ a <= b /\ c <= d
    BY <1>1, <1>2, <1>4
  <2>2. g[s] = a + c /\ h[s] = b + d
    BY <1>1, <1>2, <1>4
  <2>3. c = d => \A y \in s \ {x} : f[y] = e[y]
    BY <1>4
  <2> HIDE DEF c, d
  <2>4. g[s] <= h[s] /\ (g[s] = h[s] => a = b /\ c = d)
    BY <2>1, <2>2
  <2>5. QED BY <2>3, <2>4
<1>5. \A s \in SUBSET S : \A x \in s : s \ {x} \in Z => s \in Z
  BY <1>4
<1> HIDE DEF Z
<1>6. SUBSET S \subseteq Z
  BY <1>3, <1>5, ParElements
<1> USE DEF Z
<1>7. QED BY <1>6

\* The sum over a set depends on its summands only.
LEMMA CumulRestreint ==
  ASSUME NEW S, IsFiniteSet(S), NEW f \in [S -> Nat], NEW g, Cumule(g, S, f),
         NEW R \in SUBSET S, NEW e \in [R -> Nat], NEW h, Cumule(h, R, e),
         \A x \in R : f[x] = e[x]
  PROVE  g[R] = h[R]
<1> DEFINE Z == {s \in SUBSET R : g[s] = h[s]}
<1>0. IsFiniteSet(R)
  BY FS_Subset
<1>1. /\ g \in [SUBSET S -> Nat] /\ g[{}] = 0
      /\ \A u \in SUBSET S : \A x \in u : g[u] = f[x] + g[u \ {x}]
  <2>1. Additif(g, S, f)
    BY CumulAjoute
  <2>2. QED BY <2>1 DEF Additif
<1>2. /\ h \in [SUBSET R -> Nat] /\ h[{}] = 0
      /\ \A u \in SUBSET R : \A x \in u : h[u] = e[x] + h[u \ {x}]
  <2>1. Additif(h, R, e)
    BY <1>0, CumulAjoute
  <2>2. QED BY <2>1 DEF Additif
<1>3. {} \in Z
  BY <1>1, <1>2
<1>4. \A s \in SUBSET R : \A x \in s : s \ {x} \in Z => s \in Z
  BY <1>1, <1>2
<1> HIDE DEF Z
<1>5. SUBSET R \subseteq Z
  BY <1>0, <1>3, <1>4, ParElements
<1> USE DEF Z
<1>6. QED BY <1>5

\* The sum of a function is of this kind.
LEMMA SommeFonction ==
  ASSUME NEW S, IsFiniteSet(S), NEW f \in [S -> Nat]
  PROVE  \E g : Cumule(g, S, f) /\ SumFunction(f) = g[S]
<1> DEFINE Eq(g) == [s \in SUBSET S |-> IF s = {} THEN 0 ELSE f[Un(s)] + g[s \ {Un(s)}]]
           it == CHOOSE g : g = Eq(g)
<1>1. PICK g : Cumule(g, S, f)
  BY CumulExiste
<1>2. \A k : Eq(k) = Corps(k, S, f)
  BY DEF Corps
<1>3. g = Eq(g)
  BY <1>1, <1>2 DEF Cumule
<1>4. it = Eq(it)
  BY <1>3
<1>5. DOMAIN f = S
  OBVIOUS
<1>6. SumFunction(f) = it[S]
  BY <1>5 DEF SumFunction, SumFunctionOnSet, FoldFunctionOnSet, MapThenFoldSet, Un
<1> HIDE DEF it, Eq
<1>7. QED BY <1>2, <1>4, <1>6 DEF Cumule

\* One summand changes.
LEMMA SommeChange ==
  ASSUME NEW S, IsFiniteSet(S), NEW f \in [S -> Nat], NEW e \in [S -> Nat], NEW c \in S,
         \A d \in S : d # c => e[d] = f[d]
  PROVE  /\ SumFunction(f) \in Nat /\ SumFunction(e) \in Nat
         /\ SumFunction(e) + f[c] = SumFunction(f) + e[c]
<1>1. PICK g : Cumule(g, S, f) /\ SumFunction(f) = g[S]
  BY SommeFonction
<1>2. PICK h : Cumule(h, S, e) /\ SumFunction(e) = h[S]
  BY SommeFonction
<1> DEFINE R == S \ {c}
           er == [x \in R |-> e[x]]
<1>3. IsFiniteSet(R) /\ R \in SUBSET S /\ er \in [R -> Nat]
  BY FS_Subset
<1>4. PICK i : Cumule(i, R, er)
  BY <1>3, CumulExiste
<1>5. g[R] = i[R]
  <2>1. \A x \in R : f[x] = er[x]
    OBVIOUS
  <2> HIDE DEF R, er
  <2>2. QED BY <1>1, <1>3, <1>4, <2>1, CumulRestreint
<1>6. h[R] = i[R]
  <2>1. \A x \in R : e[x] = er[x]
    OBVIOUS
  <2> HIDE DEF R, er
  <2>2. QED BY <1>2, <1>3, <1>4, <2>1, CumulRestreint
<1>7. /\ g \in [SUBSET S -> Nat] /\ g[S] = f[c] + g[R]
      /\ h \in [SUBSET S -> Nat] /\ h[S] = e[c] + h[R]
  <2>1. Additif(g, S, f) /\ Additif(h, S, e)
    BY <1>1, <1>2, CumulAjoute
  <2>2. S \in SUBSET S
    OBVIOUS
  <2>3. QED BY <2>1, <2>2 DEF Additif
<1>8. f[c] \in Nat /\ e[c] \in Nat /\ g[R] \in Nat /\ h[R] = g[R]
  BY <1>3, <1>5, <1>6, <1>7
<1>9. PICK a \in Nat, b \in Nat, r \in Nat : a = f[c] /\ b = e[c] /\ r = g[R]
  BY <1>8
<1>10. QED BY <1>1, <1>2, <1>7, <1>8, <1>9

\* Every summand is zero.
LEMMA SommeNulle ==
  ASSUME NEW S, IsFiniteSet(S), NEW f \in [S -> Nat], \A d \in S : f[d] = 0
  PROVE  SumFunction(f) = 0
<1>1. PICK g : Cumule(g, S, f) /\ SumFunction(f) = g[S]
  BY SommeFonction
<1>2. Additif(g, S, f)
  BY <1>1, CumulAjoute
<1> DEFINE Z == {s \in SUBSET S : g[s] = 0}
<1>3. {} \in Z
  BY <1>2 DEF Additif
<1>4. \A s \in SUBSET S : \A x \in s : s \ {x} \in Z => s \in Z
  BY <1>2 DEF Additif
<1> HIDE DEF Z
<1>5. SUBSET S \subseteq Z
  BY <1>3, <1>4, ParElements
<1> USE DEF Z
<1>6. QED BY <1>1, <1>5

\* The sums of the model are of this kind.
LEMMA SommeLongueurs ==
  ASSUME NEW S, IsFiniteSet(S), \A b \in S : Longueur(b) \in Nat
  PROVE  \E g : Cumule(g, S, [b \in S |-> Longueur(b)]) /\ MapThenSumSet(Longueur, S) = g[S]
<1> DEFINE f == [b \in S |-> Longueur(b)]
           Eq(g) == [s \in SUBSET S |-> IF s = {} THEN 0 ELSE Longueur(Un(s)) + g[s \ {Un(s)}]]
           it == CHOOSE g : g = Eq(g)
<1>1. f \in [S -> Nat]
  OBVIOUS
<1>2. PICK g : Cumule(g, S, f)
  BY <1>1, CumulExiste
<1>3. \A k : Eq(k) = Corps(k, S, f)
  <2>1. \A s \in SUBSET S : s # {} => f[Un(s)] = Longueur(Un(s))
    BY DEF Un
  <2>2. QED BY <2>1 DEF Corps
<1>4. g = Eq(g)
  BY <1>2, <1>3 DEF Cumule
<1>5. it = Eq(it)
  BY <1>4
<1>6. MapThenSumSet(Longueur, S) = it[S]
  BY DEF MapThenSumSet, MapThenFoldSet, Un
<1> HIDE DEF it, f, Eq
<1>7. Cumule(it, S, f) /\ MapThenSumSet(Longueur, S) = it[S]
  BY <1>3, <1>5, <1>6 DEF Cumule
<1>8. QED BY <1>7 DEF f

LEMMA SommeRecus ==
  ASSUME NEW S, IsFiniteSet(S), \A b \in S : bande[b].recu \in Nat
  PROVE  \E g : Cumule(g, S, [b \in S |-> bande[b].recu]) /\ MapThenSumSet(LAMBDA b : bande[b].recu, S) = g[S]
<1> DEFINE f == [b \in S |-> bande[b].recu]
           Eq(g) == [s \in SUBSET S |-> IF s = {} THEN 0 ELSE bande[Un(s)].recu + g[s \ {Un(s)}]]
           it == CHOOSE g : g = Eq(g)
<1>1. f \in [S -> Nat]
  OBVIOUS
<1>2. PICK g : Cumule(g, S, f)
  BY <1>1, CumulExiste
<1>3. \A k : Eq(k) = Corps(k, S, f)
  <2>1. \A s \in SUBSET S : s # {} => f[Un(s)] = bande[Un(s)].recu
    BY DEF Un
  <2>2. QED BY <2>1 DEF Corps
<1>4. g = Eq(g)
  BY <1>2, <1>3 DEF Cumule
<1>5. it = Eq(it)
  BY <1>4
<1>6. MapThenSumSet(LAMBDA b : bande[b].recu, S) = it[S]
  BY DEF MapThenSumSet, MapThenFoldSet, Un
<1> HIDE DEF it, f, Eq
<1>7. Cumule(it, S, f) /\ MapThenSumSet(LAMBDA b : bande[b].recu, S) = it[S]
  BY <1>3, <1>5, <1>6 DEF Cumule
<1>8. QED BY <1>7 DEF f

-----------------------------------------------------------------------------
(* The bands of a file.                                                    *)

LEMMA Produits ==
  ASSUME NEW t \in Nat \ {0}
  PROVE  \A i, j \in Nat : /\ i * t \in Nat /\ (i + 1) * t = i * t + t
                           /\ i < j => i * t + t <= j * t
<1>1. \A i \in Nat : i * t \in Nat /\ (i + 1) * t = i * t + t
  OBVIOUS
<1>2. ASSUME NEW i \in Nat, NEW j \in Nat, i < j PROVE i * t + t <= j * t
  <2>1. PICK d \in Nat : j = i + 1 + d
    <3>1. j - i - 1 \in Nat /\ j = i + 1 + (j - i - 1)
      BY <1>2
    <3>2. QED BY <3>1
  <2>2. j * t = i * t + t + d * t /\ d * t \in Nat
    BY <2>1
  <2>3. QED BY <1>1, <2>2
<1>3. QED BY <1>1, <1>2

\* The bands are cut every t bytes, and n of them reach the end.
Coupe(total, n, t) ==
  /\ n \in Nat \ {0} /\ t \in Nat \ {0} /\ total <= n * t
  /\ Bandes(total) = {b \in {<<i * t, AuPlus((i + 1) * t, total)>> : i \in 0 .. n - 1} : b[1] < b[2]}

LEMMA BandesCoupees ==
  ASSUME NEW total \in Nat \ {0}
  PROVE  \E n, t : Coupe(total, n, t)
<1> DEFINE n == AuMoins(1, AuPlus(total \div CHUNK, BANDES_MAX))
           t == Plafond(total, n)
<1>1. n \in Nat \ {0}
  <2>1. total \div CHUNK \in Nat
    BY TelechargementAssumption
  <2>2. QED BY <2>1, TelechargementAssumption DEF AuMoins, AuPlus
<1>2. t \in Nat \ {0} /\ total <= n * t
  <2> HIDE DEF n
  <2>1. \A a \in Nat, q \in Nat \ {0} : LET d == a \div q IN d \in Nat /\ a < q * d + q
    OBVIOUS
  <2>2. t \in Nat /\ total + n - 1 < n * t + n
    BY <1>1, <2>1 DEF Plafond
  <2>3. n * t \in Nat
    BY <1>1, <2>2
  <2>4. total <= n * t
    BY <1>1, <2>2, <2>3
  <2>5. t # 0
    BY <1>1, <2>4
  <2>6. QED BY <2>2, <2>4, <2>5
<1>3. Bandes(total) = {b \in {<<i * t, AuPlus((i + 1) * t, total)>> : i \in 0 .. n - 1} : b[1] < b[2]}
  BY DEF Bandes
<1> HIDE DEF n, t
<1>4. QED BY ZenonT(60), <1>1, <1>2, <1>3 DEF Coupe

\* A band of a file: it is not empty, and its ends are in the file.
LEMMA BandesTypees ==
  ASSUME NEW total \in Nat \ {0}, NEW b \in Bandes(total)
  PROVE  /\ b \in (0 .. total) \X (0 .. total) /\ b[1] \in Nat /\ b[2] \in Nat /\ b[1] < b[2] /\ b[2] <= total
         /\ Longueur(b) \in Nat \ {0} /\ b = <<b[1], b[2]>>
<1>1. PICK n, t : Coupe(total, n, t)
  BY BandesCoupees
<1>2. PICK i \in 0 .. n - 1 : b = <<i * t, AuPlus((i + 1) * t, total)>> /\ b[1] < b[2]
  BY <1>1 DEF Coupe
<1>3. i * t \in Nat /\ (i + 1) * t \in Nat
  BY <1>1, <1>2, Produits DEF Coupe
<1>4. AuPlus((i + 1) * t, total) \in Nat /\ AuPlus((i + 1) * t, total) <= total
  BY <1>3 DEF AuPlus
<1>5. QED BY <1>2, <1>3, <1>4 DEF Longueur

LEMMA BandesFinies ==
  ASSUME NEW total \in Nat \ {0}
  PROVE  IsFiniteSet(Bandes(total))
<1>1. IsFiniteSet(0 .. total)
  BY FS_Interval
<1>2. IsFiniteSet((0 .. total) \X (0 .. total))
  BY <1>1, FS_Product
<1>3. Bandes(total) \subseteq (0 .. total) \X (0 .. total)
  BY BandesTypees
<1>4. QED BY <1>2, <1>3, FS_Subset

\* Every byte of the file is in a band.
LEMMA BandesCouvrent ==
  ASSUME NEW total \in Nat \ {0}, NEW k \in 1 .. total
  PROVE  \E b \in Bandes(total) : k \in b[1] + 1 .. b[2]
<1>1. PICK n, t : Coupe(total, n, t)
  BY BandesCoupees
<1> DEFINE i == (k - 1) \div t
<1>2. i \in Nat /\ i * t <= k - 1 /\ k - 1 < i * t + t
  <2>1. \A a \in Nat, q \in Nat \ {0} : LET d == a \div q IN d \in Nat /\ d * q <= a /\ a < d * q + q
    OBVIOUS
  <2>2. k - 1 \in Nat /\ t \in Nat \ {0}
    BY <1>1 DEF Coupe
  <2>3. QED BY <2>1, <2>2
<1> HIDE DEF i
<1>3. /\ i * t \in Nat /\ (i + 1) * t = i * t + t
      /\ \A j \in Nat : j < i => j * t + t <= i * t
      /\ \A j \in Nat : i < j => i * t + t <= j * t
  BY <1>1, <1>2, Produits DEF Coupe
<1>4. i \in 0 .. n - 1
  <2> SUFFICES ASSUME ~(i < n) PROVE FALSE
    BY <1>1, <1>2 DEF Coupe
  <2>1. n * t <= i * t
    <3>1. CASE n = i
      BY <1>3, <3>1
    <3>2. CASE n < i
      <4>1. n * t + t <= i * t /\ n * t \in Nat /\ t \in Nat
        BY <1>1, <1>3, <3>2, Produits DEF Coupe
      <4>2. QED BY <1>3, <4>1
    <3>3. QED BY <1>1, <1>2, <3>1, <3>2 DEF Coupe
  <2>2. total <= n * t /\ n * t \in Nat
    BY <1>1, Produits DEF Coupe
  <2>3. QED BY <1>2, <1>3, <2>1, <2>2
<1> DEFINE b == <<i * t, AuPlus((i + 1) * t, total)>>
<1>5. b[1] < b[2] /\ k \in b[1] + 1 .. b[2]
  <2>1. t \in Nat \ {0} /\ k \in Nat
    BY <1>1 DEF Coupe
  <2>2. \A d \in Nat, e \in Nat : /\ e = d + t /\ d <= k - 1 /\ k - 1 < d + t
                                 => d < AuPlus(e, total) /\ k \in d + 1 .. AuPlus(e, total)
    BY <2>1 DEF AuPlus
  <2>3. (i + 1) * t \in Nat
    BY <1>3, <2>1
  <2>4. i * t < AuPlus((i + 1) * t, total) /\ k \in i * t + 1 .. AuPlus((i + 1) * t, total)
    BY <1>2, <1>3, <2>2, <2>3
  <2>5. QED BY <2>4
<1>6. b \in Bandes(total)
  BY <1>1, <1>4, <1>5 DEF Coupe
<1>7. QED BY <1>5, <1>6

\* The lengths of the bands add up to the file.
LEMMA BandesTotal ==
  ASSUME NEW total \in Nat \ {0}, NEW g,
         Cumule(g, Bandes(total), [b \in Bandes(total) |-> Longueur(b)])
  PROVE  g[Bandes(total)] = total
<1> DEFINE B == Bandes(total)
           f == [b \in B |-> Longueur(b)]
<1>0. PICK n, t : Coupe(total, n, t)
  BY BandesCoupees
<1>a. n \in Nat \ {0} /\ t \in Nat \ {0} /\ total <= n * t
      /\ B = {b \in {<<i * t, AuPlus((i + 1) * t, total)>> : i \in 0 .. n - 1} : b[1] < b[2]}
  BY <1>0 DEF Coupe
<1>b. \A b \in B : b[1] \in Nat /\ b[2] \in Nat /\ b[1] < b[2] /\ b[2] <= total /\ f[b] = b[2] - b[1]
  BY BandesTypees DEF Longueur
<1>c. g[{}] = 0 /\ \A s \in SUBSET B : \A x \in s : g[s] = f[x] + g[s \ {x}]
  <2>1. IsFiniteSet(B) /\ f \in [B -> Nat]
    BY BandesFinies, BandesTypees
  <2> HIDE DEF B, f
  <2>2. Cumule(g, B, f)
    BY DEF B, f
  <2>3. Additif(g, B, f)
    BY <2>1, <2>2, CumulAjoute
  <2>4. QED BY <2>3 DEF Additif
<1>d. \A i, j \in Nat : i * t \in Nat /\ (i + 1) * t = i * t + t /\ (i < j => i * t + t <= j * t)
  BY <1>a, Produits
<1>e. \A b \in B : \E i \in Nat : i < n /\ b = <<i * t, AuPlus((i + 1) * t, total)>>
  <2> SUFFICES ASSUME NEW b \in B PROVE \E i \in Nat : i < n /\ b = <<i * t, AuPlus((i + 1) * t, total)>>
    OBVIOUS
  <2>1. PICK i \in 0 .. n - 1 : b = <<i * t, AuPlus((i + 1) * t, total)>>
    BY <1>a
  <2>2. i \in Nat /\ i < n
    BY <1>a
  <2>3. QED BY <2>1, <2>2
<1>f. \A i \in Nat : i < n /\ i * t < AuPlus((i + 1) * t, total) => <<i * t, AuPlus((i + 1) * t, total)>> \in B
  <2> SUFFICES ASSUME NEW i \in Nat, i < n, i * t < AuPlus((i + 1) * t, total)
               PROVE  <<i * t, AuPlus((i + 1) * t, total)>> \in B
    OBVIOUS
  <2>1. i \in 0 .. n - 1
    BY <1>a
  <2>2. QED BY <1>a, <2>1
<1> HIDE DEF B, f
<1> DEFINE P(j) == {b \in B : b[1] < j * t}
           T == {j \in Nat : j <= n => g[P(j)] = AuPlus(j * t, total)}
<1>1. 0 \in T
  <2>1. 0 * t = 0
    BY <1>a
  <2>2. P(0) = {}
    BY <1>b, <2>1
  <2>3. AuPlus(0, total) = 0
    BY DEF AuPlus
  <2>4. QED BY <1>c, <2>1, <2>2, <2>3
<1>2. ASSUME NEW j \in Nat, j + 1 <= n, g[P(j)] = AuPlus(j * t, total)
      PROVE  g[P(j + 1)] = AuPlus((j + 1) * t, total)
  <2> DEFINE d == j * t
             e == (j + 1) * t
  <2>1. d \in Nat /\ e = d + t /\ e \in Nat /\ t \in Nat \ {0}
    BY <1>a, <1>d
  <2>2. CASE total <= d
    <3>1. P(j + 1) = P(j)
      <4>1. \A b \in B : b[1] < d /\ b[1] < e
        BY <1>b, <2>1, <2>2
      <4>2. QED BY <4>1
    <3>2. AuPlus(d, total) = total /\ AuPlus(e, total) = total
      BY <2>1, <2>2 DEF AuPlus
    <3>3. QED BY <1>2, <3>1, <3>2
  <2>3. CASE d < total
    <3> DEFINE u == AuPlus(e, total)
               x == <<d, u>>
    <3>1. u \in Nat /\ d < u
      BY <2>1, <2>3 DEF AuPlus
    <3>2. x \in B
      BY <1>2, <1>a, <1>f, <3>1
    <3>3. P(j + 1) \ {x} = P(j)
      <4>1. x \notin P(j)
        BY <2>1
      <4>2. P(j) \subseteq P(j + 1)
        BY <1>b, <2>1
      <4>3. ASSUME NEW b \in B, b[1] < e, ~(b[1] < d) PROVE b = x
        <5>1. PICK i \in Nat : i < n /\ b = <<i * t, AuPlus((i + 1) * t, total)>>
          BY <1>e
        <5>2. i * t < e /\ ~(i * t < d) /\ i * t \in Nat
          BY <1>d, <4>3, <5>1
        <5>3. i < j => i * t + t <= d
          BY <1>d
        <5>4. j < i => e <= i * t
          BY <1>d, <2>1
        <5>5. i = j
          BY <2>1, <5>2, <5>3, <5>4
        <5>6. QED BY <5>1, <5>5
      <4> HIDE DEF x
      <4>4. QED BY <4>1, <4>2, <4>3
    <3>4. x \in P(j + 1)
      BY <2>1, <3>2
    <3>5. g[P(j + 1)] = f[x] + g[P(j)]
      <4> HIDE DEF x
      <4>1. QED BY <1>c, <3>3, <3>4
    <3>6. f[x] = u - d
      BY <1>b, <3>2
    <3>7. g[P(j)] = d
      BY <1>2, <2>1, <2>3 DEF AuPlus
    <3> HIDE DEF P, x
    <3>8. QED BY <2>1, <3>1, <3>5, <3>6, <3>7
  <2>4. QED BY <2>1, <2>2, <2>3
<1>3. \A j \in Nat : j \in T => j + 1 \in T
  <2> HIDE DEF P
  <2> SUFFICES ASSUME NEW j \in Nat, j \in T PROVE j + 1 \in T
    OBVIOUS
  <2>1. j <= n => g[P(j)] = AuPlus(j * t, total)
    OBVIOUS
  <2>2. j + 1 <= n => j <= n
    BY <1>a
  <2>3. j + 1 <= n => g[P(j + 1)] = AuPlus((j + 1) * t, total)
    BY <1>2, <2>1, <2>2
  <2>4. QED BY <2>3
<1>4. n \in T
  <2> HIDE DEF T
  <2>1. Nat \subseteq T
    BY <1>1, <1>3, Montee
  <2>2. QED BY <1>a, <2>1
<1>5. P(n) = B
  <2>1. n * t \in Nat
    BY <1>a, <1>d
  <2>2. \A b \in B : b[1] < n * t
    BY <1>a, <1>b, <2>1
  <2>3. QED BY <2>2
<1>6. AuPlus(n * t, total) = total
  <2>1. n * t \in Nat
    BY <1>a, <1>d
  <2>2. QED BY <1>a, <2>1 DEF AuPlus
<1>7. g[P(n)] = AuPlus(n * t, total)
  <2> HIDE DEF P
  <2>1. QED BY <1>a, <1>4
<1>8. QED BY <1>5, <1>6, <1>7 DEF B

\* Where the bands a run did not ask for and what it received of the others add up to
\* the file, every band it asked for is complete.
LEMMA CompteRond ==
  ASSUME NEW total \in Nat \ {0}, DOMAIN bande \subseteq Bandes(total),
         \A b \in DOMAIN bande : bande[b].recu \in Nat /\ bande[b].recu <= Longueur(b),
         deja = MapThenSumSet(Longueur, Bandes(total) \ DOMAIN bande),
         Fait = total
  PROVE  \A b \in DOMAIN bande : bande[b].recu = Longueur(b)
<1> DEFINE B == Bandes(total)
           D == DOMAIN bande
           L == [b \in B |-> Longueur(b)]
           R == [b \in B |-> IF b \in D THEN bande[b].recu ELSE Longueur(b)]
           Ld == [b \in B \ D |-> Longueur(b)]
           Rd == [b \in D |-> bande[b].recu]
<1>1. IsFiniteSet(B) /\ IsFiniteSet(D) /\ IsFiniteSet(B \ D)
  BY BandesFinies, FS_Subset
<1>2. /\ L \in [B -> Nat] /\ R \in [B -> Nat] /\ Ld \in [B \ D -> Nat] /\ Rd \in [D -> Nat]
      /\ \A b \in B : R[b] <= L[b] /\ Longueur(b) \in Nat
  BY BandesTypees
<1>3. PICK gd : Cumule(gd, B \ D, Ld) /\ deja = gd[B \ D]
  <2>1. \A b \in B \ D : Longueur(b) \in Nat
    BY <1>2
  <2> HIDE DEF B, D
  <2>2. QED BY <1>1, <2>1, SommeLongueurs DEF B, D
<1>4. PICK gr : Cumule(gr, D, Rd) /\ MapThenSumSet(LAMBDA b : bande[b].recu, D) = gr[D]
  BY <1>1, SommeRecus
<1>5. PICK gl : Cumule(gl, B, L)
  <2> HIDE DEF B, L
  <2>1. QED BY <1>1, <1>2, CumulExiste
<1>6. PICK g : Cumule(g, B, R)
  <2> HIDE DEF B, R
  <2>1. QED BY <1>1, <1>2, CumulExiste
<1>7. gl[B] = total
  BY <1>5, BandesTotal
<1>8. g[B \ D] = gd[B \ D] /\ g[D] = gr[D]
  <2>1. (\A b \in B \ D : R[b] = Ld[b]) /\ \A b \in D : R[b] = Rd[b]
    OBVIOUS
  <2>2. B \ D \in SUBSET B /\ D \in SUBSET B
    OBVIOUS
  <2> HIDE DEF B, D, R, Ld, Rd
  <2>3. g[B \ D] = gd[B \ D]
    BY <1>1, <1>2, <1>3, <1>6, <2>1, <2>2, CumulRestreint
  <2>4. g[D] = gr[D]
    BY <1>1, <1>2, <1>4, <1>6, <2>1, <2>2, CumulRestreint
  <2>5. QED BY <2>3, <2>4
<1>9. g[B] = g[B \ D] + g[D]
  <2>1. B \ D \in SUBSET B /\ D \in SUBSET B /\ (B \ D) \cap D = {} /\ (B \ D) \cup D = B
    OBVIOUS
  <2> DEFINE E == B \ D
  <2>2. E \in SUBSET B /\ D \in SUBSET B /\ E \cap D = {} /\ E \cup D = B
    BY <2>1
  <2> HIDE DEF B, D, E, R
  <2>3. g[E \cup D] = g[E] + g[D]
    BY SMTT(60), <1>1, <1>2, <1>6, <2>2, CumulUnion
  <2>4. QED BY <2>2, <2>3 DEF E
<1>10. g[B] = total
  BY <1>3, <1>4, <1>8, <1>9 DEF Fait
<1>11. \A b \in B : R[b] = L[b]
  <2> HIDE DEF B, D, R, L
  <2>1. \A s \in SUBSET B : g[s] <= gl[s] /\ (g[s] = gl[s] => \A x \in s : R[x] = L[x])
    BY <1>1, <1>2, <1>5, <1>6, CumulCompare
  <2>2. QED BY <1>7, <1>10, <2>1
<1>12. QED BY <1>11

-----------------------------------------------------------------------------
(* The inductive invariant.                                                *)

Octets == Versions \cup {Trou}

\* A byte that may be kept: never a hole, and that of the remote file if it did not
\* change.
Bon(x) == x # Trou /\ (intact => x = distant.version)

\* The bytes from d + 1 to n are there, and good.
Rempli(f, d, n) == \A k \in Nat : k > d /\ k <= n => k <= Len(f) /\ Bon(f[k])

\* The bytes of the band are those of the remote file as it is.
Tenue(f, b) == \A k \in Nat : k > b[1] /\ k <= b[2] => k <= Len(f) /\ f[k] = distant.version

\* The run knows the remote file it was launched on.
Lancee ==
  /\ etape = "repos" => reprise = Aucune /\ bande = << >>
  /\ etape # "repos" =>
       /\ cache # Rien /\ reprise.taille \in Tailles /\ reprise.mtime \in Versions
       /\ intact => reprise.mtime = distant.version /\ reprise.taille = distant.taille
       /\ ~intact => reprise.mtime < distant.version
  /\ etape = "bandes" => EnBandes(reprise.taille)

\* A card is that of a version there has been, read in bands.
Datee ==
  carte # Rien =>
    /\ carte.mtime <= distant.version
    /\ carte.mtime = distant.version => carte.taille = distant.taille
    /\ EnBandes(carte.taille)
    /\ carte.faites \subseteq Bandes(carte.taille)
    /\ etape # "repos" => carte.mtime <= reprise.mtime
    /\ etape \in {"suite", "complet"} => carte.mtime < reprise.mtime

\* The bands asked for, those that are not, and where each stands.
Decoupee ==
  etape = "bandes" =>
    /\ reprise.faites \subseteq Bandes(reprise.taille)
    /\ Bandes(reprise.taille) \ DOMAIN bande \subseteq reprise.faites
    /\ deja = MapThenSumSet(Longueur, Bandes(reprise.taille) \ DOMAIN bande)
    /\ \A b \in DOMAIN bande :
         /\ bande[b].recu <= Longueur(b)
         /\ bande[b].etat \in {"finie", "notee"} => bande[b].recu = Longueur(b)
         /\ bande[b].etat = "courte" => bande[b].recu < Longueur(b)

\* What was received is in the work file.
Recue ==
  etape = "bandes" /\ suppressions = 0 =>
    /\ Len(cache) <= reprise.taille
    /\ \A b \in reprise.faites : Rempli(cache, b[1], b[2])
    /\ \A b \in DOMAIN bande : Rempli(cache, b[1], b[1] + bande[b].recu)

\* What is noted or about to be is on the disk, if the remote file did not change; and
\* the disk then holds no more than the file.
Synchronisee ==
  etape = "bandes" /\ suppressions = 0 /\ intact =>
    /\ \A b \in reprise.faites : Rempli(disque, b[1], b[2]) /\ Len(disque) <= reprise.taille
    /\ \A b \in DOMAIN bande : bande[b].etat = "finie" =>
         Rempli(disque, b[1], b[2]) /\ Len(disque) <= reprise.taille

\* A small file grows from its start.
Suivie ==
  etape = "suite" /\ suppressions = 0 =>
    Rempli(cache, 0, Len(cache)) /\ (intact => Len(cache) <= distant.taille)

\* What a card says of the remote file as it is, is in the work file and on the disk.
Promise ==
  carte # Rien /\ carte.mtime = distant.version /\ suppressions = 0 =>
    /\ cache # Rien /\ Len(cache) <= distant.taille /\ Len(disque) <= distant.taille
    /\ \A b \in carte.faites : Tenue(cache, b) /\ Tenue(disque, b)

\* A run takes up all of the card of its file.
Gardee ==
  etape = "bandes" /\ carte # Rien /\ carte.mtime = reprise.mtime /\ suppressions = 0 =>
    carte.faites \subseteq reprise.faites

\* A file about to be promoted is whole.
Entiere ==
  etape = "complet" /\ suppressions = 0 =>
    /\ Rempli(cache, 0, Len(cache)) /\ Len(cache) >= reprise.taille
    /\ intact => Len(cache) <= distant.taille

Fonds == TypeOK /\ Lancee /\ Datee /\ Decoupee
Octes == Recue /\ Synchronisee /\ Suivie /\ Promise /\ Gardee /\ Entiere
IInv == Fonds /\ Octes

-----------------------------------------------------------------------------
(* Files.                                                                  *)

LEMMA EstSuite ==
  ASSUME NEW S, NEW n \in Nat, NEW f \in [1 .. n -> S]
  PROVE  f \in Seq(S) /\ Len(f) = n
OBVIOUS

LEMMA Existant ==
  ASSUME NEW f \in Seq(Octets)
  PROVE  f # Rien /\ f \in Fichiers /\ Len(f) \in Nat /\ \A k \in 1 .. Len(f) : f[k] \in Octets
<1>1. Octets \subseteq Nat
  BY TelechargementAssumption DEF Octets, Versions, Trou
<1>2. f \in [1 .. Len(f) -> Octets] /\ Len(f) \in Nat
  OBVIOUS
<1>3. f \in [1 .. Len(f) -> Nat]
  BY <1>1, <1>2
<1>4. f \in Seq(Nat)
  BY <1>2, <1>3, EstSuite
<1>5. QED BY <1>2, <1>4, TelechargementAssumption DEF Fichiers, Octets

\* What a write leaves in the file.
Change(g, f, d, n, x) ==
  /\ g \in Seq(Octets) /\ Len(g) = AuMoins(Len(f), d + n)
  /\ Len(f) <= Len(g) /\ d + n <= Len(g) /\ (Len(g) = Len(f) \/ Len(g) = d + n)
  /\ \A k \in 1 .. Len(g) : k > d /\ k <= d + n => g[k] = x
  /\ \A k \in 1 .. Len(f) : ~(k > d /\ k <= d + n) => g[k] = f[k]

LEMMA EcrireEffet ==
  ASSUME NEW f \in Seq(Octets), NEW d \in Nat, NEW n \in Nat, NEW x \in Octets
  PROVE  Change(Ecrire(f, d, n, x), f, d, n, x)
<1> DEFINE m == AuMoins(Len(f), d + n)
           e(k) == IF k \in d + 1 .. d + n THEN x ELSE IF k <= Len(f) THEN f[k] ELSE Trou
           g == [k \in 1 .. m |-> e(k)]
<1>0. Len(f) \in Nat
  OBVIOUS
<1>1. m \in Nat /\ Len(f) <= m /\ d + n <= m /\ (m = Len(f) \/ m = d + n)
  BY <1>0 DEF AuMoins
<1>2. \A k \in 1 .. m : e(k) \in Octets
  BY <1>0, Existant DEF Octets
<1>3. g \in [1 .. m -> Octets]
  BY <1>2
<1>4. g = Ecrire(f, d, n, x)
  BY DEF Ecrire
<1>5. \A k \in 1 .. m : (k > d /\ k <= d + n => g[k] = x) /\ (k <= Len(f) /\ ~(k > d /\ k <= d + n) => g[k] = f[k])
  BY <1>0
<1> HIDE DEF g, m
<1>6. g \in Seq(Octets) /\ Len(g) = m
  BY <1>1, <1>3, EstSuite
<1>7. QED BY <1>0, <1>1, <1>4, <1>5, <1>6 DEF m, Change

LEMMA Constantes ==
  /\ Octets \subseteq Nat /\ 0 \in Octets /\ Versions \subseteq Nat \ {0} /\ Versions \subseteq Octets
  /\ Aucune \in Cartes /\ Aucune # Rien /\ \A c \in Cartes : c # Rien
BY TelechargementAssumption DEF Octets, Versions, Trou, Aucune, Cartes

\* The types, read one by one.
LEMMA Types ==
  ASSUME TypeOK
  PROVE  /\ distant.version \in Versions /\ distant.version \in Nat \ {0}
         /\ distant.taille \in Tailles /\ distant.taille \in Nat \ {0}
         /\ cache # Rien => /\ cache \in Seq(Octets) /\ disque \in Seq(Octets)
                            /\ Len(cache) \in Nat /\ Len(disque) \in Nat
         /\ cache = Rien => disque = Rien
         /\ carte # Rien => /\ carte \in Cartes /\ carte.taille \in Nat /\ carte.mtime \in Nat
                            /\ carte.faites \subseteq Nat \X Nat
         /\ reprise.taille \in Nat /\ reprise.mtime \in Nat /\ reprise.faites \subseteq Nat \X Nat
         /\ reprise # Rien
         /\ \A b \in DOMAIN bande : bande[b].recu \in Nat /\ bande[b].etat \in EtatsBande
         /\ suppressions \in Nat
<1>1. distant.version \in Versions /\ distant.taille \in Tailles
  BY DEF TypeOK
<1>2. distant.version \in Nat \ {0} /\ distant.taille \in Nat \ {0}
  BY <1>1, Constantes, TelechargementAssumption
<1>3. ASSUME cache # Rien PROVE cache \in Seq(Octets) /\ disque \in Seq(Octets)
  BY <1>3 DEF TypeOK, Fichiers, Octets
<1>4. cache = Rien => disque = Rien
  BY DEF TypeOK
<1>5. /\ carte # Rien => /\ carte \in Cartes /\ carte.taille \in Nat /\ carte.mtime \in Nat
                         /\ carte.faites \subseteq Nat \X Nat
      /\ reprise.taille \in Nat /\ reprise.mtime \in Nat /\ reprise.faites \subseteq Nat \X Nat
      /\ reprise # Rien
  BY Constantes DEF TypeOK, Cartes
<1>6. \A b \in DOMAIN bande : bande[b].recu \in Nat /\ bande[b].etat \in EtatsBande
  BY DEF TypeOK
<1>7. suppressions \in Nat
  BY TelechargementAssumption DEF TypeOK
<1>8. QED BY <1>1, <1>2, <1>3, <1>4, <1>5, <1>6, <1>7

\* The run is over: what is left to show is what the card promises.
LEMMA Fini ==
  ASSUME Fonds, Finir, carte' = carte, cache' \in Fichiers, disque' \in Fichiers,
         (cache' = Rien) = (disque' = Rien)
  PROVE  Fonds' /\ Recue' /\ Synchronisee' /\ Suivie' /\ Gardee' /\ Entiere'
<1> USE DEF Fonds, Finir, compteurs
<1>1. TypeOK'
  <2>1. reprise' \in Cartes /\ carte' \in Cartes \cup {Rien}
    BY Constantes DEF TypeOK
  <2>2. DOMAIN bande' = {} /\ bande' \in [DOMAIN bande' -> [recu : Nat, etat : EtatsBande]]
    OBVIOUS
  <2>3. DOMAIN bande' \subseteq Bandes(reprise'.taille)
    BY <2>2
  <2>4. /\ distant' \in [version : Versions, taille : Tailles] /\ intact' \in BOOLEAN
        /\ lancements' \in 0 .. MaxLancements /\ suppressions' \in 0 .. MaxSuppressions
        /\ etape' = "repos" /\ deja' \in Nat
    BY DEF TypeOK
  <2>5. QED BY <2>1, <2>2, <2>3, <2>4 DEF TypeOK
<1>2. Lancee' /\ Datee' /\ Decoupee'
  BY DEF Lancee, Datee, Decoupee
<1>3. Recue' /\ Synchronisee' /\ Suivie' /\ Gardee' /\ Entiere'
  BY DEF Recue, Synchronisee, Suivie, Gardee, Entiere
<1>4. QED BY <1>1, <1>2, <1>3

\* Whatever makes no file of the disk move keeps its promise.
LEMMA PromisePareille ==
  ASSUME Promise, UNCHANGED <<distant, cache, disque, suppressions>>, carte' = carte \/ carte' = Rien
  PROVE  Promise'
BY DEF Promise, Tenue

-----------------------------------------------------------------------------
(* One lemma per action.                                                   *)

LEMMA ModifierPas ==
  ASSUME IInv, NEW t \in Tailles, Modifier(t)
  PROVE  IInv'
<1> USE DEF Modifier, partVars, runVars, compteurs
<1>0. TypeOK /\ Lancee /\ Datee /\ Decoupee /\ Octes
  BY DEF IInv, Fonds
<1>1. distant'.version = distant.version + 1 /\ distant'.taille = t /\ distant'.version \in Versions
  BY <1>0, TelechargementAssumption DEF TypeOK, Versions
<1>2. TypeOK'
  BY <1>0, <1>1 DEF TypeOK
<1>3. Lancee' /\ Datee' /\ Decoupee'
  <2>1. Lancee'
    BY <1>0, <1>1, Types DEF Lancee
  <2>2. Datee'
    BY <1>0, <1>1, Types DEF Datee
  <2>3. Decoupee'
    BY <1>0 DEF Decoupee
  <2>4. QED BY <2>1, <2>2, <2>3
<1>4. \A x : Bon(x) => Bon(x)'
  BY DEF Bon
<1>5. \A f, d, n : Rempli(f, d, n) => Rempli(f, d, n)'
  BY <1>4 DEF Rempli
<1>6. Recue' /\ Synchronisee' /\ Suivie' /\ Entiere' /\ Gardee'
  <2>1. Recue'
    BY <1>0, <1>5 DEF Octes, Recue
  <2>2. Synchronisee'
    BY DEF Synchronisee
  <2>3. Suivie' /\ Entiere'
    BY <1>0, <1>5 DEF Octes, Suivie, Entiere
  <2>4. Gardee'
    BY <1>0 DEF Octes, Gardee
  <2>5. QED BY <2>1, <2>2, <2>3, <2>4
<1>7. Promise'
  BY <1>0, <1>1, Types DEF Datee, Promise
<1>8. QED BY <1>2, <1>3, <1>6, <1>7 DEF IInv, Fonds, Octes

LEMMA SupprimerPas ==
  ASSUME IInv, Supprimer
  PROVE  IInv'
<1> USE DEF Supprimer, partVars, runVars
<1>0. TypeOK /\ Lancee /\ Datee /\ Decoupee /\ suppressions \in Nat
  BY Types DEF IInv, Fonds
<1>1. suppressions' # 0
  BY <1>0
<1>2. TypeOK'
  BY <1>0, TelechargementAssumption DEF TypeOK, Fichiers
<1>3. Lancee' /\ Datee' /\ Decoupee'
  BY <1>0 DEF Lancee, Datee, Decoupee
<1>4. Octes'
  BY <1>1 DEF Octes, Recue, Synchronisee, Suivie, Promise, Gardee, Entiere
<1>5. QED BY <1>2, <1>3, <1>4 DEF IInv, Fonds

LEMMA TuerPas ==
  ASSUME IInv, Tuer
  PROVE  IInv'
<1> USE DEF Tuer, partVars
<1>1. Fonds /\ Promise /\ TypeOK
  BY DEF IInv, Octes, Fonds
<1>2. Fonds' /\ Recue' /\ Synchronisee' /\ Suivie' /\ Gardee' /\ Entiere'
  BY <1>1, Fini DEF TypeOK
<1>3. Promise'
  BY <1>1, PromisePareille DEF Finir, compteurs
<1>4. QED BY <1>2, <1>3 DEF IInv, Octes

LEMMA AbandonnerPas ==
  ASSUME IInv, Abandonner
  PROVE  IInv'
<1> USE DEF Abandonner, partVars
<1>1. Fonds /\ Promise /\ TypeOK
  BY DEF IInv, Octes, Fonds
<1>2. Fonds' /\ Recue' /\ Synchronisee' /\ Suivie' /\ Gardee' /\ Entiere'
  BY <1>1, Fini DEF TypeOK
<1>3. Promise'
  BY <1>1, PromisePareille DEF Finir, compteurs
<1>4. QED BY <1>2, <1>3 DEF IInv, Octes

\* The work file leaves, and no card of the file as it is stays behind.
LEMMA PartiPas ==
  ASSUME IInv, Promouvoir \/ ArreterSuite
  PROVE  IInv'
<1> USE DEF Promouvoir, ArreterSuite
<1>1. Fonds /\ Datee /\ Lancee /\ TypeOK
  BY DEF IInv, Fonds
<1>2. Fonds' /\ Recue' /\ Synchronisee' /\ Suivie' /\ Gardee' /\ Entiere'
  BY <1>1, Fini DEF Fichiers
<1>3. carte # Rien => carte.mtime < distant.version
  BY <1>1, Types DEF Datee, Lancee
<1>4. Promise'
  BY <1>1, <1>3, Types DEF Promise, Finir
<1>5. QED BY <1>2, <1>4 DEF IInv, Octes

\* The card only promises what both the system and the disk hold, so any part of
\* either will do.
LEMMA CouperPas ==
  ASSUME IInv, Couper
  PROVE  IInv'
<1>1. Fonds /\ TypeOK /\ Promise /\ cache # disque /\ Finir /\ carte' = carte
  BY DEF IInv, Fonds, Octes, Couper
<1>2. cache # Rien /\ cache \in Seq(Octets) /\ disque \in Seq(Octets)
  BY <1>1, Types
<1>3. PICK n \in {Len(cache), Len(disque)} : \E S \in SUBSET (1 .. n) :
        cache' = [k \in 1 .. n |-> IF k \in S /\ k <= Len(cache) THEN cache[k]
                                   ELSE IF k <= Len(disque) THEN disque[k] ELSE Trou]
        /\ disque' = cache'
  BY DEF Couper
<1>c. PICK S \in SUBSET (1 .. n) :
        cache' = [k \in 1 .. n |-> IF k \in S /\ k <= Len(cache) THEN cache[k]
                                   ELSE IF k <= Len(disque) THEN disque[k] ELSE Trou]
        /\ disque' = cache'
  BY <1>3
<1>4. n \in Nat /\ Len(cache) \in Nat /\ Len(disque) \in Nat
  BY <1>2
<1>5. \A k \in 1 .. n : /\ cache'[k] \in Octets
                        /\ k <= Len(cache) /\ k <= Len(disque) => cache'[k] \in {cache[k], disque[k]}
  BY <1>2, <1>c, <1>4, Existant, Constantes DEF Trou
<1>6. cache' \in [1 .. n -> Octets]
  BY <1>c, <1>5
<1>7. cache' \in Seq(Octets) /\ Len(cache') = n
  BY <1>4, <1>6, EstSuite
<1>8. cache' \in Fichiers /\ disque' \in Fichiers /\ cache' # Rien /\ disque' # Rien
  BY <1>c, <1>7, Existant
<1>9. Fonds' /\ Recue' /\ Synchronisee' /\ Suivie' /\ Gardee' /\ Entiere'
  BY <1>1, <1>8, Fini
<1>10. Promise'
  <2>1. distant' = distant /\ suppressions' = suppressions
    BY <1>1 DEF Finir, compteurs
  <2> SUFFICES ASSUME carte # Rien, carte.mtime = distant.version, suppressions = 0
               PROVE  /\ Len(cache') <= distant.taille /\ Len(disque') <= distant.taille
                      /\ \A b \in carte.faites : Tenue(cache, b)' /\ Tenue(disque, b)'
    BY <1>1, <1>8, <2>1 DEF Promise
  <2>2. /\ Len(cache) <= distant.taille /\ Len(disque) <= distant.taille
        /\ \A b \in carte.faites : Tenue(cache, b) /\ Tenue(disque, b)
    BY <1>1 DEF Promise
  <2>3. ASSUME NEW b \in carte.faites, NEW k \in Nat, k > b[1], k <= b[2]
        PROVE  k <= n /\ cache'[k] = distant.version
    <3>1. k <= Len(cache) /\ k <= Len(disque) /\ cache[k] = distant.version /\ disque[k] = distant.version
      BY <2>2, <2>3 DEF Tenue
    <3>2. b[1] \in Nat
      BY <1>1, <2>3, Types
    <3>3. k \in 1 .. n
      BY <1>3, <1>4, <2>3, <3>1, <3>2
    <3>4. QED BY <1>5, <3>1, <3>3
  <2>4. \A b \in carte.faites : Tenue(cache, b)' /\ Tenue(disque, b)'
    BY <1>c, <1>7, <2>1, <2>3 DEF Tenue
  <2>5. QED BY <1>3, <1>c, <1>7, <2>2, <2>4
<1>11. QED BY <1>9, <1>10 DEF IInv, Octes

-----------------------------------------------------------------------------
(* Inside a run: the file, the card and the disk stay what they were.      *)

\* The bands of the file of a run.
LEMMA BandesDuRun ==
  ASSUME TypeOK, Lancee, etape = "bandes"
  PROVE  /\ reprise.taille \in Nat \ {0}
         /\ \A b \in Bandes(reprise.taille) :
              b[1] \in Nat /\ b[2] \in Nat /\ b[1] < b[2] /\ b[2] <= reprise.taille
              /\ Longueur(b) = b[2] - b[1] /\ Longueur(b) \in Nat
<1>1. reprise.taille \in Nat \ {0}
  BY TelechargementAssumption DEF Lancee
<1>2. QED BY <1>1, BandesTypees DEF Longueur

\* A step that only changes the state of one band.
LEMMA DevenirTypes ==
  ASSUME TypeOK, NEW b \in DOMAIN bande, NEW e \in EtatsBande, Devenir(b, e)
  PROVE  /\ DOMAIN bande' = DOMAIN bande /\ bande' \in [DOMAIN bande' -> [recu : Nat, etat : EtatsBande]]
         /\ bande'[b].etat = e
         /\ \A c \in DOMAIN bande : bande'[c].recu = bande[c].recu
         /\ \A c \in DOMAIN bande \ {b} : bande'[c] = bande[c]
<1>1. bande \in [DOMAIN bande -> [recu : Nat, etat : EtatsBande]]
  BY DEF TypeOK
<1>2. bande[b] \in [recu : Nat, etat : EtatsBande]
  BY <1>1
<1>3. [bande[b] EXCEPT !.etat = e] \in [recu : Nat, etat : EtatsBande]
      /\ [bande[b] EXCEPT !.etat = e].etat = e /\ [bande[b] EXCEPT !.etat = e].recu = bande[b].recu
  BY <1>2
<1>4. bande' = [bande EXCEPT ![b] = [bande[b] EXCEPT !.etat = e]]
  BY DEF Devenir
<1> DEFINE r == [bande[b] EXCEPT !.etat = e]
<1> HIDE DEF r
<1>5. bande' = [bande EXCEPT ![b] = r] /\ r \in [recu : Nat, etat : EtatsBande] /\ r.etat = e /\ r.recu = bande[b].recu
  BY <1>3, <1>4 DEF r
<1>6. QED BY <1>1, <1>5

\* The remote file ends too soon, or the band stops.
LEMMA CessePas ==
  ASSUME IInv, NEW b \in DOMAIN bande, FinPrematuree(b) \/ Arreter(b)
  PROVE  IInv'
<1> USE DEF partVars, compteurs, Lit
<1>0. TypeOK /\ Lancee /\ Datee /\ Decoupee /\ Recue /\ Synchronisee /\ Promise /\ Gardee
      /\ etape = "bandes"
  BY DEF IInv, Fonds, Octes, FinPrematuree, Arreter
<1>1. PICK e \in {"courte", "arretee"} : Devenir(b, e) /\ (e = "courte" => Reste(b) > 0)
  BY DEF FinPrematuree, Arreter
<1>2. UNCHANGED <<distant, cache, disque, carte, etape, reprise, deja, intact, lancements, suppressions>>
  BY DEF FinPrematuree, Arreter
<1>3. /\ DOMAIN bande' = DOMAIN bande /\ bande' \in [DOMAIN bande' -> [recu : Nat, etat : EtatsBande]]
      /\ bande'[b].etat = e
      /\ \A c \in DOMAIN bande : bande'[c].recu = bande[c].recu
      /\ \A c \in DOMAIN bande \ {b} : bande'[c] = bande[c]
  BY <1>0, <1>1, DevenirTypes DEF EtatsBande
<1>4. TypeOK'
  BY <1>0, <1>2, <1>3 DEF TypeOK
<1>5. Lancee' /\ Datee'
  BY <1>0, <1>2 DEF Lancee, Datee
<1>6. Decoupee'
  <2>1. e = "courte" => bande[b].recu < Longueur(b)
    <3>1. Longueur(b) \in Nat /\ bande[b].recu \in Nat
      BY <1>0, BandesDuRun, Types DEF TypeOK
    <3>2. QED BY <1>1, <3>1 DEF Reste
  <2>2. \A c \in DOMAIN bande' :
          /\ bande'[c].recu <= Longueur(c)
          /\ bande'[c].etat \in {"finie", "notee"} => bande'[c].recu = Longueur(c)
          /\ bande'[c].etat = "courte" => bande'[c].recu < Longueur(c)
    BY <1>0, <1>1, <1>3, <2>1 DEF Decoupee
  <2>3. QED BY <1>0, <1>2, <1>3, <2>2 DEF Decoupee
<1>7. \A f, d, n : Rempli(f, d, n) => Rempli(f, d, n)'
  BY <1>2 DEF Rempli, Bon
<1>8. Recue' /\ Synchronisee'
  <2>1. Recue'
    BY <1>0, <1>2, <1>3, <1>7 DEF Recue
  <2>2. \A c \in DOMAIN bande' : bande'[c].etat = "finie" => bande[c].etat = "finie"
    BY <1>1, <1>3
  <2>3. Synchronisee'
    BY <1>0, <1>2, <1>3, <1>7, <2>2 DEF Synchronisee
  <2>4. QED BY <2>1, <2>3
<1>9. Suivie' /\ Entiere' /\ Gardee'
  BY <1>0, <1>2 DEF Suivie, Entiere, Gardee
<1>10. Promise'
  BY <1>0, <1>2, PromisePareille
<1>11. QED BY <1>4, <1>5, <1>6, <1>8, <1>9, <1>10 DEF IInv, Fonds, Octes

\* Bytes of the remote file as it is, written over a file that is there.
LEMMA EcrirePas ==
  ASSUME TypeOK, cache # Rien, NEW d \in Nat, NEW n \in Nat,
         cache' = Ecrire(cache, d, n, distant.version), UNCHANGED <<distant, intact>>
  PROVE  /\ cache' \in Seq(Octets) /\ cache' \in Fichiers /\ cache' # Rien
         /\ Len(cache') \in Nat /\ Len(cache) <= Len(cache') /\ d + n <= Len(cache')
         /\ Len(cache') = Len(cache) \/ Len(cache') = d + n
         /\ \A a, z \in Nat : Rempli(cache, a, z) => Rempli(cache, a, z)'
         /\ \A a, z \in Nat : Rempli(cache, a, d) /\ z <= d + n => Rempli(cache, a, z)'
         /\ \A b \in Nat \X Nat : Tenue(cache, b) => Tenue(cache, b)'
<1>1. cache \in Seq(Octets) /\ Len(cache) \in Nat /\ distant.version \in Octets /\ distant.version # Trou
  BY Types, Constantes DEF Trou
<1>2. /\ cache' \in Seq(Octets) /\ Len(cache') = AuMoins(Len(cache), d + n)
      /\ Len(cache) <= Len(cache') /\ d + n <= Len(cache')
      /\ (Len(cache') = Len(cache) \/ Len(cache') = d + n)
      /\ \A k \in 1 .. Len(cache') : k > d /\ k <= d + n => cache'[k] = distant.version
      /\ \A k \in 1 .. Len(cache) : ~(k > d /\ k <= d + n) => cache'[k] = cache[k]
  <2>1. Change(cache', cache, d, n, distant.version)
    BY <1>1, EcrireEffet
  <2>2. QED BY <2>1 DEF Change
<1>3. cache' \in Fichiers /\ cache' # Rien /\ Len(cache') \in Nat
  BY <1>2, Existant
<1>4. Bon(distant.version) /\ \A x : Bon(x) <=> Bon(x)'
  BY <1>1 DEF Bon
<1>5. ASSUME NEW a \in Nat, NEW z \in Nat, Rempli(cache, a, z), NEW k \in Nat, k > a, k <= z
      PROVE  k <= Len(cache') /\ Bon(cache'[k])
  <2>1. k <= Len(cache) /\ Bon(cache[k]) /\ k \in 1 .. Len(cache) /\ k \in 1 .. Len(cache')
    BY <1>1, <1>2, <1>3, <1>5 DEF Rempli
  <2>2. CASE k > d /\ k <= d + n
    BY <1>2, <1>4, <2>1, <2>2
  <2>3. CASE ~(k > d /\ k <= d + n)
    BY <1>2, <2>1, <2>3
  <2>4. QED BY <2>1, <2>2, <2>3
<1>6. ASSUME NEW a \in Nat, NEW z \in Nat, Rempli(cache, a, d), z <= d + n, NEW k \in Nat, k > a, k <= z
      PROVE  k <= Len(cache') /\ Bon(cache'[k])
  <2>1. CASE k > d
    <3>1. k \in 1 .. Len(cache') /\ k <= d + n
      BY <1>2, <1>3, <1>6
    <3>2. QED BY <1>2, <1>4, <2>1, <3>1
  <2>2. CASE k <= d
    BY <1>5, <1>6, <2>2
  <2>3. QED BY <2>1, <2>2
<1>7. ASSUME NEW b \in Nat \X Nat, Tenue(cache, b), NEW k \in Nat, k > b[1], k <= b[2]
      PROVE  k <= Len(cache') /\ cache'[k] = distant.version
  <2>1. k <= Len(cache) /\ cache[k] = distant.version
    BY <1>7 DEF Tenue
  <2>2. k \in 1 .. Len(cache) /\ k \in 1 .. Len(cache')
    BY <1>1, <1>2, <1>3, <1>7, <2>1
  <2>3. CASE k > d /\ k <= d + n
    BY <1>2, <2>1, <2>2, <2>3
  <2>4. CASE ~(k > d /\ k <= d + n)
    BY <1>2, <2>1, <2>2, <2>4
  <2>5. QED BY <2>1, <2>2, <2>3, <2>4
<1>8. \A a, z \in Nat : Rempli(cache, a, z) => Rempli(cache, a, z)'
  BY <1>4, <1>5 DEF Rempli
<1>9. \A a, z \in Nat : Rempli(cache, a, d) /\ z <= d + n => Rempli(cache, a, z)'
  BY <1>4, <1>6 DEF Rempli
<1>10. \A b \in Nat \X Nat : Tenue(cache, b) => Tenue(cache, b)'
  BY <1>7 DEF Tenue
<1>11. QED BY <1>2, <1>3, <1>8, <1>9, <1>10

LEMMA LireBlocPas ==
  ASSUME IInv, NEW b \in DOMAIN bande, NEW n \in 1 .. CHUNK, LireBloc(b, n)
  PROVE  IInv'
<1> USE DEF compteurs, Lit
<1>0. TypeOK /\ Lancee /\ Datee /\ Decoupee /\ Recue /\ Synchronisee /\ Promise /\ Gardee
      /\ etape = "bandes" /\ cache # Rien /\ bande[b].etat = "lit"
  BY DEF IInv, Fonds, Octes, LireBloc, Lancee
<1>1. UNCHANGED <<distant, disque, carte, etape, reprise, deja, intact, lancements, suppressions>>
  BY DEF LireBloc
<1> DEFINE d == b[1] + bande[b].recu
<1>2. /\ b \in Bandes(reprise.taille) /\ b[1] \in Nat /\ b[2] \in Nat /\ b[2] <= reprise.taille
      /\ Longueur(b) = b[2] - b[1] /\ bande[b].recu \in Nat /\ bande[b].recu <= Longueur(b)
      /\ reprise.taille \in Nat /\ n \in Nat /\ n # 0
  <2>1. b \in Bandes(reprise.taille)
    BY <1>0 DEF TypeOK
  <2>2. /\ b[1] \in Nat /\ b[2] \in Nat /\ b[2] <= reprise.taille /\ Longueur(b) = b[2] - b[1]
        /\ reprise.taille \in Nat
    BY <1>0, <2>1, BandesDuRun
  <2>3. bande[b].recu \in Nat /\ bande[b].recu <= Longueur(b)
    BY <1>0, Types DEF Decoupee
  <2>4. QED BY <2>1, <2>2, <2>3, TelechargementAssumption
<1>3. d \in Nat /\ d = b[1] + bande[b].recu
  BY <1>2
<1>4. bande[b].recu + n <= Longueur(b)
  <2>1. Longueur(b) - bande[b].recu \in Nat
    BY <1>2
  <2>2. n <= Longueur(b) - bande[b].recu
    BY <1>2, <2>1, TelechargementAssumption DEF LireBloc, Reste, AuPlus
  <2>3. QED BY <1>2, <2>2
<1>5. bande' = [bande EXCEPT ![b] = [bande[b] EXCEPT !.recu = @ + n]]
  BY DEF LireBloc
<1>6. /\ DOMAIN bande' = DOMAIN bande /\ bande' \in [DOMAIN bande' -> [recu : Nat, etat : EtatsBande]]
      /\ bande'[b].recu = bande[b].recu + n /\ bande'[b].etat = "lit"
      /\ \A c \in DOMAIN bande \ {b} : bande'[c] = bande[c]
  <2>1. bande \in [DOMAIN bande -> [recu : Nat, etat : EtatsBande]] /\ bande[b] \in [recu : Nat, etat : EtatsBande]
    BY <1>0 DEF TypeOK
  <2> DEFINE r == [bande[b] EXCEPT !.recu = @ + n]
  <2>2. r \in [recu : Nat, etat : EtatsBande] /\ r.recu = bande[b].recu + n /\ r.etat = bande[b].etat
    BY <1>2, <2>1
  <2> HIDE DEF r
  <2>3. bande' = [bande EXCEPT ![b] = r]
    BY <1>5 DEF r
  <2>4. QED BY <1>0, <2>1, <2>2, <2>3
<1> HIDE DEF d
<1>7. cache' = Ecrire(cache, d, n, distant.version)
  BY DEF LireBloc, d
<1>8. /\ cache' \in Seq(Octets) /\ cache' \in Fichiers /\ cache' # Rien
      /\ Len(cache') \in Nat /\ Len(cache) <= Len(cache') /\ d + n <= Len(cache')
      /\ Len(cache') = Len(cache) \/ Len(cache') = d + n
      /\ \A a, z \in Nat : Rempli(cache, a, z) => Rempli(cache, a, z)'
      /\ \A a, z \in Nat : Rempli(cache, a, d) /\ z <= d + n => Rempli(cache, a, z)'
      /\ \A c \in Nat \X Nat : Tenue(cache, c) => Tenue(cache, c)'
  BY <1>0, <1>1, <1>2, <1>3, <1>7, EcrirePas
<1>9. TypeOK'
  <2>1. disque # Rien
    BY <1>0 DEF TypeOK
  <2>2. QED BY <1>0, <1>1, <1>6, <1>8, <2>1 DEF TypeOK
<1>10. Lancee' /\ Datee'
  BY <1>0, <1>1, <1>8 DEF Lancee, Datee
<1>11. Decoupee'
  <2>1. \A c \in DOMAIN bande' :
          /\ bande'[c].recu <= Longueur(c)
          /\ bande'[c].etat \in {"finie", "notee"} => bande'[c].recu = Longueur(c)
          /\ bande'[c].etat = "courte" => bande'[c].recu < Longueur(c)
    BY <1>0, <1>4, <1>6 DEF Decoupee
  <2>2. QED BY <1>0, <1>1, <1>6, <2>1 DEF Decoupee
<1>12. \A c \in Bandes(reprise.taille) : c[1] \in Nat /\ c[2] \in Nat /\ c \in Nat \X Nat
  BY <1>0, BandesDuRun, BandesTypees
<1>13. Recue'
  <2> SUFFICES ASSUME suppressions = 0
               PROVE  /\ Len(cache') <= reprise.taille
                      /\ \A c \in reprise.faites : Rempli(cache, c[1], c[2])'
                      /\ \A c \in DOMAIN bande : Rempli(cache, c[1], c[1] + bande[c].recu)'
    BY <1>1, <1>6 DEF Recue
  <2>0. /\ Len(cache) <= reprise.taille
        /\ \A c \in reprise.faites : Rempli(cache, c[1], c[2])
        /\ \A c \in DOMAIN bande : Rempli(cache, c[1], c[1] + bande[c].recu)
    BY <1>0 DEF Recue
  <2>1. Len(cache') <= reprise.taille
    <3>1. d + n <= b[2]
      BY <1>2, <1>3, <1>4
    <3>2. QED BY <1>2, <1>3, <1>8, <2>0, <3>1
  <2>2. ASSUME NEW c \in reprise.faites PROVE Rempli(cache, c[1], c[2])'
    <3>1. c[1] \in Nat /\ c[2] \in Nat /\ Rempli(cache, c[1], c[2])
      BY <1>0, <1>12, <2>0 DEF Decoupee
    <3>2. QED BY <1>8, <3>1
  <2>3. ASSUME NEW c \in DOMAIN bande PROVE Rempli(cache, c[1], c[1] + bande[c].recu)'
    <3>1. c[1] \in Nat /\ bande[c].recu \in Nat /\ Rempli(cache, c[1], c[1] + bande[c].recu)
      BY <1>0, <1>12, <2>0, Types DEF TypeOK
    <3>2. CASE c = b
      <4>1. PICK z \in Nat : z = d + n
        BY <1>2, <1>3
      <4>2. Rempli(cache, b[1], d)
        BY <1>3, <3>1, <3>2
      <4>3. b[1] + bande'[b].recu = z
        BY <1>2, <1>3, <1>6, <4>1
      <4>4. PICK a \in Nat : a = b[1]
        BY <1>2
      <4>5. Rempli(cache, a, z)'
        BY <1>2, <1>3, <1>8, <4>1, <4>2, <4>4
      <4>6. QED BY <3>2, <4>3, <4>4, <4>5
    <3>3. CASE c # b
      <4>1. PICK a \in Nat, z \in Nat : a = c[1] /\ z = c[1] + bande[c].recu
        BY <3>1
      <4>2. c[1] + bande'[c].recu = z
        BY <1>6, <3>3, <4>1
      <4>3. Rempli(cache, a, z)'
        BY <1>8, <3>1, <4>1
      <4>4. QED BY <4>1, <4>2, <4>3
    <3>4. QED BY <3>2, <3>3
  <2>4. QED BY <2>1, <2>2, <2>3
<1>14. Synchronisee'
  <2>1. \A f, a, z : f = disque /\ Rempli(f, a, z) => Rempli(disque, a, z)'
    BY <1>1 DEF Rempli, Bon
  <2>2. \A c \in DOMAIN bande' : bande'[c].etat = "finie" => bande[c].etat = "finie"
    BY <1>6
  <2>3. QED BY <1>0, <1>1, <1>6, <2>1, <2>2 DEF Synchronisee
<1>15. Suivie' /\ Entiere' /\ Gardee'
  BY <1>0, <1>1 DEF Suivie, Entiere, Gardee
<1>16. Promise'
  <2> SUFFICES ASSUME carte # Rien, carte.mtime = distant.version, suppressions = 0
               PROVE  /\ Len(cache') <= distant.taille /\ Len(disque) <= distant.taille
                      /\ \A c \in carte.faites : Tenue(cache, c)' /\ Tenue(disque, c)'
    BY <1>1, <1>8 DEF Promise
  <2>1. /\ Len(cache) <= distant.taille /\ Len(disque) <= distant.taille
        /\ \A c \in carte.faites : Tenue(cache, c) /\ Tenue(disque, c)
    BY <1>0 DEF Promise
  <2>2. \A c \in carte.faites : Tenue(cache, c)'
    BY <1>0, <1>8, <2>1, Types
  <2>3. \A c \in carte.faites : Tenue(disque, c)'
    BY <1>1, <2>1 DEF Tenue
  <2>4. Len(cache') <= distant.taille
    <3>1. reprise.taille = distant.taille
      BY <1>0, Types DEF Datee, Lancee, TypeOK
    <3>2. Len(cache') <= reprise.taille
      BY <1>1, <1>13, <1>0 DEF Recue
    <3>3. QED BY <3>1, <3>2
  <2>5. QED BY <2>1, <2>2, <2>3, <2>4
<1>17. QED BY <1>9, <1>10, <1>11, <1>13, <1>14, <1>15, <1>16 DEF IInv, Fonds, Octes

\* A band received to its end is in the work file.
LEMMA Pleine ==
  ASSUME TypeOK, Lancee, Recue, etape = "bandes", suppressions = 0,
         NEW b \in DOMAIN bande, bande[b].recu = Longueur(b)
  PROVE  Rempli(cache, b[1], b[2])
<1>1. b[1] \in Nat /\ b[2] \in Nat /\ Longueur(b) = b[2] - b[1]
  BY BandesDuRun DEF TypeOK
<1>2. b[1] + bande[b].recu = b[2]
  BY <1>1
<1>3. QED BY <1>2 DEF Recue

LEMMA SynchroniserPas ==
  ASSUME IInv, NEW b \in DOMAIN bande, Synchroniser(b)
  PROVE  IInv'
<1> USE DEF compteurs, Lit
<1>0. TypeOK /\ Lancee /\ Datee /\ Decoupee /\ Recue /\ Synchronisee /\ Promise /\ Gardee
      /\ etape = "bandes" /\ cache # Rien
  BY DEF IInv, Fonds, Octes, Synchroniser, Lancee
<1>1. /\ UNCHANGED <<distant, cache, carte, etape, reprise, deja, intact, lancements, suppressions>>
      /\ disque' = cache /\ Devenir(b, "finie")
  BY DEF Synchroniser
<1>2. /\ DOMAIN bande' = DOMAIN bande /\ bande' \in [DOMAIN bande' -> [recu : Nat, etat : EtatsBande]]
      /\ bande'[b].etat = "finie"
      /\ \A c \in DOMAIN bande : bande'[c].recu = bande[c].recu
      /\ \A c \in DOMAIN bande \ {b} : bande'[c] = bande[c]
  BY <1>0, <1>1, DevenirTypes DEF EtatsBande
<1>3. bande[b].recu = Longueur(b)
  <2>1. Longueur(b) \in Nat /\ bande[b].recu \in Nat
    BY <1>0, BandesDuRun, Types DEF TypeOK
  <2>2. Longueur(b) - bande[b].recu = 0
    BY DEF Synchroniser, Reste
  <2>3. QED BY <2>1, <2>2
<1>4. TypeOK'
  BY <1>0, <1>1, <1>2 DEF TypeOK
<1>5. Lancee' /\ Datee'
  BY <1>0, <1>1 DEF Lancee, Datee
<1>6. Decoupee'
  <2>1. \A c \in DOMAIN bande' :
          /\ bande'[c].recu <= Longueur(c)
          /\ bande'[c].etat \in {"finie", "notee"} => bande'[c].recu = Longueur(c)
          /\ bande'[c].etat = "courte" => bande'[c].recu < Longueur(c)
    BY <1>0, <1>2, <1>3 DEF Decoupee
  <2>2. QED BY <1>0, <1>1, <1>2, <2>1 DEF Decoupee
<1>7. \A d, n : Rempli(cache, d, n) => Rempli(cache, d, n)' /\ Rempli(disque, d, n)'
  BY <1>1 DEF Rempli, Bon
<1>8. Recue'
  BY <1>0, <1>1, <1>2, <1>7 DEF Recue
<1>9. Synchronisee'
  <2> SUFFICES ASSUME suppressions = 0
               PROVE  /\ Len(cache) <= reprise.taille
                      /\ \A c \in reprise.faites : Rempli(disque, c[1], c[2])'
                      /\ \A c \in DOMAIN bande : bande'[c].etat = "finie" => Rempli(disque, c[1], c[2])'
    BY <1>1, <1>2 DEF Synchronisee
  <2>1. Len(cache) <= reprise.taille /\ \A c \in reprise.faites : Rempli(cache, c[1], c[2])
    BY <1>0 DEF Recue
  <2>2. ASSUME NEW c \in DOMAIN bande, bande'[c].etat = "finie"
        PROVE  Rempli(cache, c[1], c[2])
    <3>1. bande[c].recu = Longueur(c)
      BY <1>0, <1>2, <1>3, <2>2 DEF Decoupee
    <3>2. QED BY <1>0, <3>1, Pleine
  <2>3. QED BY <1>7, <2>1, <2>2
<1>10. Suivie' /\ Entiere' /\ Gardee'
  BY <1>0, <1>1 DEF Suivie, Entiere, Gardee
<1>11. Promise'
  BY <1>0, <1>1 DEF Promise, Tenue
<1>12. QED BY <1>4, <1>5, <1>6, <1>8, <1>9, <1>10, <1>11 DEF IInv, Fonds, Octes

\* The band that is noted is on the disk: the card may say so, and if it speaks of the
\* remote file as it is, that one has not changed since the launch.
LEMMA NoterPas ==
  ASSUME IInv, NEW b \in DOMAIN bande, NEW ecrite \in BOOLEAN, Noter(b, ecrite)
  PROVE  IInv'
<1> USE DEF compteurs, partVars
<1>0. TypeOK /\ Lancee /\ Datee /\ Decoupee /\ Recue /\ Synchronisee /\ Promise /\ Gardee
      /\ etape = "bandes" /\ cache # Rien /\ bande[b].etat = "finie"
  BY DEF IInv, Fonds, Octes, Noter, Lancee
<1>1. /\ UNCHANGED <<distant, cache, disque, etape, deja, intact, lancements, suppressions>>
      /\ Devenir(b, "notee") /\ carte' = IF ecrite THEN reprise' ELSE carte
  BY DEF Noter
<1>2. /\ DOMAIN bande' = DOMAIN bande /\ bande' \in [DOMAIN bande' -> [recu : Nat, etat : EtatsBande]]
      /\ bande'[b].etat = "notee"
      /\ \A c \in DOMAIN bande : bande'[c].recu = bande[c].recu
      /\ \A c \in DOMAIN bande \ {b} : bande'[c] = bande[c]
  BY <1>0, <1>1, DevenirTypes DEF EtatsBande
<1>3. b \in Bandes(reprise.taille) /\ b \in Nat \X Nat
  <2>1. b \in Bandes(reprise.taille)
    BY <1>0 DEF TypeOK
  <2>2. QED BY <1>0, <2>1, BandesDuRun, BandesTypees
<1>4. /\ reprise' \in Cartes /\ reprise'.taille = reprise.taille /\ reprise'.mtime = reprise.mtime
      /\ reprise'.faites = reprise.faites \cup {b}
  <2>1. reprise \in Cartes
    BY <1>0 DEF TypeOK
  <2>2. reprise' = [reprise EXCEPT !.faites = @ \cup {b}]
    BY DEF Noter
  <2>3. QED BY <1>3, <2>1, <2>2 DEF Cartes
<1>5. TypeOK'
  BY <1>0, <1>1, <1>2, <1>4 DEF TypeOK
<1>6. /\ reprise.mtime <= distant.version
      /\ reprise.mtime = distant.version => intact /\ reprise.taille = distant.taille
  BY <1>0, Types DEF Lancee, TypeOK
<1>7. reprise'.faites \subseteq Bandes(reprise'.taille)
  BY <1>0, <1>3, <1>4 DEF Decoupee
<1>8. Lancee'
  BY <1>0, <1>1, <1>4 DEF Lancee
<1>9. Datee'
  <2>1. CASE ecrite
    <3>1. carte' = reprise' /\ EnBandes(reprise'.taille) /\ reprise'.mtime \in Nat
      BY <1>0, <1>1, <1>4, <2>1, Types DEF Lancee
    <3>2. QED BY <1>0, <1>1, <1>4, <1>6, <1>7, <3>1 DEF Datee
  <2>2. CASE ~ecrite
    <3>1. carte' = carte
      BY <1>1, <2>2
    <3>2. QED BY <1>0, <1>1, <1>4, <3>1 DEF Datee
  <2>3. QED BY <2>1, <2>2
<1>10. Decoupee'
  <2>1. \A c \in DOMAIN bande' :
          /\ bande'[c].recu <= Longueur(c)
          /\ bande'[c].etat \in {"finie", "notee"} => bande'[c].recu = Longueur(c)
          /\ bande'[c].etat = "courte" => bande'[c].recu < Longueur(c)
    BY <1>0, <1>2 DEF Decoupee
  <2>2. QED BY <1>0, <1>1, <1>2, <1>4, <1>7, <2>1 DEF Decoupee
<1>11. \A f, d, n : f \in {cache, disque} /\ Rempli(f, d, n) => /\ f = cache => Rempli(cache, d, n)'
                                                                /\ f = disque => Rempli(disque, d, n)'
  BY <1>1 DEF Rempli, Bon
<1>12. Recue'
  <2>1. suppressions = 0 => Rempli(cache, b[1], b[2])
    <3>1. bande[b].recu = Longueur(b)
      BY <1>0 DEF Decoupee
    <3>2. QED BY <1>0, <3>1, Pleine
  <2>2. QED BY <1>0, <1>1, <1>2, <1>4, <1>11, <2>1 DEF Recue
<1>13. intact /\ suppressions = 0 =>
         /\ Len(disque) <= reprise.taille
         /\ \A c \in reprise'.faites : Rempli(disque, c[1], c[2])
  BY <1>0, <1>4 DEF Synchronisee
<1>14. Synchronisee'
  <2>1. \A c \in DOMAIN bande' : bande'[c].etat = "finie" => bande[c].etat = "finie"
    BY <1>2
  <2>2. QED BY <1>0, <1>1, <1>2, <1>4, <1>11, <1>13, <2>1 DEF Synchronisee
<1>15. Suivie' /\ Entiere'
  BY <1>0, <1>1 DEF Suivie, Entiere
<1>16. Gardee'
  <2>1. carte' = reprise' \/ carte' = carte
    BY <1>1
  <2>2. QED BY <1>0, <1>1, <1>4, <2>1 DEF Gardee
<1>17. Promise'
  <2>1. CASE ecrite
    <3> SUFFICES ASSUME reprise.mtime = distant.version, suppressions = 0
                 PROVE  /\ Len(cache) <= distant.taille /\ Len(disque) <= distant.taille
                        /\ \A c \in reprise'.faites : Tenue(cache, c) /\ Tenue(disque, c)
      BY <1>0, <1>1, <1>4, <2>1 DEF Promise, Tenue
    <3>1. intact /\ reprise.taille = distant.taille
      BY <1>6
    <3>2. Len(cache) <= distant.taille /\ Len(disque) <= distant.taille
      BY <1>0, <1>13, <3>1 DEF Recue
    <3>3. \A c \in reprise'.faites : Rempli(cache, c[1], c[2])
      BY <1>0, <1>1, <1>12 DEF Recue, Rempli, Bon
    <3>4. \A f, c : Rempli(f, c[1], c[2]) => Tenue(f, c)
      BY <3>1 DEF Rempli, Bon, Tenue
    <3>5. QED BY <1>13, <3>1, <3>2, <3>3, <3>4
  <2>2. CASE ~ecrite
    BY <1>0, <1>1, <2>2, PromisePareille
  <2>3. QED BY <2>1, <2>2
<1>18. QED BY <1>5, <1>8, <1>9, <1>10, <1>12, <1>14, <1>15, <1>16, <1>17 DEF IInv, Fonds, Octes

\* The count is right: every band is complete, and the bands cover the file.
LEMMA TerminerPas ==
  ASSUME IInv, Terminer
  PROVE  IInv'
<1> USE DEF compteurs, partVars
<1>0. TypeOK /\ Lancee /\ Datee /\ Decoupee /\ Recue /\ etape = "bandes" /\ cache # Rien
  BY DEF IInv, Fonds, Octes, Terminer, Lancee
<1>1. /\ UNCHANGED <<distant, cache, disque, reprise, deja, bande, intact, lancements, suppressions>>
      /\ carte' = Rien /\ etape' = "complet"
  BY DEF Terminer
<1>2. TypeOK'
  BY <1>0, <1>1 DEF TypeOK
<1>3. Lancee' /\ Datee' /\ Decoupee'
  BY <1>0, <1>1 DEF Lancee, Datee, Decoupee
<1>4. Recue' /\ Synchronisee' /\ Suivie' /\ Promise' /\ Gardee'
  BY <1>1 DEF Recue, Synchronisee, Suivie, Promise, Gardee
<1>5. PICK total \in Nat \ {0} : total = reprise.taille
  BY <1>0, BandesDuRun
<1>6. \A b \in DOMAIN bande : bande[b].recu = Longueur(b)
  <2>1. Fait = total /\ DOMAIN bande \subseteq Bandes(total)
    BY <1>0, <1>5 DEF Terminer, TypeOK
  <2>2. \A b \in DOMAIN bande : bande[b].recu \in Nat /\ bande[b].recu <= Longueur(b)
    BY <1>0, Types DEF Decoupee
  <2>3. deja = MapThenSumSet(Longueur, Bandes(total) \ DOMAIN bande)
    BY <1>0, <1>5 DEF Decoupee
  <2>4. QED BY <2>1, <2>2, <2>3, CompteRond
<1>7. Entiere'
  <2> SUFFICES ASSUME suppressions = 0
               PROVE  /\ Rempli(cache, 0, Len(cache)) /\ Len(cache) >= total
                      /\ intact => Len(cache) <= distant.taille
    BY <1>1, <1>5 DEF Entiere, Rempli, Bon
  <2>1. \A b \in Bandes(total) : Rempli(cache, b[1], b[2])
    BY <1>0, <1>5, <1>6, Pleine DEF Decoupee, Recue
  <2>2. Len(cache) \in Nat /\ Len(cache) <= total
    BY <1>0, <1>5, Types DEF Recue
  <2>3. ASSUME NEW k \in 1 .. total PROVE k <= Len(cache) /\ Bon(cache[k])
    <3>1. PICK b \in Bandes(total) : k \in b[1] + 1 .. b[2]
      BY BandesCouvrent
    <3>2. k \in Nat /\ k > b[1] /\ k <= b[2]
      BY <3>1, BandesTypees
    <3>3. QED BY <2>1, <3>2 DEF Rempli
  <2>4. Len(cache) >= total
    BY <1>5, <2>2, <2>3
  <2>5. Rempli(cache, 0, Len(cache))
    BY <1>5, <2>2, <2>3 DEF Rempli
  <2>6. intact => Len(cache) <= distant.taille
    BY <1>0, <1>5, <2>2 DEF Lancee
  <2>7. QED BY <2>4, <2>5, <2>6
<1>8. QED BY <1>2, <1>3, <1>4, <1>7 DEF IInv, Fonds, Octes

LEMMA LireSuitePas ==
  ASSUME IInv, NEW n \in 1 .. CHUNK, LireSuite(n)
  PROVE  IInv'
<1> USE DEF compteurs, runVars
<1>0. TypeOK /\ Lancee /\ Datee /\ Decoupee /\ Suivie /\ etape = "suite" /\ cache # Rien
  BY DEF IInv, Fonds, Octes, LireSuite, Lancee
<1>1. UNCHANGED <<distant, disque, carte, etape, reprise, deja, bande, intact, lancements, suppressions>>
  BY DEF LireSuite
<1>2. PICK d \in Nat : d = Len(cache)
  BY <1>0, Types
<1>3. n \in Nat /\ d + n <= distant.taille /\ cache' = Ecrire(cache, d, n, distant.version)
  BY <1>2, TelechargementAssumption DEF LireSuite
<1>4. /\ cache' \in Fichiers /\ cache' # Rien
      /\ Len(cache') \in Nat /\ d + n <= Len(cache')
      /\ Len(cache') = Len(cache) \/ Len(cache') = d + n
      /\ \A a, z \in Nat : Rempli(cache, a, d) /\ z <= d + n => Rempli(cache, a, z)'
  BY <1>0, <1>1, <1>3, EcrirePas
<1>5. TypeOK'
  <2>1. disque # Rien
    BY <1>0 DEF TypeOK
  <2>2. QED BY <1>0, <1>1, <1>4, <2>1 DEF TypeOK
<1>6. Lancee' /\ Datee' /\ Decoupee'
  BY <1>0, <1>1, <1>4 DEF Lancee, Datee, Decoupee
<1>7. Suivie'
  <2> SUFFICES ASSUME suppressions = 0
               PROVE  Rempli(cache, 0, Len(cache))' /\ Len(cache') <= distant.taille
    BY <1>1 DEF Suivie
  <2>1. Len(cache') = d + n
    BY <1>2, <1>3, <1>4
  <2>2. PICK z \in Nat : z = Len(cache')
    BY <1>4
  <2>3. Rempli(cache, 0, d)
    BY <1>0, <1>2 DEF Suivie
  <2>4. Rempli(cache, 0, z)'
    BY <1>3, <1>4, <2>1, <2>2, <2>3
  <2>5. QED BY <1>3, <2>1, <2>2, <2>4
<1>8. Promise'
  <2>1. carte # Rien => carte.mtime < distant.version
    BY SMTT(60), <1>0, Types DEF Datee, Lancee, TypeOK
  <2>2. QED BY <1>0, <1>1, <2>1, Types DEF Promise
<1>9. Recue' /\ Synchronisee' /\ Gardee' /\ Entiere'
  BY <1>0, <1>1 DEF Recue, Synchronisee, Gardee, Entiere
<1>10. QED BY <1>5, <1>6, <1>7, <1>8, <1>9 DEF IInv, Fonds, Octes

LEMMA FinSuitePas ==
  ASSUME IInv, FinSuite
  PROVE  IInv'
<1> USE DEF compteurs, partVars
<1>0. TypeOK /\ Lancee /\ Datee /\ Suivie /\ Promise /\ etape = "suite"
  BY DEF IInv, Fonds, Octes, FinSuite
<1>1. /\ UNCHANGED <<distant, cache, disque, carte, reprise, deja, bande, intact, lancements, suppressions>>
      /\ etape' = "complet" /\ Len(cache) >= reprise.taille
  BY DEF FinSuite
<1>2. TypeOK'
  BY <1>0, <1>1 DEF TypeOK
<1>3. Lancee' /\ Datee' /\ Decoupee'
  BY <1>0, <1>1 DEF Lancee, Datee, Decoupee
<1>4. Recue' /\ Synchronisee' /\ Suivie' /\ Gardee'
  BY <1>1 DEF Recue, Synchronisee, Suivie, Gardee
<1>5. Entiere'
  BY <1>0, <1>1 DEF Suivie, Entiere, Rempli, Bon
<1>6. Promise'
  BY <1>0, <1>1, PromisePareille
<1>7. QED BY <1>2, <1>3, <1>4, <1>5, <1>6 DEF IInv, Fonds, Octes

\* The greatest of bounded naturals is one of them.
LEMMA PlusGrand ==
  ASSUME NEW S, S \subseteq Nat, S # {}, NEW m \in Nat, \A x \in S : x <= m
  PROVE  Max(S) \in S
<1> DEFINE T == {n \in Nat : \A x \in S : x <= n}
<1>1. T \subseteq Nat /\ T # {}
  OBVIOUS
<1> HIDE DEF T
<1>2. PICK n \in T : \A k \in T : n <= k
  BY <1>1, PlusPetit
<1> USE DEF T
<1>3. n \in S
  <2> SUFFICES ASSUME n \notin S PROVE FALSE
    OBVIOUS
  <2>1. \A x \in S : x < n
    BY <1>2
  <2>2. PICK x \in S : x < n
    BY <2>1
  <2>3. n - 1 \in Nat /\ \A y \in S : y <= n - 1
    BY <1>2, <2>1, <2>2
  <2>4. QED BY <1>2, <2>3
<1>4. \A x \in S : n >= x
  BY <1>2
<1>5. QED BY <1>3, <1>4 DEF Max

\* A card of the remote file as it is, and its work file: the run takes all of it.
LEMMA CarteReprise ==
  ASSUME TypeOK, Datee, Promise, carte # Rien, carte.mtime = distant.version, suppressions = 0
  PROVE  BandesFaites = carte.faites /\ EnBandes(distant.taille) /\ cache # Rien
<1>1. carte.taille = distant.taille /\ EnBandes(distant.taille) /\ cache # Rien
  BY DEF Datee, Promise
<1>2. Len(cache) \in Nat /\ distant.taille \in Nat \ {0}
  BY <1>1, Types
<1>3. \A b \in carte.faites : b[2] \in Nat /\ b[2] <= Len(cache)
  <2> SUFFICES ASSUME NEW b \in carte.faites PROVE b[2] \in Nat /\ b[2] <= Len(cache)
    OBVIOUS
  <2>1. b \in Bandes(distant.taille)
    BY <1>1 DEF Datee
  <2>2. b[1] < b[2] /\ b[2] \in Nat
    BY <1>2, <2>1, BandesTypees
  <2>3. Tenue(cache, b)
    BY DEF Promise
  <2>4. QED BY <2>1, <2>2, <2>3, <1>2, BandesTypees DEF Tenue
<1> DEFINE S == {0} \cup {b[2] : b \in carte.faites}
<1>4. Max(S) \in S
  <2>1. S \subseteq Nat /\ S # {} /\ \A x \in S : x <= Len(cache)
    BY <1>2, <1>3
  <2> HIDE DEF S
  <2>2. QED BY <1>2, <2>1, PlusGrand
<1>5. Len(cache) >= PlusGrandeFin(carte.faites)
  BY <1>2, <1>3, <1>4 DEF PlusGrandeFin
<1>6. QED BY <1>1, <1>5 DEF BandesFaites, PartAssezLong, VautPour

LEMMA LancerPas ==
  ASSUME IInv, Lancer
  PROVE  IInv'
<1> USE DEF compteurs, partVars
<1>0. TypeOK /\ Lancee /\ Datee /\ Promise /\ etape = "repos"
  BY DEF IInv, Fonds, Octes, Lancer
<1> DEFINE F == IF EnBandes(distant.taille) THEN BandesFaites ELSE {}
           B == Bandes(distant.taille)
<1>1. /\ UNCHANGED <<distant, carte, suppressions>> /\ lancements' = lancements + 1
      /\ lancements < MaxLancements /\ intact' = TRUE
      /\ reprise' = [taille |-> distant.taille, mtime |-> distant.version, faites |-> F]
      /\ deja' = MapThenSumSet(Longueur, F)
      /\ F = {} => Creer
      /\ F # {} => UNCHANGED <<cache, disque>>
  BY DEF Lancer
<1>2. \/ /\ EnBandes(distant.taille) /\ etape' = "bandes"
         /\ bande' = [b \in B \ F |-> [recu |-> 0, etat |-> "lit"]]
      \/ /\ ~EnBandes(distant.taille) /\ etape' = "suite" /\ bande' = << >>
  BY DEF Lancer
<1>3. F # {} =>
        /\ EnBandes(distant.taille) /\ cache # Rien
        /\ carte # Rien /\ carte.taille = distant.taille /\ carte.mtime = distant.version
        /\ F = carte.faites
  BY DEF BandesFaites, VautPour, PartAssezLong
<1>4. /\ distant.taille \in Nat \ {0} /\ distant.taille \in Tailles
      /\ distant.version \in Versions /\ distant.version \in Nat \ {0}
  BY <1>0, Types
<1>5. \A b \in B : b[1] \in Nat /\ b[2] \in Nat /\ b \in Nat \X Nat /\ Longueur(b) \in Nat
  BY <1>4, BandesTypees
<1>6. F \subseteq B /\ B \ (B \ F) = F
  BY <1>0, <1>3 DEF Datee
<1>7. deja' \in Nat
  <2>1. IsFiniteSet(F) /\ \A b \in F : Longueur(b) \in Nat
    BY <1>4, <1>5, <1>6, BandesFinies, FS_Subset
  <2> HIDE DEF F
  <2>2. PICK g : Cumule(g, F, [b \in F |-> Longueur(b)]) /\ MapThenSumSet(Longueur, F) = g[F]
    BY <2>1, SommeLongueurs
  <2> DEFINE f == [b \in F |-> Longueur(b)]
  <2>3. f \in [F -> Nat] /\ Cumule(g, F, f)
    BY <2>1, <2>2
  <2> HIDE DEF f
  <2>4. Additif(g, F, f)
    BY <2>1, <2>3, CumulAjoute
  <2>5. QED BY <1>1, <2>2, <2>4 DEF Additif
<1>8. \A b \in DOMAIN bande' : bande'[b].recu = 0 /\ bande'[b].etat = "lit" /\ b \in B \ F
  BY <1>2
<1>9. bande' \in [DOMAIN bande' -> [recu : Nat, etat : EtatsBande]]
  <2>1. [recu |-> 0, etat |-> "lit"] \in [recu : Nat, etat : EtatsBande]
    BY DEF EtatsBande
  <2> DEFINE r == [recu |-> 0, etat |-> "lit"]
             R == [recu : Nat, etat : EtatsBande]
  <2> HIDE DEF r, R
  <2>2. CASE bande' = [b \in B \ F |-> r]
    BY <2>1, <2>2 DEF r, R
  <2>3. CASE bande' = << >>
    BY <2>3
  <2>4. QED BY <1>2, <2>2, <2>3 DEF r
<1> HIDE DEF F, B
<1>10. /\ reprise' \in Cartes /\ reprise'.taille = distant.taille
       /\ reprise'.mtime = distant.version /\ reprise'.faites = F
  <2>1. F \subseteq Nat \X Nat
    BY <1>5, <1>6
  <2>2. QED BY <1>1, <1>4, <2>1 DEF Cartes
\* The work file: new and empty, or that of the card.
<1>11. /\ cache' \in Fichiers /\ disque' \in Fichiers /\ cache' # Rien /\ disque' # Rien
       /\ F = {} => Len(cache') = 0
  <2>1. CASE F = {}
    <3>1. << >> \in Seq(Octets)
      OBVIOUS
    <3>2. << >> \in Fichiers /\ << >> # Rien
      BY <3>1, Existant
    <3>3. cache' = << >> /\ disque' = IF disque = Rien THEN << >> ELSE disque
      BY <1>1, <2>1 DEF Creer
    <3>4. disque \in Fichiers
      BY <1>0 DEF TypeOK
    <3>5. QED BY <3>2, <3>3, <3>4
  <2>2. CASE F # {}
    BY <1>0, <1>1, <1>3, <2>2 DEF TypeOK
  <2>3. QED BY <2>1, <2>2
<1>12. TypeOK'
  <2>1. DOMAIN bande' \subseteq Bandes(reprise'.taille)
    BY <1>8, <1>10 DEF B
  <2>2. lancements' \in 0 .. MaxLancements
    BY <1>0, <1>1, TelechargementAssumption DEF TypeOK
  <2>3. QED BY <1>0, <1>1, <1>2, <1>7, <1>9, <1>10, <1>11, <2>1, <2>2 DEF TypeOK
<1>13. Lancee'
  BY <1>1, <1>2, <1>4, <1>10, <1>11 DEF Lancee
<1>14. Datee'
  <2>1. carte # Rien /\ carte.mtime = distant.version => EnBandes(distant.taille)
    BY <1>0 DEF Datee
  <2>2. QED BY <1>0, <1>1, <1>2, <1>4, <1>10, <2>1, Types DEF Datee
<1>15. Decoupee'
  <2> SUFFICES ASSUME etape' = "bandes"
               PROVE  /\ reprise'.faites \subseteq B
                      /\ B \ DOMAIN bande' \subseteq reprise'.faites
                      /\ deja' = MapThenSumSet(Longueur, B \ DOMAIN bande')
                      /\ \A b \in DOMAIN bande' :
                           /\ bande'[b].recu <= Longueur(b)
                           /\ bande'[b].etat \in {"finie", "notee"} => bande'[b].recu = Longueur(b)
                           /\ bande'[b].etat = "courte" => bande'[b].recu < Longueur(b)
    BY <1>10 DEF Decoupee, B
  <2>1. DOMAIN bande' = B \ F /\ B \ DOMAIN bande' = F
    BY <1>2, <1>6
  <2>2. \A b \in DOMAIN bande' : 0 <= Longueur(b)
    BY <1>5, <1>8
  <2>3. QED BY <1>1, <1>6, <1>8, <1>10, <2>1, <2>2
\* What the card promised is what the run does not ask for.
<1>16. F # {} /\ suppressions = 0 =>
         /\ UNCHANGED <<cache, disque>>
         /\ Len(cache) <= distant.taille /\ Len(disque) <= distant.taille
         /\ \A b \in F : Tenue(cache, b) /\ Tenue(disque, b)
  BY <1>0, <1>1, <1>3 DEF Promise
<1>17. F # {} /\ suppressions = 0 => \A b \in F : Rempli(cache, b[1], b[2])' /\ Rempli(disque, b[1], b[2])'
  BY <1>1, <1>4, <1>16 DEF Rempli, Bon, Tenue, Trou
<1>18. Recue'
  <2>1. \A b \in DOMAIN bande' : b[1] \in Nat /\ b[1] + bande'[b].recu = b[1]
    BY <1>5, <1>8
  <2>2. \A f, z : z \in Nat => Rempli(f, z, z)'
    BY DEF Rempli
  <2>3. \A b \in DOMAIN bande' : Rempli(cache, b[1], b[1] + bande[b].recu)'
    BY <2>1, <2>2
  <2>4. suppressions = 0 => Len(cache') <= reprise'.taille
    BY <1>4, <1>10, <1>11, <1>16
  <2>5. QED BY <1>1, <1>10, <1>17, <2>3, <2>4 DEF Recue
<1>19. Synchronisee'
  BY <1>1, <1>8, <1>10, <1>16, <1>17 DEF Synchronisee
<1>20. Suivie'
  <2> SUFFICES ASSUME etape' = "suite"
               PROVE  Rempli(cache, 0, Len(cache))' /\ Len(cache') <= distant.taille
    BY <1>1 DEF Suivie
  <2>1. F = {}
    BY <1>2, <1>3
  <2>2. Len(cache') = 0
    BY <1>11, <2>1
  <2>3. QED BY <1>4, <2>2 DEF Rempli
<1>21. carte # Rien /\ carte.mtime = distant.version /\ suppressions = 0 => F = carte.faites /\ cache # Rien
  BY <1>0, CarteReprise DEF F
<1>22. Promise'
  <2> SUFFICES ASSUME carte # Rien, carte.mtime = distant.version, suppressions = 0
               PROVE  /\ Len(cache') <= distant.taille /\ Len(disque') <= distant.taille
                      /\ \A b \in carte.faites : Tenue(cache, b)' /\ Tenue(disque, b)'
    BY <1>1, <1>11 DEF Promise
  <2>1. F = carte.faites /\ cache # Rien
    BY <1>21
  <2>2. CASE F = {}
    <3>1. Len(cache') = 0 /\ disque' = disque
      BY <1>0, <1>1, <1>11, <2>1, <2>2 DEF Creer, TypeOK
    <3>2. Len(disque) <= distant.taille
      BY <1>0 DEF Promise
    <3>3. QED BY <1>4, <2>1, <2>2, <3>1, <3>2
  <2>3. CASE F # {}
    BY <1>1, <1>16, <2>1, <2>3 DEF Tenue
  <2>4. QED BY <2>2, <2>3
<1>23. Gardee'
  BY <1>1, <1>10, <1>21 DEF Gardee
<1>24. Entiere'
  BY <1>2 DEF Entiere
<1>25. QED BY <1>12, <1>13, <1>14, <1>15, <1>18, <1>19, <1>20, <1>22, <1>23, <1>24 DEF IInv, Fonds, Octes

-----------------------------------------------------------------------------
(* The invariant holds.                                                    *)

LEMMA InitTient ==
  ASSUME Init
  PROVE  IInv
<1> USE DEF Init
<1>1. TypeOK
  <2>1. 1 \in Versions /\ distant \in [version : Versions, taille : Tailles]
    BY TelechargementAssumption DEF Versions
  <2>2. reprise \in Cartes /\ DOMAIN bande = {}
    BY Constantes
  <2>3. bande \in [DOMAIN bande -> [recu : Nat, etat : EtatsBande]] /\ DOMAIN bande \subseteq Bandes(reprise.taille)
    BY <2>2
  <2>4. lancements \in 0 .. MaxLancements /\ suppressions \in 0 .. MaxSuppressions
    BY TelechargementAssumption
  <2>5. QED BY <2>1, <2>2, <2>3, <2>4 DEF TypeOK, Fichiers
<1>2. Lancee /\ Datee /\ Decoupee
  BY DEF Lancee, Datee, Decoupee
<1>3. Octes
  BY DEF Octes, Recue, Synchronisee, Suivie, Promise, Gardee, Entiere
<1>4. QED BY <1>1, <1>2, <1>3 DEF IInv, Fonds

LEMMA ImmobilePas ==
  ASSUME IInv, UNCHANGED vars
  PROVE  IInv'
<1> USE DEF vars, partVars, runVars, compteurs
<1>1. TypeOK' /\ Lancee' /\ Datee' /\ Decoupee'
  BY DEF IInv, Fonds, TypeOK, Lancee, Datee, Decoupee
<1>2. \A f, d, n : Rempli(f, d, n) => Rempli(f, d, n)'
  BY DEF Rempli, Bon
<1>3. \A f, b : Tenue(f, b) => Tenue(f, b)'
  BY DEF Tenue
<1>4. Recue' /\ Synchronisee' /\ Suivie'
  BY <1>2 DEF IInv, Octes, Recue, Synchronisee, Suivie
<1>5. Promise' /\ Gardee' /\ Entiere'
  BY <1>2, <1>3 DEF IInv, Octes, Promise, Gardee, Entiere
<1>6. QED BY <1>1, <1>4, <1>5 DEF IInv, Fonds, Octes

LEMMA RunPas ==
  ASSUME IInv, NEW b \in DOMAIN bande, Run(b)
  PROVE  IInv'
<1>1. CASE \E n \in 1 .. CHUNK : LireBloc(b, n)
  BY <1>1, LireBlocPas
<1>2. CASE FinPrematuree(b) \/ Arreter(b)
  BY <1>2, CessePas
<1>3. CASE Synchroniser(b)
  BY <1>3, SynchroniserPas
<1>4. CASE \E ecrite \in BOOLEAN : Noter(b, ecrite)
  BY <1>4, NoterPas
<1>5. QED BY <1>1, <1>2, <1>3, <1>4 DEF Run

LEMMA Tient ==
  Spec => []IInv
<1>1. Init => IInv
  BY InitTient
<1>2. IInv /\ [Next]_vars => IInv'
  <2> SUFFICES ASSUME IInv, [Next]_vars PROVE IInv'
    OBVIOUS
  <2>1. CASE \E t \in Tailles : Modifier(t)
    BY <2>1, ModifierPas
  <2>2. CASE Supprimer \/ Tuer \/ Couper
    BY <2>2, SupprimerPas, TuerPas, CouperPas
  <2>3. CASE Lancer
    BY <2>3, LancerPas
  <2>4. CASE \E b \in DOMAIN bande : Run(b)
    BY <2>4, RunPas
  <2>5. CASE Terminer \/ Abandonner \/ Promouvoir \/ ArreterSuite
    BY <2>5, TerminerPas, AbandonnerPas, PartiPas
  <2>6. CASE \E n \in 1 .. CHUNK : LireSuite(n)
    BY <2>6, LireSuitePas
  <2>7. CASE FinSuite
    BY <2>7, FinSuitePas
  <2>8. CASE UNCHANGED vars
    BY <2>8, ImmobilePas
  <2>9. QED BY <2>1, <2>2, <2>3, <2>4, <2>5, <2>6, <2>7, <2>8 DEF Next
<1>3. QED BY <1>1, <1>2, PTL DEF Spec

\* A file about to be promoted is the remote one.
LEMMA PromuTient ==
  ASSUME IInv
  PROVE  PromuFidele /\ PromuSansTrou
<1>0. TypeOK /\ Lancee /\ Entiere
  BY DEF IInv, Fonds, Octes
<1> SUFFICES ASSUME etape = "complet", suppressions = 0
             PROVE  /\ intact => Conforme
                    /\ Len(cache) >= reprise.taille
                    /\ \A k \in 1 .. Len(cache) : cache[k] # Trou
  BY DEF PromuFidele, PromuSansTrou
<1>1. cache \in Seq(Octets) /\ Len(cache) \in Nat /\ distant.taille \in Nat
  BY <1>0, Types DEF Lancee
<1>2. /\ Len(cache) >= reprise.taille
      /\ \A k \in 1 .. Len(cache) : Bon(cache[k])
      /\ intact => Len(cache) <= distant.taille
  BY <1>0, <1>1 DEF Entiere, Rempli
<1>3. ASSUME intact PROVE Conforme
  <2>1. Len(cache) = distant.taille
    BY <1>0, <1>1, <1>2, <1>3 DEF Lancee
  <2>2. \A k \in 1 .. distant.taille : cache[k] = distant.version
    BY <1>2, <1>3, <2>1 DEF Bon
  <2>3. cache = [k \in 1 .. distant.taille |-> cache[k]]
    BY <1>1, <2>1
  <2>4. QED BY <2>2, <2>3 DEF Conforme
<1>4. QED BY <1>2, <1>3 DEF Bon

LEMMA CarteTient ==
  ASSUME IInv
  PROVE  CarteTenue
<1>0. TypeOK /\ Promise
  BY DEF IInv, Fonds, Octes
<1> SUFFICES ASSUME VautPour(carte, distant), suppressions = 0,
                    NEW b \in carte.faites, NEW k \in b[1] + 1 .. b[2]
             PROVE  k <= Len(disque) /\ disque[k] = distant.version
  BY DEF CarteTenue
<1>1. Tenue(disque, b) /\ b \in Nat \X Nat
  BY <1>0, Types DEF Promise, VautPour
<1>2. k \in Nat /\ k > b[1] /\ k <= b[2]
  BY <1>1
<1>3. QED BY <1>1, <1>2 DEF Tenue

\* The state of a download keeps its types: the blocks written at their offsets, the
\* cuts and the resumptions make no file, no card and no band that is not one.
THEOREM TypesDuTelechargement == Spec => []TypeOK
<1>1. IInv => TypeOK
  BY DEF IInv, Fonds
<1>2. QED BY <1>1, Tient, PTL

\* For every size of block, number of bands, size of file, number of runs and of versions:
\* a file about to take its name is the remote file, byte for byte and without a hole, and
\* no card is ahead of the bytes on the disk (download_reprise, vaut_pour, sync_data).
THEOREM RepriseToujoursFidele == Spec => []RepriseFidele
<1>1. IInv => RepriseFidele
  <2>1. IInv => TypeOK
    BY DEF IInv, Fonds
  <2>2. QED BY <2>1, PromuTient, CarteTient DEF RepriseFidele
<1>2. QED BY <1>1, Tient, PTL

\* A complete band is never lost: the card of a file that stays the same only grows
\* (bandes_faites, the note of a band) until the file is promoted.
THEOREM BandesToujoursGardees == Spec => BandesGardees
<1>1. ASSUME IInv, [Next]_vars, carte # Rien, carte' # Rien, carte'.mtime = carte.mtime, suppressions = 0
      PROVE  carte.faites \subseteq carte'.faites
  <2>1. carte' = carte \/ carte' = Rien \/ \E b \in DOMAIN bande, ecrite \in BOOLEAN : Noter(b, ecrite)
    BY <1>1 DEF Next, vars, Modifier, Supprimer, Tuer, Couper, Lancer, Run, LireBloc, FinPrematuree,
                Synchroniser, Arreter, Terminer, Abandonner, Promouvoir, LireSuite, FinSuite, ArreterSuite
  <2>2. ASSUME NEW b \in DOMAIN bande, NEW ecrite \in BOOLEAN, Noter(b, ecrite), carte' # carte
        PROVE  carte.faites \subseteq carte'.faites
    <3>1. TypeOK /\ Gardee /\ etape = "bandes"
      BY <1>1, <2>2 DEF IInv, Fonds, Octes, Noter
    <3>2. reprise \in Cartes
      BY <3>1 DEF TypeOK
    <3>3. carte' = [reprise EXCEPT !.faites = @ \cup {b}]
      BY <2>2 DEF Noter
    <3>4. carte'.mtime = reprise.mtime /\ carte'.faites = reprise.faites \cup {b}
      BY <3>2, <3>3 DEF Cartes
    <3>5. QED BY <1>1, <3>1, <3>4 DEF Gardee
  <2>3. QED BY <1>1, <2>1, <2>2
<1>2. IInv /\ [Next]_vars =>
        [carte # Rien /\ carte' # Rien /\ carte'.mtime = carte.mtime /\ suppressions = 0
           => carte.faites \subseteq carte'.faites]_vars
  BY <1>1
<1>3. QED BY <1>2, Tient, PTL DEF Spec, BandesGardees

-----------------------------------------------------------------------------
(* Etablissement. *)

\* The link being established: those before it are held, their keys accepted, and its
\* own once the handshake is made; the password is tried on the last one only.
LienTenu ==
  lien.etape # "aucune" =>
    /\ page.phase = "appel"
    /\ tenues = {i \in Maillons : i < lien.maillon}
    /\ vues = {i \in Maillons : i < lien.maillon
                 \/ (i = lien.maillon /\ lien.etape \notin {"tcp", "canal", "poignee"})}
    /\ lien.etape = "tcp" => lien.maillon = 1
    /\ lien.etape \in {"mdp", "clavier"} => lien.maillon = N
    /\ \A i \in Maillons : i # N \/ lien.etape # "clavier" => envois[i] = 0
    /\ lien.etape = "clavier" => envois[N] <= 1 + QUESTIONS_MAX * lien.tours

\* What the page shows of it.
PageTenue ==
  /\ page.phase # "repos" => page.etat = "connecting" /\ page.refuses < REFUS_MAX
  /\ lien.etape = "aucune" /\ page.etat # "live" => tenues = {}
  /\ page.etat = "live" => page.phase = "repos" /\ tenues = Maillons /\ vues = Maillons

IInvEtablissement == TypesEtablissement /\ LienTenu /\ PageTenue

LEMMA Entiers ==
  /\ N \in Nat /\ N \in Maillons /\ 1 \in Maillons /\ Maillons \subseteq Nat
  /\ REFUS_MAX \in Nat /\ REFUS_MAX > 0 /\ TOURS_MAX \in Nat /\ QUESTIONS_MAX \in Nat
<1>1. N \in Nat /\ N > 0 /\ REFUS_MAX \in Nat /\ REFUS_MAX > 0
  BY EtablissementAssumption DEF EtablissementAssumption
<1>2. TOURS_MAX \in Nat /\ QUESTIONS_MAX \in Nat
  BY EtablissementAssumption DEF EtablissementAssumption
<1>3. QED BY <1>1, <1>2 DEF Maillons

\* What the step of a link leaves to show: it stays in the attempt, and moves on.
LEMMA PageImmobile ==
  ASSUME PageTenue, lien.etape # "aucune", LienTenu, UNCHANGED page, lien'.etape # "aucune"
  PROVE  PageTenue'
BY DEF PageTenue, LienTenu

\* An attempt that fails.
LEMMA EchouerPas ==
  ASSUME IInvEtablissement, page.phase = "appel", NEW message \in Messages, Echouer(message)
  PROVE  IInvEtablissement'
<1> DEFINE r == page.refuses + IF page.saisi THEN 1 ELSE 0
<1>1. page.refuses < REFUS_MAX /\ page.refuses \in Nat /\ page.etat = "connecting" /\ r \in Nat
  BY Entiers DEF IInvEtablissement, TypesEtablissement, PageTenue
<1>2. /\ page' \in [phase : {"repos", "sonde", "avant", "appel", "question"},
               etat : {"closed", "connecting", "live"}, saisi : BOOLEAN, memoriser : BOOLEAN,
               refuses : 0 .. REFUS_MAX, message : Messages]
      /\ page'.phase # "repos" => page'.etat = "connecting" /\ page'.refuses < REFUS_MAX
      /\ page'.etat # "live"
  <2>1. CASE message # "mdp_requis"
    <3>1. page' = [page EXCEPT !.phase = "repos", !.etat = "closed", !.message = message]
      BY <2>1 DEF Echouer, Retomber
    <3>2. QED BY <3>1 DEF IInvEtablissement, TypesEtablissement
  <2>2. CASE message = "mdp_requis" /\ r >= REFUS_MAX
    <3>1. page' = [page EXCEPT !.phase = "repos", !.etat = "closed", !.refuses = r]
      BY <2>2 DEF Echouer, Retomber
    <3>2. r \in 0 .. REFUS_MAX
      BY <1>1, Entiers
    <3> HIDE DEF r
    <3>3. QED BY <1>1, <3>1, <3>2 DEF IInvEtablissement, TypesEtablissement
  <2>3. CASE message = "mdp_requis" /\ ~(r >= REFUS_MAX)
    <3>1. page' = [page EXCEPT !.phase = "question", !.refuses = r, !.message = message]
      BY <2>3 DEF Echouer, Retomber
    <3>2. r < REFUS_MAX /\ r \in 0 .. REFUS_MAX
      BY <2>3, <1>1, Entiers
    <3> HIDE DEF r
    <3>3. QED BY <1>1, <3>1, <3>2 DEF IInvEtablissement, TypesEtablissement
  <2>4. QED BY <2>1, <2>2, <2>3
<1>3. lien' = SansLien /\ tenues' = {} /\ UNCHANGED <<trousseau, vues, envois, ouvertures>>
  BY DEF Echouer
<1>4. TypesEtablissement'
  BY <1>2, <1>3, Entiers DEF IInvEtablissement, TypesEtablissement, SansLien, Etapes
<1>5. LienTenu'
  BY <1>3 DEF LienTenu, SansLien
<1>6. PageTenue'
  BY <1>2, <1>3 DEF PageTenue
<1>7. QED BY <1>4, <1>5, <1>6 DEF IInvEtablissement

\* The page alone.
LEMMA PagePas ==
  ASSUME IInvEtablissement, Ouvrir \/ SonderAgent \/ SaisirAvant \/ SaisirApres
  PROVE  IInvEtablissement'
<1>1. page.phase # "appel" /\ lien.etape = "aucune" /\ lien' = lien /\ UNCHANGED <<trousseau, vues, envois>>
  BY DEF IInvEtablissement, LienTenu, Ouvrir, SonderAgent, SaisirAvant, SaisirApres, Tab
<1>2. LienTenu'
  BY <1>1 DEF LienTenu
<1>3. /\ page' \in [phase : {"repos", "sonde", "avant", "appel", "question"},
               etat : {"closed", "connecting", "live"}, saisi : BOOLEAN, memoriser : BOOLEAN,
               refuses : 0 .. REFUS_MAX, message : Messages]
      /\ tenues' = {}
      /\ page'.phase # "repos" => page'.etat = "connecting" /\ page'.refuses < REFUS_MAX
      /\ page'.etat # "live"
  <2>1. CASE Ouvrir
    <3>1. PICK p \in {"appel", "sonde"} :
            page' = [phase |-> p, etat |-> "connecting", saisi |-> FALSE, memoriser |-> FALSE,
                     refuses |-> 0, message |-> ""]
      BY <2>1 DEF Ouvrir, PageNeuve
    <3>2. 0 \in 0 .. REFUS_MAX /\ 0 < REFUS_MAX /\ "" \in Messages
      BY Entiers DEF Messages
    <3>3. tenues' = {}
      BY <2>1 DEF Ouvrir
    <3>4. QED BY <3>1, <3>2, <3>3
  <2>2. CASE SonderAgent \/ SaisirAvant \/ SaisirApres
    <3>1. page.phase # "repos" /\ tenues' = tenues
      BY <2>2 DEF SonderAgent, SaisirAvant, SaisirApres, Tab
    <3>2. page.etat = "connecting" /\ page.refuses < REFUS_MAX /\ tenues = {}
      BY <1>1, <3>1 DEF IInvEtablissement, PageTenue
    <3>3. CASE SonderAgent
      BY <3>1, <3>2, <3>3 DEF SonderAgent, IInvEtablissement, TypesEtablissement
    <3>4. CASE SaisirAvant
      BY <3>1, <3>2, <3>4 DEF SaisirAvant, IInvEtablissement, TypesEtablissement
    <3>5. CASE SaisirApres
      BY <3>1, <3>2, <3>5 DEF SaisirApres, IInvEtablissement, TypesEtablissement
    <3>6. QED BY <2>2, <3>3, <3>4, <3>5
  <2>3. QED BY <2>1, <2>2
<1>4. TypesEtablissement'
  BY <1>1, <1>3 DEF IInvEtablissement, TypesEtablissement
<1>5. PageTenue'
  BY <1>3 DEF PageTenue
<1>6. QED BY <1>2, <1>4, <1>5 DEF IInvEtablissement

LEMMA ConnecterPas ==
  ASSUME IInvEtablissement, Connecter
  PROVE  IInvEtablissement'
<1>1. /\ lien' = [etape |-> "tcp", maillon |-> 1, tours |-> 0] /\ vues' = {} /\ tenues' = tenues
      /\ page' = page /\ trousseau' = trousseau /\ envois' = [i \in Maillons |-> 0]
  BY DEF Connecter, SansLien
<1>2. page.phase = "appel" /\ tenues = {}
  BY DEF Connecter, IInvEtablissement, PageTenue
<1>3. TypesEtablissement'
  BY <1>1, <1>2, Entiers DEF IInvEtablissement, TypesEtablissement, Etapes
<1>4. LienTenu'
  BY <1>1, <1>2, Entiers DEF LienTenu, Maillons
<1>5. PageTenue'
  BY <1>1, <1>2 DEF IInvEtablissement, PageTenue
<1>6. QED BY <1>3, <1>4, <1>5 DEF IInvEtablissement

\* A link that moves on in its attempt.
LEMMA AvancerPas ==
  ASSUME IInvEtablissement, NEW e \in Etapes \ {"aucune", "tcp"}, Avancer(e), lien.etape # "aucune",
         lien.etape \in {"tcp", "canal", "poignee"} <=> e \in {"canal", "poignee"},
         e \in {"mdp", "clavier"} => lien.maillon = N,
         lien.etape # "clavier", e # "clavier"
  PROVE  IInvEtablissement'
<1>1. /\ lien' = [lien EXCEPT !.etape = e]
      /\ UNCHANGED <<page, trousseau, tenues, vues, envois>>
  BY DEF Avancer
<1>2. TypesEtablissement'
  BY <1>1 DEF IInvEtablissement, TypesEtablissement
<1>3. lien'.etape = e /\ lien'.maillon = lien.maillon /\ lien'.tours = lien.tours
  BY <1>1 DEF IInvEtablissement, TypesEtablissement
<1>4. LienTenu'
  BY <1>1, <1>3 DEF IInvEtablissement, LienTenu, Etapes
<1>5. PageTenue'
  BY <1>1, <1>3, PageImmobile DEF IInvEtablissement
<1>6. QED BY <1>2, <1>4, <1>5 DEF IInvEtablissement

LEMMA PoigneePas ==
  ASSUME IInvEtablissement, Poignee
  PROVE  IInvEtablissement'
<1>0. lien.etape = "poignee" /\ page.phase = "appel"
  BY DEF Poignee, IInvEtablissement, LienTenu
<1>1. CASE Echouer("autre")
  BY <1>0, <1>1, EchouerPas DEF Messages
<1>2. CASE /\ lien' = [lien EXCEPT !.etape = IF lien.maillon \in AvecCle THEN "cle" ELSE "agent"]
           /\ vues' = vues \cup {lien.maillon}
           /\ UNCHANGED <<page, trousseau, tenues, envois, ouvertures>>
  <2>1. PICK e \in {"cle", "agent"} : lien' = [lien EXCEPT !.etape = e]
    BY <1>2
  <2>2. TypesEtablissement'
    BY <1>2, <2>1 DEF IInvEtablissement, TypesEtablissement, Etapes
  <2>3. lien'.etape = e /\ lien'.maillon = lien.maillon /\ lien'.tours = lien.tours /\ lien.maillon \in Maillons
    BY <2>1 DEF IInvEtablissement, TypesEtablissement
  <2>4. vues' = {i \in Maillons : i < lien'.maillon
                   \/ (i = lien'.maillon /\ lien'.etape \notin {"tcp", "canal", "poignee"})}
    BY <1>0, <1>2, <2>3 DEF IInvEtablissement, LienTenu
  <2>5. LienTenu'
    BY <1>0, <1>2, <2>3, <2>4 DEF IInvEtablissement, LienTenu
  <2>6. PageTenue'
    BY <1>0, <1>2, <2>3, PageImmobile DEF IInvEtablissement
  <2>7. QED BY <2>2, <2>5, <2>6 DEF IInvEtablissement
<1>3. QED BY <1>1, <1>2 DEF Poignee

\* A link that is up: the next one begins, or the tab is live.
LEMMA EtabliPas ==
  ASSUME IInvEtablissement, Etabli, lien.etape \in {"cle", "agent", "mdp", "clavier"},
         envois' \in [Maillons -> Nat], lien.maillon # N => envois' = envois
  PROVE  IInvEtablissement'
<1>0. /\ lien.maillon \in Maillons /\ lien.maillon \in 1 .. N /\ N \in Nat
      /\ page.phase = "appel" /\ page.etat = "connecting" /\ page.refuses < REFUS_MAX
  BY Entiers DEF IInvEtablissement, TypesEtablissement, LienTenu, PageTenue, Maillons
<1>1. /\ tenues' = {i \in Maillons : i <= lien.maillon}
      /\ vues' = {i \in Maillons : i <= lien.maillon}
  <2>1. tenues = {i \in Maillons : i < lien.maillon} /\ tenues' = tenues \cup {lien.maillon}
    BY DEF IInvEtablissement, LienTenu, Etabli
  <2>2. vues = {i \in Maillons : i < lien.maillon \/ i = lien.maillon} /\ vues' = vues
    BY DEF IInvEtablissement, LienTenu, Etabli
  <2>3. \A i \in Maillons : i <= lien.maillon <=> i < lien.maillon \/ i = lien.maillon
    BY <1>0, Entiers
  <2>4. QED BY <1>0, <2>1, <2>2, <2>3
<1>2. tenues' \subseteq Maillons /\ vues' \subseteq Maillons
  BY <1>1
<1>3. CASE lien.maillon < N
  <2>1. PICK k : k = lien.maillon + 1
    OBVIOUS
  <2>2. k \in Maillons /\ \A i \in Maillons : i <= lien.maillon <=> i < k
    BY <1>0, <1>3, <2>1 DEF Maillons
  <2>3. lien' = [etape |-> "canal", maillon |-> k, tours |-> 0] /\ UNCHANGED <<page, trousseau, envois>>
    <3>1. /\ lien' = [SansLien EXCEPT !.etape = "canal", !.maillon = k]
          /\ page' = page /\ trousseau' = trousseau
      BY <1>3, <2>1 DEF Etabli
    <3>2. envois' = envois
      BY <1>0, <1>3
    <3>3. QED BY <3>1, <3>2 DEF SansLien
  <2>4. TypesEtablissement'
    BY <1>2, <2>2, <2>3, Entiers DEF IInvEtablissement, TypesEtablissement, Etapes
  <2>5. tenues' = {i \in Maillons : i < k} /\ vues' = {i \in Maillons : i < k}
    BY <1>1, <2>2
  <2>6. \A i \in Maillons : envois[i] = 0
    BY <1>0, <1>3 DEF IInvEtablissement, LienTenu
  <2>7. LienTenu'
    <3>1. vues' = {i \in Maillons : i < lien'.maillon
                     \/ (i = lien'.maillon /\ lien'.etape \notin {"tcp", "canal", "poignee"})}
      BY <2>3, <2>5
    <3>2. QED BY <1>0, <2>3, <2>5, <2>6, <3>1 DEF LienTenu
  <2>8. PageTenue'
    BY <1>0, <2>3 DEF PageTenue
  <2>9. QED BY <2>4, <2>7, <2>8 DEF IInvEtablissement
<1>4. CASE ~(lien.maillon < N)
  <2>1. lien.maillon = N /\ \A i \in Maillons : i <= lien.maillon
    BY <1>0, <1>4 DEF Maillons
  <2>2. /\ lien' = SansLien /\ page' = [page EXCEPT !.phase = "repos", !.etat = "live"]
        /\ trousseau' = (trousseau \/ (page.saisi /\ page.memoriser))
    BY <1>4 DEF Etabli, Reussir
  <2>3. tenues' = Maillons /\ vues' = Maillons
    BY <1>1, <2>1
  <2>4. page'.phase = "repos" /\ page'.etat = "live"
    BY <2>2 DEF IInvEtablissement, TypesEtablissement
  <2>5. TypesEtablissement'
    <3>1. lien' \in [etape : Etapes, maillon : Maillons, tours : 0 .. TOURS_MAX]
      BY <2>2, Entiers DEF SansLien, Etapes
    <3>2. trousseau' \in BOOLEAN
      BY <2>2 DEF IInvEtablissement, TypesEtablissement
    <3>3. QED BY <2>2, <2>3, <3>1, <3>2 DEF IInvEtablissement, TypesEtablissement
  <2>6. LienTenu'
    BY <2>2 DEF LienTenu, SansLien
  <2>7. PageTenue'
    BY <2>3, <2>4 DEF PageTenue
  <2>8. QED BY <2>5, <2>6, <2>7 DEF IInvEtablissement
<1>5. QED BY <1>3, <1>4

\* One more round: as many passwords as it has questions.
LEMMA EnvoyerEffet ==
  ASSUME TypesEtablissement, NEW n \in Nat, Envoyer(n)
  PROVE  /\ envois' \in [Maillons -> Nat] /\ lien.maillon \in Maillons
         /\ envois'[lien.maillon] = envois[lien.maillon] + n
         /\ \A i \in Maillons : i # lien.maillon => envois'[i] = envois[i]
BY DEF TypesEtablissement, Envoyer

LEMMA ParMotDePassePas ==
  ASSUME IInvEtablissement, ParMotDePasse
  PROVE  IInvEtablissement'
<1>0. /\ lien.etape = "mdp" /\ lien.maillon = N /\ page.phase = "appel" /\ TypesEtablissement
      /\ \A i \in Maillons : envois[i] = 0
  BY DEF ParMotDePasse, IInvEtablissement, LienTenu
<1>1. CASE Envoyer(1) /\ Etabli
  <2>1. envois' \in [Maillons -> Nat]
    BY <1>0, <1>1, EnvoyerEffet
  <2>2. QED BY <1>0, <1>1, <2>1, EtabliPas
<1>2. CASE /\ Envoyer(1) /\ lien' = [lien EXCEPT !.etape = "clavier", !.tours = 0]
           /\ UNCHANGED <<page, trousseau, tenues, vues, ouvertures>>
  <2>1. envois' \in [Maillons -> Nat] /\ envois'[N] = 1 /\ \A i \in Maillons : i # N => envois'[i] = 0
    BY <1>0, <1>2, EnvoyerEffet, Entiers
  <2>2. lien'.etape = "clavier" /\ lien'.maillon = N /\ lien'.tours = 0
    BY <1>0, <1>2 DEF TypesEtablissement
  <2>3. TypesEtablissement'
    <3>1. lien' \in [etape : Etapes, maillon : Maillons, tours : 0 .. TOURS_MAX]
      <4>1. 0 \in 0 .. TOURS_MAX /\ "clavier" \in Etapes
        BY Entiers DEF Etapes
      <4>2. QED BY <1>0, <1>2, <4>1 DEF TypesEtablissement
    <3>2. QED BY <1>0, <1>2, <2>1, <3>1 DEF TypesEtablissement
  <2>4. LienTenu'
    BY <1>0, <1>2, <2>1, <2>2, Entiers DEF IInvEtablissement, LienTenu
  <2>5. PageTenue'
    BY <1>0, <1>2, <2>2, PageImmobile DEF IInvEtablissement
  <2>6. QED BY <2>3, <2>4, <2>5 DEF IInvEtablissement
<1>3. CASE Echouer("autre")
  BY <1>0, <1>3, EchouerPas DEF Messages
<1>4. QED BY <1>1, <1>2, <1>3 DEF ParMotDePasse

\* The questions of one more round.
LEMMA UnTour ==
  ASSUME NEW q \in Nat, NEW t \in Nat, NEW e \in Nat, NEW n \in Nat, n <= q, e <= 1 + q * t
  PROVE  e + n <= 1 + q * (t + 1)
<1>1. q * (t + 1) = q * t + q
  OBVIOUS
<1>2. PICK p \in Nat : p = q * t
  OBVIOUS
<1>3. QED BY <1>1, <1>2

LEMMA ClavierPas ==
  ASSUME IInvEtablissement, Clavier
  PROVE  IInvEtablissement'
<1>0. /\ lien.etape = "clavier" /\ lien.maillon = N /\ page.phase = "appel" /\ TypesEtablissement
      /\ envois \in [Maillons -> Nat] /\ lien.tours \in 0 .. TOURS_MAX
      /\ \A i \in Maillons : i # N => envois[i] = 0
      /\ envois[N] <= 1 + QUESTIONS_MAX * lien.tours
  BY DEF Clavier, IInvEtablissement, LienTenu, TypesEtablissement
<1>1. CASE Etabli /\ UNCHANGED envois
  BY <1>0, <1>1, EtabliPas
<1>2. CASE /\ lien.tours < TOURS_MAX
           /\ \E n \in 0 .. QUESTIONS_MAX : Envoyer(n)
           /\ lien' = [lien EXCEPT !.tours = @ + 1]
           /\ UNCHANGED <<page, trousseau, tenues, vues, ouvertures>>
  <2>1. PICK n \in 0 .. QUESTIONS_MAX : Envoyer(n)
    BY <1>2
  <2>2. n \in Nat /\ n <= QUESTIONS_MAX /\ lien.tours \in Nat /\ envois[N] \in Nat
    BY <1>0, Entiers
  <2>3. envois' \in [Maillons -> Nat] /\ envois'[N] = envois[N] + n /\ \A i \in Maillons : i # N => envois'[i] = 0
    BY <1>0, <2>1, <2>2, EnvoyerEffet, Entiers
  <2>4. lien'.etape = "clavier" /\ lien'.maillon = N /\ lien'.tours = lien.tours + 1
    BY <1>0, <1>2 DEF TypesEtablissement
  <2>5. envois'[N] <= 1 + QUESTIONS_MAX * (lien.tours + 1)
    BY <1>0, <2>2, <2>3, UnTour, Entiers
  <2>6. lien.tours + 1 \in 0 .. TOURS_MAX
    BY <1>2, <2>2, Entiers
  <2>7. TypesEtablissement'
    BY <1>0, <1>2, <2>3, <2>6 DEF TypesEtablissement
  <2>8. LienTenu'
    BY <1>0, <1>2, <2>3, <2>4, <2>5 DEF IInvEtablissement, LienTenu
  <2>9. PageTenue'
    BY <1>0, <1>2, <2>4, PageImmobile DEF IInvEtablissement
  <2>10. QED BY <2>7, <2>8, <2>9 DEF IInvEtablissement
<1>3. CASE \E message \in {"refuse", "autre"} : Echouer(message)
  <2>1. PICK message \in {"refuse", "autre"} : Echouer(message)
    BY <1>3
  <2>2. message \in Messages
    BY DEF Messages
  <2>3. QED BY <1>0, <2>1, <2>2, EchouerPas
<1>4. QED BY <1>1, <1>2, <1>3 DEF Clavier

LEMMA EtablissementCommence == InitEtablissement => IInvEtablissement
<1> SUFFICES ASSUME InitEtablissement PROVE IInvEtablissement
  OBVIOUS
<1>1. TypesEtablissement
  <2>1. lien \in [etape : Etapes, maillon : Maillons, tours : 0 .. TOURS_MAX]
    BY Entiers DEF InitEtablissement, SansLien, Etapes
  <2>2. "" \in Messages /\ 0 \in 0 .. REFUS_MAX
    BY Entiers DEF Messages
  <2>3. QED BY <2>1, <2>2 DEF InitEtablissement, TypesEtablissement, PageNeuve
<1>2. LienTenu /\ PageTenue
  BY DEF InitEtablissement, LienTenu, PageTenue, PageNeuve, SansLien
<1>3. QED BY <1>1, <1>2 DEF IInvEtablissement

LEMMA EtablissementTient == IInvEtablissement /\ [NextEtablissement]_varsEtablissement => IInvEtablissement'
<1> SUFFICES ASSUME IInvEtablissement, [NextEtablissement]_varsEtablissement PROVE IInvEtablissement'
  OBVIOUS
<1>0. ASSUME lien.etape # "aucune" PROVE page.phase = "appel"
  BY <1>0 DEF IInvEtablissement, LienTenu
<1>1. CASE Ouvrir \/ SonderAgent \/ SaisirAvant \/ SaisirApres
  BY <1>1, PagePas
<1>2. CASE Connecter
  BY <1>2, ConnecterPas
<1>3. CASE JoindreTcp \/ OuvrirCanal
  <2>1. lien.etape \in {"tcp", "canal"} /\ (Avancer("poignee") \/ Echouer("autre"))
    BY <1>3 DEF JoindreTcp, OuvrirCanal
  <2>2. CASE Avancer("poignee")
    <3>1. "poignee" \in Etapes \ {"aucune", "tcp"}
      BY DEF Etapes
    <3>2. QED BY <2>1, <2>2, <3>1, AvancerPas
  <2>3. CASE Echouer("autre")
    BY <1>0, <2>1, <2>3, EchouerPas DEF Messages
  <2>4. QED BY <2>1, <2>2, <2>3
<1>4. CASE Poignee
  BY <1>4, PoigneePas
<1>5. CASE Expirer
  BY <1>0, <1>5, EchouerPas DEF Expirer, SousDelai, Messages
<1>6. CASE ParCle
  <2>1. CASE Etabli /\ UNCHANGED envois
    BY <1>6, <2>1, EtabliPas DEF ParCle, IInvEtablissement, TypesEtablissement
  <2>2. CASE Avancer("agent")
    <3>1. "agent" \in Etapes \ {"aucune", "tcp"} /\ lien.etape = "cle"
      BY <1>6 DEF Etapes, ParCle
    <3>2. QED BY <2>2, <3>1, AvancerPas
  <2>3. CASE Echouer("autre")
    BY <1>0, <1>6, <2>3, EchouerPas DEF ParCle, Messages
  <2>4. QED BY <1>6, <2>1, <2>2, <2>3 DEF ParCle
<1>7. CASE ParAgent
  <2>1. CASE Etabli /\ UNCHANGED envois
    BY <1>7, <2>1, EtabliPas DEF ParAgent, IInvEtablissement, TypesEtablissement
  <2>2. CASE AUnMdp(lien.maillon) /\ Avancer("mdp")
    <3>1. "mdp" \in Etapes \ {"aucune", "tcp"} /\ lien.etape = "agent" /\ lien.maillon = N
      BY <1>7, <2>2 DEF Etapes, ParAgent, AUnMdp
    <3>2. QED BY <2>2, <3>1, AvancerPas
  <2>3. CASE Echouer("mdp_requis")
    BY <1>0, <1>7, <2>3, EchouerPas DEF ParAgent, Messages
  <2>4. QED BY <1>7, <2>1, <2>2, <2>3 DEF ParAgent
<1>8. CASE ParMotDePasse
  BY <1>8, ParMotDePassePas
<1>9. CASE Clavier
  BY <1>9, ClavierPas
<1>10. CASE UNCHANGED varsEtablissement
  BY <1>10 DEF varsEtablissement, IInvEtablissement, TypesEtablissement, LienTenu, PageTenue
<1>11. QED BY <1>1, <1>2, <1>3, <1>4, <1>5, <1>6, <1>7, <1>8, <1>9, <1>10 DEF NextEtablissement

LEMMA EtablissementPromet == IInvEtablissement => EtablissementTenu
<1> SUFFICES ASSUME IInvEtablissement PROVE EtablissementTenu
  OBVIOUS
<1>1. RebondsTenus
  BY DEF IInvEtablissement, LienTenu, PageTenue, RebondsTenus
<1>2. MdpTenu
  <2> SUFFICES ASSUME lien.etape # "aucune", NEW i \in Maillons, envois[i] > 0
               PROVE  /\ i = N /\ i \in vues /\ Maillons \ {N} \subseteq tenues \cap vues
                      /\ envois[i] <= 1 + QUESTIONS_MAX * TOURS_MAX
    BY DEF MdpTenu
  <2>1. i = N /\ lien.etape = "clavier" /\ lien.maillon = N
    BY DEF IInvEtablissement, LienTenu
  <2>2. \A k \in Maillons : k # N => k < N
    BY Entiers DEF Maillons
  <2>3. N \in vues /\ Maillons \ {N} \subseteq tenues \cap vues
    BY <2>1, <2>2, Entiers DEF IInvEtablissement, LienTenu
  <2>4. lien.tours \in Nat /\ lien.tours <= TOURS_MAX /\ envois[N] \in Nat
        /\ envois[N] <= 1 + QUESTIONS_MAX * lien.tours
    BY <2>1, Entiers DEF IInvEtablissement, TypesEtablissement, LienTenu
  <2>5. \A q, t, u \in Nat : t <= u => q * t <= q * u
    OBVIOUS
  <2>6. QUESTIONS_MAX * lien.tours <= QUESTIONS_MAX * TOURS_MAX
    BY <2>4, <2>5, Entiers
  <2>7. QUESTIONS_MAX * lien.tours \in Nat /\ QUESTIONS_MAX * TOURS_MAX \in Nat
    BY <2>4, Entiers
  <2>8. PICK p \in Nat, r \in Nat : p = QUESTIONS_MAX * lien.tours /\ r = QUESTIONS_MAX * TOURS_MAX
    BY <2>7
  <2>9. envois[N] <= 1 + r
    BY <2>4, <2>6, <2>8
  <2>10. QED BY <2>1, <2>3, <2>8, <2>9
<1>3. QED BY <1>1, <1>2 DEF IInvEtablissement, EtablissementTenu

\* A password goes to the host of the tab alone, once its key is accepted and every
\* link before it authenticated, a bounded number of times; a live tab holds every
\* link of its chain (authenticate, connect_via).
THEOREM MdpToujoursTenu == SpecEtablissement => []EtablissementTenu
<1>1. QED BY EtablissementCommence, EtablissementTient, EtablissementPromet, PTL DEF SpecEtablissement

-----------------------------------------------------------------------------
(* Acheminement. *)

\* What the relay holds of a connection; before it, nothing moves.
Vide(k) ==
  /\ k.pc = "choix" /\ k.main = 0 /\ k.lot = 0
  /\ \A x \in Cotes : /\ k.emis[x] = 0 /\ k.recu[x] = 0 /\ k.entrant[x] = 0 /\ k.sortant[x] = 0
                      /\ ~k.close[x] /\ ~k.fin[x]

Relayee(k) ==
  /\ k.phase \in {"repos", "file", "negocie", "refuse"} => Vide(k) /\ Intacte(k)
  /\ k.phase = "joint" => Vide(k)
  /\ k.phase = "fini" => k.pc = "choix"
  /\ k.pc = "choix" => k.main = 0 /\ k.lot = 0
  /\ k.pc # "choix" => 0 < k.main /\ k.main <= k.lot

\* An uncut connection: its units, in order, and the ends it was told of.
Acheminee(k) == Intacte(k) => \A x \in Cotes :
  /\ k.emis[x] = k.entrant[x] + (IF k.pc = x THEN k.main ELSE 0) + Livre(k, x)
  /\ k.close[Autre(x)] => k.fin[x] /\ k.emis[x] = Livre(k, x)
  /\ k.phase = "fini" => k.close[x]
  /\ k.pc = x => k.lot - k.main <= Livre(k, x)

Tenable(k) == k \in Connexion /\ Relayee(k) /\ Acheminee(k)

\* The server knows the destination as long as clients may come.
Connue ==
  /\ tunnel.ecoute => tunnel.phase \in {"ouvre", "ouvert"}
  /\ tunnel.phase \in {"ouvre", "ouvert"} /\ genre = "remote" => tunnel.connu
  /\ \A c \in Connexions : cx[c].phase = "file" => tunnel.phase \in {"ouvre", "ouvert"}

\* A connection cut before its relay has brought nothing.
Comptee(k) == Intacte(k) \/ k.phase = "joint"

Comptes ==
  /\ actives = Cardinality({c \in Connexions : cx[c].phase = "relaie"})
  /\ (\A c \in Connexions : Comptee(cx[c])) => \A x \in Cotes : octets[x] = SumFunction(Portes(x))

TypesTunnel ==
  /\ genre \in Genres
  /\ tunnel \in [phase : {"repos", "ouvre", "ouvert", "ferme"}, ecoute : BOOLEAN, connu : BOOLEAN]
  /\ actives \in Nat /\ octets \in [Cotes -> Nat]

IInvAcheminement ==
  /\ TypesTunnel
  /\ cx \in [Connexions -> Connexion] /\ \A c \in Connexions : Tenable(cx[c])
  /\ Connue /\ Comptes

LEMMA TaillesTunnel ==
  IsFiniteSet(Connexions) /\ UNITES \in Nat /\ TAMPON \in Nat /\ TAMPON > 0 /\ LOT \in Nat /\ LOT > 0
BY AcheminementAssumption DEF AcheminementAssumption

\* What a connection has brought to the total.
Porte(k, x) == Livre(k, x) - IF k.pc = x THEN k.lot - k.main ELSE 0

LEMMA PorteTypee ==
  ASSUME NEW k, Tenable(k), Comptee(k), NEW x \in Cotes
  PROVE  Porte(k, x) \in Nat
<1>0. Autre(x) \in Cotes /\ k.recu[Autre(x)] \in Nat /\ k.sortant[Autre(x)] \in Nat /\ Livre(k, x) \in Nat
      /\ k.lot \in Nat /\ k.main \in Nat
  BY TaillesTunnel DEF Autre, Cotes, Tenable, Connexion, Livre
<1>1. CASE Intacte(k)
  <2>1. k.pc = x => k.main <= k.lot /\ k.lot - k.main <= Livre(k, x)
    BY <1>1 DEF Tenable, Relayee, Acheminee, Cotes
  <2>2. QED BY <1>0, <2>1 DEF Porte
<1>2. CASE k.phase = "joint"
  <2>1. k.pc = "choix"
    BY <1>2 DEF Tenable, Relayee, Vide
  <2>2. QED BY <1>0, <2>1 DEF Porte, Cotes
<1>3. QED BY <1>1, <1>2 DEF Comptee

\* Before the relay.
LEMMA Neuve ==
  ASSUME NEW k \in Connexion, Vide(k), k.phase # "fini",
         k.phase \in {"repos", "file", "negocie", "refuse"} => Intacte(k)
  PROVE  Tenable(k) /\ \A x \in Cotes : Porte(k, x) = 0
<1>1. Relayee(k)
  BY DEF Relayee, Vide
<1>2. \A x \in Cotes : Autre(x) \in Cotes
  BY DEF Cotes, Autre
<1>3. \A x \in Cotes : Livre(k, x) = 0 /\ k.pc # x
  BY <1>2 DEF Livre, Vide, Cotes
<1>4. Acheminee(k) /\ \A x \in Cotes : Porte(k, x) = 0
  BY <1>2, <1>3 DEF Acheminee, Porte, Vide
<1>5. QED BY <1>1, <1>4 DEF Tenable

\* One that has not begun, or was refused.
LEMMA RefuseNeuf ==
  ASSUME NEW k, k = Repos \/ k = [Repos EXCEPT !.phase = "refuse"]
  PROVE  k \in Connexion /\ Vide(k) /\ Intacte(k)
<1>1. /\ k.pc = "choix" /\ k.main = 0 /\ k.lot = 0 /\ k.close = Deux(FALSE) /\ k.emis = Deux(0)
      /\ k.recu = Deux(0) /\ k.entrant = Deux(0) /\ k.sortant = Deux(0) /\ k.fin = Deux(FALSE) /\ k.coupe = Deux(FALSE)
  <2>1. CASE k = Repos
    BY <2>1 DEF Repos
  <2>2. CASE k = [Repos EXCEPT !.phase = "refuse"]
    BY <2>2 DEF Repos
  <2>3. QED BY <2>1, <2>2
<1>2. Vide(k) /\ Intacte(k)
  BY <1>1 DEF Vide, Intacte, Deux, Cotes
<1>3. k \in Connexion
  <2>1. /\ Deux(0) \in [Cotes -> 0 .. TAMPON] /\ Deux(0) \in [Cotes -> Nat]
        /\ Deux(FALSE) \in [Cotes -> BOOLEAN] /\ 0 \in 0 .. LOT
    BY TaillesTunnel DEF Deux
  <2>2. Repos \in Connexion
    BY <2>1 DEF Repos, Connexion
  <2>3. [Repos EXCEPT !.phase = "refuse"] \in Connexion
    BY <2>2 DEF Connexion
  <2>4. QED BY <2>2, <2>3
<1>4. QED BY <1>2, <1>3

\* The connections being relayed, when one of them changes.
LEMMA RelayeesChangent ==
  ASSUME IInvAcheminement, NEW c \in Connexions, NEW k, cx' = [cx EXCEPT ![c] = k],
         \/ actives' = actives /\ (k.phase = "relaie" <=> cx[c].phase = "relaie")
         \/ actives' = actives + 1 /\ k.phase = "relaie" /\ cx[c].phase # "relaie"
         \/ actives' = actives - 1 /\ k.phase # "relaie" /\ cx[c].phase = "relaie"
  PROVE  actives' \in Nat /\ actives' = Cardinality({d \in Connexions : cx'[d].phase = "relaie"})
<1> DEFINE R == {d \in Connexions : cx[d].phase = "relaie"}
           Q == {d \in Connexions : cx'[d].phase = "relaie"}
<1>1. /\ IsFiniteSet(R) /\ actives = Cardinality(R) /\ actives \in Nat
  BY TaillesTunnel, FS_Subset DEF IInvAcheminement, Comptes, TypesTunnel
<1>2. \A d \in Connexions : cx'[d] = IF d = c THEN k ELSE cx[d]
  BY DEF IInvAcheminement
<1>3. CASE actives' = actives /\ (k.phase = "relaie" <=> cx[c].phase = "relaie")
  <2>1. Q = R
    BY <1>2, <1>3
  <2>2. QED BY <1>1, <1>3, <2>1
<1>4. CASE actives' = actives + 1 /\ k.phase = "relaie" /\ cx[c].phase # "relaie"
  <2>1. Q = R \cup {c} /\ c \notin R
    BY <1>2, <1>4
  <2>2. Cardinality(Q) = Cardinality(R) + 1
    BY <1>1, <2>1, FS_AddElement
  <2>3. QED BY <1>1, <1>4, <2>2
<1>5. CASE actives' = actives - 1 /\ k.phase # "relaie" /\ cx[c].phase = "relaie"
  <2>1. Q = R \ {c} /\ c \in R
    BY <1>2, <1>5
  <2>2. Cardinality(Q) = Cardinality(R) - 1 /\ IsFiniteSet(Q)
    BY <1>1, <2>1, FS_RemoveElement
  <2>3. Cardinality(Q) \in Nat
    BY <2>2, FS_CardinalityType
  <2>4. QED BY <1>1, <1>5, <2>2, <2>3
<1>6. QED BY <1>3, <1>4, <1>5

\* The total, when one of them changes.
LEMMA TotalChange ==
  ASSUME IInvAcheminement, NEW c \in Connexions, NEW k, cx' = [cx EXCEPT ![c] = k], Tenable(k),
         NEW x \in Cotes, octets' \in [Cotes -> Nat],
         \A d \in Connexions : Comptee(cx[d]), Comptee(k),
         octets'[x] + Porte(cx[c], x) = octets[x] + Porte(k, x)
  PROVE  octets'[x] = SumFunction(Portes(x)')
<1> DEFINE f == [d \in Connexions |-> Porte(cx[d], x)]
           e == [d \in Connexions |-> Porte(cx'[d], x)]
<1>1. \A d \in Connexions : cx'[d] = IF d = c THEN k ELSE cx[d]
  BY DEF IInvAcheminement
<1>2. f \in [Connexions -> Nat] /\ e \in [Connexions -> Nat]
  BY <1>1, PorteTypee DEF IInvAcheminement
<1>3. \A d \in Connexions : d # c => e[d] = f[d]
  BY <1>1
<1>4. e[c] = Porte(k, x) /\ f[c] = Porte(cx[c], x)
  BY <1>1
<1>5. Portes(x) = f /\ Portes(x)' = e
  BY DEF Portes, Porte, Livre
<1>6. octets[x] = SumFunction(f) /\ octets[x] \in Nat /\ octets'[x] \in Nat
  BY <1>5 DEF IInvAcheminement, Comptes, TypesTunnel
<1> HIDE DEF f, e
<1>7. SumFunction(f) \in Nat /\ SumFunction(e) \in Nat /\ SumFunction(e) + f[c] = SumFunction(f) + e[c]
  BY <1>2, <1>3, TaillesTunnel, SommeChange
<1>8. f[c] \in Nat /\ e[c] \in Nat
  BY <1>2
<1>9. octets'[x] + f[c] = SumFunction(e) + f[c]
  BY <1>4, <1>6, <1>7
<1>10. \A i, j, n \in Nat : i + n = j + n => i = j
  OBVIOUS
<1>11. octets'[x] = SumFunction(e)
  BY <1>6, <1>7, <1>8, <1>9, <1>10
<1>12. QED BY <1>5, <1>11

\* The step of one connection.
LEMMA UnPas ==
  ASSUME IInvAcheminement, NEW c \in Connexions, NEW k, cx' = [cx EXCEPT ![c] = k], Tenable(k),
         UNCHANGED <<genre, tunnel>>, octets' \in [Cotes -> Nat],
         \/ actives' = actives /\ (k.phase = "relaie" <=> cx[c].phase = "relaie")
         \/ actives' = actives + 1 /\ k.phase = "relaie" /\ cx[c].phase # "relaie"
         \/ actives' = actives - 1 /\ k.phase # "relaie" /\ cx[c].phase = "relaie",
         k.phase = "file" => tunnel.phase \in {"ouvre", "ouvert"},
         Comptee(k) => /\ Comptee(cx[c])
                       /\ \A x \in Cotes : octets'[x] + Porte(cx[c], x) = octets[x] + Porte(k, x)
  PROVE  IInvAcheminement'
<1>1. cx \in [Connexions -> Connexion] /\ k \in Connexion /\ \A d \in Connexions : Tenable(cx[d])
  BY DEF IInvAcheminement, Tenable
<1>2. \A d \in Connexions : cx'[d] = IF d = c THEN k ELSE cx[d]
  BY <1>1
<1>3. cx' \in [Connexions -> Connexion] /\ \A d \in Connexions : Tenable(cx'[d])
  BY <1>1, <1>2
<1>4. actives' \in Nat /\ actives' = Cardinality({d \in Connexions : cx'[d].phase = "relaie"})
  BY RelayeesChangent
<1>5. TypesTunnel'
  BY <1>4 DEF IInvAcheminement, TypesTunnel
<1>6. Connue'
  BY <1>2 DEF IInvAcheminement, Connue
<1>7. ASSUME \A d \in Connexions : Comptee(cx'[d]), NEW x \in Cotes
      PROVE  octets'[x] = SumFunction(Portes(x)')
  <2>1. Comptee(k) /\ \A d \in Connexions : d # c => Comptee(cx[d])
    BY <1>2, <1>7
  <2>2. \A d \in Connexions : Comptee(cx[d])
    BY <2>1
  <2>3. QED BY <2>1, <2>2, TotalChange
<1>8. Comptes'
  BY <1>4, <1>7 DEF Comptes, Comptee, Intacte
<1>9. QED BY <1>3, <1>5, <1>6, <1>8 DEF IInvAcheminement, Tenable, Relayee, Acheminee, Livre, Intacte

\* The connection after each step of a side.
ApresEmission(k, x) == [k EXCEPT !.emis[x] = @ + 1, !.entrant[x] = @ + 1]
ApresReception(k, x) == [k EXCEPT !.sortant[x] = @ - 1, !.recu[x] = @ + 1]
ApresLecture(k, x, n) == [k EXCEPT !.entrant[x] = @ - n, !.main = n, !.lot = n, !.pc = x]
ApresFin(k, x, p) == [k EXCEPT !.close[Autre(x)] = TRUE, !.phase = p]
ApresEcriture(k, x, p, l) == [k EXCEPT !.sortant[Autre(x)] = @ + 1, !.main = @ - 1, !.pc = p, !.lot = l]

\* What a step on a side changes: nothing that was counted, unless it says so.
LEMMA EmettreCote ==
  ASSUME NEW k, Tenable(k), NEW x \in Cotes, k.phase = "relaie", ~k.fin[x], k.entrant[x] < TAMPON,
         NEW j, j = ApresEmission(k, x)
  PROVE  Tenable(j) /\ j.phase = "relaie" /\ (Intacte(j) => Intacte(k) /\ \A y \in Cotes : Porte(j, y) = Porte(k, y))
<1>0. /\ k \in Connexion /\ k.entrant[x] \in Nat /\ k.entrant[x] + 1 \in 0 .. TAMPON /\ k.emis[x] \in Nat
  BY TaillesTunnel DEF Tenable, Connexion
<1>1. /\ j = [k EXCEPT !.emis = j.emis, !.entrant = j.entrant]
      /\ j.emis = [k.emis EXCEPT ![x] = k.emis[x] + 1] /\ j.entrant = [k.entrant EXCEPT ![x] = k.entrant[x] + 1]
  BY <1>0 DEF Connexion, ApresEmission
<1>2. j \in Connexion
  <2>1. j.emis \in [Cotes -> Nat] /\ j.entrant \in [Cotes -> 0 .. TAMPON]
    <3>1. k.emis \in [Cotes -> Nat] /\ k.entrant \in [Cotes -> 0 .. TAMPON] /\ k.emis[x] + 1 \in Nat
      BY <1>0 DEF Connexion
    <3>2. QED BY <1>0, <1>1, <3>1
  <2>2. j = [k EXCEPT !.emis = j.emis, !.entrant = j.entrant]
    BY <1>1
  <2>3. QED BY <1>0, <2>1, <2>2 DEF Connexion
<1>3. Relayee(j) /\ j.phase = "relaie"
  <2>1. j.phase = "relaie" /\ j.pc = k.pc /\ j.main = k.main /\ j.lot = k.lot
    BY <1>0, <1>1 DEF Connexion
  <2>2. QED BY <2>1 DEF Tenable, Relayee
<1>4. j.recu = k.recu /\ j.sortant = k.sortant /\ j.coupe = k.coupe /\ j.close = k.close /\ j.fin = k.fin
      /\ j.pc = k.pc /\ j.main = k.main /\ j.lot = k.lot
  BY <1>0, <1>1 DEF Connexion
<1>5. Intacte(j) <=> Intacte(k)
  BY <1>4 DEF Intacte
<1>6. \A y \in Cotes : Porte(j, y) = Porte(k, y) /\ Livre(j, y) = Livre(k, y)
  BY <1>4 DEF Porte, Livre
<1>7. Acheminee(j)
  <2> SUFFICES ASSUME Intacte(k), NEW y \in Cotes
               PROVE  /\ j.emis[y] = j.entrant[y] + (IF j.pc = y THEN j.main ELSE 0) + Livre(j, y)
                      /\ j.close[Autre(y)] => j.fin[y] /\ j.emis[y] = Livre(j, y)
                      /\ j.phase = "fini" => j.close[y]
                      /\ j.pc = y => j.lot - j.main <= Livre(j, y)
    BY <1>5 DEF Acheminee
  <2>1. /\ k.emis[y] = k.entrant[y] + (IF k.pc = y THEN k.main ELSE 0) + Livre(k, y)
        /\ k.close[Autre(y)] => k.fin[y] /\ k.emis[y] = Livre(k, y)
        /\ k.pc = y => k.lot - k.main <= Livre(k, y)
    BY DEF Tenable, Acheminee
  <2>2. k.entrant[y] \in Nat /\ k.emis[y] \in Nat /\ k.main \in Nat /\ Livre(k, y) \in Nat
    BY <1>0, TaillesTunnel DEF Connexion, Livre, Autre, Cotes
  <2>3. CASE y = x
    BY <1>0, <1>1, <1>3, <1>4, <1>6, <2>1, <2>2, <2>3 DEF Connexion
  <2>4. CASE y # x
    BY <1>0, <1>1, <1>3, <1>4, <1>6, <2>1, <2>2, <2>4 DEF Connexion
  <2>5. QED BY <2>3, <2>4
<1>8. QED BY <1>2, <1>3, <1>5, <1>6, <1>7 DEF Tenable

LEMMA FinirUnCote ==
  ASSUME NEW k, Tenable(k), NEW x \in Cotes, k.phase = "relaie",
         NEW j, j = [k EXCEPT !.fin[x] = TRUE]
  PROVE  Tenable(j) /\ j.phase = "relaie" /\ (Intacte(j) => Intacte(k) /\ \A y \in Cotes : Porte(j, y) = Porte(k, y))
<1>0. k \in Connexion
  BY DEF Tenable
<1>1. j = [k EXCEPT !.fin = j.fin] /\ j.fin = [k.fin EXCEPT ![x] = TRUE]
  BY <1>0 DEF Connexion
<1>2. j \in Connexion
  BY <1>0, <1>1 DEF Connexion
<1>3. Relayee(j) /\ j.phase = "relaie"
  <2>1. j.phase = "relaie" /\ j.pc = k.pc /\ j.main = k.main /\ j.lot = k.lot
    BY <1>0, <1>1 DEF Connexion
  <2>2. QED BY <2>1 DEF Tenable, Relayee
<1>4. j.recu = k.recu /\ j.sortant = k.sortant /\ j.coupe = k.coupe /\ j.close = k.close /\ j.emis = k.emis
      /\ j.entrant = k.entrant /\ j.pc = k.pc /\ j.main = k.main /\ j.lot = k.lot
  BY <1>0, <1>1 DEF Connexion
<1>5. Intacte(j) <=> Intacte(k)
  BY <1>4 DEF Intacte
<1>6. \A y \in Cotes : Porte(j, y) = Porte(k, y) /\ Livre(j, y) = Livre(k, y)
  BY <1>4 DEF Porte, Livre
<1>7. \A y \in Cotes : k.fin[y] => j.fin[y]
  BY <1>0, <1>1 DEF Connexion
<1>8. Acheminee(j)
  <2> SUFFICES ASSUME Intacte(k), NEW y \in Cotes
               PROVE  /\ j.emis[y] = j.entrant[y] + (IF j.pc = y THEN j.main ELSE 0) + Livre(j, y)
                      /\ j.close[Autre(y)] => j.fin[y] /\ j.emis[y] = Livre(j, y)
                      /\ j.phase = "fini" => j.close[y]
                      /\ j.pc = y => j.lot - j.main <= Livre(j, y)
    BY <1>5 DEF Acheminee
  <2>1. /\ k.emis[y] = k.entrant[y] + (IF k.pc = y THEN k.main ELSE 0) + Livre(k, y)
        /\ k.close[Autre(y)] => k.fin[y] /\ k.emis[y] = Livre(k, y)
        /\ k.pc = y => k.lot - k.main <= Livre(k, y)
    BY DEF Tenable, Acheminee
  <2>2. QED BY <1>3, <1>4, <1>6, <1>7, <2>1
<1>9. QED BY <1>2, <1>3, <1>5, <1>6, <1>8 DEF Tenable

LEMMA RecevoirCote ==
  ASSUME NEW k, Tenable(k), NEW x \in Cotes, k.sortant[x] > 0,
         NEW j, j = ApresReception(k, x)
  PROVE  /\ Tenable(j) /\ j.phase = k.phase /\ k.phase \in {"relaie", "fini"}
         /\ Intacte(j) => Intacte(k) /\ \A y \in Cotes : Porte(j, y) = Porte(k, y)
<1>0. /\ k \in Connexion /\ k.sortant[x] \in Nat /\ k.sortant[x] - 1 \in 0 .. TAMPON
      /\ k.recu[x] \in Nat /\ k.recu[x] + 1 \in Nat
  BY TaillesTunnel DEF Tenable, Connexion
<1>1. /\ j = [k EXCEPT !.sortant = j.sortant, !.recu = j.recu]
      /\ j.recu = [k.recu EXCEPT ![x] = k.recu[x] + 1] /\ j.sortant = [k.sortant EXCEPT ![x] = k.sortant[x] - 1]
  BY <1>0 DEF Connexion, ApresReception
<1>2. j \in Connexion
  <2>1. j.recu \in [Cotes -> Nat] /\ j.sortant \in [Cotes -> 0 .. TAMPON]
    <3>1. k.recu \in [Cotes -> Nat] /\ k.sortant \in [Cotes -> 0 .. TAMPON]
      BY <1>0 DEF Connexion
    <3>2. QED BY <1>0, <1>1, <3>1
  <2>2. j = [k EXCEPT !.sortant = j.sortant, !.recu = j.recu]
    BY <1>1
  <2>3. k \in Connexion
    BY <1>0
  <2>4. QED BY <2>1, <2>2, <2>3 DEF Connexion
<1>3. k.phase \in {"relaie", "fini"}
  <2>1. k.phase \in {"repos", "file", "negocie", "joint", "relaie", "fini", "refuse"}
    BY <1>0 DEF Connexion
  <2>2. ASSUME k.phase \in {"repos", "file", "negocie", "refuse"} PROVE k.sortant[x] = 0
    BY <2>2 DEF Tenable, Relayee, Vide
  <2>3. ASSUME k.phase = "joint" PROVE k.sortant[x] = 0
    BY <2>3 DEF Tenable, Relayee, Vide
  <2>4. QED BY <2>1, <2>2, <2>3
<1>4. Relayee(j) /\ j.phase = k.phase
  <2>1. j.phase = k.phase /\ j.pc = k.pc /\ j.main = k.main /\ j.lot = k.lot
    BY <1>0, <1>1 DEF Connexion
  <2>2. QED BY <1>3, <2>1 DEF Tenable, Relayee
<1>5. j.emis = k.emis /\ j.entrant = k.entrant /\ j.coupe = k.coupe /\ j.close = k.close /\ j.fin = k.fin
      /\ j.pc = k.pc /\ j.main = k.main /\ j.lot = k.lot
  BY <1>0, <1>1 DEF Connexion
<1>6. Intacte(j) <=> Intacte(k)
  BY <1>5 DEF Intacte
<1>7. \A z \in Cotes : j.recu[z] + j.sortant[z] = k.recu[z] + k.sortant[z]
  <2> SUFFICES ASSUME NEW z \in Cotes PROVE j.recu[z] + j.sortant[z] = k.recu[z] + k.sortant[z]
    OBVIOUS
  <2>1. CASE z = x
    BY <1>0, <1>1, <2>1 DEF Connexion
  <2>2. CASE z # x
    BY <1>0, <1>1, <2>2 DEF Connexion
  <2>3. QED BY <2>1, <2>2
<1>8. \A y \in Cotes : Porte(j, y) = Porte(k, y) /\ Livre(j, y) = Livre(k, y)
  BY <1>5, <1>7 DEF Porte, Livre, Autre, Cotes
<1>9. Acheminee(j)
  BY <1>4, <1>5, <1>6, <1>8 DEF Tenable, Acheminee
<1>10. QED BY <1>2, <1>3, <1>4, <1>6, <1>8, <1>9 DEF Tenable

\* A side that goes: nothing is promised of the connection any more.
LEMMA PerdreCote ==
  ASSUME NEW k, Tenable(k), NEW x \in Cotes, k.phase \in {"joint", "relaie"}, NEW j, j = Perdre(k, x)
  PROVE  /\ Tenable(j) /\ j.phase = k.phase /\ ~Intacte(j) /\ j.pc = k.pc
         /\ k.phase = "joint" => \A y \in Cotes : Porte(j, y) = 0
<1>0. k \in Connexion /\ 0 \in 0 .. TAMPON
  BY TaillesTunnel DEF Tenable
<1>1. /\ j = [k EXCEPT !.coupe = j.coupe, !.entrant = j.entrant, !.sortant = j.sortant]
      /\ j.coupe = [k.coupe EXCEPT ![x] = TRUE] /\ j.entrant = [k.entrant EXCEPT ![x] = 0]
      /\ j.sortant = [k.sortant EXCEPT ![x] = 0]
  BY <1>0 DEF Connexion, Perdre
<1>2. j \in Connexion
  <2>1. /\ j.coupe \in [Cotes -> BOOLEAN] /\ j.entrant \in [Cotes -> 0 .. TAMPON]
        /\ j.sortant \in [Cotes -> 0 .. TAMPON]
    <3>1. /\ k.coupe \in [Cotes -> BOOLEAN] /\ k.entrant \in [Cotes -> 0 .. TAMPON]
          /\ k.sortant \in [Cotes -> 0 .. TAMPON]
      BY <1>0 DEF Connexion
    <3>2. QED BY <1>0, <1>1, <3>1
  <2>2. j = [k EXCEPT !.coupe = j.coupe, !.entrant = j.entrant, !.sortant = j.sortant]
    BY <1>1
  <2>3. QED BY <1>0, <2>1, <2>2 DEF Connexion
<1>3. j.phase = k.phase /\ j.pc = k.pc /\ j.coupe[x] /\ j.main = k.main /\ j.lot = k.lot
  <2>1. j.phase = k.phase /\ j.pc = k.pc /\ j.main = k.main /\ j.lot = k.lot
    BY <1>0, <1>1 DEF Connexion
  <2>2. j.coupe[x]
    <3>1. k.coupe \in [Cotes -> BOOLEAN]
      BY <1>0 DEF Connexion
    <3>2. QED BY <1>1, <3>1
  <2>3. QED BY <2>1, <2>2
<1>4. ~Intacte(j)
  BY <1>3 DEF Intacte
<1>5. CASE k.phase = "joint"
  <2>1. Vide(k)
    BY <1>5 DEF Tenable, Relayee
  <2>2. j.emis = k.emis /\ j.recu = k.recu /\ j.close = k.close /\ j.fin = k.fin
    BY <1>0, <1>1 DEF Connexion
  <2>3. k.entrant \in [Cotes -> 0 .. TAMPON] /\ k.sortant \in [Cotes -> 0 .. TAMPON]
    BY <1>0 DEF Connexion
  <2>4. \A y \in Cotes : j.entrant[y] = 0 /\ j.sortant[y] = 0
    BY <1>1, <2>1, <2>3 DEF Vide
  <2>5. Vide(j)
    BY <1>3, <2>1, <2>2, <2>4 DEF Vide
  <2>6. QED BY <1>2, <1>3, <1>4, <1>5, <2>5, Neuve
<1>6. CASE k.phase = "relaie"
  <2>1. Relayee(j)
    BY <1>3, <1>6 DEF Tenable, Relayee
  <2>2. Acheminee(j)
    BY <1>4 DEF Acheminee
  <2>3. QED BY <1>2, <1>3, <1>4, <1>6, <2>1, <2>2 DEF Tenable
<1>7. QED BY <1>5, <1>6

\* A lot leaves the side it was on, for the hand of the relay.
LEMMA LireCote ==
  ASSUME NEW k, Tenable(k), NEW x \in Cotes, k.phase = "relaie", k.pc = "choix", ~k.close[Autre(x)],
         NEW n \in Nat, 0 < n, n <= LOT, n <= k.entrant[x],
         NEW j, j = ApresLecture(k, x, n)
  PROVE  Tenable(j) /\ j.phase = "relaie" /\ (Intacte(j) => Intacte(k) /\ \A y \in Cotes : Porte(j, y) = Porte(k, y))
<1>0. /\ k \in Connexion /\ k.entrant \in [Cotes -> 0 .. TAMPON] /\ k.entrant[x] - n \in 0 .. TAMPON
      /\ k.entrant[x] \in Nat /\ n \in 0 .. LOT /\ x \in {"choix", "a", "b"} /\ x # "choix"
  <2>1. k \in Connexion
    BY DEF Tenable
  <2>2. k.entrant \in [Cotes -> 0 .. TAMPON]
    BY <2>1 DEF Connexion
  <2>3. k.entrant[x] \in Nat /\ k.entrant[x] - n \in 0 .. TAMPON
    BY <2>2, TaillesTunnel
  <2>4. QED BY <2>1, <2>2, <2>3, TaillesTunnel DEF Cotes
<1>1. /\ j = [k EXCEPT !.entrant = j.entrant, !.main = n, !.lot = n, !.pc = x]
      /\ j.entrant = [k.entrant EXCEPT ![x] = k.entrant[x] - n]
  BY <1>0 DEF Connexion, ApresLecture
<1>2. j \in Connexion
  <2>1. j.entrant \in [Cotes -> 0 .. TAMPON]
    BY <1>0, <1>1
  <2>2. j = [k EXCEPT !.entrant = j.entrant, !.main = n, !.lot = n, !.pc = x]
    BY <1>1
  <2>3. QED BY <1>0, <2>1, <2>2 DEF Connexion
<1>3. /\ j.phase = k.phase /\ j.pc = x /\ j.main = n /\ j.lot = n /\ j.emis = k.emis /\ j.recu = k.recu
      /\ j.sortant = k.sortant /\ j.coupe = k.coupe /\ j.close = k.close /\ j.fin = k.fin
  BY <1>0, <1>1 DEF Connexion
<1>4. Relayee(j)
  BY <1>0, <1>3 DEF Relayee
<1>5. Intacte(j) <=> Intacte(k)
  BY <1>3 DEF Intacte
<1>6. \A y \in Cotes : Livre(j, y) = Livre(k, y) /\ Livre(k, y) \in Nat
  <2>1. \A y \in Cotes : Livre(j, y) = Livre(k, y)
    BY <1>3 DEF Livre
  <2>2. \A y \in Cotes : Livre(k, y) \in Nat
    BY <1>0, TaillesTunnel DEF Connexion, Livre, Autre, Cotes
  <2>3. QED BY <2>1, <2>2
<1>7. \A y \in Cotes : Porte(j, y) = Porte(k, y)
  BY <1>3, <1>6 DEF Porte, Cotes
<1>8. Acheminee(j)
  <2> SUFFICES ASSUME Intacte(k), NEW y \in Cotes
               PROVE  /\ j.emis[y] = j.entrant[y] + (IF j.pc = y THEN j.main ELSE 0) + Livre(j, y)
                      /\ j.close[Autre(y)] => j.fin[y] /\ j.emis[y] = Livre(j, y)
                      /\ j.phase = "fini" => j.close[y]
                      /\ j.pc = y => j.lot - j.main <= Livre(j, y)
    BY <1>5 DEF Acheminee
  <2>1. /\ k.emis[y] = k.entrant[y] + 0 + Livre(k, y)
        /\ k.close[Autre(y)] => k.fin[y] /\ k.emis[y] = Livre(k, y)
    BY DEF Tenable, Acheminee, Cotes
  <2>2. k.entrant[y] \in Nat /\ Livre(k, y) \in Nat
    <3>1. k.entrant[y] \in 0 .. TAMPON
      BY <1>0
    <3>2. QED BY <1>6, <3>1, TaillesTunnel
  <2>3. CASE y = x
    <3>1. j.entrant[y] = k.entrant[y] - n
      BY <1>0, <1>1, <2>3
    <3>2. QED BY <1>0, <1>3, <1>6, <2>1, <2>2, <2>3, <3>1
  <2>4. CASE y # x
    <3>1. j.entrant[y] = k.entrant[y]
      BY <1>0, <1>1, <2>4
    <3>2. QED BY <1>3, <1>6, <2>1, <2>2, <2>4, <3>1
  <2>5. QED BY <2>3, <2>4
<1>9. QED BY <1>2, <1>3, <1>4, <1>5, <1>7, <1>8 DEF Tenable

\* The end of a side is told to the other; the second one ends the relay.
LEMMA LireFinCote ==
  ASSUME NEW k, Tenable(k), NEW x \in Cotes, k.phase = "relaie", k.pc = "choix",
         k.entrant[x] = 0, k.fin[x] \/ k.coupe[x], NEW p \in {"relaie", "fini"}, p = "fini" => k.close[x],
         NEW j, j = ApresFin(k, x, p)
  PROVE  Tenable(j) /\ j.phase = p /\ (Intacte(j) => Intacte(k) /\ \A y \in Cotes : Porte(j, y) = Porte(k, y))
<1>0. k \in Connexion /\ k.close \in [Cotes -> BOOLEAN] /\ Autre(x) \in Cotes
  BY DEF Tenable, Connexion, Autre, Cotes
<1>1. /\ j = [k EXCEPT !.close = j.close, !.phase = p]
      /\ j.close = [k.close EXCEPT ![Autre(x)] = TRUE]
  BY <1>0 DEF Connexion, ApresFin
<1>2. j \in Connexion
  <2>1. j.close \in [Cotes -> BOOLEAN]
    BY <1>0, <1>1
  <2>2. j = [k EXCEPT !.close = j.close, !.phase = p]
    BY <1>1
  <2>3. QED BY <1>0, <2>1, <2>2 DEF Connexion
<1>3. /\ j.phase = p /\ j.pc = k.pc /\ j.main = k.main /\ j.lot = k.lot /\ j.emis = k.emis /\ j.recu = k.recu
      /\ j.sortant = k.sortant /\ j.coupe = k.coupe /\ j.entrant = k.entrant /\ j.fin = k.fin
  BY <1>0, <1>1 DEF Connexion
<1>4. Relayee(j)
  BY <1>3 DEF Tenable, Relayee
<1>5. Intacte(j) <=> Intacte(k)
  BY <1>3 DEF Intacte
<1>6. \A y \in Cotes : Livre(j, y) = Livre(k, y) /\ Porte(j, y) = Porte(k, y)
  BY <1>3 DEF Livre, Porte
<1>7. \A y \in Cotes : j.close[y] <=> y = Autre(x) \/ k.close[y]
  BY <1>0, <1>1
<1>8. Acheminee(j)
  <2> SUFFICES ASSUME Intacte(k), NEW y \in Cotes
               PROVE  /\ j.emis[y] = j.entrant[y] + (IF j.pc = y THEN j.main ELSE 0) + Livre(j, y)
                      /\ j.close[Autre(y)] => j.fin[y] /\ j.emis[y] = Livre(j, y)
                      /\ j.phase = "fini" => j.close[y]
                      /\ j.pc = y => j.lot - j.main <= Livre(j, y)
    BY <1>5 DEF Acheminee
  <2>1. /\ k.emis[y] = k.entrant[y] + 0 + Livre(k, y) /\ k.pc # y
        /\ k.close[Autre(y)] => k.fin[y] /\ k.emis[y] = Livre(k, y)
    BY DEF Tenable, Acheminee, Cotes
  <2>2. Livre(k, y) \in Nat
    BY <1>0, TaillesTunnel DEF Connexion, Livre, Autre, Cotes
  <2>3. y = x \/ y = Autre(x)
    BY DEF Cotes, Autre
  <2>4. y = x => k.fin[y] /\ k.emis[y] = Livre(k, y)
    BY <2>1, <2>2 DEF Intacte
  <2>5. y # x => Autre(y) # Autre(x)
    BY DEF Cotes, Autre
  <2>6. Autre(y) \in Cotes
    BY DEF Cotes, Autre
  <2>7. QED BY <1>3, <1>6, <1>7, <2>1, <2>3, <2>4, <2>5, <2>6
<1>9. QED BY <1>2, <1>3, <1>4, <1>5, <1>6, <1>8 DEF Tenable

\* A unit is written; the lot is counted with the last one.
LEMMA EcrireUnite ==
  ASSUME NEW k, Tenable(k), NEW x \in Cotes, k.phase = "relaie", k.pc = x, k.sortant[Autre(x)] < TAMPON,
         NEW p, NEW l, p = (IF k.main > 1 THEN k.pc ELSE "choix"), l = (IF k.main > 1 THEN k.lot ELSE 0),
         NEW j, j = ApresEcriture(k, x, p, l)
  PROVE  /\ Tenable(j) /\ j.phase = "relaie"
         /\ Intacte(j) => /\ Intacte(k)
                          /\ \A y \in Cotes : Porte(j, y) = Porte(k, y)
                                                + IF y = x /\ k.main <= 1 THEN k.lot ELSE 0
<1>0. /\ k \in Connexion /\ k.sortant \in [Cotes -> 0 .. TAMPON] /\ Autre(x) \in Cotes
      /\ k.sortant[Autre(x)] \in Nat /\ k.sortant[Autre(x)] + 1 \in 0 .. TAMPON
      /\ k.main \in 0 .. LOT /\ k.lot \in 0 .. LOT /\ k.main \in Nat /\ k.lot \in Nat /\ 0 < k.main /\ k.main <= k.lot
      /\ x # "choix" /\ x \in {"a", "b"}
  <2>1. k \in Connexion /\ Autre(x) \in Cotes /\ x # "choix" /\ x \in {"a", "b"}
    BY DEF Tenable, Autre, Cotes
  <2>2. k.sortant \in [Cotes -> 0 .. TAMPON] /\ k.main \in 0 .. LOT /\ k.lot \in 0 .. LOT
    BY <2>1 DEF Connexion
  <2>3. 0 < k.main /\ k.main <= k.lot
    BY <2>1 DEF Tenable, Relayee
  <2>4. k.sortant[Autre(x)] \in 0 .. TAMPON
    BY <2>1, <2>2
  <2>5. k.sortant[Autre(x)] \in Nat /\ k.sortant[Autre(x)] + 1 \in 0 .. TAMPON
    BY <2>4, TaillesTunnel
  <2>6. k.main \in Nat /\ k.lot \in Nat
    BY <2>2, TaillesTunnel
  <2>7. QED BY <2>1, <2>2, <2>3, <2>5, <2>6
<1>1. /\ j = [k EXCEPT !.sortant = j.sortant, !.main = k.main - 1, !.pc = p, !.lot = l]
      /\ j.sortant = [k.sortant EXCEPT ![Autre(x)] = k.sortant[Autre(x)] + 1]
  BY <1>0 DEF Connexion, ApresEcriture
<1>2. p \in {"choix", "a", "b"} /\ l \in 0 .. LOT /\ k.main - 1 \in 0 .. LOT
  BY <1>0, TaillesTunnel
<1>3. PICK m \in 0 .. LOT : m = k.main - 1
  BY <1>2
<1>4. /\ j \in Connexion
      /\ j.phase = k.phase /\ j.pc = p /\ j.main = k.main - 1 /\ j.lot = l /\ j.emis = k.emis /\ j.recu = k.recu
      /\ j.entrant = k.entrant /\ j.coupe = k.coupe /\ j.close = k.close /\ j.fin = k.fin
  <2>1. PICK a \in [Cotes -> 0 .. TAMPON] : a = j.sortant
    BY <1>0, <1>1
  <2>2. k \in Connexion
    BY <1>0
  <2>3. PICK q \in {"choix", "a", "b"}, r \in 0 .. LOT : q = p /\ r = l
    BY <1>2
  <2>4. PICK i : i = [k EXCEPT !.sortant = a, !.main = m]
    OBVIOUS
  <2>5. /\ i \in Connexion
        /\ i.phase = k.phase /\ i.main = m /\ i.emis = k.emis /\ i.recu = k.recu
        /\ i.entrant = k.entrant /\ i.coupe = k.coupe /\ i.close = k.close /\ i.fin = k.fin
    BY <2>2, <2>4 DEF Connexion
  <2>6. j = [i EXCEPT !.pc = q, !.lot = r]
    BY <1>1, <1>3, <2>1, <2>3, <2>4
  <2>7. /\ j \in Connexion
        /\ j.phase = i.phase /\ j.pc = q /\ j.main = i.main /\ j.lot = r /\ j.emis = i.emis
        /\ j.recu = i.recu /\ j.entrant = i.entrant /\ j.coupe = i.coupe /\ j.close = i.close /\ j.fin = i.fin
    BY <2>5, <2>6 DEF Connexion
  <2>8. QED BY <1>3, <2>3, <2>5, <2>7
<1>5. Relayee(j)
  BY <1>0, <1>4 DEF Relayee
<1>6. Intacte(j) <=> Intacte(k)
  BY <1>4 DEF Intacte
<1>7. \A y \in Cotes : Livre(k, y) \in Nat
  BY <1>0, TaillesTunnel DEF Connexion, Livre, Autre, Cotes
<1>8. Livre(j, x) = Livre(k, x) + 1 /\ \A y \in Cotes : y # x => Livre(j, y) = Livre(k, y)
  <2>1. j.sortant[Autre(x)] = k.sortant[Autre(x)] + 1
    BY <1>0, <1>1
  <2>2. \A z \in Cotes : z # Autre(x) => j.sortant[z] = k.sortant[z]
    BY <1>0, <1>1
  <2>3. \A y \in Cotes : Autre(y) \in Cotes /\ (y # x => Autre(y) # Autre(x))
    BY DEF Autre, Cotes
  <2>4. k.recu[Autre(x)] \in Nat
    BY <1>0 DEF Connexion
  <2>5. k.sortant[Autre(x)] \in Nat /\ j.recu = k.recu
    BY <1>0, <1>4
  <2>6. Livre(j, x) = Livre(k, x) + 1
    BY <2>1, <2>4, <2>5 DEF Livre
  <2>7. QED BY <2>2, <2>3, <2>5, <2>6 DEF Livre
<1>9. \A y \in Cotes : Porte(j, y) = Porte(k, y) + IF y = x /\ k.main <= 1 THEN k.lot ELSE 0
  <2> SUFFICES ASSUME NEW y \in Cotes
               PROVE  Porte(j, y) = Porte(k, y) + IF y = x /\ k.main <= 1 THEN k.lot ELSE 0
    OBVIOUS
  <2>1. CASE y = x /\ k.main <= 1
    BY <1>0, <1>4, <1>7, <1>8, <2>1 DEF Porte
  <2>2. CASE y = x /\ k.main > 1
    BY <1>0, <1>4, <1>7, <1>8, <2>2 DEF Porte
  <2>3. CASE y # x
    <3>1. j.pc # y /\ k.pc # y
      BY <1>0, <1>4, <2>3 DEF Cotes
    <3>2. QED BY <1>7, <1>8, <2>3, <3>1 DEF Porte
  <2>4. QED BY <1>0, <2>1, <2>2, <2>3
<1>10. Acheminee(j)
  <2> SUFFICES ASSUME Intacte(k), NEW y \in Cotes
               PROVE  /\ j.emis[y] = j.entrant[y] + (IF j.pc = y THEN j.main ELSE 0) + Livre(j, y)
                      /\ j.close[Autre(y)] => j.fin[y] /\ j.emis[y] = Livre(j, y)
                      /\ j.phase = "fini" => j.close[y]
                      /\ j.pc = y => j.lot - j.main <= Livre(j, y)
    BY <1>6 DEF Acheminee
  <2>1. /\ k.emis[y] = k.entrant[y] + (IF k.pc = y THEN k.main ELSE 0) + Livre(k, y)
        /\ k.close[Autre(y)] => k.fin[y] /\ k.emis[y] = Livre(k, y)
        /\ k.pc = y => k.lot - k.main <= Livre(k, y)
    BY DEF Tenable, Acheminee
  <2>2. k.entrant[y] \in Nat /\ k.emis[y] \in Nat /\ Livre(k, y) \in Nat
    BY <1>0, <1>7, TaillesTunnel DEF Connexion
  <2>3. CASE y = x
    <3>1. ~k.close[Autre(y)]
      BY <1>0, <2>1, <2>2, <2>3
    <3>2. j.emis[y] = j.entrant[y] + (IF j.pc = y THEN j.main ELSE 0) + Livre(j, y)
      BY <1>0, <1>4, <1>8, <2>1, <2>2, <2>3
    <3>3. j.pc = y => j.lot - j.main <= Livre(j, y)
      BY <1>0, <1>4, <1>8, <2>1, <2>2, <2>3
    <3>4. QED BY <1>4, <3>1, <3>2, <3>3
  <2>4. CASE y # x
    <3>1. j.pc # y /\ k.pc # y
      BY <1>0, <1>4, <2>4 DEF Cotes
    <3>2. QED BY <1>4, <1>8, <2>1, <2>4, <3>1
  <2>5. QED BY <2>3, <2>4
<1>11. QED BY <1>4, <1>5, <1>6, <1>9, <1>10 DEF Tenable

\* The other side is gone.
LEMMA CasserConnexion ==
  ASSUME NEW k, Tenable(k), k.phase = "relaie", k.pc # "choix", k.coupe[Autre(k.pc)],
         NEW j, j = [Perdre(k, k.pc) EXCEPT !.pc = "choix", !.main = 0, !.lot = 0, !.phase = "fini"]
  PROVE  Tenable(j) /\ j.phase = "fini" /\ ~Intacte(j)
<1>0. k \in Connexion /\ k.pc \in Cotes /\ Perdre(k, k.pc) \in Connexion /\ 0 \in 0 .. LOT
  <2>1. k \in Connexion /\ k.pc \in Cotes
    BY DEF Tenable, Connexion, Cotes
  <2>2. QED BY <2>1, PerdreCote, TaillesTunnel DEF Tenable
<1>1. /\ j \in Connexion /\ j.phase = "fini" /\ j.pc = "choix" /\ j.main = 0 /\ j.lot = 0
      /\ j.coupe = Perdre(k, k.pc).coupe
  BY <1>0 DEF Connexion
<1>2. j.coupe[k.pc]
  <2>1. k.coupe \in [Cotes -> BOOLEAN]
    BY <1>0 DEF Connexion
  <2>2. Perdre(k, k.pc).coupe = [k.coupe EXCEPT ![k.pc] = TRUE]
    BY <1>0 DEF Perdre, Connexion
  <2>3. QED BY <1>0, <1>1, <2>1, <2>2
<1>3. ~Intacte(j)
  BY <1>0, <1>2 DEF Intacte
<1>4. QED BY <1>1, <1>3 DEF Tenable, Relayee, Acheminee

LEMMA ConnexionTenable ==
  ASSUME IInvAcheminement, NEW c \in Connexions
  PROVE  /\ Tenable(cx[c]) /\ cx[c] \in Connexion
         /\ \A y \in Cotes : Comptee(cx[c]) => Porte(cx[c], y) \in Nat /\ octets[y] + Porte(cx[c], y) \in Nat
         /\ octets \in [Cotes -> Nat]
<1>1. Tenable(cx[c]) /\ cx[c] \in Connexion /\ octets \in [Cotes -> Nat]
  BY DEF IInvAcheminement, TypesTunnel, Tenable
<1>2. QED BY <1>1, PorteTypee

\* A step of a connection that counts nothing.
LEMMA BoutPas ==
  ASSUME IInvAcheminement, NEW c \in Connexions, NEW k, Bout(c, k), Tenable(k),
         k.phase = "relaie" <=> cx[c].phase = "relaie",
         k.phase = "file" => tunnel.phase \in {"ouvre", "ouvert"},
         Comptee(k) => Comptee(cx[c]) /\ \A y \in Cotes : Porte(k, y) = Porte(cx[c], y)
  PROVE  IInvAcheminement'
<1>1. cx' = [cx EXCEPT ![c] = k] /\ UNCHANGED <<genre, tunnel, actives, octets>>
  BY DEF Bout, Ailleurs
<1>2. octets' \in [Cotes -> Nat]
  BY <1>1, ConnexionTenable
<1>3. Comptee(k) => /\ Comptee(cx[c])
                    /\ \A y \in Cotes : octets'[y] + Porte(cx[c], y) = octets[y] + Porte(k, y)
  BY <1>1
<1>4. actives' = actives
  BY <1>1
<1>5. UNCHANGED <<genre, tunnel>>
  BY <1>1
<1>6. QED BY <1>1, <1>2, <1>3, <1>4, <1>5, UnPas

\* A connection before its relay.
LEMMA AvantPas ==
  ASSUME IInvAcheminement, NEW c \in Connexions, NEW p \in {"file", "negocie", "refuse", "joint"},
         cx' = [cx EXCEPT ![c].phase = p], Ailleurs, cx[c].phase \in {"repos", "file", "negocie"},
         p = "file" => tunnel.phase \in {"ouvre", "ouvert"}
  PROVE  IInvAcheminement'
<1>1. PICK k : k = [cx[c] EXCEPT !.phase = p]
  OBVIOUS
<1>2. cx[c] \in Connexion /\ Vide(cx[c]) /\ Intacte(cx[c])
  BY ConnexionTenable DEF Tenable, Relayee
<1>3. /\ k \in Connexion /\ k.phase = p /\ k.pc = cx[c].pc /\ k.main = cx[c].main /\ k.lot = cx[c].lot
      /\ k.emis = cx[c].emis /\ k.recu = cx[c].recu /\ k.entrant = cx[c].entrant /\ k.sortant = cx[c].sortant
      /\ k.close = cx[c].close /\ k.fin = cx[c].fin /\ k.coupe = cx[c].coupe
  BY <1>1, <1>2 DEF Connexion
<1>4. Vide(k) /\ Intacte(k)
  BY <1>2, <1>3 DEF Vide, Intacte
<1>5. Tenable(k) /\ \A y \in Cotes : Porte(k, y) = 0
  BY <1>3, <1>4, Neuve
<1>6. \A y \in Cotes : Porte(cx[c], y) = 0
  BY <1>2, Neuve DEF Tenable, Relayee
<1>7. Bout(c, k)
  BY <1>1 DEF Bout
<1>8. QED BY <1>2, <1>3, <1>5, <1>6, <1>7, BoutPas DEF Comptee

LEMMA JoindrePas ==
  ASSUME IInvAcheminement, NEW c \in Connexions, Joindre(c)
  PROVE  IInvAcheminement'
<1>0. cx[c].phase = "joint" /\ cx[c] \in Connexion /\ Vide(cx[c]) /\ octets \in [Cotes -> Nat]
  BY ConnexionTenable DEF Joindre, Tenable, Relayee
<1>1. Comptee(cx[c]) /\ \A y \in Cotes : Porte(cx[c], y) = 0
  BY <1>0, Neuve DEF Comptee
<1>2. CASE cx' = [cx EXCEPT ![c].phase = "relaie"] /\ actives' = actives + 1 /\ UNCHANGED <<genre, tunnel, octets>>
  <2>1. PICK k : k = [cx[c] EXCEPT !.phase = "relaie"]
    OBVIOUS
  <2>2. /\ k \in Connexion /\ k.phase = "relaie" /\ k.pc = cx[c].pc /\ k.main = cx[c].main /\ k.lot = cx[c].lot
        /\ k.emis = cx[c].emis /\ k.recu = cx[c].recu /\ k.entrant = cx[c].entrant /\ k.sortant = cx[c].sortant
        /\ k.close = cx[c].close /\ k.fin = cx[c].fin
    BY <1>0, <2>1 DEF Connexion
  <2>3. Vide(k)
    BY <1>0, <2>2 DEF Vide
  <2>4. Tenable(k) /\ \A y \in Cotes : Porte(k, y) = 0
    BY <2>2, <2>3, Neuve
  <2>5. cx' = [cx EXCEPT ![c] = k] /\ octets' \in [Cotes -> Nat] /\ octets' = octets
    BY <1>0, <1>2, <2>1
  <2>6. Comptee(k) => /\ Comptee(cx[c])
                      /\ \A y \in Cotes : octets'[y] + Porte(cx[c], y) = octets[y] + Porte(k, y)
    BY <1>1, <2>4, <2>5
  <2>7. actives' = actives + 1 /\ k.phase = "relaie" /\ cx[c].phase # "relaie" /\ UNCHANGED <<genre, tunnel>>
    BY <1>0, <1>2, <2>2
  <2>8. QED BY <2>2, <2>4, <2>5, <2>6, <2>7, UnPas
<1>3. CASE cx' = [cx EXCEPT ![c] = [Repos EXCEPT !.phase = "refuse"]] /\ Ailleurs
  <2>1. PICK k : k = [Repos EXCEPT !.phase = "refuse"]
    OBVIOUS
  <2>2. k \in Connexion /\ Vide(k) /\ Intacte(k) /\ k.phase = "refuse"
    BY <2>1, RefuseNeuf DEF Repos
  <2>3. Tenable(k) /\ \A y \in Cotes : Porte(k, y) = 0
    BY <2>2, Neuve
  <2>4. Bout(c, k)
    BY <1>3, <2>1 DEF Bout
  <2>5. QED BY <1>0, <1>1, <2>2, <2>3, <2>4, BoutPas
<1>4. QED BY <1>2, <1>3 DEF Joindre

LEMMA DeplacerPas ==
  ASSUME IInvAcheminement, NEW c \in Connexions, NEW x \in Cotes,
         Emettre(c, x) \/ FinirCote(c, x) \/ Recevoir(c, x) \/ CouperCote(c, x) \/ Lire(c, x)
  PROVE  IInvAcheminement'
<1>00. PICK k : k = cx[c]
  OBVIOUS
<1>0. Tenable(k) /\ k \in Connexion
  BY <1>00, ConnexionTenable
<1>1. CASE Emettre(c, x)
  <2>1. PICK j : j = ApresEmission(k, x)
    OBVIOUS
  <2>2. k.phase = "relaie" /\ ~k.fin[x] /\ k.entrant[x] < TAMPON /\ Bout(c, j)
    BY <1>1, <2>1, <1>00 DEF Emettre, ApresEmission
  <2>3. Tenable(j) /\ j.phase = "relaie" /\ (Intacte(j) => Intacte(k) /\ \A y \in Cotes : Porte(j, y) = Porte(k, y))
    BY <1>0, <2>1, <2>2, EmettreCote
  <2>4. QED BY <2>2, <2>3, <1>00, BoutPas DEF Comptee
<1>2. CASE FinirCote(c, x)
  <2>1. PICK j : j = [k EXCEPT !.fin[x] = TRUE]
    OBVIOUS
  <2>2. k.phase = "relaie" /\ Bout(c, j)
    BY <1>2, <2>1, <1>00 DEF FinirCote
  <2>3. Tenable(j) /\ j.phase = "relaie" /\ (Intacte(j) => Intacte(k) /\ \A y \in Cotes : Porte(j, y) = Porte(k, y))
    BY <1>0, <2>1, <2>2, FinirUnCote
  <2>4. QED BY <2>2, <2>3, <1>00, BoutPas DEF Comptee
<1>3. CASE Recevoir(c, x)
  <2>1. PICK j : j = ApresReception(k, x)
    OBVIOUS
  <2>2. k.sortant[x] > 0 /\ Bout(c, j)
    BY <1>3, <2>1, <1>00 DEF Recevoir, ApresReception
  <2>3. /\ Tenable(j) /\ j.phase = k.phase /\ k.phase \in {"relaie", "fini"}
        /\ Intacte(j) => Intacte(k) /\ \A y \in Cotes : Porte(j, y) = Porte(k, y)
    BY <1>0, <2>1, <2>2, RecevoirCote
  <2>4. QED BY <2>2, <2>3, <1>00, BoutPas DEF Comptee
<1>4. CASE CouperCote(c, x)
  <2>1. PICK j : j = Perdre(k, x)
    OBVIOUS
  <2>2. k.phase = "relaie" /\ Bout(c, j)
    BY <1>4, <2>1, <1>00 DEF CouperCote
  <2>3. Tenable(j) /\ j.phase = "relaie" /\ ~Intacte(j)
    BY <1>0, <2>1, <2>2, PerdreCote
  <2>4. QED BY <2>2, <2>3, <1>00, BoutPas DEF Comptee
<1>5. CASE Lire(c, x)
  <2>1. PICK n : n = IF k.entrant[x] < LOT THEN k.entrant[x] ELSE LOT
    OBVIOUS
  <2>2. PICK j : j = ApresLecture(k, x, n)
    OBVIOUS
  <2>3. k.phase = "relaie" /\ k.pc = "choix" /\ ~k.close[Autre(x)] /\ n > 0 /\ Bout(c, j)
    BY <1>5, <2>1, <2>2, <1>00 DEF Lire, ApresLecture
  <2>4. k.entrant[x] \in Nat
    BY <1>0, TaillesTunnel DEF Connexion
  <2>5. n \in Nat /\ n <= LOT /\ n <= k.entrant[x] /\ 0 < n
    BY <2>1, <2>3, <2>4, TaillesTunnel
  <2>6. Tenable(j) /\ j.phase = "relaie" /\ (Intacte(j) => Intacte(k) /\ \A y \in Cotes : Porte(j, y) = Porte(k, y))
    BY <1>0, <2>2, <2>3, <2>5, LireCote
  <2>7. QED BY <2>3, <2>6, <1>00, BoutPas DEF Comptee
<1>6. QED BY <1>1, <1>2, <1>3, <1>4, <1>5

\* The end of a relay.
LEMMA RendrePas ==
  ASSUME IInvAcheminement, NEW c \in Connexions, NEW k, NEW j, Rendre(c, k), j = [k EXCEPT !.phase = "fini"],
         Tenable(j), j.phase = "fini", cx[c].phase = "relaie",
         Intacte(j) => Intacte(cx[c]) /\ \A y \in Cotes : Porte(j, y) = Porte(cx[c], y)
  PROVE  IInvAcheminement'
<1>1. cx' = [cx EXCEPT ![c] = j] /\ actives' = actives - 1 /\ UNCHANGED <<genre, tunnel>> /\ octets' = octets
  BY DEF Rendre
<1>2. octets' \in [Cotes -> Nat]
  BY <1>1, ConnexionTenable
<1>3. Comptee(j) => /\ Comptee(cx[c])
                    /\ \A y \in Cotes : octets'[y] + Porte(cx[c], y) = octets[y] + Porte(j, y)
  BY <1>1 DEF Comptee
<1>4. QED BY <1>1, <1>2, <1>3, UnPas

LEMMA LireFinPas ==
  ASSUME IInvAcheminement, NEW c \in Connexions, NEW x \in Cotes, LireFin(c, x)
  PROVE  IInvAcheminement'
<1>00. PICK i : i = cx[c]
  OBVIOUS
<1>0. Tenable(i) /\ i \in Connexion
  BY <1>00, ConnexionTenable
<1>1. /\ i.phase = "relaie" /\ i.pc = "choix" /\ i.entrant[x] = 0 /\ (i.fin[x] \/ i.coupe[x])
  BY <1>00 DEF LireFin
<1>2. PICK k : k = [i EXCEPT !.close[Autre(x)] = TRUE]
  OBVIOUS
<1>3. CASE i.close[x]
  <2>1. Rendre(c, k)
    BY <1>2, <1>3, <1>00 DEF LireFin
  <2>2. PICK j : j = [k EXCEPT !.phase = "fini"]
    OBVIOUS
  <2>3. j = ApresFin(i, x, "fini")
    BY <1>2, <2>2 DEF ApresFin
  <2>4. Tenable(j) /\ j.phase = "fini" /\ (Intacte(j) => Intacte(i) /\ \A y \in Cotes : Porte(j, y) = Porte(i, y))
    BY <1>0, <1>1, <1>3, <2>3, LireFinCote
  <2>5. QED BY <1>1, <2>1, <2>2, <2>4, <1>00, RendrePas
<1>4. CASE ~i.close[x]
  <2>1. Bout(c, k)
    BY <1>2, <1>4, <1>00 DEF LireFin
  <2>2. k = ApresFin(i, x, "relaie")
    BY <1>0, <1>1, <1>2 DEF Connexion, ApresFin
  <2>3. Tenable(k) /\ k.phase = "relaie" /\ (Intacte(k) => Intacte(i) /\ \A y \in Cotes : Porte(k, y) = Porte(i, y))
    BY <1>0, <1>1, <2>2, LireFinCote
  <2>4. QED BY <1>1, <2>1, <2>3, <1>00, BoutPas DEF Comptee
<1>5. QED BY <1>3, <1>4

LEMMA EcrirePasCote ==
  ASSUME IInvAcheminement, NEW c \in Connexions, NEW x \in Cotes, EcrireCote(c, x)
  PROVE  IInvAcheminement'
<1>00. PICK i : i = cx[c]
  OBVIOUS
<1>0. Tenable(i) /\ i \in Connexion /\ octets \in [Cotes -> Nat]
  BY <1>00, ConnexionTenable
<1>1. i.phase = "relaie" /\ i.pc = x /\ i.sortant[Autre(x)] < TAMPON
  BY <1>00 DEF EcrireCote
<1>2. PICK p : p = (IF i.main > 1 THEN i.pc ELSE "choix")
  OBVIOUS
<1>3. PICK l : l = (IF i.main > 1 THEN i.lot ELSE 0)
  OBVIOUS
<1>4. PICK j : j = ApresEcriture(i, x, p, l)
  OBVIOUS
<1>5. /\ Tenable(j) /\ j.phase = "relaie"
      /\ Intacte(j) => /\ Intacte(i)
                       /\ \A y \in Cotes : Porte(j, y) = Porte(i, y)
                                             + IF y = x /\ i.main <= 1 THEN i.lot ELSE 0
  BY <1>0, <1>1, <1>2, <1>3, <1>4, EcrireUnite
<1>6. PICK k : k = [i EXCEPT !.sortant[Autre(x)] = @ + 1, !.main = @ - 1]
  OBVIOUS
<1>7. i.main \in Nat /\ i.lot \in Nat
  BY <1>0, TaillesTunnel DEF Connexion
<1>8. CASE i.main > 1
  <2>1. Bout(c, k)
    BY <1>6, <1>8, <1>00 DEF EcrireCote
  <2>2. j = k
    BY <1>0, <1>2, <1>3, <1>4, <1>6, <1>8 DEF Connexion, ApresEcriture
  <2>3. ~(i.main <= 1)
    BY <1>7, <1>8
  <2>4. Comptee(j) => Comptee(i) /\ \A y \in Cotes : Porte(j, y) = Porte(i, y)
    BY <1>5, <2>3, <1>00, ConnexionTenable DEF Comptee
  <2>5. QED BY <1>1, <1>5, <2>1, <2>2, <2>4, <1>00, BoutPas
<1>9. CASE ~(i.main > 1)
  <2>1. /\ cx' = [cx EXCEPT ![c] = [k EXCEPT !.pc = "choix", !.lot = 0]]
        /\ octets' = [octets EXCEPT ![x] = octets[x] + i.lot]
        /\ UNCHANGED <<genre, tunnel, actives>>
    BY <1>6, <1>9, <1>00 DEF EcrireCote
  <2>2. j = [k EXCEPT !.pc = "choix", !.lot = 0]
    BY <1>2, <1>3, <1>4, <1>6, <1>9 DEF ApresEcriture
  <2>3. i.main <= 1
    BY <1>7, <1>9
  <2>4. /\ octets' \in [Cotes -> Nat] /\ octets'[x] = octets[x] + i.lot
        /\ \A y \in Cotes : y # x => octets'[y] = octets[y]
    BY <1>0, <1>7, <2>1
  <2>5. ASSUME Comptee(j), NEW y \in Cotes
        PROVE  Comptee(i) /\ octets'[y] + Porte(i, y) = octets[y] + Porte(j, y)
    <3>1. Intacte(j) /\ Intacte(i)
      BY <1>5, <2>5 DEF Comptee
    <3>2. Comptee(i) /\ Porte(i, y) \in Nat /\ octets[y] \in Nat
      BY <1>0, <3>1, PorteTypee DEF Comptee
    <3>3. CASE y = x
      <4>1. Porte(j, y) = Porte(i, y) + i.lot
        BY <1>5, <2>3, <3>1, <3>3
      <4>2. QED BY <1>7, <2>4, <3>2, <3>3, <4>1
    <3>4. CASE y # x
      <4>1. Porte(j, y) = Porte(i, y) + 0
        BY <1>5, <3>1, <3>4
      <4>2. QED BY <2>4, <3>2, <3>4, <4>1
    <3>5. QED BY <3>3, <3>4
  <2>6. cx' = [cx EXCEPT ![c] = j] /\ actives' = actives /\ UNCHANGED <<genre, tunnel>>
    BY <2>1, <2>2
  <2>7. Comptee(j) => /\ Comptee(i)
                      /\ \A y \in Cotes : octets'[y] + Porte(i, y) = octets[y] + Porte(j, y)
    BY <2>5, <1>5 DEF Comptee
  <2>8. QED BY <1>1, <1>5, <2>4, <2>6, <2>7, <1>00, UnPas
<1>10. QED BY <1>8, <1>9

LEMMA CasserPas ==
  ASSUME IInvAcheminement, NEW c \in Connexions, Casser(c)
  PROVE  IInvAcheminement'
<1>0. Tenable(cx[c])
  BY ConnexionTenable
<1>1. cx[c].phase = "relaie" /\ cx[c].pc # "choix" /\ cx[c].coupe[Autre(cx[c].pc)]
  BY DEF Casser
<1>2. PICK k : k = [Perdre(cx[c], cx[c].pc) EXCEPT !.pc = "choix", !.main = 0, !.lot = 0]
  OBVIOUS
<1>3. Rendre(c, k)
  BY <1>2 DEF Casser
<1>4. PICK j : j = [k EXCEPT !.phase = "fini"]
  OBVIOUS
<1>5. j = [Perdre(cx[c], cx[c].pc) EXCEPT !.pc = "choix", !.main = 0, !.lot = 0, !.phase = "fini"]
  BY <1>2, <1>4
<1>6. Tenable(j) /\ j.phase = "fini" /\ ~Intacte(j)
  BY <1>0, <1>1, <1>5, CasserConnexion
<1>7. QED BY <1>1, <1>3, <1>4, <1>6, RendrePas

\* The tunnel that closes takes what waits, and the side of the session.
LEMMA FermerPas ==
  ASSUME IInvAcheminement, FermerTunnel
  PROVE  IInvAcheminement'
<1>1. /\ tunnel' = [phase |-> "ferme", ecoute |-> FALSE, connu |-> FALSE]
      /\ UNCHANGED <<genre, actives, octets>>
      /\ cx' = [c \in Connexions |->
              IF cx[c].phase = "file" THEN [Repos EXCEPT !.phase = "refuse"]
              ELSE IF cx[c].phase \in {"joint", "relaie"} THEN Perdre(cx[c], CoteCanal)
              ELSE cx[c]]
  BY DEF FermerTunnel
<1>2. CoteCanal \in Cotes
  BY DEF CoteCanal, Cotes
<1>3. ASSUME NEW c \in Connexions
      PROVE  /\ Tenable(cx'[c]) /\ cx'[c] \in Connexion /\ cx'[c].phase # "file"
             /\ cx'[c].phase = "relaie" <=> cx[c].phase = "relaie"
             /\ Comptee(cx'[c]) => Comptee(cx[c]) /\ \A y \in Cotes : Porte(cx'[c], y) = Porte(cx[c], y)
  <2>0. Tenable(cx[c]) /\ cx[c] \in Connexion
    BY ConnexionTenable
  <2>1. CASE cx[c].phase = "file"
    <3>1. PICK k : k = [Repos EXCEPT !.phase = "refuse"]
      OBVIOUS
    <3>2. k \in Connexion /\ Vide(k) /\ Intacte(k) /\ k.phase = "refuse"
      BY <3>1, RefuseNeuf DEF Repos
    <3>3. Tenable(k) /\ \A y \in Cotes : Porte(k, y) = 0
      BY <3>2, Neuve
    <3>4. Intacte(cx[c]) /\ \A y \in Cotes : Porte(cx[c], y) = 0
      BY <2>0, <2>1, Neuve DEF Tenable, Relayee
    <3>5. cx'[c] = k
      BY <1>1, <2>1, <3>1
    <3>6. QED BY <2>1, <3>2, <3>3, <3>4, <3>5 DEF Comptee
  <2>2. CASE cx[c].phase \in {"joint", "relaie"}
    <3>1. PICK k : k = Perdre(cx[c], CoteCanal)
      OBVIOUS
    <3>2. /\ Tenable(k) /\ k.phase = cx[c].phase /\ ~Intacte(k)
          /\ cx[c].phase = "joint" => \A y \in Cotes : Porte(k, y) = 0
      BY <1>2, <2>0, <2>2, <3>1, PerdreCote
    <3>3. cx'[c] = k
      BY <1>1, <2>2, <3>1
    <3>4. cx[c].phase = "joint" => \A y \in Cotes : Porte(cx[c], y) = 0
      BY <2>0, Neuve DEF Tenable, Relayee
    <3>5. QED BY <2>2, <3>2, <3>3, <3>4 DEF Comptee, Tenable
  <2>3. CASE cx[c].phase \notin {"file", "joint", "relaie"}
    <3>1. cx'[c] = cx[c]
      BY <1>1, <2>3
    <3>2. QED BY <2>0, <2>3, <3>1
  <2>4. QED BY <2>1, <2>2, <2>3
<1>4. cx' \in [Connexions -> Connexion]
  <2>1. cx' = [c \in Connexions |-> cx'[c]]
    BY <1>1
  <2>2. QED BY <1>3, <2>1
<1>5. TypesTunnel' /\ Connue'
  BY <1>1, <1>3 DEF IInvAcheminement, TypesTunnel, Connue
<1>6. {c \in Connexions : cx'[c].phase = "relaie"} = {c \in Connexions : cx[c].phase = "relaie"}
  BY <1>3
<1>7. ASSUME \A c \in Connexions : Comptee(cx'[c]), NEW y \in Cotes
      PROVE  octets'[y] = SumFunction(Portes(y)')
  <2>1. \A c \in Connexions : Comptee(cx[c]) /\ Porte(cx'[c], y) = Porte(cx[c], y)
    BY <1>3, <1>7
  <2>2. Portes(y) = [c \in Connexions |-> Porte(cx[c], y)] /\ Portes(y)' = [c \in Connexions |-> Porte(cx'[c], y)]
    BY DEF Portes, Porte, Livre
  <2>3. Portes(y)' = Portes(y)
    BY <2>1, <2>2
  <2>4. octets[y] = SumFunction(Portes(y))
    BY <2>1 DEF IInvAcheminement, Comptes
  <2>5. QED BY <1>1, <2>3, <2>4
<1>8. Comptes'
  BY <1>1, <1>6, <1>7 DEF IInvAcheminement, Comptes, Comptee, Intacte
<1>9. \A c \in Connexions : Tenable(cx[c])'
  BY <1>3 DEF Tenable, Relayee, Acheminee, Livre, Intacte, Vide
<1>10. QED BY <1>4, <1>5, <1>8, <1>9 DEF IInvAcheminement

LEMMA AcheminementCommence == InitAcheminement => IInvAcheminement
<1> SUFFICES ASSUME InitAcheminement PROVE IInvAcheminement
  OBVIOUS
<1>1. TypesTunnel /\ Connue
  BY DEF InitAcheminement, TypesTunnel, Connue, Repos, Deux
<1>2. PICK k : k = Repos
  OBVIOUS
<1>3. k \in Connexion /\ Vide(k) /\ Intacte(k) /\ k.phase = "repos"
  BY <1>2, RefuseNeuf DEF Repos
<1>4. Tenable(k) /\ \A y \in Cotes : Porte(k, y) = 0
  BY <1>3, Neuve
<1>5. cx = [c \in Connexions |-> k] /\ actives = 0 /\ octets = [y \in Cotes |-> 0]
  BY <1>2 DEF InitAcheminement, Deux
<1>6. cx \in [Connexions -> Connexion] /\ \A c \in Connexions : cx[c] = k
  BY <1>3, <1>5
<1>7. actives = Cardinality({c \in Connexions : cx[c].phase = "relaie"})
  <2>1. {c \in Connexions : cx[c].phase = "relaie"} = {}
    BY <1>3, <1>6
  <2>2. QED BY <1>5, <2>1, FS_EmptySet
<1>8. ASSUME NEW y \in Cotes PROVE octets[y] = SumFunction(Portes(y))
  <2>1. Portes(y) = [c \in Connexions |-> Porte(cx[c], y)]
    BY DEF Portes, Porte, Livre
  <2>2. PICK f : f = [c \in Connexions |-> 0]
    OBVIOUS
  <2>3. Portes(y) = f
    BY <1>4, <1>6, <2>1, <2>2
  <2>4. f \in [Connexions -> Nat] /\ \A c \in Connexions : f[c] = 0
    BY <2>2
  <2>5. SumFunction(f) = 0
    BY <2>4, TaillesTunnel, SommeNulle
  <2>6. QED BY <1>5, <2>3, <2>5
<1>9. Comptes
  BY <1>7, <1>8 DEF Comptes
<1>10. QED BY <1>1, <1>4, <1>6, <1>9 DEF IInvAcheminement

LEMMA TunnelPas ==
  ASSUME IInvAcheminement, DemanderTunnel \/ EcouterServeur \/ OuvrirTunnel \/ UNCHANGED varsAcheminement
  PROVE  IInvAcheminement'
<1>1. UNCHANGED <<genre, cx, actives, octets>>
  BY DEF DemanderTunnel, EcouterServeur, OuvrirTunnel, varsAcheminement
<1>2. TypesTunnel'
  BY <1>1 DEF IInvAcheminement, TypesTunnel, DemanderTunnel, EcouterServeur, OuvrirTunnel, varsAcheminement
<1>3. Connue'
  BY <1>1 DEF IInvAcheminement, TypesTunnel, Connue, DemanderTunnel, EcouterServeur, OuvrirTunnel, varsAcheminement
<1>4. Comptes'
  BY <1>1 DEF IInvAcheminement, Comptes, Comptee, Intacte, Portes, Livre
<1>5. \A c \in Connexions : Tenable(cx[c])'
  BY <1>1 DEF IInvAcheminement, Tenable, Relayee, Acheminee, Livre, Intacte, Vide
<1>6. QED BY <1>1, <1>2, <1>3, <1>4, <1>5 DEF IInvAcheminement

LEMMA AcheminementTient == IInvAcheminement /\ [NextAcheminement]_varsAcheminement => IInvAcheminement'
<1> SUFFICES ASSUME IInvAcheminement, [NextAcheminement]_varsAcheminement PROVE IInvAcheminement'
  OBVIOUS
<1>1. CASE DemanderTunnel \/ EcouterServeur \/ OuvrirTunnel \/ UNCHANGED varsAcheminement
  BY <1>1, TunnelPas
<1>2. CASE FermerTunnel
  BY <1>2, FermerPas
<1>3. CASE \E c \in Connexions : Arriver(c) \/ Accepter(c) \/ Negocier(c)
  <2>1. PICK c \in Connexions : Arriver(c) \/ Accepter(c) \/ Negocier(c)
    BY <1>3
  <2>2. PICK p \in {"file", "negocie", "refuse", "joint"} :
          /\ cx' = [cx EXCEPT ![c].phase = p] /\ Ailleurs /\ cx[c].phase \in {"repos", "file", "negocie"}
          /\ p = "file" => tunnel.phase \in {"ouvre", "ouvert"}
    <3>1. CASE Arriver(c)
      BY <3>1 DEF Arriver, IInvAcheminement, Connue
    <3>2. CASE Accepter(c)
      <4>1. genre \in {"local", "remote", "dynamic"}
        BY AcheminementAssumption DEF AcheminementAssumption, IInvAcheminement, TypesTunnel
      <4>2. QED BY <3>2, <4>1 DEF Accepter
    <3>3. CASE Negocier(c)
      BY <3>3 DEF Negocier
    <3>4. QED BY <2>1, <3>1, <3>2, <3>3
  <2>3. QED BY <2>2, AvantPas
<1>4. CASE \E c \in Connexions : Joindre(c) \/ Casser(c)
  BY <1>4, JoindrePas, CasserPas
<1>5. CASE \E c \in Connexions : \E x \in Cotes :
             Emettre(c, x) \/ FinirCote(c, x) \/ Recevoir(c, x) \/ CouperCote(c, x) \/ Lire(c, x)
  BY <1>5, DeplacerPas
<1>6. CASE \E c \in Connexions : \E x \in Cotes : LireFin(c, x) \/ EcrireCote(c, x)
  BY <1>6, LireFinPas, EcrirePasCote
<1>7. QED BY <1>1, <1>2, <1>3, <1>4, <1>5, <1>6 DEF NextAcheminement

LEMMA AcheminementPromet == IInvAcheminement => AcheminementTenu
<1> SUFFICES ASSUME IInvAcheminement PROVE AcheminementTenu
  OBVIOUS
<1>1. TypesAcheminement
  BY DEF IInvAcheminement, TypesTunnel, TypesAcheminement
<1>2. RienDePerdu
  BY DEF IInvAcheminement, Tenable, Acheminee, RienDePerdu
<1>3. ComptesVrais
  BY DEF IInvAcheminement, Comptes, Comptee, ComptesVrais
<1>4. QED BY <1>1, <1>2, <1>3 DEF AcheminementTenu

\* Every unit of an uncut connection is somewhere between its two ends, an end is told
\* of the end of the other after its last unit, and the interface shows the connections
\* being relayed and the units written (ForwardCounters::relay).
THEOREM RelaisToujoursTenu == SpecAcheminement => []AcheminementTenu
<1>1. QED BY AcheminementCommence, AcheminementTient, AcheminementPromet, PTL DEF SpecAcheminement

LEMMA ConnueAuPas ==
  ASSUME IInvAcheminement, [NextAcheminement]_varsAcheminement, NEW c \in Connexions,
         cx[c].phase = "file", cx'[c].phase = "refuse"
  PROVE  tunnel'.phase = "ferme"
<1>1. cx \in [Connexions -> Connexion] /\ tunnel.phase \in {"ouvre", "ouvert"} /\ (genre = "remote" => tunnel.connu)
      /\ genre \in {"local", "remote", "dynamic"}
  BY AcheminementAssumption DEF AcheminementAssumption, IInvAcheminement, Connue, TypesTunnel
<1>2. CASE FermerTunnel
  BY <1>2 DEF FermerTunnel
<1>3. CASE DemanderTunnel \/ EcouterServeur \/ OuvrirTunnel \/ UNCHANGED varsAcheminement
  BY <1>3 DEF DemanderTunnel, EcouterServeur, OuvrirTunnel, varsAcheminement
<1>4. CASE \E d \in Connexions : Accepter(d)
  <2>1. PICK d \in Connexions : Accepter(d)
    BY <1>4
  <2>2. PICK p \in {"negocie", "joint"} : cx' = [cx EXCEPT ![d].phase = p]
    BY <1>1, <2>1 DEF Accepter
  <2>3. QED BY <1>1, <2>2 DEF Connexion
<1>5. ASSUME NEW d \in Connexions, NEW k, cx' = [cx EXCEPT ![d] = k], cx[d].phase # "file" PROVE FALSE
  BY <1>1, <1>5
<1>6. ASSUME NEW d \in Connexions, NEW p, cx' = [cx EXCEPT ![d].phase = p], cx[d].phase # "file" PROVE FALSE
  BY <1>1, <1>6
<1>7. CASE \E d \in Connexions : Arriver(d) \/ Negocier(d) \/ Joindre(d)
  BY <1>5, <1>6, <1>7 DEF Arriver, Negocier, Joindre
<1>8. CASE \E d \in Connexions : Casser(d)
  BY <1>5, <1>8 DEF Casser, Rendre
<1>9. CASE \E d \in Connexions : \E x \in Cotes : Emettre(d, x) \/ FinirCote(d, x) \/ CouperCote(d, x) \/ Lire(d, x)
  BY <1>5, <1>9 DEF Emettre, FinirCote, CouperCote, Lire, Bout
<1>10. CASE \E d \in Connexions : \E x \in Cotes : Recevoir(d, x)
  <2>1. PICK d \in Connexions, x \in Cotes : Recevoir(d, x)
    BY <1>10
  <2>2. PICK j : j = [cx[d] EXCEPT !.sortant[x] = @ - 1, !.recu[x] = @ + 1]
    OBVIOUS
  <2>3. cx[d].sortant[x] > 0 /\ cx' = [cx EXCEPT ![d] = j]
    BY <2>1, <2>2 DEF Recevoir, Bout
  <2>4. cx[d].phase \in {"relaie", "fini"}
    BY <2>2, <2>3, RecevoirCote, ConnexionTenable
  <2>5. QED BY <1>5, <2>3, <2>4
<1>11. CASE \E d \in Connexions : \E x \in Cotes : LireFin(d, x) \/ EcrireCote(d, x)
  BY <1>5, <1>11 DEF LireFin, EcrireCote, Bout, Rendre
<1>12. QED BY <1>2, <1>3, <1>4, <1>7, <1>8, <1>9, <1>10, <1>11 DEF NextAcheminement

\* A client that the server lets through before its answer to the request finds its
\* destination (comment of remote_forward).
THEOREM DestinationToujoursConnue == SpecAcheminement => ConnueAvant
<1>1. IInvAcheminement /\ [NextAcheminement]_varsAcheminement =>
        [\A c \in Connexions :
           cx[c].phase = "file" /\ cx'[c].phase = "refuse" => tunnel'.phase = "ferme"]_varsAcheminement
  BY ConnueAuPas
<1>2. QED BY <1>1, AcheminementCommence, AcheminementTient, PTL DEF SpecAcheminement, ConnueAvant

-----------------------------------------------------------------------------
(* The scenes of MCSsh: one component moves, the others stay where they began. *)

LEMMA ScenesTiennent ==
  IInvEtablissement /\ IInvAcheminement /\ [NextScenes]_toutes => IInvEtablissement' /\ IInvAcheminement'
<1>1. [NextScenes]_toutes => [NextEtablissement]_varsEtablissement /\ [NextAcheminement]_varsAcheminement
  BY DEF NextScenes, EnChaine, EnSession, EnTunnel, toutes, varsEtablissement, varsAcheminement
<1>2. QED BY <1>1, EtablissementTient, AcheminementTient

\* What a tab that connects and the connections of its tunnels promise, in every
\* behaviour of the run that checks it (authenticate, connect_via, relay).
THEOREM SshToujoursTenu == SpecScenes => []SshTenu
<1>1. InitScenes => IInvEtablissement /\ IInvAcheminement
  BY EtablissementCommence, AcheminementCommence DEF InitScenes
<1>2. IInvEtablissement /\ IInvAcheminement => SshTenu
  BY EtablissementPromet, AcheminementPromet DEF SshTenu
<1>3. QED BY <1>1, <1>2, ScenesTiennent, PTL DEF SpecScenes
-----------------------------------------------------------------------------
(* Folds.  The equation that FoldLeft solves has a solution; it goes         *)
(* along the sequence, one element after the other.                          *)

\* Induction up to n, on a set: where something holds.
LEMMA Echelle ==
  ASSUME NEW n \in Nat, NEW T, 0 \in T, \A k \in 1 .. n : k - 1 \in T => k \in T
  PROVE  \A k \in 0 .. n : k \in T
<1> DEFINE U == {k \in Nat : k <= n => k \in T}
<1>1. 0 \in U
  OBVIOUS
<1>2. ASSUME NEW k \in Nat, k \in U PROVE k + 1 \in U
  <2> SUFFICES ASSUME k + 1 <= n PROVE k + 1 \in T
    OBVIOUS
  <2>1. k \in T /\ k + 1 \in 1 .. n /\ (k + 1) - 1 = k
    BY <1>2
  <2> HIDE DEF U
  <2>2. QED BY <2>1
<1> HIDE DEF U
<1>3. Nat \subseteq U
  BY <1>1, <1>2, Montee
<1> USE DEF U
<1>4. QED BY <1>3

\* The greatest of a finite set of naturals.
LEMMA FiniMajore ==
  ASSUME NEW S, S \subseteq Nat, IsFiniteSet(S), S # {}
  PROVE  \E m \in S : \A x \in S : m >= x
<1> DEFINE Z == {s \in SUBSET S : s # {} => \E m \in s : \A x \in s : m >= x}
<1>1. {} \in Z
  OBVIOUS
<1>2. ASSUME NEW s \in SUBSET S, NEW y \in s, s \ {y} \in Z PROVE s \in Z
  <2>1. CASE s \ {y} = {}
    <3>1. s = {y}
      BY <2>1
    <3>2. QED BY <3>1
  <2>2. CASE s \ {y} # {}
    <3>1. PICK m \in s \ {y} : \A x \in s \ {y} : m >= x
      BY <1>2, <2>2
    <3>2. CASE m >= y
      BY <3>1, <3>2
    <3>3. CASE ~(m >= y)
      <4>1. \A x \in s : y >= x
        BY <3>1, <3>3
      <4>2. QED BY <4>1
    <3>4. QED BY <3>2, <3>3
  <2>3. QED BY <2>1, <2>2
<1>3. \A s \in SUBSET S : \A x \in s : s \ {x} \in Z => s \in Z
  BY <1>2
<1> HIDE DEF Z
<1>4. SUBSET S \subseteq Z
  BY <1>1, <1>3, ParElements
<1> USE DEF Z
<1>5. QED BY <1>4

LEMMA Premiers ==
  ASSUME NEW n \in Nat, NEW s, s \subseteq 1 .. n, s # {}
  PROVE  Max(s) \in s /\ \A x \in s : x <= Max(s)
<1>1. s \subseteq Nat /\ IsFiniteSet(s)
  <2>1. IsFiniteSet(1 .. n)
    BY FS_Interval
  <2> DEFINE S == 1 .. n
  <2>2. s \in SUBSET S /\ s \subseteq Nat /\ IsFiniteSet(S)
    BY <2>1
  <2> HIDE DEF S
  <2>3. QED BY <2>2, FS_Subset
<1>2. \E m \in s : \A x \in s : m >= x
  BY <1>1, FiniMajore
<1>3. Max(s) \in s /\ \A x \in s : Max(s) >= x
  BY <1>2 DEF Max
<1>4. QED BY <1>1, <1>3

LEMMA DernierDe ==
  ASSUME NEW n \in Nat
  PROVE  \A k \in 1 .. n : /\ 1 .. k \in SUBSET (1 .. n) /\ 1 .. k # {}
                           /\ Max(1 .. k) = k /\ (1 .. k) \ {k} = 1 .. (k - 1)
<1> SUFFICES ASSUME NEW k \in 1 .. n
             PROVE  /\ 1 .. k \in SUBSET (1 .. n) /\ 1 .. k # {}
                    /\ Max(1 .. k) = k /\ (1 .. k) \ {k} = 1 .. (k - 1)
  OBVIOUS
<1>1. k \in 1 .. k /\ 1 .. k \subseteq 1 .. k /\ k \in Nat
  OBVIOUS
<1>2. Max(1 .. k) \in 1 .. k /\ \A x \in 1 .. k : x <= Max(1 .. k)
  BY <1>1, Premiers
<1>3. Max(1 .. k) = k
  BY <1>1, <1>2
<1>4. QED BY <1>1, <1>3

\* What a step does with the element of rank k is pas[k], on the states E.
Deplie(g, n, b, pas) ==
  g = [s \in SUBSET (1 .. n) |-> IF s = {} THEN b ELSE pas[Max(s)][g[s \ {Max(s)}]]]

LEMMA DeplieExiste ==
  ASSUME NEW n \in Nat, NEW E, NEW b \in E, NEW pas \in [1 .. n -> [E -> E]]
  PROVE  \E g : Deplie(g, n, b, pas) /\ \A s \in SUBSET (1 .. n) : g[s] \in E
<1> DEFINE D(k) == {s \in SUBSET (1 .. n) : \A x \in s : x <= k}
           P(k, g) == /\ g = [s \in D(k) |-> IF s = {} THEN b ELSE pas[Max(s)][g[s \ {Max(s)}]]]
                      /\ \A s \in D(k) : g[s] \in E
           T == {k \in Nat : \E g : P(k, g)}
<1>1. \A s \in SUBSET (1 .. n) : s # {} => Max(s) \in s /\ (\A x \in s : x <= Max(s)) /\ Max(s) \in 1 .. n
  <2>1. \A s \in SUBSET (1 .. n) : s # {} => Max(s) \in s /\ (\A x \in s : x <= Max(s))
    BY Premiers
  <2>2. QED BY <2>1
<1>2. \A k \in Nat : \A s \in D(k + 1) : s # {} => s \ {Max(s)} \in D(k)
  <2> SUFFICES ASSUME NEW k \in Nat, NEW s \in D(k + 1), s # {} PROVE s \ {Max(s)} \in D(k)
    OBVIOUS
  <2>1. \A x \in s \ {Max(s)} : x <= k
    <3> SUFFICES ASSUME NEW x \in s \ {Max(s)} PROVE x <= k
      OBVIOUS
    <3>1. Max(s) \in 1 .. n /\ x <= Max(s) /\ Max(s) <= k + 1 /\ x \in 1 .. n
      BY <1>1
    <3>2. QED BY <3>1
  <2>2. QED BY <2>1
<1>3. 0 \in T
  <2> DEFINE g == [s \in D(0) |-> b]
  <2>1. \A s \in D(0) : s = {}
    <3> SUFFICES ASSUME NEW s \in SUBSET (1 .. n), \A x \in s : x <= 0 PROVE s = {}
      OBVIOUS
    <3>1. QED OBVIOUS
  <2>2. P(0, g)
    BY <2>1
  <2> HIDE DEF P, g
  <2>3. QED BY <2>2
<1>4. \A k \in Nat : k \in T => k + 1 \in T
  <2> HIDE DEF P
  <2> SUFFICES ASSUME NEW k \in Nat, NEW g, P(k, g) PROVE \E h : P(k + 1, h)
    OBVIOUS
  <2> USE DEF P
  <2> DEFINE h == [s \in D(k + 1) |-> IF s = {} THEN b ELSE pas[Max(s)][g[s \ {Max(s)}]]]
  <2>1. \A s \in D(k) : s \in D(k + 1)
    OBVIOUS
  <2>2. \A s \in D(k) : h[s] = g[s]
    BY <2>1
  <2>3. \A s \in D(k + 1) : s # {} => s \ {Max(s)} \in D(k)
    BY <1>2
  <2>4. \A s \in D(k + 1) : h[s] \in E
    <3> SUFFICES ASSUME NEW s \in D(k + 1) PROVE h[s] \in E
      OBVIOUS
    <3>1. CASE s = {}
      BY <3>1
    <3>2. CASE s # {}
      <4>1. Max(s) \in 1 .. n /\ g[s \ {Max(s)}] \in E
        BY <1>1, <2>3, <3>2
      <4>2. h[s] = pas[Max(s)][g[s \ {Max(s)}]]
        BY <3>2
      <4> HIDE DEF h, D
      <4>3. pas[Max(s)] \in [E -> E]
        BY <4>1
      <4>4. QED BY <4>1, <4>2, <4>3
    <3>3. QED BY <3>1, <3>2
  <2>5. h = [s \in D(k + 1) |-> IF s = {} THEN b ELSE pas[Max(s)][h[s \ {Max(s)}]]]
    BY <2>2, <2>3
  <2>6. P(k + 1, h)
    BY <2>4, <2>5
  <2> HIDE DEF P, h
  <2>7. QED BY <2>6
<1>5. n \in T
  <2> HIDE DEF T
  <2>1. Nat \subseteq T
    BY <1>3, <1>4, Montee
  <2>2. QED BY <2>1
<1>6. PICK g : P(n, g)
  BY <1>5
<1>7. D(n) = SUBSET (1 .. n)
  OBVIOUS
<1>8. Deplie(g, n, b, pas) /\ \A s \in SUBSET (1 .. n) : g[s] \in E
  BY <1>6, <1>7 DEF Deplie
<1> HIDE DEF P
<1>9. QED BY <1>8

-----------------------------------------------------------------------------
(* Zones.                                                                    *)

Rectangle == Nat \X Nat

\* The cells of a zone are those from a to b, n of them.
Intervalle(z, l, a, b, n) ==
  /\ Rognee(z, l) = a .. b /\ a = z[1] /\ b < l /\ b < a + z[2]
  /\ (a > b => n = 0) /\ (a <= b => n = b - a + 1) /\ Cardinality(Rognee(z, l)) = n

LEMMA RogneeBornes ==
  ASSUME NEW z \in Rectangle, NEW l \in Nat
  PROVE  \E a \in Nat, b \in Int, n \in Nat : Intervalle(z, l, a, b, n)
<1>1. PICK a \in Nat, w \in Nat : a = z[1] /\ w = z[2]
  BY DEF Rectangle
<1>2. PICK b \in Int : b = IF l <= a + w THEN l - 1 ELSE a + w - 1
  BY <1>1
<1>3. PICK n \in Nat : n = IF a > b THEN 0 ELSE b - a + 1
  BY <1>1, <1>2
<1>4. Rognee(z, l) = {p \in 0 .. l - 1 : a <= p /\ p < a + w}
  BY <1>1 DEF Rognee
<1>5. {p \in 0 .. l - 1 : a <= p /\ p < a + w} = a .. b
  BY <1>2
<1>6. Cardinality(a .. b) = IF a > b THEN 0 ELSE b - a + 1
  BY <1>2, FS_Interval
<1>7. Cardinality(a .. b) = n
  BY <1>3, <1>6
<1>8. b < l /\ b < a + w
  BY <1>2
<1>9. (a > b => n = 0) /\ (a <= b => n = b - a + 1)
  BY <1>1, <1>2, <1>3
<1>10. Intervalle(z, l, a, b, n)
  BY <1>1, <1>9, <1>4, <1>5, <1>7, <1>8 DEF Intervalle
<1>11. QED BY <1>10

\* What extraire returns: the pixels of the zone, from its first cell on.
LEMMA ExtraireEffet ==
  ASSUME NEW px \in Seq(Nat), NEW z \in Rectangle
  PROVE  /\ Extraire(px, z) \in Seq(Nat)
         /\ \A q \in Nat : q \in Rognee(z, Len(px)) <=> q >= z[1] /\ q - z[1] + 1 \in 1 .. Len(Extraire(px, z))
         /\ \A k \in 1 .. Len(Extraire(px, z)) : Extraire(px, z)[k] = px[z[1] + k]
         /\ (Extraire(px, z) = << >> <=> Rognee(z, Len(px)) = {})
<1>0. Len(px) \in Nat /\ \A k \in 1 .. Len(px) : px[k] \in Nat
  OBVIOUS
<1>1. PICK a \in Nat, b \in Int, n \in Nat : Intervalle(z, Len(px), a, b, n)
  BY <1>0, RogneeBornes
<1>2. /\ Rognee(z, Len(px)) = a .. b /\ a = z[1] /\ b < Len(px)
      /\ (a > b => n = 0) /\ (a <= b => n = b - a + 1) /\ Cardinality(Rognee(z, Len(px))) = n
  BY <1>1 DEF Intervalle
<1>3. Extraire(px, z) = [k \in 1 .. n |-> px[a + k]]
  BY <1>2 DEF Extraire
<1>4. \A k \in 1 .. n : a + k \in 1 .. Len(px)
  <2> SUFFICES ASSUME NEW k \in 1 .. n PROVE a + k \in 1 .. Len(px)
    OBVIOUS
  <2>1. ~(a > b)
    BY <1>2
  <2>2. a \in Nat /\ b \in Int /\ k \in Nat /\ k >= 1 /\ k <= b - a + 1 /\ b < Len(px)
    BY <1>2, <2>1
  <2>3. QED BY <1>0, <2>2
<1>5. Extraire(px, z) \in Seq(Nat) /\ Len(Extraire(px, z)) = n
  <2>1. \A k \in 1 .. n : px[a + k] \in Nat
    BY <1>0, <1>4
  <2> DEFINE m == [k \in 1 .. n |-> px[a + k]]
  <2>2. m \in [1 .. n -> Nat]
    BY <2>1
  <2> HIDE DEF m
  <2>3. m \in Seq(Nat) /\ Len(m) = n
    BY <2>2, EstSuite
  <2>4. QED BY <1>3, <2>3 DEF m
<1>6. \A q \in Nat : q \in a .. b <=> q >= a /\ q - a + 1 \in 1 .. n
  <2>1. (a > b => n = 0) /\ (a <= b => n = b - a + 1) /\ a \in Nat /\ b \in Int /\ n \in Nat
    BY <1>2
  <2>2. CASE a > b
    BY <2>1, <2>2
  <2>3. CASE a <= b
    BY <2>1, <2>3
  <2>4. QED BY <2>1, <2>2, <2>3
<1>7. \A k \in 1 .. n : Extraire(px, z)[k] = px[a + k]
  BY <1>3
<1>8. Extraire(px, z) = << >> <=> a .. b = {}
  <2>1. n = 0 <=> a .. b = {}
    BY <1>2
  <2>2. Extraire(px, z) = << >> <=> n = 0
    BY <1>5
  <2>3. QED BY <2>1, <2>2
<1>9. QED BY <1>2, <1>5, <1>6, <1>7, <1>8

\* The box holds the zones it stands for.
LEMMA BoiteTient ==
  ASSUME NEW s \in Seq(Rectangle), s # << >>
  PROVE  /\ Boite(s) \in Rectangle
         /\ \A l \in Nat : \A k \in DOMAIN s : Rognee(s[k], l) \subseteq Rognee(Boite(s), l)
<1> DEFINE D == DOMAIN s
           A == {s[k][1] : k \in D}
           B == {s[k][1] + s[k][2] : k \in D}
<1>1. /\ \A k \in D : s[k] \in Rectangle /\ s[k][1] \in Nat /\ s[k][2] \in Nat
      /\ 1 \in D
  BY DEF Rectangle
<1>2. A \subseteq Nat /\ A # {} /\ B \subseteq Nat /\ B # {} /\ IsFiniteSet(B)
  <2>1. IsFiniteSet(D)
    <3>1. Len(s) \in Nat /\ D = 1 .. Len(s)
      OBVIOUS
    <3>2. QED BY <3>1, FS_Interval
  <2>2. IsFiniteSet(B)
    <3> DEFINE f == [k \in D |-> s[k][1] + s[k][2]]
    <3>1. f \in Surjection(D, B)
      BY DEF Surjection
    <3> HIDE DEF f, D, B
    <3>2. QED BY <2>1, <3>1, FS_Surjection
  <2>3. QED BY <1>1, <2>2
<1>3. \A k \in D : s[k][1] \in A /\ s[k][1] + s[k][2] \in B
  OBVIOUS
<1>4. Boite(s) = <<Min(A), Max(B) - Min(A)>>
  BY DEF Boite
<1> HIDE DEF A, B
<1>5. Min(A) \in A /\ \A x \in A : Min(A) <= x
  <2>1. \E m \in A : \A x \in A : m <= x
    BY <1>2, PlusPetit
  <2>2. QED BY <2>1 DEF Min
<1>6. Max(B) \in B /\ \A x \in B : Max(B) >= x
  <2>1. \E m \in B : \A x \in B : m >= x
    BY <1>2, FiniMajore
  <2>2. QED BY <2>1 DEF Max
<1>7. PICK a \in Nat, b \in Nat : a = Min(A) /\ b = Max(B)
  BY <1>2, <1>5, <1>6
<1>8. PICK j \in D : a \in Nat /\ s[j][1] >= a /\ s[j][1] + s[j][2] <= b
  BY <1>1, <1>3, <1>5, <1>6, <1>7
<1>9. b - a \in Nat
  BY <1>1, <1>7, <1>8
<1>10. Boite(s) \in Rectangle
  BY <1>4, <1>7, <1>9 DEF Rectangle
<1>11. ASSUME NEW l \in Nat, NEW k \in D PROVE Rognee(s[k], l) \subseteq Rognee(Boite(s), l)
  <2>0. Min(A) <= s[k][1] /\ Max(B) >= s[k][1] + s[k][2] /\ s[k][1] \in Nat /\ s[k][2] \in Nat
    BY <1>1, <1>3, <1>5, <1>6
  <2>5. a <= s[k][1] /\ s[k][1] + s[k][2] <= b
    BY <1>7, <2>0
  <2>1. PICK x \in Nat, w \in Nat : x = s[k][1] /\ w = s[k][2] /\ a <= x /\ x + w <= b
    BY <2>0, <2>5
  <2>2. Boite(s)[1] = a /\ Boite(s)[2] = b - a
    BY <1>4, <1>7
  <2>6. a + (b - a) = b /\ a \in Nat /\ b \in Nat
    OBVIOUS
  <2>3. \A p \in 0 .. l - 1 : x <= p /\ p < x + w => a <= p /\ p < b
    BY <2>1
  <2>4. QED BY <2>1, <2>2, <2>3, <2>6 DEF Rognee
<1>12. QED BY <1>10, <1>11

LEMMA PublieesTiennent ==
  ASSUME SurfacesAssumption, NEW s \in Seq(Rectangle)
  PROVE  /\ Publiees(s) \in Seq(Rectangle)
         /\ \A l \in Nat : Couvertes(s, l) \subseteq Couvertes(Publiees(s), l)
         /\ \A l \in Nat : Couvertes(Publiees(s), l) \subseteq 0 .. l - 1
<1>0. \A t \in Seq(Rectangle), l \in Nat : Couvertes(t, l) \subseteq 0 .. l - 1
  BY DEF Couvertes, Rognee
<1>1. CASE Len(s) > RECTS_MAX
  <2>1. s # << >>
    BY <1>1 DEF SurfacesAssumption
  <2>2. Publiees(s) = <<Boite(s)>> /\ Boite(s) \in Rectangle
    BY <1>1, <2>1, BoiteTient DEF Publiees
  <2>3. \A l \in Nat : Couvertes(<<Boite(s)>>, l) = Rognee(Boite(s), l)
    BY DEF Couvertes
  <2>4. \A l \in Nat : \A k \in DOMAIN s : Rognee(s[k], l) \subseteq Rognee(Boite(s), l)
    BY <2>1, BoiteTient
  <2>5. \A l \in Nat : Couvertes(s, l) \subseteq Rognee(Boite(s), l)
    BY <2>4 DEF Couvertes
  <2>6. <<Boite(s)>> \in Seq(Rectangle)
    BY <2>2
  <2>7. QED BY <1>0, <2>2, <2>3, <2>5, <2>6
<1>2. CASE ~(Len(s) > RECTS_MAX)
  <2>1. Publiees(s) = s
    BY <1>2 DEF Publiees
  <2>2. QED BY <1>0, <2>1
<1>3. QED BY <1>1, <1>2

-----------------------------------------------------------------------------
(* The image to come: what the loop will show once it has painted what waits. *)

Longue == IF taille = 0 THEN Len(image) ELSE taille
Couvre(t, q) == q >= t.x /\ q - t.x + 1 \in DOMAIN t.pixels
Teinte(t, q) == t.pixels[q - t.x + 1]

\* The last of the pieces that covers a cell gives its colour, or none does.
MontreDans(s, fond, q, v) ==
  \E m \in 0 .. Len(s) :
    /\ IF m = 0 THEN fond[q + 1] = v ELSE Couvre(s[m], q) /\ Teinte(s[m], q) = v
    /\ \A k \in m + 1 .. Len(s) : Couvre(s[k], q) => Teinte(s[k], q) = v

EcranAttendu ==
  ~tronque =>
    \A i \in Ids : \A p \in ecrit[i] :
      Origine(i) + p < Longue =>
        MontreDans(trames, Etirer(image, taille), Origine(i) + p, surfaces[i].pixels[p + 1])

EcritDedans == \A i \in Ids : ecrit[i] \subseteq 0 .. Largeur(i) - 1

-----------------------------------------------------------------------------
(* Publication.                                                              *)

Trame == [x : Nat, pixels : Seq(Nat)]
EtatPublie == [publies : Nat, trames : Seq(Trame), tronque : BOOLEAN]
Morceau(i, px, z) == [x |-> Origine(i) + z[1], pixels |-> Extraire(px, z)]

\* A piece shows the surface where it lies.
LEMMA MorceauMontre ==
  ASSUME NEW i, Origine(i) \in Nat, NEW px \in Seq(Nat), NEW z \in Rectangle
  PROVE  /\ Morceau(i, px, z) \in Trame
         /\ \A q \in Nat : Couvre(Morceau(i, px, z), q) => /\ q - Origine(i) \in Rognee(z, Len(px))
                                                           /\ Teinte(Morceau(i, px, z), q) = px[q - Origine(i) + 1]
         /\ \A p \in Rognee(z, Len(px)) : Couvre(Morceau(i, px, z), Origine(i) + p)
<1>1. PICK o \in Nat, a \in Nat, w \in Nat : o = Origine(i) /\ a = z[1] /\ w = z[2]
  BY DEF Rectangle
<1>2. PICK m : m = Extraire(px, z)
  OBVIOUS
<1>3. /\ m \in Seq(Nat)
      /\ \A q \in Nat : q \in Rognee(z, Len(px)) <=> q >= a /\ q - a + 1 \in 1 .. Len(m)
      /\ \A k \in 1 .. Len(m) : m[k] = px[a + k]
  BY <1>1, <1>2, ExtraireEffet
<1>4. Morceau(i, px, z) = [x |-> o + a, pixels |-> m]
  BY <1>1, <1>2 DEF Morceau
<1>5. o + a \in Nat
  BY <1>1
<1>6. Morceau(i, px, z) \in Trame
  BY <1>3, <1>4, <1>5 DEF Trame
<1>7. Len(m) \in Nat /\ DOMAIN m = 1 .. Len(m)
  BY <1>3
<1>8. \A q : Couvre(Morceau(i, px, z), q) <=> q >= o + a /\ q - (o + a) + 1 \in 1 .. Len(m)
  BY <1>4, <1>7 DEF Couvre
<1>9. \A q : Teinte(Morceau(i, px, z), q) = m[q - (o + a) + 1]
  BY <1>4 DEF Teinte
<1>10. ASSUME NEW q \in Nat, Couvre(Morceau(i, px, z), q)
       PROVE  q - o \in Rognee(z, Len(px)) /\ Teinte(Morceau(i, px, z), q) = px[q - o + 1]
  <2>1. q >= o + a /\ q - (o + a) + 1 \in 1 .. Len(m)
    BY <1>8, <1>10
  <2>2. q - o \in Nat /\ q - o >= a /\ (q - o) - a + 1 = q - (o + a) + 1 /\ a + (q - (o + a) + 1) = q - o + 1
    <3>1. q >= o + a
      BY <2>1
    <3>2. QED BY <3>1
  <2>3. q - o \in Rognee(z, Len(px))
    BY <1>3, <2>1, <2>2
  <2>4. QED BY <1>3, <1>9, <2>1, <2>2, <2>3
<1>11. ASSUME NEW p \in Rognee(z, Len(px)) PROVE Couvre(Morceau(i, px, z), o + p)
  <2>1. p \in Nat
    <3>1. Len(px) \in Nat
      OBVIOUS
    <3>2. QED BY <1>11, <3>1 DEF Rognee
  <2>2. p >= a /\ p - a + 1 \in 1 .. Len(m)
    BY <1>3, <1>11, <2>1
  <2>3. o + p >= o + a /\ (o + p) - (o + a) + 1 = p - a + 1
    BY <1>1, <2>1, <2>2
  <2>4. QED BY <1>8, <2>2, <2>3
<1>12. QED BY <1>1, <1>6, <1>10, <1>11

\* From a to b, the pieces of the first n zones were published; all of them, unless
\* some were cut.
Publications(i, px, zs, n, a, b) ==
  /\ Len(a.trames) <= Len(b.trames)
  /\ \A k \in 1 .. Len(a.trames) : b.trames[k] = a.trames[k]
  /\ \A k \in Len(a.trames) + 1 .. Len(b.trames) : \E j \in 1 .. n : b.trames[k] = Morceau(i, px, zs[j])
  /\ a.tronque => b.tronque
  /\ ~b.tronque => \A j \in 1 .. n : Rognee(zs[j], Len(px)) # {} =>
                     \E k \in Len(a.trames) + 1 .. Len(b.trames) : b.trames[k] = Morceau(i, px, zs[j])

LEMMA PublieEffet ==
  ASSUME NEW i, Origine(i) \in Nat, NEW px \in Seq(Nat), NEW s \in EtatPublie, NEW z \in Rectangle
  PROVE  /\ Publie(i, px, s, z) \in EtatPublie
         /\ s.tronque => Publie(i, px, s, z).tronque
         /\ Publie(i, px, s, z).trames \in {s.trames, Append(s.trames, Morceau(i, px, z))}
         /\ ~Publie(i, px, s, z).tronque =>
              Rognee(z, Len(px)) = {} \/ Publie(i, px, s, z).trames = Append(s.trames, Morceau(i, px, z))
<1>1. /\ Extraire(px, z) \in Seq(Nat) /\ Morceau(i, px, z) \in Trame
      /\ Extraire(px, z) = << >> <=> Rognee(z, Len(px)) = {}
  BY ExtraireEffet, MorceauMontre
<1>2. /\ s.publies \in Nat /\ s.trames \in Seq(Trame) /\ s.tronque \in BOOLEAN
      /\ s = [publies |-> s.publies, trames |-> s.trames, tronque |-> s.tronque]
  BY DEF EtatPublie
<1>3. CASE s.publies >= OCTETS_PUBLIES_MAX
  <2>1. Publie(i, px, s, z) = [s EXCEPT !.tronque = TRUE]
    BY <1>3 DEF Publie
  <2>2. QED BY <1>2, <2>1 DEF EtatPublie
<1>4. CASE ~(s.publies >= OCTETS_PUBLIES_MAX) /\ Extraire(px, z) = << >>
  <2>1. Publie(i, px, s, z) = s
    BY <1>4 DEF Publie
  <2>2. QED BY <1>1, <1>2, <1>4, <2>1
<1>5. CASE ~(s.publies >= OCTETS_PUBLIES_MAX) /\ Extraire(px, z) # << >>
  <2>1. Publie(i, px, s, z) = [publies |-> s.publies + Len(Extraire(px, z)),
                               trames |-> Append(s.trames, Morceau(i, px, z)), tronque |-> s.tronque]
    BY <1>2, <1>5 DEF Publie, Morceau
  <2>2. Len(Extraire(px, z)) \in Nat /\ Append(s.trames, Morceau(i, px, z)) \in Seq(Trame)
    BY <1>1, <1>2
  <2>3. QED BY <1>2, <2>1, <2>2 DEF EtatPublie
<1>6. QED BY <1>3, <1>4, <1>5

LEMMA PublicationsPas ==
  ASSUME NEW i, Origine(i) \in Nat, NEW px \in Seq(Nat), NEW zs \in Seq(Rectangle), NEW n \in 1 .. Len(zs),
         NEW a \in EtatPublie, NEW b \in EtatPublie, Publications(i, px, zs, n - 1, a, b)
  PROVE  Publications(i, px, zs, n, a, Publie(i, px, b, zs[n]))
<1> DEFINE c == Publie(i, px, b, zs[n])
           m == Morceau(i, px, zs[n])
<1>1. zs[n] \in Rectangle
  OBVIOUS
<1>2. /\ c \in EtatPublie /\ (b.tronque => c.tronque) /\ c.trames \in {b.trames, Append(b.trames, m)}
      /\ ~c.tronque => Rognee(zs[n], Len(px)) = {} \/ c.trames = Append(b.trames, m)
  BY <1>1, PublieEffet
<1> HIDE DEF c, m
<1>3. PICK la \in Nat, lb \in Nat : la = Len(a.trames) /\ lb = Len(b.trames)
  BY DEF EtatPublie
<1>0. la \in Nat /\ lb \in Nat
  BY <1>3
<1>4. /\ la <= lb /\ \A k \in 1 .. la : b.trames[k] = a.trames[k]
      /\ \A k \in la + 1 .. lb : \E j \in 1 .. n - 1 : b.trames[k] = Morceau(i, px, zs[j])
      /\ a.tronque => b.tronque
      /\ ~b.tronque => \A j \in 1 .. n - 1 : Rognee(zs[j], Len(px)) # {} =>
                         \E k \in la + 1 .. lb : b.trames[k] = Morceau(i, px, zs[j])
  BY <1>3 DEF Publications
<1>5. CASE c.trames = b.trames
  <2>1. \A k \in la + 1 .. lb : \E j \in 1 .. n : c.trames[k] = Morceau(i, px, zs[j])
    <3> SUFFICES ASSUME NEW k \in la + 1 .. lb PROVE \E j \in 1 .. n : c.trames[k] = Morceau(i, px, zs[j])
      OBVIOUS
    <3>1. PICK j \in 1 .. n - 1 : b.trames[k] = Morceau(i, px, zs[j])
      BY <1>4
    <3>2. j \in 1 .. n
      OBVIOUS
    <3>3. QED BY <1>5, <3>1, <3>2
  <2>2. Len(c.trames) = lb
    BY <1>3, <1>5
  <2>3. ~(c.trames = Append(b.trames, m))
    <3>1. Len(Append(b.trames, m)) = lb + 1
      BY <1>3 DEF EtatPublie
    <3>2. QED BY <1>3, <2>2, <3>1
  <2>4. ASSUME ~c.tronque, NEW j \in 1 .. n, Rognee(zs[j], Len(px)) # {}
        PROVE  \E k \in la + 1 .. lb : c.trames[k] = Morceau(i, px, zs[j])
    <3>1. j # n
      BY <1>2, <2>3, <2>4
    <3>2. j \in 1 .. n - 1
      BY <3>1
    <3>3. QED BY <1>2, <1>4, <1>5, <2>4, <3>2
  <2>5. QED BY <1>2, <1>3, <1>4, <1>5, <2>1, <2>2, <2>4 DEF Publications, c
<1>6. CASE c.trames = Append(b.trames, m)
  <2>1. /\ Len(c.trames) = lb + 1 /\ c.trames[lb + 1] = m
        /\ \A k \in 1 .. lb : c.trames[k] = b.trames[k]
    BY <1>3, <1>6 DEF EtatPublie
  <2>2. ASSUME NEW k \in la + 1 .. lb + 1
        PROVE  \E j \in 1 .. n : c.trames[k] = Morceau(i, px, zs[j])
    <3>1. CASE k = lb + 1
      BY <2>1, <3>1 DEF m
    <3>2. CASE k # lb + 1
      <4>1. k \in la + 1 .. lb /\ k \in 1 .. lb
        BY <1>0, <3>2
      <4>2. PICK j \in 1 .. n - 1 : b.trames[k] = Morceau(i, px, zs[j])
        BY <1>4, <4>1
      <4>3. j \in 1 .. n
        OBVIOUS
      <4>4. QED BY <2>1, <4>1, <4>2, <4>3
    <3>3. QED BY <3>1, <3>2
  <2>3. ASSUME ~c.tronque, NEW j \in 1 .. n, Rognee(zs[j], Len(px)) # {}
        PROVE  \E k \in la + 1 .. lb + 1 : c.trames[k] = Morceau(i, px, zs[j])
    <3>1. CASE j = n
      <4>1. lb + 1 \in la + 1 .. lb + 1
        BY <1>3, <1>4
      <4>2. QED BY <2>1, <3>1, <4>1 DEF m
    <3>2. CASE j # n
      <4>1. j \in 1 .. n - 1
        BY <3>2
      <4>2. PICK k \in la + 1 .. lb : b.trames[k] = Morceau(i, px, zs[j])
        BY <1>2, <1>4, <2>3, <4>1
      <4>3. k \in la + 1 .. lb + 1 /\ k \in 1 .. lb
        BY <1>0
      <4>4. QED BY <2>1, <4>2, <4>3
    <3>3. QED BY <3>1, <3>2
  <2>4. la <= lb + 1 /\ \A k \in 1 .. la : c.trames[k] = a.trames[k]
    <3>1. \A k \in 1 .. la : k \in 1 .. lb
      BY <1>3, <1>4
    <3>2. QED BY <1>3, <1>4, <2>1, <3>1
  <2>5. QED BY <1>2, <1>3, <1>4, <2>1, <2>2, <2>3, <2>4 DEF Publications, c
<1>7. QED BY <1>2, <1>5, <1>6

LEMMA PublierSuit ==
  ASSUME NEW i, Origine(i) \in Nat, NEW px \in Seq(Nat), NEW zs \in Seq(Rectangle), NEW a \in EtatPublie
  PROVE  \E h : /\ h[0] = a /\ \A k \in 1 .. Len(zs) : h[k] = Publie(i, px, h[k - 1], zs[k])
                /\ Publication(i, px, a, zs) = h[Len(zs)]
<1> DEFINE n == Len(zs)
           E == EtatPublie
           pas == [k \in 1 .. n |-> [e \in E |-> Publie(i, px, e, zs[k])]]
           Eq(g) == [s \in SUBSET (1 .. n) |->
                       IF s = {} THEN a ELSE Publie(i, px, g[s \ {Max(s)}], zs[Max(s)])]
           it == CHOOSE g : g = Eq(g)
<1>0. n \in Nat /\ DOMAIN zs = 1 .. n
  OBVIOUS
<1>1. pas \in [1 .. n -> [E -> E]]
  <2>1. \A k \in 1 .. n, e \in E : Publie(i, px, e, zs[k]) \in E
    BY PublieEffet
  <2>2. QED BY <2>1
<1>2. PICK g : Deplie(g, n, a, pas) /\ \A s \in SUBSET (1 .. n) : g[s] \in E
  <2> HIDE DEF pas, n, E
  <2>1. a \in E
    BY DEF E
  <2>2. QED BY <1>0, <1>1, <2>1, DeplieExiste
<1>3. \A s \in SUBSET (1 .. n) : s # {} => Max(s) \in 1 .. n /\ s \ {Max(s)} \in SUBSET (1 .. n)
  BY <1>0, Premiers
<1>4. \A s \in SUBSET (1 .. n) : s # {} =>
        pas[Max(s)][g[s \ {Max(s)}]] = Publie(i, px, g[s \ {Max(s)}], zs[Max(s)])
  BY <1>2, <1>3
<1>5. g = Eq(g)
  <2> HIDE DEF pas, E
  <2>1. QED BY <1>2, <1>4 DEF Deplie
<1>6. it = Eq(it)
  BY <1>5
<1>7. Publication(i, px, a, zs) = it[1 .. n]
  BY <1>0 DEF Publication, FoldLeft, MapThenFoldSet
<1> HIDE DEF it, pas, E
<1>8. it[{}] = a
  BY <1>6
<1>9. \A k \in 1 .. n : it[1 .. k] = Publie(i, px, it[1 .. (k - 1)], zs[k])
  <2> SUFFICES ASSUME NEW k \in 1 .. n PROVE it[1 .. k] = Publie(i, px, it[1 .. (k - 1)], zs[k])
    OBVIOUS
  <2>1. /\ 1 .. k \in SUBSET (1 .. n) /\ 1 .. k # {}
        /\ Max(1 .. k) = k /\ (1 .. k) \ {k} = 1 .. (k - 1)
    BY <1>0, DernierDe
  <2>2. QED BY <1>6, <2>1
<1> DEFINE h == [k \in 0 .. n |-> it[1 .. k]]
<1>10. h[0] = a
  <2>1. 1 .. 0 = {} /\ 0 \in 0 .. n
    BY <1>0
  <2>2. QED BY <1>8, <2>1
<1>11. \A k \in 1 .. n : h[k] = Publie(i, px, h[k - 1], zs[k])
  <2>1. \A k \in 1 .. n : k \in 0 .. n /\ k - 1 \in 0 .. n
    BY <1>0
  <2>2. QED BY <1>9, <2>1
<1>12. h[n] = it[1 .. n]
  BY <1>0
<1> HIDE DEF h
<1>13. QED BY <1>7, <1>10, <1>11, <1>12

LEMMA PublierEffet ==
  ASSUME NEW i, Origine(i) \in Nat, NEW px \in Seq(Nat), NEW zs \in Seq(Rectangle), NEW a \in EtatPublie
  PROVE  LET b == Publication(i, px, a, zs)
         IN  b \in EtatPublie /\ Publications(i, px, zs, Len(zs), a, b)
<1>1. PICK h : /\ h[0] = a /\ \A k \in 1 .. Len(zs) : h[k] = Publie(i, px, h[k - 1], zs[k])
               /\ Publication(i, px, a, zs) = h[Len(zs)]
  BY PublierSuit
<1> DEFINE T == {k \in 0 .. Len(zs) : h[k] \in EtatPublie /\ Publications(i, px, zs, k, a, h[k])}
<1>2. Len(zs) \in Nat
  OBVIOUS
<1>3. 0 \in T
  <2>1. Publications(i, px, zs, 0, a, a)
    <3>1. Len(a.trames) \in Nat
      BY DEF EtatPublie
    <3>2. QED BY <3>1 DEF Publications
  <2>2. QED BY <1>1, <1>2, <2>1
<1>4. ASSUME NEW k \in 1 .. Len(zs), k - 1 \in T PROVE k \in T
  <2>1. h[k - 1] \in EtatPublie /\ Publications(i, px, zs, k - 1, a, h[k - 1])
    BY <1>4
  <2>2. zs[k] \in Rectangle
    OBVIOUS
  <2>3. h[k] = Publie(i, px, h[k - 1], zs[k])
    BY <1>1
  <2>4. Publie(i, px, h[k - 1], zs[k]) \in EtatPublie
    BY <2>1, <2>2, PublieEffet
  <2>5. Publications(i, px, zs, k, a, Publie(i, px, h[k - 1], zs[k]))
    BY <2>1, PublicationsPas
  <2>6. QED BY <1>2, <2>3, <2>4, <2>5
<1> HIDE DEF T
<1>5. \A k \in 0 .. Len(zs) : k \in T
  BY <1>2, <1>3, <1>4, Echelle
<1> USE DEF T
<1>6. Len(zs) \in T
  BY <1>2, <1>5
<1>7. QED BY <1>1, <1>6

\* The pieces published show the surface, and nothing outside the zones.
LEMMA MontreEncore ==
  ASSUME NEW i, Origine(i) \in Nat, NEW px \in Seq(Nat), NEW zs \in Seq(Rectangle),
         NEW a \in EtatPublie, NEW b \in EtatPublie, Publications(i, px, zs, Len(zs), a, b),
         NEW fond, NEW q \in Nat, NEW v, MontreDans(a.trames, fond, q, v),
         q - Origine(i) \in Couvertes(zs, Len(px)) => v = px[q - Origine(i) + 1]
  PROVE  MontreDans(b.trames, fond, q, v)
<1>1. PICK la \in Nat, lb \in Nat : la = Len(a.trames) /\ lb = Len(b.trames)
  BY DEF EtatPublie
<1>0. la \in Nat /\ lb \in Nat
  BY <1>1
<1>2. /\ la <= lb /\ \A k \in 1 .. la : b.trames[k] = a.trames[k]
      /\ \A k \in la + 1 .. lb : \E j \in 1 .. Len(zs) : b.trames[k] = Morceau(i, px, zs[j])
  BY <1>1 DEF Publications
<1>3. PICK m \in 0 .. la :
        /\ IF m = 0 THEN fond[q + 1] = v ELSE Couvre(a.trames[m], q) /\ Teinte(a.trames[m], q) = v
        /\ \A k \in m + 1 .. la : Couvre(a.trames[k], q) => Teinte(a.trames[k], q) = v
  BY <1>1 DEF MontreDans
<1>4. m \in 0 .. lb
  BY <1>0, <1>2, <1>3
<1>5. IF m = 0 THEN fond[q + 1] = v ELSE Couvre(b.trames[m], q) /\ Teinte(b.trames[m], q) = v
  <2>1. m # 0 => b.trames[m] = a.trames[m]
    BY <1>0, <1>2
  <2>2. QED BY <1>3, <2>1
<1>6. ASSUME NEW k \in m + 1 .. lb, Couvre(b.trames[k], q) PROVE Teinte(b.trames[k], q) = v
  <2>1. CASE k \in 1 .. la
    <3>1. k \in m + 1 .. la /\ b.trames[k] = a.trames[k]
      BY <1>0, <1>2, <2>1
    <3>2. QED BY <1>3, <1>6, <3>1
  <2>2. CASE k \notin 1 .. la
    <3>1. k \in la + 1 .. lb
      BY <1>0, <1>4, <2>2
    <3>2. PICK j \in 1 .. Len(zs) : b.trames[k] = Morceau(i, px, zs[j])
      BY <1>2, <3>1
    <3>3. zs[j] \in Rectangle /\ j \in DOMAIN zs
      OBVIOUS
    <3>4. q - Origine(i) \in Rognee(zs[j], Len(px)) /\ Teinte(b.trames[k], q) = px[q - Origine(i) + 1]
      BY <1>6, <3>2, <3>3, MorceauMontre
    <3>5. q - Origine(i) \in Couvertes(zs, Len(px))
      BY <3>3, <3>4 DEF Couvertes
    <3>6. QED BY <3>4, <3>5
  <2>3. QED BY <2>1, <2>2
<1>7. QED BY <1>1, <1>4, <1>5, <1>6 DEF MontreDans

LEMMA MontreNeuf ==
  ASSUME NEW i, Origine(i) \in Nat, NEW px \in Seq(Nat), NEW zs \in Seq(Rectangle),
         NEW a \in EtatPublie, NEW b \in EtatPublie, Publications(i, px, zs, Len(zs), a, b), ~b.tronque,
         NEW fond, NEW p \in Couvertes(zs, Len(px))
  PROVE  MontreDans(b.trames, fond, Origine(i) + p, px[p + 1])
<1>1. PICK la \in Nat, lb \in Nat : la = Len(a.trames) /\ lb = Len(b.trames)
  BY DEF EtatPublie
<1>0. la \in Nat /\ lb \in Nat
  BY <1>1
<1>2. /\ la <= lb
      /\ \A k \in la + 1 .. lb : \E j \in 1 .. Len(zs) : b.trames[k] = Morceau(i, px, zs[j])
      /\ \A j \in 1 .. Len(zs) : Rognee(zs[j], Len(px)) # {} =>
           \E k \in la + 1 .. lb : b.trames[k] = Morceau(i, px, zs[j])
  BY <1>1 DEF Publications
<1>3. PICK j \in 1 .. Len(zs) : p \in Rognee(zs[j], Len(px))
  BY DEF Couvertes
<1>4. zs[j] \in Rectangle /\ Len(px) \in Nat
  OBVIOUS
<1>5. p \in Nat
  BY <1>3, <1>4 DEF Rognee
<1>6. PICK m \in la + 1 .. lb : b.trames[m] = Morceau(i, px, zs[j])
  BY <1>2, <1>3
<1> DEFINE q == Origine(i) + p
<1>7. q \in Nat /\ q - Origine(i) + 1 = p + 1
  BY <1>5
<1> HIDE DEF q
<1>8. ASSUME NEW k \in la + 1 .. lb, Couvre(b.trames[k], q) PROVE Teinte(b.trames[k], q) = px[p + 1]
  <2>1. PICK l \in 1 .. Len(zs) : b.trames[k] = Morceau(i, px, zs[l])
    BY <1>2
  <2>2. zs[l] \in Rectangle
    OBVIOUS
  <2>3. QED BY <1>7, <1>8, <2>1, <2>2, MorceauMontre
<1>9. Couvre(b.trames[m], q)
  BY <1>3, <1>4, <1>6, MorceauMontre DEF q
<1>10. /\ m \in 0 .. lb /\ m # 0 /\ Teinte(b.trames[m], q) = px[p + 1]
       /\ \A k \in m + 1 .. lb : k \in la + 1 .. lb
  BY <1>0, <1>6, <1>8, <1>9
<1>11. MontreDans(b.trames, fond, q, px[p + 1])
  BY <1>1, <1>8, <1>9, <1>10 DEF MontreDans
<1>12. QED BY <1>11 DEF q

-----------------------------------------------------------------------------
(* Writing.                                                                  *)

\* A row of pixels keeps its width, and changes in these cells only.
Repeint(px, apres, cellules) ==
  /\ apres \in Seq(Nat) /\ Len(apres) = Len(px)
  /\ \A p \in 1 .. Len(px) : p - 1 \notin cellules => apres[p] = px[p]

LEMMA EcrireZoneEffet ==
  ASSUME NEW px \in Seq(Nat), NEW x \in Nat, NEW m \in Seq(Nat)
  PROVE  Repeint(px, EcrireZone(px, x, m), Rognee(<<x, Len(m)>>, Len(px)))
<1>1. PICK n \in Nat, w \in Nat : n = Len(px) /\ w = Len(m) /\ DOMAIN px = 1 .. n /\ DOMAIN m = 1 .. w
  OBVIOUS
<1>2. EcrireZone(px, x, m) = [p \in 1 .. n |-> IF p - x \in 1 .. w THEN m[p - x] ELSE px[p]]
  BY <1>1 DEF EcrireZone
<1>3. EcrireZone(px, x, m) \in [1 .. n -> Nat]
  <2>1. \A k \in 1 .. w : m[k] \in Nat
    BY <1>1
  <2>2. \A p \in 1 .. n : px[p] \in Nat
    BY <1>1
  <2>3. QED BY <1>2, <2>1, <2>2
<1>4. EcrireZone(px, x, m) \in Seq(Nat) /\ Len(EcrireZone(px, x, m)) = n
  BY <1>1, <1>3, EstSuite
<1>5. \A p \in 1 .. n : p - x \in 1 .. w => p - 1 \in Rognee(<<x, w>>, n)
  BY <1>1 DEF Rognee
<1>6. \A p \in 1 .. n : p - 1 \notin Rognee(<<x, w>>, n) => EcrireZone(px, x, m)[p] = px[p]
  BY <1>2, <1>5
<1>7. QED BY <1>1, <1>4, <1>6 DEF Repeint

LEMMA RemplirEffet ==
  ASSUME NEW px \in Seq(Nat), NEW zs, NEW c \in Nat
  PROVE  Repeint(px, Remplir(px, zs, c), Couvertes(zs, Len(px)))
<1>1. PICK n \in Nat : n = Len(px) /\ DOMAIN px = 1 .. n
  OBVIOUS
<1>2. Remplir(px, zs, c) = [p \in 1 .. n |-> IF p - 1 \in Couvertes(zs, n) THEN c ELSE px[p]]
  BY <1>1 DEF Remplir
<1>3. Remplir(px, zs, c) \in [1 .. n -> Nat]
  <2>1. \A p \in 1 .. n : px[p] \in Nat
    BY <1>1
  <2>2. QED BY <1>2, <2>1
<1>4. Remplir(px, zs, c) \in Seq(Nat) /\ Len(Remplir(px, zs, c)) = n
  BY <1>1, <1>3, EstSuite
<1>5. QED BY <1>1, <1>2, <1>4 DEF Repeint

\* The zones where a piece is laid.
Poses(pts, m) == [k \in DOMAIN pts |-> <<pts[k][1], Len(m)>>]

LEMMA EtalerSuit ==
  ASSUME NEW px \in Seq(Nat), NEW m \in Seq(Nat), NEW pts \in Seq(Rectangle)
  PROVE  \E h : /\ h[0] = px /\ \A k \in 1 .. Len(pts) : h[k] = EcrireZone(h[k - 1], pts[k][1], m)
                /\ Etaler(px, m, pts) = h[Len(pts)]
<1> DEFINE n == Len(pts)
           E == Seq(Nat)
           pas == [k \in 1 .. n |-> [e \in E |-> EcrireZone(e, pts[k][1], m)]]
           Eq(g) == [s \in SUBSET (1 .. n) |->
                       IF s = {} THEN px ELSE EcrireZone(g[s \ {Max(s)}], pts[Max(s)][1], m)]
           it == CHOOSE g : g = Eq(g)
<1>0. n \in Nat /\ DOMAIN pts = 1 .. n
  OBVIOUS
<1>1. pas \in [1 .. n -> [E -> E]]
  <2>1. \A k \in 1 .. n, e \in E : EcrireZone(e, pts[k][1], m) \in E
    <3>1. \A k \in 1 .. n : pts[k][1] \in Nat
      BY DEF Rectangle
    <3>2. QED BY <3>1, EcrireZoneEffet DEF Repeint
  <2>2. QED BY <2>1
<1>2. PICK g : Deplie(g, n, px, pas) /\ \A s \in SUBSET (1 .. n) : g[s] \in E
  <2> HIDE DEF pas, n, E
  <2>1. px \in E
    BY DEF E
  <2>2. QED BY <1>0, <1>1, <2>1, DeplieExiste
<1>3. \A s \in SUBSET (1 .. n) : s # {} => Max(s) \in 1 .. n /\ s \ {Max(s)} \in SUBSET (1 .. n)
  BY <1>0, Premiers
<1>4. \A s \in SUBSET (1 .. n) : s # {} =>
        pas[Max(s)][g[s \ {Max(s)}]] = EcrireZone(g[s \ {Max(s)}], pts[Max(s)][1], m)
  BY <1>2, <1>3
<1>5. g = Eq(g)
  <2> HIDE DEF pas, E
  <2>1. QED BY <1>2, <1>4 DEF Deplie
<1>6. it = Eq(it)
  BY <1>5
<1>7. Etaler(px, m, pts) = it[1 .. n]
  BY <1>0 DEF Etaler, FoldLeft, MapThenFoldSet
<1> HIDE DEF it, pas, E
<1>8. it[{}] = px
  BY <1>6
<1>9. \A k \in 1 .. n : it[1 .. k] = EcrireZone(it[1 .. (k - 1)], pts[k][1], m)
  <2> SUFFICES ASSUME NEW k \in 1 .. n PROVE it[1 .. k] = EcrireZone(it[1 .. (k - 1)], pts[k][1], m)
    OBVIOUS
  <2>1. /\ 1 .. k \in SUBSET (1 .. n) /\ 1 .. k # {}
        /\ Max(1 .. k) = k /\ (1 .. k) \ {k} = 1 .. (k - 1)
    BY <1>0, DernierDe
  <2>2. QED BY <1>6, <2>1
<1> DEFINE h == [k \in 0 .. n |-> it[1 .. k]]
<1>10. h[0] = px
  <2>1. 1 .. 0 = {} /\ 0 \in 0 .. n
    BY <1>0
  <2>2. QED BY <1>8, <2>1
<1>11. \A k \in 1 .. n : h[k] = EcrireZone(h[k - 1], pts[k][1], m)
  <2>1. \A k \in 1 .. n : k \in 0 .. n /\ k - 1 \in 0 .. n
    BY <1>0
  <2>2. QED BY <1>9, <2>1
<1>12. h[n] = it[1 .. n]
  BY <1>0
<1> HIDE DEF h
<1>13. QED BY <1>7, <1>10, <1>11, <1>12

LEMMA EtalerEffet ==
  ASSUME NEW px \in Seq(Nat), NEW m \in Seq(Nat), NEW pts \in Seq(Rectangle)
  PROVE  /\ Poses(pts, m) \in Seq(Rectangle)
         /\ Repeint(px, Etaler(px, m, pts), Couvertes(Poses(pts, m), Len(px)))
<1>1. PICK h : /\ h[0] = px /\ \A k \in 1 .. Len(pts) : h[k] = EcrireZone(h[k - 1], pts[k][1], m)
               /\ Etaler(px, m, pts) = h[Len(pts)]
  BY EtalerSuit
<1> DEFINE W == Couvertes(Poses(pts, m), Len(px))
           T == {k \in 0 .. Len(pts) : Repeint(px, h[k], W)}
<1>2. Len(pts) \in Nat /\ Len(m) \in Nat /\ DOMAIN pts = 1 .. Len(pts)
  OBVIOUS
<1>3. \A k \in 1 .. Len(pts) : pts[k][1] \in Nat
  BY DEF Rectangle
<1>4. Poses(pts, m) \in Seq(Rectangle)
  <2>1. \A k \in 1 .. Len(pts) : <<pts[k][1], Len(m)>> \in Rectangle
    BY <1>2, <1>3 DEF Rectangle
  <2>2. Poses(pts, m) \in [1 .. Len(pts) -> Rectangle]
    BY <1>2, <2>1 DEF Poses
  <2>3. QED BY <1>2, <2>2, EstSuite
<1>5. \A k \in 1 .. Len(pts) : Rognee(<<pts[k][1], Len(m)>>, Len(px)) \subseteq W
  BY <1>2 DEF Poses, Couvertes
<1> HIDE DEF W
<1>6. 0 \in T
  BY <1>1, <1>2 DEF Repeint
<1>7. ASSUME NEW k \in 1 .. Len(pts), k - 1 \in T PROVE k \in T
  <2>1. Repeint(px, h[k - 1], W)
    BY <1>7
  <2>2. Repeint(h[k - 1], h[k], Rognee(<<pts[k][1], Len(m)>>, Len(px)))
    <3>1. h[k - 1] \in Seq(Nat) /\ Len(h[k - 1]) = Len(px)
      BY <2>1 DEF Repeint
    <3>2. Repeint(h[k - 1], EcrireZone(h[k - 1], pts[k][1], m), Rognee(<<pts[k][1], Len(m)>>, Len(h[k - 1])))
      BY <1>3, <3>1, EcrireZoneEffet
    <3>3. QED BY <1>1, <3>1, <3>2
  <2>3. Repeint(px, h[k], W)
    BY <1>5, <2>1, <2>2 DEF Repeint
  <2>4. QED BY <1>2, <2>3
<1> HIDE DEF T
<1>8. \A k \in 0 .. Len(pts) : k \in T
  BY <1>2, <1>6, <1>7, Echelle
<1> USE DEF T
<1>9. Repeint(px, h[Len(pts)], W)
  BY <1>2, <1>8
<1>10. QED BY <1>1, <1>4, <1>9 DEF W

-----------------------------------------------------------------------------
(* Progressive tiles.                                                        *)

TuilesDans(l) == UNION {[D -> Nat] : D \in SUBSET (0 .. l - 1)}
TuilesSues == UNION {[D -> Nat \cup {Absente}] : D \in SUBSET Nat}
Tuile == Nat \X Natures \X Nat \X BOOLEAN

EtatPalier(l) == [tuiles : TuilesDans(l), pixels : [1 .. l -> Nat], zones : Seq(Rectangle), bon : BOOLEAN]
EtatAttendu == [tuiles : TuilesSues, largeur : Nat, bon : BOOLEAN]

\* What the client keeps is what the server counts on, where the server knows it.
Accord(t, a) ==
  /\ DOMAIN t \subseteq DOMAIN a
  /\ \A x \in DOMAIN a : a[x] # Absente => x \in DOMAIN t /\ t[x] = a[x]

LEMMA AvecType ==
  ASSUME NEW U, NEW V, NEW t \in UNION {[D -> V] : D \in SUBSET U}, NEW x \in U, NEW v \in V
  PROVE  Avec(t, x, v) \in UNION {[D -> V] : D \in SUBSET U}
<1>1. PICK D \in SUBSET U : t \in [D -> V]
  OBVIOUS
<1>2. D \cup {x} \in SUBSET U
  OBVIOUS
<1>3. Avec(t, x, v) \in [D \cup {x} -> V]
  BY <1>1 DEF Avec
<1>4. QED BY <1>2, <1>3

LEMMA TuilesType ==
  ASSUME NEW l \in Nat, NEW t \in TuilesDans(l)
  PROVE  /\ DOMAIN t \subseteq 0 .. l - 1 /\ \A x \in DOMAIN t : t[x] \in Nat
         /\ \A x : Tuiles(t, x) \in Nat
<1>1. PICK D \in SUBSET (0 .. l - 1) : t \in [D -> Nat]
  BY DEF TuilesDans
<1>2. DOMAIN t \subseteq 0 .. l - 1 /\ \A x \in DOMAIN t : t[x] \in Nat
  BY <1>1
<1>3. QED BY <1>2 DEF Tuiles

LEMMA TuileChamps ==
  ASSUME NEW t \in Tuile
  PROVE  t[1] \in Nat /\ t[2] \in Natures /\ t[3] \in Nat /\ t[4] \in BOOLEAN
BY DEF Tuile

\* The three cases of one tile: nothing, a state that breaks, a state and its colour.
LEMMA PalierEffet ==
  ASSUME NEW l \in Nat, NEW s \in EtatPalier(l), NEW t \in Tuile
  PROVE  /\ Palier(s, t) \in EtatPalier(l)
         /\ \/ Palier(s, t) = s /\ (~s.bon \/ t[1] >= l \/ (t[2] = "affinage" /\ t[1] \notin DOMAIN s.tuiles))
            \/ /\ s.bon /\ t[1] \in 0 .. l - 1 /\ ~t[4]
               /\ Palier(s, t) = [tuiles |-> Avec(s.tuiles, t[1], Tuiles(s.tuiles, t[1])), pixels |-> s.pixels,
                                  zones |-> s.zones, bon |-> FALSE]
            \/ /\ s.bon /\ t[1] \in 0 .. l - 1 /\ t[4]
               /\ t[2] = "affinage" => t[1] \in DOMAIN s.tuiles
               /\ \E v \in Nat :
                    /\ v = IF t[2] = "pleine" THEN t[3] ELSE Tuiles(s.tuiles, t[1]) + t[3]
                    /\ Palier(s, t) = [tuiles |-> Avec(s.tuiles, t[1], v), pixels |-> Reporter(s.pixels, t[1], v),
                                       zones |-> Append(s.zones, <<t[1], 1>>), bon |-> TRUE]
<1>1. /\ s.tuiles \in TuilesDans(l) /\ s.pixels \in [1 .. l -> Nat] /\ s.zones \in Seq(Rectangle)
      /\ s.bon \in BOOLEAN
      /\ s = [tuiles |-> s.tuiles, pixels |-> s.pixels, zones |-> s.zones, bon |-> s.bon]
  BY DEF EtatPalier
<1>2. t[1] \in Nat /\ t[2] \in Natures /\ t[3] \in Nat /\ t[4] \in BOOLEAN
  BY TuileChamps
<1>3. Len(s.pixels) = l
  BY <1>1, EstSuite
<1>4. Tuiles(s.tuiles, t[1]) \in Nat
  BY <1>1, TuilesType
<1>5. PICK v \in Nat : v = IF t[2] = "pleine" THEN t[3] ELSE Tuiles(s.tuiles, t[1]) + t[3]
  BY <1>2, <1>4
<1>6. CASE ~s.bon \/ t[1] >= l \/ (t[2] = "affinage" /\ t[1] \notin DOMAIN s.tuiles)
  <2>1. Palier(s, t) = s
    BY <1>3, <1>6 DEF Palier
  <2>2. QED BY <1>6, <2>1
<1>7. CASE s.bon /\ ~(t[1] >= l) /\ ~(t[2] = "affinage" /\ t[1] \notin DOMAIN s.tuiles) /\ ~t[4]
  <2>1. t[1] \in 0 .. l - 1
    BY <1>2, <1>7
  <2>2. Palier(s, t) = [s EXCEPT !.bon = FALSE, !.tuiles = Avec(@, t[1], Tuiles(@, t[1]))]
    BY <1>3, <1>7 DEF Palier
  <2>3. Palier(s, t) = [tuiles |-> Avec(s.tuiles, t[1], Tuiles(s.tuiles, t[1])), pixels |-> s.pixels,
                        zones |-> s.zones, bon |-> FALSE]
    BY <1>1, <2>2
  <2>4. Avec(s.tuiles, t[1], Tuiles(s.tuiles, t[1])) \in TuilesDans(l)
    BY <1>1, <1>4, <2>1, AvecType DEF TuilesDans
  <2>5. Palier(s, t) \in EtatPalier(l)
    BY <1>1, <2>3, <2>4 DEF EtatPalier
  <2>6. QED BY <1>7, <2>1, <2>3, <2>5
<1>8. CASE s.bon /\ ~(t[1] >= l) /\ ~(t[2] = "affinage" /\ t[1] \notin DOMAIN s.tuiles) /\ t[4]
  <2>1. t[1] \in 0 .. l - 1
    BY <1>2, <1>8
  <2>2. Palier(s, t) = [s EXCEPT !.tuiles = Avec(@, t[1], v), !.pixels = Reporter(@, t[1], v),
                                 !.zones = Append(@, <<t[1], 1>>)]
    BY <1>3, <1>5, <1>8 DEF Palier
  <2>3. Palier(s, t) = [tuiles |-> Avec(s.tuiles, t[1], v), pixels |-> Reporter(s.pixels, t[1], v),
                        zones |-> Append(s.zones, <<t[1], 1>>), bon |-> TRUE]
    BY <1>1, <1>8, <2>2
  <2>4. Avec(s.tuiles, t[1], v) \in TuilesDans(l)
    BY <1>1, <2>1, AvecType DEF TuilesDans
  <2>5. Reporter(s.pixels, t[1], v) \in [1 .. l -> Nat]
    BY <1>1 DEF Reporter
  <2>6. <<t[1], 1>> \in Rectangle
    BY <1>2 DEF Rectangle
  <2>7. Append(s.zones, <<t[1], 1>>) \in Seq(Rectangle)
    BY <1>1, <2>6
  <2>8. Palier(s, t) \in EtatPalier(l)
    BY <2>3, <2>4, <2>5, <2>7 DEF EtatPalier
  <2>9. QED BY <1>5, <1>8, <2>1, <2>3, <2>8
<1>9. QED BY <1>1, <1>2, <1>6, <1>7, <1>8

LEMMA AttenduEffet ==
  ASSUME NEW a \in EtatAttendu, NEW t \in Tuile
  PROVE  AttenduTuile(a, t) \in EtatAttendu /\ AttenduTuile(a, t).largeur = a.largeur
<1>1. /\ a.tuiles \in TuilesSues /\ a.largeur \in Nat /\ a.bon \in BOOLEAN
      /\ a = [tuiles |-> a.tuiles, largeur |-> a.largeur, bon |-> a.bon]
  BY DEF EtatAttendu
<1>2. t[1] \in Nat /\ t[3] \in Nat
  BY TuileChamps
<1>3. \A v \in Nat \cup {Absente} : Avec(a.tuiles, t[1], v) \in TuilesSues
  BY <1>1, <1>2, AvecType DEF TuilesSues
<1>4. ASSUME NEW b, NEW v \in Nat \cup {Absente},
             b = [a EXCEPT !.tuiles = Avec(@, t[1], v)] \/ b = [a EXCEPT !.bon = FALSE, !.tuiles = Avec(@, t[1], v)]
      PROVE  b \in EtatAttendu /\ b.largeur = a.largeur
  BY <1>1, <1>3, <1>4 DEF EtatAttendu
<1>5. CASE t[1] >= a.largeur
  BY <1>5 DEF AttenduTuile
<1>6. CASE ~(t[1] >= a.largeur) /\ (~a.bon \/ ~t[4])
  <2>1. AttenduTuile(a, t) = [a EXCEPT !.bon = FALSE, !.tuiles = Avec(@, t[1], Absente)]
    BY <1>6 DEF AttenduTuile
  <2>2. QED BY <1>4, <2>1
<1>7. CASE ~(t[1] >= a.largeur) /\ ~(~a.bon \/ ~t[4])
  <2> DEFINE connu == t[1] \in DOMAIN a.tuiles
  <2>1. CASE t[2] = "pleine" \/ (t[2] = "ecart" /\ ~connu)
    <3>1. AttenduTuile(a, t) = [a EXCEPT !.tuiles = Avec(@, t[1], t[3])]
      BY <1>7, <2>1 DEF AttenduTuile
    <3>2. QED BY <1>2, <1>4, <3>1
  <2>2. CASE ~(t[2] = "pleine" \/ (t[2] = "ecart" /\ ~connu)) /\ connu
    <3> DEFINE v == IF a.tuiles[t[1]] = Absente THEN Absente ELSE a.tuiles[t[1]] + t[3]
    <3>1. AttenduTuile(a, t) = [a EXCEPT !.tuiles = Avec(@, t[1], v)]
      BY <1>7, <2>2 DEF AttenduTuile
    <3>2. a.tuiles[t[1]] \in Nat \cup {Absente}
      <4>1. PICK D \in SUBSET Nat : a.tuiles \in [D -> Nat \cup {Absente}]
        BY <1>1 DEF TuilesSues
      <4>2. QED BY <2>2, <4>1
    <3>3. v \in Nat \cup {Absente}
      BY <1>2, <3>2
    <3> HIDE DEF v
    <3>4. QED BY <1>4, <3>1, <3>3
  <2>3. CASE ~(t[2] = "pleine" \/ (t[2] = "ecart" /\ ~connu)) /\ ~connu
    BY <1>7, <2>3 DEF AttenduTuile
  <2>4. QED BY <2>1, <2>2, <2>3
<1>8. QED BY <1>5, <1>6, <1>7

\* A tile leaves the two sides in accord.
LEMMA AccordPas ==
  ASSUME SurfacesAssumption, NEW l \in Nat, NEW s \in EtatPalier(l), NEW a \in EtatAttendu, a.largeur = l, NEW t \in Tuile,
         Accord(s.tuiles, a.tuiles), ~s.bon => ~a.bon
  PROVE  /\ Accord(Palier(s, t).tuiles, AttenduTuile(a, t).tuiles)
         /\ ~Palier(s, t).bon => ~AttenduTuile(a, t).bon
<1>1. t[1] \in Nat /\ t[2] \in Natures /\ t[3] \in Nat /\ t[4] \in BOOLEAN
  BY TuileChamps
<1>2. s.tuiles \in TuilesDans(l) /\ a.tuiles \in TuilesSues
      /\ a = [tuiles |-> a.tuiles, largeur |-> l, bon |-> a.bon]
  BY DEF EtatPalier, EtatAttendu
<1>3. /\ DOMAIN s.tuiles \subseteq DOMAIN a.tuiles
      /\ \A x \in DOMAIN a.tuiles : a.tuiles[x] # Absente => x \in DOMAIN s.tuiles /\ s.tuiles[x] = a.tuiles[x]
  BY DEF Accord
<1>4. \A n \in Nat : n # Absente
  BY DEF SurfacesAssumption
<1> DEFINE p == Palier(s, t)
           b == AttenduTuile(a, t)
           x == t[1]
<1>5. CASE x >= l
  <2>1. p = s /\ b = a
    BY <1>1, <1>5, PalierEffet DEF AttenduTuile
  <2>2. QED BY <2>1
<1>6. CASE ~(x >= l) /\ (~a.bon \/ ~t[4])
  <2>1. b = [a EXCEPT !.bon = FALSE, !.tuiles = Avec(@, x, Absente)]
    BY <1>6 DEF AttenduTuile
  <2>2. b.tuiles = Avec(a.tuiles, x, Absente) /\ ~b.bon
    BY <1>2, <2>1
  <2>3. p.tuiles = s.tuiles \/ \E v : p.tuiles = Avec(s.tuiles, x, v)
    BY PalierEffet
  <2> HIDE DEF p, b, x
  <2>4. CASE p.tuiles = s.tuiles
    <3>1. /\ DOMAIN b.tuiles = DOMAIN a.tuiles \cup {x} /\ b.tuiles[x] = Absente
          /\ \A y \in DOMAIN a.tuiles : y # x => b.tuiles[y] = a.tuiles[y]
      BY <2>2 DEF Avec
    <3>2. Accord(p.tuiles, b.tuiles)
      BY <1>3, <2>4, <3>1 DEF Accord
    <3>3. QED BY <2>2, <3>2 DEF p, b
  <2>5. ASSUME NEW v, p.tuiles = Avec(s.tuiles, x, v) PROVE Accord(p.tuiles, b.tuiles)
    <3>1. /\ DOMAIN p.tuiles = DOMAIN s.tuiles \cup {x}
          /\ \A y \in DOMAIN s.tuiles : y # x => p.tuiles[y] = s.tuiles[y]
      BY <2>5 DEF Avec
    <3>2. /\ DOMAIN b.tuiles = DOMAIN a.tuiles \cup {x} /\ b.tuiles[x] = Absente
          /\ \A y \in DOMAIN a.tuiles : y # x => b.tuiles[y] = a.tuiles[y]
      BY <2>2 DEF Avec
    <3>3. QED BY <1>3, <3>1, <3>2 DEF Accord
  <2>6. QED BY <2>2, <2>3, <2>4, <2>5 DEF p, b
<1>7. CASE ~(x >= l) /\ a.bon /\ t[4]
  <2>0. s.bon /\ b.bon
    <3>1. s.bon
      BY <1>7
    <3>2. b.bon
      BY <1>2, <1>7 DEF AttenduTuile
    <3>3. QED BY <3>1, <3>2
  <2>1. CASE t[2] = "affinage" /\ x \notin DOMAIN s.tuiles
    <3>1. p = s
      BY <1>7, <2>0, <2>1, PalierEffet
    <3>2. CASE x \notin DOMAIN a.tuiles
      <4>1. b = a
        BY <1>7, <2>1, <3>2 DEF AttenduTuile
      <4>2. QED BY <2>0, <3>1, <4>1
    <3>3. CASE x \in DOMAIN a.tuiles
      <4>1. a.tuiles[x] = Absente
        BY <1>3, <2>1, <3>3
      <4>2. b = [a EXCEPT !.tuiles = Avec(@, x, Absente)]
        BY <1>7, <2>1, <3>3, <4>1 DEF AttenduTuile
      <4>3. b.tuiles = Avec(a.tuiles, x, Absente)
        BY <1>2, <4>2
      <4>4. /\ DOMAIN b.tuiles = DOMAIN a.tuiles \cup {x} /\ b.tuiles[x] = Absente
            /\ \A y \in DOMAIN a.tuiles : y # x => b.tuiles[y] = a.tuiles[y]
        BY <4>3 DEF Avec
      <4> HIDE DEF p, b, x
      <4>5. Accord(s.tuiles, b.tuiles)
        BY <1>3, <4>4 DEF Accord
      <4>6. QED BY <2>0, <3>1, <4>5 DEF p, b
    <3>4. QED BY <3>2, <3>3
  <2>2. CASE ~(t[2] = "affinage" /\ x \notin DOMAIN s.tuiles)
    <3>1. PICK v \in Nat : /\ v = IF t[2] = "pleine" THEN t[3] ELSE Tuiles(s.tuiles, x) + t[3]
                           /\ p.tuiles = Avec(s.tuiles, x, v) /\ p.bon
      BY <1>7, <2>0, <2>2, PalierEffet
    <3>2. \E w : b.tuiles = Avec(a.tuiles, x, w) /\ (w = Absente \/ w = v)
      <4>1. CASE t[2] = "pleine" \/ (t[2] = "ecart" /\ x \notin DOMAIN a.tuiles)
        <5>1. b = [a EXCEPT !.tuiles = Avec(@, x, t[3])]
          BY <1>7, <4>1 DEF AttenduTuile
        <5>2. b.tuiles = Avec(a.tuiles, x, t[3])
          BY <1>2, <5>1
        <5>3. v = t[3]
          <6>1. CASE t[2] = "pleine"
            BY <3>1, <6>1
          <6>2. CASE t[2] = "ecart" /\ x \notin DOMAIN a.tuiles
            <7>1. Tuiles(s.tuiles, x) = 0
              BY <1>3, <6>2 DEF Tuiles
            <7>2. QED BY <1>1, <3>1, <6>2, <7>1
          <6>3. QED BY <4>1, <6>1, <6>2
        <5>4. QED BY <5>2, <5>3
      <4>2. CASE ~(t[2] = "pleine" \/ (t[2] = "ecart" /\ x \notin DOMAIN a.tuiles))
        <5>1. x \in DOMAIN a.tuiles /\ t[2] # "pleine"
          <6>1. t[2] = "affinage" => x \in DOMAIN a.tuiles
            BY <1>3, <2>2
          <6>2. t[2] \in {"pleine", "ecart", "affinage"}
            BY <1>1 DEF Natures
          <6>3. QED BY <4>2, <6>1, <6>2
        <5>2. b = [a EXCEPT !.tuiles = Avec(@, x, IF a.tuiles[x] = Absente THEN Absente ELSE a.tuiles[x] + t[3])]
          BY <1>7, <4>2, <5>1 DEF AttenduTuile
        <5>3. b.tuiles = Avec(a.tuiles, x, IF a.tuiles[x] = Absente THEN Absente ELSE a.tuiles[x] + t[3])
          BY <1>2, <5>2
        <5>4. CASE a.tuiles[x] = Absente
          BY <5>3, <5>4
        <5>5. CASE a.tuiles[x] # Absente
          <6>1. x \in DOMAIN s.tuiles /\ s.tuiles[x] = a.tuiles[x]
            BY <1>3, <5>1, <5>5
          <6>2. v = a.tuiles[x] + t[3]
            BY <3>1, <5>1, <6>1 DEF Tuiles
          <6>3. QED BY <5>3, <5>5, <6>2
        <5>6. QED BY <5>4, <5>5
      <4>3. QED BY <4>1, <4>2
    <3>3. PICK w : b.tuiles = Avec(a.tuiles, x, w) /\ (w = Absente \/ w = v)
      BY <3>2
    <3>4. /\ DOMAIN p.tuiles = DOMAIN s.tuiles \cup {x} /\ p.tuiles[x] = v
          /\ \A y \in DOMAIN s.tuiles : y # x => p.tuiles[y] = s.tuiles[y]
      BY <3>1 DEF Avec
    <3>5. /\ DOMAIN b.tuiles = DOMAIN a.tuiles \cup {x} /\ b.tuiles[x] = w
          /\ \A y \in DOMAIN a.tuiles : y # x => b.tuiles[y] = a.tuiles[y]
      BY <3>3 DEF Avec
    <3> HIDE DEF p, b, x
    <3>6. Accord(p.tuiles, b.tuiles)
      BY <1>3, <3>3, <3>4, <3>5 DEF Accord
    <3>7. QED BY <3>1, <3>6 DEF p, b
  <2>3. QED BY <2>1, <2>2
<1>8. QED BY <1>5, <1>6, <1>7

-----------------------------------------------------------------------------
(* Streams of tiles.                                                         *)

LEMMA PaliersSuit ==
  ASSUME NEW l \in Nat, NEW s0 \in EtatPalier(l), NEW flux \in Seq(Tuile)
  PROVE  \E h : /\ h[0] = s0 /\ \A k \in 1 .. Len(flux) : h[k] = Palier(h[k - 1], flux[k])
                /\ Paliers(s0, flux) = h[Len(flux)]
<1> DEFINE n == Len(flux)
           E == EtatPalier(l)
           pas == [k \in 1 .. n |-> [e \in E |-> Palier(e, flux[k])]]
           Eq(g) == [s \in SUBSET (1 .. n) |->
                       IF s = {} THEN s0 ELSE Palier(g[s \ {Max(s)}], flux[Max(s)])]
           it == CHOOSE g : g = Eq(g)
<1>0. n \in Nat /\ DOMAIN flux = 1 .. n
  OBVIOUS
<1>1. pas \in [1 .. n -> [E -> E]]
  <2>1. \A k \in 1 .. n, e \in E : Palier(e, flux[k]) \in E
    BY PalierEffet
  <2>2. QED BY <2>1
<1>2. PICK g : Deplie(g, n, s0, pas) /\ \A s \in SUBSET (1 .. n) : g[s] \in E
  <2> HIDE DEF pas, n, E
  <2>1. s0 \in E
    BY DEF E
  <2>2. QED BY <1>0, <1>1, <2>1, DeplieExiste
<1>3. \A s \in SUBSET (1 .. n) : s # {} => Max(s) \in 1 .. n /\ s \ {Max(s)} \in SUBSET (1 .. n)
  BY <1>0, Premiers
<1>4. \A s \in SUBSET (1 .. n) : s # {} =>
        pas[Max(s)][g[s \ {Max(s)}]] = Palier(g[s \ {Max(s)}], flux[Max(s)])
  BY <1>2, <1>3
<1>5. g = Eq(g)
  <2> HIDE DEF pas, E
  <2>1. QED BY <1>2, <1>4 DEF Deplie
<1>6. it = Eq(it)
  BY <1>5
<1>7. Paliers(s0, flux) = it[1 .. n]
  BY <1>0 DEF Paliers, FoldLeft, MapThenFoldSet
<1> HIDE DEF it, pas, E
<1>8. it[{}] = s0
  BY <1>6
<1>9. \A k \in 1 .. n : it[1 .. k] = Palier(it[1 .. (k - 1)], flux[k])
  <2> SUFFICES ASSUME NEW k \in 1 .. n PROVE it[1 .. k] = Palier(it[1 .. (k - 1)], flux[k])
    OBVIOUS
  <2>1. /\ 1 .. k \in SUBSET (1 .. n) /\ 1 .. k # {}
        /\ Max(1 .. k) = k /\ (1 .. k) \ {k} = 1 .. (k - 1)
    BY <1>0, DernierDe
  <2>2. QED BY <1>6, <2>1
<1> DEFINE h == [k \in 0 .. n |-> it[1 .. k]]
<1>10. h[0] = s0
  <2>1. 1 .. 0 = {} /\ 0 \in 0 .. n
    BY <1>0
  <2>2. QED BY <1>8, <2>1
<1>11. \A k \in 1 .. n : h[k] = Palier(h[k - 1], flux[k])
  <2>1. \A k \in 1 .. n : k \in 0 .. n /\ k - 1 \in 0 .. n
    BY <1>0
  <2>2. QED BY <1>9, <2>1
<1>12. h[n] = it[1 .. n]
  BY <1>0
<1> HIDE DEF h
<1>13. QED BY <1>7, <1>10, <1>11, <1>12

LEMMA AttendusSuit ==
  ASSUME NEW a0 \in EtatAttendu, NEW flux \in Seq(Tuile)
  PROVE  \E h : /\ h[0] = a0 /\ \A k \in 1 .. Len(flux) : h[k] = AttenduTuile(h[k - 1], flux[k])
                /\ Attendus(a0, flux) = h[Len(flux)]
<1> DEFINE n == Len(flux)
           E == EtatAttendu
           pas == [k \in 1 .. n |-> [e \in E |-> AttenduTuile(e, flux[k])]]
           Eq(g) == [s \in SUBSET (1 .. n) |->
                       IF s = {} THEN a0 ELSE AttenduTuile(g[s \ {Max(s)}], flux[Max(s)])]
           it == CHOOSE g : g = Eq(g)
<1>0. n \in Nat /\ DOMAIN flux = 1 .. n
  OBVIOUS
<1>1. pas \in [1 .. n -> [E -> E]]
  <2>1. \A k \in 1 .. n, e \in E : AttenduTuile(e, flux[k]) \in E
    BY AttenduEffet
  <2>2. QED BY <2>1
<1>2. PICK g : Deplie(g, n, a0, pas) /\ \A s \in SUBSET (1 .. n) : g[s] \in E
  <2> HIDE DEF pas, n, E
  <2>1. a0 \in E
    BY DEF E
  <2>2. QED BY <1>0, <1>1, <2>1, DeplieExiste
<1>3. \A s \in SUBSET (1 .. n) : s # {} => Max(s) \in 1 .. n /\ s \ {Max(s)} \in SUBSET (1 .. n)
  BY <1>0, Premiers
<1>4. \A s \in SUBSET (1 .. n) : s # {} =>
        pas[Max(s)][g[s \ {Max(s)}]] = AttenduTuile(g[s \ {Max(s)}], flux[Max(s)])
  BY <1>2, <1>3
<1>5. g = Eq(g)
  <2> HIDE DEF pas, E
  <2>1. QED BY <1>2, <1>4 DEF Deplie
<1>6. it = Eq(it)
  BY <1>5
<1>7. Attendus(a0, flux) = it[1 .. n]
  BY <1>0 DEF Attendus, FoldLeft, MapThenFoldSet
<1> HIDE DEF it, pas, E
<1>8. it[{}] = a0
  BY <1>6
<1>9. \A k \in 1 .. n : it[1 .. k] = AttenduTuile(it[1 .. (k - 1)], flux[k])
  <2> SUFFICES ASSUME NEW k \in 1 .. n PROVE it[1 .. k] = AttenduTuile(it[1 .. (k - 1)], flux[k])
    OBVIOUS
  <2>1. /\ 1 .. k \in SUBSET (1 .. n) /\ 1 .. k # {}
        /\ Max(1 .. k) = k /\ (1 .. k) \ {k} = 1 .. (k - 1)
    BY <1>0, DernierDe
  <2>2. QED BY <1>6, <2>1
<1> DEFINE h == [k \in 0 .. n |-> it[1 .. k]]
<1>10. h[0] = a0
  <2>1. 1 .. 0 = {} /\ 0 \in 0 .. n
    BY <1>0
  <2>2. QED BY <1>8, <2>1
<1>11. \A k \in 1 .. n : h[k] = AttenduTuile(h[k - 1], flux[k])
  <2>1. \A k \in 1 .. n : k \in 0 .. n /\ k - 1 \in 0 .. n
    BY <1>0
  <2>2. QED BY <1>9, <2>1
<1>12. h[n] = it[1 .. n]
  BY <1>0
<1> HIDE DEF h
<1>13. QED BY <1>7, <1>10, <1>11, <1>12

LEMMA CouvertesAjout ==
  ASSUME NEW zs \in Seq(Rectangle), NEW z \in Rectangle, NEW l
  PROVE  Couvertes(Append(zs, z), l) = Couvertes(zs, l) \cup Rognee(z, l)
<1>1. PICK n \in Nat : n = Len(zs) /\ DOMAIN zs = 1 .. n
  OBVIOUS
<1>2. /\ DOMAIN Append(zs, z) = 1 .. n + 1 /\ Append(zs, z)[n + 1] = z
      /\ \A k \in 1 .. n : Append(zs, z)[k] = zs[k]
  BY <1>1
<1>3. 1 .. n + 1 = (1 .. n) \cup {n + 1}
  BY <1>1
<1>4. QED BY <1>1, <1>2, <1>3 DEF Couvertes

\* What one tile paints.
LEMMA PalierPeint ==
  ASSUME NEW l \in Nat, NEW s \in EtatPalier(l), NEW t \in Tuile
  PROVE  \/ Palier(s, t).pixels = s.pixels /\ Palier(s, t).zones = s.zones
         \/ t[1] \in 0 .. l - 1 /\ \E v \in Nat :
              Palier(s, t).pixels = Reporter(s.pixels, t[1], v) /\ Palier(s, t).zones = Append(s.zones, <<t[1], 1>>)
<1>1. \/ Palier(s, t) = s /\ (~s.bon \/ t[1] >= l \/ (t[2] = "affinage" /\ t[1] \notin DOMAIN s.tuiles))
      \/ /\ s.bon /\ t[1] \in 0 .. l - 1 /\ ~t[4]
         /\ Palier(s, t) = [tuiles |-> Avec(s.tuiles, t[1], Tuiles(s.tuiles, t[1])), pixels |-> s.pixels,
                            zones |-> s.zones, bon |-> FALSE]
      \/ /\ s.bon /\ t[1] \in 0 .. l - 1 /\ t[4]
         /\ t[2] = "affinage" => t[1] \in DOMAIN s.tuiles
         /\ \E v \in Nat :
              /\ v = IF t[2] = "pleine" THEN t[3] ELSE Tuiles(s.tuiles, t[1]) + t[3]
              /\ Palier(s, t) = [tuiles |-> Avec(s.tuiles, t[1], v), pixels |-> Reporter(s.pixels, t[1], v),
                                 zones |-> Append(s.zones, <<t[1], 1>>), bon |-> TRUE]
  BY PalierEffet
<1>2. CASE Palier(s, t) = s
  BY <1>2
<1>3. CASE Palier(s, t) = [tuiles |-> Avec(s.tuiles, t[1], Tuiles(s.tuiles, t[1])), pixels |-> s.pixels,
                           zones |-> s.zones, bon |-> FALSE]
  BY <1>3
<1>4. ASSUME t[1] \in 0 .. l - 1, NEW v \in Nat,
             Palier(s, t) = [tuiles |-> Avec(s.tuiles, t[1], v), pixels |-> Reporter(s.pixels, t[1], v),
                             zones |-> Append(s.zones, <<t[1], 1>>), bon |-> TRUE]
      PROVE  Palier(s, t).pixels = Reporter(s.pixels, t[1], v) /\ Palier(s, t).zones = Append(s.zones, <<t[1], 1>>)
  BY <1>4
<1>5. QED BY <1>1, <1>2, <1>3, <1>4

\* A stream: what it paints is in its zones, and the two sides stay in accord.
LEMMA FluxEffet ==
  ASSUME SurfacesAssumption, NEW l \in Nat, NEW s0 \in EtatPalier(l), NEW a0 \in EtatAttendu, a0.largeur = l,
         NEW flux \in Seq(Tuile), Accord(s0.tuiles, a0.tuiles), s0.bon, s0.zones = << >>
  PROVE  /\ Paliers(s0, flux) \in EtatPalier(l) /\ Attendus(a0, flux) \in EtatAttendu
         /\ Accord(Paliers(s0, flux).tuiles, Attendus(a0, flux).tuiles)
         /\ Repeint(s0.pixels, Paliers(s0, flux).pixels, Couvertes(Paliers(s0, flux).zones, l))
<1>1. PICK h : /\ h[0] = s0 /\ \A k \in 1 .. Len(flux) : h[k] = Palier(h[k - 1], flux[k])
               /\ Paliers(s0, flux) = h[Len(flux)]
  BY PaliersSuit
<1>2. PICK g : /\ g[0] = a0 /\ \A k \in 1 .. Len(flux) : g[k] = AttenduTuile(g[k - 1], flux[k])
               /\ Attendus(a0, flux) = g[Len(flux)]
  BY AttendusSuit
<1> DEFINE R(s, a) == /\ s \in EtatPalier(l) /\ a \in EtatAttendu /\ a.largeur = l
                      /\ Accord(s.tuiles, a.tuiles) /\ (~s.bon => ~a.bon)
                      /\ Repeint(s0.pixels, s.pixels, Couvertes(s.zones, l))
           T == {k \in 0 .. Len(flux) : R(h[k], g[k])}
<1>3. Len(flux) \in Nat
  OBVIOUS
<1>4. s0.pixels \in Seq(Nat) /\ Len(s0.pixels) = l
  <2>1. s0.pixels \in [1 .. l -> Nat]
    BY DEF EtatPalier
  <2>2. QED BY <2>1, EstSuite
<1>5. 0 \in T
  <2>1. Repeint(s0.pixels, s0.pixels, Couvertes(s0.zones, l))
    BY <1>4 DEF Repeint
  <2>2. R(s0, a0)
    BY <2>1
  <2> HIDE DEF R
  <2>3. QED BY <1>1, <1>2, <1>3, <2>2
<1>6. ASSUME NEW s, NEW a, NEW t \in Tuile, R(s, a) PROVE R(Palier(s, t), AttenduTuile(a, t))
  <2>1. Palier(s, t) \in EtatPalier(l) /\ AttenduTuile(a, t) \in EtatAttendu /\ AttenduTuile(a, t).largeur = l
    BY <1>6, PalierEffet, AttenduEffet
  <2>2. Accord(Palier(s, t).tuiles, AttenduTuile(a, t).tuiles) /\ (~Palier(s, t).bon => ~AttenduTuile(a, t).bon)
    BY <1>6, AccordPas
  <2>3. Repeint(s0.pixels, Palier(s, t).pixels, Couvertes(Palier(s, t).zones, l))
    <3>1. s \in EtatPalier(l) /\ Repeint(s0.pixels, s.pixels, Couvertes(s.zones, l))
      BY <1>6
    <3>2. CASE Palier(s, t).pixels = s.pixels /\ Palier(s, t).zones = s.zones
      BY <3>1, <3>2
    <3>3. ASSUME t[1] \in 0 .. l - 1, NEW v \in Nat,
                 Palier(s, t).pixels = Reporter(s.pixels, t[1], v),
                 Palier(s, t).zones = Append(s.zones, <<t[1], 1>>)
          PROVE  Repeint(s0.pixels, Palier(s, t).pixels, Couvertes(Palier(s, t).zones, l))
      <4>1. PICK x \in 0 .. l - 1 : x = t[1]
        BY <3>3
      <4>2. Palier(s, t).pixels = Reporter(s.pixels, x, v) /\ Palier(s, t).zones = Append(s.zones, <<x, 1>>)
        BY <3>3, <4>1
      <4>3. Palier(s, t).pixels \in [1 .. l -> Nat] /\ s.zones \in Seq(Rectangle) /\ s.pixels \in [1 .. l -> Nat]
        BY <2>1, <3>1 DEF EtatPalier
      <4>4. <<x, 1>> \in Rectangle
        BY DEF Rectangle
      <4>5. Couvertes(Append(s.zones, <<x, 1>>), l) = Couvertes(s.zones, l) \cup Rognee(<<x, 1>>, l)
        BY <4>3, <4>4, CouvertesAjout
      <4>6. x \in Rognee(<<x, 1>>, l)
        BY DEF Rognee
      <4>7. \A p \in 1 .. l : p # x + 1 => Reporter(s.pixels, x, v)[p] = s.pixels[p]
        BY <4>3 DEF Reporter
      <4>8. Palier(s, t).pixels \in Seq(Nat) /\ Len(Palier(s, t).pixels) = l
        BY <4>3, EstSuite
      <4>9. \A p \in 1 .. l : p - 1 \notin Couvertes(Append(s.zones, <<x, 1>>), l) =>
              p # x + 1 /\ p - 1 \notin Couvertes(s.zones, l)
        <5> SUFFICES ASSUME NEW p \in 1 .. l, p - 1 \notin Couvertes(Append(s.zones, <<x, 1>>), l)
                     PROVE  p # x + 1 /\ p - 1 \notin Couvertes(s.zones, l)
          OBVIOUS
        <5>1. p - 1 # x
          BY <4>5, <4>6
        <5>2. QED BY <4>5, <5>1
      <4>10. \A p \in 1 .. l : p - 1 \notin Couvertes(s.zones, l) => s.pixels[p] = s0.pixels[p]
        BY <1>4, <3>1 DEF Repeint
      <4> HIDE DEF R
      <4>11. QED BY <1>4, <4>2, <4>7, <4>8, <4>9, <4>10 DEF Repeint
    <3>4. \/ Palier(s, t).pixels = s.pixels /\ Palier(s, t).zones = s.zones
          \/ t[1] \in 0 .. l - 1 /\ \E v \in Nat :
               Palier(s, t).pixels = Reporter(s.pixels, t[1], v) /\ Palier(s, t).zones = Append(s.zones, <<t[1], 1>>)
      BY <3>1, PalierPeint
    <3> HIDE DEF R
    <3>5. QED BY <3>2, <3>3, <3>4
  <2>4. QED BY <2>1, <2>2, <2>3
<1>7. ASSUME NEW k \in 1 .. Len(flux), k - 1 \in T PROVE k \in T
  <2>1. R(h[k - 1], g[k - 1]) /\ flux[k] \in Tuile
    BY <1>7
  <2> HIDE DEF R
  <2>2. R(Palier(h[k - 1], flux[k]), AttenduTuile(g[k - 1], flux[k]))
    BY <1>6, <2>1
  <2>3. QED BY <1>1, <1>2, <1>3, <2>2
<1> HIDE DEF T
<1>8. \A k \in 0 .. Len(flux) : k \in T
  BY <1>3, <1>5, <1>7, Echelle
<1> USE DEF T
<1>9. R(h[Len(flux)], g[Len(flux)])
  BY <1>3, <1>8
<1>10. QED BY <1>1, <1>2, <1>9

-----------------------------------------------------------------------------
(* Painting.                                                                 *)

LEMMA PeinteSuit ==
  ASSUME NEW im \in Seq(Nat), NEW pieces \in Seq(Trame)
  PROVE  \E h : /\ h[0] = im /\ \A k \in 1 .. Len(pieces) : h[k] = EcrireZone(h[k - 1], pieces[k].x, pieces[k].pixels)
                /\ Peinte(im, pieces) = h[Len(pieces)]
<1> DEFINE n == Len(pieces)
           E == Seq(Nat)
           pas == [k \in 1 .. n |-> [e \in E |-> EcrireZone(e, pieces[k].x, pieces[k].pixels)]]
           Eq(g) == [s \in SUBSET (1 .. n) |->
                       IF s = {} THEN im ELSE EcrireZone(g[s \ {Max(s)}], pieces[Max(s)].x, pieces[Max(s)].pixels)]
           it == CHOOSE g : g = Eq(g)
<1>0. n \in Nat /\ DOMAIN pieces = 1 .. n
  OBVIOUS
<1>1. pas \in [1 .. n -> [E -> E]]
  <2>1. \A k \in 1 .. n, e \in E : EcrireZone(e, pieces[k].x, pieces[k].pixels) \in E
    <3>1. \A k \in 1 .. n : pieces[k] \in Trame
      OBVIOUS
    <3>3. \A k \in 1 .. n : pieces[k].x \in Nat /\ pieces[k].pixels \in Seq(Nat)
      BY <3>1 DEF Trame
    <3>2. QED BY <3>3, EcrireZoneEffet DEF Repeint
  <2>2. QED BY <2>1
<1>2. PICK g : Deplie(g, n, im, pas) /\ \A s \in SUBSET (1 .. n) : g[s] \in E
  <2> HIDE DEF pas, n, E
  <2>1. im \in E
    BY DEF E
  <2>2. QED BY <1>0, <1>1, <2>1, DeplieExiste
<1>3. \A s \in SUBSET (1 .. n) : s # {} => Max(s) \in 1 .. n /\ s \ {Max(s)} \in SUBSET (1 .. n)
  BY <1>0, Premiers
<1>4. \A s \in SUBSET (1 .. n) : s # {} =>
        pas[Max(s)][g[s \ {Max(s)}]] = EcrireZone(g[s \ {Max(s)}], pieces[Max(s)].x, pieces[Max(s)].pixels)
  BY <1>2, <1>3
<1>5. g = Eq(g)
  <2> HIDE DEF pas, E
  <2>1. QED BY <1>2, <1>4 DEF Deplie
<1>6. it = Eq(it)
  BY <1>5
<1>7. Peinte(im, pieces) = it[1 .. n]
  BY <1>0 DEF Peinte, FoldLeft, MapThenFoldSet
<1> HIDE DEF it, pas, E
<1>8. it[{}] = im
  BY <1>6
<1>9. \A k \in 1 .. n : it[1 .. k] = EcrireZone(it[1 .. (k - 1)], pieces[k].x, pieces[k].pixels)
  <2> SUFFICES ASSUME NEW k \in 1 .. n PROVE it[1 .. k] = EcrireZone(it[1 .. (k - 1)], pieces[k].x, pieces[k].pixels)
    OBVIOUS
  <2>1. /\ 1 .. k \in SUBSET (1 .. n) /\ 1 .. k # {}
        /\ Max(1 .. k) = k /\ (1 .. k) \ {k} = 1 .. (k - 1)
    BY <1>0, DernierDe
  <2>2. QED BY <1>6, <2>1
<1> DEFINE h == [k \in 0 .. n |-> it[1 .. k]]
<1>10. h[0] = im
  <2>1. 1 .. 0 = {} /\ 0 \in 0 .. n
    BY <1>0
  <2>2. QED BY <1>8, <2>1
<1>11. \A k \in 1 .. n : h[k] = EcrireZone(h[k - 1], pieces[k].x, pieces[k].pixels)
  <2>1. \A k \in 1 .. n : k \in 0 .. n /\ k - 1 \in 0 .. n
    BY <1>0
  <2>2. QED BY <1>9, <2>1
<1>12. h[n] = it[1 .. n]
  BY <1>0
<1> HIDE DEF h
<1>13. QED BY <1>7, <1>10, <1>11, <1>12

\* A quotient of a product, in bounds.
LEMMA Quotient ==
  ASSUME NEW n \in Nat, NEW l \in Nat \ {0}, NEW p \in 1 .. l, n > 0
  PROVE  ((p - 1) * n) \div l \in 0 .. n - 1
<1>1. PICK a \in Nat : a = (p - 1) * n
  OBVIOUS
<1>2. a < l * n
  <2>1. PICK d \in Nat : p - 1 + d + 1 = l
    <3>1. l - p \in Nat /\ p - 1 + (l - p) + 1 = l
      OBVIOUS
    <3>2. QED BY <3>1
  <2>2. l * n = (p - 1) * n + (d + 1) * n
    BY <2>1
  <2>3. (d + 1) * n >= n
    OBVIOUS
  <2>4. QED BY <1>1, <2>2, <2>3
<1>3. PICK k \in Nat, r \in 0 .. l - 1 : a \div l = k /\ a = k * l + r
  OBVIOUS
<1>4. k < n
  <2> SUFFICES ASSUME k >= n PROVE FALSE
    OBVIOUS
  <2>1. k * l >= n * l
    OBVIOUS
  <2>2. QED BY <1>2, <1>3, <2>1
<1>5. QED BY <1>1, <1>3, <1>4

\* The size first: an image of another width, from the old one.
LEMMA EtirerEffet ==
  ASSUME NEW im \in Seq(Nat), Len(im) > 0, NEW l \in Nat
  PROVE  /\ Etirer(im, l) \in Seq(Nat)
         /\ Len(Etirer(im, l)) = IF l = 0 THEN Len(im) ELSE l
         /\ Etirer(im, 0) = im
<1>0. Etirer(im, 0) = im
  BY DEF Etirer
<1>1. CASE l = 0 \/ l = Len(im)
  BY <1>0, <1>1 DEF Etirer
<1>2. CASE ~(l = 0 \/ l = Len(im))
  <2>1. PICK n \in Nat : n = Len(im) /\ n > 0
    OBVIOUS
  <2>2. Etirer(im, l) = [p \in 1 .. l |-> im[(((p - 1) * n) \div l) + 1]]
    BY <1>2, <2>1 DEF Etirer
  <2>3. \A p \in 1 .. l : im[(((p - 1) * n) \div l) + 1] \in Nat
    <3> SUFFICES ASSUME NEW p \in 1 .. l PROVE im[(((p - 1) * n) \div l) + 1] \in Nat
      OBVIOUS
    <3>1. ((p - 1) * n) \div l \in 0 .. n - 1
      BY <1>2, <2>1, Quotient
    <3>2. ((p - 1) * n) \div l + 1 \in 1 .. n
      BY <2>1, <3>1
    <3>3. QED BY <2>1, <3>2
  <2>4. Etirer(im, l) \in [1 .. l -> Nat]
    BY <2>2, <2>3
  <2>5. QED BY <1>0, <1>2, <2>4, EstSuite
<1>3. QED BY <1>1, <1>2

\* What is to be shown is what the loop shows.
LEMMA PeinteEffet ==
  ASSUME NEW im \in Seq(Nat), NEW pieces \in Seq(Trame)
  PROVE  /\ Peinte(im, pieces) \in Seq(Nat) /\ Len(Peinte(im, pieces)) = Len(im)
         /\ \A q \in Nat : \A v : q < Len(im) /\ MontreDans(pieces, im, q, v) => Peinte(im, pieces)[q + 1] = v
<1>1. PICK h : /\ h[0] = im
               /\ \A k \in 1 .. Len(pieces) : h[k] = EcrireZone(h[k - 1], pieces[k].x, pieces[k].pixels)
               /\ Peinte(im, pieces) = h[Len(pieces)]
  BY PeinteSuit
<1>2. Len(pieces) \in Nat /\ Len(im) \in Nat
      /\ \A k \in 1 .. Len(pieces) : pieces[k].x \in Nat /\ pieces[k].pixels \in Seq(Nat)
  <2>1. Len(pieces) \in Nat /\ Len(im) \in Nat /\ \A k \in 1 .. Len(pieces) : pieces[k] \in Trame
    OBVIOUS
  <2>2. QED BY <2>1 DEF Trame
<1> DEFINE n == Len(pieces)
           T == {k \in 0 .. n : h[k] \in Seq(Nat) /\ Len(h[k]) = Len(im)}
<1>3. 0 \in T
  BY <1>1, <1>2
<1>4. ASSUME NEW k \in 1 .. n, k - 1 \in T PROVE k \in T
  <2>1. h[k - 1] \in Seq(Nat) /\ Len(h[k - 1]) = Len(im)
    BY <1>4
  <2>2. h[k] = EcrireZone(h[k - 1], pieces[k].x, pieces[k].pixels)
    BY <1>1
  <2>3. h[k] \in Seq(Nat) /\ Len(h[k]) = Len(im)
    <3> DEFINE c == Rognee(<<pieces[k].x, Len(pieces[k].pixels)>>, Len(h[k - 1]))
    <3>1. Repeint(h[k - 1], EcrireZone(h[k - 1], pieces[k].x, pieces[k].pixels), c)
      BY <1>2, <2>1, EcrireZoneEffet
    <3> HIDE DEF c
    <3>2. QED BY <2>1, <2>2, <3>1 DEF Repeint
  <2>4. QED BY <1>2, <2>3
<1>5. \A k \in 0 .. n : h[k] \in Seq(Nat) /\ Len(h[k]) = Len(im)
  <2> HIDE DEF T
  <2>1. \A k \in 0 .. n : k \in T
    BY <1>2, <1>3, <1>4, Echelle
  <2> USE DEF T
  <2>2. QED BY <2>1
<1>6. ASSUME NEW q \in Nat, NEW v, q < Len(im), MontreDans(pieces, im, q, v)
      PROVE  h[n][q + 1] = v
  <2>1. PICK m \in 0 .. n :
          /\ IF m = 0 THEN im[q + 1] = v ELSE Couvre(pieces[m], q) /\ Teinte(pieces[m], q) = v
          /\ \A k \in m + 1 .. n : Couvre(pieces[k], q) => Teinte(pieces[k], q) = v
    BY <1>6 DEF MontreDans
  <2>2. ASSUME NEW k \in 1 .. n
        PROVE  h[k][q + 1] = IF Couvre(pieces[k], q) THEN Teinte(pieces[k], q) ELSE h[k - 1][q + 1]
    <3>1. PICK e : e = h[k - 1] /\ e \in Seq(Nat) /\ Len(e) = Len(im)
      <4>1. k - 1 \in 0 .. n
        BY <1>2
      <4>2. QED BY <1>5, <4>1
    <3>2. PICK x \in Nat, px \in Seq(Nat) : x = pieces[k].x /\ px = pieces[k].pixels
      BY <1>2
    <3>3. h[k] = EcrireZone(e, x, px)
      BY <1>1, <3>1, <3>2
    <3>4. q + 1 \in DOMAIN e
      BY <1>2, <1>6, <3>1
    <3>5. h[k][q + 1] = IF (q + 1) - x \in DOMAIN px THEN px[(q + 1) - x] ELSE e[q + 1]
      BY <3>3, <3>4 DEF EcrireZone
    <3>6. (q + 1) - x = q - x + 1 /\ (q - x + 1 \in DOMAIN px => q >= x)
      <4>1. PICK d \in Nat : DOMAIN px = 1 .. d
        BY <3>2
      <4>2. \A y \in Nat : (q + 1) - y = q - y + 1 /\ (q - y + 1 \in 1 .. d => q >= y)
        OBVIOUS
      <4>3. QED BY <4>1, <4>2
    <3>7. Couvre(pieces[k], q) <=> (q + 1) - x \in DOMAIN px
      BY <3>2, <3>6 DEF Couvre
    <3>8. QED BY <3>1, <3>2, <3>5, <3>6, <3>7 DEF Teinte
  <2> DEFINE U == {k \in 0 .. n : k >= m => h[k][q + 1] = v}
  <2>3. 0 \in U
    <3>1. 0 >= m => m = 0
      BY <1>2
    <3>2. QED BY <1>1, <1>2, <2>1, <3>1
  <2>4. ASSUME NEW k \in 1 .. n, k - 1 \in U PROVE k \in U
    <3>1. CASE k < m
      BY <1>2, <3>1
    <3>2. CASE k = m
      <4>1. m # 0
        BY <3>2
      <4>2. h[k][q + 1] = v
        BY <2>1, <2>2, <3>2, <4>1
      <4>3. QED BY <1>2, <4>2
    <3>3. CASE k > m
      <4>1. k - 1 >= m /\ k \in m + 1 .. n
        BY <1>2, <3>3
      <4>2. h[k - 1][q + 1] = v
        BY <2>4, <4>1
      <4>3. h[k][q + 1] = v
        BY <2>1, <2>2, <4>1, <4>2
      <4>4. QED BY <1>2, <4>3
    <3>4. QED BY <1>2, <3>1, <3>2, <3>3
  <2> HIDE DEF U
  <2>5. \A k \in 0 .. n : k \in U
    BY <1>2, <2>3, <2>4, Echelle
  <2> USE DEF U
  <2>6. n \in U /\ n >= m
    BY <1>2, <2>5
  <2>7. QED BY <2>6
<1>7. n \in 0 .. n
  BY <1>2
<1>8. QED BY <1>1, <1>5, <1>6, <1>7

-----------------------------------------------------------------------------
(* The zones that touch the surface cover what all of them cover.            *)

LEMMA ToucheesSuit ==
  ASSUME NEW zs \in Seq(Rectangle), NEW l
  PROVE  \E h : /\ h[0] = << >> /\ \A k \in 1 .. Len(zs) : h[k] = (IF Rognee(zs[k], l) = {} THEN h[k - 1] ELSE Append(h[k - 1], zs[k]))
                /\ Touchees(zs, l) = h[Len(zs)]
<1> DEFINE n == Len(zs)
           E == Seq(Rectangle)
           pas == [k \in 1 .. n |-> [e \in E |-> (IF Rognee(zs[k], l) = {} THEN e ELSE Append(e, zs[k]))]]
           Eq(g) == [s \in SUBSET (1 .. n) |->
                       IF s = {} THEN << >> ELSE (IF Rognee(zs[Max(s)], l) = {} THEN g[s \ {Max(s)}] ELSE Append(g[s \ {Max(s)}], zs[Max(s)]))]
           it == CHOOSE g : g = Eq(g)
<1>0. n \in Nat /\ DOMAIN zs = 1 .. n
  OBVIOUS
<1>1. pas \in [1 .. n -> [E -> E]]
  <2>1. \A k \in 1 .. n, e \in E : (IF Rognee(zs[k], l) = {} THEN e ELSE Append(e, zs[k])) \in E
    <3>1. \A k \in 1 .. n : zs[k] \in Rectangle
      OBVIOUS
    <3>2. QED BY <3>1
  <2>2. QED BY <2>1
<1>2. PICK g : Deplie(g, n, << >>, pas) /\ \A s \in SUBSET (1 .. n) : g[s] \in E
  <2> HIDE DEF pas, n, E
  <2>1. << >> \in E
    BY DEF E
  <2>2. QED BY <1>0, <1>1, <2>1, DeplieExiste
<1>3. \A s \in SUBSET (1 .. n) : s # {} => Max(s) \in 1 .. n /\ s \ {Max(s)} \in SUBSET (1 .. n)
  BY <1>0, Premiers
<1>4. \A s \in SUBSET (1 .. n) : s # {} =>
        pas[Max(s)][g[s \ {Max(s)}]] = (IF Rognee(zs[Max(s)], l) = {} THEN g[s \ {Max(s)}] ELSE Append(g[s \ {Max(s)}], zs[Max(s)]))
  BY <1>2, <1>3
<1>5. g = Eq(g)
  <2> HIDE DEF pas, E
  <2>1. QED BY <1>2, <1>4 DEF Deplie
<1>6. it = Eq(it)
  BY <1>5
<1>7. Touchees(zs, l) = it[1 .. n]
  BY <1>0 DEF Touchees, FoldLeft, MapThenFoldSet
<1> HIDE DEF it, pas, E
<1>8. it[{}] = << >>
  BY <1>6
<1>9. \A k \in 1 .. n : it[1 .. k] = (IF Rognee(zs[k], l) = {} THEN it[1 .. (k - 1)] ELSE Append(it[1 .. (k - 1)], zs[k]))
  <2> SUFFICES ASSUME NEW k \in 1 .. n PROVE it[1 .. k] = (IF Rognee(zs[k], l) = {} THEN it[1 .. (k - 1)] ELSE Append(it[1 .. (k - 1)], zs[k]))
    OBVIOUS
  <2>1. /\ 1 .. k \in SUBSET (1 .. n) /\ 1 .. k # {}
        /\ Max(1 .. k) = k /\ (1 .. k) \ {k} = 1 .. (k - 1)
    BY <1>0, DernierDe
  <2>2. QED BY <1>6, <2>1
<1> DEFINE h == [k \in 0 .. n |-> it[1 .. k]]
<1>10. h[0] = << >>
  <2>1. 1 .. 0 = {} /\ 0 \in 0 .. n
    BY <1>0
  <2>2. QED BY <1>8, <2>1
<1>11. \A k \in 1 .. n : h[k] = (IF Rognee(zs[k], l) = {} THEN h[k - 1] ELSE Append(h[k - 1], zs[k]))
  <2>1. \A k \in 1 .. n : k \in 0 .. n /\ k - 1 \in 0 .. n
    BY <1>0
  <2>2. QED BY <1>9, <2>1
<1>12. h[n] = it[1 .. n]
  BY <1>0
<1> HIDE DEF h
<1>13. QED BY <1>7, <1>10, <1>11, <1>12

LEMMA ToucheesEffet ==
  ASSUME NEW zs \in Seq(Rectangle), NEW l
  PROVE  Touchees(zs, l) \in Seq(Rectangle) /\ Couvertes(Touchees(zs, l), l) = Couvertes(zs, l)
<1>1. PICK h : /\ h[0] = << >>
               /\ \A k \in 1 .. Len(zs) : h[k] = (IF Rognee(zs[k], l) = {} THEN h[k - 1] ELSE Append(h[k - 1], zs[k]))
               /\ Touchees(zs, l) = h[Len(zs)]
  BY ToucheesSuit
<1>2. Len(zs) \in Nat /\ DOMAIN zs = 1 .. Len(zs) /\ \A k \in 1 .. Len(zs) : zs[k] \in Rectangle
  OBVIOUS
<1> DEFINE C(k) == UNION {Rognee(zs[j], l) : j \in 1 .. k}
           T == {k \in 0 .. Len(zs) : h[k] \in Seq(Rectangle) /\ Couvertes(h[k], l) = C(k)}
<1> HIDE DEF C
<1>3. 0 \in T
  <2>1. Couvertes(<< >>, l) = {}
    BY DEF Couvertes
  <2>2. C(0) = {}
    BY DEF C
  <2>4. << >> \in Seq(Rectangle)
    OBVIOUS
  <2>3. h[0] = << >>
    BY <1>1
  <2>5. h[0] \in Seq(Rectangle) /\ Couvertes(h[0], l) = C(0)
    BY <2>1, <2>2, <2>3, <2>4, Zenon
  <2>6. QED BY <1>2, <2>5
<1>4. ASSUME NEW k \in 1 .. Len(zs), k - 1 \in T PROVE k \in T
  <2>1. h[k - 1] \in Seq(Rectangle) /\ Couvertes(h[k - 1], l) = C(k - 1)
    BY <1>4
  <2>2. C(k) = C(k - 1) \cup Rognee(zs[k], l)
    <3>1. 1 .. k = (1 .. k - 1) \cup {k}
      BY <1>2
    <3>2. QED BY <3>1 DEF C
  <2>3. CASE Rognee(zs[k], l) = {}
    <3>1. h[k] = h[k - 1]
      BY <1>1, <2>3
    <3>2. QED BY <1>2, <2>1, <2>2, <2>3, <3>1
  <2>4. CASE Rognee(zs[k], l) # {}
    <3>1. h[k] = Append(h[k - 1], zs[k])
      BY <1>1, <2>4
    <3>2. h[k] \in Seq(Rectangle) /\ Couvertes(h[k], l) = Couvertes(h[k - 1], l) \cup Rognee(zs[k], l)
      BY <1>2, <2>1, <3>1, CouvertesAjout
    <3>3. h[k] \in Seq(Rectangle) /\ Couvertes(h[k], l) = C(k)
      BY <2>1, <2>2, <3>2
    <3>4. QED BY <1>2, <3>3
  <2>5. QED BY <2>3, <2>4
<1> HIDE DEF T
<1>5. \A k \in 0 .. Len(zs) : k \in T
  BY <1>2, <1>3, <1>4, Echelle
<1> USE DEF T
<1>6. h[Len(zs)] \in Seq(Rectangle) /\ Couvertes(h[Len(zs)], l) = C(Len(zs))
  BY <1>2, <1>5
<1>7. C(Len(zs)) = Couvertes(zs, l)
  BY <1>2 DEF Couvertes, C
<1>8. QED BY <1>1, <1>6, <1>7

-----------------------------------------------------------------------------
(* The invariant.                                                            *)

Surface == [pixels : Seq(Nat), tuiles : TuilesDans(TAILLE_MAX)]
Accords == \A i \in Ids : Accord(surfaces[i].tuiles, serveur[i])

IInvSurfaces ==
  /\ TypesSurfaces
  /\ surfaces \in [Ids -> Surface] /\ serveur \in [Ids -> TuilesSues]
  /\ Len(image) > 0
  /\ ComptesExacts
  /\ Accords
  /\ EcritDedans /\ EcranAttendu

LEMMA TuilesVides ==
  ASSUME NEW l \in Nat
  PROVE  /\ << >> \in TuilesDans(l) /\ << >> \in TuilesSues
         /\ DOMAIN << >> = {} /\ Accord(<< >>, << >>)
<1>1. << >> \in [{} -> Nat] /\ << >> \in [{} -> Nat \cup {Absente}] /\ DOMAIN << >> = {}
  <2>1. << >> \in Seq(Nat) /\ << >> \in Seq(Nat \cup {Absente}) /\ Len(<< >>) = 0 /\ 1 .. 0 = {}
    OBVIOUS
  <2>2. QED BY <2>1
<1>2. << >> \in TuilesDans(l)
  <2>1. {} \in SUBSET (0 .. l - 1)
    OBVIOUS
  <2>2. QED BY <1>1, <2>1 DEF TuilesDans
<1>3. << >> \in TuilesSues
  <2>1. {} \in SUBSET Nat
    OBVIOUS
  <2>2. QED BY <1>1, <2>1 DEF TuilesSues
<1>4. Accord(<< >>, << >>)
  BY <1>1 DEF Accord
<1>5. QED BY <1>1, <1>2, <1>3, <1>4

\* The tiles of a surface are inside it.
LEMMA TuilesIci ==
  ASSUME SurfacesAssumption, IInvSurfaces, NEW i \in Ids
  PROVE  /\ surfaces[i].pixels \in Seq(Nat) /\ Largeur(i) \in Nat /\ Largeur(i) <= TAILLE_MAX
         /\ surfaces[i].tuiles \in TuilesDans(Largeur(i))
         /\ surfaces[i] = [pixels |-> surfaces[i].pixels, tuiles |-> surfaces[i].tuiles]
         /\ Origine(i) \in Nat
<1>1. surfaces[i].pixels \in Seq(Nat) /\ Largeur(i) <= TAILLE_MAX
      /\ DOMAIN surfaces[i].tuiles \subseteq 0 .. Largeur(i) - 1
      /\ origines[i] \in Origines \cup {Absente}
  BY DEF IInvSurfaces, TypesSurfaces
<1>2. Largeur(i) \in Nat
  BY <1>1 DEF Largeur
<1>3. surfaces[i] \in [pixels : Seq(Nat), tuiles : TuilesDans(TAILLE_MAX)]
  BY DEF IInvSurfaces, Surface
<1>4. surfaces[i].tuiles \in TuilesDans(Largeur(i))
  <2>1. PICK D : surfaces[i].tuiles \in [D -> Nat]
    BY <1>3 DEF TuilesDans
  <2>2. D \in SUBSET (0 .. Largeur(i) - 1)
    BY <1>1, <2>1
  <2>3. QED BY <2>1, <2>2 DEF TuilesDans
<1>5. Origine(i) \in Nat
  BY <1>1 DEF Origine, SurfacesAssumption
<1>6. QED BY <1>1, <1>2, <1>3, <1>4, <1>5

LEMMA TuilesPlus ==
  ASSUME SurfacesAssumption, NEW l \in Nat, l <= TAILLE_MAX, NEW t \in TuilesDans(l)
  PROVE  t \in TuilesDans(TAILLE_MAX)
<1>1. PICK D \in SUBSET (0 .. l - 1) : t \in [D -> Nat]
  BY DEF TuilesDans
<1>2. D \in SUBSET (0 .. TAILLE_MAX - 1)
  BY DEF SurfacesAssumption
<1>3. QED BY <1>1, <1>2 DEF TuilesDans

-----------------------------------------------------------------------------
(* The accounts.                                                             *)

\* A sum follows one of its terms.
LEMMA SommeTourne ==
  ASSUME NEW S, IsFiniteSet(S), NEW f \in [S -> Nat], NEW e \in [S -> Nat], NEW c \in S,
         \A d \in S : d # c => e[d] = f[d]
  PROVE  /\ SumFunction(f) \in Nat /\ SumFunction(e) \in Nat /\ f[c] \in Nat /\ e[c] \in Nat
         /\ SumFunction(e) = SumFunction(f) - f[c] + e[c] /\ f[c] <= SumFunction(f)
<1> DEFINE z == [d \in S |-> IF d = c THEN 0 ELSE f[d]]
<1>1. z \in [S -> Nat] /\ z[c] = 0 /\ \A d \in S : d # c => z[d] = f[d]
  OBVIOUS
<1> HIDE DEF z
<1>2. SumFunction(f) \in Nat /\ SumFunction(e) \in Nat /\ SumFunction(e) + f[c] = SumFunction(f) + e[c]
  BY SommeChange
<1>3. SumFunction(z) \in Nat /\ SumFunction(z) + f[c] = SumFunction(f) + z[c]
  BY <1>1, SommeChange
<1>4. f[c] \in Nat /\ e[c] \in Nat
  OBVIOUS
<1>5. SumFunction(e) = SumFunction(f) - f[c] + e[c] /\ f[c] <= SumFunction(f)
  <2>1. SumFunction(e) + f[c] = SumFunction(f) + e[c] /\ SumFunction(z) + f[c] = SumFunction(f) + 0
    BY <1>1, <1>2, <1>3, Zenon
  <2>2. f[c] \in Nat /\ e[c] \in Nat /\ SumFunction(z) \in Nat /\ SumFunction(f) \in Nat /\ SumFunction(e) \in Nat
    BY <1>2, <1>3, <1>4, Zenon
  <2> DEFINE a == f[c]
             b == e[c]
             r == SumFunction(z)
             t == SumFunction(f)
             u == SumFunction(e)
  <2>3. a \in Nat /\ b \in Nat /\ r \in Nat /\ t \in Nat /\ u \in Nat
    BY <2>2
  <2>4. u + a = t + b /\ r + a = t + 0
    BY <2>1
  <2> HIDE DEF a, b, r, t, u
  <2>5. u = t - a + b /\ a <= t
    BY <2>3, <2>4
  <2>6. QED BY <2>5 DEF a, b, t, u
<1>6. QED BY <1>2, <1>4, <1>5

\* The account follows what one surface gains or loses.
LEMMA ComptePoids ==
  ASSUME SurfacesAssumption, ComptesExacts, NEW i \in Ids,
         NEW f \in [Ids -> Nat], NEW e \in [Ids -> Nat],
         \A j \in Ids : f[j] = Poids(j) /\ e[j] = Poids(j)',
         \A j \in Ids : j # i => e[j] = f[j]
  PROVE  /\ octets_surfaces' = octets_surfaces - f[i] + e[i] =>
              octets_surfaces' = SumFunction([j \in Ids |-> Poids(j)])' /\ octets_surfaces' \in Nat
         /\ f[i] <= octets_surfaces /\ octets_surfaces \in Nat
<1>1. IsFiniteSet(Ids)
  BY DEF SurfacesAssumption
<1>2. /\ SumFunction(f) \in Nat /\ SumFunction(e) \in Nat
      /\ SumFunction(e) = SumFunction(f) - f[i] + e[i] /\ f[i] <= SumFunction(f)
  BY <1>1, SommeTourne
<1>3. [j \in Ids |-> Poids(j)] = f /\ [j \in Ids |-> Poids(j)]' = e
  OBVIOUS
<1>4. octets_surfaces = SumFunction(f) /\ SumFunction([j \in Ids |-> Poids(j)])' = SumFunction(e)
  BY <1>3 DEF ComptesExacts
<1>5. QED BY <1>2, <1>4

LEMMA ComptesGardes ==
  ASSUME ComptesExacts, \A j \in Ids : Len(surfaces'[j].pixels) = Len(surfaces[j].pixels),
         octets_surfaces' = octets_surfaces, UNCHANGED cacheVars
  PROVE  ComptesExacts'
<1>1. [j \in Ids |-> Poids(j)]' = [j \in Ids |-> Poids(j)] /\ Vivantes' = Vivantes
  BY DEF Poids, Largeur, Vivantes
<1>2. [c \in Cases |-> Pris(c)]' = [c \in Cases |-> Pris(c)] /\ octetsCache' = octetsCache
  BY DEF Pris, cacheVars
<1>3. QED BY <1>1, <1>2 DEF ComptesExacts

\* The account of the cache follows its slot.
LEMMA ComptePris ==
  ASSUME SurfacesAssumption, ComptesExacts, NEW c \in Cases,
         NEW f \in [Cases -> Nat], NEW e \in [Cases -> Nat],
         \A d \in Cases : f[d] = Pris(d) /\ e[d] = Pris(d)',
         \A d \in Cases : d # c => e[d] = f[d]
  PROVE  /\ octetsCache' = octetsCache - f[c] + e[c] =>
              octetsCache' = SumFunction([d \in Cases |-> Pris(d)])' /\ octetsCache' \in Nat
         /\ f[c] <= octetsCache /\ octetsCache \in Nat
<1>1. IsFiniteSet(Cases)
  BY DEF SurfacesAssumption
<1>2. /\ SumFunction(f) \in Nat /\ SumFunction(e) \in Nat
      /\ SumFunction(e) = SumFunction(f) - f[c] + e[c] /\ f[c] <= SumFunction(f)
  BY <1>1, SommeTourne
<1>3. [d \in Cases |-> Pris(d)] = f /\ [d \in Cases |-> Pris(d)]' = e
  OBVIOUS
<1>4. octetsCache = SumFunction(f) /\ SumFunction([d \in Cases |-> Pris(d)])' = SumFunction(e)
  BY <1>3 DEF ComptesExacts
<1>5. QED BY <1>2, <1>4

-----------------------------------------------------------------------------
(* What is drawn is shown in the end.                                        *)

LEMMA ImageTient ==
  ASSUME NEW i \in Ids, \A j \in Ids : Origine(j) \in Nat, EcritDedans, EcranAttendu,
         NEW px, NEW W, NEW zs \in Seq(Rectangle),
         surfaces[i].pixels \in Seq(Nat), Repeint(surfaces[i].pixels, px, W),
         W \subseteq 0 .. Largeur(i) - 1, W \subseteq Couvertes(zs, Largeur(i)),
         \A j \in Ids : surfaces'[j].pixels = IF j = i THEN px ELSE surfaces[j].pixels,
         NoterEcrit(i, W, Couvertes(zs, Largeur(i))),
         NEW a \in EtatPublie, NEW b \in EtatPublie, Publications(i, px, zs, Len(zs), a, b),
         a.trames = trames, a.tronque = tronque, trames' = b.trames, tronque' = b.tronque,
         UNCHANGED <<taille, image, origines>>
  PROVE  EcritDedans' /\ EcranAttendu'
<1> DEFINE C == Couvertes(zs, Largeur(i))
<1>1. /\ \A j \in Ids : Origine(j)' = Origine(j)
      /\ Longue' = Longue /\ Etirer(image, taille)' = Etirer(image, taille)
  BY DEF Origine, Longue, Etirer
<1>2. px \in Seq(Nat) /\ Len(px) = Largeur(i) /\ Largeur(i) \in Nat
      /\ \A p \in 1 .. Largeur(i) : p - 1 \notin W => px[p] = surfaces[i].pixels[p]
  <2>1. Largeur(i) = Len(surfaces[i].pixels) /\ Len(surfaces[i].pixels) \in Nat
    BY DEF Largeur
  <2>2. QED BY <2>1 DEF Repeint
<1>3. /\ ecrit'[i] = ecrit[i] \cup W
      /\ \A j \in Ids : j # i => ecrit'[j] = {p \in ecrit[j] : Origine(j) + p - Origine(i) \notin C}
  BY DEF NoterEcrit
<1>4. \A j \in Ids : Largeur(j)' = Largeur(j)
  BY <1>2 DEF Largeur
<1>5. EcritDedans'
  <2> SUFFICES ASSUME NEW j \in Ids PROVE ecrit'[j] \subseteq 0 .. Largeur(j)' - 1
    BY DEF EcritDedans
  <2>1. ecrit[j] \subseteq 0 .. Largeur(j) - 1
    BY DEF EcritDedans
  <2>2. CASE j = i
    BY <1>3, <1>4, <2>1, <2>2
  <2>3. CASE j # i
    BY <1>3, <1>4, <2>1, <2>3
  <2>4. QED BY <2>2, <2>3
<1>6. EcranAttendu'
  <2> SUFFICES ASSUME ~tronque', NEW j \in Ids, NEW p \in ecrit'[j], Origine(j)' + p < Longue'
               PROVE  MontreDans(trames, Etirer(image, taille), Origine(j) + p, surfaces[j].pixels[p + 1])'
    BY DEF EcranAttendu
  <2> DEFINE fond == Etirer(image, taille)
             q == Origine(j) + p
  <2> HIDE DEF q
  <2>1. ~tronque
    BY DEF Publications
  <2>2. MontreDans(trames, Etirer(image, taille), Origine(j) + p, surfaces[j].pixels[p + 1])'
          <=> MontreDans(trames', fond, q, surfaces'[j].pixels[p + 1])
    BY <1>1 DEF MontreDans, q
  <2>3. p \in Nat /\ q \in Nat /\ p \in 0 .. Largeur(j) - 1
    <3>1. p \in 0 .. Largeur(j)' - 1
      BY <1>5 DEF EcritDedans
    <3>2. Largeur(j)' = Largeur(j)
      BY <1>4
    <3>3. QED BY <3>1, <3>2 DEF q
  <2>4. p \in ecrit[j] => MontreDans(a.trames, fond, q, surfaces[j].pixels[p + 1])
    BY <1>1, <2>1 DEF EcranAttendu, q
  <2> HIDE DEF fond
  <2>5. CASE j = i /\ p \in C
    <3>1. p \in Couvertes(zs, Len(px))
      BY <1>2, <2>5
    <3>2. MontreDans(b.trames, fond, Origine(i) + p, px[p + 1])
      BY <1>2, <3>1, MontreNeuf
    <3>3. QED BY <2>2, <2>5, <3>2 DEF q
  <2>6. CASE j = i /\ p \notin C
    <3>1. p \in ecrit[i] /\ p \notin W
      BY <1>3, <2>6
    <3>2. p + 1 \in 1 .. Largeur(i) /\ (p + 1) - 1 = p
      BY <1>2, <2>3, <2>6
    <3>3. px[p + 1] = surfaces[i].pixels[p + 1]
      BY <1>2, <3>1, <3>2
    <3>4. MontreDans(a.trames, fond, q, px[p + 1])
      BY <2>4, <2>6, <3>1, <3>3
    <3>5. q - Origine(i) \notin Couvertes(zs, Len(px))
      <4>1. q - Origine(i) = p
        BY <2>3, <2>6 DEF q
      <4>2. QED BY <1>2, <2>6, <4>1
    <3>6. MontreDans(b.trames, fond, q, px[p + 1])
      <4>1. PICK v : v = px[p + 1]
        OBVIOUS
      <4>2. MontreDans(a.trames, fond, q, v)
        BY <3>4, <4>1
      <4>3. MontreDans(b.trames, fond, q, v)
        <5>1. px \in Seq(Nat) /\ q \in Nat
          BY <1>2, <2>3
        <5>2. QED BY <3>5, <4>2, <5>1, MontreEncore
      <4>4. QED BY <4>1, <4>3
    <3>7. QED BY <2>2, <2>6, <3>6
  <2>7. CASE j # i
    <3>1. p \in ecrit[j] /\ q - Origine(i) \notin C
      <4>1. p \in {r \in ecrit[j] : Origine(j) + r - Origine(i) \notin C}
        BY <1>3, <2>7
      <4> HIDE DEF C
      <4>2. p \in ecrit[j] /\ Origine(j) + p - Origine(i) \notin C
        BY <4>1, Zenon
      <4>3. Origine(j) + (p - Origine(i)) = (Origine(j) + p) - Origine(i)
        BY <2>3
      <4>4. QED BY <4>2, <4>3 DEF q
    <3>2. q - Origine(i) \notin Couvertes(zs, Len(px))
      BY <1>2, <3>1
    <3>3. MontreDans(b.trames, fond, q, surfaces[j].pixels[p + 1])
      <4>1. PICK v : v = surfaces[j].pixels[p + 1]
        OBVIOUS
      <4>2. MontreDans(a.trames, fond, q, v)
        BY <2>4, <3>1, <4>1
      <4>3. px \in Seq(Nat) /\ q \in Nat
        BY <1>2, <2>3
      <4>4. MontreDans(b.trames, fond, q, v)
        BY <3>2, <4>2, <4>3, MontreEncore
      <4>5. QED BY <4>1, <4>4
    <3>4. surfaces'[j].pixels = surfaces[j].pixels
      BY <2>7
    <3>5. QED BY <2>2, <3>3, <3>4
  <2>8. QED BY <2>5, <2>6, <2>7
<1>7. QED BY <1>5, <1>6

\* A surface takes pixels and tiles: the invariant is kept.
LEMMA DessinTient ==
  ASSUME SurfacesAssumption, IInvSurfaces, NEW i \in Ids, NEW px, NEW tu \in TuilesDans(Largeur(i)),
         NEW W, NEW zs \in Seq(Rectangle), Repeint(surfaces[i].pixels, px, W),
         W \subseteq Couvertes(zs, Largeur(i)),
         surfaces' = [surfaces EXCEPT ![i] = [pixels |-> px, tuiles |-> tu]],
         serveur' \in [Ids -> TuilesSues], Accord(tu, serveur'[i]),
         \A j \in Ids : j # i => serveur'[j] = serveur[j],
         NoterEcrit(i, W, Couvertes(Publiees(zs), Largeur(i))),
         NEW a \in EtatPublie, NEW b \in EtatPublie,
         Publications(i, px, Publiees(zs), Len(Publiees(zs)), a, b),
         a.trames = trames, a.tronque = tronque, trames' = b.trames, tronque' = b.tronque,
         octets_publies' \in Nat, pdus' \in 0 .. PDUS_MAX,
         UNCHANGED <<taille, octets_surfaces, origines, cacheVars, image, trames_decodees>>
  PROVE  IInvSurfaces'
<1>1. /\ surfaces[i].pixels \in Seq(Nat) /\ Largeur(i) \in Nat /\ Largeur(i) <= TAILLE_MAX
      /\ \A j \in Ids : Origine(j) \in Nat
  BY TuilesIci
<1>2. px \in Seq(Nat) /\ Len(px) = Largeur(i)
  BY DEF Repeint, Largeur
<1>3. Publiees(zs) \in Seq(Rectangle) /\ Couvertes(zs, Largeur(i)) \subseteq Couvertes(Publiees(zs), Largeur(i))
      /\ Couvertes(Publiees(zs), Largeur(i)) \subseteq 0 .. Largeur(i) - 1
  BY <1>1, PublieesTiennent
<1>4. tu \in TuilesDans(TAILLE_MAX) /\ DOMAIN tu \subseteq 0 .. Largeur(i) - 1
  BY <1>1, TuilesPlus, TuilesType
<1>5. surfaces \in [Ids -> Surface]
  BY DEF IInvSurfaces
<1>6. surfaces' \in [Ids -> Surface]
  <2>1. [pixels |-> px, tuiles |-> tu] \in Surface
    BY <1>2, <1>4 DEF Surface
  <2>2. QED BY <1>5, <2>1
<1>7. /\ surfaces'[i].pixels = px /\ surfaces'[i].tuiles = tu
      /\ \A j \in Ids : j # i => surfaces'[j] = surfaces[j]
  BY <1>5
<1>8. \A j \in Ids : surfaces'[j].pixels = IF j = i THEN px ELSE surfaces[j].pixels
  BY <1>7
<1>9. EcritDedans' /\ EcranAttendu'
  <2>1. EcritDedans /\ EcranAttendu
    BY DEF IInvSurfaces
  <2> HIDE DEF Surface
  <2>2. QED BY <1>1, <1>3, <1>8, <2>1, ImageTient
<1>10. Accords'
  <2>1. \A j \in Ids : Accord(surfaces[j].tuiles, serveur[j])
    BY DEF IInvSurfaces, Accords
  <2>2. \A j \in Ids : Accord(surfaces'[j].tuiles, serveur'[j])
    BY <1>7, <2>1
  <2>3. QED BY <2>2 DEF Accords
<1>11. \A j \in Ids : Len(surfaces'[j].pixels) = Len(surfaces[j].pixels)
  BY <1>2, <1>8 DEF Largeur
<1>12. ComptesExacts'
  <2>1. ComptesExacts
    BY DEF IInvSurfaces
  <2>2. QED BY <1>11, <2>1, ComptesGardes
<1>13. TypesSurfaces'
  <2>1. TypesSurfaces
    BY DEF IInvSurfaces
  <2>2. \A j \in Ids : /\ surfaces'[j].pixels \in Seq(Nat) /\ Len(surfaces'[j].pixels) <= TAILLE_MAX
                       /\ DOMAIN surfaces'[j].tuiles \subseteq 0 .. Len(surfaces'[j].pixels) - 1
    <3>1. \A j \in Ids : /\ surfaces[j].pixels \in Seq(Nat) /\ Len(surfaces[j].pixels) <= TAILLE_MAX
                         /\ DOMAIN surfaces[j].tuiles \subseteq 0 .. Len(surfaces[j].pixels) - 1
      BY <2>1 DEF TypesSurfaces, Largeur
    <3>2. QED BY <1>1, <1>2, <1>4, <1>7, <3>1
  <2>3. trames' \in Seq(Trame) /\ tronque' \in BOOLEAN
    BY DEF EtatPublie
  <2>4. ecrit' \in [Ids -> SUBSET Nat]
    <3>1. \A j \in Ids : ecrit[j] \subseteq Nat
      BY <2>1 DEF TypesSurfaces
    <3>2. W \subseteq Nat
      BY <1>1, <1>3
    <3>3. QED BY <3>1, <3>2 DEF NoterEcrit
  <2>5. QED BY <2>1, <2>2, <2>3, <2>4 DEF TypesSurfaces, Largeur, Trame, cacheVars
<1>14. QED BY <1>6, <1>9, <1>10, <1>12, <1>13 DEF IInvSurfaces

\* One field of one surface.
LEMMA RetouchePixels ==
  ASSUME NEW f \in [Ids -> Surface], NEW i \in Ids, NEW p, NEW g, g = [f EXCEPT ![i].pixels = p]
  PROVE  g = [f EXCEPT ![i] = [pixels |-> p, tuiles |-> f[i].tuiles]]
<1>1. f[i] = [pixels |-> f[i].pixels, tuiles |-> f[i].tuiles]
  BY DEF Surface
<1>2. [f[i] EXCEPT !.pixels = p] = [pixels |-> p, tuiles |-> f[i].tuiles]
  BY <1>1
<1>3. QED BY <1>2

-----------------------------------------------------------------------------
(* One lemma per action.                                                     *)

LEMMA PdusTient ==
  ASSUME SurfacesAssumption, IInvSurfaces, Pdu
  PROVE  pdus' \in 0 .. PDUS_MAX /\ pdus' \in Nat
<1>1. pdus \in 0 .. PDUS_MAX /\ PDUS_MAX \in Nat
  BY DEF IInvSurfaces, TypesSurfaces, SurfacesAssumption
<1>2. QED BY <1>1 DEF Pdu

\* Nothing but the counters.
LEMMA RienChange ==
  ASSUME IInvSurfaces, pdus' \in 0 .. PDUS_MAX, trames_decodees' \in Nat,
         UNCHANGED <<tableVars, cacheVars, sortieVars, image, serveur, ecrit>>
  PROVE  IInvSurfaces'
<1>1. /\ surfaces' = surfaces /\ octets_surfaces' = octets_surfaces /\ origines' = origines
      /\ cacheSurfaces' = cacheSurfaces /\ octetsCache' = octetsCache
      /\ octets_publies' = octets_publies /\ trames' = trames /\ taille' = taille /\ tronque' = tronque
      /\ image' = image /\ serveur' = serveur /\ ecrit' = ecrit
  BY DEF tableVars, cacheVars, sortieVars
<1>2. TypesSurfaces'
  BY <1>1 DEF IInvSurfaces, TypesSurfaces, Largeur
<1>3. ComptesExacts'
  BY <1>1 DEF IInvSurfaces, ComptesExacts, Poids, Pris, Largeur, Vivantes
<1>4. Accords' /\ EcritDedans' /\ EcranAttendu'
  BY <1>1 DEF IInvSurfaces, Accords, EcritDedans, EcranAttendu, Origine, Largeur, Longue
<1>5. QED BY <1>1, <1>2, <1>3, <1>4 DEF IInvSurfaces

\* A surface is drawn.
LEMMA DessinerTient ==
  ASSUME SurfacesAssumption, IInvSurfaces, NEW i \in Ids, NEW px, NEW zones \in Seq(Rectangle),
         Repeint(surfaces[i].pixels, px, Couvertes(zones, Largeur(i))), Dessiner(i, px, zones),
         pdus' \in 0 .. PDUS_MAX,
         UNCHANGED <<octets_surfaces, origines, cacheVars, image, trames_decodees, serveur>>
  PROVE  IInvSurfaces'
<1> DEFINE zs == Touchees(zones, Len(px))
           W == Couvertes(zones, Len(px))
           a == [publies |-> octets_publies, trames |-> trames, tronque |-> tronque]
           b == Publication(i, px, a, Publiees(zs))
           tu == surfaces[i].tuiles
<1>1. /\ surfaces[i].pixels \in Seq(Nat) /\ Largeur(i) \in Nat /\ tu \in TuilesDans(Largeur(i))
      /\ surfaces[i] = [pixels |-> surfaces[i].pixels, tuiles |-> tu]
      /\ Origine(i) \in Nat
  BY TuilesIci
<1>2. px \in Seq(Nat) /\ Len(px) = Largeur(i)
  BY DEF Repeint, Largeur
<1>3. zs \in Seq(Rectangle) /\ Couvertes(zs, Len(px)) = W
  BY ToucheesEffet
<1>4. Publiees(zs) \in Seq(Rectangle)
  BY <1>3, PublieesTiennent
<1>5. a \in EtatPublie
  BY DEF IInvSurfaces, TypesSurfaces, EtatPublie, Trame
<1>6. b \in EtatPublie /\ Publications(i, px, Publiees(zs), Len(Publiees(zs)), a, b)
  <2> HIDE DEF a, zs
  <2>1. QED BY <1>1, <1>2, <1>4, <1>5, PublierEffet
<1>7. /\ surfaces' = [surfaces EXCEPT ![i].pixels = px]
      /\ octets_publies' = b.publies /\ trames' = b.trames /\ tronque' = b.tronque /\ taille' = taille
      /\ NoterEcrit(i, W, Couvertes(Publiees(zs), Len(px)))
  BY DEF Dessiner, Publier
<1>8. surfaces' = [surfaces EXCEPT ![i] = [pixels |-> px, tuiles |-> tu]]
  <2>1. surfaces \in [Ids -> Surface]
    BY DEF IInvSurfaces
  <2>2. surfaces' = [surfaces EXCEPT ![i].pixels = px]
    BY <1>7
  <2>3. QED BY <2>1, <2>2, RetouchePixels
<1>9. serveur' \in [Ids -> TuilesSues] /\ Accord(tu, serveur'[i]) /\ \A j \in Ids : serveur'[j] = serveur[j]
  BY DEF IInvSurfaces, Accords
<1>10. a.trames = trames /\ a.tronque = tronque
  OBVIOUS
<1>11. octets_publies' \in Nat
  <2> HIDE DEF a, b
  <2>1. QED BY <1>6, <1>7 DEF EtatPublie
<1> HIDE DEF a, b, zs, W, tu
<1>12. NoterEcrit(i, W, Couvertes(Publiees(zs), Largeur(i))) /\ Repeint(surfaces[i].pixels, px, W)
       /\ W \subseteq Couvertes(zs, Largeur(i))
  BY <1>2, <1>3, <1>7 DEF W
<1>13. QED BY <1>1, <1>3, <1>5, <1>6, <1>7, <1>8, <1>9, <1>10, <1>11, <1>12, DessinTient

LEMMA SolidFillTient ==
  ASSUME SurfacesAssumption, IInvSurfaces, NEW i \in Ids, NEW zones \in Listes, SolidFill(i, zones)
  PROVE  IInvSurfaces'
<1>1. pdus' \in 0 .. PDUS_MAX /\ pdus' \in Nat
  BY PdusTient DEF SolidFill
<1>2. UNCHANGED <<octets_surfaces, origines, cacheVars, image, trames_decodees, serveur>>
  BY DEF SolidFill
<1>3. CASE i \in Vivantes
  <2>1. surfaces[i].pixels \in Seq(Nat) /\ zones \in Seq(Rectangle)
    BY TuilesIci DEF SurfacesAssumption, Rectangle
  <2>2. Dessiner(i, Remplir(surfaces[i].pixels, zones, pdus'), zones)
    BY <1>3 DEF SolidFill
  <2>3. Repeint(surfaces[i].pixels, Remplir(surfaces[i].pixels, zones, pdus'), Couvertes(zones, Largeur(i)))
    BY <1>1, <2>1, RemplirEffet DEF Largeur
  <2>4. QED BY <1>1, <1>2, <2>1, <2>2, <2>3, DessinerTient
<1>4. CASE i \notin Vivantes
  <2>1. UNCHANGED <<tableVars, cacheVars, sortieVars, image, serveur, ecrit>> /\ trames_decodees' \in Nat
    BY <1>2, <1>4 DEF SolidFill, tableVars, IInvSurfaces, TypesSurfaces
  <2>2. QED BY <1>1, <2>1, RienChange
<1>5. QED BY <1>3, <1>4

LEMMA WireToSurface1Tient ==
  ASSUME SurfacesAssumption, IInvSurfaces, NEW i \in Ids, NEW z \in Rectangle, NEW lisible \in BOOLEAN,
         WireToSurface1(i, z, lisible)
  PROVE  IInvSurfaces'
<1>1. pdus' \in 0 .. PDUS_MAX /\ pdus' \in Nat
  BY PdusTient DEF WireToSurface1
<1>2. UNCHANGED <<octets_surfaces, origines, cacheVars, image, trames_decodees, serveur>>
  BY DEF WireToSurface1
<1> DEFINE peut == i \in Vivantes /\ z[2] > 0 /\ z[1] + z[2] <= Largeur(i) /\ lisible
           m == [k \in 1 .. z[2] |-> pdus']
<1>3. CASE peut
  <2>1. surfaces[i].pixels \in Seq(Nat) /\ <<z>> \in Seq(Rectangle)
    <3>1. <<z>> \in Seq(Rectangle)
      OBVIOUS
    <3>2. QED BY <3>1, TuilesIci
  <2>2. Dessiner(i, EcrireZone(surfaces[i].pixels, z[1], m), <<z>>)
    BY <1>3 DEF WireToSurface1
  <2>3. z[1] \in Nat /\ z[2] \in Nat /\ z = <<z[1], z[2]>>
    BY DEF Rectangle
  <2>4. m \in Seq(Nat) /\ Len(m) = z[2]
    <3>1. m \in [1 .. z[2] -> Nat]
      BY <1>1
    <3> HIDE DEF m
    <3>2. QED BY <2>3, <3>1, EstSuite
  <2> HIDE DEF m
  <2>5. Repeint(surfaces[i].pixels, EcrireZone(surfaces[i].pixels, z[1], m), Rognee(z, Largeur(i)))
    <3>1. Repeint(surfaces[i].pixels, EcrireZone(surfaces[i].pixels, z[1], m),
                  Rognee(<<z[1], Len(m)>>, Len(surfaces[i].pixels)))
      BY <2>1, <2>3, <2>4, EcrireZoneEffet
    <3>2. <<z[1], Len(m)>> = z
      BY <2>3, <2>4
    <3>3. QED BY <3>1, <3>2 DEF Largeur
  <2>6. Couvertes(<<z>>, Largeur(i)) = Rognee(z, Largeur(i))
    BY DEF Couvertes
  <2>7. QED BY <1>1, <1>2, <2>1, <2>2, <2>5, <2>6, DessinerTient
<1>4. CASE ~peut
  <2>1. UNCHANGED <<tableVars, cacheVars, sortieVars, image, serveur, ecrit>> /\ trames_decodees' \in Nat
    BY <1>2, <1>4 DEF WireToSurface1, tableVars, IInvSurfaces, TypesSurfaces
  <2>2. QED BY <1>1, <2>1, RienChange
<1>5. QED BY <1>3, <1>4

LEMMA PoserTient ==
  ASSUME SurfacesAssumption, IInvSurfaces, NEW i \in Ids, NEW m \in Seq(Nat), NEW points \in Listes, Poser(i, m, points),
         pdus' \in 0 .. PDUS_MAX,
         UNCHANGED <<octets_surfaces, origines, cacheVars, image, trames_decodees, serveur>>
  PROVE  IInvSurfaces'
<1>1. CASE i \in Vivantes /\ m # << >>
  <2>1. surfaces[i].pixels \in Seq(Nat) /\ points \in Seq(Rectangle)
    BY TuilesIci DEF SurfacesAssumption, Rectangle
  <2>2. Dessiner(i, Etaler(surfaces[i].pixels, m, points), Poses(points, m))
    BY <1>1 DEF Poser, Poses
  <2>3. /\ Poses(points, m) \in Seq(Rectangle)
        /\ Repeint(surfaces[i].pixels, Etaler(surfaces[i].pixels, m, points), Couvertes(Poses(points, m), Largeur(i)))
    BY <2>1, EtalerEffet DEF Largeur
  <2>4. QED BY <2>1, <2>2, <2>3, DessinerTient
<1>2. CASE ~(i \in Vivantes /\ m # << >>)
  <2>1. UNCHANGED <<tableVars, cacheVars, sortieVars, image, serveur, ecrit>> /\ trames_decodees' \in Nat
    BY <1>2 DEF Poser, tableVars, IInvSurfaces, TypesSurfaces
  <2>2. QED BY <2>1, RienChange
<1>3. QED BY <1>1, <1>2

LEMMA SurfaceToSurfaceTient ==
  ASSUME SurfacesAssumption, IInvSurfaces, NEW src \in Ids, NEW dst \in Ids, NEW z \in Rectangle, NEW points \in Listes,
         SurfaceToSurface(src, dst, z, points)
  PROVE  IInvSurfaces'
<1>1. pdus' \in 0 .. PDUS_MAX
  BY PdusTient DEF SurfaceToSurface
<1>2. Extraire(surfaces[src].pixels, z) \in Seq(Nat)
  BY TuilesIci, ExtraireEffet
<1>3. QED BY <1>1, <1>2, PoserTient DEF SurfaceToSurface

LEMMA CacheToSurfaceTient ==
  ASSUME SurfacesAssumption, IInvSurfaces, NEW c \in Cases, NEW i \in Ids, NEW points \in Listes,
         CacheToSurface(c, i, points)
  PROVE  IInvSurfaces'
<1>1. pdus' \in 0 .. PDUS_MAX
  BY PdusTient DEF CacheToSurface
<1>2. cacheSurfaces[c] \in Seq(Nat)
  BY DEF IInvSurfaces, TypesSurfaces
<1>3. QED BY <1>1, <1>2, PoserTient DEF CacheToSurface

LEMMA WireToSurface2Tient ==
  ASSUME SurfacesAssumption, IInvSurfaces, NEW i \in Ids, NEW flux \in Flux, WireToSurface2(i, flux)
  PROVE  IInvSurfaces'
<1>1. pdus' \in 0 .. PDUS_MAX
  BY PdusTient DEF WireToSurface2
<1>2. UNCHANGED <<octets_surfaces, origines, cacheVars, image, trames_decodees>>
  BY DEF WireToSurface2
<1> DEFINE l == Largeur(i)
           s0 == [tuiles |-> surfaces[i].tuiles, pixels |-> surfaces[i].pixels, zones |-> << >>, bon |-> TRUE]
           a0 == [tuiles |-> serveur[i], largeur |-> Largeur(i), bon |-> TRUE]
           s == Paliers(s0, flux)
           r == Attendus(a0, flux)
<1>3. CASE i \notin Vivantes
  <2>1. UNCHANGED <<tableVars, cacheVars, sortieVars, image, serveur, ecrit>> /\ trames_decodees' \in Nat
    BY <1>2, <1>3 DEF WireToSurface2, tableVars, IInvSurfaces, TypesSurfaces
  <2>2. QED BY <1>1, <2>1, RienChange
<1>4. CASE i \in Vivantes
  <2>1. /\ surfaces[i].pixels \in Seq(Nat) /\ l \in Nat /\ surfaces[i].tuiles \in TuilesDans(l)
        /\ Origine(i) \in Nat /\ l = Len(surfaces[i].pixels)
    BY TuilesIci DEF Largeur
  <2>2. surfaces \in [Ids -> Surface] /\ serveur \in [Ids -> TuilesSues] /\ Accord(surfaces[i].tuiles, serveur[i])
    BY DEF IInvSurfaces, Accords
  <2>3. s0 \in EtatPalier(l) /\ a0 \in EtatAttendu
    <3>1. surfaces[i].pixels \in [1 .. l -> Nat] /\ << >> \in Seq(Rectangle) /\ serveur[i] \in TuilesSues
      BY <2>1, <2>2
    <3>2. QED BY <2>1, <3>1 DEF EtatPalier, EtatAttendu
  <2>4. flux \in Seq(Tuile)
    BY DEF SurfacesAssumption, Tuile
  <2>5. s0.bon /\ s0.zones = << >> /\ s0.tuiles = surfaces[i].tuiles /\ s0.pixels = surfaces[i].pixels
        /\ a0.largeur = l /\ a0.tuiles = serveur[i]
    OBVIOUS
  <2>6. /\ surfaces' = [surfaces EXCEPT ![i].pixels = s.pixels, ![i].tuiles = s.tuiles]
        /\ serveur' = [serveur EXCEPT ![i] = r.tuiles]
        /\ NoterEcrit(i, Couvertes(s.zones, l), Couvertes(Publiees(s.zones), l))
        /\ IF s.bon THEN Publier(i, s.pixels, s.zones)
           ELSE /\ tronque' = (tronque \/ s.zones # << >>)
                /\ UNCHANGED <<octets_publies, trames, taille>>
    BY <1>4 DEF WireToSurface2
  <2> HIDE DEF l, s0, a0
  <2>7. /\ s \in EtatPalier(l) /\ r \in EtatAttendu /\ Accord(s.tuiles, r.tuiles)
        /\ Repeint(s0.pixels, s.pixels, Couvertes(s.zones, l))
    BY <2>1, <2>2, <2>3, <2>4, <2>5, FluxEffet
  <2> HIDE DEF s, r
  <2>8. s.tuiles \in TuilesDans(l) /\ s.zones \in Seq(Rectangle) /\ r.tuiles \in TuilesSues /\ s.pixels \in [1 .. l -> Nat]
    BY <2>7 DEF EtatPalier, EtatAttendu
  <2>9. s.pixels \in Seq(Nat)
    BY <2>1, <2>8, EstSuite
  <2>10. surfaces' = [surfaces EXCEPT ![i] = [pixels |-> s.pixels, tuiles |-> s.tuiles]]
    <3>1. surfaces' = [surfaces EXCEPT ![i].pixels = s.pixels, ![i].tuiles = s.tuiles]
      BY <2>6
    <3> DEFINE e == [surfaces EXCEPT ![i].pixels = s.pixels]
               c == [pixels |-> s.pixels, tuiles |-> surfaces[i].tuiles]
               d == [pixels |-> s.pixels, tuiles |-> s.tuiles]
    <3>2. e = [surfaces EXCEPT ![i] = [pixels |-> s.pixels, tuiles |-> surfaces[i].tuiles]]
      BY <2>2, RetouchePixels
    <3>3. surfaces' = [e EXCEPT ![i].tuiles = s.tuiles]
      BY <3>1
    <3>4. e = [j \in Ids |-> IF j = i THEN c ELSE surfaces[j]]
      BY <2>2, <3>2
    <3>5. [c EXCEPT !.tuiles = s.tuiles] = d
      OBVIOUS
    <3> HIDE DEF c, d, e
    <3>6. surfaces' = [j \in Ids |-> IF j = i THEN [e[i] EXCEPT !.tuiles = s.tuiles] ELSE e[j]]
      BY <3>3, <3>4
    <3>7. surfaces' = [j \in Ids |-> IF j = i THEN d ELSE surfaces[j]]
      BY <3>4, <3>5, <3>6
    <3>8. surfaces' = [surfaces EXCEPT ![i] = d]
      BY <2>2, <3>7
    <3>9. QED BY <3>8 DEF d
  <2>11. /\ serveur' \in [Ids -> TuilesSues] /\ serveur'[i] = r.tuiles
         /\ \A j \in Ids : j # i => serveur'[j] = serveur[j]
    BY <2>2, <2>6, <2>8
  <2> DEFINE a == [publies |-> octets_publies, trames |-> trames, tronque |-> tronque]
             P == Publiees(s.zones)
  <2>12. a \in EtatPublie /\ a.trames = trames /\ a.tronque = tronque /\ a.publies = octets_publies
    BY DEF IInvSurfaces, TypesSurfaces, EtatPublie, Trame
  <2>13. P \in Seq(Rectangle)
    BY <2>8, PublieesTiennent
  <2>14. \E b \in EtatPublie : /\ Publications(i, s.pixels, P, Len(P), a, b) /\ octets_publies' = b.publies
                               /\ trames' = b.trames /\ tronque' = b.tronque /\ taille' = taille
    <3>1. CASE s.bon
      <4> DEFINE b == Publication(i, s.pixels, a, P)
      <4>1. octets_publies' = b.publies /\ trames' = b.trames /\ tronque' = b.tronque /\ taille' = taille
        BY <2>6, <3>1 DEF Publier
      <4> HIDE DEF a, P
      <4>2. b \in EtatPublie /\ Publications(i, s.pixels, P, Len(P), a, b)
        BY <2>1, <2>9, <2>12, <2>13, PublierEffet
      <4> HIDE DEF b
      <4>3. QED BY <4>1, <4>2
    <3>2. CASE ~s.bon
      <4> DEFINE b == [publies |-> octets_publies, trames |-> trames, tronque |-> tronque \/ s.zones # << >>]
      <4>1. b \in EtatPublie
        BY DEF IInvSurfaces, TypesSurfaces, EtatPublie, Trame
      <4>2. octets_publies' = b.publies /\ trames' = b.trames /\ tronque' = b.tronque /\ taille' = taille
        BY <2>6, <3>2
      <4>3. b.trames = a.trames /\ (a.tronque => b.tronque)
        OBVIOUS
      <4>4. ~b.tronque => P = << >>
        <5>1. Len(<< >>) = 0 /\ ~(0 > RECTS_MAX)
          BY DEF SurfacesAssumption
        <5>2. Publiees(<< >>) = << >>
          BY <5>1 DEF Publiees
        <5>3. QED BY <5>2
      <4>5. Len(a.trames) \in Nat
        BY <2>12 DEF EtatPublie
      <4> HIDE DEF a, b, P
      <4>6. Publications(i, s.pixels, P, Len(P), a, b)
        BY <4>3, <4>4, <4>5 DEF Publications
      <4>7. QED BY <4>1, <4>2, <4>6
    <3>3. QED BY <3>1, <3>2
  <2>15. PICK b \in EtatPublie : /\ Publications(i, s.pixels, P, Len(P), a, b) /\ octets_publies' = b.publies
                                 /\ trames' = b.trames /\ tronque' = b.tronque /\ taille' = taille
    BY <2>14
  <2>16. octets_publies' \in Nat
    BY <2>15 DEF EtatPublie
  <2>17. Repeint(surfaces[i].pixels, s.pixels, Couvertes(s.zones, Largeur(i))) /\ s.tuiles \in TuilesDans(Largeur(i))
         /\ NoterEcrit(i, Couvertes(s.zones, Largeur(i)), Couvertes(Publiees(s.zones), Largeur(i)))
    BY <2>5, <2>6, <2>7, <2>8 DEF l
  <2> HIDE DEF a
  <2>18. QED BY <1>1, <1>2, <2>7, <2>8, <2>10, <2>11, <2>12, <2>15, <2>16, <2>17, DessinTient
<1>5. QED BY <1>3, <1>4

\* What is not drawn again stays shown.
LEMMA EcranGarde ==
  ASSUME EcritDedans, EcranAttendu, UNCHANGED <<trames, taille, tronque, image>>,
         \A j \in Ids : \/ ecrit'[j] = {}
                        \/ /\ ecrit'[j] = ecrit[j] /\ origines'[j] = origines[j]
                           /\ surfaces'[j].pixels = surfaces[j].pixels
  PROVE  EcritDedans' /\ EcranAttendu'
<1>1. Longue' = Longue /\ Etirer(image, taille)' = Etirer(image, taille)
  BY DEF Longue, Etirer
<1>2. EcritDedans'
  <2> SUFFICES ASSUME NEW j \in Ids PROVE ecrit'[j] \subseteq 0 .. Largeur(j)' - 1
    BY DEF EcritDedans
  <2>1. ecrit'[j] = {} \/ (ecrit'[j] = ecrit[j] /\ Largeur(j)' = Largeur(j))
    BY DEF Largeur
  <2>2. ecrit[j] \subseteq 0 .. Largeur(j) - 1
    BY DEF EcritDedans
  <2>3. QED BY <2>1, <2>2
<1>3. EcranAttendu'
  <2> SUFFICES ASSUME ~tronque', NEW j \in Ids, NEW p \in ecrit'[j], Origine(j)' + p < Longue'
               PROVE  MontreDans(trames, Etirer(image, taille), Origine(j) + p, surfaces[j].pixels[p + 1])'
    BY DEF EcranAttendu
  <2>1. /\ p \in ecrit[j] /\ origines'[j] = origines[j] /\ surfaces'[j].pixels = surfaces[j].pixels
    OBVIOUS
  <2>2. Origine(j)' = Origine(j)
    BY <2>1 DEF Origine
  <2>3. MontreDans(trames, Etirer(image, taille), Origine(j) + p, surfaces[j].pixels[p + 1])
    BY <1>1, <2>1, <2>2 DEF EcranAttendu
  <2>4. QED BY <1>1, <2>1, <2>2, <2>3 DEF MontreDans
<1>4. QED BY <1>2, <1>3

\* A surface is created, replaced or deleted.
LEMMA SurfaceNeuve ==
  ASSUME SurfacesAssumption, IInvSurfaces, NEW i \in Ids, NEW px \in Seq(Nat), Len(px) <= TAILLE_MAX,
         surfaces' = [surfaces EXCEPT ![i] = [pixels |-> px, tuiles |-> << >>]],
         octets_surfaces' = octets_surfaces - Poids(i) + Len(px), octets_surfaces' <= OCTETS_SURFACES_MAX,
         Len(px) = 0 \/ i \in Vivantes \/ Cardinality(Vivantes) < SURFACES_MAX,
         serveur' = [serveur EXCEPT ![i] = << >>], ecrit' = [ecrit EXCEPT ![i] = {}],
         origines' \in [Ids -> Origines \cup {Absente}], \A j \in Ids : j # i => origines'[j] = origines[j],
         pdus' \in 0 .. PDUS_MAX, UNCHANGED <<cacheVars, sortieVars, image, trames_decodees>>
  PROVE  IInvSurfaces'
<1>1. /\ surfaces \in [Ids -> Surface] /\ serveur \in [Ids -> TuilesSues] /\ TypesSurfaces /\ ComptesExacts
      /\ Accords /\ EcritDedans /\ EcranAttendu /\ Len(image) > 0
  BY DEF IInvSurfaces
<1>2. /\ << >> \in TuilesDans(TAILLE_MAX) /\ << >> \in TuilesSues /\ DOMAIN << >> = {} /\ Accord(<< >>, << >>)
  BY TuilesVides DEF SurfacesAssumption
<1>3. surfaces' \in [Ids -> Surface]
  <2>1. [pixels |-> px, tuiles |-> << >>] \in Surface
    BY <1>2 DEF Surface
  <2> HIDE DEF Surface
  <2>2. QED BY <1>1, <2>1
<1>4. /\ surfaces'[i].pixels = px /\ surfaces'[i].tuiles = << >>
      /\ \A j \in Ids : j # i => surfaces'[j] = surfaces[j]
  BY <1>1
<1>5. serveur' \in [Ids -> TuilesSues] /\ serveur'[i] = << >> /\ \A j \in Ids : j # i => serveur'[j] = serveur[j]
  BY <1>1, <1>2
<1>6. ecrit \in [Ids -> SUBSET Nat]
  BY <1>1 DEF TypesSurfaces
<1>7. ecrit'[i] = {} /\ (\A j \in Ids : j # i => ecrit'[j] = ecrit[j]) /\ ecrit' \in [Ids -> SUBSET Nat]
  BY <1>6
<1>8. EcritDedans' /\ EcranAttendu'
  <2>1. UNCHANGED <<trames, taille, tronque, image>>
    BY DEF sortieVars
  <2>2. \A j \in Ids : \/ ecrit'[j] = {}
                       \/ /\ ecrit'[j] = ecrit[j] /\ origines'[j] = origines[j]
                          /\ surfaces'[j].pixels = surfaces[j].pixels
    BY <1>4, <1>7
  <2>3. QED BY <1>1, <2>1, <2>2, EcranGarde
<1>9. Accords'
  <2>1. \A j \in Ids : Accord(surfaces[j].tuiles, serveur[j])
    BY <1>1 DEF Accords
  <2>2. \A j \in Ids : Accord(surfaces'[j].tuiles, serveur'[j])
    BY <1>2, <1>4, <1>5, <2>1
  <2>3. QED BY <2>2 DEF Accords
<1> DEFINE f == [j \in Ids |-> Len(surfaces[j].pixels)]
           e == [j \in Ids |-> Len(surfaces'[j].pixels)]
<1>10. \A j \in Ids : surfaces[j].pixels \in Seq(Nat) /\ Len(surfaces[j].pixels) <= TAILLE_MAX
                      /\ DOMAIN surfaces[j].tuiles \subseteq 0 .. Len(surfaces[j].pixels) - 1
  BY <1>1 DEF TypesSurfaces, Largeur
<1>11. f \in [Ids -> Nat] /\ e \in [Ids -> Nat] /\ e[i] = Len(px) /\ f[i] = Poids(i)
       /\ (\A j \in Ids : f[j] = Poids(j) /\ e[j] = Poids(j)') /\ \A j \in Ids : j # i => e[j] = f[j]
  <2>1. \A j \in Ids : Len(surfaces[j].pixels) \in Nat /\ Len(surfaces'[j].pixels) \in Nat
    BY <1>4, <1>10
  <2>2. f \in [Ids -> Nat] /\ e \in [Ids -> Nat]
    BY <2>1
  <2>3. e[i] = Len(px) /\ \A j \in Ids : j # i => e[j] = f[j]
    BY <1>4
  <2>4. \A j \in Ids : f[j] = Poids(j) /\ e[j] = Poids(j)'
    BY DEF Poids, Largeur
  <2>5. QED BY <2>2, <2>3, <2>4
<1> HIDE DEF f, e
<1>12. octets_surfaces' = SumFunction([j \in Ids |-> Poids(j)])' /\ octets_surfaces' \in Nat
  <2>1. octets_surfaces' = octets_surfaces - f[i] + e[i]
    BY <1>11
  <2>2. QED BY <1>1, <1>11, <2>1, ComptePoids
<1>13. Cardinality(Vivantes') <= SURFACES_MAX
  <2>1. Vivantes' \subseteq Vivantes \cup {i} /\ (Len(px) = 0 => Vivantes' \subseteq Vivantes)
        /\ Vivantes \subseteq Ids
    BY <1>4 DEF Vivantes, Largeur
  <2>2. IsFiniteSet(Ids) /\ SURFACES_MAX \in Nat
    BY DEF SurfacesAssumption
  <2>3. IsFiniteSet(Vivantes) /\ Cardinality(Vivantes) \in Nat /\ Cardinality(Vivantes) <= SURFACES_MAX
    BY <1>1, <2>1, <2>2, FS_Subset, FS_CardinalityType DEF ComptesExacts
  <2>4. CASE Len(px) = 0 \/ i \in Vivantes
    <3>1. Vivantes' \subseteq Vivantes
      BY <2>1, <2>4
    <3>2. Cardinality(Vivantes') <= Cardinality(Vivantes) /\ Cardinality(Vivantes') \in Nat
      BY <2>3, <3>1, FS_Subset, FS_CardinalityType
    <3>3. QED BY <2>2, <2>3, <3>2
  <2>5. CASE ~(Len(px) = 0 \/ i \in Vivantes)
    <3> DEFINE V == Vivantes \cup {i}
    <3>1. IsFiniteSet(V) /\ Cardinality(V) = Cardinality(Vivantes) + 1
      BY <2>3, <2>5, FS_AddElement
    <3>2. Vivantes' \subseteq V
      BY <2>1
    <3> HIDE DEF V
    <3>3. Cardinality(Vivantes') <= Cardinality(V) /\ Cardinality(Vivantes') \in Nat
      BY <3>1, <3>2, FS_Subset, FS_CardinalityType
    <3>4. QED BY <2>2, <2>3, <2>5, <3>1, <3>3
  <2>6. QED BY <2>4, <2>5
<1>14. ComptesExacts'
  <2>1. octetsCache' = octetsCache /\ [c \in Cases |-> Pris(c)]' = [c \in Cases |-> Pris(c)]
    BY DEF cacheVars, Pris
  <2>2. QED BY <1>1, <1>12, <1>13, <2>1 DEF ComptesExacts
<1>15. TypesSurfaces'
  <2>1. \A j \in Ids : surfaces'[j].pixels \in Seq(Nat) /\ Len(surfaces'[j].pixels) <= TAILLE_MAX
                      /\ DOMAIN surfaces'[j].tuiles \subseteq 0 .. Len(surfaces'[j].pixels) - 1
    BY <1>2, <1>4, <1>10
  <2>2. QED BY <1>1, <1>7, <1>12, <2>1 DEF TypesSurfaces, Largeur, cacheVars, sortieVars
<1>16. QED BY <1>1, <1>3, <1>5, <1>8, <1>9, <1>14, <1>15 DEF IInvSurfaces

LEMMA CreateSurfaceTient ==
  ASSUME SurfacesAssumption, IInvSurfaces, NEW i \in Ids, NEW l \in Largeurs, CreateSurface(i, l)
  PROVE  IInvSurfaces'
<1>1. pdus' \in 0 .. PDUS_MAX
  BY PdusTient DEF CreateSurface
<1>2. UNCHANGED <<origines, cacheVars, sortieVars, image, trames_decodees>> /\ origines \in [Ids -> Origines \cup {Absente}]
  BY DEF CreateSurface, IInvSurfaces, TypesSurfaces
<1>3. CASE Creable(i, l)
  <2> DEFINE px == [p \in 1 .. l |-> 0]
  <2>1. l \in Nat /\ l <= TAILLE_MAX
    BY <1>3 DEF Creable, SurfacesAssumption
  <2>2. px \in Seq(Nat) /\ Len(px) = l
    BY <2>1
  <2>3. /\ surfaces' = [surfaces EXCEPT ![i] = [pixels |-> px, tuiles |-> << >>]]
        /\ octets_surfaces' = octets_surfaces - Poids(i) + l
        /\ serveur' = [serveur EXCEPT ![i] = << >>] /\ ecrit' = [ecrit EXCEPT ![i] = {}]
    BY <1>3 DEF CreateSurface
  <2>4. octets_surfaces' <= OCTETS_SURFACES_MAX /\ (i \in Vivantes \/ Cardinality(Vivantes) < SURFACES_MAX)
    BY <1>3, <2>3 DEF Creable
  <2> HIDE DEF px
  <2>5. origines' \in [Ids -> Origines \cup {Absente}] /\ \A j \in Ids : origines'[j] = origines[j]
    BY <1>2
  <2>6. QED BY <1>1, <1>2, <2>1, <2>2, <2>3, <2>4, <2>5, SurfaceNeuve
<1>4. CASE ~Creable(i, l)
  <2>1. UNCHANGED <<tableVars, cacheVars, sortieVars, image, serveur, ecrit>> /\ trames_decodees' \in Nat
    BY <1>2, <1>4 DEF CreateSurface, tableVars, IInvSurfaces, TypesSurfaces
  <2>2. QED BY <1>1, <2>1, RienChange
<1>5. QED BY <1>3, <1>4

LEMMA DeleteSurfaceTient ==
  ASSUME SurfacesAssumption, IInvSurfaces, NEW i \in Ids, DeleteSurface(i)
  PROVE  IInvSurfaces'
<1>1. pdus' \in 0 .. PDUS_MAX
  BY PdusTient DEF DeleteSurface
<1>2. /\ surfaces' = [surfaces EXCEPT ![i] = [pixels |-> << >>, tuiles |-> << >>]]
      /\ octets_surfaces' = octets_surfaces - Poids(i)
      /\ origines' = [origines EXCEPT ![i] = Absente]
      /\ serveur' = [serveur EXCEPT ![i] = << >>] /\ ecrit' = [ecrit EXCEPT ![i] = {}]
      /\ UNCHANGED <<cacheVars, sortieVars, image, trames_decodees>>
  BY DEF DeleteSurface, Neant
<1>3. origines \in [Ids -> Origines \cup {Absente}]
  BY DEF IInvSurfaces, TypesSurfaces
<1>4. origines' \in [Ids -> Origines \cup {Absente}] /\ \A j \in Ids : j # i => origines'[j] = origines[j]
  BY <1>2, <1>3
<1>5. << >> \in Seq(Nat) /\ Len(<< >>) = 0 /\ 0 <= TAILLE_MAX
  BY DEF SurfacesAssumption
<1>6. octets_surfaces \in Nat /\ Poids(i) \in Nat /\ octets_surfaces <= OCTETS_SURFACES_MAX
      /\ OCTETS_SURFACES_MAX \in Nat
  BY TuilesIci DEF IInvSurfaces, TypesSurfaces, ComptesExacts, SurfacesAssumption, Poids
<1>7. octets_surfaces' = octets_surfaces - Poids(i) + Len(<< >>) /\ octets_surfaces' <= OCTETS_SURFACES_MAX
  BY <1>2, <1>5, <1>6
<1>8. QED BY <1>1, <1>2, <1>4, <1>5, <1>7, SurfaceNeuve

LEMMA MapSurfaceToOutputTient ==
  ASSUME SurfacesAssumption, IInvSurfaces, NEW i \in Ids, NEW x \in Origines, MapSurfaceToOutput(i, x)
  PROVE  IInvSurfaces'
<1>1. pdus' \in 0 .. PDUS_MAX
  BY PdusTient DEF MapSurfaceToOutput
<1>2. /\ origines' = [origines EXCEPT ![i] = x] /\ ecrit' = [ecrit EXCEPT ![i] = {}]
      /\ UNCHANGED <<surfaces, octets_surfaces, cacheVars, sortieVars, image, trames_decodees, serveur>>
  BY DEF MapSurfaceToOutput
<1>3. TypesSurfaces /\ ComptesExacts /\ Accords /\ EcritDedans /\ EcranAttendu
  BY DEF IInvSurfaces
<1>4. origines \in [Ids -> Origines \cup {Absente}] /\ ecrit \in [Ids -> SUBSET Nat]
  BY <1>3 DEF TypesSurfaces
<1>5. \A j \in Ids : ecrit'[j] = {} \/ (ecrit'[j] = ecrit[j] /\ origines'[j] = origines[j])
  BY <1>2, <1>4
<1>6. EcritDedans' /\ EcranAttendu'
  <2>1. UNCHANGED <<trames, taille, tronque, image>>
    BY <1>2 DEF sortieVars
  <2>2. \A j \in Ids : surfaces'[j].pixels = surfaces[j].pixels
    BY <1>2
  <2>3. QED BY <1>3, <1>5, <2>1, <2>2, EcranGarde
<1>7. ComptesExacts'
  BY <1>2, <1>3, ComptesGardes
<1>8. Accords'
  BY <1>2, <1>3 DEF Accords
<1>9. TypesSurfaces'
  <2>1. origines' \in [Ids -> Origines \cup {Absente}] /\ ecrit' \in [Ids -> SUBSET Nat]
    BY <1>2, <1>4
  <2>2. QED BY <1>1, <1>2, <1>3, <2>1 DEF TypesSurfaces, Largeur, cacheVars, sortieVars
<1>10. QED BY <1>2, <1>6, <1>7, <1>8, <1>9 DEF IInvSurfaces

LEMMA ResetGraphicsTient ==
  ASSUME SurfacesAssumption, IInvSurfaces, NEW l \in Largeurs, ResetGraphics(l)
  PROVE  IInvSurfaces'
<1>1. pdus' \in 0 .. PDUS_MAX
  BY PdusTient DEF ResetGraphics
<1>2. /\ taille' = IF l \in 1 .. TAILLE_MAX THEN l ELSE taille
      /\ surfaces' = [i \in Ids |-> [surfaces[i] EXCEPT !.tuiles = << >>]]
      /\ serveur' = [i \in Ids |-> << >>] /\ ecrit' = [i \in Ids |-> {}]
      /\ UNCHANGED <<octets_surfaces, origines, cacheVars, octets_publies, trames, tronque, image, trames_decodees>>
  BY DEF ResetGraphics
<1>3. TypesSurfaces /\ ComptesExacts /\ surfaces \in [Ids -> Surface]
  BY DEF IInvSurfaces
<1>4. /\ << >> \in TuilesDans(TAILLE_MAX) /\ << >> \in TuilesSues /\ DOMAIN << >> = {} /\ Accord(<< >>, << >>)
  BY TuilesVides DEF SurfacesAssumption
<1>5. \A i \in Ids : surfaces'[i] = [pixels |-> surfaces[i].pixels, tuiles |-> << >>]
  <2>1. \A i \in Ids : surfaces[i] = [pixels |-> surfaces[i].pixels, tuiles |-> surfaces[i].tuiles]
    BY <1>3 DEF Surface
  <2> SUFFICES ASSUME NEW i \in Ids PROVE surfaces'[i] = [pixels |-> surfaces[i].pixels, tuiles |-> << >>]
    OBVIOUS
  <2>2. surfaces'[i] = [surfaces[i] EXCEPT !.tuiles = << >>]
    BY <1>2
  <2>3. QED BY <2>1, <2>2
<1>6. \A i \in Ids : surfaces'[i].pixels = surfaces[i].pixels /\ surfaces'[i].tuiles = << >>
  <2> SUFFICES ASSUME NEW i \in Ids
               PROVE  surfaces'[i].pixels = surfaces[i].pixels /\ surfaces'[i].tuiles = << >>
    OBVIOUS
  <2>1. surfaces'[i] = [pixels |-> surfaces[i].pixels, tuiles |-> << >>]
    BY <1>5
  <2>2. QED BY <2>1
<1>7. surfaces' \in [Ids -> Surface]
  <2>1. \A i \in Ids : surfaces'[i] \in Surface
    <3> SUFFICES ASSUME NEW i \in Ids PROVE surfaces'[i] \in Surface
      OBVIOUS
    <3>1. surfaces[i].pixels \in Seq(Nat)
      BY <1>3 DEF TypesSurfaces
    <3>2. surfaces'[i] = [pixels |-> surfaces[i].pixels, tuiles |-> << >>]
      BY <1>5
    <3>3. QED BY <1>4, <3>1, <3>2 DEF Surface
  <2>2. surfaces' = [i \in Ids |-> surfaces'[i]]
    BY <1>2
  <2> HIDE DEF Surface
  <2>3. QED BY <2>1, <2>2
<1>8. ComptesExacts'
  BY <1>2, <1>3, <1>6, ComptesGardes
<1>9. Accords' /\ EcritDedans' /\ EcranAttendu' /\ serveur' \in [Ids -> TuilesSues]
  <2>1. \A i \in Ids : serveur'[i] = << >> /\ ecrit'[i] = {}
    BY <1>2
  <2>2. serveur' \in [Ids -> TuilesSues]
    BY <1>2, <1>4
  <2>3. QED BY <1>4, <1>6, <2>1, <2>2 DEF Accords, EcritDedans, EcranAttendu
<1>10. TypesSurfaces'
  <2>1. \A j \in Ids : surfaces'[j].pixels \in Seq(Nat) /\ Len(surfaces'[j].pixels) <= TAILLE_MAX
                      /\ DOMAIN surfaces'[j].tuiles \subseteq 0 .. Len(surfaces'[j].pixels) - 1
    BY <1>3, <1>4, <1>6 DEF TypesSurfaces, Largeur
  <2>2. taille' \in 0 .. TAILLE_MAX /\ ecrit' \in [Ids -> SUBSET Nat]
    BY <1>2, <1>3 DEF TypesSurfaces
  <2>3. QED BY <1>1, <1>2, <1>3, <2>1, <2>2 DEF TypesSurfaces, Largeur, cacheVars
<1>11. QED BY <1>2, <1>7, <1>8, <1>9, <1>10 DEF IInvSurfaces

\* Only the cache changes.
LEMMA CacheTient ==
  ASSUME SurfacesAssumption, IInvSurfaces, NEW c \in Cases, NEW m \in Seq(Nat),
         cacheSurfaces' = [cacheSurfaces EXCEPT ![c] = m], octetsCache' = octetsCache - Pris(c) + Len(m),
         octetsCache' <= OCTETS_MAX, pdus' \in 0 .. PDUS_MAX,
         UNCHANGED <<tableVars, sortieVars, image, trames_decodees, serveur, ecrit>>
  PROVE  IInvSurfaces'
<1>1. TypesSurfaces /\ ComptesExacts /\ cacheSurfaces \in [Cases -> Seq(Nat)]
  BY DEF IInvSurfaces, TypesSurfaces
<1> DEFINE f == [d \in Cases |-> Len(cacheSurfaces[d])]
           e == [d \in Cases |-> Len(cacheSurfaces'[d])]
<1>2. f \in [Cases -> Nat] /\ e \in [Cases -> Nat] /\ e[c] = Len(m) /\ f[c] = Pris(c)
      /\ (\A d \in Cases : f[d] = Pris(d) /\ e[d] = Pris(d)') /\ \A d \in Cases : d # c => e[d] = f[d]
  <2>1. cacheSurfaces'[c] = m /\ \A d \in Cases : d # c => cacheSurfaces'[d] = cacheSurfaces[d]
    BY <1>1
  <2>2. \A d \in Cases : Len(cacheSurfaces[d]) \in Nat /\ Len(cacheSurfaces'[d]) \in Nat
    BY <1>1, <2>1
  <2>3. f \in [Cases -> Nat] /\ e \in [Cases -> Nat]
    BY <2>2
  <2>4. QED BY <2>1, <2>3 DEF Pris
<1> HIDE DEF f, e
<1>3. octetsCache' = SumFunction([d \in Cases |-> Pris(d)])' /\ octetsCache' \in Nat
  <2>1. octetsCache' = octetsCache - f[c] + e[c]
    BY <1>2
  <2>2. QED BY <1>1, <1>2, <2>1, ComptePris
<1>4. /\ surfaces' = surfaces /\ octets_surfaces' = octets_surfaces /\ origines' = origines
      /\ octets_publies' = octets_publies /\ trames' = trames /\ taille' = taille /\ tronque' = tronque
      /\ image' = image /\ serveur' = serveur /\ ecrit' = ecrit /\ trames_decodees' = trames_decodees
  BY DEF tableVars, sortieVars
<1>5. ComptesExacts'
  <2>1. [j \in Ids |-> Poids(j)]' = [j \in Ids |-> Poids(j)] /\ Vivantes' = Vivantes
    BY <1>4 DEF Poids, Largeur, Vivantes
  <2>2. QED BY <1>1, <1>3, <1>4, <2>1 DEF ComptesExacts
<1>6. TypesSurfaces'
  <2>1. cacheSurfaces' \in [Cases -> Seq(Nat)]
    BY <1>1
  <2>2. QED BY <1>1, <1>3, <1>4, <2>1 DEF TypesSurfaces, Largeur
<1>7. Accords' /\ EcritDedans' /\ EcranAttendu'
  BY <1>4 DEF IInvSurfaces, Accords, EcritDedans, EcranAttendu, Origine, Largeur, Longue
<1>8. QED BY <1>4, <1>5, <1>6, <1>7 DEF IInvSurfaces

LEMMA SurfaceToCacheTient ==
  ASSUME SurfacesAssumption, IInvSurfaces, NEW i \in Ids, NEW c \in Cases, NEW z \in Rectangle, SurfaceToCache(i, c, z)
  PROVE  IInvSurfaces'
<1>1. pdus' \in 0 .. PDUS_MAX
  BY PdusTient DEF SurfaceToCache
<1>2. UNCHANGED <<tableVars, sortieVars, image, trames_decodees, serveur, ecrit>>
  BY DEF SurfaceToCache
<1> DEFINE m == Extraire(surfaces[i].pixels, z)
           peut == /\ Pris(c) > 0 \/ Cardinality({d \in Cases : Pris(d) > 0}) < EMPLACEMENTS_MAX
                   /\ octetsCache - Pris(c) + Len(m) <= OCTETS_MAX
<1>3. m \in Seq(Nat)
  BY TuilesIci, ExtraireEffet
<1>4. CASE m # << >> /\ peut
  <2>1. cacheSurfaces' = [cacheSurfaces EXCEPT ![c] = m] /\ octetsCache' = octetsCache - Pris(c) + Len(m)
    BY <1>4 DEF SurfaceToCache, Deposer
  <2>2. octetsCache' <= OCTETS_MAX
    BY <1>4, <2>1
  <2> HIDE DEF m, peut
  <2>3. QED BY <1>1, <1>2, <1>3, <2>1, <2>2, CacheTient
<1>5. CASE ~(m # << >> /\ peut)
  <2>1. UNCHANGED cacheVars
    BY <1>5 DEF SurfaceToCache, Deposer
  <2>2. UNCHANGED <<tableVars, cacheVars, sortieVars, image, serveur, ecrit>> /\ trames_decodees' \in Nat
    BY <1>2, <2>1 DEF IInvSurfaces, TypesSurfaces
  <2>3. QED BY <1>1, <2>2, RienChange
<1>6. QED BY <1>4, <1>5

LEMMA EvictCacheEntryTient ==
  ASSUME SurfacesAssumption, IInvSurfaces, NEW c \in Cases, EvictCacheEntry(c)
  PROVE  IInvSurfaces'
<1>1. pdus' \in 0 .. PDUS_MAX
  BY PdusTient DEF EvictCacheEntry
<1>2. /\ cacheSurfaces' = [cacheSurfaces EXCEPT ![c] = << >>] /\ octetsCache' = octetsCache - Pris(c)
      /\ UNCHANGED <<tableVars, sortieVars, image, trames_decodees, serveur, ecrit>>
  BY DEF EvictCacheEntry
<1>3. << >> \in Seq(Nat) /\ Len(<< >>) = 0
  OBVIOUS
<1>4. octetsCache \in Nat /\ octetsCache <= OCTETS_MAX /\ OCTETS_MAX \in Nat /\ Pris(c) \in Nat
  <2>1. cacheSurfaces[c] \in Seq(Nat)
    BY DEF IInvSurfaces, TypesSurfaces
  <2>2. Pris(c) \in Nat
    BY <2>1 DEF Pris
  <2>3. QED BY <2>2 DEF IInvSurfaces, TypesSurfaces, ComptesExacts, SurfacesAssumption
<1>5. octetsCache' = octetsCache - Pris(c) + Len(<< >>) /\ octetsCache' <= OCTETS_MAX
  BY <1>2, <1>3, <1>4
<1>6. QED BY <1>1, <1>2, <1>3, <1>5, CacheTient

LEMMA PeindreTient ==
  ASSUME SurfacesAssumption, IInvSurfaces, Peindre
  PROVE  IInvSurfaces'
<1> DEFINE fond == Etirer(image, taille)
<1>1. /\ image' = Peinte(fond, trames) /\ trames' = << >> /\ taille' = 0 /\ octets_publies' = 0
      /\ surfaces' = surfaces /\ octets_surfaces' = octets_surfaces /\ origines' = origines
      /\ cacheSurfaces' = cacheSurfaces /\ octetsCache' = octetsCache /\ tronque' = tronque
      /\ trames_decodees' = trames_decodees /\ serveur' = serveur /\ ecrit' = ecrit /\ pdus' = pdus
  BY DEF Peindre, tableVars, cacheVars
<1>2. TypesSurfaces /\ ComptesExacts /\ Accords /\ EcritDedans /\ EcranAttendu /\ Len(image) > 0
  BY DEF IInvSurfaces
<1>3. image \in Seq(Nat) /\ taille \in 0 .. TAILLE_MAX /\ TAILLE_MAX \in Nat /\ trames \in Seq(Trame)
  BY <1>2 DEF TypesSurfaces, SurfacesAssumption, Trame
<1>4. fond \in Seq(Nat) /\ Len(fond) = Longue /\ Len(fond) > 0
  <2>1. taille \in Nat
    BY <1>3
  <2>2. Etirer(image, taille) \in Seq(Nat) /\ Len(Etirer(image, taille)) = IF taille = 0 THEN Len(image) ELSE taille
    BY <1>2, <1>3, <2>1, EtirerEffet
  <2>3. QED BY <1>2, <2>1, <2>2 DEF Longue
<1> HIDE DEF fond
<1>5. /\ image' \in Seq(Nat) /\ Len(image') = Len(fond)
      /\ \A q \in Nat : \A v : q < Len(fond) /\ MontreDans(trames, fond, q, v) => image'[q + 1] = v
  BY <1>1, <1>3, <1>4, PeinteEffet
<1>6. TypesSurfaces'
  <2>1. << >> \in Seq([x : Nat, pixels : Seq(Nat)])
    OBVIOUS
  <2>2. 0 \in 0 .. TAILLE_MAX
    BY <1>3
  <2>3. /\ \A i \in Ids : /\ surfaces'[i].pixels \in Seq(Nat) /\ Len(surfaces'[i].pixels) <= TAILLE_MAX
                            /\ DOMAIN surfaces'[i].tuiles \subseteq 0 .. Len(surfaces'[i].pixels) - 1
        /\ origines' \in [Ids -> Origines \cup {Absente}] /\ cacheSurfaces' \in [Cases -> Seq(Nat)]
        /\ ecrit' \in [Ids -> SUBSET Nat]
    BY <1>1, <1>2 DEF TypesSurfaces, Largeur
  <2>4. {octets_surfaces', octetsCache', octets_publies', trames_decodees'} \subseteq Nat
        /\ tronque' \in BOOLEAN /\ pdus' \in 0 .. PDUS_MAX
    BY <1>1, <1>2 DEF TypesSurfaces
  <2>5. trames' \in Seq([x : Nat, pixels : Seq(Nat)]) /\ taille' \in 0 .. TAILLE_MAX /\ image' \in Seq(Nat)
    BY <1>1, <1>5, <2>1, <2>2
  <2>6. QED BY <2>3, <2>4, <2>5 DEF TypesSurfaces, Largeur
<1>7. ComptesExacts' /\ Accords' /\ EcritDedans'
  BY <1>1, <1>2 DEF ComptesExacts, Poids, Pris, Largeur, Vivantes, Accords, EcritDedans
<1>8. EcranAttendu'
  <2> SUFFICES ASSUME ~tronque', NEW j \in Ids, NEW p \in ecrit'[j], Origine(j)' + p < Longue'
               PROVE  MontreDans(trames, Etirer(image, taille), Origine(j) + p, surfaces[j].pixels[p + 1])'
    BY DEF EcranAttendu
  <2>1. p \in ecrit[j] /\ ~tronque /\ Origine(j)' = Origine(j)
    BY <1>1 DEF Origine
  <2>2. Longue' = Longue
    BY <1>1, <1>4, <1>5 DEF Longue
  <2>3. Origine(j) \in Nat /\ Largeur(j) \in Nat
    BY TuilesIci
  <2>4. p \in Nat
    BY <1>2, <2>1, <2>3 DEF EcritDedans
  <2>5. MontreDans(trames, fond, Origine(j) + p, surfaces[j].pixels[p + 1])
    BY <1>2, <2>1, <2>2 DEF EcranAttendu, fond
  <2> DEFINE q == Origine(j) + p
             v == surfaces[j].pixels[p + 1]
  <2>6. q \in Nat /\ q < Len(fond)
    BY <1>4, <2>1, <2>2, <2>3, <2>4
  <2>7. image'[q + 1] = v
    <3> HIDE DEF v, q
    <3>1. MontreDans(trames, fond, q, v)
      BY <2>5 DEF q, v
    <3>2. QED BY <1>5, <2>6, <3>1
  <2>8. Etirer(image', 0) = image'
    BY DEF Etirer
  <2>9. MontreDans(<< >>, image', q, v)
    <3> HIDE DEF v, q
    <3>1. Len(<< >>) = 0
      OBVIOUS
    <3>2. QED BY <2>7, <3>1 DEF MontreDans
  <2>10. MontreDans(trames, Etirer(image, taille), Origine(j) + p, surfaces[j].pixels[p + 1])'
           <=> MontreDans(<< >>, image', q, v)
    BY <1>1, <2>1, <2>8
  <2>11. QED BY <2>9, <2>10
<1>9. QED BY <1>1, <1>2, <1>4, <1>5, <1>6, <1>7, <1>8 DEF IInvSurfaces

-----------------------------------------------------------------------------
(* The theorem.                                                              *)

LEMMA SurfacesDebut ==
  ASSUME SurfacesAssumption, InitSurfaces
  PROVE  IInvSurfaces
<1>1. /\ surfaces = [i \in Ids |-> [pixels |-> << >>, tuiles |-> << >>]] /\ octets_surfaces = 0
      /\ origines = [i \in Ids |-> Absente] /\ cacheSurfaces = [c \in Cases |-> << >>] /\ octetsCache = 0
      /\ octets_publies = 0 /\ trames = << >> /\ taille = 0 /\ tronque = FALSE
      /\ image = [p \in 1 .. TAILLE_MAX |-> 0] /\ trames_decodees = 0
      /\ serveur = [i \in Ids |-> << >>] /\ ecrit = [i \in Ids |-> {}] /\ pdus = 0
  BY DEF InitSurfaces, Neant
<1>2. /\ << >> \in TuilesDans(TAILLE_MAX) /\ << >> \in TuilesSues /\ DOMAIN << >> = {} /\ Accord(<< >>, << >>)
  BY TuilesVides DEF SurfacesAssumption
<1>3. << >> \in Seq(Nat) /\ << >> \in Seq([x : Nat, pixels : Seq(Nat)]) /\ Len(<< >>) = 0
  OBVIOUS
<1>4. \A i \in Ids : surfaces[i].pixels = << >> /\ surfaces[i].tuiles = << >>
  <2> SUFFICES ASSUME NEW i \in Ids PROVE surfaces[i].pixels = << >> /\ surfaces[i].tuiles = << >>
    OBVIOUS
  <2>1. surfaces[i] = [pixels |-> << >>, tuiles |-> << >>]
    BY <1>1
  <2>2. QED BY <2>1
<1>5. surfaces \in [Ids -> Surface]
  <2>1. [pixels |-> << >>, tuiles |-> << >>] \in Surface
    BY <1>2, <1>3 DEF Surface
  <2> HIDE DEF Surface
  <2>2. QED BY <1>1, <2>1
<1>6. image \in Seq(Nat) /\ Len(image) > 0
  <2>1. image \in [1 .. TAILLE_MAX -> Nat] /\ TAILLE_MAX \in Nat /\ TAILLE_MAX > 0
    BY <1>1 DEF SurfacesAssumption
  <2>2. QED BY <2>1, EstSuite
<1>7. TypesSurfaces
  <2>1. \A i \in Ids : /\ surfaces[i].pixels \in Seq(Nat) /\ Largeur(i) <= TAILLE_MAX
                       /\ DOMAIN surfaces[i].tuiles \subseteq 0 .. Largeur(i) - 1
    <3> SUFFICES ASSUME NEW i \in Ids
                 PROVE  /\ surfaces[i].pixels \in Seq(Nat) /\ Largeur(i) <= TAILLE_MAX
                        /\ DOMAIN surfaces[i].tuiles \subseteq 0 .. Largeur(i) - 1
      OBVIOUS
    <3>1. surfaces[i].pixels = << >> /\ surfaces[i].tuiles = << >>
      BY <1>4
    <3>2. Largeur(i) = 0
      BY <1>3, <3>1 DEF Largeur
    <3>3. QED BY <1>2, <1>3, <3>1, <3>2 DEF SurfacesAssumption
  <2>2. origines \in [Ids -> Origines \cup {Absente}] /\ cacheSurfaces \in [Cases -> Seq(Nat)]
        /\ ecrit \in [Ids -> SUBSET Nat]
    BY <1>1, <1>3
  <2>3. 0 \in 0 .. TAILLE_MAX /\ 0 \in 0 .. PDUS_MAX
    BY DEF SurfacesAssumption
  <2>4. {octets_surfaces, octetsCache, octets_publies, trames_decodees} \subseteq Nat
    BY <1>1
  <2>5. /\ trames \in Seq([x : Nat, pixels : Seq(Nat)]) /\ tronque \in BOOLEAN
        /\ taille \in 0 .. TAILLE_MAX /\ pdus \in 0 .. PDUS_MAX
    BY <1>1, <1>3, <2>3
  <2>6. QED BY <1>6, <2>1, <2>2, <2>4, <2>5 DEF TypesSurfaces
<1>8. ComptesExacts
  <2> DEFINE f == [i \in Ids |-> Poids(i)]
             g == [c \in Cases |-> Pris(c)]
  <2>1. f \in [Ids -> Nat] /\ \A i \in Ids : f[i] = 0
    BY <1>3, <1>4 DEF Poids, Largeur
  <2>2. g \in [Cases -> Nat] /\ \A c \in Cases : g[c] = 0
    BY <1>1, <1>3 DEF Pris
  <2>3. IsFiniteSet(Ids) /\ IsFiniteSet(Cases)
    BY DEF SurfacesAssumption
  <2> HIDE DEF f, g
  <2>4. SumFunction(f) = 0
    BY <2>1, <2>3, SommeNulle
  <2>5. SumFunction(g) = 0
    BY <2>2, <2>3, SommeNulle
  <2>6. Vivantes = {}
    BY <1>3, <1>4 DEF Vivantes, Largeur
  <2>7. Cardinality({}) = 0
    BY FS_EmptySet
  <2>8. 0 <= OCTETS_SURFACES_MAX /\ 0 <= OCTETS_MAX /\ 0 <= SURFACES_MAX
    BY DEF SurfacesAssumption
  <2>9. QED BY <1>1, <2>4, <2>5, <2>6, <2>7, <2>8 DEF ComptesExacts, f, g
<1>9. Accords
  BY <1>1, <1>2, <1>4 DEF Accords
<1>10. EcritDedans /\ EcranAttendu
  BY <1>1 DEF EcritDedans, EcranAttendu
<1>11. serveur \in [Ids -> TuilesSues]
  BY <1>1, <1>2
<1>12. QED BY <1>5, <1>6, <1>7, <1>8, <1>9, <1>10, <1>11 DEF IInvSurfaces

\* The zones a command names.
LEMMA UneZone ==
  ASSUME SurfacesAssumption, NEW z \in Unes
  PROVE  z[1] \in Rectangle
<1>1. z \in Seq(Nat \X Nat) /\ Len(z) = 1
  BY DEF Unes, SurfacesAssumption
<1>2. 1 \in DOMAIN z /\ \A k \in DOMAIN z : z[k] \in Nat \X Nat
  BY <1>1
<1>3. QED BY <1>2 DEF Rectangle

LEMMA SurfacesPas ==
  ASSUME SurfacesAssumption, IInvSurfaces, [NextSurfaces]_varsSurfaces
  PROVE  IInvSurfaces'
<1>1. CASE UNCHANGED varsSurfaces
  <2>1. UNCHANGED <<tableVars, cacheVars, sortieVars, image, serveur, ecrit>> /\ pdus' = pdus
        /\ trames_decodees' = trames_decodees
    BY <1>1 DEF varsSurfaces
  <2>2. pdus' \in 0 .. PDUS_MAX /\ trames_decodees' \in Nat
    BY <2>1 DEF IInvSurfaces, TypesSurfaces
  <2>3. QED BY <2>1, <2>2, RienChange
<1>2. ASSUME NEW i \in Ids, Vie(i) PROVE IInvSurfaces'
  BY <1>2, CreateSurfaceTient, DeleteSurfaceTient, MapSurfaceToOutputTient DEF Vie
<1>3. ASSUME NEW i \in Ids, Dessin(i) PROVE IInvSurfaces'
  <2>1. ASSUME NEW zones \in Listes, SolidFill(i, zones) PROVE IInvSurfaces'
    BY <2>1, SolidFillTient
  <2>2. ASSUME NEW z \in Unes, NEW lisible \in BOOLEAN, WireToSurface1(i, z[1], lisible) PROVE IInvSurfaces'
    BY <2>2, UneZone, WireToSurface1Tient
  <2>3. ASSUME NEW src \in Ids, NEW z \in Unes, NEW points \in Listes, SurfaceToSurface(src, i, z[1], points)
        PROVE  IInvSurfaces'
    BY <2>3, UneZone, SurfaceToSurfaceTient
  <2>4. ASSUME NEW c \in Cases, NEW z \in Unes, SurfaceToCache(i, c, z[1]) PROVE IInvSurfaces'
    BY <2>4, UneZone, SurfaceToCacheTient
  <2>5. ASSUME NEW c \in Cases, NEW points \in Listes, CacheToSurface(c, i, points) PROVE IInvSurfaces'
    BY <2>5, CacheToSurfaceTient
  <2>6. QED BY <1>3, <2>1, <2>2, <2>3, <2>4, <2>5 DEF Dessin
<1>4. ASSUME NEW i \in Ids, Progressif(i) PROVE IInvSurfaces'
  <2>1. ASSUME NEW flux \in Flux, WireToSurface2(i, flux) PROVE IInvSurfaces'
    BY <2>1, WireToSurface2Tient
  <2>2. CASE DeleteEncodingContext(i)
    <3>1. pdus' \in 0 .. PDUS_MAX /\ trames_decodees' \in Nat
      <4>1. pdus' \in 0 .. PDUS_MAX
        BY <2>2, PdusTient DEF DeleteEncodingContext
      <4>2. trames_decodees \in Nat
        BY DEF IInvSurfaces, TypesSurfaces
      <4>3. QED BY <2>2, <4>1, <4>2 DEF DeleteEncodingContext
    <3>2. QED BY <2>2, <3>1, RienChange DEF DeleteEncodingContext
  <2>3. QED BY <1>4, <2>1, <2>2 DEF Progressif
<1>5. CASE EndFrame
  <2>1. pdus' \in 0 .. PDUS_MAX /\ trames_decodees' \in Nat
    <3>1. pdus' \in 0 .. PDUS_MAX
      BY <1>5, PdusTient DEF EndFrame
    <3>2. trames_decodees \in Nat
      BY DEF IInvSurfaces, TypesSurfaces
    <3>3. QED BY <1>5, <3>1, <3>2 DEF EndFrame
  <2>2. QED BY <1>5, <2>1, RienChange DEF EndFrame
<1>6. QED BY <1>1, <1>2, <1>3, <1>4, <1>5, EvictCacheEntryTient, ResetGraphicsTient, PeindreTient DEF NextSurfaces

LEMMA SurfacesSuffit ==
  ASSUME SurfacesAssumption, IInvSurfaces
  PROVE  SurfacesTenues
<1>1. TypesSurfaces /\ ComptesExacts
  BY DEF IInvSurfaces
<1>2. TuilesFideles
  BY DEF IInvSurfaces, Accords, Accord, TuilesFideles, Vivantes
<1>3. EcranFidele
  <2> SUFFICES ASSUME ~tronque, trames = << >>, taille = 0, NEW i \in Vivantes, NEW p \in ecrit[i],
                      Origine(i) + p < Len(image)
               PROVE  image[Origine(i) + p + 1] = surfaces[i].pixels[p + 1]
    BY DEF EcranFidele, EcranSuit
  <2>1. i \in Ids
    BY DEF Vivantes
  <2>2. Longue = Len(image) /\ Etirer(image, taille) = image
    BY DEF Longue, Etirer
  <2>3. MontreDans(<< >>, image, Origine(i) + p, surfaces[i].pixels[p + 1])
    BY <2>1, <2>2 DEF IInvSurfaces, EcranAttendu
  <2>4. Len(<< >>) = 0 /\ 0 .. 0 = {0}
    OBVIOUS
  <2>5. QED BY <2>3, <2>4 DEF MontreDans
<1>4. QED BY <1>1, <1>2, <1>3 DEF SurfacesTenues

\* The account of the surfaces and of the cache is exact, the tiles are those the
\* server refines, and the image shows what was written on the surfaces, whatever
\* the commands and however many they are.
THEOREM SurfacesToujoursTenues == ASSUME SurfacesAssumption PROVE SpecSurfaces => []SurfacesTenues
<1>1. InitSurfaces => IInvSurfaces
  BY SurfacesDebut
<1>2. IInvSurfaces /\ [NextSurfaces]_varsSurfaces => IInvSurfaces'
  BY SurfacesPas
<1>3. IInvSurfaces => SurfacesTenues
  BY SurfacesSuffit
<1>4. QED BY <1>1, <1>2, <1>3, PTL DEF SpecSurfaces
=============================================================================
