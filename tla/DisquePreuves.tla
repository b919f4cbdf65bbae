--------------------------- MODULE DisquePreuves ---------------------------
(***************************************************************************)
(* What Disque promises, for every set of names, every tree the shared     *)
(* folder may start as and every bound: the server never leaves the        *)
(* folder, a listing is given whole, each request has one answer, a        *)
(* refusal leaves at most a part of a block that was being written, and a  *)
(* file disappears only by a handle marked for it, a replacement, or the   *)
(* renaming that had looked before the user put it there.                  *)
(*                                                                         *)
(* All of it rests on the shape of the disk (DisqueTenu): what is in the   *)
(* tree is in a folder of the tree.  A renaming onto a path where nothing  *)
(* is would otherwise bury what is under it, and the root could be         *)
(* replaced as an empty folder.  A renaming moves a subtree, so its shape  *)
(* is a matter of prefixes of paths (Decale, DeplaceArbre).                *)
(***************************************************************************)
EXTENDS Disque, FiniteSetTheorems, SequenceTheorems, WellFoundedInduction, TLAPS

-----------------------------------------------------------------------------
(* Paths.                                                                  *)

Lettres == {"r", "x"} \cup Noms \cup Sous
Suites == Seq(Lettres)

\* The folder of a path, place by place.
LEMMA ParentSuite ==
  ASSUME NEW q \in Suites, Len(q) > 1
  PROVE  /\ Parent(q) \in Suites /\ Len(Parent(q)) = Len(q) - 1
         /\ \A i \in 1 .. Len(q) - 1 : Parent(q)[i] = q[i]
<1>1. Len(q) \in Nat /\ Len(q) - 1 \in 1 .. Len(q)
  BY DEF Suites
<1>2. /\ SubSeq(q, 1, Len(q) - 1) \in Suites /\ Len(SubSeq(q, 1, Len(q) - 1)) = Len(q) - 1
      /\ \A i \in 1 .. Len(q) - 1 : SubSeq(q, 1, Len(q) - 1)[i] = q[i]
  BY <1>1, SubSeqProperties DEF Suites
<1>3. QED BY <1>2 DEF Parent, Front

LEMMA CheminSuite ==
  ASSUME NEW q \in Chemins
  PROVE  /\ q \in Suites /\ Len(q) \in 1 .. 3
         /\ Len(q) > 1 => Parent(q) \in Chemins
<1>1. CASE q \in {<<"r">>, <<"x">>}
  <2>1. <<"r">> \in Suites /\ <<"x">> \in Suites
    BY DEF Suites, Lettres
  <2>2. Len(<<"r">>) = 1 /\ Len(<<"x">>) = 1
    OBVIOUS
  <2>3. q \in Suites /\ Len(q) = 1
    <3>1. CASE q = <<"r">> BY <3>1, <2>1, <2>2
    <3>2. CASE q = <<"x">> BY <3>2, <2>1, <2>2
    <3>3. QED BY <1>1, <3>1, <3>2
  <2>4. QED BY <2>3
<1>2. CASE q \in {"r", "x"} \X Noms
  <2>1. PICK a \in {"r", "x"}, b \in Noms : q = <<a, b>>
    BY <1>2
  <2>2. <<a, b>> \in Suites /\ <<a>> \in Suites
    BY DEF Suites, Lettres
  <2>3. Len(<<a, b>>) = 2 /\ <<a, b>>[1] = a /\ Len(<<a>>) = 1 /\ <<a>>[1] = a
    OBVIOUS
  <2>4. Parent(q) \in Suites /\ Len(Parent(q)) = 1 /\ Parent(q)[1] = a
    <3>1. q \in Suites /\ Len(q) = 2 /\ q[1] = a
      BY <2>1, <2>2, <2>3
    <3>2. Len(q) > 1
      BY <3>1
    <3>3. /\ Parent(q) \in Suites /\ Len(Parent(q)) = Len(q) - 1
          /\ \A i \in 1 .. Len(q) - 1 : Parent(q)[i] = q[i]
      BY <3>1, <3>2, ParentSuite
    <3>4. QED BY <3>1, <3>3
  <2>5. Parent(q) = <<a>>
    BY <2>2, <2>4, <2>3, SeqEqual DEF Suites
  <2>6. QED BY <2>1, <2>2, <2>5, <2>3 DEF Chemins
<1>3. CASE q \in {"r"} \X Noms \X Sous
  <2>1. PICK b \in Noms, c \in Sous : q = <<"r", b, c>>
    BY <1>3
  <2>2. <<"r", b, c>> \in Suites /\ <<"r", b>> \in Suites
    BY DEF Suites, Lettres
  <2>3. /\ Len(<<"r", b, c>>) = 3 /\ <<"r", b, c>>[1] = "r" /\ <<"r", b, c>>[2] = b
        /\ Len(<<"r", b>>) = 2 /\ <<"r", b>>[1] = "r" /\ <<"r", b>>[2] = b
    OBVIOUS
  <2>4. Parent(q) \in Suites /\ Len(Parent(q)) = 2 /\ Parent(q)[1] = "r" /\ Parent(q)[2] = b
    <3>1. q \in Suites /\ Len(q) = 3 /\ q[1] = "r" /\ q[2] = b
      BY <2>1, <2>2, <2>3
    <3>2. Len(q) > 1
      BY <3>1
    <3>3. /\ Parent(q) \in Suites /\ Len(Parent(q)) = Len(q) - 1
          /\ \A i \in 1 .. Len(q) - 1 : Parent(q)[i] = q[i]
      BY <3>1, <3>2, ParentSuite
    <3>4. QED BY <3>1, <3>3
  <2>5. Parent(q) = <<"r", b>>
    BY <2>2, <2>4, <2>3, SeqEqual DEF Suites
  <2>6. QED BY <2>1, <2>2, <2>5, <2>3 DEF Chemins
<1>4. QED BY <1>1, <1>2, <1>3 DEF Chemins

LEMMA RacineChemin == Racine \in Chemins /\ Racine \in Suites /\ Len(Racine) = 1
<1>1. Racine \in Chemins
  BY DEF Racine, Chemins
<1>2. QED BY <1>1, CheminSuite DEF Racine

\* Prefixes, place by place.
LEMMA Prefixe ==
  ASSUME NEW s \in Suites, NEW t \in Suites
  PROVE  IsPrefix(s, t) <=> Len(s) <= Len(t) /\ \A i \in 1 .. Len(s) : s[i] = t[i]
<1>1. CASE Len(s) <= Len(t)
  <2>1. SubSeq(s, 1, Len(s)) = s
    BY SubSeqFull DEF Suites
  <2>2. /\ SubSeq(t, 1, Len(s)) \in Suites /\ Len(SubSeq(t, 1, Len(s))) = Len(s)
        /\ \A i \in 1 .. Len(s) : SubSeq(t, 1, Len(s))[i] = t[i]
    BY <1>1, SubSeqProperties DEF Suites
  <2>3. SubSeq(t, 1, Len(s)) = s <=> \A i \in 1 .. Len(s) : s[i] = t[i]
    BY <2>2, SeqEqual DEF Suites
  <2>4. QED BY <1>1, <2>1, <2>3 DEF IsPrefix
<1>2. CASE ~(Len(s) <= Len(t))
  BY <1>2 DEF IsPrefix
<1>3. QED BY <1>1, <1>2

\* What is under a folder, its folder is or it is the folder itself.
LEMMA SousParent ==
  ASSUME NEW s \in Suites, NEW q \in Suites, Len(q) > 1
  PROVE  /\ IsPrefix(s, Parent(q)) => IsPrefix(s, q)
         /\ IsPrefix(s, q) /\ s # q => IsPrefix(s, Parent(q))
         /\ ~IsPrefix(q, Parent(q))
<1>1. /\ Parent(q) \in Suites /\ Len(Parent(q)) = Len(q) - 1
      /\ \A i \in 1 .. Len(q) - 1 : Parent(q)[i] = q[i]
  BY ParentSuite
<1>0. Len(s) \in Nat /\ Len(q) \in Nat
  BY DEF Suites
<1>2. IsPrefix(s, Parent(q)) => IsPrefix(s, q)
  BY <1>0, <1>1, Prefixe
<1>3. ASSUME IsPrefix(s, q), s # q PROVE IsPrefix(s, Parent(q))
  <2>1. Len(s) <= Len(q) /\ \A i \in 1 .. Len(s) : s[i] = q[i]
    BY <1>3, Prefixe
  <2>2. Len(s) # Len(q)
    BY <2>1, <1>3, SeqEqual DEF Suites
  <2>3. QED BY <1>0, <1>1, <2>1, <2>2, Prefixe
<1>4. ~IsPrefix(q, Parent(q))
  BY <1>0, <1>1, Prefixe
<1>5. QED BY <1>2, <1>3, <1>4

LEMMA PrefixeDeSoi ==
  ASSUME NEW s \in Suites
  PROVE  IsPrefix(s, s)
BY Prefixe DEF Suites

LEMMA PrefixeTransitif ==
  ASSUME NEW s \in Suites, NEW t \in Suites, NEW u \in Suites, IsPrefix(s, t), IsPrefix(t, u)
  PROVE  IsPrefix(s, u)
<1>0. Len(s) \in Nat /\ Len(t) \in Nat /\ Len(u) \in Nat
  BY DEF Suites
<1>1. /\ Len(s) <= Len(t) /\ \A i \in 1 .. Len(s) : s[i] = t[i]
      /\ Len(t) <= Len(u) /\ \A i \in 1 .. Len(t) : t[i] = u[i]
  BY Prefixe
<1>2. QED BY <1>0, <1>1, Prefixe

\* Where a path under d comes from, when the subtree of s is moved to d.
LEMMA SourceSuite ==
  ASSUME NEW s \in Suites, NEW d \in Suites, NEW q \in Suites, IsPrefix(d, q)
  PROVE  /\ Source(s, d, q) \in Suites
         /\ Len(Source(s, d, q)) = Len(s) + Len(q) - Len(d)
         /\ \A i \in 1 .. Len(s) : Source(s, d, q)[i] = s[i]
         /\ \A i \in Len(s) + 1 .. Len(s) + Len(q) - Len(d) :
              Source(s, d, q)[i] = q[i - Len(s) + Len(d)]
<1>0. Len(s) \in Nat /\ Len(d) \in Nat /\ Len(q) \in Nat /\ Len(d) <= Len(q)
  BY Prefixe DEF Suites
<1> DEFINE r == SubSeq(q, Len(d) + 1, Len(q))
<1>1. /\ r \in Suites /\ Len(r) = Len(q) - Len(d)
      /\ \A i \in 1 .. Len(q) - Len(d) : r[i] = q[i + Len(d)]
  <2>1. CASE Len(d) = Len(q)
    <3>1. r = <<>>
      BY <1>0, <2>1, SubSeqEmpty DEF Suites
    <3>2. QED BY <1>0, <2>1, <3>1 DEF Suites
  <2>2. CASE Len(d) < Len(q)
    <3>1. Len(d) + 1 \in 1 .. Len(q) + 1 /\ Len(q) \in Len(d) .. Len(q)
      BY <1>0, <2>2
    <3>2. /\ SubSeq(q, Len(d) + 1, Len(q)) \in Seq(Lettres)
          /\ Len(SubSeq(q, Len(d) + 1, Len(q))) = Len(q) - (Len(d) + 1) + 1
          /\ \A i \in 1 .. Len(q) - (Len(d) + 1) + 1 :
               SubSeq(q, Len(d) + 1, Len(q))[i] = q[Len(d) + 1 + i - 1]
      BY <1>0, <2>2, SubSeqProperties DEF Suites
    <3>3. QED BY <1>0, <2>2, <3>2 DEF Suites
  <2>3. QED BY <1>0, <2>1, <2>2
<1> HIDE DEF r
<1>2. s \in Seq(Lettres) /\ r \in Seq(Lettres)
  BY <1>1 DEF Suites
<1>3. /\ s \o r \in Suites /\ Len(s \o r) = Len(s) + Len(r)
      /\ \A i \in 1 .. Len(s) + Len(r) :
           (s \o r)[i] = IF i <= Len(s) THEN s[i] ELSE r[i - Len(s)]
  BY <1>2, ConcatProperties DEF Suites
<1>4. Source(s, d, q) = s \o r
  BY DEF Source, r
<1>5. ASSUME NEW i \in Len(s) + 1 .. Len(s) + Len(q) - Len(d)
      PROVE  (s \o r)[i] = q[i - Len(s) + Len(d)]
  <2>1. i - Len(s) \in 1 .. Len(q) - Len(d) /\ ~(i <= Len(s)) /\ i \in 1 .. Len(s) + Len(r)
    BY <1>0, <1>1
  <2>2. (s \o r)[i] = r[i - Len(s)]
    BY <1>3, <2>1
  <2>3. QED BY <1>1, <2>1, <2>2
<1>6. QED BY <1>0, <1>1, <1>3, <1>4, <1>5

-----------------------------------------------------------------------------
(* The shape of the disk, and what an operation makes of it.               *)

Forme(t) == t \in [Chemins -> Noeuds] /\ EstArbre(t) /\ t[Racine] = Dossier

LEMMA Genres == Rien # Dossier /\ Rien \in Noeuds /\ Dossier \in Noeuds
                /\ \A i \in Inodes : Fichier(i) \in Noeuds /\ Fichier(i) # Rien /\ Fichier(i) # Dossier
BY DEF Noeuds, Rien, Dossier, Fichier

\* Something put where nothing was, in a folder.
LEMMA AjoutForme ==
  ASSUME NEW t, Forme(t), NEW p \in Chemins, NEW v \in Noeuds, t[p] = Rien,
         Len(p) > 1 => t[Parent(p)] = Dossier
  PROVE  Forme([t EXCEPT ![p] = v])
<1> DEFINE u == [t EXCEPT ![p] = v]
<1>1. /\ u \in [Chemins -> Noeuds] /\ u[p] = v
      /\ \A q \in Chemins : q # p => u[q] = t[q]
  BY DEF Forme
<1>2. u[Racine] = Dossier
  BY <1>1, RacineChemin, Genres DEF Forme
<1> HIDE DEF u
<1>3. ASSUME NEW q \in Chemins, u[q] # Rien, Len(q) > 1
      PROVE  u[Parent(q)] = Dossier
  <2>1. Parent(q) \in Chemins
    BY <1>3, CheminSuite
  <2>2. t[Parent(q)] = Dossier
    BY <1>1, <1>3 DEF Forme, EstArbre
  <2>3. QED BY <1>1, <2>1, <2>2, Genres
<1>4. Forme(u)
  BY <1>1, <1>2, <1>3 DEF Forme, EstArbre
<1>5. QED BY <1>4 DEF u

\* Something removed that holds nothing.
LEMMA RetraitForme ==
  ASSUME NEW t, Forme(t), NEW p \in Chemins, p # Racine, t[p] # Dossier \/ Enfants(t, p) = {}
  PROVE  Forme([t EXCEPT ![p] = Rien])
<1> DEFINE u == [t EXCEPT ![p] = Rien]
<1>1. /\ u \in [Chemins -> Noeuds] /\ u[p] = Rien
      /\ \A q \in Chemins : q # p => u[q] = t[q]
  BY Genres DEF Forme
<1>2. u[Racine] = Dossier
  BY <1>1, RacineChemin DEF Forme
<1> HIDE DEF u
<1>3. ASSUME NEW q \in Chemins, u[q] # Rien, Len(q) > 1
      PROVE  u[Parent(q)] = Dossier
  <2>1. Parent(q) \in Chemins
    BY <1>3, CheminSuite
  <2>2. q # p /\ t[q] # Rien /\ t[Parent(q)] = Dossier
    BY <1>1, <1>3 DEF Forme, EstArbre
  <2>3. q \in Enfants(t, Parent(q))
    BY <1>3, <2>2 DEF Enfants
  <2>4. Parent(q) # p
    BY <2>2, <2>3
  <2>5. QED BY <1>1, <2>1, <2>2, <2>4
<1>4. Forme(u)
  BY <1>1, <1>2, <1>3 DEF Forme, EstArbre
<1>5. QED BY <1>4 DEF u

\* A path that is under none but itself is the one of the root.
LEMMA SousLaRacine ==
  ASSUME NEW s \in Chemins, IsPrefix(s, Racine)
  PROVE  s = Racine
<1>1. s \in Suites /\ Len(s) \in 1 .. 3 /\ Racine \in Suites /\ Len(Racine) = 1
  BY CheminSuite, RacineChemin
<1>2. Len(s) <= 1 /\ \A i \in 1 .. Len(s) : s[i] = Racine[i]
  BY <1>1, Prefixe
<1>3. QED BY <1>1, <1>2, SeqEqual DEF Suites

\* A subtree that moves: where it was, where it is, and the rest.
LEMMA DeplaceValeurs ==
  ASSUME Forme(fs), NEW s \in Chemins, NEW d \in Chemins
  PROVE  /\ Deplace(s, d) \in [Chemins -> Noeuds]
         /\ \A q \in Chemins :
              /\ IsPrefix(d, q) =>
                   Deplace(s, d)[q] = IF Source(s, d, q) \in Chemins THEN fs[Source(s, d, q)] ELSE Rien
              /\ ~IsPrefix(d, q) /\ IsPrefix(s, q) => Deplace(s, d)[q] = Rien
              /\ ~IsPrefix(d, q) /\ ~IsPrefix(s, q) => Deplace(s, d)[q] = fs[q]
<1>1. \A q \in Chemins : fs[q] \in Noeuds
  BY DEF Forme
<1>2. Rien \in Noeuds
  BY Genres
<1> DEFINE De(q) == IF IsPrefix(d, q) THEN IF Source(s, d, q) \in Chemins THEN fs[Source(s, d, q)] ELSE Rien
                     ELSE IF IsPrefix(s, q) THEN Rien ELSE fs[q]
<1>3. Deplace(s, d) = [q \in Chemins |-> De(q)]
  BY DEF Deplace, Source
<1>4. \A q \in Chemins : De(q) \in Noeuds
  BY <1>1, <1>2
<1>5. \A q \in Chemins : Deplace(s, d)[q] = De(q)
  BY <1>3
<1>6. Deplace(s, d) \in [Chemins -> Noeuds]
  BY <1>3, <1>4
<1>7. QED BY <1>5, <1>6

LEMMA SourceParent ==
  ASSUME NEW s \in Suites, Len(s) > 0, NEW d \in Suites, NEW q \in Suites, Len(q) > 1, IsPrefix(d, q), q # d
  PROVE  /\ Len(Source(s, d, q)) > 1
         /\ Parent(Source(s, d, q)) = Source(s, d, Parent(q))
<1>0. Len(s) \in Nat /\ Len(d) \in Nat /\ Len(q) \in Nat
  BY DEF Suites
<1>1. IsPrefix(d, Parent(q))
  BY SousParent
<1>2. /\ Parent(q) \in Suites /\ Len(Parent(q)) = Len(q) - 1
      /\ \A i \in 1 .. Len(q) - 1 : Parent(q)[i] = q[i]
  BY ParentSuite
<1>3. Len(d) <= Len(q) - 1
  BY <1>1, <1>2, Prefixe
<1> DEFINE a == Source(s, d, q)
           b == Source(s, d, Parent(q))
<1>4. /\ a \in Suites /\ Len(a) = Len(s) + Len(q) - Len(d)
      /\ \A i \in 1 .. Len(s) : a[i] = s[i]
      /\ \A i \in Len(s) + 1 .. Len(s) + Len(q) - Len(d) : a[i] = q[i - Len(s) + Len(d)]
  BY SMTT(60), SourceSuite
<1>5. /\ b \in Suites /\ Len(b) = Len(s) + Len(Parent(q)) - Len(d)
      /\ \A i \in 1 .. Len(s) : b[i] = s[i]
      /\ \A i \in Len(s) + 1 .. Len(s) + Len(Parent(q)) - Len(d) : b[i] = Parent(q)[i - Len(s) + Len(d)]
  BY ZenonT(60), <1>1, <1>2, SourceSuite
<1> HIDE DEF a, b
<1>6. Len(a) > 1
  BY <1>0, <1>3, <1>4
<1>7. /\ Parent(a) \in Suites /\ Len(Parent(a)) = Len(a) - 1
      /\ \A i \in 1 .. Len(a) - 1 : Parent(a)[i] = a[i]
  BY <1>4, <1>6, ParentSuite
<1>8. Len(Parent(a)) = Len(b)
  BY <1>0, <1>2, <1>4, <1>5, <1>7
<1>9. ASSUME NEW i \in 1 .. Len(b) PROVE Parent(a)[i] = b[i]
  <2>1. i \in 1 .. Len(a) - 1 /\ Parent(a)[i] = a[i]
    BY <1>7, <1>8
  <2>2. CASE i \in 1 .. Len(s)
    BY <2>1, <2>2, <1>4, <1>5
  <2>3. CASE i \notin 1 .. Len(s)
    <3>1. /\ i \in Len(s) + 1 .. Len(s) + Len(q) - Len(d)
          /\ i \in Len(s) + 1 .. Len(s) + Len(Parent(q)) - Len(d)
          /\ i - Len(s) + Len(d) \in 1 .. Len(q) - 1
      BY <1>0, <1>2, <1>3, <1>5, <2>3
    <3>2. QED BY <3>1, <2>1, <1>2, <1>4, <1>5
  <2>4. QED BY <2>2, <2>3
<1>10. Parent(a) = b
  BY <1>5, <1>7, <1>8, <1>9, SeqEqual DEF Suites
<1>11. QED BY <1>6, <1>10 DEF a, b

LEMMA SourceDeSoi ==
  ASSUME NEW s \in Suites, NEW d \in Suites
  PROVE  Source(s, d, d) = s
<1>1. IsPrefix(d, d) /\ Len(s) \in Nat /\ Len(d) \in Nat
  BY PrefixeDeSoi DEF Suites
<1>2. /\ Source(s, d, d) \in Suites /\ Len(Source(s, d, d)) = Len(s) + Len(d) - Len(d)
      /\ \A i \in 1 .. Len(s) : Source(s, d, d)[i] = s[i]
  BY <1>1, SourceSuite
<1>3. QED BY <1>1, <1>2, SeqEqual DEF Suites

\* A renaming keeps the shape of the disk: what came under d came with its folder, and d
\* itself is put in a folder that stays.
LEMMA DeplaceForme ==
  ASSUME Forme(fs), NEW s \in Chemins, NEW d \in Chemins, s # Racine, d # Racine,
         ~IsPrefix(s, d), Len(d) > 1 => fs[Parent(d)] = Dossier
  PROVE  Forme(Deplace(s, d))
<1> DEFINE u == Deplace(s, d)
<1>0. s \in Suites /\ d \in Suites /\ Len(s) > 0
  BY CheminSuite
<1>1. u \in [Chemins -> Noeuds]
  BY DeplaceValeurs
<1>2. \A q \in Chemins :
        /\ IsPrefix(d, q) => u[q] = IF Source(s, d, q) \in Chemins THEN fs[Source(s, d, q)] ELSE Rien
        /\ ~IsPrefix(d, q) /\ IsPrefix(s, q) => u[q] = Rien
        /\ ~IsPrefix(d, q) /\ ~IsPrefix(s, q) => u[q] = fs[q]
  BY DeplaceValeurs
<1> HIDE DEF u
<1>3. u[Racine] = Dossier
  <2>1. ~IsPrefix(d, Racine) /\ ~IsPrefix(s, Racine)
    BY SousLaRacine
  <2>2. QED BY <1>2, <2>1, RacineChemin DEF Forme
<1>4. ASSUME NEW q \in Chemins, u[q] # Rien, Len(q) > 1
      PROVE  u[Parent(q)] = Dossier
  <2>0. q \in Suites /\ Parent(q) \in Chemins /\ Parent(q) \in Suites
    BY <1>4, CheminSuite
  <2>1. CASE q = d
    <3>1. ~IsPrefix(d, Parent(d)) /\ ~IsPrefix(s, Parent(d))
      BY <1>0, <1>4, <2>1, SousParent
    <3>2. QED BY <1>2, <1>4, <2>0, <2>1, <3>1
  <2>2. CASE IsPrefix(d, q) /\ q # d
    <3>1. IsPrefix(d, Parent(q))
      BY <1>0, <1>4, <2>0, <2>2, SousParent
    <3>2. /\ Len(Source(s, d, q)) > 1
          /\ Parent(Source(s, d, q)) = Source(s, d, Parent(q))
      BY <1>0, <1>4, <2>0, <2>2, SourceParent
    <3>3. Source(s, d, q) \in Chemins /\ fs[Source(s, d, q)] # Rien
      BY <1>2, <1>4, <2>2
    <3>4. fs[Source(s, d, Parent(q))] = Dossier
      BY <3>2, <3>3 DEF Forme, EstArbre
    <3>5. Source(s, d, Parent(q)) \in Chemins
      BY <3>2, <3>3, CheminSuite
    <3>6. QED BY <1>2, <2>0, <3>1, <3>4, <3>5
  <2>3. CASE ~IsPrefix(d, q)
    <3>1. ~IsPrefix(s, q) /\ u[q] = fs[q]
      BY <1>2, <1>4, <2>3
    <3>2. ~IsPrefix(d, Parent(q)) /\ ~IsPrefix(s, Parent(q))
      BY <1>0, <1>4, <2>0, <2>3, <3>1, SousParent
    <3>3. fs[Parent(q)] = Dossier
      BY <1>4, <3>1 DEF Forme, EstArbre
    <3>4. QED BY <1>2, <2>0, <3>2, <3>3
  <2>4. QED BY <2>1, <2>2, <2>3
<1>5. Forme(u)
  BY <1>1, <1>3, <1>4 DEF Forme, EstArbre
<1>6. QED BY <1>5 DEF u

\* The root is not empty while a path under it is.
LEMMA RacinePleine ==
  ASSUME Forme(fs), NEW s \in Chemins, SousRacine(s), s # Racine, fs[s] # Rien
  PROVE  Enfants(fs, Racine) # {}
<1>0. s \in Suites /\ Len(s) \in 1 .. 3 /\ Racine \in Suites /\ Racine \in Chemins /\ Len(Racine) = 1
  BY CheminSuite, RacineChemin
<1>1. IsPrefix(Racine, s)
  BY DEF SousRacine
<1>2. Len(s) > 1
  <2>1. Len(Racine) <= Len(s) /\ \A i \in 1 .. Len(Racine) : Racine[i] = s[i]
    BY <1>0, <1>1, Prefixe
  <2>2. Len(s) # 1
    BY <1>0, <2>1, SeqEqual DEF Suites
  <2>3. QED BY <1>0, <2>2
<1>3. CASE Parent(s) = Racine
  BY <1>2, <1>3 DEF Enfants
<1>4. CASE Parent(s) # Racine
  <2>1. Parent(s) \in Chemins /\ fs[Parent(s)] = Dossier /\ IsPrefix(Racine, Parent(s))
    BY <1>0, <1>1, <1>2, CheminSuite, SousParent DEF Forme, EstArbre
  <2>2. Parent(s) \in Suites /\ Len(Parent(s)) = Len(s) - 1
    BY <1>0, <1>2, ParentSuite
  <2>3. Len(Racine) <= Len(Parent(s)) /\ \A i \in 1 .. Len(Racine) : Racine[i] = Parent(s)[i]
    BY <1>0, <2>1, <2>2, Prefixe
  <2>4. Len(Parent(s)) = 2
    <3>1. Len(Parent(s)) # 1
      BY <1>0, <1>4, <2>2, <2>3, SeqEqual DEF Suites
    <3>2. QED BY <1>0, <2>2, <2>3, <3>1
  <2>5. /\ Parent(Parent(s)) \in Suites /\ Len(Parent(Parent(s))) = 1
        /\ \A i \in 1 .. 1 : Parent(Parent(s))[i] = Parent(s)[i]
    <3>1. Len(Parent(s)) > 1
      BY <2>4
    <3>2. /\ Parent(Parent(s)) \in Suites /\ Len(Parent(Parent(s))) = Len(Parent(s)) - 1
          /\ \A i \in 1 .. Len(Parent(s)) - 1 : Parent(Parent(s))[i] = Parent(s)[i]
      BY <3>1, <2>2, ParentSuite
    <3>3. QED BY <3>2, <2>4
  <2>6. Parent(Parent(s)) = Racine
    BY <1>0, <2>3, <2>5, SeqEqual DEF Suites
  <2>7. Parent(s) \in Enfants(fs, Racine)
    <3>1. fs[Parent(s)] # Rien /\ Len(Parent(s)) > 1
      BY <2>1, <2>4, Genres
    <3>2. QED BY <2>1, <2>6, <3>1 DEF Enfants
  <2>8. QED BY <2>7
<1>5. QED BY <1>3, <1>4

\* Under what holds nothing there is nothing.
LEMMA RienDessous ==
  ASSUME Forme(fs), NEW d \in Chemins, fs[d] # Dossier \/ Enfants(fs, d) = {},
         NEW p \in Chemins, IsPrefix(d, p), p # d
  PROVE  fs[p] = Rien
<1>0. d \in Suites /\ \A q \in Chemins : q \in Suites /\ Len(q) \in 1 .. 3
  BY CheminSuite
<1>1. ASSUME NEW q \in Chemins, IsPrefix(d, q), q # d, fs[q] # Rien
      PROVE  /\ Parent(q) # d /\ Len(q) > 1 /\ Parent(q) \in Chemins /\ Len(Parent(q)) = Len(q) - 1
             /\ IsPrefix(d, Parent(q)) /\ fs[Parent(q)] = Dossier
  <2>1. Len(d) <= Len(q) /\ \A i \in 1 .. Len(d) : d[i] = q[i]
    BY <1>0, <1>1, Prefixe
  <2>2. Len(d) # Len(q)
    BY <1>0, <1>1, <2>1, SeqEqual DEF Suites
  <2>3. Len(q) > 1
    <3>1. Len(d) \in 1 .. 3 /\ Len(q) \in 1 .. 3
      BY <1>0
    <3>2. QED BY <2>1, <2>2, <3>1
  <2>4. Parent(q) \in Chemins /\ IsPrefix(d, Parent(q)) /\ fs[Parent(q)] = Dossier
    BY <1>0, <1>1, <2>3, CheminSuite, SousParent DEF Forme, EstArbre
  <2>5. Len(Parent(q)) = Len(q) - 1
    BY <1>0, <2>3, ParentSuite
  <2>6. Parent(q) # d
    BY <1>1, <2>3, <2>4 DEF Enfants
  <2>7. QED BY <2>3, <2>4, <2>5, <2>6
<1>2. ASSUME NEW q \in Chemins, IsPrefix(d, q), q # d, Len(q) = 1 PROVE fs[q] = Rien
  <2> SUFFICES ASSUME fs[q] # Rien PROVE FALSE
    OBVIOUS
  <2>1. Len(q) > 1
    BY <1>1, <1>2
  <2>2. QED BY <1>2, <2>1
<1>3. ASSUME NEW q \in Chemins, IsPrefix(d, q), q # d, Len(q) = 2 PROVE fs[q] = Rien
  <2> SUFFICES ASSUME fs[q] # Rien PROVE FALSE
    OBVIOUS
  <2>1. /\ Parent(q) # d /\ Parent(q) \in Chemins /\ Len(Parent(q)) = Len(q) - 1
        /\ IsPrefix(d, Parent(q)) /\ fs[Parent(q)] = Dossier
    BY <1>1, <1>3
  <2>2. fs[Parent(q)] = Rien
    BY <1>2, <1>3, <2>1
  <2>3. QED BY <2>1, <2>2, Genres
<1>4. ASSUME NEW q \in Chemins, IsPrefix(d, q), q # d, Len(q) = 3 PROVE fs[q] = Rien
  <2> SUFFICES ASSUME fs[q] # Rien PROVE FALSE
    OBVIOUS
  <2>1. /\ Parent(q) # d /\ Parent(q) \in Chemins /\ Len(Parent(q)) = Len(q) - 1
        /\ IsPrefix(d, Parent(q)) /\ fs[Parent(q)] = Dossier
    BY <1>1, <1>4
  <2>2. fs[Parent(q)] = Rien
    BY <1>3, <1>4, <2>1
  <2>3. QED BY <2>1, <2>2, Genres
<1>5. Len(p) \in 1 .. 3
  BY <1>0
<1>6. QED BY <1>2, <1>3, <1>4, <1>5

\* What goes to d comes from s.
LEMMA SourceInverse ==
  ASSUME NEW s \in Suites, NEW d \in Suites, NEW p \in Suites, IsPrefix(s, p)
  PROVE  IsPrefix(d, Source(d, s, p)) /\ Source(s, d, Source(d, s, p)) = p
<1> DEFINE q == Source(d, s, p)
<1>0. Len(s) \in Nat /\ Len(d) \in Nat /\ Len(p) \in Nat
  BY DEF Suites
<1>1. Len(s) <= Len(p) /\ \A i \in 1 .. Len(s) : s[i] = p[i]
  BY Prefixe
<1>2. /\ q \in Suites /\ Len(q) = Len(d) + Len(p) - Len(s)
      /\ \A i \in 1 .. Len(d) : q[i] = d[i]
      /\ \A i \in Len(d) + 1 .. Len(d) + Len(p) - Len(s) : q[i] = p[i - Len(d) + Len(s)]
  BY SourceSuite
<1> HIDE DEF q
<1>3. IsPrefix(d, q)
  BY <1>0, <1>1, <1>2, Prefixe
<1> DEFINE r == Source(s, d, q)
<1>4. /\ r \in Suites /\ Len(r) = Len(s) + Len(q) - Len(d)
      /\ \A i \in 1 .. Len(s) : r[i] = s[i]
      /\ \A i \in Len(s) + 1 .. Len(s) + Len(q) - Len(d) : r[i] = q[i - Len(s) + Len(d)]
  BY ZenonT(60), <1>2, <1>3, SourceSuite
<1> HIDE DEF r
<1>5. Len(r) = Len(p)
  BY <1>0, <1>2, <1>4
<1>6. ASSUME NEW i \in 1 .. Len(r) PROVE r[i] = p[i]
  <2>1. CASE i \in 1 .. Len(s)
    BY <2>1, <1>1, <1>4
  <2>2. CASE i \notin 1 .. Len(s)
    <3>1. /\ i \in Len(s) + 1 .. Len(s) + Len(q) - Len(d)
          /\ i - Len(s) + Len(d) \in Len(d) + 1 .. Len(d) + Len(p) - Len(s)
      BY <1>0, <1>2, <1>5, <2>2
    <3>2. q[i - Len(s) + Len(d)] = p[i - Len(s) + Len(d) - Len(d) + Len(s)]
      BY <3>1, <1>2
    <3>3. i - Len(s) + Len(d) - Len(d) + Len(s) = i
      BY <1>0
    <3>4. QED BY <3>1, <3>2, <3>3, <1>4
  <2>3. QED BY <2>1, <2>2
<1>7. r = p
  BY <1>4, <1>5, <1>6, SeqEqual DEF Suites
<1>8. QED BY <1>3, <1>7 DEF q, r

\* A renaming loses nothing but what is at its destination.
LEMMA DeplaceGarde ==
  ASSUME Forme(fs), NEW s \in Chemins, NEW d \in Chemins, Tient(s, d),
         fs[d] # Dossier \/ Enfants(fs, d) = {}, NEW p \in Chemins, fs[p] # Rien, p # d
  PROVE  \E q \in Chemins : Deplace(s, d)[q] = fs[p]
<1>0. s \in Suites /\ d \in Suites /\ p \in Suites
  BY CheminSuite
<1>1. CASE IsPrefix(s, p)
  <2>1. Source(d, s, p) \in Chemins
    BY <1>1 DEF Tient
  <2>2. IsPrefix(d, Source(d, s, p)) /\ Source(s, d, Source(d, s, p)) = p
    BY <1>0, <1>1, SourceInverse
  <2>3. Deplace(s, d)[Source(d, s, p)] = fs[p]
    BY <2>1, <2>2, DeplaceValeurs
  <2>4. QED BY <2>1, <2>3
<1>2. CASE ~IsPrefix(s, p)
  <2>1. ~IsPrefix(d, p)
    BY RienDessous
  <2>2. QED BY <1>2, <2>1, DeplaceValeurs
<1>3. QED BY <1>1, <1>2

\* resoudre gives a path of the shared folder, in a folder that is there.
LEMMA ResoudreEffet ==
  ASSUME Forme(fs), NEW p \in Distants, Resoudre(p) # <<>>
  PROVE  /\ Resoudre(p) \in Chemins /\ SousRacine(Resoudre(p))
         /\ Resoudre(p) # Racine => Len(Resoudre(p)) > 1
         /\ Len(Resoudre(p)) > 1 => fs[Parent(Resoudre(p))] = Dossier
<1>0. p \in Chemins /\ p \in Suites
  BY CheminSuite DEF Distants
<1>1. CASE p = Racine
  <2>1. Resoudre(p) = Racine
    BY <1>1 DEF Resoudre
  <2>2. SousRacine(Racine)
    BY RacineChemin, PrefixeDeSoi DEF SousRacine
  <2>3. QED BY <2>1, <2>2, RacineChemin
<1>2. CASE p # Racine
  <2> DEFINE a == Canonique(Parent(p))
             c == a \o <<Last(p)>>
  <2>1. a # <<>> /\ SousRacine(a) /\ c \in Chemins /\ Resoudre(p) = c
    BY <1>2 DEF Resoudre
  <2>2. a \in Chemins /\ fs[a] = Dossier
    BY <2>1 DEF Canonique, EstDossier
  <2> HIDE DEF a
  <2>3. a \in Suites /\ Len(a) \in 1 .. 3 /\ c \in Suites /\ Len(c) \in 1 .. 3
    BY <2>1, <2>2, CheminSuite
  <2>4. Len(c) = Len(a) + 1 /\ \A k \in 1 .. Len(a) : c[k] = a[k]
    BY <2>3 DEF Suites
  <2> HIDE DEF c
  <2>5. Parent(c) = a
    <3>1. Len(c) > 1
      BY <2>3, <2>4
    <3>2. /\ Parent(c) \in Suites /\ Len(Parent(c)) = Len(c) - 1
          /\ \A k \in 1 .. Len(c) - 1 : Parent(c)[k] = c[k]
      BY <2>3, <3>1, ParentSuite
    <3>3. Len(Parent(c)) = Len(a) /\ \A k \in 1 .. Len(a) : Parent(c)[k] = a[k]
      BY <2>3, <2>4, <3>2
    <3>4. QED BY <2>3, <3>2, <3>3, SeqEqual DEF Suites
  <2>6. SousRacine(c)
    <3>1. IsPrefix(a, c)
      BY <2>3, <2>4, Prefixe
    <3>2. QED BY <2>1, <2>3, <3>1, RacineChemin, PrefixeTransitif DEF SousRacine
  <2>7. QED BY <2>1, <2>2, <2>3, <2>4, <2>5, <2>6
<1>3. QED BY <1>1, <1>2

-----------------------------------------------------------------------------
(* The inductive invariant.                                                *)

Entrees == Noms \cup {".", ".."}

DisqueTenu == Forme(fs) /\ plein \in [Inodes -> BOOLEAN]

\* Every handle is in the folder, and none marks the folder itself.
PoigneesTenues ==
  /\ DOMAIN ouverts \subseteq 1 .. ID_MAX
  /\ \A h \in DOMAIN ouverts : /\ ouverts[h] \in Poignees /\ SousRacine(ouverts[h].chemin)
                               /\ ouverts[h].supprimer => ouverts[h].chemin # Racine
  /\ prochain \in 0 .. ID_MAX
  /\ Cardinality(DOMAIN ouverts) <= OUVERTS_MAX

\* A listing under way has given as many entries of its snapshot as its place says; one that
\* is over, or was never asked for, has given all of them.
ListeTenue(o, f, v) ==
  /\ f \in Seq(Entrees) /\ v \in Seq(Entrees)
  /\ o.entrees = <<>> => v = f
  /\ o.entrees # <<>> => o.entrees = f /\ o.position \in 1 .. Len(f) /\ v = SubSeq(f, 1, o.position)
ListesTenues ==
  /\ DOMAIN photo = DOMAIN ouverts /\ DOMAIN vues = DOMAIN ouverts
  /\ \A h \in DOMAIN ouverts : ListeTenue(ouverts[h], photo[h], vues[h])

ComptesTenus ==
  /\ envoyees \in 0 .. REQUETES_MAX /\ demandes \in 0 .. DEMANDES_MAX /\ attendues \in 0 .. DEMANDES_MAX
  /\ reponse \in Reponses /\ enVol \in 0 .. REPONSES_EN_VOL /\ session \in BOOLEAN
  /\ gestes \in 0 .. GESTES_MAX
  /\ ReponseTenue

\* A renaming that is under way: its handle is there, not on the root, its destination is
\* in a folder of the tree, and nothing was seen there unless it asks to replace.
RenommageTenu ==
  renommage # Aucun =>
    /\ renommage.h \in DOMAIN ouverts /\ ouverts[renommage.h].chemin # Racine
    /\ renommage.vers \in Chemins /\ SousRacine(renommage.vers)
    /\ Len(renommage.vers) > 1 => fs[Parent(renommage.vers)] = Dossier
    /\ ~renommage.remplacer => renommage.vu = Rien
    /\ demandes > 0 /\ reponse = "aucune"

IInv == DisqueTenu /\ PoigneesTenues /\ ListesTenues /\ ComptesTenus /\ RenommageTenu

LEMMA IInvSuffit == IInv => TypeOK /\ DossierTenu
<1> SUFFICES ASSUME IInv PROVE TypeOK /\ DossierTenu
  OBVIOUS
<1>1. TypeOK
  BY DEF IInv, DisqueTenu, Forme, PoigneesTenues, ListesTenues, ComptesTenus, RenommageTenu, TypeOK
<1>2. RacineTenue
  BY RacineChemin DEF IInv, DisqueTenu, Forme, PoigneesTenues, RacineTenue, EstDossier
<1>3. ASSUME NEW h \in DOMAIN ouverts
      PROVE  IsPrefix(vues[h], photo[h]) /\ (ouverts[h].entrees = <<>> => vues[h] = photo[h])
  <2>1. ListeTenue(ouverts[h], photo[h], vues[h])
    BY DEF IInv, ListesTenues
  <2> DEFINE f == photo[h]
             v == vues[h]
             o == ouverts[h]
  <2>2. ListeTenue(o, f, v)
    BY <2>1
  <2> HIDE DEF f, v, o
  <2>3. CASE o.entrees = <<>>
    <3>1. v = f /\ f \in Seq(Entrees)
      BY <2>2, <2>3 DEF ListeTenue
    <3>2. QED BY <3>1 DEF IsPrefix, v, f, o
  <2>4. CASE o.entrees # <<>>
    <3>1. f \in Seq(Entrees) /\ o.position \in 1 .. Len(f) /\ v = SubSeq(f, 1, o.position)
      BY <2>2, <2>4 DEF ListeTenue
    <3>2. /\ Len(v) = o.position /\ Len(v) <= Len(f) /\ SubSeq(f, 1, Len(v)) = v /\ v \in Seq(Entrees)
      BY <3>1
    <3>3. IsPrefix(v, f)
      BY <3>2 DEF IsPrefix
    <3>4. QED BY <2>4, <3>3 DEF v, f, o
  <2>5. QED BY <2>3, <2>4
<1>4. EnumerationFidele
  BY <1>3 DEF EnumerationFidele
<1>5. QED BY <1>1, <1>2, <1>4 DEF IInv, DisqueTenu, Forme, ComptesTenus, DossierTenu

LEMMA Initial == Init => IInv
<1> SUFFICES ASSUME Init PROVE IInv
  OBVIOUS
<1>1. Forme(fs)
  BY DisqueAssumption DEF Init, Forme
<1>2. plein \in [Inodes -> BOOLEAN]
  BY DEF Init
<1>3. DOMAIN ouverts = {} /\ DOMAIN photo = {} /\ DOMAIN vues = {}
  BY DEF Init
<1>4. PoigneesTenues
  BY <1>3, FS_EmptySet, DisqueAssumption DEF Init, PoigneesTenues
<1>5. ListesTenues
  BY <1>3 DEF ListesTenues
<1>6. ComptesTenus
  BY DisqueAssumption DEF Init, ComptesTenus, ReponseTenue, Reponses
<1>7. RenommageTenu
  BY DEF Init, RenommageTenu
<1>8. QED BY <1>1, <1>2, <1>4, <1>5, <1>6, <1>7 DEF IInv, DisqueTenu

-----------------------------------------------------------------------------
(* Requests and answers.                                                   *)

LEMMA RepondEffet ==
  ASSUME ComptesTenus, NEW r \in Reponses \ {"aucune"}, Repond(r)
  PROVE  ComptesTenus' /\ RenommageTenu'
<1>1. /\ demandes > 0 /\ reponse = "aucune" /\ demandes' = demandes - 1 /\ reponse' = r
      /\ r \in Reponses /\ r # "aucune"
      /\ UNCHANGED <<envoyees, enVol, attendues, session, gestes>>
  BY DEF Repond, file
<1>2. ComptesTenus'
  BY <1>1, DisqueAssumption DEF ComptesTenus, ReponseTenue
<1>3. RenommageTenu'
  BY DEF Repond, RenommageTenu, Aucun
<1>4. QED BY <1>2, <1>3

LEMMA FileEffet ==
  ASSUME ComptesTenus, Demander \/ Deposer \/ Ecrire \/ FinSession
  PROVE  ComptesTenus'
<1> USE DisqueAssumption DEF ComptesTenus, ReponseTenue, Reponses
<1>1. CASE Demander BY <1>1 DEF Demander
<1>2. CASE Deposer BY <1>2 DEF Deposer
<1>3. CASE Ecrire BY <1>3 DEF Ecrire
<1>4. CASE FinSession 
  <2>1. /\ session' = FALSE /\ demandes' = 0 /\ reponse' = "aucune" /\ enVol' = 0 /\ attendues' = 0
        /\ UNCHANGED <<envoyees, gestes>>
    BY <1>4 DEF FinSession
  <2>2. session' \in BOOLEAN
    BY <2>1
  <2>3. ReponseTenue' /\ reponse' \in Reponses
    BY <2>1
  <2>4. envoyees' \in 0 .. REQUETES_MAX /\ gestes' \in 0 .. GESTES_MAX
    BY <2>1
  <2>5. 0 \in 0 .. DEMANDES_MAX /\ 0 \in 0 .. REPONSES_EN_VOL
    OBVIOUS
  <2>6. demandes' \in 0 .. DEMANDES_MAX /\ attendues' \in 0 .. DEMANDES_MAX /\ enVol' \in 0 .. REPONSES_EN_VOL
    BY <2>1, <2>5
  <2>7. QED BY <2>2, <2>3, <2>4, <2>6
<1>5. QED BY <1>1, <1>2, <1>3, <1>4

LEMMA FileRenommage ==
  ASSUME ComptesTenus, RenommageTenu, Demander \/ Deposer \/ Ecrire \/ FinSession
  PROVE  RenommageTenu'
<1>1. CASE Demander
  <2>1. demandes' > 0 /\ UNCHANGED <<fs, ouverts, renommage, reponse>>
    BY <1>1 DEF Demander, disque, lecteur, ComptesTenus
  <2>2. QED BY <2>1 DEF RenommageTenu, Aucun, SousRacine
<1>2. CASE Deposer
  BY <1>2 DEF Deposer, RenommageTenu, Aucun
<1>3. CASE Ecrire
  <2>1. UNCHANGED <<fs, ouverts, renommage, reponse, demandes>>
    BY <1>3 DEF Ecrire, disque, lecteur
  <2>2. QED BY <2>1 DEF RenommageTenu, Aucun, SousRacine
<1>4. CASE FinSession
  BY <1>4 DEF FinSession, RenommageTenu, Aucun
<1>5. QED BY <1>1, <1>2, <1>3, <1>4

-----------------------------------------------------------------------------
(* The handles.                                                            *)

\* A non-empty set of naturals has a least element.
LEMMA PlusPetit ==
  ASSUME NEW T, T \subseteq Nat, T # {}
  PROVE  \E m \in T : \A n \in T : m <= n
<1> DEFINE R == {ss \in Nat \X Nat : ss[1] < ss[2]}
<1>1. IsWellFoundedOn(R, Nat)
  BY NatLessThanWellFounded DEF OpToRel
<1>2. \A m \in Nat, n \in Nat : <<n, m>> \in R <=> n < m
  OBVIOUS
<1> HIDE DEF R
<1>3. PICK m \in T : \A n \in T : ~(<<n, m>> \in R)
  BY <1>1, WFMin
<1>4. \A n \in T : ~(n < m)
  BY <1>2, <1>3
<1>5. QED BY <1>3, <1>4

LEMMA PoigneesFinies ==
  ASSUME PoigneesTenues
  PROVE  IsFiniteSet(DOMAIN ouverts) /\ Cardinality(DOMAIN ouverts) \in Nat
<1>1. IsFiniteSet(1 .. ID_MAX)
  BY FS_Interval, DisqueAssumption
<1>2. IsFiniteSet(DOMAIN ouverts)
  BY <1>1, FS_Subset DEF PoigneesTenues
<1>3. QED BY <1>2, FS_CardinalityType

\* There is a free number: there are more of them than handles.
LEMMA NumeroLibre ==
  ASSUME PoigneesTenues
  PROVE  Numero \in NumerosLibres
<1>1. NumerosLibres # {}
  <2>1. Cardinality(1 .. ID_MAX) = ID_MAX
    BY FS_Interval, DisqueAssumption
  <2>2. DOMAIN ouverts # 1 .. ID_MAX
    BY <2>1, PoigneesFinies, DisqueAssumption DEF PoigneesTenues
  <2>3. QED BY <2>2 DEF PoigneesTenues, NumerosLibres
<1> DEFINE T == {Pas(n) : n \in NumerosLibres}
<1>2. T \subseteq Nat
  BY DisqueAssumption DEF Pas, NumerosLibres, PoigneesTenues
<1>3. T # {}
  BY <1>1
<1>4. PICK m \in T : \A k \in T : m <= k
  BY <1>2, <1>3, PlusPetit
<1>5. PICK n \in NumerosLibres : m = Pas(n)
  BY <1>4
<1>6. \E j \in NumerosLibres : \A k \in NumerosLibres : Pas(j) <= Pas(k)
  BY <1>4, <1>5
<1>7. QED BY <1>6 DEF Numero

LEMMA EnregistrerEffet ==
  ASSUME PoigneesTenues, ListesTenues, Cardinality(DOMAIN ouverts) < OUVERTS_MAX,
         NEW p \in Chemins, SousRacine(p), NEW i \in Inodes \cup {0},
         NEW rep \in BOOLEAN, NEW ecr \in BOOLEAN, Enregistrer(p, i, rep, ecr)
  PROVE  PoigneesTenues' /\ ListesTenues'
<1>0. PICK n : n = Numero
  OBVIOUS
<1>1. n \in 1 .. ID_MAX /\ n \notin DOMAIN ouverts
  BY <1>0, NumeroLibre DEF NumerosLibres
<1> DEFINE o == [chemin |-> p, i |-> i, repertoire |-> rep, supprimer |-> FALSE,
                 ecriture |-> ecr, entrees |-> <<>>, position |-> 0]
<1>2. /\ ouverts' = [h \in DOMAIN ouverts \cup {n} |-> IF h = n THEN o ELSE ouverts[h]]
      /\ photo' = [h \in DOMAIN photo \cup {n} |-> IF h = n THEN <<>> ELSE photo[h]]
      /\ vues' = [h \in DOMAIN vues \cup {n} |-> IF h = n THEN <<>> ELSE vues[h]]
      /\ prochain' = Suivant(n)
  BY <1>0 DEF Enregistrer
<1>3. o \in Poignees /\ o.entrees = <<>> /\ o.chemin = p /\ o.supprimer = FALSE
  BY DEF Poignees
<1> HIDE DEF o
<1>4. DOMAIN ouverts' = DOMAIN ouverts \cup {n}
  BY <1>2
<1>5. Cardinality(DOMAIN ouverts') <= OUVERTS_MAX
  <2>1. Cardinality(DOMAIN ouverts \cup {n}) = Cardinality(DOMAIN ouverts) + 1
    BY <1>1, PoigneesFinies, FS_AddElement
  <2>2. QED BY <1>4, <2>1, PoigneesFinies, DisqueAssumption
<1>6. prochain' \in 0 .. ID_MAX
  BY <1>1, <1>2, DisqueAssumption DEF Suivant
<1>7. ASSUME NEW h \in DOMAIN ouverts'
      PROVE  /\ ouverts'[h] \in Poignees /\ SousRacine(ouverts'[h].chemin)
             /\ ouverts'[h].supprimer => ouverts'[h].chemin # Racine
  BY <1>2, <1>3, <1>4 DEF PoigneesTenues
<1>8. PoigneesTenues'
  BY <1>1, <1>4, <1>5, <1>6, <1>7 DEF PoigneesTenues, SousRacine
<1>9. DOMAIN photo' = DOMAIN ouverts' /\ DOMAIN vues' = DOMAIN ouverts'
  BY <1>2 DEF ListesTenues
<1>10. ASSUME NEW h \in DOMAIN ouverts' PROVE ListeTenue(ouverts'[h], photo'[h], vues'[h])
  <2>1. CASE h = n
    BY <1>2, <1>3, <1>4, <2>1 DEF ListeTenue, ListesTenues
  <2>2. CASE h # n
    BY <1>2, <1>4, <2>2 DEF ListesTenues
  <2>3. QED BY <2>1, <2>2
<1>11. ListesTenues'
  BY <1>9, <1>10 DEF ListesTenues, ListeTenue
<1>12. QED BY <1>8, <1>11

\* Handles that are let go.
LEMMA LacheEffet ==
  ASSUME PoigneesTenues, ListesTenues, NEW S, S \subseteq DOMAIN ouverts,
         ouverts' = [k \in S |-> ouverts[k]], photo' = [k \in S |-> photo[k]],
         vues' = [k \in S |-> vues[k]], UNCHANGED prochain
  PROVE  PoigneesTenues' /\ ListesTenues'
<1>1. DOMAIN ouverts' = S /\ DOMAIN photo' = S /\ DOMAIN vues' = S
  OBVIOUS
<1>2. Cardinality(S) <= OUVERTS_MAX
  <2>1. Cardinality(S) <= Cardinality(DOMAIN ouverts) /\ Cardinality(S) \in Nat
    BY PoigneesFinies, FS_Subset, FS_CardinalityType
  <2>2. QED BY <2>1, PoigneesFinies, DisqueAssumption DEF PoigneesTenues
<1>3. PoigneesTenues'
  BY <1>1, <1>2 DEF PoigneesTenues, SousRacine
<1>4. ASSUME NEW h \in S PROVE ListeTenue(ouverts'[h], photo'[h], vues'[h])
  BY <1>4 DEF ListesTenues
<1>5. ListesTenues'
  BY <1>1, <1>4 DEF ListesTenues, ListeTenue
<1>6. QED BY <1>3, <1>5

\* A handle that keeps its listing.
LEMMA RetoucheEffet ==
  ASSUME PoigneesTenues, ListesTenues, NEW h \in DOMAIN ouverts, NEW c \in Chemins, NEW b \in BOOLEAN,
         SousRacine(c), b => c # Racine,
         ouverts' = [ouverts EXCEPT ![h].chemin = c, ![h].supprimer = b], UNCHANGED <<prochain, histoire>>
  PROVE  PoigneesTenues' /\ ListesTenues'
<1>0. PICK o : o = ouverts[h]
  OBVIOUS
<1>1. o \in Poignees
  BY <1>0 DEF PoigneesTenues
<1>2. PICK w : w = [o EXCEPT !.chemin = c, !.supprimer = b]
  OBVIOUS
<1>3. w \in Poignees /\ w.chemin = c /\ w.supprimer = b /\ w.entrees = o.entrees /\ w.position = o.position
  BY <1>1, <1>2 DEF Poignees
<1>4. DOMAIN ouverts' = DOMAIN ouverts /\ ouverts'[h] = w /\ \A k \in DOMAIN ouverts : k # h => ouverts'[k] = ouverts[k]
  BY <1>0, <1>2
<1>5. PoigneesTenues'
  BY <1>3, <1>4 DEF PoigneesTenues, SousRacine
<1>6. ASSUME NEW k \in DOMAIN ouverts PROVE ListeTenue(ouverts'[k], photo'[k], vues'[k])
  <2>1. ListeTenue(ouverts[k], photo[k], vues[k]) /\ photo' = photo /\ vues' = vues
    BY DEF ListesTenues, histoire
  <2>2. QED BY <1>0, <1>3, <1>4, <2>1 DEF ListeTenue
<1>7. ListesTenues'
  BY <1>4, <1>6 DEF ListesTenues, ListeTenue, histoire
<1>8. QED BY <1>5, <1>7

\* The entries a listing may give.
LEMMA ListeType ==
  ASSUME NEW p, NEW motif \in Noms \cup {"*"}
  PROVE  Liste(p, motif) \in Seq(Entrees)
<1> DEFINE noms == {n \in Noms : /\ motif = "*" \/ motif = n
                                 /\ \E q \in Enfants(fs, p) : Last(q) = n /\ fs[q].t \in {"fichier", "dossier"}}
<1>1. noms \subseteq Noms /\ IsFiniteSet(noms)
  BY FS_Subset, DisqueAssumption
<1>2. Cardinality(noms) \in Nat /\ ExistsBijection(1 .. Cardinality(noms), noms)
  BY <1>1, FS_CardinalityType
<1>3. \E f \in [1 .. Cardinality(noms) -> noms] : IsInjective(f)
  BY <1>2 DEF ExistsBijection, Bijection, Injection
<1>4. SetToSeq(noms) \in [1 .. Cardinality(noms) -> noms]
  BY <1>3 DEF SetToSeq
<1>5. Liste(p, motif) = (IF motif = "*" THEN <<".", "..">> ELSE <<>>) \o SetToSeq(noms)
  BY DEF Liste
<1> HIDE DEF noms
<1>6. SetToSeq(noms) \in Seq(Entrees)
  BY <1>1, <1>2, <1>4, IsASeq DEF Entrees
<1>7. <<".", "..">> \in Seq(Entrees) /\ <<>> \in Seq(Entrees)
  BY DEF Entrees
<1>8. QED BY <1>5, <1>6, <1>7, ConcatProperties

\* entree_suivante: what one request makes of a listing.
LEMMA ListeSuit ==
  ASSUME NEW o, NEW f, NEW v, ListeTenue(o, f, v), NEW initial \in BOOLEAN,
         o.entrees \in Seq(Entrees), o.position \in Nat,
         NEW liste \in Seq(Entrees), liste = IF initial THEN liste ELSE o.entrees,
         initial => liste # <<>>,
         NEW pos, pos = IF initial THEN 0 ELSE o.position,
         NEW w, w.entrees = IF pos < Len(liste) THEN liste ELSE <<>>,
         w.position = IF pos < Len(liste) THEN pos + 1 ELSE pos
  PROVE  ListeTenue(w, IF initial THEN liste ELSE f,
                    (IF initial THEN <<>> ELSE v) \o (IF pos < Len(liste) THEN <<liste[pos + 1]>> ELSE <<>>))
<1> DEFINE g == IF initial THEN liste ELSE f
           debut == IF initial THEN <<>> ELSE v
           suite == IF pos < Len(liste) THEN <<liste[pos + 1]>> ELSE <<>>
<1>1. g \in Seq(Entrees) /\ debut \in Seq(Entrees) /\ pos \in Nat
  BY DEF ListeTenue
<1>2. pos < Len(liste) => liste[pos + 1] \in Entrees
  BY <1>1
<1>3. suite \in Seq(Entrees)
  BY <1>2
<1>4. debut \o suite \in Seq(Entrees)
  BY <1>1, <1>3
<1>5. CASE liste = <<>>
  <2>1. ~initial /\ o.entrees = <<>> /\ v = f /\ ~(pos < Len(liste))
    BY <1>1, <1>5 DEF ListeTenue
  <2>2. w.entrees = <<>> /\ g = f /\ debut \o suite = v
    BY <1>1, <2>1, ConcatEmptySeq
  <2>3. QED BY <1>1, <1>4, <2>1, <2>2 DEF ListeTenue
<1>6. CASE liste # <<>>
  <2>1. g = liste /\ Len(liste) \in Nat /\ Len(liste) > 0 /\ pos <= Len(liste)
    BY <1>1, <1>6 DEF ListeTenue
  <2>2. debut = SubSeq(liste, 1, pos)
    BY <1>1, <1>6, <2>1, SubSeqEmpty DEF ListeTenue
  <2>3. CASE pos < Len(liste)
    <3>1. debut \o suite = SubSeq(liste, 1, pos + 1)
      BY <1>1, <2>1, <2>2, <2>3
    <3>2. w.entrees = liste /\ w.position = pos + 1 /\ pos + 1 \in 1 .. Len(liste)
      BY <1>1, <2>1, <2>3
    <3>3. QED BY <1>1, <1>4, <1>6, <2>1, <3>1, <3>2 DEF ListeTenue
  <2>4. CASE ~(pos < Len(liste))
    <3>1. pos = Len(liste) /\ suite = <<>> /\ debut = liste
      BY <1>1, <2>1, <2>2, <2>4, SubSeqFull
    <3>2. debut \o suite = liste
      BY <3>1, ConcatEmptySeq
    <3>3. w.entrees = <<>>
      BY <2>4
    <3>4. QED BY <1>1, <1>4, <2>1, <3>2, <3>3 DEF ListeTenue
  <2>5. QED BY <2>3, <2>4
<1>7. QED BY <1>5, <1>6

LEMMA EnumererEffet ==
  ASSUME PoigneesTenues, ListesTenues, NEW h \in DOMAIN ouverts, NEW initial \in BOOLEAN,
         NEW motif \in Noms \cup {"*"}, Enumerer(h, initial, motif), ~Refuse
  PROVE  PoigneesTenues' /\ ListesTenues'
<1>0. PICK o, f, v : o = ouverts[h] /\ f = photo[h] /\ v = vues[h]
  OBVIOUS
<1>1. PICK liste : liste = IF initial THEN Liste(o.chemin, motif) ELSE o.entrees
  OBVIOUS
<1>2. PICK pos : pos = IF initial THEN 0 ELSE o.position
  OBVIOUS
<1>3. /\ initial => liste # <<>>
      /\ ouverts' = [ouverts EXCEPT ![h].entrees = IF pos < Len(liste) THEN liste ELSE <<>>,
                                    ![h].position = IF pos < Len(liste) THEN pos + 1 ELSE pos]
      /\ photo' = [photo EXCEPT ![h] = IF initial THEN liste ELSE @]
      /\ vues' = [vues EXCEPT ![h] = (IF initial THEN <<>> ELSE @)
                                     \o (IF pos < Len(liste) THEN <<liste[pos + 1]>> ELSE <<>>)]
      /\ prochain' = prochain
  BY <1>0, <1>1, <1>2 DEF Enumerer
<1>4. o \in Poignees /\ ListeTenue(o, f, v)
  BY <1>0 DEF PoigneesTenues, ListesTenues
<1>5. o.entrees \in Seq(Entrees) /\ o.position \in Nat
  BY <1>4 DEF Poignees, Entrees
<1>6. liste \in Seq(Entrees)
  BY <1>1, <1>5, ListeType
<1>7. pos \in Nat
  BY <1>2, <1>5
<1>8. PICK w : w = [o EXCEPT !.entrees = IF pos < Len(liste) THEN liste ELSE <<>>,
                             !.position = IF pos < Len(liste) THEN pos + 1 ELSE pos]
  OBVIOUS
<1>9. /\ w.entrees = IF pos < Len(liste) THEN liste ELSE <<>>
      /\ w.position = IF pos < Len(liste) THEN pos + 1 ELSE pos
      /\ w.chemin = o.chemin /\ w.supprimer = o.supprimer
  BY <1>4, <1>8 DEF Poignees
<1>10. w \in Poignees
  <2>1. /\ (IF pos < Len(liste) THEN liste ELSE <<>>) \in Seq(Noms \cup {".", ".."})
        /\ (IF pos < Len(liste) THEN pos + 1 ELSE pos) \in Nat
    BY <1>6, <1>7 DEF Entrees
  <2>2. QED BY <1>4, <1>8, <2>1 DEF Poignees
<1>11. PICK ff, vv : /\ ff = IF initial THEN liste ELSE f
                     /\ vv = (IF initial THEN <<>> ELSE v)
                             \o (IF pos < Len(liste) THEN <<liste[pos + 1]>> ELSE <<>>)
  OBVIOUS
<1>12. ListeTenue(w, ff, vv)
  BY ZenonT(60), <1>1, <1>2, <1>3, <1>4, <1>5, <1>6, <1>9, <1>11, ListeSuit
<1>13. /\ DOMAIN ouverts' = DOMAIN ouverts /\ ouverts'[h] = w
       /\ \A k \in DOMAIN ouverts : k # h => ouverts'[k] = ouverts[k]
  BY <1>0, <1>3, <1>8
<1>14. /\ DOMAIN photo' = DOMAIN ouverts /\ photo'[h] = ff
       /\ DOMAIN vues' = DOMAIN ouverts /\ vues'[h] = vv
       /\ \A k \in DOMAIN ouverts : k # h => photo'[k] = photo[k] /\ vues'[k] = vues[k]
  BY <1>0, <1>3, <1>11 DEF ListesTenues
<1>15. PoigneesTenues'
  BY <1>0, <1>3, <1>9, <1>10, <1>13 DEF PoigneesTenues, SousRacine
<1>16. ASSUME NEW k \in DOMAIN ouverts PROVE ListeTenue(ouverts'[k], photo'[k], vues'[k])
  BY <1>12, <1>13, <1>14 DEF ListesTenues
<1>17. ListesTenues'
  BY <1>13, <1>14, <1>16 DEF ListesTenues, ListeTenue
<1>18. QED BY <1>15, <1>17

-----------------------------------------------------------------------------
(* Every step of a request.                                                *)

\* A refusal of its own changes nothing but what is owed.
LEMMA RefuseEffet ==
  ASSUME IInv, Refuse
  PROVE  IInv'
<1>1. ComptesTenus' /\ RenommageTenu'
  BY RepondEffet DEF Refuse, IInv, Reponses
<1>2. UNCHANGED <<fs, plein, ouverts, prochain, photo, vues>>
  BY DEF Refuse, disque, lecteur, histoire
<1>3. QED
  BY <1>1, <1>2 DEF IInv, DisqueTenu, Forme, EstArbre, PoigneesTenues, ListesTenues, ListeTenue, SousRacine

LEMMA SansEffet ==
  ASSUME IInv, UNCHANGED <<fs, ouverts, prochain, photo, vues>>, plein' \in [Inodes -> BOOLEAN],
         ComptesTenus', RenommageTenu'
  PROVE  IInv'
BY DEF IInv, DisqueTenu, Forme, EstArbre, PoigneesTenues, ListesTenues, ListeTenue, SousRacine

\* What an answer leaves to show: the disk and the handles.
LEMMA RenduEffet ==
  ASSUME IInv, NEW r \in Reponses \ {"aucune"}, Repond(r), NEW t, fs' = t, Forme(t),
         plein' \in [Inodes -> BOOLEAN], PoigneesTenues', ListesTenues'
  PROVE  IInv'
<1>1. ComptesTenus' /\ RenommageTenu'
  BY RepondEffet DEF IInv
<1>2. DisqueTenu'
  BY DEF DisqueTenu, Forme, EstArbre
<1>3. QED BY <1>1, <1>2 DEF IInv

LEMMA OuvrirEffet ==
  ASSUME IInv, NEW distant \in Distants, NEW dossier \in BOOLEAN, NEW d, Ouvrir(distant, dossier, d)
  PROVE  IInv'
<1>0. PICK p : p = Resoudre(distant)
  OBVIOUS
<1>1. CASE Refuse BY <1>1, RefuseEffet
<1>2. CASE ~Refuse
  <2>1. p # <<>> /\ ~(Cardinality(DOMAIN ouverts) >= OUVERTS_MAX)
    BY <1>0, <1>2 DEF Ouvrir
  <2>2. Cardinality(DOMAIN ouverts) < OUVERTS_MAX
    BY <2>1, PoigneesFinies, DisqueAssumption DEF IInv
  <2>3. p \in Chemins /\ SousRacine(p) /\ (Len(p) > 1 => fs[Parent(p)] = Dossier)
    BY <1>0, <2>1, ResoudreEffet DEF IInv, DisqueTenu
  <2>4. ASSUME NEW i \in Inodes \cup {0}, NEW rep \in BOOLEAN, NEW ecr \in BOOLEAN, Enregistrer(p, i, rep, ecr)
        PROVE  PoigneesTenues' /\ ListesTenues'
    BY <2>2, <2>3, <2>4, EnregistrerEffet DEF IInv
  <2>5. ASSUME NEW v \in Noeuds, ~Existe(p) PROVE Forme([fs EXCEPT ![p] = v])
    BY <2>3, <2>5, AjoutForme DEF Existe, IInv, DisqueTenu
  <2>6. CASE OuvrirDossier(p, d)
    <3>1. CASE EstDossier(p) /\ Repond("succes") /\ Enregistrer(p, 0, TRUE, FALSE) /\ UNCHANGED disque
      BY <3>1, <2>4, RenduEffet DEF IInv, DisqueTenu, disque, Reponses
    <3>2. CASE /\ ~Existe(p) /\ Repond("succes") /\ Enregistrer(p, 0, TRUE, FALSE)
               /\ fs' = [fs EXCEPT ![p] = Dossier] /\ UNCHANGED plein
      <4>1. PICK t : t = [fs EXCEPT ![p] = Dossier]
        OBVIOUS
      <4>2. Forme(t) /\ fs' = t
        BY <3>2, <4>1, <2>5, Genres
      <4>3. QED BY <3>2, <4>2, <2>4, RenduEffet DEF IInv, DisqueTenu, Reponses
    <3>3. QED BY <1>2, <2>6, <3>1, <3>2 DEF OuvrirDossier
  <2>7. CASE OuvrirFichier(p, d)
    <3>1. ASSUME EstFichier(p), NEW ecr \in BOOLEAN, NEW b \in BOOLEAN, Repond("succes"),
                 Enregistrer(p, fs[p].i, FALSE, ecr), UNCHANGED fs, plein' = [plein EXCEPT ![fs[p].i] = @ /\ b]
          PROVE  IInv'
      <4>1. fs[p].i \in Inodes
        BY <2>3, <3>1 DEF IInv, DisqueTenu, Forme, EstFichier, Noeuds, Rien, Dossier, Fichier
      <4>2. plein' \in [Inodes -> BOOLEAN]
        BY <3>1, <4>1 DEF IInv, DisqueTenu
      <4>3. QED BY ZenonT(60), <3>1, <4>1, <4>2, <2>4, RenduEffet DEF IInv, DisqueTenu, Reponses
    <3>2. ASSUME NEW i \in Libres, ~Existe(p), Repond("succes"), Enregistrer(p, i, FALSE, TRUE),
                 fs' = [fs EXCEPT ![p] = Fichier(i)], plein' = [plein EXCEPT ![i] = FALSE]
          PROVE  IInv'
      <4>1. i \in Inodes
        BY DEF Libres
      <4>2. PICK t : t = [fs EXCEPT ![p] = Fichier(i)]
        OBVIOUS
      <4>3. Forme(t) /\ fs' = t
        BY <3>2, <4>1, <4>2, <2>5, Genres
      <4>4. plein' \in [Inodes -> BOOLEAN]
        BY <3>2, <4>1 DEF IInv, DisqueTenu
      <4>5. QED BY <3>2, <4>1, <4>3, <4>4, <2>4, RenduEffet DEF Reponses
    <3>3. CASE /\ Existe(p) /\ EstFichier(p) /\ d # "CREATE"
               /\ \E acces \in {"lecture", "ecriture", "max"}, inscriptible \in BOOLEAN :
                    LET ecrire == acces = "ecriture" \/ d \in Tronque
                    IN /\ ecrire => inscriptible
                       /\ Repond("succes")
                       /\ Enregistrer(p, fs[p].i, FALSE, inscriptible /\ (ecrire \/ acces = "max"))
                       /\ plein' = [plein EXCEPT ![fs[p].i] = @ /\ d \notin Tronque]
                       /\ UNCHANGED fs
      BY <3>1, <3>3
    <3>4. QED BY <1>2, <2>7, <3>2, <3>3 DEF OuvrirFichier
  <2>8. QED BY <1>0, <1>2, <2>6, <2>7 DEF Ouvrir
<1>3. QED BY <1>1, <1>2

LEMMA FermerEffet ==
  ASSUME IInv, NEW h \in DOMAIN ouverts, Fermer(h)
  PROVE  IInv'
<1>0. PICK o : o = ouverts[h]
  OBVIOUS
<1>1. o.chemin \in Chemins /\ (o.supprimer => o.chemin # Racine)
  BY <1>0 DEF IInv, PoigneesTenues, Poignees
<1>2. PICK part : part = IF o.repertoire THEN EstDossier(o.chemin) /\ Enfants(fs, o.chemin) = {}
                                         ELSE Existe(o.chemin) /\ ~EstDossier(o.chemin)
  OBVIOUS
<1>3. /\ ouverts' = Sauf(ouverts, h) /\ photo' = Sauf(photo, h) /\ vues' = Sauf(vues, h)
      /\ UNCHANGED <<plein, prochain>> /\ Repond(Selon(o.supprimer => part))
      /\ fs' = IF o.supprimer /\ part THEN [fs EXCEPT ![o.chemin] = Rien] ELSE fs
  BY <1>0, <1>2 DEF Fermer
<1>4. PoigneesTenues' /\ ListesTenues'
  <2> DEFINE S == DOMAIN ouverts \ {h}
  <2>1. /\ ouverts' = [k \in S |-> ouverts[k]] /\ photo' = [k \in S |-> photo[k]]
        /\ vues' = [k \in S |-> vues[k]] /\ prochain' = prochain
    BY <1>3 DEF Sauf, IInv, ListesTenues
  <2> HIDE DEF S
  <2>2. S \subseteq DOMAIN ouverts
    BY DEF S
  <2>3. QED BY <2>1, <2>2, LacheEffet DEF IInv
<1>5. PICK t : t = IF o.supprimer /\ part THEN [fs EXCEPT ![o.chemin] = Rien] ELSE fs
  OBVIOUS
<1>6. Forme(t)
  <2>1. CASE o.supprimer /\ part
    <3>1. fs[o.chemin] # Dossier \/ Enfants(fs, o.chemin) = {}
      BY <1>2, <2>1 DEF Existe, EstDossier
    <3>2. Forme([fs EXCEPT ![o.chemin] = Rien])
      BY <1>1, <2>1, <3>1, RetraitForme DEF IInv, DisqueTenu
    <3>3. QED BY <1>5, <2>1, <3>2
  <2>2. CASE ~(o.supprimer /\ part)
    BY <1>5, <2>2 DEF IInv, DisqueTenu
  <2>3. QED BY <2>1, <2>2
<1>7. Selon(o.supprimer => part) \in Reponses \ {"aucune"}
  BY DEF Selon, Reponses
<1>8. plein' \in [Inodes -> BOOLEAN]
  BY <1>3 DEF IInv, DisqueTenu
<1>9. QED BY <1>3, <1>4, <1>5, <1>6, <1>7, <1>8, RenduEffet

LEMMA MarquerEffet ==
  ASSUME IInv, NEW h \in DOMAIN ouverts, NEW b \in BOOLEAN, Marquer(h, b)
  PROVE  IInv'
<1>1. CASE Refuse BY <1>1, RefuseEffet
<1>2. CASE ~Refuse
  <2>0. PICK o : o = ouverts[h]
    OBVIOUS
  <2>1. o \in Poignees /\ o.chemin \in Chemins /\ SousRacine(o.chemin)
    BY <2>0 DEF IInv, PoigneesTenues, Poignees
  <2>2. /\ b => o.chemin # Racine
        /\ Repond("succes") /\ ouverts' = [ouverts EXCEPT ![h].supprimer = b]
        /\ UNCHANGED <<disque, prochain, histoire>>
    BY <1>2, <2>0 DEF Marquer, EstLaRacine
  <2>3. ouverts' = [ouverts EXCEPT ![h].chemin = o.chemin, ![h].supprimer = b]
    BY <2>0, <2>1, <2>2 DEF Poignees
  <2>4. PoigneesTenues' /\ ListesTenues'
    BY <2>1, <2>2, <2>3, RetoucheEffet DEF IInv
  <2>5. QED BY <2>2, <2>4, RenduEffet DEF IInv, DisqueTenu, disque, Reponses
<1>3. QED BY <1>1, <1>2

\* What a renaming that is carried out finds: neither end is the root, and the place is in
\* a folder that is not part of what moves.
LEMMA RenommerVers ==
  ASSUME IInv, renommage # Aucun, NEW s, s = ouverts[renommage.h].chemin,
         NEW d, d = renommage.vers, RenommageAdmis(s, d)
  PROVE  /\ s \in Chemins /\ s # Racine /\ d \in Chemins /\ d # Racine /\ ~IsPrefix(s, d)
         /\ SousRacine(d) /\ (Len(d) > 1 => fs[Parent(d)] = Dossier)
<1>1. s \in Chemins /\ SousRacine(s) /\ s # Racine
  BY DEF IInv, PoigneesTenues, RenommageTenu, Poignees
<1>2. d \in Chemins /\ SousRacine(d) /\ (Len(d) > 1 => fs[Parent(d)] = Dossier)
  BY DEF IInv, RenommageTenu
<1>3. ~IsPrefix(s, d) /\ fs[s] # Rien
  BY DEF RenommageAdmis, Existe
<1>4. d # Racine
  <2>1. Enfants(fs, Racine) # {} /\ EstDossier(Racine) /\ Existe(Racine)
    BY <1>1, <1>3, RacinePleine, RacineChemin, Genres DEF IInv, DisqueTenu, Forme, EstDossier, Existe
  <2>2. QED BY <2>1 DEF RenommageAdmis
<1>5. QED BY <1>1, <1>2, <1>3, <1>4

LEMMA TesterEffet ==
  ASSUME IInv, Libre, NEW h \in DOMAIN ouverts, NEW distant \in Distants, NEW b \in BOOLEAN,
         TesterRenommage(h, distant, b)
  PROVE  IInv'
<1>0. PICK s, d, op : s = ouverts[h].chemin /\ d = Resoudre(distant) /\ op = IF b THEN "remplace" ELSE "succes"
  OBVIOUS
<1>1. op \in Reponses \ {"aucune"}
  BY <1>0 DEF Reponses
<1>2. CASE Refuse BY <1>2, RefuseEffet
<1>3. CASE Repond(op) /\ UNCHANGED <<disque, lecteur, histoire>>
  <2>1. ComptesTenus' /\ RenommageTenu'
    BY <1>1, <1>3, RepondEffet DEF IInv
  <2>2. QED BY <1>3, <2>1, SansEffet DEF IInv, DisqueTenu, disque, lecteur, histoire
<1>4. CASE /\ s # Racine /\ d # <<>> /\ (Existe(d) => b)
           /\ renommage' = Vu(h, d, b)
           /\ UNCHANGED <<disque, lecteur, demandes, reponse, file, gestes, histoire>>
  <2>1. d \in Chemins /\ SousRacine(d) /\ (Len(d) > 1 => fs[Parent(d)] = Dossier)
    BY <1>0, <1>4, ResoudreEffet DEF IInv, DisqueTenu
  <2>2. ~b => fs[d] = Rien
    BY <1>4, <2>1 DEF Existe
  <2>3. UNCHANGED <<fs, plein, ouverts, prochain, photo, vues, demandes, reponse, gestes>>
        /\ UNCHANGED <<envoyees, enVol, attendues, session>>
    BY <1>4 DEF disque, lecteur, file, histoire
  <2>4. /\ renommage'.h = h /\ renommage'.vers = d /\ renommage'.remplacer = b
        /\ renommage'.vu = fs[d]
    BY <1>4 DEF Vu
  <2>5. ComptesTenus'
    BY <2>3 DEF IInv, ComptesTenus, ReponseTenue
  <2>6. RenommageTenu'
    BY <1>0, <1>4, <2>1, <2>2, <2>3, <2>4 DEF RenommageTenu, SousRacine, Libre
  <2>7. QED BY <2>3, <2>5, <2>6, SansEffet DEF IInv, DisqueTenu
<1>5. QED BY <1>0, <1>2, <1>3, <1>4 DEF TesterRenommage, EstLaRacine

LEMMA RenommerEffet ==
  ASSUME IInv, Renommer
  PROVE  IInv'
<1>0. PICK h, s, d, op : /\ h = renommage.h /\ s = ouverts[h].chemin /\ d = renommage.vers
                         /\ op = IF renommage.remplacer THEN "remplace" ELSE "succes"
  OBVIOUS
<1>1. op \in Reponses \ {"aucune"} /\ h \in DOMAIN ouverts /\ renommage # Aucun
  BY <1>0 DEF Reponses, Renommer, IInv, RenommageTenu
<1>2. CASE Refuse BY <1>2, RefuseEffet
<1>3. CASE /\ RenommageAdmis(s, d) /\ Repond(op)
           /\ fs' = Deplace(s, d) /\ ouverts' = [ouverts EXCEPT ![h].chemin = d]
           /\ UNCHANGED <<plein, prochain, histoire>>
  <2>1. /\ s \in Chemins /\ s # Racine /\ d \in Chemins /\ d # Racine /\ ~IsPrefix(s, d)
        /\ SousRacine(d) /\ (Len(d) > 1 => fs[Parent(d)] = Dossier)
    BY <1>0, <1>1, <1>3, RenommerVers
  <2>2. PICK t : t = Deplace(s, d)
    OBVIOUS
  <2>3. Forme(t) /\ fs' = t
    BY <1>3, <2>1, <2>2, DeplaceForme DEF IInv, DisqueTenu
  <2>4. PICK o : o = ouverts[h]
    OBVIOUS
  <2>5. o \in Poignees /\ o.supprimer \in BOOLEAN
    BY <1>1, <2>4 DEF IInv, PoigneesTenues, Poignees
  <2>6. ouverts' = [ouverts EXCEPT ![h].chemin = d, ![h].supprimer = o.supprimer]
    BY <1>1, <1>3, <2>4, <2>5 DEF Poignees
  <2>7. PoigneesTenues' /\ ListesTenues'
    BY <1>1, <1>3, <2>1, <2>5, <2>6, RetoucheEffet DEF IInv
  <2>8. plein' \in [Inodes -> BOOLEAN]
    BY <1>3 DEF IInv, DisqueTenu
  <2>9. QED BY <1>1, <1>3, <2>3, <2>7, <2>8, RenduEffet
<1>4. QED BY <1>0, <1>2, <1>3 DEF Renommer

\* What a request may ask of a handle.
SurPoignee(h) ==
  \/ Fermer(h) \/ Lire(h) \/ EcrireBloc(h) \/ Informer(h) \/ Modifier(h)
  \/ \E a \in BOOLEAN, b \in BOOLEAN : Tailler(h, a, b)
  \/ \E b \in BOOLEAN : Marquer(h, b)
  \/ \E b \in BOOLEAN, m \in Noms \cup {"*"} : Enumerer(h, b, m)
  \/ \E p \in Distants, b \in BOOLEAN : TesterRenommage(h, p, b)

LEMMA SurPoigneeEffet ==
  ASSUME IInv, Libre, NEW h \in DOMAIN ouverts, SurPoignee(h)
  PROVE  IInv'
<1>1. ASSUME NEW r \in {"succes", "refus"}, Repond(r), UNCHANGED <<fs, lecteur, histoire>>,
             plein' \in [Inodes -> BOOLEAN]
      PROVE  IInv'
  <2>1. ComptesTenus' /\ RenommageTenu'
    BY <1>1, RepondEffet DEF IInv, Reponses
  <2>2. QED BY <1>1, <2>1, SansEffet DEF lecteur, histoire
<1>2. plein \in [Inodes -> BOOLEAN]
  BY DEF IInv, DisqueTenu
<1>3. \A k \in BOOLEAN : Selon(k) \in {"succes", "refus"}
  BY DEF Selon
<1>4. CASE Fermer(h) BY <1>4, FermerEffet
<1>5. CASE Lire(h)
  <2>1. ouverts[h].repertoire \in BOOLEAN
    BY DEF IInv, PoigneesTenues, Poignees
  <2>2. Selon(~ouverts[h].repertoire) \in {"succes", "refus"}
    BY <1>3, <2>1
  <2>3. QED BY <1>1, <1>2, <1>5, <2>2 DEF Lire, disque
<1>6. CASE EcrireBloc(h)
  <2>1. CASE Refuse BY <2>1, RefuseEffet
  <2>2. ASSUME NEW r \in {"succes", "refus"}, NEW e \in BOOLEAN, Repond(r),
               plein' = [plein EXCEPT ![ouverts[h].i] = @ \/ e], UNCHANGED <<fs, lecteur, histoire>>
        PROVE  IInv'
    <3>1. plein' \in [Inodes -> BOOLEAN]
      BY <1>2, <2>2
    <3>2. QED BY <1>1, <2>2, <3>1
  <2>3. QED BY <1>6, <2>1, <2>2 DEF EcrireBloc
<1>7. CASE Informer(h)
  <2>1. Selon(Existe(ouverts[h].chemin)) \in {"succes", "refus"}
    BY DEF Selon
  <2>2. QED BY <1>1, <1>2, <1>7, <2>1 DEF Informer, disque
<1>8. CASE Modifier(h) BY <1>1, <1>2, <1>8 DEF Modifier, disque
<1>9. CASE \E a \in BOOLEAN, b \in BOOLEAN : Tailler(h, a, b)
  <2>1. PICK a \in BOOLEAN, b \in BOOLEAN : Tailler(h, a, b)
    BY <1>9
  <2>2. CASE Refuse BY <2>2, RefuseEffet
  <2>3. CASE /\ Repond("succes") /\ plein' = [plein EXCEPT ![ouverts[h].i] = b /\ (a => @)]
             /\ UNCHANGED <<fs, lecteur, histoire>>
    <3>1. plein' \in [Inodes -> BOOLEAN]
      BY <1>2, <2>3
    <3>2. QED BY <1>1, <2>3, <3>1
  <2>4. QED BY <2>1, <2>2, <2>3 DEF Tailler
<1>10. CASE \E b \in BOOLEAN : Marquer(h, b) BY <1>10, MarquerEffet
<1>11. CASE \E b \in BOOLEAN, m \in Noms \cup {"*"} : Enumerer(h, b, m)
  <2>1. PICK b \in BOOLEAN, m \in Noms \cup {"*"} : Enumerer(h, b, m)
    BY <1>11
  <2>2. CASE Refuse BY <2>2, RefuseEffet
  <2>3. CASE ~Refuse
    <3>1. PoigneesTenues' /\ ListesTenues'
      BY <2>1, <2>3, EnumererEffet DEF IInv
    <3>2. PICK r \in {"succes", "refus"} : Repond(r)
      BY <2>1, <2>3 DEF Enumerer, Selon
    <3>3. UNCHANGED disque
      BY <2>1, <2>3 DEF Enumerer
    <3>4. r \in Reponses \ {"aucune"}
      BY <3>2 DEF Reponses
    <3>5. QED BY <1>2, <3>1, <3>2, <3>3, <3>4, RenduEffet DEF IInv, DisqueTenu, disque
  <2>4. QED BY <2>2, <2>3
<1>12. CASE \E p \in Distants, b \in BOOLEAN : TesterRenommage(h, p, b) BY <1>12, TesterEffet
<1>13. QED BY <1>4, <1>5, <1>6, <1>7, <1>8, <1>9, <1>10, <1>11, <1>12 DEF SurPoignee

\* The user of the workstation, in the same folder.
LEMMA LocalEffet ==
  ASSUME IInv, Local
  PROVE  IInv'
<1>1. PICK p \in Chemins :
        /\ Len(p) > 1 /\ SousRacine(p) /\ EstDossier(Parent(p))
        /\ \/ /\ ~Existe(p)
              /\ \E i \in Libres : fs' = [fs EXCEPT ![p] = Fichier(i)] /\ plein' = [plein EXCEPT ![i] = TRUE]
           \/ EstFichier(p) /\ fs' = [fs EXCEPT ![p] = Rien] /\ UNCHANGED plein
  BY DEF Local
<1>2. /\ gestes < GESTES_MAX /\ gestes' = gestes + 1
      /\ UNCHANGED <<ouverts, prochain, demandes, reponse, envoyees, enVol, attendues, session, photo, vues>>
  BY DEF Local, lecteur, file, histoire
<1>3. DisqueTenu'
  <2>1. CASE /\ ~Existe(p)
             /\ \E i \in Libres : fs' = [fs EXCEPT ![p] = Fichier(i)] /\ plein' = [plein EXCEPT ![i] = TRUE]
    <3>1. PICK i \in Libres : fs' = [fs EXCEPT ![p] = Fichier(i)] /\ plein' = [plein EXCEPT ![i] = TRUE]
      BY <2>1
    <3>2. i \in Inodes
      BY DEF Libres
    <3>3. PICK t : t = [fs EXCEPT ![p] = Fichier(i)]
      OBVIOUS
    <3>4. fs[p] = Rien /\ fs[Parent(p)] = Dossier /\ Fichier(i) \in Noeuds
      BY <1>1, <2>1, <3>2, Genres DEF Existe, EstDossier
    <3>5. Forme(t)
      BY <3>3, <3>4, AjoutForme DEF IInv, DisqueTenu
    <3>6. plein' \in [Inodes -> BOOLEAN]
      BY <3>1, <3>2 DEF IInv, DisqueTenu
    <3>7. QED BY <3>1, <3>3, <3>5, <3>6 DEF DisqueTenu, Forme, EstArbre
  <2>2. CASE EstFichier(p) /\ fs' = [fs EXCEPT ![p] = Rien] /\ UNCHANGED plein
    <3>1. PICK t : t = [fs EXCEPT ![p] = Rien]
      OBVIOUS
    <3>2. p # Racine /\ fs[p] # Dossier
      <4>1. fs[p].t = "fichier" /\ Dossier.t = "dossier"
        BY <2>2 DEF EstFichier, Dossier
      <4>2. fs[Racine] = Dossier
        BY DEF IInv, DisqueTenu, Forme
      <4>3. QED BY <4>1, <4>2
    <3>3. Forme(t)
      BY <3>1, <3>2, RetraitForme DEF IInv, DisqueTenu
    <3>4. QED BY <2>2, <3>1, <3>3 DEF IInv, DisqueTenu, Forme, EstArbre
  <2>3. QED BY <1>1, <2>1, <2>2
<1>4. ComptesTenus'
  BY <1>2, DisqueAssumption DEF IInv, ComptesTenus, ReponseTenue
<1>5. PoigneesTenues' /\ ListesTenues'
  BY <1>2 DEF IInv, PoigneesTenues, ListesTenues, ListeTenue, SousRacine
<1>6. RenommageTenu'
  <2>1. ASSUME renommage # Aucun, Len(renommage.vers) > 1
        PROVE  fs'[Parent(renommage.vers)] = Dossier
    <3>1. PICK q : q = Parent(renommage.vers)
      OBVIOUS
    <3>2. q \in Chemins /\ fs[q] = Dossier
      BY <2>1, <3>1, CheminSuite DEF IInv, RenommageTenu
    <3>3. fs \in [Chemins -> Noeuds] /\ Dossier # Rien /\ Dossier.t = "dossier"
      BY Genres DEF IInv, DisqueTenu, Forme, Dossier
    <3>4. PICK v : fs' = [fs EXCEPT ![p] = v]
      BY <1>1
    <3>5. p # q
      BY <1>1, <3>2, <3>3 DEF Existe, EstFichier
    <3>6. QED BY <3>1, <3>2, <3>3, <3>4, <3>5
  <2>2. UNCHANGED renommage
    BY DEF Local
  <2>3. QED BY <1>2, <2>1, <2>2 DEF IInv, RenommageTenu, Aucun, SousRacine
<1>7. QED BY <1>3, <1>4, <1>5, <1>6 DEF IInv

LEMMA Preserve == IInv /\ [Next]_vars => IInv'
<1> SUFFICES ASSUME IInv, [Next]_vars PROVE IInv'
  OBVIOUS
<1>1. CASE Demander \/ Deposer \/ Ecrire
  <2>1. UNCHANGED <<fs, plein, ouverts, prochain, photo, vues>>
    BY <1>1 DEF Demander, Deposer, Ecrire, disque, lecteur, histoire
  <2>2. ComptesTenus' /\ RenommageTenu'
    BY <1>1, FileEffet, FileRenommage DEF IInv
  <2>3. QED BY <2>1, <2>2, SansEffet DEF IInv, DisqueTenu
<1>2. CASE FinSession
  <2>1. ComptesTenus' /\ RenommageTenu'
    BY <1>2, FileEffet, FileRenommage DEF IInv
  <2>2. /\ ouverts' = [k \in {} |-> ouverts[k]] /\ photo' = [k \in {} |-> photo[k]]
        /\ vues' = [k \in {} |-> vues[k]]
    BY <1>2 DEF FinSession
  <2>3. PoigneesTenues' /\ ListesTenues'
    BY <1>2, <2>2, LacheEffet DEF IInv, FinSession
  <2>4. DisqueTenu'
    BY <1>2 DEF FinSession, disque, IInv, DisqueTenu, Forme, EstArbre
  <2>5. QED BY <2>1, <2>3, <2>4 DEF IInv
<1>3. CASE Autre
  <2>1. PICK ok \in BOOLEAN : Repond(Selon(ok)) /\ UNCHANGED <<disque, lecteur, histoire>>
    BY <1>3 DEF Autre
  <2>2. ComptesTenus' /\ RenommageTenu'
    BY <2>1, RepondEffet DEF IInv, Selon, Reponses
  <2>3. QED BY <2>1, <2>2, SansEffet DEF IInv, DisqueTenu, disque, lecteur, histoire
<1>4. CASE Local BY <1>4, LocalEffet
<1>5. CASE \E p \in Distants, dossier \in BOOLEAN,
             d \in {"OPEN", "CREATE", "OPEN_IF", "OVERWRITE", "OVERWRITE_IF", "SUPERSEDE"} : Ouvrir(p, dossier, d)
  BY <1>5, OuvrirEffet
<1>6. CASE Libre /\ \E h \in DOMAIN ouverts : SurPoignee(h)
  BY <1>6, SurPoigneeEffet
<1>9. CASE Renommer BY <1>9, RenommerEffet
<1>7. CASE UNCHANGED vars
  <2>1. UNCHANGED <<fs, plein, ouverts, prochain, photo, vues, demandes, renommage, reponse, gestes>>
        /\ UNCHANGED <<envoyees, enVol, attendues, session>>
    BY <1>7 DEF vars, disque, lecteur, file, histoire
  <2>2. ComptesTenus'
    BY <2>1 DEF IInv, ComptesTenus, ReponseTenue
  <2>4. RenommageTenu'
    BY <2>1 DEF IInv, RenommageTenu, Aucun, SousRacine
  <2>3. QED BY <2>1, <2>2, <2>4, SansEffet DEF IInv, DisqueTenu
<1>8. QED BY <1>1, <1>2, <1>3, <1>4, <1>5, <1>6, <1>7, <1>9 DEF Next, SurPoignee

LEMMA Toujours == Spec => []IInv
BY Initial, Preserve, PTL DEF Spec

-----------------------------------------------------------------------------
(* What a step that gives an answer leaves of the folder.                  *)

\* A block that could be written, wholly or not.
PartieEcrite(h) ==
  LET o == ouverts[h] IN
  /\ ~o.repertoire /\ o.ecriture /\ fs' = fs
  /\ \E e \in BOOLEAN : plein' = [plein EXCEPT ![o.i] = @ \/ e]

LEMMA RefusPas ==
  ASSUME [Next]_vars, Traite, reponse' = "refus"
  PROVE  UNCHANGED disque \/ \E h \in DOMAIN ouverts : PartieEcrite(h)
<1>1. \A r : Repond(r) => r = "refus"
  BY DEF Repond
<1>2. CASE Demander \/ Deposer \/ Ecrire \/ FinSession \/ Local \/ UNCHANGED vars
  BY <1>2 DEF Traite, Demander, Deposer, Ecrire, FinSession, Local, vars
<1>3. CASE Autre BY <1>3 DEF Autre
<1>4. CASE \E p \in Distants, dossier \in BOOLEAN,
             d \in {"OPEN", "CREATE", "OPEN_IF", "OVERWRITE", "OVERWRITE_IF", "SUPERSEDE"} : Ouvrir(p, dossier, d)
  <2>1. ~Repond("succes")
    BY <1>1
  <2>2. PICK p \in Distants, dossier \in BOOLEAN,
             d \in {"OPEN", "CREATE", "OPEN_IF", "OVERWRITE", "OVERWRITE_IF", "SUPERSEDE"} : Ouvrir(p, dossier, d)
    BY <1>4
  <2>3. Refuse
    BY <2>1, <2>2 DEF Ouvrir, OuvrirDossier, OuvrirFichier
  <2>4. QED BY <2>3 DEF Refuse
<1>5. ASSUME NEW h \in DOMAIN ouverts, SurPoignee(h) PROVE UNCHANGED disque \/ PartieEcrite(h)
  <2>1. ~Repond("succes") /\ ~Repond("remplace")
    BY <1>1
  <2>2. CASE Fermer(h)
    <3>1. PICK o, part : /\ Repond(Selon(o.supprimer => part)) /\ plein' = plein
                         /\ fs' = IF o.supprimer /\ part THEN [fs EXCEPT ![o.chemin] = Rien] ELSE fs
      BY <2>2 DEF Fermer
    <3>2. ~(o.supprimer /\ part)
      BY <2>1, <3>1 DEF Selon
    <3>3. QED BY <3>1, <3>2 DEF disque
  <2>3. CASE Lire(h) \/ Informer(h) \/ Modifier(h)
    BY <2>3 DEF Lire, Informer, Modifier
  <2>4. CASE EcrireBloc(h) BY <2>4 DEF EcrireBloc, Refuse, PartieEcrite
  <2>5. CASE \E a \in BOOLEAN, b \in BOOLEAN : Tailler(h, a, b) BY <2>1, <2>5 DEF Tailler, Refuse
  <2>6. CASE \E b \in BOOLEAN : Marquer(h, b) BY <2>6 DEF Marquer, Refuse
  <2>7. CASE \E b \in BOOLEAN, m \in Noms \cup {"*"} : Enumerer(h, b, m)
    BY <2>7 DEF Enumerer, Refuse
  <2>8. CASE \E p \in Distants, b \in BOOLEAN : TesterRenommage(h, p, b)
    BY <2>8 DEF TesterRenommage, Refuse
  <2>9. QED BY <1>5, <2>2, <2>3, <2>4, <2>5, <2>6, <2>7, <2>8 DEF SurPoignee
<1>6. CASE Renommer
  <2>1. ~Repond("succes") /\ ~Repond("remplace")
    BY <1>1
  <2>2. CASE renommage.remplacer BY <1>6, <2>1, <2>2 DEF Renommer, Refuse
  <2>3. CASE ~renommage.remplacer BY <1>6, <2>1, <2>3 DEF Renommer, Refuse
  <2>4. QED BY <2>2, <2>3
<1>7. QED BY <1>2, <1>3, <1>4, <1>5, <1>6 DEF Next, SurPoignee

\* The contents a block may change.
LEMMA PartieSeule ==
  ASSUME IInv, NEW h \in DOMAIN ouverts, PartieEcrite(h), NEW i \in Inodes, plein'[i] # plein[i]
  PROVE  plein'[i] /\ ouverts[h].ecriture /\ ~ouverts[h].repertoire /\ ouverts[h].i = i
<1>1. PICK j : j = ouverts[h].i
  OBVIOUS
<1>2. PICK e \in BOOLEAN : plein' = [plein EXCEPT ![j] = @ \/ e]
  BY <1>1 DEF PartieEcrite
<1>3. plein \in [Inodes -> BOOLEAN]
  BY DEF IInv, DisqueTenu
<1>4. j = i
  BY <1>2, <1>3
<1>5. plein'[i] = (plein[i] \/ e)
  BY <1>2, <1>3, <1>4
<1>6. plein[i] \in BOOLEAN
  BY <1>3
<1>7. plein'[i]
  <2>1. CASE plein[i] BY <2>1, <1>5
  <2>2. CASE ~plein[i]
    <3>1. (plein[i] \/ e) = e
      BY <2>2, <1>6
    <3>2. CASE e BY <3>2, <1>5
    <3>3. CASE ~e
      <4>1. (plein[i] \/ e) = plein[i]
        BY <3>3, <2>2, <1>6
      <4>2. QED BY <4>1, <1>5
    <3>4. QED BY <3>2, <3>3
  <2>3. QED BY <2>1, <2>2
<1>8. ~ouverts[h].repertoire /\ ouverts[h].ecriture
  BY DEF PartieEcrite
<1>9. QED BY <1>1, <1>4, <1>7, <1>8

\* Which steps make a file leave the folder.
LEMMA PertePas ==
  ASSUME IInv, [Next]_vars, Traite, NEW p \in Chemins, EstFichier(p), fs[p].i \notin Presents(fs')
  PROVE  \/ reponse' = "remplace" \/ PoseEntreDeux(p)
         \/ \E h \in DOMAIN ouverts \ DOMAIN ouverts' : ouverts[h].supprimer /\ ouverts[h].chemin = p
<1>1. \A r : Repond(r) => reponse' = r
  BY DEF Repond
<1>2. PICK i \in Inodes : fs[p] = Fichier(i)
  BY DEF EstFichier, IInv, DisqueTenu, Forme, Noeuds, Rien, Dossier, Fichier
<1>3. ~ \E q \in Chemins : fs'[q] = fs[p]
  BY <1>2 DEF Presents, Fichier
<1>4. fs[p] # Rien
  BY <1>2, Genres
<1>5. CASE Demander \/ Deposer \/ Ecrire \/ FinSession \/ Local \/ UNCHANGED vars
  BY <1>5 DEF Traite, Demander, Deposer, Ecrire, FinSession, Local, vars
<1>6. CASE UNCHANGED fs
  BY <1>3, <1>6
<1>7. CASE \E distant \in Distants, dossier \in BOOLEAN,
             d \in {"OPEN", "CREATE", "OPEN_IF", "OVERWRITE", "OVERWRITE_IF", "SUPERSEDE"} : Ouvrir(distant, dossier, d)
  <2>1. PICK distant \in Distants, dossier \in BOOLEAN,
             d \in {"OPEN", "CREATE", "OPEN_IF", "OVERWRITE", "OVERWRITE_IF", "SUPERSEDE"} : Ouvrir(distant, dossier, d)
    BY <1>7
  <2>2. PICK r : r = Resoudre(distant)
    OBVIOUS
  <2>3. CASE Refuse \/ UNCHANGED fs
    BY <1>6, <2>3 DEF Refuse, disque
  <2>4. CASE ~Refuse /\ ~UNCHANGED fs
    <3>1. r # <<>>
      BY <2>1, <2>2, <2>4 DEF Ouvrir
    <3>2. ~Existe(r) /\ \E v \in {Dossier} \cup {Fichier(j) : j \in Libres} : fs' = [fs EXCEPT ![r] = v]
      BY <2>1, <2>2, <2>4 DEF Ouvrir, OuvrirDossier, OuvrirFichier, disque
    <3>3. r \in Chemins
      BY <2>2, <3>1, ResoudreEffet DEF IInv, DisqueTenu
    <3>4. r # p
      BY <1>4, <3>2, <3>3 DEF Existe
    <3>5. fs'[p] = fs[p]
      BY <3>2, <3>4
    <3>6. QED BY <1>3, <3>5
  <2>5. QED BY <2>3, <2>4
<1>8. ASSUME NEW h \in DOMAIN ouverts, Fermer(h)
      PROVE  \E k \in DOMAIN ouverts \ DOMAIN ouverts' : ouverts[k].supprimer /\ ouverts[k].chemin = p
  <2>1. PICK o : o = ouverts[h]
    OBVIOUS
  <2>2. /\ DOMAIN ouverts' = DOMAIN ouverts \ {h}
        /\ fs' = fs \/ (o.supprimer /\ fs' = [fs EXCEPT ![o.chemin] = Rien])
    BY <1>8, <2>1 DEF Fermer, Sauf
  <2>3. o.supprimer /\ fs' = [fs EXCEPT ![o.chemin] = Rien]
    BY <1>3, <2>2
  <2>4. fs \in [Chemins -> Noeuds]
    BY DEF IInv, DisqueTenu, Forme
  <2>5. o.chemin = p
    BY <1>3, <2>3, <2>4
  <2>6. QED BY <2>1, <2>2, <2>3, <2>5
<1>9. ASSUME Renommer, reponse' # "remplace", ~PoseEntreDeux(p)
      PROVE  FALSE
  <2>1. PICK s, d, op : /\ s = ouverts[renommage.h].chemin /\ d = renommage.vers
                        /\ op = IF renommage.remplacer THEN "remplace" ELSE "succes"
    OBVIOUS
  <2>2. ~UNCHANGED fs
    BY <1>3
  <2>3. /\ renommage # Aucun /\ RenommageAdmis(s, d) /\ Tient(s, d) /\ Repond(op)
        /\ fs' = Deplace(s, d)
    BY <1>9, <2>1, <2>2 DEF Renommer, Refuse, disque
  <2>4. renommage.vu = Rien
    BY <1>1, <1>9, <2>1, <2>3 DEF IInv, RenommageTenu
  <2>5. s \in Chemins /\ d \in Chemins
    BY <2>1, <2>3, RenommerVers
  <2>6. d # p
    BY <1>4, <1>9, <2>1, <2>3, <2>4 DEF PoseEntreDeux
  <2>7. fs[d] # Dossier \/ Enfants(fs, d) = {}
    BY <2>3, <2>5 DEF RenommageAdmis, EstDossier, Existe
  <2>8. \E q \in Chemins : Deplace(s, d)[q] = fs[p]
    BY <1>4, <2>3, <2>5, <2>6, <2>7, DeplaceGarde DEF IInv, DisqueTenu
  <2>9. QED BY <1>3, <2>3, <2>8
<1>10. ASSUME NEW h \in DOMAIN ouverts, SurPoignee(h), ~Fermer(h), ~UNCHANGED fs
       PROVE  FALSE
  <2>1. ~(Lire(h) \/ Informer(h) \/ Modifier(h) \/ EcrireBloc(h))
    BY <1>10 DEF Lire, Informer, Modifier, EcrireBloc, Refuse, disque
  <2>2. ~ \E a \in BOOLEAN, b \in BOOLEAN : Tailler(h, a, b)
    BY <1>10 DEF Tailler, Refuse, disque
  <2>3. ~ \E b \in BOOLEAN : Marquer(h, b)
    BY <1>10 DEF Marquer, Refuse, disque
  <2>4. ~ \E b \in BOOLEAN, m \in Noms \cup {"*"} : Enumerer(h, b, m)
    BY <1>10 DEF Enumerer, Refuse, disque
  <2>5. ~ \E q \in Distants, b \in BOOLEAN : TesterRenommage(h, q, b)
    BY <1>10 DEF TesterRenommage, Refuse, disque
  <2>6. QED BY <1>10, <2>1, <2>2, <2>3, <2>4, <2>5 DEF SurPoignee
<1>11. CASE Autre BY <1>6, <1>11 DEF Autre, disque
<1>12. QED BY <1>5, <1>6, <1>7, <1>8, <1>9, <1>10, <1>11 DEF Next, SurPoignee

-----------------------------------------------------------------------------
(* The theorems.                                                           *)

\* Lecteur: the state has its types, and what is in the shared folder is in a folder.
THEOREM TypesDuDisque == Spec => [](TypeOK /\ EstArbre(fs))
<1>1. IInv => TypeOK /\ EstArbre(fs)
  BY IInvSuffit DEF IInv, DisqueTenu, Forme
<1>2. QED BY <1>1, Toujours, PTL

\* resoudre, enregistrer, entree_suivante, traiter: the root stays and no handle leaves it,
\* a listing gives its snapshot whole and in order, each request has one answer.
THEOREM DossierToujoursTenu == Spec => []DossierTenu
BY IInvSuffit, Toujours, PTL

\* ouvrir, ecrire_bloc, modifier_selon, fermer: a request that is refused creates,
\* removes, moves and empties nothing, and writes at most a part of its block in a file
\* that stands open for writing.
THEOREM RefusToujoursSansEffet == Spec => RefusSansEffet
<1>1. ASSUME IInv, [Next]_vars, Traite, reponse' = "refus"
      PROVE  /\ fs' = fs
             /\ \A i \in Inodes : plein'[i] # plein[i] =>
                  /\ plein'[i]
                  /\ \E h \in DOMAIN ouverts :
                       ouverts[h].ecriture /\ ~ouverts[h].repertoire /\ ouverts[h].i = i
  <2>1. UNCHANGED disque \/ \E h \in DOMAIN ouverts : PartieEcrite(h)
    BY <1>1, RefusPas
  <2>2. CASE UNCHANGED disque BY <2>2 DEF disque
  <2>3. CASE \E h \in DOMAIN ouverts : PartieEcrite(h)
    <3>1. fs' = fs
      BY <2>3 DEF PartieEcrite
    <3>2. QED BY <1>1, <2>3, <3>1, PartieSeule
  <2>4. QED BY <2>1, <2>2, <2>3
<1>2. IInv /\ [Next]_vars =>
        [Traite /\ reponse' = "refus" =>
           /\ fs' = fs
           /\ \A i \in Inodes : plein'[i] # plein[i] =>
                /\ plein'[i]
                /\ \E h \in DOMAIN ouverts :
                     ouverts[h].ecriture /\ ~ouverts[h].repertoire /\ ouverts[h].i = i]_vars
  BY <1>1
<1>3. QED BY <1>2, Toujours, PTL DEF Spec, RefusSansEffet

\* fermer, modifier_selon (Rename): a file of the folder disappears only by the close of a
\* handle on its path that was marked, by a replacement that was asked for, or because
\* the user put it at the destination of a renaming after the thread looked there.
THEOREM FichierJamaisPerdu == Spec => RienDePerdu
<1>1. IInv /\ [Next]_vars =>
        [Traite => \A p \in Chemins : EstFichier(p) /\ fs[p].i \notin Presents(fs') =>
           \/ reponse' = "remplace"
           \/ PoseEntreDeux(p)
           \/ \E h \in DOMAIN ouverts \ DOMAIN ouverts' : ouverts[h].supprimer /\ ouverts[h].chemin = p]_vars
  BY PertePas
<1>2. QED BY <1>1, Toujours, PTL DEF Spec, RienDePerdu
=============================================================================
