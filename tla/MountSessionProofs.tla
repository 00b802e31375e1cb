-------------------------- MODULE MountSessionProofs -------------------------
(***************************************************************************)
(* What a mount promises its users, for any paths, either policy and any   *)
(* number of failures: readers see what is there, nothing staged is        *)
(* refused or forgotten, what is acknowledged is committed, an unmount     *)
(* keeps everything, and after a failed commit nothing is committed.  All  *)
(* but the last suppose that programs do neither of the two things in      *)
(* Habits, with which the code does not keep these promises.               *)
(***************************************************************************)
EXTENDS MountSession, SequenceTheorems, TLAPS
-----------------------------------------------------------------------------
(* Facts about the paths of a mount: prefixes, ancestors, and where a rename *)
(* takes what is below a path.  They stand for the string comparisons of     *)
(* LiveMountBackend and hold for any names.                                  *)

\* The directories that have to be there for a path to be.
Above(p) == {SubSeq(p, 1, n) : n \in 1 .. Len(p) - 1}

\* A path at or below another is that one and what follows it.
LEMMA PrefixSplit ==
    ASSUME NEW s \in Seq(Names), NEW t \in Seq(Names), IsPrefix(s, t)
    PROVE  /\ SubSeq(t, Len(s) + 1, Len(t)) \in Seq(Names)
           /\ Len(SubSeq(t, Len(s) + 1, Len(t))) = Len(t) - Len(s)
           /\ t = s \o SubSeq(t, Len(s) + 1, Len(t))
  <1>1. Len(s) \in Nat /\ Len(t) \in Nat /\ Len(s) <= Len(t)
    BY LenProperties DEF IsPrefix
  <1>2. \A i \in Len(s) + 1 .. Len(t) : t[i] \in Names
    BY <1>1, ElementOfSeq
  <1>3. /\ SubSeq(t, Len(s) + 1, Len(t)) \in Seq(Names)
        /\ Len(SubSeq(t, Len(s) + 1, Len(t))) = Len(t) - Len(s)
    BY <1>1, <1>2, SubSeqProperties
  <1>4. SubSeq(t, 1, Len(s)) \o SubSeq(t, Len(s) + 1, Len(t)) = SubSeq(t, 1, Len(t))
    <2>1. 1 \in 1 .. Len(t) + 1 /\ Len(s) \in 0 .. Len(t) /\ Len(t) \in Len(s) .. Len(t)
      BY <1>1
    <2>2. Len(s) \in 1 - 1 .. Len(t)
      BY <2>1
    <2> QED BY <2>1, <2>2, ConcatAdjacentSubSeq
  <1>5. SubSeq(t, 1, Len(s)) = s
    BY SubSeqFull DEF IsPrefix
  <1> QED BY <1>3, <1>4, <1>5, SubSeqFull

\* To be a prefix is to agree at every place.
LEMMA PrefixPoints ==
    ASSUME NEW s \in Seq(Names), NEW t \in Seq(Names)
    PROVE  IsPrefix(s, t) <=> Len(s) <= Len(t) /\ \A i \in 1 .. Len(s) : s[i] = t[i]
  <1>1. Len(s) \in Nat /\ Len(t) \in Nat
    BY LenProperties
  <1>2. SubSeq(s, 1, Len(s)) = s
    BY SubSeqFull
  <1>3. ASSUME Len(s) <= Len(t)
        PROVE  /\ SubSeq(t, 1, Len(s)) \in Seq(Names)
               /\ Len(SubSeq(t, 1, Len(s))) = Len(s)
               /\ \A i \in 1 .. Len(s) : SubSeq(t, 1, Len(s))[i] = t[i]
    <2>1. \A i \in 1 .. Len(s) : t[i] \in Names
      BY <1>1, <1>3, ElementOfSeq
    <2>2. /\ SubSeq(t, 1, Len(s)) \in Seq(Names)
          /\ Len(SubSeq(t, 1, Len(s))) = IF 1 <= Len(s) THEN Len(s) - 1 + 1 ELSE 0
          /\ \A i \in 1 .. Len(s) - 1 + 1 : SubSeq(t, 1, Len(s))[i] = t[1 + i - 1]
      BY <1>1, <2>1, SubSeqProperties
    <2> QED BY <1>1, <2>2
  <1>4. ASSUME Len(s) <= Len(t), \A i \in 1 .. Len(s) : s[i] = t[i]
        PROVE  s = SubSeq(t, 1, Len(s))
    BY <1>1, <1>3, <1>4, SeqEqual
  <1> QED BY <1>2, <1>3, <1>4 DEF IsPrefix

\* What is above a path that is above a third is above that one.
LEMMA PrefixTransitive ==
    ASSUME NEW s \in Seq(Names), NEW t \in Seq(Names), NEW u \in Seq(Names),
           IsPrefix(s, t), IsPrefix(t, u)
    PROVE  IsPrefix(s, u)
  <1>1. Len(s) \in Nat /\ Len(t) \in Nat /\ Len(u) \in Nat
    BY LenProperties
  <1> QED BY <1>1, PrefixPoints

\* Of two paths above a third, one is above the other.
LEMMA PrefixesComparable ==
    ASSUME NEW s \in Seq(Names), NEW t \in Seq(Names), NEW u \in Seq(Names),
           IsPrefix(s, u), IsPrefix(t, u)
    PROVE  IsPrefix(s, t) \/ IsPrefix(t, s)
  <1>1. Len(s) \in Nat /\ Len(t) \in Nat /\ Len(u) \in Nat
    BY LenProperties
  <1> QED BY <1>1, PrefixPoints

\* A path is longer than any other above it.
LEMMA PrefixOfSameLength ==
    ASSUME NEW s \in Seq(Names), NEW t \in Seq(Names), IsPrefix(s, t)
    PROVE  /\ Len(s) \in Nat /\ Len(t) \in Nat /\ Len(s) <= Len(t)
           /\ s = t <=> Len(s) = Len(t)
  <1>1. Len(s) \in Nat /\ Len(t) \in Nat
    BY LenProperties
  <1>2. Len(s) <= Len(t) /\ \A i \in 1 .. Len(s) : s[i] = t[i]
    BY PrefixPoints
  <1>3. Len(s) = Len(t) => s = t
    BY <1>2, SeqEqual
  <1> QED BY <1>1, <1>2, <1>3

\* The path that a rename gives: the new start, then the old end.
LEMMA RebasePoints ==
    ASSUME NEW a \in Seq(Names), NEW b \in Seq(Names), NEW p \in Seq(Names),
           IsPrefix(a, p)
    PROVE  /\ Rebase(p, a, b) \in Seq(Names)
           /\ Len(Rebase(p, a, b)) = Len(b) + (Len(p) - Len(a))
           /\ \A i \in 1 .. Len(b) : Rebase(p, a, b)[i] = b[i]
           /\ \A i \in 1 .. Len(p) - Len(a) :
                  Rebase(p, a, b)[Len(b) + i] = p[Len(a) + i]
  <1> DEFINE u == SubSeq(p, Len(a) + 1, Len(p))
  <1>1. Len(a) \in Nat /\ Len(b) \in Nat /\ Len(p) \in Nat /\ Len(a) <= Len(p)
    BY LenProperties DEF IsPrefix
  <1>2. u \in Seq(Names) /\ Len(u) = Len(p) - Len(a) /\ p = a \o u
    BY PrefixSplit
  <1> HIDE DEF u
  <1>3. /\ b \o u \in Seq(Names)
        /\ Len(b \o u) = Len(b) + Len(u)
        /\ \A i \in 1 .. Len(b) + Len(u) :
               (b \o u)[i] = IF i <= Len(b) THEN b[i] ELSE u[i - Len(b)]
    BY <1>2, ConcatProperties
  <1>4. \A i \in 1 .. Len(a) + Len(u) :
            (a \o u)[i] = IF i <= Len(a) THEN a[i] ELSE u[i - Len(a)]
    BY <1>2, ConcatProperties
  <1>5. Rebase(p, a, b) = b \o u
    BY DEF Rebase, u
  <1>6. ASSUME NEW i \in 1 .. Len(p) - Len(a)
        PROVE  (b \o u)[Len(b) + i] = p[Len(a) + i]
    <2>1. (b \o u)[Len(b) + i] = u[i]
      <3>1. Len(b) + i \in 1 .. Len(b) + Len(u) /\ ~(Len(b) + i <= Len(b)) /\ Len(b) + i - Len(b) = i
        BY <1>1, <1>2
      <3> QED BY <1>3, <3>1
    <2>2. (a \o u)[Len(a) + i] = u[i]
      <3>1. Len(a) + i \in 1 .. Len(a) + Len(u) /\ ~(Len(a) + i <= Len(a)) /\ Len(a) + i - Len(a) = i
        BY <1>1, <1>2
      <3> QED BY <1>4, <3>1
    <2> QED BY <1>2, <2>1, <2>2
  <1>7. \A i \in 1 .. Len(b) : (b \o u)[i] = b[i]
    BY <1>1, <1>2, <1>3
  <1> QED BY <1>2, <1>3, <1>5, <1>6, <1>7

\* A rename takes what is at or below the old path to the new one.
LEMMA RebaseBelow ==
    ASSUME NEW a \in Seq(Names), NEW b \in Seq(Names), NEW p \in Seq(Names),
           IsPrefix(a, p)
    PROVE  IsPrefix(b, Rebase(p, a, b))
  <1>1. Len(a) \in Nat /\ Len(b) \in Nat /\ Len(p) \in Nat /\ Len(a) <= Len(p)
    BY LenProperties DEF IsPrefix
  <1> DEFINE r == Rebase(p, a, b)
  <1>2. /\ r \in Seq(Names) /\ Len(r) = Len(b) + (Len(p) - Len(a))
        /\ \A i \in 1 .. Len(b) : r[i] = b[i]
    BY RebasePoints
  <1> HIDE DEF r
  <1>3. IsPrefix(b, r)
    BY <1>1, <1>2, PrefixPoints
  <1> QED BY <1>3 DEF r

\* Renaming back gives the old path: no two paths become one.
LEMMA RebaseBack ==
    ASSUME NEW a \in Seq(Names), NEW b \in Seq(Names), NEW p \in Seq(Names),
           IsPrefix(a, p)
    PROVE  Rebase(Rebase(p, a, b), b, a) = p
  <1> DEFINE r == Rebase(p, a, b)
  <1>1. Len(a) \in Nat /\ Len(b) \in Nat /\ Len(p) \in Nat /\ Len(a) <= Len(p)
    BY LenProperties DEF IsPrefix
  <1>2. r \in Seq(Names) /\ Len(r) = Len(b) + (Len(p) - Len(a)) /\ IsPrefix(b, r)
    BY RebasePoints, RebaseBelow
  <1>3. \A i \in 1 .. Len(p) - Len(a) : r[Len(b) + i] = p[Len(a) + i]
    BY RebasePoints
  <1> HIDE DEF r
  <1>4. /\ Rebase(r, b, a) \in Seq(Names)
        /\ Len(Rebase(r, b, a)) = Len(a) + (Len(r) - Len(b))
        /\ \A i \in 1 .. Len(a) : Rebase(r, b, a)[i] = a[i]
        /\ \A i \in 1 .. Len(r) - Len(b) : Rebase(r, b, a)[Len(a) + i] = r[Len(b) + i]
    BY <1>2, RebasePoints
  <1>5. \A i \in 1 .. Len(a) : a[i] = p[i]
    BY PrefixPoints
  <1>6. ASSUME NEW i \in 1 .. Len(p)
        PROVE  Rebase(r, b, a)[i] = p[i]
    <2>1. CASE i <= Len(a)
      BY <1>1, <1>4, <1>5, <2>1
    <2>2. CASE Len(a) < i
      <3> DEFINE j == i - Len(a)
      <3>1. j \in 1 .. Len(p) - Len(a) /\ Len(a) + j = i /\ Len(r) - Len(b) = Len(p) - Len(a)
        BY <1>1, <1>2, <2>2
      <3> HIDE DEF j
      <3> QED BY <1>3, <1>4, <3>1
    <2> QED BY <1>1, <2>1, <2>2
  <1>7. Len(Rebase(r, b, a)) = Len(p)
    BY <1>1, <1>2, <1>4
  <1>8. Rebase(r, b, a) = p
    BY <1>1, <1>4, <1>6, <1>7, SeqEqual
  <1> QED BY <1>8 DEF r

\* A rename keeps which path is above which.
LEMMA RebaseKeepsPrefix ==
    ASSUME NEW a \in Seq(Names), NEW b \in Seq(Names),
           NEW q \in Seq(Names), NEW p \in Seq(Names),
           IsPrefix(a, q), IsPrefix(q, p)
    PROVE  IsPrefix(Rebase(q, a, b), Rebase(p, a, b))
  <1>1. /\ Len(a) \in Nat /\ Len(b) \in Nat /\ Len(p) \in Nat /\ Len(q) \in Nat
        /\ Len(a) <= Len(q) /\ Len(q) <= Len(p)
    BY LenProperties DEF IsPrefix
  <1>2. IsPrefix(a, p)
    BY PrefixTransitive
  <1>3. \A i \in 1 .. Len(q) : q[i] = p[i]
    BY PrefixPoints
  <1> DEFINE r == Rebase(q, a, b)
             s == Rebase(p, a, b)
  <1>4. /\ r \in Seq(Names) /\ Len(r) = Len(b) + (Len(q) - Len(a))
        /\ \A i \in 1 .. Len(b) : r[i] = b[i]
        /\ \A i \in 1 .. Len(q) - Len(a) : r[Len(b) + i] = q[Len(a) + i]
    <2>1. r \in Seq(Names) /\ Len(r) = Len(b) + (Len(q) - Len(a))
      BY RebasePoints, Zenon
    <2>2. \A i \in 1 .. Len(b) : r[i] = b[i]
      BY RebasePoints, Zenon
    <2>3. \A i \in 1 .. Len(q) - Len(a) : r[Len(b) + i] = q[Len(a) + i]
      BY RebasePoints, Zenon
    <2> HIDE DEF r
    <2> QED BY <2>1, <2>2, <2>3
  <1>5. /\ s \in Seq(Names) /\ Len(s) = Len(b) + (Len(p) - Len(a))
        /\ \A i \in 1 .. Len(b) : s[i] = b[i]
        /\ \A i \in 1 .. Len(p) - Len(a) : s[Len(b) + i] = p[Len(a) + i]
    <2>1. s \in Seq(Names) /\ Len(s) = Len(b) + (Len(p) - Len(a))
      BY <1>2, RebasePoints, Zenon
    <2>2. \A i \in 1 .. Len(b) : s[i] = b[i]
      BY <1>2, RebasePoints, Zenon
    <2>3. \A i \in 1 .. Len(p) - Len(a) : s[Len(b) + i] = p[Len(a) + i]
      BY <1>2, RebasePoints, Zenon
    <2> HIDE DEF s
    <2> QED BY <2>1, <2>2, <2>3
  <1> HIDE DEF r, s
  <1>6. ASSUME NEW i \in 1 .. Len(r)
        PROVE  r[i] = s[i]
    <2>1. CASE i <= Len(b)
      BY <1>1, <1>4, <1>5, <2>1
    <2>2. CASE Len(b) < i
      <3> DEFINE j == i - Len(b)
      <3>1. /\ j \in 1 .. Len(q) - Len(a) /\ j \in 1 .. Len(p) - Len(a)
            /\ Len(b) + j = i /\ Len(a) + j \in 1 .. Len(q)
        BY <1>1, <1>4, <2>2
      <3> HIDE DEF j
      <3> QED BY <1>3, <1>4, <1>5, <3>1
    <2> QED BY <1>1, <1>4, <2>1, <2>2
  <1>7. Len(r) <= Len(s)
    BY <1>1, <1>4, <1>5
  <1>8. IsPrefix(r, s)
    BY <1>4, <1>5, <1>6, <1>7, PrefixPoints
  <1> QED BY <1>8 DEF r, s

\* The ancestors of a path are its shorter prefixes but the empty one.
LEMMA AboveIs ==
    ASSUME NEW p \in Seq(Names), NEW q
    PROVE  q \in Above(p) <=>
               q \in Seq(Names) /\ q # <<>> /\ IsPrefix(q, p) /\ Len(q) < Len(p)
  <1>1. Len(p) \in Nat
    BY LenProperties
  <1>2. ASSUME NEW n \in 1 .. Len(p) - 1
        PROVE  /\ SubSeq(p, 1, n) \in Seq(Names) /\ Len(SubSeq(p, 1, n)) = n
               /\ SubSeq(p, 1, n) # <<>> /\ IsPrefix(SubSeq(p, 1, n), p)
    <2>1. \A i \in 1 .. n : p[i] \in Names
      BY <1>1, ElementOfSeq
    <2>2. /\ SubSeq(p, 1, n) \in Seq(Names)
          /\ Len(SubSeq(p, 1, n)) = n
          /\ \A i \in 1 .. n - 1 + 1 : SubSeq(p, 1, n)[i] = p[1 + i - 1]
      BY <1>1, <2>1, SubSeqProperties
    <2>3. \A i \in 1 .. n : SubSeq(p, 1, n)[i] = p[i]
      BY <1>1, <2>2
    <2> DEFINE s == SubSeq(p, 1, n)
    <2>4. s \in Seq(Names) /\ Len(s) = n /\ \A i \in 1 .. n : s[i] = p[i]
      BY <2>2, <2>3
    <2> HIDE DEF s
    <2>5. IsPrefix(s, p)
      BY <1>1, <2>4, PrefixPoints
    <2>6. s # <<>>
      BY <2>4, EmptySeq
    <2> QED BY <2>4, <2>5, <2>6 DEF s
  <1>3. ASSUME q \in Seq(Names), q # <<>>, IsPrefix(q, p), Len(q) < Len(p)
        PROVE  q \in Above(p)
    <2>1. Len(q) \in 1 .. Len(p) - 1
      BY <1>1, <1>3, EmptySeq
    <2>2. q = SubSeq(p, 1, Len(q))
      BY <1>3, SubSeqFull DEF IsPrefix
    <2> QED BY <2>1, <2>2 DEF Above
  <1>4. ASSUME q \in Above(p)
        PROVE  q \in Seq(Names) /\ q # <<>> /\ IsPrefix(q, p) /\ Len(q) < Len(p)
    <2>1. PICK n \in 1 .. Len(p) - 1 : q = SubSeq(p, 1, n)
      BY <1>4 DEF Above
    <2>2. /\ q \in Seq(Names) /\ Len(q) = n
          /\ q # <<>> /\ IsPrefix(q, p)
      BY <1>2, <2>1, Zenon
    <2> QED BY <1>1, <2>2
  <1> QED BY <1>3, <1>4

-----------------------------------------------------------------------------
\* The values of a path are told apart, and paths are sequences of names.
LEMMA Distinct ==
    /\ Absent \notin Contents /\ Absent # Empty /\ Absent # Directory
    /\ Directory \notin Contents /\ Directory # Empty /\ Empty \notin Contents
    /\ \A p \in Paths : p \in Seq(Names) /\ p # <<>>
  BY ConstantsAssumption

\* Paths have at least one name.
LEMMA PathLength ==
    ASSUME NEW p \in Paths
    PROVE  p \in Seq(Names) /\ Len(p) \in Nat /\ Len(p) > 0
  <1>1. p \in Seq(Names) /\ p # <<>>
    BY Distinct
  <1> QED BY <1>1, EmptySeq, LenProperties

\* The ancestors of a path are its parent and those of its parent.
LEMMA ParentIs ==
    ASSUME NEW p \in Paths
    PROVE  /\ Parent(p) = <<>> \/ Parent(p) \in Above(p)
           /\ \A q \in Above(p) : q = Parent(p) \/ q \in Above(Parent(p))
           /\ \A q \in Above(p) : Parent(p) # <<>>
           /\ Parent(p) \in Seq(Names)
  <1>1. p \in Seq(Names) /\ Len(p) \in Nat /\ Len(p) > 0
    BY PathLength
  <1> DEFINE d == SubSeq(p, 1, Len(p) - 1)
  <1>2. Parent(p) = d
    BY DEF Parent, Front
  <1>3. CASE Len(p) = 1
    <2>1. d = <<>>
      BY <1>3, SubSeqEmpty
    <2>2. Above(p) = {}
      BY <1>3 DEF Above
    <2> QED BY <1>2, <2>1, <2>2, EmptySeq
  <1>4. CASE Len(p) > 1
    <2>1. d \in Above(p)
      BY <1>1, <1>4 DEF Above
    <2>2. d \in Seq(Names) /\ d # <<>> /\ IsPrefix(d, p)
      BY <1>1, <2>1, AboveIs
    <2>3. Len(d) = Len(p) - 1
      <3>1. \A i \in 1 .. Len(p) - 1 : p[i] \in Names
        BY <1>1, ElementOfSeq
      <3> QED BY <1>1, <1>4, <3>1, SubSeqProperties
    <2> HIDE DEF d
    <2>4. ASSUME NEW q \in Above(p), q # d
          PROVE  q \in Above(d)
      <3>1. q \in Seq(Names) /\ q # <<>> /\ IsPrefix(q, p) /\ Len(q) < Len(p)
        BY <1>1, AboveIs
      <3>2. Len(q) \in Nat
        BY <3>1, LenProperties
      <3>3. IsPrefix(q, d) \/ IsPrefix(d, q)
        BY <1>1, <2>2, <3>1, PrefixesComparable
      <3>4. IsPrefix(d, q) => d = q
        BY <1>1, <2>2, <2>3, <3>1, <3>2, PrefixOfSameLength
      <3>5. IsPrefix(q, d) /\ Len(q) # Len(d)
        BY <2>2, <2>4, <3>1, <3>3, <3>4, PrefixOfSameLength
      <3>6. Len(q) < Len(d)
        BY <1>1, <2>3, <3>1, <3>2, <3>5
      <3> QED BY <2>2, <3>1, <3>5, <3>6, AboveIs
    <2> QED BY <1>2, <2>1, <2>2, <2>4
  <1>5. Len(p) = 1 \/ Len(p) > 1
    <2> \A n \in Nat : n > 0 => n = 1 \/ n > 1
      OBVIOUS
    <2> QED BY <1>1
  <1> QED BY <1>3, <1>4, <1>5

\* An ancestor is a prefix, but not the other way round.
LEMMA AboveStrict ==
    ASSUME NEW p \in Paths, NEW q \in Above(p)
    PROVE  q # p /\ ~IsPrefix(p, q) /\ IsPrefix(q, p)
  <1>1. p \in Seq(Names) /\ Len(p) \in Nat
    BY PathLength
  <1>2. q \in Seq(Names) /\ IsPrefix(q, p) /\ Len(q) < Len(p) /\ Len(q) \in Nat
    BY <1>1, AboveIs, LenProperties
  <1> QED BY <1>1, <1>2 DEF IsPrefix

\* What is under a path has it as a prefix and is another path.
LEMMA StrictlyUnder ==
    ASSUME NEW p \in Paths, NEW q \in Paths
    PROVE  q \in Under(p) <=> IsPrefix(p, q) /\ q # p
  BY DEF Under, IsStrictPrefix

\* What is under a path has it as an ancestor.
LEMMA UnderAbove ==
    ASSUME NEW p \in Paths, NEW q \in Paths
    PROVE  q \in Under(p) <=> p \in Above(q)
  <1>1. /\ p \in Seq(Names) /\ Len(p) \in Nat /\ p # <<>>
        /\ q \in Seq(Names) /\ Len(q) \in Nat
    BY PathLength, Distinct
  <1>2. p \in Above(q) <=> IsPrefix(p, q) /\ Len(p) < Len(q)
    BY <1>1, AboveIs
  <1>3. IsPrefix(p, q) => Len(p) <= Len(q) /\ (p = q <=> Len(p) = Len(q))
    BY <1>1, PrefixOfSameLength
  <1> QED BY <1>1, <1>2, <1>3 DEF Under, IsStrictPrefix

\* The path that is renamed becomes the new path.
LEMMA RebaseSelf ==
    ASSUME NEW a \in Seq(Names), NEW b \in Seq(Names)
    PROVE  Rebase(a, a, b) = b /\ IsPrefix(a, a)
  <1>1. Len(a) \in Nat /\ Len(b) \in Nat
    BY LenProperties
  <1>2. SubSeq(a, Len(a) + 1, Len(a)) = <<>>
    BY <1>1, SubSeqEmpty
  <1>3. b \o <<>> = b
    BY ConcatEmptySeq
  <1> QED BY <1>1, <1>2, <1>3 DEF Rebase, IsPrefix

\* Where a path at or below the new one has come from.
LEMMA SourceIs ==
    ASSUME NEW from \in Paths, NEW to \in Paths, NEW p \in Paths, IsPrefix(to, p)
    PROVE  /\ Rebase(p, to, from) \in Seq(Names)
           /\ IsPrefix(from, Rebase(p, to, from))
           /\ Rebase(Rebase(p, to, from), from, to) = p
  BY Distinct, RebasePoints, RebaseBelow, RebaseBack
-----------------------------------------------------------------------------
(* What is true of a mount between its steps.                              *)

\* What is true of the files.  Staged files are invisible to the filesystem
\* below, so it is the mount that has to keep them out of its way: each has
\* directories above it, is no directory itself, and is a placeholder only
\* where nothing is committed.  TreeClosed speaks of all ancestors at once,
\* since what is true of the parent of a parent needs no induction then.
Present(p)   == entries[p] # Absent \/ pending[p] # Absent
Ancestors(p) == \A q \in Above(p) : q \in Paths /\ entries[q] = Directory

TreeClosed ==
    \A p \in Paths : Present(p) =>
        \A q \in Above(p) : q \in Paths /\ entries[q] = Directory
StagedIsFile     == \A p \in Paths : pending[p] # Absent => entries[p] # Directory
PlaceholderIsNew == \A p \in Paths : pending[p] = Empty => entries[p] = Absent

FilesOK ==
    /\ entries \in [Paths -> Contents \cup {Directory, Absent}]
    /\ pending \in [Paths -> Staged \cup {Absent}]
    /\ visible \in [Paths -> Staged \cup {Directory, Absent}]
    /\ VisibleAgrees /\ TreeClosed /\ StagedIsFile /\ PlaceholderIsNew

\* What is true of the callbacks.  Open files are visible, so that a rename of
\* a directory above them has room for their new paths.
HandlesOnFiles ==
    \A h \in Handles : handles[h] # Closed => visible[handles[h].path] \in Staged

\* A callback that is between two of its transactions holds the session mutex
\* since it found the mount healthy, so no other commit can have failed
\* meanwhile.
BusyMeansHealthy == pc \in {"move", "finish"} => ~failed

\* A rename between its two transactions: what it moves is committed, and has
\* room at its new place.
JobFits ==
    /\ pc \in {"idle", "unmounted"} => job = NoJob
    /\ pc = "finish" => job = NoJob \/ (job.from \in Paths /\ job.to = <<>>)
    /\ pc = "move" =>
        /\ job.from \in Paths /\ job.to \in Paths /\ ~IsPrefix(job.from, job.to)
        /\ visible[job.from] # Absent
        /\ pending[job.from] \notin Contents
        /\ \A p \in Under(job.from) :
            /\ pending[p] = Absent
            /\ visible[p] # Absent => Rebase(p, job.from, job.to) \in Paths

\* NothingForgotten, between the steps of a callback too.
Tracked ==
    ~failed => \A p \in Paths : pending[p] \in Contents =>
        \/ p \in queue
        \/ \E h \in Handles :
               handles[h] # Closed /\ handles[h] = [path |-> p, dirty |-> TRUE]
        \/ pc = "finish" /\ job.from = p

SessionOK ==
    /\ HandlesOnFiles /\ BusyMeansHealthy /\ JobFits /\ Tracked
    /\ AcknowledgedIsCommitted /\ UnmountKeepsEverything

\* The inductive invariant.
IInv == TypeOK /\ FilesOK /\ SessionOK
-----------------------------------------------------------------------------
(* What the parts of a step do to the files.                               *)

\* CanCreate looks at the parent only, yet a path whose parent is a directory has
\* only directories above it.
LEMMA AncestorsExist ==
    ASSUME TreeClosed, NEW p \in Paths
    PROVE  /\ ParentExists(p) => Ancestors(p)
           /\ Ancestors(p) => ParentExists(p)
  <1>1. ASSUME ParentExists(p), NEW q \in Above(p)
        PROVE  q \in Paths /\ entries[q] = Directory
    <2>1. Parent(p) \in Paths /\ entries[Parent(p)] = Directory
      BY <1>1, ParentIs DEF ParentExists
    <2>2. q \in Above(Parent(p)) => q \in Paths /\ entries[q] = Directory
      BY <2>1, Distinct DEF TreeClosed, Present
    <2> QED BY <2>1, <2>2, ParentIs
  <1> QED BY <1>1, ParentIs DEF ParentExists, Ancestors

\* A step that leaves the files alone keeps what is true of them.
LEMMA FilesKept ==
    ASSUME FilesOK, UNCHANGED files
    PROVE  FilesOK'
  BY DEF FilesOK, files, VisibleAgrees, TreeClosed, Present, StagedIsFile, PlaceholderIsNew

\* A commit moves contents from the staged files to the committed ones, and the
\* paths selected have none left.
LEMMA CommitKeepsFiles ==
    ASSUME FilesOK, NEW selected, Commits(selected), UNCHANGED visible
    PROVE  /\ FilesOK'
           /\ \A p \in Paths : pending'[p] # Absent => pending'[p] = pending[p]
           /\ \A p \in Paths : p \in selected => pending'[p] \notin Contents
  <1> USE Distinct DEF FilesOK, Commits, Batch
  <1>1. pending' \in [Paths -> Staged \cup {Absent}]
    BY DEF Staged
  <1>2. entries' \in [Paths -> Contents \cup {Directory, Absent}]
    OBVIOUS
  <1>3. \A p \in Paths : (entries'[p] = entries[p] /\ pending'[p] = pending[p])
            \/ (/\ pending[p] \in Contents /\ p \in selected /\ p \in Batch(selected)
                /\ entries'[p] = pending[p] /\ pending'[p] = Absent)
    OBVIOUS
  <1>4. VisibleAgrees'
    BY <1>3 DEF VisibleAgrees
  <1>5. StagedIsFile' /\ PlaceholderIsNew'
    BY <1>3 DEF StagedIsFile, PlaceholderIsNew
  <1>6. \A q \in Paths : entries[q] = Directory => entries'[q] = Directory
    BY <1>3 DEF StagedIsFile
  <1>7. \A p \in Paths : Present(p)' => Present(p)
    BY <1>3 DEF Present
  <1>8. TreeClosed'
    BY <1>6, <1>7 DEF TreeClosed, Above
  <1>9. \A p \in Paths : p \in selected => pending'[p] \notin Contents
    BY <1>3
  <1>10. \A p \in Paths : pending'[p] # Absent => pending'[p] = pending[p]
    BY <1>3
  <1> QED BY <1>1, <1>2, <1>4, <1>5, <1>8, <1>9, <1>10

\* So does staging contents at a path that is no directory.
LEMMA StageKeepsFiles ==
    ASSUME FilesOK, NEW p \in Paths, NEW bytes \in Staged,
           pending' = [pending EXCEPT ![p] = bytes],
           visible' = [visible EXCEPT ![p] = bytes],
           UNCHANGED entries,
           entries[p] # Directory, bytes = Empty => entries[p] = Absent,
           Ancestors(p)
    PROVE  FilesOK'
  <1> USE Distinct DEF FilesOK, Staged
  <1>1. VisibleAgrees' /\ StagedIsFile' /\ PlaceholderIsNew'
    BY DEF VisibleAgrees, StagedIsFile, PlaceholderIsNew
  <1>2. TreeClosed'
    BY DEF TreeClosed, Present, Ancestors
  <1> QED BY <1>1, <1>2

\* So does removing a file.
LEMMA UnlinkKeepsFiles ==
    ASSUME FilesOK, NEW p \in Paths, entries[p] # Directory,
           entries' = [entries EXCEPT ![p] = Absent],
           pending' = [pending EXCEPT ![p] = Absent],
           visible' = [visible EXCEPT ![p] = Absent]
    PROVE  FilesOK'
  <1> USE Distinct DEF FilesOK
  <1>1. VisibleAgrees' /\ StagedIsFile' /\ PlaceholderIsNew'
    BY DEF VisibleAgrees, StagedIsFile, PlaceholderIsNew
  <1>2. TreeClosed'
    BY DEF TreeClosed, Present
  <1> QED BY <1>1, <1>2

\* So does making a directory where nothing is.
LEMMA MkdirKeepsFiles ==
    ASSUME FilesOK, NEW p \in Paths, visible[p] = Absent, Ancestors(p),
           entries' = [entries EXCEPT ![p] = Directory],
           visible' = [visible EXCEPT ![p] = Directory],
           UNCHANGED pending
    PROVE  FilesOK'
  <1> USE Distinct DEF FilesOK
  <1>1. entries[p] = Absent /\ pending[p] = Absent
    BY DEF VisibleAgrees
  <1>2. VisibleAgrees' /\ StagedIsFile' /\ PlaceholderIsNew'
    BY <1>1 DEF VisibleAgrees, StagedIsFile, PlaceholderIsNew
  <1>3. TreeClosed'
    BY <1>1 DEF TreeClosed, Present, Ancestors
  <1> QED BY <1>2, <1>3

\* So does removing a directory that neither committed nor staged files are in.
LEMMA RmdirKeepsFiles ==
    ASSUME FilesOK, NEW p \in Paths, entries[p] = Directory,
           \A q \in Under(p) : entries[q] = Absent /\ pending[q] = Absent,
           entries' = [entries EXCEPT ![p] = Absent],
           visible' = [visible EXCEPT ![p] = Absent],
           UNCHANGED pending
    PROVE  FilesOK'
  <1> USE Distinct DEF FilesOK
  <1>1. pending[p] = Absent
    BY DEF StagedIsFile
  <1>2. VisibleAgrees' /\ StagedIsFile' /\ PlaceholderIsNew'
    BY <1>1 DEF VisibleAgrees, StagedIsFile, PlaceholderIsNew
  <1>3. ASSUME NEW r \in Paths, Present(r)', NEW q \in Above(r)
        PROVE  q \in Paths /\ entries'[q] = Directory
    <2>1. Present(r)
      BY <1>3 DEF Present
    <2>2. q \in Paths /\ entries[q] = Directory
      BY <2>1 DEF TreeClosed
    <2>3. q # p
      BY <2>1, UnderAbove DEF Present
    <2> QED BY <2>2, <2>3
  <1>4. TreeClosed'
    BY <1>3 DEF TreeClosed, Above
  <1> QED BY <1>2, <1>4

-----------------------------------------------------------------------------
(* A rename, once what it moves is committed.                              *)

MayMove(from, to) ==
    /\ from \in Paths /\ to \in Paths /\ ~IsPrefix(from, to)
    /\ visible[from] # Absent /\ pending[from] \notin Contents
    /\ \A p \in Under(from) :
        /\ pending[p] = Absent
        /\ visible[p] # Absent => Rebase(p, from, to) \in Paths
    /\ CanMove(to)

\* No path is both below the old and below the new one.
LEMMA Apart ==
    ASSUME FilesOK, NEW from, NEW to, MayMove(from, to),
           NEW q \in Seq(Names), IsPrefix(from, q), IsPrefix(to, q)
    PROVE  FALSE
  <1> USE DEF MayMove
  <1>1. from \in Seq(Names) /\ to \in Seq(Names) /\ to # <<>>
    BY Distinct
  <1>2. IsPrefix(to, from)
    BY <1>1, PrefixesComparable
  <1>3. to # from
    BY <1>1, RebaseSelf
  <1>4. to \in Above(from)
    <2>1. Len(to) <= Len(from) /\ Len(to) # Len(from) /\ Len(to) \in Nat /\ Len(from) \in Nat
      BY <1>1, <1>2, <1>3, PrefixOfSameLength
    <2>2. Len(to) < Len(from)
      BY <2>1
    <2> QED BY <1>1, <1>2, <2>2, AboveIs
  <1>5. Present(from)
    BY DEF FilesOK, VisibleAgrees, Present
  <1>6. entries[to] = Directory
    BY <1>4, <1>5 DEF FilesOK, TreeClosed
  <1> QED BY <1>6, Distinct DEF CanMove, CanCreate

\* Nothing is at or below the new path.
LEMMA NothingThere ==
    ASSUME FilesOK, NEW to \in Paths, CanMove(to), NEW p \in Paths, IsPrefix(to, p)
    PROVE  entries[p] = Absent /\ pending[p] = Absent /\ visible[p] = Absent
  <1>1. CASE p = to
    BY <1>1 DEF CanMove, CanCreate, FilesOK, VisibleAgrees
  <1>2. CASE p # to
    <2>1. to \in Above(p)
      BY <1>2, StrictlyUnder, UnderAbove
    <2>2. ~Present(p)
      BY <2>1, Distinct DEF FilesOK, TreeClosed, CanMove, CanCreate
    <2> QED BY <2>2 DEF Present, FilesOK, VisibleAgrees
  <1> QED BY <1>1, <1>2

\* A rename moves the committed files, the staged ones and the visible ones in
\* the same way, though it changes only one of the first two.
LEMMA AllMoved ==
    ASSUME FilesOK, NEW from, NEW to, MayMove(from, to), Renamed(from, to)
    PROVE  /\ entries' = Moved(entries, from, to)
           /\ pending' = Moved(pending, from, to)
  <1> USE DEF FilesOK, MayMove
  <1>1. CASE pending[from] = Empty
    <2>1. pending' = Moved(pending, from, to) /\ entries' = entries
      BY <1>1 DEF Renamed
    <2>2. entries[from] = Absent
      BY <1>1 DEF PlaceholderIsNew
    <2>3. ASSUME NEW p \in Paths, IsPrefix(from, p)
          PROVE  entries[p] = Absent
      <3>1. CASE p = from
        BY <2>2, <3>1
      <3>2. CASE p # from
        <4>1. from \in Above(p)
          BY <2>3, <3>2, StrictlyUnder, UnderAbove
        <4> QED BY <2>2, <4>1, Distinct DEF TreeClosed, Present
      <3> QED BY <3>1, <3>2
    <2>4. ASSUME NEW p \in Paths
          PROVE  Moved(entries, from, to)[p] = entries[p]
      BY <2>3, SourceIs DEF Moved
    <2>5. Moved(entries, from, to) = entries
      BY <2>4 DEF Moved
    <2> QED BY <2>1, <2>5
  <1>2. CASE pending[from] # Empty
    <2>1. entries' = Moved(entries, from, to) /\ pending' = pending
      BY <1>2 DEF Renamed
    <2>2. pending[from] = Absent
      BY <1>2 DEF Staged
    <2>3. ASSUME NEW p \in Paths, IsPrefix(from, p)
          PROVE  pending[p] = Absent
      BY <2>2, <2>3, StrictlyUnder
    <2>4. ASSUME NEW p \in Paths
          PROVE  Moved(pending, from, to)[p] = pending[p]
      BY <2>3, SourceIs DEF Moved
    <2>5. Moved(pending, from, to) = pending
      BY <2>4 DEF Moved
    <2> QED BY <2>1, <2>5
  <1> QED BY <1>1, <1>2

\* After a rename a path is gone, or has come from below the old path, or is as
\* before.
LEMMA MovedWays ==
    ASSUME FilesOK, NEW from, NEW to, MayMove(from, to), Renamed(from, to),
           visible' = Moved(visible, from, to), NEW p \in Paths
    PROVE  \/ /\ IsPrefix(from, p)
              /\ entries'[p] = Absent /\ pending'[p] = Absent /\ visible'[p] = Absent
           \/ /\ ~IsPrefix(from, p) /\ IsPrefix(to, p)
              /\ \E s \in Paths :
                   /\ s = Rebase(p, to, from) /\ IsPrefix(from, s)
                   /\ visible[s] # Absent
                   /\ entries'[p] = entries[s] /\ pending'[p] = pending[s]
                   /\ visible'[p] = visible[s]
           \/ /\ ~IsPrefix(from, p)
              /\ entries'[p] = entries[p] /\ pending'[p] = pending[p]
              /\ visible'[p] = visible[p]
  <1> DEFINE s == Rebase(p, to, from)
  <1>1. /\ entries' = Moved(entries, from, to)
        /\ pending' = Moved(pending, from, to)
        /\ visible' = Moved(visible, from, to)
    BY AllMoved
  <1>2. CASE IsPrefix(from, p)
    BY <1>1, <1>2 DEF Moved
  <1>3. CASE ~IsPrefix(from, p) /\ IsPrefix(to, p) /\ s \in Paths /\ visible[s] # Absent
    <2>1. entries[p] = Absent /\ pending[p] = Absent /\ visible[p] = Absent
      BY <1>3, NothingThere DEF MayMove
    <2>2. IsPrefix(from, s)
      BY <1>3, SourceIs DEF MayMove
    <2>3. entries'[p] = entries[s] /\ pending'[p] = pending[s] /\ visible'[p] = visible[s]
      BY <1>1, <1>3, <2>1 DEF Moved
    <2> QED BY <1>3, <2>2, <2>3
  <1>4. CASE /\ ~IsPrefix(from, p)
             /\ ~(IsPrefix(to, p) /\ s \in Paths /\ visible[s] # Absent)
    <2>1. s \in Paths /\ visible[s] = Absent => entries[s] = Absent /\ pending[s] = Absent
      BY DEF FilesOK, VisibleAgrees
    <2> QED BY <1>1, <1>4, <2>1 DEF Moved
  <1> QED BY <1>2, <1>3, <1>4

\* A rename keeps a directory above every file.
LEMMA MoveKeepsTree ==
    ASSUME FilesOK, NEW from, NEW to, MayMove(from, to), Renamed(from, to),
           visible' = Moved(visible, from, to)
    PROVE  TreeClosed'
  <1> SUFFICES ASSUME NEW p \in Paths, Present(p)', NEW q \in Above(p)
               PROVE  q \in Paths /\ entries'[q] = Directory
    BY DEF TreeClosed, Above
  <1> USE DEF MayMove
  <1>1. /\ p \in Seq(Names) /\ from \in Seq(Names) /\ to \in Seq(Names)
        /\ from # <<>> /\ to # <<>>
    BY Distinct
  <1>2. /\ q \in Seq(Names) /\ q # <<>> /\ IsPrefix(q, p) /\ q # p
    BY <1>1, AboveIs, AboveStrict
  <1>3. ~IsPrefix(from, p)
    BY MovedWays DEF Present
  <1>4. ~IsPrefix(from, q)
    BY <1>1, <1>2, <1>3, PrefixTransitive
  <1>5. ASSUME q \in Paths, entries[q] = Directory, ~IsPrefix(to, q)
        PROVE  entries'[q] = Directory
    BY <1>4, <1>5, MovedWays
  <1>6. CASE Present(p) /\ ~IsPrefix(to, p)
    <2>1. q \in Paths /\ entries[q] = Directory
      BY <1>6 DEF FilesOK, TreeClosed
    <2>2. ~IsPrefix(to, q)
      BY <1>1, <1>2, <1>6, PrefixTransitive
    <2> QED BY <1>5, <2>1, <2>2
  <1>7. CASE IsPrefix(to, p)
    <2>1. ~Present(p)
      BY <1>7, NothingThere DEF Present
    <2>2. PICK s \in Paths :
              /\ s = Rebase(p, to, from) /\ IsPrefix(from, s) /\ visible[s] # Absent
      BY <1>3, <2>1, MovedWays DEF Present
    <2>3. Present(s)
      BY <2>2 DEF Present, FilesOK, VisibleAgrees
    <2>4. CASE IsPrefix(to, q)
      <3> DEFINE r == Rebase(q, to, from)
      <3>1. /\ r \in Seq(Names) /\ IsPrefix(from, r) /\ IsPrefix(r, s)
            /\ Rebase(r, from, to) = q
        BY <1>1, <1>2, <2>2, <2>4, RebasePoints, RebaseBelow, RebaseBack, RebaseKeepsPrefix
      <3>2. r # s
        BY <1>1, <1>2, <1>7, <2>2, <3>1, RebaseBack
      <3>3. r # <<>>
        <4>1. Len(from) <= Len(r) /\ Len(from) > 0 /\ Len(<<>>) = 0 /\ Len(from) \in Nat
          BY <1>1, <3>1, PrefixOfSameLength, PathLength, EmptySeq
        <4> QED BY <4>1
      <3>4. r \in Above(s)
        <4>1. s \in Seq(Names)
          BY Distinct
        <4>2. Len(r) <= Len(s) /\ Len(r) # Len(s) /\ Len(r) \in Nat /\ Len(s) \in Nat
          BY <3>1, <3>2, <4>1, PrefixOfSameLength
        <4>3. Len(r) < Len(s)
          BY <4>2
        <4> QED BY <3>1, <3>3, <4>1, <4>3, AboveIs
      <3>5. r \in Paths /\ entries[r] = Directory
        BY <2>3, <3>4 DEF FilesOK, TreeClosed
      <3>6. visible[r] = Directory
        BY <3>5 DEF FilesOK, VisibleAgrees, StagedIsFile
      <3>7. q \in Paths
        <4>1. CASE r = from
          BY <1>1, <3>1, <4>1, RebaseSelf
        <4>2. CASE r # from
          <5>1. r \in Under(from)
            BY <3>1, <3>5, <4>2, StrictlyUnder
          <5>2. Rebase(r, from, to) \in Paths
            BY <3>6, <5>1, Distinct
          <5> QED BY <3>1, <5>2
        <4> QED BY <4>1, <4>2
      <3>8. entries' = Moved(entries, from, to)
        BY AllMoved
      <3>9. entries'[q] = entries[r]
        BY <1>4, <2>4, <3>5, <3>7, <3>8, Distinct DEF Moved
      <3> QED BY <3>5, <3>7, <3>9
    <2>5. CASE ~IsPrefix(to, q)
      <3>1. IsPrefix(q, to)
        BY <1>1, <1>2, <1>7, <2>5, PrefixesComparable
      <3>2. q # to
        BY <1>1, <2>5, RebaseSelf
      <3>3. q \in Above(to)
        <4>1. Len(q) <= Len(to) /\ Len(q) # Len(to) /\ Len(q) \in Nat /\ Len(to) \in Nat
          BY <1>1, <1>2, <3>1, <3>2, PrefixOfSameLength
        <4>2. Len(q) < Len(to)
          BY <4>1
        <4> QED BY <1>1, <1>2, <3>1, <4>2, AboveIs
      <3>4. Ancestors(to)
        BY AncestorsExist DEF FilesOK, CanMove, CanCreate
      <3> QED BY <1>5, <2>5, <3>3, <3>4 DEF Ancestors
    <2> QED BY <2>4, <2>5
  <1>8. Present(p) \/ IsPrefix(to, p)
    BY <1>3, MovedWays DEF Present
  <1> QED BY <1>6, <1>7, <1>8

\* A rename keeps what is true of the files.
LEMMA MoveKeepsFiles ==
    ASSUME FilesOK, NEW from, NEW to, MayMove(from, to), Renamed(from, to),
           visible' = Moved(visible, from, to)
    PROVE  FilesOK'
  <1>1. /\ entries' = Moved(entries, from, to)
        /\ pending' = Moved(pending, from, to)
    BY AllMoved
  <1>2. /\ entries' \in [Paths -> Contents \cup {Directory, Absent}]
        /\ pending' \in [Paths -> Staged \cup {Absent}]
        /\ visible' \in [Paths -> Staged \cup {Directory, Absent}]
    BY <1>1 DEF FilesOK, Moved
  <1>3. \A p \in Paths :
            \/ /\ entries'[p] = Absent /\ pending'[p] = Absent /\ visible'[p] = Absent
            \/ \E s \in Paths : /\ entries'[p] = entries[s] /\ pending'[p] = pending[s]
                                /\ visible'[p] = visible[s]
    BY MovedWays
  <1>4. VisibleAgrees' /\ StagedIsFile' /\ PlaceholderIsNew'
    BY <1>3, Distinct DEF FilesOK, VisibleAgrees, StagedIsFile, PlaceholderIsNew
  <1> QED BY <1>2, <1>4, MoveKeepsTree DEF FilesOK

\* Where a visible path and its contents are found after the rename.
LEMMA VisibleMoves ==
    ASSUME FilesOK, NEW from, NEW to, MayMove(from, to), Renamed(from, to),
           visible' = Moved(visible, from, to),
           NEW p \in Paths, visible[p] # Absent
    PROVE  IF IsPrefix(from, p)
           THEN Rebase(p, from, to) \in Paths /\ visible'[Rebase(p, from, to)] = visible[p]
           ELSE visible'[p] = visible[p]
  <1> USE DEF MayMove
  <1>1. p \in Seq(Names) /\ from \in Seq(Names) /\ to \in Seq(Names)
    BY Distinct
  <1>2. CASE IsPrefix(from, p)
    <2> DEFINE r == Rebase(p, from, to)
    <2>1. r \in Seq(Names) /\ IsPrefix(to, r) /\ Rebase(r, to, from) = p
      BY <1>1, <1>2, RebasePoints, RebaseBelow, RebaseBack
    <2>2. r \in Paths
      BY <1>1, <1>2, RebaseSelf, StrictlyUnder
    <2>3. ~IsPrefix(from, r)
      BY <2>1, Apart
    <2> QED BY <1>2, <2>1, <2>2, <2>3 DEF Moved
  <1>3. CASE ~IsPrefix(from, p)
    <2>1. ~IsPrefix(to, p)
      BY NothingThere
    <2> QED BY <1>3, <2>1 DEF Moved
  <1> QED BY <1>2, <1>3

\* What stays staged was not below the path renamed.
LEMMA StagedStays ==
    ASSUME FilesOK, NEW from, NEW to, MayMove(from, to), Renamed(from, to),
           visible' = Moved(visible, from, to),
           NEW p \in Paths, pending'[p] \in Contents
    PROVE  pending[p] \in Contents /\ ~IsPrefix(from, p)
  <1>1. \A s \in Paths : IsPrefix(from, s) => pending[s] \notin Contents
    BY StrictlyUnder, Distinct DEF MayMove
  <1> QED BY <1>1, MovedWays, Distinct

-----------------------------------------------------------------------------
(* What every step keeps.                                                  *)

\* A failed commit leaves the files alone.
LEMMA FailureKeepsFiles ==
    ASSUME IInv, NEW selected, CommitFails(selected), UNCHANGED visible
    PROVE  FilesOK' /\ faults' \in 0 .. MaxFaults
  <1>1. UNCHANGED files
    BY DEF CommitFails, files
  <1>2. faults' \in 0 .. MaxFaults
    BY ConstantsAssumption DEF CommitFails, Fault, NoFault, CanFail, IInv, TypeOK
  <1> QED BY <1>1, <1>2, FilesKept DEF IInv

\* So does a transaction that is made or fails, and neither stages anything.
LEMMA TransactionKeeps ==
    ASSUME IInv, NEW selected, Commits(selected) \/ CommitFails(selected), UNCHANGED visible
    PROVE  /\ FilesOK' /\ faults' \in 0 .. MaxFaults
           /\ \A p \in Paths : pending'[p] # Absent => pending'[p] = pending[p]
  <1>1. CASE Commits(selected)
    <2>1. UNCHANGED faults
      BY <1>1 DEF Commits, NoFault
    <2> QED BY <1>1, <2>1, CommitKeepsFiles DEF IInv, TypeOK
  <1>2. CASE CommitFails(selected)
    BY <1>2, FailureKeepsFiles DEF CommitFails
  <1> QED BY <1>1, <1>2

\* After a successful commit of the session the paths selected have no contents
\* staged; after a failed one the mount has failed.
LEMMA SessionCommitKeeps ==
    ASSUME IInv, NEW selected, SessionCommits(selected), UNCHANGED visible
    PROVE  /\ FilesOK' /\ failed' \in BOOLEAN /\ faults' \in 0 .. MaxFaults
           /\ \A p \in Paths : pending'[p] # Absent => pending'[p] = pending[p]
           /\ ~failed' => ~failed /\ \A p \in Paths : p \in selected => pending'[p] \notin Contents
  <1>1. CASE Commits(selected) /\ UNCHANGED failed
    <2>1. UNCHANGED faults
      BY <1>1 DEF Commits, NoFault
    <2> QED BY <1>1, <2>1, CommitKeepsFiles DEF IInv, TypeOK
  <1>2. CASE CommitFails(selected) /\ failed' = TRUE
    BY <1>2, FailureKeepsFiles DEF CommitFails
  <1> QED BY <1>1, <1>2 DEF SessionCommits

\* After a successful synchronization what is still staged was staged before, and
\* is in the queue or was neither there nor synchronized.
LEMMA SynchronizeKeeps ==
    ASSUME IInv, NEW p \in Paths, Synchronize(p), UNCHANGED visible
    PROVE  /\ FilesOK' /\ failed' \in BOOLEAN /\ faults' \in 0 .. MaxFaults
           /\ queue' \in SUBSET Paths /\ acked' \in Paths \cup {None}
           /\ AcknowledgedIsCommitted'
           /\ ~failed' =>
                /\ ~failed
                /\ \A q \in Paths : pending'[q] \in Contents =>
                       /\ pending[q] \in Contents
                       /\ q \in queue' \/ (q \notin queue /\ q # p)
  <1>1. CASE relaxed
    <2>1. /\ queue' = queue \cup {p} /\ acked' = None
          /\ UNCHANGED <<entries, pending, failed, faults>>
      BY <1>1 DEF Synchronize
    <2> QED BY <2>1, FilesKept DEF files, IInv, TypeOK, AcknowledgedIsCommitted
  <1>2. CASE ~relaxed
    <2>1. /\ queue' = {} /\ SessionCommits(queue \cup {p})
          /\ acked' = IF failed' THEN None ELSE p
      BY <1>2 DEF Synchronize
    <2>2. /\ FilesOK' /\ failed' \in BOOLEAN /\ faults' \in 0 .. MaxFaults
          /\ \A q \in Paths : pending'[q] # Absent => pending'[q] = pending[q]
          /\ ~failed' => ~failed
          /\ ~failed' => \A q \in Paths : q \in queue \cup {p} => pending'[q] \notin Contents
      BY <2>1, SessionCommitKeeps
    <2>3. AcknowledgedIsCommitted'
      <3>1. CASE failed'
        BY <2>1, <3>1 DEF AcknowledgedIsCommitted
      <3>2. CASE ~failed'
        <4>1. pending'[p] \notin Contents
          BY <2>2, <3>2
        <4>2. (entries[p] = Kept(visible[p]))'
          BY <2>2, <4>1, Distinct
             DEF FilesOK, VisibleAgrees, PlaceholderIsNew, Kept, Staged
        <4> QED BY <2>1, <3>2, <4>2 DEF AcknowledgedIsCommitted, Kept
      <3> QED BY <3>1, <3>2
    <2> QED BY <2>1, <2>2, <2>3, Distinct
  <1> QED BY <1>1, <1>2

\* A visible file, or one that is open, may be staged again.
LEMMA VisibleFile ==
    ASSUME FilesOK, NEW p \in Paths, visible[p] \in Staged
    PROVE  entries[p] # Directory /\ Ancestors(p)
  <1>1. entries[p] # Directory
    BY Distinct DEF FilesOK, VisibleAgrees, StagedIsFile, Staged
  <1>2. Present(p)
    BY Distinct DEF FilesOK, VisibleAgrees, Staged, Present
  <1> QED BY <1>1, <1>2 DEF FilesOK, TreeClosed, Ancestors

\* A write keeps what is true of the files, unless it empties a committed one.
LEMMA StageKeeps ==
    ASSUME Habits = {}, FilesOK, NEW p \in Paths, NEW bytes \in Staged,
           visible[p] \in Staged, Stage(p, bytes), UNCHANGED entries
    PROVE  FilesOK'
  <1>1. bytes = Empty => entries[p] = Absent
    BY DEF Stage
  <1> QED BY <1>1, VisibleFile, StageKeepsFiles DEF Stage

-----------------------------------------------------------------------------

\* A new file is a placeholder in a directory, and its handle is clean.
LEMMA CreateKeeps ==
    ASSUME IInv, NEW h \in Handles, NEW p \in Paths, Create(h, p), UNCHANGED relaxed
    PROVE  IInv'
  <1> USE DEF Create, Begin, Quiet, IInv, SessionOK
  <1>1. FilesOK'
    <2>1. Ancestors(p) /\ entries[p] # Directory /\ entries[p] = Absent
      BY AncestorsExist, Distinct DEF CanCreate, FilesOK
    <2> QED BY <2>1, StageKeepsFiles DEF Staged
  <1>2. TypeOK'
    BY DEF TypeOK, Staged
  <1>3. HandlesOnFiles'
    BY DEF HandlesOnFiles, TypeOK, Staged
  <1>4. Tracked'
    BY Distinct DEF Tracked, TypeOK
  <1> QED
    BY <1>1, <1>2, <1>3, <1>4
       DEF BusyMeansHealthy, JobFits, AcknowledgedIsCommitted, UnmountKeepsEverything

\* A file is opened where readers see one.
LEMMA OpenFileKeeps ==
    ASSUME IInv, NEW h \in Handles, NEW p \in Paths, OpenFile(h, p), UNCHANGED relaxed
    PROVE  IInv'
  <1> USE DEF OpenFile, Begin, Quiet, IInv, SessionOK, files
  <1>1. FilesOK'
    BY FilesKept
  <1>2. TypeOK'
    BY DEF TypeOK
  <1>3. HandlesOnFiles'
    BY DEF HandlesOnFiles, TypeOK
  <1>4. Tracked'
    BY DEF Tracked, TypeOK
  <1> QED
    BY <1>1, <1>2, <1>3, <1>4
       DEF BusyMeansHealthy, JobFits, AcknowledgedIsCommitted, UnmountKeepsEverything

\* A write stages contents and makes its own handle dirty.
LEMMA WriteKeeps ==
    ASSUME Habits = {}, IInv, NEW h \in Handles, NEW bytes \in Staged,
           Write(h, bytes), UNCHANGED relaxed
    PROVE  IInv'
  <1> USE DEF Write, Begin, Quiet, IInv, SessionOK
  <1> DEFINE p == handles[h].path
  <1>1. handles[h] \in [path : Paths, dirty : BOOLEAN] /\ visible[p] \in Staged
    BY DEF TypeOK, HandlesOnFiles
  <1>2. p \in Paths
    BY <1>1
  <1>3. FilesOK'
    BY <1>1, <1>2, StageKeeps
  <1>4. TypeOK'
    <2>1. handles' \in [Handles -> [path : Paths, dirty : BOOLEAN] \cup {Closed}]
      BY <1>1 DEF TypeOK
    <2> QED BY <2>1, <1>3 DEF TypeOK, FilesOK
  <1>5. \A g \in Handles : handles[g] # Closed =>
            handles'[g] # Closed /\ handles'[g].path = handles[g].path
    BY <1>1, ConstantsAssumption DEF TypeOK
  <1>6. \A g \in Handles : handles'[g] # Closed => handles[g] # Closed
    BY <1>1 DEF TypeOK
  <1>7. HandlesOnFiles'
    <2> SUFFICES ASSUME NEW g \in Handles, handles'[g] # Closed
                 PROVE  visible'[handles'[g].path] \in Staged
      BY DEF HandlesOnFiles
    <2>1. handles'[g].path = handles[g].path /\ visible[handles[g].path] \in Staged
      BY <1>5, <1>6 DEF HandlesOnFiles
    <2>2. visible' = [visible EXCEPT ![p] = bytes]
      BY DEF Stage
    <2>3. handles[g].path \in Paths
      BY <1>6 DEF TypeOK
    <2> QED BY <2>1, <2>2, <2>3 DEF TypeOK
  <1>8. Tracked'
    <2> SUFFICES ASSUME ~failed, NEW q \in Paths, pending'[q] \in Contents
                 PROVE  \/ q \in queue'
                        \/ \E g \in Handles :
                               handles'[g] # Closed /\ handles'[g] = [path |-> q, dirty |-> TRUE]
      BY DEF Tracked
    <2>1. CASE q = p
      <3>1. handles'[h] = [path |-> p, dirty |-> TRUE]
        BY <1>1 DEF TypeOK
      <3> QED BY <1>5, <2>1, <3>1
    <2>2. CASE q # p
      <3>1. pending[q] \in Contents
        BY <2>2 DEF Stage, TypeOK
      <3>2. CASE q \in queue
        BY <3>2
      <3>3. CASE \E g \in Handles :
                     handles[g] # Closed /\ handles[g] = [path |-> q, dirty |-> TRUE]
        <4> PICK g \in Handles :
                handles[g] # Closed /\ handles[g] = [path |-> q, dirty |-> TRUE]
          BY <3>3
        <4>1. g # h
          BY <2>2
        <4> QED BY <4>1 DEF TypeOK
      <3> QED BY <3>1, <3>2, <3>3 DEF Tracked
    <2> QED BY <2>1, <2>2
  <1> QED
    BY <1>3, <1>4, <1>7, <1>8
       DEF BusyMeansHealthy, JobFits, AcknowledgedIsCommitted, UnmountKeepsEverything

\* A truncate stages contents, which its second step synchronizes.
LEMMA TruncateKeeps ==
    ASSUME Habits = {}, IInv, NEW p \in Paths, NEW bytes \in Staged,
           Truncate(p, bytes), UNCHANGED relaxed
    PROVE  IInv'
  <1> USE DEF Truncate, Begin, IInv, SessionOK
  <1>1. FilesOK'
    BY StageKeeps
  <1>2. TypeOK'
    BY <1>1 DEF TypeOK, FilesOK
  <1>3. HandlesOnFiles'
    BY DEF HandlesOnFiles, TypeOK, Stage
  <1>4. Tracked'
    BY DEF Tracked, TypeOK, Stage
  <1> QED
    BY <1>1, <1>2, <1>3, <1>4
       DEF BusyMeansHealthy, JobFits, AcknowledgedIsCommitted, UnmountKeepsEverything

\* fsync commits its path at once, or leaves it to the queue.
LEMMA FsyncKeeps ==
    ASSUME IInv, NEW h \in Handles, Fsync(h), UNCHANGED relaxed
    PROVE  IInv'
  <1> USE DEF Fsync, Begin, Quiet, IInv, SessionOK
  <1>1. handles[h].path \in Paths
    BY DEF TypeOK
  <1>2. /\ FilesOK' /\ failed' \in BOOLEAN /\ faults' \in 0 .. MaxFaults
        /\ queue' \in SUBSET Paths /\ acked' \in Paths \cup {None}
        /\ AcknowledgedIsCommitted'
        /\ ~failed' =>
             /\ ~failed
             /\ \A q \in Paths : pending'[q] \in Contents =>
                    /\ pending[q] \in Contents
                    /\ q \in queue' \/ (q \notin queue /\ q # handles[h].path)
    BY <1>1, SynchronizeKeeps
  <1>3. TypeOK'
    BY <1>2 DEF TypeOK, FilesOK
  <1>4. HandlesOnFiles'
    BY DEF HandlesOnFiles
  <1>5. Tracked'
    BY <1>2 DEF Tracked
  <1> QED BY <1>2, <1>3, <1>4, <1>5 DEF BusyMeansHealthy, JobFits, UnmountKeepsEverything

\* A release commits its path, or queues it, unless a dirty handle is left to.
LEMMA ReleaseKeeps ==
    ASSUME IInv, NEW h \in Handles, Release(h), UNCHANGED relaxed
    PROVE  IInv'
  <1> USE DEF Release, Quiet, IInv, SessionOK
  <1>1. handles[h] \in [path : Paths, dirty : BOOLEAN] /\ handles[h].path \in Paths
    BY DEF TypeOK
  <1>2. handles' \in [Handles -> [path : Paths, dirty : BOOLEAN] \cup {Closed}]
    BY DEF TypeOK
  <1>3. \A g \in Handles : g # h => handles'[g] = handles[g]
    BY DEF TypeOK
  <1>4. HandlesOnFiles'
    BY <1>3 DEF HandlesOnFiles, TypeOK
  <1>5. CASE handles[h].dirty /\ ~failed
    <2>1. /\ FilesOK' /\ failed' \in BOOLEAN /\ faults' \in 0 .. MaxFaults
          /\ queue' \in SUBSET Paths /\ acked' \in Paths \cup {None}
          /\ AcknowledgedIsCommitted'
          /\ ~failed' =>
               /\ ~failed
               /\ \A q \in Paths : pending'[q] \in Contents =>
                      /\ pending[q] \in Contents
                      /\ q \in queue' \/ (q \notin queue /\ q # handles[h].path)
      BY <1>1, <1>5, SynchronizeKeeps
    <2>2. TypeOK'
      BY <1>2, <2>1 DEF TypeOK, FilesOK
    <2>3. Tracked'
      <3> SUFFICES ASSUME ~failed', NEW q \in Paths, pending'[q] \in Contents, q \notin queue'
                   PROVE  \E g \in Handles :
                              handles'[g] # Closed /\ handles'[g] = [path |-> q, dirty |-> TRUE]
        BY DEF Tracked
      <3>1. ~failed /\ pending[q] \in Contents /\ q \notin queue /\ q # handles[h].path
        BY <2>1
      <3>2. PICK g \in Handles :
                handles[g] # Closed /\ handles[g] = [path |-> q, dirty |-> TRUE]
        BY <3>1 DEF Tracked
      <3>3. g # h
        BY <3>1, <3>2
      <3> QED BY <1>3, <3>2, <3>3
    <2> QED BY <1>4, <2>1, <2>2, <2>3 DEF BusyMeansHealthy, JobFits, UnmountKeepsEverything
  <1>6. CASE ~(handles[h].dirty /\ ~failed)
    <2>1. acked' = None /\ UNCHANGED <<entries, pending, queue, failed, faults>>
      BY <1>6
    <2>2. FilesOK'
      BY <2>1, FilesKept DEF files
    <2>3. TypeOK'
      BY <1>2, <2>1 DEF TypeOK
    <2>4. Tracked'
      <3> SUFFICES ASSUME ~failed, NEW q \in Paths, pending[q] \in Contents, q \notin queue
                   PROVE  \E g \in Handles :
                              handles'[g] # Closed /\ handles'[g] = [path |-> q, dirty |-> TRUE]
        BY <2>1 DEF Tracked
      <3>1. PICK g \in Handles :
                handles[g] # Closed /\ handles[g] = [path |-> q, dirty |-> TRUE]
        BY DEF Tracked
      <3>2. g # h
        BY <1>6, <3>1
      <3> QED BY <1>3, <3>1, <3>2
    <2> QED
      BY <1>4, <2>1, <2>2, <2>3, <2>4
         DEF BusyMeansHealthy, JobFits, AcknowledgedIsCommitted, UnmountKeepsEverything
  <1> QED BY <1>5, <1>6

\* What is unlinked is closed, so that no handle waits to commit it.
LEMMA UnlinkKeeps ==
    ASSUME IInv, NEW p \in Paths, Unlink(p), UNCHANGED relaxed
    PROVE  IInv'
  <1> USE DEF Begin, Quiet, IInv, SessionOK
  <1>1. CASE UNCHANGED <<files, queue>> /\ Fault
    <2>1. FilesOK'
      BY <1>1, FilesKept
    <2>2. TypeOK'
      BY <1>1, ConstantsAssumption DEF Unlink, TypeOK, files, Fault, CanFail
    <2> QED
      BY <1>1, <2>1, <2>2
         DEF Unlink, files, HandlesOnFiles, Tracked, BusyMeansHealthy, JobFits,
             AcknowledgedIsCommitted, UnmountKeepsEverything
  <1>2. CASE /\ NoFault
             /\ entries' = [entries EXCEPT ![p] = Absent]
             /\ pending' = [pending EXCEPT ![p] = Absent]
             /\ visible' = [visible EXCEPT ![p] = Absent]
             /\ queue' = queue \cup {p}
    <2>1. FilesOK'
      BY <1>2, VisibleFile, UnlinkKeepsFiles DEF Unlink
    <2>2. TypeOK'
      BY <1>2, <2>1 DEF Unlink, TypeOK, FilesOK, NoFault
    <2>3. HandlesOnFiles'
      BY <1>2 DEF Unlink, HandlesOnFiles, InUse, TypeOK
    <2>4. Tracked'
      BY <1>2, Distinct DEF Unlink, Tracked, TypeOK
    <2> QED
      BY <1>2, <2>1, <2>2, <2>3, <2>4
         DEF Unlink, BusyMeansHealthy, JobFits, AcknowledgedIsCommitted, UnmountKeepsEverything
  <1> QED BY <1>1, <1>2 DEF Unlink

\* A directory comes where neither a file nor a staged file is.
LEMMA MkdirKeeps ==
    ASSUME IInv, NEW p \in Paths, Mkdir(p), UNCHANGED relaxed
    PROVE  IInv'
  <1> USE DEF Begin, Quiet, ThenFinish, IInv, SessionOK
  <1>1. CASE Fault /\ UNCHANGED <<entries, visible>> /\ Quiet
    <2>1. FilesOK'
      BY <1>1, FilesKept DEF Mkdir, files
    <2>2. TypeOK'
      BY <1>1, ConstantsAssumption DEF Mkdir, TypeOK, Fault, CanFail
    <2> QED
      BY <1>1, <2>1, <2>2
         DEF Mkdir, HandlesOnFiles, Tracked, BusyMeansHealthy, JobFits,
             AcknowledgedIsCommitted, UnmountKeepsEverything
  <1>2. CASE /\ NoFault
             /\ entries' = [entries EXCEPT ![p] = Directory]
             /\ visible' = [visible EXCEPT ![p] = Directory]
             /\ ThenFinish
    <2>1. Ancestors(p)
      BY AncestorsExist DEF Mkdir, CanCreate, FilesOK
    <2>2. FilesOK'
      BY <1>2, <2>1, MkdirKeepsFiles DEF Mkdir
    <2>3. TypeOK'
      BY <1>2, <2>2 DEF Mkdir, TypeOK, FilesOK, NoFault
    <2>4. HandlesOnFiles'
      BY <1>2, Distinct DEF Mkdir, HandlesOnFiles, TypeOK, Staged
    <2>5. Tracked'
      BY <1>2 DEF Mkdir, Tracked
    <2> QED
      BY <1>2, <2>2, <2>3, <2>4, <2>5
         DEF Mkdir, BusyMeansHealthy, JobFits, AcknowledgedIsCommitted, UnmountKeepsEverything
  <1> QED BY <1>1, <1>2 DEF Mkdir

\* A directory goes only when nothing is left below it.
LEMMA RmdirKeeps ==
    ASSUME IInv, NEW p \in Paths, Rmdir(p), UNCHANGED relaxed
    PROVE  IInv'
  <1> USE DEF Begin, Quiet, ThenFinish, IInv, SessionOK
  <1>1. CASE Fault /\ UNCHANGED <<entries, visible>> /\ Quiet
    <2>1. FilesOK'
      BY <1>1, FilesKept DEF Rmdir, files
    <2>2. TypeOK'
      BY <1>1, ConstantsAssumption DEF Rmdir, TypeOK, Fault, CanFail
    <2> QED
      BY <1>1, <2>1, <2>2
         DEF Rmdir, HandlesOnFiles, Tracked, BusyMeansHealthy, JobFits,
             AcknowledgedIsCommitted, UnmountKeepsEverything
  <1>2. CASE /\ NoFault
             /\ entries' = [entries EXCEPT ![p] = Absent]
             /\ visible' = [visible EXCEPT ![p] = Absent]
             /\ ThenFinish
    <2>1. FilesOK'
      BY <1>2, RmdirKeepsFiles DEF Rmdir
    <2>2. TypeOK'
      BY <1>2, <2>1 DEF Rmdir, TypeOK, FilesOK, NoFault
    <2>3. HandlesOnFiles'
      BY <1>2, Distinct DEF Rmdir, HandlesOnFiles, TypeOK, Staged
    <2>4. Tracked'
      BY <1>2 DEF Rmdir, Tracked
    <2> QED
      BY <1>2, <2>1, <2>2, <2>3, <2>4
         DEF Rmdir, BusyMeansHealthy, JobFits, AcknowledgedIsCommitted, UnmountKeepsEverything
  <1> QED BY <1>1, <1>2 DEF Rmdir

\* What a rename has found and committed when it goes on to move.
LEMMA RenameKeeps ==
    ASSUME Habits = {}, IInv, NEW from \in Paths, NEW to \in Paths,
           Rename(from, to), UNCHANGED relaxed
    PROVE  IInv'
  <1> USE DEF Begin, IInv, SessionOK
  <1>1. /\ pc = "idle" /\ ~failed /\ Renames(from, to) /\ acked' = None
        /\ UNCHANGED <<visible, handles>> /\ job = NoJob
        /\ job' = IF pc' = "move" THEN [from |-> from, to |-> to] ELSE NoJob
    BY DEF Rename, JobFits
  <1>2. \/ /\ visible[from] = Directory /\ queue' = queue /\ failed' = failed
           /\ \/ Commits(Paths) /\ pc' = "move"
              \/ CommitFails(Paths) /\ pc' = "idle"
        \/ /\ visible[from] # Directory
           /\ queue' = queue \ {from} /\ SessionCommits({from})
           /\ pc' = IF failed' THEN "idle" ELSE "move"
        \/ /\ visible[from] # Directory /\ queue' = queue /\ failed' = failed
           /\ \/ Commits({from}) /\ pc' = "move"
              \/ CommitFails({from}) /\ pc' = "idle"
    BY <1>1 DEF Rename
  <1>3. /\ FilesOK' /\ failed' \in BOOLEAN /\ faults' \in 0 .. MaxFaults
        /\ \A p \in Paths : pending'[p] # Absent => pending'[p] = pending[p]
    <2>1. failed' \in BOOLEAN
      BY <1>2 DEF TypeOK, SessionCommits
    <2>2. PICK S : Commits(S) \/ CommitFails(S)
      BY <1>2 DEF SessionCommits
    <2> QED BY <1>1, <2>1, <2>2, TransactionKeeps
  <1>4. pc' \in {"idle", "move"} /\ (pc' = "move" => ~failed')
    BY <1>1, <1>2
  <1>5. pc' = "move" => \E S : Commits(S) /\ from \in S /\ (visible[from] = Directory => S = Paths)
    BY <1>1, <1>2, Distinct DEF SessionCommits
  <1>6. ASSUME pc' = "move", NEW p \in Under(from)
        PROVE  pending'[p] = Absent
    <2>1. p \in Paths /\ from \in Above(p)
      BY UnderAbove DEF Under
    <2>2. CASE visible[from] = Directory
      <3>1. pending'[p] \notin Contents
        BY <1>1, <1>5, <1>6, <2>1, <2>2, CommitKeepsFiles
      <3>2. pending[p] # Empty
        BY <1>1 DEF Renames
      <3>3. pending[p] \in Staged \cup {Absent}
        BY <2>1 DEF FilesOK
      <3> QED BY <1>3, <2>1, <3>1, <3>2, <3>3 DEF Staged
    <2>3. CASE visible[from] # Directory
      <3>1. entries[from] # Directory
        BY <2>3 DEF FilesOK, VisibleAgrees, StagedIsFile
      <3>2. pending[p] = Absent
        BY <2>1, <3>1 DEF FilesOK, TreeClosed, Present
      <3> QED BY <1>3, <2>1, <3>2
    <2> QED BY <2>2, <2>3
  <1>7. pc' = "move" => pending'[from] \notin Contents
    BY <1>1, <1>5, CommitKeepsFiles
  <1>8. JobFits'
    <2>1. CASE pc' = "move"
      <3>1. job' = [from |-> from, to |-> to]
        BY <1>1, <2>1
      <3>2. job'.from = from /\ job'.to = to
        BY <3>1
      <3> QED BY <1>1, <1>6, <1>7, <2>1, <3>2 DEF JobFits, Renames
    <2>2. CASE pc' = "idle"
      BY <1>1, <2>2 DEF JobFits
    <2> QED BY <1>4, <2>1, <2>2
  <1>9. Tracked'
    <2> SUFFICES ASSUME ~failed', NEW p \in Paths, pending'[p] \in Contents
                 PROVE  p \in queue' \/ \E h \in Handles :
                            handles[h] # Closed /\ handles[h] = [path |-> p, dirty |-> TRUE]
      BY <1>1 DEF Tracked
    <2>1. pending[p] \in Contents
      BY <1>3, Distinct
    <2>2. CASE visible[from] # Directory /\ queue' = queue \ {from} /\ SessionCommits({from})
      <3>1. p # from
        BY <1>1, <2>2, SessionCommitKeeps
      <3> QED BY <1>1, <2>1, <2>2, <3>1 DEF Tracked
    <2>3. CASE queue' = queue
      BY <1>1, <2>1, <2>3 DEF Tracked
    <2> QED BY <1>2, <2>2, <2>3
  <1>10. TypeOK'
    <2>1. queue' \in SUBSET Paths
      BY <1>2 DEF TypeOK
    <2>2. job' \in [from : Paths \cup {<<>>}, to : Paths \cup {<<>>}]
      BY <1>1 DEF NoJob
    <2> QED BY <1>1, <1>3, <1>4, <2>1, <2>2 DEF TypeOK, FilesOK
  <1>11. HandlesOnFiles'
    BY <1>1 DEF HandlesOnFiles
  <1> QED
    BY <1>1, <1>3, <1>4, <1>8, <1>9, <1>10, <1>11
       DEF BusyMeansHealthy, AcknowledgedIsCommitted, UnmountKeepsEverything

\* The transaction of a rename moves files, staged files, handles and queue alike.
LEMMA MoveKeeps ==
    ASSUME IInv, Move, UNCHANGED relaxed
    PROVE  IInv'
  <1> DEFINE from == job.from
             to   == job.to
  <1> USE DEF IInv, SessionOK
  <1>1. /\ pc = "move" /\ Renamed(from, to) /\ HandlesFollow(from, to)
        /\ visible' = Moved(visible, from, to)
        /\ job' = NoJob /\ acked' = None /\ failed' = failed
        /\ faults' = faults
        /\ \/ pc' = "idle" /\ queue' = queue \cup {to}
           \/ pc' = "finish" /\ queue' = queue
    BY DEF Move, Renamed, NoFault
  <1>2. MayMove(from, to)
    BY <1>1 DEF JobFits, MayMove, Renamed
  <1>3. from \in Paths /\ to \in Paths
    BY <1>2 DEF MayMove
  <1> HIDE DEF from, to
  <1>4. FilesOK'
    BY <1>1, <1>2, MoveKeepsFiles
  <1>5. ASSUME NEW h \in Handles, handles[h] # Closed
        PROVE  /\ handles'[h] \in [path : Paths, dirty : BOOLEAN]
               /\ visible'[handles'[h].path] \in Staged
               /\ ~IsPrefix(from, handles[h].path) => handles'[h] = handles[h]
    <2> DEFINE p == handles[h].path
    <2>1. handles[h] \in [path : Paths, dirty : BOOLEAN] /\ visible[p] \in Staged
      BY <1>5 DEF TypeOK, HandlesOnFiles
    <2>2. p \in Paths /\ visible[p] # Absent
      BY <2>1, Distinct DEF Staged
    <2>3. CASE IsPrefix(from, p)
      <3>1. Rebase(p, from, to) \in Paths /\ visible'[Rebase(p, from, to)] = visible[p]
        BY <1>1, <1>2, <2>2, <2>3, VisibleMoves
      <3>2. handles'[h] = [handles[h] EXCEPT !.path = Rebase(p, from, to)]
        BY <1>1, <1>5, <2>3 DEF HandlesFollow
      <3>3. /\ handles'[h] \in [path : Paths, dirty : BOOLEAN]
            /\ handles'[h].path = Rebase(p, from, to)
        BY <2>1, <3>1, <3>2
      <3> QED BY <2>1, <2>3, <3>1, <3>3
    <2>4. CASE ~IsPrefix(from, p)
      <3>1. visible'[p] = visible[p]
        BY <1>1, <1>2, <2>2, <2>4, VisibleMoves
      <3>2. handles'[h] = handles[h]
        BY <1>1, <2>4 DEF HandlesFollow
      <3> QED BY <2>1, <3>1, <3>2
    <2> QED BY <2>3, <2>4
  <1>6. \A h \in Handles : handles[h] = Closed => handles'[h] = Closed
    BY <1>1 DEF HandlesFollow
  <1>7. handles' \in [Handles -> [path : Paths, dirty : BOOLEAN] \cup {Closed}]
    <2>1. \A h \in Handles : handles'[h] \in [path : Paths, dirty : BOOLEAN] \cup {Closed}
      BY <1>5, <1>6
    <2> QED BY <1>1, <2>1 DEF HandlesFollow
  <1>8. HandlesOnFiles'
    BY <1>5, <1>6 DEF HandlesOnFiles
  <1>9. TypeOK'
    BY <1>1, <1>3, <1>4, <1>7 DEF TypeOK, FilesOK, NoJob
  <1>10. Tracked'
    <2> SUFFICES ASSUME ~failed, NEW p \in Paths, pending'[p] \in Contents, p \notin queue
                 PROVE  \E h \in Handles :
                            handles'[h] # Closed /\ handles'[h] = [path |-> p, dirty |-> TRUE]
      BY <1>1 DEF Tracked
    <2>1. pending[p] \in Contents /\ ~IsPrefix(from, p)
      BY <1>1, <1>2, <1>4, StagedStays
    <2>2. PICK h \in Handles :
              handles[h] # Closed /\ handles[h] = [path |-> p, dirty |-> TRUE]
      BY <1>1, <2>1 DEF Tracked
    <2>3. handles'[h] = handles[h]
      BY <1>5, <2>1, <2>2
    <2> QED BY <2>2, <2>3
  <1> QED
    BY <1>1, <1>4, <1>8, <1>9, <1>10
       DEF BusyMeansHealthy, JobFits, AcknowledgedIsCommitted, UnmountKeepsEverything

\* A rename whose transaction fails leaves everything where it was.
LEMMA MoveFailsKeeps ==
    ASSUME IInv, MoveFails, UNCHANGED relaxed
    PROVE  IInv'
  <1> USE DEF IInv, SessionOK, MoveFails
  <1>1. FilesOK'
    BY FilesKept
  <1>2. TypeOK'
    BY ConstantsAssumption DEF TypeOK, files, NoJob, Fault, CanFail, NoFault
  <1>3. Tracked'
    BY DEF Tracked, files
  <1>4. HandlesOnFiles'
    BY DEF HandlesOnFiles, files
  <1> QED
    BY <1>1, <1>2, <1>3, <1>4
       DEF BusyMeansHealthy, JobFits, AcknowledgedIsCommitted, UnmountKeepsEverything

\* The last step of a callback synchronizes the path it has staged or moved.
LEMMA FinishKeeps ==
    ASSUME IInv, Finish, UNCHANGED relaxed
    PROVE  IInv'
  <1> USE DEF IInv, SessionOK
  <1>1. /\ pc = "finish" /\ pc' = "idle" /\ job' = NoJob /\ acked' = None
        /\ UNCHANGED <<visible, handles>>
    BY DEF Finish
  <1>2. PICK S \in SUBSET Paths : /\ queue' = queue \ S /\ SessionCommits(S)
                                  /\ job.from \in Paths => job.from \in S
    <2>1. CASE job = NoJob
      <3>1. queue' = queue \ Paths
        BY <2>1 DEF Finish, TypeOK
      <3> QED BY <2>1, <3>1 DEF Finish
    <2>2. CASE job # NoJob
      BY <1>1, <2>2 DEF Finish, JobFits
    <2> QED BY <2>1, <2>2
  <1>3. /\ FilesOK' /\ failed' \in BOOLEAN /\ faults' \in 0 .. MaxFaults
        /\ \A p \in Paths : pending'[p] # Absent => pending'[p] = pending[p]
        /\ ~failed' => ~failed /\ \A p \in Paths : p \in S => pending'[p] \notin Contents
    BY <1>1, <1>2, SessionCommitKeeps
  <1>4. TypeOK'
    BY <1>1, <1>2, <1>3 DEF TypeOK, FilesOK, NoJob
  <1>5. Tracked'
    BY <1>1, <1>2, <1>3, Distinct DEF Tracked
  <1>6. HandlesOnFiles'
    BY <1>1 DEF HandlesOnFiles
  <1> QED
    BY <1>1, <1>3, <1>4, <1>5, <1>6
       DEF BusyMeansHealthy, JobFits, AcknowledgedIsCommitted, UnmountKeepsEverything

\* The deferred thread commits just what is queued.
LEMMA DeferredCommitKeeps ==
    ASSUME IInv, DeferredCommit, UNCHANGED relaxed
    PROVE  IInv'
  <1> USE DEF IInv, SessionOK, Quiet
  <1>1. /\ pc = "idle" /\ queue' = {} /\ acked' = None
        /\ UNCHANGED <<visible, handles, pc, job>>
    BY DEF DeferredCommit
  <1>2. CASE failed /\ UNCHANGED <<entries, pending, failed, faults>>
    <2>1. FilesOK'
      BY <1>1, <1>2, FilesKept DEF files
    <2> QED
      BY <1>1, <1>2, <2>1
         DEF TypeOK, Tracked, HandlesOnFiles, BusyMeansHealthy, JobFits,
             AcknowledgedIsCommitted, UnmountKeepsEverything
  <1>3. CASE ~failed /\ SessionCommits(queue)
    <2>1. /\ FilesOK' /\ failed' \in BOOLEAN /\ faults' \in 0 .. MaxFaults
          /\ \A p \in Paths : pending'[p] # Absent => pending'[p] = pending[p]
          /\ ~failed' => ~failed /\ \A p \in Paths : p \in queue => pending'[p] \notin Contents
      BY <1>1, <1>3, SessionCommitKeeps
    <2>2. TypeOK'
      BY <1>1, <2>1 DEF TypeOK, FilesOK
    <2>3. Tracked'
      BY <1>1, <2>1, Distinct DEF Tracked
    <2>4. HandlesOnFiles'
      BY <1>1 DEF HandlesOnFiles
    <2> QED
      BY <1>1, <2>1, <2>2, <2>3, <2>4
         DEF BusyMeansHealthy, JobFits, AcknowledgedIsCommitted, UnmountKeepsEverything
  <1> QED BY <1>2, <1>3 DEF DeferredCommit

\* An unmount commits everything, unless a commit has failed.
LEMMA DestroyKeeps ==
    ASSUME IInv, Destroy, UNCHANGED relaxed
    PROVE  IInv'
  <1> USE DEF IInv, SessionOK
  <1>1. /\ pc = "idle" /\ pc' = "unmounted" /\ acked' = None
        /\ UNCHANGED <<visible, handles, job>>
    BY DEF Destroy
  <1>2. CASE failed
    <2>1. UNCHANGED <<entries, pending, queue, failed, faults>>
      BY <1>2 DEF Destroy
    <2>2. FilesOK'
      BY <1>1, <2>1, FilesKept DEF files
    <2> QED
      BY <1>1, <1>2, <2>1, <2>2
         DEF TypeOK, Tracked, HandlesOnFiles, BusyMeansHealthy, JobFits,
             AcknowledgedIsCommitted, UnmountKeepsEverything
  <1>3. CASE ~failed
    <2>1. queue' = {} /\ SessionCommits(Paths)
      BY <1>3 DEF Destroy
    <2>2. /\ FilesOK' /\ failed' \in BOOLEAN /\ faults' \in 0 .. MaxFaults
          /\ ~failed' => \A p \in Paths : pending'[p] \notin Contents
      BY <1>1, <2>1, SessionCommitKeeps
    <2>3. TypeOK'
      BY <1>1, <2>1, <2>2 DEF TypeOK, FilesOK
    <2>4. Tracked' /\ HandlesOnFiles'
      BY <1>1, <2>2 DEF Tracked, HandlesOnFiles
    <2>5. UnmountKeepsEverything'
      BY <2>2, Distinct
         DEF UnmountKeepsEverything, FilesOK, VisibleAgrees, PlaceholderIsNew, Kept, Staged
    <2> QED
      BY <1>1, <2>2, <2>3, <2>4, <2>5 DEF BusyMeansHealthy, JobFits, AcknowledgedIsCommitted
  <1> QED BY <1>2, <1>3

\* Where no callback runs, nothing changes.
LEMMA StutterKeeps ==
    ASSUME IInv, UNCHANGED vars
    PROVE  IInv'
  <1>1. FilesOK'
    BY FilesKept DEF IInv, vars, files
  <1> QED
    BY <1>1
       DEF vars, IInv, SessionOK, TypeOK, Tracked, HandlesOnFiles, BusyMeansHealthy, JobFits,
           AcknowledgedIsCommitted, UnmountKeepsEverything

-----------------------------------------------------------------------------
(* The theorems.                                                           *)

\* Nothing is mounted yet that could be wrong.
LEMMA InitKeeps == Init => IInv
  <1> SUFFICES ASSUME Init PROVE IInv
    OBVIOUS
  <1> USE Distinct DEF Init
  <1>1. FilesOK
    BY DEF FilesOK, VisibleAgrees, TreeClosed, Present, StagedIsFile, PlaceholderIsNew
  <1>2. TypeOK
    <2>1. /\ entries \in [Paths -> Contents \cup {Directory, Absent}]
          /\ pending \in [Paths -> Staged \cup {Absent}]
          /\ visible \in [Paths -> Staged \cup {Directory, Absent}]
      OBVIOUS
    <2>2. handles \in [Handles -> [path : Paths, dirty : BOOLEAN] \cup {Closed}]
      OBVIOUS
    <2>3. job \in [from : Paths \cup {<<>>}, to : Paths \cup {<<>>}]
      BY DEF NoJob
    <2>4. faults \in 0 .. MaxFaults
      BY ConstantsAssumption
    <2> QED BY <2>1, <2>2, <2>3, <2>4 DEF TypeOK
  <1>3. SessionOK
    BY DEF SessionOK, HandlesOnFiles, BusyMeansHealthy, JobFits, Tracked,
           AcknowledgedIsCommitted, UnmountKeepsEverything
  <1> QED BY <1>1, <1>2, <1>3 DEF IInv

\* Every step keeps the invariant.
LEMMA NextKeeps ==
    ASSUME Habits = {}, IInv, [Next]_vars
    PROVE  IInv'
  <1>1. CASE UNCHANGED vars
    BY <1>1, StutterKeeps
  <1>2. CASE Callback /\ UNCHANGED relaxed
    <2>1. ASSUME NEW h \in Handles, \E p \in Paths : Create(h, p) \/ OpenFile(h, p)
          PROVE  IInv'
      BY <1>2, <2>1, CreateKeeps, OpenFileKeeps
    <2>2. ASSUME NEW h \in Handles, \E bytes \in Staged : Write(h, bytes)
          PROVE  IInv'
      BY <1>2, <2>2, WriteKeeps
    <2>3. ASSUME NEW h \in Handles, Fsync(h) \/ Release(h)
          PROVE  IInv'
      BY <1>2, <2>3, FsyncKeeps, ReleaseKeeps
    <2>4. ASSUME NEW p \in Paths, \E bytes \in Staged : Truncate(p, bytes)
          PROVE  IInv'
      BY <1>2, <2>4, TruncateKeeps
    <2>5. ASSUME NEW p \in Paths, Unlink(p) \/ Mkdir(p) \/ Rmdir(p)
          PROVE  IInv'
      BY <1>2, <2>5, UnlinkKeeps, MkdirKeeps, RmdirKeeps
    <2>6. ASSUME NEW p \in Paths, \E to \in Paths : Rename(p, to)
          PROVE  IInv'
      BY <1>2, <2>6, RenameKeeps
    <2>7. CASE Move \/ MoveFails \/ Finish \/ DeferredCommit \/ Destroy
      BY <1>2, <2>7, MoveKeeps, MoveFailsKeeps, FinishKeeps, DeferredCommitKeeps, DestroyKeeps
    <2> QED BY <1>2, <2>1, <2>2, <2>3, <2>4, <2>5, <2>6, <2>7 DEF Callback
  <1> QED BY <1>1, <1>2 DEF Next, Unmounted

\* The invariant holds as long as no program does what Habits names.
LEMMA MountInvariant ==
    ASSUME Habits = {}
    PROVE  Spec => []IInv
  <1>1. IInv /\ [Next]_vars => IInv'
    BY NextKeeps
  <1> QED BY <1>1, InitKeeps, PTL DEF Spec

\* Files, queue, handles and the callback in progress keep their types.  In
\* particular an open file never loses its path to a rename above it.
THEOREM MountTypeCorrect ==
    ASSUME Habits = {}
    PROVE  Spec => []TypeOK
  <1>1. IInv => TypeOK
    BY DEF IInv
  <1> QED BY <1>1, MountInvariant, PTL

\* getattr, readdir and read, which do not wait for a commit or a rename in
\* progress, are shown the committed namespace overlaid with what is staged
\* (visible_nodes_ against entries and pending_files_), at every moment.
THEOREM ReadersSeeWhatIsThere ==
    ASSUME Habits = {}
    PROVE  Spec => []VisibleAgrees
  <1>1. IInv => VisibleAgrees
    BY DEF IInv, FilesOK
  <1> QED BY <1>1, MountInvariant, PTL

\* commitSelected is never refused on account of a staged file: each has its
\* directory, and none has been shadowed by one.
THEOREM BatchesAreAccepted ==
    ASSUME Habits = {}
    PROVE  Spec => []StagedCommittable
  <1>1. IInv => StagedCommittable
    <2> SUFFICES ASSUME IInv, NEW p \in Batch(Paths)
                 PROVE  ParentExists(p) /\ entries[p] # Directory
      BY DEF StagedCommittable, Accepted
    <2>1. p \in Paths /\ pending[p] # Absent
      BY Distinct DEF Batch
    <2>2. Ancestors(p)
      BY <2>1 DEF IInv, FilesOK, TreeClosed, Present, Ancestors
    <2> QED BY <2>1, <2>2, AncestorsExist DEF IInv, FilesOK, StagedIsFile
  <1> QED BY <1>1, MountInvariant, PTL

\* Whatever is staged while commits succeed is in the queue, or its handle is
\* dirty and will put it there (release, unlink and rename move both).
THEOREM NothingStagedIsForgotten ==
    ASSUME Habits = {}
    PROVE  Spec => []NothingForgotten
  <1>1. IInv => NothingForgotten
    BY DEF IInv, SessionOK, Tracked, NothingForgotten
  <1> QED BY <1>1, MountInvariant, PTL

\* A strict release or fsync that succeeds (synchronizeFile) has committed
\* what readers see of the file.
THEOREM AcknowledgedWasCommitted ==
    ASSUME Habits = {}
    PROVE  Spec => []AcknowledgedIsCommitted
  <1>1. IInv => AcknowledgedIsCommitted
    BY DEF IInv, SessionOK
  <1> QED BY <1>1, MountInvariant, PTL

\* ezfa3fsDestroy leaves on the cartridge all that was visible, and no more,
\* unless a commit has failed.
THEOREM CleanUnmountKeepsEverything ==
    ASSUME Habits = {}
    PROVE  Spec => []UnmountKeepsEverything
  <1>1. IInv => UnmountKeepsEverything
    BY DEF IInv, SessionOK
  <1> QED BY <1>1, MountInvariant, PTL
-----------------------------------------------------------------------------
(* After a failure, whatever programs do.                                  *)

\* The callbacks on one open file.
OnHandle(h) ==
    \/ \E p \in Paths : Create(h, p) \/ OpenFile(h, p)
    \/ \E bytes \in Staged : Write(h, bytes)
    \/ Fsync(h) \/ Release(h)

\* The callbacks on one path.
OnPath(p) ==
    \/ \E bytes \in Staged : Truncate(p, bytes)
    \/ Unlink(p) \/ Mkdir(p) \/ Rmdir(p)
    \/ \E to \in Paths : Rename(p, to)

\* No callback on a handle leaves a failed mount between two transactions.
LEMMA OnHandleKeepsHealthy ==
    ASSUME BusyMeansHealthy, NEW h \in Handles, OnHandle(h)
    PROVE  BusyMeansHealthy'
  <1> USE DEF BusyMeansHealthy, Quiet, Begin
  <1>1. CASE \E p \in Paths : Create(h, p) \/ OpenFile(h, p)
    BY <1>1 DEF Create, OpenFile
  <1>2. CASE \E bytes \in Staged : Write(h, bytes)
    BY <1>2 DEF Write
  <1>3. CASE Fsync(h)
    BY <1>3 DEF Fsync
  <1>4. CASE Release(h)
    BY <1>4 DEF Release
  <1> QED BY <1>1, <1>2, <1>3, <1>4 DEF OnHandle

\* No callback on a path does either.
LEMMA OnPathKeepsHealthy ==
    ASSUME BusyMeansHealthy, NEW p \in Paths, OnPath(p)
    PROVE  BusyMeansHealthy'
  <1> USE DEF BusyMeansHealthy, Quiet, Begin, ThenFinish
  <1>1. CASE \E bytes \in Staged : Truncate(p, bytes)
    BY <1>1 DEF Truncate
  <1>2. CASE Unlink(p)
    BY <1>2 DEF Unlink
  <1>3. CASE Mkdir(p)
    BY <1>3 DEF Mkdir
  <1>4. CASE Rmdir(p)
    BY <1>4 DEF Rmdir
  <1>5. CASE \E to \in Paths : Rename(p, to)
    <2> PICK to \in Paths : Rename(p, to)
      BY <1>5
    <2>1. ~failed /\ pc = "idle"
      BY DEF Rename
    <2>2. \/ UNCHANGED failed
          \/ pc' = IF failed' THEN "idle" ELSE "move"
      BY DEF Rename
    <2> QED BY <2>1, <2>2
  <1> QED BY <1>1, <1>2, <1>3, <1>4, <1>5 DEF OnPath

\* Every step of the mount keeps BusyMeansHealthy.
LEMMA StepHealthy ==
    ASSUME BusyMeansHealthy, [Next]_vars
    PROVE  BusyMeansHealthy'
  <1> USE DEF BusyMeansHealthy
  <1>1. CASE \E h \in Handles : OnHandle(h)
    BY <1>1, OnHandleKeepsHealthy
  <1>2. CASE \E p \in Paths : OnPath(p)
    BY <1>2, OnPathKeepsHealthy
  <1>3. CASE Move
    BY <1>3 DEF Move
  <1>4. CASE MoveFails
    BY <1>4 DEF MoveFails
  <1>5. CASE Finish
    BY <1>5 DEF Finish
  <1>6. CASE DeferredCommit
    BY <1>6 DEF DeferredCommit, Quiet
  <1>7. CASE Destroy
    BY <1>7 DEF Destroy
  <1>8. CASE UNCHANGED vars
    BY <1>8 DEF vars
  <1> QED
    BY <1>1, <1>2, <1>3, <1>4, <1>5, <1>6, <1>7, <1>8
       DEF Next, Callback, OnHandle, OnPath, Unmounted

\* After a failure a step leaves the committed and the staged files alone.
LEMMA StepSticky ==
    ASSUME BusyMeansHealthy, failed, [Next]_vars
    PROVE  failed' /\ UNCHANGED <<entries, pending>>
  <1>1. CASE \E h \in Handles : OnHandle(h)
    <2> PICK h \in Handles : Release(h)
      BY <1>1 DEF OnHandle, Begin, Create, OpenFile, Write, Fsync
    <2> QED BY DEF Release
  <1>2. CASE \E p \in Paths : OnPath(p)
    BY <1>2 DEF OnPath, Begin, Truncate, Unlink, Mkdir, Rmdir, Rename
  <1>3. CASE Move \/ MoveFails \/ Finish
    BY <1>3 DEF BusyMeansHealthy, Move, MoveFails, Finish
  <1>4. CASE DeferredCommit
    BY <1>4 DEF DeferredCommit
  <1>5. CASE Destroy
    BY <1>5 DEF Destroy
  <1>6. CASE UNCHANGED vars
    BY <1>6 DEF vars
  <1> QED
    BY <1>1, <1>2, <1>3, <1>4, <1>5, <1>6 DEF Next, Callback, OnHandle, OnPath, Unmounted

\* commit_failed_ is never reset, and from the moment it is set no callback,
\* no deferred commit and no unmount changes the cartridge or drops staged
\* data (mutationAllowed is asked before every commit).
THEOREM FailureStaysSticky == Spec => FailureIsSticky
  <1>1. Init => BusyMeansHealthy
    BY DEF Init, BusyMeansHealthy
  <1>2. BusyMeansHealthy /\ [Next]_vars => BusyMeansHealthy'
    BY StepHealthy
  <1>3. BusyMeansHealthy /\ [Next]_vars
            => [failed => failed' /\ UNCHANGED <<entries, pending>>]_vars
    BY StepSticky
  <1> QED BY <1>1, <1>2, <1>3, PTL DEF Spec, FailureIsSticky
=============================================================================
