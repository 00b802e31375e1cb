------------------------ MODULE CartridgeWriterProofs ------------------------
(***************************************************************************)
(* What a call reports as stored, erased or read is on the cartridge, for   *)
(* any number of blocks and any failures.                                  *)
(*                                                                         *)
(* A call looks at a block until it reads what it should be, and that alone  *)
(* proves little: a boot sector may show what it held before, and what it     *)
(* held before may be what it should be.  So the proof follows what reads may  *)
(* show (Views), and which blocks a part of a call leaves alone (Spares).    *)
(***************************************************************************)
EXTENDS CartridgeWriter, FiniteSetTheorems, FunctionTheorems,
        WellFoundedInduction, NaturalsInduction, TLAPS

Statuses == {"done", "failed", "broken", "differs", "again"}
Calls == {c \in [flash : [Blocks -> Contents], seen : [Blocks -> SUBSET Contents],
                 mapping : {"write", "read"}, open : BOOLEAN, is : Statuses,
                 spent : Nat, sent : Nat, done : Nat, bad : SUBSET Blocks] :
             \A b \in Blocks \ Metadata : c.seen[b] \subseteq {Torn}}

\* What a read of a block may show instead of its contents.
Views(c, b) == IF c.open THEN c.seen[b] ELSE {}

\* d differs from c in nothing that matters but how it ended.
Alike(c, d) ==
    /\ d \in Calls
    /\ d.flash = c.flash /\ d.seen = c.seen /\ d.mapping = c.mapping /\ d.open = c.open
    /\ d.done = c.done /\ d.bad = c.bad

\* Parts of a call from c to d, in which the blocks outside S keep their
\* contents and do not begin to show others.
Keeps(c, d, S) ==
    /\ d \in Calls
    /\ \A b \in Blocks \ S : /\ d.flash[b] = c.flash[b]
                             /\ d.seen[b] \subseteq c.seen[b]
                             /\ Views(d, b) \subseteq Views(c, b)

\* And which leave alone what the call has noted of its progress.
Spares(c, d, S) == Keeps(c, d, S) /\ d.done = c.done /\ d.bad = c.bad

\* A block holds v, and shows it.
Settled(c, b, v) == c.flash[b] = v /\ c.seen[b] = {}

\* Nothing shows anything but what it holds.
Clear(c) == \A b \in Blocks : Views(c, b) = {}
-----------------------------------------------------------------------------
(* Induction, and the blocks of a set in their order.                      *)

\* What holds of 0, and of n whenever it holds of n - 1, holds up to N.
LEMMA Induct ==
    ASSUME NEW N \in Nat, NEW A, 0 \in A,
           \A n \in 1 .. N : n - 1 \in A => n \in A
    PROVE  0 .. N \subseteq A
<1> DEFINE B == 0 .. N \ A
<1>1. SUFFICES ASSUME B # {} PROVE FALSE
  OBVIOUS
<1>2. PICK x \in B : \A y \in B : ~ (<<y, x>> \in OpToRel(<, Nat))
  <2>1. IsWellFoundedOn(OpToRel(<, Nat), Nat)
    BY NatLessThanWellFounded
  <2>2. B \in SUBSET Nat
    OBVIOUS
  <2> HIDE DEF B
  <2>3. QED
    BY <1>1, <2>1, <2>2, WFMin, Zenon
<1>3. x - 1 \in B
  BY DEF OpToRel
<1>4. <<x - 1, x>> \in OpToRel(<, Nat)
  BY <1>3 DEF OpToRel
<1>5. QED
  BY <1>2, <1>3, <1>4

\* The runs of a loop of N passes from a first state, of which there are some.
Runs(S, first, N, pass) ==
    {f \in [0 .. N -> S] : /\ f[0] = first
                           /\ \A n \in 1 .. N : f[n] = pass[n][f[n - 1]]}

LEMMA LoopRuns ==
    ASSUME NEW S, NEW first \in S, NEW N \in Nat,
           NEW pass \in [1 .. N -> [S -> S]]
    PROVE  Runs(S, first, N, pass) # {}
<1> DEFINE Up(k, f) == f[0] = first /\ \A n \in 1 .. k : f[n] = pass[n][f[n - 1]]
           A == {k \in 0 .. N : \E f \in [0 .. N -> S] : Up(k, f)}
<1>1. 0 \in A
  <2> DEFINE g == [n \in 0 .. N |-> first]
  <2>1. g \in [0 .. N -> S] /\ Up(0, g)
    OBVIOUS
  <2>2. 0 \in 0 .. N
    OBVIOUS
  <2> HIDE DEF g, Up
  <2>3. QED
    BY <2>1, <2>2
<1>2. ASSUME NEW n \in 1 .. N, n - 1 \in A PROVE n \in A
  <2>1. PICK f \in [0 .. N -> S] : Up(n - 1, f)
    BY <1>2
  <2> DEFINE g == [f EXCEPT ![n] = pass[n][f[n - 1]]]
  <2>2. g \in [0 .. N -> S]
    BY <1>2
  <2>3. Up(n, g)
    BY <2>1
  <2>4. n \in 0 .. N
    OBVIOUS
  <2> HIDE DEF g, Up
  <2>5. QED
    BY <2>2, <2>3, <2>4
<1>3. N \in A
  <2> HIDE DEF A
  <2>1. 0 .. N \subseteq A
    BY <1>1, <1>2, Induct
  <2>2. QED
    BY <2>1
<1>4. QED
  BY <1>3 DEF Runs

\* A set of blocks that is not empty has a last one.
LEMMA LastExists ==
    ASSUME NEW S \in SUBSET Blocks, S # {}
    PROVE  \E x \in S : \A y \in S : y <= x
<1> DEFINE A == {n \in 0 .. Count - 1 : \A y \in S : y < Count - n}
<1>1. S \in SUBSET Int
  BY DEF Blocks
<1>2. SUFFICES ASSUME \A x \in S : \E y \in S : x < y PROVE FALSE
  BY <1>1
<1>3. Count - 1 \in Nat
  BY WriterAssumption
<1>4. 0 \in A
  BY <1>3, WriterAssumption DEF Blocks
<1>5. ASSUME NEW n \in 1 .. Count - 1, n - 1 \in A PROVE n \in A
  BY <1>2, <1>5, WriterAssumption DEF Blocks
<1>6. 0 .. Count - 1 \subseteq A
  <2> HIDE DEF A
  <2> QED BY <1>3, <1>4, <1>5, Induct
<1>7. Count - 1 \in A
  BY <1>3, <1>6
<1>8. \A y \in S : y < 1 /\ y \in Nat
  BY <1>7, WriterAssumption DEF Blocks
<1>9. \A y, z \in S : ~ (y < z)
  BY <1>8
<1>10. QED
  BY <1>2, <1>9

LEMMA BlocksFinite ==
    ASSUME NEW S \in SUBSET Blocks
    PROVE  IsFiniteSet(S) /\ Cardinality(S) \in Nat
<1>1. IsFiniteSet(Blocks)
  BY FS_Interval, WriterAssumption DEF Blocks
<1>2. QED
  BY <1>1, FS_Subset, FS_CardinalityType

Increasing(s, n) == \A i, j \in 1 .. n : i < j => s[i] < s[j]

\* Blocks can be listed in their order.
LEMMA OrderExists ==
    ASSUME NEW S \in SUBSET Blocks
    PROVE  \E s \in [1 .. Cardinality(S) -> S] : Increasing(s, Cardinality(S))
<1> DEFINE Ordered(T) == \E s \in [1 .. Cardinality(T) -> T] : Increasing(s, Cardinality(T))
           A == {n \in 0 .. Cardinality(S) :
                     \A T \in SUBSET Blocks : Cardinality(T) = n => Ordered(T)}
<1>1. Cardinality(S) \in Nat
  BY BlocksFinite
<1>2. 0 \in A
  <2>1. ASSUME NEW T \in SUBSET Blocks, Cardinality(T) = 0 PROVE Ordered(T)
    <3> DEFINE s == [i \in 1 .. 0 |-> 0]
    <3>1. s \in [1 .. Cardinality(T) -> T] /\ Increasing(s, Cardinality(T))
      BY <2>1 DEF Increasing
    <3>2. QED
      BY <3>1
  <2>2. QED
    BY <1>1, <2>1
<1>3. ASSUME NEW n \in 1 .. Cardinality(S), n - 1 \in A PROVE n \in A
  <2>1. ASSUME NEW T \in SUBSET Blocks, Cardinality(T) = n PROVE Ordered(T)
    <3>1. IsFiniteSet(T) /\ T # {}
      BY <1>1, <2>1, BlocksFinite, FS_EmptySet
    <3>2. PICK m \in T : \A y \in T : y <= m
      BY <3>1, LastExists
    <3> DEFINE U == T \ {m}
    <3>3. U \in SUBSET Blocks /\ Cardinality(U) = n - 1
      BY <2>1, <3>1, FS_RemoveElement
    <3>4. PICK s \in [1 .. n - 1 -> U] : Increasing(s, n - 1)
      <4> HIDE DEF U
      <4>1. Ordered(U)
        BY <1>3, <3>3
      <4>2. QED
        BY <3>3, <4>1
    <3> DEFINE g == [i \in 1 .. n |-> IF i = n THEN m ELSE s[i]]
    <3>5. g \in [1 .. n -> T]
      BY <1>1
    <3>6. n \in Nat /\ U \in SUBSET Int
      BY <1>1 DEF Blocks
    <3>7. ASSUME NEW i \in 1 .. n, NEW j \in 1 .. n, i < j PROVE g[i] < g[j]
      <4>1. i \in 1 .. n - 1 /\ g[i] = s[i] /\ s[i] \in U
        <5>1. i # n
          BY <3>7, <3>6
        <5>2. QED
          BY <3>6, <5>1
      <4>2. s[i] < m
        <5>1. s[i] \in T /\ s[i] # m /\ T \in SUBSET Int
          BY <4>1 DEF Blocks
        <5>2. s[i] <= m /\ s[i] \in Int /\ m \in Int
          BY <3>2, <5>1
        <5>3. QED
          BY <5>1, <5>2
      <4>3. j # n => j \in 1 .. n - 1 /\ g[j] = s[j] /\ s[i] < s[j]
        BY <1>1, <3>4, <3>7, <4>1 DEF Increasing
      <4>4. QED
        BY <1>1, <4>1, <4>2, <4>3
    <3>8. Increasing(g, n)
      <4> HIDE DEF g
      <4> QED BY <3>7 DEF Increasing
    <3> HIDE DEF g
    <3>9. QED
      BY <2>1, <3>5, <3>8
  <2>2. n \in 0 .. Cardinality(S)
    BY <1>1
  <2> HIDE DEF Ordered
  <2>3. QED
    BY <2>1, <2>2
<1>4. Cardinality(S) \in A
  <2> HIDE DEF A
  <2>1. 0 .. Cardinality(S) \subseteq A
    BY <1>1, <1>2, <1>3, Induct
  <2>2. QED
    BY <1>1, <2>1
<1> HIDE DEF Ordered
<1>5. Ordered(S)
  BY <1>4
<1>6. QED
  BY <1>5 DEF Ordered

\* So Sorted lists them: each once.
LEMMA SortedIs ==
    ASSUME NEW S \in SUBSET Blocks
    PROVE  /\ Cardinality(S) \in Nat /\ Len(Sorted(S)) = Cardinality(S)
           /\ Sorted(S) \in [1 .. Cardinality(S) -> S]
           /\ \A i, j \in 1 .. Cardinality(S) : i # j => Sorted(S)[i] # Sorted(S)[j]
           /\ \A b \in S : \E i \in 1 .. Cardinality(S) : Sorted(S)[i] = b
<1> DEFINE n == Cardinality(S)
           s == Sorted(S)
<1>1. n \in Nat /\ IsFiniteSet(S)
  BY BlocksFinite
<1>2. s \in [1 .. n -> S] /\ Increasing(s, n)
  <2>1. \E t \in [1 .. Cardinality(S) -> S] :
              \A i, j \in 1 .. Cardinality(S) : i < j => t[i] < t[j]
    BY OrderExists DEF Increasing
  <2>2. /\ Sorted(S) \in [1 .. Cardinality(S) -> S]
        /\ \A i, j \in 1 .. Cardinality(S) : i < j => Sorted(S)[i] < Sorted(S)[j]
    BY <2>1, Zenon DEF Sorted
  <2>3. QED
    BY <2>2 DEF Increasing
<1> HIDE DEF s, n
<1>3. ASSUME NEW i \in 1 .. n, NEW j \in 1 .. n, i # j PROVE s[i] # s[j]
  <2>1. s[i] \in Int /\ s[j] \in Int
    <3>1. S \in SUBSET Int
      BY DEF Blocks
    <3>2. QED
      BY <1>2, <1>3, <3>1
  <2>2. i < j \/ j < i
    BY <1>1, <1>3
  <2>3. QED
    BY <1>2, <2>1, <2>2 DEF Increasing
<1>4. s \in Injection(1 .. n, S)
  BY <1>2, <1>3 DEF Injection, IsInjective
<1>5. s \in Surjection(1 .. n, S)
  <2>1. Cardinality(1 .. n) = Cardinality(S)
    BY <1>1, FS_Interval DEF n
  <2>2. QED
    BY <1>1, <1>4, <2>1, FS_Injection
<1>6. \A b \in S : \E i \in 1 .. n : s[i] = b
  BY <1>5 DEF Surjection
<1>7. Len(s) = n
  BY <1>1, <1>2
<1>8. QED
  BY <1>1, <1>2, <1>3, <1>6, <1>7 DEF s, n
-----------------------------------------------------------------------------
(* Parts of calls.                                                         *)

LEMMA AsIs ==
    ASSUME NEW c \in Calls, NEW s \in Statuses
    PROVE  /\ Alike(c, As(c, s)) /\ As(c, s).is = s
           /\ As(c, s).sent = c.sent /\ As(c, s).spent = c.spent
  BY DEF As, Alike, Calls

LEMMA FaultyIs ==
    ASSUME NEW c \in Calls, NEW k \in Nat, NEW d \in Faulty(c, k)
    PROVE  Alike(c, d) /\ d.is = c.is
  BY DEF Faulty, Alike, Calls

LEMMA AlikeSpares ==
    ASSUME NEW c, NEW d, NEW S, Alike(c, d)
    PROVE  /\ Spares(c, d, S)
           /\ \A b : Views(d, b) = Views(c, b)
           /\ Clear(c) => Clear(d)
           /\ \A b, v : Settled(c, b, v) <=> Settled(d, b, v)
  BY DEF Alike, Spares, Keeps, Views, Clear, Settled

\* How a part ended can be written over.
LEMMA AsOn ==
    ASSUME NEW c, NEW x, NEW S, Spares(c, x, S), NEW s \in Statuses
    PROVE  /\ Spares(c, As(x, s), S) /\ As(x, s) \in Calls /\ As(x, s).is = s
           /\ As(x, s).flash = x.flash
           /\ \A b : Views(As(x, s), b) = Views(x, b)
           /\ \A b, v : Settled(x, b, v) <=> Settled(As(x, s), b, v)
<1>1. x \in Calls
  BY DEF Spares, Keeps
<1>2. Alike(x, As(x, s)) /\ As(x, s).is = s
  BY <1>1, AsIs
<1>3. QED
  BY <1>2 DEF Alike, Spares, Keeps, Views, Settled

LEMMA SparesItself ==
    ASSUME NEW c \in Calls, NEW S
    PROVE  Spares(c, c, S)
  BY DEF Spares, Keeps

\* One part after another.
LEMMA SparesOn ==
    ASSUME NEW c, NEW d, NEW e, NEW S, NEW T, NEW U,
           Spares(c, d, S), Spares(d, e, T), S \subseteq U, T \subseteq U
    PROVE  Spares(c, e, U)
  BY DEF Spares, Keeps

LEMMA KeepsOn ==
    ASSUME NEW c, NEW d, NEW e, NEW S, NEW T, NEW U,
           Keeps(c, d, S), Keeps(d, e, T), S \subseteq U, T \subseteq U
    PROVE  Keeps(c, e, U)
  BY DEF Keeps

\* What is spared keeps what it holds, and what it shows.
LEMMA SparedStays ==
    ASSUME NEW c, NEW d, NEW S, Spares(c, d, S), NEW b \in Blocks, b \notin S
    PROVE  /\ Views(d, b) \subseteq Views(c, b)
           /\ \A v : Settled(c, b, v) => Settled(d, b, v)
  BY DEF Spares, Keeps, Settled

LEMMA ClearStays ==
    ASSUME NEW c, NEW d, Spares(c, d, {}), Clear(c)
    PROVE  Clear(d)
  BY DEF Spares, Keeps, Clear
-----------------------------------------------------------------------------
(* The USB session.                                                        *)

\* Whether it opens or not, no block shows old contents any more.
LEMMA OpenSessionDoes ==
    ASSUME NEW c \in Calls, c.is = "done", NEW d \in OpenSession(c)
    PROVE  /\ Spares(c, d, {}) /\ Clear(d) /\ d.is \in {"done", "failed"}
           /\ d.is = "done" => d.open /\ \A b \in Blocks : d.seen[b] = {}
<1> DEFINE opened == [c EXCEPT !.open = TRUE, !.mapping = "write",
                               !.seen = [b \in Blocks |-> {}]]
           shut(e) == [e EXCEPT !.open = FALSE]
<1>1. /\ opened \in Calls /\ opened.open /\ opened.is = "done" /\ opened.flash = c.flash
      /\ opened.seen = [b \in Blocks |-> {}]
      /\ opened.done = c.done /\ opened.bad = c.bad
  BY DEF Calls
<1>2. \/ d \in UNION {Faulty(opened, k) : k \in 0 .. Attempts - 1}
      \/ d \in {As(shut(e), "failed") : e \in Faulty(c, Attempts)}
  BY Zenon DEF OpenSession
<1> HIDE DEF opened, shut
<1>3. \/ \E k \in 0 .. Attempts - 1 : d \in Faulty(opened, k)
      \/ \E e \in Faulty(c, Attempts) : d = As(shut(e), "failed")
  <2>1. ASSUME d \in UNION {Faulty(opened, k) : k \in 0 .. Attempts - 1}
        PROVE  \E k \in 0 .. Attempts - 1 : d \in Faulty(opened, k)
    BY <2>1, Zenon
  <2>2. ASSUME d \in {As(shut(e), "failed") : e \in Faulty(c, Attempts)}
        PROVE  \E e \in Faulty(c, Attempts) : d = As(shut(e), "failed")
    BY <2>2
  <2>3. QED
    BY <1>2, <2>1, <2>2, Zenon
<1>4. CASE \E k \in 0 .. Attempts - 1 : d \in Faulty(opened, k)
  <2>1. Alike(opened, d) /\ d.is = "done"
    BY <1>1, <1>4, FaultyIs DEF Attempts
  <2>2. QED
    BY <1>1, <2>1 DEF Alike, Spares, Keeps, Clear, Views
<1>5. CASE \E e \in Faulty(c, Attempts) : d = As(shut(e), "failed")
  <2>1. PICK e \in Faulty(c, Attempts) : d = As(shut(e), "failed")
    BY <1>5
  <2>2. Alike(c, e)
    BY FaultyIs DEF Attempts
  <2> DEFINE f == shut(e)
  <2>3. /\ f \in Calls /\ ~f.open /\ f.flash = c.flash /\ f.seen = c.seen
        /\ f.done = c.done /\ f.bad = c.bad
    BY <2>2 DEF Alike, Calls, shut
  <2> HIDE DEF f
  <2>4. Alike(f, d) /\ d.is = "failed"
    BY <2>1, <2>3, AsIs DEF f, Statuses
  <2>5. QED
    BY <2>3, <2>4 DEF Alike, Spares, Keeps, Clear, Views
<1>6. QED
  BY <1>3, <1>4, <1>5, Zenon

LEMMA EnsureOpenDoes ==
    ASSUME NEW c \in Calls, c.is = "done", NEW d \in EnsureOpen(c)
    PROVE  /\ Spares(c, d, {}) /\ d.is \in {"done", "failed"}
           /\ d.is = "done" => d.open
  BY OpenSessionDoes, SparesItself DEF EnsureOpen

LEMMA RestartDoes ==
    ASSUME NEW c \in Calls, c.is = "done", NEW d \in Restart(c)
    PROVE  /\ Spares(c, d, {}) /\ Clear(d) /\ d.is \in {"done", "failed"}
           /\ d.is = "done" => d.open /\ \A b \in Blocks : d.seen[b] = {}
<1> DEFINE closed == [c EXCEPT !.open = FALSE]
<1>1. closed \in Calls /\ closed.is = "done"
  BY DEF Calls
<1>2. /\ ~closed.open /\ closed.flash = c.flash /\ closed.seen = c.seen
      /\ closed.done = c.done /\ closed.bad = c.bad
  BY DEF Calls
<1>3. d \in OpenSession(closed)
  BY DEF Restart
<1> HIDE DEF closed
<1>4. Spares(closed, d, {}) /\ Spares(c, closed, {})
  BY <1>1, <1>2, <1>3, OpenSessionDoes DEF Spares, Keeps, Views
<1>5. QED
  BY <1>1, <1>3, <1>4, OpenSessionDoes, SparesOn
-----------------------------------------------------------------------------
(* Looks at a block.                                                       *)

\* A read that shows v tells the truth, if v is not among what else may show;
\* and the block has settled then.
LEMMA ReadBlockDoes ==
    ASSUME NEW c \in Calls, c.is = "done", NEW b \in Blocks, NEW v \in Contents,
           NEW d \in ReadBlock(c, b, v)
    PROVE  /\ Spares(c, d, {}) /\ d.is \in {"done", "differs", "failed"}
           /\ d.is = "done" /\ v \notin Views(c, b) => Settled(d, b, v)
<1> DEFINE after == [c EXCEPT !.mapping = "read"]
           left(x) == IF b \in Metadata /\ x # c.flash[b] THEN {x} ELSE {}
           looked(x) == [after EXCEPT !.seen[b] = left(x)]
<1>1. CASE ~c.open
  <2>1. d = As(c, "failed")
    BY <1>1 DEF ReadBlock
  <2>2. QED
    BY <2>1, AsIs, AlikeSpares DEF Statuses
<1>2. CASE c.open
  <2>1. /\ after \in Calls /\ after.is = "done" /\ after.flash = c.flash
        /\ after.seen = c.seen /\ after.open = c.open
        /\ after.done = c.done /\ after.bad = c.bad
    BY DEF Calls
  <2>2. \/ \E x \in {c.flash[b]} \cup c.seen[b] :
              d = As(looked(x), IF x = v THEN "done" ELSE "differs")
        \/ \E e \in Faulty(after, 1) : d = As(e, "failed")
    BY <1>2 DEF ReadBlock
  <2>3. CASE \E e \in Faulty(after, 1) : d = As(e, "failed")
    <3>1. PICK e \in Faulty(after, 1) : d = As(e, "failed")
      BY <2>3
    <3> HIDE DEF after
    <3>2. Alike(after, e)
      BY <2>1, FaultyIs
    <3>3. e \in Calls
      BY <3>2 DEF Alike
    <3>4. Alike(e, d) /\ d.is = "failed"
      BY <3>1, <3>3, AsIs DEF Statuses
    <3>5. QED
      BY <2>1, <3>2, <3>4 DEF Alike, Spares, Keeps, Views
  <2>4. CASE \E x \in {c.flash[b]} \cup c.seen[b] :
                d = As(looked(x), IF x = v THEN "done" ELSE "differs")
    <3>1. PICK x \in {c.flash[b]} \cup c.seen[b] :
             d = As(looked(x), IF x = v THEN "done" ELSE "differs")
      BY <2>4
    <3>2. /\ left(x) \subseteq c.seen[b] /\ left(x) \subseteq Contents
          /\ x = c.flash[b] => left(x) = {}
          /\ b \notin Metadata => left(x) = {}
      BY DEF Calls
    <3>3. c.seen \in [Blocks -> SUBSET Contents]
      BY DEF Calls
    <3> DEFINE l == looked(x)
    <3> HIDE DEF after, left
    <3>4. /\ l.flash = c.flash /\ l.seen = [c.seen EXCEPT ![b] = left(x)]
          /\ l.open = c.open /\ l.done = c.done /\ l.bad = c.bad
      BY <2>1 DEF Calls
    <3>5. l \in Calls
      BY <2>1, <3>2 DEF Calls
    <3> HIDE DEF looked, l
    <3>6. Alike(l, d) /\ (d.is = IF x = v THEN "done" ELSE "differs")
      BY <3>1, <3>5, AsIs DEF Statuses, l
    <3>7. Spares(c, d, {})
      BY <3>2, <3>3, <3>4, <3>6 DEF Alike, Spares, Keeps, Views
    <3>8. ASSUME x = v, v \notin Views(c, b) PROVE Settled(d, b, v)
      <4>1. x = c.flash[b]
        BY <1>2, <3>8 DEF Views
      <4>2. QED
        BY <3>2, <3>3, <3>4, <3>6, <3>8, <4>1 DEF Alike, Settled
    <3>9. QED
      BY <3>6, <3>7, <3>8
  <2>5. QED
    BY <2>2, <2>3, <2>4
<1>3. QED
  BY <1>1, <1>2

\* A session that is reopened first makes every look true.
LEMMA ReadAfterWriteDoes ==
    ASSUME NEW c \in Calls, c.is = "done", NEW b \in Blocks, NEW v \in Contents,
           NEW reopen \in BOOLEAN, NEW d \in ReadAfterWrite(c, b, v, reopen)
    PROVE  /\ Spares(c, d, {}) /\ d.is \in {"done", "differs", "failed"}
           /\ d.is = "done" /\ (reopen \/ v \notin Views(c, b)) => Settled(d, b, v)
           /\ reopen => Clear(d)
<1> DEFINE Reopened(x) == UNION {IF e.is = "done" THEN ReadBlock(e, b, v) ELSE {e} :
                                    e \in Restart(x)}
<1>1. \/ reopen /\ d \in Reopened(c)
      \/ /\ ~reopen
         /\ \E x \in ReadBlock(c, b, v) :
              IF x.is = "failed" THEN d \in Reopened(As(x, "done")) ELSE d = x
  BY DEF ReadAfterWrite, Then
<1>2. ASSUME NEW x \in Calls, x.is = "done", d \in Reopened(x)
      PROVE  /\ Spares(x, d, {}) /\ d.is \in {"done", "differs", "failed"}
             /\ d.is = "done" => Settled(d, b, v)
             /\ Clear(d)
  <2>1. PICK e \in Restart(x) : IF e.is = "done" THEN d \in ReadBlock(e, b, v) ELSE d = e
    BY <1>2
  <2>2. Spares(x, e, {}) /\ Clear(e) /\ e.is \in {"done", "failed"} /\ e \in Calls
    BY <1>2, RestartDoes DEF Spares, Keeps
  <2>3. CASE e.is = "done"
    <3>1. v \notin Views(e, b)
      BY <2>2 DEF Clear
    <3>2. /\ Spares(e, d, {}) /\ d.is \in {"done", "differs", "failed"}
          /\ d.is = "done" => Settled(d, b, v)
      BY <2>1, <2>2, <2>3, <3>1, ReadBlockDoes
    <3>3. QED
      BY <2>2, <3>2, SparesOn, ClearStays
  <2>4. CASE e.is # "done"
    BY <2>1, <2>2, <2>4
  <2>5. QED
    BY <2>3, <2>4
<1> HIDE DEF Reopened
<1>3. CASE reopen /\ d \in Reopened(c)
  BY <1>2, <1>3
<1>4. ASSUME ~reopen, NEW x \in ReadBlock(c, b, v),
             IF x.is = "failed" THEN d \in Reopened(As(x, "done")) ELSE d = x
      PROVE  /\ Spares(c, d, {}) /\ d.is \in {"done", "differs", "failed"}
             /\ d.is = "done" /\ v \notin Views(c, b) => Settled(d, b, v)
  <2>1. /\ Spares(c, x, {}) /\ x.is \in {"done", "differs", "failed"}
        /\ x.is = "done" /\ v \notin Views(c, b) => Settled(x, b, v)
        /\ x \in Calls
    BY <1>4, ReadBlockDoes DEF Spares, Keeps
  <2>2. CASE x.is = "failed"
    <3>1. Alike(x, As(x, "done")) /\ As(x, "done").is = "done" /\ As(x, "done") \in Calls
      BY <2>1, AsIs DEF Statuses, Alike
    <3>2. /\ Spares(As(x, "done"), d, {}) /\ d.is \in {"done", "differs", "failed"}
          /\ d.is = "done" => Settled(d, b, v)
      BY <1>2, <1>4, <2>2, <3>1
    <3>3. Spares(x, As(x, "done"), {})
      BY <3>1, AlikeSpares
    <3>4. QED
      BY <2>1, <3>2, <3>3, SparesOn
  <2>3. QED
    BY <1>4, <2>1, <2>2
<1>5. QED
  BY <1>1, <1>3, <1>4

\* Three looks, the last of them in a session that is reopened.
LEMMA VerifyDoes ==
    ASSUME NEW c \in Calls, c.is = "done", NEW b \in Blocks, NEW v \in Contents,
           NEW reopen \in BOOLEAN, NEW d \in Verify(c, b, v, reopen)
    PROVE  /\ Spares(c, d, {}) /\ d.is \in {"done", "failed"}
           /\ d.is = "done" /\ (reopen \/ v \notin Views(c, b)) => Settled(d, b, v)
<1> DEFINE Try(a, x) == {IF e.is = "done" THEN e ELSE As(e, "again") :
                             e \in ReadAfterWrite(x, b, v, reopen \/ a = Attempts)}
           start  == [c EXCEPT !.sent = 0]
           once   == Try(1, start)
           twice  == UNION {IF x.is = "again" THEN Try(2, As(x, "done")) ELSE {x} : x \in once}
           thrice == UNION {IF x.is = "again" THEN Try(Attempts, As(x, "done")) ELSE {x} :
                                x \in twice}
           truly == reopen \/ v \notin Views(c, b)
           Ready(x) == x \in Calls /\ x.is = "done" /\ Spares(c, x, {})
           G == {x \in Calls : /\ Spares(c, x, {}) /\ x.is \in {"done", "again"}
                               /\ x.is = "done" /\ truly => Settled(x, b, v)}
<1>1. Verify(c, b, v, reopen) = {IF x.is = "again" THEN As(x, "failed") ELSE x : x \in thrice}
  BY DEF Verify, Retry, Retried, AgainUnlessDone
<1>2. Ready(start)
  BY DEF Calls, Spares, Keeps, Views
<1> HIDE DEF start, once, twice, thrice
<1>3. ASSUME NEW a \in 1 .. Attempts, NEW x, Ready(x), NEW e \in Try(a, x)
      PROVE  e \in G
  <2>1. PICK f \in ReadAfterWrite(x, b, v, reopen \/ a = Attempts) :
           e = IF f.is = "done" THEN f ELSE As(f, "again")
    BY <1>3
  <2>2. truly => reopen \/ v \notin Views(x, b)
    BY <1>3, SparedStays
  <2>3. /\ Spares(x, f, {})
        /\ f.is = "done" /\ truly => Settled(f, b, v)
    BY <1>3, <2>2, ReadAfterWriteDoes
  <2>4. Spares(c, f, {})
    BY <1>3, <2>3, SparesOn
  <2>5. CASE f.is = "done"
    BY <2>1, <2>3, <2>4, <2>5 DEF Spares, Keeps
  <2>6. CASE f.is # "done"
    BY <2>1, <2>4, <2>6, AsOn DEF Statuses
  <2>7. QED
    BY <2>5, <2>6
<1>4. ASSUME NEW x \in G PROVE Ready(As(x, "done"))
  BY <1>4, AsOn DEF Statuses
<1> HIDE DEF Try, Ready, G
<1>5. once \subseteq G
  BY <1>3, <1>2 DEF once, Attempts
<1>6. twice \subseteq G
  <2>1. ASSUME NEW e \in twice PROVE e \in G
    <3>1. PICK x \in once : IF x.is = "again" THEN e \in Try(2, As(x, "done")) ELSE e = x
      BY <2>1 DEF twice
    <3>2. QED
      BY <1>3, <1>4, <1>5, <3>1 DEF Attempts
  <2>2. QED
    BY <2>1
<1>7. thrice \subseteq G
  <2>1. ASSUME NEW e \in thrice PROVE e \in G
    <3>1. PICK x \in twice : IF x.is = "again" THEN e \in Try(Attempts, As(x, "done")) ELSE e = x
      BY <2>1 DEF thrice
    <3>2. QED
      BY <1>3, <1>4, <1>6, <3>1 DEF Attempts
  <2>2. QED
    BY <2>1
<1>8. PICK x \in thrice : d = IF x.is = "again" THEN As(x, "failed") ELSE x
  BY <1>1
<1>9. x \in G
  BY <1>7
<1>10. CASE x.is = "again"
  BY <1>8, <1>9, <1>10, AsOn DEF Statuses, G
<1>11. CASE x.is # "again"
  BY <1>8, <1>9, <1>11 DEF G
<1>12. QED
  BY <1>10, <1>11
-----------------------------------------------------------------------------
(* Commands.                                                               *)

LEMMA WrittenIs ==
    ASSUME NEW c \in Calls, NEW D \in SUBSET Blocks, NEW g \in [D -> Contents]
    PROVE  /\ Written(c, g) \in Calls /\ Spares(c, Written(c, g), D)
           /\ Written(c, g).open = c.open
           /\ \A b \in D : Written(c, g).seen[b] \subseteq c.seen[b] \cup {c.flash[b], Torn}
<1> DEFINE f == [b \in Blocks |-> IF b \in DOMAIN g THEN g[b] ELSE c.flash[b]]
           s == [b \in Blocks |->
                    IF b \notin DOMAIN g THEN c.seen[b]
                    ELSE (c.seen[b] \cup {IF b \in Metadata THEN c.flash[b] ELSE Torn}) \ {g[b]}]
           w == [c EXCEPT !.flash = f, !.seen = s]
<1>1. Written(c, g) = w
  BY DEF Written
<1>2. /\ c.flash \in [Blocks -> Contents] /\ c.seen \in [Blocks -> SUBSET Contents]
      /\ \A b \in Blocks \ Metadata : c.seen[b] \subseteq {Torn}
  BY DEF Calls
<1>3. f \in [Blocks -> Contents] /\ \A b \in Blocks \ D : f[b] = c.flash[b]
  BY <1>2
<1>4. /\ s \in [Blocks -> SUBSET Contents]
      /\ \A b \in Blocks \ D : s[b] = c.seen[b]
      /\ \A b \in D : s[b] \subseteq c.seen[b] \cup {c.flash[b], Torn}
      /\ \A b \in Blocks \ Metadata : s[b] \subseteq {Torn}
  BY <1>2 DEF Contents
<1> HIDE DEF f, s
<1>5. /\ w.flash = f /\ w.seen = s /\ w.open = c.open /\ w.done = c.done /\ w.bad = c.bad
      /\ w \in Calls
  BY <1>3, <1>4 DEF Calls
<1> HIDE DEF w
<1>6. QED
  BY <1>1, <1>3, <1>4, <1>5 DEF Spares, Keeps, Views

\* A transfer touches its own blocks only; these may show what they held.
Touches(c, t, D) ==
    /\ Spares(c, t, D) /\ t.is \in {"done", "failed"}
    /\ \A b \in D : Views(t, b) \subseteq Views(c, b) \cup {c.flash[b], Torn}

LEMMA LandIs ==
    ASSUME NEW c \in Calls, NEW D \in SUBSET Blocks, NEW image \in [D -> Contents],
           NEW k \in 0 .. Cardinality(D), NEW f \in Land(c, image, k)
    PROVE  \E E \in SUBSET D : f \in [E -> Contents]
<1> DEFINE E == {Sorted(DOMAIN image)[i] : i \in 1 .. k}
<1>1. E \in SUBSET D
  BY SortedIs
<1>2. f \in [E -> Contents]
  BY DEF Land
<1> HIDE DEF E
<1>3. QED
  BY <1>1, <1>2

LEMMA HurtIs ==
    ASSUME NEW c \in Calls, NEW D \in SUBSET Blocks, NEW image \in [D -> Contents],
           NEW k \in 0 .. Cardinality(D), NEW j \in 1 .. Cardinality(D),
           NEW g \in Hurt(c, image, k, j)
    PROVE  \E E \in SUBSET D : g \in [E -> Contents]
<1> DEFINE b == Sorted(DOMAIN image)[j]
<1>1. PICK f \in Land(c, image, k), v \in {c.flash[b], Torn} :
         g = [x \in DOMAIN f \cup {b} |-> IF x = b THEN v ELSE f[x]]
  BY DEF Hurt
<1>2. PICK E \in SUBSET D : f \in [E -> Contents]
  BY LandIs
<1>3. b \in D
  BY SortedIs
<1> HIDE DEF b
<1>4. v \in Contents
  BY <1>3 DEF Calls, Contents
<1> DEFINE F == E \cup {b}
<1>5. g \in [F -> Contents] /\ F \in SUBSET D
  BY <1>1, <1>2, <1>3, <1>4
<1> HIDE DEF F
<1>6. QED
  BY <1>5

LEMMA EndedTouches ==
    ASSUME NEW c \in Calls, NEW D \in SUBSET Blocks, NEW E \in SUBSET D,
           NEW f \in [E -> Contents], NEW s \in {"done", "failed"}, NEW k \in Nat
    PROVE  Touches(c, Ended(c, f, s, k), D)
<1> DEFINE w == Written(c, f)
           t == [w EXCEPT !.is = s, !.sent = k]
<1>1. /\ w \in Calls /\ Spares(c, w, E) /\ w.open = c.open
      /\ \A b \in E : w.seen[b] \subseteq c.seen[b] \cup {c.flash[b], Torn}
  BY WrittenIs
<1> HIDE DEF w
<1>2. t \in Calls
  BY <1>1 DEF Calls, Statuses
<1>3. /\ t.flash = w.flash /\ t.seen = w.seen /\ t.open = w.open /\ t.done = w.done
      /\ t.bad = w.bad /\ t.is = s
  BY <1>1 DEF Calls
<1>4. Ended(c, f, s, k) = t
  BY DEF Ended, w
<1> HIDE DEF t
<1>5. Spares(c, t, D)
  BY <1>1, <1>2, <1>3 DEF Spares, Keeps, Views
<1>6. QED
  BY <1>1, <1>3, <1>4, <1>5 DEF Touches, Views, Spares, Keeps

LEMMA HinderedTouches ==
    ASSUME NEW c \in Calls, NEW D \in SUBSET Blocks, NEW image \in [D -> Contents],
           NEW t \in Hindered(c, image)
    PROVE  Touches(c, t, D)
<1> DEFINE n == Cardinality(D)
<1>1. n \in Nat /\ DOMAIN image = D
  BY BlocksFinite
<1>2. \/ \E f \in Land(c, image, n) : t = Ended(c, f, "failed", n)
      \/ \E k \in 1 .. n : \E f \in Land(c, image, k) \cup Hurt(c, image, k - 1, k) :
            t = Ended(c, f, "failed", k - 1)
      \/ \E k \in 1 .. n : \E f \in Hurt(c, image, n, k) : t = Ended(c, f, "done", n)
  BY <1>1 DEF Hindered
<1>3. \E f, s, k : /\ t = Ended(c, f, s, k) /\ s \in {"done", "failed"} /\ k \in Nat
                   /\ \E E \in SUBSET D : f \in [E -> Contents]
  <2>1. CASE \E f \in Land(c, image, n) : t = Ended(c, f, "failed", n)
    BY <1>1, <2>1, LandIs
  <2>2. CASE \E k \in 1 .. n : \E f \in Land(c, image, k) \cup Hurt(c, image, k - 1, k) :
                t = Ended(c, f, "failed", k - 1)
    <3>1. PICK k \in 1 .. n : \E f \in Land(c, image, k) \cup Hurt(c, image, k - 1, k) :
             t = Ended(c, f, "failed", k - 1)
      BY <2>2
    <3>2. PICK f \in Land(c, image, k) \cup Hurt(c, image, k - 1, k) :
             t = Ended(c, f, "failed", k - 1)
      BY <3>1
    <3>3. k - 1 \in Nat /\ k \in 0 .. n /\ k - 1 \in 0 .. n
      BY <1>1
    <3>4. \E E \in SUBSET D : f \in [E -> Contents]
      BY <3>2, <3>3, LandIs, HurtIs
    <3>5. QED
      BY <3>2, <3>3, <3>4, Zenon
  <2>3. CASE \E k \in 1 .. n : \E f \in Hurt(c, image, n, k) : t = Ended(c, f, "done", n)
    <3>1. PICK k \in 1 .. n : \E f \in Hurt(c, image, n, k) : t = Ended(c, f, "done", n)
      BY <2>3
    <3>2. PICK f \in Hurt(c, image, n, k) : t = Ended(c, f, "done", n)
      BY <3>1
    <3>3. n \in 0 .. n
      BY <1>1
    <3>4. \E E \in SUBSET D : f \in [E -> Contents]
      BY <3>3, HurtIs
    <3>5. QED
      BY <1>1, <3>2, <3>4, Zenon
  <2>4. QED
    BY <1>2, <2>1, <2>2, <2>3
<1>4. QED
  BY <1>3, EndedTouches

LEMMA TransferDoes ==
    ASSUME NEW c \in Calls, c.is = "done", NEW D \in SUBSET Blocks,
           NEW image \in [D -> Contents], NEW t \in Transfer(c, image)
    PROVE  Touches(c, t, D)
<1> DEFINE n == Cardinality(D)
<1>1. n \in Nat /\ n \in 0 .. n /\ DOMAIN image = D
  BY BlocksFinite
<1>2. \/ \E f \in Land(c, image, n) : t = Ended(c, f, "done", n)
      \/ t \in Dropped(c, image)
      \/ \E d \in Faulty(c, 1) : t \in Hindered(d, image)
  BY <1>1 DEF Transfer
<1>3. CASE \E f \in Land(c, image, n) : t = Ended(c, f, "done", n)
  <2>1. PICK f \in Land(c, image, n) : t = Ended(c, f, "done", n)
    BY <1>3
  <2>2. PICK E \in SUBSET D : f \in [E -> Contents]
    BY <1>1, LandIs
  <2>3. QED
    BY <1>1, <2>1, <2>2, EndedTouches
<1>4. CASE t \in Dropped(c, image)
  <2>1. \/ t = [c EXCEPT !.sent = n]
        \/ t = [c EXCEPT !.is = "failed", !.sent = 0]
    BY <1>1, <1>4 DEF Dropped
  <2>2. /\ t \in Calls /\ t.flash = c.flash /\ t.seen = c.seen /\ t.open = c.open
        /\ t.done = c.done /\ t.bad = c.bad /\ t.is \in {"done", "failed"}
    <3>1. CASE t = [c EXCEPT !.sent = n]
      BY <1>1, <3>1 DEF Calls
    <3>2. CASE t = [c EXCEPT !.is = "failed", !.sent = 0]
      BY <3>2 DEF Calls, Statuses
    <3>3. QED
      BY <2>1, <3>1, <3>2
  <2>3. QED
    BY <2>2 DEF Touches, Spares, Keeps, Views
<1>5. CASE \E d \in Faulty(c, 1) : t \in Hindered(d, image)
  <2>1. PICK d \in Faulty(c, 1) : t \in Hindered(d, image)
    BY <1>5
  <2>2. Alike(c, d)
    BY FaultyIs
  <2>3. Touches(d, t, D)
    BY <2>1, <2>2, HinderedTouches DEF Alike
  <2>4. QED
    BY <2>2, <2>3 DEF Alike, Touches, Spares, Keeps, Views
<1>6. QED
  BY <1>2, <1>3, <1>4, <1>5
-----------------------------------------------------------------------------
(* Single blocks.                                                          *)

\* Only a boot sector can show anything else that is not torn, and there the
\* look reopens the session.
LEMMA WriteBlockDoes ==
    ASSUME NEW c \in Calls, c.is = "done", NEW b \in Blocks, NEW v \in Values \cup {Blank},
           NEW d \in WriteBlock(c, b, v)
    PROVE  /\ Spares(c, d, {b}) /\ d.is \in {"done", "failed"}
           /\ d.is = "done" => Settled(d, b, v)
<1> DEFINE image == [x \in {b} |-> v]
<1>1. image \in [{b} -> Contents] /\ v \in Contents
  BY DEF Contents
<1>2. PICK t \in Transfer(c, image) :
         d \in Verify(As(t, "done"), b, v, ~ (t.is = "done") \/ b \in Metadata)
  BY DEF WriteBlock, Always
<1> HIDE DEF image
<1> DEFINE u == As(t, "done")
           reopen == ~ (t.is = "done") \/ b \in Metadata
<1>3. Spares(c, t, {b})
  BY <1>1, TransferDoes DEF Touches
<1>4. u \in Calls /\ u.is = "done" /\ Spares(c, u, {b})
  BY <1>3, AsOn DEF Statuses
<1>5. reopen \/ v \notin Views(u, b)
  <2>1. v # Torn
    BY WriterAssumption
  <2>2. b \notin Metadata => Views(u, b) \subseteq {Torn}
    BY <1>4 DEF Calls, Views
  <2>3. QED
    BY <2>1, <2>2
<1>6. reopen \in BOOLEAN
  OBVIOUS
<1> HIDE DEF u, reopen
<1>7. d \in Verify(u, b, v, reopen)
  BY <1>2 DEF u, reopen
<1>8. /\ Spares(u, d, {}) /\ d.is \in {"done", "failed"}
      /\ d.is = "done" => Settled(d, b, v)
  BY <1>1, <1>4, <1>5, <1>6, <1>7, VerifyDoes
<1>9. QED
  BY <1>4, <1>8, SparesOn

LEMMA EraseBlockDoes ==
    ASSUME NEW c \in Calls, c.is = "done", NEW b \in Blocks, NEW d \in EraseBlock(c, b)
    PROVE  /\ Spares(c, d, {b}) /\ d.is \in {"done", "failed"}
           /\ d.is = "done" => Settled(d, b, Blank)
<1> DEFINE Wrote(e) == {IF f.is = "done" THEN f ELSE As(f, "again") : f \in WriteBlock(e, b, Blank)}
           Try(a, x) == UNION {IF e.is = "done" THEN Wrote(e) ELSE {e} : e \in EnsureOpen(x)}
           once   == Try(1, c)
           twice  == UNION {IF x.is = "again" THEN Try(2, As(x, "done")) ELSE {x} : x \in once}
           thrice == UNION {IF x.is = "again" THEN Try(Attempts, As(x, "done")) ELSE {x} :
                                x \in twice}
           Ready(x) == x \in Calls /\ x.is = "done" /\ Spares(c, x, {b})
           G == {x \in Calls : /\ Spares(c, x, {b}) /\ x.is \in {"done", "failed", "again"}
                               /\ x.is = "done" => Settled(x, b, Blank)}
<1>1. EraseBlock(c, b) = {IF x.is = "again" THEN As(x, "failed") ELSE x : x \in thrice}
  BY DEF EraseBlock, Retry, Retried, Then, AgainUnlessDone
<1>2. Ready(c)
  BY SparesItself
<1> HIDE DEF once, twice, thrice
<1>3. ASSUME NEW a \in 1 .. Attempts, NEW x, Ready(x), NEW y \in Try(a, x)
      PROVE  y \in G
  <2>1. PICK e \in EnsureOpen(x) : IF e.is = "done" THEN y \in Wrote(e) ELSE y = e
    BY <1>3
  <2>2. Spares(x, e, {}) /\ e.is \in {"done", "failed"} /\ Spares(c, e, {b}) /\ e \in Calls
    BY <1>3, EnsureOpenDoes, SparesOn DEF Spares, Keeps
  <2>3. CASE e.is = "done"
    <3>1. PICK f \in WriteBlock(e, b, Blank) : y = IF f.is = "done" THEN f ELSE As(f, "again")
      BY <2>1, <2>3
    <3>2. Spares(e, f, {b}) /\ (f.is = "done" => Settled(f, b, Blank))
      BY <2>2, <2>3, WriteBlockDoes
    <3>3. Spares(c, f, {b}) /\ f \in Calls
      BY <2>2, <3>2, SparesOn DEF Spares, Keeps
    <3>4. QED
      BY <3>1, <3>2, <3>3, AsOn DEF Statuses
  <2>4. CASE e.is # "done"
    BY <2>1, <2>2, <2>4
  <2>5. QED
    BY <2>3, <2>4
<1>4. ASSUME NEW x \in G PROVE Ready(As(x, "done"))
  BY <1>4, AsOn DEF Statuses
<1> HIDE DEF Try, Ready, G
<1>5. once \subseteq G
  BY <1>2, <1>3 DEF once, Attempts
<1>6. twice \subseteq G
  <2>1. ASSUME NEW e \in twice PROVE e \in G
    <3>1. PICK x \in once : IF x.is = "again" THEN e \in Try(2, As(x, "done")) ELSE e = x
      BY <2>1 DEF twice
    <3>2. QED
      BY <1>3, <1>4, <1>5, <3>1 DEF Attempts
  <2>2. QED
    BY <2>1
<1>7. thrice \subseteq G
  <2>1. ASSUME NEW e \in thrice PROVE e \in G
    <3>1. PICK x \in twice : IF x.is = "again" THEN e \in Try(Attempts, As(x, "done")) ELSE e = x
      BY <2>1 DEF thrice
    <3>2. QED
      BY <1>3, <1>4, <1>6, <3>1 DEF Attempts
  <2>2. QED
    BY <2>1
<1>8. PICK x \in thrice : d = IF x.is = "again" THEN As(x, "failed") ELSE x
  BY <1>1
<1>9. x \in G
  BY <1>7
<1>10. QED
  BY <1>8, <1>9, AsOn DEF Statuses, G

LEMMA RepairDoes ==
    ASSUME NEW c \in Calls, c.is = "done", NEW b \in Blocks, NEW d \in Repair(c, b)
    PROVE  Spares(c, d, {b}) /\ d.is \in {"done", "failed"}
<1>1. PICK e \in EraseBlock(c, b) : IF e.is = "done" THEN d \in Restart(e) ELSE d = e
  BY DEF Repair, Then
<1>2. Spares(c, e, {b}) /\ e.is \in {"done", "failed"} /\ e \in Calls
  BY EraseBlockDoes DEF Spares, Keeps
<1>3. CASE e.is = "done"
  <2>1. Spares(e, d, {}) /\ d.is \in {"done", "failed"}
    BY <1>1, <1>2, <1>3, RestartDoes
  <2>2. QED
    BY <1>2, <2>1, SparesOn
<1>4. QED
  BY <1>1, <1>2, <1>3

LEMMA ProgramBlockDoes ==
    ASSUME NEW c \in Calls, c.is = "done", NEW b \in Blocks, NEW v \in Values,
           NEW d \in ProgramBlock(c, b, v)
    PROVE  /\ Spares(c, d, {b}) /\ d.is \in {"done", "failed"}
           /\ d.is = "done" => Settled(d, b, v)
<1> DEFINE Mended(f) == {IF g.is = "done" THEN As(g, "again") ELSE g : g \in Repair(f, b)}
           Wrote(a, e) == IF a = Attempts THEN WriteBlock(e, b, v)
                          ELSE UNION {IF f.is = "done" THEN {f} ELSE Mended(As(f, "done")) :
                                          f \in WriteBlock(e, b, v)}
           Try(a, x) == UNION {IF e.is = "done" THEN Wrote(a, e) ELSE {e} : e \in EnsureOpen(x)}
           once   == Try(1, c)
           twice  == UNION {IF x.is = "again" THEN Try(2, As(x, "done")) ELSE {x} : x \in once}
           thrice == UNION {IF x.is = "again" THEN Try(Attempts, As(x, "done")) ELSE {x} :
                                x \in twice}
           Ready(x) == x \in Calls /\ x.is = "done" /\ Spares(c, x, {b})
           G == {x \in Calls : /\ Spares(c, x, {b}) /\ x.is \in {"done", "failed", "again"}
                               /\ x.is = "done" => Settled(x, b, v)}
<1>1. ProgramBlock(c, b, v) = {IF x.is = "again" THEN As(x, "failed") ELSE x : x \in thrice}
  BY DEF ProgramBlock, Retry, Retried, Then, Else
<1>2. Ready(c)
  BY SparesItself
<1> HIDE DEF once, twice, thrice
<1>3. ASSUME NEW a \in 1 .. Attempts, NEW x, Ready(x), NEW y \in Try(a, x)
      PROVE  y \in G
  <2>1. PICK e \in EnsureOpen(x) : IF e.is = "done" THEN y \in Wrote(a, e) ELSE y = e
    BY <1>3
  <2>2. Spares(x, e, {}) /\ e.is \in {"done", "failed"} /\ Spares(c, e, {b}) /\ e \in Calls
    BY <1>3, EnsureOpenDoes, SparesOn DEF Spares, Keeps
  <2>3. CASE e.is = "done"
    <3>1. PICK f \in WriteBlock(e, b, v) :
             y = f \/ (f.is # "done" /\ y \in Mended(As(f, "done")))
      BY <2>1, <2>3
    <3>2. /\ Spares(e, f, {b}) /\ f.is \in {"done", "failed"}
          /\ f.is = "done" => Settled(f, b, v)
      BY <2>2, <2>3, WriteBlockDoes
    <3>3. Spares(c, f, {b}) /\ f \in Calls
      BY <2>2, <3>2, SparesOn DEF Spares, Keeps
    <3>4. CASE y = f
      BY <3>2, <3>3, <3>4
    <3>5. CASE y \in Mended(As(f, "done"))
      <4>1. PICK g \in Repair(As(f, "done"), b) : y = IF g.is = "done" THEN As(g, "again") ELSE g
        BY <3>5
      <4>2. /\ As(f, "done") \in Calls /\ As(f, "done").is = "done"
            /\ Spares(c, As(f, "done"), {b})
        BY <3>3, AsOn DEF Statuses
      <4>3. Spares(c, g, {b}) /\ g.is \in {"done", "failed"} /\ g \in Calls
        BY <4>2, RepairDoes, SparesOn DEF Spares, Keeps
      <4>4. QED
        BY <4>1, <4>3, AsOn DEF Statuses
    <3>6. QED
      BY <3>1, <3>4, <3>5
  <2>4. CASE e.is # "done"
    BY <2>1, <2>2, <2>4
  <2>5. QED
    BY <2>3, <2>4
<1>4. ASSUME NEW x \in G PROVE Ready(As(x, "done"))
  BY <1>4, AsOn DEF Statuses
<1> HIDE DEF Try, Ready, G
<1>5. once \subseteq G
  BY <1>2, <1>3 DEF once, Attempts
<1>6. twice \subseteq G
  <2>1. ASSUME NEW e \in twice PROVE e \in G
    <3>1. PICK x \in once : IF x.is = "again" THEN e \in Try(2, As(x, "done")) ELSE e = x
      BY <2>1 DEF twice
    <3>2. QED
      BY <1>3, <1>4, <1>5, <3>1 DEF Attempts
  <2>2. QED
    BY <2>1
<1>7. thrice \subseteq G
  <2>1. ASSUME NEW e \in thrice PROVE e \in G
    <3>1. PICK x \in twice : IF x.is = "again" THEN e \in Try(Attempts, As(x, "done")) ELSE e = x
      BY <2>1 DEF thrice
    <3>2. QED
      BY <1>3, <1>4, <1>6, <3>1 DEF Attempts
  <2>2. QED
    BY <2>1
<1>8. PICK x \in thrice : d = IF x.is = "again" THEN As(x, "failed") ELSE x
  BY <1>1
<1>9. x \in G
  BY <1>7
<1>10. QED
  BY <1>8, <1>9, AsOn DEF Statuses, G

\* The erase is not read back, but at the end the session is reopened.
LEMMA ReplaceBlockDoes ==
    ASSUME NEW c \in Calls, c.is = "done", NEW b \in Blocks, NEW v \in Values,
           NEW d \in ReplaceBlock(c, b, v)
    PROVE  /\ Spares(c, d, {b}) /\ d.is \in {"done", "failed"}
           /\ d.is = "done" => Settled(d, b, v)
<1> DEFINE Programmed(t) == UNION {Verify(As(u, "done"), b, v, TRUE) :
                                       u \in Transfer(t, [x \in {b} |-> v])}
           Replaced(e) == UNION {IF t.is = "done" THEN Programmed(t) ELSE {t} :
                                     t \in Transfer(e, [x \in {b} |-> Blank])}
           Wrote(e) == {IF f.is = "done" THEN f ELSE As(f, "again") : f \in Replaced(e)}
           Try(a, x) == UNION {IF e.is = "done" THEN Wrote(e) ELSE {e} : e \in Restart(x)}
           once   == Try(1, c)
           twice  == UNION {IF x.is = "again" THEN Try(2, As(x, "done")) ELSE {x} : x \in once}
           thrice == UNION {IF x.is = "again" THEN Try(Attempts, As(x, "done")) ELSE {x} :
                                x \in twice}
           Ready(x) == x \in Calls /\ x.is = "done" /\ Spares(c, x, {b})
           G == {x \in Calls : /\ Spares(c, x, {b}) /\ x.is \in {"done", "failed", "again"}
                               /\ x.is = "done" => Settled(x, b, v)}
<1>1. ReplaceBlock(c, b, v) = {IF x.is = "again" THEN As(x, "failed") ELSE x : x \in thrice}
  BY DEF ReplaceBlock, Retry, Retried, Then, Always, AgainUnlessDone
<1>2. Ready(c)
  BY SparesItself
<1> HIDE DEF once, twice, thrice
<1>3. ASSUME NEW a \in 1 .. Attempts, NEW x, Ready(x), NEW y \in Try(a, x)
      PROVE  y \in G
  <2>1. PICK e \in Restart(x) : IF e.is = "done" THEN y \in Wrote(e) ELSE y = e
    BY <1>3
  <2>2. Spares(x, e, {}) /\ e.is \in {"done", "failed"} /\ Spares(c, e, {b}) /\ e \in Calls
    BY <1>3, RestartDoes, SparesOn DEF Spares, Keeps
  <2>3. CASE e.is = "done"
    <3>1. PICK f \in Replaced(e) : y = IF f.is = "done" THEN f ELSE As(f, "again")
      BY <2>1, <2>3
    <3>2. PICK t \in Transfer(e, [x1 \in {b} |-> Blank]) :
             IF t.is = "done" THEN f \in Programmed(t) ELSE f = t
      BY <3>1
    <3>3. [x1 \in {b} |-> Blank] \in [{b} -> Contents] /\ [x1 \in {b} |-> v] \in [{b} -> Contents]
      BY DEF Contents
    <3>4. Spares(e, t, {b}) /\ t.is \in {"done", "failed"} /\ t \in Calls /\ Spares(c, t, {b})
      <4>1. Touches(e, t, {b})
        BY <2>2, <2>3, <3>2, <3>3, TransferDoes
      <4>2. QED
        BY <2>2, <4>1, SparesOn DEF Touches, Spares, Keeps
    <3>5. Spares(c, f, {b}) /\ f \in Calls /\ (f.is = "done" => Settled(f, b, v))
      <4>1. CASE t.is = "done"
        <5>1. PICK u \in Transfer(t, [x1 \in {b} |-> v]) : f \in Verify(As(u, "done"), b, v, TRUE)
          BY <3>2, <4>1
        <5>2. Spares(c, u, {b})
          BY <3>3, <3>4, <4>1, TransferDoes, SparesOn DEF Touches
        <5>3. As(u, "done") \in Calls /\ As(u, "done").is = "done" /\ Spares(c, As(u, "done"), {b})
          BY <5>2, AsOn DEF Statuses
        <5>4. v \in Contents
          BY DEF Contents
        <5>5. Spares(As(u, "done"), f, {}) /\ (f.is = "done" => Settled(f, b, v))
          BY <5>1, <5>3, <5>4, VerifyDoes
        <5>6. QED
          BY <5>3, <5>5, SparesOn DEF Spares, Keeps
      <4>2. CASE t.is # "done"
        BY <3>2, <3>4, <4>2
      <4>3. QED
        BY <4>1, <4>2
    <3>6. QED
      BY <3>1, <3>5, AsOn DEF Statuses
  <2>4. CASE e.is # "done"
    BY <2>1, <2>2, <2>4
  <2>5. QED
    BY <2>3, <2>4
<1>4. ASSUME NEW x \in G PROVE Ready(As(x, "done"))
  BY <1>4, AsOn DEF Statuses
<1> HIDE DEF Try, Ready, G
<1>5. once \subseteq G
  BY <1>2, <1>3 DEF once, Attempts
<1>6. twice \subseteq G
  <2>1. ASSUME NEW e \in twice PROVE e \in G
    <3>1. PICK x \in once : IF x.is = "again" THEN e \in Try(2, As(x, "done")) ELSE e = x
      BY <2>1 DEF twice
    <3>2. QED
      BY <1>3, <1>4, <1>5, <3>1 DEF Attempts
  <2>2. QED
    BY <2>1
<1>7. thrice \subseteq G
  <2>1. ASSUME NEW e \in thrice PROVE e \in G
    <3>1. PICK x \in twice : IF x.is = "again" THEN e \in Try(Attempts, As(x, "done")) ELSE e = x
      BY <2>1 DEF thrice
    <3>2. QED
      BY <1>3, <1>4, <1>6, <3>1 DEF Attempts
  <2>2. QED
    BY <2>1
<1>8. PICK x \in thrice : d = IF x.is = "again" THEN As(x, "failed") ELSE x
  BY <1>1
<1>9. x \in G
  BY <1>7
<1>10. QED
  BY <1>8, <1>9, AsOn DEF Statuses, G
-----------------------------------------------------------------------------
(* Batches.                                                                *)

LEMMA LookDoes ==
    ASSUME NEW c \in Calls, c.is = "done", NEW b \in Blocks, NEW reopen \in BOOLEAN,
           NEW e \in Look(c, b, reopen)
    PROVE  /\ Keeps(c, e, {}) /\ e.is = "done" /\ e.done = c.done
           /\ c.bad \subseteq e.bad
           /\ reopen \/ Clear(c) => Clear(e) /\ (b \in e.bad \/ Settled(e, b, Blank))
<1>1. PICK d \in ReadAfterWrite(c, b, Blank, reopen) :
         e = IF d.is = "done" THEN d ELSE [As(d, "done") EXCEPT !.bad = @ \cup {b}]
  BY DEF Look
<1>2. Blank \in Contents
  BY DEF Contents
<1>3. /\ Spares(c, d, {}) /\ d.is \in {"done", "differs", "failed"} /\ d \in Calls
      /\ d.is = "done" /\ (reopen \/ Blank \notin Views(c, b)) => Settled(d, b, Blank)
      /\ reopen => Clear(d)
  BY <1>2, ReadAfterWriteDoes DEF Spares, Keeps
<1>4. reopen \/ Clear(c) => Clear(d)
  BY <1>3, ClearStays
<1>5. CASE d.is = "done"
  BY <1>1, <1>3, <1>4, <1>5 DEF Spares, Clear
<1>6. CASE d.is # "done"
  <2> DEFINE f == As(d, "done")
             g == [f EXCEPT !.bad = f.bad \cup {b}]
  <2>1. f \in Calls /\ f.is = "done" /\ Alike(d, f)
    BY <1>3, AsIs DEF Statuses, Alike
  <2> HIDE DEF f
  <2>2. /\ g \in Calls /\ g.is = "done" /\ g.flash = f.flash /\ g.seen = f.seen
        /\ g.open = f.open /\ g.done = f.done /\ g.bad = f.bad \cup {b}
    BY <2>1 DEF Calls
  <2>3. e = g
    BY <1>1, <1>6 DEF f
  <2> HIDE DEF g
  <2>4. Keeps(c, e, {}) /\ e.done = c.done /\ c.bad \subseteq e.bad /\ b \in e.bad
    BY <1>3, <2>1, <2>2, <2>3 DEF Spares, Keeps, Alike, Views
  <2>5. Clear(d) => Clear(e)
    BY <2>1, <2>2, <2>3 DEF Clear, Views, Alike
  <2>6. QED
    BY <1>4, <2>2, <2>3, <2>4, <2>5
<1>7. QED
  BY <1>5, <1>6

\* The first look reopens the session, so that the others tell the truth too.
LEMMA LooksDo ==
    ASSUME NEW c \in Calls, c.is = "done", NEW S \in SUBSET Blocks, NEW e \in Looks(c, S)
    PROVE  /\ Keeps(c, e, {}) /\ e.is = "done" /\ e.done = c.done
           /\ \A b \in S : b \in e.bad \/ Settled(e, b, Blank)
<1> DEFINE N == Cardinality(S)
           s == Sorted(S)
           Op(d, k) == Look(d, s[k], k = 1)
           Step(W, k) == UNION {IF d.is = "done" THEN Op(d, 0 + k) ELSE {d} : d \in W}
           F(f) == [k \in 0 .. N |-> IF k = 0 THEN {c} ELSE Step(f[k - 1], k)]
           h == CHOOSE f : f = F(f)
           pass == [k \in 1 .. N |-> [W \in SUBSET Calls |-> Step(W, k)]]
           T(k) == {d \in Calls :
                       /\ Keeps(c, d, {}) /\ d.is = "done" /\ d.done = c.done
                       /\ k >= 1 => Clear(d)
                       /\ \A i \in 1 .. k : s[i] \in d.bad \/ Settled(d, s[i], Blank)}
<1>1. N \in Nat
  BY SortedIs
<1>2. c \in T(0)
  BY SparesItself DEF Spares
<1>3. s \in [1 .. N -> S] /\ \A b \in S : \E i \in 1 .. N : s[i] = b
  BY SortedIs
<1>4. Looks(c, S) = h[N]
  BY DEF Looks, EachOf
<1> HIDE DEF N, s
<1>5. ASSUME NEW k \in 1 .. N, NEW d \in Calls, d.is = "done", NEW y \in Op(d, k)
      PROVE  y \in Calls
  BY <1>5, <1>3, LookDoes DEF Keeps
<1>6. ASSUME NEW k \in 1 .. N, NEW d \in T(k - 1),
             NEW y \in IF d.is = "done" THEN Op(d, k) ELSE {d}
      PROVE  y \in T(k)
  <2>1. s[k] \in Blocks /\ y \in Look(d, s[k], k = 1)
    BY <1>6, <1>3
  <2>2. k = 1 \/ Clear(d)
    BY <1>1, <1>6
  <2>3. /\ Keeps(d, y, {}) /\ y.is = "done" /\ y.done = d.done /\ y \in Calls
        /\ d.bad \subseteq y.bad /\ Clear(y)
        /\ s[k] \in y.bad \/ Settled(y, s[k], Blank)
    <3> DEFINE reopen == k = 1
               b == s[k]
    <3>1. /\ d \in Calls /\ d.is = "done" /\ b \in Blocks /\ y \in Look(d, b, reopen)
          /\ reopen \in BOOLEAN /\ (reopen \/ Clear(d))
      BY <1>6, <2>1, <2>2
    <3> HIDE DEF reopen, b
    <3>2. /\ Keeps(d, y, {}) /\ y.is = "done" /\ y.done = d.done
          /\ d.bad \subseteq y.bad
          /\ Clear(y) /\ (b \in y.bad \/ Settled(y, b, Blank))
      BY <3>1, LookDoes
    <3>3. QED
      BY <3>2 DEF Keeps, b
  <2>4. Keeps(c, y, {}) /\ y.done = c.done
    BY <1>6, <2>3, KeepsOn
  <2>5. ASSUME NEW i \in 1 .. k PROVE s[i] \in y.bad \/ Settled(y, s[i], Blank)
    <3>1. CASE i = k
      BY <2>3, <3>1
    <3>2. CASE i # k
      <4>1. i \in 1 .. k - 1 /\ s[i] \in Blocks
        BY <1>1, <1>3, <3>2
      <4>2. s[i] \in d.bad \/ Settled(d, s[i], Blank)
        BY <1>6, <4>1
      <4>3. QED
        BY <2>3, <4>1, <4>2 DEF Keeps, Settled
    <3>3. QED
      BY <3>1, <3>2
  <2>6. QED
    BY <2>3, <2>4, <2>5
<1>7. h[N] \subseteq T(N)
  <2> HIDE DEF T, Op
  <2>1. \A k \in 1 .. N, W \in SUBSET Calls : Step(W, k) \in SUBSET Calls
    BY <1>5
  <2> DEFINE States == SUBSET Calls
  <2>2. pass \in [1 .. N -> [States -> States]] /\ {c} \in States
    BY <2>1
  <2>3. \A k \in 1 .. N, W \in SUBSET Calls : pass[k][W] = Step(W, k)
    OBVIOUS
  <2>4. \A k \in 1 .. N : \A W : W \subseteq T(k - 1) => Step(W, k) \subseteq T(k)
    BY <1>6
  <2> HIDE DEF pass, Step, F, h
  <2>5. PICK g \in [0 .. N -> SUBSET Calls] :
           g[0] = {c} /\ \A k \in 1 .. N : g[k] = pass[k][g[k - 1]]
    <3> HIDE DEF States
    <3>1. PICK g \in Runs(States, {c}, N, pass) : TRUE
      BY <1>1, <2>2, LoopRuns
    <3>2. QED
      BY <3>1 DEF Runs, States
  <2>6. \A k \in 1 .. N : g[k] = Step(g[k - 1], k)
    BY <1>1, <2>3, <2>5
  <2>7. h = F(h)
    <3>1. g = F(g)
      BY <1>1, <2>5, <2>6 DEF F
    <3>2. QED
      BY <3>1, Zenon DEF h
  <2>8. h[0] = {c} /\ \A k \in 1 .. N : h[k] = Step(h[k - 1], k)
    <3>1. h = [k \in 0 .. N |-> IF k = 0 THEN {c} ELSE Step(h[k - 1], k)]
      BY <2>7, Zenon DEF F
    <3>2. \A k \in 0 .. N : h[k] = IF k = 0 THEN {c} ELSE Step(h[k - 1], k)
      BY <3>1, Zenon
    <3>3. QED
      BY <1>1, <3>2
  <2> DEFINE A == {k \in 0 .. N : h[k] \subseteq T(k)}
  <2>9. 0 \in A /\ \A k \in 1 .. N : k - 1 \in A => k \in A
    BY <1>1, <1>2, <2>4, <2>8
  <2>10. 0 .. N \subseteq A
    <3> HIDE DEF A
    <3> QED BY <1>1, <2>9, Induct
  <2>11. QED
    BY <1>1, <2>10
<1>8. e \in T(N)
  BY <1>7, <1>4
<1>9. QED
  BY <1>8, <1>3

LEMMA MendDoes ==
    ASSUME NEW c \in Calls, c.is = "done", NEW b \in Blocks, NEW d \in Mend(c, b)
    PROVE  /\ Spares(c, d, {b}) /\ d.is \in {"done", "failed"}
           /\ d.is = "done" /\ (b \in c.bad \/ Settled(c, b, Blank)) => Settled(d, b, Blank)
<1>1. CASE b \in c.bad
  BY <1>1, EraseBlockDoes DEF Mend
<1>2. CASE b \notin c.bad
  BY <1>2, SparesItself DEF Mend
<1>3. QED
  BY <1>1, <1>2

LEMMA MendsDo ==
    ASSUME NEW c \in Calls, c.is = "done", NEW S \in SUBSET Blocks, NEW e \in Mends(c, S),
           \A b \in S : b \in c.bad \/ Settled(c, b, Blank)
    PROVE  /\ Spares(c, e, S) /\ e.is \in {"done", "failed"}
           /\ e.is = "done" => \A b \in S : Settled(e, b, Blank)
<1> DEFINE N == Cardinality(S)
           s == Sorted(S)
           Op(d, k) == Mend(d, s[k])
           Step(W, k) == UNION {IF d.is = "done" THEN Op(d, 0 + k) ELSE {d} : d \in W}
           F(f) == [k \in 0 .. N |-> IF k = 0 THEN {c} ELSE Step(f[k - 1], k)]
           h == CHOOSE f : f = F(f)
           pass == [k \in 1 .. N |-> [W \in SUBSET Calls |-> Step(W, k)]]
           T(k) == {d \in Calls :
                       /\ Spares(c, d, S) /\ d.is \in {"done", "failed"}
                       /\ d.is = "done" =>
                             /\ \A i \in 1 .. k : Settled(d, s[i], Blank)
                             /\ \A i \in k + 1 .. N :
                                   s[i] \in d.bad \/ Settled(d, s[i], Blank)}
<1>1. Mends(c, S) = h[N]
  BY DEF Mends, EachOf
<1>2. N \in Nat
  BY SortedIs
<1>3. /\ s \in [1 .. N -> S] /\ \A b \in S : \E i \in 1 .. N : s[i] = b
      /\ \A i, j \in 1 .. N : i # j => s[i] # s[j]
  BY SortedIs
<1> HIDE DEF N, s
<1>4. c \in T(0)
  BY <1>2, <1>3, SparesItself
<1>5. ASSUME NEW k \in 1 .. N, NEW d \in Calls, d.is = "done", NEW y \in Op(d, k)
      PROVE  y \in Calls
  BY <1>5, <1>3, MendDoes DEF Spares, Keeps
<1>6. ASSUME NEW k \in 1 .. N, NEW d \in T(k - 1),
             NEW y \in IF d.is = "done" THEN Op(d, k) ELSE {d}
      PROVE  y \in T(k)
  <2>1. CASE d.is # "done"
    BY <1>6, <2>1
  <2>2. CASE d.is = "done"
    <3>1. s[k] \in Blocks /\ s[k] \in S /\ y \in Mend(d, s[k])
      BY <1>6, <1>3, <2>2
    <3>2. s[k] \in d.bad \/ Settled(d, s[k], Blank)
      BY <1>2, <1>6, <2>2
    <3>3. /\ Spares(d, y, {s[k]}) /\ y.is \in {"done", "failed"}
          /\ y.is = "done" => Settled(y, s[k], Blank)
      BY <2>2, <3>1, <3>2, MendDoes
    <3>4. Spares(c, y, S) /\ y \in Calls
      BY <1>6, <3>1, <3>3, SparesOn DEF Spares, Keeps
    <3>5. ASSUME NEW i \in 1 .. N, i # k
          PROVE  /\ s[i] \in d.bad <=> s[i] \in y.bad
                 /\ Settled(d, s[i], Blank) => Settled(y, s[i], Blank)
      <4>1. s[i] \in Blocks /\ s[i] \notin {s[k]}
        BY <1>3, <3>5
      <4>2. QED
        BY <3>3, <4>1, SparedStays DEF Spares
    <3>6. ASSUME y.is = "done", NEW i \in 1 .. k PROVE Settled(y, s[i], Blank)
      <4>1. i # k => i \in 1 .. k - 1 /\ i \in 1 .. N
        BY <1>2
      <4>2. QED
        BY <1>6, <2>2, <3>3, <3>5, <3>6, <4>1
    <3>7. ASSUME NEW i \in k + 1 .. N PROVE s[i] \in y.bad \/ Settled(y, s[i], Blank)
      <4>1. i # k /\ i \in 1 .. N /\ i \in k - 1 + 1 .. N
        BY <1>2
      <4>2. QED
        BY <1>6, <2>2, <3>5, <4>1
    <3>8. QED
      BY <3>3, <3>4, <3>6, <3>7
  <2>3. QED
    BY <2>1, <2>2
<1>7. h[N] \subseteq T(N)
  <2> HIDE DEF T, Op
  <2>1. \A k \in 1 .. N, W \in SUBSET Calls : Step(W, k) \in SUBSET Calls
    BY <1>5
  <2> DEFINE States == SUBSET Calls
  <2>2. pass \in [1 .. N -> [States -> States]] /\ {c} \in States
    BY <2>1
  <2>3. \A k \in 1 .. N, W \in SUBSET Calls : pass[k][W] = Step(W, k)
    OBVIOUS
  <2>4. \A k \in 1 .. N : \A W : W \subseteq T(k - 1) => Step(W, k) \subseteq T(k)
    BY <1>6
  <2> HIDE DEF pass, Step, F, h
  <2>5. PICK g \in [0 .. N -> SUBSET Calls] :
           g[0] = {c} /\ \A k \in 1 .. N : g[k] = pass[k][g[k - 1]]
    <3> HIDE DEF States
    <3>1. PICK g \in Runs(States, {c}, N, pass) : TRUE
      BY <1>2, <2>2, LoopRuns
    <3>2. QED
      BY <3>1 DEF Runs, States
  <2>6. \A k \in 1 .. N : g[k] = Step(g[k - 1], k)
    BY <1>2, <2>3, <2>5
  <2>7. h = F(h)
    <3>1. g = F(g)
      BY <1>2, <2>5, <2>6 DEF F
    <3>2. QED
      BY <3>1, Zenon DEF h
  <2>8. h[0] = {c} /\ \A k \in 1 .. N : h[k] = Step(h[k - 1], k)
    <3>1. h = [k \in 0 .. N |-> IF k = 0 THEN {c} ELSE Step(h[k - 1], k)]
      BY <2>7, Zenon DEF F
    <3>2. \A k \in 0 .. N : h[k] = IF k = 0 THEN {c} ELSE Step(h[k - 1], k)
      BY <3>1, Zenon
    <3>3. QED
      BY <1>2, <3>2
  <2> DEFINE A == {k \in 0 .. N : h[k] \subseteq T(k)}
  <2>9. 0 \in A /\ \A k \in 1 .. N : k - 1 \in A => k \in A
    BY <1>2, <1>4, <2>4, <2>8
  <2>10. 0 .. N \subseteq A
    <3> HIDE DEF A
    <3> QED BY <1>2, <2>9, Induct
  <2>11. QED
    BY <1>2, <2>10
<1>8. e \in T(N)
  BY <1>7, <1>1
<1>9. QED
  BY <1>8, <1>3

LEMMA EraseBatchDoes ==
    ASSUME NEW c \in Calls, c.is = "done", NEW S \in SUBSET Blocks, NEW e \in EraseBatch(c, S)
    PROVE  /\ Keeps(c, e, S) /\ e.is \in {"done", "failed"} /\ e.done = c.done
           /\ e.is = "done" => \A b \in S : Settled(e, b, Blank)
<1> DEFINE image == [b \in S |-> Blank]
           Looked1(d) == UNION {Looks(As(t, "done"), S) : t \in Transfer(d, image)}
           Mended(d) == UNION {IF t.is = "done" THEN Mends(t, S) ELSE {t} : t \in Looked1(d)}
<1>1. PICK d \in EnsureOpen(c) : IF d.is = "done" THEN e \in Mended(d) ELSE e = d
  BY DEF EraseBatch, Then, Always
<1>2. Spares(c, d, {}) /\ d.is \in {"done", "failed"} /\ d \in Calls
  BY EnsureOpenDoes DEF Spares, Keeps
<1>3. CASE d.is # "done"
  BY <1>1, <1>2, <1>3 DEF Spares, Keeps
<1>4. CASE d.is = "done"
  <2>1. PICK l \in Looked1(d) : IF l.is = "done" THEN e \in Mends(l, S) ELSE e = l
    BY <1>1, <1>4
  <2>2. PICK t \in Transfer(d, image) : l \in Looks(As(t, "done"), S)
    BY <2>1
  <2>3. image \in [S -> Contents]
    BY DEF Contents
  <2> HIDE DEF image
  <2>4. Spares(d, t, S)
    BY <1>2, <1>4, <2>2, <2>3, TransferDoes DEF Touches
  <2>5. As(t, "done") \in Calls /\ As(t, "done").is = "done" /\ Spares(d, As(t, "done"), S)
    BY <2>4, AsOn DEF Statuses
  <2>6. /\ Keeps(As(t, "done"), l, {}) /\ l.is = "done" /\ l.done = d.done /\ l \in Calls
        /\ \A b \in S : b \in l.bad \/ Settled(l, b, Blank)
    BY <2>2, <2>5, LooksDo DEF Spares, Keeps
  <2>7. /\ Spares(l, e, S) /\ e.is \in {"done", "failed"}
        /\ e.is = "done" => \A b \in S : Settled(e, b, Blank)
    BY <2>1, <2>6, MendsDo
  <2>8. Keeps(c, As(t, "done"), S)
    BY <1>2, <2>5, KeepsOn DEF Spares
  <2>9. Keeps(c, l, S)
    BY <2>6, <2>8, KeepsOn
  <2>10. Keeps(c, e, S)
    BY <2>7, <2>9, KeepsOn DEF Spares
  <2>11. QED
    BY <1>2, <2>6, <2>7, <2>10 DEF Spares
<1>5. QED
  BY <1>3, <1>4

-----------------------------------------------------------------------------
(* Extents.                                                                *)

LEMMA SettleDoes ==
    ASSUME NEW c \in Calls, c.is = "done", NEW b \in Blocks, NEW v \in Values,
           NEW reopen \in BOOLEAN, NEW e \in Settle(c, b, v, reopen)
    PROVE  /\ Keeps(c, e, {b}) /\ e.is \in {"done", "failed"}
           /\ e.done = IF e.is = "done" THEN c.done + 1 ELSE c.done
           /\ e.is = "done" /\ (reopen \/ v \notin Views(c, b)) => Settled(e, b, v)
<1> DEFINE Programmed(f) == UNION {IF g.is = "done" THEN ProgramBlock(g, b, v) ELSE {g} :
                                       g \in Repair(f, b)}
           Mended == UNION {IF f.is = "done" THEN {f} ELSE Programmed(As(f, "done")) :
                                f \in Verify(c, b, v, reopen)}
<1>1. PICK d \in Mended : e = IF d.is = "done" THEN [d EXCEPT !.done = @ + 1] ELSE d
  BY DEF Settle, Else, Then
<1>2. PICK f \in Verify(c, b, v, reopen) :
         IF f.is = "done" THEN d = f ELSE d \in Programmed(As(f, "done"))
  BY <1>1
<1>3. v \in Contents
  BY DEF Contents
<1>4. /\ Spares(c, f, {}) /\ f.is \in {"done", "failed"} /\ f \in Calls
      /\ f.is = "done" /\ (reopen \/ v \notin Views(c, b)) => Settled(f, b, v)
  BY <1>3, VerifyDoes DEF Spares, Keeps
<1>5. /\ Spares(c, d, {b}) /\ d.is \in {"done", "failed"} /\ d \in Calls
      /\ d.is = "done" /\ (reopen \/ v \notin Views(c, b)) => Settled(d, b, v)
  <2>1. CASE f.is = "done"
    BY <1>2, <1>4, <2>1 DEF Spares, Keeps
  <2>2. CASE f.is # "done"
    <3>1. PICK g \in Repair(As(f, "done"), b) :
             IF g.is = "done" THEN d \in ProgramBlock(g, b, v) ELSE d = g
      BY <1>2, <2>2
    <3>2. As(f, "done") \in Calls /\ As(f, "done").is = "done" /\ Spares(c, As(f, "done"), {})
      BY <1>4, AsOn DEF Statuses
    <3>3. Spares(As(f, "done"), g, {b}) /\ g.is \in {"done", "failed"}
      BY <3>2, RepairDoes
    <3>4. Spares(c, g, {b}) /\ g \in Calls
      BY <3>2, <3>3, SparesOn DEF Spares, Keeps
    <3>5. CASE g.is = "done"
      <4>1. /\ Spares(g, d, {b}) /\ d.is \in {"done", "failed"}
            /\ d.is = "done" => Settled(d, b, v)
        BY <3>1, <3>4, <3>5, ProgramBlockDoes
      <4>2. QED
        BY <3>4, <4>1, SparesOn DEF Spares, Keeps
    <3>6. CASE g.is # "done"
      BY <3>1, <3>3, <3>4, <3>6
    <3>7. QED
      BY <3>5, <3>6
  <2>3. QED
    BY <2>1, <2>2
<1> HIDE DEF Mended
<1>6. CASE d.is = "done"
  <2> DEFINE y == [d EXCEPT !.done = @ + 1]
  <2>1. /\ y \in Calls /\ y.is = "done" /\ y.flash = d.flash /\ y.seen = d.seen
        /\ y.open = d.open /\ y.done = d.done + 1
    BY <1>5, <1>6 DEF Calls
  <2>2. e = y
    BY <1>1, <1>6
  <2> HIDE DEF y
  <2>3. QED
    BY <1>5, <1>6, <2>1, <2>2 DEF Spares, Keeps, Settled, Views
<1>7. CASE d.is # "done"
  BY <1>1, <1>5, <1>7 DEF Spares
<1>8. QED
  BY <1>6, <1>7

\* The blocks of an image in their order, and those of them that are settled.
At(image, i) == Sorted(DOMAIN image)[i]
SettledUpto(c, image, k) ==
    \A i \in 1 .. k : Settled(c, At(image, i), image[At(image, i)])

LEMMA AtIs ==
    ASSUME NEW D \in SUBSET Blocks, NEW image, DOMAIN image = D
    PROVE  /\ Cardinality(D) \in Nat
           /\ \A i \in 1 .. Cardinality(D) : At(image, i) \in D /\ At(image, i) \in Blocks
           /\ \A i, j \in 1 .. Cardinality(D) : i # j => At(image, i) # At(image, j)
           /\ \A b \in D : \E i \in 1 .. Cardinality(D) : At(image, i) = b
  BY SortedIs DEF At

LEMMA SettlesDo ==
    ASSUME NEW c \in Calls, c.is = "done", c.done = 0, NEW D \in SUBSET Blocks,
           NEW image \in [D -> Values], NEW ok \in BOOLEAN, NEW N \in 0 .. Cardinality(D),
           \A b \in D : image[b] \notin Views(c, b),
           NEW e \in Settles(c, image, ok, N)
    PROVE  /\ Keeps(c, e, D) /\ e.is \in {"done", "failed"}
           /\ e.done \in 0 .. N /\ (e.is = "done" => e.done = N)
           /\ SettledUpto(e, image, e.done)
<1> DEFINE s(i) == At(image, i)
           Op(d, k) == Settle(d, s(k), image[s(k)], ~ok /\ k = 1)
           Step(W, k) == UNION {IF d.is = "done" THEN Op(d, 0 + k) ELSE {d} : d \in W}
           F(f) == [k \in 0 .. N |-> IF k = 0 THEN {c} ELSE Step(f[k - 1], k)]
           h == CHOOSE f : f = F(f)
           pass == [k \in 1 .. N |-> [W \in SUBSET Calls |-> Step(W, k)]]
           T(k) == {d \in Calls :
                       /\ Keeps(c, d, D) /\ d.is \in {"done", "failed"}
                       /\ d.done \in 0 .. k /\ (d.is = "done" => d.done = k)
                       /\ SettledUpto(d, image, d.done)
                       /\ d.is = "done" =>
                             \A i \in k + 1 .. N : image[s(i)] \notin Views(d, s(i))}
<1>1. Settles(c, image, ok, N) = h[N]
  BY DEF Settles, EachOf, At
<1>2. N \in Nat
  BY BlocksFinite
<1>3. /\ \A i \in 1 .. N : s(i) \in D /\ s(i) \in Blocks /\ image[s(i)] \in Values
      /\ \A i, j \in 1 .. N : i # j => s(i) # s(j)
  <2>1. 1 .. N \subseteq 1 .. Cardinality(D) /\ DOMAIN image = D
    BY BlocksFinite
  <2>2. QED
    BY <2>1, AtIs
<1> HIDE DEF s
<1>4. c \in T(0)
  <2>1. SettledUpto(c, image, 0)
    BY DEF SettledUpto
  <2>2. QED
    BY <1>2, <1>3, <2>1, SparesItself DEF Spares
<1>5. ASSUME NEW k \in 1 .. N, NEW d \in Calls, d.is = "done", NEW y \in Op(d, k)
      PROVE  y \in Calls
  BY <1>5, <1>3, SettleDoes DEF Keeps
<1>6. ASSUME NEW k \in 1 .. N, NEW d \in T(k - 1),
             NEW y \in IF d.is = "done" THEN Op(d, k) ELSE {d}
      PROVE  y \in T(k)
  <2>1. CASE d.is # "done"
    BY <1>2, <1>6, <2>1
  <2>2. CASE d.is = "done"
    <3> DEFINE b == s(k)
               v == image[b]
               reopen == ~ok /\ k = 1
    <3>1. /\ b \in Blocks /\ b \in D /\ v \in Values /\ reopen \in BOOLEAN
          /\ y \in Settle(d, b, v, reopen)
      BY <1>6, <1>3, <2>2
    <3>2. v \notin Views(d, b) /\ d.done = k - 1 /\ SettledUpto(d, image, k - 1)
      BY <1>2, <1>6, <2>2
    <3> HIDE DEF b, v, reopen
    <3>3. /\ Keeps(d, y, {b}) /\ y.is \in {"done", "failed"}
          /\ y.done = IF y.is = "done" THEN d.done + 1 ELSE d.done
          /\ y.is = "done" => Settled(y, b, v)
      BY <2>2, <3>1, <3>2, SettleDoes
    <3>4. Keeps(c, y, D) /\ y \in Calls
      BY <1>6, <3>1, <3>3, KeepsOn DEF Keeps
    <3>5. ASSUME NEW i \in 1 .. N, i # k
          PROVE  /\ Settled(d, s(i), image[s(i)]) => Settled(y, s(i), image[s(i)])
                 /\ Views(y, s(i)) \subseteq Views(d, s(i))
      <4>1. s(i) \in Blocks /\ s(i) \notin {b}
        BY <1>3, <3>5 DEF b
      <4>2. QED
        BY <3>3, <4>1 DEF Keeps, Settled
    <3>6. SettledUpto(y, image, y.done)
      <4>1. ASSUME NEW i \in 1 .. y.done PROVE Settled(y, s(i), image[s(i)])
        <5>1. CASE i = k
          <6>1. y.is = "done"
            BY <3>2, <3>3, <5>1
          <6>2. QED
            BY <3>3, <5>1, <6>1 DEF b, v
        <5>2. CASE i # k
          <6>1. i \in 1 .. k - 1 /\ i \in 1 .. N
            BY <1>2, <3>2, <3>3, <5>2
          <6>2. Settled(d, s(i), image[s(i)])
            BY <3>2, <6>1 DEF SettledUpto, s
          <6>3. QED
            BY <3>5, <5>2, <6>1, <6>2
        <5>3. QED
          BY <5>1, <5>2
      <4>2. QED
        BY <4>1 DEF SettledUpto, s
    <3>7. ASSUME NEW i \in k + 1 .. N PROVE image[s(i)] \notin Views(y, s(i))
      <4>1. i # k /\ i \in 1 .. N /\ i \in k - 1 + 1 .. N
        BY <1>2
      <4>2. QED
        BY <1>6, <2>2, <3>5, <4>1
    <3>8. y.done \in 0 .. k /\ (y.is = "done" => y.done = k)
      BY <1>2, <3>2, <3>3
    <3>9. QED
      BY <3>3, <3>4, <3>6, <3>7, <3>8
  <2>3. QED
    BY <2>1, <2>2
<1>7. h[N] \subseteq T(N)
  <2> HIDE DEF T, Op
  <2>1. \A k \in 1 .. N, W \in SUBSET Calls : Step(W, k) \in SUBSET Calls
    BY <1>5
  <2> DEFINE States == SUBSET Calls
  <2>2. pass \in [1 .. N -> [States -> States]] /\ {c} \in States
    BY <2>1
  <2>3. \A k \in 1 .. N, W \in SUBSET Calls : pass[k][W] = Step(W, k)
    OBVIOUS
  <2>4. \A k \in 1 .. N : \A W : W \subseteq T(k - 1) => Step(W, k) \subseteq T(k)
    BY <1>6
  <2> HIDE DEF pass, Step, F, h
  <2>5. PICK g \in [0 .. N -> SUBSET Calls] :
           g[0] = {c} /\ \A k \in 1 .. N : g[k] = pass[k][g[k - 1]]
    <3> HIDE DEF States
    <3>1. PICK g \in Runs(States, {c}, N, pass) : TRUE
      BY <1>2, <2>2, LoopRuns
    <3>2. QED
      BY <3>1 DEF Runs, States
  <2>6. \A k \in 1 .. N : g[k] = Step(g[k - 1], k)
    BY <1>2, <2>3, <2>5
  <2>7. h = F(h)
    <3>1. g = F(g)
      BY <1>2, <2>5, <2>6 DEF F
    <3>2. QED
      BY <3>1, Zenon DEF h
  <2>8. h[0] = {c} /\ \A k \in 1 .. N : h[k] = Step(h[k - 1], k)
    <3>1. h = [k \in 0 .. N |-> IF k = 0 THEN {c} ELSE Step(h[k - 1], k)]
      BY <2>7, Zenon DEF F
    <3>2. \A k \in 0 .. N : h[k] = IF k = 0 THEN {c} ELSE Step(h[k - 1], k)
      BY <3>1, Zenon
    <3>3. QED
      BY <1>2, <3>2
  <2> DEFINE A == {k \in 0 .. N : h[k] \subseteq T(k)}
  <2>9. 0 \in A /\ \A k \in 1 .. N : k - 1 \in A => k \in A
    BY <1>2, <1>4, <2>4, <2>8
  <2>10. 0 .. N \subseteq A
    <3> HIDE DEF A
    <3> QED BY <1>2, <2>9, Induct
  <2>11. QED
    BY <1>2, <2>10
<1>8. e \in T(N)
  BY <1>7, <1>1
<1>9. QED
  BY <1>8

LEMMA SettledUptoStays ==
    ASSUME NEW c, NEW d, NEW S, Keeps(c, d, S), NEW image, NEW k,
           \A i \in 1 .. k : At(image, i) \in Blocks \ S, SettledUpto(c, image, k)
    PROVE  SettledUpto(d, image, k)
  BY DEF SettledUpto, Keeps, Settled

LEMMA LookedIs ==
    ASSUME NEW t \in Calls, NEW ok \in BOOLEAN, NEW n \in Nat
    PROVE  /\ Looked(t, ok, n) \in 0 .. n
           /\ Looked(t, ok, n) # n => t.sent < Looked(t, ok, n)
  BY DEF Looked, Least, Calls

LEMMA ProgramExtentDoes ==
    ASSUME NEW c \in Calls, c.is = "done", c.done = 0, NEW D \in SUBSET Blocks,
           NEW image \in [D -> Values],
           \A b \in D : c.flash[b] = Blank /\ Views(c, b) = {},
           NEW e \in ProgramExtent(c, image)
    PROVE  /\ Keeps(c, e, D) /\ e.done \in 0 .. Cardinality(D)
           /\ e.is = "done" => e.done = Cardinality(D)
           /\ SettledUpto(e, image, e.done)
<1> DEFINE n == Cardinality(D)
           Finished(t, ok) ==
               UNION {IF d.is # "done" THEN {d}
                      ELSE {IF Looked(t, ok, n) = n THEN d
                            ELSE [As(d, "broken") EXCEPT !.done = t.sent]} :
                      d \in Settles(t, image, ok, Looked(t, ok, n))}
           Programmed(d) == UNION {Finished(As(t, "done"), t.is = "done") :
                                       t \in Transfer(d, image)}
<1>1. DOMAIN image = D /\ n \in Nat
  BY BlocksFinite
<1>2. PICK d \in EnsureOpen(c) : IF d.is = "done" THEN e \in Programmed(d) ELSE e = d
  BY <1>1 DEF ProgramExtent, Then, Always
<1> HIDE DEF n
<1>3. Spares(c, d, {}) /\ d.is \in {"done", "failed"} /\ d \in Calls
  BY EnsureOpenDoes DEF Spares, Keeps
<1>4. CASE d.is # "done"
  <2>1. SettledUpto(e, image, 0)
    BY DEF SettledUpto
  <2>2. QED
    BY <1>1, <1>2, <1>3, <1>4, <2>1 DEF Spares, Keeps, n
<1>5. CASE d.is = "done"
  <2>1. PICK t \in Transfer(d, image) : e \in Finished(As(t, "done"), t.is = "done")
    BY <1>2, <1>5
  <2> DEFINE u == As(t, "done")
             ok == t.is = "done"
             N == Looked(u, ok, n)
  <2>2. image \in [D -> Contents]
    BY DEF Contents
  <2>3. Touches(d, t, D)
    BY <1>3, <1>5, <2>1, <2>2, TransferDoes
  <2>4. u \in Calls /\ u.is = "done" /\ Spares(d, u, D) /\ \A b : Views(u, b) = Views(t, b)
    <3>1. Spares(d, t, D) /\ "done" \in Statuses
      BY <2>3 DEF Touches, Statuses
    <3>2. u \in Calls /\ u.is = "done" /\ Spares(d, u, D)
      BY <3>1, AsOn
    <3>3. \A b : Views(u, b) = Views(t, b)
      BY <3>1, AsOn
    <3>4. QED
      BY <3>2, <3>3
  <2>5. u.done = 0 /\ Keeps(c, u, D)
    BY <1>3, <2>4, KeepsOn DEF Spares
  <2>6. ok \in BOOLEAN /\ N \in 0 .. n /\ (N # n => u.sent < N)
    BY <1>1, <2>4, LookedIs
  <2>7. \A b \in D : image[b] \notin Views(u, b)
    <3>1. ASSUME NEW b \in D PROVE image[b] \notin Views(u, b)
      <4>1. Views(d, b) \subseteq {} /\ d.flash[b] = Blank
        BY <1>3 DEF Spares, Keeps
      <4>2. Views(u, b) \subseteq {Blank, Torn}
        BY <2>3, <2>4, <4>1 DEF Touches
      <4>3. image[b] # Blank /\ image[b] # Torn
        BY WriterAssumption
      <4>4. QED
        BY <4>2, <4>3
    <3>2. QED
      BY <3>1
  <2>8. PICK f \in Settles(u, image, ok, N) :
           e = IF f.is # "done" \/ N = n THEN f ELSE [As(f, "broken") EXCEPT !.done = u.sent]
    <3>1. e \in Finished(u, ok)
      BY <2>1
    <3> HIDE DEF u, ok
    <3>2. QED
      BY <3>1
  <2> HIDE DEF u, ok, N
  <2>9. /\ Keeps(u, f, D) /\ f.is \in {"done", "failed"} /\ f \in Calls
        /\ f.done \in 0 .. N /\ (f.is = "done" => f.done = N)
        /\ SettledUpto(f, image, f.done)
    BY <2>4, <2>5, <2>6, <2>7, SettlesDo DEF n, Keeps
  <2>10. Keeps(c, f, D)
    BY <2>5, <2>9, KeepsOn
  <2>11. CASE f.is # "done" \/ N = n
    BY <1>1, <2>6, <2>8, <2>9, <2>10, <2>11 DEF n
  <2>12. CASE f.is = "done" /\ N # n
    <3> DEFINE g == As(f, "broken")
               y == [g EXCEPT !.done = u.sent]
    <3>1. g \in Calls /\ g.is = "broken" /\ Alike(f, g)
      BY <2>9, AsIs DEF Statuses, Alike
    <3>2. u.sent \in Nat
      BY <2>4 DEF Calls
    <3> HIDE DEF g
    <3>3. /\ y \in Calls /\ y.is = "broken" /\ y.done = u.sent
          /\ y.flash = f.flash /\ y.seen = f.seen /\ y.open = f.open
      BY <3>1, <3>2 DEF Calls, Alike
    <3>4. e = y
      BY <2>8, <2>12 DEF g
    <3> HIDE DEF y
    <3>5. Keeps(c, e, D)
      BY <2>10, <3>3, <3>4 DEF Keeps, Views
    <3>6. e.done \in 0 .. n /\ e.done \in 0 .. f.done /\ e.is = "broken"
      BY <1>1, <2>6, <2>9, <2>12, <3>2, <3>3, <3>4
    <3>7. SettledUpto(e, image, e.done)
      BY <2>9, <3>3, <3>4, <3>6 DEF SettledUpto, Settled
    <3>8. QED
      BY <3>5, <3>6, <3>7 DEF n
  <2>13. QED
    BY <2>11, <2>12
<1>6. QED
  BY <1>4, <1>5

\* Of the blocks of the boot image only the first can be boot sectors.
LEMMA ConfirmDoes ==
    ASSUME NEW c \in Calls, c.is = "done", NEW b \in Blocks, b \in Low \/ b \notin Metadata,
           NEW v \in Values, NEW reopen \in BOOLEAN, NEW e \in Confirm(c, b, v, reopen)
    PROVE  /\ Keeps(c, e, {}) /\ e.is \in {"done", "again"}
           /\ e.done = IF e.is = "done" THEN c.done + 1 ELSE c.done
           /\ e.is = "done" => Settled(e, b, v)
<1> DEFINE again == b \in Low \/ reopen
<1>1. PICK d \in Verify(c, b, v, again) :
         e = IF d.is = "done" THEN [d EXCEPT !.done = @ + 1] ELSE As(d, "again")
  BY DEF Confirm
<1>2. v \in Contents /\ again \in BOOLEAN
  BY DEF Contents
<1>3. again \/ v \notin Views(c, b)
  <2>1. v # Torn
    BY WriterAssumption
  <2>2. b \notin Metadata => Views(c, b) \subseteq {Torn}
    BY DEF Calls, Views
  <2>3. QED
    BY <2>1, <2>2
<1> HIDE DEF again
<1>4. /\ Spares(c, d, {}) /\ d \in Calls
      /\ d.is = "done" => Settled(d, b, v)
  BY <1>2, <1>3, VerifyDoes DEF Spares, Keeps
<1>5. CASE d.is = "done"
  <2> DEFINE y == [d EXCEPT !.done = @ + 1]
  <2>1. /\ y \in Calls /\ y.is = "done" /\ y.flash = d.flash /\ y.seen = d.seen
        /\ y.open = d.open /\ y.done = d.done + 1
    BY <1>4, <1>5 DEF Calls
  <2>2. e = y
    BY <1>1, <1>5
  <2> HIDE DEF y
  <2>3. QED
    BY <1>4, <1>5, <2>1, <2>2 DEF Spares, Keeps, Settled, Views
<1>6. CASE d.is # "done"
  BY <1>1, <1>4, <1>6, AsOn DEF Spares, Statuses
<1>7. QED
  BY <1>5, <1>6

LEMMA ConfirmsDo ==
    ASSUME NEW c \in Calls, c.is = "done", NEW D \in SUBSET Blocks,
           \A b \in D : b \in Low \/ b \notin Metadata,
           NEW image \in [D -> Values], NEW ok \in BOOLEAN, NEW N \in Nat,
           c.done + N <= Cardinality(D), SettledUpto(c, image, c.done),
           NEW e \in Confirms(c, image, ok, N)
    PROVE  /\ Keeps(c, e, {}) /\ e.is \in {"done", "again"}
           /\ e.done \in c.done .. c.done + N /\ (e.is = "done" => e.done = c.done + N)
           /\ SettledUpto(e, image, e.done)
<1> DEFINE s(i) == At(image, i)
           m == c.done
           Op(d, i) == Confirm(d, s(i), image[s(i)], ~ok /\ i = m + 1)
           Step(W, k) == UNION {IF d.is = "done" THEN Op(d, m + k) ELSE {d} : d \in W}
           F(f) == [k \in 0 .. N |-> IF k = 0 THEN {c} ELSE Step(f[k - 1], k)]
           h == CHOOSE f : f = F(f)
           pass == [k \in 1 .. N |-> [W \in SUBSET Calls |-> Step(W, k)]]
           T(k) == {d \in Calls :
                       /\ Keeps(c, d, {}) /\ d.is \in {"done", "again"}
                       /\ d.done \in m .. m + k /\ (d.is = "done" => d.done = m + k)
                       /\ SettledUpto(d, image, d.done)}
<1>1. Confirms(c, image, ok, N) = h[N]
  BY DEF Confirms, EachOf, At
<1>2. N \in Nat /\ m \in Nat
  BY DEF Calls
<1>3. \A i \in 1 .. m + N : s(i) \in D /\ s(i) \in Blocks /\ image[s(i)] \in Values
  <2>1. 1 .. m + N \subseteq 1 .. Cardinality(D) /\ DOMAIN image = D
    BY <1>2, BlocksFinite
  <2>2. QED
    BY <2>1, AtIs
<1>4. m = c.done
  OBVIOUS
<1> HIDE DEF s, m
<1>5. c \in T(0)
  BY <1>2, <1>4, SparesItself DEF Spares
<1>6. ASSUME NEW k \in 1 .. N, NEW d \in Calls, d.is = "done", NEW y \in Op(d, m + k)
      PROVE  y \in Calls
  <2> DEFINE reopen == ~ok /\ m + k = m + 1
  <2>1. m + k \in 1 .. m + N /\ reopen \in BOOLEAN
    BY <1>2
  <2>2. y \in Confirm(d, s(m + k), image[s(m + k)], reopen)
    BY <1>6
  <2> HIDE DEF reopen
  <2>3. QED
    BY <1>6, <1>3, <2>1, <2>2, ConfirmDoes DEF Keeps
<1>7. ASSUME NEW k \in 1 .. N, NEW d \in T(k - 1),
             NEW y \in IF d.is = "done" THEN Op(d, m + k) ELSE {d}
      PROVE  y \in T(k)
  <2>1. CASE d.is # "done"
    BY <1>2, <1>7, <2>1
  <2>2. CASE d.is = "done"
    <3> DEFINE b == s(m + k)
               v == image[b]
               reopen == ~ok /\ m + k = m + 1
    <3>1. m + k \in 1 .. m + N
      BY <1>2
    <3>2. /\ b \in Blocks /\ b \in D /\ v \in Values /\ reopen \in BOOLEAN
          /\ y \in Confirm(d, b, v, reopen)
      BY <1>7, <1>3, <2>2, <3>1
    <3>3. d.done = m + k - 1 /\ SettledUpto(d, image, m + k - 1)
      BY <1>2, <1>7, <2>2
    <3> HIDE DEF b, v, reopen
    <3>4. /\ Keeps(d, y, {}) /\ y.is \in {"done", "again"}
          /\ y.done = IF y.is = "done" THEN d.done + 1 ELSE d.done
          /\ y.is = "done" => Settled(y, b, v)
      BY <2>2, <3>2, ConfirmDoes
    <3>5. Keeps(c, y, {}) /\ y \in Calls
      BY <1>7, <3>4, KeepsOn DEF Keeps
    <3>6. SettledUpto(y, image, m + k - 1)
      <4>1. ASSUME NEW i \in 1 .. m + k - 1 PROVE At(image, i) \in Blocks \ {}
        <5>1. i \in 1 .. m + N
          BY <1>2
        <5>2. QED
          BY <1>3, <5>1 DEF s
      <4>2. QED
        BY <3>3, <3>4, <4>1, SettledUptoStays
    <3>7. SettledUpto(y, image, y.done)
      <4>1. ASSUME NEW i \in 1 .. y.done
            PROVE  Settled(y, At(image, i), image[At(image, i)])
        <5>1. CASE i \in 1 .. m + k - 1
          BY <3>6, <5>1 DEF SettledUpto
        <5>2. CASE i \notin 1 .. m + k - 1
          <6>1. y.is = "done" /\ i = m + k
            BY <1>2, <3>3, <3>4, <5>2
          <6>2. QED
            BY <3>4, <6>1 DEF b, v, s
        <5>3. QED
          BY <5>1, <5>2
      <4>2. QED
        BY <4>1 DEF SettledUpto
    <3>8. y.done \in m .. m + k /\ (y.is = "done" => y.done = m + k)
      BY <1>2, <3>3, <3>4
    <3>9. QED
      BY <3>4, <3>5, <3>7, <3>8
  <2>3. QED
    BY <2>1, <2>2
<1>8. h[N] \subseteq T(N)
  <2> HIDE DEF T, Op
  <2>1. \A k \in 1 .. N, W \in SUBSET Calls : Step(W, k) \in SUBSET Calls
    BY <1>6
  <2> DEFINE States == SUBSET Calls
  <2>2. pass \in [1 .. N -> [States -> States]] /\ {c} \in States
    BY <2>1
  <2>3. \A k \in 1 .. N, W \in SUBSET Calls : pass[k][W] = Step(W, k)
    OBVIOUS
  <2>4. \A k \in 1 .. N : \A W : W \subseteq T(k - 1) => Step(W, k) \subseteq T(k)
    BY <1>7
  <2> HIDE DEF pass, Step, F, h
  <2>5. PICK g \in [0 .. N -> SUBSET Calls] :
           g[0] = {c} /\ \A k \in 1 .. N : g[k] = pass[k][g[k - 1]]
    <3> HIDE DEF States
    <3>1. PICK g \in Runs(States, {c}, N, pass) : TRUE
      BY <1>2, <2>2, LoopRuns
    <3>2. QED
      BY <3>1 DEF Runs, States
  <2>6. \A k \in 1 .. N : g[k] = Step(g[k - 1], k)
    BY <1>2, <2>3, <2>5
  <2>7. h = F(h)
    <3>1. g = F(g)
      BY <1>2, <2>5, <2>6 DEF F
    <3>2. QED
      BY <3>1, Zenon DEF h
  <2>8. h[0] = {c} /\ \A k \in 1 .. N : h[k] = Step(h[k - 1], k)
    <3>1. h = [k \in 0 .. N |-> IF k = 0 THEN {c} ELSE Step(h[k - 1], k)]
      BY <2>7, Zenon DEF F
    <3>2. \A k \in 0 .. N : h[k] = IF k = 0 THEN {c} ELSE Step(h[k - 1], k)
      BY <3>1, Zenon
    <3>3. QED
      BY <1>2, <3>2
  <2> DEFINE A == {k \in 0 .. N : h[k] \subseteq T(k)}
  <2>9. 0 \in A /\ \A k \in 1 .. N : k - 1 \in A => k \in A
    BY <1>2, <1>5, <2>4, <2>8
  <2>10. 0 .. N \subseteq A
    <3> HIDE DEF A
    <3> QED BY <1>2, <2>9, Induct
  <2>11. QED
    BY <1>2, <2>10
<1>9. e \in T(N)
  BY <1>8, <1>1
<1>10. QED
  BY <1>9, <1>4

\* What an attempt can go on from: the blocks it has confirmed are settled.
Advanced(c, x, D, image) ==
    /\ Keeps(c, x, D) /\ x.done \in 0 .. Cardinality(D)
    /\ SettledUpto(x, image, x.done)

LEMMA RetryOn ==
    ASSUME NEW c, NEW x, NEW D, NEW image, Advanced(c, x, D, image), NEW s \in Statuses
    PROVE  Advanced(c, As(x, s), D, image) /\ As(x, s) \in Calls /\ As(x, s).is = s
<1>1. x \in Calls
  BY DEF Advanced, Keeps
<1>2. Alike(x, As(x, s)) /\ As(x, s).is = s
  BY <1>1, AsIs
<1>3. QED
  BY <1>2 DEF Alike, Advanced, Keeps, Views, SettledUpto, Settled

\* A part that touches no confirmed block.
LEMMA AdvancedOn ==
    ASSUME NEW c, NEW x, NEW D \in SUBSET Blocks, NEW image, DOMAIN image = D,
           Advanced(c, x, D, image), NEW y, NEW S \in SUBSET D, Spares(x, y, S),
           \A i \in 1 .. x.done : At(image, i) \notin S
    PROVE  Advanced(c, y, D, image) /\ y.done = x.done /\ y \in Calls
<1>1. Keeps(c, y, D) /\ y.done = x.done /\ y \in Calls
  BY KeepsOn DEF Advanced, Spares, Keeps
<1>2. ASSUME NEW i \in 1 .. x.done PROVE At(image, i) \in Blocks \ S
  <2>1. i \in 1 .. Cardinality(D)
    BY BlocksFinite DEF Advanced
  <2>2. QED
    BY <2>1, AtIs
<1>3. SettledUpto(y, image, x.done)
  BY <1>2, SettledUptoStays DEF Advanced, Spares
<1>4. QED
  BY <1>1, <1>3 DEF Advanced

LEMMA ReplaceExtentDoes ==
    ASSUME NEW c \in Calls, c.is = "done", c.done = 0, NEW D \in SUBSET Blocks,
           \A b \in D : b \in Low \/ b \notin Metadata,
           NEW image \in [D -> Values], NEW S \in SUBSET D,
           NEW d \in ReplaceExtent(c, image, S)
    PROVE  /\ Advanced(c, d, D, image) /\ d.is \in {"done", "failed"}
           /\ d.is = "done" => d.done = Cardinality(D)
<1> DEFINE n == Cardinality(DOMAIN image)
           Rest(x) == {At(image, i) : i \in x.done + 1 .. n}
           Erased(x, U) == IF U = {} THEN {x} ELSE Transfer(x, [b \in U |-> Blank])
           Confirmed(x, ok) ==
               {IF e.is = "done" /\ e.done < n THEN As(e, "again") ELSE e :
                    e \in Confirms(x, image, ok, Looked(x, ok, n - x.done))}
           Programmed(t) == UNION {Confirmed(As(u, "done"), u.is = "done") :
                                       u \in Transfer(t, Only(image, Rest(t)))}
           Replaced(a, e) == UNION {IF t.is = "done" THEN Programmed(t) ELSE {t} :
                                        t \in Erased(e, IF a = 1 THEN S ELSE Rest(e))}
           Tried(a, x) == UNION {IF e.is = "done" THEN Replaced(a, e) ELSE {e} : e \in Restart(x)}
           Try(a, x) == {IF f.is = "done" THEN f ELSE As(f, "again") : f \in Tried(a, x)}
           once   == Try(1, c)
           twice  == UNION {IF x.is = "again" THEN Try(2, As(x, "done")) ELSE {x} : x \in once}
           thrice == UNION {IF x.is = "again" THEN Try(Attempts, As(x, "done")) ELSE {x} :
                                x \in twice}
           Ready(x) == x \in Calls /\ x.is = "done" /\ Advanced(c, x, D, image)
           G == {x \in Calls : /\ Advanced(c, x, D, image) /\ x.is \in {"done", "failed", "again"}
                               /\ x.is = "done" => x.done = Cardinality(D)}
<1>1. ReplaceExtent(c, image, S) = {IF x.is = "again" THEN As(x, "failed") ELSE x : x \in thrice}
  BY DEF ReplaceExtent, Retry, Retried, Then, Always, AgainUnlessDone, At
<1>2. Ready(c) /\ c.done = 0
  <2>1. SettledUpto(c, image, 0)
    BY DEF SettledUpto
  <2>2. QED
    BY <2>1, BlocksFinite, SparesItself DEF Advanced, Spares
<1>3. DOMAIN image = D /\ n = Cardinality(D) /\ n \in Nat
  BY BlocksFinite
<1> HIDE DEF once, twice, thrice, n
<1>4. ASSUME NEW x, Advanced(c, x, D, image)
       PROVE  /\ Rest(x) \in SUBSET D
              /\ \A i \in 1 .. x.done : At(image, i) \notin Rest(x)
  <2>1. x.done \in 0 .. n
    BY <1>3, <1>4 DEF Advanced
  <2>2. ASSUME NEW j \in x.done + 1 .. n
        PROVE  /\ At(image, j) \in D
               /\ \A i \in 1 .. x.done : At(image, i) # At(image, j)
    <3>1. j \in 1 .. n /\ \A i \in 1 .. x.done : i \in 1 .. n /\ i # j
      BY <1>3, <2>1
    <3>2. QED
      BY <1>3, <3>1, AtIs
  <2>3. QED
    BY <2>2
<1> HIDE DEF Rest
<1>5. ASSUME NEW a \in 1 .. Attempts, NEW x, Ready(x), a # 1 \/ x.done = 0,
             NEW y \in Try(a, x)
      PROVE  y \in G
  <2>1. PICK f \in Tried(a, x) : y = IF f.is = "done" THEN f ELSE As(f, "again")
    BY <1>5
  <2>2. PICK e \in Restart(x) : IF e.is = "done" THEN f \in Replaced(a, e) ELSE f = e
    BY <2>1
  <2>3. Advanced(c, e, D, image) /\ e.done = x.done /\ e \in Calls
    <3>1. Spares(x, e, {})
      BY <1>5, RestartDoes
    <3>2. QED
      BY <1>5, <1>3, <3>1, AdvancedOn
  <2>4. SUFFICES Advanced(c, f, D, image) /\ (f.is = "done" => f.done = n)
    <3>1. ASSUME Advanced(c, f, D, image), f.is = "done" => f.done = n PROVE y \in G
      <4>1. CASE f.is = "done"
        BY <1>3, <2>1, <3>1, <4>1 DEF Advanced, Keeps
      <4>2. CASE f.is # "done"
        BY <2>1, <3>1, <4>2, RetryOn DEF Statuses
      <4>3. QED
        BY <4>1, <4>2
    <3>2. QED
      BY <3>1
  <2>5. CASE e.is # "done"
    BY <2>2, <2>3, <2>5
  <2>6. CASE e.is = "done"
    <3> DEFINE U == IF a = 1 THEN S ELSE Rest(e)
    <3>1. PICK t \in Erased(e, U) : IF t.is = "done" THEN f \in Programmed(t) ELSE f = t
      BY <2>2, <2>6
    <3>2. U \in SUBSET D /\ \A i \in 1 .. e.done : At(image, i) \notin U
      BY <1>5, <1>4, <2>3
    <3> HIDE DEF U
    <3>3. Spares(e, t, U)
      <4>1. CASE U = {}
        BY <2>3, <3>1, <4>1, SparesItself
      <4>2. CASE U # {}
        <5>1. [b \in U |-> Blank] \in [U -> Contents]
          BY DEF Contents
        <5>2. t \in Transfer(e, [b \in U |-> Blank])
          BY <3>1, <4>2
        <5>3. QED
          BY <2>3, <2>6, <3>2, <5>1, <5>2, TransferDoes DEF Touches
      <4>3. QED
        BY <4>1, <4>2
    <3>4. Advanced(c, t, D, image) /\ t \in Calls
      BY <1>3, <2>3, <3>2, <3>3, AdvancedOn
    <3>5. CASE t.is # "done"
      BY <3>1, <3>4, <3>5
    <3>6. CASE t.is = "done"
      <4>1. PICK u \in Transfer(t, Only(image, Rest(t))) :
               f \in Confirmed(As(u, "done"), u.is = "done")
        BY <3>1, <3>6
      <4>2. Rest(t) \in SUBSET D /\ \A i \in 1 .. t.done : At(image, i) \notin Rest(t)
        BY <1>4, <3>4
      <4>3. Spares(t, u, Rest(t))
        <5>1. Only(image, Rest(t)) \in [Rest(t) -> Contents]
          BY <4>2 DEF Only, Contents
        <5>2. QED
          BY <3>4, <3>6, <4>1, <4>2, <5>1, TransferDoes DEF Touches
      <4>4. Advanced(c, u, D, image)
        BY <1>3, <3>4, <4>2, <4>3, AdvancedOn
      <4> DEFINE w == As(u, "done")
                 ok == u.is = "done"
                 N == Looked(w, ok, n - w.done)
      <4>5. w \in Calls /\ w.is = "done" /\ Advanced(c, w, D, image)
        BY <4>4, RetryOn DEF Statuses
      <4>6. N \in 0 .. n - w.done /\ ok \in BOOLEAN /\ w.done \in 0 .. n
        <5>1. w.done \in 0 .. n
          BY <1>3, <4>5 DEF Advanced
        <5>2. n - w.done \in Nat
          BY <1>3, <5>1
        <5>3. QED
          BY <4>5, <5>1, <5>2, LookedIs
      <4>7. PICK g \in Confirms(w, image, ok, N) :
               f = IF g.is = "done" /\ g.done < n THEN As(g, "again") ELSE g
        BY <4>1
      <4> HIDE DEF w, ok, N
      <4>8. /\ Keeps(w, g, {}) /\ g.is \in {"done", "again"}
            /\ g.done \in w.done .. w.done + N
            /\ SettledUpto(g, image, g.done)
        <5>1. N \in Nat /\ w.done + N <= Cardinality(D)
          BY <1>3, <4>6
        <5>2. SettledUpto(w, image, w.done)
          BY <4>5 DEF Advanced
        <5>3. QED
          BY <4>5, <4>6, <4>7, <5>1, <5>2, ConfirmsDo
      <4>9. g.done \in 0 .. n
        BY <1>3, <4>6, <4>8
      <4>10. Advanced(c, g, D, image)
        BY <1>3, <4>5, <4>8, <4>9, KeepsOn DEF Advanced
      <4>11. CASE g.is = "done" /\ g.done < n
        BY <4>7, <4>10, <4>11, RetryOn DEF Statuses
      <4>12. CASE ~ (g.is = "done" /\ g.done < n)
        BY <1>3, <4>7, <4>9, <4>10, <4>12
      <4>13. QED
        BY <4>11, <4>12
    <3>7. QED
      BY <3>5, <3>6
  <2>7. QED
    BY <2>5, <2>6
<1>6. ASSUME NEW x \in G PROVE Ready(As(x, "done"))
  BY <1>6, RetryOn DEF Statuses
<1> HIDE DEF Try, Ready
<1>7. once \subseteq G
  BY <1>2, <1>5 DEF once, Attempts
<1>8. twice \subseteq G
  <2>1. ASSUME NEW e \in twice PROVE e \in G
    <3>1. PICK x \in once : IF x.is = "again" THEN e \in Try(2, As(x, "done")) ELSE e = x
      BY <2>1 DEF twice
    <3>2. QED
      BY <1>5, <1>6, <1>7, <3>1 DEF Attempts
  <2>2. QED
    BY <2>1
<1>9. thrice \subseteq G
  <2>1. ASSUME NEW e \in thrice PROVE e \in G
    <3>1. PICK x \in twice : IF x.is = "again" THEN e \in Try(Attempts, As(x, "done")) ELSE e = x
      BY <2>1 DEF thrice
    <3>2. QED
      BY <1>5, <1>6, <1>8, <3>1 DEF Attempts
  <2>2. QED
    BY <2>1
<1>10. PICK x \in thrice : d = IF x.is = "again" THEN As(x, "failed") ELSE x
  BY <1>1
<1>11. x \in G
  BY <1>9
<1>12. CASE x.is = "again"
  BY <1>10, <1>11, <1>12, RetryOn DEF Statuses
<1>13. CASE x.is # "again"
  BY <1>10, <1>11, <1>13
<1>14. QED
  BY <1>12, <1>13

-----------------------------------------------------------------------------
(* Calls.                                                                  *)

LEMMA RereadDoes ==
    ASSUME NEW c \in Calls, c.is = "done", NEW b \in Blocks, NEW v \in Contents,
           Views(c, b) = {}, NEW d \in Reread(c, b, v)
    PROVE  /\ Spares(c, d, {}) /\ d.is \in {"done", "failed"}
           /\ d.is = "done" => Settled(d, b, v)
<1> DEFINE Restarted(e) == {IF f.is = "done" THEN As(f, "again") ELSE f :
                                f \in Restart(As(e, "done"))}
           Try(a, x) == UNION {IF e.is = "failed" /\ a < Attempts THEN Restarted(e) ELSE {e} :
                                   e \in {y \in ReadBlock(x, b, v) : y.is # "differs"}}
           once   == Try(1, c)
           twice  == UNION {IF x.is = "again" THEN Try(2, As(x, "done")) ELSE {x} : x \in once}
           thrice == UNION {IF x.is = "again" THEN Try(Attempts, As(x, "done")) ELSE {x} :
                                x \in twice}
           Ready(x) == x \in Calls /\ x.is = "done" /\ Spares(c, x, {})
           G == {x \in Calls : /\ Spares(c, x, {}) /\ x.is \in {"done", "failed", "again"}
                               /\ x.is = "done" => Settled(x, b, v)}
<1>1. Reread(c, b, v) = {IF x.is = "again" THEN As(x, "failed") ELSE x : x \in thrice}
  BY DEF Reread, Retry, Retried
<1>2. Ready(c)
  BY SparesItself
<1> HIDE DEF once, twice, thrice
<1>3. ASSUME NEW a \in 1 .. Attempts, NEW x, Ready(x), NEW y \in Try(a, x)
      PROVE  y \in G
  <2>1. PICK e \in ReadBlock(x, b, v) :
           /\ e.is # "differs"
           /\ y = e \/ (e.is = "failed" /\ y \in Restarted(e))
    BY <1>3
  <2>2. v \notin Views(x, b)
    BY <1>3, SparedStays
  <2>3. /\ Spares(x, e, {}) /\ e.is \in {"done", "failed"} /\ e \in Calls
        /\ e.is = "done" => Settled(e, b, v)
    BY <1>3, <2>1, <2>2, ReadBlockDoes DEF Spares, Keeps
  <2>4. Spares(c, e, {})
    BY <1>3, <2>3, SparesOn
  <2>5. CASE y = e
    BY <2>3, <2>4, <2>5
  <2>6. CASE y \in Restarted(e)
    <3>1. PICK f \in Restart(As(e, "done")) : y = IF f.is = "done" THEN As(f, "again") ELSE f
      BY <2>6
    <3>2. As(e, "done") \in Calls /\ As(e, "done").is = "done" /\ Spares(c, As(e, "done"), {})
      BY <2>4, AsOn DEF Statuses
    <3>3. Spares(c, f, {}) /\ f.is \in {"done", "failed"} /\ f \in Calls
      BY <3>2, RestartDoes, SparesOn DEF Spares, Keeps
    <3>4. QED
      BY <3>1, <3>3, AsOn DEF Statuses
  <2>7. QED
    BY <2>1, <2>5, <2>6
<1>4. ASSUME NEW x \in G PROVE Ready(As(x, "done"))
  BY <1>4, AsOn DEF Statuses
<1> HIDE DEF Try, Ready
<1>5. once \subseteq G
  BY <1>2, <1>3 DEF once, Attempts
<1>6. twice \subseteq G
  <2>1. ASSUME NEW e \in twice PROVE e \in G
    <3>1. PICK x \in once : IF x.is = "again" THEN e \in Try(2, As(x, "done")) ELSE e = x
      BY <2>1 DEF twice
    <3>2. QED
      BY <1>3, <1>4, <1>5, <3>1 DEF Attempts
  <2>2. QED
    BY <2>1
<1>7. thrice \subseteq G
  <2>1. ASSUME NEW e \in thrice PROVE e \in G
    <3>1. PICK x \in twice : IF x.is = "again" THEN e \in Try(Attempts, As(x, "done")) ELSE e = x
      BY <2>1 DEF thrice
    <3>2. QED
      BY <1>3, <1>4, <1>6, <3>1 DEF Attempts
  <2>2. QED
    BY <2>1
<1>8. PICK x \in thrice : d = IF x.is = "again" THEN As(x, "failed") ELSE x
  BY <1>1
<1>9. x \in G
  BY <1>7
<1>10. CASE x.is = "again"
  BY <1>8, <1>9, <1>10, AsOn DEF Statuses
<1>11. CASE x.is # "again"
  BY <1>8, <1>9, <1>11
<1>12. QED
  BY <1>10, <1>11

\* A call that tells the truth of its image.
Honest(c, image) ==
    /\ Advanced(Call, c, DOMAIN image, image)
    /\ c.is = "done" => \A b \in DOMAIN image : Settled(c, b, image[b])

Types ==
    /\ flash \in [Blocks -> Contents] /\ seen \in [Blocks -> SUBSET Contents]
    /\ \A b \in Blocks \ Metadata : seen[b] \subseteq {Torn}
    /\ mapping \in {"write", "read"} /\ open \in BOOLEAN

\* Old contents may show only in blocks that are set aside, and nowhere once
\* the session was restarted for a write.
Inv ==
    /\ Types
    /\ \A b \in Blocks : seen[b] # {} => b \in aside
    /\ prepared => open /\ \A b \in Blocks : seen[b] = {}
    /\ StoredAsReported

LEMMA CallIs ==
    ASSUME Inv
    PROVE  /\ Call \in Calls /\ Call.is = "done" /\ Call.done = 0
           /\ Call.flash = flash /\ Call.seen = seen /\ Call.open = open
  BY DEF Inv, Types, Calls, Call, Statuses

LEMMA InitInv == Init => Inv
  BY WriterAssumption DEF Init, Inv, Types, StoredAsReported, Nothing, Contents

LEMMA AnswerKeeps ==
    ASSUME Inv, NEW ways, NEW image, DOMAIN image \in SUBSET Blocks, NEW prepares \in BOOLEAN,
           \A c \in ways :
               /\ Honest(c, image)
               /\ prepares /\ c.is = "done" => c.open /\ \A b \in Blocks : c.seen[b] = {},
           Answer(ways, image, prepares)
    PROVE  Inv'
<1> DEFINE D == DOMAIN image
           told(c) == {At(image, i) : i \in 1 .. c.done}
<1>1. PICK c \in ways :
         /\ flash' = c.flash /\ seen' = c.seen /\ mapping' = c.mapping /\ open' = c.open
         /\ aside' = {b \in IF c.is = "done" THEN aside \ D ELSE aside \cup D :
                          c.seen[b] # {}}
         /\ prepared' = (prepares /\ c.is = "done")
         /\ last' = [is |-> c.is, spent |-> c.spent + (IF open THEN 0 ELSE 1),
                     reported |-> IF c.is = "done" THEN image ELSE Only(image, told(c))]
  BY DEF Answer, At
<1>2. /\ Honest(c, image) /\ Keeps(Call, c, D) /\ c \in Calls
      /\ prepares /\ c.is = "done" => c.open /\ \A b \in Blocks : c.seen[b] = {}
  BY DEF Honest, Advanced, Keeps
<1>3. Types'
  BY <1>1, <1>2 DEF Types, Calls
<1>4. \A b \in Blocks : seen'[b] # {} => b \in aside'
  <2>1. ASSUME NEW b \in Blocks, c.seen[b] # {} PROVE b \in aside'
    <3>1. CASE b \in D
      BY <1>1, <1>2, <2>1, <3>1 DEF Honest, Settled
    <3>2. CASE b \notin D
      <4>1. seen[b] # {}
        BY <1>2, <2>1, <3>2, CallIs DEF Keeps
      <4>2. b \in aside
        BY <4>1 DEF Inv
      <4>3. QED
        BY <1>1, <2>1, <3>2, <4>2
    <3>3. QED
      BY <3>1, <3>2
  <2>2. QED
    BY <1>1, <2>1
<1>5. prepared' => open' /\ \A b \in Blocks : seen'[b] = {}
  BY <1>1, <1>2
<1>6. StoredAsReported'
  <2>1. CASE c.is = "done"
    BY <1>1, <1>2, <2>1 DEF Honest, Settled, StoredAsReported
  <2>2. CASE c.is # "done"
    <3>1. ASSUME NEW i \in 1 .. c.done PROVE image[At(image, i)] = c.flash[At(image, i)]
      BY <1>2, <3>1 DEF Honest, Advanced, SettledUpto, Settled
    <3>2. \A b \in told(c) : Only(image, told(c))[b] = c.flash[b]
      BY <3>1 DEF Only
    <3>3. DOMAIN Only(image, told(c)) = told(c)
      BY DEF Only
    <3> HIDE DEF told
    <3>4. QED
      BY <1>1, <2>2, <3>2, <3>3 DEF StoredAsReported
  <2>3. QED
    BY <2>1, <2>2
<1>7. QED
  BY <1>3, <1>4, <1>5, <1>6 DEF Inv

\* A call of one block, of several of which none is reported before the end,
\* and of an extent.
LEMMA HonestIf ==
    ASSUME Inv, NEW image, DOMAIN image \in SUBSET Blocks, NEW c, Keeps(Call, c, DOMAIN image),
           c.done = 0, c.is = "done" => \A b \in DOMAIN image : Settled(c, b, image[b])
    PROVE  Honest(c, image)
<1>1. SettledUpto(c, image, 0)
  BY DEF SettledUpto
<1>2. QED
  BY <1>1, BlocksFinite DEF Honest, Advanced

LEMMA HonestExtent ==
    ASSUME Inv, NEW image, DOMAIN image \in SUBSET Blocks, NEW c,
           Advanced(Call, c, DOMAIN image, image),
           c.is = "done" => c.done = Cardinality(DOMAIN image)
    PROVE  Honest(c, image)
<1>1. ASSUME c.is = "done", NEW b \in DOMAIN image PROVE Settled(c, b, image[b])
  <2>1. PICK i \in 1 .. Cardinality(DOMAIN image) : At(image, i) = b
    BY AtIs
  <2>2. QED
    BY <1>1, <2>1 DEF Advanced, SettledUpto
<1>2. QED
  BY <1>1 DEF Honest

\* The calls of one block.
LEMMA OneBlock ==
    ASSUME Inv, NEW b \in Blocks, NEW v, NEW c, Spares(Call, c, {b}),
           c.is = "done" => Settled(c, b, v)
    PROVE  Honest(c, [x \in {b} |-> v])
  BY HonestIf, CallIs DEF Spares

LEMMA ReadKeeps ==
    ASSUME Inv, NEW b \in Blocks, Read(b)
    PROVE  Inv'
<1>1. PICK v \in Contents : Answer(Reread(Call, b, v), [x \in {b} |-> v], FALSE)
  BY DEF Read
<1>2. Views(Call, b) = {}
  BY CallIs DEF Read, Inv, Views
<1>3. ASSUME NEW c \in Reread(Call, b, v) PROVE Honest(c, [x \in {b} |-> v])
  <2>1. Spares(Call, c, {}) /\ (c.is = "done" => Settled(c, b, v))
    BY <1>2, CallIs, RereadDoes
  <2>2. Spares(Call, c, {b})
    BY <2>1 DEF Spares, Keeps
  <2>3. QED
    BY <2>1, <2>2, OneBlock
<1> DEFINE image == [x \in {b} |-> v]
<1>4. DOMAIN image \in SUBSET Blocks
  OBVIOUS
<1> HIDE DEF image
<1>5. Answer(Reread(Call, b, v), image, FALSE) /\ \A c \in Reread(Call, b, v) : Honest(c, image)
  BY <1>1, <1>3 DEF image
<1>6. QED
  BY <1>4, <1>5, AnswerKeeps

LEMMA EraseKeeps ==
    ASSUME Inv, NEW b \in Blocks, Erase(b)
    PROVE  Inv'
<1> DEFINE image == [x \in {b} |-> Blank]
<1>1. DOMAIN image \in SUBSET Blocks
  OBVIOUS
<1>2. ASSUME NEW c \in EraseBlock(Call, b) PROVE Honest(c, image)
  BY CallIs, EraseBlockDoes, OneBlock
<1>3. Answer(EraseBlock(Call, b), image, FALSE)
  BY DEF Erase
<1> HIDE DEF image
<1>4. QED
  BY <1>1, <1>2, <1>3, AnswerKeeps

LEMMA ReplaceMetadataKeeps ==
    ASSUME Inv, NEW b \in Metadata, NEW v \in Values, ReplaceMetadata(b, v)
    PROVE  Inv'
<1> DEFINE image == [x \in {b} |-> v]
<1>1. b \in Blocks
  BY WriterAssumption DEF Metadata, Low, Blocks
<1>2. DOMAIN image \in SUBSET Blocks
  BY <1>1
<1>3. ASSUME NEW c \in ReplaceBlock(Call, b, v) PROVE Honest(c, image)
  BY <1>1, CallIs, ReplaceBlockDoes, OneBlock
<1>4. Answer(ReplaceBlock(Call, b, v), image, FALSE)
  BY DEF ReplaceMetadata
<1> HIDE DEF image
<1>5. QED
  BY <1>2, <1>3, <1>4, AnswerKeeps

LEMMA EraseAllKeeps ==
    ASSUME Inv, NEW S \in SUBSET Blocks, EraseAll(S)
    PROVE  Inv'
<1> DEFINE image == [b \in S |-> Blank]
<1>1. DOMAIN image = S
  OBVIOUS
<1>2. ASSUME NEW c \in EraseBatch(Call, S) PROVE Honest(c, image)
  <2>1. /\ Keeps(Call, c, S) /\ c.done = 0
        /\ c.is = "done" => \A b \in S : Settled(c, b, Blank)
    BY CallIs, EraseBatchDoes
  <2>2. \A b \in S : image[b] = Blank
    OBVIOUS
  <2> HIDE DEF image
  <2>3. QED
    BY <1>1, <2>1, <2>2, HonestIf
<1>3. Answer(EraseBatch(Call, S), image, FALSE)
  BY DEF EraseAll
<1> HIDE DEF image
<1>4. QED
  BY <1>1, <1>2, <1>3, AnswerKeeps

LEMMA PrepareKeeps ==
    ASSUME Inv, Prepare
    PROVE  Inv'
<1> DEFINE ways  == Restart(Call)
           image == <<>>
<1>1. DOMAIN image = {}
  OBVIOUS
<1>2. Answer(ways, image, TRUE)
  BY DEF Prepare
<1> HIDE DEF ways, image
<1>3. ASSUME NEW c \in ways
      PROVE  /\ Honest(c, image)
             /\ TRUE /\ c.is = "done" => c.open /\ \A b \in Blocks : c.seen[b] = {}
  <2>1. /\ Spares(Call, c, {})
        /\ c.is = "done" => c.open /\ \A b \in Blocks : c.seen[b] = {}
    BY CallIs, RestartDoes DEF ways
  <2>2. Keeps(Call, c, DOMAIN image) /\ c.done = 0
    BY <1>1, <2>1, CallIs DEF Spares
  <2>3. QED
    BY <1>1, <2>1, <2>2, HonestIf
<1>4. DOMAIN image \in SUBSET Blocks
  BY <1>1
<1>5. QED
  BY <1>2, <1>3, <1>4, AnswerKeeps

\* The extents' images.
LEMMA ImagesAre ==
    ASSUME NEW image \in Images
    PROVE  DOMAIN image \in SUBSET Blocks /\ image \in [DOMAIN image -> Values]
<1>1. PICK S \in Extents : image \in Injection(S, Values)
  BY DEF Images
<1>2. S \in SUBSET Blocks
  <2>1. PICK lo, hi \in Blocks : S = lo .. hi
    BY <1>1 DEF Extents
  <2>2. QED
    BY <2>1, WriterAssumption DEF Blocks
<1>3. image \in [S -> Values]
  BY <1>1 DEF Injection
<1>4. QED
  BY <1>2, <1>3

LEMMA ProgramKeeps ==
    ASSUME Inv, NEW image \in Images, Program(image)
    PROVE  Inv'
<1> DEFINE D == DOMAIN image
<1>1. D \in SUBSET Blocks /\ image \in [D -> Values]
  BY ImagesAre
<1>2. \A b \in D : Call.flash[b] = Blank /\ Views(Call, b) = {}
  BY <1>1, CallIs DEF Program, Inv, Views
<1>3. ASSUME NEW c \in ProgramExtent(Call, image) PROVE Honest(c, image)
  <2>1. /\ Advanced(Call, c, D, image)
        /\ c.is = "done" => c.done = Cardinality(D)
    BY <1>1, <1>2, CallIs, ProgramExtentDoes DEF Advanced
  <2>2. QED
    BY <1>1, <2>1, HonestExtent
<1>4. QED
  BY <1>1, <1>3, AnswerKeeps DEF Program

LEMMA ReplaceKeeps ==
    ASSUME Inv, NEW image \in BootImages, Replace(image)
    PROVE  Inv'
<1> DEFINE D == DOMAIN image
           S == {b \in D : flash[b] # Blank}
<1>1. D \in SUBSET Blocks /\ image \in [D -> Values] /\ D \subseteq 0 .. Count - Split - 1
  BY ImagesAre DEF BootImages
<1>2. ASSUME NEW b \in D PROVE b \in Low \/ b \notin Metadata
  <2>1. b \in 0 .. Count - Split - 1 /\ Count \in Nat /\ Split \in Nat
    BY <1>1, WriterAssumption
  <2>2. b \notin Count - Split .. Count - 1
    BY <2>1
  <2>3. QED
    BY <2>2 DEF Metadata
<1>3. ASSUME NEW c \in ReplaceExtent(Call, image, S) PROVE Honest(c, image)
  <2>1. S \in SUBSET D
    OBVIOUS
  <2> HIDE DEF S
  <2>2. /\ Advanced(Call, c, D, image)
        /\ c.is = "done" => c.done = Cardinality(D)
    BY <1>1, <1>2, <1>3, <2>1, CallIs, ReplaceExtentDoes
  <2>3. QED
    BY <1>1, <2>2, HonestExtent
<1>4. Answer(ReplaceExtent(Call, image, S), image, FALSE)
  BY DEF Replace
<1> HIDE DEF S
<1>5. QED
  BY <1>1, <1>3, <1>4, AnswerKeeps

LEMMA NextKeeps == Inv /\ [Next]_vars => Inv'
<1> SUFFICES ASSUME Inv, [Next]_vars PROVE Inv'
  OBVIOUS
<1>1. CASE UNCHANGED cartridge /\ last' = last
  BY <1>1 DEF Inv, Types, StoredAsReported, cartridge
<1>2. CASE Return
  <2>1. DOMAIN last'.reported = {}
    BY <1>2 DEF Return, Nothing
  <2>2. QED
    BY <1>2, <2>1 DEF Return, Inv, Types, StoredAsReported, cartridge
<1>3. CASE Prepare
  BY <1>3, PrepareKeeps
<1>4. ASSUME NEW b \in Blocks, Read(b) \/ Erase(b) PROVE Inv'
  BY <1>4, ReadKeeps, EraseKeeps
<1>5. ASSUME NEW S \in SUBSET Blocks, EraseAll(S) PROVE Inv'
  BY <1>5, EraseAllKeeps
<1>6. ASSUME NEW image \in Images, Program(image) PROVE Inv'
  BY <1>6, ProgramKeeps
<1>7. ASSUME NEW b \in Metadata, NEW v \in Values, ReplaceMetadata(b, v) PROVE Inv'
  BY <1>7, ReplaceMetadataKeeps
<1>8. ASSUME NEW image \in BootImages, Replace(image) PROVE Inv'
  BY <1>8, ReplaceKeeps
<1>9. QED
  BY <1>1, <1>2, <1>3, <1>4, <1>5, <1>6, <1>7, <1>8 DEF Next, vars

\* What a call reports as stored, erased or read, and the part of an extent
\* that it reports as completed, is what the cartridge holds.
THEOREM CartridgeStoresAsReported == Spec => []StoredAsReported
<1>1. Spec => []Inv
  BY InitInv, NextKeeps, PTL DEF Spec
<1>2. Inv => StoredAsReported
  BY DEF Inv
<1>3. QED
  BY <1>1, <1>2, PTL
=============================================================================
