------------------------- MODULE PackedRecordsProofs -------------------------
(***************************************************************************)
(* PackedRecords: every variable has its type, and both superblocks stay   *)
(* usable, for every set of files, every batch and any number of blocks.   *)
(*                                                                         *)
(* What the loops of the code compute is proved by induction over their    *)
(* passes: Recursion gives the recursive function that a definition stands *)
(* for, and Passes what holds of it after each pass.                       *)
(***************************************************************************)
EXTENDS PackedRecords, TLAPS, WellFoundedInduction

\* What is put together in RAM: records of a plan, those of entries that are
\* carried and new ones, and blocks.
Records == {e \in Entries : IsPacked(e)} \cup [name : Names, id : Nat, content : Small]
Stored  == {x \in [gen : Nat, records : SUBSET [id : Nat, content : Contents]] :
               x.records # {}}
Plans   == [image : Seq(Stored), place : Seq(Entries)]

\* A manifest names a file once, and only packed files share a block.
Distinct(m) == \A i, j \in DOMAIN m : m[i].name = m[j].name => i = j
Apart(m) ==
    \A i, j \in DOMAIN m : (i # j /\ Span(m[i]) \cap Span(m[j]) # {})
                               => (IsPacked(m[i]) /\ IsPacked(m[j]))
Manifests == {m \in Seq(Entries) : Distinct(m) /\ Apart(m)}

\* The entry of a plan finds its record, or its parts, in the image.
HeldBy(image, b, gen, id, content) ==
    /\ b < Len(image)
    /\ image[b + 1].gen = gen
    /\ [id |-> id, content |-> content] \in image[b + 1].records
PointsInto(p, image) ==
    IF IsPacked(p) THEN HeldBy(image, p.block, p.gen, p.id, p.content)
    ELSE \A b \in Span(p) : HeldBy(image, b, 0, b - p.block, p.content)
Sound(plan) ==
    /\ plan \in Plans
    /\ Apart(plan.place)
    /\ \A k \in DOMAIN plan.place : PointsInto(plan.place[k], plan.image)

Jobs == [task : {"none", "put", "remove", "gc", "compact"},
         stage : {"none", "final", "collect", "move", "sync"},
         round : 1 .. 3, attempt : 1 .. 3, put : Plans, move : Plans,
         dest : FirstData .. EndData, victims : SUBSET DataBlocks,
         old : Manifests]

Superblocks == [{0, 1} -> [ok : BOOLEAN, gen : Nat, man : Manifests]]
Areas       == [DataBlocks -> Stored \cup {Blank, Torn}]

Types ==
    /\ sb \in Superblocks /\ data \in Areas
    /\ entries \in Manifests
    /\ generation \in Nat /\ active \in {0, 1}
    /\ nextFree \in FirstData .. EndData
    /\ pc \in {"unmounted", "idle", "search", "collect", "pack", "compact",
               "program", "commit", "erase"}
    /\ job \in Jobs /\ Sound(job.put) /\ Sound(job.move)
    /\ pc = "search" => job.stage = "final"
    /\ pc = "program" => job.stage \in {"final", "move"}
    /\ pc = "commit" => job.stage # "none"
    /\ pc = "erase" => job.stage \in {"collect", "sync"}

\* The entries as the newest superblock has them.
Committed ==
    IF pc = "commit" /\ job.stage \in {"final", "move"} THEN job.old ELSE entries

\* What is programmed goes to blank blocks; what is erased has been left by
\* every entry, in memory and, when it is erased, in both superblocks.
Usable ==
    /\ BothManifestsResolve
    /\ Readable(entries, data)
    /\ Mounted => (active \in Valid /\ sb[active].man = Committed)
Placed ==
    /\ pc = "program" =>
          \A b \in Destination : b \in DataBlocks /\ data[b] = Blank
    /\ (pc = "program" /\ job.stage = "move") =>
          /\ job.victims \subseteq Used(entries)
          /\ \A i \in DOMAIN entries : Span(entries[i]) \cap job.victims # {} =>
                \E k \in DOMAIN job.move.place :
                    job.move.place[k].name = entries[i].name
    /\ (pc \in {"commit", "erase"} /\ job.stage # "final") =>
          job.victims \cap Used(entries) = {}
    /\ pc = "erase" => \A s \in Valid : sb[s].man = entries

Inv == Types /\ Usable /\ Placed
-----------------------------------------------------------------------------
(* Induction and recursion.                                                *)

\* A set of natural numbers that is not empty has a least one.
LEMMA LeastExists ==
    ASSUME NEW S \in SUBSET Nat, S # {}
    PROVE  Least(S) \in S /\ \A y \in S : Least(S) <= y
<1>1. IsWellFoundedOn(OpToRel(<, Nat), Nat)
  BY NatLessThanWellFounded
<1>2. PICK x \in S : \A y \in S : ~ (<<y, x>> \in OpToRel(<, Nat))
  BY <1>1, WFMin, Zenon
<1>3. ASSUME NEW y \in S PROVE x <= y
  <2>1. y \in Nat /\ x \in Nat
    OBVIOUS
  <2>2. y < x => <<y, x>> \in OpToRel(<, Nat)
    BY <2>1 DEF OpToRel
  <2>3. ~ (y < x)
    BY <1>2, <2>2, Zenon
  <2>4. QED
    BY <2>1, <2>3
<1>4. \E z \in S : \A y \in S : z <= y
  BY <1>3
<1>5. QED
  BY <1>4, Zenon DEF Least

\* A name that some element has is found.
LEMMA FoundIs ==
    ASSUME NEW E, NEW m \in Seq(E), NEW n, IsNamed(m, n)
    PROVE  Find(m, n) \in DOMAIN m /\ m[Find(m, n)].name = n
<1> DEFINE same == {i \in DOMAIN m : m[i].name = n}
<1>1. same \in SUBSET Nat /\ same # {}
  BY DEF IsNamed
<1>2. Find(m, n) = Least(same)
  BY DEF Find
<1> HIDE DEF same
<1>3. Find(m, n) \in same
  BY <1>1, <1>2, LeastExists
<1>4. QED
  BY <1>3 DEF same

\* What holds of 0, and of n whenever it holds of n - 1, holds up to N.
LEMMA Induct ==
    ASSUME NEW N \in Nat, NEW A, 0 \in A,
           \A n \in 1 .. N : n - 1 \in A => n \in A
    PROVE  0 .. N \subseteq A
<1>1. SUFFICES ASSUME 0 .. N \ A # {} PROVE FALSE
  OBVIOUS
<1>2. PICK x \in 0 .. N \ A : \A y \in 0 .. N \ A : x <= y
  <2>1. 0 .. N \ A \in SUBSET Nat
    OBVIOUS
  <2>2. QED
    BY <1>1, <2>1, LeastExists, Zenon
<1>3. QED
  BY <1>2

\* A set of natural numbers up to N that is not empty has a greatest one.
LEMMA GreatestExists ==
    ASSUME NEW N \in Nat, NEW S \in SUBSET (0 .. N), S # {}
    PROVE  Greatest(S) \in S /\ \A y \in S : y <= Greatest(S)
<1> DEFINE T == {x \in 0 .. N : N - x \in S}
<1>1. T \in SUBSET Nat /\ T # {}
  <2>1. PICK y \in S : TRUE
    OBVIOUS
  <2>2. N - y \in T
    OBVIOUS
  <2>3. QED
    BY <2>2
<1>2. PICK x \in T : \A y \in T : x <= y
  <2> HIDE DEF T
  <2> QED BY <1>1, LeastExists, Zenon
<1>3. N - x \in S /\ \A y \in S : y <= N - x
  <2>1. ASSUME NEW y \in S PROVE y <= N - x
    <3>1. N - y \in T
      OBVIOUS
    <3>2. QED
      BY <1>2, <3>1
  <2>2. QED
    BY <2>1
<1>4. QED
  BY <1>3, Zenon DEF Greatest

\* The runs of a loop of N passes from a first state.
Runs(S, first, N, pass) ==
    {f \in [0 .. N -> S] : /\ f[0] = first
                           /\ \A n \in 1 .. N : f[n] = pass[n][f[n - 1]]}

\* A loop has a run.
LEMMA Recursion ==
    ASSUME NEW S, NEW first \in S, NEW N \in Nat,
           NEW pass \in [1 .. N -> [S -> S]]
    PROVE  Runs(S, first, N, pass) # {}
<1> DEFINE Up(k, f) == f[0] = first /\ \A n \in 1 .. k : f[n] = pass[n][f[n - 1]]
           A == {k \in 0 .. N : \E f \in [0 .. N -> S] : Up(k, f)}
<1>1. 0 \in A
  <2> DEFINE g == [n \in 0 .. N |-> first]
  <2>1. g \in [0 .. N -> S] /\ Up(0, g)
    OBVIOUS
  <2>2. 0 \in 0 .. N
    OBVIOUS
  <2> HIDE DEF g, Up
  <2>3. QED
    BY <2>1, <2>2
<1>2. ASSUME NEW n \in 1 .. N, n - 1 \in A PROVE n \in A
  <2>1. PICK f \in [0 .. N -> S] : Up(n - 1, f)
    BY <1>2
  <2> DEFINE g == [f EXCEPT ![n] = pass[n][f[n - 1]]]
  <2>2. g \in [0 .. N -> S]
    BY <1>2
  <2>3. Up(n, g)
    BY <2>1
  <2>4. n \in 0 .. N
    OBVIOUS
  <2> HIDE DEF g, Up
  <2>5. QED
    BY <2>2, <2>3, <2>4
<1>3. N \in A
  <2> HIDE DEF A
  <2>1. 0 .. N \subseteq A
    BY <1>1, <1>2, Induct
  <2>2. QED
    BY <2>1
<1>4. QED
  BY <1>3 DEF Runs

\* What each pass preserves holds after every pass: T gives, for each number
\* of passes, the states that may be there after them.
LEMMA Passes ==
    ASSUME NEW N \in Nat, NEW f, NEW T, f[0] \in T[0],
           \A n \in 1 .. N : f[n - 1] \in T[n - 1] => f[n] \in T[n]
    PROVE  \A n \in 0 .. N : f[n] \in T[n]
<1> DEFINE A == {n \in 0 .. N : f[n] \in T[n]}
<1>1. 0 \in A /\ \A n \in 1 .. N : n - 1 \in A => n \in A
  OBVIOUS
<1>2. 0 .. N \subseteq A
  <2> HIDE DEF A
  <2> QED BY <1>1, Induct
<1>3. QED
  BY <1>2
-----------------------------------------------------------------------------
(* The loops.                                                              *)

\* x lists the elements of m at the indices of S, all of them and no others.
Lists(x, m, S) ==
    /\ \A k \in DOMAIN x : \E i \in DOMAIN m : i \in S /\ x[k] = m[i]
    /\ \A i \in DOMAIN m : i \in S => \E k \in DOMAIN x : x[k] = m[i]

\* Selected lists the elements at the indices that it is given.
LEMMA SelectedElements ==
    ASSUME NEW E, NEW m \in Seq(E), NEW S
    PROVE  Selected(m, S) \in Seq(E) /\ Lists(Selected(m, S), m, S)
<1> DEFINE N == Len(m)
           Base == <<>>
           Step(x, n) == IF n \in S THEN Append(x, m[n]) ELSE x
           F(f) == [n \in 0 .. N |-> IF n = 0 THEN Base ELSE Step(f[n - 1], n)]
           h == CHOOSE f : f = F(f)
           pass == [n \in 1 .. N |-> [x \in Seq(E) |-> Step(x, n)]]
           Has(x, n) ==
               /\ \A k \in DOMAIN x : \E i \in 1 .. n : i \in S /\ x[k] = m[i]
               /\ \A i \in 1 .. n : i \in S => \E k \in DOMAIN x : x[k] = m[i]
           T == [n \in 0 .. N |-> {x \in Seq(E) : Has(x, n)}]
<1>1. Selected(m, S) = h[N]
  BY DEF Selected
<1>2. N \in Nat /\ Base \in Seq(E) /\ DOMAIN m = 1 .. N
  OBVIOUS
<1>3. \A n \in 1 .. N : \A x \in Seq(E) : Step(x, n) \in Seq(E)
  OBVIOUS
<1>4. ASSUME NEW n \in 1 .. N, NEW x \in Seq(E), Has(x, n - 1)
      PROVE  Has(Step(x, n), n)
  <2>1. CASE n \in S
    <3> DEFINE y == Append(x, m[n])
    <3>1. /\ DOMAIN y = 1 .. Len(x) + 1 /\ DOMAIN x = 1 .. Len(x) /\ Len(x) \in Nat
          /\ y[Len(x) + 1] = m[n] /\ \A k \in 1 .. Len(x) : y[k] = x[k]
      OBVIOUS
    <3>2. y = Step(x, n)
      BY <2>1
    <3> HIDE DEF y
    <3>3. ASSUME NEW k \in DOMAIN y PROVE \E i \in 1 .. n : i \in S /\ y[k] = m[i]
      <4>1. CASE k = Len(x) + 1
        BY <2>1, <3>1, <4>1
      <4>2. CASE k # Len(x) + 1
        <5>1. k \in DOMAIN x /\ y[k] = x[k]
          BY <3>1, <4>2
        <5>2. PICK i \in 1 .. n - 1 : i \in S /\ x[k] = m[i]
          BY <1>4, <5>1
        <5>3. QED
          BY <5>1, <5>2
      <4>3. QED
        BY <4>1, <4>2
    <3>4. ASSUME NEW i \in 1 .. n, i \in S PROVE \E k \in DOMAIN y : y[k] = m[i]
      <4>1. CASE i = n
        BY <3>1, <4>1
      <4>2. CASE i # n
        <5>1. PICK k \in DOMAIN x : x[k] = m[i]
          BY <1>4, <3>4, <4>2
        <5>2. QED
          BY <3>1, <5>1
      <4>3. QED
        BY <4>1, <4>2
    <3>5. QED
      BY <3>2, <3>3, <3>4
  <2>2. CASE n \notin S
    BY <1>4, <2>2
  <2>3. QED
    BY <2>1, <2>2
<1>5. Has(Base, 0)
  OBVIOUS
<1> HIDE DEF N, Base, Step, h
<1>6. h = F(h)
  <2>1. pass \in [1 .. N -> [Seq(E) -> Seq(E)]]
    BY <1>3
  <2>2. \A n \in 1 .. N : \A x \in Seq(E) : pass[n][x] = Step(x, n)
    OBVIOUS
  <2> HIDE DEF pass, F
  <2>3. PICK g \in Runs(Seq(E), Base, N, pass) : TRUE
    BY <1>2, <2>1, Recursion
  <2>4. g = F(g)
    <3>1. /\ g \in [0 .. N -> Seq(E)] /\ g[0] = Base
          /\ \A n \in 1 .. N : g[n] = pass[n][g[n - 1]]
      BY <2>3 DEF Runs
    <3>2. ASSUME NEW n \in 1 .. N PROVE g[n] = Step(g[n - 1], n)
      <4>1. n - 1 \in 0 .. N
        BY <1>2
      <4>2. g[n - 1] \in Seq(E)
        BY <3>1, <4>1
      <4>3. QED
        BY <2>2, <3>1, <4>2
    <3>3. QED
      BY <1>2, <3>1, <3>2 DEF F
  <2>5. QED
    BY <2>4, Zenon DEF h
<1>7. h[0] = Base /\ \A n \in 1 .. N : h[n] = Step(h[n - 1], n)
  BY <1>2, <1>6
<1>8. h[N] \in T[N]
  <2> HIDE DEF Has
  <2>1. h[0] \in T[0]
    BY <1>2, <1>5, <1>7
  <2>2. \A n \in 1 .. N : h[n - 1] \in T[n - 1] => h[n] \in T[n]
    BY <1>2, <1>3, <1>4, <1>7
  <2> HIDE DEF T
  <2>3. \A n \in 0 .. N : h[n] \in T[n]
    BY <1>2, <2>1, <2>2, Passes
  <2>4. QED
    BY <1>2, <2>3
<1>9. h[N] \in Seq(E) /\ Has(h[N], N)
  <2> HIDE DEF Has
  <2> QED BY <1>2, <1>8
<1>10. QED
  BY <1>1, <1>2, <1>9 DEF Lists

\* ByBlock lists the entries at the indices of S that lie in the data area.
LEMMA ByBlockElements ==
    ASSUME entries \in Seq(Entries), NEW S \in SUBSET DOMAIN entries
    PROVE  /\ ByBlock(S) \in Seq(Entries)
           /\ (\A i \in S : entries[i].block \in DataBlocks)
                 => Lists(ByBlock(S), entries, S)
           /\ \A k \in DOMAIN ByBlock(S) : \E i \in S : ByBlock(S)[k] = entries[i]
<1> DEFINE N == EndData - FirstData
           Base == <<>>
           In(n) == {i \in S : entries[i].block = FirstData + n - 1}
           Step(x, n) == x \o Selected(entries, In(n))
           F(f) == [n \in 0 .. N |-> IF n = 0 THEN Base ELSE Step(f[n - 1], n)]
           h == CHOOSE f : f = F(f)
           pass == [n \in 1 .. N |-> [x \in Seq(Entries) |-> Step(x, n)]]
           Has(x, n) ==
               /\ \A k \in DOMAIN x : \E i \in S : x[k] = entries[i]
               /\ \A i \in S : entries[i].block \in FirstData .. FirstData + n - 1 =>
                     \E k \in DOMAIN x : x[k] = entries[i]
           T == [n \in 0 .. N |-> {x \in Seq(Entries) : Has(x, n)}]
<1>1. ByBlock(S) = h[N]
  BY DEF ByBlock
<1>2. N \in Nat /\ Base \in Seq(Entries) /\ FirstData \in Nat /\ EndData \in Nat
  BY PackedConstantsAssumption
<1>3. \A n \in 1 .. N : \A x \in Seq(Entries) : Step(x, n) \in Seq(Entries)
  BY SelectedElements
<1>4. ASSUME NEW n \in 1 .. N, NEW x \in Seq(Entries), Has(x, n - 1)
      PROVE  Has(Step(x, n), n)
  <2> DEFINE z == Selected(entries, In(n))
             y == x \o z
  <2>1. /\ z \in Seq(Entries)
        /\ \A k \in DOMAIN z : \E i \in DOMAIN entries : i \in In(n) /\ z[k] = entries[i]
        /\ \A i \in DOMAIN entries : i \in In(n) => \E k \in DOMAIN z : z[k] = entries[i]
    <3>1. z \in Seq(Entries) /\ Lists(z, entries, In(n))
      BY SelectedElements
    <3>2. QED
      BY <3>1 DEF Lists
  <2> HIDE DEF z
  <2>2. /\ DOMAIN x = 1 .. Len(x) /\ DOMAIN z = 1 .. Len(z)
        /\ Len(x) \in Nat /\ Len(z) \in Nat
        /\ DOMAIN y = 1 .. Len(x) + Len(z)
        /\ \A k \in 1 .. Len(x) : y[k] = x[k]
        /\ \A k \in 1 .. Len(z) : y[Len(x) + k] = z[k]
    BY <2>1
  <2> HIDE DEF y
  <2>3. ASSUME NEW k \in DOMAIN y PROVE \E i \in S : y[k] = entries[i]
    <3>1. CASE k \in DOMAIN x
      BY <1>4, <2>2, <3>1
    <3>2. CASE k \notin DOMAIN x
      <4>1. k - Len(x) \in DOMAIN z /\ y[k] = z[k - Len(x)]
        BY <2>2, <3>2
      <4>2. QED
        BY <2>1, <4>1
    <3>3. QED
      BY <3>1, <3>2
  <2>4. ASSUME NEW i \in S, entries[i].block \in FirstData .. FirstData + n - 1
        PROVE  \E k \in DOMAIN y : y[k] = entries[i]
    <3>1. CASE i \in In(n)
      <4>1. PICK k \in DOMAIN z : z[k] = entries[i]
        BY <2>1, <3>1
      <4>2. Len(x) + k \in DOMAIN y /\ y[Len(x) + k] = z[k]
        BY <2>2
      <4>3. QED
        BY <4>1, <4>2
    <3>2. CASE i \notin In(n)
      <4>1. entries[i].block \in FirstData .. FirstData + (n - 1) - 1
        BY <1>2, <2>4, <3>2
      <4>2. PICK k \in DOMAIN x : x[k] = entries[i]
        BY <1>4, <4>1
      <4>3. k \in DOMAIN y /\ y[k] = x[k]
        BY <2>2
      <4>4. QED
        BY <4>2, <4>3
    <3>3. QED
      BY <3>1, <3>2
  <2>5. QED
    BY <2>3, <2>4 DEF y, z
<1>5. Has(Base, 0)
  BY <1>2
<1> HIDE DEF N, Base, Step, h
<1>6. h = F(h)
  <2>1. pass \in [1 .. N -> [Seq(Entries) -> Seq(Entries)]]
    BY <1>3
  <2>2. \A n \in 1 .. N : \A x \in Seq(Entries) : pass[n][x] = Step(x, n)
    OBVIOUS
  <2> HIDE DEF pass, F
  <2>3. PICK g \in Runs(Seq(Entries), Base, N, pass) : TRUE
    BY <1>2, <2>1, Recursion
  <2>4. g = F(g)
    <3>1. /\ g \in [0 .. N -> Seq(Entries)] /\ g[0] = Base
          /\ \A n \in 1 .. N : g[n] = pass[n][g[n - 1]]
      BY <2>3 DEF Runs
    <3>2. ASSUME NEW n \in 1 .. N PROVE g[n] = Step(g[n - 1], n)
      <4>1. n - 1 \in 0 .. N
        BY <1>2
      <4>2. g[n - 1] \in Seq(Entries)
        BY <3>1, <4>1
      <4>3. QED
        BY <2>2, <3>1, <4>2
    <3>3. QED
      BY <1>2, <3>1, <3>2 DEF F
  <2>5. QED
    BY <2>4, Zenon DEF h
<1>7. h[0] = Base /\ \A n \in 1 .. N : h[n] = Step(h[n - 1], n)
  BY <1>2, <1>6
<1>8. h[N] \in T[N]
  <2> HIDE DEF Has
  <2>1. h[0] \in T[0]
    BY <1>2, <1>5, <1>7
  <2>2. \A n \in 1 .. N : h[n - 1] \in T[n - 1] => h[n] \in T[n]
    BY <1>2, <1>3, <1>4, <1>7
  <2> HIDE DEF T
  <2>3. \A n \in 0 .. N : h[n] \in T[n]
    BY <1>2, <2>1, <2>2, Passes
  <2>4. QED
    BY <1>2, <2>3
<1>9. h[N] \in Seq(Entries) /\ Has(h[N], N)
  <2> HIDE DEF Has
  <2> QED BY <1>2, <1>8
<1>10. FirstData + N - 1 = EndData - 1
  BY <1>2 DEF N
<1>11. QED
  BY <1>1, <1>9, <1>10 DEF DataBlocks, Lists

\* The bins of a plan: each has a record.
Bins == Seq(Records) \ {<<>>}
InBins(r, bins) == \E i \in DOMAIN bins : \E k \in DOMAIN bins[i] : bins[i][k] = r

\* AddTo puts a record into a bin, and leaves the others where they are.
LEMMA AddToBins ==
    ASSUME NEW bins \in Seq(Bins), NEW r \in Records
    PROVE  /\ AddTo(bins, r) \in Seq(Bins)
           /\ InBins(r, AddTo(bins, r))
           /\ \A q : InBins(q, bins) => InBins(q, AddTo(bins, r))
           /\ \A q : InBins(q, AddTo(bins, r)) => q = r \/ InBins(q, bins)
<1> DEFINE fits == {i \in DOMAIN bins : Load(bins[i]) + Encoded[r.content] <= Capacity}
<1>1. CASE fits = {}
  <2> DEFINE y == Append(bins, <<r>>)
  <2>1. AddTo(bins, r) = y
    BY <1>1 DEF AddTo
  <2>2. <<r>> \in Bins /\ <<r>>[1] = r /\ 1 \in DOMAIN <<r>>
    BY DEF Bins
  <2>3. /\ y \in Seq(Bins) /\ Len(bins) + 1 \in DOMAIN y /\ y[Len(bins) + 1] = <<r>>
        /\ \A i \in DOMAIN bins : i \in DOMAIN y /\ y[i] = bins[i]
    BY <2>2
  <2> HIDE DEF y
  <2>4. InBins(r, y)
    BY <2>2, <2>3, Zenon DEF InBins
  <2>5. \A q : InBins(q, bins) => InBins(q, y)
    BY <2>3, Zenon DEF InBins
  <2>6. ASSUME NEW q, InBins(q, y) PROVE q = r \/ InBins(q, bins)
    <3>1. PICK i \in DOMAIN y : \E k \in DOMAIN y[i] : y[i][k] = q
      BY <2>6 DEF InBins
    <3>2. CASE i \in DOMAIN bins
      BY <2>3, <3>1, <3>2, Zenon DEF InBins
    <3>3. CASE i = Len(bins) + 1
      <4>1. \A k \in DOMAIN <<r>> : <<r>>[k] = r
        OBVIOUS
      <4>2. QED
        BY <2>3, <3>1, <3>3, <4>1
    <3>4. DOMAIN y = 1 .. Len(bins) + 1 /\ DOMAIN bins = 1 .. Len(bins) /\ Len(bins) \in Nat
      BY <2>2 DEF y
    <3>5. QED
      BY <3>2, <3>3, <3>4
  <2>7. QED
    BY <2>1, <2>3, <2>4, <2>5, <2>6
<1>2. CASE fits # {}
  <2> DEFINE b == Least(fits)
             y == [bins EXCEPT ![b] = Append(@, r)]
  <2>1. b \in DOMAIN bins
    <3>1. fits \in SUBSET Nat
      OBVIOUS
    <3>2. fits \subseteq DOMAIN bins
      OBVIOUS
    <3>3. QED
      <4> HIDE DEF fits
      <4> QED BY <1>2, <3>1, <3>2, LeastExists
  <2>2. AddTo(bins, r) = y
    <3> HIDE DEF b
    <3> QED BY <1>2 DEF AddTo, b
  <2> HIDE DEF b, fits
  <2>3. /\ bins[b] \in Seq(Records)
        /\ Append(bins[b], r) \in Bins
        /\ Len(bins[b]) + 1 \in DOMAIN Append(bins[b], r)
        /\ Append(bins[b], r)[Len(bins[b]) + 1] = r
        /\ \A k \in DOMAIN bins[b] : /\ k \in DOMAIN Append(bins[b], r)
                                     /\ Append(bins[b], r)[k] = bins[b][k]
    <3> DEFINE w == bins[b]
    <3>1. w \in Seq(Records)
      BY <2>1 DEF Bins
    <3> HIDE DEF w
    <3>2. /\ Append(w, r) \in Seq(Records) /\ Len(w) \in Nat
          /\ DOMAIN w = 1 .. Len(w) /\ DOMAIN Append(w, r) = 1 .. Len(w) + 1
          /\ Append(w, r)[Len(w) + 1] = r
          /\ \A k \in 1 .. Len(w) : Append(w, r)[k] = w[k]
      BY <3>1
    <3>3. Append(w, r) # <<>>
      BY <3>2
    <3>4. QED
      BY <3>1, <3>2, <3>3 DEF Bins, w
  <2>4. /\ y \in Seq(Bins) /\ DOMAIN y = DOMAIN bins /\ y[b] = Append(bins[b], r)
        /\ \A i \in DOMAIN bins : i # b => y[i] = bins[i]
    BY <2>1, <2>3
  <2> HIDE DEF y
  <2>5. InBins(r, y)
    BY <2>1, <2>3, <2>4, Zenon DEF InBins
  <2>6. ASSUME NEW q, InBins(q, bins) PROVE InBins(q, y)
    <3>1. PICK i \in DOMAIN bins : \E k \in DOMAIN bins[i] : bins[i][k] = q
      BY <2>6 DEF InBins
    <3>2. CASE i = b
      BY <2>3, <2>4, <3>1, <3>2, Zenon DEF InBins
    <3>3. CASE i # b
      BY <2>4, <3>1, <3>3, Zenon DEF InBins
    <3>4. QED
      BY <3>2, <3>3
  <2>7. ASSUME NEW q, InBins(q, y) PROVE q = r \/ InBins(q, bins)
    <3>1. PICK i \in DOMAIN bins : \E k \in DOMAIN y[i] : y[i][k] = q
      BY <2>4, <2>7 DEF InBins
    <3>2. CASE i = b
      <4>1. PICK k \in DOMAIN Append(bins[b], r) : Append(bins[b], r)[k] = q
        BY <2>4, <3>1, <3>2
      <4>2. k = Len(bins[b]) + 1 \/ k \in DOMAIN bins[b]
        <5>1. bins[b] \in Seq(Records)
          BY <2>3
        <5> DEFINE w == bins[b]
        <5>2. w \in Seq(Records) /\ k \in DOMAIN Append(w, r)
          BY <5>1
        <5> HIDE DEF w
        <5>3. k = Len(w) + 1 \/ k \in DOMAIN w
          BY <5>2
        <5>4. QED
          BY <5>3 DEF w
      <4>3. QED
        BY <2>1, <2>3, <4>1, <4>2, Zenon DEF InBins
    <3>3. CASE i # b
      BY <2>4, <3>1, <3>3, Zenon DEF InBins
    <3>4. QED
      BY <3>2, <3>3
  <2>8. QED
    BY <2>2, <2>4, <2>5, <2>6, <2>7
<1>3. QED
  BY <1>1, <1>2

\* buildPlan puts every record into a bin, and nothing else.
LEMMA BuildPlanBins ==
    ASSUME NEW records \in Seq(Records)
    PROVE  /\ BuildPlan(records) \in Seq(Bins)
           /\ \A i \in DOMAIN records : InBins(records[i], BuildPlan(records))
           /\ \A q : InBins(q, BuildPlan(records))
                      => \E i \in DOMAIN records : q = records[i]
<1> DEFINE N == Len(records)
           Base == <<>>
           Step(x, n) == AddTo(x, records[n])
           F(f) == [n \in 0 .. N |-> IF n = 0 THEN Base ELSE Step(f[n - 1], n)]
           h == CHOOSE f : f = F(f)
           pass == [n \in 1 .. N |-> [x \in Seq(Bins) |-> Step(x, n)]]
           Has(x, n) == /\ \A i \in 1 .. n : InBins(records[i], x)
                        /\ \A q : InBins(q, x) => \E i \in 1 .. n : q = records[i]
           T == [n \in 0 .. N |-> {x \in Seq(Bins) : Has(x, n)}]
<1>1. BuildPlan(records) = h[N]
  BY DEF BuildPlan
<1>2. N \in Nat /\ Base \in Seq(Bins) /\ DOMAIN records = 1 .. N
  OBVIOUS
<1>3. \A n \in 1 .. N : \A x \in Seq(Bins) : Step(x, n) \in Seq(Bins)
  BY AddToBins
<1>4. ASSUME NEW n \in 1 .. N, NEW x \in Seq(Bins), Has(x, n - 1)
      PROVE  Has(Step(x, n), n)
  <2>1. records[n] \in Records
    OBVIOUS
  <2>2. InBins(records[n], Step(x, n)) /\ \A q : InBins(q, x) => InBins(q, Step(x, n))
    BY <2>1, AddToBins
  <2>3. \A q : InBins(q, Step(x, n)) => q = records[n] \/ InBins(q, x)
    BY <2>1, AddToBins
  <2>4. ASSUME NEW i \in 1 .. n PROVE InBins(records[i], Step(x, n))
    <3>1. CASE i = n
      BY <2>2, <3>1
    <3>2. CASE i # n
      BY <1>4, <2>2, <3>2
    <3>3. QED
      BY <3>1, <3>2
  <2> HIDE DEF Step
  <2>5. ASSUME NEW q, InBins(q, Step(x, n)) PROVE \E i \in 1 .. n : q = records[i]
    <3>1. CASE q = records[n]
      BY <1>2, <3>1
    <3>2. CASE InBins(q, x)
      <4>1. PICK i \in 1 .. n - 1 : q = records[i]
        BY <1>4, <3>2
      <4>2. i \in 1 .. n
        BY <1>2
      <4>3. QED
        BY <4>1, <4>2
    <3>3. QED
      BY <2>3, <2>5, <3>1, <3>2
  <2>6. QED
    BY <2>4, <2>5
<1>5. Has(Base, 0)
  BY DEF InBins
<1> HIDE DEF N, Base, Step, h
<1>6. h = F(h)
  <2>1. pass \in [1 .. N -> [Seq(Bins) -> Seq(Bins)]]
    BY <1>3
  <2>2. \A n \in 1 .. N : \A x \in Seq(Bins) : pass[n][x] = Step(x, n)
    OBVIOUS
  <2> HIDE DEF pass, F
  <2>3. PICK g \in Runs(Seq(Bins), Base, N, pass) : TRUE
    BY <1>2, <2>1, Recursion
  <2>4. g = F(g)
    <3>1. /\ g \in [0 .. N -> Seq(Bins)] /\ g[0] = Base
          /\ \A n \in 1 .. N : g[n] = pass[n][g[n - 1]]
      BY <2>3 DEF Runs
    <3>2. ASSUME NEW n \in 1 .. N PROVE g[n] = Step(g[n - 1], n)
      <4>1. n - 1 \in 0 .. N
        BY <1>2
      <4>2. g[n - 1] \in Seq(Bins)
        BY <3>1, <4>1
      <4>3. QED
        BY <2>2, <3>1, <4>2
    <3>3. QED
      BY <1>2, <3>1, <3>2 DEF F
  <2>5. QED
    BY <2>4, Zenon DEF h
<1>7. h[0] = Base /\ \A n \in 1 .. N : h[n] = Step(h[n - 1], n)
  BY <1>2, <1>6
<1>8. h[N] \in T[N]
  <2> HIDE DEF Has
  <2>1. h[0] \in T[0]
    BY <1>2, <1>5, <1>7
  <2>2. \A n \in 1 .. N : h[n - 1] \in T[n - 1] => h[n] \in T[n]
    BY <1>2, <1>3, <1>4, <1>7
  <2> HIDE DEF T
  <2>3. \A n \in 0 .. N : h[n] \in T[n]
    BY <1>2, <2>1, <2>2, Passes
  <2>4. QED
    BY <1>2, <2>3
<1>9. h[N] \in Seq(Bins) /\ Has(h[N], N)
  <2> HIDE DEF Has
  <2> QED BY <1>2, <1>8
<1>10. QED
  BY <1>1, <1>2, <1>9
-----------------------------------------------------------------------------
(* Plans.                                                                  *)

\* An element of a sequence; an entry that says of a file what one of them says.
Among(p, x) == \E k \in DOMAIN x : p = x[k]
Tells(p, x) == \E k \in DOMAIN x : p.name = x[k].name /\ p.content = x[k].content

\* An entry has at least one block, a packed one exactly one.
LEMMA SpanOf ==
    ASSUME NEW e \in Entries
    PROVE  /\ Count(e) \in Nat \ {0} /\ e.block \in Nat
           /\ Span(e) = e.block .. e.block + Count(e) - 1
           /\ e.block \in Span(e) /\ Span(e) \in SUBSET Nat
           /\ IsPacked(e) => Span(e) = {e.block}
  BY PackedConstantsAssumption DEF Entries, Contents, Count, Span, IsPacked

\* A record has a name, an id and small contents.
LEMMA RecordOf ==
    ASSUME NEW r \in Records
    PROVE  r.name \in Names /\ r.id \in Nat /\ r.content \in Small
<1>1. CASE r \in Entries /\ IsPacked(r)
  BY <1>1 DEF Entries, IsPacked
<1>2. CASE r \in [name : Names, id : Nat, content : Small]
  BY <1>2
<1>3. QED
  BY <1>1, <1>2 DEF Records

\* A bin fills a block, in which each record is found.
LEMMA StoredBlock ==
    ASSUME NEW gen \in Nat, NEW bin \in Bins
    PROVE  /\ Block(gen, bin) \in Stored /\ Block(gen, bin).gen = gen
           /\ \A k \in DOMAIN bin : [id |-> bin[k].id, content |-> bin[k].content]
                                        \in Block(gen, bin).records
<1>1. bin \in Seq(Records) /\ bin # <<>>
  BY DEF Bins
<1>2. \A k \in DOMAIN bin : bin[k].id \in Nat /\ bin[k].content \in Contents
  <2>1. \A k \in DOMAIN bin : bin[k] \in Records
    BY <1>1
  <2>2. QED
    BY <2>1, RecordOf DEF Contents
<1> DEFINE R == {[id |-> bin[k].id, content |-> bin[k].content] : k \in DOMAIN bin}
<1>3. R \in SUBSET [id : Nat, content : Contents] /\ R # {}
  <2>1. 1 \in DOMAIN bin
    BY <1>1
  <2>2. \A k \in DOMAIN bin :
            [id |-> bin[k].id, content |-> bin[k].content] \in [id : Nat, content : Contents]
    BY <1>2
  <2>3. QED
    BY <2>1, <2>2
<1>4. Block(gen, bin) = [gen |-> gen, records |-> R]
  BY DEF Block
<1>5. QED
  BY <1>3, <1>4 DEF Stored

\* So is a part of a large file.
LEMMA StoredPart ==
    ASSUME NEW content \in Contents, NEW i \in Nat
    PROVE  /\ Part(content, i) \in Stored /\ Part(content, i).gen = 0
           /\ [id |-> i, content |-> content] \in Part(content, i).records
<1> DEFINE R == {[id |-> i, content |-> content]}
<1>1. Part(content, i) = [gen |-> 0, records |-> R]
  <2> DEFINE r == <<[id |-> i, content |-> content]>>
  <2>1. DOMAIN r = {1} /\ r[1] = [id |-> i, content |-> content]
    OBVIOUS
  <2> HIDE DEF r
  <2>2. {[id |-> r[k].id, content |-> r[k].content] : k \in DOMAIN r} = R
    BY <2>1
  <2>3. QED
    BY <2>2 DEF Part, Block, r
<1>2. R \in SUBSET [id : Nat, content : Contents] /\ R # {}
  OBVIOUS
<1>3. [id |-> i, content |-> content] \in R
  OBVIOUS
<1> HIDE DEF R
<1>4. QED
  BY <1>1, <1>2, <1>3 DEF Stored

\* An image with more behind it.
Extends(image, part) ==
    Len(part) <= Len(image) /\ \A i \in 1 .. Len(part) : image[i] = part[i]

\* What points into an image does so when the image grows.
LEMMA PointsIntoKept ==
    ASSUME NEW p \in Entries, NEW part \in Seq(Stored), NEW image \in Seq(Stored),
           Extends(image, part), PointsInto(p, part)
    PROVE  PointsInto(p, image)
<1>1. ASSUME NEW b \in Nat, NEW gen, NEW id, NEW content,
             HeldBy(part, b, gen, id, content)
      PROVE  HeldBy(image, b, gen, id, content)
  <2>1. b + 1 \in 1 .. Len(part) /\ Len(part) \in Nat /\ Len(image) \in Nat
    BY <1>1 DEF HeldBy
  <2>2. QED
    BY <1>1, <2>1 DEF HeldBy, Extends
<1>2. p.block \in Nat /\ Span(p) \in SUBSET Nat
  BY SpanOf
<1>3. QED
  BY <1>1, <1>2 DEF PointsInto

\* It points to blocks of the image only.
LEMMA PointsWithin ==
    ASSUME NEW p \in Entries, NEW image \in Seq(Stored), PointsInto(p, image)
    PROVE  \A b \in Span(p) : b \in Nat /\ b < Len(image)
<1>1. CASE IsPacked(p)
  BY <1>1, SpanOf DEF PointsInto, HeldBy
<1>2. CASE ~IsPacked(p)
  BY <1>2, SpanOf DEF PointsInto, HeldBy
<1>3. QED
  BY <1>1, <1>2

\* A plan stays sound when blocks and entries that point to them are added.
LEMMA Grown ==
    ASSUME NEW plan, Sound(plan), NEW image \in Seq(Stored), NEW more \in Seq(Entries),
           Extends(image, plan.image), Apart(more),
           \A k \in DOMAIN more : /\ PointsInto(more[k], image)
                                  /\ \A b \in Span(more[k]) : b >= Len(plan.image)
    PROVE  Sound([image |-> image, place |-> plan.place \o more])
<1> DEFINE old == plan.place
           place == old \o more
<1>1. /\ old \in Seq(Entries) /\ plan.image \in Seq(Stored) /\ Apart(old)
      /\ \A k \in DOMAIN old : PointsInto(old[k], plan.image)
  BY DEF Sound, Plans
<1>2. /\ Len(old) \in Nat /\ DOMAIN old = 1 .. Len(old) /\ DOMAIN more = 1 .. Len(more)
      /\ place \in Seq(Entries) /\ DOMAIN place = 1 .. Len(old) + Len(more)
      /\ \A k \in 1 .. Len(old) : place[k] = old[k]
      /\ \A k \in 1 .. Len(more) : place[Len(old) + k] = more[k]
  BY <1>1
<1> HIDE DEF place
<1> HIDE DEF old
<1>3. ASSUME NEW k \in DOMAIN place
      PROVE  \/ k \in DOMAIN old /\ place[k] = old[k]
             \/ k - Len(old) \in DOMAIN more /\ place[k] = more[k - Len(old)]
  BY <1>2
<1>4. \A k \in DOMAIN place : PointsInto(place[k], image)
  <2>1. \A k \in DOMAIN old : PointsInto(old[k], image)
    BY <1>1, PointsIntoKept
  <2>2. QED
    BY <1>3, <2>1
<1>5. ASSUME NEW i \in DOMAIN old, NEW j \in DOMAIN more
      PROVE  Span(old[i]) \cap Span(more[j]) = {}
  <2>1. \A b \in Span(old[i]) : b \in Nat /\ b < Len(plan.image)
    BY <1>1, PointsWithin
  <2>2. Len(plan.image) \in Nat
    BY <1>1
  <2>3. \A b \in Span(more[j]) : b >= Len(plan.image)
    OBVIOUS
  <2>4. QED
    BY <2>1, <2>2, <2>3
<1>6. Apart(place)
  <2>1. SUFFICES ASSUME NEW i \in DOMAIN place, NEW j \in DOMAIN place, i # j,
                        Span(place[i]) \cap Span(place[j]) # {}
                 PROVE  IsPacked(place[i]) /\ IsPacked(place[j])
    BY DEF Apart
  <2>2. CASE i \in DOMAIN old /\ j \in DOMAIN old /\ place[i] = old[i] /\ place[j] = old[j]
    BY <1>1, <2>1, <2>2 DEF Apart
  <2>3. CASE /\ i - Len(old) \in DOMAIN more /\ place[i] = more[i - Len(old)]
             /\ j - Len(old) \in DOMAIN more /\ place[j] = more[j - Len(old)]
    <3>1. i - Len(old) # j - Len(old)
      BY <1>2, <2>1
    <3>2. QED
      BY <2>1, <2>3, <3>1 DEF Apart
  <2>4. CASE /\ i \in DOMAIN old /\ place[i] = old[i]
             /\ j - Len(old) \in DOMAIN more /\ place[j] = more[j - Len(old)]
    BY <1>5, <2>1, <2>4
  <2>5. CASE /\ j \in DOMAIN old /\ place[j] = old[j]
             /\ i - Len(old) \in DOMAIN more /\ place[i] = more[i - Len(old)]
    BY <1>5, <2>1, <2>5
  <2>6. QED
    BY <1>3, <2>2, <2>3, <2>4, <2>5
<1>7. QED
  BY <1>2, <1>4, <1>6 DEF Sound, Plans, place, old

\* A bin adds its block, and an entry for each of its records.
LEMMA WithBinSound ==
    ASSUME NEW plan, Sound(plan), NEW gen \in Nat, NEW bin \in Bins
    PROVE  /\ Sound(WithBin(plan, gen, bin))
           /\ \A k \in DOMAIN bin : IsNamed(WithBin(plan, gen, bin).place, bin[k].name)
           /\ \A n : IsNamed(plan.place, n) => IsNamed(WithBin(plan, gen, bin).place, n)
           /\ \A p : Among(p, WithBin(plan, gen, bin).place)
                      => Among(p, plan.place) \/ Tells(p, bin)
<1> DEFINE L == Len(plan.image)
           image == Append(plan.image, Block(gen, bin))
           more == [k \in DOMAIN bin |-> [name |-> bin[k].name, block |-> L,
                                          content |-> bin[k].content,
                                          gen |-> gen, id |-> bin[k].id]]
<1>1. plan.image \in Seq(Stored) /\ plan.place \in Seq(Entries) /\ L \in Nat
  BY DEF Sound, Plans
<1>2. /\ Block(gen, bin) \in Stored /\ Block(gen, bin).gen = gen
      /\ \A k \in DOMAIN bin : [id |-> bin[k].id, content |-> bin[k].content]
                                   \in Block(gen, bin).records
  BY StoredBlock
<1>3. /\ image \in Seq(Stored) /\ Len(image) = L + 1 /\ image[L + 1] = Block(gen, bin)
      /\ Extends(image, plan.image)
  BY <1>1, <1>2 DEF Extends
<1>4. /\ DOMAIN bin = 1 .. Len(bin) /\ Len(bin) \in Nat
      /\ \A k \in DOMAIN bin : bin[k] \in Records
  BY DEF Bins
<1>5. ASSUME NEW k \in DOMAIN bin
      PROVE  /\ more[k] \in Entries /\ IsPacked(more[k]) /\ more[k].block = L
             /\ more[k].gen = gen /\ more[k].id = bin[k].id
             /\ more[k].content = bin[k].content /\ more[k].name = bin[k].name
  <2>1. bin[k].name \in Names /\ bin[k].id \in Nat /\ bin[k].content \in Small
    BY <1>4, RecordOf
  <2>2. QED
    BY <1>1, <2>1 DEF Entries, Contents, IsPacked
<1>6. DOMAIN more = DOMAIN bin /\ more \in Seq(Entries)
  BY <1>4, <1>5
<1>7. WithBin(plan, gen, bin) = [image |-> image, place |-> plan.place \o more]
  BY DEF WithBin
<1> HIDE DEF L, image, more
<1>8. ASSUME NEW k \in DOMAIN more
      PROVE  PointsInto(more[k], image) /\ \A b \in Span(more[k]) : b >= L
  <2>1. HeldBy(image, L, gen, bin[k].id, bin[k].content)
    BY <1>1, <1>2, <1>3, <1>6 DEF HeldBy
  <2>2. Span(more[k]) = {L}
    BY <1>5, <1>6, SpanOf
  <2>3. QED
    BY <1>1, <1>5, <1>6, <2>1, <2>2 DEF PointsInto
<1>9. Apart(more)
  BY <1>5, <1>6 DEF Apart
<1>10. Sound([image |-> image, place |-> plan.place \o more])
  BY <1>3, <1>6, <1>8, <1>9, Grown DEF L
<1> DEFINE place == plan.place \o more
<1>11. /\ \A k \in DOMAIN plan.place : k \in DOMAIN place /\ place[k] = plan.place[k]
       /\ \A k \in DOMAIN more : /\ Len(plan.place) + k \in DOMAIN place
                                 /\ place[Len(plan.place) + k] = more[k]
       /\ \A k \in DOMAIN place : \/ k \in DOMAIN plan.place
                                  \/ \E j \in DOMAIN more : k = Len(plan.place) + j
  <2> DEFINE old == plan.place
  <2>1. old \in Seq(Entries) /\ Len(old) \in Nat /\ DOMAIN old = 1 .. Len(old)
    BY <1>1
  <2>2. more \in Seq(Entries) /\ Len(more) \in Nat /\ DOMAIN more = 1 .. Len(more)
    BY <1>6
  <2> HIDE DEF old
  <2>3. /\ DOMAIN (old \o more) = 1 .. Len(old) + Len(more)
        /\ \A k \in 1 .. Len(old) : (old \o more)[k] = old[k]
        /\ \A k \in 1 .. Len(more) : (old \o more)[Len(old) + k] = more[k]
    BY <2>1, <2>2
  <2>4. ASSUME NEW k \in 1 .. Len(old) + Len(more)
        PROVE  k \in 1 .. Len(old) \/ \E j \in 1 .. Len(more) : k = Len(old) + j
    <3>1. CASE k > Len(old)
      <4>1. k - Len(old) \in 1 .. Len(more) /\ k = Len(old) + (k - Len(old))
        BY <2>1, <2>2, <3>1
      <4>2. QED
        BY <4>1
    <3>2. QED
      BY <2>1, <2>2, <3>1
  <2>5. place = old \o more
    BY DEF old
  <2> HIDE DEF place
  <2>6. /\ \A k \in 1 .. Len(old) : k \in DOMAIN place /\ place[k] = old[k]
        /\ \A k \in DOMAIN more : Len(old) + k \in DOMAIN place /\ place[Len(old) + k] = more[k]
    BY <2>1, <2>2, <2>3, <2>5
  <2>7. \A k \in DOMAIN place : k \in DOMAIN old \/ \E j \in DOMAIN more : k = Len(old) + j
    BY <2>1, <2>2, <2>3, <2>4, <2>5
  <2>8. QED
    BY <2>1, <2>6, <2>7 DEF old
<1> HIDE DEF place
<1>12. \A k \in DOMAIN bin : IsNamed(place, bin[k].name)
  BY <1>5, <1>6, <1>11 DEF IsNamed
<1>13. \A n : IsNamed(plan.place, n) => IsNamed(place, n)
  BY <1>11, Zenon DEF IsNamed
<1>14. ASSUME NEW p, Among(p, place) PROVE Among(p, plan.place) \/ Tells(p, bin)
  <2>1. PICK k \in DOMAIN place : p = place[k]
    BY <1>14 DEF Among
  <2>2. CASE k \in DOMAIN plan.place
    BY <1>11, <2>1, <2>2, Zenon DEF Among
  <2>3. CASE \E j \in DOMAIN more : k = Len(plan.place) + j
    <3>1. PICK j \in DOMAIN more : k = Len(plan.place) + j
      BY <2>3
    <3>2. p = more[j] /\ j \in DOMAIN bin
      BY <1>6, <1>11, <2>1, <3>1
    <3>3. QED
      BY <1>5, <3>2, Zenon DEF Tells
  <2>4. QED
    BY <1>11, <2>2, <2>3
<1>15. WithBin(plan, gen, bin).place = place
  BY <1>7 DEF place
<1>16. QED
  BY <1>7, <1>10, <1>12, <1>13, <1>14, <1>15

\* A large file adds its blocks and its entry.
LEMMA WithFileSound ==
    ASSUME NEW plan, Sound(plan), NEW f, f.name \in Names, f.content \in Large
    PROVE  /\ Sound(WithFile(plan, f))
           /\ IsNamed(WithFile(plan, f).place, f.name)
           /\ \A n : IsNamed(plan.place, n) => IsNamed(WithFile(plan, f).place, n)
           /\ \A p : Among(p, WithFile(plan, f).place)
                      => Among(p, plan.place) \/ (p.name = f.name /\ p.content = f.content)
<1> DEFINE L == Len(plan.image)
           C == BlockCount[f.content]
           parts == [k \in 1 .. C |-> Part(f.content, k - 1)]
           image == plan.image \o parts
           e == [name |-> f.name, block |-> L, content |-> f.content, gen |-> 0, id |-> 0]
           more == <<e>>
<1>1. plan.image \in Seq(Stored) /\ plan.place \in Seq(Entries) /\ L \in Nat
  BY DEF Sound, Plans
<1>2. C \in Nat \ {0} /\ f.content \in Contents /\ f.content \notin Small
  BY PackedConstantsAssumption DEF Contents
<1>3. e \in Entries /\ ~IsPacked(e) /\ Count(e) = C /\ e.block = L /\ e.name = f.name
  BY <1>1, <1>2 DEF Entries, IsPacked, Count
<1>4. WithFile(plan, f) = [image |-> image, place |-> plan.place \o more]
  <2>1. Append(plan.place, e) = plan.place \o more
    <3> HIDE DEF e
    <3> QED BY <1>1, <1>3
  <2>2. QED
    BY <2>1 DEF WithFile
<1> HIDE DEF C, e
<1>5. \A k \in 1 .. C : Part(f.content, k - 1) \in Stored
  <2>1. \A k \in 1 .. C : k - 1 \in Nat
    BY <1>2
  <2>2. QED
    BY <1>2, <2>1, StoredPart
<1>6. /\ DOMAIN parts = 1 .. C /\ parts \in Seq(Stored) /\ Len(parts) = C
      /\ \A k \in 1 .. C : parts[k] = Part(f.content, k - 1)
  BY <1>2, <1>5
<1> HIDE DEF parts, L
<1>7. /\ image \in Seq(Stored) /\ Len(image) = L + C
      /\ \A k \in 1 .. C : image[L + k] = parts[k]
      /\ Extends(image, plan.image)
  <2> DEFINE old == plan.image
  <2>1. old \in Seq(Stored) /\ Len(old) = L /\ L \in Nat /\ C \in Nat
    BY <1>1, <1>2 DEF L
  <2> HIDE DEF old
  <2>2. /\ old \o parts \in Seq(Stored) /\ Len(old \o parts) = L + C
        /\ \A k \in 1 .. C : (old \o parts)[L + k] = parts[k]
        /\ \A k \in 1 .. L : (old \o parts)[k] = old[k]
    BY <1>6, <2>1
  <2>3. Extends(old \o parts, old)
    BY <2>1, <2>2 DEF Extends
  <2>4. QED
    BY <2>2, <2>3 DEF old
<1> HIDE DEF image
<1>8. Span(e) = L .. L + C - 1
  BY <1>3, SpanOf
<1>9. ASSUME NEW b \in Span(e) PROVE HeldBy(image, b, 0, b - e.block, f.content) /\ b >= L
  <2>1. b - L \in Nat /\ b - L + 1 \in 1 .. C /\ b + 1 = L + (b - L + 1) /\ b < L + C
        /\ (b - L + 1) - 1 = b - L /\ b >= L
    BY <1>1, <1>2, <1>8
  <2>2. image[b + 1] = Part(f.content, b - L)
    BY <1>6, <1>7, <2>1
  <2>3. /\ image[b + 1].gen = 0
        /\ [id |-> b - L, content |-> f.content] \in image[b + 1].records
    BY <1>2, <2>1, <2>2, StoredPart
  <2>4. QED
    BY <1>3, <1>7, <2>1, <2>3 DEF HeldBy
<1>10. more \in Seq(Entries) /\ DOMAIN more = {1} /\ more[1] = e /\ Len(more) = 1
  BY <1>3
<1> HIDE DEF more
<1>11. ASSUME NEW k \in DOMAIN more
       PROVE  PointsInto(more[k], image) /\ \A b \in Span(more[k]) : b >= L
  <2>1. more[k] = e /\ e.content = f.content
    BY <1>10 DEF e
  <2>2. QED
    BY <1>3, <1>9, <2>1 DEF PointsInto
<1>12. Apart(more)
  BY <1>10 DEF Apart
<1>13. Sound([image |-> image, place |-> plan.place \o more])
  BY <1>7, <1>10, <1>11, <1>12, Grown DEF L
<1> DEFINE place == plan.place \o more
<1>14. /\ \A k \in DOMAIN plan.place : k \in DOMAIN place /\ place[k] = plan.place[k]
       /\ Len(plan.place) + 1 \in DOMAIN place /\ place[Len(plan.place) + 1] = e
       /\ \A k \in DOMAIN place : k \in DOMAIN plan.place \/ k = Len(plan.place) + 1
  <2> DEFINE old == plan.place
  <2>1. old \in Seq(Entries) /\ Len(old) \in Nat /\ DOMAIN old = 1 .. Len(old)
    BY <1>1
  <2> HIDE DEF old
  <2>2. /\ DOMAIN (old \o more) = 1 .. Len(old) + Len(more)
        /\ \A k \in 1 .. Len(old) : (old \o more)[k] = old[k]
        /\ \A k \in 1 .. Len(more) : (old \o more)[Len(old) + k] = more[k]
    <3>1. more \in Seq(Entries)
      BY <1>10
    <3>2. QED
      BY <2>1, <3>1
  <2>3. QED
    BY <1>10, <2>1, <2>2 DEF old
<1> HIDE DEF place
<1>15. IsNamed(place, f.name)
  BY <1>3, <1>14 DEF IsNamed
<1>16. \A n : IsNamed(plan.place, n) => IsNamed(place, n)
  BY <1>14, Zenon DEF IsNamed
<1>17. e.name = f.name /\ e.content = f.content
  BY DEF e
<1>18. \A p : Among(p, place)
                => Among(p, plan.place) \/ (p.name = f.name /\ p.content = f.content)
  BY <1>14, <1>17, Zenon DEF Among
<1>19. WithFile(plan, f).place = place
  BY <1>4 DEF place
<1>20. QED
  BY <1>4, <1>13, <1>15, <1>16, <1>18, <1>19

\* Nothing to program is a plan, too.
LEMMA NoPlanSound == Sound(NoPlan)
<1>1. NoPlan.image = <<>> /\ NoPlan.place = <<>> /\ NoPlan \in Plans
  BY DEF NoPlan, Plans
<1>2. QED
  BY <1>1 DEF Sound, Apart

SoundPlans == {p \in Plans : Sound(p)}

\* A plan is sound, and has an entry for every record and every large file, and
\* no others.
LEMMA PlanSound ==
    ASSUME NEW gen \in Nat, NEW records \in Seq(Records), NEW E, NEW large \in Seq(E),
           \A i \in DOMAIN large : large[i].name \in Names /\ large[i].content \in Large
    PROVE  /\ Sound(Plan(gen, records, large))
           /\ \A i \in DOMAIN records :
                 IsNamed(Plan(gen, records, large).place, records[i].name)
           /\ \A i \in DOMAIN large :
                 IsNamed(Plan(gen, records, large).place, large[i].name)
           /\ \A p : Among(p, Plan(gen, records, large).place)
                      => Tells(p, records) \/ Tells(p, large)
<1> DEFINE bins == BuildPlan(records)
           B == Len(bins)
           N == B + Len(large)
           Base == NoPlan
           Step(x, n) == IF n <= B THEN WithBin(x, gen, bins[n])
                                   ELSE WithFile(x, large[n - B])
           F(f) == [n \in 0 .. N |-> IF n = 0 THEN Base ELSE Step(f[n - 1], n)]
           h == CHOOSE f : f = F(f)
           pass == [n \in 1 .. N |-> [x \in SoundPlans |-> Step(x, n)]]
           Origin(x) == \A p : Among(p, x.place) => Tells(p, records) \/ Tells(p, large)
           Has(x, n) ==
               /\ Origin(x)
               /\ \A i \in 1 .. B : i <= n =>
                     \A k \in DOMAIN bins[i] : IsNamed(x.place, bins[i][k].name)
               /\ \A i \in 1 .. Len(large) : B + i <= n => IsNamed(x.place, large[i].name)
           T == [n \in 0 .. N |-> {x \in SoundPlans : Has(x, n)}]
<1>1. Plan(gen, records, large) = h[N]
  BY DEF Plan
<1>2. /\ bins \in Seq(Bins) /\ DOMAIN bins = 1 .. B /\ B \in Nat
      /\ DOMAIN large = 1 .. Len(large) /\ Len(large) \in Nat
      /\ \A i \in DOMAIN records : InBins(records[i], bins)
      /\ \A q : InBins(q, bins) => \E i \in DOMAIN records : q = records[i]
  BY BuildPlanBins
<1> HIDE DEF bins, B
<1>3. N \in Nat /\ Base \in SoundPlans
  BY <1>2, NoPlanSound DEF Sound, SoundPlans
<1>4. ASSUME NEW n \in 1 .. N, NEW x \in SoundPlans
      PROVE  Step(x, n) \in SoundPlans /\ (Has(x, n - 1) => Has(Step(x, n), n))
  <2>1. Sound(x)
    BY DEF SoundPlans
  <2>2. CASE n <= B
    <3>1. bins[n] \in Bins
      BY <1>2, <2>2
    <3> DEFINE y == WithBin(x, gen, bins[n])
    <3>2. /\ Sound(y)
          /\ \A k \in DOMAIN bins[n] : IsNamed(y.place, bins[n][k].name)
          /\ \A q : IsNamed(x.place, q) => IsNamed(y.place, q)
          /\ \A p : Among(p, y.place) => Among(p, x.place) \/ Tells(p, bins[n])
      BY <2>1, <3>1, WithBinSound
    <3>3. Step(x, n) = y
      BY <2>2
    <3> HIDE DEF y, Step
    <3>4. ASSUME Has(x, n - 1) PROVE Has(y, n)
      <4>1. ASSUME NEW i \in 1 .. B, i <= n, NEW k \in DOMAIN bins[i]
            PROVE  IsNamed(y.place, bins[i][k].name)
        <5>1. CASE i = n
          BY <3>2, <4>1, <5>1
        <5>2. CASE i # n
          <6>1. i <= n - 1
            BY <1>2, <4>1, <5>2
          <6>2. QED
            BY <3>2, <3>4, <4>1, <6>1
        <5>3. QED
          BY <5>1, <5>2
      <4>2. \A i \in 1 .. Len(large) : ~ (B + i <= n)
        BY <1>2, <2>2
      <4>3. Origin(y)
        <5>1. n \in DOMAIN bins
          BY <1>2, <2>2
        <5>2. \A k \in DOMAIN bins[n] : \E i \in DOMAIN records : bins[n][k] = records[i]
          BY <1>2, <5>1, Zenon DEF InBins
        <5>3. \A p : Tells(p, bins[n]) => Tells(p, records)
          BY <5>2, Zenon DEF Tells
        <5>4. Origin(x)
          BY <3>4
        <5>5. QED
          BY <3>2, <5>3, <5>4
      <4>4. QED
        BY <4>1, <4>2, <4>3
    <3>5. QED
      <4> HIDE DEF Has
      <4> QED BY <3>2, <3>3, <3>4 DEF SoundPlans, Sound
  <2>3. CASE ~ (n <= B)
    <3>1. n - B \in DOMAIN large
      BY <1>2, <2>3
    <3> DEFINE f == large[n - B]
               y == WithFile(x, f)
    <3>2. f.name \in Names /\ f.content \in Large
      BY <3>1
    <3> HIDE DEF f
    <3>3. /\ Sound(y) /\ IsNamed(y.place, f.name)
          /\ \A q : IsNamed(x.place, q) => IsNamed(y.place, q)
          /\ \A p : Among(p, y.place)
                     => Among(p, x.place) \/ (p.name = f.name /\ p.content = f.content)
      BY <2>1, <3>2, WithFileSound
    <3>4. Step(x, n) = y
      BY <2>3 DEF f
    <3> HIDE DEF y, Step
    <3>5. ASSUME Has(x, n - 1) PROVE Has(y, n)
      <4>1. ASSUME NEW i \in 1 .. B, NEW k \in DOMAIN bins[i]
            PROVE  IsNamed(y.place, bins[i][k].name)
        <5>1. i <= n - 1
          BY <1>2, <2>3
        <5>2. QED
          BY <3>3, <3>5, <5>1
      <4>2. ASSUME NEW i \in 1 .. Len(large), B + i <= n
            PROVE  IsNamed(y.place, large[i].name)
        <5>1. CASE i = n - B
          BY <3>3, <5>1 DEF f
        <5>2. CASE i # n - B
          <6>1. B + i <= n - 1
            BY <1>2, <4>2, <5>2
          <6>2. QED
            BY <3>3, <3>5, <6>1
        <5>3. QED
          BY <5>1, <5>2
      <4>3. Origin(y)
        <5>1. \A p : p.name = f.name /\ p.content = f.content => Tells(p, large)
          BY <3>1, Zenon DEF Tells, f
        <5>2. Origin(x)
          BY <3>5
        <5>3. QED
          BY <3>3, <5>1, <5>2
      <4>4. QED
        BY <4>1, <4>2, <4>3
    <3>6. QED
      <4> HIDE DEF Has
      <4> QED BY <3>3, <3>4, <3>5 DEF SoundPlans, Sound
  <2>4. QED
    BY <2>2, <2>3
<1>5. Has(Base, 0)
  <2>1. Base.place = <<>> /\ DOMAIN <<>> = {}
    BY DEF NoPlan
  <2>2. Origin(Base)
    BY <2>1 DEF Among
  <2>3. QED
    BY <1>2, <2>2
<1> HIDE DEF N, Base, Step, h, Has
<1>6. \A n \in 1 .. N : \A x \in SoundPlans : Step(x, n) \in SoundPlans
  BY <1>4
<1>7. \A n \in 1 .. N : \A x \in SoundPlans : Has(x, n - 1) => Has(Step(x, n), n)
  BY <1>4
<1>8. h = F(h)
  <2>1. pass \in [1 .. N -> [SoundPlans -> SoundPlans]]
    BY <1>6
  <2>2. \A n \in 1 .. N : \A x \in SoundPlans : pass[n][x] = Step(x, n)
    OBVIOUS
  <2> HIDE DEF pass, F
  <2>3. PICK g \in Runs(SoundPlans, Base, N, pass) : TRUE
    BY <1>3, <2>1, Recursion
  <2>4. g = F(g)
    <3>1. /\ g \in [0 .. N -> SoundPlans] /\ g[0] = Base
          /\ \A n \in 1 .. N : g[n] = pass[n][g[n - 1]]
      BY <2>3 DEF Runs
    <3>2. ASSUME NEW n \in 1 .. N PROVE g[n] = Step(g[n - 1], n)
      <4>1. n - 1 \in 0 .. N
        BY <1>3
      <4>2. g[n - 1] \in SoundPlans
        BY <3>1, <4>1
      <4>3. QED
        BY <2>2, <3>1, <4>2
    <3>3. QED
      BY <1>3, <3>1, <3>2 DEF F
  <2>5. QED
    BY <2>4, Zenon DEF h
<1>9. h[0] = Base /\ \A n \in 1 .. N : h[n] = Step(h[n - 1], n)
  BY <1>3, <1>8
<1>10. h[N] \in T[N]
  <2>1. h[0] \in T[0]
    BY <1>3, <1>5, <1>9
  <2>2. \A n \in 1 .. N : h[n - 1] \in T[n - 1] => h[n] \in T[n]
    BY <1>3, <1>6, <1>7, <1>9
  <2> HIDE DEF T
  <2>3. \A n \in 0 .. N : h[n] \in T[n]
    BY <1>3, <2>1, <2>2, Passes
  <2>4. QED
    BY <1>3, <2>3
<1>11. h[N] \in SoundPlans /\ Has(h[N], N)
  BY <1>3, <1>10
<1>12. Sound(h[N])
  BY <1>11 DEF SoundPlans
<1>13. ASSUME NEW i \in DOMAIN records PROVE IsNamed(h[N].place, records[i].name)
  <2>1. PICK b \in DOMAIN bins : \E k \in DOMAIN bins[b] : bins[b][k] = records[i]
    BY <1>2 DEF InBins
  <2>2. b \in 1 .. B /\ b <= N
    BY <1>2, <2>1 DEF N
  <2>3. QED
    BY <1>11, <2>1, <2>2 DEF Has
<1>14. ASSUME NEW i \in DOMAIN large PROVE IsNamed(h[N].place, large[i].name)
  <2>1. i \in 1 .. Len(large) /\ B + i <= N
    BY <1>2 DEF N
  <2>2. QED
    BY <1>11, <2>1 DEF Has
<1>15. Origin(h[N])
  BY <1>11 DEF Has
<1>16. QED
  BY <1>1, <1>12, <1>13, <1>14, <1>15
-----------------------------------------------------------------------------
(* Installing a plan.                                                      *)

\* Programming a plan moves its entries.
LEMMA AtIs ==
    ASSUME NEW p \in Entries, NEW first \in Nat
    PROVE  /\ At(p, first) \in Entries /\ At(p, first).name = p.name
           /\ At(p, first).block = first + p.block /\ At(p, first).gen = p.gen
           /\ At(p, first).id = p.id /\ At(p, first).content = p.content
           /\ IsPacked(At(p, first)) = IsPacked(p)
           /\ \A b \in Span(At(p, first)) : b \in Nat /\ b - first \in Span(p)
<1>1. /\ At(p, first) \in Entries /\ At(p, first).name = p.name
      /\ At(p, first).block = first + p.block /\ At(p, first).gen = p.gen
      /\ At(p, first).id = p.id /\ At(p, first).content = p.content
  BY DEF At, Entries
<1> HIDE DEF At
<1>2. IsPacked(At(p, first)) = IsPacked(p) /\ Count(At(p, first)) = Count(p)
  BY <1>1 DEF IsPacked, Count
<1>3. /\ Span(p) = p.block .. p.block + Count(p) - 1
      /\ Span(At(p, first)) = first + p.block .. first + p.block + Count(p) - 1
      /\ Count(p) \in Nat /\ p.block \in Nat
  BY <1>1, <1>2, SpanOf
<1>4. QED
  BY <1>1, <1>2, <1>3

\* An entry replaces the one of its name; names stay distinct, and there.
LEMMA InstalledEntries ==
    ASSUME NEW es \in Seq(Entries), Distinct(es), NEW e \in Entries
    PROVE  /\ Installed(es, e) \in Seq(Entries) /\ Distinct(Installed(es, e))
           /\ \A i \in DOMAIN Installed(es, e) :
                 \/ Installed(es, e)[i] = e
                 \/ /\ i \in DOMAIN es /\ Installed(es, e)[i] = es[i]
                    /\ es[i].name # e.name
           /\ IsNamed(Installed(es, e), e.name)
           /\ \A q : IsNamed(es, q) => IsNamed(Installed(es, e), q)
<1>1. CASE ~ IsNamed(es, e.name)
  <2> DEFINE y == Append(es, e)
  <2>1. Installed(es, e) = y
    BY <1>1 DEF Installed
  <2>2. \A k \in DOMAIN es : es[k].name # e.name
    BY <1>1 DEF IsNamed
  <2>3. /\ y \in Seq(Entries) /\ Len(es) \in Nat /\ DOMAIN es = 1 .. Len(es)
        /\ DOMAIN y = 1 .. Len(es) + 1 /\ y[Len(es) + 1] = e
        /\ \A k \in 1 .. Len(es) : y[k] = es[k]
    OBVIOUS
  <2> HIDE DEF y
  <2>4. \A k \in DOMAIN y : (k = Len(es) + 1 /\ y[k] = e) \/ (k \in DOMAIN es /\ y[k] = es[k])
    BY <2>3
  <2>5. Distinct(y)
    BY <2>2, <2>4 DEF Distinct
  <2>6. \A k \in DOMAIN es : k \in DOMAIN y /\ y[k] = es[k]
    BY <2>3
  <2>7. \A q : IsNamed(es, q) => IsNamed(y, q)
    BY <2>6, Zenon DEF IsNamed
  <2>8. Len(es) + 1 \in DOMAIN y
    BY <2>3
  <2>9. IsNamed(y, e.name)
    BY <2>3, <2>8, Zenon DEF IsNamed
  <2>10. QED
    BY <2>1, <2>2, <2>3, <2>4, <2>5, <2>7, <2>9
<1>2. CASE IsNamed(es, e.name)
  <2> DEFINE l == Find(es, e.name)
             y == [es EXCEPT ![l] = e]
  <2>1. Installed(es, e) = y
    BY <1>2 DEF Installed
  <2>2. l \in DOMAIN es /\ es[l].name = e.name
    BY <1>2, FoundIs
  <2> HIDE DEF l
  <2>3. /\ y \in Seq(Entries) /\ DOMAIN y = DOMAIN es /\ y[l] = e
        /\ \A k \in DOMAIN es : k # l => y[k] = es[k]
    BY <2>2
  <2> HIDE DEF y
  <2>4. \A k \in DOMAIN es : y[k].name = es[k].name
    BY <2>2, <2>3
  <2>5. Distinct(y)
    BY <2>3, <2>4 DEF Distinct
  <2>6. \A k \in DOMAIN es : k # l => es[k].name # e.name
    BY <2>2 DEF Distinct
  <2>7. \A q : IsNamed(es, q) => IsNamed(y, q)
    BY <2>3, <2>4, Zenon DEF IsNamed
  <2>8. IsNamed(y, e.name)
    BY <2>2, <2>3, Zenon DEF IsNamed
  <2>9. QED
    BY <2>1, <2>3, <2>5, <2>6, <2>7, <2>8
<1>3. QED
  BY <1>1, <1>2

\* Of the entries after a plan was installed, each either stays, and has no
\* entry of its name in the plan, or comes from the plan.
Stays(e, m, place) == \E j \in DOMAIN m : e = m[j] /\ ~IsNamed(place, m[j].name)
Comes(e, place, first) == \E k \in DOMAIN place : e = At(place[k], first)
\* Installing a plan keeps each entry of the manifest that the plan does not name,
\* and adds the entries of the plan at their place; names stay distinct, and there.
LEMMA InstallEntries ==
    ASSUME NEW m \in Seq(Entries), Distinct(m), NEW place \in Seq(Entries),
           NEW first \in Nat
    PROVE  /\ Install(m, place, first) \in Seq(Entries)
           /\ Distinct(Install(m, place, first))
           /\ \A i \in DOMAIN Install(m, place, first) :
                 \/ Stays(Install(m, place, first)[i], m, place)
                 \/ Comes(Install(m, place, first)[i], place, first)
           /\ \A q : IsNamed(m, q) \/ IsNamed(place, q)
                      => IsNamed(Install(m, place, first), q)
<1> DEFINE N == Len(place)
           Ms == {x \in Seq(Entries) : Distinct(x)}
           Base == m
           Step(x, n) == Installed(x, At(place[n], first))
           F(f) == [n \in 0 .. N |-> IF n = 0 THEN Base ELSE Step(f[n - 1], n)]
           h == CHOOSE f : f = F(f)
           pass == [n \in 1 .. N |-> [x \in Ms |-> Step(x, n)]]
           Left(e, n) == \E j \in DOMAIN m :
                            e = m[j] /\ \A k \in 1 .. n : place[k].name # m[j].name
           New(e, n) == \E k \in 1 .. n : e = At(place[k], first)
           There(x, n) == /\ \A q : IsNamed(m, q) => IsNamed(x, q)
                          /\ \A k \in 1 .. n : IsNamed(x, place[k].name)
           Has(x, n) == /\ \A i \in DOMAIN x : Left(x[i], n) \/ New(x[i], n)
                        /\ There(x, n)
           T == [n \in 0 .. N |-> {x \in Ms : Has(x, n)}]
<1>1. Install(m, place, first) = h[N]
  BY DEF Install
<1>2. N \in Nat /\ Base \in Ms /\ DOMAIN place = 1 .. N
  OBVIOUS
<1>3. ASSUME NEW n \in 1 .. N, NEW x \in Ms
      PROVE  Step(x, n) \in Ms /\ (Has(x, n - 1) => Has(Step(x, n), n))
  <2> DEFINE e == At(place[n], first)
             y == Installed(x, e)
  <2>1. x \in Seq(Entries) /\ Distinct(x)
    OBVIOUS
  <2>2. e \in Entries /\ e.name = place[n].name
    <3>1. place[n] \in Entries
      OBVIOUS
    <3>2. QED
      BY <3>1, AtIs
  <2> HIDE DEF e
  <2>3. /\ y \in Seq(Entries) /\ Distinct(y)
        /\ \A i \in DOMAIN y :
              \/ y[i] = e
              \/ i \in DOMAIN x /\ y[i] = x[i] /\ x[i].name # e.name
        /\ IsNamed(y, e.name) /\ \A q : IsNamed(x, q) => IsNamed(y, q)
    BY <2>1, <2>2, InstalledEntries
  <2> HIDE DEF y
  <2>4. ASSUME Has(x, n - 1), NEW i \in DOMAIN y PROVE Left(y[i], n) \/ New(y[i], n)
    <3>1. CASE y[i] = e
      BY <1>2, <3>1 DEF e
    <3>2. CASE i \in DOMAIN x /\ y[i] = x[i] /\ x[i].name # e.name
      <4>1. CASE New(x[i], n - 1)
        BY <1>2, <3>2, <4>1
      <4>2. CASE Left(x[i], n - 1)
        <5>1. PICK j \in DOMAIN m :
                  x[i] = m[j] /\ \A k \in 1 .. n - 1 : place[k].name # m[j].name
          BY <4>2
        <5>2. \A k \in 1 .. n : place[k].name # m[j].name
          BY <1>2, <2>2, <3>2, <5>1
        <5>3. QED
          BY <3>2, <5>1, <5>2
      <4>3. QED
        BY <2>4, <3>2, <4>1, <4>2
    <3>3. QED
      BY <2>3, <3>1, <3>2
  <2>5. ASSUME Has(x, n - 1) PROVE There(y, n)
    <3>1. \A k \in 1 .. n : k = n \/ k \in 1 .. n - 1
      BY <1>2
    <3>2. QED
      BY <2>2, <2>3, <2>5, <3>1
  <2>6. Step(x, n) = y
    BY DEF y, e
  <2>7. QED
    <3> HIDE DEF Step, Left, New, There
    <3> QED BY <2>3, <2>4, <2>5, <2>6
<1>4. Has(Base, 0)
  OBVIOUS
<1> HIDE DEF N, Base, Step, h, Has, Ms
<1>5. \A n \in 1 .. N : \A x \in Ms : Step(x, n) \in Ms
  BY <1>3
<1>6. \A n \in 1 .. N : \A x \in Ms : Has(x, n - 1) => Has(Step(x, n), n)
  BY <1>3
<1>7. h = F(h)
  <2>1. pass \in [1 .. N -> [Ms -> Ms]]
    BY <1>5
  <2>2. \A n \in 1 .. N : \A x \in Ms : pass[n][x] = Step(x, n)
    OBVIOUS
  <2> HIDE DEF pass, F
  <2>3. PICK g \in Runs(Ms, Base, N, pass) : TRUE
    BY <1>2, <2>1, Recursion
  <2>4. g = F(g)
    <3>1. /\ g \in [0 .. N -> Ms] /\ g[0] = Base
          /\ \A n \in 1 .. N : g[n] = pass[n][g[n - 1]]
      BY <2>3 DEF Runs
    <3>2. ASSUME NEW n \in 1 .. N PROVE g[n] = Step(g[n - 1], n)
      <4>1. n - 1 \in 0 .. N
        BY <1>2
      <4>2. g[n - 1] \in Ms
        BY <3>1, <4>1
      <4>3. QED
        BY <2>2, <3>1, <4>2
    <3>3. QED
      BY <1>2, <3>1, <3>2 DEF F
  <2>5. QED
    BY <2>4, Zenon DEF h
<1>8. h[0] = Base /\ \A n \in 1 .. N : h[n] = Step(h[n - 1], n)
  BY <1>2, <1>7
<1>9. h[N] \in T[N]
  <2>1. h[0] \in T[0]
    BY <1>2, <1>4, <1>8
  <2>2. \A n \in 1 .. N : h[n - 1] \in T[n - 1] => h[n] \in T[n]
    BY <1>2, <1>5, <1>6, <1>8
  <2> HIDE DEF T
  <2>3. \A n \in 0 .. N : h[n] \in T[n]
    BY <1>2, <2>1, <2>2, Passes
  <2>4. QED
    BY <1>2, <2>3
<1>10. h[N] \in Ms /\ Has(h[N], N)
  BY <1>2, <1>9
<1>11. \A i \in DOMAIN h[N] : Stays(h[N][i], m, place) \/ Comes(h[N][i], place, first)
  <2>1. \A e : Left(e, N) => Stays(e, m, place)
    BY <1>2, Zenon DEF Stays, IsNamed
  <2>2. \A e : New(e, N) => Comes(e, place, first)
    BY <1>2, Zenon DEF Comes
  <2> HIDE DEF Left, New, There
  <2>3. QED
    BY <1>10, <2>1, <2>2 DEF Has
<1>12. \A q : IsNamed(m, q) \/ IsNamed(place, q) => IsNamed(h[N], q)
  <2>1. There(h[N], N)
    <3> HIDE DEF Left, New, There
    <3> QED BY <1>10 DEF Has
  <2>2. QED
    BY <1>2, <2>1, Zenon DEF IsNamed
<1>13. QED
  BY <1>1, <1>10, <1>11, <1>12 DEF Ms
-----------------------------------------------------------------------------
(* The device.                                                             *)

\* What a manifest that can be read uses is programmed.
LEMMA UsedSolid ==
    ASSUME NEW m \in Seq(Entries), NEW d, Readable(m, d)
    PROVE  /\ \A i \in DOMAIN m : Span(m[i]) \subseteq Used(m)
           /\ \A b \in Used(m) : b \in DataBlocks /\ d[b] \notin {Blank, Torn}
<1>1. ASSUME NEW i \in DOMAIN m, NEW b \in Span(m[i])
      PROVE  b \in DataBlocks /\ d[b] \notin {Blank, Torn}
  <2>1. m[i] \in Entries /\ Resolves(m[i], d)
    BY DEF Readable
  <2>2. CASE IsPacked(m[i])
    BY <2>1, <2>2, SpanOf DEF Resolves, Holds
  <2>3. CASE ~IsPacked(m[i])
    BY <2>1, <2>3 DEF Resolves, Holds
  <2>4. QED
    BY <2>2, <2>3
<1>2. QED
  BY <1>1 DEF Used

\* A manifest can be read as long as the blocks that it uses are left alone.
LEMMA ReadableKept ==
    ASSUME NEW m \in Seq(Entries), NEW d, NEW d2, Readable(m, d),
           \A b \in Used(m) : d2[b] = d[b]
    PROVE  Readable(m, d2)
<1>1. ASSUME NEW i \in DOMAIN m PROVE Resolves(m[i], d2)
  <2>1. m[i] \in Entries /\ Resolves(m[i], d) /\ Span(m[i]) \subseteq Used(m)
    BY UsedSolid DEF Readable
  <2>2. \A b \in Span(m[i]) : d2[b] = d[b]
    BY <2>1
  <2>3. CASE IsPacked(m[i])
    BY <2>1, <2>2, <2>3, SpanOf DEF Resolves, Holds
  <2>4. CASE ~IsPacked(m[i])
    BY <2>1, <2>2, <2>4 DEF Resolves, Holds
  <2>5. QED
    BY <2>3, <2>4
<1>2. QED
  BY <1>1 DEF Readable

\* A block of an image is neither blank nor torn.
LEMMA StoredSolid ==
    ASSUME NEW x \in Stored
    PROVE  x \notin {Blank, Torn}
  BY PackedConstantsAssumption DEF Stored

\* An image at its place.
Overlaid(d, image, first) ==
    [b \in DataBlocks |-> IF b \in first .. first + Len(image) - 1
                          THEN image[b - first + 1] ELSE d[b]]

\* After a plan was programmed to blank blocks, the entries with those of the
\* plan can be read.  They have left the blocks that only entries of the
\* names of the plan used.
LEMMA InstallReadable ==
    ASSUME NEW m \in Manifests, NEW d, Readable(m, d), NEW plan, Sound(plan),
           NEW first \in Nat,
           \A b \in first .. first + Len(plan.image) - 1 :
               b \in DataBlocks /\ d[b] = Blank
    PROVE  /\ Install(m, plan.place, first) \in Manifests
           /\ Readable(Install(m, plan.place, first), Overlaid(d, plan.image, first))
           /\ \A V \in SUBSET Used(m) :
                 (\A i \in DOMAIN m : Span(m[i]) \cap V # {} => IsNamed(plan.place, m[i].name))
                 => V \cap Used(Install(m, plan.place, first)) = {}
<1> DEFINE place == plan.place
           image == plan.image
           Dest == first .. first + Len(image) - 1
           d2 == Overlaid(d, image, first)
           r == Install(m, place, first)
<1>1. /\ place \in Seq(Entries) /\ image \in Seq(Stored) /\ Apart(place)
      /\ \A k \in DOMAIN place : PointsInto(place[k], image)
  BY DEF Sound, Plans
<1>2. m \in Seq(Entries) /\ Distinct(m) /\ Apart(m)
  BY DEF Manifests
<1> HIDE DEF place, image
<1>3. /\ r \in Seq(Entries) /\ Distinct(r)
      /\ \A i \in DOMAIN r : Stays(r[i], m, place) \/ Comes(r[i], place, first)
  BY <1>1, <1>2, InstallEntries
<1> HIDE DEF r
<1>4. \A b \in Dest : b \in DataBlocks /\ d[b] = Blank
  BY DEF image
<1>5. \A b \in Used(m) : b \in DataBlocks /\ b \notin Dest /\ d2[b] = d[b]
  BY <1>2, <1>4, UsedSolid DEF Overlaid
<1>6. ASSUME NEW k \in DOMAIN place
      PROVE  /\ At(place[k], first) \in Entries
             /\ Span(At(place[k], first)) \subseteq Dest
             /\ Resolves(At(place[k], first), d2)
  <2> DEFINE p == place[k]
             e == At(p, first)
  <2>1. p \in Entries /\ PointsInto(p, image)
    BY <1>1
  <2>2. /\ e \in Entries /\ e.block = first + p.block /\ e.gen = p.gen
        /\ e.id = p.id /\ e.content = p.content /\ IsPacked(e) = IsPacked(p)
        /\ \A b \in Span(e) : b \in Nat /\ b - first \in Span(p)
    BY <2>1, AtIs
  <2>3. /\ p.block \in Nat /\ \A b \in Span(p) : b \in Nat /\ b < Len(image)
        /\ p.block \in Span(p) /\ e.block \in Span(e)
        /\ Len(image) \in Nat
    <3> HIDE DEF p, e
    <3>1. p.block \in Nat /\ p.block \in Span(p)
      BY <2>1, SpanOf
    <3>2. e.block \in Span(e)
      BY <2>2, SpanOf
    <3>3. \A b \in Span(p) : b \in Nat /\ b < Len(image)
      BY <1>1, <2>1, PointsWithin
    <3>4. QED
      BY <1>1, <3>1, <3>2, <3>3
  <2> HIDE DEF p, e
  <2>4. Span(e) \subseteq Dest
    BY <2>2, <2>3
  <2>5. ASSUME NEW b \in Span(e), NEW gen, NEW id, NEW content,
               HeldBy(image, b - first, gen, id, content)
        PROVE  Holds(d2, b, gen, id, content)
    <3>1. b \in Dest /\ b - first + 1 \in 1 .. Len(image)
      BY <2>2, <2>3, <2>4
    <3>2. d2[b] = image[b - first + 1] /\ image[b - first + 1] \in Stored /\ b \in DataBlocks
      BY <1>1, <1>4, <3>1 DEF Overlaid
    <3> HIDE DEF d2
    <3>3. QED
      BY <2>5, <3>2, StoredSolid DEF HeldBy, Holds
  <2>6. Resolves(e, d2)
    <3>1. CASE IsPacked(p)
      <4>1. HeldBy(image, e.block - first, e.gen, e.id, e.content)
        BY <2>1, <2>2, <2>3, <3>1 DEF PointsInto
      <4>2. Holds(d2, e.block, e.gen, e.id, e.content)
        BY <2>3, <2>5, <4>1
      <4>3. QED
        BY <2>2, <3>1, <4>2 DEF Resolves
    <3>2. CASE ~IsPacked(p)
      <4>1. ASSUME NEW b \in Span(e)
            PROVE  HeldBy(image, b - first, 0, b - e.block, e.content)
        <5>1. b - first \in Span(p) /\ b - first - p.block = b - e.block
          BY <2>2, <2>3
        <5>2. HeldBy(image, b - first, 0, b - first - p.block, p.content)
          BY <2>1, <3>2, <5>1 DEF PointsInto
        <5>3. QED
          BY <2>2, <5>1, <5>2
      <4>2. \A b \in Span(e) : Holds(d2, b, 0, b - e.block, e.content)
        BY <2>5, <4>1
      <4>3. QED
        BY <2>2, <3>2, <4>2 DEF Resolves
    <3>3. QED
      BY <3>1, <3>2
  <2>7. QED
    BY <2>2, <2>4, <2>6 DEF p, e
<1>7. Readable(m, d2)
  BY <1>2, <1>5, ReadableKept
<1>8. \A j \in DOMAIN m : Span(m[j]) \subseteq Used(m) /\ Resolves(m[j], d2)
  BY <1>7, <1>2, UsedSolid DEF Readable
<1> HIDE DEF d2, Dest
<1>9. Readable(r, d2)
  BY <1>3, <1>6, <1>8 DEF Readable, Stays, Comes
<1>10. Apart(r)
  <2> SUFFICES ASSUME NEW i \in DOMAIN r, NEW j \in DOMAIN r, i # j,
                      Span(r[i]) \cap Span(r[j]) # {}
               PROVE  IsPacked(r[i]) /\ IsPacked(r[j])
    BY DEF Apart
  <2>1. r[i].name # r[j].name
    BY <1>3 DEF Distinct
  <2>2. CASE Stays(r[i], m, place) /\ Stays(r[j], m, place)
    <3>1. PICK a \in DOMAIN m, c \in DOMAIN m : r[i] = m[a] /\ r[j] = m[c]
      BY <2>2 DEF Stays
    <3>2. a # c
      BY <2>1, <3>1
    <3>3. QED
      BY <1>2, <3>1, <3>2 DEF Apart
  <2>3. CASE Comes(r[i], place, first) /\ Comes(r[j], place, first)
    <3>1. PICK a \in DOMAIN place, c \in DOMAIN place :
              r[i] = At(place[a], first) /\ r[j] = At(place[c], first)
      BY <2>3 DEF Comes
    <3>2. place[a] \in Entries /\ place[c] \in Entries /\ a # c
      BY <1>1, <2>1, <3>1
    <3>3. PICK b : b \in Span(r[i]) /\ b \in Span(r[j])
      OBVIOUS
    <3>4. b - first \in Span(place[a]) /\ b - first \in Span(place[c])
      BY <3>1, <3>2, <3>3, AtIs
    <3>5. IsPacked(place[a]) /\ IsPacked(place[c])
      BY <1>1, <3>2, <3>4 DEF Apart
    <3>6. QED
      BY <3>1, <3>2, <3>5, AtIs
  <2>4. ASSUME NEW u \in DOMAIN r, NEW v \in DOMAIN r,
               Stays(r[u], m, place), Comes(r[v], place, first)
        PROVE  Span(r[u]) \cap Span(r[v]) = {}
    <3>1. Span(r[u]) \subseteq Used(m)
      BY <1>8, <2>4 DEF Stays
    <3>2. Span(r[v]) \subseteq Dest
      BY <1>6, <2>4 DEF Comes
    <3>3. QED
      BY <1>5, <3>1, <3>2
  <2>5. QED
    BY <1>3, <2>2, <2>3, <2>4
<1>11. ASSUME NEW V \in SUBSET Used(m),
              \A i \in DOMAIN m : Span(m[i]) \cap V # {} => IsNamed(place, m[i].name)
       PROVE  V \cap Used(r) = {}
  <2>1. ASSUME NEW i \in DOMAIN r PROVE Span(r[i]) \cap V = {}
    <3>1. CASE Stays(r[i], m, place)
      BY <1>11, <3>1 DEF Stays
    <3>2. CASE Comes(r[i], place, first)
      BY <1>5, <1>6, <3>2 DEF Comes
    <3>3. QED
      BY <1>3, <3>1, <3>2
  <2>2. QED
    BY <2>1 DEF Used
<1>12. QED
  BY <1>3, <1>9, <1>10, <1>11 DEF Manifests, r, d2, place, image
-----------------------------------------------------------------------------
(* Planning.                                                               *)

\* The elements of a sequence of natural numbers have a bound.
LEMMA BoundExists ==
    ASSUME NEW s \in Seq(Nat)
    PROVE  \E N \in Nat : \A i \in DOMAIN s : s[i] <= N
<1> DEFINE A == {n \in 0 .. Len(s) : \E N \in Nat : \A i \in 1 .. n : s[i] <= N}
<1>1. 0 \in A
  OBVIOUS
<1>2. ASSUME NEW n \in 1 .. Len(s), n - 1 \in A PROVE n \in A
  <2>1. PICK N \in Nat : \A i \in 1 .. n - 1 : s[i] <= N
    BY <1>2
  <2>2. N + s[n] \in Nat /\ s[n] \in Nat
    OBVIOUS
  <2>3. \A i \in 1 .. n : s[i] \in Nat /\ (i = n \/ i \in 1 .. n - 1)
    OBVIOUS
  <2>4. \A i \in 1 .. n : s[i] <= N + s[n]
    BY <2>1, <2>2, <2>3
  <2>5. \E M \in Nat : \A i \in 1 .. n : s[i] <= M
    <3> DEFINE M == N + s[n]
    <3>1. M \in Nat /\ \A i \in 1 .. n : s[i] <= M
      BY <2>2, <2>4
    <3> HIDE DEF M
    <3>2. QED
      BY <3>1
  <2>6. n \in 0 .. Len(s)
    OBVIOUS
  <2>7. QED
    BY <2>5, <2>6
<1>3. Len(s) \in A
  <2>1. Len(s) \in Nat
    OBVIOUS
  <2> HIDE DEF A
  <2>2. 0 .. Len(s) \subseteq A
    BY <1>1, <1>2, <2>1, Induct
  <2>3. QED
    BY <2>1, <2>2
<1>4. DOMAIN s = 1 .. Len(s)
  OBVIOUS
<1>5. QED
  BY <1>3, <1>4

\* The next id and the next generation are numbers.
LEMMA NextType ==
    ASSUME entries \in Seq(Entries)
    PROVE  /\ NextId \in Nat /\ NextId >= 1
           /\ NextPackedGeneration \in Nat
<1>1. ASSUME NEW v \in [DOMAIN entries -> Nat]
      PROVE  Greatest({0} \cup {v[i] : i \in PackedIn(entries)}) \in Nat
  <2>1. v \in Seq(Nat) /\ DOMAIN v = DOMAIN entries
    OBVIOUS
  <2>2. PICK N \in Nat : \A i \in DOMAIN v : v[i] <= N
    BY <2>1, BoundExists
  <2> DEFINE S == {0} \cup {v[i] : i \in PackedIn(entries)}
  <2>3. S \in SUBSET (0 .. N) /\ S # {}
    BY <2>2 DEF PackedIn
  <2> HIDE DEF S
  <2>4. Greatest(S) \in S
    BY <2>3, GreatestExists
  <2>5. QED
    BY <2>3, <2>4 DEF S
<1>2. \A i \in DOMAIN entries : entries[i].id \in Nat /\ entries[i].gen \in Nat
  <2>1. \A i \in DOMAIN entries : entries[i] \in Entries
    OBVIOUS
  <2>2. QED
    BY <2>1 DEF Entries
<1> DEFINE v == [i \in DOMAIN entries |-> entries[i].id]
           w == [i \in DOMAIN entries |-> entries[i].gen]
<1>3. v \in [DOMAIN entries -> Nat] /\ w \in [DOMAIN entries -> Nat]
  BY <1>2
<1>4. /\ {v[i] : i \in PackedIn(entries)} = PackedIds(entries)
      /\ {w[i] : i \in PackedIn(entries)} = PackedGens(entries)
  BY DEF PackedIn, PackedIds, PackedGens
<1> HIDE DEF v, w
<1>5. /\ Greatest({0} \cup PackedIds(entries)) \in Nat
      /\ Greatest({0} \cup PackedGens(entries)) \in Nat
  BY <1>1, <1>3, <1>4
<1>6. QED
  BY <1>5 DEF NextId, NextPackedGeneration

\* The small files of a batch are small, the large ones large.
LEMMA BatchParts ==
    ASSUME NEW batch \in Batches
    PROVE  /\ SmallOf(batch) \in Seq(Files) /\ LargeOf(batch) \in Seq(Files)
           /\ \A i \in DOMAIN SmallOf(batch) : /\ SmallOf(batch)[i].name \in Names
                                               /\ SmallOf(batch)[i].content \in Small
           /\ \A i \in DOMAIN LargeOf(batch) : /\ LargeOf(batch)[i].name \in Names
                                               /\ LargeOf(batch)[i].content \in Large
<1>1. batch \in Seq(Files)
  BY PackedConstantsAssumption
<1>2. \A i \in DOMAIN batch : batch[i].name \in Names /\ batch[i].content \in Small \cup Large
  <2>1. \A i \in DOMAIN batch : batch[i] \in Files
    BY <1>1
  <2>2. QED
    BY <2>1 DEF Files, Contents
<1>3. /\ SmallOf(batch) \in Seq(Files)
      /\ Lists(SmallOf(batch), batch, PackedIn(batch))
  BY <1>1, SelectedElements DEF SmallOf
<1>4. /\ LargeOf(batch) \in Seq(Files)
      /\ Lists(LargeOf(batch), batch, DOMAIN batch \ PackedIn(batch))
  BY <1>1, SelectedElements DEF LargeOf
<1>5. \A i \in DOMAIN batch : i \in PackedIn(batch) <=> batch[i].content \in Small
  BY DEF PackedIn, IsPacked
<1>6. QED
  BY <1>2, <1>3, <1>4, <1>5 DEF Lists

\* What a put plans for is a sequence of records.
LEMMA PendingType ==
    ASSUME entries \in Seq(Entries), NEW batch \in Batches
    PROVE  Pending(batch) \in Seq(Records)
<1> DEFINE S == {i \in PackedIn(entries) : /\ entries[i].block \in RepackBlocks(batch)
                                           /\ ~IsNamed(batch, entries[i].name)}
           small == SmallOf(batch)
           new == [i \in DOMAIN small |-> [name |-> small[i].name, id |-> NextId + i - 1,
                                           content |-> small[i].content]]
<1>1. S \in SUBSET DOMAIN entries
  BY DEF PackedIn
<1>2. /\ Carried(batch) \in Seq(Entries)
      /\ \A k \in DOMAIN Carried(batch) : \E i \in S : Carried(batch)[k] = entries[i]
  <2>1. Carried(batch) = ByBlock(S)
    BY DEF Carried
  <2> HIDE DEF S
  <2>2. QED
    BY <1>1, <2>1, ByBlockElements
<1>3. \A k \in DOMAIN Carried(batch) : Carried(batch)[k] \in Records
  <2>1. \A i \in S : entries[i] \in Entries /\ IsPacked(entries[i])
    BY DEF PackedIn
  <2> HIDE DEF S
  <2>2. QED
    BY <1>2, <2>1 DEF Records
<1>4. Carried(batch) \in Seq(Records)
  BY <1>2, <1>3
<1>5. /\ small \in Seq(Files)
      /\ \A i \in DOMAIN small : small[i].name \in Names /\ small[i].content \in Small
  BY BatchParts
<1> HIDE DEF small
<1>6. NextId \in Nat /\ NextId >= 1
  BY NextType
<1>7. \A i \in DOMAIN small : new[i] \in Records
  BY <1>5, NextType DEF Records
<1>8. new \in Seq(Records)
  BY <1>5, <1>7
<1>9. Pending(batch) = Carried(batch) \o new
  BY DEF Pending, small
<1>10. QED
  BY <1>4, <1>8, <1>9

\* The plan of a put is sound.
LEMMA PutPlanSound ==
    ASSUME entries \in Seq(Entries), NEW batch \in Batches
    PROVE  Sound(PutPlan(batch))
<1>1. NextPackedGeneration \in Nat /\ Pending(batch) \in Seq(Records)
  BY NextType, PendingType
<1>2. /\ LargeOf(batch) \in Seq(Files)
      /\ \A i \in DOMAIN LargeOf(batch) : /\ LargeOf(batch)[i].name \in Names
                                          /\ LargeOf(batch)[i].content \in Large
  BY BatchParts
<1>3. QED
  BY <1>1, <1>2, PlanSound DEF PutPlan

\* So is that of a compaction of the packed blocks, and it has an entry for
\* every packed file.
LEMMA PackPlanSound ==
    ASSUME entries \in Seq(Entries), Readable(entries, data)
    PROVE  /\ Sound(PackPlan)
           /\ \A i \in PackedIn(entries) : IsNamed(PackPlan.place, entries[i].name)
<1> DEFINE S == PackedIn(entries)
           records == Renumbered(RecordsByBlock)
<1>1. S \in SUBSET DOMAIN entries /\ \A i \in S : entries[i] \in Entries /\ IsPacked(entries[i])
  BY DEF PackedIn
<1>2. \A i \in S : entries[i].block \in DataBlocks
  BY <1>1, SpanOf, UsedSolid
<1> HIDE DEF S
<1>3. RecordsByBlock \in Seq(Entries) /\ Lists(RecordsByBlock, entries, S)
  <2>1. RecordsByBlock = ByBlock(S)
    BY DEF RecordsByBlock, S
  <2>2. QED
    BY <1>1, <1>2, <2>1, ByBlockElements
<1>4. \A k \in DOMAIN RecordsByBlock : /\ RecordsByBlock[k].name \in Names
                                       /\ RecordsByBlock[k].content \in Small
  <2>1. \A i \in S : entries[i].name \in Names /\ entries[i].content \in Small
    BY <1>1 DEF Entries, IsPacked
  <2>2. QED
    BY <1>3, <2>1 DEF Lists
<1>5. /\ records \in Seq(Records) /\ DOMAIN records = DOMAIN RecordsByBlock
      /\ \A k \in DOMAIN RecordsByBlock : records[k].name = RecordsByBlock[k].name
  BY <1>3, <1>4 DEF Renumbered, Records
<1> HIDE DEF records
<1>6. <<>> \in Seq(Entries) /\ DOMAIN <<>> = {}
  OBVIOUS
<1>7. /\ Sound(PackPlan)
      /\ \A k \in DOMAIN records : IsNamed(PackPlan.place, records[k].name)
  <2>1. NextPackedGeneration \in Nat
    BY NextType
  <2>2. QED
    BY <1>5, <1>6, <2>1, PlanSound DEF PackPlan, records
<1>8. QED
  BY <1>1, <1>3, <1>5, <1>7 DEF Lists, S
-----------------------------------------------------------------------------
(* The allocator, and what else a step reads.                              *)

\* What a search finds is blank and inside the area that it searches.
LEMMA FitsBlank ==
    ASSUME NEW lo \in Nat, NEW hi \in Nat, NEW count \in Nat, lo >= FirstData,
           hi <= EndData, Fits(lo, hi, count) # {}, NEW s, s = Least(Fits(lo, hi, count))
    PROVE  /\ s \in FirstData .. EndData
           /\ \A b \in s .. s + count - 1 : b \in DataBlocks /\ data[b] = Blank
<1> DEFINE S == Fits(lo, hi, count)
<1>1. S \in SUBSET (lo .. hi - count) /\ S \in SUBSET Nat
  BY DEF Fits
<1>2. s \in S
  <2>1. S # {} /\ s = Least(S)
    OBVIOUS
  <2> HIDE DEF S
  <2>2. QED
    BY <1>1, <2>1, LeastExists
<1>3. \A b \in s .. s + count - 1 : b \in DataBlocks /\ data[b] = Blank
  BY <1>2 DEF Fits, Unreferenced
<1>4. s \in lo .. hi - count
  BY <1>1, <1>2
<1>5. QED
  BY <1>3, <1>4, PackedConstantsAssumption

\* A search of the whole area ends in blank blocks of it (findBlankExtent).
LEMMA FoundBlank ==
    ASSUME NEW count \in Nat, nextFree \in FirstData .. EndData, NEW s \in Found(count)
    PROVE  /\ s \in FirstData .. EndData
           /\ \A b \in s .. s + count - 1 : b \in DataBlocks /\ data[b] = Blank
<1>1. /\ FirstData \in Nat /\ EndData \in Nat
      /\ Cursor \in Nat /\ Cursor >= FirstData /\ Wrap \in Nat /\ Wrap <= EndData
  BY PackedConstantsAssumption DEF Cursor, Wrap
<1>2. CASE Fits(Cursor, EndData, count) # {}
  BY <1>1, <1>2, FitsBlank DEF Found
<1>3. CASE Fits(Cursor, EndData, count) = {} /\ Fits(FirstData, Wrap, count) # {}
  BY <1>1, <1>3, FitsBlank DEF Found
<1>4. QED
  BY <1>2, <1>3 DEF Found

\* So does one in front of a block (findBlankExtentBefore).
LEMMA FoundBeforeBlank ==
    ASSUME NEW count \in Nat, NEW limit \in DataBlocks, NEW s \in FoundBefore(limit, count)
    PROVE  /\ s \in FirstData .. EndData
           /\ \A b \in s .. s + count - 1 : b \in DataBlocks /\ data[b] = Blank
<1>1. FirstData \in Nat /\ limit \in Nat /\ limit <= EndData
  BY PackedConstantsAssumption DEF DataBlocks
<1>2. Fits(FirstData, limit, count) # {} /\ s = Least(Fits(FirstData, limit, count))
  BY DEF FoundBefore
<1>3. QED
  BY <1>1, <1>2, FitsBlank

\* A mount starts to search behind the last block that is used.
LEMMA FirstFree ==
    ASSUME NEW m \in Seq(Entries), Readable(m, data)
    PROVE  Greatest({FirstData} \cup {b + 1 : b \in Used(m)}) \in FirstData .. EndData
<1> DEFINE S == {FirstData} \cup {b + 1 : b \in Used(m)}
<1>1. FirstData \in Nat /\ EndData \in Nat /\ FirstData < EndData
  BY PackedConstantsAssumption
<1>2. \A b \in Used(m) : b \in DataBlocks
  BY UsedSolid
<1>3. S \in SUBSET (FirstData .. EndData) /\ S # {}
  BY <1>1, <1>2 DEF DataBlocks
<1>4. S \in SUBSET (0 .. EndData)
  BY <1>1, <1>3
<1> HIDE DEF S
<1>5. Greatest(S) \in S
  BY <1>1, <1>3, <1>4, GreatestExists
<1>6. QED
  BY <1>3, <1>5 DEF S

\* A manifest without one of its entries.
LEMMA Removed ==
    ASSUME NEW m \in Manifests, NEW i \in DOMAIN m
    PROVE  /\ RemoveAt(m, i) \in Manifests
           /\ Lists(RemoveAt(m, i), m, DOMAIN m \ {i})
           /\ \A d : Readable(m, d) => Readable(RemoveAt(m, i), d)
<1> DEFINE r == RemoveAt(m, i)
           Was(k) == IF k < i THEN k ELSE k + 1
<1>1. m \in Seq(Entries) /\ Distinct(m) /\ Apart(m)
  BY DEF Manifests
<1>2. /\ r \in Seq(Entries) /\ Len(m) \in Nat
      /\ DOMAIN m = 1 .. Len(m) /\ DOMAIN r = 1 .. Len(m) - 1
      /\ \A k \in DOMAIN r : r[k] = m[Was(k)]
  <2> DEFINE a == SubSeq(m, 1, i - 1)
             c == SubSeq(m, i + 1, Len(m))
  <2>1. i \in 1 .. Len(m) /\ Len(m) \in Nat /\ DOMAIN m = 1 .. Len(m)
    BY <1>1
  <2>2. /\ a \in Seq(Entries) /\ Len(a) = i - 1
        /\ \A k \in 1 .. i - 1 : a[k] = m[k]
    BY <1>1, <2>1
  <2>3. /\ c \in Seq(Entries) /\ Len(c) = Len(m) - i
        /\ \A k \in 1 .. Len(m) - i : c[k] = m[k + i]
    BY <1>1, <2>1
  <2>4. r = a \o c
    BY DEF RemoveAt
  <2> HIDE DEF a, c, r
  <2>5. /\ r \in Seq(Entries) /\ DOMAIN r = 1 .. Len(a) + Len(c)
        /\ \A k \in 1 .. Len(a) : r[k] = a[k]
        /\ \A k \in 1 .. Len(c) : r[Len(a) + k] = c[k]
    <3>1. a \in Seq(Entries) /\ c \in Seq(Entries)
      BY <2>2, <2>3
    <3>2. QED
      BY <2>4, <3>1
  <2>6. DOMAIN r = 1 .. Len(m) - 1
    BY <2>1, <2>2, <2>3, <2>5
  <2>7. ASSUME NEW k \in DOMAIN r PROVE r[k] = m[Was(k)]
    <3>1. k \in 1 .. Len(m) - 1
      BY <2>6
    <3>2. CASE k < i
      <4>1. k \in 1 .. i - 1
        BY <2>1, <3>1, <3>2
      <4>2. QED
        BY <2>2, <2>5, <3>2, <4>1
    <3>3. CASE ~(k < i)
      <4> DEFINE l == k - (i - 1)
      <4>1. l \in 1 .. Len(m) - i /\ Len(a) + l = k /\ l + i = k + 1
        BY <2>1, <2>2, <3>1, <3>3
      <4> HIDE DEF l
      <4>2. r[Len(a) + l] = c[l] /\ c[l] = m[l + i]
        BY <2>3, <2>5, <4>1
      <4>3. QED
        BY <3>3, <4>1, <4>2
    <3>4. QED
      BY <3>2, <3>3
  <2>8. QED
    BY <2>1, <2>5, <2>6, <2>7
<1> HIDE DEF r
<1>3. \A k \in DOMAIN r : Was(k) \in DOMAIN m /\ Was(k) # i
  BY <1>2
<1>4. ASSUME NEW j \in DOMAIN m, j # i PROVE \E k \in DOMAIN r : j = Was(k)
  <2>1. CASE j < i
    <3>1. j \in DOMAIN r /\ Was(j) = j
      BY <1>1, <1>2, <2>1
    <3>2. QED
      BY <3>1
  <2>2. CASE ~(j < i)
    <3>1. j - 1 \in DOMAIN r /\ Was(j - 1) = j
      BY <1>1, <1>2, <1>4, <2>2
    <3>2. QED
      BY <3>1
  <2>3. QED
    BY <2>1, <2>2
<1>5. \A k, l \in DOMAIN r : k # l => Was(k) # Was(l)
  BY <1>2
<1> HIDE DEF Was
<1>6. Distinct(r)
  BY <1>1, <1>2, <1>3, <1>5 DEF Distinct
<1>7. Apart(r)
  BY <1>1, <1>2, <1>3, <1>5 DEF Apart
<1>8. ASSUME NEW d, Readable(m, d) PROVE Readable(r, d)
  BY <1>2, <1>3, <1>8 DEF Readable
<1>9. Lists(r, m, DOMAIN m \ {i})
  BY <1>2, <1>3, <1>4, Zenon DEF Lists
<1>10. QED
  BY <1>2, <1>6, <1>7, <1>8, <1>9 DEF Manifests, r

\* No entries: what a mount has before it is opened.
LEMMA NoEntries ==
    /\ <<>> \in Manifests
    /\ \A d : Readable(<<>>, d)
<1>1. <<>> \in Seq(Entries) /\ DOMAIN <<>> = {}
  OBVIOUS
<1>2. QED
  BY <1>1 DEF Manifests, Distinct, Apart, Readable

\* The packed blocks are used, and only by packed entries.
LEMMA PackedBlocksUsed ==
    ASSUME entries \in Manifests, Readable(entries, data)
    PROVE  /\ PackedBlocks(entries) \subseteq Used(entries)
           /\ PackedBlocks(entries) \subseteq DataBlocks
           /\ \A i \in DOMAIN entries : Span(entries[i]) \cap PackedBlocks(entries) # {}
                  => i \in PackedIn(entries)
<1>1. /\ entries \in Seq(Entries) /\ Apart(entries)
      /\ \A i \in DOMAIN entries : entries[i] \in Entries
  BY DEF Manifests
<1>2. ASSUME NEW i \in PackedIn(entries)
      PROVE  i \in DOMAIN entries /\ IsPacked(entries[i]) /\ Span(entries[i]) = {entries[i].block}
  BY <1>1, SpanOf DEF PackedIn
<1>3. PackedBlocks(entries) \subseteq Used(entries)
  BY <1>2 DEF PackedBlocks, Used
<1>4. PackedBlocks(entries) \subseteq DataBlocks
  BY <1>1, <1>3, UsedSolid
<1>5. ASSUME NEW i \in DOMAIN entries, NEW b, b \in Span(entries[i]),
             b \in PackedBlocks(entries)
      PROVE  i \in PackedIn(entries)
  <2>1. PICK j \in PackedIn(entries) : b = entries[j].block
    BY <1>5 DEF PackedBlocks
  <2>2. b \in Span(entries[j]) /\ j \in DOMAIN entries
    BY <1>2, <2>1
  <2>3. CASE i = j
    BY <2>1, <2>3
  <2>4. CASE i # j
    BY <1>1, <1>5, <2>2, <2>4 DEF Apart, PackedIn
  <2>5. QED
    BY <2>3, <2>4
<1>6. QED
  BY <1>3, <1>4, <1>5
-----------------------------------------------------------------------------
(* What steps have in common.                                              *)

\* The job of no operation.
LEMMA NoJobTyped ==
    /\ NoJob \in Jobs /\ NoJob.put = NoPlan /\ NoJob.move = NoPlan
    /\ NoJob.task = "none" /\ NoJob.stage = "none" /\ Sound(NoPlan)
<1>1. /\ NoPlan \in Plans /\ Sound(NoPlan)
  BY NoPlanSound DEF Sound
<1>2. FirstData \in FirstData .. EndData /\ {} \in SUBSET DataBlocks
  BY PackedConstantsAssumption
<1> HIDE DEF NoPlan
<1>3. QED
  BY <1>1, <1>2, NoEntries DEF NoJob, Jobs

\* Between the steps that write, the mount agrees with the newest superblock.
Settled ==
    /\ sb \in Superblocks /\ data \in Areas /\ entries \in Manifests
    /\ generation \in Nat /\ active \in {0, 1}
    /\ \A s \in Valid : Readable(sb[s].man, data)
    /\ active \in Valid /\ sb[active].man = entries

\* While no changed entries wait for their commit, that is so.
LEMMA SettledNow ==
    ASSUME Inv, Mounted, Committed = entries
    PROVE  Settled
  BY DEF Inv, Types, Usable, BothManifestsResolve, Settled

\* A step that writes nothing keeps it.
LEMMA SettledKept ==
    ASSUME Settled, UNCHANGED <<device, memory>>
    PROVE  Settled'
  BY DEF Settled, device, memory, Valid

\* A step that ends where nothing is being written.
LEMMA Quiet ==
    ASSUME Settled', nextFree' \in FirstData .. EndData,
           pc' \in {"idle", "search", "collect", "pack", "compact"},
           job' \in Jobs, Sound(job'.put), Sound(job'.move),
           pc' = "search" => job'.stage = "final"
    PROVE  Inv'
<1>1. Types'
  BY DEF Settled, Types
<1>2. Committed' = entries'
  BY DEF Committed
<1>3. Usable'
  BY <1>2 DEF Settled, Usable, BothManifestsResolve
<1>4. Placed'
  BY DEF Placed
<1>5. QED
  BY <1>1, <1>3, <1>4 DEF Inv

\* A step that ends an operation.
LEMMA Returning ==
    ASSUME Settled', nextFree' \in FirstData .. EndData, Return
    PROVE  Inv'
  BY Quiet, NoJobTyped DEF Return

\* A step that ends the mount.
LEMMA Forgetting ==
    ASSUME Forget, sb' \in Superblocks, data' \in Areas, Valid' # {},
           \A s \in Valid' : Readable(sb'[s].man, data')
    PROVE  Inv'
<1>1. Types'
  BY NoJobTyped, NoEntries, PackedConstantsAssumption DEF Forget, Types
<1>2. Readable(entries', data')
  BY NoEntries DEF Forget
<1>3. Usable'
  BY <1>2 DEF Forget, Usable, BothManifestsResolve, Mounted
<1>4. Placed'
  BY DEF Forget, Placed
<1>5. QED
  BY <1>1, <1>3, <1>4 DEF Inv

\* As long as blocks that are neither blank nor torn are left alone, all
\* manifests can be read.
LEMMA SolidKept ==
    ASSUME Types, Usable, NEW d2,
           \A b \in DataBlocks : data[b] \notin {Blank, Torn} => d2[b] = data[b]
    PROVE  /\ \A s \in Valid : Readable(sb[s].man, d2)
           /\ Readable(entries, d2)
<1>1. ASSUME NEW m \in Seq(Entries), Readable(m, data) PROVE Readable(m, d2)
  <2>1. \A b \in Used(m) : d2[b] = data[b]
    BY <1>1, UsedSolid
  <2>2. QED
    BY <1>1, <2>1, ReadableKept
<1>2. /\ entries \in Seq(Entries) /\ Readable(entries, data)
      /\ \A s \in Valid : sb[s].man \in Seq(Entries) /\ Readable(sb[s].man, data)
  BY DEF Types, Usable, BothManifestsResolve, Superblocks, Manifests, Valid
<1>3. QED
  BY <1>1, <1>2

\* Whatever a commit leaves of the inactive superblock, the manifests that
\* are valid can be read, and the active one is as it was.
LEMMA RewritesKept ==
    ASSUME Types, Usable, NEW q \in Rewrites
    PROVE  /\ q \in Superblocks /\ q[active] = sb[active]
           /\ \A s \in {0, 1} : q[s].ok => Readable(q[s].man, data)
<1>1. /\ Image(generation + 1, entries) \in [ok : BOOLEAN, gen : Nat, man : Manifests]
      /\ Image(generation + 1, entries).man = entries
      /\ Invalid \in [ok : BOOLEAN, gen : Nat, man : Manifests] /\ ~Invalid.ok
  BY NoEntries DEF Types, Image, Invalid
<1>2. /\ sb \in Superblocks /\ active \in {0, 1} /\ Readable(entries, data)
      /\ \A s \in {0, 1} : sb[s].ok => Readable(sb[s].man, data)
  BY DEF Types, Usable, BothManifestsResolve, Valid
<1> HIDE DEF Image, Invalid
<1>3. QED
  BY <1>1, <1>2 DEF Rewrites, Superblocks

\* An erase takes nothing that a valid manifest uses.
LEMMA ErasedKept ==
    ASSUME Inv, pc = "erase", NEW d2,
           \A b \in DataBlocks \ job.victims : d2[b] = data[b]
    PROVE  \A s \in Valid : Readable(sb[s].man, d2)
<1>1. /\ entries \in Seq(Entries) /\ Readable(entries, data)
      /\ job.victims \cap Used(entries) = {}
      /\ \A s \in Valid : sb[s].man = entries
  BY DEF Inv, Types, Usable, Placed, Manifests
<1>2. \A b \in Used(entries) : d2[b] = data[b]
  BY <1>1, UsedSolid
<1>3. Readable(entries, d2)
  BY <1>1, <1>2, ReadableKept
<1>4. QED
  BY <1>1, <1>3

\* What comes after a collection.
LEMMA AfterCollectJob ==
    ASSUME Types, AfterCollect
    PROVE  /\ pc' \in {"idle", "search", "pack"} /\ job' \in Jobs
           /\ Sound(job'.put) /\ Sound(job'.move)
           /\ pc' = "search" => job'.stage = "final"
<1>1. job \in Jobs /\ Sound(job.put) /\ Sound(job.move)
  BY DEF Types
<1>2. CASE job.task = "gc" /\ Return
  BY <1>2, NoJobTyped DEF Return
<1>3. CASE /\ pc' = "search"
           /\ job' = [job EXCEPT !.round = 2, !.stage = "final", !.victims = {}]
  <2>1. job' \in Jobs
    <3> DEFINE a == [job EXCEPT !.round = 2]
               c == [a EXCEPT !.stage = "final"]
    <3>1. a \in Jobs
      BY <1>1 DEF Jobs
    <3> HIDE DEF a
    <3>2. c \in Jobs
      BY <3>1 DEF Jobs
    <3> HIDE DEF c
    <3>3. [c EXCEPT !.victims = {}] \in Jobs
      BY <3>2 DEF Jobs
    <3> USE DEF a, c
    <3>4. QED
      BY <1>3, <3>3
  <2>2. job'.put = job.put /\ job'.move = job.move /\ job'.stage = "final"
    BY <1>1, <1>3 DEF Jobs
  <2>3. QED
    BY <1>1, <1>3, <2>1, <2>2
<1>4. CASE pc' = "pack" /\ job' = [job EXCEPT !.stage = "none", !.victims = {}]
  BY <1>1, <1>4 DEF Jobs
<1>5. QED
  BY <1>2, <1>3, <1>4 DEF AfterCollect
-----------------------------------------------------------------------------
(* Every action keeps the invariant.                                       *)

\* A mount reads a manifest that can be read.
LEMMA OpenKeeps ==
    ASSUME Inv, Open
    PROVE  Inv'
<1>1. PICK s \in {0, 1} :
          /\ IsNewest(s)
          /\ entries' = sb[s].man /\ generation' = sb[s].gen /\ active' = s
          /\ nextFree' = Greatest({FirstData} \cup {b + 1 : b \in Used(sb[s].man)})
  BY DEF Open
<1>2. pc' = "idle" /\ sb' = sb /\ data' = data /\ job' = job
  BY DEF Open, device
<1>3. /\ sb \in Superblocks /\ data \in Areas /\ job \in Jobs
      /\ Sound(job.put) /\ Sound(job.move)
      /\ \A t \in Valid : Readable(sb[t].man, data)
  BY DEF Inv, Types, Usable, BothManifestsResolve
<1>4. s \in Valid /\ sb[s].man \in Manifests /\ sb[s].gen \in Nat
  BY <1>1, <1>3 DEF IsNewest, Superblocks
<1>5. nextFree' \in FirstData .. EndData
  BY <1>1, <1>3, <1>4, FirstFree DEF Manifests
<1>6. Settled'
  BY <1>1, <1>2, <1>3, <1>4 DEF Settled, Valid
<1>7. QED
  BY <1>2, <1>3, <1>5, <1>6, Quiet

\* Closing forgets the memory and leaves the device alone.
LEMMA CloseKeeps ==
    ASSUME Inv, Close
    PROVE  Inv'
<1>1. Forget /\ sb' = sb /\ data' = data
  BY DEF Close, device
<1>2. /\ sb \in Superblocks /\ data \in Areas /\ Valid # {}
      /\ \A s \in Valid : Readable(sb[s].man, data)
  BY DEF Inv, Types, Usable, BothManifestsResolve
<1>3. QED
  BY <1>1, <1>2, Forgetting DEF Valid

\* What Types says of the job.
LEMMA JobTyped ==
    ASSUME Inv
    PROVE  /\ job \in Jobs /\ Sound(job.put) /\ Sound(job.move)
           /\ nextFree \in FirstData .. EndData
           /\ job.stage \in {"none", "final", "collect", "move", "sync"}
           /\ job.victims \in SUBSET DataBlocks
           /\ job.dest \in FirstData .. EndData
  BY DEF Inv, Types, Jobs

\* Removing a file leaves a manifest that can be read, and is not committed yet.
LEMMA RemoveFileKeeps ==
    ASSUME Inv, NEW n \in Names, RemoveFile(n)
    PROVE  Inv'
<1> DEFINE l == Find(entries, n)
<1>1. /\ pc = "idle" /\ IsNamed(entries, n)
      /\ entries' = RemoveAt(entries, l) /\ pc' = "commit"
      /\ job' = [NoJob EXCEPT !.task = "remove", !.stage = "final", !.old = entries]
      /\ sb' = sb /\ data' = data /\ generation' = generation /\ active' = active
      /\ nextFree' = nextFree
  BY DEF RemoveFile, CanStart, device
<1>2. Settled /\ entries \in Manifests /\ Readable(entries, data)
  BY <1>1, SettledNow DEF Inv, Mounted, Committed, Types, Usable
<1>3. l \in DOMAIN entries
  BY <1>1, <1>2, FoundIs DEF Manifests
<1> HIDE DEF l
<1>4. entries' \in Manifests /\ Readable(entries', data')
  BY <1>1, <1>2, <1>3, Removed
<1>5. /\ job' \in Jobs /\ Sound(job'.put) /\ Sound(job'.move)
      /\ job'.stage = "final" /\ job'.old = entries
  <2>1. /\ job' = [NoJob EXCEPT !.task = "remove", !.stage = "final", !.old = entries]
        /\ NoJob \in Jobs /\ entries \in Manifests
    BY <1>1, <1>2, NoJobTyped
  <2>2. job' = [task |-> "remove", stage |-> "final", round |-> 1, attempt |-> 1,
                put |-> NoPlan, move |-> NoPlan, dest |-> FirstData,
                victims |-> {}, old |-> entries]
    BY <2>1 DEF NoJob
  <2>3. job' \in Jobs
    <3>1. /\ NoPlan \in Plans /\ FirstData \in FirstData .. EndData
          /\ {} \in SUBSET DataBlocks
      BY NoJobTyped, PackedConstantsAssumption DEF Sound
    <3> HIDE DEF NoPlan
    <3>2. QED
      BY <2>1, <2>2, <3>1 DEF Jobs
  <2>4. QED
    BY <2>2, <2>3, NoJobTyped
<1>6. Types'
  BY <1>1, <1>2, <1>4, <1>5, JobTyped DEF Types, Settled
<1>7. Committed' = entries
  BY <1>1, <1>5 DEF Committed
<1>8. Usable'
  BY <1>1, <1>2, <1>4, <1>7 DEF Usable, BothManifestsResolve, Settled, Valid
<1>9. Placed'
  BY <1>1, <1>5 DEF Placed
<1>10. QED
  BY <1>6, <1>8, <1>9 DEF Inv

\* A put plans soundly, whatever it carries from the blocks it rewrites.
LEMMA PutFilesKeeps ==
    ASSUME Inv, NEW batch \in Batches, PutFiles(batch)
    PROVE  Inv'
<1>1. /\ pc = "idle" /\ pc' = "search" /\ UNCHANGED <<device, memory, nextFree>>
      /\ job' = [NoJob EXCEPT !.task = "put", !.stage = "final", !.put = PutPlan(batch)]
  BY DEF PutFiles, CanStart
<1>2. Settled /\ entries \in Seq(Entries)
  BY <1>1, SettledNow DEF Inv, Mounted, Committed, Types, Manifests
<1>3. Sound(PutPlan(batch)) /\ PutPlan(batch) \in Plans
  BY <1>2, PutPlanSound DEF Sound
<1>4. /\ job' \in Jobs /\ Sound(job'.put) /\ Sound(job'.move) /\ job'.stage = "final"
  <2>1. job' = [task |-> "put", stage |-> "final", round |-> 1, attempt |-> 1,
                put |-> PutPlan(batch), move |-> NoPlan, dest |-> FirstData,
                victims |-> {}, old |-> <<>>]
    BY <1>1 DEF NoJob
  <2>2. /\ NoPlan \in Plans /\ FirstData \in FirstData .. EndData
        /\ {} \in SUBSET DataBlocks /\ <<>> \in Manifests /\ Sound(NoPlan)
    BY NoJobTyped, NoEntries, PackedConstantsAssumption DEF Sound
  <2> HIDE DEF NoPlan
  <2>3. QED
    BY <1>3, <2>1, <2>2 DEF Jobs
<1>5. QED
  BY <1>1, <1>2, <1>4, SettledKept, Quiet, JobTyped

\* A collection or a compaction starts without a plan.
LEMMA CollectKeeps ==
    ASSUME Inv, NEW task \in {"gc", "compact"}, Collect(task)
    PROVE  Inv'
<1>1. /\ pc = "idle" /\ pc' = "collect" /\ UNCHANGED <<device, memory, nextFree>>
      /\ job' = [NoJob EXCEPT !.task = task]
  BY DEF Collect, CanStart
<1>2. Settled
  BY <1>1, SettledNow DEF Inv, Mounted, Committed
<1>3. job' \in Jobs /\ job'.put = NoPlan /\ job'.move = NoPlan
  <2>1. NoJob \in Jobs /\ NoJob.put = NoPlan /\ NoJob.move = NoPlan
    BY NoJobTyped
  <2> HIDE DEF NoJob
  <2>2. QED
    BY <1>1, <2>1 DEF Jobs
<1>4. QED
  BY <1>1, <1>2, <1>3, SettledKept, Quiet, JobTyped, NoJobTyped

\* A put goes to blank blocks.
LEMMA SearchFindsKeeps ==
    ASSUME Inv, SearchFinds
    PROVE  Inv'
<1>1. PICK s \in Found(Len(job.put.image)) : nextFree' = s /\ job' = [job EXCEPT !.dest = s]
  BY DEF SearchFinds
<1>2. /\ pc = "search" /\ pc' = "program" /\ job.stage = "final"
      /\ UNCHANGED <<device, memory>>
  BY DEF SearchFinds, Inv, Types
<1>3. Len(job.put.image) \in Nat
  BY JobTyped DEF Sound, Plans
<1>4. /\ s \in FirstData .. EndData
      /\ \A b \in s .. s + Len(job.put.image) - 1 : b \in DataBlocks /\ data[b] = Blank
  BY <1>3, FoundBlank, JobTyped
<1>5. /\ job' \in Jobs /\ job'.put = job.put /\ job'.move = job.move
      /\ job'.stage = "final" /\ job'.dest = s
  <2>1. job' \in Jobs
    BY <1>1, <1>4, JobTyped DEF Jobs
  <2>2. QED
    BY <1>1, <1>2, <2>1, JobTyped DEF Jobs
<1>6. Settled
  BY <1>2, SettledNow DEF Mounted, Committed
<1>7. Settled'
  BY <1>2, <1>6, SettledKept
<1>8. Types'
  BY <1>1, <1>2, <1>4, <1>5, <1>7, JobTyped DEF Types, Settled
<1>9. Committed' = entries'
  BY <1>2 DEF Committed
<1>10. Usable'
  BY <1>7, <1>9 DEF Usable, BothManifestsResolve, Settled
<1>11. Placed'
  <2>1. Destination' = s .. s + Len(job.put.image) - 1
    BY <1>5 DEF Destination, Current
  <2>2. data' = data
    BY <1>2 DEF device
  <2>3. QED
    BY <1>2, <1>4, <1>5, <2>1, <2>2 DEF Placed
<1>12. QED
  BY <1>8, <1>10, <1>11 DEF Inv

\* A search without a result goes on to a collection, to packing, or ends the put.
LEMMA SearchFailsKeeps ==
    ASSUME Inv, SearchFails
    PROVE  Inv'
<1>1. /\ pc = "search" /\ UNCHANGED <<device, memory, nextFree>>
      /\ (pc' \in {"collect", "pack"} /\ job' = job) \/ Return
  BY DEF SearchFails
<1>2. Settled'
  BY <1>1, SettledNow, SettledKept DEF Mounted, Committed
<1>3. QED
  BY <1>1, <1>2, JobTyped, Quiet, Returning

\* A collection takes blocks that no entry uses.
LEMMA CollectScanKeeps ==
    ASSUME Inv, CollectScan
    PROVE  Inv'
<1> DEFINE garbage == {b \in Unreferenced : data[b] # Blank}
<1>1. /\ pc = "collect" /\ UNCHANGED <<device, memory, nextFree>>
      /\ \/ AfterCollect
         \/ pc' = "commit" /\ job' = [job EXCEPT !.stage = "collect", !.victims = garbage]
  BY DEF CollectScan
<1>2. Settled
  BY <1>1, SettledNow DEF Mounted, Committed
<1>3. Settled'
  BY <1>1, <1>2, SettledKept
<1>4. CASE AfterCollect
  <2>1. /\ pc' \in {"idle", "search", "pack"} /\ job' \in Jobs
        /\ Sound(job'.put) /\ Sound(job'.move)
        /\ pc' = "search" => job'.stage = "final"
    BY <1>4, AfterCollectJob DEF Inv
  <2>2. QED
    BY <1>1, <1>3, <2>1, JobTyped, Quiet
<1>5. CASE pc' = "commit" /\ job' = [job EXCEPT !.stage = "collect", !.victims = garbage]
  <2>1. garbage \in SUBSET DataBlocks /\ garbage \cap Used(entries) = {}
    BY DEF Unreferenced
  <2> HIDE DEF garbage
  <2>2. job' \in Jobs
    <3> DEFINE a == [job EXCEPT !.stage = "collect"]
    <3>1. a \in Jobs
      BY JobTyped DEF Jobs
    <3> HIDE DEF a
    <3>2. [a EXCEPT !.victims = garbage] \in Jobs
      BY <2>1, <3>1 DEF Jobs
    <3> USE DEF a
    <3>3. QED
      BY <1>5, <3>2
  <2>3. /\ job'.put = job.put /\ job'.move = job.move
        /\ job'.stage = "collect" /\ job'.victims = garbage
    BY <1>5, JobTyped DEF Jobs
  <2>4. Types'
    BY <1>1, <1>3, <1>5, <2>2, <2>3, JobTyped DEF Types, Settled
  <2>5. Committed' = entries'
    BY <2>3 DEF Committed
  <2>6. Usable'
    BY <1>3, <2>5 DEF Usable, BothManifestsResolve, Settled
  <2>7. entries' = entries
    BY <1>1 DEF memory
  <2>8. Placed'
    BY <1>5, <2>1, <2>3, <2>7 DEF Placed
  <2>9. QED
    BY <2>4, <2>6, <2>8 DEF Inv
<1>6. QED
  BY <1>1, <1>4, <1>5

\* A relocation that goes to blank blocks, and takes with it every entry of
\* the blocks that it will erase.
LEMMA Moving ==
    ASSUME Inv, pc \in {"pack", "compact"}, UNCHANGED <<device, memory, nextFree>>,
           NEW plan, Sound(plan), NEW s \in FirstData .. EndData,
           \A b \in s .. s + Len(plan.image) - 1 : b \in DataBlocks /\ data[b] = Blank,
           NEW V \in SUBSET DataBlocks, V \subseteq Used(entries),
           \A i \in DOMAIN entries :
               Span(entries[i]) \cap V # {} => IsNamed(plan.place, entries[i].name),
           job' = [job EXCEPT !.stage = "move", !.move = plan, !.dest = s, !.victims = V],
           pc' = "program"
    PROVE  Inv'
<1>1. Settled'
  BY SettledNow, SettledKept DEF Mounted, Committed
<1>2. plan \in Plans
  BY DEF Sound
<1>3. job' \in Jobs
  <2> DEFINE a == [job EXCEPT !.stage = "move"]
             c == [a EXCEPT !.move = plan]
             e == [c EXCEPT !.dest = s]
  <2>1. a \in Jobs
    BY JobTyped DEF Jobs
  <2> HIDE DEF a
  <2>2. c \in Jobs
    BY <1>2, <2>1 DEF Jobs
  <2> HIDE DEF c
  <2>3. e \in Jobs
    BY <2>2 DEF Jobs
  <2> HIDE DEF e
  <2>4. [e EXCEPT !.victims = V] \in Jobs
    BY <2>3 DEF Jobs
  <2> USE DEF a, c, e
  <2>5. QED
    BY <2>4
<1>4. /\ job'.put = job.put /\ job'.move = plan /\ job'.stage = "move"
      /\ job'.dest = s /\ job'.victims = V
  BY JobTyped DEF Jobs
<1>5. Types'
  BY <1>1, <1>3, <1>4, JobTyped DEF Types, Settled
<1>6. Committed' = entries'
  BY DEF Committed
<1>7. Usable'
  BY <1>1, <1>6 DEF Usable, BothManifestsResolve, Settled
<1>8. Placed'
  <2>1. Destination' = s .. s + Len(plan.image) - 1
    BY <1>4 DEF Destination, Current
  <2>2. data' = data /\ entries' = entries
    BY DEF device, memory
  <2>3. QED
    BY <1>4, <2>1, <2>2 DEF Placed, IsNamed
<1>9. QED
  BY <1>5, <1>7, <1>8 DEF Inv

\* What the two compactions know of the entries.
LEMMA EntriesTyped ==
    ASSUME Inv
    PROVE  /\ entries \in Manifests /\ entries \in Seq(Entries)
           /\ Readable(entries, data)
           /\ \A i \in DOMAIN entries : entries[i] \in Entries
  BY DEF Inv, Types, Usable, Manifests

\* Packing moves every entry of the blocks that it will erase.
LEMMA PackMoveKeeps ==
    ASSUME Inv, PackMove
    PROVE  Inv'
<1> DEFINE V == PackedBlocks(entries)
<1>1. PICK s \in PackDestination :
          job' = [job EXCEPT !.stage = "move", !.move = PackPlan, !.dest = s, !.victims = V]
  BY DEF PackMove
<1>2. /\ pc = "pack" /\ pc' = "program" /\ UNCHANGED <<device, memory, nextFree>>
  BY DEF PackMove
<1>3. /\ V \subseteq Used(entries) /\ V \subseteq DataBlocks
      /\ \A i \in DOMAIN entries :
             Span(entries[i]) \cap V # {} => i \in PackedIn(entries)
  BY EntriesTyped, PackedBlocksUsed
<1> HIDE DEF V
<1>4. /\ Sound(PackPlan)
      /\ \A i \in PackedIn(entries) : IsNamed(PackPlan.place, entries[i].name)
  BY EntriesTyped, PackPlanSound
<1>5. Len(PackPlan.image) \in Nat
  BY <1>4 DEF Sound, Plans
<1>6. /\ s \in FirstData .. EndData
      /\ \A b \in s .. s + Len(PackPlan.image) - 1 : b \in DataBlocks /\ data[b] = Blank
  <2>1. V # {} /\ \/ s \in Found(Len(PackPlan.image))
                  \/ s \in FoundBefore(Least(V), Len(PackPlan.image))
    BY <1>1 DEF PackDestination, V
  <2>2. Least(V) \in DataBlocks
    <3>1. V \in SUBSET Nat
      BY <1>3, PackedConstantsAssumption DEF DataBlocks
    <3>2. QED
      BY <1>3, <2>1, <3>1, LeastExists
  <2>3. QED
    BY <1>5, <2>1, <2>2, FoundBlank, FoundBeforeBlank, JobTyped
<1>7. QED
  BY <1>1, <1>2, <1>3, <1>4, <1>6, Moving

\* Without room, nothing is packed.
LEMMA PackNotKeeps ==
    ASSUME Inv, PackNot
    PROVE  Inv'
<1>1. pc = "pack" /\ pc' = "compact" /\ UNCHANGED <<device, memory, nextFree, job>>
  BY DEF PackNot
<1>2. Settled'
  BY <1>1, SettledNow, SettledKept DEF Mounted, Committed
<1>3. QED
  BY <1>1, <1>2, JobTyped, Quiet

\* The plan for a single large file.
LEMMA PlanOfFile ==
    ASSUME NEW f
    PROVE  Plan(0, <<>>, <<f>>) = WithFile(NoPlan, f)
<1>1. BuildPlan(<<>>) = <<>>
  <2> DEFINE F(g) == [n \in 0 .. Len(<<>>) |->
                         IF n = 0 THEN <<>> ELSE AddTo(g[n - 1], <<>>[n])]
             h == CHOOSE g : g = F(g)
             k == [n \in 0 .. 0 |-> <<>>]
  <2>1. k = F(k)
    OBVIOUS
  <2>2. BuildPlan(<<>>) = h[Len(<<>>)]
    BY DEF BuildPlan
  <2>3. h = F(h)
    <3> HIDE DEF F, k
    <3>1. \E g : g = F(g)
      BY <2>1, Zenon
    <3>2. QED
      BY <3>1, Zenon
  <2> HIDE DEF h
  <2>4. h[0] = <<>>
    BY <2>3
  <2>5. QED
    BY <2>2, <2>4
<1> DEFINE bins == BuildPlan(<<>>)
           large == <<f>>
           Step(x, n) == IF n <= Len(bins) THEN WithBin(x, 0, bins[n])
                                           ELSE WithFile(x, large[n - Len(bins)])
           F(g) == [n \in 0 .. Len(bins) + Len(large) |->
                       IF n = 0 THEN NoPlan ELSE Step(g[n - 1], n)]
           h == CHOOSE g : g = F(g)
           k == [n \in 0 .. 1 |-> IF n = 0 THEN NoPlan ELSE WithFile(NoPlan, f)]
<1>2. Plan(0, <<>>, <<f>>) = h[Len(bins) + Len(large)]
  BY DEF Plan
<1>3. Len(bins) = 0 /\ Len(large) = 1 /\ large[1] = f
  BY <1>1
<1> HIDE DEF bins, large
<1>4. \A g : F(g) = [n \in 0 .. 1 |-> IF n = 0 THEN NoPlan ELSE WithFile(g[n - 1], large[n])]
  BY <1>3
<1> HIDE DEF F
<1>5. k = F(k)
  BY <1>3, <1>4
<1>6. h = F(h)
  <2> HIDE DEF k
  <2>1. \E g : g = F(g)
    BY <1>5, Zenon
  <2>2. QED
    BY <2>1, Zenon
<1> HIDE DEF h
<1>7. h[0] = NoPlan
  BY <1>4, <1>6
<1>8. h[1] = WithFile(h[0], f)
  BY <1>3, <1>4, <1>6
<1>9. QED
  BY <1>2, <1>3, <1>7, <1>8

\* It is as long as the file.
LEMMA FileImage ==
    ASSUME NEW f, f.content \in Large
    PROVE  Len(WithFile(NoPlan, f).image) = BlockCount[f.content]
<1> DEFINE C == BlockCount[f.content]
           parts == [k \in 1 .. C |-> Part(f.content, k - 1)]
<1>1. C \in Nat
  BY PackedConstantsAssumption
<1>2. WithFile(NoPlan, f).image = <<>> \o parts
  BY DEF WithFile, NoPlan
<1> HIDE DEF C
<1>3. QED
  BY <1>1, <1>2 DEF C

\* Moving a large file moves the only entry of the blocks that it will erase.
LEMMA CompactMoveKeeps ==
    ASSUME Inv, CompactMove
    PROVE  Inv'
<1>1. /\ pc = "compact" /\ pc' = "program" /\ UNCHANGED <<device, memory, nextFree>>
      /\ \E i \in DOMAIN entries : \E s \in Room(i) :
             job' = [job EXCEPT !.stage = "move", !.move = Plan(0, <<>>, <<entries[i]>>),
                                !.dest = s, !.victims = Span(entries[i])]
  BY DEF CompactMove
<1>2. PICK i \in DOMAIN entries : \E s \in Room(i) :
          job' = [job EXCEPT !.stage = "move", !.move = Plan(0, <<>>, <<entries[i]>>),
                             !.dest = s, !.victims = Span(entries[i])]
  BY <1>1
<1>3. PICK s \in Room(i) :
          job' = [job EXCEPT !.stage = "move", !.move = Plan(0, <<>>, <<entries[i]>>),
                             !.dest = s, !.victims = Span(entries[i])]
  BY <1>2
<1> DEFINE e == entries[i]
           plan == Plan(0, <<>>, <<e>>)
           V == Span(e)
<1>4. /\ e \in Entries /\ ~IsPacked(e) /\ s \in FoundBefore(e.block, Count(e))
  BY EntriesTyped DEF Room
<1>5. e.name \in Names /\ e.content \in Large
  BY <1>4 DEF Entries, IsPacked, Contents
<1>6. Sound(plan) /\ IsNamed(plan.place, e.name) /\ Len(plan.image) = Count(e)
  <2>1. /\ plan = WithFile(NoPlan, e)
    BY <1>5, PlanOfFile
  <2>2. Len(WithFile(NoPlan, e).image) = Count(e)
    BY <1>4, <1>5, FileImage DEF Count
  <2> HIDE DEF plan, e
  <2>3. QED
    BY <1>5, <2>1, <2>2, NoPlanSound, WithFileSound
<1>7. /\ V \subseteq Used(entries) /\ V \subseteq DataBlocks /\ e.block \in DataBlocks
      /\ Count(e) \in Nat
  BY <1>4, EntriesTyped, UsedSolid, SpanOf
<1>8. /\ s \in FirstData .. EndData
      /\ \A b \in s .. s + Count(e) - 1 : b \in DataBlocks /\ data[b] = Blank
  BY <1>4, <1>7, FoundBeforeBlank
<1>9. ASSUME NEW j \in DOMAIN entries, Span(entries[j]) \cap V # {}
      PROVE  IsNamed(plan.place, entries[j].name)
  <2>1. j = i
    BY <1>4, <1>9, EntriesTyped DEF Manifests, Apart
  <2>2. QED
    BY <1>6, <2>1
<1> HIDE DEF plan, V
<1>10. job' = [job EXCEPT !.stage = "move", !.move = plan, !.dest = s, !.victims = V]
  BY <1>3 DEF plan, V
<1> HIDE DEF e
<1>11. QED
  BY <1>1, <1>6, <1>7, <1>8, <1>9, <1>10, Moving DEF e

\* The end of a compaction goes back to the put, or ends the operation.
LEMMA CompactDoneKeeps ==
    ASSUME Inv, CompactDone
    PROVE  Inv'
<1>1. /\ pc = "compact" /\ UNCHANGED <<device, memory, nextFree>>
      /\ \/ pc' = "search" /\ job' = [job EXCEPT !.round = 3, !.stage = "final"]
         \/ Return
  BY DEF CompactDone
<1>2. Settled'
  BY <1>1, SettledNow, SettledKept DEF Mounted, Committed
<1>3. CASE Return
  BY <1>1, <1>2, <1>3, JobTyped, Returning
<1>4. CASE pc' = "search" /\ job' = [job EXCEPT !.round = 3, !.stage = "final"]
  <2>1. job' \in Jobs
    <3> DEFINE a == [job EXCEPT !.round = 3]
    <3>1. a \in Jobs
      BY JobTyped DEF Jobs
    <3> HIDE DEF a
    <3>2. [a EXCEPT !.stage = "final"] \in Jobs
      BY <3>1 DEF Jobs
    <3> USE DEF a
    <3>3. QED
      BY <1>4, <3>2
  <2>2. job'.put = job.put /\ job'.move = job.move /\ job'.stage = "final"
    BY <1>4, JobTyped DEF Jobs
  <2>3. QED
    BY <1>1, <1>2, <1>4, <2>1, <2>2, JobTyped, Quiet
<1>5. QED
  BY <1>1, <1>3, <1>4

\* What is about to be programmed, and what it takes the place of.
LEMMA CurrentTyped ==
    ASSUME Inv, pc = "program"
    PROVE  /\ Sound(Current) /\ Current.image \in Seq(Stored) /\ Current.place \in Seq(Entries)
           /\ job.dest \in Nat /\ Len(Current.image) \in Nat
           /\ \A b \in Destination : b \in DataBlocks /\ data[b] = Blank
<1>1. Sound(Current)
  BY JobTyped DEF Current
<1>2. Current.image \in Seq(Stored) /\ Current.place \in Seq(Entries)
  BY <1>1 DEF Sound, Plans
<1>3. job.dest \in Nat
  BY JobTyped, PackedConstantsAssumption
<1>4. \A b \in Destination : b \in DataBlocks /\ data[b] = Blank
  BY DEF Inv, Placed
<1>5. QED
  BY <1>1, <1>2, <1>3, <1>4

\* Programming a plan leaves every manifest that is stored as it was, and the entries
\* that were changed can be read.
LEMMA ProgramKeeps ==
    ASSUME Inv, Program
    PROVE  Inv'
<1>1. /\ pc = "program" /\ pc' = "commit" /\ data' = Programmed
      /\ entries' = Install(entries, Current.place, job.dest)
      /\ nextFree' = job.dest + Len(Current.image)
      /\ job' = [job EXCEPT !.old = entries]
      /\ sb' = sb /\ generation' = generation /\ active' = active
  BY DEF Program
<1>2. /\ Sound(Current) /\ Current.image \in Seq(Stored)
      /\ job.dest \in Nat /\ Len(Current.image) \in Nat
      /\ \A b \in Destination : b \in DataBlocks /\ data[b] = Blank
  BY <1>1, CurrentTyped
<1>3. /\ Settled /\ entries \in Manifests /\ Readable(entries, data)
      /\ job.stage \in {"final", "move"}
  BY <1>1, SettledNow, EntriesTyped DEF Inv, Types, Mounted, Committed
<1>4. Destination = job.dest .. job.dest + Len(Current.image) - 1
  BY DEF Destination
<1>5. data' = Overlaid(data, Current.image, job.dest)
  BY <1>1 DEF Programmed, Overlaid, Destination
<1>6. /\ entries' \in Manifests /\ Readable(entries', data')
      /\ \A V \in SUBSET Used(entries) :
            (\A i \in DOMAIN entries :
                Span(entries[i]) \cap V # {} => IsNamed(Current.place, entries[i].name))
            => V \cap Used(entries') = {}
  BY <1>1, <1>2, <1>3, <1>4, <1>5, InstallReadable
<1>7. data' \in Areas
  <2>1. ASSUME NEW b \in Destination
        PROVE  Current.image[b - job.dest + 1] \in Stored
    <3>1. b - job.dest + 1 \in 1 .. Len(Current.image)
      BY <1>2, <1>4
    <3>2. QED
      BY <1>2, <3>1
  <2>2. data \in Areas
    BY <1>3 DEF Settled
  <2>3. QED
    BY <1>1, <2>1, <2>2 DEF Programmed, Areas
<1>8. \A s \in Valid : Readable(sb[s].man, data')
  <2>1. \A b \in DataBlocks : data[b] \notin {Blank, Torn} => data'[b] = data[b]
    BY <1>1, <1>2 DEF Programmed
  <2>2. QED
    BY <2>1, SolidKept DEF Inv
<1>9. nextFree' \in FirstData .. EndData
  <2>1. CASE Len(Current.image) = 0
    BY <1>1, <1>2, <2>1, JobTyped
  <2>2. CASE Len(Current.image) # 0
    <3>1. job.dest + Len(Current.image) - 1 \in Destination
      BY <1>2, <1>4, <2>2
    <3>2. job.dest + Len(Current.image) - 1 \in DataBlocks
      BY <1>2, <3>1
    <3>3. QED
      BY <1>1, <1>2, <3>2, PackedConstantsAssumption DEF DataBlocks
  <2>3. QED
    BY <2>1, <2>2
<1>10. /\ job' \in Jobs /\ job'.put = job.put /\ job'.move = job.move
       /\ job'.stage = job.stage /\ job'.victims = job.victims /\ job'.old = entries
  BY <1>1, <1>3, JobTyped DEF Jobs
<1>11. Types'
  BY <1>1, <1>3, <1>6, <1>7, <1>9, <1>10, JobTyped DEF Types, Settled
<1>12. Committed' = entries
  BY <1>1, <1>3, <1>10 DEF Committed
<1>13. Valid' = Valid
  BY <1>1 DEF Valid
<1>14. Usable'
  BY <1>1, <1>3, <1>6, <1>8, <1>12, <1>13 DEF Usable, BothManifestsResolve, Settled
<1>15. Placed'
  <2>1. CASE job.stage = "final"
    BY <1>1, <1>10, <2>1 DEF Placed
  <2>2. CASE job.stage = "move"
    <3>1. /\ job.victims \subseteq Used(entries) /\ Current = job.move
          /\ \A i \in DOMAIN entries : Span(entries[i]) \cap job.victims # {}
                 => IsNamed(job.move.place, entries[i].name)
      BY <1>1, <2>2 DEF Inv, Placed, IsNamed, Current
    <3>2. job.victims \cap Used(entries') = {}
      BY <1>6, <3>1
    <3>3. QED
      BY <1>1, <1>10, <3>2 DEF Placed
  <2>3. QED
    BY <1>3, <2>1, <2>2
<1>16. QED
  BY <1>11, <1>14, <1>15 DEF Inv

\* Spoiling a part of a blank extent leaves every manifest as it was.
LEMMA SpoiledKept ==
    ASSUME Inv, pc = "program", NEW last \in Destination
    PROVE  /\ Spoiled(last) \in Areas
           /\ \A s \in Valid : Readable(sb[s].man, Spoiled(last))
           /\ last + 1 \in FirstData .. EndData
<1>1. /\ job.dest \in Nat /\ Len(Current.image) \in Nat
      /\ \A b \in Destination : b \in DataBlocks /\ data[b] = Blank
  BY CurrentTyped
<1>2. job.dest .. last \subseteq Destination
  BY <1>1 DEF Destination
<1>3. \A b \in DataBlocks : data[b] \notin {Blank, Torn} => Spoiled(last)[b] = data[b]
  BY <1>1, <1>2 DEF Spoiled
<1>4. Spoiled(last) \in Areas
  BY DEF Inv, Types, Areas, Spoiled
<1>5. last + 1 \in FirstData .. EndData
  BY <1>1, PackedConstantsAssumption DEF DataBlocks
<1>6. QED
  BY <1>3, <1>4, <1>5, SolidKept DEF Inv

\* A program that fails spoils blank blocks only.
LEMMA ProgramFailsKeeps ==
    ASSUME Inv, ProgramFails
    PROVE  Inv'
<1>1. PICK last \in Destination : data' = Spoiled(last) /\ nextFree' = last + 1
  BY DEF ProgramFails
<1>2. /\ pc = "program" /\ sb' = sb /\ entries' = entries /\ generation' = generation
      /\ active' = active
      /\ \/ /\ job.attempt < 3 /\ job.stage = "final" /\ pc' = "search"
            /\ job' = [job EXCEPT !.attempt = job.attempt + 1, !.round = 1]
         \/ Return
  BY DEF ProgramFails, memory
<1>3. /\ data' \in Areas /\ nextFree' \in FirstData .. EndData
      /\ \A s \in Valid : Readable(sb[s].man, data')
  BY <1>1, <1>2, SpoiledKept
<1>4. Settled
  BY <1>2, SettledNow DEF Mounted, Committed
<1>5. Settled'
  BY <1>2, <1>3, <1>4 DEF Settled, Valid
<1>6. CASE Return
  BY <1>3, <1>5, <1>6, Returning
<1>7. CASE /\ job.attempt < 3 /\ job.stage = "final" /\ pc' = "search"
           /\ job' = [job EXCEPT !.attempt = job.attempt + 1, !.round = 1]
  <2>1. job' \in Jobs
    <3> DEFINE a == [job EXCEPT !.attempt = job.attempt + 1]
    <3>1. a \in Jobs
      BY <1>7, JobTyped DEF Jobs
    <3> HIDE DEF a
    <3>2. [a EXCEPT !.round = 1] \in Jobs
      BY <3>1 DEF Jobs
    <3> USE DEF a
    <3>3. QED
      BY <1>7, <3>2
  <2>2. job'.put = job.put /\ job'.move = job.move /\ job'.stage = "final"
    BY <1>7, JobTyped DEF Jobs
  <2>3. QED
    BY <1>3, <1>5, <1>7, <2>1, <2>2, JobTyped, Quiet
<1>8. QED
  BY <1>2, <1>6, <1>7

\* A commit makes the entries the newest manifest; a second one makes them both.
LEMMA CommitKeeps ==
    ASSUME Inv, Commit
    PROVE  Inv'
<1> DEFINE new == Image(generation + 1, entries)
           q == [sb EXCEPT ![1 - active] = new]
<1>1. /\ pc = "commit" /\ sb' = q /\ active' = 1 - active /\ generation' = generation + 1
      /\ data' = data /\ entries' = entries /\ nextFree' = nextFree
      /\ \/ job.stage = "final" /\ Return
         \/ job.stage = "move" /\ job' = [job EXCEPT !.stage = "sync"] /\ pc' = "commit"
         \/ job.stage \in {"collect", "sync"} /\ pc' = "erase" /\ job' = job
  BY DEF Commit
<1>2. /\ active \in {0, 1} /\ sb \in Superblocks /\ generation \in Nat /\ data \in Areas
      /\ entries \in Manifests
      /\ active \in Valid /\ sb[active].man = Committed
  BY <1>1 DEF Inv, Types, Usable, Mounted
<1>3. /\ q \in Superblocks /\ q[active] = sb[active]
      /\ \A s \in {0, 1} : q[s].ok => Readable(q[s].man, data)
  BY RewritesKept DEF Inv, Rewrites
<1>4. q[1 - active] = new /\ new.ok /\ new.man = entries
  BY <1>2 DEF Superblocks, Image
<1>5. 1 - active \in {0, 1} /\ \A s \in {0, 1} : s = active \/ s = 1 - active
  BY <1>2
<1> HIDE DEF q, new
<1>6. Settled'
  BY <1>1, <1>2, <1>3, <1>4, <1>5 DEF Settled, Valid
<1>7. CASE job.stage = "final" /\ Return
  BY <1>1, <1>6, <1>7, JobTyped, Returning
<1>8. CASE /\ job.stage = "move" /\ job' = [job EXCEPT !.stage = "sync"]
           /\ pc' = "commit"
  <2>1. /\ job' \in Jobs /\ job'.put = job.put /\ job'.move = job.move
        /\ job'.stage = "sync" /\ job'.victims = job.victims
    BY <1>8, JobTyped DEF Jobs
  <2>2. Types'
    BY <1>1, <1>6, <1>8, <2>1, JobTyped DEF Types, Settled
  <2>3. Usable'
    BY <1>6, <2>1 DEF Usable, BothManifestsResolve, Settled, Committed
  <2>4. job.victims \cap Used(entries) = {}
    BY <1>1, <1>8 DEF Inv, Placed
  <2>5. Placed'
    BY <1>1, <1>8, <2>1, <2>4 DEF Placed
  <2>6. QED
    BY <2>2, <2>3, <2>5 DEF Inv
<1>9. CASE job.stage \in {"collect", "sync"} /\ pc' = "erase" /\ job' = job
  <2>1. Types'
    BY <1>1, <1>6, <1>9, JobTyped DEF Types, Settled
  <2>2. Usable'
    BY <1>6, <1>9 DEF Usable, BothManifestsResolve, Settled, Committed
  <2>3. job.victims \cap Used(entries) = {} /\ Committed = entries
    BY <1>1, <1>9 DEF Inv, Placed, Committed
  <2>4. \A s \in {0, 1} : sb'[s].man = entries'
    BY <1>1, <1>2, <1>3, <1>4, <1>5, <2>3
  <2>5. Placed'
    BY <1>1, <1>9, <2>3, <2>4 DEF Placed, Valid
  <2>6. QED
    BY <2>1, <2>2, <2>5 DEF Inv
<1>10. QED
  BY <1>1, <1>7, <1>8, <1>9

\* A commit that fails brings back the entries that are stored.
LEMMA CommitFailureKeeps ==
    ASSUME Inv, CommitFails
    PROVE  Inv'
<1>1. /\ pc = "commit" /\ sb' \in Rewrites /\ Return
      /\ entries' = Committed
      /\ data' = data /\ generation' = generation /\ active' = active /\ nextFree' = nextFree
  BY DEF CommitFails, Committed
<1>2. /\ active \in {0, 1} /\ sb \in Superblocks /\ generation \in Nat /\ data \in Areas
      /\ active \in Valid /\ sb[active].man = Committed
  BY <1>1 DEF Inv, Types, Usable, Mounted
<1>3. /\ sb' \in Superblocks /\ sb'[active] = sb[active]
      /\ \A s \in {0, 1} : sb'[s].ok => Readable(sb'[s].man, data)
  BY <1>1, RewritesKept DEF Inv
<1>4. Committed \in Manifests
  BY <1>2 DEF Superblocks
<1>5. Settled'
  BY <1>1, <1>2, <1>3, <1>4 DEF Settled, Valid
<1>6. QED
  BY <1>1, <1>5, JobTyped, Returning

\* An erase takes what neither superblock names.
LEMMA EraseBlocksKeeps ==
    ASSUME Inv, EraseBlocks
    PROVE  Inv'
<1>1. /\ pc = "erase" /\ UNCHANGED <<sb, memory>>
      /\ data' = [b \in DataBlocks |-> IF b \in job.victims THEN Blank ELSE data[b]]
      /\ \/ /\ nextFree' = FirstData /\ pc' = "compact"
            /\ job' = [job EXCEPT !.stage = "none", !.move = NoPlan,
                                  !.dest = FirstData, !.victims = {}, !.old = <<>>]
         \/ AfterCollect /\ nextFree' = nextFree
  BY DEF EraseBlocks
<1>2. data' \in Areas /\ \A s \in Valid : Readable(sb[s].man, data')
  <2>1. data' \in Areas
    BY <1>1 DEF Inv, Types, Areas
  <2>2. \A b \in DataBlocks \ job.victims : data'[b] = data[b]
    BY <1>1
  <2>3. QED
    BY <1>1, <2>1, <2>2, ErasedKept
<1>3. Settled
  <2>1. pc = "erase" => Committed = entries
    BY DEF Committed
  <2>2. QED
    BY <1>1, <2>1, SettledNow DEF Mounted
<1>4. Settled'
  BY <1>1, <1>2, <1>3 DEF Settled, Valid, memory
<1>5. CASE AfterCollect /\ nextFree' = nextFree
  <2>1. /\ pc' \in {"idle", "search", "pack"} /\ job' \in Jobs
        /\ Sound(job'.put) /\ Sound(job'.move)
        /\ pc' = "search" => job'.stage = "final"
    BY <1>5, AfterCollectJob DEF Inv
  <2>2. QED
    BY <1>4, <1>5, <2>1, JobTyped, Quiet
<1>6. CASE /\ nextFree' = FirstData /\ pc' = "compact"
           /\ job' = [job EXCEPT !.stage = "none", !.move = NoPlan,
                                 !.dest = FirstData, !.victims = {}, !.old = <<>>]
  <2>1. /\ NoPlan \in Plans /\ Sound(NoPlan) /\ FirstData \in FirstData .. EndData
        /\ {} \in SUBSET DataBlocks /\ <<>> \in Manifests
    BY NoJobTyped, NoEntries, PackedConstantsAssumption DEF Sound
  <2> DEFINE a == [job EXCEPT !.stage = "none"]
             c == [a EXCEPT !.move = NoPlan]
             e == [c EXCEPT !.dest = FirstData]
             f == [e EXCEPT !.victims = {}]
             g == [f EXCEPT !.old = <<>>]
  <2>2. a \in Jobs /\ a.put = job.put
    BY JobTyped DEF Jobs
  <2> HIDE DEF a
  <2>3. c \in Jobs /\ c.put = a.put /\ c.move = NoPlan
    BY <2>1, <2>2 DEF Jobs
  <2> HIDE DEF c
  <2>4. e \in Jobs /\ e.put = c.put /\ e.move = c.move
    BY <2>1, <2>3 DEF Jobs
  <2> HIDE DEF e
  <2>5. f \in Jobs /\ f.put = e.put /\ f.move = e.move
    BY <2>1, <2>4 DEF Jobs
  <2> HIDE DEF f
  <2>6. g \in Jobs /\ g.put = f.put /\ g.move = f.move
    BY <2>1, <2>5 DEF Jobs
  <2>7. job' = g
    BY <1>6 DEF a, c, e, f
  <2> HIDE DEF g, NoPlan
  <2>8. /\ job' \in Jobs /\ Sound(job'.put) /\ Sound(job'.move)
    BY <2>1, <2>2, <2>3, <2>4, <2>5, <2>6, <2>7, JobTyped
  <2>9. QED
    BY <1>4, <1>6, <2>1, <2>8, Quiet
<1>7. QED
  BY <1>1, <1>5, <1>6

\* An erase that was cut short.
LEMMA PartlyErasedKept ==
    ASSUME Inv, pc = "erase", NEW d2 \in PartlyErased(job.victims)
    PROVE  d2 \in Areas /\ \A s \in Valid : Readable(sb[s].man, d2)
<1>1. PICK T \in SUBSET job.victims :
          d2 = [b \in DataBlocks |-> IF b \in T THEN Torn ELSE data[b]]
  BY DEF PartlyErased
<1>2. d2 \in Areas
  BY <1>1 DEF Inv, Types, Areas
<1>3. \A b \in DataBlocks \ job.victims : d2[b] = data[b]
  BY <1>1
<1>4. QED
  BY <1>2, <1>3, ErasedKept

\* So does one that fails half-way.
LEMMA EraseBlocksFailsKeeps ==
    ASSUME Inv, EraseBlocksFails
    PROVE  Inv'
<1>1. /\ pc = "erase" /\ data' \in PartlyErased(job.victims) /\ Return
      /\ UNCHANGED <<sb, memory, nextFree>>
  BY DEF EraseBlocksFails
<1>2. data' \in Areas /\ \A s \in Valid : Readable(sb[s].man, data')
  BY <1>1, PartlyErasedKept
<1>3. Settled
  BY <1>1, SettledNow DEF Mounted, Committed
<1>4. Settled'
  BY <1>1, <1>2, <1>3 DEF Settled, Valid, memory
<1>5. QED
  BY <1>1, <1>4, JobTyped, Returning

\* A power loss in any step leaves superblocks that can be mounted.
LEMMA CrashKeeps ==
    ASSUME Inv, Crash
    PROVE  Inv'
<1>1. /\ Mounted /\ Forget
      /\ \/ sb' = sb /\ data' = data
         \/ sb' \in Rewrites /\ data' = data
         \/ pc = "program" /\ (\E last \in Destination : data' = Spoiled(last)) /\ sb' = sb
         \/ pc = "erase" /\ data' \in PartlyErased(job.victims) /\ sb' = sb
  BY DEF Crash, device
<1>2. /\ sb \in Superblocks /\ data \in Areas /\ active \in Valid
      /\ \A s \in Valid : Readable(sb[s].man, data)
  BY <1>1 DEF Inv, Types, Usable, BothManifestsResolve
<1>3. CASE sb' = sb /\ data' = data
  BY <1>1, <1>2, <1>3, Forgetting DEF Valid
<1>4. CASE sb' \in Rewrites /\ data' = data
  <2>1. /\ sb' \in Superblocks /\ sb'[active] = sb[active]
        /\ \A s \in {0, 1} : sb'[s].ok => Readable(sb'[s].man, data)
    BY <1>4, RewritesKept DEF Inv
  <2>2. active \in Valid'
    BY <1>2, <2>1 DEF Valid
  <2>3. \A s \in Valid' : Readable(sb'[s].man, data')
    BY <1>4, <2>1 DEF Valid
  <2>4. QED
    BY <1>1, <1>2, <1>4, <2>1, <2>2, <2>3, Forgetting
<1>5. CASE pc = "program" /\ (\E last \in Destination : data' = Spoiled(last)) /\ sb' = sb
  BY <1>1, <1>2, <1>5, SpoiledKept, Forgetting DEF Valid
<1>6. CASE pc = "erase" /\ data' \in PartlyErased(job.victims) /\ sb' = sb
  BY <1>1, <1>2, <1>6, PartlyErasedKept, Forgetting DEF Valid
<1>7. QED
  BY <1>1, <1>3, <1>4, <1>5, <1>6
-----------------------------------------------------------------------------
(* The theorems.                                                           *)

\* The formatted card satisfies the invariant.
LEMMA InvInit == Init => Inv
<1> SUFFICES ASSUME Init PROVE Inv
  OBVIOUS
<1>1. /\ Image(1, <<>>) \in [ok : BOOLEAN, gen : Nat, man : Manifests]
      /\ Image(1, <<>>).ok /\ Image(1, <<>>).man = <<>>
      /\ Invalid \in [ok : BOOLEAN, gen : Nat, man : Manifests] /\ ~Invalid.ok
  BY NoEntries DEF Image, Invalid
<1> HIDE DEF Image, Invalid
<1>2. /\ sb \in Superblocks /\ Valid = {1} /\ sb[1].man = <<>>
  BY <1>1 DEF Init, Superblocks, Valid
<1>3. data \in Areas
  BY DEF Init, Areas
<1>4. Types
  BY <1>2, <1>3, NoJobTyped, NoEntries, PackedConstantsAssumption DEF Init, Types
<1>5. Usable
  BY <1>2, NoEntries DEF Init, Usable, BothManifestsResolve, Mounted
<1>6. Placed
  BY DEF Init, Placed
<1>7. QED
  BY <1>4, <1>5, <1>6 DEF Inv

\* Every step keeps it.
LEMMA InvStep == Inv /\ [Next]_vars => Inv'
<1> SUFFICES ASSUME Inv, [Next]_vars PROVE Inv'
  OBVIOUS
<1>1. CASE Open
  BY <1>1, OpenKeeps
<1>2. CASE Close
  BY <1>2, CloseKeeps
<1>3. CASE Request
  BY <1>3, PutFilesKeeps, RemoveFileKeeps, CollectKeeps DEF Request
<1>4. CASE Proceed
  BY <1>4, SearchFindsKeeps, SearchFailsKeeps, CollectScanKeeps, PackMoveKeeps,
     PackNotKeeps, CompactMoveKeeps, CompactDoneKeeps, ProgramKeeps, CommitKeeps,
     EraseBlocksKeeps DEF Proceed
<1>5. CASE Fault
  BY <1>5, ProgramFailsKeeps, CommitFailureKeeps, EraseBlocksFailsKeeps, CrashKeeps
  DEF Fault
<1>6. CASE UNCHANGED vars
  <2>1. Inv' = Inv
    BY <1>6 DEF vars, Inv, Types, Usable, Placed, BothManifestsResolve, Valid,
                Committed, Mounted, Destination, Current
  <2>2. QED
    BY <2>1
<1>7. QED
  BY <1>1, <1>2, <1>3, <1>4, <1>5, <1>6 DEF Next

\* The inductive invariant: the types, manifests that can be read on the device and in
\* memory, and where what is being written goes.
THEOREM Invariance == Spec => []Inv
<1>1. Init => Inv
  BY InvInit
<1>2. Inv /\ [Next]_vars => Inv'
  BY InvStep
<1>3. QED
  BY <1>1, <1>2, PTL DEF Spec

\* The invariant gives the types.
LEMMA InvTypeOK == Inv => TypeOK
<1> SUFFICES ASSUME Inv PROVE TypeOK
  OBVIOUS
<1>1. \A b \in DataBlocks : data[b] \notin {Blank, Torn} => data[b].records # {}
  BY DEF Inv, Types, Areas, Stored
<1>2. \A s \in {0, 1} : sb[s].man \in Seq(Entries) /\ sb[s].gen \in Nat
  BY DEF Inv, Types, Superblocks, Manifests
<1>3. QED
  BY <1>1, <1>2 DEF Inv, Types, Manifests, TypeOK

\* In every state that the filesystem can reach, entries, superblocks and blocks are well
\* typed, and no block is stored without a record.
THEOREM PackedTypeCorrect == Spec => []TypeOK
<1>1. Inv => TypeOK
  BY InvTypeOK
<1>2. QED
  BY <1>1, Invariance, PTL

\* However records move between blocks, in puts that repack the blocks they touch
\* (putFileViews) and in compactions that renumber all records (compactPackedBlocks),
\* with a failed call or a power loss at any step: some superblock is valid, and each
\* entry of every valid one finds its record, or its parts, in the block it names.
THEOREM BothManifestsStayReadable == Spec => []BothManifestsResolve
<1>1. Inv => BothManifestsResolve
  BY DEF Inv, Usable
<1>2. QED
  BY <1>1, Invariance, PTL
=============================================================================
