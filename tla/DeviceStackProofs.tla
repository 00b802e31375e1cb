------------------------- MODULE DeviceStackProofs -------------------------
(***************************************************************************)
(* What DeviceStack promises, for any blocks, contents and failures.         *)
(***************************************************************************)
EXTENDS DeviceStack, TLAPS

\* The fields of a staged superblock; a member of it is not a block's content.
LEMMA StagedFields ==
    ASSUME NEW s \in Staging
    PROVE  s.block \in Meta /\ s.value \in Contents /\ s # Absent
  BY StackAssumption DEF Staging, Contents

\* An overlaid device holds the overlay on its blocks, and itself elsewhere.
LEMMA OverlayFacts ==
    ASSUME NEW C, NEW f \in [Blocks -> C], NEW S \in SUBSET Blocks, NEW g \in [S -> C]
    PROVE  /\ Overlay(f, g) \in [Blocks -> C]
           /\ \A b \in S : Overlay(f, g)[b] = g[b]
           /\ \A b \in Blocks \ S : Overlay(f, g)[b] = f[b]
  BY DEF Overlay

\* What an update makes of the cache.
LEMMA CacheOverlay ==
    ASSUME cache \in [Blocks -> Contents \cup {Absent}],
           NEW S \in SUBSET Blocks, NEW g \in [S -> Contents]
    PROVE  /\ Overlay(cache, g) \in [Blocks -> Contents \cup {Absent}]
           /\ \A b \in S : Overlay(cache, g)[b] = g[b]
           /\ \A b \in Blocks \ S : Overlay(cache, g)[b] = cache[b]
  BY DEF Overlay

\* A failed call leaves contents behind, and other blocks alone.
LEMMA RemnantFacts ==
    ASSUME NEW f \in [Blocks -> Contents], NEW S \in SUBSET Blocks,
           NEW g \in [S -> Contents], NEW r \in Remnants(f, g)
    PROVE  /\ r \in [Blocks -> Contents]
           /\ \A b \in Blocks \ S : r[b] = f[b]
  <1>1. PICK h \in [S -> Contents] : r = Overlay(f, h)
    BY DEF Remnants
  <1> QED
    BY <1>1, OverlayFacts

\* What is staged is one superblock, or none.
LEMMA PendingFacts ==
    ASSUME staged \in Staging \cup {Absent}
    PROVE  /\ DOMAIN Pending \in SUBSET Meta
           /\ Pending \in [DOMAIN Pending -> Contents]
           /\ staged = Absent => DOMAIN Pending = {}
           /\ staged # Absent => /\ staged.block \in DOMAIN Pending
                                 /\ DOMAIN Pending = {staged.block}
                                 /\ Pending[staged.block] = staged.value
  BY StagedFields DEF Pending

\* A flush stores the staged superblock and leaves all other blocks alone.
LEMMA FlushFacts ==
    ASSUME TypeOK
    PROVE  /\ AfterFlush \in [Blocks -> Contents]
           /\ \A b \in Data : AfterFlush[b] = flash[b]
           /\ staged = Absent => AfterFlush = flash
           /\ staged # Absent => AfterFlush[staged.block] = staged.value
           /\ Remnants(flash, Pending) \subseteq [Blocks -> Contents]
           /\ \A r \in Remnants(flash, Pending) : \A b \in Data : r[b] = flash[b]
  <1> DEFINE S == DOMAIN Pending
  <1>1. S \in SUBSET Blocks /\ Pending \in [S -> Contents] /\ S \cap Data = {}
    BY PendingFacts, StackAssumption DEF TypeOK, Blocks
  <1>2. flash \in [Blocks -> Contents] /\ Data \subseteq Blocks
    BY DEF TypeOK, Blocks
  <1> HIDE DEF S
  <1>3. /\ AfterFlush \in [Blocks -> Contents]
        /\ \A b \in S : AfterFlush[b] = Pending[b]
        /\ \A b \in Blocks \ S : AfterFlush[b] = flash[b]
    BY <1>1, <1>2, OverlayFacts DEF AfterFlush
  <1>4. \A r \in Remnants(flash, Pending) :
            r \in [Blocks -> Contents] /\ \A b \in Blocks \ S : r[b] = flash[b]
    BY <1>1, <1>2, RemnantFacts
  <1>5. staged = Absent => AfterFlush = flash
    <2> SUFFICES ASSUME staged = Absent PROVE AfterFlush = flash
      OBVIOUS
    <2>1. S = {}
      BY PendingFacts DEF TypeOK, S
    <2> QED
      BY <2>1, <1>2, <1>3
  <1>6. staged # Absent => AfterFlush[staged.block] = staged.value
    BY <1>3, PendingFacts DEF TypeOK, S
  <1> QED
    BY <1>1, <1>2, <1>3, <1>4, <1>5, <1>6

\* What is programmed or erased are data blocks, and their contents are known.
LEMMA ImageFacts ==
    ASSUME NEW S \in SUBSET Data
    PROVE  /\ S \in SUBSET Blocks
           /\ All(S, Blank) \in [S -> Contents]
           /\ All(S, Absent) \in [S -> Contents \cup {Absent}]
           /\ \A image \in Images(S) : DOMAIN image = S /\ image \in [S -> Contents]
           /\ DOMAIN All(S, Blank) = S
  BY DEF Blocks, All, Images, Contents

\* Invalidated blocks are absent from the cache, the others stay in it.
LEMMA InvalidatedFacts ==
    ASSUME TypeOK, NEW S \in SUBSET Data
    PROVE  /\ Invalidated(S) \in [Blocks -> Contents \cup {Absent}]
           /\ \A b \in S : Invalidated(S)[b] = Absent
           /\ \A b \in Blocks \ S : Invalidated(S)[b] = cache[b]
  <1> DEFINE C == Contents \cup {Absent}
  <1>1. cache \in [Blocks -> C] /\ S \in SUBSET Blocks /\ All(S, Absent) \in [S -> C]
    BY ImageFacts DEF TypeOK
  <1>2. \A b \in S : All(S, Absent)[b] = Absent
    BY DEF All
  <1> HIDE DEF C
  <1>3. /\ Invalidated(S) \in [Blocks -> C]
        /\ \A b \in S : Invalidated(S)[b] = All(S, Absent)[b]
        /\ \A b \in Blocks \ S : Invalidated(S)[b] = cache[b]
    BY <1>1, OverlayFacts DEF Invalidated
  <1> QED
    BY <1>2, <1>3 DEF C

\* What an idle flush may count: a second failure needs new activity before
\* it.  After a failed flush the thread waits, or nothing is staged.
AttemptsCounted ==
    /\ attempts \in {0, 1}
    /\ attempts = 1 => failed \/ staged = Absent

StackInv == TypeOK /\ CacheTruthful /\ NewestKept /\ AttemptsCounted

\* What the step of EraseAfterFlush says of one data block.
Spares(b) == flash[b] # Blank /\ flash'[b] # flash[b] => staged' = Absent

\* A block agrees with its cached copy after a step that stores it, drops the
\* copy or changes neither.
Follows(b) ==
    \/ cache'[b] \in {Absent, flash'[b]}
    \/ cache'[b] = cache[b] /\ flash'[b] = flash[b]

\* So the cache stays truthful if it follows at every data block.
LEMMA FollowsKeepsCache ==
    ASSUME CacheTruthful, \A b \in Data : Follows(b)
    PROVE  CacheTruthful'
  BY DEF CacheTruthful, Follows

\* A step that leaves superblocks alone, or stores the staged one, loses none.
LEMMA NewestFacts ==
    ASSUME TypeOK, NewestKept, newest' = newest,
           \/ staged' = staged /\ \A b \in Meta : flash'[b] = flash[b]
           \/ staged' = Absent /\ \A b \in Meta : flash'[b] = AfterFlush[b]
           \/ staged' = staged /\ staged # Absent
    PROVE  NewestKept'
  <1> SUFFICES ASSUME newest # Absent
               PROVE  \/ staged' = newest
                      \/ staged' = Absent /\ flash'[newest.block] = newest.value
    BY DEF NewestKept
  <1>1. newest.block \in Meta
    BY StagedFields DEF TypeOK
  <1>2. CASE staged = newest
    BY <1>1, <1>2, FlushFacts
  <1>3. CASE staged = Absent /\ flash[newest.block] = newest.value
    BY <1>1, <1>3, FlushFacts
  <1> QED
    BY <1>2, <1>3 DEF NewestKept

\* Activity is counted as such, and wakes the thread.
LEMMA ActivityFacts ==
    ASSUME TypeOK, Activity
    PROVE  /\ failed' \in BOOLEAN /\ attempts' \in Nat /\ disturbed' \in BOOLEAN
           /\ thread' \in {"check", "asleep", "timing", "gone"}
           /\ AttemptsCounted'
  <1>1. failed' = FALSE /\ attempts' = 0 /\ disturbed' = TRUE /\ thread' \in {thread, "check"}
    BY DEF Activity
  <1>2. AttemptsCounted'
    <2>1. attempts' # 1
      BY <1>1
    <2> QED
      BY <1>1, <2>1 DEF AttemptsCounted
  <1> QED
    BY <1>1, <1>2 DEF TypeOK

\* A request whose flush fails changes nothing but the staged superblock's block.
LEMMA FlushFailsFacts ==
    ASSUME StackInv, FlushFails
    PROVE  /\ flash' \in [Blocks -> Contents]
           /\ \A b \in Data : flash'[b] = flash[b]
           /\ cache' \in [Blocks -> Contents \cup {Absent}] => TypeOK'
           /\ NewestKept' /\ AttemptsCounted'
  <1>1. /\ flash' \in Remnants(flash, Pending) /\ staged # Absent
        /\ faults' = faults + 1
        /\ UNCHANGED <<staged, newest, failed, attempts, disturbed, thread, stop, session>>
    BY DEF FlushFails, FlushFailure, CanFail, idle
  <1>2. flash' \in [Blocks -> Contents] /\ \A b \in Data : flash'[b] = flash[b]
    BY <1>1, FlushFacts DEF StackInv
  <1>3. cache' \in [Blocks -> Contents \cup {Absent}] => TypeOK'
    <2>1. TypeOK
      BY DEF StackInv
    <2>2. faults \in Nat
      BY <2>1 DEF TypeOK
    <2>3. faults' \in Nat
      BY <1>1, <2>2, SMT
    <2> QED
      BY <1>1, <1>2, <2>1, <2>3 DEF TypeOK
  <1>4. NewestKept'
    BY <1>1, NewestFacts DEF StackInv
  <1>5. AttemptsCounted'
    BY <1>1 DEF StackInv, AttemptsCounted
  <1> QED
    BY <1>2, <1>3, <1>4, <1>5

\* A request that got as far as its cartridge call: what it has to show.
LEMMA RequestDone ==
    ASSUME StackInv, Activity,
           flash' \in [Blocks -> Contents],
           cache' \in [Blocks -> Contents \cup {Absent}],
           faults' \in {faults, faults + 1}, UNCHANGED <<newest, stop, session>>,
           \A b \in Data : Follows(b),
           \/ staged' = staged /\ \A b \in Meta : flash'[b] = flash[b]
           \/ staged' = Absent /\ \A b \in Meta : flash'[b] = AfterFlush[b]
    PROVE  StackInv'
  <1>1. TypeOK /\ NewestKept /\ CacheTruthful
    BY DEF StackInv
  <1>2. faults' \in Nat
    <2>1. faults \in Nat
      BY <1>1 DEF TypeOK
    <2> QED
      BY <2>1, SMT
  <1>3. TypeOK'
    <2>1. staged' \in Staging \cup {Absent}
      BY <1>1 DEF TypeOK
    <2> QED
      BY <1>1, <1>2, <2>1, ActivityFacts DEF TypeOK
  <1>4. CacheTruthful'
    BY <1>1, FollowsKeepsCache
  <1>5. NewestKept'
    BY <1>1, NewestFacts
  <1>6. AttemptsCounted'
    BY <1>1, ActivityFacts
  <1> QED
    BY <1>3, <1>4, <1>5, <1>6 DEF StackInv

\* And one whose flush failed.
LEMMA RequestRefused ==
    ASSUME StackInv, FlushFails,
           cache' \in [Blocks -> Contents \cup {Absent}],
           \A b \in Data : cache'[b] \in {Absent, cache[b]}
    PROVE  StackInv' /\ \A b \in Data : Spares(b)
  <1>1. CacheTruthful'
    BY FlushFailsFacts DEF StackInv, CacheTruthful
  <1>2. TypeOK' /\ NewestKept' /\ AttemptsCounted'
    BY FlushFailsFacts
  <1> QED
    BY <1>1, <1>2, FlushFailsFacts DEF StackInv, Spares

\* A read caches what is stored, or fails and changes nothing.
LEMMA ReadStep ==
    ASSUME StackInv, NEW b \in Blocks, Read(b)
    PROVE  StackInv' /\ \A c \in Data : Spares(c)
  <1>1. /\ UNCHANGED <<flash, staged, newest, stop, session>> /\ Activity
        /\ cache' \in {[cache EXCEPT ![b] = flash[b]], cache}
        /\ faults' \in {faults, faults + 1}
    BY DEF Read, CanFail
  <1>2. flash' \in [Blocks -> Contents] /\ cache' \in [Blocks -> Contents \cup {Absent}]
    BY <1>1 DEF StackInv, TypeOK
  <1>3. \A c \in Data : Follows(c)
    BY <1>1 DEF Follows, StackInv, TypeOK, Blocks
  <1> QED
    BY <1>1, <1>2, <1>3, RequestDone DEF Spares

\* A program finds its blocks blank, so that it destroys nothing.
LEMMA ProgramStep ==
    ASSUME StackInv, NEW S \in SUBSET Data, NEW image \in Images(S), Program(image)
    PROVE  StackInv' /\ \A b \in Data : Spares(b)
  <1>0. TypeOK /\ CacheTruthful /\ DOMAIN image = S
    BY ImageFacts DEF StackInv
  <1>1. /\ S \in SUBSET Blocks /\ image \in [S -> Contents]
        /\ flash \in [Blocks -> Contents]
    BY <1>0, ImageFacts DEF TypeOK
  <1>2. /\ UNCHANGED <<staged, newest, stop, session>> /\ Activity
        /\ faults' \in {faults, faults + 1}
        /\ \A b \in S : cache[b] = Blank
        /\ \/ flash' = Overlay(flash, image) /\ cache' = Overlay(cache, image)
           \/ flash' \in Remnants(flash, image) /\ cache' = Invalidated(S)
    BY <1>0 DEF Program, CanFail
  <1>3. /\ flash' \in [Blocks -> Contents] /\ cache' \in [Blocks -> Contents \cup {Absent}]
        /\ \A b \in Blocks \ S : flash'[b] = flash[b] /\ cache'[b] = cache[b]
        /\ \A b \in S : cache'[b] \in {Absent, flash'[b]}
    <2>1. CASE flash' = Overlay(flash, image) /\ cache' = Overlay(cache, image)
      <3> DEFINE C == Contents \cup {Absent}
      <3>1. S \in SUBSET Blocks /\ image \in [S -> C] /\ cache \in [Blocks -> C]
        BY <1>0, <1>1 DEF TypeOK
      <3> HIDE DEF C
      <3>2. /\ Overlay(cache, image) \in [Blocks -> C]
            /\ \A b \in S : Overlay(cache, image)[b] = image[b]
            /\ \A b \in Blocks \ S : Overlay(cache, image)[b] = cache[b]
        BY <3>1, OverlayFacts
      <3>3. /\ Overlay(flash, image) \in [Blocks -> Contents]
            /\ \A b \in S : Overlay(flash, image)[b] = image[b]
            /\ \A b \in Blocks \ S : Overlay(flash, image)[b] = flash[b]
        BY <1>1, OverlayFacts
      <3> QED
        BY <2>1, <3>2, <3>3 DEF C
    <2>2. CASE flash' \in Remnants(flash, image) /\ cache' = Invalidated(S)
      <3>1. /\ flash' \in [Blocks -> Contents]
            /\ \A b \in Blocks \ S : flash'[b] = flash[b]
        BY <2>2, <1>1, RemnantFacts
      <3> QED
        BY <2>2, <1>0, <3>1, InvalidatedFacts
    <2> QED
      BY <1>2, <2>1, <2>2
  <1>4. Meta \subseteq Blocks \ S /\ Data \subseteq Blocks
    BY StackAssumption DEF Blocks
  <1>5. StackInv'
    BY <1>2, <1>3, <1>4, RequestDone DEF Follows
  <1>6. \A b \in Data : Spares(b)
    <2>1. \A b \in S : flash[b] = Blank
      BY <1>0, <1>2, StackAssumption DEF CacheTruthful, Contents
    <2> QED
      BY <2>1, <1>3, <1>4 DEF Spares
  <1> QED
    BY <1>5, <1>6

\* An erase is preceded by a flush.
LEMMA EraseStep ==
    ASSUME StackInv, NEW S \in SUBSET Data, Erase(S)
    PROVE  StackInv' /\ \A b \in Data : Spares(b)
  <1> DEFINE blank == All(S, Blank)
  <1>0. TypeOK /\ DOMAIN blank = S /\ \A b \in Data : AfterFlush[b] = flash[b]
    BY ImageFacts, FlushFacts DEF StackInv
  <1>1. /\ S \in SUBSET Blocks /\ blank \in [S -> Contents]
        /\ AfterFlush \in [Blocks -> Contents]
    BY <1>0, ImageFacts, FlushFacts
  <1>2. Meta \subseteq Blocks \ S /\ Data \subseteq Blocks
    BY StackAssumption DEF Blocks
  <1> HIDE DEF blank
  <1>3. CASE /\ staged' = Absent /\ Activity /\ UNCHANGED <<newest, stop, session>>
             /\ faults' \in {faults, faults + 1}
             /\ \/ flash' = Overlay(AfterFlush, blank) /\ cache' = Overlay(cache, blank)
                \/ flash' \in Remnants(AfterFlush, blank) /\ cache' = Invalidated(S)
    <2>1. /\ flash' \in [Blocks -> Contents] /\ cache' \in [Blocks -> Contents \cup {Absent}]
          /\ \A b \in Blocks \ S : flash'[b] = AfterFlush[b] /\ cache'[b] = cache[b]
          /\ \A b \in S : cache'[b] \in {Absent, flash'[b]}
      <3>1. CASE flash' = Overlay(AfterFlush, blank) /\ cache' = Overlay(cache, blank)
        <4> DEFINE C == Contents \cup {Absent}
        <4>1. S \in SUBSET Blocks /\ blank \in [S -> C] /\ cache \in [Blocks -> C]
          BY <1>0, <1>1 DEF TypeOK
        <4> HIDE DEF C
        <4>2. /\ Overlay(cache, blank) \in [Blocks -> C]
              /\ \A b \in S : Overlay(cache, blank)[b] = blank[b]
              /\ \A b \in Blocks \ S : Overlay(cache, blank)[b] = cache[b]
          BY <4>1, OverlayFacts
        <4>3. /\ Overlay(AfterFlush, blank) \in [Blocks -> Contents]
              /\ \A b \in S : Overlay(AfterFlush, blank)[b] = blank[b]
              /\ \A b \in Blocks \ S : Overlay(AfterFlush, blank)[b] = AfterFlush[b]
          <5>1. \A g \in [S -> Contents] :
                    /\ Overlay(AfterFlush, g) \in [Blocks -> Contents]
                    /\ \A b \in S : Overlay(AfterFlush, g)[b] = g[b]
                    /\ \A b \in Blocks \ S : Overlay(AfterFlush, g)[b] = AfterFlush[b]
            BY <1>1, OverlayFacts
          <5> QED
            BY <1>1, <5>1
        <4> QED
          BY <3>1, <4>2, <4>3 DEF C
      <3>2. CASE flash' \in Remnants(AfterFlush, blank) /\ cache' = Invalidated(S)
        <4>1. /\ flash' \in [Blocks -> Contents]
              /\ \A b \in Blocks \ S : flash'[b] = AfterFlush[b]
          BY <3>2, <1>1, RemnantFacts
        <4> QED
          BY <3>2, <1>0, <4>1, InvalidatedFacts
      <3> QED
        BY <1>3, <3>1, <3>2
    <2>2. \A b \in Data : Follows(b)
      BY <2>1, <1>0, <1>2 DEF Follows
    <2>3. StackInv'
      BY <1>3, <2>1, <2>2, <1>2, RequestDone
    <2> QED
      BY <2>3, <1>3 DEF Spares
  <1>4. CASE FlushFails /\ cache' = Invalidated(S)
    <2>1. /\ cache' \in [Blocks -> Contents \cup {Absent}]
          /\ \A b \in Data : cache'[b] \in {Absent, cache[b]}
      BY <1>0, <1>1, <1>2, <1>4, InvalidatedFacts
    <2> QED
      BY <1>4, <2>1, RequestRefused
  <1> QED
    BY <1>0, <1>3, <1>4 DEF Erase, CanFail, blank

\* A replacement erases, and so flushes, only where a block is not blank.
LEMMA ReplaceStep ==
    ASSUME StackInv, NEW S \in SUBSET Data, NEW image \in Images(S),
           NEW T \in SUBSET S, Replace(image, T)
    PROVE  StackInv' /\ \A b \in Data : Spares(b)
  <1> DEFINE before == IF T = {} THEN flash ELSE AfterFlush
             C == Contents \cup {Absent}
  <1>0. /\ TypeOK /\ CacheTruthful /\ DOMAIN image = S
        /\ \A b \in Data : before[b] = flash[b]
    BY ImageFacts, FlushFacts DEF StackInv
  <1>1. S \in SUBSET Blocks /\ image \in [S -> Contents] /\ before \in [Blocks -> Contents]
    BY <1>0, ImageFacts, FlushFacts DEF TypeOK
  <1>2. image \in [S -> C] /\ cache \in [Blocks -> C]
    BY <1>0, <1>1 DEF TypeOK
  <1>3. Meta \subseteq Blocks \ S /\ Data \subseteq Blocks
    BY StackAssumption DEF Blocks
  <1>4. /\ \A b \in S \ T : cache[b] = Blank
        /\ \/ /\ \/ flash' = Overlay(before, image) /\ cache' = Overlay(cache, image)
                 \/ flash' \in Remnants(before, image) /\ cache' = Invalidated(S)
              /\ staged' = IF T = {} THEN staged ELSE Absent
              /\ Activity /\ UNCHANGED <<newest, stop, session>>
              /\ faults' \in {faults, faults + 1}
           \/ FlushFails /\ cache' = Invalidated(S)
    BY <1>0 DEF Replace, CanFail
  <1>6. /\ Invalidated(S) \in [Blocks -> C]
        /\ \A b \in S : Invalidated(S)[b] = Absent
        /\ \A b \in Blocks \ S : Invalidated(S)[b] = cache[b]
    BY <1>0, InvalidatedFacts
  <1>7. CASE FlushFails /\ cache' = Invalidated(S)
    BY <1>7, <1>6, <1>3, RequestRefused
  <1>8. ASSUME \/ flash' = Overlay(before, image) /\ cache' = Overlay(cache, image)
               \/ flash' \in Remnants(before, image) /\ cache' = Invalidated(S),
               staged' = IF T = {} THEN staged ELSE Absent,
               Activity, UNCHANGED <<newest, stop, session>>,
               faults' \in {faults, faults + 1}
        PROVE  StackInv' /\ \A b \in Data : Spares(b)
    <2> HIDE DEF before, C
    <2>1. /\ flash' \in [Blocks -> Contents] /\ cache' \in [Blocks -> C]
          /\ \A b \in Blocks \ S : flash'[b] = before[b] /\ cache'[b] = cache[b]
          /\ \A b \in S : cache'[b] \in {Absent, flash'[b]}
      <3>1. CASE flash' = Overlay(before, image) /\ cache' = Overlay(cache, image)
        <4>1. /\ Overlay(before, image) \in [Blocks -> Contents]
              /\ \A b \in S : Overlay(before, image)[b] = image[b]
              /\ \A b \in Blocks \ S : Overlay(before, image)[b] = before[b]
          BY <1>1, OverlayFacts
        <4>2. /\ Overlay(cache, image) \in [Blocks -> C]
              /\ \A b \in S : Overlay(cache, image)[b] = image[b]
              /\ \A b \in Blocks \ S : Overlay(cache, image)[b] = cache[b]
          BY <1>0, <1>1, CacheOverlay DEF C, TypeOK
        <4> QED
          BY <3>1, <4>1, <4>2
      <3>2. CASE flash' \in Remnants(before, image) /\ cache' = Invalidated(S)
        <4>1. /\ flash' \in [Blocks -> Contents]
              /\ \A b \in Blocks \ S : flash'[b] = before[b]
          BY <3>2, <1>1, RemnantFacts
        <4> QED
          BY <3>2, <4>1, <1>6
      <3> QED
        BY <1>8, <3>1, <3>2
    <2>2. \A b \in Data : Follows(b)
      BY <2>1, <1>0, <1>3 DEF Follows
    <2>3. \/ staged' = staged /\ \A b \in Meta : flash'[b] = flash[b]
          \/ staged' = Absent /\ \A b \in Meta : flash'[b] = AfterFlush[b]
      BY <1>8, <2>1, <1>3 DEF before
    <2>4. StackInv'
      BY <1>8, <2>1, <2>2, <2>3, RequestDone DEF C
    <2>5. \A b \in Data : Spares(b)
      <3>1. CASE T = {}
        <4>1. \A b \in S : flash[b] = Blank
          BY <3>1, <1>0, <1>4, StackAssumption DEF CacheTruthful, Contents
        <4> QED
          BY <3>1, <4>1, <2>1, <1>0, <1>3 DEF Spares
      <3>2. CASE T # {}
        BY <3>2, <1>8 DEF Spares
      <3> QED
        BY <3>1, <3>2
    <2> QED
      BY <2>4, <2>5
  <1> QED
    BY <1>4, <1>7, <1>8

\* A superblock is staged without touching the cartridge.
LEMMA StageMetadataStep ==
    ASSUME StackInv, NEW m \in Meta, NEW v \in Values, StageMetadata(m, v)
    PROVE  StackInv' /\ \A b \in Data : Spares(b)
  <1>1. /\ staged' = [block |-> m, value |-> v] /\ newest' = staged'
        /\ cache' = [cache EXCEPT ![m] = v]
        /\ Activity /\ UNCHANGED <<flash, stop, session, faults>>
    BY DEF StageMetadata
  <1>2. TypeOK /\ CacheTruthful /\ staged' \in Staging /\ v \in Contents
    BY <1>1 DEF StackInv, Staging, Contents
  <1>3. cache' \in [Blocks -> Contents \cup {Absent}]
    BY <1>1, <1>2 DEF TypeOK
  <1>4. TypeOK'
    BY <1>1, <1>2, <1>3, ActivityFacts DEF TypeOK
  <1>5. CacheTruthful'
    <2>1. \A b \in Data : b \in Blocks /\ b # m
      BY StackAssumption DEF Blocks
    <2> QED
      BY <1>1, <1>2, <2>1 DEF CacheTruthful, TypeOK
  <1>6. NewestKept'
    BY <1>1, <1>2 DEF NewestKept
  <1>7. AttemptsCounted'
    BY <1>1, <1>2, ActivityFacts
  <1> QED
    BY <1>1, <1>4, <1>5, <1>6, <1>7 DEF StackInv, Spares

\* The barriers flush what is staged.
LEMMA PrepareStep ==
    ASSUME StackInv, PrepareForErase \/ PrepareForProgram
    PROVE  StackInv' /\ \A b \in Data : Spares(b)
  <1>1. TypeOK /\ AfterFlush \in [Blocks -> Contents] /\ \A b \in Data : AfterFlush[b] = flash[b]
    BY FlushFacts DEF StackInv
  <1>2. cache' = cache /\ cache \in [Blocks -> Contents \cup {Absent}] /\ flash \in [Blocks -> Contents]
    BY <1>1 DEF PrepareForErase, PrepareForProgram, TypeOK
  <1>3. CASE FlushFails
    BY <1>2, <1>3, RequestRefused
  <1>4. CASE /\ Activity /\ UNCHANGED <<newest, stop, session>>
             /\ faults' \in {faults, faults + 1}
             /\ \/ flash' = AfterFlush /\ staged' = Absent
                \/ flash' = flash /\ staged' = staged
    <2>1. \A b \in Data : flash'[b] = flash[b]
      BY <1>1, <1>4
    <2>2. StackInv'
      BY <1>1, <1>2, <1>4, <2>1, RequestDone DEF Follows
    <2> QED
      BY <2>1, <2>2 DEF Spares
  <1> QED
    BY <1>3, <1>4 DEF PrepareForErase, PrepareForProgram, CanFail

\* A flush of the idle thread or of the close, and what it counts.
LEMMA FlushedStep ==
    ASSUME StackInv, IdleFlush \/ Close
    PROVE  StackInv' /\ \A b \in Data : Spares(b)
  <1>1. TypeOK /\ CacheTruthful /\ NewestKept /\ AttemptsCounted
    BY DEF StackInv
  <1>2. faults \in Nat /\ attempts \in Nat
    BY <1>1 DEF TypeOK
  <1>3. /\ UNCHANGED <<cache, newest, disturbed, stop>>
        /\ faults' \in {faults, faults + 1}
        /\ session' \in {session, "closed", "closing again", "unclosed"}
        /\ thread' \in {thread, "check"}
        /\ \/ /\ flash' = AfterFlush /\ staged' = Absent /\ failed' = FALSE
              /\ attempts' = attempts
           \/ /\ FlushFailure /\ staged' = staged
              /\ \/ failed' = failed /\ attempts' = attempts
                 \/ ~failed /\ failed' = TRUE /\ attempts' = attempts + 1
    BY DEF IdleFlush, Close, AfterClose, CanFail, FlushFailure, Interrupted
  <1>4. /\ flash' \in [Blocks -> Contents]
        /\ \A b \in Data : flash'[b] = flash[b]
    BY <1>1, <1>3, FlushFacts DEF FlushFailure
  <1>5. faults' \in Nat /\ attempts' \in Nat
    <2>1. attempts' \in {attempts, attempts + 1} /\ faults' \in {faults, faults + 1}
      BY <1>3
    <2> QED
      BY <1>2, <2>1, SMT
  <1>6. TypeOK'
    <2>1. failed' \in BOOLEAN /\ staged' \in Staging \cup {Absent}
      BY <1>1, <1>3 DEF TypeOK
    <2> QED
      BY <1>1, <1>3, <1>4, <1>5, <2>1 DEF TypeOK
  <1>7. CacheTruthful'
    BY <1>1, <1>3, <1>4 DEF CacheTruthful
  <1>8. NewestKept'
    BY <1>1, <1>3, NewestFacts DEF FlushFailure
  <1>9. AttemptsCounted'
    <2>1. CASE staged' = Absent /\ attempts' = attempts
      BY <2>1, <1>1 DEF AttemptsCounted
    <2>2. CASE FlushFailure /\ staged' = staged /\ failed' = failed /\ attempts' = attempts
      BY <2>2, <1>1 DEF AttemptsCounted
    <2>3. CASE FlushFailure /\ ~failed /\ failed' = TRUE /\ attempts' = attempts + 1
      <3>1. attempts = 0
        BY <2>3, <1>1 DEF AttemptsCounted, FlushFailure
      <3> QED
        BY <2>3, <3>1 DEF AttemptsCounted
    <2> QED
      BY <1>3, <2>1, <2>2, <2>3
  <1> QED
    BY <1>4, <1>6, <1>7, <1>8, <1>9 DEF StackInv, Spares

\* The other steps of the thread and of the session touch no device.
LEMMA QuietStep ==
    ASSUME StackInv,
           Check \/ Interrupt \/ Pause \/ Destroy \/ Join \/ UNCHANGED vars
    PROVE  StackInv' /\ \A b \in Data : Spares(b)
  <1>1. TypeOK /\ CacheTruthful /\ NewestKept /\ AttemptsCounted
    BY DEF StackInv
  <1>2. /\ UNCHANGED <<flash, cache, staged, newest, failed, attempts, faults>>
        /\ disturbed' \in {disturbed, FALSE} /\ stop' \in {stop, TRUE}
        /\ thread' \in {thread, "check", "asleep", "timing", "gone"}
        /\ session' \in {session, "busy", "quiet", "closing", "left"}
    BY DEF Check, Interrupt, Pause, Destroy, Join, idle, vars
  <1>3. TypeOK'
    <2>1. disturbed' \in BOOLEAN /\ stop' \in BOOLEAN
      BY <1>1, <1>2 DEF TypeOK
    <2>2. thread' \in {"check", "asleep", "timing", "gone"}
      BY <1>1, <1>2 DEF TypeOK
    <2>3. session' \in {"busy", "quiet", "closing", "closing again", "closed",
                        "unclosed", "left"}
      BY <1>1, <1>2 DEF TypeOK
    <2> QED
      BY <1>1, <1>2, <2>1, <2>2, <2>3 DEF TypeOK
  <1>4. CacheTruthful' /\ NewestKept' /\ AttemptsCounted'
    BY <1>1, <1>2 DEF CacheTruthful, NewestKept, AttemptsCounted
  <1> QED
    BY <1>2, <1>3, <1>4 DEF StackInv, Spares

\* The stack starts with an empty cache and nothing staged.
LEMMA StackInit == Init => StackInv
  <1> SUFFICES ASSUME Init PROVE StackInv
    OBVIOUS
  <1>1. TypeOK
    BY DEF Init, TypeOK, Contents
  <1>2. CacheTruthful /\ NewestKept
    BY DEF Init, CacheTruthful, NewestKept, Blocks
  <1>3. attempts = 0
    BY DEF Init
  <1>4. AttemptsCounted
    BY <1>3 DEF AttemptsCounted
  <1> QED
    BY <1>1, <1>2, <1>4 DEF StackInv

\* Every step keeps the invariant, and the contents under a staged superblock.
LEMMA StackStep ==
    ASSUME StackInv, [Next]_vars
    PROVE  StackInv' /\ \A b \in Data : Spares(b)
  <1>1. CASE Requests
    BY <1>1, ReadStep, EraseStep, ProgramStep, ReplaceStep, StageMetadataStep, PrepareStep
       DEF Requests
  <1>2. CASE IdleFlush \/ Close
    BY <1>2, FlushedStep
  <1>3. CASE Check \/ Interrupt \/ Pause \/ Destroy \/ Join \/ UNCHANGED vars
    BY <1>3, QuietStep
  <1> QED
    BY <1>1, <1>2, <1>3 DEF Next, Thread, Left

\* So the invariant holds throughout.
LEMMA StackInvariant == Spec => []StackInv
  <1>1. StackInv /\ [Next]_vars => StackInv'
    BY StackStep
  <1> QED
    BY <1>1, StackInit, PTL DEF Spec
-----------------------------------------------------------------------------
(* The theorems.                                                           *)

\* The devices, the thread and the session are well typed, for any blocks,
\* contents and failures.
THEOREM StackTypeCorrect == Spec => []TypeOK
  <1>1. StackInv => TypeOK
    BY DEF StackInv
  <1> QED
    BY <1>1, StackInvariant, PTL

\* A cached data block is what the cartridge holds, however calls on it, or on
\* blocks around it, have failed (invalidate before, store after each call).
THEOREM CacheStaysTruthful == Spec => []CacheTruthful
  <1>1. StackInv => CacheTruthful
    BY DEF StackInv
  <1> QED
    BY <1>1, StackInvariant, PTL

\* The newest accepted superblock is staged or on the cartridge, whatever
\* fails and whenever the idle thread, an erase or the close flushes.
THEOREM NewestStaysKept == Spec => []NewestKept
  <1>1. StackInv => NewestKept
    BY DEF StackInv
  <1> QED
    BY <1>1, StackInvariant, PTL

\* Without activity in between, no second idle flush follows a failed one.
THEOREM IdleFlushIsNotRepeated == Spec => []NoHammering
  <1>1. StackInv => NoHammering
    BY DEF StackInv, AttemptsCounted, NoHammering
  <1> QED
    BY <1>1, StackInvariant, PTL

\* No data block loses contents while a superblock is only staged: blocks that
\* are programmed without a flush are blank, because the cache is truthful.
THEOREM NothingErasedUnderStaged == Spec => EraseAfterFlush
  <1> DEFINE A == \A b \in Data : flash[b] # Blank /\ flash'[b] # flash[b] => staged' = Absent
  <1>1. StackInv /\ [Next]_vars => A
    BY StackStep DEF Spares
  <1>2. Spec => [][A]_vars
    BY <1>1, StackInvariant, PTL DEF Spec
  <1> QED
    BY <1>2 DEF EraseAfterFlush
=============================================================================
