------------------------ MODULE LiveFilesystemProofs ------------------------
(***************************************************************************)
(* LiveFilesystem over any device: every variable has its type, no two     *)
(* files share a block, and a put gives up only when there is nothing left *)
(* to reclaim.  Over a sound device, one that writes superblocks through or*)
(* that coalesces them and rewrites each as a whole: memory and device     *)
(* agree, what a mount after a power loss would read is in place, and the *)
(* filesystem implements AtomicStore.                                      *)
(***************************************************************************)
EXTENDS LiveFilesystem, TLAPS

\* Every extent of a manifest lies in the data area, which is what open()
\* requires of each entry it parses.
Bounded(m) == \A n \in Files(m) : Span(m[n]) \subseteq DataBlocks

\* The locals of an operation fit the place where it stands.
Shape ==
    /\ \A s \in {0, 1} : Bounded(sb[s].man)
    /\ staged # Absent => Bounded(staged.record.man)
    /\ Bounded(entries) /\ Bounded(job.old)
    /\ job.stage \in {"move", "sync"} => job.mover \in Files(entries)
    /\ pc = "program" \/ job.stage = "move" => Destination \subseteq DataBlocks
    /\ pc = "program" => job.stage \in {"final", "move"}
    /\ pc = "commit" => job.stage # "none"
    /\ pc \in {"unmounted", "idle"} => job = NoJob

TypeShape == TypeOK /\ Shape

-----------------------------------------------------------------------------
(* Facts about the operators.                                              *)

\* The empty locals and the empty manifest have their types.
LEMMA NoJobType ==
    /\ NoManifest \in Manifests /\ NoJob \in Jobs /\ Invalid \in Superblocks
    /\ Bounded(NoManifest) /\ Files(NoManifest) = {}
  BY ConstantsAssumption, SMTT(30)
     DEF NoManifest, NoJob, Jobs, Invalid, Superblocks, Manifests, Bounded,
         Files, Tasks, Stages, Batches, NoBatch

\* A rewritten pair of superblocks is a pair of superblocks, with bounded
\* manifests when the old and the new ones have them.
LEMMA RewritesType ==
    ASSUME sb \in [{0, 1} -> Superblocks], NEW t \in {0, 1},
           NEW r \in Superblocks, NEW q \in Rewrites(t, r)
    PROVE  /\ q \in [{0, 1} -> Superblocks]
           /\ (Bounded(r.man) /\ \A s \in {0, 1} : Bounded(sb[s].man))
                => \A s \in {0, 1} : Bounded(q[s].man)
<1>1. Invalid \in Superblocks /\ Bounded(Invalid.man)
  BY NoJobType DEF Invalid
<1>2. CASE q = sb
  BY <1>2
<1>3. ASSUME NEW v \in Superblocks, q = [sb EXCEPT ![t] = v],
             Bounded(v.man) \/ v = r
      PROVE  /\ q \in [{0, 1} -> Superblocks]
             /\ (Bounded(r.man) /\ \A s \in {0, 1} : Bounded(sb[s].man))
                  => \A s \in {0, 1} : Bounded(q[s].man)
  <2>1. \A s \in {0, 1} : q[s] = IF s = t THEN v ELSE sb[s]
    BY <1>3
  <2>2. q \in [{0, 1} -> Superblocks]
    BY <1>3
  <2>3. QED
    BY <1>3, <2>1, <2>2
<1>4. QED
  BY <1>1, <1>2, <1>3 DEF Rewrites

\* An interrupted program leaves cells, and touches the programmed blocks only.
LEMMA PartlyProgrammedType ==
    ASSUME data \in [DataBlocks -> Cells \cup {Blank, Torn}],
           NEW S, NEW d \in PartlyProgrammed(S)
    PROVE  /\ d \in [DataBlocks -> Cells \cup {Blank, Torn}]
           /\ \A b \in DataBlocks \ S : d[b] = data[b]
  BY DEF PartlyProgrammed

\* An interrupted erase leaves cells, and touches the erased blocks only.
LEMMA PartlyErasedType ==
    ASSUME data \in [DataBlocks -> Cells \cup {Blank, Torn}],
           NEW S, NEW d \in PartlyErased(S)
    PROVE  /\ d \in [DataBlocks -> Cells \cup {Blank, Torn}]
           /\ \A b \in DataBlocks \ S : d[b] = data[b]
  BY DEF PartlyErased

\* The extent that a search finds consists of candidates.
LEMMA FoundCandidates ==
    ASSUME NEW s, NEW count, NEW marks, FoundAt(s, count, marks)
    PROVE  \A b \in s .. s + count - 1 : IsCandidate(b)
  BY DEF FoundAt, IsFirstFit, Fits
-----------------------------------------------------------------------------
(* Type correctness, whatever the device.                                  *)

\* A formatted device is well typed (format).
LEMMA TypeInit == Init => TypeShape
<1> SUFFICES ASSUME Init PROVE TypeShape
  OBVIOUS
<1>1. [ok |-> TRUE, gen |-> 1, man |-> NoManifest] \in Superblocks
  BY NoJobType DEF Superblocks
<1>2. sb \in [{0, 1} -> Superblocks] /\ \A s \in {0, 1} : sb[s].man = NoManifest
  BY <1>1, NoJobType DEF Init, Invalid
<1>3. TypeOK
  BY <1>2, NoJobType, ConstantsAssumption DEF Init, TypeOK
<1>4. Shape
  BY <1>2, NoJobType DEF Init, Shape, NoJob
<1>5. QED
  BY <1>3, <1>4 DEF TypeShape

\* What every step that ends a mount leaves in RAM.
LEMMA ForgetType ==
    ASSUME TypeShape, Forget, faults' \in Nat,
           sb' \in [{0, 1} -> Superblocks],
           data' \in [DataBlocks -> Cells \cup {Blank, Torn}],
           \A s \in {0, 1} : Bounded(sb'[s].man)
    PROVE  TypeShape'
<1>1. TypeOK'
  BY NoJobType, ConstantsAssumption DEF Forget, TypeOK
<1>2. Shape'
  BY NoJobType DEF Forget, Shape, NoJob
<1>3. QED
  BY <1>1, <1>2 DEF TypeShape

\* The flush of the idle timer preserves the types.
LEMMA TypeIdleFlush == TypeShape /\ IdleFlush => TypeShape'
<1> SUFFICES ASSUME TypeShape, IdleFlush PROVE TypeShape'
  OBVIOUS
<1>1. staged \in [target : {0, 1}, record : Superblocks]
  BY DEF IdleFlush, FlushOK, FlushFails, TypeShape, TypeOK
<1>2. /\ sb' \in [{0, 1} -> Superblocks]
      /\ \A s \in {0, 1} : Bounded(sb'[s].man)
  <2>1. sb' \in Rewrites(staged.target, staged.record)
    BY DEF IdleFlush, FlushOK, FlushFails, Rewrites
  <2>2. QED
    BY <1>1, <2>1, RewritesType
       DEF TypeShape, TypeOK, Shape, IdleFlush, FlushOK, FlushFails
<1>3. staged' \in {staged, Absent} /\ faults' \in Nat
  BY DEF IdleFlush, FlushOK, FlushFails, TypeShape, TypeOK
<1>4. TypeOK'
  BY <1>1, <1>2, <1>3 DEF IdleFlush, memory, TypeShape, TypeOK
<1>5. Shape'
  BY <1>1, <1>2, <1>3 DEF IdleFlush, memory, TypeShape, Shape, Destination
<1>6. QED
  BY <1>4, <1>5 DEF TypeShape

\* Mounting preserves the types (open, removeEmptyFiles).
LEMMA TypeOpen == TypeShape /\ Open => TypeShape'
<1> SUFFICES ASSUME TypeShape, Open PROVE TypeShape'
  OBVIOUS
<1> USE DEF TypeShape
<1>1. PICK s \in {0, 1} :
        /\ generation' = sb[s].gen /\ active' = s
        /\ IF Coalescing /\ WithoutEmpty(sb[s].man) # sb[s].man
           THEN /\ entries' = WithoutEmpty(sb[s].man)
                /\ pc' = "commit"
                /\ job' = [NoJob EXCEPT !.task = "purge", !.stage = "final",
                                        !.old = sb[s].man]
           ELSE entries' = sb[s].man /\ pc' = "idle" /\ UNCHANGED job
  BY DEF Open
<1>2. /\ sb[s] \in Superblocks /\ sb[s].man \in Manifests /\ sb[s].gen \in Nat
      /\ Bounded(sb[s].man)
  BY DEF TypeOK, Superblocks, Shape
<1>3. /\ WithoutEmpty(sb[s].man) \in Manifests /\ Bounded(WithoutEmpty(sb[s].man))
  BY <1>2 DEF WithoutEmpty, Manifests, Bounded, Files
<1>4. job = NoJob /\ pc = "unmounted"
  BY DEF Open, Shape
<1>5. nextFree' \in Nat
  <2>1. entries' \in Manifests
    BY <1>1, <1>2, <1>3
  <2>2. Highest(entries') \subseteq Nat
    BY <2>1, ConstantsAssumption DEF Highest, Manifests, Extents, Files
  <2>3. Cursors(entries') \subseteq Nat
    BY <2>2, ConstantsAssumption DEF Cursors
  <2>4. QED
    BY <2>3 DEF Open
<1>6. job' \in Jobs
  <2>1. CASE job' = job
    BY <2>1, <1>4, NoJobType
  <2>2. CASE job' = [NoJob EXCEPT !.task = "purge", !.stage = "final", !.old = sb[s].man]
    BY <2>2, <1>2, NoJobType DEF Jobs, Tasks, Stages
  <2>3. QED
    BY <1>1, <2>1, <2>2
<1>7. TypeOK'
  BY <1>1, <1>2, <1>3, <1>5, <1>6 DEF Open, device, TypeOK
<1>8. Shape'
  <2>1. /\ Bounded(entries') /\ Bounded(job'.old)
        /\ job'.stage \in {"none", "final"} /\ pc' \in {"idle", "commit"}
        /\ pc' = "commit" => job'.stage # "none"
        /\ pc' = "idle" => job' = NoJob
    <3>1. CASE job' = NoJob /\ entries' = sb[s].man /\ pc' = "idle"
      BY <3>1, <1>2, NoJobType DEF NoJob
    <3>2. CASE /\ entries' = WithoutEmpty(sb[s].man) /\ pc' = "commit"
               /\ job' = [NoJob EXCEPT !.task = "purge", !.stage = "final",
                                       !.old = sb[s].man]
      BY <3>2, <1>2, <1>3 DEF NoJob
    <3>3. QED
      BY <1>1, <1>4, <3>1, <3>2
  <2>2. UNCHANGED <<sb, staged>>
    BY DEF Open, device
  <2>3. QED
    BY <2>1, <2>2 DEF Shape
<1>9. QED
  BY <1>7, <1>8

\* Unmounting preserves the types (close).
LEMMA TypeClose == TypeShape /\ Close => TypeShape'
<1> SUFFICES ASSUME TypeShape, Close PROVE TypeShape'
  OBVIOUS
<1>1. CASE staged = Absent
  BY <1>1, ForgetType DEF Close, TypeShape, TypeOK, Shape
<1>2. CASE staged # Absent
  <2>1. sb' \in Rewrites(staged.target, staged.record)
    BY <1>2 DEF Close, Rewrites
  <2>2. /\ sb' \in [{0, 1} -> Superblocks]
        /\ \A s \in {0, 1} : Bounded(sb'[s].man)
    BY <1>2, <2>1, RewritesType DEF TypeShape, TypeOK, Shape
  <2>3. QED
    BY <2>2, ForgetType DEF Close, TypeShape, TypeOK
<1>3. QED
  BY <1>1, <1>2

\* A power loss preserves the types, whatever it interrupts.
LEMMA TypeCrash == TypeShape /\ Crash => TypeShape'
<1> SUFFICES ASSUME TypeShape, Crash PROVE TypeShape'
  OBVIOUS
<1> USE DEF TypeShape, TypeOK
<1>1. faults' \in Nat
  BY DEF Crash
<1>2. NewRecord \in Superblocks /\ NewRecord.man = entries
  BY DEF NewRecord, Superblocks
<1>3. /\ sb' \in [{0, 1} -> Superblocks]
      /\ \A s \in {0, 1} : Bounded(sb'[s].man)
  <2>1. CASE UNCHANGED sb
    BY <2>1 DEF Shape
  <2>2. CASE staged # Absent /\ sb' \in Rewrites(staged.target, staged.record)
    BY <2>2, RewritesType DEF Shape
  <2>3. CASE sb' \in Rewrites(1 - active, NewRecord)
    BY <1>2, <2>3, RewritesType DEF Shape
  <2>4. QED
    BY <2>1, <2>2, <2>3 DEF Crash, CutShort, NewRecord
<1>4. data' \in [DataBlocks -> Cells \cup {Blank, Torn}]
  BY PartlyProgrammedType, PartlyErasedType DEF Crash, CutShort
<1>5. QED
  BY <1>1, <1>3, <1>4, ForgetType DEF Crash

\* What every step that ends an operation leaves.
LEMMA ReturnType ==
    ASSUME TypeShape, Return,
           sb' \in [{0, 1} -> Superblocks],
           \A s \in {0, 1} : Bounded(sb'[s].man),
           staged' = staged \/ staged' = Absent,
           data' \in [DataBlocks -> Cells \cup {Blank, Torn}],
           entries' \in Manifests, Bounded(entries'),
           generation' \in Nat, active' \in {0, 1}, nextFree' \in Nat,
           unavailable' \in SUBSET DataBlocks, faults' \in Nat
    PROVE  TypeShape'
<1>1. TypeOK'
  BY NoJobType DEF Return, TypeShape, TypeOK
<1>2. Shape'
  BY NoJobType DEF Return, TypeShape, Shape, NoJob
<1>3. QED
  BY <1>1, <1>2 DEF TypeShape

\* Operations that only change the manifest preserve the types.
LEMMA ChangeManifestType ==
    ASSUME TypeShape, NEW task \in Tasks, NEW new \in Manifests, Bounded(new),
           ChangeManifest(task, new)
    PROVE  TypeShape'
<1>1. entries \in Manifests /\ Bounded(entries)
  BY DEF TypeShape, TypeOK, Shape
<1>2. job' \in Jobs /\ job'.old = entries /\ job'.stage = "final"
  BY <1>1, NoJobType DEF ChangeManifest, Jobs, Tasks, Stages
<1>3. TypeOK'
  BY <1>2 DEF ChangeManifest, device, TypeShape, TypeOK
<1>4. Shape'
  BY <1>1, <1>2 DEF ChangeManifest, device, TypeShape, Shape
<1>5. QED
  BY <1>3, <1>4 DEF TypeShape

\* Removing a file preserves the types (removeFile).
LEMMA TypeRemoveFile ==
    ASSUME TypeShape, NEW n \in Names, RemoveFile(n)
    PROVE  TypeShape'
<1> DEFINE new == [entries EXCEPT ![n] = Absent]
<1>1. new \in Manifests /\ Bounded(new)
  BY DEF TypeShape, TypeOK, Shape, Manifests, Bounded, Files
<1>2. QED
  BY <1>1, ChangeManifestType DEF RemoveFile, Tasks

\* Renaming a file preserves the types (renameFile).
LEMMA TypeRename ==
    ASSUME TypeShape, NEW n \in Names, NEW to \in Names, Rename(n, to)
    PROVE  TypeShape'
<1> DEFINE new == [entries EXCEPT ![n] = Absent, ![to] = entries[n]]
<1>1. new \in Manifests /\ Bounded(new)
  BY DEF TypeShape, TypeOK, Shape, Manifests, Bounded, Files, Rename
<1>2. QED
  BY <1>1, ChangeManifestType DEF Rename, Tasks

\* Starting a put preserves the types (putFiles, up to the search).
LEMMA TypePutFiles ==
    ASSUME TypeShape, NEW batch \in Batches, PutFiles(batch)
    PROVE  TypeShape'
<1>1. PICK size \in 0 .. EndData - FirstData :
        /\ size = Total(batch)
        /\ IF \E n \in Files(batch) : BlockCount[batch[n]] > 0
           THEN /\ pc' = "search"
                /\ job' = [NoJob EXCEPT !.task = "put", !.batch = batch,
                                        !.size = size]
                /\ UNCHANGED entries
           ELSE /\ pc' = "commit"
                /\ job' = [NoJob EXCEPT !.task = "put", !.stage = "final",
                                        !.batch = batch, !.old = entries]
                /\ entries' = Placed(entries, batch,
                                     [n \in Files(batch) |-> nextFree])
  BY DEF PutFiles
<1>2. size \in Nat
  OBVIOUS
<1>3. entries \in Manifests /\ Bounded(entries) /\ nextFree \in Nat
  BY DEF TypeShape, TypeOK, Shape
<1>4. CASE \E n \in Files(batch) : BlockCount[batch[n]] > 0
  <2>1. /\ job' \in Jobs /\ Bounded(job'.old) /\ job'.stage = "none"
        /\ pc' = "search" /\ entries' = entries
    <3>1. /\ job' = [NoJob EXCEPT !.task = "put", !.batch = batch, !.size = size]
          /\ pc' = "search" /\ entries' = entries
      BY <1>1, <1>4
    <3>2. job' \in Jobs
      BY <1>2, <3>1, NoJobType DEF Jobs, Tasks
    <3>3. job'.old = NoManifest /\ job'.stage = "none"
      BY <3>1 DEF NoJob
    <3>4. QED
      BY <3>1, <3>2, <3>3, NoJobType
  <2>2. TypeOK'
    BY <2>1 DEF PutFiles, device, TypeShape, TypeOK
  <2>3. Shape'
    BY <2>1 DEF PutFiles, device, TypeShape, Shape
  <2>4. QED
    BY <2>2, <2>3 DEF TypeShape
<1>5. CASE ~\E n \in Files(batch) : BlockCount[batch[n]] > 0
  <2> DEFINE new == Placed(entries, batch, [n \in Files(batch) |-> nextFree])
  <2>1. /\ job' \in Jobs /\ job'.old = entries /\ job'.stage = "final"
        /\ pc' = "commit" /\ entries' = new
    <3>1. /\ job' = [NoJob EXCEPT !.task = "put", !.stage = "final",
                                  !.batch = batch, !.old = entries]
          /\ pc' = "commit" /\ entries' = new
      BY <1>1, <1>5
    <3>2. job' \in Jobs
      BY <1>3, <3>1, NoJobType DEF Jobs, Tasks, Stages
    <3>3. job'.old = entries /\ job'.stage = "final"
      BY <3>1 DEF NoJob
    <3>4. QED
      BY <3>1, <3>2, <3>3
  <2>2. new \in Manifests
    BY <1>3 DEF Placed, Manifests, Extents, Batches, Files
  <2>3. \A n \in Files(new) : Span(new[n]) \subseteq DataBlocks
    <3> SUFFICES ASSUME NEW n \in Files(new) PROVE Span(new[n]) \subseteq DataBlocks
      OBVIOUS
    <3>1. CASE n \in Files(batch)
      <4>1. new[n] = [first |-> nextFree, content |-> batch[n]]
        BY <3>1 DEF Placed, Files
      <4>2. BlockCount[batch[n]] = 0
        BY <3>1, <1>5, ConstantsAssumption DEF Files, Batches
      <4>3. QED
        BY <4>1, <4>2, <1>3 DEF Span
    <3>2. CASE n \notin Files(batch)
      BY <3>2, <1>3 DEF Placed, Files, Bounded
    <3>3. QED
      BY <3>1, <3>2
  <2>4. Bounded(new)
    BY <2>3 DEF Bounded
  <2>5. TypeOK'
    BY <2>1, <2>2 DEF PutFiles, device, TypeShape, TypeOK
  <2>6. Shape'
    BY <1>3, <2>1, <2>4 DEF PutFiles, device, TypeShape, Shape
  <2>7. QED
    BY <2>5, <2>6 DEF TypeShape
<1>6. QED
  BY <1>4, <1>5

\* A search that finds an extent preserves the types (findBlankExtent).
LEMMA TypeSearchFinds == TypeShape /\ SearchFinds => TypeShape'
<1> SUFFICES ASSUME TypeShape, SearchFinds PROVE TypeShape'
  OBVIOUS
<1>1. PICK s \in DataBlocks, marks \in SUBSET DataBlocks :
        /\ FoundAt(s, job.size, marks)
        /\ unavailable' = unavailable \cup marks
        /\ nextFree' = s
        /\ job' = [job EXCEPT !.dest = s, !.stage = "final"]
  BY DEF SearchFinds
<1>2. s \in Nat
  BY ConstantsAssumption DEF DataBlocks
<1>3. job' \in Jobs
  BY <1>1, <1>2 DEF TypeShape, TypeOK, Jobs, Stages
<1>4. TypeOK'
  BY <1>1, <1>2, <1>3 DEF SearchFinds, device, TypeShape, TypeOK
<1>5. Destination' \subseteq DataBlocks
  <2>1. Destination' = s .. s + job.size - 1
    BY <1>1, <1>2 DEF Destination, TypeShape, TypeOK, Jobs
  <2>2. QED
    BY <1>1, <2>1, FoundCandidates DEF IsCandidate, Unreferenced
<1>6. job'.stage = "final" /\ job'.old = job.old
  BY <1>1 DEF TypeShape, TypeOK, Jobs
<1>7. Shape'
  BY <1>5, <1>6 DEF SearchFinds, device, TypeShape, Shape
<1>8. QED
  BY <1>4, <1>7 DEF TypeShape

\* A search that finds none preserves the types (allocateExtent).
LEMMA TypeSearchFails == TypeShape /\ SearchFails => TypeShape'
<1> SUFFICES ASSUME TypeShape, SearchFails PROVE TypeShape'
  OBVIOUS
<1>1. unavailable' \in SUBSET DataBlocks
  BY DEF SearchFails, TypeShape, TypeOK
<1>2. CASE Return
  BY <1>1, <1>2, ReturnType DEF SearchFails, device, TypeShape, TypeOK, Shape
<1>3. CASE pc' \in {"collect", "compact"} /\ UNCHANGED job
  <2>1. TypeOK'
    BY <1>1, <1>3 DEF SearchFails, device, TypeShape, TypeOK
  <2>2. Shape'
    BY <1>3 DEF SearchFails, device, TypeShape, Shape, Destination
  <2>3. QED
    BY <2>1, <2>2 DEF TypeShape
<1>4. QED
  BY <1>2, <1>3 DEF SearchFails

\* Writing a batch preserves the types (putFiles, from the program to the commit).
LEMMA TypeProgramFiles == TypeShape /\ ProgramFiles => TypeShape'
<1> SUFFICES ASSUME TypeShape, ProgramFiles PROVE TypeShape'
  OBVIOUS
<1> USE DEF TypeShape
<1>1. PICK p \in Placements(job.batch, job.dest, job.size) :
        /\ data' = Written(data, job.batch, p)
        /\ entries' = Placed(entries, job.batch, p)
  BY DEF ProgramFiles
<1>2. /\ job \in Jobs /\ job.batch \in Batches /\ job.dest \in Nat /\ job.size \in Nat
      /\ Destination = job.dest .. job.dest + job.size - 1
      /\ Destination \subseteq DataBlocks
      /\ entries \in Manifests /\ Bounded(entries)
  BY DEF ProgramFiles, TypeOK, Shape, Jobs, Destination
<1>3. \A n \in Files(job.batch) :
        /\ job.batch[n] \in Contents /\ BlockCount[job.batch[n]] \in Nat
        /\ p[n] \in Nat
        /\ p[n] .. p[n] + BlockCount[job.batch[n]] - 1 \subseteq Destination
  BY <1>2, ConstantsAssumption DEF Placements, Batches, Files
<1>4. entries' \in Manifests
  BY <1>1, <1>2, <1>3 DEF Placed, Manifests, Extents, Files
<1>5. Bounded(entries')
  <2> SUFFICES ASSUME NEW n \in Files(entries') PROVE Span(entries'[n]) \subseteq DataBlocks
    BY DEF Bounded
  <2>1. CASE n \in Files(job.batch)
    BY <1>1, <1>2, <1>3, <2>1 DEF Placed, Files, Span
  <2>2. CASE n \notin Files(job.batch)
    BY <1>1, <1>2, <2>2 DEF Placed, Files, Bounded
  <2>3. QED
    BY <2>1, <2>2
<1>6. data' \in [DataBlocks -> Cells \cup {Blank, Torn}]
  <2> SUFFICES ASSUME NEW b \in DataBlocks PROVE data'[b] \in Cells \cup {Blank, Torn}
    BY <1>1 DEF Written
  <2>1. CASE \E n \in Files(job.batch) :
               b \in p[n] .. p[n] + BlockCount[job.batch[n]] - 1
    <3> DEFINE n == CHOOSE n \in Files(job.batch) :
               b \in p[n] .. p[n] + BlockCount[job.batch[n]] - 1
    <3>1. n \in Files(job.batch) /\ b \in p[n] .. p[n] + BlockCount[job.batch[n]] - 1
      BY <2>1
    <3>2. data'[b] = [content |-> job.batch[n], index |-> b - p[n]]
      BY <1>1, <2>1 DEF Written
    <3> HIDE DEF n
    <3>3. b - p[n] \in Nat /\ job.batch[n] \in Contents
      <4>1. p[n] \in Nat /\ BlockCount[job.batch[n]] \in Nat /\ job.batch[n] \in Contents
        BY <1>3, <3>1
      <4>2. QED
        BY <3>1, <4>1
    <3>4. QED
      BY <3>2, <3>3 DEF Cells
  <2>2. CASE ~\E n \in Files(job.batch) :
               b \in p[n] .. p[n] + BlockCount[job.batch[n]] - 1
    BY <1>1, <2>2 DEF Written, TypeOK
  <2>3. QED
    BY <2>1, <2>2
<1>7. job' \in Jobs /\ job'.old = entries /\ job'.stage = "final"
  BY <1>2 DEF ProgramFiles, Jobs
<1>8. TypeOK'
  BY <1>2, <1>4, <1>6, <1>7 DEF ProgramFiles, TypeOK
<1>9. Shape'
  BY <1>2, <1>5, <1>7 DEF ProgramFiles, Shape
<1>10. QED
  BY <1>8, <1>9

\* A failed program preserves the types (programPreparedExtent).
LEMMA TypeProgramFails == TypeShape /\ ProgramFails => TypeShape'
<1> SUFFICES ASSUME TypeShape, ProgramFails PROVE TypeShape'
  OBVIOUS
<1>1. /\ job \in Jobs /\ Destination \subseteq DataBlocks /\ faults' \in Nat
      /\ UNCHANGED <<sb, staged, entries, generation, active>>
  BY DEF ProgramFails, TypeShape, TypeOK, Shape
<1>2. data' \in [DataBlocks -> Cells \cup {Blank, Torn}]
  BY PartlyProgrammedType DEF ProgramFails, TypeShape, TypeOK
<1>3. nextFree' \in Nat /\ unavailable' \in SUBSET DataBlocks
  <2>1. PICK last \in Destination :
          /\ unavailable' = unavailable \cup (job.dest .. last)
          /\ nextFree' = last + 1
    BY DEF ProgramFails
  <2>2. last \in Nat /\ job.dest .. last \subseteq Destination
    <3> DEFINE count == IF job.stage = "move"
                        THEN BlockCount[entries[job.mover].content] ELSE job.size
    <3>1. count \in Int
      <4>1. job.stage = "move" => entries[job.mover] \in Extents
        BY DEF TypeShape, TypeOK, Shape, Files, Manifests
      <4>2. QED
        BY <1>1, <4>1, ConstantsAssumption DEF Extents, Jobs
    <3>2. Destination = job.dest .. job.dest - 1 + count /\ job.dest \in Nat
      BY <1>1 DEF Destination, Jobs
    <3> HIDE DEF count
    <3>3. last \in job.dest .. job.dest - 1 + count
      BY <2>1, <3>2
    <3>4. QED
      BY <3>1, <3>2, <3>3
  <2>3. nextFree' \in Nat
    BY <2>1, <2>2
  <2>4. unavailable \in SUBSET DataBlocks
    BY DEF TypeShape, TypeOK
  <2>5. QED
    BY <1>1, <2>1, <2>2, <2>3, <2>4
<1>4. CASE job.stage = "final" /\ job.attempt < 3
  <2>1. /\ pc' = "search"
        /\ job' = [job EXCEPT !.attempt = job.attempt + 1, !.round = 1,
                              !.stage = "none", !.dest = FirstData]
    BY <1>4 DEF ProgramFails
  <2>2. job' \in Jobs /\ job'.stage = "none" /\ job'.old = job.old
    <3>1. job.attempt + 1 \in 1 .. 3
      BY <1>1, <1>4 DEF Jobs
    <3>2. FirstData \in Nat /\ 1 \in 1 .. 3 /\ "none" \in Stages
      BY ConstantsAssumption DEF Stages
    <3>3. QED
      BY <1>1, <2>1, <3>1, <3>2 DEF Jobs
  <2>3. TypeOK'
    BY <1>1, <1>2, <1>3, <2>1, <2>2 DEF TypeShape, TypeOK
  <2>4. Shape'
    BY <1>1, <2>1, <2>2 DEF TypeShape, Shape
  <2>5. QED
    BY <2>3, <2>4 DEF TypeShape
<1>5. CASE Return
  BY <1>1, <1>2, <1>3, <1>5, ReturnType DEF TypeShape, TypeOK, Shape
<1>6. QED
  BY <1>4, <1>5 DEF ProgramFails

\* Starting a collection preserves the types (collectGarbage, compactFiles).
LEMMA TypeCollect == TypeShape /\ Collect => TypeShape'
<1> SUFFICES ASSUME TypeShape, Collect PROVE TypeShape'
  OBVIOUS
<1>1. PICK task \in {"gc", "compact"} : job' = [NoJob EXCEPT !.task = task]
  BY DEF Collect
<1>2. job' \in Jobs /\ job'.stage = "none" /\ job'.old = NoManifest
  BY <1>1, NoJobType DEF Jobs, Tasks, NoJob
<1>3. TypeOK'
  BY <1>2 DEF Collect, device, memory, TypeShape, TypeOK
<1>4. Shape'
  BY <1>2, NoJobType DEF Collect, device, memory, TypeShape, Shape
<1>5. QED
  BY <1>3, <1>4 DEF TypeShape

\* What the callers of collectGarbage do next preserves the types.
LEMMA AfterCollectType ==
    ASSUME TypeShape, AfterCollect,
           UNCHANGED <<sb, staged, entries, generation, active, nextFree, faults>>,
           data' \in [DataBlocks -> Cells \cup {Blank, Torn}],
           unavailable' \in SUBSET DataBlocks
    PROVE  TypeShape'
<1>1. CASE Return
  BY <1>1, ReturnType DEF TypeShape, TypeOK, Shape
<1>2. CASE /\ pc' \in {"search", "compact"}
           /\ \/ job' = [job EXCEPT !.round = 2, !.stage = "none", !.victims = {}]
              \/ job' = [job EXCEPT !.stage = "none", !.victims = {}]
  <2>1. job' \in Jobs /\ job'.stage = "none" /\ job'.old = job.old
    <3>1. job \in Jobs /\ 2 \in 1 .. 3 /\ "none" \in Stages /\ {} \in SUBSET DataBlocks
      BY DEF TypeShape, TypeOK, Stages
    <3>2. CASE job' = [job EXCEPT !.round = 2, !.stage = "none", !.victims = {}]
      BY <3>1, <3>2 DEF Jobs
    <3>3. CASE job' = [job EXCEPT !.stage = "none", !.victims = {}]
      BY <3>1, <3>3 DEF Jobs
    <3>4. QED
      BY <1>2, <3>2, <3>3
  <2>2. TypeOK'
    BY <1>2, <2>1 DEF TypeShape, TypeOK
  <2>3. Shape'
    BY <1>2, <2>1 DEF TypeShape, Shape
  <2>4. QED
    BY <2>2, <2>3 DEF TypeShape
<1>3. QED
  BY <1>1, <1>2 DEF AfterCollect

\* The scan for garbage preserves the types (collectGarbage, its first loop).
LEMMA TypeCollectScan == TypeShape /\ CollectScan => TypeShape'
<1> SUFFICES ASSUME TypeShape, CollectScan PROVE TypeShape'
  OBVIOUS
<1> DEFINE garbage == {b \in Unreferenced : data[b] # Blank}
<1>1. garbage \in SUBSET DataBlocks /\ unavailable' \in SUBSET DataBlocks
  BY DEF CollectScan, Unreferenced, TypeShape, TypeOK
<1>2. CASE AfterCollect
  BY <1>1, <1>2, AfterCollectType DEF CollectScan, device, TypeShape, TypeOK
<1>3. CASE /\ pc' = "commit"
           /\ job' = [job EXCEPT !.stage = "collect", !.victims = garbage]
  <2>1. job' \in Jobs /\ job'.stage = "collect" /\ job'.old = job.old
    BY <1>1, <1>3 DEF TypeShape, TypeOK, Jobs, Stages
  <2>2. TypeOK'
    BY <1>1, <1>3, <2>1 DEF CollectScan, device, TypeShape, TypeOK
  <2>3. Shape'
    BY <1>3, <2>1 DEF CollectScan, device, TypeShape, Shape
  <2>4. QED
    BY <2>2, <2>3 DEF TypeShape
<1>4. QED
  BY <1>2, <1>3 DEF CollectScan

\* An extent that a move can take consists of candidates before the file.
LEMMA CanMoveCandidates ==
    ASSUME NEW n, NEW s, CanMove(n, s)
    PROVE  /\ n \in Files(entries) /\ s \in FirstData ..
                entries[n].first - BlockCount[entries[n].content]
           /\ \A b \in s .. s + BlockCount[entries[n].content] - 1 : IsCandidate(b)
  BY DEF CanMove, IsFirstFit, Fits

\* What a search retires lies in the data area.
LEMMA OccupiedType == \A lo, hi : Occupied(lo, hi) \subseteq DataBlocks
  BY DEF Occupied, Unreferenced

\* Choosing the next move preserves the types (compactFiles).
LEMMA TypeCompactMove == TypeShape /\ CompactMove => TypeShape'
<1> SUFFICES ASSUME TypeShape, CompactMove PROVE TypeShape'
  OBVIOUS
<1>1. PICK n \in Names, s \in DataBlocks :
        /\ CanMove(n, s)
        /\ unavailable' = unavailable
              \cup Inspected({m \in Files(entries) : entries[m].first > entries[n].first})
              \cup Occupied(FirstData, s + BlockCount[entries[n].content])
        /\ job' = [job EXCEPT !.stage = "move", !.mover = n, !.dest = s,
                              !.victims = Span(entries[n])]
  BY DEF CompactMove
<1>2. /\ job \in Jobs /\ entries \in Manifests /\ Bounded(entries) /\ s \in Nat
      /\ unavailable \in SUBSET DataBlocks
  BY ConstantsAssumption DEF TypeShape, TypeOK, Shape, DataBlocks
<1>3. n \in Files(entries) /\ Span(entries[n]) \subseteq DataBlocks
  BY <1>1, <1>2, CanMoveCandidates DEF Bounded
<1>4. unavailable' \in SUBSET DataBlocks
  BY <1>1, <1>2, OccupiedType DEF Inspected
<1>5. /\ job' \in Jobs /\ job'.stage = "move" /\ job'.mover = n /\ job'.dest = s
      /\ job'.old = job.old
  BY <1>1, <1>2, <1>3 DEF Jobs, Stages
<1>6. TypeOK'
  BY <1>4, <1>5 DEF CompactMove, device, TypeShape, TypeOK
<1>7. Destination' \subseteq DataBlocks
  <2>1. Destination' = s .. s - 1 + BlockCount[entries[n].content]
    BY <1>5 DEF CompactMove, Destination
  <2>2. \A b \in s .. s + BlockCount[entries[n].content] - 1 : b \in DataBlocks
    BY <1>1, CanMoveCandidates DEF IsCandidate, Unreferenced
  <2>3. BlockCount[entries[n].content] \in Nat
    BY <1>2, <1>3, ConstantsAssumption DEF Manifests, Extents, Files
  <2>4. QED
    BY <1>2, <2>1, <2>2, <2>3
<1>8. Shape'
  BY <1>3, <1>5, <1>7 DEF CompactMove, device, TypeShape, Shape
<1>9. QED
  BY <1>6, <1>8 DEF TypeShape

\* The end of a compaction preserves the types (compactFiles).
LEMMA TypeCompactDone == TypeShape /\ CompactDone => TypeShape'
<1> SUFFICES ASSUME TypeShape, CompactDone PROVE TypeShape'
  OBVIOUS
<1>1. unavailable' \in SUBSET DataBlocks
  BY OccupiedType DEF CompactDone, Inspected, TypeShape, TypeOK
<1>2. CASE Return
  BY <1>1, <1>2, ReturnType DEF CompactDone, device, TypeShape, TypeOK, Shape
<1>3. CASE pc' = "search" /\ job' = [job EXCEPT !.round = 3]
  <2>1. /\ job' \in Jobs /\ job'.stage = job.stage /\ job'.mover = job.mover
        /\ job'.old = job.old /\ job'.dest = job.dest /\ job'.size = job.size
    BY <1>3 DEF TypeShape, TypeOK, Jobs
  <2>2. TypeOK'
    BY <1>1, <1>3, <2>1 DEF CompactDone, device, TypeShape, TypeOK
  <2>3. Shape'
    BY <1>3, <2>1 DEF CompactDone, device, TypeShape, Shape, Destination
  <2>4. QED
    BY <2>2, <2>3 DEF TypeShape
<1>4. QED
  BY <1>2, <1>3 DEF CompactDone

\* A file that is moved is an extent where it moves to.
LEMMA MovedToSpans ==
    ASSUME NEW e \in Extents, NEW d \in Nat
    PROVE  /\ MovedTo(e, d) = [first |-> d, content |-> e.content]
           /\ MovedTo(e, d) \in Extents
           /\ Span(MovedTo(e, d)) = d .. d + BlockCount[e.content] - 1
<1>1. MovedTo(e, d) = [first |-> d, content |-> e.content]
  BY DEF MovedTo, Extents
<1>2. MovedTo(e, d).first = d /\ MovedTo(e, d).content = e.content
  BY <1>1
<1>3. MovedTo(e, d) \in Extents
  BY <1>1 DEF Extents
<1>4. QED
  BY <1>1, <1>2, <1>3 DEF Span

\* Moving a file preserves the types (compactFiles).
LEMMA TypeProgramMove == TypeShape /\ ProgramMove => TypeShape'
<1> SUFFICES ASSUME TypeShape, ProgramMove PROVE TypeShape'
  OBVIOUS
<1> DEFINE n == job.mover
           e == entries[job.mover]
<1>1. /\ job \in Jobs /\ job.dest \in Nat /\ n \in Files(entries)
      /\ entries \in Manifests /\ Bounded(entries) /\ e \in Extents
      /\ e.content \in Contents /\ BlockCount[e.content] \in Nat
      /\ Destination = job.dest .. job.dest - 1 + BlockCount[e.content]
      /\ Destination \subseteq DataBlocks
  BY ConstantsAssumption DEF ProgramMove, TypeShape, TypeOK, Shape, Jobs,
       Manifests, Extents, Files, Destination
<1>2. nextFree' \in Nat
  BY <1>1 DEF ProgramMove
<1>3. data' \in [DataBlocks -> Cells \cup {Blank, Torn}]
  <2> SUFFICES ASSUME NEW b \in DataBlocks PROVE data'[b] \in Cells \cup {Blank, Torn}
    BY DEF ProgramMove
  <2>1. CASE b \in Destination
    <3>1. b - job.dest \in Nat
      BY <1>1, <2>1
    <3>2. QED
      BY <1>1, <2>1, <3>1 DEF ProgramMove, Cells
  <2>2. CASE b \notin Destination
    BY <2>2 DEF ProgramMove, TypeShape, TypeOK
  <2>3. QED
    BY <2>1, <2>2
<1>4. /\ MovedTo(e, job.dest) \in Extents
      /\ Span(MovedTo(e, job.dest)) = Destination
  <2>1. job.dest .. job.dest + BlockCount[e.content] - 1 = Destination
    BY <1>1
  <2>2. QED
    BY <1>1, <2>1, MovedToSpans
<1>5. entries' = [entries EXCEPT ![n] = MovedTo(e, job.dest)]
  BY DEF ProgramMove
<1>6. entries' \in Manifests
  BY <1>1, <1>4, <1>5 DEF Manifests
<1>7. Bounded(entries') /\ n \in Files(entries')
  BY <1>1, <1>4, <1>5, ConstantsAssumption DEF Bounded, Files, Manifests, Extents
<1>8. /\ job' \in Jobs /\ job'.stage = "move" /\ job'.mover = n /\ job'.old = entries
      /\ job'.dest = job.dest
  BY <1>1 DEF ProgramMove, Jobs
<1>9. Destination' = Destination
  <2>1. entries'[n].content = e.content
    BY <1>1, <1>4, <1>5 DEF MovedTo, Manifests, Extents, Files
  <2>2. QED
    BY <1>8, <2>1 DEF Destination, ProgramMove
<1>10. TypeOK'
  BY <1>2, <1>3, <1>6, <1>8 DEF ProgramMove, TypeShape, TypeOK
<1>11. Shape'
  BY <1>1, <1>7, <1>8, <1>9 DEF ProgramMove, TypeShape, Shape
<1>12. QED
  BY <1>10, <1>11 DEF TypeShape

\* A failed inspection preserves the types.
LEMMA TypeInspectionFails == TypeShape /\ InspectionFails => TypeShape'
<1> SUFFICES ASSUME TypeShape, InspectionFails PROVE TypeShape'
  OBVIOUS
<1>1. unavailable' \in SUBSET DataBlocks /\ faults' \in Nat
  BY OccupiedType DEF InspectionFails, TypeShape, TypeOK
<1>2. QED
  BY <1>1, ReturnType DEF InspectionFails, device, TypeShape, TypeOK, Shape

\* The superblock that a commit writes is well typed (commit).
LEMMA NewRecordType ==
    ASSUME TypeShape
    PROVE  /\ NewRecord \in Superblocks /\ Bounded(NewRecord.man)
           /\ 1 - active \in {0, 1}
  BY DEF TypeShape, TypeOK, Shape, NewRecord, Superblocks

\* A commit preserves the types, staged or written (commit).
LEMMA TypeCommit == TypeShape /\ Commit => TypeShape'
<1> SUFFICES ASSUME TypeShape, Commit PROVE TypeShape'
  OBVIOUS
<1>1. /\ sb' \in [{0, 1} -> Superblocks]
      /\ \A s \in {0, 1} : Bounded(sb'[s].man)
      /\ staged' \in [target : {0, 1}, record : Superblocks] \cup {Absent}
      /\ staged' # Absent => Bounded(staged'.record.man)
  <2>1. CASE Coalescing
    BY <2>1, NewRecordType DEF Commit, TypeShape, TypeOK, Shape
  <2>2. CASE ~Coalescing
    <3>1. sb' \in Rewrites(1 - active, NewRecord)
      BY <2>2 DEF Commit, Rewrites
    <3>2. QED
      BY <2>2, <3>1, NewRecordType, RewritesType DEF Commit, TypeShape, TypeOK, Shape
  <2>3. QED
    BY <2>1, <2>2
<1>2. active' \in {0, 1} /\ generation' \in Nat
  BY NewRecordType DEF Commit, TypeShape, TypeOK
<1>3. /\ UNCHANGED <<data, entries, nextFree, unavailable, faults>>
      /\ job.stage \in {"final", "collect", "move", "sync"}
      /\ job \in Jobs
  BY DEF Commit, TypeShape, TypeOK, Shape, Jobs, Stages
<1>4. CASE job.stage = "final"
  <2>1. /\ pc' = "idle" /\ job' = NoJob
    BY <1>3, <1>4 DEF Commit, CommitReturns, Return
  <2>2. TypeOK'
    BY <1>1, <1>2, <1>3, <2>1, NoJobType DEF TypeShape, TypeOK
  <2>3. Shape'
    BY <1>1, <1>3, <2>1, NoJobType DEF TypeShape, Shape, NoJob
  <2>4. QED
    BY <2>2, <2>3 DEF TypeShape
<1>5. CASE job.stage = "move"
  <2>1. pc' = "commit" /\ job' = [job EXCEPT !.stage = "sync"]
    BY <1>3, <1>5 DEF Commit, CommitReturns
  <2>2. /\ job' \in Jobs /\ job'.stage = "sync" /\ job'.mover = job.mover
        /\ job'.old = job.old
    BY <1>3, <2>1 DEF Jobs, Stages
  <2>3. TypeOK'
    BY <1>1, <1>2, <1>3, <2>1, <2>2 DEF TypeShape, TypeOK
  <2>4. Shape'
    BY <1>1, <1>3, <1>5, <2>1, <2>2 DEF TypeShape, Shape
  <2>5. QED
    BY <2>3, <2>4 DEF TypeShape
<1>6. CASE job.stage \in {"collect", "sync"}
  <2>1. pc' = "barrier" /\ job' = job
    BY <1>3, <1>6 DEF Commit, CommitReturns
  <2>2. TypeOK'
    BY <1>1, <1>2, <1>3, <2>1 DEF TypeShape, TypeOK
  <2>3. Shape'
    BY <1>1, <1>3, <1>6, <2>1 DEF TypeShape, Shape
  <2>4. QED
    BY <2>2, <2>3 DEF TypeShape
<1>7. QED
  BY <1>3, <1>4, <1>5, <1>6

\* A failed commit preserves the types (commit and its callers).
LEMMA TypeCommitFails == TypeShape /\ CommitFails => TypeShape'
<1> SUFFICES ASSUME TypeShape, CommitFails PROVE TypeShape'
  OBVIOUS
<1>1. /\ sb' \in [{0, 1} -> Superblocks]
      /\ \A s \in {0, 1} : Bounded(sb'[s].man)
  BY NewRecordType, RewritesType DEF CommitFails, TypeShape, TypeOK, Shape
<1>2. entries' \in Manifests /\ Bounded(entries')
  BY DEF CommitFails, TypeShape, TypeOK, Shape, Jobs
<1>3. unavailable' \in SUBSET DataBlocks /\ faults' \in Nat
  BY DEF CommitFails, TypeShape, TypeOK, Shape
<1>4. QED
  BY <1>1, <1>2, <1>3, ReturnType DEF CommitFails, TypeShape, TypeOK

\* The barrier before an erase preserves the types, done or failed.
LEMMA TypePrepareForErase ==
    TypeShape /\ (PrepareForErase \/ PrepareForEraseFails) => TypeShape'
<1> SUFFICES ASSUME TypeShape, PrepareForErase \/ PrepareForEraseFails
             PROVE  TypeShape'
  OBVIOUS
<1>1. /\ sb' \in [{0, 1} -> Superblocks]
      /\ \A s \in {0, 1} : Bounded(sb'[s].man)
      /\ staged' \in {staged, Absent}
  <2>1. CASE UNCHANGED <<sb, staged>>
    BY <2>1 DEF TypeShape, TypeOK, Shape
  <2>2. CASE FlushOK \/ FlushFails
    <3>1. staged \in [target : {0, 1}, record : Superblocks]
      BY <2>2 DEF FlushOK, FlushFails, TypeShape, TypeOK
    <3>2. sb' \in Rewrites(staged.target, staged.record) /\ staged' \in {staged, Absent}
      BY <2>2 DEF FlushOK, FlushFails, Rewrites
    <3>3. QED
      BY <2>2, <3>1, <3>2, RewritesType DEF FlushOK, FlushFails, TypeShape, TypeOK, Shape
  <2>3. QED
    BY <2>1, <2>2 DEF PrepareForErase, PrepareForEraseFails
<1>2. CASE PrepareForErase
  <2>1. TypeOK'
    BY <1>1, <1>2 DEF PrepareForErase, memory, TypeShape, TypeOK
  <2>2. Shape'
    BY <1>1, <1>2 DEF PrepareForErase, memory, TypeShape, Shape, Destination
  <2>3. QED
    BY <2>1, <2>2 DEF TypeShape
<1>3. CASE PrepareForEraseFails
  <2>1. faults' \in Nat
    BY <1>3 DEF PrepareForEraseFails, TypeShape, TypeOK
  <2>2. QED
    BY <1>1, <1>3, <2>1, ReturnType
       DEF PrepareForEraseFails, memory, TypeShape, TypeOK, Shape
<1>4. QED
  BY <1>2, <1>3

\* Erasing preserves the types (eraseBlocks and its callers).
LEMMA TypeEraseBlocks == TypeShape /\ EraseBlocks => TypeShape'
<1> SUFFICES ASSUME TypeShape, EraseBlocks PROVE TypeShape'
  OBVIOUS
<1>1. /\ data' \in [DataBlocks -> Cells \cup {Blank, Torn}]
      /\ unavailable' \in SUBSET DataBlocks
      /\ UNCHANGED <<sb, staged, entries, generation, active, faults>>
  BY DEF EraseBlocks, TypeShape, TypeOK
<1>2. CASE AfterCollect /\ UNCHANGED nextFree
  BY <1>1, <1>2, AfterCollectType
<1>3. CASE job.stage = "sync"
  <2>1. /\ nextFree' = FirstData /\ pc' = "compact"
        /\ job' = [job EXCEPT !.stage = "none", !.mover = Absent,
                              !.victims = {}, !.dest = FirstData,
                              !.old = NoManifest]
    BY <1>3 DEF EraseBlocks
  <2>2. job' \in Jobs /\ job'.stage = "none" /\ job'.old = NoManifest
    <3>1. /\ job \in Jobs /\ "none" \in Stages /\ FirstData \in Nat
          /\ NoManifest \in Manifests
      BY ConstantsAssumption, NoJobType DEF TypeShape, TypeOK, Stages
    <3>2. QED
      BY <2>1, <3>1 DEF Jobs
  <2>3. TypeOK'
    BY <1>1, <2>1, <2>2, ConstantsAssumption DEF TypeShape, TypeOK
  <2>4. Shape'
    BY <1>1, <2>1, <2>2, NoJobType DEF TypeShape, Shape
  <2>5. QED
    BY <2>3, <2>4 DEF TypeShape
<1>4. QED
  BY <1>2, <1>3 DEF EraseBlocks

\* A failed erase preserves the types (eraseBlocks and its callers).
LEMMA TypeEraseBlocksFails == TypeShape /\ EraseBlocksFails => TypeShape'
<1> SUFFICES ASSUME TypeShape, EraseBlocksFails PROVE TypeShape'
  OBVIOUS
<1>1. /\ data' \in [DataBlocks -> Cells \cup {Blank, Torn}]
      /\ unavailable' \in SUBSET DataBlocks /\ faults' \in Nat
  BY PartlyErasedType DEF EraseBlocksFails, TypeShape, TypeOK, Jobs
<1>2. QED
  BY <1>1, ReturnType DEF EraseBlocksFails, TypeShape, TypeOK, Shape

\* Every step preserves the types, whatever the device and the file sizes.
LEMMA TypeNext == TypeShape /\ [Next]_vars => TypeShape'
<1> SUFFICES ASSUME TypeShape, [Next]_vars PROVE TypeShape'
  OBVIOUS
<1>1. CASE Open \/ Close \/ IdleFlush
  BY <1>1, TypeOpen, TypeClose, TypeIdleFlush
<1>2. CASE Request
  BY <1>2, TypePutFiles, TypeRemoveFile, TypeRename, TypeCollect DEF Request
<1>3. CASE Proceed
  BY <1>3, TypeSearchFinds, TypeSearchFails, TypeProgramFiles, TypeCollectScan,
     TypeCompactMove, TypeCompactDone, TypeProgramMove, TypeCommit,
     TypePrepareForErase, TypeEraseBlocks DEF Proceed
<1>4. CASE Fault
  BY <1>4, TypeProgramFails, TypeInspectionFails, TypeCommitFails,
     TypePrepareForErase, TypeEraseBlocksFails, TypeCrash DEF Fault
<1>5. CASE UNCHANGED vars
  BY <1>5 DEF vars, TypeShape, TypeOK, Shape, Destination
<1>6. QED
  BY <1>1, <1>2, <1>3, <1>4, <1>5 DEF Next

\* In every state that the filesystem can reach, the device and the memory are
\* well typed and every manifest, on the device, staged or in RAM, names
\* blocks of the data area only.
THEOREM TypeCorrect == Spec => [](TypeOK /\ Shape)
<1>1. Init => TypeShape
  BY TypeInit
<1>2. TypeShape /\ [Next]_vars => TypeShape'
  BY TypeNext
<1>3. QED
  BY <1>1, <1>2, PTL DEF Spec, TypeShape
-----------------------------------------------------------------------------
(* No two files share a block, whatever the device.                        *)

\* Every manifest that is or may become the one in use keeps its files apart,
\* and what is about to be programmed is no block of any file.
Layout ==
    /\ Disjoint(entries) /\ Disjoint(job.old)
    /\ \A s \in {0, 1} : Disjoint(sb[s].man)
    /\ staged # Absent => Disjoint(staged.record.man)
    /\ pc = "program" =>
          \A n \in Files(entries) : Span(entries[n]) \cap Destination = {}

\* What a span and its file are in a well-typed manifest.
LEMMA SpanType ==
    ASSUME NEW m \in Manifests, NEW n \in Files(m)
    PROVE  /\ m[n] \in Extents /\ m[n].first \in Nat /\ m[n].content \in Contents
           /\ BlockCount[m[n].content] \in Nat
           /\ \A b \in Span(m[n]) : b \in Nat /\ b >= m[n].first
  BY ConstantsAssumption DEF Manifests, Files, Extents, Span

\* The empty manifest has no files to share anything.
LEMMA EmptyDisjoint == Disjoint(NoManifest) /\ Disjoint(NoJob.old) /\ Disjoint(Invalid.man)
  BY NoJobType DEF Disjoint, NoJob, Invalid

\* Candidates are no blocks of any file.
LEMMA CandidatesApart ==
    ASSUME NEW S, \A b \in S : IsCandidate(b), NEW n \in Files(entries)
    PROVE  Span(entries[n]) \cap S = {}
  BY DEF IsCandidate, Unreferenced, Referenced

\* The blocks of one file of a batch that is placed at p.
PartOf(p, n) == p[n] .. p[n] + BlockCount[job.batch[n]] - 1

\* The files of a batch lie side by side in its extent; the others stay.
LEMMA PlacedParts ==
    ASSUME TypeShape, pc = "program", job.stage = "final",
           NEW p \in Placements(job.batch, job.dest, job.size)
    PROVE  /\ Destination \subseteq DataBlocks
           /\ \A n \in Files(job.batch) :
                 /\ BlockCount[job.batch[n]] \in Nat /\ p[n] \in Nat
                 /\ PartOf(p, n) \subseteq Destination
           /\ \A n, k \in Files(job.batch) : n # k => PartOf(p, n) \cap PartOf(p, k) = {}
           /\ \A n \in Files(Placed(entries, job.batch, p)) :
                 \/ /\ n \in Files(job.batch)
                    /\ Placed(entries, job.batch, p)[n] =
                          [first |-> p[n], content |-> job.batch[n]]
                    /\ Span(Placed(entries, job.batch, p)[n]) = PartOf(p, n)
                 \/ /\ n \notin Files(job.batch) /\ n \in Files(entries)
                    /\ Placed(entries, job.batch, p)[n] = entries[n]
<1>1. /\ job.batch \in Batches /\ job.dest \in Nat /\ job.size \in Nat
      /\ Destination = job.dest .. job.dest + job.size - 1
      /\ Destination \subseteq DataBlocks
  BY DEF TypeShape, TypeOK, Shape, Jobs, Destination
<1>2. \A n \in Files(job.batch) :
        /\ BlockCount[job.batch[n]] \in Nat /\ p[n] \in Nat
        /\ PartOf(p, n) \subseteq Destination
  BY <1>1, ConstantsAssumption DEF Placements, Batches, Files, PartOf
<1>3. \A n, k \in Files(job.batch) : n # k => PartOf(p, n) \cap PartOf(p, k) = {}
  <2> SUFFICES ASSUME NEW n \in Files(job.batch), NEW k \in Files(job.batch), n # k
               PROVE  PartOf(p, n) \cap PartOf(p, k) = {}
    OBVIOUS
  <2>1. \/ p[n] + BlockCount[job.batch[n]] <= p[k]
        \/ p[k] + BlockCount[job.batch[k]] <= p[n]
    BY DEF Placements
  <2>2. /\ p[n] \in Nat /\ p[k] \in Nat
        /\ BlockCount[job.batch[n]] \in Nat /\ BlockCount[job.batch[k]] \in Nat
    BY <1>2
  <2>3. QED
    BY <2>1, <2>2 DEF PartOf
<1>4. QED
  BY <1>1, <1>2, <1>3 DEF Placed, Files, Span, PartOf

\* A batch in blocks that are no other file's overlaps nothing.
LEMMA PlacedDisjoint ==
    ASSUME TypeShape, Layout, pc = "program", job.stage = "final",
           NEW p \in Placements(job.batch, job.dest, job.size)
    PROVE  Disjoint(Placed(entries, job.batch, p))
<1> DEFINE new == Placed(entries, job.batch, p)
<1>1. /\ Disjoint(entries)
      /\ \A n \in Files(entries) : Span(entries[n]) \cap Destination = {}
  BY DEF Layout
<1>2. /\ \A n \in Files(job.batch) : PartOf(p, n) \subseteq Destination
      /\ \A n, k \in Files(job.batch) : n # k => PartOf(p, n) \cap PartOf(p, k) = {}
      /\ \A n \in Files(new) :
            \/ n \in Files(job.batch) /\ Span(new[n]) = PartOf(p, n)
            \/ n \notin Files(job.batch) /\ n \in Files(entries) /\ new[n] = entries[n]
  BY PlacedParts
<1> HIDE DEF new
<1> SUFFICES ASSUME NEW n \in Files(new), NEW k \in Files(new), n # k
             PROVE  Span(new[n]) \cap Span(new[k]) = {}
  BY DEF Disjoint, new
<1>3. CASE n \in Files(job.batch) /\ k \in Files(job.batch)
  BY <1>2, <1>3
<1>4. CASE n \in Files(job.batch) /\ k \notin Files(job.batch)
  BY <1>1, <1>2, <1>4
<1>5. CASE n \notin Files(job.batch) /\ k \in Files(job.batch)
  BY <1>1, <1>2, <1>5
<1>6. CASE n \notin Files(job.batch) /\ k \notin Files(job.batch)
  BY <1>1, <1>2, <1>6 DEF Disjoint
<1>7. QED
  BY <1>3, <1>4, <1>5, <1>6

\* The manifest after a move, in which the moved file occupies the extent.
MovedEntries == [entries EXCEPT ![job.mover] = MovedTo(@, job.dest)]

\* A move changes the place of one file, and nothing else.
LEMMA MovedParts ==
    ASSUME TypeShape, pc = "program", job.stage = "move"
    PROVE  /\ job.dest \in Nat /\ job.mover \in Files(entries)
           /\ entries[job.mover] \in Extents
           /\ BlockCount[entries[job.mover].content] \in Nat
           /\ Destination = job.dest .. job.dest - 1 +
                                BlockCount[entries[job.mover].content]
           /\ Destination \subseteq DataBlocks
           /\ MovedEntries[job.mover] =
                 [first |-> job.dest, content |-> entries[job.mover].content]
           /\ Span(MovedEntries[job.mover]) = Destination
           /\ Files(MovedEntries) = Files(entries)
           /\ \A k \in Names : k # job.mover => MovedEntries[k] = entries[k]
<1> DEFINE n == job.mover
           e == entries[job.mover]
<1>1. /\ job.dest \in Nat /\ n \in Files(entries) /\ entries \in Manifests
      /\ Destination = job.dest .. job.dest - 1 + BlockCount[e.content]
      /\ Destination \subseteq DataBlocks
  BY DEF TypeShape, TypeOK, Shape, Jobs, Destination
<1>2. e \in Extents /\ BlockCount[e.content] \in Nat
  BY <1>1, SpanType
<1>3. /\ MovedEntries[n] = [first |-> job.dest, content |-> e.content]
      /\ Span(MovedEntries[n]) = Destination
  <2>1. job.dest .. job.dest + BlockCount[e.content] - 1 = Destination
    BY <1>1, <1>2
  <2>2. MovedEntries[n] = MovedTo(e, job.dest)
    BY <1>1 DEF MovedEntries, Manifests, Files
  <2>3. QED
    BY <1>1, <1>2, <2>1, <2>2, MovedToSpans
<1>4. MovedEntries[n] # Absent
  BY <1>1, <1>2, <1>3, ConstantsAssumption DEF Extents
<1>5. Files(MovedEntries) = Files(entries) /\ \A k \in Names : k # n => MovedEntries[k] = entries[k]
  BY <1>1, <1>4 DEF MovedEntries, Files, Manifests
<1>6. QED
  BY <1>1, <1>2, <1>3, <1>5

\* A file moved to blocks that are no file's overlaps nothing.
LEMMA MovedDisjoint ==
    ASSUME TypeShape, Layout, pc = "program", job.stage = "move"
    PROVE  Disjoint(MovedEntries)
<1>1. /\ Disjoint(entries)
      /\ \A n \in Files(entries) : Span(entries[n]) \cap Destination = {}
  BY DEF Layout
<1>2. /\ job.mover \in Files(entries) /\ Files(MovedEntries) = Files(entries)
      /\ Span(MovedEntries[job.mover]) = Destination
      /\ \A k \in Files(entries) : k # job.mover => MovedEntries[k] = entries[k]
  BY MovedParts DEF Files
<1> SUFFICES ASSUME NEW k1 \in Files(MovedEntries), NEW k2 \in Files(MovedEntries), k1 # k2
             PROVE  Span(MovedEntries[k1]) \cap Span(MovedEntries[k2]) = {}
  BY DEF Disjoint
<1>3. CASE k1 = job.mover
  BY <1>1, <1>2, <1>3
<1>4. CASE k2 = job.mover
  BY <1>1, <1>2, <1>4
<1>5. CASE k1 # job.mover /\ k2 # job.mover
  BY <1>1, <1>2, <1>5 DEF Disjoint
<1>6. QED
  BY <1>3, <1>4, <1>5

\* A removal and a rename keep files apart.
LEMMA ChangesDisjoint ==
    ASSUME entries \in Manifests, Disjoint(entries)
    PROVE  /\ \A n \in Names : Disjoint([entries EXCEPT ![n] = Absent])
           /\ \A n \in Files(entries), to \in Names : to \notin Files(entries) =>
                 Disjoint([entries EXCEPT ![n] = Absent, ![to] = entries[n]])
<1>1. ASSUME NEW n \in Names
      PROVE  Disjoint([entries EXCEPT ![n] = Absent])
  <2> DEFINE new == [entries EXCEPT ![n] = Absent]
  <2>1. \A k \in Files(new) : k \in Files(entries) /\ new[k] = entries[k]
    BY DEF Files, Manifests
  <2> HIDE DEF new
  <2>2. Disjoint(new)
    BY <2>1 DEF Disjoint
  <2>3. QED
    BY <2>2 DEF new
<1>2. ASSUME NEW n \in Files(entries), NEW to \in Names, to \notin Files(entries)
      PROVE  Disjoint([entries EXCEPT ![n] = Absent, ![to] = entries[n]])
  <2> DEFINE new == [entries EXCEPT ![n] = Absent, ![to] = entries[n]]
             origin(k) == IF k = to THEN n ELSE k
  <2>1. \A k \in Files(new) : origin(k) \in Files(entries) /\ new[k] = entries[origin(k)]
    BY <1>2 DEF Files, Manifests
  <2>2. \A k1, k2 \in Files(new) : k1 # k2 => origin(k1) # origin(k2)
    BY <1>2 DEF Files, Manifests
  <2> HIDE DEF new, origin
  <2>3. Disjoint(new)
    BY <2>1, <2>2 DEF Disjoint
  <2>4. QED
    BY <2>3 DEF new
<1>3. QED
  BY <1>1, <1>2

\* Files without blocks are apart from everything.
LEMMA EmptyFilesPlaced ==
    ASSUME TypeShape, NEW batch \in Batches,
           ~\E n \in Files(batch) : BlockCount[batch[n]] > 0
    PROVE  \A n \in Files(Placed(entries, batch, [k \in Files(batch) |-> nextFree])) :
              LET new == Placed(entries, batch, [k \in Files(batch) |-> nextFree])
              IN \/ n \in Files(batch) /\ Span(new[n]) = {}
                 \/ n \in Files(entries) /\ new[n] = entries[n]
<1> DEFINE new == Placed(entries, batch, [k \in Files(batch) |-> nextFree])
<1> SUFFICES ASSUME NEW n \in Files(new), n \in Files(batch) PROVE Span(new[n]) = {}
  BY DEF Placed, Files
<1>1. new[n] = [first |-> nextFree, content |-> batch[n]]
  BY DEF Placed, Files
<1>2. BlockCount[batch[n]] = 0 /\ nextFree \in Nat
  BY ConstantsAssumption DEF Files, Batches, TypeShape, TypeOK
<1>3. QED
  BY <1>1, <1>2 DEF Span

\* A rewritten superblock is one of those that were there, or the new one.
LEMMA RewritesDisjoint ==
    ASSUME sb \in [{0, 1} -> Superblocks], NEW t \in {0, 1}, NEW r,
           NEW q \in Rewrites(t, r), Disjoint(r.man),
           \A s \in {0, 1} : Disjoint(sb[s].man)
    PROVE  \A s \in {0, 1} : Disjoint(q[s].man)
<1>1. \A s \in {0, 1} : q[s] \in {sb[s], r, Invalid}
  BY DEF Rewrites
<1>2. QED
  BY <1>1, EmptyDisjoint

\* A step that programs nothing next keeps files apart if what it changes in the
\* manifests does.
LEMMA LayoutStep ==
    ASSUME Layout, pc' # "program", Disjoint(entries'),
           job'.old \in {job.old, entries, NoManifest},
           \A s \in {0, 1} : Disjoint(sb'[s].man),
           staged' \in {staged, Absent} \/ Disjoint(staged'.record.man)
    PROVE  Layout'
<1>1. Disjoint(job'.old)
  BY EmptyDisjoint DEF Layout, NoJob
<1>2. staged' # Absent => Disjoint(staged'.record.man)
  BY DEF Layout
<1>3. QED
  BY <1>1, <1>2 DEF Layout

\* What a flush makes of the superblocks.
LEMMA FlushDisjoint ==
    ASSUME TypeShape, Layout, staged # Absent,
           NEW q \in Rewrites(staged.target, staged.record)
    PROVE  \A s \in {0, 1} : Disjoint(q[s].man)
<1>1. staged \in [target : {0, 1}, record : Superblocks]
  BY DEF TypeShape, TypeOK
<1>2. staged.target \in {0, 1} /\ sb \in [{0, 1} -> Superblocks]
  BY <1>1 DEF TypeShape, TypeOK
<1>3. QED
  BY <1>2, RewritesDisjoint DEF Layout

\* A formatted device holds empty manifests only.
LEMMA LayoutInit == Init => Layout
<1> SUFFICES ASSUME Init PROVE Layout
  OBVIOUS
<1>1. \A s \in {0, 1} : sb[s].man = NoManifest
  BY DEF Init, Invalid
<1>2. QED
  BY <1>1, EmptyDisjoint DEF Init, Layout

\* A mount takes the manifest of a superblock, without its empty files.
LEMMA LayoutOpen ==
    ASSUME TypeShape, Layout, Open
    PROVE  Layout'
<1>1. PICK s \in {0, 1} :
        IF Coalescing /\ WithoutEmpty(sb[s].man) # sb[s].man
           THEN /\ entries' = WithoutEmpty(sb[s].man) /\ pc' = "commit"
                /\ job' = [NoJob EXCEPT !.task = "purge", !.stage = "final",
                                        !.old = sb[s].man]
           ELSE entries' = sb[s].man /\ pc' = "idle" /\ UNCHANGED job
  BY DEF Open
<1>2. Disjoint(sb[s].man) /\ Disjoint(job.old) /\ UNCHANGED <<sb, staged>>
  BY DEF Layout, Open, device
<1>3. Disjoint(WithoutEmpty(sb[s].man))
  BY <1>2 DEF WithoutEmpty, Disjoint, Files
<1>4. Disjoint(entries') /\ Disjoint(job'.old) /\ pc' # "program"
  <2>1. CASE job' = [NoJob EXCEPT !.task = "purge", !.stage = "final", !.old = sb[s].man]
    <3>1. job'.old = sb[s].man
      BY <2>1 DEF NoJob
    <3>2. QED
      BY <1>1, <1>2, <1>3, <3>1
  <2>2. QED
    BY <1>1, <1>2, <1>3, <2>1
<1>5. QED
  BY <1>2, <1>4 DEF Layout

\* Unmounting, a power loss and a flush rewrite superblocks at most.
LEMMA LayoutEnds ==
    ASSUME TypeShape, Layout, Close \/ Crash \/ IdleFlush
    PROVE  Layout'
<1>1. sb \in [{0, 1} -> Superblocks] /\ active \in {0, 1} /\ 1 - active \in {0, 1}
  BY DEF TypeShape, TypeOK
<1>2. NewRecord.man = entries
  BY DEF NewRecord
<1>3. \A s \in {0, 1} : Disjoint(sb'[s].man)
  <2>1. CASE sb' = sb
    BY <2>1 DEF Layout
  <2>2. CASE staged # Absent /\ sb' \in Rewrites(staged.target, staged.record)
    BY <2>2, FlushDisjoint
  <2>3. CASE sb' \in Rewrites(1 - active, NewRecord)
    BY <1>1, <1>2, <2>3, RewritesDisjoint DEF Layout
  <2>4. QED
    BY <2>1, <2>2, <2>3
       DEF Close, Crash, CutShort, IdleFlush, FlushOK, FlushFails, Rewrites, NewRecord
<1>4. CASE Close \/ Crash
  <2>1. /\ entries' = NoManifest /\ job'.old = NoManifest /\ staged' = Absent
        /\ pc' = "unmounted"
    BY <1>4 DEF Close, Crash, Forget, NoJob
  <2>2. QED
    BY <1>3, <2>1, LayoutStep, EmptyDisjoint
<1>5. CASE IdleFlush
  <2>1. UNCHANGED <<entries, job, pc>> /\ staged' \in {staged, Absent}
    BY <1>5 DEF IdleFlush, memory, FlushOK, FlushFails
  <2>2. QED
    BY <1>3, <2>1 DEF Layout, Destination
<1>6. QED
  BY <1>4, <1>5

\* Requests.
LEMMA LayoutRequest ==
    ASSUME TypeShape, Layout, Request
    PROVE  Layout'
<1>1. UNCHANGED <<sb, staged>> /\ entries \in Manifests
  BY DEF Request, PutFiles, RemoveFile, Rename, ChangeManifest, Collect, device,
         TypeShape, TypeOK
<1>2. /\ pc' \in {"commit", "search", "collect"}
      /\ job'.old \in {entries, NoManifest}
  BY DEF Request, PutFiles, RemoveFile, Rename, ChangeManifest, Collect, NoJob
<1>3. Disjoint(entries')
  <2>1. CASE entries' = entries
    BY <2>1 DEF Layout
  <2>2. ASSUME NEW batch \in Batches, PutFiles(batch)
        PROVE  Disjoint(entries')
    <3> DEFINE new == Placed(entries, batch, [n \in Files(batch) |-> nextFree])
    <3>1. CASE ~\E n \in Files(batch) : BlockCount[batch[n]] > 0
      <4>1. \A n \in Files(new) : \/ n \in Files(batch) /\ Span(new[n]) = {}
                                  \/ n \in Files(entries) /\ new[n] = entries[n]
        BY <3>1, EmptyFilesPlaced
      <4>2. entries' = new
        BY <2>2, <3>1 DEF PutFiles
      <4> HIDE DEF new
      <4>3. QED
        BY <4>1, <4>2 DEF Layout, Disjoint
    <3>2. QED
      BY <2>1, <2>2, <3>1 DEF PutFiles
  <2>3. ASSUME NEW n \in Names, RemoveFile(n) \/ \E to \in Names : Rename(n, to)
        PROVE  Disjoint(entries')
    BY <1>1, <2>3, ChangesDisjoint DEF RemoveFile, Rename, ChangeManifest, Layout
  <2>4. CASE Collect
    BY <2>1, <2>4 DEF Collect, memory
  <2>5. QED
    BY <2>2, <2>3, <2>4 DEF Request
<1>4. QED
  BY <1>1, <1>2, <1>3, LayoutStep DEF Layout

\* Searches find blocks of no file, for a batch or for a move.
LEMMA LayoutFound ==
    ASSUME TypeShape, Layout, SearchFinds \/ CompactMove
    PROVE  Layout'
<1>1. UNCHANGED <<sb, staged, entries>>
  BY DEF SearchFinds, CompactMove, device
<1>2. /\ job'.old = job.old
      /\ \A n \in Files(entries) : Span(entries[n]) \cap Destination' = {}
  <2>1. CASE SearchFinds
    <3>1. PICK s \in DataBlocks, marks \in SUBSET DataBlocks :
            /\ FoundAt(s, job.size, marks)
            /\ job' = [job EXCEPT !.dest = s, !.stage = "final"]
      BY <2>1 DEF SearchFinds
    <3>2. /\ Destination' = s .. s - 1 + job.size /\ job'.old = job.old
          /\ s \in Nat /\ job.size \in Nat
      BY <3>1, ConstantsAssumption DEF DataBlocks, Destination, TypeShape, TypeOK, Jobs
    <3>3. \A b \in Destination' : IsCandidate(b)
      BY <3>1, <3>2, FoundCandidates
    <3>4. QED
      BY <3>2, <3>3, CandidatesApart
  <2>2. CASE CompactMove
    <3>1. PICK n \in Names, s \in DataBlocks :
            /\ CanMove(n, s)
            /\ job' = [job EXCEPT !.stage = "move", !.mover = n, !.dest = s,
                                  !.victims = Span(entries[n])]
      BY <2>2 DEF CompactMove
    <3>2. /\ Destination' = s .. s - 1 + BlockCount[entries[n].content]
          /\ job'.old = job.old /\ s \in Nat /\ BlockCount[entries[n].content] \in Nat
      BY <1>1, <3>1, CanMoveCandidates, SpanType, ConstantsAssumption
         DEF DataBlocks, Destination, TypeShape, TypeOK, Jobs
    <3>3. \A b \in Destination' : IsCandidate(b)
      BY <3>1, <3>2, CanMoveCandidates
    <3>4. QED
      BY <3>2, <3>3, CandidatesApart
  <2>3. QED
    BY <2>1, <2>2
<1>3. QED
  BY <1>1, <1>2 DEF Layout

\* Programming an extent puts it into the manifest.
LEMMA LayoutProgram ==
    ASSUME TypeShape, Layout, ProgramFiles \/ ProgramMove
    PROVE  Layout'
<1>1. UNCHANGED <<sb, staged>> /\ pc = "program" /\ pc' = "commit" /\ job'.old = entries
  BY DEF ProgramFiles, ProgramMove, TypeShape, TypeOK, Jobs
<1>2. Disjoint(entries')
  BY PlacedDisjoint, MovedDisjoint DEF ProgramFiles, ProgramMove, MovedEntries
<1>3. QED
  BY <1>1, <1>2, LayoutStep DEF Layout

\* A commit writes the entries, and a failed one puts the old ones back.
LEMMA LayoutCommit ==
    ASSUME TypeShape, Layout, Commit \/ CommitFails
    PROVE  Layout'
<1>1. /\ sb \in [{0, 1} -> Superblocks] /\ active \in {0, 1} /\ 1 - active \in {0, 1}
      /\ NewRecord.man = entries /\ Disjoint(entries) /\ job \in Jobs
  BY DEF TypeShape, TypeOK, NewRecord, Layout
<1>2. CASE Commit
  <2>1. \A s \in {0, 1} : Disjoint(sb'[s].man)
    <3>1. sb' \in Rewrites(1 - active, NewRecord)
      BY <1>2 DEF Commit, Rewrites
    <3>2. QED
      BY <1>1, <3>1, RewritesDisjoint DEF Layout
  <2>2. staged' = staged \/ staged' = [target |-> 1 - active, record |-> NewRecord]
    BY <1>2 DEF Commit
  <2>3. staged' = staged \/ Disjoint(staged'.record.man)
    BY <1>1, <2>2
  <2>4. pc' # "program" /\ job'.old \in {job.old, NoManifest}
    <3>1. job.stage \in {"final", "move", "collect", "sync"}
      BY <1>1, <1>2 DEF Commit, TypeShape, Shape, Jobs, Stages
    <3>2. CASE job.stage = "final"
      BY <1>2, <3>2 DEF Commit, CommitReturns, Return, NoJob
    <3>3. CASE job.stage = "move"
      BY <1>1, <1>2, <3>3 DEF Commit, CommitReturns, Jobs
    <3>4. CASE job.stage \in {"collect", "sync"}
      BY <1>2, <3>4 DEF Commit, CommitReturns
    <3>5. QED
      BY <3>1, <3>2, <3>3, <3>4
  <2>5. QED
    BY <1>1, <1>2, <2>1, <2>3, <2>4, LayoutStep DEF Commit
<1>3. CASE CommitFails
  <2>1. \A s \in {0, 1} : Disjoint(sb'[s].man)
    BY <1>1, <1>3, RewritesDisjoint DEF CommitFails, Layout
  <2>2. /\ staged' = staged /\ pc' # "program" /\ job'.old = NoManifest
        /\ entries' \in {entries, job.old}
    BY <1>3 DEF CommitFails, Return, NoJob
  <2>3. QED
    BY <2>1, <2>2, LayoutStep DEF Layout
<1>4. QED
  BY <1>2, <1>3

\* All other steps leave the manifests alone, but for a flush.
LEMMA LayoutQuiet ==
    ASSUME TypeShape, Layout,
           \/ SearchFails \/ ProgramFails \/ CollectScan \/ CompactDone
           \/ InspectionFails \/ PrepareForErase \/ PrepareForEraseFails
           \/ EraseBlocks \/ EraseBlocksFails
    PROVE  Layout'
<1>1. /\ UNCHANGED entries /\ staged' \in {staged, Absent}
      /\ pc' # "program" /\ job'.old \in {job.old, NoManifest}
  <2>1. job \in Jobs
    BY DEF TypeShape, TypeOK
  <2>2. CASE Return
    BY <2>2 DEF Return, NoJob, SearchFails, ProgramFails, CollectScan, CompactDone,
                InspectionFails, PrepareForErase, PrepareForEraseFails, EraseBlocks,
                EraseBlocksFails, FlushOK, FlushFails, device, memory
  <2>3. CASE AfterCollect /\ (CollectScan \/ EraseBlocks)
    BY <2>1, <2>2, <2>3 DEF AfterCollect, CollectScan, EraseBlocks, device, Jobs
  <2>4. CASE SearchFails \/ PrepareForErase
    BY <2>2, <2>4 DEF SearchFails, PrepareForErase, FlushOK, device, memory
  <2>5. CASE ProgramFails \/ CompactDone
    BY <2>1, <2>2, <2>5 DEF ProgramFails, CompactDone, device, Jobs
  <2>6. CASE CollectScan
    BY <2>1, <2>3, <2>6 DEF CollectScan, device, Jobs
  <2>7. CASE EraseBlocks
    BY <2>1, <2>3, <2>7, NoJobType DEF EraseBlocks, Jobs
  <2>8. QED
    BY <2>2, <2>4, <2>5, <2>6, <2>7
       DEF InspectionFails, PrepareForEraseFails, EraseBlocksFails
<1>2. \A s \in {0, 1} : Disjoint(sb'[s].man)
  <2>1. sb' = sb \/ (staged # Absent /\ sb' \in Rewrites(staged.target, staged.record))
    BY DEF SearchFails, ProgramFails, CollectScan, CompactDone, InspectionFails,
           PrepareForErase, PrepareForEraseFails, EraseBlocks, EraseBlocksFails,
           FlushOK, FlushFails, device, Rewrites
  <2>2. QED
    BY <2>1, FlushDisjoint DEF Layout
<1>3. QED
  BY <1>1, <1>2, LayoutStep DEF Layout

\* Every step keeps the files apart.
LEMMA LayoutNext ==
    ASSUME TypeShape, Layout, [Next]_vars
    PROVE  Layout'
<1>1. CASE UNCHANGED vars
  BY <1>1 DEF vars, Layout, Destination
<1>2. QED
  BY <1>1, LayoutOpen, LayoutEnds, LayoutRequest, LayoutFound, LayoutProgram,
     LayoutCommit, LayoutQuiet DEF Next, Proceed, Fault

\* No two files of any manifest, on the device, staged or in RAM, ever share a
\* block, on either device and through failures that leave an old manifest to
\* be mounted: the allocator takes no block of a file it knows, and what it
\* knows is what the next commit will write (findBlankExtent, putFiles,
\* compactFiles).
THEOREM ExtentsStayDisjoint == Spec => []ExtentsDisjoint
<1>1. Init => TypeShape /\ Layout
  BY TypeInit, LayoutInit
<1>2. TypeShape /\ Layout /\ [Next]_vars => (TypeShape /\ Layout)'
  BY TypeNext, LayoutNext
<1>3. Layout => ExtentsDisjoint
  BY DEF Layout, ExtentsDisjoint, Valid
<1>4. QED
  BY <1>1, <1>2, <1>3, PTL DEF Spec
-----------------------------------------------------------------------------
(* What a mount needs stays readable, over a device that is sound: one that *)
(* writes through, or one that coalesces and rewrites superblocks as a      *)
(* whole.                                                                   *)

Sound == Coalescing => ~TornMetadata

\* The superblocks that a mount could need: a device that writes through keeps
\* both, one that coalesces the newest.
Kept == {s \in Valid : Coalescing => IsNewest(s)}

\* The newest superblock, staged or stored, and the manifest it holds.
Latest == IF staged = Absent THEN sb[active] ELSE staged.record
Committed ==
    IF pc = "commit" /\ job.stage \in {"final", "move"} THEN job.old ELSE entries

\* What makes erasing safe.  Blocks are programmed only where they are blank,
\* which no readable manifest refers to; an operation erases only blocks that
\* its entries do not name, and when it comes to the erase nothing is staged and
\* every superblock that is needed holds these same entries.
Agreement ==
    /\ Valid # {}
    /\ \A s \in Kept : Readable(sb[s].man, data)
    /\ Mounted =>
          /\ Latest.man = Committed /\ Latest.gen = generation
          /\ Readable(entries, data) /\ Readable(Committed, data)
          /\ staged = Absent => active \in Kept
    /\ staged # Absent =>
          /\ Coalescing /\ Mounted /\ staged.target = active /\ staged.record.ok
          /\ \A s \in Valid : \/ sb[s].gen < generation
                              \/ s = active /\ sb[s] = staged.record
    /\ pc = "program" =>
          /\ \A b \in Destination : data[b] = Blank
          /\ job.stage = "move" => job.victims = Span(entries[job.mover])
    /\ pc \in {"commit", "barrier", "erase"} /\ job.stage # "final" =>
          \A n \in Files(entries) : job.victims \cap Span(entries[n]) = {}
    /\ pc \in {"barrier", "erase"} =>
          /\ job.stage \in {"collect", "sync"}
          /\ ~Coalescing => \A s \in Valid : sb[s].man = entries
    /\ pc = "erase" => staged = Absent

IInv == TypeShape /\ Layout /\ Agreement

\* A block of a readable file is not blank.
LEMMA ReadableNotBlank ==
    ASSUME NEW m \in Manifests, Readable(m, data),
           NEW n \in Files(m), NEW b \in Span(m[n])
    PROVE  b \in DataBlocks /\ data[b] # Blank
<1>1. b - m[n].first \in Nat /\ m[n].content \in Contents
  BY SpanType
<1>2. [content |-> m[n].content, index |-> b - m[n].first] \in Cells
  BY <1>1 DEF Cells
<1>3. QED
  BY <1>2, ConstantsAssumption DEF Readable

\* A readable manifest stays readable when the blocks of its files stay.
LEMMA ReadableFrame ==
    ASSUME NEW m, Readable(m, data),
           \A n \in Files(m) : \A b \in Span(m[n]) : data'[b] = data[b]
    PROVE  Readable(m, data')
  BY DEF Readable

\* Programming blank blocks only leaves every readable manifest readable.
LEMMA ReadableProgram ==
    ASSUME NEW m \in Manifests, Readable(m, data),
           \A b \in DataBlocks : data[b] # Blank => data'[b] = data[b]
    PROVE  Readable(m, data')
<1>1. \A n \in Files(m) : \A b \in Span(m[n]) : data'[b] = data[b]
  BY ReadableNotBlank
<1>2. QED
  BY <1>1, ReadableFrame

\* What is typed in a superblock, and in a staged one.
LEMMA SuperblockType ==
    ASSUME TypeShape
    PROVE  /\ sb \in [{0, 1} -> Superblocks] /\ generation \in Nat
           /\ active \in {0, 1} /\ 1 - active \in {0, 1} /\ 1 - active # active
           /\ Valid \subseteq {0, 1} /\ Kept \subseteq Valid
           /\ \A s \in {0, 1} : /\ sb[s].man \in Manifests /\ sb[s].gen \in Nat
                                /\ s \in {active, 1 - active}
           /\ staged # Absent => /\ staged.record \in Superblocks
                                 /\ staged.record.man \in Manifests
           /\ entries \in Manifests /\ job.old \in Manifests /\ job \in Jobs
           /\ Committed \in Manifests
<1>1. staged # Absent => staged.record \in Superblocks
  BY DEF TypeShape, TypeOK
<1>2. entries \in Manifests /\ job.old \in Manifests /\ job \in Jobs
  BY DEF TypeShape, TypeOK, Jobs
<1>3. QED
  BY <1>1, <1>2 DEF TypeShape, TypeOK, Superblocks, Valid, Kept, Committed

\* open() has one candidate: generations are compared, then places.
LEMMA NewestUnique ==
    ASSUME TypeShape, NEW s, NEW t, IsNewest(s), IsNewest(t)
    PROVE  s = t
  BY SuperblockType DEF IsNewest

\* Superblocks that stay are as valid, and as needed, as they were.
LEMMA KeptSame ==
    ASSUME sb' = sb
    PROVE  Valid' = Valid /\ Kept' = Kept
  BY DEF Valid, Kept, IsNewest

\* Some superblock is the newest.
LEMMA NewestExists ==
    ASSUME TypeShape, Valid # {}
    PROVE  \E s \in Valid : IsNewest(s)
<1>1. PICK s \in Valid : TRUE
  OBVIOUS
<1>2. \A x \in {0, 1} : sb[x].gen \in Nat /\ x \in {0, 1}
  BY SuperblockType
<1>3. CASE 0 \in Valid /\ 1 \in Valid
  BY <1>2, <1>3 DEF IsNewest, Valid
<1>4. CASE ~(0 \in Valid /\ 1 \in Valid)
  BY <1>1, <1>2, <1>4 DEF IsNewest, Valid
<1>5. QED
  BY <1>3, <1>4

\* A step that leaves the superblocks alone and programs blank blocks at most
\* keeps what is needed readable.
LEMMA KeptReadable ==
    ASSUME TypeShape, Agreement, sb' = sb,
           \A b \in DataBlocks : data[b] # Blank => data'[b] = data[b]
    PROVE  /\ Valid' = Valid /\ Kept' = Kept
           /\ \A s \in Kept' : Readable(sb'[s].man, data')
  BY KeptSame, SuperblockType, ReadableProgram DEF Agreement

\* An operation that goes on, or ends, where memory and device agree leaves them
\* so.
LEMMA QuietAgreement ==
    ASSUME TypeShape, Agreement, Mounted, Committed = entries,
           UNCHANGED <<sb, staged, active, generation, entries>>,
           pc' \in {"idle", "search", "collect", "compact"},
           \A b \in DataBlocks : data[b] # Blank => data'[b] = data[b]
    PROVE  Agreement'
<1>1. /\ Valid' = Valid /\ Kept' = Kept
      /\ \A s \in Kept' : Readable(sb'[s].man, data')
  BY KeptReadable
<1>2. Readable(entries', data')
  BY SuperblockType, ReadableProgram DEF Agreement
<1>3. Committed' = entries' /\ Mounted' /\ Latest' = Latest
  BY DEF Committed, Mounted, Latest
<1>4. QED
  BY <1>1, <1>2, <1>3 DEF Agreement

\* An operation that starts by changing the manifest leaves the old one both on
\* the device and in the locals, and the new one is readable.
LEMMA ChangeAgreement ==
    ASSUME TypeShape, Agreement, pc = "idle", pc' = "commit",
           job'.stage = "final", job'.old = entries, Readable(entries', data),
           UNCHANGED <<sb, data, staged, active, generation>>
    PROVE  Agreement'
<1>1. /\ Valid' = Valid /\ Kept' = Kept
      /\ \A s \in Kept' : Readable(sb'[s].man, data')
  BY KeptReadable
<1>2. Committed = entries /\ Committed' = entries /\ Mounted /\ Mounted' /\ Latest' = Latest
  BY DEF Committed, Mounted, Latest
<1>3. QED
  BY <1>1, <1>2 DEF Agreement

\* An operation that has programmed blank blocks holds the old entries as its
\* fallback, and what is needed is as readable as before.
LEMMA ProgramAgreement ==
    ASSUME TypeShape, Agreement, pc = "program", pc' = "commit",
           job'.stage \in {"final", "move"}, job'.old = entries, Readable(entries', data'),
           job'.stage = "move" => \A n \in Files(entries') :
               job'.victims \cap Span(entries'[n]) = {},
           UNCHANGED <<sb, staged, active, generation>>,
           \A b \in DataBlocks : data[b] # Blank => data'[b] = data[b]
    PROVE  Agreement'
<1>1. /\ Valid' = Valid /\ Kept' = Kept
      /\ \A s \in Kept' : Readable(sb'[s].man, data')
  BY KeptReadable
<1>2. Committed = entries /\ Committed' = entries /\ Mounted /\ Mounted' /\ Latest' = Latest
  BY DEF Committed, Mounted, Latest
<1>3. Readable(entries, data')
  BY <1>2, SuperblockType, ReadableProgram DEF Agreement
<1>4. QED
  BY <1>1, <1>2, <1>3 DEF Agreement

\* A flush stores what was staged, or leaves what was there, and what is newest
\* then is readable.
LEMMA FlushKeeps ==
    ASSUME TypeShape, Agreement, Sound, staged # Absent,
           sb' \in Rewrites(staged.target, staged.record)
    PROVE  /\ sb' \in {sb, [sb EXCEPT ![active] = staged.record]}
           /\ Valid' # {} /\ \A s \in Kept' : Readable(sb'[s].man, data)
           /\ \A s \in Valid' : \/ sb'[s].gen < generation
                                \/ s = active /\ sb'[s] = staged.record
           /\ sb'[active] = staged.record => active \in Kept'
<1>1. /\ Coalescing /\ Mounted /\ staged.target = active /\ staged.record.ok
      /\ staged.record.man = Committed /\ staged.record.gen = generation
      /\ Readable(Committed, data)
      /\ \A s \in Valid : sb[s].gen < generation \/ (s = active /\ sb[s] = staged.record)
  BY DEF Agreement, Latest
<1>2. sb' \in {sb, [sb EXCEPT ![active] = staged.record]}
  BY <1>1 DEF Rewrites, Sound
<1>3. \A s \in Valid' : \/ sb'[s].gen < generation
                        \/ s = active /\ sb'[s] = staged.record
  BY <1>1, <1>2, SuperblockType DEF Valid
<1>4. \A s \in Valid' : sb'[s].gen \in Nat
  BY <1>2, SuperblockType DEF Valid, Superblocks
<1>5. ASSUME sb'[active] = staged.record
      PROVE  active \in Kept' /\ \A s \in Kept' : s = active
  <2>1. active \in Valid'
    BY <1>1, <1>5, SuperblockType DEF Valid
  <2>2. \A s \in Valid' : s = active \/ sb'[s].gen < sb'[active].gen
    BY <1>1, <1>3, <1>5
  <2>3. \A s \in Valid' : ~(sb'[s].gen < sb'[s].gen)
    BY <1>4
  <2>4. \A s \in Valid' : s = active => IsNewest(s)'
    BY <2>1, <2>2, <2>3, <1>4, SuperblockType DEF IsNewest
  <2>5. \A s \in Valid' : IsNewest(s)' => s = active
    BY <1>4, <2>1, <2>2 DEF IsNewest
  <2>6. QED
    BY <1>1, <2>1, <2>4, <2>5 DEF Kept
<1>6. CASE sb' = sb
  BY <1>2, <1>3, <1>5, <1>6, KeptSame DEF Agreement
<1>7. CASE sb' = [sb EXCEPT ![active] = staged.record]
  <2>1. sb'[active] = staged.record
    BY <1>7, SuperblockType
  <2>2. Valid' # {}
    BY <1>5, <2>1 DEF Kept
  <2>3. QED
    BY <1>1, <1>2, <1>3, <1>5, <2>1, <2>2
<1>8. QED
  BY <1>2, <1>6, <1>7

\* After a format the only valid superblock is the empty one.
LEMMA AgreementInit == Init => Agreement
<1> SUFFICES ASSUME Init PROVE Agreement
  OBVIOUS
<1>1. Valid = {1} /\ sb[1].man = NoManifest
  BY DEF Init, Valid, Invalid
<1>2. Readable(NoManifest, data)
  BY NoJobType DEF Readable
<1>3. QED
  BY <1>1, <1>2 DEF Init, Agreement, Mounted, Kept

\* A mount takes the newest superblock, without its empty files on a card.
LEMMA AgreementOpen ==
    ASSUME TypeShape, Agreement, Open
    PROVE  Agreement'
<1>1. PICK s \in {0, 1} :
        /\ IsNewest(s)
        /\ generation' = sb[s].gen /\ active' = s
        /\ IF Coalescing /\ WithoutEmpty(sb[s].man) # sb[s].man
           THEN /\ entries' = WithoutEmpty(sb[s].man)
                /\ pc' = "commit"
                /\ job' = [NoJob EXCEPT !.task = "purge", !.stage = "final",
                                        !.old = sb[s].man]
           ELSE entries' = sb[s].man /\ pc' = "idle" /\ UNCHANGED job
  BY DEF Open
<1>2. pc = "unmounted" /\ UNCHANGED <<sb, staged, data>> /\ staged = Absent
  BY DEF Open, device, Agreement, Mounted
<1>3. s \in Kept /\ Valid' = Valid /\ Kept' = Kept
  BY <1>1, <1>2, KeptSame DEF IsNewest, Kept
<1>4. Readable(sb[s].man, data)
  BY <1>3 DEF Agreement
<1>5. Readable(WithoutEmpty(sb[s].man), data)
  BY <1>4 DEF Readable, WithoutEmpty, Files
<1>6. /\ Mounted' /\ pc' \in {"commit", "idle"}
      /\ pc' = "commit" => job'.stage = "final" /\ job'.old = sb[s].man
      /\ pc' = "idle" => entries' = sb[s].man
      /\ Readable(entries', data)
  BY <1>1, <1>4, <1>5 DEF Mounted, NoJob
<1>7. Committed' = sb[s].man /\ Latest' = sb[s]
  BY <1>1, <1>2, <1>6 DEF Committed, Latest
<1>8. \A t \in Kept' : Readable(sb'[t].man, data')
  BY <1>2, <1>3 DEF Agreement
<1>9. QED
  BY <1>1, <1>2, <1>3, <1>4, <1>6, <1>7, <1>8 DEF Agreement

\* Unmounting flushes what is staged.
LEMMA AgreementClose ==
    ASSUME TypeShape, Agreement, Sound, Close
    PROVE  Agreement'
<1>1. /\ UNCHANGED data /\ staged' = Absent /\ pc' = "unmounted" /\ ~Mounted'
  BY DEF Close, Forget, Mounted
<1>2. Valid' # {} /\ \A s \in Kept' : Readable(sb'[s].man, data)
  <2>1. CASE staged = Absent
    <3>1. sb' = sb
      BY <2>1 DEF Close
    <3>2. QED
      BY <3>1, KeptSame DEF Agreement
  <2>2. CASE staged # Absent
    <3>1. sb' \in Rewrites(staged.target, staged.record)
      BY <2>2 DEF Close, Rewrites
    <3>2. QED
      BY <2>2, <3>1, FlushKeeps
  <2>3. QED
    BY <2>1, <2>2
<1>3. QED
  BY <1>1, <1>2 DEF Agreement

\* The timer's flush stores what is staged or leaves it staged.
LEMMA AgreementIdleFlush ==
    ASSUME TypeShape, Agreement, Sound, IdleFlush
    PROVE  Agreement'
<1>1. /\ staged # Absent /\ sb' \in Rewrites(staged.target, staged.record)
      /\ UNCHANGED <<data, entries, generation, active, pc, job>>
      /\ \/ staged' = staged
         \/ staged' = Absent /\ sb' = [sb EXCEPT ![staged.target] = staged.record]
  BY DEF IdleFlush, FlushOK, FlushFails, memory, Rewrites
<1>2. /\ Valid' # {} /\ \A s \in Kept' : Readable(sb'[s].man, data)
      /\ \A s \in Valid' : \/ sb'[s].gen < generation
                           \/ s = active /\ sb'[s] = staged.record
      /\ sb'[active] = staged.record => active \in Kept'
  BY <1>1, FlushKeeps
<1>3. /\ Coalescing /\ Mounted /\ staged.target = active /\ staged.record.ok
      /\ Mounted' /\ Committed' = Committed /\ Destination' = Destination
  BY <1>1 DEF Agreement, Mounted, Committed, Destination
<1>4. Latest' = Latest /\ (staged' = Absent => sb'[active] = staged.record)
  BY <1>1, <1>3, SuperblockType DEF Latest
<1>5. QED
  BY <1>1, <1>2, <1>3, <1>4 DEF Agreement

\* Where an erase begins, every superblock that is needed names only blocks
\* that are not erased.
LEMMA ErasedUnneeded ==
    ASSUME TypeShape, Agreement, pc = "erase"
    PROVE  /\ staged = Absent /\ \A s \in Kept : sb[s].man = entries
           /\ Mounted /\ Committed = entries
           /\ \A n \in Files(entries) : job.victims \cap Span(entries[n]) = {}
<1>1. /\ staged = Absent /\ Mounted /\ Committed = entries /\ active \in Kept
      /\ sb[active].man = entries
      /\ \A n \in Files(entries) : job.victims \cap Span(entries[n]) = {}
  BY DEF Agreement, Mounted, Committed, Latest
<1>2. CASE Coalescing
  <2>1. \A s \in Kept : s = active
    BY <1>1, <1>2, NewestUnique DEF Kept
  <2>2. QED
    BY <1>1, <2>1
<1>3. CASE ~Coalescing
  BY <1>1, <1>3 DEF Agreement, Kept
<1>4. QED
  BY <1>2, <1>3

\* An erase, done or not, touches no block of a superblock that is needed.
LEMMA ErasedReadable ==
    ASSUME TypeShape, Agreement, pc = "erase", sb' = sb,
           \A b \in DataBlocks \ job.victims : data'[b] = data[b]
    PROVE  /\ Valid' = Valid /\ Kept' = Kept
           /\ Readable(entries, data') /\ \A s \in Kept' : Readable(sb'[s].man, data')
<1>1. /\ \A s \in Kept : sb[s].man = entries
      /\ Mounted /\ Committed = entries
      /\ \A n \in Files(entries) : job.victims \cap Span(entries[n]) = {}
  BY ErasedUnneeded
<1>2. Readable(entries, data) /\ entries \in Manifests
  BY <1>1, SuperblockType DEF Agreement
<1>3. \A n \in Files(entries) : \A b \in Span(entries[n]) : data'[b] = data[b]
  BY <1>1, <1>2, ReadableNotBlank
<1>4. Readable(entries, data')
  BY <1>2, <1>3, ReadableFrame
<1>5. QED
  BY <1>1, <1>4, KeptSame

\* A device that writes through rewrites the superblock that is not active, by
\* one that is readable: both stay so, and the active one is not touched.
LEMMA RewritesAgreement ==
    ASSUME TypeShape, Agreement, Mounted, ~Coalescing,
           sb' \in Rewrites(1 - active, NewRecord)
    PROVE  /\ sb'[active] = sb[active] /\ active \in Kept' /\ Kept' = Valid'
           /\ \A s \in Kept' : Readable(sb'[s].man, data)
<1>1. /\ active \in Valid /\ Readable(entries, data) /\ NewRecord.man = entries
      /\ \A s \in Valid : Readable(sb[s].man, data)
  BY DEF Agreement, Kept, NewRecord
<1>2. ~Invalid.ok
  BY DEF Invalid
<1>3. \A s \in {0, 1} : sb'[s] \in {sb[s], NewRecord, Invalid}
  BY SuperblockType DEF Rewrites
<1>4. sb'[active] = sb[active]
  BY SuperblockType DEF Rewrites
<1>5. QED
  BY <1>1, <1>2, <1>3, <1>4 DEF Kept, Valid

\* A power loss in a flush, a commit, a program or an erase leaves what a mount
\* needs readable.
LEMMA AgreementCrash ==
    ASSUME TypeShape, Agreement, Sound, Crash
    PROVE  Agreement'
<1>1. /\ Mounted /\ CutShort /\ staged' = Absent /\ pc' = "unmounted" /\ ~Mounted'
  BY DEF Crash, Forget, Mounted
<1> SUFFICES Valid' # {} /\ \A s \in Kept' : Readable(sb'[s].man, data')
  BY <1>1 DEF Agreement
<1>2. CASE UNCHANGED <<sb, data>>
  BY <1>2, KeptSame DEF Agreement
<1>3. CASE /\ staged # Absent
           /\ sb' \in Rewrites(staged.target, staged.record) /\ UNCHANGED data
  BY <1>3, FlushKeeps
<1>4. CASE ~Coalescing /\ sb' \in Rewrites(1 - active, NewRecord) /\ UNCHANGED data
  BY <1>1, <1>4, RewritesAgreement
<1>5. CASE UNCHANGED sb /\ pc = "program" /\ data' \in PartlyProgrammed(Destination)
  <2>1. \A b \in DataBlocks : data[b] # Blank => data'[b] = data[b]
    BY <1>5, PartlyProgrammedType DEF Agreement, TypeShape, TypeOK
  <2>2. QED
    BY <1>5, <2>1, KeptReadable DEF Agreement
<1>6. CASE UNCHANGED sb /\ pc = "erase" /\ data' \in PartlyErased(job.victims)
  <2>1. \A b \in DataBlocks \ job.victims : data'[b] = data[b]
    BY <1>6, PartlyErasedType DEF TypeShape, TypeOK
  <2>2. QED
    BY <1>6, <2>1, ErasedReadable DEF Agreement
<1>7. QED
  BY <1>1, <1>2, <1>3, <1>4, <1>5, <1>6 DEF CutShort, NewRecord

\* A removal keeps the other files.
LEMMA AgreementRemoveFile ==
    ASSUME TypeShape, Agreement, NEW n \in Names, RemoveFile(n)
    PROVE  Agreement'
<1> DEFINE new == [entries EXCEPT ![n] = Absent]
<1>1. ChangeManifest("remove", new)
  BY DEF RemoveFile
<1>2. Readable(entries, data) /\ entries \in Manifests
  BY <1>1, SuperblockType DEF ChangeManifest, CanStart, Agreement, Mounted
<1>3. \A k \in Files(new) : k \in Files(entries) /\ new[k] = entries[k]
  BY <1>2 DEF Files, Manifests
<1>4. Readable(new, data)
  BY <1>2, <1>3 DEF Readable
<1>5. job'.stage = "final" /\ job'.old = entries
  BY <1>1 DEF ChangeManifest, NoJob
<1>6. QED
  BY <1>1, <1>4, <1>5, ChangeAgreement DEF ChangeManifest, CanStart, device

\* A rename moves one extent to another name.
LEMMA AgreementRename ==
    ASSUME TypeShape, Agreement, NEW n \in Names, NEW to \in Names, Rename(n, to)
    PROVE  Agreement'
<1> DEFINE new == [entries EXCEPT ![n] = Absent, ![to] = entries[n]]
           origin(k) == IF k = to THEN n ELSE k
<1>1. ChangeManifest("rename", new) /\ n \in Files(entries) /\ to \notin Files(entries)
  BY DEF Rename
<1>2. Readable(entries, data) /\ entries \in Manifests
  BY <1>1, SuperblockType DEF ChangeManifest, CanStart, Agreement, Mounted
<1>3. \A k \in Files(new) :
        origin(k) \in Files(entries) /\ new[k] = entries[origin(k)]
  BY <1>1, <1>2 DEF Files, Manifests
<1> HIDE DEF new, origin
<1>4. Readable(new, data)
  BY <1>2, <1>3 DEF Readable
<1>5. job'.stage = "final" /\ job'.old = entries /\ entries' = new
  BY <1>1 DEF ChangeManifest, NoJob
<1>6. QED
  BY <1>1, <1>4, <1>5, ChangeAgreement DEF ChangeManifest, CanStart, device

\* Files without blocks have nothing to read; other batches wait for their
\* blocks.
LEMMA AgreementPutFiles ==
    ASSUME TypeShape, Agreement, NEW batch \in Batches, PutFiles(batch)
    PROVE  Agreement'
<1>1. /\ entries \in Manifests /\ pc = "idle" /\ Mounted /\ Committed = entries
      /\ Readable(entries, data)
      /\ UNCHANGED <<sb, data, staged, active, generation>>
  BY SuperblockType DEF PutFiles, CanStart, Agreement, Committed, Mounted, device
<1>2. CASE \E n \in Files(batch) : BlockCount[batch[n]] > 0
  BY <1>1, <1>2, QuietAgreement DEF PutFiles
<1>3. CASE ~\E n \in Files(batch) : BlockCount[batch[n]] > 0
  <2> DEFINE new == Placed(entries, batch, [n \in Files(batch) |-> nextFree])
  <2>1. /\ job'.old = entries /\ job'.stage = "final" /\ pc' = "commit"
        /\ entries' = new
    BY <1>3 DEF PutFiles, NoJob
  <2>2. \A n \in Files(new) :
          \/ n \in Files(batch) /\ Span(new[n]) = {}
          \/ n \in Files(entries) /\ new[n] = entries[n]
    BY <1>3, EmptyFilesPlaced
  <2> HIDE DEF new
  <2>3. Readable(new, data)
    BY <1>1, <2>2 DEF Readable
  <2>4. QED
    BY <1>1, <2>1, <2>3, ChangeAgreement
<1>4. QED
  BY <1>2, <1>3

\* A search that finds blank blocks for a batch or for a move changes nothing
\* yet.
LEMMA FoundAgreement ==
    ASSUME TypeShape, Agreement, pc \in {"search", "compact"}, pc' = "program",
           UNCHANGED <<sb, data, staged, entries, generation, active>>,
           \A b \in Destination' : data[b] = Blank,
           job'.stage = "move" => job'.victims = Span(entries[job'.mover])
    PROVE  Agreement'
<1>1. /\ Mounted /\ Committed = entries /\ Mounted' /\ Committed' = entries
      /\ Latest' = Latest /\ Valid' = Valid /\ Kept' = Kept
  BY KeptSame DEF Mounted, Committed, Latest
<1>2. \A s \in Kept' : Readable(sb'[s].man, data')
  BY <1>1 DEF Agreement
<1>3. QED
  BY <1>1, <1>2 DEF Agreement

\* A search finds blank blocks only.
LEMMA AgreementSearchFinds ==
    ASSUME TypeShape, Agreement, SearchFinds
    PROVE  Agreement'
<1>1. PICK s \in DataBlocks, marks \in SUBSET DataBlocks :
        /\ FoundAt(s, job.size, marks)
        /\ job' = [job EXCEPT !.dest = s, !.stage = "final"]
  BY DEF SearchFinds
<1>2. job'.stage = "final" /\ Destination' = s .. s - 1 + job.size
  BY <1>1 DEF Destination, TypeShape, TypeOK, Jobs
<1>3. s \in Nat /\ job.size \in Nat
  BY ConstantsAssumption DEF DataBlocks, TypeShape, TypeOK, Jobs
<1>4. \A b \in Destination' : data[b] = Blank
  BY <1>1, <1>2, <1>3, FoundCandidates DEF IsCandidate
<1>5. QED
  BY <1>2, <1>4, FoundAgreement DEF SearchFinds, device

\* A failed search ends the operation or goes on to reclaim blocks.
LEMMA AgreementSearchFails ==
    ASSUME TypeShape, Agreement, SearchFails
    PROVE  Agreement'
<1>1. /\ pc = "search" /\ UNCHANGED <<sb, data, staged, active, generation, entries>>
  BY DEF SearchFails, device
<1>2. Mounted /\ Committed = entries
  BY <1>1 DEF Mounted, Committed
<1>3. pc' \in {"idle", "collect", "compact"}
  BY DEF SearchFails, Return
<1>4. QED
  BY <1>1, <1>2, <1>3, QuietAgreement

\* Programming a batch writes its files to blocks that were blank.
LEMMA AgreementProgramFiles ==
    ASSUME TypeShape, Agreement, ProgramFiles
    PROVE  Agreement'
<1>1. PICK p \in Placements(job.batch, job.dest, job.size) :
        /\ data' = Written(data, job.batch, p)
        /\ entries' = Placed(entries, job.batch, p)
  BY DEF ProgramFiles
<1> DEFINE new == Placed(entries, job.batch, p)
<1>2. /\ entries \in Manifests /\ Readable(entries, data)
      /\ \A b \in Destination : data[b] = Blank
  BY SuperblockType DEF ProgramFiles, Agreement, Mounted
<1>3. /\ Destination \subseteq DataBlocks
      /\ \A n \in Files(job.batch) : PartOf(p, n) \subseteq Destination
      /\ \A n, k \in Files(job.batch) : n # k => PartOf(p, n) \cap PartOf(p, k) = {}
      /\ \A n \in Files(new) :
           \/ /\ n \in Files(job.batch)
              /\ new[n] = [first |-> p[n], content |-> job.batch[n]]
              /\ Span(new[n]) = PartOf(p, n)
           \/ n \notin Files(job.batch) /\ n \in Files(entries) /\ new[n] = entries[n]
  BY PlacedParts DEF ProgramFiles
<1>4. \A n \in Files(job.batch) : \A b \in PartOf(p, n) :
        /\ b \in DataBlocks
        /\ data'[b] = [content |-> job.batch[n], index |-> b - p[n]]
  <2> SUFFICES ASSUME NEW n \in Files(job.batch), NEW b \in PartOf(p, n)
               PROVE  /\ b \in DataBlocks
                      /\ data'[b] = [content |-> job.batch[n], index |-> b - p[n]]
    OBVIOUS
  <2>1. b \in DataBlocks
    BY <1>3
  <2> DEFINE k == CHOOSE k \in Files(job.batch) : b \in PartOf(p, k)
  <2>2. k \in Files(job.batch) /\ b \in PartOf(p, k)
    OBVIOUS
  <2>3. k = n
    <3> HIDE DEF k
    <3>1. QED
      BY <2>2, <1>3
  <2>4. data'[b] = [content |-> job.batch[k], index |-> b - p[k]]
    BY <1>1, <2>1 DEF Written, PartOf
  <2>5. QED
    BY <2>1, <2>3, <2>4
<1>5. \A b \in DataBlocks : b \notin Destination => data'[b] = data[b]
  BY <1>1, <1>3 DEF Written, PartOf
<1>6. \A b \in DataBlocks : data[b] # Blank => data'[b] = data[b]
  BY <1>2, <1>5
<1>7. Readable(entries, data')
  BY <1>2, <1>6, ReadableProgram
<1> HIDE DEF new
<1>8. Readable(new, data')
  <2> SUFFICES ASSUME NEW n \in Files(new), NEW b \in Span(new[n])
               PROVE  /\ b \in DataBlocks
                      /\ data'[b] = [content |-> new[n].content,
                                     index |-> b - new[n].first]
    BY DEF Readable
  <2>1. CASE n \in Files(job.batch)
    <3>1. /\ new[n] = [first |-> p[n], content |-> job.batch[n]]
          /\ Span(new[n]) = PartOf(p, n)
      BY <1>3, <2>1
    <3>2. new[n].first = p[n] /\ new[n].content = job.batch[n] /\ b \in PartOf(p, n)
      BY <3>1
    <3>3. QED
      BY <1>4, <2>1, <3>2
  <2>2. CASE n \notin Files(job.batch)
    BY <1>3, <1>7, <2>2 DEF Readable
  <2>3. QED
    BY <2>1, <2>2
<1>9. job'.old = entries /\ job'.stage = "final" /\ entries' = new
  BY <1>1 DEF ProgramFiles, TypeShape, TypeOK, Jobs, new
<1>10. QED
  BY <1>6, <1>8, <1>9, ProgramAgreement DEF ProgramFiles

\* A failed program has touched blank blocks only.
LEMMA AgreementProgramFails ==
    ASSUME TypeShape, Agreement, ProgramFails
    PROVE  Agreement'
<1>1. /\ pc = "program" /\ UNCHANGED <<sb, staged, active, generation, entries>>
  BY DEF ProgramFails
<1>2. \A b \in DataBlocks : data[b] # Blank => data'[b] = data[b]
  BY <1>1, PartlyProgrammedType DEF ProgramFails, Agreement, TypeShape, TypeOK
<1>3. Mounted /\ Committed = entries
  BY <1>1 DEF Mounted, Committed
<1>4. pc' \in {"idle", "search"}
  BY DEF ProgramFails, Return
<1>5. QED
  BY <1>1, <1>2, <1>3, <1>4, QuietAgreement

\* Starting a collection changes nothing.
LEMMA AgreementCollect ==
    ASSUME TypeShape, Agreement, Collect
    PROVE  Agreement'
<1>1. /\ pc = "idle" /\ pc' = "collect"
      /\ UNCHANGED <<sb, data, staged, active, generation, entries>>
  BY DEF Collect, CanStart, device, memory
<1>2. Mounted /\ Committed = entries
  BY <1>1 DEF Mounted, Committed
<1>3. QED
  BY <1>1, <1>2, QuietAgreement

\* Garbage is what no entry refers to.
LEMMA AgreementCollectScan ==
    ASSUME TypeShape, Agreement, CollectScan
    PROVE  Agreement'
<1> DEFINE garbage == {b \in Unreferenced : data[b] # Blank}
<1>1. /\ pc = "collect" /\ UNCHANGED <<sb, data, staged, active, generation, entries>>
  BY DEF CollectScan, device
<1>2. Mounted /\ Committed = entries
  BY <1>1 DEF Mounted, Committed
<1>3. CASE AfterCollect
  <2>1. pc' \in {"idle", "search", "compact"}
    BY <1>3 DEF AfterCollect, Return
  <2>2. QED
    BY <1>1, <1>2, <2>1, QuietAgreement
<1>4. CASE /\ pc' = "commit"
           /\ job' = [job EXCEPT !.stage = "collect", !.victims = garbage]
  <2>1. job'.stage = "collect" /\ job'.victims = garbage
    BY <1>4 DEF TypeShape, TypeOK, Jobs
  <2>2. \A n \in Files(entries) : garbage \cap Span(entries[n]) = {}
    BY DEF Unreferenced, Referenced, Files
  <2>3. Valid' = Valid /\ Kept' = Kept /\ \A s \in Kept' : Readable(sb'[s].man, data')
    BY <1>1, KeptReadable
  <2>4. Committed' = entries /\ Latest' = Latest /\ Mounted'
    BY <1>1, <1>4, <2>1 DEF Committed, Latest, Mounted
  <2>5. QED
    BY <1>1, <1>2, <1>4, <2>1, <2>2, <2>3, <2>4 DEF Agreement
<1>5. QED
  BY <1>3, <1>4 DEF CollectScan

\* A move is to blank blocks, and its source is what the file occupies.
LEMMA AgreementCompactMove ==
    ASSUME TypeShape, Agreement, CompactMove
    PROVE  Agreement'
<1>1. PICK n \in Names, s \in DataBlocks :
        /\ CanMove(n, s)
        /\ job' = [job EXCEPT !.stage = "move", !.mover = n, !.dest = s,
                              !.victims = Span(entries[n])]
  BY DEF CompactMove
<1>2. /\ job'.stage = "move" /\ job'.mover = n /\ job'.dest = s
      /\ job'.victims = Span(entries[n])
  BY <1>1 DEF TypeShape, TypeOK, Jobs
<1>3. /\ pc = "compact" /\ pc' = "program"
      /\ UNCHANGED <<sb, data, staged, active, generation, entries>>
  BY DEF CompactMove, device
<1>4. \A b \in Destination' : data[b] = Blank
  <2>1. Destination' = s .. s - 1 + BlockCount[entries[n].content]
    BY <1>2, <1>3 DEF Destination
  <2>2. s \in Nat /\ BlockCount[entries[n].content] \in Nat
    BY <1>1, CanMoveCandidates, SpanType, ConstantsAssumption
       DEF DataBlocks, TypeShape, TypeOK
  <2>3. QED
    BY <1>1, <2>1, <2>2, CanMoveCandidates DEF IsCandidate
<1>5. QED
  BY <1>2, <1>3, <1>4, FoundAgreement

\* The end of a compaction changes nothing.
LEMMA AgreementCompactDone ==
    ASSUME TypeShape, Agreement, CompactDone
    PROVE  Agreement'
<1>1. /\ pc = "compact" /\ UNCHANGED <<sb, data, staged, active, generation, entries>>
  BY DEF CompactDone, device
<1>2. Mounted /\ Committed = entries
  BY <1>1 DEF Mounted, Committed
<1>3. pc' \in {"idle", "search"}
  BY DEF CompactDone, Return
<1>4. QED
  BY <1>1, <1>2, <1>3, QuietAgreement

\* A moved file is readable at its new place, and nothing is left of it, or of
\* any other file, at the old one.
LEMMA AgreementProgramMove ==
    ASSUME TypeShape, Layout, Agreement, ProgramMove
    PROVE  Agreement'
<1> DEFINE n == job.mover
           e == entries[job.mover]
<1>1. /\ entries \in Manifests /\ Readable(entries, data) /\ Disjoint(entries)
      /\ \A b \in Destination : data[b] = Blank
      /\ job.victims = Span(e)
      /\ \A k \in Files(entries) : Span(entries[k]) \cap Destination = {}
  BY SuperblockType DEF ProgramMove, Agreement, Mounted, Layout
<1>2. /\ job.dest \in Nat /\ n \in Files(entries)
      /\ Destination \subseteq DataBlocks
      /\ MovedEntries[n] = [first |-> job.dest, content |-> e.content]
      /\ Span(MovedEntries[n]) = Destination
      /\ Files(MovedEntries) = Files(entries)
      /\ \A k \in Files(entries) : k # n => MovedEntries[k] = entries[k]
  BY MovedParts DEF ProgramMove, Files
<1>3. \A b \in DataBlocks :
        data'[b] = IF b \in Destination
                   THEN [content |-> e.content, index |-> b - job.dest]
                   ELSE data[b]
  BY DEF ProgramMove
<1>4. \A b \in DataBlocks : data[b] # Blank => data'[b] = data[b]
  BY <1>1, <1>3
<1>5. Readable(entries, data')
  BY <1>1, <1>4, ReadableProgram
<1>6. entries' = MovedEntries
  BY DEF ProgramMove, MovedEntries
<1>7. Readable(MovedEntries, data')
  <2> SUFFICES ASSUME NEW k \in Files(MovedEntries), NEW b \in Span(MovedEntries[k])
               PROVE  /\ b \in DataBlocks
                      /\ data'[b] = [content |-> MovedEntries[k].content,
                                     index |-> b - MovedEntries[k].first]
    BY DEF Readable
  <2>1. CASE k = n
    <3>1. /\ MovedEntries[k].first = job.dest
          /\ MovedEntries[k].content = e.content /\ b \in Destination
      BY <1>2, <2>1
    <3>2. QED
      BY <1>2, <1>3, <3>1
  <2>2. CASE k # n
    BY <1>2, <1>5, <2>2 DEF Readable
  <2>3. QED
    BY <2>1, <2>2
<1>8. \A k \in Files(MovedEntries) : job.victims \cap Span(MovedEntries[k]) = {}
  <2> SUFFICES ASSUME NEW k \in Files(MovedEntries)
               PROVE  Span(e) \cap Span(MovedEntries[k]) = {}
    BY <1>1
  <2>1. CASE k = n
    BY <1>1, <1>2, <2>1
  <2>2. CASE k # n
    BY <1>1, <1>2, <2>2 DEF Disjoint
  <2>3. QED
    BY <2>1, <2>2
<1>9. /\ job'.old = entries /\ job'.stage = "move" /\ job'.victims = job.victims
      /\ pc = "program" /\ pc' = "commit"
      /\ UNCHANGED <<sb, staged, active, generation>>
  BY DEF ProgramMove, TypeShape, TypeOK, Jobs
<1>10. QED
  BY <1>4, <1>6, <1>7, <1>8, <1>9, ProgramAgreement

\* A failed inspection ends the operation.
LEMMA AgreementInspectionFails ==
    ASSUME TypeShape, Agreement, InspectionFails
    PROVE  Agreement'
<1>1. /\ pc \in {"search", "collect", "compact"} /\ pc' = "idle"
      /\ UNCHANGED <<sb, data, staged, active, generation, entries>>
  BY DEF InspectionFails, Return, device
<1>2. Mounted /\ Committed = entries
  BY <1>1 DEF Mounted, Committed
<1>3. QED
  BY <1>1, <1>2, QuietAgreement

\* Superblocks never are of a later generation than the one that is active.
LEMMA GenerationIsLatest ==
    ASSUME TypeShape, Agreement, Mounted, Coalescing
    PROVE  \A s \in Valid : sb[s].gen < generation + 1
<1>1. \A s \in Valid : sb[s].gen \in Nat /\ s \in {0, 1}
  BY SuperblockType
<1>2. CASE staged = Absent
  <2>1. active \in Kept /\ sb[active].gen = generation
    BY <1>2 DEF Agreement, Latest
  <2>2. \A s \in Valid : sb[s].gen <= sb[active].gen
    BY <1>1, <2>1 DEF Kept, IsNewest
  <2>3. QED
    BY <1>1, <2>1, <2>2, SuperblockType
<1>3. CASE staged # Absent
  <2>1. staged.record.gen = generation
    BY <1>3 DEF Agreement, Latest
  <2>2. \A s \in Valid : sb[s].gen < generation \/ sb[s].gen = generation
    BY <1>3, <2>1 DEF Agreement
  <2>3. QED
    BY <1>1, <2>2, SuperblockType
<1>4. QED
  BY <1>2, <1>3

\* A commit makes the entries the latest: on the other superblock, or staged
\* for it.
LEMMA CommitMakesLatest ==
    ASSUME TypeShape, Agreement, Commit
    PROVE  /\ Latest'.man = entries /\ Latest'.gen = generation'
           /\ Valid' # {} /\ \A s \in Kept' : Readable(sb'[s].man, data')
           /\ staged' = Absent => active' \in Kept'
           /\ staged' # Absent =>
                 /\ Coalescing /\ staged'.target = active' /\ staged'.record.ok
                 /\ \A s \in Valid' : \/ sb'[s].gen < generation'
                                      \/ s = active' /\ sb'[s] = staged'.record
           /\ ~Coalescing /\ Committed = entries => \A s \in Valid' : sb'[s].man = entries
<1>1. /\ pc = "commit" /\ Mounted /\ active' = 1 - active
      /\ generation' = generation + 1 /\ UNCHANGED <<data, entries>>
  BY DEF Commit, Mounted
<1>2. NewRecord.ok /\ NewRecord.man = entries /\ NewRecord.gen = generation + 1
  BY DEF NewRecord
<1>3. CASE Coalescing
  <2>1. /\ staged' = [target |-> 1 - active, record |-> NewRecord] /\ sb' = sb
    BY <1>3 DEF Commit
  <2>2. /\ staged'.target = 1 - active /\ staged'.record = NewRecord
    BY <2>1
  <2>3. staged' # Absent
    <3>1. NewRecord \in Superblocks /\ 1 - active \in {0, 1}
      BY SuperblockType, NewRecordType DEF TypeShape
    <3>2. staged' \in [target : {0, 1}, record : Superblocks]
      BY <2>1, <3>1
    <3>3. QED
      BY <3>2, ConstantsAssumption DEF Superblocks, Manifests, Extents
  <2>4. Latest' = NewRecord
    BY <2>2, <2>3 DEF Latest
  <2>5. Valid' = Valid /\ Kept' = Kept
    BY <2>1, KeptSame
  <2>6. \A s \in Valid : sb[s].gen < generation + 1
    BY <1>1, <1>3, GenerationIsLatest
  <2>7. \A s \in Kept' : Readable(sb'[s].man, data')
    BY <1>1, <2>1, <2>5 DEF Agreement
  <2>8. QED
    BY <1>1, <1>2, <1>3, <2>1, <2>2, <2>3, <2>4, <2>5, <2>6, <2>7 DEF Agreement
<1>4. CASE ~Coalescing
  <2>1. /\ sb' = [sb EXCEPT ![1 - active] = NewRecord] /\ staged' = Absent
        /\ staged = Absent
    BY <1>4 DEF Commit, Agreement
  <2>2. sb' \in Rewrites(1 - active, NewRecord)
    BY <2>1 DEF Rewrites
  <2>3. /\ sb'[active] = sb[active] /\ active \in Kept' /\ Kept' = Valid'
        /\ \A s \in Kept' : Readable(sb'[s].man, data)
    BY <1>1, <1>4, <2>2, RewritesAgreement
  <2>4. sb'[active'] = NewRecord /\ Latest' = NewRecord /\ active' \in Valid'
    BY <1>1, <1>2, <2>1, SuperblockType DEF Latest, Valid
  <2>5. sb[active].man = Committed
    BY <1>1, <2>1 DEF Agreement, Latest
  <2>6. \A s \in Valid' : s \in {active, active'}
    BY <1>1, SuperblockType DEF Valid
  <2>7. Committed = entries => \A s \in Valid' : sb'[s].man = entries
    BY <1>2, <2>3, <2>4, <2>5, <2>6
  <2>8. QED
    BY <1>1, <1>2, <2>1, <2>3, <2>4, <2>7
<1>5. QED
  BY <1>3, <1>4

\* A commit ends the operation, or leads to a second one with the same entries,
\* or to the erase.
LEMMA AgreementCommit ==
    ASSUME TypeShape, Agreement, Commit
    PROVE  Agreement'
<1>1. /\ pc = "commit" /\ Mounted /\ UNCHANGED <<data, entries>>
      /\ job \in Jobs /\ job.stage \in {"final", "move", "collect", "sync"}
  BY SuperblockType DEF Commit, Mounted, TypeShape, Shape, Jobs, Stages
<1>2. Readable(entries', data')
  BY <1>1 DEF Agreement
<1>3. CASE job.stage = "final"
  <2>1. pc' = "idle" /\ Mounted'
    BY <1>3 DEF Commit, CommitReturns, Return, Mounted
  <2>2. Committed' = entries'
    BY <2>1 DEF Committed
  <2>3. QED
    BY <1>1, <1>2, <2>1, <2>2, CommitMakesLatest DEF Agreement
<1>4. CASE job.stage = "move"
  <2>1. /\ pc' = "commit" /\ job'.stage = "sync" /\ job'.victims = job.victims
    BY <1>1, <1>4 DEF Commit, CommitReturns, Jobs
  <2>2. \A n \in Files(entries) : job.victims \cap Span(entries[n]) = {}
    BY <1>1, <1>4 DEF Agreement
  <2>3. Committed' = entries' /\ Mounted'
    BY <2>1 DEF Committed, Mounted
  <2>4. QED
    BY <1>1, <1>2, <2>1, <2>2, <2>3, CommitMakesLatest DEF Agreement
<1>5. CASE job.stage \in {"collect", "sync"}
  <2>1. pc' = "barrier" /\ job' = job
    BY <1>1, <1>5 DEF Commit, CommitReturns
  <2>2. \A n \in Files(entries) : job.victims \cap Span(entries[n]) = {}
    BY <1>1, <1>5 DEF Agreement
  <2>3. Committed' = entries' /\ Mounted' /\ Committed = entries
    BY <1>1, <1>5, <2>1 DEF Committed, Mounted
  <2>4. QED
    BY <1>1, <1>2, <1>5, <2>1, <2>2, <2>3, CommitMakesLatest DEF Agreement
<1>6. QED
  BY <1>1, <1>3, <1>4, <1>5

\* After a failed commit the entries are those of the active superblock again.
LEMMA AgreementCommitFails ==
    ASSUME TypeShape, Agreement, CommitFails
    PROVE  Agreement'
<1>1. /\ pc = "commit" /\ Mounted /\ ~Coalescing /\ staged = Absent
      /\ sb' \in Rewrites(1 - active, NewRecord) /\ pc' = "idle"
      /\ UNCHANGED <<data, staged, active, generation>> /\ entries' = Committed
      /\ Readable(Committed, data) /\ sb[active].man = Committed
      /\ sb[active].gen = generation
  BY DEF CommitFails, Agreement, Mounted, Return, Committed, Latest
<1>2. /\ sb'[active] = sb[active] /\ active \in Kept' /\ Kept' = Valid'
      /\ \A s \in Kept' : Readable(sb'[s].man, data)
  BY <1>1, RewritesAgreement
<1>3. Latest' = sb[active] /\ Committed' = entries' /\ Mounted'
  BY <1>1, <1>2 DEF Latest, Committed, Mounted
<1>4. QED
  BY <1>1, <1>2, <1>3 DEF Agreement

\* The barrier flushes what is staged, so that an erase finds nothing staged;
\* where it fails, the operation ends.
LEMMA AgreementPrepareForErase ==
    ASSUME TypeShape, Agreement, Sound, PrepareForErase \/ PrepareForEraseFails
    PROVE  Agreement'
<1>1. /\ pc = "barrier" /\ UNCHANGED <<data, active, generation, entries>>
      /\ \/ sb' = sb /\ staged' = staged
         \/ /\ staged # Absent /\ sb' \in Rewrites(staged.target, staged.record)
            /\ \/ staged' = staged
               \/ /\ staged' = Absent
                  /\ sb' = [sb EXCEPT ![staged.target] = staged.record]
      /\ \/ pc' = "erase" /\ job' = job /\ staged' = Absent
         \/ pc' = "idle"
  BY DEF PrepareForErase, PrepareForEraseFails, FlushOK, FlushFails, memory,
         Rewrites, Return
<1>2. Mounted /\ Mounted' /\ Committed = entries /\ Committed' = entries
  BY <1>1 DEF Mounted, Committed
<1>3. /\ Valid' # {} /\ \A s \in Kept' : Readable(sb'[s].man, data')
      /\ Latest' = Latest
      /\ staged' = Absent => active' \in Kept'
      /\ staged' # Absent =>
            \A s \in Valid' : \/ sb'[s].gen < generation
                              \/ s = active /\ sb'[s] = staged.record
      /\ staged' \in {staged, Absent}
      /\ ~Coalescing => sb' = sb
  <2>1. CASE sb' = sb /\ staged' = staged
    <3>1. Valid' = Valid /\ Kept' = Kept
      BY <2>1, KeptSame
    <3>2. QED
      BY <1>1, <1>2, <2>1, <3>1 DEF Agreement, Latest
  <2>2. CASE /\ staged # Absent /\ sb' \in Rewrites(staged.target, staged.record)
             /\ \/ staged' = staged
                \/ /\ staged' = Absent
                   /\ sb' = [sb EXCEPT ![staged.target] = staged.record]
    <3>1. staged.target = active /\ Coalescing
      BY <2>2 DEF Agreement
    <3>2. /\ Valid' # {} /\ \A s \in Kept' : Readable(sb'[s].man, data)
          /\ \A s \in Valid' : \/ sb'[s].gen < generation
                               \/ s = active /\ sb'[s] = staged.record
          /\ sb'[active] = staged.record => active \in Kept'
      BY <2>2, FlushKeeps
    <3>3. staged' = Absent => sb'[active] = staged.record
      BY <2>2, <3>1, SuperblockType
    <3>4. Latest' = Latest
      BY <1>1, <2>2, <3>3 DEF Latest
    <3>5. QED
      BY <1>1, <2>2, <3>1, <3>2, <3>3, <3>4
  <2>3. QED
    BY <1>1, <2>1, <2>2
<1>4. /\ Readable(entries', data')
      /\ \A n \in Files(entries) : job.victims \cap Span(entries[n]) = {}
      /\ job.stage \in {"collect", "sync"}
      /\ ~Coalescing => \A s \in Valid : sb[s].man = entries
      /\ Latest.man = entries /\ Latest.gen = generation
      /\ staged # Absent => /\ Coalescing /\ staged.target = active
                            /\ staged.record.ok
  BY <1>1, <1>2 DEF Agreement
<1>5. ~Coalescing => \A s \in Valid' : sb'[s].man = entries'
  BY <1>1, <1>3, <1>4, KeptSame
<1>6. QED
  BY <1>1, <1>2, <1>3, <1>4, <1>5 DEF Agreement

\* Erasing, completed or failed, touches no block that is needed.
LEMMA AgreementEraseBlocks ==
    ASSUME TypeShape, Agreement, EraseBlocks \/ EraseBlocksFails
    PROVE  Agreement'
<1>1. /\ pc = "erase" /\ pc' \in {"idle", "search", "compact"}
      /\ UNCHANGED <<sb, staged, active, generation, entries>>
  BY DEF EraseBlocks, EraseBlocksFails, AfterCollect, Return
<1>2. \A b \in DataBlocks \ job.victims : data'[b] = data[b]
  BY PartlyErasedType DEF EraseBlocks, EraseBlocksFails, TypeShape, TypeOK
<1>3. /\ Valid' = Valid /\ Kept' = Kept
      /\ Readable(entries, data') /\ \A s \in Kept' : Readable(sb'[s].man, data')
  BY <1>1, <1>2, ErasedReadable
<1>4. Mounted /\ Committed = entries /\ Mounted' /\ Committed' = entries /\ Latest' = Latest
  BY <1>1 DEF Mounted, Committed, Latest
<1>5. QED
  BY <1>1, <1>3, <1>4 DEF Agreement

\* Every step preserves the agreement of memory and device.
LEMMA AgreementNext ==
    ASSUME TypeShape, Layout, Agreement, Sound, [Next]_vars
    PROVE  Agreement'
<1>1. CASE Open \/ Close \/ IdleFlush
  BY <1>1, AgreementOpen, AgreementClose, AgreementIdleFlush
<1>2. CASE Request
  BY <1>2, AgreementPutFiles, AgreementRemoveFile, AgreementRename,
     AgreementCollect DEF Request
<1>3. CASE Proceed
  BY <1>3, AgreementSearchFinds, AgreementSearchFails, AgreementProgramFiles,
     AgreementCollectScan, AgreementCompactMove, AgreementCompactDone,
     AgreementProgramMove, AgreementCommit, AgreementPrepareForErase,
     AgreementEraseBlocks DEF Proceed
<1>4. CASE Fault
  BY <1>4, AgreementProgramFails, AgreementInspectionFails, AgreementCommitFails,
     AgreementPrepareForErase, AgreementEraseBlocks, AgreementCrash DEF Fault
<1>5. CASE UNCHANGED vars
  <2>1. Valid' = Valid /\ Kept' = Kept
    BY <1>5, KeptSame DEF vars
  <2>2. \A s \in Kept' : Readable(sb'[s].man, data')
    BY <1>5, <2>1 DEF vars, Agreement
  <2>3. Latest' = Latest /\ Committed' = Committed /\ Mounted' = Mounted /\ Destination' = Destination
    BY <1>5 DEF vars, Latest, Committed, Mounted, Destination
  <2>4. QED
    BY <1>5, <2>1, <2>2, <2>3 DEF vars, Agreement
<1>6. QED
  BY <1>1, <1>2, <1>3, <1>4, <1>5 DEF Next

\* Over a sound device memory and device always agree: what is newest, staged or
\* stored, is what the mount works from, and what an erase will take is in no
\* superblock that a mount could need (commit, prepareForErase, eraseBlocks).
THEOREM MemoryAgrees == Sound => (Spec => []IInv)
<1> SUFFICES ASSUME Sound PROVE Spec => []IInv
  OBVIOUS
<1>1. Init => IInv
  BY TypeInit, LayoutInit, AgreementInit DEF IInv
<1>2. IInv /\ [Next]_vars => IInv'
  BY TypeNext, LayoutNext, AgreementNext DEF IInv
<1>3. QED
  BY <1>1, <1>2, PTL DEF Spec

\* Over a device that does not coalesce metadata, at every instant and so after
\* every power loss, some superblock is valid and each valid one describes files
\* that are in place.
THEOREM BothGenerationsStayReadable == ~Coalescing => (Spec => []BothGenerationsReadable)
<1> SUFFICES ASSUME ~Coalescing PROVE Spec => []BothGenerationsReadable
  OBVIOUS
<1>1. Spec => []IInv
  BY MemoryAgrees DEF Sound
<1>2. IInv => BothGenerationsReadable
  BY DEF IInv, Agreement, Kept, BothGenerationsReadable
<1>3. QED
  BY <1>1, <1>2, PTL

\* Over a sound device, coalescing or not, at every instant the superblock that
\* a mount after a power loss would choose describes files that are in place:
\* nothing is erased before the superblock that no longer names it is stored.
THEOREM RecoveryPointStaysReadable == Sound => (Spec => []RecoveryPointReadable)
<1> SUFFICES ASSUME Sound PROVE Spec => []RecoveryPointReadable
  OBVIOUS
<1>1. Spec => []IInv
  BY MemoryAgrees
<1>2. IInv => RecoveryPointReadable
  BY NewestExists DEF IInv, Agreement, Kept, RecoveryPointReadable
<1>3. QED
  BY <1>1, <1>2, PTL
-----------------------------------------------------------------------------
(* A put gives up only when nothing is left to reclaim, whatever the device. *)

\* Every unreferenced block is blank, but for those about to be erased.
BlankBut(S) == \A b \in Unreferenced \ S : data[b] = Blank

\* Once garbage has been collected there is none, apart from the blocks that the
\* move in progress has left or is about to leave.
Reclaiming ==
    /\ pc = "search" /\ job.round # 1 => BlankBut({})
    /\ pc = "compact" => BlankBut({})
    /\ pc = "program" /\ job.stage = "move" =>
          BlankBut({}) /\ job.victims = Span(entries[job.mover])
    /\ pc = "commit" /\ job.stage # "final" => BlankBut(job.victims)
    /\ pc \in {"barrier", "erase"} => BlankBut(job.victims)

\* A step that changes no entry, no block and no victim keeps what was blank.
LEMMA BlankKept ==
    ASSUME entries' = entries, data' = data, NEW S, BlankBut(S)
    PROVE  BlankBut(S)'
  BY DEF BlankBut, Unreferenced, Referenced, Files, Span

\* No operation is about to search again, to move or to erase.
LEMMA NothingReclaimed ==
    ASSUME \/ pc' \in {"idle", "unmounted", "collect"}
           \/ pc' = "search" /\ job'.round = 1
           \/ pc' \in {"program", "commit"} /\ job'.stage = "final"
    PROVE  Reclaiming'
  BY DEF Reclaiming

\* Nothing is being collected when an operation or a mount starts or ends (open,
\* close, putFiles, removeFile, renameFile, collectGarbage, compact).
LEMMA ReclaimingStarts == Open \/ Close \/ Request => Reclaiming'
<1>1. ASSUME Open PROVE Reclaiming'
  <2>1. \/ pc' = "idle"
        \/ pc' = "commit" /\ job'.stage = "final"
    BY <1>1 DEF Open, NoJob
  <2>2. QED
    BY <2>1, NothingReclaimed
<1>2. ASSUME Close PROVE Reclaiming'
  BY <1>2, NothingReclaimed DEF Close, Forget
<1>3. ASSUME Request PROVE Reclaiming'
  <2>1. CASE \E batch \in Batches : PutFiles(batch)
    BY <2>1, NothingReclaimed DEF PutFiles, NoJob
  <2>2. CASE \E n \in Names : RemoveFile(n) \/ \E to \in Names : Rename(n, to)
    BY <2>2, NothingReclaimed DEF RemoveFile, Rename, ChangeManifest, NoJob
  <2>3. CASE Collect
    BY <2>3, NothingReclaimed DEF Collect
  <2>4. QED
    BY <1>3, <2>1, <2>2, <2>3 DEF Request
<1>4. QED
  BY <1>1, <1>2, <1>3

\* Every failure of the device ends the operation, or starts its put over.
LEMMA ReclaimingFault ==
    TypeShape /\ Fault => Reclaiming'
<1> SUFFICES ASSUME TypeShape, Fault PROVE Reclaiming'
  OBVIOUS
<1>1. CASE ProgramFails
  <2>1. job \in Jobs
    BY DEF TypeShape, TypeOK
  <2>2. \/ pc' = "idle"
        \/ pc' = "search" /\ job'.round = 1
    BY <1>1, <2>1 DEF ProgramFails, Return, Jobs
  <2>3. QED
    BY <2>2, NothingReclaimed
<1>2. CASE InspectionFails \/ CommitFails \/ PrepareForEraseFails \/ EraseBlocksFails
  BY <1>2, NothingReclaimed
     DEF InspectionFails, CommitFails, PrepareForEraseFails, EraseBlocksFails, Return
<1>3. CASE Crash
  BY <1>3, NothingReclaimed DEF Crash, Forget
<1>4. QED
  BY <1>1, <1>2, <1>3 DEF Fault

\* A search keeps what is blank, and the first one promises nothing (allocateExtent).
LEMMA ReclaimingSearch ==
    TypeShape /\ Reclaiming /\ (SearchFinds \/ SearchFails) => Reclaiming'
<1> SUFFICES ASSUME TypeShape, Reclaiming, SearchFinds \/ SearchFails
             PROVE Reclaiming'
  OBVIOUS
<1>1. job \in Jobs
  BY DEF TypeShape, TypeOK
<1>2. CASE SearchFinds
  BY <1>1, <1>2, NothingReclaimed DEF SearchFinds, Jobs
<1>3. CASE SearchFails
  <2>1. entries' = entries /\ data' = data /\ pc = "search"
    BY <1>3 DEF SearchFails, device
  <2>2. \/ pc' \in {"idle", "collect"}
        \/ pc' = "compact" /\ job.round # 1
    BY <1>3 DEF SearchFails, Return
  <2>3. CASE pc' = "compact" /\ job.round # 1
    BY <2>1, <2>3, BlankKept DEF Reclaiming
  <2>4. QED
    BY <2>2, <2>3, NothingReclaimed
<1>4. QED
  BY <1>2, <1>3

\* The inspection leaves only its victims occupied (collectGarbage).
LEMMA ReclaimingCollect ==
    TypeShape /\ CollectScan => Reclaiming'
<1> SUFFICES ASSUME TypeShape, CollectScan PROVE Reclaiming'
  OBVIOUS
<1> DEFINE garbage == {b \in Unreferenced : data[b] # Blank}
<1>1. job \in Jobs
  BY DEF TypeShape, TypeOK
<1>2. entries' = entries /\ data' = data /\ BlankBut(garbage)
  BY DEF CollectScan, device, BlankBut
<1>3. CASE garbage = {} /\ AfterCollect
  <2>1. BlankBut({})'
    BY <1>2, <1>3, BlankKept
  <2>2. pc' \in {"idle", "search", "compact"}
    BY <1>3 DEF AfterCollect, Return
  <2>3. QED
    BY <2>1, <2>2 DEF Reclaiming
<1>4. CASE pc' = "commit" /\ job' = [job EXCEPT !.stage = "collect", !.victims = garbage]
  <2>1. Unreferenced' = Unreferenced /\ job'.victims = garbage
    BY <1>1, <1>2, <1>4 DEF Jobs, Unreferenced, Referenced, Files, Span
  <2>2. \A b \in Unreferenced' \ job'.victims : data'[b] = Blank
    BY <1>2, <2>1 DEF BlankBut
  <2>3. pc' = "commit"
    BY <1>4
  <2>4. QED
    BY <2>2, <2>3 DEF Reclaiming, BlankBut
<1>5. QED
  BY <1>3, <1>4 DEF CollectScan

\* Compaction keeps what is blank, until it has programmed the moved file; then
\* that file's source is the only garbage (compactFiles).
LEMMA ReclaimingCompact ==
    TypeShape /\ Reclaiming /\ (CompactMove \/ CompactDone \/ ProgramMove) => Reclaiming'
<1> SUFFICES ASSUME TypeShape, Reclaiming, CompactMove \/ CompactDone \/ ProgramMove
             PROVE Reclaiming'
  OBVIOUS
<1>1. job \in Jobs
  BY DEF TypeShape, TypeOK
<1>2. CASE CompactMove
  <2>1. pc = "compact" /\ entries' = entries /\ data' = data /\ pc' = "program"
    BY <1>2 DEF CompactMove, device, memory
  <2>2. job'.victims = Span(entries'[job'.mover])
    BY <1>1, <1>2, <2>1 DEF CompactMove, Jobs, Span
  <2>3. QED
    BY <2>1, <2>2, BlankKept DEF Reclaiming
<1>3. CASE CompactDone
  <2>1. pc = "compact" /\ entries' = entries /\ data' = data
        /\ pc' \in {"search", "idle"}
    BY <1>3 DEF CompactDone, device, Return
  <2>2. QED
    BY <2>1, BlankKept DEF Reclaiming
<1>4. CASE ProgramMove
  <2>1. pc = "program" /\ job.stage = "move" /\ pc' = "commit" /\ job'.victims = job.victims
        /\ job.victims = Span(entries[job.mover]) /\ BlankBut({})
        /\ entries' = MovedEntries
        /\ \A b \in DataBlocks \ Destination : data'[b] = data[b]
    BY <1>1, <1>4 DEF ProgramMove, Jobs, Reclaiming, MovedEntries
  <2>2. ASSUME NEW b \in Unreferenced', b \notin job'.victims
        PROVE  data'[b] = Blank
    <3>1. b \in DataBlocks /\ \A n \in Files(MovedEntries) : b \notin Span(MovedEntries[n])
      BY <2>1, <2>2 DEF Unreferenced, Referenced, Files, Span
    <3>2. b \notin Destination
      BY <2>1, <3>1, MovedParts
    <3>3. \A n \in Files(entries) : b \notin Span(entries[n])
      BY <2>1, <2>2, <3>1, MovedParts DEF Files
    <3>4. b \in Unreferenced
      BY <3>1, <3>3 DEF Unreferenced, Referenced
    <3>5. QED
      BY <2>1, <3>1, <3>2, <3>4 DEF BlankBut
  <2>3. QED
    BY <2>1, <2>2 DEF Reclaiming, BlankBut
<1>5. QED
  BY <1>2, <1>3, <1>4

\* A manifest may be stored at any time, and the barrier changes no block
\* (commit, prepareForErase).
LEMMA ReclaimingCommit ==
    TypeShape /\ Reclaiming /\ (Commit \/ PrepareForErase) => Reclaiming'
<1> SUFFICES ASSUME TypeShape, Reclaiming, Commit \/ PrepareForErase
             PROVE Reclaiming'
  OBVIOUS
<1>1. job \in Jobs
  BY DEF TypeShape, TypeOK
<1>2. entries' = entries /\ data' = data
  BY DEF Commit, PrepareForErase, memory
<1>3. CASE Commit
  <2>1. CASE job.stage = "final"
    BY <1>3, <2>1, NothingReclaimed DEF Commit, CommitReturns, Return
  <2>2. CASE job.stage # "final"
    <3>1. job.stage \in {"collect", "move", "sync"}
      BY <1>1, <1>3, <2>2 DEF Commit, TypeShape, Shape, Jobs, Stages
    <3>2. pc' \in {"commit", "barrier"} /\ job'.victims = job.victims
      BY <1>1, <1>3, <3>1 DEF Commit, CommitReturns, Jobs
    <3>3. BlankBut(job.victims)
      BY <1>3, <2>2 DEF Commit, Reclaiming
    <3>4. BlankBut(job.victims)'
      BY <1>2, <3>2, <3>3 DEF BlankBut, Unreferenced, Referenced, Files, Span
    <3>5. QED
      BY <3>2, <3>4 DEF Reclaiming
  <2>3. QED
    BY <2>1, <2>2
<1>4. CASE PrepareForErase
  BY <1>2, <1>4 DEF PrepareForErase, Reclaiming, BlankBut, Unreferenced, Referenced, Files, Span
<1>5. QED
  BY <1>3, <1>4

\* The erase blanks exactly what was still occupied (eraseBlocks).
LEMMA ReclaimingErase ==
    TypeShape /\ Reclaiming /\ EraseBlocks => Reclaiming'
<1> SUFFICES ASSUME TypeShape, Reclaiming, EraseBlocks PROVE Reclaiming'
  OBVIOUS
<1>1. pc = "erase" /\ entries' = entries /\ BlankBut(job.victims)
      /\ data' = [b \in DataBlocks |-> IF b \in job.victims THEN Blank ELSE data[b]]
  BY DEF EraseBlocks, Reclaiming
<1>2. Unreferenced' = Unreferenced /\ Unreferenced \subseteq DataBlocks
  BY <1>1 DEF Unreferenced, Referenced, Files, Span
<1>3. BlankBut({})'
  BY <1>1, <1>2 DEF BlankBut
<1>4. pc' \in {"idle", "search", "compact"}
  BY DEF EraseBlocks, AfterCollect, Return
<1>5. QED
  BY <1>3, <1>4 DEF Reclaiming

\* Every step keeps the reclaimed blocks blank.
LEMMA ReclaimingNext == TypeShape /\ Reclaiming /\ [Next]_vars => Reclaiming'
<1> SUFFICES ASSUME TypeShape, Reclaiming, [Next]_vars PROVE Reclaiming'
  OBVIOUS
<1>1. CASE Open \/ Close \/ Request
  BY <1>1, ReclaimingStarts
<1>2. CASE IdleFlush \/ UNCHANGED vars
  BY <1>2 DEF IdleFlush, memory, vars, Reclaiming, BlankBut, Unreferenced,
              Referenced, Files, Span
<1>3. CASE Fault
  BY <1>3, ReclaimingFault
<1>4. CASE Proceed
  <2>1. CASE ProgramFiles
    <3>1. job \in Jobs
      BY DEF TypeShape, TypeOK
    <3>2. pc' = "commit" /\ job'.stage = "final"
      BY <2>1, <3>1 DEF ProgramFiles, Jobs
    <3>3. QED
      BY <3>2, NothingReclaimed
  <2>2. QED
    BY <1>4, <2>1, ReclaimingSearch, ReclaimingCollect, ReclaimingCompact,
       ReclaimingCommit, ReclaimingErase DEF Proceed
<1>5. QED
  BY <1>1, <1>2, <1>3, <1>4 DEF Next

\* Over any device, a put that gives up although no call on the device failed
\* has found every block that no file holds blank: garbage is collected before
\* "no space" is reported (allocateExtent).
THEOREM PutReclaimsBeforeFailing == Spec => PutFailsOnlyAfterCollecting
<1>1. Init => TypeShape /\ Reclaiming
  BY TypeInit DEF Init, Reclaiming
<1>2. TypeShape /\ Reclaiming /\ [Next]_vars => TypeShape' /\ Reclaiming'
  BY TypeNext, ReclaimingNext
<1>3. ASSUME TypeShape, Reclaiming, Next, pc = "search", pc' = "idle", faults' = faults
      PROVE  \A b \in Unreferenced : data[b] = Blank
  <2>1. SearchFails
    <3>1. ~Fault
      BY <1>3 DEF Fault, ProgramFails, InspectionFails, CommitFails,
                  PrepareForEraseFails, EraseBlocksFails, Crash, TypeShape, TypeOK
    <3>2. ~(Open \/ Close \/ Request)
      BY <1>3 DEF Open, Close, Request, PutFiles, RemoveFile, Rename,
                  ChangeManifest, Collect, CanStart
    <3>3. ~IdleFlush
      BY <1>3 DEF IdleFlush
    <3>4. QED
      BY <1>3, <3>1, <3>2, <3>3
         DEF Next, Proceed, SearchFinds, ProgramFiles, CollectScan, CompactMove,
             CompactDone, ProgramMove, Commit, PrepareForErase, EraseBlocks
  <2>2. job.round # 1
    BY <1>3, <2>1 DEF SearchFails
  <2>3. QED
    BY <1>3, <2>2 DEF Reclaiming, BlankBut
<1>4. TypeShape /\ Reclaiming /\ [Next]_vars
        => [(pc = "search" /\ pc' = "idle" /\ faults' = faults) =>
                \A b \in Unreferenced : data[b] = Blank]_vars
  BY <1>3
<1>5. QED
  BY <1>1, <1>2, <1>4, PTL DEF Spec, PutFailsOnlyAfterCollecting
-----------------------------------------------------------------------------
(* LiveFilesystem over a sound device implements AtomicStore: a step of the *)
(* filesystem is one step of the store, or none that the store can see.     *)

\* What the files of a manifest read as when their blocks are in place.
Meaning(m) == [n \in Names |-> IF m[n] = Absent THEN Absent ELSE m[n].content]

\* What a batch makes of the files.
Overlay(batch, v) == [n \in Names |-> IF batch[n] # Absent THEN batch[n] ELSE v[n]]

Changes == {"put", "remove", "rename", "purge"}
LastCommit == pc = "commit" /\ job.stage = "final"
Intended ==
    IF job.task \notin Changes THEN Absent
    ELSE IF LastCommit THEN Meaning(entries) ELSE Overlay(job.batch, Meaning(entries))

\* Which operation is where: only a put searches, and every other change of the
\* manifest is committed at once.
Purpose ==
    /\ job.task \in {"remove", "rename", "purge"} => LastCommit
    /\ pc = "search" => job.task = "put"
    /\ pc = "program" /\ job.stage = "final" => job.task = "put"
    /\ LastCommit => job.task \in Changes
    /\ pc = "commit" /\ job.stage = "move" => Meaning(job.old) = Meaning(entries)

\* The store's variables in terms of manifests.
Reads ==
    /\ Viewed = IF Mounted THEN Meaning(Visible) ELSE Absent
    /\ \A s \in {0, 1} : IsNewest(s) => Durable = Meaning(sb[s].man)
    /\ Wanted = Intended

RInv == IInv /\ Purpose
-----------------------------------------------------------------------------
(* Facts about what files read as.                                         *)

\* A map of the files is neither missing nor outside the store's maps.
LEMMA MeaningType ==
    ASSUME NEW m \in Manifests
    PROVE  Meaning(m) \in [Names -> Contents \cup {Absent}] /\ Meaning(m) # Absent
<1>1. \A n \in Names : m[n] # Absent => m[n].content \in Contents
  BY DEF Manifests, Extents
<1>2. QED
  BY <1>1, ConstantsAssumption DEF Meaning

\* So is what a batch makes of one; it differs only in files it has contents for.
LEMMA OverlayType ==
    ASSUME NEW batch \in Batches, NEW v \in [Names -> Contents \cup {Absent}]
    PROVE  /\ Overlay(batch, v) \in [Names -> Contents \cup {Absent}]
           /\ Overlay(batch, v) # Absent
           /\ \A n \in Names : Overlay(batch, v)[n] # v[n] => Overlay(batch, v)[n] \in Contents
<1>1. Overlay(batch, v) \in [Names -> Contents \cup {Absent}]
  BY DEF Batches, Overlay
<1>2. \A n \in Names : Overlay(batch, v)[n] # v[n] => Overlay(batch, v)[n] \in Contents
  BY DEF Batches, Overlay
<1>3. QED
  BY <1>1, <1>2, ConstantsAssumption

\* A readable manifest reads as it says.
LEMMA ReadsAs ==
    ASSUME NEW m, Readable(m, data)
    PROVE  ReadBack(m) = Meaning(m)
  BY DEF Readable, ReadBack, Meaning, Files

\* The superblock a mount takes is the one that is newest.
LEMMA NewestChosen ==
    ASSUME TypeShape, NEW s, IsNewest(s)
    PROVE  s = CHOOSE t \in {0, 1} : IsNewest(t)
<1> DEFINE c == CHOOSE t \in {0, 1} : IsNewest(t)
<1>1. s \in {0, 1}
  BY DEF IsNewest, Valid
<1>2. IsNewest(c)
  BY <1>1
<1>3. QED
  BY <1>2, NewestUnique

\* So the store's variables are what the manifests say.
LEMMA ReadsNow == RInv => Reads
<1> SUFFICES ASSUME RInv PROVE Reads
  OBVIOUS
<1>1. TypeShape /\ Agreement /\ Purpose
  BY DEF RInv, IInv
<1>2. Viewed = IF Mounted THEN Meaning(Visible) ELSE Absent
  <2>1. Mounted => Readable(Visible, data)
    BY <1>1 DEF Agreement, Visible, Committed
  <2>2. QED
    BY <2>1, ReadsAs DEF Viewed
<1>3. ASSUME NEW s \in {0, 1}, IsNewest(s)
      PROVE  Durable = Meaning(sb[s].man)
  <2>1. Readable(sb[s].man, data)
    BY <1>1, <1>3 DEF Agreement, Kept, IsNewest
  <2>2. Durable = ReadBack(sb[s].man)
    BY <1>1, <1>3, NewestChosen DEF Durable
  <2>3. QED
    BY <2>1, <2>2, ReadsAs
<1>4. Wanted = Intended
  <2>1. CASE job.task \notin Changes
    BY <2>1 DEF Wanted, Intended, Changes
  <2>2. CASE job.task \in Changes
    <3>1. Mounted
      BY <1>1, <2>2 DEF TypeShape, Shape, NoJob, Mounted, Changes
    <3>2. ReadBack(entries) = Meaning(entries)
      BY <1>1, <3>1, ReadsAs DEF Agreement
    <3>3. QED
      BY <2>2, <3>2 DEF Wanted, Intended, Changes, Overlay, LastCommit
  <2>3. QED
    BY <2>1, <2>2
<1>5. QED
  BY <1>2, <1>3, <1>4 DEF Reads

\* And after a step.
LEMMA ReadsNext == RInv' => Reads'
  BY ReadsNow, PTL

\* A step from one good state to another, where the store's variables are known.
Known == RInv /\ Reads

\* With an operation under way, or none, what is committed reads as the view.
LEMMA CommittedIsViewed ==
    ASSUME Known, Mounted
    PROVE  /\ Viewed = Meaning(Visible) /\ Viewed = Meaning(Committed)
           /\ Visible \in Manifests
           /\ Viewed \in [Names -> Contents \cup {Absent}] /\ Viewed # Absent
<1>1. TypeShape /\ Purpose /\ Reads
  BY DEF Known, RInv, IInv
<1>2. Viewed = Meaning(Visible) /\ Meaning(Committed) = Meaning(Visible)
  BY <1>1 DEF Reads, Purpose, Visible, Committed
<1>3. Visible \in Manifests
  BY <1>1, SuperblockType DEF Visible
<1>4. QED
  BY <1>2, <1>3, MeaningType

\* Superblocks that stay leave what a mount would find.
LEMMA DurableStays ==
    ASSUME Known, Reads', sb' = sb
    PROVE  Durable' = Durable
<1>1. PICK s \in {0, 1} : IsNewest(s)
  BY NewestExists, SuperblockType DEF Known, RInv, IInv, Agreement
<1>2. IsNewest(s)'
  BY <1>1, KeptSame DEF IsNewest, Valid
<1>3. Durable = Meaning(sb[s].man) /\ Durable' = Meaning(sb'[s].man)
  BY <1>1, <1>2 DEF Known, Reads
<1>4. QED
  BY <1>3

\* A superblock that is valid and later than every other one is what a mount
\* would find.
LEMMA DurableIs ==
    ASSUME Reads', sb' \in [{0, 1} -> Superblocks], NEW s \in {0, 1}, sb'[s].ok,
           \A t \in {0, 1} : t # s /\ sb'[t].ok => sb'[t].gen < sb'[s].gen
    PROVE  Durable' = Meaning(sb'[s].man)
<1>1. \A t \in {0, 1} : sb'[t].gen \in Nat
  BY DEF Superblocks
<1>2. IsNewest(s)'
  BY <1>1 DEF IsNewest, Valid
<1>3. QED
  BY <1>2 DEF Reads

\* A flush makes the view durable, or does nothing.
LEMMA DurableFlushed ==
    ASSUME Known, RInv', Reads', Sound, staged # Absent,
           sb' \in Rewrites(staged.target, staged.record)
    PROVE  Durable' \in {Durable, Viewed}
<1>1. /\ TypeShape /\ Agreement /\ Mounted /\ staged.target = active
      /\ staged.record.man = Committed /\ staged.record.gen = generation
      /\ staged.record.ok /\ sb' \in [{0, 1} -> Superblocks]
  BY DEF Known, RInv, IInv, Agreement, Latest, TypeShape, TypeOK
<1>2. /\ sb' \in {sb, [sb EXCEPT ![active] = staged.record]}
      /\ \A s \in Valid' : \/ sb'[s].gen < generation
                           \/ s = active /\ sb'[s] = staged.record
  BY <1>1, FlushKeeps
<1>3. CASE sb' = [sb EXCEPT ![active] = staged.record]
  <2>1. active \in {0, 1} /\ sb'[active] = staged.record
    BY <1>1, <1>3, SuperblockType
  <2>2. \A t \in {0, 1} : t # active /\ sb'[t].ok => sb'[t].gen < sb'[active].gen
    BY <1>1, <1>2, <2>1 DEF Valid
  <2>3. Durable' = Meaning(Committed)
    BY <1>1, <2>1, <2>2, DurableIs
  <2>4. QED
    BY <1>1, <2>3, CommittedIsViewed
<1>4. QED
  BY <1>2, <1>3, DurableStays

\* A rewrite of the superblock that is not active, done or cut short, makes the
\* entries durable, or the view, or does nothing.
LEMMA DurableRewritten ==
    ASSUME Known, RInv', Reads', Mounted, ~Coalescing,
           sb' \in Rewrites(1 - active, NewRecord)
    PROVE  /\ Durable' \in {Durable, Viewed, Meaning(entries)}
           /\ sb' = [sb EXCEPT ![1 - active] = NewRecord] => Durable' = Meaning(entries)
<1>1. /\ TypeShape /\ Agreement /\ staged = Absent /\ active \in Valid
      /\ sb[active].gen = generation /\ sb[active].man = Committed
      /\ sb' \in [{0, 1} -> Superblocks]
  BY DEF Known, RInv, IInv, Agreement, Latest, Kept, TypeShape, TypeOK
<1>2. /\ active \in {0, 1} /\ 1 - active \in {0, 1} /\ generation \in Nat
      /\ \A s \in {0, 1} : s \in {active, 1 - active}
  BY <1>1, SuperblockType
<1>3. /\ NewRecord.ok /\ NewRecord.man = entries /\ NewRecord.gen = generation + 1
      /\ ~Invalid.ok /\ sb[active].ok
  BY <1>1 DEF NewRecord, Invalid, Valid
<1>4. CASE sb' = [sb EXCEPT ![1 - active] = NewRecord]
  <2>1. sb'[1 - active] = NewRecord /\ sb'[active] = sb[active]
    BY <1>1, <1>2, <1>4, SuperblockType
  <2>2. \A t \in {0, 1} : t # 1 - active /\ sb'[t].ok => sb'[t].gen < sb'[1 - active].gen
    BY <1>1, <1>2, <1>3, <2>1
  <2>3. QED
    BY <1>1, <1>2, <1>3, <2>1, <2>2, DurableIs
<1>5. CASE sb' = [sb EXCEPT ![1 - active] = Invalid]
  <2>1. sb'[1 - active] = Invalid /\ sb'[active] = sb[active]
    BY <1>1, <1>2, <1>5, SuperblockType
  <2>2. \A t \in {0, 1} : t # active /\ sb'[t].ok => sb'[t].gen < sb'[active].gen
    BY <1>2, <1>3, <2>1
  <2>3. Durable' = Meaning(Committed)
    BY <1>1, <1>2, <1>3, <2>1, <2>2, DurableIs
  <2>4. 1 - active \in {0, 1} /\ Invalid # NewRecord
    BY <1>2, <1>3
  <2>5. sb' # [sb EXCEPT ![1 - active] = NewRecord]
    BY <1>1, <2>1, <2>4, SuperblockType
  <2>6. QED
    BY <2>3, <2>5, CommittedIsViewed
<1>6. CASE sb' = sb
  BY <1>4, <1>6, DurableStays
<1>7. QED
  BY <1>4, <1>5, <1>6 DEF Rewrites
-----------------------------------------------------------------------------
(* Steps of the filesystem as steps of the store.                          *)

Step == [Atomic!StoreNext]_(Atomic!storeVars)

\* An operation that goes on shows the store nothing, unless it makes durable
\* what the files already read as.
LEMMA GoesOn ==
    ASSUME Known, Mounted, Viewed' = Viewed, Wanted' = Wanted,
           Durable' \in {Durable, Viewed}
    PROVE  Step
<1>1. CASE Durable' = Durable
  BY <1>1 DEF Step, Atomic!storeVars
<1>2. CASE Durable' = Viewed
  BY <1>2, CommittedIsViewed DEF Step, Atomic!StoreNext, Atomic!Sync
<1>3. QED
  BY <1>1, <1>2

\* An operation that ends without success leaves the view, and may have become
\* durable.
LEMMA GivesUp ==
    ASSUME Known, Mounted, Viewed' = Viewed, Wanted' = Absent,
           \/ Durable' \in {Durable, Viewed}
           \/ Wanted # Absent /\ Durable' = Wanted
    PROVE  Step
<1>1. CASE Wanted # Absent
  BY <1>1 DEF Step, Atomic!StoreNext, Atomic!Fail
<1>2. CASE Wanted = Absent
  BY <1>2, GoesOn
<1>3. QED
  BY <1>1, <1>2

\* A mount that ends leaves durable what was, or what the files read as, or what
\* the operation wanted.
LEMMA LosesPower ==
    ASSUME Known, Mounted, Viewed' = Absent, Wanted' = Absent,
           \/ Durable' \in {Durable, Viewed}
           \/ Wanted # Absent /\ Durable' = Wanted
    PROVE  Step
  BY CommittedIsViewed DEF Step, Atomic!StoreNext, Atomic!PowerLoss

\* What a step that keeps the operation and the files' meaning leaves as it was.
LEMMA SameView ==
    ASSUME Known, Reads', Mounted, Mounted', ~LastCommit,
           job'.task = job.task, job'.batch = job.batch,
           Meaning(entries') = Meaning(entries), ~LastCommit'
    PROVE  Viewed' = Viewed /\ Wanted' = Wanted
<1>1. Visible = entries /\ Visible' = entries'
  BY DEF Visible, LastCommit
<1>2. Viewed' = Viewed
  BY <1>1 DEF Known, Reads
<1>3. QED
  BY <1>2 DEF Known, Reads, Intended

\* What a step that ends the operation leaves.
LEMMA ViewAtReturn ==
    ASSUME Reads', Return
    PROVE  Mounted' /\ Viewed' = Meaning(entries') /\ Wanted' = Absent
  BY DEF Return, Reads, Mounted, Visible, Intended, NoJob, Changes

\* The last commit of a change stands between the old files and the new ones.
LEMMA AtLastCommit ==
    ASSUME Known, LastCommit
    PROVE  /\ Mounted /\ Viewed = Meaning(job.old) /\ Wanted = Meaning(entries)
           /\ Wanted # Absent /\ job.task \in Changes /\ Committed = job.old
<1>1. TypeShape /\ Purpose /\ Reads
  BY DEF Known, RInv, IInv
<1>2. Mounted /\ Visible = job.old /\ Committed = job.old
  BY DEF LastCommit, Mounted, Visible, Committed
<1>3. entries \in Manifests
  BY <1>1, SuperblockType
<1>4. QED
  BY <1>1, <1>2, <1>3, MeaningType DEF Purpose, Reads, Intended
-----------------------------------------------------------------------------
(* One lemma per kind of action.  RInv and Reads hold before and after.     *)

\* Mounting is a recovery; a card session wants its empty files removed.
LEMMA StepOpen ==
    ASSUME Known, RInv', Reads', Open
    PROVE  Step
<1>1. PICK s \in {0, 1} :
        /\ IsNewest(s)
        /\ IF Coalescing /\ WithoutEmpty(sb[s].man) # sb[s].man
           THEN /\ entries' = WithoutEmpty(sb[s].man)
                /\ pc' = "commit"
                /\ job' = [NoJob EXCEPT !.task = "purge", !.stage = "final",
                                        !.old = sb[s].man]
           ELSE entries' = sb[s].man /\ pc' = "idle" /\ UNCHANGED job
  BY DEF Open
<1>2. /\ pc = "unmounted" /\ sb' = sb /\ TypeShape /\ Reads /\ job = NoJob
  BY DEF Open, device, Known, RInv, IInv, TypeShape, Shape
<1>3. Durable = Meaning(sb[s].man) /\ Durable' = Durable /\ Viewed = Absent
  BY <1>1, <1>2, DurableStays DEF Known, Reads, Mounted
<1>4. CASE entries' = sb[s].man /\ pc' = "idle" /\ UNCHANGED job
  <2>1. Mounted' /\ Visible' = sb[s].man /\ job'.task = "none"
    BY <1>2, <1>4 DEF Mounted, Visible, NoJob
  <2>2. Viewed' = Durable /\ Wanted' = Absent
    BY <1>3, <2>1 DEF Reads, Intended, Changes
  <2>3. QED
    BY <1>3, <2>2 DEF Step, Atomic!StoreNext, Atomic!Recover
<1>5. CASE /\ entries' = WithoutEmpty(sb[s].man)
           /\ pc' = "commit"
           /\ job' = [NoJob EXCEPT !.task = "purge", !.stage = "final",
                                   !.old = sb[s].man]
  <2>1. job'.task = "purge" /\ job'.stage = "final" /\ job'.old = sb[s].man
    BY <1>5 DEF NoJob
  <2>2. Mounted' /\ Visible' = sb[s].man /\ LastCommit'
    BY <1>5, <2>1 DEF Mounted, Visible, LastCommit
  <2>3. Viewed' = Durable /\ Wanted' = Meaning(WithoutEmpty(sb[s].man))
    BY <1>3, <1>5, <2>1, <2>2 DEF Reads, Intended, Changes
  <2>4. sb[s].man \in Manifests
    BY <1>2, SuperblockType
  <2>5. Meaning(WithoutEmpty(sb[s].man)) =
          [n \in Names |-> IF Durable[n] \in {c \in Contents : BlockCount[c] = 0}
                           THEN Absent ELSE Durable[n]]
    <3>1. \A n \in Names : sb[s].man[n] # Absent => sb[s].man[n].content \in Contents
      BY <2>4 DEF Manifests, Extents
    <3>2. QED
      BY <1>3, <3>1, ConstantsAssumption DEF Meaning, WithoutEmpty, Files
  <2>6. QED
    BY <1>3, <2>3, <2>5 DEF Step, Atomic!StoreNext, Atomic!Recover
<1>6. QED
  BY <1>1, <1>4, <1>5

\* A clean unmount loses nothing that was viewed.
LEMMA StepClose ==
    ASSUME Known, RInv', Reads', Sound, Close
    PROVE  Step
<1>1. Mounted /\ Viewed' = Absent /\ Wanted' = Absent
  BY DEF Close, Forget, Mounted, Reads, Intended, NoJob, Changes
<1>2. Durable' \in {Durable, Viewed}
  BY DurableStays, DurableFlushed DEF Close, Rewrites
<1>3. QED
  BY <1>1, <1>2, LosesPower

\* A power loss leaves durable what was, what was viewed, or what was wanted.
LEMMA StepCrash ==
    ASSUME Known, RInv', Reads', Sound, Crash
    PROVE  Step
<1>1. Mounted /\ CutShort /\ Viewed' = Absent /\ Wanted' = Absent
  BY DEF Crash, Forget, Mounted, Reads, Intended, NoJob, Changes
<1>2. \/ Durable' \in {Durable, Viewed}
      \/ Wanted # Absent /\ Durable' = Wanted
  <2>1. CASE UNCHANGED sb
    BY <2>1, DurableStays
  <2>2. CASE staged # Absent /\ sb' \in Rewrites(staged.target, staged.record)
    BY <2>2, DurableFlushed
  <2>3. CASE pc = "commit" /\ ~Coalescing /\ sb' \in Rewrites(1 - active, NewRecord)
    <3>1. Durable' \in {Durable, Viewed, Meaning(entries)}
      BY <1>1, <2>3, DurableRewritten
    <3>2. CASE LastCommit
      BY <3>1, <3>2, AtLastCommit
    <3>3. CASE ~LastCommit
      <4>1. Viewed = Meaning(entries)
        BY <1>1, <3>3, CommittedIsViewed DEF Visible, LastCommit
      <4>2. QED
        BY <3>1, <4>1
    <3>4. QED
      BY <3>2, <3>3
  <2>4. QED
    BY <1>1, <2>1, <2>2, <2>3 DEF CutShort, NewRecord
<1>3. QED
  BY <1>1, <1>2, LosesPower

\* The timer's flush makes durable what the files read as.
LEMMA StepIdleFlush ==
    ASSUME Known, RInv', Reads', Sound, IdleFlush
    PROVE  Step
<1>1. /\ Mounted /\ staged # Absent /\ sb' \in Rewrites(staged.target, staged.record)
      /\ UNCHANGED <<entries, pc, job>>
  BY DEF IdleFlush, FlushOK, FlushFails, Rewrites, memory
<1>2. Viewed' = Viewed /\ Wanted' = Wanted
  BY <1>1 DEF Known, Reads, Mounted, Visible, Intended, LastCommit
<1>3. QED
  BY <1>1, <1>2, DurableFlushed, GoesOn

\* A request begins an operation of the store, if it changes files.
LEMMA Begins ==
    ASSUME Known, Reads', pc = "idle", sb' = sb, Mounted', Viewed' = Viewed,
           Wanted' \in Atomic!Results(Viewed)
    PROVE  Step
<1>1. job = NoJob
  BY DEF Known, RInv, IInv, TypeShape, Shape
<1>2. Wanted = Absent
  BY <1>1 DEF Known, Reads, Intended, NoJob, Changes
<1>3. Durable' = Durable /\ Mounted
  BY DurableStays DEF Mounted
<1>4. QED
  BY <1>2, <1>3, CommittedIsViewed DEF Step, Atomic!StoreNext, Atomic!Begin

\* Removing and renaming are among the results of an operation.
LEMMA ResultsHave ==
    ASSUME NEW v, NEW n \in Names, NEW m \in Names
    PROVE  /\ [v EXCEPT ![n] = Absent] \in Atomic!Results(v)
           /\ [v EXCEPT ![n] = Absent, ![m] = v[n]] \in Atomic!Results(v)
<1> DEFINE A == {w \in Atomic!Maps : \A k \in Names : w[k] # v[k] => w[k] \in Contents}
           B == {[v EXCEPT ![k] = Absent] : k \in Names}
           C == {[v EXCEPT ![k] = Absent, ![l] = v[k]] : k, l \in Names}
<1>1. [v EXCEPT ![n] = Absent] \in B
  OBVIOUS
<1>2. [v EXCEPT ![n] = Absent, ![m] = v[n]] \in C
  OBVIOUS
<1>3. Atomic!Results(v) = (A \cup B) \cup C
  BY DEF Atomic!Results
<1> HIDE DEF A, B, C
<1>4. QED
  BY <1>1, <1>2, <1>3

\* A change of the manifest is committed at once: the view falls back to the old
\* entries, and the new ones are what is wanted.
LEMMA StepChangeManifest ==
    ASSUME Known, RInv', Reads', NEW task \in Changes, NEW new,
           ChangeManifest(task, new)
    PROVE  /\ pc = "idle" /\ sb' = sb /\ Mounted' /\ Viewed' = Viewed
           /\ Viewed = Meaning(entries) /\ Wanted' = Meaning(new)
<1>1. /\ pc = "idle" /\ pc' = "commit" /\ job'.task = task /\ job'.stage = "final"
      /\ job'.old = entries /\ entries' = new /\ sb' = sb
  BY DEF ChangeManifest, CanStart, NoJob, device
<1>2. Visible = entries /\ Visible' = entries /\ Mounted /\ Mounted' /\ LastCommit'
  BY <1>1 DEF Visible, Mounted, LastCommit
<1>3. QED
  BY <1>1, <1>2 DEF Known, Reads, Intended

\* A removal.
LEMMA StepRemoveFile ==
    ASSUME Known, RInv', Reads', NEW n \in Names, RemoveFile(n)
    PROVE  Step
<1> DEFINE new == [entries EXCEPT ![n] = Absent]
<1>1. ChangeManifest("remove", new) /\ entries \in Manifests
  BY SuperblockType DEF RemoveFile, Known, RInv, IInv
<1>2. Meaning(new) = [Meaning(entries) EXCEPT ![n] = Absent]
  BY <1>1 DEF Meaning, Manifests
<1> HIDE DEF new
<1>3. /\ pc = "idle" /\ sb' = sb /\ Mounted' /\ Viewed' = Viewed
      /\ Viewed = Meaning(entries) /\ Wanted' = Meaning(new)
  BY <1>1, StepChangeManifest DEF Changes
<1>4. Wanted' \in Atomic!Results(Viewed)
  BY <1>2, <1>3, ResultsHave
<1>5. QED
  BY <1>3, <1>4, Begins

\* A rename.
LEMMA StepRename ==
    ASSUME Known, RInv', Reads', NEW n \in Names, NEW to \in Names, Rename(n, to)
    PROVE  Step
<1> DEFINE new == [entries EXCEPT ![n] = Absent, ![to] = entries[n]]
<1>1. /\ ChangeManifest("rename", new) /\ entries \in Manifests
      /\ n \in Files(entries) /\ n # to
  BY SuperblockType DEF Rename, Known, RInv, IInv
<1>2. Meaning(new) = [Meaning(entries) EXCEPT ![n] = Absent, ![to] = Meaning(entries)[n]]
  BY <1>1 DEF Meaning, Manifests, Files
<1> HIDE DEF new
<1>3. /\ pc = "idle" /\ sb' = sb /\ Mounted' /\ Viewed' = Viewed
      /\ Viewed = Meaning(entries) /\ Wanted' = Meaning(new)
  BY <1>1, StepChangeManifest DEF Changes
<1>4. Wanted' \in Atomic!Results(Viewed)
  <2>1. Wanted' = [Viewed EXCEPT ![n] = Absent, ![to] = Viewed[n]]
    BY <1>2, <1>3
  <2>2. QED
    BY <2>1, ResultsHave
<1>5. QED
  BY <1>3, <1>4, Begins

\* A batch that is placed means what it wants the files to be.
LEMMA PlacedMeaning ==
    ASSUME NEW batch \in Batches, NEW p, \A n \in Files(batch) : p[n] \in Nat
    PROVE  Meaning(Placed(entries, batch, p)) = Overlay(batch, Meaning(entries))
<1> DEFINE new == Placed(entries, batch, p)
<1>1. \A n \in Names : batch[n] # Absent =>
        new[n] # Absent /\ new[n].content = batch[n]
  <2> SUFFICES ASSUME NEW n \in Names, batch[n] # Absent
               PROVE  new[n] # Absent /\ new[n].content = batch[n]
    OBVIOUS
  <2>1. new[n] = [first |-> p[n], content |-> batch[n]]
    BY DEF Placed, Files
  <2>2. p[n] \in Nat /\ batch[n] \in Contents
    BY DEF Files, Batches
  <2>3. new[n] \in [first : Nat, content : Contents]
    BY <2>1, <2>2
  <2>4. QED
    BY <2>1, <2>3, ConstantsAssumption
<1>2. \A n \in Names : batch[n] = Absent => new[n] = entries[n]
  BY DEF Placed, Files
<1> HIDE DEF new
<1>3. Meaning(new) = Overlay(batch, Meaning(entries))
  BY <1>1, <1>2 DEF Meaning, Overlay
<1>4. QED
  BY <1>3 DEF new

\* A request to write files.
LEMMA StepPutFiles ==
    ASSUME Known, RInv', Reads', NEW batch \in Batches, PutFiles(batch)
    PROVE  Step
<1>1. /\ pc = "idle" /\ pc' \in {"search", "commit"} /\ sb' = sb /\ Mounted' /\ Mounted
      /\ job'.task = "put" /\ job'.batch = batch /\ entries \in Manifests
      /\ nextFree \in Nat
  BY SuperblockType DEF PutFiles, CanStart, NoJob, device, Mounted, Known, RInv,
     IInv, TypeShape, TypeOK
<1>2. Viewed = Meaning(entries)
  BY <1>1 DEF Known, Reads, Visible
<1>3. Viewed' = Viewed /\ Wanted' = Overlay(batch, Meaning(entries))
  <2>1. CASE pc' = "search" /\ entries' = entries
    BY <1>1, <1>2, <2>1 DEF Reads, Visible, Intended, LastCommit, Changes
  <2>2. CASE /\ pc' = "commit"
             /\ job' = [NoJob EXCEPT !.task = "put", !.stage = "final",
                                     !.batch = batch, !.old = entries]
             /\ entries' = Placed(entries, batch, [n \in Files(batch) |-> nextFree])
    <3>1. job'.stage = "final" /\ job'.old = entries
      BY <2>2 DEF NoJob
    <3>2. LastCommit' /\ Visible' = entries
      BY <2>2, <3>1 DEF LastCommit, Visible
    <3>3. Meaning(entries') = Overlay(batch, Meaning(entries))
      BY <1>1, <2>2, PlacedMeaning
    <3>4. QED
      BY <1>1, <1>2, <3>2, <3>3 DEF Reads, Intended, Changes
  <2>3. QED
    BY <2>1, <2>2 DEF PutFiles
<1>4. Wanted' \in Atomic!Results(Viewed)
  <2>1. Viewed \in [Names -> Contents \cup {Absent}]
    BY <1>2, <1>1, MeaningType
  <2>2. /\ Wanted' \in [Names -> Contents \cup {Absent}]
        /\ \A n \in Names : Wanted'[n] # Viewed[n] => Wanted'[n] \in Contents
    BY <1>2, <1>3, <2>1, OverlayType
  <2>3. QED
    BY <2>2 DEF Atomic!Results, Atomic!Maps
<1>5. QED
  BY <1>1, <1>3, <1>4, Begins

\* A collection changes no file.
LEMMA StepCollect ==
    ASSUME Known, RInv', Reads', Collect
    PROVE  Step
<1>1. /\ pc = "idle" /\ pc' = "collect" /\ sb' = sb /\ entries' = entries
      /\ job'.task \in {"gc", "compact"} /\ job = NoJob
  BY DEF Collect, CanStart, NoJob, device, memory, Known, RInv, IInv, TypeShape, Shape
<1>2. /\ Mounted /\ Mounted' /\ Visible = entries /\ Visible' = entries
  BY <1>1 DEF Mounted, Visible
<1>3. Viewed' = Viewed /\ Wanted' = Wanted
  BY <1>1, <1>2 DEF Known, Reads, Intended, NoJob, Changes
<1>4. QED
  BY <1>1, <1>2, <1>3, DurableStays, GoesOn

\* Steps on the way: searches, inspections, failed programs, erases.
LEMMA StepOnTheWay ==
    ASSUME Known, RInv', Reads', Mounted, sb' = sb, entries' = entries, ~LastCommit,
           \/ Return
           \/ /\ job'.task = job.task /\ job'.batch = job.batch
              /\ ~LastCommit' /\ Mounted'
    PROVE  Step
<1>1. Durable' = Durable
  BY DurableStays
<1>2. CASE Return
  <2>1. Viewed' = Viewed /\ Wanted' = Absent
    BY <1>2, ViewAtReturn, CommittedIsViewed DEF Visible, LastCommit
  <2>2. QED
    BY <1>1, <2>1, GivesUp
<1>3. CASE /\ job'.task = job.task /\ job'.batch = job.batch
           /\ ~LastCommit' /\ Mounted'
  BY <1>1, <1>3, SameView, GoesOn
<1>4. QED
  BY <1>2, <1>3

\* Those steps are these.
LEMMA StepQuiet ==
    ASSUME Known, RInv', Reads',
           \/ SearchFinds \/ SearchFails \/ ProgramFails \/ CollectScan \/ CompactMove
           \/ CompactDone \/ InspectionFails \/ EraseBlocks \/ EraseBlocksFails
    PROVE  Step
<1>1. job \in Jobs
  BY SuperblockType DEF Known, RInv, IInv
<1>2. /\ pc \in {"search", "program", "collect", "compact", "erase"}
      /\ sb' = sb /\ entries' = entries /\ ~LastCommit /\ Mounted
  BY DEF SearchFinds, SearchFails, ProgramFails, CollectScan, CompactMove,
         CompactDone, InspectionFails, EraseBlocks, EraseBlocksFails, device,
         LastCommit, Mounted
<1>3. \/ Return
      \/ /\ job'.task = job.task /\ job'.batch = job.batch
         /\ ~LastCommit' /\ Mounted'
  <2>1. CASE SearchFinds \/ SearchFails
    BY <1>1, <2>1 DEF SearchFinds, SearchFails, LastCommit, Mounted, Jobs
  <2>2. CASE ProgramFails \/ CompactDone
    BY <1>1, <2>2 DEF ProgramFails, CompactDone, LastCommit, Mounted, Jobs
  <2>3. CASE AfterCollect
    BY <1>1, <2>3 DEF AfterCollect, LastCommit, Mounted, Jobs
  <2>4. CASE CollectScan
    <3>1. ASSUME NEW garbage, pc' = "commit",
                 job' = [job EXCEPT !.stage = "collect", !.victims = garbage]
          PROVE  /\ job'.task = job.task /\ job'.batch = job.batch
                 /\ ~LastCommit' /\ Mounted'
      BY <1>1, <3>1 DEF LastCommit, Mounted, Jobs
    <3>2. QED
      BY <2>3, <2>4, <3>1 DEF CollectScan
  <2>5. CASE CompactMove
    <3>1. PICK n \in Names, s \in DataBlocks :
            job' = [job EXCEPT !.stage = "move", !.mover = n, !.dest = s,
                               !.victims = Span(entries[n])]
      BY <2>5 DEF CompactMove
    <3>2. QED
      BY <1>1, <2>5, <3>1 DEF CompactMove, LastCommit, Mounted, Jobs
  <2>6. CASE EraseBlocks
    BY <1>1, <2>3, <2>6 DEF EraseBlocks, LastCommit, Mounted, Jobs
  <2>7. QED
    BY <2>1, <2>2, <2>4, <2>5, <2>6 DEF InspectionFails, EraseBlocksFails
<1>4. QED
  BY <1>2, <1>3, StepOnTheWay

\* A moved file is the same file.
LEMMA MovedMeaning ==
    ASSUME TypeShape, pc = "program", job.stage = "move"
    PROVE  Meaning(MovedEntries) = Meaning(entries)
<1>1. /\ job.mover \in Files(entries)
      /\ MovedEntries[job.mover].content = entries[job.mover].content
      /\ Files(MovedEntries) = Files(entries)
      /\ \A k \in Names : k # job.mover => MovedEntries[k] = entries[k]
  BY MovedParts
<1>2. \A k \in Names : MovedEntries[k] = Absent <=> entries[k] = Absent
  BY <1>1 DEF Files
<1>3. \A k \in Names : MovedEntries[k] # Absent =>
        MovedEntries[k].content = entries[k].content
  BY <1>1
<1>4. QED
  BY <1>2, <1>3 DEF Meaning

\* Programming a batch brings it to its last commit; programming a moved file
\* changes where it is and not what it is.
LEMMA StepProgram ==
    ASSUME Known, RInv', Reads', ProgramFiles \/ ProgramMove
    PROVE  Step
<1>1. /\ job \in Jobs /\ TypeShape /\ Purpose
      /\ pc = "program" /\ pc' = "commit" /\ sb' = sb
      /\ job'.task = job.task /\ job'.batch = job.batch /\ job'.stage = job.stage
      /\ job'.old = entries /\ Mounted /\ Mounted' /\ ~LastCommit
      /\ Visible = entries
  BY SuperblockType DEF ProgramFiles, ProgramMove, Mounted, LastCommit, Visible,
     Known, RInv, IInv, Jobs
<1>2. Viewed = Meaning(entries) /\ Durable' = Durable
  BY <1>1, DurableStays DEF Known, Reads
<1>3. CASE ProgramFiles
  <2>1. PICK p \in Placements(job.batch, job.dest, job.size) :
          entries' = Placed(entries, job.batch, p)
    BY <1>3 DEF ProgramFiles
  <2>2. \A n \in Files(job.batch) : p[n] \in Nat
    BY <1>1, <1>3, PlacedParts DEF ProgramFiles
  <2>3. Meaning(entries') = Overlay(job.batch, Meaning(entries))
    BY <1>1, <2>1, <2>2, PlacedMeaning DEF Jobs
  <2>4. job.task = "put" /\ job.stage = "final"
    BY <1>1, <1>3 DEF ProgramFiles, Purpose
  <2>5. LastCommit' /\ Visible' = entries
    BY <1>1, <2>4 DEF LastCommit, Visible
  <2>6. Viewed' = Viewed /\ Wanted' = Wanted
    BY <1>1, <1>2, <2>3, <2>4, <2>5 DEF Known, Reads, Intended, Changes
  <2>7. QED
    BY <1>1, <1>2, <2>6, GoesOn
<1>4. CASE ProgramMove
  <2>1. job.stage = "move" /\ entries' = MovedEntries /\ ~LastCommit'
    BY <1>1, <1>4 DEF ProgramMove, MovedEntries, LastCommit
  <2>2. Meaning(MovedEntries) = Meaning(entries)
    BY <1>1, <2>1, MovedMeaning
  <2>3. QED
    BY <1>1, <1>2, <2>1, <2>2, SameView, GoesOn
<1>5. QED
  BY <1>3, <1>4

\* The last commit of a change finishes it; the others make the view durable.
LEMMA StepCommit ==
    ASSUME Known, RInv', Reads', Commit
    PROVE  Step
<1>1. /\ pc = "commit" /\ Mounted /\ entries' = entries
      /\ job \in Jobs /\ job.stage \in {"final", "move", "collect", "sync"}
  BY SuperblockType DEF Commit, Mounted, Known, RInv, IInv, TypeShape, Shape, Jobs, Stages
<1>2. IF Coalescing THEN Durable' = Durable ELSE Durable' = Meaning(entries)
  <2>1. CASE Coalescing
    BY <2>1, DurableStays DEF Commit
  <2>2. CASE ~Coalescing
    <3>1. /\ sb' = [sb EXCEPT ![1 - active] = NewRecord]
          /\ sb' \in Rewrites(1 - active, NewRecord)
      BY <2>2 DEF Commit, Rewrites
    <3>2. QED
      BY <1>1, <2>2, <3>1, DurableRewritten
  <2>3. QED
    BY <2>1, <2>2
<1>3. CASE job.stage = "final"
  <2>1. Return /\ LastCommit
    BY <1>1, <1>3 DEF Commit, CommitReturns, LastCommit
  <2>2. /\ Viewed' = Meaning(entries) /\ Wanted' = Absent
        /\ Wanted = Meaning(entries) /\ Wanted # Absent
    BY <1>1, <2>1, ViewAtReturn, AtLastCommit
  <2>3. QED
    BY <1>2, <2>2 DEF Step, Atomic!StoreNext, Atomic!Finish
<1>4. CASE job.stage \in {"move", "collect", "sync"}
  <2>1. /\ job'.task = job.task /\ job'.batch = job.batch
        /\ job'.stage \in {"collect", "sync"} /\ pc' \in {"commit", "barrier"}
    <3>1. CASE job.stage = "move"
      BY <1>1, <3>1 DEF Commit, CommitReturns, Jobs
    <3>2. CASE job.stage \in {"collect", "sync"}
      BY <1>1, <3>2 DEF Commit, CommitReturns
    <3>3. QED
      BY <1>4, <3>1, <3>2
  <2>2. ~LastCommit /\ ~LastCommit' /\ Mounted'
    BY <1>4, <2>1 DEF LastCommit, Mounted
  <2>3. Viewed' = Viewed /\ Wanted' = Wanted
    BY <1>1, <2>1, <2>2, SameView
  <2>4. Viewed = Meaning(entries)
    BY <1>1, <2>2, CommittedIsViewed DEF Visible, LastCommit
  <2>5. QED
    BY <1>1, <1>2, <2>3, <2>4, GoesOn
<1>5. QED
  BY <1>1, <1>3, <1>4

\* A failed commit leaves the view, and may have made its manifest durable.
LEMMA StepCommitFails ==
    ASSUME Known, RInv', Reads', CommitFails
    PROVE  Step
<1>1. /\ pc = "commit" /\ Mounted /\ ~Coalescing /\ Return
      /\ sb' \in Rewrites(1 - active, NewRecord) /\ entries' = Committed
  BY DEF CommitFails, Mounted, Committed
<1>2. Durable' \in {Durable, Viewed, Meaning(entries)}
  BY <1>1, DurableRewritten
<1>3. Viewed' = Viewed /\ Wanted' = Absent
  BY <1>1, ViewAtReturn, CommittedIsViewed
<1>4. CASE LastCommit
  BY <1>1, <1>2, <1>3, <1>4, AtLastCommit, GivesUp
<1>5. CASE ~LastCommit
  <2>1. Viewed = Meaning(entries)
    BY <1>1, <1>5, CommittedIsViewed DEF Visible, LastCommit
  <2>2. QED
    BY <1>1, <1>2, <1>3, <2>1, GivesUp
<1>6. QED
  BY <1>4, <1>5

\* The barrier before an erase makes the view durable, or fails.
LEMMA StepPrepareForErase ==
    ASSUME Known, RInv', Reads', Sound, PrepareForErase \/ PrepareForEraseFails
    PROVE  Step
<1>1. /\ pc = "barrier" /\ Mounted /\ entries' = entries /\ ~LastCommit
      /\ \/ sb' = sb
         \/ staged # Absent /\ sb' \in Rewrites(staged.target, staged.record)
      /\ \/ pc' = "erase" /\ job' = job
         \/ Return
  BY DEF PrepareForErase, PrepareForEraseFails, FlushOK, FlushFails, memory,
         Rewrites, Mounted, LastCommit
<1>2. Durable' \in {Durable, Viewed}
  BY <1>1, DurableStays, DurableFlushed
<1>3. CASE Return
  <2>1. Viewed' = Viewed /\ Wanted' = Absent
    BY <1>1, <1>3, ViewAtReturn, CommittedIsViewed DEF Visible, LastCommit
  <2>2. QED
    BY <1>1, <1>2, <2>1, GivesUp
<1>4. CASE pc' = "erase" /\ job' = job
  <2>1. Mounted' /\ ~LastCommit'
    BY <1>4 DEF Mounted, LastCommit
  <2>2. QED
    BY <1>1, <1>2, <1>4, <2>1, SameView, GoesOn
<1>5. QED
  BY <1>1, <1>3, <1>4

\* Every step of the filesystem is a step of the store or a stutter.
LEMMA StepNext ==
    ASSUME RInv, RInv', Sound, [Next]_vars
    PROVE  Step
<1>1. Known /\ Reads'
  BY ReadsNow, ReadsNext DEF Known
<1>2. CASE Open \/ Close \/ IdleFlush
  BY <1>1, <1>2, StepOpen, StepClose, StepIdleFlush
<1>3. CASE Request
  BY <1>1, <1>3, StepPutFiles, StepRemoveFile, StepRename, StepCollect DEF Request
<1>4. CASE Proceed
  BY <1>1, <1>4, StepQuiet, StepProgram, StepCommit, StepPrepareForErase DEF Proceed
<1>5. CASE Fault
  BY <1>1, <1>5, StepQuiet, StepCommitFails, StepPrepareForErase, StepCrash DEF Fault
<1>6. CASE UNCHANGED vars
  <2>1. Durable' = Durable
    BY <1>1, <1>6, DurableStays DEF vars
  <2>2. /\ Mounted' = Mounted /\ Visible' = Visible /\ Intended' = Intended
    BY <1>6 DEF vars, Mounted, Visible, Intended, LastCommit
  <2>3. Viewed' = Viewed /\ Wanted' = Wanted
    BY <1>1, <2>2 DEF Known, Reads
  <2>4. QED
    BY <2>1, <2>3 DEF Step, Atomic!storeVars
<1>7. QED
  BY <1>2, <1>3, <1>4, <1>5, <1>6 DEF Next
-----------------------------------------------------------------------------
(* Which operation is where, and the refinement.                           *)

\* A formatted filesystem is an empty store.
LEMMA RefinesInit == Init => Purpose /\ Atomic!StoreInit
<1> SUFFICES ASSUME Init PROVE Purpose /\ Atomic!StoreInit
  OBVIOUS
<1>1. Purpose
  BY DEF Init, Purpose, NoJob, LastCommit
<1>2. Reads
  BY <1>1, TypeInit, LayoutInit, AgreementInit, ReadsNow DEF RInv, IInv
<1>3. IsNewest(1) /\ sb[1].man = NoManifest
  BY DEF Init, IsNewest, Valid, Invalid
<1>4. Durable = [n \in Names |-> Absent]
  BY <1>2, <1>3 DEF Reads, Meaning, NoManifest
<1>5. Viewed = Absent /\ Wanted = Absent
  BY <1>2 DEF Init, Reads, Mounted, Intended, NoJob, Changes
<1>6. QED
  BY <1>1, <1>4, <1>5 DEF Atomic!StoreInit

\* Every step keeps each operation to its places.
LEMMA PurposeNext ==
    ASSUME TypeShape, Purpose, [Next]_vars
    PROVE  Purpose'
<1>1. job \in Jobs
  BY SuperblockType
<1>2. CASE Return \/ Close \/ Crash
  <2>1. job' = NoJob /\ pc' \in {"idle", "unmounted"}
    BY <1>2 DEF Return, Close, Crash, Forget
  <2>2. QED
    BY <2>1 DEF Purpose, NoJob, LastCommit
<1>3. CASE Open
  BY <1>3 DEF Open, Purpose, NoJob, LastCommit, Changes, TypeShape, Shape
<1>4. CASE IdleFlush \/ UNCHANGED vars
  <2>1. UNCHANGED <<pc, job, entries>>
    BY <1>4 DEF IdleFlush, vars, memory
  <2>2. QED
    BY <2>1 DEF Purpose, LastCommit
<1>5. CASE Request
  BY <1>5 DEF Request, PutFiles, RemoveFile, Rename, ChangeManifest, Collect,
     CanStart, Purpose, NoJob, LastCommit, Changes
<1>6. CASE SearchFinds \/ SearchFails
  <2>1. \/ Return
        \/ job'.task = "put" /\ pc' \in {"program", "collect", "compact"}
    BY <1>1, <1>6 DEF SearchFinds, SearchFails, Purpose, Jobs
  <2>2. QED
    BY <1>2, <2>1 DEF Purpose, LastCommit
<1>7. CASE ProgramFails \/ CompactDone
  BY <1>1, <1>2, <1>7 DEF ProgramFails, CompactDone, Purpose, LastCommit, Jobs
<1>8. CASE AfterCollect /\ pc \in {"collect", "erase"}
  BY <1>1, <1>2, <1>8 DEF AfterCollect, Purpose, LastCommit, Jobs
<1>9. CASE CollectScan
  <2>1. ASSUME NEW garbage, pc' = "commit",
               job' = [job EXCEPT !.stage = "collect", !.victims = garbage]
        PROVE  Purpose'
    BY <1>1, <1>9, <2>1 DEF CollectScan, Purpose, LastCommit, Jobs
  <2>2. QED
    BY <1>8, <1>9, <2>1 DEF CollectScan
<1>10. CASE CompactMove
  <2>1. PICK n \in Names, s \in DataBlocks :
          job' = [job EXCEPT !.stage = "move", !.mover = n, !.dest = s,
                             !.victims = Span(entries[n])]
    BY <1>10 DEF CompactMove
  <2>2. job'.task = job.task /\ job'.stage = "move"
    BY <1>1, <2>1 DEF Jobs
  <2>3. QED
    BY <1>10, <2>2 DEF CompactMove, Purpose, LastCommit
<1>11. CASE ProgramFiles
  BY <1>1, <1>11 DEF ProgramFiles, Purpose, LastCommit, Changes, Jobs
<1>12. CASE ProgramMove
  <2>1. /\ job'.task = job.task /\ job'.stage = "move" /\ job'.old = entries
        /\ pc = "program" /\ pc' = "commit" /\ entries' = MovedEntries
    BY <1>1, <1>12 DEF ProgramMove, MovedEntries, Jobs
  <2>2. Meaning(MovedEntries) = Meaning(entries)
    BY <1>12, MovedMeaning DEF ProgramMove
  <2>3. QED
    BY <2>1, <2>2 DEF Purpose, LastCommit
<1>13. CASE Commit
  <2>1. job.stage \in {"final", "move", "collect", "sync"}
    BY <1>1, <1>13 DEF Commit, TypeShape, Shape, Jobs, Stages
  <2>2. CASE job.stage = "final"
    BY <1>2, <1>13, <2>2 DEF Commit, CommitReturns
  <2>3. CASE job.stage = "move"
    BY <1>1, <1>13, <2>3 DEF Commit, CommitReturns, Purpose, LastCommit, Jobs
  <2>4. CASE job.stage \in {"collect", "sync"}
    BY <1>13, <2>4 DEF Commit, CommitReturns, Purpose, LastCommit
  <2>5. QED
    BY <2>1, <2>2, <2>3, <2>4
<1>14. CASE PrepareForErase
  BY <1>14 DEF PrepareForErase, Purpose, LastCommit
<1>15. CASE EraseBlocks
  BY <1>1, <1>8, <1>15 DEF EraseBlocks, Purpose, LastCommit, Jobs
<1>16. QED
  BY <1>2, <1>3, <1>4, <1>5, <1>6, <1>7, <1>9, <1>10, <1>11, <1>12, <1>13, <1>14, <1>15
     DEF Next, Proceed, Fault, CommitFails, InspectionFails, PrepareForEraseFails,
         EraseBlocksFails

\* Over a sound device live::Filesystem is an atomic store: every batch, removal
\* and rename happens as a whole or not at all, through failed calls and power
\* losses, collections and moves are invisible, and what a mount finds is what
\* the files last read as durably, never a mixture and never a damaged file.
THEOREM FilesystemIsAtomic == Sound => (Spec => ImplementsAtomicStore)
<1> SUFFICES ASSUME Sound PROVE Spec => ImplementsAtomicStore
  OBVIOUS
<1>1. Init => RInv /\ Atomic!StoreInit
  BY TypeInit, LayoutInit, AgreementInit, RefinesInit DEF RInv, IInv
<1>2. RInv /\ [Next]_vars => RInv'
  BY TypeNext, LayoutNext, AgreementNext, PurposeNext DEF RInv, IInv
<1>3. RInv /\ RInv' /\ [Next]_vars => [Atomic!StoreNext]_(Atomic!storeVars)
  BY StepNext DEF Step
<1>4. QED
  BY <1>1, <1>2, <1>3, PTL DEF Spec, ImplementsAtomicStore, Atomic!StoreSpec
=============================================================================
