--------------------------- MODULE LiveFilesystem ---------------------------
(***************************************************************************)
(* The transactional core of live::Filesystem over one block device.       *)
(*                                                                         *)
(* A mounted Filesystem keeps its manifest, its generation, the number of  *)
(* the active superblock and its allocation hints in RAM.  The device holds *)
(* two superblocks and the data blocks; each call on the device can         *)
(* complete, fail with an uncertain result, or be cut by a power loss.  One *)
(* action stands for the code between two such calls.                       *)
(*                                                                         *)
(* Files here are larger than the packing threshold, or empty, so that each *)
(* owns a dedicated extent; PackedRecords models the small ones.            *)
(***************************************************************************)
EXTENDS Integers, FiniteSets, Folds

CONSTANTS
    Names,          \* file paths
    Contents,       \* payloads a file can have
    BlockCount,     \* dataBlockCount of each payload
    FirstData,      \* firstDataBlock()
    EndData,        \* dataEndBlock(), exclusive
    Coalescing,     \* the device is a CoalescingMetadataBlockDevice
    TornMetadata,   \* an interrupted superblock rewrite can leave it invalid
    MaxGeneration,  \* bound: no operation starts at this generation
    MaxFaults,      \* bound: failed device calls and power losses
    Blank,          \* a block that reads as all 0xFF
    Torn,           \* a block neither blank nor holding what was written
    Absent          \* no such file; no such value

Cells == [content : Contents, index : Nat]

ASSUME ConstantsAssumption ==
    /\ BlockCount \in [Contents -> Nat]
    /\ FirstData \in Nat /\ EndData \in Nat /\ FirstData <= EndData
    /\ Coalescing \in BOOLEAN /\ TornMetadata \in BOOLEAN
    /\ MaxGeneration \in Nat /\ MaxFaults \in Nat
    /\ Blank \notin Cells /\ Torn \notin Cells /\ Blank # Torn
    /\ Absent \notin Contents
    /\ Absent \notin [Names -> Contents \cup {Absent}]
    /\ Absent \notin [first : Nat, content : Contents]
    /\ Absent \notin [target : {0, 1}, record : [ok : BOOLEAN, gen : Nat,
            man : [Names -> [first : Nat, content : Contents] \cup {Absent}]]]

DataBlocks == FirstData .. EndData - 1
Extents    == [first : Nat, content : Contents]
Manifests  == [Names -> Extents \cup {Absent}]
Superblocks == [ok : BOOLEAN, gen : Nat, man : Manifests]
Batches    == [Names -> Contents \cup {Absent}]

NoManifest == [n \in Names |-> Absent]
NoBatch    == [n \in Names |-> Absent]
Invalid    == [ok |-> FALSE, gen |-> 0, man |-> NoManifest]

VARIABLES
    sb,          \* the two superblocks, as they are on the device
    data,        \* the data blocks, as they are on the device
    staged,      \* pending_metadata_ of the coalescing device
    entries,     \* entries_
    generation,  \* generation_
    active,      \* active_superblock_
    nextFree,    \* next_free_block_
    unavailable, \* unavailable_blocks_
    pc,          \* where the operation in progress stands
    job,         \* the locals of that operation
    faults       \* faults so far (bound)

device == <<sb, data, staged>>
memory == <<entries, generation, active, nextFree, unavailable>>
vars   == <<sb, data, staged, entries, generation, active, nextFree,
            unavailable, pc, job, faults>>
-----------------------------------------------------------------------------
(* Extents, references and what a manifest promises.                       *)

Span(e)  == e.first .. e.first + BlockCount[e.content] - 1
Files(m) == {n \in Names : m[n] # Absent}
Referenced(m) == {b \in DataBlocks : \E n \in Files(m) : b \in Span(m[n])}

\* What readFile and its checksum accept: every block of every file in place.
Readable(m, d) ==
    \A n \in Files(m) : \A b \in Span(m[n]) :
        /\ b \in DataBlocks
        /\ d[b] = [content |-> m[n].content, index |-> b - m[n].first]

\* The candidate open() picks: greatest generation, the lower block on a tie.
Valid       == {s \in {0, 1} : sb[s].ok}
IsNewest(s) == /\ s \in Valid
               /\ \A t \in Valid : \/ sb[t].gen < sb[s].gen
                                   \/ sb[t].gen = sb[s].gen /\ s <= t

Total(batch) == MapThenFoldSet(LAMBDA x, y : x + y, 0,
                               LAMBDA n : BlockCount[batch[n]],
                               LAMBDA S : CHOOSE n \in S : TRUE,
                               Files(batch))
-----------------------------------------------------------------------------
(* The allocator: findBlankExtent and findBlankExtentBefore.               *)

Unreferenced    == DataBlocks \ Referenced(entries)
IsCandidate(b)  == b \in Unreferenced /\ b \notin unavailable /\ data[b] = Blank
FreeBlocks(un)  == Cardinality(Unreferenced \ un)

\* MUTANT: the scan runs one block past its end.
FitsPastEnd(lo, hi, count) ==
    {s \in lo .. hi - count + 1 :
        \A b \in s .. s + count - 1 : b \in DataBlocks => IsCandidate(b)}
Fits(lo, hi, count) ==
    {s \in lo .. hi - count : \A b \in s .. s + count - 1 : IsCandidate(b)}
IsFirstFit(s, lo, hi, count) ==
    /\ s \in Fits(lo, hi, count)
    /\ \A t \in Fits(lo, hi, count) : s <= t

\* Unreferenced blocks a scan of lo .. hi-1 finds occupied: it retires them.
Occupied(lo, hi) == {b \in Unreferenced \cap (lo .. hi - 1) : data[b] # Blank}

\* findBlankExtent: from the cursor to the end, then from the start to it.
ScanStart == IF nextFree > FirstData THEN nextFree ELSE FirstData
ScanWrap  == IF nextFree < EndData THEN nextFree ELSE EndData
FoundAt(s, count, marks) ==
    /\ count <= FreeBlocks(unavailable)
    /\ \/ /\ IsFirstFit(s, ScanStart, EndData, count)
          /\ marks = Occupied(ScanStart, s + count)
       \/ /\ Fits(ScanStart, EndData, count) = {}
          /\ IsFirstFit(s, FirstData, ScanWrap, count)
          /\ marks = Occupied(ScanStart, EndData) \cup Occupied(FirstData, s + count)
NotFound(count, marks) ==
    \/ count > FreeBlocks(unavailable) /\ marks = {}
    \/ /\ count <= FreeBlocks(unavailable)
       /\ Fits(ScanStart, EndData, count) = {}
       /\ Fits(FirstData, ScanWrap, count) = {}
       /\ marks = Occupied(ScanStart, EndData) \cup Occupied(FirstData, ScanWrap)
-----------------------------------------------------------------------------
Tasks  == {"none", "put", "remove", "rename", "purge", "gc", "compact"}
Stages == {"none", "final", "collect", "move", "sync"}
NoJob  == [task |-> "none", stage |-> "none", batch |-> NoBatch, round |-> 1,
           attempt |-> 1, dest |-> FirstData, size |-> 0, mover |-> Absent,
           victims |-> {}, old |-> NoManifest]

Jobs   == [task : Tasks, stage : Stages, batch : Batches, round : 1 .. 3,
           attempt : 1 .. 3, dest : Nat, size : Nat,
           mover : Names \cup {Absent}, victims : SUBSET DataBlocks,
           old : Manifests]

Mounted == pc # "unmounted"

\* The blocks the operation programs: a whole batch, or one moved file.
Destination ==
    job.dest .. job.dest - 1 +
        (IF job.stage = "move" THEN BlockCount[entries[job.mover].content]
         ELSE job.size)
CanFail == faults < MaxFaults

\* The operation returns, with or without an error: its locals are gone.
Return == pc' = "idle" /\ job' = NoJob

TypeOK ==
    /\ sb \in [{0, 1} -> Superblocks]
    /\ data \in [DataBlocks -> Cells \cup {Blank, Torn}]
    /\ staged \in [target : {0, 1}, record : Superblocks] \cup {Absent}
    /\ entries \in Manifests
    /\ generation \in Nat
    /\ active \in {0, 1}
    /\ nextFree \in Nat
    /\ unavailable \in SUBSET DataBlocks
    /\ pc \in {"unmounted", "idle", "search", "collect", "compact", "program",
               "commit", "barrier", "erase"}
    /\ job \in Jobs
    /\ faults \in Nat

\* format(): every block erased, then commit() of the empty manifest, which
\* goes to alternateSuperblock() of the default active superblock 0.
Init ==
    /\ sb = [s \in {0, 1} |-> IF s = 1 THEN [ok |-> TRUE, gen |-> 1,
                                            man |-> NoManifest] ELSE Invalid]
    /\ data = [b \in DataBlocks |-> Blank]
    /\ staged = Absent
    /\ entries = NoManifest /\ generation = 0 /\ active = 0
    /\ nextFree = FirstData /\ unavailable = {}
    /\ pc = "unmounted" /\ job = NoJob /\ faults = 0
-----------------------------------------------------------------------------
(* The device.                                                             *)

\* What an unfinished rewrite of superblock t can leave behind: it is erased
\* first and then programmed, and a write reported as failed may be complete.
Rewrites(t, record) ==
    {sb, [sb EXCEPT ![t] = record]}
        \cup (IF TornMetadata THEN {[sb EXCEPT ![t] = Invalid]} ELSE {})

\* What an unfinished call on the blocks of S can leave behind.  After a
\* program no block of S is referenced yet, so Torn stands for any remnant.
PartlyProgrammed(S) ==
    {[b \in DataBlocks |-> IF b \in S THEN f[b] ELSE data[b]] :
        f \in [S -> {Blank, Torn}]}
PartlyErased(S) ==
    {[b \in DataBlocks |-> IF b \notin S \/ f[b] = "kept" THEN data[b]
                           ELSE IF f[b] = "blank" THEN Blank ELSE Torn] :
        f \in [S -> {"kept", "torn", "blank"}]}

\* Flushing replaces the staged superblock; what is staged survives a failure.
FlushOK ==
    /\ staged # Absent
    /\ sb' = [sb EXCEPT ![staged.target] = staged.record]
    /\ staged' = Absent
FlushFails ==
    /\ CanFail /\ staged # Absent
    /\ sb' \in Rewrites(staged.target, staged.record)
    /\ UNCHANGED staged

\* The timer of the coalescing device, 5 s after the last call on it.
IdleFlush ==
    /\ Mounted
    /\ \/ FlushOK /\ UNCHANGED faults
       \/ FlushFails /\ faults' = faults + 1
    /\ UNCHANGED <<data, memory, pc, job>>
-----------------------------------------------------------------------------
(* Mounting and unmounting.                                                *)

Highest(m) == {m[n].first + BlockCount[m[n].content] : n \in Files(m)}
\* next_free_block_ behind the last extent.
Cursors(m) == {c \in {FirstData} \cup Highest(m) :
                 c >= FirstData /\ \A b \in Highest(m) : c >= b}

WithoutEmpty(m) ==
    [n \in Names |-> IF n \in Files(m) /\ BlockCount[m[n].content] = 0
                     THEN Absent ELSE m[n]]

\* open(), and for a card session removeEmptyFiles() before anything else.
Open ==
    /\ pc = "unmounted"
    /\ \E s \in {0, 1} :
        /\ IsNewest(s)
        /\ generation' = sb[s].gen /\ active' = s
        /\ IF Coalescing /\ WithoutEmpty(sb[s].man) # sb[s].man
           THEN /\ entries' = WithoutEmpty(sb[s].man)
                /\ pc' = "commit"
                /\ job' = [NoJob EXCEPT !.task = "purge", !.stage = "final",
                                        !.old = sb[s].man]
           ELSE entries' = sb[s].man /\ pc' = "idle" /\ UNCHANGED job
    /\ nextFree' \in Cursors(entries')
    /\ UNCHANGED <<device, unavailable, faults>>

Forget ==
    /\ pc' = "unmounted" /\ job' = NoJob /\ staged' = Absent
    /\ entries' = NoManifest /\ generation' = 0 /\ active' = 0
    /\ nextFree' = FirstData /\ unavailable' = {}

\* A clean close flushes what is staged; its failure is the Crash below.
Close ==
    /\ pc = "idle"
    /\ sb' = IF staged = Absent THEN sb
             ELSE [sb EXCEPT ![staged.target] = staged.record]
    /\ Forget
    /\ UNCHANGED <<data, faults>>

\* Power loss or exit, in the middle of whatever call is running.
CutShort ==
    \/ UNCHANGED <<sb, data>>
    \/ /\ staged # Absent
       /\ sb' \in Rewrites(staged.target, staged.record) /\ UNCHANGED data
    \/ /\ pc = "commit" /\ ~Coalescing
       /\ sb' \in Rewrites(1 - active, [ok |-> TRUE, gen |-> generation + 1,
                                        man |-> entries])
       /\ UNCHANGED data
    \/ /\ pc = "program"
       /\ data' \in PartlyProgrammed(Destination)
       /\ UNCHANGED sb
    \/ pc = "erase" /\ data' \in PartlyErased(job.victims) /\ UNCHANGED sb
Crash ==
    /\ Mounted /\ CanFail /\ faults' = faults + 1
    /\ CutShort
    /\ Forget
-----------------------------------------------------------------------------
(* Operations that only change the manifest.                               *)

CanStart == pc = "idle" /\ generation < MaxGeneration

ChangeManifest(task, new) ==
    /\ CanStart
    /\ entries' = new
    /\ pc' = "commit"
    /\ job' = [NoJob EXCEPT !.task = task, !.stage = "final", !.old = entries]
    /\ UNCHANGED <<device, generation, active, nextFree, unavailable, faults>>

RemoveFile(n) ==
    /\ n \in Files(entries)
    /\ ChangeManifest("remove", [entries EXCEPT ![n] = Absent])

Rename(from, to) ==
    /\ from \in Files(entries) /\ to \notin Files(entries)
    /\ ChangeManifest("rename", [entries EXCEPT ![from] = Absent,
                                                ![to] = entries[from]])
-----------------------------------------------------------------------------
(* Writing files: putFiles of one batch, one extent, one manifest.         *)

\* MUTANT: block_offset is not advanced from one file to the next.
PlacementsAtStart(batch, first, size) == {[n \in Files(batch) |-> first]}
Placements(batch, first, size) ==
    {p \in [Files(batch) -> first .. first + size] :
        /\ \A n \in Files(batch) :
               p[n] + BlockCount[batch[n]] <= first + size
        /\ \A m, n \in Files(batch) : m = n \/
               \/ p[m] + BlockCount[batch[m]] <= p[n]
               \/ p[n] + BlockCount[batch[n]] <= p[m]}
Placed(m, batch, p) ==
    [n \in Names |-> IF n \in Files(batch)
                     THEN [first |-> p[n], content |-> batch[n]] ELSE m[n]]
Written(d, batch, p) ==
    [b \in DataBlocks |->
        IF \E n \in Files(batch) : b \in p[n] .. p[n] + BlockCount[batch[n]] - 1
        THEN LET n == CHOOSE n \in Files(batch) :
                          b \in p[n] .. p[n] + BlockCount[batch[n]] - 1
             IN [content |-> batch[n], index |-> b - p[n]]
        ELSE d[b]]

\* More blocks than the data area has are refused before any search.
PutFiles(batch) ==
    /\ CanStart /\ Files(batch) # {}
    /\ \E size \in 0 .. EndData - FirstData :
        /\ size = Total(batch)
        /\ IF \E n \in Files(batch) : BlockCount[batch[n]] > 0
           THEN /\ pc' = "search"
                /\ job' = [NoJob EXCEPT !.task = "put", !.batch = batch,
                                        !.size = size]
                /\ UNCHANGED entries
           ELSE /\ pc' = "commit"
                /\ job' = [NoJob EXCEPT !.task = "put", !.stage = "final",
                                        !.batch = batch, !.old = entries]
                /\ entries' = Placed(entries, batch,
                                     [n \in Files(batch) |-> nextFree])
    /\ UNCHANGED <<device, generation, active, nextFree, unavailable, faults>>

\* findBlankExtent succeeds.
SearchFinds ==
    /\ pc = "search"
    /\ \E s \in DataBlocks, marks \in SUBSET DataBlocks :
        /\ FoundAt(s, job.size, marks)
        /\ unavailable' = unavailable \cup marks
        /\ nextFree' = s
        /\ job' = [job EXCEPT !.dest = s, !.stage = "final"]
    /\ pc' = "program"
    /\ UNCHANGED <<device, entries, generation, active, faults>>

\* MUTANT: too few free blocks are an error before garbage is collected.
SearchFailsEarly ==
    /\ pc = "search"
    /\ \E marks \in SUBSET DataBlocks :
        /\ NotFound(job.size, marks)
        /\ unavailable' = unavailable \cup marks
        /\ IF job.round = 3 \/ job.size > FreeBlocks(unavailable') THEN Return
           ELSE pc' = (IF job.round = 1 THEN "collect" ELSE "compact") /\ UNCHANGED job
    /\ UNCHANGED <<device, entries, generation, active, nextFree, faults>>

\* It finds none: collect, then compact if the blocks exist, then give up.
SearchFails ==
    /\ pc = "search"
    /\ \E marks \in SUBSET DataBlocks :
        /\ NotFound(job.size, marks)
        /\ unavailable' = unavailable \cup marks
        /\ \/ /\ job.round = 1
              /\ pc' = "collect" /\ UNCHANGED job
           \/ /\ job.round = 2 /\ job.size <= FreeBlocks(unavailable')
              /\ pc' = "compact" /\ UNCHANGED job
           \/ /\ job.round = 2 /\ job.size > FreeBlocks(unavailable')
              /\ Return
           \/ job.round = 3 /\ Return
    /\ UNCHANGED <<device, entries, generation, active, nextFree, faults>>

\* An extent is programmed and verified; the entries change in RAM.
ProgramFiles ==
    /\ pc = "program" /\ job.stage = "final"
    /\ \E p \in Placements(job.batch, job.dest, job.size) :
        /\ data' = Written(data, job.batch, p)
        /\ entries' = Placed(entries, job.batch, p)
    /\ nextFree' = job.dest + job.size
    /\ pc' = "commit"
    /\ job' = [job EXCEPT !.old = entries]
    /\ UNCHANGED <<sb, staged, generation, active, unavailable, faults>>

\* Programming fails at some block: it and those before it are retired, and
\* a put looks for another extent, three times in all.
ProgramFails ==
    /\ pc = "program" /\ CanFail /\ faults' = faults + 1
    /\ data' \in PartlyProgrammed(Destination)
    /\ \E last \in Destination :
        /\ unavailable' = unavailable \cup (job.dest .. last)
        /\ nextFree' = last + 1
    /\ IF job.stage = "final" /\ job.attempt < 3
       THEN /\ pc' = "search"
            /\ job' = [job EXCEPT !.attempt = job.attempt + 1, !.round = 1,
                                  !.stage = "none", !.dest = FirstData]
       ELSE Return
    /\ UNCHANGED <<sb, staged, entries, generation, active>>
-----------------------------------------------------------------------------
(* Garbage collection and compaction.                                      *)

Collect ==
    /\ CanStart
    /\ \E task \in {"gc", "compact"} : job' = [NoJob EXCEPT !.task = task]
    /\ pc' = "collect"
    /\ UNCHANGED <<device, memory, faults>>

\* What follows a completed collectGarbage in the caller.
AfterCollect ==
    \/ job.task = "gc" /\ Return
    \/ /\ job.task = "put" /\ pc' = "search"
       /\ job' = [job EXCEPT !.round = 2, !.stage = "none", !.victims = {}]
    \/ /\ job.task = "compact" /\ pc' = "compact"
       /\ job' = [job EXCEPT !.stage = "none", !.victims = {}]

\* Inspect every unreferenced block; blank ones become available again.
CollectScan ==
    /\ pc = "collect"
    /\ LET garbage == {b \in Unreferenced : data[b] # Blank}
       IN /\ unavailable' = unavailable \ (Unreferenced \ garbage)
          /\ IF garbage = {} THEN AfterCollect
             ELSE /\ pc' = "commit"
                  /\ job' = [job EXCEPT !.stage = "collect", !.victims = garbage]
    /\ UNCHANGED <<device, entries, generation, active, nextFree, faults>>

\* compactFiles: the last file with a blank extent before it moves there.
CanMove(n, s) ==
    /\ n \in Files(entries)
    /\ IsFirstFit(s, FirstData, entries[n].first, BlockCount[entries[n].content])
    /\ BlockCount[entries[n].content] > 0
Movable(n) == \E s \in DataBlocks : CanMove(n, s)
\* Blocks retired by the searches for the files of S.
Inspected(S) == UNION {Occupied(FirstData, entries[n].first) :
    n \in {m \in S : 0 < BlockCount[entries[m].content] /\
               BlockCount[entries[m].content] <= entries[m].first - FirstData}}

CompactMove ==
    /\ pc = "compact"
    /\ \E n \in Names, s \in DataBlocks :
        LET later == {m \in Files(entries) : entries[m].first > entries[n].first}
            count == BlockCount[entries[n].content]
        IN /\ CanMove(n, s)
           /\ \A m \in later : ~Movable(m)
           /\ unavailable' = unavailable \cup Inspected(later)
                                         \cup Occupied(FirstData, s + count)
           /\ job' = [job EXCEPT !.stage = "move", !.mover = n, !.dest = s,
                                 !.victims = Span(entries[n])]
    /\ pc' = "program"
    /\ UNCHANGED <<device, entries, generation, active, nextFree, faults>>

\* MUTANT: a put compacts again for as long as it finds no extent.
CompactDoneAgain ==
    /\ pc = "compact"
    /\ \A n \in Names : ~Movable(n)
    /\ unavailable' = unavailable \cup Inspected(Files(entries))
    /\ IF job.task = "put" THEN pc' = "search" /\ UNCHANGED job ELSE Return
    /\ UNCHANGED <<device, entries, generation, active, nextFree, faults>>
\* No file can move any further.
CompactDone ==
    /\ pc = "compact"
    /\ \A n \in Names : ~Movable(n)
    /\ unavailable' = unavailable \cup Inspected(Files(entries))
    /\ IF job.task = "put"
       THEN pc' = "search" /\ job' = [job EXCEPT !.round = 3]
       ELSE Return
    /\ UNCHANGED <<device, entries, generation, active, nextFree, faults>>

MovedTo(e, first) == [e EXCEPT !.first = first]

ProgramMove ==
    /\ pc = "program" /\ job.stage = "move"
    /\ data' = [b \in DataBlocks |->
                   IF b \in Destination
                   THEN [content |-> entries[job.mover].content,
                         index |-> b - job.dest]
                   ELSE data[b]]
    /\ nextFree' = job.dest + BlockCount[entries[job.mover].content]
    /\ entries' = [entries EXCEPT ![job.mover] = MovedTo(@, job.dest)]
    /\ pc' = "commit"
    /\ job' = [job EXCEPT !.old = entries]
    /\ UNCHANGED <<sb, staged, generation, active, unavailable, faults>>

\* A block cannot be read while an operation inspects blocks: it stops there.
InspectionFails ==
    /\ CanFail /\ faults' = faults + 1
    /\ \E stop \in FirstData .. EndData :
        \/ /\ pc = "search" /\ job.size <= FreeBlocks(unavailable)
           /\ unavailable' = unavailable \cup
                 (IF stop > ScanStart THEN Occupied(ScanStart, stop)
                  ELSE Occupied(ScanStart, EndData) \cup Occupied(FirstData, stop))
        \/ /\ pc = "collect"
           /\ unavailable' = unavailable \
                 {b \in Unreferenced : b < stop /\ data[b] = Blank}
        \/ /\ pc = "compact"
           /\ unavailable' = unavailable \cup Occupied(FirstData, stop)
    /\ Return
    /\ UNCHANGED <<device, entries, generation, active, nextFree>>
-----------------------------------------------------------------------------
(* commit(): the manifest goes to the alternate superblock.                *)

NewRecord == [ok |-> TRUE, gen |-> generation + 1, man |-> entries]

\* MUTANT: a moved extent's source is erased after a single commit.
CommitReturnsOnce ==
    IF job.stage = "final" THEN Return
    ELSE /\ pc' = "barrier"
         /\ job' = [job EXCEPT !.stage = IF @ = "move" THEN "sync" ELSE @]
CommitReturns ==
    CASE job.stage = "final"   -> Return
      [] job.stage = "move"    -> pc' = "commit" /\ job' = [job EXCEPT !.stage = "sync"]
      [] job.stage \in {"collect", "sync"} -> pc' = "barrier" /\ UNCHANGED job

Commit ==
    /\ pc = "commit"
    /\ IF Coalescing
       THEN staged' = [target |-> 1 - active, record |-> NewRecord] /\ UNCHANGED sb
       ELSE sb' = [sb EXCEPT ![1 - active] = NewRecord] /\ UNCHANGED staged
    /\ active' = 1 - active
    /\ generation' = generation + 1
    /\ CommitReturns
    /\ UNCHANGED <<data, entries, nextFree, unavailable, faults>>

\* MUTANT: the caller of a failed commit keeps its changed entries.
CommitFailsKeepsEntries ==
    /\ pc = "commit" /\ ~Coalescing /\ CanFail /\ faults' = faults + 1
    /\ sb' \in Rewrites(1 - active, NewRecord)
    /\ Return
    /\ UNCHANGED <<data, staged, entries, generation, active, nextFree, unavailable>>
\* The caller of a failed commit puts the entries back, except when the
\* manifest was only being repeated; a staged commit never fails.
CommitFails ==
    /\ pc = "commit" /\ ~Coalescing /\ CanFail /\ faults' = faults + 1
    /\ sb' \in Rewrites(1 - active, NewRecord)
    /\ entries' = IF job.stage \in {"final", "move"} THEN job.old ELSE entries
    /\ unavailable' = IF job.stage = "move" THEN unavailable \cup Destination
                      ELSE unavailable
    /\ Return
    /\ UNCHANGED <<data, staged, generation, active, nextFree>>
-----------------------------------------------------------------------------
(* Erasing: prepareForErase, then eraseBlocks of the whole set.            *)

\* MUTANT: the staged metadata is not flushed before an erase.
PrepareForEraseUnflushed ==
    /\ pc = "barrier" /\ pc' = "erase"
    /\ UNCHANGED <<device, memory, job, faults>>
PrepareForErase ==
    /\ pc = "barrier"
    /\ \/ FlushOK
       \/ staged = Absent /\ UNCHANGED <<sb, staged>>
    /\ pc' = "erase"
    /\ UNCHANGED <<data, memory, job, faults>>
PrepareForEraseFails ==
    /\ pc = "barrier" /\ CanFail /\ faults' = faults + 1
    /\ \/ FlushFails
       \/ FlushOK
       \/ staged = Absent /\ UNCHANGED <<sb, staged>>
    /\ Return
    /\ UNCHANGED <<data, memory>>

EraseBlocks ==
    /\ pc = "erase"
    /\ data' = [b \in DataBlocks |-> IF b \in job.victims THEN Blank ELSE data[b]]
    /\ unavailable' = unavailable \ job.victims
    /\ IF job.stage = "sync"
       THEN /\ nextFree' = FirstData
            /\ pc' = "compact"
            /\ job' = [job EXCEPT !.stage = "none", !.mover = Absent,
                                  !.victims = {}, !.dest = FirstData,
                                  !.old = NoManifest]
       ELSE AfterCollect /\ UNCHANGED nextFree
    /\ UNCHANGED <<sb, staged, entries, generation, active, faults>>
EraseBlocksFails ==
    /\ pc = "erase" /\ CanFail /\ faults' = faults + 1
    /\ data' \in PartlyErased(job.victims)
    /\ unavailable' = unavailable \cup job.victims
    /\ Return
    /\ UNCHANGED <<sb, staged, entries, generation, active, nextFree>>
-----------------------------------------------------------------------------
\* What the code does next inside the operation, when the device lets it.
Proceed ==
    \/ SearchFinds \/ SearchFails \/ ProgramFiles
    \/ CollectScan \/ CompactMove \/ CompactDone \/ ProgramMove
    \/ Commit \/ PrepareForErase \/ EraseBlocks
Fault ==
    \/ ProgramFails \/ InspectionFails \/ CommitFails
    \/ PrepareForEraseFails \/ EraseBlocksFails \/ Crash
Request ==
    \/ \E batch \in Batches : PutFiles(batch)
    \/ \E n \in Names : RemoveFile(n) \/ \E to \in Names : Rename(n, to)
    \/ Collect

Next == Open \/ Close \/ IdleFlush \/ Request \/ Proceed \/ Fault

Spec     == Init /\ [][Next]_vars
FairSpec == Spec /\ WF_vars(Proceed)
-----------------------------------------------------------------------------
(* What must hold.                                                         *)

\* The files as mounted code sees them: while a changed manifest is not yet
\* committed, the ones it falls back to.
Visible == IF pc = "commit" /\ job.stage = "final" THEN job.old ELSE entries

\* Both superblocks stay usable: whenever power is lost, each one that open()
\* accepts describes files whose blocks are all in place, and one is accepted.
\* commit() spares the active superblock, the allocator takes only blank
\* blocks, and collection and compaction commit before they erase, so that no
\* valid superblock, the older one included, names an erased block.
BothGenerationsReadable ==
    /\ Valid # {}
    /\ \A s \in Valid : Readable(sb[s].man, data)

\* What open() would select is readable: the weaker promise that is left when
\* a coalescing device rewrites superblocks that it has not alternated.
RecoveryPointReadable ==
    \E s \in Valid : IsNewest(s) /\ Readable(sb[s].man, data)

\* No two files of a manifest, in RAM or on the device, share a block, not
\* even files of equal contents: replacing one would destroy the other.
Disjoint(m) == \A n1, n2 \in Files(m) :
    n1 # n2 => Span(m[n1]) \cap Span(m[n2]) = {}
ExtentsDisjoint ==
    /\ Mounted => Disjoint(entries)
    /\ \A s \in Valid : Disjoint(sb[s].man)

\* A put that gives up without a device error has reclaimed every unreferenced
\* block: allocateExtent searches, collects, searches, compacts and searches again.
PutFailsOnlyAfterCollecting ==
    [][(pc = "search" /\ pc' = "idle" /\ faults' = faults) =>
            \A b \in Unreferenced : data[b] = Blank]_vars

\* Every operation returns: compaction moves files only towards the start, and
\* a put looks for an extent at most three times.
OperationsReturn == (pc \notin {"idle", "unmounted"}) ~> (pc \in {"idle", "unmounted"})

\* Each operation is atomic under failures and power losses, and a mounted or
\* recovered file always reads back as one that was really stored under its
\* name: AtomicStore, with blocks read through the manifest.
ReadBack(m) ==
    [n \in Names |->
        IF m[n] = Absent THEN Absent
        ELSE IF \A b \in Span(m[n]) :
                    /\ b \in DataBlocks
                    /\ data[b] = [content |-> m[n].content, index |-> b - m[n].first]
             THEN m[n].content ELSE Torn]
Wanted ==
    IF job.task \notin {"put", "remove", "rename", "purge"} THEN Absent
    ELSE IF pc = "commit" /\ job.stage = "final" THEN ReadBack(entries)
    ELSE [n \in Names |-> IF job.batch[n] # Absent THEN job.batch[n]
                          ELSE ReadBack(entries)[n]]
Durable == ReadBack(sb[CHOOSE s \in {0, 1} : IsNewest(s)].man)
Viewed  == IF Mounted THEN ReadBack(Visible) ELSE Absent
Atomic == INSTANCE AtomicStore WITH
    Placeholders <- {c \in Contents : BlockCount[c] = 0},
    WriteBehind  <- Coalescing,
    Lost         <- Torn,
    durable      <- Durable,
    view         <- Viewed,
    want         <- Wanted
ImplementsAtomicStore == Atomic!StoreSpec
=============================================================================
