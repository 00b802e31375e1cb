---------------------------- MODULE PackedRecords ----------------------------
(***************************************************************************)
(* Small files of live::Filesystem, several of which share a block.        *)
(*                                                                         *)
(* A manifest entry of such a file names a block, the generation of that    *)
(* block and the id of a record in it.  A put rewrites every block it takes *)
(* a file from, with the records that stay; a compaction rewrites them all. *)
(* Both plan records and ids in RAM, and only then program and commit.      *)
(*                                                                         *)
(* Device, superblocks and failures are those of LiveFilesystem over a      *)
(* write-through device.  The retired blocks of LiveFilesystem are part of   *)
(* Torn here: a block that no search takes until a collection erased it.    *)
(***************************************************************************)
EXTENDS Integers, FiniteSets, SequencesExt

CONSTANTS
    Names,          \* file paths
    Small, Large,   \* contents that shouldPack packs, and the others
    Encoded,        \* encodedRecordSize of the small ones
    Capacity,       \* room for records in a block
    BlockCount,     \* dataBlockCount of the large ones
    FirstData, EndData,
    Batches,        \* the batches that are put: sequences of files
    MaxGeneration,  \* bound: no operation starts at this generation
    MaxFaults,      \* bound: failed device calls and power losses
    Blank, Torn, Absent

Contents   == Small \cup Large
DataBlocks == FirstData .. EndData - 1
Files      == [name : Names, content : Contents]
Entries    == [name : Names, content : Contents, block : Nat, gen : Nat, id : Nat]

ASSUME PackedConstantsAssumption ==
    /\ Small \cap Large = {}
    /\ Encoded \in [Small -> 1 .. Capacity]
    /\ BlockCount \in [Large -> Nat \ {0}]
    /\ FirstData \in Nat /\ EndData \in Nat /\ FirstData < EndData
    /\ MaxGeneration \in Nat /\ MaxFaults \in Nat
    /\ \A batch \in Batches :
          /\ batch \in Seq(Files) /\ batch # <<>>
          /\ \A i, j \in DOMAIN batch : batch[i].name = batch[j].name => i = j
    /\ {Blank, Torn} \cap [gen : Nat, records : SUBSET [id : Nat, content : Contents]] = {}
    /\ Absent \notin Contents \cup [Names -> Contents \cup {Absent}]

VARIABLES
    sb,         \* the two superblocks: validity, generation and manifest
    data,       \* the data blocks
    entries,    \* entries_, in their order
    generation, active, nextFree,
    pc, job,    \* the operation in progress and its locals
    faults      \* faults so far (bound)

device == <<sb, data>>
memory == <<entries, generation, active>>
vars   == <<sb, data, entries, generation, active, nextFree, pc, job, faults>>
-----------------------------------------------------------------------------
(* Blocks, records and what an entry resolves to.                          *)

\* A block of the device: generation 0 is a part of a large file, which has
\* its place in the file as its id.
Block(gen, records) ==
    [gen |-> gen,
     records |-> {[id |-> records[i].id, content |-> records[i].content] :
                     i \in DOMAIN records}]
Part(content, i) == Block(0, <<[id |-> i, content |-> content]>>)

IsPacked(e) == e.content \in Small
Count(e)    == IF IsPacked(e) THEN 1 ELSE BlockCount[e.content]
Span(e)     == e.block .. e.block + Count(e) - 1
Used(m)     == UNION {Span(m[i]) : i \in DOMAIN m}

Holds(d, b, gen, id, content) ==
    /\ b \in DataBlocks /\ d[b] \notin {Blank, Torn}
    /\ d[b].gen = gen /\ [id |-> id, content |-> content] \in d[b].records

\* readPackedEntry, or the blocks of a large file and its checksum.
Resolves(e, d) ==
    IF IsPacked(e) THEN Holds(d, e.block, e.gen, e.id, e.content)
    ELSE \A b \in Span(e) : Holds(d, b, 0, b - e.block, e.content)
Readable(m, d) == \A i \in DOMAIN m : Resolves(m[i], d)

Valid       == {s \in {0, 1} : sb[s].ok}
IsNewest(s) == /\ s \in Valid
               /\ \A t \in Valid : \/ sb[t].gen < sb[s].gen
                                   \/ sb[t].gen = sb[s].gen /\ s <= t

\* The elements at a set of indices, in their order.
Selected(m, S) ==
    LET chosen[n \in 0 .. Len(m)] ==
            IF n = 0 THEN <<>>
            ELSE IF n \in S THEN Append(chosen[n - 1], m[n]) ELSE chosen[n - 1]
    IN chosen[Len(m)]
PackedIn(m)     == {i \in DOMAIN m : IsPacked(m[i])}
PackedAt(m, b)  == Selected(m, {i \in PackedIn(m) : m[i].block = b})
PackedBlocks(m) == {m[i].block : i \in PackedIn(m)}
Least(S)        == CHOOSE x \in S : \A y \in S : x <= y
Greatest(S)     == CHOOSE x \in S : \A y \in S : x >= y

IsNamed(m, n) == \E i \in DOMAIN m : m[i].name = n
Find(m, n)    == Least({i \in DOMAIN m : m[i].name = n})
-----------------------------------------------------------------------------
(* PackedBlockAllocator::buildPlan: first fit, in the order of the records. *)

Load(records) ==
    FoldLeft(LAMBDA sum, r : sum + Encoded[r.content], 0, records)
AddTo(bins, r) ==
    LET fits == {i \in DOMAIN bins : Load(bins[i]) + Encoded[r.content] <= Capacity}
    IN IF fits = {} THEN Append(bins, <<r>>)
       ELSE [bins EXCEPT ![Least(fits)] = Append(@, r)]
BuildPlan(records) ==
    LET bins[n \in 0 .. Len(records)] ==
            IF n = 0 THEN <<>> ELSE AddTo(bins[n - 1], records[n])
    IN bins[Len(records)]

\* A repeated id makes buildPlan refuse the records.
Eligible(records) == \A i, j \in DOMAIN records :
                         records[i].id = records[j].id => i = j

\* What will be programmed, and the entries that will point into it, counted
\* from the first block of an extent that is still to be found.
NoPlan == [image |-> <<>>, place |-> <<>>]
WithBin(plan, gen, bin) ==
    [image |-> Append(plan.image, Block(gen, bin)),
     place |-> plan.place \o
         [k \in DOMAIN bin |-> [name |-> bin[k].name, block |-> Len(plan.image),
                                content |-> bin[k].content,
                                gen |-> gen, id |-> bin[k].id]]]
WithFile(plan, f) ==
    [image |-> plan.image \o
         [k \in 1 .. BlockCount[f.content] |-> Part(f.content, k - 1)],
     place |-> Append(plan.place, [name |-> f.name, block |-> Len(plan.image),
                                   content |-> f.content, gen |-> 0, id |-> 0])]
\* The bins first, then the large files.
Plan(gen, records, large) ==
    LET bins == BuildPlan(records)
        plan[n \in 0 .. Len(bins) + Len(large)] ==
            IF n = 0 THEN NoPlan
            ELSE IF n <= Len(bins) THEN WithBin(plan[n - 1], gen, bins[n])
            ELSE WithFile(plan[n - 1], large[n - Len(bins)])
    IN plan[Len(bins) + Len(large)]

\* An entry once its plan was programmed at a block.
At(p, first) == [p EXCEPT !.block = first + @]
\* MUTANT: an entry that moves keeps its record id.
InstalledKeepsId(es, e) ==
    IF IsNamed(es, e.name)
    THEN [es EXCEPT ![Find(es, e.name)] = [e EXCEPT !.id = es[Find(es, e.name)].id]]
    ELSE Append(es, e)
\* An entry replaces the one of its name, or is appended.
Installed(es, e) ==
    IF IsNamed(es, e.name) THEN [es EXCEPT ![Find(es, e.name)] = e]
                           ELSE Append(es, e)
Install(m, place, first) ==
    LET es[n \in 0 .. Len(place)] ==
            IF n = 0 THEN m ELSE Installed(es[n - 1], At(place[n], first))
    IN es[Len(place)]
-----------------------------------------------------------------------------
(* What a put writes besides its own files.                                *)

SmallOf(batch)     == Selected(batch, PackedIn(batch))
LargeOf(batch)     == Selected(batch, DOMAIN batch \ PackedIn(batch))
Replaced(batch)    == {b \in PackedBlocks(entries) :
                          \E i \in DOMAIN PackedAt(entries, b) :
                              IsNamed(batch, PackedAt(entries, b)[i].name)}
\* New small files join the fullest block that has room for the smallest.
Joinable(batch) ==
    LET incoming == Least({Encoded[SmallOf(batch)[i].content] :
                               i \in DOMAIN SmallOf(batch)})
    IN {b \in PackedBlocks(entries) :
           Load(PackedAt(entries, b)) + incoming <= Capacity}
Fullest(S) == {b \in S : \A c \in S :
                  Load(PackedAt(entries, c)) <= Load(PackedAt(entries, b))}
Oldest(S)  == LET i == SelectInSeq(entries, LAMBDA e : IsPacked(e) /\ e.block \in S)
              IN entries[i].block
RepackBlocks(batch) ==
    IF SmallOf(batch) = <<>> \/ Replaced(batch) # {} THEN Replaced(batch)
    ELSE IF Joinable(batch) = {} THEN {}
    ELSE {Oldest(Fullest(Joinable(batch)))}

\* The entries of some indices, block by block, and in the order of the
\* manifest within a block.
ByBlock(S) ==
    LET records[n \in 0 .. EndData - FirstData] ==
            IF n = 0 THEN <<>>
            ELSE records[n - 1] \o
                 Selected(entries, {i \in S : entries[i].block = FirstData + n - 1})
    IN records[EndData - FirstData]
Carried(batch) ==
    ByBlock({i \in PackedIn(entries) : /\ entries[i].block \in RepackBlocks(batch)
                                       /\ ~IsNamed(batch, entries[i].name)})

PackedIds(m)  == {m[i].id : i \in PackedIn(m)}
PackedGens(m) == {m[i].gen : i \in PackedIn(m)}
NextId         == 1 + Greatest({0} \cup PackedIds(entries))
NextPackedGeneration == 1 + Greatest({0} \cup PackedGens(entries))

\* Carried records keep their ids; new ones get the next.
Pending(batch) ==
    Carried(batch)
        \o [i \in DOMAIN SmallOf(batch) |->
               [name |-> SmallOf(batch)[i].name, id |-> NextId + i - 1,
                content |-> SmallOf(batch)[i].content]]
PutPlan(batch) == Plan(NextPackedGeneration, Pending(batch), LargeOf(batch))
-----------------------------------------------------------------------------
(* The allocator, as in LiveFilesystem.                                    *)

Unreferenced == DataBlocks \ Used(entries)
\* MUTANT: the scan runs one block past its end.
FitsPastEnd(lo, hi, count) ==
    {s \in lo .. hi - count + 1 : \A b \in s .. s + count - 1 :
        b \in DataBlocks => b \in Unreferenced /\ data[b] = Blank}
Fits(lo, hi, count) ==
    {s \in lo .. hi - count : \A b \in s .. s + count - 1 :
        b \in Unreferenced /\ data[b] = Blank}
Cursor == IF nextFree > FirstData THEN nextFree ELSE FirstData
Wrap   == IF nextFree < EndData THEN nextFree ELSE EndData
\* findBlankExtent: from the cursor on, else from the start to the cursor.
Found(count) ==
    IF Fits(Cursor, EndData, count) # {} THEN {Least(Fits(Cursor, EndData, count))}
    ELSE IF Fits(FirstData, Wrap, count) # {}
         THEN {Least(Fits(FirstData, Wrap, count))} ELSE {}
\* findBlankExtentBefore
FoundBefore(limit, count) ==
    IF Fits(FirstData, limit, count) = {} THEN {}
    ELSE {Least(Fits(FirstData, limit, count))}
-----------------------------------------------------------------------------
NoJob == [task |-> "none", stage |-> "none", round |-> 1, attempt |-> 1,
          put |-> NoPlan, move |-> NoPlan, dest |-> FirstData,
          victims |-> {}, old |-> <<>>]

Mounted == pc # "unmounted"
CanFail == faults < MaxFaults
CanStart == pc = "idle" /\ generation < MaxGeneration
Return == pc' = "idle" /\ job' = NoJob

\* What the operation programs next: the files of the put, or a relocation.
Current == IF job.stage = "move" THEN job.move ELSE job.put
Destination == job.dest .. job.dest + Len(Current.image) - 1

Image(gen, man) == [ok |-> TRUE, gen |-> gen, man |-> man]
Invalid == [ok |-> FALSE, gen |-> 0, man |-> <<>>]

Init ==
    /\ sb = [s \in {0, 1} |-> IF s = 1 THEN Image(1, <<>>) ELSE Invalid]
    /\ data = [b \in DataBlocks |-> Blank]
    /\ entries = <<>> /\ generation = 0 /\ active = 0 /\ nextFree = FirstData
    /\ pc = "unmounted" /\ job = NoJob /\ faults = 0

Open ==
    /\ pc = "unmounted"
    /\ \E s \in {0, 1} :
        /\ IsNewest(s)
        /\ entries' = sb[s].man /\ generation' = sb[s].gen /\ active' = s
        /\ nextFree' = Greatest({FirstData} \cup {b + 1 : b \in Used(sb[s].man)})
    /\ pc' = "idle"
    /\ UNCHANGED <<device, job, faults>>

Forget ==
    /\ pc' = "unmounted" /\ job' = NoJob
    /\ entries' = <<>> /\ generation' = 0 /\ active' = 0 /\ nextFree' = FirstData
Close == pc = "idle" /\ Forget /\ UNCHANGED <<device, faults>>
-----------------------------------------------------------------------------
(* Requests.                                                               *)

RemoveFile(n) ==
    /\ CanStart
    /\ IsNamed(entries, n)
    /\ entries' = RemoveAt(entries, Find(entries, n))
    /\ pc' = "commit"
    /\ job' = [NoJob EXCEPT !.task = "remove", !.stage = "final", !.old = entries]
    /\ UNCHANGED <<device, generation, active, nextFree, faults>>

\* Everything about a put but its destination is settled before it allocates.
PutFiles(batch) ==
    /\ CanStart
    /\ Readable(Carried(batch), data)
    /\ Eligible(Pending(batch))
    /\ Len(PutPlan(batch).image) <= EndData - FirstData
    /\ pc' = "search"
    /\ job' = [NoJob EXCEPT !.task = "put", !.stage = "final", !.put = PutPlan(batch)]
    /\ UNCHANGED <<device, memory, nextFree, faults>>

Collect(task) ==
    /\ CanStart
    /\ pc' = "collect"
    /\ job' = [NoJob EXCEPT !.task = task]
    /\ UNCHANGED <<device, memory, nextFree, faults>>
-----------------------------------------------------------------------------
(* allocateExtent: search, collect, search, compact, search.               *)

SearchFinds ==
    /\ pc = "search"
    /\ \E s \in Found(Len(job.put.image)) :
        /\ nextFree' = s
        /\ job' = [job EXCEPT !.dest = s]
    /\ pc' = "program"
    /\ UNCHANGED <<device, memory, faults>>

\* Blocks a search may take: all but those it knows to be occupied.
Takeable == Cardinality({b \in Unreferenced : data[b] = Blank})
SearchFails ==
    /\ pc = "search"
    /\ Found(Len(job.put.image)) = {}
    /\ \/ job.round = 1 /\ pc' = "collect" /\ UNCHANGED job
       \/ /\ job.round = 2 /\ Len(job.put.image) <= Takeable
          /\ pc' = "pack" /\ UNCHANGED job
       \/ job.round = 2 /\ Len(job.put.image) > Takeable /\ Return
       \/ job.round = 3 /\ Return
    /\ UNCHANGED <<device, memory, nextFree, faults>>

AfterCollect ==
    \/ job.task = "gc" /\ Return
    \/ /\ job.task = "put" /\ pc' = "search"
       /\ job' = [job EXCEPT !.round = 2, !.stage = "final", !.victims = {}]
    \/ /\ job.task = "compact" /\ pc' = "pack"
       /\ job' = [job EXCEPT !.stage = "none", !.victims = {}]

CollectScan ==
    /\ pc = "collect"
    /\ LET garbage == {b \in Unreferenced : data[b] # Blank}
       IN IF garbage = {} THEN AfterCollect
          ELSE /\ pc' = "commit"
               /\ job' = [job EXCEPT !.stage = "collect", !.victims = garbage]
    /\ UNCHANGED <<device, memory, nextFree, faults>>
-----------------------------------------------------------------------------
(* compactPackedBlocks, then compactFiles for the large files.             *)

\* MUTANT: the records are taken in the order of the manifest alone.
RecordsByManifest == Selected(entries, PackedIn(entries))
RecordsByBlock    == ByBlock(PackedIn(entries))
\* They are numbered anew from 1.
Renumbered(records) ==
    [i \in DOMAIN records |-> [name |-> records[i].name, id |-> i,
                               content |-> records[i].content]]
PackPlan == Plan(NextPackedGeneration, Renumbered(RecordsByBlock), <<>>)

\* Where the records go: anywhere if they need fewer blocks than they have,
\* else only in front of all of them.
PackDestination ==
    LET need == Len(PackPlan.image)
    IN IF PackedBlocks(entries) = {} THEN {}
       ELSE IF need < Cardinality(PackedBlocks(entries)) THEN Found(need)
       ELSE FoundBefore(Least(PackedBlocks(entries)), need)

PackMove ==
    /\ pc = "pack"
    /\ Readable(RecordsByBlock, data)
    /\ \E s \in PackDestination :
        job' = [job EXCEPT !.stage = "move", !.move = PackPlan, !.dest = s,
                           !.victims = PackedBlocks(entries)]
    /\ pc' = "program"
    /\ UNCHANGED <<device, memory, nextFree, faults>>
PackNot ==
    /\ pc = "pack"
    /\ PackDestination = {}
    /\ pc' = "compact"
    /\ UNCHANGED <<device, memory, nextFree, job, faults>>

\* The last large file that fits in front of itself moves.
Room(i) == IF IsPacked(entries[i]) THEN {}
           ELSE FoundBefore(entries[i].block, Count(entries[i]))
CompactMove ==
    /\ pc = "compact"
    /\ \E i \in DOMAIN entries : \E s \in Room(i) :
        /\ \A j \in DOMAIN entries : entries[j].block > entries[i].block => Room(j) = {}
        /\ job' = [job EXCEPT !.stage = "move", !.move = Plan(0, <<>>, <<entries[i]>>),
                              !.dest = s, !.victims = Span(entries[i])]
    /\ pc' = "program"
    /\ UNCHANGED <<device, memory, nextFree, faults>>
CompactDone ==
    /\ pc = "compact"
    /\ \A i \in DOMAIN entries : Room(i) = {}
    /\ IF job.task = "put"
       THEN pc' = "search" /\ job' = [job EXCEPT !.round = 3, !.stage = "final"]
       ELSE Return
    /\ UNCHANGED <<device, memory, nextFree, faults>>
-----------------------------------------------------------------------------
(* Programming, committing, erasing.                                       *)

Programmed ==
    [b \in DataBlocks |-> IF b \in Destination
                          THEN Current.image[b - job.dest + 1] ELSE data[b]]
Program ==
    /\ pc = "program"
    /\ data' = Programmed
    /\ entries' = Install(entries, Current.place, job.dest)
    /\ nextFree' = job.dest + Len(Current.image)
    /\ pc' = "commit"
    /\ job' = [job EXCEPT !.old = entries]
    /\ UNCHANGED <<sb, generation, active, faults>>

\* Blocks of the extent up to some one are spoiled; a put tries another.
Spoiled(last) ==
    [b \in DataBlocks |-> IF b \in job.dest .. last THEN Torn ELSE data[b]]
ProgramFails ==
    /\ pc = "program" /\ CanFail /\ faults' = faults + 1
    /\ \E last \in Destination : data' = Spoiled(last) /\ nextFree' = last + 1
    /\ IF job.stage = "final" /\ job.attempt < 3
       THEN /\ pc' = "search"
            /\ job' = [job EXCEPT !.attempt = @ + 1, !.round = 1]
       ELSE Return
    /\ UNCHANGED <<sb, memory>>

Rewrites == {sb, [sb EXCEPT ![1 - active] = Image(generation + 1, entries)],
             [sb EXCEPT ![1 - active] = Invalid]}
Commit ==
    /\ pc = "commit"
    /\ sb' = [sb EXCEPT ![1 - active] = Image(generation + 1, entries)]
    /\ active' = 1 - active /\ generation' = generation + 1
    /\ \/ job.stage = "final" /\ Return
       \/ job.stage = "move" /\ job' = [job EXCEPT !.stage = "sync"] /\ pc' = "commit"
       \/ job.stage \in {"collect", "sync"} /\ pc' = "erase" /\ UNCHANGED job
    /\ UNCHANGED <<data, entries, nextFree, faults>>
\* MUTANT: a put whose commit failed keeps its changed entries.
CommitFailsKeeps ==
    /\ pc = "commit" /\ CanFail /\ faults' = faults + 1
    /\ sb' \in Rewrites
    /\ Return
    /\ UNCHANGED <<data, entries, generation, active, nextFree>>
CommitFails ==
    /\ pc = "commit" /\ CanFail /\ faults' = faults + 1
    /\ sb' \in Rewrites
    /\ entries' = IF job.stage \in {"final", "move"} THEN job.old ELSE entries
    /\ Return
    /\ UNCHANGED <<data, generation, active, nextFree>>

PartlyErased(S) == {[b \in DataBlocks |-> IF b \in T THEN Torn ELSE data[b]] :
                       T \in SUBSET S}
EraseBlocks ==
    /\ pc = "erase"
    /\ data' = [b \in DataBlocks |-> IF b \in job.victims THEN Blank ELSE data[b]]
    /\ IF job.stage = "sync"
       THEN /\ nextFree' = FirstData /\ pc' = "compact"
            /\ job' = [job EXCEPT !.stage = "none", !.move = NoPlan,
                                  !.dest = FirstData, !.victims = {}, !.old = <<>>]
       ELSE AfterCollect /\ UNCHANGED nextFree
    /\ UNCHANGED <<sb, memory, faults>>
EraseBlocksFails ==
    /\ pc = "erase" /\ CanFail /\ faults' = faults + 1
    /\ data' \in PartlyErased(job.victims)
    /\ Return
    /\ UNCHANGED <<sb, memory, nextFree>>

\* Power loss or exit in the middle of whatever is running.
Crash ==
    /\ Mounted /\ CanFail /\ faults' = faults + 1
    /\ \/ UNCHANGED device
       \/ pc = "commit" /\ sb' \in Rewrites /\ UNCHANGED data
       \/ pc = "program" /\ (\E last \in Destination : data' = Spoiled(last)) /\ UNCHANGED sb
       \/ pc = "erase" /\ data' \in PartlyErased(job.victims) /\ UNCHANGED sb
    /\ Forget
-----------------------------------------------------------------------------
Proceed == \/ SearchFinds \/ SearchFails \/ CollectScan \/ PackMove \/ PackNot
           \/ CompactMove \/ CompactDone \/ Program \/ Commit \/ EraseBlocks
Fault   == ProgramFails \/ CommitFails \/ EraseBlocksFails \/ Crash
Request == \/ \E batch \in Batches : PutFiles(batch)
           \/ \E n \in Names : RemoveFile(n)
           \/ \E task \in {"gc", "compact"} : Collect(task)

Next == Open \/ Close \/ Request \/ Proceed \/ Fault
Spec == Init /\ [][Next]_vars
-----------------------------------------------------------------------------
(* What must hold.                                                         *)

TypeOK ==
    /\ entries \in Seq(Entries)
    /\ \A s \in {0, 1} : sb[s].man \in Seq(Entries) /\ sb[s].gen \in Nat
    /\ generation \in Nat /\ active \in {0, 1}
    /\ nextFree \in FirstData .. EndData
    /\ pc \in {"unmounted", "idle", "search", "collect", "pack", "compact",
               "program", "commit", "erase"}
    /\ \A b \in DataBlocks : data[b] \notin {Blank, Torn} => data[b].records # {}

\* Both superblocks stay usable while records move between blocks: every
\* entry that either of them names is found where and as it says.
BothManifestsResolve ==
    /\ Valid # {}
    /\ \A s \in Valid : Readable(sb[s].man, data)

\* Compaction never spreads the records over more blocks than they had.
PackingNeverGrows ==
    [][(pc = "pack" /\ pc' = "program") =>
          Len(job'.move.image) <= Cardinality(PackedBlocks(entries))]_vars

\* putFileViews can copy the live records of the blocks it touches, for every
\* batch: no two of them have the same id.
CopyIsPossible ==
    pc = "idle" => \A batch \in Batches : Eligible(Pending(batch))

\* Each operation is atomic for the files that share blocks with the ones it
\* is about, too: AtomicStore, with files read through their entries.
ReadBack(m) ==
    [n \in Names |->
        IF ~IsNamed(m, n) THEN Absent
        ELSE LET e == m[Find(m, n)] IN IF Resolves(e, data) THEN e.content ELSE Torn]

\* Until changed entries are committed the files are those of the old ones.
LastCommit == pc = "commit" /\ job.stage = "final"
Visible    == IF LastCommit THEN job.old ELSE entries
Wanted ==
    IF job.task \notin {"put", "remove"} THEN Absent
    ELSE IF LastCommit THEN ReadBack(entries)
    ELSE [n \in Names |-> IF IsNamed(job.put.place, n)
                          THEN job.put.place[Find(job.put.place, n)].content
                          ELSE ReadBack(entries)[n]]
Durable == ReadBack(sb[CHOOSE s \in {0, 1} : IsNewest(s)].man)
Viewed  == IF Mounted THEN ReadBack(Visible) ELSE Absent
Atomic == INSTANCE AtomicStore WITH
    Placeholders <- {},
    WriteBehind  <- FALSE,
    Lost         <- Torn,
    durable      <- Durable,
    view         <- Viewed,
    want         <- Wanted
ImplementsAtomicStore == Atomic!StoreSpec
=============================================================================
