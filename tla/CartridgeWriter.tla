--------------------------- MODULE CartridgeWriter ---------------------------
(***************************************************************************)
(* How CartridgeStorage makes the filesystem's block calls out of cartridge  *)
(* commands that fail, are acknowledged and lost, or are read back wrong:    *)
(* each command is verified, and retried from a known state.                 *)
(*                                                                         *)
(* The mount admits one call at a time, so a call is one step.  An operator   *)
(* takes the call under way and gives the set of the ways it can go on; a     *)
(* call is a record of the cartridge, the USB session and its own progress.   *)
(* Its field "is" says how the last part ended: "done", "failed", "broken" (a *)
(* transfer of several blocks stopped short), "differs" (read back, and not   *)
(* as expected) or "again" (try once more).                                  *)
(***************************************************************************)
EXTENDS Integers, Sequences, FiniteSets, SequencesExt

CONSTANTS
    Count,      \* block_count
    Split,      \* blocks of boot sectors at either end (two in the code)
    Values,     \* what blocks are programmed with
    Blank,      \* an erased block
    Torn,       \* neither; also what a read shows that came too early
    MaxExtent,  \* bound: blocks of an extent
    MaxFaults   \* bound: commands that fail within one call

Blocks   == 0 .. Count - 1
Contents == Values \cup {Blank, Torn}
Low      == 0 .. Split - 1
Metadata == Low \cup Count - Split .. Count - 1

ASSUME WriterAssumption ==
    /\ Count \in Nat /\ Split \in 1 .. Count \div 2
    /\ {Blank, Torn} \cap Values = {} /\ Blank # Torn
    /\ MaxExtent \in 1 .. Count /\ MaxFaults \in Nat

VARIABLES
    flash,      \* the cartridge
    seen,       \* per block, what a read may show instead of its contents
    mapping,    \* the bridge: "write" since the session was opened, "read"
                \* after a read
    open,       \* is_open
    aside,      \* blocks of failed calls, which the filesystem sets aside
    prepared,   \* the last call restarted the session for a write
    last        \* the answer of the call that has just ended

cartridge == <<flash, seen, mapping, open, aside, prepared>>
vars == <<cartridge, last>>

\* No call has just ended.
Nothing == [is |-> "nothing", reported |-> <<>>, spent |-> 0]

Init ==
    /\ flash = [b \in Blocks |-> Blank]
    /\ seen = [b \in Blocks |-> {}]
    /\ mapping = "write" /\ open = TRUE /\ aside = {}
    /\ prepared = FALSE /\ last = Nothing

\* A call as it begins: spent counts its faults (and, at the end, a session
\* that an earlier call had lost), sent the blocks of the last transfer that
\* were acknowledged, done those of the extent that are settled
\* (completed_blocks), bad the blocks of a batch that must be erased again.
Call == [flash |-> flash, seen |-> seen, mapping |-> mapping, open |-> open,
         is |-> "done", spent |-> 0, sent |-> 0, done |-> 0, bad |-> {}]
-----------------------------------------------------------------------------
(* Parts of a call, one after another.                                     *)

As(c, s)    == [c EXCEPT !.is = s]
Faulty(c, k) ==
    IF c.spent + k <= MaxFaults THEN {[c EXCEPT !.spent = @ + k]} ELSE {}

Then(S, Op(_)) == UNION {IF c.is = "done" THEN Op(c) ELSE {c} : c \in S}
Else(S, Op(_)) == UNION {IF c.is = "done" THEN {c} ELSE Op(As(c, "done")) : c \in S}
\* For all that were verified, or not.
Always(S, Op(_, _)) == UNION {Op(As(c, "done"), c.is = "done") : c \in S}
AgainUnlessDone(S) == {IF c.is = "done" THEN c ELSE As(c, "again") : c \in S}
\* For each of n numbers after the first ones.
EachOf(from, n, c, Op(_, _)) ==
    LET ways[k \in 0 .. n] ==
            IF k = 0 THEN {c}
            ELSE UNION {IF d.is = "done" THEN Op(d, from + k) ELSE {d} : d \in ways[k - 1]}
    IN ways[n]

Attempts == 3
Retried(S, a, Try(_, _)) ==
    UNION {IF c.is = "again" THEN Try(a, As(c, "done")) ELSE {c} : c \in S}
Retry(c, Try(_, _)) ==
    LET once  == Try(1, c)
        twice == Retried(once, 2, Try)
    IN {IF d.is = "again" THEN As(d, "failed") ELSE d : d \in Retried(twice, Attempts, Try)}

Sorted(S) == CHOOSE s \in [1 .. Cardinality(S) -> S] :
                 \A i, j \in 1 .. Cardinality(S) : i < j => s[i] < s[j]
Least(a, b) == IF a <= b THEN a ELSE b
Only(f, S) == [b \in S |-> f[b]]
-----------------------------------------------------------------------------
(* The USB session.                                                        *)

\* openLiveWriteSessionWithRetry: up to three initialisations.
OpenSession(c) ==
    LET opened == [c EXCEPT !.open = TRUE, !.mapping = "write",
                            !.seen = [b \in Blocks |-> {}]]
    IN (UNION {Faulty(opened, k) : k \in 0 .. Attempts - 1})
       \cup {As([d EXCEPT !.open = FALSE], "failed") : d \in Faulty(c, Attempts)}
EnsureOpen(c) == IF c.open THEN {c} ELSE OpenSession(c)
\* restartLiveWriteSession.  How the close ends does not matter.
Restart(c) == OpenSession([c EXCEPT !.open = FALSE])

\* A block that is read: what it holds, or not yet.  What a boot sector shows
\* stays until the session is reopened; any other has settled by the next read.
ReadBlock(c, b, v) ==
    IF ~c.open THEN {As(c, "failed")}
    ELSE LET after == [c EXCEPT !.mapping = "read"]
             Shown(x) == [after EXCEPT !.seen[b] =
                             IF b \in Metadata /\ x # c.flash[b] THEN {x} ELSE {}]
         IN {As(Shown(x), IF x = v THEN "done" ELSE "differs") :
                 x \in {c.flash[b]} \cup c.seen[b]}
            \cup {As(d, "failed") : d \in Faulty(after, 1)}

\* What erasing or programming a block that holds x with v makes of it: flash
\* bits can only be cleared.
Landed(x, v) ==
    CASE v = Blank \/ x \in {Blank, v} -> {v}
      [] x = Torn /\ v # Blank         -> {v, Torn}
      [] OTHER                         -> {Torn}

\* The cartridge after the blocks of f were erased or programmed.
Written(c, f) ==
    [c EXCEPT !.flash = [b \in Blocks |-> IF b \in DOMAIN f THEN f[b] ELSE @[b]],
              !.seen = [b \in Blocks |->
                  IF b \notin DOMAIN f THEN @[b]
                  ELSE (@[b] \cup {IF b \in Metadata THEN c.flash[b] ELSE Torn}) \ {f[b]}]]

\* What the first k blocks of an image may hold after their commands, and
\* what they hold when the j-th, of them or the next one, did not take its own.
Land(c, image, k) ==
    {f \in [{Sorted(DOMAIN image)[i] : i \in 1 .. k} -> Contents] :
         \A b \in DOMAIN f : f[b] \in Landed(c.flash[b], image[b])}
Hurt(c, image, k, j) ==
    LET b == Sorted(DOMAIN image)[j]
    IN {[x \in DOMAIN f \cup {b} |-> IF x = b THEN v ELSE f[x]] :
            f \in Land(c, image, k), v \in {c.flash[b], Torn}}
Ended(c, f, s, k) == [Written(c, f) EXCEPT !.is = s, !.sent = k]

\* One command fails: the finish, a block that is refused, or one that is
\* acknowledged and did not take it.
Hindered(c, image) ==
    LET n == Cardinality(DOMAIN image)
    IN {Ended(c, f, "failed", n) : f \in Land(c, image, n)}
       \cup (UNION {{Ended(c, f, "failed", k - 1) :
                        f \in Land(c, image, k) \cup Hurt(c, image, k - 1, k)} : k \in 1 .. n})
       \cup (UNION {{Ended(c, f, "done", n) : f \in Hurt(c, image, n, k)} : k \in 1 .. n})
\* In the read mapping a program may be dropped.
Dropped(c, image) ==
    IF c.mapping = "read" /\ \E b \in DOMAIN image : image[b] # Blank
    THEN {[c EXCEPT !.sent = Cardinality(DOMAIN image)],
          [c EXCEPT !.is = "failed", !.sent = 0]}
    ELSE {}
\* eraseLiveBlock, eraseLiveBlocks, programLiveBlock, programLiveExtent: one
\* command per block, in order, then the finish.
Transfer(c, image) ==
    {Ended(c, f, "done", Cardinality(DOMAIN image)) :
         f \in Land(c, image, Cardinality(DOMAIN image))}
    \cup Dropped(c, image) \cup UNION {Hindered(d, image) : d \in Faulty(c, 1)}
-----------------------------------------------------------------------------
(* Verified commands.                                                      *)

\* readLiveBlockAfterWrite
ReadAfterWrite(c, b, v, reopen) ==
    LET Reopened(d) == Then(Restart(d), LAMBDA e : ReadBlock(e, b, v))
    IN IF reopen THEN Reopened(c)
       ELSE UNION {IF d.is = "failed" THEN Reopened(As(d, "done")) ELSE {d} :
                   d \in ReadBlock(c, b, v)}

\* verifyLiveBlockAfterWrite: the last of three looks reopens the session.
Verify(c, b, v, reopen) ==
    Retry([c EXCEPT !.sent = 0], LAMBDA a, d :
        AgainUnlessDone(ReadAfterWrite(d, b, v, reopen \/ a = Attempts)))

\* readLiveFilesystem, that has read v: three reads, with a restart between
\* two of them.
Reread(c, b, v) ==
    Retry(c, LAMBDA a, d :
        UNION {IF e.is = "failed" /\ a < Attempts
               THEN {IF f.is = "done" THEN As(f, "again") ELSE f :
                         f \in Restart(As(e, "done"))}
               ELSE {e} : e \in {x \in ReadBlock(d, b, v) : x.is # "differs"}})

\* One block is erased or programmed, and looked at.
WriteBlock(c, b, v) ==
    Always(Transfer(c, [x \in {b} |-> v]),
           LAMBDA t, ok : Verify(t, b, v, ~ok \/ b \in Metadata))

\* MUTANT: a boot sector is verified without reopening the session.
EraseBlockUnreopened(c, b) ==
    Retry(c, LAMBDA a, d :
        Then(EnsureOpen(d), LAMBDA e :
            AgainUnlessDone(Always(Transfer(e, [x \in {b} |-> Blank]),
                LAMBDA t, ok : Verify(t, b, Blank, ~ok)))))
\* eraseLiveFilesystemBlock
EraseBlock(c, b) ==
    Retry(c, LAMBDA a, d :
        Then(EnsureOpen(d), LAMBDA e : AgainUnlessDone(WriteBlock(e, b, Blank))))

\* eraseLiveFilesystemBlocks: the batch, one look at each block, and those
\* that are not blank singly.
Look(c, b, reopen) ==
    {IF d.is = "done" THEN d ELSE [As(d, "done") EXCEPT !.bad = @ \cup {b}] :
         d \in ReadAfterWrite(c, b, Blank, reopen)}
Looks(c, S) == EachOf(0, Cardinality(S), c, LAMBDA d, i : Look(d, Sorted(S)[i], i = 1))
Mend(c, b)  == IF b \in c.bad THEN EraseBlock(c, b) ELSE {c}
Mends(c, S) == EachOf(0, Cardinality(S), c, LAMBDA d, i : Mend(d, Sorted(S)[i]))
EraseBatch(c, S) ==
    Then(EnsureOpen(c), LAMBDA d :
        Then(Always(Transfer(d, [b \in S |-> Blank]), LAMBDA t, ok : Looks(t, S)),
             LAMBDA t : Mends(t, S)))

\* MUTANT: the session is not restarted after the erase was read back.
RepairUnrestarted(c, b) == EraseBlock(c, b)
\* A block is programmed again from blank, and the session restarted because
\* the erase was read back.
Repair(c, b) == Then(EraseBlock(c, b), Restart)

\* programLiveFilesystemBlock
ProgramBlock(c, b, v) ==
    Retry(c, LAMBDA a, d :
        Then(EnsureOpen(d), LAMBDA e :
            IF a = Attempts THEN WriteBlock(e, b, v)
            ELSE Else(WriteBlock(e, b, v), LAMBDA f :
                {IF g.is = "done" THEN As(g, "again") ELSE g : g \in Repair(f, b)})))

\* replaceLiveFilesystemMetadata: nothing is read between erase and program.
ReplaceBlock(c, b, v) ==
    Retry(c, LAMBDA a, d :
        Then(Restart(d), LAMBDA e :
            AgainUnlessDone(
                Then(Transfer(e, [x \in {b} |-> Blank]), LAMBDA t :
                    Always(Transfer(t, [x \in {b} |-> v]),
                        LAMBDA u, ok : Verify(u, b, v, TRUE))))))
-----------------------------------------------------------------------------
(* Extents: images whose domain is an interval of blocks.                  *)

\* After a transfer of n blocks that stopped short, the block it stopped at is
\* looked at too.
Looked(t, ok, n) == IF ok THEN n ELSE Least(n, t.sent + 1)

\* programLiveFilesystemExtent: a block that cannot be verified is repaired on
\* its own; a transfer that stopped before the last block is not resumed.
Settle(c, b, v, reopen) ==
    {IF d.is = "done" THEN [d EXCEPT !.done = @ + 1] ELSE d :
         d \in Else(Verify(c, b, v, reopen), LAMBDA f :
                   Then(Repair(f, b), LAMBDA g : ProgramBlock(g, b, v)))}
Settles(c, image, ok, looked) ==
    EachOf(0, looked, c, LAMBDA d, i :
        Settle(d, Sorted(DOMAIN image)[i], image[Sorted(DOMAIN image)[i]], ~ok /\ i = 1))
ProgramExtent(c, image) ==
    LET n == Cardinality(DOMAIN image)
        Finished(t, ok) ==
            Then(Settles(t, image, ok, Looked(t, ok, n)), LAMBDA d :
                {IF Looked(t, ok, n) = n THEN d ELSE [As(d, "broken") EXCEPT !.done = t.sent]})
    IN Then(EnsureOpen(c), LAMBDA d : Always(Transfer(d, image), Finished))

\* replaceLiveFilesystemExtent: each attempt goes on after the blocks that are
\* verified.  S are the blocks that are not blank; later attempts erase all.
Confirm(c, b, v, reopen) ==
    {IF d.is = "done" THEN [d EXCEPT !.done = @ + 1] ELSE As(d, "again") :
         d \in Verify(c, b, v, b \in Low \/ reopen)}
Confirms(c, image, ok, looked) ==
    EachOf(c.done, looked, c, LAMBDA d, i :
        Confirm(d, Sorted(DOMAIN image)[i], image[Sorted(DOMAIN image)[i]],
                ~ok /\ i = c.done + 1))
ReplaceExtent(c, image, S) ==
    LET n == Cardinality(DOMAIN image)
        Rest(d) == {Sorted(DOMAIN image)[i] : i \in d.done + 1 .. n}
        Erased(d, T) == IF T = {} THEN {d} ELSE Transfer(d, [b \in T |-> Blank])
        Confirmed(d, ok) ==
            {IF e.is = "done" /\ e.done < n THEN As(e, "again") ELSE e :
                 e \in Confirms(d, image, ok, Looked(d, ok, n - d.done))}
    IN Retry(c, LAMBDA a, d :
           AgainUnlessDone(Then(Restart(d), LAMBDA e :
               Then(Erased(e, IF a = 1 THEN S ELSE Rest(e)), LAMBDA t :
                   Always(Transfer(t, Only(image, Rest(t))), Confirmed)))))
-----------------------------------------------------------------------------
(* The calls of the filesystem.                                            *)

\* A call, and its answer: what it reports as stored, or read, is the image,
\* or the completed part of an extent.
Answer(ways, image, prepares) ==
    /\ last = Nothing
    /\ \E c \in ways :
        /\ flash' = c.flash /\ seen' = c.seen /\ mapping' = c.mapping /\ open' = c.open
        /\ aside' = {b \in IF c.is = "done" THEN aside \ DOMAIN image
                           ELSE aside \cup DOMAIN image : c.seen[b] # {}}
        /\ prepared' = (prepares /\ c.is = "done")
        /\ last' = [is |-> c.is, spent |-> c.spent + (IF open THEN 0 ELSE 1),
                    reported |-> IF c.is = "done" THEN image
                                 ELSE Only(image, {Sorted(DOMAIN image)[i] : i \in 1 .. c.done})]
\* The filesystem takes the answer.
Return == last # Nothing /\ last' = Nothing /\ UNCHANGED cartridge

\* Bound: no two blocks of an image are alike.
Extents == {lo .. hi : lo, hi \in Blocks} \ {{}}
Images  == UNION {Injection(S, Values) : S \in {T \in Extents : Cardinality(T) <= MaxExtent}}
\* The boot image begins at block 0 and ends before the metadata at the end.
BootImages == {f \in Images : 0 \in DOMAIN f /\ DOMAIN f \subseteq 0 .. Count - Split - 1}

\* A block that is in use is read.
Read(b) ==
    b \notin aside /\ \E v \in Contents : Answer(Reread(Call, b, v), [x \in {b} |-> v], FALSE)

\* prepareForErase and prepareForProgram
Prepare == Answer(Restart(Call), <<>>, TRUE)
\* eraseBlock and eraseBlocks, which the filesystem prepares
Erase(b) ==
    prepared /\ Answer(EraseBlock(Call, b), [x \in {b} |-> Blank], FALSE)
EraseAll(S) ==
    prepared /\ Answer(EraseBatch(Call, S), [b \in S |-> Blank], FALSE)
\* programBlocks: the allocator has found the blocks blank.
Program(image) ==
    /\ prepared
    /\ \A b \in DOMAIN image : flash[b] = Blank
    /\ Answer(ProgramExtent(Call, image), image, FALSE)
\* replaceMetadataBlock
ReplaceMetadata(b, v) == Answer(ReplaceBlock(Call, b, v), [x \in {b} |-> v], FALSE)
\* replaceBlocks: the boot image, with its blocks that are not blank.  Bound:
\* tried only where the session, which it restarts, shows no old contents.
Replace(image) ==
    /\ mapping = "write" /\ \A b \in Blocks : seen[b] = {}
    /\ Answer(ReplaceExtent(Call, image, {b \in DOMAIN image : flash[b] # Blank}), image, FALSE)

Next ==
    \/ Return \/ Prepare
    \/ \E b \in Blocks : Read(b) \/ Erase(b)
    \/ \E S \in SUBSET Blocks \ {{}} : EraseAll(S)
    \/ \E image \in Images : Program(image)
    \/ \E b \in Metadata, v \in Values : ReplaceMetadata(b, v)
    \/ \E image \in BootImages : Replace(image)

Spec == Init /\ [][Next]_vars
-----------------------------------------------------------------------------
(* What the calls promise.                                                 *)

\* What a call reports as stored, erased or read is what the cartridge holds,
\* and so is the part of an extent that it reports as completed, although
\* boot sectors show what they held before until the session is reopened, and
\* commands are acknowledged that changed nothing.
StoredAsReported ==
    \A b \in DOMAIN last.reported : last.reported[b] = flash[b]

\* A call fails only after three faults, or when a transfer of several blocks
\* broke off: a settling read, a stale view or a dropped program alone, or
\* two faults of any kind in any order, never make one fail.
RetriesAbsorb ==
    /\ last.is = "failed" => last.spent >= Attempts
    /\ last.is = "broken" => last.spent >= 1
=============================================================================
