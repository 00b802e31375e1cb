----------------------------- MODULE DeviceStack -----------------------------
(***************************************************************************)
(* The two devices between a mounted filesystem and its cartridge: the      *)
(* CachedBlockDevice, which keeps blocks in RAM, over the                   *)
(* CoalescingMetadataBlockDevice, which keeps the newest superblock in RAM   *)
(* until the cartridge has been idle, an erase needs it or the session ends. *)
(*                                                                         *)
(* Every call on the coalescing device holds its mutex to the end, and the   *)
(* idle thread holds it from its decision to flush on; the cache belongs to  *)
(* the one request that the mount admits.  A request, with the call it makes *)
(* below, is one step, and so is each turn of the thread between two waits.  *)
(***************************************************************************)
EXTENDS Integers

CONSTANTS
    Data,       \* data blocks
    Meta,       \* superblocks
    Values,     \* what blocks are programmed with
    Blank,      \* an erased block
    Torn,       \* the remnant of a failed call
    Absent,     \* not cached, not staged
    MaxFaults   \* bound: failed calls of the cartridge

Contents == Values \cup {Blank, Torn}
Blocks   == Data \cup Meta
Staging  == [block : Meta, value : Values]

ASSUME StackAssumption ==
    /\ Data \cap Meta = {}
    /\ Blank \notin Values /\ Torn \notin Values /\ Blank # Torn
    /\ Absent \notin Contents /\ Absent \notin Staging

VARIABLES
    flash,      \* the cartridge
    cache,      \* blocks_
    staged,     \* pending_metadata_block_ and pending_metadata_
    newest,     \* history: the last superblock that was accepted
    failed,     \* idle_flush_failed_
    attempts,   \* history: idle flushes that failed since the last activity
    disturbed,  \* activity_generation_ differs from the captured one
    thread,     \* where the idle thread is
    stop,       \* stop_
    session,    \* of the mount: "busy", "quiet" (no request comes), "closing",
                \* "closing again", "closed", "unclosed", "left"
    faults      \* faults so far (bound)

idle == <<failed, attempts, disturbed, thread>>
vars == <<flash, cache, staged, newest, failed, attempts, disturbed, thread,
          stop, session, faults>>

CanFail == faults \in 0 .. MaxFaults - 1 /\ faults' = faults + 1

Init ==
    /\ flash \in [Blocks -> {Blank} \cup Values]
    /\ cache = [b \in Blocks |-> Absent]
    /\ staged = Absent /\ newest = Absent
    /\ failed = FALSE /\ attempts = 0 /\ disturbed = FALSE
    /\ thread = "check" /\ stop = FALSE
    /\ session = "busy" /\ faults = 0
-----------------------------------------------------------------------------
(* Pieces of the calls.                                                    *)

Overlay(f, g) == [b \in DOMAIN f |-> IF b \in DOMAIN g THEN g[b] ELSE f[b]]
All(S, v)     == [b \in S |-> v]
Invalidated(S) == Overlay(cache, All(S, Absent))

\* What a failed call on the blocks of g leaves behind: each is as it was, or
\* as it should be, or neither.
Remnants(f, g) ==
    {Overlay(f, h) : h \in {k \in [DOMAIN g -> Contents] :
        \A b \in DOMAIN g : k[b] \in {f[b], g[b], Torn}}}

\* MUTANT: activity does not wake the idle thread.
ActivityUnheard ==
    /\ failed' = FALSE /\ attempts' = 0 /\ disturbed' = TRUE
    /\ UNCHANGED thread
\* markActivityLocked
Activity ==
    /\ failed' = FALSE /\ attempts' = 0 /\ disturbed' = TRUE
    /\ thread' = IF thread = "asleep" THEN "check" ELSE thread

\* MUTANT: the staged bytes are cleared before they are written.
PendingCleared ==
    [b \in {c \in Meta : staged # Absent /\ c = staged.block} |-> Absent]
\* flushLocked, as the cartridge is after it.
Pending ==
    [b \in {c \in Meta : staged # Absent /\ c = staged.block} |-> staged.value]
AfterFlush == Overlay(flash, Pending)
FlushFailure == staged # Absent /\ CanFail /\ flash' \in Remnants(flash, Pending)
\* A request whose flush fails returns at once, and is no activity.
FlushFails == FlushFailure /\ UNCHANGED <<staged, newest, idle, stop, session>>
-----------------------------------------------------------------------------
(* Requests of the filesystem, through the cache.                          *)

Request == session = "busy"

\* A block that is cached is not read again, and that is no activity.
Read(b) ==
    /\ Request /\ cache[b] = Absent
    /\ \/ cache' = [cache EXCEPT ![b] = flash[b]] /\ UNCHANGED faults
       \/ CanFail /\ UNCHANGED cache
    /\ Activity
    /\ UNCHANGED <<flash, staged, newest, stop, session>>

\* MUTANT: what was programmed is cached before it is known to have worked.
ProgramCached(image) ==
    /\ Request
    /\ \A b \in DOMAIN image : cache[b] = Blank
    /\ cache' = Overlay(cache, image)
    /\ \/ flash' = Overlay(flash, image) /\ UNCHANGED faults
       \/ CanFail /\ flash' \in Remnants(flash, image)
    /\ Activity
    /\ UNCHANGED <<staged, newest, stop, session>>
\* program and programBlocks.  The allocator has read the blocks as blank.
Program(image) ==
    /\ Request
    /\ \A b \in DOMAIN image : cache[b] = Blank
    /\ \/ /\ flash' = Overlay(flash, image)
          /\ cache' = Overlay(cache, image)
          /\ UNCHANGED faults
       \/ /\ CanFail /\ flash' \in Remnants(flash, image)
          /\ cache' = Invalidated(DOMAIN image)
    /\ Activity
    /\ UNCHANGED <<staged, newest, stop, session>>

\* MUTANT: blocks are erased while a superblock is staged.
EraseUnflushed(S) ==
    /\ Request
    /\ flash' = Overlay(flash, All(S, Blank))
    /\ cache' = Overlay(cache, All(S, Blank))
    /\ Activity
    /\ UNCHANGED <<staged, newest, stop, session, faults>>
\* eraseBlock and eraseBlocks: what is staged goes to the cartridge first.
Erase(S) ==
    /\ Request
    /\ \/ /\ \/ /\ flash' = Overlay(AfterFlush, All(S, Blank))
                /\ cache' = Overlay(cache, All(S, Blank))
                /\ UNCHANGED faults
             \/ /\ CanFail /\ flash' \in Remnants(AfterFlush, All(S, Blank))
                /\ cache' = Invalidated(S)
          /\ staged' = Absent /\ Activity
          /\ UNCHANGED <<newest, stop, session>>
       \/ FlushFails /\ cache' = Invalidated(S)

\* replaceBlocks: an extent whose stale blocks, those of S, are erased first.
Replace(image, S) ==
    /\ Request
    /\ \A b \in DOMAIN image \ S : cache[b] = Blank
    /\ \/ /\ LET before == IF S = {} THEN flash ELSE AfterFlush
             IN \/ /\ flash' = Overlay(before, image)
                   /\ cache' = Overlay(cache, image)
                   /\ UNCHANGED faults
                \/ /\ CanFail /\ flash' \in Remnants(before, image)
                   /\ cache' = Invalidated(DOMAIN image)
          /\ staged' = IF S = {} THEN staged ELSE Absent
          /\ Activity
          /\ UNCHANGED <<newest, stop, session>>
       \/ S # {} /\ FlushFails /\ cache' = Invalidated(DOMAIN image)

\* replaceMetadataBlock: the newest superblock replaces a staged one.
StageMetadata(b, v) ==
    /\ Request
    /\ staged' = [block |-> b, value |-> v] /\ newest' = staged'
    /\ cache' = [cache EXCEPT ![b] = v]
    /\ Activity
    /\ UNCHANGED <<flash, stop, session, faults>>

\* prepareForErase, which flushes, and prepareForProgram, which does not.
PrepareForErase ==
    /\ Request
    /\ \/ /\ flash' = AfterFlush /\ staged' = Absent
          /\ UNCHANGED faults \/ CanFail
          /\ Activity /\ UNCHANGED <<newest, stop, session>>
       \/ FlushFails
    /\ UNCHANGED cache
PrepareForProgram ==
    /\ Request
    /\ UNCHANGED faults \/ CanFail
    /\ Activity
    /\ UNCHANGED <<flash, cache, staged, newest, stop, session>>
-----------------------------------------------------------------------------
(* The idle thread.                                                        *)

\* The head of idleLoop, and its first wait.
Check ==
    /\ thread = "check"
    /\ IF stop THEN thread' = "gone" /\ UNCHANGED disturbed
       ELSE IF staged # Absent /\ ~failed
            THEN thread' = "timing" /\ disturbed' = FALSE
            ELSE thread' = "asleep" /\ UNCHANGED disturbed
    /\ UNCHANGED <<flash, cache, staged, newest, failed, attempts, stop, session, faults>>

Interrupted == stop \/ staged = Absent \/ failed \/ disturbed

\* The second wait ends with something that made it pointless.
Interrupt ==
    /\ thread = "timing" /\ Interrupted
    /\ thread' = IF stop THEN "gone" ELSE "check"
    /\ UNCHANGED <<flash, cache, staged, newest, failed, attempts, disturbed,
                   stop, session, faults>>

\* MUTANT: a failed idle flush is tried again after the next idle interval.
IdleFlushAgain ==
    /\ thread = "timing" /\ ~Interrupted
    /\ thread' = "check"
    /\ \/ /\ flash' = AfterFlush /\ staged' = Absent /\ failed' = FALSE
          /\ UNCHANGED <<attempts, faults>>
       \/ /\ FlushFailure
          /\ attempts' = attempts + 1 /\ UNCHANGED <<staged, failed>>
    /\ UNCHANGED <<cache, newest, disturbed, stop, session>>
\* MUTANT: the flush gives up what was staged before it is known to be stored.
IdleFlushForgets ==
    /\ thread = "timing" /\ ~Interrupted
    /\ thread' = "check" /\ staged' = Absent
    /\ \/ flash' = AfterFlush /\ failed' = FALSE /\ UNCHANGED <<attempts, faults>>
       \/ FlushFailure /\ failed' = TRUE /\ attempts' = attempts + 1
    /\ UNCHANGED <<cache, newest, disturbed, stop, session>>
\* The idle interval is over, and nothing happened in it.
IdleFlush ==
    /\ thread = "timing" /\ ~Interrupted
    /\ thread' = "check"
    /\ \/ /\ flash' = AfterFlush /\ staged' = Absent /\ failed' = FALSE
          /\ UNCHANGED <<attempts, faults>>
       \/ /\ FlushFailure
          /\ failed' = TRUE /\ attempts' = attempts + 1 /\ UNCHANGED staged
    /\ UNCHANGED <<cache, newest, disturbed, stop, session>>
-----------------------------------------------------------------------------
(* The session.                                                            *)

\* Requests come and go, until the mount ends.
Pause ==
    /\ \/ session = "busy" /\ session' = "quiet"
       \/ session = "quiet" /\ session' = "busy"
       \/ session \in {"busy", "quiet"} /\ session' = "closing"
    /\ UNCHANGED <<flash, cache, staged, newest, idle, stop, faults>>

AfterClose == IF session = "closing" THEN "closing again" ELSE "unclosed"
\* LiveCartridgeSession::close: flush, then close the cartridge.  A mount calls
\* it, and the session's destructor calls it again if it failed.
Close ==
    /\ session \in {"closing", "closing again"}
    /\ \/ /\ flash' = AfterFlush /\ staged' = Absent /\ failed' = FALSE
          /\ \/ session' = "closed" /\ UNCHANGED faults
             \/ CanFail /\ session' = AfterClose
       \/ /\ FlushFailure /\ UNCHANGED <<staged, failed>>
          /\ session' = AfterClose
    /\ thread' = IF thread = "asleep" /\ staged' # staged THEN "check" ELSE thread
    /\ UNCHANGED <<cache, newest, attempts, disturbed, stop>>

\* The destructor of the coalescing device, which flushes nothing.
Destroy ==
    /\ session \in {"closed", "unclosed"} /\ ~stop
    /\ stop' = TRUE
    /\ thread' = IF thread = "asleep" THEN "check" ELSE thread
    /\ UNCHANGED <<flash, cache, staged, newest, failed, attempts, disturbed, session, faults>>
\* It joins the thread.
Join ==
    /\ stop /\ thread = "gone" /\ session # "left"
    /\ session' = "left"
    /\ UNCHANGED <<flash, cache, staged, newest, idle, stop, faults>>
Left == session = "left" /\ UNCHANGED vars
-----------------------------------------------------------------------------
Images(S) == [S -> Values]
Requests ==
    \/ \E b \in Blocks : Read(b)
    \/ \E S \in (SUBSET Data) \ {{}} : Erase(S) \/ \E image \in Images(S) : Program(image)
    \/ \E S \in (SUBSET Data) \ {{}} :
           \E image \in Images(S), T \in SUBSET S : Replace(image, T)
    \/ \E b \in Meta, v \in Values : StageMetadata(b, v)
    \/ PrepareForErase \/ PrepareForProgram
Thread == Check \/ Interrupt \/ IdleFlush
Next == Requests \/ Thread \/ Pause \/ Close \/ Destroy \/ Join \/ Left

Spec     == Init /\ [][Next]_vars
FairSpec == Spec /\ WF_vars(Thread)
-----------------------------------------------------------------------------
(* What must hold.                                                         *)

TypeOK ==
    /\ flash \in [Blocks -> Contents]
    /\ cache \in [Blocks -> Contents \cup {Absent}]
    /\ staged \in Staging \cup {Absent} /\ newest \in Staging \cup {Absent}
    /\ failed \in BOOLEAN /\ attempts \in Nat /\ disturbed \in BOOLEAN
    /\ thread \in {"check", "asleep", "timing", "gone"} /\ stop \in BOOLEAN
    /\ session \in {"busy", "quiet", "closing", "closing again", "closed",
                   "unclosed", "left"}
    /\ faults \in Nat

\* A cached data block is what the cartridge holds, whatever has failed: the
\* allocator trusts a cached blank block, and reads never go back to check.
CacheTruthful == \A b \in Data : cache[b] # Absent => cache[b] = flash[b]

\* The newest superblock is never lost: it is staged, or on the cartridge.
NewestKept ==
    newest # Absent =>
        \/ staged = newest
        \/ staged = Absent /\ flash[newest.block] = newest.value

\* Nothing that a data block holds is given up while the superblock that no
\* longer needs it is only staged.
EraseAfterFlush ==
    [][\A b \in Data : flash[b] # Blank /\ flash'[b] # flash[b] => staged' = Absent]_vars

\* A cartridge whose idle flush failed is left alone until something uses it.
NoHammering == attempts <= 1

\* Once no request comes, a staged superblock reaches the cartridge, unless
\* its idle flush has failed; then it waits for a request or the close.
QuietIsFlushed ==
    (<>[](session = "quiet")) => <>[](staged = Absent \/ failed)
=============================================================================
