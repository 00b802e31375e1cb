--------------------------- MODULE IdleMaintenance ---------------------------
(***************************************************************************)
(* The two background threads of a writable cartridge mount.               *)
(*                                                                         *)
(* The idle thread of MountSession scans one block at a time and erases    *)
(* what it found in one batch.  It lets go of the session mutex after each *)
(* block, and decides from two generation counters whether what it found   *)
(* is still garbage.  The deferred thread commits the queue of finalized   *)
(* files once no request has come for a while.  A request notes its        *)
(* activity for both before it waits for the session mutex.                *)
(*                                                                         *)
(* Work under the session mutex is one step here, taken when the mutex is  *)
(* released; time is not modelled, so a quiet interval can end as soon as  *)
(* no activity follows the capture that began it.                          *)
(***************************************************************************)
EXTENDS Integers

CONSTANTS
    Requests,   \* the filesystem requests of a run, each made once (bound),
                \* numbered in the order in which they arrive
    Kinds,      \* the kinds of request made
    FirstData,  \* firstDataBlock()
    EndData,    \* dataEndBlock(), exclusive
    MayFail     \* a maintenance step can fail

\* read: open, read, flush.  stage: create, write.  commit: strict release or
\* fsync, and every other mutation that ends in finishCommit.  defer: relaxed
\* release or fsync, or the rename of a file.  remove: unlink.  refused: the
\* rename of a directory that commits staged files and is then refused.
AllKinds == {"read", "stage", "commit", "defer", "remove", "refused"}

\* Kinds that ask for maintenance at the end if they may make a block live,
\* and that never interrupt a pass without asking for maintenance.
Announced == {"stage", "commit", "defer", "remove"}

ASSUME ConstantsAssumption ==
    /\ Requests \subseteq Nat /\ Kinds \subseteq AllKinds
    /\ FirstData \in Nat /\ EndData \in Nat /\ FirstData <= EndData
    /\ MayFail \in BOOLEAN

Blocks == FirstData .. EndData - 1

VARIABLES
    live,        \* blocks of committed files
    blank,       \* blocks that read as all 0xFF
    request,     \* "new", "done", or the kind of the request that waits
    active,      \* activity_generation_ differs from the captured one
    changed,     \* maintenance_request_generation_ differs from the captured one
    unserviced,  \* maintenance_request_generation_ differs from the serviced one
    pc,          \* where the idle thread stands
    pass,        \* pass_in_progress
    resync,      \* resynchronize_next
    cursor,      \* GarbageCollectionState::next_block
    pending,     \* GarbageCollectionState::pending_blocks
    queued,      \* deferred_commit_paths_ is not empty
    renewed,     \* deferred_commit_generation_ differs from the captured one
    committer,   \* where the deferred thread stands
    mount        \* "mounted", "destroyed", or "stopped": both stop flags are set

store    == <<live, blank>>
activity == <<active, changed, unserviced>>
scan     == <<pass, resync, cursor, pending>>
queue    == <<queued, renewed>>
vars     == <<live, blank, request, active, changed, unserviced, pc, pass,
              resync, cursor, pending, queued, renewed, committer, mount>>

stop == mount = "stopped"

Garbage == Blocks \ (live \cup blank)

\* A mounted cartridge: any files, any garbage; no request is serviced yet.
Init ==
    /\ live \in SUBSET Blocks
    /\ blank \in SUBSET (Blocks \ live)
    /\ request = [r \in Requests |-> "new"]
    /\ active = FALSE /\ changed = FALSE /\ unserviced = TRUE
    /\ pc = "waiting"
    /\ pass = FALSE /\ resync = FALSE
    /\ cursor = FirstData /\ pending = {}
    /\ queued = FALSE /\ renewed = FALSE
    /\ committer = "waiting"
    /\ mount = "mounted"

TypeOK ==
    /\ live \in SUBSET Blocks /\ blank \in SUBSET Blocks
    /\ request \in [Requests -> AllKinds \cup {"new", "done"}]
    /\ active \in BOOLEAN /\ changed \in BOOLEAN /\ unserviced \in BOOLEAN
    /\ pc \in {"waiting", "quiet", "check", "lock", "exited"}
    /\ pass \in BOOLEAN /\ resync \in BOOLEAN
    /\ cursor \in FirstData .. EndData
    /\ pending \in SUBSET Blocks
    /\ queued \in BOOLEAN /\ renewed \in BOOLEAN
    /\ committer \in {"waiting", "armed", "due", "exited"}
    /\ mount \in {"mounted", "destroyed", "stopped"}
-----------------------------------------------------------------------------
(* Requests.                                                               *)

\* noteActivity(reschedule) and noteActivity(interrupt).
Reschedule == active' = TRUE /\ changed' = TRUE /\ unserviced' = TRUE
Interrupt  == active' = TRUE /\ UNCHANGED <<changed, unserviced>>

\* noteActivity renews the deadline of whatever is queued.
Renew == renewed' = (renewed \/ queued) /\ UNCHANGED queued

\* A callback notes its activity and then waits for the session mutex.
Arrive(r, kind) ==
    /\ mount = "mounted" /\ request[r] = "new"
    /\ \A q \in Requests : q < r => request[q] # "new"
    /\ request' = [request EXCEPT ![r] = kind]
    /\ IF kind = "read" THEN Interrupt ELSE Reschedule
    /\ Renew
    /\ UNCHANGED <<store, pc, scan, committer, mount>>

\* A file of one block is written, in place of an older one or not.  If no
\* block is blank the garbage is collected first; if there is none, it fails.
Put ==
    \/ \E b \in blank, old \in SUBSET live :
        /\ \A x, y \in old : x = y
        /\ live' = (live \ old) \cup {b}
        /\ blank' = blank \ {b}
    \/ /\ blank = {}
       /\ \E b \in Garbage, old \in SUBSET live :
           /\ \A x, y \in old : x = y
           /\ live' = (live \ old) \cup {b}
           /\ blank' = Garbage \ {b}
    \/ blank = {} /\ Garbage = {} /\ UNCHANGED store

\* What is committed has staged contents, or none.
Settle == Put \/ UNCHANGED store

Unlink == \E b \in live : live' = live \ {b} /\ UNCHANGED blank

\* MUTANT: the activity at the end of a commit does not ask for maintenance.
FinishCommitInterrupts == Interrupt
\* finishCommit notes activity again, whether the commit succeeded or not.
FinishCommit == Reschedule

\* deferFileCommit, and takeDeferredCommitPaths.
Enqueue   == queued' = TRUE /\ renewed' = TRUE
TakeQueue == queued' = FALSE /\ renewed' = TRUE

\* A commit takes the whole queue with it, or (commitFile) just its own path.
Commit ==
    /\ Settle /\ FinishCommit
    /\ renewed' = TRUE /\ queued' \in {FALSE, queued}

\* A committed file is removed at once and its path is queued; one that was
\* only staged leaves nothing to commit.
Remove ==
    /\ \/ Unlink /\ Enqueue
       \/ UNCHANGED <<store, queue>>
    /\ UNCHANGED activity

Perform(r) ==
    /\ \/ request[r] = "commit" /\ Commit
       \/ request[r] = "defer" /\ Enqueue /\ UNCHANGED <<store, activity>>
       \/ request[r] = "remove" /\ Remove
       \/ request[r] = "refused" /\ Put /\ UNCHANGED <<activity, queue>>
       \/ request[r] \in {"read", "stage"} /\ UNCHANGED <<store, activity, queue>>
    /\ request' = [request EXCEPT ![r] = "done"]
    /\ UNCHANGED <<pc, scan, committer, mount>>

\* ezfa3fsDestroy commits all that is left, after the last request.
Destroy ==
    /\ mount = "mounted" /\ \A r \in Requests : request[r] = "done"
    /\ Settle /\ FinishCommit /\ TakeQueue
    /\ mount' = "destroyed"
    /\ UNCHANGED <<request, pc, scan, committer>>

\* The destructor sets both flags and waits for both threads.
Stop ==
    /\ mount = "destroyed"
    /\ mount' = "stopped"
    /\ UNCHANGED <<store, request, activity, pc, scan, queue, committer>>
-----------------------------------------------------------------------------
(* The deferred thread.                                                    *)

CommitterExits ==
    /\ stop /\ committer # "exited"
    /\ committer' = "exited"
    /\ UNCHANGED <<store, request, activity, pc, scan, queue, mount>>

\* MUTANT: only the first generation ever is captured.
ArmOnce ==
    /\ ~stop /\ committer = "waiting" /\ queued
    /\ committer' = "armed" /\ UNCHANGED renewed
    /\ UNCHANGED <<store, request, activity, pc, scan, queued, mount>>
\* Something is queued: the generation is captured with its deadline.
Arm ==
    /\ ~stop /\ committer = "waiting" /\ queued
    /\ committer' = "armed" /\ renewed' = FALSE
    /\ UNCHANGED <<store, request, activity, pc, scan, queued, mount>>

\* The deadline passes, or the generation changes before it does.
DeadlinePasses ==
    /\ ~stop /\ committer = "armed"
    /\ committer' = IF renewed THEN "waiting" ELSE "due"
    /\ UNCHANGED <<store, request, activity, pc, scan, queue, mount>>

\* Under the session mutex the generation is compared again.
CommitQueue ==
    /\ ~stop /\ committer = "due"
    /\ \/ renewed /\ UNCHANGED <<store, activity, queue>>
       \/ ~renewed /\ TakeQueue /\ Settle /\ FinishCommit
    /\ committer' = "waiting"
    /\ UNCHANGED <<request, pc, scan, mount>>

DeferredThread == CommitterExits \/ Arm \/ DeadlinePasses \/ CommitQueue
-----------------------------------------------------------------------------
(* The idle thread.                                                        *)

\* The thread sees the stop wherever it waits, and before every step.
Exit ==
    /\ stop /\ pc # "exited"
    /\ pc' = "exited"
    /\ UNCHANGED <<store, request, activity, scan, queue, committer, mount>>

\* The wait ends, and both generations are captured.
Capture ==
    /\ ~stop
    /\ \/ pc = "waiting" /\ (pass \/ unserviced)
       \/ pc = "quiet" /\ active
    /\ active' = FALSE /\ changed' = FALSE
    /\ pc' = "quiet"
    /\ UNCHANGED <<store, request, unserviced, scan, queue, committer, mount>>

QuietElapsed ==
    /\ ~stop /\ pc = "quiet" /\ ~active
    /\ pc' = "check"
    /\ UNCHANGED <<store, request, activity, scan, queue, committer, mount>>

\* MUTANT: a pause does not remember that the manifest may have changed.
PauseForgets ==
    /\ ~stop /\ pc \in {"check", "lock"} /\ active
    /\ pc' = "waiting"
    /\ UNCHANGED <<store, request, activity, scan, queue, committer, mount>>
\* Activity since the capture, seen before or under the session mutex.
Pause ==
    /\ ~stop /\ pc \in {"check", "lock"} /\ active
    /\ resync' = (resync \/ (pass /\ changed))
    /\ pc' = "waiting"
    /\ UNCHANGED <<store, request, activity, pass, cursor, pending, queue, committer, mount>>

Continue ==
    /\ ~stop /\ pc = "check" /\ ~active
    /\ pc' = "lock"
    /\ UNCHANGED <<store, request, activity, scan, queue, committer, mount>>

\* collectGarbageStep starts over in a fresh pass and after a change.
StartsOver == ~pass \/ resync
Cursor     == IF StartsOver THEN FirstData ELSE cursor
Candidates == IF StartsOver THEN {} ELSE pending

\* MUTANT: the step does not look at the activity again under the mutex.
MayStepUnchecked == ~stop /\ pc = "lock"
\* The step runs under the session mutex, on no activity since the capture.
MayStep == ~stop /\ pc = "lock" /\ ~active

\* MUTANT: the scan inspects the block behind the last one.
InspectPastEnd ==
    /\ MayStep /\ Cursor <= EndData
    /\ pending' = Candidates \cup ({Cursor} \cap Garbage)
    /\ cursor' = Cursor + 1
    /\ pass' = TRUE /\ resync' = FALSE
    /\ pc' = "check"
    /\ UNCHANGED <<store, request, activity, queue, committer, mount>>
Inspect ==
    /\ MayStep /\ Cursor < EndData
    /\ pending' = Candidates \cup ({Cursor} \cap Garbage)
    /\ cursor' = Cursor + 1
    /\ pass' = TRUE /\ resync' = FALSE
    /\ pc' = "check"
    /\ UNCHANGED <<store, request, activity, queue, committer, mount>>

\* The pass is over: only requests after the capture remain to be serviced.
EndPass ==
    /\ pass' = FALSE /\ resync' = FALSE
    /\ unserviced' = changed
    /\ pc' = "waiting"
    /\ UNCHANGED <<request, active, changed, queue, committer, mount>>

Erase ==
    /\ MayStep /\ Cursor = EndData
    /\ blank' = blank \cup Candidates
    /\ cursor' = Cursor /\ pending' = {}
    /\ EndPass
    /\ UNCHANGED live

\* MUTANT: a failed step leaves its request unserviced, and is tried for ever.
StepFailsAgain ==
    /\ MayStep /\ MayFail
    /\ \/ Cursor < EndData /\ cursor' = Cursor + 1 /\ UNCHANGED blank
       \/ Cursor = EndData /\ Candidates # {} /\ cursor' = Cursor
          /\ \E erased \in SUBSET Candidates : blank' = blank \cup erased
    /\ pending' = Candidates
    /\ pass' = FALSE /\ resync' = FALSE /\ pc' = "waiting"
    /\ UNCHANGED <<live, request, activity, queue, committer, mount>>
\* A read, the commit or the barrier before the erase fails, or the erase does
\* after part of it.
StepFails ==
    /\ MayStep /\ MayFail
    /\ \/ Cursor < EndData /\ cursor' = Cursor + 1 /\ UNCHANGED blank
       \/ Cursor = EndData /\ Candidates # {} /\ cursor' = Cursor
          /\ \E erased \in SUBSET Candidates : blank' = blank \cup erased
    /\ pending' = Candidates
    /\ EndPass
    /\ UNCHANGED live

IdleThread ==
    Exit \/ Capture \/ QuietElapsed \/ Pause \/ Continue \/ Inspect \/ Erase
         \/ StepFails

Finished == pc = "exited" /\ committer = "exited" /\ UNCHANGED vars

Next ==
    \/ \E r \in Requests : Perform(r) \/ \E kind \in Kinds : Arrive(r, kind)
    \/ Destroy \/ Stop
    \/ IdleThread
    \/ DeferredThread
    \/ Finished

Spec == Init /\ [][Next]_vars

\* The threads run on: their waits have deadlines and every cartridge call a
\* timeout.  Requests arrive or not; one that waits is served in the end.
FairSpec == Spec /\ WF_vars(IdleThread) /\ WF_vars(DeferredThread)
                 /\ \A r \in Requests : WF_vars(Perform(r))
-----------------------------------------------------------------------------
(* Properties.                                                             *)

\* Collection never erases a block of a committed file: the batch it erases
\* (collectGarbageStep) was judged against a manifest that may have changed.
LiveIntact == live \cap blank = {}

\* While the scan counts as valid, none of its candidates is live.
ScanValid == pass /\ ~resync /\ ~changed => pending \cap live = {}

\* However often passes are paused, restarted or fail and deadlines are
\* renewed, the threads come to rest once requests cease: nothing waits to be
\* committed, and every request for maintenance, those of the deferred commits
\* included, is serviced.
AtRest      == pc = "waiting" /\ ~pass /\ ~unserviced /\ ~queued
ComesToRest == <>[](AtRest \/ stop)

\* Once requests cease, no garbage is left until the mount ends: a commit that
\* overtakes a pass asks for another one, and so does the deferred commit that
\* follows an unlink, whose own request may have been serviced too early.
GarbageGoes == <>[](Garbage = {} \/ stop)
=============================================================================
