---------------------------- MODULE MountSession ----------------------------
(***************************************************************************)
(* The files of a writable cartridge mount, between the FUSE callbacks and *)
(* the filesystem: LiveMountBackend, the commit policy of MountSession and *)
(* the callbacks that use them.                                            *)
(*                                                                         *)
(* A file is written in host memory (staged) and committed when its last   *)
(* dirty handle is released, in strict mode at once and in relaxed mode    *)
(* through a queue that a thread of its own drains.  A callback holds the  *)
(* session mutex for its whole duration, so it is one step, or one step    *)
(* for each transaction it makes.  The filesystem below is its committed   *)
(* entries; each of its transactions happens or fails as a whole.          *)
(***************************************************************************)
EXTENDS Integers, SequencesExt

CONSTANTS
    Names,        \* names of files and directories
    Paths,        \* paths, as sequences of names; no path is empty
    Hidden,       \* paths that isFuseHidden
    Contents,     \* contents of a file that is not empty
    Handles,      \* open file handles
    Policies,     \* the policies tried: is fsync_policy_ FsyncPolicy::deferred?
    Habits,       \* what programs do that is not done in every run
    MaxFaults,    \* bound: filesystem transactions that fail
    Empty,        \* the contents of an empty file
    Directory,    \* a directory
    Absent,       \* no such path
    Closed        \* a handle that is not open

\* empties: a file that is committed is truncated to nothing.
\* placeholders: a directory is renamed while it holds empty files.
AllHabits == {"empties", "placeholders"}

ASSUME ConstantsAssumption ==
    /\ Paths \subseteq Seq(Names) \ {<<>>} /\ Hidden \subseteq Paths
    /\ Policies \subseteq BOOLEAN /\ MaxFaults \in Nat /\ Habits \subseteq AllHabits
    /\ Absent \notin Contents \cup {Empty, Directory}
    /\ Directory \notin Contents \cup {Empty} /\ Empty \notin Contents
    /\ Closed \notin [path : Paths, dirty : BOOLEAN]

VARIABLES
    relaxed,  \* fsync_policy_ is FsyncPolicy::deferred
    entries,  \* Filesystem::entries_, durable unless metadata is coalesced
    pending,  \* LiveMountBackend::pending_files_
    visible,  \* LiveMountBackend::visible_nodes_
    queue,    \* deferred_commit_paths_
    failed,   \* commit_failed_
    handles,  \* the FuseFileHandle of each open file
    pc,       \* where the callback stands that holds the session mutex
    job,      \* the paths of the rename in progress
    acked,    \* the path whose sync was just acknowledged (history)
    faults    \* transactions that failed so far (bound)

files == <<entries, pending, visible>>
vars  == <<relaxed, entries, pending, visible, queue, failed, handles, pc, job,
           acked, faults>>

Staged == Contents \cup {Empty}
NoJob  == [from |-> <<>>, to |-> <<>>]
None   == <<>>

TypeOK ==
    /\ relaxed \in Policies
    /\ entries \in [Paths -> Contents \cup {Directory, Absent}]
    /\ pending \in [Paths -> Staged \cup {Absent}]
    /\ visible \in [Paths -> Staged \cup {Directory, Absent}]
    /\ queue \in SUBSET Paths
    /\ failed \in BOOLEAN
    /\ handles \in [Handles -> [path : Paths, dirty : BOOLEAN] \cup {Closed}]
    /\ pc \in {"idle", "move", "finish", "unmounted"}
    /\ job \in [from : Paths \cup {<<>>}, to : Paths \cup {<<>>}]
    /\ acked \in Paths \cup {None}
    /\ faults \in 0 .. MaxFaults

\* An empty filesystem is mounted.
Init ==
    /\ relaxed \in Policies
    /\ entries = [p \in Paths |-> Absent]
    /\ pending = [p \in Paths |-> Absent]
    /\ visible = [p \in Paths |-> Absent]
    /\ queue = {} /\ failed = FALSE
    /\ handles = [h \in Handles |-> Closed]
    /\ pc = "idle" /\ job = NoJob /\ acked = None /\ faults = 0
-----------------------------------------------------------------------------
(* The filesystem below.                                                   *)

Parent(p) == Front(p)
Under(d)  == {p \in Paths : IsStrictPrefix(d, p)}

ParentExists(p) ==
    \/ Parent(p) = <<>>
    \/ Parent(p) \in Paths /\ entries[Parent(p)] = Directory
CanCreate(p)    == entries[p] = Absent /\ ParentExists(p)
CanFail         == faults < MaxFaults

\* A transaction fails on the device: the entries in RAM are restored.
Fault    == CanFail /\ faults' = faults + 1
NoFault  == UNCHANGED faults

\* Where a path at or below one path goes when that is renamed to another.
Rebase(p, from, to) == to \o SubSeq(p, Len(from) + 1, Len(p))

\* The tree below one path, moved below another.
Moved(m, from, to) ==
    [p \in Paths |->
        IF IsPrefix(from, p) THEN Absent
        ELSE IF /\ IsPrefix(to, p)
                /\ Rebase(p, to, from) \in Paths
                /\ m[Rebase(p, to, from)] # Absent
             THEN m[Rebase(p, to, from)]
        ELSE m[p]]

\* MUTANT: placeholders are committed too.
BatchUnready(selected) == {p \in selected : pending[p] # Absent}
\* What commitSelected writes of the paths selected, and whether putFiles
\* accepts it: one bad path refuses the whole batch.
Batch(selected) == {p \in selected : pending[p] \in Contents}
Accepted(selected) ==
    \A p \in Batch(selected) : ParentExists(p) /\ entries[p] # Directory

Commits(selected) ==
    /\ Accepted(selected)
    /\ entries' = [p \in Paths |-> IF p \in Batch(selected) THEN pending[p]
                                   ELSE entries[p]]
    /\ pending' = [p \in Paths |-> IF p \in Batch(selected) THEN Absent
                                   ELSE pending[p]]
    /\ NoFault

\* MUTANT: the bytes moved into the batch are lost with it.
CommitFailsEmptied(selected) ==
    /\ Batch(selected) # {}
    /\ \/ Accepted(selected) /\ Fault
       \/ ~Accepted(selected) /\ NoFault
    /\ pending' = [p \in Paths |-> IF p \in Batch(selected) THEN Empty
                                   ELSE pending[p]]
    /\ UNCHANGED entries
\* The bytes moved into the batch are given back to the staged files.
CommitFails(selected) ==
    /\ Batch(selected) # {}
    /\ \/ Accepted(selected) /\ Fault
       \/ ~Accepted(selected) /\ NoFault
    /\ UNCHANGED <<entries, pending>>

\* finishCommit: a failed commit of the session is remembered for ever.
SessionCommits(selected) ==
    \/ Commits(selected) /\ UNCHANGED failed
    \/ CommitFails(selected) /\ failed' = TRUE
-----------------------------------------------------------------------------
(* Callbacks on open files.                                                *)

\* beginMutation: a callback has the session mutex and may change something.
Begin == pc = "idle" /\ ~failed
Quiet == UNCHANGED <<pc, job>>

\* create: the kernel has looked the path up and found nothing.
Create(h, p) ==
    /\ Begin /\ handles[h] = Closed
    /\ visible[p] = Absent /\ pending[p] = Absent /\ CanCreate(p)
    /\ pending' = [pending EXCEPT ![p] = Empty]
    /\ visible' = [visible EXCEPT ![p] = Empty]
    /\ handles' = [handles EXCEPT ![h] = [path |-> p, dirty |-> FALSE]]
    /\ acked' = None
    /\ UNCHANGED <<entries, queue, failed, faults>> /\ Quiet

OpenFile(h, p) ==
    /\ Begin /\ handles[h] = Closed
    /\ visible[p] \in Staged
    /\ handles' = [handles EXCEPT ![h] = [path |-> p, dirty |-> FALSE]]
    /\ acked' = None
    /\ UNCHANGED <<files, queue, failed, faults>> /\ Quiet

\* stageFile finds the bytes of a path in host memory or in the filesystem.
CanStage(p) == pending[p] # Absent \/ entries[p] \in Contents

Stage(p, bytes) ==
    /\ CanStage(p)
    /\ (bytes = Empty /\ entries[p] # Absent) => "empties" \in Habits
    /\ pending' = [pending EXCEPT ![p] = bytes]
    /\ visible' = [visible EXCEPT ![p] = bytes]

\* MUTANT: only the write that stages the file makes its handle dirty.
WriteStaged(h, bytes) ==
    /\ Begin /\ handles[h] # Closed
    /\ Stage(handles[h].path, bytes)
    /\ handles' = [handles EXCEPT ![h].dirty =
                      @ \/ pending[handles[h].path] = Absent]
    /\ acked' = None
    /\ UNCHANGED <<entries, queue, failed, faults>> /\ Quiet
\* write, and a truncation through a handle.
Write(h, bytes) ==
    /\ Begin /\ handles[h] # Closed
    /\ Stage(handles[h].path, bytes)
    /\ handles' = [handles EXCEPT ![h].dirty = TRUE]
    /\ acked' = None
    /\ UNCHANGED <<entries, queue, failed, faults>> /\ Quiet

\* truncate without a handle commits at once, in a second step.
Truncate(p, bytes) ==
    /\ Begin /\ visible[p] \in Staged /\ visible[p] # bytes
    /\ Stage(p, bytes)
    /\ pc' = "finish" /\ job' = [from |-> p, to |-> <<>>]
    /\ acked' = None
    /\ UNCHANGED <<entries, queue, failed, handles, faults>>

\* MUTANT: the queue is committed without the path that is synchronized.
SynchronizeQueue(p) ==
    IF relaxed
    THEN /\ queue' = queue \cup {p} /\ acked' = None
         /\ UNCHANGED <<entries, pending, failed, faults>>
    ELSE /\ queue' = {} /\ SessionCommits(queue)
         /\ acked' = IF failed' THEN None ELSE p
\* synchronizeFile: the queue takes the path, or all is committed now.
Synchronize(p) ==
    IF relaxed
    THEN /\ queue' = queue \cup {p} /\ acked' = None
         /\ UNCHANGED <<entries, pending, failed, faults>>
    ELSE /\ queue' = {} /\ SessionCommits(queue \cup {p})
         /\ acked' = IF failed' THEN None ELSE p

Fsync(h) ==
    /\ Begin /\ handles[h] # Closed
    /\ Synchronize(handles[h].path)
    /\ UNCHANGED <<visible, handles>> /\ Quiet

\* The last close.  A clean handle, and one of a mount that failed, just goes.
Release(h) ==
    /\ pc = "idle" /\ handles[h] # Closed
    /\ handles' = [handles EXCEPT ![h] = Closed]
    /\ IF handles[h].dirty /\ ~failed
       THEN Synchronize(handles[h].path)
       ELSE /\ acked' = None
            /\ UNCHANGED <<entries, pending, queue, failed, faults>>
    /\ UNCHANGED visible /\ Quiet
-----------------------------------------------------------------------------
(* Callbacks on the namespace.                                             *)

InUse(p) == \E h \in Handles : handles[h] # Closed /\ handles[h].path = p

\* unlink: libfuse hides a file in use instead.  What is committed is removed
\* in a transaction of its own; the path joins the queue.
Unlink(p) ==
    /\ Begin /\ visible[p] \in Staged /\ ~InUse(p)
    /\ \/ /\ NoFault
          /\ entries' = [entries EXCEPT ![p] = Absent]
          /\ pending' = [pending EXCEPT ![p] = Absent]
          /\ visible' = [visible EXCEPT ![p] = Absent]
          /\ queue' = queue \cup {p}
       \/ /\ entries[p] # Absent /\ Fault
          /\ UNCHANGED <<files, queue>>
    /\ acked' = None
    /\ UNCHANGED <<failed, handles>> /\ Quiet

\* mkdir and rmdir end in a commit of everything that is staged.
ThenFinish == pc' = "finish" /\ UNCHANGED job

Mkdir(p) ==
    /\ Begin /\ visible[p] = Absent /\ CanCreate(p)
    /\ \/ /\ NoFault
          /\ entries' = [entries EXCEPT ![p] = Directory]
          /\ visible' = [visible EXCEPT ![p] = Directory]
          /\ ThenFinish
       \/ Fault /\ UNCHANGED <<entries, visible>> /\ Quiet
    /\ acked' = None
    /\ UNCHANGED <<pending, queue, failed, handles>>

\* MUTANT: files that are only staged do not keep a directory alive.
RmdirCommitted(p) ==
    /\ Begin /\ visible[p] = Directory /\ entries[p] = Directory
    /\ \A q \in Under(p) : entries[q] = Absent
    /\ \/ /\ NoFault
          /\ entries' = [entries EXCEPT ![p] = Absent]
          /\ visible' = [visible EXCEPT ![p] = Absent]
          /\ ThenFinish
       \/ Fault /\ UNCHANGED <<entries, visible>> /\ Quiet
    /\ acked' = None
    /\ UNCHANGED <<pending, queue, failed, handles>>
Rmdir(p) ==
    /\ Begin /\ visible[p] = Directory /\ entries[p] = Directory
    /\ \A q \in Under(p) : entries[q] = Absent /\ pending[q] = Absent
    /\ \/ /\ NoFault
          /\ entries' = [entries EXCEPT ![p] = Absent]
          /\ visible' = [visible EXCEPT ![p] = Absent]
          /\ ThenFinish
       \/ Fault /\ UNCHANGED <<entries, visible>> /\ Quiet
    /\ acked' = None
    /\ UNCHANGED <<pending, queue, failed, handles>>

\* The kernel refuses to move a directory below itself.  Bound: no path
\* leaves Paths.
Renames(from, to) ==
    /\ visible[from] # Absent /\ ~IsPrefix(from, to)
    /\ \A p \in Under(from) :
           visible[p] # Absent => Rebase(p, from, to) \in Paths
    /\ (\E p \in Under(from) : pending[p] = Empty) => "placeholders" \in Habits

\* First what is staged is committed: the file by the session, or by the
\* backend if it is being hidden, and everything if it is a directory.
Rename(from, to) ==
    /\ Begin /\ Renames(from, to)
    /\ \/ /\ visible[from] = Directory /\ pending[to] = Absent
          /\ UNCHANGED <<queue, failed>>
          /\ \/ Commits(Paths) /\ pc' = "move"
             \/ CommitFails(Paths) /\ UNCHANGED pc
       \/ /\ visible[from] # Directory /\ to \notin Hidden
          /\ queue' = queue \ {from}
          /\ SessionCommits({from})
          /\ pc' = IF failed' THEN "idle" ELSE "move"
       \/ /\ visible[from] # Directory /\ to \in Hidden /\ pending[to] = Absent
          /\ UNCHANGED <<queue, failed>>
          /\ \/ Commits({from}) /\ pc' = "move"
             \/ CommitFails({from}) /\ UNCHANGED pc
    /\ job' = IF pc' = "move" THEN [from |-> from, to |-> to] ELSE NoJob
    /\ acked' = None
    /\ UNCHANGED <<visible, handles>>

\* libfuse passes the new path to later callbacks on open files.
HandlesFollow(from, to) ==
    handles' = [h \in Handles |->
        IF handles[h] # Closed /\ IsPrefix(from, handles[h].path)
        THEN [handles[h] EXCEPT !.path = Rebase(@, from, to)]
        ELSE handles[h]]

\* Neither the staged files nor the filesystem have the new path.
CanMove(to) == pending[to] = Absent /\ CanCreate(to)

\* The file is renamed: a placeholder in host memory only, anything else in a
\* transaction of the filesystem.
Renamed(from, to) ==
    /\ CanMove(to) /\ NoFault
    /\ IF pending[from] = Empty
       THEN pending' = Moved(pending, from, to) /\ UNCHANGED entries
       ELSE entries' = Moved(entries, from, to) /\ UNCHANGED pending

\* A hidden file is left to the queue; otherwise everything is committed.
Move ==
    /\ pc = "move"
    /\ Renamed(job.from, job.to)
    /\ visible' = Moved(visible, job.from, job.to)
    /\ HandlesFollow(job.from, job.to)
    /\ IF job.to \in Hidden /\ visible[job.from] # Directory
       THEN pc' = "idle" /\ queue' = queue \cup {job.to}
       ELSE pc' = "finish" /\ UNCHANGED queue
    /\ job' = NoJob /\ acked' = None
    /\ UNCHANGED failed

MoveFails ==
    /\ pc = "move"
    /\ \/ ~CanMove(job.to) /\ NoFault
       \/ CanMove(job.to) /\ pending[job.from] # Empty /\ Fault
    /\ pc' = "idle" /\ job' = NoJob /\ acked' = None
    /\ UNCHANGED <<files, queue, failed, handles>>

\* commitSession, or commitSessionFile of a path truncated without a handle.
Finish ==
    /\ pc = "finish"
    /\ IF job = NoJob
       THEN queue' = {} /\ SessionCommits(Paths)
       ELSE queue' = queue \ {job.from} /\ SessionCommits({job.from})
    /\ pc' = "idle" /\ job' = NoJob /\ acked' = None
    /\ UNCHANGED <<visible, handles>>
-----------------------------------------------------------------------------
(* The deferred thread and the end of the mount.                           *)

\* MUTANT: the thread commits although an earlier commit failed.
DeferredCommitAlways ==
    /\ pc = "idle" /\ queue # {}
    /\ queue' = {}
    /\ SessionCommits(queue)
    /\ acked' = None
    /\ UNCHANGED <<visible, handles>> /\ Quiet
\* The deadline has passed and no request renewed it; the paths taken are
\* dropped if an earlier commit failed.
DeferredCommit ==
    /\ pc = "idle" /\ queue # {}
    /\ queue' = {}
    /\ IF failed THEN UNCHANGED <<entries, pending, failed, faults>>
       ELSE SessionCommits(queue)
    /\ acked' = None
    /\ UNCHANGED <<visible, handles>> /\ Quiet

\* MUTANT: nothing is left to commit when every file is closed.
DestroySettled ==
    /\ pc = "idle" /\ \A h \in Handles : handles[h] = Closed
    /\ queue' = {} /\ UNCHANGED <<entries, pending, failed, faults>>
    /\ pc' = "unmounted" /\ acked' = None
    /\ UNCHANGED <<visible, handles, job>>
\* destroy, once every file is closed.
Destroy ==
    /\ pc = "idle" /\ \A h \in Handles : handles[h] = Closed
    /\ IF failed
       THEN UNCHANGED <<entries, pending, queue, failed, faults>>
       ELSE queue' = {} /\ SessionCommits(Paths)
    /\ pc' = "unmounted" /\ acked' = None
    /\ UNCHANGED <<visible, handles, job>>

Unmounted == pc = "unmounted" /\ UNCHANGED vars

Callback ==
    \/ \E h \in Handles :
        \/ \E p \in Paths : Create(h, p) \/ OpenFile(h, p)
        \/ \E bytes \in Staged : Write(h, bytes)
        \/ Fsync(h) \/ Release(h)
    \/ \E p \in Paths :
        \/ \E bytes \in Staged : Truncate(p, bytes)
        \/ Unlink(p) \/ Mkdir(p) \/ Rmdir(p)
        \/ \E to \in Paths : Rename(p, to)
    \/ Move \/ MoveFails \/ Finish \/ DeferredCommit \/ Destroy

Next ==
    \/ Callback /\ UNCHANGED relaxed
    \/ Unmounted

Spec == Init /\ [][Next]_vars
-----------------------------------------------------------------------------
(* Properties.                                                             *)

\* The namespace that readers are shown is what is committed, overlaid with
\* what is staged, at every moment they can look (they do not wait for a
\* commit or a rename in progress).
VisibleAgrees ==
    \A p \in Paths :
        visible[p] = IF pending[p] # Absent THEN pending[p] ELSE entries[p]

\* Nothing that is staged can make a batch be refused, which would fail the
\* mount for files that have nothing to do with it: each has its directory.
StagedCommittable == Accepted(Paths)

\* Staged data is never forgotten: as long as commits succeed, the queue or a
\* dirty handle will commit it.
NothingForgotten ==
    (~failed /\ pc = "idle") =>
        \A p \in Paths : pending[p] \in Contents =>
            \/ p \in queue
            \/ \E h \in Handles :
                   handles[h] # Closed /\ handles[h] = [path |-> p, dirty |-> TRUE]

\* What is durable of a visible file: placeholders are not.
Kept(v) == IF v = Empty THEN Absent ELSE v

\* In strict mode release and fsync return success only if what the file
\* holds is committed.
AcknowledgedIsCommitted ==
    acked # None => entries[acked] = Kept(visible[acked])

\* A clean unmount without a failed commit loses nothing and revives nothing.
UnmountKeepsEverything ==
    (pc = "unmounted" /\ ~failed) =>
        \A p \in Paths : entries[p] = Kept(visible[p])

\* Once a commit has failed nothing is committed any more.
FailureIsSticky == [][failed => failed' /\ UNCHANGED <<entries, pending>>]_vars
=============================================================================
