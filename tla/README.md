# EZFA3FS: TLA+ models, model checking and proofs

EZFA3FS keeps a transactional filesystem in the 512 blocks of 64 KiB of an
EZ-Flash Advance III cartridge, and mounts it through FUSE.  This directory
holds TLA+ models of that code, TLC configurations that check them on small
instances, and theorems that TLAPS proves for every instance.

File names below are relative to the repository; line numbers are in
`PROJECT.json`, where "map" gives for each definition the lines it models.

## 1. The system

```
 FUSE callbacks (ezfa3fs_fuse_mount)         threads of libfuse
   -> MountSession (mount_session)           + deferred commit thread, idle GC thread
     -> FinderMetadataMountBackend           (macOS; in memory)
       -> LiveMountBackend                   staged files, visible namespace
         -> live::Filesystem                 manifest, allocator, GC, compaction
           -> CachedBlockDevice              64 KiB block cache
             -> CoalescingMetadataBlockDevice  newest superblock only; idle thread
               -> CartridgeLiveDevice -> CartridgeStorage   USB, retries, verify, save banks
```

An image file uses `live::Filesystem` directly over `NorFlash`, which is memory
loaded from and saved to the file.

| component | state | operations | what is hard | what makes it correct |
|---|---|---|---|---|
| `live::Filesystem` | entries, generation, active superblock, allocation cursor, retired blocks; on the device two superblocks and the data blocks | open, put, remove, rename, collect, compact, commit | each device call can fail with an uncertain result or be cut by a power loss; commits, erases and programs must keep their order; space is reclaimed inside a put | every valid superblock describes files that are in place; no block shared; every operation atomic; allocation ends and fails only when it must |
| coalescing device | one staged superblock, idle timer and thread | stage, flush, barrier before erase | logical generations alternate, physical ones do not; flush may fail and be retried | what `open` would select stays readable |
| packed blocks | records of several small files in one block | repack on put, renumber on compaction | ids assigned before allocation, compaction inside allocation | every entry resolves to its own record |
| block cache | some blocks, per block | read, program, erase, replace | failure leaves the device uncertain | a cached block equals the device's |
| mount backend | staged files, visible tree, pending removals | create, write, rename, commit a selection | commit fails in the middle; rename over a staged file | visible tree equals committed tree plus staged changes |
| mount session | queue of deferred commits, activity, sticky failure, GC state | mutation, release, fsync, idle work | three kinds of thread and two mutexes; work released between scan and erase; deadlines renewed by every request | a failure blocks every later mutation; collection never erases what a mutation has made live |
| FUSE callbacks | open handles per path, locks | create, write, release, unlink, rename | removal and rename of open files | last release commits once |
| cartridge storage | session state, save banks, mapped bank | retry, verify, restart, restore | verification fails after success, boot sectors show old contents; power cycle in the middle | a block reported written holds what was written; save data survives |
| Finder overlay | sidecar files of macOS, in memory | create, write, rename, remove | a path may be in the overlay, below it, or both | nothing of it reaches the cartridge |

## 2. Modules

- `LiveFilesystem` models `live::Filesystem` for files with dedicated extents
  and the coalescing device below it.  `sb`, `data`, `staged` are the device;
  `entries`, `generation`, `active`, `nextFree`, `unavailable` are the members of
  the same meaning.  `pc` and `job` are the place and the locals of the one
  operation in progress: the code holds one mutex around the filesystem.  One action stands for
  the code from one device call to the next, so that a power loss (`Crash`) or
  the idle flush (`IdleFlush`) can come between any two calls, and every call
  has an action in which it fails with each result it can leave behind.
  `CONSTANT Coalescing` chooses the device (an image file and the tests have no
  coalescing), `TornMetadata` whether an interrupted superblock rewrite can
  leave an invalid block.
- `AtomicStore` is the abstract specification: a map from names to contents,
  an operation wanted, and what the next mount would find.  No blocks, no
  superblocks.  `LiveFilesystem` implements it under the refinement mapping at
  its end (`ImplementsAtomicStore`): a name reads as its content when all its
  blocks are in place, and as `Torn`, which `AtomicStore` never allows, if not.
- `LiveFilesystemProofs` proves the safety of `LiveFilesystem`, and in its last part
  that it implements `AtomicStore`.
- `PackedRecords` models the small files that share a block: the planner (first
  fit, generations, ids), what a put carries over from the blocks it takes files
  from, and the compaction that renumbers all records.  A manifest entry names a
  block, its generation and a record; it resolves if the block holds just that.
  `entries` is a sequence here, because the order of the records is that of the
  manifest.  The device, the commits and their failures are those of
  `LiveFilesystem` without coalescing.  It implements `AtomicStore` too.  The loops of
  the planner and of the installation are recursive functions, one pass of the loop
  each (`AddTo`, `WithBin`, `WithFile`, `Installed`).
- `PackedRecordsProofs` proves that its entries always resolve, for any files and
  batches and any number of blocks, and `PackedRecordsRefinement` that it implements
  `AtomicStore`.
- `DeviceStack` models `CachedBlockDevice` over `CoalescingMetadataBlockDevice`,
  with the idle thread, the close of the session and the destructor.  `cache`,
  `staged` and `failed` are `blocks_`, `pending_metadata_` and `idle_flush_failed_`;
  each call on the coalescing device holds its mutex to the end and is one step,
  each turn of the thread between two waits another.  A failed call leaves every
  block it touched as it was, as it should be, or `Torn`.  `newest` and `attempts`
  are history.  Superblocks may be cached in an older form than the cartridge's,
  and no property speaks of them: nothing reads superblocks through the cache.
- `DeviceStackProofs` proves its safety for any blocks, contents and failures.
- `CartridgeWriter` models the block calls of `CartridgeStorage`: which commands a
  call makes of the bridge, how each is verified, and what is retried from which
  state.  A call is one step, since the mount admits one at a time.  The nested
  retry loops are operators from a call under way (a record of cartridge, session
  and progress) to the set of ways it can go on, so that a definition reads like
  the function it stands for.  `seen` is what a block may show instead of its
  contents: what it held before for boot sectors, until the session is reopened,
  and `Torn` for one settling read elsewhere.
- `CartridgeWriterProofs` proves that what a call reports is so, for any cartridge.
- `IdleMaintenance` models the two background threads of `MountSession`: the idle
  thread, with `collectGarbageStep` below it, and the deferred thread, which
  commits the queue, against requests that note their activity, wait for the
  session mutex and change files.  The store is two
  sets of blocks, `live` and `blank`.  The counters are kept as what the thread
  compares: `active` and `changed` say that activity and maintenance generations
  differ from the captured ones, `unserviced` from the serviced one, `renewed` that the deferred generation does; of
  the queue it is kept whether it is empty.  What runs
  under the session mutex is one step; requests and steps interleave at every
  place where the thread does not hold it.  Time is left out: a quiet interval
  may end at any moment after its last activity, which allows all the code does
  and more.
- `IdleMaintenanceProofs` proves its safety for every cartridge.
- `MountSession` models the files of a mount: the staged files and the visible
  tree of `LiveMountBackend`, the queue, policy and sticky failure of
  `MountSession`, and every callback that changes a file.  The filesystem below
  is its committed entries; a transaction happens or fails as a whole, which is
  what `LiveFilesystem` shows of it.  A callback is one step for each
  transaction it makes: metadata readers do not take the session mutex and can
  look between them.  `Hidden` paths are those of `isFuseHidden`; the kernel's and
  libfuse's part (no lookup of a missing file, no move below itself, hidden
  names for files in use, paths of open files that follow a rename) is in the
  guards of the callbacks and in `HandlesFollow`.
- `MountSessionProofs` proves every safety property of the mount, for any set of
  paths.  Its first part is what the model needs of paths: that a prefix is an
  ancestor, and that a rename takes different paths to different ones, with their
  ancestors.
- `SaveBanks` models what `CartridgeStorage` does for the battery-backed save
  memory, which preparing the flash writer damages: capture before the first
  writer command, the snapshot in memory through restarts and retries, and
  restoration when the session closes or fails to open.  `banks` is the save
  memory and `view` the bank that each selector reaches, which writer traffic and
  a reconnect may cross; `saveBackup`, `saveDirty`, `isOpen` and `handle` are the
  members of `Impl`.  `pc` is the place in the nesting of `close`,
  `finalizeSavePreservation`, `waitForPhysicalReconnect` and
  `openLiveWriteSessionWithRetry`; one action stands for the code between two
  places where the cable, a failed transfer or a cut write matters.  `session`
  says who opened it: a mount, a mount with `--skip-snapshot-restore`, or `card-write`.
  The flash itself is left out.
- `SaveBanksProofs` proves its safety for any number of banks.
- `MCLiveFilesystem`, `MCPackedRecords`, `MCDeviceStack`, `MCCartridgeWriter`,
  `MCIdleMaintenance`, `MCMountSession` and `MCSaveBanks` give the constants values
  for TLC.

The layers meet in what each promises the next.  `CartridgeWriter` shows what
`DeviceStack` and `LiveFilesystem` assume of a cartridge call: it is done, or it failed
and left each block in one of three states.  `DeviceStack` and the coalescing
`LiveFilesystem` are two views of one device, the first with its threads and its
cache, the second with the manifests inside the superblocks.  `AtomicStore` is what
`LiveFilesystem` and `PackedRecords` promise `MountSession`, whose transactions happen
or fail as a whole, and `IdleMaintenance`, whose `Put` is one of them.

## 3. Runs

| run | instance | shows |
|---|---|---|
| direct | 2 names, payloads of 1 and 2 blocks, 3 data blocks, generations to 4, 2 faults, weak fairness | types, both superblocks readable, extents disjoint, a put fails only after collecting, every operation returns, atomicity; write-through device |
| coalesced | with empty files, generations to 3, coalescing device whose rewrites are atomic, 1 fault | the recovery point stays readable; atomic with write-behind |
| torn_flush | coalescing, torn rewrites, 1 fault | **violated**: no current recovery point after an interrupted flush |
| packed | 5 names, records of 1 and 2 in blocks of room 3, large files of 2 and 3 blocks, 9 data blocks, 3 batches, generations to 5, 1 fault | both superblocks resolve every record, packing never grows, atomicity |
| packed_ids | records of 1, large files of 2 and 3 blocks, 5 batches, no fault | **violated**: two records share an id, and a batch is refused |
| device_stack | 2 data blocks, 2 superblocks, 2 values, 2 failing calls, weak fairness | the cache is truthful, the newest superblock is never lost, nothing is erased under a staged one, no hammering, a quiet cartridge is flushed, closing ends |
| cartridge_writer | 3 blocks of which 2 are boot sectors, 2 values, extents of 2, 3 faults in a call | what a call reports is so; two faults never make one fail |
| idle_collect | 3 requests that commit, defer or remove, 3 data blocks, no failing step, weak fairness | what a pass erases is garbage, and all of it goes once requests cease |
| idle_thread | 3 requests of every kind, 2 data blocks, steps may fail, weak fairness | both threads come to rest with the queue empty, and can always leave |
| idle_read_pause | reads and commits | **violated**: a paused pass erases a live block |
| mount | strict and relaxed, 2 directories with room for the same file, a hidden name, 2 contents, 2 open files, 1 failing transaction | readers' view, no poisoned batch, nothing staged is forgotten, acknowledged means committed, a clean unmount keeps everything, failure is sticky |
| save_banks | 3 banks, two games, 4 ways of crossed selectors, 3 attempts, 1 unasked disconnection, fairness | the save memory stays recoverable, nothing is written through one bank, a stray write is the last, every call returns |

Bounds.  Three data blocks with payloads of one and two blocks give
fragmentation, an extent that does not fit, a move, and a batch of two files;
`MaxGeneration` 4 lets each superblock be rewritten twice, with a collection or
a move (two commits) after a put; two faults allow a failed commit followed by a
power loss.  `CHECK_DEADLOCK` stays on.

In `IdleMaintenance` every initial division of the data blocks into live, blank
and garbage ones is tried.  Three requests are what the known hazards need: one
that schedules or pauses a pass, one that changes what it saw, and one more in
between; a removal in idle_collect leaves garbage that only the deferred commit after
it asks to have collected.  Requests are numbered in the order in which they arrive,
which only names them.  In `MountSession` the tree is the smallest with a move between
directories, an occupied directory and a hidden name; the two directories, the
contents and the handles are symmetric; two contents tell an
old version from a new one; one failing transaction is enough because nothing
changes after it (`FailureIsSticky`), and the namespace operations, after which
things do go on, leave no trace of a failure.  `Habits` names two things that
programs do and that the run leaves out, because each breaks a property (section
5): truncating a committed file to nothing, and renaming a directory that holds an
empty new file.

In `PackedRecords` the batches are chosen so that records leave gaps behind in
several blocks and a large file then needs what a compaction frees.  In
`DeviceStack` two data blocks let an extent be half written, and two failures let a
flush fail and its retry too.  In `CartridgeWriter` one block at each end shows old
contents, as the two at each end of the cartridge do, and one does not; three
faults are what a call must not absorb, two what it must, because the code tries
three times.  A command fails in at most one place, a program may be dropped after
a read (which is why the code restarts the session), an extent holds no block twice,
blocks of failed calls are set aside and not read again, and a session that an
earlier call has lost counts as a fault, for it spends an attempt.  The part of a
superblock that its rewrite transfers stands for the whole block.  The extents that
`Replace` is given begin at the first block; those of the other calls begin anywhere.

In `SaveBanks` three banks instead of four are enough for selectors that are all
on one bank, two of them, or none; one game has the same image in two banks, so
that a crossed selector can go unnoticed.  Each command sequence may damage any
set of banks and cross the selectors anew.  Two read passes are one step: the
model has no noise on the bus.  Images are compared whole, as the code does.

Fairness.  `FairSpec` has weak fairness of `Proceed` only: the code inside an
operation runs on, since no device call blocks for ever (each has a timeout).
Nothing is assumed of requests, the idle timer, mounting or faults.
`IdleMaintenance` assumes weak fairness of each of the two threads, whose waits all
have deadlines or are notified under their mutex, and of each request that has
arrived, since a mutex is released by everyone who takes it.  `DeviceStack` assumes it
of its idle thread for the same reason, and nothing of requests or the close.  Requests need not
arrive and the mount need not end.  `SaveBanks` assumes weak fairness of the code's
own steps, whose transfers have timeouts, and of the user: who is told to
disconnect does so, and who has disconnected reconnects.  The code waits for them
without a timeout, so nothing less would let a call return.

## 4. Proofs

Each theorem holds for every value of the constants that its module's assumption
admits.  Each invariant below was checked by TLC on a run before it was proved.

`LiveFilesystem`:

- `TypeCorrect`, for any device: types, and every manifest, in RAM, staged or on
  the device, stays inside the data area.
- `ExtentsStayDisjoint`, for any device.  The inductive invariant `Layout` adds the
  manifests that may come back (staged, or `job.old`) and that the blocks about to
  be programmed are no file's.
- `MemoryAgrees`, for a `Sound` device: one that writes through, or one that
  coalesces and rewrites a superblock as a whole.  The inductive invariant is
  `TypeShape /\ Layout /\ Agreement`.  That an erase is safe needs that by then
  nothing is staged and that every superblock that a mount could need (`Kept`: both,
  or the newest of a coalescing device) names none of the victims; for a moved file
  this takes two commits over the first kind, one flush over the second.  That a
  program is safe needs that its blocks are blank, hence of no readable file.  And
  that the next commit is the newest superblock needs that `Latest`, staged or
  stored, is the generation in RAM.  The hypothesis cannot go: over the device that
  tears a rewrite, torn_flush violates what follows.
- `BothGenerationsStayReadable` and `RecoveryPointStaysReadable` follow.
- `PutReclaimsBeforeFailing`, for any device.  The property speaks of one step; the
  invariant `Reclaiming` carries what a collection found through the search, the
  compaction and each of its moves: every unreferenced block is blank, but for the
  source of the file that has just moved.
- `FilesystemIsAtomic`, for a `Sound` device.  Given
  the invariant, a manifest that is readable reads as what it says (`Reads`), so
  every step is compared by its manifests: the last commit of a change is the
  store's commit, a crash in it decides one way or the other, and programs, moves,
  erases and repeated commits are no step of the store.  `Purpose` adds which
  operation can be where, and that a move changes no file's contents.

`IdleMaintenance`:

- `AnnouncedCollectionIsSafe` and `AnnouncedScanStaysValid`, with requests of the
  kinds `Announced` only.  `LiveIntact` is not inductive, nor is it with `ScanValid`: the
  invariant adds that, with these kinds, activity since the capture and a change
  since the capture are the same thing (`GenerationsAgree`), so that a step that saw
  no activity saw no change, and that a pass that waits will start over
  (`PauseRemembered`).  That equality is exactly what a read breaks.  `IdleTypeCorrect`
  holds for every kind.

`MountSession`, for any paths, handles, policies and number of failures:

- `MountTypeCorrect`, `ReadersSeeWhatIsThere`, `BatchesAreAccepted`,
  `NothingStagedIsForgotten`, `AcknowledgedWasCommitted` and
  `CleanUnmountKeepsEverything`, from one inductive invariant.  The properties alone
  are not inductive.  `TreeClosed` says that every ancestor of a present path is a
  committed directory: the code looks at the parent only, and speaking of all
  ancestors makes an induction along the path unnecessary.  `PlaceholderIsNew` says
  that a staged file without contents hides no committed one, `HandlesOnFiles` that
  open files are visible, so that a renamed directory has room for their new paths,
  `JobFits` what a rename has checked when it comes to its second transaction, and
  `Tracked` is `NothingForgotten` in the middle of a callback too.  The hypothesis is
  `Habits = {}`: with either habit the code breaks these promises (section 5), as
  TLC shows, and the invariant's `PlaceholderIsNew` and `TreeClosed` are what they
  break.
- `FailureStaysSticky`, whatever the habits.  It needs that a callback between two of
  its transactions belongs to a healthy mount: it holds the session mutex, so no
  other commit can have failed meanwhile.

`SaveBanks` and `DeviceStack`:

- `SaveMemoryRecoverable`, for every `SaveBanks`: unless a crossed selector was
  read, banks believed clean hold what they held at the start, and banks believed
  dirty have that in the snapshot.  The invariant `Inv` adds that a snapshot is true
  whenever there is one, which is why a restart may keep it, and which phases come
  only after the capture.  `OneBankIsLeftAlone` and `StrayWriteEndsRepair`
  add that a repair whose handle is alive knows what the selectors show.  The last
  needs `ViewsAssumption`: a selector that is crossed shows a bank that shows
  itself, as the aliases the code's comments describe do.
- `CacheStaysTruthful`, `NewestStaysKept`, `IdleFlushIsNotRepeated` and
  `NothingErasedUnderStaged`, for every `DeviceStack`.  The invariant `StackInv` adds to
  the types and the first two that a failed idle flush is counted as long as
  nothing has happened since (`AttemptsCounted`).  The last theorem needs the
  truthful cache: a program does not flush what is staged, so that it destroys
  nothing follows only from the blocks being blank, which the cache decides.

`PackedRecords`:

- `BothManifestsStayReadable` and `PackedTypeCorrect`, for any files, sizes, batches and
  failures.  The inductive invariant is `Types /\ Usable /\ Placed`: manifests name a file
  once and only packed files share a block (`Manifests`); the plan of the job is
  `Sound`, that is, each entry of it finds its record or its parts in the blocks it
  is about to program; those blocks are blank; the mount works from the newest
  superblock; and what is being erased is left by every entry in memory and, when
  it is erased, by both superblocks, which takes the second commit of a
  compaction.  That a moved block may be erased needs that the plan names every
  entry of it (`PackPlanSound`), and this is a fact about three nested loops, over
  blocks, records and bins.  `buildPlan`, the two loops of `putFileViews` and the
  installation compute over sequences of any length, so this is induction over
  data after all: the module proves, from the least element of a set of natural
  numbers, that a loop has a run (`Recursion`) and that what a pass keeps holds
  after all of them (`Passes`), and then one lemma for each loop about one pass of it.
- `PackedFilesAreAtomic`, in `PackedRecordsRefinement`, under the assumptions of the
  model alone.  As for `LiveFilesystem`, the invariant makes every manifest read as
  what it says (`Reads`), and a step is compared by what its manifests say
  (`Meaning`).  What is new is what a plan says.  A put also programs and installs
  records that it only carries along, so that the plan must name each file with one
  content (`Agrees`) and, besides the files of the batch, only repeat the manifest:
  that holds because carried records are those whose names are not in the batch,
  and because a batch names a file once, which `putFileViews` checks before anything
  else.  A compaction installs all packed records, and may only repeat the manifest
  (`Repeats`).  `Purpose` says this of the plans of the job, from their making to
  their programming, and that the current generation is that of the active
  superblock, which decides what a mount finds after a commit that failed.

`CartridgeWriter`:

- `CartridgeStoresAsReported`, for any number of blocks, extents of any length and any
  number of failing commands.  A call verifies a block by reading what it should
  hold, and for one call alone that proves nothing: a boot sector may go on showing
  what it held before, which may be just that.  What a read may show instead is
  `Views`: nothing once the session is reopened, nothing but `Torn`, which is no
  content to look for, except in boot sectors.  So each look is truthful for its
  own reason: boot sectors are looked at through a reopened session, a batch of
  erases reopens it at the first block for all of them, and `programBlocks` is told
  where to write on blocks that are blank and show nothing else, because it follows
  a restart (`prepared`).  The inductive invariant `Inv` says that blocks that are not
  set aside show what they hold, and that after a preparation all do.  Each part of a call
  is shown to leave alone the blocks it is not about (`Keeps`) and, but for those that
  note it, the call's progress (`Spares`); then a lemma for each retry loop says
  what each attempt may assume, and one for each loop over blocks, by induction over
  its passes, that the blocks before the current one stay `Settled`: what is written later must
  not disturb what was verified earlier, which is what the completed part of an
  extent promises.

Model-checked only:

- Every liveness property, which the prover cannot state obligations for.
- `PackingNeverGrows`.  It adds up the lengths of the records of a block, and no sum
  of theirs is bounded by what the invariant knows of a block.
- `RetriesAbsorb`.  It counts faults: each of three attempts must be shown to have
  cost one, through loops that nest three deep, and an attempt can also fail for a
  fault of an earlier one that left a dropped program or an old view behind.

## 5. Disagreements found

See "findings" in `PROJECT.json` for those a run shows: the coalescing device
destroys the newest durable superblock (torn_flush); background collection can erase
a committed file after a read paused it (idle_read_pause); a put that compacts leaves
two records with one id, and a later batch is refused (packed_ids).

Seen while modelling, but without a run of their own:

- A committed file that is truncated to nothing keeps its old contents on the
  cartridge, and release and fsync succeed (`ezfa3fs_live_mount_backend.cpp:354`;
  `README.md:218-219`).  `Habits = {"empties"}` in `MCMount.cfg` shows it.
- When a directory is renamed, an empty staged file in it keeps its old path while
  the visible tree moves (`ezfa3fs_live_mount_backend.cpp:282`, against the comment
  above it).  `Habits = {"placeholders"}` shows it.
- A mount whose session was lost by a failed restart closes with success and
  restores no save bank (`ezfa3fs_cartridge_storage.cpp:1301`).
- A strict fsync returns when the superblock is staged: for up to the idle interval
  a power loss takes the file back (`ezfa3fs_live_cartridge_session.cpp:125`;
  `README.md:78-80` speaks of durability).
- A read counts as activity that re-arms a failed idle flush, where the comment
  there says that a new mutation does.
- What the opening of a session stages when it removes empty files is lost if the
  verification that follows fails.
- A block call on a session that an earlier call has lost spends one of its three
  attempts on finding that out.
- A steady reader renews the deadline of the deferred commit for as long as it
  reads: `ComesToRest` holds because requests cease.
- A rename of an ordinary file to the name of a sidecar file that is only in the
  Finder overlay succeeds in the filesystem below, and the overlay goes on showing
  the sidecar (`ezfa3fs_finder_metadata_mount_backend.cpp`, `rename`).
- `findBlankExtent` searches two ranges, each with a run counter of its own, so a
  blank run across the allocation cursor is never found and a put can fail for
  want of it, `EZFA3FS_FORMAT.md:147` notwithstanding.
- A rename of a committed file that was truncated to nothing moves only the
  placeholder (`ezfa3fs_live_mount_backend.cpp:290`): the committed file stays under
  its old name, unseen until the next mount.
- `README.md:15` says save banks are restored if they carry the pattern the writer
  leaves; the code restores on any difference (`save_bank_restore_policy.hpp`).
- Where two selectors reach one bank and the images agree, capture and comparison
  cannot notice it.  The properties of `SaveBanks` say so with `aliased`.
- A failed opening of `card-write` is not retried, unlike that of a mount (`Limit`).
- Over a coalescing device the commit before an erase does not make both durable
  generations agree, as the comment at `ezfa3fs_live_filesystem.cpp:1269-1271` says:
  the flush writes one superblock, the other still names blocks that are erased.
- When the transaction of mkdir, unlink, rmdir or rename itself fails, the mount
  goes on accepting mutations; `README.md:234` says it rejects them.

## 6. What is left

Not modelled:

- The direct-boot layout: the slot at the start of the cartridge, its first block,
  the immutable ROM and the retry of a first ROM that was committed.  It gives put,
  remove and open a second path each.  Three hazards are listed for it.
- The Finder overlay: which backend a path lives in across renames.  Nothing of it
  reaches the cartridge, and what is stored is what the models are about.
- A composition that relates what a strict fsync acknowledges to what a power loss
  leaves.  Its parts are there: `AcknowledgedIsCommitted` above, and below
  `ImplementsAtomicStore` with write-behind and `QuietIsFlushed`.
- Whole-image programming and formatting, which do not retry; the statfs snapshot;
  the command line tool; USB packets; checksums and timestamps as such.  A checksum
  is taken to decide whether contents are those that were written.
