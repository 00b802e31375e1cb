------------------------------ MODULE SaveBanks ------------------------------
(***************************************************************************)
(* The save memory of the cartridge across a writer session.               *)
(*                                                                         *)
(* Preparing the flash writer damages the four battery-backed save banks.  *)
(* CartridgeStorage therefore captures them once before the first writer   *)
(* command, keeps the snapshot in memory through every restart of the      *)
(* session, and writes it back when the session is closed.  A writable     *)
(* mount asks for a physical reconnect before it captures and before it    *)
(* restores, because only a freshly powered cartridge gives each selector  *)
(* its own bank.                                                           *)
(***************************************************************************)
EXTENDS Integers

CONSTANTS
    BankCount,    \* save_bank_count
    Images,       \* contents of a bank
    Junk,         \* what writer traffic or an interrupted write leaves in a bank
    Originals,    \* contents of the save memory before the program starts
    Views,        \* which bank each selector can reach, after power-up or writer traffic
    Attempts,     \* attempts of openLiveWriteSessionWithRetry
    MaxUnplugs    \* bound: disconnections that nobody asked for

Bank == 1 .. BankCount
Contents == [Bank -> Images \cup {Junk}]

ASSUME ConstantsAssumption ==
    /\ BankCount \in Nat \ {0}
    /\ Originals \subseteq Contents
    /\ Views \subseteq [Bank -> Bank]
    /\ Attempts \in Nat \ {0}
    /\ MaxUnplugs \in Nat

\* A crossed selector shows the bank of another, which shows itself.
ASSUME ViewsAssumption == \A f \in Views : \A b \in Bank : f[f[b]] = f[b]

None == <<>>
Straight == [b \in Bank |-> b]

VARIABLES
    session,    \* "mount", "skip" (--skip-snapshot-restore) or "programmer" (card-write)
    banks,      \* what the save memory holds
    original,   \* what it held when the program started
    view,       \* the bank each selector reaches
    aliased,    \* a snapshot was taken or compared through selectors that are not straight
    connected,  \* the cartridge is on the bus
    unplugs,    \* disconnections that nobody asked for
    handle,     \* "none", "live", or "stale" once the device it names has gone
    isOpen,     \* is_open
    mounted,    \* the first opening succeeded
    saveBackup, \* save_backup
    saveDirty,  \* save_dirty
    pc,         \* where the call in progress stands; "idle" between calls
    after,      \* what follows a reconnect or a restoration
    attempt,    \* of openLiveWriteSessionWithRetry
    current,    \* the banks as the repair last read them
    finished,   \* what close() reports of the session itself
    closed      \* "no", or what the last close() reported: "done", "failed"

world  == <<banks, view, connected, unplugs>>
memory == <<saveBackup, saveDirty>>
call   == <<pc, after, attempt, current, finished, closed>>
vars   == <<session, original, world, aliased, handle, isOpen, mounted, memory, call>>

Preserve  == session # "skip"
Automatic == session = "mount"
Limit     == IF session = "programmer" THEN 1 ELSE Attempts

\* readSaveBanks: what the selectors show.
Shown == [b \in Bank |-> banks[view[b]]]

TypeOK ==
    /\ session \in {"mount", "skip", "programmer"}
    /\ banks \in Contents /\ original \in Contents
    /\ view \in [Bank -> Bank] /\ aliased \in BOOLEAN
    /\ connected \in BOOLEAN /\ unplugs \in 0 .. MaxUnplugs
    /\ handle \in {"none", "live", "stale"} /\ isOpen \in BOOLEAN /\ mounted \in BOOLEAN
    /\ saveBackup \in Contents \cup {None} /\ saveDirty \in BOOLEAN
    /\ pc \in {"idle", "start", "gone", "back", "claim", "initialize",
               "finalize", "recover", "repair"}
    /\ after \in {"capture", "open", "close"}
    /\ attempt \in 1 .. Attempts
    /\ current \in Contents \cup {None}
    /\ finished \in BOOLEAN /\ closed \in {"no", "done", "failed"}
    /\ isOpen => handle # "none"

Init ==
    /\ session \in {"mount", "skip", "programmer"}
    /\ original \in Originals /\ banks = original
    /\ view = Straight /\ aliased = FALSE
    /\ connected = TRUE /\ unplugs = 0
    /\ handle = "none" /\ isOpen = FALSE /\ mounted = FALSE
    /\ saveBackup = None /\ saveDirty = FALSE
    /\ pc = "start" /\ after = "capture" /\ attempt = 1
    /\ current = None /\ finished = TRUE /\ closed = "no"

-----------------------------------------------------------------------------
(* The cartridge and its cable.                                            *)

Unplug ==
    /\ connected
    /\ \/ pc = "gone" /\ UNCHANGED unplugs
       \/ unplugs < MaxUnplugs /\ unplugs' = unplugs + 1
    /\ connected' = FALSE
    /\ handle' = IF handle = "none" THEN "none" ELSE "stale"
    /\ UNCHANGED <<session, original, banks, view, aliased, isOpen, mounted, memory, call>>

Plug ==
    /\ ~connected /\ connected' = TRUE
    /\ view' \in Views
    /\ UNCHANGED <<session, original, banks, unplugs, aliased, handle, isOpen, mounted, memory, call>>

\* Writer commands reach bytes of the selected banks, and move the selectors.
Damage(D) ==
    /\ banks' = [b \in Bank |-> IF b \in D THEN Junk ELSE banks[b]]
    /\ view' \in Views \cup {view}

-----------------------------------------------------------------------------
(* Opening a writer.                                                       *)

\* MUTANT: shutdown() leaves is_open set.
ReleaseKeepsOpen == handle' = "none" /\ UNCHANGED isOpen
\* shutdown().
Release == handle' = "none" /\ isOpen' = FALSE

\* MUTANT: a failed opening is tried again for ever.
AttemptFailsAgain ==
    /\ Release
    /\ pc' = "start" /\ UNCHANGED attempt
    /\ after' = "capture" /\ current' = None
    /\ UNCHANGED <<finished, closed>>
\* openForProgramming returned false: openLiveWriteSessionWithRetry goes on.
AttemptFails ==
    /\ Release
    /\ IF attempt < Limit
       THEN pc' = "start" /\ attempt' = attempt + 1
       ELSE pc' = "idle" /\ attempt' = 1
    /\ after' = "capture" /\ current' = None
    /\ UNCHANGED <<finished, closed>>

Start ==
    /\ pc = "start"
    /\ Release
    /\ pc' = IF Preserve /\ saveBackup = None /\ Automatic THEN "gone" ELSE "claim"
    /\ UNCHANGED <<session, original, world, aliased, mounted, memory, after, attempt, current, finished, closed>>

\* captureSaveBanks, which reads everything twice.
Capture ==
    /\ saveBackup' = Shown
    /\ aliased' = (aliased \/ view # Straight)

\* libusb_init .. libusb_claim_interface, then the snapshot if there is none.
Claim ==
    /\ pc = "claim" /\ connected
    /\ IF Preserve /\ saveBackup = None THEN Capture ELSE UNCHANGED <<saveBackup, aliased>>
    /\ handle' = "live"
    /\ pc' = "initialize"
    /\ UNCHANGED <<session, original, world, isOpen, mounted, saveDirty, after, attempt, current,
                   finished, closed>>

ClaimFails ==
    /\ pc = "claim"
    /\ AttemptFails
    /\ UNCHANGED <<session, original, world, aliased, mounted, memory>>

\* initialize() and activateWriter().  tx92One marks the banks dirty before it sends.
Initialize ==
    /\ pc = "initialize" /\ handle = "live"
    /\ \E D \in SUBSET Bank : Damage(D)
    /\ saveDirty' = (saveDirty \/ Preserve)
    /\ isOpen' = TRUE /\ mounted' = TRUE
    /\ pc' = "idle" /\ attempt' = 1
    /\ UNCHANGED <<session, original, connected, unplugs, aliased, handle, saveBackup, after,
                   current, finished, closed>>

\* MUTANT: the banks count as dirty once the commands have succeeded.
PartialTrafficUnmarked ==
    /\ IF handle = "live" THEN \E D \in SUBSET Bank : Damage(D) ELSE UNCHANGED <<banks, view>>
    /\ UNCHANGED saveDirty
\* Writer commands up to one that fails: tx92One marks before it sends.
PartialTraffic ==
    /\ IF handle = "live" THEN \E D \in SUBSET Bank : Damage(D) ELSE UNCHANGED <<banks, view>>
    /\ saveDirty' = (saveDirty \/ Preserve)

\* It stops at some command: before the first that reaches the banks, or after.
InitializeFails ==
    /\ pc = "initialize"
    /\ PartialTraffic \/ UNCHANGED <<banks, view, saveDirty>>
    /\ IF Preserve
       THEN /\ pc' = "finalize" /\ after' = "open"
            /\ UNCHANGED <<handle, isOpen, attempt, current, finished, closed>>
       ELSE AttemptFails
    /\ UNCHANGED <<session, original, connected, unplugs, aliased, mounted, saveBackup>>

-----------------------------------------------------------------------------
(* Closing it: finalizeSavePreservation.                                   *)

\* restartLiveWriteSession, and every call that finds the session closed:
\* close without settling keeps the snapshot, then a new writer is opened.
Restart ==
    /\ pc = "idle" /\ mounted /\ closed = "no"
    /\ Release
    /\ pc' = "start"
    /\ UNCHANGED <<session, original, world, aliased, mounted, memory, after, attempt, current, finished,
                   closed>>

\* The erases and programs of an open session.
UseWriter ==
    /\ pc = "idle" /\ isOpen /\ handle = "live" /\ closed = "no"
    /\ \E D \in SUBSET Bank : Damage(D)
    /\ saveDirty' = (saveDirty \/ Preserve)
    /\ UNCHANGED <<session, original, connected, unplugs, aliased, handle, isOpen, mounted,
                   saveBackup, call>>

\* close().  Without a handle there is nothing to finalize, and it succeeds.
\* (The destructors close again after a failure, but no handle is left then.)
Close ==
    /\ pc = "idle" /\ mounted /\ closed = "no"
    /\ IF handle = "none"
       THEN closed' = "done" /\ UNCHANGED <<pc, after, finished>>
       ELSE /\ finished' \in IF handle = "live" THEN BOOLEAN ELSE {FALSE}
            /\ pc' = "finalize" /\ after' = "close"
            /\ UNCHANGED closed
    /\ UNCHANGED <<session, original, world, aliased, handle, isOpen, mounted, memory, attempt,
                   current>>

\* The end of a finalization, which is a failed opening's or a close's.
FinalizeReturns(ok) ==
    /\ UNCHANGED <<session, original, connected, unplugs, view, mounted>>
    /\ IF after = "open"
       THEN AttemptFails
       ELSE /\ Release
            /\ pc' = "idle" /\ closed' = IF ok /\ finished THEN "done" ELSE "failed"
            /\ after' = "capture" /\ current' = None /\ finished' = TRUE
            /\ UNCHANGED attempt

Keep == UNCHANGED <<banks, aliased, memory>>

Restored ==
    /\ saveDirty' = FALSE /\ saveBackup' = None
    /\ aliased' = (aliased \/ view # Straight)
    /\ FinalizeReturns(TRUE)

Finalize ==
    /\ pc = "finalize"
    /\ \/ /\ ~saveDirty
          /\ saveBackup' = IF Preserve THEN None ELSE saveBackup
          /\ FinalizeReturns(TRUE)
          /\ UNCHANGED <<banks, aliased, saveDirty>>
       \/ /\ saveDirty /\ saveBackup = None
          /\ FinalizeReturns(FALSE) /\ Keep
       \/ /\ saveDirty /\ saveBackup # None /\ Automatic
          /\ Release
          /\ pc' = "gone"
          /\ UNCHANGED <<session, original, world, aliased, mounted, memory, after, attempt,
                         current, finished, closed>>

\* waitForPhysicalReconnect: the device goes, and comes back.
SeeGone ==
    /\ pc = "gone" /\ ~connected
    /\ pc' = "back"
    /\ UNCHANGED <<session, original, world, aliased, handle, isOpen, mounted, memory, after,
                   attempt, current, finished, closed>>

SeeBack ==
    /\ pc = "back" /\ connected
    /\ pc' = IF after = "capture" THEN "claim" ELSE "recover"
    /\ UNCHANGED <<session, original, world, aliased, handle, isOpen, mounted, memory, after,
                   attempt, current, finished, closed>>

WaitFails ==
    /\ pc \in {"gone", "back"}
    /\ IF after = "capture"
       THEN AttemptFails /\ UNCHANGED <<session, original, world, aliased, mounted, memory>>
       ELSE FinalizeReturns(FALSE) /\ Keep

\* restoreSaveBanks, over the session's own handle, up to its first write.
Restore ==
    /\ pc = "finalize" /\ saveDirty /\ saveBackup # None /\ ~Automatic
    /\ handle = "live"
    /\ IF Shown = saveBackup
       THEN Restored /\ UNCHANGED banks
       ELSE /\ pc' = "repair" /\ current' = Shown
            /\ UNCHANGED <<session, original, world, aliased, handle, isOpen, mounted, memory,
                           after, attempt, finished, closed>>

\* MUTANT: the recovery does not look for selectors that all show the same.
IndistinctNever == FALSE
\* all_identical.
Indistinct == \A b, c \in Bank : Shown[b] = Shown[c]

\* recoverSaveBanksAfterPowerCycle up to its first write, which it refuses
\* when every selector shows the same.
Recover ==
    /\ pc = "recover" /\ connected
    /\ IF Shown = saveBackup
       THEN Restored /\ UNCHANGED banks
       ELSE IF Indistinct
       THEN FinalizeReturns(FALSE) /\ Keep
       ELSE /\ handle' = "live"
            /\ pc' = "repair" /\ current' = Shown
            /\ UNCHANGED <<session, original, world, aliased, isOpen, mounted, memory, after,
                           attempt, finished, closed>>

RecoverFails ==
    /\ \/ pc = "recover"
       \/ pc = "finalize" /\ saveDirty /\ saveBackup # None /\ ~Automatic
    /\ FinalizeReturns(FALSE) /\ Keep

IsNext(b) ==
    /\ current[b] # saveBackup[b]
    /\ \A c \in Bank : c < b => current[c] = saveBackup[c]

Write(b, image) == [banks EXCEPT ![view[b]] = image]

\* The selectors after the write.
Observed(b) == [c \in Bank |-> Write(b, saveBackup[b])[view[c]]]

\* MUTANT: only the bank that was written is compared.
UnexpectedThere(b, observed) == observed[b] # saveBackup[b]
\* The banks are not as last read with exactly bank b replaced.
Unexpected(b, observed) == observed # [current EXCEPT ![b] = saveBackup[b]]

\* Both write the banks that differ one by one and read all of them again
\* after each.
RepairBank(b) ==
    /\ IsNext(b)
    /\ banks' = Write(b, saveBackup[b])
    /\ IF Unexpected(b, Observed(b))
       THEN FinalizeReturns(FALSE) /\ UNCHANGED <<aliased, memory>>
       ELSE IF Observed(b) = saveBackup
       THEN Restored
       ELSE /\ current' = Observed(b)
            /\ UNCHANGED <<session, original, view, connected, unplugs, aliased, handle, isOpen,
                           mounted, memory, pc, after, attempt, finished, closed>>

Repair == pc = "repair" /\ handle = "live" /\ \E b \in Bank : RepairBank(b)

\* A transfer fails; a write that began can have any result.
RepairFails ==
    /\ pc = "repair"
    /\ \/ UNCHANGED banks
       \/ /\ handle = "live"
          /\ \E b \in Bank : /\ IsNext(b)
                            /\ \E image \in {Junk, saveBackup[b]} : banks' = Write(b, image)
    /\ FinalizeReturns(FALSE) /\ UNCHANGED <<aliased, memory>>

-----------------------------------------------------------------------------

\* The program has ended.
Ended == pc = "idle" /\ (closed # "no" \/ ~mounted) /\ UNCHANGED vars

Step ==
    \/ Start \/ Claim \/ ClaimFails \/ Initialize \/ InitializeFails
    \/ Finalize \/ SeeGone \/ SeeBack \/ WaitFails
    \/ Restore \/ Recover \/ RecoverFails \/ Repair \/ RepairFails

Next == Step \/ Restart \/ UseWriter \/ Close \/ Unplug \/ Plug \/ Ended

Spec == Init /\ [][Next]_vars

\* Transfers have a timeout, and the user follows the two prompts.
FairSpec ==
    /\ Spec
    /\ WF_vars(Step)
    /\ WF_vars(pc = "gone" /\ Unplug)
    /\ WF_vars(Plug)

-----------------------------------------------------------------------------
(* Properties.                                                             *)

\* As long as no selector was found crossed, the save memory can always be
\* brought back: while the program believes the banks clean they hold what
\* they held at the start, and while it believes them dirty the snapshot in
\* memory is that.  Through every restart, failed opening and failed
\* restoration (captureSaveBanks, tx92One, openForProgramming,
\* finalizeSavePreservation).
Recoverable ==
    Preserve /\ ~aliased =>
        IF saveDirty THEN saveBackup = original ELSE banks = original

\* Where all selectors reach one bank, a recovery writes nothing
\* (recoverSaveBanksAfterPowerCycle).
NothingThroughOneBank ==
    [][ Automatic /\ pc = "repair" /\ banks' # banks => \E b, c \in Bank : view[b] # view[c] ]_vars

\* A write that reached another bank than it was meant for is the last one:
\* a repair goes on only after changing exactly its bank
\* (restoreSaveBanks, recoverSaveBanksAfterPowerCycle).
StrayWriteIsLast ==
    [][ pc = "repair" /\ pc' = "repair" /\ banks' # banks =>
          \E b \in Bank : view[b] = b /\ banks' = [banks EXCEPT ![b] = saveBackup[b]] ]_vars

\* Every call returns, if the user follows the prompts
\* (openLiveWriteSessionWithRetry, waitForPhysicalReconnect, close).
CallsReturn == pc # "idle" ~> pc = "idle"
=============================================================================
