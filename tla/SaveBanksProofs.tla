--------------------------- MODULE SaveBanksProofs ---------------------------
(***************************************************************************)
(* What holds of the save banks for any number of banks, any contents, any *)
(* crossing of the selectors and any number of attempts.                   *)
(***************************************************************************)
EXTENDS SaveBanks, TLAPS

\* Banks are dirty only with a snapshot in memory, and every phase that
\* damages or rewrites them comes after the capture.
Phase ==
    /\ handle = "live" => connected
    /\ saveDirty => Preserve /\ saveBackup # None
    /\ Preserve /\ (pc = "initialize" \/ isOpen) => saveBackup # None
    /\ pc = "finalize" => after # "capture"
    /\ pc \in {"idle", "start", "claim", "initialize"} => after = "capture"
    /\ pc \in {"gone", "back"} /\ after # "capture" => saveDirty
    /\ pc \in {"recover", "repair"} => saveDirty /\ after # "capture"
    /\ pc = "repair" => current \in Contents

\* The repair knows what the selectors show as long as its handle lives.
Repairing ==
    pc = "repair" /\ handle = "live" =>
        /\ current = Shown
        /\ Automatic => \E b, c \in Bank : view[b] # view[c]
\* A selector shows its own bank, or another's that shows itself.
Crossing == \A b \in Bank : view[view[b]] = view[b]

SnapshotTrue == Preserve /\ ~aliased /\ saveBackup # None => saveBackup = original

Inv == TypeOK /\ Phase /\ SnapshotTrue /\ Recoverable

\* The absence of a snapshot is not a snapshot.
LEMMA ContentsNotNone == None \notin Contents
<1>1. 1 \in Bank
  BY ConstantsAssumption DEF Bank
<1>2. DOMAIN None = {}
  BY DEF None
<1>3. \A c \in Contents : DOMAIN c = Bank
  BY DEF Contents
<1> QED
  BY <1>1, <1>2, <1>3

\* What the selectors show are contents of a save memory.
LEMMA ShownType == ASSUME TypeOK PROVE Shown \in Contents
  BY DEF TypeOK, Shown, Contents

\* Straight selectors show the banks.
LEMMA StraightShows == ASSUME TypeOK, view = Straight PROVE Shown = banks
  BY DEF TypeOK, Shown, Contents, Straight

\* Types hold at first ...
LEMMA TypeInit == Init => TypeOK
<1>1. 1 \in 1 .. Attempts /\ 0 \in 0 .. MaxUnplugs
  BY ConstantsAssumption
<1>2. Straight \in [Bank -> Bank]
  BY DEF Straight
<1> QED
  BY <1>1, <1>2, ConstantsAssumption DEF Init, TypeOK

\* ... under damage ...
LEMMA DamageType ==
  ASSUME TypeOK, NEW D \in SUBSET Bank, Damage(D)
  PROVE  banks' \in Contents /\ view' \in [Bank -> Bank]
  BY ConstantsAssumption DEF TypeOK, Damage, Contents

\* ... and writes of a bank ...
LEMMA WriteType ==
  ASSUME TypeOK, NEW b \in Bank, NEW image \in Images \cup {Junk}
  PROVE  Write(b, image) \in Contents
  BY DEF TypeOK, Write, Contents

\* ... when an attempt to open fails ...
LEMMA AttemptFailsType ==
  ASSUME TypeOK, AttemptFails
  PROVE  /\ handle' = "none" /\ isOpen' = FALSE /\ pc' \in {"start", "idle"}
         /\ attempt' \in 1 .. Attempts /\ after' = "capture" /\ current' = None
         /\ finished' = finished /\ closed' = closed
<1>1. Limit \in 1 .. Attempts
  BY ConstantsAssumption DEF Limit
<1> QED
  BY <1>1, ConstantsAssumption DEF TypeOK, AttemptFails, Release

\* ... when a step gives the handle up and leaves the banks and the snapshot ...
LEMMA ReleasedType ==
  ASSUME TypeOK, handle' = "none", isOpen' = FALSE,
         UNCHANGED <<session, original, banks, view, connected, unplugs, aliased,
                     mounted, saveBackup, saveDirty, finished, closed>>,
         pc' \in {"gone", "claim", "start", "idle"}, attempt' \in 1 .. Attempts,
         after' \in {"capture", after}, current' \in {None, current}
  PROVE  TypeOK'
<1>1. pc' \in {"idle", "start", "gone", "back", "claim", "initialize",
               "finalize", "recover", "repair"}
  OBVIOUS
<1>2. after' \in {"capture", "open", "close"} /\ current' \in Contents \cup {None}
  BY DEF TypeOK
<1> QED
  BY <1>1, <1>2 DEF TypeOK

\* ... when a finalization returns ...
LEMMA FinalizeReturnsType ==
  ASSUME TypeOK, NEW ok \in BOOLEAN, FinalizeReturns(ok)
  PROVE  /\ handle' = "none" /\ isOpen' = FALSE /\ pc' \in {"start", "idle"}
         /\ attempt' \in 1 .. Attempts /\ after' = "capture" /\ current' = None
         /\ finished' \in BOOLEAN /\ closed' \in {"no", "done", "failed"}
         /\ UNCHANGED <<session, original, connected, unplugs, view, mounted>>
<1>1. CASE after = "open"
  BY <1>1, AttemptFailsType DEF FinalizeReturns, TypeOK
<1>2. CASE after # "open"
  BY <1>2, ConstantsAssumption DEF FinalizeReturns, TypeOK, Release
<1> QED
  BY <1>1, <1>2

\* ... and hence in every step.
LEMMA TypeStep == ASSUME TypeOK, Phase, [Next]_vars PROVE TypeOK'
<1> USE ConstantsAssumption
<1>1. CASE UNCHANGED vars
  BY <1>1 DEF TypeOK, vars, world, memory, call
<1>2. CASE Start
  <2>1. attempt \in 1 .. Attempts
    BY DEF TypeOK
  <2> QED
    BY <1>2, <2>1, ReleasedType DEF Start, Release, world, memory
<1>3. CASE Claim
  <2>1. saveBackup' \in Contents \cup {None} /\ aliased' \in BOOLEAN
    BY <1>3, ShownType DEF TypeOK, Claim, Capture
  <2> QED
    BY <1>3, <2>1 DEF TypeOK, Claim, world
<1>4. CASE ClaimFails
  BY <1>4, AttemptFailsType, ReleasedType DEF ClaimFails, world, memory
<1>5. CASE Initialize
  BY <1>5, DamageType DEF TypeOK, Initialize
<1>6. CASE InitializeFails
  <2>1. banks' \in Contents /\ view' \in [Bank -> Bank] /\ saveDirty' \in BOOLEAN
    BY <1>6, DamageType DEF TypeOK, InitializeFails, PartialTraffic
  <2>2. CASE Preserve
    BY <1>6, <2>1, <2>2 DEF TypeOK, InitializeFails
  <2>3. CASE ~Preserve
    BY <1>6, <2>1, <2>3, AttemptFailsType DEF TypeOK, InitializeFails
  <2> QED
    BY <2>2, <2>3
<1>7. CASE Finalize
  <2>1. CASE ~saveDirty
    BY <1>7, <2>1, FinalizeReturnsType DEF TypeOK, Finalize
  <2>2. CASE saveDirty /\ saveBackup = None
    BY <1>7, <2>2, FinalizeReturnsType DEF TypeOK, Finalize, Keep, memory
  <2>3. CASE saveDirty /\ saveBackup # None
    BY <1>7, <2>3 DEF TypeOK, Finalize, Release, world, memory
  <2> QED
    BY <2>1, <2>2, <2>3 DEF TypeOK
<1>8. CASE SeeGone
  BY <1>8 DEF TypeOK, SeeGone, world, memory
<1>9. CASE SeeBack
  BY <1>9 DEF TypeOK, SeeBack, world, memory
<1>10. CASE WaitFails
  <2>1. CASE after = "capture"
    BY <1>10, <2>1, AttemptFailsType, ReleasedType DEF WaitFails, world, memory
  <2>2. CASE after # "capture"
    BY <1>10, <2>2, FinalizeReturnsType DEF TypeOK, WaitFails, Keep, memory
  <2> QED
    BY <2>1, <2>2
<1>11. CASE Restore
  <2>1. CASE Shown = saveBackup
    BY <1>11, <2>1, FinalizeReturnsType DEF TypeOK, Restore, Restored
  <2>2. CASE Shown # saveBackup
    BY <1>11, <2>2, ShownType DEF TypeOK, Restore, world, memory
  <2> QED
    BY <2>1, <2>2
<1>12. CASE Recover
  <2>1. CASE Shown = saveBackup
    BY <1>12, <2>1, FinalizeReturnsType DEF TypeOK, Recover, Restored
  <2>2. CASE Shown # saveBackup /\ Indistinct
    BY <1>12, <2>2, FinalizeReturnsType DEF TypeOK, Recover, Keep, memory
  <2>3. CASE Shown # saveBackup /\ ~Indistinct
    BY <1>12, <2>3, ShownType DEF TypeOK, Recover, world, memory
  <2> QED
    BY <2>1, <2>2, <2>3
<1>13. CASE RecoverFails
  BY <1>13, FinalizeReturnsType DEF TypeOK, RecoverFails, Keep, memory
<1>14. CASE UseWriter
  BY <1>14, DamageType DEF TypeOK, UseWriter, call
<1>15. CASE Restart
  <2>1. attempt \in 1 .. Attempts
    BY DEF TypeOK
  <2> QED
    BY <1>15, <2>1, ReleasedType DEF Restart, Release, world, memory
<1>16. CASE Close
  BY <1>16 DEF TypeOK, Close, world, memory
<1>17. CASE Unplug
  <2>1. unplugs' \in 0 .. MaxUnplugs
    BY <1>17 DEF TypeOK, Unplug
  <2>2. handle' \in {"none", "live", "stale"} /\ (isOpen' => handle' # "none")
    BY <1>17 DEF TypeOK, Unplug
  <2>3. UNCHANGED <<session, original, banks, view, saveBackup, pc, after, attempt, current,
                    closed>>
    BY <1>17 DEF Unplug, memory, call
  <2>4. /\ connected' \in BOOLEAN /\ aliased' \in BOOLEAN /\ isOpen' \in BOOLEAN
        /\ mounted' \in BOOLEAN /\ saveDirty' \in BOOLEAN /\ finished' \in BOOLEAN
    BY <1>17 DEF TypeOK, Unplug, memory, call
  <2> QED
    BY <2>1, <2>2, <2>3, <2>4 DEF TypeOK
<1>18. CASE Plug
  BY <1>18 DEF TypeOK, Plug, memory, call
<1>19. CASE Repair
  <2>1. PICK b \in Bank : RepairBank(b)
    BY <1>19 DEF Repair
  <2>2. saveBackup \in Contents
    BY <1>19 DEF TypeOK, Phase, Repair
  <2>7. saveBackup[b] \in Images \cup {Junk}
    BY <2>2 DEF Contents
  <2>8. Write(b, saveBackup[b]) \in Contents
    BY <2>7, WriteType
  <2>3. banks' \in Contents /\ Observed(b) \in Contents
    BY <2>1, <2>8 DEF TypeOK, RepairBank, Observed, Contents
  <2>4. CASE Unexpected(b, Observed(b))
    BY <2>1, <2>3, <2>4, FinalizeReturnsType DEF TypeOK, RepairBank, memory
  <2>5. CASE ~Unexpected(b, Observed(b)) /\ Observed(b) = saveBackup
    BY <2>1, <2>3, <2>5, FinalizeReturnsType DEF TypeOK, RepairBank, Restored
  <2>6. CASE ~Unexpected(b, Observed(b)) /\ Observed(b) # saveBackup
    BY <2>1, <2>3, <2>6 DEF TypeOK, RepairBank, memory
  <2> QED
    BY <2>4, <2>5, <2>6
<1>20. CASE RepairFails
  <2>1. saveBackup \in Contents
    BY <1>20 DEF TypeOK, Phase, RepairFails
  <2>2. banks' \in Contents
    BY <1>20, <2>1, WriteType DEF TypeOK, RepairFails, Contents
  <2> QED
    BY <1>20, <2>2, FinalizeReturnsType DEF TypeOK, RepairFails, memory
<1> QED
  BY <1>1, <1>2, <1>3, <1>4, <1>5, <1>6, <1>7, <1>8, <1>9, <1>10, <1>11, <1>12, <1>13, <1>14,
     <1>15, <1>16, <1>17, <1>18, <1>19, <1>20 DEF Next, Step, Ended

\* Every step keeps the phases in order.
LEMMA PhaseStep == ASSUME TypeOK, Phase, [Next]_vars PROVE Phase'
<1> USE DEF Preserve, Automatic
<1>1. CASE UNCHANGED vars
  BY <1>1 DEF Phase, vars, world, memory, call
<1>2. CASE Start
  BY <1>2 DEF TypeOK, Phase, Start, Release, world, memory
<1>3. CASE Claim
  BY <1>3, ShownType, ContentsNotNone DEF TypeOK, Phase, Claim, Capture, world
<1>4. CASE ClaimFails
  BY <1>4, AttemptFailsType DEF TypeOK, Phase, ClaimFails, world, memory
<1>5. CASE Initialize
  BY <1>5 DEF TypeOK, Phase, Initialize
<1>6. CASE InitializeFails
  <2>1. CASE Preserve
    BY <1>6, <2>1 DEF TypeOK, Phase, InitializeFails, PartialTraffic
  <2>2. CASE ~Preserve
    <3>1. AttemptFails /\ session' = session /\ connected' = connected
      BY <1>6, <2>2 DEF InitializeFails
    <3>2. saveDirty' = FALSE
      BY <1>6, <2>2 DEF TypeOK, Phase, InitializeFails, PartialTraffic
    <3> QED
      BY <2>2, <3>1, <3>2, AttemptFailsType DEF Phase
  <2> QED
    BY <2>1, <2>2
<1>7. CASE Finalize
  <2>1. CASE ~saveDirty
    <3>1. FinalizeReturns(TRUE)
      BY <1>7, <2>1 DEF Finalize
    <3>2. saveDirty' = FALSE
      BY <1>7, <2>1 DEF TypeOK, Finalize
    <3> QED
      BY <3>1, <3>2, FinalizeReturnsType DEF Phase
  <2>2. CASE saveDirty /\ saveBackup = None
    BY <1>7, <2>2 DEF TypeOK, Phase, Finalize
  <2>3. CASE saveDirty /\ saveBackup # None
    BY <1>7, <2>3 DEF TypeOK, Phase, Finalize, Release, world, memory
  <2> QED
    BY <2>1, <2>2, <2>3 DEF TypeOK
<1>8. CASE SeeGone
  BY <1>8 DEF TypeOK, Phase, SeeGone, world, memory
<1>9. CASE SeeBack
  BY <1>9 DEF TypeOK, Phase, SeeBack, world, memory
<1>10. CASE WaitFails
  <2>1. CASE after = "capture"
    BY <1>10, <2>1, AttemptFailsType DEF TypeOK, Phase, WaitFails, world, memory
  <2>2. CASE after # "capture"
    BY <1>10, <2>2, FinalizeReturnsType DEF TypeOK, Phase, WaitFails, Keep, memory
  <2> QED
    BY <2>1, <2>2
<1>11. CASE Restore
  <2>1. CASE Shown = saveBackup
    BY <1>11, <2>1, FinalizeReturnsType DEF TypeOK, Phase, Restore, Restored
  <2>2. CASE Shown # saveBackup
    BY <1>11, <2>2, ShownType DEF TypeOK, Phase, Restore, world, memory
  <2> QED
    BY <2>1, <2>2
<1>12. CASE Recover
  <2>1. CASE Shown = saveBackup
    BY <1>12, <2>1, FinalizeReturnsType DEF TypeOK, Phase, Recover, Restored
  <2>2. CASE Shown # saveBackup /\ Indistinct
    BY <1>12, <2>2, FinalizeReturnsType DEF TypeOK, Phase, Recover, Keep, memory
  <2>3. CASE Shown # saveBackup /\ ~Indistinct
    BY <1>12, <2>3, ShownType DEF TypeOK, Phase, Recover, world, memory
  <2> QED
    BY <2>1, <2>2, <2>3
<1>13. CASE RecoverFails
  BY <1>13, FinalizeReturnsType DEF TypeOK, Phase, RecoverFails, Keep, memory
<1>14. CASE UseWriter
  BY <1>14 DEF TypeOK, Phase, UseWriter, call
<1>15. CASE Restart
  BY <1>15 DEF TypeOK, Phase, Restart, Release, world, memory
<1>16. CASE Close
  BY <1>16 DEF TypeOK, Phase, Close, world, memory
<1>17. CASE Unplug
  BY <1>17 DEF TypeOK, Phase, Unplug, memory, call
<1>18. CASE Plug
  BY <1>18 DEF TypeOK, Phase, Plug, memory, call
<1>19. CASE Repair
  <2>1. PICK b \in Bank : RepairBank(b)
    BY <1>19 DEF Repair
  <2>2. CASE Unexpected(b, Observed(b))
    BY <2>1, <2>2, FinalizeReturnsType DEF TypeOK, Phase, RepairBank, memory
  <2>3. CASE ~Unexpected(b, Observed(b)) /\ Observed(b) = saveBackup
    BY <2>1, <2>3, FinalizeReturnsType DEF TypeOK, Phase, RepairBank, Restored
  <2>4. CASE ~Unexpected(b, Observed(b)) /\ Observed(b) # saveBackup
    <3>1. current' \in Contents
      BY <1>19, <2>1, <2>4 DEF Phase, Repair, RepairBank, Unexpected, Contents, TypeOK
    <3> QED
      BY <1>19, <2>1, <2>4, <3>1 DEF TypeOK, Phase, Repair, RepairBank, memory
  <2> QED
    BY <2>2, <2>3, <2>4
<1>20. CASE RepairFails
  BY <1>20, FinalizeReturnsType DEF TypeOK, Phase, RepairFails, memory
<1> QED
  BY <1>1, <1>2, <1>3, <1>4, <1>5, <1>6, <1>7, <1>8, <1>9, <1>10, <1>11, <1>12, <1>13, <1>14,
     <1>15, <1>16, <1>17, <1>18, <1>19, <1>20 DEF Next, Step, Ended

\* An end of a finalization that restores: the selectors show the snapshot,
\* so the banks hold it unless selectors are crossed.
LEMMA RestoredMeansOriginal ==
  ASSUME Inv, TypeOK', saveBackup # None, Restored,
         [b \in Bank |-> banks'[view[b]]] = saveBackup
  PROVE  SnapshotTrue' /\ Recoverable'
<1>1. saveBackup' = None /\ saveDirty' = FALSE /\ session' = session /\ original' = original
  BY DEF Restored, FinalizeReturns
<1>2. ASSUME Preserve, ~aliased' PROVE banks' = original
  <2>1. ~aliased /\ view = Straight
    BY <1>2 DEF Restored, Inv, TypeOK
  <2>2. saveBackup = original
    BY <1>2, <2>1 DEF Inv, SnapshotTrue
  <2>3. banks' = [b \in Bank |-> banks'[b]]
    BY DEF TypeOK, Contents
  <2> QED
    BY <2>1, <2>2, <2>3 DEF Straight
<1> QED
  BY <1>1, <1>2 DEF SnapshotTrue, Recoverable, Preserve

\* Any other end of a finalization that leaves the banks alone, or leaves
\* them dirty, changes nothing of what is remembered.
LEMMA MemoryKept ==
  ASSUME Inv, session' = session, original' = original,
         saveBackup' = saveBackup, saveDirty' = saveDirty,
         aliased' = aliased, banks' = banks \/ saveDirty
  PROVE  SnapshotTrue' /\ Recoverable'
BY DEF Inv, TypeOK, SnapshotTrue, Recoverable, Preserve

\* Banks may be damaged once there is a snapshot.
LEMMA DamageMarked ==
  ASSUME Inv, session' = session, original' = original, aliased' = aliased,
         saveBackup' = saveBackup, saveDirty' = (saveDirty \/ Preserve),
         Preserve => saveBackup # None
  PROVE  SnapshotTrue' /\ Recoverable'
BY DEF Inv, TypeOK, SnapshotTrue, Recoverable, Preserve

\* Every step keeps the snapshot true and the save memory recoverable.
LEMMA RecoverStep == ASSUME Inv, TypeOK', [Next]_vars PROVE SnapshotTrue' /\ Recoverable'
<1> USE DEF world, memory, call
<1>1. CASE UNCHANGED vars
  BY <1>1, MemoryKept DEF vars
<1>2. CASE Start
  BY <1>2, MemoryKept DEF Start
<1>3. CASE Claim
  <2>1. session' = session /\ original' = original /\ banks' = banks /\ saveDirty' = saveDirty
    BY <1>3 DEF Claim
  <2>2. CASE Preserve /\ saveBackup = None
    <3>1. saveDirty = FALSE
      BY <2>2 DEF Inv, Phase, TypeOK
    <3>2. ASSUME ~aliased' PROVE ~aliased /\ saveBackup' = banks
      BY <1>3, <2>2, <3>2, StraightShows DEF Claim, Capture, Inv, TypeOK
    <3>3. ASSUME ~aliased' PROVE banks = original
      BY <2>2, <3>1, <3>2, <3>3 DEF Inv, Recoverable
    <3> QED
      BY <2>1, <3>1, <3>2, <3>3 DEF SnapshotTrue, Recoverable
  <2>3. CASE ~(Preserve /\ saveBackup = None)
    BY <1>3, <2>1, <2>3, MemoryKept DEF Claim
  <2> QED
    BY <2>2, <2>3
<1>4. CASE ClaimFails
  BY <1>4, MemoryKept DEF ClaimFails
<1>5. CASE Initialize
  BY <1>5, DamageMarked DEF Initialize, Inv, Phase
<1>6. CASE InitializeFails
  <2>1. CASE PartialTraffic
    BY <1>6, <2>1, DamageMarked DEF InitializeFails, PartialTraffic, Inv, Phase
  <2>2. CASE UNCHANGED <<banks, view, saveDirty>>
    BY <1>6, <2>2, MemoryKept DEF InitializeFails
  <2> QED
    BY <1>6, <2>1, <2>2 DEF InitializeFails
<1>7. CASE Finalize
  <2>1. CASE ~saveDirty
    <3>1. /\ session' = session /\ original' = original /\ banks' = banks /\ aliased' = aliased
          /\ saveDirty' = saveDirty /\ saveBackup' \in {None, saveBackup}
      BY <1>7, <2>1 DEF Finalize, FinalizeReturns
    <3> QED
      BY <2>1, <3>1 DEF Inv, TypeOK, SnapshotTrue, Recoverable, Preserve
  <2>2. CASE saveDirty /\ saveBackup = None
    BY <2>2 DEF Inv, Phase
  <2>3. CASE saveDirty /\ saveBackup # None
    BY <1>7, <2>3, MemoryKept DEF Finalize
  <2> QED
    BY <2>1, <2>2, <2>3 DEF Inv, TypeOK
<1>8. CASE SeeGone
  BY <1>8, MemoryKept DEF SeeGone
<1>9. CASE SeeBack
  BY <1>9, MemoryKept DEF SeeBack
<1>10. CASE WaitFails
  BY <1>10, MemoryKept DEF WaitFails, FinalizeReturns, Keep
<1>11. CASE Restore
  <2>1. CASE Shown = saveBackup
    <3>1. Restored /\ banks' = banks /\ saveBackup # None
      BY <1>11, <2>1 DEF Restore
    <3> QED
      BY <2>1, <3>1, RestoredMeansOriginal DEF Shown
  <2>2. CASE Shown # saveBackup
    BY <1>11, <2>2, MemoryKept DEF Restore
  <2> QED
    BY <2>1, <2>2
<1>12. CASE Recover
  <2>1. CASE Shown = saveBackup
    <3>1. Restored /\ banks' = banks /\ saveBackup # None
      BY <1>12, <2>1 DEF Recover, Inv, Phase
    <3> QED
      BY <2>1, <3>1, RestoredMeansOriginal DEF Shown
  <2>2. CASE Shown # saveBackup
    BY <1>12, <2>2, MemoryKept DEF Recover, FinalizeReturns, Keep
  <2> QED
    BY <2>1, <2>2
<1>13. CASE RecoverFails
  BY <1>13, MemoryKept DEF RecoverFails, FinalizeReturns, Keep
<1>14. CASE UseWriter
  BY <1>14, DamageMarked DEF UseWriter, Inv, Phase
<1>15. CASE Restart
  BY <1>15, MemoryKept DEF Restart
<1>16. CASE Close
  BY <1>16, MemoryKept DEF Close
<1>17. CASE Unplug
  BY <1>17, MemoryKept DEF Unplug
<1>18. CASE Plug
  BY <1>18, MemoryKept DEF Plug
<1>19. CASE Repair
  <2>1. PICK b \in Bank : RepairBank(b)
    BY <1>19 DEF Repair
  <2>2. saveDirty /\ saveBackup # None
    BY <1>19 DEF Repair, Inv, Phase
  <2>3. CASE ~Unexpected(b, Observed(b)) /\ Observed(b) = saveBackup
    <3>1. Restored /\ [c \in Bank |-> banks'[view[c]]] = saveBackup
      BY <2>1, <2>3 DEF RepairBank, Observed
    <3> QED
      BY <2>2, <3>1, RestoredMeansOriginal
  <2>4. CASE Unexpected(b, Observed(b)) \/ Observed(b) # saveBackup
    BY <2>1, <2>2, <2>4, MemoryKept DEF RepairBank, FinalizeReturns
  <2> QED
    BY <2>3, <2>4
<1>20. CASE RepairFails
  BY <1>20, MemoryKept DEF RepairFails, FinalizeReturns, Inv, Phase
<1> QED
  BY <1>1, <1>2, <1>3, <1>4, <1>5, <1>6, <1>7, <1>8, <1>9, <1>10, <1>11, <1>12, <1>13, <1>14,
     <1>15, <1>16, <1>17, <1>18, <1>19, <1>20 DEF Next, Step, Ended

\* The invariant holds before the first call.
LEMMA InvInit == Init => Inv
<1> SUFFICES ASSUME Init PROVE Inv
  OBVIOUS
<1>1. Phase /\ SnapshotTrue /\ Recoverable
  BY DEF Init, Phase, SnapshotTrue, Recoverable
<1> QED
  BY <1>1, TypeInit DEF Inv

\* The inductive invariant: types, phases, and what is remembered of the banks.
THEOREM Invariance == Spec => []Inv
<1>1. Inv /\ [Next]_vars => Inv'
  BY TypeStep, PhaseStep, RecoverStep DEF Inv
<1> QED
  BY <1>1, InvInit, PTL DEF Spec

\* The types, and no session without a handle.
THEOREM SaveTypeCorrect == Spec => []TypeOK
BY Invariance, PTL DEF Inv

\* The save memory can always be brought back.
THEOREM SaveMemoryRecoverable == Spec => []Recoverable
BY Invariance, PTL DEF Inv

\* Selectors start straight ...
LEMMA CrossingInit == Init => Crossing
BY DEF Init, Crossing, Straight

\* ... and are only ever crossed as Views allows.
LEMMA CrossingStep == ASSUME TypeOK, Crossing, [Next]_vars PROVE Crossing'
<1>1. CASE view' \in Views
  BY <1>1, ViewsAssumption DEF Crossing
<1>2. CASE view' = view
  BY <1>2 DEF Crossing
<1>3. view' = view \/ view' \in Views
  BY DEF Next, Step, vars, world, memory, call, Start, Claim, ClaimFails, Initialize,
         InitializeFails, PartialTraffic, Damage, Restart, UseWriter, Close, Finalize, SeeGone,
         SeeBack, WaitFails, Restore, Recover, RecoverFails, Repair, RepairBank, RepairFails,
         Restored, FinalizeReturns, Unplug, Plug, Ended
<1> QED
  BY <1>1, <1>2, <1>3

\* There is no repair at first.
LEMMA RepairingInit == Init => Repairing
BY DEF Init, Repairing

\* Through every step a repair knows the banks it works on.
LEMMA RepairingStep == ASSUME Inv, Repairing, [Next]_vars PROVE Repairing'
<1> SUFFICES ASSUME pc' = "repair", handle' = "live"
             PROVE  current' = Shown' /\ (Automatic' => \E b, c \in Bank : view'[b] # view'[c])
  BY DEF Repairing
<1>1. TypeOK
  BY DEF Inv
<1>2. CASE UNCHANGED <<pc, current, banks, view, session, handle>>
  BY <1>2 DEF Repairing, Shown, Automatic
<1>3. CASE Restore
  <2>1. Shown # saveBackup
    BY <1>1, <1>3, FinalizeReturnsType DEF Restore, Restored
  <2> QED
    BY <1>3, <2>1 DEF Restore, Shown, world, Automatic
<1>4. CASE Recover
  <2>1. Shown # saveBackup /\ ~Indistinct
    BY <1>1, <1>4, FinalizeReturnsType DEF Recover, Restored
  <2>2. \E b, c \in Bank : view[b] # view[c]
    BY <2>1 DEF Indistinct, Shown
  <2> QED
    BY <1>4, <2>1, <2>2 DEF Recover, Shown, world
<1>5. CASE Repair
  <2>1. PICK b \in Bank : RepairBank(b)
    BY <1>5 DEF Repair
  <2>2. ~Unexpected(b, Observed(b)) /\ Observed(b) # saveBackup
    BY <1>1, <2>1, FinalizeReturnsType DEF RepairBank, Restored
  <2>3. UNCHANGED <<session, view>> /\ current' = Observed(b) /\ banks' = Write(b, saveBackup[b])
    BY <2>1, <2>2 DEF RepairBank
  <2> QED
    BY <1>5, <2>3 DEF Repair, Repairing, Observed, Shown, Automatic
<1>6. CASE Start \/ Claim \/ ClaimFails \/ Initialize \/ InitializeFails
  BY <1>1, <1>6, AttemptFailsType DEF Start, Claim, ClaimFails, Initialize, InitializeFails
<1>7. CASE Finalize \/ SeeGone \/ SeeBack \/ WaitFails \/ RecoverFails \/ RepairFails
  BY <1>1, <1>7, FinalizeReturnsType, AttemptFailsType
  DEF Finalize, SeeGone, SeeBack, WaitFails, RecoverFails, RepairFails
<1>8. CASE Restart \/ UseWriter \/ Close
  BY <1>8 DEF Restart, UseWriter, Close, call
<1>9. CASE Unplug
  BY <1>9 DEF Unplug
<1>10. CASE Plug
  BY <1>10 DEF Plug, call, Inv, Phase
<1> QED
  BY <1>2, <1>3, <1>4, <1>5, <1>6, <1>7, <1>8, <1>9, <1>10
  DEF Next, Step, Ended, vars, world, call

\* A recovery writes nothing while all selectors show one bank.
THEOREM OneBankIsLeftAlone == Spec => NothingThroughOneBank
<1> DEFINE Safe == Automatic /\ pc = "repair" /\ banks' # banks =>
                     \E b, c \in Bank : view[b] # view[c]
<1>1. Inv /\ Repairing /\ [Next]_vars => [Safe]_vars
  <2> SUFFICES ASSUME Inv, Repairing, [Next]_vars, Automatic, pc = "repair", banks' # banks
               PROVE  handle = "live"
    BY DEF Repairing
  <2> QED
    BY DEF Next, Step, vars, world, call, Start, Claim, ClaimFails, Initialize, InitializeFails,
           Restart, UseWriter, Close, Finalize, SeeGone, SeeBack, WaitFails, Restore, Recover,
           RecoverFails, Repair, RepairFails, Unplug, Plug, Ended, Keep
<1>2. Repairing /\ Inv /\ [Next]_vars => Repairing'
  BY RepairingStep
<1> QED
  BY <1>1, <1>2, RepairingInit, Invariance, PTL DEF Spec, NothingThroughOneBank

\* A write that reached another bank than its own ends the repair.
THEOREM StrayWriteEndsRepair == Spec => StrayWriteIsLast
<1> DEFINE Meant == pc = "repair" /\ pc' = "repair" /\ banks' # banks =>
                      \E b \in Bank : view[b] = b /\ banks' = [banks EXCEPT ![b] = saveBackup[b]]
<1>1. Inv /\ Repairing /\ Crossing /\ [Next]_vars => [Meant]_vars
  <2> SUFFICES ASSUME Inv, Repairing, Crossing, [Next]_vars,
                      pc = "repair", pc' = "repair", banks' # banks
               PROVE  \E b \in Bank : view[b] = b /\ banks' = [banks EXCEPT ![b] = saveBackup[b]]
    OBVIOUS
  <2>1. TypeOK
    BY DEF Inv
  <2>2. Repair
    BY <2>1, FinalizeReturnsType
    DEF Next, Step, vars, world, call, Start, Claim, ClaimFails, Initialize, InitializeFails,
        Restart, UseWriter, Close, Finalize, SeeGone, SeeBack, WaitFails, Restore, Recover,
        RecoverFails, RepairFails, Unplug, Plug, Ended, Keep
  <2>3. PICK b \in Bank : RepairBank(b)
    BY <2>2 DEF Repair
  <2>4. ~Unexpected(b, Observed(b))
    BY <2>1, <2>3, FinalizeReturnsType DEF RepairBank
  <2>5. banks' = [banks EXCEPT ![view[b]] = saveBackup[b]]
    BY <2>3 DEF RepairBank, Write
  <2>6. view[b] = b
    <3> DEFINE p == view[b]
    <3> SUFFICES ASSUME p # b PROVE FALSE
      OBVIOUS
    <3>1. p \in Bank /\ view[p] = p
      BY <2>1 DEF TypeOK, Crossing
    <3>2. current[p] = current[b]
      BY <2>2, <3>1 DEF Repair, Repairing, Shown
    <3>3. Observed(b)[p] = saveBackup[b]
      BY <2>1, <3>1 DEF Observed, Write, TypeOK, Contents
    <3>4. Observed(b)[p] = current[p]
      BY <2>2, <2>4, <3>1 DEF Unexpected, Repair, Inv, Phase, Contents
    <3> QED
      BY <2>3, <3>2, <3>3, <3>4 DEF RepairBank, IsNext
  <2> QED
    BY <2>5, <2>6
<1>2. Repairing /\ Inv /\ [Next]_vars => Repairing'
  BY RepairingStep
<1>3. Crossing /\ Inv /\ [Next]_vars => Crossing'
  BY CrossingStep DEF Inv
<1> QED
  BY <1>1, <1>2, <1>3, RepairingInit, CrossingInit, Invariance, PTL DEF Spec, StrayWriteIsLast

=============================================================================
