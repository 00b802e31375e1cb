------------------------ MODULE IdleMaintenanceProofs ------------------------
(***************************************************************************)
(* If every request that may make a block live asks for maintenance both   *)
(* before and after it does, and no request merely interrupts a pass, then *)
(* the idle thread never erases a block of a committed file.               *)
(***************************************************************************)
EXTENDS IdleMaintenance, TLAPS

\* A pause with candidates in hand is remembered until the next step.
PauseRemembered == pass /\ pc \in {"waiting", "quiet"} => resync

\* Without a mere interruption both generations move together.
GenerationsAgree == active = changed

KindsMade == \A r \in Requests : request[r] \in Kinds \cup {"new", "done"}

IInv ==
    /\ TypeOK /\ KindsMade
    /\ LiveIntact /\ ScanValid
    /\ PauseRemembered /\ GenerationsAgree

-----------------------------------------------------------------------------
\* The threads start out well typed.
LEMMA InitTypeOK == Init => TypeOK
<1> SUFFICES ASSUME Init PROVE TypeOK
    OBVIOUS
<1>1. request \in [Requests -> AllKinds \cup {"new", "done"}]
    BY DEF Init
<1>2. cursor \in FirstData .. EndData
    BY ConstantsAssumption DEF Init
<1>3. live \in SUBSET Blocks /\ blank \in SUBSET Blocks
    BY DEF Init
<1> QED BY <1>1, <1>2, <1>3 DEF Init, TypeOK

\* Writing a file keeps both sets inside the data area.
LEMMA SettleType ==
    ASSUME live \in SUBSET Blocks, blank \in SUBSET Blocks, Settle
    PROVE  live' \in SUBSET Blocks /\ blank' \in SUBSET Blocks
BY DEF Settle, Put, Garbage, store

\* Every step keeps the types.
LEMMA NextTypeOK == TypeOK /\ [Next]_vars => TypeOK'
<1> SUFFICES ASSUME TypeOK, [Next]_vars PROVE TypeOK'
    OBVIOUS
<1> USE DEF TypeOK
<1>1. ASSUME NEW r \in Requests, Perform(r) PROVE TypeOK'
    <2>1. live' \in SUBSET Blocks /\ blank' \in SUBSET Blocks
        BY <1>1, SettleType DEF Perform, Commit, Remove, Unlink, Settle, store
    <2>2. active' \in BOOLEAN /\ changed' \in BOOLEAN /\ unserviced' \in BOOLEAN
        BY <1>1 DEF Perform, Commit, Remove, FinishCommit, Reschedule, activity
    <2>3. queued' \in BOOLEAN /\ renewed' \in BOOLEAN
        BY <1>1 DEF Perform, Commit, Remove, Enqueue, queue
    <2>4. request' \in [Requests -> AllKinds \cup {"new", "done"}]
        BY <1>1 DEF Perform
    <2> QED BY <1>1, <2>1, <2>2, <2>3, <2>4 DEF Perform, scan
<1>2. ASSUME NEW r \in Requests, NEW kind \in Kinds, Arrive(r, kind)
      PROVE  TypeOK'
    <2>1. active' \in BOOLEAN /\ changed' \in BOOLEAN /\ unserviced' \in BOOLEAN
        BY <1>2 DEF Arrive, Reschedule, Interrupt
    <2>2. request' \in [Requests -> AllKinds \cup {"new", "done"}]
        BY <1>2, ConstantsAssumption DEF Arrive
    <2>3. queued' \in BOOLEAN /\ renewed' \in BOOLEAN
        BY <1>2 DEF Arrive, Renew
    <2> QED BY <1>2, <2>1, <2>2, <2>3 DEF Arrive, store, scan
<1>3. CASE Destroy \/ CommitQueue
    <2>1. live' \in SUBSET Blocks /\ blank' \in SUBSET Blocks
        BY <1>3, SettleType DEF Destroy, CommitQueue, store
    <2>2. active' \in BOOLEAN /\ changed' \in BOOLEAN /\ unserviced' \in BOOLEAN
        BY <1>3 DEF Destroy, CommitQueue, FinishCommit, Reschedule, activity
    <2> QED BY <1>3, <2>1, <2>2 DEF Destroy, CommitQueue, TakeQueue, queue, scan
<1>4. CASE Stop \/ CommitterExits \/ Arm \/ DeadlinePasses
    <2>1. UNCHANGED <<live, blank, request, active, changed, unserviced, pc,
                      pass, resync, cursor, pending, queued>>
        BY <1>4 DEF Stop, CommitterExits, Arm, DeadlinePasses, store, activity,
                    scan, queue
    <2>2. /\ renewed' \in BOOLEAN
          /\ committer' \in {"waiting", "armed", "due", "exited"}
          /\ mount' \in {"mounted", "destroyed", "stopped"}
        BY <1>4 DEF Stop, CommitterExits, Arm, DeadlinePasses, queue
    <2> QED BY <2>1, <2>2
<1>5. Candidates \in SUBSET Blocks /\ Cursor \in FirstData .. EndData
    BY ConstantsAssumption DEF Candidates, Cursor, StartsOver
<1>6. CASE Inspect
    <2>1. cursor' \in FirstData .. EndData
        BY <1>5, <1>6, ConstantsAssumption DEF Inspect
    <2>2. pending' \in SUBSET Blocks
        BY <1>5, <1>6 DEF Inspect, Garbage
    <2> QED BY <1>6, <2>1, <2>2 DEF Inspect, store, activity, queue
<1>7. CASE Erase
    BY <1>5, <1>7, ConstantsAssumption DEF Erase, EndPass, queue
<1>8. CASE StepFails
    <2>1. cursor' \in FirstData .. EndData
        BY <1>5, <1>8, ConstantsAssumption DEF StepFails
    <2>2. blank' \in SUBSET Blocks /\ pending' \in SUBSET Blocks
        BY <1>5, <1>8 DEF StepFails
    <2> QED BY <1>8, <2>1, <2>2 DEF StepFails, EndPass, queue
<1>9. CASE Finished \/ UNCHANGED vars
    BY <1>9 DEF Finished, vars
<1>10. CASE Exit \/ Capture \/ QuietElapsed \/ Pause \/ Continue
    <2>1. /\ UNCHANGED <<live, blank, request, unserviced, cursor, pending, queued,
                         renewed, committer, mount>>
          /\ active' \in {active, FALSE} /\ changed' \in {changed, FALSE}
          /\ pass' = pass /\ (resync' = resync \/ resync' = (resync \/ (pass /\ changed)))
        BY <1>10 DEF Exit, Capture, QuietElapsed, Pause, Continue, store, activity,
                     scan, queue
    <2>2. pc' \in {"waiting", "quiet", "check", "lock", "exited"}
        BY <1>10 DEF Exit, Capture, QuietElapsed, Pause, Continue
    <2>3. active' \in BOOLEAN /\ changed' \in BOOLEAN
        BY <2>1
    <2>4. pass' \in BOOLEAN /\ resync' \in BOOLEAN
        BY <2>1
    <2> QED BY <2>1, <2>2, <2>3, <2>4
<1> QED BY <1>1, <1>2, <1>3, <1>4, <1>6, <1>7, <1>8, <1>9, <1>10
        DEF Next, IdleThread, DeferredThread

\* The blocks a file is written to are not blank afterwards, and a block that
\* was given up is not live.
LEMMA SettleIntact ==
    ASSUME live \in SUBSET Blocks, blank \in SUBSET Blocks, LiveIntact, Settle
    PROVE  LiveIntact'
BY DEF Settle, Put, LiveIntact, Garbage, store

\* What a step hands to the erase is garbage, whatever happened before.
LEMMA CandidatesNotLive ==
    ASSUME IInv, MayStep
    PROVE  Candidates \cap live = {}
BY DEF IInv, TypeOK, MayStep, Candidates, StartsOver, ScanValid, GenerationsAgree

\* Every step keeps the invariant, if requests announce what they change.
LEMMA NextIInv ==
    ASSUME Kinds \subseteq Announced, IInv, [Next]_vars
    PROVE  IInv'
<1> USE DEF IInv
<1>0. TypeOK'
    BY NextTypeOK
<1>1. ASSUME NEW r \in Requests, Perform(r) PROVE IInv'
    <2>1. KindsMade'
        BY <1>1 DEF Perform, KindsMade, TypeOK
    <2>2. LiveIntact'
        BY <1>1, SettleIntact
        DEF Perform, Commit, Remove, Unlink, Settle, LiveIntact, TypeOK, store
    <2>3. request[r] # "refused"
        BY <1>1 DEF KindsMade, Announced
    <2>4. GenerationsAgree'
        BY <1>1 DEF Perform, Commit, Remove, FinishCommit, Reschedule,
                    GenerationsAgree, activity
    <2>5. ScanValid'
        <3>1. CASE request[r] = "commit"
            BY <1>1, <3>1 DEF Perform, Commit, FinishCommit, Reschedule, ScanValid
        <3>2. CASE request[r] # "commit"
            <4>1. live' \subseteq live /\ changed' = changed
                BY <1>1, <2>3, <3>2 DEF Perform, Remove, Unlink, store, activity
            <4> QED BY <1>1, <4>1 DEF Perform, ScanValid, scan
        <3> QED BY <3>1, <3>2
    <2> QED BY <1>0, <1>1, <2>1, <2>2, <2>4, <2>5
            DEF Perform, PauseRemembered, scan
<1>2. ASSUME NEW r \in Requests, NEW kind \in Kinds, Arrive(r, kind)
      PROVE  IInv'
    <2>1. KindsMade'
        BY <1>2 DEF Arrive, KindsMade, TypeOK
    <2>2. Reschedule
        BY <1>2 DEF Arrive, Announced
    <2> QED BY <1>0, <1>2, <2>1, <2>2
            DEF Arrive, Reschedule, LiveIntact, ScanValid, PauseRemembered,
                GenerationsAgree, store, scan
<1>3. CASE \/ Stop \/ CommitterExits \/ Arm \/ DeadlinePasses
           \/ Exit \/ QuietElapsed \/ Continue
    BY <1>0, <1>3
    DEF Stop, CommitterExits, Arm, DeadlinePasses, Exit, QuietElapsed, Continue,
        KindsMade, LiveIntact, ScanValid, PauseRemembered, GenerationsAgree,
        store, scan, activity, TypeOK
<1>4. CASE Capture
    BY <1>0, <1>4
    DEF Capture, KindsMade, LiveIntact, ScanValid, PauseRemembered,
        GenerationsAgree, store, scan, TypeOK
<1>5. CASE Pause
    BY <1>0, <1>5
    DEF Pause, KindsMade, LiveIntact, ScanValid, PauseRemembered,
        GenerationsAgree, store, activity, TypeOK
<1>6. CASE Inspect
    <2>1. Candidates \cap live = {}
        BY <1>6, CandidatesNotLive DEF Inspect
    <2>2. pending' \cap live' = {}
        BY <1>6, <2>1 DEF Inspect, Garbage, store
    <2> QED BY <1>0, <1>6, <2>2
            DEF Inspect, KindsMade, LiveIntact, ScanValid, PauseRemembered,
                GenerationsAgree, store, activity
<1>7. CASE Erase \/ StepFails
    <2>1. Candidates \cap live = {}
        BY <1>7, CandidatesNotLive DEF Erase, StepFails
    <2>2. LiveIntact'
        BY <1>7, <2>1 DEF Erase, StepFails, LiveIntact
    <2> QED BY <1>0, <1>7, <2>2
            DEF Erase, StepFails, EndPass, KindsMade, ScanValid,
                PauseRemembered, GenerationsAgree
<1>8. CASE Finished \/ UNCHANGED vars
    BY <1>0, <1>8
    DEF Finished, vars, KindsMade, LiveIntact, ScanValid, PauseRemembered,
        GenerationsAgree
<1>9. CASE Destroy \/ CommitQueue
    <2>1. Settle \/ UNCHANGED store
        BY <1>9 DEF Destroy, CommitQueue
    <2>3. LiveIntact'
        BY <2>1, SettleIntact DEF TypeOK, LiveIntact, store
    <2>2. ScanValid' /\ GenerationsAgree'
        <3>1. \/ active' = TRUE /\ changed' = TRUE
              \/ UNCHANGED <<live, active, changed>>
            BY <1>9 DEF Destroy, CommitQueue, FinishCommit, Reschedule, store,
                        activity
        <3>2. UNCHANGED scan
            BY <1>9 DEF Destroy, CommitQueue
        <3> QED BY <3>1, <3>2 DEF TypeOK, ScanValid, GenerationsAgree, scan
    <2> QED BY <1>0, <1>9, <2>2, <2>3
            DEF Destroy, CommitQueue, KindsMade, PauseRemembered, scan
<1> QED BY <1>1, <1>2, <1>3, <1>4, <1>5, <1>6, <1>7, <1>8, <1>9
        DEF Next, IdleThread, DeferredThread

-----------------------------------------------------------------------------
\* The threads and the requests keep their types, whatever the requests.
THEOREM IdleTypeCorrect == Spec => []TypeOK
<1>1. Init => TypeOK
    BY InitTypeOK
<1>2. TypeOK /\ [Next]_vars => TypeOK'
    BY NextTypeOK
<1> QED BY <1>1, <1>2, PTL DEF Spec

\* Nothing but announced activity: the strengthened invariant holds throughout.
LEMMA AnnouncedInvariant ==
    ASSUME Kinds \subseteq Announced
    PROVE  Spec => []IInv
<1>1. Init => IInv
    BY InitTypeOK
    DEF Init, IInv, KindsMade, LiveIntact, ScanValid, PauseRemembered,
        GenerationsAgree
<1>2. IInv /\ [Next]_vars => IInv'
    BY NextIInv
<1> QED BY <1>1, <1>2, PTL DEF Spec

\* collectGarbageStep never erases a block of a committed file, for any number
\* of requests and blocks and through failed steps, as long as no request is a
\* mere interruption (open, read, flush) and every request that may make a
\* block live notes its activity at the end.
THEOREM AnnouncedCollectionIsSafe ==
    ASSUME Kinds \subseteq Announced
    PROVE  Spec => []LiveIntact
<1>1. IInv => LiveIntact
    BY DEF IInv
<1> QED BY <1>1, AnnouncedInvariant, PTL

\* Under the same hypothesis the candidates the next step would erase, and
\* those the thread still intends to collect, hold no block of a committed
\* file: the capture is replaced before it can be acted on.
THEOREM AnnouncedScanStaysValid ==
    ASSUME Kinds \subseteq Announced
    PROVE  Spec => []ScanValid
<1>1. IInv => ScanValid
    BY DEF IInv
<1> QED BY <1>1, AnnouncedInvariant, PTL
=============================================================================
