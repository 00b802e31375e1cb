----------------------------- MODULE AtomicStore -----------------------------
(***************************************************************************)
(* What a mounted filesystem promises of its files across failures and      *)
(* power losses, with no blocks and no superblocks.                        *)
(*                                                                         *)
(* durable is what the next mount would find, view what the files read as   *)
(* now, want what the operation in progress would make of them.  A          *)
(* write-through store has made durable whatever it has acknowledged; a     *)
(* write-behind store may lose acknowledged operations at a power loss, but *)
(* then falls back to a state the files really had, never to a mixture.     *)
(***************************************************************************)
CONSTANTS
    Names, Contents,
    Placeholders,   \* contents that a new mount may drop: empty files
    WriteBehind,    \* acknowledged operations may not be durable yet
    Absent,         \* no file, no mount, no operation
    Lost            \* what a damaged file reads as; no store promises it

VARIABLES durable, view, want
storeVars == <<durable, view, want>>

Maps == [Names -> Contents \cup {Absent}]

StoreInit ==
    /\ durable = [n \in Names |-> Absent]
    /\ view = Absent /\ want = Absent

\* One batch of writes, one removal, one rename: each is all or nothing.
Results(v) ==
    {w \in Maps : \A n \in Names : w[n] # v[n] => w[n] \in Contents}
        \cup {[v EXCEPT ![n] = Absent] : n \in Names}
        \cup {[v EXCEPT ![n] = Absent, ![m] = v[n]] : n, m \in Names}

Begin ==
    /\ view # Absent /\ want = Absent
    /\ want' \in Results(view)
    /\ UNCHANGED <<durable, view>>

\* The operation is acknowledged.
Finish ==
    /\ want # Absent
    /\ view' = want /\ want' = Absent
    /\ durable' \in {want} \cup (IF WriteBehind THEN {durable} ELSE {})

\* The operation reports an error.  Its result may still be what a mount
\* finds, and so may be what the files read as now.
Fail ==
    /\ want # Absent /\ want' = Absent
    /\ durable' \in {durable, view, want}
    /\ UNCHANGED view

\* What the files read as now becomes durable, with no request for it.
Sync ==
    /\ view # Absent /\ durable' = view
    /\ UNCHANGED <<view, want>>

PowerLoss ==
    /\ view # Absent
    /\ view' = Absent /\ want' = Absent
    /\ durable' \in {durable, view} \cup (IF want = Absent THEN {} ELSE {want})

Recover ==
    /\ view = Absent
    /\ view' = durable
    /\ want' \in {Absent, [n \in Names |-> IF durable[n] \in Placeholders
                                           THEN Absent ELSE durable[n]]}
    /\ UNCHANGED durable

StoreNext == Begin \/ Finish \/ Fail \/ Sync \/ PowerLoss \/ Recover

StoreSpec == StoreInit /\ [][StoreNext]_storeVars
==============================================================================
