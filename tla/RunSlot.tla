------------------------------- MODULE RunSlot -------------------------------
(***************************************************************************)
(* What the admission of pipeline runs promises a project, without quotas, *)
(* intents, callers or a reconciler: one slot, which a run holds from its  *)
(* admission to its settlement; the holder's work starts at most once      *)
(* while it holds the slot, nothing else starts, and whoever gives the     *)
(* slot back leaves nothing running.                                       *)
(***************************************************************************)
CONSTANTS Runs, Nobody

VARIABLES
    holder,    \* the run that holds the slot
    spent,     \* whether the holder's work was started
    running    \* the runs whose work is going on

slotVars == <<holder, spent, running>>

SlotInit ==
    /\ holder = Nobody
    /\ spent = FALSE
    /\ running = {}

Take(r) ==
    /\ holder = Nobody
    /\ holder' = r
    /\ UNCHANGED <<spent, running>>

Start ==
    /\ holder # Nobody
    /\ ~spent
    /\ spent' = TRUE
    /\ running' = {holder}
    /\ UNCHANGED holder

End ==
    /\ running' = {}
    /\ UNCHANGED <<holder, spent>>

\* Given back unused, after the end of the work, or together with it.
GiveBack ==
    /\ holder # Nobody
    /\ holder' = Nobody
    /\ spent' = FALSE
    /\ running' = {}

SlotNext ==
    \/ \E r \in Runs : Take(r)
    \/ Start
    \/ End
    \/ GiveBack

SlotSpec == SlotInit /\ [][SlotNext]_slotVars
=============================================================================
