------------------------------ MODULE ExportSlot ------------------------------
(***************************************************************************)
(* What the export API promises, without requests, workers or storage: one *)
(* slot per project that an export holds until a deadline and that another *)
(* may take over only after it, and publications a cooldown apart, each by *)
(* the holder of the slot, who gives it up by publishing.                  *)
(***************************************************************************)
EXTENDS Integers

CONSTANTS Jobs, NoJob, Cooldown, JobDeadline

VARIABLES
    clock,
    holder,     \* the export that holds the slot
    until,      \* when the slot may be taken from it
    published   \* pairs of an export and the time it completed

slotVars == <<clock, holder, until, published>>

SlotInit ==
    /\ clock = 0
    /\ holder = NoJob
    /\ until = 0
    /\ published = {}

HasPublished(j) == \E p \in published : p[1] = j

Rested(t) == \A p \in published : p[2] + Cooldown <= t

Take(j) ==
    /\ holder = NoJob \/ until <= clock
    /\ j # holder
    /\ ~HasPublished(j)
    /\ Rested(clock)
    /\ holder' = j
    /\ until' = clock + JobDeadline
    /\ UNCHANGED <<clock, published>>

GiveUp ==
    /\ holder' = NoJob
    /\ until' = 0
    /\ UNCHANGED <<clock, published>>

Publish(t) ==
    /\ holder # NoJob
    /\ t <= clock /\ t < until
    /\ Rested(t)
    /\ published' = published \cup {<<holder, t>>}
    /\ holder' = NoJob
    /\ until' = 0
    /\ UNCHANGED clock

Pass ==
    /\ clock' = clock + 1
    /\ UNCHANGED <<holder, until, published>>

SlotNext ==
    \/ \E j \in Jobs : Take(j)
    \/ GiveUp
    \/ \E t \in 0..clock : Publish(t)
    \/ Pass

SlotSpec == SlotInit /\ [][SlotNext]_slotVars
=============================================================================
