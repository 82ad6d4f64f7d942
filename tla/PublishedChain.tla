---------------------------- MODULE PublishedChain ----------------------------
(***************************************************************************)
(* What publication promises, without leases, workers or objects: the      *)
(* published generations are one unbroken chain in which each execution    *)
(* has one place at most, and whoever is told that an execution published  *)
(* or did not is told the truth for ever.                                  *)
(***************************************************************************)
EXTENDS Integers

CONSTANT Executions

VARIABLES
    last,     \* how many generations were published
    place,    \* the place of an execution's generation, 0 for none
    parent,   \* the place of the generation it was made from
    told      \* what was said of an execution

chainVars == <<last, place, parent, told>>

ChainInit ==
    /\ last = 0
    /\ place = [e \in Executions |-> 0] /\ parent = [e \in Executions |-> 0]
    /\ told = [e \in Executions |-> {}]

Publish(e) ==
    /\ place[e] = 0 /\ "absent" \notin told[e]
    /\ last' = last + 1
    /\ place' = [place EXCEPT ![e] = last + 1]
    /\ parent' = [parent EXCEPT ![e] = last]
    /\ UNCHANGED told

Tell(e, verdict) ==
    /\ IF verdict = "committed" THEN place[e] # 0 ELSE place[e] = 0
    /\ told' = [told EXCEPT ![e] = @ \cup {verdict}]
    /\ UNCHANGED <<last, place, parent>>

ChainNext ==
    \E e \in Executions :
        \/ Publish(e)
        \/ \E v \in {"committed", "absent"} : Tell(e, v)

ChainSpec == ChainInit /\ [][ChainNext]_chainVars
=============================================================================
