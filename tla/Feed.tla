-------------------------------- MODULE Feed --------------------------------
(***************************************************************************)
(* What the outbox promises its listeners: an event is announced only      *)
(* after the change it reports is committed, at least once before it is    *)
(* settled, perhaps more often, and never again after that.                *)
(***************************************************************************)
EXTENDS Naturals

CONSTANT Events

VARIABLES
  phase,      (* Whether the change is committed and its event settled.      *)
  announced   (* How often the event went out.                               *)

vars == <<phase, announced>>

Init ==
  /\ phase = [e \in Events |-> "unborn"]
  /\ announced = [e \in Events |-> 0]

Appear(e) ==
  /\ phase[e] = "unborn"
  /\ phase' = [phase EXCEPT ![e] = "pending"]
  /\ UNCHANGED announced

Announce(e) ==
  /\ phase[e] = "pending"
  /\ announced' = [announced EXCEPT ![e] = @ + 1]
  /\ UNCHANGED phase

(* A publisher settles a batch of events in one step.                        *)
Settle(batch) ==
  /\ \A e \in batch : phase[e] = "pending" /\ announced[e] > 0
  /\ phase' = [e \in Events |-> IF e \in batch THEN "settled" ELSE phase[e]]
  /\ UNCHANGED announced

Next ==
  \/ \E e \in Events : Appear(e) \/ Announce(e)
  \/ \E batch \in SUBSET Events : Settle(batch)

Spec == Init /\ [][Next]_vars
=============================================================================
