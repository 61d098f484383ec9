--------------------------- MODULE ReminderPromise ---------------------------
(***************************************************************************)
(* What the reminders promise, without scanners, leases, jobs, workers,    *)
(* crashes or maintenance.  A delivery is armed while the user wants it,   *)
(* and ends in exactly one way: withdrawn (and perhaps armed again),       *)
(* expired, or committed to at a moment when it is still wanted; only a    *)
(* committed delivery is ever handed to SMTP, and at most once.            *)
(***************************************************************************)
EXTENDS Naturals

CONSTANT Deliveries   (* The delivery identities (rule, cycle).              *)

VARIABLES
  wanted,   (* Deliveries the note, its rules and its schedule ask for now.  *)
  phase,    (* The life of each delivery.                                    *)
  sends     (* How often each delivery was handed to SMTP.                   *)

vars == <<wanted, phase, sends>>

Phases == {"unborn", "armed", "withdrawn", "expired", "committed", "concluded"}

TypeOK ==
  /\ wanted \subseteq Deliveries
  /\ phase \in [Deliveries -> Phases]
  /\ sends \in [Deliveries -> {0, 1}]

Init ==
  /\ wanted = {}
  /\ phase = [d \in Deliveries |-> "unborn"]
  /\ sends = [d \in Deliveries |-> 0]

(* The ways one delivery may go in a step.                                   *)
Moves ==
  {<<"unborn", "armed">>, <<"unborn", "withdrawn">>, <<"unborn", "expired">>,
   <<"withdrawn", "armed">>, <<"armed", "withdrawn">>, <<"armed", "expired">>,
   <<"armed", "committed">>, <<"committed", "concluded">>}

(* An edit changes what is wanted and disarms, in the same step, everything  *)
(* that no longer is; a scan or a worker expires or commits; maintenance and *)
(* workers conclude.  Several deliveries may move at once.                   *)
Move ==
  /\ phase' \in [Deliveries -> Phases]
  /\ \A d \in Deliveries :
       \/ phase'[d] = phase[d]
       \/ <<phase[d], phase'[d]>> \in Moves
  /\ \A d \in Deliveries : phase'[d] = "armed" => d \in wanted'
  /\ \A d \in Deliveries :
       phase[d] = "armed" /\ phase'[d] = "committed" => d \in wanted /\ d \in wanted'
  /\ wanted' \subseteq Deliveries
  /\ sends' = sends

(* The attempt may come late: its worker may be declared lost before.        *)
Send(d) ==
  /\ phase[d] \in {"committed", "concluded"}
  /\ sends[d] = 0
  /\ sends' = [sends EXCEPT ![d] = 1]
  /\ UNCHANGED <<wanted, phase>>

Next == Move \/ \E d \in Deliveries : Send(d)

Spec == Init /\ [][Next]_vars
=============================================================================
