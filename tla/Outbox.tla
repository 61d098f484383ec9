------------------------------- MODULE Outbox -------------------------------
(***************************************************************************)
(* The transactional outbox: mutations write events in their transactions, *)
(* periodic tasks that may overlap lock a batch of committed events, send  *)
(* each to Redis while they hold the locks and record the outcome when     *)
(* they commit.  A task may die at any point; its transaction is then      *)
(* rolled back, but what Redis has accepted stays sent.                    *)
(*                                                                         *)
(* Events are numbered in the order of (created_at, id), the start of the  *)
(* transaction that writes them; they may commit in another order.         *)
(***************************************************************************)
EXTENDS Integers, FiniteSets, FiniteSetsExt

CONSTANTS
  Events,        (* The numbers of the events.                               *)
  Publishers,    (* Runs of app.jobs.publish_outbox that may overlap.        *)
  BatchLimit,    (* limit of publish_batch.                                  *)
  Cap,           (* The longest retry delay (60).                            *)
  MaxExponent,   (* The largest exponent of the delay (6).                   *)
  MaxFaults      (* Bound: faults per event that may duplicate it.           *)

ASSUME OutboxAssumption ==
  /\ Events \subseteq Nat /\ IsFiniteSet(Events)
  /\ BatchLimit \in Nat \ {0} /\ Cap \in Nat \ {0}
  /\ MaxExponent \in Nat /\ MaxFaults \in Nat

VARIABLES
  row,      (* outbox_events; "none" and "aborted" stand for no row.         *)
  pub,      (* The transaction of each publisher.                            *)
  sent,     (* History: messages Redis accepted per event.                   *)
  faults    (* History: of these, the ones whose outcome was not recorded.   *)

vars == <<row, pub, sent, faults>>

(* attempts stops at MaxExponent + 1: more make no difference to the delay.  *)
(* wait is the time until next_attempt_at.                                   *)
Rows == [state: {"none", "open", "aborted", "pending", "published", "deleted"},
         attempts: 0 .. MaxExponent + 1, wait: 0 .. Cap, error: BOOLEAN]

(* age is the time since the task read the clock, as far as it matters.      *)
Transactions == [busy: BOOLEAN, todo: SUBSET Events, ok: SUBSET Events,
                 failed: SUBSET Events, age: 0 .. Cap]

Idle == [busy |-> FALSE, todo |-> {}, ok |-> {}, failed |-> {}, age |-> 0]

AtMost(a, b) == IF a < b THEN a ELSE b
AtLeast(a, b) == IF a > b THEN a ELSE b

-----------------------------------------------------------------------------
(* Mutations (add_event and the OutboxEvent rows of the delivery worker).    *)

Begin(e) ==
  /\ row[e].state = "none"
  /\ \A f \in Events : f < e => row[f].state # "none"
  /\ row' = [row EXCEPT ![e].state = "open"]
  /\ UNCHANGED <<pub, sent, faults>>

End(e) ==
  /\ row[e].state = "open"
  /\ \E state \in {"pending", "aborted"} : row' = [row EXCEPT ![e].state = state]
  /\ UNCHANGED <<pub, sent, faults>>

-----------------------------------------------------------------------------
(* Publication (jobs/outbox.py). *)

(* Operators named Bad... are faulty forms of the definition that follows    *)
(* them, kept to show which property would notice; nothing uses them.        *)
(* The rows a publisher holds locks on until its transaction ends.           *)
Held(p) == pub[p].todo \cup pub[p].ok \cup pub[p].failed

Locked == UNION {Held(p) : p \in Publishers}

BadDue(e) == row[e].state = "pending" /\ ~row[e].error

Due(e) == row[e].state = "pending" /\ row[e].wait = 0

BadOffer == {e \in Events : Due(e)}

(* WHERE ... FOR UPDATE SKIP LOCKED.                                         *)
Offer == {e \in Events : Due(e) /\ e \notin Locked}

(* ORDER BY created_at, id LIMIT BatchLimit.                                 *)
First(events) == {e \in events : Cardinality({f \in events : f < e}) < BatchLimit}

StartBatch(p) ==
  /\ ~pub[p].busy
  /\ Offer # {}
  /\ pub' = [pub EXCEPT ![p] = [Idle EXCEPT !.busy = TRUE, !.todo = First(Offer)]]
  /\ UNCHANGED <<row, sent, faults>>

(* The row the loop is at.                                                   *)
Current(p, e) == e \in pub[p].todo /\ \A f \in pub[p].todo : e <= f

(* publish returns: Redis has the message.                                   *)
Accept(p, e) ==
  /\ Current(p, e)
  /\ sent' = [sent EXCEPT ![e] = @ + 1]
  /\ pub' = [pub EXCEPT ![p].todo = @ \ {e}, ![p].ok = @ \cup {e}]
  /\ UNCHANGED <<row, faults>>

(* publish raises and Redis does not have the message.                       *)
Refuse(p, e) ==
  /\ Current(p, e)
  /\ pub' = [pub EXCEPT ![p].todo = @ \ {e}, ![p].failed = @ \cup {e}]
  /\ UNCHANGED <<row, sent, faults>>

(* publish raises, a timeout for instance, but Redis has the message.        *)
LoseReply(p, e) ==
  /\ Current(p, e)
  /\ faults[e] < MaxFaults
  /\ sent' = [sent EXCEPT ![e] = @ + 1]
  /\ faults' = [faults EXCEPT ![e] = @ + 1]
  /\ pub' = [pub EXCEPT ![p].todo = @ \ {e}, ![p].failed = @ \cup {e}]
  /\ UNCHANGED row

(* 2 ** n; a recursive function, which can be reasoned about.                *)
TwoTo[n \in 0 .. MaxExponent] == IF n = 0 THEN 1 ELSE 2 * TwoTo[n - 1]

BadDelay(attempts) == TwoTo[AtMost(attempts - 1, MaxExponent)]

Delay(attempts) == AtMost(Cap, TwoTo[AtMost(attempts - 1, MaxExponent)])

Published(r) ==
  [r EXCEPT !.state = "published", !.attempts = AtMost(@ + 1, MaxExponent + 1),
            !.wait = 0, !.error = FALSE]

(* next_attempt_at counts from the clock the task read before its loop.      *)
Postponed(r, age) ==
  [r EXCEPT !.attempts = AtMost(@ + 1, MaxExponent + 1),
            !.wait = AtLeast(0, Delay(r.attempts + 1) - age), !.error = TRUE]

BadOutcome(p, e) ==
  IF e \in pub[p].ok \cup pub[p].failed THEN Published(row[e]) ELSE row[e]

(* What the transaction of p writes to the row of e.                         *)
Outcome(p, e) ==
  IF e \in pub[p].ok THEN Published(row[e])
  ELSE IF e \in pub[p].failed THEN Postponed(row[e], pub[p].age)
  ELSE row[e]

Commit(p) ==
  /\ pub[p].busy
  /\ pub[p].todo = {}
  /\ row' = [e \in Events |-> Outcome(p, e)]
  /\ pub' = [pub EXCEPT ![p] = Idle]
  /\ UNCHANGED <<sent, faults>>

(* The task dies, or its commit fails: everything it wrote is rolled back.   *)
Crash(p) ==
  /\ pub[p].busy
  /\ \A e \in pub[p].ok : faults[e] < MaxFaults
  /\ pub' = [pub EXCEPT ![p] = Idle]
  /\ faults' = [e \in Events |-> IF e \in pub[p].ok THEN faults[e] + 1 ELSE faults[e]]
  /\ UNCHANGED <<row, sent>>

-----------------------------------------------------------------------------
(* maintain() deletes rows published more than 30 days ago.                  *)
Forget(e) ==
  /\ row[e].state = "published"
  /\ row' = [row EXCEPT ![e].state = "deleted"]
  /\ UNCHANGED <<pub, sent, faults>>

Tick ==
  /\ row' = [e \in Events |-> [row[e] EXCEPT !.wait = AtLeast(0, @ - 1)]]
  /\ pub' = [p \in Publishers |->
               IF pub[p].busy THEN [pub[p] EXCEPT !.age = AtMost(Cap, @ + 1)] ELSE pub[p]]
  /\ UNCHANGED <<sent, faults>>

-----------------------------------------------------------------------------
Init ==
  /\ row = [e \in Events |-> [state |-> "none", attempts |-> 0, wait |-> 0, error |-> FALSE]]
  /\ pub = [p \in Publishers |-> Idle]
  /\ sent = [e \in Events |-> 0]
  /\ faults = [e \in Events |-> 0]

PublishStep(p) ==
  \/ StartBatch(p)
  \/ \E e \in Events : Accept(p, e) \/ Refuse(p, e) \/ LoseReply(p, e)
  \/ Commit(p)
  \/ Crash(p)

Next ==
  \/ \E e \in Events : Begin(e) \/ End(e) \/ Forget(e)
  \/ \E p \in Publishers : PublishStep(p)
  \/ Tick

Spec == Init /\ [][Next]_vars

(* Beat starts publishers for ever, time passes, not every task dies before  *)
(* it commits, and Redis does not refuse the same event for ever.            *)
Fairness ==
  /\ WF_vars(Tick)
  /\ \A p \in Publishers :
       /\ WF_vars(StartBatch(p))
       /\ SF_vars(Commit(p))
       /\ \A e \in Events : SF_vars(Accept(p, e))

FairSpec == Spec /\ Fairness

-----------------------------------------------------------------------------
(* Properties. *)

(* Every variable holds values of its type; in particular no retry waits     *)
(* longer than the cap.                                                      *)
TypeOK ==
  /\ row \in [Events -> Rows]
  /\ pub \in [Publishers -> Transactions]
  /\ sent \in [Events -> Nat]
  /\ faults \in [Events -> Nat]

(* background.md, "A crash after Redis accepted an event and before commit   *)
(* can duplicate it": nothing else can.  Every message but one is due to a   *)
(* crash or a lost reply, however many publishers overlap and retry.         *)
OneMessagePerFault == \A e \in Events : sent[e] <= 1 + faults[e]

(* Every committed event is published, although tasks die and Redis fails.   *)
CommittedIsPublished ==
  \A e \in Events : row[e].state = "pending" ~> row[e].state \in {"published", "deleted"}

PhaseOf(state) ==
  CASE state \in {"none", "open", "aborted"} -> "unborn"
    [] state = "pending" -> "pending"
    [] state \in {"published", "deleted"} -> "settled"

TheFeed == INSTANCE Feed WITH
  phase <- [e \in Events |-> PhaseOf(row[e].state)],
  announced <- sent

(* The outbox behaves as Feed says: only committed events go out, what is    *)
(* marked published went out, and what is published never goes out again.    *)
KeepsFeed == TheFeed!Spec
=============================================================================
