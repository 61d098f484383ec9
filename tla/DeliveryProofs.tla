---------------------------- MODULE DeliveryProofs -----------------------------
(***************************************************************************)
(* What Reminders shows of its deliveries, for every value of the          *)
(* constants: it implements ReminderPromise, notifications agree with      *)
(* their rows, a purge is final, and no deadline is mailed twice.          *)
(***************************************************************************)
EXTENDS ReminderProofs

Phase == [d \in Deliveries |-> PhaseOf(delivery[d])]

(* Only a send touches the history of sends.                                 *)
LEMMA OnlySendCalls ==
  ASSUME [Next]_vars
  PROVE  UNCHANGED calls \/ \E w \in Workers : Send(w)
<1>1. ASSUME NEW n, NEW wanted, NEW changed, Commit(n, wanted, changed)
      PROVE  UNCHANGED calls
  BY <1>1 DEF Commit, smtpVars
<1>2. CASE Edit
  BY <1>1, <1>2 DEF Edit, CreateNote, UpdateNote, DeleteNote, RestoreNote
<1>3. CASE LockNote \/ Rollback \/ PurgeNote \/ ClassifyUnknown \/ Tick \/ UNCHANGED vars
  BY <1>3 DEF LockNote, Rollback, PurgeNote, ClassifyUnknown, Tick, vars, smtpVars
<1>4. ASSUME NEW s \in Scanners, ScanStep(s) \/ ScanCrash(s)
      PROVE  UNCHANGED calls
  BY <1>4 DEF ScanStep, StartScan, ClaimBatch, Enqueue, NextBatch, ScanCrash, smtpVars
<1>5. ASSUME NEW w \in Workers, TakeJob(w) \/ Authorize(w) \/ Record(w) \/ WorkerCrash(w)
      PROVE  UNCHANGED calls
  BY <1>5 DEF TakeJob, Authorize, Record, WorkerCrash, smtpVars
<1> QED
  BY <1>2, <1>3, <1>4, <1>5 DEF Next, WorkerStep

(* The phase of a row is a phase of the promise.                             *)
LEMMA PhaseIsPhase ==
  ASSUME NEW r, r.state \in States
  PROVE  PhaseOf(r) \in Promise!Phases
BY DEF PhaseOf, States, Live, Outcomes, Promise!Phases

(* Which rows are in the two phases the promise constrains.                  *)
LEMMA PhaseStates ==
  ASSUME NEW r, r.state \in States
  PROVE  /\ PhaseOf(r) = "armed" <=> r.state \in Live
         /\ PhaseOf(r) = "committed" <=> r.state = "attempt_started"
         /\ PhaseOf(r) = "concluded" <=> r.state \in Outcomes
BY DEF PhaseOf, States, Live, Outcomes

(* A step of any kind takes a row along the moves of the promise, and only a *)
(* row that is wanted, and stays so, from armed to committed.                *)
LEMMA RowsMove ==
  ASSUME TypeOK, TypeOK', UnbornBeyondCycle, ArmedInv, [Next]_vars, NEW d \in Deliveries
  PROVE  LET p == PhaseOf(delivery[d])
             q == PhaseOf(delivery'[d])
         IN  /\ q = p \/ <<p, q>> \in Promise!Moves
             /\ p = "armed" /\ q = "committed" => d \in Wanted /\ d \in Wanted'
<1> DEFINE r == delivery[d]
           new == delivery'[d]
<1>1. r.state \in States /\ new.state \in States
  BY DEF TypeOK, Row
<1>2. ASSUME NEW n, NEW wanted, NEW changed, Commit(n, wanted, changed)
      PROVE  /\ PhaseOf(new) = PhaseOf(r) \/ <<PhaseOf(r), PhaseOf(new)>> \in Promise!Moves
             /\ ~(PhaseOf(r) = "armed" /\ PhaseOf(new) = "committed")
  <2>1. CASE new.state = r.state
    <3>1. PhaseOf(new) = PhaseOf(r)
      BY <2>1 DEF PhaseOf
    <3> QED
      BY <3>1
  <2>2. CASE r.state \in Live \cup {"cancelled"} /\ new.state \in {"pending", "cancelled"}
    BY <2>2 DEF PhaseOf, Live, Outcomes, Promise!Moves
  <2>3. CASE r.state = "absent" /\ new.state \in {"pending", "cancelled", "missed"}
    BY <2>3 DEF PhaseOf, Live, Outcomes, Promise!Moves
  <2> QED
    BY <1>2, <2>1, <2>2, <2>3, CommitMoves
<1>3. CASE Edit
  BY <1>2, <1>3 DEF Edit, CreateNote, UpdateNote, DeleteNote, RestoreNote
<1>4. CASE QuietNote /\ RowStep(d)
  <2>1. CASE new.state = r.state
    <3>1. PhaseOf(new) = PhaseOf(r)
      BY <2>1 DEF PhaseOf
    <3> QED
      BY <3>1
  <2>2. CASE r.state \in Live /\ new.state \in {"pending", "claimed", "missed", "cancelled"}
    BY <2>2 DEF PhaseOf, Live, Outcomes, Promise!Moves
  <2>3. CASE r.state \in Live /\ new.state = "attempt_started" /\ d \in Wanted
    <3>1. d \in Wanted'
      BY <1>4, <2>3 DEF QuietNote, Wanted, MayRemind
    <3> QED
      BY <2>3, <3>1 DEF PhaseOf, Live, Outcomes, Promise!Moves
  <2>4. CASE r.state = "attempt_started" /\ new.state \in Outcomes
    BY <2>4 DEF PhaseOf, Live, Outcomes, Promise!Moves
  <2> QED
    BY <1>4, <2>1, <2>2, <2>3, <2>4, RowStepMoves DEF RowMove, TypeOK, Row
<1> QED
  BY <1>3, <1>4, QuietSteps

LEMMA PromiseInit == Init => Promise!Init
<1> SUFFICES ASSUME Init PROVE Promise!Init
  OBVIOUS
<1>1. Wanted = {}
  BY DeliveryParts DEF Init, Wanted
<1>2. [d \in Deliveries |-> PhaseOf(delivery[d])] = [d \in Deliveries |-> "unborn"]
  <2>1. \A d \in Deliveries : delivery[d].state = "absent"
    BY DEF Init, Absent
  <2>2. \A d \in Deliveries : PhaseOf(delivery[d]) = "unborn"
    BY <2>1 DEF PhaseOf, Live, Outcomes
  <2> QED
    BY <2>2
<1> QED
  BY <1>1, <1>2 DEF Promise!Init, Init

LEMMA PromiseNext ==
  ASSUME AttemptInv, ArmedInv, AttemptInv', ArmedInv', [Next]_vars
  PROVE  [Promise!Next]_(Promise!vars)
<1>1. TypeOK /\ TypeOK' /\ UnbornBeyondCycle
  BY DEF AttemptInv
<1>2. \A d \in Deliveries : delivery[d].state \in States /\ delivery'[d].state \in States
  BY <1>1 DEF TypeOK, Row
<1>3. CASE UNCHANGED calls
  <2>1. Phase' \in [Deliveries -> Promise!Phases]
    BY <1>2, PhaseIsPhase DEF Phase
  <2>2. \A d \in Deliveries : \/ Phase'[d] = Phase[d]
                              \/ <<Phase[d], Phase'[d]>> \in Promise!Moves
    BY <1>1, RowsMove DEF Phase
  <2>3. \A d \in Deliveries : Phase'[d] = "armed" => d \in Wanted'
    <3>1. \A d \in Deliveries : Phase'[d] = "armed" => delivery'[d].state \in Live
      BY <1>2, PhaseStates DEF Phase
    <3> QED
      BY <3>1 DEF ArmedInv, ArmedIsCurrent, Wanted
  <2>4. \A d \in Deliveries :
          Phase[d] = "armed" /\ Phase'[d] = "committed" => d \in Wanted /\ d \in Wanted'
    BY <1>1, RowsMove DEF Phase
  <2>5. Wanted' \subseteq Deliveries
    BY DEF Wanted
  <2> QED
    BY <1>3, <2>1, <2>2, <2>3, <2>4, <2>5 DEF Phase, Promise!Next, Promise!Move
<1>4. ASSUME NEW w \in Workers, Send(w)
      PROVE  [Promise!Next]_(Promise!vars)
  <2> DEFINE d == RowOf(w)
  <2>1. d \in Deliveries /\ worker[w].pc = "send"
    BY <1>1, <1>4 DEF RowOf, TypeOK, WorkerState, Job, Send
  <2>2. UNCHANGED <<rules, note, delivery>>
    BY <1>4 DEF Send, noteVars, rowVars
  <2>3. UNCHANGED <<Wanted, Phase>>
    BY <2>2 DEF Wanted, MayRemind, Phase
  <2>4. calls' = calls \/ calls' = [calls EXCEPT ![d] = @ + 1]
    BY <1>4 DEF Send, RowOf, smtpVars
  <2>5. calls[d] = 0 /\ delivery[d].state \in {"attempt_started", "unknown"}
    BY <2>1 DEF AttemptInv, SenderIsFirst
  <2>6. Phase[d] \in {"committed", "concluded"}
    BY <1>2, <2>1, <2>5, PhaseStates DEF Phase, Outcomes
  <2> HIDE DEF d
  <2>7. CASE calls' = calls
    BY <2>3, <2>7 DEF Promise!vars, Phase
  <2>8. CASE calls' = [calls EXCEPT ![d] = @ + 1]
    <3>1. calls' = [calls EXCEPT ![d] = 1]
      BY <2>5, <2>8
    <3>2. Promise!Send(d)
      BY <2>3, <2>5, <2>6, <3>1 DEF Promise!Send, Phase
    <3> QED
      BY <2>1, <3>2 DEF Promise!Next
  <2> QED
    BY <2>4, <2>7, <2>8
<1> QED
  BY <1>3, <1>4, OnlySendCalls

(* Seen from the note's side, reminders behave as ReminderPromise says: each *)
(* step of a handler, scanner, worker or maintenance run is a step of the    *)
(* promise or changes nothing the promise speaks of.                         *)
THEOREM PromiseIsKept == Spec => KeepsPromise
<1>1. Init => Promise!Init
  BY PromiseInit
<1>2. AttemptInv /\ ArmedInv /\ AttemptInv' /\ ArmedInv' /\ [Next]_vars
        => [Promise!Next]_(Promise!vars)
  BY PromiseNext
<1>3. Spec => [](AttemptInv /\ ArmedInv)
  <2>1. AttemptInv => TypeOK
    BY DEF AttemptInv
  <2> QED
    BY <2>1, AttemptInit, AttemptNext, ArmedInit, ArmedNext, PTL DEF Spec
<1> QED
  BY <1>1, <1>2, <1>3, PTL DEF Spec, KeepsPromise, Promise!Spec

-----------------------------------------------------------------------------

Bad(r) == r.state \in {"failed", "unknown"}

(* A delivery, its notification and its events agree; the words of a note    *)
(* live in notifications only; after a purge there are none left.            *)
Matched(d) ==
  /\ notice[d].exists <=> delivery[d].authorized # Unset
  /\ notice[d].prefixed <=> Bad(delivery[d]) /\ note.status # "purged"
  /\ events[d] = (IF notice[d].exists THEN 1 ELSE 0) + (IF Bad(delivery[d]) THEN 1 ELSE 0)
  /\ notice[d].words => notice[d].exists
  /\ note.status = "purged" =>
       ~delivery[d].snapshot /\ ~notice[d].words /\ delivery[d].state # "attempt_started"

NoticeInv == \A d \in Deliveries : Matched(d)

-----------------------------------------------------------------------------
(* What a step does to a delivery, its notification and its events together. *)

(* No attempt begins or ends.                                                *)
Apart(d) ==
  /\ notice'[d] = notice[d] /\ events'[d] = events[d]
  /\ delivery'[d].authorized = delivery[d].authorized
  /\ delivery'[d].snapshot = delivery[d].snapshot
  /\ \/ delivery'[d].state = delivery[d].state
     \/ delivery[d].state \notin Started /\ delivery'[d].state \notin Started
  /\ note'.status = "purged" <=> note.status = "purged"

(* A worker passes the boundary.                                             *)
Begins(d) ==
  /\ delivery[d].state = "claimed" /\ delivery'[d].state = "attempt_started"
  /\ delivery'[d].authorized # Unset
  /\ notice'[d] = [exists |-> TRUE, words |-> TRUE, prefixed |-> FALSE]
  /\ events'[d] = events[d] + 1
  /\ note.status = "kept" /\ note'.status = "kept"

(* A worker or maintenance records the result of an attempt.                 *)
Ends(d) ==
  /\ delivery[d].state = "attempt_started"
  /\ delivery'[d].state \in Outcomes
  /\ delivery'[d].authorized = delivery[d].authorized
  /\ IF delivery'[d].state = "sent"
     THEN notice'[d] = notice[d] /\ events'[d] = events[d]
     ELSE notice'[d] = Prefixed(notice[d]) /\ events'[d] = events[d] + 1
  /\ note'.status = note.status

LEMMA ApartKeeps ==
  ASSUME TypeOK, NEW d \in Deliveries, Matched(d), Apart(d)
  PROVE  Matched(d)'
<1>1. Bad(delivery'[d]) <=> Bad(delivery[d])
  BY DEF Apart, Bad, Started, Outcomes
<1>2. delivery'[d].state = "attempt_started" <=> delivery[d].state = "attempt_started"
  BY DEF Apart, Started
<1> QED
  BY <1>1, <1>2 DEF Apart, Matched

LEMMA BeginningKeeps ==
  ASSUME TypeOK, NEW d \in Deliveries, Shaped(delivery[d]), Matched(d), Begins(d)
  PROVE  Matched(d)'
<1>1. delivery[d].authorized = Unset
  BY Shapes DEF Begins, Blank
<1>2. ~Bad(delivery[d]) /\ ~Bad(delivery'[d])
  BY DEF Begins, Bad
<1>3. ~notice[d].exists /\ events[d] = 0
  BY <1>1, <1>2 DEF Matched
<1>4. notice'[d].exists /\ notice'[d].words /\ ~notice'[d].prefixed /\ events'[d] = 1
  BY <1>3 DEF Begins
<1> QED
  BY <1>2, <1>4 DEF Begins, Matched

LEMMA EndingKeeps ==
  ASSUME TypeOK, NEW d \in Deliveries, Shaped(delivery[d]), Matched(d), Ends(d)
  PROVE  Matched(d)'
<1>1. delivery[d].authorized # Unset
  BY Shapes DEF Ends
<1>2. ~Bad(delivery[d]) /\ note.status # "purged"
  BY DEF Ends, Bad, Matched
<1>3. notice[d].exists /\ ~notice[d].prefixed /\ events[d] = 1
  BY <1>1, <1>2 DEF Matched
<1>4. notice[d] \in Notice
  BY DEF TypeOK
<1>5. CASE delivery'[d].state = "sent"
  <2>1. ~Bad(delivery'[d])
    BY <1>5 DEF Bad
  <2> QED
    BY <1>1, <1>2, <1>3, <1>5, <2>1 DEF Ends, Matched
<1>6. CASE delivery'[d].state # "sent"
  <2>1. Bad(delivery'[d])
    BY <1>6 DEF Ends, Bad, Outcomes
  <2>2. notice'[d].exists /\ notice'[d].prefixed /\ notice'[d].words = notice[d].words
    BY <1>3, <1>4, <1>6 DEF Ends, Prefixed, Notice
  <2>3. events'[d] = 2
    BY <1>3, <1>6 DEF Ends
  <2> QED
    BY <1>1, <1>2, <2>1, <2>2, <2>3 DEF Ends, Matched
<1> QED
  BY <1>5, <1>6

LEMMA PurgingKeeps ==
  ASSUME TypeOK, NEW d \in Deliveries, Shaped(delivery[d]), Matched(d), PurgeNote
  PROVE  Matched(d)'
<1> DEFINE r == delivery[d]
           new == delivery'[d]
<1>1. r \in Row /\ notice[d] \in Notice
  BY DEF TypeOK
<1>2. new.state = r.state /\ new.authorized = r.authorized /\ ~new.snapshot
  BY <1>1 DEF PurgeNote, Row
<1>3. r.state # "attempt_started" /\ note.status = "trash" /\ note'.status = "purged"
  BY DEF PurgeNote, TypeOK, Notes
<1>4. events'[d] = events[d]
  BY DEF PurgeNote
<1>5. CASE notice[d].exists
  <2>1. notice'[d].exists /\ ~notice'[d].words /\ ~notice'[d].prefixed
    BY <1>1, <1>5 DEF PurgeNote, Notice
  <2> QED
    BY <1>2, <1>3, <1>4, <1>5, <2>1 DEF Matched, Bad
<1>6. CASE ~notice[d].exists
  <2>1. notice'[d] = notice[d]
    BY <1>6 DEF PurgeNote
  <2>2. ~notice[d].words /\ r.authorized = Unset
    BY <1>6 DEF Matched
  <2>3. ~Bad(r) /\ ~notice[d].prefixed
    BY <2>2, Shapes DEF Matched, Bad, Outcomes
  <2>4. ~Bad(new) /\ events'[d] = 0
    BY <1>2, <1>4, <1>6, <2>3 DEF Matched, Bad
  <2> QED
    BY <1>2, <1>3, <1>6, <2>1, <2>2, <2>3, <2>4 DEF Matched
<1> QED
  BY <1>5, <1>6

-----------------------------------------------------------------------------
(* Each action is one of these steps for each delivery. *)

LEMMA CommitStaysApart ==
  ASSUME TypeOK, UnbornBeyondCycle, NEW n, NEW wanted, NEW changed,
         Commit(n, wanted, changed), note.status # "purged", n.status # "purged",
         NEW d \in Deliveries, Shaped(delivery[d])
  PROVE  Apart(d)
<1> DEFINE r == delivery[d]
           o == d[1]
           cycle == rules[o].cycle
           new == delivery'[d]
<1>1. new = ReconciledRow(d, n, wanted, changed, lockedAt)
  BY DEF Commit, Reconcile
<1>2. r \in Row /\ cycle \in Nat /\ d[2] \in Nat
  BY DeliveryParts, BoundsAssumption DEF TypeOK
<1>3. \/ new = r
      \/ new = NewDelivery(n, o, lockedAt) /\ d[2] = cycle + 1
      \/ new = Refreshed(r, n, o, lockedAt)
      \/ new = Withdrawn(r)
  BY <1>1, Zenon DEF ReconciledRow
<1>4. ASSUME new = NewDelivery(n, o, lockedAt), d[2] = cycle + 1
      PROVE  new.authorized = r.authorized /\ new.snapshot = r.snapshot
  <2>1. r = Absent
    <3>1. r.state = "absent"
      BY <1>2, <1>4 DEF UnbornBeyondCycle
    <3> QED
      BY <3>1, Shapes
  <2> QED
    BY <1>4, <2>1 DEF NewDelivery, Closed, Reopened, Absent
<1>5. Withdrawn(r).authorized = r.authorized /\ Withdrawn(r).snapshot = r.snapshot
  BY <1>2 DEF Withdrawn, Closed, Row
<1>6. /\ Refreshed(r, n, o, lockedAt).authorized = r.authorized
      /\ Refreshed(r, n, o, lockedAt).snapshot = r.snapshot
  BY <1>2, <1>5 DEF Refreshed, Reopened, Row
<1>7. new.authorized = r.authorized /\ new.snapshot = r.snapshot
  BY <1>3, <1>4, <1>5, <1>6
<1>8. new.state = r.state \/ (r.state \notin Started /\ new.state \notin Started)
  BY CommitMoves DEF Started, Outcomes, Live
<1>9. notice' = notice /\ events' = events /\ note' = n
  BY DEF Commit
<1> QED
  BY <1>7, <1>8, <1>9 DEF Apart

LEMMA AuthorizeBegins ==
  ASSUME TypeOK, NEW w \in Workers, Authorize(w), NEW d \in Deliveries
  PROVE  Apart(d) \/ Begins(d)
<1> DEFINE e == RowOf(w)
           r == delivery[e]
           v == Verdict(w)
<1>1. e \in Deliveries /\ r \in Row
  BY DEF TypeOK, WorkerState, Job, RowOf
<1>2. note' = note
  BY DEF Authorize, noteVars
<1>3. CASE ~HoldsClaim(w)
  <2>1. delivery' = delivery /\ UNCHANGED <<notice, events>>
    BY <1>1, <1>3 DEF Authorize, TypeOK, RowOf
  <2> QED
    BY <1>2, <2>1 DEF Apart
<1>4. CASE HoldsClaim(w) /\ v.state # "attempt_started"
  <2>1. /\ delivery' = [delivery EXCEPT ![e] = v]
        /\ UNCHANGED <<notice, events>>
    BY <1>4 DEF Authorize, RowOf
  <2>2. r.state = "claimed"
    BY <1>4 DEF HoldsClaim, RowOf
  <2>3. v \in {Closed(r, "cancelled"), Reopened(r), Closed(r, "missed")}
    <3>1. Authorized(r, worker[w].at).state = "attempt_started"
      BY <1>1 DEF Authorized, Row
    <3> QED
      BY <1>4, <3>1 DEF Verdict, RowOf
  <2>4. /\ v.authorized = r.authorized /\ v.snapshot = r.snapshot
        /\ v.state \in {"cancelled", "pending", "missed"}
    <3> HIDE DEF v, r
    <3> QED
      BY <1>1, <2>3 DEF Closed, Reopened, Row
  <2>5. delivery'[d] = IF d = e THEN v ELSE delivery[d]
    BY <1>1, <2>1 DEF TypeOK
  <2> HIDE DEF v, e
  <2> QED
    BY <1>2, <2>1, <2>2, <2>4, <2>5 DEF Apart, Started, Outcomes
<1>5. CASE HoldsClaim(w) /\ v.state = "attempt_started"
  <2>1. /\ delivery' = [delivery EXCEPT ![e] = v]
        /\ notice' = [notice EXCEPT ![e] = [exists |-> TRUE, words |-> TRUE, prefixed |-> FALSE]]
        /\ events' = [events EXCEPT ![e] = @ + 1]
    BY <1>5 DEF Authorize, RowOf
  <2>2. r.state = "claimed"
    BY <1>5 DEF HoldsClaim, RowOf
  <2>3. worker[w].at \in Time
    BY DEF TypeOK, WorkerState
  <2>4. v = Authorized(r, worker[w].at) /\ Eligible(w)
    <3>1. /\ Closed(r, "cancelled").state = "cancelled" /\ Reopened(r).state = "pending"
          /\ Closed(r, "missed").state = "missed"
      BY <1>1 DEF Closed, Reopened, Row
    <3> QED
      BY <1>5, <3>1 DEF Verdict, RowOf
  <2>5. v.authorized # Unset
    BY <1>1, <2>3, <2>4, ReadingsAreTimes DEF Authorized, Row
  <2>6. note.status = "kept"
    BY <2>4 DEF Eligible, MayRemind
  <2>7. CASE d = e
    <3>1. delivery'[d] = v /\ events'[d] = events[d] + 1
          /\ notice'[d] = [exists |-> TRUE, words |-> TRUE, prefixed |-> FALSE]
      BY <1>1, <2>1, <2>7 DEF TypeOK
    <3> HIDE DEF v, e
    <3> QED
      BY <1>2, <1>5, <2>2, <2>5, <2>6, <2>7, <3>1 DEF Begins
  <2>8. CASE d # e
    <3>1. delivery'[d] = delivery[d] /\ events'[d] = events[d] /\ notice'[d] = notice[d]
      BY <1>1, <2>1, <2>8 DEF TypeOK
    <3> QED
      BY <1>2, <3>1 DEF Apart
  <2> QED
    BY <2>7, <2>8
<1> QED
  BY <1>3, <1>4, <1>5

LEMMA ConcludingEnds ==
  ASSUME TypeOK, NEW d \in Deliveries, delivery[d].state = "attempt_started",
         NEW result \in Outcomes, delivery'[d] = Concluded(delivery[d], result),
         IF result = "sent"
         THEN notice'[d] = notice[d] /\ events'[d] = events[d]
         ELSE notice'[d] = Prefixed(notice[d]) /\ events'[d] = events[d] + 1,
         note' = note
  PROVE  Ends(d)
<1>1. delivery'[d].state = result /\ delivery'[d].authorized = delivery[d].authorized
  BY DEF TypeOK, Concluded, Row
<1> QED
  BY <1>1 DEF Ends

LEMMA RecordEnds ==
  ASSUME TypeOK, NEW w \in Workers, Record(w), NEW d \in Deliveries
  PROVE  Apart(d) \/ Ends(d)
<1> DEFINE e == RowOf(w)
           result == ResultOf(worker[w].report)
<1>1. e \in Deliveries /\ result \in Outcomes
  BY DEF TypeOK, WorkerState, Job, RowOf, ResultOf, Outcomes
<1>2. note' = note
  BY DEF Record, noteVars
<1>3. CASE delivery[e].state # "attempt_started" \/ d # e
  <2>1. delivery'[d] = delivery[d] /\ notice'[d] = notice[d] /\ events'[d] = events[d]
    BY <1>1, <1>3 DEF Record, RowOf, rowVars, TypeOK
  <2> QED
    BY <1>2, <2>1 DEF Apart
<1>4. CASE delivery[e].state = "attempt_started" /\ d = e
  <2>1. delivery' = [delivery EXCEPT ![e] = Concluded(@, result)]
    BY <1>4 DEF Record, RowOf
  <2>2. delivery'[d] = Concluded(delivery[d], result)
    BY <1>1, <1>4, <2>1 DEF TypeOK
  <2>3. IF result = "sent"
        THEN notice'[d] = notice[d] /\ events'[d] = events[d]
        ELSE notice'[d] = Prefixed(notice[d]) /\ events'[d] = events[d] + 1
    BY <1>1, <1>4 DEF Record, RowOf, TypeOK
  <2> HIDE DEF e, result
  <2> QED
    BY <1>1, <1>2, <1>4, <2>2, <2>3, ConcludingEnds
<1> QED
  BY <1>3, <1>4

LEMMA ClassifyEnds ==
  ASSUME TypeOK, ClassifyUnknown, NEW d \in Deliveries
  PROVE  Apart(d) \/ Ends(d)
<1>1. PICK batch \in SUBSET {e \in Deliveries : delivery[e].state = "attempt_started"} :
        /\ delivery' = [e \in Deliveries |->
                          IF e \in batch THEN Concluded(delivery[e], "unknown") ELSE delivery[e]]
        /\ notice' = [e \in Deliveries |-> IF e \in batch THEN Prefixed(notice[e]) ELSE notice[e]]
        /\ events' = [e \in Deliveries |-> events[e] + (IF e \in batch THEN 1 ELSE 0)]
  BY DEF ClassifyUnknown, Batches, Stale
<1>2. note' = note
  BY DEF ClassifyUnknown, noteVars
<1>3. CASE d \in batch
  <2>1. /\ delivery'[d] = Concluded(delivery[d], "unknown")
        /\ notice'[d] = Prefixed(notice[d]) /\ events'[d] = events[d] + 1
    BY <1>1, <1>3
  <2>2. delivery[d].state = "attempt_started" /\ "unknown" \in Outcomes /\ "unknown" # "sent"
    BY <1>3 DEF Outcomes
  <2> QED
    BY <1>2, <2>1, <2>2, ConcludingEnds
<1>4. CASE d \notin batch
  <2>1. delivery'[d] = delivery[d] /\ notice'[d] = notice[d]
    BY <1>1, <1>4
  <2>2. events'[d] = events[d] /\ events[d] \in Nat
    BY <1>1, <1>4 DEF TypeOK
  <2> QED
    BY <1>2, <2>1, <2>2 DEF Apart
<1> QED
  BY <1>3, <1>4

LEMMA ClaimStaysApart ==
  ASSUME TypeOK, NEW s \in Scanners, ClaimBatch(s), NEW d \in Deliveries
  PROVE  Apart(d)
<1>1. note' = note /\ notice' = notice /\ events' = events
  BY DEF ClaimBatch, noteVars
<1>2. delivery[d] \in Row
  BY DEF TypeOK
<1>3. \/ delivery'[d] = delivery[d]
      \/ /\ delivery[d].state \in Live
         /\ \/ delivery'[d] = Claimed(delivery[d], scan[s].now)
            \/ delivery'[d] = Closed(delivery[d], "missed")
  <2>1. PICK batch \in SUBSET {e \in Deliveries : Claimable(e, scan[s].now)} :
          delivery' = [e \in Deliveries |->
                         IF e \in {x \in batch : ~TooLate(x, scan[s].now)}
                         THEN Claimed(delivery[e], scan[s].now)
                         ELSE IF e \in batch THEN Closed(delivery[e], "missed")
                         ELSE delivery[e]]
    BY DEF ClaimBatch, Batches, Lockable
  <2>2. d \in batch => delivery[d].state \in Live
    BY DEF Claimable, Live
  <2> QED
    BY <2>1, <2>2
<1>4. /\ delivery'[d].authorized = delivery[d].authorized
      /\ delivery'[d].snapshot = delivery[d].snapshot
  BY <1>2, <1>3 DEF Claimed, Closed, Row
<1>5. delivery'[d] = delivery[d]
      \/ (delivery[d].state \in Live /\ delivery'[d].state \in {"claimed", "missed"})
  BY <1>2, <1>3 DEF Claimed, Closed, Row
<1> QED
  BY <1>1, <1>4, <1>5 DEF Apart, Started, Outcomes, Live

-----------------------------------------------------------------------------
(* The invariant. *)

LEMMA NoticeInit == Init => NoticeInv
<1> SUFFICES ASSUME Init, NEW d \in Deliveries PROVE Matched(d)
  BY DEF NoticeInv
<1>1. delivery[d] = Absent /\ notice[d] = NoNotice /\ events[d] = 0 /\ note.status = "none"
  BY DEF Init
<1> QED
  BY <1>1 DEF Matched, Bad, Absent, NoNotice

LEMMA NoticeNext ==
  AttemptInv /\ DeliveryShape /\ NoticeInv /\ [Next]_vars => NoticeInv'
<1> SUFFICES ASSUME AttemptInv, DeliveryShape, NoticeInv, [Next]_vars, NEW d \in Deliveries
             PROVE  Matched(d)'
  BY DEF NoticeInv
<1>1. TypeOK /\ UnbornBeyondCycle /\ Shaped(delivery[d]) /\ Matched(d)
  BY DEF AttemptInv, DeliveryShape, NoticeInv
<1>2. CASE Edit
  <2>1. note.status # "purged"
    BY <1>2 DEF Edit, CreateNote, UpdateNote, DeleteNote, RestoreNote
  <2>2. PICK n, wanted, changed : Commit(n, wanted, changed) /\ n.status # "purged"
    <3>1. ASSUME NEW starts, NEW active, NEW wanted, CreateNote(starts, active, wanted)
          PROVE  \E n, x, changed : Commit(n, x, changed) /\ n.status # "purged"
      <4> DEFINE new == [status |-> "kept", active |-> active, starts |-> starts,
                         deletedAt |-> Unset]
      <4>1. Commit(new, wanted, FALSE) /\ new.status # "purged"
        BY <3>1 DEF CreateNote
      <4> HIDE DEF new
      <4> QED
        BY <4>1
    <3>2. ASSUME NEW starts, NEW active, NEW wanted, UpdateNote(starts, active, wanted)
          PROVE  \E n, x, changed : Commit(n, x, changed) /\ n.status # "purged"
      <4>1. [note EXCEPT !.starts = starts, !.active = active].status = "kept"
        BY <1>1, <3>2 DEF UpdateNote, TypeOK, Notes
      <4> QED
        BY <3>2, <4>1 DEF UpdateNote
    <3>3. CASE DeleteNote
      <4>1. [note EXCEPT !.status = "trash", !.deletedAt = lockedAt].status = "trash"
        BY <1>1 DEF TypeOK, Notes
      <4> QED
        BY <3>3, <4>1 DEF DeleteNote
    <3>4. CASE RestoreNote
      <4>1. [note EXCEPT !.status = "kept", !.deletedAt = Unset].status = "kept"
        BY <1>1 DEF TypeOK, Notes
      <4> QED
        BY <3>4, <4>1 DEF RestoreNote
    <3> QED
      BY <1>2, <3>1, <3>2, <3>3, <3>4 DEF Edit
  <2>3. Apart(d)
    BY <1>1, <2>1, <2>2, CommitStaysApart
  <2> QED
    BY <1>1, <2>3, ApartKeeps
<1>3. CASE PurgeNote
  BY <1>1, <1>3, PurgingKeeps
<1>4. ASSUME NEW s \in Scanners, ClaimBatch(s)
      PROVE  Matched(d)'
  BY <1>1, <1>4, ClaimStaysApart, ApartKeeps
<1>5. ASSUME NEW w \in Workers, Authorize(w)
      PROVE  Matched(d)'
  BY <1>1, <1>5, AuthorizeBegins, ApartKeeps, BeginningKeeps
<1>6. ASSUME NEW w \in Workers, Record(w)
      PROVE  Matched(d)'
  BY <1>1, <1>6, RecordEnds, ApartKeeps, EndingKeeps
<1>7. CASE ClassifyUnknown
  BY <1>1, <1>7, ClassifyEnds, ApartKeeps, EndingKeeps
<1>8. CASE UNCHANGED <<note, delivery, notice, events>>
  BY <1>1, <1>8, ApartKeeps DEF Apart
<1>9. ASSUME NEW w \in Workers, TakeJob(w) \/ Send(w) \/ WorkerCrash(w)
      PROVE  UNCHANGED <<note, delivery, notice, events>>
  BY <1>9 DEF TakeJob, Send, WorkerCrash, noteVars, rowVars
<1>10. ASSUME NEW s \in Scanners, StartScan(s) \/ Enqueue(s) \/ NextBatch(s) \/ ScanCrash(s)
       PROVE  UNCHANGED <<note, delivery, notice, events>>
  BY <1>10 DEF StartScan, Enqueue, NextBatch, ScanCrash, noteVars, rowVars
<1>11. CASE LockNote \/ Rollback \/ Tick \/ UNCHANGED vars
  BY <1>8, <1>11 DEF LockNote, Rollback, Tick, vars, noteVars, rowVars
<1> QED
  BY <1>2, <1>3, <1>4, <1>5, <1>6, <1>7, <1>8, <1>9, <1>10, <1>11 DEF Next, ScanStep, WorkerStep

LEMMA NoticeAlways == Spec => [](AttemptInv /\ DeliveryShape /\ NoticeInv)
BY AttemptInit, AttemptNext, TypeInit, ShapeInit, ShapeNext, NoticeInit, NoticeNext, PTL
   DEF Spec, AttemptInv

(* Exactly the authorized deliveries have a notification; a failure is shown *)
(* on it and announced once more, and never twice, whoever records it.       *)
THEOREM NoticesAgree == Spec => []NoticeMatchesRow
<1>1. NoticeInv => NoticeMatchesRow
  BY DEF NoticeInv, Matched, Bad, NoticeMatchesRow
<1> QED
  BY <1>1, NoticeAlways, PTL

(* After a purge no delivery and no notification holds the note's words, and *)
(* no row is left from which a scan, a worker or maintenance could bring     *)
(* them back.                                                                *)
THEOREM PurgesAreFinal == Spec => []PurgeIsFinal
<1>1. NoticeInv /\ ArmedIsCurrent => PurgeIsFinal
  BY DEF NoticeInv, Matched, ArmedIsCurrent, MayRemind, PurgeIsFinal
<1> QED
  BY <1>1, NoticeAlways, OnlyCurrentIsArmed, PTL

-----------------------------------------------------------------------------
(* One mail per deadline, where all processes read one clock. *)

(* No worker decides by a reading of the future.                             *)
ReadingsArePast == \A w \in Workers : worker[w].at <= clock

(* What was begun was due, and due when the lock on the note was granted: no *)
(* worker passes a handler that holds it.                                    *)
StartedWasDue ==
  \A d \in Deliveries :
    delivery[d].state \in Started =>
      delivery[d].due <= clock /\ (lockedAt # Free => delivery[d].due <= lockedAt)

(* A deadline that was begun is neither armed nor begun in another cycle.    *)
NoSecondChance ==
  \A d, e \in Deliveries :
    /\ d # e /\ d[1] = e[1]
    /\ delivery[e].state \in Started /\ delivery[d].state \in Live \cup Started
    => delivery[d].due # delivery[e].due

DeadlineInv == ReadingsArePast /\ StartedWasDue /\ NoSecondChance

LEMMA CommitArmsAhead ==
  ASSUME TypeOK, UnbornBeyondCycle, ArmedIsCurrent', NEW n \in Notes, NEW wanted, NEW changed,
         Commit(n, wanted, changed), NEW d \in Deliveries
  PROVE  /\ delivery[d].state \in Started => delivery'[d] = delivery[d]
         /\ delivery'[d].state \in Started => delivery[d].state \in Started
         /\ delivery'[d].state \in Live =>
              delivery'[d] = delivery[d] \/ delivery'[d].due > lockedAt
<1> DEFINE r == delivery[d]
           o == d[1]
           cycle == rules[o].cycle
           new == delivery'[d]
<1>1. r \in Row /\ cycle \in Nat /\ d[2] \in Nat
  BY DeliveryParts, BoundsAssumption DEF TypeOK
<1>2. \/ new = r
      \/ new = NewDelivery(n, o, lockedAt) /\ d[2] = cycle + 1
      \/ new = Refreshed(r, n, o, lockedAt)
      \/ new = Withdrawn(r)
  <2>1. new = ReconciledRow(d, n, wanted, changed, lockedAt)
    BY DEF Commit, Reconcile
  <2> QED
    BY <2>1, Zenon DEF ReconciledRow
<1>3. lockedAt \in Int /\ DueAt(n, o) \in Int
  <2>1. lockedAt \in Int
    BY ReadingsAreTimes DEF TypeOK, Free
  <2> QED
    BY <2>1, DeliveryParts DEF DueAt, Notes
<1>4. CASE new = NewDelivery(n, o, lockedAt) /\ d[2] = cycle + 1
  <2>1. r.state = "absent"
    BY <1>1, <1>4 DEF UnbornBeyondCycle
  <2>2. /\ new.state \in {"pending", "cancelled", "missed"}
        /\ new.state = "pending" => new.due > lockedAt
    BY <1>3, <1>4 DEF NewDelivery, Closed, Reopened, Absent
  <2> QED
    BY <2>1, <2>2 DEF Started, Outcomes, Live
<1>5. Withdrawn(r) = r \/ (r.state \in Live /\ Withdrawn(r).state = "cancelled")
  BY <1>1 DEF Withdrawn, Closed, Row
<1>6. CASE new = Withdrawn(r)
  BY <1>5, <1>6 DEF Started, Outcomes, Live
<1>7. CASE new = Refreshed(r, n, o, lockedAt)
  <2>1. CASE r.state \in Live \cup {"cancelled"} /\ MayRemind(n) /\ DueAt(n, o) > lockedAt
    <3>1. new = Reopened(r)
      BY <1>7, <2>1 DEF Refreshed
    <3>2. new.state = "pending" /\ r.state \notin Started
      BY <1>1, <2>1, <3>1 DEF Reopened, Row, Live, Started, Outcomes
    <3>3. new.due = DueAt(n, o)
      <4>1. note' = n
        BY DEF Commit
      <4> QED
        BY <3>2, <4>1 DEF ArmedIsCurrent, Live, DueAt
    <3> QED
      BY <2>1, <3>2, <3>3 DEF Started, Outcomes
  <2>2. CASE ~(r.state \in Live \cup {"cancelled"} /\ MayRemind(n) /\ DueAt(n, o) > lockedAt)
    BY <1>6, <1>7, <2>2 DEF Refreshed
  <2> QED
    BY <2>1, <2>2
<1> QED
  BY <1>2, <1>4, <1>6, <1>7

LEMMA CommitKeepsDeadlines ==
  ASSUME TypeOK, UnbornBeyondCycle, ArmedIsCurrent', DeadlineInv, NEW n \in Notes, NEW wanted,
         NEW changed, Commit(n, wanted, changed)
  PROVE  DeadlineInv'
<1>1. /\ lockedAt # Free /\ lockedAt' = Free /\ clock' = clock /\ worker' = worker
      /\ lockedAt \in Int
  BY ReadingsAreTimes DEF Commit, TypeOK, Free
<1>2. ReadingsArePast'
  BY <1>1 DEF DeadlineInv, ReadingsArePast
<1>3. StartedWasDue'
  BY <1>1, CommitArmsAhead DEF DeadlineInv, StartedWasDue
<1>4. ASSUME NEW d \in Deliveries, NEW e \in Deliveries, d # e, d[1] = e[1],
             delivery'[e].state \in Started, delivery'[d].state \in Live \cup Started
      PROVE  delivery'[d].due # delivery'[e].due
  <2>1. delivery'[e] = delivery[e] /\ delivery[e].state \in Started
    BY <1>4, CommitArmsAhead
  <2>2. delivery[e].due <= lockedAt /\ delivery[e].due \in Int
    BY <1>1, <2>1 DEF DeadlineInv, StartedWasDue, TypeOK, Row
  <2>3. CASE delivery'[d] = delivery[d]
    BY <1>4, <2>1, <2>3 DEF DeadlineInv, NoSecondChance
  <2>4. CASE delivery'[d].due > lockedAt
    BY <1>1, <2>1, <2>2, <2>4
  <2> QED
    BY <1>4, <2>3, <2>4, CommitArmsAhead
<1> QED
  BY <1>2, <1>3, <1>4 DEF DeadlineInv, NoSecondChance

(* A step that is no edit and begins nothing, and what it does to time.      *)
LEMMA OnlyAuthorizeStarts ==
  ASSUME TypeOK, [Next]_vars
  PROVE  \/ Edit
         \/ \E w \in Workers : Authorize(w)
         \/ \A d \in Deliveries : delivery'[d].state \in Started => delivery[d].state \in Started
<1> DEFINE Calm == \A d \in Deliveries :
                     delivery'[d].state \in Started => delivery[d].state \in Started
<1>1. ASSUME \A d \in Deliveries : Apart(d) \/ Ends(d)
      PROVE  Calm
  BY <1>1 DEF Apart, Ends, Started
<1>2. CASE UNCHANGED delivery
  BY <1>2
<1>3. CASE PurgeNote
  <2>1. \A d \in Deliveries : delivery'[d].state = delivery[d].state
    BY <1>3 DEF PurgeNote, TypeOK, Row
  <2> QED
    BY <2>1
<1>4. ASSUME NEW s \in Scanners, ClaimBatch(s)
      PROVE  Calm
  BY <1>1, <1>4, ClaimStaysApart
<1>5. ASSUME NEW w \in Workers, Record(w)
      PROVE  Calm
  BY <1>1, <1>5, RecordEnds
<1>6. CASE ClassifyUnknown
  BY <1>1, <1>6, ClassifyEnds
<1>7. ASSUME NEW w \in Workers, TakeJob(w) \/ Send(w) \/ WorkerCrash(w)
      PROVE  UNCHANGED delivery
  BY <1>7 DEF TakeJob, Send, WorkerCrash, rowVars
<1>8. ASSUME NEW s \in Scanners, StartScan(s) \/ Enqueue(s) \/ NextBatch(s) \/ ScanCrash(s)
      PROVE  UNCHANGED delivery
  BY <1>8 DEF StartScan, Enqueue, NextBatch, ScanCrash, rowVars
<1>9. CASE LockNote \/ Rollback \/ Tick \/ UNCHANGED vars
  BY <1>2, <1>9 DEF LockNote, Rollback, Tick, vars, rowVars
<1> QED
  BY <1>2, <1>3, <1>4, <1>5, <1>6, <1>7, <1>8, <1>9 DEF Next, ScanStep, WorkerStep

(* With one clock, every reading is the present.                             *)
LEMMA TimePasses ==
  ASSUME TypeOK, ReadingsArePast, Skew = 0, [Next]_vars
  PROVE  /\ clock' \in Nat /\ clock' >= clock
         /\ lockedAt' \in {lockedAt, Free, clock}
         /\ ReadingsArePast'
<1>1. clock \in Nat /\ IdleWorker.at = 0
  BY BoundsAssumption DEF TypeOK, Time, IdleWorker
<1>2. \A t \in Now : t = clock
  BY <1>1, ReadingsAreTimes DEF Now, Time
<1> DEFINE Still == clock' = clock
           Held == lockedAt' \in {lockedAt, Free, clock}
           Past == \A w \in Workers : worker'[w].at <= clock
<1>3. CASE UNCHANGED worker
  <2>1. Past
    BY <1>3 DEF ReadingsArePast
  <2>2. Still \/ Tick
    BY <1>3 DEF Next, vars, LockNote, Rollback, PurgeNote, ClassifyUnknown, Edit, CreateNote,
       UpdateNote, DeleteNote, RestoreNote, Commit, ScanStep, StartScan, ClaimBatch, Enqueue,
       NextBatch, ScanCrash, WorkerStep, TakeJob, Authorize, Send, Record, WorkerCrash
  <2>3. Held
    <3>1. LockNote => Held
      BY <1>2 DEF LockNote
    <3> QED
      BY <3>1 DEF Next, vars, noteVars, Rollback, PurgeNote, ClassifyUnknown, Tick, Edit,
         CreateNote, UpdateNote, DeleteNote, RestoreNote, Commit, ScanStep, StartScan, ClaimBatch,
         Enqueue, NextBatch, ScanCrash, WorkerStep, TakeJob, Authorize, Send, Record, WorkerCrash
  <2>4. clock' \in Nat /\ clock' >= clock
    BY <1>1, <2>2 DEF Tick
  <2>5. worker' = worker /\ \A w \in Workers : worker[w].at \in Nat
    BY <1>3, ReadingsAreTimes DEF TypeOK, WorkerState
  <2> QED
    BY <1>1, <2>3, <2>4, <2>5 DEF ReadingsArePast
<1>4. ASSUME NEW w \in Workers, WorkerStep(w) \/ WorkerCrash(w)
      PROVE  Still /\ Held /\ Past
  <2>1. Still /\ Held
    BY <1>4 DEF WorkerStep, TakeJob, Authorize, Send, Record, WorkerCrash, noteVars
  <2>2. \A v \in Workers : v # w => worker'[v] = worker[v]
    BY <1>4 DEF WorkerStep, TakeJob, Authorize, Send, Record, WorkerCrash, TypeOK
  <2>3. worker[w].at <= clock /\ worker[w] \in WorkerState
    BY DEF ReadingsArePast, TypeOK
  <2>4. worker'[w].at \in {worker[w].at, clock, 0}
    BY <1>1, <1>2, <1>4, <2>3 DEF WorkerStep, TakeJob, Authorize, Send, Record, WorkerCrash,
       TypeOK, WorkerState
  <2>5. worker'[w].at <= clock
    BY <1>1, <2>3, <2>4
  <2> QED
    BY <2>1, <2>2, <2>5 DEF ReadingsArePast
<1>5. (\E w \in Workers : WorkerStep(w) \/ WorkerCrash(w)) \/ UNCHANGED worker
  BY DEF Next, vars, LockNote, Rollback, PurgeNote, ClassifyUnknown, Tick, Edit, CreateNote,
     UpdateNote, DeleteNote, RestoreNote, Commit, ScanStep, StartScan, ClaimBatch, Enqueue,
     NextBatch, ScanCrash
<1> QED
  BY <1>1, <1>3, <1>4, <1>5 DEF ReadingsArePast

LEMMA AuthorizedIsDue ==
  ASSUME TypeOK, NEW w \in Workers, Authorize(w), NEW d \in Deliveries,
         delivery'[d].state \in Started
  PROVE  \/ delivery[d].state \in Started
         \/ delivery[d].state \in Live /\ delivery[d].due <= worker[w].at
<1> DEFINE r == delivery[d]
<1>1. r \in Row /\ worker[w].at \in Nat
  BY ReadingsAreTimes DEF TypeOK, WorkerState
<1>2. CASE delivery'[d] = r
  BY <1>2
<1>3. CASE delivery'[d] # r
  <2>1. d = worker[w].job.row /\ HoldsClaim(w) /\ delivery'[d] = Verdict(w)
    BY <1>3 DEF Authorize, TypeOK
  <2>2. r.state = "claimed"
    BY <2>1 DEF HoldsClaim
  <2>3. /\ Closed(r, "cancelled").state = "cancelled" /\ Reopened(r).state = "pending"
        /\ Closed(r, "missed").state = "missed"
    BY <1>1 DEF Closed, Reopened, Row
  <2>4. ~(r.due > worker[w].at)
    BY <2>1, <2>3 DEF Verdict, Started, Outcomes
  <2> QED
    BY <1>1, <2>2, <2>4 DEF Row, Live
<1> QED
  BY <1>2, <1>3

LEMMA QuietStepsKeepDeadlines ==
  ASSUME TypeOK, ArmedIsCurrent, DeadlineInv, Skew = 0, [Next]_vars,
         \A d \in Deliveries : RowStep(d), ~Edit
  PROVE  DeadlineInv'
<1>1. /\ clock \in Int /\ clock' \in Int /\ clock' >= clock
      /\ lockedAt' \in {lockedAt, Free, clock} /\ ReadingsArePast'
  <2>1. clock \in Int
    BY BoundsAssumption DEF TypeOK, Time
  <2> QED
    BY <2>1, TimePasses DEF DeadlineInv
<1>2. \A d \in Deliveries : delivery[d].due \in Int
  BY DEF TypeOK, Row
<1>3. \A d \in Deliveries :
        /\ delivery'[d].due = delivery[d].due
        /\ delivery'[d].state \in Live \cup Started => delivery[d].state \in Live \cup Started
  <2> SUFFICES ASSUME NEW d \in Deliveries
               PROVE  /\ delivery'[d].due = delivery[d].due
                      /\ delivery'[d].state \in Live \cup Started
                           => delivery[d].state \in Live \cup Started
    OBVIOUS
  <2>1. RowMove(d) /\ delivery[d] \in Row
    BY RowStepMoves DEF TypeOK
  <2> QED
    BY <2>1 DEF RowMove, Row, Live, Started, Outcomes
<1>4. CASE \A d \in Deliveries : delivery'[d].state \in Started => delivery[d].state \in Started
  <2>1. StartedWasDue'
    BY <1>1, <1>2, <1>3, <1>4 DEF DeadlineInv, StartedWasDue
  <2>2. NoSecondChance'
    BY <1>3, <1>4 DEF DeadlineInv, NoSecondChance
  <2> QED
    BY <1>1, <2>1, <2>2 DEF DeadlineInv
<1>5. ASSUME NEW w \in Workers, Authorize(w)
      PROVE  DeadlineInv'
  <2>1. lockedAt' = Free /\ clock' = clock
    BY <1>5 DEF Authorize, noteVars
  <2>2. \A d \in Deliveries :
          delivery'[d].state \in Started =>
            \/ delivery[d].state \in Started
            \/ delivery[d].state \in Live /\ delivery[d].due <= worker[w].at
    BY <1>5, AuthorizedIsDue
  <2>3. worker[w].at <= clock /\ worker[w].at \in Int
    <3>1. worker[w].at \in Nat
      BY ReadingsAreTimes DEF TypeOK, WorkerState
    <3> QED
      BY <3>1 DEF DeadlineInv, ReadingsArePast
  <2>4. StartedWasDue'
    BY <1>1, <1>2, <1>3, <2>1, <2>2, <2>3 DEF DeadlineInv, StartedWasDue
  <2>5. ASSUME NEW d \in Deliveries, NEW e \in Deliveries, d # e, d[1] = e[1],
               delivery'[e].state \in Started, delivery'[d].state \in Live \cup Started
        PROVE  delivery[d].due # delivery[e].due
    <3>1. CASE delivery[e].state \in Started
      BY <1>3, <2>5, <3>1 DEF DeadlineInv, NoSecondChance
    <3>2. CASE delivery[e].state \in Live
      <4>1. delivery[d].state \notin Live
        <5>1. d[2] # e[2]
          BY <2>5 DEF Deliveries
        <5> QED
          BY <2>5, <3>2, <5>1 DEF ArmedIsCurrent
      <4>2. delivery[d].state \in Started
        BY <1>3, <2>5, <4>1
      <4> QED
        BY <2>5, <3>2, <4>2 DEF DeadlineInv, NoSecondChance
    <3> QED
      BY <2>2, <2>5, <3>1, <3>2
  <2>6. NoSecondChance'
    BY <1>3, <2>5 DEF NoSecondChance
  <2> QED
    BY <1>1, <2>4, <2>6 DEF DeadlineInv
<1> QED
  BY <1>4, <1>5, OnlyAuthorizeStarts

LEMMA DeadlineInit == Init => DeadlineInv
<1> SUFFICES ASSUME Init PROVE DeadlineInv
  OBVIOUS
<1>1. \A d \in Deliveries : delivery[d].state = "absent"
  BY DEF Init, Absent
<1>2. \A w \in Workers : worker[w].at = 0
  BY DEF Init, IdleWorker
<1> QED
  BY <1>1, <1>2 DEF Init, DeadlineInv, ReadingsArePast, StartedWasDue, NoSecondChance, Started,
     Outcomes

LEMMA DeadlineNext ==
  ASSUME Skew = 0
  PROVE  AttemptInv /\ ArmedInv /\ DeadlineInv /\ [Next]_vars => DeadlineInv'
<1> SUFFICES ASSUME AttemptInv, ArmedInv, DeadlineInv, [Next]_vars PROVE DeadlineInv'
  OBVIOUS
<1>1. TypeOK /\ UnbornBeyondCycle /\ TypeOK' /\ ArmedIsCurrent /\ ArmedIsCurrent'
  BY TypeNext, ArmedNext DEF AttemptInv, ArmedInv
<1>2. CASE Edit
  <2>1. \E n, wanted, changed : Commit(n, wanted, changed)
    BY <1>2 DEF Edit, CreateNote, UpdateNote, DeleteNote, RestoreNote
  <2>2. PICK n, wanted, changed : Commit(n, wanted, changed)
    BY <2>1
  <2>3. n \in Notes
    BY <1>1, <2>2 DEF Commit, TypeOK
  <2> QED
    BY <1>1, <2>2, <2>3, CommitKeepsDeadlines
<1>3. CASE ~Edit
  BY <1>1, <1>3, QuietSteps, QuietStepsKeepDeadlines
<1> QED
  BY <1>2, <1>3

(* Where all processes read one clock, no deadline of an offset is mailed in *)
(* two cycles, whatever edits move the note away and back or remove and add  *)
(* the offset again, and whatever is enqueued late or twice.                 *)
THEOREM DeadlinesMailOnce ==
  ASSUME Skew = 0
  PROVE  Spec => []OneMailPerDeadline
<1>1. AttemptInv /\ ArmedInv /\ DeadlineInv /\ [Next]_vars => DeadlineInv'
  BY DeadlineNext
<1>2. AttemptInv /\ DeadlineInv => OneMailPerDeadline
  <2> SUFFICES ASSUME AttemptInv, DeadlineInv, NEW d \in Deliveries, NEW e \in Deliveries,
                      d # e, d[1] = e[1], calls[d] > 0, calls[e] > 0
               PROVE  delivery[d].due # delivery[e].due
    BY DEF OneMailPerDeadline
  <2>1. calls[d] # 0 /\ calls[e] # 0
    BY DEF AttemptInv, TypeOK
  <2>2. delivery[d].state \in Started /\ delivery[e].state \in Started
    BY <2>1 DEF AttemptInv, CallsFollowState
  <2> QED
    BY <2>2 DEF DeadlineInv, NoSecondChance
<1>3. AttemptInv => TypeOK
  BY DEF AttemptInv
<1> QED
  BY <1>1, <1>2, <1>3, AttemptInit, AttemptNext, ArmedInit, ArmedNext, DeadlineInit, PTL DEF Spec

-----------------------------------------------------------------------------
(* Mails within the grace of their deadlines, whatever clocks lag. *)

(* An attempt that was begun was begun in time.                              *)
BegunInTime ==
  \A d \in Deliveries :
    delivery[d].state \in Started =>
      /\ delivery[d].due <= delivery[d].authorized
      /\ delivery[d].authorized <= delivery[d].due + Grace
      /\ delivery[d].authorized <= clock

TimeInv == ReadingsArePast /\ BegunInTime

(* Clocks lag but never run ahead.                                           *)
LEMMA ReadingsStayPast ==
  ASSUME TypeOK, ReadingsArePast, [Next]_vars
  PROVE  /\ clock \in Nat /\ clock' \in Nat /\ clock' >= clock
         /\ ReadingsArePast'
<1>1. clock \in Nat /\ IdleWorker.at = 0
  BY BoundsAssumption DEF TypeOK, Time, IdleWorker
<1>2. \A t \in Now : t \in Nat /\ t <= clock
  BY ReadingsAreTimes DEF Now
<1>3. clock' \in Nat /\ clock' >= clock
  <2>1. clock' = clock \/ Tick
    BY DEF Next, vars, LockNote, Rollback, PurgeNote, ClassifyUnknown, Edit, CreateNote,
       UpdateNote, DeleteNote, RestoreNote, Commit, ScanStep, StartScan, ClaimBatch, Enqueue,
       NextBatch, ScanCrash, WorkerStep, TakeJob, Authorize, Send, Record, WorkerCrash
  <2> QED
    BY <1>1, <2>1 DEF Tick
<1>4. \A w \in Workers : worker[w].at \in Nat /\ worker[w] \in WorkerState
  BY ReadingsAreTimes DEF TypeOK, WorkerState
<1>5. CASE UNCHANGED worker
  BY <1>1, <1>3, <1>4, <1>5 DEF ReadingsArePast
<1>6. ASSUME NEW w \in Workers, WorkerStep(w) \/ WorkerCrash(w)
      PROVE  ReadingsArePast'
  <2>1. \A v \in Workers : v # w => worker'[v] = worker[v]
    BY <1>6 DEF WorkerStep, TakeJob, Authorize, Send, Record, WorkerCrash, TypeOK
  <2>2. worker'[w].at \in {worker[w].at, 0} \/ worker'[w].at \in Now
    BY <1>1, <1>4, <1>6 DEF WorkerStep, TakeJob, Authorize, Send, Record, WorkerCrash,
       TypeOK, WorkerState
  <2>3. worker'[w].at \in Nat /\ worker'[w].at <= clock
    BY <1>1, <1>2, <1>4, <2>2 DEF ReadingsArePast
  <2> QED
    BY <1>1, <1>3, <1>4, <2>1, <2>3 DEF ReadingsArePast
<1>7. (\E w \in Workers : WorkerStep(w) \/ WorkerCrash(w)) \/ UNCHANGED worker
  BY DEF Next, vars, LockNote, Rollback, PurgeNote, ClassifyUnknown, Tick, Edit, CreateNote,
     UpdateNote, DeleteNote, RestoreNote, Commit, ScanStep, StartScan, ClaimBatch, Enqueue,
     NextBatch, ScanCrash
<1> QED
  BY <1>1, <1>3, <1>5, <1>6, <1>7

(* What a worker begins, its own reading puts into the window.               *)
LEMMA AuthorizedInTime ==
  ASSUME TypeOK, NEW w \in Workers, Authorize(w), NEW d \in Deliveries,
         delivery'[d].state \in Started
  PROVE  \/ delivery'[d] = delivery[d]
         \/ /\ delivery'[d].authorized = worker[w].at
            /\ delivery'[d].due <= worker[w].at /\ worker[w].at <= delivery'[d].due + Grace
<1> DEFINE r == delivery[d]
<1>1. r \in Row /\ r.due \in Int /\ worker[w].at \in Nat /\ Grace \in Nat
  BY ReadingsAreTimes, TimesAssumption DEF TypeOK, WorkerState, Row
<1>2. SUFFICES ASSUME delivery'[d] # r
      PROVE  /\ delivery'[d].authorized = worker[w].at
             /\ delivery'[d].due <= worker[w].at /\ worker[w].at <= delivery'[d].due + Grace
  OBVIOUS
<1>3. d = worker[w].job.row /\ delivery'[d] = Verdict(w)
  BY <1>2 DEF Authorize, TypeOK
<1>4. /\ Closed(r, "cancelled").state = "cancelled" /\ Reopened(r).state = "pending"
      /\ Closed(r, "missed").state = "missed"
  BY <1>1 DEF Closed, Reopened, Row
<1>5. /\ delivery'[d] = Authorized(r, worker[w].at)
      /\ ~(r.due > worker[w].at) /\ ~(r.due < worker[w].at - Grace)
  BY <1>3, <1>4 DEF Verdict, Started, Outcomes
<1>6. delivery'[d].authorized = worker[w].at /\ delivery'[d].due = r.due
  BY <1>1, <1>5 DEF Authorized, Row
<1> QED
  BY <1>1, <1>5, <1>6

(* Other steps keep what was begun as it was.                                *)
LEMMA BegunStays ==
  ASSUME TypeOK, UnbornBeyondCycle, ArmedIsCurrent', [Next]_vars,
         ~\E w \in Workers : Authorize(w), NEW d \in Deliveries, delivery'[d].state \in Started
  PROVE  /\ delivery[d].state \in Started
         /\ delivery'[d].due = delivery[d].due /\ delivery'[d].authorized = delivery[d].authorized
<1>1. delivery[d] \in Row
  BY DEF TypeOK
<1>2. CASE Edit
  <2>1. \E n, wanted, changed : Commit(n, wanted, changed)
    BY <1>2 DEF Edit, CreateNote, UpdateNote, DeleteNote, RestoreNote
  <2>2. PICK n, wanted, changed : Commit(n, wanted, changed)
    BY <2>1
  <2>3. n \in Notes
    BY <2>2, TypeNext DEF Commit, TypeOK
  <2> QED
    BY <2>2, <2>3, CommitArmsAhead
<1>3. CASE ~Edit
  <2>1. delivery[d].state \in Started
    BY <1>3, OnlyAuthorizeStarts
  <2>2. RowStep(d)
    BY <1>3, QuietSteps
  <2>3. CASE \E state \in Outcomes : delivery'[d] = Concluded(delivery[d], state)
    BY <1>1, <2>1, <2>3 DEF Concluded, Row
  <2>4. CASE delivery'[d] = delivery[d] \/ delivery'[d] = [delivery[d] EXCEPT !.snapshot = FALSE]
    BY <1>1, <2>1, <2>4 DEF Row
  <2> QED
    BY <2>1, <2>2, <2>3, <2>4 DEF RowStep, Started, Outcomes, Live
<1> QED
  BY <1>2, <1>3

LEMMA TimeNext == AttemptInv /\ ArmedInv' /\ TimeInv /\ [Next]_vars => TimeInv'
<1> SUFFICES ASSUME AttemptInv, ArmedInv', TimeInv, [Next]_vars PROVE TimeInv'
  OBVIOUS
<1>1. TypeOK /\ UnbornBeyondCycle /\ ArmedIsCurrent' /\ ReadingsArePast
  BY DEF AttemptInv, ArmedInv, TimeInv
<1>2. clock \in Nat /\ clock' \in Nat /\ clock' >= clock /\ ReadingsArePast'
  BY <1>1, ReadingsStayPast
<1>3. \A d \in Deliveries :
        delivery[d].due \in Int /\ delivery[d].authorized \in Int
  <2>1. Time \cup {Unset} \subseteq Int
    BY BoundsAssumption DEF Time, Unset
  <2>2. \A d \in Deliveries :
          delivery[d].due \in Int /\ delivery[d].authorized \in Time \cup {Unset}
    BY <1>1 DEF TypeOK, Row
  <2> QED
    BY <2>1, <2>2
<1>4. ASSUME NEW d \in Deliveries, delivery'[d].state \in Started
      PROVE  /\ delivery'[d].due <= delivery'[d].authorized
             /\ delivery'[d].authorized <= delivery'[d].due + Grace
             /\ delivery'[d].authorized <= clock'
  <2>1. ASSUME delivery[d].state \in Started, delivery'[d].due = delivery[d].due,
               delivery'[d].authorized = delivery[d].authorized
        PROVE  /\ delivery'[d].due <= delivery'[d].authorized
               /\ delivery'[d].authorized <= delivery'[d].due + Grace
               /\ delivery'[d].authorized <= clock'
    <3>1. /\ delivery[d].due <= delivery[d].authorized
          /\ delivery[d].authorized <= delivery[d].due + Grace
          /\ delivery[d].authorized <= clock
      BY <2>1 DEF TimeInv, BegunInTime
    <3> QED
      BY <1>2, <1>3, <2>1, <3>1
  <2>2. ASSUME NEW w \in Workers, Authorize(w)
        PROVE  /\ delivery'[d].due <= delivery'[d].authorized
               /\ delivery'[d].authorized <= delivery'[d].due + Grace
               /\ delivery'[d].authorized <= clock'
    <3>1. CASE delivery'[d] = delivery[d]
      BY <1>4, <2>1, <3>1
    <3>2. CASE /\ delivery'[d].authorized = worker[w].at
               /\ delivery'[d].due <= worker[w].at /\ worker[w].at <= delivery'[d].due + Grace
      <4>1. worker[w].at <= clock /\ worker[w].at \in Nat
        BY <1>1, ReadingsAreTimes DEF ReadingsArePast, TypeOK, WorkerState
      <4> QED
        BY <1>2, <3>2, <4>1
    <3> QED
      BY <1>1, <1>4, <2>2, <3>1, <3>2, AuthorizedInTime
  <2> QED
    BY <1>1, <1>4, <2>1, <2>2, BegunStays
<1> QED
  BY <1>2, <1>4 DEF TimeInv, BegunInTime

(* No mail is begun before its deadline or later than its grace allows, for  *)
(* any skew of the clocks, and however late a job is taken.                  *)
THEOREM MailsKeepTheirTime == Spec => []MailsAreInTime
<1>1. Init => TimeInv
  <2> SUFFICES ASSUME Init PROVE TimeInv
    OBVIOUS
  <2>1. \A d \in Deliveries : delivery[d].state = "absent"
    BY DEF Init, Absent
  <2>2. \A w \in Workers : worker[w].at = 0
    BY DEF Init, IdleWorker
  <2> QED
    BY <2>1, <2>2 DEF Init, TimeInv, ReadingsArePast, BegunInTime, Started, Outcomes
<1>2. AttemptInv /\ TimeInv => MailsAreInTime
  <2> SUFFICES ASSUME AttemptInv, TimeInv, NEW d \in Deliveries, calls[d] > 0
               PROVE  /\ delivery[d].due <= delivery[d].authorized
                      /\ delivery[d].authorized <= delivery[d].due + Grace
                      /\ delivery[d].authorized <= clock
    BY DEF MailsAreInTime
  <2>1. calls[d] # 0
    BY DEF AttemptInv, TypeOK
  <2>2. delivery[d].state \in Started
    BY <2>1 DEF AttemptInv, CallsFollowState
  <2> QED
    BY <2>2 DEF TimeInv, BegunInTime
<1>3. AttemptInv => TypeOK
  BY DEF AttemptInv
<1> QED
  BY <1>1, <1>2, <1>3, TimeNext, AttemptInit, AttemptNext, ArmedInit, ArmedNext, PTL DEF Spec

-----------------------------------------------------------------------------
(* What makes two promises of the documents fail, and that nothing else does. *)

(* An SMTP session that is reported as rejected did not accept the message.  *)
RejectedIsRefused ==
  \A w \in Workers :
    worker[w].pc = "send" /\ worker'[w].pc = "record" /\ worker'[w].report = "rejected"
      => mailed' = mailed

RecordsRefusals ==
  \A w \in Workers :
    worker[w].pc = "record" /\ ResultOf(worker[w].report) = "failed" => mailed[RowOf(w)] = 0

FailureInv == FailedIsNotMailed /\ RecordsRefusals

(* Only a worker that records a failure makes a delivery fail.               *)
LEMMA OnlyRecordFails ==
  ASSUME AttemptInv, DeliveryShape, [Next]_vars, ~\E w \in Workers : Record(w),
         NEW d \in Deliveries, delivery'[d].state = "failed"
  PROVE  delivery[d].state = "failed"
<1>1. TypeOK /\ UnbornBeyondCycle /\ delivery[d] \in Row
  BY DEF AttemptInv, TypeOK
<1>2. ASSUME NEW n, NEW wanted, NEW changed, Commit(n, wanted, changed)
      PROVE  delivery[d].state = "failed"
  BY <1>1, <1>2, CommitMoves DEF Live
<1>3. CASE Edit
  BY <1>2, <1>3 DEF Edit, CreateNote, UpdateNote, DeleteNote, RestoreNote
<1>4. CASE PurgeNote
  BY <1>1, <1>4 DEF PurgeNote, Row
<1>5. ASSUME NEW s \in Scanners, ClaimBatch(s)
      PROVE  delivery[d].state = "failed"
  BY <1>1, <1>5, ClaimStaysApart DEF Apart, Started, Outcomes
<1>6. ASSUME NEW w \in Workers, Authorize(w)
      PROVE  delivery[d].state = "failed"
  BY <1>1, <1>6, AuthorizeBegins DEF Apart, Begins, Started, Outcomes
<1>7. CASE ClassifyUnknown
  <2>1. PICK batch \in SUBSET {e \in Deliveries : delivery[e].state = "attempt_started"} :
          delivery' = [e \in Deliveries |->
                         IF e \in batch THEN Concluded(delivery[e], "unknown") ELSE delivery[e]]
    BY <1>7 DEF ClassifyUnknown, Batches, Stale
  <2>2. Concluded(delivery[d], "unknown").state = "unknown"
    BY <1>1 DEF Concluded, Row
  <2> QED
    BY <2>1, <2>2
<1>8. ASSUME NEW w \in Workers, TakeJob(w) \/ Send(w) \/ WorkerCrash(w)
      PROVE  UNCHANGED delivery
  BY <1>8 DEF TakeJob, Send, WorkerCrash, rowVars
<1>9. ASSUME NEW s \in Scanners, StartScan(s) \/ Enqueue(s) \/ NextBatch(s) \/ ScanCrash(s)
      PROVE  UNCHANGED delivery
  BY <1>9 DEF StartScan, Enqueue, NextBatch, ScanCrash, rowVars
<1>10. CASE LockNote \/ Rollback \/ Tick \/ UNCHANGED vars
  BY <1>10 DEF LockNote, Rollback, Tick, vars, rowVars
<1> QED
  BY <1>3, <1>4, <1>5, <1>6, <1>7, <1>8, <1>9, <1>10 DEF Next, ScanStep, WorkerStep

LEMMA FailureNext ==
  AttemptInv /\ DeliveryShape /\ FailureInv /\ [Next]_vars /\ [RejectedIsRefused]_vars
    => FailureInv'
<1> SUFFICES ASSUME AttemptInv, DeliveryShape, FailureInv, [Next]_vars, [RejectedIsRefused]_vars
             PROVE  FailureInv'
  OBVIOUS
<1>1. /\ TypeOK /\ mailed \in [Deliveries -> Nat]
      /\ \A w \in Workers : RowOf(w) \in Deliveries /\ worker[w] \in WorkerState
  BY DEF AttemptInv, TypeOK, RowOf, WorkerState, Job
<1>2. ASSUME UNCHANGED mailed, ~\E w \in Workers : Record(w),
             \A w \in Workers : worker'[w] = worker[w] \/ worker'[w].pc # "record"
      PROVE  FailureInv'
  <2>1. FailedIsNotMailed'
    BY <1>2, OnlyRecordFails DEF FailureInv, FailedIsNotMailed
  <2>2. RecordsRefusals'
    BY <1>2 DEF FailureInv, RecordsRefusals, RowOf
  <2> QED
    BY <2>1, <2>2 DEF FailureInv
<1>3. ASSUME NEW w \in Workers, Send(w)
      PROVE  FailureInv'
  <2> DEFINE d == RowOf(w)
  <2>1. /\ d \in Deliveries /\ worker[w].pc = "send" /\ UNCHANGED delivery
        /\ delivery[d].state # "failed" /\ mailed[d] = 0
    BY <1>1, <1>3 DEF Send, RowOf, rowVars, AttemptInv, SenderIsFirst
  <2>2. \A e \in Deliveries : e # d => mailed'[e] = mailed[e]
    BY <1>1, <1>3 DEF Send, RowOf, smtpVars
  <2>3. FailedIsNotMailed'
    BY <2>1, <2>2 DEF FailureInv, FailedIsNotMailed
  <2>4. \A v \in Workers : v # w => worker'[v] = worker[v]
    BY <1>3 DEF Send, AttemptInv, TypeOK
  <2>5. ASSUME NEW v \in Workers, worker'[v].pc = "record",
               ResultOf(worker'[v].report) = "failed"
        PROVE  mailed'[worker'[v].job.row] = 0
    <3>1. CASE v # w
      <4>1. worker'[v] = worker[v] /\ Attempting(v) /\ Attempting(w)
        BY <2>1, <2>4, <2>5, <3>1 DEF Attempting
      <4>2. RowOf(v) # d /\ RowOf(v) \in Deliveries
        BY <1>1, <3>1, <4>1 DEF AttemptInv, OneAttempt
      <4>3. mailed[RowOf(v)] = 0
        BY <2>5, <4>1 DEF FailureInv, RecordsRefusals
      <4> QED
        BY <2>2, <4>1, <4>2, <4>3 DEF RowOf
    <3>2. CASE v = w
      <4>1. worker'[w].job = worker[w].job
        BY <1>1, <1>3 DEF Send, AttemptInv, TypeOK, WorkerState
      <4>2. UNCHANGED mailed
        <5>1. CASE worker'[w].report = "rejected"
          <6>1. worker' # worker
            BY <2>1, <2>5, <3>2
          <6>2. RejectedIsRefused
            BY <6>1 DEF vars
          <6> QED
            BY <2>1, <2>5, <3>2, <5>1, <6>2 DEF RejectedIsRefused
        <5>2. CASE worker'[w].report # "rejected"
          <6>1. worker'[w].report \notin {"ok", "ambiguous"}
            BY <2>5, <3>2 DEF ResultOf
          <6>2. \/ UNCHANGED smtpVars
                \/ \E report \in {"ok", "rejected", "ambiguous"} :
                     worker' = [worker EXCEPT ![w].pc = "record", ![w].report = report]
            BY <1>3 DEF Send
          <6>3. ASSUME NEW report,
                       worker' = [worker EXCEPT ![w].pc = "record", ![w].report = report]
                PROVE  worker'[w].report = report
            BY <1>1, <6>3 DEF AttemptInv, TypeOK, WorkerState
          <6> QED
            BY <5>2, <6>1, <6>2, <6>3 DEF smtpVars
        <5> QED
          BY <5>1, <5>2
      <4> QED
        BY <2>1, <3>2, <4>1, <4>2 DEF RowOf
    <3> QED
      BY <3>1, <3>2
  <2>6. RecordsRefusals'
    BY <2>5 DEF RecordsRefusals, RowOf
  <2> QED
    BY <2>3, <2>6 DEF FailureInv
<1>4. ASSUME NEW w \in Workers, Record(w)
      PROVE  FailureInv'
  <2> DEFINE d == RowOf(w)
             result == ResultOf(worker[w].report)
  <2>1. d \in Deliveries /\ worker[w].pc = "record" /\ UNCHANGED mailed /\ delivery[d] \in Row
    BY <1>1, <1>4 DEF Record, smtpVars, TypeOK
  <2>2. \/ delivery' = delivery
        \/ delivery' = [delivery EXCEPT ![d] = Concluded(@, result)]
    BY <1>4 DEF Record, RowOf, rowVars
  <2>3. Concluded(delivery[d], result).state = result
    BY <2>1 DEF Concluded, Row
  <2>4. result = "failed" => mailed[d] = 0
    BY <2>1 DEF FailureInv, RecordsRefusals
  <2> HIDE DEF d, result
  <2>5. \A e \in Deliveries :
          delivery'[e].state = "failed" => delivery[e].state = "failed" \/ (e = d /\ result = "failed")
    BY <1>1, <2>1, <2>2, <2>3 DEF TypeOK
  <2>6. FailedIsNotMailed'
    BY <2>1, <2>4, <2>5 DEF FailureInv, FailedIsNotMailed
  <2>7. \A v \in Workers : worker'[v] = worker[v] \/ worker'[v].pc # "record"
    BY <1>4 DEF Record, IdleWorker, AttemptInv, TypeOK
  <2>8. RecordsRefusals'
    BY <2>1, <2>7 DEF FailureInv, RecordsRefusals, RowOf
  <2> QED
    BY <2>6, <2>8 DEF FailureInv
<1>5. CASE ~\E w \in Workers : Send(w) \/ Record(w)
  <2>1. UNCHANGED mailed
    BY <1>5 DEF Next, vars, smtpVars, LockNote, Rollback, PurgeNote, ClassifyUnknown, Tick, Edit,
       CreateNote, UpdateNote, DeleteNote, RestoreNote, Commit, ScanStep, StartScan, ClaimBatch,
       Enqueue, NextBatch, ScanCrash, WorkerStep, TakeJob, Authorize, WorkerCrash
  <2>2. CASE UNCHANGED worker
    BY <1>2, <1>5, <2>1, <2>2
  <2>3. ASSUME NEW w \in Workers, TakeJob(w) \/ Authorize(w) \/ WorkerCrash(w)
        PROVE  FailureInv'
    <3>1. \A v \in Workers : worker'[v] = worker[v] \/ worker'[v].pc # "record"
      BY <2>3 DEF TakeJob, Authorize, WorkerCrash, IdleWorker, AttemptInv, TypeOK, WorkerState
    <3> QED
      BY <1>2, <1>5, <2>1, <3>1
  <2> QED
    BY <1>5, <2>2, <2>3 DEF Next, vars, LockNote, Rollback, PurgeNote, ClassifyUnknown, Tick, Edit,
       CreateNote, UpdateNote, DeleteNote, RestoreNote, Commit, ScanStep, StartScan, ClaimBatch,
       Enqueue, NextBatch, ScanCrash, WorkerStep
<1> QED
  BY <1>3, <1>4, <1>5

(* What is recorded as failed was not delivered, if a session that is        *)
(* reported as rejected never follows an accepted message.  The QUIT of      *)
(* SMTPEmailSender breaks this hypothesis (run failed), and only that does:  *)
(* neither maintenance nor a second worker records a failure that is not one.*)
THEOREM FailuresAreFailures ==
  Spec /\ [][RejectedIsRefused]_vars => []FailedIsNotMailed
<1>1. Init => FailureInv
  <2> SUFFICES ASSUME Init PROVE FailureInv
    OBVIOUS
  <2>1. \A d \in Deliveries : delivery[d].state = "absent"
    BY DEF Init, Absent
  <2>2. \A w \in Workers : worker[w].pc = "idle"
    BY DEF Init, IdleWorker
  <2> QED
    BY <2>1, <2>2 DEF FailureInv, FailedIsNotMailed, RecordsRefusals
<1>2. FailureInv => FailedIsNotMailed
  BY DEF FailureInv
<1> QED
  BY <1>1, <1>2, FailureNext, NoticeAlways, PTL DEF Spec

(* A handler saves at an instant when every armed deadline is still ahead.   *)
EditsAreAhead ==
  edits' # edits => \A d \in Deliveries : delivery[d].state \in Live => delivery[d].due > lockedAt

(* An enabled rule has a cycle.                                              *)
RulesHaveCycles == \A o \in Offsets : rules[o].enabled => rules[o].cycle # 0

LEMMA StepHasCycles ==
  ASSUME TypeOK, RulesHaveCycles, [Next]_vars
  PROVE  RulesHaveCycles'
<1>1. CASE Edit
  <2>1. PICK n, wanted, changed : Commit(n, wanted, changed)
    BY <1>1, Zenon DEF Edit, CreateNote, UpdateNote, DeleteNote, RestoreNote
  <2>2. \A o \in Offsets : /\ rules'[o].enabled <=> o \in wanted
                          /\ rules'[o].cycle = CycleAfter(o, wanted, changed)
    BY <2>1 DEF Commit, Reconcile
  <2>3. \A o \in Offsets : rules[o].cycle \in Nat
    BY BoundsAssumption DEF TypeOK
  <2> QED
    BY <2>2, <2>3 DEF RulesHaveCycles, CycleAfter, NextCycle
<1>2. CASE QuietNote
  BY <1>2 DEF QuietNote, RulesHaveCycles
<1> QED
  BY <1>1, <1>2, QuietSteps

(* An edit keeps an armed reminder whose schedule it leaves alone armed      *)
(* while its deadline is ahead of the clock the handler read.                *)
LEMMA AheadStaysArmed ==
  ASSUME TypeOK, ArmedInv, [Next]_vars, edits' # edits, NEW d \in Deliveries,
         delivery[d].state \in Live, delivery[d].due > lockedAt,
         note' = note, rules'[d[1]] = rules[d[1]]
  PROVE  delivery'[d].state \in Live
<1> DEFINE o == d[1]
           r == delivery[d]
<1>1. /\ MayRemind(note) /\ rules[o].enabled /\ rules[o].cycle = d[2]
      /\ r.due = DueAt(note, o) /\ o \in Offsets /\ rules[o].cycle \in Nat /\ r \in Row
  BY DeliveryParts, BoundsAssumption DEF ArmedInv, ArmedIsCurrent, TypeOK
<1>2. ASSUME NEW n, NEW wanted, NEW changed, Commit(n, wanted, changed)
      PROVE  delivery'[d].state \in Live
  <2>1. n = note
    BY <1>2 DEF Commit
  <2>2. /\ rules'[o].enabled <=> o \in wanted
        /\ rules'[o].cycle = CycleAfter(o, wanted, changed)
    BY <1>1, <1>2 DEF Commit, Reconcile
  <2>3. CycleAfter(o, wanted, changed) = rules[o].cycle /\ o \in wanted
    <3>1. rules'[o] = rules[o]
      OBVIOUS
    <3> HIDE DEF o
    <3> QED
      BY <1>1, <2>2, <3>1
  <2>4. ~NextCycle(o, wanted, changed)
    BY <1>1, <2>3 DEF CycleAfter
  <2>5. d[2] # rules[o].cycle + 1
    BY <1>1
  <2>6. delivery'[d] = ReconciledRow(d, note, wanted, changed, lockedAt)
    BY <1>2, <2>1 DEF Commit, Reconcile
  <2>7. delivery'[d] = Refreshed(r, note, o, lockedAt)
    BY <1>1, <2>3, <2>4, <2>5, <2>6 DEF ReconciledRow
  <2>8. delivery'[d] = Reopened(r)
    BY <1>1, <2>7 DEF Refreshed
  <2> QED
    BY <1>1, <2>8 DEF Reopened, Row, Live
<1>3. CASE Edit
  BY <1>2, <1>3 DEF Edit, CreateNote, UpdateNote, DeleteNote, RestoreNote
<1>4. CASE Rollback
  BY <1>4 DEF Rollback, rowVars
<1>5. Edit \/ Rollback
  BY DEF Next, vars, noteVars, LockNote, PurgeNote, ClassifyUnknown, Tick, ScanStep, StartScan,
     ClaimBatch, Enqueue, NextBatch, ScanCrash, WorkerStep, TakeJob, Authorize, Send, Record,
     WorkerCrash
<1> QED
  BY <1>3, <1>4, <1>5

(* An unchanged schedule is idempotent for every edit that commits while the *)
(* armed deadlines are ahead of it.  Run unchanged shows that an edit in the *)
(* seconds after a deadline is the exception, and this that it is the only   *)
(* one.                                                                      *)
THEOREM EditsAheadAreIdempotent ==
  Spec /\ [][EditsAreAhead]_vars => UnchangedScheduleIsIdempotent
<1>1. TypeOK /\ ArmedInv /\ RulesHaveCycles /\ [Next]_vars /\ [EditsAreAhead]_vars =>
        [\A o \in Offsets :
           /\ note.status = "kept" /\ note.active
           /\ note' = note /\ edits' # edits
           /\ rules[o].enabled /\ rules'[o] = rules[o]
           /\ delivery[<<o, rules[o].cycle>>].state \in Live
           => delivery'[<<o, rules[o].cycle>>].state \in Live]_vars
  <2> SUFFICES ASSUME TypeOK, ArmedInv, RulesHaveCycles, [Next]_vars, [EditsAreAhead]_vars,
                      NEW o \in Offsets, note' = note, edits' # edits,
                      rules[o].enabled, rules'[o] = rules[o],
                      delivery[<<o, rules[o].cycle>>].state \in Live
               PROVE  delivery'[<<o, rules[o].cycle>>].state \in Live
    OBVIOUS
  <2> DEFINE d == <<o, rules[o].cycle>>
  <2>1. d \in Deliveries /\ d[1] = o
    BY BoundsAssumption DEF RulesHaveCycles, TypeOK, Deliveries
  <2>2. EditsAreAhead
    BY DEF vars, noteVars
  <2> HIDE DEF d
  <2>3. delivery[d].state \in Live
    BY DEF d
  <2>4. delivery[d].due > lockedAt
    BY <2>1, <2>2, <2>3 DEF EditsAreAhead
  <2>5. delivery'[d].state \in Live
    BY <2>1, <2>3, <2>4, AheadStaysArmed
  <2> QED
    BY <2>5 DEF d
<1>2. Init => RulesHaveCycles
  BY DEF Init, RulesHaveCycles
<1>3. AttemptInv => TypeOK
  BY DEF AttemptInv
<1>4. TypeOK /\ RulesHaveCycles /\ [Next]_vars => RulesHaveCycles'
  BY StepHasCycles
<1> QED
  BY <1>1, <1>2, <1>3, <1>4, AttemptInit, AttemptNext, ArmedInit, ArmedNext, PTL
     DEF Spec, UnchangedScheduleIsIdempotent
=============================================================================
