---------------------------- MODULE ReminderProofs ----------------------------
(***************************************************************************)
(* Theorems about Reminders for every value of its constants: every number *)
(* of offsets, scanners, workers, cycles, edits and claims, every lease,   *)
(* grace period and clock skew.                                            *)
(***************************************************************************)
EXTENDS Reminders, TLAPS

-----------------------------------------------------------------------------
(* Facts about the helpers. *)

(* Deliveries are pairs of an offset and a cycle number.                     *)
LEMMA DeliveryParts ==
  ASSUME NEW d \in Deliveries
  PROVE  d[1] \in Offsets /\ d[2] \in 1 .. MaxCycle /\ d[2] \in Nat /\ d[1] \in Nat
<1>1. d[1] \in Offsets /\ d[2] \in 1 .. MaxCycle
  BY DEF Deliveries
<1>2. d[2] \in Nat
  BY <1>1, BoundsAssumption
<1>3. d[1] \in Nat
  BY <1>1, SetsAssumption
<1> QED
  BY <1>1, <1>2, <1>3

(* The values idle processes hold have their types.                          *)
LEMMA IdleValues ==
  /\ NoJob \in Job
  /\ IdleWorker \in WorkerState
  /\ IdleScan \in ScanState
  /\ 0 \in Time
<1>1. <<CHOOSE o \in Offsets : TRUE, 1>> \in Deliveries
  BY SetsAssumption, BoundsAssumption DEF Deliveries
<1>2. (CHOOSE d \in Deliveries : TRUE) \in Deliveries
  BY <1>1
<1>3. NoJob \in Job
  BY <1>2 DEF NoJob, Job
<1>4. 0 \in Time
  BY BoundsAssumption DEF Time
<1> QED
  BY <1>3, <1>4 DEF IdleWorker, WorkerState, IdleScan, ScanState, Reports

(* Every clock reading is an instant.                                        *)
LEMMA ReadingsAreTimes == Now \subseteq Time /\ Time \subseteq Nat /\ Unset \notin Time /\ Free \notin Time
BY BoundsAssumption DEF Now, Time, Unset, Free

(* Each transformation of a row yields a row.                                *)
LEMMA RowOperators ==
  ASSUME NEW r \in Row, NEW now \in Time
  PROVE  /\ \A state \in States : Closed(r, state) \in Row
         /\ Reopened(r) \in Row
         /\ Claimed(r, now) \in Row
         /\ Withdrawn(r) \in Row
         /\ Authorized(r, now) \in Row
         /\ \A state \in States : Concluded(r, state) \in Row
<1>1. now \in Int /\ now + Lease \in Int /\ r.claims + 1 \in Nat
  BY ReadingsAreTimes, TimesAssumption DEF Row
<1>2. "pending" \in States /\ "claimed" \in States /\ "cancelled" \in States
      /\ "attempt_started" \in States
  BY DEF States, Live
<1>3. Unset \in Int
  BY DEF Unset
<1>4. \A state \in States : Closed(r, state) \in Row
  BY <1>3 DEF Closed, Row
<1>5. Reopened(r) \in Row
  BY <1>2, <1>3 DEF Reopened, Row
<1>6. Claimed(r, now) \in Row
  BY <1>1, <1>2 DEF Claimed, Row
<1>7. Withdrawn(r) \in Row
  BY <1>2, <1>4 DEF Withdrawn
<1>8. Authorized(r, now) \in Row
  BY <1>2, <1>3 DEF Authorized, Row
<1>9. \A state \in States : Concluded(r, state) \in Row
  BY DEF Concluded, Row
<1> QED
  BY <1>4, <1>5, <1>6, <1>7, <1>8, <1>9

(* A notification stays one, whatever happens to its words and its prefix.   *)
LEMMA NoticeOperators ==
  /\ [exists |-> TRUE, words |-> TRUE, prefixed |-> FALSE] \in Notice
  /\ \A n \in Notice : Prefixed(n) \in Notice
BY DEF Notice, Prefixed

(* Reconciling a delivery yields a row.                                      *)
LEMMA ReconciledIsRow ==
  ASSUME TypeOK, NEW d \in Deliveries, NEW n \in Notes, NEW wanted \in SUBSET Offsets,
         NEW changed \in BOOLEAN, NEW now \in Time
  PROVE  ReconciledRow(d, n, wanted, changed, now) \in Row
<1> DEFINE o == d[1]
           fresh == [Absent EXCEPT !.due = DueAt(n, o)]
<1>1. delivery[d] \in Row
  BY DEF TypeOK
<1>2. o \in Nat /\ DueAt(n, o) \in Int
  BY DeliveryParts DEF DueAt, Notes
<1>3. fresh \in Row
  <2>1. Absent \in Row
    BY DEF Absent, Row, States, Unset
  <2> HIDE DEF o
  <2> QED
    BY <1>2, <2>1 DEF Row
<1>4. "cancelled" \in States /\ "missed" \in States
  BY DEF States
<1>5. NewDelivery(n, o, now) \in Row
  <2>1. Closed(fresh, "cancelled") \in Row /\ Closed(fresh, "missed") \in Row
        /\ Reopened(fresh) \in Row
    BY <1>3, <1>4, RowOperators
  <2> HIDE DEF fresh
  <2>2. NewDelivery(n, o, now) \in {Closed(fresh, "cancelled"), Closed(fresh, "missed"),
                                    Reopened(fresh)}
    BY DEF NewDelivery, fresh
  <2> QED
    BY <2>1, <2>2
<1>6. Withdrawn(delivery[d]) \in Row /\ Reopened(delivery[d]) \in Row
  BY <1>1, RowOperators
<1>7. Refreshed(delivery[d], n, o, now) \in Row
  BY <1>6 DEF Refreshed
<1> QED
  BY <1>1, <1>5, <1>6, <1>7 DEF ReconciledRow

(* A committed edit leaves rules and deliveries well typed.                  *)
LEMMA ReconcileTypes ==
  ASSUME TypeOK, NEW n \in Notes, NEW wanted \in SUBSET Offsets,
         NEW changed \in BOOLEAN, NEW now \in Time, Reconcile(n, wanted, changed, now)
  PROVE  /\ rules' \in [Offsets -> [enabled: BOOLEAN, cycle: 0 .. MaxCycle]]
         /\ delivery' \in [Deliveries -> Row]
<1>1. \A o \in Offsets : CycleAfter(o, wanted, changed) \in 0 .. MaxCycle
  <2> TAKE o \in Offsets
  <2>1. rules[o].cycle \in 0 .. MaxCycle
    BY DEF TypeOK
  <2>2. CycleAfter(o, wanted, changed) <= MaxCycle
    BY DEF Reconcile
  <2> QED
    BY <2>1, <2>2, BoundsAssumption DEF CycleAfter
<1>2. \A d \in Deliveries : ReconciledRow(d, n, wanted, changed, now) \in Row
  BY ReconciledIsRow
<1> QED
  BY <1>1, <1>2 DEF Reconcile

-----------------------------------------------------------------------------
(* Type correctness. *)

LEMMA TypeInit == Init => TypeOK
<1> SUFFICES ASSUME Init PROVE TypeOK
  OBVIOUS
<1>1. note \in Notes /\ clock \in Time /\ lockedAt \in Time \cup {Free}
      /\ edits \in Nat
  BY IdleValues, BoundsAssumption DEF Init, Notes, Unset, Free
<1>2. Absent \in Row /\ NoNotice \in Notice
  BY DEF Absent, Row, States, Unset, NoNotice, Notice
<1>3. rules \in [Offsets -> [enabled: BOOLEAN, cycle: 0 .. MaxCycle]]
  BY BoundsAssumption DEF Init
<1>4. scan \in [Scanners -> ScanState] /\ worker \in [Workers -> WorkerState]
  BY IdleValues DEF Init
<1> QED
  BY <1>1, <1>2, <1>3, <1>4 DEF Init, TypeOK

LEMMA TypeNext == TypeOK /\ [Next]_vars => TypeOK'
<1> SUFFICES ASSUME TypeOK, [Next]_vars PROVE TypeOK'
  OBVIOUS
<1> USE DEF noteVars, rowVars, smtpVars
<1>1. CASE LockNote
  BY <1>1, ReadingsAreTimes DEF LockNote, TypeOK
<1>2. CASE Rollback
  BY <1>2, BoundsAssumption DEF Rollback, TypeOK
<1>3. ASSUME NEW n \in Notes, NEW wanted \in SUBSET Offsets, NEW changed \in BOOLEAN,
             Commit(n, wanted, changed)
      PROVE  TypeOK'
  <2>1. lockedAt \in Time
    BY <1>3 DEF TypeOK, Commit
  <2>2. Reconcile(n, wanted, changed, lockedAt)
    BY <1>3 DEF Commit
  <2>3. /\ rules' \in [Offsets -> [enabled: BOOLEAN, cycle: 0 .. MaxCycle]]
        /\ delivery' \in [Deliveries -> Row]
    BY <2>1, <2>2, ReconcileTypes
  <2> QED
    BY <1>3, <2>3 DEF Commit, TypeOK
<1>4. CASE Edit
  <2>1. TRUE \in BOOLEAN /\ FALSE \in BOOLEAN /\ EnabledOffsets \in SUBSET Offsets
    BY DEF EnabledOffsets
  <2>2. ASSUME NEW starts \in Starts, NEW active \in BOOLEAN, NEW wanted \in SUBSET Offsets,
               CreateNote(starts, active, wanted)
        PROVE  TypeOK'
    <3>1. [status |-> "kept", active |-> active, starts |-> starts,
           deletedAt |-> Unset] \in Notes
      BY SetsAssumption DEF Notes
    <3> QED
      BY <2>1, <2>2, <3>1, <1>3 DEF CreateNote
  <2>3. ASSUME NEW starts \in Starts, NEW active \in BOOLEAN, NEW wanted \in SUBSET Offsets,
               UpdateNote(starts, active, wanted)
        PROVE  TypeOK'
    <3>1. [note EXCEPT !.starts = starts, !.active = active] \in Notes
      BY SetsAssumption DEF Notes, TypeOK
    <3>2. (note.starts # starts) \in BOOLEAN
      OBVIOUS
    <3> QED
      BY <2>3, <3>1, <3>2, <1>3 DEF UpdateNote
  <2>4. CASE DeleteNote
    <3>1. [note EXCEPT !.status = "trash", !.deletedAt = lockedAt] \in Notes
      BY <2>4 DEF DeleteNote, Commit, Notes, TypeOK
    <3> QED
      BY <2>1, <2>4, <3>1, <1>3 DEF DeleteNote
  <2>5. CASE RestoreNote
    <3>1. [note EXCEPT !.status = "kept", !.deletedAt = Unset] \in Notes
      BY DEF Notes, TypeOK
    <3> QED
      BY <2>1, <2>5, <3>1, <1>3 DEF RestoreNote
  <2> QED
    BY <1>4, <2>2, <2>3, <2>4, <2>5 DEF Edit
<1>5. CASE PurgeNote
  <2>1. note' \in Notes
    BY <1>5 DEF PurgeNote, TypeOK, Notes
  <2>2. delivery' \in [Deliveries -> Row]
    BY <1>5 DEF PurgeNote, TypeOK, Row
  <2>3. notice' \in [Deliveries -> Notice]
    BY <1>5 DEF PurgeNote, TypeOK, Notice
  <2> QED
    BY <1>5, <2>1, <2>2, <2>3 DEF PurgeNote, TypeOK
<1>6. ASSUME NEW s \in Scanners, StartScan(s)
      PROVE  TypeOK'
  <2>1. \A now \in Now : [pc |-> "batch", now |-> now, claims |-> {}, last |-> FALSE] \in ScanState
    BY ReadingsAreTimes DEF ScanState
  <2> QED
    BY <1>6, <2>1 DEF StartScan, TypeOK
<1>7. ASSUME NEW s \in Scanners, ClaimBatch(s)
      PROVE  TypeOK'
  <2>1. scan[s].now \in Time /\ "missed" \in States
    BY DEF TypeOK, ScanState, States
  <2>2. \A d \in Deliveries : /\ Claimed(delivery[d], scan[s].now) \in Row
                              /\ Closed(delivery[d], "missed") \in Row
    BY <2>1, RowOperators DEF TypeOK
  <2>3. delivery' \in [Deliveries -> Row]
    <3>1. PICK batch \in SUBSET Deliveries :
            delivery' = [d \in Deliveries |->
                           IF d \in {e \in batch : ~TooLate(e, scan[s].now)}
                           THEN Claimed(delivery[d], scan[s].now)
                           ELSE IF d \in batch THEN Closed(delivery[d], "missed")
                           ELSE delivery[d]]
      BY <1>7 DEF ClaimBatch, Batches, Lockable
    <3>2. \A d \in Deliveries : delivery[d] \in Row
      BY DEF TypeOK
    <3> QED
      BY <2>2, <3>1, <3>2
  <2>4. \A d \in Deliveries : [row |-> d, token |-> delivery[d].claims + 1] \in Job
    BY DEF Job, TypeOK, Row
  <2>5. PICK batch \in SUBSET Deliveries :
          scan' = [scan EXCEPT
            ![s].pc = "enqueue",
            ![s].claims = {[row |-> d, token |-> delivery[d].claims + 1] :
                             d \in {d \in batch : ~TooLate(d, scan[s].now)}},
            ![s].last = LastBatch(batch)]
    BY <1>7 DEF ClaimBatch, Batches, Lockable
  <2>6. {[row |-> d, token |-> delivery[d].claims + 1] :
           d \in {d \in batch : ~TooLate(d, scan[s].now)}} \in SUBSET Job
    BY <2>4
  <2>7. LastBatch(batch) \in BOOLEAN
    BY DEF LastBatch
  <2>8. scan' \in [Scanners -> ScanState]
    BY <2>5, <2>6, <2>7 DEF TypeOK, ScanState
  <2> QED
    BY <1>7, <2>3, <2>8 DEF ClaimBatch, TypeOK
<1>8. ASSUME NEW s \in Scanners, Enqueue(s) \/ NextBatch(s) \/ ScanCrash(s)
      PROVE  TypeOK'
  <2>1. scan' \in [Scanners -> ScanState]
    BY <1>8, IdleValues DEF Enqueue, NextBatch, ScanCrash, TypeOK, ScanState
  <2>2. queue' \subseteq Job
    BY <1>8 DEF Enqueue, NextBatch, ScanCrash, TypeOK, ScanState
  <2> QED
    BY <1>8, <2>1, <2>2 DEF Enqueue, NextBatch, ScanCrash, TypeOK
<1>9. ASSUME NEW w \in Workers, TakeJob(w)
      PROVE  TypeOK'
  <2>1. \A j \in queue, now \in Now :
          [pc |-> "authorize", job |-> j, at |-> now, report |-> "ok"] \in WorkerState
    BY ReadingsAreTimes DEF WorkerState, TypeOK, Reports
  <2> QED
    BY <1>9, <2>1 DEF TakeJob, TypeOK
<1>10. ASSUME NEW w \in Workers, Authorize(w)
       PROVE  TypeOK'
  <2> DEFINE d == worker[w].job.row
  <2>1. d \in Deliveries /\ worker[w].at \in Time /\ delivery[d] \in Row
    BY DEF TypeOK, WorkerState, Job
  <2>2. Verdict(w) \in Row
    <3>1. /\ Closed(delivery[d], "cancelled") \in Row
          /\ Closed(delivery[d], "missed") \in Row
          /\ Reopened(delivery[d]) \in Row
          /\ Authorized(delivery[d], worker[w].at) \in Row
      BY <2>1, RowOperators DEF States
    <3> QED
      BY <3>1 DEF Verdict
  <2>3. delivery' \in [Deliveries -> Row]
    BY <1>10, <2>1, <2>2 DEF Authorize, TypeOK
  <2>4. notice' \in [Deliveries -> Notice]
    <3>1. \/ notice' = notice
          \/ notice' = [notice EXCEPT ![d] = [exists |-> TRUE, words |-> TRUE, prefixed |-> FALSE]]
      BY <1>10 DEF Authorize
    <3> QED
      BY <2>1, <3>1, NoticeOperators DEF TypeOK
  <2>5. events' \in [Deliveries -> Nat]
    BY <1>10, <2>1 DEF Authorize, TypeOK
  <2>6. worker' \in [Workers -> WorkerState]
    <3>1. \/ worker' = [worker EXCEPT ![w].pc = "send"]
          \/ worker' = [worker EXCEPT ![w] = IdleWorker]
      BY <1>10 DEF Authorize
    <3> QED
      BY <3>1, IdleValues DEF TypeOK, WorkerState
  <2> QED
    BY <1>10, <2>3, <2>4, <2>5, <2>6 DEF Authorize, TypeOK
<1>11. ASSUME NEW w \in Workers, Send(w)
       PROVE  TypeOK'
  <2>1. worker[w].job.row \in Deliveries
    BY DEF TypeOK, WorkerState, Job
  <2>2. worker' \in [Workers -> WorkerState]
    BY <1>11 DEF Send, TypeOK, WorkerState, Reports
  <2>3. calls' \in [Deliveries -> Nat] /\ mailed' \in [Deliveries -> Nat]
    BY <1>11, <2>1 DEF Send, TypeOK
  <2> QED
    BY <1>11, <2>2, <2>3 DEF Send, TypeOK
<1>12. ASSUME NEW w \in Workers, Record(w)
       PROVE  TypeOK'
  <2> DEFINE d == worker[w].job.row
  <2>1. d \in Deliveries /\ delivery[d] \in Row
    BY DEF TypeOK, WorkerState, Job
  <2>2. ResultOf(worker[w].report) \in States
    BY DEF ResultOf, States, Outcomes
  <2>3. Concluded(delivery[d], ResultOf(worker[w].report)) \in Row
    BY <2>1, <2>2, RowOperators, IdleValues
  <2>4. delivery' \in [Deliveries -> Row]
    BY <1>12, <2>1, <2>3 DEF Record, TypeOK
  <2>5. notice' \in [Deliveries -> Notice]
    <3>1. notice' \in {notice, [notice EXCEPT ![d] = Prefixed(@)]}
      BY <1>12 DEF Record, rowVars
    <3> QED
      BY <2>1, <3>1, NoticeOperators DEF TypeOK
  <2>6. events' \in [Deliveries -> Nat]
    BY <1>12, <2>1 DEF Record, TypeOK
  <2>7. worker' \in [Workers -> WorkerState]
    BY <1>12, IdleValues DEF Record, TypeOK
  <2> QED
    BY <1>12, <2>4, <2>5, <2>6, <2>7 DEF Record, TypeOK
<1>13. ASSUME NEW w \in Workers, WorkerCrash(w)
       PROVE  TypeOK'
  BY <1>13, IdleValues DEF WorkerCrash, TypeOK
<1>14. CASE ClassifyUnknown
  <2>1. \A d \in Deliveries : Concluded(delivery[d], "unknown") \in Row
    BY RowOperators, IdleValues DEF TypeOK, States, Outcomes
  <2>2. delivery' \in [Deliveries -> Row]
    BY <1>14, <2>1 DEF ClassifyUnknown, TypeOK
  <2>3. notice' \in [Deliveries -> Notice]
    BY <1>14, NoticeOperators DEF ClassifyUnknown, TypeOK
  <2>4. events' \in [Deliveries -> Nat]
    BY <1>14 DEF ClassifyUnknown, TypeOK
  <2> QED
    BY <1>14, <2>2, <2>3, <2>4 DEF ClassifyUnknown, TypeOK
<1>15. CASE Tick
  BY <1>15, BoundsAssumption DEF Tick, TypeOK, Time
<1>16. CASE UNCHANGED vars
  BY <1>16 DEF vars, TypeOK
<1> QED
  BY <1>1, <1>2, <1>4, <1>5, <1>6, <1>7, <1>8, <1>9, <1>10, <1>11, <1>12, <1>13, <1>14,
     <1>15, <1>16 DEF Next, ScanStep, WorkerStep

(* Type correctness: every variable keeps its type in every behaviour.       *)
THEOREM TypeCorrect == Spec => []TypeOK
<1>1. Init => TypeOK
  BY TypeInit
<1>2. TypeOK /\ [Next]_vars => TypeOK'
  BY TypeNext
<1> QED
  BY <1>1, <1>2, PTL DEF Spec

-----------------------------------------------------------------------------
(* At most one send attempt, and results that are true. *)

Started == Outcomes \cup {"attempt_started"}

RowOf(w) == worker[w].job.row

Attempting(w) == worker[w].pc \in {"send", "record"}

(* A cycle that has not begun has no row; so a new cycle never overwrites one. *)
UnbornBeyondCycle ==
  \A d \in Deliveries : d[2] > rules[d[1]].cycle => delivery[d].state = "absent"

(* What the history says of a row follows its state.                         *)
CallsFollowState ==
  \A d \in Deliveries :
    /\ calls[d] <= 1
    /\ delivery[d].state \notin Started => calls[d] = 0 /\ mailed[d] = 0
    /\ delivery[d].state = "sent" => mailed[d] = 1

(* A worker about to send is the first to do so.                             *)
SenderIsFirst ==
  \A w \in Workers :
    worker[w].pc = "send" =>
      /\ delivery[RowOf(w)].state \in {"attempt_started", "unknown"}
      /\ calls[RowOf(w)] = 0 /\ mailed[RowOf(w)] = 0

RecorderIsTrue ==
  \A w \in Workers :
    worker[w].pc = "record" =>
      /\ delivery[RowOf(w)].state \in Started
      /\ worker[w].report = "ok" => mailed[RowOf(w)] = 1

(* The claim token and the row lock let one worker past the boundary.        *)
OneAttempt ==
  \A v, w \in Workers : v # w /\ Attempting(v) /\ Attempting(w) => RowOf(v) # RowOf(w)

AttemptInv ==
  /\ TypeOK
  /\ UnbornBeyondCycle
  /\ CallsFollowState
  /\ SenderIsFirst
  /\ RecorderIsTrue
  /\ OneAttempt

(* What a committed edit may do to the state of a row.                       *)
LEMMA CommitMoves ==
  ASSUME TypeOK, UnbornBeyondCycle, NEW n, NEW wanted, NEW changed,
         Commit(n, wanted, changed), NEW d \in Deliveries
  PROVE  \/ delivery'[d].state = delivery[d].state
         \/ /\ delivery[d].state \in Live \cup {"cancelled"}
            /\ delivery'[d].state \in {"pending", "cancelled"}
         \/ /\ delivery[d].state = "absent"
            /\ delivery'[d].state \in {"pending", "cancelled", "missed"}
<1> DEFINE r == delivery[d]
           o == d[1]
           cycle == rules[o].cycle
<1>1. delivery'[d] = ReconciledRow(d, n, wanted, changed, lockedAt)
  BY DEF Commit, Reconcile
<1>2. r \in Row /\ cycle \in Nat /\ d[2] \in Nat
  BY DeliveryParts, BoundsAssumption DEF TypeOK
<1>3. \/ delivery'[d] = r
      \/ delivery'[d] = NewDelivery(n, o, lockedAt) /\ d[2] = cycle + 1
      \/ delivery'[d] = Refreshed(r, n, o, lockedAt)
      \/ delivery'[d] = Withdrawn(r)
  BY <1>1, Zenon DEF ReconciledRow
<1>4. CASE delivery'[d] = NewDelivery(n, o, lockedAt) /\ d[2] = cycle + 1
  <2>1. r.state = "absent"
    BY <1>2, <1>4 DEF UnbornBeyondCycle
  <2>2. NewDelivery(n, o, lockedAt).state \in {"pending", "cancelled", "missed"}
    BY DEF NewDelivery, Closed, Reopened, Absent
  <2> QED
    BY <1>4, <2>1, <2>2
<1>5. Withdrawn(r).state = r.state \/ (r.state \in Live /\ Withdrawn(r).state = "cancelled")
  BY <1>2 DEF Withdrawn, Closed, Row
<1>6. \/ Refreshed(r, n, o, lockedAt) = Withdrawn(r)
      \/ r.state \in Live \cup {"cancelled"} /\ Refreshed(r, n, o, lockedAt).state = "pending"
  BY <1>2 DEF Refreshed, Reopened, Row
<1> QED
  BY <1>3, <1>4, <1>5, <1>6

LEMMA AttemptInit == Init => AttemptInv
<1> SUFFICES ASSUME Init PROVE AttemptInv
  OBVIOUS
<1>1. \A w \in Workers : worker[w].pc = "idle"
  BY DEF Init, IdleWorker
<1>2. \A d \in Deliveries : delivery[d].state = "absent" /\ calls[d] = 0 /\ mailed[d] = 0
  BY DEF Init, Absent
<1> QED
  BY <1>1, <1>2, TypeInit DEF AttemptInv, UnbornBeyondCycle, CallsFollowState, SenderIsFirst,
     RecorderIsTrue, OneAttempt, Attempting, Started, Outcomes

(* Steps that leave workers and histories alone and move no row into or out  *)
(* of the started states disturb nothing but, perhaps, UnbornBeyondCycle.    *)
LEMMA AttemptFrame ==
  ASSUME AttemptInv, TypeOK', UnbornBeyondCycle', UNCHANGED <<worker, calls, mailed>>,
         \A d \in Deliveries :
           \/ delivery'[d].state = delivery[d].state
           \/ delivery[d].state \notin Started /\ delivery'[d].state \notin Started
           \/ delivery[d].state = "attempt_started" /\ delivery'[d].state = "unknown"
  PROVE  AttemptInv'
<1> USE DEF AttemptInv
<1>1. \A w \in Workers : RowOf(w) \in Deliveries
  BY DEF RowOf, TypeOK, WorkerState, Job
<1>2. \A w \in Workers : RowOf(w)' = RowOf(w) /\ Attempting(w)' = Attempting(w)
  BY DEF RowOf, Attempting
<1>3. CallsFollowState'
  BY DEF CallsFollowState, Started, Outcomes
<1>4. SenderIsFirst'
  BY <1>1, <1>2 DEF SenderIsFirst, Started, Outcomes
<1>5. RecorderIsTrue'
  BY <1>1, <1>2 DEF RecorderIsTrue, Started, Outcomes
<1>6. OneAttempt'
  BY <1>2 DEF OneAttempt
<1> QED
  BY <1>3, <1>4, <1>5, <1>6

LEMMA CommitKeepsAttempts ==
  ASSUME AttemptInv, TypeOK', NEW n, NEW wanted, NEW changed, Commit(n, wanted, changed)
  PROVE  AttemptInv'
<1> USE DEF AttemptInv
<1>1. UnbornBeyondCycle'
  <2> SUFFICES ASSUME NEW d \in Deliveries, d[2] > rules'[d[1]].cycle
               PROVE  delivery'[d].state = "absent"
    BY DEF UnbornBeyondCycle
  <2> DEFINE o == d[1]
             cycle == rules[o].cycle
  <2>1. o \in Offsets /\ cycle \in Nat /\ d[2] \in Nat
    BY DeliveryParts, BoundsAssumption DEF TypeOK
  <2>2. rules'[o].cycle = CycleAfter(o, wanted, changed)
    BY <2>1 DEF Commit, Reconcile
  <2>3. d[2] > cycle /\ ~(d[2] = cycle + 1 /\ NextCycle(o, wanted, changed))
    BY <2>1, <2>2 DEF CycleAfter
  <2>4. delivery'[d] = ReconciledRow(d, n, wanted, changed, lockedAt)
    BY DEF Commit, Reconcile
  <2>5. d[2] # cycle
    BY <2>1, <2>3
  <2>6. delivery'[d] = delivery[d]
    BY <2>3, <2>4, <2>5, Zenon DEF ReconciledRow
  <2> QED
    BY <2>3, <2>6 DEF UnbornBeyondCycle
<1>2. \A d \in Deliveries :
        \/ delivery'[d].state = delivery[d].state
        \/ delivery[d].state \notin Started /\ delivery'[d].state \notin Started
  BY CommitMoves DEF Started, Outcomes, Live
<1>3. UNCHANGED <<worker, calls, mailed>>
  BY DEF Commit, smtpVars
<1> QED
  BY <1>1, <1>2, <1>3, AttemptFrame

LEMMA AuthorizeKeepsAttempts ==
  ASSUME AttemptInv, TypeOK', NEW w \in Workers, Authorize(w)
  PROVE  AttemptInv'
<1> USE DEF AttemptInv
<1> DEFINE d == RowOf(w)
<1>1. d \in Deliveries /\ delivery[d] \in Row
  BY DEF RowOf, TypeOK, WorkerState, Job
<1>2. UNCHANGED <<rules, calls, mailed>>
  BY DEF Authorize, noteVars, smtpVars
<1>3. \A e \in Deliveries : e # d => delivery'[e] = delivery[e]
  BY <1>1 DEF Authorize, RowOf, TypeOK
<1>4. \A v \in Workers : v # w => worker'[v] = worker[v]
  BY DEF Authorize, TypeOK
<1>5. \/ /\ delivery'[d] = delivery[d]
         /\ worker'[w].pc = "idle"
      \/ /\ delivery[d].state = "claimed"
         /\ delivery'[d].state \in {"cancelled", "pending", "missed"}
         /\ worker'[w].pc = "idle"
      \/ /\ delivery[d].state = "claimed"
         /\ delivery'[d].state = "attempt_started"
         /\ worker'[w].pc = "send" /\ RowOf(w)' = d
  <2>1. CASE ~HoldsClaim(w)
    BY <1>1, <2>1 DEF Authorize, RowOf, TypeOK, IdleWorker
  <2>2. CASE HoldsClaim(w)
    <3>1. delivery'[d] = Verdict(w) /\ delivery[d].state = "claimed"
      BY <1>1, <2>2 DEF Authorize, RowOf, TypeOK, HoldsClaim
    <3>2. Verdict(w).state \in {"cancelled", "pending", "missed", "attempt_started"}
      BY <1>1 DEF Verdict, Closed, Reopened, Authorized, Row, RowOf
    <3>3. worker' = IF Verdict(w).state = "attempt_started"
                    THEN [worker EXCEPT ![w].pc = "send"]
                    ELSE [worker EXCEPT ![w] = IdleWorker]
      BY <2>2 DEF Authorize
    <3>4. worker[w] \in WorkerState
      BY DEF TypeOK
    <3> QED
      BY <3>1, <3>2, <3>3, <3>4 DEF TypeOK, IdleWorker, WorkerState, RowOf
  <2> QED
    BY <2>1, <2>2
<1>6. \A v \in Workers : v # w => RowOf(v)' = RowOf(v) /\ Attempting(v)' = Attempting(v)
  BY <1>4 DEF RowOf, Attempting
<1>7. delivery[d].state = "claimed" => \A v \in Workers : Attempting(v) => RowOf(v) # d
  BY DEF SenderIsFirst, RecorderIsTrue, Attempting, Started, Outcomes
<1>8. RowOf(w)' = d \/ worker'[w].pc = "idle"
  BY <1>5
<1>9. UnbornBeyondCycle'
  BY <1>1, <1>2, <1>3, <1>5 DEF UnbornBeyondCycle
<1>10. CallsFollowState'
  BY <1>1, <1>2, <1>3, <1>5 DEF CallsFollowState, Started, Outcomes
<1>11. SenderIsFirst'
  <2> SUFFICES ASSUME NEW v \in Workers, worker'[v].pc = "send"
               PROVE  /\ delivery'[RowOf(v)'].state \in {"attempt_started", "unknown"}
                      /\ calls[RowOf(v)'] = 0 /\ mailed[RowOf(v)'] = 0
    BY <1>2 DEF SenderIsFirst
  <2>1. CASE v = w
    BY <1>1, <1>5, <1>8, <2>1 DEF CallsFollowState, Started, Outcomes
  <2>2. CASE v # w
    <3>1. worker[v].pc = "send" /\ RowOf(v)' = RowOf(v) /\ RowOf(v) \in Deliveries
      BY <1>4, <1>6, <2>2 DEF RowOf, TypeOK, WorkerState, Job
    <3>2. delivery'[RowOf(v)].state = delivery[RowOf(v)].state
      BY <1>3, <1>5, <1>7, <3>1 DEF Attempting
    <3> QED
      BY <3>1, <3>2 DEF SenderIsFirst
  <2> QED
    BY <2>1, <2>2
<1>12. RecorderIsTrue'
  <2> SUFFICES ASSUME NEW v \in Workers, worker'[v].pc = "record"
               PROVE  /\ delivery'[RowOf(v)'].state \in Started
                      /\ worker'[v].report = "ok" => mailed[RowOf(v)'] = 1
    BY <1>2 DEF RecorderIsTrue
  <2>1. v # w
    BY <1>5
  <2>2. worker'[v] = worker[v] /\ RowOf(v)' = RowOf(v) /\ RowOf(v) \in Deliveries
    BY <1>4, <1>6, <2>1 DEF RowOf, TypeOK, WorkerState, Job
  <2>3. delivery'[RowOf(v)].state = delivery[RowOf(v)].state
    BY <1>3, <1>5, <1>7, <2>2 DEF Attempting
  <2> QED
    BY <2>2, <2>3 DEF RecorderIsTrue
<1>13. OneAttempt'
  <2>1. \A v \in Workers : v # w /\ Attempting(v) /\ Attempting(w)' => RowOf(v) # d
    BY <1>5, <1>7 DEF Attempting
  <2> QED
    BY <1>6, <1>8, <2>1 DEF OneAttempt, Attempting
<1> QED
  BY <1>9, <1>10, <1>11, <1>12, <1>13

LEMMA SendKeepsAttempts ==
  ASSUME AttemptInv, TypeOK', NEW w \in Workers, Send(w)
  PROVE  AttemptInv'
<1> USE DEF AttemptInv
<1> DEFINE d == RowOf(w)
<1>1. d \in Deliveries /\ worker[w].pc = "send"
  BY DEF RowOf, TypeOK, WorkerState, Job, Send
<1>2. UNCHANGED <<rules, delivery>>
  BY DEF Send, noteVars, rowVars
<1>3. /\ delivery[d].state \in {"attempt_started", "unknown"}
      /\ calls[d] = 0 /\ mailed[d] = 0
  BY <1>1 DEF SenderIsFirst
<1>4. \A e \in Deliveries : e # d => calls'[e] = calls[e] /\ mailed'[e] = mailed[e]
  BY DEF Send, RowOf, smtpVars, TypeOK
<1>5. calls'[d] \in {0, 1} /\ (worker'[w].report = "ok" => mailed'[d] = 1)
  BY <1>1, <1>3 DEF Send, RowOf, smtpVars, TypeOK, WorkerState
<1>6. worker'[w].pc = "record" /\ RowOf(w)' = d
  BY DEF Send, RowOf, TypeOK, WorkerState
<1>7. \A v \in Workers : v # w => worker'[v] = worker[v]
  BY DEF Send, TypeOK
<1>8. \A v \in Workers : v # w => RowOf(v)' = RowOf(v) /\ Attempting(v)' = Attempting(v)
  BY <1>7 DEF RowOf, Attempting
<1>9. \A v \in Workers : v # w /\ Attempting(v) => RowOf(v) \in Deliveries /\ RowOf(v) # d
  BY <1>1 DEF OneAttempt, Attempting, RowOf, TypeOK, WorkerState, Job
<1>10. UnbornBeyondCycle'
  BY <1>2 DEF UnbornBeyondCycle
<1>11. CallsFollowState'
  BY <1>2, <1>3, <1>4, <1>5 DEF CallsFollowState, Started, Outcomes
<1>12. SenderIsFirst'
  BY <1>2, <1>4, <1>6, <1>7, <1>8, <1>9 DEF SenderIsFirst, Attempting
<1>13. RecorderIsTrue'
  <2> SUFFICES ASSUME NEW v \in Workers, worker'[v].pc = "record"
               PROVE  /\ delivery'[RowOf(v)'].state \in Started
                      /\ worker'[v].report = "ok" => mailed'[RowOf(v)'] = 1
    BY DEF RecorderIsTrue
  <2>1. CASE v = w
    <3>1. RowOf(v)' = d
      BY <1>6, <2>1 DEF RowOf
    <3> QED
      BY <1>2, <1>3, <1>5, <2>1, <3>1 DEF Started, Outcomes
  <2>2. CASE v # w
    BY <1>2, <1>4, <1>7, <1>8, <1>9, <2>2 DEF RecorderIsTrue, Attempting
  <2> QED
    BY <2>1, <2>2
<1>14. OneAttempt'
  BY <1>6, <1>8, <1>9 DEF OneAttempt
<1> QED
  BY <1>10, <1>11, <1>12, <1>13, <1>14

LEMMA RecordKeepsAttempts ==
  ASSUME AttemptInv, TypeOK', NEW w \in Workers, Record(w)
  PROVE  AttemptInv'
<1> USE DEF AttemptInv
<1> DEFINE d == RowOf(w)
<1>1. d \in Deliveries /\ worker[w].pc = "record"
  BY DEF RowOf, TypeOK, WorkerState, Job, Record
<1>2. UNCHANGED <<rules, calls, mailed>>
  BY DEF Record, noteVars, smtpVars
<1>3. \A e \in Deliveries : e # d => delivery'[e] = delivery[e]
  BY DEF Record, RowOf, rowVars, TypeOK
<1>4. \/ delivery'[d] = delivery[d]
      \/ /\ delivery[d].state = "attempt_started"
         /\ delivery'[d].state \in Outcomes
         /\ delivery'[d].state = "sent" => mailed[d] = 1
  <2>1. delivery[d] \in Row
    BY <1>1 DEF TypeOK
  <2>2. Concluded(delivery[d], ResultOf(worker[w].report)).state = ResultOf(worker[w].report)
    BY <2>1 DEF Concluded, Row
  <2>3. ResultOf(worker[w].report) = "sent" => mailed[d] = 1
    BY <1>1 DEF RecorderIsTrue, ResultOf
  <2>4. ResultOf(worker[w].report) \in Outcomes
    BY DEF ResultOf, Outcomes
  <2>5. \/ delivery' = delivery
        \/ /\ delivery[d].state = "attempt_started"
           /\ delivery'[d] = Concluded(delivery[d], ResultOf(worker[w].report))
    BY <1>1 DEF Record, RowOf, rowVars, TypeOK
  <2> QED
    BY <2>2, <2>3, <2>4, <2>5
<1>5. worker'[w].pc = "idle" /\ \A v \in Workers : v # w => worker'[v] = worker[v]
  BY DEF Record, IdleWorker, TypeOK
<1>6. \A v \in Workers : v # w => RowOf(v)' = RowOf(v) /\ Attempting(v)' = Attempting(v)
  BY <1>5 DEF RowOf, Attempting
<1>7. \A v \in Workers : v # w /\ Attempting(v) => RowOf(v) \in Deliveries /\ RowOf(v) # d
  BY <1>1 DEF OneAttempt, Attempting, RowOf, TypeOK, WorkerState, Job
<1>8. UnbornBeyondCycle'
  BY <1>2, <1>3, <1>4 DEF UnbornBeyondCycle
<1>9. CallsFollowState'
  BY <1>2, <1>3, <1>4 DEF CallsFollowState, Started
<1>10. SenderIsFirst'
  BY <1>2, <1>3, <1>5, <1>6, <1>7 DEF SenderIsFirst, Attempting
<1>11. RecorderIsTrue'
  BY <1>2, <1>3, <1>5, <1>6, <1>7 DEF RecorderIsTrue, Attempting
<1>12. OneAttempt'
  BY <1>5, <1>6 DEF OneAttempt, Attempting
<1> QED
  BY <1>8, <1>9, <1>10, <1>11, <1>12

(* A worker that takes a job or crashes attempts nothing.                    *)
LEMMA LeavingKeepsAttempts ==
  ASSUME AttemptInv, TypeOK', NEW w \in Workers, TakeJob(w) \/ WorkerCrash(w)
  PROVE  AttemptInv'
<1> USE DEF AttemptInv
<1>1. UNCHANGED <<rules, delivery, calls, mailed>>
  BY DEF TakeJob, WorkerCrash, noteVars, rowVars, smtpVars
<1>2. worker'[w].pc \notin {"send", "record"}
  BY DEF TakeJob, WorkerCrash, IdleWorker, TypeOK
<1>3. \A v \in Workers : v # w => worker'[v] = worker[v]
  BY DEF TakeJob, WorkerCrash, TypeOK
<1>4. \A v \in Workers : v # w => RowOf(v)' = RowOf(v) /\ Attempting(v)' = Attempting(v)
  BY <1>3 DEF RowOf, Attempting
<1>5. UnbornBeyondCycle' /\ CallsFollowState'
  BY <1>1 DEF UnbornBeyondCycle, CallsFollowState
<1>6. SenderIsFirst' /\ RecorderIsTrue'
  BY <1>1, <1>2, <1>3, <1>4 DEF SenderIsFirst, RecorderIsTrue
<1>7. OneAttempt'
  BY <1>2, <1>4 DEF OneAttempt, Attempting
<1> QED
  BY <1>5, <1>6, <1>7

LEMMA AttemptNext == AttemptInv /\ [Next]_vars => AttemptInv'
<1> SUFFICES ASSUME AttemptInv, [Next]_vars PROVE AttemptInv'
  OBVIOUS
<1> USE DEF AttemptInv
<1>0. TypeOK'
  BY TypeNext
<1>1. ASSUME NEW n, NEW wanted, NEW changed, Commit(n, wanted, changed)
      PROVE  AttemptInv'
  BY <1>0, <1>1, CommitKeepsAttempts
<1>2. CASE Edit
  BY <1>1, <1>2 DEF Edit, CreateNote, UpdateNote, DeleteNote, RestoreNote
<1>3. CASE UNCHANGED <<rules, delivery, worker, calls, mailed>>
  BY <1>0, <1>3, AttemptFrame DEF UnbornBeyondCycle
<1>4. CASE PurgeNote
  <2>1. \A d \in Deliveries : delivery'[d].state = delivery[d].state
    BY <1>4 DEF PurgeNote, TypeOK, Row
  <2>2. UNCHANGED <<rules, worker, calls, mailed>>
    BY <1>4 DEF PurgeNote, smtpVars
  <2> QED
    BY <1>0, <2>1, <2>2, AttemptFrame DEF UnbornBeyondCycle
<1>5. ASSUME NEW s \in Scanners, ClaimBatch(s)
      PROVE  AttemptInv'
  <2>1. \A d \in Deliveries :
          \/ delivery'[d] = delivery[d]
          \/ delivery[d].state \in Live /\ delivery'[d].state \in {"claimed", "missed"}
    <3>1. PICK batch \in SUBSET {d \in Deliveries : Claimable(d, scan[s].now)} :
            delivery' = [d \in Deliveries |->
                           IF d \in {e \in batch : ~TooLate(e, scan[s].now)}
                           THEN Claimed(delivery[d], scan[s].now)
                           ELSE IF d \in batch THEN Closed(delivery[d], "missed")
                           ELSE delivery[d]]
      BY <1>5 DEF ClaimBatch, Batches, Lockable
    <3>2. \A d \in batch : delivery[d] \in Row /\ delivery[d].state \in Live
      BY DEF Claimable, Live, TypeOK
    <3> QED
      BY <3>1, <3>2 DEF Claimed, Closed, Row
  <2>2. UNCHANGED <<rules, worker, calls, mailed>>
    BY <1>5 DEF ClaimBatch, noteVars, smtpVars
  <2>3. UnbornBeyondCycle'
    BY <2>1, <2>2 DEF UnbornBeyondCycle, Live
  <2> QED
    BY <1>0, <2>1, <2>2, <2>3, AttemptFrame DEF Live, Started, Outcomes
<1>6. CASE ClassifyUnknown
  <2>1. \A d \in Deliveries :
          \/ delivery'[d] = delivery[d]
          \/ delivery[d].state = "attempt_started" /\ delivery'[d].state = "unknown"
    <3>1. PICK batch \in SUBSET {d \in Deliveries : delivery[d].state = "attempt_started"} :
            delivery' = [d \in Deliveries |->
                           IF d \in batch THEN Concluded(delivery[d], "unknown")
                           ELSE delivery[d]]
      BY <1>6 DEF ClassifyUnknown, Batches, Stale
    <3> QED
      BY <3>1 DEF Concluded, Row, TypeOK
  <2>2. UNCHANGED <<rules, worker, calls, mailed>>
    BY <1>6 DEF ClassifyUnknown, noteVars, smtpVars
  <2>3. UnbornBeyondCycle'
    BY <2>1, <2>2 DEF UnbornBeyondCycle
  <2> QED
    BY <1>0, <2>1, <2>2, <2>3, AttemptFrame
<1>7. ASSUME NEW w \in Workers, WorkerStep(w) \/ WorkerCrash(w)
      PROVE  AttemptInv'
  BY <1>0, <1>7, AuthorizeKeepsAttempts, SendKeepsAttempts, RecordKeepsAttempts,
     LeavingKeepsAttempts DEF WorkerStep
<1>8. ASSUME NEW s \in Scanners, ScanStep(s) \/ ScanCrash(s)
      PROVE  AttemptInv'
  BY <1>3, <1>5, <1>8
  DEF ScanStep, StartScan, Enqueue, NextBatch, ScanCrash, noteVars, rowVars, smtpVars
<1>9. CASE LockNote \/ Rollback \/ Tick \/ UNCHANGED vars
  BY <1>3, <1>9 DEF LockNote, Rollback, Tick, vars, noteVars, rowVars, smtpVars
<1> QED
  BY <1>2, <1>4, <1>6, <1>7, <1>8, <1>9 DEF Next

(* No delivery is handed to SMTP twice, however many scanners and workers    *)
(* there are, whatever jobs are lost, duplicated or late, and whoever crashes.*)
THEOREM AtMostOneAttempt == Spec => []AtMostOneCall
<1>1. Spec => []AttemptInv
  BY AttemptInit, AttemptNext, PTL DEF Spec
<1>2. AttemptInv => AtMostOneCall
  BY DEF AttemptInv, CallsFollowState, AtMostOneCall
<1> QED
  BY <1>1, <1>2, PTL

(* A delivery recorded as sent was accepted by the mail server, and one that *)
(* is armed, withdrawn or missed was never handed to it.                     *)
THEOREM RecordsAreTrue == Spec => []ResultsAreTrue
<1>1. Spec => []AttemptInv
  BY AttemptInit, AttemptNext, PTL DEF Spec
<1>2. AttemptInv => ResultsAreTrue
  BY DEF AttemptInv, CallsFollowState, ResultsAreTrue, Started
<1> QED
  BY <1>1, <1>2, PTL

-----------------------------------------------------------------------------
(* What a step that is no edit does to one row. *)

RowStep(d) ==
  LET r == delivery[d]
      new == delivery'[d]
  IN  \/ new = r
      \/ new = [r EXCEPT !.snapshot = FALSE] /\ r.state # "attempt_started"
      \/ /\ r.state \in Live
         /\ \/ new \in {Closed(r, "missed"), Closed(r, "cancelled"), Reopened(r)}
            \/ \E t \in Time : new = Claimed(r, t)
      \/ /\ r.state = "claimed" /\ d \in Wanted
         /\ \E t \in Time : new = Authorized(r, t)
      \/ /\ r.state = "attempt_started"
         /\ \E state \in Outcomes : new = Concluded(r, state)

(* The same in terms of states and deadlines.                                *)
RowMove(d) ==
  LET r == delivery[d]
      new == delivery'[d]
  IN  \/ new = r
      \/ new = [r EXCEPT !.snapshot = FALSE]
      \/ /\ r.state \in Live /\ new.due = r.due
         /\ new.state \in {"pending", "claimed", "missed", "cancelled"}
      \/ /\ r.state \in Live /\ new.due = r.due
         /\ new.state = "attempt_started" /\ d \in Wanted
      \/ /\ r.state = "attempt_started" /\ new.due = r.due
         /\ new.state \in Outcomes

LEMMA RowStepMoves ==
  ASSUME TypeOK, NEW d \in Deliveries, RowStep(d)
  PROVE  RowMove(d)
<1> DEFINE r == delivery[d]
           new == delivery'[d]
<1>1. r \in Row
  BY DEF TypeOK
<1>2. CASE new = r \/ new = [r EXCEPT !.snapshot = FALSE]
  BY <1>2 DEF RowMove
<1>3. CASE r.state \in Live /\ new \in {Closed(r, "missed"), Closed(r, "cancelled"), Reopened(r)}
  BY <1>1, <1>3 DEF RowMove, Closed, Reopened, Row
<1>4. ASSUME NEW t \in Time, r.state \in Live, new = Claimed(r, t)
      PROVE  RowMove(d)
  BY <1>1, <1>4 DEF RowMove, Claimed, Row
<1>5. ASSUME NEW t \in Time, r.state = "claimed", d \in Wanted, new = Authorized(r, t)
      PROVE  RowMove(d)
  BY <1>1, <1>5 DEF RowMove, Authorized, Row, Live
<1>6. ASSUME NEW state \in Outcomes, r.state = "attempt_started", new = Concluded(r, state)
      PROVE  RowMove(d)
  BY <1>1, <1>6 DEF RowMove, Concluded, Row
<1> QED
  BY <1>2, <1>3, <1>4, <1>5, <1>6 DEF RowStep

(* A step that is no edit keeps rules and schedule, and a note that reminds. *)
QuietNote ==
  /\ UNCHANGED rules
  /\ note' = note \/ (note.status = "trash" /\ note' = [note EXCEPT !.status = "purged"])

LEMMA AuthorizeRowSteps ==
  ASSUME TypeOK, NEW w \in Workers, Authorize(w), NEW d \in Deliveries
  PROVE  RowStep(d)
<1> DEFINE e == worker[w].job.row
           r == delivery[e]
           v == Verdict(w)
<1>1. e \in Deliveries /\ r \in Row
  BY DEF TypeOK, WorkerState, Job
<1>2. CASE d # e \/ ~HoldsClaim(w)
  <2>1. delivery'[d] = delivery[d]
    BY <1>1, <1>2 DEF Authorize, TypeOK
  <2> QED
    BY <2>1 DEF RowStep
<1>3. CASE d = e /\ HoldsClaim(w)
  <2>1. delivery'[e] = v /\ r.state = "claimed"
    BY <1>1, <1>3 DEF Authorize, TypeOK, HoldsClaim
  <2>2. \/ v = Closed(r, "cancelled") \/ v = Reopened(r) \/ v = Closed(r, "missed")
        \/ v = Authorized(r, worker[w].at) /\ Eligible(w)
    BY DEF Verdict
  <2>3. Eligible(w) => e \in Wanted
    BY <1>1 DEF Eligible, Wanted
  <2>4. worker[w].at \in Time
    BY DEF TypeOK, WorkerState
  <2> HIDE DEF v, r, e
  <2> QED
    BY <1>3, <2>1, <2>2, <2>3, <2>4 DEF RowStep, Live, r, e
<1> QED
  BY <1>2, <1>3

LEMMA QuietSteps ==
  ASSUME TypeOK, [Next]_vars
  PROVE  Edit \/ (QuietNote /\ \A d \in Deliveries : RowStep(d))
<1>1. CASE UNCHANGED <<rules, note, delivery>>
  BY <1>1 DEF QuietNote, RowStep
<1>2. CASE PurgeNote
  <2>1. QuietNote
    BY <1>2 DEF PurgeNote, QuietNote
  <2> QED
    BY <1>2, <2>1 DEF PurgeNote, RowStep
<1>3. ASSUME NEW s \in Scanners, ClaimBatch(s)
      PROVE  QuietNote /\ \A d \in Deliveries : RowStep(d)
  <2>1. PICK batch \in SUBSET {d \in Deliveries : Claimable(d, scan[s].now)} :
          delivery' = [d \in Deliveries |->
                         IF d \in {e \in batch : ~TooLate(e, scan[s].now)}
                         THEN Claimed(delivery[d], scan[s].now)
                         ELSE IF d \in batch THEN Closed(delivery[d], "missed")
                         ELSE delivery[d]]
    BY <1>3 DEF ClaimBatch, Batches, Lockable
  <2>2. \A d \in batch : delivery[d].state \in Live
    BY DEF Claimable, Live
  <2>3. scan[s].now \in Time
    BY DEF TypeOK, ScanState
  <2>4. \A d \in Deliveries :
          \/ delivery'[d] = delivery[d]
          \/ /\ delivery[d].state \in Live
             /\ delivery'[d] \in {Claimed(delivery[d], scan[s].now), Closed(delivery[d], "missed")}
    BY <2>1, <2>2
  <2> QED
    BY <1>3, <2>3, <2>4 DEF ClaimBatch, noteVars, QuietNote, RowStep
<1>4. ASSUME NEW w \in Workers, Authorize(w)
      PROVE  QuietNote /\ \A d \in Deliveries : RowStep(d)
  BY <1>4, AuthorizeRowSteps DEF Authorize, noteVars, QuietNote
<1>5. ASSUME NEW w \in Workers, Record(w)
      PROVE  QuietNote /\ \A d \in Deliveries : RowStep(d)
  <2> DEFINE e == worker[w].job.row
             result == ResultOf(worker[w].report)
  <2>1. e \in Deliveries /\ delivery[e] \in Row /\ result \in Outcomes
    BY DEF TypeOK, WorkerState, Job, ResultOf, Outcomes
  <2>2. \/ delivery' = delivery
        \/ /\ delivery[e].state = "attempt_started"
           /\ delivery' = [delivery EXCEPT ![e] = Concluded(@, result)]
    BY <1>5 DEF Record, rowVars
  <2> HIDE DEF e, result
  <2>3. \A d \in Deliveries :
          \/ delivery'[d] = delivery[d]
          \/ /\ delivery[d].state = "attempt_started"
             /\ delivery'[d] = Concluded(delivery[d], result)
    BY <2>1, <2>2 DEF TypeOK
  <2> QED
    BY <1>5, <2>1, <2>3 DEF Record, noteVars, QuietNote, RowStep
<1>6. CASE ClassifyUnknown
  <2>1. PICK batch \in SUBSET {d \in Deliveries : delivery[d].state = "attempt_started"} :
          delivery' = [d \in Deliveries |->
                         IF d \in batch THEN Concluded(delivery[d], "unknown") ELSE delivery[d]]
    BY <1>6 DEF ClassifyUnknown, Batches, Stale
  <2>2. \A d \in Deliveries :
          \/ delivery'[d] = delivery[d]
          \/ /\ delivery[d].state = "attempt_started"
             /\ delivery'[d] = Concluded(delivery[d], "unknown")
    BY <2>1
  <2>3. "unknown" \in Outcomes
    BY DEF Outcomes
  <2> QED
    BY <1>6, <2>2, <2>3 DEF ClassifyUnknown, noteVars, QuietNote, RowStep
<1>7. ASSUME NEW w \in Workers, TakeJob(w) \/ Send(w) \/ WorkerCrash(w)
      PROVE  UNCHANGED <<rules, note, delivery>>
  BY <1>7 DEF TakeJob, Send, WorkerCrash, noteVars, rowVars
<1>8. ASSUME NEW s \in Scanners, StartScan(s) \/ Enqueue(s) \/ NextBatch(s) \/ ScanCrash(s)
      PROVE  UNCHANGED <<rules, note, delivery>>
  BY <1>8 DEF StartScan, Enqueue, NextBatch, ScanCrash, noteVars, rowVars
<1>9. CASE LockNote \/ Rollback \/ Tick \/ UNCHANGED vars
  BY <1>1, <1>9 DEF LockNote, Rollback, Tick, vars, noteVars, rowVars
<1> QED
  BY <1>1, <1>2, <1>3, <1>4, <1>5, <1>6, <1>7, <1>8, <1>9 DEF Next, ScanStep, WorkerStep

-----------------------------------------------------------------------------
(* History is immutable. *)

LEMMA CommitKeepsSettled ==
  ASSUME TypeOK, UnbornBeyondCycle, NEW n, NEW wanted, NEW changed,
         Commit(n, wanted, changed), NEW d \in Deliveries, Settled(d)
  PROVE  delivery'[d] = delivery[d]
<1> DEFINE r == delivery[d]
           o == d[1]
           cycle == rules[o].cycle
<1>1. delivery'[d] = ReconciledRow(d, n, wanted, changed, lockedAt)
  BY DEF Commit, Reconcile
<1>2. cycle \in Nat /\ d[2] \in Nat
  BY DeliveryParts, BoundsAssumption DEF TypeOK
<1>3. r.state \notin Live \cup {"absent"}
  BY DEF Settled, Live, Outcomes
<1>4. d[2] # cycle + 1
  BY <1>2, <1>3 DEF UnbornBeyondCycle
<1>5. Withdrawn(r) = r
  BY <1>3 DEF Withdrawn
<1>6. d[2] = cycle => r.state # "cancelled"
  BY <1>2 DEF Settled, Outcomes
<1>7. d[2] = cycle => Refreshed(r, n, o, lockedAt) = r
  BY <1>3, <1>5, <1>6 DEF Refreshed
<1> HIDE DEF r, o, cycle
<1> QED
  BY <1>1, <1>4, <1>5, <1>7, Zenon DEF ReconciledRow, r, o, cycle

(* A delivery that was missed or concluded, or that belongs to an earlier    *)
(* cycle, never changes again, whatever edits, scans, workers, maintenance   *)
(* and purges follow; a purge only forgets its snapshot.                     *)
THEOREM HistoryNeverChanges == Spec => HistoryIsImmutable
<1> DEFINE Kept(d) ==
      Settled(d) => delivery'[d] \in {delivery[d], [delivery[d] EXCEPT !.snapshot = FALSE]}
<1>1. ASSUME AttemptInv, [Next]_vars, NEW d \in Deliveries
      PROVE  Kept(d)
  <2>1. TypeOK /\ UnbornBeyondCycle
    BY <1>1 DEF AttemptInv
  <2>2. ASSUME NEW n, NEW wanted, NEW changed, Commit(n, wanted, changed)
        PROVE  Kept(d)
    BY <2>1, <2>2, CommitKeepsSettled
  <2>3. CASE Edit
    BY <2>2, <2>3 DEF Edit, CreateNote, UpdateNote, DeleteNote, RestoreNote
  <2>4. CASE RowStep(d)
    BY <2>1, <2>4, RowStepMoves DEF RowMove, Settled, Live, Outcomes
  <2> QED
    BY <1>1, <2>1, <2>3, <2>4, QuietSteps
<1>2. AttemptInv /\ [Next]_vars => [\A d \in Deliveries : Kept(d)]_vars
  BY <1>1
<1>3. Spec => []AttemptInv
  BY AttemptInit, AttemptNext, PTL DEF Spec
<1> QED
  BY <1>2, <1>3, PTL DEF Spec, HistoryIsImmutable

-----------------------------------------------------------------------------
(* What is armed is current. *)

(* The current cycle of an enabled rule carries the note's schedule.         *)
DueFollowsNote ==
  \A d \in Deliveries :
    rules[d[1]].enabled /\ rules[d[1]].cycle = d[2] => delivery[d].due = DueAt(note, d[1])

(* A note that does not exist has no rules.                                  *)
NoRulesYet == note.status = "none" => \A o \in Offsets : ~rules[o].enabled

ArmedInv == ArmedIsCurrent /\ DueFollowsNote /\ NoRulesYet

LEMMA ArmedInit == Init => ArmedInv
<1> SUFFICES ASSUME Init PROVE ArmedInv
  OBVIOUS
<1>1. \A d \in Deliveries : delivery[d].state = "absent" /\ ~rules[d[1]].enabled
  BY DeliveryParts DEF Init, Absent
<1> QED
  BY <1>1 DEF Init, ArmedInv, ArmedIsCurrent, DueFollowsNote, NoRulesYet, Live

(* An edit that keeps the schedule, or tells reconcile_reminders that it     *)
(* changed, or meets no enabled rule, leaves only current reminders armed.   *)
LEMMA CommitKeepsArmed ==
  ASSUME TypeOK, ArmedInv, NEW n, NEW wanted, NEW changed, Commit(n, wanted, changed),
         n.status # "none",
         changed \/ n.starts = note.starts \/ \A o \in Offsets : ~rules[o].enabled
  PROVE  ArmedInv'
<1>1. ASSUME NEW d \in Deliveries
      PROVE  /\ rules'[d[1]].enabled /\ rules'[d[1]].cycle = d[2]
                => delivery'[d].due = DueAt(n, d[1])
             /\ delivery'[d].state \in Live =>
                  MayRemind(n) /\ rules'[d[1]].enabled /\ rules'[d[1]].cycle = d[2]
  <2> DEFINE r == delivery[d]
             o == d[1]
             cycle == rules[o].cycle
             next == NextCycle(o, wanted, changed)
             new == delivery'[d]
  <2>1. o \in Offsets /\ cycle \in Nat /\ d[2] \in Nat /\ r \in Row
    BY DeliveryParts, BoundsAssumption DEF TypeOK
  <2>2. /\ rules'[o].enabled <=> o \in wanted
        /\ rules'[o].cycle = IF next THEN cycle + 1 ELSE cycle
    <3>1. rules'[o] = [enabled |-> o \in wanted, cycle |-> CycleAfter(o, wanted, changed)]
      BY <2>1 DEF Commit, Reconcile
    <3>2. rules'[o].enabled = (o \in wanted)
      BY <3>1 DEF o
    <3>3. rules'[o].cycle = CycleAfter(o, wanted, changed)
      BY <3>1
    <3>4. CycleAfter(o, wanted, changed) = IF next THEN cycle + 1 ELSE cycle
      BY <2>1 DEF CycleAfter
    <3> HIDE DEF o, next, cycle
    <3> QED
      BY <3>2, <3>3, <3>4, Zenon
  <2>3. new = ReconciledRow(d, n, wanted, changed, lockedAt)
    BY DEF Commit, Reconcile
  <2>4. /\ next => o \in wanted
        /\ o \in wanted /\ ~next => rules[o].enabled /\ ~changed
    BY DEF NextCycle
  <2>5. CASE d[2] = cycle + 1 /\ next
    <3>1. new = NewDelivery(n, o, lockedAt)
      <4>1. ~(d[2] = cycle)
        BY <2>1, <2>5
      <4> QED
        BY <2>3, <2>5, <4>1, Zenon DEF ReconciledRow
    <3>2. new.due = DueAt(n, o) /\ (new.state \in Live => MayRemind(n))
      BY <3>1 DEF NewDelivery, Closed, Reopened, Absent, Live
    <3> QED
      BY <2>2, <2>4, <2>5, <3>2
  <2>6. CASE d[2] = cycle /\ o \in wanted /\ ~next
    <3>1. new = Refreshed(r, n, o, lockedAt)
      BY <2>1, <2>3, <2>6, Zenon DEF ReconciledRow
    <3>2. new.due = r.due /\ (new.state \in Live => MayRemind(n))
      BY <2>1, <3>1 DEF Refreshed, Withdrawn, Closed, Reopened, Row, Live
    <3>3. r.due = DueAt(note, o) /\ n.starts = note.starts
      BY <2>1, <2>4, <2>6 DEF ArmedInv, DueFollowsNote
    <3> QED
      BY <2>2, <2>6, <3>2, <3>3 DEF DueAt
  <2>7. CASE d[2] = cycle /\ (o \in wanted => next)
    <3>1. new = Withdrawn(r)
      BY <2>1, <2>3, <2>4, <2>7 DEF ReconciledRow
    <3>2. new.state \notin Live
      BY <2>1, <3>1 DEF Withdrawn, Closed, Row, Live
    <3> QED
      BY <2>1, <2>2, <2>7, <3>2
  <2>8. CASE d[2] # cycle /\ ~(d[2] = cycle + 1 /\ next)
    <3>1. new = r
      BY <2>3, <2>8, Zenon DEF ReconciledRow
    <3>2. r.state \notin Live
      BY <2>8 DEF ArmedInv, ArmedIsCurrent
    <3> QED
      BY <2>1, <2>2, <2>8, <3>1, <3>2
  <2> QED
    BY <2>5, <2>6, <2>7, <2>8
<1>2. note' = n
  BY DEF Commit
<1>3. MayRemind(note)' <=> MayRemind(n)
  BY <1>2 DEF MayRemind
<1>4. \A o \in Offsets : DueAt(note', o) = DueAt(n, o)
  BY <1>2
<1>5. ArmedIsCurrent' /\ DueFollowsNote'
  BY <1>1, <1>2, <1>3 DEF ArmedIsCurrent, DueFollowsNote
<1>6. NoRulesYet'
  BY <1>2 DEF NoRulesYet
<1> QED
  BY <1>5, <1>6 DEF ArmedInv

LEMMA QuietStepsKeepArmed ==
  ASSUME TypeOK, ArmedInv, QuietNote, \A d \in Deliveries : RowStep(d)
  PROVE  ArmedInv'
<1>1. ASSUME NEW d \in Deliveries
      PROVE  /\ delivery'[d].due = delivery[d].due
             /\ delivery'[d].state \in Live => delivery[d].state \in Live
  <2>1. RowMove(d) /\ delivery[d] \in Row
    BY RowStepMoves DEF TypeOK
  <2> QED
    BY <2>1 DEF RowMove, Row, Live, Outcomes
<1>2. /\ rules' = rules /\ note'.starts = note.starts
      /\ note'.status = "none" => note.status = "none"
      /\ MayRemind(note) => note' = note
  BY DEF QuietNote, MayRemind, TypeOK, Notes
<1>3. ArmedIsCurrent'
  BY <1>1, <1>2 DEF ArmedInv, ArmedIsCurrent
<1>4. DueFollowsNote'
  BY <1>1, <1>2 DEF ArmedInv, DueFollowsNote, DueAt
<1>5. NoRulesYet'
  BY <1>2 DEF ArmedInv, NoRulesYet
<1> QED
  BY <1>3, <1>4, <1>5 DEF ArmedInv

LEMMA ArmedNext == TypeOK /\ ArmedInv /\ [Next]_vars => ArmedInv'
<1> SUFFICES ASSUME TypeOK, ArmedInv, [Next]_vars PROVE ArmedInv'
  OBVIOUS
<1>1. ASSUME NEW starts, NEW active, NEW wanted, CreateNote(starts, active, wanted)
      PROVE  ArmedInv'
  <2>1. \A o \in Offsets : ~rules[o].enabled
    BY <1>1 DEF CreateNote, ArmedInv, NoRulesYet
  <2> DEFINE n == [status |-> "kept", active |-> active, starts |-> starts, deletedAt |-> Unset]
  <2>2. n.status # "none" /\ Commit(n, wanted, FALSE)
    BY <1>1 DEF CreateNote
  <2> HIDE DEF n
  <2> QED
    BY <2>1, <2>2, CommitKeepsArmed
<1>2. ASSUME NEW starts, NEW active, NEW wanted, UpdateNote(starts, active, wanted)
      PROVE  ArmedInv'
  <2> DEFINE n == [note EXCEPT !.starts = starts, !.active = active]
  <2>1. n.status = "kept" /\ n.starts = starts
    BY <1>2 DEF UpdateNote, TypeOK, Notes
  <2>2. Commit(n, wanted, note.starts # starts)
    BY <1>2 DEF UpdateNote
  <2> HIDE DEF n
  <2> QED
    BY <2>1, <2>2, CommitKeepsArmed
<1>3. CASE DeleteNote
  <2> DEFINE n == [note EXCEPT !.status = "trash", !.deletedAt = lockedAt]
  <2>1. n.status = "trash" /\ n.starts = note.starts
    BY DEF TypeOK, Notes
  <2>2. Commit(n, EnabledOffsets, FALSE)
    BY <1>3 DEF DeleteNote
  <2> HIDE DEF n
  <2> QED
    BY <2>1, <2>2, CommitKeepsArmed
<1>4. CASE RestoreNote
  <2> DEFINE n == [note EXCEPT !.status = "kept", !.deletedAt = Unset]
  <2>1. n.status = "kept" /\ n.starts = note.starts
    BY DEF TypeOK, Notes
  <2>2. Commit(n, EnabledOffsets, FALSE)
    BY <1>4 DEF RestoreNote
  <2> HIDE DEF n
  <2> QED
    BY <2>1, <2>2, CommitKeepsArmed
<1> QED
  BY <1>1, <1>2, <1>3, <1>4, QuietSteps, QuietStepsKeepArmed DEF Edit

(* Nothing an edit withdrew stays armed: a row the scanner may still claim   *)
(* belongs to a note that reminds now, to the current cycle of an enabled    *)
(* rule and to the note's current schedule.                                  *)
THEOREM OnlyCurrentIsArmed == Spec => []ArmedIsCurrent
<1>1. Spec => [](TypeOK /\ ArmedInv)
  BY TypeInit, TypeNext, ArmedInit, ArmedNext, PTL DEF Spec
<1>2. ArmedInv => ArmedIsCurrent
  BY DEF ArmedInv
<1> QED
  BY <1>1, <1>2, PTL

-----------------------------------------------------------------------------
(* The shape of a delivery row. *)

Blank(r) == ~r.snapshot /\ r.authorized = Unset /\ ~r.error

(* The shapes, one by one: the form in which the lemmas below use them.      *)
LEMMA Shapes ==
  ASSUME NEW r
  PROVE  /\ r.state = "absent" => (Shaped(r) <=> r = Absent)
         /\ r.state = "pending" =>
              (Shaped(r) <=> Blank(r) /\ ~r.result /\ r.token = Unset /\ r.expires = Unset)
         /\ r.state = "claimed" =>
              (Shaped(r) <=> Blank(r) /\ ~r.result /\ r.token # Unset /\ r.expires # Unset)
         /\ r.state = "attempt_started" =>
              (Shaped(r) <=> /\ r.token # Unset /\ r.expires = Unset /\ r.authorized # Unset
                             /\ r.snapshot /\ ~r.result /\ ~r.error)
         /\ r.state \in Outcomes =>
              (Shaped(r) <=> /\ r.token # Unset /\ r.expires = Unset /\ r.authorized # Unset
                             /\ r.result /\ (r.error <=> r.state # "sent"))
         /\ r.state \in {"missed", "cancelled"} =>
              (Shaped(r) <=> Blank(r) /\ r.result /\ r.token = Unset /\ r.expires = Unset)
BY DEF Shaped, Blank, Outcomes

LEMMA ClosingKeepsShape ==
  ASSUME NEW r \in Row, Blank(r), NEW state \in {"missed", "cancelled"}
  PROVE  Shaped(Closed(r, state))
<1> DEFINE new == Closed(r, state)
<1>1. /\ new.state = state /\ new.token = Unset /\ new.expires = Unset /\ new.result
      /\ new.snapshot = r.snapshot /\ new.authorized = r.authorized /\ new.error = r.error
  BY DEF Closed, Row
<1> HIDE DEF new
<1>2. Blank(new)
  BY <1>1 DEF Blank
<1> QED
  BY <1>1, <1>2, Shapes DEF new

LEMMA ReopeningKeepsShape ==
  ASSUME NEW r \in Row, Blank(r)
  PROVE  Shaped(Reopened(r))
<1> DEFINE new == Reopened(r)
<1>1. /\ new.state = "pending" /\ new.token = Unset /\ new.expires = Unset /\ ~new.result
      /\ new.snapshot = r.snapshot /\ new.authorized = r.authorized /\ new.error = r.error
  BY DEF Reopened, Row
<1> HIDE DEF new
<1>2. Blank(new)
  BY <1>1 DEF Blank
<1> QED
  BY <1>1, <1>2, Shapes DEF new

LEMMA ClaimingKeepsShape ==
  ASSUME NEW r \in Row, Shaped(r), r.state \in Live, NEW t \in Time
  PROVE  Shaped(Claimed(r, t))
<1> DEFINE new == Claimed(r, t)
<1>1. Blank(r) /\ ~r.result
  BY Shapes DEF Live
<1>2. r.claims + 1 # Unset /\ t + Lease # Unset
  BY ReadingsAreTimes, TimesAssumption DEF Row, Unset
<1>3. /\ new.state = "claimed" /\ new.token = r.claims + 1 /\ new.expires = t + Lease
      /\ new.result = r.result /\ new.snapshot = r.snapshot
      /\ new.authorized = r.authorized /\ new.error = r.error
  BY DEF Claimed, Row
<1> HIDE DEF new
<1>4. Blank(new) /\ ~new.result /\ new.token # Unset /\ new.expires # Unset
  BY <1>1, <1>2, <1>3 DEF Blank
<1> QED
  BY <1>3, <1>4, Shapes DEF new

LEMMA AuthorizingKeepsShape ==
  ASSUME NEW r \in Row, Shaped(r), r.state = "claimed", NEW t \in Time
  PROVE  Shaped(Authorized(r, t))
<1> DEFINE new == Authorized(r, t)
<1>1. ~r.result /\ ~r.error /\ r.token # Unset
  BY Shapes DEF Blank
<1>2. t # Unset
  BY ReadingsAreTimes
<1>3. /\ new.state = "attempt_started" /\ new.token = r.token /\ new.expires = Unset
      /\ new.result = r.result /\ new.snapshot /\ new.authorized = t /\ new.error = r.error
  BY DEF Authorized, Row
<1> HIDE DEF new
<1> QED
  BY <1>1, <1>2, <1>3, Shapes DEF new

LEMMA ConcludingKeepsShape ==
  ASSUME NEW r \in Row, Shaped(r), r.state = "attempt_started", NEW state \in Outcomes
  PROVE  Shaped(Concluded(r, state))
<1> DEFINE new == Concluded(r, state)
<1>1. r.token # Unset /\ r.expires = Unset /\ r.authorized # Unset
  BY Shapes
<1>2. /\ new.state = state /\ new.token = r.token /\ new.expires = r.expires /\ new.result
      /\ new.authorized = r.authorized
  BY DEF Concluded, Row
<1>3. new.error <=> state # "sent"
  BY DEF Concluded, Row
<1> HIDE DEF new
<1> QED
  BY <1>1, <1>2, <1>3, Shapes DEF new

LEMMA ForgettingKeepsShape ==
  ASSUME NEW r \in Row, Shaped(r), r.state # "attempt_started"
  PROVE  Shaped([r EXCEPT !.snapshot = FALSE])
<1> DEFINE new == [r EXCEPT !.snapshot = FALSE]
<1>1. /\ new.state = r.state /\ new.token = r.token /\ new.expires = r.expires
      /\ new.authorized = r.authorized
  BY DEF Row
<1>2. new.result = r.result /\ new.error = r.error /\ ~new.snapshot
  BY DEF Row
<1>3. CASE r.state = "absent"
  <2>1. r = Absent
    BY <1>3, Shapes
  <2>2. r.snapshot = FALSE
    BY <2>1 DEF Absent
  <2>3. new = r
    BY <2>2 DEF Row
  <2> QED
    BY <2>3
<1>4. r.state \in {"pending", "claimed", "missed", "cancelled"} => Blank(r) /\ Blank(new)
  BY <1>1, <1>2, Shapes DEF Blank
<1>5. r.state \in States
  BY DEF Row
<1> HIDE DEF new
<1>6. r.state \in {"pending", "claimed"} => Shaped(new)
  BY <1>1, <1>2, <1>4, Shapes
<1>7. r.state \in {"missed", "cancelled"} => Shaped(new)
  BY <1>1, <1>2, <1>4, Shapes
<1>8. r.state \in Outcomes => Shaped(new)
  BY <1>1, <1>2, Shapes
<1> QED
  BY <1>3, <1>5, <1>6, <1>7, <1>8 DEF new, States, Live

LEMMA RowStepKeepsShape ==
  ASSUME TypeOK, NEW d \in Deliveries, Shaped(delivery[d]), RowStep(d)
  PROVE  Shaped(delivery'[d])
<1> DEFINE r == delivery[d]
<1>1. r \in Row
  BY DEF TypeOK
<1>2. r.state \in Live => Blank(r)
  BY Shapes DEF Live
<1>3. CASE r.state \in Live
           /\ delivery'[d] \in {Closed(r, "missed"), Closed(r, "cancelled"), Reopened(r)}
  BY <1>1, <1>2, <1>3, ClosingKeepsShape, ReopeningKeepsShape
<1> QED
  BY <1>1, <1>3, ClaimingKeepsShape, AuthorizingKeepsShape, ConcludingKeepsShape,
     ForgettingKeepsShape DEF RowStep

LEMMA CommitKeepsShape ==
  ASSUME TypeOK, NEW n \in Notes, NEW wanted, NEW changed, Commit(n, wanted, changed),
         NEW d \in Deliveries, Shaped(delivery[d])
  PROVE  Shaped(delivery'[d])
<1> DEFINE r == delivery[d]
           o == d[1]
           fresh == [Absent EXCEPT !.due = DueAt(n, o)]
<1>1. r \in Row /\ fresh \in Row /\ Blank(fresh)
  <2>1. Absent \in Row /\ DueAt(n, o) \in Int
    BY DeliveryParts DEF Absent, Row, States, Unset, DueAt, Notes
  <2> HIDE DEF o
  <2> QED
    BY <2>1 DEF Row, Absent, Blank, TypeOK
<1>2. r.state \in Live \cup {"cancelled"} => Blank(r)
  BY Shapes DEF Live
<1>3. Shaped(NewDelivery(n, o, lockedAt))
  <2>1. Shaped(Closed(fresh, "cancelled")) /\ Shaped(Closed(fresh, "missed"))
        /\ Shaped(Reopened(fresh))
    BY <1>1, ClosingKeepsShape, ReopeningKeepsShape
  <2> HIDE DEF fresh
  <2>2. NewDelivery(n, o, lockedAt) \in {Closed(fresh, "cancelled"), Closed(fresh, "missed"),
                                         Reopened(fresh)}
    BY DEF NewDelivery, fresh
  <2> QED
    BY <2>1, <2>2
<1>4. Shaped(Withdrawn(r))
  BY <1>1, <1>2, ClosingKeepsShape DEF Withdrawn
<1>5. Shaped(Refreshed(r, n, o, lockedAt))
  BY <1>1, <1>2, <1>4, ReopeningKeepsShape DEF Refreshed
<1>6. delivery'[d] = ReconciledRow(d, n, wanted, changed, lockedAt)
  BY DEF Commit, Reconcile
<1> QED
  BY <1>3, <1>4, <1>5, <1>6, Zenon DEF ReconciledRow

LEMMA ShapeInit == Init => DeliveryShape
<1>1. Shaped(Absent)
  <2>1. Absent.state = "absent"
    BY DEF Absent
  <2> QED
    BY <2>1, Shapes
<1> QED
  BY <1>1 DEF Init, DeliveryShape

LEMMA ShapeNext == TypeOK /\ DeliveryShape /\ [Next]_vars => DeliveryShape'
<1> SUFFICES ASSUME TypeOK, DeliveryShape, [Next]_vars, NEW d \in Deliveries
             PROVE  Shaped(delivery'[d])
  BY DEF DeliveryShape
<1>1. Shaped(delivery[d]) /\ TypeOK'
  BY TypeNext DEF DeliveryShape
<1>2. ASSUME NEW n, NEW wanted, NEW changed, Commit(n, wanted, changed)
      PROVE  Shaped(delivery'[d])
  <2>1. n \in Notes
    BY <1>1, <1>2 DEF Commit, TypeOK
  <2> QED
    BY <1>1, <1>2, <2>1, CommitKeepsShape
<1>3. CASE Edit
  BY <1>2, <1>3 DEF Edit, CreateNote, UpdateNote, DeleteNote, RestoreNote
<1> QED
  BY <1>1, <1>3, QuietSteps, RowStepKeepsShape

(* No legal interleaving makes PostgreSQL reject a row: the CHECK constraint *)
(* on the state of a delivery holds after every committed transaction.       *)
THEOREM RowsKeepShape == Spec => []DeliveryShape
<1>1. Spec => [](TypeOK /\ DeliveryShape)
  BY TypeInit, TypeNext, ShapeInit, ShapeNext, PTL DEF Spec
<1> QED
  BY <1>1, PTL
=============================================================================
