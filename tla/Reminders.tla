------------------------------ MODULE Reminders ------------------------------
(***************************************************************************)
(* The durable reminders of one note: the note's lifecycle as the HTTP     *)
(* handlers drive it, the due-work scanner, the Celery queue, the delivery *)
(* workers, the SMTP server, the maintenance task and the trash cleanup.   *)
(*                                                                         *)
(* A transaction that takes all its row locks and reads everything it uses *)
(* behind them is one atomic step.  The two places where the code does not *)
(* do so are split: a handler and a worker read the clock before they wait *)
(* for locks (lockedAt, worker[w].at), and a scan keeps one reading of the *)
(* clock over all its batches and enqueues after it commits (scan[s]).     *)
(***************************************************************************)
EXTENDS Integers, FiniteSets

CONSTANTS
  Offsets,        (* Reminder offsets a note may ask for, in time units.     *)
  Starts,         (* Values of starts_at an edit may choose.                 *)
  Scanners,       (* Runs of app.jobs.scan_due that may overlap.             *)
  Workers,        (* Celery worker processes executing deliver_reminder.     *)
  Grace,          (* reminder_grace_seconds.                                 *)
  Lease,          (* reminder_claim_seconds.                                 *)
  UnknownAfter,   (* older_than_seconds of classify_unknown.                 *)
  Retention,      (* retention_days of the trash.                            *)
  BatchLimit,     (* Rows a scanner or maintenance transaction may lock.     *)
  Skew,           (* How far behind a process may read the clock.            *)
  MaxTime,        (* Bound: the clock stops here.                            *)
  MaxCycle,       (* Bound: cycles of one rule.                              *)
  MaxClaims,      (* Bound: claims of one row; with Skew = 0 a row needs     *)
                  (* Grace \div Lease + 1 of them, and as many per edit.     *)
  MaxEdits        (* Bound: note transactions that end.                      *)

ASSUME SetsAssumption ==
  /\ Offsets \subseteq Nat /\ Offsets # {}
  /\ Starts \subseteq Int

ASSUME TimesAssumption ==
  /\ Grace \in Nat /\ Lease \in Nat \ {0} /\ UnknownAfter \in Nat
  /\ Retention \in Nat /\ Skew \in Nat

ASSUME BoundsAssumption ==
  /\ BatchLimit \in Nat \ {0}
  /\ MaxTime \in Nat /\ MaxCycle \in Nat \ {0} /\ MaxClaims \in Nat /\ MaxEdits \in Nat

VARIABLES
  clock,      (* The instant every utcnow() approximates.                    *)
  note,       (* The row of notes.                                           *)
  rules,      (* reminder_rules by offset; cycle 0 stands for no row.        *)
  delivery,   (* reminder_deliveries by offset and cycle number.             *)
  notice,     (* notifications by reminder_delivery_id.                      *)
  events,     (* Number of notification.created rows written per delivery.   *)
  lockedAt,   (* The clock a handler read while holding the note, or Free.   *)
  edits,      (* Number of note transactions ended.                          *)
  scan,       (* Local state of each scan_and_enqueue.                       *)
  queue,      (* deliver_reminder messages the broker accepted.              *)
  worker,     (* Local state of each deliver.                                *)
  calls,      (* History: calls of EmailSender.send per delivery.            *)
  mailed      (* History: messages the SMTP server accepted per delivery.    *)

noteVars  == <<note, rules, lockedAt, edits>>
rowVars   == <<delivery, notice, events>>
smtpVars  == <<calls, mailed>>
vars == <<clock, noteVars, rowVars, scan, queue, worker, smtpVars>>

Time  == 0 .. MaxTime
Free  == -1
Unset == -1
Deliveries == Offsets \X (1 .. MaxCycle)

-----------------------------------------------------------------------------
(* Rows and messages. *)

Live     == {"pending", "claimed"}
Outcomes == {"sent", "failed", "unknown"}
States   == {"absent", "missed", "cancelled", "attempt_started"} \cup Live \cup Outcomes

Row == [state: States, due: Int, token: Nat \cup {Unset}, claims: Nat,
        expires: Int, authorized: Time \cup {Unset},
        snapshot: BOOLEAN, result: BOOLEAN, error: BOOLEAN]

Absent == [state |-> "absent", due |-> 0, token |-> Unset, claims |-> 0,
           expires |-> Unset, authorized |-> Unset,
           snapshot |-> FALSE, result |-> FALSE, error |-> FALSE]

Notes == [status: {"none", "kept", "trash", "purged"}, active: BOOLEAN,
          starts: Int, deletedAt: Time \cup {Unset}]

(* A notification row: whether it exists, still has the note's words, and   *)
(* carries an "[Email ...]" prefix.                                         *)
Notice   == [exists: BOOLEAN, words: BOOLEAN, prefixed: BOOLEAN]
NoNotice == [exists |-> FALSE, words |-> FALSE, prefixed |-> FALSE]

(* uuid4 claim tokens: the n-th claim of a row draws the n-th token.        *)
Job == [row: Deliveries, token: Nat]

(* What the SMTP session told the worker, and whether DATA was accepted.    *)
Reports == {"ok", "rejected", "ambiguous", "invalid_recipient"}

ScanState   == [pc: {"idle", "batch", "enqueue"}, now: Time,
                claims: SUBSET Job, last: BOOLEAN]
WorkerState == [pc: {"idle", "authorize", "send", "record"}, job: Job, at: Time,
                report: Reports]

-----------------------------------------------------------------------------
(* Helpers. *)

(* Operators named Bad... are faulty forms of the definition that follows    *)
(* them.  No definition of the specification uses one: each is a slip the    *)
(* code could have made, kept to show which property would notice.           *)
BadNow == {clock - 1}

(* utcnow(): hosts may lag the instant the transaction order defines.       *)
Now == {t \in Time : t <= clock /\ clock - t <= Skew}

DueAt(n, o) == n.starts - o

(* The eligibility test shared by _new_delivery and reconcile_reminders.    *)
MayRemind(n) == n.status = "kept" /\ n.active

BadClosed(r, state) == [r EXCEPT !.state = state, !.result = TRUE]

(* A row leaves the claimable states with its claim cleared.                *)
Closed(r, state) ==
  [r EXCEPT !.state = state, !.token = Unset, !.expires = Unset, !.result = TRUE]

Reopened(r) ==
  [r EXCEPT !.state = "pending", !.token = Unset, !.expires = Unset, !.result = FALSE]

Claimed(r, now) ==
  [r EXCEPT !.state = "claimed", !.token = r.claims + 1, !.claims = r.claims + 1,
            !.expires = now + Lease]

-----------------------------------------------------------------------------
(* Reminder reconciliation (domain/notes.py). *)

BadNewDelivery(n, o, now) ==
  LET fresh == [Absent EXCEPT !.due = DueAt(n, o)]
  IN  IF ~MayRemind(n) THEN Closed(fresh, "cancelled")
      ELSE IF DueAt(n, o) < now THEN Closed(fresh, "missed")
      ELSE Reopened(fresh)

(* _new_delivery *)
NewDelivery(n, o, now) ==
  LET fresh == [Absent EXCEPT !.due = DueAt(n, o)]
  IN  IF ~MayRemind(n) THEN Closed(fresh, "cancelled")
      ELSE IF DueAt(n, o) <= now THEN Closed(fresh, "missed")
      ELSE Reopened(fresh)

BadWithdrawn(r) == IF r.state = "pending" THEN Closed(r, "cancelled") ELSE r

Withdrawn(r) == IF r.state \in Live THEN Closed(r, "cancelled") ELSE r

BadRefreshed(r, n, o, now) ==
  IF MayRemind(n) /\ DueAt(n, o) > now THEN Reopened(r) ELSE Withdrawn(r)

(* The current cycle of a rule that keeps its schedule.                     *)
Refreshed(r, n, o, now) ==
  IF r.state \in Live \cup {"cancelled"} /\ MayRemind(n) /\ DueAt(n, o) > now
  THEN Reopened(r)
  ELSE Withdrawn(r)

(* A wanted offset gets a cycle when it is new, comes back or moves.        *)
NextCycle(o, wanted, changed) == o \in wanted /\ (changed \/ ~rules[o].enabled)

CycleAfter(o, wanted, changed) ==
  rules[o].cycle + (IF NextCycle(o, wanted, changed) THEN 1 ELSE 0)

BadReconciledRow(d, n, wanted, changed, now) ==
  LET o == d[1]
      r == delivery[d]
  IN  CASE d[2] = rules[o].cycle + 1 /\ NextCycle(o, wanted, changed) ->
             NewDelivery(n, o, now)
        [] d[2] <= rules[o].cycle /\ o \in wanted /\ ~NextCycle(o, wanted, changed) ->
             Refreshed(r, n, o, now)
        [] d[2] <= rules[o].cycle /\ (o \in wanted => NextCycle(o, wanted, changed)) ->
             Withdrawn(r)
        [] OTHER -> r

ReconciledRow(d, n, wanted, changed, now) ==
  LET o == d[1]
      r == delivery[d]
  IN  CASE d[2] = rules[o].cycle + 1 /\ NextCycle(o, wanted, changed) ->
             NewDelivery(n, o, now)
        [] d[2] = rules[o].cycle /\ o \in wanted /\ ~NextCycle(o, wanted, changed) ->
             Refreshed(r, n, o, now)
        [] d[2] = rules[o].cycle /\ (o \in wanted => NextCycle(o, wanted, changed)) ->
             Withdrawn(r)
        [] OTHER -> r

(* reconcile_reminders, called with the note's new values n.                *)
Reconcile(n, wanted, changed, now) ==
  /\ \A o \in Offsets : CycleAfter(o, wanted, changed) <= MaxCycle
  /\ rules' = [o \in Offsets |-> [enabled |-> o \in wanted,
                                  cycle |-> CycleAfter(o, wanted, changed)]]
  /\ delivery' = [d \in Deliveries |-> ReconciledRow(d, n, wanted, changed, now)]

-----------------------------------------------------------------------------
(* The HTTP handlers of one note (api/router.py).  LockNote takes the row   *)
(* lock and reads the clock; a handler below then commits and releases it.  *)

LockNote ==
  /\ lockedAt = Free
  /\ edits < MaxEdits
  /\ lockedAt' \in Now
  /\ UNCHANGED <<clock, note, rules, edits, rowVars, scan, queue, worker, smtpVars>>

(* Any ApiError, deadlock victim or lost connection: nothing is written.    *)
Rollback ==
  /\ lockedAt # Free
  /\ lockedAt' = Free
  /\ edits' = edits + 1
  /\ UNCHANGED <<clock, note, rules, rowVars, scan, queue, worker, smtpVars>>

BadCommit(n, wanted, changed) ==
  /\ lockedAt # Free
  /\ note' = n
  /\ Reconcile(note, wanted, changed, lockedAt)
  /\ lockedAt' = Free
  /\ edits' = edits + 1
  /\ UNCHANGED <<clock, notice, events, scan, queue, worker, smtpVars>>

Commit(n, wanted, changed) ==
  /\ lockedAt # Free
  /\ note' = n
  /\ Reconcile(n, wanted, changed, lockedAt)
  /\ lockedAt' = Free
  /\ edits' = edits + 1
  /\ UNCHANGED <<clock, notice, events, scan, queue, worker, smtpVars>>

EnabledOffsets == {o \in Offsets : rules[o].enabled}

CreateNote(starts, active, wanted) ==
  /\ note.status = "none"
  /\ Commit([status |-> "kept", active |-> active, starts |-> starts,
             deletedAt |-> Unset], wanted, FALSE)

UpdateNote(starts, active, wanted) ==
  /\ note.status = "kept"
  /\ Commit([note EXCEPT !.starts = starts, !.active = active], wanted,
            note.starts # starts)

DeleteNote ==
  /\ note.status = "kept"
  /\ Commit([note EXCEPT !.status = "trash", !.deletedAt = lockedAt],
            EnabledOffsets, FALSE)

RestoreNote ==
  /\ note.status = "trash"
  /\ note.deletedAt > lockedAt - Retention
  /\ Commit([note EXCEPT !.status = "kept", !.deletedAt = Unset],
            EnabledOffsets, FALSE)

BadPurgeNote ==
  /\ lockedAt = Free
  /\ note.status = "trash"
  /\ \E now \in Now : note.deletedAt <= now - Retention
  /\ note' = [note EXCEPT !.status = "purged"]
  /\ delivery' = [d \in Deliveries |-> [delivery[d] EXCEPT !.snapshot = FALSE]]
  /\ notice' = [d \in Deliveries |-> IF notice[d].exists
                  THEN [notice[d] EXCEPT !.words = FALSE, !.prefixed = FALSE]
                  ELSE notice[d]]
  /\ UNCHANGED <<clock, rules, lockedAt, edits, events, scan, queue, worker, smtpVars>>

(* purge_trash for this note.  Clearing the snapshots of a row in           *)
(* attempt_started breaks ck_delivery_state_shape and rolls everything back.*)
PurgeNote ==
  /\ lockedAt = Free
  /\ note.status = "trash"
  /\ \E now \in Now : note.deletedAt <= now - Retention
  /\ \A d \in Deliveries : delivery[d].state # "attempt_started"
  /\ note' = [note EXCEPT !.status = "purged"]
  /\ delivery' = [d \in Deliveries |-> [delivery[d] EXCEPT !.snapshot = FALSE]]
  /\ notice' = [d \in Deliveries |-> IF notice[d].exists
                  THEN [notice[d] EXCEPT !.words = FALSE, !.prefixed = FALSE]
                  ELSE notice[d]]
  /\ UNCHANGED <<clock, rules, lockedAt, edits, events, scan, queue, worker, smtpVars>>

-----------------------------------------------------------------------------
(* The scanner (jobs/reminders.py). *)

TooLate(d, now) == delivery[d].due < now - Grace

BadClaimable(d, now) ==
  /\ delivery[d].state = "pending"
  /\ delivery[d].due <= now
  /\ TooLate(d, now) \/ delivery[d].claims < MaxClaims

Claimable(d, now) ==
  /\ \/ delivery[d].state = "pending"
     \/ delivery[d].state = "claimed" /\ delivery[d].expires <= now
  /\ delivery[d].due <= now
  /\ TooLate(d, now) \/ delivery[d].claims < MaxClaims

(* The admissible results of ORDER BY key, id LIMIT BatchLimit on rows.     *)
Batches(rows, key) ==
  {b \in SUBSET rows :
     /\ Cardinality(b) <= BatchLimit
     /\ b = rows \/ Cardinality(b) = BatchLimit
     /\ \A d \in b, e \in rows \ b : key[d] <= key[e]}

(* SKIP LOCKED: rows a note transaction or an authorization holds are left. *)
Lockable(rows) == IF lockedAt # Free THEN SUBSET rows ELSE {rows}

BadLastBatch(batch) == Cardinality(batch) >= BatchLimit

(* A batch that was not full is the last one of its scan.                   *)
LastBatch(batch) == Cardinality(batch) < BatchLimit

StartScan(s) ==
  /\ scan[s].pc = "idle"
  /\ \E now \in Now :
       scan' = [scan EXCEPT ![s] = [pc |-> "batch", now |-> now, claims |-> {},
                                    last |-> FALSE]]
  /\ UNCHANGED <<clock, noteVars, rowVars, queue, worker, smtpVars>>

(* _claim_due_batch in a transaction of its own.                            *)
ClaimBatch(s) ==
  LET now == scan[s].now
      due == [d \in Deliveries |-> delivery[d].due]
  IN  /\ scan[s].pc = "batch"
      /\ \E rows \in Lockable({d \in Deliveries : Claimable(d, now)}) :
         \E batch \in Batches(rows, due) :
           LET taken == {d \in batch : ~TooLate(d, now)}
           IN  /\ delivery' = [d \in Deliveries |->
                     IF d \in taken THEN Claimed(delivery[d], now)
                     ELSE IF d \in batch THEN Closed(delivery[d], "missed")
                     ELSE delivery[d]]
               /\ scan' = [scan EXCEPT
                     ![s].pc = "enqueue",
                     ![s].claims = {[row |-> d, token |-> delivery[d].claims + 1] : d \in taken},
                     ![s].last = LastBatch(batch)]
      /\ UNCHANGED <<clock, noteVars, notice, events, queue, worker, smtpVars>>

(* enqueue() of one claim, after the commit.  A broker error is swallowed:  *)
(* the claim is then a message that is never taken.                         *)
Enqueue(s) ==
  /\ scan[s].pc = "enqueue"
  /\ \E j \in scan[s].claims :
       /\ scan' = [scan EXCEPT ![s].claims = @ \ {j}]
       /\ queue' = queue \cup {j}
  /\ UNCHANGED <<clock, noteVars, rowVars, worker, smtpVars>>

IdleScan == [pc |-> "idle", now |-> 0, claims |-> {}, last |-> FALSE]

NextBatch(s) ==
  /\ scan[s].pc = "enqueue"
  /\ scan[s].claims = {}
  /\ scan' = [scan EXCEPT ![s] = IF scan[s].last THEN IdleScan
                                 ELSE [scan[s] EXCEPT !.pc = "batch"]]
  /\ UNCHANGED <<clock, noteVars, rowVars, queue, worker, smtpVars>>

ScanCrash(s) ==
  /\ scan[s].pc # "idle"
  /\ scan' = [scan EXCEPT ![s] = IdleScan]
  /\ UNCHANGED <<clock, noteVars, rowVars, queue, worker, smtpVars>>

-----------------------------------------------------------------------------
(* The broker and the delivery workers (jobs/reminders.py, celery_app.py).  *)

(* deliver() starts and reads the clock before it opens a transaction.  A   *)
(* message stays in queue: it may be handed out late, again (the broker's   *)
(* visibility timeout), out of order, or, when it is lost, never.           *)
TakeJob(w) ==
  /\ worker[w].pc = "idle"
  /\ \E j \in queue, now \in Now :
       worker' = [worker EXCEPT ![w] = [pc |-> "authorize", job |-> j, at |-> now,
                                        report |-> "ok"]]
  /\ UNCHANGED <<clock, noteVars, rowVars, scan, queue, smtpVars>>

NoJob == [row |-> CHOOSE d \in Deliveries : TRUE, token |-> 0]

IdleWorker == [pc |-> "idle", job |-> NoJob, at |-> 0, report |-> "ok"]

BadHoldsClaim(w) == delivery[worker[w].job.row].token = worker[w].job.token

HoldsClaim(w) ==
  LET r == delivery[worker[w].job.row]
  IN  r.state = "claimed" /\ r.token = worker[w].job.token

Eligible(w) ==
  LET d == worker[w].job.row
  IN  rules[d[1]].enabled /\ rules[d[1]].cycle = d[2] /\ MayRemind(note)

Authorized(r, now) ==
  [r EXCEPT !.state = "attempt_started", !.authorized = now, !.expires = Unset,
            !.snapshot = TRUE]

BadVerdict(w) ==
  LET r   == delivery[worker[w].job.row]
      now == worker[w].at
  IN  CASE ~Eligible(w)          -> Closed(r, "cancelled")
        [] Eligible(w) /\ r.due > now -> Reopened(r)
        [] OTHER                 -> Authorized(r, now)

(* What authorize_delivery makes of a row it holds the claim of.            *)
Verdict(w) ==
  LET r   == delivery[worker[w].job.row]
      now == worker[w].at
  IN  CASE ~Eligible(w)          -> Closed(r, "cancelled")
        [] Eligible(w) /\ r.due > now -> Reopened(r)
        [] Eligible(w) /\ r.due < now - Grace -> Closed(r, "missed")
        [] OTHER                 -> Authorized(r, now)

(* authorize_delivery: it waits for the note a handler holds, then decides. *)
Authorize(w) ==
  LET d == worker[w].job.row
      r == IF HoldsClaim(w) THEN Verdict(w) ELSE delivery[d]
      started == HoldsClaim(w) /\ r.state = "attempt_started"
  IN  /\ worker[w].pc = "authorize"
      /\ lockedAt = Free
      /\ delivery' = [delivery EXCEPT ![d] = r]
      /\ IF started
         THEN /\ notice' = [notice EXCEPT ![d] = [exists |-> TRUE, words |-> TRUE,
                                                  prefixed |-> FALSE]]
              /\ events' = [events EXCEPT ![d] = @ + 1]
              /\ worker' = [worker EXCEPT ![w].pc = "send"]
         ELSE /\ worker' = [worker EXCEPT ![w] = IdleWorker]
              /\ UNCHANGED <<notice, events>>
      /\ UNCHANGED <<clock, noteVars, scan, queue, smtpVars>>

(* EmailSender.send and the classification of what it raised.  The server   *)
(* may accept DATA and the session still fail: a timeout or a disconnect    *)
(* ("ambiguous"), or a QUIT answered by another code than 221 ("rejected"). *)
Send(w) ==
  LET d == worker[w].job.row
  IN  /\ worker[w].pc = "send"
      /\ \/ /\ worker' = [worker EXCEPT ![w].pc = "record", ![w].report = "invalid_recipient"]
            /\ UNCHANGED smtpVars
         \/ \E report \in {"ok", "rejected", "ambiguous"}, accepted \in {0, 1} :
              /\ report = "ok" => accepted = 1
              /\ worker' = [worker EXCEPT ![w].pc = "record", ![w].report = report]
              /\ calls' = [calls EXCEPT ![d] = @ + 1]
              /\ mailed' = [mailed EXCEPT ![d] = @ + accepted]
      /\ UNCHANGED <<clock, noteVars, rowVars, scan, queue>>

(* _record_visible_email_failure *)
Prefixed(n) == [n EXCEPT !.prefixed = TRUE]

BadResultOf(report) ==
  IF report \in {"ok", "ambiguous"} THEN "sent" ELSE "failed"

ResultOf(report) ==
  CASE report = "ok" -> "sent"
    [] report = "ambiguous" -> "unknown"
    [] OTHER -> "failed"

BadConcluded(r, state) ==
  IF state = "unknown"
  THEN [Reopened(r) EXCEPT !.authorized = Unset, !.snapshot = FALSE]
  ELSE [r EXCEPT !.state = state, !.result = TRUE, !.error = (state # "sent")]

Concluded(r, state) ==
  [r EXCEPT !.state = state, !.result = TRUE, !.error = (state # "sent")]

BadRecord(w) ==
  LET d == worker[w].job.row
      result == ResultOf(worker[w].report)
  IN  /\ worker[w].pc = "record"
      /\ delivery' = [delivery EXCEPT ![d] = Concluded(@, result)]
      /\ IF result # "sent"
         THEN /\ notice' = [notice EXCEPT ![d] = Prefixed(@)]
              /\ events' = [events EXCEPT ![d] = @ + 1]
         ELSE UNCHANGED <<notice, events>>
      /\ worker' = [worker EXCEPT ![w] = IdleWorker]
      /\ UNCHANGED <<clock, noteVars, scan, queue, smtpVars>>

(* The second transaction of deliver.                                       *)
Record(w) ==
  LET d == worker[w].job.row
      result == ResultOf(worker[w].report)
  IN  /\ worker[w].pc = "record"
      /\ IF delivery[d].state = "attempt_started"
         THEN /\ delivery' = [delivery EXCEPT ![d] = Concluded(@, result)]
              /\ IF result # "sent"
                 THEN /\ notice' = [notice EXCEPT ![d] = Prefixed(@)]
                      /\ events' = [events EXCEPT ![d] = @ + 1]
                 ELSE UNCHANGED <<notice, events>>
         ELSE UNCHANGED rowVars
      /\ worker' = [worker EXCEPT ![w] = IdleWorker]
      /\ UNCHANGED <<clock, noteVars, scan, queue, smtpVars>>

(* task_acks_late is off: the message of a crashed worker is gone.          *)
WorkerCrash(w) ==
  /\ worker[w].pc # "idle"
  /\ worker' = [worker EXCEPT ![w] = IdleWorker]
  /\ UNCHANGED <<clock, noteVars, rowVars, scan, queue, smtpVars>>

-----------------------------------------------------------------------------
(* Maintenance (classify_unknown) and time. *)

BadStale(d, now) ==
  /\ delivery[d].state = "attempt_started"
  /\ delivery[d].authorized > now - UnknownAfter

Stale(d, now) ==
  /\ delivery[d].state = "attempt_started"
  /\ delivery[d].authorized < now - UnknownAfter

ClassifyUnknown ==
  LET authorized == [d \in Deliveries |-> delivery[d].authorized]
  IN  /\ \E now \in Now :
           LET rows == {d \in Deliveries : Stale(d, now)}
           IN  /\ rows # {}
               /\ \E batch \in Batches(rows, authorized) :
                    /\ delivery' = [d \in Deliveries |->
                          IF d \in batch THEN Concluded(delivery[d], "unknown")
                          ELSE delivery[d]]
                    /\ notice' = [d \in Deliveries |->
                          IF d \in batch THEN Prefixed(notice[d]) ELSE notice[d]]
                    /\ events' = [d \in Deliveries |->
                          events[d] + (IF d \in batch THEN 1 ELSE 0)]
      /\ UNCHANGED <<clock, noteVars, scan, queue, worker, smtpVars>>

Tick ==
  /\ clock < MaxTime
  /\ clock' = clock + 1
  /\ UNCHANGED <<noteVars, rowVars, scan, queue, worker, smtpVars>>

-----------------------------------------------------------------------------
Init ==
  /\ clock = 0
  /\ note = [status |-> "none", active |-> FALSE, starts |-> 0, deletedAt |-> Unset]
  /\ rules = [o \in Offsets |-> [enabled |-> FALSE, cycle |-> 0]]
  /\ delivery = [d \in Deliveries |-> Absent]
  /\ notice = [d \in Deliveries |-> NoNotice]
  /\ events = [d \in Deliveries |-> 0]
  /\ lockedAt = Free
  /\ edits = 0
  /\ scan = [s \in Scanners |-> IdleScan]
  /\ queue = {}
  /\ worker = [w \in Workers |-> IdleWorker]
  /\ calls = [d \in Deliveries |-> 0]
  /\ mailed = [d \in Deliveries |-> 0]

Edit ==
  \/ \E starts \in Starts, active \in BOOLEAN, wanted \in SUBSET Offsets :
       \/ CreateNote(starts, active, wanted)
       \/ UpdateNote(starts, active, wanted)
  \/ DeleteNote
  \/ RestoreNote

ScanStep(s) == StartScan(s) \/ ClaimBatch(s) \/ Enqueue(s) \/ NextBatch(s)

WorkerStep(w) == TakeJob(w) \/ Authorize(w) \/ Send(w) \/ Record(w)

Next ==
  \/ LockNote \/ Edit \/ Rollback \/ PurgeNote
  \/ \E s \in Scanners : ScanStep(s) \/ ScanCrash(s)
  \/ \E w \in Workers : WorkerStep(w) \/ WorkerCrash(w)
  \/ ClassifyUnknown
  \/ Tick

Spec == Init /\ [][Next]_vars

(* Beat starts scans and maintenance for ever, not every scan dies before it *)
(* commits, a worker that has a job goes on with it unless it crashes, a     *)
(* transaction ends and time passes.  Nothing is assumed of the broker.      *)
Fairness ==
  /\ WF_vars(Tick)
  /\ WF_vars(Edit \/ Rollback)
  /\ WF_vars(ClassifyUnknown)
  /\ \A s \in Scanners :
       /\ WF_vars(StartScan(s))
       /\ SF_vars(ClaimBatch(s))
       /\ WF_vars(Enqueue(s) \/ NextBatch(s))
  /\ \A w \in Workers : WF_vars(Authorize(w) \/ Send(w) \/ Record(w))

FairSpec == Spec /\ Fairness

-----------------------------------------------------------------------------
(* Properties. *)

(* Every variable holds values of its type.                                  *)
TypeOK ==
  /\ clock \in Time
  /\ note \in Notes
  /\ rules \in [Offsets -> [enabled: BOOLEAN, cycle: 0 .. MaxCycle]]
  /\ delivery \in [Deliveries -> Row]
  /\ notice \in [Deliveries -> Notice]
  /\ events \in [Deliveries -> Nat]
  /\ lockedAt \in Time \cup {Free}
  /\ edits \in Nat
  /\ scan \in [Scanners -> ScanState]
  /\ queue \subseteq Job
  /\ worker \in [Workers -> WorkerState]
  /\ calls \in [Deliveries -> Nat]
  /\ mailed \in [Deliveries -> Nat]

(* The CHECK constraint ck_delivery_state_shape of migration 0004: no legal  *)
(* interleaving makes PostgreSQL reject a transaction of a handler, scanner, *)
(* worker or maintenance run.                                                *)
Shaped(r) ==
  LET empty == ~r.snapshot /\ r.authorized = Unset /\ ~r.error
  IN  CASE r.state = "absent" -> r = Absent
        [] r.state = "pending" -> empty /\ ~r.result /\ r.token = Unset /\ r.expires = Unset
        [] r.state = "claimed" -> empty /\ ~r.result /\ r.token # Unset /\ r.expires # Unset
        [] r.state = "attempt_started" ->
             /\ r.token # Unset /\ r.expires = Unset /\ r.authorized # Unset
             /\ r.snapshot /\ ~r.result /\ ~r.error
        [] r.state \in Outcomes ->
             /\ r.token # Unset /\ r.expires = Unset /\ r.authorized # Unset
             /\ r.result /\ (r.error <=> r.state # "sent")
        [] r.state \in {"missed", "cancelled"} ->
             empty /\ r.result /\ r.token = Unset /\ r.expires = Unset

DeliveryShape == \A d \in Deliveries : Shaped(delivery[d])

(* A row the scanner may still claim belongs to a note that reminds now, to  *)
(* an enabled rule, to its current cycle and to the note's current schedule: *)
(* whatever edit commits, nothing it withdrew stays armed.                   *)
ArmedIsCurrent ==
  \A d \in Deliveries :
    delivery[d].state \in Live =>
      /\ MayRemind(note)
      /\ rules[d[1]].enabled /\ rules[d[1]].cycle = d[2]
      /\ delivery[d].due = DueAt(note, d[1])

(* PLAN 7: at most one application send attempt per cycle, whatever jobs are *)
(* duplicated, leases expire, workers crash or attempts are classified.      *)
AtMostOneCall == \A d \in Deliveries : calls[d] <= 1

(* Moving a note away and back, or removing and re-adding an offset, opens   *)
(* new cycles with an old deadline; no deadline is mailed twice by them.     *)
OneMailPerDeadline ==
  \A d, e \in Deliveries :
    /\ d # e /\ d[1] = e[1]
    /\ calls[d] > 0 /\ calls[e] > 0
    => delivery[d].due # delivery[e].due

(* infrastructure.md: "due reminders inside the configured 60-second grace   *)
(* can run"; no mail is begun ahead of its deadline, nor after its grace,    *)
(* however late its job is and whichever clocks lag.                         *)
MailsAreInTime ==
  \A d \in Deliveries :
    calls[d] > 0 => /\ delivery[d].due <= delivery[d].authorized
                    /\ delivery[d].authorized <= delivery[d].due + Grace
                    /\ delivery[d].authorized <= clock

(* A recorded result tells what happened: sent mail was accepted, and no     *)
(* send was ever tried for a row that says none was made.                    *)
ResultsAreTrue ==
  \A d \in Deliveries :
    /\ delivery[d].state = "sent" => mailed[d] = 1
    /\ delivery[d].state \notin Outcomes \cup {"attempt_started"} => calls[d] = 0

(* Exactly the authorized rows have a notification; a failure is shown on it *)
(* and announced once more, and never twice, whoever records it.             *)
NoticeMatchesRow ==
  \A d \in Deliveries :
    LET bad == delivery[d].state \in {"failed", "unknown"}
    IN  /\ notice[d].exists <=> delivery[d].authorized # Unset
        /\ notice[d].prefixed <=> bad /\ note.status # "purged"
        /\ events[d] = (IF notice[d].exists THEN 1 ELSE 0) + (IF bad THEN 1 ELSE 0)

(* Purging removes the note's words from deliveries and notifications, and   *)
(* no worker, scan or maintenance run still under way brings them back.      *)
PurgeIsFinal ==
  note.status = "purged" =>
    \A d \in Deliveries :
      /\ ~delivery[d].snapshot /\ ~notice[d].words
      /\ delivery[d].state \notin Live \cup {"attempt_started"}

(* PLAN 7, "Old deliveries remain immutable audit records": what is missed   *)
(* or concluded stays so, and nothing reopens a row of an earlier cycle.     *)
Settled(d) ==
  \/ delivery[d].state \in Outcomes \cup {"missed"}
  \/ delivery[d].state = "cancelled" /\ d[2] < rules[d[1]].cycle

HistoryIsImmutable ==
  [][\A d \in Deliveries :
       Settled(d) => delivery'[d] \in {delivery[d], [delivery[d] EXCEPT !.snapshot = FALSE]}]_vars

(* Every armed reminder is decided, although jobs are lost, duplicated and   *)
(* late, workers and scans crash, and handlers hold the note.                *)
ArmedIsDecided ==
  \A d \in Deliveries : delivery[d].state \in Live ~> delivery[d].state \notin Live

(* Every started attempt gets a result, although its worker may crash.       *)
AttemptIsConcluded ==
  \A d \in Deliveries :
    delivery[d].state = "attempt_started" ~> delivery[d].state \in Outcomes

(* A scan ends, however many full batches there are and whatever falls due   *)
(* or is given back while it runs.                                           *)
ScanEnds == \A s \in Scanners : scan[s].pc # "idle" ~> scan[s].pc = "idle"

(* contracts.md: content, tags and active state do not start a cycle and an  *)
(* unchanged schedule is idempotent.  An edit of an active note that leaves  *)
(* an offset and the schedule alone would leave its reminder armed.          *)
UnchangedScheduleIsIdempotent ==
  [][\A o \in Offsets :
       /\ note.status = "kept" /\ note.active
       /\ note' = note /\ edits' # edits
       /\ rules[o].enabled /\ rules'[o] = rules[o]
       /\ delivery[<<o, rules[o].cycle>>].state \in Live
       => delivery'[<<o, rules[o].cycle>>].state \in Live]_vars

(* docs/development/background.md: definitive failures are "failed", and an  *)
(* error that may follow acceptance is "unknown".                            *)
FailedIsNotMailed ==
  \A d \in Deliveries : delivery[d].state = "failed" => mailed[d] = 0

-----------------------------------------------------------------------------
(* The promise this protocol keeps.                                          *)

PhaseOf(r) ==
  CASE r.state = "absent"          -> "unborn"
    [] r.state \in Live            -> "armed"
    [] r.state = "cancelled"       -> "withdrawn"
    [] r.state = "missed"          -> "expired"
    [] r.state = "attempt_started" -> "committed"
    [] r.state \in Outcomes        -> "concluded"

Wanted ==
  {d \in Deliveries :
     MayRemind(note) /\ rules[d[1]].enabled /\ rules[d[1]].cycle = d[2]}

Promise == INSTANCE ReminderPromise WITH
  wanted <- Wanted,
  phase <- [d \in Deliveries |-> PhaseOf(delivery[d])],
  sends <- calls

(* Whatever the scanner, the broker, the workers and maintenance do, seen    *)
(* from the note's side reminders behave as ReminderPromise says.            *)
KeepsPromise == Promise!Spec
=============================================================================
