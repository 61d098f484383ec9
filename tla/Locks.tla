-------------------------------- MODULE Locks --------------------------------
(***************************************************************************)
(* The row locks of the HTTP handlers: tags, one series and its notes,     *)
(* under PostgreSQL's READ COMMITTED.  SELECT ... FOR UPDATE excludes every *)
(* other lock of the row; inserting an association takes FOR KEY SHARE on  *)
(* its tag through the foreign key, which excludes only FOR UPDATE.  Locks *)
(* are held to the end of the transaction.                                 *)
(*                                                                         *)
(* Trash actions are locked only under the lock of their series, and the   *)
(* rows behind the notes (rules, deliveries, exceptions, the outbox) after  *)
(* them; both are left out.                                                *)
(***************************************************************************)
EXTENDS Integers, Sequences, FiniteSets, SequencesExt

CONSTANTS
  Sessions,    \* database sessions, each with one transaction
  Tags,        \* ids of tags
  Notes,       \* ids of notes, numbers in the order of their keys
  Recurring    \* the notes of the series, a subset of Notes

Tag(t) == <<"tag", t>>
Series == <<"series", 0>>
Note(n) == <<"note", n>>

ForUpdate(row) == [row |-> row, mode |-> "update"]
ForKeyShare(row) == [row |-> row, mode |-> "key_share"]

(* One request of each handler with its arguments.  "edit" is update_note,   *)
(* "mark" is delete_note or restore_note, "portion" the trash and restore of *)
(* a portion and of a whole action, "create" is create_note or create_series.*)
Requests ==
  [op : {"edit"}, note : Notes, tags : SUBSET Tags]
    \cup [op : {"mark"}, note : Notes]
    \cup [op : {"split"}, note : Recurring, tags : SUBSET Tags]
    \cup [op : {"portion"}, note : Recurring]
    \cup [op : {"create"}, tags : SUBSET Tags]
    \cup [op : {"delete_tag", "update_tag"}, tag : Tags]

VARIABLES
  tags,        \* tags that exist
  noteTags,    \* the associations note_tags
  seriesTags,  \* the tags of the series
  xact         \* per session: its request, stage, locks still to take, locks held

vars == <<tags, noteTags, seriesTags, xact>>

Idle == [request |-> [op |-> "none"], stage |-> 0, todo |-> <<>>, held |-> {}]
Done == [Idle EXCEPT !.stage = 9]

(* ORDER BY id: the one order of a set of notes, as a set of orders.         *)
Ascending(ids) ==
  {order \in SetToSeqs(ids) : \A i, j \in 1 .. Len(order) : i < j => order[i] < order[j]}
NotesForUpdate(order) == [i \in 1 .. Len(order) |-> ForUpdate(Note(order[i]))]
TagsInOrder(order) == [i \in 1 .. Len(order) |-> ForKeyShare(Tag(order[i]))]

(* lock_series: an ordinary note has no series to lock.                      *)
SeriesOf(n) == IF n \in Recurring THEN <<ForUpdate(Series)>> ELSE <<>>

FromNote(n) == {m \in Recurring : m >= n}

(* The locks before those of a list of notes, and that list's notes.         *)
Heading(r) ==
  CASE r.op \in {"edit", "mark"} -> SeriesOf(r.note) \o <<ForUpdate(Note(r.note))>>
    [] r.op = "split"   -> <<ForUpdate(Series), ForUpdate(Note(r.note))>>
    [] r.op = "portion" -> <<ForUpdate(Series)>>
    [] r.op = "create"  -> <<>>
    [] r.op \in {"delete_tag", "update_tag"} -> <<ForUpdate(Tag(r.tag))>>

Listed(r) == IF r.op \in {"split", "portion"} THEN FromNote(r.note) ELSE {}

(* The locks of a handler's first statements.                                *)
FirstLocks(r) == {Heading(r) \o NotesForUpdate(order) : order \in Ascending(Listed(r))}

(* The tags whose associations a handler inserts.  replace_tags inserts what *)
(* the note lacks; split and create insert all of them.                      *)
Inserted(r) ==
  CASE r.op = "edit" -> {t \in r.tags : <<r.note, t>> \notin noteTags}
    [] r.op \in {"split", "create"} -> r.tags
    [] OTHER -> {}

(* The locks taken once those of a stage are held, from what is read then.   *)
LaterLocks(r, stage) ==
  IF r.op = "delete_tag"
  THEN CASE stage = 1 -> {IF r.tag \in seriesTags THEN <<ForUpdate(Series)>> ELSE <<>>}
         [] stage = 2 -> {NotesForUpdate(order) :
                            order \in Ascending({n \in Notes : <<n, r.tag>> \in noteTags})}
  ELSE {TagsInOrder(order) : order \in SetToSeqs(Inserted(r))}

LastStage(r) ==
  CASE r.op = "delete_tag" -> 3
    [] r.op \in {"edit", "split", "create"} -> 2
    [] OTHER -> 1

-----------------------------------------------------------------------------
(* Transactions *)

Running(s) == xact[s].stage \in 1 .. 3

Conflict(a, b) == a.row = b.row /\ "update" \in {a.mode, b.mode}

(* The sessions that hold what a session has to wait for.                    *)
Blockers(s) ==
  {q \in Sessions \ {s} :
     xact[s].todo # <<>> /\ \E held \in xact[q].held : Conflict(Head(xact[s].todo), held)}

Init ==
  /\ tags = Tags
  /\ noteTags \in SUBSET (Notes \X Tags)
  /\ seriesTags \in SUBSET Tags
  /\ xact = [s \in Sessions |-> Idle]

(* A request arrives.  validate_tags reads the tags without a lock.          *)
Begin(s, r) ==
  /\ xact[s] = Idle
  /\ r.op \in {"edit", "split", "create"} => r.tags \subseteq tags
  /\ \E locks \in FirstLocks(r) :
       xact' = [xact EXCEPT ![s] = [request |-> r, stage |-> 1, todo |-> locks, held |-> {}]]
  /\ UNCHANGED <<tags, noteTags, seriesTags>>

Gone(lock) == lock.row \in {Tag(t) : t \in Tags \ tags}

Acquire(s) ==
  /\ Running(s) /\ xact[s].todo # <<>> /\ Blockers(s) = {}
  /\ ~Gone(Head(xact[s].todo))
  /\ xact' = [xact EXCEPT ![s].held = @ \cup {Head(xact[s].todo)}, ![s].todo = Tail(@)]
  /\ UNCHANGED <<tags, noteTags, seriesTags>>

(* A tag was deleted meanwhile: 404, or the foreign key refuses the row.     *)
RollBack(s) ==
  /\ Running(s) /\ xact[s].todo # <<>> /\ Blockers(s) = {}
  /\ Gone(Head(xact[s].todo))
  /\ xact' = [xact EXCEPT ![s] = Done]
  /\ UNCHANGED <<tags, noteTags, seriesTags>>

(* The next statements of the handler.                                       *)
Proceed(s) ==
  LET r == xact[s].request
  IN  /\ Running(s) /\ xact[s].todo = <<>> /\ xact[s].stage < LastStage(r)
      /\ \E locks \in LaterLocks(r, xact[s].stage) :
           xact' = [xact EXCEPT ![s].stage = @ + 1, ![s].todo = locks]
      /\ UNCHANGED <<tags, noteTags, seriesTags>>

(* The associations a request leaves.  A split rewrites those of the notes   *)
(* it takes over and of the series, which its successor stands for.          *)
Commit(s) ==
  LET r == xact[s].request
      rewritten == CASE r.op = "edit"  -> {r.note}
                     [] r.op = "split" -> FromNote(r.note)
                     [] OTHER          -> {}
  IN  /\ Running(s) /\ xact[s].todo = <<>> /\ xact[s].stage = LastStage(r)
      /\ IF r.op = "delete_tag"
         THEN /\ tags' = tags \ {r.tag}
              /\ noteTags' = {a \in noteTags : a[2] # r.tag}
              /\ seriesTags' = seriesTags \ {r.tag}
         ELSE /\ noteTags' = {a \in noteTags : a[1] \notin rewritten}
                               \cup (rewritten \X (IF rewritten = {} THEN {} ELSE r.tags))
              /\ seriesTags' = IF r.op = "split" THEN r.tags ELSE seriesTags
              /\ UNCHANGED tags
      /\ xact' = [xact EXCEPT ![s] = Done]

(* A set of sessions each of which waits for another of them.                *)
Deadlocked(group) == group # {} /\ \A s \in group : Blockers(s) \cap group # {}

(* PostgreSQL finds the cycle after deadlock_timeout and aborts one of its   *)
(* transactions; no handler retries, the request fails.                      *)
Abort(s) ==
  /\ \E group \in SUBSET Sessions : s \in group /\ Deadlocked(group)
  /\ xact' = [xact EXCEPT ![s] = Done]
  /\ UNCHANGED <<tags, noteTags, seriesTags>>

Next ==
  \E s \in Sessions :
    \/ \E r \in Requests : Begin(s, r)
    \/ Acquire(s) \/ RollBack(s) \/ Proceed(s) \/ Commit(s) \/ Abort(s)

Spec == Init /\ [][Next]_vars

-----------------------------------------------------------------------------
(* Properties *)

(* No requests wait for each other: one global order of the locks, tags,     *)
(* then series, then notes, is followed by all handlers, and "both runs      *)
(* finish ... with no deadlock" (docs/development/functional-audit.md, the   *)
(* binding database lock protocol; docs/architecture.md, concurrency).       *)
NoDeadlock == \A group \in SUBSET Sessions : ~Deadlocked(group)
=============================================================================
