------------------------------- MODULE Series -------------------------------
(***************************************************************************)
(* One lineage of recurrence series: its notes, the actions that trash and *)
(* restore portions of it, the splits that replace its future, and the     *)
(* cleanup that purges what has been in the trash for Retention.           *)
(*                                                                         *)
(* Every handler locks the series before it reads its notes and checks the *)
(* versions its client saw, so a handler that succeeds is one step.  The   *)
(* cleanup chooses its candidates without locks: two steps.                *)
(*                                                                         *)
(* Instants are numbers; the recurrence key of an occurrence is the        *)
(* instant it was generated for.  Every note is active and has one         *)
(* reminder, due when it starts; the start is the one field an occurrence  *)
(* overrides.                                                              *)
(***************************************************************************)
EXTENDS Naturals, FiniteSets

CONSTANTS
  Keys,          (* Instants of occurrences.                                 *)
  Schedules,     (* Results of expand_occurrences: sets of instants.         *)
  MaxSeries,     (* Bound: series of the lineage, numbered from 1.           *)
  MaxActions,    (* Bound: trash actions, numbered from 1.                   *)
  Retention,     (* 30 days.                                                 *)
  BatchLimit,    (* limit of purge_trash.                                    *)
  MaxTime        (* Bound: the last instant.                                 *)

ASSUME SeriesAssumption ==
  /\ Keys \subseteq Nat \ {0} /\ IsFiniteSet(Keys)
  /\ Schedules \subseteq (SUBSET Keys) \ {{}}
  /\ MaxSeries \in Nat \ {0} /\ MaxActions \in Nat
  /\ Retention \in Nat \ {0} /\ BatchLimit \in Nat \ {0} /\ MaxTime \in Nat \ {0}

VARIABLES
  note,       (* notes.                                                      *)
  series,     (* recurrence_series.                                          *)
  action,     (* recurring_trash_actions with their members.                 *)
  mark,       (* occurrence_exceptions.                                      *)
  cleanup,    (* The run of cleanup_trash.                                   *)
  clock

vars == <<note, series, action, mark, cleanup, clock>>

SeriesIds == 1 .. MaxSeries
ActionIds == 1 .. MaxActions
Times == 0 .. MaxTime     (* 0 is NULL. *)

(* A note is named after the series and the key it was created for; a split  *)
(* may move it to another series, where it keeps its key.                    *)
Notes == SeriesIds \X Keys
KeyOf(n) == n[2]

(* series 0: no row.  trashed is series_trashed_at, written by the releases  *)
(* before migration 0004; armed: a reminder is pending or claimed.           *)
NoteRows == [series: 0 .. MaxSeries, starts: Keys \cup {0}, deleted: Times, trashed: Times,
             superseded: BOOLEAN, purged: BOOLEAN, action: 0 .. MaxActions, armed: BOOLEAN]

NoNote == [series |-> 0, starts |-> 0, deleted |-> 0, trashed |-> 0,
           superseded |-> FALSE, purged |-> FALSE, action |-> 0, armed |-> FALSE]

SeriesRows == [there: BOOLEAN, predecessor: 0 .. MaxSeries, boundary: Keys \cup {0},
               purged: BOOLEAN]

NoSeries == [there |-> FALSE, predecessor |-> 0, boundary |-> 0, purged |-> FALSE]

(* series 0: no row.                                                         *)
ActionRows == [series: 0 .. MaxSeries, boundary: Keys \cup {0}, trashed: Times,
               members: SUBSET Notes]

NoAction == [series |-> 0, boundary |-> 0, trashed |-> 0, members |-> {}]

(* fields: overridden_fields is not empty.  No row reads like NoMark.        *)
Marks == [cancelled: BOOLEAN, fields: BOOLEAN]

NoMark == [cancelled |-> FALSE, fields |-> FALSE]

(* at is cleanup_now, 0 when no run is active; between two batches nothing   *)
(* is chosen.                                                                *)
Cleanups == [at: Times, chosen: BOOLEAN, notes: SUBSET Notes, series: SUBSET SeriesIds]

NoCleanup == [at |-> 0, chosen |-> FALSE, notes |-> {}, series |-> {}]

-----------------------------------------------------------------------------
(* Operators named Bad... are faulty forms of the definition that follows    *)
(* them, kept to show which property would notice; nothing uses them.        *)

NotesOf(s) == {n \in Notes : note[n].series = s}

Portion(s, k) == {n \in NotesOf(s) : KeyOf(n) >= k}

Standing(n) == note[n].series # 0 /\ ~note[n].superseded

(* What the public API can reach: require_note.                              *)
Public(n) == Standing(n) /\ ~note[n].purged

Visible(n) == Public(n) /\ note[n].deleted = 0

Open(s) == series[s].there /\ ~series[s].purged

Expired(time) == time + Retention <= clock

BadReconciled(r) == [r EXCEPT !.armed = @ \/ (r.deleted = 0 /\ r.starts > clock)]

(* reconcile_reminders after the row has changed.                            *)
Reconciled(r) ==
  [r EXCEPT !.armed = (r.deleted = 0 /\ ~r.superseded /\ ~r.purged /\ r.starts > clock)]

BadNewNote(s, k) == Reconciled([NoNote EXCEPT !.series = s, !.starts = clock])

NewNote(s, k) == Reconciled([NoNote EXCEPT !.series = s, !.starts = k])

Restored(r) == Reconciled([r EXCEPT !.deleted = 0, !.action = 0])

(* set_exception.                                                            *)
Marked(n, r, cancelled) ==
  [mark EXCEPT ![<<r.series, KeyOf(n)>>] =
     [cancelled |-> cancelled, fields |-> r.starts # KeyOf(n)]]

-----------------------------------------------------------------------------
(* Handlers of single occurrences (api/router.py). *)

CreateSeries(generated) ==
  /\ ~series[1].there
  /\ series' = [series EXCEPT ![1].there = TRUE]
  /\ note' = [n \in Notes |-> IF n \in {1} \X generated THEN NewNote(1, KeyOf(n)) ELSE note[n]]
  /\ UNCHANGED <<action, mark, cleanup, clock>>

UpdateNote(n, starts) ==
  /\ Visible(n)
  /\ LET row == Reconciled([note[n] EXCEPT !.starts = starts])
     IN /\ note' = [note EXCEPT ![n] = row]
        /\ mark' = Marked(n, row, mark[row.series, KeyOf(n)].cancelled)
  /\ UNCHANGED <<series, action, cleanup, clock>>

DeleteNote(n) ==
  /\ Visible(n)
  /\ LET row == Reconciled([note[n] EXCEPT !.deleted = clock])
     IN /\ note' = [note EXCEPT ![n] = row]
        /\ mark' = Marked(n, row, TRUE)
  /\ UNCHANGED <<series, action, cleanup, clock>>

(* restore_note for a note that no open action holds.  It leaves trashed.    *)
RestoreNote(n) ==
  /\ Public(n)
  /\ note[n].action = 0
  /\ note[n].deleted # 0
  /\ ~Expired(note[n].deleted)
  /\ note' = [note EXCEPT ![n] = Restored(note[n])]
  /\ mark' = Marked(n, note[n], FALSE)
  /\ UNCHANGED <<series, action, cleanup, clock>>

-----------------------------------------------------------------------------
(* Trash actions. *)

Fresh(a) == action[a].series = 0 /\ \A b \in 1 .. a - 1 : action[b].series # 0

(* The handlers' boundary is the key asked for, or the least one: see        *)
(* _portion_boundary.                                                        *)
BoundaryOf(s, k) == \E n \in NotesOf(s) : KeyOf(n) = k /\ Standing(n)

(* The notes an action takes.                                                *)
Trashed(s, k) == {n \in Portion(s, k) : Visible(n)}

(* trash_series_portion.                                                     *)
TrashPortion(s, k) ==
  /\ Open(s)
  /\ BoundaryOf(s, k)
  /\ Trashed(s, k) # {}
  /\ \E a \in ActionIds :
       /\ Fresh(a)
       /\ action' = [action EXCEPT ![a] = [series |-> s, boundary |-> k, trashed |-> clock,
                                           members |-> Trashed(s, k)]]
       /\ note' = [n \in Notes |->
                     IF n \notin Trashed(s, k) THEN note[n]
                     ELSE Reconciled([note[n] EXCEPT !.deleted = clock, !.action = a])]
  /\ UNCHANGED <<series, mark, cleanup, clock>>

Current(a) == {n \in action[a].members : note[n].action = a}

(* _restore_trash_action, for a whole action or through one of its notes.    *)
RestoreAction(a) ==
  /\ action[a].series # 0
  /\ Open(action[a].series)
  /\ Current(a) # {}
  /\ Current(a) = action[a].members
  /\ ~Expired(action[a].trashed)
  /\ note' = [n \in Notes |-> IF n \in action[a].members THEN Restored(note[n]) ELSE note[n]]
  /\ UNCHANGED <<series, action, mark, cleanup, clock>>

(* restore_series_portion where no action is open in the portion: rows that  *)
(* the releases before 0004 trashed.  A purged row is not left out.          *)
LegacyRows(s, k) == {n \in Portion(s, k) : note[n].trashed # 0 /\ Standing(n)}

BadLegacyRestored(n) == Restored([note[n] EXCEPT !.trashed = 0])

LegacyRestored(n) ==
  LET unmarked == [note[n] EXCEPT !.trashed = 0]
  IN IF mark[note[n].series, KeyOf(n)].cancelled THEN unmarked ELSE Restored(unmarked)

RestoreLegacy(s, k) ==
  /\ Open(s)
  /\ \A n \in Portion(s, k) : note[n].action = 0
  /\ \E n \in LegacyRows(s, k) : KeyOf(n) = k
  /\ \A n \in LegacyRows(s, k) : ~Expired(note[n].trashed)
  /\ note' = [n \in Notes |-> IF n \in LegacyRows(s, k) THEN LegacyRestored(n) ELSE note[n]]
  /\ UNCHANGED <<series, action, mark, cleanup, clock>>

-----------------------------------------------------------------------------
(* split_series, at key k of series s with the schedule that is to follow. *)

(* What the split replaces: purged rows too.                                 *)
Affected(s, k) == {n \in Portion(s, k) : Standing(n)}

Leaf(s) == series[s].boundary = 0 /\ \A t \in SeriesIds : series[t].predecessor # s

(* Otherwise trash_action_overlap.                                           *)
Untrashed(s, k) == \A n \in Affected(s, k) : note[n].action = 0 /\ note[n].trashed = 0

(* Otherwise historical_replacement.                                         *)
Future(s, k, generated) ==
  /\ \A n \in Affected(s, k) : note[n].starts > clock
  /\ \A g \in generated : g > clock

(* recurrence_collision.                                                     *)
Collision(k, generated) ==
  \E n \in Notes : /\ Standing(n)
                   /\ KeyOf(n) < k
                   /\ KeyOf(n) \in generated \/ note[n].starts \in generated

BadKept(s, k, generated) == {n \in Affected(s, k) : KeyOf(n) \in generated}

(* The notes the successor takes over.                                       *)
Kept(s, k, generated) == {n \in Affected(s, k) : ~note[n].purged /\ KeyOf(n) \in generated}

BadMoved(n, t) == Reconciled([note[n] EXCEPT !.series = t, !.starts = KeyOf(n)])

Moved(n, t) ==
  Reconciled([note[n] EXCEPT !.series = t, !.starts = KeyOf(n), !.deleted = 0,
                             !.trashed = 0, !.superseded = FALSE])

BadSuperseded(n) == Reconciled([note[n] EXCEPT !.deleted = clock])

Superseded(n) == Reconciled([note[n] EXCEPT !.deleted = clock, !.superseded = TRUE])

SplitNotes(s, k, generated, t) ==
  [n \in Notes |->
     CASE n \in Kept(s, k, generated) -> Moved(n, t)
       [] n[1] = t /\ KeyOf(n) \in generated
          /\ \A m \in Kept(s, k, generated) : KeyOf(m) # KeyOf(n) -> NewNote(t, KeyOf(n))
       [] n \in Affected(s, k) \ Kept(s, k, generated) /\ ~note[n].purged -> Superseded(n)
       [] OTHER -> note[n]]

(* The overrides of the replaced portion are deleted, the markers of its     *)
(* purged rows stay.                                                         *)
SplitMarks(s, k) ==
  [e \in SeriesIds \X Keys |->
     IF e[1] = s /\ e[2] >= k /\ \A n \in Affected(s, k) : note[n].purged => KeyOf(n) # e[2]
     THEN NoMark ELSE mark[e]]

Split(s, k, generated) ==
  /\ Open(s)
  /\ Leaf(s)
  /\ \E n \in NotesOf(s) : KeyOf(n) = k /\ Public(n)
  /\ Untrashed(s, k)
  /\ Future(s, k, generated)
  /\ ~Collision(k, generated)
  /\ \E t \in SeriesIds :
       /\ ~series[t].there /\ \A u \in 1 .. t - 1 : series[u].there
       /\ series' = [series EXCEPT ![s].boundary = k,
                                   ![t] = [NoSeries EXCEPT !.there = TRUE, !.predecessor = s]]
       /\ note' = SplitNotes(s, k, generated, t)
  /\ mark' = SplitMarks(s, k)
  /\ UNCHANGED <<action, cleanup, clock>>

-----------------------------------------------------------------------------
(* cleanup_trash and purge_trash (jobs/maintenance.py). *)

StartCleanup ==
  /\ cleanup = NoCleanup
  /\ cleanup' = [NoCleanup EXCEPT !.at = clock]
  /\ UNCHANGED <<note, series, action, mark, clock>>

(* Deleted at or before the cutoff of the run.                               *)
Due(n) == /\ note[n].series # 0 /\ ~note[n].purged
          /\ note[n].deleted # 0 /\ note[n].deleted + Retention <= cleanup.at

BadWithActions(chosen) == chosen

(* A chosen member brings the other current members of its action.           *)
WithActions(chosen) ==
  chosen \cup UNION {Current(a) : a \in {note[n].action : n \in chosen} \ {0}}

Choose ==
  /\ cleanup.at # 0 /\ ~cleanup.chosen
  /\ \E chosen \in SUBSET {n \in Notes : Due(n)} :
       /\ Cardinality(chosen) <= BatchLimit
       /\ Cardinality(chosen) < BatchLimit => chosen = {n \in Notes : Due(n)}
       /\ cleanup' = [cleanup EXCEPT !.chosen = TRUE, !.notes = WithActions(chosen),
                                     !.series = {note[n].series : n \in WithActions(chosen)}]
  /\ UNCHANGED <<note, series, action, mark, clock>>

BadPurged == cleanup.notes

(* The rows chosen that are due once they are locked.                        *)
Purged == {n \in cleanup.notes : Due(n)}

Purge(n) == [note[n] EXCEPT !.purged = TRUE, !.action = 0]

BadSealed == cleanup.series

(* The series left without a row to keep.                                    *)
Sealed == {s \in cleanup.series : /\ ~series[s].purged
                                  /\ \A n \in NotesOf(s) : note[n].purged \/ n \in Purged}

PurgeMarks ==
  [e \in SeriesIds \X Keys |->
     IF e[1] \in Sealed THEN [cancelled |-> TRUE, fields |-> FALSE]
     ELSE IF \E n \in Purged : note[n].series = e[1] /\ KeyOf(n) = e[2]
     THEN [mark[e] EXCEPT !.fields = FALSE]
     ELSE mark[e]]

PurgeBatch ==
  /\ cleanup.chosen
  /\ note' = [n \in Notes |-> IF n \in Purged THEN Purge(n) ELSE note[n]]
  /\ series' = [s \in SeriesIds |-> IF s \in Sealed THEN [series[s] EXCEPT !.purged = TRUE]
                                    ELSE series[s]]
  /\ mark' = PurgeMarks
  /\ cleanup' = IF Cardinality(Purged) < BatchLimit THEN NoCleanup
                ELSE [NoCleanup EXCEPT !.at = cleanup.at]
  /\ UNCHANGED <<action, clock>>

(* The run stops; what it had not committed is rolled back.                  *)
CleanupCrash ==
  /\ cleanup # NoCleanup
  /\ cleanup' = NoCleanup
  /\ UNCHANGED <<note, series, action, mark, clock>>

-----------------------------------------------------------------------------
Tick ==
  /\ clock < MaxTime
  /\ clock' = clock + 1
  /\ UNCHANGED <<note, series, action, mark, cleanup>>

Empty ==
  /\ note = [n \in Notes |-> NoNote]
  /\ series = [s \in SeriesIds |-> NoSeries]
  /\ mark = [e \in SeriesIds \X Keys |-> NoMark]

(* What a release before 0004 leaves: a series with a portion trashed at 1   *)
(* and some of the other notes deleted one by one.                           *)
OldRow(x, k, cancelled) ==
  [NoNote EXCEPT !.series = 1, !.starts = x,
                 !.deleted = IF x >= k \/ x \in cancelled THEN 1 ELSE 0,
                 !.trashed = IF x >= k THEN 1 ELSE 0]

Migrated ==
  \E generated \in Schedules :
  \E k \in generated :
  \E cancelled \in SUBSET {x \in generated : x < k} :
    /\ note = [n \in Notes |-> IF n \in {1} \X generated
                               THEN Reconciled(OldRow(KeyOf(n), k, cancelled)) ELSE NoNote]
    /\ series = [s \in SeriesIds |-> IF s = 1 THEN [NoSeries EXCEPT !.there = TRUE] ELSE NoSeries]
    /\ mark = [e \in SeriesIds \X Keys |->
                 [cancelled |-> e \in {1} \X cancelled, fields |-> FALSE]]

Init ==
  /\ clock = 1
  /\ Empty \/ Migrated
  /\ action = [a \in ActionIds |-> NoAction]
  /\ cleanup = NoCleanup

Occurrences ==
  \E n \in Notes :
    \/ DeleteNote(n)
    \/ RestoreNote(n)
    \/ \E starts \in Keys : UpdateNote(n, starts)

Portions ==
  \E s \in SeriesIds, k \in Keys :
    \/ TrashPortion(s, k)
    \/ RestoreLegacy(s, k)
    \/ \E generated \in Schedules : Split(s, k, generated)

Cleaning == StartCleanup \/ Choose \/ PurgeBatch \/ CleanupCrash

Next ==
  \/ \E generated \in Schedules : CreateSeries(generated)
  \/ Occurrences
  \/ Portions
  \/ \E a \in ActionIds : RestoreAction(a)
  \/ Cleaning
  \/ Tick

Spec == Init /\ [][Next]_vars

-----------------------------------------------------------------------------
(* The trash as list_trash_groups shows it: one entry for an open action,    *)
(* one for each of the other notes.                                          *)

InHistory(n) == \E a \in ActionIds : n \in action[a].members

ActionEntries == {a \in ActionIds : Current(a) # {}}

BadLegacyEntries == {n \in Notes : Public(n) /\ note[n].deleted # 0 /\ note[n].trashed # 0}

LegacyEntries ==
  {n \in Notes : Public(n) /\ note[n].deleted # 0 /\ note[n].trashed # 0 /\ ~InHistory(n)}

OrdinaryEntries ==
  {n \in Notes : /\ Public(n) /\ note[n].deleted # 0 /\ note[n].action = 0
                 /\ note[n].trashed = 0 \/ InHistory(n)}

-----------------------------------------------------------------------------
(* Every row has its type. *)
TypeOK ==
  /\ note \in [Notes -> NoteRows]
  /\ series \in [SeriesIds -> SeriesRows]
  /\ action \in [ActionIds -> ActionRows]
  /\ mark \in [SeriesIds \X Keys -> Marks]
  /\ cleanup \in Cleanups
  /\ clock \in Times

(* An action is open, with all its members in the trash where and when it    *)
(* put them, or closed, with none: no restore, edit, split or purge of a     *)
(* member leaves a part of it (recurring_trash_actions and its triggers).    *)
OpenActionIsWhole ==
  \A a \in ActionIds :
    \/ \A n \in Notes : note[n].action # a
    \/ /\ {n \in Notes : note[n].action = a} = action[a].members
       /\ \A n \in action[a].members :
            /\ Public(n)
            /\ note[n].series = action[a].series
            /\ KeyOf(n) >= action[a].boundary
            /\ note[n].deleted = action[a].trashed

(* The series of the lineage form one chain, closed but for its last, and a  *)
(* closed series keeps nothing from its boundary on that can be restored:    *)
(* its future belongs to its successor alone (split_series).                 *)
ChainIsLinear ==
  \A s \in SeriesIds :
    /\ series[s].there => (series[s].predecessor = s - 1)
    /\ series[s].boundary # 0 <=> \E t \in SeriesIds : series[t].predecessor = s
    /\ series[s].boundary # 0 => \A n \in Portion(s, series[s].boundary) : ~Public(n)

(* A reminder is pending for the notes that are to come and no other: every  *)
(* way into and out of the trash reconciles it.                              *)
ReminderFollowsNote ==
  \A n \in Notes :
    /\ note[n].armed => Visible(n)
    /\ Visible(n) /\ note[n].starts > clock => note[n].armed

(* The exception of an occurrence says what happened to it: cancelled when   *)
(* it was deleted on its own, whatever portions were trashed and restored    *)
(* since, and with fields when it left its key.                              *)
MarkFollowsNote ==
  \A n \in Notes :
    LET m == mark[note[n].series, KeyOf(n)]
    IN Public(n) => /\ m.cancelled => note[n].deleted # 0 /\ note[n].action = 0
                    /\ note[n].deleted # 0 /\ note[n].action = 0 /\ note[n].trashed = 0
                         => m.cancelled
                    /\ m.fields <=> note[n].starts # KeyOf(n)

(* What is in the trash is listed, once, and what is not is not: an action   *)
(* for its members, an entry for each other note (list_trash_groups).        *)
TrashIsListedOnce ==
  \A n \in Notes :
    LET entries == Cardinality({a \in ActionEntries : n \in action[a].members /\ note[n].action = a})
                   + (IF n \in LegacyEntries THEN 1 ELSE 0)
                   + (IF n \in OrdinaryEntries THEN 1 ELSE 0)
    IN entries = (IF Public(n) /\ note[n].deleted # 0 THEN 1 ELSE 0)

(* A purged series keeps no content: all its notes are purged and no marker  *)
(* holds a field (purge_trash seals it last).                                *)
SealedSeriesIsEmpty ==
  \A s \in SeriesIds :
    series[s].purged => /\ \A n \in NotesOf(s) : note[n].purged
                        /\ \A k \in Keys : ~mark[s, k].fields

(* Purging is final: no later handler touches a purged note or series, so    *)
(* the triggers of migration 0004 never refuse one.                          *)
PurgeIsFinal ==
  [][/\ \A n \in Notes : note[n].purged => note'[n] = note[n]
     /\ \A s \in SeriesIds : series[s].purged => series'[s] = series[s]]_vars

(* A note is purged only after Retention in the trash without a break: the   *)
(* cleanup never takes a note that was restored after it was chosen.         *)
RetentionHolds ==
  [][\A n \in Notes :
       note'[n].purged /\ ~note[n].purged => note[n].deleted # 0 /\ Expired(note[n].deleted)]_vars

(* A new successor holds its schedule from the boundary on, visible and in   *)
(* the future, whatever overrides, cancellations and purged rows were there. *)
SplitReplacesFuture ==
  [][\A t \in SeriesIds \ {1} :
       ~series[t].there /\ series'[t].there =>
         LET visible == {n \in Notes : note'[n].series = t /\ note'[n].deleted = 0}
         IN /\ {KeyOf(n) : n \in visible} \in Schedules
            /\ \A n, m \in visible : KeyOf(n) = KeyOf(m) => n = m
            /\ \A n \in visible : note'[n].starts = KeyOf(n) /\ note'[n].starts > clock]_vars

(* A split that moves the schedule back leaves one visible note per key: the *)
(* "existing collision logic ... still protects preserved earlier segments   *)
(* when a valid leaf split moves a generated schedule backward"              *)
(* (docs/development/lineage-fix.md).                                        *)
BackwardSplitProtects ==
  [][\A s \in SeriesIds :
       /\ series[s].boundary = 0 /\ series'[s].boundary # 0
       /\ \E n \in Notes : /\ note'[n].series # 0 /\ series'[note'[n].series].predecessor = s
                          /\ KeyOf(n) < series'[s].boundary
       => \A n, m \in Notes : Visible(n)' /\ Visible(m)' /\ KeyOf(n) = KeyOf(m) => n = m]_vars
=============================================================================
