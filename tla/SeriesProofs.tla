----------------------------- MODULE SeriesProofs -----------------------------
(***************************************************************************)
(* For every lineage, schedule and retention: trash actions stay whole,    *)
(* purging is final and waits for the retention, the trash is listed once, *)
(* reminders and exceptions follow the notes, the series form a chain of   *)
(* unique keys, and a successor holds its schedule.                        *)
(***************************************************************************)
EXTENDS Series, FiniteSetTheorems, TLAPS

-----------------------------------------------------------------------------
(* Rows *)

(* The reminder of a row as reconcile_reminders leaves it.                   *)
Fits(q) == q.armed = (q.deleted = 0 /\ ~q.superseded /\ ~q.purged /\ q.starts > clock)

(* Reconciling a row sets its reminder and nothing else.                     *)
LEMMA ReconciledRow ==
  ASSUME NEW r \in NoteRows, clock \in Times
  PROVE  /\ Reconciled(r) \in NoteRows
         /\ Fits(Reconciled(r))
         /\ Reconciled(r).series = r.series /\ Reconciled(r).starts = r.starts
         /\ Reconciled(r).deleted = r.deleted /\ Reconciled(r).trashed = r.trashed
         /\ Reconciled(r).superseded = r.superseded /\ Reconciled(r).purged = r.purged
         /\ Reconciled(r).action = r.action
  BY DEF Reconciled, Fits, NoteRows

(* A new occurrence is outside the trash, with the key of its schedule.      *)
LEMMA NewRow ==
  ASSUME NEW s \in SeriesIds, NEW k \in Keys, clock \in Times
  PROVE  /\ NewNote(s, k) \in NoteRows
         /\ Fits(NewNote(s, k))
         /\ NewNote(s, k).series = s /\ NewNote(s, k).starts = k
         /\ NewNote(s, k).deleted = 0 /\ NewNote(s, k).trashed = 0
         /\ ~NewNote(s, k).superseded /\ ~NewNote(s, k).purged
         /\ NewNote(s, k).action = 0
<1>1. [NoNote EXCEPT !.series = s, !.starts = k] \in NoteRows
  <2>1. s \in 0 .. MaxSeries /\ 0 \in 0 .. MaxTime /\ 0 \in 0 .. MaxActions
    BY SeriesAssumption DEF SeriesIds
  <2> QED
    BY <2>1 DEF NoNote, NoteRows, Times
<1>2. /\ [NoNote EXCEPT !.series = s, !.starts = k].series = s
      /\ [NoNote EXCEPT !.series = s, !.starts = k].starts = k
      /\ [NoNote EXCEPT !.series = s, !.starts = k].deleted = 0
      /\ [NoNote EXCEPT !.series = s, !.starts = k].trashed = 0
      /\ ~[NoNote EXCEPT !.series = s, !.starts = k].superseded
      /\ ~[NoNote EXCEPT !.series = s, !.starts = k].purged
      /\ [NoNote EXCEPT !.series = s, !.starts = k].action = 0
  BY DEF NoNote
<1> QED
  BY <1>1, <1>2, ReconciledRow DEF NewNote

(* What a step may do to a note. *)

Still(n) == note'[n] = note[n]

(* Made by a creation or a split, for a series that is new.                  *)
Born(n) ==
  LET q == note'[n]
  IN  /\ note[n] = NoNote
      /\ q.series = n[1] /\ ~series[n[1]].there /\ series'[n[1]].there
      /\ q.deleted = 0 /\ q.trashed = 0 /\ ~q.superseded /\ ~q.purged
      /\ q.action = 0 /\ Fits(q)

SameButStart(r, q) ==
  /\ q.series = r.series /\ q.trashed = r.trashed
  /\ q.superseded = r.superseded /\ q.purged = r.purged

(* Edited or deleted on its own.                                             *)
Edited(n) ==
  /\ Visible(n) /\ note[n].action = 0
  /\ SameButStart(note[n], note'[n])
  /\ note'[n].deleted \in {0, clock} /\ note'[n].action = 0 /\ Fits(note'[n])

(* Taken by a trash action that is new.                                      *)
Thrown(n) ==
  LET a == note'[n].action
  IN  /\ Visible(n) /\ note[n].action = 0
      /\ SameButStart(note[n], note'[n])
      /\ note'[n].deleted = clock /\ Fits(note'[n])
      /\ a \in ActionIds /\ action[a].series = 0 /\ action'[a].series # 0

(* Brought back, on its own, with its action or as a legacy row.             *)
Revived(n) ==
  LET q == note'[n]
  IN  /\ Public(n)
      /\ q.series = note[n].series /\ ~q.superseded /\ ~q.purged
      /\ q.deleted = 0 /\ q.trashed \in {0, note[n].trashed} /\ q.action = 0 /\ Fits(q)

(* A legacy row that was also deleted on its own loses the legacy mark.      *)
Unmarked(n) ==
  /\ Public(n) /\ note[n].action = 0
  /\ note'[n] = [note[n] EXCEPT !.trashed = 0]

(* Taken over by a successor.                                                *)
Taken(n) ==
  LET q == note'[n]
  IN  /\ Public(n) /\ note[n].action = 0
      /\ q.series \in SeriesIds /\ ~series[q.series].there /\ series'[q.series].there
      /\ ~q.superseded /\ ~q.purged
      /\ q.deleted = 0 /\ q.trashed = 0 /\ q.action = 0 /\ Fits(q)

(* Replaced by a successor's schedule.                                       *)
Replaced(n) ==
  LET q == note'[n]
  IN  /\ Public(n) /\ note[n].action = 0
      /\ q.series = note[n].series /\ q.superseded /\ ~q.purged
      /\ q.deleted = clock /\ q.trashed = note[n].trashed /\ q.action = 0 /\ Fits(q)

Erased(n) == Due(n) /\ n \in cleanup.notes /\ note'[n] = Purge(n)

RowStep(n) ==
  Still(n) \/ Born(n) \/ Edited(n) \/ Thrown(n) \/ Revived(n) \/ Unmarked(n)
    \/ Taken(n) \/ Replaced(n) \/ Erased(n)

-----------------------------------------------------------------------------
(* The inductive invariant *)

(* Nothing is there before its series.                                       *)
NothingBeforeCreation ==
  /\ \A s \in SeriesIds : ~series[s].there => series[s] = NoSeries
  /\ \A n \in Notes : ~series[n[1]].there => note[n] = NoNote
  /\ \A n \in Notes : note[n].series # 0 => series[note[n].series].there
  /\ \A s \in cleanup.series : series[s].there

(* Instants of the past; a legacy mark is not younger than the deletion; a   *)
(* purged row has been in the trash for Retention.                           *)
InstantsAreOrdered ==
  /\ clock >= 1 /\ cleanup.at <= clock
  /\ \A n \in Notes :
       /\ note[n].deleted <= clock /\ note[n].trashed <= clock
       /\ note[n].deleted # 0 => note[n].trashed <= note[n].deleted
       /\ note[n].purged => note[n].deleted # 0 /\ Expired(note[n].deleted)

(* An unused action has no members, a used one the instant it was made.      *)
ActionsAreSealed ==
  \A a \in ActionIds :
    /\ action[a].series = 0 => action[a].members = {}
    /\ action[a].series # 0 => action[a].trashed # 0

(* A batch holds an action whole or none of its rows that are still due.     *)
BatchIsWhole ==
  \A n, m \in Notes :
    /\ n \in cleanup.notes /\ Due(n)
    /\ note[n].action # 0 /\ note[m].action = note[n].action
    => m \in cleanup.notes

SeriesInv ==
  /\ TypeOK
  /\ NothingBeforeCreation
  /\ InstantsAreOrdered
  /\ ActionsAreSealed
  /\ OpenActionIsWhole
  /\ BatchIsWhole

(* What the types give.                                                      *)
LEMMA Parts ==
  ASSUME TypeOK
  PROVE  /\ clock \in Nat /\ clock \in Times
         /\ note \in [Notes -> NoteRows] /\ series \in [SeriesIds -> SeriesRows]
         /\ action \in [ActionIds -> ActionRows] /\ mark \in [SeriesIds \X Keys -> Marks]
         /\ cleanup.at \in Nat /\ cleanup.at \in Times
         /\ cleanup.notes \subseteq Notes /\ cleanup.series \subseteq SeriesIds
         /\ Retention \in Nat /\ Retention > 0
  BY SeriesAssumption DEF TypeOK, Times, Cleanups

LEMMA RowParts ==
  ASSUME TypeOK, NEW n \in Notes
  PROVE  /\ note[n] \in NoteRows
         /\ note[n].series \in 0 .. MaxSeries
         /\ note[n].series # 0 => note[n].series \in SeriesIds
         /\ note[n].action \in 0 .. MaxActions
         /\ note[n].action # 0 => note[n].action \in ActionIds
         /\ note[n].deleted \in Nat /\ note[n].trashed \in Nat
         /\ note[n].superseded \in BOOLEAN /\ note[n].purged \in BOOLEAN
         /\ n[1] \in SeriesIds /\ KeyOf(n) \in Keys
<1>1. note[n] \in NoteRows
  BY DEF TypeOK
<1>2. n[1] \in SeriesIds /\ KeyOf(n) \in Keys
  BY DEF Notes, KeyOf
<1> QED
  BY <1>1, <1>2, SeriesAssumption DEF NoteRows, SeriesIds, ActionIds, Times

(* A note of an action is in the trash and one of the action's members.      *)
LEMMA MemberIsTrashed ==
  ASSUME SeriesInv, NEW n \in Notes, note[n].action # 0
  PROVE  /\ note[n].action \in ActionIds
         /\ n \in action[note[n].action].members
         /\ Public(n) /\ note[n].deleted # 0
         /\ note[n].deleted = action[note[n].action].trashed
         /\ note[n].series = action[note[n].action].series
<1> DEFINE a == note[n].action
<1>1. TypeOK /\ ActionsAreSealed /\ OpenActionIsWhole
  BY DEF SeriesInv
<1>2. a \in ActionIds
  BY <1>1, RowParts
<1>3. /\ n \in action[a].members
      /\ \A m \in action[a].members :
           /\ Public(m) /\ note[m].series = action[a].series
           /\ note[m].deleted = action[a].trashed
  BY <1>1, <1>2 DEF OpenActionIsWhole
<1>4. action[a].trashed # 0
  BY <1>1, <1>2, <1>3 DEF ActionsAreSealed
<1> QED
  BY <1>2, <1>3, <1>4

(* So a note outside the trash is in no action.                              *)
LEMMA VisibleIsFree ==
  ASSUME SeriesInv, NEW n \in Notes, Visible(n)
  PROVE  note[n].action = 0
  BY MemberIsTrashed DEF Visible

-----------------------------------------------------------------------------
(* What the handlers do to the notes *)

LEMMA CreateRows ==
  ASSUME SeriesInv, NEW generated \in Schedules, CreateSeries(generated)
  PROVE  note' \in [Notes -> NoteRows] /\ \A n \in Notes : RowStep(n)
<1>1. TypeOK /\ NothingBeforeCreation
  BY DEF SeriesInv
<1>2. 1 \in SeriesIds /\ series'[1].there /\ ~series[1].there
  <2>1. 1 \in SeriesIds
    BY SeriesAssumption DEF SeriesIds
  <2>2. series' = [series EXCEPT ![1].there = TRUE] /\ ~series[1].there
    BY DEF CreateSeries
  <2>3. series \in [SeriesIds -> SeriesRows]
    BY <1>1, Parts
  <2> QED
    BY <2>1, <2>2, <2>3 DEF SeriesRows
<1>3. SUFFICES ASSUME NEW n \in Notes
               PROVE  note'[n] \in NoteRows /\ RowStep(n)
  BY DEF CreateSeries
<1>4. CASE n \in {1} \X generated
  <2>1. n[1] = 1 /\ KeyOf(n) \in Keys
    BY <1>1, <1>4, RowParts
  <2>2. note'[n] = NewNote(1, KeyOf(n))
    BY <1>4 DEF CreateSeries
  <2>3. note[n] = NoNote
    BY <1>1, <1>2, <2>1 DEF NothingBeforeCreation
  <2> QED
    BY <1>1, <1>2, <2>1, <2>2, <2>3, Parts, NewRow DEF RowStep, Born
<1>5. CASE n \notin {1} \X generated
  BY <1>1, <1>5, RowParts DEF CreateSeries, RowStep, Still
<1> QED
  BY <1>4, <1>5

LEMMA UpdateRows ==
  ASSUME SeriesInv, NEW n \in Notes, NEW starts \in Keys, UpdateNote(n, starts)
  PROVE  note' \in [Notes -> NoteRows] /\ \A m \in Notes : RowStep(m)
<1> DEFINE r == [note[n] EXCEPT !.starts = starts]
<1>1. TypeOK /\ note[n] \in NoteRows /\ clock \in Times /\ note \in [Notes -> NoteRows]
  BY Parts, RowParts DEF SeriesInv
<1>2. r \in NoteRows
  BY <1>1 DEF NoteRows
<1>3. /\ r.series = note[n].series /\ r.trashed = note[n].trashed /\ r.deleted = note[n].deleted
      /\ r.superseded = note[n].superseded /\ r.purged = note[n].purged
      /\ r.action = note[n].action
  BY <1>1 DEF NoteRows
<1>4. note' = [note EXCEPT ![n] = Reconciled(r)] /\ Visible(n)
  BY DEF UpdateNote
<1>5. Edited(n)
  <2> HIDE DEF r
  <2>1. note'[n] = Reconciled(r)
    BY <1>1, <1>4
  <2>2. note[n].deleted = 0 /\ note[n].action = 0
    BY <1>4, VisibleIsFree DEF Visible
  <2> QED
    BY <1>1, <1>2, <1>3, <1>4, <2>1, <2>2, ReconciledRow DEF Edited, SameButStart
<1> HIDE DEF r
<1>6. note' \in [Notes -> NoteRows] /\ \A m \in Notes \ {n} : note'[m] = note[m]
  BY <1>1, <1>2, <1>4, ReconciledRow
<1> QED
  BY <1>5, <1>6 DEF RowStep, Still

LEMMA DeleteRows ==
  ASSUME SeriesInv, NEW n \in Notes, DeleteNote(n)
  PROVE  note' \in [Notes -> NoteRows] /\ \A m \in Notes : RowStep(m)
<1> DEFINE r == [note[n] EXCEPT !.deleted = clock]
<1>1. TypeOK /\ note[n] \in NoteRows /\ clock \in Times /\ note \in [Notes -> NoteRows]
  BY Parts, RowParts DEF SeriesInv
<1>2. r \in NoteRows
  BY <1>1 DEF NoteRows
<1>3. /\ r.series = note[n].series /\ r.trashed = note[n].trashed /\ r.deleted = clock
      /\ r.superseded = note[n].superseded /\ r.purged = note[n].purged
      /\ r.action = note[n].action
  BY <1>1 DEF NoteRows
<1>4. note' = [note EXCEPT ![n] = Reconciled(r)] /\ Visible(n)
  BY DEF DeleteNote
<1>5. Edited(n)
  <2> HIDE DEF r
  <2>1. note'[n] = Reconciled(r)
    BY <1>1, <1>4
  <2>2. note[n].action = 0
    BY <1>4, VisibleIsFree
  <2> QED
    BY <1>1, <1>2, <1>3, <1>4, <2>1, <2>2, ReconciledRow DEF Edited, SameButStart
<1> HIDE DEF r
<1>6. note' \in [Notes -> NoteRows] /\ \A m \in Notes \ {n} : note'[m] = note[m]
  BY <1>1, <1>2, <1>4, ReconciledRow
<1> QED
  BY <1>5, <1>6 DEF RowStep, Still

(* Restoring a row that the public can reach revives it.                     *)
LEMMA RestoredRow ==
  ASSUME TypeOK, NEW n \in Notes, Public(n), NEW trashed \in {0, note[n].trashed},
         note'[n] = Restored([note[n] EXCEPT !.trashed = trashed])
  PROVE  note'[n] \in NoteRows /\ Revived(n)
<1> DEFINE r == [[note[n] EXCEPT !.trashed = trashed] EXCEPT !.deleted = 0, !.action = 0]
<1>1. note[n] \in NoteRows /\ clock \in Times
  BY Parts, RowParts
<1>2. 0 \in Times /\ 0 \in 0 .. MaxActions
  BY SeriesAssumption DEF Times
<1>3. r \in NoteRows
  BY <1>1, <1>2 DEF NoteRows
<1>4. /\ r.series = note[n].series /\ r.trashed = trashed /\ r.deleted = 0
      /\ r.superseded = note[n].superseded /\ r.purged = note[n].purged /\ r.action = 0
  BY <1>1 DEF NoteRows
<1>5. note'[n] = Reconciled(r)
  BY DEF Restored
<1> HIDE DEF r
<1> QED
  BY <1>1, <1>3, <1>4, <1>5, ReconciledRow DEF Revived, Public, Standing

LEMMA RestoreRows ==
  ASSUME SeriesInv, NEW n \in Notes, RestoreNote(n)
  PROVE  note' \in [Notes -> NoteRows] /\ \A m \in Notes : RowStep(m)
<1>1. TypeOK /\ note[n] \in NoteRows /\ note \in [Notes -> NoteRows]
  BY Parts, RowParts DEF SeriesInv
<1>2. note' = [note EXCEPT ![n] = Restored(note[n])] /\ Public(n)
  BY DEF RestoreNote
<1>3. [note[n] EXCEPT !.trashed = note[n].trashed] = note[n]
  BY <1>1 DEF NoteRows
<1>4. note'[n] = Restored([note[n] EXCEPT !.trashed = note[n].trashed])
  BY <1>1, <1>2, <1>3
<1>5. note'[n] \in NoteRows /\ Revived(n)
  BY <1>1, <1>2, <1>4, RestoredRow
<1>6. \A m \in Notes \ {n} : note'[m] = note[m]
  BY <1>1, <1>2
<1>7. note' \in [Notes -> NoteRows]
  BY <1>1, <1>2, <1>5
<1> QED
  BY <1>5, <1>6, <1>7 DEF RowStep, Still

LEMMA TrashRows ==
  ASSUME SeriesInv, NEW s \in SeriesIds, NEW k \in Keys, TrashPortion(s, k)
  PROVE  note' \in [Notes -> NoteRows] /\ \A n \in Notes : RowStep(n)
<1>1. TypeOK /\ clock \in Times
  BY Parts DEF SeriesInv
<1>2. PICK a \in ActionIds :
        /\ Fresh(a)
        /\ action' = [action EXCEPT ![a] = [series |-> s, boundary |-> k, trashed |-> clock,
                                            members |-> Trashed(s, k)]]
        /\ note' = [n \in Notes |->
                      IF n \notin Trashed(s, k) THEN note[n]
                      ELSE Reconciled([note[n] EXCEPT !.deleted = clock, !.action = a])]
  BY DEF TrashPortion
<1>3. action[a].series = 0 /\ action'[a].series # 0
  <2>1. action'[a] = [series |-> s, boundary |-> k, trashed |-> clock, members |-> Trashed(s, k)]
    BY <1>1, <1>2, Parts
  <2>2. s # 0
    BY SeriesAssumption DEF SeriesIds
  <2>3. action[a].series = 0
    BY <1>2, Zenon DEF Fresh
  <2>4. action'[a].series = s
    BY <2>1
  <2> QED
    BY <2>2, <2>3, <2>4
<1>4. SUFFICES ASSUME NEW n \in Notes
               PROVE  note'[n] \in NoteRows /\ RowStep(n)
  BY <1>2
<1>5. note[n] \in NoteRows /\ a \in 0 .. MaxActions
  BY <1>1, RowParts, SeriesAssumption DEF ActionIds
<1>6. CASE n \in Trashed(s, k)
  <2> DEFINE r == [note[n] EXCEPT !.deleted = clock, !.action = a]
  <2>1. r \in NoteRows
    BY <1>1, <1>5 DEF NoteRows
  <2>2. /\ r.series = note[n].series /\ r.trashed = note[n].trashed /\ r.deleted = clock
        /\ r.superseded = note[n].superseded /\ r.purged = note[n].purged /\ r.action = a
    BY <1>5 DEF NoteRows
  <2>3. Visible(n) /\ note[n].action = 0
    BY <1>6, VisibleIsFree DEF Trashed
  <2>4. note'[n] = Reconciled(r)
    BY <1>2, <1>6
  <2> HIDE DEF r
  <2>5. note'[n] \in NoteRows /\ Thrown(n)
    BY <1>1, <1>3, <1>5, <2>1, <2>2, <2>3, <2>4, ReconciledRow DEF Thrown, SameButStart
  <2> QED
    BY <2>5 DEF RowStep
<1>7. CASE n \notin Trashed(s, k)
  BY <1>2, <1>5, <1>7 DEF RowStep, Still
<1> QED
  BY <1>6, <1>7

(* The members of an action that is open in full are in the trash.           *)
LEMMA OpenMembers ==
  ASSUME SeriesInv, NEW a \in ActionIds, Current(a) # {}, Current(a) = action[a].members,
         NEW n \in action[a].members
  PROVE  n \in Notes /\ note[n].action = a /\ a # 0 /\ Public(n)
<1>1. TypeOK
  BY DEF SeriesInv
<1>2. action[a] \in ActionRows
  BY <1>1, Parts
<1>3. n \in Notes /\ note[n].action = a /\ a # 0
  BY <1>2, SeriesAssumption DEF Current, ActionRows, ActionIds
<1> QED
  BY <1>3, MemberIsTrashed

LEMMA RestoreActionRows ==
  ASSUME SeriesInv, NEW a \in ActionIds, RestoreAction(a)
  PROVE  note' \in [Notes -> NoteRows] /\ \A n \in Notes : RowStep(n)
<1>1. TypeOK
  BY DEF SeriesInv
<1>2. note' = [n \in Notes |-> IF n \in action[a].members THEN Restored(note[n]) ELSE note[n]]
  BY DEF RestoreAction
<1>3. SUFFICES ASSUME NEW n \in Notes
               PROVE  note'[n] \in NoteRows /\ RowStep(n)
  BY <1>2
<1>4. CASE n \in action[a].members
  <2>1. Public(n)
    BY <1>4, OpenMembers DEF RestoreAction
  <2>2. note[n] \in NoteRows
    BY <1>1, RowParts
  <2>3. [note[n] EXCEPT !.trashed = note[n].trashed] = note[n]
    BY <2>2 DEF NoteRows
  <2>4. note'[n] = Restored([note[n] EXCEPT !.trashed = note[n].trashed])
    BY <1>2, <1>4, <2>3
  <2> QED
    BY <1>1, <2>1, <2>4, RestoredRow DEF RowStep
<1>5. CASE n \notin action[a].members
  BY <1>1, <1>2, <1>5, RowParts DEF RowStep, Still
<1> QED
  BY <1>4, <1>5

(* A legacy row that may still be restored is not purged: a purged row has   *)
(* been in the trash for Retention, and with it its mark.                    *)
LEMMA LegacyRowIsPublic ==
  ASSUME SeriesInv, NEW s \in SeriesIds, NEW k \in Keys, NEW n \in LegacyRows(s, k),
         ~Expired(note[n].trashed)
  PROVE  n \in Notes /\ Public(n) /\ note[n].series = s
<1>1. /\ n \in Notes /\ Standing(n) /\ note[n].series = s
  BY DEF LegacyRows, Portion, NotesOf
<1>2. TypeOK /\ InstantsAreOrdered
  BY DEF SeriesInv
<1>3. /\ note[n].trashed \in Nat /\ note[n].deleted \in Nat /\ clock \in Nat /\ Retention \in Nat
  BY <1>1, <1>2, Parts, RowParts
<1>4. ASSUME note[n].purged PROVE FALSE
  <2>1. note[n].deleted # 0 /\ Expired(note[n].deleted) /\ note[n].trashed <= note[n].deleted
    BY <1>1, <1>2, <1>4 DEF InstantsAreOrdered
  <2> QED
    BY <1>3, <2>1 DEF Expired
<1> QED
  BY <1>1, <1>4 DEF Public

LEMMA RestoreLegacyRows ==
  ASSUME SeriesInv, NEW s \in SeriesIds, NEW k \in Keys, RestoreLegacy(s, k)
  PROVE  note' \in [Notes -> NoteRows] /\ \A n \in Notes : RowStep(n)
<1>1. TypeOK
  BY DEF SeriesInv
<1>2. note' = [n \in Notes |-> IF n \in LegacyRows(s, k) THEN LegacyRestored(n) ELSE note[n]]
  BY DEF RestoreLegacy
<1>3. SUFFICES ASSUME NEW n \in Notes
               PROVE  note'[n] \in NoteRows /\ RowStep(n)
  BY <1>2
<1>4. CASE n \in LegacyRows(s, k)
  <2>1. Public(n) /\ note[n].action = 0
    BY <1>4, LegacyRowIsPublic DEF RestoreLegacy, LegacyRows
  <2>2. \/ note'[n] = [note[n] EXCEPT !.trashed = 0]
        \/ note'[n] = Restored([note[n] EXCEPT !.trashed = 0])
    BY <1>2, <1>4 DEF LegacyRestored
  <2>3. CASE note'[n] = [note[n] EXCEPT !.trashed = 0]
    <3>1. note[n] \in NoteRows /\ 0 \in Times
      BY <1>1, RowParts, SeriesAssumption DEF Times
    <3>2. note'[n] \in NoteRows
      BY <2>3, <3>1 DEF NoteRows
    <3> QED
      BY <2>1, <2>3, <3>2 DEF RowStep, Unmarked
  <2>4. CASE note'[n] = Restored([note[n] EXCEPT !.trashed = 0])
    BY <1>1, <2>1, <2>4, RestoredRow DEF RowStep
  <2> QED
    BY <2>2, <2>3, <2>4
<1>5. CASE n \notin LegacyRows(s, k)
  BY <1>1, <1>2, <1>5, RowParts DEF RowStep, Still
<1> QED
  BY <1>4, <1>5

(* The rows of a split: taken over, new, replaced, or left alone.            *)
LEMMA SplitCases ==
  ASSUME NEW s \in SeriesIds, NEW k \in Keys, NEW generated, NEW t \in SeriesIds,
         note' = SplitNotes(s, k, generated, t), NEW n \in Notes
  PROVE  \/ n \in Kept(s, k, generated) /\ note'[n] = Moved(n, t)
         \/ /\ n[1] = t /\ KeyOf(n) \in generated /\ note'[n] = NewNote(t, KeyOf(n))
            /\ \A m \in Kept(s, k, generated) : KeyOf(m) # KeyOf(n)
         \/ n \in Affected(s, k) /\ ~note[n].purged /\ note'[n] = Superseded(n)
         \/ n \notin Affected(s, k) /\ note'[n] = note[n]
         \/ n \in Affected(s, k) /\ note[n].purged /\ note'[n] = note[n]
<1>1. note'[n] = CASE n \in Kept(s, k, generated) -> Moved(n, t)
                   [] n[1] = t /\ KeyOf(n) \in generated
                      /\ \A m \in Kept(s, k, generated) : KeyOf(m) # KeyOf(n) -> NewNote(t, KeyOf(n))
                   [] n \in Affected(s, k) \ Kept(s, k, generated) /\ ~note[n].purged -> Superseded(n)
                   [] OTHER -> note[n]
  BY DEF SplitNotes
<1>2. CASE n \in Kept(s, k, generated)
  BY <1>1, <1>2, Zenon
<1>3. CASE n \notin Kept(s, k, generated)
  BY <1>1, <1>3
<1> QED
  BY <1>2, <1>3

LEMMA SplitRows ==
  ASSUME SeriesInv, NEW s \in SeriesIds, NEW k \in Keys, NEW generated \in Schedules,
         Split(s, k, generated)
  PROVE  note' \in [Notes -> NoteRows] /\ \A n \in Notes : RowStep(n)
<1>1. TypeOK /\ NothingBeforeCreation /\ clock \in Times
  BY Parts DEF SeriesInv
<1>2. PICK t \in SeriesIds :
        /\ ~series[t].there
        /\ series' = [series EXCEPT ![s].boundary = k,
                                    ![t] = [NoSeries EXCEPT !.there = TRUE, !.predecessor = s]]
        /\ note' = SplitNotes(s, k, generated, t)
  BY DEF Split
<1>3. series'[t].there
  BY <1>1, <1>2, Parts DEF NoSeries
<1>4. SUFFICES ASSUME NEW n \in Notes
               PROVE  note'[n] \in NoteRows /\ RowStep(n)
  BY <1>2 DEF SplitNotes
<1>5. /\ note[n] \in NoteRows /\ KeyOf(n) \in Keys
      /\ 0 \in Times /\ t \in 0 .. MaxSeries /\ KeyOf(n) \in Keys \cup {0}
  BY <1>1, RowParts, SeriesAssumption DEF Times, SeriesIds
<1>6. ASSUME n \in Affected(s, k)
      PROVE  /\ Standing(n) /\ note[n].series = s /\ note[n].action = 0 /\ note[n].trashed = 0
             /\ ~note[n].purged => Public(n)
  BY <1>6 DEF Affected, Portion, NotesOf, Public, Split, Untrashed
<1>7. CASE n \in Kept(s, k, generated) /\ note'[n] = Moved(n, t)
  <2> DEFINE r == [note[n] EXCEPT !.series = t, !.starts = KeyOf(n), !.deleted = 0,
                                  !.trashed = 0, !.superseded = FALSE]
  <2>1. Public(n) /\ note[n].action = 0 /\ ~note[n].purged
    BY <1>6, <1>7 DEF Kept
  <2>2. r \in NoteRows
    BY <1>5 DEF NoteRows
  <2>3. /\ r.series = t /\ r.trashed = 0 /\ r.deleted = 0
        /\ ~r.superseded /\ ~r.purged /\ r.action = 0
    BY <1>5, <2>1 DEF NoteRows
  <2>4. note'[n] = Reconciled(r)
    BY <1>7 DEF Moved
  <2> HIDE DEF r
  <2>5. note'[n] \in NoteRows /\ Taken(n)
    BY <1>1, <1>2, <1>3, <2>1, <2>2, <2>3, <2>4, ReconciledRow DEF Taken
  <2> QED
    BY <2>5 DEF RowStep
<1>8. CASE n[1] = t /\ KeyOf(n) \in generated /\ note'[n] = NewNote(t, KeyOf(n))
  <2>1. note[n] = NoNote
    BY <1>1, <1>2, <1>8 DEF NothingBeforeCreation
  <2>2. note'[n] \in NoteRows /\ Born(n)
    BY <1>1, <1>2, <1>3, <1>5, <1>8, <2>1, NewRow DEF Born
  <2> QED
    BY <2>2 DEF RowStep
<1>9. CASE n \in Affected(s, k) /\ ~note[n].purged /\ note'[n] = Superseded(n)
  <2> DEFINE r == [note[n] EXCEPT !.deleted = clock, !.superseded = TRUE]
  <2>1. Public(n) /\ note[n].action = 0
    BY <1>6, <1>9
  <2>2. r \in NoteRows
    BY <1>1, <1>5 DEF NoteRows
  <2>3. /\ r.series = note[n].series /\ r.trashed = note[n].trashed /\ r.deleted = clock
        /\ r.superseded /\ ~r.purged /\ r.action = 0
    BY <1>5, <1>9, <2>1 DEF NoteRows
  <2>4. note'[n] = Reconciled(r)
    BY <1>9 DEF Superseded
  <2> HIDE DEF r
  <2>5. note'[n] \in NoteRows /\ Replaced(n)
    BY <1>1, <2>1, <2>2, <2>3, <2>4, ReconciledRow DEF Replaced
  <2> QED
    BY <2>5 DEF RowStep
<1>10. CASE note'[n] = note[n]
  BY <1>5, <1>10 DEF RowStep, Still
<1> QED
  BY <1>2, <1>7, <1>8, <1>9, <1>10, SplitCases

LEMMA PurgeRows ==
  ASSUME SeriesInv, PurgeBatch
  PROVE  note' \in [Notes -> NoteRows] /\ \A n \in Notes : RowStep(n)
<1>1. TypeOK
  BY DEF SeriesInv
<1>2. note' = [n \in Notes |-> IF n \in Purged THEN Purge(n) ELSE note[n]]
  BY DEF PurgeBatch
<1>3. SUFFICES ASSUME NEW n \in Notes
               PROVE  note'[n] \in NoteRows /\ RowStep(n)
  BY <1>2
<1>4. note[n] \in NoteRows /\ 0 \in 0 .. MaxActions
  BY <1>1, RowParts, SeriesAssumption
<1>5. Purge(n) \in NoteRows
  BY <1>4 DEF Purge, NoteRows
<1> QED
  BY <1>2, <1>4, <1>5 DEF RowStep, Still, Erased, Purged

-----------------------------------------------------------------------------
(* Every step *)

LEMMA StepRows ==
  ASSUME SeriesInv, [Next]_vars
  PROVE  note' \in [Notes -> NoteRows] /\ \A n \in Notes : RowStep(n)
<1>1. CASE note' = note
  BY <1>1, Parts DEF SeriesInv, RowStep, Still
<1>2. CASE \E generated \in Schedules : CreateSeries(generated)
  BY <1>2, CreateRows
<1>3. CASE Occurrences
  BY <1>3, DeleteRows, RestoreRows, UpdateRows DEF Occurrences
<1>4. CASE Portions
  BY <1>4, TrashRows, RestoreLegacyRows, SplitRows DEF Portions
<1>5. CASE \E a \in ActionIds : RestoreAction(a)
  BY <1>5, RestoreActionRows
<1>6. CASE PurgeBatch
  BY <1>6, PurgeRows
<1> QED
  BY <1>1, <1>2, <1>3, <1>4, <1>5, <1>6
     DEF Next, Cleaning, StartCleanup, Choose, CleanupCrash, Tick, vars

(* Time passes in steps of its own.                                          *)
LEMMA StepClock ==
  ASSUME SeriesInv, [Next]_vars
  PROVE  \/ clock' = clock
         \/ clock' = clock + 1 /\ clock < MaxTime /\ UNCHANGED <<note, series, action, mark, cleanup>>
  BY DEF Next, Cleaning, StartCleanup, Choose, CleanupCrash, PurgeBatch, Tick, vars, CreateSeries,
         Occurrences, DeleteNote, RestoreNote, UpdateNote, Portions, TrashPortion, RestoreLegacy,
         Split, RestoreAction

(* Only creation, splits and purges write series.                            *)
LEMMA StepSeries ==
  ASSUME SeriesInv, [Next]_vars
  PROVE  \/ series' = series
         \/ \E generated \in Schedules : CreateSeries(generated)
         \/ \E s \in SeriesIds, k \in Keys, generated \in Schedules : Split(s, k, generated)
         \/ PurgeBatch
  BY DEF Next, Cleaning, StartCleanup, Choose, CleanupCrash, Tick, vars,
         Occurrences, DeleteNote, RestoreNote, UpdateNote, Portions, TrashPortion, RestoreLegacy,
         RestoreAction

(* Only the trash of a portion writes actions.                               *)
LEMMA StepActions ==
  ASSUME SeriesInv, [Next]_vars
  PROVE  \/ action' = action
         \/ \E s \in SeriesIds, k \in Keys : TrashPortion(s, k)
  BY DEF Next, Cleaning, StartCleanup, Choose, CleanupCrash, PurgeBatch, Tick, vars, CreateSeries,
         Occurrences, DeleteNote, RestoreNote, UpdateNote, Portions, RestoreLegacy,
         Split, RestoreAction

(* Only the cleanup writes its batch.                                        *)
LEMMA StepCleanup ==
  ASSUME SeriesInv, [Next]_vars
  PROVE  cleanup' = cleanup \/ StartCleanup \/ Choose \/ PurgeBatch \/ CleanupCrash
  BY DEF Next, Cleaning, Tick, vars, CreateSeries,
         Occurrences, DeleteNote, RestoreNote, UpdateNote, Portions, TrashPortion, RestoreLegacy,
         Split, RestoreAction

(* Only edits, single deletions and restores, splits and purges write marks. *)
LEMMA StepMarks ==
  ASSUME SeriesInv, [Next]_vars
  PROVE  \/ mark' = mark
         \/ \E n \in Notes : DeleteNote(n) \/ RestoreNote(n)
                             \/ \E starts \in Keys : UpdateNote(n, starts)
         \/ \E s \in SeriesIds, k \in Keys, generated \in Schedules : Split(s, k, generated)
         \/ PurgeBatch
  BY DEF Next, Cleaning, StartCleanup, Choose, CleanupCrash, Tick, vars, CreateSeries,
         Occurrences, Portions, TrashPortion, RestoreLegacy, RestoreAction

(* Types *)

LEMMA SeriesType ==
  ASSUME SeriesInv, [Next]_vars
  PROVE  series' \in [SeriesIds -> SeriesRows]
<1>1. series \in [SeriesIds -> SeriesRows]
  BY Parts DEF SeriesInv
<1>2. 1 \in SeriesIds /\ \A s \in SeriesIds : s \in 0 .. MaxSeries
  BY SeriesAssumption DEF SeriesIds
<1>3. ASSUME NEW generated \in Schedules, CreateSeries(generated)
      PROVE  series' \in [SeriesIds -> SeriesRows]
  <2>1. series' = [series EXCEPT ![1].there = TRUE]
    BY <1>3 DEF CreateSeries
  <2>2. [series[1] EXCEPT !.there = TRUE] \in SeriesRows
    BY <1>1, <1>2 DEF SeriesRows
  <2> QED
    BY <1>1, <1>2, <2>1, <2>2
<1>4. ASSUME NEW s \in SeriesIds, NEW k \in Keys, NEW generated \in Schedules,
             Split(s, k, generated)
      PROVE  series' \in [SeriesIds -> SeriesRows]
  <2>1. PICK t \in SeriesIds :
          series' = [series EXCEPT ![s].boundary = k,
                                   ![t] = [NoSeries EXCEPT !.there = TRUE, !.predecessor = s]]
    BY <1>4 DEF Split
  <2>2. [series[s] EXCEPT !.boundary = k] \in SeriesRows
    BY <1>1, <1>2 DEF SeriesRows
  <2>3. [NoSeries EXCEPT !.there = TRUE, !.predecessor = s] \in SeriesRows
    BY <1>2 DEF NoSeries, SeriesRows
  <2> QED
    BY <1>1, <2>1, <2>2, <2>3
<1>5. CASE PurgeBatch
  <2>1. series' = [s \in SeriesIds |-> IF s \in Sealed THEN [series[s] EXCEPT !.purged = TRUE]
                                       ELSE series[s]]
    BY <1>5 DEF PurgeBatch
  <2>2. \A s \in SeriesIds : [series[s] EXCEPT !.purged = TRUE] \in SeriesRows
    BY <1>1 DEF SeriesRows
  <2> QED
    BY <1>1, <2>1, <2>2
<1> QED
  BY <1>1, <1>3, <1>4, <1>5, StepSeries

LEMMA ActionType ==
  ASSUME SeriesInv, [Next]_vars
  PROVE  action' \in [ActionIds -> ActionRows]
<1>1. action \in [ActionIds -> ActionRows] /\ clock \in Times
  BY Parts DEF SeriesInv
<1>2. ASSUME NEW s \in SeriesIds, NEW k \in Keys, TrashPortion(s, k)
      PROVE  action' \in [ActionIds -> ActionRows]
  <2>1. PICK a \in ActionIds :
          action' = [action EXCEPT ![a] = [series |-> s, boundary |-> k, trashed |-> clock,
                                           members |-> Trashed(s, k)]]
    BY <1>2 DEF TrashPortion
  <2>2. s \in 0 .. MaxSeries /\ Trashed(s, k) \subseteq Notes
    BY SeriesAssumption DEF SeriesIds, Trashed, Portion, NotesOf
  <2>3. [series |-> s, boundary |-> k, trashed |-> clock, members |-> Trashed(s, k)] \in ActionRows
    BY <1>1, <2>2 DEF ActionRows
  <2> QED
    BY <1>1, <2>1, <2>3
<1> QED
  BY <1>1, <1>2, StepActions

LEMMA MarkType ==
  ASSUME SeriesInv, [Next]_vars
  PROVE  mark' \in [SeriesIds \X Keys -> Marks]
<1>1. TypeOK /\ mark \in [SeriesIds \X Keys -> Marks]
  BY Parts DEF SeriesInv
<1>2. ASSUME NEW n \in Notes, NEW r, NEW c \in BOOLEAN, mark' = Marked(n, r, c)
      PROVE  mark' \in [SeriesIds \X Keys -> Marks]
  <2>1. [cancelled |-> c, fields |-> r.starts # KeyOf(n)] \in Marks
    BY DEF Marks
  <2> QED
    BY <1>1, <1>2, <2>1 DEF Marked
<1>3. NoMark \in Marks /\ [cancelled |-> TRUE, fields |-> FALSE] \in Marks
  BY DEF NoMark, Marks
<1>4. ASSUME NEW n \in Notes, DeleteNote(n) \/ RestoreNote(n)
      PROVE  mark' \in [SeriesIds \X Keys -> Marks]
  <2>1. \E r, c : c \in BOOLEAN /\ mark' = Marked(n, r, c)
    BY <1>4 DEF DeleteNote, RestoreNote
  <2> QED
    BY <1>2, <2>1
<1>5. ASSUME NEW n \in Notes, NEW starts \in Keys, UpdateNote(n, starts)
      PROVE  mark' \in [SeriesIds \X Keys -> Marks]
  <2> DEFINE r == Reconciled([note[n] EXCEPT !.starts = starts])
  <2>1. mark' = Marked(n, r, mark[<<r.series, KeyOf(n)>>].cancelled)
    BY <1>5 DEF UpdateNote
  <2>2. mark[<<r.series, KeyOf(n)>>].cancelled \in BOOLEAN
    <3>1. note[n] \in NoteRows /\ note[n].series # 0 /\ clock \in Times /\ KeyOf(n) \in Keys
      BY <1>1, <1>5, Parts, RowParts DEF UpdateNote, Visible, Public, Standing
    <3>2. [note[n] EXCEPT !.starts = starts] \in NoteRows
      BY <3>1 DEF NoteRows
    <3>3. r.series = note[n].series
      BY <3>1, <3>2, ReconciledRow DEF NoteRows
    <3>4. r.series \in SeriesIds
      BY <1>1, <3>1, <3>3, RowParts
    <3> HIDE DEF r
    <3>5. mark[<<r.series, KeyOf(n)>>] \in Marks
      BY <1>1, <3>1, <3>4
    <3> QED
      BY <3>5 DEF Marks
  <2> HIDE DEF r
  <2> QED
    BY <1>2, <2>1, <2>2
<1>6. ASSUME NEW s \in SeriesIds, NEW k \in Keys, NEW generated \in Schedules,
             Split(s, k, generated)
      PROVE  mark' \in [SeriesIds \X Keys -> Marks]
  BY <1>1, <1>3, <1>6 DEF Split, SplitMarks
<1>7. CASE PurgeBatch
  <2>1. \A e \in SeriesIds \X Keys : [mark[e] EXCEPT !.fields = FALSE] \in Marks
    BY <1>1 DEF Marks
  <2> QED
    BY <1>1, <1>3, <1>7, <2>1 DEF PurgeBatch, PurgeMarks
<1> QED
  BY <1>1, <1>4, <1>5, <1>6, <1>7, StepMarks

(* The rows of a batch have a series.                                        *)
LEMMA BatchType ==
  ASSUME SeriesInv, NEW chosen, chosen \subseteq {n \in Notes : Due(n)}
  PROVE  /\ WithActions(chosen) \subseteq Notes
         /\ \A n \in WithActions(chosen) : note[n].series \in SeriesIds
<1>1. TypeOK
  BY DEF SeriesInv
<1>2. SUFFICES ASSUME NEW n \in WithActions(chosen)
               PROVE  n \in Notes /\ note[n].series \in SeriesIds
  OBVIOUS
<1>3. CASE n \in chosen
  BY <1>1, <1>3, RowParts DEF Due
<1>4. CASE n \notin chosen
  <2>1. PICK m \in chosen : n \in Current(note[m].action) /\ note[m].action # 0
    BY <1>2, <1>4 DEF WithActions
  <2>2. note[m].action \in ActionIds /\ m \in Notes
    BY <1>1, <2>1, RowParts
  <2>3. action[note[m].action] \in ActionRows
    BY <1>1, <2>2, Parts
  <2>4. n \in Notes /\ note[n].action # 0
    BY <2>1, <2>3 DEF Current, ActionRows
  <2>5. Public(n)
    BY <2>4, MemberIsTrashed
  <2> QED
    BY <1>1, <2>4, <2>5, RowParts DEF Public, Standing
<1> QED
  BY <1>3, <1>4

LEMMA CleanupType ==
  ASSUME SeriesInv, [Next]_vars
  PROVE  cleanup' \in Cleanups
<1>1. TypeOK /\ cleanup \in Cleanups /\ clock \in Times
  BY Parts DEF SeriesInv, TypeOK
<1>2. NoCleanup \in Cleanups /\ NoCleanup.notes = {} /\ NoCleanup.series = {}
  BY SeriesAssumption DEF NoCleanup, Cleanups, Times
<1>3. CASE StartCleanup \/ CleanupCrash
  BY <1>1, <1>2, <1>3 DEF StartCleanup, CleanupCrash, NoCleanup, Cleanups
<1>4. CASE Choose
  <2>1. PICK chosen \in SUBSET {n \in Notes : Due(n)} :
          cleanup' = [cleanup EXCEPT !.chosen = TRUE, !.notes = WithActions(chosen),
                                     !.series = {note[n].series : n \in WithActions(chosen)}]
    BY <1>4 DEF Choose
  <2>2. WithActions(chosen) \subseteq Notes /\ {note[n].series : n \in WithActions(chosen)} \subseteq SeriesIds
    BY BatchType
  <2> QED
    BY <1>1, <2>1, <2>2 DEF Cleanups
<1>5. CASE PurgeBatch
  <2>1. cleanup' = NoCleanup \/ cleanup' = [NoCleanup EXCEPT !.at = cleanup.at]
    BY <1>5 DEF PurgeBatch
  <2> QED
    BY <1>1, <1>2, <2>1 DEF NoCleanup, Cleanups
<1> QED
  BY <1>1, <1>3, <1>4, <1>5, StepCleanup

LEMMA StepType ==
  ASSUME SeriesInv, [Next]_vars
  PROVE  TypeOK'
<1>1. clock' \in Times
  BY StepClock, Parts, SeriesAssumption DEF SeriesInv, Times
<1> QED
  BY <1>1, StepRows, SeriesType, ActionType, MarkType, CleanupType DEF TypeOK

(* Series *)

(* A series that is there stays there; one that is not has no row.           *)
LEMMA StepThere ==
  ASSUME SeriesInv, [Next]_vars, NEW s \in SeriesIds
  PROVE  /\ series[s].there => series'[s].there
         /\ ~series'[s].there => series'[s] = NoSeries
         /\ series[s].purged => series'[s] = series[s]
<1>1. series \in [SeriesIds -> SeriesRows] /\ 1 \in SeriesIds
  BY Parts, SeriesAssumption DEF SeriesInv, SeriesIds
<1>2. ~series[s].there => series[s] = NoSeries
  BY DEF SeriesInv, NothingBeforeCreation
<1>3. ~NoSeries.purged
  BY DEF NoSeries
<1>4. ASSUME NEW generated \in Schedules, CreateSeries(generated)
      PROVE  /\ series[s].there => series'[s].there
             /\ ~series'[s].there => series'[s] = NoSeries
             /\ series[s].purged => series'[s] = series[s]
  <2>1. series' = [series EXCEPT ![1].there = TRUE] /\ ~series[1].there
    BY <1>4 DEF CreateSeries
  <2>2. CASE s = 1
    <3>1. series'[s] = [series[1] EXCEPT !.there = TRUE]
      BY <1>1, <2>1, <2>2
    <3>2. series'[s].there /\ ~series[s].purged
      BY <1>1, <1>2, <1>3, <2>1, <2>2, <3>1 DEF SeriesRows
    <3> QED
      BY <3>2
  <2>3. CASE s # 1
    BY <1>1, <1>2, <2>1, <2>3
  <2> QED
    BY <2>2, <2>3
<1>5. ASSUME NEW u \in SeriesIds, NEW k \in Keys, NEW generated \in Schedules,
             Split(u, k, generated)
      PROVE  /\ series[s].there => series'[s].there
             /\ ~series'[s].there => series'[s] = NoSeries
             /\ series[s].purged => series'[s] = series[s]
  <2>1. PICK t \in SeriesIds :
          /\ ~series[t].there
          /\ series' = [series EXCEPT ![u].boundary = k,
                                      ![t] = [NoSeries EXCEPT !.there = TRUE, !.predecessor = u]]
    BY <1>5 DEF Split
  <2>2. series[u].there /\ ~series[u].purged /\ u # t
    BY <1>5, <2>1 DEF Split, Open
  <2>3. CASE s = t
    <3>1. series'[s] = [NoSeries EXCEPT !.there = TRUE, !.predecessor = u]
      BY <1>1, <2>1, <2>2, <2>3
    <3>2. series'[s].there
      BY <3>1 DEF NoSeries
    <3>3. ~series[s].purged
      BY <1>2, <1>3, <2>1, <2>3
    <3> QED
      BY <3>2, <3>3
  <2>4. CASE s = u
    <3>1. series'[s] = [series[s] EXCEPT !.boundary = k]
      BY <1>1, <2>1, <2>2, <2>4
    <3>2. series'[s].there
      BY <1>1, <2>2, <2>4, <3>1 DEF SeriesRows
    <3> QED
      BY <2>2, <2>4, <3>2
  <2>5. CASE s # t /\ s # u
    BY <1>1, <1>2, <2>1, <2>5
  <2> QED
    BY <2>3, <2>4, <2>5
<1>6. CASE PurgeBatch
  <2>1. \/ series'[s] = series[s]
        \/ s \in Sealed /\ series'[s] = [series[s] EXCEPT !.purged = TRUE]
    BY <1>6 DEF PurgeBatch
  <2>2. CASE s \in Sealed /\ series'[s] = [series[s] EXCEPT !.purged = TRUE]
    <3>1. series[s].there /\ ~series[s].purged
      BY <2>2 DEF Sealed, SeriesInv, NothingBeforeCreation
    <3>2. series'[s].there
      BY <1>1, <2>2, <3>1 DEF SeriesRows
    <3> QED
      BY <3>1, <3>2
  <2> QED
    BY <1>2, <2>1, <2>2
<1>7. CASE series' = series
  BY <1>2, <1>7
<1> QED
  BY <1>4, <1>5, <1>6, <1>7, StepSeries

LEMMA StepNothingBefore ==
  ASSUME SeriesInv, [Next]_vars
  PROVE  NothingBeforeCreation'
<1>1. TypeOK /\ NothingBeforeCreation
  BY DEF SeriesInv
<1>2. ASSUME NEW n \in Notes, ~series'[n[1]].there
      PROVE  note'[n] = NoNote
  <2>1. n[1] \in SeriesIds
    BY <1>1, RowParts
  <2>2. ~series[n[1]].there
    BY <1>2, <2>1, StepThere
  <2>3. note[n] = NoNote
    BY <1>1, <2>2 DEF NothingBeforeCreation
  <2>4. note[n].series = 0
    BY <2>3 DEF NoNote
  <2>5. ~Public(n) /\ ~Visible(n) /\ ~Due(n)
    BY <2>4 DEF Public, Visible, Standing, Due
  <2>6. Still(n)
    BY <1>2, <2>5, StepRows
       DEF RowStep, Born, Edited, Thrown, Revived, Unmarked, Taken, Replaced, Erased
  <2> QED
    BY <2>3, <2>6 DEF Still
<1>3. ASSUME NEW n \in Notes, note'[n].series # 0
      PROVE  series'[note'[n].series].there
  <2>1. CASE Born(n) \/ Taken(n)
    BY <2>1 DEF Born, Taken
  <2>2. CASE note'[n].series = note[n].series
    <3>1. note[n].series \in SeriesIds
      BY <1>1, <1>3, <2>2, RowParts
    <3>2. series[note[n].series].there
      BY <1>1, <1>3, <2>2 DEF NothingBeforeCreation
    <3> QED
      BY <2>2, <3>1, <3>2, StepThere
  <2>3. ASSUME Unmarked(n) \/ Erased(n) PROVE note'[n].series = note[n].series
    <3>1. note[n] \in NoteRows
      BY <1>1, RowParts
    <3> QED
      BY <2>3, <3>1 DEF Unmarked, Erased, Purge, NoteRows
  <2> QED
    BY <2>1, <2>2, <2>3, StepRows
       DEF RowStep, Still, Edited, Thrown, SameButStart, Revived, Replaced
<1>4. ASSUME NEW s \in cleanup'.series
      PROVE  series'[s].there
  <2>1. cleanup.series \subseteq SeriesIds
    BY <1>1, Parts
  <2>2. CASE cleanup' = cleanup
    BY <1>1, <1>4, <2>1, <2>2, StepThere DEF NothingBeforeCreation
  <2>3. CASE StartCleanup \/ CleanupCrash \/ PurgeBatch
    <3>1. cleanup'.series = {}
      BY <2>3 DEF StartCleanup, CleanupCrash, PurgeBatch, NoCleanup
    <3> QED
      BY <1>4, <3>1
  <2>4. CASE Choose
    <3>1. PICK chosen \in SUBSET {n \in Notes : Due(n)} :
            cleanup' = [cleanup EXCEPT !.chosen = TRUE, !.notes = WithActions(chosen),
                                       !.series = {note[n].series : n \in WithActions(chosen)}]
      BY <2>4 DEF Choose
    <3>2. cleanup'.series = {note[n].series : n \in WithActions(chosen)}
      BY <1>1, <3>1 DEF TypeOK, Cleanups
    <3>3. PICK n \in WithActions(chosen) : s = note[n].series
      BY <1>4, <3>2
    <3>4. n \in Notes /\ s \in SeriesIds
      BY <3>3, BatchType
    <3>5. s # 0
      BY <3>4, SeriesAssumption DEF SeriesIds
    <3>6. series[s].there
      BY <1>1, <3>3, <3>4, <3>5 DEF NothingBeforeCreation
    <3> QED
      BY <3>4, <3>6, StepThere
  <2> QED
    BY <2>2, <2>3, <2>4, StepCleanup
<1> QED
  BY <1>2, <1>3, <1>4, StepThere DEF NothingBeforeCreation

(* Instants *)

LEMMA StepInstants ==
  ASSUME SeriesInv, [Next]_vars
  PROVE  InstantsAreOrdered'
<1>1. TypeOK /\ InstantsAreOrdered /\ TypeOK'
  BY StepType DEF SeriesInv
<1>2. /\ clock \in Nat /\ Retention \in Nat /\ Retention > 0 /\ cleanup.at \in Nat
      /\ clock' \in Nat /\ clock <= clock' /\ clock >= 1 /\ cleanup.at <= clock
  BY <1>1, Parts, StepClock DEF InstantsAreOrdered
<1>3. cleanup'.at <= clock'
  <2>1. CASE cleanup' = cleanup
    BY <1>2, <2>1
  <2>2. CASE StartCleanup
    BY <1>2, <2>2, SeriesAssumption DEF StartCleanup, NoCleanup
  <2>3. CASE CleanupCrash
    BY <1>2, <2>3 DEF CleanupCrash, NoCleanup
  <2>4. CASE PurgeBatch
    BY <1>2, <2>4 DEF PurgeBatch, NoCleanup
  <2>5. CASE Choose
    <3>1. cleanup'.at = cleanup.at
      BY <1>1, <2>5 DEF Choose, TypeOK, Cleanups
    <3> QED
      BY <1>2, <3>1
  <2> QED
    BY <2>1, <2>2, <2>3, <2>4, <2>5, StepCleanup
<1>4. ASSUME NEW n \in Notes
      PROVE  /\ note'[n].deleted <= clock' /\ note'[n].trashed <= clock'
             /\ note'[n].deleted # 0 => note'[n].trashed <= note'[n].deleted
             /\ note'[n].purged => note'[n].deleted # 0 /\ Expired(note[n].deleted)'
  <2>1. /\ note[n] \in NoteRows /\ note[n].deleted \in Nat /\ note[n].trashed \in Nat
        /\ note'[n].deleted \in Nat /\ note'[n].trashed \in Nat /\ note'[n].purged \in BOOLEAN
        /\ note[n].deleted <= clock /\ note[n].trashed <= clock
        /\ note[n].deleted # 0 => note[n].trashed <= note[n].deleted
        /\ note[n].purged => note[n].deleted # 0 /\ Expired(note[n].deleted)
    <3>1. note'[n] \in NoteRows
      BY StepRows
    <3>2. note'[n].deleted \in Nat /\ note'[n].trashed \in Nat /\ note'[n].purged \in BOOLEAN
      BY <3>1, SeriesAssumption DEF NoteRows, Times
    <3> QED
      BY <1>1, <3>2, RowParts DEF InstantsAreOrdered
  <2>2. CASE Still(n)
    BY <1>2, <2>1, <2>2 DEF Still, Expired
  <2>3. CASE Edited(n) \/ Thrown(n)
    BY <1>2, <2>1, <2>3 DEF Edited, Thrown, SameButStart, Visible, Public
  <2>4. CASE Born(n) \/ Revived(n) \/ Taken(n)
    BY <1>2, <2>1, <2>4 DEF Born, Revived, Taken
  <2>5. CASE Replaced(n)
    BY <1>2, <2>1, <2>5 DEF Replaced
  <2>6. CASE Unmarked(n)
    <3>1. /\ note'[n].deleted = note[n].deleted /\ note'[n].trashed = 0
          /\ note'[n].purged = note[n].purged
      BY <2>1, <2>6 DEF Unmarked, NoteRows
    <3> QED
      BY <1>2, <2>1, <3>1 DEF Expired
  <2>7. CASE Erased(n)
    <3>1. note'[n].deleted = note[n].deleted /\ note'[n].trashed = note[n].trashed
      BY <2>1, <2>7 DEF Erased, Purge, NoteRows
    <3>2. note[n].deleted # 0 /\ note[n].deleted + Retention <= cleanup.at
      BY <2>7 DEF Erased, Due
    <3> QED
      BY <1>2, <2>1, <3>1, <3>2 DEF Expired
  <2> QED
    BY <2>2, <2>3, <2>4, <2>5, <2>6, <2>7, StepRows DEF RowStep
<1>5. clock' >= 1
  BY <1>2
<1> QED
  BY <1>3, <1>4, <1>5 DEF InstantsAreOrdered

(* Actions *)

(* A note that has an action loses it only with all the action's notes, or   *)
(* with the rest of a batch.                                                 *)
LEMMA HolderStep ==
  ASSUME SeriesInv, [Next]_vars, NEW n \in Notes, note[n].action # 0
  PROVE  \/ Still(n)
         \/ \E a \in ActionIds : RestoreAction(a) /\ n \in action[a].members
         \/ PurgeBatch /\ n \in Purged
<1>1. TypeOK /\ NothingBeforeCreation /\ note \in [Notes -> NoteRows]
  BY Parts DEF SeriesInv
<1>2. ~Visible(n) /\ note[n] # NoNote
  BY VisibleIsFree DEF NoNote
<1>3. CASE note' = note
  BY <1>3 DEF Still
<1>4. CASE \E generated \in Schedules : CreateSeries(generated)
  <2>1. PICK generated \in Schedules : CreateSeries(generated)
    BY <1>4
  <2>2. /\ ~series[1].there
        /\ note' = [m \in Notes |-> IF m \in {1} \X generated THEN NewNote(1, KeyOf(m)) ELSE note[m]]
    BY <2>1 DEF CreateSeries
  <2>3. n \notin {1} \X generated
    BY <1>1, <1>2, <2>2 DEF NothingBeforeCreation
  <2> QED
    BY <2>2, <2>3 DEF Still
<1>5. CASE Occurrences
  <2>1. PICK m \in Notes : \/ DeleteNote(m) \/ RestoreNote(m)
                           \/ \E starts \in Keys : UpdateNote(m, starts)
    BY <1>5 DEF Occurrences
  <2>2. m # n
    BY <1>2, <2>1 DEF DeleteNote, RestoreNote, UpdateNote
  <2>3. \E row : note' = [note EXCEPT ![m] = row]
    BY <2>1 DEF DeleteNote, RestoreNote, UpdateNote
  <2> QED
    BY <1>1, <2>2, <2>3 DEF Still
<1>6. CASE Portions
  <2>1. PICK s \in SeriesIds, k \in Keys :
          \/ TrashPortion(s, k) \/ RestoreLegacy(s, k)
          \/ \E generated \in Schedules : Split(s, k, generated)
    BY <1>6 DEF Portions
  <2>2. CASE TrashPortion(s, k)
    BY <1>2, <2>2 DEF TrashPortion, Trashed, Still
  <2>3. CASE RestoreLegacy(s, k)
    BY <2>3 DEF RestoreLegacy, LegacyRows, Still
  <2>4. ASSUME NEW generated \in Schedules, Split(s, k, generated)
        PROVE  Still(n)
    <3>1. PICK t \in SeriesIds : ~series[t].there /\ note' = SplitNotes(s, k, generated, t)
      BY <2>4 DEF Split
    <3>2. n[1] # t
      BY <1>1, <1>2, <3>1 DEF NothingBeforeCreation
    <3>3. n \notin Affected(s, k) /\ n \notin Kept(s, k, generated)
      BY <2>4 DEF Split, Untrashed, Kept
    <3> QED
      BY <3>1, <3>2, <3>3, SplitCases DEF Still
  <2> QED
    BY <2>1, <2>2, <2>3, <2>4
<1>7. CASE \E a \in ActionIds : RestoreAction(a)
  BY <1>7 DEF RestoreAction, Still
<1>8. CASE PurgeBatch
  BY <1>8 DEF PurgeBatch, Still
<1> QED
  BY <1>3, <1>4, <1>5, <1>6, <1>7, <1>8
     DEF Next, Cleaning, StartCleanup, Choose, CleanupCrash, Tick, vars

(* A note comes to an action only with the action.                           *)
LEMMA NewHolder ==
  ASSUME SeriesInv, [Next]_vars, NEW n \in Notes, note'[n].action # 0
  PROVE  Still(n) \/ Thrown(n)
<1>1. note[n] \in NoteRows
  BY RowParts DEF SeriesInv
<1>2. ASSUME Unmarked(n) \/ Erased(n) PROVE FALSE
  BY <1>1, <1>2 DEF Unmarked, Erased, Purge, NoteRows
<1> QED
  BY <1>2, StepRows DEF RowStep, Born, Edited, Revived, Taken, Replaced

(* An action keeps all its notes as they are or loses them all.              *)
LEMMA AllOrNothing ==
  ASSUME SeriesInv, [Next]_vars, NEW a \in ActionIds
  PROVE  \/ \A n \in Notes : note[n].action = a => Still(n)
         \/ \A n \in Notes : note[n].action = a => note'[n].action = 0
<1>1. TypeOK /\ a # 0 /\ OpenActionIsWhole /\ BatchIsWhole
  BY SeriesAssumption DEF SeriesInv, ActionIds
<1>2. CASE \E b \in ActionIds : RestoreAction(b)
  <2>1. PICK b \in ActionIds : RestoreAction(b)
    BY <1>2
  <2>2. note' = [n \in Notes |-> IF n \in action[b].members THEN Restored(note[n]) ELSE note[n]]
    BY <2>1 DEF RestoreAction
  <2>3. CASE a = b
    <3>1. SUFFICES ASSUME NEW n \in Notes, note[n].action = a
                   PROVE  note'[n].action = 0
      OBVIOUS
    <3>2. n \in action[b].members
      BY <1>1, <2>3, <3>1, MemberIsTrashed
    <3>3. note[n] \in NoteRows /\ note'[n] = Restored(note[n])
      BY <1>1, <2>2, <3>2, RowParts
    <3>4. Public(n) /\ [note[n] EXCEPT !.trashed = note[n].trashed] = note[n]
      BY <1>1, <3>1, <3>3, MemberIsTrashed DEF NoteRows
    <3>5. Revived(n)
      BY <1>1, <3>3, <3>4, RestoredRow
    <3> QED
      BY <3>5 DEF Revived
  <2>4. CASE a # b
    BY <2>1, <2>2, <2>4, OpenMembers DEF RestoreAction, Still
  <2> QED
    BY <2>3, <2>4
<1>3. CASE PurgeBatch
  <2>1. note' = [n \in Notes |-> IF n \in Purged THEN Purge(n) ELSE note[n]]
    BY <1>3 DEF PurgeBatch
  <2>2. CASE \A n \in Notes : note[n].action = a => n \notin Purged
    BY <2>1, <2>2 DEF Still
  <2>3. ASSUME NEW m \in Notes, note[m].action = a, m \in Purged,
               NEW n \in Notes, note[n].action = a
        PROVE  note'[n].action = 0
    <3>1. m \in cleanup.notes /\ Due(m)
      BY <2>3 DEF Purged
    <3>2. n \in cleanup.notes
      BY <1>1, <2>3, <3>1 DEF BatchIsWhole
    <3>3. Due(n)
      BY <1>1, <2>3, <3>1, MemberIsTrashed DEF Due, Public, Standing
    <3>4. note'[n] = Purge(n) /\ note[n] \in NoteRows
      BY <1>1, <2>1, <3>2, <3>3, RowParts DEF Purged
    <3> QED
      BY <3>4 DEF Purge, NoteRows
  <2> QED
    BY <2>2, <2>3
<1>4. CASE ~PurgeBatch /\ ~\E b \in ActionIds : RestoreAction(b)
  BY <1>1, <1>4, HolderStep
<1> QED
  BY <1>2, <1>3, <1>4

(* So an action that was whole is whole or closed.                           *)
LEMMA OldActionIsWhole ==
  ASSUME SeriesInv, [Next]_vars, NEW a \in ActionIds, action'[a] = action[a]
  PROVE  \/ \A n \in Notes : note'[n].action # a
         \/ /\ {n \in Notes : note'[n].action = a} = action'[a].members
            /\ \A n \in action'[a].members :
                 /\ Public(n)'
                 /\ note'[n].series = action'[a].series
                 /\ KeyOf(n) >= action'[a].boundary
                 /\ note'[n].deleted = action'[a].trashed
<1>1. a # 0 /\ OpenActionIsWhole /\ TypeOK
  BY SeriesAssumption DEF SeriesInv, ActionIds
<1>2. ASSUME NEW n \in Notes, note'[n].action = a
      PROVE  note[n].action = a /\ Still(n)
  BY <1>1, <1>2, NewHolder DEF Thrown, Still
<1>3. CASE \A n \in Notes : note'[n].action # a
  BY <1>3
<1>4. CASE \E n \in Notes : note'[n].action = a
  <2>1. PICK n \in Notes : note'[n].action = a
    BY <1>4
  <2>2. note[n].action = a /\ note'[n].action # 0
    BY <1>1, <1>2, <2>1
  <2>3. \A m \in Notes : note[m].action = a => Still(m)
    BY <2>2, AllOrNothing
  <2>4. {m \in Notes : note'[m].action = a} = {m \in Notes : note[m].action = a}
    BY <1>2, <2>3 DEF Still
  <2>5. /\ {m \in Notes : note[m].action = a} = action[a].members
        /\ \A m \in action[a].members :
             /\ Public(m)
             /\ note[m].series = action[a].series
             /\ KeyOf(m) >= action[a].boundary
             /\ note[m].deleted = action[a].trashed
    BY <1>1, <2>2 DEF OpenActionIsWhole
  <2>6. \A m \in action[a].members : m \in Notes /\ Still(m)
    BY <2>3, <2>5
  <2> QED
    BY <2>4, <2>5, <2>6 DEF Still, Public, Standing
<1> QED
  BY <1>3, <1>4

LEMMA StepWhole ==
  ASSUME SeriesInv, [Next]_vars
  PROVE  OpenActionIsWhole' /\ ActionsAreSealed'
<1>1. /\ TypeOK /\ ActionsAreSealed /\ OpenActionIsWhole
      /\ action \in [ActionIds -> ActionRows] /\ clock # 0 /\ clock \in Nat
  BY Parts DEF SeriesInv, InstantsAreOrdered
<1>2. ASSUME NEW a \in ActionIds, action'[a] = action[a]
      PROVE  /\ \/ \A n \in Notes : note'[n].action # a
                \/ /\ {n \in Notes : note'[n].action = a} = action'[a].members
                   /\ \A n \in action'[a].members :
                        /\ Public(n)'
                        /\ note'[n].series = action'[a].series
                        /\ KeyOf(n) >= action'[a].boundary
                        /\ note'[n].deleted = action'[a].trashed
             /\ action'[a].series = 0 => action'[a].members = {}
             /\ action'[a].series # 0 => action'[a].trashed # 0
  BY <1>1, <1>2, OldActionIsWhole DEF ActionsAreSealed
<1>3. CASE action' = action
  BY <1>2, <1>3 DEF OpenActionIsWhole, ActionsAreSealed
<1>4. ASSUME NEW s \in SeriesIds, NEW k \in Keys, TrashPortion(s, k)
      PROVE  OpenActionIsWhole' /\ ActionsAreSealed'
  <2>1. PICK a \in ActionIds :
          /\ Fresh(a)
          /\ action' = [action EXCEPT ![a] = [series |-> s, boundary |-> k, trashed |-> clock,
                                              members |-> Trashed(s, k)]]
          /\ note' = [n \in Notes |->
                        IF n \notin Trashed(s, k) THEN note[n]
                        ELSE Reconciled([note[n] EXCEPT !.deleted = clock, !.action = a])]
    BY <1>4 DEF TrashPortion
  <2>2. /\ \A b \in ActionIds \ {a} : action'[b] = action[b]
        /\ action'[a].series = s /\ action'[a].boundary = k /\ action'[a].trashed = clock
        /\ action'[a].members = Trashed(s, k)
    BY <1>1, <2>1
  <2>3. a # 0 /\ a \in 0 .. MaxActions /\ s # 0
    BY SeriesAssumption DEF ActionIds, SeriesIds
  <2>4. \A n \in Notes : note[n].action # a
    <3>1. SUFFICES ASSUME NEW n \in Notes, note[n].action = a PROVE FALSE
      OBVIOUS
    <3>2. action[a].series = 0
      BY <2>1, Zenon DEF Fresh
    <3>3. n \in action[a].members
      BY <2>3, <3>1, MemberIsTrashed
    <3> QED
      BY <1>1, <3>2, <3>3 DEF ActionsAreSealed
  <2>5. ASSUME NEW n \in Trashed(s, k)
        PROVE  /\ n \in Notes /\ note'[n].action = a /\ Public(n)' /\ note'[n].series = s
               /\ KeyOf(n) >= k /\ note'[n].deleted = clock
    <3> DEFINE r == [note[n] EXCEPT !.deleted = clock, !.action = a]
    <3>1. n \in Notes /\ Visible(n) /\ note[n].series = s /\ KeyOf(n) >= k
      BY DEF Trashed, Portion, NotesOf
    <3>2. note[n] \in NoteRows /\ clock \in Times
      BY <1>1, <3>1, Parts, RowParts
    <3>3. r \in NoteRows
      BY <2>3, <3>2 DEF NoteRows
    <3>4. /\ r.series = s /\ r.deleted = clock /\ r.action = a
          /\ r.superseded = note[n].superseded /\ r.purged = note[n].purged
      BY <3>1, <3>2 DEF NoteRows
    <3>5. note'[n] = Reconciled(r)
      BY <2>1, <3>1
    <3> HIDE DEF r
    <3> QED
      BY <2>3, <3>1, <3>2, <3>3, <3>4, <3>5, ReconciledRow DEF Visible, Public, Standing
  <2>6. \A n \in Notes \ Trashed(s, k) : note'[n] = note[n]
    BY <2>1
  <2>7. {n \in Notes : note'[n].action = a} = Trashed(s, k)
    BY <2>4, <2>5, <2>6
  <2>8. /\ {n \in Notes : note'[n].action = a} = action'[a].members
        /\ \A n \in action'[a].members :
             /\ Public(n)'
             /\ note'[n].series = action'[a].series
             /\ KeyOf(n) >= action'[a].boundary
             /\ note'[n].deleted = action'[a].trashed
        /\ action'[a].series = 0 => action'[a].members = {}
        /\ action'[a].series # 0 => action'[a].trashed # 0
    BY <1>1, <2>2, <2>3, <2>5, <2>7
  <2> QED
    BY <1>2, <2>2, <2>8 DEF OpenActionIsWhole, ActionsAreSealed
<1> QED
  BY <1>3, <1>4, StepActions

(* What was trashed after the cleanup read the clock is not due for it.      *)
LEMMA StepBatch ==
  ASSUME SeriesInv, [Next]_vars
  PROVE  BatchIsWhole'
<1>1. /\ TypeOK /\ OpenActionIsWhole /\ BatchIsWhole /\ InstantsAreOrdered
      /\ clock \in Nat /\ Retention \in Nat /\ Retention > 0 /\ cleanup.at \in Nat
      /\ cleanup.at <= clock
  BY Parts DEF SeriesInv, InstantsAreOrdered
<1>2. CASE cleanup' = cleanup
  <2>1. SUFFICES ASSUME NEW n \in Notes, NEW m \in Notes, n \in cleanup'.notes, Due(n)',
                        note'[n].action # 0, note'[m].action = note'[n].action
                 PROVE  m \in cleanup'.notes
    BY DEF BatchIsWhole
  <2>2. note'[n].deleted + Retention <= cleanup.at
    BY <1>2, <2>1 DEF Due
  <2>3. ~Thrown(n)
    BY <1>1, <2>2 DEF Thrown
  <2>4. Still(n)
    BY <2>1, <2>3, NewHolder
  <2>5. note[n].action \in ActionIds /\ note[n].action # 0 /\ Due(n)
    BY <1>1, <1>2, <2>1, <2>4, RowParts DEF Still, Due
  <2>6. ~Thrown(m)
    <3>1. action[note[n].action].series # 0
      <4>1. n \in action[note[n].action].members
        BY <2>5, MemberIsTrashed
      <4> QED
        BY <2>5, <4>1 DEF SeriesInv, ActionsAreSealed
    <3> QED
      BY <2>1, <2>4, <3>1 DEF Thrown, Still
  <2>7. Still(m)
    BY <2>1, <2>6, NewHolder
  <2> QED
    BY <1>1, <1>2, <2>1, <2>4, <2>5, <2>7 DEF BatchIsWhole, Still
<1>3. CASE StartCleanup \/ CleanupCrash \/ PurgeBatch
  <2>1. cleanup'.notes = {}
    BY <1>3 DEF StartCleanup, CleanupCrash, PurgeBatch, NoCleanup
  <2> QED
    BY <2>1 DEF BatchIsWhole
<1>4. CASE Choose
  <2>1. PICK chosen \in SUBSET {n \in Notes : Due(n)} :
          cleanup' = [cleanup EXCEPT !.chosen = TRUE, !.notes = WithActions(chosen),
                                     !.series = {note[n].series : n \in WithActions(chosen)}]
    BY <1>4 DEF Choose
  <2>2. cleanup'.notes = WithActions(chosen) /\ note' = note
    BY <1>1, <1>4, <2>1 DEF Choose, TypeOK, Cleanups
  <2>3. SUFFICES ASSUME NEW n \in Notes, NEW m \in Notes, n \in WithActions(chosen),
                        note[n].action # 0, note[m].action = note[n].action
                 PROVE  m \in WithActions(chosen)
    BY <2>2 DEF BatchIsWhole
  <2>4. note[n].action \in {note[c].action : c \in chosen} \ {0}
    BY <2>3 DEF WithActions, Current
  <2>5. m \in Current(note[n].action)
    BY <2>3, MemberIsTrashed DEF Current
  <2> QED
    BY <2>4, <2>5 DEF WithActions
<1> QED
  BY <1>2, <1>3, <1>4, StepCleanup

-----------------------------------------------------------------------------
(* The invariant *)

(* A new database, or one that an older release leaves.                      *)
LEMMA FirstRows ==
  ASSUME Init
  PROVE  /\ note \in [Notes -> NoteRows] /\ series \in [SeriesIds -> SeriesRows]
         /\ mark \in [SeriesIds \X Keys -> Marks]
         /\ \A s \in SeriesIds : ~series[s].there => series[s] = NoSeries
         /\ \A n \in Notes : ~series[n[1]].there => note[n] = NoNote
         /\ \A n \in Notes : note[n].series # 0 => series[note[n].series].there
         /\ \A n \in Notes : /\ note[n].deleted \in {0, 1}
                             /\ note[n].trashed \in {0, note[n].deleted}
                             /\ ~note[n].purged /\ ~note[n].superseded /\ note[n].action = 0
                             /\ note[n].series \in {0, 1} /\ Fits(note[n])
<1>1. /\ clock = 1 /\ clock \in Times /\ 0 \in Times /\ 1 \in Times
      /\ 0 \in 0 .. MaxSeries /\ 1 \in 0 .. MaxSeries
      /\ 0 \in 0 .. MaxActions /\ 1 \in SeriesIds
  BY SeriesAssumption DEF Init, Times, SeriesIds
<1>2. NoNote \in NoteRows /\ NoSeries \in SeriesRows /\ NoMark \in Marks
  BY <1>1 DEF NoNote, NoteRows, NoSeries, SeriesRows, NoMark, Marks
<1>3. /\ NoNote.series = 0 /\ NoNote.deleted = 0 /\ NoNote.trashed = 0 /\ ~NoNote.purged
      /\ ~NoNote.superseded /\ NoNote.action = 0 /\ Fits(NoNote)
  <2>1. /\ NoNote.series = 0 /\ NoNote.deleted = 0 /\ NoNote.trashed = 0 /\ ~NoNote.purged
        /\ ~NoNote.superseded /\ NoNote.action = 0
    BY DEF NoNote
  <2>2. NoNote.armed = FALSE /\ NoNote.starts = 0
    BY DEF NoNote
  <2>3. ~(0 > clock)
    BY <1>1
  <2>4. Fits(NoNote)
    BY <2>2, <2>3 DEF Fits
  <2> QED
    BY <2>1, <2>4
<1>4. CASE Empty
  <2>1. /\ note \in [Notes -> NoteRows] /\ series \in [SeriesIds -> SeriesRows]
        /\ mark \in [SeriesIds \X Keys -> Marks]
    BY <1>2, <1>4 DEF Empty
  <2>2. \A s \in SeriesIds : series[s] = NoSeries
    BY <1>4 DEF Empty
  <2>3. \A n \in Notes : note[n] = NoNote
    BY <1>4 DEF Empty
  <2> QED
    BY <1>3, <2>1, <2>2, <2>3
<1>5. CASE Migrated
  <2> DEFINE Left(generated, k, cancelled) ==
        /\ note = [n \in Notes |-> IF n \in {1} \X generated
                                   THEN Reconciled(OldRow(KeyOf(n), k, cancelled)) ELSE NoNote]
        /\ series = [s \in SeriesIds |-> IF s = 1 THEN [NoSeries EXCEPT !.there = TRUE] ELSE NoSeries]
        /\ mark = [e \in SeriesIds \X Keys |->
                     [cancelled |-> e \in {1} \X cancelled, fields |-> FALSE]]
  <2>1. \E generated \in Schedules : \E k \in generated :
          \E cancelled \in SUBSET {x \in generated : x < k} : Left(generated, k, cancelled)
    BY <1>5 DEF Migrated
  <2>2. PICK generated, k, cancelled : Left(generated, k, cancelled)
    <3> HIDE DEF Left
    <3> QED
      BY <2>1
  <2>3. [NoSeries EXCEPT !.there = TRUE] \in SeriesRows /\ [NoSeries EXCEPT !.there = TRUE].there
    BY <1>1, SeriesAssumption DEF NoSeries, SeriesRows
  <2>4. series \in [SeriesIds -> SeriesRows]
    BY <1>2, <2>2, <2>3
  <2>5. mark \in [SeriesIds \X Keys -> Marks]
    BY <2>2 DEF Marks
  <2>6. /\ series[1].there
        /\ \A s \in SeriesIds : ~series[s].there => series[s] = NoSeries
    BY <1>1, <2>2, <2>3
  <2>7. ASSUME NEW n \in Notes
        PROVE  /\ note[n] \in NoteRows
               /\ ~series[n[1]].there => note[n] = NoNote
               /\ note[n].series # 0 => series[note[n].series].there
               /\ note[n].deleted \in {0, 1}
               /\ note[n].trashed \in {0, note[n].deleted}
               /\ ~note[n].purged /\ ~note[n].superseded /\ note[n].action = 0
               /\ note[n].series \in {0, 1} /\ Fits(note[n])
    <3>1. CASE n \in {1} \X generated
      <4> DEFINE r == OldRow(KeyOf(n), k, cancelled)
      <4>1. KeyOf(n) \in Keys /\ n[1] = 1
        BY <2>7, <3>1 DEF Notes, KeyOf
      <4>2. r \in NoteRows
        BY <1>1, <4>1 DEF OldRow, NoNote, NoteRows
      <4>3. /\ r.series = 1 /\ r.deleted \in {0, 1} /\ r.trashed \in {0, r.deleted}
            /\ ~r.purged /\ ~r.superseded /\ r.action = 0
        BY DEF OldRow, NoNote
      <4>4. note[n] = Reconciled(r)
        BY <2>2, <3>1
      <4> HIDE DEF r
      <4>5. note[n].series = 1 /\ note[n] \in NoteRows
        BY <1>1, <4>2, <4>3, <4>4, ReconciledRow
      <4>6. Fits(note[n])
        BY <1>1, <4>2, <4>4, ReconciledRow
      <4>7. /\ note[n].deleted \in {0, 1} /\ note[n].trashed \in {0, note[n].deleted}
            /\ ~note[n].purged /\ ~note[n].superseded /\ note[n].action = 0
        BY <1>1, <4>2, <4>3, <4>4, ReconciledRow
      <4> QED
        BY <2>6, <4>1, <4>5, <4>6, <4>7
    <3>2. CASE n \notin {1} \X generated
      <4>1. note[n] = NoNote
        BY <2>2, <3>2
      <4> QED
        BY <1>2, <1>3, <4>1
    <3> QED
      BY <3>1, <3>2
  <2>8. note \in [Notes -> NoteRows]
    BY <2>2, <2>7
  <2> QED
    BY <2>4, <2>5, <2>6, <2>7, <2>8
<1> QED
  BY <1>4, <1>5 DEF Init

LEMMA InitInv == Init => SeriesInv
<1> SUFFICES ASSUME Init PROVE SeriesInv
  OBVIOUS
<1>1. clock = 1 /\ clock \in Times /\ 0 \in Times /\ 0 \in 0 .. MaxSeries
  BY SeriesAssumption DEF Init, Times
<1>2. /\ action \in [ActionIds -> ActionRows]
      /\ \A a \in ActionIds : action[a].series = 0 /\ action[a].members = {}
  BY <1>1 DEF Init, NoAction, ActionRows
<1>3. cleanup \in Cleanups /\ cleanup.at = 0 /\ cleanup.notes = {} /\ cleanup.series = {}
  BY <1>1 DEF Init, NoCleanup, Cleanups
<1>4. TypeOK
  BY <1>1, <1>2, <1>3, FirstRows DEF TypeOK
<1>5. NothingBeforeCreation
  BY <1>3, FirstRows DEF NothingBeforeCreation
<1>6. InstantsAreOrdered
  BY <1>1, <1>3, FirstRows DEF InstantsAreOrdered
<1>7. ActionsAreSealed
  BY <1>2 DEF ActionsAreSealed
<1>8. OpenActionIsWhole
  BY FirstRows, SeriesAssumption DEF OpenActionIsWhole, ActionIds
<1>9. BatchIsWhole
  BY <1>3 DEF BatchIsWhole
<1> QED
  BY <1>4, <1>5, <1>6, <1>7, <1>8, <1>9 DEF SeriesInv

LEMMA StepInv == SeriesInv /\ [Next]_vars => SeriesInv'
  BY StepType, StepNothingBefore, StepInstants, StepWhole, StepBatch DEF SeriesInv

(* The invariant holds in every state of a lineage.                          *)
THEOREM Invariant == Spec => []SeriesInv
  BY InitInv, StepInv, PTL DEF Spec

-----------------------------------------------------------------------------
(* What it gives *)

(* The rows, the actions, the markers and the run of the cleanup have their  *)
(* types.                                                                    *)
THEOREM TypeCorrect == Spec => []TypeOK
<1>1. SeriesInv => TypeOK
  BY DEF SeriesInv
<1> QED
  BY <1>1, Invariant, PTL

(* No handler and no batch of the cleanup leaves a part of a trash action:   *)
(* its members are all in the trash under it, or none is.                    *)
THEOREM ActionsStayWhole == Spec => []OpenActionIsWhole
<1>1. SeriesInv => OpenActionIsWhole
  BY DEF SeriesInv
<1> QED
  BY <1>1, Invariant, PTL

LEMMA StepFinal ==
  ASSUME SeriesInv, [Next]_vars
  PROVE  /\ \A n \in Notes : note[n].purged => note'[n] = note[n]
         /\ \A s \in SeriesIds : series[s].purged => series'[s] = series[s]
<1>1. ASSUME NEW n \in Notes, note[n].purged
      PROVE  note'[n] = note[n]
  <2>1. RowStep(n)
    BY StepRows
  <2>2. ~Born(n)
    BY <1>1 DEF Born, NoNote
  <2>3. ~Public(n) /\ ~Visible(n) /\ ~Due(n)
    BY <1>1 DEF Public, Visible, Due
  <2> QED
    BY <2>1, <2>2, <2>3 DEF RowStep, Still, Edited, Thrown, Revived, Unmarked, Taken, Replaced, Erased
<1> QED
  BY <1>1, StepThere

(* No handler touches a note or a series that the cleanup has purged, so the *)
(* triggers that guard tombstones never refuse one.                          *)
THEOREM PurgesAreFinal == Spec => PurgeIsFinal
<1>1. SeriesInv /\ [Next]_vars =>
        [/\ \A n \in Notes : note[n].purged => note'[n] = note[n]
         /\ \A s \in SeriesIds : series[s].purged => series'[s] = series[s]]_vars
  BY StepFinal
<1> QED
  BY <1>1, Invariant, PTL DEF Spec, PurgeIsFinal

LEMMA StepRetention ==
  ASSUME SeriesInv, [Next]_vars, NEW n \in Notes, note'[n].purged, ~note[n].purged
  PROVE  note[n].deleted # 0 /\ Expired(note[n].deleted)
<1>1. TypeOK /\ InstantsAreOrdered
  BY DEF SeriesInv
<1>2. /\ note[n] \in NoteRows /\ note[n].deleted \in Nat
      /\ clock \in Nat /\ Retention \in Nat /\ cleanup.at \in Nat /\ cleanup.at <= clock
  BY <1>1, Parts, RowParts DEF InstantsAreOrdered
<1>3. ~Unmarked(n)
  BY <1>2 DEF Unmarked, NoteRows
<1>4. Due(n)
  BY <1>3, StepRows DEF RowStep, Still, Born, Edited, Thrown, SameButStart, Revived, Taken,
                        Replaced, Erased
<1> QED
  BY <1>2, <1>4 DEF Due, Expired

(* A note is purged only once it has been in the trash for the whole         *)
(* retention, however long ago the cleanup chose it and whatever was         *)
(* restored in between.                                                      *)
THEOREM RetentionIsKept == Spec => RetentionHolds
<1>1. SeriesInv /\ [Next]_vars =>
        [\A n \in Notes : note'[n].purged /\ ~note[n].purged =>
                            note[n].deleted # 0 /\ Expired(note[n].deleted)]_vars
  BY StepRetention
<1> QED
  BY <1>1, Invariant, PTL DEF Spec, RetentionHolds

LEMMA InitReminder == Init => ReminderFollowsNote
<1> SUFFICES ASSUME Init PROVE ReminderFollowsNote
  OBVIOUS
<1> SUFFICES ASSUME NEW n \in Notes
             PROVE  /\ note[n].armed => Visible(n)
                    /\ Visible(n) /\ note[n].starts > clock => note[n].armed
  BY DEF ReminderFollowsNote
<1>1. Fits(note[n]) /\ note[n] \in NoteRows
  BY FirstRows
<1>2. note[n].starts > clock => note[n].series # 0
  <2>1. CASE Empty
    <3>1. note[n].starts = 0 /\ ~(0 > clock)
      BY <2>1 DEF Empty, NoNote, Init
    <3> QED
      BY <3>1
  <2>2. CASE Migrated
    <3>1. note[n] = NoNote \/ note[n].series = 1
      <4> DEFINE Row(x, k, cancelled) == Reconciled(OldRow(x, k, cancelled))
      <4>1. \A x \in Keys, k \in Keys, cancelled \in SUBSET Keys : Row(x, k, cancelled).series = 1
        BY DEF Reconciled, OldRow, NoNote
      <4>2. note[n] = NoNote \/ \E k \in Keys : \E cancelled \in SUBSET Keys :
                                  note[n] = Row(KeyOf(n), k, cancelled)
        BY <2>2, SeriesAssumption DEF Migrated
      <4>3. KeyOf(n) \in Keys
        BY DEF Notes, KeyOf
      <4> QED
        <5> HIDE DEF Row
        <5> QED
          BY <4>1, <4>2, <4>3
    <3>2. NoNote.starts = 0 /\ ~(0 > clock)
      BY DEF NoNote, Init
    <3> QED
      BY <3>1, <3>2
  <2> QED
    BY <2>1, <2>2 DEF Init
<1> QED
  BY <1>1, <1>2 DEF Fits, Visible, Public, Standing

LEMMA StepReminder ==
  ASSUME SeriesInv, ReminderFollowsNote, [Next]_vars
  PROVE  ReminderFollowsNote'
<1> SUFFICES ASSUME NEW n \in Notes
             PROVE  /\ note'[n].armed => Visible(n)'
                    /\ Visible(n)' /\ note'[n].starts > clock' => note'[n].armed
  BY DEF ReminderFollowsNote
<1>1. TypeOK /\ note[n] \in NoteRows /\ n[1] \in SeriesIds /\ note'[n] \in NoteRows
      /\ clock \in Nat /\ note[n].starts \in Nat
  <2>1. TypeOK /\ note[n] \in NoteRows /\ n[1] \in SeriesIds /\ note'[n] \in NoteRows
        /\ clock \in Nat
    BY Parts, RowParts, StepRows DEF SeriesInv
  <2>2. note[n].starts \in Keys \cup {0}
    BY <2>1 DEF NoteRows
  <2>3. Keys \subseteq Nat
    BY SeriesAssumption, Zenon
  <2>4. CASE note[n].starts \in Keys
    BY <2>1, <2>3, <2>4, Zenon
  <2>5. CASE note[n].starts = 0
    BY <2>1, <2>5
  <2> QED
    BY <2>1, <2>2, <2>4, <2>5
<1>2. /\ note[n].armed => Visible(n)
      /\ Visible(n) /\ note[n].starts > clock => note[n].armed
  BY DEF ReminderFollowsNote
<1>3. CASE Still(n)
  <2>1. note'[n].starts > clock' => note[n].starts > clock
    BY <1>1, <1>3, StepClock DEF Still
  <2> QED
    BY <1>2, <1>3, <2>1 DEF Still, Visible, Public, Standing
<1>4. CASE ~Still(n)
  <2>1. clock' = clock
    BY <1>4, StepClock DEF Still
  <2>2. (Fits(note'[n]) /\ note'[n].series # 0) \/ Unmarked(n) \/ Erased(n)
    <3>1. Born(n) => note'[n].series # 0
      BY <1>1 DEF Born, SeriesIds
    <3>2. Taken(n) => note'[n].series # 0
      BY DEF Taken, SeriesIds
    <3> QED
      BY <1>4, <3>1, <3>2, StepRows DEF RowStep, Born, Edited, Thrown, Revived, Taken, Replaced,
                                        SameButStart, Visible, Public, Standing
  <2>3. CASE Fits(note'[n]) /\ note'[n].series # 0
    BY <1>1, <2>1, <2>3 DEF Fits, Visible, Public, Standing
  <2>4. CASE Unmarked(n)
    <3>1. /\ note'[n].armed = note[n].armed /\ note'[n].series = note[n].series
          /\ note'[n].starts = note[n].starts /\ note'[n].deleted = note[n].deleted
          /\ note'[n].superseded = note[n].superseded /\ note'[n].purged = note[n].purged
      BY <1>1, <2>4 DEF Unmarked, NoteRows
    <3> QED
      BY <1>2, <2>1, <3>1 DEF Visible, Public, Standing
  <2>5. CASE Erased(n)
    <3>1. note'[n].purged /\ note'[n].armed = note[n].armed
      BY <1>1, <2>5 DEF Erased, Purge, NoteRows
    <3>2. note[n].deleted # 0
      BY <2>5 DEF Erased, Due
    <3> QED
      BY <1>2, <3>1, <3>2 DEF Visible, Public
  <2> QED
    BY <2>2, <2>3, <2>4, <2>5
<1> QED
  BY <1>3, <1>4

(* A reminder is pending for the notes that are to come and for no other:    *)
(* every handler that moves a note into the trash, out of it or to another   *)
(* series reconciles it.                                                     *)
THEOREM RemindersFollow == Spec => []ReminderFollowsNote
<1>1. SeriesInv /\ ReminderFollowsNote /\ [Next]_vars => ReminderFollowsNote'
  BY StepReminder
<1> QED
  BY <1>1, InitReminder, Invariant, PTL DEF Spec

-----------------------------------------------------------------------------
(* Purged series *)

(* Only a batch of the cleanup seals a series.                               *)
LEMMA OnlySealing ==
  ASSUME SeriesInv, [Next]_vars, NEW s \in SeriesIds, series'[s].purged, ~series[s].purged
  PROVE  PurgeBatch /\ s \in Sealed
<1>1. series \in [SeriesIds -> SeriesRows]
  BY Parts DEF SeriesInv
<1>2. ASSUME NEW generated \in Schedules, CreateSeries(generated)
      PROVE  FALSE
  <2>1. series' = [series EXCEPT ![1].there = TRUE]
    BY <1>2 DEF CreateSeries
  <2> QED
    BY <1>1, <2>1 DEF SeriesRows
<1>3. ASSUME NEW u \in SeriesIds, NEW k \in Keys, NEW generated \in Schedules,
             Split(u, k, generated)
      PROVE  FALSE
  <2>1. PICK t \in SeriesIds :
          series' = [series EXCEPT ![u].boundary = k,
                                   ![t] = [NoSeries EXCEPT !.there = TRUE, !.predecessor = u]]
    BY <1>3 DEF Split
  <2>2. ~[NoSeries EXCEPT !.there = TRUE, !.predecessor = u].purged
    BY DEF NoSeries
  <2> QED
    BY <1>1, <2>1, <2>2 DEF SeriesRows
<1>4. PurgeBatch
  BY <1>2, <1>3, StepSeries
<1> QED
  BY <1>4 DEF PurgeBatch

LEMMA StepSealed ==
  ASSUME SeriesInv, SealedSeriesIsEmpty, [Next]_vars
  PROVE  SealedSeriesIsEmpty'
<1> SUFFICES ASSUME NEW s \in SeriesIds, series'[s].purged
             PROVE  /\ \A n \in Notes : note'[n].series = s => note'[n].purged
                    /\ \A k \in Keys : ~mark'[<<s, k>>].fields
  BY DEF SealedSeriesIsEmpty, NotesOf
<1>1. /\ TypeOK /\ NothingBeforeCreation
      /\ mark \in [SeriesIds \X Keys -> Marks] /\ note \in [Notes -> NoteRows]
  BY Parts DEF SeriesInv
<1>2. CASE series[s].purged
  <2>1. series[s].there
    BY <1>1, <1>2 DEF NothingBeforeCreation, NoSeries
  <2>2. /\ \A n \in Notes : note[n].series = s => note[n].purged
        /\ \A k \in Keys : ~mark[<<s, k>>].fields
    BY <1>2 DEF SealedSeriesIsEmpty, NotesOf
  <2>3. ASSUME NEW n \in Notes, note'[n].series = s
        PROVE  note'[n].purged
    <3>1. ~Born(n) /\ ~Taken(n)
      BY <2>1, <2>3 DEF Born, Taken
    <3>2. ASSUME ~Still(n)
          PROVE  note'[n].series = note[n].series /\ ~note[n].purged
      <4>1. note[n] \in NoteRows
        BY <1>1
      <4>2. Unmarked(n) \/ Erased(n) => note'[n].series = note[n].series
        BY <4>1 DEF Unmarked, Erased, Purge, NoteRows
      <4>3. Unmarked(n) \/ Erased(n) => ~note[n].purged
        BY DEF Unmarked, Erased, Due, Public
      <4>4. Edited(n) \/ Thrown(n) \/ Revived(n) \/ Replaced(n) =>
              note'[n].series = note[n].series /\ ~note[n].purged
        BY DEF Edited, Thrown, SameButStart, Revived, Replaced, Visible, Public
      <4> QED
        BY <3>1, <3>2, <4>2, <4>3, <4>4, StepRows DEF RowStep
    <3> QED
      BY <2>2, <2>3, <3>2 DEF Still
  <2>4. ASSUME NEW k \in Keys
        PROVE  ~mark'[<<s, k>>].fields
    <3>1. ASSUME NEW n \in Notes, NEW r, NEW c, mark' = Marked(n, r, c),
                 r.series = note[n].series, Public(n)
          PROVE  mark'[<<s, k>>] = mark[<<s, k>>]
      <4>1. r.series # s
        BY <2>2, <3>1 DEF Public
      <4> QED
        BY <1>1, <3>1, <4>1 DEF Marked
    <3>2. CASE \E n \in Notes : DeleteNote(n) \/ RestoreNote(n)
                                \/ \E starts \in Keys : UpdateNote(n, starts)
      <4>1. PICK n \in Notes : DeleteNote(n) \/ RestoreNote(n)
                               \/ \E starts \in Keys : UpdateNote(n, starts)
        BY <3>2
      <4>2. note[n] \in NoteRows
        BY <1>1
      <4>3. Reconciled([note[n] EXCEPT !.deleted = clock]).series = note[n].series
        BY <4>2 DEF Reconciled, NoteRows
      <4>4. \A starts : Reconciled([note[n] EXCEPT !.starts = starts]).series = note[n].series
        BY <4>2 DEF Reconciled, NoteRows
      <4>5. Public(n) /\ \E r, c : mark' = Marked(n, r, c) /\ r.series = note[n].series
        <5>1. CASE DeleteNote(n)
          BY <4>3, <5>1 DEF DeleteNote, Visible
        <5>2. CASE RestoreNote(n)
          BY <5>2 DEF RestoreNote
        <5>3. CASE \E starts \in Keys : UpdateNote(n, starts)
          BY <4>4, <5>3 DEF UpdateNote, Visible
        <5> QED
          BY <4>1, <5>1, <5>2, <5>3
      <4>6. mark'[<<s, k>>] = mark[<<s, k>>]
        BY <3>1, <4>5
      <4> QED
        BY <2>2, <4>6
    <3>3. CASE \E u \in SeriesIds, l \in Keys, generated \in Schedules : Split(u, l, generated)
      <4>1. mark'[<<s, k>>] \in {NoMark, mark[<<s, k>>]}
        BY <3>3 DEF Split, SplitMarks
      <4> QED
        BY <2>2, <4>1 DEF NoMark
    <3>4. CASE PurgeBatch
      <4>1. mark[<<s, k>>] \in Marks
        BY <1>1
      <4>2. \/ mark'[<<s, k>>] = [cancelled |-> TRUE, fields |-> FALSE]
            \/ mark'[<<s, k>>] = [mark[<<s, k>>] EXCEPT !.fields = FALSE]
            \/ mark'[<<s, k>>] = mark[<<s, k>>]
        BY <3>4 DEF PurgeBatch, PurgeMarks
      <4> QED
        BY <2>2, <4>1, <4>2 DEF Marks
    <3> QED
      BY <2>2, <3>2, <3>3, <3>4, StepMarks
  <2> QED
    BY <2>3, <2>4
<1>3. CASE ~series[s].purged
  <2>1. PurgeBatch /\ s \in Sealed
    BY <1>3, OnlySealing
  <2>2. ASSUME NEW n \in Notes, note'[n].series = s
        PROVE  note'[n].purged
    <3>1. note'[n] = IF n \in Purged THEN Purge(n) ELSE note[n]
      BY <2>1 DEF PurgeBatch
    <3>2. Purge(n).series = note[n].series /\ Purge(n).purged
      BY <1>1 DEF Purge, NoteRows
    <3> QED
      BY <2>1, <2>2, <3>1, <3>2 DEF Sealed, NotesOf
  <2>3. ASSUME NEW k \in Keys
        PROVE  ~mark'[<<s, k>>].fields
    BY <2>1 DEF PurgeBatch, PurgeMarks
  <2> QED
    BY <2>2, <2>3
<1> QED
  BY <1>2, <1>3

(* A purged series keeps no content: what the cleanup seals stays empty,     *)
(* whatever runs afterwards.                                                 *)
THEOREM SealedStayEmpty == Spec => []SealedSeriesIsEmpty
<1>1. Init => SealedSeriesIsEmpty
  <2> SUFFICES ASSUME Init, NEW s \in SeriesIds PROVE ~series[s].purged
    BY DEF SealedSeriesIsEmpty
  <2>1. ~NoSeries.purged /\ ~[NoSeries EXCEPT !.there = TRUE].purged
    BY DEF NoSeries
  <2> QED
    BY <2>1 DEF Init, Empty, Migrated
<1>2. SeriesInv /\ SealedSeriesIsEmpty /\ [Next]_vars => SealedSeriesIsEmpty'
  BY StepSealed
<1> QED
  BY <1>1, <1>2, Invariant, PTL DEF Spec

-----------------------------------------------------------------------------
(* The lineage *)

(* Series are made in the order of their numbers.                            *)
Gapless == \A s, t \in SeriesIds : s < t /\ series[t].there => series[s].there

ChainInv == Gapless /\ ChainIsLinear

(* What a split writes.                                                      *)
SplitTo(s, k, t) ==
  /\ s # t /\ series[s].there /\ Leaf(s)
  /\ ~series[t].there /\ \A u \in 1 .. t - 1 : series[u].there
  /\ series'[t].there /\ series'[t].predecessor = s /\ series'[t].boundary = 0
  /\ series'[s].there /\ series'[s].predecessor = series[s].predecessor
  /\ series'[s].boundary = k
  /\ \A u \in SeriesIds \ {s, t} : series'[u] = series[u]
  /\ \A n \in Portion(s, k)' : ~Public(n)'

LEMMA SplitWrites ==
  ASSUME SeriesInv, NEW s \in SeriesIds, NEW k \in Keys, NEW generated \in Schedules,
         Split(s, k, generated)
  PROVE  \E t \in SeriesIds : SplitTo(s, k, t)
<1>1. /\ TypeOK /\ series \in [SeriesIds -> SeriesRows] /\ note \in [Notes -> NoteRows]
      /\ clock \in Times
  BY Parts DEF SeriesInv
<1>2. PICK t \in SeriesIds :
        /\ ~series[t].there /\ \A u \in 1 .. t - 1 : series[u].there
        /\ series' = [series EXCEPT ![s].boundary = k,
                                    ![t] = [NoSeries EXCEPT !.there = TRUE, !.predecessor = s]]
        /\ note' = SplitNotes(s, k, generated, t)
  BY DEF Split
<1>3. series[s].there /\ Leaf(s) /\ s # t
  BY <1>2 DEF Split, Open
<1>4. series'[t] = [NoSeries EXCEPT !.there = TRUE, !.predecessor = s]
  BY <1>1, <1>2, <1>3
<1>5. series'[t].there /\ series'[t].predecessor = s /\ series'[t].boundary = 0
  BY <1>4 DEF NoSeries
<1>6. series'[s] = [series[s] EXCEPT !.boundary = k]
  BY <1>1, <1>2, <1>3
<1>7. /\ series'[s].there /\ series'[s].predecessor = series[s].predecessor
      /\ series'[s].boundary = k
  BY <1>1, <1>3, <1>6 DEF SeriesRows
<1>8. \A u \in SeriesIds \ {s, t} : series'[u] = series[u]
  BY <1>1, <1>2
<1>9. ASSUME NEW n \in Notes, note'[n].series = s, KeyOf(n) >= k
      PROVE  ~Public(n)'
  <2>1. note[n] \in NoteRows /\ KeyOf(n) \in Keys
    BY <1>1, RowParts
  <2>2. note'[n] # Moved(n, t)
    <3> DEFINE r == [note[n] EXCEPT !.series = t, !.starts = KeyOf(n), !.deleted = 0,
                                    !.trashed = 0, !.superseded = FALSE]
    <3>1. 0 \in Times /\ t \in 0 .. MaxSeries
      BY SeriesAssumption DEF Times, SeriesIds
    <3>2. r \in NoteRows
      BY <2>1, <3>1 DEF NoteRows
    <3>3. r.series = t
      BY <2>1 DEF NoteRows
    <3>4. Moved(n, t) = Reconciled(r)
      BY DEF Moved
    <3> HIDE DEF r
    <3>5. Moved(n, t).series = t
      BY <1>1, <3>2, <3>3, <3>4, ReconciledRow
    <3> QED
      BY <1>3, <1>9, <3>5
  <2>3. note'[n] # NewNote(t, KeyOf(n))
    <3>1. NewNote(t, KeyOf(n)).series = t
      BY <1>1, <2>1, NewRow
    <3> QED
      BY <1>3, <1>9, <3>1
  <2>4. CASE note'[n] = Superseded(n)
    <3> DEFINE r == [note[n] EXCEPT !.deleted = clock, !.superseded = TRUE]
    <3>1. r \in NoteRows
      BY <1>1, <2>1 DEF NoteRows
    <3>2. r.superseded
      BY <2>1 DEF NoteRows
    <3>3. note'[n] = Reconciled(r)
      BY <2>4 DEF Superseded
    <3> HIDE DEF r
    <3>4. note'[n].superseded
      BY <1>1, <3>1, <3>2, <3>3, ReconciledRow
    <3> QED
      BY <3>4 DEF Public, Standing
  <2>5. CASE n \notin Affected(s, k) /\ note'[n] = note[n]
    BY <1>9, <2>5 DEF Affected, Portion, NotesOf, Public, Standing
  <2>6. CASE note[n].purged /\ note'[n] = note[n]
    BY <2>6 DEF Public
  <2> QED
    BY <1>2, <2>2, <2>3, <2>4, <2>5, <2>6, SplitCases
<1>10. \A n \in Portion(s, k)' : ~Public(n)'
  BY <1>9 DEF Portion, NotesOf
<1> QED
  BY <1>2, <1>3, <1>5, <1>7, <1>8, <1>10 DEF SplitTo

(* Steps other than splits and creations leave the lineage as it is.         *)
LEMMA SameChain ==
  ASSUME SeriesInv, [Next]_vars,
         ~\E s \in SeriesIds, k \in Keys, generated \in Schedules : Split(s, k, generated)
  PROVE  \A s \in SeriesIds :
           /\ series'[s].predecessor = series[s].predecessor
           /\ series'[s].boundary = series[s].boundary
           /\ s # 1 => series'[s].there = series[s].there
<1>1. series \in [SeriesIds -> SeriesRows]
  BY Parts DEF SeriesInv
<1>2. CASE \E generated \in Schedules : CreateSeries(generated)
  <2>1. series' = [series EXCEPT ![1].there = TRUE]
    BY <1>2 DEF CreateSeries
  <2> QED
    BY <1>1, <2>1 DEF SeriesRows
<1>3. CASE PurgeBatch
  <2>1. \A s \in SeriesIds : \/ series'[s] = series[s]
                             \/ series'[s] = [series[s] EXCEPT !.purged = TRUE]
    BY <1>3 DEF PurgeBatch
  <2> QED
    BY <1>1, <2>1 DEF SeriesRows
<1> QED
  BY <1>2, <1>3, StepSeries

(* A closed series keeps its end: no step brings a note back there.          *)
LEMMA ClosedEnd ==
  ASSUME SeriesInv, ChainIsLinear, [Next]_vars, NEW s \in SeriesIds, series[s].boundary # 0,
         NEW n \in Notes, note'[n].series = s, KeyOf(n) >= series[s].boundary
  PROVE  ~Public(n)'
<1>1. series[s].there
  BY DEF SeriesInv, NothingBeforeCreation, NoSeries
<1>2. note[n] \in NoteRows
  BY Parts DEF SeriesInv
<1>3. note[n].series = s => ~Public(n)
  BY DEF ChainIsLinear, Portion, NotesOf
<1>4. ~Born(n) /\ ~Taken(n)
  BY <1>1 DEF Born, Taken
<1>5. Unmarked(n) \/ Erased(n) => note'[n].series = note[n].series
  BY <1>2 DEF Unmarked, Erased, Purge, NoteRows
<1>6. Erased(n) => ~Public(n)'
  BY <1>2 DEF Erased, Purge, NoteRows, Public
<1> QED
  BY <1>3, <1>4, <1>5, <1>6, StepRows
     DEF RowStep, Still, Edited, Thrown, SameButStart, Revived, Unmarked, Replaced, Visible,
         Public, Standing

LEMMA StepChain ==
  ASSUME SeriesInv, ChainInv, [Next]_vars
  PROVE  ChainInv'
<1>1. Gapless /\ ChainIsLinear /\ NothingBeforeCreation
  BY DEF ChainInv, SeriesInv
<1>2. CASE ~\E s \in SeriesIds, k \in Keys, generated \in Schedules : Split(s, k, generated)
  <2>1. \A s \in SeriesIds :
          /\ series'[s].predecessor = series[s].predecessor
          /\ series'[s].boundary = series[s].boundary
          /\ s # 1 => series'[s].there = series[s].there
    BY <1>2, SameChain
  <2>2. Gapless'
    <3>1. SUFFICES ASSUME NEW s \in SeriesIds, NEW t \in SeriesIds, s < t, series'[t].there
                   PROVE  series'[s].there
      BY DEF Gapless
    <3>2. t # 1
      BY <3>1 DEF SeriesIds
    <3>3. series[s].there
      BY <1>1, <2>1, <3>1, <3>2 DEF Gapless
    <3> QED
      BY <3>3, StepThere
  <2>3. ASSUME NEW s \in SeriesIds
        PROVE  /\ series'[s].there => (series'[s].predecessor = s - 1)
               /\ series'[s].boundary # 0 <=> \E t \in SeriesIds : series'[t].predecessor = s
    <3>1. series[s].boundary # 0 <=> \E t \in SeriesIds : series[t].predecessor = s
      BY <1>1 DEF ChainIsLinear
    <3>2. CASE series[s].there
      BY <1>1, <2>1, <3>1, <3>2 DEF ChainIsLinear
    <3>3. CASE ~series[s].there
      <4>1. series[s].predecessor = 0
        BY <1>1, <3>3 DEF NothingBeforeCreation, NoSeries
      <4>2. series'[s].there => s = 1
        BY <2>1, <3>3
      <4> QED
        BY <2>1, <3>1, <4>1, <4>2
    <3> QED
      BY <3>2, <3>3
  <2>4. ASSUME NEW s \in SeriesIds, series'[s].boundary # 0, NEW n \in Notes,
               note'[n].series = s, KeyOf(n) >= series'[s].boundary
        PROVE  ~Public(n)'
    BY <1>1, <2>1, <2>4, ClosedEnd
  <2> QED
    BY <2>2, <2>3, <2>4 DEF ChainInv, ChainIsLinear, Portion, NotesOf
<1>3. ASSUME NEW s \in SeriesIds, NEW k \in Keys, NEW t \in SeriesIds, SplitTo(s, k, t)
      PROVE  ChainInv'
  <2>1. s \in Nat /\ t \in Nat /\ s >= 1 /\ t >= 1 /\ k # 0
    BY SeriesAssumption DEF SeriesIds
  <2>2. t = s + 1
    <3>1. s < t
      <4>1. ~(t < s)
        BY <1>1, <1>3 DEF Gapless, SplitTo
      <4> QED
        BY <1>3, <2>1, <4>1 DEF SplitTo
    <3>2. CASE s + 1 < t
      <4>1. s + 1 \in 1 .. t - 1 /\ s + 1 \in SeriesIds
        BY <2>1, <3>2, SeriesAssumption DEF SeriesIds
      <4>2. series[s + 1].there
        BY <1>3, <4>1 DEF SplitTo
      <4>3. \A u \in SeriesIds : series[u].there => (series[u].predecessor = u - 1)
        BY <1>1, Zenon DEF ChainIsLinear
      <4>4. series[s + 1].predecessor = s
        BY <2>1, <4>1, <4>2, <4>3
      <4> QED
        BY <1>3, <4>1, <4>4 DEF SplitTo, Leaf
    <3> QED
      BY <2>1, <3>1, <3>2
  <2>3. Gapless'
    <3>1. SUFFICES ASSUME NEW u \in SeriesIds, NEW v \in SeriesIds, u < v, series'[v].there
                   PROVE  series'[u].there
      BY DEF Gapless
    <3>2. CASE v = t
      <4>1. u \in 1 .. t - 1
        BY <3>1, <3>2 DEF SeriesIds
      <4>2. series[u].there
        BY <1>3, <4>1 DEF SplitTo
      <4> QED
        BY <4>2, StepThere
    <3>3. CASE v # t
      <4>1. series[v].there
        BY <1>3, <3>1, <3>3 DEF SplitTo
      <4>2. series[u].there
        BY <1>1, <3>1, <4>1 DEF Gapless
      <4> QED
        BY <4>2, StepThere
    <3> QED
      BY <3>2, <3>3
  <2>4. series[t].predecessor = 0 /\ series[t].boundary = 0
    BY <1>1, <1>3 DEF NothingBeforeCreation, NoSeries, SplitTo
  <2>5. ASSUME NEW u \in SeriesIds
        PROVE  /\ series'[u].there => (series'[u].predecessor = u - 1)
               /\ series'[u].boundary # 0 <=> \E v \in SeriesIds : series'[v].predecessor = u
    <3>0. u # 0
      BY DEF SeriesIds
    <3>1. /\ series[u].there => (series[u].predecessor = u - 1)
          /\ series[u].boundary # 0 <=> \E v \in SeriesIds : series[v].predecessor = u
      BY <1>1 DEF ChainIsLinear
    <3>2. \A v \in SeriesIds \ {t} : series'[v].predecessor = series[v].predecessor
      BY <1>3 DEF SplitTo
    <3>3. series'[t].predecessor = s
      BY <1>3 DEF SplitTo
    <3>4. series'[u].there => (series'[u].predecessor = u - 1)
      <4>1. CASE u = t
        BY <2>1, <2>2, <3>3, <4>1
      <4>2. CASE u # t
        BY <1>3, <3>1, <3>2, <4>2 DEF SplitTo
      <4> QED
        BY <4>1, <4>2
    <3>5. (\E v \in SeriesIds : series'[v].predecessor = u)
            <=> u = s \/ \E v \in SeriesIds : series[v].predecessor = u
      BY <2>4, <3>0, <3>2, <3>3
    <3>6. series'[u].boundary # 0 <=> u = s \/ series[u].boundary # 0
      <4>1. CASE u = s
        BY <1>3, <2>1, <4>1 DEF SplitTo
      <4>2. CASE u = t
        BY <1>3, <2>4, <4>2 DEF SplitTo
      <4>3. CASE u # s /\ u # t
        BY <1>3, <4>3 DEF SplitTo
      <4> QED
        BY <4>1, <4>2, <4>3
    <3> QED
      BY <3>1, <3>4, <3>5, <3>6
  <2>6. ASSUME NEW u \in SeriesIds, series'[u].boundary # 0, NEW n \in Notes,
               note'[n].series = u, KeyOf(n) >= series'[u].boundary
        PROVE  ~Public(n)'
    <3>1. CASE u = s
      BY <1>3, <2>6, <3>1 DEF SplitTo, Portion, NotesOf
    <3>2. CASE u # s
      <4>1. u # t /\ series'[u] = series[u]
        BY <1>3, <2>6, <3>2 DEF SplitTo
      <4> QED
        BY <1>1, <2>6, <4>1, ClosedEnd
    <3> QED
      BY <3>1, <3>2
  <2> QED
    BY <2>3, <2>5, <2>6 DEF ChainInv, ChainIsLinear, Portion, NotesOf
<1> QED
  BY <1>2, <1>3, SplitWrites

LEMMA ChainAlways == Spec => []ChainInv
<1>1. Init => ChainInv
  <2> SUFFICES ASSUME Init PROVE ChainInv
    OBVIOUS
  <2>1. \A s \in SeriesIds : /\ series[s].predecessor = 0 /\ series[s].boundary = 0
                             /\ series[s].there => s = 1
    BY DEF Init, Empty, Migrated, NoSeries
  <2> QED
    BY <2>1 DEF ChainInv, Gapless, ChainIsLinear, SeriesIds
<1>2. SeriesInv /\ ChainInv /\ [Next]_vars => ChainInv'
  BY StepChain
<1> QED
  BY <1>1, <1>2, Invariant, PTL DEF Spec

(* The series of a lineage form one chain, and what a split closed cannot    *)
(* come back: the end of a series stays empty beside its successor.          *)
THEOREM ChainStaysLinear == Spec => []ChainIsLinear
<1>1. ChainInv => ChainIsLinear
  BY DEF ChainInv
<1> QED
  BY <1>1, ChainAlways, PTL

-----------------------------------------------------------------------------
(* The list of the trash *)

LEMMA Listed ==
  ASSUME SeriesInv
  PROVE  TrashIsListedOnce
<1> SUFFICES ASSUME NEW n \in Notes
             PROVE  Cardinality({a \in ActionEntries : n \in action[a].members /\ note[n].action = a})
                      + (IF n \in LegacyEntries THEN 1 ELSE 0)
                      + (IF n \in OrdinaryEntries THEN 1 ELSE 0)
                    = (IF Public(n) /\ note[n].deleted # 0 THEN 1 ELSE 0)
  BY Zenon DEF TrashIsListedOnce
<1> DEFINE own == {a \in ActionEntries : n \in action[a].members /\ note[n].action = a}
<1>1. CASE note[n].action # 0
  <2>1. /\ note[n].action \in ActionIds /\ n \in action[note[n].action].members
        /\ Public(n) /\ note[n].deleted # 0
    BY <1>1, MemberIsTrashed
  <2>2. own = {note[n].action}
    BY <2>1 DEF ActionEntries, Current
  <2>3. Cardinality(own) = 1
    BY <2>2, FS_Singleton
  <2>4. n \notin LegacyEntries /\ n \notin OrdinaryEntries
    BY <1>1, <2>1 DEF LegacyEntries, OrdinaryEntries, InHistory
  <2> HIDE DEF own
  <2>5. Cardinality(own) + 0 + 0 = 1
    BY <2>3
  <2> QED
    BY <2>1, <2>4, <2>5 DEF own
<1>2. CASE note[n].action = 0
  <2>1. 0 \notin ActionIds
    BY DEF ActionIds
  <2>2. own = {}
    BY <1>2, <2>1 DEF ActionEntries
  <2>3. Cardinality(own) = 0
    BY <2>2, FS_EmptySet
  <2>4. CASE Public(n) /\ note[n].deleted # 0
    <3>1. n \in OrdinaryEntries <=> note[n].trashed = 0 \/ InHistory(n)
      BY <1>2, <2>4 DEF OrdinaryEntries
    <3>2. n \in LegacyEntries <=> ~(note[n].trashed = 0 \/ InHistory(n))
      BY <2>4 DEF LegacyEntries
    <3> HIDE DEF own
    <3> QED
      BY <2>3, <2>4, <3>1, <3>2 DEF own
  <2>5. CASE ~(Public(n) /\ note[n].deleted # 0)
    <3>1. n \notin LegacyEntries /\ n \notin OrdinaryEntries
      BY <2>5 DEF LegacyEntries, OrdinaryEntries
    <3> HIDE DEF own
    <3>2. Cardinality(own) + 0 + 0 = 0
      BY <2>3
    <3> QED
      BY <2>5, <3>1, <3>2 DEF own
  <2> QED
    BY <2>4, <2>5
<1> QED
  BY <1>1, <1>2, RowParts

(* What is in the trash is listed exactly once, by its action or on its own, *)
(* and what is not in the trash is not listed.                               *)
THEOREM TrashListIsExact == Spec => []TrashIsListedOnce
  BY Listed, Invariant, PTL

-----------------------------------------------------------------------------
(* Occurrences of a series have different keys *)

(* uq_note_series_recurrence_key: no split and no creation runs into it.     *)
UniqueKeys ==
  \A n, m \in Notes :
    note[n].series # 0 /\ note[m].series = note[n].series /\ KeyOf(m) = KeyOf(n) => m = n

(* The notes of a successor come from the part it replaces or are new.       *)
Arrival(n, s, k, generated, t) ==
  \/ n \in Kept(s, k, generated) /\ note'[n] = Moved(n, t)
  \/ /\ n[1] = t /\ KeyOf(n) \in generated /\ note'[n] = NewNote(t, KeyOf(n))
     /\ \A m \in Kept(s, k, generated) : KeyOf(m) # KeyOf(n)

LEMMA MovedRow ==
  ASSUME TypeOK, NEW n \in Notes, NEW t \in SeriesIds
  PROVE  /\ Moved(n, t).series = t /\ Moved(n, t).starts = KeyOf(n) /\ Moved(n, t).deleted = 0
         /\ Moved(n, t).action = note[n].action /\ Moved(n, t).trashed = 0
<1> DEFINE r == [note[n] EXCEPT !.series = t, !.starts = KeyOf(n), !.deleted = 0,
                                !.trashed = 0, !.superseded = FALSE]
<1>1. note[n] \in NoteRows /\ KeyOf(n) \in Keys /\ clock \in Times
  BY Parts, RowParts
<1>2. 0 \in Times /\ t \in 0 .. MaxSeries
  BY SeriesAssumption DEF Times, SeriesIds
<1>3. r \in NoteRows
  BY <1>1, <1>2 DEF NoteRows
<1>4. /\ r.series = t /\ r.starts = KeyOf(n) /\ r.deleted = 0
      /\ r.action = note[n].action /\ r.trashed = 0
  BY <1>1 DEF NoteRows
<1>5. Moved(n, t) = Reconciled(r)
  BY DEF Moved
<1> HIDE DEF r
<1> QED
  BY <1>1, <1>3, <1>4, <1>5, ReconciledRow

LEMMA SupersededRow ==
  ASSUME TypeOK, NEW n \in Notes
  PROVE  Superseded(n).series = note[n].series /\ Superseded(n).superseded
<1> DEFINE r == [note[n] EXCEPT !.deleted = clock, !.superseded = TRUE]
<1>1. note[n] \in NoteRows /\ clock \in Times
  BY Parts, RowParts
<1>2. r \in NoteRows
  BY <1>1 DEF NoteRows
<1>3. r.series = note[n].series /\ r.superseded
  BY <1>1 DEF NoteRows
<1>4. Superseded(n) = Reconciled(r)
  BY DEF Superseded
<1> HIDE DEF r
<1> QED
  BY <1>1, <1>2, <1>3, <1>4, ReconciledRow

LEMMA Arrivals ==
  ASSUME SeriesInv, NEW s \in SeriesIds, NEW k \in Keys, NEW generated \in Schedules,
         Split(s, k, generated)
  PROVE  \E t \in SeriesIds :
           /\ ~series[t].there /\ t # s
           /\ \A u \in SeriesIds \ {t} : series'[u].there = series[u].there
           /\ note' = SplitNotes(s, k, generated, t)
           /\ \A n \in Notes : \/ Arrival(n, s, k, generated, t) /\ note'[n].series = t
                               \/ note'[n].series = note[n].series /\ note[n].series # t
<1>1. TypeOK /\ NothingBeforeCreation /\ series \in [SeriesIds -> SeriesRows] /\ clock \in Times
  BY Parts DEF SeriesInv
<1>2. PICK t \in SeriesIds :
        /\ ~series[t].there
        /\ series' = [series EXCEPT ![s].boundary = k,
                                    ![t] = [NoSeries EXCEPT !.there = TRUE, !.predecessor = s]]
        /\ note' = SplitNotes(s, k, generated, t)
  BY DEF Split
<1>3. series[s].there /\ s # t
  BY <1>2 DEF Split, Open
<1>4. \A u \in SeriesIds \ {t} : series'[u].there = series[u].there
  BY <1>1, <1>2, <1>3 DEF SeriesRows
<1>5. ASSUME NEW n \in Notes
      PROVE  \/ Arrival(n, s, k, generated, t) /\ note'[n].series = t
             \/ note'[n].series = note[n].series /\ note[n].series # t
  <2>1. note[n].series # t
    BY <1>1, <1>2, SeriesAssumption DEF NothingBeforeCreation, SeriesIds
  <2>2. KeyOf(n) \in Keys
    BY <1>1, RowParts
  <2>3. CASE n \in Kept(s, k, generated) /\ note'[n] = Moved(n, t)
    BY <1>1, <2>3, MovedRow DEF Arrival
  <2>4. CASE /\ n[1] = t /\ KeyOf(n) \in generated /\ note'[n] = NewNote(t, KeyOf(n))
             /\ \A m \in Kept(s, k, generated) : KeyOf(m) # KeyOf(n)
    BY <1>1, <2>2, <2>4, NewRow DEF Arrival
  <2>5. CASE note'[n] = Superseded(n)
    BY <1>1, <2>1, <2>5, SupersededRow
  <2>6. CASE note'[n] = note[n]
    BY <2>1, <2>6
  <2> QED
    BY <1>2, <2>3, <2>4, <2>5, <2>6, SplitCases
<1> QED
  BY <1>2, <1>3, <1>4, <1>5

(* Without a creation or a split no note changes its series.                 *)
LEMMA NoArrival ==
  ASSUME SeriesInv, [Next]_vars, NEW n \in Notes,
         ~\E generated \in Schedules : CreateSeries(generated),
         ~\E s \in SeriesIds, k \in Keys, generated \in Schedules : Split(s, k, generated)
  PROVE  note'[n].series = note[n].series
<1>1. series \in [SeriesIds -> SeriesRows] /\ note[n] \in NoteRows /\ n[1] \in SeriesIds
  BY Parts, RowParts DEF SeriesInv
<1>2. \A u \in SeriesIds : series'[u].there = series[u].there
  <2>1. CASE series' = series
    BY <2>1
  <2>2. CASE PurgeBatch
    <3>1. \A u \in SeriesIds : \/ series'[u] = series[u]
                               \/ series'[u] = [series[u] EXCEPT !.purged = TRUE]
      BY <2>2 DEF PurgeBatch
    <3> QED
      BY <1>1, <3>1 DEF SeriesRows
  <2> QED
    BY <2>1, <2>2, StepSeries
<1>3. ~Born(n) /\ ~Taken(n)
  BY <1>1, <1>2 DEF Born, Taken
<1>4. Unmarked(n) \/ Erased(n) => note'[n].series = note[n].series
  BY <1>1 DEF Unmarked, Erased, Purge, NoteRows
<1> QED
  BY <1>3, <1>4, StepRows
     DEF RowStep, Still, Edited, Thrown, SameButStart, Revived, Replaced

LEMMA StepUnique ==
  ASSUME SeriesInv, UniqueKeys, [Next]_vars
  PROVE  UniqueKeys'
<1> SUFFICES ASSUME NEW n \in Notes, NEW m \in Notes, note'[n].series # 0,
                    note'[m].series = note'[n].series, KeyOf(m) = KeyOf(n)
             PROVE  m = n
  BY DEF UniqueKeys
<1>1. n[1] = m[1] => m = n
  BY DEF Notes, KeyOf
<1>2. note[n].series # 0 /\ note[m].series = note[n].series => m = n
  BY DEF UniqueKeys
<1>3. CASE \E generated \in Schedules : CreateSeries(generated)
  <2>1. PICK generated \in Schedules : CreateSeries(generated)
    BY <1>3
  <2>2. ASSUME NEW o \in Notes, note'[o].series # 0
        PROVE  \/ note'[o].series = 1 /\ o[1] = 1
               \/ note'[o].series = note[o].series /\ note[o].series # 1
    <3>1. CASE o \in {1} \X generated
      <4>1. note'[o] = NewNote(1, KeyOf(o)) /\ o[1] = 1
        BY <2>1, <3>1 DEF CreateSeries
      <4>2. NewNote(1, KeyOf(o)).series = 1
        BY DEF NewNote, Reconciled, NoNote
      <4> QED
        BY <4>1, <4>2
    <3>2. CASE o \notin {1} \X generated
      <4>1. note'[o] = note[o] /\ ~series[1].there
        BY <2>1, <3>2 DEF CreateSeries
      <4>2. note[o].series # 1
        BY <2>2, <4>1 DEF SeriesInv, NothingBeforeCreation
      <4> QED
        BY <4>1, <4>2
    <3> QED
      BY <3>1, <3>2
  <2> QED
    BY <1>1, <1>2, <2>2
<1>4. CASE \E s \in SeriesIds, k \in Keys, generated \in Schedules : Split(s, k, generated)
  <2>1. PICK s \in SeriesIds, k \in Keys, generated \in Schedules : Split(s, k, generated)
    BY <1>4
  <2>2. PICK t \in SeriesIds :
          \A o \in Notes : \/ Arrival(o, s, k, generated, t) /\ note'[o].series = t
                           \/ note'[o].series = note[o].series /\ note[o].series # t
    BY <2>1, Arrivals
  <2>3. CASE note'[n].series = note[n].series /\ note[n].series # t
    BY <1>2, <2>2, <2>3
  <2>4. CASE Arrival(n, s, k, generated, t) /\ note'[n].series = t
    <3>1. Arrival(m, s, k, generated, t)
      BY <2>2, <2>4
    <3>2. s # 0
      BY DEF SeriesIds
    <3>3. \A o \in Kept(s, k, generated) : o \in Notes /\ note[o].series = s
      BY DEF Kept, Affected, Portion, NotesOf
    <3> QED
      BY <1>1, <1>2, <2>4, <3>1, <3>2, <3>3 DEF Arrival
  <2> QED
    BY <2>2, <2>3, <2>4
<1> QED
  BY <1>2, <1>3, <1>4, NoArrival

LEMMA InitUnique == Init => UniqueKeys
<1> SUFFICES ASSUME Init, NEW n \in Notes, NEW m \in Notes, note[n].series # 0,
                    note[m].series = note[n].series, KeyOf(m) = KeyOf(n)
             PROVE  m = n
  BY DEF UniqueKeys
<1>1. \A o \in Notes : note[o].series # 0 => o[1] = 1
  <2>1. NoNote.series = 0
    BY DEF NoNote
  <2>2. \A o \in Notes : note[o] = NoNote \/ o[1] = 1
    BY DEF Init, Empty, Migrated
  <2> QED
    BY <2>1, <2>2
<1> QED
  BY <1>1 DEF Notes, KeyOf

(* No two notes of a series ever have the same key: no split or creation     *)
(* is refused by the database for it.                                        *)
THEOREM KeysStayUnique == Spec => []UniqueKeys
<1>1. SeriesInv /\ UniqueKeys /\ [Next]_vars => UniqueKeys'
  BY StepUnique
<1> QED
  BY <1>1, InitUnique, Invariant, PTL DEF Spec

-----------------------------------------------------------------------------
(* Splits *)

LEMMA StepReplaces ==
  ASSUME SeriesInv, UniqueKeys, [Next]_vars, NEW t \in SeriesIds \ {1},
         ~series[t].there, series'[t].there,
         NEW visible, visible = {n \in Notes : note'[n].series = t /\ note'[n].deleted = 0}
  PROVE  /\ {KeyOf(n) : n \in visible} \in Schedules
         /\ \A n, m \in visible : KeyOf(n) = KeyOf(m) => n = m
         /\ \A n \in visible : note'[n].starts = KeyOf(n) /\ note'[n].starts > clock
<1>1. TypeOK /\ series \in [SeriesIds -> SeriesRows] /\ clock \in Times
  BY Parts DEF SeriesInv
<1>2. \E s \in SeriesIds, k \in Keys, generated \in Schedules : Split(s, k, generated)
  <2>1. ~\E generated \in Schedules : CreateSeries(generated)
    BY <1>1 DEF CreateSeries
  <2>2. ~PurgeBatch
    <3>1. ASSUME PurgeBatch PROVE series'[t].there = series[t].there
      <4>1. \/ series'[t] = series[t]
            \/ series'[t] = [series[t] EXCEPT !.purged = TRUE]
        BY <3>1 DEF PurgeBatch
      <4> QED
        BY <1>1, <4>1 DEF SeriesRows
    <3> QED
      BY <1>1, <3>1
  <2> QED
    BY <2>1, <2>2, StepSeries
<1>3. PICK s \in SeriesIds, k \in Keys, generated \in Schedules : Split(s, k, generated)
  BY <1>2
<1>4. PICK u \in SeriesIds :
        /\ \A v \in SeriesIds \ {u} : series'[v].there = series[v].there
        /\ note' = SplitNotes(s, k, generated, u)
        /\ \A n \in Notes : \/ Arrival(n, s, k, generated, u) /\ note'[n].series = u
                            \/ note'[n].series = note[n].series /\ note[n].series # u
  BY <1>3, Arrivals
<1>5. u = t
  BY <1>4
<1>6. \A n \in visible : n \in Notes /\ Arrival(n, s, k, generated, t)
  BY <1>4, <1>5
<1>7. \A n \in Kept(s, k, generated) : n \in Notes /\ note[n].series = s /\ KeyOf(n) \in generated
  BY DEF Kept, Affected, Portion, NotesOf
<1>8. generated \subseteq Keys /\ \A g \in generated : g > clock
  BY <1>3, SeriesAssumption DEF Split, Future
<1>9. ASSUME NEW n \in visible
      PROVE  /\ KeyOf(n) \in generated
             /\ note'[n].starts = KeyOf(n) /\ note'[n].starts > clock
  <2>1. n \in Notes /\ KeyOf(n) \in generated /\ KeyOf(n) \in Keys
    BY <1>6, <1>7, <1>8 DEF Arrival
  <2>2. note'[n].starts = KeyOf(n)
    BY <1>1, <1>6, <2>1, MovedRow, NewRow DEF Arrival
  <2> QED
    BY <1>8, <2>1, <2>2
<1>10. ASSUME NEW n \in visible, NEW m \in visible, KeyOf(n) = KeyOf(m)
       PROVE  n = m
  <2>1. n[1] = m[1] => m = n
    BY <1>6, <1>10 DEF Notes, KeyOf
  <2>2. s # 0
    BY DEF SeriesIds
  <2> QED
    BY <1>6, <1>7, <1>10, <2>1, <2>2 DEF Arrival, UniqueKeys
<1>11. ASSUME NEW g \in generated
       PROVE  \E n \in visible : KeyOf(n) = g
  <2>1. CASE \E n \in Kept(s, k, generated) : KeyOf(n) = g
    <3>1. PICK n \in Kept(s, k, generated) : KeyOf(n) = g
      BY <2>1
    <3>2. n \in Notes
      BY <1>7
    <3>3. note'[n] = Moved(n, t)
      BY <1>4, <1>5, <3>1, <3>2, Zenon DEF SplitNotes
    <3>4. n \in visible
      BY <1>1, <3>2, <3>3, MovedRow
    <3> QED
      BY <3>1, <3>4
  <2>2. CASE \A m \in Kept(s, k, generated) : KeyOf(m) # g
    <3> DEFINE n == <<t, g>>
    <3>1. n \in Notes /\ KeyOf(n) = g /\ n[1] = t /\ g \in Keys
      BY <1>8 DEF Notes, KeyOf
    <3> HIDE DEF n
    <3>2. n \notin Kept(s, k, generated)
      BY <2>2, <3>1
    <3>3. note'[n] = NewNote(t, KeyOf(n))
      <4>1. note'[n] = CASE n \in Kept(s, k, generated) -> Moved(n, t)
                         [] n[1] = t /\ KeyOf(n) \in generated
                            /\ \A m \in Kept(s, k, generated) : KeyOf(m) # KeyOf(n) -> NewNote(t, KeyOf(n))
                         [] n \in Affected(s, k) \ Kept(s, k, generated) /\ ~note[n].purged -> Superseded(n)
                         [] OTHER -> note[n]
        BY <1>4, <1>5, <3>1 DEF SplitNotes
      <4>2. KeyOf(n) \in generated /\ \A m \in Kept(s, k, generated) : KeyOf(m) # KeyOf(n)
        BY <2>2, <3>1
      <4>3. ~(n \in Affected(s, k) \ Kept(s, k, generated) /\ ~note[n].purged)
        <5>1. note[n] = NoNote
          BY <1>5, <3>1 DEF SeriesInv, NothingBeforeCreation
        <5> QED
          BY <5>1 DEF NoNote, Affected, Standing
      <4> QED
        BY <3>1, <3>2, <4>1, <4>2, <4>3
    <3>4. n \in visible
      BY <1>1, <3>1, <3>3, NewRow
    <3> QED
      BY <3>1, <3>4
  <2> QED
    BY <2>1, <2>2
<1>12. {KeyOf(n) : n \in visible} = generated
  BY <1>9, <1>11
<1> QED
  BY <1>9, <1>10, <1>12

(* A successor holds its whole schedule from the boundary on, once, visible  *)
(* and in the future, whatever was edited, deleted or purged in the portion  *)
(* that it replaces.                                                         *)
THEOREM SplitsReplace == Spec => SplitReplacesFuture
<1>1. SeriesInv /\ UniqueKeys /\ [Next]_vars =>
        [\A t \in SeriesIds \ {1} :
           ~series[t].there /\ series'[t].there =>
             LET visible == {n \in Notes : note'[n].series = t /\ note'[n].deleted = 0}
             IN /\ {KeyOf(n) : n \in visible} \in Schedules
                /\ \A n, m \in visible : KeyOf(n) = KeyOf(m) => n = m
                /\ \A n \in visible : note'[n].starts = KeyOf(n) /\ note'[n].starts > clock]_vars
  <2> SUFFICES ASSUME SeriesInv, UniqueKeys, [Next]_vars, NEW t \in SeriesIds \ {1},
                      ~series[t].there, series'[t].there
               PROVE  LET visible == {n \in Notes : note'[n].series = t /\ note'[n].deleted = 0}
                      IN /\ {KeyOf(n) : n \in visible} \in Schedules
                         /\ \A n, m \in visible : KeyOf(n) = KeyOf(m) => n = m
                         /\ \A n \in visible : note'[n].starts = KeyOf(n) /\ note'[n].starts > clock
    OBVIOUS
  <2> QED
    BY StepReplaces
<1> QED
  BY <1>1, Invariant, KeysStayUnique, PTL DEF Spec, SplitReplacesFuture

-----------------------------------------------------------------------------
(* Marks *)

(* A series has no marks before it is there.                                 *)
MarksAfterCreation ==
  \A s \in SeriesIds, k \in Keys : ~series[s].there => mark[<<s, k>>] = NoMark

MarkOf(n) == mark[<<note[n].series, KeyOf(n)>>]

(* What MarkFollowsNote asks of the row q and the mark m of key k.           *)
Tells(m, q, k) ==
  /\ m.cancelled => q.deleted # 0 /\ q.action = 0
  /\ q.deleted # 0 /\ q.action = 0 /\ q.trashed = 0 => m.cancelled
  /\ m.fields <=> q.starts # k

MarksInv == MarksAfterCreation /\ MarkFollowsNote

LEMMA MarksTell ==
  /\ MarkFollowsNote <=> \A n \in Notes : Public(n) => Tells(MarkOf(n), note[n], KeyOf(n))
  /\ MarkFollowsNote' <=>
       \A n \in Notes : Public(n)' =>
         Tells(mark'[<<note'[n].series, KeyOf(n)>>], note'[n], KeyOf(n))
  BY DEF MarkFollowsNote, Tells, MarkOf

LEMMA RestoredFields ==
  ASSUME TypeOK, NEW r \in NoteRows
  PROVE  /\ Restored(r).series = r.series /\ Restored(r).starts = r.starts
         /\ Restored(r).deleted = 0 /\ Restored(r).trashed = r.trashed
         /\ Restored(r).action = 0
<1> DEFINE q == [r EXCEPT !.deleted = 0, !.action = 0]
<1>1. clock \in Times /\ 0 \in Times /\ 0 \in 0 .. MaxActions
  BY Parts, SeriesAssumption DEF Times
<1>2. q \in NoteRows
  BY <1>1 DEF NoteRows
<1>3. /\ q.series = r.series /\ q.starts = r.starts /\ q.deleted = 0
      /\ q.trashed = r.trashed /\ q.action = 0
  BY DEF NoteRows
<1>4. Restored(r) = Reconciled(q)
  BY DEF Restored
<1> HIDE DEF q
<1> QED
  BY <1>1, <1>2, <1>3, <1>4, ReconciledRow

(* A handler of one occurrence writes its mark and no other's.               *)
LEMMA OneMark ==
  ASSUME SeriesInv, UniqueKeys, MarksInv, NEW n \in Notes, Public(n),
         NEW q, NEW r, NEW c,
         note' = [note EXCEPT ![n] = q], q.series = note[n].series,
         mark' = Marked(n, r, c), r.series = note[n].series,
         Tells([cancelled |-> c, fields |-> r.starts # KeyOf(n)], q, KeyOf(n))
  PROVE  MarkFollowsNote'
<1>1. TypeOK /\ note \in [Notes -> NoteRows] /\ mark \in [SeriesIds \X Keys -> Marks]
  BY Parts DEF SeriesInv
<1>2. note[n].series \in SeriesIds /\ KeyOf(n) \in Keys
  BY <1>1, RowParts DEF Public, Standing
<1>3. mark' = [mark EXCEPT ![<<note[n].series, KeyOf(n)>>] =
                 [cancelled |-> c, fields |-> r.starts # KeyOf(n)]]
  BY DEF Marked
<1>4. ASSUME NEW o \in Notes, Public(o)'
      PROVE  Tells(mark'[<<note'[o].series, KeyOf(o)>>], note'[o], KeyOf(o))
  <2>1. CASE o = n
    <3>1. note'[o] = q
      BY <1>1, <2>1
    <3>2. mark'[<<note'[o].series, KeyOf(o)>>] = [cancelled |-> c, fields |-> r.starts # KeyOf(n)]
      BY <1>1, <1>2, <1>3, <2>1, <3>1
    <3> QED
      BY <2>1, <3>1, <3>2
  <2>2. CASE o # n
    <3>1. note'[o] = note[o]
      BY <1>1, <2>2
    <3>2. Public(o)
      BY <1>4, <3>1 DEF Public, Standing
    <3>3. ~(note[o].series = note[n].series /\ KeyOf(o) = KeyOf(n))
      BY <2>2, <3>2 DEF UniqueKeys, Public, Standing
    <3>4. <<note[o].series, KeyOf(o)>> # <<note[n].series, KeyOf(n)>>
      BY <3>3
    <3>5. <<note[o].series, KeyOf(o)>> \in SeriesIds \X Keys
      BY <1>1, <3>2, RowParts DEF Public, Standing
    <3>6. mark'[<<note'[o].series, KeyOf(o)>>] = MarkOf(o)
      BY <1>1, <1>3, <3>1, <3>4, <3>5 DEF MarkOf
    <3> QED
      BY <3>1, <3>2, <3>6, MarksTell DEF MarksInv
  <2> QED
    BY <2>1, <2>2
<1> QED
  BY <1>4, MarksTell

LEMMA OccurrenceMarks ==
  ASSUME SeriesInv, UniqueKeys, MarksInv, NEW n \in Notes,
         DeleteNote(n) \/ RestoreNote(n) \/ \E starts \in Keys : UpdateNote(n, starts)
  PROVE  MarkFollowsNote'
<1>1. /\ TypeOK /\ note[n] \in NoteRows /\ clock \in Times /\ clock # 0
  <2>1. TypeOK /\ InstantsAreOrdered
    BY DEF SeriesInv
  <2>2. clock \in Nat /\ clock >= 1
    BY <2>1, Parts DEF InstantsAreOrdered
  <2> QED
    BY <2>1, <2>2, Parts, RowParts
<1>2. Public(n) => Tells(MarkOf(n), note[n], KeyOf(n))
  BY MarksTell DEF MarksInv
<1>3. ASSUME DeleteNote(n)
      PROVE  MarkFollowsNote'
  <2> DEFINE r == [note[n] EXCEPT !.deleted = clock]
             q == Reconciled(r)
  <2>1. /\ note' = [note EXCEPT ![n] = q] /\ mark' = Marked(n, q, TRUE) /\ Visible(n)
    BY <1>3 DEF DeleteNote
  <2>2. r \in NoteRows /\ r.series = note[n].series /\ r.starts = note[n].starts
        /\ r.deleted = clock /\ r.action = note[n].action
    BY <1>1 DEF NoteRows
  <2> HIDE DEF r
  <2>3. q.series = note[n].series /\ q.starts = note[n].starts /\ q.deleted # 0 /\ q.action = 0
    BY <1>1, <2>1, <2>2, ReconciledRow, VisibleIsFree
  <2> HIDE DEF q
  <2>4. Tells([cancelled |-> TRUE, fields |-> q.starts # KeyOf(n)], q, KeyOf(n))
    BY <2>3 DEF Tells
  <2>5. Public(n)
    BY <2>1 DEF Visible
  <2> QED
    BY <2>1, <2>3, <2>4, <2>5, OneMark
<1>4. ASSUME RestoreNote(n)
      PROVE  MarkFollowsNote'
  <2> DEFINE q == Restored(note[n])
  <2>1. /\ note' = [note EXCEPT ![n] = q] /\ mark' = Marked(n, note[n], FALSE) /\ Public(n)
    BY <1>4 DEF RestoreNote
  <2>2. /\ q.series = note[n].series /\ q.starts = note[n].starts /\ q.deleted = 0
    BY <1>1, RestoredFields
  <2> HIDE DEF q
  <2>3. Tells([cancelled |-> FALSE, fields |-> note[n].starts # KeyOf(n)], q, KeyOf(n))
    BY <2>2 DEF Tells
  <2> QED
    BY <2>1, <2>2, <2>3, OneMark
<1>5. ASSUME NEW starts \in Keys, UpdateNote(n, starts)
      PROVE  MarkFollowsNote'
  <2> DEFINE r == [note[n] EXCEPT !.starts = starts]
             q == Reconciled(r)
  <2>1. /\ note' = [note EXCEPT ![n] = q] /\ Visible(n)
        /\ mark' = Marked(n, q, mark[<<q.series, KeyOf(n)>>].cancelled)
    BY <1>5 DEF UpdateNote
  <2>2. r \in NoteRows /\ r.series = note[n].series /\ r.deleted = note[n].deleted
    BY <1>1 DEF NoteRows
  <2> HIDE DEF r
  <2>3. q.series = note[n].series /\ q.deleted = 0
    BY <1>1, <2>1, <2>2, ReconciledRow DEF Visible
  <2> HIDE DEF q
  <2>4. mark' = Marked(n, q, MarkOf(n).cancelled)
    BY <2>1, <2>3 DEF MarkOf
  <2>5. Public(n) /\ note[n].deleted = 0
    BY <2>1 DEF Visible
  <2>6. ~MarkOf(n).cancelled
    BY <1>2, <2>5 DEF Tells
  <2>7. Tells([cancelled |-> MarkOf(n).cancelled, fields |-> q.starts # KeyOf(n)], q, KeyOf(n))
    BY <2>3, <2>6 DEF Tells
  <2> QED
    BY <2>1, <2>3, <2>4, <2>5, <2>7, OneMark
<1> QED
  BY <1>3, <1>4, <1>5

(* A step that writes no mark, where every row keeps its place.              *)
LEMMA RowMarks ==
  ASSUME SeriesInv, MarksInv, mark' = mark,
         \A n \in Notes :
           Public(n)' => \/ note'[n] = note[n]
                         \/ /\ Public(n) /\ note'[n].series = note[n].series
                            /\ Tells(MarkOf(n), note'[n], KeyOf(n))
                         \/ /\ note'[n].series \in SeriesIds /\ ~series[note'[n].series].there
                            /\ Tells(NoMark, note'[n], KeyOf(n))
  PROVE  MarkFollowsNote'
<1>1. ASSUME NEW n \in Notes, Public(n)'
      PROVE  Tells(mark'[<<note'[n].series, KeyOf(n)>>], note'[n], KeyOf(n))
  <2>1. CASE note'[n] = note[n]
    <3>1. Public(n)
      BY <1>1, <2>1 DEF Public, Standing
    <3> QED
      BY <2>1, <3>1, MarksTell DEF MarksInv, MarkOf
  <2>2. CASE /\ Public(n) /\ note'[n].series = note[n].series
             /\ Tells(MarkOf(n), note'[n], KeyOf(n))
    BY <2>2 DEF MarkOf
  <2>3. CASE /\ note'[n].series \in SeriesIds /\ ~series[note'[n].series].there
             /\ Tells(NoMark, note'[n], KeyOf(n))
    <3>1. KeyOf(n) \in Keys
      BY RowParts DEF SeriesInv
    <3>2. mark[<<note'[n].series, KeyOf(n)>>] = NoMark
      BY <2>3, <3>1 DEF MarksInv, MarksAfterCreation
    <3> QED
      BY <2>3, <3>2
  <2> QED
    BY <1>1, <2>1, <2>2, <2>3
<1> QED
  BY <1>1, MarksTell

LEMMA CreateMarks ==
  ASSUME SeriesInv, MarksInv, NEW generated \in Schedules, CreateSeries(generated)
  PROVE  MarkFollowsNote'
<1>1. /\ note' = [n \in Notes |-> IF n \in {1} \X generated THEN NewNote(1, KeyOf(n)) ELSE note[n]]
      /\ mark' = mark /\ ~series[1].there /\ 1 \in SeriesIds /\ TypeOK /\ clock \in Times
  BY Parts, SeriesAssumption DEF CreateSeries, SeriesIds, SeriesInv
<1>2. ASSUME NEW n \in Notes
      PROVE  \/ note'[n] = note[n]
             \/ note'[n].series = 1 /\ Tells(NoMark, note'[n], KeyOf(n))
  <2>1. KeyOf(n) \in Keys
    BY <1>1, RowParts
  <2>2. /\ NewNote(1, KeyOf(n)).series = 1 /\ NewNote(1, KeyOf(n)).starts = KeyOf(n)
        /\ NewNote(1, KeyOf(n)).deleted = 0
    BY <1>1, <2>1, NewRow
  <2> QED
    BY <1>1, <2>2 DEF Tells, NoMark
<1> QED
  BY <1>1, <1>2, RowMarks

LEMMA TrashMarks ==
  ASSUME SeriesInv, MarksInv, NEW s \in SeriesIds, NEW k \in Keys, TrashPortion(s, k)
  PROVE  MarkFollowsNote'
<1>1. PICK a \in ActionIds :
        note' = [n \in Notes |->
                   IF n \notin Trashed(s, k) THEN note[n]
                   ELSE Reconciled([note[n] EXCEPT !.deleted = clock, !.action = a])]
  BY DEF TrashPortion
<1>2. mark' = mark /\ TypeOK /\ clock \in Times
  BY Parts DEF TrashPortion, SeriesInv
<1>3. ASSUME NEW n \in Trashed(s, k), n \in Notes
      PROVE  /\ Public(n) /\ note'[n].series = note[n].series
             /\ Tells(MarkOf(n), note'[n], KeyOf(n))
  <2> DEFINE r == [note[n] EXCEPT !.deleted = clock, !.action = a]
  <2>1. note[n] \in NoteRows /\ a \in 0 .. MaxActions /\ a # 0
    BY <1>2, <1>3, RowParts, SeriesAssumption DEF ActionIds
  <2>2. r \in NoteRows
    BY <1>2, <2>1 DEF NoteRows
  <2>3. r.series = note[n].series /\ r.starts = note[n].starts /\ r.action = a
    BY <2>1 DEF NoteRows
  <2>4. note'[n] = Reconciled(r)
    BY <1>1, <1>3
  <2> HIDE DEF r
  <2>5. /\ note'[n].series = note[n].series /\ note'[n].starts = note[n].starts
        /\ note'[n].action # 0
    BY <1>2, <2>1, <2>2, <2>3, <2>4, ReconciledRow
  <2>6. Public(n) /\ note[n].deleted = 0
    BY <1>3 DEF Trashed, Visible
  <2>7. Tells(MarkOf(n), note[n], KeyOf(n))
    BY <1>3, <2>6, MarksTell DEF MarksInv
  <2> QED
    BY <2>5, <2>6, <2>7 DEF Tells
<1>4. \A n \in Notes : n \notin Trashed(s, k) => note'[n] = note[n]
  BY <1>1
<1> QED
  BY <1>2, <1>3, <1>4, RowMarks

LEMMA RestoreActionMarks ==
  ASSUME SeriesInv, MarksInv, NEW a \in ActionIds, RestoreAction(a)
  PROVE  MarkFollowsNote'
<1>1. /\ note' = [n \in Notes |-> IF n \in action[a].members THEN Restored(note[n]) ELSE note[n]]
      /\ mark' = mark /\ TypeOK
  BY DEF RestoreAction, SeriesInv
<1>2. ASSUME NEW n \in Notes, n \in action[a].members
      PROVE  /\ Public(n) /\ note'[n].series = note[n].series
             /\ Tells(MarkOf(n), note'[n], KeyOf(n))
  <2>1. Public(n) /\ note[n].action # 0
    BY <1>2, OpenMembers DEF RestoreAction
  <2>2. Tells(MarkOf(n), note[n], KeyOf(n))
    BY <2>1, MarksTell DEF MarksInv
  <2>3. note[n] \in NoteRows
    BY <1>1, RowParts
  <2>4. /\ note'[n].series = note[n].series /\ note'[n].starts = note[n].starts
        /\ note'[n].deleted = 0
    BY <1>1, <1>2, <2>3, RestoredFields
  <2> QED
    BY <2>1, <2>2, <2>4 DEF Tells
<1>3. \A n \in Notes : n \notin action[a].members => note'[n] = note[n]
  BY <1>1
<1> QED
  BY <1>1, <1>2, <1>3, RowMarks

LEMMA RestoreLegacyMarks ==
  ASSUME SeriesInv, MarksInv, NEW s \in SeriesIds, NEW k \in Keys, RestoreLegacy(s, k)
  PROVE  MarkFollowsNote'
<1>1. /\ note' = [n \in Notes |-> IF n \in LegacyRows(s, k) THEN LegacyRestored(n) ELSE note[n]]
      /\ mark' = mark /\ TypeOK
  BY DEF RestoreLegacy, SeriesInv
<1>2. ASSUME NEW n \in Notes, n \in LegacyRows(s, k)
      PROVE  /\ Public(n) /\ note'[n].series = note[n].series
             /\ Tells(MarkOf(n), note'[n], KeyOf(n))
  <2> DEFINE r == [note[n] EXCEPT !.trashed = 0]
  <2>1. Public(n)
    BY <1>2, LegacyRowIsPublic DEF RestoreLegacy
  <2>2. Tells(MarkOf(n), note[n], KeyOf(n))
    BY <2>1, MarksTell DEF MarksInv
  <2>3. note[n] \in NoteRows /\ 0 \in Times
    BY <1>1, RowParts, SeriesAssumption DEF Times
  <2>4. r \in NoteRows
    BY <2>3 DEF NoteRows
  <2>5. /\ r.series = note[n].series /\ r.starts = note[n].starts
        /\ r.deleted = note[n].deleted /\ r.action = note[n].action
    BY <2>3 DEF NoteRows
  <2>6. note'[n] = IF MarkOf(n).cancelled THEN r ELSE Restored(r)
    BY <1>1, <1>2 DEF LegacyRestored, MarkOf
  <2> HIDE DEF r
  <2>7. CASE MarkOf(n).cancelled
    BY <2>1, <2>2, <2>5, <2>6, <2>7 DEF Tells
  <2>8. CASE ~MarkOf(n).cancelled
    <3>1. /\ note'[n].series = note[n].series /\ note'[n].starts = note[n].starts
          /\ note'[n].deleted = 0
      BY <1>1, <2>4, <2>5, <2>6, <2>8, RestoredFields
    <3> QED
      BY <2>1, <2>2, <2>8, <3>1 DEF Tells
  <2> QED
    BY <2>7, <2>8
<1>3. \A n \in Notes : n \notin LegacyRows(s, k) => note'[n] = note[n]
  BY <1>1
<1> QED
  BY <1>1, <1>2, <1>3, RowMarks

LEMMA SplitMarksTell ==
  ASSUME SeriesInv, MarksInv, NEW s \in SeriesIds, NEW k \in Keys, NEW generated \in Schedules,
         Split(s, k, generated)
  PROVE  MarkFollowsNote'
<1>1. TypeOK /\ mark \in [SeriesIds \X Keys -> Marks] /\ clock \in Times
  BY Parts DEF SeriesInv
<1>2. PICK t \in SeriesIds :
        /\ ~series[t].there /\ t # s
        /\ note' = SplitNotes(s, k, generated, t)
        /\ \A n \in Notes : \/ Arrival(n, s, k, generated, t) /\ note'[n].series = t
                            \/ note'[n].series = note[n].series /\ note[n].series # t
  BY Arrivals
<1>3. mark' = SplitMarks(s, k)
  BY DEF Split
<1>4. ASSUME NEW n \in Notes, Public(n)'
      PROVE  Tells(mark'[<<note'[n].series, KeyOf(n)>>], note'[n], KeyOf(n))
  <2>1. KeyOf(n) \in Keys
    BY <1>1, RowParts
  <2>2. CASE Arrival(n, s, k, generated, t) /\ note'[n].series = t
    <3>1. /\ note'[n].starts = KeyOf(n) /\ note'[n].deleted = 0
      BY <1>1, <2>1, <2>2, MovedRow, NewRow DEF Arrival
    <3>2. mark'[<<t, KeyOf(n)>>] \in {NoMark, mark[<<t, KeyOf(n)>>]}
      BY <1>3, <2>1 DEF SplitMarks
    <3>3. mark[<<t, KeyOf(n)>>] = NoMark
      BY <1>2, <2>1 DEF MarksInv, MarksAfterCreation
    <3>4. mark'[<<note'[n].series, KeyOf(n)>>] = NoMark
      BY <2>2, <3>2, <3>3
    <3> QED
      BY <3>1, <3>4 DEF Tells, NoMark
  <2>3. CASE note'[n].series = note[n].series /\ note[n].series # t
    <3>1. note'[n] = note[n] /\ Public(n) /\ n \notin Affected(s, k)
      <4>1. note'[n] # Moved(n, t)
        BY <1>1, <2>3, MovedRow
      <4>2. note'[n] # NewNote(t, KeyOf(n))
        BY <1>1, <2>1, <2>3, NewRow
      <4>3. note'[n] # Superseded(n)
        BY <1>1, <1>4, SupersededRow DEF Public, Standing
      <4>4. \/ n \notin Affected(s, k) /\ note'[n] = note[n]
            \/ note[n].purged /\ note'[n] = note[n]
        BY <1>2, <4>1, <4>2, <4>3, SplitCases
      <4> QED
        BY <1>4, <4>4 DEF Public, Standing
    <3>2. note[n].series \in SeriesIds
      BY <1>1, <3>1, RowParts DEF Public, Standing
    <3>3. ~(note[n].series = s /\ KeyOf(n) >= k)
      BY <3>1 DEF Affected, Portion, NotesOf, Public
    <3> DEFINE e == <<note[n].series, KeyOf(n)>>
    <3>4. e \in SeriesIds \X Keys /\ ~(e[1] = s /\ e[2] >= k)
      BY <2>1, <3>2, <3>3
    <3>5. MarkOf(n) = mark[e] /\ e = <<note[n].series, KeyOf(n)>>
      BY DEF MarkOf
    <3> HIDE DEF e
    <3>6. mark'[e] = mark[e]
      BY <1>3, <3>4 DEF SplitMarks
    <3>7. Tells(MarkOf(n), note[n], KeyOf(n))
      BY <3>1, MarksTell DEF MarksInv
    <3> QED
      BY <3>1, <3>5, <3>6, <3>7
  <2> QED
    BY <1>2, <2>2, <2>3
<1> QED
  BY <1>4, MarksTell

LEMMA PurgeMarksTell ==
  ASSUME SeriesInv, UniqueKeys, MarksInv, PurgeBatch
  PROVE  MarkFollowsNote'
<1>1. TypeOK
  BY DEF SeriesInv
<1>2. /\ note' = [n \in Notes |-> IF n \in Purged THEN Purge(n) ELSE note[n]]
      /\ mark' = PurgeMarks
  BY DEF PurgeBatch
<1>3. ASSUME NEW n \in Notes, Public(n)'
      PROVE  Tells(mark'[<<note'[n].series, KeyOf(n)>>], note'[n], KeyOf(n))
  <2>1. note[n] \in NoteRows /\ KeyOf(n) \in Keys
    BY <1>1, RowParts
  <2>2. Purge(n).purged
    BY <2>1 DEF Purge, NoteRows
  <2>3. n \notin Purged /\ note'[n] = note[n]
    BY <1>2, <1>3, <2>2 DEF Public
  <2>4. Public(n) /\ note[n].series # 0
    BY <1>3, <2>3 DEF Public, Standing
  <2>5. note[n].series \in SeriesIds
    BY <1>1, <2>4, RowParts
  <2>6. note[n].series \notin Sealed
    BY <2>3, <2>4 DEF Sealed, NotesOf, Public
  <2>7. ~\E m \in Purged : note[m].series = note[n].series /\ KeyOf(m) = KeyOf(n)
    <3>1. \A m \in Purged : m \in Notes
      BY <1>1, Parts DEF Purged
    <3> QED
      BY <2>3, <2>4, <3>1 DEF UniqueKeys
  <2> DEFINE e == <<note[n].series, KeyOf(n)>>
  <2>8. /\ e \in SeriesIds \X Keys /\ e[1] \notin Sealed
        /\ ~\E m \in Purged : note[m].series = e[1] /\ KeyOf(m) = e[2]
    BY <2>1, <2>5, <2>6, <2>7
  <2>9. MarkOf(n) = mark[e] /\ e = <<note[n].series, KeyOf(n)>>
    BY DEF MarkOf
  <2> HIDE DEF e
  <2>10. mark'[e] = mark[e]
    BY <1>2, <2>8 DEF PurgeMarks
  <2>11. Tells(MarkOf(n), note[n], KeyOf(n))
    BY <2>4, MarksTell DEF MarksInv
  <2> QED
    BY <2>3, <2>9, <2>10, <2>11
<1> QED
  BY <1>3, MarksTell

LEMMA StepMarksAfter ==
  ASSUME SeriesInv, MarksInv, [Next]_vars
  PROVE  MarksAfterCreation'
<1> SUFFICES ASSUME NEW s \in SeriesIds, NEW k \in Keys, ~series'[s].there
             PROVE  mark'[<<s, k>>] = NoMark
  BY DEF MarksAfterCreation
<1>1. ~series[s].there /\ mark[<<s, k>>] = NoMark
  BY StepThere DEF MarksInv, MarksAfterCreation
<1>2. TypeOK /\ NothingBeforeCreation /\ mark \in [SeriesIds \X Keys -> Marks]
  BY Parts DEF SeriesInv
<1>3. ASSUME NEW n \in Notes, NEW r, NEW c, mark' = Marked(n, r, c),
             r.series = note[n].series, Public(n)
      PROVE  mark'[<<s, k>>] = mark[<<s, k>>]
  <2>1. note[n].series # s
    BY <1>1, <1>2, <1>3, SeriesAssumption DEF NothingBeforeCreation, Public, Standing, SeriesIds
  <2> QED
    BY <1>2, <1>3, <2>1 DEF Marked
<1>4. CASE \E n \in Notes : DeleteNote(n) \/ RestoreNote(n)
                            \/ \E starts \in Keys : UpdateNote(n, starts)
  <2>1. PICK n \in Notes : DeleteNote(n) \/ RestoreNote(n)
                           \/ \E starts \in Keys : UpdateNote(n, starts)
    BY <1>4
  <2>2. note[n] \in NoteRows
    BY <1>2, RowParts
  <2>3. Reconciled([note[n] EXCEPT !.deleted = clock]).series = note[n].series
    BY <2>2 DEF Reconciled, NoteRows
  <2>4. \A starts : Reconciled([note[n] EXCEPT !.starts = starts]).series = note[n].series
    BY <2>2 DEF Reconciled, NoteRows
  <2>5. Public(n) /\ \E r, c : mark' = Marked(n, r, c) /\ r.series = note[n].series
    <3>1. CASE DeleteNote(n)
      BY <2>3, <3>1 DEF DeleteNote, Visible
    <3>2. CASE RestoreNote(n)
      BY <3>2 DEF RestoreNote
    <3>3. CASE \E starts \in Keys : UpdateNote(n, starts)
      BY <2>4, <3>3 DEF UpdateNote, Visible
    <3> QED
      BY <2>1, <3>1, <3>2, <3>3
  <2> QED
    BY <1>1, <1>3, <2>5
<1>5. CASE \E u \in SeriesIds, l \in Keys, generated \in Schedules : Split(u, l, generated)
  <2>1. mark'[<<s, k>>] \in {NoMark, mark[<<s, k>>]}
    BY <1>5 DEF Split, SplitMarks
  <2> QED
    BY <1>1, <2>1
<1>6. CASE PurgeBatch
  <2>1. s \notin Sealed
    BY <1>1, <1>2 DEF Sealed, NothingBeforeCreation
  <2>2. \/ mark'[<<s, k>>] = [mark[<<s, k>>] EXCEPT !.fields = FALSE]
        \/ mark'[<<s, k>>] = mark[<<s, k>>]
    BY <1>6, <2>1 DEF PurgeBatch, PurgeMarks
  <2>3. [NoMark EXCEPT !.fields = FALSE] = NoMark
    <3>1. \A m \in Marks : m.fields = FALSE => [m EXCEPT !.fields = FALSE] = m
      BY DEF Marks
    <3>2. NoMark \in Marks /\ NoMark.fields = FALSE
      BY DEF NoMark, Marks
    <3> QED
      BY <3>1, <3>2
  <2> QED
    BY <1>1, <2>2, <2>3
<1> QED
  BY <1>1, <1>4, <1>5, <1>6, StepMarks

LEMMA StepMarksInv ==
  ASSUME SeriesInv, UniqueKeys, MarksInv, [Next]_vars
  PROVE  MarksInv'
<1>1. CASE UNCHANGED <<note, mark>>
  <2>1. MarkFollowsNote'
    BY <1>1 DEF MarksInv, MarkFollowsNote, Public, Standing
  <2> QED
    BY <2>1, StepMarksAfter DEF MarksInv
<1>2. CASE ~UNCHANGED <<note, mark>>
  <2>1. MarkFollowsNote'
    <3>1. CASE \E generated \in Schedules : CreateSeries(generated)
      BY <3>1, CreateMarks
    <3>2. CASE Occurrences
      BY <3>2, OccurrenceMarks DEF Occurrences
    <3>3. CASE Portions
      BY <3>3, TrashMarks, RestoreLegacyMarks, SplitMarksTell DEF Portions
    <3>4. CASE \E a \in ActionIds : RestoreAction(a)
      BY <3>4, RestoreActionMarks
    <3>5. CASE PurgeBatch
      BY <3>5, PurgeMarksTell
    <3> QED
      BY <1>2, <3>1, <3>2, <3>3, <3>4, <3>5
         DEF Next, Cleaning, StartCleanup, Choose, CleanupCrash, Tick, vars
  <2> QED
    BY <2>1, StepMarksAfter DEF MarksInv
<1> QED
  BY <1>1, <1>2

LEMMA InitMarks == Init => MarksInv
<1> SUFFICES ASSUME Init PROVE MarksInv
  OBVIOUS
<1>1. clock \in Times /\ 0 \in Times /\ 1 \in Times /\ 1 \in 0 .. MaxSeries /\ 0 \in 0 .. MaxActions
  BY SeriesAssumption DEF Init, Times
<1>2. CASE Empty
  <2>1. /\ \A n \in Notes : note[n] = NoNote
        /\ \A s \in SeriesIds, k \in Keys : mark[<<s, k>>] = NoMark
    BY <1>2 DEF Empty
  <2>2. \A n \in Notes : ~Public(n)
    BY <2>1 DEF NoNote, Public, Standing
  <2> QED
    BY <2>1, <2>2 DEF MarksInv, MarksAfterCreation, MarkFollowsNote
<1>3. CASE Migrated
  <2> DEFINE Left(generated, k, cancelled) ==
        /\ note = [n \in Notes |-> IF n \in {1} \X generated
                                   THEN Reconciled(OldRow(KeyOf(n), k, cancelled)) ELSE NoNote]
        /\ series = [s \in SeriesIds |-> IF s = 1 THEN [NoSeries EXCEPT !.there = TRUE] ELSE NoSeries]
        /\ mark = [e \in SeriesIds \X Keys |->
                     [cancelled |-> e \in {1} \X cancelled, fields |-> FALSE]]
        /\ cancelled \subseteq {x \in generated : x < k}
        /\ generated \in Schedules /\ k \in generated
  <2>1. \E generated \in Schedules : \E k \in generated :
          \E cancelled \in SUBSET {x \in generated : x < k} : Left(generated, k, cancelled)
    BY <1>3 DEF Migrated
  <2>2. PICK generated, k, cancelled : Left(generated, k, cancelled)
    <3> HIDE DEF Left
    <3> QED
      BY <2>1
  <2>0. k \in Keys
    BY <2>2, SeriesAssumption
  <2>3. MarksAfterCreation
    <3>1. ASSUME NEW s \in SeriesIds, NEW l \in Keys, ~series[s].there
          PROVE  mark[<<s, l>>] = NoMark
      <4>1. s # 1
        <5>1. [NoSeries EXCEPT !.there = TRUE].there
          BY DEF NoSeries
        <5> QED
          BY <2>2, <3>1, <5>1
      <4>2. <<s, l>> \notin {1} \X cancelled
        BY <4>1
      <4>3. mark[<<s, l>>] = [cancelled |-> <<s, l>> \in {1} \X cancelled, fields |-> FALSE]
        BY <2>2
      <4>4. (<<s, l>> \in {1} \X cancelled) = FALSE
        BY <4>2
      <4> QED
        BY <4>3, <4>4, Zenon DEF NoMark
    <3> QED
      BY <3>1 DEF MarksAfterCreation
  <2>4. ASSUME NEW n \in Notes, Public(n)
        PROVE  Tells(MarkOf(n), note[n], KeyOf(n))
    <3>1. n \in {1} \X generated
      <4>1. note[n] # NoNote
        BY <2>4 DEF Public, Standing, NoNote
      <4> QED
        BY <2>2, <4>1
    <3> DEFINE r == OldRow(KeyOf(n), k, cancelled)
               x == KeyOf(n)
    <3>2. x \in Keys /\ x \in generated
      BY <3>1 DEF Notes, KeyOf
    <3>3. r \in NoteRows
      BY <1>1, <3>2 DEF OldRow, NoNote, NoteRows
    <3>4. /\ r.series = 1 /\ r.starts = x /\ r.action = 0
          /\ r.deleted = IF x >= k \/ x \in cancelled THEN 1 ELSE 0
          /\ r.trashed = IF x >= k THEN 1 ELSE 0
      BY DEF OldRow, NoNote
    <3>5. note[n] = Reconciled(r)
      BY <2>2, <3>1
    <3> HIDE DEF r
    <3>6. /\ note[n].series = 1 /\ note[n].starts = x /\ note[n].action = 0
          /\ note[n].deleted = IF x >= k \/ x \in cancelled THEN 1 ELSE 0
          /\ note[n].trashed = IF x >= k THEN 1 ELSE 0
      BY <1>1, <3>3, <3>4, <3>5, ReconciledRow
    <3>7. (MarkOf(n).cancelled <=> x \in cancelled) /\ ~MarkOf(n).fields
      <4>1. 1 \in SeriesIds /\ MarkOf(n) = mark[<<1, x>>]
        BY <3>6, SeriesAssumption DEF MarkOf, SeriesIds
      <4>2. <<1, x>> \in {1} \X cancelled <=> x \in cancelled
        OBVIOUS
      <4> HIDE DEF x
      <4>3. mark[<<1, x>>] = [cancelled |-> <<1, x>> \in {1} \X cancelled, fields |-> FALSE]
        BY <2>2, <3>2, <4>1
      <4>4. /\ mark[<<1, x>>].cancelled = (<<1, x>> \in {1} \X cancelled)
            /\ mark[<<1, x>>].fields = FALSE
        BY <4>3
      <4>5. (<<1, x>> \in {1} \X cancelled) = (x \in cancelled)
        BY <4>2
      <4>6. mark[<<1, x>>].cancelled = (x \in cancelled)
        BY <4>4, <4>5, Zenon
      <4> QED
        BY <4>1, <4>4, <4>6, Zenon
    <3>8. x \in cancelled => x < k
      BY <2>2
    <3>9. KeyOf(n) = x /\ x \in Int /\ k \in Int
      <4>1. Keys \subseteq Nat
        BY SeriesAssumption, Zenon
      <4>2. x \in Nat /\ k \in Nat
        BY <2>0, <3>2, <4>1, Zenon
      <4>3. KeyOf(n) = x
        OBVIOUS
      <4> HIDE DEF x
      <4> QED
        BY <4>2, <4>3
    <3> HIDE DEF x
    <3>10. CASE x >= k
      <4>1. x \notin cancelled
        BY <3>8, <3>9, <3>10
      <4> QED
        BY <3>6, <3>7, <3>9, <3>10, <4>1 DEF Tells
    <3>11. CASE ~(x >= k)
      BY <3>6, <3>7, <3>9, <3>11 DEF Tells
    <3> QED
      BY <3>10, <3>11
  <2> QED
    BY <2>3, <2>4, MarksTell DEF MarksInv
<1> QED
  BY <1>2, <1>3 DEF Init

(* The exception of an occurrence tells what happened to it, through every   *)
(* trash, restore, split and purge: a later restore of a portion knows which *)
(* of its notes were deleted one by one.                                     *)
THEOREM MarksFollow == Spec => []MarkFollowsNote
<1>1. SeriesInv /\ UniqueKeys /\ MarksInv /\ [Next]_vars => MarksInv'
  BY StepMarksInv
<1>2. MarksInv => MarkFollowsNote
  BY DEF MarksInv
<1> QED
  BY <1>1, <1>2, InitMarks, Invariant, KeysStayUnique, PTL DEF Spec

-----------------------------------------------------------------------------
(* Splits that move a schedule back *)

(* The collision query looks below the selected key and the split replaces   *)
(* its own series from there on.  What neither sees are the notes an earlier *)
(* segment keeps between the selected key and its boundary: here the new     *)
(* schedule has no occurrence there.                                         *)
GapIsEmpty ==
  \A s, t, u \in SeriesIds, n \in Notes :
    /\ series[s].boundary = 0 /\ series'[s].boundary # 0
    /\ series'[t].predecessor = s /\ note'[n].series = t
    /\ series[u].boundary # 0
    => KeyOf(n) < series'[s].boundary \/ KeyOf(n) >= series[u].boundary

(* Occurrences that can be seen or restored have different keys, whatever    *)
(* segments of the lineage they belong to.                                   *)
OneNotePerKey ==
  \A n, m \in Notes : Public(n) /\ Public(m) /\ KeyOf(n) = KeyOf(m) => n = m

(* A note that a step leaves in its series was public if it still is.        *)
LEMMA StaysPublic ==
  ASSUME SeriesInv, [Next]_vars, NEW n \in Notes, Public(n)', note'[n].series = note[n].series
  PROVE  Public(n)
<1>1. note[n] \in NoteRows /\ n[1] \in SeriesIds
  BY Parts, RowParts DEF SeriesInv
<1>2. ~Born(n)
  BY <1>1 DEF Born, NoNote, SeriesIds
<1>3. ~Erased(n)
  BY <1>1 DEF Erased, Purge, NoteRows, Public
<1>4. Still(n) => Public(n)
  BY DEF Still, Public, Standing
<1> QED
  BY <1>2, <1>3, <1>4, StepRows
     DEF RowStep, Edited, Thrown, Revived, Unmarked, Taken, Replaced, Visible

(* Before the first series there is no note.                                 *)
LEMMA CreationIsFirst ==
  ASSUME SeriesInv, ChainInv, NEW n \in Notes, ~series[1].there
  PROVE  note[n].series = 0
<1>1. note[n].series \in 0 .. MaxSeries
  BY Parts, RowParts DEF SeriesInv, NoteRows
<1>2. SUFFICES ASSUME note[n].series # 0 PROVE FALSE
  OBVIOUS
<1>3. 1 \in SeriesIds /\ note[n].series \in SeriesIds /\ note[n].series >= 1
  BY <1>1, <1>2, SeriesAssumption DEF SeriesIds
<1>4. series[note[n].series].there
  BY <1>2 DEF SeriesInv, NothingBeforeCreation
<1> QED
  BY <1>3, <1>4 DEF ChainInv, Gapless, SeriesIds

(* Every series of the lineage but its last is closed.                       *)
LEMMA OthersAreClosed ==
  ASSUME ChainInv, NEW s \in SeriesIds, NEW u \in SeriesIds,
         series[s].there, series[u].there, Leaf(s), u # s
  PROVE  series[u].boundary # 0
<1>1. s \in Nat /\ u \in Nat
  BY DEF SeriesIds
<1>2. \A t \in SeriesIds : series[t].there => (series[t].predecessor = t - 1)
  BY DEF ChainInv, ChainIsLinear
<1>3. \A v, t \in SeriesIds : v < t /\ series[t].there => series[v].there
  BY DEF ChainInv, Gapless
<1>4. ASSUME NEW v \in SeriesIds, NEW t \in SeriesIds, v < t, series[t].there
      PROVE  \E w \in SeriesIds : series[w].predecessor = v
  <2>1. v + 1 \in SeriesIds /\ v \in Nat
    BY <1>4, SeriesAssumption DEF SeriesIds
  <2>2. series[v + 1].there
    <3>1. v + 1 = t \/ v + 1 < t
      BY <1>4, SeriesAssumption DEF SeriesIds
    <3> QED
      BY <1>3, <1>4, <2>1, <3>1
  <2>3. series[v + 1].predecessor = v
    BY <1>2, <2>1, <2>2
  <2> QED
    BY <2>1, <2>3
<1>5. ~(s < u)
  BY <1>4 DEF Leaf
<1>6. u < s
  BY <1>1, <1>5
<1>7. \E w \in SeriesIds : series[w].predecessor = u
  BY <1>4, <1>6
<1> QED
  BY <1>7 DEF ChainInv, ChainIsLinear

(* What a split makes public has a key no other segment shows.               *)
LEMMA ArrivalIsAlone ==
  ASSUME SeriesInv, ChainInv, GapIsEmpty, NEW s \in SeriesIds, NEW k \in Keys,
         NEW generated \in Schedules, Split(s, k, generated), NEW t \in SeriesIds,
         SplitTo(s, k, t), NEW n \in Notes, NEW m \in Notes,
         Arrival(n, s, k, generated, t), note'[n].series = t,
         Public(m), note'[m].series = note[m].series, note[m].series # t, Public(m)',
         KeyOf(m) = KeyOf(n)
  PROVE  FALSE
<1> DEFINE u == note[m].series
<1>1. k \in Nat /\ k # 0 /\ KeyOf(n) \in Nat
  BY RowParts, SeriesAssumption DEF SeriesInv
<1>2. KeyOf(n) \in generated
  BY DEF Arrival, Kept
<1>3. KeyOf(n) >= k
  <2>1. ~(KeyOf(n) < k)
    BY <1>2 DEF Split, Collision, Public
  <2> QED
    BY <1>1, <2>1
<1>4. u \in SeriesIds /\ series[u].there
  <2>1. u \in 0 .. MaxSeries /\ u # 0
    BY Parts, RowParts DEF SeriesInv, NoteRows, Public, Standing
  <2> QED
    BY <2>1 DEF SeriesInv, NothingBeforeCreation, SeriesIds
<1>5. u # s
  BY <1>3 DEF SplitTo, Portion, NotesOf
<1>6. series[u].boundary # 0
  BY <1>4, <1>5, OthersAreClosed DEF SplitTo
<1>7. series[s].boundary = 0 /\ series'[s].boundary = k /\ series'[t].predecessor = s
  BY DEF SplitTo, Leaf
<1>8. KeyOf(n) < k \/ KeyOf(n) >= series[u].boundary
  BY <1>1, <1>4, <1>6, <1>7 DEF GapIsEmpty
<1>9. m \in Portion(u, series[u].boundary)
  BY <1>1, <1>3, <1>8 DEF Portion, NotesOf
<1> QED
  BY <1>4, <1>6, <1>9 DEF ChainInv, ChainIsLinear

LEMMA StepOneNote ==
  ASSUME SeriesInv, ChainInv, UniqueKeys', OneNotePerKey, GapIsEmpty, [Next]_vars
  PROVE  OneNotePerKey'
<1> SUFFICES ASSUME NEW n \in Notes, NEW m \in Notes, Public(n)', Public(m)',
                    KeyOf(n) = KeyOf(m)
             PROVE  n = m
  BY DEF OneNotePerKey
<1>1. note'[n].series = note'[m].series => n = m
  BY DEF UniqueKeys, Public, Standing
<1>2. note'[n].series = note[n].series /\ note'[m].series = note[m].series => n = m
  BY StaysPublic DEF OneNotePerKey
<1>3. CASE \E generated \in Schedules : CreateSeries(generated)
  <2>1. PICK generated \in Schedules : CreateSeries(generated)
    BY <1>3
  <2>2. ASSUME NEW o \in Notes, Public(o)'
        PROVE  note'[o].series = 1
    <3>1. note[o].series = 0
      BY <2>1, CreationIsFirst DEF CreateSeries
    <3>2. o \in {1} \X generated
      BY <2>1, <2>2, <3>1 DEF CreateSeries, Public, Standing
    <3>3. note'[o] = NewNote(1, KeyOf(o))
      BY <2>1, <3>2 DEF CreateSeries
    <3>4. NewNote(1, KeyOf(o)).series = 1
      BY DEF NewNote, Reconciled, NoNote
    <3> QED
      BY <3>3, <3>4
  <2> QED
    BY <1>1, <2>2
<1>4. CASE \E s \in SeriesIds, k \in Keys, generated \in Schedules : Split(s, k, generated)
  <2>1. PICK s \in SeriesIds, k \in Keys, generated \in Schedules : Split(s, k, generated)
    BY <1>4
  <2>2. PICK t \in SeriesIds :
          /\ \A u \in SeriesIds \ {t} : series'[u].there = series[u].there
          /\ \A o \in Notes : \/ Arrival(o, s, k, generated, t) /\ note'[o].series = t
                              \/ note'[o].series = note[o].series /\ note[o].series # t
    BY <2>1, Arrivals
  <2>3. SplitTo(s, k, t)
    <3>1. PICK v \in SeriesIds : SplitTo(s, k, v)
      BY <2>1, SplitWrites
    <3>2. v = t
      BY <2>2, <3>1 DEF SplitTo
    <3> QED
      BY <3>1, <3>2
  <2>4. ASSUME NEW o \in Notes, NEW p \in Notes, Public(o)', Public(p)', KeyOf(o) = KeyOf(p),
               Arrival(o, s, k, generated, t), note'[o].series = t,
               note'[p].series = note[p].series, note[p].series # t
        PROVE  FALSE
    <3>1. Public(p)
      BY <2>4, StaysPublic
    <3> QED
      BY <2>1, <2>3, <2>4, <3>1, ArrivalIsAlone
  <2> QED
    BY <1>1, <1>2, <2>2, <2>4
<1> QED
  BY <1>2, <1>3, <1>4, NoArrival

LEMMA InitOneNote == Init => OneNotePerKey
<1> SUFFICES ASSUME Init, NEW n \in Notes, NEW m \in Notes, Public(n), Public(m),
                    KeyOf(n) = KeyOf(m)
             PROVE  n = m
  BY DEF OneNotePerKey
<1>1. \A o \in Notes : Public(o) => o[1] = 1
  BY DEF Init, Empty, Migrated, NoNote, Public, Standing
<1> QED
  BY <1>1 DEF Notes, KeyOf

(* The collision query protects the preserved segments, whatever a split     *)
(* moves back, as long as no occurrence of the new schedule lies between the *)
(* selected key and the boundary of an earlier segment.  Run collision shows *)
(* that this hypothesis is needed; it is the only one.                       *)
THEOREM SplitsProtectOutsideTheGap ==
  Spec /\ [][GapIsEmpty]_vars => []OneNotePerKey /\ BackwardSplitProtects
<1>1. Spec => [](SeriesInv /\ ChainInv /\ UniqueKeys)
  BY ChainAlways, Invariant, KeysStayUnique, PTL
<1>2. SeriesInv /\ ChainInv /\ UniqueKeys' /\ OneNotePerKey /\ [Next]_vars /\ [GapIsEmpty]_vars
        => OneNotePerKey'
  <2>1. CASE UNCHANGED vars
    BY <2>1 DEF vars, OneNotePerKey, Public, Standing
  <2> QED
    BY <2>1, StepOneNote
<1>3. OneNotePerKey' =>
        [\A s \in SeriesIds :
           /\ series[s].boundary = 0 /\ series'[s].boundary # 0
           /\ \E n \in Notes : /\ note'[n].series # 0 /\ series'[note'[n].series].predecessor = s
                              /\ KeyOf(n) < series'[s].boundary
           => \A n, m \in Notes : Visible(n)' /\ Visible(m)' /\ KeyOf(n) = KeyOf(m) => n = m]_vars
  BY DEF OneNotePerKey, Visible
<1>4. Spec /\ [][GapIsEmpty]_vars => []OneNotePerKey
  BY <1>1, <1>2, InitOneNote, PTL DEF Spec
<1>5. []OneNotePerKey => BackwardSplitProtects
  BY <1>3, PTL DEF BackwardSplitProtects
<1> QED
  BY <1>4, <1>5
=============================================================================
