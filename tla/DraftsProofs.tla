----------------------------- MODULE DraftsProofs -----------------------------
(***************************************************************************)
(* A form that keeps the version it was filled from, as those of tags and  *)
(* notes do, overwrites nothing its author has not seen.                   *)
(***************************************************************************)
EXTENDS Drafts, TLAPS

(* What a tab has seen is not newer than the row, and what it will send not  *)
(* newer than what it has seen: so a version that still fits has been seen.  *)
QueryRows(v) ==
  [at: {"idle", "asked", "inserting", "answered"}, answer: 0 .. v, data: 0 .. v,
   failed: BOOLEAN]

FormRows(v) == {f \in [open: BOOLEAN, held: 0 .. v, seen: 0 .. v] : f.held <= f.seen}

SaveRows(v) ==
  {s \in [at: {"none", "sent", "saved", "refused"}, expected: 0 .. v, seen: 0 .. v,
          answer: 0 .. v, own: BOOLEAN] :
     /\ s.expected <= s.seen
     /\ s.at = "refused" => s.expected <= s.answer}

DraftsInv ==
  /\ row \in Nat
  /\ query \in [Tabs -> QueryRows(row)]
  /\ form \in [Tabs -> FormRows(row)]
  /\ save \in [Tabs -> SaveRows(row)]
  /\ \A t \in Tabs : save[t].own => form[t].held = save[t].expected

(* What is in order stays so when the row gets a version.                    *)
LEMMA LaterRows ==
  ASSUME NEW v \in Nat
  PROVE  /\ QueryRows(v) \subseteq QueryRows(v + 1)
         /\ FormRows(v) \subseteq FormRows(v + 1)
         /\ SaveRows(v) \subseteq SaveRows(v + 1)
<1>1. 0 .. v \subseteq 0 .. v + 1
  OBVIOUS
<1> QED
  BY <1>1 DEF QueryRows, FormRows, SaveRows

(* The steps of a query keep it in order.                                    *)
LEMMA QueryOps ==
  ASSUME NEW v \in Nat, NEW q \in QueryRows(v), NEW w \in 0 .. v
  PROVE  /\ Asked(q) \in QueryRows(v)
         /\ Answered(q, w) \in QueryRows(v)
         /\ Cached(q, w) \in QueryRows(v)
         /\ Rested(q) \in QueryRows(v)
         /\ [q EXCEPT !.at = "inserting"] \in QueryRows(v)
         /\ [q EXCEPT !.failed = TRUE] \in QueryRows(v)
         /\ q.answer \in 0 .. v /\ q.data \in 0 .. v
<1>1. 0 \in 0 .. v /\ w \in 0 .. v
  OBVIOUS
<1>2. Asked(q) \in QueryRows(v)
  BY <1>1, Zenon DEF QueryRows, Asked
<1>3. Answered(q, w) \in QueryRows(v)
  BY <1>1, Zenon DEF QueryRows, Answered
<1>4. Cached(q, w) \in QueryRows(v)
  BY <1>1, Zenon DEF QueryRows, Cached
<1>5. Rested(q) \in QueryRows(v)
  BY <1>1, Zenon DEF QueryRows, Rested
<1>6. [q EXCEPT !.at = "inserting"] \in QueryRows(v) /\ [q EXCEPT !.failed = TRUE] \in QueryRows(v)
  BY Zenon DEF QueryRows
<1>7. q.answer \in 0 .. v /\ q.data \in 0 .. v
  BY DEF QueryRows
<1> QED
  BY <1>2, <1>3, <1>4, <1>5, <1>6, <1>7, Zenon

(* Nothing has been seen at first.                                          *)
LEMMA InitOrdered == Init => DraftsInv
<1> SUFFICES ASSUME Init PROVE DraftsInv
  OBVIOUS
<1>1. row \in Nat
  BY DEF Init
<1>2. [at |-> "asked", answer |-> 0, data |-> 0, failed |-> FALSE] \in QueryRows(row)
  BY <1>1 DEF QueryRows
<1>3. NoForm \in FormRows(row)
  BY <1>1 DEF NoForm, FormRows
<1>4. NoSave \in SaveRows(row)
  BY <1>1 DEF NoSave, SaveRows
<1>5. ~NoSave.own
  BY DEF NoSave
<1> QED
  BY <1>1, <1>2, <1>3, <1>4, <1>5 DEF Init, DraftsInv

(* Every step keeps the order: the row only grows, a draft is filled from    *)
(* what is cached, and a conflict is about the version its form holds.       *)
LEMMA StepOrdered ==
  ASSUME Kind = "tag", DraftsInv, [Next]_vars
  PROVE  DraftsInv'
<1> USE DEF DraftsInv
<1>a. NoForm \in FormRows(row) /\ NoSave \in SaveRows(row)
  BY DEF NoForm, FormRows, NoSave, SaveRows
<1>q. ASSUME NEW t \in Tabs
      PROVE  query[t] \in QueryRows(row) /\ row \in Nat /\ 0 \in 0 .. row /\ row \in 0 .. row
  OBVIOUS
<1>o. ASSUME NEW t \in Tabs PROVE [save[t] EXCEPT !.own = FALSE] \in SaveRows(row)
  BY DEF SaveRows
<1>1. ASSUME NEW t \in Tabs, Ask(t) PROVE DraftsInv'
  <2>1. Asked(query[t]) \in QueryRows(row)
    BY <1>q, QueryOps, Zenon
  <2> QED
    BY <1>1, <2>1 DEF Ask
<1>2. ASSUME NEW t \in Tabs, Read(t) PROVE DraftsInv'
  <2>1. /\ Answered(query[t], row) \in QueryRows(row)
        /\ [query[t] EXCEPT !.at = "inserting"] \in QueryRows(row)
    BY <1>q, QueryOps, Zenon
  <2> QED
    BY <1>2, <2>1 DEF Read
<1>3. ASSUME NEW t \in Tabs, Insert(t) PROVE DraftsInv'
  <2>1. CASE row # 0
    <3>1. Asked(query[t]) \in QueryRows(row)
      BY <1>q, QueryOps, Zenon
    <3> QED
      BY <1>3, <2>1, <3>1 DEF Insert
  <2>2. CASE row = 0
    <3>1. /\ QueryRows(0) \subseteq QueryRows(1) /\ FormRows(0) \subseteq FormRows(1)
          /\ SaveRows(0) \subseteq SaveRows(1)
      BY LaterRows, 0 + 1 = 1
    <3>2. Answered(query[t], 1) \in QueryRows(1)
      BY <2>2, <3>1, QueryOps, 1 \in 0 .. 1
    <3> QED
      BY <1>3, <2>2, <3>1, <3>2 DEF Insert
  <2> QED
    BY <2>1, <2>2
<1>4. ASSUME NEW t \in Tabs, Land(t) PROVE DraftsInv'
  <2>1. query[t].answer \in 0 .. row
    BY <1>q, QueryOps, Zenon
  <2>2. Cached(query[t], query[t].answer) \in QueryRows(row)
    BY <1>q, <2>1, QueryOps, Zenon
  <2>3. Rested(Cached(query[t], query[t].answer)) \in QueryRows(row)
    BY <1>q, <2>2, QueryOps, Zenon
  <2> QED
    BY <1>4, <2>3 DEF Land
<1>5. ASSUME NEW t \in Tabs, QueryFails(t) PROVE DraftsInv'
  <2>1. Rested(query[t]) \in QueryRows(row)
    BY <1>q, QueryOps, Zenon
  <2>2. [Rested(query[t]) EXCEPT !.failed = TRUE] \in QueryRows(row)
    BY <1>q, <2>1, QueryOps, Zenon
  <2> QED
    BY <1>5, <2>2 DEF QueryFails
<1>6. ASSUME NEW t \in Tabs, Fill(t) PROVE DraftsInv'
  <2>1. query[t].data \in 0 .. row
    BY <1>q, QueryOps, Zenon
  <2>2. [open |-> TRUE, held |-> query[t].data, seen |-> query[t].data] \in FormRows(row)
    BY <2>1 DEF FormRows
  <2> QED
    BY <1>6, <2>2, <1>o DEF Fill, Orphaned
<1>7. ASSUME NEW t \in Tabs, Leave(t) PROVE DraftsInv'
  BY <1>7, <1>a, <1>o DEF Leave, Orphaned
<1>8. ASSUME NEW t \in Tabs, Submit(t) PROVE DraftsInv'
  <2>1. /\ form[t].held \in 0 .. row /\ form[t].seen \in 0 .. row
        /\ form[t].held <= form[t].seen
    BY DEF FormRows
  <2>2. [at |-> "sent", expected |-> form[t].held, seen |-> form[t].seen, answer |-> 0,
         own |-> TRUE] \in SaveRows(row)
    BY <2>1 DEF SaveRows
  <2> QED
    BY <1>8, <2>2 DEF Submit, Expected
<1>9. ASSUME NEW t \in Tabs, Patch(t) PROVE DraftsInv'
  <2>1. CASE row = save[t].expected
    <3>1. row' = row + 1 /\ row + 1 \in Nat
      BY <1>9, <2>1 DEF Patch
    <3>2. /\ QueryRows(row) \subseteq QueryRows(row + 1)
          /\ FormRows(row) \subseteq FormRows(row + 1)
          /\ SaveRows(row) \subseteq SaveRows(row + 1)
      BY LaterRows
    <3>3. save[t] \in SaveRows(row + 1) /\ row + 1 \in 0 .. row + 1
      BY <3>2
    <3>4. [save[t] EXCEPT !.at = "saved", !.answer = row + 1] \in SaveRows(row + 1)
      BY <3>3 DEF SaveRows
    <3>5. save' = [save EXCEPT ![t] = [save[t] EXCEPT !.at = "saved", !.answer = row + 1]]
      BY <1>9, <2>1 DEF Patch
    <3>6. save' \in [Tabs -> SaveRows(row + 1)]
      BY <3>2, <3>4, <3>5
    <3>7. query' \in [Tabs -> QueryRows(row + 1)] /\ form' \in [Tabs -> FormRows(row + 1)]
      BY <1>9, <3>2 DEF Patch
    <3>8. ASSUME NEW u \in Tabs
          PROVE  save'[u].own = save[u].own /\ save'[u].expected = save[u].expected
      BY <3>5 DEF SaveRows
    <3>9. form' = form
      BY <1>9 DEF Patch
    <3> QED
      BY <3>1, <3>6, <3>7, <3>8, <3>9
  <2>2. CASE row # save[t].expected
    <3>1. row \in 0 .. row /\ save[t].expected <= row
      BY DEF SaveRows
    <3>2. [save[t] EXCEPT !.at = "refused", !.answer = row] \in SaveRows(row)
      BY <3>1 DEF SaveRows
    <3>3. /\ save' = [save EXCEPT ![t] = [save[t] EXCEPT !.at = "refused", !.answer = row]]
          /\ UNCHANGED <<row, query, form>>
      BY <1>9, <2>2 DEF Patch
    <3>4. ASSUME NEW u \in Tabs
          PROVE  save'[u].own = save[u].own /\ save'[u].expected = save[u].expected
      BY <3>3 DEF SaveRows
    <3> QED
      BY <3>2, <3>3, <3>4
  <2> QED
    BY <2>1, <2>2
<1>10. ASSUME NEW t \in Tabs, Reply(t) PROVE DraftsInv'
  <2>1. save[t].answer \in 0 .. row
    BY DEF SaveRows
  <2>2. CASE save[t].at = "refused"
    <3>1. save[t].own => form[t].held <= save[t].answer
      BY <2>2 DEF SaveRows
    <3>2. save[t].own => Told(form[t], save[t].answer) \in FormRows(row)
      BY <2>1, <3>1 DEF FormRows, Told
    <3>3. form' \in [Tabs -> FormRows(row)]
      BY <1>10, <2>2, <3>2 DEF Reply
    <3>4. save' = [save EXCEPT ![t] = NoSave] /\ ~NoSave.own
      BY <1>10 DEF Reply, NoSave
    <3>5. ASSUME NEW u \in Tabs, save'[u].own PROVE form'[u].held = save'[u].expected
      <4>1. u # t /\ save'[u] = save[u]
        BY <3>4, <3>5
      <4>2. form'[u] = form[u]
        BY <1>10, <2>2, <4>1 DEF Reply
      <4> QED
        BY <3>5, <4>1, <4>2
    <3> QED
      BY <1>10, <2>2, <1>a, <3>3, <3>4, <3>5 DEF Reply
  <2>3. CASE save[t].at # "refused"
    <3>1. Asked(query[t]) \in QueryRows(row)
      BY <1>q, QueryOps, Zenon
    <3>2. ~NoSave.own
      BY DEF NoSave
    <3> QED
      BY <1>10, <2>3, <3>1, <3>2, <1>a DEF Reply
  <2> QED
    BY <2>2, <2>3
<1>11. ASSUME NEW t \in Tabs, Lost(t) PROVE DraftsInv'
  <2>1. ~NoSave.own
    BY DEF NoSave
  <2> QED
    BY <1>11, <1>a, <2>1 DEF Lost
<1>12. CASE UNCHANGED vars
  BY <1>12 DEF vars
<1> QED
  BY <1>1, <1>2, <1>3, <1>4, <1>5, <1>6, <1>7, <1>8, <1>9, <1>10, <1>11, <1>12 DEF Next

(* A tag is saved over the version its author has seen, or over the author's *)
(* own save, for any number of tabs, refetches and conflicts (TagsScreen,    *)
(* update_tag): editing.version stays with the draft.                        *)
THEOREM TagDraftsAreSafe == ASSUME Kind = "tag" PROVE Spec => NoSilentOverwrite
<1>1. DraftsInv /\ [Next]_vars =>
        [\A t \in Tabs : row # 0 /\ row' # row /\ author' = t
                           => save[t].seen = row \/ author = t]_vars
  <2> SUFFICES ASSUME DraftsInv, Next, NEW t \in Tabs,
                      row # 0, row' # row, author' = t
               PROVE  save[t].seen = row \/ author = t
    OBVIOUS
  <2>1. PICK u \in Tabs : Insert(u) \/ Patch(u)
    BY DEF Next, Ask, Read, Land, QueryFails, Fill, Leave, Submit, Reply, Lost
  <2>2. ~Insert(u)
    BY DEF Insert
  <2>3. author' = u /\ row = save[u].expected
    BY <2>1, <2>2 DEF Patch
  <2> QED
    BY <2>3 DEF DraftsInv, SaveRows
<1>2. DraftsInv /\ [Next]_vars => DraftsInv'
  BY StepOrdered
<1> QED
  BY <1>1, <1>2, InitOrdered, PTL DEF Spec, NoSilentOverwrite
=============================================================================
