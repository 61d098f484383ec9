------------------------------ MODULE LocksProofs ------------------------------
(***************************************************************************)
(* Which requests can wait for each other, for any number of sessions,     *)
(* tags and notes.                                                         *)
(***************************************************************************)
EXTENDS Locks, SequenceTheorems, FiniteSetTheorems, WellFoundedInduction, TLAPS

Lockable ==
  [row : {Tag(t) : t \in Tags} \cup {Series} \cup {Note(n) : n \in Notes},
   mode : {"update", "key_share"}]

(* The place of a row in the order tags, series, notes by number.            *)
Height(row) ==
  CASE row[1] = "tag"    -> 0
    [] row[1] = "series" -> 1
    [] row[1] = "note"   -> 2 + row[2]

(* The requests that take a lock of this kind.                               *)
Uses(op, l) ==
  IF l.mode = "key_share" THEN l.row[1] = "tag" /\ op \in {"edit", "split", "create"}
  ELSE IF l.row[1] = "tag" THEN op \in {"delete_tag", "update_tag"}
  ELSE op \in {"edit", "mark", "split", "portion", "delete_tag"}

(* A request may ask for b while it holds a: rows are locked for update in   *)
(* the order of their heights, tags of associations come last.               *)
Follows(a, b) ==
  \/ b.mode = "key_share"
  \/ a.mode = "update" /\ b.row[1] # "tag" /\ Height(a.row) <= Height(b.row)

Chained(op, list) ==
  \A i \in 1 .. Len(list) :
    /\ Uses(op, list[i])
    /\ \A j \in 1 .. Len(list) : i < j => Follows(list[i], list[j])

(* A tag's deletion is at the height of its stage.                           *)
AtStage(x) ==
  x.request.op = "delete_tag" =>
    /\ x.stage = 1 => /\ \A l \in x.held : Height(l.row) = 0
                      /\ \A i \in 1 .. Len(x.todo) : Height(x.todo[i].row) = 0
    /\ x.stage = 2 => /\ \A l \in x.held : Height(l.row) <= 1
                      /\ \A i \in 1 .. Len(x.todo) : Height(x.todo[i].row) <= 1

Orderly(x) ==
  /\ \A l \in x.held : /\ Uses(x.request.op, l)
                       /\ \A i \in 1 .. Len(x.todo) : Follows(l, x.todo[i])
  /\ Chained(x.request.op, x.todo)
  /\ AtStage(x)

Xacts == [request : Requests \cup {[op |-> "none"]}, stage : Nat,
          todo : Seq(Lockable), held : SUBSET Lockable]

Exclusive ==
  \A s, q \in Sessions : s # q =>
    \A a \in xact[s].held, b \in xact[q].held : ~Conflict(a, b)

LocksInv ==
  /\ xact \in [Sessions -> Xacts]
  /\ \A s \in Sessions : Orderly(xact[s])
  /\ Exclusive

(* Tags and notes are rows of a database: finitely many, numbered notes.     *)
Database ==
  /\ IsFiniteSet(Tags)
  /\ \E last \in Nat : Notes \subseteq 0 .. last
  /\ Recurring \subseteq Notes

-----------------------------------------------------------------------------
(* Rows and lists of locks *)

LEMMA Rows ==
  /\ \A t \in Tags : /\ ForUpdate(Tag(t)) \in Lockable /\ ForKeyShare(Tag(t)) \in Lockable
                     /\ Height(Tag(t)) = 0 /\ Tag(t)[1] = "tag"
  /\ ForUpdate(Series) \in Lockable /\ Height(Series) = 1 /\ Series[1] = "series"
  /\ \A n \in Notes : /\ ForUpdate(Note(n)) \in Lockable
                      /\ Height(Note(n)) = 2 + n /\ Note(n)[1] = "note"
<1>1. ASSUME NEW t \in Tags
      PROVE  /\ ForUpdate(Tag(t)) \in Lockable /\ ForKeyShare(Tag(t)) \in Lockable
             /\ Height(Tag(t)) = 0 /\ Tag(t)[1] = "tag"
  BY DEF ForUpdate, ForKeyShare, Lockable, Height, Tag
<1>2. ForUpdate(Series) \in Lockable /\ Height(Series) = 1 /\ Series[1] = "series"
  BY DEF ForUpdate, Lockable, Height, Series
<1>3. ASSUME NEW n \in Notes
      PROVE  ForUpdate(Note(n)) \in Lockable /\ Height(Note(n)) = 2 + n /\ Note(n)[1] = "note"
  BY DEF ForUpdate, Lockable, Height, Note
<1> QED
  BY <1>1, <1>2, <1>3

(* A row that can be locked is a tag, the series or a note, and rows of one  *)
(* height that are no tags are one row.                                      *)
LEMMA Heights ==
  ASSUME Notes \subseteq Nat, NEW a \in Lockable
  PROVE  /\ a.mode \in {"update", "key_share"}
         /\ Height(a.row) \in Nat
         /\ Height(a.row) = 0 <=> a.row[1] = "tag"
         /\ \A b \in Lockable : Height(a.row) = Height(b.row) /\ Height(a.row) # 0 => a.row = b.row
<1> DEFINE Described(l) ==
      \/ \E t \in Tags : l.row = Tag(t) /\ l.row[1] = "tag" /\ Height(l.row) = 0
      \/ l.row = Series /\ l.row[1] = "series" /\ Height(l.row) = 1
      \/ \E n \in Notes : l.row = Note(n) /\ l.row[1] = "note" /\ Height(l.row) = 2 + n
<1>1. ASSUME NEW l \in Lockable
      PROVE  Described(l) /\ l.mode \in {"update", "key_share"}
  <2>1. /\ l.mode \in {"update", "key_share"}
        /\ \/ \E t \in Tags : l.row = Tag(t)
           \/ l.row = Series
           \/ \E n \in Notes : l.row = Note(n)
    BY DEF Lockable
  <2> QED
    BY <2>1, Rows
<1>2. Described(a)
  BY <1>1
<1>3. ASSUME NEW b \in Lockable, Height(a.row) = Height(b.row), Height(a.row) # 0
      PROVE  a.row = b.row
  <2>1. Described(b)
    BY <1>1
  <2> QED
    BY <1>2, <1>3, <2>1
<1> QED
  BY <1>1, <1>2, <1>3

LEMMA ChainsJoin ==
  ASSUME NEW op, NEW a \in Seq(Lockable), NEW b \in Seq(Lockable),
         Chained(op, a), Chained(op, b),
         \A i \in 1 .. Len(a), j \in 1 .. Len(b) : Follows(a[i], b[j])
  PROVE  a \o b \in Seq(Lockable) /\ Chained(op, a \o b)
<1>1. /\ a \o b \in Seq(Lockable) /\ Len(a \o b) = Len(a) + Len(b)
      /\ Len(a) \in Nat /\ Len(b) \in Nat
      /\ \A i \in 1 .. Len(a) : (a \o b)[i] = a[i]
      /\ \A i \in Len(a) + 1 .. Len(a) + Len(b) : (a \o b)[i] = b[i - Len(a)]
  BY ConcatProperties
<1> DEFINE c == a \o b
<1>2. \A i \in 1 .. Len(c) : \/ i \in 1 .. Len(a) /\ c[i] = a[i]
                             \/ i - Len(a) \in 1 .. Len(b) /\ c[i] = b[i - Len(a)]
  BY <1>1
<1>3. Len(c) \in Nat
  BY <1>1
<1> HIDE DEF c
<1>4. Chained(op, c)
  <2> SUFFICES ASSUME NEW i \in 1 .. Len(c)
               PROVE  /\ Uses(op, c[i])
                      /\ \A j \in 1 .. Len(c) : i < j => Follows(c[i], c[j])
    BY DEF Chained
  <2>1. Uses(op, c[i])
    BY <1>2 DEF Chained
  <2>2. ASSUME NEW j \in 1 .. Len(c), i < j
        PROVE  Follows(c[i], c[j])
    <3>1. CASE i \in 1 .. Len(a) /\ c[i] = a[i] /\ j \in 1 .. Len(a) /\ c[j] = a[j]
      BY <2>2, <3>1 DEF Chained
    <3>2. CASE i \in 1 .. Len(a) /\ c[i] = a[i] /\ j - Len(a) \in 1 .. Len(b) /\ c[j] = b[j - Len(a)]
      BY <3>2
    <3>3. CASE /\ i - Len(a) \in 1 .. Len(b) /\ c[i] = b[i - Len(a)]
               /\ j - Len(a) \in 1 .. Len(b) /\ c[j] = b[j - Len(a)]
      <4>1. i - Len(a) < j - Len(a)
        BY <1>1, <1>3, <2>2
      <4> QED
        BY <3>3, <4>1 DEF Chained
    <3>4. ~(i - Len(a) \in 1 .. Len(b) /\ j \in 1 .. Len(a))
      BY <1>1, <1>3, <2>2
    <3> QED
      BY <1>2, <3>1, <3>2, <3>3, <3>4
  <2> QED
    BY <2>1, <2>2
<1> QED
  BY <1>1, <1>4 DEF c

(* Notes locked in the order of their numbers.                               *)
LEMMA NotesAreChained ==
  ASSUME Database, NEW ids \in SUBSET Notes, NEW order \in Ascending(ids),
         NEW op \in {"edit", "mark", "split", "portion", "delete_tag"}
  PROVE  /\ NotesForUpdate(order) \in Seq(Lockable)
         /\ Chained(op, NotesForUpdate(order))
         /\ \A i \in 1 .. Len(NotesForUpdate(order)) :
              \E n \in ids : NotesForUpdate(order)[i] = ForUpdate(Note(n))
<1>1. Notes \subseteq Nat /\ IsFiniteSet(ids)
  <2>1. PICK last \in Nat : Notes \subseteq 0 .. last
    BY DEF Database
  <2>2. 0 \in Int /\ last \in Int /\ ids \in SUBSET (0 .. last)
    BY <2>1
  <2>3. IsFiniteSet(0 .. last)
    BY <2>2, FS_Interval
  <2>4. IsFiniteSet(ids)
    BY <2>2, <2>3, FS_Subset
  <2>5. Notes \subseteq Nat
    BY <2>1
  <2> QED
    BY <2>4, <2>5
<1>2. Cardinality(ids) \in Nat
  BY <1>1, FS_CardinalityType
<1>3. /\ order \in [1 .. Cardinality(ids) -> ids]
      /\ \A i, j \in 1 .. Len(order) : i < j => order[i] < order[j]
  BY DEF Ascending, SetToSeqs
<1>4. Len(order) = Cardinality(ids)
  BY <1>2, <1>3
<1> DEFINE list == NotesForUpdate(order)
<1>5. /\ list = [i \in 1 .. Len(order) |-> ForUpdate(Note(order[i]))]
      /\ \A i \in 1 .. Len(order) : order[i] \in ids /\ ForUpdate(Note(order[i])) \in Lockable
  BY <1>3, <1>4, Rows DEF NotesForUpdate
<1>6. list \in Seq(Lockable) /\ Len(list) = Len(order) /\ Len(order) \in Nat
  BY <1>2, <1>4, <1>5
<1>7. \A n \in Notes : Uses(op, ForUpdate(Note(n)))
  BY Rows DEF Uses, ForUpdate
<1>8. ASSUME NEW m \in Notes, NEW n \in Notes, m < n
      PROVE  Follows(ForUpdate(Note(m)), ForUpdate(Note(n)))
  <2>1. 2 + m <= 2 + n
    BY <1>1, <1>8
  <2>2. Height(Note(m)) <= Height(Note(n)) /\ Note(n)[1] # "tag"
    BY <2>1, Rows
  <2> QED
    BY <2>2 DEF Follows, ForUpdate
<1>9. Chained(op, list)
  BY <1>3, <1>5, <1>6, <1>7, <1>8 DEF Chained
<1> QED
  BY <1>5, <1>6, <1>9

(* The tags of associations, in any order.                                   *)
LEMMA TagsAreChained ==
  ASSUME Database, NEW names \in SUBSET Tags, NEW order \in SetToSeqs(names),
         NEW op \in {"edit", "split", "create"}
  PROVE  /\ TagsInOrder(order) \in Seq(Lockable)
         /\ Chained(op, TagsInOrder(order))
         /\ \A i \in 1 .. Len(TagsInOrder(order)) : TagsInOrder(order)[i].mode = "key_share"
<1>1. Cardinality(names) \in Nat
  BY FS_Subset, FS_CardinalityType DEF Database
<1>2. order \in [1 .. Cardinality(names) -> names]
  BY DEF SetToSeqs
<1>3. Len(order) = Cardinality(names)
  BY <1>1, <1>2
<1> DEFINE list == TagsInOrder(order)
<1>4. /\ list = [i \in 1 .. Len(order) |-> ForKeyShare(Tag(order[i]))]
      /\ \A i \in 1 .. Len(order) : order[i] \in Tags /\ ForKeyShare(Tag(order[i])) \in Lockable
  BY <1>2, <1>3, Rows DEF TagsInOrder
<1>5. list \in Seq(Lockable) /\ Len(list) = Len(order) /\ Len(order) \in Nat
  BY <1>1, <1>3, <1>4
<1>6. \A t \in Tags : Uses(op, ForKeyShare(Tag(t))) /\ ForKeyShare(Tag(t)).mode = "key_share"
  BY Rows DEF Uses, ForKeyShare
<1>7. \A i \in 1 .. Len(list) : Uses(op, list[i]) /\ list[i].mode = "key_share"
  BY <1>4, <1>5, <1>6
<1> QED
  BY <1>5, <1>7 DEF Chained, Follows

-----------------------------------------------------------------------------
(* The lists of the handlers *)

LEMMA ShortChains ==
  ASSUME NEW op, NEW a \in Lockable, Uses(op, a), NEW b \in Lockable, Uses(op, b)
  PROVE  /\ <<>> \in Seq(Lockable) /\ Chained(op, <<>>)
         /\ <<a>> \in Seq(Lockable) /\ Chained(op, <<a>>)
         /\ <<a, b>> \in Seq(Lockable) /\ <<a>> \o <<b>> = <<a, b>> /\ <<>> \o <<b>> = <<b>>
         /\ Follows(a, b) => Chained(op, <<a, b>>)
<1>1. <<>> \in Seq(Lockable) /\ Chained(op, <<>>)
  BY DEF Chained
<1>2. <<a>> \in Seq(Lockable) /\ Chained(op, <<a>>)
  BY DEF Chained
<1>3. <<a, b>> \in Seq(Lockable) /\ <<a>> \o <<b>> = <<a, b>> /\ <<>> \o <<b>> = <<b>>
  <2>1. /\ <<a>> \in Seq(Lockable) /\ <<b>> \in Seq(Lockable) /\ <<a, b>> \in Seq(Lockable)
        /\ Len(<<a>>) = 1 /\ Len(<<b>>) = 1 /\ Len(<<a, b>>) = 2
        /\ <<a>>[1] = a /\ <<b>>[1] = b /\ <<a, b>>[1] = a /\ <<a, b>>[2] = b
    OBVIOUS
  <2>2. /\ <<a>> \o <<b>> \in Seq(Lockable) /\ Len(<<a>> \o <<b>>) = 2
        /\ (<<a>> \o <<b>>)[1] = a /\ (<<a>> \o <<b>>)[2] = b
    BY <2>1, ConcatProperties
  <2>3. <<a>> \o <<b>> = <<a, b>>
    <3>1. \A i \in 1 .. 2 : (<<a>> \o <<b>>)[i] = <<a, b>>[i]
      BY <2>1, <2>2
    <3> QED
      BY <2>1, <2>2, <3>1, SeqEqual
  <2> QED
    BY <2>1, <2>3, ConcatEmptySeq
<1>4. ASSUME Follows(a, b) PROVE Chained(op, <<a, b>>)
  BY <1>4 DEF Chained
<1> QED
  BY <1>1, <1>2, <1>3, <1>4

(* What a request locks before its list of notes.                            *)
LEMMA HeadingIsChained ==
  ASSUME Database, NEW r \in Requests
  PROVE  /\ Heading(r) \in Seq(Lockable) /\ Chained(r.op, Heading(r))
         /\ r.op = "delete_tag" => \A i \in 1 .. Len(Heading(r)) : Height(Heading(r)[i].row) = 0
         /\ r.op \in {"split", "portion"} =>
              \A i \in 1 .. Len(Heading(r)) : /\ Heading(r)[i].mode = "update"
                                              /\ Height(Heading(r)[i].row) <= 2 + r.note
<1>1. Notes \subseteq Nat /\ Recurring \subseteq Notes
  BY DEF Database
<1> DEFINE S == ForUpdate(Series)
           N(n) == ForUpdate(Note(n))
           T(t) == ForUpdate(Tag(t))
<1>2. /\ S \in Lockable /\ S.mode = "update" /\ Height(S.row) = 1
      /\ \A op \in {"edit", "mark", "split", "portion"} : Uses(op, S)
  BY Rows DEF Uses, ForUpdate
<1>3. ASSUME NEW n \in Notes
      PROVE  /\ N(n) \in Lockable /\ N(n).mode = "update" /\ Height(N(n).row) = 2 + n
             /\ \A op \in {"edit", "mark", "split", "portion"} : Uses(op, N(n))
             /\ Follows(S, N(n))
  <2>1. /\ N(n) \in Lockable /\ N(n).mode = "update" /\ Height(N(n).row) = 2 + n
        /\ N(n).row[1] = "note"
    BY Rows DEF ForUpdate
  <2>2. \A op \in {"edit", "mark", "split", "portion"} : Uses(op, N(n))
    BY <2>1 DEF Uses
  <2>3. Follows(S, N(n))
    BY <1>1, <1>2, <2>1 DEF Follows
  <2> QED
    BY <2>1, <2>2, <2>3
<1>4. ASSUME NEW t \in Tags
      PROVE  /\ T(t) \in Lockable /\ Height(T(t).row) = 0
             /\ \A op \in {"delete_tag", "update_tag"} : Uses(op, T(t))
  BY Rows DEF Uses, ForUpdate
<1> HIDE DEF S, N, T
<1>5. CASE r.op \in {"edit", "mark"}
  <2>1. r.note \in Notes
    BY <1>5 DEF Requests
  <2>2. Heading(r) = SeriesOf(r.note) \o <<N(r.note)>>
    BY <1>5 DEF Heading, N
  <2>3. CASE r.note \in Recurring
    <3>1. SeriesOf(r.note) = <<S>>
      BY <2>3 DEF SeriesOf, S
    <3>2. /\ S \in Lockable /\ N(r.note) \in Lockable /\ Follows(S, N(r.note))
          /\ Uses(r.op, S) /\ Uses(r.op, N(r.note))
      BY <1>2, <1>3, <1>5, <2>1
    <3>3. Heading(r) = <<S, N(r.note)>>
      BY <2>2, <3>1, <3>2, ShortChains
    <3>4. Heading(r) \in Seq(Lockable) /\ Chained(r.op, Heading(r))
      BY <3>2, <3>3, ShortChains
    <3> QED
      BY <1>5, <3>4
  <2>4. CASE r.note \notin Recurring
    <3>1. SeriesOf(r.note) = <<>>
      BY <2>4 DEF SeriesOf
    <3>2. N(r.note) \in Lockable /\ Uses(r.op, N(r.note))
      BY <1>3, <1>5, <2>1
    <3>3. Heading(r) = <<N(r.note)>>
      BY <2>2, <3>1, <3>2, ShortChains
    <3>4. Heading(r) \in Seq(Lockable) /\ Chained(r.op, Heading(r))
      BY <3>2, <3>3, ShortChains
    <3> QED
      BY <1>5, <3>4
  <2> QED
    BY <2>3, <2>4
<1>6. CASE r.op \in {"split", "portion"}
  <2>1. r.note \in Notes /\ r.note \in Nat
    BY <1>1, <1>6 DEF Requests
  <2>2. Heading(r) = IF r.op = "split" THEN <<S, N(r.note)>> ELSE <<S>>
    BY <1>6 DEF Heading, S, N
  <2>3. Heading(r) \in Seq(Lockable) /\ Chained(r.op, Heading(r))
    BY <1>2, <1>3, <1>6, <2>1, <2>2, ShortChains
  <2>4. \A i \in 1 .. Len(Heading(r)) : Heading(r)[i] \in {S, N(r.note)}
    BY <2>2
  <2>5. \A i \in 1 .. Len(Heading(r)) : /\ Heading(r)[i].mode = "update"
                                        /\ Height(Heading(r)[i].row) <= 2 + r.note
    BY <1>2, <1>3, <2>1, <2>4
  <2> QED
    BY <1>6, <2>3, <2>5
<1>7. CASE r.op = "create"
  <2>1. Heading(r) = <<>>
    BY <1>7 DEF Heading
  <2> QED
    BY <1>7, <2>1 DEF Chained
<1>8. CASE r.op \in {"delete_tag", "update_tag"}
  <2>1. r.tag \in Tags
    BY <1>8 DEF Requests
  <2>2. Heading(r) = <<T(r.tag)>>
    BY <1>8 DEF Heading, T
  <2>3. Heading(r) \in Seq(Lockable) /\ Chained(r.op, Heading(r))
    BY <1>4, <1>8, <2>1, <2>2, ShortChains
  <2>4. \A i \in 1 .. Len(Heading(r)) : Heading(r)[i] = T(r.tag)
    BY <2>2
  <2> QED
    BY <1>4, <1>8, <2>1, <2>3, <2>4
<1> QED
  BY <1>5, <1>6, <1>7, <1>8 DEF Requests

(* The first statements of a request.                                        *)
LEMMA FirstIsOrderly ==
  ASSUME Database, NEW r \in Requests, NEW locks \in FirstLocks(r)
  PROVE  /\ locks \in Seq(Lockable)
         /\ Chained(r.op, locks)
         /\ r.op = "delete_tag" => \A i \in 1 .. Len(locks) : Height(locks[i].row) = 0
<1>1. PICK order \in Ascending(Listed(r)) : locks = Heading(r) \o NotesForUpdate(order)
  BY DEF FirstLocks
<1> DEFINE rest == NotesForUpdate(order)
<1>2. Notes \subseteq Nat /\ Recurring \subseteq Notes
  BY DEF Database
<1>3. CASE r.op \in {"split", "portion"}
  <2>1. r.note \in Nat /\ Listed(r) = FromNote(r.note)
    BY <1>2, <1>3 DEF Requests, Listed
  <2>2. Listed(r) \in SUBSET Notes /\ \A n \in Listed(r) : n \in Nat /\ r.note <= n
    BY <1>2, <2>1 DEF FromNote
  <2>3. /\ rest \in Seq(Lockable) /\ Chained(r.op, rest)
        /\ \A i \in 1 .. Len(rest) : \E n \in Listed(r) : rest[i] = ForUpdate(Note(n))
    BY <1>3, <2>2, NotesAreChained
  <2> HIDE DEF rest
  <2>4. ASSUME NEW i \in 1 .. Len(Heading(r)), NEW j \in 1 .. Len(rest)
        PROVE  Follows(Heading(r)[i], rest[j])
    <3>1. PICK n \in Listed(r) : rest[j] = ForUpdate(Note(n))
      BY <2>3
    <3>2. rest[j].row[1] = "note" /\ Height(rest[j].row) = 2 + n /\ n \in Nat /\ r.note <= n
      BY <2>2, <3>1, Rows DEF ForUpdate
    <3>3. Heading(r)[i].mode = "update" /\ Height(Heading(r)[i].row) <= 2 + r.note
      BY <1>3, HeadingIsChained
    <3>4. Height(Heading(r)[i].row) \in Nat
      BY <1>2, HeadingIsChained, Heights
    <3> QED
      BY <2>1, <3>2, <3>3, <3>4 DEF Follows
  <2>5. locks \in Seq(Lockable) /\ Chained(r.op, locks)
    BY <1>1, <2>3, <2>4, HeadingIsChained, ChainsJoin DEF rest
  <2> QED
    BY <1>3, <2>5
<1>4. CASE r.op \notin {"split", "portion"}
  <2>1. Listed(r) = {}
    BY <1>4 DEF Listed
  <2>2. rest \in Seq(Lockable) /\ \A i \in 1 .. Len(rest) : FALSE
    BY <1>1, <2>1, NotesAreChained
  <2>3. rest = <<>>
    <3>1. Len(rest) = 0
      BY <2>2
    <3> QED
      BY <2>2, <3>1, EmptySeq
  <2>4. locks = Heading(r)
    BY <1>1, <2>3, HeadingIsChained, ConcatEmptySeq
  <2> QED
    BY <2>4, HeadingIsChained
<1> QED
  BY <1>3, <1>4

(* The statements that follow: the series and the notes of a deleted tag, by *)
(* stage, or the associations of a note.                                     *)
LEMMA LaterIsOrderly ==
  ASSUME Database, NEW x \in Xacts, Orderly(x), x.todo = <<>>,
         x.stage \in 1 .. 3, x.stage < LastStage(x.request),
         NEW locks \in LaterLocks(x.request, x.stage)
  PROVE  /\ locks \in Seq(Lockable)
         /\ Orderly([x EXCEPT !.stage = @ + 1, !.todo = locks])
<1> DEFINE r == x.request
           y == [x EXCEPT !.stage = @ + 1, !.todo = locks]
<1>1. /\ r \in Requests \cup {[op |-> "none"]} /\ x.held \subseteq Lockable /\ x.stage \in Nat
      /\ y.request = r /\ y.stage = x.stage + 1 /\ y.todo = locks /\ y.held = x.held
  BY DEF Xacts
<1>2. Notes \subseteq Nat
  BY DEF Database
<1> HIDE DEF y
<1>3. \A l \in x.held : Uses(r.op, l)
  BY DEF Orderly
<1>4. CASE r.op = "delete_tag"
  <2>1. r.tag \in Tags
    BY <1>1, <1>4 DEF Requests
  <2>2. x.stage \in {1, 2}
    BY <1>4 DEF LastStage
  <2>3. /\ \A l \in x.held : l.mode = "update"
        /\ x.stage = 1 => \A l \in x.held : Height(l.row) = 0
        /\ x.stage = 2 => \A l \in x.held : Height(l.row) <= 1
    BY <1>1, <1>2, <1>3, <1>4, Heights DEF Uses, Orderly, AtStage
  <2>4. CASE x.stage = 1
    <3> DEFINE S == ForUpdate(Series)
    <3>1. S \in Lockable /\ S.mode = "update" /\ Height(S.row) = 1 /\ S.row[1] = "series"
      BY Rows DEF ForUpdate
    <3>2. Uses("delete_tag", S)
      BY <3>1 DEF Uses
    <3>3. locks = <<S>> \/ locks = <<>>
      BY <1>4, <2>4 DEF LaterLocks
    <3> HIDE DEF S
    <3>4. locks \in Seq(Lockable) /\ Chained("delete_tag", locks)
      BY <3>1, <3>2, <3>3, ShortChains
    <3>5. \A i \in 1 .. Len(locks) : locks[i] = S
      BY <3>3
    <3>6. \A l \in x.held : Follows(l, S)
      BY <2>3, <2>4, <3>1 DEF Follows
    <3>7. AtStage(y)
      BY <1>1, <2>3, <2>4, <3>1, <3>5 DEF AtStage
    <3> QED
      BY <1>1, <1>3, <1>4, <3>4, <3>5, <3>6, <3>7 DEF Orderly, y
  <2>5. CASE x.stage = 2
    <3> DEFINE ids == {n \in Notes : <<n, r.tag>> \in noteTags}
    <3>1. PICK order \in Ascending(ids) : locks = NotesForUpdate(order)
      BY <1>4, <2>5 DEF LaterLocks
    <3> HIDE DEF ids
    <3>2. ids \in SUBSET Notes
      BY DEF ids
    <3>3. /\ locks \in Seq(Lockable) /\ Chained("delete_tag", locks)
          /\ \A i \in 1 .. Len(locks) : \E n \in Notes : locks[i] = ForUpdate(Note(n))
      BY <3>1, <3>2, NotesAreChained
    <3>4. ASSUME NEW l \in x.held, NEW i \in 1 .. Len(locks)
          PROVE  Follows(l, locks[i])
      <4>1. PICK n \in Notes : locks[i] = ForUpdate(Note(n))
        BY <3>3
      <4>2. locks[i].row[1] = "note" /\ Height(locks[i].row) = 2 + n /\ n \in Nat
        BY <1>2, <4>1, Rows DEF ForUpdate
      <4>3. l.mode = "update" /\ Height(l.row) <= 1 /\ Height(l.row) \in Nat
        BY <1>1, <1>2, <2>3, <2>5, Heights
      <4> QED
        BY <4>2, <4>3 DEF Follows
    <3>5. AtStage(y)
      BY <1>1, <2>5 DEF AtStage
    <3> QED
      BY <1>1, <1>3, <1>4, <3>3, <3>4, <3>5 DEF Orderly, y
  <2> QED
    BY <2>2, <2>4, <2>5
<1>5. CASE r.op # "delete_tag"
  <2>1. r.op \in {"edit", "split", "create"}
    BY <1>5 DEF LastStage
  <2>2. Inserted(r) \in SUBSET Tags
    BY <1>1, <2>1 DEF Inserted, Requests
  <2>3. PICK order \in SetToSeqs(Inserted(r)) : locks = TagsInOrder(order)
    BY <1>5 DEF LaterLocks
  <2>4. /\ locks \in Seq(Lockable) /\ Chained(r.op, locks)
        /\ \A i \in 1 .. Len(locks) : locks[i].mode = "key_share"
    BY <2>1, <2>2, <2>3, TagsAreChained
  <2>5. AtStage(y)
    BY <1>1, <1>5 DEF AtStage
  <2> QED
    BY <1>1, <1>3, <2>4, <2>5 DEF Orderly, Follows, y
<1> QED
  BY <1>4, <1>5

-----------------------------------------------------------------------------
(* The steps of the transactions *)

LEMMA IdleIsOrderly ==
  /\ Idle \in Xacts /\ Orderly(Idle) /\ Idle.held = {}
  /\ Done \in Xacts /\ Orderly(Done) /\ Done.held = {}
<1>1. /\ Idle.request = [op |-> "none"] /\ Idle.todo = <<>> /\ Idle.held = {} /\ Idle.stage = 0
      /\ Done.request = [op |-> "none"] /\ Done.todo = <<>> /\ Done.held = {} /\ Done.stage = 9
  BY DEF Idle, Done
<1>2. Idle \in Xacts
  BY DEF Idle, Xacts
<1>3. Done \in Xacts
  BY <1>2 DEF Done, Xacts
<1> QED
  BY <1>1, <1>2, <1>3 DEF Orderly, Chained, AtStage

(* One session moves, to an orderly transaction that holds no more than it   *)
(* may.                                                                      *)
LEMMA OneMoves ==
  ASSUME LocksInv, NEW s \in Sessions, NEW x \in Xacts, xact' = [xact EXCEPT ![s] = x],
         Orderly(x),
         \A q \in Sessions \ {s} : \A a \in x.held, b \in xact[q].held : ~Conflict(a, b)
  PROVE  LocksInv'
<1>1. xact' \in [Sessions -> Xacts]
  BY DEF LocksInv
<1>2. xact'[s] = x /\ \A q \in Sessions \ {s} : xact'[q] = xact[q]
  BY DEF LocksInv
<1>3. \A q \in Sessions : Orderly(xact'[q])
  BY <1>2 DEF LocksInv
<1>4. \A a, b : Conflict(a, b) <=> Conflict(b, a)
  BY DEF Conflict
<1>5. Exclusive'
  <2> SUFFICES ASSUME NEW p \in Sessions, NEW q \in Sessions, p # q,
                      NEW a \in xact'[p].held, NEW b \in xact'[q].held
               PROVE  ~Conflict(a, b)
    BY DEF Exclusive
  <2>1. CASE p = s
    BY <1>2, <2>1
  <2>2. CASE q = s
    BY <1>2, <1>4, <2>2
  <2>3. CASE p # s /\ q # s
    BY <1>2, <2>3 DEF LocksInv, Exclusive
  <2> QED
    BY <2>1, <2>2, <2>3
<1> QED
  BY <1>1, <1>3, <1>5 DEF LocksInv

LEMMA LocksNext ==
  ASSUME Database, LocksInv, [Next]_vars
  PROVE  LocksInv'
<1>1. \A s \in Sessions : xact[s] \in Xacts /\ Orderly(xact[s])
  BY DEF LocksInv
<1>2. ASSUME NEW s \in Sessions, NEW r \in Requests, Begin(s, r)
      PROVE  LocksInv'
  <2>1. PICK locks \in FirstLocks(r) :
          xact' = [xact EXCEPT ![s] = [request |-> r, stage |-> 1, todo |-> locks, held |-> {}]]
    BY <1>2 DEF Begin
  <2> DEFINE x == [request |-> r, stage |-> 1, todo |-> locks, held |-> {}]
  <2>2. /\ locks \in Seq(Lockable) /\ Chained(r.op, locks)
        /\ r.op = "delete_tag" => \A i \in 1 .. Len(locks) : Height(locks[i].row) = 0
    BY FirstIsOrderly
  <2>3. x \in Xacts
    BY <2>2 DEF Xacts
  <2>4. Orderly(x) /\ x.held = {}
    BY <2>2 DEF Orderly, AtStage
  <2> HIDE DEF x
  <2> QED
    BY <2>1, <2>3, <2>4, OneMoves DEF x
<1>3. ASSUME NEW s \in Sessions, Acquire(s)
      PROVE  LocksInv'
  <2> DEFINE now == xact[s]
             l == Head(now.todo)
             x == [now EXCEPT !.held = now.held \cup {l}, !.todo = Tail(now.todo)]
  <2>1. /\ now \in Xacts /\ now.todo \in Seq(Lockable) /\ now.todo # <<>>
        /\ now.held \subseteq Lockable
    BY <1>1, <1>3 DEF Acquire, Xacts
  <2>2. xact' = [xact EXCEPT ![s] = x]
    BY <1>3 DEF Acquire, LocksInv
  <2>3. /\ Len(now.todo) \in Nat \ {0} /\ l = now.todo[1] /\ l \in Lockable
        /\ Tail(now.todo) \in Seq(Lockable) /\ Len(Tail(now.todo)) = Len(now.todo) - 1
        /\ \A i \in 1 .. Len(Tail(now.todo)) : /\ Tail(now.todo)[i] = now.todo[i + 1]
                                                 /\ i + 1 \in 1 .. Len(now.todo)
                                                 /\ 1 < i + 1
    BY <2>1
  <2>4. x \in Xacts
    BY <2>1, <2>3 DEF Xacts
  <2>5. /\ x.held = now.held \cup {l} /\ x.todo = Tail(now.todo)
        /\ x.request = now.request /\ x.stage = now.stage
    BY <2>1 DEF Xacts
  <2>6. Orderly(x)
    <3>1. Orderly(now)
      BY <1>1
    <3>2. Uses(now.request.op, l) /\ \A h \in now.held : Uses(now.request.op, h)
      BY <2>3, <3>1 DEF Orderly, Chained
    <3>3. \A h \in now.held : \A i \in 1 .. Len(Tail(now.todo)) : Follows(h, Tail(now.todo)[i])
      BY <2>3, <3>1 DEF Orderly
    <3>4. \A i \in 1 .. Len(Tail(now.todo)) : Follows(l, Tail(now.todo)[i])
      BY <2>3, <3>1 DEF Orderly, Chained
    <3>5. Chained(now.request.op, Tail(now.todo))
      <4>1. ASSUME NEW i \in 1 .. Len(Tail(now.todo))
            PROVE  Uses(now.request.op, Tail(now.todo)[i])
        BY <2>3, <3>1 DEF Orderly, Chained
      <4>2. ASSUME NEW i \in 1 .. Len(Tail(now.todo)), NEW j \in 1 .. Len(Tail(now.todo)), i < j
            PROVE  Follows(Tail(now.todo)[i], Tail(now.todo)[j])
        <5>1. i + 1 < j + 1
          BY <2>3, <4>2
        <5> QED
          BY <2>3, <3>1, <5>1 DEF Orderly, Chained
      <4> QED
        BY <4>1, <4>2 DEF Chained
    <3>6. AtStage(x)
      <4>1. AtStage(now)
        BY <3>1 DEF Orderly
      <4>2. \A i \in 1 .. Len(x.todo) : \E j \in 1 .. Len(now.todo) : x.todo[i] = now.todo[j]
        BY <2>3, <2>5
      <4>3. 1 \in 1 .. Len(now.todo)
        BY <2>3
      <4> HIDE DEF now, x
      <4> QED
        BY <2>3, <2>5, <4>1, <4>2, <4>3 DEF AtStage
    <3> HIDE DEF now, x
    <3> QED
      BY <2>5, <3>2, <3>3, <3>4, <3>5, <3>6 DEF Orderly
  <2>7. \A q \in Sessions \ {s} : \A a \in x.held, b \in xact[q].held : ~Conflict(a, b)
    <3>1. \A q \in Sessions \ {s} : \A b \in xact[q].held : ~Conflict(l, b)
      BY <1>3 DEF Acquire, Blockers
    <3> QED
      BY <2>5, <3>1 DEF LocksInv, Exclusive
  <2> HIDE DEF x
  <2> QED
    BY <2>2, <2>4, <2>6, <2>7, OneMoves
<1>4. ASSUME NEW s \in Sessions, xact' = [xact EXCEPT ![s] = Done]
      PROVE  LocksInv'
  BY <1>4, IdleIsOrderly, OneMoves
<1>5. ASSUME NEW s \in Sessions, Proceed(s)
      PROVE  LocksInv'
  <2> DEFINE now == xact[s]
  <2>1. /\ now.todo = <<>> /\ now.stage \in 1 .. 3 /\ now.stage < LastStage(now.request)
        /\ now \in Xacts /\ Orderly(now)
    BY <1>1, <1>5 DEF Proceed, Running
  <2>2. PICK locks \in LaterLocks(now.request, now.stage) :
          xact' = [xact EXCEPT ![s].stage = @ + 1, ![s].todo = locks]
    BY <1>5 DEF Proceed
  <2> DEFINE x == [now EXCEPT !.stage = @ + 1, !.todo = locks]
  <2>3. locks \in Seq(Lockable) /\ Orderly(x)
    BY <2>1, LaterIsOrderly
  <2>4. xact' = [xact EXCEPT ![s] = x]
    BY <2>2 DEF LocksInv
  <2>5. x \in Xacts /\ x.held = now.held
    <3>1. now.stage + 1 \in Nat /\ locks \in Seq(Lockable) /\ now \in Xacts
      BY <2>1, <2>3
    <3> HIDE DEF now
    <3> QED
      BY <3>1 DEF Xacts
  <2>6. \A q \in Sessions \ {s} : \A a \in x.held, b \in xact[q].held : ~Conflict(a, b)
    BY <2>5 DEF LocksInv, Exclusive
  <2> HIDE DEF x
  <2> QED
    BY <2>3, <2>4, <2>5, <2>6, OneMoves
<1>6. CASE UNCHANGED vars
  BY <1>6 DEF vars, LocksInv, Exclusive
<1> QED
  BY <1>2, <1>3, <1>4, <1>5, <1>6 DEF Next, RollBack, Commit, Abort

-----------------------------------------------------------------------------
(* Deadlocks *)

(* The lock a session asks for, and the place of such a wait in the order in *)
(* which requests without opposition wait for each other.                    *)
Wanted(s) == Head(xact[s].todo)

Rank(l) ==
  IF l.row[1] # "tag" THEN 1 + Height(l.row)
  ELSE IF l.mode = "update" THEN 0 ELSE 1

(* What a waiting session and one it waits for hold and want.                *)
LEMMA Waiting ==
  ASSUME LocksInv, NEW s \in Sessions, Blockers(s) # {}
  PROVE  /\ Wanted(s) \in Lockable /\ Uses(xact[s].request.op, Wanted(s))
         /\ \A h \in xact[s].held : /\ h \in Lockable /\ Uses(xact[s].request.op, h)
                                   /\ Follows(h, Wanted(s))
         /\ \A q \in Blockers(s) : /\ q \in Sessions \ {s}
                                 /\ \E h \in xact[q].held : Conflict(Wanted(s), h)
<1>1. /\ xact[s].todo # <<>>
      /\ \A q \in Blockers(s) : /\ q \in Sessions \ {s}
                              /\ \E h \in xact[q].held : Conflict(Wanted(s), h)
  BY DEF Blockers, Wanted
<1>2. xact[s].todo \in Seq(Lockable) /\ xact[s].held \subseteq Lockable /\ Orderly(xact[s])
  BY DEF LocksInv, Xacts
<1>3. 1 \in 1 .. Len(xact[s].todo) /\ Wanted(s) = xact[s].todo[1] /\ Wanted(s) \in Lockable
  BY <1>1, <1>2 DEF Wanted
<1> QED
  BY <1>1, <1>2, <1>3 DEF Orderly, Chained

(* In a deadlock of requests that do not oppose each other, the blocker of a *)
(* session waits for a later lock.                                           *)
LEMMA BlockersWaitHigher ==
  ASSUME LocksInv, Notes \subseteq Nat, NEW group \in SUBSET Sessions,
         \A s \in group : Blockers(s) \cap group # {},
         \/ \A s \in group : xact[s].request.op # "delete_tag"
         \/ \A s \in group : xact[s].request.op \notin {"edit", "split"},
         NEW s \in group
  PROVE  \E q \in group : Rank(Wanted(s)) < Rank(Wanted(q))
<1>1. \A p \in group : p \in Sessions /\ Blockers(p) # {}
  OBVIOUS
<1>2. PICK q \in group : q \in Blockers(s)
  OBVIOUS
<1> DEFINE w == Wanted(s)
           v == Wanted(q)
           op == xact[q].request.op
<1>3. PICK h \in xact[q].held : Conflict(w, h)
  BY <1>1, <1>2, Waiting
<1>4. /\ w \in Lockable /\ Uses(xact[s].request.op, w)
      /\ v \in Lockable /\ Uses(op, v)
      /\ h \in Lockable /\ Uses(op, h) /\ Follows(h, v)
      /\ w.row = h.row /\ "update" \in {w.mode, h.mode}
  BY <1>1, <1>2, <1>3, Waiting DEF Conflict
<1>5. /\ w.mode \in {"update", "key_share"} /\ v.mode \in {"update", "key_share"}
      /\ h.mode \in {"update", "key_share"}
      /\ Height(h.row) \in Nat /\ Height(v.row) \in Nat
      /\ Height(h.row) = 0 <=> h.row[1] = "tag"
      /\ Height(v.row) = 0 <=> v.row[1] = "tag"
  BY <1>4, Heights
<1> SUFFICES Rank(w) < Rank(v)
  OBVIOUS
<1> HIDE DEF w, v, op
<1>6. CASE w.row[1] = "tag"
  <2>1. CASE h.mode = "update"
    <3>1. op \in {"delete_tag", "update_tag"} /\ v.mode # "key_share"
      BY <1>4, <1>6, <2>1 DEF Uses
    <3>2. v.row[1] # "tag"
      BY <1>4, <3>1 DEF Follows
    <3>3. Height(v.row) > 0 /\ Height(v.row) \in Nat
      BY <1>5, <3>2
    <3> QED
      BY <1>6, <3>2, <3>3 DEF Rank
  <2>2. CASE h.mode = "key_share"
    <3>1. v.mode = "key_share" /\ v.row[1] = "tag" /\ w.mode = "update"
      BY <1>4, <1>5, <2>2 DEF Follows, Uses
    <3> QED
      BY <1>6, <3>1 DEF Rank
  <2> QED
    BY <1>5, <2>1, <2>2
<1>7. CASE w.row[1] # "tag"
  <2>1. w.mode = "update" /\ h.mode = "update" /\ h.row[1] # "tag"
    BY <1>4, <1>5, <1>7 DEF Uses
  <2>2. CASE v.mode = "key_share"
    <3>1. op \in {"edit", "split"} /\ v.row[1] = "tag"
      BY <1>4, <2>1, <2>2 DEF Uses
    <3>2. \A p \in group : xact[p].request.op # "delete_tag"
      BY <3>1 DEF op
    <3>3. PICK p \in group : p \in Blockers(q)
      BY <1>2
    <3>4. PICK g \in xact[p].held : Conflict(v, g)
      BY <1>1, <3>3, Waiting DEF v
    <3>5. /\ g \in Lockable /\ Uses(xact[p].request.op, g) /\ Follows(g, Wanted(p))
          /\ Uses(xact[p].request.op, Wanted(p)) /\ g.row[1] = "tag" /\ g.mode = "update"
      BY <1>1, <2>2, <3>1, <3>3, <3>4, Waiting DEF Conflict
    <3>6. xact[p].request.op = "update_tag"
      BY <3>2, <3>5 DEF Uses
    <3> QED
      BY <3>5, <3>6 DEF Uses, Follows
  <2>3. CASE v.mode = "update"
    <3>1. v.row[1] # "tag" /\ Height(h.row) <= Height(v.row)
      BY <1>4, <2>3 DEF Follows
    <3>2. v.row # h.row
      <4> SUFFICES ASSUME v.row = h.row PROVE FALSE
        OBVIOUS
      <4>1. PICK p \in Blockers(q) : p \in Sessions \ {q} /\ \E g \in xact[p].held : Conflict(v, g)
        BY <1>1, Waiting DEF v
      <4>2. PICK g \in xact[p].held : Conflict(v, g)
        BY <4>1
      <4>3. Conflict(h, g)
        BY <2>1, <2>3, <4>2 DEF Conflict
      <4>4. ~Conflict(h, g)
        BY <1>1, <4>1 DEF LocksInv, Exclusive
      <4> QED
        BY <4>3, <4>4
    <3>3. Height(h.row) # Height(v.row)
      <4>1. Height(h.row) # 0
        BY <1>5, <2>1
      <4> QED
        BY <1>4, <3>2, <4>1, Heights
    <3>4. Height(h.row) < Height(v.row)
      BY <1>5, <3>1, <3>3
    <3> QED
      BY <1>4, <1>5, <1>7, <3>1, <3>4 DEF Rank
  <2> QED
    BY <1>5, <2>2, <2>3
<1> QED
  BY <1>6, <1>7

LEMMA RankIsBounded ==
  ASSUME NEW last \in Nat, Notes \subseteq 0 .. last, NEW l \in Lockable
  PROVE  Rank(l) \in 0 .. 3 + last
<1>1. \/ \E t \in Tags : l.row = Tag(t)
      \/ l.row = Series
      \/ \E n \in Notes : l.row = Note(n)
  BY DEF Lockable
<1>2. CASE \E t \in Tags : l.row = Tag(t)
  BY <1>2, Rows DEF Rank
<1>3. CASE l.row = Series
  BY <1>3, Rows DEF Rank
<1>4. CASE \E n \in Notes : l.row = Note(n)
  <2>1. PICK n \in Notes : l.row = Note(n)
    BY <1>4
  <2>2. n \in 0 .. last /\ Rank(l) = 1 + (2 + n)
    BY <2>1, Rows DEF Rank
  <2> QED
    BY <2>2
<1> QED
  BY <1>1, <1>2, <1>3, <1>4

(* Two requests oppose each other: one deletes a tag, which it locks before  *)
(* the series and the notes that carry it, the other adds tags to notes it   *)
(* has locked.                                                               *)
Opposed(group) ==
  \E s, q \in group : /\ xact[s].request.op = "delete_tag"
                      /\ xact[q].request.op \in {"edit", "split"}

LEMMA DeadlocksAreOpposed ==
  ASSUME Database, LocksInv, NEW group \in SUBSET Sessions, Deadlocked(group)
  PROVE  Opposed(group)
<1> SUFFICES ASSUME ~Opposed(group) PROVE FALSE
  OBVIOUS
<1>1. /\ group # {} /\ \A s \in group : Blockers(s) \cap group # {}
      /\ \/ \A s \in group : xact[s].request.op # "delete_tag"
         \/ \A s \in group : xact[s].request.op \notin {"edit", "split"}
  BY DEF Deadlocked, Opposed
<1>2. PICK last \in Nat : Notes \subseteq 0 .. last
  BY DEF Database
<1>3. Notes \subseteq Nat
  BY <1>2
<1> DEFINE left(s) == 3 + last - Rank(Wanted(s))
           lefts == {left(s) : s \in group}
<1>4. \A s \in group : Rank(Wanted(s)) \in 0 .. 3 + last
  BY <1>1, <1>2, Waiting, RankIsBounded
<1>5. lefts \in SUBSET Nat /\ lefts # {}
  BY <1>1, <1>2, <1>4
<1>6. PICK n \in lefts : \A m \in lefts : ~(m < n)
  <2> DEFINE less == OpToRel(<, Nat)
  <2>1. IsWellFoundedOn(less, Nat)
    BY NatLessThanWellFounded
  <2>2. \A m, n \in Nat : m < n => <<m, n>> \in less
    BY DEF OpToRel
  <2> HIDE DEF less, lefts
  <2>3. PICK n \in lefts : \A m \in lefts : <<m, n>> \notin less
    BY <1>5, <2>1, WFMin
  <2> QED
    BY <1>5, <2>2, <2>3
<1>7. PICK s \in group : n = left(s)
  BY <1>6
<1>8. PICK q \in group : Rank(Wanted(s)) < Rank(Wanted(q))
  BY <1>1, <1>3, BlockersWaitHigher
<1>9. left(q) \in lefts /\ left(q) < left(s)
  BY <1>2, <1>4, <1>8
<1> QED
  BY <1>6, <1>7, <1>9

(* Every transaction keeps to its order of locks, and row locks exclude each *)
(* other: what the two theorems below rest on.                               *)
THEOREM LocksInvariant ==
  ASSUME Database
  PROVE  Spec => []LocksInv
<1>1. Init => LocksInv
  BY IdleIsOrderly DEF Init, LocksInv, Exclusive
<1>2. LocksInv /\ [Next]_vars => LocksInv'
  BY LocksNext
<1> QED
  BY <1>1, <1>2, PTL DEF Spec

(* However many requests run, in every set of them that wait for each other  *)
(* one deletes a tag and one edits a note or splits a series: no other pair  *)
(* of handlers locks rows in opposite orders.                                *)
THEOREM DeadlocksNeedDeletion ==
  ASSUME Database
  PROVE  Spec => [](\A group \in SUBSET Sessions : Deadlocked(group) => Opposed(group))
<1>1. LocksInv => \A group \in SUBSET Sessions : Deadlocked(group) => Opposed(group)
  BY DeadlocksAreOpposed
<1> QED
  BY <1>1, LocksInvariant, PTL

(* The lock protocol holds as documented as long as no tag is deleted.       *)
THEOREM ProtocolHoldsWithoutDeletion ==
  ASSUME Database
  PROVE  Spec /\ [](\A s \in Sessions : xact[s].request.op # "delete_tag") => []NoDeadlock
<1>1. /\ \A group \in SUBSET Sessions : Deadlocked(group) => Opposed(group)
      /\ \A s \in Sessions : xact[s].request.op # "delete_tag"
      => NoDeadlock
  BY DEF NoDeadlock, Opposed
<1> QED
  BY <1>1, DeadlocksNeedDeletion, PTL
=============================================================================
