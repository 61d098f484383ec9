--------------------------- MODULE RecurrenceProofs ---------------------------
(***************************************************************************)
(* The expansion is exact for every calendar, zone, week and limit.        *)
(***************************************************************************)
EXTENDS Recurrence, Functions, FiniteSetTheorems, TLAPS

-----------------------------------------------------------------------------
(* The calendar *)

(* The first days of the months, and the day after the last, in order.       *)
LEMMA FirstDaysGrow ==
  ASSUME NEW m \in 1 .. Months + 1, NEW n \in 1 .. Months + 1, m <= n
  PROVE  FirstDay[m] \in Int /\ FirstDay[n] \in Int /\ FirstDay[m] <= FirstDay[n]
<1>1. FirstDay[m] \in Int /\ FirstDay[n] \in Int
  BY CalendarAssumption
<1>2. CASE m = n
  BY <1>1, <1>2
<1>3. CASE m < n
  BY <1>1, <1>3, CalendarAssumption
<1> QED
  BY <1>1, <1>2, <1>3

(* A month is between its first day and the next month's.                    *)
LEMMA MonthIsInCalendar ==
  ASSUME NEW m \in 1 .. Months
  PROVE  /\ m \in Int /\ Months \in Int /\ 1 <= m /\ m <= Months
         /\ FirstDay[m] \in Int /\ FirstDay[m + 1] \in Int
         /\ FirstDay[1] \in Int /\ FirstDay[Months + 1] \in Int
         /\ FirstDay[m] < FirstDay[m + 1]
         /\ FirstDay[1] <= FirstDay[m] /\ FirstDay[m + 1] <= FirstDay[Months + 1]
<1>1. /\ m \in 1 .. Months + 1 /\ m + 1 \in 1 .. Months + 1 /\ 1 \in 1 .. Months + 1
      /\ Months + 1 \in 1 .. Months + 1 /\ Months \in Nat /\ m < m + 1
  BY CalendarAssumption
<1>2. FirstDay[1] <= FirstDay[m] /\ FirstDay[m + 1] <= FirstDay[Months + 1]
  BY <1>1, FirstDaysGrow
<1>3. FirstDay[m] < FirstDay[m + 1]
  BY <1>1, CalendarAssumption
<1> QED
  BY <1>1, <1>2, <1>3, FirstDaysGrow

(* Every day has its month.                                                  *)
LEMMA MonthHoldsDay ==
  ASSUME NEW d \in Days
  PROVE  /\ MonthOf(d) \in 1 .. Months
         /\ d \in Int
         /\ FirstDay[MonthOf(d)] <= d /\ d < FirstDay[MonthOf(d) + 1]
<1>1. /\ MonthOf(d) \in 1 .. Months
      /\ d \in FirstDay[MonthOf(d)] .. FirstDay[MonthOf(d) + 1] - 1
  BY CalendarAssumption DEF MonthOf
<1> QED
  BY <1>1, MonthIsInCalendar

(* Later days are in later months.                                           *)
LEMMA MonthsInOrder ==
  ASSUME NEW m \in 1 .. Months, NEW n \in 1 .. Months, NEW d \in Int, NEW e \in Int,
         FirstDay[m] <= d, e < FirstDay[n + 1], d <= e
  PROVE  m <= n
<1> SUFFICES ASSUME n < m PROVE FALSE
  BY MonthIsInCalendar
<1>1. m \in 1 .. Months + 1 /\ n + 1 \in 1 .. Months + 1 /\ n + 1 <= m
  BY MonthIsInCalendar
<1>2. /\ FirstDay[n + 1] \in Int /\ FirstDay[m] \in Int
      /\ FirstDay[n + 1] <= FirstDay[m]
  BY <1>1, FirstDaysGrow
<1> QED
  BY <1>2

(* A day is in the month that holds it.                                      *)
LEMMA OneMonth ==
  ASSUME NEW m \in 1 .. Months, NEW d \in Int, FirstDay[m] <= d, d < FirstDay[m + 1]
  PROVE  d \in Days /\ MonthOf(d) = m
<1>1. d \in Days
  BY MonthIsInCalendar DEF Days
<1>2. m <= MonthOf(d) /\ MonthOf(d) <= m
  BY <1>1, MonthHoldsDay, MonthsInOrder
<1> QED
  BY <1>1, <1>2, MonthHoldsDay, MonthIsInCalendar

-----------------------------------------------------------------------------
(* The cursor of a monthly rule *)

(* A cursor has the wanted day, or stands on the first of a month without it.*)
MonthlyCursor(c, wanted) ==
  \/ DayOf(c) = wanted
  \/ /\ DayOf(c) = 1
     /\ FirstDay[MonthOf(c)] + wanted - 1 >= FirstDay[MonthOf(c) + 1]

(* The next cursor is later, is again such a cursor, and no day with the     *)
(* wanted number lies between.                                               *)
LEMMA NextMonthSkipsNothing ==
  ASSUME NEW c \in Days, NEW wanted \in Nat \ {0}, MonthlyCursor(c, wanted),
         NextMonth(c, wanted) \in Days
  PROVE  /\ c < NextMonth(c, wanted)
         /\ MonthlyCursor(NextMonth(c, wanted), wanted)
         /\ \A d \in Days : c < d /\ d < NextMonth(c, wanted) => DayOf(d) # wanted
<1> DEFINE m == MonthOf(c)
           n == NextMonth(c, wanted)
<1>1. /\ m \in 1 .. Months /\ m \in Int /\ Months \in Int /\ c \in Int
      /\ FirstDay[m] <= c /\ c < FirstDay[m + 1]
      /\ FirstDay[m] \in Int /\ FirstDay[m + 1] \in Int
  BY MonthHoldsDay, MonthIsInCalendar
<1>2. n \in Int /\ n < FirstDay[Months + 1] /\ FirstDay[Months + 1] \in Int
  BY <1>1, MonthHoldsDay, MonthIsInCalendar DEF Days
<1>3. m + 1 \in 1 .. Months
  <2> SUFFICES ASSUME m = Months PROVE FALSE
    BY <1>1
  <2>1. n = FirstDay[Months + 1]
    BY <1>1 DEF NextMonth, InNextMonth
  <2> QED
    BY <1>2, <2>1
<1>4. /\ FirstDay[m + 2] \in Int /\ FirstDay[m + 1] < FirstDay[m + 2]
      /\ (m + 1) + 1 = m + 2
  BY <1>1, <1>3, MonthIsInCalendar
<1>5. \/ FirstDay[m + 1] + wanted - 1 < FirstDay[m + 2] /\ n = FirstDay[m + 1] + wanted - 1
      \/ FirstDay[m + 1] + wanted - 1 >= FirstDay[m + 2] /\ n = FirstDay[m + 1]
  BY <1>1, <1>3, <1>4 DEF NextMonth, InNextMonth
<1>6. FirstDay[m + 1] <= n /\ n < FirstDay[m + 2]
  BY <1>1, <1>2, <1>4, <1>5
<1>7. MonthOf(n) = m + 1
  BY <1>2, <1>3, <1>4, <1>6, OneMonth
<1>8. c < n
  BY <1>1, <1>2, <1>6
<1>9. MonthlyCursor(n, wanted)
  BY <1>1, <1>2, <1>4, <1>5, <1>7 DEF MonthlyCursor, DayOf
<1>10. ASSUME NEW d \in Days, c < d, d < n, DayOf(d) = wanted
       PROVE  FALSE
  <2>1. /\ MonthOf(d) \in 1 .. Months /\ MonthOf(d) \in Int /\ d \in Int
        /\ FirstDay[MonthOf(d)] \in Int
        /\ d = FirstDay[MonthOf(d)] + wanted - 1
        /\ d < FirstDay[MonthOf(d) + 1]
    BY <1>10, MonthHoldsDay, MonthIsInCalendar DEF DayOf
  <2>2. MonthOf(d) \in {m, m + 1}
    <3>1. m <= MonthOf(d)
      BY <1>1, <1>10, <2>1, MonthHoldsDay, MonthsInOrder
    <3>2. MonthOf(d) <= m + 1
      <4>1. FirstDay[MonthOf(d)] <= d /\ n < FirstDay[(m + 1) + 1] /\ d <= n
        BY <1>2, <1>4, <1>6, <1>10, <2>1, MonthHoldsDay
      <4> QED
        BY <1>2, <1>3, <2>1, <4>1, MonthsInOrder
    <3> QED
      BY <1>1, <2>1, <3>1, <3>2
  <2>3. CASE MonthOf(d) = m
    BY <1>1, <1>10, <2>1, <2>3 DEF MonthlyCursor, DayOf
  <2>4. CASE MonthOf(d) = m + 1
    BY <1>1, <1>2, <1>4, <1>5, <1>10, <2>1, <2>4
  <2> QED
    BY <2>2, <2>3, <2>4
<1> QED
  BY <1>8, <1>9, <1>10

-----------------------------------------------------------------------------
(* The cursor of a weekly rule *)

(* Division leaves its remainder, and whole multiples are a divisor apart.   *)
LEMMA Division ==
  ASSUME NEW a \in Nat, NEW k \in Nat \ {0}
  PROVE  a = k * (a \div k) + (a % k) /\ a \div k \in Int
OBVIOUS

LEMMA WholeMultiple ==
  ASSUME NEW k \in Nat \ {0}, NEW q \in Int
  PROVE  (k * q) % k = 0 /\ k * (q + 1) = k * q + k
OBVIOUS

LEMMA NoMultipleBetween ==
  ASSUME NEW k \in Nat \ {0}, NEW p \in Int, NEW q \in Int, k * q < k * p
  PROVE  k * q + k <= k * p
OBVIOUS

(* A week on from a whole number of weeks is the next whole number.          *)
LEMMA WeekSkipsNothing ==
  ASSUME NEW a \in Nat, a % Week = 0
  PROVE  /\ (a + Week) % Week = 0
         /\ \A b \in Nat : a < b /\ b < a + Week => b % Week # 0
<1>1. Week \in Nat \ {0}
  BY CalendarAssumption
<1>2. a = Week * (a \div Week) /\ a \div Week \in Int
  BY <1>1, Division
<1>3. (a + Week) % Week = 0
  <2>1. a + Week = Week * (a \div Week + 1)
    BY <1>1, <1>2, WholeMultiple
  <2>2. a \div Week + 1 \in Int
    BY <1>2
  <2> QED
    BY <1>1, <2>1, <2>2, WholeMultiple
<1>4. ASSUME NEW b \in Nat, a < b, b < a + Week, b % Week = 0
      PROVE  FALSE
  <2>1. b = Week * (b \div Week) /\ b \div Week \in Int
    BY <1>1, <1>4, Division
  <2>2. Week * (a \div Week) + Week <= Week * (b \div Week)
    BY <1>1, <1>2, <1>4, <2>1, NoMultipleBetween
  <2> QED
    BY <1>1, <1>2, <1>4, <2>1, <2>2
<1> QED
  BY <1>3, <1>4

-----------------------------------------------------------------------------
(* The loop *)

(* The cursor is on the days the loop visits.                                *)
OnRule(c) ==
  /\ c \in Days /\ request.start <= c
  /\ request.frequency = "weekly" => (c - request.start) % Week = 0
  /\ request.frequency = "monthly" => MonthlyCursor(c, DayOf(request.start))

(* The rows are the days of the rule before the cursor, in order and at      *)
(* their earliest instants.                                                  *)
RowsAreRight ==
  /\ \A i \in 1 .. Len(result) : /\ Scheduled(result[i].local)
                                 /\ IsFirst(result[i].instant, request.zone[result[i].local])
  /\ \A i, j \in 1 .. Len(result) : i < j => result[i].local < result[j].local

RowsBefore(c) ==
  /\ \A i \in 1 .. Len(result) : result[i].local < c
  /\ \A d \in Days : Scheduled(d) /\ d < c => \E i \in 1 .. Len(result) : result[i].local = d

Returned == {"expanded", "accepted", "starts_at_conflict", "empty"}

Loop ==
  /\ status = "called" => cursor = request.start /\ result = <<>>
  /\ status = "expanding" => OnRule(cursor) /\ RowsBefore(cursor)
  /\ status \in Returned => \A d \in Days : Scheduled(d) => \E i \in 1 .. Len(result) : result[i].local = d

IInv == TypeOK /\ Loop /\ RowsAreRight

(* A cursor of the loop is moved to a later one, past no day of the rule.    *)
LEMMA CursorSkipsNothing ==
  ASSUME TypeOK, OnRule(cursor), NextCursor \in Days
  PROVE  /\ cursor < NextCursor
         /\ OnRule(NextCursor)
         /\ \A d \in Days : cursor < d /\ d < NextCursor => ~Scheduled(d)
<1>1. /\ cursor \in Int /\ request.start \in Days /\ request.start \in Int /\ NextCursor \in Int
      /\ request.start <= cursor /\ request.frequency \in Frequencies
      /\ \A d \in Days : d \in Int
  BY MonthHoldsDay DEF TypeOK, Requests, OnRule
<1>2. CASE request.frequency = "daily"
  <2>1. NextCursor = cursor + 1
    BY <1>2 DEF NextCursor
  <2> QED
    BY <1>1, <1>2, <2>1 DEF OnRule
<1>3. CASE request.frequency = "weekly"
  <2>1. NextCursor = cursor + Week /\ Week \in Nat \ {0}
    BY <1>3, CalendarAssumption DEF NextCursor
  <2>2. cursor - request.start \in Nat /\ (cursor - request.start) % Week = 0
    BY <1>1, <1>3 DEF OnRule
  <2>3. (NextCursor - request.start) % Week = 0
    <3>1. NextCursor - request.start = (cursor - request.start) + Week
      BY <1>1, <2>1
    <3> QED
      BY <2>2, <3>1, WeekSkipsNothing
  <2>4. ASSUME NEW d \in Days, cursor < d, d < NextCursor, Scheduled(d)
        PROVE  FALSE
    <3>1. (d - request.start) % Week = 0
      BY <1>3, <2>4 DEF Scheduled
    <3>2. /\ d - request.start \in Nat
          /\ cursor - request.start < d - request.start
          /\ d - request.start < (cursor - request.start) + Week
      BY <1>1, <2>1, <2>4
    <3> QED
      BY <2>2, <3>1, <3>2, WeekSkipsNothing
  <2> QED
    BY <1>1, <1>3, <2>1, <2>3, <2>4 DEF OnRule
<1>4. CASE request.frequency = "monthly"
  <2> DEFINE wanted == DayOf(request.start)
  <2>1. NextCursor = NextMonth(cursor, wanted)
    BY <1>4 DEF NextCursor
  <2>2. wanted \in Nat \ {0}
    BY <1>1, MonthHoldsDay, MonthIsInCalendar DEF DayOf
  <2>3. cursor \in Days /\ MonthlyCursor(cursor, wanted)
    BY <1>4 DEF OnRule
  <2>4. /\ cursor < NextCursor /\ MonthlyCursor(NextCursor, wanted)
        /\ \A d \in Days : cursor < d /\ d < NextCursor => DayOf(d) # wanted
    BY <2>1, <2>2, <2>3, NextMonthSkipsNothing
  <2>5. \A d \in Days : Scheduled(d) => DayOf(d) = wanted
    BY <1>4 DEF Scheduled
  <2> QED
    BY <1>1, <1>4, <2>4, <2>5 DEF OnRule
<1> QED
  BY <1>1, <1>2, <1>3, <1>4 DEF Frequencies

-----------------------------------------------------------------------------
(* The steps of the expansion *)

(* What the type invariant says of the parts.                                *)
LEMMA Parts ==
  ASSUME TypeOK
  PROVE  /\ result \in Seq(Occurrences) /\ Len(result) \in Nat
         /\ cursor \in Days /\ cursor \in Int
         /\ request.start \in Days /\ request.start \in Int
         /\ request.end \in Days /\ request.end \in Int
         /\ request.zone \in Zones /\ request.frequency \in Frequencies
         /\ \A d \in Days : d \in Int
         /\ \A i \in 1 .. Len(result) : result[i].local \in Days /\ result[i].instant \in Int
<1>1. /\ request.start \in Days /\ request.end \in Days /\ cursor \in Days
      /\ request.zone \in Zones /\ request.frequency \in Frequencies
  BY DEF TypeOK, Requests
<1>2. \A d \in Days : d \in Int
  BY MonthHoldsDay
<1>3. /\ result \in Seq(Occurrences) /\ Len(result) \in Nat
      /\ \A i \in 1 .. Len(result) : result[i] \in Occurrences
  BY DEF TypeOK
<1>4. \A r \in Occurrences : r.local \in Days /\ r.instant \in Int
  BY DEF Occurrences
<1> QED
  BY <1>1, <1>2, <1>3, <1>4

(* What a turn of the loop adds to the rows.                                 *)
LEMMA GrownRows ==
  ASSUME IInv, status = "expanding", cursor <= request.end
  PROVE  /\ Grown \in Seq(Occurrences)
         /\ \A i \in 1 .. Len(Grown) :
              /\ Scheduled(Grown[i].local) /\ Grown[i].local <= cursor
              /\ IsFirst(Grown[i].instant, request.zone[Grown[i].local])
         /\ \A i, j \in 1 .. Len(Grown) : i < j => Grown[i].local < Grown[j].local
         /\ \A d \in Days : Scheduled(d) /\ d <= cursor => \E i \in 1 .. Len(Grown) : Grown[i].local = d
<1>1. /\ result \in Seq(Occurrences) /\ Len(result) \in Nat
      /\ cursor \in Days /\ cursor \in Int /\ request.start \in Int /\ request.end \in Int
      /\ request.zone \in Zones /\ request.frequency \in Frequencies
      /\ \A d \in Days : d \in Int
      /\ \A i \in 1 .. Len(result) : result[i].local \in Days
  BY Parts DEF IInv
<1>2. OnRule(cursor) /\ RowsBefore(cursor) /\ RowsAreRight
  BY DEF IInv, Loop
<1>3. Valid <=> Scheduled(cursor)
  BY <1>1, <1>2, MonthHoldsDay DEF Valid, Scheduled, OnRule
<1>4. CASE Valid
  <2> DEFINE row == [local |-> cursor, instant |-> Instant(cursor)]
  <2>1. IsFirst(Instant(cursor), request.zone[cursor]) /\ Instant(cursor) \in Int
    <3>1. \E t \in request.zone[cursor] : IsFirst(t, request.zone[cursor])
      BY <1>1, <1>4, ZoneAssumption DEF Valid
    <3>2. request.zone[cursor] \subseteq Int
      BY <1>1, ZoneAssumption
    <3>3. Instant(cursor) \in request.zone[cursor] /\ IsFirst(Instant(cursor), request.zone[cursor])
      BY <3>1 DEF Instant
    <3> QED
      BY <3>2, <3>3
  <2>2. row \in Occurrences /\ row.local = cursor /\ row.instant = Instant(cursor)
    BY <1>1, <2>1 DEF Occurrences
  <2>3. Grown = Append(result, row)
    BY <1>4 DEF Grown
  <2> HIDE DEF row
  <2>4. /\ Grown \in Seq(Occurrences)
        /\ Len(Grown) = Len(result) + 1
        /\ \A i \in 1 .. Len(result) : Grown[i] = result[i]
        /\ Grown[Len(result) + 1] = row
    BY <1>1, <2>2, <2>3
  <2>5. \A i \in 1 .. Len(Grown) : i \in 1 .. Len(result) \/ i = Len(result) + 1
    BY <1>1, <2>4
  <2>6. \A i \in 1 .. Len(Grown) :
          /\ Scheduled(Grown[i].local) /\ Grown[i].local <= cursor
          /\ IsFirst(Grown[i].instant, request.zone[Grown[i].local])
    <3>1. ASSUME NEW i \in 1 .. Len(result)
          PROVE  /\ Scheduled(Grown[i].local) /\ Grown[i].local <= cursor
                 /\ IsFirst(Grown[i].instant, request.zone[Grown[i].local])
      <4>1. Grown[i] = result[i] /\ result[i].local \in Int /\ result[i].local < cursor
        BY <1>1, <1>2, <2>4 DEF RowsBefore
      <4> QED
        BY <1>1, <1>2, <4>1 DEF RowsAreRight
    <3>2. /\ Scheduled(row.local) /\ row.local <= cursor
          /\ IsFirst(row.instant, request.zone[row.local])
      BY <1>1, <1>3, <1>4, <2>1, <2>2
    <3> QED
      BY <2>4, <2>5, <3>1, <3>2
  <2>7. \A i, j \in 1 .. Len(Grown) : i < j => Grown[i].local < Grown[j].local
    BY <1>1, <1>2, <2>2, <2>4, <2>5 DEF RowsAreRight, RowsBefore
  <2>8. ASSUME NEW d \in Days, Scheduled(d), d <= cursor
        PROVE  \E i \in 1 .. Len(Grown) : Grown[i].local = d
    <3>1. CASE d = cursor
      BY <1>1, <2>2, <2>4, <3>1
    <3>2. CASE d < cursor
      <4>1. PICK i \in 1 .. Len(result) : result[i].local = d
        BY <1>2, <2>8, <3>2 DEF RowsBefore
      <4> QED
        BY <1>1, <2>4, <4>1
    <3> QED
      BY <1>1, <2>8, <3>1, <3>2
  <2> QED
    BY <2>4, <2>6, <2>7, <2>8
<1>5. CASE ~Valid
  <2>1. Grown = result
    BY <1>5 DEF Grown
  <2>2. ASSUME NEW d \in Days, Scheduled(d), d <= cursor
        PROVE  d < cursor
    <3>1. ~Scheduled(cursor)
      BY <1>3, <1>5
    <3>2. d # cursor
      BY <2>2, <3>1
    <3>3. d \in Int /\ cursor \in Int /\ d <= cursor
      BY <1>1, <2>2, MonthHoldsDay
    <3> QED
      BY <3>2, <3>3
  <2>3. ASSUME NEW i \in 1 .. Len(result)
        PROVE  /\ Scheduled(result[i].local) /\ result[i].local <= cursor
               /\ IsFirst(result[i].instant, request.zone[result[i].local])
    <3>1. result[i].local < cursor /\ result[i].local \in Int
      BY <1>1, <1>2 DEF RowsBefore
    <3>2. result[i].local <= cursor
      BY <1>1, <3>1
    <3> QED
      BY <1>2, <3>2 DEF RowsAreRight
  <2>4. \A i, j \in 1 .. Len(result) : i < j => result[i].local < result[j].local
    BY <1>2 DEF RowsAreRight
  <2>5. ASSUME NEW d \in Days, Scheduled(d), d <= cursor
        PROVE  \E i \in 1 .. Len(result) : result[i].local = d
    BY <1>2, <2>2, <2>5 DEF RowsBefore
  <2> QED
    BY <1>1, <2>1, <2>3, <2>4, <2>5
<1> QED
  BY <1>4, <1>5

(* Init and every step.                                                      *)
LEMMA InitInv == Init => IInv
<1> SUFFICES ASSUME Init PROVE IInv
  OBVIOUS
<1>1. result = <<>> /\ Len(result) = 0
  BY DEF Init
<1>2. TypeOK
  BY <1>1 DEF Init, TypeOK, Requests, Statuses
<1> QED
  BY <1>1, <1>2 DEF Init, IInv, Loop, RowsAreRight, Returned

LEMMA StepInv == IInv /\ [Next]_vars => IInv'
<1> SUFFICES ASSUME IInv, [Next]_vars PROVE IInv'
  OBVIOUS
<1>1. TypeOK /\ Loop /\ RowsAreRight
  BY DEF IInv
<1>2. CASE Enter
  <2>1. UNCHANGED <<request, cursor, result>> /\ cursor = request.start /\ result = <<>>
    BY <1>1, <1>2 DEF Enter, Loop
  <2>2. TypeOK'
    BY <1>1, <1>2, <2>1 DEF Enter, TypeOK, Statuses
  <2>3. RowsAreRight'
    BY <1>1, <2>1 DEF RowsAreRight, Scheduled
  <2>4. status' \in {"bad_end", "expanding"}
    BY <1>2 DEF Enter
  <2>5. OnRule(cursor)'
    <3>1. request.start \in Days /\ request.start \in Int
      BY <1>1, MonthHoldsDay DEF TypeOK, Requests
    <3>2. (request.start - request.start) % Week = 0
      <4>1. request.start - request.start = Week * 0 /\ Week \in Nat \ {0}
        BY <3>1, CalendarAssumption
      <4> QED
        BY <4>1, WholeMultiple
    <3>3. MonthlyCursor(request.start, DayOf(request.start))
      BY DEF MonthlyCursor
    <3> QED
      BY <2>1, <3>1, <3>2, <3>3 DEF OnRule
  <2>6. RowsBefore(cursor)'
    <3>1. \A d \in Days : Scheduled(d) => ~(d < request.start)
      <4>1. \A d \in Days : d \in Int /\ request.start \in Int /\ request.end \in Int
        BY <1>1, Parts
      <4>2. \A d \in Days : Scheduled(d) => d \in request.start .. request.end
        BY DEF Scheduled
      <4> QED
        BY <4>1, <4>2
    <3>2. Len(result) = 0
      BY <2>1
    <3>3. RowsBefore(cursor)
      BY <2>1, <3>1, <3>2 DEF RowsBefore
    <3> QED
      BY <2>1, <3>3 DEF RowsBefore, Scheduled
  <2> QED
    BY <2>2, <2>3, <2>4, <2>5, <2>6 DEF IInv, Loop, Returned
<1>3. CASE Turn
  <2>1. /\ status = "expanding" /\ status' = "expanding" /\ request' = request
        /\ cursor <= request.end /\ cursor' = NextCursor /\ result' = Grown
        /\ NextCursor \in Days
    BY <1>3 DEF Turn
  <2>2. OnRule(cursor)
    BY <1>1, <2>1 DEF Loop
  <2>3. /\ cursor < cursor' /\ cursor' \in Days /\ cursor \in Int /\ cursor' \in Int
        /\ \A d \in Days : cursor < d /\ d < cursor' => ~Scheduled(d)
        /\ \A d \in Days : d \in Int
    BY <1>1, <2>1, <2>2, CursorSkipsNothing, MonthHoldsDay DEF TypeOK
  <2>4. OnRule(cursor)'
    <3>1. OnRule(NextCursor)
      BY <1>1, <2>1, <2>2, CursorSkipsNothing
    <3> QED
      BY <2>1, <3>1 DEF OnRule
  <2>5. TypeOK'
    BY <1>1, <2>1, GrownRows DEF TypeOK, Statuses
  <2>6. RowsAreRight'
    BY <2>1, GrownRows DEF RowsAreRight, Scheduled
  <2>7. RowsBefore(cursor)'
    <3>1. ASSUME NEW i \in 1 .. Len(Grown) PROVE Grown[i].local < cursor'
      <4>1. Grown[i].local <= cursor /\ Grown[i].local \in Int
        <5>1. Grown \in Seq(Occurrences) /\ Grown[i].local <= cursor
          BY <2>1, GrownRows
        <5>2. Grown[i] \in Occurrences
          BY <5>1
        <5>3. Grown[i].local \in Days
          BY <5>2 DEF Occurrences
        <5> QED
          BY <2>3, <5>1, <5>3
      <4> QED
        BY <2>3, <4>1
    <3>2. ASSUME NEW d \in Days, Scheduled(d), d < cursor'
          PROVE  \E i \in 1 .. Len(Grown) : Grown[i].local = d
      BY <2>1, <2>3, <3>2, GrownRows
    <3> QED
      BY <2>1, <3>1, <3>2 DEF RowsBefore, Scheduled
  <2> QED
    BY <2>1, <2>4, <2>5, <2>6, <2>7 DEF IInv, Loop, Returned
<1>4. CASE Overflow \/ LeaveCalendar
  <2>1. /\ status = "expanding" /\ status' \in {"limit_exceeded", "out_of_range"}
        /\ UNCHANGED <<request, cursor>> /\ cursor <= request.end /\ result' = Grown
    BY <1>4 DEF Overflow, LeaveCalendar
  <2>2. TypeOK'
    BY <1>1, <2>1, GrownRows DEF TypeOK, Statuses
  <2>3. RowsAreRight'
    BY <2>1, GrownRows DEF RowsAreRight, Scheduled
  <2> QED
    BY <2>1, <2>2, <2>3 DEF IInv, Loop, Returned
<1>5. CASE Return
  <2>1. /\ status = "expanding" /\ status' = "expanded" /\ cursor > request.end
        /\ UNCHANGED <<request, cursor, result>>
    BY <1>5 DEF Return
  <2>2. \A d \in Days : Scheduled(d) => d < cursor
    BY <1>1, <2>1, MonthHoldsDay DEF TypeOK, Requests, Scheduled
  <2>3. \A d \in Days : Scheduled(d) => \E i \in 1 .. Len(result) : result[i].local = d
    BY <1>1, <2>1, <2>2 DEF Loop, RowsBefore
  <2>4. TypeOK'
    BY <1>1, <2>1 DEF TypeOK, Statuses
  <2>5. RowsAreRight'
    BY <1>1, <2>1 DEF RowsAreRight, Scheduled
  <2> QED
    BY <2>1, <2>3, <2>4, <2>5 DEF IInv, Loop, Returned, Scheduled
<1>6. ASSUME NEW startsAt, Answer(startsAt) PROVE IInv'
  <2>1. /\ status = "expanded" /\ status' \in {"empty", "starts_at_conflict", "accepted"}
        /\ UNCHANGED <<request, cursor, result>>
    BY <1>6 DEF Answer
  <2>2. TypeOK'
    BY <1>1, <2>1 DEF TypeOK, Statuses
  <2>3. RowsAreRight'
    BY <1>1, <2>1 DEF RowsAreRight, Scheduled
  <2> QED
    BY <1>1, <2>1, <2>2, <2>3 DEF IInv, Loop, Returned, Scheduled
<1>7. CASE UNCHANGED vars
  BY <1>1, <1>7 DEF vars, IInv, TypeOK, Loop, RowsAreRight, RowsBefore, OnRule, Scheduled, Returned
<1> QED
  BY <1>2, <1>3, <1>4, <1>5, <1>6, <1>7 DEF Next

THEOREM Invariant == Spec => []IInv
BY InitInv, StepInv, PTL DEF Spec

(* The variables keep their types: the cursor never leaves the calendar.     *)
THEOREM TypeCorrect == Spec => []TypeOK
<1>1. IInv => TypeOK
  BY DEF IInv
<1> QED
  BY <1>1, Invariant, PTL

(* A list that is returned has every day of the rule whose wall time exists, *)
(* no other, each at its earlier instant, in every calendar and zone.        *)
THEOREM ExpansionCorrect == Spec => []ExpansionIsExact
<1>1. IInv => ExpansionIsExact
  BY MonthHoldsDay DEF IInv, TypeOK, Loop, RowsAreRight, ExpansionIsExact, Exact, Returned
<1> QED
  BY <1>1, Invariant, PTL

(* The instants of a series grow, so that its keys are distinct.             *)
THEOREM KeysCorrect == Spec => []KeysAreDistinct
<1>1. ASSUME IInv, NEW i \in 1 .. Len(result), NEW j \in 1 .. Len(result), i < j
      PROVE  result[i].instant < result[j].instant
  <2>1. /\ result[i].local \in Days /\ result[j].local \in Days
        /\ result[i].local < result[j].local
        /\ IsFirst(result[i].instant, request.zone[result[i].local])
        /\ IsFirst(result[j].instant, request.zone[result[j].local])
        /\ request.zone \in Zones
    <3>1. TypeOK /\ RowsAreRight
      BY <1>1 DEF IInv
    <3> QED
      BY <1>1, <3>1, Parts DEF RowsAreRight
  <2>2. /\ result[i].instant \in request.zone[result[i].local]
        /\ result[j].instant \in request.zone[result[j].local]
    BY <2>1 DEF IsFirst
  <2> QED
    BY <2>1, <2>2, ZoneAssumption
<1>2. IInv => KeysAreDistinct
  BY <1>1 DEF KeysAreDistinct
<1> QED
  BY <1>2, Invariant, PTL

-----------------------------------------------------------------------------
(* Refusals *)

(* No day of the rule, nor a candidate past its range, follows the cursor.   *)
CursorIsLast ==
  /\ \A d \in Days : Scheduled(d) => d <= cursor
  /\ ~\E d \in Days : d > request.end /\
       CASE request.frequency = "daily"   -> TRUE
         [] request.frequency = "weekly"  -> (d - request.start) % Week = 0
         [] request.frequency = "monthly" -> MonthOf(d) > MonthOf(cursor)

(* The list is within the limit, except where the loop refused it for that.  *)
Sizes ==
  /\ status \in Returned \cup {"called", "expanding"} => Len(result) <= Limit
  /\ status = "limit_exceeded" => Len(result) > Limit
  /\ status = "empty" => Len(result) = 0
  /\ status = "out_of_range" => Exact /\ CursorIsLast

(* A day outside the calendar that is later than one of its days is past its *)
(* last day.                                                                 *)
LEMMA PastTheCalendar ==
  ASSUME NEW c \in Days, NEW n \in Int, c < n, n \notin Days, NEW d \in Days
  PROVE  d < n
<1>1. /\ c \in Int /\ d \in Int /\ FirstDay[1] \in Int /\ FirstDay[Months + 1] \in Int
  BY MonthHoldsDay, MonthIsInCalendar
<1> QED
  BY <1>1 DEF Days

(* A month that follows another has the next cursor.                         *)
LEMMA NextMonthIsInCalendar ==
  ASSUME NEW c \in Days, NEW wanted \in Nat \ {0}, MonthOf(c) # Months
  PROVE  NextMonth(c, wanted) \in Days
<1> DEFINE next == MonthOf(c) + 1
<1>1. /\ MonthOf(c) \in 1 .. Months /\ MonthOf(c) \in Int /\ Months \in Int
      /\ MonthOf(c) <= Months
  BY MonthHoldsDay, MonthIsInCalendar
<1>2. next \in 1 .. Months /\ next <= Months
  BY <1>1
<1>3. /\ FirstDay[next] \in Int /\ FirstDay[next + 1] \in Int /\ FirstDay[next] < FirstDay[next + 1]
  BY <1>2, MonthIsInCalendar
<1>4. /\ NextMonth(c, wanted) \in Int
      /\ FirstDay[next] <= NextMonth(c, wanted) /\ NextMonth(c, wanted) < FirstDay[next + 1]
  <2> HIDE DEF next
  <2>1. NextMonth(c, wanted) = IF next <= Months /\ FirstDay[next] + wanted - 1 < FirstDay[next + 1]
                               THEN FirstDay[next] + wanted - 1
                               ELSE FirstDay[next]
    BY DEF NextMonth, InNextMonth, next
  <2> QED
    BY <1>3, <2>1
<1> QED
  BY <1>2, <1>4, OneMonth

(* Where the cursor cannot be moved, nothing of the rule is left.            *)
LEMMA StuckCursorIsLast ==
  ASSUME TypeOK, OnRule(cursor), cursor <= request.end, NextCursor \notin Days
  PROVE  CursorIsLast
<1>1. /\ cursor \in Days /\ cursor \in Int /\ request.start \in Days /\ request.start \in Int
      /\ request.end \in Int /\ request.frequency \in Frequencies
      /\ request.start <= cursor
      /\ \A d \in Days : d \in Int
  BY Parts DEF OnRule
<1>2. CASE request.frequency = "daily"
  <2>1. \A d \in Days : d < cursor + 1
    BY <1>1, <1>2, PastTheCalendar DEF NextCursor
  <2>2. \A d \in Days : d <= cursor /\ ~(d > request.end)
    BY <1>1, <2>1
  <2> QED
    BY <2>2 DEF CursorIsLast
<1>3. CASE request.frequency = "weekly"
  <2>1. Week \in Nat \ {0} /\ NextCursor = cursor + Week
    BY <1>3, CalendarAssumption DEF NextCursor
  <2>2. \A d \in Days : d < cursor + Week
    BY <1>1, <2>1, PastTheCalendar
  <2>3. cursor - request.start \in Nat /\ (cursor - request.start) % Week = 0
    BY <1>1, <1>3 DEF OnRule
  <2>4. ASSUME NEW d \in Days, cursor < d
        PROVE  (d - request.start) % Week # 0
    <3>1. /\ d - request.start \in Nat
          /\ cursor - request.start < d - request.start
          /\ d - request.start < (cursor - request.start) + Week
      BY <1>1, <2>1, <2>2, <2>4
    <3> QED
      BY <2>3, <3>1, WeekSkipsNothing
  <2>5. \A d \in Days : Scheduled(d) => d <= cursor
    BY <1>1, <1>3, <2>4 DEF Scheduled
  <2>6. \A d \in Days : d > request.end => cursor < d
    BY <1>1
  <2> QED
    BY <1>3, <2>4, <2>5, <2>6 DEF CursorIsLast
<1>4. CASE request.frequency = "monthly"
  <2> DEFINE wanted == DayOf(request.start)
  <2>1. wanted \in Nat \ {0}
    BY <1>1, MonthHoldsDay, MonthIsInCalendar DEF DayOf
  <2>2. MonthOf(cursor) = Months
    BY <1>1, <1>4, <2>1, NextMonthIsInCalendar DEF NextCursor
  <2>3. \A d \in Days : MonthOf(d) \in Int /\ MonthOf(d) <= Months
    BY MonthHoldsDay, MonthIsInCalendar
  <2>4. ASSUME NEW d \in Days, Scheduled(d), cursor < d
        PROVE  FALSE
    <3>1. MonthOf(d) = Months
      <4>1. FirstDay[MonthOf(cursor)] <= cursor /\ d < FirstDay[MonthOf(d) + 1] /\ cursor <= d
        BY <1>1, <2>4, MonthHoldsDay
      <4>2. MonthOf(cursor) <= MonthOf(d)
        BY <1>1, <4>1, MonthHoldsDay, MonthsInOrder
      <4> QED
        BY <2>2, <2>3, <4>2, MonthIsInCalendar, CalendarAssumption
    <3>2. /\ FirstDay[Months] \in Int /\ FirstDay[Months + 1] \in Int
          /\ d \in Int /\ d < FirstDay[Months + 1]
      BY <3>1, MonthHoldsDay, MonthIsInCalendar
    <3>3. d - FirstDay[Months] + 1 = wanted
      BY <1>4, <2>4, <3>1 DEF Scheduled, DayOf
    <3>4. \/ cursor - FirstDay[Months] + 1 = wanted
          \/ FirstDay[Months] + wanted - 1 >= FirstDay[Months + 1]
      BY <1>4, <2>2 DEF OnRule, MonthlyCursor, DayOf
    <3> HIDE DEF wanted
    <3> QED
      BY <1>1, <2>1, <2>4, <3>2, <3>3, <3>4
  <2>5. \A d \in Days : Scheduled(d) => d <= cursor
    BY <1>1, <2>4
  <2>6. ~\E d \in Days : MonthOf(d) > MonthOf(cursor)
    BY <2>2, <2>3, CalendarAssumption
  <2> QED
    BY <1>4, <2>5, <2>6 DEF CursorIsLast
<1> QED
  BY <1>1, <1>2, <1>3, <1>4 DEF Frequencies

LEMMA SizesStep == IInv /\ Sizes /\ [Next]_vars => Sizes'
<1> SUFFICES ASSUME IInv, Sizes, [Next]_vars PROVE Sizes'
  OBVIOUS
<1>1. /\ TypeOK /\ Loop /\ Len(result) \in Nat /\ Limit \in Nat
  BY CalendarAssumption, Parts DEF IInv
<1>2. CASE Enter \/ Return
  BY <1>1, <1>2 DEF Enter, Return, Sizes, Loop, Returned
<1>3. CASE Turn
  BY <1>1, <1>3 DEF Turn, Sizes, Returned
<1>4. CASE Overflow
  BY <1>1, <1>4 DEF Overflow, Sizes, Returned
<1>5. CASE LeaveCalendar
  <2>1. /\ status = "expanding" /\ status' = "out_of_range" /\ UNCHANGED <<request, cursor>>
        /\ cursor <= request.end /\ result' = Grown /\ NextCursor \notin Days
    BY <1>5 DEF LeaveCalendar
  <2>2. CursorIsLast
    BY <1>1, <2>1, StuckCursorIsLast DEF Loop
  <2>3. CursorIsLast'
    BY <2>1, <2>2 DEF CursorIsLast, Scheduled
  <2>4. \A d \in Days : Scheduled(d) <=> \E i \in 1 .. Len(Grown) : Grown[i].local = d
    BY <2>1, <2>2, GrownRows DEF CursorIsLast
  <2>5. \A i \in 1 .. Len(Grown) : IsFirst(Grown[i].instant, request.zone[Grown[i].local])
    BY <2>1, GrownRows
  <2>6. Exact'
    BY <2>1, <2>4, <2>5 DEF Exact, Scheduled
  <2> QED
    BY <2>1, <2>3, <2>6 DEF Sizes, Returned
<1>6. ASSUME NEW startsAt, Answer(startsAt) PROVE Sizes'
  BY <1>1, <1>6 DEF Answer, Sizes, Returned
<1>7. CASE UNCHANGED vars
  BY <1>7 DEF vars, Sizes, Exact, CursorIsLast, Scheduled
<1> QED
  BY <1>2, <1>3, <1>4, <1>5, <1>6, <1>7 DEF Next

(* The rows are as many as the days of the rule, where they are exact, and   *)
(* never more.                                                               *)
LEMMA RowsCount ==
  ASSUME IInv
  PROVE  LET days == {d \in Days : Scheduled(d)}
         IN  /\ Cardinality(days) \in Nat /\ Len(result) <= Cardinality(days)
             /\ (\A d \in days : \E i \in 1 .. Len(result) : result[i].local = d)
                  => Cardinality(days) = Len(result)
<1> DEFINE days == {d \in Days : Scheduled(d)}
           place == [i \in 1 .. Len(result) |-> result[i].local]
<1>1. /\ Len(result) \in Nat /\ request.start \in Int /\ request.end \in Int
      /\ \A i \in 1 .. Len(result) : result[i].local \in Days /\ result[i].local \in Int
  BY Parts DEF IInv
<1>2. IsFiniteSet(days)
  <2>1. days \in SUBSET (request.start .. request.end)
    BY DEF Scheduled
  <2> QED
    BY <1>1, <2>1, FS_Interval, FS_Subset
<1>3. place \in Injection(1 .. Len(result), days)
  <2>1. place \in [1 .. Len(result) -> days]
    BY <1>1 DEF IInv, RowsAreRight
  <2>2. ASSUME NEW i \in 1 .. Len(result), NEW j \in 1 .. Len(result),
               result[i].local = result[j].local
        PROVE  i = j
    <3>1. ~(i < j) /\ ~(j < i)
      BY <1>1, <2>2 DEF IInv, RowsAreRight
    <3> QED
      BY <1>1, <3>1
  <2> QED
    BY <2>1, <2>2 DEF Injection, IsInjective
<1>4. IsFiniteSet(1 .. Len(result)) /\ Cardinality(1 .. Len(result)) = Len(result)
  <2>1. 1 \in Int /\ Len(result) \in Int /\ (1 > Len(result) => Len(result) = 0)
    BY <1>1
  <2>2. /\ IsFiniteSet(1 .. Len(result))
        /\ Cardinality(1 .. Len(result)) = IF 1 > Len(result) THEN 0 ELSE Len(result) - 1 + 1
    BY <2>1, FS_Interval
  <2> QED
    BY <1>1, <2>1, <2>2
<1>5. Cardinality(days) \in Nat
  BY <1>2, FS_CardinalityType
<1>6. Len(result) <= Cardinality(days)
  BY <1>2, <1>3, <1>4, FS_Injection
<1>7. ASSUME \A d \in days : \E i \in 1 .. Len(result) : result[i].local = d
      PROVE  Cardinality(days) = Len(result)
  <2>1. place \in Surjection(1 .. Len(result), days)
    BY <1>3, <1>7 DEF Injection, Surjection
  <2> QED
    BY <1>2, <1>3, <1>4, <2>1, FS_Injection
<1> QED
  BY <1>5, <1>6, <1>7

(* Every refusal has its cause, in every calendar, zone and week and for     *)
(* every limit: the limit is only ever exceeded by the rule itself.          *)
THEOREM RefusalsCorrect == Spec => []RefusalHasCause
<1> DEFINE days == {d \in Days : Scheduled(d)}
<1>1. Init => Sizes
  BY CalendarAssumption DEF Init, Sizes, Returned
<1>2. ASSUME IInv, Sizes PROVE RefusalHasCause
  <2>1. /\ Cardinality(days) \in Nat /\ Len(result) <= Cardinality(days)
        /\ (\A d \in days : \E i \in 1 .. Len(result) : result[i].local = d)
             => Cardinality(days) = Len(result)
    BY <1>2, RowsCount
  <2>2. Len(result) \in Nat /\ Limit \in Nat
    BY <1>2, CalendarAssumption, Parts DEF IInv
  <2>3. status \in Returned => Cardinality(days) = Len(result)
    BY <1>2, <2>1 DEF IInv, Loop
  <2>4. status = "limit_exceeded" => Cardinality(days) > Limit
    BY <1>2, <2>1, <2>2 DEF Sizes
  <2>5. status \in {"expanded", "accepted"} => Cardinality(days) <= Limit
    BY <1>2, <2>3 DEF Sizes, Returned
  <2>6. status = "empty" => Cardinality(days) = 0
    BY <1>2, <2>3 DEF Sizes, Returned
  <2> QED
    BY <1>2, <2>4, <2>5, <2>6 DEF RefusalHasCause, Sizes, CursorIsLast
<1>3. IInv /\ Sizes => RefusalHasCause
  BY <1>2
<1> QED
  BY <1>1, <1>3, SizesStep, Invariant, PTL DEF Spec

(* The loop never stands still: a turn that does not end the expansion moves *)
(* the cursor to a later day, which no expansion can do past request.end.    *)
THEOREM LoopAdvances ==
  Spec => [][status = "expanding" /\ status' = "expanding"
             => cursor <= request.end /\ cursor < cursor']_vars
<1>1. ASSUME IInv, [Next]_vars, ~UNCHANGED vars, status = "expanding", status' = "expanding"
      PROVE  cursor <= request.end /\ cursor < cursor'
  <2>1. Turn
    BY <1>1 DEF Next, Enter, Overflow, LeaveCalendar, Return, Answer
  <2> QED
    BY <1>1, <2>1, CursorSkipsNothing DEF IInv, Loop, Turn
<1>2. IInv /\ [Next]_vars => [status = "expanding" /\ status' = "expanding"
                             => cursor <= request.end /\ cursor < cursor']_vars
  BY <1>1
<1> QED
  BY <1>2, Invariant, PTL DEF Spec
=============================================================================
