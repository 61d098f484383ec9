------------------------------ MODULE Recurrence ------------------------------
(***************************************************************************)
(* The expansion of a recurrence rule: expand_occurrences of               *)
(* backend/app/domain/recurrence.py, and what its callers (create_series,  *)
(* split_series, preview_series) make of it.                               *)
(*                                                                         *)
(* A date is a day number.  Months are consecutive stretches of days of    *)
(* any lengths, a zone says at which instants the wall time of the series  *)
(* occurs on each day: at none in a spring-forward gap, at two in an       *)
(* autumn overlap.  The wall time itself never changes in an expansion,    *)
(* so it is not kept.                                                      *)
(***************************************************************************)
EXTENDS Integers, Sequences, FiniteSets

CONSTANTS
  Months,      \* number of months of the calendar
  FirstDay,    \* FirstDay[m]: first day of month m; FirstDay[Months + 1]: after the last
  Week,        \* days of a week
  Zones,       \* the zones, each a function from days to sets of instants
  Limit        \* most occurrences of a series, MAX_OCCURRENCES

Days == FirstDay[1] .. FirstDay[Months + 1] - 1

(* A calendar is at least a month long, its months follow each other and     *)
(* every day is in one of them.                                              *)
ASSUME CalendarAssumption ==
  /\ Months \in Nat \ {0}
  /\ FirstDay \in [1 .. Months + 1 -> Int]
  /\ \A m, n \in 1 .. Months + 1 : m < n => FirstDay[m] < FirstDay[n]
  /\ \A d \in Days : \E m \in 1 .. Months : d \in FirstDay[m] .. FirstDay[m + 1] - 1
  /\ Week \in Nat \ {0}
  /\ Limit \in Nat \ {0}

IsFirst(t, times) == t \in times /\ \A other \in times : t <= other

(* A wall time that exists has an earliest instant, and the earliest         *)
(* instants of successive days follow each other: a zone never turns its     *)
(* clocks back past the same wall time of the day before.                    *)
ASSUME ZoneAssumption ==
  \A zone \in Zones :
    /\ zone \in [Days -> SUBSET Int]
    /\ \A d \in Days : zone[d] # {} => \E t \in zone[d] : IsFirst(t, zone[d])
    /\ \A d, e \in Days : \A t \in zone[d], u \in zone[e] :
         d < e /\ IsFirst(t, zone[d]) /\ IsFirst(u, zone[e]) => t < u

Frequencies == {"daily", "weekly", "monthly"}
Requests == [start : Days, end : Days, frequency : Frequencies, zone : Zones]
Occurrences == [local : Days, instant : Int]

(* "invalid_recurrence" and "limit_exceeded" answer 422 for the reasons the  *)
(* code tells apart by its exceptions; "out_of_range" is the OverflowError   *)
(* or ValueError of datetime beyond the last day of the calendar.            *)
Statuses == {"called", "expanding", "expanded", "bad_end", "limit_exceeded",
             "out_of_range", "empty", "starts_at_conflict", "accepted"}
Refusals == {"bad_end", "limit_exceeded", "out_of_range", "empty", "starts_at_conflict"}

VARIABLES
  request,     \* the rule: first and last day, frequency and zone
  cursor,      \* the loop's cursor
  result,      \* the occurrences found so far, then the rows of the series
  status

vars == <<request, cursor, result, status>>

-----------------------------------------------------------------------------
(* The calendar *)

MonthOf(d) == CHOOSE m \in 1 .. Months : d \in FirstDay[m] .. FirstDay[m + 1] - 1

DayOf(d) == d - FirstDay[MonthOf(d)] + 1

(* The wanted day of the month after that of d, or a day to stand in for it  *)
(* where the month has no such day.                                          *)
InNextMonth(d, wanted, absent) ==
  LET next == MonthOf(d) + 1
  IN  IF next <= Months /\ FirstDay[next] + wanted - 1 < FirstDay[next + 1]
      THEN FirstDay[next] + wanted - 1
      ELSE absent

(* Mutants of NextMonth: the day of the cursor is wanted, which is 1 after a *)
(* month without the day; the cursor stays where the day is absent; its day  *)
(* is reset and its month is not moved.                                      *)
ForgetfulNextMonth(d, wanted) == InNextMonth(d, DayOf(d), FirstDay[MonthOf(d) + 1])
KeptNextMonth(d, wanted) == InNextMonth(d, wanted, d)
StuckNextMonth(d, wanted) == InNextMonth(d, wanted, FirstDay[MonthOf(d)])

(* Day 1 is the cursor in a month without the wanted day, and after the last *)
(* month, where datetime raises.                                             *)
NextMonth(d, wanted) == InNextMonth(d, wanted, FirstDay[MonthOf(d) + 1])

NextCursor ==
  CASE request.frequency = "daily"   -> cursor + 1
    [] request.frequency = "weekly"  -> cursor + Week
    [] request.frequency = "monthly" -> NextMonth(cursor, DayOf(request.start))

(* The cursor is a candidate of the rule, and its wall time exists.          *)
Valid ==
  /\ request.frequency = "monthly" => DayOf(cursor) = DayOf(request.start)
  /\ request.zone[cursor] # {}

(* fold=0: the earlier instant of an overlap.                                *)
Instant(d) == CHOOSE t \in request.zone[d] : IsFirst(t, request.zone[d])

Grown ==
  IF Valid THEN Append(result, [local |-> cursor, instant |-> Instant(cursor)]) ELSE result

-----------------------------------------------------------------------------
(* The expansion, and the caller's use of it *)

Init ==
  /\ request \in Requests
  /\ cursor = request.start
  /\ result = <<>>
  /\ status = "called"

(* The check before the loop.                                                *)
Enter ==
  /\ status = "called"
  /\ status' = IF request.end < request.start THEN "bad_end" ELSE "expanding"
  /\ UNCHANGED <<request, cursor, result>>

(* Mutant of Turn: the calendar has no end.                                  *)
EndlessTurn ==
  /\ status = "expanding" /\ cursor <= request.end
  /\ Len(Grown) <= Limit
  /\ result' = Grown
  /\ cursor' = NextCursor
  /\ UNCHANGED <<request, status>>

(* One turn of the loop that goes on.                                        *)
Turn ==
  /\ status = "expanding" /\ cursor <= request.end
  /\ Len(Grown) <= Limit /\ NextCursor \in Days
  /\ result' = Grown
  /\ cursor' = NextCursor
  /\ UNCHANGED <<request, status>>

(* Mutant of Overflow: the last occurrence of the limit is one too many.     *)
EarlyOverflow ==
  /\ status = "expanding" /\ cursor <= request.end
  /\ Len(Grown) >= Limit
  /\ result' = Grown
  /\ status' = "limit_exceeded"
  /\ UNCHANGED <<request, cursor>>

(* One occurrence too many: the expansion raises.                            *)
Overflow ==
  /\ status = "expanding" /\ cursor <= request.end
  /\ Len(Grown) > Limit
  /\ result' = Grown
  /\ status' = "limit_exceeded"
  /\ UNCHANGED <<request, cursor>>

(* The cursor cannot be moved past the last day of the calendar.             *)
LeaveCalendar ==
  /\ status = "expanding" /\ cursor <= request.end
  /\ Len(Grown) <= Limit /\ NextCursor \notin Days
  /\ result' = Grown
  /\ status' = "out_of_range"
  /\ UNCHANGED <<request, cursor>>

Return ==
  /\ status = "expanding" /\ cursor > request.end
  /\ status' = "expanded"
  /\ UNCHANGED <<request, cursor, result>>

(* create_series_rows and split_series compare the client's first instant    *)
(* with the expansion's; a row of each occurrence is added when they agree.  *)
Answer(startsAt) ==
  /\ status = "expanded"
  /\ status' = IF result = <<>> THEN "empty"
               ELSE IF startsAt # result[1].instant THEN "starts_at_conflict"
               ELSE "accepted"
  /\ UNCHANGED <<request, cursor, result>>

(* The instants a client may send: those of the zone's days, both of them    *)
(* in an overlap.                                                            *)
Instants == UNION {request.zone[d] : d \in Days}

Next ==
  \/ Enter \/ Turn \/ Overflow \/ LeaveCalendar \/ Return
  \/ \E startsAt \in Instants : Answer(startsAt)

Spec == Init /\ [][Next]_vars

(* The loop runs to its end within the request; a client's value is there    *)
(* when the request is.                                                      *)
FairSpec == Spec /\ WF_vars(Next)

-----------------------------------------------------------------------------
(* Properties *)

(* The values the variables take.                                            *)
TypeOK ==
  /\ request \in Requests
  /\ cursor \in Days
  /\ result \in Seq(Occurrences)
  /\ status \in Statuses

(* What the rule means, said without a cursor: the days of the range, both   *)
(* ends included, that are a whole number of weeks after the first or have   *)
(* its day of the month.  A month without that day has no candidate.         *)
Scheduled(d) ==
  /\ d \in request.start .. request.end
  /\ request.frequency = "weekly" => (d - request.start) % Week = 0
  /\ request.frequency = "monthly" => DayOf(d) = DayOf(request.start)
  /\ request.zone[d] # {}

Exact ==
  /\ \A d \in Days : Scheduled(d) <=> \E i \in 1 .. Len(result) : result[i].local = d
  /\ \A i \in 1 .. Len(result) : IsFirst(result[i].instant, request.zone[result[i].local])

(* A list the loop returns has every day of the rule whose wall time exists  *)
(* and no other, at the earlier instant of an overlap: the gaps, the months  *)
(* without the day and both ends of the range come out right for every       *)
(* frequency.  (expand_occurrences against docs/development/recurrence.md)   *)
ExpansionIsExact == status \in {"expanded", "accepted", "starts_at_conflict", "empty"} => Exact

(* The instants grow along the list, across gaps and overlaps: the unique    *)
(* key of a series' notes, (series_id, recurrence_key), can never refuse one *)
(* of its own rows, and the first instant is the earliest.                   *)
KeysAreDistinct ==
  \A i, j \in 1 .. Len(result) : i < j => result[i].instant < result[j].instant

(* A refusal has its cause: the limit is passed only by a rule that has more *)
(* occurrences than it, the list is empty only where no wall time exists,    *)
(* and a range the loop cannot leave for lack of a following date ends less  *)
(* than a step before the last day.  A rule within the limit whose next      *)
(* candidate exists is never refused for its size.                           *)
RefusalHasCause ==
  LET total == Cardinality({d \in Days : Scheduled(d)})
  IN  /\ status = "limit_exceeded" => total > Limit
      /\ status \in {"expanded", "accepted"} => total <= Limit
      /\ status = "empty" => total = 0
      /\ status = "out_of_range" =>
           /\ Exact
           /\ ~\E d \in Days : d > request.end /\
                CASE request.frequency = "daily"   -> TRUE
                  [] request.frequency = "weekly"  -> (d - request.start) % Week = 0
                  [] request.frequency = "monthly" -> MonthOf(d) > MonthOf(cursor)

(* Every expansion ends: no rule, month or zone keeps the cursor where it is.*)
ExpansionEnds == <>(status \in Refusals \cup {"accepted"})
=============================================================================
