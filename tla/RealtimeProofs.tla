---------------------------- MODULE RealtimeProofs ----------------------------
(***************************************************************************)
(* Theorems about Realtime for every set of events and tabs, every limit   *)
(* of remembered ids and any number of copies and faults.                  *)
(***************************************************************************)
EXTENDS Realtime, FiniteSetTheorems, SequenceTheorems, TLAPS

-----------------------------------------------------------------------------
(* Remembered ids. *)

(* Remembering one more id keeps a sequence within the limit.                *)
LEMMA RememberOne ==
  ASSUME NEW S, NEW s \in Seq(S), NEW x \in S, Len(s) <= SeenLimit
  PROVE  /\ Newest(Append(s, x)) \in Seq(S)
         /\ Len(Newest(Append(s, x))) <= SeenLimit
<1> DEFINE more == Append(s, x)
<1>1. more \in Seq(S) /\ more # <<>> /\ Len(more) = Len(s) + 1 /\ Len(s) \in Nat
  BY AppendProperties
<1>2. Tail(more) \in Seq(S) /\ Len(Tail(more)) = Len(more) - 1
  BY <1>1, HeadTailProperties
<1> HIDE DEF more
<1>3. SeenLimit \in Nat
  BY RealtimeAssumption
<1> QED
  BY <1>1, <1>2, <1>3 DEF Newest, more

-----------------------------------------------------------------------------
(* Types. *)

TabOK(p) ==
  p \in TabStates /\ Len(p.seen) <= SeenLimit /\ Len(p.toasted) <= SeenLimit

LEMMA TypeOKForms ==
  TypeOK <=> /\ link \in Links /\ channel \in Seq(Events)
             /\ task \in Tasks /\ connections \subseteq Tabs
             /\ tab \in [Tabs -> TabStates] /\ \A t \in Tabs : TabOK(tab[t])
             /\ toasts \in [Tabs \X Events -> Nat]
             /\ faults \in 0 .. MaxFaults
BY DEF TypeOK, TabOK

(* What happens to a page that is neither a message nor an answer.           *)
LEMMA PageOperators ==
  ASSUME NEW p, TabOK(p)
  PROVE  /\ TabOK(Invalidated(p)) /\ TabOK(Opened(p)) /\ TabOK(Closed(p))
         /\ TabOK(Page(p.toasted))
         /\ Invalidated(p).toasted = p.toasted /\ Opened(p).toasted = p.toasted
         /\ Closed(p).toasted = p.toasted /\ Page(p.toasted).toasted = p.toasted
<1>1. p \in TabStates
  BY DEF TabOK
<1>2. ASSUME NEW q \in TabStates
      PROVE  /\ Invalidated(q) \in TabStates
             /\ Invalidated(q).toasted = q.toasted /\ Invalidated(q).seen = q.seen
  BY DEF Invalidated, TabStates
<1>3. TabOK(Invalidated(p)) /\ Invalidated(p).toasted = p.toasted
  BY <1>1, <1>2 DEF TabOK
<1>4. TabOK(Opened(p)) /\ Opened(p).toasted = p.toasted
  <2> DEFINE open == [p EXCEPT !.socket = "open", !.opened = TRUE, !.timer = FALSE]
  <2>1. open \in TabStates /\ open.toasted = p.toasted /\ open.seen = p.seen
    BY <1>1 DEF TabStates
  <2>2. Opened(p) = IF p.opened THEN Invalidated(open) ELSE open
    BY DEF Opened
  <2> HIDE DEF open
  <2> QED
    BY <1>2, <2>1, <2>2 DEF TabOK
<1>5. TabOK(Closed(p)) /\ Closed(p).toasted = p.toasted
  <2>1. <<>> \in Seq(Messages)
    OBVIOUS
  <2> QED
    BY <1>1, <2>1 DEF TabOK, Closed, TabStates
<1>6. TabOK(Page(p.toasted)) /\ Page(p.toasted).toasted = p.toasted
  <2>1. <<>> \in Seq(Messages) /\ Len(<<>>) = 0 /\ 0 <= SeenLimit
    BY RealtimeAssumption
  <2>2. p.toasted \in Seq(Events) /\ Len(p.toasted) <= SeenLimit
    BY DEF TabOK, TabStates
  <2> QED
    BY <2>1, <2>2 DEF TabOK, Page, TabStates
<1> QED
  BY <1>3, <1>4, <1>5, <1>6

(* What a message does to a page.                                            *)
LEMMA ReceivedPage ==
  ASSUME TypeOK, NEW t \in Tabs, NEW live \in BOOLEAN, Receive(t, live)
  PROVE  LET p == tab[t]
             q == tab'[t]
         IN  /\ TabOK(q) /\ tab' = [tab EXCEPT ![t] = q]
             /\ \/ q.toasted = p.toasted /\ UNCHANGED toasts
                \/ \E e \in Events \ Elements(p.toasted) :
                     /\ q.toasted = Newest(Append(p.toasted, e))
                     /\ toasts' = [toasts EXCEPT ![<<t, e>>] = @ + 1]
<1> DEFINE p == tab[t]
           msg == Head(p.inbox)
           popped == [p EXCEPT !.inbox = Tail(@)]
           marked == [popped EXCEPT !.seen = Newest(Append(@, msg))]
           noted == Invalidated(marked)
           toast == live /\ msg \in Events \ Elements(p.toasted)
<1>1. TabOK(p) /\ p \in TabStates /\ p.inbox # <<>>
  BY TypeOKForms DEF Receive
<1>2. msg \in Messages /\ Tail(p.inbox) \in Seq(Messages)
  <2>1. p.inbox \in Seq(Messages)
    BY <1>1 DEF TabStates
  <2> HIDE DEF p
  <2> QED
    BY <1>1, <2>1, HeadTailProperties
<1>3. TabOK(popped) /\ popped.toasted = p.toasted /\ popped.seen = p.seen
  <2> HIDE DEF p
  <2> QED
    BY <1>1, <1>2 DEF TabOK, TabStates
<1>4. TabOK(marked) /\ marked.toasted = p.toasted
  <2>1. popped.seen \in Seq(Messages) /\ Len(popped.seen) <= SeenLimit
    BY <1>3 DEF TabOK, TabStates
  <2> HIDE DEF popped, msg
  <2>2. /\ Newest(Append(popped.seen, msg)) \in Seq(Messages)
        /\ Len(Newest(Append(popped.seen, msg))) <= SeenLimit
    BY <1>2, <2>1, RememberOne
  <2> QED
    BY <1>3, <2>2 DEF TabOK, TabStates
<1>5. TabOK(noted) /\ noted.toasted = p.toasted
  <2> HIDE DEF marked
  <2> QED
    BY <1>4, PageOperators
<1>6. ASSUME toast
      PROVE  /\ TabOK(Toasted(noted, msg))
             /\ Toasted(noted, msg).toasted = Newest(Append(p.toasted, msg))
  <2>1. noted.toasted \in Seq(Events) /\ Len(noted.toasted) <= SeenLimit
    BY <1>5 DEF TabOK, TabStates
  <2>2. msg \in Events
    BY <1>6
  <2> HIDE DEF noted, msg
  <2>3. /\ Newest(Append(noted.toasted, msg)) \in Seq(Events)
        /\ Len(Newest(Append(noted.toasted, msg))) <= SeenLimit
    BY <2>1, <2>2, RememberOne
  <2>4. TabOK(Toasted(noted, msg)) /\ Toasted(noted, msg).toasted = Newest(Append(noted.toasted, msg))
    BY <1>5, <2>3 DEF TabOK, TabStates, Toasted
  <2> QED
    BY <1>5, <2>4
<1>7. \/ tab' = [tab EXCEPT ![t] = popped] /\ UNCHANGED toasts
      \/ ~toast /\ tab' = [tab EXCEPT ![t] = noted] /\ UNCHANGED toasts
      \/ /\ toast /\ tab' = [tab EXCEPT ![t] = Toasted(noted, msg)]
         /\ toasts' = [toasts EXCEPT ![<<t, msg>>] = @ + 1]
  BY DEF Receive
<1>8. \A new : tab' = [tab EXCEPT ![t] = new] => tab'[t] = new
  BY DEF TypeOK
<1> HIDE DEF noted, popped, msg
<1> QED
  BY <1>3, <1>5, <1>6, <1>7, <1>8
(* The task of the process and its broadcasts.                               *)
LEMMA TaskOperators ==
  ASSUME TypeOK
  PROVE  /\ StartTask \in Tasks /\ Failing \in Tasks
         /\ \A msg \in Messages, next \in {"listen", "sleep"}, failed \in BOOLEAN :
              Broadcasting(msg, next, failed) \in Tasks
         /\ \A gone : [task EXCEPT !.left = @ \ gone] \in Tasks
<1>1. Resync \in Messages /\ task \in Tasks /\ connections \subseteq Tabs
  BY DEF TypeOK, Messages
<1>2. \A msg \in Messages, next \in {"listen", "sleep"}, failed \in BOOLEAN :
        Broadcasting(msg, next, failed) \in Tasks
  BY <1>1 DEF Broadcasting, Tasks
<1>3. StartTask \in Tasks
  BY <1>1 DEF StartTask, Tasks
<1>4. Failing \in Tasks
  BY <1>1, <1>2 DEF Failing, Tasks
<1>5. \A gone : [task EXCEPT !.left = @ \ gone] \in Tasks
  BY <1>1 DEF Tasks
<1> QED
  BY <1>2, <1>3, <1>4, <1>5

LEMMA TypeInit == Init => TypeOK
<1> SUFFICES ASSUME Init PROVE TypeOK
  OBVIOUS
<1>1. <<>> \in Seq(Events) /\ <<>> \in Seq(Messages) /\ Len(<<>>) = 0 /\ 0 <= SeenLimit
      /\ 0 \in 0 .. MaxFaults
  BY RealtimeAssumption
<1>2. Page(<<>>) \in TabStates /\ Page(<<>>).seen = <<>> /\ Page(<<>>).toasted = <<>>
  BY <1>1 DEF Page, TabStates
<1>3. StartTask \in Tasks
  BY DEF StartTask, Tasks, Messages
<1> QED
  BY <1>1, <1>2, <1>3 DEF Init, TypeOK, Links

(* A step that gives one tab a new page and shows no toast.                  *)
LEMMA TabsStayOK ==
  ASSUME TypeOK, NEW t \in Tabs, NEW q, TabOK(q), tab' = [tab EXCEPT ![t] = q]
  PROVE  tab' \in [Tabs -> TabStates] /\ \A u \in Tabs : TabOK(tab'[u])
BY TypeOKForms DEF TabOK

LEMMA TypeNext == TypeOK /\ [Next]_vars => TypeOK'
<1> SUFFICES ASSUME TypeOK, [Next]_vars PROVE TypeOK'
  OBVIOUS
<1> DEFINE TabsOK == tab' \in [Tabs -> TabStates] /\ \A u \in Tabs : TabOK(tab'[u])
           Rest == /\ link' \in Links /\ channel' \in Seq(Events)
                   /\ task' \in Tasks /\ connections' \subseteq Tabs
                   /\ toasts' \in [Tabs \X Events -> Nat] /\ faults' \in 0 .. MaxFaults
<1>1. /\ link \in Links /\ channel \in Seq(Events)
      /\ task \in Tasks /\ connections \subseteq Tabs
      /\ tab \in [Tabs -> TabStates] /\ \A u \in Tabs : TabOK(tab[u])
      /\ toasts \in [Tabs \X Events -> Nat] /\ faults \in 0 .. MaxFaults
  BY TypeOKForms
<1>2. TabsOK /\ Rest => TypeOK'
  BY DEF TypeOK, TabOK
<1>3. UNCHANGED tab => TabsOK
  BY <1>1
<1>4. Fault => faults' \in 0 .. MaxFaults
  BY <1>1, RealtimeAssumption DEF Fault
<1>5. "down" \in Links /\ "sent" \in Links /\ "live" \in Links /\ <<>> \in Seq(Events)
  BY DEF Links
<1>6. ASSUME NEW e \in Events, Commit(e)
      PROVE  TypeOK'
  BY <1>1, <1>2, <1>3, <1>6 DEF Commit, serverVars
<1>7. ASSUME NEW e \in Events, Announce(e)
      PROVE  TypeOK'
  <2>1. Append(channel, e) \in Seq(Events)
    BY <1>1
  <2> QED
    BY <1>1, <1>2, <1>3, <1>7, <2>1 DEF Announce
<1>8. CASE Effective \/ LinkBreaks
  BY <1>1, <1>2, <1>3, <1>4, <1>5, <1>8 DEF Effective, LinkBreaks
<1>9. CASE Subscribe
  <2>1. task' \in Tasks
    BY <1>1, <1>9, TaskOperators DEF Subscribe, Tasks, Messages
  <2> QED
    BY <1>1, <1>2, <1>3, <1>5, <1>9, <2>1 DEF Subscribe
<1>10. CASE ConnectFails \/ Notice
  BY <1>1, <1>2, <1>3, <1>4, <1>10, TaskOperators DEF ConnectFails, Notice
<1>11. CASE Listen
  <2>1. Head(channel) \in Events /\ Tail(channel) \in Seq(Events)
    BY <1>1, <1>11, HeadTailProperties DEF Listen
  <2>2. task' \in Tasks
    BY <1>1, <1>11, <2>1, TaskOperators DEF Listen, Tasks, Messages
  <2> QED
    BY <1>1, <1>2, <1>3, <1>11, <2>1, <2>2 DEF Listen
<1>12. CASE Wake \/ BroadcastEnds
  <2>1. task' \in Tasks
    BY <1>1, <1>12 DEF Wake, BroadcastEnds, Tasks
  <2> QED
    BY <1>1, <1>2, <1>3, <1>12, <2>1 DEF Wake, BroadcastEnds
<1>13. CASE Restart
  <2>1. TabsOK
    BY <1>1, <1>13, PageOperators DEF Restart, TabOK
  <2> QED
    BY <1>1, <1>2, <1>4, <1>5, <1>13, <2>1, TaskOperators DEF Restart
<1>14. ASSUME NEW t \in Tabs, Accept(t) \/ Open(t) \/ Serve(t) \/ Land(t) \/ Reconcile(t)
       PROVE  TypeOK'
  <2> DEFINE p == tab[t]
  <2>1. TabOK(p) /\ p \in TabStates
    BY <1>1
  <2>2. TabOK([p EXCEPT !.socket = "half"])
    BY <2>1 DEF TabOK, TabStates
  <2>3. TabOK([p EXCEPT !.fetch = "served", !.data = Committed])
    <3>1. Committed \subseteq Events
      BY DEF Committed
    <3> QED
      BY <2>1, <3>1 DEF TabOK, TabStates
  <2>4. TabOK([p EXCEPT !.fetch = "none", !.data = {}, !.loaded = TRUE, !.shown = p.data])
    BY <2>1 DEF TabOK, TabStates
  <2>5. TabOK(Opened(p)) /\ TabOK(Invalidated(p))
    BY <2>1, PageOperators
  <2>6. \/ tab' = [tab EXCEPT ![t] = [p EXCEPT !.socket = "half"]]
        \/ tab' = [tab EXCEPT ![t] = Opened(p)]
        \/ tab' = [tab EXCEPT ![t] = [p EXCEPT !.fetch = "served", !.data = Committed]]
        \/ tab' = [tab EXCEPT ![t] = [p EXCEPT !.fetch = "none", !.data = {}, !.loaded = TRUE,
                                               !.shown = p.data]]
        \/ tab' = [tab EXCEPT ![t] = Invalidated(p)]
    BY <1>14 DEF Accept, Open, Serve, Land, Reconcile
  <2>7. TabsOK
    BY <2>2, <2>3, <2>4, <2>5, <2>6, TabsStayOK
  <2> QED
    BY <1>1, <1>2, <1>14, <2>7 DEF Accept, Open, Serve, Land, Reconcile, serverVars
<1>15. ASSUME NEW t \in Tabs, Register(t)
       PROVE  TypeOK'
  BY <1>1, <1>2, <1>3, <1>15 DEF Register
<1>16. ASSUME NEW t \in Tabs, Send(t)
       PROVE  TypeOK'
  <2> DEFINE p == tab[t]
             q == [p EXCEPT !.inbox = Append(@, task.msg)]
  <2>1. TabOK(p) /\ p \in TabStates /\ task.msg \in Messages
    BY <1>1 DEF Tasks
  <2>2. Append(p.inbox, task.msg) \in Seq(Messages)
    BY <2>1 DEF TabStates
  <2>3. TabOK(q)
    BY <2>1, <2>2 DEF TabOK, TabStates
  <2>4. tab' = [tab EXCEPT ![t] = q]
    BY <1>16 DEF Send
  <2>5. TabsOK
    BY <2>3, <2>4, TabsStayOK
  <2> QED
    BY <1>1, <1>2, <1>16, <2>5, TaskOperators DEF Send
<1>17. ASSUME NEW t \in Tabs, NEW live \in BOOLEAN, Receive(t, live)
       PROVE  TypeOK'
  <2>1. TabsOK
    BY <1>17, ReceivedPage, TabsStayOK
  <2>2. toasts' \in [Tabs \X Events -> Nat]
    <3>1. \/ UNCHANGED toasts
          \/ \E e \in Events : toasts' = [toasts EXCEPT ![<<t, e>>] = @ + 1]
      BY <1>17, ReceivedPage
    <3>2. ASSUME NEW e \in Events, toasts' = [toasts EXCEPT ![<<t, e>>] = @ + 1]
          PROVE  toasts' \in [Tabs \X Events -> Nat]
      <4> DEFINE x == <<t, e>>
      <4>1. x \in Tabs \X Events
        OBVIOUS
      <4> HIDE DEF x
      <4> QED
        BY <1>1, <3>2, <4>1 DEF x
    <3> QED
      BY <1>1, <3>1, <3>2
  <2> QED
    BY <1>1, <1>2, <1>17, <2>1, <2>2 DEF Receive, serverVars
<1>18. ASSUME NEW t \in Tabs, SocketBreaks(t) \/ Reload(t)
       PROVE  TypeOK'
  <2>1. TabsOK
    BY <1>1, <1>18, PageOperators, TabsStayOK DEF SocketBreaks, Reload
  <2> QED
    BY <1>1, <1>2, <1>4, <1>18, <2>1, TaskOperators DEF SocketBreaks, Reload, Gone
<1>19. CASE UNCHANGED vars
  BY <1>1, <1>2, <1>3, <1>19 DEF vars, serverVars
<1> QED
  BY <1>6, <1>7, <1>8, <1>9, <1>10, <1>11, <1>12, <1>13, <1>14, <1>15, <1>16, <1>17, <1>18, <1>19
     DEF Next, Server, Browser

(* Every variable keeps its type, and no tab ever remembers more ids than    *)
(* the limit, whatever messages are repeated, lost or broken off.            *)
THEOREM TypeCorrect == Spec => []TypeOK
BY TypeInit, TypeNext, PTL DEF Spec
-----------------------------------------------------------------------------
(* One toast for a notification. *)

(* The limit is not reached: 1000 notifications since the browser session    *)
(* began, within which every duplicate comes.                                *)
WithinLimit == IsFiniteSet(Events) /\ Cardinality(Events) <= SeenLimit

Distinct(s) == \A i, j \in 1 .. Len(s) : s[i] = s[j] => i = j

ToastInv ==
  \A t \in Tabs :
    /\ Distinct(tab[t].toasted)
    /\ \A e \in Events :
         toasts[<<t, e>>] <= 1 /\ (toasts[<<t, e>>] = 1 => e \in Elements(tab[t].toasted))

LEMMA DistinctIsShort ==
  ASSUME IsFiniteSet(Events), NEW s \in Seq(Events), Distinct(s)
  PROVE  Len(s) <= Cardinality(Events)
<1>1. Len(s) \in Nat /\ s \in [1 .. Len(s) -> Events]
  OBVIOUS
<1>2. s \in Injection(1 .. Len(s), Events)
  BY <1>1 DEF Distinct, Injection, IsInjective
<1>3. Cardinality(1 .. Len(s)) <= Cardinality(Events)
  BY <1>2, FS_Injection
<1>4. Cardinality(1 .. Len(s)) = Len(s)
  <2>1. 1 \in Int /\ Len(s) \in Int
    BY <1>1
  <2>2. Cardinality(1 .. Len(s)) = IF 1 > Len(s) THEN 0 ELSE Len(s) - 1 + 1
    BY <2>1, FS_Interval
  <2> QED
    BY <1>1, <2>2
<1> QED
  BY <1>3, <1>4

(* Within the limit a new toast id is remembered and no other is dropped.    *)
LEMMA ToastIsRemembered ==
  ASSUME WithinLimit, NEW s \in Seq(Events), Distinct(s), Len(s) <= SeenLimit,
         NEW e \in Events \ Elements(s)
  PROVE  /\ Distinct(Newest(Append(s, e)))
         /\ Elements(Newest(Append(s, e))) = Elements(s) \cup {e}
<1> DEFINE more == Append(s, e)
<1>1. /\ more \in Seq(Events) /\ Len(more) = Len(s) + 1 /\ Len(s) \in Nat
      /\ \A i \in 1 .. Len(s) : more[i] = s[i]
      /\ more[Len(s) + 1] = e
  BY AppendProperties
<1>2. DOMAIN s = 1 .. Len(s) /\ DOMAIN more = 1 .. (Len(s) + 1)
  BY <1>1
<1>3. \A i \in 1 .. Len(s) : s[i] # e
  BY <1>2 DEF Elements
<1> HIDE DEF more
<1>4. Distinct(more)
  BY <1>1, <1>3 DEF Distinct
<1>5. Len(more) <= Cardinality(Events)
  BY <1>1, <1>4, DistinctIsShort DEF WithinLimit
<1>6. Newest(more) = more
  <2>1. Cardinality(Events) \in Nat /\ SeenLimit \in Nat
    BY FS_CardinalityType, RealtimeAssumption DEF WithinLimit
  <2> QED
    BY <1>1, <1>5, <2>1 DEF Newest, WithinLimit
<1>7. Elements(more) = Elements(s) \cup {e}
  <2>1. \A i \in DOMAIN more : more[i] \in Elements(s) \cup {e}
    BY <1>1, <1>2 DEF Elements
  <2>2. \A i \in DOMAIN s : s[i] \in Elements(more)
    BY <1>1, <1>2 DEF Elements
  <2>3. e \in Elements(more)
    BY <1>1, <1>2 DEF Elements
  <2> QED
    BY <2>1, <2>2, <2>3 DEF Elements
<1> QED
  BY <1>4, <1>6, <1>7 DEF more

LEMMA OnlyMessagesToast ==
  ASSUME TypeOK, [Next]_vars
  PROVE  \/ UNCHANGED toasts /\ \A u \in Tabs : tab'[u].toasted = tab[u].toasted
         \/ \E t \in Tabs, live \in BOOLEAN : Receive(t, live)
<1> DEFINE Kept == UNCHANGED toasts /\ \A u \in Tabs : tab'[u].toasted = tab[u].toasted
<1>1. \A u \in Tabs : TabOK(tab[u]) /\ tab[u] \in TabStates
  BY TypeOKForms
<1>2. CASE UNCHANGED <<tab, toasts>>
  BY <1>2
<1>3. ASSUME NEW t \in Tabs, NEW q, q.toasted = tab[t].toasted,
             tab' = [tab EXCEPT ![t] = q], UNCHANGED toasts
      PROVE  Kept
  BY <1>3 DEF TypeOK
<1>4. ASSUME NEW e \in Events, Commit(e) \/ Announce(e)
      PROVE  Kept
  BY <1>2, <1>4 DEF Commit, Announce
<1>5. CASE Server \/ ConnectFails \/ LinkBreaks \/ UNCHANGED vars
  BY <1>2, <1>5 DEF Server, Effective, Subscribe, Listen, Notice, Wake, BroadcastEnds,
     ConnectFails, LinkBreaks, vars
<1>6. CASE Restart
  <2>1. \A u \in Tabs : tab'[u] = tab[u] \/ tab'[u] = Closed(tab[u])
    BY <1>6 DEF Restart
  <2> QED
    BY <1>1, <1>6, <2>1, PageOperators DEF Restart
<1>7. ASSUME NEW t \in Tabs, Accept(t) \/ Send(t) \/ Serve(t) \/ Land(t)
      PROVE  Kept
  <2> DEFINE p == tab[t]
  <2>1. \/ tab' = [tab EXCEPT ![t] = [p EXCEPT !.socket = "half"]]
        \/ tab' = [tab EXCEPT ![t] = [p EXCEPT !.inbox = Append(@, task.msg)]]
        \/ tab' = [tab EXCEPT ![t] = [p EXCEPT !.fetch = "served", !.data = Committed]]
        \/ tab' = [tab EXCEPT ![t] = [p EXCEPT !.fetch = "none", !.data = {}, !.loaded = TRUE,
                                               !.shown = p.data]]
    BY <1>7 DEF Accept, Send, Serve, Land
  <2>2. /\ [p EXCEPT !.socket = "half"].toasted = p.toasted
        /\ [p EXCEPT !.inbox = Append(@, task.msg)].toasted = p.toasted
        /\ [p EXCEPT !.fetch = "served", !.data = Committed].toasted = p.toasted
        /\ [p EXCEPT !.fetch = "none", !.data = {}, !.loaded = TRUE,
                     !.shown = p.data].toasted = p.toasted
    BY <1>1 DEF TabStates
  <2>3. UNCHANGED toasts
    BY <1>7 DEF Accept, Send, Serve, Land
  <2> HIDE DEF Kept
  <2> QED
    BY <1>3, <2>1, <2>2, <2>3
<1>8. ASSUME NEW t \in Tabs, Open(t) \/ Reconcile(t) \/ SocketBreaks(t) \/ Reload(t)
      PROVE  Kept
  <2>1. \/ tab' = [tab EXCEPT ![t] = Opened(tab[t])]
        \/ tab' = [tab EXCEPT ![t] = Invalidated(tab[t])]
        \/ tab' = [tab EXCEPT ![t] = Closed(tab[t])]
        \/ tab' = [tab EXCEPT ![t] = Page(tab[t].toasted)]
    BY <1>8 DEF Open, Reconcile, SocketBreaks, Reload
  <2>2. UNCHANGED toasts
    BY <1>8 DEF Open, Reconcile, SocketBreaks, Reload
  <2> HIDE DEF Kept
  <2> QED
    BY <1>1, <1>3, <2>1, <2>2, PageOperators
<1>9. ASSUME NEW t \in Tabs, Register(t)
      PROVE  Kept
  BY <1>2, <1>9 DEF Register
<1> QED
  BY <1>4, <1>5, <1>6, <1>7, <1>8, <1>9 DEF Next, Browser

LEMMA ToastInit == Init => ToastInv
<1> SUFFICES ASSUME Init, NEW t \in Tabs
             PROVE  Distinct(tab[t].toasted) /\ \A e \in Events : toasts[<<t, e>>] = 0
  BY DEF ToastInv
<1>1. tab[t].toasted = <<>>
  BY DEF Init, Page
<1>2. Distinct(<<>>)
  BY DEF Distinct
<1>3. \A e \in Events : toasts[<<t, e>>] = 0
  BY DEF Init
<1> QED
  BY <1>1, <1>2, <1>3

LEMMA ToastNext ==
  ASSUME WithinLimit
  PROVE  TypeOK /\ ToastInv /\ [Next]_vars => ToastInv'
<1> SUFFICES ASSUME TypeOK, ToastInv, [Next]_vars PROVE ToastInv'
  OBVIOUS
<1>1. CASE UNCHANGED toasts /\ \A u \in Tabs : tab'[u].toasted = tab[u].toasted
  BY <1>1 DEF ToastInv
<1>2. ASSUME NEW t \in Tabs, NEW live \in BOOLEAN, Receive(t, live)
      PROVE  ToastInv'
  <2> DEFINE s == tab[t].toasted
  <2>1. s \in Seq(Events) /\ Len(s) <= SeenLimit /\ Distinct(s)
    BY TypeOKForms DEF TabOK, TabStates, ToastInv
  <2>2. \A u \in Tabs : u # t => tab'[u] = tab[u]
    <3>1. tab' = [tab EXCEPT ![t] = tab'[t]]
      BY <1>2, ReceivedPage
    <3> QED
      BY <3>1 DEF TypeOK
  <2>3. CASE tab'[t].toasted = s /\ UNCHANGED toasts
    BY <1>1, <2>2, <2>3
  <2>4. ASSUME NEW e \in Events \ Elements(s), tab'[t].toasted = Newest(Append(s, e)),
               toasts' = [toasts EXCEPT ![<<t, e>>] = @ + 1]
        PROVE  ToastInv'
    <3>1. Distinct(tab'[t].toasted) /\ Elements(tab'[t].toasted) = Elements(s) \cup {e}
      BY <2>1, <2>4, ToastIsRemembered
    <3>2. toasts[<<t, e>>] = 0
      <4>1. toasts[<<t, e>>] <= 1 /\ toasts[<<t, e>>] # 1
        BY <2>4 DEF ToastInv
      <4>2. toasts[<<t, e>>] \in Nat
        BY DEF TypeOK
      <4> QED
        BY <4>1, <4>2
    <3>3. \A u \in Tabs, x \in Events :
            toasts'[<<u, x>>] = IF u = t /\ x = e THEN 1 ELSE toasts[<<u, x>>]
      BY <2>4, <3>2 DEF TypeOK
    <3> QED
      BY <2>2, <3>1, <3>3 DEF ToastInv
  <2> QED
    BY <1>2, <2>3, <2>4, ReceivedPage
<1> QED
  BY <1>1, <1>2, OnlyMessagesToast

(* While a browser session has seen no more notifications than the browser   *)
(* remembers, a tab shows one toast for each, however often its event is     *)
(* announced, and whatever connections break and pages reload.               *)
THEOREM ToastsAreSingle ==
  ASSUME WithinLimit
  PROVE  Spec => []ToastOnce
<1>1. TypeOK /\ ToastInv /\ [Next]_vars => ToastInv'
  BY ToastNext
<1>2. ToastInv => ToastOnce
  BY DEF ToastInv, ToastOnce
<1> QED
  BY <1>1, <1>2, TypeInit, TypeNext, ToastInit, PTL DEF Spec
=============================================================================
