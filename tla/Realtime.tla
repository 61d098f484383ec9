------------------------------ MODULE Realtime ------------------------------
(***************************************************************************)
(* From a committed change to the browsers that show it: the Redis         *)
(* subscription of one API process (realtime/broker.py), its sockets       *)
(* (realtime/router.py) and the cache of a browser tab (use-realtime.ts,   *)
(* TanStack Query).  Feed stands for the outbox; that it settles an event  *)
(* only ends the announcements, so it is left out.                         *)
(*                                                                         *)
(* A change is its event.  A tab has one query, which every event          *)
(* concerns; what it shows is the set of changes its data reflects.  A     *)
(* request that fails is retried: it stays under way.  Every event is a    *)
(* notification of its own, so it may be toasted.                          *)
(***************************************************************************)
EXTENDS Naturals, Sequences, FiniteSets

CONSTANTS
  Events,
  Tabs,
  SeenLimit,     (* SEEN_LIMIT, 1000.                                        *)
  MaxCopies,     (* Bound: announcements of an event.                        *)
  MaxFaults      (* Bound: broken links and sockets, restarts, reloads.      *)

ASSUME RealtimeAssumption ==
  /\ Events \subseteq Nat \ {0}
  /\ SeenLimit \in Nat \ {0} /\ MaxCopies \in Nat /\ MaxFaults \in Nat

VARIABLES
  phase, announced,   (* Feed.                                               *)
  link,               (* The connection to Redis of the process.             *)
  channel,            (* Messages on it that the process has not read.       *)
  task,               (* subscribe().                                        *)
  connections,        (* The tabs whose socket ConnectionManager holds.      *)
  tab,                (* What each tab holds.                                *)
  toasts,             (* Toasts a tab showed for an event.                   *)
  faults

feedVars == <<phase, announced>>
serverVars == <<link, channel, task, connections>>
vars == <<feedVars, serverVars, tab, toasts, faults>>

Feed == INSTANCE Feed

(* resync_required; it has a new event_id each time, so it is never a        *)
(* duplicate.                                                                *)
Resync == 0

Messages == Events \cup {Resync}

(* "sent": SUBSCRIBE is on its way, Redis does not forward yet.              *)
Links == {"down", "sent", "live"}

(* In "broadcast", left are the sockets of the snapshot still to be sent     *)
(* msg, and next is where the task goes on.                                  *)
Tasks == [pc: {"connect", "listen", "sleep", "broadcast"}, next: {"listen", "sleep"},
          failed: BOOLEAN, msg: Messages, left: SUBSET Tabs]

StartTask == [pc |-> "connect", next |-> "listen", failed |-> FALSE, msg |-> Resync, left |-> {}]

(* socket: "half" once the server has accepted, "open" once onopen ran.      *)
(* opened is hasOpened, timer whether the 30 s reconciliation runs, seen the *)
(* event ids and toasted the stored toast ids, both oldest first.  asked: a  *)
(* request is under way; served: its answer is, with data.                   *)
TabStates == [socket: {"closed", "half", "open"}, opened: BOOLEAN, timer: BOOLEAN,
              inbox: Seq(Messages), seen: Seq(Messages), toasted: Seq(Events),
              fetch: {"none", "asked", "served"}, data: SUBSET Events,
              loaded: BOOLEAN, shown: SUBSET Events]

(* A page that has just loaded: its query is under way, its socket is not.   *)
Page(toasted) ==
  [socket |-> "closed", opened |-> FALSE, timer |-> FALSE, inbox |-> <<>>, seen |-> <<>>,
   toasted |-> toasted, fetch |-> "asked", data |-> {}, loaded |-> FALSE, shown |-> {}]

Committed == {e \in Events : phase[e] # "unborn"}

-----------------------------------------------------------------------------
(* Operators named Bad... are faulty forms of the definition that follows    *)
(* them, kept to show which property would notice; nothing uses them.        *)

(* Feed, and Redis between the outbox and the process. *)

Commit(e) ==
  /\ Feed!Appear(e)
  /\ UNCHANGED <<serverVars, tab, toasts, faults>>

(* Redis forwards to the subscriptions it knows and keeps nothing.           *)
Announce(e) ==
  /\ announced[e] < MaxCopies
  /\ Feed!Announce(e)
  /\ channel' = IF link = "live" THEN Append(channel, e) ELSE channel
  /\ UNCHANGED <<link, task, connections, tab, toasts, faults>>

Effective ==
  /\ link = "sent"
  /\ link' = "live"
  /\ UNCHANGED <<feedVars, channel, task, connections, tab, toasts, faults>>

Fault == faults < MaxFaults /\ faults' = faults + 1

LinkBreaks ==
  /\ Fault
  /\ link # "down"
  /\ link' = "down" /\ channel' = <<>>
  /\ UNCHANGED <<feedVars, task, connections, tab, toasts>>

-----------------------------------------------------------------------------
(* subscribe() and ConnectionManager.broadcast. *)

(* broadcast takes its snapshot of the sockets at once.                      *)
Broadcasting(msg, next, failed) ==
  [pc |-> "broadcast", next |-> next, failed |-> failed, msg |-> msg, left |-> connections]

BadFailing == [task EXCEPT !.pc = "sleep", !.failed = FALSE]

(* The except clause: tell the tabs once, then wait.                         *)
Failing ==
  IF task.failed THEN [task EXCEPT !.pc = "sleep"] ELSE Broadcasting(Resync, "sleep", TRUE)

(* subscribe returns when the command is written; recovery is announced then.*)
Subscribe ==
  /\ task.pc = "connect"
  /\ link' = "sent"
  /\ task' = IF task.failed THEN Broadcasting(Resync, "listen", FALSE)
             ELSE [task EXCEPT !.pc = "listen"]
  /\ UNCHANGED <<feedVars, channel, connections, tab, toasts, faults>>

ConnectFails ==
  /\ Fault
  /\ task.pc = "connect"
  /\ task' = Failing
  /\ UNCHANGED <<feedVars, link, channel, connections, tab, toasts>>

Listen ==
  /\ task.pc = "listen"
  /\ channel # <<>>
  /\ channel' = Tail(channel)
  /\ task' = Broadcasting(Head(channel), "listen", task.failed)
  /\ UNCHANGED <<feedVars, link, connections, tab, toasts, faults>>

Notice ==
  /\ task.pc = "listen"
  /\ link = "down"
  /\ task' = Failing
  /\ UNCHANGED <<feedVars, link, channel, connections, tab, toasts, faults>>

Wake ==
  /\ task.pc = "sleep"
  /\ task' = [task EXCEPT !.pc = "connect"]
  /\ UNCHANGED <<feedVars, link, channel, connections, tab, toasts, faults>>

(* send_text to one socket of the snapshot.                                  *)
Send(t) ==
  /\ task.pc = "broadcast"
  /\ t \in task.left
  /\ task' = [task EXCEPT !.left = @ \ {t}]
  /\ tab' = [tab EXCEPT ![t].inbox = Append(@, task.msg)]
  /\ UNCHANGED <<feedVars, link, channel, connections, toasts, faults>>

BroadcastEnds ==
  /\ task.pc = "broadcast"
  /\ task.left = {}
  /\ task' = [task EXCEPT !.pc = task.next]
  /\ UNCHANGED <<feedVars, link, channel, connections, tab, toasts, faults>>

-----------------------------------------------------------------------------
(* The socket of a tab. *)

(* websocket.accept(); the manager adds the socket in a later step.          *)
Accept(t) ==
  /\ tab[t].socket = "closed"
  /\ tab' = [tab EXCEPT ![t].socket = "half"]
  /\ UNCHANGED <<feedVars, serverVars, toasts, faults>>

Register(t) ==
  /\ tab[t].socket # "closed"
  /\ t \notin connections
  /\ connections' = connections \cup {t}
  /\ UNCHANGED <<feedVars, link, channel, task, tab, toasts, faults>>

BadInvalidated(p) == IF p.fetch = "none" THEN [p EXCEPT !.fetch = "asked"] ELSE p

(* invalidateQueries: a request under way is cancelled and sent again,       *)
(* unless the query has no data yet: then it is left to finish.              *)
Invalidated(p) ==
  IF p.fetch = "none" \/ p.loaded THEN [p EXCEPT !.fetch = "asked", !.data = {}] ELSE p

BadOpened(p) == [p EXCEPT !.socket = "open", !.opened = TRUE, !.timer = FALSE]

(* onopen: the first one does not invalidate.                                *)
Opened(p) ==
  LET open == [p EXCEPT !.socket = "open", !.opened = TRUE, !.timer = FALSE]
  IN IF p.opened THEN Invalidated(open) ELSE open

Open(t) ==
  /\ tab[t].socket = "half"
  /\ tab' = [tab EXCEPT ![t] = Opened(tab[t])]
  /\ UNCHANGED <<feedVars, serverVars, toasts, faults>>

(* What the server sent on a socket that is gone is lost, and so is the rest *)
(* of a broadcast to it.                                                     *)
Gone(gone) ==
  /\ connections' = connections \ gone
  /\ task' = [task EXCEPT !.left = @ \ gone]

Closed(p) == [p EXCEPT !.socket = "closed", !.timer = TRUE, !.inbox = <<>>]

SocketBreaks(t) ==
  /\ Fault
  /\ tab[t].socket # "closed"
  /\ tab' = [tab EXCEPT ![t] = Closed(tab[t])]
  /\ Gone({t})
  /\ UNCHANGED <<feedVars, link, channel, toasts>>

(* The process starts again, with its sockets and its failed flag lost.      *)
Restart ==
  /\ Fault
  /\ link' = "down" /\ channel' = <<>> /\ connections' = {} /\ task' = StartTask
  /\ tab' = [t \in Tabs |-> IF tab[t].socket = "closed" THEN tab[t] ELSE Closed(tab[t])]
  /\ UNCHANGED <<feedVars, toasts>>

-----------------------------------------------------------------------------
(* The tab. *)

Elements(s) == {s[i] : i \in DOMAIN s}

BadNewest(s) == s

(* The newest SeenLimit ids.                                                 *)
Newest(s) == IF Len(s) > SeenLimit THEN Tail(s) ELSE s

BadToasted(p, e) == p

(* sessionStorage, written before the toast is shown.                        *)
Toasted(p, e) == [p EXCEPT !.toasted = Newest(Append(@, e))]

(* onmessage.  live: the event is at most 60 s old.                          *)
Receive(t, live) ==
  LET p == tab[t]
      msg == Head(p.inbox)
      popped == [p EXCEPT !.inbox = Tail(@)]
      noted == Invalidated([popped EXCEPT !.seen = Newest(Append(@, msg))])
      toast == live /\ msg \in Events \ Elements(p.toasted)
  IN  /\ p.socket = "open"
      /\ p.inbox # <<>>
      /\ IF msg \in Events /\ msg \in Elements(p.seen)
         THEN /\ tab' = [tab EXCEPT ![t] = popped]
              /\ UNCHANGED toasts
         ELSE /\ tab' = [tab EXCEPT ![t] = IF toast THEN Toasted(noted, msg) ELSE noted]
              /\ toasts' = IF toast THEN [toasts EXCEPT ![<<t, msg>>] = @ + 1] ELSE toasts
      /\ UNCHANGED <<feedVars, serverVars, faults>>

(* The request reads the database.                                           *)
Serve(t) ==
  /\ tab[t].fetch = "asked"
  /\ tab' = [tab EXCEPT ![t].fetch = "served", ![t].data = Committed]
  /\ UNCHANGED <<feedVars, serverVars, toasts, faults>>

Land(t) ==
  /\ tab[t].fetch = "served"
  /\ tab' = [tab EXCEPT ![t].fetch = "none", ![t].data = {}, ![t].loaded = TRUE,
                        ![t].shown = tab[t].data]
  /\ UNCHANGED <<feedVars, serverVars, toasts, faults>>

(* The interval that runs from a close to the next open.                     *)
Reconcile(t) ==
  /\ tab[t].timer
  /\ tab' = [tab EXCEPT ![t] = Invalidated(tab[t])]
  /\ UNCHANGED <<feedVars, serverVars, toasts, faults>>

(* A reload keeps sessionStorage only.                                       *)
Reload(t) ==
  /\ Fault
  /\ tab' = [tab EXCEPT ![t] = Page(tab[t].toasted)]
  /\ Gone({t})
  /\ UNCHANGED <<feedVars, link, channel, toasts>>

-----------------------------------------------------------------------------
Init ==
  /\ Feed!Init
  /\ link = "down" /\ channel = <<>> /\ task = StartTask /\ connections = {}
  /\ tab = [t \in Tabs |-> Page(<<>>)]
  /\ toasts = [x \in Tabs \X Events |-> 0]
  /\ faults = 0

Server == Effective \/ Subscribe \/ Listen \/ Notice \/ Wake \/ BroadcastEnds

Browser(t) ==
  \/ Accept(t) \/ Register(t) \/ Open(t) \/ Send(t)
  \/ (\E live \in BOOLEAN : Receive(t, live))
  \/ Serve(t) \/ Land(t)

Next ==
  \/ \E e \in Events : Commit(e) \/ Announce(e)
  \/ Server \/ ConnectFails \/ LinkBreaks \/ Restart
  \/ \E t \in Tabs : Browser(t) \/ SocketBreaks(t) \/ Reload(t) \/ Reconcile(t)

Spec == Init /\ [][Next]_vars

(* Redis, the event loop, the network and the HTTP server get on with what   *)
(* they are asked; nothing obliges a fault, an event or a timer.             *)
Fairness ==
  /\ WF_vars(Effective) /\ WF_vars(Subscribe) /\ WF_vars(Listen) /\ WF_vars(Notice)
  /\ WF_vars(Wake) /\ WF_vars(BroadcastEnds)
  /\ \A t \in Tabs :
       /\ WF_vars(Accept(t)) /\ WF_vars(Register(t)) /\ WF_vars(Open(t)) /\ WF_vars(Send(t))
       /\ WF_vars(\E live \in BOOLEAN : Receive(t, live))
       /\ WF_vars(Serve(t)) /\ WF_vars(Land(t))

FairSpec == Spec /\ Fairness

-----------------------------------------------------------------------------
TypeOK ==
  /\ link \in Links /\ channel \in Seq(Events)
  /\ task \in Tasks /\ connections \subseteq Tabs
  /\ tab \in [Tabs -> TabStates]
  /\ toasts \in [Tabs \X Events -> Nat]
  /\ faults \in 0 .. MaxFaults
  /\ \A t \in Tabs : Len(tab[t].seen) <= SeenLimit /\ Len(tab[t].toasted) <= SeenLimit

(* A tab shows one toast for a notification, however often its event comes:  *)
(* announced twice, after a reconnection, a reload, or when its id has been  *)
(* dropped from seen (SEEN_LIMIT counts resyncs too).                        *)
ToastOnce == \A t \in Tabs, e \in Events : toasts[<<t, e>>] <= 1

(* What tells tab t of the change e: its event, when it is no duplicate, or  *)
(* a resync.                                                                 *)
Tells(t, msg, e) ==
  \/ msg = e /\ e \notin Elements(tab[t].seen)
  \/ msg = Resync /\ e \in Committed

(* A change whose event, or a resync after it, is broadcast while the socket *)
(* of a tab that is loaded and connected is registered is shown in the end:  *)
(* by the message, or, when the socket breaks under it, by the reopening;    *)
(* requests that were under way lose nothing.  (An event that comes while    *)
(* the tab loads is remembered without effect, and its copies are ignored.)  *)
ReachedIsShown ==
  \A t \in Tabs, e \in Events :
    (/\ task.pc = "broadcast" /\ t \in task.left /\ Tells(t, task.msg, e)
     /\ tab[t].opened /\ tab[t].loaded) ~> e \in tab[t].shown

(* A tab whose socket is lost shows in the end what was committed by then:   *)
(* reopening makes up for the messages that went to the lost socket.         *)
LostSocketIsMadeUp ==
  \A t \in Tabs, e \in Events :
    (/\ tab[t].socket = "closed" /\ tab[t].opened /\ tab[t].loaded /\ e \in Committed)
      ~> e \in tab[t].shown

(* When Redis is lost, the tabs that are connected are told, and show what   *)
(* was committed before: the messages lost with the link are made up for.    *)
LostLinkIsMadeUp ==
  \A t \in Tabs, e \in Events :
    (/\ task.pc = "listen" /\ link = "down" /\ e \in Committed
     /\ t \in connections /\ tab[t].opened /\ tab[t].loaded) ~> e \in tab[t].shown
=============================================================================
