------------------------------- MODULE Channels -------------------------------
(***************************************************************************)
(* The real-time channel hub of one backend process: backend/channels.py   *)
(* (registry, publish, recent messages), the WebSocket handler and the     *)
(* HTTP publish of backend/main.py, and backend/mqtt_bridge.py, which      *)
(* publishes what the MQTT broker delivers, what the hub itself forwarded  *)
(* included.                                                               *)
(*                                                                         *)
(* Everything runs on one event loop.  A step is what runs between two     *)
(* awaits that can suspend: a send to a socket, or the wait for a message. *)
(* The database calls and ch.subscribe, ch.unsubscribe, ch.disconnect do   *)
(* not suspend.  A publish iterates over the live set of subscribers while *)
(* it awaits each send.                                                    *)
(***************************************************************************)
EXTENDS Integers, Sequences, FiniteSets

CONSTANTS
  Sockets,      \* WebSocket connections, each used once
  Publishers,   \* bound: the sockets whose client publishes, once
  Requests,     \* POST /api/channels/publish calls
  Devices,      \* MQTT publishes of devices
  Bridges,      \* coroutines the bridge may start
  Chans,        \* channels of one organization
  NoChan,
  MaxRecent,    \* MAX_RECENT (100)
  ReplayLimit,  \* messages replayed to a new subscriber (10)
  MaxMoves      \* bound: subscribes and unsubscribes

ASSUME HubAssumption ==
  /\ MaxRecent \in Nat \ {0} /\ ReplayLimit \in 1..MaxRecent /\ MaxMoves \in Nat
  /\ NoChan \notin Chans /\ Publishers \subseteq Sockets

(* What publishes and what is published are named apart. *)
ASSUME NamesApart ==
  /\ Requests \intersect Publishers = {}
  /\ Bridges \intersect (Requests \union Publishers) = {}
  /\ Devices \intersect (Requests \union Publishers) = {}

Msgs == Requests \union Publishers \union Devices  \* named for who published it
Tasks == Requests \union Publishers \union Bridges \* coroutines that run publish

VARIABLES
  subs,    \* _subscribers: [Chans -> set of sockets]
  joined,  \* _connections[ws]["channels"], {} when there is no entry
  conn,    \* the WebSocket handlers: [pc, open, ask, list]
  recent,  \* _recent: [Chans -> Seq(Msgs)]
  task,    \* the publish coroutines
  broker,  \* messages the MQTT broker still has to deliver to the bridge
  moves,   \* subscribes and unsubscribes so far
  got,     \* history: messages each socket received
  casts    \* history: times each message was broadcast

vars == <<subs, joined, conn, recent, task, broker, moves, got, casts>>

(* cur: the socket being sent to; left, size: the set iterator; stirred: the *)
(* set changed since the iterator last looked; dead: sockets whose send      *)
(* failed; steady, disturbed: history of the set during the broadcast.       *)
IdleTask(t) ==
  [pc |-> "idle", msg |-> CHOOSE m \in Msgs : TRUE, chan |-> NoChan,
   cur |-> {}, left |-> {}, size |-> 0, stirred |-> FALSE, dead |-> {},
   steady |-> {}, disturbed |-> FALSE]

Init ==
  /\ subs = [c \in Chans |-> {}] /\ joined = [s \in Sockets |-> {}]
  /\ conn = [s \in Sockets |->
               [pc |-> "new", open |-> FALSE, ask |-> NoChan, list |-> <<>>]]
  /\ recent = [c \in Chans |-> <<>>]
  /\ task = [t \in Tasks |-> IdleTask(t)]
  /\ broker = {} /\ moves = 0
  /\ got = [s \in Sockets |-> {}] /\ casts = [m \in Msgs |-> 0]

-----------------------------------------------------------------------------
(* The registry.  Every change of a set is seen by the iterators over it.    *)

Registry(tasks, newsubs) ==
  /\ subs' = newsubs
  /\ task' = [t \in Tasks |->
       LET k == tasks[t] IN
         IF k.pc = "send" /\ newsubs[k.chan] # subs[k.chan]
           THEN [k EXCEPT !.stirred = TRUE, !.disturbed = TRUE,
                          !.steady = @ \intersect newsubs[k.chan]]
           ELSE k]

WithoutKeeping(S) == subs   \* mutant: the connection is dropped, not its entries
(* ch.disconnect: the sockets S leave every channel they joined. *)
Without(S) == [c \in Chans |-> subs[c] \ {s \in S : c \in joined[s]}]

Forget(S) == joined' = [s \in Sockets |-> IF s \in S THEN {} ELSE joined[s]]

Gone == [pc |-> "gone", open |-> FALSE, ask |-> NoChan, list |-> <<>>]
Serving(pc, ask, list) == [pc |-> pc, open |-> TRUE, ask |-> ask, list |-> list]
Waiting(open) == [pc |-> "recv", open |-> open, ask |-> NoChan, list |-> <<>>]

(* The handler of s moves on to the local state h. *)
Becomes(s, h) == conn' = [conn EXCEPT ![s] = h]

(* The end of a handler: finally: await ch.disconnect(websocket). *)
HandlerEnds(s, tasks) ==
  /\ Registry(tasks, Without({s})) /\ Forget({s})
  /\ Becomes(s, Gone)

-----------------------------------------------------------------------------
(* publish                                                                   *)

LastOf(q, n) == SubSeq(q, IF Len(q) > n THEN Len(q) - n + 1 ELSE 1, Len(q))

TrimLate(q) == IF Len(q) > MaxRecent + 1 THEN LastOf(q, MaxRecent) ELSE q \* mutant
Trim(q) == LastOf(q, MaxRecent)

(* What the iterator may still yield: when the set changed but has its old   *)
(* size again, its new table may show any of the present sockets.            *)
Rest(k) == IF k.stirred THEN SUBSET subs[k.chan] ELSE {k.left}

Intact(k) == Cardinality(subs[k.chan]) = k.size

Yields(t, k, mqtt) ==
  /\ Intact(k)
  /\ \E rest \in Rest(k) : \E s \in rest :
       task' = [task EXCEPT ![t] = [k EXCEPT !.pc = "send", !.cur = {s},
                                             !.left = rest \ {s}, !.stirred = FALSE]]
  /\ broker' = mqtt
  /\ UNCHANGED <<subs, joined, conn>>

Finished(k, how) == [k EXCEPT !.pc = how, !.cur = {}, !.left = {}, !.dead = {},
                              !.size = 0, !.stirred = FALSE]

ForwardsEcho(t) == TRUE   \* mutant: what came from the broker goes back to it
Forwards(t) == t \notin Bridges

(* The broadcast is over: dead sockets are cleaned up, then the HTTP call or *)
(* the WebSocket handler forwards the message to the broker.                 *)
Completes(t, k, mqtt) ==
  /\ Intact(k) /\ {} \in Rest(k)
  /\ Registry([task EXCEPT ![t] = Finished(k, "done")],
              [Without(k.dead) EXCEPT ![k.chan] = @ \ k.dead])
  /\ Forget(k.dead)
  /\ broker' = IF Forwards(t) THEN mqtt \union {[msg |-> k.msg, chan |-> k.chan]}
               ELSE mqtt
  /\ conn' = IF t \in Publishers THEN [conn EXCEPT ![t].pc = "ack"] ELSE conn

(* RuntimeError: Set changed size during iteration.  It ends the publish: no *)
(* clean-up, no forward; the WebSocket handler that published ends with it.  *)
Raises(t, k, mqtt) ==
  /\ ~Intact(k)
  /\ LET tasks == [task EXCEPT ![t] = Finished(k, "failed")] IN
       IF t \in Publishers THEN HandlerEnds(t, tasks)
       ELSE Registry(tasks, subs) /\ UNCHANGED <<joined, conn>>
  /\ broker' = mqtt

Continue(t, k, mqtt) == Yields(t, k, mqtt) \/ Completes(t, k, mqtt) \/ Raises(t, k, mqtt)

(* publish up to its iterator. *)
Stored(m, c) ==
  /\ recent' = [recent EXCEPT ![c] = Trim(Append(@, m))]
  /\ casts' = [casts EXCEPT ![m] = @ + 1]
  /\ UNCHANGED <<moves, got>>
Begun(m, c) ==
  [pc |-> "send", msg |-> m, chan |-> c, cur |-> {}, left |-> subs[c],
   size |-> Cardinality(subs[c]), stirred |-> FALSE, dead |-> {},
   steady |-> subs[c], disturbed |-> FALSE]

(* The send to cur ends, well or with an exception, and the loop goes on. *)
Resume(t) ==
  /\ task[t].pc = "send"
  /\ LET k == task[t]
         live == {s \in k.cur : conn[s].open} IN
       /\ got' = [s \in Sockets |-> IF s \in live THEN got[s] \union {k.msg} ELSE got[s]]
       /\ Continue(t, [k EXCEPT !.dead = @ \union (k.cur \ live)], broker)
  /\ UNCHANGED <<recent, moves, casts>>

(* The handler waits for a message of its client. *)
Busy(s) == s \in Publishers /\ task[s].pc = "send"
Receiving(s) == conn[s].pc = "recv" /\ conn[s].open /\ ~Busy(s)

(* POST /api/channels/publish *)
HttpPublish(r) ==
  /\ task[r].pc = "idle"
  /\ \E c \in Chans : Stored(r, c) /\ Continue(r, Begun(r, c), broker)

(* Action "publish" of a WebSocket client: its handler runs the publish. *)
WsPublish(s) ==
  /\ Receiving(s) /\ task[s].pc = "idle"
  /\ \E c \in Chans : Stored(s, c) /\ Continue(s, Begun(s, c), broker)

-----------------------------------------------------------------------------
(* The broker and the bridge.                                                *)

DevicePublish(d) ==
  /\ casts[d] = 0 /\ \A m \in broker : m.msg # d
  /\ \E c \in Chans : broker' = broker \union {[msg |-> d, chan |-> c]}
  /\ UNCHANGED <<subs, joined, conn, recent, task, moves, got, casts>>

(* on_message hands ch.publish to the event loop. *)
BridgePublish(b) ==
  /\ task[b].pc = "idle"
  /\ \E m \in broker :
       Stored(m.msg, m.chan) /\ Continue(b, Begun(m.msg, m.chan), broker \ {m})

-----------------------------------------------------------------------------
(* The WebSocket handler.                                                    *)

Accept(s) ==
  /\ conn[s].pc = "new"
  /\ Becomes(s, Waiting(TRUE))
  /\ UNCHANGED <<subs, joined, recent, task, broker, moves, got, casts>>

(* Action "subscribe", up to the send of {"subscribed": c}. *)
Subscribe(s, c) ==
  /\ Receiving(s) /\ moves < MaxMoves
  /\ Registry(task, [subs EXCEPT ![c] = @ \union {s}])
  /\ joined' = [joined EXCEPT ![s] = @ \union {c}]
  /\ Becomes(s, Serving("ack", c, <<>>))
  /\ moves' = moves + 1
  /\ UNCHANGED <<recent, broker, got, casts>>

UnsubscribeHalf(s, c) ==   \* mutant: the connection keeps the channel
  /\ Receiving(s) /\ moves < MaxMoves
  /\ Registry(task, [subs EXCEPT ![c] = @ \ {s}])
  /\ Becomes(s, Serving("ack", NoChan, <<>>))
  /\ moves' = moves + 1
  /\ UNCHANGED <<joined, recent, broker, got, casts>>

(* Action "unsubscribe", up to its reply. *)
Unsubscribe(s, c) ==
  /\ Receiving(s) /\ moves < MaxMoves
  /\ Registry(task, [subs EXCEPT ![c] = @ \ {s}])
  /\ joined' = [joined EXCEPT ![s] = @ \ {c}]
  /\ Becomes(s, Serving("ack", NoChan, <<>>))
  /\ moves' = moves + 1
  /\ UNCHANGED <<recent, broker, got, casts>>

AckNoReplay(s) ==   \* mutant: the recent messages are not sent
  /\ conn[s].pc = "ack"
  /\ IF conn[s].open
       THEN Becomes(s, Waiting(TRUE))
            /\ UNCHANGED <<subs, joined, task>>
       ELSE HandlerEnds(s, task)
  /\ UNCHANGED <<recent, broker, moves, got, casts>>

(* The reply is sent; for a subscribe, get_recent follows. *)
Ack(s) ==
  /\ conn[s].pc = "ack"
  /\ IF conn[s].open
       THEN /\ Becomes(s, IF conn[s].ask = NoChan THEN Waiting(TRUE)
                 ELSE Serving("replay", NoChan,
                              LastOf(recent[conn[s].ask], ReplayLimit)))
            /\ UNCHANGED <<subs, joined, task>>
       ELSE HandlerEnds(s, task)
  /\ UNCHANGED <<recent, broker, moves, got, casts>>

(* One recent message is sent, or there are no more. *)
Replay(s) ==
  /\ conn[s].pc = "replay"
  /\ \/ /\ conn[s].list = <<>>
        /\ Becomes(s, Waiting(conn[s].open))
        /\ UNCHANGED <<subs, joined, task, got>>
     \/ /\ conn[s].list # <<>> /\ conn[s].open
        /\ Becomes(s, Serving("replay", NoChan, Tail(conn[s].list)))
        /\ got' = [got EXCEPT ![s] = @ \union {Head(conn[s].list)}]
        /\ UNCHANGED <<subs, joined, task>>
     \/ /\ conn[s].list # <<>> /\ ~conn[s].open
        /\ HandlerEnds(s, task) /\ UNCHANGED got
  /\ UNCHANGED <<recent, broker, moves, casts>>

(* The client goes away ... *)
Close(s) ==
  /\ conn[s].open
  /\ conn' = [conn EXCEPT ![s].open = FALSE]
  /\ UNCHANGED <<subs, joined, recent, task, broker, moves, got, casts>>

DisconnectedSilently(s) ==   \* mutant: no finally, the registry keeps the socket
  /\ conn[s].pc = "recv" /\ ~Busy(s) /\ ~conn[s].open
  /\ Becomes(s, Gone)
  /\ UNCHANGED <<subs, joined, task, recent, broker, moves, got, casts>>

(* ... and the handler that waits for a message gets WebSocketDisconnect. *)
Disconnected(s) ==
  /\ conn[s].pc = "recv" /\ ~Busy(s) /\ ~conn[s].open
  /\ HandlerEnds(s, task)
  /\ UNCHANGED <<recent, broker, moves, got, casts>>

-----------------------------------------------------------------------------
Handler(s) == Ack(s) \/ Replay(s) \/ Disconnected(s)

Next ==
  \/ \E t \in Tasks : Resume(t)
  \/ \E r \in Requests : HttpPublish(r)
  \/ \E d \in Devices : DevicePublish(d)
  \/ \E b \in Bridges : BridgePublish(b)
  \/ \E s \in Publishers : WsPublish(s)
  \/ \E s \in Sockets :
       Accept(s) \/ Handler(s) \/ Close(s)
       \/ \E c \in Chans : Subscribe(s, c) \/ Unsubscribe(s, c)

Spec == Init /\ [][Next]_vars

(* The event loop resumes what is ready. *)
FairSpec ==
  /\ Spec
  /\ \A t \in Tasks : WF_vars(Resume(t))
  /\ \A s \in Sockets : WF_vars(Handler(s))

-----------------------------------------------------------------------------
(* Properties.                                                               *)

(* The hub's variables keep their types; _recent keeps its bound.            *)
TypeOK ==
  /\ subs \in [Chans -> SUBSET Sockets] /\ joined \in [Sockets -> SUBSET Chans]
  /\ \A s \in Sockets :
       /\ conn[s].pc \in {"new", "recv", "ack", "replay", "gone"}
       /\ conn[s].open \in BOOLEAN /\ conn[s].ask \in Chans \union {NoChan}
       /\ \A i \in DOMAIN conn[s].list : conn[s].list[i] \in Msgs
       /\ Len(conn[s].list) <= ReplayLimit
  /\ \A c \in Chans : Len(recent[c]) <= MaxRecent
  /\ \A t \in Tasks :
       /\ task[t].pc \in {"idle", "send", "done", "failed"}
       /\ task[t].cur \union task[t].left \union task[t].dead \subseteq Sockets
       /\ task[t].pc = "send" => Cardinality(task[t].cur) = 1
  /\ broker \subseteq [msg : Msgs, chan : Chans]
  /\ got \in [Sockets -> SUBSET Msgs] /\ casts \in [Msgs -> Nat]

(* The two halves of the registry agree: a socket is in the set of a channel *)
(* exactly if its connection lists the channel, although publishes remove    *)
(* dead sockets while handlers subscribe and unsubscribe.                    *)
RegistryAgrees ==
  \A s \in Sockets, c \in Chans : s \in subs[c] <=> c \in joined[s]

(* A handler that ended, by itself or by an exception of its own publish,    *)
(* leaves nothing behind in the registry.                                    *)
NoGhost ==
  \A s \in Sockets : conn[s].pc = "gone" => \A c \in Chans : s \notin subs[c]

(* A publish that returned, over a set nobody changed meanwhile, reached     *)
(* every subscriber that is still there: a dead socket costs no other one    *)
(* its message.                                                              *)
UndisturbedReachesAll ==
  \A t \in Tasks : task[t].pc = "done" /\ ~task[t].disturbed =>
    \A s \in task[t].steady : task[t].msg \in got[s] \/ ~conn[s].open

(* "Broadcasts to all subscribers": a publish that ended reached everyone    *)
(* who was subscribed all the while and is still connected.                  *)
PublishReachesAll ==
  \A t \in Tasks : task[t].pc \in {"done", "failed"} =>
    \A s \in task[t].steady : task[t].msg \in got[s] \/ ~conn[s].open

(* No gap between the replay and the live messages: a subscriber whose       *)
(* replay is over has each of the channel's last messages, or a publish is   *)
(* still sending it, or was broken off or disturbed.                         *)
NoGap ==
  \A s \in Sockets, c \in Chans :
    s \in subs[c] /\ Receiving(s) =>
      \A i \in DOMAIN LastOf(recent[c], ReplayLimit) :
        LET m == LastOf(recent[c], ReplayLimit)[i] IN
          \/ m \in got[s]
          \/ \E t \in Tasks : /\ task[t].msg = m
                              /\ \/ task[t].pc = "send" \/ task[t].pc = "failed"
                                 \/ task[t].disturbed

(* Together: no subscriber that stays misses a message, live or replayed,    *)
(* unless its set was changed during the broadcast.                          *)
Delivered == UndisturbedReachesAll /\ NoGap

(* What the hub forwards comes back once and is not forwarded again: at most *)
(* two broadcasts of a message, one of a device's.                           *)
EchoOnce ==
  \A m \in Msgs : casts[m] <= (IF m \in Devices THEN 1 ELSE 2)

(* A client that went away is forgotten, whatever its handler was doing.     *)
ClosedForgotten ==
  \A s \in Sockets :
    (conn[s].pc # "new" /\ ~conn[s].open) ~> (\A c \in Chans : s \notin subs[c])

(* Every publish ends.                                                       *)
PublishEnds ==
  \A t \in Tasks : (task[t].pc = "send") ~> (task[t].pc \in {"done", "failed"})

(* Both: no coroutine of the hub is left hanging.                            *)
TasksEnd == ClosedForgotten /\ PublishEnds
=============================================================================
