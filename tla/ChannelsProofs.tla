--------------------------- MODULE ChannelsProofs ---------------------------
(***************************************************************************)
(* Proofs about Channels, for any number of sockets, channels and          *)
(* concurrent publishes: the registry, the types, the echo of the broker   *)
(* and the delivery to the subscribers, each with an inductive invariant   *)
(* of its own.                                                             *)
(***************************************************************************)
EXTENDS Channels, FiniteSetTheorems, TLAPS

(* The two halves of the registry agree, and no ended handler is in it; of   *)
(* the handlers only the program counter matters.                            *)
RegInv ==
  /\ subs \in [Chans -> SUBSET Sockets] /\ joined \in [Sockets -> SUBSET Chans]
  /\ conn = [s \in Sockets |-> conn[s]]
  /\ \A s \in Sockets : "pc" \in DOMAIN conn[s]
  /\ RegistryAgrees /\ NoGhost

(* Sockets that leave every channel they joined: ch.disconnect, and the      *)
(* clean-up of the dead sockets of a broadcast (which discards them from the *)
(* set of its channel as well).                                              *)
LEMMA Leaving ==
  ASSUME RegInv, NEW S, NEW tasks, NEW newsubs, Registry(tasks, newsubs),
         Forget(S), newsubs \in [Chans -> SUBSET Sockets],
         \A c \in Chans : Without(S)[c] \ S = newsubs[c]
  PROVE  /\ subs' \in [Chans -> SUBSET Sockets]
         /\ joined' \in [Sockets -> SUBSET Chans]
         /\ RegistryAgrees'
         /\ \A c \in Chans : subs'[c] = subs[c] \ S
<1>1. \A c \in Chans : Without(S)[c] = subs[c] \ S
  BY DEF RegInv, RegistryAgrees, Without
<1>2. \A c \in Chans : newsubs[c] = subs[c] \ S
  BY <1>1
<1>3. joined' = [s \in Sockets |-> IF s \in S THEN {} ELSE joined[s]]
  BY DEF Forget
<1>4. subs' = newsubs
  BY DEF Registry
<1>5. RegistryAgrees'
  BY <1>2, <1>3, <1>4 DEF RegistryAgrees, RegInv
<1>6. QED
  BY <1>2, <1>3, <1>4, <1>5 DEF RegInv

(* The end of a handler. *)
LEMMA Ending ==
  ASSUME RegInv, NEW s \in Sockets, NEW tasks, HandlerEnds(s, tasks)
  PROVE  RegInv'
<1>1. \A c \in Chans : Without({s})[c] \ {s} = Without({s})[c]
  BY DEF RegInv, RegistryAgrees, Without
<1>2. Without({s}) \in [Chans -> SUBSET Sockets]
  BY DEF RegInv, Without
<1>3. /\ subs' \in [Chans -> SUBSET Sockets]
      /\ joined' \in [Sockets -> SUBSET Chans]
      /\ RegistryAgrees'
      /\ \A c \in Chans : subs'[c] = subs[c] \ {s}
  BY <1>1, <1>2, Leaving DEF HandlerEnds
<1>4. Becomes(s, Gone)
  BY DEF HandlerEnds
<1>5. /\ conn' = [x \in Sockets |-> conn'[x]]
      /\ \A x \in Sockets : "pc" \in DOMAIN conn'[x]
      /\ \A x \in Sockets : x # s => conn'[x] = conn[x]
  BY <1>4 DEF RegInv, Becomes, Gone
<1>6. NoGhost'
  BY <1>3, <1>5 DEF RegInv, NoGhost
<1>7. QED
  BY <1>3, <1>5, <1>6 DEF RegInv

(* A step that leaves the registry alone and ends no handler. *)
LEMMA Quiet ==
  ASSUME RegInv, UNCHANGED <<subs, joined>>,
         conn' = [x \in Sockets |-> conn'[x]],
         \A x \in Sockets : "pc" \in DOMAIN conn'[x],
         \A x \in Sockets : conn'[x].pc = "gone" => conn[x].pc = "gone"
  PROVE  RegInv'
BY DEF RegInv, RegistryAgrees, NoGhost

(* The steps of a publish. *)
LEMMA Publishing ==
  ASSUME RegInv, NEW t \in Tasks, NEW k, NEW mqtt, Continue(t, k, mqtt)
  PROVE  RegInv'
<1>1. CASE Yields(t, k, mqtt)
  BY <1>1, Quiet DEF Yields, RegInv
<1>2. CASE Completes(t, k, mqtt)
  <2> DEFINE W == Without(k.dead)
             newsubs == [W EXCEPT ![k.chan] = @ \ k.dead]
  <2>1. W \in [Chans -> SUBSET Sockets]
    BY DEF RegInv, Without
  <2>2. \A c \in Chans : W[c] \ k.dead = W[c]
    BY DEF RegInv, RegistryAgrees, Without
  <2> HIDE DEF W
  <2>3. newsubs \in [Chans -> SUBSET Sockets]
        /\ \A c \in Chans : W[c] \ k.dead = newsubs[c]
    BY <2>1, <2>2
  <2> HIDE DEF newsubs
  <2>4. /\ Registry([task EXCEPT ![t] = Finished(k, "done")], newsubs)
        /\ Forget(k.dead)
    BY <1>2 DEF Completes, newsubs, W
  <2>5. /\ subs' \in [Chans -> SUBSET Sockets]
        /\ joined' \in [Sockets -> SUBSET Chans]
        /\ RegistryAgrees'
        /\ \A c \in Chans : subs'[c] = subs[c] \ k.dead
    BY <2>3, <2>4, Leaving DEF W
  <2>6. conn' = IF t \in Publishers THEN [conn EXCEPT ![t].pc = "ack"] ELSE conn
    BY <1>2 DEF Completes
  <2>7. /\ conn' = [x \in Sockets |-> conn'[x]]
        /\ \A x \in Sockets : "pc" \in DOMAIN conn'[x]
        /\ \A x \in Sockets : conn'[x].pc = "gone" => conn[x].pc = "gone"
    BY <2>6 DEF RegInv
  <2>8. NoGhost'
    BY <2>5, <2>7 DEF RegInv, NoGhost
  <2>9. QED
    BY <2>5, <2>7, <2>8 DEF RegInv
<1>3. CASE Raises(t, k, mqtt)
  <2>1. CASE t \in Publishers
    <3>1. t \in Sockets
      BY <2>1, HubAssumption
    <3>2. PICK tasks : HandlerEnds(t, tasks)
      BY <1>3, <2>1 DEF Raises
    <3>3. QED
      BY <3>1, <3>2, Ending
  <2>2. CASE t \notin Publishers
    BY <1>3, <2>2, Quiet DEF Raises, Registry, RegInv
  <2>3. QED
    BY <2>1, <2>2
<1>4. QED
  BY <1>1, <1>2, <1>3 DEF Continue

(* A handler that goes on: subscribe, unsubscribe, replies, a close. *)
LEMMA Handling ==
  ASSUME RegInv, NEW s \in Sockets,
         \/ Accept(s) \/ Handler(s) \/ Close(s)
         \/ \E c \in Chans : Subscribe(s, c) \/ Unsubscribe(s, c)
  PROVE  RegInv'
<1>0. ASSUME NEW l, Becomes(s, l), "pc" \in DOMAIN l, l.pc # "gone",
             UNCHANGED <<subs, joined>>
      PROVE  RegInv'
  <2>1. /\ conn' = [x \in Sockets |-> conn'[x]]
        /\ \A x \in Sockets : "pc" \in DOMAIN conn'[x]
        /\ \A x \in Sockets : conn'[x].pc = "gone" => conn[x].pc = "gone"
    BY <1>0 DEF RegInv, Becomes
  <2>2. QED
    BY <1>0, <2>1, Quiet
<1>1. CASE Accept(s)
  <2>1. Becomes(s, Waiting(TRUE)) /\ UNCHANGED <<subs, joined>>
    BY <1>1 DEF Accept
  <2>2. QED
    BY <1>0, <2>1 DEF Waiting
<1>2. CASE Close(s)
  <2>1. conn' = [conn EXCEPT ![s] = [conn[s] EXCEPT !.open = FALSE]]
    BY <1>2 DEF Close
  <2>2. /\ [conn[s] EXCEPT !.open = FALSE].pc = conn[s].pc
        /\ DOMAIN [conn[s] EXCEPT !.open = FALSE] = DOMAIN conn[s]
    BY DEF RegInv
  <2>3. UNCHANGED <<subs, joined>>
    BY <1>2 DEF Close
  <2>4. QED
    BY <2>1, <2>2, <2>3, Quiet DEF RegInv
<1>3. CASE Ack(s)
  <2>1. CASE conn[s].open
    <3>1. UNCHANGED <<subs, joined>>
      BY <1>3, <2>1 DEF Ack
    <3>2. PICK list : Becomes(s, Waiting(TRUE))
                    \/ Becomes(s, Serving("replay", NoChan, list))
      BY <1>3, <2>1 DEF Ack
    <3>3. QED
      BY <1>0, <3>1, <3>2 DEF Serving, Waiting
  <2>2. CASE ~conn[s].open
    BY <1>3, <2>2, Ending DEF Ack
  <2>3. QED
    BY <2>1, <2>2
<1>4. CASE Replay(s)
  <2>1. CASE HandlerEnds(s, task)
    BY <2>1, Ending
  <2>2. ASSUME NEW open, Becomes(s, Waiting(open)), UNCHANGED <<subs, joined>>
        PROVE  RegInv'
    BY <1>0, <2>2 DEF Waiting
  <2>3. ASSUME NEW list, Becomes(s, Serving("replay", NoChan, list)),
               UNCHANGED <<subs, joined>>
        PROVE  RegInv'
    BY <1>0, <2>3 DEF Serving
  <2>4. QED
    BY <1>4, <2>1, <2>2, <2>3 DEF Replay
<1>5. CASE Disconnected(s)
  BY <1>5, Ending DEF Disconnected
<1>6. ASSUME NEW c \in Chans, Subscribe(s, c) PROVE RegInv'
  <2>1. /\ subs' = [subs EXCEPT ![c] = @ \union {s}]
        /\ joined' = [joined EXCEPT ![s] = @ \union {c}]
    BY <1>6 DEF Subscribe, Registry
  <2>2. Becomes(s, Serving("ack", c, <<>>))
    BY <1>6 DEF Subscribe
  <2>3. subs' \in [Chans -> SUBSET Sockets] /\ joined' \in [Sockets -> SUBSET Chans]
    BY <2>1 DEF RegInv
  <2>4. RegistryAgrees'
    BY <2>1 DEF RegInv, RegistryAgrees
  <2>5. /\ conn' = [x \in Sockets |-> conn'[x]] /\ conn'[s].pc # "gone"
        /\ \A x \in Sockets : "pc" \in DOMAIN conn'[x]
        /\ \A x \in Sockets \ {s} : conn'[x] = conn[x]
    BY <2>2 DEF RegInv, Serving, Becomes
  <2>6. NoGhost'
    BY <2>1, <2>5 DEF RegInv, NoGhost
  <2>7. QED
    BY <2>3, <2>4, <2>5, <2>6 DEF RegInv
<1>7. ASSUME NEW c \in Chans, Unsubscribe(s, c) PROVE RegInv'
  <2>1. /\ subs' = [subs EXCEPT ![c] = @ \ {s}]
        /\ joined' = [joined EXCEPT ![s] = @ \ {c}]
    BY <1>7 DEF Unsubscribe, Registry
  <2>2. Becomes(s, Serving("ack", NoChan, <<>>))
    BY <1>7 DEF Unsubscribe
  <2>3. subs' \in [Chans -> SUBSET Sockets] /\ joined' \in [Sockets -> SUBSET Chans]
    BY <2>1 DEF RegInv
  <2>4. RegistryAgrees'
    BY <2>1 DEF RegInv, RegistryAgrees
  <2>5. /\ conn' = [x \in Sockets |-> conn'[x]] /\ conn'[s].pc # "gone"
        /\ \A x \in Sockets : "pc" \in DOMAIN conn'[x]
        /\ \A x \in Sockets \ {s} : conn'[x] = conn[x]
    BY <2>2 DEF RegInv, Serving, Becomes
  <2>6. NoGhost'
    BY <2>1, <2>5 DEF RegInv, NoGhost
  <2>7. QED
    BY <2>3, <2>4, <2>5, <2>6 DEF RegInv
<1>8. QED
  BY <1>1, <1>2, <1>3, <1>4, <1>5, <1>6, <1>7 DEF Handler

LEMMA RegStep == RegInv /\ [Next]_vars => RegInv'
<1> SUFFICES ASSUME RegInv, [Next]_vars PROVE RegInv'
  OBVIOUS
<1>1. CASE \E t \in Tasks : Resume(t)
  <2>1. PICK t, k : t \in Tasks /\ Continue(t, k, broker)
    BY <1>1 DEF Resume
  <2>2. QED
    BY <2>1, Publishing
<1>2. CASE \E r \in Requests : HttpPublish(r)
  <2>1. PICK r \in Requests, c \in Chans : Continue(r, Begun(r, c), broker)
    BY <1>2 DEF HttpPublish
  <2>2. QED
    BY <2>1, Publishing DEF Tasks
<1>3. CASE \E s \in Publishers : WsPublish(s)
  <2>1. PICK s \in Publishers, c \in Chans : Continue(s, Begun(s, c), broker)
    BY <1>3 DEF WsPublish
  <2>2. QED
    BY <2>1, Publishing DEF Tasks
<1>4. CASE \E b \in Bridges : BridgePublish(b)
  <2>1. PICK b \in Bridges, m \in broker :
          Continue(b, Begun(m.msg, m.chan), broker \ {m})
    BY <1>4 DEF BridgePublish
  <2>2. QED
    BY <2>1, Publishing DEF Tasks
<1>5. CASE \E d \in Devices : DevicePublish(d)
  BY <1>5, Quiet DEF DevicePublish, RegInv
<1>6. CASE \E s \in Sockets :
             \/ Accept(s) \/ Handler(s) \/ Close(s)
             \/ \E c \in Chans : Subscribe(s, c) \/ Unsubscribe(s, c)
  BY <1>6, Handling
<1>7. CASE UNCHANGED vars
  BY <1>7, Quiet DEF vars, RegInv
<1>8. QED
  BY <1>1, <1>2, <1>3, <1>4, <1>5, <1>6, <1>7 DEF Next

LEMMA RegInit == Init => RegInv
BY DEF Init, RegInv, RegistryAgrees, NoGhost

(* A socket is in the set of a channel exactly if its connection lists the   *)
(* channel, however many publishes clean up dead sockets, raise, or are      *)
(* suspended while handlers subscribe, unsubscribe and end.                  *)
THEOREM RegistryAgreesHolds == Spec => []RegistryAgrees
<1>1. RegInv => RegistryAgrees
  BY DEF RegInv
<1>2. QED
  BY <1>1, RegInit, RegStep, PTL DEF Spec

(* No handler that ended is in the registry: nothing is ever sent to it by a *)
(* publish that starts later, and no entry is left that nobody would remove. *)
THEOREM NoGhostHolds == Spec => []NoGhost
<1>1. RegInv => NoGhost
  BY DEF RegInv
<1>2. QED
  BY <1>1, RegInit, RegStep, PTL DEF Spec

-----------------------------------------------------------------------------
(* Types.  size is a cardinality, whether or not the sockets are finite.     *)
ConnRec ==
  [pc : {"new", "recv", "ack", "replay", "gone"}, open : BOOLEAN,
   ask : Chans \union {NoChan}, list : Seq(Msgs)]

TaskRec ==
  [pc : {"idle", "send", "done", "failed"},
   msg : Msgs \union {CHOOSE m \in Msgs : TRUE},
   chan : Chans \union {NoChan}, cur : SUBSET Sockets, left : SUBSET Sockets,
   size : {0} \union {Cardinality(S) : S \in SUBSET Sockets},
   stirred : BOOLEAN, dead : SUBSET Sockets, steady : SUBSET Sockets,
   disturbed : BOOLEAN]

(* A coroutine that began has a message and a channel; one that is suspended *)
(* is sending to one socket.                                                 *)
TaskOK(k) ==
  /\ k.pc # "idle" => k.msg \in Msgs /\ k.chan \in Chans
  /\ k.pc = "send" => \E s \in Sockets : k.cur = {s}

RegistryTyped ==
  subs \in [Chans -> SUBSET Sockets] /\ joined \in [Sockets -> SUBSET Chans]
ConnTyped ==
  conn \in [Sockets -> ConnRec] /\ \A s \in Sockets : Len(conn[s].list) <= ReplayLimit
RecentTyped ==
  recent \in [Chans -> Seq(Msgs)] /\ \A c \in Chans : Len(recent[c]) <= MaxRecent
TasksTyped == task \in [Tasks -> TaskRec] /\ \A t \in Tasks : TaskOK(task[t])
BrokerTyped == broker \subseteq [msg : Msgs, chan : Chans]
GotTyped == got \in [Sockets -> SUBSET Msgs] /\ casts \in [Msgs -> Nat]

HubType == RegistryTyped /\ ConnTyped /\ RecentTyped /\ TasksTyped
             /\ BrokerTyped /\ GotTyped

(* The last n of a sequence: what is in them, and in those of the sequence   *)
(* with one more.                                                            *)
LEMMA LastOfType ==
  ASSUME NEW S, NEW q \in Seq(S), NEW n \in Nat \ {0}
  PROVE  /\ LastOf(q, n) \in Seq(S) /\ Len(LastOf(q, n)) <= n
         /\ Len(LastOf(q, n)) = (IF Len(q) > n THEN n ELSE Len(q))
         /\ \A i \in 1..Len(LastOf(q, n)) :
              LastOf(q, n)[i] = q[i + (Len(q) - Len(LastOf(q, n)))]
<1>1. CASE Len(q) > n
  <2>1. LastOf(q, n) = SubSeq(q, Len(q) - n + 1, Len(q))
    BY <1>1 DEF LastOf
  <2>2. /\ SubSeq(q, Len(q) - n + 1, Len(q)) \in Seq(S)
        /\ Len(SubSeq(q, Len(q) - n + 1, Len(q))) = n
        /\ \A i \in 1..n : SubSeq(q, Len(q) - n + 1, Len(q))[i] = q[i + (Len(q) - n)]
    BY <1>1
  <2>3. QED
    BY <1>1, <2>1, <2>2
<1>2. CASE ~(Len(q) > n)
  <2>1. LastOf(q, n) = SubSeq(q, 1, Len(q)) /\ Len(q) \in Nat /\ Len(q) <= n
    BY <1>2 DEF LastOf
  <2>2. /\ SubSeq(q, 1, Len(q)) \in Seq(S) /\ Len(SubSeq(q, 1, Len(q))) = Len(q)
        /\ \A i \in 1..Len(q) : SubSeq(q, 1, Len(q))[i] = q[i]
    OBVIOUS
  <2>3. LastOf(q, n) \in Seq(S) /\ Len(LastOf(q, n)) = Len(q)
    BY <2>1, <2>2
  <2>4. ASSUME NEW i \in 1..Len(q)
        PROVE  LastOf(q, n)[i] = q[i + (Len(q) - Len(q))]
    <3>1. i + (Len(q) - Len(q)) = i
      BY <2>1
    <3>2. QED
      BY <2>1, <2>2, <3>1
  <2>5. QED
    BY <1>2, <2>1, <2>3, <2>4
<1>3. QED
  BY <1>1, <1>2

Among(q) == {q[i] : i \in DOMAIN q}

LEMMA LastOfMore ==
  ASSUME NEW S, NEW q \in Seq(S), NEW m \in S, NEW n \in 1..MaxRecent
  PROVE  Among(LastOf(Trim(Append(q, m)), n)) \subseteq
           Among(LastOf(q, n)) \union {m}
<1> DEFINE a == Append(q, m)
           b == Trim(a)
<1>0. n \in Nat \ {0} /\ MaxRecent \in Nat \ {0} /\ n <= MaxRecent
  BY HubAssumption
<1>1. /\ a \in Seq(S) /\ Len(a) = Len(q) + 1 /\ a[Len(q) + 1] = m
      /\ \A i \in 1..Len(q) : a[i] = q[i]
  OBVIOUS
<1> HIDE DEF a
<1>2. /\ b \in Seq(S) /\ Len(b) = (IF Len(a) > MaxRecent THEN MaxRecent ELSE Len(a))
      /\ \A i \in 1..Len(b) : b[i] = a[i + (Len(a) - Len(b))]
  BY <1>0, <1>1, LastOfType DEF Trim
<1> HIDE DEF b
<1>3. /\ LastOf(b, n) \in Seq(S)
      /\ Len(LastOf(b, n)) = (IF Len(b) > n THEN n ELSE Len(b))
      /\ \A i \in 1..Len(LastOf(b, n)) :
           LastOf(b, n)[i] = b[i + (Len(b) - Len(LastOf(b, n)))]
  BY <1>0, <1>2, LastOfType
<1>4. /\ LastOf(q, n) \in Seq(S)
      /\ Len(LastOf(q, n)) = (IF Len(q) > n THEN n ELSE Len(q))
      /\ \A i \in 1..Len(LastOf(q, n)) :
           LastOf(q, n)[i] = q[i + (Len(q) - Len(LastOf(q, n)))]
  BY <1>0, LastOfType
<1>5. ASSUME NEW i \in 1..Len(LastOf(b, n))
      PROVE  LastOf(b, n)[i] \in Among(LastOf(q, n)) \union {m}
  <2>0. PICK A \in Nat, B \in Nat, Q \in Nat, C \in Nat, D \in Nat :
          /\ A = Len(a) /\ B = Len(b) /\ Q = Len(q)
          /\ C = Len(LastOf(b, n)) /\ D = Len(LastOf(q, n))
    BY <1>1, <1>2, <1>3, <1>4
  <2>1. /\ A = Q + 1 /\ B = (IF A > MaxRecent THEN MaxRecent ELSE A)
        /\ C = (IF B > n THEN n ELSE B) /\ D = (IF Q > n THEN n ELSE Q)
        /\ i \in 1..C
    BY <1>1, <1>2, <1>3, <1>4, <2>0
  <2>2. i + (B - C) \in 1..B /\ (i + (B - C)) + (A - B) = i + (A - C)
    BY <1>0, <2>1
  <2>3. LastOf(b, n)[i] = a[i + (A - C)]
    BY <1>2, <1>3, <2>0, <2>1, <2>2
  <2>4. CASE i + (A - C) = Q + 1
    BY <1>1, <2>0, <2>3, <2>4
  <2>5. CASE i + (A - C) # Q + 1
    <3>1. /\ i + (A - C) \in 1..Q /\ i + (A - C) - (Q - D) \in 1..D
          /\ (i + (A - C) - (Q - D)) + (Q - D) = i + (A - C)
      BY <1>0, <2>1, <2>5
    <3>2. LastOf(b, n)[i] = q[i + (A - C)]
      BY <1>1, <2>0, <2>3, <3>1
    <3>3. LastOf(q, n)[i + (A - C) - (Q - D)] = q[i + (A - C)]
      BY <1>4, <2>0, <3>1
    <3>4. i + (A - C) - (Q - D) \in DOMAIN LastOf(q, n)
      BY <1>4, <2>0, <3>1
    <3>5. QED
      BY <3>2, <3>3, <3>4 DEF Among
  <2>6. QED
    BY <2>4, <2>5
<1>6. QED
  BY <1>3, <1>5 DEF Among, a, b

(* What a change of the registry does to the publishes: those that iterate   *)
(* over a set that changes are disturbed, and nothing else of them changes.  *)
SameTask(k, j) ==
  /\ j.pc = k.pc /\ j.msg = k.msg /\ j.chan = k.chan
  /\ j.cur = k.cur /\ j.left = k.left /\ j.steady \subseteq k.steady

Undisturbed(k, j) ==
  /\ SameTask(k, j)
  /\ \/ j.disturbed /\ k.pc = "send"
     \/ j = k /\ (j.pc = "send" => subs'[j.chan] = subs[j.chan])

LEMMA RegistryFields ==
  ASSUME NEW tasks \in [Tasks -> TaskRec],
         NEW newsubs \in [Chans -> SUBSET Sockets], Registry(tasks, newsubs),
         \A t \in Tasks : TaskOK(tasks[t])
  PROVE  /\ subs' = newsubs /\ TasksTyped'
         /\ \A t \in Tasks : Undisturbed(tasks[t], task'[t])
<1>0. subs' = newsubs
  BY DEF Registry
<1>1. ASSUME NEW t \in Tasks
      PROVE  /\ task'[t] \in TaskRec /\ TaskOK(task'[t])
             /\ Undisturbed(tasks[t], task'[t])
  <2> DEFINE k == tasks[t]
             j == [k EXCEPT !.stirred = TRUE, !.disturbed = TRUE,
                            !.steady = @ \intersect newsubs[k.chan]]
  <2>1. k \in TaskRec /\ TaskOK(k)
    OBVIOUS
  <2>2. task'[t] = IF k.pc = "send" /\ newsubs[k.chan] # subs[k.chan] THEN j ELSE k
    BY DEF Registry
  <2>3. CASE k.pc = "send" /\ newsubs[k.chan] # subs[k.chan]
    <3>1. task'[t] = j
      BY <2>2, <2>3
    <3>2. /\ j \in TaskRec /\ j.disturbed = TRUE /\ j.pc = k.pc /\ j.msg = k.msg
          /\ j.chan = k.chan /\ j.cur = k.cur /\ j.left = k.left
          /\ j.steady \subseteq k.steady
      BY <2>1 DEF TaskRec
    <3> HIDE DEF j, k
    <3>3. QED
      BY <2>1, <2>3, <3>1, <3>2 DEF TaskOK, SameTask, Undisturbed, k
  <2>4. CASE ~(k.pc = "send" /\ newsubs[k.chan] # subs[k.chan])
    <3>1. task'[t] = k
      BY <2>2, <2>4
    <3> HIDE DEF k
    <3>2. QED
      BY <1>0, <2>1, <2>4, <3>1 DEF SameTask, Undisturbed, k
  <2>5. QED
    BY <2>3, <2>4
<1>2. subs' = newsubs /\ task' = [t \in Tasks |-> task'[t]]
  BY DEF Registry
<1>3. task' \in [Tasks -> TaskRec]
  BY <1>1, <1>2
<1>4. QED
  BY <1>1, <1>2, <1>3 DEF TasksTyped

(* The end of a broadcast, well or with an exception. *)
LEMMA FinishedType ==
  ASSUME NEW k \in TaskRec, NEW how \in {"done", "failed"},
         k.msg \in Msgs, k.chan \in Chans
  PROVE  /\ Finished(k, how) \in TaskRec /\ TaskOK(Finished(k, how))
         /\ Finished(k, how).pc = how /\ Finished(k, how).msg = k.msg
         /\ Finished(k, how).chan = k.chan
         /\ Finished(k, how).steady = k.steady
         /\ Finished(k, how).disturbed = k.disturbed
<1> DEFINE j == [k EXCEPT !.pc = how, !.cur = {}, !.left = {}, !.dead = {},
                          !.size = 0, !.stirred = FALSE]
<1>1. /\ j \in TaskRec /\ j.pc = how /\ j.msg = k.msg /\ j.chan = k.chan
      /\ j.steady = k.steady /\ j.disturbed = k.disturbed
  BY DEF TaskRec
<1> HIDE DEF j
<1>2. TaskOK(j)
  BY <1>1 DEF TaskOK
<1>3. QED
  BY <1>1, <1>2 DEF Finished, j

(* The send of the next socket. *)
Sending(k, s, rest) ==
  [k EXCEPT !.pc = "send", !.cur = {s}, !.left = rest \ {s}, !.stirred = FALSE]

LEMMA SendingType ==
  ASSUME NEW k \in TaskRec, NEW s \in Sockets, NEW rest \in SUBSET Sockets,
         k.msg \in Msgs, k.chan \in Chans
  PROVE  Sending(k, s, rest) \in TaskRec /\ TaskOK(Sending(k, s, rest))
<1> DEFINE j == [k EXCEPT !.pc = "send", !.cur = {s}, !.left = rest \ {s},
                          !.stirred = FALSE]
<1>1. j \in TaskRec /\ j.msg = k.msg /\ j.chan = k.chan /\ j.cur = {s}
  BY DEF TaskRec
<1> HIDE DEF j
<1>2. TaskOK(j)
  BY <1>1 DEF TaskOK
<1>3. QED
  BY <1>1, <1>2 DEF Sending, j

LEMMA RestType ==
  ASSUME RegistryTyped, NEW k \in TaskRec, k.chan \in Chans
  PROVE  \A rest \in Rest(k) : rest \in SUBSET Sockets
BY DEF RegistryTyped, Rest, TaskRec

(* The three ways a publish goes on, each with what it does to the           *)
(* coroutines, the registry, the handlers and the broker.                    *)
Shrunk(newsubs) ==
  newsubs \in [Chans -> SUBSET Sockets] /\ \A c \in Chans : newsubs[c] \subseteq subs[c]

GoesOn(t, k, mqtt) ==
  /\ \E rest \in Rest(k) : \E s \in rest :
       task' = [task EXCEPT ![t] = Sending(k, s, rest)]
  /\ broker' = mqtt /\ UNCHANGED <<subs, joined, conn>>
Ends(t, k, mqtt) ==
  /\ {} \in Rest(k)
  /\ \E newsubs : /\ Shrunk(newsubs)
                  /\ Registry([task EXCEPT ![t] = Finished(k, "done")], newsubs)
  /\ Forget(k.dead)
  /\ broker' = IF Forwards(t) THEN mqtt \union {[msg |-> k.msg, chan |-> k.chan]}
               ELSE mqtt
  /\ conn' = IF t \in Publishers THEN [conn EXCEPT ![t].pc = "ack"] ELSE conn
BreaksOff(t, k, mqtt) ==
  /\ \E newsubs : /\ Shrunk(newsubs)
                  /\ Registry([task EXCEPT ![t] = Finished(k, "failed")], newsubs)
  /\ \/ t \in Publishers /\ Forget({t}) /\ Becomes(t, Gone)
     \/ t \notin Publishers /\ UNCHANGED <<joined, conn>>
  /\ broker' = mqtt

Goes(t, k, mqtt) == GoesOn(t, k, mqtt) \/ Ends(t, k, mqtt) \/ BreaksOff(t, k, mqtt)

LEMMA ContinueGoes ==
  ASSUME RegistryTyped, NEW t, NEW k, NEW mqtt, Continue(t, k, mqtt)
  PROVE  Goes(t, k, mqtt)
<1>1. CASE Yields(t, k, mqtt)
  BY <1>1 DEF Yields, Goes, GoesOn, Sending
<1>2. CASE Completes(t, k, mqtt)
  <2> DEFINE W == Without(k.dead)
             newsubs == [W EXCEPT ![k.chan] = @ \ k.dead]
  <2>1. W \in [Chans -> SUBSET Sockets] /\ \A c \in Chans : W[c] \subseteq subs[c]
    BY DEF RegistryTyped, Without
  <2> HIDE DEF W
  <2>2. Shrunk(newsubs)
    BY <2>1 DEF Shrunk
  <2>3. Registry([task EXCEPT ![t] = Finished(k, "done")], newsubs)
    BY <1>2 DEF Completes, W
  <2> HIDE DEF newsubs
  <2>4. QED
    BY <1>2, <2>2, <2>3 DEF Completes, Goes, Ends
<1>3. CASE Raises(t, k, mqtt)
  <2> DEFINE tasks == [task EXCEPT ![t] = Finished(k, "failed")]
  <2>1. CASE t \in Publishers
    <3>1. Registry(tasks, Without({t})) /\ Forget({t}) /\ Becomes(t, Gone)
      BY <1>3, <2>1 DEF Raises, HandlerEnds
    <3>2. Shrunk(Without({t}))
      BY DEF RegistryTyped, Without, Shrunk
    <3>3. QED
      BY <1>3, <2>1, <3>1, <3>2 DEF Goes, BreaksOff, Raises
  <2>2. CASE t \notin Publishers
    <3>1. Shrunk(subs)
      BY DEF RegistryTyped, Shrunk
    <3>2. QED
      BY <1>3, <2>2, <3>1 DEF Raises, Goes, BreaksOff
  <2>3. QED
    BY <2>1, <2>2
<1>4. QED
  BY <1>1, <1>2, <1>3 DEF Continue

LEMMA TaskReplaced ==
  ASSUME TasksTyped, NEW t \in Tasks, NEW j \in TaskRec, TaskOK(j)
  PROVE  /\ [task EXCEPT ![t] = j] \in [Tasks -> TaskRec]
         /\ \A u \in Tasks : TaskOK([task EXCEPT ![t] = j][u])
         /\ \A u \in Tasks : [task EXCEPT ![t] = j][u] = IF u = t THEN j ELSE task[u]
BY DEF TasksTyped

(* Handlers keep their type when one moves on. *)
LEMMA BecomesTyped ==
  ASSUME ConnTyped, NEW s \in Sockets, NEW h \in ConnRec,
         Len(h.list) <= ReplayLimit, Becomes(s, h)
  PROVE  ConnTyped'
BY DEF ConnTyped, Becomes

LEMMA GoneTyped == Gone \in ConnRec /\ Len(Gone.list) <= ReplayLimit
<1>1. ReplayLimit \in Nat
  BY HubAssumption
<1>2. QED
  BY <1>1 DEF Gone, ConnRec

LEMMA GoesTyped ==
  ASSUME RegistryTyped, ConnTyped, TasksTyped, NEW t \in Tasks,
         NEW k \in TaskRec, k.msg \in Msgs, k.chan \in Chans,
         NEW mqtt, Goes(t, k, mqtt)
  PROVE  RegistryTyped' /\ ConnTyped' /\ TasksTyped'
<1>1. ASSUME NEW rest \in Rest(k), NEW s \in rest,
             task' = [task EXCEPT ![t] = Sending(k, s, rest)],
             UNCHANGED <<subs, joined, conn>>
      PROVE  RegistryTyped' /\ ConnTyped' /\ TasksTyped'
  <2>1. rest \in SUBSET Sockets /\ s \in Sockets
    BY <1>1, RestType
  <2>2. TasksTyped'
    BY <1>1, <2>1, SendingType, TaskReplaced DEF TasksTyped
  <2>3. QED
    BY <1>1, <2>2 DEF RegistryTyped, ConnTyped
<1>2. ASSUME NEW how \in {"done", "failed"}, NEW newsubs, Shrunk(newsubs),
             Registry([task EXCEPT ![t] = Finished(k, how)], newsubs)
      PROVE  subs' \in [Chans -> SUBSET Sockets] /\ TasksTyped'
  <2> DEFINE j == Finished(k, how)
             tasks == [task EXCEPT ![t] = j]
  <2>1. j \in TaskRec /\ TaskOK(j)
    BY FinishedType
  <2> HIDE DEF j
  <2>2. tasks \in [Tasks -> TaskRec] /\ \A u \in Tasks : TaskOK(tasks[u])
    BY <2>1, TaskReplaced
  <2>3. Registry(tasks, newsubs)
    BY <1>2 DEF j
  <2> HIDE DEF tasks
  <2>4. QED
    BY <1>2, <2>2, <2>3, RegistryFields DEF Shrunk
<1>3. ASSUME NEW S, Forget(S) PROVE joined' \in [Sockets -> SUBSET Chans]
  BY <1>3 DEF RegistryTyped, Forget
<1>4. t \in Publishers => t \in Sockets
  BY HubAssumption
<1>5. ASSUME conn' = IF t \in Publishers THEN [conn EXCEPT ![t].pc = "ack"] ELSE conn
      PROVE  ConnTyped'
  <2>1. CASE t \in Publishers
    <3> DEFINE h == [conn[t] EXCEPT !.pc = "ack"]
    <3>1. h \in ConnRec /\ h.list = conn[t].list
      BY <1>4, <2>1 DEF ConnTyped, ConnRec
    <3>2. Becomes(t, h) /\ Len(h.list) <= ReplayLimit
      BY <1>4, <1>5, <2>1, <3>1 DEF ConnTyped, Becomes
    <3> HIDE DEF h
    <3>3. QED
      BY <1>4, <2>1, <3>1, <3>2, BecomesTyped
  <2>2. CASE t \notin Publishers
    BY <1>5, <2>2 DEF ConnTyped
  <2>3. QED
    BY <2>1, <2>2
<1>6. ASSUME t \in Publishers, Becomes(t, Gone) PROVE ConnTyped'
  BY <1>4, <1>6, GoneTyped, BecomesTyped
<1>7. QED
  BY <1>1, <1>2, <1>3, <1>4, <1>5, <1>6
     DEF Goes, GoesOn, Ends, BreaksOff, RegistryTyped, ConnTyped

(* A publish up to its iterator. *)
LEMMA StoredTyped ==
  ASSUME RecentTyped, GotTyped, NEW m \in Msgs, NEW c \in Chans, Stored(m, c)
  PROVE  RecentTyped' /\ GotTyped'
<1>1. /\ Trim(Append(recent[c], m)) \in Seq(Msgs)
      /\ Len(Trim(Append(recent[c], m))) <= MaxRecent
  <2>1. Append(recent[c], m) \in Seq(Msgs) /\ MaxRecent \in Nat \ {0}
    BY HubAssumption DEF RecentTyped
  <2>2. QED
    BY <2>1, LastOfType DEF Trim
<1> DEFINE q == Trim(Append(recent[c], m))
<1>2. recent' = [recent EXCEPT ![c] = q]
  BY DEF Stored
<1> HIDE DEF q
<1>3. RecentTyped'
  BY <1>1, <1>2 DEF RecentTyped, q
<1>4. GotTyped'
  BY DEF GotTyped, Stored
<1>5. QED
  BY <1>3, <1>4

LEMMA BegunType ==
  ASSUME RegistryTyped, NEW m \in Msgs, NEW c \in Chans
  PROVE  Begun(m, c) \in TaskRec
BY DEF RegistryTyped, Begun, TaskRec

(* The first step of a publish of m by t. *)
Begins(t, m, c, mqtt) ==
  task[t].pc = "idle" /\ Stored(m, c) /\ Continue(t, Begun(m, c), mqtt)

LEMMA TypeBegins ==
  ASSUME HubType, NEW t \in Tasks, NEW m \in Msgs, NEW c \in Chans,
         NEW mqtt \in SUBSET [msg : Msgs, chan : Chans], Begins(t, m, c, mqtt)
  PROVE  HubType'
<1>1. Goes(t, Begun(m, c), mqtt) /\ BrokerTyped'
  <2>1. Begun(m, c).msg = m /\ Begun(m, c).chan = c /\ RegistryTyped
    BY DEF Begun, HubType
  <2>2. Goes(t, Begun(m, c), mqtt)
    BY <2>1, ContinueGoes DEF Begins
  <2>3. broker' = mqtt \/ broker' = mqtt \union {[msg |-> m, chan |-> c]}
    BY <2>1, <2>2 DEF Goes, GoesOn, Ends, BreaksOff
  <2>4. QED
    BY <2>2, <2>3 DEF BrokerTyped
<1>2. RegistryTyped' /\ ConnTyped' /\ TasksTyped'
  <2>1. Begun(m, c) \in TaskRec
    BY BegunType DEF HubType
  <2>2. Begun(m, c).msg \in Msgs /\ Begun(m, c).chan \in Chans
    BY DEF Begun
  <2>3. QED
    BY <1>1, <2>1, <2>2, GoesTyped DEF HubType
<1>3. RecentTyped' /\ GotTyped'
  BY StoredTyped DEF HubType, Begins
<1>4. QED
  BY <1>1, <1>2, <1>3 DEF HubType

(* The state of a resumed publish, its send settled.                         *)
Settled(t) ==
  LET k == task[t]
  IN [k EXCEPT !.dead = @ \union (k.cur \ {s \in k.cur : conn[s].open})]

LEMMA SettledType ==
  ASSUME TasksTyped, NEW t \in Tasks, task[t].pc = "send"
  PROVE  /\ Settled(t) \in TaskRec /\ Settled(t).msg = task[t].msg
         /\ Settled(t).chan = task[t].chan /\ Settled(t).left = task[t].left
         /\ Settled(t).steady = task[t].steady
         /\ Settled(t).stirred = task[t].stirred
         /\ Settled(t).disturbed = task[t].disturbed
         /\ task[t].msg \in Msgs /\ task[t].chan \in Chans
<1> DEFINE k == task[t]
           D == k.dead \union (k.cur \ {s \in k.cur : conn[s].open})
           j == [k EXCEPT !.dead = D]
<1>1. k \in TaskRec /\ D \in SUBSET Sockets /\ k.msg \in Msgs /\ k.chan \in Chans
  BY DEF TasksTyped, TaskOK, TaskRec
<1> HIDE DEF D, k
<1>2. /\ j \in TaskRec /\ j.msg = k.msg /\ j.chan = k.chan /\ j.left = k.left
      /\ j.steady = k.steady /\ j.stirred = k.stirred
      /\ j.disturbed = k.disturbed
  BY <1>1 DEF TaskRec
<1>3. QED
  BY <1>1, <1>2 DEF Settled, j, D, k

LEMMA ResumeSettled ==
  ASSUME NEW t \in Tasks, Resume(t)
  PROVE  /\ task[t].pc = "send" /\ Continue(t, Settled(t), broker)
         /\ UNCHANGED <<recent, moves, casts>>
         /\ got' = [s \in Sockets |->
                      IF s \in {x \in task[t].cur : conn[x].open}
                      THEN got[s] \union {task[t].msg} ELSE got[s]]
BY DEF Resume, Settled

LEMMA TypeResume ==
  ASSUME HubType, NEW t \in Tasks, Resume(t)
  PROVE  HubType'
<1>1. /\ Settled(t) \in TaskRec /\ Settled(t).msg = task[t].msg
      /\ Settled(t).chan = task[t].chan
      /\ task[t].msg \in Msgs /\ task[t].chan \in Chans
  BY ResumeSettled, SettledType DEF HubType
<1>2. Goes(t, Settled(t), broker) /\ BrokerTyped'
  <2>1. Goes(t, Settled(t), broker)
    BY <1>1, ResumeSettled, ContinueGoes DEF HubType
  <2>2. \/ broker' = broker
        \/ broker' = broker \union {[msg |-> task[t].msg, chan |-> task[t].chan]}
    BY <1>1, <2>1 DEF Goes, GoesOn, Ends, BreaksOff
  <2>3. QED
    BY <1>1, <2>1, <2>2 DEF HubType, BrokerTyped
<1>3. RegistryTyped' /\ ConnTyped' /\ TasksTyped'
  BY <1>1, <1>2, GoesTyped DEF HubType
<1>4. GotTyped' /\ RecentTyped'
  BY <1>1, ResumeSettled DEF HubType, GotTyped, RecentTyped
<1>5. QED
  BY <1>2, <1>3, <1>4 DEF HubType

LEMMA EndsTyped ==
  ASSUME RegistryTyped, ConnTyped, TasksTyped, NEW s \in Sockets,
         HandlerEnds(s, task)
  PROVE  RegistryTyped' /\ ConnTyped' /\ TasksTyped'
<1>1. Without({s}) \in [Chans -> SUBSET Sockets]
  BY DEF RegistryTyped, Without
<1>2. /\ Registry(task, Without({s})) /\ Forget({s}) /\ Becomes(s, Gone)
  BY DEF HandlerEnds
<1>3. subs' \in [Chans -> SUBSET Sockets] /\ TasksTyped'
  BY <1>1, <1>2, RegistryFields DEF TasksTyped
<1>4. joined' \in [Sockets -> SUBSET Chans]
  BY <1>2 DEF Forget, RegistryTyped
<1>5. QED
  BY <1>2, <1>3, <1>4, GoneTyped, BecomesTyped DEF RegistryTyped

LEMMA ServingTyped ==
  ASSUME NEW ask \in Chans \union {NoChan}, NEW list \in Seq(Msgs),
         NEW pc \in {"ack", "replay"}, NEW open \in BOOLEAN
  PROVE  /\ Serving(pc, ask, list) \in ConnRec /\ Serving(pc, ask, list).list = list
         /\ Waiting(open) \in ConnRec /\ Len(Waiting(open).list) <= ReplayLimit
<1>1. ReplayLimit \in Nat
  BY HubAssumption
<1>2. QED
  BY <1>1 DEF Serving, Waiting, ConnRec

LEMMA TypeHandler ==
  ASSUME HubType, NEW s \in Sockets,
         Accept(s) \/ Handler(s) \/ Close(s)
  PROVE  HubType'
<1>t. /\ RegistryTyped /\ ConnTyped /\ RecentTyped /\ TasksTyped /\ BrokerTyped
      /\ GotTyped
  BY DEF HubType
<1>h. conn[s] \in ConnRec /\ Len(conn[s].list) <= ReplayLimit
  BY <1>t DEF ConnTyped
<1>n. NoChan \in Chans \union {NoChan} /\ ReplayLimit \in Nat \ {0} /\ <<>> \in Seq(Msgs)
  BY HubAssumption
<1>0. ASSUME NEW h \in ConnRec, Len(h.list) <= ReplayLimit, Becomes(s, h),
             UNCHANGED <<subs, joined, task, recent, broker>>, GotTyped'
      PROVE  HubType'
  <2>1. ConnTyped'
    BY <1>t, <1>0, BecomesTyped
  <2>2. QED
    BY <1>t, <1>0, <2>1
       DEF HubType, RegistryTyped, RecentTyped, TasksTyped, BrokerTyped
<1>e. ASSUME HandlerEnds(s, task), UNCHANGED <<recent, broker, got, casts>>
      PROVE  HubType'
  BY <1>t, <1>e, EndsTyped DEF HubType, RecentTyped, BrokerTyped, GotTyped
<1>1. CASE Accept(s)
  <2>1. Becomes(s, Waiting(TRUE))
         /\ UNCHANGED <<subs, joined, task, recent, broker, got, casts>>
    BY <1>1 DEF Accept
  <2>2. GotTyped'
    BY <1>t, <2>1 DEF GotTyped
  <2>3. QED
    BY <1>0, <1>n, <2>1, <2>2, ServingTyped
<1>2. CASE Close(s)
  <2> DEFINE h == [conn[s] EXCEPT !.open = FALSE]
  <2>1. h \in ConnRec /\ h.list = conn[s].list
    BY <1>h DEF ConnRec
  <2>2. Becomes(s, h)
         /\ UNCHANGED <<subs, joined, task, recent, broker, got, casts>>
    BY <1>2 DEF Close, Becomes
  <2> HIDE DEF h
  <2>3. GotTyped'
    BY <1>t, <2>2 DEF GotTyped
  <2>4. QED
    BY <1>0, <1>h, <2>1, <2>2, <2>3
<1>3. CASE Ack(s)
  <2>1. UNCHANGED <<recent, broker, got, casts>>
    BY <1>3 DEF Ack
  <2>2. GotTyped'
    BY <1>t, <2>1 DEF GotTyped
  <2>3. CASE conn[s].open
    <3>1. UNCHANGED <<subs, joined, task>>
      BY <1>3, <2>3 DEF Ack
    <3>2. CASE conn[s].ask = NoChan
      <4>1. Becomes(s, Waiting(TRUE))
        BY <1>3, <2>3, <3>2 DEF Ack
      <4>2. QED
        BY <1>0, <1>n, <2>1, <2>2, <3>1, <4>1, ServingTyped
    <3>3. CASE conn[s].ask # NoChan
      <4> DEFINE list == LastOf(recent[conn[s].ask], ReplayLimit)
      <4>1. conn[s].ask \in Chans
        BY <1>h, <3>3 DEF ConnRec
      <4>2. list \in Seq(Msgs) /\ Len(list) <= ReplayLimit
        BY <1>t, <1>n, <4>1, LastOfType DEF RecentTyped
      <4>3. Becomes(s, Serving("replay", NoChan, list))
        BY <1>3, <2>3, <3>3 DEF Ack
      <4> HIDE DEF list
      <4>4. QED
        BY <1>0, <1>n, <2>1, <2>2, <3>1, <4>2, <4>3, ServingTyped
    <3>4. QED
      BY <3>2, <3>3
  <2>4. CASE ~conn[s].open
    BY <1>3, <1>e, <2>1, <2>4 DEF Ack
  <2>5. QED
    BY <2>3, <2>4
<1>4. CASE Replay(s)
  <2>0. /\ UNCHANGED <<recent, broker, casts>> /\ conn[s].list \in Seq(Msgs)
        /\ conn[s].open \in BOOLEAN
    BY <1>4, <1>h DEF Replay, ConnRec
  <2>1. CASE /\ Becomes(s, Waiting(conn[s].open))
             /\ UNCHANGED <<subs, joined, task, got>>
    <3>1. GotTyped'
      BY <1>t, <2>0, <2>1 DEF GotTyped
    <3>2. QED
      BY <1>0, <1>n, <2>0, <2>1, <3>1, ServingTyped
  <2>2. CASE /\ conn[s].list # <<>>
             /\ Becomes(s, Serving("replay", NoChan, Tail(conn[s].list)))
             /\ got' = [got EXCEPT ![s] = @ \union {Head(conn[s].list)}]
             /\ UNCHANGED <<subs, joined, task>>
    <3>1. /\ Tail(conn[s].list) \in Seq(Msgs) /\ Head(conn[s].list) \in Msgs
          /\ Len(Tail(conn[s].list)) <= ReplayLimit
      BY <1>h, <1>n, <2>0, <2>2
    <3>2. GotTyped'
      BY <1>t, <2>0, <2>2, <3>1 DEF GotTyped
    <3>3. QED
      BY <1>0, <1>n, <2>0, <2>2, <3>1, <3>2, ServingTyped
  <2>3. CASE HandlerEnds(s, task) /\ UNCHANGED got
    BY <1>e, <2>0, <2>3
  <2>4. QED
    BY <1>4, <2>1, <2>2, <2>3 DEF Replay
<1>5. CASE Disconnected(s)
  BY <1>5, <1>e DEF Disconnected
<1>6. QED
  BY <1>1, <1>2, <1>3, <1>4, <1>5 DEF Handler

LEMMA TypeSubscribe ==
  ASSUME HubType, NEW s \in Sockets, NEW c \in Chans,
         Subscribe(s, c) \/ Unsubscribe(s, c)
  PROVE  HubType'
<1>t. /\ RegistryTyped /\ ConnTyped /\ RecentTyped /\ TasksTyped /\ BrokerTyped
      /\ GotTyped
  BY DEF HubType
<1>1. PICK newsubs \in {[subs EXCEPT ![c] = @ \union {s}], [subs EXCEPT ![c] = @ \ {s}]} :
        Registry(task, newsubs)
  BY DEF Subscribe, Unsubscribe
<1>2. newsubs \in [Chans -> SUBSET Sockets]
  BY <1>t, <1>1 DEF RegistryTyped
<1>3. RegistryTyped' /\ TasksTyped'
  <2>1. subs' = newsubs /\ TasksTyped'
    BY <1>t, <1>1, <1>2, RegistryFields DEF TasksTyped
  <2>2. joined' \in [Sockets -> SUBSET Chans]
    BY <1>t DEF Subscribe, Unsubscribe, RegistryTyped
  <2>3. QED
    BY <1>2, <2>1, <2>2 DEF RegistryTyped
<1>4. ConnTyped'
  <2>1. PICK ask \in Chans \union {NoChan} : Becomes(s, Serving("ack", ask, <<>>))
    BY DEF Subscribe, Unsubscribe
  <2>2. <<>> \in Seq(Msgs) /\ Len(<<>>) <= ReplayLimit /\ TRUE \in BOOLEAN
    BY HubAssumption
  <2>3. QED
    BY <1>t, <2>1, <2>2, ServingTyped, BecomesTyped
<1>5. RecentTyped' /\ BrokerTyped' /\ GotTyped'
  BY <1>t DEF Subscribe, Unsubscribe, RecentTyped, BrokerTyped, GotTyped
<1>6. QED
  BY <1>3, <1>4, <1>5 DEF HubType

(* Who begins to publish what: requests and clients their own message, the   *)
(* bridge what the broker has for it.                                        *)
LEMMA Beginnings ==
  ASSUME [Next]_vars, BrokerTyped
  PROVE  \/ \E t \in Tasks : Resume(t)
         \/ \E t \in Tasks, m \in Msgs, c \in Chans,
              mqtt \in SUBSET [msg : Msgs, chan : Chans] :
              /\ Begins(t, m, c, mqtt)
              /\ \/ t \in Requests \union Publishers /\ m = t /\ mqtt = broker
                      /\ (t \in Publishers => Receiving(t))
                 \/ /\ t \in Bridges /\ [msg |-> m, chan |-> c] \in broker
                    /\ mqtt = broker \ {[msg |-> m, chan |-> c]}
         \/ \E d \in Devices : DevicePublish(d)
         \/ \E s \in Sockets :
              Accept(s) \/ Handler(s) \/ Close(s)
                \/ \E c \in Chans : Subscribe(s, c) \/ Unsubscribe(s, c)
         \/ UNCHANGED vars
<1>0. broker \in SUBSET [msg : Msgs, chan : Chans]
  BY DEF BrokerTyped
<1>1. ASSUME NEW r \in Requests, HttpPublish(r)
      PROVE  \E c \in Chans : Begins(r, r, c, broker) /\ r \notin Publishers
  BY <1>1, NamesApart DEF HttpPublish, Begins
<1>2. ASSUME NEW s \in Publishers, WsPublish(s)
      PROVE  \E c \in Chans : Begins(s, s, c, broker) /\ Receiving(s)
  BY <1>2 DEF WsPublish, Begins
<1>3. ASSUME NEW b \in Bridges, BridgePublish(b)
      PROVE  \E e \in broker : Begins(b, e.msg, e.chan, broker \ {e})
  BY <1>3 DEF BridgePublish, Begins
<1>4. ASSUME NEW b \in Bridges, BridgePublish(b)
      PROVE  \E m \in Msgs, c \in Chans :
               /\ [msg |-> m, chan |-> c] \in broker
               /\ Begins(b, m, c, broker \ {[msg |-> m, chan |-> c]})
  <2>1. PICK e \in broker : Begins(b, e.msg, e.chan, broker \ {e})
    BY <1>3, <1>4
  <2>2. e = [msg |-> e.msg, chan |-> e.chan] /\ e.msg \in Msgs /\ e.chan \in Chans
    BY <1>0
  <2>3. QED
    BY <2>1, <2>2
<1>5. \A b \in Bridges : b \in Tasks
  BY DEF Tasks
<1>6. \A r \in Requests \union Publishers : r \in Tasks /\ r \in Msgs
  BY DEF Tasks, Msgs
<1>7. QED
  BY <1>0, <1>1, <1>2, <1>4, <1>5, <1>6 DEF Next

LEMMA TypeStep == HubType /\ [Next]_vars => HubType'
<1> SUFFICES ASSUME HubType, [Next]_vars PROVE HubType'
  OBVIOUS
<1>1. ASSUME NEW d \in Devices, DevicePublish(d) PROVE HubType'
  <2>1. d \in Msgs
    BY DEF Msgs
  <2>2. BrokerTyped'
    BY <1>1, <2>1 DEF DevicePublish, HubType, BrokerTyped
  <2>3. QED
    BY <1>1, <2>2 DEF DevicePublish, HubType, RegistryTyped, ConnTyped, RecentTyped,
                      TasksTyped, GotTyped
<1>2. CASE UNCHANGED vars
  BY <1>2 DEF vars, HubType, RegistryTyped, ConnTyped, RecentTyped, TasksTyped,
              BrokerTyped, GotTyped
<1>3. BrokerTyped
  BY DEF HubType
<1>4. QED
  BY <1>1, <1>2, <1>3, Beginnings, TypeBegins, TypeResume, TypeHandler, TypeSubscribe

LEMMA TypeInit == Init => HubType
<1> SUFFICES ASSUME Init PROVE HubType
  OBVIOUS
<1>1. \A t \in Tasks : IdleTask(t) \in TaskRec /\ IdleTask(t).pc = "idle"
  BY DEF IdleTask, TaskRec
<1>2. TasksTyped
  BY <1>1 DEF Init, TasksTyped, TaskOK
<1>3. ReplayLimit \in Nat /\ MaxRecent \in Nat
  BY HubAssumption
<1>4. ConnTyped
  BY <1>3 DEF Init, ConnTyped, ConnRec
<1>5. RecentTyped
  BY <1>3 DEF Init, RecentTyped
<1>6. QED
  BY <1>2, <1>4, <1>5 DEF Init, HubType, RegistryTyped, BrokerTyped, GotTyped

(* The hub's variables keep their types: a coroutine suspended in publish is *)
(* sending to exactly one socket, a replay is no longer than ReplayLimit and *)
(* the recent messages of a channel are at most MaxRecent.                   *)
THEOREM TypeCorrect == Spec => []TypeOK
<1>1. HubType => TypeOK
  <2> SUFFICES ASSUME HubType PROVE TypeOK
    OBVIOUS
  <2>1. ASSUME NEW s \in Sockets
        PROVE  /\ conn[s].pc \in {"new", "recv", "ack", "replay", "gone"}
               /\ conn[s].open \in BOOLEAN /\ conn[s].ask \in Chans \union {NoChan}
               /\ \A i \in DOMAIN conn[s].list : conn[s].list[i] \in Msgs
               /\ Len(conn[s].list) <= ReplayLimit
    <3>1. conn[s] \in ConnRec /\ Len(conn[s].list) <= ReplayLimit
      BY DEF HubType, ConnTyped
    <3>2. QED
      BY <3>1 DEF ConnRec
  <2>2. ASSUME NEW t \in Tasks
        PROVE  /\ task[t].pc \in {"idle", "send", "done", "failed"}
               /\ task[t].cur \union task[t].left \union task[t].dead \subseteq Sockets
               /\ task[t].pc = "send" => Cardinality(task[t].cur) = 1
    <3>1. task[t] \in TaskRec /\ TaskOK(task[t])
      BY DEF HubType, TasksTyped
    <3>2. task[t].pc = "send" => Cardinality(task[t].cur) = 1
      BY <3>1, FS_Singleton DEF TaskOK
    <3>3. QED
      BY <3>1, <3>2 DEF TaskRec
  <2>3. QED
    BY <2>1, <2>2 DEF HubType, RegistryTyped, RecentTyped, BrokerTyped, GotTyped, TypeOK
<1>2. QED
  BY <1>1, TypeInit, TypeStep, PTL DEF Spec

-----------------------------------------------------------------------------
(* What a publish that goes on does to the coroutines, itself included.      *)
LEMMA GoesFields ==
  ASSUME RegistryTyped, TasksTyped, NEW t \in Tasks, NEW k \in TaskRec,
         k.msg \in Msgs, k.chan \in Chans, NEW mqtt, Goes(t, k, mqtt)
  PROVE  /\ \A u \in Tasks \ {t} : Undisturbed(task[u], task'[u])
         /\ \A c \in Chans : subs'[c] \subseteq subs[c]
         /\ task'[t].msg = k.msg /\ task'[t].chan = k.chan
         /\ task'[t].steady = k.steady /\ task'[t].disturbed = k.disturbed
         /\ \/ /\ task'[t].pc = "send" /\ task'[t].stirred = FALSE
               /\ UNCHANGED <<subs, conn>>
               /\ \E rest \in Rest(k) : \E s \in rest :
                    task'[t].cur = {s} /\ task'[t].left = rest \ {s}
               /\ broker' = mqtt
            \/ /\ task'[t].pc = "done" /\ {} \in Rest(k)
               /\ conn' = IF t \in Publishers THEN [conn EXCEPT ![t].pc = "ack"] ELSE conn
               /\ broker' = IF Forwards(t)
                            THEN mqtt \union {[msg |-> k.msg, chan |-> k.chan]}
                            ELSE mqtt
            \/ /\ task'[t].pc = "failed" /\ broker' = mqtt
               /\ \/ t \in Publishers /\ Becomes(t, Gone)
                  \/ UNCHANGED conn
<1>1. CASE GoesOn(t, k, mqtt)
  <2>1. PICK rest \in Rest(k) : \E s \in rest :
          task' = [task EXCEPT ![t] = Sending(k, s, rest)]
    BY <1>1 DEF GoesOn
  <2>2. PICK s \in rest : task' = [task EXCEPT ![t] = Sending(k, s, rest)]
    BY <2>1
  <2>3. rest \in SUBSET Sockets /\ s \in Sockets
    BY <2>2, RestType
  <2>4. \A u \in Tasks : task'[u] = IF u = t THEN Sending(k, s, rest) ELSE task[u]
    BY <2>2 DEF TasksTyped
  <2>5. UNCHANGED <<subs, conn>> /\ broker' = mqtt
    BY <1>1 DEF GoesOn
  <2>6. \A u \in Tasks \ {t} : Undisturbed(task[u], task'[u])
    BY <2>4, <2>5 DEF Undisturbed, SameTask
  <2> DEFINE j == Sending(k, s, rest)
  <2>7. /\ j.pc = "send" /\ j.msg = k.msg /\ j.chan = k.chan /\ j.cur = {s}
        /\ j.left = rest \ {s} /\ j.stirred = FALSE /\ j.steady = k.steady
        /\ j.disturbed = k.disturbed
    BY DEF Sending, TaskRec
  <2>8. task'[t] = j
    BY <2>4
  <2> HIDE DEF j
  <2>9. QED
    BY <2>2, <2>5, <2>6, <2>7, <2>8
<1>2. ASSUME NEW how \in {"done", "failed"}, NEW newsubs, Shrunk(newsubs),
             Registry([task EXCEPT ![t] = Finished(k, how)], newsubs)
      PROVE  /\ \A u \in Tasks \ {t} : Undisturbed(task[u], task'[u])
             /\ \A c \in Chans : subs'[c] \subseteq subs[c]
             /\ task'[t] = Finished(k, how)
  <2> DEFINE j == Finished(k, how)
             tasks == [task EXCEPT ![t] = j]
  <2>1. j \in TaskRec /\ TaskOK(j) /\ j.pc = how
    BY FinishedType
  <2> HIDE DEF j
  <2>2. /\ tasks \in [Tasks -> TaskRec] /\ \A u \in Tasks : TaskOK(tasks[u])
        /\ \A u \in Tasks : tasks[u] = IF u = t THEN j ELSE task[u]
    BY <2>1, TaskReplaced
  <2> HIDE DEF tasks
  <2>3. subs' = newsubs /\ \A u \in Tasks : Undisturbed(tasks[u], task'[u])
    BY <1>2, <2>2, RegistryFields DEF Shrunk, tasks, j
  <2>4. task'[t] = j
    BY <2>1, <2>2, <2>3 DEF Undisturbed
  <2>5. QED
    BY <1>2, <2>2, <2>3, <2>4 DEF Shrunk, j
<1>3. CASE Ends(t, k, mqtt)
  <2>1. PICK newsubs : Shrunk(newsubs)
                       /\ Registry([task EXCEPT ![t] = Finished(k, "done")], newsubs)
    BY <1>3 DEF Ends
  <2>2. /\ \A u \in Tasks \ {t} : Undisturbed(task[u], task'[u])
        /\ \A c \in Chans : subs'[c] \subseteq subs[c]
        /\ task'[t] = Finished(k, "done")
    BY <1>2, <2>1
  <2>3. QED
    BY <1>3, <2>2, FinishedType DEF Ends
<1>4. CASE BreaksOff(t, k, mqtt)
  <2>1. PICK newsubs : Shrunk(newsubs)
                       /\ Registry([task EXCEPT ![t] = Finished(k, "failed")], newsubs)
    BY <1>4 DEF BreaksOff
  <2>2. /\ \A u \in Tasks \ {t} : Undisturbed(task[u], task'[u])
        /\ \A c \in Chans : subs'[c] \subseteq subs[c]
        /\ task'[t] = Finished(k, "failed")
    BY <1>2, <2>1
  <2>3. QED
    BY <1>4, <2>2, FinishedType DEF BreaksOff
<1>5. QED
  BY <1>1, <1>3, <1>4 DEF Goes

(* The steps of handlers leave the coroutines at their places.               *)
LEMMA HandlersFields ==
  ASSUME HubType, NEW s \in Sockets,
         \/ Accept(s) \/ Handler(s) \/ Close(s)
         \/ \E c \in Chans : Subscribe(s, c) \/ Unsubscribe(s, c)
  PROVE  /\ \A u \in Tasks : Undisturbed(task[u], task'[u])
         /\ UNCHANGED <<recent, broker, casts>>
<1>0. RegistryTyped /\ TasksTyped
  BY DEF HubType
<1>1. ASSUME UNCHANGED <<subs, task>>
      PROVE  \A u \in Tasks : Undisturbed(task[u], task'[u])
  BY <1>1 DEF Undisturbed, SameTask
<1>2. ASSUME NEW newsubs \in [Chans -> SUBSET Sockets], Registry(task, newsubs)
      PROVE  \A u \in Tasks : Undisturbed(task[u], task'[u])
  BY <1>0, <1>2, RegistryFields DEF TasksTyped
<1>3. Without({s}) \in [Chans -> SUBSET Sockets]
  BY <1>0 DEF RegistryTyped, Without
<1>4. CASE Accept(s) \/ Close(s)
  BY <1>1, <1>4 DEF Accept, Close
<1>5. CASE Handler(s)
  BY <1>1, <1>2, <1>3, <1>5 DEF Handler, Ack, Replay, Disconnected, HandlerEnds
<1>6. ASSUME NEW c \in Chans, Subscribe(s, c) \/ Unsubscribe(s, c)
      PROVE  /\ \A u \in Tasks : Undisturbed(task[u], task'[u])
             /\ UNCHANGED <<recent, broker, casts>>
  <2>1. PICK newsubs \in {[subs EXCEPT ![c] = @ \union {s}], [subs EXCEPT ![c] = @ \ {s}]} :
          Registry(task, newsubs)
    BY <1>6 DEF Subscribe, Unsubscribe
  <2>2. newsubs \in [Chans -> SUBSET Sockets]
    BY <1>0, <2>1 DEF RegistryTyped
  <2>3. QED
    BY <1>2, <1>6, <2>1, <2>2 DEF Subscribe, Unsubscribe
<1>7. QED
  BY <1>4, <1>5, <1>6 DEF Accept, Close, Handler, Ack, Replay, Disconnected

-----------------------------------------------------------------------------
(* Echoes.  A message waits at the broker once, after its first broadcast    *)
(* (a device's, before any); a request or client that has not ended its      *)
(* publish has not forwarded it.                                             *)
EchoInv ==
  /\ \A m \in Requests \union Publishers :
       /\ task[m].pc # "idle" => task[m].msg = m
       /\ task[m].pc = "idle" => casts[m] = 0
       /\ task[m].pc = "send" => casts[m] = 1
       /\ task[m].pc \in {"idle", "send"} => \A e \in broker : e.msg # m
       /\ casts[m] <= 2
  /\ \A e \in broker : casts[e.msg] = IF e.msg \in Devices THEN 0 ELSE 1
  /\ \A e, f \in broker : e.msg = f.msg => e = f
  /\ \A d \in Devices : casts[d] <= 1

LEMMA EchoBegins ==
  ASSUME HubType, EchoInv, NEW t \in Tasks, NEW m \in Msgs, NEW c \in Chans,
         NEW mqtt \in SUBSET [msg : Msgs, chan : Chans], Begins(t, m, c, mqtt),
         \/ t \in Requests \union Publishers /\ m = t /\ mqtt = broker
         \/ /\ t \in Bridges /\ [msg |-> m, chan |-> c] \in broker
            /\ mqtt = broker \ {[msg |-> m, chan |-> c]}
  PROVE  EchoInv'
<1>1. Goes(t, Begun(m, c), mqtt)
  BY ContinueGoes DEF Begins, HubType
<1>2. /\ \A u \in Tasks \ {t} : task'[u].pc = task[u].pc /\ task'[u].msg = task[u].msg
      /\ task'[t].msg = m /\ task'[t].pc \in {"send", "done", "failed"}
      /\ \/ broker' = mqtt
         \/ /\ task'[t].pc = "done" /\ t \notin Bridges
            /\ broker' = mqtt \union {[msg |-> m, chan |-> c]}
  <2> DEFINE k == Begun(m, c)
  <2>1. k \in TaskRec /\ k.msg = m /\ k.chan = c /\ Goes(t, k, mqtt)
    <3>1. Begun(m, c) \in TaskRec
      BY BegunType DEF HubType
    <3>2. QED
      BY <1>1, <3>1 DEF Begun
  <2> HIDE DEF k
  <2>2. /\ \A u \in Tasks \ {t} : Undisturbed(task[u], task'[u])
        /\ task'[t].msg = m /\ task'[t].pc \in {"send", "done", "failed"}
        /\ \/ broker' = mqtt
           \/ /\ task'[t].pc = "done"
              /\ broker' = IF Forwards(t) THEN mqtt \union {[msg |-> m, chan |-> c]}
                           ELSE mqtt
    BY <2>1, GoesFields DEF HubType
  <2>3. QED
    BY <2>2 DEF Undisturbed, SameTask, Forwards
<1>3. /\ casts \in [Msgs -> Nat] /\ casts' = [casts EXCEPT ![m] = @ + 1]
      /\ task[t].pc = "idle"
  BY DEF HubType, GotTyped, Begins, Stored
<1>4. /\ \A x \in Requests \union Publishers : x \in Tasks /\ x \in Msgs /\ x \notin Devices
                                               /\ x \notin Bridges
      /\ \A d \in Devices : d \in Msgs
      /\ \A e \in broker : e.msg \in Msgs
  BY NamesApart DEF Tasks, Msgs, HubType, BrokerTyped
<1>5. CASE t \in Requests \union Publishers /\ m = t /\ mqtt = broker
  <2>1. casts[t] = 0 /\ casts'[t] = 1 /\ \A e \in broker : e.msg # t
    BY <1>3, <1>4, <1>5 DEF EchoInv
  <2>2. \A x \in Msgs \ {t} : casts'[x] = casts[x]
    BY <1>3, <1>5
  <2>3. \A e \in broker' :
          e \in broker \/ (e = [msg |-> t, chan |-> c] /\ task'[t].pc = "done")
    BY <1>2, <1>5
  <2>4. ASSUME NEW x \in Requests \union Publishers
        PROVE  /\ task'[x].pc # "idle" => task'[x].msg = x
               /\ task'[x].pc = "idle" => casts'[x] = 0
               /\ task'[x].pc = "send" => casts'[x] = 1
               /\ task'[x].pc \in {"idle", "send"} => \A e \in broker' : e.msg # x
               /\ casts'[x] <= 2
    <3>1. CASE x = t
      BY <1>2, <1>5, <2>1, <2>3, <3>1
    <3>2. CASE x # t
      BY <1>2, <1>4, <2>2, <2>3, <3>2 DEF EchoInv
    <3>3. QED
      BY <3>1, <3>2
  <2>5. \A e \in broker' : casts'[e.msg] = IF e.msg \in Devices THEN 0 ELSE 1
    BY <1>4, <1>5, <2>1, <2>2, <2>3 DEF EchoInv
  <2>6. \A e, f \in broker' : e.msg = f.msg => e = f
    BY <2>1, <2>3 DEF EchoInv
  <2>7. \A d \in Devices : casts'[d] <= 1
    BY <1>4, <1>5, <2>2 DEF EchoInv
  <2>8. QED
    BY <2>4, <2>5, <2>6, <2>7 DEF EchoInv
<1>6. CASE /\ t \in Bridges /\ [msg |-> m, chan |-> c] \in broker
           /\ mqtt = broker \ {[msg |-> m, chan |-> c]}
  <2>1. /\ casts[m] = (IF m \in Devices THEN 0 ELSE 1) /\ casts'[m] = casts[m] + 1
        /\ \A x \in Msgs \ {m} : casts'[x] = casts[x]
    BY <1>3, <1>6 DEF EchoInv
  <2>2. broker' = mqtt /\ \A e \in broker' : e \in broker /\ e.msg # m
    BY <1>2, <1>6 DEF EchoInv
  <2>3. \A x \in Requests \union Publishers :
          task'[x].pc = task[x].pc /\ task'[x].msg = task[x].msg
    BY <1>2, <1>4, <1>6
  <2>4. m \in Requests \union Publishers => task[m].pc \notin {"idle", "send"}
    BY <1>6 DEF EchoInv
  <2>5. ASSUME NEW x \in Requests \union Publishers
        PROVE  /\ task'[x].pc # "idle" => task'[x].msg = x
               /\ task'[x].pc = "idle" => casts'[x] = 0
               /\ task'[x].pc = "send" => casts'[x] = 1
               /\ task'[x].pc \in {"idle", "send"} => \A e \in broker' : e.msg # x
               /\ casts'[x] <= 2
    <3>1. CASE x = m
      BY <1>4, <2>1, <2>2, <2>3, <2>4, <3>1 DEF EchoInv
    <3>2. CASE x # m
      BY <1>4, <2>1, <2>2, <2>3, <3>2 DEF EchoInv
    <3>3. QED
      BY <3>1, <3>2
  <2>6. \A e \in broker' : casts'[e.msg] = IF e.msg \in Devices THEN 0 ELSE 1
    BY <1>4, <2>1, <2>2 DEF EchoInv
  <2>7. \A d \in Devices : casts'[d] <= 1
    BY <1>4, <2>1 DEF EchoInv
  <2>8. QED
    BY <2>2, <2>5, <2>6, <2>7 DEF EchoInv
<1>7. QED
  BY <1>5, <1>6

LEMMA EchoResume ==
  ASSUME HubType, EchoInv, NEW t \in Tasks, Resume(t)
  PROVE  EchoInv'
<1>1. /\ Settled(t) \in TaskRec /\ Settled(t).msg = task[t].msg
      /\ Settled(t).chan = task[t].chan /\ task[t].pc = "send"
      /\ task[t].msg \in Msgs /\ task[t].chan \in Chans
  BY ResumeSettled, SettledType DEF HubType
<1>2. Goes(t, Settled(t), broker)
  BY ResumeSettled, ContinueGoes DEF HubType
<1>3. /\ \A u \in Tasks \ {t} : task'[u].pc = task[u].pc /\ task'[u].msg = task[u].msg
      /\ task'[t].msg = task[t].msg /\ task'[t].pc \in {"send", "done", "failed"}
      /\ \/ broker' = broker
         \/ /\ task'[t].pc = "done" /\ t \notin Bridges
            /\ broker' = broker \union {[msg |-> task[t].msg, chan |-> task[t].chan]}
  <2> DEFINE k == Settled(t)
  <2>1. /\ k \in TaskRec /\ k.msg = task[t].msg /\ k.chan = task[t].chan
        /\ k.msg \in Msgs /\ k.chan \in Chans /\ Goes(t, k, broker)
    BY <1>1, <1>2
  <2> HIDE DEF k
  <2>2. /\ \A u \in Tasks \ {t} : Undisturbed(task[u], task'[u])
        /\ task'[t].msg = k.msg /\ task'[t].pc \in {"send", "done", "failed"}
        /\ \/ broker' = broker
           \/ /\ task'[t].pc = "done"
              /\ broker' = IF Forwards(t)
                           THEN broker \union {[msg |-> k.msg, chan |-> k.chan]}
                           ELSE broker
    BY <2>1, GoesFields DEF HubType
  <2>3. QED
    BY <2>1, <2>2 DEF Undisturbed, SameTask, Forwards
<1>4. UNCHANGED casts
  BY ResumeSettled
<1>5. /\ \A x \in Requests \union Publishers : x \in Tasks /\ x \notin Devices
      /\ t \notin Bridges => t \in Requests \union Publishers
  BY NamesApart DEF Tasks
<1>6. CASE broker' = broker
  BY <1>1, <1>3, <1>4, <1>5, <1>6 DEF EchoInv
<1>7. CASE /\ task'[t].pc = "done" /\ t \notin Bridges
           /\ broker' = broker \union {[msg |-> task[t].msg, chan |-> task[t].chan]}
  <2>1. task[t].msg = t /\ casts[t] = 1 /\ \A e \in broker : e.msg # t
    BY <1>1, <1>5, <1>7 DEF EchoInv
  <2>2. \A e \in broker' : e \in broker \/ e = [msg |-> t, chan |-> task[t].chan]
    BY <1>7, <2>1
  <2>3. \A e, f \in broker' : e.msg = f.msg => e = f
    BY <2>1, <2>2 DEF EchoInv
  <2>4. \A e \in broker' : casts'[e.msg] = IF e.msg \in Devices THEN 0 ELSE 1
    BY <1>4, <1>5, <1>7, <2>1, <2>2 DEF EchoInv
  <2>5. QED
    BY <1>3, <1>4, <1>5, <1>7, <2>1, <2>2, <2>3, <2>4 DEF EchoInv
<1>8. QED
  BY <1>3, <1>6, <1>7

(* What the hub forwards comes back once and is not forwarded again, for any *)
(* number of coroutines of the bridge: at most two broadcasts of a message,  *)
(* one of a device's.                                                        *)
THEOREM EchoOnceHolds == Spec => []EchoOnce
<1>1. Init => EchoInv
  <2> SUFFICES ASSUME Init PROVE EchoInv
    OBVIOUS
  <2>1. \A x \in Requests \union Publishers : x \in Tasks /\ x \in Msgs
    BY DEF Tasks, Msgs
  <2>2. \A d \in Devices : d \in Msgs
    BY DEF Msgs
  <2>3. QED
    BY <2>1, <2>2 DEF Init, EchoInv, IdleTask
<1>2. HubType /\ EchoInv /\ [Next]_vars => EchoInv'
  <2> SUFFICES ASSUME HubType, EchoInv, [Next]_vars PROVE EchoInv'
    OBVIOUS
  <2>1. ASSUME NEW d \in Devices, DevicePublish(d) PROVE EchoInv'
    <3>1. PICK c \in Chans : broker' = broker \union {[msg |-> d, chan |-> c]}
      BY <2>1 DEF DevicePublish
    <3>2. casts[d] = 0 /\ (\A e \in broker : e.msg # d) /\ UNCHANGED <<task, casts>>
      BY <2>1 DEF DevicePublish
    <3>3. \A x \in Requests \union Publishers : x # d
      BY NamesApart
    <3>4. \A e \in broker' : e \in broker \/ e = [msg |-> d, chan |-> c]
      BY <3>1
    <3>5. QED
      BY <3>2, <3>3, <3>4 DEF EchoInv
  <2>2. ASSUME NEW s \in Sockets,
               \/ Accept(s) \/ Handler(s) \/ Close(s)
               \/ \E c \in Chans : Subscribe(s, c) \/ Unsubscribe(s, c)
        PROVE  EchoInv'
    <3>1. /\ \A u \in Tasks : task'[u].pc = task[u].pc /\ task'[u].msg = task[u].msg
          /\ UNCHANGED <<broker, casts>>
      BY <2>2, HandlersFields DEF Undisturbed, SameTask
    <3>2. \A x \in Requests \union Publishers : x \in Tasks
      BY DEF Tasks
    <3>3. QED
      BY <3>1, <3>2 DEF EchoInv
  <2>3. CASE UNCHANGED vars
    BY <2>3 DEF vars, EchoInv
  <2>4. BrokerTyped
    BY DEF HubType
  <2>5. QED
    BY <2>1, <2>2, <2>3, <2>4, Beginnings, EchoBegins, EchoResume
<1>3. HubType /\ EchoInv => EchoOnce
  <2>1. \A m \in Msgs : m \in Devices \/ m \in Requests \union Publishers
    BY DEF Msgs
  <2>2. \A d \in Devices : d \notin Requests \union Publishers
    BY NamesApart
  <2>3. QED
    BY <2>1, <2>2 DEF EchoInv, EchoOnce
<1>4. QED
  BY <1>1, <1>2, <1>3, TypeInit, TypeStep, PTL DEF Spec

-----------------------------------------------------------------------------
(* Delivery.  A broadcast that nobody disturbed has its whole set either     *)
(* still before it or behind it; a subscriber has each of the last messages  *)
(* of its channel, or its replay will bring it, or the message is covered:   *)
(* by a publish to that channel that still sends it, was broken off or was   *)
(* disturbed.                                                                *)
Reached(m, s) == m \in got[s] \/ ~conn[s].open

SendOK(k) ==
  ~k.disturbed =>
    /\ k.pc = "send" =>
         /\ ~k.stirred /\ k.steady = subs[k.chan]
         /\ \A s \in k.steady : s \in k.left \/ s \in k.cur \/ Reached(k.msg, s)
    /\ k.pc = "done" => \A s \in k.steady : Reached(k.msg, s)

Covered(m, c) ==
  \E t \in Tasks : /\ task[t].pc # "idle" /\ task[t].msg = m /\ task[t].chan = c
                   /\ task[t].pc \in {"send", "failed"} \/ task[t].disturbed

LastOnes(c) == Among(LastOf(recent[c], ReplayLimit))

GapOK(s, c) ==
  s \in subs[c] /\ ~(conn[s].pc = "ack" /\ conn[s].ask = c) =>
    \A m \in LastOnes(c) :
      \/ Reached(m, s) \/ Covered(m, c)
      \/ conn[s].pc = "replay" /\ m \in Among(conn[s].list)

(* A socket that is not accepted yet is subscribed to nothing; a handler     *)
(* that waits, or runs a publish of its client, owes no acknowledgement.     *)
HandlerOK(s) ==
  /\ conn[s].pc = "new" =>
       /\ \A c \in Chans : s \notin subs[c]
       /\ \A t \in Tasks : s \notin task[t].steady
  /\ conn[s].pc = "recv" => conn[s].ask = NoChan
  /\ s \in Publishers /\ task[s].pc = "send" => conn[s].pc = "recv"

DeliverInv ==
  /\ \A t \in Tasks : SendOK(task[t])
  /\ \A s \in Sockets : HandlerOK(s) /\ \A c \in Chans : GapOK(s, c)

(* What was reached stays reached. *)
Onward ==
  \A s \in Sockets :
    /\ got[s] \subseteq got'[s]
    /\ conn'[s].open => conn[s].open \/ conn[s].pc = "new"

LEMMA StaysReached ==
  ASSUME Onward, NEW s \in Sockets, NEW m, Reached(m, s), conn[s].pc # "new"
  PROVE  Reached(m, s)'
BY DEF Onward, Reached

(* Nothing of the coroutine of another one's step is undone.                 *)
LEMMA OthersSend ==
  ASSUME HubType, DeliverInv, Onward, NEW u \in Tasks,
         Undisturbed(task[u], task'[u])
  PROVE  SendOK(task[u])'
<1> SUFFICES ASSUME ~task'[u].disturbed PROVE SendOK(task[u])'
  BY DEF SendOK
<1>1. /\ task'[u] = task[u]
      /\ task[u].pc = "send" => subs'[task[u].chan] = subs[task[u].chan]
  BY DEF Undisturbed
<1>2. SendOK(task[u]) /\ task[u].steady \in SUBSET Sockets
  BY DEF DeliverInv, HubType, TasksTyped, TaskRec
<1>3. \A s \in task[u].steady : conn[s].pc # "new"
  BY <1>2 DEF DeliverInv, HandlerOK
<1>4. PICK m : m = task[u].msg
  OBVIOUS
<1>5. \A s \in task[u].steady : Reached(m, s) => Reached(m, s)'
  BY <1>2, <1>3, StaysReached
<1>6. QED
  BY <1>1, <1>2, <1>4, <1>5 DEF SendOK, Reached

LEMMA OthersCover ==
  ASSUME NEW u \in Tasks, Undisturbed(task[u], task'[u]), NEW m, NEW c,
         task[u].pc # "idle", task[u].msg = m, task[u].chan = c,
         task[u].pc \in {"send", "failed"} \/ task[u].disturbed
  PROVE  Covered(m, c)'
<1>1. /\ task'[u].pc = task[u].pc /\ task'[u].msg = m /\ task'[u].chan = c
      /\ task'[u].disturbed \/ task'[u] = task[u]
  BY DEF Undisturbed, SameTask
<1>2. QED
  BY <1>1 DEF Covered

(* A publish of t that goes on from k: what it had reached before its next   *)
(* step is settled, and its message is the only new one of its channel.      *)
LEMMA DeliverGoes ==
  ASSUME HubType, DeliverInv, Onward, NEW t \in Tasks, NEW k \in TaskRec,
         k.msg \in Msgs, k.chan \in Chans, NEW mqtt, Goes(t, k, mqtt),
         ~k.disturbed =>
           /\ ~k.stirred /\ k.steady = subs[k.chan]
           /\ \A s \in k.steady : s \in k.left \/ k.msg \in got'[s] \/ ~conn[s].open,
         k.steady \subseteq subs[k.chan] \/ k.steady = task[t].steady,
         \/ task[t].pc = "idle"
         \/ task[t].pc = "send" /\ task[t].msg = k.msg /\ task[t].chan = k.chan,
         t \in Publishers => conn[t].pc = "recv",
         \A c \in Chans : LastOnes(c)' \subseteq
           LastOnes(c) \union (IF c = k.chan THEN {k.msg} ELSE {})
  PROVE  DeliverInv'
<1> DEFINE j == task'[t]
<1>1. /\ \A u \in Tasks \ {t} : Undisturbed(task[u], task'[u])
      /\ \A c \in Chans : subs'[c] \subseteq subs[c]
      /\ j.msg = k.msg /\ j.chan = k.chan
      /\ j.steady = k.steady /\ j.disturbed = k.disturbed
      /\ \/ /\ j.pc = "send" /\ j.stirred = FALSE /\ UNCHANGED <<subs, conn>>
            /\ \E rest \in Rest(k) : \E s \in rest :
                 j.cur = {s} /\ j.left = rest \ {s}
         \/ /\ j.pc = "done" /\ {} \in Rest(k)
            /\ conn' = IF t \in Publishers THEN [conn EXCEPT ![t].pc = "ack"] ELSE conn
         \/ /\ j.pc = "failed"
            /\ \/ t \in Publishers /\ Becomes(t, Gone)
               \/ UNCHANGED conn
  BY GoesFields DEF HubType
<1>2. k.steady \in SUBSET Sockets /\ k.disturbed \in BOOLEAN /\ k.stirred \in BOOLEAN
  BY DEF TaskRec
<1>3. \A s \in k.steady : conn[s].pc # "new"
  BY <1>2 DEF DeliverInv, HandlerOK
<1>4. ASSUME ~k.disturbed, NEW s \in k.steady, s \notin k.left
      PROVE  Reached(k.msg, s)'
  BY <1>2, <1>3, <1>4 DEF Onward, Reached
<1>5. ASSUME ~k.disturbed, NEW rest \in Rest(k) PROVE rest = k.left
  BY <1>5 DEF Rest
<1>6. SendOK(task[t])'
  <2> SUFFICES ASSUME ~j.disturbed PROVE SendOK(task[t])'
    BY DEF SendOK
  <2>1. ~k.disturbed
    BY <1>1
  <2>2. CASE j.pc = "send"
    <3>1. PICK rest \in Rest(k) : \E s \in rest : j.cur = {s} /\ j.left = rest \ {s}
      BY <1>1, <2>2
    <3>2. \A s \in k.left : s \in j.cur \/ s \in j.left
      BY <1>5, <2>1, <3>1
    <3>3. UNCHANGED subs /\ j.stirred = FALSE
      BY <1>1, <2>2
    <3>4. QED
      BY <1>1, <1>4, <2>1, <2>2, <3>2, <3>3 DEF SendOK
  <2>3. CASE j.pc = "done"
    <3>1. k.left = {}
      BY <1>1, <1>5, <2>1, <2>3
    <3>2. QED
      BY <1>1, <1>4, <2>1, <2>3, <3>1 DEF SendOK
  <2>4. CASE j.pc = "failed"
    BY <2>4 DEF SendOK
  <2>5. QED
    BY <1>1, <2>2, <2>3, <2>4
<1>7. \A u \in Tasks : SendOK(task[u])'
  BY <1>1, <1>6, OthersSend
<1>c. conn \in [Sockets -> ConnRec] /\ (t \in Publishers => t \in Sockets)
  BY HubAssumption DEF HubType, ConnTyped
<1>8. ASSUME NEW s \in Sockets
      PROVE  /\ conn'[s].pc = "new" => conn[s].pc = "new"
             /\ conn'[s].pc \in {"ack", "replay"} =>
                  /\ conn'[s].ask = conn[s].ask
                  /\ conn'[s].list = conn[s].list
                  /\ \/ conn'[s].pc = conn[s].pc
                     \/ conn[s].pc = "recv"
             /\ conn'[s].pc = "recv" => conn'[s] = conn[s]
             /\ s = t /\ s \in Publishers /\ j.pc = "send" => conn'[s] = conn[s]
             /\ s # t => conn'[s] = conn[s]
  <2>1. CASE UNCHANGED conn
    BY <2>1
  <2>2. CASE t \in Publishers /\ conn' = [conn EXCEPT ![t].pc = "ack"] /\ j.pc = "done"
    BY <1>c, <2>2 DEF ConnRec
  <2>3. CASE t \in Publishers /\ Becomes(t, Gone) /\ j.pc = "failed"
    BY <1>c, <2>3 DEF Becomes, Gone
  <2>4. QED
    BY <1>1, <2>1, <2>2, <2>3
<1>9. ASSUME NEW s \in Sockets PROVE HandlerOK(s)'
  <2>1. conn'[s].pc = "new" =>
          /\ \A c \in Chans : s \notin subs'[c]
          /\ \A u \in Tasks : s \notin task'[u].steady
    <3> SUFFICES ASSUME conn'[s].pc = "new"
                 PROVE  /\ \A c \in Chans : s \notin subs'[c]
                        /\ \A u \in Tasks : s \notin task'[u].steady
      OBVIOUS
    <3>1. /\ \A c \in Chans : s \notin subs[c]
          /\ \A u \in Tasks : s \notin task[u].steady
      BY <1>8 DEF DeliverInv, HandlerOK
    <3>2. s \notin task'[t].steady
      BY <1>1, <3>1
    <3>3. ASSUME NEW u \in Tasks \ {t} PROVE s \notin task'[u].steady
      BY <1>1, <3>1 DEF Undisturbed, SameTask
    <3>4. QED
      BY <1>1, <3>1, <3>2, <3>3
  <2>2. conn'[s].pc = "recv" => conn'[s].ask = NoChan
    BY <1>8 DEF DeliverInv, HandlerOK
  <2>3. s \in Publishers /\ task'[s].pc = "send" => conn'[s].pc = "recv"
    <3>1. CASE s = t
      BY <1>8, <3>1
    <3>2. CASE s # t /\ s \in Publishers
      <4>1. s \in Tasks
        BY <3>2 DEF Tasks
      <4>2. task'[s].pc = task[s].pc /\ conn'[s] = conn[s]
        BY <1>1, <1>8, <3>2, <4>1 DEF Undisturbed, SameTask
      <4>3. QED
        BY <3>2, <4>2 DEF DeliverInv, HandlerOK
    <3>3. QED
      BY <3>1, <3>2
  <2>4. QED
    BY <2>1, <2>2, <2>3 DEF HandlerOK
<1>10. ASSUME NEW s \in Sockets, NEW c \in Chans PROVE GapOK(s, c)'
  <2> SUFFICES ASSUME s \in subs'[c], ~(conn'[s].pc = "ack" /\ conn'[s].ask = c),
                      NEW m \in LastOnes(c)'
               PROVE  \/ Reached(m, s)' \/ Covered(m, c)'
                      \/ conn'[s].pc = "replay" /\ m \in Among(conn'[s].list)
    BY DEF GapOK
  <2>1. s \in subs[c] /\ conn[s].pc # "new"
    BY <1>1 DEF DeliverInv, HandlerOK
  <2>2. ASSUME c = k.chan, m = k.msg
        PROVE  Reached(m, s)' \/ Covered(m, c)'
    <3>1. CASE j.pc \in {"send", "failed"} \/ j.disturbed
      BY <1>1, <2>2, <3>1 DEF Covered
    <3>2. CASE j.pc = "done" /\ ~j.disturbed
      <4>1. s \in j.steady
        BY <1>1, <2>1, <2>2, <3>2
      <4>2. QED
        BY <1>1, <1>6, <2>2, <3>2, <4>1 DEF SendOK
    <3>3. QED
      BY <1>1, <3>1, <3>2
  <2>3. CASE c = k.chan /\ m = k.msg
    BY <2>2, <2>3
  <2>4. CASE ~(c = k.chan /\ m = k.msg)
    <3>1. m \in LastOnes(c)
      BY <2>4
    <3>2. ~(conn[s].pc = "ack" /\ conn[s].ask = c)
      <4> SUFFICES ASSUME conn[s].pc = "ack", conn[s].ask = c PROVE FALSE
        OBVIOUS
      <4>1. s # t
        <5>1. CASE t \in Publishers
          BY <5>1
        <5>2. CASE t \notin Publishers
          <6>1. UNCHANGED conn
            BY <1>1, <5>2
          <6>2. QED
            BY <6>1
        <5>3. QED
          BY <5>1, <5>2
      <4>2. QED
        BY <1>8, <4>1
    <3>3. \/ Reached(m, s) \/ Covered(m, c)
          \/ conn[s].pc = "replay" /\ m \in Among(conn[s].list)
      BY <2>1, <3>1, <3>2 DEF DeliverInv, GapOK
    <3>4. CASE Reached(m, s)
      BY <2>1, <3>4, StaysReached
    <3>5. CASE Covered(m, c)
      <4>1. PICK u \in Tasks :
              /\ task[u].pc # "idle" /\ task[u].msg = m /\ task[u].chan = c
              /\ task[u].pc \in {"send", "failed"} \/ task[u].disturbed
        BY <3>5 DEF Covered
      <4>2. u # t
        BY <2>4, <4>1
      <4>3. QED
        BY <1>1, <4>1, <4>2, OthersCover
    <3>6. CASE conn[s].pc = "replay" /\ m \in Among(conn[s].list)
      <4>1. CASE s = t /\ t \in Publishers
        BY <3>6, <4>1
      <4>2. CASE ~(s = t /\ t \in Publishers)
        <5>1. conn'[s] = conn[s]
          BY <1>1, <1>8, <4>2
        <5>2. QED
          BY <3>6, <5>1
      <4>3. QED
        BY <4>1, <4>2
    <3>7. QED
      BY <3>3, <3>4, <3>5, <3>6
  <2>5. QED
    BY <2>3, <2>4
<1>11. QED
  BY <1>7, <1>9, <1>10 DEF DeliverInv

LEMMA CoveredStays ==
  ASSUME \A u \in Tasks : Undisturbed(task[u], task'[u]), NEW m, NEW c, Covered(m, c)
  PROVE  Covered(m, c)'
<1>1. PICK u \in Tasks :
        /\ task[u].pc # "idle" /\ task[u].msg = m /\ task[u].chan = c
        /\ task[u].pc \in {"send", "failed"} \/ task[u].disturbed
  BY DEF Covered
<1>2. QED
  BY <1>1, OthersCover

(* A publish shortens no history of a socket and opens none.                 *)
LEMMA GoesOnward ==
  ASSUME HubType, NEW t \in Tasks, NEW k \in TaskRec, k.msg \in Msgs, k.chan \in Chans,
         NEW mqtt, Goes(t, k, mqtt), \A s \in Sockets : got[s] \subseteq got'[s]
  PROVE  Onward
<1>1. conn \in [Sockets -> ConnRec] /\ (t \in Publishers => t \in Sockets)
  BY HubAssumption DEF HubType, ConnTyped
<1>2. \/ UNCHANGED conn
      \/ t \in Publishers /\ conn' = [conn EXCEPT ![t].pc = "ack"]
      \/ t \in Publishers /\ Becomes(t, Gone)
  BY GoesFields DEF HubType
<1>3. \A s \in Sockets : conn'[s].open => conn[s].open
  BY <1>1, <1>2 DEF Becomes, Gone, ConnRec
<1>4. QED
  BY <1>3 DEF Onward

LEMMA DeliverBegins ==
  ASSUME HubType, DeliverInv, NEW t \in Tasks, NEW m \in Msgs, NEW c \in Chans,
         NEW mqtt, Begins(t, m, c, mqtt), t \in Publishers => Receiving(t)
  PROVE  DeliverInv'
<1> DEFINE k == Begun(m, c)
<1>1. /\ k \in TaskRec /\ k.msg = m /\ k.chan = c /\ k.left = subs[c]
      /\ k.steady = subs[c] /\ k.stirred = FALSE
  <2>1. k \in TaskRec
    BY BegunType DEF HubType
  <2>2. QED
    BY <2>1 DEF Begun
<1>2. Goes(t, k, mqtt)
  BY ContinueGoes DEF Begins, HubType
<1> HIDE DEF k
<1>3. UNCHANGED got /\ recent' = [recent EXCEPT ![c] = Trim(Append(@, m))]
  BY DEF Begins, Stored
<1>4. Onward
  BY <1>1, <1>2, <1>3, GoesOnward
<1>5. \A d \in Chans : LastOnes(d)' \subseteq
        LastOnes(d) \union (IF d = k.chan THEN {k.msg} ELSE {})
  <2> SUFFICES ASSUME NEW d \in Chans
               PROVE  LastOnes(d)' \subseteq
                        LastOnes(d) \union (IF d = c THEN {m} ELSE {})
    BY <1>1
  <2>1. recent[d] \in Seq(Msgs) /\ ReplayLimit \in 1..MaxRecent
    BY HubAssumption DEF HubType, RecentTyped
  <2>2. CASE d = c
    <3>1. recent'[d] = Trim(Append(recent[d], m))
      BY <1>3, <2>2 DEF HubType, RecentTyped
    <3>2. Among(LastOf(Trim(Append(recent[d], m)), ReplayLimit)) \subseteq
            Among(LastOf(recent[d], ReplayLimit)) \union {m}
      BY <2>1, LastOfMore
    <3>3. QED
      BY <2>2, <3>1, <3>2 DEF LastOnes
  <2>3. CASE d # c
    <3>1. recent'[d] = recent[d]
      BY <1>3, <2>3 DEF HubType, RecentTyped
    <3>2. QED
      BY <3>1 DEF LastOnes
  <2>4. QED
    BY <2>2, <2>3
<1>6. t \in Publishers => conn[t].pc = "recv"
  BY DEF Receiving
<1>7. task[t].pc = "idle"
  BY DEF Begins
<1>8. QED
  BY <1>1, <1>2, <1>4, <1>5, <1>6, <1>7, DeliverGoes

LEMMA DeliverResume ==
  ASSUME HubType, DeliverInv, NEW t \in Tasks, Resume(t)
  PROVE  DeliverInv'
<1>1. /\ task[t].pc = "send" /\ Continue(t, Settled(t), broker) /\ UNCHANGED recent
      /\ got' = [s \in Sockets |-> IF s \in {x \in task[t].cur : conn[x].open}
                                   THEN got[s] \union {task[t].msg} ELSE got[s]]
  BY ResumeSettled
<1> DEFINE k == Settled(t)
<1>2. /\ k \in TaskRec /\ k.msg = task[t].msg /\ k.chan = task[t].chan
      /\ k.left = task[t].left /\ k.steady = task[t].steady
      /\ k.stirred = task[t].stirred /\ k.disturbed = task[t].disturbed
      /\ k.msg \in Msgs /\ k.chan \in Chans
  BY <1>1, SettledType DEF HubType
<1>3. Goes(t, k, broker)
  BY <1>1, ContinueGoes DEF HubType
<1> HIDE DEF k
<1>4. Onward
  BY <1>1, <1>2, <1>3, GoesOnward
<1>5. ASSUME ~k.disturbed
      PROVE  /\ ~k.stirred /\ k.steady = subs[k.chan]
             /\ \A s \in k.steady : s \in k.left \/ k.msg \in got'[s] \/ ~conn[s].open
  <2>1. SendOK(task[t])
    BY DEF DeliverInv
  <2>2. /\ ~k.stirred /\ k.steady = subs[k.chan]
        /\ \A s \in k.steady : s \in k.left \/ s \in task[t].cur \/ Reached(k.msg, s)
    BY <1>1, <1>2, <1>5, <2>1 DEF SendOK
  <2>3. k.steady \in SUBSET Sockets
    BY <1>2 DEF TaskRec
  <2>4. \A s \in k.steady : s \in k.left \/ k.msg \in got'[s] \/ ~conn[s].open
    BY <1>1, <1>2, <2>2, <2>3 DEF Reached
  <2>5. QED
    BY <2>2, <2>4
<1>6. t \in Publishers => conn[t].pc = "recv"
  BY <1>1, HubAssumption DEF DeliverInv, HandlerOK
<1>7. \A c \in Chans : LastOnes(c)' \subseteq
        LastOnes(c) \union (IF c = k.chan THEN {k.msg} ELSE {})
  BY <1>1 DEF LastOnes
<1>8. QED
  BY <1>1, <1>2, <1>3, <1>4, <1>5, <1>6, <1>7, DeliverGoes

(* A step of the handler of s touches no other handler, subscribes no other  *)
(* socket and stores nothing: only s is to be looked at.                     *)
LEMMA DeliverHandles ==
  ASSUME HubType, DeliverInv, Onward, NEW s \in Sockets,
         \A u \in Tasks : Undisturbed(task[u], task'[u]), UNCHANGED recent,
         \A x \in Sockets \ {s} : conn'[x] = conn[x],
         \A c \in Chans : subs'[c] \subseteq subs[c] \union {s},
         HandlerOK(s)', \A c \in Chans : GapOK(s, c)'
  PROVE  DeliverInv'
<1>1. \A u \in Tasks : SendOK(task[u])'
  BY OthersSend
<1>2. ASSUME NEW x \in Sockets, x # s
      PROVE  HandlerOK(x)' /\ \A c \in Chans : GapOK(x, c)'
  <2>1. /\ conn'[x] = conn[x] /\ \A c \in Chans : x \in subs'[c] => x \in subs[c]
        /\ HandlerOK(x) /\ \A c \in Chans : GapOK(x, c)
    BY <1>2 DEF DeliverInv
  <2>2. \A u \in Tasks : task'[u].pc = task[u].pc /\ task'[u].steady \subseteq task[u].steady
    BY DEF Undisturbed, SameTask
  <2>3. x \in Publishers => x \in Tasks
    BY DEF Tasks
  <2>4. HandlerOK(x)'
    BY <2>1, <2>2, <2>3 DEF HandlerOK
  <2>5. ASSUME NEW c \in Chans PROVE GapOK(x, c)'
    <3> SUFFICES ASSUME x \in subs[c], ~(conn[x].pc = "ack" /\ conn[x].ask = c),
                        NEW m \in LastOnes(c)
                 PROVE  \/ Reached(m, x)' \/ Covered(m, c)'
                        \/ conn[x].pc = "replay" /\ m \in Among(conn[x].list)
      BY <2>1 DEF GapOK, LastOnes
    <3>1. conn[x].pc # "new"
      BY <2>1 DEF HandlerOK
    <3>2. \/ Reached(m, x) \/ Covered(m, c)
          \/ conn[x].pc = "replay" /\ m \in Among(conn[x].list)
      BY <2>1 DEF GapOK
    <3>3. Reached(m, x) => Reached(m, x)'
      BY <3>1, StaysReached
    <3>4. Covered(m, c) => Covered(m, c)'
      BY CoveredStays
    <3>5. QED
      BY <3>2, <3>3, <3>4
  <2>6. QED
    BY <2>4, <2>5
<1>3. QED
  BY <1>1, <1>2 DEF DeliverInv

(* What a handler has still to send it keeps, or it sends it.                *)
LEMMA GapStays ==
  ASSUME DeliverInv, Onward, NEW s \in Sockets, NEW c \in Chans,
         \A u \in Tasks : Undisturbed(task[u], task'[u]), UNCHANGED recent,
         s \in subs'[c] => s \in subs[c] /\ ~(conn[s].pc = "ack" /\ conn[s].ask = c),
         conn[s].pc = "replay" =>
           \A m \in Among(conn[s].list) :
             \/ m \in got'[s]
             \/ conn'[s].pc = "replay" /\ m \in Among(conn'[s].list)
  PROVE  GapOK(s, c)'
<1> SUFFICES ASSUME s \in subs'[c], NEW m \in LastOnes(c)
             PROVE  \/ Reached(m, s)' \/ Covered(m, c)'
                    \/ conn'[s].pc = "replay" /\ m \in Among(conn'[s].list)
  BY DEF GapOK, LastOnes
<1>1. HandlerOK(s) /\ GapOK(s, c)
  BY DEF DeliverInv
<1>2. conn[s].pc # "new"
  BY <1>1 DEF HandlerOK
<1>3. \/ Reached(m, s) \/ Covered(m, c)
      \/ conn[s].pc = "replay" /\ m \in Among(conn[s].list)
  BY <1>1 DEF GapOK
<1>4. Reached(m, s) => Reached(m, s)'
  BY <1>2, StaysReached
<1>5. Covered(m, c) => Covered(m, c)'
  BY CoveredStays
<1>6. m \in got'[s] => Reached(m, s)'
  BY DEF Reached
<1>7. QED
  BY <1>3, <1>4, <1>5, <1>6

LEMMA DeliverHandler ==
  ASSUME HubType, DeliverInv, NEW s \in Sockets, Accept(s) \/ Handler(s) \/ Close(s)
  PROVE  DeliverInv'
<1>1. /\ \A u \in Tasks : Undisturbed(task[u], task'[u])
      /\ UNCHANGED recent
  BY HandlersFields
<1>2. conn \in [Sockets -> ConnRec]
  BY DEF HubType, ConnTyped
<1>3. conn[s] \in ConnRec /\ got[s] \in SUBSET Msgs
  BY <1>2 DEF HubType, GotTyped
<1>4. HandlerOK(s) /\ \A c \in Chans : GapOK(s, c)
  BY DEF DeliverInv
<1>5. \A u \in Tasks : task'[u].pc = task[u].pc /\ task'[u].steady \subseteq task[u].steady
  BY <1>1 DEF Undisturbed, SameTask
<1>6. s \in Publishers => s \in Tasks
  BY DEF Tasks
<1>7. ASSUME HandlerEnds(s, task), conn[s].pc # "new", UNCHANGED got,
             s \in Publishers => task[s].pc # "send"
      PROVE  DeliverInv'
  <2>1. /\ conn'[s] = Gone /\ \A x \in Sockets \ {s} : conn'[x] = conn[x]
        /\ subs' = Without({s})
    BY <1>2, <1>7 DEF HandlerEnds, Becomes, Registry
  <2>2. \A c \in Chans : subs'[c] \subseteq subs[c]
    BY <2>1 DEF Without
  <2>3. Onward
    BY <1>7, <2>1 DEF Onward, Gone
  <2>4. HandlerOK(s)'
    BY <1>5, <1>6, <1>7, <2>1 DEF HandlerOK, Gone
  <2>5. \A c \in Chans : GapOK(s, c)'
    BY <2>1 DEF GapOK, Reached, Gone
  <2>6. QED
    BY <1>1, <2>1, <2>2, <2>3, <2>4, <2>5, DeliverHandles
<1>8. ASSUME NEW h, Becomes(s, h), UNCHANGED subs,
             \A x \in Sockets : got[x] \subseteq got'[x],
             h.open => conn[s].open \/ conn[s].pc = "new",
             h.pc = "new" => conn[s].pc = "new",
             h.pc = "recv" => h.ask = NoChan,
             s \in Publishers /\ task[s].pc = "send" => h.pc = "recv",
             \/ ~h.open
             \/ conn[s].pc = "new"
             \/ \A c \in Chans : GapOK(s, c)'
      PROVE  DeliverInv'
  <2>1. conn'[s] = h /\ \A x \in Sockets \ {s} : conn'[x] = conn[x]
    BY <1>2, <1>8 DEF Becomes
  <2>2. Onward
    BY <1>8, <2>1 DEF Onward
  <2>3. HandlerOK(s)'
    BY <1>4, <1>5, <1>6, <1>8, <2>1 DEF HandlerOK
  <2>4. \A c \in Chans : GapOK(s, c)'
    BY <1>4, <1>8, <2>1 DEF GapOK, Reached, HandlerOK
  <2>5. QED
    BY <1>1, <1>8, <2>1, <2>2, <2>3, <2>4, DeliverHandles
<1>9. CASE Accept(s)
  <2>1. Becomes(s, Waiting(TRUE)) /\ UNCHANGED <<subs, got>> /\ conn[s].pc = "new"
    BY <1>9 DEF Accept
  <2>2. s \in Publishers => task[s].pc # "send"
    BY <1>4, <2>1 DEF HandlerOK
  <2>3. QED
    BY <1>8, <2>1, <2>2 DEF Waiting
<1>10. CASE Close(s)
  <2> DEFINE h == [conn[s] EXCEPT !.open = FALSE]
  <2>1. Becomes(s, h) /\ UNCHANGED <<subs, got>>
    BY <1>2, <1>10 DEF Close, Becomes
  <2>2. h.pc = conn[s].pc /\ h.ask = conn[s].ask /\ h.open = FALSE
    BY <1>3 DEF ConnRec
  <2> HIDE DEF h
  <2>3. QED
    BY <1>4, <1>8, <2>1, <2>2 DEF HandlerOK
<1>11. ASSUME Onward, UNCHANGED subs, conn[s].pc \in {"ack", "replay"},
              \A c \in Chans : ~(conn[s].pc = "ack" /\ conn[s].ask = c),
              conn[s].pc = "replay" =>
                \A m \in Among(conn[s].list) :
                  \/ m \in got'[s]
                  \/ conn'[s].pc = "replay" /\ m \in Among(conn'[s].list)
       PROVE  \A c \in Chans : GapOK(s, c)'
  BY <1>1, <1>11, GapStays
<1>12. CASE Ack(s)
  <2>1. conn[s].pc = "ack" /\ UNCHANGED got
    BY <1>12 DEF Ack
  <2>2. s \in Publishers => task[s].pc # "send"
    BY <1>4, <2>1 DEF HandlerOK
  <2>3. CASE ~conn[s].open
    BY <1>7, <1>12, <2>1, <2>2, <2>3 DEF Ack
  <2>4. CASE conn[s].open /\ conn[s].ask = NoChan
    <3>1. Becomes(s, Waiting(TRUE)) /\ UNCHANGED subs
      BY <1>12, <2>4 DEF Ack
    <3>2. Onward
      BY <1>2, <2>1, <2>4, <3>1 DEF Onward, Becomes, Waiting
    <3>3. \A c \in Chans : GapOK(s, c)'
      BY <1>11, <2>1, <2>4, <3>1, <3>2, HubAssumption
    <3>4. QED
      BY <1>8, <2>1, <2>2, <2>4, <3>1, <3>3 DEF Waiting
  <2>5. CASE conn[s].open /\ conn[s].ask # NoChan
    <3> DEFINE list == LastOf(recent[conn[s].ask], ReplayLimit)
               h == Serving("replay", NoChan, list)
    <3>1. Becomes(s, h) /\ UNCHANGED subs
      BY <1>12, <2>5 DEF Ack
    <3>2. h.pc = "replay" /\ h.open = TRUE /\ h.list = list
      BY DEF Serving
    <3> HIDE DEF h
    <3>3. conn'[s] = h /\ \A x \in Sockets \ {s} : conn'[x] = conn[x]
      BY <1>2, <3>1 DEF Becomes
    <3>4. Onward
      BY <2>1, <2>5, <3>3 DEF Onward
    <3>5. ASSUME NEW c \in Chans PROVE GapOK(s, c)'
      <4>1. CASE c = conn[s].ask
        <5>1. Among(conn'[s].list) = LastOnes(c)
          BY <3>2, <3>3, <4>1 DEF LastOnes
        <5>2. QED
          BY <1>1, <3>2, <3>3, <5>1 DEF GapOK, LastOnes
      <4>2. CASE c # conn[s].ask
        BY <1>1, <2>1, <3>1, <3>4, <4>2, GapStays
      <4>3. QED
        BY <4>1, <4>2
    <3>6. QED
      BY <1>8, <2>1, <2>2, <2>5, <3>1, <3>2, <3>5
  <2>6. QED
    BY <2>3, <2>4, <2>5
<1>13. CASE Replay(s)
  <2>1. conn[s].pc = "replay" /\ conn[s].list \in Seq(Msgs)
    BY <1>3, <1>13 DEF Replay, ConnRec
  <2>2. s \in Publishers => task[s].pc # "send"
    BY <1>4, <2>1 DEF HandlerOK
  <2>3. CASE conn[s].list = <<>> /\ Becomes(s, Waiting(conn[s].open)) /\ UNCHANGED <<subs, got>>
    <3>1. Onward
      BY <1>2, <2>1, <2>3 DEF Onward, Becomes, Waiting
    <3>2. Among(conn[s].list) = {}
      BY <2>3 DEF Among
    <3>3. \A c \in Chans : GapOK(s, c)'
      BY <1>11, <2>1, <2>3, <3>1, <3>2
    <3>4. QED
      BY <1>8, <2>1, <2>2, <2>3, <3>3 DEF Waiting
  <2>4. CASE /\ conn[s].list # <<>> /\ conn[s].open
             /\ Becomes(s, Serving("replay", NoChan, Tail(conn[s].list)))
             /\ got' = [got EXCEPT ![s] = @ \union {Head(conn[s].list)}]
             /\ UNCHANGED subs
    <3> DEFINE h == Serving("replay", NoChan, Tail(conn[s].list))
    <3>1. h.pc = "replay" /\ h.open = TRUE /\ h.list = Tail(conn[s].list)
      BY DEF Serving
    <3>2. Becomes(s, h)
      BY <2>4
    <3> HIDE DEF h
    <3>3. conn'[s] = h /\ \A x \in Sockets \ {s} : conn'[x] = conn[x]
      BY <1>2, <3>2 DEF Becomes
    <3>4. /\ got'[s] = got[s] \union {Head(conn[s].list)}
          /\ \A x \in Sockets : got[x] \subseteq got'[x]
      BY <2>4 DEF HubType, GotTyped
    <3>5. Onward
      BY <2>4, <3>3, <3>4 DEF Onward
    <3>6. \A m \in Among(conn[s].list) :
            m = Head(conn[s].list) \/ m \in Among(Tail(conn[s].list))
      <4> SUFFICES ASSUME NEW i \in DOMAIN conn[s].list, i # 1
                   PROVE  conn[s].list[i] \in Among(Tail(conn[s].list))
        BY <2>1, <2>4 DEF Among
      <4>1. /\ i - 1 \in DOMAIN Tail(conn[s].list)
            /\ conn[s].list[i] = Tail(conn[s].list)[i - 1]
        BY <2>1, <2>4
      <4>2. QED
        BY <4>1 DEF Among
    <3>7. \A m \in Among(conn[s].list) :
            \/ m \in got'[s]
            \/ conn'[s].pc = "replay" /\ m \in Among(conn'[s].list)
      <4>1. conn'[s].pc = "replay" /\ Among(conn'[s].list) = Among(Tail(conn[s].list))
        BY <3>1, <3>3
      <4>2. Head(conn[s].list) \in got'[s]
        BY <3>4
      <4>3. QED
        BY <3>6, <4>1, <4>2
    <3>8. \A c \in Chans : GapOK(s, c)'
      BY <1>11, <2>1, <2>4, <3>5, <3>7
    <3>9. QED
      BY <1>8, <2>1, <2>2, <2>4, <3>1, <3>2, <3>4, <3>8
  <2>5. CASE HandlerEnds(s, task) /\ UNCHANGED got
    BY <1>7, <2>1, <2>2, <2>5
  <2>6. QED
    BY <1>13, <2>3, <2>4, <2>5 DEF Replay
<1>14. CASE Disconnected(s)
  BY <1>7, <1>14 DEF Disconnected, Busy
<1>15. QED
  BY <1>9, <1>10, <1>12, <1>13, <1>14 DEF Handler

LEMMA DeliverSubscribe ==
  ASSUME HubType, DeliverInv, NEW s \in Sockets, NEW c \in Chans,
         Subscribe(s, c) \/ Unsubscribe(s, c)
  PROVE  DeliverInv'
<1>1. /\ \A u \in Tasks : Undisturbed(task[u], task'[u])
      /\ UNCHANGED <<recent, got>>
  BY HandlersFields DEF Subscribe, Unsubscribe
<1>2. PICK ask \in Chans \union {NoChan} :
        /\ Becomes(s, Serving("ack", ask, <<>>)) /\ Receiving(s)
        /\ \/ ask = c /\ subs' = [subs EXCEPT ![c] = @ \union {s}]
           \/ subs' = [subs EXCEPT ![c] = @ \ {s}]
  BY DEF Subscribe, Unsubscribe, Registry
<1>3. conn'[s] = Serving("ack", ask, <<>>) /\ \A x \in Sockets \ {s} : conn'[x] = conn[x]
  BY <1>2 DEF HubType, ConnTyped, Becomes
<1>4. conn'[s].pc = "ack" /\ conn'[s].ask = ask /\ conn'[s].open = TRUE
  BY <1>3 DEF Serving
<1>5. conn[s].pc = "recv" /\ conn[s].open /\ (s \in Publishers => task[s].pc # "send")
  BY <1>2 DEF Receiving, Busy
<1>6. Onward
  BY <1>1, <1>3, <1>5 DEF Onward
<1>7. subs \in [Chans -> SUBSET Sockets]
  BY DEF HubType, RegistryTyped
<1>8. \A d \in Chans : subs'[d] \subseteq subs[d] \union {s}
  BY <1>2, <1>7
<1>9. \A u \in Tasks : task'[u].pc = task[u].pc
  BY <1>1 DEF Undisturbed, SameTask
<1>10. HandlerOK(s)'
  BY <1>4, <1>5, <1>9 DEF HandlerOK, Tasks
<1>11. ASSUME NEW d \in Chans PROVE GapOK(s, d)'
  <2>1. CASE d = c /\ ask = c
    BY <1>4, <2>1 DEF GapOK
  <2>2. CASE ~(d = c /\ ask = c)
    <3>1. s \in subs'[d] => s \in subs[d]
      BY <1>2, <1>7, <2>2
    <3>2. QED
      BY <1>1, <1>5, <1>6, <3>1, GapStays
  <2>3. QED
    BY <2>1, <2>2
<1>12. QED
  BY <1>1, <1>3, <1>6, <1>8, <1>10, <1>11, DeliverHandles

LEMMA DeliverStep == HubType /\ DeliverInv /\ [Next]_vars => DeliverInv'
<1> SUFFICES ASSUME HubType, DeliverInv, [Next]_vars PROVE DeliverInv'
  OBVIOUS
<1>1. ASSUME UNCHANGED <<subs, conn, recent, task, got>> PROVE DeliverInv'
  BY <1>1 DEF DeliverInv, SendOK, HandlerOK, GapOK, Reached, Covered, LastOnes
<1>2. ASSUME NEW d \in Devices, DevicePublish(d) PROVE DeliverInv'
  BY <1>1, <1>2 DEF DevicePublish
<1>3. CASE UNCHANGED vars
  BY <1>1, <1>3 DEF vars
<1>4. ASSUME NEW t \in Tasks, NEW m \in Msgs, NEW c \in Chans,
             NEW mqtt \in SUBSET [msg : Msgs, chan : Chans], Begins(t, m, c, mqtt),
             \/ t \in Requests \union Publishers /\ (t \in Publishers => Receiving(t))
             \/ t \in Bridges
      PROVE  DeliverInv'
  <2>1. t \in Publishers => Receiving(t)
    BY <1>4, NamesApart
  <2>2. QED
    BY <1>4, <2>1, DeliverBegins
<1>5. BrokerTyped
  BY DEF HubType
<1>6. QED
  BY <1>2, <1>3, <1>4, <1>5, Beginnings, DeliverResume, DeliverHandler, DeliverSubscribe

LEMMA DeliverInit == Init => DeliverInv
<1> SUFFICES ASSUME Init PROVE DeliverInv
  OBVIOUS
<1>1. \A t \in Tasks : task[t].pc = "idle" /\ task[t].steady = {}
  BY DEF Init, IdleTask
<1>2. \A s \in Sockets : conn[s].pc = "new" /\ \A c \in Chans : s \notin subs[c]
  BY DEF Init
<1>3. \A s \in Publishers : s \in Tasks
  BY DEF Tasks
<1>4. QED
  BY <1>1, <1>2, <1>3 DEF DeliverInv, SendOK, HandlerOK, GapOK

(* No subscriber that stays misses a message, live or replayed, unless its   *)
(* set was changed during the broadcast: for any number of sockets, publishes*)
(* and channels, and whatever the replay limit.                              *)
THEOREM DeliveredHolds == Spec => []Delivered
<1>1. HubType /\ DeliverInv => Delivered
  <2> SUFFICES ASSUME HubType, DeliverInv PROVE UndisturbedReachesAll /\ NoGap
    BY DEF Delivered
  <2>1. UndisturbedReachesAll
    BY DEF DeliverInv, SendOK, Reached, UndisturbedReachesAll
  <2>2. NoGap
    <3> SUFFICES ASSUME NEW s \in Sockets, NEW c \in Chans, s \in subs[c], Receiving(s),
                        NEW i \in DOMAIN LastOf(recent[c], ReplayLimit),
                        NEW m, m = LastOf(recent[c], ReplayLimit)[i]
                 PROVE  \/ m \in got[s]
                        \/ \E t \in Tasks : /\ task[t].msg = m
                                            /\ \/ task[t].pc = "send" \/ task[t].pc = "failed"
                                               \/ task[t].disturbed
      BY DEF NoGap
    <3>1. m \in LastOnes(c)
      BY DEF LastOnes, Among
    <3>2. conn[s].pc = "recv" /\ conn[s].open
      BY DEF Receiving
    <3>3. Reached(m, s) \/ Covered(m, c)
      BY <3>1, <3>2 DEF DeliverInv, GapOK
    <3>4. QED
      BY <3>2, <3>3 DEF Reached, Covered
  <2>3. QED
    BY <2>1, <2>2
<1>2. QED
  BY <1>1, TypeInit, TypeStep, DeliverInit, DeliverStep, PTL DEF Spec
=============================================================================
