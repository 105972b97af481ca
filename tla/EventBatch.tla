----------------------------- MODULE EventBatch -----------------------------
(***************************************************************************)
(* The batch buffer between channel messages and ClickHouse                *)
(* (backend/channels.py: _buffer_event, _flush_batch, _batch_flush_loop).  *)
(* Every published message starts a _buffer_event task; a full buffer is   *)
(* posted by the task that filled it, the rest by a background loop that   *)
(* sleeps, flushes and waits for its own POST.  All of it runs on one      *)
(* event loop, and _batch_lock is never held across an await: a step is    *)
(* what runs between two awaits that can suspend.                          *)
(*                                                                         *)
(* Time is kept as ages and countdowns.  It passes only when the loop has  *)
(* nothing that is due, i.e. nothing else blocks the event loop.           *)
(***************************************************************************)
EXTENDS Integers, Sequences, FiniteSets

CONSTANTS
  MaxEvents,      \* bound: messages published
  BatchSize,      \* BATCH_SIZE (500)
  BatchInterval,  \* BATCH_INTERVAL (1 s), in ticks
  PostTimeout     \* longest POST (30 s), in ticks

BatchAssumption ==
  /\ MaxEvents \in Nat /\ BatchSize \in Nat \ {0}
  /\ BatchInterval \in Nat \ {0} /\ PostTimeout \in Nat

Events == 1..MaxEvents   \* in the order they are published

VARIABLES
  published,  \* number of messages published
  ready,      \* _buffer_event tasks created and not run, first to last
  buffer,     \* _batch_buffer: [id, age]
  posts,      \* INSERTs in progress: [ids, by, age]
  timer,      \* _batch_flush_loop: [pc, left]
  rows,       \* data_events: [Events -> Nat]
  settled     \* events whose INSERT ended (history)

batchVars == <<published, ready, buffer, posts, timer, rows, settled>>

Idle == [pc |-> "none", left |-> 0]
Sleeping == [pc |-> "sleep", left |-> BatchInterval]
Posting == [pc |-> "post", left |-> 0]

IdsOf(b) == {b[i].id : i \in DOMAIN b}
Post(b, who) == [ids |-> IdsOf(b), by |-> who, age |-> 0]

BatchInit ==
  /\ published = 0 /\ ready = <<>> /\ buffer = <<>> /\ posts = {}
  /\ timer = Idle
  /\ rows = [e \in Events |-> 0] /\ settled = {}

(* asyncio.create_task(_buffer_event(...)) in publish. *)
Publish ==
  /\ published < MaxEvents
  /\ published' = published + 1
  /\ ready' = Append(ready, published + 1)
  /\ UNCHANGED <<buffer, posts, timer, rows, settled>>

IsFullLate(b) == Len(b) > BatchSize   \* mutant: off by one
IsFull(b) == Len(b) >= BatchSize

FlushKeeping(b, who) ==   \* mutant: copied, but not cleared
  posts' = posts \union {Post(b, who)} /\ buffer' = b

(* _flush_batch up to its POST: copy and clear are one step. *)
Flush(b, who) ==
  posts' = posts \union {Post(b, who)} /\ buffer' = <<>>

(* _buffer_event: start the loop if needed, append, flush a full buffer. *)
BufferEvent ==
  /\ ready # <<>>
  /\ ready' = Tail(ready)
  /\ timer' = IF timer.pc = "none" THEN Sleeping ELSE timer
  /\ LET b == Append(buffer, [id |-> Head(ready), age |-> 0]) IN
       IF IsFull(b) THEN Flush(b, "size") ELSE buffer' = b /\ UNCHANGED posts
  /\ UNCHANGED <<published, rows, settled>>

(* The loop wakes up; an empty buffer is left alone. *)
TimerFires ==
  /\ timer.pc = "sleep" /\ timer.left = 0
  /\ IF buffer = <<>>
       THEN timer' = Sleeping /\ UNCHANGED <<buffer, posts>>
       ELSE timer' = Posting /\ Flush(buffer, "timer")
  /\ UNCHANGED <<published, ready, rows, settled>>

(* A POST ends.  Whether it succeeded, failed, or timed out after the rows   *)
(* were inserted, the batch is forgotten; the loop sleeps again.             *)
PostEnds(p) ==
  /\ posts' = posts \ {p}
  /\ settled' = settled \union p.ids
  /\ \E stored \in BOOLEAN :
       rows' = [e \in Events |-> IF stored /\ e \in p.ids THEN rows[e] + 1 ELSE rows[e]]
  /\ timer' = IF p.by = "timer" THEN Sleeping ELSE timer
  /\ UNCHANGED <<published, ready, buffer>>

(* Bound: nobody asks how much longer than this an event has waited. *)
Older(age) == IF age > BatchInterval + PostTimeout THEN age ELSE age + 1

(* Nothing is due: time passes. *)
Tick ==
  /\ ready = <<>>
  /\ timer.pc = "sleep" => timer.left > 0
  /\ \A p \in posts : p.age < PostTimeout
  /\ timer' = IF timer.pc = "sleep" THEN [timer EXCEPT !.left = @ - 1] ELSE timer
  /\ buffer' = [i \in DOMAIN buffer |-> [buffer[i] EXCEPT !.age = Older(@)]]
  /\ posts' = {[p EXCEPT !.age = @ + 1] : p \in posts}
  /\ UNCHANGED <<published, ready, rows, settled>>

BatchNext ==
  \/ Publish \/ BufferEvent \/ TimerFires \/ Tick
  \/ \E p \in posts : PostEnds(p)

BatchSpec == BatchInit /\ [][BatchNext]_batchVars

(* The event loop runs what is ready, time passes, and httpx ends a POST     *)
(* with a response or an exception.                                          *)
BatchFairness ==
  /\ WF_batchVars(BufferEvent) /\ WF_batchVars(TimerFires) /\ WF_batchVars(Tick)
  /\ WF_batchVars(\E p \in posts : PostEnds(p))

FairBatchSpec == BatchSpec /\ BatchFairness

-----------------------------------------------------------------------------
(* Properties.                                                               *)

(* The buffer's variables keep their types. *)
BatchTypeOK ==
  /\ published \in 0..MaxEvents
  /\ ready \in Seq(Events)
  /\ buffer \in Seq([id : Events, age : Nat])
  /\ posts \subseteq [ids : SUBSET Events, by : {"timer", "size"}, age : Nat]
  /\ timer \in [pc : {"none", "sleep", "post"}, left : Nat]
  /\ rows \in [Events -> Nat]
  /\ settled \subseteq Events

(* "flushes every 1s or 500 msgs": whatever the loop and the publishing      *)
(* tasks do in between, the buffer never holds a full batch between steps.   *)
BufferBounded == Len(buffer) < BatchSize

InReady == {ready[i] : i \in DOMAIN ready}
InPosts == UNION {p.ids : p \in posts}
Pending == InReady \union IdsOf(buffer) \union InPosts

(* An event that was published and whose INSERT has not ended is in exactly  *)
(* one place, once: waiting for its task, buffered, or in one POST; so no    *)
(* event is dropped before the database is asked, and none is asked twice.   *)
InOnePlace ==
  /\ Pending \union settled = 1..published
  /\ Len(ready) + Len(buffer) + Cardinality(InPosts) + Cardinality(settled)
       = published
  /\ \A p, q \in posts : p # q => p.ids \intersect q.ids = {}

(* An event waits in the buffer for at most the interval and the POST of the *)
(* batch before it.                                                          *)
WaitBounded ==
  \A i \in DOMAIN buffer : buffer[i].age <= BatchInterval + PostTimeout

(* Together: the buffer is bounded in size and in time, and loses nothing.   *)
BufferHolds == BufferBounded /\ InOnePlace /\ WaitBounded

(* The buffer does what EventSink promises.                                  *)
Sink == INSTANCE EventSink WITH pending <- Pending
SinkSpec == Sink!Spec

(* Every published event is at last inserted or given up, also when POSTs    *)
(* fail: the background loop never stops.                                    *)
EventsSettle == \A e \in Events : (e <= published) ~> (e \in settled)
=============================================================================
