--------------------------- MODULE SchedulerProofs ---------------------------
(***************************************************************************)
(* Proofs about Scheduler, for any number of replicas, pages and users.    *)
(***************************************************************************)
EXTENDS Scheduler, FiniteSetTheorems, TLAPS

(* What keeps TypeOK inductive: a loop that is at a run has its log row.   *)
RunLogged == \A r \in Replicas : Executing(r) => rep[r].id \in DOMAIN log

TypeInv == TypeOK /\ RunLogged

(* What a step of a loop does to everything but the loop's own state.       *)
OthersTyped ==
  /\ log' \in Seq(LogRow) /\ DOMAIN log \subseteq DOMAIN log'
  /\ held' \subseteq Replicas \X {"cur", "old"}
  /\ config' \in [Pages -> Config] /\ faults' \in Nat
  /\ UNCHANGED <<clock, draft, edits, want>>

IdOK(l) ==
  l.pc \in {"exec", "record", "handler", "logend"} => l.id \in DOMAIN log'

LEMMA DataTypes ==
  /\ NoSchedule \in Schedule
  /\ NoTask \in Snapshot
  /\ \A c \in Crons, b \in BOOLEAN : FreshSchedule(c, b) \in Schedule
  /\ \A t \in Nat : \A s \in {"none", "ok", "aborted", "dead"} :
       Asleep(t, s) \in Loop
  /\ NoDraft \in [open : BOOLEAN, page : Pages, cfg : Config]
<1>1. NoSchedule \in Schedule
  BY DEF NoSchedule, FreshSchedule, Schedule, Never
<1>2. NoTask \in Snapshot
  BY <1>1, DataAssumption DEF NoTask, Snapshot, Config
<1>3. \A c \in Crons, b \in BOOLEAN : FreshSchedule(c, b) \in Schedule
  BY DEF FreshSchedule, Schedule, Never
<1>4. ASSUME NEW t \in Nat, NEW s \in {"none", "ok", "aborted", "dead"}
      PROVE  Asleep(t, s) \in Loop
  BY <1>2 DEF Asleep, Loop, Locals
<1>5. NoDraft \in [open : BOOLEAN, page : Pages, cfg : Config]
  BY <1>1, <1>2 DEF NoDraft, NoTask, Snapshot
<1>6. QED
  BY <1>1, <1>2, <1>3, <1>4, <1>5

LEMMA TypeInit == Init => TypeInv
<1> SUFFICES ASSUME Init PROVE TypeInv
  OBVIOUS
<1>1. config \in [Pages -> Config]
  <2>1. ASSUME NEW p \in Pages PROVE config[p] \in Config
    <3>1. PICK c \in Crons : config[p] = [schedule |-> FreshSchedule(c, TRUE),
                                         content |-> 0]
      BY DEF Init
    <3>2. QED
      BY <3>1 DEF Config, FreshSchedule, Schedule, Never
  <2>2. QED
    BY <2>1 DEF Init
<1>2. rep \in [Replicas -> Loop]
  BY DataTypes DEF Init
<1>3. draft \in [Users -> [open : BOOLEAN, page : Pages, cfg : Config]]
  BY DataTypes DEF Init
<1>4. RunLogged
  BY DEF Init, RunLogged, Executing, Asleep
<1>5. log \in Seq(LogRow)
  BY DEF Init
<1>6. QED
  BY <1>1, <1>2, <1>3, <1>4, <1>5 DEF Init, TypeInv, TypeOK

(* The argument every loop step shares: a loop stays a Loop, rows are only   *)
(* added or updated, and a loop at a run keeps naming an existing row.       *)
LEMMA TypeStep ==
  ASSUME TypeInv, NEW r \in Replicas, NEW l \in Loop, Becomes(r, l),
         OthersTyped, IdOK(l)
  PROVE  TypeInv'
<1>1. rep' \in [Replicas -> Loop]
  BY DEF TypeInv, TypeOK, Becomes
<1>2. rep'[r] = l /\ \A s \in Replicas \ {r} : rep'[s] = rep[s]
  BY DEF TypeInv, TypeOK, Becomes
<1>3. RunLogged'
  BY <1>2 DEF TypeInv, RunLogged, Executing, OthersTyped, IdOK
<1>4. QED
  BY <1>1, <1>3 DEF TypeInv, TypeOK, OthersTyped

(* Updating a row of task_logs. *)
LEMMA RowUpdate ==
  ASSUME log \in Seq(LogRow), NEW i \in DOMAIN log, NEW row \in LogRow,
         RowBecomes(i, row)
  PROVE  log' \in Seq(LogRow) /\ DOMAIN log' = DOMAIN log
BY DEF RowBecomes

(* Three updates of a local state, for use in the context of a whole step.  *)
LEMMA LoopStarts ==
  ASSUME NEW l \in Loop, NEW t \in Snapshot, NEW n \in Nat
  PROVE  [l EXCEPT !.pc = "exec", !.todo = @ \ {t}, !.cur = t, !.id = n,
                   !.pos = 1, !.pending = FALSE] \in Loop
BY DEF Loop, Locals

LEMMA LoopReturns ==
  ASSUME NEW l \in Loop, NEW b \in BOOLEAN
  PROVE  [l EXCEPT !.pc = "record", !.good = b] \in Loop
BY DEF Loop, Locals

LEMMA LoopCommits ==
  ASSUME NEW l \in Loop
  PROVE  [l EXCEPT !.pending = FALSE, !.pos = @ + 1] \in Loop
<1>1. ASSUME NEW n \in Nat PROVE [l EXCEPT !.pending = FALSE, !.pos = n] \in Loop
  BY DEF Loop
<1>2. l.pos + 1 \in Nat
  BY DEF Loop
<1>3. QED
  BY <1>1, <1>2

LEMMA TypeLoop ==
  ASSUME TypeInv, NEW r \in Replicas, LoopStep(r)
  PROVE  TypeInv'
<1> DEFINE l == rep[r]
<1>a. l \in Loop /\ TypeOK /\ (Executing(r) => l.id \in DOMAIN log)
  BY DEF TypeInv, TypeOK, RunLogged
<1>s. clock \in Nat /\ Sleeping(clock) \in Nat
  BY <1>a, TimeAssumption DEF TypeOK, Sleeping
<1>1. CASE Connect(r)
  <2> DEFINE m == [l EXCEPT !.pc = "connected", !.sess = "ok"]
  <2>1. m \in Loop
    BY <1>a DEF Loop, Locals
  <2>2. Becomes(r, m)
    BY <1>1 DEF Connect, At
  <2>3. OthersTyped
    BY <1>a, <1>1 DEF Connect, OthersTyped, TypeOK
  <2>4. IdOK(m)
    BY <1>a, <1>1 DEF Connect, IdOK, OthersTyped, At, Executing
  <2> HIDE DEF m
  <2>5. QED
    BY <2>1, <2>2, <2>3, <2>4, TypeStep
<1>2. CASE TryLock(r)
  <2>1. OthersTyped
    BY <1>a, <1>2 DEF TryLock, OthersTyped, TypeOK
  <2>2. CASE LockGranted(r)
    <3> DEFINE m == [l EXCEPT !.pc = "fetch", !.now = clock]
    <3>1. m \in Loop
      BY <1>a, <1>s DEF Loop, Locals
    <3>2. Becomes(r, m)
      BY <1>2, <2>2 DEF TryLock, At
    <3>3. IdOK(m)
      BY <1>a, <1>2, <2>2, <2>1 DEF TryLock, IdOK, OthersTyped, At, Executing
    <3> HIDE DEF m
    <3>4. QED
      BY <2>1, <3>1, <3>2, <3>3, TypeStep
  <2>3. CASE ~(LockGranted(r))
    <3> DEFINE m == Asleep(Sleeping(clock), "none")
    <3>1. m \in Loop
      BY <1>s, DataTypes
    <3>2. Becomes(r, m)
      BY <1>2, <2>3 DEF TryLock, At
    <3>3. IdOK(m)
      BY <1>a, <1>2, <2>3, <2>1 DEF TryLock, IdOK, OthersTyped, At, Executing, Asleep
    <3> HIDE DEF m
    <3>4. QED
      BY <2>1, <3>1, <3>2, <3>3, TypeStep
  <2>4. QED
    BY <2>2, <2>3
<1>3. CASE PollFails(r)
  <2> DEFINE m == Asleep(Sleeping(clock), "dead")
  <2>1. m \in Loop
    BY <1>s, DataTypes
  <2>2. Becomes(r, m)
    BY <1>3 DEF PollFails, At
  <2>3. OthersTyped
    BY <1>a, <1>3 DEF PollFails, OthersTyped, TypeOK
  <2>4. IdOK(m)
    BY <1>a, <1>3 DEF PollFails, IdOK, OthersTyped, At, Executing, Asleep
  <2> HIDE DEF m
  <2>5. QED
    BY <2>1, <2>2, <2>3, <2>4, TypeStep
<1>4. CASE FetchTasks(r)
  <2>1. OthersTyped
    BY <1>a, <1>4 DEF FetchTasks, OthersTyped, TypeOK
  <2>t. \A p \in Pages : [page |-> p, cfg |-> config[p]] \in Snapshot
    BY <1>a DEF TypeOK, Snapshot
  <2>2. CASE l.sess = "ok"
    <3> DEFINE m == [l EXCEPT !.pc = "loop", !.todo =
              {[page |-> p, cfg |-> config[p]] :
                 p \in {q \in Pages : Selected(q, l.now)}}]
    <3>1. m \in Loop
      BY <1>a, <2>t DEF Loop, Locals
    <3>2. Becomes(r, m)
      BY <1>4, <2>2 DEF FetchTasks, At
    <3>3. IdOK(m)
      BY <1>a, <1>4, <2>2, <2>1 DEF FetchTasks, IdOK, OthersTyped, At, Executing
    <3> HIDE DEF m
    <3>4. QED
      BY <2>1, <3>1, <3>2, <3>3, TypeStep
  <2>3. CASE ~(l.sess = "ok")
    <3> DEFINE m == [l EXCEPT !.pc = "release"]
    <3>1. m \in Loop
      BY <1>a DEF Loop, Locals
    <3>2. Becomes(r, m)
      BY <1>4, <2>3 DEF FetchTasks, At
    <3>3. IdOK(m)
      BY <1>a, <1>4, <2>3, <2>1 DEF FetchTasks, IdOK, OthersTyped, At, Executing
    <3> HIDE DEF m
    <3>4. QED
      BY <2>1, <3>1, <3>2, <3>3, TypeStep
  <2>4. QED
    BY <2>2, <2>3
<1>5. CASE StartTask(r)
  <2>1. PICK t \in l.todo : 
          IF MatchRaises(t.cfg.schedule.cron, l.now) \/ l.sess # "ok"
            THEN /\ Becomes(r, [l EXCEPT !.pc = "release", !.todo = {}])
                 /\ UNCHANGED log
            ELSE /\ log' = Append(log, [page |-> t.page, status |-> "running",
                                        at |-> l.now, stamp |-> Never,
                                        by |-> r, writes |-> 0,
                                        cron |-> t.cfg.schedule.cron])
                 /\ Becomes(r, [l EXCEPT !.pc = "exec", !.todo = @ \ {t},
                              !.cur = t, !.id = Len(log) + 1,
                              !.pos = 1, !.pending = FALSE])
    BY <1>5 DEF StartTask
  <2>2. t \in Snapshot
    BY <1>a DEF Loop
  <2>3. CASE MatchRaises(t.cfg.schedule.cron, l.now) \/ l.sess # "ok"
    <3> DEFINE m == [l EXCEPT !.pc = "release", !.todo = {}]
    <3>1. m \in Loop /\ IdOK(m)
      BY <1>a DEF Loop, Locals, IdOK
    <3>2. OthersTyped /\ Becomes(r, m)
      BY <1>a, <1>5, <2>1, <2>3 DEF StartTask, OthersTyped, TypeOK
    <3> HIDE DEF m
    <3>3. QED
      BY <3>1, <3>2, TypeStep
  <2>4. CASE ~(MatchRaises(t.cfg.schedule.cron, l.now) \/ l.sess # "ok")
    <3> DEFINE n == Len(log) + 1
               m == [l EXCEPT !.pc = "exec", !.todo = @ \ {t},
                       !.cur = t, !.id = n,
                       !.pos = 1, !.pending = FALSE]
               row == [page |-> t.page, status |-> "running", at |-> l.now,
                       stamp |-> Never, by |-> r, writes |-> 0,
 cron |-> t.cfg.schedule.cron]
    <3>1. row \in LogRow
      <4>1. t.cfg.schedule.cron \in Crons \union {NoCron}
        BY <2>2 DEF Snapshot, Config, Schedule
      <4>2. QED
        BY <1>a, <2>2, <4>1 DEF Loop, LogRow, Snapshot, Never
    <3>2. log' = Append(log, row) /\ Becomes(r, m)
      BY <2>1, <2>4
    <3> HIDE DEF row
    <3>3. /\ log' \in Seq(LogRow) /\ DOMAIN log \subseteq DOMAIN log'
          /\ n \in Nat /\ n \in DOMAIN log'
      BY <1>a, <3>1, <3>2 DEF TypeOK
    <3> HIDE DEF n
    <3>4. m \in Loop
      BY <1>a, <2>2, <3>3, LoopStarts
    <3>6. IdOK(m)
      BY <1>a, <3>3 DEF Loop, IdOK
    <3>5. OthersTyped
      BY <1>a, <1>5, <3>3 DEF StartTask, OthersTyped, TypeOK
    <3> HIDE DEF m
    <3>7. QED
      BY <3>2, <3>4, <3>5, <3>6, TypeStep
  <2>5. QED
    BY <2>3, <2>4
<1>6. CASE FinishLoop(r)
  <2> DEFINE m == [l EXCEPT !.pc = "release", !.clean = TRUE]
  <2>1. m \in Loop
    BY <1>a DEF Loop, Locals
  <2>2. Becomes(r, m)
    BY <1>6 DEF FinishLoop, At
  <2>3. OthersTyped
    BY <1>a, <1>6 DEF FinishLoop, OthersTyped, TypeOK
  <2>4. IdOK(m)
    BY <1>a, <1>6 DEF FinishLoop, IdOK, OthersTyped, At, Executing
  <2> HIDE DEF m
  <2>5. QED
    BY <2>1, <2>2, <2>3, <2>4, TypeStep
<1>7. CASE RunBlock(r)
  <2> DEFINE m == [l EXCEPT !.pos = @ + 1]
  <2>1. m \in Loop
    BY <1>a DEF Loop
  <2>2. Becomes(r, m)
    BY <1>7 DEF RunBlock, At
  <2>3. OthersTyped
    BY <1>a, <1>7 DEF RunBlock, OthersTyped, TypeOK
  <2>4. IdOK(m)
    BY <1>a, <1>7 DEF RunBlock, IdOK, OthersTyped, At, Executing, InBlock
  <2> HIDE DEF m
  <2>5. QED
    BY <2>1, <2>2, <2>3, <2>4, TypeStep
<1>8. CASE InsertRows(r)
  <2> DEFINE m == [l EXCEPT !.pending = TRUE]
  <2>1. m \in Loop
    BY <1>a DEF Loop
  <2>2. Becomes(r, m)
    BY <1>8 DEF InsertRows, At
  <2>3. OthersTyped
    BY <1>a, <1>8 DEF InsertRows, OthersTyped, TypeOK
  <2>4. IdOK(m)
    BY <1>a, <1>8 DEF InsertRows, IdOK, OthersTyped, At, Executing, InBlock
  <2> HIDE DEF m
  <2>5. QED
    BY <2>1, <2>2, <2>3, <2>4, TypeStep
<1>9. CASE CommitRows(r)
  <2> DEFINE m == [l EXCEPT !.pending = FALSE, !.pos = @ + 1]
  <2>r. log' \in Seq(LogRow) /\ DOMAIN log' = DOMAIN log
    <3>1. l.id \in DOMAIN log /\ log[l.id] \in LogRow
      BY <1>a, <1>9 DEF CommitRows, TypeOK, Executing, At, InBlock
    <3>2. [log[l.id] EXCEPT !.writes = @ + 1] \in LogRow
      BY <3>1, <1>s DEF LogRow
    <3>3. QED
      BY <1>a, <1>9, <3>1, <3>2, RowUpdate DEF CommitRows, TypeOK
  <2>1. m \in Loop
    BY <1>a, LoopCommits
  <2>2. Becomes(r, m)
    BY <1>9 DEF CommitRows, At
  <2>3. OthersTyped
    BY <1>a, <1>9, <2>r DEF CommitRows, OthersTyped, TypeOK
  <2>4. IdOK(m)
    BY <1>a, <1>9, <2>r DEF CommitRows, IdOK, OthersTyped, At, Executing, InBlock
  <2> HIDE DEF m
  <2>5. QED
    BY <2>1, <2>2, <2>3, <2>4, TypeStep
<1>10. CASE ExecuteReturns(r)
  <2>1. PICK b \in BOOLEAN : Becomes(r, [l EXCEPT !.pc = "record", !.good = b])
    BY <1>10 DEF ExecuteReturns, Results
  <2> DEFINE m == [l EXCEPT !.pc = "record", !.good = b]
  <2>2. m \in Loop
    BY <1>a, <2>1, LoopReturns
  <2>3. OthersTyped
    BY <1>a, <1>10 DEF ExecuteReturns, OthersTyped, TypeOK
  <2>4. IdOK(m)
    BY <1>a, <1>10 DEF ExecuteReturns, IdOK, At, Executing
  <2> HIDE DEF m
  <2>5. QED
    BY <2>1, <2>2, <2>3, <2>4, TypeStep DEF m
<1>11. CASE UpdateRun(r)
  <2> DEFINE m == [l EXCEPT !.pc = "logend", !.pending = FALSE,
                     !.good = IF At(r, "record") THEN @ ELSE FALSE]
  <2>r. log' \in Seq(LogRow) /\ DOMAIN log' = DOMAIN log
    <3>1. l.id \in DOMAIN log /\ log[l.id] \in LogRow
      BY <1>a, <1>11 DEF UpdateRun, TypeOK, Executing, At, InBlock
    <3>2. [log[l.id] EXCEPT !.stamp = clock] \in LogRow
      BY <3>1, <1>s DEF LogRow
    <3>3. QED
      BY <1>a, <1>11, <3>1, <3>2, RowUpdate DEF UpdateRun, TypeOK
  <2>c. config' \in [Pages -> Config]
    <3>1. l.cur.page \in Pages /\ l.cur.cfg.schedule \in Schedule
      BY <1>a DEF Loop, Snapshot, Config
    <3> DEFINE s == l.cur.cfg.schedule
    <3>5. /\ s.cron \in Crons \union {NoCron} /\ s.enabled \in BOOLEAN
          /\ clock \in Int /\ s.runCount + 1 \in Nat
      BY <3>1, <1>s DEF Schedule
    <3>2. RanSchedule(l.cur.cfg) \in Schedule
      BY <3>5 DEF RanSchedule, Schedule
    <3>3. MergeSchedule(config[l.cur.page], l.cur.cfg) \in Config
      <4>1. config[l.cur.page] \in Config
        BY <1>a, <3>1 DEF TypeOK
      <4>2. ASSUME NEW c \in Config, NEW t \in Schedule
            PROVE  [c EXCEPT !.schedule = t] \in Config
        BY DEF Config
      <4>3. QED
        BY <3>2, <4>1, <4>2 DEF MergeSchedule
    <3>4. QED
      BY <1>a, <1>11, <3>1, <3>3 DEF UpdateRun, TypeOK
  <2>1. m \in Loop
    BY <1>a DEF Loop, Locals
  <2>2. Becomes(r, m)
    BY <1>11 DEF UpdateRun, At
  <2>3. OthersTyped
    BY <1>a, <1>11, <2>r, <2>c DEF UpdateRun, OthersTyped, TypeOK
  <2>4. IdOK(m)
    BY <1>a, <1>11, <2>r, <2>c DEF UpdateRun, IdOK, OthersTyped, At, Executing
  <2> HIDE DEF m
  <2>5. QED
    BY <2>1, <2>2, <2>3, <2>4, TypeStep
<1>12. CASE UpdateRunFails(r)
  <2>1. OthersTyped
    BY <1>a, <1>12 DEF UpdateRunFails, OthersTyped, TypeOK
  <2>2. CASE At(r, "record")
    <3> DEFINE m == [l EXCEPT !.pc = "handler"]
    <3>1. m \in Loop
      BY <1>a DEF Loop, Locals
    <3>2. Becomes(r, m)
      BY <1>12, <2>2 DEF UpdateRunFails, At
    <3>3. IdOK(m)
      BY <1>a, <1>12, <2>2, <2>1 DEF UpdateRunFails, IdOK, OthersTyped, At, Executing
    <3> HIDE DEF m
    <3>4. QED
      BY <2>1, <3>1, <3>2, <3>3, TypeStep
  <2>3. CASE ~(At(r, "record"))
    <3> DEFINE m == NextTask(l)
    <3>1. m \in Loop
      BY <1>a, DataTypes DEF NextTask, Loop, Locals
    <3>2. Becomes(r, m)
      BY <1>12, <2>3 DEF UpdateRunFails, At
    <3>3. IdOK(m)
      BY <1>a, <1>12, <2>3, <2>1 DEF UpdateRunFails, IdOK, OthersTyped, At, Executing, NextTask
    <3> HIDE DEF m
    <3>4. QED
      BY <2>1, <3>1, <3>2, <3>3, TypeStep
  <2>4. QED
    BY <2>2, <2>3
<1>13. CASE LogEnd(r)
  <2> DEFINE m == NextTask(l)
  <2>r. log' \in Seq(LogRow) /\ DOMAIN log' = DOMAIN log
    <3> DEFINE s == IF l.good THEN "success" ELSE "error"
    <3>1. l.id \in DOMAIN log /\ log[l.id] \in LogRow
      BY <1>a, <1>13 DEF LogEnd, TypeOK, Executing, At
    <3>2. s \in {"success", "error"}
      OBVIOUS
    <3> HIDE DEF s
    <3>3. [log[l.id] EXCEPT !.status = s] \in LogRow
      BY <3>1, <3>2 DEF LogRow
    <3>4. RowBecomes(l.id, [log[l.id] EXCEPT !.status = s]) \/ UNCHANGED log
      BY <1>13 DEF LogEnd, s
    <3>5. QED
      BY <1>a, <3>1, <3>3, <3>4, RowUpdate DEF TypeOK
  <2>1. m \in Loop
    BY <1>a, DataTypes DEF NextTask, Loop, Locals
  <2>2. Becomes(r, m)
    BY <1>13 DEF LogEnd, At
  <2>3. OthersTyped
    BY <1>a, <1>13, <2>r DEF LogEnd, OthersTyped, TypeOK
  <2>4. IdOK(m)
    BY <1>a, <1>13, <2>r DEF LogEnd, IdOK, OthersTyped, At, Executing, NextTask
  <2> HIDE DEF m
  <2>5. QED
    BY <2>1, <2>2, <2>3, <2>4, TypeStep
<1>14. CASE Release(r)
  <2> DEFINE m == Asleep(Sleeping(clock), IF l.clean THEN "none" ELSE l.sess)
  <2>1. m \in Loop
    BY <1>a, <1>s, DataTypes DEF Loop
  <2>2. Becomes(r, m)
    BY <1>14 DEF Release, At
  <2>3. OthersTyped
    BY <1>a, <1>14 DEF Release, OthersTyped, TypeOK
  <2>4. IdOK(m)
    BY <1>a, <1>14 DEF Release, IdOK, OthersTyped, At, Executing, Asleep
  <2> HIDE DEF m
  <2>5. QED
    BY <2>1, <2>2, <2>3, <2>4, TypeStep
<1>15. QED
  BY <1>1, <1>2, <1>3, <1>4, <1>5, <1>6, <1>7, <1>8,
     <1>9, <1>10, <1>11, <1>12, <1>13, <1>14 DEF LoopStep

LEMMA TypeFault ==
  ASSUME TypeInv, NEW r \in Replicas, FaultStep(r)
  PROVE  TypeInv'
<1> DEFINE l == rep[r]
<1>a. l \in Loop /\ TypeOK /\ (Executing(r) => l.id \in DOMAIN log)
  BY DEF TypeInv, TypeOK, RunLogged
<1>s. clock \in Nat /\ Sleeping(clock) \in Nat /\ faults + 1 \in Nat
  BY <1>a, TimeAssumption DEF TypeOK, Sleeping
<1>1. CASE ConnectFails(r)
  <2> DEFINE m == [l EXCEPT !.wake = Sleeping(clock)]
  <2>1. m \in Loop
    BY <1>a, <1>s DEF Loop
  <2>2. Becomes(r, m)
    BY <1>1 DEF ConnectFails
  <2>3. OthersTyped
    BY <1>a, <1>s, <1>1 DEF ConnectFails, Fault, OthersTyped, TypeOK
  <2>4. IdOK(m)
    BY <1>a, <1>1 DEF ConnectFails, IdOK, At
  <2> HIDE DEF m
  <2>5. QED
    BY <2>1, <2>2, <2>3, <2>4, TypeStep
<1>2. CASE BlockRaises(r)
  <2> DEFINE m == [l EXCEPT !.pc = "handler"]
  <2>1. m \in Loop
    BY <1>a DEF Loop, Locals
  <2>2. Becomes(r, m)
    BY <1>2 DEF BlockRaises
  <2>3. OthersTyped
    BY <1>a, <1>s, <1>2 DEF BlockRaises, Fault, OthersTyped, TypeOK
  <2>4. IdOK(m)
    BY <1>a, <1>2 DEF BlockRaises, IdOK, InBlock, At, Executing
  <2> HIDE DEF m
  <2>5. QED
    BY <2>1, <2>2, <2>3, <2>4, TypeStep
<1>3. CASE StatementFails(r)
  <2>1. OthersTyped
    BY <1>a, <1>s, <1>3 DEF StatementFails, Fault, OthersTyped, TypeOK
  <2>2. At(r, "exec") /\ l.id \in DOMAIN log'
    BY <1>a, <1>3 DEF StatementFails, InBlock, At, Executing
  <2>3. CASE Becomes(r, [l EXCEPT !.pc = "handler", !.sess = "aborted",
                                  !.pending = FALSE])
    <3> DEFINE m == [l EXCEPT !.pc = "handler", !.sess = "aborted",
                              !.pending = FALSE]
    <3>1. m \in Loop
      BY <1>a DEF Loop, Locals
    <3>2. IdOK(m)
      BY <1>a, <2>2 DEF IdOK
    <3> HIDE DEF m
    <3>3. QED
      BY <2>1, <2>3, <3>1, <3>2, TypeStep DEF m
  <2>4. CASE Becomes(r, [l EXCEPT !.pc = "handler"])
    <3> DEFINE m == [l EXCEPT !.pc = "handler"]
    <3>1. m \in Loop
      BY <1>a DEF Loop, Locals
    <3>2. IdOK(m)
      BY <1>a, <2>2 DEF IdOK
    <3> HIDE DEF m
    <3>3. QED
      BY <2>1, <2>4, <3>1, <3>2, TypeStep DEF m
  <2>5. QED
    BY <1>3, <2>3, <2>4 DEF StatementFails
<1>4. CASE SessionDrop(r)
  <2> DEFINE m == [l EXCEPT !.sess = "dead", !.pending = FALSE]
  <2>1. m \in Loop
    BY <1>a DEF Loop
  <2>2. Becomes(r, m)
    BY <1>4 DEF SessionDrop
  <2>3. OthersTyped
    BY <1>a, <1>s, <1>4 DEF SessionDrop, Fault, OthersTyped, TypeOK
  <2>4. IdOK(m)
    BY <1>a, <1>4 DEF SessionDrop, IdOK, Executing
  <2> HIDE DEF m
  <2>5. QED
    BY <2>1, <2>2, <2>3, <2>4, TypeStep
<1>5. CASE Crash(r)
  <2> DEFINE m == Asleep(clock, "none")
  <2>1. m \in Loop
    BY <1>s, DataTypes
  <2>2. Becomes(r, m)
    BY <1>5 DEF Crash
  <2>3. OthersTyped
    BY <1>a, <1>s, <1>5 DEF Crash, Fault, OthersTyped, TypeOK
  <2>4. IdOK(m)
    BY DEF IdOK, Asleep
  <2> HIDE DEF m
  <2>5. QED
    BY <2>1, <2>2, <2>3, <2>4, TypeStep
<1>6. QED
  BY <1>1, <1>2, <1>3, <1>4, <1>5 DEF FaultStep

(* A config the web tier writes back. *)
LEMMA TypeWrite ==
  ASSUME TypeInv, NEW u \in Users, NEW cfg \in Config, WriteConfig(u, cfg)
  PROVE  TypeInv'
<1>1. draft[u].page \in Pages
  BY DEF TypeInv, TypeOK
<1>2. config' \in [Pages -> Config] /\ want' \in [Pages -> Config]
  BY <1>1 DEF WriteConfig, TypeInv, TypeOK
<1>3. draft' \in [Users -> [open : BOOLEAN, page : Pages, cfg : Config]]
  BY DataTypes DEF WriteConfig, TypeInv, TypeOK
<1>4. QED
  BY <1>2, <1>3 DEF WriteConfig, TypeInv, TypeOK, RunLogged, Executing

LEMMA TypeWeb ==
  ASSUME TypeInv, NEW u \in Users, WebStep(u)
  PROVE  TypeInv'
<1> DEFINE d == draft[u].cfg
<1>1. d \in Config /\ edits + 1 \in Nat
  BY DEF TypeInv, TypeOK
<1>2. ASSUME NEW c \in Config, NEW s \in Schedule
      PROVE  [c EXCEPT !.schedule = s] \in Config
  BY DEF Config
<1>3. ASSUME NEW c \in Config, NEW b \in BOOLEAN
      PROVE  [c EXCEPT !.schedule.enabled = b] \in Config
  BY DEF Config, Schedule
<1>4. CASE ReadConfig(u)
  <2>1. PICK p \in Pages :
          draft' = [draft EXCEPT ![u] =
                      [open |-> TRUE, page |-> p, cfg |-> config[p]]]
    BY <1>4 DEF ReadConfig
  <2>2. draft' \in [Users -> [open : BOOLEAN, page : Pages, cfg : Config]]
    BY <2>1 DEF TypeInv, TypeOK
  <2>3. QED
    BY <1>4, <2>2 DEF ReadConfig, TypeInv, TypeOK, RunLogged, Executing
<1>5. CASE ToggleTask(u)
  <2>1. PICK b \in BOOLEAN :
          WriteConfig(u, [d EXCEPT !.schedule.enabled = b])
    BY <1>5 DEF ToggleTask
  <2>2. QED
    BY <1>1, <1>3, <2>1, TypeWrite
<1>6. CASE RemoveSchedule(u)
  <2>1. [d EXCEPT !.schedule = NoSchedule] \in Config
    BY <1>1, <1>2, DataTypes
  <2>2. QED
    BY <1>6, <2>1, TypeWrite DEF RemoveSchedule
<1>7. CASE SaveSchedule(u)
  <2>1. PICK c \in Crons, b \in BOOLEAN :
          WriteConfig(u, [d EXCEPT !.schedule = FreshSchedule(c, b)])
    BY <1>7 DEF SaveSchedule
  <2>2. FreshSchedule(c, b) \in Schedule
    BY DataTypes
  <2>3. QED
    BY <1>1, <1>2, <2>1, <2>2, TypeWrite
<1>8. CASE SavePage(u)
  <2> DEFINE n == edits + 1
  <2>1. n \in Nat /\ WriteConfig(u, [d EXCEPT !.content = n])
    BY <1>1, <1>8 DEF SavePage
  <2> HIDE DEF n
  <2>2. [d EXCEPT !.content = n] \in Config
    BY <1>1, <2>1 DEF Config
  <2>3. QED
    BY <2>1, <2>2, TypeWrite
<1>9. QED
  BY <1>4, <1>5, <1>6, <1>7, <1>8 DEF WebStep

LEMMA TypeNext == TypeInv /\ [Next]_vars => TypeInv'
<1> SUFFICES ASSUME TypeInv, [Next]_vars PROVE TypeInv'
  OBVIOUS
<1>1. CASE \E r \in Replicas : LoopStep(r)
  BY <1>1, TypeLoop
<1>2. CASE \E r \in Replicas : FaultStep(r)
  BY <1>2, TypeFault
<1>3. CASE \E r \in Replicas : Reap(r)
  BY <1>3 DEF Reap, TypeInv, TypeOK, RunLogged, Executing
<1>4. CASE \E u \in Users : WebStep(u)
  BY <1>4, TypeWeb
<1>5. CASE Tick
  BY <1>5 DEF Tick, TypeInv, TypeOK, RunLogged, Executing
<1>6. CASE UNCHANGED vars
  BY <1>6 DEF vars, TypeInv, TypeOK, RunLogged, Executing
<1>7. QED
  BY <1>1, <1>2, <1>3, <1>4, <1>5, <1>6 DEF Next

(* Every state of the system is of its type: in particular the log_id a      *)
(* replica updates always names a row of task_logs.                          *)
THEOREM TypeCorrect == Spec => []TypeOK
<1>1. TypeInv => TypeOK
  BY DEF TypeInv
<1>2. QED
  BY <1>1, TypeInit, TypeNext, PTL DEF Spec

-----------------------------------------------------------------------------
(* Mutual exclusion.  What the lock guarantees is about sessions: at most    *)
(* one session holds it, and a replica in a poll whose session lives is the  *)
(* one whose current session does.                                           *)
LockInv ==
  /\ \A x, y \in held : x = y
  /\ \A r \in Replicas : InPoll(r) /\ Live(r) => <<r, "cur">> \in held

Polls(l) ==
  l.pc \notin {"sleep", "connected"} /\ l.sess \in {"ok", "aborted"}

(* A step that neither begins a live poll nor touches the lock table. *)
LEMMA LockKept ==
  ASSUME TypeOK, LockInv, NEW r \in Replicas, NEW m, Becomes(r, m),
         held' = held, Polls(m) => Polls(rep[r])
  PROVE  LockInv'
<1>1. \A s \in Replicas : rep'[s] = IF s = r THEN m ELSE rep[s]
  BY DEF TypeOK, Becomes
<1>2. ASSUME NEW s \in Replicas, InPoll(s)', Live(s)'
      PROVE  <<s, "cur">> \in held'
  BY <1>1, <1>2 DEF LockInv, InPoll, Live, Polls
<1>3. QED
  BY <1>2 DEF LockInv

(* A step after which r is in no live poll, and at most one session holds    *)
(* the lock: every other replica keeps what it held.                         *)
LEMMA LockLeft ==
  ASSUME TypeOK, LockInv, NEW r \in Replicas, NEW m, Becomes(r, m), ~Polls(m),
         \A x, y \in held' : x = y,
         \A s \in Replicas \ {r} : <<s, "cur">> \in held => <<s, "cur">> \in held'
  PROVE  LockInv'
<1>1. \A s \in Replicas : rep'[s] = IF s = r THEN m ELSE rep[s]
  BY DEF TypeOK, Becomes
<1>2. ASSUME NEW s \in Replicas, InPoll(s)', Live(s)'
      PROVE  <<s, "cur">> \in held'
  <2>1. s # r
    BY <1>1, <1>2 DEF InPoll, Live, Polls
  <2>2. InPoll(s) /\ Live(s)
    BY <1>1, <1>2, <2>1 DEF InPoll, Live
  <2>3. QED
    BY <2>1, <2>2 DEF LockInv
<1>3. QED
  BY <1>2 DEF LockInv

LEMMA LockStep == TypeOK /\ LockInv /\ [Next]_vars => LockInv'
<1> SUFFICES ASSUME TypeOK, LockInv, [Next]_vars PROVE LockInv'
  OBVIOUS
<1>1. ASSUME NEW r \in Replicas, LoopStep(r) \/ FaultStep(r) \/ Reap(r)
      PROVE  LockInv'
  <2> DEFINE l == rep[r]
  <2>l. l \in Loop
    BY DEF TypeOK
  <2>o. ASSUME held' = IF <<r, "cur">> \in held
                         THEN (held \ {<<r, "cur">>}) \union {<<r, "old">>}
                         ELSE held
        PROVE  /\ \A x, y \in held' : x = y
               /\ \A s \in Replicas \ {r} :
                    <<s, "cur">> \in held => <<s, "cur">> \in held'
    BY <2>o DEF LockInv
  <2>1. CASE Connect(r)
    <3> DEFINE m == [l EXCEPT !.pc = "connected", !.sess = "ok"]
    <3>1. Becomes(r, m) /\ ~Polls(m)
      BY <2>1, <2>l DEF Connect, Polls, Loop
    <3> HIDE DEF m
    <3>2. QED
      BY <2>1, <2>o, <3>1, LockLeft DEF Connect
  <2>2. CASE TryLock(r)
    <3>1. CASE LockGranted(r)
      <4>1. held = {} /\ held' = {<<r, "cur">>}
        BY <2>2, <3>1 DEF TryLock, LockGranted
      <4>2. \A s \in Replicas \ {r} : rep'[s] = rep[s]
        BY <2>2, <3>1 DEF TryLock, Becomes, TypeOK
      <4>3. QED
        BY <4>1, <4>2 DEF LockInv, InPoll, Live
    <3>2. CASE ~LockGranted(r)
      <4> DEFINE m == Asleep(Sleeping(clock), "none")
      <4>1. Becomes(r, m) /\ held' = held /\ ~Polls(m)
        BY <2>2, <3>2 DEF TryLock, Polls, Asleep
      <4> HIDE DEF m
      <4>2. QED
        BY <4>1, LockKept
    <3>3. QED
      BY <3>1, <3>2
  <2>3. CASE Release(r)
    <3> DEFINE m == Asleep(Sleeping(clock), IF l.clean THEN "none" ELSE l.sess)
    <3>1. Becomes(r, m) /\ ~Polls(m)
      BY <2>3 DEF Release, Polls, Asleep
    <3> HIDE DEF m
    <3>2. held' = held \/ held' = held \ {<<r, "cur">>}
      BY <2>3 DEF Release
    <3>3. QED
      BY <3>1, <3>2, LockLeft DEF LockInv
  <2>4. CASE SessionDrop(r)
    <3> DEFINE m == [l EXCEPT !.sess = "dead", !.pending = FALSE]
    <3>1. Becomes(r, m) /\ ~Polls(m) /\ held' = held \ {<<r, "cur">>}
      BY <2>4, <2>l DEF SessionDrop, Polls, Loop
    <3> HIDE DEF m
    <3>2. QED
      BY <3>1, LockLeft DEF LockInv
  <2>5. CASE Crash(r)
    <3> DEFINE m == Asleep(clock, "none")
    <3>1. Becomes(r, m) /\ ~Polls(m)
      BY <2>5 DEF Crash, Polls, Asleep
    <3> HIDE DEF m
    <3>2. QED
      BY <2>5, <2>o, <3>1, LockLeft DEF Crash
  <2>6. CASE Reap(r)
    BY <2>6 DEF Reap, LockInv, InPoll, Live
  <2>7. ASSUME NEW m, Becomes(r, m), held' = held, Polls(m) => Polls(l)
        PROVE  LockInv'
    BY <2>7, LockKept
  <2>8. CASE PollFails(r)
    BY <2>7, <2>8 DEF PollFails, Polls, Asleep
  <2>9. CASE FetchTasks(r)
    <3>1. PICK m : m \in {[l EXCEPT !.pc = "loop", !.todo =
                            {[page |-> p, cfg |-> config[p]] :
                               p \in {q \in Pages : Selected(q, l.now)}}],
                          [l EXCEPT !.pc = "release"]} /\ Becomes(r, m)
      BY <2>9 DEF FetchTasks
    <3>2. Polls(m) => Polls(l)
      BY <2>9, <2>l, <3>1 DEF FetchTasks, At, Polls, Loop
    <3>3. QED
      BY <2>7, <2>9, <3>1, <3>2 DEF FetchTasks
  <2>10. CASE StartTask(r)
    <3>1. PICK t, m :
            /\ t \in l.todo
            /\ m \in {[l EXCEPT !.pc = "release", !.todo = {}],
                      [l EXCEPT !.pc = "exec", !.todo = @ \ {t}, !.cur = t,
                               !.id = Len(log) + 1, !.pos = 1,
                               !.pending = FALSE]}
            /\ Becomes(r, m)
      BY <2>10 DEF StartTask
    <3>2. Polls(m) => Polls(l)
      BY <2>10, <2>l, <3>1 DEF StartTask, At, Polls, Loop
    <3>3. QED
      BY <2>7, <2>10, <3>1, <3>2 DEF StartTask
  <2>11. CASE FinishLoop(r)
    BY <2>l, <2>7, <2>11 DEF FinishLoop, At, Polls, Loop
  <2>12. CASE RunBlock(r)
    BY <2>l, <2>7, <2>12 DEF RunBlock, InBlock, At, Polls, Loop
  <2>13. CASE InsertRows(r)
    BY <2>l, <2>7, <2>13 DEF InsertRows, InBlock, At, Polls, Loop
  <2>14. CASE CommitRows(r)
    BY <2>l, <2>7, <2>14 DEF CommitRows, InBlock, At, Polls, Loop
  <2>15. CASE ExecuteReturns(r)
    <3>1. PICK b \in BOOLEAN :
            Becomes(r, [l EXCEPT !.pc = "record", !.good = b])
      BY <2>15 DEF ExecuteReturns, Results
    <3>2. QED
      BY <2>l, <2>7, <2>15, <3>1 DEF ExecuteReturns, At, Polls, Loop
  <2>16. CASE UpdateRun(r)
    <3>1. PICK b : Becomes(r, [l EXCEPT !.pc = "logend", !.pending = FALSE,
                                        !.good = b])
      BY <2>16 DEF UpdateRun
    <3>2. QED
      BY <2>l, <2>7, <2>16, <3>1 DEF UpdateRun, Polls, Loop
  <2>17. CASE UpdateRunFails(r)
    <3>1. PICK m \in {[l EXCEPT !.pc = "handler"], NextTask(l)} : Becomes(r, m)
      BY <2>17 DEF UpdateRunFails
    <3>2. Polls(m) => Polls(l)
      BY <2>17, <2>l, <3>1 DEF UpdateRunFails, NextTask, Polls, Loop
    <3>3. QED
      BY <2>7, <2>17, <3>1, <3>2 DEF UpdateRunFails
  <2>18. CASE LogEnd(r)
    BY <2>l, <2>7, <2>18 DEF LogEnd, At, NextTask, Polls, Loop
  <2>19. CASE ConnectFails(r)
    BY <2>l, <2>7, <2>19 DEF ConnectFails, Polls, Loop
  <2>20. CASE BlockRaises(r)
    BY <2>l, <2>7, <2>20 DEF BlockRaises, InBlock, At, Polls, Loop
  <2>21. CASE StatementFails(r)
    <3>1. PICK m \in {[l EXCEPT !.pc = "handler", !.sess = "aborted",
                               !.pending = FALSE],
                      [l EXCEPT !.pc = "handler"]} :
            Becomes(r, m) /\ (l.sess = "ok" \/ m.sess = l.sess)
      BY <2>21, <2>l DEF StatementFails, Loop
    <3>2. Polls(m) => Polls(l)
      BY <2>21, <2>l, <3>1 DEF StatementFails, InBlock, At, Polls, Loop
    <3>3. QED
      BY <2>7, <2>21, <3>1, <3>2 DEF StatementFails
  <2>22. QED
    BY <1>1, <2>1, <2>2, <2>3, <2>4, <2>5, <2>6, <2>8, <2>9, <2>10, <2>11,
       <2>12, <2>13, <2>14, <2>15, <2>16, <2>17, <2>18, <2>19, <2>20, <2>21
       DEF LoopStep, FaultStep
<1>2. CASE (\E u \in Users : WebStep(u)) \/ Tick \/ UNCHANGED vars
  <2>1. UNCHANGED <<held, rep>>
    BY <1>2 DEF WebStep, ReadConfig, ToggleTask, RemoveSchedule, SaveSchedule,
                SavePage, WriteConfig, Tick, vars
  <2>2. QED
    BY <2>1 DEF LockInv, InPoll, Live
<1>3. QED
  BY <1>1, <1>2 DEF Next

(* At most one replica with a live session is between a granted              *)
(* try_advisory_lock and its release, for any number of replicas and however *)
(* often sessions are dropped, leaked by a failed poll, or reaped.           *)
THEOREM MutualExclusionHolds == Spec => []MutualExclusion
<1>1. Init => LockInv
  BY DEF Init, LockInv, InPoll, Asleep
<1>2. LockInv => MutualExclusion
  BY DEF LockInv, MutualExclusion
<1>3. QED
  BY <1>1, <1>2, TypeCorrect, LockStep, PTL DEF Spec

-----------------------------------------------------------------------------
(* The scheduler never changes what is not its own in a page's config, even  *)
(* though what it writes is computed from a snapshot: whatever the web tier  *)
(* and any number of replicas do, the content of a page is the one its last  *)
(* web write gave it.                                                        *)
THEOREM ContentKeptHolds == Spec => []ContentKept
<1>1. Init => ContentKept
  BY DEF Init, ContentKept
<1>2. TypeOK /\ ContentKept /\ [Next]_vars => ContentKept'
  <2> SUFFICES ASSUME TypeOK, ContentKept, [Next]_vars PROVE ContentKept'
    OBVIOUS
  <2>1. CASE UNCHANGED <<config, want>>
    BY <2>1 DEF ContentKept
  <2>2. ASSUME NEW u \in Users, NEW cfg, WriteConfig(u, cfg)
        PROVE  ContentKept'
    BY <2>2 DEF WriteConfig, ContentKept, TypeOK
  <2>3. ASSUME NEW r \in Replicas, UpdateRun(r) PROVE ContentKept'
    <3>1. \A p \in Pages : config'[p].content = config[p].content
      <4> DEFINE c == rep[r].cur
      <4>1. ASSUME NEW d \in Config, NEW s
            PROVE  [d EXCEPT !.schedule = s].content = d.content
        BY DEF Config
      <4>2. \A p \in Pages :
              config'[p] = IF p = c.page THEN MergeSchedule(config[p], c.cfg)
                           ELSE config[p]
        BY <2>3 DEF UpdateRun, TypeOK
      <4>3. \A p \in Pages : config[p] \in Config
        BY DEF TypeOK
      <4>4. \A p \in Pages :
              MergeSchedule(config[p], c.cfg).content = config[p].content
        BY <4>1, <4>3 DEF MergeSchedule
      <4>5. QED
        BY <4>2, <4>4
    <3>2. want' = want
      BY <2>3 DEF UpdateRun
    <3>3. QED
      BY <3>1, <3>2 DEF ContentKept
  <2>4. ASSUME NEW r \in Replicas, LoopStep(r) \/ FaultStep(r) \/ Reap(r)
        PROVE  UpdateRun(r) \/ UNCHANGED <<config, want>>
    BY <2>4 DEF LoopStep, Connect, TryLock, PollFails, FetchTasks, StartTask,
                FinishLoop, RunBlock, InsertRows, CommitRows, ExecuteReturns,
                UpdateRunFails, LogEnd, Release, FaultStep, ConnectFails,
                BlockRaises, StatementFails, SessionDrop, Crash, Reap
  <2>5. ASSUME NEW u \in Users, WebStep(u)
        PROVE  (\E cfg : WriteConfig(u, cfg)) \/ UNCHANGED <<config, want>>
    BY <2>5 DEF WebStep, ReadConfig, ToggleTask, RemoveSchedule, SaveSchedule,
                SavePage
  <2>6. QED
    BY <2>1, <2>2, <2>3, <2>4, <2>5 DEF Next, Tick, vars
<1>3. QED
  BY <1>1, <1>2, TypeCorrect, PTL DEF Spec

-----------------------------------------------------------------------------
(* Runs, while nobody edits pages.  LoopFresh: a poll with a live session    *)
(* works from the schedules that are stored, and is at the newest row of     *)
(* task_logs.  LoopRow: a loop at a run, with or without a session, names a  *)
(* row of its own, which is unstamped until it is stamped.                   *)
LoopFresh(l) ==
  /\ \A t \in l.todo :
       /\ t.cfg.schedule = config[t.page].schedule
       /\ MatchRaises(t.cfg.schedule.cron, l.now) \/ Due(t.cfg.schedule, l.now)
       /\ \A u \in l.todo : t.page = u.page => t = u
  /\ l.pc \in {"exec", "record", "handler"} =>
       /\ l.cur.cfg.schedule = config[l.cur.page].schedule
       /\ \A t \in l.todo : t.page # l.cur.page
  /\ l.pc \in {"exec", "record", "handler", "logend"} => l.id = Len(log)

LoopRow(r, l) ==
  l.pc \in {"exec", "record", "handler", "logend"} =>
    /\ l.id \in DOMAIN log
    /\ log[l.id].page = l.cur.page /\ log[l.id].by = r
    /\ (log[l.id].stamp = Never) <=> l.pc # "logend"

LoopRuns(r, l) ==
  /\ l.pc \in {"sleep", "connected", "fetch"} => l.todo = {}
  /\ LoopRow(r, l)
  /\ Polls(l) => LoopFresh(l)

(* The rows: a run with a result is stamped, a stamp is no later than the    *)
(* last_run of its page, and run_count is the number of stamps.              *)
Stamped(p) == {i \in LogsOf(p) : log[i].stamp # Never}
RowsRun ==
  /\ \A i \in DOMAIN log :
       /\ log[i].status # "running" => log[i].stamp # Never
       /\ log[i].stamp # Never => log[i].stamp \in Nat
       /\ log[i].stamp <= config[log[i].page].schedule.lastRun
  /\ \A p \in Pages :
       /\ config[p].schedule.runCount = Cardinality(Stamped(p))
       /\ config[p].schedule.lastRun \in Int /\ Never <= config[p].schedule.lastRun
       /\ config[p].schedule.lastRun <= clock

RunInv == RowsRun /\ SpacedRuns /\ \A r \in Replicas : LoopRuns(r, rep[r])

LEMMA TypeInvariant == Spec => []TypeInv
BY TypeInit, TypeNext, PTL DEF Spec

LEMMA LockInvariant == Spec => []LockInv
<1>1. Init => LockInv
  BY DEF Init, LockInv, InPoll, Asleep
<1>2. QED
  BY <1>1, TypeCorrect, LockStep, PTL DEF Spec

(* A step that adds no row and moves no page, poll time, stamp or owner of   *)
(* one; a row it gives a result to is stamped.                               *)
RowsKept ==
  /\ DOMAIN log' = DOMAIN log /\ Len(log') = Len(log)
  /\ \A i \in DOMAIN log :
       /\ log'[i].page = log[i].page /\ log'[i].at = log[i].at
       /\ log'[i].stamp = log[i].stamp /\ log'[i].by = log[i].by
       /\ log'[i].status # "running" =>
            log[i].status # "running" \/ log[i].stamp # Never

LEMMA RowsStay ==
  ASSUME TypeInv, RowsRun, SpacedRuns, RowsKept, UNCHANGED config,
         clock' \in Nat, clock <= clock'
  PROVE  RowsRun' /\ SpacedRuns'
<1>1. \A p \in Pages : Stamped(p)' = Stamped(p)
  BY DEF Stamped, LogsOf, RowsKept
<1>2. RowsRun'
  <2>1. ASSUME NEW i \in DOMAIN log'
        PROVE  /\ log'[i].status # "running" => log'[i].stamp # Never
               /\ log'[i].stamp # Never => log'[i].stamp \in Nat
               /\ log'[i].stamp <= config'[log'[i].page].schedule.lastRun
    BY DEF RowsRun, RowsKept
  <2>2. ASSUME NEW p \in Pages
        PROVE  /\ config'[p].schedule.runCount = Cardinality(Stamped(p)')
               /\ config'[p].schedule.lastRun \in Int
               /\ Never <= config'[p].schedule.lastRun
               /\ config'[p].schedule.lastRun <= clock'
    BY <1>1 DEF RowsRun, TypeInv, TypeOK
  <2>3. QED
    BY <2>1, <2>2 DEF RowsRun
<1>3. SpacedRuns'
  BY DEF SpacedRuns, RowsKept
<1>4. QED
  BY <1>2, <1>3

(* A step of one loop that leaves rows and configs as they are.              *)
LEMMA RunQuiet ==
  ASSUME TypeInv, RunInv, NEW r \in Replicas, NEW m, Becomes(r, m),
         RowsKept, UNCHANGED <<config, clock>>, LoopRuns(r, m)
  PROVE  RunInv'
<1>1. \A s \in Replicas : rep'[s] = IF s = r THEN m ELSE rep[s]
  BY DEF TypeInv, TypeOK, Becomes
<1>2. ASSUME NEW s \in Replicas PROVE LoopRuns(s, rep[s])'
  <2> DEFINE l == IF s = r THEN m ELSE rep[s]
  <2>1. LoopRuns(s, l)
    BY DEF RunInv
  <2>2. rep'[s] = l
    BY <1>1
  <2> HIDE DEF l
  <2>3. QED
    BY <2>1, <2>2 DEF LoopRuns, LoopRow, LoopFresh, RowsKept, Due, Polls
<1>3. QED
  BY <1>2, RowsStay DEF RunInv, TypeInv, TypeOK

LEMMA LogSame ==
  ASSUME UNCHANGED log PROVE RowsKept
BY DEF RowsKept

(* A row of a loop's own is updated in what the runs do not depend on.       *)
LEMMA RowTouched ==
  ASSUME TypeInv, NEW i \in DOMAIN log, NEW row, RowBecomes(i, row),
         row.page = log[i].page, row.at = log[i].at,
         row.stamp = log[i].stamp, row.by = log[i].by,
         row.status # "running" => log[i].status # "running" \/ log[i].stamp # Never
  PROVE  RowsKept
BY DEF RowBecomes, RowsKept, TypeInv, TypeOK

(* The local state m continues l: the same run, or none, and what is still   *)
(* to do of the same poll, or nothing.                                       *)
Continues(l, m) ==
  /\ m.todo = {} \/ (m.todo = l.todo /\ m.now = l.now
                       /\ m.pc \notin {"sleep", "connected", "fetch"})
  /\ m.pc \in {"exec", "record", "handler", "logend"} =>
       /\ l.pc \in {"exec", "record", "handler", "logend"}
       /\ m.cur = l.cur /\ m.id = l.id
       /\ m.pc = "logend" <=> l.pc = "logend"
  /\ Polls(m) => Polls(l)

LEMMA LoopContinues ==
  ASSUME NEW r, NEW l, NEW m, LoopRuns(r, l), Continues(l, m)
  PROVE  LoopRuns(r, m)
<1>1. LoopRow(r, m)
  BY DEF LoopRuns, LoopRow, Continues
<1>2. ASSUME Polls(m) PROVE LoopFresh(m)
  BY <1>2 DEF LoopRuns, LoopFresh, Continues
<1>3. QED
  BY <1>1, <1>2 DEF LoopRuns, Continues

LEMMA RunFault ==
  ASSUME TypeInv, LockInv, RunInv, NEW r \in Replicas, FaultStep(r)
  PROVE  RunInv'
<1> DEFINE l == rep[r]
<1>a. l \in Loop /\ LoopRuns(r, l)
  BY DEF TypeInv, TypeOK, RunInv
<1>c. ASSUME NEW m, Becomes(r, m), UNCHANGED <<config, clock, log>>,
             Continues(l, m)
      PROVE  RunInv'
  BY <1>a, <1>c, LoopContinues, RunQuiet, LogSame
<1>1. CASE ConnectFails(r)
  <2> DEFINE m == [l EXCEPT !.wake = Sleeping(clock)]
  <2>1. Becomes(r, m) /\ UNCHANGED <<config, clock, log>>
    BY <1>1 DEF ConnectFails
  <2>2. Continues(l, m)
    BY <1>a, <1>1 DEF ConnectFails, At, Continues, LoopRuns, Polls, Loop
  <2>3. QED
    BY <1>c, <2>1, <2>2
<1>2. CASE BlockRaises(r)
  <2> DEFINE m == [l EXCEPT !.pc = "handler"]
  <2>1. Becomes(r, m) /\ UNCHANGED <<config, clock, log>>
    BY <1>2 DEF BlockRaises
  <2>2. Continues(l, m)
    BY <1>a, <1>2 DEF BlockRaises, InBlock, At, Continues, Polls, Loop
  <2>3. QED
    BY <1>c, <2>1, <2>2
<1>3. CASE StatementFails(r)
  <2>1. PICK m \in {[l EXCEPT !.pc = "handler", !.sess = "aborted",
                             !.pending = FALSE],
                    [l EXCEPT !.pc = "handler"]} :
          Becomes(r, m) /\ (l.sess = "ok" \/ m.sess = l.sess)
    BY <1>3, <1>a DEF StatementFails, Loop
  <2>2. UNCHANGED <<config, clock, log>> /\ l.pc = "exec"
    BY <1>3 DEF StatementFails, InBlock, At
  <2>3. Continues(l, m)
    BY <1>a, <2>1, <2>2 DEF Continues, Polls, Loop
  <2>4. QED
    BY <1>c, <2>1, <2>2, <2>3
<1>4. CASE SessionDrop(r)
  <2> DEFINE m == [l EXCEPT !.sess = "dead", !.pending = FALSE]
  <2>1. Becomes(r, m) /\ UNCHANGED <<config, clock, log>>
    BY <1>4 DEF SessionDrop
  <2>2. Continues(l, m)
    BY <1>a, <1>4 DEF SessionDrop, Continues, LoopRuns, Polls, Loop
  <2>3. QED
    BY <1>c, <2>1, <2>2
<1>5. CASE Crash(r)
  <2> DEFINE m == Asleep(clock, "none")
  <2>1. Becomes(r, m) /\ UNCHANGED <<config, clock, log>> /\ Continues(l, m)
    BY <1>5 DEF Crash, Continues, Asleep, Polls
  <2>2. QED
    BY <1>c, <2>1
<1>6. QED
  BY <1>1, <1>2, <1>3, <1>4, <1>5 DEF FaultStep

(* The steps of a loop that neither stamp nor begin a run.                   *)
LEMMA RunLoopQuiet ==
  ASSUME TypeInv, LockInv, RunInv, NEW r \in Replicas, LoopStep(r),
         ~StartTask(r), ~UpdateRun(r)
  PROVE  RunInv'
<1> DEFINE l == rep[r]
<1>a. l \in Loop /\ LoopRuns(r, l)
  BY DEF TypeInv, TypeOK, RunInv
<1>c. ASSUME NEW m, Becomes(r, m), UNCHANGED <<config, clock, log>>,
             Continues(l, m)
      PROVE  RunInv'
  BY <1>a, <1>c, LoopContinues, RunQuiet, LogSame
<1>1. CASE Connect(r)
  <2> DEFINE m == [l EXCEPT !.pc = "connected", !.sess = "ok"]
  <2>1. Becomes(r, m) /\ UNCHANGED <<config, clock, log>>
    BY <1>1 DEF Connect
  <2>2. Continues(l, m)
    BY <1>a, <1>1 DEF Connect, At, Continues, LoopRuns, Polls, Loop
  <2>3. QED
    BY <1>c, <2>1, <2>2
<1>2. CASE TryLock(r)
  <2>1. CASE LockGranted(r)
    <3> DEFINE m == [l EXCEPT !.pc = "fetch", !.now = clock]
    <3>1. Becomes(r, m) /\ UNCHANGED <<config, clock, log>>
      BY <1>2, <2>1 DEF TryLock
    <3>2. m.todo = {} /\ m.pc = "fetch"
      BY <1>a, <1>2 DEF TryLock, At, LoopRuns, Loop
    <3> HIDE DEF m
    <3>3. LoopRuns(r, m)
      BY <3>2 DEF LoopRuns, LoopRow, LoopFresh
    <3>4. QED
      BY <3>1, <3>3, RunQuiet, LogSame
  <2>2. CASE ~LockGranted(r)
    <3> DEFINE m == Asleep(Sleeping(clock), "none")
    <3>1. Becomes(r, m) /\ UNCHANGED <<config, clock, log>> /\ Continues(l, m)
      BY <1>2, <2>2 DEF TryLock, Continues, Asleep, Polls
    <3>2. QED
      BY <1>c, <3>1
  <2>3. QED
    BY <2>1, <2>2
<1>3. CASE PollFails(r)
  <2> DEFINE m == Asleep(Sleeping(clock), "dead")
  <2>1. Becomes(r, m) /\ UNCHANGED <<config, clock, log>> /\ Continues(l, m)
    BY <1>3 DEF PollFails, Continues, Asleep, Polls
  <2>2. QED
    BY <1>c, <2>1
<1>4. CASE FetchTasks(r)
  <2>1. CASE l.sess = "ok"
    <3> DEFINE S == {[page |-> p, cfg |-> config[p]] :
                       p \in {q \in Pages : Selected(q, l.now)}}
               m == [l EXCEPT !.pc = "loop", !.todo = S]
    <3>1. Becomes(r, m) /\ UNCHANGED <<config, clock, log>>
      BY <1>4, <2>1 DEF FetchTasks
    <3>2. m.todo = S /\ m.now = l.now /\ m.pc = "loop"
      BY <1>a DEF Loop
    <3>3. ASSUME NEW t \in S
          PROVE  /\ t.cfg.schedule = config[t.page].schedule
                 /\ MatchRaises(t.cfg.schedule.cron, l.now) \/ Due(t.cfg.schedule, l.now)
                 /\ \A u \in S : t.page = u.page => t = u
      BY DEF Selected
    <3> HIDE DEF S, m
    <3>4. LoopRuns(r, m)
      BY <3>2, <3>3 DEF LoopRuns, LoopRow, LoopFresh
    <3>5. QED
      BY <3>1, <3>4, RunQuiet, LogSame
  <2>2. CASE l.sess # "ok"
    <3> DEFINE m == [l EXCEPT !.pc = "release"]
    <3>1. Becomes(r, m) /\ UNCHANGED <<config, clock, log>>
      BY <1>4, <2>2 DEF FetchTasks
    <3>2. Continues(l, m)
      BY <1>a, <1>4 DEF FetchTasks, At, Continues, LoopRuns, Polls, Loop
    <3>3. QED
      BY <1>c, <3>1, <3>2
  <2>3. QED
    BY <2>1, <2>2
<1>5. CASE FinishLoop(r)
  <2> DEFINE m == [l EXCEPT !.pc = "release", !.clean = TRUE]
  <2>1. Becomes(r, m) /\ UNCHANGED <<config, clock, log>>
    BY <1>5 DEF FinishLoop
  <2>2. Continues(l, m)
    BY <1>a, <1>5 DEF FinishLoop, At, Continues, Polls, Loop
  <2>3. QED
    BY <1>c, <2>1, <2>2
<1>6. CASE RunBlock(r)
  <2> DEFINE m == [l EXCEPT !.pos = @ + 1]
  <2>1. Becomes(r, m) /\ UNCHANGED <<config, clock, log>>
    BY <1>6 DEF RunBlock
  <2>2. Continues(l, m)
    BY <1>a, <1>6 DEF RunBlock, InBlock, At, Continues, Polls, Loop
  <2>3. QED
    BY <1>c, <2>1, <2>2
<1>7. CASE InsertRows(r)
  <2> DEFINE m == [l EXCEPT !.pending = TRUE]
  <2>1. Becomes(r, m) /\ UNCHANGED <<config, clock, log>>
    BY <1>7 DEF InsertRows
  <2>2. Continues(l, m)
    BY <1>a, <1>7 DEF InsertRows, InBlock, At, Continues, Polls, Loop
  <2>3. QED
    BY <1>c, <2>1, <2>2
<1>8. CASE CommitRows(r)
  <2> DEFINE m == [l EXCEPT !.pending = FALSE, !.pos = @ + 1]
  <2>1. Becomes(r, m) /\ UNCHANGED <<config, clock>>
    BY <1>8 DEF CommitRows
  <2>2. Continues(l, m)
    BY <1>a, <1>8 DEF CommitRows, InBlock, At, Continues, Polls, Loop
  <2>3. l.id \in DOMAIN log /\ log[l.id] \in LogRow
    BY <1>8 DEF CommitRows, InBlock, At, TypeInv, RunLogged, Executing, TypeOK
  <2>4. RowsKept
    <3> DEFINE row == [log[l.id] EXCEPT !.writes = @ + 1]
    <3>1. /\ row.page = log[l.id].page /\ row.at = log[l.id].at
          /\ row.stamp = log[l.id].stamp /\ row.by = log[l.id].by
          /\ row.status = log[l.id].status
      BY <2>3 DEF LogRow
    <3>2. RowBecomes(l.id, row)
      BY <1>8 DEF CommitRows
    <3> HIDE DEF row
    <3>3. QED
      BY <2>3, <3>1, <3>2, RowTouched
  <2>5. QED
    BY <1>a, <2>1, <2>2, <2>4, LoopContinues, RunQuiet
<1>9. CASE ExecuteReturns(r)
  <2>1. PICK b \in BOOLEAN :
          Becomes(r, [l EXCEPT !.pc = "record", !.good = b])
    BY <1>9 DEF ExecuteReturns, Results
  <2>2. Continues(l, [l EXCEPT !.pc = "record", !.good = b])
    BY <1>a, <1>9 DEF ExecuteReturns, At, Continues, Polls, Loop
  <2>3. UNCHANGED <<config, clock, log>>
    BY <1>9 DEF ExecuteReturns
  <2>4. QED
    BY <1>c, <2>1, <2>2, <2>3
<1>10. CASE UpdateRunFails(r)
  <2>1. PICK m : \/ m = [l EXCEPT !.pc = "handler"] /\ Becomes(r, m)
                 \/ m = NextTask(l) /\ Becomes(r, m)
    BY <1>10 DEF UpdateRunFails
  <2>2. l.pc \in {"record", "handler"} /\ UNCHANGED <<config, clock, log>>
    BY <1>10 DEF UpdateRunFails
  <2>3. Continues(l, m)
    BY <1>a, <2>1, <2>2 DEF NextTask, Continues, Polls, Loop
  <2>4. QED
    BY <1>c, <2>1, <2>2, <2>3
<1>11. CASE LogEnd(r)
  <2> DEFINE m == NextTask(l)
  <2>1. Becomes(r, m) /\ UNCHANGED <<config, clock>> /\ l.pc = "logend"
    BY <1>11 DEF LogEnd, At
  <2>2. Continues(l, m)
    BY <1>a, <2>1 DEF NextTask, Continues, Polls, Loop
  <2>3. l.id \in DOMAIN log /\ log[l.id] \in LogRow /\ log[l.id].stamp # Never
    BY <1>a, <2>1 DEF LoopRuns, LoopRow, TypeInv, TypeOK
  <2>4. RowsKept
    <3> DEFINE s == IF l.good THEN "success" ELSE "error"
               row == [log[l.id] EXCEPT !.status = s]
    <3>1. /\ row.page = log[l.id].page /\ row.at = log[l.id].at
          /\ row.stamp = log[l.id].stamp /\ row.by = log[l.id].by
      BY <2>3 DEF LogRow
    <3>2. RowBecomes(l.id, row) \/ UNCHANGED log
      BY <1>11 DEF LogEnd
    <3> HIDE DEF row
    <3>3. QED
      BY <2>3, <3>1, <3>2, RowTouched, LogSame
  <2>5. QED
    BY <1>a, <2>1, <2>2, <2>4, LoopContinues, RunQuiet
<1>12. CASE Release(r)
  <2> DEFINE m == Asleep(Sleeping(clock), IF l.clean THEN "none" ELSE l.sess)
  <2>1. Becomes(r, m) /\ UNCHANGED <<config, clock, log>> /\ Continues(l, m)
    BY <1>12 DEF Release, Continues, Asleep, Polls
  <2>2. QED
    BY <1>c, <2>1
<1>13. QED
  BY <1>1, <1>2, <1>3, <1>4, <1>5, <1>6, <1>7, <1>8, <1>9, <1>10, <1>11, <1>12
     DEF LoopStep

(* The only replica in a live poll. *)
LEMMA AlonePolls ==
  ASSUME LockInv, NEW r \in Replicas, Polls(rep[r]),
         NEW s \in Replicas, s # r
  PROVE  ~Polls(rep[s])
BY DEF LockInv, InPoll, Live, Polls

LEMMA LogsFinite ==
  ASSUME TypeOK, NEW p, NEW S \in SUBSET LogsOf(p)
  PROVE  IsFiniteSet(S) /\ Cardinality(S) \in Nat
<1>1. Len(log) \in Nat /\ DOMAIN log = 1..Len(log)
  BY DEF TypeOK
<1>2. IsFiniteSet(1..Len(log)) /\ S \in SUBSET (1..Len(log))
  BY <1>1, FS_Interval DEF LogsOf
<1>3. IsFiniteSet(S)
  BY <1>2, FS_Subset
<1>4. QED
  BY <1>3, FS_CardinalityType

(* A run starts: the row is new and unstamped, and its poll is SkipWindow    *)
(* after every stamp of the page, since the schedule it goes by is stored.   *)
LEMMA RunStarts ==
  ASSUME TypeInv, LockInv, RunInv, NEW r \in Replicas, StartTask(r)
  PROVE  RunInv'
<1> DEFINE l == rep[r]
<1>a. l \in Loop /\ LoopRuns(r, l) /\ l.pc = "loop"
  BY DEF TypeInv, TypeOK, RunInv, StartTask, At
<1>t. log \in Seq(LogRow) /\ TypeOK
  BY DEF TypeInv, TypeOK
<1>1. PICK t \in l.todo :
        IF MatchRaises(t.cfg.schedule.cron, l.now) \/ l.sess # "ok"
          THEN /\ Becomes(r, [l EXCEPT !.pc = "release", !.todo = {}])
               /\ UNCHANGED log
          ELSE /\ log' = Append(log, [page |-> t.page, status |-> "running",
                                      at |-> l.now, stamp |-> Never,
                                      by |-> r, writes |-> 0,
                                      cron |-> t.cfg.schedule.cron])
               /\ Becomes(r, [l EXCEPT !.pc = "exec", !.todo = @ \ {t},
                            !.cur = t, !.id = Len(log) + 1,
                            !.pos = 1, !.pending = FALSE])
  BY DEF StartTask
<1>2. UNCHANGED <<config, clock>>
  BY DEF StartTask
<1>3. CASE MatchRaises(t.cfg.schedule.cron, l.now) \/ l.sess # "ok"
  <2> DEFINE m == [l EXCEPT !.pc = "release", !.todo = {}]
  <2>1. Becomes(r, m) /\ RowsKept
    BY <1>1, <1>3, LogSame
  <2>2. Continues(l, m)
    BY <1>a DEF Continues, Polls, Loop
  <2>3. QED
    BY <1>a, <1>2, <2>1, <2>2, LoopContinues, RunQuiet
<1>4. CASE ~(MatchRaises(t.cfg.schedule.cron, l.now) \/ l.sess # "ok")
  <2> DEFINE n == Len(log) + 1
             row == [page |-> t.page, status |-> "running", at |-> l.now,
                     stamp |-> Never, by |-> r, writes |-> 0,
 cron |-> t.cfg.schedule.cron]
             m == [l EXCEPT !.pc = "exec", !.todo = @ \ {t}, !.cur = t,
                     !.id = n, !.pos = 1, !.pending = FALSE]
  <2>1. log' = Append(log, row) /\ Becomes(r, m)
    BY <1>1, <1>4
  <2>2. /\ m.pc = "exec" /\ m.todo = l.todo \ {t} /\ m.cur = t /\ m.id = n
        /\ m.now = l.now
    BY <1>a DEF Loop
  <2>3. /\ row.page = t.page /\ row.status = "running" /\ row.at = l.now
        /\ row.stamp = Never /\ row.by = r
    OBVIOUS
  <2>4. Polls(l) /\ LoopFresh(l)
    BY <1>a, <1>4 DEF Polls, LoopRuns
  <2>5. t \in Snapshot /\ l.now \in Nat
    BY <1>a DEF Loop
  <2> HIDE DEF row
  <2>6. /\ DOMAIN log' = DOMAIN log \union {n} /\ n \notin DOMAIN log
        /\ \A i \in DOMAIN log : log'[i] = log[i] /\ i < n
        /\ log'[n] = row /\ Len(log') = n /\ n \in Nat
    BY <1>t, <2>1
  <2> HIDE DEF n, m
  <2>7. \A p \in Pages : Stamped(p)' = Stamped(p)
    BY <2>3, <2>6 DEF Stamped, LogsOf
  <2>8. RowsRun'
    <3>1. ASSUME NEW i \in DOMAIN log'
          PROVE  /\ log'[i].status # "running" => log'[i].stamp # Never
                 /\ log'[i].stamp # Never => log'[i].stamp \in Nat
                 /\ log'[i].stamp <= config'[log'[i].page].schedule.lastRun
      <4>1. CASE i = n
        BY <1>2, <2>3, <2>5, <2>6, <4>1 DEF RunInv, RowsRun, Snapshot
      <4>2. CASE i \in DOMAIN log
        BY <1>2, <2>6, <4>2 DEF RunInv, RowsRun
      <4>3. QED
        BY <2>6, <4>1, <4>2
    <3>2. QED
      BY <1>2, <2>7, <3>1 DEF RunInv, RowsRun
  <2>9. SpacedRuns'
    <3> SUFFICES ASSUME NEW i \in DOMAIN log', NEW j \in DOMAIN log',
                        i < j, log'[i].page = log'[j].page,
                        log'[i].stamp # Never
                 PROVE  log'[j].at - log'[i].stamp >= SkipWindow
      BY DEF SpacedRuns
    <3>1. i \in DOMAIN log /\ log'[i] = log[i] /\ log[i] \in LogRow
      BY <1>t, <2>3, <2>6
    <3>2. CASE j \in DOMAIN log
      BY <2>6, <3>1, <3>2 DEF RunInv, SpacedRuns
    <3>3. CASE j = n
      <4> DEFINE s == config[t.page].schedule
      <4>1. t.cfg.schedule = s /\ Due(s, l.now)
        BY <1>4, <2>4 DEF LoopFresh
      <4>2. /\ log[i].page = t.page /\ log[i].stamp <= s.lastRun
            /\ log[i].stamp \in Nat /\ s.lastRun \in Int
        BY <2>3, <2>5, <2>6, <3>1, <3>3 DEF RunInv, RowsRun, Snapshot
      <4>3. l.now - s.lastRun >= SkipWindow
        BY <4>1, <4>2 DEF Due, Never
      <4>4. QED
        BY <2>3, <2>5, <2>6, <3>1, <3>3, <4>2, <4>3, TimeAssumption
    <3>4. QED
      BY <2>6, <3>2, <3>3
  <2>10. ASSUME NEW s \in Replicas PROVE LoopRuns(s, rep[s])'
    <3>1. CASE s = r
      <4>1. rep'[s] = m
        BY <1>t, <2>1, <3>1 DEF Becomes, TypeOK
      <4>2. \A u \in m.todo : u \in l.todo /\ u.page # t.page
        BY <2>2, <2>4 DEF LoopFresh
      <4>3. t.cfg.schedule = config[t.page].schedule
        BY <2>4 DEF LoopFresh
      <4>4. LoopRow(s, rep[s])'
        BY <2>2, <2>3, <2>6, <3>1, <4>1 DEF LoopRow
      <4>5. LoopFresh(rep[s])'
        BY <1>2, <2>2, <2>4, <2>6, <4>1, <4>2, <4>3 DEF LoopFresh, Due
      <4>6. QED
        BY <2>2, <4>1, <4>4, <4>5 DEF LoopRuns
    <3>2. CASE s # r
      <4>1. rep'[s] = rep[s] /\ ~Polls(rep[s])
        BY <1>t, <2>1, <2>4, <3>2, AlonePolls DEF Becomes, TypeOK
      <4>2. LoopRuns(s, rep[s])
        BY DEF RunInv
      <4>3. QED
        BY <2>6, <4>1, <4>2 DEF LoopRuns, LoopRow, Polls
    <3>3. QED
      BY <3>1, <3>2
  <2>11. QED
    BY <2>8, <2>9, <2>10 DEF RunInv
<1>5. QED
  BY <1>3, <1>4

(* A run is stamped: the count of the page goes up with the stamps of its    *)
(* rows, and no later run of the page has begun.                             *)
LEMMA RunStamps ==
  ASSUME TypeInv, LockInv, RunInv, NEW r \in Replicas, UpdateRun(r)
  PROVE  RunInv'
<1> DEFINE l == rep[r]
<1>a. l \in Loop /\ LoopRuns(r, l) /\ l.pc \in {"record", "handler"}
  BY DEF TypeInv, TypeOK, RunInv, UpdateRun
<1>t. log \in Seq(LogRow) /\ TypeOK /\ clock \in Nat
  BY DEF TypeInv, TypeOK
<1>p. PICK i \in Nat, p \in Pages : i = l.id /\ p = l.cur.page
  BY <1>a DEF Loop, Snapshot
<1>1. Polls(l) /\ LoopFresh(l) /\ i = Len(log)
  BY <1>a, <1>p DEF UpdateRun, Polls, LoopRuns, LoopFresh
<1>2. /\ i \in DOMAIN log /\ log[i].page = p /\ log[i].by = r
      /\ log[i].stamp = Never /\ log[i] \in LogRow /\ p \in Pages
  BY <1>a, <1>p, <1>t DEF LoopRuns, LoopRow, Loop, Snapshot
<1>3. PICK b : Becomes(r, [l EXCEPT !.pc = "logend", !.pending = FALSE,
                                    !.good = b])
  BY DEF UpdateRun
<1> DEFINE m == [l EXCEPT !.pc = "logend", !.pending = FALSE, !.good = b]
<1>4. /\ m.pc = "logend" /\ m.todo = l.todo /\ m.now = l.now
      /\ m.cur = l.cur /\ m.id = i
  BY <1>a, <1>p DEF Loop
<1> HIDE DEF m
<1>5. /\ DOMAIN log' = DOMAIN log /\ Len(log') = Len(log)
      /\ \A j \in DOMAIN log :
           /\ log'[j].page = log[j].page /\ log'[j].at = log[j].at
           /\ log'[j].by = log[j].by /\ log'[j].status = log[j].status
           /\ j # i => log'[j].stamp = log[j].stamp
      /\ log'[i].stamp = clock
  <2> DEFINE row == [log[i] EXCEPT !.stamp = clock]
  <2>1. log' = [log EXCEPT ![i] = row]
    BY <1>p DEF UpdateRun, RowBecomes
  <2>2. /\ row.page = log[i].page /\ row.at = log[i].at /\ row.by = log[i].by
        /\ row.status = log[i].status /\ row.stamp = clock
    BY <1>2 DEF LogRow
  <2> HIDE DEF row
  <2>3. QED
    BY <1>2, <1>t, <2>1, <2>2
<1>6. /\ \A q \in Pages \ {p} : config'[q] = config[q]
      /\ config'[p].schedule.lastRun = clock
      /\ config'[p].schedule.runCount = config[p].schedule.runCount + 1
  <2>1. config' = [config EXCEPT ![p] = MergeSchedule(config[p], l.cur.cfg)]
    BY <1>p DEF UpdateRun
  <2>2. \A q \in Pages : config[q] \in Config
    BY <1>t DEF TypeOK
  <2>3. MergeSchedule(config[p], l.cur.cfg).schedule = RanSchedule(l.cur.cfg)
    BY <1>2, <2>2 DEF MergeSchedule, Config
  <2>4. l.cur.cfg.schedule = config[p].schedule
    BY <1>1, <1>a, <1>p DEF LoopFresh
  <2>5. config' \in [Pages -> {config'[q] : q \in Pages}] /\ config'[p].schedule = RanSchedule(l.cur.cfg)
    BY <1>2, <1>t, <2>1, <2>3 DEF TypeOK
  <2>6. QED
    BY <1>2, <1>t, <2>1, <2>4, <2>5 DEF RanSchedule, TypeOK
<1>7. UNCHANGED clock
  BY DEF UpdateRun
<1>8. Stamped(p)' = Stamped(p) \union {i} /\ i \notin Stamped(p)
  <2>1. clock # Never
    BY <1>t DEF Never
  <2>2. QED
    BY <1>2, <1>5, <2>1 DEF Stamped, LogsOf
<1>9. \A q \in Pages \ {p} : Stamped(q)' = Stamped(q)
  BY <1>2, <1>5 DEF Stamped, LogsOf
<1>10. Cardinality(Stamped(p)') = Cardinality(Stamped(p)) + 1
  <2>1. IsFiniteSet(Stamped(p))
    BY <1>t, LogsFinite DEF Stamped
  <2>2. QED
    BY <1>8, <2>1, FS_AddElement
<1>11. RowsRun'
  <2>1. ASSUME NEW j \in DOMAIN log'
        PROVE  /\ log'[j].status # "running" => log'[j].stamp # Never
               /\ log'[j].stamp # Never => log'[j].stamp \in Nat
               /\ log'[j].stamp <= config'[log'[j].page].schedule.lastRun
    <3>1. log[j] \in LogRow /\ j \in DOMAIN log /\ log[j].page \in Pages
      <4>1. j \in DOMAIN log
        BY <1>5
      <4>2. log[j] \in LogRow
        BY <1>t, <4>1
      <4>3. QED
        BY <4>1, <4>2 DEF LogRow
    <3>2. /\ log[j].status # "running" => log[j].stamp # Never
          /\ log[j].stamp # Never => log[j].stamp \in Nat
          /\ log[j].stamp <= config[log[j].page].schedule.lastRun
          /\ config[p].schedule.lastRun \in Int /\ log[j].stamp \in Int
          /\ config[p].schedule.lastRun <= clock
      BY <1>2, <3>1 DEF RunInv, RowsRun, LogRow
    <3>3. CASE j = i
      BY <1>2, <1>5, <1>6, <1>t, <3>1, <3>3 DEF Never
    <3>4. CASE j # i /\ log[j].page = p
      BY <1>5, <1>6, <1>t, <3>1, <3>2, <3>4
    <3>5. CASE j # i /\ log[j].page # p
      BY <1>5, <1>6, <3>1, <3>2, <3>5
    <3>6. QED
      BY <3>3, <3>4, <3>5
  <2>2. ASSUME NEW q \in Pages
        PROVE  /\ config'[q].schedule.runCount = Cardinality(Stamped(q)')
               /\ config'[q].schedule.lastRun \in Int
               /\ Never <= config'[q].schedule.lastRun
               /\ config'[q].schedule.lastRun <= clock'
    <3>1. CASE q = p
      BY <1>2, <1>6, <1>7, <1>10, <1>t, <3>1 DEF RunInv, RowsRun, Never
    <3>2. CASE q # p
      BY <1>6, <1>7, <1>9, <3>2 DEF RunInv, RowsRun
    <3>3. QED
      BY <3>1, <3>2
  <2>3. QED
    BY <2>1, <2>2 DEF RowsRun
<1>12. SpacedRuns'
  <2> SUFFICES ASSUME NEW j \in DOMAIN log', NEW k \in DOMAIN log',
                      j < k, log'[j].page = log'[k].page, log'[j].stamp # Never
               PROVE  log'[k].at - log'[j].stamp >= SkipWindow
    BY DEF SpacedRuns
  <2>1. j # i
    BY <1>1, <1>5, <1>t
  <2>2. QED
    BY <1>5, <2>1 DEF RunInv, SpacedRuns
<1>13. ASSUME NEW s \in Replicas PROVE LoopRuns(s, rep[s])'
  <2>1. CASE s = r
    <3>1. rep'[s] = m
      BY <1>3, <1>t, <2>1 DEF Becomes, TypeOK, m
    <3>2. LoopRow(s, rep[s])'
      BY <1>2, <1>4, <1>5, <1>p, <1>t, <2>1, <3>1 DEF LoopRow, Never
    <3>3. \A t \in l.todo : t.page \in Pages \ {p}
      BY <1>1, <1>a, <1>p DEF LoopFresh, Loop, Snapshot
    <3>4. LoopFresh(rep[s])'
      BY <1>1, <1>4, <1>5, <1>6, <3>1, <3>3 DEF LoopFresh, Due
    <3>5. QED
      BY <1>4, <3>1, <3>2, <3>4 DEF LoopRuns
  <2>2. CASE s # r
    <3>1. rep'[s] = rep[s] /\ ~Polls(rep[s])
      BY <1>1, <1>3, <1>t, <2>2, AlonePolls DEF Becomes, TypeOK
    <3>2. LoopRuns(s, rep[s])
      BY DEF RunInv
    <3>3. QED
      BY <1>2, <1>5, <2>2, <3>1, <3>2 DEF LoopRuns, LoopRow, Polls
  <2>3. QED
    BY <2>1, <2>2
<1>14. QED
  BY <1>11, <1>12, <1>13 DEF RunInv

LEMMA RunInit == Init => RunInv
<1> SUFFICES ASSUME Init PROVE RunInv
  OBVIOUS
<1>1. ASSUME NEW p \in Pages
      PROVE  /\ config[p].schedule.runCount = Cardinality(Stamped(p))
             /\ config[p].schedule.lastRun = Never
  <2>1. PICK c \in Crons : config[p] = [schedule |-> FreshSchedule(c, TRUE),
                                       content |-> 0]
    BY DEF Init
  <2>2. Stamped(p) = {}
    BY DEF Init, Stamped, LogsOf
  <2>3. QED
    BY <2>1, <2>2, FS_EmptySet DEF FreshSchedule
<1>2. RowsRun
  BY <1>1 DEF Init, RowsRun, Never
<1>3. \A r \in Replicas : LoopRuns(r, rep[r])
  BY DEF Init, LoopRuns, LoopRow, Asleep, Polls
<1>4. QED
  BY <1>2, <1>3 DEF Init, RunInv, SpacedRuns

LEMMA RunNext ==
  ASSUME MaxEdits = 0, TypeInv, LockInv, RunInv, [Next]_vars
  PROVE  RunInv'
<1>1. ASSUME NEW r \in Replicas, LoopStep(r) \/ FaultStep(r)
      PROVE  RunInv'
  BY <1>1, RunStarts, RunStamps, RunLoopQuiet, RunFault
<1>2. ASSUME UNCHANGED <<config, log, rep>>, clock' \in Nat, clock <= clock'
      PROVE  RunInv'
  <2>1. RowsKept
    BY <1>2, LogSame
  <2>2. RowsRun' /\ SpacedRuns'
    BY <1>2, <2>1, RowsStay DEF RunInv
  <2>3. \A r \in Replicas : LoopRuns(r, rep[r])'
    BY <1>2 DEF RunInv, LoopRuns, LoopRow, LoopFresh, Due, Polls
  <2>4. QED
    BY <2>2, <2>3 DEF RunInv
<1>3. clock \in Nat /\ edits \in Nat
  BY DEF TypeInv, TypeOK
<1>4. ASSUME NEW u \in Users, NEW cfg PROVE ~WriteConfig(u, cfg)
  BY <1>3 DEF WriteConfig
<1>5. ASSUME NEW u \in Users, WebStep(u)
      PROVE  UNCHANGED <<clock, config, log, rep>>
  BY <1>4, <1>5 DEF WebStep, ToggleTask, RemoveSchedule, SaveSchedule, SavePage,
                    ReadConfig
<1>6. CASE \E u \in Users : WebStep(u)
  BY <1>2, <1>3, <1>5, <1>6
<1>7. CASE \E r \in Replicas : Reap(r)
  BY <1>2, <1>3, <1>7 DEF Reap
<1>8. CASE Tick
  BY <1>2, <1>3, <1>8 DEF Tick
<1>9. CASE UNCHANGED vars
  BY <1>2, <1>3, <1>9 DEF vars
<1>10. QED
  BY <1>1, <1>6, <1>7, <1>8, <1>9 DEF Next

(* While nobody edits pages, for any number of replicas, pages and faults:   *)
(* a replica with a live session works from schedules that are stored,       *)
(* run_count counts the runs of its page, none lost between replicas, and    *)
(* runs of a page follow its last stamp at SkipWindow at least.              *)
THEOREM RunsCountedHolds ==
  ASSUME MaxEdits = 0
  PROVE  Spec => []RunsCounted
<1>1. TypeOK /\ RunInv => RunsCounted
  <2> SUFFICES ASSUME TypeOK, RunInv PROVE RunsCounted
    OBVIOUS
  <2>1. SnapshotFresh
    <3> SUFFICES ASSUME NEW r \in Replicas, InPoll(r), Live(r)
                 PROVE  LoopFresh(rep[r])
      BY DEF SnapshotFresh, LoopFresh
    <3>1. QED
      BY DEF RunInv, LoopRuns, InPoll, Live, Polls
  <2>2. RunCountExact
    <3> SUFFICES ASSUME NEW p \in Pages
                 PROVE  /\ Cardinality({i \in LogsOf(p) : log[i].status # "running"})
                             <= config[p].schedule.runCount
                        /\ config[p].schedule.runCount <= Cardinality(LogsOf(p))
      BY DEF RunCountExact
    <3> DEFINE Done == {i \in LogsOf(p) : log[i].status # "running"}
    <3>1. Done \subseteq Stamped(p) /\ Stamped(p) \subseteq LogsOf(p)
      BY DEF RunInv, RowsRun, Stamped, LogsOf
    <3>2. IsFiniteSet(Stamped(p)) /\ IsFiniteSet(LogsOf(p))
      BY <3>1, LogsFinite
    <3> HIDE DEF Done
    <3>3. /\ Cardinality(Done) <= Cardinality(Stamped(p))
          /\ Cardinality(Stamped(p)) <= Cardinality(LogsOf(p))
      BY <3>1, <3>2, FS_Subset
    <3>4. config[p].schedule.runCount = Cardinality(Stamped(p))
      BY DEF RunInv, RowsRun
    <3>5. QED
      BY <3>3, <3>4 DEF Done
  <2>3. QED
    BY <2>1, <2>2 DEF RunInv, RunsCounted
<1>2. TypeInv /\ LockInv /\ RunInv /\ [Next]_vars => RunInv'
  BY RunNext
<1>3. QED
  BY <1>1, <1>2, RunInit, TypeInvariant, TypeCorrect, LockInvariant, PTL DEF Spec

-----------------------------------------------------------------------------
(* What a run committed.  At block k of its flow it has committed the write  *)
(* blocks before k; a run about to be recorded as good, all of them.         *)
Before(p, k) == {j \in WriteBlocks(p) : j < k}

LoopWork(r, l) ==
  l.pc \in {"exec", "record", "handler", "logend"} =>
    /\ l.id \in DOMAIN log
    /\ log[l.id].page = l.cur.page /\ log[l.id].by = r
    /\ l.pc = "exec" =>
         /\ l.pos \in 1..(Len(Flow[l.cur.page]) + 1)
         /\ log[l.id].writes = Cardinality(Before(l.cur.page, l.pos))
         /\ l.pending => l.pos \in WriteBlocks(l.cur.page)
    /\ l.pc \in {"record", "logend"} /\ l.good =>
         log[l.id].writes = Cardinality(WriteBlocks(l.cur.page))

WorkInv == SuccessIsComplete /\ \A r \in Replicas : LoopWork(r, rep[r])

LEMMA BlocksBefore ==
  ASSUME NEW p \in Pages, NEW k \in Nat
  PROVE  /\ IsFiniteSet(WriteBlocks(p)) /\ Cardinality(WriteBlocks(p)) \in Nat
         /\ IsFiniteSet(Before(p, k)) /\ Cardinality(Before(p, k)) \in Nat
         /\ Cardinality(Before(p, k)) <= Cardinality(WriteBlocks(p))
<1>1. Len(Flow[p]) \in Nat /\ DOMAIN Flow[p] = 1..Len(Flow[p])
  BY DataAssumption
<1>2. IsFiniteSet(1..Len(Flow[p])) /\ WriteBlocks(p) \in SUBSET (1..Len(Flow[p]))
  BY <1>1, FS_Interval DEF WriteBlocks
<1>3. IsFiniteSet(WriteBlocks(p)) /\ Before(p, k) \in SUBSET WriteBlocks(p)
  BY <1>2, FS_Subset DEF Before
<1>4. QED
  BY <1>3, FS_Subset, FS_CardinalityType

(* One block further: one more when it is a write block.                     *)
LEMMA BlockDone ==
  ASSUME NEW p \in Pages, NEW k \in Nat
  PROVE  Cardinality(Before(p, k + 1)) =
           Cardinality(Before(p, k)) + (IF k \in WriteBlocks(p) THEN 1 ELSE 0)
<1>0. WriteBlocks(p) \subseteq Nat
  BY DataAssumption DEF WriteBlocks
<1>1. CASE k \in WriteBlocks(p)
  <2>1. Before(p, k + 1) = Before(p, k) \union {k} /\ k \notin Before(p, k)
    BY <1>0, <1>1 DEF Before
  <2>2. QED
    BY <1>1, <2>1, BlocksBefore, FS_AddElement
<1>2. CASE k \notin WriteBlocks(p)
  <2>1. Before(p, k + 1) = Before(p, k)
    BY <1>0, <1>2 DEF Before
  <2>2. QED
    BY <1>2, <2>1, BlocksBefore
<1>3. QED
  BY <1>1, <1>2

LEMMA FirstAndLast ==
  ASSUME NEW p \in Pages
  PROVE  /\ Cardinality(Before(p, 1)) = 0
         /\ Before(p, Len(Flow[p]) + 1) = WriteBlocks(p)
<1>1. WriteBlocks(p) \subseteq 1..Len(Flow[p]) /\ Len(Flow[p]) \in Nat
  BY DataAssumption DEF WriteBlocks
<1>2. Before(p, 1) = {}
  BY <1>1 DEF Before
<1>3. QED
  BY <1>1, <1>2, FS_EmptySet DEF Before

(* The rows keep what was committed, for whom, and their results.            *)
WorkKept ==
  /\ DOMAIN log' = DOMAIN log
  /\ \A i \in DOMAIN log :
       /\ log'[i].page = log[i].page /\ log'[i].by = log[i].by
       /\ log'[i].writes = log[i].writes
       /\ log'[i].status = log[i].status

LEMMA WorkQuiet ==
  ASSUME TypeInv, WorkInv, NEW r \in Replicas, NEW m, Becomes(r, m),
         WorkKept, LoopWork(r, m)
  PROVE  WorkInv'
<1>1. SuccessIsComplete'
  BY DEF WorkInv, WorkKept, SuccessIsComplete
<1>2. ASSUME NEW s \in Replicas PROVE LoopWork(s, rep[s])'
  <2> DEFINE l == IF s = r THEN m ELSE rep[s]
  <2>1. LoopWork(s, l) /\ rep'[s] = l
    BY DEF WorkInv, TypeInv, TypeOK, Becomes
  <2> HIDE DEF l
  <2>2. QED
    BY <2>1 DEF LoopWork, WorkKept
<1>3. QED
  BY <1>1, <1>2 DEF WorkInv

LEMMA WorkSame ==
  ASSUME UNCHANGED log PROVE WorkKept
BY DEF WorkKept

(* One row, of a loop at its run, gets writes and a result; the loop goes on *)
(* from there, or leaves the run.                                            *)
LEMMA WorkTouched ==
  ASSUME TypeInv, WorkInv, NEW r \in Replicas, NEW m, Becomes(r, m),
         NEW row \in LogRow, RowBecomes(rep[r].id, row),
         rep[r].pc \in {"exec", "record", "handler", "logend"},
         row.page = rep[r].cur.page, row.by = r,
         row.writes <= Cardinality(WriteBlocks(row.page)),
         row.status = "success" =>
           row.writes = Cardinality(WriteBlocks(row.page)),
         LoopWork(r, rep[r])'
  PROVE  WorkInv'
<1> DEFINE l == rep[r]
<1>0. PICK i : i = l.id
  OBVIOUS
<1>1. i \in DOMAIN log /\ log[i].by = r /\ log[i].page = l.cur.page
  BY <1>0 DEF WorkInv, LoopWork
<1>2. /\ DOMAIN log' = DOMAIN log /\ log'[i] = row
      /\ \A j \in DOMAIN log : j # i => log'[j] = log[j]
  BY <1>0, <1>1 DEF RowBecomes, TypeInv, TypeOK
<1>3. SuccessIsComplete'
  BY <1>1, <1>2 DEF WorkInv, SuccessIsComplete
<1>4. ASSUME NEW s \in Replicas PROVE LoopWork(s, rep[s])'
  <2>1. CASE s = r
    BY <2>1 DEF Becomes, TypeInv, TypeOK
  <2>2. CASE s # r
    <3>1. rep'[s] = rep[s]
      BY <2>2 DEF Becomes, TypeInv, TypeOK
    <3>2. LoopWork(s, rep[s])
      BY DEF WorkInv
    <3>3. QED
      BY <1>1, <1>2, <2>2, <3>1, <3>2 DEF LoopWork
  <2>3. QED
    BY <2>1, <2>2
<1>5. QED
  BY <1>3, <1>4 DEF WorkInv

(* The local state m goes on from l without committing or judging anything.  *)
Carries(l, m) ==
  /\ m.pc \in {"exec", "record", "handler", "logend"} =>
       /\ l.pc \in {"exec", "record", "handler", "logend"}
       /\ m.cur = l.cur /\ m.id = l.id
  /\ m.pc = "exec" => l.pc = "exec" /\ m.pos = l.pos /\ (m.pending => l.pending)
  /\ m.pc \in {"record", "logend"} /\ m.good =>
       l.pc \in {"record", "logend"} /\ l.good

LEMMA WorkCarries ==
  ASSUME NEW r, NEW l, NEW m, LoopWork(r, l), Carries(l, m)
  PROVE  LoopWork(r, m)
BY DEF LoopWork, Carries

LEMMA WorkFault ==
  ASSUME TypeInv, WorkInv, NEW r \in Replicas, FaultStep(r)
  PROVE  WorkInv'
<1> DEFINE l == rep[r]
<1>a. l \in Loop /\ LoopWork(r, l)
  BY DEF TypeInv, TypeOK, WorkInv
<1>c. ASSUME NEW m, Becomes(r, m), UNCHANGED log, Carries(l, m)
      PROVE  WorkInv'
  BY <1>a, <1>c, WorkCarries, WorkQuiet, WorkSame
<1>1. CASE ConnectFails(r)
  <2>1. Carries(l, [l EXCEPT !.wake = Sleeping(clock)])
    BY <1>a, <1>1 DEF ConnectFails, At, Carries, Loop
  <2>2. QED
    BY <1>c, <1>1, <2>1 DEF ConnectFails
<1>2. CASE BlockRaises(r)
  <2>1. Carries(l, [l EXCEPT !.pc = "handler"])
    BY <1>a, <1>2 DEF BlockRaises, InBlock, At, Carries, Loop
  <2>2. QED
    BY <1>c, <1>2, <2>1 DEF BlockRaises
<1>3. CASE StatementFails(r)
  <2>1. PICK m \in {[l EXCEPT !.pc = "handler", !.sess = "aborted",
                             !.pending = FALSE],
                    [l EXCEPT !.pc = "handler"]} : Becomes(r, m)
    BY <1>3 DEF StatementFails
  <2>2. UNCHANGED log /\ l.pc = "exec"
    BY <1>3 DEF StatementFails, InBlock, At
  <2>3. Carries(l, m)
    BY <1>a, <2>1, <2>2 DEF Carries, Loop
  <2>4. QED
    BY <1>c, <2>1, <2>2, <2>3
<1>4. CASE SessionDrop(r)
  <2>1. Carries(l, [l EXCEPT !.sess = "dead", !.pending = FALSE])
    BY <1>a DEF Carries, Loop
  <2>2. QED
    BY <1>c, <1>4, <2>1 DEF SessionDrop
<1>5. CASE Crash(r)
  <2>1. Carries(l, Asleep(clock, "none"))
    BY DEF Carries, Asleep
  <2>2. QED
    BY <1>c, <1>5, <2>1 DEF Crash
<1>6. QED
  BY <1>1, <1>2, <1>3, <1>4, <1>5 DEF FaultStep

(* The steps of a loop outside its runs.                                     *)
LEMMA WorkBetweenRuns ==
  ASSUME TypeInv, WorkInv, NEW r \in Replicas,
         \/ Connect(r) \/ TryLock(r) \/ PollFails(r) \/ FetchTasks(r)
         \/ FinishLoop(r) \/ Release(r)
  PROVE  WorkInv'
<1> DEFINE l == rep[r]
<1>a. l \in Loop /\ LoopWork(r, l)
  BY DEF TypeInv, TypeOK, WorkInv
<1>c. ASSUME NEW m, Becomes(r, m), UNCHANGED log,
             m.pc \notin {"exec", "record", "handler", "logend"}
      PROVE  WorkInv'
  <2>1. Carries(l, m)
    BY <1>c DEF Carries
  <2>2. QED
    BY <1>a, <1>c, <2>1, WorkCarries, WorkQuiet, WorkSame
<1>1. CASE Connect(r)
  <2>1. [l EXCEPT !.pc = "connected", !.sess = "ok"].pc = "connected"
    BY <1>a DEF Loop
  <2>2. QED
    BY <1>1, <1>c, <2>1 DEF Connect
<1>2. CASE TryLock(r)
  <2>1. [l EXCEPT !.pc = "fetch", !.now = clock].pc = "fetch"
    BY <1>a DEF Loop
  <2>2. CASE LockGranted(r)
    BY <1>2, <1>c, <2>1, <2>2 DEF TryLock
  <2>3. CASE ~LockGranted(r)
    BY <1>2, <1>c, <2>3 DEF TryLock, Asleep
  <2>4. QED
    BY <2>2, <2>3
<1>3. CASE PollFails(r)
  BY <1>3, <1>c DEF PollFails, Asleep
<1>4. CASE FetchTasks(r)
  <2>1. CASE l.sess = "ok"
    <3> DEFINE S == {[page |-> p, cfg |-> config[p]] :
                       p \in {q \in Pages : Selected(q, l.now)}}
               m == [l EXCEPT !.pc = "loop", !.todo = S]
    <3>1. Becomes(r, m) /\ UNCHANGED log
      BY <1>4, <2>1 DEF FetchTasks
    <3>2. m.pc = "loop"
      BY <1>a DEF Loop
    <3> HIDE DEF m
    <3>3. QED
      BY <1>c, <3>1, <3>2
  <2>2. CASE l.sess # "ok"
    <3>1. [l EXCEPT !.pc = "release"].pc = "release"
      BY <1>a DEF Loop
    <3>2. QED
      BY <1>4, <1>c, <2>2, <3>1 DEF FetchTasks
  <2>3. QED
    BY <2>1, <2>2
<1>5. CASE FinishLoop(r)
  <2>1. [l EXCEPT !.pc = "release", !.clean = TRUE].pc = "release"
    BY <1>a DEF Loop
  <2>2. QED
    BY <1>5, <1>c, <2>1 DEF FinishLoop
<1>6. CASE Release(r)
  BY <1>6, <1>c DEF Release, Asleep
<1>7. QED
  BY <1>1, <1>2, <1>3, <1>4, <1>5, <1>6

(* A run starts with nothing committed, at its first block.                  *)
LEMMA WorkStarts ==
  ASSUME TypeInv, WorkInv, NEW r \in Replicas, StartTask(r)
  PROVE  WorkInv'
<1> DEFINE l == rep[r]
<1>a. l \in Loop /\ LoopWork(r, l) /\ log \in Seq(LogRow) /\ TypeOK
  BY DEF TypeInv, TypeOK, WorkInv
<1>1. PICK t \in l.todo :
        IF MatchRaises(t.cfg.schedule.cron, l.now) \/ l.sess # "ok"
          THEN /\ Becomes(r, [l EXCEPT !.pc = "release", !.todo = {}])
               /\ UNCHANGED log
          ELSE /\ log' = Append(log, [page |-> t.page, status |-> "running",
                                      at |-> l.now, stamp |-> Never,
                                      by |-> r, writes |-> 0,
                                      cron |-> t.cfg.schedule.cron])
               /\ Becomes(r, [l EXCEPT !.pc = "exec", !.todo = @ \ {t},
                            !.cur = t, !.id = Len(log) + 1,
                            !.pos = 1, !.pending = FALSE])
  BY DEF StartTask
<1>2. CASE MatchRaises(t.cfg.schedule.cron, l.now) \/ l.sess # "ok"
  <2> DEFINE m == [l EXCEPT !.pc = "release", !.todo = {}]
  <2>1. Becomes(r, m) /\ UNCHANGED log
    BY <1>1, <1>2
  <2>2. Carries(l, m)
    BY <1>a DEF Carries, Loop
  <2> HIDE DEF m
  <2>3. QED
    BY <1>a, <2>1, <2>2, WorkCarries, WorkQuiet, WorkSame
<1>3. CASE ~(MatchRaises(t.cfg.schedule.cron, l.now) \/ l.sess # "ok")
  <2> DEFINE n == Len(log) + 1
             row == [page |-> t.page, status |-> "running", at |-> l.now,
                     stamp |-> Never, by |-> r, writes |-> 0,
 cron |-> t.cfg.schedule.cron]
             m == [l EXCEPT !.pc = "exec", !.todo = @ \ {t}, !.cur = t,
                     !.id = n, !.pos = 1, !.pending = FALSE]
  <2>1. log' = Append(log, row) /\ Becomes(r, m)
    BY <1>1, <1>3
  <2>2. m.pc = "exec" /\ m.cur = t /\ m.id = n /\ m.pos = 1 /\ m.pending = FALSE
    BY <1>a DEF Loop
  <2>3. row.page = t.page /\ row.status = "running" /\ row.by = r /\ row.writes = 0
    OBVIOUS
  <2> HIDE DEF row
  <2>4. /\ DOMAIN log' = DOMAIN log \union {n} /\ n \notin DOMAIN log
        /\ \A i \in DOMAIN log : log'[i] = log[i]
        /\ log'[n] = row
    BY <1>a, <2>1
  <2> HIDE DEF n, m
  <2>5. t.page \in Pages /\ Len(Flow[t.page]) \in Nat
    BY <1>a, DataAssumption DEF Loop, Snapshot
  <2>6. SuccessIsComplete'
    <3>1. Cardinality(WriteBlocks(t.page)) \in Nat
      BY <2>5, BlocksBefore
    <3>2. QED
      BY <2>3, <2>4, <3>1 DEF WorkInv, SuccessIsComplete
  <2>7. ASSUME NEW s \in Replicas PROVE LoopWork(s, rep[s])'
    <3>1. CASE s = r
      <4>1. rep'[s] = m
        BY <1>a, <2>1, <3>1 DEF Becomes, TypeOK
      <4>2. QED
        BY <2>2, <2>3, <2>4, <2>5, <3>1, <4>1, FirstAndLast DEF LoopWork
    <3>2. CASE s # r
      <4>1. rep'[s] = rep[s] /\ LoopWork(s, rep[s])
        BY <1>a, <2>1, <3>2 DEF Becomes, TypeOK, WorkInv
      <4>2. QED
        BY <2>4, <4>1 DEF LoopWork
    <3>3. QED
      BY <3>1, <3>2
  <2>8. QED
    BY <2>6, <2>7 DEF WorkInv
<1>4. QED
  BY <1>2, <1>3

(* The blocks of a run.                                                      *)
LEMMA WorkBlocks ==
  ASSUME TypeInv, WorkInv, NEW r \in Replicas,
         RunBlock(r) \/ InsertRows(r) \/ CommitRows(r) \/ ExecuteReturns(r)
  PROVE  WorkInv'
<1> DEFINE l == rep[r]
<1>a. l \in Loop /\ LoopWork(r, l) /\ l.pc = "exec"
  BY DEF TypeInv, TypeOK, WorkInv, RunBlock, InsertRows, CommitRows,
         ExecuteReturns, InBlock, At
<1>p. PICK p \in Pages, k \in Nat, i \in Nat :
        p = l.cur.page /\ k = l.pos /\ i = l.id
  BY <1>a DEF Loop, Snapshot
<1>1. /\ i \in DOMAIN log /\ log[i].page = p /\ log[i].by = r
      /\ k \in 1..(Len(Flow[p]) + 1)
      /\ log[i].writes = Cardinality(Before(p, k))
      /\ l.pending => k \in WriteBlocks(p)
  BY <1>a, <1>p DEF LoopWork
<1>2. Len(Flow[p]) \in Nat /\ DOMAIN Flow[p] = 1..Len(Flow[p])
  BY DataAssumption
<1>3. CASE RunBlock(r)
  <2> DEFINE m == [l EXCEPT !.pos = @ + 1]
  <2>1. /\ Becomes(r, m) /\ UNCHANGED log
        /\ k <= Len(Flow[p]) /\ Flow[p][k] # "write"
    BY <1>3, <1>p DEF RunBlock, InBlock, Block, Blocks
  <2>2. m.pc = "exec" /\ m.cur = l.cur /\ m.id = i /\ m.pos = k + 1
        /\ m.pending = l.pending
    BY <1>a, <1>p DEF Loop
  <2> HIDE DEF m
  <2>3. k \notin WriteBlocks(p)
    BY <2>1 DEF WriteBlocks
  <2>4. Cardinality(Before(p, k + 1)) = Cardinality(Before(p, k))
    BY <2>3, BlockDone, BlocksBefore
  <2>5. LoopWork(r, m)
    BY <1>1, <1>2, <1>p, <2>1, <2>2, <2>3, <2>4 DEF LoopWork
  <2>6. QED
    BY <2>1, <2>5, WorkQuiet, WorkSame
<1>4. CASE InsertRows(r)
  <2> DEFINE m == [l EXCEPT !.pending = TRUE]
  <2>1. /\ Becomes(r, m) /\ UNCHANGED log
        /\ k <= Len(Flow[p]) /\ Flow[p][k] = "write"
    BY <1>4, <1>p DEF InsertRows, InBlock, Block, Blocks
  <2>2. m.pc = "exec" /\ m.cur = l.cur /\ m.id = i /\ m.pos = k
    BY <1>a, <1>p DEF Loop
  <2> HIDE DEF m
  <2>3. LoopWork(r, m)
    BY <1>1, <1>2, <1>p, <2>1, <2>2 DEF LoopWork, WriteBlocks
  <2>4. QED
    BY <2>1, <2>3, WorkQuiet, WorkSame
<1>5. CASE CommitRows(r)
  <2> DEFINE m == [l EXCEPT !.pending = FALSE, !.pos = @ + 1]
             row == [log[i] EXCEPT !.writes = @ + 1]
  <2>1. /\ Becomes(r, m) /\ RowBecomes(l.id, row)
        /\ k <= Len(Flow[p]) /\ k \in WriteBlocks(p)
    BY <1>1, <1>5, <1>p DEF CommitRows, InBlock, Blocks
  <2>2. m.pc = "exec" /\ m.cur = l.cur /\ m.id = i /\ m.pos = k + 1
        /\ m.pending = FALSE
    BY <1>a, <1>p DEF Loop
  <2>3. log[i] \in LogRow
    BY <1>1 DEF TypeInv, TypeOK
  <2>4. /\ row \in LogRow /\ row.page = p /\ row.by = r
        /\ row.writes = log[i].writes + 1 /\ row.status = log[i].status
    BY <1>1, <2>3 DEF LogRow
  <2> HIDE DEF m, row
  <2>5. Cardinality(Before(p, k + 1)) = Cardinality(Before(p, k)) + 1
    BY <2>1, BlockDone, BlocksBefore
  <2>6. row.writes <= Cardinality(WriteBlocks(p))
    BY <1>1, <2>4, <2>5, BlocksBefore
  <2>7. DOMAIN log' = DOMAIN log /\ log'[i] = row
    BY <1>1, <1>p, <2>1 DEF RowBecomes, TypeInv, TypeOK
  <2>8. LoopWork(r, rep[r])'
    <3>1. rep'[r] = m
      BY <2>1 DEF Becomes, TypeInv, TypeOK
    <3>2. log'[i].writes = Cardinality(Before(p, k + 1)) /\ log'[i].page = p
      BY <1>1, <2>4, <2>5, <2>7
    <3>3. k + 1 \in 1..(Len(Flow[p]) + 1)
      BY <1>1, <1>2, <2>1
    <3>4. /\ rep'[r].pc = "exec" /\ rep'[r].cur.page = p /\ rep'[r].id = i
          /\ rep'[r].pos = k + 1 /\ rep'[r].pending = FALSE
      BY <1>p, <2>2, <3>1
    <3>5. QED
      BY <1>1, <2>4, <2>7, <3>2, <3>3, <3>4 DEF LoopWork
  <2>9. log[i].status = "success" => log[i].writes = Cardinality(WriteBlocks(p))
    BY <1>1 DEF WorkInv, SuccessIsComplete
  <2>10. log[i].status # "success"
    <3>1. log[i].writes \in Nat /\ Cardinality(WriteBlocks(p)) \in Nat
      BY <2>3, BlocksBefore DEF LogRow
    <3>2. log[i].writes + 1 <= Cardinality(WriteBlocks(p))
      BY <2>4, <2>6
    <3>3. log[i].writes # Cardinality(WriteBlocks(p))
      BY <3>1, <3>2
    <3>4. QED
      BY <2>9, <3>3
  <2>11. QED
    BY <1>a, <1>p, <2>1, <2>4, <2>6, <2>8, <2>10, WorkTouched
<1>6. CASE ExecuteReturns(r)
  <2>1. PICK b \in BOOLEAN :
          Becomes(r, [l EXCEPT !.pc = "record", !.good = b])
    BY <1>6 DEF ExecuteReturns, Results
  <2> DEFINE m == [l EXCEPT !.pc = "record", !.good = b]
  <2>2. m.pc = "record" /\ m.cur = l.cur /\ m.id = i
    BY <1>a, <1>p DEF Loop
  <2>3. k = Len(Flow[p]) + 1 /\ UNCHANGED log
    <3>1. k > Len(Flow[p]) /\ UNCHANGED log
      BY <1>6, <1>p DEF ExecuteReturns, Blocks
    <3>2. QED
      BY <1>1, <1>2, <3>1
  <2>4. Before(p, k) = WriteBlocks(p)
    BY <2>3, FirstAndLast
  <2>5. LoopWork(r, m)
    BY <1>1, <1>p, <2>2, <2>4 DEF LoopWork
  <2>6. QED
    BY <2>1, <2>3, <2>5, WorkQuiet, WorkSame DEF m
<1>7. QED
  BY <1>3, <1>4, <1>5, <1>6

(* The result of a run is recorded.                                          *)
LEMMA WorkRecorded ==
  ASSUME TypeInv, WorkInv, NEW r \in Replicas,
         UpdateRun(r) \/ UpdateRunFails(r) \/ LogEnd(r)
  PROVE  WorkInv'
<1> DEFINE l == rep[r]
<1>a. /\ l \in Loop /\ LoopWork(r, l)
      /\ l.pc \in {"record", "handler", "logend"}
  BY DEF TypeInv, TypeOK, WorkInv, UpdateRun, UpdateRunFails, LogEnd, At
<1>p. PICK p \in Pages, i \in Nat : p = l.cur.page /\ i = l.id
  BY <1>a DEF Loop, Snapshot
<1>1. /\ i \in DOMAIN log /\ log[i].page = p /\ log[i].by = r
      /\ log[i].writes <= Cardinality(WriteBlocks(p))
      /\ log[i] \in LogRow
      /\ l.pc \in {"record", "logend"} /\ l.good =>
           log[i].writes = Cardinality(WriteBlocks(p))
  <2>1. i \in DOMAIN log /\ log[i].page = p /\ log[i].by = r
        /\ (l.pc \in {"record", "logend"} /\ l.good =>
              log[i].writes = Cardinality(WriteBlocks(p)))
    BY <1>a, <1>p DEF LoopWork
  <2>2. QED
    BY <2>1 DEF WorkInv, SuccessIsComplete, TypeInv, TypeOK
<1>2. CASE UpdateRun(r)
  <2>0. PICK b : b = (IF At(r, "record") THEN l.good ELSE FALSE)
    OBVIOUS
  <2>1. /\ Becomes(r, [l EXCEPT !.pc = "logend", !.pending = FALSE, !.good = b])
        /\ b => l.pc = "record" /\ l.good
    <3>1. l.good \in BOOLEAN
      BY <1>a DEF Loop
    <3>2. QED
      BY <1>2, <1>a, <2>0, <3>1 DEF UpdateRun, At
  <2> DEFINE m == [l EXCEPT !.pc = "logend", !.pending = FALSE, !.good = b]
             row == [log[i] EXCEPT !.stamp = clock]
  <2>2. m.pc = "logend" /\ m.cur = l.cur /\ m.id = i /\ m.good = b
    BY <1>a, <1>p DEF Loop
  <2>3. RowBecomes(i, row)
    BY <1>2, <1>p DEF UpdateRun
  <2>4. /\ row.page = p /\ row.by = r /\ row.writes = log[i].writes
        /\ row.status = log[i].status
    BY <1>1 DEF LogRow
  <2> HIDE DEF m, row
  <2>5. LoopWork(r, m)
    BY <1>1, <1>p, <2>1, <2>2 DEF LoopWork
  <2>6. WorkKept
    BY <1>1, <2>3, <2>4 DEF RowBecomes, WorkKept, TypeInv, TypeOK
  <2>7. QED
    BY <2>1, <2>5, <2>6, WorkQuiet DEF m
<1>3. CASE UpdateRunFails(r)
  <2>1. PICK m : \/ m = [l EXCEPT !.pc = "handler"] /\ Becomes(r, m)
                 \/ m = NextTask(l) /\ Becomes(r, m)
    BY <1>3 DEF UpdateRunFails
  <2>2. Carries(l, m)
    BY <1>a, <2>1 DEF NextTask, Carries, Loop
  <2>3. UNCHANGED log
    BY <1>3 DEF UpdateRunFails
  <2>4. QED
    BY <1>a, <2>1, <2>2, <2>3, WorkCarries, WorkQuiet, WorkSame
<1>4. CASE LogEnd(r)
  <2> DEFINE m == NextTask(l)
             s == IF l.good THEN "success" ELSE "error"
             row == [log[i] EXCEPT !.status = s]
  <2>1. /\ Becomes(r, m) /\ l.pc = "logend"
        /\ RowBecomes(l.id, row) \/ UNCHANGED log
    BY <1>4, <1>p DEF LogEnd, At
  <2>2. m.pc = "loop"
    BY <1>a DEF NextTask, Loop
  <2>3. /\ row \in LogRow /\ row.page = p /\ row.by = r
        /\ row.writes = log[i].writes /\ row.status = s
    BY <1>1 DEF LogRow
  <2>4. row.status = "success" => row.writes = Cardinality(WriteBlocks(p))
    BY <1>1, <2>1, <2>3
  <2> HIDE DEF m, row
  <2>5. LoopWork(r, m)
    BY <2>2 DEF LoopWork
  <2>6. LoopWork(r, rep[r])'
    <3>1. rep'[r].pc = "loop"
      BY <2>1, <2>2 DEF Becomes, TypeInv, TypeOK
    <3>2. QED
      BY <3>1 DEF LoopWork
  <2>7. CASE RowBecomes(l.id, row)
    BY <1>a, <1>1, <1>p, <2>1, <2>3, <2>4, <2>6, <2>7, WorkTouched
  <2>8. CASE UNCHANGED log
    BY <2>1, <2>5, <2>8, WorkQuiet, WorkSame
  <2>9. QED
    BY <2>1, <2>7, <2>8
<1>5. QED
  BY <1>2, <1>3, <1>4

(* A run that task_logs calls a success committed every write block of its   *)
(* flow, once; no run committed more: with any replicas, faults and edits.   *)
THEOREM SuccessIsCompleteHolds == Spec => []SuccessIsComplete
<1>1. Init => WorkInv
  BY DEF Init, WorkInv, SuccessIsComplete, LoopWork, Asleep
<1>2. TypeInv /\ WorkInv /\ [Next]_vars => WorkInv'
  <2> SUFFICES ASSUME TypeInv, WorkInv, [Next]_vars PROVE WorkInv'
    OBVIOUS
  <2>1. ASSUME NEW r \in Replicas, LoopStep(r) PROVE WorkInv'
    BY <2>1, WorkBetweenRuns, WorkStarts, WorkBlocks, WorkRecorded DEF LoopStep
  <2>2. ASSUME NEW r \in Replicas, FaultStep(r) PROVE WorkInv'
    BY <2>2, WorkFault
  <2>3. ASSUME UNCHANGED <<log, rep>> PROVE WorkInv'
    BY <2>3 DEF WorkInv, SuccessIsComplete, LoopWork
  <2>4. ASSUME NEW r \in Replicas, Reap(r) PROVE WorkInv'
    BY <2>3, <2>4 DEF Reap
  <2>5. ASSUME NEW u \in Users, WebStep(u) PROVE WorkInv'
    BY <2>3, <2>5 DEF WebStep, ReadConfig, ToggleTask, RemoveSchedule,
                      SaveSchedule, SavePage, WriteConfig
  <2>6. QED
    BY <2>1, <2>2, <2>3, <2>4, <2>5 DEF Next, Tick, vars
<1>3. WorkInv => SuccessIsComplete
  BY DEF WorkInv
<1>4. QED
  BY <1>1, <1>2, <1>3, TypeInvariant, PTL DEF Spec

-----------------------------------------------------------------------------
(* One loop whose flows raise in Python only: its session is never broken    *)
(* within a poll, so every row it starts gets its result before the next     *)
(* unless the write-back cannot scan the expression, and the runs of one page are PollInterval apart, since the loop sleeps    *)
(* that long after each poll and takes a page at most once per poll.         *)
Alone(r) == Replicas = {r} /\ Faults \subseteq {"raise"}

Running == {"exec", "record", "handler", "logend"}
Working == Running \union {"loop", "release"}

(* The write-back of run i raised.                                           *)
Failed(i) == \E t \in log[i].at..clock : NextRunRaises(log[i].cron, t)

OneLoop(l) ==
  /\ l.pc # "sleep" => l.sess = "ok"
  /\ l.pc \in Running =>
       l.id \in DOMAIN log /\ log[l.id].cron = l.cur.cfg.schedule.cron
  /\ \A i \in DOMAIN log :
       /\ log[i].status = "running" => (l.pc \in Running /\ l.id = i) \/ Failed(i)
       /\ l.pc = "sleep" => log[i].at + PollInterval <= l.wake
       /\ l.pc = "connected" => log[i].at + PollInterval <= clock
       /\ l.pc = "fetch" => log[i].at + PollInterval <= l.now
       /\ l.pc \in Working =>
            /\ log[i].at = l.now \/ log[i].at + PollInterval <= l.now
            /\ \A t \in l.todo :
                 t.page = log[i].page => log[i].at + PollInterval <= l.now
  /\ l.pc \in Working => \A t, u \in l.todo : t.page = u.page => t = u
  /\ l.pc \in Working \union {"fetch"} => l.now <= clock

PollsApart ==
  \A i, j \in DOMAIN log :
    i < j /\ log[i].page = log[j].page =>
      log[i].at + PollInterval <= log[j].at

OneInv == PollsApart /\ \A r \in Replicas : OneLoop(rep[r])

(* What one loop's step may do to the rows besides giving a result.          *)
RowsStill ==
  /\ DOMAIN log' = DOMAIN log
  /\ \A i \in DOMAIN log :
       /\ log'[i].page = log[i].page /\ log'[i].at = log[i].at
       /\ log'[i].status = log[i].status /\ log'[i].cron = log[i].cron

LEMMA OneGoes ==
  ASSUME NEW r, Alone(r), TypeInv, OneInv, NEW m, Becomes(r, m),
         RowsStill, UNCHANGED clock, OneLoop(m)
  PROVE  OneInv'
<1>1. PollsApart'
  BY DEF OneInv, PollsApart, RowsStill
<1>2. ASSUME NEW s \in Replicas PROVE OneLoop(rep[s])'
  <2>1. rep'[s] = m
    BY DEF Alone, Becomes, TypeInv, TypeOK
  <2>2. \A i \in DOMAIN log : Failed(i) => Failed(i)'
    BY DEF Failed, RowsStill
  <2>3. QED
    BY <2>1, <2>2 DEF OneLoop, RowsStill
<1>3. QED
  BY <1>1, <1>2 DEF OneInv

LEMMA RowsAreStill ==
  ASSUME UNCHANGED log PROVE RowsStill
BY DEF RowsStill

LEMMA OneWithin ==
  ASSUME NEW l, NEW m, OneLoop(l), l.pc \in Working, m.pc \in Working,
         m.todo \subseteq l.todo, m.now = l.now, m.sess = l.sess,
         l.pc \in Running => m.pc \in Running /\ m.id = l.id /\ m.cur = l.cur,
         m.pc \in Running => l.pc \in Running
  PROVE  OneLoop(m)
BY DEF OneLoop, Working, Running

(* The blocks of a run.                                                      *)
LEMMA OneBlocks ==
  ASSUME NEW r, Alone(r), TypeInv, OneInv,
         RunBlock(r) \/ InsertRows(r) \/ CommitRows(r)
           \/ ExecuteReturns(r) \/ BlockRaises(r)
  PROVE  OneInv'
<1> DEFINE l == rep[r]
<1>0. r \in Replicas
  BY DEF Alone
<1>a. l \in Loop /\ OneLoop(l) /\ l.pc = "exec"
  BY <1>0 DEF TypeInv, TypeOK, OneInv, RunBlock, InsertRows, CommitRows,
              ExecuteReturns, BlockRaises, InBlock, At
<1>1. PICK m \in {[l EXCEPT !.pos = @ + 1], [l EXCEPT !.pending = TRUE],
                  [l EXCEPT !.pending = FALSE, !.pos = @ + 1],
                  [l EXCEPT !.pc = "handler"],
                  [l EXCEPT !.pc = "record", !.good = TRUE],
                  [l EXCEPT !.pc = "record", !.good = FALSE]} : Becomes(r, m)
  BY DEF RunBlock, InsertRows, CommitRows, ExecuteReturns, BlockRaises, Results
<1>2. /\ m.pc \in {"exec", "handler", "record"} /\ m.todo = l.todo
      /\ m.now = l.now /\ m.sess = l.sess /\ m.id = l.id /\ m.cur = l.cur
  BY <1>a, <1>1 DEF Loop
<1>3. OneLoop(m)
  BY <1>a, <1>2, OneWithin DEF Working, Running
<1>4. UNCHANGED clock
  BY DEF RunBlock, InsertRows, CommitRows, ExecuteReturns, BlockRaises
<1>5. RowsStill
  <2>1. CASE CommitRows(r)
    <3> DEFINE row == [log[l.id] EXCEPT !.writes = @ + 1]
    <3>1. l.id \in DOMAIN log /\ log[l.id] \in LogRow
      BY <1>0, <1>a DEF TypeInv, TypeOK, RunLogged, Executing
    <3>2. /\ row.page = log[l.id].page /\ row.at = log[l.id].at
          /\ row.status = log[l.id].status /\ row.cron = log[l.id].cron
      BY <3>1 DEF LogRow
    <3>3. RowBecomes(l.id, row)
      BY <2>1 DEF CommitRows
    <3> HIDE DEF row
    <3>4. QED
      BY <3>1, <3>2, <3>3 DEF RowBecomes, RowsStill, TypeInv, TypeOK
  <2>2. CASE ~CommitRows(r)
    BY <2>2, RowsAreStill DEF RunBlock, InsertRows, ExecuteReturns, BlockRaises
  <2>3. QED
    BY <2>1, <2>2
<1>6. QED
  BY <1>1, <1>3, <1>4, <1>5, OneGoes

(* The poll around its runs.                                                 *)
LEMMA OnePolls ==
  ASSUME NEW r, Alone(r), TypeInv, OneInv,
         Connect(r) \/ TryLock(r) \/ FetchTasks(r) \/ FinishLoop(r)
           \/ Release(r)
  PROVE  OneInv'
<1> DEFINE l == rep[r]
<1>0. r \in Replicas
  BY DEF Alone
<1>a. l \in Loop /\ OneLoop(l) /\ log \in Seq(LogRow) /\ clock \in Nat
  BY <1>0 DEF TypeInv, TypeOK, OneInv
<1>b. UNCHANGED <<log, clock>>
  BY DEF Connect, TryLock, FetchTasks, FinishLoop, Release
<1>c. ASSUME NEW m, Becomes(r, m), OneLoop(m) PROVE OneInv'
  BY <1>b, <1>c, OneGoes, RowsAreStill
<1>n. PollInterval \in Nat /\ \A i \in DOMAIN log : log[i].at \in Nat
  <2>1. \A i \in DOMAIN log : log[i] \in LogRow
    BY <1>a
  <2>2. QED
    BY <2>1, TimeAssumption DEF LogRow
<1>1. CASE Connect(r)
  <2> DEFINE m == [l EXCEPT !.pc = "connected", !.sess = "ok"]
  <2>1. Becomes(r, m) /\ l.pc = "sleep" /\ clock >= l.wake /\ l.wake \in Nat
    BY <1>1, <1>a DEF Connect, At, Loop
  <2>2. m.pc = "connected" /\ m.sess = "ok"
    BY <1>a DEF Loop
  <2> HIDE DEF m
  <2>3. OneLoop(m)
    BY <1>a, <1>n, <2>1, <2>2 DEF OneLoop, Working, Running
  <2>4. QED
    BY <1>c, <2>1, <2>3
<1>2. CASE TryLock(r)
  <2>1. PICK m \in {[l EXCEPT !.pc = "fetch", !.now = clock],
                    Asleep(Sleeping(clock), "none")} : Becomes(r, m)
    BY <1>2 DEF TryLock
  <2>2. l.pc = "connected" /\ l.sess = "ok"
    BY <1>2 DEF TryLock, At
  <2>3. \/ m.pc = "fetch" /\ m.sess = "ok" /\ m.now = clock
        \/ m.pc = "sleep" /\ m.wake = clock + PollInterval
    <3>1. CASE m = [l EXCEPT !.pc = "fetch", !.now = clock]
      BY <1>a, <2>2, <3>1 DEF Loop
    <3>2. CASE m = Asleep(Sleeping(clock), "none")
      BY <3>2 DEF Asleep, Sleeping
    <3>3. QED
      BY <2>1, <3>1, <3>2
  <2>4. OneLoop(m)
    BY <1>a, <1>n, <2>2, <2>3 DEF OneLoop, Working, Running
  <2>5. QED
    BY <1>c, <2>1, <2>4
<1>3. CASE FetchTasks(r)
  <2> DEFINE S == {[page |-> p, cfg |-> config[p]] :
                     p \in {q \in Pages : Selected(q, l.now)}}
             m == [l EXCEPT !.pc = "loop", !.todo = S]
  <2>1. l.pc = "fetch" /\ l.sess = "ok"
    BY <1>3, <1>a DEF FetchTasks, At, OneLoop
  <2>2. Becomes(r, m)
    BY <1>3, <2>1 DEF FetchTasks
  <2>3. /\ m.pc = "loop" /\ m.sess = "ok" /\ m.now = l.now /\ m.todo = S
        /\ l.now \in Nat
    BY <1>a, <2>1 DEF Loop
  <2>4. \A t, u \in S : t.page = u.page => t = u
    OBVIOUS
  <2> HIDE DEF m, S
  <2>5. OneLoop(m)
    BY <1>a, <1>n, <2>1, <2>3, <2>4 DEF OneLoop, Working, Running
  <2>6. QED
    BY <1>c, <2>2, <2>5
<1>4. CASE FinishLoop(r)
  <2> DEFINE m == [l EXCEPT !.pc = "release", !.clean = TRUE]
  <2>1. Becomes(r, m) /\ l.pc = "loop"
    BY <1>4 DEF FinishLoop, At
  <2>2. m.pc = "release" /\ m.sess = l.sess /\ m.now = l.now /\ m.todo = l.todo
    BY <1>a DEF Loop
  <2> HIDE DEF m
  <2>3. OneLoop(m)
    BY <1>a, <2>1, <2>2, OneWithin DEF Working, Running
  <2>4. QED
    BY <1>c, <2>1, <2>3
<1>5. CASE Release(r)
  <2> DEFINE m == Asleep(Sleeping(clock), IF l.clean THEN "none" ELSE l.sess)
  <2>1. Becomes(r, m) /\ l.pc = "release" /\ l.now \in Nat
    BY <1>5, <1>a DEF Release, At, Loop
  <2>2. m.pc = "sleep" /\ m.wake = clock + PollInterval
    BY DEF Asleep, Sleeping
  <2> HIDE DEF m
  <2>3. OneLoop(m)
    BY <1>a, <1>n, <2>1, <2>2 DEF OneLoop, Working, Running
  <2>4. QED
    BY <1>c, <2>1, <2>3
<1>6. QED
  BY <1>1, <1>2, <1>3, <1>4, <1>5

LEMMA OneStarts ==
  ASSUME NEW r, Alone(r), TypeInv, OneInv, StartTask(r)
  PROVE  OneInv'
<1> DEFINE l == rep[r]
<1>0. r \in Replicas
  BY DEF Alone
<1>a. /\ l \in Loop /\ OneLoop(l) /\ l.pc = "loop" /\ log \in Seq(LogRow)
      /\ clock \in Nat
  BY <1>0 DEF TypeInv, TypeOK, OneInv, StartTask, At
<1>b. UNCHANGED clock
  BY DEF StartTask
<1>1. PICK t \in l.todo :
        IF MatchRaises(t.cfg.schedule.cron, l.now) \/ l.sess # "ok"
          THEN /\ Becomes(r, [l EXCEPT !.pc = "release", !.todo = {}])
               /\ UNCHANGED log
          ELSE /\ log' = Append(log, [page |-> t.page, status |-> "running",
                                      at |-> l.now, stamp |-> Never,
                                      by |-> r, writes |-> 0,
                                      cron |-> t.cfg.schedule.cron])
               /\ Becomes(r, [l EXCEPT !.pc = "exec", !.todo = @ \ {t},
                            !.cur = t, !.id = Len(log) + 1,
                            !.pos = 1, !.pending = FALSE])
  BY DEF StartTask
<1>2. CASE MatchRaises(t.cfg.schedule.cron, l.now) \/ l.sess # "ok"
  <2> DEFINE m == [l EXCEPT !.pc = "release", !.todo = {}]
  <2>1. Becomes(r, m) /\ UNCHANGED log
    BY <1>1, <1>2
  <2>2. m.pc = "release" /\ m.todo = {} /\ m.now = l.now /\ m.sess = l.sess
    BY <1>a DEF Loop
  <2> HIDE DEF m
  <2>3. OneLoop(m)
    BY <1>a, <2>2, OneWithin DEF Working, Running
  <2>4. QED
    BY <1>b, <2>1, <2>3, OneGoes, RowsAreStill
<1>3. CASE ~(MatchRaises(t.cfg.schedule.cron, l.now) \/ l.sess # "ok")
  <2> DEFINE n == Len(log) + 1
             row == [page |-> t.page, status |-> "running", at |-> l.now,
                     stamp |-> Never, by |-> r, writes |-> 0,
 cron |-> t.cfg.schedule.cron]
             m == [l EXCEPT !.pc = "exec", !.todo = @ \ {t}, !.cur = t,
                     !.id = n, !.pos = 1, !.pending = FALSE]
  <2>1. log' = Append(log, row) /\ Becomes(r, m)
    BY <1>1, <1>3
  <2>2. /\ m.pc = "exec" /\ m.todo = l.todo \ {t} /\ m.id = n
        /\ m.now = l.now /\ m.sess = "ok" /\ m.cur = t
    BY <1>3, <1>a DEF Loop
  <2>3. /\ row.page = t.page /\ row.status = "running" /\ row.at = l.now
        /\ row.cron = t.cfg.schedule.cron
    OBVIOUS
  <2> HIDE DEF row
  <2>4. /\ DOMAIN log' = DOMAIN log \union {n} /\ n \in Nat
        /\ \A i \in DOMAIN log : log'[i] = log[i] /\ i \in Nat /\ i < n
        /\ log'[n] = row
    BY <1>a, <2>1
  <2> HIDE DEF n, m
  <2>5. \A i \in DOMAIN log : log'[i].status = "running" => Failed(i)'
    BY <1>a, <1>b, <2>4 DEF OneLoop, Running, Failed
  <2>6. \A i \in DOMAIN log :
          t.page = log[i].page => log[i].at + PollInterval <= l.now
    BY <1>a DEF OneLoop, Working
  <2>7. PollsApart'
    <3> SUFFICES ASSUME NEW i \in DOMAIN log', NEW j \in DOMAIN log',
                        i < j, log'[i].page = log'[j].page
                 PROVE  log'[i].at + PollInterval <= log'[j].at
      BY DEF PollsApart
    <3>1. i \in DOMAIN log
      BY <2>4
    <3>2. CASE j \in DOMAIN log
      BY <2>4, <3>1, <3>2 DEF OneInv, PollsApart
    <3>3. CASE j = n
      BY <2>3, <2>4, <2>6, <3>1, <3>3
    <3>4. QED
      BY <2>4, <3>2, <3>3
  <2>8. ASSUME NEW s \in Replicas PROVE OneLoop(rep[s])'
    <3>1. rep'[s] = m
      BY <2>1 DEF Alone, Becomes, TypeInv, TypeOK
    <3>2. /\ l.now <= clock
          /\ \A u, v \in l.todo : u.page = v.page => u = v
          /\ \A i \in DOMAIN log :
               /\ log[i].at = l.now \/ log[i].at + PollInterval <= l.now
               /\ \A u \in l.todo :
                    u.page = log[i].page => log[i].at + PollInterval <= l.now
      BY <1>a DEF OneLoop, Working
    <3>3. \A u \in m.todo : u \in l.todo /\ u.page # t.page
      BY <2>2, <3>2
    <3>4. ASSUME NEW i \in DOMAIN log'
          PROVE  /\ log'[i].status = "running" => i = n \/ Failed(i)'
                 /\ log'[i].at = l.now \/ log'[i].at + PollInterval <= l.now
                 /\ \A u \in m.todo :
                      u.page = log'[i].page => log'[i].at + PollInterval <= l.now
      <4>1. CASE i = n
        BY <2>3, <2>4, <3>3, <4>1
      <4>2. CASE i \in DOMAIN log
        BY <2>4, <2>5, <3>2, <3>3, <4>2
      <4>3. QED
        BY <2>4, <4>1, <4>2
    <3>5. QED
      BY <1>b, <2>2, <2>3, <2>4, <3>1, <3>2, <3>3, <3>4
         DEF OneLoop, Working, Running
  <2>9. QED
    BY <2>7, <2>8 DEF OneInv
<1>4. QED
  BY <1>2, <1>3

(* The result is stamped and logged.                                         *)
LEMMA OneRecords ==
  ASSUME NEW r, Alone(r), TypeInv, OneInv,
         UpdateRun(r) \/ UpdateRunFails(r) \/ LogEnd(r)
  PROVE  OneInv'
<1> DEFINE l == rep[r]
<1>0. r \in Replicas
  BY DEF Alone
<1>a. /\ l \in Loop /\ OneLoop(l) /\ log \in Seq(LogRow)
      /\ l.pc \in {"record", "handler", "logend"} /\ l.sess = "ok"
  BY <1>0 DEF TypeInv, TypeOK, OneInv, OneLoop, UpdateRun, UpdateRunFails,
              LogEnd, At
<1>b. UNCHANGED clock /\ clock \in Nat
  BY DEF UpdateRun, UpdateRunFails, LogEnd, TypeInv, TypeOK
<1>i. PICK i \in Nat : i = l.id
  BY <1>a DEF Loop
<1>d. i \in DOMAIN log /\ log[i] \in LogRow
  BY <1>0, <1>a, <1>i DEF TypeInv, TypeOK, RunLogged, Executing
<1>1. CASE UpdateRun(r)
  <2>1. PICK b : Becomes(r, [l EXCEPT !.pc = "logend", !.pending = FALSE,
                                     !.good = b])
    BY <1>1 DEF UpdateRun
  <2> DEFINE m == [l EXCEPT !.pc = "logend", !.pending = FALSE, !.good = b]
             row == [log[i] EXCEPT !.stamp = clock]
  <2>2. /\ m.pc = "logend" /\ m.todo = l.todo /\ m.now = l.now
        /\ m.sess = l.sess /\ m.id = l.id /\ m.cur = l.cur
    BY <1>a DEF Loop
  <2>3. /\ row.page = log[i].page /\ row.at = log[i].at
        /\ row.status = log[i].status /\ row.cron = log[i].cron
    BY <1>d DEF LogRow
  <2>4. RowBecomes(i, row)
    BY <1>1, <1>i DEF UpdateRun
  <2> HIDE DEF m, row
  <2>5. RowsStill
    BY <1>d, <2>3, <2>4 DEF RowBecomes, RowsStill, TypeInv, TypeOK
  <2>6. OneLoop(m)
    BY <1>a, <2>2, OneWithin DEF Working, Running
  <2>7. QED
    BY <1>b, <2>1, <2>5, <2>6, OneGoes DEF m
<1>2. CASE LogEnd(r)
  <2> DEFINE m == NextTask(l)
             s == IF l.good THEN "success" ELSE "error"
             row == [log[i] EXCEPT !.status = s]
  <2>1. Becomes(r, m) /\ RowBecomes(i, row)
    BY <1>2, <1>a, <1>i DEF LogEnd
  <2>2. m.pc = "loop" /\ m.todo = l.todo /\ m.now = l.now /\ m.sess = l.sess
    BY <1>a DEF NextTask, Loop
  <2>3. /\ row.page = log[i].page /\ row.at = log[i].at
        /\ row.status # "running" /\ row.cron = log[i].cron
    BY <1>d DEF LogRow
  <2> HIDE DEF m, row
  <2>4. /\ DOMAIN log' = DOMAIN log /\ log'[i] = row
        /\ \A j \in DOMAIN log : j # i => log'[j] = log[j]
    BY <1>d, <2>1 DEF RowBecomes, TypeInv, TypeOK
  <2>5. \A j \in DOMAIN log :
          /\ log'[j].page = log[j].page /\ log'[j].at = log[j].at
          /\ log'[j].status = "running" => Failed(j)'
    BY <1>a, <1>b, <1>i, <2>3, <2>4 DEF OneLoop, Failed
  <2>6. PollsApart'
    BY <2>4, <2>5 DEF OneInv, PollsApart
  <2>7. ASSUME NEW q \in Replicas PROVE OneLoop(rep[q])'
    <3>1. rep'[q] = m
      BY <2>1 DEF Alone, Becomes, TypeInv, TypeOK
    <3>2. QED
      BY <1>a, <1>b, <2>2, <2>4, <2>5, <3>1 DEF OneLoop, Working, Running
  <2>8. QED
    BY <2>6, <2>7 DEF OneInv
<1>3. CASE UpdateRunFails(r)
  <2>1. /\ l.pc \in {"record", "handler"}
        /\ NextRunRaises(l.cur.cfg.schedule.cron, clock) /\ UNCHANGED log
    BY <1>a, <1>3 DEF UpdateRunFails
  <2>2. log[i].at \in Nat /\ log[i].at <= clock
    <3>1. log[i].at \in Nat /\ l.now \in Nat /\ PollInterval \in Nat
      BY <1>a, <1>d, TimeAssumption DEF LogRow, Loop
    <3>2. /\ log[i].at = l.now \/ log[i].at + PollInterval <= l.now
          /\ l.now <= clock
      BY <1>a, <1>d, <2>1 DEF OneLoop, Working, Running
    <3>3. QED
      BY <1>b, <3>1, <3>2
  <2>3. Failed(i)
    BY <1>a, <1>b, <1>i, <2>1, <2>2 DEF OneLoop, Failed, Running
  <2>4. CASE l.pc = "record"
    <3> DEFINE m == [l EXCEPT !.pc = "handler"]
    <3>1. Becomes(r, m)
      BY <1>3, <2>4 DEF UpdateRunFails, At
    <3>2. /\ m.pc = "handler" /\ m.todo = l.todo /\ m.now = l.now
          /\ m.sess = l.sess /\ m.id = l.id /\ m.cur = l.cur
      BY <1>a DEF Loop
    <3> HIDE DEF m
    <3>3. OneLoop(m)
      BY <1>a, <3>2, OneWithin DEF Working, Running
    <3>4. QED
      BY <1>b, <2>1, <3>1, <3>3, OneGoes, RowsAreStill
  <2>5. CASE l.pc = "handler"
    <3> DEFINE m == NextTask(l)
    <3>1. Becomes(r, m)
      BY <1>3, <2>5 DEF UpdateRunFails, At
    <3>2. m.pc = "loop" /\ m.todo = l.todo /\ m.now = l.now /\ m.sess = l.sess
      BY <1>a DEF NextTask, Loop
    <3> HIDE DEF m
    <3>3. \A j \in DOMAIN log : log[j].status = "running" => Failed(j)
      BY <1>a, <1>i, <2>3 DEF OneLoop
    <3>4. OneLoop(m)
      BY <1>a, <3>2, <3>3 DEF OneLoop, Working, Running
    <3>5. QED
      BY <1>b, <2>1, <3>1, <3>4, OneGoes, RowsAreStill
  <2>6. QED
    BY <2>1, <2>4, <2>5
<1>4. QED
  BY <1>1, <1>2, <1>3

(* No statement fails, no session is lost, no process dies.                  *)
LEMMA OneUnharmed ==
  ASSUME NEW r, Alone(r), TypeInv, OneInv,
         \/ ConnectFails(r) \/ PollFails(r) \/ StatementFails(r)
         \/ SessionDrop(r) \/ Crash(r)
  PROVE  FALSE
<1>0. r \in Replicas /\ Faults \subseteq {"raise"}
  BY DEF Alone
<1>1. rep[r].pc # "sleep" => rep[r].sess = "ok"
  BY <1>0 DEF OneInv, OneLoop
<1>2. QED
  BY <1>0, <1>1 DEF ConnectFails, PollFails, StatementFails, SessionDrop,
                    Crash, Fault, At, InBlock

LEMMA MinutesDiffer ==
  ASSUME NEW m \in Nat \ {0}, NEW x \in Nat, NEW y \in Nat, x + m <= y
  PROVE  x \div m # y \div m
OBVIOUS

(* With one replica whose flows raise in Python only, for any pages, flows,  *)
(* expressions and edits by any users: no page has two runs for one minute,  *)
(* task_logs says "running" only of the run the loop is at and of a run      *)
(* whose expression raised when the next run was looked for, and "success"   *)
(* only of a run that committed every write block of its flow.               *)
THEOREM RunsLoggedHolds ==
  ASSUME NEW r, Replicas = {r}, Faults \subseteq {"raise"}
  PROVE  Spec => []RunsLogged
<1>0. Alone(r)
  BY DEF Alone
<1>1. Init => OneInv
  BY DEF Init, OneInv, PollsApart, OneLoop, Asleep, Working, Running
<1>2. TypeInv /\ OneInv /\ [Next]_vars => OneInv'
  <2> SUFFICES ASSUME TypeInv, OneInv, [Next]_vars PROVE OneInv'
    OBVIOUS
  <2>1. ASSUME NEW s \in Replicas, LoopStep(s) \/ FaultStep(s) PROVE OneInv'
    BY <1>0, <2>1, OneBlocks, OnePolls, OneStarts, OneRecords, OneUnharmed
       DEF Alone, LoopStep, FaultStep
  <2>2. ASSUME UNCHANGED <<log, rep>>, clock' \in Nat, clock <= clock'
        PROVE  OneInv'
    <3>1. clock \in Nat /\ PollInterval \in Nat /\ log \in Seq(LogRow)
      BY TimeAssumption DEF TypeInv, TypeOK
    <3>2. \A i \in DOMAIN log : log[i] \in LogRow
      BY <3>1
    <3>3. \A i \in DOMAIN log : log[i].at \in Nat
      BY <3>2 DEF LogRow
    <3>4. PollsApart'
      BY <2>2 DEF OneInv, PollsApart
    <3>5. ASSUME NEW s \in Replicas PROVE OneLoop(rep[s])'
      <4>1. OneLoop(rep[s]) /\ rep[s].now \in Nat
        BY DEF OneInv, TypeInv, TypeOK, Loop
      <4>2. \A i \in DOMAIN log : Failed(i) => Failed(i)'
        BY <2>2, <3>1, <3>3 DEF Failed
      <4>3. QED
        BY <2>2, <3>1, <3>3, <4>1, <4>2 DEF OneLoop
    <3>6. QED
      BY <3>4, <3>5 DEF OneInv
  <2>3. clock \in Nat
    BY DEF TypeInv, TypeOK
  <2>4. ASSUME NEW s \in Replicas, Reap(s) PROVE OneInv'
    BY <2>2, <2>3, <2>4 DEF Reap
  <2>5. ASSUME NEW u \in Users, WebStep(u) PROVE OneInv'
    <3>1. UNCHANGED <<clock, log, rep>>
      BY <2>5 DEF WebStep, ReadConfig, ToggleTask, RemoveSchedule,
                  SaveSchedule, SavePage, WriteConfig
    <3>2. QED
      BY <2>2, <2>3, <3>1
  <2>6. CASE Tick
    BY <2>2, <2>3, <2>6 DEF Tick
  <2>7. CASE UNCHANGED vars
    BY <2>2, <2>3, <2>7 DEF vars
  <2>8. QED
    BY <2>1, <2>4, <2>5, <2>6, <2>7 DEF Next
<1>3. TypeInv /\ OneInv /\ SuccessIsComplete => RunsLogged
  <2> SUFFICES ASSUME TypeInv, OneInv, SuccessIsComplete PROVE RunsLogged
    OBVIOUS
  <2>1. \A i \in DOMAIN log : log[i] \in LogRow /\ i \in Nat
    BY DEF TypeInv, TypeOK
  <2>2. \A i \in DOMAIN log : log[i].at \in Nat /\ log[i].by = r
    BY <1>0, <2>1 DEF LogRow, Alone
  <2>3. OncePerMinute
    <3> SUFFICES ASSUME NEW i \in DOMAIN log, NEW j \in DOMAIN log, i < j,
                        log[i].page = log[j].page
                 PROVE  Minute(log[i].at) # Minute(log[j].at)
      BY <2>1 DEF OncePerMinute
    <3>1. log[i].at + MinuteLen <= log[j].at
      BY <2>2, TimeAssumption DEF OneInv, PollsApart
    <3>2. QED
      BY <2>2, <3>1, TimeAssumption, MinutesDiffer DEF Minute
  <2>4. OrphansUnscannable
    BY <1>0, <2>2 DEF Alone, OneInv, OneLoop, Running, OrphansUnscannable,
                      UnderWay, Unscannable, Failed, Executing
  <2>5. QED
    BY <2>3, <2>4 DEF RunsLogged
<1>4. QED
  BY <1>1, <1>2, <1>3, TypeInvariant, SuccessIsCompleteHolds, PTL DEF Spec
=============================================================================
