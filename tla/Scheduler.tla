------------------------------ MODULE Scheduler ------------------------------
(***************************************************************************)
(* The cron scheduler of backend/scheduler.py: every backend replica runs  *)
(* one poll loop; the loops share the user_pages table, the task_logs      *)
(* table and one PostgreSQL advisory lock.  The web tier                   *)
(* (frontend/app/api/tasks and frontend/app/api/pages) edits the same page *)
(* configs with a read followed by a write of the whole config.            *)
(*                                                                         *)
(* One step of a replica is one statement sent to the database, or the     *)
(* code between two of them.  A replica keeps a database session for a     *)
(* poll; the advisory lock belongs to the session, not to the replica.     *)
(***************************************************************************)
EXTENDS Integers, Sequences, FiniteSets

CONSTANTS
  Replicas,      \* backend processes, each running one scheduler loop
  Pages,         \* pages of user_pages
  Users,         \* concurrent requests of the web tier
  Crons,         \* cron expressions
  CronMinutes,   \* [Crons -> set of minutes the expression matches]
  CronRaises,    \* [Crons -> minutes at which evaluating it raises]
  CronHorizon,   \* minutes cron_next_run looks ahead (7 days)
  NoCron,        \* no expression at all: the page has no schedule
  Flow,          \* [Pages -> sequence of block kinds the page runs]
  Faults,        \* subset of FaultKinds that may happen
  MinuteLen,     \* ticks per minute
  SkipWindow,    \* ticks of the "already ran this minute" window (55 s)
  PollInterval,  \* ticks of SCHEDULER_POLL_INTERVAL (60 s)
  MaxClock,      \* bound: last tick
  MaxFaults,     \* bound: number of faults
  MaxEdits       \* bound: number of config writes of the web tier

FaultKinds == {"raise", "sql", "drop", "crash"}
BlockKinds == {"read", "write", "pure", "check"}

ASSUME TimeAssumption ==
  /\ MinuteLen \in Nat \ {0}
  /\ SkipWindow \in 1..(MinuteLen - 1)
  /\ PollInterval \in Nat /\ PollInterval >= MinuteLen
  /\ MaxClock \in Nat /\ MaxFaults \in Nat /\ MaxEdits \in Nat

ASSUME DataAssumption ==
  /\ NoCron \notin Crons
  /\ CronMinutes \in [Crons -> SUBSET Nat]
  /\ CronRaises \in [Crons -> SUBSET Nat]   \* int("x"), x % 0
  /\ CronHorizon \in Nat
  /\ Flow \in [Pages -> Seq(BlockKinds)]
  /\ Faults \subseteq FaultKinds
  /\ Pages # {}

VARIABLES
  clock,   \* wall-clock time, in ticks
  config,  \* user_pages: [Pages -> [schedule, content]]
  log,     \* task_logs, in insertion order
  held,    \* sessions holding the advisory lock, as <<replica, "cur" | "old">>
  rep,     \* the local state of each scheduler loop
  draft,   \* what each web request (or browser tab) has read
  edits,   \* config writes of the web tier so far
  faults,  \* faults so far
  want     \* history: what the last web write of each page asked for

vars == <<clock, config, log, held, rep, draft, edits, faults, want>>

-----------------------------------------------------------------------------
(* Data.  The schedule key of a config: absent when cron = NoCron.          *)

Never == -1   \* no last_run yet

Schedule == [cron : Crons \union {NoCron}, enabled : BOOLEAN,
             lastRun : Int, runCount : Nat]
Config == [schedule : Schedule, content : Nat]

FreshSchedule(c, e) ==
  [cron |-> c, enabled |-> e, lastRun |-> Never, runCount |-> 0]
NoSchedule == FreshSchedule(NoCron, TRUE)

Minute(t) == t \div MinuteLen

(* A row of task_logs; at (the poll time the run belongs to), stamp (the    *)
(* last_run it wrote), by, writes (write blocks it committed) and cron (the *)
(* expression the poll read) are history.                                   *)
LogRow == [page : Pages, status : {"running", "success", "error"},
           at : Nat, stamp : Int, by : Replicas, writes : Nat,
           cron : Crons \union {NoCron}]

Snapshot == [page : Pages, cfg : Config]   \* an element of `tasks`
Locals == {"sleep", "connected", "fetch", "loop", "exec", "record",
           "handler", "logend", "release"}
Loop == [pc : Locals,
         sess : {"none", "ok", "aborted", "dead"},
         wake : Nat,             \* not before this tick
         now : Nat,              \* `now` of this poll
         todo : SUBSET Snapshot, \* rest of `tasks`
         cur : Snapshot,         \* `task`
         id : Nat,               \* `log_id`
         pos : Nat,              \* block being executed
         pending : BOOLEAN,      \* rows inserted and not committed
         good : BOOLEAN,         \* `success`
         clean : BOOLEAN]        \* the loop ended without an exception

NoTask == [page |-> CHOOSE p \in Pages : TRUE,
           cfg |-> [schedule |-> NoSchedule, content |-> 0]]
Asleep(t, s) ==
  [pc |-> "sleep", sess |-> s, wake |-> t, now |-> 0, todo |-> {},
   cur |-> NoTask, id |-> 0, pos |-> 0, pending |-> FALSE, good |-> FALSE,
   clean |-> FALSE]

NoDraft == [open |-> FALSE, page |-> NoTask.page, cfg |-> NoTask.cfg]

(* The loop of r moves on to the local state l. *)
Becomes(r, l) == rep' = [rep EXCEPT ![r] = l]

(* Row i of task_logs is updated. *)
RowBecomes(i, row) == log' = [log EXCEPT ![i] = row]

At(r, label) == rep[r].pc = label
Live(r) == rep[r].sess \in {"ok", "aborted"}
InPoll(r) == rep[r].pc \notin {"sleep", "connected"}
Executing(r) == rep[r].pc \in {"exec", "record", "handler", "logend"}

(* A loop done with its current task. *)
NextTask(l) == [l EXCEPT !.pc = "loop", !.cur = NoTask, !.id = 0, !.pos = 0,
                         !.pending = FALSE, !.good = FALSE]

Fault(kind) == kind \in Faults /\ faults < MaxFaults /\ faults' = faults + 1

-----------------------------------------------------------------------------
(* Initial state: schedules as the dialog saves them, every loop asleep.    *)

Init ==
  /\ clock = 0
  /\ config \in [Pages -> [schedule : {FreshSchedule(c, TRUE) : c \in Crons},
                           content : {0}]]
  /\ log = <<>>
  /\ held = {}
  /\ rep = [r \in Replicas |-> Asleep(0, "none")]
  /\ draft = [u \in Users |-> NoDraft]
  /\ edits = 0
  /\ faults = 0
  /\ want = config

-----------------------------------------------------------------------------
(* The poll loop of one replica.                                            *)

Sleeping(t) == t + PollInterval

ConnectReusing(r) ==   \* mutant: the connection of the failed poll is used again
  /\ At(r, "sleep") /\ clock >= rep[r].wake
  /\ Becomes(r, [rep[r] EXCEPT !.pc = "connected",
               !.sess = IF @ = "none" THEN "ok" ELSE @])
  /\ UNCHANGED <<clock, config, log, held, draft, edits, faults, want>>

(* conn = get_db().  Rebinding conn drops the object of an earlier poll that *)
(* ended in an exception; the server ends that session some time later.      *)
Connect(r) ==
  /\ At(r, "sleep") /\ clock >= rep[r].wake
  /\ held' = IF <<r, "cur">> \in held
               THEN (held \ {<<r, "cur">>}) \union {<<r, "old">>} ELSE held
  /\ Becomes(r, [rep[r] EXCEPT !.pc = "connected", !.sess = "ok"])
  /\ UNCHANGED <<clock, config, log, draft, edits, faults, want>>

(* The database refuses the connection: the outer except, then sleep.        *)
ConnectFails(r) ==
  /\ At(r, "sleep") /\ clock >= rep[r].wake
  /\ Fault("drop")
  /\ Becomes(r, [rep[r] EXCEPT !.wake = Sleeping(clock)])
  /\ UNCHANGED <<clock, config, log, held, draft, edits, want>>

LockPerReplica(r) == <<r, "cur">> \notin held   \* mutant: a lock per replica

(* pg_try_advisory_lock of this session. *)
LockGranted(r) == held = {}

TryLock(r) ==
  /\ At(r, "connected") /\ rep[r].sess = "ok"
  /\ IF LockGranted(r)
       THEN /\ held' = held \union {<<r, "cur">>}
            /\ Becomes(r, [rep[r] EXCEPT !.pc = "fetch", !.now = clock])
       ELSE /\ held' = held
            /\ Becomes(r, Asleep(Sleeping(clock), "none"))
  /\ UNCHANGED <<clock, config, log, draft, edits, faults, want>>

(* An exception outside the inner try (the session died before the lock). *)
PollFails(r) ==
  /\ At(r, "connected") /\ rep[r].sess = "dead"
  /\ Becomes(r, Asleep(Sleeping(clock), "dead"))
  /\ UNCHANGED <<clock, config, log, held, draft, edits, faults, want>>

(* cron_matches, and "skip if already ran this minute". *)
Due(s, now) ==
  /\ Minute(now) \in CronMinutes[s.cron]
  /\ s.lastRun = Never \/ now - s.lastRun >= SkipWindow

(* cron_matches raises.  A list is read from the left and only as far as it  *)
(* must: "0,x" matches at minute 0 and raises at every other minute.         *)
MatchRaises(c, now) == Minute(now) \in CronRaises[c]

(* The rows get_scheduled_tasks returns, without those that the loop would   *)
(* then skip leaving no trace.                                               *)
Selected(p, now) ==
  LET s == config[p].schedule IN
    /\ s.cron # NoCron /\ s.enabled
    /\ MatchRaises(s.cron, now) \/ Due(s, now)

FetchTasks(r) ==
  /\ At(r, "fetch")
  /\ IF rep[r].sess = "ok"
       THEN Becomes(r, [rep[r] EXCEPT !.pc = "loop", !.todo =
              {[page |-> p, cfg |-> config[p]] :
                 p \in {q \in Pages : Selected(q, rep[r].now)}}])
       ELSE Becomes(r, [rep[r] EXCEPT !.pc = "release"])
  /\ UNCHANGED <<clock, config, log, held, draft, edits, faults, want>>

(* The next task of the loop: cron_matches may raise, and so may             *)
(* log_task_start when an earlier task left the transaction aborted.         *)
StartTask(r) ==
  /\ At(r, "loop")
  /\ \E t \in rep[r].todo :
       IF MatchRaises(t.cfg.schedule.cron, rep[r].now) \/ rep[r].sess # "ok"
         THEN /\ Becomes(r, [rep[r] EXCEPT !.pc = "release", !.todo = {}])
              /\ UNCHANGED log
         ELSE /\ log' = Append(log, [page |-> t.page, status |-> "running",
                                     at |-> rep[r].now, stamp |-> Never,
                                     by |-> r, writes |-> 0,
                                     cron |-> t.cfg.schedule.cron])
              /\ Becomes(r, [rep[r] EXCEPT !.pc = "exec", !.todo = @ \ {t},
                           !.cur = t, !.id = Len(log) + 1,
                           !.pos = 1, !.pending = FALSE])
  /\ UNCHANGED <<clock, config, held, draft, edits, faults, want>>

FinishLoop(r) ==
  /\ At(r, "loop") /\ rep[r].todo = {}
  /\ Becomes(r, [rep[r] EXCEPT !.pc = "release", !.clean = TRUE])
  /\ UNCHANGED <<clock, config, log, held, draft, edits, faults, want>>

-----------------------------------------------------------------------------
(* execute_task: the blocks of the page, one after the other.                *)

Blocks(r) == Flow[rep[r].cur.page]
Block(r) == Blocks(r)[rep[r].pos]
InBlock(r) == At(r, "exec") /\ rep[r].pos <= Len(Blocks(r))
UsesDb(r) == Block(r) \in {"read", "write"}

(* A block that leaves the database as it is. *)
RunBlock(r) ==
  /\ InBlock(r) /\ Block(r) # "write"
  /\ UsesDb(r) => rep[r].sess = "ok"
  /\ Becomes(r, [rep[r] EXCEPT !.pos = @ + 1])
  /\ UNCHANGED <<clock, config, log, held, draft, edits, faults, want>>

(* The INSERTs of an insert or notify block ... *)
InsertRows(r) ==
  /\ InBlock(r) /\ Block(r) = "write" /\ ~rep[r].pending
  /\ rep[r].sess = "ok"
  /\ Becomes(r, [rep[r] EXCEPT !.pending = TRUE])
  /\ UNCHANGED <<clock, config, log, held, draft, edits, faults, want>>

(* ... and its conn.commit(). *)
CommitRows(r) ==
  /\ InBlock(r) /\ rep[r].pending /\ rep[r].sess = "ok"
  /\ RowBecomes(rep[r].id, [log[rep[r].id] EXCEPT !.writes = @ + 1])
  /\ Becomes(r, [rep[r] EXCEPT !.pending = FALSE, !.pos = @ + 1])
  /\ UNCHANGED <<clock, config, held, draft, edits, faults, want>>

BlockRaisesUnlogged(r) ==   \* mutant: the except branch records nothing
  /\ InBlock(r) /\ Block(r) # "check"
  /\ Fault("raise")
  /\ Becomes(r, NextTask(rep[r]))
  /\ UNCHANGED <<clock, config, log, held, draft, edits, want>>

BlockRaisesSwallowed(r) ==   \* mutant: the error ends the flow, as a success
  /\ InBlock(r) /\ Block(r) # "check"
  /\ Fault("raise")
  /\ Becomes(r, [rep[r] EXCEPT !.pc = "record", !.good = TRUE])
  /\ UNCHANGED <<clock, config, log, held, draft, edits, want>>

(* A block raises: in Python, leaving the transaction as it was, ...         *)
BlockRaises(r) ==
  /\ InBlock(r) /\ Block(r) # "check"
  /\ Fault("raise")
  /\ Becomes(r, [rep[r] EXCEPT !.pc = "handler"])
  /\ UNCHANGED <<clock, config, log, held, draft, edits, want>>

(* ... or in the database, which aborts the transaction until a rollback     *)
(* (that no code of the scheduler sends) or the end of the session.          *)
StatementFails(r) ==
  /\ InBlock(r) /\ UsesDb(r)
  /\ \/ rep[r].sess = "ok" /\ Fault("sql")
        /\ Becomes(r, [rep[r] EXCEPT !.pc = "handler", !.sess = "aborted",
                     !.pending = FALSE])
     \/ rep[r].sess = "dead" /\ Becomes(r, [rep[r] EXCEPT !.pc = "handler"])
        /\ UNCHANGED faults
  /\ UNCHANGED <<clock, config, log, held, draft, edits, want>>

(* What execute_task returns when nothing raised: no block is a failure, a   *)
(* notebook's check may fail, a flow that ran to its end is a success.       *)
Results(flow) ==
  IF flow = <<>> THEN {FALSE}
  ELSE IF flow = <<"check">> THEN BOOLEAN ELSE {TRUE}

ExecuteReturns(r) ==
  /\ At(r, "exec") /\ rep[r].pos > Len(Blocks(r))
  /\ \E b \in Results(Blocks(r)) :
       Becomes(r, [rep[r] EXCEPT !.pc = "record", !.good = b])
  /\ UNCHANGED <<clock, config, log, held, draft, edits, faults, want>>

-----------------------------------------------------------------------------
(* Recording the run.                                                        *)

RanScheduleUncounted(snap) ==   \* mutant: run_count is not incremented
  [snap.schedule EXCEPT !.lastRun = clock]
RanSchedulePartial(snap) ==     \* mutant: the key is rebuilt without enabled
  [cron |-> snap.schedule.cron, lastRun |-> clock,
   runCount |-> snap.schedule.runCount + 1]

(* The schedule key update_task_run writes: everything but the stamps comes  *)
(* from the snapshot the poll read.                                          *)
RanSchedule(snap) ==
  [cron |-> snap.schedule.cron, enabled |-> snap.schedule.enabled,
   lastRun |-> clock, runCount |-> snap.schedule.runCount + 1]

MergeConfig(stored, snap) ==    \* mutant: the whole snapshot is written back
  [snap EXCEPT !.schedule = RanSchedule(snap)]

(* jsonb_set(config, '{schedule}', ...): the other stored keys stay. *)
MergeSchedule(stored, snap) == [stored EXCEPT !.schedule = RanSchedule(snap)]

(* cron_next_run raises: from the next minute on, it meets a minute whose    *)
(* evaluation raises before one that matches.                                *)
NextRunRaises(c, now) ==
  \E m \in CronRaises[c] :
    /\ Minute(now) < m /\ m <= Minute(now) + CronHorizon
    /\ \A n \in CronMinutes[c] : ~(Minute(now) < n /\ n < m)

(* update_task_run on the normal path ("record") and in the except branch    *)
(* ("handler"): its commit also commits what the task left uncommitted.  It  *)
(* looks for the next run before it writes.                                  *)
UpdateRun(r) ==
  /\ rep[r].pc \in {"record", "handler"} /\ rep[r].sess = "ok"
  /\ ~NextRunRaises(rep[r].cur.cfg.schedule.cron, clock)
  /\ config' = [config EXCEPT ![rep[r].cur.page] =
                   MergeSchedule(@, rep[r].cur.cfg)]
  /\ RowBecomes(rep[r].id, [log[rep[r].id] EXCEPT !.stamp = clock])
  /\ Becomes(r, [rep[r] EXCEPT !.pc = "logend", !.pending = FALSE,
               !.good = IF At(r, "record") THEN @ ELSE FALSE])
  /\ UNCHANGED <<clock, held, draft, edits, faults, want>>

(* The same call when the scan raises, or on a session that is aborted or    *)
(* gone: on the normal path the except branch follows, and what its own call *)
(* raises is ignored.                                                        *)
UpdateRunFails(r) ==
  /\ rep[r].pc \in {"record", "handler"}
  /\ \/ rep[r].sess # "ok"
     \/ NextRunRaises(rep[r].cur.cfg.schedule.cron, clock)
  /\ Becomes(r, IF At(r, "record") THEN [rep[r] EXCEPT !.pc = "handler"]
                ELSE NextTask(rep[r]))
  /\ UNCHANGED <<clock, config, log, held, draft, edits, faults, want>>

(* log_task_end; when the session died in between, nothing is written. *)
LogEnd(r) ==
  /\ At(r, "logend")
  /\ IF rep[r].sess = "ok"
       THEN RowBecomes(rep[r].id, [log[rep[r].id] EXCEPT !.status =
              IF rep[r].good THEN "success" ELSE "error"])
       ELSE UNCHANGED log
  /\ Becomes(r, NextTask(rep[r]))
  /\ UNCHANGED <<clock, config, held, draft, edits, faults, want>>

(* finally: release_advisory_lock, which an aborted transaction rejects      *)
(* without a word; then conn.close(), but only if nothing was raised.        *)
Release(r) ==
  /\ At(r, "release")
  /\ held' = IF rep[r].sess = "ok" \/ rep[r].clean
               THEN held \ {<<r, "cur">>} ELSE held
  /\ Becomes(r, Asleep(Sleeping(clock),
                       IF rep[r].clean THEN "none" ELSE rep[r].sess))
  /\ UNCHANGED <<clock, config, log, draft, edits, faults, want>>

-----------------------------------------------------------------------------
(* The environment: the database server, crashes, time.                      *)

(* The server notices that the connection of a dropped object is gone. *)
Reap(r) ==
  /\ <<r, "old">> \in held
  /\ held' = held \ {<<r, "old">>}
  /\ UNCHANGED <<clock, config, log, rep, draft, edits, faults, want>>

(* The server ends a session (failover, restart, network): what it had not   *)
(* committed and the locks it held are gone; the replica finds out at its    *)
(* next statement.                                                           *)
SessionDrop(r) ==
  /\ Live(r) /\ Fault("drop")
  /\ held' = held \ {<<r, "cur">>}
  /\ Becomes(r, [rep[r] EXCEPT !.sess = "dead", !.pending = FALSE])
  /\ UNCHANGED <<clock, config, log, draft, edits, want>>

(* The process dies and is started again. *)
Crash(r) ==
  /\ Fault("crash")
  /\ held' = IF <<r, "cur">> \in held
               THEN (held \ {<<r, "cur">>}) \union {<<r, "old">>} ELSE held
  /\ Becomes(r, Asleep(clock, "none"))
  /\ UNCHANGED <<clock, config, log, draft, edits, want>>

Tick ==
  /\ clock < MaxClock
  /\ clock' = clock + 1
  /\ UNCHANGED <<config, log, held, rep, draft, edits, faults, want>>

-----------------------------------------------------------------------------
(* The web tier: a request, or a browser tab, reads a config and later       *)
(* writes a whole one back.                                                  *)

ReadConfig(u) ==
  /\ ~draft[u].open
  /\ \E p \in Pages :
       draft' = [draft EXCEPT ![u] =
                   [open |-> TRUE, page |-> p, cfg |-> config[p]]]
  /\ UNCHANGED <<clock, config, log, held, rep, edits, faults, want>>

WriteConfig(u, cfg) ==
  /\ draft[u].open /\ edits < MaxEdits
  /\ config' = [config EXCEPT ![draft[u].page] = cfg]
  /\ want' = [want EXCEPT ![draft[u].page] = cfg]
  /\ draft' = [draft EXCEPT ![u] = NoDraft]
  /\ edits' = edits + 1
  /\ UNCHANGED <<clock, log, held, rep, faults>>

(* PATCH /api/tasks *)
ToggleTask(u) ==
  /\ draft[u].cfg.schedule.cron # NoCron
  /\ \E b \in BOOLEAN :
       WriteConfig(u, [draft[u].cfg EXCEPT !.schedule.enabled = b])

(* DELETE /api/tasks, and the dialog's Remove *)
RemoveSchedule(u) ==
  WriteConfig(u, [draft[u].cfg EXCEPT !.schedule = NoSchedule])

(* The dialog's Save: a new schedule object, without last_run or run_count. *)
SaveSchedule(u) ==
  \E c \in Crons, b \in BOOLEAN :
    WriteConfig(u, [draft[u].cfg EXCEPT !.schedule = FreshSchedule(c, b)])

(* PATCH /api/pages/[id] with an edited config: widgets, blocks, code. *)
SavePage(u) ==
  WriteConfig(u, [draft[u].cfg EXCEPT !.content = edits + 1])

-----------------------------------------------------------------------------
LoopStep(r) ==
  \/ Connect(r) \/ TryLock(r) \/ PollFails(r) \/ FetchTasks(r)
  \/ StartTask(r) \/ FinishLoop(r)
  \/ RunBlock(r) \/ InsertRows(r) \/ CommitRows(r) \/ ExecuteReturns(r)
  \/ UpdateRun(r) \/ UpdateRunFails(r) \/ LogEnd(r) \/ Release(r)

FaultStep(r) ==
  \/ ConnectFails(r) \/ BlockRaises(r) \/ StatementFails(r)
  \/ SessionDrop(r) \/ Crash(r)

WebStep(u) ==
  \/ ReadConfig(u) \/ ToggleTask(u) \/ RemoveSchedule(u)
  \/ SaveSchedule(u) \/ SavePage(u)

Next ==
  \/ \E r \in Replicas : LoopStep(r) \/ FaultStep(r) \/ Reap(r)
  \/ \E u \in Users : WebStep(u)
  \/ Tick

Spec == Init /\ [][Next]_vars

(* The event loop keeps running the scheduler's coroutine, the server ends   *)
(* the sessions of closed sockets, and time passes.  A statement on a dead   *)
(* session does fail (StatementFails), so that is a step of the loop too.    *)
Fairness ==
  /\ \A r \in Replicas : WF_vars(LoopStep(r) \/ StatementFails(r))
  /\ \A r \in Replicas : WF_vars(Reap(r))
  /\ WF_vars(Tick)

FairSpec == Spec /\ Fairness

-----------------------------------------------------------------------------
(* Properties.                                                               *)

(* Every variable keeps its type: the loop's program counter, session state  *)
(* and snapshot, the rows of user_pages and task_logs, the lock table.       *)
TypeOK ==
  /\ clock \in Nat /\ edits \in Nat /\ faults \in Nat
  /\ config \in [Pages -> Config] /\ want \in [Pages -> Config]
  /\ log \in Seq(LogRow)
  /\ held \subseteq Replicas \X {"cur", "old"}
  /\ rep \in [Replicas -> Loop]
  /\ draft \in [Users -> [open : BOOLEAN, page : Pages, cfg : Config]]

(* Two replicas that both still have a database session are never both       *)
(* between a granted try_advisory_lock and its release: whatever sessions    *)
(* die, leak or are reaped in between, at most one can read tasks or write.  *)
MutualExclusion ==
  \A r, s \in Replicas :
    InPoll(r) /\ Live(r) /\ InPoll(s) /\ Live(s) => r = s

(* When nobody edits pages, the schedules a replica with a live session      *)
(* still has to run, or has not yet stamped, are those in user_pages: so the *)
(* run_count + 1 and the last_run check computed from the snapshot are never *)
(* computed from a stale one.                                                *)
SnapshotFresh ==
  \A r \in Replicas : InPoll(r) /\ Live(r) =>
    /\ \A t \in rep[r].todo : t.cfg.schedule = config[t.page].schedule
    /\ rep[r].pc \in {"exec", "record", "handler"} =>
         rep[r].cur.cfg.schedule = config[rep[r].cur.page].schedule

LogsOf(p) == {i \in DOMAIN log : log[i].page = p}

(* run_count counts runs: it is at least the number of runs of the page that *)
(* have a result in task_logs, and at most the number that were started; no  *)
(* increment is lost between replicas.                                       *)
RunCountExact ==
  \A p \in Pages :
    /\ Cardinality({i \in LogsOf(p) : log[i].status # "running"})
         <= config[p].schedule.runCount
    /\ config[p].schedule.runCount <= Cardinality(LogsOf(p))

(* What the 55 s check does guarantee: a run that was stamped is never       *)
(* followed by another run of the page whose poll is less than SkipWindow    *)
(* after the stamp, whichever replica polls.                                 *)
SpacedRuns ==
  \A i, j \in DOMAIN log :
    i < j /\ log[i].page = log[j].page /\ log[i].stamp # Never =>
      log[j].at - log[i].stamp >= SkipWindow

(* Together: however replicas follow each other, a schedule is stamped from   *)
(* what is stored, its run_count counts runs, and they keep their distance.  *)
RunsCounted == SnapshotFresh /\ RunCountExact /\ SpacedRuns

(* "Skip if already ran this minute": no page has two runs for one minute.   *)
OncePerMinute ==
  \A i, j \in DOMAIN log :
    i # j /\ log[i].page = log[j].page => Minute(log[i].at) # Minute(log[j].at)

(* Only the web tier changes the keys of a config other than schedule: each  *)
(* page has the content its last web write gave it, although update_task_run *)
(* writes from a snapshot taken before the task ran.                         *)
ContentKept == \A p \in Pages : config[p].content = want[p].content

(* What a user last asked for stays: a schedule that was disabled, removed   *)
(* or changed is not brought back by the scheduler.                          *)
ScheduleKept ==
  \A p \in Pages :
    /\ config[p].schedule.cron = want[p].schedule.cron
    /\ config[p].schedule.enabled = want[p].schedule.enabled

(* Row i of task_logs belongs to the run its replica is at.                  *)
UnderWay(i) == Executing(log[i].by) /\ rep[log[i].by].id = i

(* A row of task_logs says "running" only while its replica is at that run.  *)
NoOrphanLog ==
  \A i \in DOMAIN log : log[i].status = "running" => UnderWay(i)

(* The run of row i was left without a result because its expression matched *)
(* when the poll read it and could not be scanned when the run was recorded. *)
Unscannable(i) ==
  /\ ~UnderWay(i)
  /\ \E t \in log[i].at..clock : NextRunRaises(log[i].cron, t)

(* In a database that works, that is the only way for a row to stay          *)
(* "running": a flow that raises, or is a failure, is given its result.      *)
OrphansUnscannable ==
  \A i \in DOMAIN log :
    log[i].status = "running" => UnderWay(i) \/ Unscannable(i)

WriteBlocks(p) == {k \in DOMAIN Flow[p] : Flow[p][k] = "write"}

(* A run logged as a success committed every insert and notify block of its  *)
(* flow, once each; any other run committed at most that.                    *)
SuccessIsComplete ==
  \A i \in DOMAIN log :
    LET n == Cardinality(WriteBlocks(log[i].page)) IN
      /\ log[i].writes <= n
      /\ log[i].status = "success" => log[i].writes = n

(* Together, for one loop whose flows raise in Python only: task_logs tells   *)
(* what ran, once a minute, what is still running (but for the expressions   *)
(* that cannot be scanned) and what succeeded.                               *)
RunsLogged == OncePerMinute /\ OrphansUnscannable /\ SuccessIsComplete

(* A lock that is held is given back, also after a poisoned transaction made *)
(* the unlock fail and left the connection open: then the next poll drops    *)
(* it.  (Nothing is said of a next poll that lies beyond the bound.)         *)
LockReleased ==
  \A r \in Replicas : \A k \in {"cur", "old"} :
    <<r, k>> \in held ~>
      (<<r, k>> \notin held \/ (At(r, "sleep") /\ rep[r].wake > MaxClock))

(* Every run that was logged as started gets its result, unless its          *)
(* expression cannot be scanned when the run is recorded.                    *)
RunsFinish ==
  \A i \in 1..MaxClock :
    (i \in DOMAIN log) ~>
      (i \in DOMAIN log /\ (log[i].status # "running" \/ Unscannable(i)))
=============================================================================
