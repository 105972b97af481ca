# CueStack in TLA+

Specifications of the parts of CueStack (a multi-tenant IoT platform: a Next.js web tier, a
FastAPI backend, PostgreSQL, ClickHouse, a Mosquitto broker) in which several actors share
state: what each part promises, what the model checker finds of it on small instances, and what
is proved of it for every size. Paths are relative to the repository's root; `backend/...` and
`frontend/...` are directories of it.

Every definition is translated from the code. Operator names follow the code's names; comments
name the function a group of definitions stands for, and `PROJECT.json` ("map") gives the lines.

## The system and its parts

| part | state | operations | who else touches it |
|---|---|---|---|
| Scheduler (`backend/scheduler.py`) | one loop per backend replica: poll snapshot, current task, log id; in PostgreSQL the schedule key of `user_pages.config`, `task_logs`, one advisory lock | poll, lock, fetch, run the blocks of a page, write back the schedule, log, unlock | other replicas (lock, rows), the web tier (writes whole configs), PostgreSQL (ends sessions) |
| Cron (`scheduler.py`, `frontend/app/api/tasks/route.js`) | none; a scan over minutes | match an expression, find the next run | the task list predicts what the scheduler does |
| Channel hub (`backend/channels.py`, WebSocket and HTTP handlers of `backend/main.py`) | `_subscribers`, `_connections`, `_recent`, one coroutine per socket and per publish | subscribe, unsubscribe, disconnect, publish, replay | coroutines interleave at every await; the MQTT bridge thread posts publishes to the loop |
| MQTT bridge (`backend/mqtt_bridge.py`) | its subscription to `org/#` | forwards each message into the hub | the broker also delivers what the hub itself forwarded |
| Batch buffer (`backend/channels.py`) | `_batch_buffer`, a lock, a timer task, POSTs in progress | buffer, flush when full, flush every second | every publish; ClickHouse may refuse or be slow |
| Service manager (`backend/service_manager.py`) | `_processes`, script files, the children; `service_status` of the page configs | poll, start, restart on changed code, revive, mark, stop | tabs of the page's owner write the same configs; uvicorn reloads the process; children die |
| Custom blocks (`api/blocks`, `lib/flow-blocks.js`, `block_engine.py`) | rows of an organization; in each browser the palette; in each backend a registry for all organizations | make, change, delete, load, run | flows that use a block, other organizations, restarts |
| Block engine (`backend/block_engine.py`) | none of its own | sort a flow, run it; nothing calls it | nobody |
| Pipelines (`backend/blocks`, `pipelines.py`) | the context of one request | validate, transform, store, query | nobody |
| Tokens and broker ACLs (`backend/mqtt_dynsec.py`, `frontend/app/api/channels`) | `channel_tokens`, the broker's clients and roles | create, disable, delete, each with a best-effort call to the broker | concurrent requests, a lossy synchronisation |
| Pages, sidebar, pins (`api/pages`, `api/pins`, `layout.js`, `lib/user-context.js`) | `user_pages`, permissions `app.<slug>`, pin lists in `org_configs`; in each tab the tree it shows and the refreshes under way | create, clone, move, delete, publish, pin, reload | several tabs, each with what it loaded |
| Dashboard editor (`my/[id]/page.js`) | the page's config; in each tab the widgets, their data, the open form, requests in both directions | edit, drag, configure, save, cancel, share | tabs of the owner, answers that arrive in any order |
| Notebooks (`my/[id]`, `api/notebooks`) | content in the page's config, a file in the user's Jupyter volume, a server that starts | open (push), autosave, save and close (pull, delete), view | two tabs, a server that is down |
| Visual flows (`flow-canvas.js`, `my/[id]`, `api/flow`) | nodes, wires, results of runs in the browser; the stored flow | draw, save, sort, run, schedule | the dialogs beside the canvas, overlapping runs |
| Live views (`-/channels`, `LiveWidget`) | the list of channels, one socket each, the messages kept | connect, switch, disconnect, create and delete channels | late events of sockets that close |
| Widgets and viewers (`api/dashboards`, `api/public`, `a/[slug]`, `d/[slug]`) | none; what a view shows of a table | load, refresh | rows that are inserted |
| Shared and published pages (`api/pages`, viewers) | visibility, shares, addresses | share, publish, rename, list, open | a sidebar loaded earlier |
| Roles, permissions, users (`lib/permissions.js`, `api/roles`, `api/users`, `api/permissions`) | rows of four tables | replace by delete and insert, several statements without a transaction | concurrent requests, lost connections |
| Sessions and login limit (`lib/auth.js`, `middleware.js`, `lib/user-context.js`) | failed attempts, the cookie of a browser, what a tab has seen | log in, log out, redirect | tabs that share the cookie, accounts deleted meanwhile |
| API keys (`lib/api-key-auth.js`, `api/keys`, the form) | key rows, counters in the memory of each process | look up, count, accept or refuse; create, switch, delete | several processes, restarts |
| Org files (`lib/org-files.js`, `api/files`) | a directory tree in `org_file_entries`, blobs in a store | mkdir, upload, share, move, delete | concurrent requests of the organization's users; crashes |
| Org tables (`lib/org-tables.js`, `api/tables`, `databases/[id]`) | generated SQL tables and their registration; on the page what is shown, selected, edited | create, drop, insert, delete; sort, filter, page, select, edit | concurrent requests, answers that arrive in any order |
| Organizations, settings, deployment | - | CRUD and rendering | - |

What makes it hard: two replicas and one lock whose lifetime is a database session; transactions
that are aborted and never rolled back; an event loop that suspends in the middle of an
iteration over a set that other coroutines change; read-modify-write of whole JSON configs by
browser tabs and background loops; child processes that outlive the table that knows them;
best-effort calls; handlers of several statements without a transaction; pages that send and
receive while their user goes on, and keep what they loaded. `PROJECT.json` lists each of these
at its line ("hazards") with the properties that cover it.

What makes each part correct, in one line each:

- Scheduler: one replica at a time, each run logged to its end, runs of a page apart, nothing a
  user wrote lost.
- Cron: the scan returns the first match; both tiers read an expression alike.
- Hub: the registry's two halves agree; a publish reaches whoever stayed subscribed; replay and
  live messages leave no gap; no circulation through MQTT.
- Batch buffer: each event inserted at most once and settled at last.
- Service manager: the processes that run are those that are flagged, with the code that was
  saved.
- Org files: the entries are a tree; what is listed is stored; the storage limit holds up to
  concurrent uploads; every request ends.
- Tokens: once requests are answered, the broker allows what the rows grant.
- Accounts: roles and users have what the last form said; what counts is what is listed.
- Sessions: the limit holds up to attempts side by side; redirects end where the user belongs.
- API keys: no more than twice the limit in any window's length; a key grants what its form
  shows.
- Org tables: what is registered is there, with its columns and rows; the page acts on what it
  shows.
- Pages: every page is reached in the sidebar; pins and tree agree with the answers given.
- Editors: what was edited is what is saved, shown and run, whatever arrives meanwhile.
- Viewers: what is listed opens, and widgets tell the truth about their rows.

## Modules

Composition is by sharing tables: the modules that write `user_pages` each contain the writes of
others that matter to them (`Scheduler` and `ServiceManager` those of the web tier, `FlowCanvas`
those of the dialogs on the same page).

| module | models | extends / instances |
|---|---|---|
| `Scheduler` | the loops, lock, log, flows, write-back and the web tier's edits | - |
| `MCScheduler` | cron tables and flows for TLC | `Scheduler` |
| `SchedulerProofs` | types, mutual exclusion, content, the log and the run counters | `Scheduler`, TLAPS |
| `Cron` | the two matchers and the scan, on a calendar of given lengths | - |
| `MCCron` | the dialog's presets, custom and malformed expressions | `Cron` |
| `Channels` | hub, handlers, HTTP publish, bridge | - |
| `MCChannels` | symmetry | `Channels` |
| `ChannelsProofs` | types, registry, no ghosts, delivery, one echo | `Channels`, TLAPS |
| `EventSink` | abstract: events are accepted, and stored or given up, at most once | - |
| `EventBatch` | buffer, flushes, timer, POSTs | `Sink == INSTANCE EventSink` |
| `PartsProofs` | the scan returns the earliest match, the matchers agree; the buffer's bound, the refinement of `EventSink` | `Cron`, `EventBatch`, TLAPS |
| `ServiceManager` | the manager, the children, the tabs | - |
| `Files` | the tree, the store, the requests of an organization's users | - |
| `FilesProofs` | the tree, listed files and their blobs, the quota; a notebook's content | `Files`, `Notebooks`, TLAPS |
| `Tokens` | token rows, the calls of the web tier, the commands of the replicas, the broker | - |
| `MCParts` | `Cron`, `EventBatch`, `Files` and `Tokens` in one instance for TLC | `MCCron` and the others |
| `ServiceManagerProofs` | types, edits are kept, reloads alone lose children, children run their file | `ServiceManager`, TLAPS |
| `Accounts` | roles, permissions and users, their handlers statement by statement | - |
| `Logins` | the login and its limit, the cookie, middleware and redirects | - |
| `ApiKeys` | keys, the limiter of each process, the form | - |
| `OrgTables` | tables and their registration, statement by statement | - |
| `TablesProofs` | the registry agrees with the tables; what screens show is there | `OrgTables`, `Screens`, TLAPS |
| `TablePage` | the page of one table | - |
| `PageTree` | pages, pins and the sidebars of tabs | - |
| `PagesProofs` | the tree of pages, pins, what tabs show; dashboards and live views | `PageTree`, `PageEditor`, `LiveView`, TLAPS |
| `PageEditor` | a dashboard open in several tabs | - |
| `Notebooks` | a notebook page and its file in Jupyter | - |
| `LiveView` | the channels page and a live widget | - |
| `Widgets` | a widget's data and the views that draw it | - |
| `PageViews` | lists, addresses and what they open | - |
| `FlowCanvas` | the canvas, its runs and saves | - |
| `CustomBlocks` | blocks, palettes, flows that use them, the registries of the backends | - |
| `Screens` | `TablePage`, `Widgets`, `PageViews`, `CustomBlocks` and `FlowCanvas` side by side, with what they promise together | instances of the five |
| `AccessProofs` | keys' limiter and form, broker and token rows, logins, what roles and users are given | `ApiKeys`, `Tokens`, `Logins`, `Accounts`, TLAPS |
| `MCWeb` | the thirteen modules above in one instance for TLC | `PageTree`, `PageEditor`, `LiveView`, `Notebooks`, `ApiKeys`, `Logins`, `OrgTables`, `Accounts`, `Screens` |

### Scheduler

A step is one SQL statement or the code between two of them. `rep[r]` is the loop's local state:
where it is (`pc`), the state of its session (`sess`), the snapshot of tasks still to do, the
task it runs and its log id. `held` holds database sessions, not replicas: a session that
outlives its connection object (the code leaks it when a poll ends by an exception) keeps the
lock as `<<r, "old">>` until PostgreSQL reaps it (`Reap`, the one external action). A statement
that fails aborts the transaction; every later statement of the session then fails too, which is
how `release_advisory_lock` can silently not release. Blocks are abstracted to what they do to
the connection: query, insert and commit, compute, check a notebook. The faults (a block raises
in Python, a statement fails, the session drops, the process crashes) are chosen by `Faults` and
bounded by `MaxFaults`. Web requests are a read and a later write of the whole config
(`ReadConfig`, then `ToggleTask`, `RemoveSchedule`, `SaveSchedule`, `SavePage`). Cron
expressions are the sets of minutes they match (`CronMinutes`; `Cron` says which) and at which
their evaluation raises (`CronRaises`): a list is read from the left, so `0,x * * * *` matches
at minute 0 and raises at all others. The loop evaluates the poll's minute (`MatchRaises`, outside
the try of a task); update_task_run scans the minutes after it (`NextRunRaises`, before it
writes), raises again in the except branch, and that exception is swallowed (`UpdateRunFails`).

### Cron

Fields are sequences of parts, numbers are tokens with the value that Python's `int` and
JavaScript's `parseInt` give them (none, for `int` of junk, which raises; NaN in JavaScript,
which matches nothing). The calendar's lengths are constants, so TLC runs hours of 4 minutes and
days of 3 hours: a field is a set of residues, and the presets' lists, ranges and steps all
occur. The week keeps its seven days, because the mismatch of weekday numberings is about them.

### Channels

A step is what runs between two awaits that can suspend. `subscribe`, `unsubscribe` and
`disconnect` contain none, and the database calls are synchronous. `publish` awaits each send:
`task[t]` keeps the set iterator (what is left, the size it remembers, whether the set changed
since). Python raises RuntimeError when the size differs at the next step of the iteration, and
may yield any present member when the set changed but has its old size; both are modelled. A
WebSocket client that publishes runs the publish in its own handler, so the exception ends the
handler. `broker` is a set of messages: delivery to the bridge may be reordered.

### EventBatch and EventSink

Events are numbered as they are published; time is kept in ages and countdowns. An age stops
growing where no property can tell it apart (`Older`). The lock of the buffer is never held
across an await, so each critical section is one step. `EventBatch` implements `EventSink` with
pending = everything published and not settled.

### ServiceManager

A poll reads the flagged rows once (`Poll`) and then works from that snapshot, a page at a time;
a step ends where the code calls the database. `proc` is `_processes`, `script` the files on
disk, `stray` the live children no entry knows. A reload of the backend counts as `ReloadCost`
edits, a bound that keeps the run of both within reach. The pages outlive the backend, so the
initial states have every combination of flags and codes. Tabs keep the config they loaded and
write it back whole, changed in one place. `Outcomes` says how a start ends: a child, no code, a
failing Popen, or an exception from the generator. The program a flow generates, what a child
prints and the version counter of a config are abstract.

### Files

A request is a sequence of awaited statements and file operations; `req[u]` says which comes
next and what was read. Ids come from a counter and name the blob as well (the code draws both
at random). `Walk` is one round of the loop in `moveEntry`, `Place` the UPDATE after it.
`deleteEntry` calls itself, so a deletion keeps a stack of frames: the entry, what is next, the
children still to come. `Insert` and `Place` fail on the foreign key, `DeleteRow` cascades by
it. Names, types and dates are left out, and sharing and visibility are reduced to who is an
editor, which is all that a write asks. `Crash` ends a request between any two steps.

### Tokens

A request changes the row, then calls a backend replica; the call may fail. `sync_token` runs
without an await, so a replica sends the commands of one call and takes the next, but two
replicas interleave. A deleted token is never created again (its secret is random). The broker
(`Obeys`) is external: it refuses to create what exists, to delete what does not, or to give a
role to nobody. `contested` is history: tokens for which requests of opposite ends overlapped.

### MCParts

`Cron`, `EventBatch`, `Files` and `Tokens` share no state with the others, nor with each other.
`part`, chosen by Init, is the one that runs; the others stay where they start, so the state
spaces add instead of multiplying.

### Accounts

A request is the list of SQL statements it has still to run (`serving[c].todo`), fixed by what
the client sent; `RunOne` runs one, `Break` is a connection lost before it. A loop of INSERTs is
one statement per item. `users[m]` has the roles of `user_roles` and the legacy `role_id`;
`Effective` is what `getUserPermissions` reads of both. `want` is history: what the last form
said, until requests overlap or one breaks off.

### Logins

`failed` counts failures by age in `Ages`; the login reads the count, verifies, and records or
resets, with other logins between the steps. A browser has one cookie and several tabs. A tab is
waiting for the middleware, which believes the token, for `api/auth/me`, which asks the
database, or for its user; `hops` counts redirects since somebody acted or that call failed.
`MeFails` is the failing call: the shell of the organization's pages goes to the login page
whatever the cookie (user-context.js:28), `/super` stays without a user (`blank`). `RefreshUser` is
the shell asking again after a change.

### ApiKeys

`Lookup` reads the row of a key, `Authenticate` counts the call and accepts or refuses it, with
`CheckRate` as the limiter (a window that begins with its first call). Counters are per process
and lost on `Restart`. `accepted` is history: when calls were accepted. `draft` is the form's
list of grants, `Toggle` its buttons.

### OrgTables

`real` has the generated tables, `registry` their rows in `org_tables`; requests are lists of
statements as in `Accounts`. Handlers look a table up by id and then work by its name, so a
table dropped and created again under that name is hit by a late request. `RegisterFails` is a
registration that is refused when its table is there already: for a name that is taken, or for a
description or db_type longer than its column (db.js:177-179), which leaves the table behind.
`OthersInsert` are rows that come past the handlers: from insert blocks of scheduled flows
(scheduler.py:309-341, committed as a whole), from generated services (service_manager.py:270)
and from notebooks, whose database user may INSERT. None of them stores `row_count`. `torn` and
`adrift` are history: names on which requests met or broke off, and whose count others have left
behind. Names stand for distinct generated tables; `weather_live` is not one of them, because
services/data_processor.py:80-99 makes a table of that name without a registration.

### TablePage

`view` is what the page is set to, `shown` what it shows, `fetches` and `writes` what is under
way, answered in any order. The filter, the sort and the page number are those of
`queryDataAdvanced`. `Others` are writes of other clients. `Received` is what the form gets of a
stored value (a Date of whole milliseconds, null for NaN), `Convert` what it makes of it on
saving; `HandleSubmit` has the browser's check of required controls. Kinds of columns are those
that are converted each in its way; dates are left out, since what becomes of them depends on the
time zone of the server.

### PageTree

A request is a sequence of statements (`sent[t].at` says which comes next); a tab has one, and
any number of refreshes (`side[t].loads`), each answered at once from the tables (`Answer`) and
shown in any order (`SetState`). What a tab asks for is among what it shows, which may be old.
Deletion is three statements, publishing two, pins a read and a write.

### PageEditor

`row` is the stored page, `open[t]` what a tab has of it: the loaded page, the edited config,
the form, the data of its widgets. Requests and answers of a tab (`patches`, `save`, `loads`)
overlap. A widget is its number and how often it was configured, so that stale data is told from
fresh. `trusted` is history: the tabs whose last load started when no other was under way, and
that have not cancelled an edit since. Cancelling restores nothing: the edited widgets stay on
the screen, beside data of the ones before, and the load of an earlier save may still bring data
of those it saved. The latter takes five gestures (edit, save, edit, add, cancel), one more than
TLC explores, and came up in the proof.

### Notebooks

Content is a number, new with every edit. Opening is read, start the server, find the file,
push; saving is read, fetch, merge into the page, delete the file. `legacy` is the file of an
old notebook. Jupyter is external: it answers, or not, and its server may be starting or down
(`Ready`, `Fails`).

### LiveView

`socket[v]` are all the sockets a viewer has opened, in order; only the last is referred to, but
every handler runs when its event comes. `lit` is the light that says connected, `live` the
kept messages, `late` history.

### Widgets

`resolveWidgetData` over the newest rows, in hundredths (the code rounds to two digits); what
each view draws of the answer is `Shown` by its kind. Values are numbers or text that is no
number.

### PageViews

`held` are pages with visibility, shares and address; a member with one role has `lists`, loaded
at some time, and opens what it names or types an address. `view` (`address` in Screens) is what
came.

### FlowCanvas

A node is its number, type and whether it is configured. `HandleRun` sorts the graph as it is
(Kahn's algorithm, as a recursive function on the number of passes) and sends it; the answer (`SetRunResult`) is put beside the nodes
as they are when it comes. Data is the list of nodes it passed through, which tells along which
wires it went. The page around the canvas keeps what it loaded (`page`), and its dialogs write
that back.

### CustomBlocks

`block` are the rows, one per organization and type; `palette` is what a browser loaded of them,
once until its page is loaded anew; `used` the custom types in the saved flow of each
organization. A deletion is its three statements (`VerifyBlock`, `CheckFlows`, `DeleteBlock`);
`Alike` is what the LIKE of the second makes of underscores. `ExecuteBlock` is the whole of
`execute_custom_block`, which is not suspended between its load and its lookup: `psycopg2`
blocks the loop, so that requests of two organizations cannot mix there although the registry
is theirs in common. `RunsOwnCode` rests on that: with a step between the two it would fail.

### Screens

`TablePage`, `Widgets`, `PageViews`, `CustomBlocks` and `FlowCanvas` share no state and some
names, so that none could extend another. `Screens` has an instance of each, `ScreensSpec` is
their conjunction, and `ScreensHold` and `CanvasKept` what they promise; `ScreensAssumption` puts
together what they assume.

### MCWeb

The thirteen modules from `Accounts` on, each by itself, as in `MCParts`: `part` says which one
runs. The variables of the others stay as their Init has them, of which one state is picked, and
those of `FlowCanvas`, whose Init is the only one that is not used then, are `<<>>`.
The tabs are symmetric (`TabSymmetry`): nothing tells them apart, and no property of the run is
about what must happen at last.

## Runs

`MaxX` constants and the clock bound the instances; each bound is named in the module. Deadlock
checking is off only where the bounds (or single-use sockets and requests) end every behaviour.

| run | shows |
|---|---|
| `replicas` | two replicas and two tasks, one with an expression that always raises, one fault of any kind (failing statement, dropped session, crash): MutualExclusion; RunsCounted (SnapshotFresh: no replica works from an old schedule; RunCountExact: run_count counts the runs; SpacedRuns: the 55 s check spaces them); with fairness LockReleased |
| `flows` | one replica, two pages whose flows have up to two inserts, blocks that raise in Python, an expression that matches minute 0 and raises at the others, a user who edits: RunsLogged (SuccessIsComplete, OncePerMinute, OrphansUnscannable: a row stays "running" only when the write-back could not scan the expression), ContentKept; with fairness RunsFinish, with the same exception |
| `poisoned_log` (violated) | one failed statement leaves the log row running for ever |
| `schedule_edit` (violated) | a schedule disabled or removed during its run comes back |
| `parts` | Cron: NextIsEarliest, CronAgrees (FieldsDenote, TiersAgree) for all presets, custom and malformed expressions and both tiers. EventBatch: BufferHolds (InOnePlace, BufferBounded, WaitBounded), the refinement SinkSpec. Files: two users, one of whom moves entries, with a crash or failed unlink: TreeHolds (Forest, ListedIsStored, QuotaSlack). Tokens: two requests at a time, two replicas, a lost call or command: BrokerFollows. With fairness PartsEnd: events settle (EventsSettle), requests of the files end (RequestsEnd) |
| `moves_cycle` (violated) | two users who move directories at the same time close a cycle |
| `hub` | three sockets, one of which publishes, one bridge coroutine: Delivered (UndisturbedReachesAll, NoGap), RegistryAgrees, NoGhost |
| `hub_ends` | a WebSocket client, an HTTP request, a device and two bridge coroutines: EchoOnce; with fairness TasksEnd (ClosedForgotten, PublishEnds) |
| `reaches_all` (violated) | a change of the set during a broadcast breaks it off |
| `services` | a python and a visual page, edits, a fault, a reload: NoStray, ScriptIsRun, KeepsEdits; with fairness PollHonours (FlagHonoured, WantedRuns, CodeHonoured) |
| `stop_race` (violated) | a Stop during a start is overwritten with "running" by the manager. The Stop is the only edit of the run, so nothing else can bring the flag back |
| `web` | the web application, part by part. Accounts: GrantsAsAsked (RoleAsAsked, MemberAsAsked, ListedAreEffective), KeepsARole. Logins: SessionsHold (LimitSlack, FewRedirects, AtHome). ApiKeys: KeysHold (TwiceTheLimit, FormGrants). OrgTables: RegistryExact (SchemaAgrees, CountExact). PageTree: Reachable, SidebarHolds (PinLimit, PinsAsAnswered, CaughtUp). PageEditor: EditsHold (WidgetsKept, DataFollows, SharingShown). Notebooks: NotebooksArrive (ContentArrives, NoCopyLeft). LiveView: LiveTells (OneSocket, OnlyLive, ViewBounded, LightTells, ListSettles). Screens: ScreensHold (of TablePage SelectedShown, ShownIsAsked, UntouchedKept; of Widgets ChartInOrder, SameShown; of PageViews ListedOpens, AddressReaches; of CustomBlocks RunsOwnCode, UsedIsThere). FlowCanvas and Widgets: ResultsTold (RunsInOrder, BadgeIsOwn, ChainTakesWires; StatTrue). FlowCanvas: CanvasKept |

Properties that are asked of one instance together are conjunctions of named parts (in
parentheses), each stated and commented where it is defined.

The violated runs are disagreements between the code and what its own comments, documentation or
user interface say; `PROJECT.json` ("findings") quotes each.

Why the bounds are enough. The scheduler's hazards need two replicas (one to hold or lose the
lock, one to take it) and two minutes: a poll, a second poll in the same minute, one in the
next. In `flows` a minute has three ticks and the window two, which keeps the code's proportion
(55 s of 60): there is a tick of the same minute outside the window; its second minute is the one at which the
expression `part` raises, in a poll and in a write-back. `replicas` has minutes of
two ticks and a window of one, the smallest with that tick, since it pays for the second
replica, the second task and the fault. One fault is enough for "fails while another replica
waits"; the statements that fail because a transaction is already aborted are no new fault, so
"fails, and fails again while handling it" is in it. The hub's runs need a publisher, a
subscriber already served and one not yet served, and a change between two sends; a buffer of
one recent message overflows at the second publish. The batch buffer is filled twice by four
events at two per batch. Three entries are enough for a chain of two directories with a file at
its end, for an upload into a directory that is being deleted, and for a cycle that does not
touch the moved entry's own parent. One change (a move or a new editor) and two users give every
pair of requests that meet on an entry; the file size equals the limit, so the second upload is
the one too many. One token is enough, since no two share anything at the broker; four requests
create it, switch it twice and delete it. The manager needs two pages (one that fails, one that
waits for the stop phase), one tab (the tab's own stale state against the manager's), and codes
of three kinds: none, a plain one, and an odd one on which the generator raises or which does
not read back from the file as it was written.

For `web`: two clients, tabs or processes of each kind wherever two meet, and one resource for
them to meet on. Accounts: a member and the super admin, two requests of any kind and one lost
connection, on one permission of the organization's own and the one that lets a role manage
others. Logins: two tabs, three logins at a limit of one failure, so that the second is the one
too many, one tick, with which the rows leave their window, three users (super admin, member, one
of no organization). Keys: a limit of two, and time for three windows one after the other, since
the fifth call is the first that could be one too many. Org tables: two clients, three requests (or inserts
of others), one name, so that a table can be dropped and made anew under a request; the columns
include one the table has anyhow. Table page: pages of
one row and up to three records, so that there is a next page and it may empty. Sidebar: two
pages, two tabs, four actions (make both, fill the folder, delete it), two refreshes of a tab at
a time, and one pin, so that the second is the one too many. Editor: two tabs, two widgets, four
gestures (add, configure, save, remove), two requests of a tab. Notebooks: two tabs, five turns
(open, type, close, and open again), one outage. Live views: two channels, two sockets of a
viewer, lists of one message, so that the second overflows. Widgets: three rows with a limit of
two. Views: two pages and two addresses, one edit after the list was loaded. Canvas: three nodes
and three wires, the least that can close a cycle beside a chain, two gestures between a run and
its answer, a run and a save. Custom blocks: two organizations with one type in common, one
backend, and six steps, as many as it takes for one to register its block over the other's and
the other to run again; the second type has a name that the LIKE of the first matches.

## Disagreements beside the violated runs

Seen while modelling, and in the models unless said otherwise; no property claims the contrary.

- Two replicas can run a page twice in one minute: the 55 s comparison is made with the last
  write-back, so OncePerMinute is stated, and holds, for one loop.
- A run whose expression matches now and raises at a later minute that the scan of cron_next_run
  reaches (`0,x * * * *`; scheduler.py:199) is neither stamped nor given a result, with one
  replica, no fault and a sound database: its row stays "running", and update_task_run of the
  except branch (line 513) cannot help, since it scans again. OrphansUnscannable and RunsFinish
  except just those runs. Since `last_run` is not stamped either, nothing but the poll interval keeps
  such a run from being started again in its minute.
- A replica whose session died executes the rest of its snapshot beside the new holder of the
  lock. MutualExclusion speaks of live sessions only.
- Weekday fields: Python's `weekday()` starts at Monday = 0, cron and JavaScript at Sunday. The
  preset "Weekly (Monday)" runs on Tuesdays, and the task list predicts Mondays. TiersAgree
  leaves expressions that name a weekday out.
- An event can wait in the batch buffer for longer than the flush interval, because the flush
  loop awaits its own POST; WaitBounded gives the bound that does hold.
- A page on which the generator raises ends every poll of the service manager before the
  remaining pages and the stop phase; the liveness properties assume that no such page stays
  flagged (`Generable`).
- A reload of the backend leaves the children of the old process running without an entry in
  `_processes`; NoStray counts them.
- A Save of the editor writes the config as the tab loaded it, with its code changed
  (my/[id]/page.js:1248-1252): one that follows a Stop in the same tab, before the tab has loaded
  the page again, flags the service again (in the model; FlagHonoured speaks of the row only).
- Code with carriage returns never equals what is read back from its file, so the child is
  restarted in every poll (in the model; no property forbids it).
- Two moves under way at once close a cycle (`moves_cycle`); the next walk into it would not
  end. Forest and RequestsEnd are checked, and Forest is proved, for one mover.
- The storage limit is exceeded by uploads that are checked together: QuotaSlack bounds by how
  much. A blob whose INSERT fails, or which a deletion fails to unlink, or which is uploaded
  into a directory while that is deleted, stays in the store without a row.
- Enabling a token sends no permissions, which the broker takes as both: a token restricted to
  subscribing may publish after it was disabled and enabled. BrokerFollows asks that it may do
  at least what it was granted.
- A lost call is not repeated, and of a call to enable and one to delete or disable that overlap
  the later one at the broker wins, whatever the row says: BrokerFollows leaves both out.
- Saving a schedule on an open flow page writes the config as it was loaded, so the flow saved
  from the canvas since is undone (`FlowKept` does not hold; my/[id]/page.js:273-275). The share
  list is written back from the loaded page likewise (:208-210). The same dialog on a notebook
  page writes its content back as loaded, which `Notebooks` leaves out.
- Opening a notebook while its server starts pushes nowhere and shows an editor without a
  document: api/notebooks/route.js:47 says "If 202, server is still starting", line 43 takes 202
  as running (`OpenedHoldsContent` does not hold). Viewing an empty notebook page pulls and
  deletes the file of an open editor; notebook pages of one name share a file.
- The version of a config is the loaded one plus one, so two saves may carry the same
  (`VersionGrows` does not hold); Cancel in the dashboard editor leaves the edits on the screen.
- Deleting one of two pages published under one slug takes away the other's permission
  (`PublishedGuarded` does not hold), and of two such pages the address opens the first in the
  list.
- A page shared with a role is listed to its members, but GET checks users only and answers 403
  (`SharedOpens` does not hold; api/pages/[id]/route.js:17-19).
- A user without a selected role keeps what the main role grants, though the form says that
  permissions are the union of all selected roles (`UnionOfSelected` does not hold). A role that
  is main role to someone cannot be deleted, one that is held through `user_roles` can.
- A user who was deleted but has a valid token is sent back and forth between page and login
  without end; auth.js:12 and middleware.js:5 have different default secrets. FewRedirects and
  AtHome except both. A tab whose call of api/auth/me fails goes to the login page and, if its
  cookie is sound, is sent back by the middleware, again and again while the call keeps failing
  (user-context.js:28-31): FewRedirects counts from the last failure on.
- Dropping and creating a table of one name at the same time can drop the new one or leave a
  registration without a table; columns named like the table's own (id, org_id, created_at) fail
  half way; a failing row leaves those before it inserted and uncounted; `row_count` is not
  reduced by deletions. SchemaAgrees and CountExact except names where requests met or broke
  off. A table whose registration is refused for a description that is too long stays
  unregistered, and a later create under its name keeps its columns (org-tables.js:104-122):
  SchemaAgrees excepts the name until it is dropped.
- Rows that the scheduler's flows, generated services or notebooks insert are in no `row_count`
  until the next insert through the API counts them (scheduler.py:333-339): CountExact excepts
  the name until then.
- Saving the form of a record changes columns nobody touched: an object in a JSON column is
  emptied (databases/[id]/page.js:313), a bigint above 2^53 is rounded (it comes as text and goes
  through parseInt, :310), a timestamp loses its microseconds in a JavaScript Date, NaN becomes
  null. UntouchedKept excepts just these and empty text.
- Moving pages by API alone (pages/[id]/route.js:126) closes cycles, in which layout.js:84 walks
  for ever: Reachable is of what sidebars ask for. Ids of deleted pages stay in the pin lists
  and count against the limit. Overlapping pin requests lose a pin; overlapping refreshes may
  leave the older on the screen (PinsAsAnswered, CaughtUp except both). A list whose request
  fails is shown as an empty one (user-context.js:14-16; not modelled).
- A live view that is connected to another channel is hidden by the late close of the old socket
  (channels/page.js:111); a live widget opens a socket per keystroke in its form.
- A flow whose wires close a cycle is run without the nodes of the cycle and says nothing; data
  goes along the order of the list, which for a flow that is not a chain is not that of the
  wires (ChainTakesWires asks it of chains); results of blocks without one (notify without a
  title) shift the badges of those after them (BadgeIsOwn excepts such blocks); a new visual
  page has no nodes key in its config, and each render empties its unsaved canvas (CanvasKept
  speaks of pages that have one).
- A stat counts the newest 100 rows at most, and the least of no numbers is Infinity (StatTrue
  is of tables within the limit, with a number); the public viewer of dashboards reads another
  key than the editor writes, and shows no widgets (SameShown is of the organization's views).
- A custom block that an organization does not have, or no longer has, runs all the same where
  another one registered the type, or the backend did before it was deleted or switched off:
  main.py:489 says "not found for this org", but the registry is everyone's and is never emptied
  (`OwnOnly` in `CustomBlocks` does not hold). A flow can take up a block from a palette loaded
  before its deletion; UsedIsThere excepts it. The underscores of a type match any character in
  the LIKE of the deletion, which refuses some that could be made.
- No pipeline can be created: `pipelines.py` passes an argument to StoreBlock and QueryBlock,
  which take none, so each request to one ends in a TypeError (not modelled).
- A child whose stdout pipe is full blocks for ever (not modelled).

## Fairness

- Scheduler: weak fairness of each loop (the event loop resumes a coroutine whose statement
  returned, and a statement on a dead session does return with an error), of the reaping of
  closed sessions, and of time. Not of web requests, not of faults.
- Hub: weak fairness of each publish and of each handler that has something to do; none of the
  clients, which need not close, publish or subscribe.
- Batch: the event loop runs what is ready, the timer fires, a POST ends within its timeout
  (httpx's 30 s).
- Files: weak fairness of each user's request while it is under way: an awaited call returns or
  raises. Not of the arrival of requests. Tokens: none.
- Web: none. Its properties are safety properties: what a user sees at rest is stated of the
  states in which nothing is under way.
- Service manager: weak fairness of the manager as a whole. Its loop catches every exception,
  sleeps 15 s and polls again, and every call in it returns or raises. None of the tabs and none
  of the children.

## Proofs

Eight modules hold proofs that `tlapm` checks to the last leaf, for every value of the constants
allowed by the modules' assumptions. TLC evaluates those on the instances: `TimeAssumption`,
`DataAssumption`, `ScanAssumption`, `CalendarAssumption`, `ExprsAssumption`, `HubAssumption`,
`NamesApart`, `ServiceAssumption`, `KeysAssumption`, `AccountsAssumption`, `PinsAssumption`,
`LiveAssumption`, `TablesAssumption` and `ScreensAssumption` where they are declared; `BatchAssumption`, `FilesAssumption`, `TokensAssumption` and
`LoginsAssumption`, of modules that are instantiated, are hypotheses of the theorems, and
`MCParts` and `MCWeb` assert them of their instances. A theorem that needs more of the constants says so in its ASSUME. The invariants below were
checked by TLC on small instances before they were proved.

### SchedulerProofs

- `TypeCorrect`: TypeOK is not inductive by itself, because `log[id]` must be in the log to be
  updated; `TypeInv` adds `RunLogged`.
- `MutualExclusionHolds`: the lock table is stated in sessions and the property in replicas, so
  `LockInv` ties them: at most one session holds the lock, a replica in a poll with a live
  session is the holder with its current session, and a replica without a session holds nothing.
- `ContentKeptHolds` follows from the steps alone: no step but the web tier's writes touches
  another key, and those set the history together with the row.
- `RunsCountedHolds`, for schedules that nobody edits (MaxEdits = 0): a web request writes the
  whole config back, counters included, and the run `Scheduler_schedule_edit` shows what that
  does. `RunInv` follows a run from its log row to the write-back, of which at most one is under
  way, because the lock excludes a second one (`LockInv`).
- `SuccessIsCompleteHolds`, for all faults: `WorkInv` says that a run at block k of its flow has
  committed the write blocks before k, and a run about to be recorded as good all of them.
- `RunsLoggedHolds`, for one replica whose blocks raise in Python and whose database works
  (Replicas = {r}, Faults within {"raise"}): the promise of the try blocks around a task. With
  failing statements it is wrong, as `Scheduler_poisoned_log` shows. `OneInv` says that a row still
  "running" is that of the run under way or one whose write-back raised at some moment since its
  poll (`Failed`), that the run under way has the expression its row was started with, and that polls, hence the runs of a page, are a poll
  interval apart.

### PartsProofs

Two parts of the backend, in one module. `Cron`:

- `NextIsEarliestHolds`: the invariant says that every minute the scan has passed did not match,
  and that the candidate and the remaining count add up to the horizon.
- `CronAgreesHolds`: a fact about data, not about steps. `StepIs` shows that the remainder finds
  just the values a whole number of steps from the base, `PartIs` and `FieldIs` that either
  tier's matcher answers with what a well-formed part or field denotes, and so both answer the
  same. `ExprsAssumption` says what numbers are: what int reads of digits, parseInt reads as the
  same number.

`EventBatch`:

- `BufferHoldsAlways`: the buffer stays below its size because an entry is appended and the
  buffer flushed, if full, within one step; and an event is in one place, in the buffer, in a
  flush under way, stored or given up.
- `SinkHolds`: `EventBatch` implements `EventSink`. Every step maps to a step of the abstract
  sink or to a stutter; that no event is stored twice rests on the same invariant.

### ChannelsProofs

- `RegistryAgreesHolds` and `NoGhostHolds` from `RegInv`, which adds that a handler that has
  ended is in no channel and that `task` keeps its shape; the case that needs care is a publish
  which removes dead sockets, its own among them. `TypeCorrect` is TypeOK, with the lengths of
  the queues.
- `EchoOnceHolds`: `EchoInv` says that a message is at the broker at most once, after its first
  broadcast (or, of a device, before it), and that its publisher or a bridge coroutine has it
  otherwise. Messages are named for who published them; `NamesApart` says that this is unique.
- `DeliveredHolds`: `DeliverInv` says that a broadcast nobody disturbed has each of its set either
  before it or behind it; and that a subscriber has each of its channel's last messages, or its
  replay will bring it, or a publish still sends it, was broken off or was disturbed.

### ServiceManagerProofs

- `NoStrayHolds` (a page has no more live children outside `_processes` than the backend was
  reloaded) and `ScriptIsRunHolds` from `ChildInv`; the lemma `Starting` covers every use of
  `start_service`. `TypeCorrect`: TypeOK splits into rows, manager and children, each with its
  own step lemma. `KeepsEditsHolds` follows from the steps alone: whatever is not a tab's edit
  leaves all of a row but its status.

### FilesProofs

- `ForestHolds`, with one mover: the walk reads one parent at a time while others create, share
  and delete. `RowInv` says that entries are created under existing parents with fresh ids, so
  that nothing but the mover's own UPDATE gives an existing entry a new parent; `Passed` says
  what a walk has established so far: the entries between the new parent and the place the walk
  has come to do not include the moved one; `ForestInv` adds both to Forest.
- `ListedIsStoredHolds`: the blob is written before the row, and only a deletion whose call found
  the row removes the blob, so a listed file without a blob has a deletion on its way, or
  something failed.
- `QuotaSlackHolds`: what is stored and what the checked uploads will add was within the limit
  when the last of them was checked, and each of the others adds at most the largest file. The
  sum over the rows is the model's fold over a set, of which the proof needs that it grows by
  the size of a new row: shown by a least counterexample (below).
- `TreeHoldsAlways` collects the three for the run's property.

`Notebooks`:

- `NotebooksArriveHolds`: the property is about a notebook at rest. `NbUndisturbed` says what is
  true on the way: one tab at most is at work, and each statement of its handler says where the
  content is, in the page, in the file, or read by the handler (`Opening`, `ClosingEditor`,
  `Migrating`, `Editing`). The file counts as kept only while the server is ready, since nothing
  else could push it there.

### PagesProofs

Three components, in one module. `PageTree`:

- `ReachableHolds`: the route that moves a page checks nothing of its target, so the tree is
  safe only because of what sidebars offer, and they may be old. `Knows` says that what a tab
  shows (or will show, when its refreshes come) agrees with the table on which pages are
  folders, for the pages that are still there, because ids are not used twice and a row never
  changes its kind; `Fits` says the same of a move under way. With it the UPDATE of a move puts
  a page, never a folder, into a folder.
- `SidebarHoldsAlways`: `PinInv` is about the list of pins, which every request reads, changes
  and writes back whole: within its limit, no page twice, and as the answered requests said if
  they did not overlap. `LoadInv` is about what a tab shows: once its refreshes have come, and
  no two of them overlapped, its own last change is in it. What `Without` (pins.filter) does to
  a list of any length is shown by a least counterexample.

`PageEditor`:

- `EditsHolds`: `WidgetsInv` says that what a tab edits, saves or loads has each number once and
  none that was not given out, so that the widgets of a tab are as many as its gestures left.
  `DataInv` follows the data of a tab that is `trusted`: one load under way at most, of the
  widgets it shows, unless it saves, and then of those it saves. `SharingInv` follows the last
  change of who may see the page from the request over the answer to the tab.

`LiveView`:

- `LiveTellsHolds`: `SocketInv` says which channel is lit of which socket, with every older
  socket closing or closed; on the page a closing socket is never lit, on a widget it may be
  until its event comes. `MessagesInv` bounds the list and says that it holds messages of the lit
  channel only; `ListInv` that an answer read while no other refresh is under way is what is
  stored. What prepending and cutting does to a list of any length are lemmas on sequences.

### AccessProofs

Four components that share no state, in one module. `ApiKeys`:

- `TwiceTheLimitHolds`: `Told` says what the counter of a process knows of the calls it accepted
  (those of this window it counts; of those before, at most the limit lie in the window before;
  all others are older than two windows), and with one more call each stays true, whether the
  window goes on or a new one begins. Restarts begin with nothing, and so does the history,
  since the bound is one process's own.
- `KeysHoldAlways` adds the form (FormGrants). `DraftInv` says that the list of grants which the
  clicks compose is a function of what is ticked: one entry for each table with a tick, none for
  the others (`Clicked`); what the key then opens is read off it (`FormGrantsIs`). No table is
  named `*`, which is the name of all of them: `validateTableName` (lib/org-tables.js:33) admits
  only letters, digits and underscores.

`Tokens` and `Logins`:

- `BrokerFollowsHolds`: the property is about tokens at rest and says nothing while a request is
  under way, so `TokenInv` says what is true then: while nothing was lost and no two requests of
  opposite ends met, all that is under way for a token has its row's end in mind (`Agreed`); if
  there is nothing under way, the broker follows the row (`Follows`); and what a replica has
  still to send ends in what the row says, whatever other replicas send between (`Ahead`).
- `SessionsHoldAlways`: the failed attempts of a window and the logins past the check, together,
  exceed the limit by at most the logins that run side by side (`AttemptsInv`). A tab's
  redirects are bounded by a potential, `Owes`: how many more it may meet from the path it is at
  with the cookie it has, since somebody acted or a call failed; `PlaceInv` says that of every tab, with what it waits for and has
  seen.

`Accounts`:

- `GrantsAsAskedHolds`: the property is about roles and users whom nobody is editing, so
  `AccountsInv` says what is true in the middle of an edit. What a request does is the list of
  statements it has left, of any length the forms can ask for; `Formed` is the order they keep
  (look, clear, fill, set the main role), stated by levels so that it survives the loss of the
  first statement (`HeadGone`) and the joining of two lists (`FormedJoined`). `PlanInv` says of a
  request that met no other that what it has still to do, done to the rows as they are, leads
  to what it asks for: as long as the clearing is ahead the loop has everything to insert, and
  after it what is there and what is left make up the whole. `AloneInv` keeps others out: while
  two requests edit the same thing neither is `clear`. `FitsInv` says that whom no request has
  begun to change is as the last answered one said; without "begun" it would be wrong as soon as
  the first row is deleted, without `PlanInv` it could not be regained by the last statement.
  `RequestTypes` says which rows a statement can name, and that an edit of a role or a user
  says what it asks of just those. Deletions cascade under the hands of other requests, which
  are not clear from then on (`Dropped`).
- `KeepsARoleHolds` rests on `RequestTypes`: no statement sets the main role to none, and a role
  is deleted only where no user has it as the main role.

### TablesProofs

- `RegistryExactHolds`: the property speaks of a table when no change of it is under way, so
  `TablesInv` says what is true while one is. What a request has done follows from the
  statements it has still to run, one of seventeen lists (`C3`, `C2`, ... count them down). Of
  each name that is not torn: at most one request is between its first and its last change of
  the schema (`Late`), and if there is none the registry agrees (`SchemaInv`); a late create has
  its table but no row of its own, a late deletion has its row, with or without the table
  (`Halfway`). `AloneInv` says that a request still `clear` is the only one of its name, so the
  count it read is the table's when it stores it; `CountInv` that a count which is wrong has an
  insert that will store one (`Inserts`), or the name is adrift; rows of others make it so, and no
  request on it is clear from then on (`OthersKeep`). Without `Late` the last
  statement of a create could register a table that a deletion has dropped; without `AloneInv`
  `Store` could write a count that another insert has outdated. `TablesAssumption` is all it
  assumes: generated columns are columns, and no table has the empty name.
- `CanvasKeptAlways`, a property of steps: only a gesture, which is counted, and the page that a
  dialog loads again change what is drawn on a canvas loaded with a flow. Every other step renders
  it again (`Rerender`), with the nodes the page was loaded with or not at all.
- `ScreensHoldAlways` puts four proofs together, one for each other part of `Screens`, by an
  invariant of each.
  *The page of a table*: ShownIsAsked speaks of a page at rest, so `AskInv` says what holds while
  requests are out. If the view has been steady, every fetch under way is for it, and so is the
  fetch that each write will start when it is answered (`OnTheWay`); whichever answer comes last
  is then one for the view. `FormInv` keeps what the form was opened on, and `FormKeeps` follows
  each kind of value through the answer and the form and back.
  *Widgets*: `ScreenInv` says that a view loaded at the present number of rows shows what it would
  show now, since rows are only added. The order of a chart is then a fact about two reversals
  and a cut at the limit (`ChartIs`), for a table of any length.
  *Lists and addresses*: `ListInv` keeps a list that was loaded after the last edit equal to what
  would be listed now, and `FoundIs` says that an address whose one page is permitted leads to it,
  the first in name order being the least element of a set (`LeastPlace`).
  *Custom blocks*: `RunsOwnCode` is inductive as it stands, because a run loads and looks up in one
  step. UsedIsThere is not: `DeletionsInv` adds that a deletion which has looked for flows deletes
  a block nobody uses, unless history has noted the flow that took it up since.
  `ScreensAssumption` asks for a limit of at least one row, the seven kinds of column that the
  form treats differently, pages that are a sequence, and types that are alike at least to themselves.

### Induction over data

The library's induction theorems take an operator as a parameter, which the provers here cannot
instantiate. Where a fact about all sizes of data is needed, the proofs go by contradiction from
a least counterexample: the set of the numbers for which it fails, if not empty, has a least
element (`LeastNat`, from `WFMin`), and the definition's equation refutes that. This works for
recursive functions and for folds over sets, and is how the sums in `Files` and `Logins` and the
filter of `PageTree` are dealt with.

### Left to TLC

Everything temporal (liveness under fairness, ENABLED), since the prover does only safety here.
Of the safety properties: the type invariants of `MCParts` and `MCWeb`, which collect those of
their parts; and ResultsTold, of which nothing is out of the prover's reach (the sort of the
canvas is a recursive function, not a recursive operator) but which is not proved here.

## Not modelled

- The backend's blocks and pipelines (`block_engine.py`, `ml_blocks.py`, `blocks/`,
  `pipelines.py`): arithmetic on rows within one request, and `execute_flow`, which nothing
  calls. What requests share, the registry of custom blocks, is in `CustomBlocks`. How the
  scheduler's transactions are affected by blocks is in `Scheduler`; the web tier's executor of
  the same flows in `FlowCanvas`.
- Organizations, features, settings, notifications, profiles: CRUD on single rows.
- The schema's DDL, the ClickHouse client, export, simulators, codecs, JupyterHub's
  configuration and the Python client, nginx and Docker: configuration, pure I/O and byte
  formats.
- Within the modelled parts: logging, hashing and signing, the bytes of messages, the text of
  generated scripts, the arithmetic of single blocks, the reconnection of the MQTT client,
  layout and resizing of widgets, the statistics and indexes of org tables, renaming and
  downloading files.
- Several replicas of the service manager: each replica runs its own manager, without a lock, so
  a flagged page has one child per replica. What is stated holds for each replica's own
  children.

## Plan

Done: every module above. What would add most, in this order:

1. Proofs: ResultsTold, by least counterexamples as for the other recursive functions.
2. The web application's parts composed where they meet: blocks of a canvas with the canvas,
   a page's deletion with the tabs that edit it.
3. Several service managers: the children of a page over all replicas.
