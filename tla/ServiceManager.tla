---------------------------- MODULE ServiceManager ----------------------------
(***************************************************************************)
(* The service manager of backend/service_manager.py: a loop that polls    *)
(* user_pages for pages flagged as running services and keeps one child    *)
(* process for each.  The browser tabs of the page's owner write the same  *)
(* rows: frontend/app/(org)/my/[id]/page.js and -/services/page.js send    *)
(* the whole config they loaded, changed in one place.                     *)
(*                                                                         *)
(* A poll reads the rows once and then works from that snapshot.  A step   *)
(* of the manager ends where it calls the database; killing a child (up to *)
(* 5 s) and starting another one read nothing in between, so they are one  *)
(* step.                                                                   *)
(***************************************************************************)
EXTENDS Integers, FiniteSets

CONSTANTS
  Pages,       \* python and visual pages of user_pages
  Visual,      \* the visual ones
  Tabs,        \* browser tabs of their owners
  Codes,       \* what a page's config.code (or flow) may be
  NoCode,      \* empty code, or a flow without nodes
  Unreadable,  \* flows the generator raises on (a node without an id)
  Crlf,        \* codes with carriage returns ...
  Plain,       \* ... which read back from a file as this one
  MaxEdits,    \* bound: writes of the tabs, and restarts ...
  ReloadCost,  \* ... each of which counts for so many
  MaxFaults,   \* bound: failed Popen calls and lost database connections
  MaxReloads   \* bound: restarts of the backend inside its container

NoScript == "no script"

ASSUME ServiceAssumption ==
  /\ NoCode \in Codes /\ Plain \in Codes /\ NoScript \notin Codes
  /\ Crlf \subseteq Codes \ {NoCode, Plain} /\ Unreadable \subseteq Codes \ {NoCode}
  /\ Visual \subseteq Pages
  /\ MaxEdits \in Nat /\ ReloadCost \in Nat /\ MaxFaults \in Nat /\ MaxReloads \in Nat

VARIABLES
  row,      \* user_pages: [Pages -> Row]
  tab,      \* what each browser tab loaded
  mgr,      \* local state of run_service_manager
  proc,     \* _processes: [Pages -> Child], NoChild when there is no entry
  script,   \* the files of SERVICES_DIR
  stray,    \* live children that are not in _processes
  edits, faults, reloads,  \* counters of the bounds
  intent    \* history: the user's last word on each page, run it or not

vars == <<row, tab, mgr, proc, script, stray, edits, faults, reloads, intent>>

Statuses == {"stopped", "running", "error"}
Row == [there : BOOLEAN, flag : BOOLEAN, status : Statuses, code : Codes]
Wanted(p) == row[p].there /\ row[p].flag /\ row[p].status = "running"

NoChild == [alive |-> FALSE, code |-> NoScript]
Child(c) == [alive |-> TRUE, code |-> c]
Ended(k) == [alive |-> FALSE, code |-> k.code]
Tracked(p) == proc[p] # NoChild
Live(p) == proc[p].alive \/ stray[p] > 0

Asleep == [pc |-> "sleep", todo |-> {}, ids |-> {}, page |-> {}, upd |-> "running"]
Closed(p) == [kind |-> "closed", page |-> p, cfg |-> row[p], reload |-> FALSE]

(* user_pages survives the backend: pages may be flagged when it starts. *)
Init ==
  /\ row \in [Pages -> {[there |-> TRUE, flag |-> on, code |-> c,
                         status |-> IF on THEN "running" ELSE "stopped"] :
                          on \in BOOLEAN, c \in Codes}]
  /\ tab \in [Tabs -> {Closed(p) : p \in Pages}]
  /\ mgr = Asleep
  /\ proc = [p \in Pages |-> NoChild]
  /\ script = [p \in Pages |-> NoScript]
  /\ stray = [p \in Pages |-> 0]
  /\ edits = 0 /\ faults = 0 /\ reloads = 0
  /\ intent = [p \in Pages |-> row[p].flag]

Manager == <<mgr, proc, script, stray>>

-----------------------------------------------------------------------------
(* The tabs.                                                                 *)

(* The page view, or the list of services, is loaded. *)
Load(t, p, kind) ==
  /\ tab[t].kind = "closed" /\ row[p].there
  /\ kind = "list" => row[p].flag
  /\ tab' = [tab EXCEPT ![t] = [kind |-> kind, page |-> p, cfg |-> row[p],
                                reload |-> FALSE]]
  /\ UNCHANGED <<row, edits, faults, reloads, intent, Manager>>

(* loadPage or loadServices after a toggle. *)
Reload(t) ==
  /\ tab[t].reload
  /\ tab' = [tab EXCEPT ![t] = IF row[tab[t].page].there
               THEN [@ EXCEPT !.cfg = row[tab[t].page], !.reload = FALSE]
               ELSE Closed(tab[t].page)]
  /\ UNCHANGED <<row, edits, faults, reloads, intent, Manager>>

Close(t) ==
  /\ tab[t].kind # "closed"
  /\ tab' = [tab EXCEPT ![t] = Closed(tab[t].page)]
  /\ UNCHANGED <<row, edits, faults, reloads, intent, Manager>>

(* PATCH /api/pages/[id] with a whole config; a page that was deleted is     *)
(* refused.                                                                  *)
Patch(p, cfg) ==
  /\ edits + ReloadCost * reloads < MaxEdits /\ edits' = edits + 1
  /\ row' = IF row[p].there THEN [row EXCEPT ![p] = cfg] ELSE row

(* The editor's Save (saveConfig): the tab does not load the page again. *)
SaveCode(t) ==
  /\ tab[t].kind = "page"
  /\ \E c \in Codes \ {tab[t].cfg.code} :
       Patch(tab[t].page, [tab[t].cfg EXCEPT !.code = c])
  /\ UNCHANGED <<tab, faults, reloads, intent, Manager>>

Flipped(cfg) ==
  [cfg EXCEPT !.flag = ~@, !.status = IF cfg.flag THEN "stopped" ELSE "running"]

(* "Run as Service" and "Stop Service" of the page menu. *)
ToggleService(t) ==
  /\ tab[t].kind = "page"
  /\ Patch(tab[t].page, Flipped(tab[t].cfg))
  /\ tab' = [tab EXCEPT ![t].reload = TRUE]
  /\ intent' = [intent EXCEPT ![tab[t].page] = ~tab[t].cfg.flag]
  /\ UNCHANGED <<faults, reloads, Manager>>

(* "Start" and "Stop" of the services list. *)
ToggleStatus(t) ==
  /\ tab[t].kind = "list"
  /\ LET on == tab[t].cfg.status # "running" IN
       /\ Patch(tab[t].page, [tab[t].cfg EXCEPT
                  !.status = IF on THEN "running" ELSE "stopped"])
       /\ intent' = [intent EXCEPT ![tab[t].page] = on]
  /\ tab' = [tab EXCEPT ![t].reload = TRUE]
  /\ UNCHANGED <<faults, reloads, Manager>>

DeletePage(t) ==
  /\ tab[t].kind = "page" /\ row[tab[t].page].there
  /\ Patch(tab[t].page, [row[tab[t].page] EXCEPT !.there = FALSE])
  /\ tab' = [tab EXCEPT ![t] = Closed(tab[t].page)]
  /\ intent' = [intent EXCEPT ![tab[t].page] = FALSE]
  /\ UNCHANGED <<faults, reloads, Manager>>

User(t) ==
  \/ \E p \in Pages, kind \in {"page", "list"} : Load(t, p, kind)
  \/ Reload(t) \/ Close(t) \/ SaveCode(t) \/ ToggleService(t) \/ ToggleStatus(t)
  \/ DeletePage(t)

-----------------------------------------------------------------------------
(* A poll of the manager.                                                    *)

Others == <<row, tab, edits, reloads, intent>>

Poll ==
  /\ mgr.pc = "sleep"
  /\ LET ids == {p \in Pages : Wanted(p)} IN
       mgr' = [Asleep EXCEPT !.pc = "visit", !.ids = ids,
                             !.todo = {[page |-> p, code |-> row[p].code] : p \in ids}]
  /\ UNCHANGED <<Others, faults, proc, script, stray>>

OutcomesUnchecked(t) ==   \* mutant: empty code is run
  {"child"} \union (IF faults < MaxFaults THEN {"popen"} ELSE {})

(* start_service: the generator raises, there is nothing to run, Popen fails *)
(* after the script was written, or there is a new child.                    *)
Outcomes(t) ==
  IF t.page \in Visual /\ t.code \in Unreadable THEN {"raise"}
  ELSE IF t.code = NoCode THEN {"none"}
  ELSE {"child"} \union (IF faults < MaxFaults THEN {"popen"} ELSE {})

(* entry is what _processes holds when start_service returns, and kept what  *)
(* stays there without a new child.                                          *)
Start(t, o, entry, kept) ==
  LET new == IF o = "child" THEN Child(t.code) ELSE kept IN
    /\ proc' = [proc EXCEPT ![t.page] = new]
    /\ stray' = [stray EXCEPT ![t.page] = IF entry.alive /\ new # entry THEN @ + 1 ELSE @]
    /\ script' = [script EXCEPT ![t.page] = IF o \in {"child", "popen"} THEN t.code ELSE @]
    /\ faults' = IF o = "popen" THEN faults + 1 ELSE faults

(* Where the loop goes on: with the next page, or with the status update.    *)
Onward(t) == [mgr EXCEPT !.todo = @ \ {t}]
Updating(t, status) ==
  [Onward(t) EXCEPT !.pc = "update", !.page = {t.page}, !.upd = status]

ReadBack(c) == IF c \in Crlf THEN Plain ELSE c

ChangedNever(t) == FALSE   \* mutant
(* "Check if code changed": only python pages, and never to an empty one. *)
Changed(t) ==
  /\ t.page \notin Visual /\ t.code # NoCode
  /\ script[t.page] # NoScript /\ ReadBack(script[t.page]) # t.code

(* The child runs and its code is the one on disk. *)
Keep(t) ==
  /\ proc[t.page].alive /\ ~Changed(t)
  /\ mgr' = Onward(t)
  /\ UNCHANGED <<proc, script, stray, faults>>

RestartUnstopped(t) ==   \* mutant: the old child is not stopped
  /\ proc[t.page].alive /\ Changed(t)
  /\ \E o \in Outcomes(t) : Start(t, o, proc[t.page], NoChild)
  /\ mgr' = Onward(t)

RestartOldScript(t) ==   \* mutant: the file is written only if it is missing
  /\ proc[t.page].alive /\ Changed(t)
  /\ proc' = [proc EXCEPT ![t.page] = Child(t.code)]
  /\ mgr' = Onward(t)
  /\ UNCHANGED <<script, stray, faults>>

(* stop_service and start_service; a failed start waits for the next poll. *)
Restart(t) ==
  /\ proc[t.page].alive /\ Changed(t)
  /\ \E o \in Outcomes(t) : Start(t, o, NoChild, NoChild)
  /\ mgr' = Onward(t)

(* The child died. *)
Revive(t) ==
  /\ Tracked(t.page) /\ ~proc[t.page].alive
  /\ \E o \in Outcomes(t) :
       /\ Start(t, o, proc[t.page], IF o = "raise" THEN proc[t.page] ELSE NoChild)
       /\ mgr' = CASE o = "child" -> Onward(t)
                   [] o = "raise" -> Asleep
                   [] OTHER -> Updating(t, "error")

Launch(t) ==
  /\ ~Tracked(t.page)
  /\ \E o \in Outcomes(t) :
       /\ Start(t, o, proc[t.page], NoChild)
       /\ mgr' = CASE o = "child" -> Updating(t, "running")
                   [] o = "raise" -> Asleep
                   [] OTHER -> Updating(t, "error")

Visit ==
  /\ mgr.pc = "visit"
  /\ \E t \in mgr.todo : Keep(t) \/ Restart(t) \/ Revive(t) \/ Launch(t)
  /\ UNCHANGED Others

UpdateStatusFlagging ==   \* mutant: is_service is written as well
  /\ mgr.pc = "update"
  /\ row' = [p \in Pages |-> IF p \in mgr.page /\ row[p].there
               THEN [row[p] EXCEPT !.status = mgr.upd, !.flag = TRUE] ELSE row[p]]
  /\ mgr' = [mgr EXCEPT !.pc = "visit", !.page = {}]
  /\ UNCHANGED <<tab, edits, reloads, intent, faults, proc, script, stray>>

(* update_page_service_status: config || {...}, the other keys stay. *)
UpdateStatus ==
  /\ mgr.pc = "update"
  /\ row' = [p \in Pages |-> IF p \in mgr.page /\ row[p].there
               THEN [row[p] EXCEPT !.status = mgr.upd] ELSE row[p]]
  /\ mgr' = [mgr EXCEPT !.pc = "visit", !.page = {}]
  /\ UNCHANGED <<tab, edits, reloads, intent, faults, proc, script, stray>>

(* The connection is lost: the exception ends the poll. *)
UpdateFails ==
  /\ mgr.pc = "update" /\ faults < MaxFaults
  /\ faults' = faults + 1 /\ mgr' = Asleep
  /\ UNCHANGED <<Others, proc, script, stray>>

(* The last phase stops the children whose page is not in the snapshot. *)
Removed == {p \in Pages : Tracked(p) /\ p \notin mgr.ids}

StopRemoved ==
  /\ mgr.pc = "visit" /\ mgr.todo = {}
  /\ \E p \in Removed :
       /\ proc' = [proc EXCEPT ![p] = NoChild]
       /\ script' = [script EXCEPT ![p] = NoScript]
  /\ UNCHANGED <<Others, faults, mgr, stray>>

EndPoll ==
  /\ mgr.pc = "visit" /\ mgr.todo = {} /\ Removed = {}
  /\ mgr' = Asleep
  /\ UNCHANGED <<Others, faults, proc, script, stray>>

-----------------------------------------------------------------------------
(* The children, and the backend process.                                    *)

Dies(p) ==
  /\ \/ /\ proc[p].alive /\ proc' = [proc EXCEPT ![p] = Ended(@)]
        /\ UNCHANGED stray
     \/ /\ stray[p] > 0 /\ stray' = [stray EXCEPT ![p] = @ - 1]
        /\ UNCHANGED proc
  /\ UNCHANGED <<Others, faults, mgr, script>>

(* uvicorn --reload starts a new server process; the children of the old one *)
(* live on.                                                                  *)
ReloadBackend ==
  /\ reloads < MaxReloads /\ reloads' = reloads + 1
  /\ edits + ReloadCost * reloads' <= MaxEdits
  /\ mgr' = Asleep
  /\ proc' = [p \in Pages |-> NoChild]
  /\ stray' = [p \in Pages |-> stray[p] + IF proc[p].alive THEN 1 ELSE 0]
  /\ UNCHANGED <<row, tab, edits, intent, faults, script>>

ManagerStep ==
  Poll \/ Visit \/ UpdateStatus \/ UpdateFails \/ StopRemoved \/ EndPoll

Next ==
  \/ ManagerStep \/ ReloadBackend
  \/ \E p \in Pages : Dies(p)
  \/ \E t \in Tabs : User(t)

Spec == Init /\ [][Next]_vars

(* The loop polls every 15 s, and each of its calls returns or raises. *)
FairSpec == Spec /\ WF_vars(ManagerStep)

-----------------------------------------------------------------------------
(* Properties.                                                               *)

(* The variables of the manager and of the pages keep their types. *)
TypeOK ==
  /\ row \in [Pages -> Row]
  /\ \A t \in Tabs : tab[t].kind \in {"closed", "page", "list"} /\ tab[t].cfg \in Row
  /\ mgr.pc \in {"sleep", "visit", "update"} /\ mgr.ids \subseteq Pages
  /\ mgr.todo \subseteq [page : mgr.ids, code : Codes]
  /\ mgr.pc = "update" => Cardinality(mgr.page) = 1 /\ mgr.upd \in Statuses
  /\ \A p \in Pages : proc[p] = NoChild \/ proc[p].code \in Codes \ {NoCode}
  /\ script \in [Pages -> Codes \union {NoScript}]
  /\ stray \in [Pages -> Nat]

(* A reload of the backend loses at most one child of a page and nothing     *)
(* else loses one: the code-change restart, the revival of a dead child and  *)
(* the stop phase never leave a live child out of _processes.                *)
NoStray == \A p \in Pages : stray[p] <= reloads

(* What a live child runs is what is on disk under its page's name: the      *)
(* change detection, which only sees the file, judges the child itself.      *)
ScriptIsRun ==
  \A p \in Pages : proc[p].alive => script[p] = proc[p].code

(* The manager's writes change nothing of a page but its status: edits made  *)
(* while it worked from its snapshot survive.                                *)
KeepsEdits ==
  [][edits' = edits => \A p \in Pages :
       row'[p] = [row[p] EXCEPT !.status = row'[p].status]]_vars

(* The generator raises on no page that stays flagged: an exception ends a   *)
(* poll before its other pages and its stop phase.                           *)
Generable ==
  \A p \in Visual : Wanted(p) => row[p].code \notin Unreadable

(* A page that is no longer flagged as a running service, or is gone, is at  *)
(* last without a child of this backend, whatever failed in between.         *)
FlagHonoured ==
  <>[]Generable => \A p \in Pages : <>[]~Wanted(p) => <>[]~proc[p].alive

(* "starts new services, restarts crashed ones": a page that stays flagged   *)
(* has a live child again and again, however often it dies.                  *)
WantedRuns ==
  <>[]Generable => \A p \in Pages : <>[]Wanted(p) => []<>proc[p].alive

(* "Re-read code (might have been updated)": a flagged python page whose     *)
(* code no longer changes ends up running that code only, or one that reads  *)
(* back from its file as that code.                                          *)
CodeHonoured ==
  <>[]Generable => \A p \in Pages \ Visual, c \in Codes \ {NoCode} :
    <>[](Wanted(p) /\ row[p].code = c) =>
      <>[](proc[p].alive => c \in {proc[p].code, ReadBack(proc[p].code)})

(* The promises of a poll, together.                                         *)
PollHonours == FlagHonoured /\ WantedRuns /\ CodeHonoured

(* "stops services that are no longer flagged": once the user stopped a      *)
(* page, its process ends unless the user starts it again.                   *)
StopHonoured == \A p \in Pages : ~intent[p] ~> (~Live(p) \/ intent[p])
=============================================================================
