------------------------- MODULE ServiceManagerProofs -------------------------
(***************************************************************************)
(* Proofs about the children of ServiceManager, for any number of pages,   *)
(* tabs, edits and faults.                                                 *)
(***************************************************************************)
EXTENDS ServiceManager, FiniteSetTheorems, TLAPS

(* The inductive invariant: the snapshot holds pages, no child is lost and   *)
(* each runs its file.                                                       *)
ChildInv ==
  /\ \A t \in mgr.todo : t.page \in Pages
  /\ proc = [p \in Pages |-> proc[p]]
  /\ script = [p \in Pages |-> script[p]]
  /\ stray \in [Pages -> Nat] /\ reloads \in Nat
  /\ NoStray /\ ScriptIsRun

LEMMA ChildInit == Init => ChildInv
BY DEF Init, ChildInv, NoStray, ScriptIsRun, NoChild, Asleep

(* A step that keeps the children, their files and the snapshot's pages. *)
LEMMA Quiet ==
  ASSUME ChildInv, UNCHANGED <<proc, script, stray, reloads>>,
         \A t \in mgr'.todo : t.page \in Pages
  PROVE  ChildInv'
BY DEF ChildInv, NoStray, ScriptIsRun

(* start_service, called when no live entry is in its way: neither is a      *)
(* child lost, nor does one run anything but its file.                       *)
LEMMA Starting ==
  ASSUME ChildInv, NEW t \in mgr.todo, NEW o, NEW entry, NEW kept,
         ~entry.alive, ~kept.alive, Start(t, o, entry, kept),
         UNCHANGED reloads, \A u \in mgr'.todo : u.page \in Pages
  PROVE  ChildInv'
<1> DEFINE new == IF o = "child" THEN Child(t.code) ELSE kept
<1>1. t.page \in Pages
  BY DEF ChildInv
<1>2. /\ proc' = [proc EXCEPT ![t.page] = new]
      /\ stray' = [stray EXCEPT ![t.page] = @]
      /\ script' = [script EXCEPT ![t.page] = IF o \in {"child", "popen"} THEN t.code ELSE @]
  BY DEF Start
<1>3. new.alive => o = "child" /\ new.code = t.code
  BY DEF Child
<1> HIDE DEF new
<1>4. stray' = stray /\ NoStray'
  BY <1>1, <1>2 DEF ChildInv, NoStray
<1>5. ScriptIsRun'
  BY <1>1, <1>2, <1>3 DEF ChildInv, ScriptIsRun
<1>6. QED
  BY <1>1, <1>2, <1>4, <1>5 DEF ChildInv

LEMMA Visiting == ASSUME ChildInv, Visit PROVE ChildInv'
<1>1. PICK t \in mgr.todo : Keep(t) \/ Restart(t) \/ Revive(t) \/ Launch(t)
  BY DEF Visit
<1>2. UNCHANGED reloads /\ ~NoChild.alive
  BY DEF Visit, Others, NoChild
<1>3. \A s : \A u \in Onward(t).todo \union Updating(t, s).todo \union Asleep.todo :
        u.page \in Pages
  BY DEF ChildInv, Onward, Updating, Asleep
<1>4. CASE Keep(t)
  BY <1>2, <1>3, <1>4, Quiet DEF Keep
<1>5. CASE Restart(t)
  <2>1. PICK o : Start(t, o, NoChild, NoChild)
    BY <1>5 DEF Restart
  <2>2. mgr' = Onward(t)
    BY <1>5 DEF Restart
  <2>3. QED
    BY <1>2, <1>3, <2>1, <2>2, Starting
<1>6. CASE Revive(t)
  <2>1. PICK o : /\ Start(t, o, proc[t.page],
                            IF o = "raise" THEN proc[t.page] ELSE NoChild)
                 /\ mgr' \in {Onward(t), Asleep, Updating(t, "error")}
    BY <1>6 DEF Revive
  <2>2. ~proc[t.page].alive
    BY <1>6 DEF Revive
  <2>3. QED
    BY <1>2, <1>3, <2>1, <2>2, Starting
<1>7. CASE Launch(t)
  <2>1. PICK o : /\ Start(t, o, proc[t.page], NoChild)
                 /\ mgr' \in {Updating(t, "running"), Asleep, Updating(t, "error")}
    BY <1>7 DEF Launch
  <2>2. ~proc[t.page].alive
    BY <1>2, <1>7 DEF Launch, Tracked
  <2>3. QED
    BY <1>2, <1>3, <2>1, <2>2, Starting
<1>8. QED
  BY <1>1, <1>4, <1>5, <1>6, <1>7

LEMMA ChildStep == ChildInv /\ [Next]_vars => ChildInv'
<1> SUFFICES ASSUME ChildInv, [Next]_vars PROVE ChildInv'
  OBVIOUS
<1>1. CASE Poll
  <2>1. \A t \in mgr'.todo : t.page \in Pages
    BY <1>1 DEF Poll, Asleep
  <2>2. QED
    BY <1>1, <2>1, Quiet DEF Poll, Others
<1>2. CASE Visit
  BY <1>2, Visiting
<1>3. CASE UpdateStatus
  <2>1. \A t \in mgr'.todo : t.page \in Pages
    BY <1>3 DEF UpdateStatus, ChildInv
  <2>2. QED
    BY <1>3, <2>1, Quiet DEF UpdateStatus
<1>4. CASE UpdateFails
  BY <1>4, Quiet DEF UpdateFails, Others, Asleep
<1>5. CASE StopRemoved
  <2>1. PICK p \in Pages : /\ proc' = [proc EXCEPT ![p] = NoChild]
                           /\ script' = [script EXCEPT ![p] = NoScript]
    BY <1>5 DEF StopRemoved, Removed
  <2>2. UNCHANGED <<mgr, stray, reloads>>
    BY <1>5 DEF StopRemoved, Others
  <2>3. ScriptIsRun'
    BY <2>1 DEF ChildInv, ScriptIsRun, NoChild
  <2>4. QED
    BY <2>1, <2>2, <2>3 DEF ChildInv, NoStray
<1>6. CASE EndPoll
  BY <1>6, Quiet DEF EndPoll, Others, Asleep
<1>7. CASE ReloadBackend
  <2>1. reloads' = reloads + 1 /\ UNCHANGED script
    BY <1>7 DEF ReloadBackend
  <2>2. proc' = [p \in Pages |-> NoChild] /\ mgr' = Asleep
    BY <1>7 DEF ReloadBackend
  <2>3. stray' = [p \in Pages |-> stray[p] + IF proc[p].alive THEN 1 ELSE 0]
    BY <1>7 DEF ReloadBackend
  <2>4. stray' \in [Pages -> Nat]
    BY <2>3 DEF ChildInv
  <2>5. NoStray'
    BY <2>1, <2>3 DEF ChildInv, NoStray
  <2>6. QED
    BY <2>1, <2>2, <2>4, <2>5 DEF ChildInv, ScriptIsRun, NoChild, Asleep
<1>8. ASSUME NEW p \in Pages, Dies(p) PROVE ChildInv'
  <2>1. UNCHANGED <<mgr, script, reloads>>
    BY <1>8 DEF Dies, Others
  <2>2. CASE proc' = [proc EXCEPT ![p] = Ended(@)] /\ UNCHANGED stray
    <3>1. \A q \in Pages : q # p => proc'[q] = proc[q]
      BY <2>2 DEF ChildInv
    <3>2. ~proc'[p].alive
      BY <2>2 DEF ChildInv, Ended
    <3>3. QED
      BY <2>1, <2>2, <3>1, <3>2 DEF ChildInv, NoStray, ScriptIsRun
  <2>3. CASE /\ stray[p] > 0 /\ stray' = [stray EXCEPT ![p] = @ - 1]
             /\ UNCHANGED proc
    BY <2>1, <2>3 DEF ChildInv, NoStray, ScriptIsRun
  <2>4. QED
    BY <1>8, <2>2, <2>3 DEF Dies
<1>9. ASSUME NEW t \in Tabs, User(t) PROVE ChildInv'
  <2>1. UNCHANGED <<reloads, Manager>>
    BY <1>9 DEF User, Load, Reload, Close, SaveCode, ToggleService, ToggleStatus,
                 DeletePage
  <2>2. QED
    BY <2>1, Quiet DEF Manager, ChildInv
<1>10. CASE UNCHANGED vars
  BY <1>10, Quiet DEF vars, ChildInv
<1>11. QED
  BY <1>1, <1>2, <1>3, <1>4, <1>5, <1>6, <1>7, <1>8, <1>9, <1>10
     DEF Next, ManagerStep

(* A page never has more live children outside _processes than the backend  *)
(* was reloaded: whatever fails while a child is started, restarted or       *)
(* revived, none is lost.                                                    *)
THEOREM NoStrayHolds == Spec => []NoStray
<1>1. ChildInv => NoStray
  BY DEF ChildInv
<1>2. QED
  BY <1>1, ChildInit, ChildStep, PTL DEF Spec

(* A live child runs the file the code-change check compares with the page.  *)
THEOREM ScriptIsRunHolds == Spec => []ScriptIsRun
<1>1. ChildInv => ScriptIsRun
  BY DEF ChildInv
<1>2. QED
  BY <1>1, ChildInit, ChildStep, PTL DEF Spec

-----------------------------------------------------------------------------
(* Types, and what the manager's writes leave alone.                         *)

Tab == [kind : {"closed", "page", "list"}, page : Pages, cfg : Row, reload : BOOLEAN]
Task == [page : Pages, code : Codes]
Loop == [pc : {"sleep", "visit", "update"}, todo : SUBSET Task, ids : SUBSET Pages,
         page : SUBSET Pages, upd : Statuses]
Children == [alive : BOOLEAN, code : Codes \union {NoScript}]

(* TypeOK is not inductive by itself: what a tab writes back must be a row   *)
(* of one of the pages, and a counter a number.                              *)
RowInv ==
  /\ row \in [Pages -> Row] /\ tab \in [Tabs -> Tab] /\ edits \in Nat

MgrInv ==
  /\ mgr \in Loop /\ mgr.todo \subseteq [page : mgr.ids, code : Codes]
  /\ mgr.pc = "update" => \E p \in Pages : mgr.page = {p}

ProcInv ==
  /\ proc \in [Pages -> Children] /\ script \in [Pages -> Codes \union {NoScript}]
  /\ stray \in [Pages -> Nat]
  /\ \A p \in Pages : proc[p] = NoChild \/ proc[p].code \in Codes \ {NoCode}

TypeInv == RowInv /\ MgrInv /\ ProcInv

LEMMA TypeInit == Init => TypeInv
<1> SUFFICES ASSUME Init PROVE TypeInv
  OBVIOUS
<1>1. row \in [Pages -> Row]
  <2>1. ASSUME NEW p \in Pages PROVE row[p] \in Row
    <3>1. PICK on \in BOOLEAN, c \in Codes :
            row[p] = [there |-> TRUE, flag |-> on, code |-> c,
                      status |-> IF on THEN "running" ELSE "stopped"]
      BY DEF Init
    <3>2. QED
      BY <3>1 DEF Row, Statuses
  <2>2. QED
    BY <2>1 DEF Init
<1>2. tab \in [Tabs -> Tab]
  <2>1. \A p \in Pages : Closed(p) \in Tab
    BY <1>1 DEF Closed, Tab
  <2>2. QED
    BY <2>1 DEF Init
<1>3. MgrInv
  BY DEF Init, MgrInv, Loop, Asleep, Statuses, Task
<1>4. ProcInv
  BY DEF Init, ProcInv, Children, NoChild
<1>5. QED
  BY <1>1, <1>2, <1>3, <1>4 DEF Init, TypeInv, RowInv

(* A write of a tab leaves rows, for any configuration that is a row.        *)
LEMMA PatchRows ==
  ASSUME RowInv, NEW p \in Pages, NEW cfg \in Row, Patch(p, cfg)
  PROVE  row' \in [Pages -> Row] /\ edits' \in Nat /\ edits' # edits
BY DEF RowInv, Patch

LEMMA UserRows ==
  ASSUME RowInv, NEW t \in Tabs, User(t)
  PROVE  RowInv' /\ (edits' # edits \/ UNCHANGED row)
<1> DEFINE p == tab[t].page
           cfg == tab[t].cfg
<1>1. tab[t] \in Tab /\ p \in Pages /\ cfg \in Row /\ row[p] \in Row
  BY DEF RowInv, Tab
<1>2. \A q \in Pages : Closed(q) \in Tab
  BY DEF RowInv, Closed, Tab
<1>3. ASSUME NEW u \in Tab, tab' = [tab EXCEPT ![t] = u] PROVE tab' \in [Tabs -> Tab]
  BY <1>3 DEF RowInv
<1>4. CASE \E q \in Pages, kind \in {"page", "list"} : Load(t, q, kind)
  <2>1. PICK q \in Pages, kind \in {"page", "list"} : Load(t, q, kind)
    BY <1>4
  <2>2. [kind |-> kind, page |-> q, cfg |-> row[q], reload |-> FALSE] \in Tab
    BY DEF RowInv, Tab
  <2>3. QED
    BY <1>3, <2>1, <2>2 DEF Load, RowInv
<1>5. CASE Reload(t)
  <2>1. [tab[t] EXCEPT !.cfg = row[p], !.reload = FALSE] \in Tab
    BY <1>1 DEF Tab
  <2>2. tab' \in [Tabs -> Tab]
    BY <1>1, <1>2, <1>3, <1>5, <2>1 DEF Reload, RowInv
  <2>3. QED
    BY <1>5, <2>2 DEF Reload, RowInv
<1>6. CASE Close(t)
  BY <1>1, <1>2, <1>3, <1>6 DEF Close, RowInv
<1>7. CASE SaveCode(t)
  <2>1. PICK c \in Codes : Patch(p, [cfg EXCEPT !.code = c])
    BY <1>7 DEF SaveCode
  <2>2. [cfg EXCEPT !.code = c] \in Row
    BY <1>1 DEF Row
  <2>3. QED
    BY <1>1, <1>7, <2>1, <2>2, PatchRows DEF SaveCode, RowInv
<1>8. ASSUME tab' = [tab EXCEPT ![t].reload = TRUE] PROVE tab' \in [Tabs -> Tab]
  <2>1. [tab[t] EXCEPT !.reload = TRUE] \in Tab
    BY <1>1 DEF Tab
  <2>2. QED
    BY <1>3, <1>8, <2>1
<1>9. CASE ToggleService(t)
  <2>1. Flipped(cfg) \in Row
    BY <1>1 DEF Flipped, Row, Statuses
  <2>2. QED
    BY <1>1, <1>8, <1>9, <2>1, PatchRows DEF ToggleService, RowInv
<1>10. CASE ToggleStatus(t)
  <2>1. [cfg EXCEPT !.status = "running"] \in Row /\ [cfg EXCEPT !.status = "stopped"] \in Row
    BY <1>1 DEF Row, Statuses
  <2>2. PICK c \in Row : Patch(p, c)
    BY <1>10, <2>1 DEF ToggleStatus
  <2>3. QED
    BY <1>1, <1>8, <1>10, <2>2, PatchRows DEF ToggleStatus, RowInv
<1>11. CASE DeletePage(t)
  <2>1. [row[p] EXCEPT !.there = FALSE] \in Row
    BY <1>1 DEF Row
  <2>2. tab' \in [Tabs -> Tab]
    BY <1>1, <1>2, <1>3, <1>11 DEF DeletePage
  <2>3. QED
    BY <1>1, <1>11, <2>1, <2>2, PatchRows DEF DeletePage, RowInv
<1>12. QED
  BY <1>4, <1>5, <1>6, <1>7, <1>9, <1>10, <1>11 DEF User

(* Every step but UpdateStatus and the tabs' leaves the rows, and            *)
(* UpdateStatus their every field but the status.                            *)
LEMMA RowStep ==
  ASSUME RowInv, MgrInv, [Next]_vars
  PROVE  /\ RowInv'
         /\ edits' = edits =>
              \A p \in Pages : row'[p] = [row[p] EXCEPT !.status = row'[p].status]
<1>1. ASSUME NEW r \in Row PROVE r = [r EXCEPT !.status = r.status]
  BY DEF Row
<1>2. ASSUME UNCHANGED row
      PROVE  \A p \in Pages : row'[p] = [row[p] EXCEPT !.status = row'[p].status]
  BY <1>1, <1>2 DEF RowInv
<1>3. ASSUME UNCHANGED <<row, tab, edits>> PROVE RowInv'
  BY <1>3 DEF RowInv
<1>4. CASE UpdateStatus
  <2>1. mgr.upd \in Statuses
    BY DEF MgrInv, Loop
  <2>2. ASSUME NEW p \in Pages
        PROVE  /\ row'[p] \in Row
               /\ row'[p] = [row[p] EXCEPT !.status = row'[p].status]
    <3>1. CASE row'[p] = row[p]
      BY <1>1, <3>1 DEF RowInv
    <3>2. CASE row'[p] = [row[p] EXCEPT !.status = mgr.upd]
      <4>1. row[p] \in Row
        BY DEF RowInv
      <4>2. row'[p] \in Row /\ row'[p].status = mgr.upd
        BY <2>1, <3>2, <4>1 DEF Row
      <4>3. QED
        BY <3>2, <4>2
    <3>3. QED
      BY <1>4, <3>1, <3>2 DEF UpdateStatus
  <2>3. row' \in [Pages -> Row]
    BY <1>4, <2>2 DEF UpdateStatus
  <2>4. QED
    BY <1>4, <2>2, <2>3 DEF UpdateStatus, RowInv
<1>5. ASSUME NEW t \in Tabs, User(t) PROVE RowInv' /\ (edits' # edits \/ UNCHANGED row)
  BY <1>5, UserRows
<1>6. CASE Poll \/ Visit \/ UpdateFails \/ StopRemoved \/ EndPoll \/ ReloadBackend
           \/ (\E p \in Pages : Dies(p)) \/ UNCHANGED vars
  <2>1. UNCHANGED <<row, tab, edits>>
    BY <1>6 DEF Poll, Visit, UpdateFails, StopRemoved, EndPoll, ReloadBackend, Dies, Others, vars
  <2>2. QED
    BY <1>2, <1>3, <2>1
<1>7. QED
  BY <1>2, <1>4, <1>5, <1>6 DEF Next, ManagerStep

LEMMA MgrStep == ASSUME RowInv, MgrInv, [Next]_vars PROVE MgrInv'
<1>1. MgrInv' \/ mgr' # mgr
  BY DEF MgrInv
<1>2. ASSUME mgr' = Asleep PROVE MgrInv'
  BY <1>2 DEF MgrInv, Loop, Asleep, Statuses, Task
<1>3. CASE Poll
  <2> DEFINE ids == {p \in Pages : Wanted(p)}
             todo == {[page |-> p, code |-> row[p].code] : p \in ids}
  <2>1. mgr' = [Asleep EXCEPT !.pc = "visit", !.ids = ids, !.todo = todo]
    BY <1>3 DEF Poll
  <2>2. todo \subseteq [page : ids, code : Codes] /\ todo \subseteq Task /\ ids \subseteq Pages
    BY DEF RowInv, Row, Task
  <2> HIDE DEF ids, todo
  <2>3. QED
    BY <2>1, <2>2 DEF MgrInv, Loop, Asleep, Statuses
<1>4. CASE Visit
  <2>1. PICK t \in mgr.todo : Keep(t) \/ Restart(t) \/ Revive(t) \/ Launch(t)
    BY <1>4 DEF Visit
  <2>2. mgr.pc = "visit" /\ t.page \in Pages
    BY <1>4, <2>1 DEF Visit, MgrInv, Loop, Task
  <2>3. mgr' = Asleep \/ mgr' = Onward(t) \/ (\E s \in Statuses : mgr' = Updating(t, s))
    BY <2>1 DEF Keep, Restart, Revive, Launch, Statuses
  <2>4. CASE mgr' = Onward(t)
    BY <2>2, <2>4 DEF MgrInv, Loop, Onward
  <2>5. ASSUME NEW s \in Statuses, mgr' = Updating(t, s) PROVE MgrInv'
    BY <2>2, <2>5 DEF MgrInv, Loop, Onward, Updating
  <2>6. QED
    BY <1>2, <2>3, <2>4, <2>5
<1>5. CASE UpdateStatus
  <2>1. mgr' = [mgr EXCEPT !.pc = "visit", !.page = {}]
    BY <1>5 DEF UpdateStatus
  <2>2. QED
    BY <2>1 DEF MgrInv, Loop
<1>6. CASE UpdateFails \/ EndPoll \/ ReloadBackend
  BY <1>2, <1>6 DEF UpdateFails, EndPoll, ReloadBackend
<1>7. CASE StopRemoved \/ (\E p \in Pages : Dies(p)) \/ (\E t \in Tabs : User(t)) \/ UNCHANGED vars
  <2>1. UNCHANGED mgr
    BY <1>7 DEF StopRemoved, Dies, User, Load, Reload, Close, SaveCode, ToggleService,
                 ToggleStatus, DeletePage, Manager, vars
  <2>2. QED
    BY <1>1, <2>1
<1>8. QED
  BY <1>3, <1>4, <1>5, <1>6, <1>7 DEF Next, ManagerStep

(* start_service leaves an entry only for code there is.                     *)
LEMMA StartTypes ==
  ASSUME ProcInv, NEW t \in Task, NEW o \in Outcomes(t), NEW entry, NEW kept \in Children,
         kept = NoChild \/ kept.code \in Codes \ {NoCode}, Start(t, o, entry, kept)
  PROVE  ProcInv'
<1> DEFINE new == IF o = "child" THEN Child(t.code) ELSE kept
<1>1. t.page \in Pages /\ t.code \in Codes
  BY DEF Task
<1>2. o = "child" => t.code # NoCode
  BY DEF Outcomes
<1>3. new \in Children /\ (new = NoChild \/ new.code \in Codes \ {NoCode})
  BY <1>1, <1>2 DEF Children, Child
<1>4. /\ proc' = [proc EXCEPT ![t.page] = new]
      /\ script' = [script EXCEPT ![t.page] = IF o \in {"child", "popen"} THEN t.code ELSE @]
      /\ stray' \in [Pages -> Nat]
  BY <1>1 DEF Start, ProcInv
<1> HIDE DEF new
<1>5. QED
  BY <1>1, <1>3, <1>4 DEF ProcInv

LEMMA ProcStep == ASSUME MgrInv, ProcInv, [Next]_vars PROVE ProcInv'
<1>0. NoChild \in Children
  BY DEF NoChild, Children
<1>1. ASSUME UNCHANGED <<proc, script, stray>> PROVE ProcInv'
  BY <1>1 DEF ProcInv
<1>2. CASE Visit
  <2>1. PICK t \in mgr.todo : Keep(t) \/ Restart(t) \/ Revive(t) \/ Launch(t)
    BY <1>2 DEF Visit
  <2>2. t \in Task /\ proc[t.page] \in Children
    BY DEF MgrInv, Loop, Task, ProcInv
  <2>3. proc[t.page] = NoChild \/ proc[t.page].code \in Codes \ {NoCode}
    BY <2>2 DEF ProcInv, Task
  <2>4. CASE Keep(t)
    BY <1>1, <2>4 DEF Keep
  <2>5. CASE Restart(t)
    BY <1>0, <2>2, <2>5, StartTypes DEF Restart
  <2>6. CASE Revive(t)
    BY <1>0, <2>2, <2>3, <2>6, StartTypes DEF Revive
  <2>7. CASE Launch(t)
    BY <1>0, <2>2, <2>7, StartTypes DEF Launch
  <2>8. QED
    BY <2>1, <2>4, <2>5, <2>6, <2>7
<1>3. CASE StopRemoved
  <2>1. PICK p \in Pages : /\ proc' = [proc EXCEPT ![p] = NoChild]
                           /\ script' = [script EXCEPT ![p] = NoScript]
    BY <1>3 DEF StopRemoved, Removed
  <2>2. UNCHANGED stray
    BY <1>3 DEF StopRemoved
  <2>3. QED
    BY <1>0, <2>1, <2>2 DEF ProcInv
<1>4. CASE ReloadBackend
  <2>1. proc' = [p \in Pages |-> NoChild] /\ UNCHANGED script
    BY <1>4 DEF ReloadBackend
  <2>2. stray' = [p \in Pages |-> stray[p] + IF proc[p].alive THEN 1 ELSE 0]
    BY <1>4 DEF ReloadBackend
  <2>3. stray' \in [Pages -> Nat]
    BY <2>2 DEF ProcInv
  <2>4. QED
    BY <1>0, <2>1, <2>3 DEF ProcInv
<1>5. ASSUME NEW p \in Pages, Dies(p) PROVE ProcInv'
  <2>1. UNCHANGED script
    BY <1>5 DEF Dies
  <2>2. CASE /\ proc[p].alive /\ proc' = [proc EXCEPT ![p] = Ended(@)] /\ UNCHANGED stray
    <3>1. proc[p] \in Children /\ proc[p] # NoChild
      BY <2>2 DEF ProcInv, NoChild
    <3>2. Ended(proc[p]) \in Children /\ Ended(proc[p]).code \in Codes \ {NoCode}
      BY <3>1 DEF Ended, Children, ProcInv
    <3>3. QED
      BY <2>1, <2>2, <3>2 DEF ProcInv
  <2>3. CASE stray[p] > 0 /\ stray' = [stray EXCEPT ![p] = @ - 1] /\ UNCHANGED proc
    BY <2>1, <2>3 DEF ProcInv
  <2>4. QED
    BY <1>5, <2>2, <2>3 DEF Dies
<1>6. CASE Poll \/ UpdateStatus \/ UpdateFails \/ EndPoll \/ (\E t \in Tabs : User(t))
           \/ UNCHANGED vars
  <2>1. UNCHANGED <<proc, script, stray>>
    BY <1>6 DEF Poll, UpdateStatus, UpdateFails, EndPoll, User, Load, Reload, Close, SaveCode,
                 ToggleService, ToggleStatus, DeletePage, Manager, vars
  <2>2. QED
    BY <1>1, <2>1
<1>7. QED
  BY <1>2, <1>3, <1>4, <1>5, <1>6 DEF Next, ManagerStep

(* Every variable of the manager and of the pages keeps its type.            *)
THEOREM TypeCorrect == Spec => []TypeOK
<1>1. TypeInv => TypeOK
  <2> SUFFICES ASSUME TypeInv PROVE TypeOK
    OBVIOUS
  <2>1. mgr.pc = "update" => Cardinality(mgr.page) = 1 /\ mgr.upd \in Statuses
    BY FS_Singleton DEF TypeInv, MgrInv, Loop
  <2>2. \A t \in Tabs : tab[t].kind \in {"closed", "page", "list"} /\ tab[t].cfg \in Row
    BY DEF TypeInv, RowInv, Tab
  <2>3. QED
    BY <2>1, <2>2 DEF TypeInv, RowInv, MgrInv, Loop, ProcInv, TypeOK
<1>2. TypeInv /\ [Next]_vars => TypeInv'
  BY RowStep, MgrStep, ProcStep DEF TypeInv
<1>3. QED
  BY <1>1, <1>2, TypeInit, PTL DEF Spec

(* No step of the manager, nor a child's death or a reload, changes anything *)
(* of a page but its status: what tabs save while the manager works from its *)
(* snapshot survives.                                                        *)
THEOREM KeepsEditsHolds == Spec => KeepsEdits
<1>1. TypeInv /\ [Next]_vars =>
        [edits' = edits => \A p \in Pages :
           row'[p] = [row[p] EXCEPT !.status = row'[p].status]]_vars
  BY RowStep DEF TypeInv
<1>2. TypeInv /\ [Next]_vars => TypeInv'
  BY RowStep, MgrStep, ProcStep DEF TypeInv
<1>3. QED
  BY <1>1, <1>2, TypeInit, PTL DEF Spec, KeepsEdits
=============================================================================
