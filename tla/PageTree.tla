------------------------------- MODULE PageTree -------------------------------
(***************************************************************************)
(* The pages of a user and the sidebar that shows them: the handlers of     *)
(* api/pages and api/pins, and the tabs of one user, each with a            *)
(* UserProvider whose refresh() asks for pages and pins again after every   *)
(* action.  A handler is a sequence of awaited statements; a tab has one    *)
(* such request at a time, and any number of refreshes.                     *)
(***************************************************************************)
EXTENDS Integers, Sequences, FiniteSets, SequencesExt

CONSTANTS
  SideTabs,      \* tabs that show the sidebar
  Slugs,         \* what pages are called
  MaxPages,      \* bound: pages and folders ever made
  MAX_PINS,      \* the limit of personal pins
  MaxActions,    \* bound: requests
  MaxLoads       \* bound: refreshes of a tab at a time

ASSUME PinsAssumption == MAX_PINS \in Nat

VARIABLES
  page,      \* rows of user_pages: [folder, parent, slug, app]
  made,      \* ids handed out
  app,       \* rows app.<slug> of permissions
  pins,      \* the user's list in org_configs
  sent,      \* the request of each tab
  side,      \* what each tab shows: the rows, and the refreshes under way
  version,   \* history: changes of page and pins so far
  own, seen, \* history, of each tab: the version of its last change, and shown
  crossed,   \* history: tabs where two refreshes were under way at once
  dying,     \* history: pages whose deletion began
  raced,     \* history: two pin requests overlapped
  pinned,    \* history: the pages that answered requests left pinned
  actions

treeVars == <<page, made, app, pins, sent, side, version, own, seen, crossed, dying, raced,
              pinned, actions>>

NoFolder == 0
PageIds == 1 .. MaxPages
Rows == DOMAIN page
NoSlug == ""
Idle == [op |-> "none", id |-> 0, to |-> 0, at |-> "", list |-> <<>>]
Unanswered == [rows |-> <<>>, is |-> FALSE, at |-> 0]

TreeInit ==
  /\ page = <<>> /\ made = 0 /\ app = {} /\ pins = <<>>
  /\ sent = [t \in SideTabs |-> Idle]
  /\ side = [t \in SideTabs |-> [rows |-> <<>>, loads |-> <<>>]]
  /\ version = 0 /\ own = [t \in SideTabs |-> 0] /\ seen = [t \in SideTabs |-> 0]
  /\ crossed = {} /\ dying = {} /\ raced = FALSE /\ pinned = {} /\ actions = 0

-----------------------------------------------------------------------------
(* refresh: the answers come in any order, and the last to have come whole   *)
(* is shown.                                                                 *)

Loading(t) ==
  /\ Len(side[t].loads) < MaxLoads
  /\ side' = [side EXCEPT ![t].loads = Append(@, [Unanswered EXCEPT !.at = version'])]
  /\ crossed' = IF side[t].loads = <<>> THEN crossed ELSE crossed \union {t}

(* The four answers of a refresh, which loadData awaits together, are one. *)
Answer(t) ==
  /\ \E i \in DOMAIN side[t].loads :
       /\ ~side[t].loads[i].is
       /\ side' = [side EXCEPT ![t].loads[i].is = TRUE, ![t].loads[i].rows =
                     [p \in Rows |-> [folder |-> page[p].folder, parent |-> page[p].parent]]]
  /\ UNCHANGED <<page, made, app, pins, sent, version, own, seen, crossed, dying, raced, pinned, actions>>

SetState(t) ==
  /\ \E i \in DOMAIN side[t].loads : LET d == side[t].loads[i] IN
       /\ d.is
       /\ side' = [side EXCEPT ![t] = [rows |-> d.rows, loads |-> RemoveAt(@.loads, i)]]
       /\ seen' = [seen EXCEPT ![t] = d.at]
  /\ UNCHANGED <<page, made, app, pins, sent, version, own, crossed, dying, raced, pinned, actions>>

(* A tab that is loaded again begins with nothing. *)
Reload(t) ==
  /\ sent[t] = Idle /\ actions < MaxActions /\ actions' = actions + 1
  /\ side' = [side EXCEPT ![t] = [rows |-> <<>>, loads |-> <<[Unanswered EXCEPT !.at = version]>>]]
  /\ crossed' = crossed \ {t} /\ seen' = [seen EXCEPT ![t] = 0]
  /\ UNCHANGED <<page, made, app, pins, sent, version, own, dying, raced, pinned>>

-----------------------------------------------------------------------------
(* Requests: what a tab asks for is among what it shows.                     *)

Asks(t, op, id, to) ==
  /\ sent[t] = Idle /\ actions < MaxActions /\ actions' = actions + 1
  /\ sent' = [sent EXCEPT ![t] = [Idle EXCEPT !.op = op, !.id = id, !.to = to]]
  /\ UNCHANGED <<page, made, app, pins, side, version, own, seen, crossed, dying, raced, pinned>>

Shown(t) == DOMAIN side[t].rows
IsFolder(t, p) == side[t].rows[p].folder

CreatePage(t) == Asks(t, "folder", 0, 0) \/ Asks(t, "page", 0, 0)
DropAnywhere(t) ==   \* mutant: folders are dragged too
  \E p, f \in Shown(t) : p # f /\ IsFolder(t, f) /\ Asks(t, "move", p, f)
(* Only pages can be dragged, and dropped on folders alone. *)
Drop(t) ==
  \E p, f \in Shown(t) : ~IsFolder(t, p) /\ IsFolder(t, f) /\ Asks(t, "move", p, f)
PinPage(t) == \E p \in Shown(t) : Asks(t, "pin", p, 0)
(* The menu of the tree is given to pages outside folders. *)
Clone(t) == \E p \in Shown(t) :
  ~IsFolder(t, p) /\ side[t].rows[p].parent = NoFolder /\ Asks(t, "clone", p, 0)
DeletePage(t) == \E p \in Shown(t) : Asks(t, "delete", p, 0)
(* What only clients of the API send. *)
Publish(t) == \E p \in Shown(t) : Asks(t, "publish", p, 0)
Unpin(t) == \E p \in Shown(t) : Asks(t, "unpin", p, 0)

ByApi(t) == sent[t].op \in {"publish", "unpin"}
Changed(t) ==
  /\ version' = version + 1
  /\ own' = IF ByApi(t) THEN own ELSE [own EXCEPT ![t] = version + 1]

(* The answer, after which the pages call refresh; API clients do not. *)
AnsweredQuietly(t) ==   \* mutant: no refresh
  sent' = [sent EXCEPT ![t] = Idle] /\ UNCHANGED <<side, crossed>>
Answered(t) ==
  /\ sent' = [sent EXCEPT ![t] = Idle]
  /\ IF ByApi(t) THEN UNCHANGED <<side, crossed>> ELSE Loading(t)

Goes(t, at) == sent' = [sent EXCEPT ![t].at = at] /\ UNCHANGED <<side, crossed>>
Doing(t, op, at) == sent[t].op = op /\ sent[t].at = at

(* POST api/pages: one statement.  The dialog names no folder. *)
Insert(t) ==
  /\ sent[t].op \in {"folder", "page"} /\ made < MaxPages /\ made' = made + 1
  /\ \E s \in IF sent[t].op = "page" THEN Slugs ELSE {NoSlug} :
       page' = [p \in Rows \union {made + 1} |-> IF p \in Rows THEN page[p]
                  ELSE [folder |-> sent[t].op = "folder", parent |-> NoFolder, slug |-> s, app |-> NoSlug]]
  /\ Changed(t) /\ Answered(t)
  /\ UNCHANGED <<app, pins, seen, dying, raced, pinned, actions>>

(* A copy has neither a slug nor a folder. *)
InsertClone(t) ==
  /\ Doing(t, "clone", "")
  /\ IF sent[t].id \in Rows /\ made < MaxPages
       THEN /\ made' = made + 1 /\ Changed(t)
            /\ page' = [p \in Rows \union {made + 1} |-> IF p \in Rows THEN page[p]
                          ELSE [folder |-> FALSE, parent |-> NoFolder, slug |-> NoSlug, app |-> NoSlug]]
            /\ Answered(t)
       ELSE /\ sent' = [sent EXCEPT ![t] = Idle] /\ UNCHANGED <<page, made, version, own, side, crossed>>
  /\ UNCHANGED <<app, pins, seen, dying, raced, pinned, actions>>

(* move: the foreign key refuses a folder that is gone. *)
Move(t) ==
  /\ Doing(t, "move", "")
  /\ IF {sent[t].id, sent[t].to} \subseteq Rows
       THEN page' = [page EXCEPT ![sent[t].id].parent = sent[t].to] /\ Changed(t)
       ELSE UNCHANGED <<page, version, own>>
  /\ Answered(t)
  /\ UNCHANGED <<made, app, pins, seen, dying, raced, pinned, actions>>

-----------------------------------------------------------------------------
(* Pins: the list is read, changed and written back whole.                   *)

(* pins.filter *)
Without(list, id) ==
  LET f[n \in 0 .. Len(list)] ==
        IF n = 0 THEN <<>> ELSE IF list[n] = id THEN f[n - 1] ELSE Append(f[n - 1], list[n])
  IN f[Len(list)]

PinWith(op, list, id, most) ==
  IF op = "unpin" THEN Without(list, id)
  ELSE IF id \notin ToSet(list) /\ Len(list) < most THEN Append(list, id) ELSE list

ReadPins(t) ==
  /\ sent[t].op \in {"pin", "unpin"} /\ sent[t].at = ""
  /\ UNCHANGED <<page, made, app, pins, version, own, seen, dying, pinned, actions>>
  /\ IF sent[t].id \in Rows
       THEN /\ sent' = [sent EXCEPT ![t].at = "write", ![t].list = pins]
            /\ raced' = (raced \/ \E o \in SideTabs : sent[o].at = "write")
            /\ UNCHANGED <<side, crossed>>
       ELSE Answered(t) /\ UNCHANGED raced

WritePins(t) ==
  /\ sent[t].at = "write"
  /\ pins' = PinWith(sent[t].op, sent[t].list, sent[t].id, MAX_PINS)
  /\ pinned' = IF sent[t].op = "unpin" THEN pinned \ {sent[t].id}
               ELSE pinned \union ({sent[t].id} \intersect ToSet(pins'))
  /\ Changed(t) /\ Answered(t)
  /\ UNCHANGED <<page, made, app, seen, dying, raced, actions>>

-----------------------------------------------------------------------------
(* Publishing: the permission of the page, then its row.  Deleting: the      *)
(* permission, the children, the row.  (A request may stay between two       *)
(* statements for ever: a server that stops there.)                          *)

Upsert(t) ==
  /\ Doing(t, "publish", "")
  /\ UNCHANGED <<page, made, pins, version, own, seen, dying, raced, pinned, actions>>
  /\ IF sent[t].id \in Rows /\ page[sent[t].id].slug # NoSlug
       THEN app' = app \union {page[sent[t].id].slug} /\ Goes(t, "update")
       ELSE UNCHANGED app /\ Answered(t)

SetPublished(t) ==
  /\ Doing(t, "publish", "update")
  /\ page' = IF sent[t].id \in Rows THEN [page EXCEPT ![sent[t].id].app = page[sent[t].id].slug] ELSE page
  /\ Answered(t)
  /\ UNCHANGED <<made, app, pins, version, own, seen, dying, raced, pinned, actions>>

DropApp(t) ==
  /\ Doing(t, "delete", "")
  /\ UNCHANGED <<page, made, pins, version, own, seen, raced, pinned, actions>>
  /\ IF sent[t].id \in Rows
       THEN /\ dying' = dying \union {sent[t].id}
            /\ app' = app \ {page[sent[t].id].app} /\ Goes(t, "children")
       ELSE UNCHANGED <<app, dying>> /\ Answered(t)

FreeChildren(t) ==
  /\ Doing(t, "delete", "children") /\ Goes(t, "row")
  /\ page' = [p \in Rows |-> IF page[p].parent = sent[t].id THEN [page[p] EXCEPT !.parent = NoFolder] ELSE page[p]]
  /\ UNCHANGED <<made, app, pins, version, own, seen, dying, raced, pinned, actions>>

(* parent_id is ON DELETE SET NULL. *)
DeleteRow(t) ==
  /\ Doing(t, "delete", "row")
  /\ page' = [p \in Rows \ {sent[t].id} |->
                IF page[p].parent = sent[t].id THEN [page[p] EXCEPT !.parent = NoFolder] ELSE page[p]]
  /\ Changed(t) /\ Answered(t)
  /\ UNCHANGED <<made, app, pins, seen, dying, raced, pinned, actions>>

TreeNext ==
  \E t \in SideTabs :
    \/ Answer(t) \/ SetState(t) \/ Reload(t)
    \/ CreatePage(t) \/ Drop(t) \/ PinPage(t) \/ Clone(t) \/ DeletePage(t) \/ Publish(t) \/ Unpin(t)
    \/ Insert(t) \/ InsertClone(t) \/ Move(t) \/ ReadPins(t) \/ WritePins(t)
    \/ Upsert(t) \/ SetPublished(t) \/ DropApp(t) \/ FreeChildren(t) \/ DeleteRow(t)

TreeSpec == TreeInit /\ [][TreeNext]_treeVars

-----------------------------------------------------------------------------
(* Properties.                                                               *)

TreeTypeOK ==
  /\ Rows \subseteq 1 .. made /\ app \subseteq Slugs /\ ToSet(pins) \subseteq 1 .. made
  /\ \A t \in SideTabs : side[t].rows = <<>> \/ Shown(t) \subseteq 1 .. made

(* Every page is at the root or in a folder that is there and is itself at   *)
(* the root: the sidebar reaches it, and its walk to the root (layout.js)    *)
(* ends.  What is deleted while it is filled makes no exception.             *)
Reachable ==
  \A p \in Rows : LET f == page[p].parent IN
    f # NoFolder => f \in Rows /\ page[f].folder /\ page[f].parent = NoFolder

(* However requests overlap, the list never exceeds its limit and names a    *)
(* page once.                                                                *)
PinLimit == Len(pins) <= MAX_PINS /\ IsInjective(pins)

(* A page is pinned exactly if its last answered request says so, unless two *)
(* requests overlapped.                                                      *)
PinsAsAnswered == ~raced => ToSet(pins) = pinned

(* A tab at rest shows its own last change, unless two of its refreshes      *)
(* overlapped.                                                               *)
CaughtUp ==
  \A t \in SideTabs : sent[t] = Idle /\ side[t].loads = <<>> /\ t \notin crossed
    => seen[t] >= own[t]

(* What the sidebar promises of its pins and of itself.                      *)
SidebarHolds == PinLimit /\ PinsAsAnswered /\ CaughtUp

(* A published page has its permission, until it is deleted itself.  (Not    *)
(* so: two pages of one slug share the permission that goes with either.)    *)
PublishedGuarded ==
  \A p \in Rows \ dying : page[p].app # NoSlug => page[p].app \in app
=============================================================================
