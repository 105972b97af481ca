------------------------------- MODULE Screens -------------------------------
(* What screens show of what there is: the rows of a table's page, the data  *)
(* of a dashboard's widgets, the lists of pages, the palette of blocks, the   *)
(* canvas of a flow.  The five share no state that a model of them keeps.    *)

CONSTANTS
  Records, Kinds, PageSize, MaxRecords, MaxClicks,
  Numbers, Limit, MaxRows, MaxOpen,
  ViewPages, Addresses, MaxEdits,
  Orgs, CustomTypes, Alike, BlockCodes, Backends, MaxBlocks, MaxActs,
  Types, MaxStored, MaxNodes, MaxEdges, MaxDrawn, MaxRuns, MaxSaves

VARIABLES
  records, view, shown, selected, form, fetches, writes, steady, clicks,
  rows, widget, screen,
  held, member, lists, address, edits,
  block, built, handlers, palette, used, deleting, orphaned, ran, acts,
  nodes, edges, config, loaded, saving, dialog, running, result, drawn, runs, saves, flow

P == INSTANCE TablePage WITH Keys <- Records
W == INSTANCE Widgets
V == INSTANCE PageViews WITH view <- address, listed <- lists
B == INSTANCE CustomBlocks
F == INSTANCE FlowCanvas WITH MaxGestures <- MaxDrawn, gestures <- drawn, page <- loaded,
       save <- saving, kept <- flow

ASSUME ScreensAssumption ==
  P!PageAssumption /\ W!WidgetsAssumption /\ V!ViewsAssumption /\ B!BlocksAssumption
  /\ F!CanvasAssumption

ScreensSpec == P!PageSpec /\ W!WidgetSpec /\ V!ViewSpec /\ B!BlocksSpec /\ F!CanvasSpec

(* What is shown is what is there.  A table's page deletes what it shows     *)
(* only, shows what it is set to, and saves an untouched form without a      *)
(* change.  A chart goes forward in time, and a widget shows the same in     *)
(* every view of the organization.  What is listed opens, and an address     *)
(* opens the page published at it.  A custom block runs the code its own     *)
(* organization has active, and one that a flow uses is not deleted          *)
(* (databases/[id], api/dashboards, api/pages, a/[slug], api/blocks and the  *)
(* backend's registry).                                                      *)
ScreensHold ==
  /\ P!SelectedShown /\ P!ShownIsAsked /\ P!UntouchedKept
  /\ W!ChartInOrder /\ W!SameShown
  /\ V!ListedOpens /\ V!AddressReaches
  /\ B!RunsOwnCode /\ B!UsedIsThere

(* A run takes a flow's blocks in the order of its wires, with the data of   *)
(* the block before where the flow is a chain, and each badge is of its own  *)
(* node while the graph is that of the run.  A stat is the aggregate of the  *)
(* rows that are there.                                                      *)
ResultsTold ==
  F!RunsInOrder /\ F!BadgeIsOwn /\ F!ChainTakesWires /\ W!StatTrue

(* What was drawn on a canvas stays on it whatever is saved or run           *)
(* (flow-canvas.js, which takes what its parent renders).                    *)
CanvasKept == F!CanvasKept
=============================================================================
