------------------------------ MODULE FlowCanvas ------------------------------
(***************************************************************************)
(* A visual flow that its owner has open: FlowCanvas, where the graph is     *)
(* drawn, VisualRenderer, which saves and runs it, the page around them with *)
(* its dialogs (my/[id]/page.js), and POST /api/flow, which runs a list of   *)
(* blocks.  A node is its number, its type and whether it is configured;     *)
(* data is the list of the nodes it came through.                            *)
(***************************************************************************)
EXTENDS Integers, Sequences, FiniteSets, SequencesExt

CONSTANTS
  Types,       \* \subseteq {"data_source", "transform", "custom", "notify", "chart"}
  MaxStored,   \* bound: nodes of a flow that was saved earlier
  MaxNodes,    \* bound: nodes
  MaxEdges,    \* bound: edges
  MaxGestures, \* bound: what the user does to the graph
  MaxRuns,     \* bound: runs
  MaxSaves     \* bound: saves and dialogs

(* What Screens assumes of the instance's constants. *)
CanvasAssumption == MaxStored \in Nat /\ MaxEdges \in Nat

VARIABLES
  nodes, edges,   \* the canvas
  config,         \* the flow in the row of user_pages
  page,           \* the flow in the page as the shell loaded it
  save, dialog,   \* the request of the canvas, and of the shell, under way
  running,        \* the runs under way
  result,         \* the answer shown, or NoResult
  gestures, runs, saves,
  kept            \* history: the flow that the canvas saved last, or the one stored at first

canvasVars == <<nodes, edges, config, page, save, dialog, running, result, gestures, runs, saves, kept>>

(* A new page has the configuration {blocks: []}, which has no nodes. *)
NoFlow == [has |-> FALSE, nodes |-> <<>>, edges |-> <<>>]
Flow(n, e) == [has |-> TRUE, nodes |-> n, edges |-> e]
Idle == [at |-> "no", flow |-> NoFlow]
NoResult == [order |-> <<>>, edges |-> <<>>, results |-> <<>>, shown |-> FALSE]

Distinct(s) == \A i, j \in DOMAIN s : s[i] = s[j] => i = j
Outputs(x) == x.type \in {"data_source", "transform", "custom"}
Inputs(x) == x.type # "data_source"
Stored(t) == [i \in DOMAIN t |-> [id |-> i, type |-> t[i], set |-> TRUE]]
Wires(n) == {e \in (DOMAIN n) \X (DOMAIN n) : e[1] # e[2] /\ Outputs(n[e[1]]) /\ Inputs(n[e[2]])}

CanvasInit ==
  /\ config \in {NoFlow} \union
       UNION {{Flow(n, e) : e \in {s \in BoundedSeq(Wires(n), MaxEdges) : Distinct(s)}} :
                n \in {Stored(t) : t \in [1 .. MaxStored -> Types]}}
  /\ page = config /\ nodes = page.nodes /\ edges = page.edges
  /\ save = Idle /\ dialog = Idle /\ running = <<>> /\ result = NoResult
  /\ gestures = 0 /\ runs = 0 /\ saves = 0 /\ kept = config

(* Those of a list that are in S, in the list's order. *)
Among(s, S) ==
  LET f[k \in 0 .. Len(s)] ==
        IF k = 0 THEN <<>> ELSE IF s[k] \in S THEN Append(f[k - 1], s[k]) ELSE f[k - 1]
  IN f[Len(s)]

Ids(n) == {n[i].id : i \in DOMAIN n}
Node(n, id) == n[CHOOSE i \in DOMAIN n : n[i].id = id]

-----------------------------------------------------------------------------
(* The graph.                                                                *)

Gesture(n, e) ==
  /\ gestures < MaxGestures /\ gestures' = gestures + 1
  /\ nodes' = n /\ edges' = e
  /\ UNCHANGED <<config, page, save, dialog, running, result, runs, saves, kept>>

(* A data source and a transform are of no use before they are configured.   *)
AddNode(t) ==
  LET id == 1 + Max({0} \union Ids(nodes)) IN
  /\ Len(nodes) < MaxNodes
  /\ Gesture(Append(nodes, [id |-> id, type |-> t, set |-> t = "chart"]), edges)

RemoveNode(i) ==
  Gesture(RemoveAt(nodes, i), Among(edges, {e \in ToSet(edges) : nodes[i].id \notin {e[1], e[2]}}))

UpdateNodeConfig(i) == Gesture([nodes EXCEPT ![i].set = ~@], edges)

EndConnect(i, j) ==
  LET e == <<nodes[i].id, nodes[j].id>> IN
  /\ i # j /\ Outputs(nodes[i]) /\ Inputs(nodes[j]) /\ ~Contains(edges, e) /\ Len(edges) < MaxEdges
  /\ Gesture(nodes, Append(edges, e))

RemoveEdge(i) == Gesture(nodes, RemoveAt(edges, i))

-----------------------------------------------------------------------------
(* topologicalSort: nodes without an edge to them first, and then, in the    *)
(* order of the edges, those whose last edge was passed.                     *)

InDegree(e) == [id \in {e[i][2] : i \in DOMAIN e} |-> Cardinality({i \in DOMAIN e : e[i][2] = id})]

(* Along an edge from the node that left the queue.                          *)
Visit(q, cur, edge) ==
  IF edge[1] # cur THEN q
  ELSE LET d == q.degree[edge[2]] - 1 IN
       [degree |-> [q.degree EXCEPT ![edge[2]] = d], order |-> q.order,
        queue |-> IF d = 0 THEN Append(q.queue, edge[2]) ELSE q.queue]

(* A node leaves the queue, and those whose last edge it was enter it.       *)
PassNext(s, e) ==
  LET cur == Head(s.queue)
      visited[k \in 0 .. Len(e)] ==
        IF k = 0 THEN [degree |-> s.degree, order |-> Append(s.order, cur), queue |-> Tail(s.queue)]
        ELSE Visit(visited[k - 1], cur, e[k])
  IN visited[Len(e)]

(* No node enters the queue twice, so it is empty after as many steps as     *)
(* there are nodes.                                                          *)
Sorted(n, e) ==
  LET roots == Among(n, {x \in ToSet(n) : x.id \notin DOMAIN InDegree(e)})
      passed[k \in 0 .. Len(n)] ==
        IF k = 0 THEN [queue |-> [i \in DOMAIN roots |-> roots[i].id], degree |-> InDegree(e), order |-> <<>>]
        ELSE IF passed[k - 1].queue = <<>> THEN passed[k - 1] ELSE PassNext(passed[k - 1], e)
  IN passed[Len(n)].order

TopologicalSort(n, e) == LET order == Sorted(n, e) IN [k \in DOMAIN order |-> Node(n, order[k])]

-----------------------------------------------------------------------------
(* POST /api/flow: the blocks one after the other, each on what the one      *)
(* before it left; failing are those whose call to the database or to the    *)
(* backend fails.                                                            *)

ThroughForgetting(b, s) ==   \* mutant: the next block does not get it
  [s EXCEPT !.results = Append(@, [of |-> b.id, error |-> FALSE, data |-> Append(s.data, b.id)])]
Through(b, s) == [data |-> Append(s.data, b.id),
                  results |-> Append(s.results, [of |-> b.id, error |-> FALSE, data |-> Append(s.data, b.id)])]
Failed(b, s) == [s EXCEPT !.results = Append(@, [of |-> b.id, error |-> TRUE, data |-> <<>>])]

(* A notice without a title, and a type that the handler does not know, have *)
(* no result.                                                                *)
Execute(b, failing, s) ==
  IF b.type = "chart" \/ (b.type = "notify" /\ ~b.set) THEN s
  ELSE IF b.id \in failing \/ (b.type \in {"data_source", "transform"} /\ ~b.set) THEN Failed(b, s)
  ELSE CASE b.type = "data_source" -> Through(b, [s EXCEPT !.data = <<>>])
         [] b.type = "notify" ->
              [s EXCEPT !.results = Append(@, [of |-> b.id, error |-> FALSE, data |-> s.data])]
         [] OTHER -> Through(b, s)

ExecuteFlow(blocks, failing) ==
  LET after[k \in 0 .. Len(blocks)] ==
        IF k = 0 THEN [data |-> <<>>, results |-> <<>>] ELSE Execute(blocks[k], failing, after[k - 1])
  IN after[Len(blocks)].results

Calls(blocks) == {b \in ToSet(blocks) : b.type \in {"data_source", "custom"} \/ (b.type = "notify" /\ b.set)}

-----------------------------------------------------------------------------
(* VisualRenderer.                                                           *)

(* It parses the configuration at each render; where it has no nodes, the    *)
(* canvas gets a new empty list each time, and takes it over.                *)
RerenderEmptying == nodes' = <<>> /\ edges' = <<>>   \* mutant: whatever the page has
Rerender ==
  IF page.has THEN UNCHANGED <<nodes, edges>> ELSE nodes' = <<>> /\ edges' = <<>>

HandleSave ==
  /\ save = Idle /\ saves < MaxSaves /\ saves' = saves + 1
  /\ save' = [at |-> "patch", flow |-> Flow(nodes, edges)]
  /\ Rerender
  /\ UNCHANGED <<config, page, dialog, running, result, gestures, runs, kept>>

Patch ==
  /\ save.at = "patch"
  /\ config' = save.flow /\ save' = [save EXCEPT !.at = "answered"] /\ kept' = save.flow
  /\ UNCHANGED <<nodes, edges, page, dialog, running, result, gestures, runs, saves>>

(* The page is not loaded again.                                             *)
Saved ==
  /\ save.at = "answered" /\ save' = Idle
  /\ Rerender
  /\ UNCHANGED <<config, page, dialog, running, result, gestures, runs, saves, kept>>

HandleRun ==
  /\ nodes # <<>> /\ runs < MaxRuns /\ runs' = runs + 1
  /\ running' = Append(running, [order |-> TopologicalSort(nodes, edges), edges |-> edges])
  /\ result' = NoResult
  /\ Rerender
  /\ UNCHANGED <<config, page, save, dialog, gestures, saves, kept>>

(* Runs do not wait for each other: the answer that comes last is shown.     *)
SetRunResult(k) ==
  LET r == running[k] IN
  /\ \E failing \in SUBSET {b.id : b \in Calls(r.order)} :
       result' = [order |-> r.order, edges |-> r.edges, shown |-> TRUE,
                  results |-> ExecuteFlow(r.order, failing)]
  /\ running' = RemoveAt(running, k)
  /\ Rerender
  /\ UNCHANGED <<config, page, save, dialog, gestures, runs, saves, kept>>

-----------------------------------------------------------------------------
(* The dialogs of the shell: the schedule and the service are saved with the *)
(* configuration of the page as it was loaded; sharing leaves it alone.  The *)
(* page is then loaded again, and the canvas takes what it has.  Request and *)
(* answer are one step here.                                                 *)

Ask(at) ==
  /\ dialog = Idle /\ saves < MaxSaves /\ saves' = saves + 1
  /\ dialog' = [at |-> at, flow |-> page]
  /\ Rerender
  /\ UNCHANGED <<config, page, save, running, result, gestures, runs, kept>>
SaveSchedule == Ask("patch")
UpdateSharing == Ask("load")

PatchConfig ==
  /\ dialog.at = "patch"
  /\ config' = dialog.flow /\ dialog' = [dialog EXCEPT !.at = "load"]
  /\ Rerender
  /\ UNCHANGED <<page, save, running, result, gestures, runs, saves, kept>>

LoadPage ==
  /\ dialog.at = "load" /\ dialog' = Idle
  /\ page' = config /\ nodes' = config.nodes /\ edges' = config.edges
  /\ UNCHANGED <<config, save, running, result, gestures, runs, saves, kept>>

(* What else renders the page: a menu, the tables, the answer of refresh().  *)
Rendered ==
  /\ Rerender
  /\ UNCHANGED <<config, page, save, dialog, running, result, gestures, runs, saves, kept>>

CanvasNext ==
  \/ \E t \in Types : AddNode(t)
  \/ \E i \in DOMAIN nodes : RemoveNode(i) \/ UpdateNodeConfig(i)
  \/ \E i, j \in DOMAIN nodes : EndConnect(i, j)
  \/ \E i \in DOMAIN edges : RemoveEdge(i)
  \/ HandleSave \/ Patch \/ Saved
  \/ HandleRun \/ \E k \in DOMAIN running : SetRunResult(k)
  \/ SaveSchedule \/ UpdateSharing \/ PatchConfig \/ LoadPage \/ Rendered

CanvasSpec == CanvasInit /\ [][CanvasNext]_canvasVars

-----------------------------------------------------------------------------
(* Properties.                                                               *)

IsFlow(f) ==
  /\ Distinct([i \in DOMAIN f.nodes |-> f.nodes[i].id]) /\ Distinct(f.edges)
  /\ \A i \in DOMAIN f.edges :
       f.edges[i][1] # f.edges[i][2] /\ {f.edges[i][1], f.edges[i][2]} \subseteq Ids(f.nodes)

(* Every graph, drawn, saved or loaded, has each node and each wire once,    *)
(* and wires only between nodes that it has.                                 *)
CanvasTypeOK ==
  /\ \A f \in {Flow(nodes, edges), config, page, save.flow, dialog.flow} : IsFlow(f)
  /\ Len(result.results) <= Len(result.order) /\ Len(running) <= runs

(* The nodes that a path of wires leads to.                                  *)
After(from) ==
  LET next[k \in 0 .. Len(nodes)] ==
        IF k = 0 THEN {edges[i][2] : i \in {x \in DOMAIN edges : edges[x][1] = from}}
        ELSE next[k - 1] \union {edges[i][2] : i \in {x \in DOMAIN edges : edges[x][1] \in next[k - 1]}}
  IN next[Len(nodes)]

(* A run gets, once each, the nodes that do not depend on a cycle of wires,  *)
(* each after those it depends on.                                           *)
RunsInOrder ==
  LET order == TopologicalSort(nodes, edges)
      place == [i \in DOMAIN order |-> order[i].id]
      cyclic == {x \in Ids(nodes) : x \in After(x)}
  IN /\ Distinct(place)
     /\ ToSet(place) = Ids(nodes) \ (cyclic \union UNION {After(x) : x \in cyclic})
     /\ \A i, j \in DOMAIN place : place[j] \in After(place[i]) => i < j

(* getNodeResult finds the result of a node by the node's place in the order *)
(* of the graph as it is now.  It is the node's own as long as the order up  *)
(* to there is that of the run and each block of it gave a result.           *)
Answers(x) == x.type # "chart" /\ (x.type = "notify" => x.set)
BadgeIsOwn ==
  result.shown =>
    LET order == TopologicalSort(nodes, edges) IN
    \A k \in DOMAIN order :
      (\A m \in 1 .. k : m \in DOMAIN result.order /\ result.order[m].id = order[m].id /\ Answers(result.order[m]))
      => k \in DOMAIN result.results /\ result.results[k].of = order[k].id

(* The blocks of a run take their data from the block before them in the     *)
(* list, and not along the wires.  For a graph that is one chain it is the   *)
(* same: a node works on what the node wired to it gave.                     *)
ChainTakesWires ==
  LET r == result
      Of(id) == {i \in DOMAIN r.results : r.results[i].of = id /\ ~r.results[i].error}
      Ends(k) == {r.edges[i][k] : i \in DOMAIN r.edges}
  IN (/\ \A k \in {1, 2} : Cardinality(Ends(k)) = Len(r.edges) /\ Ends(k) \subseteq Ids(r.order)
      /\ Len(r.order) = Len(r.edges) + 1)
     => \A e \in ToSet(r.edges) : \A i \in Of(e[1]), j \in Of(e[2]) :
          r.results[j].data \in {Append(r.results[i].data, e[2]), r.results[i].data}

(* Once a flow with nodes was loaded, saving, running and answers leave what *)
(* was drawn since alone: only a page that is loaded again replaces it.      *)
LeavesCanvas ==
  page.has /\ gestures' = gestures /\ dialog' = dialog => UNCHANGED <<nodes, edges>>
CanvasKept == [][LeavesCanvas]_canvasVars

(* The flow that is stored is the one that was saved from the canvas: saving *)
(* a schedule leaves it as it is.  (Not so: the schedule dialog saves the     *)
(* config of the page as it was loaded, an older flow with it.)              *)
FlowKept == config.nodes = kept.nodes /\ config.edges = kept.edges
=============================================================================
