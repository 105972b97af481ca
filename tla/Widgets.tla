-------------------------------- MODULE Widgets --------------------------------
(***************************************************************************)
(* What a dashboard's widget shows: resolveWidgetData (api/dashboards and    *)
(* api/public) over the newest rows of a table (queryData), and the views    *)
(* that draw its answer: the editor (my/[id]), a published page by its       *)
(* address as an app (a/[slug]) or as a dashboard (d/[slug]), and the public *)
(* one.  A view loads the data of a widget when it opens and on Refresh.     *)
(* The table has one column, of numbers and of text that is none, and        *)
(* created_at, the time of a row, which is its place in the table.           *)
(***************************************************************************)
EXTENDS Integers, Sequences, FiniteSets, SequencesExt

CONSTANTS
  Numbers,     \* numbers in the column
  Limit,       \* rows a widget asks for (100)
  MaxRows,     \* bound: rows
  MaxOpen      \* bound: views that are opened

(* What Screens assumes of the instance's constants. *)
WidgetsAssumption == Limit \in Nat \ {0} /\ Numbers \subseteq Int

VARIABLES
  rows,        \* the table: <<n>>, or <<>> for what parseFloat makes NaN
  widget,      \* the widget of the dashboard
  screen       \* of each view, what it shows, and how many rows there were

widgetVars == <<rows, widget, screen>>

NaN == <<>>
Views == {"editor", "app", "dashboard", "public"}
WidgetTypes == {"stat", "line", "bar", "pie", "table", "text", "live"}
Aggregations == {"count", "avg", "sum", "min", "max"}

(* What the form of a widget can leave in its configuration. *)
Configured ==
  [type : {"stat"}, table : BOOLEAN, column : BOOLEAN, agg : Aggregations]
  \union [type : WidgetTypes \ {"stat"}, table : BOOLEAN, column : BOOLEAN, agg : {"count"}]

Nothing == [kind |-> "nothing", value |-> NaN, labels |-> <<>>, values |-> <<>>]
Unloaded == [shows |-> [Nothing EXCEPT !.kind = "loading"], of |-> 0]

WidgetInit ==
  /\ rows \in {<<>>, <<NaN>>} /\ widget \in Configured
  /\ screen = [v \in Views |-> Unloaded]

-----------------------------------------------------------------------------
(* The answer to a widget.                                                   *)

(* created_at DESC: the column is not among those of the table that can be   *)
(* asked for, and is the default.                                            *)
QueryData(t) == Reverse(SubSeq(t, IF Len(t) > Limit THEN Len(t) - Limit + 1 ELSE 1, Len(t)))
TimesOf(t) == Reverse([i \in 1 .. (IF Len(t) > Limit THEN Limit ELSE Len(t)) |->
                         Len(t) - i + 1])   \* labels, reversed

(* The rows with a number, and what their numbers add up to. *)
Parsed(rs) == {i \in DOMAIN rs : rs[i] # NaN}
Total(rs) ==
  LET t[k \in 0 .. Len(rs)] ==
        IF k = 0 THEN 0 ELSE IF k \in Parsed(rs) THEN t[k - 1] + rs[k][1] ELSE t[k - 1]
  IN t[Len(rs)]
(* Math.round to hundredths, in hundredths. *)
Rounded(n, d) == (200 * n + d) \div (2 * d)

(* Of no numbers, the least is Infinity, which JSON turns into null. *)
Aggregate(agg, rs) ==
  LET at == Parsed(rs)
      values == {rs[i][1] : i \in at} IN
  CASE agg = "count" -> <<100 * Len(rs)>>
    [] agg = "avg" -> <<IF at = {} THEN 0 ELSE Rounded(Total(rs), Cardinality(at))>>
    [] agg = "sum" -> <<100 * Total(rs)>>
    [] agg = "min" -> IF at = {} THEN NaN ELSE <<100 * Min(values)>>
    [] agg = "max" -> IF at = {} THEN NaN ELSE <<100 * Max(values)>>

OrZero(x) == IF x = NaN THEN <<0>> ELSE x
Series(rs) == [i \in DOMAIN rs |-> OrZero(rs[i])]

Chart(t) ==
  [Nothing EXCEPT !.kind = "chart", !.labels = TimesOf(t), !.values = Reverse(Series(QueryData(t)))]

ResolveWidgetData(w, t) ==
  IF w.type = "text" THEN [Nothing EXCEPT !.kind = "text"]
  ELSE IF w.type = "live" \/ ~w.table THEN [Nothing EXCEPT !.kind = "message"]
  ELSE CASE w.type = "stat" ->
              [Nothing EXCEPT !.kind = "stat",
                              !.value = Aggregate(IF w.column THEN w.agg ELSE "count", QueryData(t))]
         [] w.type = "table" -> [Nothing EXCEPT !.kind = "rows", !.values = QueryData(t)]
         [] OTHER -> IF w.column THEN Chart(t) ELSE [Nothing EXCEPT !.kind = "chart"]

-----------------------------------------------------------------------------
(* The views.                                                                *)

(* What the four components have in common: no case for pie charts, and what *)
(* a stat or table shows without a table configured is empty.                *)
Draws(w, d) ==
  CASE w.type = "stat" -> [Nothing EXCEPT !.kind = "value", !.value = d.value]
    [] w.type = "text" -> [Nothing EXCEPT !.kind = "text"]
    [] w.type = "table" -> [Nothing EXCEPT !.kind = "table", !.values = d.values]
    [] w.type \in {"bar", "line"} /\ d.kind = "chart" -> d
    [] OTHER -> Nothing

WidgetView(w, d) == IF w.type = "live" THEN [Nothing EXCEPT !.kind = "live"] ELSE Draws(w, d)
DashWidget(w, d) == Draws(w, d)
SimpleWidget(w, d) == Draws(w, d)

(* The public view looks for widgets in the page itself, not in its config.  *)
Shown(v) ==
  LET d == ResolveWidgetData(widget, rows) IN
  CASE v = "editor" -> WidgetView(widget, d)
    [] v = "app" -> DashWidget(widget, d)
    [] v = "dashboard" -> SimpleWidget(widget, d)
    [] v = "public" -> Nothing

LoadWidgets(v) ==
  /\ screen[v] # Unloaded \/ Cardinality({w \in Views : screen[w] # Unloaded}) < MaxOpen
  /\ screen' = [screen EXCEPT ![v] = [shows |-> Shown(v), of |-> Len(rows)]]
  /\ UNCHANGED <<rows, widget>>

InsertRow ==
  /\ Len(rows) < MaxRows
  /\ \E x \in {NaN} \union {<<n>> : n \in Numbers} : rows' = Append(rows, x)
  /\ UNCHANGED <<widget, screen>>

WidgetNext == InsertRow \/ \E v \in Views : LoadWidgets(v)

WidgetSpec == WidgetInit /\ [][WidgetNext]_widgetVars

-----------------------------------------------------------------------------
(* Properties.                                                               *)

WidgetTypeOK ==
  /\ Len(rows) <= MaxRows /\ widget \in Configured
  /\ \A v \in Views : screen[v].of <= Len(rows)

ShowsNow(v) == screen[v].shows.kind # "loading" /\ screen[v].of = Len(rows)
In(x) == {i \in DOMAIN rows : rows[i] = <<x>>}
Sum ==
  LET upto[k \in 0 .. Len(rows)] == IF k = 0 THEN 0 ELSE upto[k - 1] + OrZero(rows[k])[1]
  IN upto[Len(rows)]
Size == Cardinality({i \in DOMAIN rows : rows[i] # NaN})

(* A stat of a table that fits its limit is the aggregate of all its numbers: *)
(* an average is right to half a hundredth, a least one is there and no other *)
(* is less.                                                                  *)
StatTrue ==
  ShowsNow("editor") /\ widget.type = "stat" /\ widget.table /\ widget.column /\ Len(rows) <= Limit =>
    LET x == screen["editor"].shows.value IN
    CASE widget.agg = "count" -> x = <<100 * Len(rows)>>
      [] widget.agg = "sum" -> x = <<100 * Sum>>
      [] widget.agg = "avg" -> Size > 0 => LET e == x[1] * Size - 100 * Sum IN 2 * e <= Size /\ 2 * e > - Size - 1
      [] OTHER -> Size > 0 =>
           /\ x # NaN /\ \E n \in Numbers : In(n) # {} /\ x[1] = 100 * n
           /\ \A n \in Numbers : In(n) # {} => IF widget.agg = "min" THEN x[1] <= 100 * n ELSE x[1] >= 100 * n

(* A chart goes forward in time to the newest row, each value under the time *)
(* of its own row.                                                           *)
ChartInOrder ==
  ShowsNow("editor") /\ screen["editor"].shows.kind = "chart" /\ widget.column =>
    LET c == screen["editor"].shows IN
    /\ Len(c.labels) = Len(c.values)
    /\ Len(rows) > 0 => Last(c.labels) = Len(rows)
    /\ \A i \in DOMAIN c.labels :
         /\ i > 1 => c.labels[i] = c.labels[i - 1] + 1
         /\ c.values[i] = OrZero(rows[c.labels[i]])

(* Views of the organization that show the same rows show them alike, but    *)
(* for live widgets, which only the editor draws.                            *)
SameShown ==
  \A v, w \in Views \ {"public"} :
    ShowsNow(v) /\ ShowsNow(w) /\ widget.type # "live" => screen[v] = screen[w]
=============================================================================
