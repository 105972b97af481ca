------------------------------ MODULE TablePage ------------------------------
(***************************************************************************)
(* The page that shows a table of the organization (databases/[id]), with   *)
(* queryDataAdvanced, which answers it: paging, sorting, a filter, a        *)
(* selection, and the form that edits a record.                             *)
(*                                                                         *)
(* The page fetches whenever its view changes, and after each write with    *)
(* the view that was current when the button was pressed: a handler keeps   *)
(* the fetchData of the render it belongs to.  Answers come in any order.   *)
(***************************************************************************)
EXTENDS Integers, Sequences, FiniteSets

CONSTANTS
  Keys,         \* values of a column to sort and filter by
  Kinds,        \* types of the columns that the form edits
  PageSize,
  MaxRecords, MaxClicks   \* bounds: ids, and what users do

(* What Screens assumes of the instance's constants: the kinds that are      *)
(* converted each in its way; long_text, uuid and serial go as text does.    *)
(* Dates are left out: they depend on the time zone of the server.           *)
PageAssumption ==
  Kinds \subseteq {"text", "integer", "bigint", "float", "boolean", "timestamp", "json"}

VARIABLES
  records,      \* the table: the key of each record, by id, which is the order
                \*   of created_at
  view,         \* page, sort and filter of the page
  shown,        \* the rows the page shows: their ids, and the view asked for
  selected,
  form,         \* the form, and one column of the record it was opened on
  fetches,      \* fetches that are not answered yet
  writes,       \* writes likewise, each with the view of its render
  steady,       \* history: the view has not changed under a request
  clicks

pageVars ==
  <<records, view, shown, selected, form, fetches, writes, steady, clicks>>

(* Values: null, text (of no letters, of one), numbers, booleans, an object   *)
(* with something in it and one without; an integer above 2^53, what it is   *)
(* rounded to, a float that is no number, and times that are and are not     *)
(* whole milliseconds.                                                       *)
Values == [text |-> {"empty", "x"}, integer |-> {"0", "7"}, bigint |-> {"huge", "rounded"},
           float |-> {"7", "NaN"}, boolean |-> {"true", "false"}, timestamp |-> {"ms", "us"},
           json |-> {"object", "bare", "7"}]
FormColumns == [kind : Kinds, nullable : BOOLEAN]
Allowed(col) == Values[col.kind] \union IF col.nullable THEN {"null"} ELSE {}

Ids == 1 .. MaxRecords
NoForm == [id |-> 0, col |-> [kind |-> "text", nullable |-> FALSE], was |-> "x", v |-> "x",
           saving |-> FALSE]
FirstView == [page |-> 0, by |-> "created_at", up |-> FALSE, only |-> {}]

-----------------------------------------------------------------------------
(* The server.                                                               *)

Matching(only) == {i \in DOMAIN records : only = {} \/ records[i] \in only}

Before(v, i, j) ==
  LET a == IF v.by = "created_at" THEN i ELSE records[i]
      b == IF v.by = "created_at" THEN j ELSE records[j]
  IN IF v.up THEN a <= b ELSE a >= b

(* ORDER BY one column: rows that tie come in any order. *)
Orders(v) ==
  LET n == Cardinality(Matching(v.only))
  IN {s \in [1 .. n -> Matching(v.only)] :
        \A i, j \in 1 .. n : i < j => s[i] # s[j] /\ Before(v, s[i], s[j])}

Upto(n, s) == IF n < Len(s) THEN n ELSE Len(s)
PageOneMore(v, s) ==   \* mutant: LIMIT is one too many
  SubSeq(s, v.page * PageSize + 1, Upto((v.page + 1) * PageSize + 1, s))
Page(v, s) == SubSeq(s, v.page * PageSize + 1, Upto((v.page + 1) * PageSize, s))

Answers(f) ==
  {[for |-> f.for, answered |-> TRUE, rows |-> Page(f.for, s), total |-> Len(s)] : s \in Orders(f.for)}

Query ==
  /\ \E n \in DOMAIN fetches : ~fetches[n].answered /\
       \E a \in Answers(fetches[n]) : fetches' = [fetches EXCEPT ![n] = a]
  /\ UNCHANGED <<records, view, shown, selected, form, writes, steady, clicks>>

Put(i, k) == [j \in DOMAIN records \union {i} |-> IF j = i THEN k ELSE records[j]]
Left(S) == [j \in DOMAIN records \ S |-> records[j]]
Free == {i \in Ids : \A j \in DOMAIN records : i > j}

Act == clicks < MaxClicks /\ clicks' = clicks + 1

(* Other clients write too. *)
Others ==
  /\ Act
  /\ \/ \E i \in Free, k \in Keys : records' = Put(i, k)
     \/ \E i \in DOMAIN records : records' = Left({i})
  /\ UNCHANGED <<view, shown, selected, form, fetches, writes, steady>>

(* A write of the page reaches the table; a PATCH does not change the key. *)
Perform(w) ==
  CASE w.op = "delete" -> records' = Left(w.ids)
    [] w.op = "insert" -> \E i \in Free, k \in Keys : records' = Put(i, k)
    [] w.op = "update" -> UNCHANGED records

-----------------------------------------------------------------------------
(* The page.                                                                 *)

Asked(v) == [for |-> v, answered |-> FALSE, rows |-> <<>>, total |-> 0]
FetchData(v) == fetches' = Append(fetches, Asked(v))

PageInit ==
  /\ records \in [1 .. 2 -> Keys]
  /\ view = FirstView /\ selected = {} /\ form = NoForm
  /\ shown = [rows |-> <<>>, total |-> 0, for |-> FirstView]
  /\ fetches = <<Asked(FirstView)>> /\ writes = <<>>
  /\ steady = TRUE /\ clicks = 0

Without(s, n) == SubSeq(s, 1, n - 1) \o SubSeq(s, n + 1, Len(s))
IdsShown == {shown.rows[k] : k \in DOMAIN shown.rows}

(* The rows that arrive are not those that are selected. *)
ArriveKeepingSelection ==   \* mutant: the selection is kept
  /\ \E n \in DOMAIN fetches :
       /\ fetches[n].answered
       /\ shown' = [x \in DOMAIN shown |-> fetches[n][x]]
       /\ fetches' = Without(fetches, n)
       /\ steady' = (steady \/ (fetches' = <<>> /\ writes = <<>> /\ fetches[n].for = view))
  /\ UNCHANGED <<records, view, selected, form, writes, clicks>>

Arrive ==
  /\ \E n \in DOMAIN fetches :
       /\ fetches[n].answered
       /\ shown' = [x \in DOMAIN shown |-> fetches[n][x]]
       /\ fetches' = Without(fetches, n)
       /\ steady' = (steady \/ (fetches' = <<>> /\ writes = <<>> /\ fetches[n].for = view))
  /\ selected' = {}
  /\ UNCHANGED <<records, view, form, writes, clicks>>

(* The effect fetches when the view is another one. *)
Look(v) ==
  /\ Act /\ view' = v
  /\ IF v = view THEN UNCHANGED <<fetches, steady>>
     ELSE FetchData(v) /\ steady' = (steady /\ fetches = <<>> /\ writes = <<>>)
  /\ UNCHANGED <<records, shown, selected, form, writes>>

ToggleSort ==
  \E col \in {"created_at", "key"} :
    Look([view EXCEPT !.page = 0, !.by = col, !.up = IF view.by = col THEN ~view.up ELSE TRUE])

(* Editing a filter keeps the page; removing one goes to the first. *)
UpdateFilter == \E k \in Keys : Look([view EXCEPT !.only = {k}])
RemoveFilter == Look([view EXCEPT !.only = {}, !.page = 0])

(* Apply sets the page and fetches, with the page there was. *)
ApplyFilters ==
  /\ Act /\ view' = [view EXCEPT !.page = 0]
  /\ fetches' = IF view.page = 0 THEN Append(fetches, Asked(view))
                ELSE fetches \o <<Asked(view), Asked(view')>>
  /\ steady' = (steady /\ view.page = 0)
  /\ UNCHANGED <<records, shown, selected, form, writes>>

TotalPages == (shown.total + PageSize - 1) \div PageSize
Next_ == view.page < TotalPages - 1 /\ Look([view EXCEPT !.page = @ + 1])
Previous == view.page > 0 /\ Look([view EXCEPT !.page = @ - 1])

Refresh ==
  /\ Act /\ FetchData(view)
  /\ UNCHANGED <<records, view, shown, selected, form, writes, steady>>

ToggleSelect ==
  /\ \E i \in IdsShown : selected' = (selected \ {i}) \union ({i} \ selected)
  /\ Act /\ UNCHANGED <<records, view, shown, form, fetches, writes, steady>>
SelectAll ==
  /\ selected' = IF Cardinality(selected) = Len(shown.rows) THEN {} ELSE IdsShown
  /\ Act /\ UNCHANGED <<records, view, shown, form, fetches, writes, steady>>

Write(w) ==
  /\ Act /\ writes' = Append(writes, w)
  /\ UNCHANGED <<records, view, shown, selected, fetches, steady>>

W(op, ids) == [op |-> op, ids |-> ids, at |-> view]

DeleteSelected == selected # {} /\ Write(W("delete", selected)) /\ UNCHANGED form
DuplicateRecord == shown.rows # <<>> /\ Write(W("insert", {})) /\ UNCHANGED form

(* RecordForm shows null as empty text, and converts each column back.  JSON *)
(* has made null of NaN, and whole milliseconds of a Date.                   *)
Received(was) ==
  CASE was \in {"null", "NaN"} -> "empty" [] was = "us" -> "ms" [] OTHER -> was

OpenForm ==
  /\ form = NoForm /\ \E i \in IdsShown, col \in FormColumns : \E was \in Allowed(col) :
       form' = [id |-> i, col |-> col, was |-> was, v |-> Received(was), saving |-> FALSE]
  /\ Act /\ UNCHANGED <<records, view, shown, selected, fetches, writes, steady>>

(* JSON.parse of an object throws as that of other text does; a bigint comes *)
(* as text, and parseInt makes a double of it.                               *)
Convert(col, v) ==
  IF v = "empty" /\ col.nullable THEN "null" ELSE
  CASE col.kind \in {"integer", "float"} -> IF v = "7" THEN "7" ELSE "0"
    [] col.kind = "bigint" -> "rounded"
    [] col.kind = "boolean" -> IF v = "true" THEN v ELSE "false"
    [] col.kind = "json" -> IF v = "7" THEN "7" ELSE "bare"
    [] OTHER -> v

(* The browser submits nothing while a control that is required is blank, as *)
(* datetime-local is for what it gets.                                       *)
Blank == form.v = "empty" \/ form.col.kind = "timestamp"

HandleSubmit ==
  /\ form # NoForm /\ ~form.saving
  /\ Blank /\ ~form.col.nullable => form.col.kind = "boolean"
  /\ form' = [form EXCEPT !.saving = TRUE]
  /\ Write(W("update", {form.id}))
CloseForm ==
  /\ form # NoForm /\ form' = NoForm /\ Act
  /\ UNCHANGED <<records, view, shown, selected, fetches, writes, steady>>

(* The write is answered, whatever it did; after an update the form closes,  *)
(* a later one too, and the view of the write's render is fetched.           *)
Wrote ==
  /\ \E n \in DOMAIN writes :
       /\ Perform(writes[n])
       /\ writes' = Without(writes, n) /\ FetchData(writes[n].at)
       /\ form' = IF writes[n].op = "update" THEN NoForm ELSE form
  /\ UNCHANGED <<view, shown, selected, steady, clicks>>

PageNext ==
  \/ Query \/ Others \/ Arrive \/ ToggleSort \/ UpdateFilter \/ RemoveFilter \/ ApplyFilters
  \/ Next_ \/ Previous \/ Refresh \/ ToggleSelect \/ SelectAll \/ DeleteSelected
  \/ DuplicateRecord \/ OpenForm \/ HandleSubmit \/ CloseForm \/ Wrote

PageSpec == PageInit /\ [][PageNext]_pageVars

-----------------------------------------------------------------------------
(* Properties.                                                               *)

PageTypeOK ==
  /\ DOMAIN records \subseteq Ids /\ IdsShown \subseteq Ids /\ Len(shown.rows) <= PageSize
  /\ \A n \in DOMAIN fetches : Len(fetches[n].rows) <= fetches[n].total
  /\ \A n \in DOMAIN writes : writes[n].ids \subseteq Ids

(* What is selected is on the screen, so that nothing else is deleted. *)
SelectedShown == selected \subseteq IdsShown

(* When nothing is on its way, the rows are those of the view that the page  *)
(* is set to, unless the view was changed while something was: then an       *)
(* answer for the old one may have come last.                                *)
ShownIsAsked ==
  fetches = <<>> /\ writes = <<>> /\ steady => shown.for = view

(* A record that is saved as the form was opened keeps its value, but for    *)
(* empty text, which becomes null, for integers above 2^53, which lose       *)
(* digits, floats that are no number, times below the millisecond, and JSON, *)
(* of which only numbers are kept.                                           *)
UntouchedKept ==
  form.was \notin {"empty", "huge", "NaN", "us"} /\ form.col.kind # "json" =>
    Convert(form.col, form.v) = form.was
=============================================================================
