------------------------------ MODULE PageEditor ------------------------------
(***************************************************************************)
(* A dashboard that its owner has open in several tabs (my/[id]/page.js):   *)
(* the shell that loads the page, shares it and saves its configuration,    *)
(* and DashboardRenderer, which edits the widgets and fetches their data.   *)
(* Requests of a tab do not wait for each other.  A widget is its number    *)
(* and how often it was configured; its data is known by that widget.       *)
(***************************************************************************)
EXTENDS Integers, Sequences, FiniteSets, SequencesExt

CONSTANTS
  EditTabs,      \* tabs
  Peers,         \* whom the page can be shared with
  MaxWidgets,    \* bound: widgets ever added
  MaxGestures,   \* bound: what the user does
  MaxPending     \* bound: requests of a tab under way at once

VARIABLES
  row,       \* the row of user_pages: [visibility, shared, widgets, version]
  open,      \* what each tab shows
  patches,   \* of each tab, the requests of the share dialog
  save,      \* of each tab, the request of the save button
  loads,     \* of each tab, what its calls of loadWidgetData load
  added, gestures,
  have,      \* history, of each tab: the widgets loaded, plus added, less removed
  tangled,   \* history: tabs that had two requests of the dialog under way
  latest,    \* history: the tab that last changed who may see the page
  trusted    \* history: tabs whose last load started when no other was under way,
             \*   and that have not cancelled an edit since

editVars == <<row, open, patches, save, loads, added, gestures, have, tangled, latest, trusted>>

NoSave == [at |-> "no", widgets |-> <<>>, version |-> 0]
NoTab == "none"
WidgetIds(w) == {w[i].id : i \in DOMAIN w}
Loaded(r) == [page |-> r, widgets |-> r.widgets, data |-> <<>>, editing |-> FALSE, edit |-> 0]

EditInit ==
  /\ row = [visibility |-> "private", shared |-> {}, widgets |-> <<>>, version |-> 0]
  /\ open = [t \in EditTabs |-> Loaded(row)]
  /\ patches = [t \in EditTabs |-> <<>>] /\ save = [t \in EditTabs |-> NoSave]
  /\ loads = [t \in EditTabs |-> <<>>]
  /\ added = 0 /\ gestures = 0
  /\ have = [t \in EditTabs |-> {}] /\ tangled = {} /\ latest = NoTab /\ trusted = EditTabs

Gesture == gestures < MaxGestures /\ gestures' = gestures + 1

-----------------------------------------------------------------------------
(* The share dialog: it computes the list from the page as loaded, sends the *)
(* whole list, and then loads the page again.                                *)

Sends(t, r) ==
  /\ Gesture /\ Len(patches[t]) < MaxPending
  /\ patches' = [patches EXCEPT ![t] = Append(@, r)]
  /\ tangled' = IF patches[t] = <<>> THEN tangled ELSE tangled \union {t}
  /\ UNCHANGED <<row, open, save, loads, added, have, latest, trusted>>

UpdateSharing(t) ==
  \E m \in Peers : LET s == open[t].page.shared IN
    Sends(t, [at |-> "patch", row |-> [open[t].page EXCEPT !.shared = (s \ {m}) \union ({m} \ s)],
             field |-> "shared"])
UpdateVisibility(t) ==
  \E v \in {"private", "org", "public"} :
    Sends(t, [at |-> "patch", row |-> [open[t].page EXCEPT !.visibility = v], field |-> "visibility"])

Patch(t) ==
  \E i \in DOMAIN patches[t] : LET r == patches[t][i] IN
    /\ r.at = "patch" /\ row' = [row EXCEPT ![r.field] = r.row[r.field]] /\ latest' = t
    /\ patches' = [patches EXCEPT ![t][i].at = "get"]
    /\ UNCHANGED <<open, save, loads, added, gestures, have, tangled, trusted>>

Get(t) ==
  \E i \in DOMAIN patches[t] :
    /\ patches[t][i].at = "get"
    /\ patches' = [patches EXCEPT ![t][i].at = "answer", ![t][i].row = row]
    /\ UNCHANGED <<row, open, save, loads, added, gestures, have, tangled, latest, trusted>>

(* setPage: the widgets shown change only when the page is opened anew. *)
SetPage(t) ==
  \E i \in DOMAIN patches[t] :
    /\ patches[t][i].at = "answer"
    /\ open' = [open EXCEPT ![t].page = patches[t][i].row]
    /\ patches' = [patches EXCEPT ![t] = RemoveAt(@, i)]
    /\ UNCHANGED <<row, save, loads, added, gestures, have, tangled, latest, trusted>>

-----------------------------------------------------------------------------
(* The widgets.                                                              *)

LoadWidgetData(t, w) ==
  /\ loads' = [loads EXCEPT ![t] = Append(@, w)]
  /\ trusted' = IF loads[t] # <<>> THEN trusted \ {t}
                ELSE IF save[t] = NoSave THEN trusted \union {t} ELSE trusted

SetWidgetData(t) ==
  \E i \in DOMAIN loads[t] :
    /\ open' = [open EXCEPT ![t].data = loads[t][i]]
    /\ loads' = [loads EXCEPT ![t] = RemoveAt(@, i)]
    /\ UNCHANGED <<row, patches, save, added, gestures, have, tangled, latest, trusted>>

(* The page opened anew in the tab; what was under way is forgotten. *)
Reopen(t) ==
  /\ Gesture /\ save[t] = NoSave /\ patches[t] = <<>>
  /\ open' = [open EXCEPT ![t] = Loaded(row)]
  /\ loads' = [loads EXCEPT ![t] = <<row.widgets>>] /\ trusted' = trusted \union {t}
  /\ have' = [have EXCEPT ![t] = WidgetIds(row.widgets)]
  /\ tangled' = tangled \ {t}
  /\ UNCHANGED <<row, patches, save, added, latest>>

Refresh(t) ==
  /\ Gesture /\ ~open[t].editing /\ Len(loads[t]) < MaxPending /\ LoadWidgetData(t, open[t].widgets)
  /\ UNCHANGED <<row, open, patches, save, added, have, tangled, latest>>

Edit(t) ==
  /\ Gesture /\ ~open[t].editing /\ open' = [open EXCEPT ![t].editing = TRUE]
  /\ UNCHANGED <<row, patches, save, loads, added, have, tangled, latest, trusted>>

(* What the edit mode does to the widgets, and the form that is open after.  *)
EditWidgets(t, w, edit) ==
  /\ Gesture /\ open[t].editing
  /\ open' = [open EXCEPT ![t].widgets = w, ![t].edit = edit]
  /\ UNCHANGED <<row, patches, save, loads, tangled, latest, trusted>>

AddWidget(t) ==
  /\ added < MaxWidgets /\ added' = added + 1
  /\ EditWidgets(t, Append(open[t].widgets, [id |-> added + 1, rev |-> 0]), Len(open[t].widgets) + 1)
  /\ have' = [have EXCEPT ![t] = @ \union {added + 1}]

RemoveWidget(t) ==
  \E i \in DOMAIN open[t].widgets :
    /\ EditWidgets(t, RemoveAt(open[t].widgets, i), 0)
    /\ have' = [have EXCEPT ![t] = @ \ {open[t].widgets[i].id}] /\ UNCHANGED added

UpdateConfig(t) ==
  LET i == open[t].edit IN
  /\ i # 0 /\ open[t].widgets[i].rev = 0
  /\ EditWidgets(t, [open[t].widgets EXCEPT ![i].rev = 1], i)
  /\ UNCHANGED <<added, have>>

Swallow(w, from, to) == RemoveAt([w EXCEPT ![to] = w[from]], from)   \* mutant: splice(target, 1, moved)
Moved(w, from, to) == InsertAt(RemoveAt(w, from), to, w[from])

HandleDrop(t) ==
  \E from, to \in DOMAIN open[t].widgets :
    /\ from # to /\ EditWidgets(t, Moved(open[t].widgets, from, to), to)
    /\ UNCHANGED <<added, have>>

ClickWidget(t) ==
  /\ \E i \in DOMAIN open[t].widgets :
       EditWidgets(t, open[t].widgets, IF open[t].edit = i THEN 0 ELSE i)
  /\ UNCHANGED <<added, have>>

-----------------------------------------------------------------------------
(* Save and Cancel.  The version is that of the page as loaded, plus one;    *)
(* the page is not loaded again.                                             *)

Leaves(t) == open' = [open EXCEPT ![t].editing = FALSE, ![t].edit = 0]

Save(t) ==
  /\ Gesture /\ open[t].editing /\ save[t] = NoSave /\ Leaves(t)
  /\ save' = [save EXCEPT ![t] = [at |-> "patch", widgets |-> open[t].widgets,
                                  version |-> open[t].page.version + 1]]
  /\ trusted' = trusted \union {t}
  /\ UNCHANGED <<row, patches, loads, added, have, tangled, latest>>

(* Cancel restores nothing. *)
Cancel(t) ==
  /\ Gesture /\ open[t].editing /\ Leaves(t) /\ trusted' = trusted \ {t}
  /\ UNCHANGED <<row, patches, save, loads, added, have, tangled, latest>>

SaveConfig(t) ==
  /\ save[t].at = "patch" /\ save' = [save EXCEPT ![t].at = "done"]
  /\ row' = [row EXCEPT !.widgets = save[t].widgets, !.version = save[t].version]
  /\ UNCHANGED <<open, patches, loads, added, gestures, have, tangled, latest, trusted>>

Saved(t) ==
  /\ save[t].at = "done" /\ save' = [save EXCEPT ![t] = NoSave]
  /\ Len(loads[t]) < MaxPending /\ LoadWidgetData(t, save[t].widgets)
  /\ UNCHANGED <<row, open, patches, added, gestures, have, tangled, latest>>

EditNext ==
  \E t \in EditTabs :
    \/ UpdateSharing(t) \/ UpdateVisibility(t) \/ Patch(t) \/ Get(t) \/ SetPage(t)
    \/ SetWidgetData(t) \/ Reopen(t) \/ Refresh(t) \/ Edit(t)
    \/ AddWidget(t) \/ RemoveWidget(t) \/ UpdateConfig(t) \/ HandleDrop(t) \/ ClickWidget(t)
    \/ Save(t) \/ Cancel(t) \/ SaveConfig(t) \/ Saved(t)

EditSpec == EditInit /\ [][EditNext]_editVars

-----------------------------------------------------------------------------
(* Properties.                                                               *)

(* Types; and the form that is open is that of a widget. *)
EditTypeOK ==
  /\ row.shared \subseteq Peers /\ row.version \in Nat
  /\ \A t \in EditTabs : open[t].edit \in 0 .. Len(open[t].widgets)

(* Whatever the edits, a widget that was loaded or added is there once,      *)
(* until it is removed.                                                      *)
WidgetsKept ==
  \A t \in EditTabs : LET w == open[t].widgets IN
    WidgetIds(w) = have[t] /\ Cardinality(WidgetIds(w)) = Len(w)

(* Data is kept by position.  Once its loads are over, a tab that shows the  *)
(* dashboard shows at each position the data of the widget there, unless its *)
(* last load overlapped another, or edits were cancelled since.              *)
DataFollows ==
  \A t \in trusted :
    ~open[t].editing /\ save[t] = NoSave /\ loads[t] = <<>> => open[t].data = open[t].widgets

(* The tab that last changed who may see the page shows what is stored once  *)
(* its requests are over, unless two of them overlapped.                     *)
SharingShown ==
  latest # NoTab /\ latest \notin tangled /\ patches[latest] = <<>>
    => /\ open[latest].page.shared = row.shared
       /\ open[latest].page.visibility = row.visibility

(* Every save makes the version greater.  (Not so: it is the version the tab *)
(* has loaded that is increased.)                                            *)
VersionGrows == [][\A t \in EditTabs : SaveConfig(t) => row'.version > row.version]_editVars

(* What is checked of the widgets, their data and the sharing: a dashboard   *)
(* that is edited keeps its widgets, shows each with its own data, and says  *)
(* of its sharing what is stored (my/[id]/page.js).                          *)
EditsHold == WidgetsKept /\ DataFollows /\ SharingShown
=============================================================================
