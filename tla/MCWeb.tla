-------------------------------- MODULE MCWeb --------------------------------
(* The parts of the web application, each with the browser tabs and clients  *)
(* that use it, in one instance for TLC, extended, so that a run checks the  *)
(* very properties that the theorems state.  Init picks one of them and the  *)
(* others stay where they start: they share no state that a model keeps.     *)
EXTENDS PageTree, ApiKeys, Logins, OrgTables, PageEditor, LiveView, Notebooks, Accounts,
  Screens
LOCAL INSTANCE TLC

VARIABLE part   \* the part that runs

pageVars == <<records, view, shown, selected, form, fetches, writes, steady, clicks>>
widgetVars == <<rows, widget, screen>>
viewVars == <<held, member, lists, address, edits>>
canvasVars == <<nodes, edges, config, loaded, saving, dialog, running, result, drawn, runs, saves, flow>>
blockVars == <<block, built, handlers, palette, used, deleting, orphaned, ran, acts>>

ASSUME LoginsHold == LoginsAssumption

-----------------------------------------------------------------------------
(* The variables of the parts that do not run are not used.                  *)

TwoPages == <<"p", "q">>
(* As of custom_a_ and custom_ab: one has an underscore that matches.        *)
OneWay == [a |-> {"a", "b"}, b |-> {"b"}]

(* The tabs are alike, and the properties are invariants and of steps.       *)
TabSymmetry == Permutations(Tabs)

AnAdmin == CHOOSE m \in Members : TRUE
AKey == CHOOSE k \in Records : TRUE
AnAddress == CHOOSE a \in Addresses : TRUE
AStat == [type |-> "stat", table |-> FALSE, column |-> FALSE, agg |-> "count"]

MCInit ==
  /\ part \in {"tree", "keys", "accounts", "tables", "records", "logins", "editor", "notebooks",
               "live", "widgets", "views", "canvas", "blocks"}
  /\ TreeInit /\ KeysInit /\ LoginsInit /\ TablesInit /\ EditInit /\ NbInit /\ LiveInit /\ AccountsInit /\ B!BlocksInit
  /\ part # "logins" => keyed
  /\ part # "notebooks" => db = 0 /\ legacy = 0 /\ server = "ready"
  /\ part # "live" => \A c \in Chans : stored[c] = "none"
  /\ part # "accounts" => grants = Defaults /\ \A m \in DOMAIN users : m = AnAdmin
  /\ P!PageInit
  /\ part # "records" => \A i \in DOMAIN records : records[i] = AKey
  /\ W!WidgetInit
  /\ part # "widgets" => rows = <<>> /\ widget = AStat
  /\ V!ViewInit
  /\ part # "views" =>
       /\ \A p \in DOMAIN held : held[p].type = "html" /\ held[p].slug = AnAddress
       /\ ~member.dashboards /\ member.apps = {}
  /\ IF part = "canvas" THEN F!CanvasInit
     ELSE /\ config = F!NoFlow /\ loaded = config /\ nodes = <<>> /\ edges = <<>>
          /\ saving = F!Idle /\ dialog = F!Idle /\ running = <<>> /\ result = F!NoResult
          /\ drawn = 0 /\ runs = 0 /\ saves = 0 /\ flow = config

MCNext ==
  /\ UNCHANGED part
  /\ \/ part = "tree" /\ TreeNext
     \/ part # "tree" /\ UNCHANGED treeVars
  /\ \/ part = "keys" /\ KeysNext
     \/ part # "keys" /\ UNCHANGED keysVars
  /\ \/ part = "accounts" /\ AccountsNext
     \/ part # "accounts" /\ UNCHANGED accountsVars
  /\ \/ part = "tables" /\ TablesNext
     \/ part # "tables" /\ UNCHANGED tablesVars
  /\ \/ part = "records" /\ P!PageNext
     \/ part # "records" /\ UNCHANGED pageVars
  /\ \/ part = "logins" /\ LoginsNext
     \/ part # "logins" /\ UNCHANGED loginVars
  /\ \/ part = "editor" /\ EditNext
     \/ part # "editor" /\ UNCHANGED editVars
  /\ \/ part = "notebooks" /\ NbNext
     \/ part # "notebooks" /\ UNCHANGED nbVars
  /\ \/ part = "live" /\ LiveNext
     \/ part # "live" /\ UNCHANGED liveVars
  /\ \/ part = "widgets" /\ W!WidgetNext
     \/ part # "widgets" /\ UNCHANGED widgetVars
  /\ \/ part = "views" /\ V!ViewNext
     \/ part # "views" /\ UNCHANGED viewVars
  /\ \/ part = "canvas" /\ F!CanvasNext
     \/ part # "canvas" /\ UNCHANGED canvasVars
  /\ \/ part = "blocks" /\ B!BlocksNext
     \/ part # "blocks" /\ UNCHANGED blockVars

MCSpec ==
  MCInit /\ [][MCNext]_<<part, treeVars, keysVars, accountsVars, tablesVars, pageVars,
                        loginVars, editVars, nbVars, liveVars, widgetVars,
                        viewVars, canvasVars, blockVars>>

-----------------------------------------------------------------------------
(* The properties of the parts, by what they are about; those of the parts   *)
(* that are extended are checked as they are.                                *)

(* Each part's variables keep their types. *)
WebTypeOK ==
  CASE part = "tree" -> TreeTypeOK [] part = "keys" -> KeysTypeOK [] part = "accounts" -> AccountsTypeOK
    [] part = "tables" -> TablesTypeOK [] part = "records" -> P!PageTypeOK [] part = "logins" -> LoginsTypeOK
    [] part = "editor" -> EditTypeOK [] part = "notebooks" -> NbTypeOK [] part = "live" -> LiveTypeOK
    [] part = "widgets" -> W!WidgetTypeOK [] part = "views" -> V!ViewTypeOK [] part = "canvas" -> F!CanvasTypeOK
    [] part = "blocks" -> B!BlocksTypeOK

=============================================================================
