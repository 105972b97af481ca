------------------------------ MODULE Notebooks ------------------------------
(***************************************************************************)
(* A notebook page and its file in Jupyter.  The page's configuration keeps *)
(* the content; opening the editor pushes it to a file of the user in the   *)
(* organization's JupyterLab (api/notebooks), "Save & Close" pulls the file *)
(* back and deletes it (api/notebooks/[name]), and so does viewing a page   *)
(* without content.  Jupyter itself is external.                            *)
(* Content is a number: 0 for none, and a new one for every edit.           *)
(***************************************************************************)
EXTENDS Integers, FiniteSets

CONSTANTS
  NbTabs,        \* tabs in which the owner has the page open
  MaxContent,    \* bound: contents
  MaxTurns,      \* bound: what the user does
  MaxOutages     \* bound: requests to Jupyter that fail

VARIABLES
  db,            \* config.notebook_content
  file, legacy,  \* u<id>_<name>.ipynb, and org_<id>/<name>.ipynb of old notebooks
  server,        \* the organization's Jupyter server
  nb,            \* each tab: what it does, and the document in its editor
  call,          \* the handler that each tab's request is in
  newest,        \* the last content handed out
  turns, outages,
  kept,          \* history: the content that was pushed, found or autosaved last
  disturbed      \* history: two tabs at once, an editor left or closed with what
                 \*   it had not saved, a push to a server that was not ready, or
                 \*   a pull that failed

nbVars == <<db, file, legacy, server, nb, call, newest, turns, outages, kept, disturbed>>

NoCall == [at |-> "no", for |-> "no", content |-> 0]
View == [at |-> "view", doc |-> 0]
Sets(t, at) == nb' = [nb EXCEPT ![t].at = at]
Stage(t, at, content) == call' = [call EXCEPT ![t].at = at, ![t].content = content]

NbInit ==
  /\ db \in {0, 1} /\ file = 0 /\ legacy \in {0, 2}
  /\ server \in {"stopped", "ready"}
  /\ nb = [t \in NbTabs |-> View]
  /\ call = [t \in NbTabs |-> NoCall]
  /\ newest = 2 /\ turns = 0 /\ outages = 0
  /\ kept = db /\ disturbed = FALSE

Busy(t) == nb[t].at # "view" \/ call[t] # NoCall
Alone(t) == \A o \in NbTabs \ {t} : ~Busy(o)
Turn == turns < MaxTurns /\ turns' = turns + 1

StartsCall(t, for, at) ==
  /\ call[t] = NoCall
  /\ call' = [call EXCEPT ![t] = [at |-> at, for |-> for, content |-> 0]]
  /\ disturbed' = (disturbed \/ ~Alone(t)) /\ Sets(t, IF for = "open" THEN "opening" ELSE "closing")

-----------------------------------------------------------------------------
(* The owner.                                                                *)

OpenNotebook(t) ==
  /\ Turn /\ nb[t].at = "view" /\ StartsCall(t, "open", "read")
  /\ UNCHANGED <<db, file, legacy, server, newest, outages, kept>>

SaveAndClose(t) ==
  /\ Turn /\ nb[t].at = "editing" /\ StartsCall(t, "close", "fetch")
  /\ UNCHANGED <<db, file, legacy, server, newest, outages, kept>>

(* The page is loaded (again): without content, it is pulled.  An editor     *)
(* that was open is gone, with what it had not saved, and the file stays.    *)
LoadPage(t) ==
  /\ Turn /\ call[t] = NoCall
  /\ nb' = [nb EXCEPT ![t] = View]
  /\ disturbed' = (disturbed \/ ~Alone(t) \/ nb[t].at # "view")
  /\ call' = [call EXCEPT ![t] =
       IF db = 0 THEN [at |-> "fetch", for |-> "migrate", content |-> 0] ELSE NoCall]
  /\ UNCHANGED <<db, file, legacy, server, newest, outages, kept>>

Type(t) ==
  /\ Turn /\ nb[t].at \in {"editing", "closing"} /\ nb[t].doc # 0 /\ newest < MaxContent /\ newest' = newest + 1
  /\ nb' = [nb EXCEPT ![t].doc = newest + 1]
  /\ UNCHANGED <<db, file, legacy, server, call, outages, kept, disturbed>>

(* Jupyter: a server that was asked to start is ready at last, and the         *)
(* editor saves its document some time.                                      *)
Ready ==
  /\ server = "starting" /\ server' = "ready"
  /\ UNCHANGED <<db, file, legacy, nb, call, newest, turns, outages, kept, disturbed>>

Autosave(t) ==
  /\ nb[t].at \in {"editing", "closing"} /\ nb[t].doc \notin {0, file} /\ server = "ready"
  /\ file' = nb[t].doc /\ kept' = nb[t].doc
  /\ disturbed' = (disturbed \/ call[t].at \in {"merge", "delete"})
  /\ UNCHANGED <<db, legacy, server, nb, call, newest, turns, outages>>

-----------------------------------------------------------------------------
(* api/notebooks: read the page, start the server, look for content, push.   *)

ReadPage(t) ==
  /\ call[t].for = "open" /\ call[t].at = "read" /\ Stage(t, "spawn", db)
  /\ UNCHANGED <<db, file, legacy, server, nb, newest, turns, outages, kept, disturbed>>

(* A 202 is ok, so it counts as started before it is ever polled.            *)
EnsureServerRunning(t) ==
  /\ call[t].at = "spawn" /\ Stage(t, "find", call[t].content)
  /\ server' = IF server = "stopped" THEN "starting" ELSE server
  /\ UNCHANGED <<db, file, legacy, nb, newest, turns, outages, kept, disturbed>>

Held(path) == IF server = "ready" THEN path ELSE 0

(* Without content: the old file, then the new one, or else a starter; what  *)
(* was found is stored.                                                      *)
Find(t) ==
  /\ call[t].at = "find"
  /\ LET found == IF Held(legacy) # 0 THEN legacy ELSE Held(file) IN
     IF call[t].content # 0 THEN Stage(t, "push", call[t].content) /\ UNCHANGED <<db, newest>>
     ELSE IF found # 0 THEN Stage(t, "push", found) /\ db' = found /\ UNCHANGED newest
     ELSE newest < MaxContent /\ newest' = newest + 1 /\ Stage(t, "push", newest + 1) /\ UNCHANGED db
  /\ kept' = IF db' = db THEN kept ELSE db'
  /\ UNCHANGED <<file, legacy, server, nb, turns, outages, disturbed>>

(* The answer to the push is not looked at. *)
Push(t) ==
  /\ call[t].at = "push" /\ call' = [call EXCEPT ![t] = NoCall]
  /\ file' = IF server = "ready" THEN call[t].content ELSE file
  /\ disturbed' = (disturbed \/ server # "ready") /\ kept' = call[t].content
  /\ nb' = [nb EXCEPT ![t].at = "editing", ![t].doc = Held(file')]
  /\ UNCHANGED <<db, legacy, server, newest, turns, outages>>

-----------------------------------------------------------------------------
(* api/notebooks/[name]: fetch the file, merge it into the page, delete it.  *)

Returns(t) ==
  /\ call' = [call EXCEPT ![t] = NoCall]
  /\ nb' = [nb EXCEPT ![t] = View]

Pulls(t, found) ==
  /\ IF found = 0 THEN Returns(t) ELSE Stage(t, "merge", found) /\ UNCHANGED nb
  /\ disturbed' = (disturbed \/ (call[t].for = "close" /\ (found = 0 \/ nb[t].doc # file)))
  /\ kept' = IF call[t].for = "migrate" /\ found # 0 THEN found ELSE kept
  /\ UNCHANGED <<db, file, legacy, server, newest, turns, outages>>

FetchLegacyFirst(t) ==   \* mutant: the paths in the order of api/notebooks
  call[t].at = "fetch" /\ Pulls(t, IF Held(legacy) # 0 THEN legacy ELSE Held(file))

Fetch(t) == call[t].at = "fetch" /\ Pulls(t, IF Held(file) # 0 THEN file ELSE Held(legacy))

Merge(t) ==
  /\ call[t].at = "merge" /\ db' = call[t].content /\ Stage(t, "delete", call[t].content)
  /\ UNCHANGED <<file, legacy, server, nb, newest, turns, outages, kept, disturbed>>

DeleteFile(t) ==
  /\ call[t].at = "delete" /\ Returns(t)
  /\ file' = IF server = "ready" THEN 0 ELSE file
  /\ UNCHANGED <<db, legacy, server, newest, turns, outages, kept, disturbed>>

(* A request to Jupyter that fails ends the handler, but for the last one of *)
(* each; the page then shows the view again, whichever it was.               *)
Fails(t) ==
  /\ outages < MaxOutages /\ outages' = outages + 1
  /\ call[t].at \in {"spawn", "push", "fetch", "delete"} /\ Returns(t)
  /\ disturbed' = (disturbed \/ call[t].at = "fetch")
  /\ UNCHANGED <<db, file, legacy, server, newest, turns, kept>>

NbNext ==
  \/ Ready
  \/ \E t \in NbTabs :
       \/ OpenNotebook(t) \/ SaveAndClose(t) \/ LoadPage(t) \/ Type(t) \/ Autosave(t)
       \/ ReadPage(t) \/ EnsureServerRunning(t) \/ Find(t) \/ Push(t)
       \/ Fetch(t) \/ Merge(t) \/ DeleteFile(t) \/ Fails(t)

NbSpec == NbInit /\ [][NbNext]_nbVars

-----------------------------------------------------------------------------
(* Properties.                                                               *)

NbTypeOK ==
  /\ {db, file, legacy, newest, kept} \subseteq 0 .. MaxContent
  /\ \A t \in NbTabs : call[t] # NoCall => (call[t].for = "open" <=> nb[t].at = "opening")

AtRest == \A t \in NbTabs : ~Busy(t)

(* Undisturbed, the page has at rest what the editor had saved, or what an   *)
(* old notebook's file had.                                                  *)
ContentArrives == ~disturbed /\ AtRest => db = kept

(* ... and no copy stays behind that a later pull could find.                *)
NoCopyLeft == ~disturbed /\ outages = 0 /\ AtRest => file = 0

(* An editor that is open shows a document: the file to be edited was there. *)
(* (Not so: a server that is still starting counts as one that runs.)        *)
OpenedHoldsContent == \A t \in NbTabs : nb[t].at = "editing" => nb[t].doc # 0

(* What is checked of the page and the file: what was written in the editor  *)
(* arrives in the page, and no copy stays behind (api/notebooks).            *)
NotebooksArrive == ContentArrives /\ NoCopyLeft
=============================================================================
