------------------------------- MODULE LiveView -------------------------------
(***************************************************************************)
(* The channel page (-/channels/page.js) with the live view of a channel,   *)
(* and a live widget on a dashboard (LiveWidget in my/[id]/page.js).  Both  *)
(* hold one WebSocket at a time, but a socket that was told to close fires  *)
(* its onclose only later, when the next one may be there.  The page also   *)
(* creates, toggles and deletes channels, and refreshes the list after every *)
(* answer, without waiting for other refreshes.                             *)
(* A closing socket delivers nothing: so the WebSocket interface has it.    *)
(***************************************************************************)
EXTENDS Integers, Sequences, FiniteSets, SequencesExt

CONSTANTS
  Chans,         \* names of channels
  NoChannel,
  ViewMax,       \* messages the page keeps (50)
  HistoryMax,    \* values the widget keeps (30)
  MaxSockets,    \* bound: sockets
  MaxPublished,  \* bound: messages
  MaxChanges     \* bound: requests of the page

(* The page keeps 50 messages, the widget 30 values. *)
ASSUME LiveAssumption == ViewMax \in Nat \ {0} /\ HistoryMax \in Nat \ {0}

VARIABLES
  stored,    \* rows of org_channels: "none", "active" or "disabled"
  listed,    \* data.channels of the page
  changes,   \* requests of the page under way
  refreshes, \* answers of GET /api/channels, or Unread, under way
  socket,    \* of each viewer, its sockets: [channel, at]; wsRef is the last
  lit,       \* the channel of the page's live view; of the widget, if connected
  live,      \* of each viewer, the channels of the messages that it keeps
  requested, published,
  overlapped,\* history: two refreshes were under way
  late       \* history: viewers whose current socket saw an older one close

liveVars == <<stored, listed, changes, refreshes, socket, lit, live, requested, published, overlapped, late>>

Viewers == {"page", "widget"}
Unread == [c \in {} |-> "none"]
Current(v) == Len(socket[v])
MoreSockets == Len(socket["page"]) + Len(socket["widget"]) < MaxSockets
Closing(v) == \E i \in 1 .. Current(v) - 1 : socket[v][i].at = "closing"

LiveInit ==
  /\ stored \in [Chans -> {"none", "active"}] /\ listed = stored
  /\ changes = <<>> /\ refreshes = <<>> /\ requested = 0 /\ overlapped = FALSE
  /\ socket = [v \in Viewers |-> <<>>]
  /\ lit = [v \in Viewers |-> NoChannel] /\ live = [v \in Viewers |-> <<>>]
  /\ published = 0 /\ late = {}

SocketVars == <<socket, lit, live, published, late>>
ListVars == <<stored, listed, changes, refreshes, requested, overlapped>>

-----------------------------------------------------------------------------
(* The list of channels.                                                     *)

Ask(c, to) ==
  /\ requested < MaxChanges /\ requested' = requested + 1 /\ changes' = Append(changes, [channel |-> c, to |-> to])
  /\ UNCHANGED <<stored, listed, refreshes, overlapped, SocketVars>>

CreateChannel == \E c \in Chans : listed[c] = "none" /\ Ask(c, "new")
DeleteChannel == \E c \in Chans : listed[c] # "none" /\ Ask(c, "none")
(* What is sent is the opposite of what is shown, not of what is stored. *)
ToggleChannel ==
  \E c \in Chans : listed[c] # "none" /\ Ask(c, IF listed[c] = "active" THEN "disabled" ELSE "active")

LoadData ==
  /\ refreshes' = Append(refreshes, Unread)
  /\ overlapped' = (overlapped \/ refreshes # <<>>)

AsStored(r) ==
  CASE r.to = "new" -> IF stored[r.channel] = "none" THEN "active" ELSE stored[r.channel]
    [] r.to = "none" -> "none"
    [] OTHER -> IF stored[r.channel] = "none" THEN "none" ELSE r.to

(* The handler, of one statement, and the answer. *)
Handle ==
  \E i \in DOMAIN changes :
    /\ stored' = [stored EXCEPT ![changes[i].channel] = AsStored(changes[i])]
    /\ changes' = RemoveAt(changes, i) /\ LoadData
    /\ UNCHANGED <<listed, requested, SocketVars>>

Respond ==
  /\ \E i \in DOMAIN refreshes : refreshes[i] = Unread /\ refreshes' = [refreshes EXCEPT ![i] = stored]
  /\ UNCHANGED <<stored, listed, changes, requested, overlapped, SocketVars>>

SetData ==
  /\ \E i \in DOMAIN refreshes : refreshes[i] # Unread /\ listed' = refreshes[i] /\ refreshes' = RemoveAt(refreshes, i)
  /\ UNCHANGED <<stored, changes, requested, overlapped, SocketVars>>

-----------------------------------------------------------------------------
(* SocketVars of a viewer.                                                      *)

Closed(s) == [s EXCEPT !.at = IF @ \in {"opening", "open", "waiting"} THEN "closing" ELSE @]
CloseAll(v) == [i \in DOMAIN socket[v] |-> IF i = Current(v) THEN Closed(socket[v][i]) ELSE socket[v][i]]
New(v, c) == [socket EXCEPT ![v] = Append(CloseAll(v), [channel |-> c, at |-> "opening"])]

ConnectKeepingMessages(c) ==   \* mutant: without setMessages([])
  /\ MoreSockets /\ listed[c] # "none" /\ socket' = New("page", c)
  /\ lit' = [lit EXCEPT !["page"] = c]
  /\ late' = late \ {"page"} /\ UNCHANGED <<ListVars, live, published>>

(* A click on a channel of the list. *)
ConnectLive(c) ==
  /\ MoreSockets /\ listed[c] # "none"
  /\ socket' = New("page", c)
  /\ lit' = [lit EXCEPT !["page"] = c] /\ live' = [live EXCEPT !["page"] = <<>>]
  /\ late' = late \ {"page"} /\ UNCHANGED <<ListVars, published>>

Disconnect ==
  /\ lit["page"] # NoChannel /\ lit' = [lit EXCEPT !["page"] = NoChannel]
  /\ socket' = [socket EXCEPT !["page"] = CloseAll("page")]
  /\ UNCHANGED <<ListVars, live, published, late>>

(* The widget is given another channel, as often as its name is typed in:    *)
(* the effect is cleaned up and runs again; what was received stays.         *)
Configure(c) ==
  /\ MoreSockets
  /\ socket["widget"] # <<>> => Last(socket["widget"]).channel # c
  /\ socket' = New("widget", c) /\ late' = late \ {"widget"}
  /\ UNCHANGED <<ListVars, lit, live, published>>

(* onopen subscribes.  A channel that is not active is refused, which        *)
(* neither viewer looks at.                                                  *)
Open(v) ==
  LET i == Current(v) IN
  /\ i > 0 /\ socket[v][i].at = "opening"
  /\ socket' = [socket EXCEPT ![v][i].at = IF stored[socket[v][i].channel] = "active" THEN "open" ELSE "waiting"]
  /\ lit' = IF v = "widget" THEN [lit EXCEPT ![v] = socket[v][i].channel] ELSE lit
  /\ UNCHANGED <<ListVars, live, published, late>>

(* onclose does not ask which socket it is that closed. *)
CloseEvent(v, i) ==
  /\ socket' = [socket EXCEPT ![v][i].at = "closed"]
  /\ lit' = [lit EXCEPT ![v] = NoChannel]
  /\ late' = IF i < Current(v) THEN late \union {v} ELSE late
  /\ UNCHANGED <<ListVars, live, published>>

OnClose(v) == \E i \in DOMAIN socket[v] : socket[v][i].at = "closing" /\ CloseEvent(v, i)
(* The connection is lost, or the server ends. *)
Lost(v) == \E i \in DOMAIN socket[v] : socket[v][i].at \in {"opening", "open", "waiting"} /\ CloseEvent(v, i)

Keep(v, c) ==
  IF v = "page" THEN SubSeq(<<c>> \o live[v], 1, IF Len(live[v]) < ViewMax THEN Len(live[v]) + 1 ELSE ViewMax)
  ELSE Append(SubSeq(live[v], IF Len(live[v]) >= HistoryMax THEN 2 ELSE 1, Len(live[v])), c)

(* A message of a channel at a subscribed socket. *)
OnMessage(v) ==
  /\ published < MaxPublished /\ published' = published + 1
  /\ \E i \in DOMAIN socket[v] :
       socket[v][i].at = "open" /\ live' = [live EXCEPT ![v] = Keep(v, socket[v][i].channel)]
  /\ UNCHANGED <<ListVars, socket, lit, late>>

LiveNext ==
  \/ CreateChannel \/ DeleteChannel \/ ToggleChannel \/ Handle \/ Respond \/ SetData \/ Disconnect
  \/ \E c \in Chans : ConnectLive(c) \/ Configure(c)
  \/ \E v \in Viewers : Open(v) \/ OnClose(v) \/ Lost(v) \/ OnMessage(v)

LiveSpec == LiveInit /\ [][LiveNext]_liveVars

-----------------------------------------------------------------------------
(* Properties.                                                               *)

LiveTypeOK ==
  /\ \A v \in Viewers : lit[v] \in Chans \union {NoChannel} /\ ToSet(live[v]) \subseteq Chans

(* The page and the widget receive from one socket at most. *)
OneSocket ==
  \A v \in Viewers : \A i \in 1 .. Current(v) - 1 : socket[v][i].at \in {"closing", "closed"}

(* The live view holds messages of the channel that it names only. *)
OnlyLive == lit["page"] # NoChannel => ToSet(live["page"]) \subseteq {lit["page"]}

(* Lists of messages stay within their limits. *)
ViewBounded == Len(live["page"]) <= ViewMax /\ Len(live["widget"]) <= HistoryMax

(* Neither shows a connection when its socket has closed, nor hides one that *)
(* receives, but while an older socket closes or after one closed late.      *)
LightTells ==
  \A v \in Viewers : ~Closing(v) /\ v \notin late /\ socket[v] # <<>> => LET s == Last(socket[v]) IN
    /\ lit[v] # NoChannel => s.at # "closed" /\ s.channel = lit[v]
    /\ s.at = "open" => lit[v] = s.channel

(* At rest the page lists what is stored, unless two refreshes overlapped. *)
ListSettles == changes = <<>> /\ refreshes = <<>> /\ ~overlapped => listed = stored

(* What is checked of the viewers and of the list: live views follow one     *)
(* socket, within their limits, show what came through it and whether it is  *)
(* there; the list of channels settles (-/channels/page.js, my/[id]/page.js). *)
LiveTells == OneSocket /\ OnlyLive /\ ViewBounded /\ LightTells /\ ListSettles
=============================================================================
