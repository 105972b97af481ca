------------------------------- MODULE Tokens -------------------------------
(***************************************************************************)
(* Channel tokens: the rows of channel_tokens, which the web tier changes   *)
(* (frontend/app/api/channels/route.js), and the clients and roles of the   *)
(* broker's dynamic security, which follow by a best-effort call to a       *)
(* backend replica (backend/main.py: sync_mqtt_token; backend/mqtt_dynsec.py: *)
(* sync_token and what it calls).                                           *)
(*                                                                         *)
(* sync_token does not await, so a replica sends the commands of one call   *)
(* before it takes the next; the commands of two replicas interleave.  A    *)
(* lost command is logged and the call goes on.  The broker answers an      *)
(* impossible command with an error that nobody reads.                      *)
(***************************************************************************)
EXTENDS Integers, Sequences

CONSTANTS
  Tokens,
  Grants,     \* sets of permissions a token may be created with
  Web,        \* concurrent requests of the web tier
  Replicas,   \* backend replicas
  MaxOps,     \* bound: requests
  MaxLost     \* bound: lost calls and commands

Both == {"publish", "subscribe"}

(* What MCParts asserts of the instance's constants. *)
TokensAssumption == Tokens # {} /\ Grants \subseteq SUBSET Both

NoRole == {"no role"}
Absent == [there |-> FALSE, active |-> FALSE, granted |-> {}]

VARIABLES
  row,        \* channel_tokens
  asks,       \* the requests of the web tier
  job,        \* per replica: the commands its call has still to send
  client,     \* the broker's clients
  role,       \* the broker's roles: what role_<username> allows, or NoRole
  member,     \* the clients that were given their role
  contested,  \* history: tokens with overlapping requests of opposite ends
  ops, lost   \* counters of the bounds

tokenVars == <<row, asks, job, client, role, member, contested, ops, lost>>
Broker == <<client, role, member>>

Free == [pc |-> "free", token |-> CHOOSE t \in Tokens : TRUE, active |-> FALSE, perms |-> {}]
NoJob == [todo |-> <<>>, token |-> Free.token, perms |-> {}, for |-> {}]

TokensInit ==
  /\ row = [t \in Tokens |-> Absent]
  /\ asks = [w \in Web |-> Free]
  /\ job = [r \in Replicas |-> NoJob]
  /\ client = {} /\ role = [t \in Tokens |-> NoRole] /\ member = {}
  /\ contested = {} /\ ops = 0 /\ lost = 0

-----------------------------------------------------------------------------
(* Requests.  Each has one end in mind for its token: active or not.         *)

Goes(w, q) == asks' = [asks EXCEPT ![w] = q]
Calls(w, perms) == [asks[w] EXCEPT !.pc = "call", !.perms = perms]

Arrives(w, t, pc, active, perms) ==
  /\ asks[w].pc = "free" /\ ops < MaxOps /\ ops' = ops + 1
  /\ Goes(w, [pc |-> pc, token |-> t, active |-> active, perms |-> perms])
  /\ contested' = contested \union
       {x \in {t} : \E v \in Web : asks[v].pc # "free" /\ asks[v].token = t
                                    /\ asks[v].active # active}
  /\ UNCHANGED <<job, Broker, lost>>

(* create_token: the row, then the call. *)
CreateToken(w) ==
  \E t \in Tokens, g \in Grants :
    /\ row[t] = Absent /\ \A v \in Web : asks[v].pc # "free" => asks[v].token # t
    /\ t \notin client \union member /\ role[t] = NoRole
    /\ Arrives(w, t, "call", TRUE, g)
    /\ row' = [row EXCEPT ![t] = [there |-> TRUE, active |-> TRUE, granted |-> g]]

(* delete_token reads the hash first; of a row that is gone, nothing is sent. *)
DeleteToken(w) ==
  \E t \in Tokens :
    row[t].there /\ Arrives(w, t, "delete", FALSE, {}) /\ UNCHANGED row

DeleteTokenRow(w) ==
  /\ asks[w].pc = "delete"
  /\ row' = [row EXCEPT ![asks[w].token] = Absent]
  /\ Goes(w, Calls(w, {}))
  /\ UNCHANGED <<job, Broker, contested, ops, lost>>

(* enable_token and disable_token: the UPDATE, then the hash, then a call    *)
(* without the token's permissions.                                          *)
Switch(w) ==
  \E t \in Tokens, active \in BOOLEAN :
    /\ row[t].there
    /\ Arrives(w, t, "hash", active, {})
    /\ row' = [row EXCEPT ![t].active = active]

ReadHash(w) ==
  /\ asks[w].pc = "hash"
  /\ Goes(w, IF row[asks[w].token].there THEN Calls(w, {}) ELSE Free)
  /\ UNCHANGED <<row, job, Broker, contested, ops, lost>>

(* fetch fails: best effort. *)
CallFails(w) ==
  /\ asks[w].pc = "call" /\ lost < MaxLost /\ lost' = lost + 1
  /\ Goes(w, Free)
  /\ UNCHANGED <<row, job, Broker, contested, ops>>

-----------------------------------------------------------------------------
(* sync_token on a replica, a command at a time.                             *)

CommandsRoleFirst(active) ==   \* mutant: the client is made after its role
  IF active THEN <<"deleteRole", "createRole", "addClientRole", "createClient">>
  ELSE <<"deleteClient">>

Commands(active) ==
  IF active THEN <<"createClient", "deleteRole", "createRole", "addClientRole">>
  ELSE <<"deleteClient">>

Take(r, w) ==
  /\ job[r] = NoJob /\ asks[w].pc = "call"
  /\ job' = [job EXCEPT ![r] = [todo |-> Commands(asks[w].active), token |-> asks[w].token,
                                 perms |-> asks[w].perms, for |-> {w}]]
  /\ Goes(w, [asks[w] EXCEPT !.pc = "wait"])
  /\ UNCHANGED <<row, Broker, contested, ops, lost>>

Acl(perms) == IF perms = {} THEN Both ELSE perms

(* What the broker makes of a command. *)
Obeys(cmd, t, perms) ==
  CASE cmd = "createClient" ->
         client' = client \union {t} /\ UNCHANGED <<role, member>>
    [] cmd = "deleteClient" ->
         client' = client \ {t} /\ member' = member \ {t} /\ UNCHANGED role
    [] cmd = "deleteRole" ->
         role' = [role EXCEPT ![t] = NoRole] /\ member' = member \ {t} /\ UNCHANGED client
    [] cmd = "createRole" ->
         role' = [role EXCEPT ![t] = IF @ = NoRole THEN Acl(perms) ELSE @]
         /\ UNCHANGED <<client, member>>
    [] cmd = "addClientRole" ->
         member' = member \union {x \in {t} : t \in client /\ role[t] # NoRole}
         /\ UNCHANGED <<client, role>>

Send(r) ==
  /\ job[r].todo # <<>>
  /\ \/ Obeys(Head(job[r].todo), job[r].token, job[r].perms) /\ UNCHANGED lost
     \/ lost < MaxLost /\ lost' = lost + 1 /\ UNCHANGED Broker
  /\ job' = [job EXCEPT ![r].todo = Tail(@)]
  /\ UNCHANGED <<row, asks, contested, ops>>

Answer(r) ==
  /\ job[r] # NoJob /\ job[r].todo = <<>>
  /\ asks' = [w \in Web |-> IF w \in job[r].for THEN Free ELSE asks[w]]
  /\ job' = [job EXCEPT ![r] = NoJob]
  /\ UNCHANGED <<row, Broker, contested, ops, lost>>

TokensNext ==
  \/ \E w \in Web :
       \/ CreateToken(w) \/ DeleteToken(w) \/ DeleteTokenRow(w) \/ Switch(w) \/ ReadHash(w)
       \/ CallFails(w) \/ \E r \in Replicas : Take(r, w)
  \/ \E r \in Replicas : Send(r) \/ Answer(r)

TokensSpec == TokensInit /\ [][TokensNext]_tokenVars

-----------------------------------------------------------------------------
(* Properties.                                                               *)

(* Rows, requests, jobs and the broker's tables keep their types. *)
TokensTypeOK ==
  /\ \A t \in Tokens : row[t] = Absent \/ (row[t].there /\ row[t].granted \in Grants)
  /\ \A w \in Web :
       asks[w].pc \in {"free", "delete", "hash", "call", "wait"} /\ asks[w].token \in Tokens
  /\ \A w \in Web : asks[w].pc = "wait" <=> \E r \in Replicas : w \in job[r].for
  /\ client \subseteq Tokens /\ member \subseteq client
  /\ \A t \in member : role[t] # NoRole
  /\ \A t \in Tokens : role[t] = NoRole \/ role[t] \subseteq Both
  /\ lost \in 0..MaxLost

Quiet(t) == \A w \in Web : asks[w].token = t => asks[w].pc = "free"

(* "MQTT connections are immediately allowed/denied": once its requests are  *)
(* answered, a token is known to the broker exactly if it exists and is      *)
(* active, and may do there what it was granted; unless a call or command    *)
(* was lost, or requests that enable and disable it overlapped.              *)
BrokerFollows ==
  \A t \in Tokens :
    lost = 0 /\ Quiet(t) /\ t \notin contested =>
      /\ (t \in client) <=> row[t].active
      /\ row[t].active => t \in member /\ Acl(row[t].granted) \subseteq role[t]
=============================================================================
