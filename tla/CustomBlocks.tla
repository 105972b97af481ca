----------------------------- MODULE CustomBlocks -----------------------------
(***************************************************************************)
(* Custom blocks: the rows an organization makes by api/blocks, the palette *)
(* that a browser keeps of them (lib/flow-blocks.js), the visual page that  *)
(* uses them, and the registry _BLOCK_HANDLERS of a backend, one for all    *)
(* organizations, into which POST /api/flow/execute-block loads those of    *)
(* the organization that asks.                                              *)
(***************************************************************************)
EXTENDS Integers

CONSTANTS
  Orgs,
  CustomTypes,         \* types of blocks: names that begin with custom_
  Alike,               \* of a type, those its pattern in a LIKE matches
  BlockCodes,
  Backends,            \* replicas of the backend
  MaxBlocks, MaxActs   \* bounds: blocks ever made, and steps

(* An underscore of a name matches any character. *)
BlocksAssumption == \A t \in CustomTypes : t \in Alike[t] /\ Alike[t] \subseteq CustomTypes

VARIABLES
  block,      \* rows of org_custom_blocks: [org, type, code, active]
  built,      \* ids handed out
  handlers,   \* of each backend: the code that is registered for a type
  palette,    \* of the browser of each organization: what it loaded of the list
  used,       \* the custom types in the saved flow of each organization
  deleting,   \* the deletion each organization has under way
  orphaned,   \* history: types that were saved into a flow without a block, or
              \*   when their deletion had been allowed
  ran,        \* history: the last answer to a run
  acts

blocksVars == <<block, built, handlers, palette, used, deleting, orphaned, ran, acts>>

Nobody == [org |-> "", code |-> 0]
NoDeletion == [at |-> "no", id |-> 0]
Unlisted == [known |-> FALSE, types |-> {}]

BlocksInit ==
  /\ block = <<>> /\ built = 0
  /\ handlers = [b \in Backends |-> <<>>]
  /\ palette = [o \in Orgs |-> Unlisted] /\ used = [o \in Orgs |-> {}]
  /\ deleting = [o \in Orgs |-> NoDeletion] /\ orphaned = {}
  /\ ran = [loaded |-> FALSE, by |-> Nobody, own |-> Nobody] /\ acts = 0

Act == acts < MaxActs /\ acts' = acts + 1
BlocksOf(o) == {i \in DOMAIN block : block[i].org = o}
Active(o) == {i \in BlocksOf(o) : block[i].active}
Named(S, t) == {i \in S : block[i].type = t}

-----------------------------------------------------------------------------
(* api/blocks.  An organization has one block of a type.                     *)

PostBlock(o) ==
  /\ Act /\ built < MaxBlocks /\ built' = built + 1
  /\ \E t \in CustomTypes, c \in BlockCodes :
       /\ Named(BlocksOf(o), t) = {}
       /\ block' = [i \in DOMAIN block \union {built + 1} |-> IF i \in DOMAIN block THEN block[i]
                      ELSE [org |-> o, type |-> t, code |-> c, active |-> TRUE]]
  /\ UNCHANGED <<handlers, palette, used, deleting, orphaned, ran>>

PatchBlock(o) ==
  /\ Act
  /\ \E i \in BlocksOf(o), c \in BlockCodes, a \in BOOLEAN :
       block' = [block EXCEPT ![i].code = c, ![i].active = a]
  /\ UNCHANGED <<built, handlers, palette, used, deleting, orphaned, ran>>

(* DELETE: the row, the flows that name its type, and the row once more.     *)
VerifyBlock(o) ==
  /\ Act /\ deleting[o] = NoDeletion
  /\ \E i \in BlocksOf(o) : deleting' = [deleting EXCEPT ![o] = [at |-> "flows", id |-> i]]
  /\ UNCHANGED <<block, built, handlers, palette, used, orphaned, ran>>

UsedBy(o, t) == Alike[t] \intersect used[o] # {}
CheckFlows(o) ==
  /\ deleting[o].at = "flows"
  /\ deleting' = [deleting EXCEPT ![o] =
       IF UsedBy(o, block[@.id].type) THEN NoDeletion ELSE [@ EXCEPT !.at = "row"]]
  /\ UNCHANGED <<block, built, handlers, palette, used, orphaned, ran, acts>>

DeleteBlock(o) ==
  /\ deleting[o].at = "row"
  /\ block' = [i \in DOMAIN block \ {deleting[o].id} |-> block[i]]
  /\ deleting' = [deleting EXCEPT ![o] = NoDeletion]
  /\ UNCHANGED <<built, handlers, palette, used, orphaned, ran, acts>>

-----------------------------------------------------------------------------
(* The browser.  It loads the list once, when a canvas is first shown, and   *)
(* keeps it until the page is loaded again.                                  *)

LoadPalette(o) ==
  /\ Act /\ ~palette[o].known
  /\ palette' = [palette EXCEPT ![o] =
       [known |-> TRUE, types |-> {block[i].type : i \in Active(o)}]]
  /\ UNCHANGED <<block, built, handlers, used, deleting, orphaned, ran>>

ReloadPage(o) ==
  /\ Act /\ palette[o].known /\ palette' = [palette EXCEPT ![o] = Unlisted]
  /\ UNCHANGED <<block, built, handlers, used, deleting, orphaned, ran>>

(* On the canvas are blocks of the saved flow and of the palette. *)
Drawn(o) == used[o] \union palette[o].types
Going(o, t) ==
  \/ Named(BlocksOf(o), t) = {}
  \/ deleting[o].at = "row" /\ block[deleting[o].id].type = t

SaveFlow(o) ==
  /\ Act
  /\ \E S \in SUBSET Drawn(o) :
       /\ used' = [used EXCEPT ![o] = S]
       /\ orphaned' = {x \in orphaned : x[1] # o \/ x[2] \in S}
                        \union {<<o, t>> : t \in {x \in S \ used[o] : Going(o, x)}}
  /\ UNCHANGED <<block, built, handlers, palette, deleting, ran>>

-----------------------------------------------------------------------------
(* A run of the canvas sends each custom block to a backend, which loads the *)
(* blocks of the organization without a step in between and then looks up    *)
(* the type.                                                                 *)

CodeOf(i) == [org |-> block[i].org, code |-> block[i].code]
LoadOrgBlocks(h, o) ==
  [t \in DOMAIN h \union {block[i].type : i \in Active(o)} |->
     IF Named(Active(o), t) = {} THEN h[t] ELSE CodeOf(CHOOSE i \in Named(Active(o), t) : TRUE)]

(* A load that fails is logged, and the run goes on with what is there.      *)
ExecuteBlock(o, b) ==
  /\ Act
  /\ \E t \in Drawn(o), loads \in BOOLEAN :
       LET h == IF loads THEN LoadOrgBlocks(handlers[b], o) ELSE handlers[b] IN
       /\ handlers' = [handlers EXCEPT ![b] = h]
       /\ ran' = [loaded |-> loads,
                  by |-> IF t \in DOMAIN h THEN h[t] ELSE Nobody,
                  own |-> IF Named(Active(o), t) = {} THEN Nobody
                          ELSE CodeOf(CHOOSE i \in Named(Active(o), t) : TRUE)]
  /\ UNCHANGED <<block, built, palette, used, deleting, orphaned>>

RestartBackend(b) ==
  /\ Act /\ handlers[b] # <<>> /\ handlers' = [handlers EXCEPT ![b] = <<>>]
  /\ UNCHANGED <<block, built, palette, used, deleting, orphaned, ran>>

BlocksNext ==
  \/ \E o \in Orgs :
       \/ PostBlock(o) \/ PatchBlock(o) \/ VerifyBlock(o) \/ CheckFlows(o) \/ DeleteBlock(o)
       \/ LoadPalette(o) \/ ReloadPage(o) \/ SaveFlow(o)
       \/ \E b \in Backends : ExecuteBlock(o, b)
  \/ \E b \in Backends : RestartBackend(b)

BlocksSpec == BlocksInit /\ [][BlocksNext]_blocksVars

-----------------------------------------------------------------------------
(* Properties.                                                               *)

(* One block of a type in each organization, and of each type in a registry  *)
(* the code of somebody.                                                     *)
BlocksTypeOK ==
  /\ DOMAIN block \subseteq 1 .. built
  /\ \A o \in Orgs, t \in CustomTypes : \A i, j \in Named(BlocksOf(o), t) : i = j
  /\ \A b \in Backends : \A t \in DOMAIN handlers[b] : handlers[b][t].org \in Orgs
  /\ \A o \in Orgs : deleting[o].at # "no" => deleting[o].id \in BlocksOf(o)

(* Whatever other organizations registered for the type, and whatever the    *)
(* block was before it was changed: a run works with the block its           *)
(* organization has active, if the load of its blocks did not fail.          *)
RunsOwnCode == ran.loaded /\ ran.own # Nobody => ran.by = ran.own

(* A block that the saved flow uses is there, unless the flow took it up     *)
(* from an old palette or while its deletion was under way.                  *)
UsedIsThere ==
  \A o \in Orgs : \A t \in used[o] : <<o, t>> \notin orphaned => Named(BlocksOf(o), t) # {}

(* "Custom block not found for this org": without one nothing is run.  (Not  *)
(* so: what another organization registered for the type is, and what was    *)
(* switched off or deleted since the backend started.)                       *)
OwnOnly == ran.loaded => ran.by = ran.own
=============================================================================
