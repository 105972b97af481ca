------------------------------- MODULE PageViews -------------------------------
(***************************************************************************)
(* Who finds and opens the pages of an organization: the lists of api/pages *)
(* (shared and published), GET api/pages/[id], the addresses /a/<slug> and  *)
(* /d/<slug>, and the public ones.  One member owns the pages; another, of  *)
(* one role, has a sidebar that was loaded some time ago.                   *)
(***************************************************************************)
EXTENDS Integers, Sequences, FiniteSets, SequencesExt

CONSTANTS
  ViewPages,   \* a sequence: the pages, by name
  Addresses,   \* slugs
  MaxEdits     \* bound: changes by the owner

(* What Screens assumes of the instance's constants. *)
ViewsAssumption == ViewPages \in Seq(ToSet(ViewPages))

VARIABLES
  held,        \* of each page, its row of user_pages
  member,      \* the member's permissions: for the type of page, and by slug
  listed,      \* the member's Shared list, and the edit it was loaded after
  view,        \* history: what was opened after the last edit: how, what was asked, what came
  edits

viewVars == <<held, member, listed, view, edits>>

ThePages == ToSet(ViewPages)
Denied == "denied"
Unpublished == "unpublished"   \* no permission of an app
Nowhere == [by |-> "none", asked |-> "nothing", got |-> Denied, fresh |-> FALSE]

ViewInit ==
  /\ held \in [ThePages -> [type : {"dashboard", "html"}, slug : Addresses, visibility : {"private"},
                            user : {FALSE}, role : {FALSE}, app : {Unpublished}]]
  /\ member \in [dashboards : BOOLEAN, apps : SUBSET Addresses]
  /\ listed = [pages |-> {}, at |-> 0] /\ view = Nowhere /\ edits = 0

-----------------------------------------------------------------------------
(* The owner: PATCH api/pages/[id].  Shares with roles and the publish       *)
(* action have no button; clients of the API send them.                      *)

Edits(p, row) ==
  /\ edits < MaxEdits /\ edits' = edits + 1 /\ held' = [held EXCEPT ![p] = row] /\ view' = Nowhere
  /\ UNCHANGED <<member, listed>>

SetVisibility(p) == \E v \in {"private", "org", "public"} \ {held[p].visibility} : Edits(p, [held[p] EXCEPT !.visibility = v])
ShareUser(p) == Edits(p, [held[p] EXCEPT !.user = ~@])
ShareRole(p) == Edits(p, [held[p] EXCEPT !.role = ~@])
Publish(p) == Edits(p, [held[p] EXCEPT !.app = held[p].slug])
(* The slug alone: the permission is the one made when the page was published. *)
Rename(p) == \E s \in Addresses \ {held[p].slug} : Edits(p, [held[p] EXCEPT !.slug = s])

-----------------------------------------------------------------------------
(* Lists and handlers.                                                       *)

(* view=shared: the conditions of the query, and the permission of the type. *)
SharedWith(p) == held[p].visibility = "org" \/ held[p].user \/ held[p].role
Shared == {p \in ThePages : SharedWith(p) /\ (held[p].type = "dashboard" => member.dashboards)}

MayGetNotShared(p) == held[p].visibility # "private"   \* mutant: shared_with is not looked at
(* GET api/pages/[id] by one who is not the owner. *)
MayGet(p) == held[p].visibility # "private" \/ held[p].user

(* view=published, of one slug and of these types: by name, hence by place. *)
Published(s, types) ==
  {i \in DOMAIN ViewPages : LET row == held[ViewPages[i]] IN
     row.app # Unpublished /\ row.slug = s /\ row.type \in types}

Permitted(p) == held[p].app \in member.apps

(* The first that is found is the one that is opened or denied. *)
Found(s, types) ==
  LET f == Published(s, types)
      first == ViewPages[Min(f)]
  IN IF f # {} /\ Permitted(first) THEN first ELSE Denied

(* api/public asks for nobody's permission, and takes one of them. *)
PublicFound(s, types) ==
  LET f == {ViewPages[i] : i \in Published(s, types)} IN IF f = {} THEN {Denied} ELSE f

-----------------------------------------------------------------------------
(* The member.                                                               *)

Opens(by, asked, got) ==
  /\ view' = [by |-> by, asked |-> asked, got |-> got, fresh |-> listed.at = edits]
  /\ UNCHANGED <<held, member, listed, edits>>

LoadList == listed' = [pages |-> Shared, at |-> edits] /\ UNCHANGED <<held, member, view, edits>>
OpenListed == \E p \in listed.pages : Opens("list", p, IF MayGet(p) THEN p ELSE Denied)
AppViewer == \E s \in Addresses : Opens("app", s, Found(s, {"dashboard", "html"}))
DashboardBySlug == \E s \in Addresses : Opens("dashboard", s, Found(s, {"dashboard"}))
PublicApp == \E s \in Addresses : \E p \in PublicFound(s, {"dashboard", "html"}) : Opens("public app", s, p)
PublicDashboard == \E s \in Addresses : \E p \in PublicFound(s, {"dashboard"}) : Opens("public dashboard", s, p)

ViewNext ==
  \/ LoadList \/ OpenListed \/ AppViewer \/ DashboardBySlug \/ PublicApp \/ PublicDashboard
  \/ \E p \in ThePages : SetVisibility(p) \/ ShareUser(p) \/ ShareRole(p) \/ Publish(p) \/ Rename(p)

ViewSpec == ViewInit /\ [][ViewNext]_viewVars

-----------------------------------------------------------------------------
(* Properties.                                                               *)

ViewTypeOK == listed.pages \subseteq ThePages /\ view.got \in ThePages \union {Denied}

(* What a list that is up to date offers can be opened, but for what is      *)
(* offered to the member's role alone.                                       *)
OnlyByRole(p) == held[p].visibility # "org" /\ ~held[p].user
ListedOpens ==
  view.by = "list" /\ view.fresh => view.got = view.asked \/ OnlyByRole(view.asked)

(* Even then: what is listed for the role opens like what is for the user.   *)
(* (Not so: the list reads shares with roles, the page's own check does not.) *)
SharedOpens == view.by = "list" /\ view.fresh => view.got # Denied

(* By an address comes a page that was published there to this member; and   *)
(* if only one was, it comes.                                                *)
Holders(s) == {p \in ThePages : held[p].app # Unpublished /\ held[p].slug = s}
AddressReaches ==
  view.by = "app" =>
    LET h == Holders(view.asked) IN
    /\ view.got # Denied => view.got \in h /\ Permitted(view.got)
    /\ Cardinality(h) = 1 /\ (\A p \in h : Permitted(p)) => view.got \in h
=============================================================================
