------------------------------- MODULE Accounts -------------------------------
(***************************************************************************)
(* Roles, permissions and users of one organization: lib/permissions.js and *)
(* the handlers of api/users, api/roles, api/permissions and api/super/orgs. *)
(*                                                                         *)
(* A handler is a sequence of awaited SQL statements outside any            *)
(* transaction, and the requests of different clients interleave between    *)
(* them.  What a request sends is fixed when it arrives, so a request is    *)
(* the statements it has still to run; one that raises ends it, and what it *)
(* has done stays done.                                                     *)
(***************************************************************************)
EXTENDS Integers, Sequences, FiniteSets

CONSTANTS
  Members,      \* names of users of the organization
  Super,        \* the super admin, who is none of them
  Custom,       \* roles the organization may add
  AppPerms,     \* permissions it may define
  SysPerms,     \* the system's; Manage among them stands for those that the
  Manage,       \*   handlers here ask for (users.*, roles.manage, ...)
  EditorPerms, ViewerPerms,  \* those of the default roles
  MaxAsked, MaxBroken     \* bounds: requests, and lost connections

Clients == Members \union {Super}
Perms == SysPerms \union AppPerms

(* DEFAULT_ROLES. *)
Defaults == [Admin |-> SysPerms, Editor |-> EditorPerms, Viewer |-> ViewerPerms]
Roles == DOMAIN Defaults \union Custom

(* Rows of different tables are told apart by their names here. *)
ASSUME AccountsAssumption ==
  /\ Super \notin Members /\ Manage \in SysPerms
  /\ EditorPerms \subseteq SysPerms /\ ViewerPerms \subseteq EditorPerms
  /\ SysPerms \intersect AppPerms = {}
  /\ Members \intersect Roles = {} /\ (Members \union Roles) \intersect Perms = {}

VARIABLES
  permission,  \* ids of the rows of permissions
  grants,      \* rows of roles, each with its role_permissions
  users,       \* rows of users: role_id, a set of at most one, and user_roles
  serving,     \* the request of each client
  want,        \* history: what the last edit of a role or of a user's roles
               \*   asked for, if nothing overlapped it and it did not fail
  requests, broken   \* counters of the bounds

accountsVars == <<permission, grants, users, serving, want, requests, broken>>

(* getUserPermissions: the roles of user_roles and the legacy role_id. *)
Effective(m) ==
  IF m \in DOMAIN users THEN users[m].held \union users[m].legacy ELSE {}
(* The users page and a user's own page list user_roles, or else role_id. *)
Listed(m) == IF users[m].held # {} THEN users[m].held ELSE users[m].legacy
GrantedBy(S) == UNION {grants[r] : r \in S \intersect DOMAIN grants}

-----------------------------------------------------------------------------
(* The handlers, as the statements they run.  A loop over a list, in the     *)
(* order the client sent, is one entry, of the items that are left.          *)

Stmt(do, on, arg) == [do |-> do, on |-> on, arg |-> arg]
ForEach(do, on, S) == IF S = {} THEN <<>> ELSE <<Stmt(do, on, S)>>

Seek(x) == <<Stmt("find", x, {})>>

PatchRole(r, S) == <<Stmt("ungrant", r, {})>> \o ForEach("grant", r, S)

PostRole(r, S) == <<Stmt("insertRole", r, {})>> \o ForEach("grant", r, S)

DeleteRole(r) == <<Stmt("count", r, {}), Stmt("deleteRole", r, {})>>

PostUser(m, first, S) == <<Stmt("insertUser", m, first)>> \o ForEach("assign", m, S)

PatchUserHeldOnly(m, first, S) ==   \* mutant: role_id is not kept in step
  <<Stmt("unassign", m, {})>> \o ForEach("assign", m, S)
PatchUserAnyLegacy(m, first, S) ==   \* mutant: role_id is set when no role is chosen, too
  <<Stmt("unassign", m, {})>> \o ForEach("assign", m, S) \o <<Stmt("setLegacy", m, first)>>
PatchUser(m, first, S) ==
  <<Stmt("unassign", m, {})>> \o ForEach("assign", m, S) \o ForEach("setLegacy", m, first)

EraseUser(m) == <<Stmt("unassign", m, {}), Stmt("deleteUser", m, {})>>

CreateDefaultRoles ==
  LET one(r) == <<Stmt("upsertRole", r, {})>> \o ForEach("grant", r, Defaults[r])
  IN one("Admin") \o one("Editor") \o one("Viewer")

(* hasPermission: the ids of the client's roles are read as the request      *)
(* arrives, what they grant by a second statement; then that the row is of   *)
(* the organization.  The super admin is asked for neither.                  *)
Guarded(c, find, stmts) ==
  IF c = Super THEN stmts
  ELSE <<Stmt("check", c, Effective(c))>> \o find \o stmts

Unknown == [known |-> FALSE, set |-> {}]
Known(S) == [known |-> TRUE, set |-> S]
NoRequest == [todo |-> <<>>, ask |-> <<>>, clear |-> TRUE]

Edits(c, x) == serving[c].todo # <<>> /\ x \in DOMAIN serving[c].ask
Edited(x) == \E c \in Clients : Edits(c, x)

(* Either the organization has just been inserted and its roles are to come, *)
(* or it is the seeded one, with an admin.                                   *)
AccountsInit ==
  \E fresh \in BOOLEAN, admin \in Members :
    /\ permission = SysPerms
    /\ grants = IF fresh THEN <<>> ELSE Defaults
    /\ users = IF fresh THEN <<>> ELSE [m \in {admin} |-> [held |-> {}, legacy |-> {"Admin"}]]
    /\ serving = [c \in Clients |->
         IF c = Super /\ fresh
           THEN [todo |-> CreateDefaultRoles, ask |-> Defaults, clear |-> TRUE] ELSE NoRequest]
    /\ want = [x \in Roles \union Members |-> Unknown]
    /\ requests = 0 /\ broken = 0

(* Requests that edit the same thing at the same time are not clear. *)
Enters(c, stmts, ask, clear) ==
  /\ requests < MaxAsked /\ requests' = requests + 1
  /\ serving[c].todo = <<>> /\ c \in {Super} \union DOMAIN users
  /\ LET met == {d \in Clients : \E x \in DOMAIN ask : Edits(d, x)}
     IN serving' = [d \in Clients |->
          IF d = c THEN [todo |-> stmts, ask |-> ask, clear |-> clear /\ met = {}]
          ELSE [serving[d] EXCEPT !.clear = @ /\ d \notin met]]
  /\ UNCHANGED <<permission, grants, users, want, broken>>

AsksEdit(c, find, stmts, x, S) == Enters(c, Guarded(c, find, stmts), [y \in {x} |-> S], TRUE)

EditRole(c) == \E r \in Roles, S \in SUBSET Perms : AsksEdit(c, Seek(r), PatchRole(r, S), r, S)
AddRole(c) == \E r \in Roles, S \in SUBSET Perms : AsksEdit(c, <<>>, PostRole(r, S), r, S)
RemoveRole(c) == \E r \in Roles : AsksEdit(c, <<>>, DeleteRole(r), r, {})

(* Without roles the user becomes a Viewer, if there is such a role. *)
AddUser(c) ==
  \E m \in Members, S \in SUBSET Roles :
    LET T == IF S = {} THEN {"Viewer"} \intersect DOMAIN grants ELSE S
    IN \E first \in IF T = {} THEN {{}} ELSE {{r} : r \in T} :
         AsksEdit(c, <<>>, PostUser(m, first, T), m, T)

(* The super admin's form gives one role, by its name, and no user_roles. *)
AddMember ==
  \E m \in Members, r \in Roles :
    LET first == {r} \intersect DOMAIN grants
    IN AsksEdit(Super, <<>>, PostUser(m, first, {}), m, first)

EditUser(c) ==
  \E m \in Members, S \in SUBSET Roles :
    \E first \in IF S = {} THEN {{}} ELSE {{r} : r \in S} :
      AsksEdit(c, Seek(m), PatchUser(m, first, S), m, S)

(* A PATCH with the legacy role_id alone. *)
EditLegacy(c) ==
  \E m \in Members, r \in Roles :
    Enters(c, Guarded(c, Seek(m), <<Stmt("setLegacy", m, {r})>>), [y \in {m} |-> {}], FALSE)

RemoveUser(c) == \E m \in Members \ {c} : AsksEdit(c, Seek(m), EraseUser(m), m, {})

AddPermission(c) ==
  \E p \in AppPerms : Enters(c, Guarded(c, <<>>, <<Stmt("insertPermission", p, {})>>), <<>>, TRUE)
RemovePermission(c) ==
  \E p \in AppPerms : Enters(c, Guarded(c, <<>>, <<Stmt("deletePermission", p, {})>>), <<>>, TRUE)

(* The first request to a server that has been restarted seeds it again. *)
Seed == Enters(Super, CreateDefaultRoles, Defaults, FALSE)

-----------------------------------------------------------------------------
(* Running a statement.                                                      *)

Does(c, do) == serving[c].todo # <<>> /\ Head(serving[c].todo).do = do
Target(c) == Head(serving[c].todo).on
Arg(c) == Head(serving[c].todo).arg

Outcome(c, x, result) == IF x \in DOMAIN serving[c].ask THEN result ELSE want[x]

(* On to the statements that are left; with the last, the edit is done. *)
Advances(c, left) ==
  /\ serving' = [serving EXCEPT ![c] = IF left = <<>> THEN NoRequest ELSE [@ EXCEPT !.todo = left]]
  /\ want' = IF left # <<>> THEN want
             ELSE [x \in DOMAIN want |->
                     Outcome(c, x, IF serving[c].clear THEN Known(serving[c].ask[x]) ELSE Unknown)]
  /\ UNCHANGED <<requests, broken>>
AdvancesOn(c) == Advances(c, Tail(serving[c].todo))

(* The rest of a loop, after the item i. *)
After(c, i) ==
  LET rest == Arg(c) \ {i}
  IN ForEach(Head(serving[c].todo).do, Target(c), rest) \o Tail(serving[c].todo)

(* An error response before anything is written: 403, 404, 409. *)
Reject(c) ==
  /\ serving' = [serving EXCEPT ![c] = NoRequest]
  /\ UNCHANGED <<permission, grants, users, want, requests, broken>>

Raise(c) ==
  /\ serving' = [serving EXCEPT ![c] = NoRequest]
  /\ want' = [x \in DOMAIN want |-> Outcome(c, x, Unknown)]
  /\ UNCHANGED <<permission, grants, users, requests>>

(* The last statement deletes x, from wherever the schema cascades to, under *)
(* the hands of whoever is editing it.                                       *)
Drops(c, x) ==
  /\ serving' = [d \in Clients |->
       IF d = c \/ serving[d].todo = <<>> THEN NoRequest ELSE [serving[d] EXCEPT !.clear = FALSE]]
  /\ want' = [y \in DOMAIN want |-> IF y = x THEN Unknown ELSE [want[y] EXCEPT !.set = @ \ {x}]]
  /\ UNCHANGED <<requests, broken>>

Check(c) ==
  /\ Does(c, "check")
  /\ IF Manage \in GrantedBy(Arg(c))
       THEN AdvancesOn(c) /\ UNCHANGED <<permission, grants, users>> ELSE Reject(c)

FindRow(c) ==
  /\ Does(c, "find")
  /\ IF Target(c) \in DOMAIN grants \union DOMAIN users
       THEN AdvancesOn(c) /\ UNCHANGED <<permission, grants, users>> ELSE Reject(c)

InsertRole(c) ==
  \/ /\ Does(c, "insertRole") /\ Target(c) \in DOMAIN grants /\ Reject(c)
  \/ /\ Does(c, "insertRole") \/ Does(c, "upsertRole")
     /\ Target(c) \notin DOMAIN grants \/ Does(c, "upsertRole")
     /\ grants' = [r \in DOMAIN grants \union {Target(c)} |->
                     IF r \in DOMAIN grants THEN grants[r] ELSE {}]
     /\ AdvancesOn(c) /\ UNCHANGED <<permission, users>>

Ungrant(c) ==
  /\ Does(c, "ungrant")
  /\ grants' = [r \in DOMAIN grants |-> IF r = Target(c) THEN {} ELSE grants[r]]
  /\ AdvancesOn(c) /\ UNCHANGED <<permission, users>>

(* role_permissions references the role and the permission. *)
Grant(c) ==
  /\ Does(c, "grant")
  /\ \E p \in Arg(c) :
       IF Target(c) \in DOMAIN grants /\ p \in permission
         THEN /\ grants' = [grants EXCEPT ![Target(c)] = @ \union {p}]
              /\ Advances(c, After(c, p)) /\ UNCHANGED <<permission, users>>
         ELSE Raise(c) /\ UNCHANGED broken

HasLegacy(r) == \E m \in DOMAIN users : r \in users[m].legacy

(* "Cannot delete role with assigned users": those of role_id. *)
CountHolders(c) ==
  /\ Does(c, "count")
  /\ IF HasLegacy(Target(c)) THEN Reject(c)
     ELSE AdvancesOn(c) /\ UNCHANGED <<permission, grants, users>>

(* users.role_id references the role and forbids it, user_roles goes with it. *)
DropRole(c) ==
  /\ Does(c, "deleteRole")
  /\ IF HasLegacy(Target(c)) THEN Raise(c) /\ UNCHANGED broken
     ELSE /\ grants' = [r \in DOMAIN grants \ {Target(c)} |-> grants[r]]
          /\ users' = [m \in DOMAIN users |-> [users[m] EXCEPT !.held = @ \ {Target(c)}]]
          /\ Drops(c, Target(c)) /\ UNCHANGED permission

InsertUser(c) ==
  /\ Does(c, "insertUser")
  /\ IF Target(c) \in DOMAIN users THEN Reject(c)
     ELSE IF ~(Arg(c) \subseteq DOMAIN grants) THEN Raise(c) /\ UNCHANGED broken
     ELSE /\ users' = [m \in DOMAIN users \union {Target(c)} |->
                         IF m = Target(c) THEN [held |-> {}, legacy |-> Arg(c)] ELSE users[m]]
          /\ AdvancesOn(c) /\ UNCHANGED <<permission, grants>>

Unassign(c) ==
  /\ Does(c, "unassign")
  /\ users' = [m \in DOMAIN users |->
                 IF m = Target(c) THEN [users[m] EXCEPT !.held = {}] ELSE users[m]]
  /\ AdvancesOn(c) /\ UNCHANGED <<permission, grants>>

Assign(c) ==
  /\ Does(c, "assign")
  /\ \E r \in Arg(c) :
       IF Target(c) \in DOMAIN users /\ r \in DOMAIN grants
         THEN /\ users' = [users EXCEPT ![Target(c)].held = @ \union {r}]
              /\ Advances(c, After(c, r)) /\ UNCHANGED <<permission, grants>>
         ELSE Raise(c) /\ UNCHANGED broken

(* An UPDATE of no row is no error. *)
SetLegacy(c) ==
  /\ Does(c, "setLegacy")
  /\ IF Target(c) \in DOMAIN users /\ ~(Arg(c) \subseteq DOMAIN grants)
       THEN Raise(c) /\ UNCHANGED broken
       ELSE /\ users' = [m \in DOMAIN users |->
                           IF m = Target(c) THEN [users[m] EXCEPT !.legacy = Arg(c)] ELSE users[m]]
            /\ AdvancesOn(c) /\ UNCHANGED <<permission, grants>>

DropUser(c) ==
  /\ Does(c, "deleteUser")
  /\ users' = [m \in DOMAIN users \ {Target(c)} |-> users[m]]
  /\ AdvancesOn(c) /\ UNCHANGED <<permission, grants>>

InsertPermission(c) ==
  /\ Does(c, "insertPermission")
  /\ IF Target(c) \in permission THEN Reject(c)
     ELSE /\ permission' = permission \union {Target(c)}
          /\ AdvancesOn(c) /\ UNCHANGED <<grants, users>>

DropPermission(c) ==
  /\ Does(c, "deletePermission")
  /\ permission' = permission \ {Target(c)}
  /\ grants' = [r \in DOMAIN grants |-> grants[r] \ {Target(c)}]
  /\ Drops(c, Target(c)) /\ UNCHANGED users

(* The connection or the server process is lost. *)
Break(c) ==
  /\ serving[c].todo # <<>> /\ broken < MaxBroken
  /\ broken' = broken + 1 /\ Raise(c)

AskFor(c) ==
  \/ EditRole(c) \/ AddRole(c) \/ RemoveRole(c) \/ AddUser(c) \/ EditUser(c)
  \/ EditLegacy(c) \/ RemoveUser(c) \/ AddPermission(c) \/ RemovePermission(c)

RunOne(c) ==
  \/ Check(c) \/ FindRow(c) \/ InsertRole(c) \/ Ungrant(c) \/ Grant(c) \/ CountHolders(c)
  \/ DropRole(c) \/ InsertUser(c) \/ Unassign(c) \/ Assign(c) \/ SetLegacy(c)
  \/ DropUser(c) \/ InsertPermission(c) \/ DropPermission(c)

AccountsNext == AddMember \/ Seed \/ \E c \in Clients : AskFor(c) \/ RunOne(c) \/ Break(c)

AccountsSpec == AccountsInit /\ [][AccountsNext]_accountsVars

-----------------------------------------------------------------------------
(* Properties.                                                               *)

(* Rows refer to rows that exist, and requests are well formed. *)
AccountsTypeOK ==
  /\ SysPerms \subseteq permission /\ permission \subseteq Perms
  /\ DOMAIN grants \subseteq Roles /\ \A r \in DOMAIN grants : grants[r] \subseteq permission
  /\ DOMAIN users \subseteq Members
  /\ \A m \in DOMAIN users : users[m].held \union users[m].legacy \subseteq DOMAIN grants
  /\ \A c \in Clients : serving[c].todo = <<>> => serving[c] = NoRequest

(* What a role grants is what the last edit asked for, permissions deleted   *)
(* since left out: unless edits of it overlapped or one failed half way,     *)
(* between the DELETE and the last INSERT.                                   *)
RoleAsAsked ==
  \A r \in DOMAIN grants :
    ~Edited(r) /\ want[r].known => grants[r] = want[r].set

(* A user's permissions are those of the roles last chosen for the user,     *)
(* roles deleted since left out, by both ways a role is held: if at least    *)
(* one was chosen, and no edits overlapped or failed.                        *)
MemberAsAsked ==
  \A m \in DOMAIN users :
    ~Edited(m) /\ want[m].known /\ want[m].set # {} => Effective(m) = want[m].set

(* The roles that count for a user are the roles that are listed, so that    *)
(* whoever opens the page and saves it unchanged changes nothing.            *)
ListedAreEffective ==
  \A m \in DOMAIN users : ~Edited(m) /\ want[m].known => Listed(m) = Effective(m)

(* "Permissions are the union of all selected roles", none included.  (Not   *)
(* so: with none selected the main role counts.)                             *)
UnionOfSelected ==
  \A m \in DOMAIN users : ~Edited(m) /\ want[m].known => Effective(m) = want[m].set

(* A user who has a main role is never without any, whatever is deleted,     *)
(* overlaps or fails, until the user is deleted.                             *)
KeepsARole ==
  [][\A m \in DOMAIN users \intersect DOMAIN users' :
       users[m].legacy # {} => users'[m].legacy # {}]_accountsVars

(* What is checked of what edits ask for: roles and users grant what the     *)
(* last form that was saved asked for, and the roles that count for a user   *)
(* are those that are listed; edits that overlapped or broke off excepted    *)
(* (api/roles, api/users).                                                   *)
GrantsAsAsked == RoleAsAsked /\ MemberAsAsked /\ ListedAreEffective
=============================================================================
