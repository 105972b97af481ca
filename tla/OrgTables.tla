------------------------------ MODULE OrgTables ------------------------------
(***************************************************************************)
(* The tables an organization makes for its data: lib/org-tables.js and the *)
(* handlers of api/tables, api/tables/[id]/data and api/v1/data.            *)
(*                                                                         *)
(* A table is two things, a generated SQL table and a row of org_tables     *)
(* that registers its name and columns, and every handler is a sequence of  *)
(* statements outside any transaction.  Handlers find a table by its id and *)
(* then work by its name.  Flows of the scheduler and generated services    *)
(* insert rows as well, past these handlers.                                *)
(***************************************************************************)
EXTENDS Integers, Sequences, FiniteSets

NoName == ""  \* of a request that has an id to find its table by

CONSTANTS
  TableClients,
  Names,                   \* names clients choose; not weather_live, a table that
                           \*   services/data_processor.py makes unregistered
  Columns, OwnColumns,     \* columns a client may ask for; those the generated
                           \*   table has anyway: id, org_id, created_at
  MaxTableRequests,        \* bound: requests, with the inserts of others
  MaxCut                   \* bound: lost connections

(* The generated columns can be asked for too; a name is never empty. *)
ASSUME TablesAssumption == OwnColumns \subseteq Columns /\ NoName \notin Names

VARIABLES
  real,      \* generated tables: their columns and how many rows they hold
  registry,  \* rows of org_tables by id
  handling,  \* the request of each client
  torn,      \* history: names whose last schema changes overlapped or broke off
  adrift,    \* history: names whose row_count is not due to be right
  ids, asked, cut \* the serial of org_tables; counters of the bounds

tablesVars == <<real, registry, handling, torn, adrift, ids, asked, cut>>

RegisteredAs(n) == {i \in DOMAIN registry : registry[i].name = n}
Less(f, x) == [y \in DOMAIN f \ {x} |-> f[y]]
With(f, x, v) == [y \in DOMAIN f \union {x} |-> IF y = x THEN v ELSE f[y]]

-----------------------------------------------------------------------------
(* The handlers, as the statements they run.  Rows that are inserted are a   *)
(* sequence of which of them fit the table.                                  *)

ById == <<"find by id">>
CreateOrgTable == <<"create", "index", "register">>
DropOrgTableRowOnly == ById \o <<"unregister">>                          \* mutant
DropOrgTable == ById \o <<"drop", "unregister">>
InsertData == <<"columns", "insert", "count", "store">>
UpdateRecord == ById \o <<"columns", "update">>
DeleteRecords == ById \o <<"columns", "delete">>

Unasked == [todo |-> <<>>, id |-> 0, name |-> NoName, cols |-> {}, rows |-> <<>>,
            schema |-> FALSE, clear |-> TRUE, count |-> 0]

On(n) == {c \in TableClients : handling[c].todo # <<>> /\ handling[c].name = n}
SchemaOn(n) == {c \in On(n) : handling[c].schema}

TablesInit ==
  /\ real = <<>> /\ registry = <<>>
  /\ handling = [c \in TableClients |-> Unasked]
  /\ torn = {} /\ adrift = {} /\ ids = 0 /\ asked = 0 /\ cut = 0

(* Requests that work on the same table at the same time are not clear. *)
Meet(h, c, n) ==
  LET met == On(n) \ {c}
  IN [d \in TableClients |->
        IF d = c THEN IF h.todo = <<>> THEN Unasked ELSE [h EXCEPT !.clear = @ /\ met = {}]
        ELSE [handling[d] EXCEPT !.clear = @ /\ d \notin met]]

Arrives(c, h) ==
  /\ asked < MaxTableRequests /\ asked' = asked + 1
  /\ handling[c].todo = <<>>
  /\ handling' = IF h.name \in Names THEN Meet(h, c, h.name) ELSE [handling EXCEPT ![c] = h]
  /\ UNCHANGED <<real, registry, torn, adrift, ids, cut>>

TableIds == 1 .. ids

PostTable(c) ==
  \E n \in Names, S \in SUBSET Columns \ {{}} :
    Arrives(c, [Unasked EXCEPT !.todo = CreateOrgTable, !.name = n, !.cols = S, !.schema = TRUE])
DeleteTable(c) == \E i \in TableIds :
  Arrives(c, [Unasked EXCEPT !.todo = DropOrgTable, !.id = i, !.schema = TRUE])

Batches == {<<TRUE>>, <<TRUE, TRUE>>, <<TRUE, FALSE>>}
PostData(c) == \E i \in TableIds, b \in Batches :
  Arrives(c, [Unasked EXCEPT !.todo = ById \o InsertData, !.id = i, !.rows = b])
PostV1Data(c) == \E n \in Names, b \in Batches :
  Arrives(c, [Unasked EXCEPT !.todo = InsertData, !.name = n, !.rows = b])
PatchData(c) == \E i \in TableIds : Arrives(c, [Unasked EXCEPT !.todo = UpdateRecord, !.id = i])
DeleteData(c) == \E i \in TableIds : Arrives(c, [Unasked EXCEPT !.todo = DeleteRecords, !.id = i])

-----------------------------------------------------------------------------
(* Running a statement.                                                      *)

At(c, do) == handling[c].todo # <<>> /\ Head(handling[c].todo) = do
Name(c) == handling[c].name
Rest(c) == Tail(handling[c].todo)
There(c) == Name(c) \in DOMAIN real
Registered(c) == RegisteredAs(Name(c)) # {}

(* Schema changes that overlap tear the name. *)
Proceeds(c, h) ==
  /\ handling' = Meet(h, c, h.name)
  /\ torn' = torn \union IF h.schema /\ SchemaOn(h.name) \ {c} # {} THEN {h.name} ELSE {}
  /\ UNCHANGED <<asked, cut>>
GoesOn(c) == Proceeds(c, [handling[c] EXCEPT !.todo = Rest(c)])

Ends(c) == handling' = [handling EXCEPT ![c] = Unasked] /\ UNCHANGED <<real, registry, ids, asked>>

(* An error response, 404, 409 or 400, and nothing has been changed. *)
Refuse(c) == Ends(c) /\ UNCHANGED <<torn, adrift, cut>>

(* The request ends and leaves what it has done. *)
HalfDone(c) ==
  /\ Ends(c)
  /\ torn' = IF handling[c].schema THEN torn \union {Name(c)} ELSE torn
  /\ adrift' = adrift \union {Name(c)}

FindById(c) ==
  /\ At(c, "find by id")
  /\ LET i == handling[c].id
     IN IF i \in DOMAIN registry
          THEN /\ Proceeds(c, [handling[c] EXCEPT !.todo = Rest(c), !.name = registry[i].name])
               /\ UNCHANGED <<real, registry, ids, adrift>>
          ELSE Refuse(c)

(* CREATE TABLE IF NOT EXISTS: a table that is there keeps its columns; a    *)
(* new one cannot have a column twice.                                       *)
CreateReal(c) ==
  /\ At(c, "create")
  /\ IF There(c) THEN GoesOn(c) /\ UNCHANGED <<real, registry, ids, adrift>>
     ELSE IF handling[c].cols \intersect OwnColumns # {} THEN Refuse(c)
     ELSE /\ real' = With(real, Name(c), [cols |-> handling[c].cols, size |-> 0])
          /\ GoesOn(c) /\ UNCHANGED <<registry, ids, adrift>>

(* Indexes, on those of the columns that ask for one. *)
Index(c) ==
  /\ At(c, "index")
  /\ \/ There(c) /\ GoesOn(c) /\ UNCHANGED <<real, registry, ids, adrift>>
     \/ /\ There(c) => ~(handling[c].cols \subseteq real[Name(c)].cols)
        /\ Refuse(c)

(* UNIQUE(org_id, name) *)
Register(c) ==
  /\ At(c, "register")
  /\ IF Registered(c) THEN Refuse(c)
     ELSE /\ ids' = ids + 1
          /\ registry' = With(registry, ids + 1,
               [name |-> Name(c), cols |-> handling[c].cols, row_count |-> 0])
          /\ adrift' = IF handling[c].clear THEN adrift \ {Name(c)} ELSE adrift
          /\ GoesOn(c) /\ UNCHANGED real

(* A description or a db_type that is too long is told here: the table that  *)
(* was created stays.                                                        *)
RegisterFails(c) ==
  /\ At(c, "register")
  /\ IF Registered(c) THEN Refuse(c) ELSE HalfDone(c) /\ UNCHANGED cut

(* DROP TABLE IF EXISTS *)
DropReal(c) ==
  /\ At(c, "drop")
  /\ real' = Less(real, Name(c))
  /\ GoesOn(c) /\ UNCHANGED <<registry, ids, adrift>>

Unregister(c) ==
  /\ At(c, "unregister")
  /\ registry' = Less(registry, handling[c].id)
  /\ handling' = [handling EXCEPT ![c] = Unasked]
  /\ torn' = IF handling[c].clear THEN torn \ {Name(c)}
             ELSE torn \union IF SchemaOn(Name(c)) \ {c} # {} THEN {Name(c)} ELSE {}
  /\ UNCHANGED <<real, ids, adrift, asked, cut>>

(* By its name, the table may be another one by now than the id was of. *)
ReadColumns(c) ==
  /\ At(c, "columns")
  /\ IF Registered(c)
       THEN /\ Proceeds(c, [handling[c] EXCEPT !.todo = Rest(c),
                          !.cols = registry[CHOOSE i \in RegisteredAs(Name(c)) : TRUE].cols])
            /\ UNCHANGED <<real, registry, ids, adrift>>
       ELSE Refuse(c)

Fits(c) == There(c) /\ handling[c].cols \subseteq real[Name(c)].cols

(* A row at a time; one that does not fit is the end of the loop. *)
InsertRow(c) ==
  /\ At(c, "insert")
  /\ LET rows == handling[c].rows
     IN IF ~Fits(c) \/ ~Head(rows) THEN HalfDone(c) /\ UNCHANGED cut
        ELSE /\ real' = [real EXCEPT ![Name(c)].size = @ + 1]
             /\ Proceeds(c, [handling[c] EXCEPT !.rows = Tail(rows),
                           !.todo = IF Tail(rows) = <<>> THEN Rest(c) ELSE @])
             /\ UNCHANGED <<registry, ids, adrift>>

Count(c) ==
  /\ At(c, "count")
  /\ IF There(c)
       THEN /\ Proceeds(c, [handling[c] EXCEPT !.todo = Rest(c), !.count = real[Name(c)].size])
            /\ UNCHANGED <<real, registry, ids, adrift>>
       ELSE HalfDone(c) /\ UNCHANGED cut

Store(c) ==
  /\ At(c, "store")
  /\ registry' = [i \in DOMAIN registry |->
       IF i \in RegisteredAs(Name(c)) THEN [registry[i] EXCEPT !.row_count = handling[c].count]
       ELSE registry[i]]
  /\ adrift' = IF handling[c].clear THEN adrift \ {Name(c)} ELSE adrift \union {Name(c)}
  /\ GoesOn(c) /\ UNCHANGED <<real, ids>>

Update(c) ==
  /\ At(c, "update")
  /\ IF Fits(c) THEN GoesOn(c) /\ UNCHANGED <<real, registry, ids, adrift>> ELSE Refuse(c)

(* The ids that are given may have gone; row_count stays. *)
DeleteRows(c) ==
  /\ At(c, "delete")
  /\ IF ~There(c) THEN Refuse(c)
     ELSE \E n \in 0 .. real[Name(c)].size :
            /\ real' = [real EXCEPT ![Name(c)].size = n]
            /\ adrift' = IF n = real[Name(c)].size THEN adrift ELSE adrift \union {Name(c)}
            /\ GoesOn(c) /\ UNCHANGED <<registry, ids>>

(* Rows that others insert, committed at once: an insert block of a flow, a  *)
(* service.  They store no count, and requests under way are clear no more.  *)
OthersInsert(n) ==
  /\ asked < MaxTableRequests /\ asked' = asked + 1
  /\ n \in DOMAIN real
  /\ \E b \in Batches : real' = [real EXCEPT ![n].size = @ + Len(b)]
  /\ adrift' = adrift \union {n}
  /\ handling' = [c \in TableClients |-> [handling[c] EXCEPT !.clear = @ /\ c \notin On(n)]]
  /\ UNCHANGED <<registry, torn, ids, cut>>

(* The connection or the server process is lost. *)
Cut(c) ==
  /\ handling[c].todo # <<>> /\ cut < MaxCut /\ cut' = cut + 1
  /\ HalfDone(c)

TablesStep(c) ==
  \/ PostTable(c) \/ DeleteTable(c) \/ PostData(c) \/ PostV1Data(c) \/ PatchData(c) \/ DeleteData(c)
  \/ FindById(c) \/ CreateReal(c) \/ Index(c) \/ Register(c) \/ RegisterFails(c)
  \/ DropReal(c) \/ Unregister(c)
  \/ ReadColumns(c) \/ InsertRow(c) \/ Count(c) \/ Store(c) \/ Update(c) \/ DeleteRows(c) \/ Cut(c)

TablesNext == (\E c \in TableClients : TablesStep(c)) \/ \E n \in Names : OthersInsert(n)
TablesSpec == TablesInit /\ [][TablesNext]_tablesVars

-----------------------------------------------------------------------------
(* Properties.                                                               *)

TablesTypeOK ==
  /\ DOMAIN real \subseteq Names /\ DOMAIN registry \subseteq TableIds
  /\ \A i, j \in DOMAIN registry : registry[i].name = registry[j].name => i = j
  /\ \A n \in DOMAIN real : real[n].cols \subseteq Columns \ OwnColumns
  /\ \A c \in TableClients : handling[c].todo = <<>> => handling[c] = Unasked

(* What is registered is there, with the columns it is registered with, and  *)
(* nothing else is: unless changes of the name overlapped, or one broke off  *)
(* or was refused after its table had been created, until a later deletion.  *)
SchemaAgrees ==
  \A n \in Names \ torn : SchemaOn(n) = {} =>
    /\ n \in DOMAIN real <=> RegisteredAs(n) # {}
    /\ \A i \in RegisteredAs(n) : real[n].cols = registry[i].cols

(* row_count is the number of rows, once an insert has ended that met no     *)
(* other request and no rows of others, and until rows are deleted, an       *)
(* insert fails half way, or others insert rows.                             *)
CountExact ==
  \A n \in Names \ (torn \union adrift) : On(n) = {} =>
    \A i \in RegisteredAs(n) : registry[i].row_count = real[n].size

(* The registry of an organization's tables agrees with the database, in     *)
(* names, columns and counts, but where requests met or broke off, and in    *)
(* counts but where others than the handlers have inserted.                  *)
RegistryExact == SchemaAgrees /\ CountExact
=============================================================================
