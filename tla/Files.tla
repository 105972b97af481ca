-------------------------------- MODULE Files --------------------------------
(***************************************************************************)
(* The files of an organization: frontend/lib/org-files.js and the handlers *)
(* of frontend/app/api/files/route.js.  org_file_entries is a tree by       *)
(* parent_id (a foreign key with ON DELETE CASCADE); what a file holds is a *)
(* blob in the store, under a random key.  Here the key is the entry's id.  *)
(*                                                                         *)
(* A request is a sequence of awaited statements and file operations, and   *)
(* the requests of different users interleave at each of them.  Names,      *)
(* types and dates are left out, and of sharing and visibility what they    *)
(* grant beyond reading: who is an editor.                                  *)
(***************************************************************************)
EXTENDS Integers, Sequences, FiniteSets, Functions, FiniteSetsExt

CONSTANTS
  Users,       \* members of the organization, with one request at a time each
  Movers,      \* those among them who move entries
  MaxEntries,  \* bound: entries ever created
  Sizes,       \* sizes of uploaded files
  Limit,       \* the organization's storage limit
  MaxChanges,  \* bound: moves and changes of sharing
  MaxFaults    \* bound: crashed requests and failed unlinks

FilesAssumption ==
  /\ IsFiniteSet(Users) /\ Users # {} /\ Limit \in Nat
  /\ IsFiniteSet(Sizes) /\ Sizes # {} /\ Sizes \subseteq Nat \ {0}

Root == 0      \* parent_id null
Ids == 1..MaxEntries

VARIABLES
  entry,   \* org_file_entries: a function on the ids that exist
  blobs,   \* keys in the store
  last,    \* the last id handed out
  fileReq,     \* the request of each user
  changes, faults   \* counters of the bounds

fileVars == <<entry, blobs, last, fileReq, changes, faults>>

Present == DOMAIN entry
Usage == MapThenSumSet(LAMBDA e : entry[e].size, Present)
ParentOf(e) == IF e \in Present THEN entry[e].parent ELSE Root
Children(e) == {x \in Present : entry[x].parent = e}
Owns(u, e) == e \in Present /\ entry[e].owner = u
MayWrite(u, e) == e \in Present /\ (entry[e].owner = u \/ u \in entry[e].editors)
PlaceExists(e) == e = Root \/ e \in Present

NoRequest == [op |-> "idle", id |-> Root, to |-> Root, size |-> 0, at |-> Root,
         stack |-> <<>>]
Becomes(u, r) == fileReq' = [fileReq EXCEPT ![u] = r]
Done(u) == Becomes(u, NoRequest)

FilesInit ==
  /\ entry = [e \in {} |-> 0] /\ blobs = {} /\ last = 0
  /\ fileReq = [u \in Users |-> NoRequest]
  /\ changes = 0 /\ faults = 0

-----------------------------------------------------------------------------
(* mkdir and upload: the access check on the folder, the storage check, the  *)
(* blob, the row.                                                            *)

Begins(u, op, to, size) ==
  /\ fileReq[u].op = "idle" /\ last < MaxEntries
  /\ to = Root \/ MayWrite(u, to)
  /\ last' = last + 1
  /\ Becomes(u, [NoRequest EXCEPT !.op = op, !.id = last + 1, !.to = to, !.size = size])
  /\ UNCHANGED <<entry, blobs, changes, faults>>

Mkdir(u) == \E to \in {Root} \union Present : Begins(u, "insert", to, 0)

Upload(u) ==
  \E to \in {Root} \union Present, size \in Sizes : Begins(u, "measure", to, size)

(* getUsage and the comparison with the limit. *)
Measure(u) ==
  /\ fileReq[u].op = "measure"
  /\ IF Usage + fileReq[u].size <= Limit
       THEN Becomes(u, [fileReq[u] EXCEPT !.op = "write"]) ELSE Done(u)
  /\ UNCHANGED <<entry, blobs, last, changes, faults>>

WriteLater(u) ==   \* mutant: the file is not written before its row
  /\ fileReq[u].op = "write"
  /\ Becomes(u, [fileReq[u] EXCEPT !.op = "insert"])
  /\ UNCHANGED <<entry, blobs, last, changes, faults>>

(* fs.writeFile under a new key. *)
Write(u) ==
  /\ fileReq[u].op = "write"
  /\ blobs' = blobs \union {fileReq[u].id}
  /\ Becomes(u, [fileReq[u] EXCEPT !.op = "insert"])
  /\ UNCHANGED <<entry, last, changes, faults>>

Row(u, r) ==
  [kind |-> IF r.size > 0 THEN "file" ELSE "directory", parent |-> r.to,
   owner |-> u, editors |-> {}, size |-> r.size]

InsertAnywhere(u) ==   \* mutant: parent_id without a foreign key
  /\ fileReq[u].op = "insert"
  /\ entry' = [e \in Present \union {fileReq[u].id} |->
                 IF e = fileReq[u].id THEN Row(u, fileReq[u]) ELSE entry[e]]
  /\ Done(u)
  /\ UNCHANGED <<blobs, last, changes, faults>>

(* The INSERT fails on the foreign key if the folder is gone. *)
Insert(u) ==
  /\ fileReq[u].op = "insert"
  /\ entry' = IF ~PlaceExists(fileReq[u].to) THEN entry
              ELSE [e \in Present \union {fileReq[u].id} |->
                      IF e = fileReq[u].id THEN Row(u, fileReq[u]) ELSE entry[e]]
  /\ Done(u)
  /\ UNCHANGED <<blobs, last, changes, faults>>

-----------------------------------------------------------------------------
(* Sharing and moving.                                                       *)

(* shareEntry and setVisibility, by the owner only. *)
Share(u) ==
  /\ fileReq[u].op = "idle" /\ changes < MaxChanges /\ changes' = changes + 1
  /\ \E e \in Present, editors \in SUBSET (Users \ {u}) :
       Owns(u, e) /\ entry' = [entry EXCEPT ![e].editors = editors]
  /\ UNCHANGED <<blobs, last, fileReq, faults>>

(* The handler checks that the entry is the user's own, not the new place. *)
Move(u) ==
  /\ fileReq[u].op = "idle" /\ u \in Movers
  /\ changes < MaxChanges /\ changes' = changes + 1
  /\ \E e \in Present, to \in {Root} \union Present :
       /\ Owns(u, e)
       /\ Becomes(u, [NoRequest EXCEPT !.op = "walk", !.id = e, !.to = to, !.at = to])
  /\ UNCHANGED <<entry, blobs, last, faults>>

WalkInPlace(u) ==   \* mutant: a missing ancestor is looked up again
  /\ fileReq[u].op = "walk" /\ fileReq[u].at # Root
  /\ IF fileReq[u].at = fileReq[u].id THEN Done(u)
     ELSE Becomes(u, [fileReq[u] EXCEPT !.at = IF @ \in Present THEN ParentOf(@) ELSE @])
  /\ UNCHANGED <<entry, blobs, last, changes, faults>>

(* One round of the loop of moveEntry: refuse, or go one level up. *)
Walk(u) ==
  /\ fileReq[u].op = "walk" /\ fileReq[u].at # Root
  /\ IF fileReq[u].at = fileReq[u].id THEN Done(u)
     ELSE Becomes(u, [fileReq[u] EXCEPT !.at = ParentOf(@)])
  /\ UNCHANGED <<entry, blobs, last, changes, faults>>

(* The UPDATE, a no-op if the entry is gone, an error if the new place is. *)
Place(u) ==
  /\ fileReq[u].op = "walk" /\ fileReq[u].at = Root
  /\ entry' = IF fileReq[u].id \in Present /\ PlaceExists(fileReq[u].to)
                THEN [entry EXCEPT ![fileReq[u].id].parent = fileReq[u].to] ELSE entry
  /\ Done(u)
  /\ UNCHANGED <<blobs, last, changes, faults>>

-----------------------------------------------------------------------------
(* deleteEntry, recursive.  A frame is one call: what it does next, and the  *)
(* children it has still to delete.  The first frame is the handler.         *)

Frame(e, do, todo) == [id |-> e, do |-> do, todo |-> todo]

Delete(u) ==
  /\ fileReq[u].op = "idle"
  /\ \E e \in Present :
       /\ Owns(u, e)
       /\ Becomes(u, [NoRequest EXCEPT !.op = "delete", !.stack = <<Frame(Root, "each", {e})>>])
  /\ UNCHANGED <<entry, blobs, last, changes, faults>>

Top(u) == fileReq[u].stack[Len(fileReq[u].stack)]
Deleting(u, do) == fileReq[u].op = "delete" /\ Top(u).do = do
Below(u) == SubSeq(fileReq[u].stack, 1, Len(fileReq[u].stack) - 1)
Stacked(u, stack) == Becomes(u, [fileReq[u] EXCEPT !.stack = stack])

(* The call for one child: its getEntry. *)
Call(u) ==
  /\ Deleting(u, "each")
  /\ \E e \in Top(u).todo :
       LET rest == Append(Below(u), [Top(u) EXCEPT !.todo = @ \ {e}])
           do == IF entry[e].kind = "file" THEN "unlink" ELSE "list"
       IN Stacked(u, IF e \in Present THEN Append(rest, Frame(e, do, {})) ELSE rest)
  /\ UNCHANGED <<entry, blobs, last, changes, faults>>

(* An unlink that fails is ignored. *)
Unlink(u) ==
  /\ Deleting(u, "unlink")
  /\ \/ blobs' = blobs \ {Top(u).id} /\ UNCHANGED faults
     \/ faults < MaxFaults /\ faults' = faults + 1 /\ UNCHANGED blobs
  /\ Stacked(u, Append(Below(u), [Top(u) EXCEPT !.do = "each"]))
  /\ UNCHANGED <<entry, last, changes>>

(* The query for the children of a directory. *)
Listing(u) ==
  /\ Deleting(u, "list")
  /\ Stacked(u, Append(Below(u), Frame(Top(u).id, "each", Children(Top(u).id))))
  /\ UNCHANGED <<entry, blobs, last, changes, faults>>

(* What the DELETE of a row takes with it: itself, if it is still there, and *)
(* whatever has it among its ancestors.                                      *)
Cascade(e) ==
  {x \in Present : \A S \in SUBSET Ids :
     e \in S /\ (\A y \in Present : entry[y].parent \in S => y \in S) => x \in S}

DeleteRow(u) ==
  /\ Deleting(u, "each") /\ Top(u).todo = {} /\ Top(u).id # Root
  /\ entry' = Restrict(entry, Present \ Cascade(Top(u).id))
  /\ Stacked(u, Below(u))
  /\ UNCHANGED <<blobs, last, changes, faults>>

Deleted(u) ==
  /\ Deleting(u, "each") /\ Top(u).todo = {} /\ Top(u).id = Root
  /\ Done(u)
  /\ UNCHANGED <<entry, blobs, last, changes, faults>>

(* The server process, or the connection to the database, is lost. *)
Crash(u) ==
  /\ fileReq[u].op # "idle" /\ faults < MaxFaults
  /\ faults' = faults + 1 /\ Done(u)
  /\ UNCHANGED <<entry, blobs, last, changes>>

Proceed(u) ==
  \/ Measure(u) \/ Write(u) \/ Insert(u)
  \/ Walk(u) \/ Place(u)
  \/ Call(u) \/ Unlink(u) \/ Listing(u) \/ DeleteRow(u) \/ Deleted(u)

Arrive(u) == Mkdir(u) \/ Upload(u) \/ Share(u) \/ Move(u) \/ Delete(u)

FilesNext == \E u \in Users : Arrive(u) \/ Proceed(u) \/ Crash(u)

FilesSpec == FilesInit /\ [][FilesNext]_fileVars

(* Every awaited call returns or raises. *)
FilesFairness == \A u \in Users : WF_fileVars(Proceed(u))
FairFilesSpec == FilesSpec /\ FilesFairness

-----------------------------------------------------------------------------
(* Properties.                                                               *)

(* Rows, requests and blobs keep their types. *)
FilesTypeOK ==
  /\ Present \subseteq 1..last /\ last \in 0..MaxEntries /\ blobs \subseteq 1..last
  /\ \A e \in Present :
       /\ entry[e].kind = IF entry[e].size > 0 THEN "file" ELSE "directory"
       /\ PlaceExists(entry[e].parent)
       /\ entry[e].owner \in Users /\ entry[e].editors \subseteq Users
       /\ entry[e].size \in {0} \union Sizes
  /\ \A u \in Users :
       /\ fileReq[u].op \in {"idle", "measure", "write", "insert", "walk", "delete"}
       /\ {fileReq[u].id, fileReq[u].to, fileReq[u].at} \subseteq 0..last
       /\ fileReq[u].op = "delete" <=> fileReq[u].stack # <<>>

(* "Cannot move into own subdirectory": no set of entries has all its        *)
(* parents in itself, so each entry is reached from the root.                *)
Forest ==
  ~ \E S \in SUBSET Present :
      S # {} /\ \A e \in S : entry[e].parent \in S

(* A file that is listed can be downloaded, unless a deletion has come to it *)
(* or something failed: the blob is written before the row, removed before   *)
(* it, and by nobody else.                                                   *)
ListedIsStored ==
  \A e \in Present :
    entry[e].kind = "file" /\ e \notin blobs =>
      faults > 0 \/ \E u \in Users : \E i \in DOMAIN fileReq[u].stack : fileReq[u].stack[i].id = e

(* The storage limit is exceeded by no more than the uploads that the other  *)
(* users had under way when it was checked.                                  *)
QuotaSlack == Usage <= Limit + (Cardinality(Users) - 1) * Max(Sizes)

(* Moves close no cycle, listed files are stored, and the limit is kept but  *)
(* for concurrent uploads.                                                   *)
TreeHolds == Forest /\ ListedIsStored /\ QuotaSlack

(* Every request is answered: with finitely many moves, the walk up the tree *)
(* reaches the root and the recursion of a deletion comes to an end.         *)
RequestsEnd == \A u \in Users : []<>(fileReq[u].op = "idle")
=============================================================================
