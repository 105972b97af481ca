----------------------------- MODULE FilesProofs -----------------------------
(* Proofs about files.  Files: with at most one user who moves entries, the  *)
(* entries form a forest, however the others create, share and delete; and   *)
(* with any number of them what is listed is stored, and the limit exceeded  *)
(* by no more than the uploads that overlap.  Notebooks: what was written in *)
(* the editor arrives in the page, and its file goes.                        *)
EXTENDS Files, Notebooks, FiniteSetTheorems, WellFoundedInduction, TLAPS

Fields == {"op", "id", "to", "size", "at", "stack"}
Pending(u) == fileReq[u].op \in {"measure", "write", "insert"}

(* Ids are handed out once: a pending one belongs to one request and to no   *)
(* row; parents exist.                                                       *)
RowInv ==
  /\ last \in Nat /\ Present \subseteq 1..last
  /\ \A e \in Present : PlaceExists(entry[e].parent)
  /\ DOMAIN fileReq = Users /\ \A u \in Users : DOMAIN fileReq[u] = Fields
  /\ \A u \in Users : Pending(u) => fileReq[u].id \in (1..last) \ Present
  /\ \A u, v \in Users : Pending(u) /\ Pending(v) /\ u # v => fileReq[u].id # fileReq[v].id

(* W holds what the walk of u has passed: not the entry it moves, and closed *)
(* upwards but for the ancestor it looks at next.                            *)
Passed(u, W) ==
  /\ W \subseteq 1..last /\ fileReq[u].id \notin W
  /\ fileReq[u].at \in 0..last /\ fileReq[u].to \in W \union {fileReq[u].at}
  /\ \A x \in W \intersect Present : entry[x].parent \in W \union {fileReq[u].at}
  /\ \A v \in Users : Pending(v) => fileReq[v].id \notin W \union {fileReq[u].at}
WalkInv ==
  \A u \in Users : fileReq[u].op = "walk" => u \in Movers /\ \E W : Passed(u, W)

Closed(S) == S # {} /\ \A e \in S : entry[e].parent \in S
ForestInv == \A S \in SUBSET Present : ~Closed(S)

IInv == RowInv /\ WalkInv /\ ForestInv

LEMMA ForestIs == Forest <=> ForestInv
BY DEF Forest, ForestInv, Closed

-----------------------------------------------------------------------------
(* What the steps have in common.                                            *)

LEMMA Becoming ==
  ASSUME RowInv, NEW u \in Users, NEW r, DOMAIN r = Fields, Becomes(u, r)
  PROVE  /\ DOMAIN fileReq' = Users /\ \A v \in Users : DOMAIN fileReq'[v] = Fields
         /\ fileReq'[u] = r /\ \A v \in Users \ {u} : fileReq'[v] = fileReq[v]
BY DEF RowInv, Becomes

LEMMA IdleFields == DOMAIN NoRequest = Fields /\ NoRequest.op = "idle"
BY DEF NoRequest, Fields

(* A step that hands out no id and creates no row. *)
LEMMA RowShrinks ==
  ASSUME RowInv, NEW u \in Users, NEW r, DOMAIN r = Fields, Becomes(u, r),
         last' = last, Present' \subseteq Present,
         (\A e \in Present : PlaceExists(entry[e].parent))',
         r.op \in {"measure", "write", "insert"} => Pending(u) /\ r.id = fileReq[u].id
  PROVE  RowInv'
<1>1. /\ DOMAIN fileReq' = Users /\ \A v \in Users : DOMAIN fileReq'[v] = Fields
      /\ fileReq'[u] = r /\ \A v \in Users \ {u} : fileReq'[v] = fileReq[v]
  BY Becoming
<1>2. last' \in Nat /\ Present' \subseteq 1..last'
  BY DEF RowInv
<1>4. \A v \in Users : Pending(v)' => Pending(v) /\ fileReq'[v].id = fileReq[v].id
  BY <1>1 DEF Pending
<1>5. \A v \in Users : Pending(v)' => fileReq'[v].id \in (1..last') \ Present'
  BY <1>4 DEF RowInv
<1>6. \A v, w \in Users : Pending(v)' /\ Pending(w)' /\ v # w => fileReq'[v].id # fileReq'[w].id
  BY <1>4 DEF RowInv
<1> QED
  BY <1>1, <1>2, <1>5, <1>6 DEF RowInv

LEMMA RowUnchanged ==
  ASSUME RowInv, NEW u \in Users, NEW r, DOMAIN r = Fields, Becomes(u, r),
         last' = last, entry' = entry,
         r.op \in {"measure", "write", "insert"} => Pending(u) /\ r.id = fileReq[u].id
  PROVE  RowInv'
<1>1. Present' = Present
  BY DEF Present
<1>2. (\A e \in Present : PlaceExists(entry[e].parent))'
  BY <1>1 DEF RowInv, PlaceExists
<1> QED
  BY <1>1, <1>2, RowShrinks

(* The rows that a DELETE leaves have their parents among themselves.        *)
LEMMA CascadeCloses ==
  ASSUME NEW e, NEW x \in Present, entry[x].parent \in Cascade(e)
  PROVE  x \in Cascade(e)
BY DEF Cascade

-----------------------------------------------------------------------------
(* RowInv is inductive.                                                      *)

LEMMA RowInit == FilesInit => RowInv
BY DEF FilesInit, RowInv, Present, NoRequest, Fields, Pending

LEMMA RowStarts ==
  ASSUME RowInv, NEW u \in Users, NEW op, NEW to, NEW size, Begins(u, op, to, size)
  PROVE  RowInv'
<1> DEFINE r == [NoRequest EXCEPT !.op = op, !.id = last + 1, !.to = to, !.size = size]
<1>1. DOMAIN r = Fields /\ r.id = last + 1 /\ Becomes(u, r)
  BY DEF Begins, NoRequest, Fields
<1> HIDE DEF r
<1>2. /\ DOMAIN fileReq' = Users /\ \A v \in Users : DOMAIN fileReq'[v] = Fields
      /\ fileReq'[u] = r /\ \A v \in Users \ {u} : fileReq'[v] = fileReq[v]
  BY <1>1, Becoming
<1>3. Present' = Present /\ last' = last + 1 /\ entry' = entry
  BY DEF Begins, Present
<1>4. (\A e \in Present : PlaceExists(entry[e].parent))'
  BY <1>3 DEF RowInv, PlaceExists
<1>5. last' \in Nat /\ Present' \subseteq 1..last'
  BY <1>3 DEF RowInv
<1>6. \A v \in Users \ {u} : Pending(v)' => fileReq'[v].id \in (1..last) \ Present
  BY <1>2 DEF RowInv, Pending
<1>7. \A v \in Users : Pending(v)' => fileReq'[v].id \in (1..last') \ Present'
  BY <1>1, <1>2, <1>3, <1>6 DEF RowInv
<1>8. \A v, w \in Users : Pending(v)' /\ Pending(w)' /\ v # w => fileReq'[v].id # fileReq'[w].id
  <2> SUFFICES ASSUME NEW v \in Users, NEW w \in Users, Pending(v)', Pending(w)', v # w
               PROVE  fileReq'[v].id # fileReq'[w].id
    OBVIOUS
  <2>1. CASE v = u
    BY <2>1, <1>1, <1>2, <1>6 DEF RowInv
  <2>2. CASE w = u
    BY <2>2, <1>1, <1>2, <1>6 DEF RowInv
  <2>3. CASE v # u /\ w # u
    BY <2>3, <1>2 DEF RowInv, Pending
  <2> QED
    BY <2>1, <2>2, <2>3
<1> QED
  BY <1>2, <1>4, <1>5, <1>7, <1>8 DEF RowInv

LEMMA RowInsert ==
  ASSUME RowInv, NEW u \in Users, Insert(u)
  PROVE  RowInv'
<1> DEFINE e == fileReq[u].id
<1>1. /\ DOMAIN fileReq' = Users /\ \A v \in Users : DOMAIN fileReq'[v] = Fields
      /\ fileReq'[u] = NoRequest /\ \A v \in Users \ {u} : fileReq'[v] = fileReq[v]
  BY Becoming, IdleFields DEF Insert, Done
<1>2. Pending(u) /\ e \in (1..last) \ Present /\ last' = last
  BY DEF Insert, Pending, RowInv
<1>3. Present' \subseteq Present \union {e} /\ Present \subseteq Present'
  BY DEF Insert, Present
<1>4. (\A x \in Present : PlaceExists(entry[x].parent))'
  <2> SUFFICES ASSUME NEW x \in Present'
               PROVE  entry'[x].parent = Root \/ entry'[x].parent \in Present'
    BY DEF PlaceExists
  <2>1. CASE x \in Present
    <3>1. entry'[x] = entry[x]
      BY <2>1, <1>2 DEF Insert, Present
    <3> QED
      BY <3>1, <2>1, <1>3 DEF RowInv, PlaceExists
  <2>2. CASE x \notin Present
    <3>1. x = e /\ PlaceExists(fileReq[u].to) /\ entry'[x] = Row(u, fileReq[u])
      BY <2>2, <1>3 DEF Insert, Present
    <3> QED
      BY <3>1, <1>3 DEF Row, PlaceExists
  <2> QED
    BY <2>1, <2>2
<1>5. \A v \in Users : Pending(v)' => v # u /\ Pending(v) /\ fileReq'[v].id = fileReq[v].id
  BY <1>1, IdleFields DEF Pending
<1>6. \A v \in Users : Pending(v)' => fileReq'[v].id \in (1..last') \ Present'
  BY <1>2, <1>3, <1>5 DEF RowInv
<1>7. \A v, w \in Users : Pending(v)' /\ Pending(w)' /\ v # w => fileReq'[v].id # fileReq'[w].id
  BY <1>5 DEF RowInv
<1> QED
  BY <1>1, <1>2, <1>3, <1>4, <1>6, <1>7 DEF RowInv

(* The steps that change nothing but requests, blobs and counters.           *)
Quiet(u) ==
  \/ Measure(u) \/ Write(u) \/ Walk(u) \/ Call(u) \/ Unlink(u) \/ Listing(u)
  \/ Deleted(u) \/ Crash(u) \/ Move(u) \/ Delete(u)

(* What such a step makes of its request. *)
QuietTo(u, r) ==
  /\ DOMAIN r = Fields /\ Becomes(u, r)
  /\ r.op \in {"measure", "write", "insert"} => Pending(u) /\ r.id = fileReq[u].id
  /\ r.op = "walk" => Walk(u) \/ Move(u)

LEMMA QuietStep ==
  ASSUME RowInv, NEW u \in Users, Quiet(u)
  PROVE  entry' = entry /\ last' = last /\ \E r : QuietTo(u, r)
<1> USE DEF Fields, QuietTo
<1>0. DOMAIN fileReq[u] = Fields
  BY DEF RowInv
<1>1. CASE Measure(u)
  <2>1. CASE Done(u)
    BY <1>1, <2>1, IdleFields DEF Measure, Done
  <2>2. CASE Becomes(u, [fileReq[u] EXCEPT !.op = "write"])
    BY <1>0, <1>1, <2>2 DEF Measure, Pending
  <2> QED
    BY <1>1, <2>1, <2>2 DEF Measure
<1>2. CASE Write(u)
  BY <1>0, <1>2 DEF Write, Pending
<1>3. CASE Walk(u)
  <2>1. CASE Done(u)
    BY <1>3, <2>1, IdleFields DEF Walk, Done
  <2>2. CASE Becomes(u, [fileReq[u] EXCEPT !.at = ParentOf(@)])
    BY <1>0, <1>3, <2>2 DEF Walk
  <2> QED
    BY <1>3, <2>1, <2>2 DEF Walk
<1>4. ASSUME NEW s, Stacked(u, s), fileReq[u].op = "delete"
      PROVE  \E r : /\ DOMAIN r = Fields /\ Becomes(u, r) /\ r.op = "delete"
  BY <1>0, <1>4 DEF Stacked
<1>5. CASE Call(u)
  BY <1>4, <1>5 DEF Call, Deleting
<1>6. CASE Unlink(u)
  BY <1>4, <1>6 DEF Unlink, Deleting
<1>7. CASE Listing(u)
  BY <1>4, <1>7 DEF Listing, Deleting
<1>8. CASE Deleted(u) \/ Crash(u)
  BY <1>8, IdleFields DEF Deleted, Crash, Done
<1>9. CASE Move(u)
  BY <1>9 DEF Move, NoRequest
<1>10. CASE Delete(u)
  <2>1. PICK e \in Present :
          Becomes(u, [NoRequest EXCEPT !.op = "delete", !.stack = <<Frame(Root, "each", {e})>>])
    BY <1>10 DEF Delete
  <2> DEFINE r == [NoRequest EXCEPT !.op = "delete", !.stack = <<Frame(Root, "each", {e})>>]
  <2>2. DOMAIN r = Fields /\ r.op = "delete"
    BY DEF NoRequest
  <2>3. QuietTo(u, r)
    BY <2>1, <2>2
  <2> HIDE DEF r
  <2> QED
    BY <1>10, <2>3 DEF Delete
<1> HIDE DEF Fields, QuietTo
<1> QED
  BY <1>1, <1>2, <1>3, <1>5, <1>6, <1>7, <1>8, <1>9, <1>10 DEF Quiet

LEMMA RowDelete ==
  ASSUME RowInv, NEW u \in Users, DeleteRow(u)
  PROVE  RowInv'
<1> DEFINE gone == Cascade(Top(u).id)
           r == [fileReq[u] EXCEPT !.stack = Below(u)]
<1>1. entry' = Restrict(entry, Present \ gone) /\ last' = last
  BY DEF DeleteRow
<1>2. Present' = Present \ gone /\ \A e \in Present' : entry'[e] = entry[e]
  BY <1>1 DEF Restrict, Present
<1>3. (\A e \in Present : PlaceExists(entry[e].parent))'
  BY <1>2, CascadeCloses DEF RowInv, PlaceExists
<1>4. Becomes(u, r) /\ DOMAIN r = Fields /\ r.op = "delete"
  BY DEF DeleteRow, Stacked, Deleting, RowInv, Fields
<1> QED
  BY <1>1, <1>2, <1>3, <1>4, RowShrinks

LEMMA RowPlace ==
  ASSUME RowInv, NEW u \in Users, Place(u)
  PROVE  RowInv'
<1>1. Present' = Present /\ last' = last
  BY DEF Place, Present
<1>2. (\A e \in Present : PlaceExists(entry[e].parent))'
  BY <1>1 DEF Place, RowInv, PlaceExists, Present
<1>3. Becomes(u, NoRequest)
  BY DEF Place, Done
<1> QED
  BY <1>1, <1>2, <1>3, IdleFields, RowShrinks

LEMMA RowShare ==
  ASSUME RowInv, NEW u \in Users, Share(u)
  PROVE  RowInv'
<1>1. Present' = Present /\ last' = last /\ fileReq' = fileReq
  BY DEF Share, Present
<1>2. \A e \in Present : entry'[e].parent = entry[e].parent
  BY DEF Share, Present
<1> QED
  BY <1>1, <1>2 DEF RowInv, Pending, PlaceExists

LEMMA RowInductive == RowInv /\ [FilesNext]_fileVars => RowInv'
<1> SUFFICES ASSUME RowInv, [FilesNext]_fileVars PROVE RowInv'
  OBVIOUS
<1>1. CASE UNCHANGED fileVars
  BY <1>1 DEF fileVars, RowInv, Present, PlaceExists, Pending
<1>2. ASSUME NEW u \in Users, Quiet(u) PROVE RowInv'
  <2>1. entry' = entry /\ last' = last
    BY <1>2, QuietStep
  <2>2. PICK r : QuietTo(u, r)
    BY <1>2, QuietStep
  <2> QED
    BY <2>1, <2>2, RowUnchanged DEF QuietTo
<1>3. ASSUME NEW u \in Users, Mkdir(u) \/ Upload(u) PROVE RowInv'
  BY <1>3, RowStarts DEF Mkdir, Upload
<1> QED
  BY <1>1, <1>2, <1>3, RowInsert, RowDelete, RowPlace, RowShare
  DEF FilesNext, Arrive, Proceed, Quiet

-----------------------------------------------------------------------------
(* WalkInv is inductive, if one user moves entries.                          *)

LEMMA ZeroIncluded ==
  ASSUME last \in Nat PROVE 1..last \subseteq 0..last /\ 0 \in 0..last
OBVIOUS

(* What a step of another user must not change for a walk to stay valid.     *)
LEMMA PassedStays ==
  ASSUME RowInv, NEW u \in Users, NEW W, Passed(u, W),
         fileReq'[u] = fileReq[u], last' \in Nat, last <= last',
         \A x \in W : x \in Present' => x \in Present /\ entry'[x].parent = entry[x].parent,
         \A v \in Users : Pending(v)' =>
           \/ Pending(v) /\ fileReq'[v].id = fileReq[v].id
           \/ fileReq'[v].id \notin 0..last
  PROVE  Passed(u, W)'
<1>1. (W \subseteq 1..last)' /\ (fileReq[u].at \in 0..last)'
  BY DEF Passed, RowInv
<1>2. (\A x \in W \intersect Present : entry[x].parent \in W \union {fileReq[u].at})'
  BY DEF Passed
<1>3. ASSUME NEW v \in Users, Pending(v)'
      PROVE  fileReq'[v].id \notin W \union {fileReq'[u].at}
  <2>1. \A x \in W \union {fileReq'[u].at} : x \in 0..last
    BY ZeroIncluded DEF Passed, RowInv
  <2> QED
    BY <1>3, <2>1 DEF Passed
<1> QED
  BY <1>1, <1>2, <1>3 DEF Passed

(* The mover's own steps: the walk begins, goes up, and ends.                *)
LEMMA WalkGoesOn ==
  ASSUME RowInv, WalkInv, NEW u \in Users, Walk(u), fileReq'[u].op = "walk"
  PROVE  \E W : Passed(u, W)'
<1>1. PICK W : Passed(u, W)
  BY DEF Walk, WalkInv
<1>2. /\ Becomes(u, [fileReq[u] EXCEPT !.at = ParentOf(@)])
      /\ fileReq[u].at # fileReq[u].id /\ fileReq[u].at # Root
  BY IdleFields DEF Walk, Done, Becomes, RowInv
<1>3. /\ fileReq'[u].at = ParentOf(fileReq[u].at) /\ fileReq'[u].id = fileReq[u].id
      /\ fileReq'[u].to = fileReq[u].to
      /\ \A v \in Users : Pending(v)' => Pending(v) /\ fileReq'[v].id = fileReq[v].id
  BY <1>2 DEF Becomes, RowInv, Fields, Pending, Walk
<1>4. entry' = entry /\ last' = last /\ Present' = Present
  BY DEF Walk, Present
<1>0. PICK V : V = W \union {fileReq[u].at}
  OBVIOUS
<1>5. V \subseteq 1..last /\ fileReq[u].id \notin V /\ fileReq[u].to \in V
  BY <1>0, <1>1, <1>2 DEF Passed, RowInv, Root
<1>6. ParentOf(fileReq[u].at) \in {Root} \union Present
  BY DEF ParentOf, RowInv, PlaceExists
<1>7. \A x \in V \intersect Present : entry[x].parent \in V \union {ParentOf(fileReq[u].at)}
  BY <1>0, <1>1 DEF Passed, ParentOf
<1>8. \A v \in Users : Pending(v) => fileReq[v].id \notin V \union {ParentOf(fileReq[u].at)}
  BY <1>0, <1>1, <1>6 DEF Passed, RowInv, Root
<1>9. Passed(u, V)'
  <2>1. V \subseteq 1..last' /\ fileReq'[u].id \notin V /\ fileReq'[u].to \in V \union {fileReq'[u].at}
    BY <1>3, <1>4, <1>5
  <2>2. fileReq'[u].at \in 0..last'
    BY <1>3, <1>4, <1>6, ZeroIncluded DEF RowInv, Root
  <2>3. \A x \in V \intersect Present' : entry'[x].parent \in V \union {fileReq'[u].at}
    BY <1>3, <1>4, <1>7
  <2>4. \A v \in Users : Pending(v)' => fileReq'[v].id \notin V \union {fileReq'[u].at}
    BY <1>3, <1>8
  <2> QED
    BY <2>1, <2>2, <2>3, <2>4 DEF Passed
<1> QED
  BY <1>9

LEMMA WalkBegins ==
  ASSUME RowInv, NEW u \in Users, Move(u)
  PROVE  \E W : Passed(u, W)'
<1>1. PICK e \in Present, to \in {Root} \union Present :
        Becomes(u, [NoRequest EXCEPT !.op = "walk", !.id = e, !.to = to, !.at = to])
  BY DEF Move
<1>2. /\ fileReq'[u].at = to /\ fileReq'[u].to = to /\ fileReq'[u].op = "walk"
      /\ \A v \in Users \ {u} : fileReq'[v] = fileReq[v]
  BY <1>1 DEF Becomes, RowInv, NoRequest
<1>3. entry' = entry /\ last' = last /\ Present' = Present
  BY DEF Move, Present
<1>4. \A v \in Users : Pending(v)' => fileReq'[v].id # to
  BY <1>2 DEF Pending, RowInv, Root
<1>5. Passed(u, {})'
  <2>1. fileReq'[u].at \in 0..last'
    BY <1>2, <1>3, ZeroIncluded DEF RowInv, Root
  <2>2. fileReq'[u].to \in {} \union {fileReq'[u].at}
    BY <1>2
  <2>3. \A v \in Users : Pending(v)' => fileReq'[v].id \notin {} \union {fileReq'[u].at}
    BY <1>2, <1>4
  <2> QED
    BY <2>1, <2>2, <2>3 DEF Passed
<1> QED
  BY <1>5

(* Nobody else's step can touch a walk: others create and remove rows, but   *)
(* move none.                                                                *)
LEMMA WalkOther ==
  ASSUME RowInv, NEW v \in Users, NEW u \in Users, u # v, NEW W, Passed(u, W),
         Arrive(v) \/ Proceed(v) \/ Crash(v), ~Place(v)
  PROVE  Passed(u, W)'
<1>1. CASE Quiet(v)
  <2>1. entry' = entry /\ last' = last /\ Present' = Present
    BY <1>1, QuietStep DEF Present
  <2>2. PICK r : QuietTo(v, r)
    BY <1>1, QuietStep
  <2>3. /\ fileReq'[v] = r /\ \A w \in Users \ {v} : fileReq'[w] = fileReq[w]
        /\ r.op \in {"measure", "write", "insert"} => Pending(v) /\ r.id = fileReq[v].id
    BY <2>2, Becoming DEF QuietTo
  <2>4. \A w \in Users : Pending(w)' => Pending(w) /\ fileReq'[w].id = fileReq[w].id
    BY <2>3 DEF Pending
  <2> QED
    BY <2>1, <2>3, <2>4, PassedStays DEF RowInv
<1>2. ASSUME NEW op, NEW to, NEW size, Begins(v, op, to, size)
      PROVE  Passed(u, W)'
  <2>1. entry' = entry /\ last' = last + 1 /\ Present' = Present
    BY <1>2 DEF Begins, Present
  <2>2. fileReq'[v].id = last + 1 /\ \A w \in Users \ {v} : fileReq'[w] = fileReq[w]
    BY <1>2 DEF Begins, Becomes, NoRequest, RowInv
  <2>3. \A w \in Users : Pending(w)' =>
          (Pending(w) /\ fileReq'[w].id = fileReq[w].id) \/ fileReq'[w].id \notin 0..last
    BY <2>2 DEF Pending, RowInv
  <2> QED
    BY <2>1, <2>2, <2>3, PassedStays DEF RowInv
<1>3. CASE Insert(v)
  <2>1. /\ fileReq'[v] = NoRequest /\ last' = last /\ \A w \in Users \ {v} : fileReq'[w] = fileReq[w]
    BY <1>3, IdleFields, Becoming DEF Insert, Done
  <2>2. Pending(v) /\ fileReq[v].id \notin W
    BY <1>3 DEF Insert, Pending, Passed
  <2>3. \A x \in W : x \in Present' => x \in Present /\ entry'[x].parent = entry[x].parent
    BY <1>3, <2>2 DEF Insert, Present
  <2>4. \A w \in Users : Pending(w)' => Pending(w) /\ fileReq'[w].id = fileReq[w].id
    BY <2>1, IdleFields DEF Pending
  <2> QED
    BY <2>1, <2>3, <2>4, PassedStays DEF RowInv
<1>4. CASE DeleteRow(v)
  <2>1. /\ fileReq'[v].op = "delete" /\ last' = last
        /\ \A w \in Users \ {v} : fileReq'[w] = fileReq[w]
    BY <1>4 DEF DeleteRow, Stacked, Deleting, Becomes, RowInv, Fields
  <2>2. \A x \in W : x \in Present' => x \in Present /\ entry'[x].parent = entry[x].parent
    BY <1>4 DEF DeleteRow, Restrict, Present
  <2>3. \A w \in Users : Pending(w)' => Pending(w) /\ fileReq'[w].id = fileReq[w].id
    BY <2>1 DEF Pending
  <2> QED
    BY <2>1, <2>2, <2>3, PassedStays DEF RowInv
<1>5. CASE Share(v)
  <2>1. fileReq' = fileReq /\ last' = last
        /\ \A x \in Present' : x \in Present /\ entry'[x].parent = entry[x].parent
    BY <1>5 DEF Share, Present
  <2> QED
    BY <2>1, PassedStays DEF RowInv, Pending
<1> QED
  BY <1>1, <1>2, <1>3, <1>4, <1>5
  DEF Arrive, Proceed, Quiet, Mkdir, Upload

LEMMA WalkInductive ==
  ASSUME NEW m, Movers \subseteq {m}
  PROVE  RowInv /\ WalkInv /\ [FilesNext]_fileVars => WalkInv'
<1> SUFFICES ASSUME RowInv, WalkInv, [FilesNext]_fileVars, NEW u \in Users, fileReq'[u].op = "walk"
             PROVE  u \in Movers /\ \E W : Passed(u, W)'
  BY DEF WalkInv
<1>1. CASE UNCHANGED fileVars
  <2>1. u \in Movers /\ \E W : Passed(u, W)
    BY <1>1 DEF fileVars, WalkInv
  <2> QED
    BY <1>1, <2>1 DEF fileVars, Passed, Present, Pending
<1>2. ASSUME NEW v \in Users, v # u, Arrive(v) \/ Proceed(v) \/ Crash(v)
      PROVE  u \in Movers /\ \E W : Passed(u, W)'
  <2>1. fileReq'[u] = fileReq[u]
    BY <1>2 DEF Arrive, Proceed, Mkdir, Upload, Begins, Measure, Write, Insert, Share, Move,
      Walk, Place, Delete, Call, Unlink, Listing, DeleteRow, Deleted, Crash, Stacked, Done,
      Becomes, RowInv
  <2>2. PICK W : Passed(u, W)
    BY <2>1 DEF WalkInv
  <2>3. ~Place(v)
    BY <1>2, <2>1 DEF WalkInv, Place
  <2> QED
    BY <1>2, <2>1, <2>2, <2>3, WalkOther DEF WalkInv
<1>3. CASE Walk(u)
  BY <1>3, WalkGoesOn DEF WalkInv, Walk
<1>4. CASE Move(u)
  BY <1>4, WalkBegins DEF Move
<1>5. ASSUME Arrive(u) \/ Proceed(u) \/ Crash(u) PROVE Walk(u) \/ Move(u)
  <2>1. CASE Quiet(u)
    <3>1. PICK r : QuietTo(u, r)
      BY <2>1, QuietStep
    <3> QED
      BY <3>1, Becoming DEF QuietTo
  <2>2. ASSUME NEW op \in {"insert", "measure"}, NEW to, NEW size, Begins(u, op, to, size)
        PROVE  FALSE
    BY <2>2 DEF Begins, Becomes, NoRequest, RowInv
  <2>3. CASE Mkdir(u) \/ Upload(u)
    BY <2>2, <2>3 DEF Mkdir, Upload
  <2>4. CASE Share(u)
    BY <2>4 DEF Share, WalkInv
  <2>5. CASE Insert(u) \/ Place(u)
    BY <2>5, IdleFields, Becoming DEF Insert, Place, Done
  <2>6. CASE DeleteRow(u)
    BY <2>6 DEF DeleteRow, Stacked, Deleting, Becomes, RowInv, Fields
  <2> QED
    BY <1>5, <2>1, <2>3, <2>4, <2>5, <2>6 DEF Arrive, Proceed, Quiet
<1> QED
  BY <1>1, <1>2, <1>3, <1>4, <1>5 DEF FilesNext

-----------------------------------------------------------------------------
(* The forest.                                                               *)

(* What the walk has passed reaches the root without the entry that moves,   *)
(* so hanging that entry below it closes no cycle.                           *)
LEMMA PlaceKeepsForest ==
  ASSUME RowInv, ForestInv, NEW u \in Users, NEW W, Passed(u, W), Place(u)
  PROVE  ForestInv'
<1> DEFINE e == fileReq[u].id
           to == fileReq[u].to
<1>1. Present' = Present /\ \A x \in Present \ {e} : entry'[x].parent = entry[x].parent
  BY DEF Place, Present
<1>2. CASE entry' = entry
  BY <1>1, <1>2 DEF ForestInv, Closed
<1>3. CASE e \in Present /\ entry'[e].parent = to
  <2> SUFFICES ASSUME NEW S \in SUBSET Present, S # {}, \A x \in S : entry'[x].parent \in S
               PROVE  FALSE
    BY <1>1 DEF ForestInv, Closed
  <2>1. Root \notin S
    BY DEF RowInv, Root
  <2>2. CASE e \notin S
    BY <1>1, <2>2 DEF ForestInv, Closed
  <2>3. CASE e \in S
    <3>1. to \in S \intersect W
      BY <1>3, <2>1, <2>3 DEF Passed, Place
    <3>2. \A x \in S \intersect W : entry[x].parent \in S \intersect W
      BY <1>1, <2>1 DEF Passed, Place
    <3> QED
      BY <3>1, <3>2 DEF ForestInv, Closed
  <2> QED
    BY <2>2, <2>3
<1> QED
  BY <1>2, <1>3 DEF Place, Present

LEMMA InsertKeepsForest ==
  ASSUME RowInv, ForestInv, NEW u \in Users, Insert(u)
  PROVE  ForestInv'
<1> DEFINE e == fileReq[u].id
<1>1. e \notin Present /\ e # Root
  BY DEF Insert, Pending, RowInv, Root
<1>2. CASE entry' = entry
  BY <1>2 DEF ForestInv, Closed, Present
<1>3. CASE PlaceExists(fileReq[u].to)
  <2>1. /\ Present' = Present \union {e} /\ entry'[e].parent = fileReq[u].to
        /\ \A x \in Present : entry'[x] = entry[x]
    BY <1>1, <1>3 DEF Insert, Present, Row
  <2> SUFFICES ASSUME NEW S \in SUBSET Present', S # {}, \A x \in S : entry'[x].parent \in S
               PROVE  FALSE
    BY DEF ForestInv, Closed
  <2> DEFINE T == S \ {e}
  <2>2. \A x \in T : entry[x].parent \in T
    BY <1>1, <2>1 DEF RowInv, PlaceExists
  <2>3. T # {}
    <3>1. Root \notin S
      BY <1>1, <2>1 DEF RowInv, Root
    <3>2. e \in S => fileReq[u].to \in S \intersect Present
      BY <1>3, <2>1, <3>1 DEF PlaceExists
    <3> QED
      BY <1>1, <3>2
  <2> QED
    BY <2>1, <2>2, <2>3 DEF ForestInv, Closed
<1> QED
  BY <1>2, <1>3 DEF Insert

LEMMA ForestInductive ==
  ASSUME NEW m, Movers \subseteq {m}
  PROVE  RowInv /\ WalkInv /\ ForestInv /\ [FilesNext]_fileVars => ForestInv'
<1> SUFFICES ASSUME RowInv, WalkInv, ForestInv, [FilesNext]_fileVars PROVE ForestInv'
  OBVIOUS
<1>1. CASE UNCHANGED fileVars
  BY <1>1 DEF fileVars, ForestInv, Closed, Present
<1>2. ASSUME NEW u \in Users, Quiet(u) \/ Mkdir(u) \/ Upload(u) PROVE ForestInv'
  <2>1. entry' = entry
    BY <1>2, QuietStep DEF Mkdir, Upload, Begins
  <2> QED
    BY <2>1 DEF ForestInv, Closed, Present
<1>3. ASSUME NEW u \in Users, Share(u) \/ DeleteRow(u) PROVE ForestInv'
  <2>1. Present' \subseteq Present /\ \A x \in Present' : entry'[x].parent = entry[x].parent
    <3>1. CASE Share(u)
      BY <3>1 DEF Share, Present
    <3>2. CASE DeleteRow(u)
      BY <3>2 DEF DeleteRow, Restrict, Present
    <3> QED
      BY <1>3, <3>1, <3>2
  <2> QED
    BY <2>1 DEF ForestInv, Closed
<1>4. ASSUME NEW u \in Users, Place(u) PROVE ForestInv'
  <2>1. PICK W : Passed(u, W)
    BY <1>4 DEF Place, WalkInv
  <2> QED
    BY <1>4, <2>1, PlaceKeepsForest
<1> QED
  BY <1>1, <1>2, <1>3, <1>4, InsertKeepsForest DEF FilesNext, Arrive, Proceed, Quiet

(* "Cannot move into own subdirectory" is honoured, and the entries of an    *)
(* organization form a forest, as long as one user at most moves entries,    *)
(* whatever the others create, share and delete at the same time.            *)
THEOREM ForestHolds ==
  ASSUME NEW m, Movers \subseteq {m}
  PROVE  FilesSpec => []Forest
<1>1. FilesInit => IInv
  BY RowInit DEF FilesInit, IInv, WalkInv, ForestInv, Closed, Present, NoRequest
<1>2. IInv /\ [FilesNext]_fileVars => IInv'
  BY RowInductive, WalkInductive, ForestInductive DEF IInv
<1>3. IInv => Forest
  BY ForestIs DEF IInv
<1> QED
  BY <1>1, <1>2, <1>3, PTL DEF FilesSpec

-----------------------------------------------------------------------------
(* What is listed is stored.  The stack of a deletion starts with the        *)
(* handler's frame; the others are of rows that existed when they were       *)
(* called, so of no upload that is still under way.                          *)
FrameRec == [id : Nat, do : {"each", "unlink", "list"}, todo : SUBSET Nat]

StackOK(u) ==
  /\ fileReq[u].stack \in Seq(FrameRec)
  /\ fileReq[u].op = "delete" => Len(fileReq[u].stack) > 0 /\ fileReq[u].stack[1].id = Root
  /\ fileReq[u].op # "delete" => fileReq[u].stack = <<>>
  /\ \A i \in DOMAIN fileReq[u].stack : i # 1 =>
       /\ fileReq[u].stack[i].id \in 1..last
       /\ \A v \in Users : Pending(v) => fileReq[v].id # fileReq[u].stack[i].id

StoreInv ==
  /\ faults \in Nat /\ \A u \in Users : StackOK(u)
  /\ \A u \in Users : fileReq[u].op = "insert" /\ fileReq[u].size > 0 => fileReq[u].id \in blobs
  /\ ListedIsStored

(* The stack of u goes on from frames it has, or with one of a row.          *)
Goes(u, s) ==
  /\ s \in Seq(FrameRec) /\ Len(s) > 0 /\ s[1].id = Root
  /\ \A i \in DOMAIN s : i # 1 =>
       \/ s[i].id \in Present
       \/ \E j \in DOMAIN fileReq[u].stack : j # 1 /\ fileReq[u].stack[j].id = s[i].id

LEMMA StacksStay ==
  ASSUME RowInv, StoreInv, NEW u \in Users, \A v \in Users \ {u} : fileReq'[v] = fileReq[v],
         last' \in Nat, last' >= last,
         \A w \in Users : Pending(w)' =>
           (Pending(w) /\ fileReq'[w].id = fileReq[w].id) \/ fileReq'[w].id > last,
         \/ fileReq'[u].op # "delete" /\ fileReq'[u].stack = <<>>
         \/ fileReq'[u].op = "delete" /\ Goes(u, fileReq'[u].stack)
  PROVE  \A v \in Users : StackOK(v)'
<1>0. last \in Nat /\ Present \subseteq 1..last
  BY DEF RowInv
<1>1. \A f \in 1..last : f \in 1..last' /\ ~(f > last)
  BY <1>0
<1>2. ASSUME NEW v \in Users, v # u PROVE StackOK(v)'
  <2>1. fileReq'[v] = fileReq[v] /\ StackOK(v)
    BY <1>2 DEF StoreInv
  <2>2. ASSUME NEW i \in DOMAIN fileReq[v].stack, i # 1
        PROVE  /\ fileReq[v].stack[i].id \in 1..last'
               /\ \A w \in Users : Pending(w)' => fileReq'[w].id # fileReq[v].stack[i].id
    BY <1>1, <2>1, <2>2 DEF StackOK
  <2>3. QED
    BY <2>1, <2>2 DEF StackOK
<1>3. StackOK(u)'
  <2>1. CASE fileReq'[u].op # "delete" /\ fileReq'[u].stack = <<>>
    BY <2>1 DEF StackOK
  <2>2. CASE fileReq'[u].op = "delete" /\ Goes(u, fileReq'[u].stack)
    <3> DEFINE s == fileReq'[u].stack
    <3>1. ASSUME NEW i \in DOMAIN s, i # 1
          PROVE  /\ s[i].id \in 1..last
                 /\ \A w \in Users : Pending(w) => fileReq[w].id # s[i].id
      <4>1. CASE s[i].id \in Present
        BY <1>0, <4>1 DEF RowInv
      <4>2. CASE \E j \in DOMAIN fileReq[u].stack : j # 1 /\ fileReq[u].stack[j].id = s[i].id
        BY <4>2 DEF StoreInv, StackOK
      <4>3. QED
        BY <2>2, <3>1, <4>1, <4>2 DEF Goes
    <3>2. ASSUME NEW i \in DOMAIN s, i # 1
          PROVE  /\ s[i].id \in 1..last'
                 /\ \A w \in Users : Pending(w)' => fileReq'[w].id # s[i].id
      BY <1>1, <3>1, <3>2
    <3>3. QED
      BY <2>2, <3>2 DEF StackOK, Goes
  <2>3. QED
    BY <2>1, <2>2
<1>4. QED
  BY <1>2, <1>3

(* A step that leaves the blobs that are there, and the frames of the rows   *)
(* that stay, keeps what is listed stored.                                   *)
LEMMA ListedStays ==
  ASSUME StoreInv, NEW u \in Users, \A v \in Users \ {u} : fileReq'[v] = fileReq[v],
         faults > 0 => faults' > 0,
         \A e \in Present' :
           \/ faults' > 0
           \/ entry'[e].kind = "file" => e \in blobs'
           \/ \E i \in DOMAIN fileReq'[u].stack : fileReq'[u].stack[i].id = e
           \/ /\ e \in Present /\ entry'[e].kind = entry[e].kind
              /\ e \in blobs => e \in blobs'
              /\ ~\E i \in DOMAIN fileReq[u].stack : fileReq[u].stack[i].id = e
  PROVE  ListedIsStored'
<1> SUFFICES ASSUME NEW e \in Present', entry'[e].kind = "file", e \notin blobs', ~(faults' > 0)
             PROVE  \E v \in Users : \E i \in DOMAIN fileReq'[v].stack : fileReq'[v].stack[i].id = e
  BY DEF ListedIsStored
<1>1. CASE \E i \in DOMAIN fileReq'[u].stack : fileReq'[u].stack[i].id = e
  BY <1>1
<1>2. CASE /\ e \in Present /\ entry'[e].kind = entry[e].kind
           /\ e \in blobs => e \in blobs'
           /\ ~\E i \in DOMAIN fileReq[u].stack : fileReq[u].stack[i].id = e
  <2>1. PICK v \in Users : \E i \in DOMAIN fileReq[v].stack : fileReq[v].stack[i].id = e
    BY <1>2 DEF StoreInv, ListedIsStored
  <2>2. fileReq'[v] = fileReq[v]
    BY <1>2, <2>1
  <2>3. QED
    BY <2>1, <2>2
<1>3. QED
  BY <1>1, <1>2

(* A request that is no deletion begins, goes on or ends.                    *)
LEMMA StoreElse ==
  ASSUME RowInv, StoreInv, NEW u \in Users, NEW r, Becomes(u, r),
         DOMAIN r = Fields, r.op # "delete", r.stack = <<>>,
         last' \in Nat, last' >= last, faults' = faults \/ (faults' \in Nat /\ faults' > 0),
         Pending(u)' => (Pending(u) /\ r.id = fileReq[u].id) \/ r.id > last,
         blobs \subseteq blobs',
         r.op = "insert" /\ r.size > 0 => r.id \in blobs',
         \A e \in Present' :
           \/ entry'[e].kind = "file" => e \in blobs'
           \/ e \in Present /\ entry'[e].kind = entry[e].kind,
         fileReq[u].op = "delete" /\ ~(faults' > 0) => \A e \in Present :
           ~\E i \in DOMAIN fileReq[u].stack : fileReq[u].stack[i].id = e
  PROVE  StoreInv'
<1>1. fileReq'[u] = r /\ \A v \in Users \ {u} : fileReq'[v] = fileReq[v]
  BY Becoming
<1>2. \A v \in Users : StackOK(v)'
  <2>1. \A w \in Users : Pending(w)' =>
          (Pending(w) /\ fileReq'[w].id = fileReq[w].id) \/ fileReq'[w].id > last
    BY <1>1 DEF Pending
  <2>2. QED
    BY <1>1, <2>1, StacksStay
<1>3. faults' \in Nat /\ (faults > 0 => faults' > 0)
  BY DEF StoreInv
<1>4. ASSUME NEW e \in Present, ~(faults' > 0)
      PROVE  ~\E i \in DOMAIN fileReq[u].stack : fileReq[u].stack[i].id = e
  <2>1. CASE fileReq[u].op = "delete"
    BY <1>4, <2>1
  <2>2. CASE fileReq[u].op # "delete"
    BY <2>2 DEF StoreInv, StackOK
  <2>3. QED
    BY <2>1, <2>2
<1>5. ListedIsStored'
  BY <1>1, <1>3, <1>4, ListedStays
<1>6. \A v \in Users : fileReq'[v].op = "insert" /\ fileReq'[v].size > 0 => fileReq'[v].id \in blobs'
  BY <1>1 DEF StoreInv
<1>7. QED
  BY <1>2, <1>3, <1>5, <1>6 DEF StoreInv

(* A deletion goes on.                                                       *)
LEMMA StoreDeletes ==
  ASSUME RowInv, StoreInv, NEW u \in Users, NEW r, Becomes(u, r),
         DOMAIN r = Fields, r.op = "delete", Goes(u, r.stack),
         last' = last, faults' = faults \/ (faults' \in Nat /\ faults' > 0),
         \A v \in Users : fileReq[v].op = "insert" /\ fileReq[v].id \in blobs => fileReq[v].id \in blobs',
         \A e \in Present' :
           /\ e \in Present /\ entry'[e].kind = entry[e].kind
           /\ \/ \E i \in DOMAIN r.stack : r.stack[i].id = e
              \/ /\ e \in blobs => e \in blobs'
                 /\ ~\E i \in DOMAIN fileReq[u].stack : fileReq[u].stack[i].id = e
  PROVE  StoreInv'
<1>1. fileReq'[u] = r /\ \A v \in Users \ {u} : fileReq'[v] = fileReq[v]
  BY Becoming
<1>2. \A v \in Users : StackOK(v)'
  <2>1. \A w \in Users : Pending(w)' => Pending(w) /\ fileReq'[w].id = fileReq[w].id
    BY <1>1 DEF Pending
  <2>2. last' \in Nat /\ last' >= last
    BY DEF RowInv
  <2>3. QED
    BY <1>1, <2>1, <2>2, StacksStay
<1>3. faults' \in Nat /\ (faults > 0 => faults' > 0)
  BY DEF StoreInv
<1>4. ListedIsStored'
  BY <1>1, <1>3, ListedStays
<1>5. \A v \in Users : fileReq'[v].op = "insert" /\ fileReq'[v].size > 0 => fileReq'[v].id \in blobs'
  BY <1>1 DEF StoreInv
<1>6. QED
  BY <1>2, <1>3, <1>4, <1>5 DEF StoreInv

(* The stack in its parts; its top replaced by a frame of the same entry,    *)
(* pushed upon and popped.                                                   *)
LEMMA StackParts ==
  ASSUME StoreInv, NEW u \in Users, fileReq[u].op = "delete"
  PROVE  /\ fileReq[u].stack \in Seq(FrameRec) /\ Len(fileReq[u].stack) \in Nat \ {0}
         /\ fileReq[u].stack[1].id = Root /\ Top(u) \in FrameRec
         /\ Below(u) \in Seq(FrameRec) /\ Len(Below(u)) = Len(fileReq[u].stack) - 1
         /\ \A i \in 1..(Len(fileReq[u].stack) - 1) : Below(u)[i] = fileReq[u].stack[i]
<1> DEFINE s == fileReq[u].stack
<1>1. s \in Seq(FrameRec) /\ Len(s) > 0 /\ s[1].id = Root
  BY DEF StoreInv, StackOK
<1>2. Top(u) = s[Len(s)] /\ Below(u) = SubSeq(s, 1, Len(s) - 1)
  BY DEF Top, Below
<1> HIDE DEF s
<1>3. Len(s) \in Nat \ {0} /\ s[Len(s)] \in FrameRec
  BY <1>1
<1>4. /\ SubSeq(s, 1, Len(s) - 1) \in Seq(FrameRec)
      /\ Len(SubSeq(s, 1, Len(s) - 1)) = Len(s) - 1
      /\ \A i \in 1..(Len(s) - 1) : SubSeq(s, 1, Len(s) - 1)[i] = s[i]
  <2> DEFINE k == Len(s) - 1
             t == SubSeq(s, 1, k)
  <2>1. k \in Nat /\ k <= Len(s) /\ DOMAIN s = 1..Len(s)
    BY <1>1, <1>3
  <2>2. \A i \in 1..k : s[i] \in FrameRec
    BY <1>1, <2>1
  <2>3. t = [i \in 1..k |-> s[i]]
    BY <2>1, <2>2
  <2> HIDE DEF k
  <2>4. t \in Seq(FrameRec) /\ Len(t) = k
    BY <2>1, <2>2, <2>3
  <2>5. QED
    BY <2>3, <2>4 DEF k
<1>5. QED
  BY <1>1, <1>2, <1>3, <1>4 DEF s

LEMMA TopReplaced ==
  ASSUME StoreInv, NEW u \in Users, fileReq[u].op = "delete",
         NEW f \in FrameRec, f.id = Top(u).id
  PROVE  /\ Goes(u, Append(Below(u), f))
         /\ \A i \in DOMAIN fileReq[u].stack : \E j \in DOMAIN Append(Below(u), f) :
              Append(Below(u), f)[j].id = fileReq[u].stack[i].id
<1> DEFINE s == fileReq[u].stack
           t == Append(Below(u), f)
<1>1. /\ s \in Seq(FrameRec) /\ Len(s) \in Nat \ {0} /\ s[1].id = Root
      /\ Below(u) \in Seq(FrameRec) /\ Len(Below(u)) = Len(s) - 1
      /\ \A i \in 1..(Len(s) - 1) : Below(u)[i] = s[i]
      /\ f.id = s[Len(s)].id
  BY StackParts DEF Top
<1>2. /\ t \in Seq(FrameRec) /\ Len(t) = Len(s) /\ t[Len(s)] = f
      /\ \A i \in 1..(Len(s) - 1) : t[i] = Below(u)[i]
  BY <1>1
<1> HIDE DEF t
<1>3. ASSUME NEW i \in 1..Len(s) PROVE t[i].id = s[i].id
  <2>1. CASE i = Len(s)
    BY <1>1, <1>2, <2>1
  <2>2. CASE i # Len(s)
    BY <1>1, <1>2, <2>2
  <2>3. QED
    BY <2>1, <2>2
<1>4. DOMAIN t = 1..Len(s) /\ DOMAIN s = 1..Len(s)
  BY <1>1, <1>2
<1>5. Goes(u, t)
  BY <1>1, <1>2, <1>3, <1>4 DEF Goes
<1>6. \A i \in DOMAIN s : \E j \in DOMAIN t : t[j].id = s[i].id
  BY <1>3, <1>4
<1>7. QED
  BY <1>5, <1>6 DEF t

LEMMA TopPushed ==
  ASSUME NEW u \in Users, NEW s, Goes(u, s), NEW f \in FrameRec, f.id \in Present
  PROVE  /\ Goes(u, Append(s, f))
         /\ \A i \in DOMAIN s : i \in DOMAIN Append(s, f) /\ Append(s, f)[i] = s[i]
<1>1. s \in Seq(FrameRec) /\ Len(s) \in Nat \ {0}
  BY DEF Goes
<1> DEFINE t == Append(s, f)
<1>2. /\ t \in Seq(FrameRec) /\ Len(t) = Len(s) + 1 /\ t[Len(s) + 1] = f
      /\ \A i \in 1..Len(s) : t[i] = s[i]
  BY <1>1
<1>3. DOMAIN t = 1..(Len(s) + 1) /\ DOMAIN s = 1..Len(s)
  BY <1>1, <1>2
<1> HIDE DEF t
<1>4. ASSUME NEW i \in DOMAIN t, i # 1
      PROVE  \/ t[i].id \in Present
             \/ \E j \in DOMAIN fileReq[u].stack : j # 1 /\ fileReq[u].stack[j].id = t[i].id
  <2>1. CASE i = Len(s) + 1
    BY <1>2, <2>1
  <2>2. CASE i # Len(s) + 1
    <3>1. i \in DOMAIN s /\ t[i] = s[i]
      BY <1>1, <1>2, <1>3, <2>2
    <3>2. QED
      BY <1>4, <3>1 DEF Goes
  <2>3. QED
    BY <2>1, <2>2
<1>5. Goes(u, t)
  <2>1. t[1].id = Root /\ Len(t) > 0
    BY <1>1, <1>2 DEF Goes
  <2>2. QED
    BY <1>2, <1>4, <2>1 DEF Goes
<1>6. \A i \in DOMAIN s : i \in DOMAIN t /\ t[i] = s[i]
  BY <1>1, <1>2, <1>3
<1>7. QED
  BY <1>5, <1>6 DEF t

LEMMA StoreStep == RowInv /\ StoreInv /\ [FilesNext]_fileVars => StoreInv'
<1> SUFFICES ASSUME RowInv, StoreInv, [FilesNext]_fileVars PROVE StoreInv'
  OBVIOUS
<1>0. /\ last \in Nat /\ faults \in Nat /\ Present \subseteq 1..last
      /\ DOMAIN NoRequest = Fields /\ NoRequest.op = "idle" /\ NoRequest.stack = <<>>
      /\ \A u \in Users : DOMAIN fileReq[u] = Fields
      /\ \A u \in Users : fileReq[u].op # "delete" => fileReq[u].stack = <<>>
  BY IdleFields DEF RowInv, StoreInv, StackOK, NoRequest
<1>a. ASSUME entry' = entry
      PROVE  Present' = Present /\ \A e \in Present' : entry'[e].kind = entry[e].kind
  BY <1>a DEF Present
<1>1. CASE UNCHANGED fileVars
  BY <1>1 DEF fileVars, StoreInv, StackOK, ListedIsStored, Present, Pending
<1>2. ASSUME NEW u \in Users, Done(u), fileReq[u].op # "delete" \/ faults' > 0,
             UNCHANGED <<entry, last, blobs>>, faults' = faults \/ faults' = faults + 1
      PROVE  StoreInv'
  <2>1. last' >= last /\ (faults' = faults \/ (faults' \in Nat /\ faults' > 0))
    BY <1>0, <1>2
  <2>2. ~Pending(u)'
    BY <1>0, <1>2, Becoming DEF Done, Pending
  <2>3. QED
    BY <1>0, <1>a, <1>2, <2>1, <2>2, StoreElse DEF Done
<1>3. ASSUME NEW u \in Users, NEW r, Becomes(u, r), DOMAIN r = Fields,
             fileReq[u].op # "delete", r.op # "delete", r.stack = <<>>,
             r.op \in {"measure", "write", "insert"} =>
               (Pending(u) /\ r.id = fileReq[u].id) \/ r.id > last,
             r.op = "insert" /\ r.size > 0 => r.id \in blobs',
             UNCHANGED <<entry, faults>>, last' \in Nat, last' >= last,
             blobs \subseteq blobs'
      PROVE  StoreInv'
  <2>1. Pending(u)' => (Pending(u) /\ r.id = fileReq[u].id) \/ r.id > last
    BY <1>3, Becoming DEF Pending
  <2>2. QED
    BY <1>a, <1>3, <2>1, StoreElse
<1>4. ASSUME NEW u \in Users, NEW op \in {"insert", "measure"}, NEW to, NEW size,
             Begins(u, op, to, size), op = "insert" => size = 0
      PROVE  StoreInv'
  <2> DEFINE r == [NoRequest EXCEPT !.op = op, !.id = last + 1, !.to = to, !.size = size]
  <2>1. /\ DOMAIN r = Fields /\ r.op = op /\ r.id = last + 1 /\ r.size = size
        /\ r.stack = <<>>
    BY DEF NoRequest, Fields
  <2>2. Becomes(u, r) /\ UNCHANGED <<entry, faults, blobs>> /\ last' = last + 1
        /\ fileReq[u].op = "idle"
    BY <1>4 DEF Begins
  <2> HIDE DEF r
  <2>3. ~(r.op = "insert" /\ r.size > 0)
    BY <1>4, <2>1
  <2>4. last' \in Nat /\ last' >= last /\ r.id > last
    BY <1>0, <2>1, <2>2
  <2>5. QED
    BY <1>3, <2>1, <2>2, <2>3, <2>4
<1>5. ASSUME NEW u \in Users, Mkdir(u) \/ Upload(u) PROVE StoreInv'
  BY <1>4, <1>5 DEF Mkdir, Upload
<1>6. ASSUME NEW u \in Users, Measure(u) PROVE StoreInv'
  <2>1. CASE Done(u)
    BY <1>2, <1>6, <2>1 DEF Measure
  <2>2. CASE Becomes(u, [fileReq[u] EXCEPT !.op = "write"])
    <3> DEFINE r == [fileReq[u] EXCEPT !.op = "write"]
    <3>1. DOMAIN r = Fields /\ r.op = "write" /\ r.id = fileReq[u].id /\ r.stack = <<>>
      BY <1>0, <1>6 DEF Measure, Fields
    <3> HIDE DEF r
    <3>2. Becomes(u, r) /\ Pending(u) /\ UNCHANGED <<entry, faults, blobs, last>>
          /\ fileReq[u].op # "delete"
      BY <1>6, <2>2 DEF Measure, Pending, r
    <3>3. QED
      BY <1>0, <1>3, <3>1, <3>2
  <2>3. QED
    BY <1>6, <2>1, <2>2 DEF Measure
<1>7. ASSUME NEW u \in Users, Write(u) PROVE StoreInv'
  <2> DEFINE r == [fileReq[u] EXCEPT !.op = "insert"]
  <2>1. DOMAIN r = Fields /\ r.op = "insert" /\ r.id = fileReq[u].id /\ r.stack = <<>>
    BY <1>0, <1>7 DEF Write, Fields
  <2> HIDE DEF r
  <2>2. /\ Becomes(u, r) /\ Pending(u) /\ UNCHANGED <<entry, faults, last>>
        /\ fileReq[u].op # "delete" /\ blobs' = blobs \union {r.id}
    BY <1>7, <2>1 DEF Write, Pending, r
  <2>3. QED
    BY <1>0, <1>3, <2>1, <2>2
<1>8. ASSUME NEW u \in Users, Insert(u) PROVE StoreInv'
  <2>1. /\ Done(u) /\ UNCHANGED <<last, faults, blobs>> /\ fileReq[u].op = "insert"
        /\ fileReq[u].size > 0 => fileReq[u].id \in blobs
    BY <1>8 DEF Insert, Done, StoreInv
  <2>2. ASSUME NEW e \in Present'
        PROVE  \/ entry'[e].kind = "file" => e \in blobs'
               \/ e \in Present /\ entry'[e].kind = entry[e].kind
    <3>1. CASE e = fileReq[u].id /\ entry'[e] = Row(u, fileReq[u])
      BY <2>1, <3>1 DEF Row
    <3>2. CASE e \in Present /\ entry'[e] = entry[e]
      BY <3>2
    <3>3. QED
      BY <1>8, <2>2, <3>1, <3>2 DEF Insert, Present
  <2>3. ~Pending(u)' /\ last' >= last
    BY <1>0, <2>1, Becoming DEF Done, Pending
  <2>4. QED
    BY <1>0, <2>1, <2>2, <2>3, StoreElse DEF Done
<1>9. ASSUME NEW u \in Users, Share(u) PROVE StoreInv'
  <2>1. /\ UNCHANGED <<blobs, last, fileReq, faults>> /\ Present' = Present
        /\ \A e \in Present : entry'[e].kind = entry[e].kind
    BY <1>9 DEF Share, Present
  <2>2. QED
    BY <2>1 DEF StoreInv, StackOK, ListedIsStored, Pending
<1>10. ASSUME NEW u \in Users, Move(u) PROVE StoreInv'
  <2>1. PICK e \in Present, to \in {Root} \union Present :
          Becomes(u, [NoRequest EXCEPT !.op = "walk", !.id = e, !.to = to, !.at = to])
    BY <1>10 DEF Move
  <2> DEFINE r == [NoRequest EXCEPT !.op = "walk", !.id = e, !.to = to, !.at = to]
  <2>2. DOMAIN r = Fields /\ r.op = "walk" /\ r.stack = <<>> /\ Becomes(u, r)
    BY <2>1 DEF NoRequest, Fields
  <2> HIDE DEF r
  <2>3. fileReq[u].op # "delete" /\ UNCHANGED <<entry, faults, blobs, last>>
    BY <1>10 DEF Move
  <2>4. QED
    BY <1>0, <1>3, <2>2, <2>3
<1>11. ASSUME NEW u \in Users, Walk(u) PROVE StoreInv'
  <2>1. CASE Done(u)
    BY <1>2, <1>11, <2>1 DEF Walk
  <2>2. CASE Becomes(u, [fileReq[u] EXCEPT !.at = ParentOf(@)])
    <3> DEFINE r == [fileReq[u] EXCEPT !.at = ParentOf(@)]
    <3>1. DOMAIN r = Fields /\ r.op = "walk" /\ r.stack = <<>> /\ Becomes(u, r)
      BY <1>0, <1>11, <2>2 DEF Walk, Fields
    <3> HIDE DEF r
    <3>2. fileReq[u].op # "delete" /\ UNCHANGED <<entry, faults, blobs, last>>
      BY <1>11 DEF Walk
    <3>3. QED
      BY <1>0, <1>3, <3>1, <3>2
  <2>3. QED
    BY <1>11, <2>1, <2>2 DEF Walk
<1>12. ASSUME NEW u \in Users, Place(u) PROVE StoreInv'
  <2>1. /\ Done(u) /\ UNCHANGED <<last, faults, blobs>> /\ fileReq[u].op # "delete"
        /\ Present' = Present /\ \A e \in Present : entry'[e].kind = entry[e].kind
    BY <1>12 DEF Place, Present
  <2>2. ~Pending(u)' /\ last' >= last
    BY <1>0, <2>1, Becoming DEF Done, Pending
  <2>3. QED
    BY <1>0, <2>1, <2>2, StoreElse DEF Done
<1>13. ASSUME NEW u \in Users, Crash(u) PROVE StoreInv'
  <2>1. faults' > 0 /\ faults' = faults + 1
    BY <1>0, <1>13 DEF Crash
  <2>2. QED
    BY <1>2, <1>13, <2>1 DEF Crash
<1>14. ASSUME NEW u \in Users, NEW s, Goes(u, s), Stacked(u, s), fileReq[u].op = "delete",
              last' = last, faults' = faults \/ faults' = faults + 1,
              \A v \in Users : fileReq[v].op = "insert" /\ fileReq[v].id \in blobs => fileReq[v].id \in blobs',
              \A e \in Present' :
                /\ e \in Present /\ entry'[e].kind = entry[e].kind
                /\ \/ \E i \in DOMAIN s : s[i].id = e
                   \/ /\ e \in blobs => e \in blobs'
                      /\ ~\E i \in DOMAIN fileReq[u].stack : fileReq[u].stack[i].id = e
       PROVE  StoreInv'
  <2> DEFINE r == [fileReq[u] EXCEPT !.stack = s]
  <2>1. Becomes(u, r) /\ DOMAIN r = Fields /\ r.op = "delete" /\ r.stack = s
    BY <1>0, <1>14 DEF Stacked, Fields
  <2>2. faults' = faults \/ (faults' \in Nat /\ faults' > 0)
    BY <1>0, <1>14
  <2> HIDE DEF r
  <2>3. QED
    BY <1>14, <2>1, <2>2, StoreDeletes
<1>15. ASSUME NEW u \in Users, Delete(u) PROVE StoreInv'
  <2>1. PICK e \in Present :
          Becomes(u, [NoRequest EXCEPT !.op = "delete", !.stack = <<Frame(Root, "each", {e})>>])
    BY <1>15 DEF Delete
  <2> DEFINE r == [NoRequest EXCEPT !.op = "delete", !.stack = <<Frame(Root, "each", {e})>>]
  <2>2. /\ DOMAIN r = Fields /\ r.op = "delete" /\ Becomes(u, r)
        /\ r.stack = <<Frame(Root, "each", {e})>>
    BY <2>1 DEF NoRequest, Fields
  <2> HIDE DEF r
  <2>3. Frame(Root, "each", {e}) \in FrameRec /\ Frame(Root, "each", {e}).id = Root
    BY <1>0 DEF Frame, FrameRec, Root
  <2>4. Goes(u, r.stack)
    BY <2>2, <2>3 DEF Goes
  <2>5. UNCHANGED <<entry, faults, blobs, last>> /\ fileReq[u].stack = <<>>
    BY <1>0, <1>15 DEF Delete
  <2>6. \A f \in Present' :
          /\ f \in Present /\ entry'[f].kind = entry[f].kind
          /\ (f \in blobs => f \in blobs')
          /\ ~\E i \in DOMAIN fileReq[u].stack : fileReq[u].stack[i].id = f
    BY <1>a, <2>5
  <2>7. QED
    BY <2>2, <2>4, <2>5, <2>6, StoreDeletes
<1>16. ASSUME NEW u \in Users, Call(u) PROVE StoreInv'
  <2>1. fileReq[u].op = "delete" /\ UNCHANGED <<entry, faults, blobs, last>>
    BY <1>16 DEF Call, Deleting
  <2>2. PICK e \in Top(u).todo :
          LET rest == Append(Below(u), [Top(u) EXCEPT !.todo = @ \ {e}])
              do == IF entry[e].kind = "file" THEN "unlink" ELSE "list"
          IN Stacked(u, IF e \in Present THEN Append(rest, Frame(e, do, {})) ELSE rest)
    BY <1>16 DEF Call
  <2> DEFINE f == [Top(u) EXCEPT !.todo = @ \ {e}]
             rest == Append(Below(u), f)
             do == IF entry[e].kind = "file" THEN "unlink" ELSE "list"
             g == Frame(e, do, {})
  <2>3. Stacked(u, IF e \in Present THEN Append(rest, g) ELSE rest)
    BY <2>2
  <2>4. f \in FrameRec /\ f.id = Top(u).id
    BY <2>1, StackParts DEF FrameRec
  <2>5. e \in Present => g \in FrameRec /\ g.id = e
    <3>1. do \in {"each", "unlink", "list"}
      OBVIOUS
    <3> HIDE DEF do
    <3>2. e \in Present => e \in Nat
      BY <1>0
    <3>3. QED
      BY <3>1, <3>2 DEF Frame, FrameRec
  <2> HIDE DEF f, g
  <2>6. /\ Goes(u, rest)
        /\ \A i \in DOMAIN fileReq[u].stack : \E j \in DOMAIN rest :
             rest[j].id = fileReq[u].stack[i].id
    BY <2>1, <2>4, TopReplaced
  <2> HIDE DEF rest
  <2>7. CASE e \notin Present
    BY <1>a, <1>14, <2>1, <2>3, <2>6, <2>7
  <2>8. CASE e \in Present
    <3> DEFINE s == Append(rest, g)
    <3>1. /\ Goes(u, s)
          /\ \A i \in DOMAIN rest : i \in DOMAIN s /\ s[i] = rest[i]
      BY <2>5, <2>6, <2>8, TopPushed
    <3>2. Stacked(u, s)
      BY <2>3, <2>8
    <3> HIDE DEF s
    <3>3. \A i \in DOMAIN fileReq[u].stack : \E j \in DOMAIN s : s[j].id = fileReq[u].stack[i].id
      BY <2>6, <3>1
    <3>4. QED
      BY <1>a, <1>14, <2>1, <3>1, <3>2, <3>3
  <2>9. QED
    BY <2>7, <2>8
<1>17. ASSUME NEW u \in Users, Listing(u) PROVE StoreInv'
  <2>1. fileReq[u].op = "delete" /\ UNCHANGED <<entry, faults, blobs, last>>
    BY <1>17 DEF Listing, Deleting
  <2> DEFINE f == Frame(Top(u).id, "each", Children(Top(u).id))
             s == Append(Below(u), f)
  <2>2. f \in FrameRec /\ f.id = Top(u).id
    <3>1. Children(Top(u).id) \in SUBSET Nat
      <4>1. Present \subseteq Nat
        BY <1>0
      <4>2. QED
        BY <4>1, Zenon DEF Children
    <3>2. Top(u).id \in Nat
      BY <2>1, StackParts DEF FrameRec
    <3>3. QED
      BY <3>1, <3>2 DEF FrameRec, Frame
  <2>3. Stacked(u, s)
    BY <1>17 DEF Listing
  <2> HIDE DEF f
  <2>4. /\ Goes(u, s)
        /\ \A i \in DOMAIN fileReq[u].stack : \E j \in DOMAIN s : s[j].id = fileReq[u].stack[i].id
    BY <2>1, <2>2, TopReplaced
  <2> HIDE DEF s
  <2>5. QED
    BY <1>a, <1>14, <2>1, <2>3, <2>4
<1>18. ASSUME NEW u \in Users, Unlink(u) PROVE StoreInv'
  <2>1. fileReq[u].op = "delete" /\ UNCHANGED <<entry, last>>
    BY <1>18 DEF Unlink, Deleting
  <2> DEFINE f == [Top(u) EXCEPT !.do = "each"]
             s == Append(Below(u), f)
  <2>2. f \in FrameRec /\ f.id = Top(u).id
    BY <2>1, StackParts DEF FrameRec
  <2>3. Stacked(u, s)
    BY <1>18 DEF Unlink
  <2> HIDE DEF f
  <2>4. /\ Goes(u, s)
        /\ \A i \in DOMAIN fileReq[u].stack : \E j \in DOMAIN s : s[j].id = fileReq[u].stack[i].id
    BY <2>1, <2>2, TopReplaced
  <2> HIDE DEF s
  <2>5. \/ blobs' = blobs \ {Top(u).id} /\ UNCHANGED faults
        \/ faults' = faults + 1 /\ UNCHANGED blobs
    BY <1>18 DEF Unlink
  <2>6. /\ Len(fileReq[u].stack) \in DOMAIN fileReq[u].stack
        /\ Top(u) = fileReq[u].stack[Len(fileReq[u].stack)]
    BY <2>1, StackParts DEF Top
  <2>7. \A v \in Users : fileReq[v].op = "insert" => fileReq[v].id # Top(u).id
    <3> SUFFICES ASSUME NEW v \in Users, fileReq[v].op = "insert" PROVE fileReq[v].id # Top(u).id
      OBVIOUS
    <3>1. Pending(v) /\ fileReq[v].id \in 1..last
      BY DEF Pending, RowInv
    <3>2. CASE Len(fileReq[u].stack) = 1
      BY <1>0, <2>1, <2>6, <3>1, <3>2, StackParts DEF Root
    <3>3. CASE Len(fileReq[u].stack) # 1
      BY <2>6, <3>1, <3>3 DEF StoreInv, StackOK
    <3>4. QED
      BY <3>2, <3>3
  <2>8. ASSUME NEW e \in Present'
        PROVE  /\ e \in Present /\ entry'[e].kind = entry[e].kind
               /\ \/ \E i \in DOMAIN s : s[i].id = e
                  \/ /\ e \in blobs => e \in blobs'
                     /\ ~\E i \in DOMAIN fileReq[u].stack : fileReq[u].stack[i].id = e
    <3>1. e \in Present /\ entry'[e].kind = entry[e].kind
      BY <1>a, <2>1, <2>8
    <3>2. CASE \E i \in DOMAIN fileReq[u].stack : fileReq[u].stack[i].id = e
      BY <2>4, <3>1, <3>2
    <3>3. CASE ~\E i \in DOMAIN fileReq[u].stack : fileReq[u].stack[i].id = e
      <4>1. e # Top(u).id
        BY <2>6, <3>3
      <4>2. QED
        BY <2>5, <3>1, <3>3, <4>1
    <3>4. QED
      BY <3>2, <3>3
  <2>9. \A v \in Users : fileReq[v].op = "insert" /\ fileReq[v].id \in blobs => fileReq[v].id \in blobs'
    BY <2>5, <2>7
  <2>10. QED
    BY <1>14, <2>1, <2>3, <2>4, <2>5, <2>8, <2>9
<1>19. ASSUME NEW u \in Users, DeleteRow(u) PROVE StoreInv'
  <2> DEFINE top == Top(u).id
             s == Below(u)
  <2>1. /\ fileReq[u].op = "delete" /\ UNCHANGED <<blobs, last, faults>> /\ Stacked(u, s)
        /\ top # Root /\ entry' = Restrict(entry, Present \ Cascade(top))
    BY <1>19 DEF DeleteRow, Deleting
  <2>2. /\ Present' = Present \ Cascade(top)
        /\ \A e \in Present' : entry'[e] = entry[e] /\ e \in Present /\ e # top
    <3>1. top \in Present => top \in Cascade(top)
      BY DEF Cascade
    <3>2. QED
      BY <2>1, <3>1 DEF Restrict, Present
  <2>3. /\ s \in Seq(FrameRec) /\ Len(s) = Len(fileReq[u].stack) - 1
        /\ fileReq[u].stack \in Seq(FrameRec) /\ Len(fileReq[u].stack) \in Nat \ {0}
        /\ \A i \in 1..(Len(fileReq[u].stack) - 1) : s[i] = fileReq[u].stack[i]
        /\ fileReq[u].stack[1].id = Root /\ top = fileReq[u].stack[Len(fileReq[u].stack)].id
    BY <2>1, StackParts DEF Top
  <2> HIDE DEF s, top
  <2>4. Len(fileReq[u].stack) # 1
    BY <2>1, <2>3
  <2>5. Len(s) > 0 /\ s[1].id = Root
    <3>0. \A n \in Nat \ {0} : n # 1 => n - 1 > 0 /\ 1 \in 1..(n - 1)
      OBVIOUS
    <3>1. 1 \in 1..(Len(fileReq[u].stack) - 1) /\ Len(fileReq[u].stack) - 1 > 0
      BY <2>3, <2>4, <3>0, Zenon
    <3>2. Len(s) > 0
      BY <2>3, <3>1, Zenon
    <3>3. QED
      BY <2>3, <3>1, <3>2
  <2>6. \A i \in DOMAIN s : i \in DOMAIN fileReq[u].stack /\ s[i] = fileReq[u].stack[i]
    BY <2>3
  <2>7. Goes(u, s)
    BY <2>3, <2>5, <2>6 DEF Goes
  <2>8. ASSUME NEW e \in Present', NEW i \in DOMAIN fileReq[u].stack, fileReq[u].stack[i].id = e
        PROVE  \E j \in DOMAIN s : s[j].id = e
    <3>1. i # Len(fileReq[u].stack)
      BY <2>2, <2>3, <2>8
    <3>2. i \in 1..(Len(fileReq[u].stack) - 1) /\ i \in DOMAIN s
      BY <2>3, <3>1
    <3>3. QED
      BY <2>3, <2>8, <3>2
  <2>9. \A e \in Present' : entry'[e].kind = entry[e].kind
    BY <2>2
  <2>10. \A e \in Present' :
           /\ e \in Present /\ entry'[e].kind = entry[e].kind
           /\ \/ \E i \in DOMAIN s : s[i].id = e
              \/ /\ (e \in blobs => e \in blobs')
                 /\ ~\E i \in DOMAIN fileReq[u].stack : fileReq[u].stack[i].id = e
    BY <2>1, <2>2, <2>8, <2>9
  <2>11. \A v \in Users : fileReq[v].op = "insert" /\ fileReq[v].id \in blobs => fileReq[v].id \in blobs'
    BY <2>1
  <2>12. /\ fileReq[u].op = "delete" /\ last' = last /\ Stacked(u, s)
         /\ faults' = faults \/ faults' = faults + 1
    BY <2>1
  <2>13. QED
    BY <1>14, <2>7, <2>10, <2>11, <2>12
<1>20. ASSUME NEW u \in Users, Deleted(u) PROVE StoreInv'
  <2>1. /\ fileReq[u].op = "delete" /\ UNCHANGED <<entry, blobs, last, faults>> /\ Done(u)
        /\ Top(u).id = Root
    BY <1>20 DEF Deleted, Deleting
  <2>2. /\ Len(fileReq[u].stack) \in Nat \ {0} /\ DOMAIN fileReq[u].stack = 1..Len(fileReq[u].stack)
        /\ fileReq[u].stack[1].id = Root /\ Top(u) = fileReq[u].stack[Len(fileReq[u].stack)]
    BY <2>1, StackParts DEF Top
  <2>3. ASSUME NEW e \in Present, NEW i \in DOMAIN fileReq[u].stack, fileReq[u].stack[i].id = e
        PROVE  FALSE
    <3>1. e # Root
      BY <1>0, <2>3 DEF Root
    <3>2. Len(fileReq[u].stack) # 1 => Top(u).id \in 1..last
      <4>1. Len(fileReq[u].stack) \in DOMAIN fileReq[u].stack
        BY <2>2
      <4>2. QED
        BY <2>2, <4>1 DEF StoreInv, StackOK
    <3>3. Len(fileReq[u].stack) = 1
      BY <1>0, <2>1, <3>2 DEF Root
    <3>4. QED
      BY <2>2, <2>3, <3>1, <3>3
  <2>4. ~Pending(u)' /\ last' >= last
    BY <1>0, <2>1, Becoming DEF Done, Pending
  <2>5. QED
    BY <1>0, <1>a, <2>1, <2>3, <2>4, StoreElse DEF Done
<1>21. QED
  BY <1>1, <1>5, <1>6, <1>7, <1>8, <1>9, <1>10, <1>11, <1>12, <1>13, <1>15, <1>16,
     <1>17, <1>18, <1>19, <1>20 DEF FilesNext, Arrive, Proceed

(* A listed file can be downloaded unless a deletion has come to it or       *)
(* something failed, for any number of users who upload, move and delete at  *)
(* once: the blob is there before the row, and only a deletion of that row   *)
(* removes it.                                                               *)
THEOREM ListedIsStoredHolds == FilesSpec => []ListedIsStored
<1>1. FilesInit => StoreInv
  <2> SUFFICES ASSUME FilesInit PROVE StoreInv
    OBVIOUS
  <2>1. Present = {} /\ faults \in Nat
    BY DEF FilesInit, Present
  <2>2. \A u \in Users : fileReq[u].op = "idle" /\ fileReq[u].stack = <<>>
    BY DEF FilesInit, NoRequest
  <2>3. ASSUME NEW u \in Users PROVE StackOK(u)
    <3>1. <<>> \in Seq(FrameRec) /\ DOMAIN <<>> = {}
      OBVIOUS
    <3>2. QED
      BY <2>2, <3>1 DEF StackOK
  <2>4. QED
    BY <2>1, <2>2, <2>3 DEF StoreInv, ListedIsStored
<1>2. StoreInv => ListedIsStored
  BY DEF StoreInv
<1>3. QED
  BY <1>1, <1>2, RowInit, RowInductive, StoreStep, PTL DEF FilesSpec
-----------------------------------------------------------------------------
(* Sums.  What a fold over a finite set adds up to, for every set: by a      *)
(* least counterexample, as sets of sets have one.                           *)

LEMMA LeastSet ==
  ASSUME NEW S, IsFiniteSet(S), NEW C, C \subseteq SUBSET S, C # {}
  PROVE  \E x \in C : \A y \in C : y \subseteq x => y = x
<1> DEFINE R == StrictSubsetOrdering(S)
<1>1. IsWellFoundedOn(R, SUBSET S)
  BY FS_StrictSubsetOrderingWellFounded, FS_FiniteSubsetsOfFinite
<1> HIDE DEF R
<1>2. PICK x \in C : \A y \in C : <<y, x>> \notin R
  BY <1>1, WFMin, Zenon
<1>3. ASSUME NEW y \in C, y \subseteq x, y # x PROVE FALSE
  <2>1. <<y, x>> \in (SUBSET S) \X (SUBSET S)
    BY <1>3
  <2>2. <<y, x>> \in R
    BY <1>3, <2>1 DEF R, StrictSubsetOrdering
  <2>3. QED
    BY <1>2, <2>2
<1>4. QED
  BY <1>2, <1>3

(* g adds the weights w of the elements of each subset of S.                 *)
Additive(w, S, g) ==
  /\ g \in [SUBSET S -> Nat] /\ g[{}] = 0
  /\ \A s \in SUBSET S : \A x \in s : g[s] = w[x] + g[s \ {x}]

LEMMA SumExists ==
  ASSUME NEW S, IsFiniteSet(S), NEW w, \A x \in S : w[x] \in Nat
  PROVE  \E g : Additive(w, S, g)
<1> DEFINE C == {s \in SUBSET S : ~\E g : Additive(w, s, g)}
<1>1. SUFFICES ASSUME C # {} PROVE FALSE
  BY DEF C
<1>2. PICK s \in C : \A r \in C : r \subseteq s => r = s
  <2>1. C \subseteq SUBSET S
    BY DEF C
  <2> HIDE DEF C
  <2>2. QED
    BY <1>1, <2>1, LeastSet
<1>3. s \subseteq S /\ ~\E g : Additive(w, s, g)
  BY DEF C
<1>4. CASE s = {}
  <2> DEFINE g == [r \in SUBSET {} |-> 0]
  <2>1. Additive(w, {}, g)
    BY DEF Additive
  <2>2. QED
    BY <1>3, <1>4, <2>1
<1>5. CASE s # {}
  <2>1. PICK x \in s : TRUE
    BY <1>5
  <2> DEFINE t == s \ {x}
  <2>2. t \notin C
    BY <1>2, <2>1
  <2>3. PICK f : Additive(w, t, f)
    BY <1>3, <2>2
  <2> HIDE DEF C
  <2> DEFINE g == [r \in SUBSET s |-> IF x \in r THEN w[x] + f[r \ {x}] ELSE f[r]]
  <2>4. /\ f \in [SUBSET t -> Nat] /\ f[{}] = 0
        /\ \A r \in SUBSET t : \A y \in r : f[r] = w[y] + f[r \ {y}]
    BY <2>3 DEF Additive
  <2>5. \A y \in s : w[y] \in Nat
    BY <1>3
  <2>6. ASSUME NEW r \in SUBSET s PROVE r \ {x} \in SUBSET t /\ (x \notin r => r \in SUBSET t)
    OBVIOUS
  <2> HIDE DEF t
  <2>7. g \in [SUBSET s -> Nat]
    BY <2>1, <2>4, <2>5, <2>6
  <2>8. g[{}] = 0
    BY <2>4
  <2>9. ASSUME NEW r \in SUBSET s, NEW y \in r PROVE g[r] = w[y] + g[r \ {y}]
    <3>1. r \ {y} \in SUBSET s /\ y \in s
      OBVIOUS
    <3>2. CASE y = x
      BY <3>1, <3>2
    <3>3. CASE y # x /\ x \notin r
      BY <2>4, <2>6, <3>1, <3>3
    <3>4. CASE y # x /\ x \in r
      <4>1. f[r \ {x}] = w[y] + f[(r \ {x}) \ {y}]
        BY <2>4, <2>6, <3>4
      <4>2. (r \ {x}) \ {y} = (r \ {y}) \ {x}
        OBVIOUS
      <4>3. g[r] = w[x] + f[r \ {x}] /\ g[r \ {y}] = w[x] + f[(r \ {y}) \ {x}]
        BY <3>1, <3>4
      <4>4. f[(r \ {y}) \ {x}] \in Nat /\ w[x] \in Nat /\ w[y] \in Nat
        BY <2>4, <2>5, <2>6, <3>1
      <4> HIDE DEF g
      <4>5. g[r] = w[x] + (w[y] + f[(r \ {y}) \ {x}])
        BY <4>1, <4>2, <4>3, Zenon
      <4>6. w[x] + (w[y] + f[(r \ {y}) \ {x}]) = w[y] + (w[x] + f[(r \ {y}) \ {x}])
        BY <4>4
      <4>7. QED
        BY <4>3, <4>5, <4>6, Zenon
    <3>5. QED
      BY <3>2, <3>3, <3>4
  <2> HIDE DEF g
  <2>10. Additive(w, s, g)
    BY <2>7, <2>8, <2>9 DEF Additive
  <2>11. QED
    BY <1>3, <2>10
<1>6. QED
  BY <1>4, <1>5

(* Two that add the same weights, of any one element of a set at least, are  *)
(* the same: so is what the fold of the community modules returns.           *)
Alike(S, g, h) ==
  /\ g[{}] = h[{}]
  /\ \A s \in SUBSET S : s # {} =>
       \E x \in s : \E n : g[s] = n + g[s \ {x}] /\ h[s] = n + h[s \ {x}]

LEMMA SumUnique ==
  ASSUME NEW S, IsFiniteSet(S), NEW g, NEW h, Alike(S, g, h)
  PROVE  \A s \in SUBSET S : g[s] = h[s]
<1> DEFINE C == {s \in SUBSET S : g[s] # h[s]}
<1>1. SUFFICES ASSUME C # {} PROVE FALSE
  BY DEF C
<1>2. PICK s \in C : \A r \in C : r \subseteq s => r = s
  <2>1. C \subseteq SUBSET S
    BY DEF C
  <2> HIDE DEF C
  <2>2. QED
    BY <1>1, <2>1, LeastSet
<1>3. PICK x \in s : \E n : g[s] = n + g[s \ {x}] /\ h[s] = n + h[s \ {x}]
  <2>1. s # {}
    BY <1>2 DEF Alike
  <2>2. QED
    BY <1>2, <2>1 DEF Alike
<1>4. s \ {x} \notin C
  BY <1>2, <1>3
<1>5. g[s \ {x}] = h[s \ {x}]
  BY <1>4
<1>6. QED
  BY <1>2, <1>3, <1>5

Sum(w, S) == (CHOOSE g : Additive(w, S, g))[S]

LEMMA SumIs ==
  ASSUME NEW S, IsFiniteSet(S), NEW w, \A x \in S : w[x] \in Nat, NEW T, NEW g, Additive(w, T, g),
         S \subseteq T
  PROVE  Sum(w, S) = g[S] /\ Sum(w, S) \in Nat
<1> DEFINE h == CHOOSE f : Additive(w, S, f)
<1>1. Additive(w, S, h)
  BY SumExists, Zenon
<1> HIDE DEF h
<1>2. g[{}] = h[{}] /\ S \in SUBSET S /\ g[S] \in Nat
  BY <1>1 DEF Additive
<1>3. \A s \in SUBSET S : s # {} =>
        \E x \in s : \E n : g[s] = n + g[s \ {x}] /\ h[s] = n + h[s \ {x}]
  <2> SUFFICES ASSUME NEW s \in SUBSET S, s # {}
               PROVE  \E x \in s : \E n : g[s] = n + g[s \ {x}] /\ h[s] = n + h[s \ {x}]
    OBVIOUS
  <2>1. PICK x \in s : TRUE
    OBVIOUS
  <2>2. g[s] = w[x] + g[s \ {x}] /\ h[s] = w[x] + h[s \ {x}]
    BY <1>1 DEF Additive
  <2>3. QED
    BY <2>1, <2>2
<1>4. h[S] = g[S]
  <2>1. Alike(S, g, h)
    BY <1>2, <1>3, Zenon DEF Alike
  <2>2. QED
    BY <1>2, <2>1, SumUnique
<1>5. QED
  BY <1>2, <1>4 DEF Sum, h

LEMMA SumNone == ASSUME NEW w PROVE Sum(w, {}) = 0
<1>1. PICK g : Additive(w, {}, g)
  BY SumExists, FS_EmptySet
<1>2. QED
  BY <1>1, SumIs, FS_EmptySet DEF Additive

LEMMA SumAdd ==
  ASSUME NEW S, IsFiniteSet(S), NEW x, x \notin S, NEW w, \A y \in S \union {x} : w[y] \in Nat
  PROVE  Sum(w, S \union {x}) = w[x] + Sum(w, S) /\ Sum(w, S) \in Nat /\ w[x] \in Nat
<1> DEFINE T == S \union {x}
<1>1. IsFiniteSet(T)
  BY FS_AddElement
<1>2. PICK g : Additive(w, T, g)
  BY <1>1, SumExists
<1>3. S \subseteq T /\ T \ {x} = S
  OBVIOUS
<1>4. Sum(w, T) = g[T] /\ Sum(w, S) = g[S] /\ Sum(w, S) \in Nat
  BY <1>1, <1>2, <1>3, SumIs
<1>5. g[T] = w[x] + g[T \ {x}]
  BY <1>2 DEF Additive
<1>6. QED
  BY <1>3, <1>4, <1>5

LEMMA SumSame ==
  ASSUME NEW S, IsFiniteSet(S), NEW w, NEW v, \A x \in S : w[x] \in Nat /\ v[x] = w[x]
  PROVE  Sum(v, S) = Sum(w, S) /\ Sum(w, S) \in Nat
<1>1. PICK g : Additive(w, S, g)
  BY SumExists
<1>2. Additive(v, S, g)
  BY <1>1 DEF Additive
<1>3. QED
  BY <1>1, <1>2, SumIs

LEMMA SumLess ==
  ASSUME NEW S, IsFiniteSet(S), NEW T, T \subseteq S, NEW w, \A x \in S : w[x] \in Nat
  PROVE  Sum(w, T) <= Sum(w, S) /\ Sum(w, T) \in Nat /\ Sum(w, S) \in Nat
<1>1. PICK g : Additive(w, S, g)
  BY SumExists
<1>2. IsFiniteSet(T)
  BY FS_Subset
<1>3. /\ Sum(w, S) = g[S] /\ Sum(w, S) \in Nat
      /\ Sum(w, T) = g[T] /\ Sum(w, T) \in Nat
  BY <1>1, <1>2, SumIs
<1> DEFINE C == {s \in SUBSET S : T \subseteq s /\ ~(g[T] <= g[s])}
<1>4. SUFFICES ASSUME C # {} PROVE FALSE
  BY <1>3
<1>5. PICK s \in C : \A r \in C : r \subseteq s => r = s
  <2>1. C \subseteq SUBSET S
    BY DEF C
  <2> HIDE DEF C
  <2>2. QED
    BY <1>4, <2>1, LeastSet
<1>6. PICK x \in s : x \notin T
  <2>1. T \subseteq s /\ ~(g[T] <= g[s])
    BY <1>5
  <2>2. g[T] <= g[T]
    BY <1>3
  <2>3. QED
    BY <2>1, <2>2
<1>7. s \ {x} \notin C /\ s \ {x} \in SUBSET S /\ T \subseteq s \ {x}
  BY <1>5, <1>6
<1>8. g[T] <= g[s \ {x}]
  BY <1>7
<1>9. g[s] = w[x] + g[s \ {x}] /\ g[s \ {x}] \in Nat /\ w[x] \in Nat /\ g[T] \in Nat
  BY <1>1, <1>3, <1>5, <1>6, <1>7 DEF Additive
<1>10. ~(g[T] <= g[s])
  BY <1>5
<1>11. QED
  BY <1>8, <1>9, <1>10

LEMMA SumBound ==
  ASSUME NEW S, IsFiniteSet(S), NEW m \in Nat, NEW w, \A x \in S : w[x] \in 0 .. m
  PROVE  Sum(w, S) <= Cardinality(S) * m /\ Sum(w, S) \in Nat
<1>1. PICK g : Additive(w, S, g)
  <2>1. \A x \in S : w[x] \in Nat
    OBVIOUS
  <2>2. QED
    BY <2>1, SumExists
<1>2. Sum(w, S) = g[S] /\ Sum(w, S) \in Nat
  <2>1. \A x \in S : w[x] \in Nat
    OBVIOUS
  <2>2. QED
    BY <1>1, <2>1, SumIs
<1> DEFINE C == {s \in SUBSET S : ~(g[s] <= Cardinality(s) * m)}
<1>4. SUFFICES ASSUME C # {} PROVE FALSE
  BY <1>2
<1>5. PICK s \in C : \A r \in C : r \subseteq s => r = s
  <2>1. C \subseteq SUBSET S
    BY DEF C
  <2> HIDE DEF C
  <2>2. QED
    BY <1>4, <2>1, LeastSet
<1>6. s # {}
  <2>1. g[{}] = 0 /\ Cardinality({}) = 0 /\ 0 * m = 0
    BY <1>1, FS_EmptySet DEF Additive
  <2>2. ~(g[s] <= Cardinality(s) * m)
    BY <1>5
  <2>3. QED
    BY <2>1, <2>2
<1>7. PICK x \in s : TRUE
  BY <1>6
<1>8. s \ {x} \notin C /\ s \ {x} \in SUBSET S
  BY <1>5, <1>7
<1>9. g[s \ {x}] <= Cardinality(s \ {x}) * m
  BY <1>8
<1>10. g[s] = w[x] + g[s \ {x}] /\ g[s \ {x}] \in Nat /\ w[x] \in 0 .. m
  BY <1>1, <1>5, <1>7, <1>8 DEF Additive
<1>11. IsFiniteSet(s)
  BY <1>5, FS_Subset
<1>12. Cardinality(s \ {x}) = Cardinality(s) - 1 /\ Cardinality(s) \in Nat
  BY <1>7, <1>11, FS_RemoveElement, FS_CardinalityType
<1>13. \A c \in Nat : (c - 1) * m = c * m - m
  OBVIOUS
<1>14. ~(g[s] <= Cardinality(s) * m) /\ Cardinality(s) * m \in Nat
  BY <1>5, <1>12
<1>15. g[s] <= m + (Cardinality(s) * m - m)
  BY <1>9, <1>10, <1>12, <1>13
<1>16. QED
  BY <1>10, <1>14, <1>15

(* What the storage check adds up.                                           *)
Folded(z) == MapThenSumSet(LAMBDA e : z[e].size, DOMAIN z)
SizesOf(z) == [e \in DOMAIN z |-> z[e].size]
Stored(z) == Sum(SizesOf(z), DOMAIN z)

LEMMA FoldedIs ==
  ASSUME NEW z, IsFiniteSet(DOMAIN z), \A e \in DOMAIN z : z[e].size \in Nat
  PROVE  Folded(z) = Stored(z)
<1> DEFINE S == DOMAIN z
           w == SizesOf(z)
           E(f) == [s \in SUBSET S |->
                      IF s = {} THEN 0
                      ELSE z[CHOOSE x \in s : TRUE].size + f[s \ {CHOOSE x \in s : TRUE}]]
           h == CHOOSE f : f = E(f)
<1>1. Folded(z) = h[S]
  BY DEF Folded, MapThenSumSet, MapThenFoldSet
<1>w. \A x \in S : w[x] \in Nat /\ w[x] = z[x].size
  BY DEF SizesOf
<1> HIDE DEF w
<1>2. PICK g : Additive(w, S, g)
  BY <1>w, SumExists
<1>3. g \in [SUBSET S -> Nat] /\ g[{}] = 0
  BY <1>2 DEF Additive
<1>4. ASSUME NEW s \in SUBSET S, s # {}, NEW x \in s
      PROVE  g[s] = z[x].size + g[s \ {x}]
  BY <1>2, <1>w DEF Additive
<1>5. g = E(g)
  <2>1. ASSUME NEW s \in SUBSET S PROVE g[s] = E(g)[s]
    <3>1. CASE s = {}
      BY <1>3, <3>1
    <3>2. CASE s # {}
      <4>1. (CHOOSE x \in s : TRUE) \in s
        BY <3>2
      <4>2. QED
        BY <1>4, <3>2, <4>1
    <3>3. QED
      BY <3>1, <3>2
  <2>2. QED
    BY <1>3, <2>1
<1>6. h = E(h)
  BY <1>5, Zenon
<1>7. h[{}] = 0
  BY <1>6
<1>8. \A s \in SUBSET S : s # {} =>
        \E x \in s : \E n : h[s] = n + h[s \ {x}] /\ g[s] = n + g[s \ {x}]
  <2> SUFFICES ASSUME NEW s \in SUBSET S, s # {}
               PROVE  \E x \in s : \E n : h[s] = n + h[s \ {x}] /\ g[s] = n + g[s \ {x}]
    OBVIOUS
  <2> DEFINE y == CHOOSE x \in s : TRUE
  <2>1. y \in s
    OBVIOUS
  <2>2. h[s] = z[y].size + h[s \ {y}]
    BY <1>6
  <2> HIDE DEF y, h
  <2>3. QED
    BY <1>4, <2>1, <2>2
<1> HIDE DEF h
<1>9. h[S] = g[S]
  <2>1. h[{}] = g[{}] /\ S \in SUBSET S
    BY <1>3, <1>7
  <2>2. Alike(S, h, g)
    BY <1>8, <2>1, Zenon DEF Alike
  <2>3. QED
    BY <2>1, <2>2, SumUnique
<1>10. Sum(w, S) = g[S]
  BY <1>w, <1>2, SumIs
<1>11. QED
  BY <1>1, <1>9, <1>10 DEF Stored, w

LEMMA StoredShrinks ==
  ASSUME NEW z, IsFiniteSet(DOMAIN z), \A e \in DOMAIN z : z[e].size \in Nat,
         NEW y, DOMAIN y \subseteq DOMAIN z, \A e \in DOMAIN y : y[e].size = z[e].size
  PROVE  Stored(y) <= Stored(z) /\ Stored(y) \in Nat /\ Stored(z) \in Nat
<1> DEFINE S == DOMAIN z
           T == DOMAIN y
           w == SizesOf(z)
           v == SizesOf(y)
<1>1. (\A e \in S : w[e] \in Nat) /\ (\A e \in T : w[e] \in Nat /\ v[e] = w[e])
  BY DEF SizesOf
<1>2. IsFiniteSet(T) /\ T \subseteq S
  BY FS_Subset
<1> HIDE DEF w, v, S, T
<1>3. Sum(v, T) = Sum(w, T)
  BY <1>1, <1>2, SumSame
<1>4. Sum(w, T) <= Sum(w, S) /\ Sum(w, T) \in Nat /\ Sum(w, S) \in Nat
  BY <1>1, <1>2, SumLess DEF S
<1>5. QED
  BY <1>3, <1>4 DEF Stored, w, v, S, T

LEMMA StoredAdds ==
  ASSUME NEW z, IsFiniteSet(DOMAIN z), \A e \in DOMAIN z : z[e].size \in Nat,
         NEW x, x \notin DOMAIN z, NEW y, DOMAIN y = DOMAIN z \union {x}, y[x].size \in Nat,
         \A e \in DOMAIN z : y[e].size = z[e].size
  PROVE  Stored(y) = y[x].size + Stored(z)
<1> DEFINE S == DOMAIN z
           w == SizesOf(z)
           v == SizesOf(y)
<1>1. /\ \A e \in S : w[e] \in Nat /\ v[e] = w[e]
      /\ \A e \in S \union {x} : v[e] \in Nat
      /\ v[x] = y[x].size
  BY DEF SizesOf
<1>2. Stored(y) = Sum(v, S \union {x}) /\ Stored(z) = Sum(w, S) /\ x \notin S /\ IsFiniteSet(S)
  BY DEF Stored
<1> HIDE DEF w, v, S
<1>3. Sum(v, S) = Sum(w, S)
  BY <1>1, <1>2, SumSame
<1>4. Sum(v, S \union {x}) = v[x] + Sum(v, S)
  BY <1>1, <1>2, SumAdd
<1>5. QED
  BY <1>1, <1>2, <1>3, <1>4

-----------------------------------------------------------------------------
(* The storage limit.  What is stored and what the uploads that passed the   *)
(* check will add exceed the limit by no more than the uploads of the other  *)
(* users: the last to be checked found room for itself in what is stored.    *)
Owed == [u \in Users |-> IF fileReq[u].op \in {"write", "insert"} THEN fileReq[u].size ELSE 0]
Most == Limit + (Cardinality(Users) - 1) * Max(Sizes)

QuotaInv ==
  /\ \A e \in Present : entry[e].size \in 0 .. Max(Sizes)
  /\ \A u \in Users : fileReq[u].size \in 0 .. Max(Sizes)
  /\ Usage + Sum(Owed, Users) <= Most

LEMMA Greatest ==
  ASSUME FilesAssumption
  PROVE  Max(Sizes) \in Nat /\ \A s \in Sizes : s \in 0 .. Max(Sizes)
<1> DEFINE UpTo(s) == {x \in Sizes : x <= s}
           C == {Sizes \ UpTo(s) : s \in Sizes}
<1>1. IsFiniteSet(Sizes) /\ Sizes \subseteq Nat
  BY DEF FilesAssumption
<1>2. PICK t \in C : \A y \in C : y \subseteq t => y = t
  <2>1. C \subseteq SUBSET Sizes
    OBVIOUS
  <2>2. C # {}
    BY DEF FilesAssumption
  <2> HIDE DEF C
  <2>3. IsFiniteSet(Sizes)
    BY <1>1
  <2>4. QED
    BY <2>1, <2>2, <2>3, LeastSet
<1>3. PICK s \in Sizes : t = Sizes \ UpTo(s)
  BY DEF C
<1>4. ASSUME NEW x \in Sizes, ~(s >= x) PROVE FALSE
  <2>1. s \in Nat /\ x \in Nat /\ s < x
    BY <1>1, <1>4
  <2>2. Sizes \ UpTo(x) \subseteq t
    <3>1. \A z \in Sizes : z <= s => z <= x
      BY <1>1, <2>1
    <3>2. QED
      BY <1>3, <3>1, Zenon
  <2>3. x \in t /\ x \notin Sizes \ UpTo(x)
    BY <1>3, <1>4, <2>1
  <2>4. Sizes \ UpTo(x) \in C
    BY DEF C
  <2> HIDE DEF UpTo
  <2>5. QED
    BY <1>2, <2>2, <2>3, <2>4
<1>5. Max(Sizes) \in Sizes /\ \A y \in Sizes : Max(Sizes) >= y
  <2>1. \E x \in Sizes : \A y \in Sizes : x >= y
    BY <1>4
  <2>2. QED
    BY <2>1 DEF Max
<1>6. Max(Sizes) \in Nat
  BY <1>1, <1>5
<1>7. ASSUME NEW y \in Sizes PROVE y \in 0 .. Max(Sizes)
  <2>1. y \in Nat /\ Max(Sizes) >= y
    BY <1>1, <1>5
  <2> QED
    BY <1>6, <2>1
<1>8. QED
  BY <1>6, <1>7

LEMMA UsersCount ==
  ASSUME FilesAssumption
  PROVE  /\ IsFiniteSet(Users) /\ Cardinality(Users) - 1 \in Nat
         /\ \A u \in Users : /\ IsFiniteSet(Users \ {u})
                             /\ Cardinality(Users \ {u}) = Cardinality(Users) - 1
<1>1. IsFiniteSet(Users) /\ Users # {}
  BY DEF FilesAssumption
<1>2. Cardinality(Users) \in Nat /\ Cardinality(Users) # 0
  BY <1>1, FS_CardinalityType, FS_EmptySet
<1>3. \A u \in Users : IsFiniteSet(Users \ {u}) /\ Cardinality(Users \ {u}) = Cardinality(Users) - 1
  BY <1>1, FS_RemoveElement
<1>4. QED
  BY <1>1, <1>2, <1>3

LEMMA PresentFinite == RowInv => IsFiniteSet(Present)
<1> SUFFICES ASSUME RowInv PROVE IsFiniteSet(Present)
  OBVIOUS
<1>1. last \in Int /\ Present \subseteq 1 .. last
  BY DEF RowInv
<1>2. IsFiniteSet(1 .. last)
  BY <1>1, FS_Interval
<1>3. QED
  BY <1>1, <1>2, FS_Subset

LEMMA OwedTyped ==
  ASSUME FilesAssumption, \A u \in Users : fileReq[u].size \in 0 .. Max(Sizes)
  PROVE  \A u \in Users : Owed[u] \in 0 .. Max(Sizes)
BY Greatest DEF Owed

(* What one user owes, and what the others do, which a step of his leaves.   *)
LEMMA OwedParts ==
  ASSUME FilesAssumption, \A v \in Users : fileReq[v].size \in 0 .. Max(Sizes), NEW u \in Users,
         \A v \in Users \ {u} : fileReq'[v] = fileReq[v], fileReq'[u].size \in 0 .. Max(Sizes)
  PROVE  LET rest == Sum(Owed, Users \ {u}) IN
           /\ rest \in Nat /\ rest <= (Cardinality(Users) - 1) * Max(Sizes)
           /\ Sum(Owed, Users) = Owed[u] + rest /\ Owed[u] \in Nat
           /\ Sum(Owed, Users)' = Owed'[u] + rest /\ Owed'[u] \in Nat
<1> DEFINE S == Users \ {u}
<1>1. IsFiniteSet(S) /\ Cardinality(S) = Cardinality(Users) - 1 /\ u \notin S /\ Users = S \union {u}
  BY UsersCount
<1>2. Max(Sizes) \in Nat
  BY Greatest
<1>3. \A v \in Users : Owed[v] \in 0 .. Max(Sizes)
  BY OwedTyped
<1>4. \A v \in Users : fileReq'[v].size \in 0 .. Max(Sizes)
  OBVIOUS
<1>5. \A v \in Users : Owed'[v] \in 0 .. Max(Sizes)
  BY <1>2, <1>4 DEF Owed
<1>6. \A v \in S : Owed'[v] = Owed[v]
  BY DEF Owed
<1>7. \A v \in Users : Owed[v] \in Nat /\ Owed'[v] \in Nat
  BY <1>2, <1>3, <1>5
<1>8. Sum(Owed, S) <= (Cardinality(Users) - 1) * Max(Sizes) /\ Sum(Owed, S) \in Nat
  BY <1>1, <1>2, <1>3, SumBound
<1>9. Sum(Owed', S) = Sum(Owed, S)
  BY <1>1, <1>6, <1>7, SumSame
<1>10. Sum(Owed, S \union {u}) = Owed[u] + Sum(Owed, S)
  BY <1>1, <1>7, SumAdd
<1>11. Sum(Owed', S \union {u}) = Owed'[u] + Sum(Owed', S)
  BY <1>1, <1>7, SumAdd
<1>12. Sum(Owed, Users)' = Sum(Owed', Users)
  BY DEF Sum
<1>13. QED
  BY <1>1, <1>7, <1>8, <1>9, <1>10, <1>11, <1>12

LEMMA UsageIs ==
  ASSUME IsFiniteSet(Present), \A e \in Present : entry[e].size \in Nat
  PROVE  Usage = Stored(entry)
<1>1. Usage = Folded(entry)
  BY DEF Usage, Folded, Present, MapThenSumSet, MapThenFoldSet
<1>2. QED
  BY <1>1, FoldedIs DEF Present

LEMMA UsageIsNext ==
  ASSUME IsFiniteSet(Present'), \A e \in Present' : entry'[e].size \in Nat
  PROVE  Usage' = Stored(entry')
<1>1. Usage' = Folded(entry')
  BY DEF Usage, Folded, Present, MapThenSumSet, MapThenFoldSet
<1>2. QED
  BY <1>1, FoldedIs DEF Present

LEMMA QuotaInit ==
  ASSUME FilesAssumption, FilesInit
  PROVE  QuotaInv
<1>1. Present = {} /\ Max(Sizes) \in Nat
  BY Greatest DEF FilesInit, Present
<1>2. Stored(entry) = 0
  BY <1>1, SumNone DEF Stored, Present
<1>3. Usage = 0
  BY <1>1, <1>2, UsageIs, FS_EmptySet
<1>4. \A u \in Users : fileReq[u].size = 0 /\ fileReq[u].op = "idle"
  BY DEF FilesInit, NoRequest
<1>5. \A u \in Users : Owed[u] = 0
  BY <1>4 DEF Owed
<1>6. Sum(Owed, Users) <= Cardinality(Users) * 0 /\ Sum(Owed, Users) \in Nat
  <2>1. \A u \in Users : Owed[u] \in 0 .. 0
    BY <1>5
  <2>2. QED
    BY <2>1, UsersCount, SumBound
<1>7. Sum(Owed, Users) = 0
  <2>1. Cardinality(Users) \in Nat
    BY UsersCount, FS_CardinalityType
  <2>2. Cardinality(Users) * 0 = 0
    BY <2>1
  <2>3. QED
    BY <1>6, <2>2
<1>8. Most \in Nat
  <2>1. (Cardinality(Users) - 1) * Max(Sizes) \in Nat
    BY <1>1, UsersCount
  <2>2. QED
    BY <2>1 DEF Most, FilesAssumption
<1>9. QED
  BY <1>1, <1>3, <1>4, <1>7, <1>8 DEF QuotaInv

(* A step after which no more is stored and owed than before.                *)
LEMMA QuotaStays ==
  ASSUME FilesAssumption, RowInv, RowInv', QuotaInv, NEW u \in Users,
         \A v \in Users \ {u} : fileReq'[v] = fileReq[v], fileReq'[u].size \in 0 .. Max(Sizes),
         fileReq'[u].op \in {"write", "insert"} =>
           (fileReq[u].op \in {"write", "insert"} /\ fileReq'[u].size = fileReq[u].size) \/ fileReq'[u].size = 0,
         Present' \subseteq Present, \A e \in Present' : entry'[e].size = entry[e].size
  PROVE  QuotaInv'
<1>1. /\ IsFiniteSet(Present) /\ IsFiniteSet(Present') /\ Max(Sizes) \in Nat
      /\ \A e \in Present : entry[e].size \in Nat
      /\ \A e \in Present' : entry'[e].size \in Nat /\ entry'[e].size \in 0 .. Max(Sizes)
  <2>1. IsFiniteSet(Present)
    BY PresentFinite
  <2>2. IsFiniteSet(Present')
    BY <2>1, FS_Subset
  <2>3. QED
    BY <2>1, <2>2, Greatest DEF QuotaInv
<1>2. Usage' <= Usage /\ Usage' \in Nat /\ Usage \in Nat
  <2>1. Usage = Stored(entry) /\ Usage' = Stored(entry')
    BY <1>1, UsageIs, UsageIsNext
  <2>2. Stored(entry') <= Stored(entry) /\ Stored(entry') \in Nat /\ Stored(entry) \in Nat
    BY <1>1, StoredShrinks DEF Present
  <2>3. QED
    BY <2>1, <2>2
<1>3. PICK rest \in Nat : /\ Sum(Owed, Users) = Owed[u] + rest /\ Owed[u] \in Nat
                          /\ Sum(Owed, Users)' = Owed'[u] + rest /\ Owed'[u] \in Nat
  BY OwedParts DEF QuotaInv
<1>4. Owed'[u] <= Owed[u]
  BY <1>1, <1>3 DEF Owed, QuotaInv
<1>5. Usage + Sum(Owed, Users) <= Most /\ Most \in Int
  <2>1. Most \in Int
    BY <1>1, UsersCount DEF Most, FilesAssumption
  <2>2. QED
    BY <2>1 DEF QuotaInv
<1>6. (Usage + Sum(Owed, Users))' <= Most
  BY <1>2, <1>3, <1>4, <1>5
<1>7. \A v \in Users : fileReq'[v].size \in 0 .. Max(Sizes)
  BY DEF QuotaInv
<1>8. QED
  BY <1>1, <1>6, <1>7 DEF QuotaInv, Most

(* The check: what is stored leaves room for this file, and the others owe   *)
(* at most the largest file each.                                            *)
LEMMA QuotaMeasures ==
  ASSUME FilesAssumption, RowInv, RowInv', QuotaInv, NEW u \in Users, UNCHANGED entry,
         \A v \in Users \ {u} : fileReq'[v] = fileReq[v],
         fileReq'[u].op = "write", fileReq'[u].size = fileReq[u].size, Usage + fileReq[u].size <= Limit
  PROVE  QuotaInv'
<1>1. /\ Present' = Present /\ IsFiniteSet(Present) /\ Max(Sizes) \in Nat
      /\ \A e \in Present : entry[e].size \in Nat
  BY PresentFinite, Greatest DEF QuotaInv, Present
<1>2. Usage' = Usage /\ Usage \in Nat
  <2>1. Usage' = Stored(entry') /\ Usage = Stored(entry)
    BY <1>1, UsageIs, UsageIsNext
  <2>2. Stored(entry) \in Nat
    BY <1>1, StoredShrinks DEF Present
  <2>3. QED
    BY <2>1, <2>2
<1>3. PICK rest \in Nat : /\ rest <= (Cardinality(Users) - 1) * Max(Sizes)
                          /\ Sum(Owed, Users)' = Owed'[u] + rest
  BY OwedParts DEF QuotaInv
<1>4. Owed'[u] = fileReq[u].size /\ fileReq[u].size \in Nat
  BY <1>1 DEF Owed, QuotaInv
<1>5. Limit \in Nat /\ (Cardinality(Users) - 1) * Max(Sizes) \in Nat
  BY <1>1, UsersCount DEF FilesAssumption
<1>6. (Usage + Sum(Owed, Users))' <= Most
  BY <1>2, <1>3, <1>4, <1>5 DEF Most
<1>7. \A v \in Users : fileReq'[v].size \in 0 .. Max(Sizes)
  BY DEF QuotaInv
<1>8. \A e \in Present' : entry'[e].size \in 0 .. Max(Sizes)
  BY <1>1 DEF QuotaInv
<1>9. QED
  BY <1>6, <1>7, <1>8 DEF QuotaInv, Most

(* What is owed is stored.                                                   *)
LEMMA QuotaInserts ==
  ASSUME FilesAssumption, RowInv, RowInv', QuotaInv, NEW u \in Users, Insert(u),
         PlaceExists(fileReq[u].to)
  PROVE  QuotaInv'
<1> DEFINE x == fileReq[u].id
<1>1. x \notin Present /\ fileReq[u].op = "insert" /\ fileReq[u].size \in 0 .. Max(Sizes) /\ Max(Sizes) \in Nat
  BY Greatest DEF RowInv, Pending, QuotaInv, Insert
<1>2. /\ entry' = [e \in Present \union {x} |-> IF e = x THEN Row(u, fileReq[u]) ELSE entry[e]]
      /\ Becomes(u, NoRequest)
  BY DEF Insert, Done
<1>3. /\ DOMAIN entry' = Present \union {x} /\ entry'[x].size = fileReq[u].size
      /\ \A e \in Present : entry'[e].size = entry[e].size
  BY <1>1, <1>2 DEF Row
<1>4. NoRequest.size = 0 /\ NoRequest.op = "idle" /\ DOMAIN NoRequest = Fields
  BY IdleFields DEF NoRequest
<1>5. fileReq'[u] = NoRequest /\ \A v \in Users \ {u} : fileReq'[v] = fileReq[v]
  BY <1>2, <1>4, Becoming
<1> HIDE DEF x
<1>6. /\ IsFiniteSet(Present) /\ IsFiniteSet(Present') /\ Present' = DOMAIN entry'
      /\ \A e \in Present : entry[e].size \in Nat
      /\ \A e \in Present' : entry'[e].size \in Nat /\ entry'[e].size \in 0 .. Max(Sizes)
  <2>1. IsFiniteSet(Present) /\ Present' = Present \union {x}
    BY <1>3, PresentFinite DEF Present
  <2>2. IsFiniteSet(Present')
    BY <2>1, FS_AddElement
  <2>3. \A e \in Present : entry[e].size \in Nat /\ entry[e].size \in 0 .. Max(Sizes)
    BY <1>1 DEF QuotaInv
  <2>4. QED
    BY <1>1, <1>3, <2>1, <2>2, <2>3
<1>7. Usage' = fileReq[u].size + Usage /\ Usage \in Nat
  <2>1. Usage' = Stored(entry') /\ Usage = Stored(entry)
    BY <1>6, UsageIs, UsageIsNext
  <2>2. Stored(entry) \in Nat
    BY <1>6, StoredShrinks DEF Present
  <2>3. Stored(entry') = entry'[x].size + Stored(entry)
    BY <1>1, <1>3, <1>6, StoredAdds DEF Present
  <2>4. QED
    BY <1>3, <2>1, <2>2, <2>3
<1>8. PICK rest \in Nat : /\ Sum(Owed, Users) = Owed[u] + rest
                          /\ Sum(Owed, Users)' = Owed'[u] + rest
  <2>1. fileReq'[u].size \in 0 .. Max(Sizes)
    BY <1>1, <1>4, <1>5
  <2>2. \A v \in Users : fileReq[v].size \in 0 .. Max(Sizes)
    BY DEF QuotaInv
  <2>3. QED
    BY <1>5, <2>1, <2>2, OwedParts
<1>9. Owed[u] = fileReq[u].size /\ Owed'[u] = 0
  BY <1>1, <1>4, <1>5 DEF Owed
<1>10. (Usage + Sum(Owed, Users))' = Usage + Sum(Owed, Users)
  BY <1>1, <1>7, <1>8, <1>9
<1>11. \A v \in Users : fileReq'[v].size \in 0 .. Max(Sizes)
  BY <1>1, <1>4, <1>5 DEF QuotaInv
<1>12. QED
  BY <1>6, <1>10, <1>11 DEF QuotaInv, Most

LEMMA QuotaStep ==
  ASSUME FilesAssumption
  PROVE  RowInv /\ QuotaInv /\ [FilesNext]_fileVars => QuotaInv'
<1> SUFFICES ASSUME RowInv, QuotaInv, [FilesNext]_fileVars PROVE QuotaInv'
  OBVIOUS
<1>0. RowInv' /\ Max(Sizes) \in Nat /\ \A s \in Sizes : s \in 0 .. Max(Sizes)
  BY RowInductive, Greatest
<1>a. /\ DOMAIN NoRequest = Fields /\ NoRequest.op = "idle" /\ NoRequest.size = 0
      /\ \A u \in Users : DOMAIN fileReq[u] = Fields
  BY IdleFields DEF RowInv, NoRequest
<1>b. ASSUME entry' = entry
      PROVE  Present' = Present /\ \A e \in Present' : entry'[e].size = entry[e].size
  BY <1>b DEF Present
<1>1. CASE UNCHANGED fileVars
  <2>1. PICK u \in Users : TRUE
    BY DEF FilesAssumption
  <2>2. UNCHANGED <<entry, fileReq>> /\ fileReq'[u].size \in 0 .. Max(Sizes)
    BY <1>1 DEF fileVars, QuotaInv
  <2>3. QED
    BY <1>0, <1>b, <2>2, QuotaStays
(* A request becomes r, which owes no more than before.                      *)
<1>2. ASSUME NEW u \in Users, NEW r, Becomes(u, r), DOMAIN r = Fields,
             r.size \in 0 .. Max(Sizes),
             r.op \in {"write", "insert"} =>
               (fileReq[u].op \in {"write", "insert"} /\ r.size = fileReq[u].size) \/ r.size = 0,
             Present' \subseteq Present, \A e \in Present' : entry'[e].size = entry[e].size
      PROVE  QuotaInv'
  <2>1. fileReq'[u] = r /\ \A v \in Users \ {u} : fileReq'[v] = fileReq[v]
    BY <1>2, Becoming
  <2>2. QED
    BY <1>0, <1>2, <2>1, QuotaStays
<1>3. ASSUME NEW u \in Users, Done(u),
             Present' \subseteq Present, \A e \in Present' : entry'[e].size = entry[e].size
      PROVE  QuotaInv'
  <2>1. NoRequest.size \in 0 .. Max(Sizes)
    BY <1>0, <1>a
  <2>2. QED
    BY <1>2, <1>3, <1>a, <2>1 DEF Done
<1>4. ASSUME NEW u \in Users, NEW op, NEW to, NEW size \in {0} \union Sizes,
             Begins(u, op, to, size), op \in {"write", "insert"} => size = 0
      PROVE  QuotaInv'
  <2> DEFINE r == [NoRequest EXCEPT !.op = op, !.id = last + 1, !.to = to, !.size = size]
  <2>1. DOMAIN r = Fields /\ r.op = op /\ r.size = size
    BY DEF NoRequest, Fields
  <2>2. Becomes(u, r) /\ UNCHANGED entry
    BY <1>4 DEF Begins
  <2> HIDE DEF r
  <2>3. r.size \in 0 .. Max(Sizes)
    BY <1>0, <2>1
  <2>4. QED
    BY <1>2, <1>4, <1>b, <2>1, <2>2, <2>3
<1>5. ASSUME NEW u \in Users, Mkdir(u) \/ Upload(u) PROVE QuotaInv'
  BY <1>4, <1>5 DEF Mkdir, Upload
(* A request goes on with r, of the same size.                               *)
<1>6. ASSUME NEW u \in Users, NEW r, Becomes(u, r), DOMAIN r = Fields, r.size = fileReq[u].size,
             r.op \in {"write", "insert"} => fileReq[u].op \in {"write", "insert"},
             Present' \subseteq Present, \A e \in Present' : entry'[e].size = entry[e].size
      PROVE  QuotaInv'
  <2>1. r.size \in 0 .. Max(Sizes)
    BY <1>6 DEF QuotaInv
  <2>2. QED
    BY <1>2, <1>6, <2>1
<1>7. ASSUME NEW u \in Users, Measure(u) PROVE QuotaInv'
  <2>1. CASE Usage + fileReq[u].size <= Limit
    <3> DEFINE r == [fileReq[u] EXCEPT !.op = "write"]
    <3>1. Becomes(u, r) /\ UNCHANGED entry
      BY <1>7, <2>1 DEF Measure
    <3>2. DOMAIN r = Fields /\ r.op = "write" /\ r.size = fileReq[u].size
      BY <1>a DEF Fields
    <3> HIDE DEF r
    <3>3. fileReq'[u] = r /\ \A v \in Users \ {u} : fileReq'[v] = fileReq[v]
      BY <3>1, <3>2, Becoming
    <3>4. QED
      BY <1>0, <2>1, <3>1, <3>2, <3>3, QuotaMeasures
  <2>2. CASE ~(Usage + fileReq[u].size <= Limit)
    BY <1>3, <1>7, <1>b, <2>2 DEF Measure
  <2>3. QED
    BY <2>1, <2>2
<1>8. ASSUME NEW u \in Users, Write(u) PROVE QuotaInv'
  <2> DEFINE r == [fileReq[u] EXCEPT !.op = "insert"]
  <2>1. Becomes(u, r) /\ UNCHANGED entry /\ fileReq[u].op = "write"
    BY <1>8 DEF Write
  <2>2. DOMAIN r = Fields /\ r.size = fileReq[u].size
    BY <1>a DEF Fields
  <2> HIDE DEF r
  <2>3. QED
    BY <1>6, <1>b, <2>1, <2>2
<1>9. ASSUME NEW u \in Users, Insert(u) PROVE QuotaInv'
  <2>1. CASE PlaceExists(fileReq[u].to)
    BY <1>0, <1>9, <2>1, QuotaInserts
  <2>2. CASE ~PlaceExists(fileReq[u].to)
    BY <1>3, <1>9, <1>b, <2>2 DEF Insert
  <2>3. QED
    BY <2>1, <2>2
<1>10. ASSUME NEW u \in Users, Share(u) PROVE QuotaInv'
  <2>1. UNCHANGED fileReq /\ Present' = Present /\ \A e \in Present : entry'[e].size = entry[e].size
    BY <1>10 DEF Share, Present
  <2>2. fileReq'[u].size \in 0 .. Max(Sizes)
    BY <2>1 DEF QuotaInv
  <2>3. QED
    BY <1>0, <2>1, <2>2, QuotaStays
<1>11. ASSUME NEW u \in Users, Move(u) \/ Delete(u) PROVE QuotaInv'
  <2>1. UNCHANGED entry
    BY <1>11 DEF Move, Delete
  <2>2. CASE Move(u)
    <3>1. PICK e \in Present, to \in {Root} \union Present :
            Becomes(u, [NoRequest EXCEPT !.op = "walk", !.id = e, !.to = to, !.at = to])
      BY <2>2 DEF Move
    <3> DEFINE r == [NoRequest EXCEPT !.op = "walk", !.id = e, !.to = to, !.at = to]
    <3>2. DOMAIN r = Fields /\ r.op = "walk" /\ r.size = 0 /\ Becomes(u, r)
      BY <3>1 DEF NoRequest, Fields
    <3> HIDE DEF r
    <3>3. r.size \in 0 .. Max(Sizes)
      BY <1>0, <3>2
    <3>4. QED
      BY <1>2, <1>b, <2>1, <3>2, <3>3
  <2>3. CASE Delete(u)
    <3>1. PICK e \in Present :
            Becomes(u, [NoRequest EXCEPT !.op = "delete", !.stack = <<Frame(Root, "each", {e})>>])
      BY <2>3 DEF Delete
    <3> DEFINE r == [NoRequest EXCEPT !.op = "delete", !.stack = <<Frame(Root, "each", {e})>>]
    <3>2. DOMAIN r = Fields /\ r.op = "delete" /\ r.size = 0 /\ Becomes(u, r)
      BY <3>1 DEF NoRequest, Fields
    <3> HIDE DEF r
    <3>3. r.size \in 0 .. Max(Sizes)
      BY <1>0, <3>2
    <3>4. QED
      BY <1>2, <1>b, <2>1, <3>2, <3>3
  <2>4. QED
    BY <1>11, <2>2, <2>3
<1>12. ASSUME NEW u \in Users, Walk(u) PROVE QuotaInv'
  <2>1. UNCHANGED entry /\ fileReq[u].op = "walk"
    BY <1>12 DEF Walk
  <2>2. CASE Done(u)
    BY <1>3, <1>b, <2>1, <2>2
  <2>3. CASE Becomes(u, [fileReq[u] EXCEPT !.at = ParentOf(@)])
    <3> DEFINE r == [fileReq[u] EXCEPT !.at = ParentOf(@)]
    <3>1. DOMAIN r = Fields /\ r.op = "walk" /\ r.size = fileReq[u].size /\ Becomes(u, r)
      BY <1>a, <2>1, <2>3 DEF Fields
    <3> HIDE DEF r
    <3>2. QED
      BY <1>6, <1>b, <2>1, <3>1
  <2>4. QED
    BY <1>12, <2>2, <2>3 DEF Walk
<1>13. ASSUME NEW u \in Users, Place(u) PROVE QuotaInv'
  <2>1. Done(u) /\ Present' = Present /\ \A e \in Present : entry'[e].size = entry[e].size
    BY <1>13 DEF Place, Present
  <2>2. QED
    BY <1>3, <2>1
<1>14. ASSUME NEW u \in Users, NEW s, Stacked(u, s), fileReq[u].op = "delete",
              Present' \subseteq Present, \A e \in Present' : entry'[e].size = entry[e].size
       PROVE  QuotaInv'
  <2> DEFINE r == [fileReq[u] EXCEPT !.stack = s]
  <2>1. Becomes(u, r) /\ DOMAIN r = Fields /\ r.op = "delete" /\ r.size = fileReq[u].size
    BY <1>a, <1>14 DEF Stacked, Fields
  <2> HIDE DEF r
  <2>2. QED
    BY <1>6, <1>14, <2>1
<1>15. ASSUME NEW u \in Users, Call(u) \/ Listing(u) \/ Unlink(u) PROVE QuotaInv'
  <2>1. UNCHANGED entry /\ fileReq[u].op = "delete" /\ \E s : Stacked(u, s)
    BY <1>15 DEF Call, Listing, Unlink, Deleting
  <2>2. QED
    BY <1>14, <1>b, <2>1
<1>16. ASSUME NEW u \in Users, DeleteRow(u) PROVE QuotaInv'
  <2>1. /\ fileReq[u].op = "delete" /\ Stacked(u, Below(u))
        /\ Present' \subseteq Present /\ \A e \in Present' : entry'[e].size = entry[e].size
    BY <1>16 DEF DeleteRow, Deleting, Restrict, Present
  <2>2. QED
    BY <1>14, <2>1
<1>17. ASSUME NEW u \in Users, Deleted(u) \/ Crash(u) PROVE QuotaInv'
  <2>1. Done(u) /\ UNCHANGED entry
    BY <1>17 DEF Deleted, Crash
  <2>2. QED
    BY <1>3, <1>b, <2>1
<1>18. QED
  BY <1>1, <1>5, <1>7, <1>8, <1>9, <1>10, <1>11, <1>12, <1>13, <1>15, <1>16, <1>17
     DEF FilesNext, Arrive, Proceed

(* What an organization stores exceeds its limit by no more than the largest *)
(* file for each user but one, however many uploads overlap, fail and are    *)
(* deleted: the uploads that were checked before are what the check misses.  *)
THEOREM QuotaSlackHolds ==
  ASSUME FilesAssumption
  PROVE  FilesSpec => []QuotaSlack
<1>1. FilesInit => QuotaInv
  BY QuotaInit
<1>2. RowInv /\ QuotaInv => QuotaSlack
  <2> SUFFICES ASSUME RowInv, QuotaInv PROVE QuotaSlack
    OBVIOUS
  <2>1. /\ IsFiniteSet(Present) /\ \A e \in Present : entry[e].size \in Nat
        /\ \A u \in Users : Owed[u] \in 0 .. Max(Sizes)
    BY PresentFinite, Greatest, OwedTyped DEF QuotaInv
  <2>2. Usage = Stored(entry) /\ Stored(entry) \in Nat
    BY <2>1, UsageIs, StoredShrinks DEF Present
  <2>3. Sum(Owed, Users) \in Nat
    BY <2>1, UsersCount, Greatest, SumBound
  <2>4. Most \in Int
    BY Greatest, UsersCount DEF Most, FilesAssumption
  <2>5. QED
    BY <2>2, <2>3, <2>4 DEF QuotaInv, QuotaSlack, Most
<1>3. QED
  BY <1>1, <1>2, RowInit, RowInductive, QuotaStep, PTL DEF FilesSpec

(* The files of an organization: what is moved closes no cycle, as long as   *)
(* one user at most moves entries; what is listed is stored; and the limit   *)
(* is exceeded by no more than the uploads that overlap.                     *)
THEOREM TreeHoldsAlways ==
  ASSUME FilesAssumption, NEW m, Movers \subseteq {m}
  PROVE  FilesSpec => []TreeHolds
BY ForestHolds, ListedIsStoredHolds, QuotaSlackHolds, PTL DEF TreeHolds

-----------------------------------------------------------------------------
(* Notebooks: while nobody is disturbed one tab at most is at work, and each *)
(* step of its handlers says where the content is.                           *)

NbCall == [at : {"no", "read", "spawn", "find", "push", "fetch", "merge", "delete"},
           for : {"no", "open", "close", "migrate"}, content : Nat]
NbTab == [at : {"view", "opening", "editing", "closing"}, doc : Nat]

NbTypes ==
  /\ db \in Nat /\ file \in Nat /\ legacy \in Nat /\ newest \in Nat /\ kept \in Nat /\ outages \in Nat
  /\ nb \in [NbTabs -> NbTab] /\ call \in [NbTabs -> NbCall]

(* At rest the page has what is kept, and the file is gone, but for one that *)
(* could not be deleted after the page had got its content.                  *)
Rested == db = kept /\ (db = 0 \/ outages = 0 => file = 0)
FileKept == server = "ready" /\ file = kept /\ file # 0

Opening(n, c) ==
  /\ c.for = "open" /\ n.at = "opening" /\ Rested
  /\ \/ c.at = "read"
     \/ c.at \in {"spawn", "find"} /\ c.content = db
     \/ c.at = "push" /\ c.content # 0
ClosingEditor(n, c) ==
  /\ c.for = "close" /\ n.at = "closing" /\ server = "ready"
  /\ \/ c.at = "fetch" /\ FileKept
     \/ c.at = "merge" /\ FileKept /\ c.content = kept
     \/ c.at = "delete" /\ db = kept /\ db # 0
Migrating(n, c) ==
  /\ c.for = "migrate" /\ n.at = "view" /\ file = 0
  /\ \/ c.at = "fetch" /\ db = kept
     \/ c.at = "merge" /\ c.content = kept /\ kept # 0
     \/ c.at = "delete" /\ db = kept
Editing(n, c) == c.at = "no" /\ c.for = "no" /\ n.at = "editing" /\ FileKept
Phase(n, c) == Opening(n, c) \/ ClosingEditor(n, c) \/ Migrating(n, c) \/ Editing(n, c)

AtWork(n, c) == n.at # "view" \/ c # NoCall
NbUndisturbed ==
  /\ \A t \in NbTabs : AtWork(nb[t], call[t]) =>
       /\ \A o \in NbTabs \ {t} : ~AtWork(nb[o], call[o])
       /\ Phase(nb[t], call[t])
  /\ AtRest => Rested

NbInv == NbTypes /\ (~disturbed => NbUndisturbed)

LEMMA NbCalls ==
  /\ NoCall \in NbCall /\ View \in NbTab /\ NoCall.at = "no" /\ NoCall.for = "no" /\ View.at = "view"
  /\ \A c \in NbCall : c.at # "no" => c # NoCall
  BY DEF NoCall, View, NbCall, NbTab

(* A step of one tab, while the others are not at work. *)
LEMMA NbOneTab ==
  ASSUME NEW t \in NbTabs,
         \A o \in NbTabs \ {t} : nb'[o] = nb[o] /\ call'[o] = call[o] /\ ~AtWork(nb[o], call[o]),
         AtWork(nb'[t], call'[t]) => Phase(nb[t], call[t])',
         ~AtWork(nb'[t], call'[t]) => Rested'
  PROVE  NbUndisturbed'
<1>1. \A o \in NbTabs \ {t} : ~AtWork(nb'[o], call'[o])
  OBVIOUS
<1>2. ASSUME NEW u \in NbTabs, AtWork(nb'[u], call'[u])
      PROVE  /\ \A o \in NbTabs \ {u} : ~AtWork(nb'[o], call'[o])
             /\ Phase(nb[u], call[u])'
  <2>1. u = t
    BY <1>1, <1>2
  <2>2. QED
    BY <1>1, <1>2, <2>1
<1>3. AtRest' => ~AtWork(nb'[t], call'[t])
  BY DEF AtRest, Busy, AtWork
<1>4. QED
  BY <1>2, <1>3 DEF NbUndisturbed

LEMMA NbTypesKept ==
  ASSUME NbTypes, NbNext
  PROVE  NbTypes'
<1>1. CASE Ready
  BY <1>1 DEF NbTypes, Ready
<1>2. ASSUME NEW t \in NbTabs, NEW for \in {"open", "close"}, NEW at \in {"read", "fetch"}, StartsCall(t, for, at)
      PROVE  nb' \in [NbTabs -> NbTab] /\ call' \in [NbTabs -> NbCall]
  <2>1. [at |-> at, for |-> for, content |-> 0] \in NbCall
    BY DEF NbCall
  <2>2. call' \in [NbTabs -> NbCall]
    BY <1>2, <2>1 DEF StartsCall, NbTypes
  <2>3. nb' \in [NbTabs -> NbTab]
    BY <1>2 DEF StartsCall, Sets, NbTypes, NbTab
  <2>4. QED
    BY <2>2, <2>3
<1>3. ASSUME NEW t \in NbTabs, OpenNotebook(t) PROVE NbTypes'
  <2>1. nb' \in [NbTabs -> NbTab] /\ call' \in [NbTabs -> NbCall]
    BY <1>2, <1>3 DEF OpenNotebook
  <2>2. QED
    BY <1>3, <2>1 DEF OpenNotebook, NbTypes
<1>4. ASSUME NEW t \in NbTabs, SaveAndClose(t) PROVE NbTypes'
  <2>1. nb' \in [NbTabs -> NbTab] /\ call' \in [NbTabs -> NbCall]
    BY <1>2, <1>4 DEF SaveAndClose
  <2>2. QED
    BY <1>4, <2>1 DEF SaveAndClose, NbTypes
<1>5. ASSUME NEW t \in NbTabs, LoadPage(t) PROVE NbTypes'
  <2>1. [at |-> "fetch", for |-> "migrate", content |-> 0] \in NbCall
    BY DEF NbCall
  <2>2. nb' \in [NbTabs -> NbTab] /\ call' \in [NbTabs -> NbCall]
    BY <1>5, <2>1, NbCalls DEF LoadPage, NbTypes
  <2>3. QED
    BY <1>5, <2>2 DEF LoadPage, NbTypes
<1>6. ASSUME NEW t \in NbTabs, Type(t) PROVE NbTypes'
  <2>1. nb' \in [NbTabs -> NbTab] /\ newest' \in Nat
    BY <1>6 DEF Type, NbTypes, NbTab
  <2>2. QED
    BY <1>6, <2>1 DEF Type, NbTypes
<1>7. ASSUME NEW t \in NbTabs, Autosave(t) PROVE NbTypes'
  BY <1>7 DEF Autosave, NbTypes, NbTab
<1>8. ASSUME NEW t \in NbTabs, NEW at \in {"spawn", "find", "push", "merge", "delete"}, NEW n \in Nat, Stage(t, at, n)
      PROVE  call' \in [NbTabs -> NbCall]
  BY <1>8 DEF Stage, NbTypes, NbCall
<1>9. \A t \in NbTabs : call[t].content \in Nat
  BY DEF NbTypes, NbCall
<1>10. ASSUME NEW t \in NbTabs, ReadPage(t) PROVE NbTypes'
  <2>1. call' \in [NbTabs -> NbCall]
    BY <1>8, <1>10 DEF ReadPage, NbTypes
  <2>2. QED
    BY <1>10, <2>1 DEF ReadPage, NbTypes
<1>11. ASSUME NEW t \in NbTabs, EnsureServerRunning(t) PROVE NbTypes'
  <2>1. call' \in [NbTabs -> NbCall]
    BY <1>8, <1>9, <1>11 DEF EnsureServerRunning
  <2>2. QED
    BY <1>11, <2>1 DEF EnsureServerRunning, NbTypes
<1>12. ASSUME NEW t \in NbTabs, Find(t) PROVE NbTypes'
  <2>1. PICK n \in Nat : Stage(t, "push", n) /\ db' \in Nat /\ newest' \in Nat
    <3>1. Held(legacy) \in Nat /\ Held(file) \in Nat /\ legacy \in Nat /\ newest + 1 \in Nat /\ db \in Nat /\ newest \in Nat
      BY DEF Held, NbTypes
    <3>2. QED
      BY <1>9, <1>12, <3>1 DEF Find
  <2>2. call' \in [NbTabs -> NbCall]
    BY <1>8, <2>1
  <2>3. kept' \in Nat
    BY <1>12, <2>1 DEF Find, NbTypes
  <2>4. QED
    BY <1>12, <2>1, <2>2, <2>3 DEF Find, NbTypes
<1>13. ASSUME NEW t \in NbTabs, Push(t) PROVE NbTypes'
  <2>1. file' \in Nat /\ kept' \in Nat
    BY <1>9, <1>13 DEF Push, NbTypes
  <2>2. Held(file') \in Nat
    BY <2>1 DEF Held
  <2>3. nb' \in [NbTabs -> NbTab] /\ call' \in [NbTabs -> NbCall]
    BY <1>13, <2>2, NbCalls DEF Push, NbTypes, NbTab
  <2>4. QED
    BY <1>13, <2>1, <2>3 DEF Push, NbTypes
<1>14. ASSUME NEW t \in NbTabs, Returns(t) PROVE nb' \in [NbTabs -> NbTab] /\ call' \in [NbTabs -> NbCall]
  BY <1>14, NbCalls DEF Returns, NbTypes
<1>15. ASSUME NEW t \in NbTabs, Fetch(t) PROVE NbTypes'
  <2>1. PICK found \in Nat : Pulls(t, found)
    BY <1>15 DEF Fetch, Held, NbTypes
  <2>2. nb' \in [NbTabs -> NbTab] /\ call' \in [NbTabs -> NbCall]
    BY <1>8, <1>14, <2>1 DEF Pulls, NbTypes
  <2>3. kept' \in Nat /\ UNCHANGED <<db, file, legacy, newest, outages>>
    BY <2>1 DEF Pulls, NbTypes
  <2>4. QED
    BY <2>2, <2>3 DEF NbTypes
<1>16. ASSUME NEW t \in NbTabs, Merge(t) PROVE NbTypes'
  <2>1. call' \in [NbTabs -> NbCall]
    BY <1>8, <1>9, <1>16 DEF Merge
  <2>2. QED
    BY <1>9, <1>16, <2>1 DEF Merge, NbTypes
<1>17. ASSUME NEW t \in NbTabs, DeleteFile(t) PROVE NbTypes'
  BY <1>14, <1>17 DEF DeleteFile, NbTypes
<1>18. ASSUME NEW t \in NbTabs, Fails(t) PROVE NbTypes'
  <2>1. outages' \in Nat
    BY <1>18 DEF Fails, NbTypes
  <2>2. QED
    BY <1>14, <1>18, <2>1 DEF Fails, NbTypes
<1>19. QED
  BY <1>1, <1>3, <1>4, <1>5, <1>6, <1>7, <1>10, <1>11, <1>12, <1>13, <1>15, <1>16, <1>17, <1>18 DEF NbNext

(* What a tab knows that acts, while nothing is disturbed. *)
LEMMA NbActs ==
  ASSUME NbTypes, NbUndisturbed, NEW t \in NbTabs
  PROVE  /\ nb[t] \in NbTab /\ call[t] \in NbCall /\ nb \in [NbTabs -> NbTab] /\ call \in [NbTabs -> NbCall]
         /\ AtWork(nb[t], call[t]) =>
              /\ \A o \in NbTabs \ {t} : ~AtWork(nb[o], call[o])
              /\ Phase(nb[t], call[t])
         /\ Alone(t) => \A o \in NbTabs \ {t} : ~AtWork(nb[o], call[o])
         /\ Alone(t) /\ ~AtWork(nb[t], call[t]) => Rested
<1>1. nb[t] \in NbTab /\ call[t] \in NbCall /\ nb \in [NbTabs -> NbTab] /\ call \in [NbTabs -> NbCall]
  BY DEF NbTypes
<1>2. \A u \in NbTabs : Busy(u) <=> AtWork(nb[u], call[u])
  BY DEF Busy, AtWork
<1>3. Alone(t) => \A o \in NbTabs \ {t} : ~AtWork(nb[o], call[o])
  BY <1>2 DEF Alone
<1>4. Alone(t) /\ ~AtWork(nb[t], call[t]) => AtRest
  BY <1>2, <1>3 DEF AtRest
<1>5. QED
  BY <1>1, <1>3, <1>4 DEF NbUndisturbed

LEMMA NbGestures ==
  ASSUME NbTypes, ~disturbed, NbUndisturbed, ~disturbed', NEW t \in NbTabs,
         OpenNotebook(t) \/ SaveAndClose(t) \/ LoadPage(t) \/ Type(t) \/ Autosave(t)
  PROVE  NbUndisturbed'
<1>1. CASE OpenNotebook(t)
  <2>1. /\ call[t] = NoCall /\ nb[t].at = "view" /\ Alone(t)
        /\ call' = [call EXCEPT ![t] = [at |-> "read", for |-> "open", content |-> 0]]
        /\ nb' = [nb EXCEPT ![t].at = "opening"] /\ UNCHANGED <<db, file, server, outages, kept>>
    BY <1>1 DEF OpenNotebook, StartsCall, Sets
  <2>2. Rested /\ \A o \in NbTabs \ {t} : ~AtWork(nb[o], call[o])
    BY <2>1, NbActs DEF AtWork
  <2>3. /\ \A o \in NbTabs \ {t} : nb'[o] = nb[o] /\ call'[o] = call[o]
        /\ nb'[t].at = "opening" /\ call'[t].for = "open" /\ call'[t].at = "read"
    BY <2>1, NbActs DEF NbTab
  <2>4. Phase(nb[t], call[t])' /\ AtWork(nb'[t], call'[t])
    BY <2>1, <2>2, <2>3 DEF Phase, Opening, Rested, AtWork
  <2>5. QED
    BY <2>2, <2>3, <2>4, NbOneTab
<1>2. CASE SaveAndClose(t)
  <2>1. /\ call[t] = NoCall /\ nb[t].at = "editing" /\ Alone(t)
        /\ call' = [call EXCEPT ![t] = [at |-> "fetch", for |-> "close", content |-> 0]]
        /\ nb' = [nb EXCEPT ![t].at = "closing"] /\ UNCHANGED <<db, file, server, outages, kept>>
    BY <1>2 DEF SaveAndClose, StartsCall, Sets
  <2>2. FileKept /\ \A o \in NbTabs \ {t} : ~AtWork(nb[o], call[o])
    <3>1. AtWork(nb[t], call[t])
      BY <2>1 DEF AtWork
    <3>2. Phase(nb[t], call[t])
      BY <3>1, NbActs
    <3>3. FileKept
      BY <2>1, <3>2, NbCalls DEF Phase, Opening, ClosingEditor, Migrating, Editing
    <3>4. QED
      BY <2>1, <3>3, NbActs
  <2>3. /\ \A o \in NbTabs \ {t} : nb'[o] = nb[o] /\ call'[o] = call[o]
        /\ nb'[t].at = "closing" /\ call'[t].for = "close" /\ call'[t].at = "fetch"
    BY <2>1, NbActs DEF NbTab
  <2>4. Phase(nb[t], call[t])' /\ AtWork(nb'[t], call'[t])
    BY <2>1, <2>2, <2>3 DEF Phase, ClosingEditor, FileKept, AtWork
  <2>5. QED
    BY <2>2, <2>3, <2>4, NbOneTab
<1>3. CASE LoadPage(t)
  <2>1. /\ call[t] = NoCall /\ nb[t].at = "view" /\ Alone(t)
        /\ nb' = [nb EXCEPT ![t] = View]
        /\ call' = [call EXCEPT ![t] =
             IF db = 0 THEN [at |-> "fetch", for |-> "migrate", content |-> 0] ELSE NoCall]
        /\ UNCHANGED <<db, file, server, outages, kept>>
    BY <1>3 DEF LoadPage
  <2>2. Rested /\ \A o \in NbTabs \ {t} : ~AtWork(nb[o], call[o])
    BY <2>1, NbActs DEF AtWork
  <2>3. /\ \A o \in NbTabs \ {t} : nb'[o] = nb[o] /\ call'[o] = call[o]
        /\ nb'[t].at = "view" /\ db # 0 => call'[t] = NoCall
        /\ db = 0 => call'[t].for = "migrate" /\ call'[t].at = "fetch"
    BY <2>1, NbActs, NbCalls
  <2>4. nb'[t].at = "view"
    BY <2>1, NbActs, NbCalls
  <2>5. db = 0 => Phase(nb[t], call[t])'
    BY <2>1, <2>2, <2>3, <2>4 DEF Phase, Migrating, Rested
  <2>6. db # 0 => ~AtWork(nb'[t], call'[t])
    BY <2>3, <2>4 DEF AtWork
  <2>7. Rested'
    BY <2>1, <2>2 DEF Rested
  <2>8. QED
    BY <2>2, <2>3, <2>5, <2>6, <2>7, NbOneTab
<1>4. CASE Type(t)
  <2>1. /\ nb[t].at \in {"editing", "closing"} /\ nb' = [nb EXCEPT ![t].doc = newest + 1]
        /\ UNCHANGED <<db, file, server, outages, kept, call>>
    BY <1>4 DEF Type
  <2>2. AtWork(nb[t], call[t])
    BY <2>1 DEF AtWork
  <2>3. Phase(nb[t], call[t]) /\ \A o \in NbTabs \ {t} : ~AtWork(nb[o], call[o])
    BY <2>2, NbActs
  <2>4. /\ \A o \in NbTabs \ {t} : nb'[o] = nb[o] /\ call'[o] = call[o]
        /\ nb'[t].at = nb[t].at /\ call'[t] = call[t]
    BY <2>1, NbActs DEF NbTab
  <2>5. Phase(nb[t], call[t])'
    BY <2>1, <2>3, <2>4 DEF Phase, Opening, ClosingEditor, Migrating, Editing, Rested, FileKept
  <2>6. AtWork(nb'[t], call'[t])
    BY <2>1, <2>4 DEF AtWork
  <2>7. QED
    BY <2>3, <2>4, <2>5, <2>6, NbOneTab
<1>5. CASE Autosave(t)
  <2>1. /\ nb[t].at \in {"editing", "closing"} /\ nb[t].doc # 0 /\ server = "ready"
        /\ file' = nb[t].doc /\ kept' = nb[t].doc /\ call[t].at \notin {"merge", "delete"}
        /\ UNCHANGED <<db, server, outages, call, nb>>
    BY <1>5 DEF Autosave
  <2>2. AtWork(nb[t], call[t])
    BY <2>1 DEF AtWork
  <2>3. Phase(nb[t], call[t]) /\ \A o \in NbTabs \ {t} : ~AtWork(nb[o], call[o])
    BY <2>2, NbActs
  <2>4. FileKept'
    BY <2>1 DEF FileKept
  <2>5. Phase(nb[t], call[t])'
    <3>1. CASE ClosingEditor(nb[t], call[t])
      BY <2>1, <2>4, <3>1 DEF Phase, ClosingEditor
    <3>2. CASE Editing(nb[t], call[t])
      BY <2>1, <2>4, <3>2 DEF Phase, Editing
    <3>3. QED
      BY <2>1, <2>3, <3>1, <3>2 DEF Phase, Opening, Migrating
  <2>6. QED
    BY <2>1, <2>2, <2>3, <2>5, NbOneTab
<1>6. QED
  BY <1>1, <1>2, <1>3, <1>4, <1>5

(* The handlers. *)
LEMMA NbHandlers ==
  ASSUME NbTypes, ~disturbed, NbUndisturbed, ~disturbed', NEW t \in NbTabs,
         \/ ReadPage(t) \/ EnsureServerRunning(t) \/ Find(t) \/ Push(t)
         \/ Fetch(t) \/ Merge(t) \/ DeleteFile(t) \/ Fails(t)
  PROVE  NbUndisturbed'
<1>1. /\ call[t].at # "no" /\ nb[t] \in NbTab /\ call[t] \in NbCall
      /\ nb \in [NbTabs -> NbTab] /\ call \in [NbTabs -> NbCall]
  BY NbActs DEF ReadPage, EnsureServerRunning, Find, Push, Fetch, Merge, DeleteFile, Fails
<1>2. AtWork(nb[t], call[t])
  BY <1>1, NbCalls DEF AtWork
<1>3. Phase(nb[t], call[t]) /\ \A o \in NbTabs \ {t} : ~AtWork(nb[o], call[o])
  BY <1>2, NbActs
<1>4. db \in Nat /\ outages \in Nat /\ newest \in Nat /\ kept \in Nat /\ legacy \in Nat
  BY DEF NbTypes
<1>5. ASSUME NEW at \in {"spawn", "find", "push", "merge", "delete"}, NEW n \in Nat, Stage(t, at, n)
      PROVE  /\ \A o \in NbTabs \ {t} : call'[o] = call[o]
             /\ call'[t].at = at /\ call'[t].for = call[t].for /\ call'[t].content = n
  BY <1>1, <1>5 DEF Stage, NbCall
<1>6. ASSUME Returns(t)
      PROVE  /\ \A o \in NbTabs \ {t} : call'[o] = call[o] /\ nb'[o] = nb[o]
             /\ ~AtWork(nb'[t], call'[t])
  <2>1. nb'[t] = View /\ call'[t] = NoCall /\ \A o \in NbTabs \ {t} : call'[o] = call[o] /\ nb'[o] = nb[o]
    BY <1>1, <1>6 DEF Returns
  <2>2. QED
    BY <2>1, NbCalls DEF AtWork
<1>a. ASSUME call[t].at \in {"read", "spawn", "find", "push"}
      PROVE  Opening(nb[t], call[t])
  BY <1>3, <1>a DEF Phase, ClosingEditor, Migrating, Editing
<1>7. CASE ReadPage(t)
  <2>1. call[t].at = "read" /\ Stage(t, "spawn", db) /\ UNCHANGED <<db, file, server, nb, outages, kept>>
    BY <1>7 DEF ReadPage
  <2>2. /\ \A o \in NbTabs \ {t} : call'[o] = call[o]
        /\ call'[t].at = "spawn" /\ call'[t].for = call[t].for /\ call'[t].content = db
    BY <1>4, <1>5, <2>1
  <2>3. Phase(nb[t], call[t])'
    BY <1>a, <2>1, <2>2 DEF Phase, Opening, Rested
  <2>4. AtWork(nb'[t], call'[t])
    BY <2>2, NbCalls DEF AtWork
  <2>5. QED
    BY <1>3, <2>1, <2>2, <2>3, <2>4, NbOneTab
<1>8. CASE EnsureServerRunning(t)
  <2>1. /\ call[t].at = "spawn" /\ Stage(t, "find", call[t].content) /\ call[t].content \in Nat
        /\ UNCHANGED <<db, file, nb, outages, kept>>
    BY <1>1, <1>8 DEF EnsureServerRunning, NbCall
  <2>2. /\ \A o \in NbTabs \ {t} : call'[o] = call[o]
        /\ call'[t].at = "find" /\ call'[t].for = call[t].for /\ call'[t].content = call[t].content
    BY <1>5, <2>1
  <2>3. Phase(nb[t], call[t])'
    BY <1>a, <2>1, <2>2 DEF Phase, Opening, Rested
  <2>4. AtWork(nb'[t], call'[t])
    BY <2>2, NbCalls DEF AtWork
  <2>5. QED
    BY <1>3, <2>1, <2>2, <2>3, <2>4, NbOneTab
<1>9. CASE Find(t)
  <2>1. call[t].at = "find" /\ UNCHANGED <<file, server, nb, outages>>
    BY <1>9 DEF Find
  <2>2. /\ call[t].for = "open" /\ nb[t].at = "opening" /\ Rested /\ call[t].content = db
    BY <1>a, <2>1 DEF Opening
  <2>3. PICK n \in Nat : /\ Stage(t, "push", n) /\ n # 0 /\ (db' = db \/ (db = 0 /\ db' = n))
                         /\ kept' = IF db' = db THEN kept ELSE db'
    <3>1. Held(legacy) \in Nat /\ Held(file) \in Nat /\ newest + 1 \in Nat /\ newest + 1 # 0
      BY <1>4 DEF Held, NbTypes
    <3>2. QED
      BY <1>4, <1>9, <2>2, <3>1 DEF Find
  <2>4. /\ \A o \in NbTabs \ {t} : call'[o] = call[o]
        /\ call'[t].at = "push" /\ call'[t].for = call[t].for /\ call'[t].content = n
    BY <1>5, <2>3
  <2>5. Rested'
    BY <2>1, <2>2, <2>3 DEF Rested
  <2>6. Phase(nb[t], call[t])'
    BY <2>1, <2>2, <2>3, <2>4, <2>5 DEF Phase, Opening
  <2>7. AtWork(nb'[t], call'[t])
    BY <2>4, NbCalls DEF AtWork
  <2>8. QED
    BY <1>3, <2>1, <2>4, <2>6, <2>7, NbOneTab
<1>10. CASE Push(t)
  <2>1. /\ call[t].at = "push" /\ call' = [call EXCEPT ![t] = NoCall] /\ server = "ready" /\ server' = server
        /\ file' = call[t].content /\ kept' = call[t].content
        /\ nb' = [nb EXCEPT ![t].at = "editing", ![t].doc = Held(file')]
    BY <1>10 DEF Push
  <2>2. call[t].content # 0
    BY <1>a, <2>1 DEF Opening
  <2>3. /\ \A o \in NbTabs \ {t} : call'[o] = call[o] /\ nb'[o] = nb[o]
        /\ call'[t].at = "no" /\ call'[t].for = "no" /\ nb'[t].at = "editing"
    BY <1>1, <2>1, NbCalls DEF NbTab
  <2>4. Phase(nb[t], call[t])' /\ AtWork(nb'[t], call'[t])
    BY <2>1, <2>2, <2>3 DEF Phase, Editing, FileKept, AtWork
  <2>5. QED
    BY <1>3, <2>3, <2>4, NbOneTab
<1>11. CASE Fetch(t)
  <2>1. PICK found \in Nat : /\ call[t].at = "fetch" /\ Pulls(t, found)
                             /\ found = IF Held(file) # 0 THEN file ELSE Held(legacy)
    BY <1>4, <1>11 DEF Fetch, Held, NbTypes
  <2>2. /\ UNCHANGED <<db, file, server, outages>>
        /\ found = 0 => Returns(t)
        /\ found # 0 => Stage(t, "merge", found) /\ nb' = nb
        /\ kept' = IF call[t].for = "migrate" /\ found # 0 THEN found ELSE kept
        /\ call[t].for = "close" => found # 0
    BY <2>1 DEF Pulls
  <2>3. CASE ClosingEditor(nb[t], call[t])
    <3>1. call[t].for = "close" /\ nb[t].at = "closing" /\ FileKept /\ found = file /\ found # 0
      BY <2>1, <2>3 DEF ClosingEditor, FileKept, Held
    <3>2. /\ \A o \in NbTabs \ {t} : call'[o] = call[o]
          /\ call'[t].at = "merge" /\ call'[t].for = "close" /\ call'[t].content = found
      BY <1>5, <2>2, <3>1
    <3>3. Phase(nb[t], call[t])'
      BY <2>2, <3>1, <3>2 DEF Phase, ClosingEditor, FileKept
    <3>4. AtWork(nb'[t], call'[t])
      BY <3>2, NbCalls DEF AtWork
    <3>5. QED
      BY <1>3, <2>2, <3>1, <3>2, <3>3, <3>4, NbOneTab
  <2>4. CASE Migrating(nb[t], call[t])
    <3>1. call[t].for = "migrate" /\ nb[t].at = "view" /\ file = 0 /\ db = kept
      BY <2>1, <2>4 DEF Migrating
    <3>2. CASE found = 0
      <4>1. Rested'
        BY <2>2, <3>1, <3>2 DEF Rested
      <4>2. QED
        BY <1>3, <1>6, <2>2, <3>2, <4>1, NbOneTab
    <3>3. CASE found # 0
      <4>1. /\ \A o \in NbTabs \ {t} : call'[o] = call[o]
            /\ call'[t].at = "merge" /\ call'[t].for = "migrate" /\ call'[t].content = found
        BY <1>5, <2>2, <3>1, <3>3
      <4>2. Phase(nb[t], call[t])'
        BY <2>2, <3>1, <3>3, <4>1 DEF Phase, Migrating
      <4>3. AtWork(nb'[t], call'[t])
        BY <4>1, NbCalls DEF AtWork
      <4>4. QED
        BY <1>3, <2>2, <3>3, <4>1, <4>2, <4>3, NbOneTab
    <3>4. QED
      BY <3>2, <3>3
  <2>5. QED
    BY <1>3, <2>1, <2>3, <2>4 DEF Phase, Opening, Editing
<1>12. CASE Merge(t)
  <2>1. /\ call[t].at = "merge" /\ db' = call[t].content /\ Stage(t, "delete", call[t].content)
        /\ call[t].content \in Nat /\ UNCHANGED <<file, server, nb, outages, kept>>
    BY <1>1, <1>12 DEF Merge, NbCall
  <2>2. /\ \A o \in NbTabs \ {t} : call'[o] = call[o]
        /\ call'[t].at = "delete" /\ call'[t].for = call[t].for
    BY <1>5, <2>1
  <2>3. Phase(nb[t], call[t])'
    <3>1. CASE ClosingEditor(nb[t], call[t])
      BY <2>1, <2>2, <3>1 DEF Phase, ClosingEditor, FileKept
    <3>2. CASE Migrating(nb[t], call[t])
      BY <2>1, <2>2, <3>2 DEF Phase, Migrating
    <3>3. QED
      BY <1>3, <2>1, <3>1, <3>2 DEF Phase, Opening, Editing
  <2>4. AtWork(nb'[t], call'[t])
    BY <2>2, NbCalls DEF AtWork
  <2>5. QED
    BY <1>3, <2>1, <2>2, <2>3, <2>4, NbOneTab
<1>13. CASE DeleteFile(t)
  <2>1. /\ call[t].at = "delete" /\ Returns(t) /\ UNCHANGED <<db, kept, outages>>
        /\ file' = IF server = "ready" THEN 0 ELSE file
    BY <1>13 DEF DeleteFile
  <2>2. db = kept /\ (server = "ready" \/ file = 0)
    BY <1>3, <2>1 DEF Phase, Opening, ClosingEditor, Migrating, Editing
  <2>3. Rested'
    BY <2>1, <2>2 DEF Rested
  <2>4. QED
    BY <1>3, <1>6, <2>1, <2>3, NbOneTab
<1>14. CASE Fails(t)
  <2>1. /\ call[t].at \in {"spawn", "push", "delete"} /\ Returns(t) /\ outages' = outages + 1
        /\ UNCHANGED <<db, file, kept>>
    BY <1>14 DEF Fails
  <2>2. outages' # 0
    BY <1>4, <2>1
  <2>3. Rested \/ (db = kept /\ (db = 0 => file = 0))
    BY <1>3, <2>1 DEF Phase, Opening, ClosingEditor, Migrating, Editing
  <2>4. Rested'
    BY <2>1, <2>2, <2>3 DEF Rested
  <2>5. QED
    BY <1>3, <1>6, <2>1, <2>4, NbOneTab
<1>15. QED
  BY <1>7, <1>8, <1>9, <1>10, <1>11, <1>12, <1>13, <1>14

LEMMA NbInvHolds == NbSpec => []NbInv
<1>1. NbInit => NbInv
  <2> SUFFICES ASSUME NbInit PROVE NbInv
    OBVIOUS
  <2>1. NbTypes
    BY NbCalls DEF NbInit, NbTypes
  <2>2. \A t \in NbTabs : ~AtWork(nb[t], call[t])
    BY NbCalls DEF NbInit, AtWork
  <2>3. Rested
    BY DEF NbInit, Rested
  <2>4. QED
    BY <2>1, <2>2, <2>3 DEF NbInv, NbUndisturbed
<1>2. NbInv /\ [NbNext]_nbVars => NbInv'
  <2>1. ASSUME NbInv, NbNext PROVE NbInv'
    <3>1. NbTypes'
      BY <2>1, NbTypesKept DEF NbInv
    <3>2. ASSUME ~disturbed' PROVE ~disturbed /\ NbUndisturbed
      <4>1. ~disturbed
        BY <2>1, <3>2 DEF NbNext, Ready, OpenNotebook, SaveAndClose, StartsCall, LoadPage, Type, Autosave,
           ReadPage, EnsureServerRunning, Find, Push, Fetch, Pulls, Merge, DeleteFile, Fails
      <4>2. QED
        BY <2>1, <4>1 DEF NbInv
    <3>3. ASSUME ~disturbed' PROVE NbUndisturbed'
      <4>1. CASE Ready
        <5>1. UNCHANGED <<nb, call, db, file, outages, kept>> /\ server = "starting" /\ server' = "ready"
          BY <4>1 DEF Ready
        <5>2. \A t \in NbTabs : Phase(nb[t], call[t]) => Phase(nb[t], call[t])'
          BY <5>1 DEF Phase, Opening, ClosingEditor, Migrating, Editing, Rested, FileKept
        <5>3. QED
          BY <3>2, <3>3, <5>1, <5>2 DEF NbUndisturbed, AtRest, Busy, Rested
      <4>2. CASE ~Ready
        <5>1. PICK t \in NbTabs :
                \/ OpenNotebook(t) \/ SaveAndClose(t) \/ LoadPage(t) \/ Type(t) \/ Autosave(t)
                \/ ReadPage(t) \/ EnsureServerRunning(t) \/ Find(t) \/ Push(t)
                \/ Fetch(t) \/ Merge(t) \/ DeleteFile(t) \/ Fails(t)
          BY <2>1, <4>2 DEF NbNext
        <5>2. QED
          BY <2>1, <3>2, <3>3, <5>1, NbGestures, NbHandlers DEF NbInv
      <4>3. QED
        BY <4>1, <4>2
    <3>4. QED
      BY <3>1, <3>3 DEF NbInv
  <2>2. ASSUME NbInv, UNCHANGED nbVars PROVE NbInv'
    BY <2>2 DEF NbInv, nbVars, NbTypes, NbUndisturbed, Phase, Opening, ClosingEditor, Migrating, Editing,
       Rested, FileKept, AtRest, Busy
  <2>3. QED
    BY <2>1, <2>2
<1>3. QED
  BY <1>1, <1>2, PTL DEF NbSpec

THEOREM NotebooksArriveHolds == NbSpec => []NotebooksArrive
<1>1. NbInv => NotebooksArrive
  BY DEF NbInv, NbUndisturbed, Rested, NotebooksArrive, ContentArrives, NoCopyLeft
<1>2. QED
  BY <1>1, NbInvHolds, PTL
==============================================================================
