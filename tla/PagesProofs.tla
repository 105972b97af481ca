---------------------------- MODULE PagesProofs ----------------------------
(***************************************************************************)
(* Proofs about pages, for any number of tabs, pages, widgets, channels and *)
(* requests: that the tree of PageTree is one, and what the sidebar         *)
(* promises of its pins and of itself at rest; what a dashboard that is     *)
(* edited in several tabs keeps and shows (PageEditor); and what a live     *)
(* view and its light tell (LiveView).                                      *)
(***************************************************************************)
EXTENDS PageTree, PageEditor, LiveView, SequenceTheorems, FiniteSetTheorems,
        WellFoundedInduction, TLAPS

Texts == Slugs \union {NoSlug}
PageRow == [folder : BOOLEAN, parent : Nat, slug : Texts, app : Texts]
Shows == UNION {[S -> [folder : BOOLEAN, parent : Nat]] : S \in SUBSET Nat}
Load == [rows : Shows, is : BOOLEAN, at : Nat]
Sidebar == [rows : Shows, loads : Seq(Load)]
Fields == {"op", "id", "to", "at", "list"}

(* The route that moves a page checks nothing of its target: that the pages  *)
(* are a forest of depth one rests on what the sidebar offers.  What a tab   *)
(* shows may be old, but an id is not used twice and a row is a folder for   *)
(* ever or never, so that of a row that is still there a tab knows which.    *)
Knows(rows, m, f) ==
  \A p \in DOMAIN rows : p \in 1 .. m /\ (p \in DOMAIN f => rows[p].folder = f[p].folder)

RowsInv ==
  /\ made \in Nat /\ version \in Nat /\ Rows \subseteq 1 .. made /\ page \in [Rows -> PageRow]
  /\ \A p \in Rows : page[p].folder => page[p].parent = NoFolder
  /\ Reachable

SideInv ==
  /\ side \in [SideTabs -> Sidebar]
  /\ \A t \in SideTabs :
       /\ Knows(side[t].rows, made, page)
       /\ \A i \in DOMAIN side[t].loads : Knows(side[t].loads[i].rows, made, page)

(* A move that is under way takes a page, not a folder, to a folder. *)
Fits(r, m, f) ==
  r.op = "move" =>
    /\ r.id \in 1 .. m /\ r.to \in 1 .. m
    /\ r.id \in DOMAIN f => ~f[r.id].folder
    /\ r.to \in DOMAIN f => f[r.to].folder

SentInv ==
  /\ sent = [t \in SideTabs |-> sent[t]]
  /\ \A t \in SideTabs : DOMAIN sent[t] = Fields /\ Fits(sent[t], made, page)

TreeInv == RowsInv /\ SideInv /\ SentInv

-----------------------------------------------------------------------------
(* Sequences and records.                                                    *)

LEMMA Blank == <<>> \in Shows /\ DOMAIN <<>> = {}
<1>1. <<>> \in [{} -> [folder : BOOLEAN, parent : Nat]]
  OBVIOUS
<1>2. QED
  BY <1>1 DEF Shows

LEMMA Remaining ==
  ASSUME NEW s \in Seq(Load), NEW i \in DOMAIN s
  PROVE  /\ RemoveAt(s, i) \in Seq(Load)
         /\ \A j \in DOMAIN RemoveAt(s, i) : \E k \in DOMAIN s : RemoveAt(s, i)[j] = s[k]
<1> DEFINE n == Len(s)
           a == SubSeq(s, 1, i - 1)
           b == SubSeq(s, i + 1, n)
<1>1. n \in Nat /\ i \in 1 .. n /\ DOMAIN s = 1 .. n
  OBVIOUS
<1>2. \A j \in 1 .. n : s[j] \in Load
  OBVIOUS
<1>3. /\ a \in Seq(Load) /\ Len(a) = i - 1
      /\ \A j \in 1 .. i - 1 : a[j] = s[j]
  <2>1. \A j \in 1 .. i - 1 : s[j] \in Load
    BY <1>1, <1>2
  <2>2. 1 \in Int /\ i - 1 \in Int
    BY <1>1
  <2> HIDE DEF n
  <2>3. /\ a \in Seq(Load) /\ Len(a) = IF 1 <= i - 1 THEN (i - 1) - 1 + 1 ELSE 0
        /\ \A j \in 1 .. (i - 1) - 1 + 1 : a[j] = s[1 + j - 1]
    BY <2>1, <2>2, SubSeqProperties
  <2>4. QED
    BY <1>1, <2>3
<1>4. /\ b \in Seq(Load) /\ Len(b) = n - i
      /\ \A j \in 1 .. n - i : b[j] = s[i + j]
  <2>1. \A j \in i + 1 .. n : s[j] \in Load
    BY <1>1, <1>2
  <2>2. i + 1 \in Int /\ n \in Int
    BY <1>1
  <2> HIDE DEF n
  <2>3. /\ b \in Seq(Load) /\ Len(b) = IF i + 1 <= n THEN n - (i + 1) + 1 ELSE 0
        /\ \A j \in 1 .. n - (i + 1) + 1 : b[j] = s[i + 1 + j - 1]
    BY <2>1, <2>2, SubSeqProperties
  <2>4. QED
    BY <1>1, <2>3
<1>5. RemoveAt(s, i) = a \o b
  BY DEF RemoveAt
<1> HIDE DEF a, b, n
<1>6. /\ a \o b \in Seq(Load) /\ Len(a \o b) = (i - 1) + (n - i)
      /\ \A j \in 1 .. (i - 1) + (n - i) : (a \o b)[j] = IF j <= i - 1 THEN a[j] ELSE b[j - (i - 1)]
  <2>1. Len(a) + Len(b) = (i - 1) + (n - i)
    BY <1>3, <1>4
  <2>2. /\ a \o b \in Seq(Load) /\ Len(a \o b) = Len(a) + Len(b)
        /\ \A j \in 1 .. Len(a) + Len(b) :
             (a \o b)[j] = IF j <= Len(a) THEN a[j] ELSE b[j - Len(a)]
    BY <1>3, <1>4, ConcatProperties
  <2>3. QED
    BY <1>3, <2>1, <2>2
<1>7. ASSUME NEW j \in DOMAIN (a \o b) PROVE \E k \in DOMAIN s : (a \o b)[j] = s[k]
  <2>1. j \in 1 .. (i - 1) + (n - i)
    BY <1>6
  <2>2. CASE j <= i - 1
    BY <1>1, <1>3, <1>6, <2>1, <2>2
  <2>3. CASE ~(j <= i - 1)
    <3>1. j - (i - 1) \in 1 .. n - i /\ i + (j - (i - 1)) \in 1 .. n
      BY <1>1, <2>1, <2>3
    <3>2. (a \o b)[j] = s[i + (j - (i - 1))]
      BY <1>4, <1>6, <2>1, <2>3, <3>1
    <3>3. QED
      BY <1>1, <3>1, <3>2
  <2>4. QED
    BY <2>2, <2>3
<1>8. QED
  BY <1>5, <1>6, <1>7

LEMMA Appending ==
  ASSUME NEW s \in Seq(Load), NEW d \in Load
  PROVE  /\ Append(s, d) \in Seq(Load)
         /\ \A j \in DOMAIN Append(s, d) :
              Append(s, d)[j] = d \/ (j \in DOMAIN s /\ Append(s, d)[j] = s[j])
<1> DEFINE a == Append(s, d)
<1>1. /\ a \in Seq(Load) /\ Len(a) = Len(s) + 1 /\ a[Len(s) + 1] = d
      /\ \A j \in 1 .. Len(s) : a[j] = s[j]
  BY AppendProperties
<1>2. Len(s) \in Nat /\ DOMAIN s = 1 .. Len(s) /\ DOMAIN a = 1 .. Len(s) + 1
  BY <1>1
<1> HIDE DEF a
<1>3. ASSUME NEW j \in DOMAIN a PROVE a[j] = d \/ (j \in DOMAIN s /\ a[j] = s[j])
  <2>1. CASE j = Len(s) + 1
    BY <1>1, <2>1
  <2>2. CASE j # Len(s) + 1
    <3>1. ASSUME NEW n \in Nat, NEW k \in 1 .. n + 1, k # n + 1 PROVE k \in 1 .. n
      BY <3>1
    <3>2. j \in 1 .. Len(s) + 1
      BY <1>2
    <3>3. j \in 1 .. Len(s)
      BY <1>2, <2>2, <3>1, <3>2
    <3>4. QED
      BY <1>1, <1>2, <3>3
  <2>3. QED
    BY <2>1, <2>2
<1>4. QED
  BY <1>1, <1>3 DEF a

-----------------------------------------------------------------------------
LEMMA TreeStarts == TreeInit => TreeInv
<1> SUFFICES ASSUME TreeInit PROVE TreeInv
  OBVIOUS
<1>1. Rows = {}
  BY Blank DEF TreeInit, Rows
<1>2. RowsInv
  <2>1. page \in [Rows -> PageRow]
    BY <1>1 DEF TreeInit
  <2>2. QED
    BY <1>1, <2>1 DEF TreeInit, RowsInv, Reachable
<1>3. SideInv
  <2>1. [rows |-> <<>>, loads |-> <<>>] \in Sidebar
    BY Blank DEF Sidebar
  <2>2. \A t \in SideTabs : side[t].rows = <<>> /\ side[t].loads = <<>>
    BY DEF TreeInit
  <2>3. QED
    BY <2>1, <2>2, Blank DEF TreeInit, SideInv, Knows
<1>4. SentInv
  <2>1. DOMAIN Idle = Fields
    BY DEF Idle, Fields
  <2>2. Idle.op # "move"
    BY DEF Idle
  <2>3. QED
    BY <2>1, <2>2 DEF TreeInit, SentInv, Fits
<1>5. QED
  BY <1>2, <1>3, <1>4 DEF TreeInv

(* Rows may go, and rows may come under the next id: what tabs know and what *)
(* they have asked for stays right.                                          *)
Grows ==
  /\ made' \in {made, made + 1}
  /\ \A p \in Rows' : (p \in Rows /\ page'[p].folder = page[p].folder) \/ p = made + 1

LEMMA KnowsStays ==
  ASSUME RowsInv, Grows, NEW rows, Knows(rows, made, page)
  PROVE  Knows(rows, made', page')
BY DEF RowsInv, Grows, Knows, Rows

LEMMA FitsStays ==
  ASSUME RowsInv, Grows, NEW r, Fits(r, made, page)
  PROVE  Fits(r, made', page')
BY DEF RowsInv, Grows, Fits, Rows

LEMMA SideStays ==
  ASSUME RowsInv, SideInv, Grows, UNCHANGED side
  PROVE  SideInv'
BY KnowsStays DEF SideInv

(* A tab's sidebar changes to one that knows the rows. *)
LEMMA Sees ==
  ASSUME RowsInv, SideInv, Grows, NEW t \in SideTabs, NEW d \in Sidebar,
         side' = [side EXCEPT ![t] = d], Knows(d.rows, made', page'),
         \A i \in DOMAIN d.loads : Knows(d.loads[i].rows, made', page')
  PROVE  SideInv'
<1>1. side' \in [SideTabs -> Sidebar]
  BY DEF SideInv
<1>2. ASSUME NEW u \in SideTabs
      PROVE  /\ Knows(side'[u].rows, made', page')
             /\ \A i \in DOMAIN side'[u].loads : Knows(side'[u].loads[i].rows, made', page')
  <2>1. CASE u = t
    BY <2>1 DEF SideInv
  <2>2. CASE u # t
    BY <2>2, KnowsStays DEF SideInv
  <2>3. QED
    BY <2>1, <2>2
<1>3. QED
  BY <1>1, <1>2 DEF SideInv

(* The refresh after an action. *)
LEMMA LoadingSees ==
  ASSUME RowsInv, SideInv, Grows, version' \in Nat, NEW t \in SideTabs, Loading(t)
  PROVE  SideInv'
<1> DEFINE d == [Unanswered EXCEPT !.at = version']
           l == side[t].loads
           e == [side[t] EXCEPT !.loads = Append(l, d)]
<1>1. d \in Load /\ d.rows = <<>>
  BY Blank DEF Unanswered, Load
<1>2. side' = [side EXCEPT ![t] = e]
  BY DEF Loading, SideInv
<1>3. side[t] \in Sidebar /\ l \in Seq(Load)
  BY DEF SideInv, Sidebar
<1> HIDE DEF d
<1>4. /\ Append(l, d) \in Seq(Load)
      /\ \A j \in DOMAIN Append(l, d) :
           Append(l, d)[j] = d \/ (j \in DOMAIN l /\ Append(l, d)[j] = l[j])
  BY <1>1, <1>3, Appending
<1>5. e \in Sidebar /\ e.rows = side[t].rows /\ e.loads = Append(l, d)
  BY <1>3, <1>4 DEF Sidebar
<1>6. Knows(<<>>, made', page')
  BY Blank DEF Knows
<1>7. Knows(side[t].rows, made', page') /\ \A i \in DOMAIN l : Knows(l[i].rows, made', page')
  BY KnowsStays DEF SideInv
<1> HIDE DEF e, l
<1>8. QED
  BY <1>1, <1>2, <1>4, <1>5, <1>6, <1>7, Sees

(* A tab has another request under way, or none. *)
LEMMA Asked ==
  ASSUME RowsInv, SentInv, Grows, NEW t \in SideTabs, NEW r, DOMAIN r = Fields,
         sent' = [sent EXCEPT ![t] = r], Fits(r, made', page')
  PROVE  SentInv'
<1>1. sent' = [u \in SideTabs |-> sent'[u]]
  BY DEF SentInv
<1>2. ASSUME NEW u \in SideTabs
      PROVE  DOMAIN sent'[u] = Fields /\ Fits(sent'[u], made', page')
  <2>1. CASE u = t
    BY <2>1 DEF SentInv
  <2>2. CASE u # t
    BY <2>2, FitsStays DEF SentInv
  <2>3. QED
    BY <2>1, <2>2
<1>3. QED
  BY <1>1, <1>2 DEF SentInv

LEMMA AnsweredKeeps ==
  ASSUME TreeInv, Grows, version' \in Nat, NEW t \in SideTabs, Answered(t)
  PROVE  SideInv' /\ SentInv'
<1>1. DOMAIN Idle = Fields /\ Fits(Idle, made', page')
  BY DEF Idle, Fields, Fits
<1>2. SentInv'
  BY <1>1, Asked DEF TreeInv, Answered
<1>3. SideInv'
  BY SideStays, LoadingSees DEF TreeInv, Answered
<1>4. QED
  BY <1>2, <1>3

LEMMA GoesKeeps ==
  ASSUME TreeInv, Grows, NEW t \in SideTabs, NEW at, Goes(t, at), sent[t].op # "move"
  PROVE  SideInv' /\ SentInv'
<1> DEFINE r == [sent[t] EXCEPT !.at = at]
<1>1. DOMAIN r = Fields /\ r.op # "move"
  BY DEF TreeInv, SentInv, Fields
<1>2. sent' = [sent EXCEPT ![t] = r]
  BY DEF Goes, TreeInv, SentInv
<1>3. Fits(r, made', page')
  BY <1>1 DEF Fits
<1> HIDE DEF r
<1>4. SentInv'
  BY <1>1, <1>2, <1>3, Asked DEF TreeInv
<1>5. QED
  BY <1>4, SideStays DEF TreeInv, Goes

-----------------------------------------------------------------------------
(* What the handlers do to the rows.                                         *)

LEMMA RowsStay ==
  ASSUME RowsInv, UNCHANGED <<page, made>>, version' \in Nat
  PROVE  RowsInv' /\ Grows
BY DEF RowsInv, Grows, Rows, Reachable

LEMMA Adding ==
  ASSUME RowsInv, NEW new \in PageRow, new.parent = NoFolder, made' = made + 1, version' \in Nat,
         page' = [p \in Rows \union {made + 1} |-> IF p \in Rows THEN page[p] ELSE new]
  PROVE  RowsInv' /\ Grows
<1>1. made \in Nat /\ made + 1 \notin Rows /\ Rows \subseteq 1 .. made
  BY DEF RowsInv
<1>2. Rows' = Rows \union {made + 1} /\ page'[made + 1] = new /\ \A p \in Rows : page'[p] = page[p]
  BY <1>1 DEF Rows
<1>3. Rows' \subseteq 1 .. made'
  BY <1>1, <1>2
<1>4. page' \in [Rows' -> PageRow]
  <2>1. \A p \in Rows' : page'[p] \in PageRow
    BY <1>2 DEF RowsInv
  <2>2. QED
    BY <1>2, <2>1
<1>5. \A p \in Rows' : page'[p].folder => page'[p].parent = NoFolder
  BY <1>2 DEF RowsInv
<1>6. Reachable'
  BY <1>2 DEF RowsInv, Reachable
<1>7. QED
  BY <1>1, <1>2, <1>3, <1>4, <1>5, <1>6 DEF RowsInv, Grows

(* Taking what is in x to the root, and x away or not. *)
LEMMA Freeing ==
  ASSUME RowsInv, NEW x, NEW S, S \in {Rows, Rows \ {x}}, UNCHANGED made, version' \in Nat,
         page' = [p \in S |-> IF page[p].parent = x THEN [page[p] EXCEPT !.parent = NoFolder]
                               ELSE page[p]]
  PROVE  RowsInv' /\ Grows
<1>1. Rows' = S /\ S \subseteq Rows
  BY DEF Rows
<1>2. ASSUME NEW p \in S
      PROVE  /\ page'[p] \in PageRow /\ page'[p].folder = page[p].folder
             /\ page'[p].parent = IF page[p].parent = x THEN NoFolder ELSE page[p].parent
  <2>1. page[p] \in PageRow
    BY <1>1 DEF RowsInv
  <2>2. QED
    BY <2>1 DEF PageRow, NoFolder
<1>3. page' \in [Rows' -> PageRow]
  BY <1>1, <1>2
<1>4. \A p \in Rows' : page'[p].folder => page'[p].parent = NoFolder
  BY <1>1, <1>2 DEF RowsInv
<1>5. Reachable'
  <2> SUFFICES ASSUME NEW p \in S, page'[p].parent # NoFolder
               PROVE  LET f == page'[p].parent IN
                        f \in S /\ page'[f].folder /\ page'[f].parent = NoFolder
    BY <1>1 DEF Reachable
  <2>1. page[p].parent # x /\ page'[p].parent = page[p].parent
    BY <1>2
  <2>2. page[p].parent \in Rows /\ page[page[p].parent].folder
        /\ page[page[p].parent].parent = NoFolder
    BY <1>1, <2>1 DEF RowsInv, Reachable
  <2>3. page[p].parent \in S
    BY <2>1, <2>2
  <2>4. QED
    BY <1>2, <2>1, <2>2, <2>3
<1>6. QED
  BY <1>1, <1>2, <1>3, <1>4, <1>5 DEF RowsInv, Grows

LEMMA Moving ==
  ASSUME RowsInv, NEW x \in Rows, NEW y \in Rows, ~page[x].folder, page[y].folder,
         UNCHANGED made, version' \in Nat, page' = [page EXCEPT ![x].parent = y]
  PROVE  RowsInv' /\ Grows
<1>1. page[x] \in PageRow /\ y \in Nat /\ Rows' = Rows
  BY DEF RowsInv, Rows
<1>2. page'[x] = [page[x] EXCEPT !.parent = y] /\ \A p \in Rows : p # x => page'[p] = page[p]
  BY DEF RowsInv
<1>3. page'[x] \in PageRow /\ page'[x].folder = page[x].folder /\ page'[x].parent = y
  BY <1>1, <1>2 DEF PageRow
<1>4. page' \in [Rows' -> PageRow]
  BY <1>1, <1>2, <1>3 DEF RowsInv
<1>5. \A p \in Rows' : page'[p].folder => page'[p].parent = NoFolder
  BY <1>1, <1>2, <1>3 DEF RowsInv
<1>6. Reachable'
  <2> SUFFICES ASSUME NEW p \in Rows, page'[p].parent # NoFolder
               PROVE  LET f == page'[p].parent IN
                        f \in Rows /\ page'[f].folder /\ page'[f].parent = NoFolder
    BY <1>1 DEF Reachable
  <2>1. CASE p = x
    BY <1>2, <1>3, <2>1 DEF RowsInv
  <2>2. CASE p # x
    <3>1. page[p].parent \in Rows /\ page[page[p].parent].folder
          /\ page[page[p].parent].parent = NoFolder
      BY <1>2, <2>2 DEF RowsInv, Reachable
    <3>2. QED
      BY <1>2, <2>2, <3>1
  <2>3. QED
    BY <2>1, <2>2
<1>7. QED
  BY <1>1, <1>2, <1>3, <1>4, <1>5, <1>6 DEF RowsInv, Grows

LEMMA Publishing ==
  ASSUME RowsInv, NEW x \in Rows, UNCHANGED made, version' \in Nat,
         page' = [page EXCEPT ![x].app = page[x].slug]
  PROVE  RowsInv' /\ Grows
<1>1. page[x] \in PageRow /\ Rows' = Rows
  BY DEF RowsInv, Rows
<1>2. page'[x] = [page[x] EXCEPT !.app = page[x].slug] /\ \A p \in Rows : p # x => page'[p] = page[p]
  BY DEF RowsInv
<1>3. page'[x] \in PageRow /\ page'[x].folder = page[x].folder /\ page'[x].parent = page[x].parent
  BY <1>1, <1>2 DEF PageRow
<1>4. page' \in [Rows' -> PageRow]
  BY <1>1, <1>2, <1>3 DEF RowsInv
<1>5. \A p \in Rows : page'[p].folder = page[p].folder /\ page'[p].parent = page[p].parent
  BY <1>2, <1>3
<1>6. QED
  BY <1>1, <1>4, <1>5 DEF RowsInv, Grows, Reachable

-----------------------------------------------------------------------------
(* The steps.                                                                *)

(* A request that is not a move, or one of a page on to a folder. *)
LEMMA Asking ==
  ASSUME TreeInv, NEW t \in SideTabs, NEW op, NEW id, NEW to, Asks(t, op, id, to),
         op = "move" => /\ id \in Shown(t) /\ to \in Shown(t)
                        /\ ~IsFolder(t, id) /\ IsFolder(t, to)
  PROVE  TreeInv'
<1> DEFINE r == [Idle EXCEPT !.op = op, !.id = id, !.to = to]
<1>1. UNCHANGED <<page, made, version, side>> /\ sent' = [sent EXCEPT ![t] = r]
  BY DEF Asks
<1>2. RowsInv' /\ Grows
  BY <1>1, RowsStay DEF TreeInv, RowsInv
<1>3. DOMAIN r = Fields /\ r.op = op /\ r.id = id /\ r.to = to
  BY DEF Idle, Fields
<1> HIDE DEF r
<1>4. Fits(r, made, page)
  BY <1>3 DEF TreeInv, SideInv, Knows, Fits, Shown, IsFolder
<1>5. Fits(r, made', page')
  BY <1>1, <1>4
<1>6. SentInv'
  BY <1>1, <1>2, <1>3, <1>5, Asked DEF TreeInv
<1>7. SideInv'
  BY <1>1, <1>2, SideStays DEF TreeInv
<1>8. QED
  BY <1>2, <1>6, <1>7 DEF TreeInv

LEMMA Requests ==
  ASSUME TreeInv, NEW t \in SideTabs,
         \/ CreatePage(t) \/ Drop(t) \/ PinPage(t) \/ Clone(t)
         \/ DeletePage(t) \/ Publish(t) \/ Unpin(t)
  PROVE  TreeInv'
<1>1. CASE CreatePage(t)
  BY <1>1, Asking DEF CreatePage
<1>2. CASE Drop(t)
  BY <1>2, Asking DEF Drop
<1>3. CASE PinPage(t)
  BY <1>3, Asking DEF PinPage
<1>4. CASE Clone(t)
  BY <1>4, Asking DEF Clone
<1>5. CASE DeletePage(t)
  BY <1>5, Asking DEF DeletePage
<1>6. CASE Publish(t)
  BY <1>6, Asking DEF Publish
<1>7. CASE Unpin(t)
  BY <1>7, Asking DEF Unpin
<1>8. QED
  BY <1>1, <1>2, <1>3, <1>4, <1>5, <1>6, <1>7

(* Refreshes. *)
LEMMA Refreshes ==
  ASSUME TreeInv, NEW t \in SideTabs, Answer(t) \/ SetState(t) \/ Reload(t)
  PROVE  TreeInv'
<1>1. UNCHANGED <<page, made, version, sent>>
  BY DEF Answer, SetState, Reload
<1>2. RowsInv' /\ Grows /\ page' = page /\ made' = made
  BY <1>1, RowsStay DEF TreeInv, RowsInv
<1>3. SentInv'
  BY <1>1 DEF TreeInv, SentInv
<1> DEFINE l == side[t].loads
<1>4. side[t] \in Sidebar /\ l \in Seq(Load) /\ side[t].rows \in Shows
  BY DEF TreeInv, SideInv, Sidebar
<1>5. Knows(side[t].rows, made', page') /\ \A i \in DOMAIN l : Knows(l[i].rows, made', page')
  BY <1>2 DEF TreeInv, SideInv
<1> HIDE DEF l
<1>6. CASE Answer(t)
  <2> DEFINE R == [p \in Rows |-> [folder |-> page[p].folder, parent |-> page[p].parent]]
  <2>1. R \in Shows
    <3>1. R \in [Rows -> [folder : BOOLEAN, parent : Nat]]
      BY DEF TreeInv, RowsInv, PageRow
    <3>2. Rows \in SUBSET Nat
      BY DEF TreeInv, RowsInv
    <3> HIDE DEF R
    <3>3. QED
      BY <3>1, <3>2 DEF Shows
  <2>2. Knows(R, made', page')
    BY <1>2 DEF TreeInv, RowsInv, Knows, Rows
  <2> HIDE DEF R
  <2>3. PICK i \in DOMAIN l :
          side' = [side EXCEPT ![t].loads[i].is = TRUE, ![t].loads[i].rows = R]
    BY <1>6 DEF Answer, l, R
  <2> DEFINE a == [l[i] EXCEPT !.is = TRUE, !.rows = R]
             m == [l EXCEPT ![i] = a]
             e == [side[t] EXCEPT !.loads = m]
  <2>4. l[i] \in Load
    BY <1>4
  <2>5. a \in Load /\ a.rows = R
    BY <2>1, <2>4 DEF Load
  <2>6. side' = [side EXCEPT ![t] = e]
    BY <1>4, <2>3, <2>4 DEF TreeInv, SideInv, Sidebar, Load, l
  <2> HIDE DEF a
  <2>7. m \in Seq(Load) /\ DOMAIN m = DOMAIN l /\ \A j \in DOMAIN m : m[j] = IF j = i THEN a ELSE l[j]
    BY <1>4, <2>5
  <2> HIDE DEF m
  <2>8. e \in Sidebar /\ e.rows = side[t].rows /\ e.loads = m
    BY <1>4, <2>7 DEF Sidebar
  <2> HIDE DEF e
  <2>9. SideInv'
    BY <1>2, <1>5, <2>2, <2>5, <2>6, <2>7, <2>8, Sees DEF TreeInv
  <2>10. QED
    BY <1>2, <1>3, <2>9 DEF TreeInv
<1>7. CASE SetState(t)
  <2>1. PICK i \in DOMAIN l :
          side' = [side EXCEPT ![t] = [rows |-> l[i].rows, loads |-> RemoveAt(l, i)]]
    BY <1>7 DEF SetState, l, TreeInv, SideInv
  <2> DEFINE m == RemoveAt(l, i)
             e == [rows |-> l[i].rows, loads |-> m]
  <2>2. m \in Seq(Load) /\ \A j \in DOMAIN m : \E k \in DOMAIN l : m[j] = l[k]
    BY <1>4, Remaining
  <2>3. l[i] \in Load
    BY <1>4
  <2> HIDE DEF m
  <2>4. e \in Sidebar /\ e.rows = l[i].rows /\ e.loads = m
    BY <2>2, <2>3 DEF Sidebar, Load
  <2>5. side' = [side EXCEPT ![t] = e]
    BY <2>1 DEF m
  <2> HIDE DEF e
  <2>6. SideInv'
    BY <1>2, <1>5, <2>2, <2>4, <2>5, Sees DEF TreeInv
  <2>7. QED
    BY <1>2, <1>3, <2>6 DEF TreeInv
<1>8. CASE Reload(t)
  <2> DEFINE d == [Unanswered EXCEPT !.at = version]
             e == [rows |-> <<>>, loads |-> <<d>>]
  <2>1. d \in Load /\ d.rows = <<>>
    BY Blank DEF Unanswered, Load, TreeInv, RowsInv
  <2>2. side' = [side EXCEPT ![t] = e]
    BY <1>8 DEF Reload
  <2> HIDE DEF d
  <2>3. e \in Sidebar /\ e.rows = <<>> /\ e.loads = <<d>>
    BY <2>1, Blank DEF Sidebar
  <2> HIDE DEF e
  <2>4. Knows(<<>>, made', page')
    BY Blank DEF Knows
  <2>5. \A i \in DOMAIN e.loads : e.loads[i] = d
    BY <2>3
  <2>6. SideInv'
    BY <1>2, <2>1, <2>2, <2>3, <2>4, <2>5, Sees DEF TreeInv
  <2>7. QED
    BY <1>2, <1>3, <2>6 DEF TreeInv
<1>9. QED
  BY <1>6, <1>7, <1>8

(* Statements of the handlers. *)
LEMMA Handlers ==
  ASSUME TreeInv, NEW t \in SideTabs,
         \/ Insert(t) \/ InsertClone(t) \/ Move(t) \/ ReadPins(t) \/ WritePins(t)
         \/ Upsert(t) \/ SetPublished(t) \/ DropApp(t) \/ FreeChildren(t) \/ DeleteRow(t)
  PROVE  TreeInv'
<1>1. version \in Nat /\ RowsInv /\ SideInv /\ SentInv
  BY DEF TreeInv, RowsInv
<1>2. ASSUME RowsInv', Grows, Answered(t) PROVE TreeInv'
  BY <1>2, AnsweredKeeps DEF TreeInv, RowsInv
<1>3. ASSUME RowsInv', Grows, NEW at, Goes(t, at), sent[t].op # "move" PROVE TreeInv'
  BY <1>3, GoesKeeps DEF TreeInv
<1>4. Changed(t) => version' \in Nat
  BY <1>1 DEF Changed
<1>5. CASE Insert(t)
  <2>1. PICK s \in Texts :
          page' = [p \in Rows \union {made + 1} |-> IF p \in Rows THEN page[p]
                     ELSE [folder |-> sent[t].op = "folder", parent |-> NoFolder,
                           slug |-> s, app |-> NoSlug]]
    BY <1>5 DEF Insert, Texts
  <2> DEFINE new == [folder |-> sent[t].op = "folder", parent |-> NoFolder, slug |-> s, app |-> NoSlug]
  <2>2. new \in PageRow /\ new.parent = NoFolder
    BY DEF PageRow, NoFolder, Texts
  <2> HIDE DEF new
  <2>3. page' = [p \in Rows \union {made + 1} |-> IF p \in Rows THEN page[p] ELSE new]
    BY <2>1 DEF new
  <2>4. made' = made + 1 /\ Changed(t) /\ Answered(t)
    BY <1>5 DEF Insert
  <2>5. QED
    BY <1>1, <1>2, <1>4, <2>2, <2>3, <2>4, Adding
<1>6. CASE InsertClone(t)
  <2>1. CASE sent[t].id \in Rows /\ made < MaxPages
    <3> DEFINE new == [folder |-> FALSE, parent |-> NoFolder, slug |-> NoSlug, app |-> NoSlug]
    <3>1. new \in PageRow /\ new.parent = NoFolder
      BY DEF PageRow, NoFolder, Texts
    <3>2. made' = made + 1 /\ Changed(t) /\ Answered(t)
          /\ page' = [p \in Rows \union {made + 1} |-> IF p \in Rows THEN page[p] ELSE new]
      BY <1>6, <2>1 DEF InsertClone
    <3> HIDE DEF new
    <3>3. QED
      BY <1>1, <1>2, <1>4, <3>1, <3>2, Adding
  <2>2. CASE ~(sent[t].id \in Rows /\ made < MaxPages)
    <3>1. UNCHANGED <<page, made, version, side>> /\ sent' = [sent EXCEPT ![t] = Idle]
      BY <1>6, <2>2 DEF InsertClone
    <3>2. RowsInv' /\ Grows
      BY <1>1, <3>1, RowsStay
    <3>3. DOMAIN Idle = Fields /\ Fits(Idle, made', page')
      BY DEF Idle, Fields, Fits
    <3>4. SentInv' /\ SideInv'
      BY <1>1, <3>1, <3>2, <3>3, Asked, SideStays
    <3>5. QED
      BY <3>2, <3>4 DEF TreeInv
  <2>3. QED
    BY <2>1, <2>2
<1>7. CASE Move(t)
  <2>1. UNCHANGED made /\ Answered(t) /\ sent[t].op = "move"
    BY <1>7 DEF Move, Doing
  <2>2. CASE {sent[t].id, sent[t].to} \subseteq Rows
    <3> DEFINE x == sent[t].id
               y == sent[t].to
    <3>1. x \in Rows /\ y \in Rows /\ ~page[x].folder /\ page[y].folder
      BY <1>1, <2>1, <2>2 DEF SentInv, Fits, Rows
    <3>2. page' = [page EXCEPT ![x].parent = y] /\ Changed(t)
      BY <1>7, <2>2 DEF Move
    <3> HIDE DEF x, y
    <3>3. QED
      BY <1>1, <1>2, <1>4, <2>1, <3>1, <3>2, Moving
  <2>3. CASE ~({sent[t].id, sent[t].to} \subseteq Rows)
    <3>1. UNCHANGED <<page, made>> /\ version' \in Nat
      BY <1>1, <1>7, <2>1, <2>3 DEF Move
    <3>2. QED
      BY <1>1, <1>2, <2>1, <3>1, RowsStay
  <2>4. QED
    BY <2>2, <2>3
<1>8. CASE ReadPins(t)
  <2>1. UNCHANGED <<page, made>> /\ version' \in Nat /\ sent[t].op # "move"
    BY <1>1, <1>8 DEF ReadPins
  <2>2. RowsInv' /\ Grows
    BY <1>1, <2>1, RowsStay
  <2>3. CASE sent[t].id \in Rows
    <3> DEFINE r == [sent[t] EXCEPT !.at = "write", !.list = pins]
    <3>1. UNCHANGED side /\ sent' = [sent EXCEPT ![t] = r]
      BY <1>1, <1>8, <2>3 DEF ReadPins, SentInv
    <3>2. DOMAIN r = Fields /\ r.op # "move"
      BY <1>1, <2>1 DEF SentInv, Fields
    <3> HIDE DEF r
    <3>3. Fits(r, made', page')
      BY <3>2 DEF Fits
    <3>4. SentInv' /\ SideInv'
      BY <1>1, <2>2, <3>1, <3>2, <3>3, Asked, SideStays
    <3>5. QED
      BY <2>2, <3>4 DEF TreeInv
  <2>4. CASE sent[t].id \notin Rows
    BY <1>2, <1>8, <2>2, <2>4 DEF ReadPins
  <2>5. QED
    BY <2>3, <2>4
<1>9. CASE WritePins(t)
  <2>1. UNCHANGED <<page, made>> /\ version' \in Nat /\ Answered(t)
    BY <1>4, <1>9 DEF WritePins
  <2>2. QED
    BY <1>1, <1>2, <2>1, RowsStay
<1>10. CASE Upsert(t)
  <2>1. UNCHANGED <<page, made>> /\ version' \in Nat /\ sent[t].op # "move"
    BY <1>1, <1>10 DEF Upsert, Doing
  <2>2. RowsInv' /\ Grows
    BY <1>1, <2>1, RowsStay
  <2>3. Answered(t) \/ Goes(t, "update")
    BY <1>10 DEF Upsert
  <2>4. QED
    BY <1>2, <1>3, <2>1, <2>2, <2>3
<1>11. CASE SetPublished(t)
  <2>1. UNCHANGED made /\ version' \in Nat /\ Answered(t)
    BY <1>1, <1>11 DEF SetPublished
  <2>2. CASE sent[t].id \in Rows
    <3> DEFINE x == sent[t].id
    <3>1. page' = [page EXCEPT ![x].app = page[x].slug] /\ x \in Rows
      BY <1>11, <2>2 DEF SetPublished
    <3> HIDE DEF x
    <3>2. QED
      BY <1>1, <1>2, <2>1, <3>1, Publishing
  <2>3. CASE sent[t].id \notin Rows
    <3>1. UNCHANGED page
      BY <1>11, <2>3 DEF SetPublished
    <3>2. QED
      BY <1>1, <1>2, <2>1, <3>1, RowsStay
  <2>4. QED
    BY <2>2, <2>3
<1>12. CASE DropApp(t)
  <2>1. UNCHANGED <<page, made>> /\ version' \in Nat /\ sent[t].op # "move"
    BY <1>1, <1>12 DEF DropApp, Doing
  <2>2. RowsInv' /\ Grows
    BY <1>1, <2>1, RowsStay
  <2>3. Answered(t) \/ Goes(t, "children")
    BY <1>12 DEF DropApp
  <2>4. QED
    BY <1>2, <1>3, <2>1, <2>2, <2>3
<1>13. CASE FreeChildren(t)
  <2> DEFINE x == sent[t].id
  <2>1. UNCHANGED made /\ version' \in Nat /\ sent[t].op # "move" /\ Goes(t, "row")
        /\ page' = [p \in Rows |-> IF page[p].parent = x THEN [page[p] EXCEPT !.parent = NoFolder]
                                   ELSE page[p]]
    BY <1>1, <1>13 DEF FreeChildren, Doing
  <2> HIDE DEF x
  <2>2. RowsInv' /\ Grows
    BY <1>1, <2>1, Freeing
  <2>3. QED
    BY <1>3, <2>1, <2>2
<1>14. CASE DeleteRow(t)
  <2> DEFINE x == sent[t].id
  <2>1. UNCHANGED made /\ version' \in Nat /\ Answered(t)
        /\ page' = [p \in Rows \ {x} |-> IF page[p].parent = x THEN [page[p] EXCEPT !.parent = NoFolder]
                                         ELSE page[p]]
    BY <1>4, <1>14 DEF DeleteRow
  <2> HIDE DEF x
  <2>2. RowsInv' /\ Grows
    BY <1>1, <2>1, Freeing
  <2>3. QED
    BY <1>2, <2>1, <2>2
<1>15. QED
  BY <1>5, <1>6, <1>7, <1>8, <1>9, <1>10, <1>11, <1>12, <1>13, <1>14

LEMMA TreeStep == TreeInv /\ [TreeNext]_treeVars => TreeInv'
<1> SUFFICES ASSUME TreeInv, [TreeNext]_treeVars PROVE TreeInv'
  OBVIOUS
<1>1. CASE UNCHANGED treeVars
  BY <1>1 DEF treeVars, TreeInv, RowsInv, SideInv, SentInv, Reachable, Rows
<1>2. CASE TreeNext
  <2>1. PICK t \in SideTabs :
          \/ Answer(t) \/ SetState(t) \/ Reload(t)
          \/ CreatePage(t) \/ Drop(t) \/ PinPage(t) \/ Clone(t) \/ DeletePage(t) \/ Publish(t) \/ Unpin(t)
          \/ Insert(t) \/ InsertClone(t) \/ Move(t) \/ ReadPins(t) \/ WritePins(t)
          \/ Upsert(t) \/ SetPublished(t) \/ DropApp(t) \/ FreeChildren(t) \/ DeleteRow(t)
    BY <1>2 DEF TreeNext
  <2>2. QED
    BY <2>1, Requests, Refreshes, Handlers
<1>3. QED
  BY <1>1, <1>2

(* Every page is at the root or in a folder that is there and is itself at   *)
(* the root, however the requests and refreshes of the tabs interleave: the  *)
(* sidebar reaches every page although the route that moves one checks       *)
(* neither that its target is a folder nor that it makes no cycle            *)
(* (api/pages/[id], PATCH).                                                  *)
THEOREM ReachableHolds == TreeSpec => []Reachable
<1>1. TreeInv => Reachable
  BY DEF TreeInv, RowsInv
<1>2. QED
  BY TreeStarts, TreeStep, <1>1, PTL DEF TreeSpec

-----------------------------------------------------------------------------
(* A sidebar at rest.  A tab two of whose refreshes did not meet has one     *)
(* under way that began after its last change, or shows one that did.        *)
Rests(l, o, s) == (l = <<>> /\ s >= o) \/ (Len(l) = 1 /\ l[1].at >= o)

LoadInv ==
  /\ own = [t \in SideTabs |-> own[t]] /\ seen = [t \in SideTabs |-> seen[t]]
  /\ \A t \in SideTabs : own[t] \in Nat /\ own[t] <= version /\ seen[t] \in Nat
  /\ \A t \in SideTabs \ crossed : Rests(side[t].loads, own[t], seen[t])

LEMMA LoadStarts == TreeInit => LoadInv
<1> SUFFICES ASSUME TreeInit PROVE LoadInv
  OBVIOUS
<1>1. \A t \in SideTabs : own[t] = 0 /\ seen[t] = 0 /\ side[t].loads = <<>>
  BY DEF TreeInit
<1>2. QED
  BY <1>1 DEF TreeInit, LoadInv, Rests

LEMMA LoadStays ==
  ASSUME TreeInv, LoadInv, UNCHANGED <<side, crossed, own, seen>>, version' \in Nat, version' >= version
  PROVE  LoadInv'
<1>1. version \in Nat
  BY DEF TreeInv, RowsInv
<1>2. \A t \in SideTabs : own'[t] <= version'
  BY <1>1 DEF LoadInv
<1>3. QED
  BY <1>2 DEF LoadInv

(* A refresh begins, and with it the tab's change is seen, if it made one.   *)
LEMMA LoadBegins ==
  ASSUME TreeInv, LoadInv, NEW t \in SideTabs, Loading(t), UNCHANGED seen,
         version' \in Nat, version' >= version,
         own' = own \/ own' = [own EXCEPT ![t] = version']
  PROVE  LoadInv'
<1> DEFINE d == [Unanswered EXCEPT !.at = version']
<1>1. d.at = version'
  BY DEF Unanswered
<1> HIDE DEF d
<1>2. side' = [side EXCEPT ![t].loads = Append(@, d)]
  BY DEF Loading, d
<1>3. version \in Nat
  BY DEF TreeInv, RowsInv
<1>4. /\ own' = [u \in SideTabs |-> own'[u]]
      /\ \A u \in SideTabs : own'[u] \in Nat /\ own'[u] <= version' /\ seen'[u] \in Nat
      /\ \A u \in SideTabs \ {t} : own'[u] = own[u]
  BY <1>3 DEF LoadInv
<1>5. ASSUME NEW u \in SideTabs \ crossed' PROVE Rests(side'[u].loads, own'[u], seen'[u])
  <2>1. CASE u # t
    <3>1. u \notin crossed /\ side'[u] = side[u]
      BY <1>2, <1>5, <2>1 DEF Loading, TreeInv, SideInv
    <3>2. QED
      BY <1>4, <2>1, <3>1 DEF LoadInv
  <2>2. CASE u = t
    <3>1. side[t].loads = <<>>
      BY <1>5, <2>2 DEF Loading
    <3>2. side'[t].loads = Append(<<>>, d)
      BY <1>2, <3>1 DEF TreeInv, SideInv, Sidebar
    <3>3. Append(<<>>, d) = <<d>> /\ Len(<<d>>) = 1 /\ <<d>>[1] = d
      OBVIOUS
    <3>4. QED
      BY <1>1, <1>4, <2>2, <3>2, <3>3 DEF Rests
  <2>3. QED
    BY <2>1, <2>2
<1>6. QED
  BY <1>4, <1>5 DEF LoadInv

LEMMA LoadAnswered ==
  ASSUME TreeInv, LoadInv, NEW t \in SideTabs, Answered(t), UNCHANGED seen,
         Changed(t) \/ UNCHANGED <<version, own>>
  PROVE  LoadInv'
<1>1. version \in Nat /\ version' \in Nat /\ version' >= version
  BY DEF TreeInv, RowsInv, Changed
<1>2. CASE ByApi(t)
  BY <1>1, <1>2, LoadStays DEF Answered, Changed
<1>3. CASE ~ByApi(t)
  <2>1. Loading(t)
    BY <1>3 DEF Answered
  <2>2. own' = own \/ own' = [own EXCEPT ![t] = version']
    BY <1>3 DEF Changed
  <2>3. QED
    BY <1>1, <2>1, <2>2, LoadBegins
<1>4. QED
  BY <1>2, <1>3

(* One tab shows another answer, or its refreshes change.                    *)
LEMMA LoadSees ==
  ASSUME TreeInv, LoadInv, NEW t \in SideTabs, UNCHANGED <<version, own>>,
         NEW d, side' = [side EXCEPT ![t] = d], NEW s \in Nat, seen' = [seen EXCEPT ![t] = s],
         crossed' = crossed \/ crossed' = crossed \ {t},
         t \notin crossed' => Rests(d.loads, own[t], s)
  PROVE  LoadInv'
<1>1. /\ own' = own /\ seen' = [u \in SideTabs |-> seen'[u]]
      /\ \A u \in SideTabs : seen'[u] = IF u = t THEN s ELSE seen[u]
  BY DEF LoadInv
<1>2. ASSUME NEW u \in SideTabs \ crossed' PROVE Rests(side'[u].loads, own'[u], seen'[u])
  <2>1. CASE u = t
    <3>1. side'[t] = d
      BY DEF TreeInv, SideInv
    <3>2. QED
      BY <1>1, <1>2, <2>1, <3>1
  <2>2. CASE u # t
    <3>1. side'[u] = side[u] /\ u \notin crossed
      BY <1>2, <2>2 DEF TreeInv, SideInv
    <3>2. QED
      BY <1>1, <2>2, <3>1 DEF LoadInv
  <2>3. QED
    BY <2>1, <2>2
<1>3. QED
  BY <1>1, <1>2 DEF LoadInv

LEMMA LoadRefreshes ==
  ASSUME TreeInv, LoadInv, NEW t \in SideTabs, Answer(t) \/ SetState(t) \/ Reload(t)
  PROVE  LoadInv'
<1> DEFINE l == side[t].loads
<1>1. side[t] \in Sidebar /\ l \in Seq(Load) /\ version \in Nat
  BY DEF TreeInv, SideInv, Sidebar, RowsInv
<1>2. own[t] \in Nat /\ own[t] <= version /\ seen[t] \in Nat /\ seen = [seen EXCEPT ![t] = seen[t]]
  BY DEF LoadInv
<1>3. t \notin crossed => Rests(l, own[t], seen[t])
  BY DEF LoadInv
<1> HIDE DEF l
<1>4. CASE Answer(t)
  <2> DEFINE R == [p \in Rows |-> [folder |-> page[p].folder, parent |-> page[p].parent]]
  <2>1. PICK i \in DOMAIN l :
          side' = [side EXCEPT ![t].loads[i].is = TRUE, ![t].loads[i].rows = R]
    BY <1>4 DEF Answer, l, R
  <2> HIDE DEF R
  <2> DEFINE a == [l[i] EXCEPT !.is = TRUE, !.rows = R]
             m == [l EXCEPT ![i] = a]
             e == [side[t] EXCEPT !.loads = m]
  <2>2. l[i] \in Load
    BY <1>1
  <2>3. side' = [side EXCEPT ![t] = e]
    BY <1>1, <2>1, <2>2 DEF TreeInv, SideInv, Sidebar, Load, l
  <2>4. e.loads = m
    BY <1>1 DEF Sidebar
  <2>5. a.at = l[i].at
    BY <2>2 DEF Load
  <2> HIDE DEF a, e
  <2>6. Rests(l, own[t], seen[t]) => Rests(m, own[t], seen[t])
    <3>1. Len(m) = Len(l) /\ \A j \in DOMAIN l : m[j] = IF j = i THEN a ELSE l[j]
      BY <1>1
    <3>2. l # <<>>
      BY <2>1
    <3>3. Len(l) = 1 => 1 \in DOMAIN l
      BY <1>1
    <3> HIDE DEF m
    <3>4. QED
      BY <2>5, <3>1, <3>2, <3>3 DEF Rests
  <2> HIDE DEF m
  <2>7. UNCHANGED <<version, own, crossed, seen>>
    BY <1>4 DEF Answer
  <2>8. QED
    BY <1>2, <1>3, <2>3, <2>4, <2>6, <2>7, LoadSees
<1>5. CASE SetState(t)
  <2>1. PICK i \in DOMAIN l :
          /\ side' = [side EXCEPT ![t] = [rows |-> l[i].rows, loads |-> RemoveAt(l, i)]]
          /\ seen' = [seen EXCEPT ![t] = l[i].at]
    BY <1>5 DEF SetState, l, TreeInv, SideInv
  <2>2. l[i] \in Load
    BY <1>1
  <2>3. l[i].at \in Nat
    BY <2>2 DEF Load
  <2> DEFINE e == [rows |-> l[i].rows, loads |-> RemoveAt(l, i)]
  <2>4. Rests(l, own[t], seen[t]) => Rests(e.loads, own[t], l[i].at)
    <3> SUFFICES ASSUME Rests(l, own[t], seen[t]) PROVE Rests(e.loads, own[t], l[i].at)
      OBVIOUS
    <3>1. Len(l) = 1 /\ l[1].at >= own[t]
      BY <2>1 DEF Rests
    <3>2. i = 1
      BY <1>1, <3>1
    <3>3. RemoveAt(l, 1) = <<>>
      BY <1>1, <3>1 DEF RemoveAt
    <3>4. QED
      BY <3>1, <3>2, <3>3 DEF Rests
  <2>5. UNCHANGED <<version, own, crossed>> /\ side' = [side EXCEPT ![t] = e]
    BY <1>5, <2>1 DEF SetState
  <2> HIDE DEF e
  <2>6. QED
    BY <1>3, <2>1, <2>3, <2>4, <2>5, LoadSees
<1>6. CASE Reload(t)
  <2> DEFINE d == [Unanswered EXCEPT !.at = version]
             e == [rows |-> <<>>, loads |-> <<d>>]
  <2>1. d.at = version
    BY DEF Unanswered
  <2>2. /\ side' = [side EXCEPT ![t] = e] /\ crossed' = crossed \ {t}
        /\ seen' = [seen EXCEPT ![t] = 0] /\ UNCHANGED <<version, own>>
    BY <1>6 DEF Reload
  <2> HIDE DEF d
  <2>3. e.loads = <<d>> /\ Len(<<d>>) = 1 /\ <<d>>[1] = d
    OBVIOUS
  <2> HIDE DEF e
  <2>4. Rests(e.loads, own[t], 0)
    BY <1>1, <1>2, <2>1, <2>3 DEF Rests
  <2>5. QED
    BY <2>2, <2>4, LoadSees
<1>7. QED
  BY <1>4, <1>5, <1>6

LEMMA LoadHandles ==
  ASSUME TreeInv, LoadInv, NEW t \in SideTabs,
         \/ Insert(t) \/ InsertClone(t) \/ Move(t) \/ ReadPins(t) \/ WritePins(t)
         \/ Upsert(t) \/ SetPublished(t) \/ DropApp(t) \/ FreeChildren(t) \/ DeleteRow(t)
  PROVE  LoadInv'
<1>1. UNCHANGED seen
  BY DEF Insert, InsertClone, Move, ReadPins, WritePins, Upsert, SetPublished, DropApp,
         FreeChildren, DeleteRow
<1>2. version \in Nat
  BY DEF TreeInv, RowsInv
<1>3. \/ Answered(t) /\ (Changed(t) \/ UNCHANGED <<version, own>>)
      \/ UNCHANGED <<side, crossed, own, version>>
  <2>1. CASE Insert(t) \/ WritePins(t) \/ DeleteRow(t)
    BY <2>1 DEF Insert, WritePins, DeleteRow
  <2>2. CASE InsertClone(t)
    BY <2>2 DEF InsertClone
  <2>3. CASE Move(t)
    BY <2>3 DEF Move
  <2>4. CASE ReadPins(t)
    BY <2>4 DEF ReadPins
  <2>5. CASE Upsert(t) \/ SetPublished(t) \/ DropApp(t) \/ FreeChildren(t)
    BY <2>5 DEF Upsert, SetPublished, DropApp, FreeChildren, Goes
  <2>6. QED
    BY <2>1, <2>2, <2>3, <2>4, <2>5
<1>4. CASE Answered(t) /\ (Changed(t) \/ UNCHANGED <<version, own>>)
  BY <1>1, <1>4, LoadAnswered
<1>5. CASE UNCHANGED <<side, crossed, own, version>>
  BY <1>1, <1>2, <1>5, LoadStays
<1>6. QED
  BY <1>3, <1>4, <1>5

LEMMA LoadStep == TreeInv /\ LoadInv /\ [TreeNext]_treeVars => LoadInv'
<1> SUFFICES ASSUME TreeInv, LoadInv, [TreeNext]_treeVars PROVE LoadInv'
  OBVIOUS
<1>1. version \in Nat /\ version >= version
  BY DEF TreeInv, RowsInv
<1>2. CASE UNCHANGED treeVars
  BY <1>1, <1>2, LoadStays DEF treeVars
<1>3. ASSUME NEW t \in SideTabs,
             \/ CreatePage(t) \/ Drop(t) \/ PinPage(t) \/ Clone(t) \/ DeletePage(t)
             \/ Publish(t) \/ Unpin(t)
      PROVE  LoadInv'
  <2>1. UNCHANGED <<side, crossed, own, seen, version>>
    BY <1>3 DEF CreatePage, Drop, PinPage, Clone, DeletePage, Publish, Unpin, Asks
  <2>2. QED
    BY <1>1, <2>1, LoadStays
<1>4. QED
  BY <1>2, <1>3, LoadRefreshes, LoadHandles DEF TreeNext

-----------------------------------------------------------------------------
(* The list without a page.  What the recursive function Without computes is *)
(* shown by a least counterexample: first that there is a function that      *)
(* satisfies its equation, then what each of its values is.                  *)

LEMMA LeastNat ==
  ASSUME NEW C, C \subseteq Nat, C # {}
  PROVE  \E x \in C : \A y \in C : x <= y
<1> DEFINE R == OpToRel(<, Nat)
<1>1. IsWellFoundedOn(R, Nat)
  BY NatLessThanWellFounded
<1>2. \A x, y \in Nat : y < x => <<y, x>> \in R
  BY DEF OpToRel
<1> HIDE DEF R
<1>3. PICK x \in C : \A y \in C : <<y, x>> \notin R
  BY <1>1, WFMin, Zenon
<1>4. \A y \in C : ~(y < x)
  BY <1>2, <1>3
<1>5. QED
  BY <1>3, <1>4

(* f filters the first n elements of list. *)
Filtered(list, id, f, n) ==
  f = [i \in 0 .. n |-> IF i = 0 THEN <<>>
                        ELSE IF list[i] = id THEN f[i - 1] ELSE Append(f[i - 1], list[i])]

LEMMA FilterExists ==
  ASSUME NEW list, NEW id, NEW m \in Nat
  PROVE  \E f : Filtered(list, id, f, m)
<1> DEFINE C == {n \in Nat : ~\E f : Filtered(list, id, f, n)}
<1> SUFFICES ASSUME C # {} PROVE FALSE
  OBVIOUS
<1>1. PICK n \in C : \A k \in C : n <= k
  BY LeastNat
<1>2. n \in Nat /\ ~\E f : Filtered(list, id, f, n)
  OBVIOUS
<1>3. CASE n = 0
  <2> DEFINE f == [i \in 0 .. 0 |-> <<>>]
  <2>1. Filtered(list, id, f, 0)
    BY DEF Filtered
  <2>2. QED
    BY <1>2, <1>3, <2>1
<1>4. CASE n # 0
  <2>1. n - 1 \in Nat /\ n - 1 \notin C
    BY <1>1, <1>2, <1>4
  <2>2. PICK f : Filtered(list, id, f, n - 1)
    BY <2>1
  <2> DEFINE last == IF list[n] = id THEN f[n - 1] ELSE Append(f[n - 1], list[n])
             g == [i \in 0 .. n |-> IF i = n THEN last ELSE f[i]]
  <2>3. ASSUME NEW i \in 0 .. n
        PROVE  g[i] = IF i = 0 THEN <<>>
                      ELSE IF list[i] = id THEN g[i - 1] ELSE Append(g[i - 1], list[i])
    <3>1. CASE i = n
      <4>1. n - 1 \in 0 .. n /\ n - 1 # n
        BY <1>2, <1>4
      <4>2. g[n - 1] = f[n - 1] /\ g[n] = last
        BY <1>2, <4>1
      <4>3. QED
        BY <1>4, <3>1, <4>2
    <3>2. CASE i # n /\ i = 0
      <4>1. 0 \in 0 .. n - 1
        BY <1>2, <2>1
      <4>2. f[0] = <<>>
        BY <2>2, <4>1 DEF Filtered
      <4>3. QED
        BY <3>2, <4>2
    <3>3. CASE i # n /\ i # 0
      <4>1. i \in 0 .. n - 1 /\ i - 1 \in 0 .. n /\ i - 1 # n
        BY <1>2, <3>3
      <4>2. f[i] = IF list[i] = id THEN f[i - 1] ELSE Append(f[i - 1], list[i])
        BY <2>2, <3>3, <4>1 DEF Filtered
      <4>3. g[i] = f[i] /\ g[i - 1] = f[i - 1]
        BY <3>3, <4>1
      <4>4. QED
        BY <3>3, <4>2, <4>3
    <3>4. QED
      BY <3>1, <3>2, <3>3
  <2>4. g = [i \in 0 .. n |-> g[i]]
    OBVIOUS
  <2> HIDE DEF g
  <2>5. Filtered(list, id, g, n)
    BY <2>3, <2>4 DEF Filtered
  <2>6. QED
    BY <1>2, <2>5
<1>5. QED
  BY <1>3, <1>4

LEMMA NatAppended ==
  ASSUME NEW s \in Seq(Nat), NEW e \in Nat
  PROVE  /\ Append(s, e) \in Seq(Nat) /\ Len(Append(s, e)) = Len(s) + 1
         /\ ToSet(Append(s, e)) = ToSet(s) \union {e}
         /\ (IsInjective(s) /\ e \notin ToSet(s)) => IsInjective(Append(s, e))
<1> DEFINE a == Append(s, e)
<1>1. /\ a \in Seq(Nat) /\ Len(a) = Len(s) + 1 /\ a[Len(s) + 1] = e
      /\ \A j \in 1 .. Len(s) : a[j] = s[j]
  BY AppendProperties
<1>2. PICK n \in Nat : Len(s) = n
  OBVIOUS
<1>3. DOMAIN s = 1 .. n /\ DOMAIN a = 1 .. n + 1
  BY <1>1, <1>2
<1>4. \A j \in 1 .. n + 1 : j \in 1 .. n \/ j = n + 1
  OBVIOUS
<1>5. \A j \in 1 .. n : j \in 1 .. n + 1
  OBVIOUS
<1>6. n + 1 \in 1 .. n + 1
  OBVIOUS
<1> HIDE DEF a
<1>7. a[n + 1] = e /\ \A j \in 1 .. n : a[j] = s[j]
  BY <1>1, <1>2
<1>8. \A x \in ToSet(a) : x \in ToSet(s) \union {e}
  BY <1>3, <1>4, <1>7, Zenon DEF ToSet
<1>9. \A x \in ToSet(s) \union {e} : x \in ToSet(a)
  BY <1>3, <1>5, <1>6, <1>7, Zenon DEF ToSet
<1>10. ASSUME IsInjective(s), e \notin ToSet(s) PROVE IsInjective(a)
  <2> SUFFICES ASSUME NEW i \in 1 .. n + 1, NEW j \in 1 .. n + 1, a[i] = a[j] PROVE i = j
    BY <1>3 DEF IsInjective
  <2>1. \A k \in 1 .. n : a[k] # e
    BY <1>3, <1>7, <1>10 DEF ToSet
  <2>2. CASE i \in 1 .. n /\ j \in 1 .. n
    BY <1>3, <1>7, <1>10, <2>2 DEF IsInjective
  <2>3. CASE i = n + 1 \/ j = n + 1
    BY <1>4, <1>7, <2>1, <2>3, Zenon
  <2>4. QED
    BY <1>4, <2>2, <2>3, Zenon
<1>11. QED
  BY <1>1, <1>8, <1>9, <1>10 DEF a

LEMMA NatList ==
  ASSUME NEW s \in Seq(Nat)
  PROVE  \A x \in ToSet(s) : x \in Nat
BY DEF ToSet

(* What the first n elements of list become when id is taken out of them. *)
Rest(list, id, n, r) ==
  /\ r \in Seq(Nat) /\ Len(r) <= n
  /\ ToSet(r) = {list[i] : i \in 1 .. n} \ {id}
  /\ IsInjective(list) => IsInjective(r)

LEMMA FilterRests ==
  ASSUME NEW list \in Seq(Nat), NEW id \in Nat, NEW f, Filtered(list, id, f, Len(list)),
         NEW m \in 0 .. Len(list)
  PROVE  Rest(list, id, m, f[m])
<1> DEFINE C == {n \in 0 .. Len(list) : ~Rest(list, id, n, f[n])}
<1> SUFFICES ASSUME C # {} PROVE FALSE
  OBVIOUS
<1>1. Len(list) \in Nat /\ DOMAIN list = 1 .. Len(list) /\ C \subseteq Nat
  OBVIOUS
<1>2. PICK n \in C : \A k \in C : n <= k
  BY <1>1, LeastNat, Zenon
<1>3. n \in 0 .. Len(list) /\ ~Rest(list, id, n, f[n])
  OBVIOUS
<1>4. f[n] = IF n = 0 THEN <<>>
             ELSE IF list[n] = id THEN f[n - 1] ELSE Append(f[n - 1], list[n])
  BY <1>3 DEF Filtered
<1>5. CASE n = 0
  <2>1. f[n] = <<>>
    BY <1>4, <1>5
  <2>2. <<>> \in Seq(Nat) /\ Len(<<>>) = 0 /\ ToSet(<<>>) = {} /\ IsInjective(<<>>)
    BY DEF ToSet, IsInjective
  <2>3. {list[i] : i \in 1 .. 0} = {}
    OBVIOUS
  <2>4. QED
    BY <1>3, <1>5, <2>1, <2>2, <2>3 DEF Rest
<1>6. CASE n # 0
  <2> DEFINE r == f[n - 1]
             before == {list[i] : i \in 1 .. n - 1}
  <2>1. n - 1 \in 0 .. Len(list) /\ n \in DOMAIN list /\ n \in Nat /\ n - 1 \in Nat
    BY <1>1, <1>3, <1>6
  <2>2. n - 1 \notin C
    BY <1>2, <2>1
  <2>3. Rest(list, id, n - 1, r)
    BY <2>1, <2>2
  <2> HIDE DEF C
  <2>4. list[n] \in Nat
    BY <2>1
  <2>5. {list[i] : i \in 1 .. n} = before \union {list[n]}
    <3>1. \A i \in 1 .. n : i \in 1 .. n - 1 \/ i = n
      BY <2>1
    <3>2. n \in 1 .. n /\ \A i \in 1 .. n - 1 : i \in 1 .. n
      BY <1>6, <2>1
    <3>3. QED
      BY <3>1, <3>2, Zenon
  <2> HIDE DEF r
  <2>6. r \in Seq(Nat) /\ Len(r) <= n - 1 /\ ToSet(r) = before \ {id}
        /\ (IsInjective(list) => IsInjective(r))
    BY <2>3 DEF Rest
  <2>7. CASE list[n] = id
    <3>1. f[n] = r
      BY <1>4, <1>6, <2>7 DEF r
    <3>2. Len(r) <= n
      <4>1. Len(r) \in Nat
        BY <2>6
      <4>2. QED
        BY <2>1, <2>6, <4>1
    <3>3. ToSet(r) = (before \union {list[n]}) \ {id}
      BY <2>6, <2>7
    <3>4. QED
      BY <1>3, <2>5, <2>6, <3>1, <3>2, <3>3 DEF Rest
  <2>8. CASE list[n] # id
    <3>1. f[n] = Append(r, list[n])
      BY <1>4, <1>6, <2>8 DEF r
    <3>2. /\ Append(r, list[n]) \in Seq(Nat) /\ Len(Append(r, list[n])) = Len(r) + 1
          /\ ToSet(Append(r, list[n])) = ToSet(r) \union {list[n]}
          /\ (IsInjective(r) /\ list[n] \notin ToSet(r)) => IsInjective(Append(r, list[n]))
      BY <2>4, <2>6, NatAppended
    <3>3. Len(r) + 1 <= n
      <4>1. Len(r) \in Nat
        BY <2>6
      <4>2. QED
        BY <2>1, <2>6, <4>1
    <3>4. ToSet(r) \union {list[n]} = (before \union {list[n]}) \ {id}
      BY <2>6, <2>8
    <3>5. ASSUME IsInjective(list) PROVE list[n] \notin ToSet(r)
      <4>1. \A i \in 1 .. n - 1 : i \in DOMAIN list /\ i # n
        BY <1>1, <2>1
      <4>2. \A i \in 1 .. n - 1 : list[i] # list[n]
        BY <2>1, <3>5, <4>1 DEF IsInjective
      <4>3. QED
        BY <2>6, <4>2
    <3>6. QED
      BY <1>3, <2>5, <2>6, <3>1, <3>2, <3>3, <3>4, <3>5 DEF Rest
  <2>9. QED
    BY <2>7, <2>8
<1>7. QED
  BY <1>5, <1>6

(* Taking a page out of a list leaves the others, in a list that is no       *)
(* longer and names no page twice if the list named none twice.              *)
LEMMA WithoutIs ==
  ASSUME NEW list \in Seq(Nat), NEW id \in Nat
  PROVE  /\ Without(list, id) \in Seq(Nat) /\ Len(Without(list, id)) <= Len(list)
         /\ ToSet(Without(list, id)) = ToSet(list) \ {id}
         /\ IsInjective(list) => IsInjective(Without(list, id))
<1> DEFINE f == CHOOSE g : Filtered(list, id, g, Len(list))
<1>1. Len(list) \in Nat /\ Len(list) \in 0 .. Len(list) /\ DOMAIN list = 1 .. Len(list)
  OBVIOUS
<1>2. Filtered(list, id, f, Len(list))
  BY <1>1, FilterExists, Zenon
<1>3. Without(list, id) = f[Len(list)]
  BY Zenon DEF Without, Filtered
<1> HIDE DEF f
<1>4. Rest(list, id, Len(list), f[Len(list)])
  BY <1>1, <1>2, FilterRests
<1>5. QED
  BY <1>1, <1>3, <1>4 DEF Rest, ToSet

-----------------------------------------------------------------------------
(* The pins.  Until two requests overlap, the list a request has read is     *)
(* still the list that is stored when it writes its own.                     *)

Pins == {l \in Seq(Nat) : Len(l) <= MAX_PINS /\ IsInjective(l)}

Writing(t) == sent[t].at = "write"

PinInv ==
  /\ pins \in Pins
  /\ \A t \in SideTabs : sent[t].id \in Nat
  /\ \A t \in SideTabs : Writing(t) => sent[t].list \in Pins
  /\ ~raced =>
       /\ ToSet(pins) = pinned
       /\ \A t \in SideTabs : Writing(t) => sent[t].list = pins
       /\ \A t, o \in SideTabs : Writing(t) /\ Writing(o) => t = o

LEMMA PinStarts == TreeInit => PinInv
<1> SUFFICES ASSUME TreeInit PROVE PinInv
  OBVIOUS
<1>1. \A t \in SideTabs : sent[t].at = "" /\ sent[t].id = 0
  BY DEF TreeInit, Idle
<1>2. pins = <<>> /\ pinned = {}
  BY DEF TreeInit
<1>3. <<>> \in Pins
  <2>1. <<>> \in Seq(Nat) /\ Len(<<>>) = 0 /\ IsInjective(<<>>)
    BY DEF IsInjective
  <2>2. QED
    BY <2>1, PinsAssumption DEF Pins
<1>4. ToSet(<<>>) = {}
  BY DEF ToSet
<1>5. \A t \in SideTabs : ~Writing(t)
  BY <1>1 DEF Writing
<1>6. pins \in Pins /\ ToSet(pins) = pinned
  BY <1>2, <1>3, <1>4, Zenon
<1>7. \A t \in SideTabs : sent[t].id \in Nat
  <2>1. 0 \in Nat
    OBVIOUS
  <2>2. QED
    BY <1>1, <2>1, Zenon
<1> HIDE DEF TreeInit
<1>8. QED
  BY <1>5, <1>6, <1>7, Zenon DEF PinInv

(* A request that does not come to the writing of the list.                  *)
LEMMA PinStays ==
  ASSUME SentInv, PinInv, UNCHANGED <<pins, pinned, raced>>, NEW t \in SideTabs, NEW r,
         sent' = [sent EXCEPT ![t] = r], r.at # "write", r.id \in Nat
  PROVE  PinInv'
<1>1. \A u \in SideTabs : sent'[u] = IF u = t THEN r ELSE sent[u]
  BY DEF SentInv
<1>2. \A u \in SideTabs : sent'[u].id \in Nat
  BY <1>1 DEF PinInv
<1>3. \A u \in SideTabs : Writing(u)' => Writing(u) /\ sent'[u] = sent[u]
  BY <1>1 DEF Writing
<1>4. QED
  BY <1>2, <1>3 DEF PinInv

LEMMA PinUnsent ==
  ASSUME SentInv, PinInv, UNCHANGED <<pins, pinned, raced, sent>>
  PROVE  PinInv'
BY DEF PinInv, Writing

LEMMA PinAsks ==
  ASSUME TreeInv, PinInv, NEW t \in SideTabs,
         \/ CreatePage(t) \/ Drop(t) \/ PinPage(t) \/ Clone(t) \/ DeletePage(t)
         \/ Publish(t) \/ Unpin(t)
  PROVE  PinInv'
<1>1. \A p \in Shown(t) : p \in Nat
  BY DEF TreeInv, RowsInv, SideInv, Knows, Shown
<1>2. PICK op, id, to : id \in Nat /\ Asks(t, op, id, to)
  <2>1. CASE CreatePage(t)
    BY <2>1 DEF CreatePage
  <2>2. CASE Drop(t)
    BY <1>1, <2>2 DEF Drop
  <2>3. CASE PinPage(t)
    BY <1>1, <2>3 DEF PinPage
  <2>4. CASE Clone(t)
    BY <1>1, <2>4 DEF Clone
  <2>5. CASE DeletePage(t)
    BY <1>1, <2>5 DEF DeletePage
  <2>6. CASE Publish(t)
    BY <1>1, <2>6 DEF Publish
  <2>7. CASE Unpin(t)
    BY <1>1, <2>7 DEF Unpin
  <2>8. QED
    BY <2>1, <2>2, <2>3, <2>4, <2>5, <2>6, <2>7
<1> DEFINE r == [Idle EXCEPT !.op = op, !.id = id, !.to = to]
<1>3. r.id = id /\ r.at = ""
  BY DEF Idle
<1>4. sent' = [sent EXCEPT ![t] = r] /\ UNCHANGED <<pins, pinned, raced>>
  BY <1>2 DEF Asks
<1> HIDE DEF r
<1>5. QED
  BY <1>2, <1>3, <1>4, PinStays DEF TreeInv

(* The answer of a request, or its next statement. *)
LEMMA PinGoesOn ==
  ASSUME TreeInv, PinInv, UNCHANGED <<pins, pinned, raced>>, NEW t \in SideTabs,
         \/ sent' = [sent EXCEPT ![t] = Idle]
         \/ \E at \in {"update", "children", "row"} : sent' = [sent EXCEPT ![t].at = at]
  PROVE  PinInv'
<1>1. CASE sent' = [sent EXCEPT ![t] = Idle]
  <2>1. Idle.at # "write" /\ Idle.id \in Nat
    BY DEF Idle
  <2>2. QED
    BY <1>1, <2>1, PinStays DEF TreeInv
<1>2. ASSUME NEW at \in {"update", "children", "row"}, sent' = [sent EXCEPT ![t].at = at]
      PROVE  PinInv'
  <2> DEFINE r == [sent[t] EXCEPT !.at = at]
  <2>1. r.at = at /\ r.id = sent[t].id
    BY DEF TreeInv, SentInv, Fields
  <2>2. sent' = [sent EXCEPT ![t] = r] /\ at # "write" /\ sent[t].id \in Nat
    BY <1>2 DEF TreeInv, SentInv, PinInv
  <2> HIDE DEF r
  <2>3. QED
    BY <2>1, <2>2, PinStays DEF TreeInv
<1>3. QED
  BY <1>1, <1>2

LEMMA PinReads ==
  ASSUME TreeInv, PinInv, NEW t \in SideTabs, ReadPins(t)
  PROVE  PinInv'
<1>1. CASE sent[t].id \notin Rows
  BY <1>1, PinGoesOn DEF ReadPins, Answered
<1>2. CASE sent[t].id \in Rows
  <2> DEFINE r == [sent[t] EXCEPT !.at = "write", !.list = pins]
  <2>1. r.at = "write" /\ r.id = sent[t].id /\ r.list = pins
    BY DEF TreeInv, SentInv, Fields
  <2>2. /\ sent' = [sent EXCEPT ![t] = r] /\ UNCHANGED <<pins, pinned>>
        /\ raced' = (raced \/ \E o \in SideTabs : sent[o].at = "write")
    BY <1>2 DEF ReadPins, TreeInv, SentInv
  <2> HIDE DEF r
  <2>3. \A u \in SideTabs : sent'[u] = IF u = t THEN r ELSE sent[u]
    BY <2>2 DEF TreeInv, SentInv
  <2>4. \A u \in SideTabs : sent'[u].id \in Nat
    BY <2>1, <2>3 DEF PinInv
  <2>5. \A u \in SideTabs : Writing(u)' => sent'[u].list \in Pins
    BY <2>1, <2>3 DEF PinInv, Writing
  <2>6. ASSUME ~raced'
        PROVE  /\ ToSet(pins) = pinned
               /\ \A u \in SideTabs : Writing(u)' => sent'[u].list = pins
               /\ \A u, o \in SideTabs : Writing(u)' /\ Writing(o)' => u = o
    <3>1. ~raced /\ \A o \in SideTabs : ~Writing(o)
      BY <2>2, <2>6 DEF Writing
    <3>2. \A u \in SideTabs : Writing(u)' => u = t
      BY <2>3, <3>1 DEF Writing
    <3>3. QED
      BY <2>1, <2>3, <3>1, <3>2 DEF PinInv
  <2>7. QED
    BY <2>2, <2>4, <2>5, <2>6 DEF PinInv
<1>3. QED
  BY <1>1, <1>2

(* What is written is a list of pins, and says what its request asked.       *)
Kept(op, list, id, l) ==
  /\ l \in Pins
  /\ ToSet(l) = IF op = "unpin" THEN ToSet(list) \ {id}
                ELSE ToSet(list) \union ({id} \intersect ToSet(l))

LEMMA PinnedWith ==
  ASSUME NEW op, NEW list \in Pins, NEW id \in Nat,
         NEW l, l = PinWith(op, list, id, MAX_PINS)
  PROVE  Kept(op, list, id, l)
<1>1. list \in Seq(Nat) /\ Len(list) \in Nat /\ Len(list) <= MAX_PINS /\ IsInjective(list)
  BY DEF Pins
<1>2. CASE op = "unpin"
  <2>1. l = Without(list, id)
    BY <1>2 DEF PinWith
  <2>2. /\ Without(list, id) \in Seq(Nat) /\ Len(Without(list, id)) <= Len(list)
        /\ ToSet(Without(list, id)) = ToSet(list) \ {id}
        /\ IsInjective(list) => IsInjective(Without(list, id))
    BY <1>1, WithoutIs
  <2>3. Len(Without(list, id)) <= MAX_PINS
    <3>1. Len(Without(list, id)) \in Nat
      BY <2>2
    <3>2. QED
      BY <1>1, <2>2, <3>1, PinsAssumption
  <2>4. QED
    BY <1>1, <1>2, <2>1, <2>2, <2>3 DEF Pins, Kept
<1>3. CASE op # "unpin" /\ id \notin ToSet(list) /\ Len(list) < MAX_PINS
  <2>1. l = Append(list, id)
    BY <1>3 DEF PinWith
  <2>2. /\ Append(list, id) \in Seq(Nat) /\ Len(Append(list, id)) = Len(list) + 1
        /\ ToSet(Append(list, id)) = ToSet(list) \union {id}
        /\ IsInjective(Append(list, id))
    BY <1>1, <1>3, NatAppended
  <2>3. Len(list) + 1 <= MAX_PINS
    BY <1>1, <1>3, PinsAssumption
  <2>4. QED
    BY <1>3, <2>1, <2>2, <2>3 DEF Pins, Kept
<1>4. CASE op # "unpin" /\ ~(id \notin ToSet(list) /\ Len(list) < MAX_PINS)
  <2>1. l = list
    BY <1>4 DEF PinWith
  <2>2. ToSet(list) = ToSet(list) \union ({id} \intersect ToSet(list))
    OBVIOUS
  <2>3. QED
    BY <1>4, <2>1, <2>2 DEF Kept
<1>5. QED
  BY <1>2, <1>3, <1>4

LEMMA PinWrites ==
  ASSUME TreeInv, PinInv, NEW t \in SideTabs, WritePins(t)
  PROVE  PinInv'
<1>1. sent[t].list \in Pins /\ sent[t].id \in Nat
  BY DEF PinInv, WritePins, Writing
<1>2. /\ pins' \in Pins
      /\ ToSet(pins') = IF sent[t].op = "unpin" THEN ToSet(sent[t].list) \ {sent[t].id}
                        ELSE ToSet(sent[t].list) \union ({sent[t].id} \intersect ToSet(pins'))
  <2>1. pins' = PinWith(sent[t].op, sent[t].list, sent[t].id, MAX_PINS)
    BY DEF WritePins
  <2>2. Kept(sent[t].op, sent[t].list, sent[t].id, pins')
    BY <1>1, <2>1, PinnedWith, Zenon
  <2>3. QED
    BY <2>2 DEF Kept
<1>3. \A u \in SideTabs : sent'[u] = IF u = t THEN Idle ELSE sent[u]
  BY DEF TreeInv, SentInv, WritePins, Answered
<1>4. Idle.at # "write" /\ Idle.id \in Nat
  BY DEF Idle
<1>5. \A u \in SideTabs : Writing(u)' => Writing(u) /\ u # t /\ sent'[u] = sent[u]
  BY <1>3, <1>4 DEF Writing
<1>6. \A u \in SideTabs : sent'[u].id \in Nat
  BY <1>3, <1>4 DEF PinInv
<1>7. ASSUME ~raced' PROVE ToSet(pins') = pinned' /\ \A u \in SideTabs : ~Writing(u)'
  <2>1. ~raced /\ Writing(t)
    BY <1>7 DEF WritePins, Writing
  <2>2. sent[t].list = pins /\ ToSet(pins) = pinned /\ \A u \in SideTabs : Writing(u) => u = t
    BY <2>1 DEF PinInv
  <2>3. pinned' = IF sent[t].op = "unpin" THEN pinned \ {sent[t].id}
                  ELSE pinned \union ({sent[t].id} \intersect ToSet(pins'))
    BY DEF WritePins
  <2>4. ToSet(pins') = pinned'
    BY <1>2, <2>2, <2>3
  <2>5. QED
    BY <1>5, <2>2, <2>4
<1>8. QED
  BY <1>2, <1>5, <1>6, <1>7 DEF PinInv

LEMMA PinHandles ==
  ASSUME TreeInv, PinInv, NEW t \in SideTabs,
         \/ Insert(t) \/ InsertClone(t) \/ Move(t)
         \/ Upsert(t) \/ SetPublished(t) \/ DropApp(t) \/ FreeChildren(t) \/ DeleteRow(t)
  PROVE  PinInv'
<1>1. UNCHANGED <<pins, pinned, raced>>
  BY DEF Insert, InsertClone, Move, Upsert, SetPublished, DropApp, FreeChildren, DeleteRow
<1>2. \/ sent' = [sent EXCEPT ![t] = Idle]
      \/ \E at \in {"update", "children", "row"} : sent' = [sent EXCEPT ![t].at = at]
  <2>1. CASE Insert(t) \/ Move(t) \/ SetPublished(t) \/ DeleteRow(t)
    BY <2>1 DEF Insert, Move, SetPublished, DeleteRow, Answered
  <2>2. CASE InsertClone(t)
    BY <2>2 DEF InsertClone, Answered
  <2>3. CASE Upsert(t)
    BY <2>3 DEF Upsert, Answered, Goes
  <2>4. CASE DropApp(t)
    BY <2>4 DEF DropApp, Answered, Goes
  <2>5. CASE FreeChildren(t)
    BY <2>5 DEF FreeChildren, Goes
  <2>6. QED
    BY <2>1, <2>2, <2>3, <2>4, <2>5
<1>3. QED
  BY <1>1, <1>2, PinGoesOn

LEMMA PinStep == TreeInv /\ PinInv /\ [TreeNext]_treeVars => PinInv'
<1> SUFFICES ASSUME TreeInv, PinInv, [TreeNext]_treeVars PROVE PinInv'
  OBVIOUS
<1>1. CASE UNCHANGED treeVars
  BY <1>1, PinUnsent DEF treeVars, TreeInv
<1>2. ASSUME NEW t \in SideTabs, Answer(t) \/ SetState(t) \/ Reload(t) PROVE PinInv'
  <2>1. UNCHANGED <<pins, pinned, raced, sent>>
    BY <1>2 DEF Answer, SetState, Reload
  <2>2. QED
    BY <2>1, PinUnsent DEF TreeInv
<1>3. QED
  BY <1>1, <1>2, PinAsks, PinReads, PinWrites, PinHandles DEF TreeNext

(* What the sidebar promises (layout.js, api/pins): however requests         *)
(* overlap, the list of pins keeps to its limit and names a page once; it    *)
(* holds what the answered requests said unless two of them overlapped; and  *)
(* a tab at rest shows its own last change unless two refreshes overlapped.  *)
THEOREM SidebarHoldsAlways == TreeSpec => []SidebarHolds
<1>1. TreeInit => TreeInv /\ LoadInv /\ PinInv
  BY TreeStarts, LoadStarts, PinStarts
<1>2. TreeInv /\ LoadInv /\ PinInv /\ [TreeNext]_treeVars => (TreeInv /\ LoadInv /\ PinInv)'
  BY TreeStep, LoadStep, PinStep
<1>3. TreeInv /\ LoadInv /\ PinInv => SidebarHolds
  <2> SUFFICES ASSUME LoadInv, PinInv PROVE SidebarHolds
    OBVIOUS
  <2>1. PinLimit /\ PinsAsAnswered
    BY DEF PinInv, Pins, PinLimit, PinsAsAnswered
  <2>2. CaughtUp
    <3> SUFFICES ASSUME NEW t \in SideTabs, side[t].loads = <<>>, t \notin crossed
                 PROVE  seen[t] >= own[t]
      BY DEF CaughtUp
    <3>1. Len(<<>>) # 1
      OBVIOUS
    <3>2. QED
      BY <3>1 DEF LoadInv, Rests
  <2>3. QED
    BY <2>1, <2>2 DEF SidebarHolds
<1>4. QED
  BY <1>1, <1>2, <1>3, PTL DEF TreeSpec

-----------------------------------------------------------------------------
(* Sequences from which an element is taken, and into which one is put.      *)

LEMMA Pieces ==
  ASSUME NEW S, NEW s \in Seq(S), NEW m \in Int, NEW n \in Int, 1 <= m, m <= n + 1, n <= Len(s)
  PROVE  /\ SubSeq(s, m, n) \in Seq(S) /\ Len(SubSeq(s, m, n)) = n - m + 1
         /\ \A j \in 1 .. n - m + 1 : SubSeq(s, m, n)[j] = s[m + j - 1]
<1>1. Len(s) \in Nat /\ DOMAIN s = 1 .. Len(s) /\ \A j \in 1 .. Len(s) : s[j] \in S
  OBVIOUS
<1>2. \A j \in m .. n : s[j] \in S
  BY <1>1
<1>3. /\ SubSeq(s, m, n) \in Seq(S)
      /\ Len(SubSeq(s, m, n)) = IF m <= n THEN n - m + 1 ELSE 0
      /\ \A j \in 1 .. n - m + 1 : SubSeq(s, m, n)[j] = s[m + j - 1]
  BY <1>2, SubSeqProperties
<1>4. (IF m <= n THEN n - m + 1 ELSE 0) = n - m + 1
  OBVIOUS
<1>5. QED
  BY <1>3, <1>4

LEMMA Taken ==
  ASSUME NEW S, NEW s \in Seq(S), NEW i \in 1 .. Len(s)
  PROVE  /\ RemoveAt(s, i) \in Seq(S) /\ Len(RemoveAt(s, i)) = Len(s) - 1
         /\ \A j \in 1 .. Len(s) - 1 : RemoveAt(s, i)[j] = IF j < i THEN s[j] ELSE s[j + 1]
<1> DEFINE a == SubSeq(s, 1, i - 1)
           b == SubSeq(s, i + 1, Len(s))
<1>1. Len(s) \in Nat /\ i \in Int /\ 1 <= i /\ i <= Len(s)
  OBVIOUS
<1>2. /\ a \in Seq(S) /\ Len(a) = (i - 1) - 1 + 1
      /\ \A j \in 1 .. (i - 1) - 1 + 1 : a[j] = s[1 + j - 1]
  BY <1>1, Pieces
<1>3. /\ b \in Seq(S) /\ Len(b) = Len(s) - (i + 1) + 1
      /\ \A j \in 1 .. Len(s) - (i + 1) + 1 : b[j] = s[(i + 1) + j - 1]
  BY <1>1, Pieces
<1> HIDE DEF a, b
<1>4. /\ a \o b \in Seq(S) /\ Len(a \o b) = Len(a) + Len(b)
      /\ \A j \in 1 .. Len(a) + Len(b) : (a \o b)[j] = IF j <= Len(a) THEN a[j] ELSE b[j - Len(a)]
  BY <1>2, <1>3, ConcatProperties
<1>5. Len(a) = i - 1 /\ Len(b) = Len(s) - i
  BY <1>1, <1>2, <1>3
<1>6. ASSUME NEW j \in 1 .. Len(s) - 1 PROVE (a \o b)[j] = IF j < i THEN s[j] ELSE s[j + 1]
  <2>1. (a \o b)[j] = IF j <= i - 1 THEN a[j] ELSE b[j - (i - 1)]
    BY <1>1, <1>4, <1>5
  <2>2. CASE j < i
    <3>1. j <= i - 1 /\ j \in 1 .. (i - 1) - 1 + 1 /\ 1 + j - 1 = j
      BY <1>1, <2>2
    <3>2. QED
      BY <1>2, <2>1, <2>2, <3>1
  <2>3. CASE ~(j < i)
    <3>1. ~(j <= i - 1) /\ j - (i - 1) \in 1 .. Len(s) - (i + 1) + 1 /\ (i + 1) + (j - (i - 1)) - 1 = j + 1
      BY <1>1, <2>3
    <3>2. QED
      BY <1>3, <2>1, <2>3, <3>1
  <2>4. QED
    BY <2>2, <2>3
<1>7. RemoveAt(s, i) = a \o b
  BY DEF RemoveAt, a, b
<1>8. Len(a) + Len(b) = Len(s) - 1
  BY <1>1, <1>5
<1>9. QED
  BY <1>4, <1>6, <1>7, <1>8

LEMMA Put ==
  ASSUME NEW S, NEW s \in Seq(S), NEW e \in S, NEW i \in 1 .. Len(s) + 1
  PROVE  /\ InsertAt(s, i, e) \in Seq(S) /\ Len(InsertAt(s, i, e)) = Len(s) + 1
         /\ \A j \in 1 .. Len(s) + 1 :
              InsertAt(s, i, e)[j] = IF j < i THEN s[j] ELSE IF j = i THEN e ELSE s[j - 1]
<1> DEFINE a == SubSeq(s, 1, i - 1)
           b == SubSeq(s, i, Len(s))
           c == a \o <<e>>
<1>1. Len(s) \in Nat /\ i \in Int /\ 1 <= i /\ i <= Len(s) + 1
  OBVIOUS
<1>2. /\ a \in Seq(S) /\ Len(a) = (i - 1) - 1 + 1
      /\ \A j \in 1 .. (i - 1) - 1 + 1 : a[j] = s[1 + j - 1]
  BY <1>1, Pieces
<1>3. /\ b \in Seq(S) /\ Len(b) = Len(s) - i + 1
      /\ \A j \in 1 .. Len(s) - i + 1 : b[j] = s[i + j - 1]
  BY <1>1, Pieces
<1>4. <<e>> \in Seq(S) /\ Len(<<e>>) = 1 /\ <<e>>[1] = e
  OBVIOUS
<1> HIDE DEF a, b
<1>5. /\ c \in Seq(S) /\ Len(c) = Len(a) + Len(<<e>>)
      /\ \A j \in 1 .. Len(a) + Len(<<e>>) : c[j] = IF j <= Len(a) THEN a[j] ELSE <<e>>[j - Len(a)]
  BY <1>2, <1>4, ConcatProperties
<1> HIDE DEF c
<1>6. /\ c \o b \in Seq(S) /\ Len(c \o b) = Len(c) + Len(b)
      /\ \A j \in 1 .. Len(c) + Len(b) : (c \o b)[j] = IF j <= Len(c) THEN c[j] ELSE b[j - Len(c)]
  <2>1. c \in Seq(S) /\ b \in Seq(S)
    BY <1>3, <1>5
  <2>2. QED
    BY <2>1, ConcatProperties
<1>7. Len(a) = i - 1 /\ Len(c) = i /\ Len(b) = Len(s) - i + 1
  BY <1>1, <1>2, <1>3, <1>4, <1>5
<1>8. ASSUME NEW j \in 1 .. Len(s) + 1
      PROVE  (c \o b)[j] = IF j < i THEN s[j] ELSE IF j = i THEN e ELSE s[j - 1]
  <2>1. (c \o b)[j] = IF j <= i THEN c[j] ELSE b[j - i]
    BY <1>1, <1>6, <1>7
  <2>2. CASE j < i
    <3>1. j \in 1 .. Len(a) + Len(<<e>>) /\ j <= Len(a) /\ j \in 1 .. (i - 1) - 1 + 1 /\ 1 + j - 1 = j /\ j <= i
      BY <1>1, <1>4, <1>7, <2>2
    <3>2. QED
      BY <1>2, <1>5, <2>1, <2>2, <3>1
  <2>3. CASE j = i
    <3>1. j \in 1 .. Len(a) + Len(<<e>>) /\ ~(j <= Len(a)) /\ j - Len(a) = 1 /\ j <= i /\ ~(j < i)
      BY <1>1, <1>4, <1>7, <2>3
    <3>2. c[j] = <<e>>[1]
      BY <1>5, <3>1
    <3>3. QED
      BY <1>4, <2>1, <2>3, <3>1, <3>2
  <2>4. CASE i < j
    <3>1. ~(j <= i) /\ j - i \in 1 .. Len(s) - i + 1 /\ i + (j - i) - 1 = j - 1 /\ ~(j < i) /\ j # i
      BY <1>1, <2>4
    <3>2. QED
      BY <1>3, <2>1, <3>1
  <2>5. j < i \/ j = i \/ i < j
    BY <1>1
  <2>6. QED
    BY <2>2, <2>3, <2>4, <2>5
<1>9. InsertAt(s, i, e) = c \o b
  BY DEF InsertAt, a, b, c
<1>10. Len(c) + Len(b) = Len(s) + 1
  BY <1>1, <1>7
<1>11. QED
  BY <1>6, <1>8, <1>9, <1>10

-----------------------------------------------------------------------------
(* The widgets of a dashboard, each there once.                              *)

WidgetRow == [id : Nat, rev : Nat]
Proper(w, m) ==
  /\ w \in Seq(WidgetRow)
  /\ \A i \in 1 .. Len(w) : w[i].id \in 1 .. m
  /\ \A i, j \in 1 .. Len(w) : w[i].id = w[j].id => i = j

LEMMA Dropped ==
  ASSUME NEW w, NEW m \in Nat, Proper(w, m), NEW i \in 1 .. Len(w)
  PROVE  /\ Proper(RemoveAt(w, i), m)
         /\ WidgetIds(RemoveAt(w, i)) = WidgetIds(w) \ {w[i].id}
<1> DEFINE r == RemoveAt(w, i)
<1>1. /\ w \in Seq(WidgetRow) /\ Len(w) \in Nat /\ DOMAIN w = 1 .. Len(w)
      /\ \A j \in 1 .. Len(w) : w[j].id \in 1 .. m
      /\ \A j, k \in 1 .. Len(w) : w[j].id = w[k].id => j = k
  BY DEF Proper
<1>2. /\ r \in Seq(WidgetRow) /\ Len(r) = Len(w) - 1
      /\ \A j \in 1 .. Len(w) - 1 : r[j] = IF j < i THEN w[j] ELSE w[j + 1]
  BY <1>1, Taken
<1> HIDE DEF r
<1>3. DOMAIN r = 1 .. Len(w) - 1
  BY <1>2
<1>4. \A j \in 1 .. Len(w) - 1 : j \in 1 .. Len(w) /\ j + 1 \in 1 .. Len(w)
  BY <1>1
<1>5. \A j \in 1 .. Len(w) - 1 : r[j].id \in 1 .. m
  BY <1>1, <1>2, <1>4
<1>6. ASSUME NEW j \in 1 .. Len(w) - 1, NEW k \in 1 .. Len(w) - 1, r[j].id = r[k].id
      PROVE  j = k
  <2>1. (IF j < i THEN j ELSE j + 1) = (IF k < i THEN k ELSE k + 1)
    BY <1>1, <1>2, <1>4, <1>6
  <2>2. QED
    BY <2>1, <1>1
<1>7. Proper(r, m)
  BY <1>1, <1>2, <1>5, <1>6 DEF Proper
<1>8. ASSUME NEW j \in 1 .. Len(w) - 1 PROVE r[j].id \in WidgetIds(w) \ {w[i].id}
  <2>1. PICK k \in 1 .. Len(w) : k # i /\ r[j] = w[k]
    <3>1. CASE j < i
      BY <1>1, <1>2, <1>4, <3>1
    <3>2. CASE ~(j < i)
      <4>1. j + 1 # i
        BY <1>1, <3>2
      <4>2. QED
        BY <1>2, <1>4, <3>2, <4>1
    <3>3. QED
      BY <3>1, <3>2
  <2>2. w[k].id # w[i].id
    BY <1>1, <2>1
  <2>3. QED
    BY <1>1, <2>1, <2>2 DEF WidgetIds
<1>9. ASSUME NEW k \in 1 .. Len(w), k # i PROVE w[k].id \in WidgetIds(r)
  <2>1. CASE k < i
    <3>1. k \in 1 .. Len(w) - 1
      BY <1>1, <2>1
    <3>2. r[k] = w[k]
      BY <1>2, <2>1, <3>1
    <3>3. QED
      BY <1>3, <3>1, <3>2 DEF WidgetIds
  <2>2. CASE ~(k < i)
    <3>1. k - 1 \in 1 .. Len(w) - 1 /\ ~(k - 1 < i) /\ (k - 1) + 1 = k
      BY <1>1, <1>9, <2>2
    <3>2. r[k - 1] = w[k]
      BY <1>2, <3>1
    <3>3. QED
      BY <1>3, <3>1, <3>2 DEF WidgetIds
  <2>3. QED
    BY <2>1, <2>2
<1>10. WidgetIds(r) = WidgetIds(w) \ {w[i].id}
  <2>1. ASSUME NEW x \in WidgetIds(r) PROVE x \in WidgetIds(w) \ {w[i].id}
    BY <1>3, <1>8 DEF WidgetIds
  <2>2. ASSUME NEW x \in WidgetIds(w), x # w[i].id PROVE x \in WidgetIds(r)
    BY <1>1, <1>9, <2>2 DEF WidgetIds
  <2>3. QED
    BY <2>1, <2>2
<1>11. QED
  BY <1>7, <1>10 DEF r

LEMMA Inserted ==
  ASSUME NEW w, NEW m \in Nat, Proper(w, m), NEW i \in 1 .. Len(w) + 1,
         NEW e \in WidgetRow, e.id \in 1 .. m, e.id \notin WidgetIds(w)
  PROVE  /\ Proper(InsertAt(w, i, e), m)
         /\ WidgetIds(InsertAt(w, i, e)) = WidgetIds(w) \union {e.id}
<1>1. /\ w \in Seq(WidgetRow) /\ Len(w) \in Nat /\ DOMAIN w = 1 .. Len(w)
      /\ \A j \in 1 .. Len(w) : w[j].id \in 1 .. m
      /\ \A j, k \in 1 .. Len(w) : w[j].id = w[k].id => j = k
  BY DEF Proper
<1>p. w \in Seq(WidgetRow) /\ e \in WidgetRow /\ i \in 1 .. Len(w) + 1
  BY <1>1
<1>q. /\ InsertAt(w, i, e) \in Seq(WidgetRow) /\ Len(InsertAt(w, i, e)) = Len(w) + 1
      /\ \A j \in 1 .. Len(w) + 1 :
           InsertAt(w, i, e)[j] = IF j < i THEN w[j] ELSE IF j = i THEN e ELSE w[j - 1]
  BY <1>p, Put
<1> DEFINE r == InsertAt(w, i, e)
           n == Len(w) + 1
<1>2. /\ r \in Seq(WidgetRow) /\ Len(r) = n
      /\ \A j \in 1 .. n : r[j] = IF j < i THEN w[j] ELSE IF j = i THEN e ELSE w[j - 1]
  BY <1>q
<1>a. n \in Nat /\ \A j \in 1 .. n : /\ j < i => j \in 1 .. Len(w)
                                     /\ ~(j < i) /\ j # i => j - 1 \in 1 .. Len(w)
  BY <1>1
<1>b. i \in 1 .. n /\ \A k \in 1 .. Len(w) : k \in 1 .. n /\ k + 1 \in 1 .. n /\ (k + 1) - 1 = k
  BY <1>1
<1> HIDE DEF r, n
<1>3. DOMAIN r = 1 .. n
  BY <1>2
<1>4. \A j \in 1 .. Len(w) : w[j].id \in WidgetIds(w) /\ w[j].id # e.id
  BY <1>1 DEF WidgetIds
<1>5. \A j \in 1 .. n : r[j].id \in 1 .. m
  <2>1. ASSUME NEW j \in 1 .. n PROVE r[j].id \in 1 .. m
    <3>1. r[j] = e \/ \E k \in 1 .. Len(w) : r[j] = w[k]
      BY <1>2, <1>a
    <3>2. QED
      BY <1>1, <3>1
  <2>2. QED
    BY <2>1
<1>6. ASSUME NEW j \in 1 .. n, NEW k \in 1 .. n, r[j].id = r[k].id
      PROVE  j = k
  <2>1. CASE j = i
    <3>1. r[j] = e
      BY <1>2, <1>b, <2>1
    <3>2. CASE k = i
      BY <2>1, <3>2
    <3>3. CASE k # i
      <4>1. \E l \in 1 .. Len(w) : r[k] = w[l]
        BY <1>2, <1>a, <3>3
      <4>2. QED
        BY <1>4, <1>6, <3>1, <4>1
    <3>4. QED
      BY <3>2, <3>3
  <2>2. CASE k = i /\ j # i
    <3>1. r[k] = e
      BY <1>2, <1>b, <2>2
    <3>2. \E l \in 1 .. Len(w) : r[j] = w[l]
      BY <1>2, <1>a, <2>2
    <3>3. QED
      BY <1>4, <1>6, <3>1, <3>2
  <2>3. CASE k # i /\ j # i
    <3>1. /\ (IF j < i THEN j ELSE j - 1) \in 1 .. Len(w) /\ r[j] = w[IF j < i THEN j ELSE j - 1]
          /\ (IF k < i THEN k ELSE k - 1) \in 1 .. Len(w) /\ r[k] = w[IF k < i THEN k ELSE k - 1]
      BY <1>2, <1>a, <2>3
    <3>2. (IF j < i THEN j ELSE j - 1) = (IF k < i THEN k ELSE k - 1)
      BY <1>1, <1>6, <3>1
    <3>3. QED
      BY <1>a, <1>b, <2>3, <3>2
  <2>4. QED
    BY <2>1, <2>2, <2>3
<1>7. Proper(r, m)
  BY <1>2, <1>5, <1>6 DEF Proper
<1>8. ASSUME NEW j \in 1 .. n PROVE r[j].id \in WidgetIds(w) \union {e.id}
  <2>1. r[j] = e \/ \E k \in 1 .. Len(w) : r[j] = w[k]
    BY <1>2, <1>a
  <2>2. QED
    BY <1>4, <2>1
<1>9. ASSUME NEW k \in 1 .. Len(w) PROVE w[k].id \in WidgetIds(r)
  <2>1. CASE k < i
    <3>1. r[k] = w[k]
      BY <1>2, <1>b, <2>1
    <3>2. QED
      BY <1>3, <1>b, <3>1 DEF WidgetIds
  <2>2. CASE ~(k < i)
    <3>1. ~(k + 1 < i) /\ k + 1 # i
      BY <1>b, <2>2, <1>a
    <3>2. r[k + 1] = w[k]
      BY <1>2, <1>b, <3>1
    <3>3. QED
      BY <1>3, <1>b, <3>2 DEF WidgetIds
  <2>3. QED
    BY <2>1, <2>2
<1>10. e.id \in WidgetIds(r)
  <2>1. r[i] = e
    BY <1>2, <1>b
  <2>2. QED
    BY <1>3, <1>b, <2>1 DEF WidgetIds
<1>11. WidgetIds(r) = WidgetIds(w) \union {e.id}
  <2>1. ASSUME NEW x \in WidgetIds(r) PROVE x \in WidgetIds(w) \union {e.id}
    BY <1>3, <1>8 DEF WidgetIds
  <2>2. ASSUME NEW x \in WidgetIds(w) PROVE x \in WidgetIds(r)
    BY <1>1, <1>9, <2>2 DEF WidgetIds
  <2>3. QED
    BY <1>10, <2>1, <2>2
<1>12. QED
  BY <1>7, <1>11 DEF r

(* A widget that is dropped elsewhere. *)
LEMMA Reordered ==
  ASSUME NEW w, NEW m \in Nat, Proper(w, m), NEW from \in 1 .. Len(w), NEW to \in 1 .. Len(w)
  PROVE  /\ Proper(Moved(w, from, to), m) /\ Len(Moved(w, from, to)) = Len(w)
         /\ WidgetIds(Moved(w, from, to)) = WidgetIds(w)
<1> DEFINE r == RemoveAt(w, from)
<1>1. w \in Seq(WidgetRow) /\ Len(w) \in Nat /\ DOMAIN w = 1 .. Len(w) /\ w[from].id \in 1 .. m
  BY DEF Proper
<1>2. w[from] \in WidgetRow
  BY <1>1
<1>3. r \in Seq(WidgetRow) /\ Len(r) = Len(w) - 1
  BY <1>1, Taken
<1>4. Proper(r, m) /\ WidgetIds(r) = WidgetIds(w) \ {w[from].id}
  BY Dropped
<1>5. w[from].id \in WidgetIds(w)
  BY <1>1 DEF WidgetIds
<1> HIDE DEF r
<1>6. to \in 1 .. Len(r) + 1 /\ Len(r) + 1 = Len(w)
  BY <1>1, <1>3
<1>7. /\ Proper(InsertAt(r, to, w[from]), m)
      /\ WidgetIds(InsertAt(r, to, w[from])) = WidgetIds(r) \union {w[from].id}
  BY <1>1, <1>2, <1>4, <1>6, Inserted
<1>8. Len(InsertAt(r, to, w[from])) = Len(w)
  BY <1>2, <1>3, <1>6, Put
<1>9. QED
  BY <1>4, <1>5, <1>7, <1>8 DEF Moved, r

LEMMA Configured ==
  ASSUME NEW w, NEW m \in Nat, Proper(w, m), NEW i \in 1 .. Len(w), NEW v \in Nat
  PROVE  /\ Proper([w EXCEPT ![i].rev = v], m) /\ Len([w EXCEPT ![i].rev = v]) = Len(w)
         /\ WidgetIds([w EXCEPT ![i].rev = v]) = WidgetIds(w)
<1> DEFINE r == [w EXCEPT ![i].rev = v]
<1>1. w \in Seq(WidgetRow) /\ Len(w) \in Nat /\ DOMAIN w = 1 .. Len(w)
  BY DEF Proper
<1>2. w[i] \in WidgetRow /\ [w[i] EXCEPT !.rev = v] \in WidgetRow /\ [w[i] EXCEPT !.rev = v].id = w[i].id
  <2>1. w[i] \in WidgetRow
    BY <1>1
  <2>2. QED
    BY <2>1 DEF WidgetRow
<1>3. /\ r \in Seq(WidgetRow) /\ Len(r) = Len(w) /\ DOMAIN r = DOMAIN w
      /\ \A j \in 1 .. Len(w) : r[j].id = w[j].id
  BY <1>1, <1>2
<1> HIDE DEF r
<1>4. Proper(r, m)
  BY <1>3 DEF Proper
<1>5. WidgetIds(r) = WidgetIds(w)
  BY <1>1, <1>3 DEF WidgetIds
<1>6. QED
  BY <1>3, <1>4, <1>5 DEF r

LEMMA Added ==
  ASSUME NEW w, NEW m \in Nat, Proper(w, m), NEW e \in WidgetRow, e.id = m + 1
  PROVE  /\ Proper(Append(w, e), m + 1) /\ Len(Append(w, e)) = Len(w) + 1
         /\ WidgetIds(Append(w, e)) = WidgetIds(w) \union {m + 1}
<1> DEFINE r == Append(w, e)
           n == Len(w) + 1
<1>1. /\ w \in Seq(WidgetRow) /\ Len(w) \in Nat /\ DOMAIN w = 1 .. Len(w)
      /\ \A j \in 1 .. Len(w) : w[j].id \in 1 .. m
      /\ \A j, k \in 1 .. Len(w) : w[j].id = w[k].id => j = k
  BY DEF Proper
<1>2. /\ r \in Seq(WidgetRow) /\ Len(r) = n /\ DOMAIN r = 1 .. n
      /\ r[n] = e /\ \A j \in 1 .. Len(w) : r[j] = w[j]
  BY <1>1, AppendProperties
<1>3. n \in 1 .. n /\ \A j \in 1 .. n : j = n \/ j \in 1 .. Len(w)
  BY <1>1
<1>4. \A j \in 1 .. Len(w) : j \in 1 .. n /\ j # n
  BY <1>1
<1> HIDE DEF r, n
<1>5. 1 .. m \subseteq 1 .. m + 1 /\ m + 1 \in 1 .. m + 1 /\ m + 1 \notin 1 .. m
  OBVIOUS
<1>6. \A j \in 1 .. n : r[j].id \in 1 .. m + 1
  BY <1>1, <1>2, <1>3, <1>5
<1>7. \A j, k \in 1 .. n : r[j].id = r[k].id => j = k
  BY <1>1, <1>2, <1>3, <1>5
<1>8. Proper(r, m + 1)
  BY <1>2, <1>6, <1>7 DEF Proper
<1>9. WidgetIds(r) = WidgetIds(w) \union {m + 1}
  <2>1. ASSUME NEW x \in WidgetIds(r) PROVE x \in WidgetIds(w) \union {m + 1}
    BY <1>1, <1>2, <1>3 DEF WidgetIds
  <2>2. ASSUME NEW x \in WidgetIds(w) PROVE x \in WidgetIds(r)
    BY <1>1, <1>2, <1>4, <2>2 DEF WidgetIds
  <2>3. m + 1 \in WidgetIds(r)
    BY <1>2, <1>3 DEF WidgetIds
  <2>4. QED
    BY <2>1, <2>2, <2>3
<1>10. QED
  BY <1>2, <1>8, <1>9 DEF r, n

(* There are as many numbers as widgets. *)
LEMMA Counted ==
  ASSUME NEW w, NEW m \in Nat, Proper(w, m)
  PROVE  Cardinality(WidgetIds(w)) = Len(w)
<1>1. /\ w \in Seq(WidgetRow) /\ Len(w) \in Nat /\ DOMAIN w = 1 .. Len(w)
      /\ \A j, k \in 1 .. Len(w) : w[j].id = w[k].id => j = k
  BY DEF Proper
<1> DEFINE f == [j \in 1 .. Len(w) |-> w[j].id]
<1>2. f \in Bijection(1 .. Len(w), WidgetIds(w))
  <2>1. \A j \in 1 .. Len(w) : w[j].id \in WidgetIds(w)
    BY <1>1 DEF WidgetIds
  <2>2. \A x \in WidgetIds(w) : \E j \in 1 .. Len(w) : w[j].id = x
    BY <1>1 DEF WidgetIds
  <2>3. f \in Injection(1 .. Len(w), WidgetIds(w))
    BY <1>1, <2>1 DEF Injection, IsInjective
  <2>4. f \in Surjection(1 .. Len(w), WidgetIds(w))
    BY <2>1, <2>2 DEF Surjection
  <2>5. QED
    BY <2>3, <2>4 DEF Bijection
<1>3. IsFiniteSet(1 .. Len(w)) /\ Cardinality(1 .. Len(w)) = Len(w)
  <2>1. ASSUME NEW n \in Nat PROVE IsFiniteSet(1 .. n) /\ Cardinality(1 .. n) = n
    <3>1. IsFiniteSet(1 .. n) /\ Cardinality(1 .. n) = IF 1 > n THEN 0 ELSE n - 1 + 1
      BY FS_Interval
    <3>2. QED
      BY <3>1
  <2>2. QED
    BY <1>1, <2>1
<1>4. QED
  BY <1>2, <1>3, FS_Bijection DEF ExistsBijection

-----------------------------------------------------------------------------
(* The inductive invariant.                                                  *)

UserPage == [visibility : {"private", "org", "public"}, shared : SUBSET Peers,
             widgets : Seq(WidgetRow), version : Nat]
PageTab == [page : UserPage, widgets : Seq(WidgetRow), data : Seq(WidgetRow),
            editing : BOOLEAN, edit : Nat]
DialogRequest == [at : {"patch", "get", "answer"}, row : UserPage, field : {"shared", "visibility"}]
SaveRequest == [at : {"no", "patch", "done"}, widgets : Seq(WidgetRow), version : Nat]

EditTypes ==
  /\ row \in UserPage /\ open \in [EditTabs -> PageTab]
  /\ patches \in [EditTabs -> Seq(DialogRequest)]
  /\ save \in [EditTabs -> SaveRequest] /\ loads \in [EditTabs -> Seq(Seq(WidgetRow))]
  /\ added \in Nat /\ have \in [EditTabs -> SUBSET Nat]
  /\ latest \in EditTabs \union {NoTab} /\ trusted \subseteq EditTabs

(* What is stored and what is being saved was once shown, and numbers are    *)
(* not used twice.                                                           *)
WidgetsInv ==
  /\ Proper(row.widgets, added)
  /\ \A t \in EditTabs :
       /\ Proper(open[t].widgets, added) /\ Proper(save[t].widgets, added)
       /\ WidgetIds(open[t].widgets) = have[t]
       /\ open[t].edit \in 0 .. Len(open[t].widgets)

(* A tab that is trusted has one load under way at most, unless it saves;    *)
(* then what it loads next is what it saved.                                 *)
DataInv ==
  \A t \in trusted :
    /\ save[t] = NoSave =>
         /\ loads[t] = <<>> \/ Len(loads[t]) = 1
         /\ ~open[t].editing =>
              /\ loads[t] = <<>> => open[t].data = open[t].widgets
              /\ loads[t] # <<>> => loads[t][1] = open[t].widgets
    /\ save[t] # NoSave /\ ~open[t].editing => open[t].widgets = save[t].widgets

(* The tab that changed the page last and has one request at most is told by *)
(* it, or was told, what is stored.                                          *)
SameSharing(p, r) == p.shared = r.shared /\ p.visibility = r.visibility
SharingInv ==
  \A t \in EditTabs \ tangled :
    /\ patches[t] = <<>> \/ Len(patches[t]) = 1
    /\ latest = t =>
         /\ patches[t] = <<>> => SameSharing(open[t].page, row)
         /\ patches[t] # <<>> /\ patches[t][1].at = "answer" => SameSharing(patches[t][1].row, row)

EditInv == EditTypes /\ WidgetsInv /\ DataInv /\ SharingInv

-----------------------------------------------------------------------------
(* Types.                                                                    *)

LEMMA ListBlank == <<>> \in Seq(WidgetRow) /\ NoSave \in SaveRequest
  BY DEF NoSave, SaveRequest

LEMMA EditSequences ==
  ASSUME EditTypes, NEW t \in EditTabs
  PROVE  /\ open[t] \in PageTab /\ patches[t] \in Seq(DialogRequest) /\ save[t] \in SaveRequest
         /\ loads[t] \in Seq(Seq(WidgetRow)) /\ have[t] \in SUBSET Nat
         /\ Len(patches[t]) \in Nat /\ DOMAIN patches[t] = 1 .. Len(patches[t])
         /\ Len(loads[t]) \in Nat /\ DOMAIN loads[t] = 1 .. Len(loads[t])
         /\ open[t].widgets \in Seq(WidgetRow) /\ save[t].widgets \in Seq(WidgetRow)
         /\ Len(open[t].widgets) \in Nat /\ DOMAIN open[t].widgets = 1 .. Len(open[t].widgets)
<1>1. /\ open[t] \in PageTab /\ patches[t] \in Seq(DialogRequest) /\ save[t] \in SaveRequest
      /\ loads[t] \in Seq(Seq(WidgetRow)) /\ have[t] \in SUBSET Nat
  BY DEF EditTypes
<1>2. open[t].widgets \in Seq(WidgetRow) /\ save[t].widgets \in Seq(WidgetRow)
  BY <1>1 DEF PageTab, SaveRequest
<1>3. \A S : \A s \in Seq(S) : Len(s) \in Nat /\ DOMAIN s = 1 .. Len(s)
  OBVIOUS
<1>4. QED
  BY <1>1, <1>2, <1>3

LEMMA SendsTypes ==
  ASSUME EditTypes, NEW t \in EditTabs, NEW r \in DialogRequest, Sends(t, r)
  PROVE  EditTypes'
<1>1. Append(patches[t], r) \in Seq(DialogRequest)
  BY EditSequences
<1>2. patches' \in [EditTabs -> Seq(DialogRequest)]
  BY <1>1 DEF EditTypes, Sends
<1>3. QED
  BY <1>2 DEF EditTypes, Sends

LEMMA DialogRequests ==
  ASSUME EditTypes, NEW t \in EditTabs
  PROVE  /\ UpdateSharing(t) => \E r \in DialogRequest : r.at = "patch" /\ Sends(t, r)
         /\ UpdateVisibility(t) => \E r \in DialogRequest : r.at = "patch" /\ Sends(t, r)
<1>1. open[t].page \in UserPage
  BY EditSequences DEF PageTab
<1>2. ASSUME UpdateSharing(t) PROVE \E r \in DialogRequest : r.at = "patch" /\ Sends(t, r)
  <2>1. PICK m \in Peers :
          Sends(t, [at |-> "patch", field |-> "shared",
                    row |-> [open[t].page EXCEPT !.shared = (open[t].page.shared \ {m}) \union ({m} \ open[t].page.shared)]])
    BY <1>2 DEF UpdateSharing
  <2>2. [open[t].page EXCEPT !.shared = (open[t].page.shared \ {m}) \union ({m} \ open[t].page.shared)] \in UserPage
    BY <1>1 DEF UserPage
  <2>3. QED
    BY <2>1, <2>2 DEF DialogRequest
<1>3. ASSUME UpdateVisibility(t) PROVE \E r \in DialogRequest : r.at = "patch" /\ Sends(t, r)
  <2>1. PICK v \in {"private", "org", "public"} :
          Sends(t, [at |-> "patch", field |-> "visibility", row |-> [open[t].page EXCEPT !.visibility = v]])
    BY <1>3 DEF UpdateVisibility
  <2>2. [open[t].page EXCEPT !.visibility = v] \in UserPage
    BY <1>1 DEF UserPage
  <2>3. QED
    BY <2>1, <2>2 DEF DialogRequest
<1>4. QED
  BY <1>2, <1>3

(* What an edit in the edit mode takes: a proper list, and a form of it. *)
LEMMA WidgetEdits ==
  ASSUME EditTypes, WidgetsInv, NEW t \in EditTabs,
         \/ AddWidget(t) \/ RemoveWidget(t) \/ UpdateConfig(t) \/ HandleDrop(t) \/ ClickWidget(t)
  PROVE  \E w, e : /\ EditWidgets(t, w, e) /\ added' \in Nat /\ added <= added'
                   /\ Proper(w, added') /\ e \in 0 .. Len(w)
                   /\ have' \in [EditTabs -> SUBSET Nat] /\ have' = [have EXCEPT ![t] = WidgetIds(w)]
<1> DEFINE l == open[t].widgets
<1>1. /\ Proper(l, added) /\ WidgetIds(l) = have[t] /\ open[t].edit \in 0 .. Len(l)
      /\ added \in Nat /\ l \in Seq(WidgetRow) /\ Len(l) \in Nat /\ DOMAIN l = 1 .. Len(l)
      /\ have \in [EditTabs -> SUBSET Nat]
  BY EditSequences DEF WidgetsInv, EditTypes
<1>2. \A w, m : Proper(w, m) /\ m \in Nat => WidgetIds(w) \in SUBSET Nat
  BY DEF Proper, WidgetIds
<1>3. \A h : h = have[t] => have = [have EXCEPT ![t] = h]
  BY <1>1
<1> HIDE DEF l
<1>4. CASE AddWidget(t)
  <2> DEFINE e == [id |-> added + 1, rev |-> 0]
  <2>1. e \in WidgetRow /\ e.id = added + 1 /\ added + 1 \in Nat
    BY <1>1 DEF WidgetRow
  <2>2. /\ EditWidgets(t, Append(l, e), Len(l) + 1) /\ added' = added + 1
        /\ have' = [have EXCEPT ![t] = have[t] \union {added + 1}]
    BY <1>1, <1>4 DEF AddWidget, l
  <2> HIDE DEF e
  <2>3. /\ Proper(Append(l, e), added + 1) /\ Len(Append(l, e)) = Len(l) + 1
        /\ WidgetIds(Append(l, e)) = WidgetIds(l) \union {added + 1}
    BY <1>1, <2>1, Added
  <2>4. have' = [have EXCEPT ![t] = WidgetIds(Append(l, e))] /\ have' \in [EditTabs -> SUBSET Nat]
    BY <1>1, <1>2, <2>1, <2>2, <2>3
  <2>5. Len(l) + 1 \in 0 .. Len(Append(l, e)) /\ added <= added'
    BY <1>1, <2>2, <2>3
  <2>6. QED
    BY <2>1, <2>2, <2>3, <2>4, <2>5
<1>5. CASE RemoveWidget(t)
  <2>1. PICK i \in 1 .. Len(l) :
          /\ EditWidgets(t, RemoveAt(l, i), 0) /\ added' = added
          /\ have' = [have EXCEPT ![t] = have[t] \ {l[i].id}]
    BY <1>1, <1>5 DEF RemoveWidget, l
  <2>2. /\ Proper(RemoveAt(l, i), added)
        /\ WidgetIds(RemoveAt(l, i)) = WidgetIds(l) \ {l[i].id}
    BY <1>1, Dropped
  <2>3. have' = [have EXCEPT ![t] = WidgetIds(RemoveAt(l, i))] /\ have' \in [EditTabs -> SUBSET Nat]
    BY <1>1, <1>2, <2>1, <2>2
  <2>4. 0 \in 0 .. Len(RemoveAt(l, i))
    BY <2>2 DEF Proper
  <2>5. added' \in Nat /\ added <= added' /\ Proper(RemoveAt(l, i), added')
    BY <1>1, <2>1, <2>2
  <2>6. QED
    BY <2>1, <2>3, <2>4, <2>5
<1>6. CASE UpdateConfig(t)
  <2> DEFINE i == open[t].edit
             w == [l EXCEPT ![i].rev = 1]
  <2>1. i # 0 /\ EditWidgets(t, w, i) /\ added' = added /\ have' = have
    BY <1>6 DEF UpdateConfig, l
  <2>2. i \in 1 .. Len(l)
    BY <1>1, <2>1
  <2>3. Proper(w, added) /\ Len(w) = Len(l) /\ WidgetIds(w) = WidgetIds(l)
    BY <1>1, <2>2, Configured
  <2>4. i \in 0 .. Len(w)
    BY <1>1, <2>3
  <2> HIDE DEF w, i
  <2>5. QED
    BY <1>1, <1>3, <2>1, <2>3, <2>4
<1>7. CASE HandleDrop(t)
  <2>1. PICK from \in 1 .. Len(l), to \in 1 .. Len(l) :
          EditWidgets(t, Moved(l, from, to), to) /\ added' = added /\ have' = have
    BY <1>1, <1>7 DEF HandleDrop, l
  <2>2. /\ Proper(Moved(l, from, to), added) /\ Len(Moved(l, from, to)) = Len(l)
        /\ WidgetIds(Moved(l, from, to)) = WidgetIds(l)
    BY <1>1, Reordered
  <2>3. to \in 0 .. Len(Moved(l, from, to))
    BY <1>1, <2>2
  <2>4. QED
    BY <1>1, <1>3, <2>1, <2>2, <2>3
<1>8. CASE ClickWidget(t)
  <2>1. PICK i \in 1 .. Len(l) :
          EditWidgets(t, l, IF open[t].edit = i THEN 0 ELSE i) /\ added' = added /\ have' = have
    BY <1>1, <1>8 DEF ClickWidget, l
  <2>2. (IF open[t].edit = i THEN 0 ELSE i) \in 0 .. Len(l)
    BY <1>1
  <2>3. QED
    BY <1>1, <1>3, <2>1, <2>2
<1>9. QED
  BY <1>4, <1>5, <1>6, <1>7, <1>8

(* The types. *)
LEMMA EditTypesKept ==
  ASSUME EditTypes, WidgetsInv, EditNext
  PROVE  EditTypes'
<1>1. PICK t \in EditTabs :
        \/ UpdateSharing(t) \/ UpdateVisibility(t) \/ Patch(t) \/ Get(t) \/ SetPage(t)
        \/ SetWidgetData(t) \/ Reopen(t) \/ Refresh(t) \/ Edit(t)
        \/ AddWidget(t) \/ RemoveWidget(t) \/ UpdateConfig(t) \/ HandleDrop(t) \/ ClickWidget(t)
        \/ Save(t) \/ Cancel(t) \/ SaveConfig(t) \/ Saved(t)
  BY DEF EditNext
<1>2. row \in UserPage /\ open[t].page \in UserPage /\ row.widgets \in Seq(WidgetRow)
  BY EditSequences DEF PageTab, UserPage, EditTypes
<1>3. CASE UpdateSharing(t) \/ UpdateVisibility(t)
  BY <1>3, DialogRequests, SendsTypes
<1>4. CASE Patch(t)
  <2>1. PICK i \in 1 .. Len(patches[t]) :
          /\ patches[t][i].at = "patch"
          /\ row' = [row EXCEPT ![patches[t][i].field] = patches[t][i].row[patches[t][i].field]]
          /\ latest' = t /\ patches' = [patches EXCEPT ![t][i].at = "get"]
          /\ UNCHANGED <<open, save, loads, added, have, trusted>>
    BY <1>4, EditSequences DEF Patch
  <2>2. patches[t][i] \in DialogRequest
    BY <2>1, EditSequences
  <2>3. row' \in UserPage
    BY <1>2, <2>1, <2>2 DEF UserPage, DialogRequest
  <2>4. [patches[t][i] EXCEPT !.at = "get"] \in DialogRequest
    BY <2>2 DEF DialogRequest
  <2>5. [patches[t] EXCEPT ![i].at = "get"] \in Seq(DialogRequest)
    BY <2>4, EditSequences
  <2>6. patches' \in [EditTabs -> Seq(DialogRequest)]
    BY <2>1, <2>5 DEF EditTypes
  <2>7. QED
    BY <2>1, <2>3, <2>6 DEF EditTypes
<1>5. CASE Get(t)
  <2>1. PICK i \in 1 .. Len(patches[t]) :
          /\ patches' = [patches EXCEPT ![t][i].at = "answer", ![t][i].row = row]
          /\ UNCHANGED <<row, open, save, loads, added, have, latest, trusted>>
    BY <1>5, EditSequences DEF Get
  <2>2. patches[t][i] \in DialogRequest
    BY <2>1, EditSequences
  <2>3. [patches[t][i] EXCEPT !.at = "answer", !.row = row] \in DialogRequest
    BY <1>2, <2>2 DEF DialogRequest
  <2>4. [patches[t] EXCEPT ![i] = [patches[t][i] EXCEPT !.at = "answer", !.row = row]] \in Seq(DialogRequest)
    BY <2>3, EditSequences
  <2>5. patches' = [patches EXCEPT ![t] =
                     [patches[t] EXCEPT ![i] = [patches[t][i] EXCEPT !.at = "answer", !.row = row]]]
    BY <2>1, EditSequences DEF EditTypes
  <2>a. patches' \in [EditTabs -> Seq(DialogRequest)]
    BY <2>4, <2>5 DEF EditTypes
  <2>6. QED
    BY <2>1, <2>a DEF EditTypes
<1>6. CASE SetPage(t)
  <2>1. PICK i \in 1 .. Len(patches[t]) :
          /\ open' = [open EXCEPT ![t].page = patches[t][i].row]
          /\ patches' = [patches EXCEPT ![t] = RemoveAt(patches[t], i)]
          /\ UNCHANGED <<row, save, loads, added, have, latest, trusted>>
    BY <1>6, EditSequences DEF SetPage
  <2>2. patches[t][i] \in DialogRequest
    BY <2>1, EditSequences
  <2>3. [open[t] EXCEPT !.page = patches[t][i].row] \in PageTab
    BY <2>2, EditSequences DEF DialogRequest, PageTab
  <2>4. RemoveAt(patches[t], i) \in Seq(DialogRequest)
    BY <2>1, EditSequences, Taken
  <2>5. open' \in [EditTabs -> PageTab] /\ patches' \in [EditTabs -> Seq(DialogRequest)]
    BY <2>1, <2>3, <2>4 DEF EditTypes
  <2>6. QED
    BY <2>1, <2>5 DEF EditTypes
<1>7. CASE SetWidgetData(t)
  <2>1. PICK i \in 1 .. Len(loads[t]) :
          /\ open' = [open EXCEPT ![t].data = loads[t][i]]
          /\ loads' = [loads EXCEPT ![t] = RemoveAt(loads[t], i)]
          /\ UNCHANGED <<row, patches, save, added, have, latest, trusted>>
    BY <1>7, EditSequences DEF SetWidgetData
  <2>2. loads[t][i] \in Seq(WidgetRow)
    BY <2>1, EditSequences
  <2>3. [open[t] EXCEPT !.data = loads[t][i]] \in PageTab
    BY <2>2, EditSequences DEF PageTab
  <2>4. RemoveAt(loads[t], i) \in Seq(Seq(WidgetRow))
    BY <2>1, EditSequences, Taken
  <2>5. open' \in [EditTabs -> PageTab] /\ loads' \in [EditTabs -> Seq(Seq(WidgetRow))]
    BY <2>1, <2>3, <2>4 DEF EditTypes
  <2>6. QED
    BY <2>1, <2>5 DEF EditTypes
<1>8. CASE Reopen(t)
  <2>1. Loaded(row) \in PageTab
    BY <1>2, ListBlank DEF Loaded, PageTab
  <2>2. <<row.widgets>> \in Seq(Seq(WidgetRow))
    BY <1>2
  <2>3. WidgetIds(row.widgets) \in SUBSET Nat
    BY DEF WidgetsInv, Proper, WidgetIds
  <2>4. open' \in [EditTabs -> PageTab] /\ loads' \in [EditTabs -> Seq(Seq(WidgetRow))]
    BY <1>8, <2>1, <2>2 DEF EditTypes, Reopen
  <2>5. have' \in [EditTabs -> SUBSET Nat] /\ trusted' \subseteq EditTabs
    BY <1>8, <2>3 DEF EditTypes, Reopen
  <2>6. QED
    BY <1>8, <2>4, <2>5 DEF EditTypes, Reopen
<1>9. ASSUME NEW w \in Seq(WidgetRow), LoadWidgetData(t, w)
      PROVE  loads' \in [EditTabs -> Seq(Seq(WidgetRow))] /\ trusted' \subseteq EditTabs
  <2>1. Append(loads[t], w) \in Seq(Seq(WidgetRow))
    BY EditSequences
  <2>2. loads' \in [EditTabs -> Seq(Seq(WidgetRow))]
    BY <1>9, <2>1 DEF EditTypes, LoadWidgetData
  <2>3. trusted' \subseteq EditTabs
    BY <1>9 DEF EditTypes, LoadWidgetData
  <2>4. QED
    BY <2>2, <2>3
<1>10. CASE Refresh(t)
  <2>1. loads' \in [EditTabs -> Seq(Seq(WidgetRow))] /\ trusted' \subseteq EditTabs
    BY <1>9, <1>10, EditSequences DEF Refresh
  <2>2. QED
    BY <1>10, <2>1 DEF EditTypes, Refresh
<1>11. CASE Edit(t)
  <2>1. open' \in [EditTabs -> PageTab]
    BY <1>11 DEF EditTypes, Edit, PageTab
  <2>2. QED
    BY <1>11, <2>1 DEF EditTypes, Edit
<1>12. CASE AddWidget(t) \/ RemoveWidget(t) \/ UpdateConfig(t) \/ HandleDrop(t) \/ ClickWidget(t)
  <2>1. PICK w, e : /\ EditWidgets(t, w, e) /\ added' \in Nat /\ w \in Seq(WidgetRow) /\ e \in 0 .. Len(w)
                    /\ have' \in [EditTabs -> SUBSET Nat]
    BY <1>12, WidgetEdits DEF Proper
  <2>a. e \in Nat
    BY <2>1
  <2>b. [open[t] EXCEPT !.widgets = w, !.edit = e] \in PageTab
    BY <2>1, <2>a, EditSequences DEF PageTab
  <2>2. open' \in [EditTabs -> PageTab]
    BY <2>1, <2>b DEF EditTypes, EditWidgets
  <2>3. QED
    BY <2>1, <2>2 DEF EditTypes, EditWidgets
<1>13. CASE Save(t)
  <2>1. open' \in [EditTabs -> PageTab]
    BY <1>13 DEF EditTypes, Save, Leaves, PageTab
  <2>2. [at |-> "patch", widgets |-> open[t].widgets, version |-> open[t].page.version + 1] \in SaveRequest
    BY <1>2, EditSequences DEF SaveRequest, UserPage
  <2>3. save' \in [EditTabs -> SaveRequest]
    BY <1>13, <2>2 DEF EditTypes, Save
  <2>4. QED
    BY <1>13, <2>1, <2>3 DEF EditTypes, Save
<1>14. CASE Cancel(t)
  <2>1. open' \in [EditTabs -> PageTab]
    BY <1>14 DEF EditTypes, Cancel, Leaves, PageTab
  <2>2. QED
    BY <1>14, <2>1 DEF EditTypes, Cancel
<1>15. CASE SaveConfig(t)
  <2>1. row' \in UserPage
    BY <1>2, <1>15, EditSequences DEF SaveConfig, UserPage, SaveRequest
  <2>2. save' \in [EditTabs -> SaveRequest]
    BY <1>15 DEF EditTypes, SaveConfig, SaveRequest
  <2>3. QED
    BY <1>15, <2>1, <2>2 DEF EditTypes, SaveConfig
<1>16. CASE Saved(t)
  <2>1. loads' \in [EditTabs -> Seq(Seq(WidgetRow))] /\ trusted' \subseteq EditTabs
    BY <1>9, <1>16, EditSequences DEF Saved
  <2>2. save' \in [EditTabs -> SaveRequest]
    BY <1>16, ListBlank DEF EditTypes, Saved
  <2>3. QED
    BY <1>16, <2>1, <2>2 DEF EditTypes, Saved
<1>17. QED
  BY <1>1, <1>3, <1>4, <1>5, <1>6, <1>7, <1>8, <1>10, <1>11, <1>12, <1>13, <1>14, <1>15, <1>16

-----------------------------------------------------------------------------
(* The widgets.                                                              *)

LEMMA ProperGrows ==
  ASSUME NEW w, NEW m \in Nat, NEW n \in Nat, m <= n, Proper(w, m)
  PROVE  Proper(w, n)
<1>1. 1 .. m \subseteq 1 .. n
  OBVIOUS
<1>2. QED
  BY <1>1 DEF Proper

LEMMA BlankProper ==
  ASSUME NEW m \in Nat
  PROVE  Proper(<<>>, m) /\ WidgetIds(<<>>) = {}
<1>1. <<>> \in Seq(WidgetRow) /\ Len(<<>>) = 0 /\ DOMAIN <<>> = {} /\ 1 .. 0 = {}
  OBVIOUS
<1>2. Proper(<<>>, m)
  BY <1>1 DEF Proper
<1>3. WidgetIds(<<>>) = {}
  BY <1>1 DEF WidgetIds
<1>4. QED
  BY <1>2, <1>3

(* The actions that leave the widgets alone. *)
LEMMA WidgetsUntouched ==
  ASSUME EditTypes, NEW t \in EditTabs,
         \/ UpdateSharing(t) \/ UpdateVisibility(t) \/ Patch(t) \/ Get(t) \/ SetPage(t)
         \/ SetWidgetData(t) \/ Refresh(t) \/ Edit(t)
  PROVE  /\ row'.widgets = row.widgets /\ UNCHANGED <<save, added, have>>
         /\ \A u \in EditTabs : open'[u].widgets = open[u].widgets /\ open'[u].edit = open[u].edit
<1>1. open[t] \in PageTab /\ open \in [EditTabs -> PageTab] /\ row \in UserPage
      /\ DOMAIN patches[t] = 1 .. Len(patches[t]) /\ patches[t] \in Seq(DialogRequest)
  BY EditSequences DEF EditTypes
<1>2. CASE UpdateSharing(t) \/ UpdateVisibility(t)
  BY <1>2 DEF UpdateSharing, UpdateVisibility, Sends
<1>3. CASE Patch(t)
  <2>1. PICK i \in DOMAIN patches[t] :
          /\ row' = [row EXCEPT ![patches[t][i].field] = patches[t][i].row[patches[t][i].field]]
          /\ UNCHANGED <<open, save, added, have>>
    BY <1>3 DEF Patch
  <2>2. patches[t][i] \in DialogRequest
    BY <1>1, <2>1
  <2>3. patches[t][i].field # "widgets"
    BY <2>2 DEF DialogRequest
  <2>4. row'.widgets = row.widgets
    BY <1>1, <2>1, <2>3 DEF UserPage
  <2>5. QED
    BY <2>1, <2>4
<1>4. CASE Get(t)
  BY <1>4 DEF Get
<1>5. CASE SetPage(t)
  BY <1>1, <1>5 DEF SetPage, PageTab
<1>6. CASE SetWidgetData(t)
  BY <1>1, <1>6 DEF SetWidgetData, PageTab
<1>7. CASE Refresh(t)
  BY <1>7 DEF Refresh
<1>8. CASE Edit(t)
  BY <1>1, <1>8 DEF Edit, PageTab
<1>9. QED
  BY <1>2, <1>3, <1>4, <1>5, <1>6, <1>7, <1>8

LEMMA WidgetsInvKept ==
  ASSUME EditTypes, WidgetsInv, EditNext
  PROVE  WidgetsInv'
<1>1. PICK t \in EditTabs :
        \/ UpdateSharing(t) \/ UpdateVisibility(t) \/ Patch(t) \/ Get(t) \/ SetPage(t)
        \/ SetWidgetData(t) \/ Reopen(t) \/ Refresh(t) \/ Edit(t)
        \/ AddWidget(t) \/ RemoveWidget(t) \/ UpdateConfig(t) \/ HandleDrop(t) \/ ClickWidget(t)
        \/ Save(t) \/ Cancel(t) \/ SaveConfig(t) \/ Saved(t)
  BY DEF EditNext
<1>2. /\ open[t] \in PageTab /\ open \in [EditTabs -> PageTab] /\ row \in UserPage
      /\ save \in [EditTabs -> SaveRequest] /\ added \in Nat /\ have \in [EditTabs -> SUBSET Nat]
  BY EditSequences DEF EditTypes
<1>3. CASE \/ UpdateSharing(t) \/ UpdateVisibility(t) \/ Patch(t) \/ Get(t) \/ SetPage(t)
           \/ SetWidgetData(t) \/ Refresh(t) \/ Edit(t)
  <2>1. /\ row'.widgets = row.widgets /\ UNCHANGED <<save, added, have>>
        /\ \A u \in EditTabs : open'[u].widgets = open[u].widgets /\ open'[u].edit = open[u].edit
    BY <1>3, WidgetsUntouched
  <2>2. QED
    BY <2>1 DEF WidgetsInv
<1>4. CASE Reopen(t)
  <2>1. /\ open'[t].widgets = row.widgets /\ open'[t].edit = 0
        /\ \A u \in EditTabs \ {t} : open'[u] = open[u]
    BY <1>2, <1>4 DEF Reopen, Loaded
  <2>2. have'[t] = WidgetIds(row.widgets) /\ \A u \in EditTabs \ {t} : have'[u] = have[u]
    BY <1>2, <1>4 DEF Reopen
  <2>3. UNCHANGED <<row, save, added>>
    BY <1>4 DEF Reopen
  <2>4. 0 \in 0 .. Len(row.widgets)
    BY DEF WidgetsInv, Proper
  <2>5. QED
    BY <2>1, <2>2, <2>3, <2>4 DEF WidgetsInv
<1>5. CASE AddWidget(t) \/ RemoveWidget(t) \/ UpdateConfig(t) \/ HandleDrop(t) \/ ClickWidget(t)
  <2>1. PICK w, e : /\ EditWidgets(t, w, e) /\ added' \in Nat /\ added <= added'
                    /\ Proper(w, added') /\ e \in 0 .. Len(w)
                    /\ have' \in [EditTabs -> SUBSET Nat] /\ have' = [have EXCEPT ![t] = WidgetIds(w)]
    BY <1>5, WidgetEdits
  <2>2. /\ open'[t].widgets = w /\ open'[t].edit = e
        /\ \A u \in EditTabs \ {t} : open'[u] = open[u]
    BY <1>2, <2>1 DEF EditWidgets, PageTab
  <2>3. UNCHANGED <<row, save>>
    BY <2>1 DEF EditWidgets
  <2>4. have'[t] = WidgetIds(w) /\ \A u \in EditTabs \ {t} : have'[u] = have[u]
    BY <1>2, <2>1
  <2>5. \A v : Proper(v, added) => Proper(v, added')
    BY <1>2, <2>1, ProperGrows
  <2>6. QED
    BY <2>1, <2>2, <2>3, <2>4, <2>5 DEF WidgetsInv
<1>6. ASSUME Leaves(t), UNCHANGED <<row, added, have>>,
             \A u \in EditTabs : save'[u].widgets = save[u].widgets \/ save'[u].widgets = open[u].widgets
      PROVE  WidgetsInv'
  <2>1. /\ \A u \in EditTabs : open'[u].widgets = open[u].widgets
        /\ \A u \in EditTabs : open'[u].edit = open[u].edit \/ open'[u].edit = 0
    BY <1>2, <1>6 DEF Leaves, PageTab
  <2>2. \A u \in EditTabs : 0 \in 0 .. Len(open[u].widgets)
    BY DEF WidgetsInv, Proper
  <2>3. QED
    BY <1>6, <2>1, <2>2 DEF WidgetsInv
<1>7. CASE Save(t)
  <2>1. \A u \in EditTabs : save'[u].widgets = save[u].widgets \/ save'[u].widgets = open[u].widgets
    BY <1>2, <1>7 DEF Save
  <2>2. QED
    BY <1>6, <1>7, <2>1 DEF Save
<1>8. CASE Cancel(t)
  BY <1>6, <1>8 DEF Cancel
<1>9. CASE SaveConfig(t)
  <2>1. /\ row'.widgets = save[t].widgets /\ \A u \in EditTabs : save'[u].widgets = save[u].widgets
        /\ UNCHANGED <<open, added, have>>
    BY <1>2, <1>9 DEF SaveConfig, UserPage, SaveRequest
  <2>2. QED
    BY <2>1 DEF WidgetsInv
<1>10. CASE Saved(t)
  <2>1. /\ \A u \in EditTabs : save'[u].widgets = save[u].widgets \/ save'[u].widgets = <<>>
        /\ UNCHANGED <<row, open, added, have>>
    BY <1>2, <1>10 DEF Saved, NoSave
  <2>2. Proper(<<>>, added)
    BY <1>2, BlankProper
  <2>3. QED
    BY <2>1, <2>2 DEF WidgetsInv
<1>11. QED
  BY <1>1, <1>3, <1>4, <1>5, <1>7, <1>8, <1>9, <1>10

-----------------------------------------------------------------------------
(* The data.                                                                 *)

LEMMA DataInvKept ==
  ASSUME EditTypes, DataInv, EditNext
  PROVE  DataInv'
<1>1. PICK t \in EditTabs :
        \/ UpdateSharing(t) \/ UpdateVisibility(t) \/ Patch(t) \/ Get(t) \/ SetPage(t)
        \/ SetWidgetData(t) \/ Reopen(t) \/ Refresh(t) \/ Edit(t)
        \/ AddWidget(t) \/ RemoveWidget(t) \/ UpdateConfig(t) \/ HandleDrop(t) \/ ClickWidget(t)
        \/ Save(t) \/ Cancel(t) \/ SaveConfig(t) \/ Saved(t)
  BY DEF EditNext
<1>2. /\ open[t] \in PageTab /\ open \in [EditTabs -> PageTab] /\ trusted \subseteq EditTabs
      /\ save \in [EditTabs -> SaveRequest] /\ loads \in [EditTabs -> Seq(Seq(WidgetRow))]
      /\ loads[t] \in Seq(Seq(WidgetRow)) /\ Len(loads[t]) \in Nat /\ DOMAIN loads[t] = 1 .. Len(loads[t])
  BY EditSequences DEF EditTypes
<1>3. \A w : <<w>> # <<>> /\ Len(<<w>>) = 1 /\ <<w>>[1] = w
  OBVIOUS
<1>4. ASSUME UNCHANGED <<save, loads, trusted>>,
             \A u \in EditTabs : /\ open'[u].editing = open[u].editing
                                 /\ open'[u].data = open[u].data /\ open'[u].widgets = open[u].widgets
      PROVE  DataInv'
  BY <1>2, <1>4 DEF DataInv
<1>5. CASE UpdateSharing(t) \/ UpdateVisibility(t)
  BY <1>4, <1>5 DEF UpdateSharing, UpdateVisibility, Sends
<1>6. CASE Patch(t) \/ Get(t)
  BY <1>4, <1>6 DEF Patch, Get
<1>7. CASE SetPage(t)
  BY <1>2, <1>4, <1>7 DEF SetPage, PageTab
(* Of the tabs, only t changes. *)
<1>8. ASSUME \A u \in EditTabs \ {t} : /\ open'[u] = open[u] /\ save'[u] = save[u] /\ loads'[u] = loads[u]
                                       /\ u \in trusted' => u \in trusted,
             t \in trusted' =>
               /\ save'[t] = NoSave =>
                    /\ loads'[t] = <<>> \/ Len(loads'[t]) = 1
                    /\ ~open'[t].editing =>
                         /\ loads'[t] = <<>> => open'[t].data = open'[t].widgets
                         /\ loads'[t] # <<>> => loads'[t][1] = open'[t].widgets
               /\ save'[t] # NoSave /\ ~open'[t].editing => open'[t].widgets = save'[t].widgets,
             trusted' \subseteq EditTabs
      PROVE  DataInv'
  BY <1>8 DEF DataInv
<1>9. CASE SetWidgetData(t)
  <2>1. PICK i \in 1 .. Len(loads[t]) :
          /\ open' = [open EXCEPT ![t].data = loads[t][i]]
          /\ loads' = [loads EXCEPT ![t] = RemoveAt(loads[t], i)]
          /\ UNCHANGED <<save, trusted>>
    BY <1>2, <1>9 DEF SetWidgetData
  <2>2. /\ RemoveAt(loads[t], i) \in Seq(Seq(WidgetRow))
        /\ Len(RemoveAt(loads[t], i)) = Len(loads[t]) - 1
    BY <1>2, Taken
  <2>3. /\ open'[t].data = loads[t][i] /\ open'[t].widgets = open[t].widgets
        /\ open'[t].editing = open[t].editing /\ loads'[t] = RemoveAt(loads[t], i)
        /\ save'[t] = save[t] /\ trusted' = trusted
    BY <1>2, <2>1 DEF PageTab
  <2>4. ASSUME Len(loads[t]) = 1 PROVE i = 1 /\ RemoveAt(loads[t], i) = <<>>
    <3>1. i = 1
      BY <2>4
    <3>2. Len(RemoveAt(loads[t], i)) = 0
      BY <2>2, <2>4
    <3>3. QED
      BY <2>2, <3>1, <3>2
  <2>5. loads[t] # <<>>
    BY <1>2
  <2>6. /\ \A u \in EditTabs \ {t} : open'[u] = open[u] /\ loads'[u] = loads[u]
        /\ save' = save /\ trusted' = trusted
    BY <1>2, <2>1
  <2>7. t \in trusted' =>
          /\ save'[t] = NoSave =>
               /\ loads'[t] = <<>>
               /\ ~open'[t].editing => open'[t].data = open'[t].widgets
          /\ save'[t] # NoSave /\ ~open'[t].editing => open'[t].widgets = save'[t].widgets
    BY <2>3, <2>4, <2>5 DEF DataInv
  <2>8. QED
    BY <1>2, <1>8, <2>6, <2>7
<1>10. CASE Reopen(t)
  <2>1. /\ open'[t].widgets = row.widgets /\ loads'[t] = <<row.widgets>> /\ save'[t] = NoSave
        /\ \A u \in EditTabs \ {t} : open'[u] = open[u] /\ loads'[u] = loads[u]
        /\ save' = save /\ trusted' = trusted \union {t}
    BY <1>2, <1>10 DEF Reopen, Loaded
  <2>2. QED
    BY <1>2, <1>3, <1>8, <2>1
<1>11. ASSUME NEW w \in Seq(WidgetRow), LoadWidgetData(t, w)
       PROVE  /\ \A u \in EditTabs \ {t} : loads'[u] = loads[u] /\ (u \in trusted' => u \in trusted)
              /\ trusted' \subseteq EditTabs
              /\ t \in trusted' => loads[t] = <<>> /\ loads'[t] = <<w>> /\ (save[t] = NoSave \/ t \in trusted)
  <2>1. /\ loads' = [loads EXCEPT ![t] = Append(loads[t], w)]
        /\ trusted' = IF loads[t] # <<>> THEN trusted \ {t}
                      ELSE IF save[t] = NoSave THEN trusted \union {t} ELSE trusted
    BY <1>11 DEF LoadWidgetData
  <2>2. loads[t] = <<>> => Append(loads[t], w) = <<w>>
    OBVIOUS
  <2>3. QED
    BY <1>2, <2>1, <2>2
<1>12. CASE Refresh(t)
  <2>1. LoadWidgetData(t, open[t].widgets) /\ UNCHANGED <<open, save>> /\ open[t].widgets \in Seq(WidgetRow)
    BY <1>12, EditSequences DEF Refresh
  <2>2. t \in trusted' => loads[t] = <<>> /\ loads'[t] = <<open[t].widgets>> /\ (save[t] = NoSave \/ t \in trusted)
    BY <1>11, <2>1
  <2>3. t \in trusted' /\ save[t] # NoSave /\ ~open[t].editing => open[t].widgets = save[t].widgets
    BY <2>2 DEF DataInv
  <2>4. \A u \in EditTabs \ {t} : loads'[u] = loads[u] /\ (u \in trusted' => u \in trusted)
    BY <1>11, <2>1
  <2>5. trusted' \subseteq EditTabs
    BY <1>11, <2>1
  <2>6. QED
    BY <1>3, <1>8, <2>1, <2>2, <2>3, <2>4, <2>5
<1>13. CASE Saved(t)
  <2>1. /\ LoadWidgetData(t, save[t].widgets) /\ open' = open /\ save[t].widgets \in Seq(WidgetRow)
        /\ save' = [save EXCEPT ![t] = NoSave] /\ save[t] # NoSave
    BY <1>13, EditSequences DEF Saved, NoSave
  <2>2. t \in trusted' => loads'[t] = <<save[t].widgets>> /\ t \in trusted
    BY <1>11, <2>1
  <2>3. t \in trusted' /\ ~open[t].editing => save[t].widgets = open[t].widgets
    BY <2>1, <2>2 DEF DataInv
  <2>4. \A u \in EditTabs \ {t} : loads'[u] = loads[u] /\ (u \in trusted' => u \in trusted)
    BY <1>11, <2>1
  <2>5. trusted' \subseteq EditTabs
    BY <1>11, <2>1
  <2>6. save'[t] = NoSave /\ \A u \in EditTabs \ {t} : save'[u] = save[u]
    BY <1>2, <2>1
  <2>7. QED
    BY <1>3, <1>8, <2>1, <2>2, <2>3, <2>4, <2>5, <2>6
<1>14. CASE Edit(t)
  <2>1. /\ open'[t].editing = TRUE /\ \A u \in EditTabs \ {t} : open'[u] = open[u]
        /\ UNCHANGED <<save, loads, trusted>>
    BY <1>2, <1>14 DEF Edit, PageTab
  <2>2. t \in trusted => (save[t] = NoSave => loads[t] = <<>> \/ Len(loads[t]) = 1)
    BY DEF DataInv
  <2>3. QED
    BY <1>2, <1>8, <2>1, <2>2
<1>15. CASE AddWidget(t) \/ RemoveWidget(t) \/ UpdateConfig(t) \/ HandleDrop(t) \/ ClickWidget(t)
  <2>1. PICK w, e : EditWidgets(t, w, e)
    BY <1>15 DEF AddWidget, RemoveWidget, UpdateConfig, HandleDrop, ClickWidget
  <2>2. /\ open'[t].editing = TRUE /\ \A u \in EditTabs \ {t} : open'[u] = open[u]
        /\ UNCHANGED <<save, loads, trusted>>
    BY <1>2, <2>1 DEF EditWidgets, PageTab
  <2>3. t \in trusted => (save[t] = NoSave => loads[t] = <<>> \/ Len(loads[t]) = 1)
    BY DEF DataInv
  <2>4. QED
    BY <1>2, <1>8, <2>2, <2>3
<1>16. CASE Save(t)
  <2>1. /\ save'[t].widgets = open[t].widgets /\ save'[t].at = "patch"
        /\ \A u \in EditTabs \ {t} : open'[u] = open[u] /\ save'[u] = save[u]
        /\ loads' = loads /\ trusted' = trusted \union {t} /\ open'[t].widgets = open[t].widgets
    BY <1>2, <1>16 DEF Save, Leaves, PageTab
  <2>2. save'[t] # NoSave
    BY <2>1 DEF NoSave
  <2>3. QED
    BY <1>2, <1>8, <2>1, <2>2
<1>17. CASE Cancel(t)
  <2>1. /\ \A u \in EditTabs \ {t} : open'[u] = open[u]
        /\ loads' = loads /\ trusted' = trusted \ {t} /\ save' = save
    BY <1>2, <1>17 DEF Cancel, Leaves
  <2>2. QED
    BY <1>2, <1>8, <2>1
<1>18. CASE SaveConfig(t)
  <2>1. /\ save[t].at = "patch" /\ save' = [save EXCEPT ![t].at = "done"] /\ UNCHANGED <<open, loads, trusted>>
    BY <1>18 DEF SaveConfig
  <2>2. /\ save'[t].at = "done" /\ save'[t].widgets = save[t].widgets
        /\ \A u \in EditTabs \ {t} : save'[u] = save[u]
    BY <1>2, <2>1 DEF SaveRequest
  <2>3. save[t] # NoSave /\ save'[t] # NoSave
    BY <2>1, <2>2 DEF NoSave
  <2>4. t \in trusted /\ ~open[t].editing => open[t].widgets = save[t].widgets
    BY <2>3 DEF DataInv
  <2>5. QED
    BY <1>2, <1>8, <2>1, <2>2, <2>3, <2>4
<1>19. QED
  BY <1>1, <1>5, <1>6, <1>7, <1>9, <1>10, <1>12, <1>13, <1>14, <1>15, <1>16, <1>17, <1>18

-----------------------------------------------------------------------------
(* The sharing.                                                              *)

LEMMA SharingInvKept ==
  ASSUME EditTypes, SharingInv, EditNext
  PROVE  SharingInv'
<1>1. PICK t \in EditTabs :
        \/ UpdateSharing(t) \/ UpdateVisibility(t) \/ Patch(t) \/ Get(t) \/ SetPage(t)
        \/ SetWidgetData(t) \/ Reopen(t) \/ Refresh(t) \/ Edit(t)
        \/ AddWidget(t) \/ RemoveWidget(t) \/ UpdateConfig(t) \/ HandleDrop(t) \/ ClickWidget(t)
        \/ Save(t) \/ Cancel(t) \/ SaveConfig(t) \/ Saved(t)
  BY DEF EditNext
<1>2. /\ open[t] \in PageTab /\ open \in [EditTabs -> PageTab] /\ row \in UserPage
      /\ patches \in [EditTabs -> Seq(DialogRequest)] /\ patches[t] \in Seq(DialogRequest)
      /\ Len(patches[t]) \in Nat /\ DOMAIN patches[t] = 1 .. Len(patches[t])
  BY EditSequences DEF EditTypes
<1>3. \A i \in DOMAIN patches[t] : patches[t] # <<>> /\ (Len(patches[t]) = 1 => i = 1)
  BY <1>2
(* Neither the tab's view of the page, nor what is stored of its sharing. *)
<1>4. ASSUME UNCHANGED <<patches, tangled, latest>>,
             row'.shared = row.shared, row'.visibility = row.visibility,
             \A u \in EditTabs : open'[u].page = open[u].page
      PROVE  SharingInv'
  BY <1>4 DEF SharingInv, SameSharing
<1>5. CASE UpdateSharing(t) \/ UpdateVisibility(t)
  <2>1. PICK r \in DialogRequest : r.at = "patch" /\ Sends(t, r)
    BY <1>5, DialogRequests
  <2>2. /\ patches'[t] = Append(patches[t], r) /\ \A u \in EditTabs \ {t} : patches'[u] = patches[u]
        /\ tangled' = IF patches[t] = <<>> THEN tangled ELSE tangled \union {t}
        /\ UNCHANGED <<row, open, latest>>
    BY <1>2, <2>1 DEF Sends
  <2>3. ASSUME t \notin tangled' PROVE patches'[t] # <<>> /\ Len(patches'[t]) = 1 /\ patches'[t][1].at = "patch"
    <3>1. patches[t] = <<>> /\ Append(<<>>, r) = <<r>>
      BY <2>2, <2>3
    <3>2. <<r>> # <<>> /\ Len(<<r>>) = 1 /\ <<r>>[1] = r
      OBVIOUS
    <3>3. QED
      BY <2>1, <2>2, <3>1, <3>2
  <2>4. ASSUME NEW u \in EditTabs \ tangled', u # t
        PROVE  /\ patches'[u] = <<>> \/ Len(patches'[u]) = 1
               /\ latest' = u =>
                    /\ patches'[u] = <<>> => SameSharing(open'[u].page, row')
                    /\ patches'[u] # <<>> /\ patches'[u][1].at = "answer" => SameSharing(patches'[u][1].row, row')
    <3>1. u \in EditTabs \ tangled /\ patches'[u] = patches[u]
      BY <2>2, <2>4
    <3>2. QED
      BY <2>2, <3>1 DEF SharingInv
  <2>5. QED
    BY <2>3, <2>4 DEF SharingInv
<1>6. CASE Patch(t)
  <2>1. PICK i \in DOMAIN patches[t] :
          /\ patches' = [patches EXCEPT ![t][i].at = "get"] /\ latest' = t
          /\ UNCHANGED <<open, tangled>>
    BY <1>6 DEF Patch
  <2>a. patches[t][i] \in DialogRequest /\ i \in 1 .. Len(patches[t])
    BY <1>2, <2>1
  <2>b. patches'[t] = [patches[t] EXCEPT ![i].at = "get"]
        /\ \A u \in EditTabs \ {t} : patches'[u] = patches[u]
    BY <1>2, <2>1
  <2>c. Len(patches'[t]) = Len(patches[t])
    BY <1>2, <2>b
  <2>d. patches'[t][i].at = "get"
    BY <1>2, <2>a, <2>b DEF DialogRequest
  <2>2. patches[t][i] \in DialogRequest /\ Len(patches'[t]) = Len(patches[t]) /\ patches'[t][i].at = "get"
        /\ \A u \in EditTabs \ {t} : patches'[u] = patches[u]
    BY <2>a, <2>b, <2>c, <2>d
  <2>3. ASSUME t \notin tangled PROVE Len(patches'[t]) = 1 /\ patches'[t] # <<>> /\ patches'[t][1].at = "get"
    <3>1. Len(patches[t]) = 1 /\ i = 1
      BY <1>3, <2>3 DEF SharingInv
    <3>2. patches'[t] # <<>>
      BY <2>2, <3>1
    <3>3. QED
      BY <2>2, <3>1, <3>2
  <2>4. \A u \in EditTabs \ tangled : u # t => patches'[u] = <<>> \/ Len(patches'[u]) = 1
    BY <2>2 DEF SharingInv
  <2>5. QED
    BY <2>1, <2>3, <2>4 DEF SharingInv
<1>7. CASE Get(t)
  <2>1. PICK i \in DOMAIN patches[t] :
          /\ patches' = [patches EXCEPT ![t][i].at = "answer", ![t][i].row = row]
          /\ UNCHANGED <<row, open, tangled, latest>>
    BY <1>7 DEF Get
  <2>a. patches[t][i] \in DialogRequest /\ i \in 1 .. Len(patches[t])
    BY <1>2, <2>1
  <2>b. patches'[t] = [patches[t] EXCEPT ![i].at = "answer", ![i].row = row]
        /\ \A u \in EditTabs \ {t} : patches'[u] = patches[u]
    BY <1>2, <2>1
  <2>c. Len(patches'[t]) = Len(patches[t])
    BY <1>2, <2>b
  <2>d. patches'[t][i].row = row
    BY <1>2, <2>a, <2>b DEF DialogRequest
  <2>2. patches[t][i] \in DialogRequest /\ Len(patches'[t]) = Len(patches[t]) /\ patches'[t][i].row = row
        /\ \A u \in EditTabs \ {t} : patches'[u] = patches[u]
    BY <2>a, <2>b, <2>c, <2>d
  <2>3. ASSUME t \notin tangled PROVE Len(patches'[t]) = 1 /\ patches'[t] # <<>> /\ patches'[t][1].row = row
    <3>1. Len(patches[t]) = 1 /\ i = 1
      BY <1>3, <2>3 DEF SharingInv
    <3>2. patches'[t] # <<>>
      BY <2>2, <3>1
    <3>3. QED
      BY <2>2, <3>1, <3>2
  <2>4. \A u \in EditTabs \ tangled :
          /\ u # t => patches'[u] = <<>> \/ Len(patches'[u]) = 1
          /\ u # t /\ latest' = u =>
                    /\ patches'[u] = <<>> => SameSharing(open'[u].page, row')
                    /\ patches'[u] # <<>> /\ patches'[u][1].at = "answer" => SameSharing(patches'[u][1].row, row')
    BY <2>1, <2>2 DEF SharingInv
  <2>5. SameSharing(row, row)
    BY DEF SameSharing
  <2>6. QED
    BY <2>1, <2>3, <2>4, <2>5 DEF SharingInv
<1>8. CASE SetPage(t)
  <2>1. PICK i \in DOMAIN patches[t] :
          /\ patches[t][i].at = "answer"
          /\ open' = [open EXCEPT ![t].page = patches[t][i].row]
          /\ patches' = [patches EXCEPT ![t] = RemoveAt(patches[t], i)]
          /\ UNCHANGED <<row, tangled, latest>>
    BY <1>8 DEF SetPage
  <2>2. /\ open'[t].page = patches[t][i].row /\ patches'[t] = RemoveAt(patches[t], i)
        /\ \A u \in EditTabs \ {t} : open'[u] = open[u] /\ patches'[u] = patches[u]
    BY <1>2, <2>1 DEF PageTab
  <2>3. RemoveAt(patches[t], i) \in Seq(DialogRequest) /\ Len(RemoveAt(patches[t], i)) = Len(patches[t]) - 1
    BY <1>2, <2>1, Taken
  <2>4. ASSUME t \notin tangled
        PROVE  patches'[t] = <<>> /\ (latest = t => SameSharing(open'[t].page, row))
    <3>1. Len(patches[t]) = 1 /\ i = 1 /\ patches[t] # <<>>
      BY <1>3, <2>4 DEF SharingInv
    <3>2. Len(RemoveAt(patches[t], i)) = 0
      BY <2>3, <3>1
    <3>3. patches'[t] = <<>>
      BY <2>2, <2>3, <3>2
    <3>4. latest = t => SameSharing(patches[t][1].row, row)
      BY <2>1, <2>4, <3>1 DEF SharingInv
    <3>5. QED
      BY <2>2, <3>1, <3>3, <3>4
  <2>5. \A u \in EditTabs \ tangled :
          /\ u # t => patches'[u] = <<>> \/ Len(patches'[u]) = 1
          /\ u # t /\ latest' = u =>
                    /\ patches'[u] = <<>> => SameSharing(open'[u].page, row')
                    /\ patches'[u] # <<>> /\ patches'[u][1].at = "answer" => SameSharing(patches'[u][1].row, row')
    BY <2>1, <2>2 DEF SharingInv
  <2>6. QED
    BY <2>1, <2>4, <2>5 DEF SharingInv
<1>9. CASE Reopen(t)
  <2>1. /\ patches[t] = <<>> /\ patches' = patches /\ tangled' = tangled \ {t} /\ UNCHANGED <<row, latest>>
        /\ open' = [open EXCEPT ![t] = Loaded(row)]
    BY <1>9 DEF Reopen
  <2>2. open'[t].page = row /\ \A u \in EditTabs \ {t} : open'[u] = open[u]
    BY <1>2, <2>1 DEF Loaded
  <2>3. SameSharing(row, row)
    BY DEF SameSharing
  <2>4. \A u \in EditTabs \ tangled' : u # t => u \in EditTabs \ tangled
    BY <2>1
  <2>5. \A u \in EditTabs \ tangled' :
          /\ u # t => patches'[u] = <<>> \/ Len(patches'[u]) = 1
          /\ u # t /\ latest' = u =>
                    /\ patches'[u] = <<>> => SameSharing(open'[u].page, row')
                    /\ patches'[u] # <<>> /\ patches'[u][1].at = "answer" => SameSharing(patches'[u][1].row, row')
    BY <2>1, <2>2, <2>4 DEF SharingInv
  <2>6. QED
    BY <2>1, <2>2, <2>3, <2>5 DEF SharingInv
<1>10. CASE SetWidgetData(t)
  BY <1>2, <1>4, <1>10 DEF SetWidgetData, PageTab
<1>11. CASE Refresh(t) \/ Saved(t)
  BY <1>4, <1>11 DEF Refresh, Saved
<1>12. CASE Edit(t)
  BY <1>2, <1>4, <1>12 DEF Edit, PageTab
<1>13. CASE AddWidget(t) \/ RemoveWidget(t) \/ UpdateConfig(t) \/ HandleDrop(t) \/ ClickWidget(t)
  <2>1. PICK w, e : EditWidgets(t, w, e)
    BY <1>13 DEF AddWidget, RemoveWidget, UpdateConfig, HandleDrop, ClickWidget
  <2>2. QED
    BY <1>2, <1>4, <2>1 DEF EditWidgets, PageTab
<1>14. CASE Save(t) \/ Cancel(t)
  <2>1. Leaves(t) /\ UNCHANGED <<row, patches, tangled, latest>>
    BY <1>14 DEF Save, Cancel
  <2>2. \A u \in EditTabs : open'[u].page = open[u].page
    BY <1>2, <2>1 DEF Leaves, PageTab
  <2>3. QED
    BY <1>4, <2>1, <2>2
<1>15. CASE SaveConfig(t)
  BY <1>2, <1>4, <1>15 DEF SaveConfig, UserPage
<1>16. QED
  BY <1>1, <1>5, <1>6, <1>7, <1>8, <1>9, <1>10, <1>11, <1>12, <1>13, <1>14, <1>15

-----------------------------------------------------------------------------
(* The theorem.                                                              *)

LEMMA EditInvHolds == EditSpec => []EditInv
<1>1. EditInit => EditInv
  <2> SUFFICES ASSUME EditInit PROVE EditInv
    OBVIOUS
  <2>1. row \in UserPage /\ row.widgets = <<>> /\ added = 0
    BY ListBlank DEF EditInit, UserPage
  <2>2. Loaded(row) \in PageTab /\ Loaded(row).widgets = <<>> /\ Loaded(row).data = <<>>
        /\ Loaded(row).edit = 0 /\ Loaded(row).page = row
    BY <2>1, ListBlank DEF Loaded, PageTab
  <2>3. EditTypes
    BY <2>1, <2>2, ListBlank DEF EditInit, EditTypes
  <2>4. NoSave.widgets = <<>>
    BY DEF NoSave
  <2>5. Proper(<<>>, 0) /\ WidgetIds(<<>>) = {} /\ 0 \in 0 .. Len(<<>>)
    BY BlankProper
  <2>6. WidgetsInv
    BY <2>1, <2>2, <2>4, <2>5 DEF EditInit, WidgetsInv
  <2>7. DataInv
    BY <2>2 DEF EditInit, DataInv
  <2>8. SharingInv
    BY <2>2 DEF EditInit, SharingInv, SameSharing
  <2>9. QED
    BY <2>3, <2>6, <2>7, <2>8 DEF EditInv
<1>2. EditInv /\ [EditNext]_editVars => EditInv'
  <2>1. ASSUME EditInv, EditNext PROVE EditInv'
    BY <2>1, EditTypesKept, WidgetsInvKept, DataInvKept, SharingInvKept DEF EditInv
  <2>2. ASSUME EditInv, UNCHANGED editVars PROVE EditInv'
    BY <2>2 DEF EditInv, editVars, EditTypes, WidgetsInv, DataInv, SharingInv
  <2>3. QED
    BY <2>1, <2>2
<1>3. QED
  BY <1>1, <1>2, PTL DEF EditSpec

THEOREM EditsHolds == EditSpec => []EditsHold
<1>1. EditInv => EditsHold
  <2> SUFFICES ASSUME EditInv PROVE EditsHold
    OBVIOUS
  <2>1. WidgetsKept
    <3>1. ASSUME NEW t \in EditTabs
          PROVE  WidgetIds(open[t].widgets) = have[t] /\ Cardinality(WidgetIds(open[t].widgets)) = Len(open[t].widgets)
      BY Counted DEF EditInv, EditTypes, WidgetsInv
    <3>2. QED
      BY <3>1 DEF WidgetsKept
  <2>2. DataFollows
    BY DEF EditInv, DataInv, DataFollows
  <2>3. SharingShown
    BY DEF EditInv, EditTypes, SharingInv, SharingShown, SameSharing
  <2>4. QED
    BY <2>1, <2>2, <2>3 DEF EditsHold
<1>2. QED
  BY <1>1, EditInvHolds, PTL

-----------------------------------------------------------------------------
(* Live views.                                                               *)

ListStates == {"none", "active", "disabled"}
ListChange == [channel : Chans, to : ListStates \union {"new"}]
ListAnswers == [Chans -> ListStates] \union {Unread}
ViewSocket == [channel : Chans, at : {"opening", "open", "waiting", "closing", "closed"}]

LiveTypes ==
  /\ stored \in [Chans -> ListStates] /\ listed \in [Chans -> ListStates]
  /\ changes \in Seq(ListChange) /\ refreshes \in Seq(ListAnswers)
  /\ socket \in [Viewers -> Seq(ViewSocket)]
  /\ lit \in [Viewers -> Chans \union {NoChannel}] /\ live \in [Viewers -> Seq(Chans)]

(* The last socket of a viewer is the one that wsRef holds. *)
Held(s) == s[Len(s)]

(* What the page shows of its connection is the channel of its last socket,  *)
(* of the widget only while no older one closes; a closed socket is shown by *)
(* neither.                                                                  *)
SocketInv ==
  \A v \in Viewers :
    /\ \A i \in 1 .. Len(socket[v]) - 1 : socket[v][i].at \in {"closing", "closed"}
    /\ Len(socket[v]) = 0 => lit[v] = NoChannel
    /\ Len(socket[v]) # 0 =>
         /\ lit[v] # NoChannel => Held(socket[v]).at # "closed"
         /\ (v = "page" \/ ~Closing(v)) /\ lit[v] # NoChannel => Held(socket[v]).channel = lit[v]
         /\ v = "page" /\ lit[v] # NoChannel => Held(socket[v]).at # "closing"
         /\ v \notin late /\ Held(socket[v]).at = "open" => lit[v] = Held(socket[v]).channel
         /\ v = "page" /\ v \notin late /\ Held(socket[v]).at \notin {"closing", "closed"}
              => lit[v] = Held(socket[v]).channel

MessagesInv ==
  /\ lit["page"] # NoChannel => \A i \in 1 .. Len(live["page"]) : live["page"][i] = lit["page"]
  /\ ViewBounded

(* While loads follow each other, the last one is there, or sees what is     *)
(* stored.                                                                   *)
ListInv ==
  ~overlapped =>
    /\ Len(refreshes) = 0 \/ Len(refreshes) = 1
    /\ Len(refreshes) = 0 => listed = stored
    /\ Len(refreshes) = 1 /\ refreshes[1] # Unread => refreshes[1] = stored

LiveInv == LiveTypes /\ SocketInv /\ MessagesInv /\ ListInv

LEMMA LiveSequences ==
  ASSUME LiveTypes, NEW v \in Viewers
  PROVE  /\ socket[v] \in Seq(ViewSocket) /\ Len(socket[v]) \in Nat /\ DOMAIN socket[v] = 1 .. Len(socket[v])
         /\ live[v] \in Seq(Chans) /\ Len(live[v]) \in Nat /\ DOMAIN live[v] = 1 .. Len(live[v])
         /\ \A i \in 1 .. Len(socket[v]) : socket[v][i] \in ViewSocket
         /\ socket[v] = <<>> <=> Len(socket[v]) = 0
         /\ refreshes \in Seq(ListAnswers) /\ Len(refreshes) \in Nat /\ DOMAIN refreshes = 1 .. Len(refreshes)
         /\ changes \in Seq(ListChange) /\ Len(changes) \in Nat /\ DOMAIN changes = 1 .. Len(changes)
<1>1. socket[v] \in Seq(ViewSocket) /\ live[v] \in Seq(Chans) /\ refreshes \in Seq(ListAnswers)
      /\ changes \in Seq(ListChange)
  BY DEF LiveTypes
<1>2. \A S : \A s \in Seq(S) : /\ Len(s) \in Nat /\ DOMAIN s = 1 .. Len(s) /\ s = <<>> <=> Len(s) = 0
                               /\ \A i \in 1 .. Len(s) : s[i] \in S
  OBVIOUS
<1>3. QED
  BY <1>1, <1>2

(* The list of channels. *)
LEMMA ListKept ==
  ASSUME LiveTypes, ListInv,
         CreateChannel \/ DeleteChannel \/ ToggleChannel \/ Handle \/ Respond \/ SetData
  PROVE  LiveTypes' /\ ListInv' /\ UNCHANGED SocketVars
<1>1. /\ refreshes \in Seq(ListAnswers) /\ Len(refreshes) \in Nat /\ DOMAIN refreshes = 1 .. Len(refreshes)
      /\ changes \in Seq(ListChange) /\ Len(changes) \in Nat /\ DOMAIN changes = 1 .. Len(changes)
      /\ stored \in [Chans -> ListStates] /\ listed \in [Chans -> ListStates]
  BY LiveSequences DEF Viewers, LiveTypes
<1>2. \A i \in 1 .. Len(refreshes) : refreshes[i] \in ListAnswers
  BY <1>1
<1>3. CASE CreateChannel \/ DeleteChannel \/ ToggleChannel
  <2>1. PICK c \in Chans, to \in ListStates \union {"new"} : Ask(c, to)
    <3>1. CASE CreateChannel
      BY <3>1 DEF CreateChannel
    <3>2. CASE DeleteChannel
      BY <3>2 DEF DeleteChannel, ListStates
    <3>3. CASE ToggleChannel
      BY <3>3 DEF ToggleChannel, ListStates
    <3>4. QED
      BY <1>3, <3>1, <3>2, <3>3
  <2>2. [channel |-> c, to |-> to] \in ListChange
    BY DEF ListChange
  <2>3. changes' \in Seq(ListChange)
    BY <1>1, <2>1, <2>2 DEF Ask
  <2>4. UNCHANGED <<stored, listed, refreshes, overlapped, SocketVars>>
    BY <2>1 DEF Ask
  <2>5. QED
    BY <2>3, <2>4 DEF LiveTypes, ListInv, SocketVars
<1>4. CASE Handle
  <2>1. PICK i \in DOMAIN changes :
          /\ stored' = [stored EXCEPT ![changes[i].channel] = AsStored(changes[i])]
          /\ changes' = RemoveAt(changes, i) /\ LoadData /\ UNCHANGED <<listed, SocketVars>>
    BY <1>4 DEF Handle
  <2>2. changes[i] \in ListChange /\ changes' \in Seq(ListChange)
    BY <1>1, <2>1, Taken
  <2>3. AsStored(changes[i]) \in ListStates
    BY <1>1, <2>2 DEF AsStored, ListChange, ListStates
  <2>4. stored' \in [Chans -> ListStates]
    BY <1>1, <2>1, <2>2, <2>3 DEF ListChange
  <2>5. /\ refreshes' = Append(refreshes, Unread) /\ overlapped' = (overlapped \/ refreshes # <<>>)
    BY <2>1 DEF LoadData
  <2>6. /\ refreshes' \in Seq(ListAnswers) /\ Len(refreshes') = Len(refreshes) + 1
        /\ refreshes'[Len(refreshes) + 1] = Unread
    BY <1>1, <2>5, AppendProperties DEF ListAnswers
  <2>7. ListInv'
    <3>1. CASE refreshes = <<>>
      <4>1. Len(refreshes) = 0
        BY <3>1
      <4>2. Len(refreshes') = 1 /\ refreshes'[1] = Unread
        BY <2>6, <4>1
      <4>3. QED
        BY <4>2 DEF ListInv
    <3>2. CASE refreshes # <<>>
      BY <2>5, <3>2 DEF ListInv
    <3>3. QED
      BY <3>1, <3>2
  <2>8. LiveTypes'
    BY <2>1, <2>2, <2>4, <2>5, <2>6 DEF LiveTypes, SocketVars
  <2>9. QED
    BY <2>1, <2>7, <2>8
<1>5. CASE Respond
  <2>1. PICK i \in 1 .. Len(refreshes) : refreshes[i] = Unread /\ refreshes' = [refreshes EXCEPT ![i] = stored]
    BY <1>1, <1>5 DEF Respond
  <2>2. UNCHANGED <<stored, listed, changes, overlapped, SocketVars>>
    BY <1>5 DEF Respond
  <2>3. /\ refreshes' \in Seq(ListAnswers) /\ Len(refreshes') = Len(refreshes) /\ refreshes'[i] = stored
    BY <1>1, <2>1 DEF ListAnswers
  <2>4. ListInv'
    <3>1. CASE Len(refreshes) = 1
      <4>1. i = 1
        BY <3>1
      <4>2. QED
        BY <2>2, <2>3, <3>1, <4>1 DEF ListInv
    <3>2. CASE Len(refreshes) # 1
      <4>1. Len(refreshes) # 0
        BY <1>1
      <4>2. QED
        BY <2>2, <3>2, <4>1 DEF ListInv
    <3>3. QED
      BY <3>1, <3>2
  <2>5. QED
    BY <2>2, <2>3, <2>4 DEF LiveTypes, SocketVars
<1>6. CASE SetData
  <2>1. PICK i \in 1 .. Len(refreshes) :
          refreshes[i] # Unread /\ listed' = refreshes[i] /\ refreshes' = RemoveAt(refreshes, i)
    BY <1>1, <1>6 DEF SetData
  <2>2. UNCHANGED <<stored, changes, overlapped, SocketVars>>
    BY <1>6 DEF SetData
  <2>3. refreshes' \in Seq(ListAnswers) /\ Len(refreshes') = Len(refreshes) - 1
    BY <1>1, <2>1, Taken
  <2>4. listed' \in [Chans -> ListStates]
    BY <1>2, <2>1 DEF ListAnswers
  <2>5. ListInv'
    <3>1. CASE Len(refreshes) = 1
      <4>1. i = 1 /\ Len(refreshes') = 0
        BY <2>3, <3>1
      <4>2. QED
        BY <2>1, <2>2, <3>1, <4>1 DEF ListInv
    <3>2. CASE Len(refreshes) # 1
      <4>1. Len(refreshes) # 0
        BY <1>1
      <4>2. QED
        BY <2>2, <3>2, <4>1 DEF ListInv
    <3>3. QED
      BY <3>1, <3>2
  <2>6. QED
    BY <2>2, <2>3, <2>4, <2>5 DEF LiveTypes, SocketVars
<1>7. QED
  BY <1>3, <1>4, <1>5, <1>6

(* The viewers' sockets: closed all but the last, which may be closed too. *)
LEMMA AllClosed ==
  ASSUME LiveTypes, SocketInv, NEW v \in Viewers
  PROVE  /\ CloseAll(v) \in Seq(ViewSocket) /\ Len(CloseAll(v)) = Len(socket[v])
         /\ \A i \in 1 .. Len(socket[v]) : CloseAll(v)[i].at \in {"closing", "closed"}
         /\ \A i \in 1 .. Len(socket[v]) : /\ CloseAll(v)[i].channel = socket[v][i].channel
                                           /\ socket[v][i].at # "closed" => CloseAll(v)[i].at = "closing"
<1>1. /\ socket[v] \in Seq(ViewSocket) /\ Len(socket[v]) \in Nat /\ DOMAIN socket[v] = 1 .. Len(socket[v])
      /\ \A i \in 1 .. Len(socket[v]) : socket[v][i] \in ViewSocket
  BY LiveSequences
<1> DEFINE n == Len(socket[v])
           s == CloseAll(v)
<1>2. s = [i \in 1 .. n |-> IF i = n THEN Closed(socket[v][i]) ELSE socket[v][i]]
  BY <1>1 DEF CloseAll, Current
<1>3. \A i \in 1 .. n : i # n => i \in 1 .. n - 1
  BY <1>1
<1>4. \A r \in ViewSocket : /\ Closed(r) \in ViewSocket /\ Closed(r).at \in {"closing", "closed"}
                            /\ Closed(r).channel = r.channel
                            /\ r.at # "closed" => Closed(r).at = "closing"
  BY DEF Closed, ViewSocket
<1>5. \A i \in 1 .. n - 1 : socket[v][i].at \in {"closing", "closed"}
  BY DEF SocketInv
<1> HIDE DEF n, s
<1>6. n \in Nat
  BY <1>1 DEF n
<1>7. \A i \in 1 .. n : s[i] \in ViewSocket
  BY <1>1, <1>2, <1>4 DEF n
<1>8. s \in Seq(ViewSocket) /\ Len(s) = n
  <2>1. s \in [1 .. n -> ViewSocket]
    BY <1>2, <1>7
  <2>2. QED
    BY <1>6, <2>1
<1>9. \A i \in 1 .. n : s[i].at \in {"closing", "closed"}
  BY <1>1, <1>2, <1>3, <1>4, <1>5 DEF n
<1>10. \A i \in 1 .. n : /\ s[i].channel = socket[v][i].channel
                         /\ socket[v][i].at # "closed" => s[i].at = "closing"
  BY <1>1, <1>2, <1>3, <1>4, <1>5 DEF n
<1>11. QED
  BY <1>8, <1>9, <1>10 DEF n, s

LEMMA NewSocket ==
  ASSUME LiveTypes, SocketInv, NEW v \in Viewers, NEW c \in Chans, socket' = New(v, c)
  PROVE  /\ socket' \in [Viewers -> Seq(ViewSocket)]
         /\ \A u \in Viewers \ {v} : socket'[u] = socket[u]
         /\ Len(socket'[v]) = Len(socket[v]) + 1
         /\ Held(socket'[v]).channel = c /\ Held(socket'[v]).at = "opening"
         /\ \A i \in 1 .. Len(socket[v]) : /\ socket'[v][i].at \in {"closing", "closed"}
                                           /\ socket[v][i].at # "closed" => socket'[v][i].at = "closing"
<1> DEFINE e == [channel |-> c, at |-> "opening"]
           s == CloseAll(v)
<1>1. e \in ViewSocket /\ e.channel = c /\ e.at = "opening"
  BY DEF ViewSocket
<1>2. /\ s \in Seq(ViewSocket) /\ Len(s) = Len(socket[v])
      /\ \A i \in 1 .. Len(socket[v]) : /\ s[i].at \in {"closing", "closed"}
                                        /\ socket[v][i].at # "closed" => s[i].at = "closing"
  BY AllClosed
<1>3. socket' = [socket EXCEPT ![v] = Append(s, e)] /\ socket \in [Viewers -> Seq(ViewSocket)]
  BY DEF New, LiveTypes
<1> HIDE DEF e, s
<1>4. /\ Append(s, e) \in Seq(ViewSocket) /\ Len(Append(s, e)) = Len(s) + 1 /\ Append(s, e)[Len(s) + 1] = e
      /\ \A i \in 1 .. Len(s) : Append(s, e)[i] = s[i]
  BY <1>1, <1>2, AppendProperties
<1>5. socket'[v] = Append(s, e) /\ \A u \in Viewers \ {v} : socket'[u] = socket[u]
  BY <1>3
<1>6. socket' \in [Viewers -> Seq(ViewSocket)]
  BY <1>3, <1>4
<1>7. Len(socket'[v]) = Len(socket[v]) + 1 /\ Held(socket'[v]) = e
  BY <1>2, <1>4, <1>5 DEF Held
<1>8. QED
  BY <1>1, <1>2, <1>4, <1>5, <1>6, <1>7

(* A socket goes, of the viewer v alone, to another state. *)
LEMMA SocketAt ==
  ASSUME LiveTypes, NEW v \in Viewers, NEW i \in 1 .. Len(socket[v]),
         NEW a \in {"opening", "open", "waiting", "closing", "closed"},
         socket' = [socket EXCEPT ![v][i].at = a]
  PROVE  /\ socket' \in [Viewers -> Seq(ViewSocket)]
         /\ \A u \in Viewers \ {v} : socket'[u] = socket[u]
         /\ Len(socket'[v]) = Len(socket[v])
         /\ \A j \in 1 .. Len(socket[v]) : /\ socket'[v][j].channel = socket[v][j].channel
                                           /\ socket'[v][j].at = IF j = i THEN a ELSE socket[v][j].at
<1>1. /\ socket[v] \in Seq(ViewSocket) /\ Len(socket[v]) \in Nat /\ DOMAIN socket[v] = 1 .. Len(socket[v])
      /\ \A j \in 1 .. Len(socket[v]) : socket[v][j] \in ViewSocket
      /\ socket \in [Viewers -> Seq(ViewSocket)]
  BY LiveSequences DEF LiveTypes
<1>2. [socket[v][i] EXCEPT !.at = a] \in ViewSocket
  BY <1>1 DEF ViewSocket
<1> DEFINE s == [socket[v] EXCEPT ![i] = [socket[v][i] EXCEPT !.at = a]]
<1>3. s \in Seq(ViewSocket) /\ Len(s) = Len(socket[v])
  BY <1>1, <1>2
<1>4. \A j \in 1 .. Len(socket[v]) : s[j] = IF j = i THEN [socket[v][i] EXCEPT !.at = a] ELSE socket[v][j]
  BY <1>1
<1>5. socket' = [socket EXCEPT ![v] = s]
  BY <1>1
<1> HIDE DEF s
<1>6. socket'[v] = s /\ socket' \in [Viewers -> Seq(ViewSocket)] /\ \A u \in Viewers \ {v} : socket'[u] = socket[u]
  BY <1>1, <1>3, <1>5
<1>7. \A j \in 1 .. Len(socket[v]) : /\ s[j].channel = socket[v][j].channel
                                     /\ s[j].at = IF j = i THEN a ELSE socket[v][j].at
  BY <1>1, <1>4 DEF ViewSocket
<1>8. QED
  BY <1>3, <1>6, <1>7

(* What SocketInv says of a viewer, as a fact of its own. *)
Viewed(s, l, w, v) ==
  /\ \A i \in 1 .. Len(s) - 1 : s[i].at \in {"closing", "closed"}
  /\ Len(s) = 0 => l = NoChannel
  /\ Len(s) # 0 =>
       /\ l # NoChannel => Held(s).at # "closed"
       /\ (v = "page" \/ ~\E i \in 1 .. Len(s) - 1 : s[i].at = "closing") /\ l # NoChannel => Held(s).channel = l
       /\ v = "page" /\ l # NoChannel => Held(s).at # "closing"
       /\ ~w /\ Held(s).at = "open" => l = Held(s).channel
       /\ v = "page" /\ ~w /\ Held(s).at \notin {"closing", "closed"} => l = Held(s).channel

LEMMA ViewedAll == SocketInv <=> \A v \in Viewers : Viewed(socket[v], lit[v], v \in late, v)
  BY DEF SocketInv, Viewed, Closing, Current

LEMMA SocketsKept ==
  ASSUME LiveTypes, SocketInv,
         NEW v \in Viewers, NEW c \in Chans,
         \/ ConnectLive(c) \/ Configure(c) \/ Disconnect \/ Open(v) \/ OnClose(v) \/ Lost(v)
  PROVE  /\ socket' \in [Viewers -> Seq(ViewSocket)] /\ SocketInv' /\ UNCHANGED ListVars
         /\ lit' \in [Viewers -> Chans \union {NoChannel}]
<1>1. /\ socket \in [Viewers -> Seq(ViewSocket)] /\ lit \in [Viewers -> Chans \union {NoChannel}]
      /\ \A u \in Viewers : Viewed(socket[u], lit[u], u \in late, u)
  BY ViewedAll DEF LiveTypes
<1>2. \A u \in Viewers : /\ Len(socket[u]) \in Nat /\ DOMAIN socket[u] = 1 .. Len(socket[u])
                         /\ \A i \in 1 .. Len(socket[u]) : socket[u][i] \in ViewSocket
  BY LiveSequences
<1>3. "page" \in Viewers /\ "widget" \in Viewers /\ "page" # "widget" /\ Viewers \ {"page"} = {"widget"}
      /\ Viewers \ {"widget"} = {"page"}
  BY DEF Viewers
<1>4. ASSUME NEW n \in Nat, n # 0 PROVE n \in 1 .. n /\ \A i \in 1 .. n : i = n \/ i \in 1 .. n - 1
  BY <1>4
<1>5. ASSUME \A u \in Viewers : Viewed(socket'[u], lit'[u], u \in late', u) PROVE SocketInv'
  BY <1>5 DEF SocketInv, Viewed, Closing, Current
<1>6. CASE ConnectLive(c)
  <2>1. /\ socket' = New("page", c) /\ lit' = [lit EXCEPT !["page"] = c] /\ late' = late \ {"page"}
        /\ UNCHANGED ListVars
    BY <1>6 DEF ConnectLive
  <2>2. /\ socket' \in [Viewers -> Seq(ViewSocket)] /\ socket'["widget"] = socket["widget"]
        /\ Len(socket'["page"]) = Len(socket["page"]) + 1
        /\ Held(socket'["page"]).channel = c /\ Held(socket'["page"]).at = "opening"
        /\ \A i \in 1 .. Len(socket["page"]) : socket'["page"][i].at \in {"closing", "closed"}
    BY <1>3, <2>1, NewSocket
  <2>3. lit'["page"] = c /\ lit'["widget"] = lit["widget"] /\ lit' \in [Viewers -> Chans \union {NoChannel}]
    BY <1>1, <1>3, <2>1
  <2>4. Len(socket'["page"]) # 0 /\ Len(socket'["page"]) - 1 = Len(socket["page"])
    BY <1>2, <1>3, <2>2
  <2>5. Viewed(socket'["page"], lit'["page"], "page" \in late', "page")
    BY <2>2, <2>3, <2>4 DEF Viewed
  <2>6. Viewed(socket'["widget"], lit'["widget"], "widget" \in late', "widget")
    BY <1>1, <1>3, <2>1, <2>2, <2>3
  <2>7. QED
    BY <1>3, <1>5, <2>1, <2>2, <2>3, <2>5, <2>6
<1>7. CASE Configure(c)
  <2>1. /\ socket' = New("widget", c) /\ late' = late \ {"widget"} /\ lit' = lit /\ UNCHANGED ListVars
    BY <1>7 DEF Configure
  <2>2. /\ socket' \in [Viewers -> Seq(ViewSocket)] /\ socket'["page"] = socket["page"]
        /\ Len(socket'["widget"]) = Len(socket["widget"]) + 1
        /\ Held(socket'["widget"]).channel = c /\ Held(socket'["widget"]).at = "opening"
        /\ \A i \in 1 .. Len(socket["widget"]) :
             /\ socket'["widget"][i].at \in {"closing", "closed"}
             /\ socket["widget"][i].at # "closed" => socket'["widget"][i].at = "closing"
    BY <1>3, <2>1, NewSocket
  <2>3. Len(socket'["widget"]) # 0 /\ Len(socket'["widget"]) - 1 = Len(socket["widget"])
    BY <1>2, <1>3, <2>2
  <2>4. lit["widget"] # NoChannel => \E i \in 1 .. Len(socket["widget"]) : socket'["widget"][i].at = "closing"
    <3>1. CASE Len(socket["widget"]) = 0
      BY <1>1, <1>3, <3>1 DEF Viewed
    <3>2. CASE Len(socket["widget"]) # 0
      <4>1. Len(socket["widget"]) \in 1 .. Len(socket["widget"])
        BY <1>2, <1>3, <1>4, <3>2
      <4>2. lit["widget"] # NoChannel => Held(socket["widget"]).at # "closed"
        BY <1>1, <1>3, <3>2 DEF Viewed
      <4>3. QED
        BY <2>2, <4>1, <4>2 DEF Held
    <3>3. QED
      BY <3>1, <3>2
  <2>5. Viewed(socket'["widget"], lit'["widget"], "widget" \in late', "widget")
    BY <1>3, <2>1, <2>2, <2>3, <2>4 DEF Viewed
  <2>6. Viewed(socket'["page"], lit'["page"], "page" \in late', "page")
    BY <1>1, <1>3, <2>1, <2>2
  <2>7. QED
    BY <1>1, <1>3, <1>5, <2>1, <2>2, <2>5, <2>6
<1>8. CASE Disconnect
  <2>1. /\ lit' = [lit EXCEPT !["page"] = NoChannel] /\ socket' = [socket EXCEPT !["page"] = CloseAll("page")]
        /\ UNCHANGED ListVars /\ late' = late
    BY <1>8 DEF Disconnect
  <2>2. /\ CloseAll("page") \in Seq(ViewSocket) /\ Len(CloseAll("page")) = Len(socket["page"])
        /\ \A i \in 1 .. Len(socket["page"]) : CloseAll("page")[i].at \in {"closing", "closed"}
    BY <1>3, AllClosed
  <2>3. /\ socket' \in [Viewers -> Seq(ViewSocket)] /\ socket'["widget"] = socket["widget"]
        /\ socket'["page"] = CloseAll("page")
    BY <1>1, <1>3, <2>1, <2>2
  <2>4. lit'["page"] = NoChannel /\ lit'["widget"] = lit["widget"] /\ lit' \in [Viewers -> Chans \union {NoChannel}]
    BY <1>1, <1>3, <2>1
  <2>5. /\ \A i \in 1 .. Len(socket["page"]) - 1 : i \in 1 .. Len(socket["page"])
        /\ Len(socket["page"]) # 0 => Len(socket["page"]) \in 1 .. Len(socket["page"])
    BY <1>2, <1>3
  <2>6. Viewed(socket'["page"], lit'["page"], "page" \in late', "page")
    BY <2>2, <2>3, <2>4, <2>5 DEF Viewed, Held
  <2>7. Viewed(socket'["widget"], lit'["widget"], "widget" \in late', "widget")
    BY <1>1, <1>3, <2>1, <2>3, <2>4
  <2>8. QED
    BY <1>3, <1>5, <2>1, <2>3, <2>4, <2>6, <2>7
<1>9. CASE Open(v)
  <2>1. Len(socket[v]) # 0 /\ Len(socket[v]) \in 1 .. Len(socket[v])
    BY <1>2, <1>9 DEF Open, Current
  <2>2. PICK a \in {"open", "waiting"} :
          /\ Held(socket[v]).at = "opening" /\ socket' = [socket EXCEPT ![v][Len(socket[v])].at = a]
          /\ lit' = IF v = "widget" THEN [lit EXCEPT ![v] = Held(socket[v]).channel] ELSE lit
          /\ late' = late /\ UNCHANGED ListVars
    BY <1>9 DEF Open, Current, Held
  <2>3. /\ socket' \in [Viewers -> Seq(ViewSocket)]
        /\ \A u \in Viewers \ {v} : socket'[u] = socket[u]
        /\ Len(socket'[v]) = Len(socket[v])
        /\ \A j \in 1 .. Len(socket[v]) :
             /\ socket'[v][j].channel = socket[v][j].channel
             /\ socket'[v][j].at = IF j = Len(socket[v]) THEN a ELSE socket[v][j].at
    <3>1. a \in {"opening", "open", "waiting", "closing", "closed"}
      OBVIOUS
    <3>2. PICK i \in 1 .. Len(socket[v]) : i = Len(socket[v])
      BY <2>1
    <3>3. socket' = [socket EXCEPT ![v][i].at = a]
      BY <2>2, <3>2
    <3>4. /\ socket' \in [Viewers -> Seq(ViewSocket)]
          /\ \A u \in Viewers \ {v} : socket'[u] = socket[u]
          /\ Len(socket'[v]) = Len(socket[v])
          /\ \A j \in 1 .. Len(socket[v]) : /\ socket'[v][j].channel = socket[v][j].channel
                                            /\ socket'[v][j].at = IF j = i THEN a ELSE socket[v][j].at
      <4>1. CASE a = "open"
        <5>1. socket' = [socket EXCEPT ![v][i].at = "open"]
          BY <3>3, <4>1
        <5>2. /\ socket' \in [Viewers -> Seq(ViewSocket)]
              /\ \A u \in Viewers \ {v} : socket'[u] = socket[u]
              /\ Len(socket'[v]) = Len(socket[v])
              /\ \A j \in 1 .. Len(socket[v]) :
                   /\ socket'[v][j].channel = socket[v][j].channel
                   /\ socket'[v][j].at = IF j = i THEN "open" ELSE socket[v][j].at
          BY <5>1, SocketAt
        <5>3. QED
          BY <4>1, <5>2
      <4>2. CASE a = "waiting"
        <5>1. socket' = [socket EXCEPT ![v][i].at = "waiting"]
          BY <3>3, <4>2
        <5>2. /\ socket' \in [Viewers -> Seq(ViewSocket)]
              /\ \A u \in Viewers \ {v} : socket'[u] = socket[u]
              /\ Len(socket'[v]) = Len(socket[v])
              /\ \A j \in 1 .. Len(socket[v]) :
                   /\ socket'[v][j].channel = socket[v][j].channel
                   /\ socket'[v][j].at = IF j = i THEN "waiting" ELSE socket[v][j].at
          BY <5>1, SocketAt
        <5>3. QED
          BY <4>2, <5>2
      <4>3. QED
        BY <4>1, <4>2
    <3>5. QED
      BY <3>2, <3>4
  <2>4. Held(socket[v]).channel \in Chans
    BY <1>2, <2>1 DEF Held, ViewSocket
  <2>5. lit' \in [Viewers -> Chans \union {NoChannel}] /\ \A u \in Viewers \ {v} : lit'[u] = lit[u]
    BY <1>1, <2>2, <2>4
  <2>6. Held(socket'[v]).channel = Held(socket[v]).channel /\ Held(socket'[v]).at = a
    BY <2>1, <2>3 DEF Held
  <2>7. \A i \in 1 .. Len(socket[v]) - 1 : i \in 1 .. Len(socket[v]) /\ i # Len(socket[v])
    BY <1>2
  <2>8. \A i \in 1 .. Len(socket[v]) - 1 : socket'[v][i].at \in {"closing", "closed"}
    BY <1>1, <2>3, <2>7 DEF Viewed
  <2>9. CASE v = "widget"
    <3>1. lit'[v] = Held(socket[v]).channel
      BY <1>1, <2>2, <2>9
    <3>2. Viewed(socket'[v], lit'[v], v \in late', v)
      BY <1>3, <2>1, <2>2, <2>3, <2>6, <2>8, <2>9, <3>1 DEF Viewed
    <3>3. QED
      BY <1>1, <1>5, <2>2, <2>3, <2>5, <3>2
  <2>10. CASE v = "page"
    <3>1. lit'[v] = lit[v]
      BY <1>3, <2>2, <2>10
    <3>2. /\ lit[v] # NoChannel => Held(socket[v]).channel = lit[v]
          /\ v \notin late => lit[v] = Held(socket[v]).channel
      BY <1>1, <2>1, <2>2, <2>10 DEF Viewed
    <3>3. Viewed(socket'[v], lit'[v], v \in late', v)
      BY <2>1, <2>2, <2>3, <2>6, <2>8, <3>1, <3>2 DEF Viewed
    <3>4. QED
      BY <1>1, <1>5, <2>2, <2>3, <2>5, <3>3
  <2>11. QED
    BY <2>9, <2>10 DEF Viewers
<1>10. ASSUME NEW i \in 1 .. Len(socket[v]), CloseEvent(v, i)
       PROVE  /\ socket' \in [Viewers -> Seq(ViewSocket)] /\ SocketInv' /\ UNCHANGED ListVars
              /\ lit' \in [Viewers -> Chans \union {NoChannel}]
  <2>1. /\ socket' = [socket EXCEPT ![v][i].at = "closed"] /\ lit' = [lit EXCEPT ![v] = NoChannel]
        /\ late' = (IF i < Len(socket[v]) THEN late \union {v} ELSE late) /\ UNCHANGED ListVars
    BY <1>10 DEF CloseEvent, Current
  <2>2. /\ socket' \in [Viewers -> Seq(ViewSocket)]
        /\ \A u \in Viewers \ {v} : socket'[u] = socket[u]
        /\ Len(socket'[v]) = Len(socket[v])
        /\ \A j \in 1 .. Len(socket[v]) :
             /\ socket'[v][j].channel = socket[v][j].channel
             /\ socket'[v][j].at = IF j = i THEN "closed" ELSE socket[v][j].at
    BY <2>1, SocketAt
  <2>3. /\ lit' \in [Viewers -> Chans \union {NoChannel}] /\ lit'[v] = NoChannel
        /\ \A u \in Viewers \ {v} : lit'[u] = lit[u] /\ (u \in late' <=> u \in late)
    BY <1>1, <2>1
  <2>4. \A j \in 1 .. Len(socket[v]) - 1 : j \in 1 .. Len(socket[v])
    BY <1>2
  <2>5. \A j \in 1 .. Len(socket[v]) - 1 : socket'[v][j].at \in {"closing", "closed"}
    BY <1>1, <2>2, <2>4 DEF Viewed
  <2>6. v \in late' \/ Held(socket'[v]).at = "closed"
    <3>1. CASE i < Len(socket[v])
      BY <2>1, <3>1
    <3>2. CASE i = Len(socket[v])
      BY <2>2, <3>2 DEF Held
    <3>3. QED
      BY <1>2, <3>1, <3>2
  <2>7. Viewed(socket'[v], lit'[v], v \in late', v)
    BY <2>2, <2>3, <2>5, <2>6 DEF Viewed
  <2>8. \A u \in Viewers \ {v} : Viewed(socket'[u], lit'[u], u \in late', u)
    BY <1>1, <2>2, <2>3
  <2>9. QED
    BY <1>5, <2>1, <2>2, <2>3, <2>7, <2>8
<1>11. CASE OnClose(v) \/ Lost(v)
  BY <1>2, <1>10, <1>11 DEF OnClose, Lost
<1>12. QED
  BY <1>6, <1>7, <1>8, <1>9, <1>11

(* A message: of the page's socket, which is of the channel that is lit. *)
LEMMA ReceivedKept ==
  ASSUME LiveTypes, SocketInv, MessagesInv, NEW v \in Viewers, OnMessage(v)
  PROVE  LiveTypes' /\ SocketInv' /\ MessagesInv' /\ UNCHANGED ListVars
<1>1. PICK i \in 1 .. Len(socket[v]) :
        /\ socket[v][i].at = "open" /\ live' = [live EXCEPT ![v] = Keep(v, socket[v][i].channel)]
        /\ UNCHANGED <<ListVars, socket, lit, late>>
  BY LiveSequences DEF OnMessage
<1>2. /\ live[v] \in Seq(Chans) /\ Len(live[v]) \in Nat /\ live \in [Viewers -> Seq(Chans)]
      /\ Len(socket[v]) \in Nat /\ socket[v][i] \in ViewSocket
      /\ \A u \in Viewers : Len(live[u]) \in Nat
  BY <1>1, LiveSequences DEF LiveTypes
<1> DEFINE c == socket[v][i].channel
           l == live[v]
<1>3. c \in Chans
  BY <1>2 DEF ViewSocket
<1>4. i = Len(socket[v])
  <2>1. i \notin 1 .. Len(socket[v]) - 1
    BY <1>1 DEF SocketInv
  <2>2. QED
    BY <1>2, <2>1
<1>5. v = "page" /\ lit["page"] # NoChannel => c = lit["page"]
  BY <1>1, <1>2, <1>4 DEF SocketInv, Held
<1>6. ViewMax \in Nat /\ ViewMax >= 1 /\ HistoryMax \in Nat /\ HistoryMax >= 1
  BY LiveAssumption
<1> HIDE DEF c, l
<1>7. l \in Seq(Chans) /\ Len(l) \in Nat
  BY <1>2 DEF l
<1>8. CASE v = "page"
  <2> DEFINE k == <<c>> \o l
             n == IF Len(l) < ViewMax THEN Len(l) + 1 ELSE ViewMax
  <2>1. <<c>> \in Seq(Chans) /\ Len(<<c>>) = 1 /\ <<c>>[1] = c
    BY <1>3
  <2>2. /\ k \in Seq(Chans) /\ Len(k) = 1 + Len(l)
        /\ \A j \in 1 .. 1 + Len(l) : k[j] = IF j <= 1 THEN <<c>>[j] ELSE l[j - 1]
    BY <1>7, <2>1, ConcatProperties
  <2>3. n \in Nat /\ 1 <= n /\ n <= Len(k) /\ n <= ViewMax
    BY <1>6, <1>7, <2>2
  <2> HIDE DEF k, n
  <2>4. 1 \in Int /\ n \in Int /\ 1 <= 1 /\ 1 <= n + 1 /\ n - 1 + 1 = n
    BY <2>3
  <2>5. /\ SubSeq(k, 1, n) \in Seq(Chans) /\ Len(SubSeq(k, 1, n)) = n - 1 + 1
        /\ \A j \in 1 .. n - 1 + 1 : SubSeq(k, 1, n)[j] = k[1 + j - 1]
    BY <2>2, <2>3, <2>4, Pieces
  <2>6. Keep(v, c) = SubSeq(k, 1, n)
    BY <1>8 DEF Keep, k, n, l
  <2>7. live'["page"] = SubSeq(k, 1, n) /\ live'["widget"] = live["widget"]
        /\ live' \in [Viewers -> Seq(Chans)]
    BY <1>1, <1>2, <1>8, <2>5, <2>6 DEF Viewers, c
  <2>8. Len(live'["page"]) = n
    BY <2>4, <2>5, <2>7
  <2>9. ViewBounded'
    BY <2>3, <2>7, <2>8 DEF ViewBounded, MessagesInv
  <2>10. ASSUME lit["page"] # NoChannel, NEW j \in 1 .. n PROVE live'["page"][j] = lit["page"]
    <3>1. j \in 1 .. 1 + Len(l) /\ 1 + j - 1 = j /\ j \in 1 .. n - 1 + 1
      BY <2>2, <2>3, <2>4
    <3>2. live'["page"][j] = k[j]
      BY <2>5, <2>7, <3>1
    <3>3. CASE j = 1
      BY <1>5, <1>8, <2>1, <2>2, <2>10, <3>1, <3>2, <3>3
    <3>4. CASE j # 1
      <4>1. ~(j <= 1) /\ j - 1 \in 1 .. Len(l)
        BY <3>1, <3>4
      <4>2. l[j - 1] = lit["page"]
        BY <1>8, <2>10, <4>1 DEF MessagesInv, l
      <4>3. QED
        BY <2>2, <3>1, <3>2, <4>1, <4>2
    <3>5. QED
      BY <3>3, <3>4
  <2>11. MessagesInv'
    BY <1>1, <2>8, <2>9, <2>10 DEF MessagesInv
  <2>12. LiveTypes' /\ SocketInv'
    BY <1>1, <2>7 DEF LiveTypes, SocketInv, Closing, Current, ListVars
  <2>13. QED
    BY <1>1, <2>11, <2>12
<1>9. CASE v = "widget"
  <2> DEFINE m == IF Len(l) >= HistoryMax THEN 2 ELSE 1
             k == SubSeq(l, m, Len(l))
  <2>1. m \in Int /\ 1 <= m /\ m <= Len(l) + 1 /\ Len(l) \in Int /\ Len(l) <= Len(l)
    BY <1>6, <1>7
  <2>a. m = 1 \/ m = 2
    OBVIOUS
  <2>b. Len(l) >= HistoryMax => m = 2
    OBVIOUS
  <2> HIDE DEF m
  <2>2. k \in Seq(Chans) /\ Len(k) = Len(l) - m + 1
    BY <1>7, <2>1, Pieces
  <2>3. Append(k, c) \in Seq(Chans) /\ Len(Append(k, c)) = Len(k) + 1
    BY <1>3, <2>2, AppendProperties
  <2>4. Len(l) <= HistoryMax
    BY <1>9 DEF MessagesInv, ViewBounded, l
  <2>5. Len(k) + 1 <= HistoryMax
    BY <1>6, <1>7, <2>2, <2>4, <2>a, <2>b
  <2>6. Keep(v, c) = Append(k, c)
    BY <1>9 DEF Keep, l, m
  <2> HIDE DEF k
  <2>7. live'["widget"] = Append(k, c) /\ live'["page"] = live["page"]
        /\ live' \in [Viewers -> Seq(Chans)]
    BY <1>1, <1>2, <1>9, <2>3, <2>6 DEF Viewers, c
  <2>8. MessagesInv'
    BY <1>1, <2>3, <2>5, <2>7 DEF MessagesInv, ViewBounded
  <2>9. LiveTypes' /\ SocketInv'
    BY <1>1, <2>7 DEF LiveTypes, SocketInv, Closing, Current, ListVars
  <2>10. QED
    BY <1>1, <2>8, <2>9
<1>10. QED
  BY <1>8, <1>9 DEF Viewers

LEMMA MessagesLeft ==
  ASSUME LiveTypes, MessagesInv, NEW v \in Viewers, NEW c \in Chans,
         \/ ConnectLive(c) \/ Configure(c) \/ Disconnect \/ Open(v) \/ OnClose(v) \/ Lost(v)
  PROVE  live' \in [Viewers -> Seq(Chans)] /\ MessagesInv'
<1>1. live \in [Viewers -> Seq(Chans)] /\ lit \in [Viewers -> Chans \union {NoChannel}]
      /\ "page" \in Viewers /\ "widget" \in Viewers
  BY DEF LiveTypes, Viewers
<1>2. CASE ConnectLive(c)
  <2>1. live' = [live EXCEPT !["page"] = <<>>]
    BY <1>2 DEF ConnectLive
  <2>2. live'["page"] = <<>> /\ live'["widget"] = live["widget"] /\ live' \in [Viewers -> Seq(Chans)]
    BY <1>1, <2>1
  <2>3. Len(<<>>) = 0 /\ 1 .. 0 = {} /\ 0 <= ViewMax
    BY LiveAssumption
  <2>4. QED
    BY <2>2, <2>3 DEF MessagesInv, ViewBounded
<1>3. CASE \/ Configure(c) \/ Disconnect \/ Open(v) \/ OnClose(v) \/ Lost(v)
  <2>1. live' = live
    BY <1>3 DEF Configure, Disconnect, Open, OnClose, Lost, CloseEvent
  <2>2. lit'["page"] = lit["page"] \/ lit'["page"] = NoChannel
    BY <1>1, <1>3 DEF Configure, Disconnect, Open, OnClose, Lost, CloseEvent
  <2>3. QED
    BY <1>1, <2>1, <2>2 DEF MessagesInv, ViewBounded
<1>4. QED
  BY <1>2, <1>3

LEMMA LiveInvHolds == LiveSpec => []LiveInv
<1>1. LiveInit => LiveInv
  <2> SUFFICES ASSUME LiveInit PROVE LiveInv
    OBVIOUS
  <2>1. /\ \A v \in Viewers : Len(socket[v]) = 0 /\ Len(live[v]) = 0 /\ lit[v] = NoChannel
        /\ Len(refreshes) = 0 /\ listed = stored
    BY DEF LiveInit
  <2>2. LiveTypes
    <3>1. stored \in [Chans -> ListStates] /\ listed \in [Chans -> ListStates]
      BY DEF LiveInit, ListStates
    <3>2. changes \in Seq(ListChange) /\ refreshes \in Seq(ListAnswers)
      BY DEF LiveInit
    <3>3. /\ socket \in [Viewers -> Seq(ViewSocket)]
          /\ lit \in [Viewers -> Chans \union {NoChannel}] /\ live \in [Viewers -> Seq(Chans)]
      <4>1. \A S : <<>> \in Seq(S)
        OBVIOUS
      <4>2. socket = [v \in Viewers |-> <<>>]
        BY DEF LiveInit
      <4>3. live = [v \in Viewers |-> <<>>]
        BY DEF LiveInit
      <4>4. lit = [v \in Viewers |-> NoChannel]
        BY DEF LiveInit
      <4>5. QED
        BY <4>1, <4>2, <4>3, <4>4
    <3>4. QED
      BY <3>1, <3>2, <3>3 DEF LiveTypes
  <2>3. 1 .. 0 - 1 = {} /\ 1 .. 0 = {} /\ 0 <= ViewMax /\ 0 <= HistoryMax
    BY LiveAssumption
  <2>4. SocketInv
    BY <2>1, <2>3 DEF SocketInv
  <2>5. MessagesInv
    BY <2>1, <2>3 DEF MessagesInv, ViewBounded, Viewers
  <2>6. ListInv
    BY <2>1 DEF ListInv
  <2>7. QED
    BY <2>2, <2>4, <2>5, <2>6 DEF LiveInv
<1>2. LiveInv /\ [LiveNext]_liveVars => LiveInv'
  <2> SUFFICES ASSUME LiveInv, [LiveNext]_liveVars PROVE LiveInv'
    OBVIOUS
  <2>0. LiveTypes /\ SocketInv /\ MessagesInv /\ ListInv
    BY DEF LiveInv
  <2>1. CASE CreateChannel \/ DeleteChannel \/ ToggleChannel \/ Handle \/ Respond \/ SetData
    <3>1. LiveTypes' /\ ListInv' /\ UNCHANGED SocketVars
      BY <2>0, <2>1, ListKept
    <3>2. SocketInv' /\ MessagesInv'
      BY <2>0, <3>1 DEF SocketVars, SocketInv, Closing, Current, MessagesInv, ViewBounded
    <3>3. QED
      BY <3>1, <3>2 DEF LiveInv
  <2>2. ASSUME NEW v \in Viewers, NEW c \in Chans,
               \/ ConnectLive(c) \/ Configure(c) \/ Disconnect \/ Open(v) \/ OnClose(v) \/ Lost(v)
        PROVE  LiveInv'
    <3>1. /\ socket' \in [Viewers -> Seq(ViewSocket)] /\ SocketInv' /\ UNCHANGED ListVars
          /\ lit' \in [Viewers -> Chans \union {NoChannel}]
      BY <2>0, <2>2, SocketsKept
    <3>2. live' \in [Viewers -> Seq(Chans)] /\ MessagesInv'
      BY <2>0, <2>2, MessagesLeft
    <3>3. LiveTypes' /\ ListInv'
      BY <2>0, <3>1, <3>2 DEF LiveTypes, ListVars, ListInv
    <3>4. QED
      BY <3>1, <3>2, <3>3 DEF LiveInv
  <2>3. ASSUME NEW v \in Viewers, OnMessage(v) PROVE LiveInv'
    <3>1. LiveTypes' /\ SocketInv' /\ MessagesInv' /\ UNCHANGED ListVars
      BY <2>0, <2>3, ReceivedKept
    <3>2. QED
      BY <2>0, <3>1 DEF LiveInv, ListVars, ListInv
  <2>4. CASE UNCHANGED liveVars
    BY <2>0, <2>4 DEF LiveInv, liveVars, LiveTypes, SocketInv, Closing, Current, MessagesInv, ViewBounded, ListInv
  <2>5. ASSUME Disconnect \/ \E v \in Viewers : Open(v) \/ OnClose(v) \/ Lost(v)
        PROVE  \E c \in Chans : TRUE
    <3>1. CASE Disconnect
      BY <2>0, <3>1 DEF Disconnect, LiveTypes, Viewers
    <3>2. ASSUME NEW v \in Viewers, Open(v) \/ OnClose(v) \/ Lost(v) PROVE \E c \in Chans : TRUE
      <4>1. \E i : i \in 1 .. Len(socket[v])
        <5>1. Len(socket[v]) \in Nat /\ DOMAIN socket[v] = 1 .. Len(socket[v])
          BY <2>0, LiveSequences
        <5>2. CASE Open(v)
          <6>1. Len(socket[v]) > 0
            BY <5>2 DEF Open, Current
          <6>2. Len(socket[v]) \in 1 .. Len(socket[v])
            BY <5>1, <6>1
          <6>3. QED
            BY <6>2
        <5>3. CASE OnClose(v) \/ Lost(v)
          BY <5>1, <5>3 DEF OnClose, Lost
        <5>4. QED
          BY <3>2, <5>2, <5>3
      <4>2. QED
        BY <2>0, <4>1, LiveSequences DEF ViewSocket
    <3>3. QED
      BY <2>5, <3>1, <3>2
  <2>6. "page" \in Viewers
    BY DEF Viewers
  <2>7. QED
    BY <2>1, <2>2, <2>3, <2>4, <2>5, <2>6 DEF LiveNext
<1>3. QED
  BY <1>1, <1>2, PTL DEF LiveSpec

THEOREM LiveTellsHolds == LiveSpec => []LiveTells
<1>1. LiveInv => LiveTells
  <2> SUFFICES ASSUME LiveInv PROVE LiveTells
    OBVIOUS
  <2>0. LiveTypes /\ SocketInv /\ MessagesInv /\ ListInv
    BY DEF LiveInv
  <2>1. OneSocket
    BY <2>0 DEF SocketInv, OneSocket, Current
  <2>2. OnlyLive
    <3>1. "page" \in Viewers
      BY DEF Viewers
    <3>2. DOMAIN live["page"] = 1 .. Len(live["page"])
      BY <2>0, <3>1, LiveSequences
    <3>3. QED
      BY <2>0, <3>2 DEF MessagesInv, OnlyLive, ToSet
  <2>3. LightTells
    <3>1. ASSUME NEW v \in Viewers, ~Closing(v), v \notin late, socket[v] # <<>>
          PROVE  /\ lit[v] # NoChannel => Held(socket[v]).at # "closed" /\ Held(socket[v]).channel = lit[v]
                 /\ Held(socket[v]).at = "open" => lit[v] = Held(socket[v]).channel
      <4>1. Len(socket[v]) # 0
        BY <2>0, <3>1, LiveSequences
      <4>2. QED
        BY <2>0, <3>1, <4>1 DEF SocketInv
    <3>2. QED
      BY <3>1 DEF LightTells, Last, Held
  <2>4. ListSettles
    <3>1. refreshes = <<>> => Len(refreshes) = 0
      OBVIOUS
    <3>2. QED
      BY <2>0, <3>1 DEF ListInv, ListSettles
  <2>5. QED
    BY <2>0, <2>1, <2>2, <2>3, <2>4 DEF LiveTells, MessagesInv
<1>2. QED
  BY <1>1, LiveInvHolds, PTL
=============================================================================
