---------------------------- MODULE TablesProofs ----------------------------
(***************************************************************************)
(* Proofs about OrgTables, for any clients, names and columns: the registry *)
(* of an organization's tables agrees with the tables, whatever requests    *)
(* overlap or break off.                                                    *)
(*                                                                         *)
(* What is true of a table depends on what its requests have still to run,  *)
(* which is one of the words below.  The invariant says for each name what  *)
(* holds while requests are half way; a step is proved to keep it by the    *)
(* name it works on, and by Elsewhere for all others.                       *)
(*                                                                         *)
(* Then about Screens: an invariant for each of its parts, which share       *)
(* nothing, and the theorem that puts what they promise together.           *)
(***************************************************************************)
EXTENDS OrgTables, Screens, SequenceTheorems, FiniteSetTheorems, WellFoundedInduction, TLAPS

(* What is still to be run of a create, a delete of a table, an insert, an   *)
(* update and a delete of records: the number is how many statements.        *)
C3 == <<"create", "index", "register">>
C2 == <<"index", "register">>
C1 == <<"register">>
D3 == <<"find by id", "drop", "unregister">>
D2 == <<"drop", "unregister">>
D1 == <<"unregister">>
I5 == <<"find by id", "columns", "insert", "count", "store">>
I4 == <<"columns", "insert", "count", "store">>
I3 == <<"insert", "count", "store">>
I2 == <<"count", "store">>
I1 == <<"store">>
U3 == <<"find by id", "columns", "update">>
U2 == <<"columns", "update">>
U1 == <<"update">>
X3 == <<"find by id", "columns", "delete">>
X2 == <<"columns", "delete">>
X1 == <<"delete">>

(* The words by what they do, and by whether the table's name is known. *)
Making == {C3, C2, C1}
Dropping == {D3, D2, D1}
Finding == {D3, I5, U3, X3}
Named == {C3, C2, C1, D2, D1, I4, I3, I2, I1, U2, U1, X2, X1}
Request == [todo : Finding \union Named \union {<<>>}, id : Nat, name : Names \union {NoName},
            cols : SUBSET Columns, rows : Seq(BOOLEAN), schema : BOOLEAN, clear : BOOLEAN, count : Nat]

(* What a request carries goes with what it has still to run. *)
Shaped(h) ==
  /\ h.todo = <<>> => h = Unasked
  /\ h.schema <=> h.todo \in Making \union Dropping
  /\ h.todo \in Finding => h.name = NoName
  /\ h.todo \in Named => h.name \in Names
  /\ h.todo \in {D2, D1} => h.id \in 1 .. ids /\ (h.id \in DOMAIN registry => registry[h.id].name = h.name)
  /\ h.todo \in {I5, I4, I3} => h.rows # <<>>

(* The types, and that a name is registered once. *)
TableTypes ==
  /\ ids \in Nat
  /\ DOMAIN real \subseteq Names
  /\ \A n \in DOMAIN real : real[n] \in [cols : SUBSET Columns, size : Nat]
  /\ DOMAIN registry \subseteq 1 .. ids
  /\ \A i \in DOMAIN registry : registry[i] \in [name : Names, cols : SUBSET Columns, row_count : Nat]
  /\ \A i, j \in DOMAIN registry : registry[i].name = registry[j].name => i = j
  /\ handling \in [TableClients -> Request]
  /\ \A c \in TableClients : Shaped(handling[c])

(* A request between the first and the last change of a schema. *)
Late(h) == h.todo \in {C2, C1, D2, D1}

(* What SchemaAgrees says of one name. *)
Agrees(n) ==
  /\ n \in DOMAIN real <=> RegisteredAs(n) # {}
  /\ \A i \in RegisteredAs(n) : real[n].cols = registry[i].cols

(* What a late request leaves true of its name until its last statement. *)
Halfway(h, n) ==
  /\ h.todo \in {C2, C1} =>
       /\ n \in DOMAIN real
       /\ \A i \in RegisteredAs(n) : real[n].cols = registry[i].cols
       /\ RegisteredAs(n) = {} => real[n].cols = h.cols
  /\ h.todo = D2 => Agrees(n) /\ h.id \in RegisteredAs(n)
  /\ h.todo = D1 => n \notin DOMAIN real /\ h.id \in RegisteredAs(n)

(* A name that is not torn agrees, unless its one late request is half way. *)
SchemaInv(n) ==
  n \notin torn =>
    /\ \A c, d \in On(n) : Late(handling[c]) /\ Late(handling[d]) => c = d
    /\ (\E c \in On(n) : Late(handling[c])) \/ Agrees(n)
    /\ \A c \in On(n) : Halfway(handling[c], n)

(* A clear request is alone with its name, so what it has read still holds. *)
AloneInv(n) ==
  \A c \in On(n) : handling[c].clear =>
    /\ On(n) = {c}
    /\ handling[c].todo = D2 => handling[c].id \in RegisteredAs(n)
    /\ handling[c].todo = D1 => n \notin DOMAIN real /\ handling[c].id \in RegisteredAs(n)
    /\ handling[c].todo = I1 => n \in DOMAIN real /\ handling[c].count = real[n].size

(* An insert that has still to store a count. *)
Inserts(n) == \E d \in On(n) : handling[d].todo \in {I3, I2, I1}

(* Counts agree or an insert will store one; a table that is being made is   *)
(* empty until then.                                                         *)
CountInv(n) ==
  n \notin torn =>
    /\ n \notin adrift => \/ Inserts(n)
                         \/ \A i \in RegisteredAs(n) : n \in DOMAIN real => registry[i].row_count = real[n].size
    /\ \A c \in On(n) : handling[c].todo \in {C2, C1} /\ RegisteredAs(n) = {} =>
         /\ handling[c].clear => real[n].size = 0
         /\ n \notin adrift => real[n].size = 0 \/ Inserts(n)

NameInv(n) == SchemaInv(n) /\ AloneInv(n) /\ CountInv(n)

TablesInv == TableTypes /\ \A n \in Names : NameInv(n)

-----------------------------------------------------------------------------
(* The words of the handlers: what has still to be run.                      *)

(* Each word's first statement and the word that remains. *)
Words ==
  /\ Head(C3) = "create" /\ Tail(C3) = C2 /\ C3 # <<>>
  /\ Head(C2) = "index" /\ Tail(C2) = C1 /\ C2 # <<>>
  /\ Head(C1) = "register" /\ Tail(C1) = <<>> /\ C1 # <<>>
  /\ Head(D3) = "find by id" /\ Tail(D3) = D2 /\ D3 # <<>>
  /\ Head(D2) = "drop" /\ Tail(D2) = D1 /\ D2 # <<>>
  /\ Head(D1) = "unregister" /\ D1 # <<>>
  /\ Head(I5) = "find by id" /\ Tail(I5) = I4 /\ I5 # <<>>
  /\ Head(I4) = "columns" /\ Tail(I4) = I3 /\ I4 # <<>>
  /\ Head(I3) = "insert" /\ Tail(I3) = I2 /\ I3 # <<>>
  /\ Head(I2) = "count" /\ Tail(I2) = I1 /\ I2 # <<>>
  /\ Head(I1) = "store" /\ Tail(I1) = <<>> /\ I1 # <<>>
  /\ Head(U3) = "find by id" /\ Tail(U3) = U2 /\ U3 # <<>>
  /\ Head(U2) = "columns" /\ Tail(U2) = U1 /\ U2 # <<>>
  /\ Head(U1) = "update" /\ Tail(U1) = <<>> /\ U1 # <<>>
  /\ Head(X3) = "find by id" /\ Tail(X3) = X2 /\ X3 # <<>>
  /\ Head(X2) = "columns" /\ Tail(X2) = X1 /\ X2 # <<>>
  /\ Head(X1) = "delete" /\ Tail(X1) = <<>> /\ X1 # <<>>

LEMMA WordsAre == Words
<1>1. /\ Head(C3) = "create" /\ Tail(C3) = C2 /\ C3 # <<>>
      /\ Head(C2) = "index" /\ Tail(C2) = C1 /\ C2 # <<>>
      /\ Head(C1) = "register" /\ Tail(C1) = <<>> /\ C1 # <<>>
  BY DEF C3, C2, C1
<1>2. /\ Head(D3) = "find by id" /\ Tail(D3) = D2 /\ D3 # <<>>
      /\ Head(D2) = "drop" /\ Tail(D2) = D1 /\ D2 # <<>>
      /\ Head(D1) = "unregister" /\ D1 # <<>>
  BY DEF D3, D2, D1
<1>3. /\ Head(I5) = "find by id" /\ Tail(I5) = I4 /\ I5 # <<>>
      /\ Head(I4) = "columns" /\ Tail(I4) = I3 /\ I4 # <<>>
      /\ Head(I3) = "insert" /\ Tail(I3) = I2 /\ I3 # <<>>
  BY DEF I5, I4, I3, I2
<1>4. /\ Head(I2) = "count" /\ Tail(I2) = I1 /\ I2 # <<>>
      /\ Head(I1) = "store" /\ Tail(I1) = <<>> /\ I1 # <<>>
  BY DEF I2, I1
<1>5. /\ Head(U3) = "find by id" /\ Tail(U3) = U2 /\ U3 # <<>>
      /\ Head(U2) = "columns" /\ Tail(U2) = U1 /\ U2 # <<>>
      /\ Head(U1) = "update" /\ Tail(U1) = <<>> /\ U1 # <<>>
  BY DEF U3, U2, U1
<1>6. /\ Head(X3) = "find by id" /\ Tail(X3) = X2 /\ X3 # <<>>
      /\ Head(X2) = "columns" /\ Tail(X2) = X1 /\ X2 # <<>>
      /\ Head(X1) = "delete" /\ Tail(X1) = <<>> /\ X1 # <<>>
  BY DEF X3, X2, X1
<1>7. QED
  BY <1>1, <1>2, <1>3, <1>4, <1>5, <1>6 DEF Words

(* What the words begin with, which tells most of them apart.                *)
Firsts ==
  /\ Head(C3) = "create" /\ Head(C2) = "index" /\ Head(C1) = "register"
  /\ Head(D3) = "find by id" /\ Head(D2) = "drop" /\ Head(D1) = "unregister"
  /\ Head(I5) = "find by id" /\ Head(I4) = "columns" /\ Head(I3) = "insert"
  /\ Head(I2) = "count" /\ Head(I1) = "store"
  /\ Head(U3) = "find by id" /\ Head(U2) = "columns" /\ Head(U1) = "update"
  /\ Head(X3) = "find by id" /\ Head(X2) = "columns" /\ Head(X1) = "delete"

LEMMA FirstsAre == Firsts
  BY WordsAre DEF Words, Firsts

LEMMA WordsGoOn == \A w \in Finding \union Named : w # <<>>
<1>1. \A w \in Making \union Dropping : w # <<>>
  BY WordsAre DEF Words, Making, Dropping
<1>2. \A w \in {I5, I4, I3, I2, I1} : w # <<>>
  BY WordsAre DEF Words
<1>3. \A w \in {U3, U2, U1, X3, X2, X1} : w # <<>>
  BY WordsAre DEF Words
<1>4. QED
  BY <1>1, <1>2, <1>3 DEF Finding, Named, Making, Dropping

(* What begins by reading a table's name is told apart by how it goes on.    *)
LEMMA ReadsApart == \A w \in {I5, U3, X3} : w \notin Making /\ w \notin Dropping
<1>1. \A w \in {I5, U3, X3} : Head(w) = "find by id" /\ Tail(w) \in {I4, U2, X2}
  BY WordsAre DEF Words
<1>2. \A w \in {I4, U2, X2} : Head(w) = "columns"
  BY FirstsAre DEF Firsts
<1>3. Tail(D3) = D2 /\ Head(D2) = "drop"
  BY WordsAre DEF Words
<1>4. \A w \in {C3, C2, C1, D2, D1} : Head(w) # "find by id"
  BY FirstsAre DEF Firsts
<1>5. QED
  BY <1>1, <1>2, <1>3, <1>4 DEF Making, Dropping

(* One word and more words. *)
LEMMA Concat3 == \A a, b, c : <<a>> \o <<b, c>> = <<a, b, c>>
<1> TAKE a, b, c
<1> DEFINE S == {a, b, c}
           s == <<a>> \o <<b, c>>
           t == <<a, b, c>>
<1>1. <<a>> \in Seq(S) /\ <<b, c>> \in Seq(S) /\ t \in Seq(S)
  OBVIOUS
<1>2. Len(<<a>>) = 1 /\ Len(<<b, c>>) = 2 /\ Len(t) = 3
  OBVIOUS
<1>3. s[1] = t[1] /\ s[2] = t[2] /\ s[3] = t[3]
  OBVIOUS
<1>4. s \in Seq(S) /\ Len(s) = 3
  <2> HIDE DEF S
  <2>1. QED
    BY <1>1, <1>2, ConcatProperties
<1> HIDE DEF S, s, t
<1>5. s = t
  BY <1>1, <1>2, <1>3, <1>4, SeqEqual
<1>6. QED
  BY <1>5 DEF s, t

LEMMA Concat5 == \A a, b, c, d, e : <<a>> \o <<b, c, d, e>> = <<a, b, c, d, e>>
<1> TAKE a, b, c, d, e
<1> DEFINE S == {a, b, c, d, e}
           s == <<a>> \o <<b, c, d, e>>
           t == <<a, b, c, d, e>>
<1>1. <<a>> \in Seq(S) /\ <<b, c, d, e>> \in Seq(S) /\ t \in Seq(S)
  OBVIOUS
<1>2. Len(<<a>>) = 1 /\ Len(<<b, c, d, e>>) = 4 /\ Len(t) = 5
  OBVIOUS
<1>3. s[1] = t[1] /\ s[2] = t[2] /\ s[3] = t[3] /\ s[4] = t[4] /\ s[5] = t[5]
  OBVIOUS
<1>4. s \in Seq(S) /\ Len(s) = 5
  <2> HIDE DEF S
  <2>1. QED
    BY <1>1, <1>2, ConcatProperties
<1> HIDE DEF S, s, t
<1>5. s = t
  BY <1>1, <1>2, <1>3, <1>4, SeqEqual
<1>6. QED
  BY <1>5 DEF s, t

LEMMA HandlersAre ==
  /\ CreateOrgTable = C3 /\ DropOrgTable = D3 /\ ById \o InsertData = I5 /\ InsertData = I4
  /\ UpdateRecord = U3 /\ DeleteRecords = X3
<1>1. CreateOrgTable = C3 /\ InsertData = I4
  BY DEF CreateOrgTable, InsertData, C3, I4
<1>2. DropOrgTable = D3
  BY Concat3 DEF DropOrgTable, ById, D3
<1>3. UpdateRecord = U3
  BY Concat3 DEF UpdateRecord, ById, U3
<1>4. DeleteRecords = X3
  BY Concat3 DEF DeleteRecords, ById, X3
<1>5. ById \o InsertData = I5
  BY Concat5 DEF InsertData, ById, I5
<1>6. QED
  BY <1>1, <1>2, <1>3, <1>4, <1>5

(* The statement at the head tells what has still to be run. *)
LEMMA AtIs ==
  ASSUME NEW h \in Request, h.todo # <<>>
  PROVE  /\ Head(h.todo) = "find by id" => h.todo \in Finding
         /\ Head(h.todo) = "create" => h.todo = C3
         /\ Head(h.todo) = "index" => h.todo = C2
         /\ Head(h.todo) = "register" => h.todo = C1
         /\ Head(h.todo) = "drop" => h.todo = D2
         /\ Head(h.todo) = "unregister" => h.todo = D1
         /\ Head(h.todo) = "columns" => h.todo \in {I4, U2, X2}
         /\ Head(h.todo) = "insert" => h.todo = I3
         /\ Head(h.todo) = "count" => h.todo = I2
         /\ Head(h.todo) = "store" => h.todo = I1
         /\ Head(h.todo) = "update" => h.todo = U1
         /\ Head(h.todo) = "delete" => h.todo = X1
<1>1. h.todo \in Finding \union Named
  BY DEF Request
<1>2. QED
  BY <1>1, WordsAre DEF Words, Finding, Named

-----------------------------------------------------------------------------
(* What a step of one request does to the others.                           *)

(* A request that goes on as it was, perhaps no longer clear. *)
SameBut(g, h) ==
  /\ g.todo = h.todo /\ g.id = h.id /\ g.name = h.name /\ g.cols = h.cols
  /\ g.rows = h.rows /\ g.schema = h.schema /\ g.count = h.count
  /\ g.clear => h.clear

(* The other requests go on as they were, if no longer clear. *)
Beside(c) == \A d \in TableClients \ {c} : SameBut(handling'[d], handling[d])

(* Meet is a request that goes on, beside others that it meets. *)
LEMMA MeetIs ==
  ASSUME TableTypes, NEW c \in TableClients, NEW h \in Request, NEW n \in Names, handling' = Meet(h, c, n)
  PROVE  /\ handling' \in [TableClients -> Request] /\ Beside(c)
         /\ \A d \in TableClients \ {c} : IF d \in On(n) THEN ~handling'[d].clear ELSE handling'[d] = handling[d]
         /\ h.todo # <<>> => /\ SameBut(handling'[c], h)
                             /\ handling'[c].clear => On(n) \subseteq {c}
         /\ h.todo = <<>> => handling'[c] = Unasked
<1> DEFINE met == On(n) \ {c}
<1>1. handling \in [TableClients -> Request]
  BY DEF TableTypes
<1>2. handling' = [d \in TableClients |->
        IF d = c THEN IF h.todo = <<>> THEN Unasked ELSE [h EXCEPT !.clear = @ /\ met = {}]
        ELSE [handling[d] EXCEPT !.clear = @ /\ d \notin met]]
  BY DEF Meet
<1> HIDE DEF met
<1>3. Unasked \in Request
  <2>1. <<>> \in Seq(BOOLEAN)
    OBVIOUS
  <2>2. QED
    BY <2>1 DEF Unasked, Request
<1>4. ASSUME NEW g \in Request, NEW b
      PROVE  /\ [g EXCEPT !.clear = @ /\ b] \in Request
             /\ SameBut([g EXCEPT !.clear = @ /\ b], g)
             /\ [g EXCEPT !.clear = @ /\ b].clear => b
             /\ b => [g EXCEPT !.clear = @ /\ b] = g
  <2> DEFINE k == g.clear /\ b
             h_ == [g EXCEPT !.clear = k]
  <2>1. g.clear \in BOOLEAN /\ k \in BOOLEAN
    BY DEF Request
  <2>2. (k => g.clear /\ b) /\ (b => k = g.clear)
    BY <2>1
  <2> HIDE DEF k
  <2>3. h_ \in Request /\ h_.clear = k
    BY <2>1 DEF Request
  <2>4. /\ h_.todo = g.todo /\ h_.id = g.id /\ h_.name = g.name /\ h_.cols = g.cols
        /\ h_.rows = g.rows /\ h_.schema = g.schema /\ h_.count = g.count
    BY DEF Request
  <2>5. k = g.clear => h_ = g
    BY DEF Request
  <2> HIDE DEF h_
  <2>6. SameBut(h_, g)
    BY <2>2, <2>3, <2>4 DEF SameBut
  <2>7. h_.clear => b
    BY <2>2, <2>3
  <2>8. b => h_ = g
    BY <2>2, <2>5
  <2>9. QED
    BY <2>3, <2>6, <2>7, <2>8 DEF h_, k
<1>5. handling' \in [TableClients -> Request]
  <2>1. [h EXCEPT !.clear = @ /\ met = {}] \in Request
    BY <1>4, Zenon
  <2>2. \A d \in TableClients : [handling[d] EXCEPT !.clear = @ /\ d \notin met] \in Request
    <3> TAKE d \in TableClients
    <3>1. handling[d] \in Request
      BY <1>1
    <3>2. QED
      BY <1>4, <3>1, Zenon
  <2> DEFINE to(d) == IF d = c THEN IF h.todo = <<>> THEN Unasked ELSE [h EXCEPT !.clear = @ /\ met = {}]
                      ELSE [handling[d] EXCEPT !.clear = @ /\ d \notin met]
  <2>3. \A d \in TableClients : to(d) \in Request
    BY <1>3, <2>1, <2>2, Zenon
  <2>4. handling' = [d \in TableClients |-> to(d)]
    BY <1>2
  <2> HIDE DEF to
  <2>5. QED
    BY <2>3, <2>4
<1>6. \A d \in TableClients \ {c} : handling'[d] = [handling[d] EXCEPT !.clear = @ /\ d \notin met]
  BY <1>2
<1>7. Beside(c)
  <2>1. ASSUME NEW d \in TableClients \ {c} PROVE SameBut(handling'[d], handling[d])
    <3>1. handling[d] \in Request /\ handling'[d] = [handling[d] EXCEPT !.clear = @ /\ d \notin met]
      BY <1>1, <1>6
    <3>2. SameBut([handling[d] EXCEPT !.clear = @ /\ d \notin met], handling[d])
      BY <1>4, <3>1, Zenon
    <3>3. QED
      BY <3>1, <3>2
  <2>2. QED
    BY <2>1 DEF Beside
<1>8. \A d \in TableClients \ {c} : IF d \in On(n) THEN ~handling'[d].clear ELSE handling'[d] = handling[d]
  <2> TAKE d \in TableClients \ {c}
  <2>1. CASE d \in On(n)
    <3>1. ~(d \notin met)
      BY <2>1 DEF met
    <3>2. handling[d] \in Request /\ handling'[d] = [handling[d] EXCEPT !.clear = @ /\ d \notin met]
      BY <1>1, <1>6
    <3>3. [handling[d] EXCEPT !.clear = @ /\ d \notin met].clear => d \notin met
      BY <1>4, <3>2, Zenon
    <3>4. QED
      BY <2>1, <3>1, <3>2, <3>3, Zenon
  <2>2. CASE d \notin On(n)
    <3>1. d \notin met
      BY <2>2 DEF met
    <3>2. QED
      BY <1>1, <1>4, <1>6, <3>1, <2>2
  <2>3. QED
    BY <2>1, <2>2
<1>9. h.todo # <<>> => handling'[c] = [h EXCEPT !.clear = @ /\ met = {}]
  BY <1>2
<1>10. h.todo # <<>> => /\ SameBut(handling'[c], h)
                        /\ handling'[c].clear => On(n) \subseteq {c}
  BY <1>4, <1>9 DEF met
<1>11. h.todo = <<>> => handling'[c] = Unasked
  BY <1>2
<1>12. QED
  BY <1>5, <1>7, <1>8, <1>10, <1>11

(* A step that leaves the table and the rows of a name alone. *)
RealSame(n) ==
  /\ n \in DOMAIN real' <=> n \in DOMAIN real
  /\ n \in DOMAIN real => real'[n] = real[n]
RowsSame(n) ==
  /\ RegisteredAs(n)' = RegisteredAs(n)
  /\ \A i \in RegisteredAs(n) : registry'[i] = registry[i]

(* A name none of whose requests moves keeps what holds of it. *)
LEMMA Elsewhere ==
  ASSUME NEW n \in Names, RealSame(n), RowsSame(n), n \in torn' <=> n \in torn,
         n \in adrift' <=> n \in adrift, On(n)' = On(n),
         \A d \in On(n) : handling'[d] = handling[d], NameInv(n)
  PROVE  NameInv(n)'
<1>1. Agrees(n)' <=> Agrees(n)
  BY DEF Agrees, RealSame, RowsSame
<1>2. \A d \in On(n) : Halfway(handling[d], n)' <=> Halfway(handling[d], n)
  BY <1>1 DEF Halfway, RealSame, RowsSame
<1>3. SchemaInv(n)'
  BY <1>1, <1>2 DEF SchemaInv, NameInv, Late
<1>4. AloneInv(n)'
  BY DEF AloneInv, NameInv, RealSame, RowsSame
<1>5. Inserts(n)' <=> Inserts(n)
  BY DEF Inserts
<1>6. n \notin torn => \A d \in On(n) : handling[d].todo \in {C2, C1} => n \in DOMAIN real
  BY DEF NameInv, SchemaInv, Halfway
<1>7. CountInv(n)'
  BY <1>5, <1>6 DEF CountInv, NameInv, RealSame, RowsSame
<1>8. QED
  BY <1>3, <1>4, <1>7 DEF NameInv

(* A request that goes on with one name leaves the requests of others.       *)
LEMMA MeetApart ==
  ASSUME TableTypes, NEW c \in TableClients, NEW h \in Request, NEW n \in Names, handling' = Meet(h, c, n),
         h.name = n, NEW m \in Names \ {n}, c \notin On(m)
  PROVE  On(m)' = On(m) /\ \A d \in On(m) : handling'[d] = handling[d]
<1>1. \A d \in TableClients \ {c} : d \in On(m) => handling'[d] = handling[d]
  BY MeetIs DEF On
<1>2. \A d \in TableClients \ {c} : d \in On(m)' <=> d \in On(m)
  BY MeetIs DEF On, Beside, SameBut
<1>3. c \notin On(m)'
  <2>1. CASE h.todo = <<>>
    <3>1. handling'[c] = Unasked
      BY <2>1, MeetIs
    <3>2. Unasked.todo = <<>>
      BY DEF Unasked
    <3>3. QED
      BY <3>1, <3>2 DEF On
  <2>2. CASE h.todo # <<>>
    <3>1. handling'[c].name = n
      BY <2>2, MeetIs DEF SameBut
    <3>2. QED
      BY <3>1 DEF On
  <2>3. QED
    BY <2>1, <2>2
<1>4. QED
  BY <1>1, <1>2, <1>3 DEF On

(* A request that ends leaves the others.                                    *)
LEMMA EndsApart ==
  ASSUME TableTypes, NEW c \in TableClients, handling' = [handling EXCEPT ![c] = Unasked]
  PROVE  /\ \A d \in TableClients \ {c} : handling'[d] = handling[d]
         /\ handling'[c] = Unasked /\ Beside(c) /\ handling' \in [TableClients -> Request]
         /\ \A m \in Names : On(m)' = On(m) \ {c}
<1>1. handling \in [TableClients -> Request]
  BY DEF TableTypes
<1>2. Unasked \in Request
  <2>1. <<>> \in Seq(BOOLEAN)
    OBVIOUS
  <2>2. QED
    BY <2>1 DEF Unasked, Request
<1>3. /\ \A d \in TableClients \ {c} : handling'[d] = handling[d]
      /\ handling'[c] = Unasked /\ handling' \in [TableClients -> Request]
  BY <1>1, <1>2
<1>4. Beside(c)
  BY <1>3 DEF Beside, SameBut
<1>5. \A m \in Names : On(m)' = On(m) \ {c}
  BY <1>3 DEF On, Unasked
<1>6. QED
  BY <1>3, <1>4, <1>5

(* The types, of which a step has little to show. *)
LEMMA TypesMove ==
  ASSUME TableTypes, NEW c \in TableClients, Beside(c), handling' \in [TableClients -> Request],
         \A d \in TableClients \ {c} : handling[d].todo = <<>> => handling'[d] = handling[d],
         Shaped(handling[c])', ids' \in Nat, ids' >= ids, DOMAIN real' \subseteq Names,
         \A n \in DOMAIN real' : real'[n] \in [cols : SUBSET Columns, size : Nat],
         DOMAIN registry' \subseteq 1 .. ids',
         \A i \in DOMAIN registry' :
           /\ registry'[i] \in [name : Names, cols : SUBSET Columns, row_count : Nat]
           /\ i \in 1 .. ids => i \in DOMAIN registry /\ registry'[i].name = registry[i].name,
         \A i, j \in DOMAIN registry' : registry'[i].name = registry'[j].name => i = j
  PROVE  TableTypes'
<1>1. \A d \in TableClients \ {c} : Shaped(handling[d])'
  <2> TAKE d \in TableClients \ {c}
  <2>1. Shaped(handling[d]) /\ SameBut(handling'[d], handling[d])
    BY DEF TableTypes, Beside
  <2>2. (handling'[d].todo = <<>>) => handling'[d] = Unasked
    BY <2>1 DEF Shaped, SameBut
  <2>3. handling'[d].todo \in {D2, D1} =>
          handling'[d].id \in 1 .. ids /\ (handling'[d].id \in DOMAIN registry => registry[handling'[d].id].name = handling'[d].name)
    BY <2>1 DEF Shaped, SameBut
  <2>4. 1 .. ids \subseteq 1 .. ids'
    BY DEF TableTypes
  <2>5. handling'[d].todo \in {D2, D1} =>
          handling'[d].id \in 1 .. ids' /\ (handling'[d].id \in DOMAIN registry' => registry'[handling'[d].id].name = handling'[d].name)
    BY <2>3, <2>4
  <2>6. QED
    BY <2>1, <2>2, <2>5 DEF Shaped, SameBut
<1>2. \A d \in TableClients : Shaped(handling[d])'
  BY <1>1
<1>3. QED
  BY <1>2 DEF TableTypes

-----------------------------------------------------------------------------
(* What holds of the name that the request of a step works on.               *)

(* A step that keeps the columns of a name, and who works on it. *)
LateOn(c, n) == c \in On(n) /\ Late(handling[c])
KeepsSchema(n) ==
  /\ n \in DOMAIN real' <=> n \in DOMAIN real
  /\ n \in DOMAIN real => real'[n].cols = real[n].cols
  /\ RegisteredAs(n)' = RegisteredAs(n)
  /\ \A i \in RegisteredAs(n) : registry'[i].cols = registry[i].cols
OthersStay(c, n) == \A d \in TableClients \ {c} : d \in On(n)' <=> d \in On(n)

(* Who works on a name, and how late, changes only by the step's request.    *)
LEMMA BesideStay ==
  ASSUME NEW c, Beside(c), NEW n
  PROVE  OthersStay(c, n) /\ \A d \in TableClients \ {c} : LateOn(d, n)' <=> LateOn(d, n)
<1>1. OthersStay(c, n)
  BY DEF Beside, SameBut, OthersStay, On
<1>2. QED
  BY <1>1 DEF Beside, SameBut, OthersStay, LateOn, Late

(* A step that keeps the schema and leaves the request as late as it was     *)
(* keeps SchemaInv.                                                          *)
LEMMA SchemaQuiet ==
  ASSUME NEW c \in TableClients, NEW n \in Names, Beside(c), KeepsSchema(n), SchemaInv(n),
         n \in torn => n \in torn',
         LateOn(c, n)' => /\ LateOn(c, n) /\ handling'[c].id = handling[c].id
                          /\ handling'[c].cols = handling[c].cols
                          /\ \/ handling'[c].todo = handling[c].todo
                             \/ handling[c].todo = C2 /\ handling'[c].todo = C1,
         LateOn(c, n) /\ n \notin torn' => LateOn(c, n)' \/ Agrees(n)
  PROVE  SchemaInv(n)'
<1> SUFFICES ASSUME n \notin torn'
             PROVE  /\ \A d, e \in On(n)' : Late(handling'[d]) /\ Late(handling'[e]) => d = e
                    /\ (\E d \in On(n)' : Late(handling'[d])) \/ Agrees(n)'
                    /\ \A d \in On(n)' : Halfway(handling[d], n)'
  BY DEF SchemaInv
<1>1. n \notin torn
  OBVIOUS
<1>2. Agrees(n)' <=> Agrees(n)
  BY DEF Agrees, KeepsSchema
<1>3. \A d \in TableClients : LateOn(d, n)' => LateOn(d, n)
  BY BesideStay
<1>4. On(n) \subseteq TableClients /\ On(n)' \subseteq TableClients
  BY DEF On
<1>5. \A d, e \in On(n)' : Late(handling'[d]) /\ Late(handling'[e]) => d = e
  BY <1>1, <1>3, <1>4 DEF LateOn, SchemaInv
<1>6. (\E d \in On(n)' : Late(handling'[d])) \/ Agrees(n)'
  <2>1. CASE \E d \in On(n) : Late(handling[d])
    <3>1. PICK d \in On(n) : Late(handling[d])
      BY <2>1
    <3>2. LateOn(d, n) /\ d \in TableClients
      BY <3>1, <1>4 DEF LateOn
    <3>3. LateOn(d, n)' \/ Agrees(n)
      BY <3>2, BesideStay
    <3>4. QED
      BY <3>3, <1>2 DEF LateOn
  <2>2. CASE Agrees(n)
    BY <2>2, <1>2
  <2>3. QED
    BY <2>1, <2>2, <1>1 DEF SchemaInv
<1>7. ASSUME NEW d \in On(n)' PROVE Halfway(handling[d], n)'
  <2>1. CASE ~Late(handling'[d])
    BY <2>1 DEF Halfway, Late
  <2>2. CASE Late(handling'[d])
    <3>1. d \in TableClients /\ LateOn(d, n)' /\ LateOn(d, n)
      BY <2>2, <1>3, <1>4 DEF LateOn
    <3>2. Halfway(handling[d], n)
      BY <3>1, <1>1 DEF SchemaInv, LateOn
    <3>3. /\ handling'[d].id = handling[d].id /\ handling'[d].cols = handling[d].cols
          /\ \/ handling'[d].todo = handling[d].todo
             \/ handling[d].todo = C2 /\ handling'[d].todo = C1
      BY <3>1 DEF Beside, SameBut
    <3>4. handling'[d].todo \in {C2, C1} => handling[d].todo \in {C2, C1}
      BY <3>3, WordsAre DEF Words
    <3>5. handling'[d].todo = D2 => handling[d].todo = D2
      BY <3>3, WordsAre DEF Words
    <3>6. handling'[d].todo = D1 => handling[d].todo = D1
      BY <3>3, WordsAre DEF Words
    <3>7. QED
      BY <3>2, <3>3, <3>4, <3>5, <3>6, <1>2 DEF Halfway, KeepsSchema
  <2>3. QED
    BY <2>1, <2>2
<1>8. QED
  BY <1>5, <1>6, <1>7

(* A step of the only late request of a name leaves it halfway or agreeing.  *)
LEMMA SchemaMoves ==
  ASSUME NEW c \in TableClients, NEW n \in Names, Beside(c),
         n \notin torn' => /\ \A d \in TableClients \ {c} : ~LateOn(d, n)
                           /\ LateOn(c, n)' => Halfway(handling[c], n)'
                           /\ LateOn(c, n)' \/ Agrees(n)'
  PROVE  SchemaInv(n)'
<1> SUFFICES ASSUME n \notin torn'
             PROVE  /\ \A d, e \in On(n)' : Late(handling'[d]) /\ Late(handling'[e]) => d = e
                    /\ (\E d \in On(n)' : Late(handling'[d])) \/ Agrees(n)'
                    /\ \A d \in On(n)' : Halfway(handling[d], n)'
  BY DEF SchemaInv
<1>1. \A d \in TableClients \ {c} : ~LateOn(d, n)'
  BY BesideStay
<1>2. On(n)' \subseteq TableClients
  BY DEF On
<1>3. \A d \in On(n)' : Late(handling'[d]) => d = c /\ LateOn(c, n)'
  BY <1>1, <1>2 DEF LateOn
<1>4. \A d \in On(n)' : ~Late(handling'[d]) => Halfway(handling[d], n)'
  BY DEF Halfway, Late
<1>5. QED
  BY <1>3, <1>4 DEF LateOn

(* What AloneInv says of one request. *)
AloneOf(h, n) ==
  /\ h.todo = D2 => h.id \in RegisteredAs(n)
  /\ h.todo = D1 => n \notin DOMAIN real /\ h.id \in RegisteredAs(n)
  /\ h.todo = I1 => n \in DOMAIN real /\ h.count = real[n].size
AloneAt(c, n) == AloneOf(handling[c], n)

(* A step after which its own request is alone if it is clear.               *)
LEMMA AloneMoves ==
  ASSUME NEW c \in TableClients, NEW n \in Names, Beside(c),
         \A d \in TableClients \ {c} : d \in On(n) => ~handling'[d].clear,
         c \in On(n)' /\ handling'[c].clear => On(n) \subseteq {c} /\ AloneAt(c, n)'
  PROVE  AloneInv(n)'
<1>1. \A d \in TableClients \ {c} : d \in On(n)' => ~handling'[d].clear
  BY BesideStay DEF OthersStay
<1>2. On(n)' \subseteq TableClients /\ On(n) \subseteq TableClients
  BY DEF On
<1>3. SUFFICES ASSUME c \in On(n)', handling'[c].clear
               PROVE  On(n)' = {c} /\ AloneAt(c, n)'
  BY <1>1, <1>2 DEF AloneInv, AloneAt, AloneOf
<1>4. \A d \in On(n)' : d = c
  BY <1>2, <1>3, BesideStay DEF OthersStay
<1>5. QED
  BY <1>3, <1>4

(* What the request of a step itself has to do with the counts of a name. *)
InsertsOn(c, n) == c \in On(n) /\ handling[c].todo \in {I3, I2, I1}
MakesOn(c, n) == c \in On(n) /\ handling[c].todo \in {C2, C1}

(* A step that keeps a table and its rows, and ends no insert unmarked,      *)
(* keeps CountInv.                                                           *)
LEMMA CountQuiet ==
  ASSUME NEW c \in TableClients, NEW n \in Names, Beside(c), RealSame(n), RowsSame(n), CountInv(n), SchemaInv(n),
         n \in torn => n \in torn', n \in adrift => n \in adrift',
         InsertsOn(c, n) /\ n \notin adrift' => InsertsOn(c, n)',
         MakesOn(c, n)' /\ n \notin torn' /\ RegisteredAs(n) = {} =>
           MakesOn(c, n) /\ (handling'[c].clear => handling[c].clear)
  PROVE  CountInv(n)'
<1> SUFFICES ASSUME n \notin torn'
             PROVE  /\ n \notin adrift' =>
                         \/ Inserts(n)'
                         \/ \A i \in RegisteredAs(n)' : n \in DOMAIN real' => registry'[i].row_count = real'[n].size
                    /\ \A d \in On(n)' : handling'[d].todo \in {C2, C1} /\ RegisteredAs(n)' = {} =>
                         /\ handling'[d].clear => real'[n].size = 0
                         /\ n \notin adrift' => real'[n].size = 0 \/ Inserts(n)'
  BY DEF CountInv
<1>1. On(n) \subseteq TableClients /\ On(n)' \subseteq TableClients
  BY DEF On
<1>2. n \notin adrift' => (Inserts(n) => Inserts(n)')
  <2> SUFFICES ASSUME n \notin adrift', NEW d \in On(n), handling[d].todo \in {I3, I2, I1}
               PROVE  Inserts(n)'
    BY DEF Inserts
  <2>1. CASE d = c
    BY <2>1 DEF InsertsOn, Inserts
  <2>2. CASE d # c
    BY <2>2, <1>1, BesideStay DEF OthersStay, Beside, SameBut, Inserts
  <2>3. QED
    BY <2>1, <2>2
<1>3. n \notin adrift' =>
        \/ Inserts(n)'
        \/ \A i \in RegisteredAs(n)' : n \in DOMAIN real' => registry'[i].row_count = real'[n].size
  BY <1>2 DEF CountInv, RealSame, RowsSame
<1>4. ASSUME NEW d \in On(n)', handling'[d].todo \in {C2, C1}, RegisteredAs(n)' = {}
      PROVE  /\ handling'[d].clear => real'[n].size = 0
             /\ n \notin adrift' => real'[n].size = 0 \/ Inserts(n)'
  <2>1. RegisteredAs(n) = {}
    BY <1>4 DEF RowsSame
  <2>2. /\ d \in On(n) /\ handling[d].todo \in {C2, C1}
        /\ handling'[d].clear => handling[d].clear
    <3>1. CASE d = c
      BY <3>1, <1>4, <2>1 DEF MakesOn
    <3>2. CASE d # c
      BY <3>2, <1>1, <1>4, BesideStay DEF OthersStay, Beside, SameBut
    <3>3. QED
      BY <3>1, <3>2
  <2>3. n \in DOMAIN real
    BY <2>2 DEF SchemaInv, Halfway
  <2>4. real'[n] = real[n]
    BY <2>3 DEF RealSame
  <2>5. QED
    BY <2>1, <2>2, <2>4, <1>2 DEF CountInv
<1>5. QED
  BY <1>3, <1>4

LEMMA IdleIs == Unasked \in Request /\ Unasked.todo = <<>> /\ Unasked.name = NoName /\ Shaped(Unasked)
<1>1. <<>> \in Seq(BOOLEAN)
  OBVIOUS
<1>2. Unasked \in Request /\ Unasked.todo = <<>> /\ Unasked.name = NoName /\ Unasked.schema = FALSE
  BY <1>1 DEF Unasked, Request
<1>3. <<>> \notin Finding \union Named \union Making \union Dropping
  BY WordsAre DEF Words, Finding, Named, Making, Dropping
<1>4. <<>> \notin {D2, D1} /\ <<>> \notin {I5, I4, I3}
  BY WordsAre DEF Words
<1>5. QED
  BY <1>2, <1>3, <1>4 DEF Shaped

(* The request of a step works on one name, and leaves the others alone. *)
LEMMA MeetElsewhere ==
  ASSUME TablesInv, NEW c \in TableClients, NEW h \in Request, NEW n \in Names, handling' = Meet(h, c, n),
         h.name = n, handling[c].name \in {n, NoName},
         \A m \in Names \ {n} : /\ RealSame(m) /\ RowsSame(m)
                                /\ m \in torn' <=> m \in torn
                                /\ m \in adrift' <=> m \in adrift
  PROVE  \A m \in Names \ {n} : NameInv(m)'
<1> TAKE m \in Names \ {n}
<1>1. TableTypes /\ NameInv(m)
  BY DEF TablesInv
<1>2. c \notin On(m)
  BY TablesAssumption DEF On
<1>3. On(m)' = On(m) /\ \A d \in On(m) : handling'[d] = handling[d]
  BY <1>1, <1>2, MeetApart
<1>4. QED
  BY <1>1, <1>3, Elsewhere

(* The types after a step that goes on, given those of what it wrote.        *)
LEMMA MeetTypes ==
  ASSUME TableTypes, NEW c \in TableClients, NEW h \in Request, NEW n \in Names, handling' = Meet(h, c, n),
         h.todo # <<>> => Shaped(h)', ids' \in Nat, ids' >= ids, DOMAIN real' \subseteq Names,
         \A m \in DOMAIN real' : real'[m] \in [cols : SUBSET Columns, size : Nat],
         DOMAIN registry' \subseteq 1 .. ids',
         \A i \in DOMAIN registry' :
           /\ registry'[i] \in [name : Names, cols : SUBSET Columns, row_count : Nat]
           /\ i \in 1 .. ids => i \in DOMAIN registry /\ registry'[i].name = registry[i].name,
         \A i, j \in DOMAIN registry' : registry'[i].name = registry'[j].name => i = j
  PROVE  TableTypes'
<1>1. handling' \in [TableClients -> Request] /\ Beside(c)
  BY MeetIs
<1>2. \A d \in TableClients \ {c} : handling[d].todo = <<>> => handling'[d] = handling[d]
  BY MeetIs DEF On
<1>3. Shaped(handling[c])'
  <2>1. CASE h.todo = <<>>
    <3>1. handling'[c] = Unasked
      BY <2>1, MeetIs
    <3>2. Shaped(Unasked)'
      <4>1. <<>> \notin {D2, D1}
        BY WordsAre DEF Words
      <4>2. QED
        BY <4>1, IdleIs DEF Shaped
    <3>3. QED
      BY <3>1, <3>2
  <2>2. CASE h.todo # <<>>
    <3>1. SameBut(handling'[c], h)
      BY <2>2, MeetIs
    <3>2. QED
      BY <3>1, <2>2 DEF Shaped, SameBut
  <2>3. QED
    BY <2>1, <2>2
<1>4. QED
  BY <1>1, <1>2, <1>3, TypesMove

(* The step's own request after it goes on.                                  *)
LEMMA MeetNow ==
  ASSUME TableTypes, NEW c \in TableClients, NEW h \in Request, NEW n \in Names, handling' = Meet(h, c, n),
         h.name = n
  PROVE  /\ c \in On(n)' <=> h.todo # <<>>
         /\ c \in On(n)' => SameBut(handling'[c], h)
<1>1. CASE h.todo = <<>>
  BY <1>1, MeetIs, IdleIs DEF On
<1>2. CASE h.todo # <<>>
  <2>1. SameBut(handling'[c], h)
    BY <1>2, MeetIs
  <2>2. c \in On(n)'
    BY <2>1, <1>2 DEF SameBut, On
  <2>3. QED
    BY <1>2, <2>1, <2>2
<1>3. QED
  BY <1>1, <1>2

(* A step that neither starts nor ends a change of the schema. *)
LEMMA SchemaGoes ==
  ASSUME TableTypes, NEW c \in TableClients, NEW h \in Request, NEW n \in Names, handling' = Meet(h, c, n),
         h.name = n, SchemaInv(n), KeepsSchema(n), n \in torn => n \in torn',
         Late(h) => /\ LateOn(c, n) /\ h.id = handling[c].id /\ h.cols = handling[c].cols
                    /\ \/ h.todo = handling[c].todo
                       \/ handling[c].todo = C2 /\ h.todo = C1,
         LateOn(c, n) => h.todo # <<>> /\ Late(h)
  PROVE  SchemaInv(n)'
<1>1. Beside(c)
  BY MeetIs
<1>2. LateOn(c, n)' => /\ LateOn(c, n) /\ handling'[c].id = handling[c].id
                       /\ handling'[c].cols = handling[c].cols
                       /\ \/ handling'[c].todo = handling[c].todo
                          \/ handling[c].todo = C2 /\ handling'[c].todo = C1
  BY MeetNow DEF LateOn, SameBut, Late
<1>3. LateOn(c, n) => LateOn(c, n)'
  BY MeetNow DEF LateOn, SameBut, Late
<1>4. QED
  BY <1>1, <1>2, <1>3, SchemaQuiet

(* A step that changes no table. *)
LEMMA GoesQuietly ==
  ASSUME TablesInv, NEW c \in TableClients, NEW h \in Request, NEW n \in Names, handling' = Meet(h, c, n),
         h.name = n, handling[c].name \in {n, NoName}, UNCHANGED <<real, registry, ids, adrift>>,
         torn \subseteq torn', torn' \subseteq torn \union {n}, SchemaInv(n)',
         h.todo # <<>> => Shaped(h) /\ AloneOf(h, n),
         InsertsOn(c, n) => h.todo \in {I3, I2, I1},
         h.todo \in {C2, C1} /\ n \notin torn' /\ RegisteredAs(n) = {} =>
           MakesOn(c, n) /\ (h.clear => handling[c].clear)
  PROVE  TablesInv'
<1>1. TableTypes /\ NameInv(n)
  BY DEF TablesInv
<1>2. \A m \in Names : RealSame(m) /\ RowsSame(m)
  BY DEF RealSame, RowsSame, RegisteredAs
<1>3. Beside(c) /\ \A d \in TableClients \ {c} : d \in On(n) => ~handling'[d].clear
  BY <1>1, MeetIs
<1>4. \A m \in Names \ {n} : NameInv(m)'
  BY <1>2, MeetElsewhere
<1>5. TableTypes'
  <2>1. h.todo # <<>> => Shaped(h)'
    BY DEF Shaped
  <2>2. /\ ids' \in Nat /\ ids' >= ids /\ DOMAIN real' \subseteq Names
        /\ \A m \in DOMAIN real' : real'[m] \in [cols : SUBSET Columns, size : Nat]
        /\ DOMAIN registry' \subseteq 1 .. ids'
        /\ \A i \in DOMAIN registry' :
             /\ registry'[i] \in [name : Names, cols : SUBSET Columns, row_count : Nat]
             /\ i \in 1 .. ids => i \in DOMAIN registry /\ registry'[i].name = registry[i].name
        /\ \A i, j \in DOMAIN registry' : registry'[i].name = registry'[j].name => i = j
    <3>1. real' = real /\ registry' = registry /\ ids' = ids
      OBVIOUS
    <3>2. ids' >= ids
      BY <1>1, <3>1 DEF TableTypes
    <3>3. QED
      BY <1>1, <3>1, <3>2 DEF TableTypes
  <2>3. QED
    BY <1>1, <2>1, <2>2, MeetTypes
<1>6. AloneInv(n)'
  <2>1. c \in On(n)' /\ handling'[c].clear => On(n) \subseteq {c}
    <3>1. c \in On(n)' => h.todo # <<>>
      BY <1>1, MeetNow
    <3>2. h.todo # <<>> => (handling'[c].clear => On(n) \subseteq {c})
      BY <1>1, MeetIs
    <3>3. QED
      BY <3>1, <3>2
  <2>2. c \in On(n)' => AloneAt(c, n)'
    <3>1. c \in On(n)' => AloneOf(h, n)' /\ SameBut(handling'[c], h)
      BY <1>1, MeetNow DEF AloneOf, RegisteredAs
    <3>2. QED
      BY <3>1 DEF AloneAt, AloneOf, SameBut
  <2>3. QED
    BY <1>3, <2>1, <2>2, AloneMoves
<1>7. CountInv(n)'
  <2>1. InsertsOn(c, n) => InsertsOn(c, n)'
    <3>1. <<>> \notin {I3, I2, I1}
      BY WordsAre DEF Words
    <3>2. InsertsOn(c, n) => c \in On(n)' /\ SameBut(handling'[c], h)
      BY <1>1, <3>1, MeetNow
    <3>3. QED
      BY <3>2 DEF InsertsOn, SameBut
  <2>2. MakesOn(c, n)' /\ n \notin torn' /\ RegisteredAs(n) = {} =>
          MakesOn(c, n) /\ (handling'[c].clear => handling[c].clear)
    BY <1>1, MeetNow DEF MakesOn, SameBut
  <2>3. QED
    BY <1>1, <1>2, <1>3, <2>1, <2>2, CountQuiet DEF NameInv
<1>8. \A m \in Names : NameInv(m)'
  BY <1>4, <1>6, <1>7 DEF NameInv
<1>9. QED
  BY <1>5, <1>8 DEF TablesInv

(* A request ends where it is, with what it has done. *)
LEMMA EndsQuietly ==
  ASSUME TablesInv, NEW c \in TableClients, handling[c].todo # <<>>, Ends(c),
         torn \subseteq torn', torn' \subseteq torn \union {Name(c)},
         adrift \subseteq adrift', adrift' \subseteq adrift \union {Name(c)},
         \A n \in Names : /\ LateOn(c, n) /\ n \notin torn' => Agrees(n)
                          /\ InsertsOn(c, n) => n \in adrift'
  PROVE  TablesInv'
<1>1. TableTypes /\ UNCHANGED <<real, registry, ids>> /\ handling' = [handling EXCEPT ![c] = Unasked]
  BY DEF TablesInv, Ends
<1>2. /\ \A d \in TableClients \ {c} : handling'[d] = handling[d]
      /\ handling'[c] = Unasked /\ Beside(c) /\ handling' \in [TableClients -> Request]
      /\ \A m \in Names : On(m)' = On(m) \ {c}
  BY <1>1, EndsApart
<1>3. \A m \in Names : RealSame(m) /\ RowsSame(m)
  BY <1>1 DEF RealSame, RowsSame, RegisteredAs
<1>4. TableTypes'
  <2>1. Shaped(handling[c])'
    <3>1. <<>> \notin {D2, D1}
      BY WordsAre DEF Words
    <3>2. QED
      BY <3>1, <1>2, IdleIs DEF Shaped
  <2>2. QED
    BY <1>1, <1>2, <2>1, TypesMove DEF TableTypes
<1>5. ASSUME NEW m \in Names PROVE NameInv(m)'
  <2>1. NameInv(m)
    BY DEF TablesInv
  <2>2. CASE c \notin On(m)
    <3>1. m # Name(c)
      BY <2>2 DEF On, Name
    <3>2. /\ m \in torn' <=> m \in torn
          /\ m \in adrift' <=> m \in adrift
      BY <3>1
    <3>3. On(m)' = On(m) /\ \A d \in On(m) : handling'[d] = handling[d]
      BY <2>2, <1>2 DEF On
    <3>4. QED
      BY <2>1, <3>2, <3>3, <1>3, Elsewhere
  <2>3. CASE c \in On(m)
    <3>1. c \notin On(m)'
      BY <1>2
    <3>2. SchemaInv(m)'
      <4>1. KeepsSchema(m)
        BY <1>3 DEF KeepsSchema, RealSame, RowsSame
      <4>2. QED
        BY <4>1, <2>1, <1>2, <3>1, SchemaQuiet DEF NameInv, LateOn
    <3>3. AloneInv(m)'
      <4>1. \A d \in TableClients \ {c} : d \in On(m) => ~handling'[d].clear
        BY <2>1, <2>3, <1>2 DEF NameInv, AloneInv
      <4>2. QED
        BY <4>1, <3>1, <1>2, AloneMoves
    <3>4. CountInv(m)'
      BY <2>1, <1>2, <1>3, <3>1, CountQuiet DEF NameInv, MakesOn
    <3>5. QED
      BY <3>2, <3>3, <3>4 DEF NameInv
  <2>4. QED
    BY <2>2, <2>3
<1>6. QED
  BY <1>4, <1>5 DEF TablesInv

-----------------------------------------------------------------------------
(* The steps.                                                                *)

LEMMA RefuseKeeps ==
  ASSUME TablesInv, NEW c \in TableClients, handling[c].todo # <<>>, Refuse(c),
         handling[c].todo \notin {I3, I2, I1},
         \A n \in Names : LateOn(c, n) /\ n \notin torn => Agrees(n)
  PROVE  TablesInv'
<1>1. Ends(c) /\ torn' = torn /\ adrift' = adrift
  BY DEF Refuse
<1>2. \A n \in Names : ~InsertsOn(c, n)
  BY DEF InsertsOn
<1>3. QED
  BY <1>1, <1>2, EndsQuietly

(* A request that breaks off marks its name, so nothing is said of it.       *)
LEMMA HalfDoneKeeps ==
  ASSUME TablesInv, NEW c \in TableClients, handling[c].todo # <<>>, HalfDone(c)
  PROVE  TablesInv'
<1>1. Ends(c) /\ adrift' = adrift \union {Name(c)}
  BY DEF HalfDone
<1>2. torn \subseteq torn' /\ torn' \subseteq torn \union {Name(c)}
  BY DEF HalfDone
<1>3. ASSUME NEW n \in Names, LateOn(c, n) PROVE n \in torn'
  <2>1. Shaped(handling[c])
    BY DEF TablesInv, TableTypes
  <2>2. handling[c].schema /\ Name(c) = n
    BY <1>3, <2>1 DEF LateOn, Late, Shaped, Making, Dropping, On, Name
  <2>3. QED
    BY <2>2 DEF HalfDone
<1>4. \A n \in Names : InsertsOn(c, n) => n = Name(c)
  BY DEF InsertsOn, On, Name
<1>5. QED
  BY <1>1, <1>2, <1>3, <1>4, EndsQuietly

(* What the invariant says of one request.                                   *)
LEMMA RequestIs ==
  ASSUME TablesInv, NEW c \in TableClients
  PROVE  /\ TableTypes /\ handling[c] \in Request /\ Shaped(handling[c])
         /\ handling[c].todo \in Finding \union Named \union {<<>>}
         /\ handling[c].todo \in Named => Name(c) \in Names /\ c \in On(Name(c)) /\ handling[c].name = Name(c)
         /\ \A n \in Names : SchemaInv(n) /\ AloneInv(n) /\ CountInv(n)
<1>1. TableTypes /\ handling[c] \in Request /\ Shaped(handling[c])
  BY DEF TablesInv, TableTypes
<1>2. handling[c].todo \in Finding \union Named \union {<<>>}
  BY <1>1 DEF Request
<1>3. <<>> \notin Named
  BY WordsAre DEF Words, Named
<1>4. handling[c].todo \in Named => Name(c) \in Names /\ c \in On(Name(c)) /\ handling[c].name = Name(c)
  BY <1>1, <1>3 DEF Shaped, Name, On
<1>5. \A n \in Names : SchemaInv(n) /\ AloneInv(n) /\ CountInv(n)
  BY DEF TablesInv, NameInv
<1>6. QED
  BY <1>1, <1>2, <1>4, <1>5

(* A change of the schema that has not torn its name meets no other change. *)
LEMMA SchemaAlone ==
  ASSUME TableTypes, NEW c, NEW n, n \notin torn',
         torn' = torn \union IF SchemaOn(n) \ {c} # {} THEN {n} ELSE {}
  PROVE  n \notin torn /\ \A d \in TableClients \ {c} : ~LateOn(d, n)
<1>1. n \notin torn /\ SchemaOn(n) \ {c} = {}
  OBVIOUS
<1>2. \A d \in TableClients : LateOn(d, n) => d \in SchemaOn(n)
  BY DEF TableTypes, Shaped, LateOn, Late, Making, Dropping, SchemaOn
<1>3. QED
  BY <1>1, <1>2

(* A new request. *)
LEMMA ArrivesKeeps ==
  ASSUME TablesInv, NEW c \in TableClients, NEW h \in Request, Arrives(c, h), Shaped(h),
         h.todo \in Finding \union {C3, I4}
  PROVE  TablesInv'
<1>1. TableTypes /\ handling[c].todo = <<>> /\ handling[c] = Unasked
  BY RequestIs DEF Arrives, Shaped
<1>2. UNCHANGED <<real, registry, torn, adrift, ids>>
  BY DEF Arrives
<1>3. /\ \A m \in Names : c \notin On(m)
      /\ handling[c].name = NoName
  BY <1>1, IdleIs DEF On
<1>4. ~Late(h) /\ h.todo # <<>> /\ h.todo \notin {C2, C1, I1}
  <2>1. \A w \in Finding \union {C3, I4} : w # <<>> /\ w \notin {C2, C1, D2, D1} /\ w # I1
    <3>1. \A w \in Finding \union {C3, I4} : w # <<>> /\ Head(w) \in {"find by id", "create", "columns"}
      BY FirstsAre, WordsGoOn DEF Firsts, Finding, Named
    <3>2. \A w \in {C2, C1, D2, D1, I1} : Head(w) \in {"index", "register", "drop", "unregister", "store"}
      BY FirstsAre DEF Firsts
    <3>3. QED
      BY <3>1, <3>2
  <2>2. QED
    BY <2>1 DEF Late
<1>5. CASE h.name \in Names
  <2> DEFINE n == h.name
  <2>1. handling' = Meet(h, c, n)
    BY <1>5 DEF Arrives
  <2>2. SchemaInv(n)'
    <3>1. KeepsSchema(n)
      BY <1>2 DEF KeepsSchema, RegisteredAs
    <3>2. SchemaInv(n) /\ ~LateOn(c, n)
      BY <1>3, <1>5, RequestIs DEF LateOn
    <3>3. QED
      BY <1>1, <1>2, <1>4, <1>5, <2>1, <3>1, <3>2, SchemaGoes
  <2>3. AloneOf(h, n)
    BY <1>4 DEF AloneOf, Late
  <2>4. ~InsertsOn(c, n)
    BY <1>3, <1>5 DEF InsertsOn
  <2>5. torn \subseteq torn' /\ torn' \subseteq torn \union {n} /\ UNCHANGED <<real, registry, ids, adrift>>
    BY <1>2
  <2>6. h.todo \notin {C2, C1}
    BY <1>4
  <2> HIDE DEF n
  <2>7. h.name = n /\ n \in Names
    BY <1>5 DEF n
  <2>8. QED
    BY <1>3, <2>1, <2>2, <2>3, <2>4, <2>5, <2>6, <2>7, GoesQuietly
<1>6. CASE h.name \notin Names
  <2>1. handling' = [handling EXCEPT ![c] = h] /\ handling \in [TableClients -> Request]
    BY <1>6, <1>1 DEF Arrives, TableTypes
  <2>2. \A d \in TableClients \ {c} : handling'[d] = handling[d]
    BY <2>1
  <2>3. handling'[c] = h /\ handling' \in [TableClients -> Request]
    BY <2>1
  <2>4. Beside(c)
    BY <2>2 DEF Beside, SameBut
  <2>5. TableTypes'
    <3>1. Shaped(handling[c])'
      BY <1>2, <2>3 DEF Shaped
    <3>2. QED
      BY <1>1, <1>2, <2>2, <2>3, <2>4, <3>1, TypesMove DEF TableTypes
  <2>6. ASSUME NEW m \in Names PROVE NameInv(m)'
    <3>1. NameInv(m) /\ RealSame(m) /\ RowsSame(m)
      BY <1>2 DEF TablesInv, RealSame, RowsSame, RegisteredAs
    <3>2. \A d \in TableClients : d \in On(m)' <=> d \in On(m)
      BY <1>3, <1>6, <2>2, <2>3 DEF On
    <3>3. On(m)' = On(m) /\ \A d \in On(m) : handling'[d] = handling[d]
      BY <1>3, <2>2, <3>2 DEF On
    <3>4. QED
      BY <1>2, <3>1, <3>3, Elsewhere
  <2>7. QED
    BY <2>5, <2>6 DEF TablesInv
<1>7. QED
  BY <1>5, <1>6

(* The requests are ones a client can make. *)
LEMMA AsksKeeps ==
  ASSUME TablesInv, NEW c \in TableClients,
         PostTable(c) \/ DeleteTable(c) \/ PostData(c) \/ PostV1Data(c) \/ PatchData(c) \/ DeleteData(c)
  PROVE  TablesInv'
<1>0. /\ Unasked \in Request /\ Unasked.name = NoName /\ Unasked.schema = FALSE /\ ids \in Nat
      /\ \A b \in Batches : b \in Seq(BOOLEAN) /\ b # <<>>
  BY IdleIs DEF Unasked, Batches, TablesInv, TableTypes
<1>00. /\ {C3, I4} \subseteq Named /\ {D3, I5, U3, X3} = Finding
       /\ \A w \in Finding \union {C3, I4} : w # <<>> /\ w \notin {D2, D1}
       /\ C3 \in Making /\ D3 \in Dropping /\ C3 \notin Finding /\ I4 \notin Finding
       /\ {I5, U3, X3, I4} \intersect (Making \union Dropping) = {} /\ Finding \intersect Named = {}
  <2>1. {C3, I4} \subseteq Named /\ {D3, I5, U3, X3} = Finding /\ C3 \in Making /\ D3 \in Dropping
    BY DEF Named, Finding, Making, Dropping
  <2>2. \A w \in Finding \union {C3, I4} : w # <<>> /\ w \notin {D2, D1}
    <3>1. \A w \in Finding \union {C3, I4} : Head(w) \in {"find by id", "create", "columns"}
      BY FirstsAre DEF Firsts, Finding
    <3>2. \A w \in {D2, D1} : Head(w) \in {"drop", "unregister"}
      BY FirstsAre DEF Firsts
    <3>3. QED
      BY <2>1, <3>1, <3>2, WordsGoOn
  <2>3. C3 \notin Finding /\ I4 \notin Finding
    BY WordsAre DEF Words, Finding
  <2>4. \A w \in {I5, U3, X3, I4} : w \notin Making /\ w \notin Dropping
    <3>1. \A w \in {I5, U3, X3} : Head(w) = "find by id" /\ Tail(w) \in {I4, U2, X2}
      BY WordsAre DEF Words
    <3>2. Head(I4) = "columns" /\ D2 \notin {I4, U2, X2} /\ Tail(D3) = D2
      BY WordsAre DEF Words
    <3>3. \A w \in Making : Head(w) \in {"create", "index", "register"}
      BY WordsAre DEF Words, Making
    <3>4. \A w \in Dropping : w = D3 \/ Head(w) \in {"drop", "unregister"}
      BY WordsAre DEF Words, Dropping
    <3>5. Head(D3) = "find by id"
      BY WordsAre DEF Words
    <3>6. QED
      BY <3>1, <3>2, <3>3, <3>4, <3>5
  <2>5. \A w \in Finding : w \notin Named
    <3>1. \A w \in Finding : Head(w) = "find by id"
      BY FirstsAre DEF Firsts, Finding
    <3>2. \A w \in Named : Head(w) # "find by id"
      BY WordsAre DEF Words, Named
    <3>3. QED
      BY <3>1, <3>2
  <2>6. QED
    BY <2>1, <2>2, <2>3, <2>4, <2>5
<1>01. \A i \in TableIds : i \in Nat
  BY <1>0 DEF TableIds
<1>1. CASE PostTable(c)
  <2>1. PICK n \in Names, S \in SUBSET Columns :
          Arrives(c, [Unasked EXCEPT !.todo = C3, !.name = n, !.cols = S, !.schema = TRUE])
    BY <1>1, HandlersAre DEF PostTable
  <2> DEFINE h == [Unasked EXCEPT !.todo = C3, !.name = n, !.cols = S, !.schema = TRUE]
  <2>2. h \in Request /\ h.todo = C3 /\ h.name = n /\ h.schema = TRUE
    BY <1>0, <1>00 DEF Request
  <2> HIDE DEF h
  <2>3. Arrives(c, h)
    BY <2>1 DEF h
  <2>4. C3 \notin {I5, I4, I3}
    BY WordsAre DEF Words
  <2>5. Shaped(h)
    BY <1>00, <2>2, <2>4 DEF Shaped
  <2>6. QED
    BY <2>2, <2>3, <2>5, ArrivesKeeps
<1>2. CASE DeleteTable(c)
  <2>1. PICK i \in TableIds : Arrives(c, [Unasked EXCEPT !.todo = D3, !.id = i, !.schema = TRUE])
    BY <1>2, HandlersAre DEF DeleteTable
  <2> DEFINE h == [Unasked EXCEPT !.todo = D3, !.id = i, !.schema = TRUE]
  <2>2. h \in Request /\ h.todo = D3 /\ h.name = NoName /\ h.schema = TRUE
    BY <1>0, <1>00, <1>01 DEF Request
  <2> HIDE DEF h
  <2>3. Arrives(c, h)
    BY <2>1 DEF h
  <2>4. D3 \notin {I5, I4, I3}
    BY WordsAre DEF Words
  <2>5. Shaped(h)
    BY <1>00, <2>2, <2>4 DEF Shaped
  <2>6. QED
    BY <1>00, <2>2, <2>3, <2>5, ArrivesKeeps
<1>3. CASE PostData(c)
  <2>1. PICK i \in TableIds, b \in Batches : Arrives(c, [Unasked EXCEPT !.todo = I5, !.id = i, !.rows = b])
    BY <1>3, HandlersAre DEF PostData
  <2> DEFINE h == [Unasked EXCEPT !.todo = I5, !.id = i, !.rows = b]
  <2>2. h \in Request /\ h.todo = I5 /\ h.name = NoName /\ h.schema = FALSE /\ h.rows # <<>>
    BY <1>0, <1>00, <1>01 DEF Request
  <2> HIDE DEF h
  <2>3. Arrives(c, h)
    BY <2>1 DEF h
  <2>4. Shaped(h)
    BY <1>00, <2>2 DEF Shaped
  <2>5. QED
    BY <1>00, <2>2, <2>3, <2>4, ArrivesKeeps
<1>4. CASE PostV1Data(c)
  <2>1. PICK n \in Names, b \in Batches : Arrives(c, [Unasked EXCEPT !.todo = I4, !.name = n, !.rows = b])
    BY <1>4, HandlersAre DEF PostV1Data
  <2> DEFINE h == [Unasked EXCEPT !.todo = I4, !.name = n, !.rows = b]
  <2>2. h \in Request /\ h.todo = I4 /\ h.name = n /\ h.schema = FALSE /\ h.rows # <<>>
    BY <1>0, <1>00 DEF Request
  <2> HIDE DEF h
  <2>3. Arrives(c, h)
    BY <2>1 DEF h
  <2>4. Shaped(h)
    BY <1>00, <2>2 DEF Shaped
  <2>5. QED
    BY <2>2, <2>3, <2>4, ArrivesKeeps
<1>5. CASE PatchData(c) \/ DeleteData(c)
  <2>1. PICK i \in TableIds, w \in {U3, X3} : Arrives(c, [Unasked EXCEPT !.todo = w, !.id = i])
    BY <1>5, HandlersAre DEF PatchData, DeleteData
  <2> DEFINE h == [Unasked EXCEPT !.todo = w, !.id = i]
  <2>2. h \in Request /\ h.todo = w /\ h.name = NoName /\ h.schema = FALSE
    BY <1>0, <1>00, <1>01 DEF Request
  <2> HIDE DEF h
  <2>3. Arrives(c, h)
    BY <2>1 DEF h
  <2>4. w \notin {I5, I4, I3}
    BY WordsAre DEF Words
  <2>5. Shaped(h)
    BY <1>00, <2>2, <2>4 DEF Shaped
  <2>6. QED
    BY <1>00, <2>2, <2>3, <2>5, ArrivesKeeps
<1>6. QED
  BY <1>1, <1>2, <1>3, <1>4, <1>5

(* A request with its first statement done differs in what remains only.     *)
LEMMA NextIs ==
  ASSUME NEW g \in Request, NEW w \in Finding \union Named \union {<<>>}
  PROVE  LET h == [g EXCEPT !.todo = w]
         IN  /\ h \in Request /\ h.todo = w /\ h.id = g.id /\ h.name = g.name /\ h.cols = g.cols
             /\ h.rows = g.rows /\ h.schema = g.schema /\ h.count = g.count /\ (h.clear => g.clear)
BY DEF Request

(* The words that a word of each kind is not. *)
LEMMA WordsApart ==
  /\ \A w \in Finding : w # <<>> /\ w \notin Named /\ w \notin {C2, C1, D2, D1, I3, I2, I1}
  /\ \A w \in Named : w # <<>> /\ w \notin Finding
  /\ \A w \in {C3, I4, I3, I2, I1, U2, U1, X2, X1, <<>>} : w \notin {C2, C1, D2, D1}
  /\ \A w \in {I4, I3, I2, I1, U2, U1, X2, X1, <<>>} : w \notin Making \union Dropping
  /\ \A w \in {C3, C2, C1, D2, D1, I4, U2, U1, X2, X1, <<>>} : w \notin {I3, I2, I1}
  /\ C2 # C1 /\ D2 # D1 /\ {C2, C1} \intersect {D2, D1} = {}
<1>1. \A w \in Finding : w # <<>> /\ Head(w) = "find by id"
  BY FirstsAre, WordsGoOn DEF Firsts, Finding, Named
<1>2. \A w \in Named : w # <<>> /\ Head(w) # "find by id"
  <2>1. \A w \in {C3, C2, C1, D2, D1} : w # <<>> /\ Head(w) # "find by id"
    BY FirstsAre, WordsGoOn DEF Firsts, Finding, Named
  <2>2. \A w \in {I4, I3, I2, I1} : w # <<>> /\ Head(w) # "find by id"
    BY FirstsAre, WordsGoOn DEF Firsts, Finding, Named
  <2>3. \A w \in {U2, U1, X2, X1} : w # <<>> /\ Head(w) # "find by id"
    BY FirstsAre, WordsGoOn DEF Firsts, Finding, Named
  <2>4. QED
    BY <2>1, <2>2, <2>3 DEF Named
<1>3. \A w \in {C2, C1, D2, D1} : w # <<>> /\ Head(w) \in {"index", "register", "drop", "unregister"}
  BY FirstsAre, WordsGoOn DEF Firsts, Finding, Named
<1>4. \A w \in {I3, I2, I1} : w # <<>> /\ Head(w) \in {"insert", "count", "store"}
  BY FirstsAre, WordsGoOn DEF Firsts, Finding, Named
<1>5. \A w \in {C3, I4, I3, I2, I1, U2, U1, X2, X1} : w # <<>> /\ w \notin {C2, C1, D2, D1}
  <2>1. \A w \in {I4, I3, I2, I1} : w # <<>> /\ Head(w) \in {"columns", "insert", "count", "store"}
    BY FirstsAre, WordsGoOn DEF Firsts, Finding, Named
  <2>2. \A w \in {C3, U2, U1, X2, X1} : w # <<>> /\ Head(w) \in {"create", "columns", "update", "delete"}
    BY FirstsAre, WordsGoOn DEF Firsts, Finding, Named
  <2>3. QED
    BY <1>3, <2>1, <2>2
<1>6. \A w \in {C3, C2, C1, D2, D1, I4, U2, U1, X2, X1} : w # <<>> /\ w \notin {I3, I2, I1}
  <2>1. \A w \in {C3, C2, C1, D2, D1} :
          w # <<>> /\ Head(w) \in {"create", "index", "register", "drop", "unregister"}
    BY FirstsAre, WordsGoOn DEF Firsts, Finding, Named
  <2>2. \A w \in {I4, U2, U1, X2, X1} : w # <<>> /\ Head(w) \in {"columns", "update", "delete"}
    BY FirstsAre, WordsGoOn DEF Firsts, Finding, Named
  <2>3. QED
    BY <1>4, <2>1, <2>2
<1>7. \A w \in {I4, I3, I2, I1, U2, U1, X2, X1} :
        w # <<>> /\ Head(w) \in {"columns", "insert", "count", "store", "update", "delete"}
  <2>1. \A w \in {I4, I3, I2, I1} : w # <<>> /\ Head(w) \in {"columns", "insert", "count", "store"}
    BY FirstsAre, WordsGoOn DEF Firsts, Finding, Named
  <2>2. \A w \in {U2, U1, X2, X1} : w # <<>> /\ Head(w) \in {"columns", "update", "delete"}
    BY FirstsAre, WordsGoOn DEF Firsts, Finding, Named
  <2>3. QED
    BY <2>1, <2>2
<1>8. \A w \in Making \union Dropping :
        w # <<>> /\ Head(w) \in {"create", "index", "register", "find by id", "drop", "unregister"}
  <2>1. \A w \in {C3, C2, C1} : w # <<>> /\ Head(w) \in {"create", "index", "register"}
    BY FirstsAre, WordsGoOn DEF Firsts, Finding, Named
  <2>2. \A w \in {D3, D2, D1} : w # <<>> /\ Head(w) \in {"find by id", "drop", "unregister"}
    BY FirstsAre, WordsGoOn DEF Firsts, Finding, Named
  <2>3. QED
    BY <2>1, <2>2 DEF Making, Dropping
<1>9. C2 # C1 /\ D2 # D1 /\ {C2, C1} \intersect {D2, D1} = {}
  BY WordsAre DEF Words
<1>10. \A w \in Finding : w # <<>> /\ w \notin Named /\ w \notin {C2, C1, D2, D1, I3, I2, I1}
  BY <1>1, <1>2, <1>3, <1>4
<1>11. \A w \in Named : w # <<>> /\ w \notin Finding
  BY <1>1, <1>2
<1>12. \A w \in {C3, I4, I3, I2, I1, U2, U1, X2, X1, <<>>} : w \notin {C2, C1, D2, D1}
  BY <1>3, <1>5
<1>13. \A w \in {I4, I3, I2, I1, U2, U1, X2, X1, <<>>} : w \notin Making \union Dropping
  BY <1>7, <1>8
<1>14. \A w \in {C3, C2, C1, D2, D1, I4, U2, U1, X2, X1, <<>>} : w \notin {I3, I2, I1}
  BY <1>4, <1>6
<1>15. QED
  BY <1>9, <1>10, <1>11, <1>12, <1>13, <1>14

(* One lemma per statement of a handler, and one for its refusals: finding   *)
(* a table by its id gives the request its name.                             *)
LEMMA FindKeeps ==
  ASSUME TablesInv, NEW c \in TableClients, FindById(c)
  PROVE  TablesInv'
<1> DEFINE g == handling[c]
           i == g.id
<1>1. TableTypes /\ g \in Request /\ Shaped(g) /\ g.todo # <<>> /\ g.todo \in Finding
  BY RequestIs, AtIs DEF FindById, At
<1>2. g.name = NoName /\ \A m \in Names : c \notin On(m)
  BY <1>1, TablesAssumption DEF Shaped, On
<1>3. g.todo \notin {I3, I2, I1} /\ ~Late(g)
  BY <1>1, WordsApart DEF Late
<1>4. CASE i \notin DOMAIN registry
  <2>1. Refuse(c)
    BY <1>4 DEF FindById
  <2>2. \A n \in Names : ~LateOn(c, n)
    BY <1>2 DEF LateOn
  <2>3. QED
    BY <1>1, <1>3, <2>1, <2>2, RefuseKeeps
<1>5. CASE i \in DOMAIN registry
  <2>0. PICK n : n = registry[i].name
    OBVIOUS
  <2>00. PICK h : h = [g EXCEPT !.todo = Rest(c), !.name = n]
    OBVIOUS
  <2>1. n \in Names /\ i \in 1 .. ids
    BY <1>1, <1>5, <2>0 DEF TableTypes
  <2>2. /\ Rest(c) \in {D2, I4, U2, X2}
        /\ g.todo = D3 <=> Rest(c) = D2
        /\ g.todo = I5 <=> Rest(c) = I4
    <3>1. Rest(c) = Tail(g.todo)
      BY DEF Rest
    <3>2. Tail(D3) = D2 /\ Tail(I5) = I4 /\ Tail(U3) = U2 /\ Tail(X3) = X2
      BY WordsAre DEF Words
    <3>3. D2 # I4 /\ D2 # U2 /\ D2 # X2 /\ I4 # U2 /\ I4 # X2
      BY WordsAre DEF Words
    <3>4. QED
      BY <1>1, <3>1, <3>2, <3>3 DEF Finding
  <2>3. Rest(c) \in Named
    BY <2>2 DEF Named
  <2>4. /\ h \in Request /\ h.todo = Rest(c) /\ h.id = i /\ h.name = n /\ h.schema = g.schema /\ h.rows = g.rows
        /\ h.cols = g.cols
    BY <1>1, <2>00, <2>1, <2>3 DEF Request
  <2>5. Proceeds(c, h) /\ UNCHANGED <<real, registry, ids, adrift>>
    BY <1>5, <2>0, <2>00 DEF FindById
  <2>6. handling' = Meet(h, c, n) /\ torn' = torn \union IF h.schema /\ SchemaOn(n) \ {c} # {} THEN {n} ELSE {}
    BY <2>4, <2>5 DEF Proceeds
  <2>7. h.schema <=> h.todo = D2
    <3>1. g.schema <=> g.todo = D3
      <4>1. D3 \in Dropping /\ D3 \notin Making
        BY WordsAre DEF Words, Dropping, Making
      <4>2. QED
        BY <1>1, <4>1, ReadsApart, WordsApart DEF Shaped, Finding
    <3>2. QED
      BY <3>1, <2>2, <2>4
  <2>8. Shaped(h)
    <3>1. h.todo # <<>> /\ h.todo \notin Finding
      BY <2>3, <2>4, WordsApart
    <3>2. h.schema <=> h.todo \in Making \union Dropping
      <4>1. D2 \in Dropping
        BY DEF Dropping
      <4>2. QED
        BY <2>2, <2>4, <2>7, <4>1, WordsApart
    <3>3. h.todo \in {I5, I4, I3} => h.rows # <<>>
      <4>1. h.todo \in {I5, I4, I3} => h.todo = I4
        <5>1. \A w \in {D2, I4, U2, X2} : w # I5 /\ w # I3
          <6>1. \A w \in {D2, I4, U2, X2} : Head(w) \in {"drop", "columns"}
            BY FirstsAre DEF Firsts
          <6>2. Head(I5) = "find by id" /\ Head(I3) = "insert"
            BY FirstsAre DEF Firsts
          <6>3. QED
            BY <6>1, <6>2
        <5>2. QED
          BY <2>2, <2>4, <5>1
      <4>2. QED
        BY <1>1, <2>2, <2>4, <4>1 DEF Shaped
    <3>4. h.id \in 1 .. ids /\ (h.id \in DOMAIN registry => registry[h.id].name = h.name)
      BY <2>0, <2>1, <2>4
    <3>5. QED
      BY <2>1, <2>4, <3>1, <3>2, <3>3, <3>4 DEF Shaped
  <2>9. i \in RegisteredAs(n)
    BY <1>5, <2>0 DEF RegisteredAs
  <2>10. h.todo \notin {C2, C1, D1, I1}
    <3>1. \A w \in {D2, I4, U2, X2} : w \notin {C2, C1, D1, I1}
      <4>1. \A w \in {D2, I4, U2, X2} : Head(w) \in {"drop", "columns"}
        BY FirstsAre DEF Firsts
      <4>2. \A w \in {C2, C1, D1, I1} : Head(w) \notin {"drop", "columns"}
        BY FirstsAre DEF Firsts
      <4>3. QED
        BY <4>1, <4>2
    <3>2. QED
      BY <2>2, <2>4, <3>1
  <2>11. AloneOf(h, n)
    BY <2>4, <2>9, <2>10 DEF AloneOf
  <2>12. Beside(c) /\ (c \in On(n)' <=> h.todo # <<>>) /\ (c \in On(n)' => SameBut(handling'[c], h))
    BY <1>1, <2>1, <2>4, <2>6, MeetIs, MeetNow
  <2>13. Agrees(n)' <=> Agrees(n)
    BY <2>5 DEF Agrees, RegisteredAs
  <2>14. SchemaInv(n)'
    <3>1. CASE h.todo = D2
      <4>1. c \in On(n)' /\ handling'[c].todo = D2 /\ handling'[c].id = i
        BY <3>1, <2>3, <2>4, <2>12, WordsApart DEF SameBut
      <4>2. LateOn(c, n)'
        BY <4>1 DEF LateOn, Late
      <4>3. ASSUME n \notin torn' PROVE (\A d \in TableClients \ {c} : ~LateOn(d, n)) /\ Agrees(n)
        <5>1. n \notin torn /\ \A d \in TableClients \ {c} : ~LateOn(d, n)
          BY <4>3, <3>1, <1>1, <2>6, <2>7, SchemaAlone
        <5>2. \A d \in On(n) : ~Late(handling[d])
          BY <5>1, <1>2, <2>1 DEF LateOn, On
        <5>3. QED
          BY <5>1, <5>2, <2>1, RequestIs DEF SchemaInv
      <4>4. n \notin torn' => Halfway(handling[c], n)'
        <5>1. i \in RegisteredAs(n)'
          BY <2>9, <2>5 DEF RegisteredAs
        <5>2. QED
          BY <4>1, <4>3, <5>1, <2>13, WordsApart DEF Halfway
      <4>5. QED
        BY <2>1, <2>12, <4>2, <4>3, <4>4, SchemaMoves
    <3>2. CASE h.todo # D2
      <4>1. ~Late(h)
        BY <3>2, <2>10 DEF Late
      <4>2. KeepsSchema(n) /\ SchemaInv(n) /\ ~LateOn(c, n)
        BY <2>1, <2>5, <1>2, RequestIs DEF KeepsSchema, RegisteredAs, LateOn
      <4>3. n \in torn => n \in torn'
        BY <2>6
      <4>4. QED
        BY <1>1, <2>1, <2>4, <2>6, <4>1, <4>2, <4>3, SchemaGoes
    <3>3. QED
      BY <3>1, <3>2
  <2>15. ~InsertsOn(c, n)
    BY <1>2, <2>1 DEF InsertsOn
  <2>16. torn \subseteq torn' /\ torn' \subseteq torn \union {n} /\ handling[c].name \in {n, NoName}
    BY <1>2, <2>6
  <2>17. QED
    BY <2>1, <2>4, <2>5, <2>6, <2>8, <2>10, <2>11, <2>14, <2>15, <2>16, GoesQuietly
<1>6. QED
  BY <1>4, <1>5

LEMMA AloneGoes ==
  ASSUME TableTypes, NEW c \in TableClients, NEW h \in Request, NEW n \in Names, handling' = Meet(h, c, n),
         h.name = n, h.todo # <<>> /\ handling'[c].clear => AloneOf(h, n)'
  PROVE  AloneInv(n)'
<1>1. Beside(c) /\ \A d \in TableClients \ {c} : d \in On(n) => ~handling'[d].clear
  BY MeetIs
<1>2. c \in On(n)' => h.todo # <<>> /\ SameBut(handling'[c], h)
  BY MeetNow
<1>3. h.todo # <<>> => (handling'[c].clear => On(n) \subseteq {c})
  BY MeetIs
<1>4. c \in On(n)' /\ handling'[c].clear => AloneAt(c, n)'
  BY <1>2 DEF AloneAt, AloneOf, SameBut
<1>5. QED
  BY <1>1, <1>2, <1>3, <1>4, AloneMoves

(* A statement that changes no table and no registration. *)
LEMMA StepQuietly ==
  ASSUME TablesInv, NEW c \in TableClients, handling[c].todo \in Named, NEW h \in Request, Proceeds(c, h),
         h.name = Name(c), UNCHANGED <<real, registry, ids, adrift>>,
         h.todo # <<>> => Shaped(h) /\ AloneOf(h, Name(c)),
         handling[c].todo \in {I3, I2, I1} => h.todo \in {I3, I2, I1},
         Late(h) <=> Late(handling[c]),
         Late(h) => h = [handling[c] EXCEPT !.todo = C1] /\ handling[c].todo = C2
  PROVE  TablesInv'
<1>1. PICK n : n = Name(c)
  OBVIOUS
<1>2. /\ TableTypes /\ handling[c] \in Request /\ n \in Names /\ c \in On(n) /\ SchemaInv(n)
      /\ h.name = n /\ handling[c].name = n
  BY <1>1, RequestIs
<1>3. /\ handling' = Meet(h, c, n)
      /\ torn \subseteq torn' /\ torn' \subseteq torn \union {n}
  BY <1>1, <1>2 DEF Proceeds
<1>4. KeepsSchema(n)
  BY DEF KeepsSchema, RegisteredAs
<1>5. Late(h) => /\ h.todo = C1 /\ h.id = handling[c].id /\ h.cols = handling[c].cols
                 /\ (h.clear => handling[c].clear)
  BY <1>2 DEF Request
<1>6. Late(h) => h.todo # <<>>
  BY WordsApart DEF Late
<1>7. SchemaInv(n)'
  BY <1>2, <1>3, <1>4, <1>5, <1>6, SchemaGoes DEF LateOn
<1>8. h.todo \in {C2, C1} => MakesOn(c, n) /\ (h.clear => handling[c].clear)
  BY <1>2, <1>5 DEF Late, MakesOn
<1>9. InsertsOn(c, n) => h.todo \in {I3, I2, I1}
  BY DEF InsertsOn
<1>10. h.todo # <<>> => Shaped(h) /\ AloneOf(h, n)
  BY <1>1
<1>11. QED
  BY <1>2, <1>3, <1>7, <1>8, <1>9, <1>10, GoesQuietly

(* The index of a new table: the create stays halfway.                       *)
LEMMA IndexKeeps ==
  ASSUME TablesInv, NEW c \in TableClients, Index(c)
  PROVE  TablesInv'
<1>1. PICK g : g = handling[c]
  OBVIOUS
<1>2. TableTypes /\ g \in Request /\ Shaped(g) /\ g.todo # <<>> /\ g.todo = C2
  BY <1>1, RequestIs, AtIs DEF Index, At
<1>3. PICK n : n = Name(c)
  OBVIOUS
<1>4. n \in Names /\ c \in On(n) /\ g.name = n /\ g.todo \in Named /\ SchemaInv(n)
  BY <1>1, <1>2, <1>3, RequestIs DEF Named
<1>5. n \notin torn => Halfway(g, n)
  BY <1>1, <1>4 DEF SchemaInv
<1>6. CASE There(c) /\ GoesOn(c) /\ UNCHANGED <<real, registry, ids, adrift>>
  <2>1. PICK h : h = [g EXCEPT !.todo = C1]
    OBVIOUS
  <2>2. Rest(c) = C1 /\ C1 \in Named
    BY <1>1, <1>2, WordsAre DEF Rest, Words, Named
  <2>3. h \in Request /\ h.todo = C1 /\ h.name = n /\ h.schema = g.schema
    BY <1>2, <1>4, <2>1, <2>2 DEF Request
  <2>4. Proceeds(c, h) /\ UNCHANGED <<real, registry, ids, adrift>>
    BY <1>1, <1>6, <2>1, <2>2 DEF GoesOn
  <2>5. C1 # <<>> /\ C1 \notin Finding /\ C1 \notin {D2, D1, I1} /\ C1 \notin {I5, I4, I3} /\ C1 \in Making /\ C2 \in Making
    <3>1. C1 # <<>> /\ C1 \notin {D2, D1, I1} /\ C1 \notin {I5, I4, I3}
      BY WordsAre DEF Words
    <3>2. QED
      BY <2>2, <3>1, WordsApart DEF Making
  <2>6. Shaped(h) /\ AloneOf(h, n)
    BY <1>2, <1>4, <2>3, <2>5 DEF Shaped, AloneOf
  <2>7. g.todo \notin {I3, I2, I1} /\ Late(h) /\ Late(g)
    BY <1>2, <2>3, WordsApart DEF Late
  <2>8. QED
    BY <1>1, <1>2, <1>3, <1>4, <2>1, <2>3, <2>4, <2>6, <2>7, StepQuietly
<1>7. CASE (There(c) => ~(g.cols \subseteq real[n].cols)) /\ Refuse(c)
  <2>1. n \notin torn => Agrees(n)
    <3>1. SUFFICES ASSUME n \notin torn PROVE Agrees(n)
      OBVIOUS
    <3>2. /\ n \in DOMAIN real
          /\ \A i \in RegisteredAs(n) : real[n].cols = registry[i].cols
          /\ RegisteredAs(n) = {} => real[n].cols = g.cols
      BY <1>2, <1>5, <3>1 DEF Halfway
    <3>3. RegisteredAs(n) # {}
      BY <1>3, <1>7, <3>2 DEF There
    <3>4. QED
      BY <3>2, <3>3 DEF Agrees
  <2>2. \A m \in Names : LateOn(c, m) => m = n
    BY <1>1, <1>4 DEF LateOn, On
  <2>3. g.todo \notin {I3, I2, I1}
    BY <1>2, WordsApart
  <2>4. QED
    BY <1>1, <1>2, <1>7, <2>1, <2>2, <2>3, RefuseKeeps
<1>8. QED
  BY <1>1, <1>3, <1>6, <1>7 DEF Index

(* A statement of a request that changes no schema, refused. *)
LEMMA RefusedKeeps ==
  ASSUME TablesInv, NEW c \in TableClients, handling[c].todo \in {C3, I4, U2, U1, X2, X1}, Refuse(c)
  PROVE  TablesInv'
<1>1. handling[c].todo \in Named
  BY DEF Named
<1>2. handling[c].todo # <<>> /\ handling[c].todo \notin {I3, I2, I1} /\ ~Late(handling[c])
  BY <1>1, WordsApart DEF Late
<1>3. QED
  BY <1>2, RefuseKeeps DEF LateOn

LEMMA ReadColumnsKeeps ==
  ASSUME TablesInv, NEW c \in TableClients, ReadColumns(c)
  PROVE  TablesInv'
<1>1. PICK g : g = handling[c]
  OBVIOUS
<1>2. TableTypes /\ g \in Request /\ Shaped(g) /\ g.todo # <<>> /\ g.todo \in {I4, U2, X2}
  BY <1>1, RequestIs, AtIs DEF ReadColumns, At
<1>3. PICK n : n = Name(c)
  OBVIOUS
<1>4. n \in Names /\ c \in On(n) /\ g.name = n /\ g.todo \in Named
  BY <1>1, <1>2, <1>3, RequestIs DEF Named
<1>5. CASE Refuse(c)
  BY <1>1, <1>2, <1>5, RefusedKeeps
<1>6. CASE ~Refuse(c)
  <2>1. PICK i : i = CHOOSE j \in RegisteredAs(n) : TRUE
    OBVIOUS
  <2>2. Registered(c) /\ i \in RegisteredAs(n)
    BY <1>3, <1>6, <2>1 DEF ReadColumns, Registered
  <2>3. registry[i].cols \subseteq Columns
    BY <1>2, <2>2 DEF RegisteredAs, TableTypes
  <2>4. PICK h : h = [g EXCEPT !.todo = Rest(c), !.cols = registry[i].cols]
    OBVIOUS
  <2>5. Rest(c) \in {I3, U1, X1} /\ (Rest(c) = I3 => g.todo = I4)
    <3>1. Tail(I4) = I3 /\ Tail(U2) = U1 /\ Tail(X2) = X1 /\ I3 # U1 /\ I3 # X1
      BY WordsAre DEF Words
    <3>2. QED
      BY <1>1, <1>2, <3>1 DEF Rest
  <2>6. Rest(c) \in Named
    BY <2>5 DEF Named
  <2>7. h \in Request /\ h.todo = Rest(c) /\ h.name = n /\ h.schema = g.schema /\ h.rows = g.rows
    BY <1>2, <1>4, <2>3, <2>4, <2>6 DEF Request
  <2>8. Proceeds(c, h) /\ UNCHANGED <<real, registry, ids, adrift>>
    BY <1>1, <1>3, <1>6, <2>1, <2>4 DEF ReadColumns
  <2>9. /\ \A w \in {I3, U1, X1} : w \notin {I5, I4} /\ w # I1
        /\ \A w \in {I4, U2, X2} : w \notin {I3, I2, I1}
    <3>1. \A w \in {I3, U1, X1} : w \notin {I5, I4} /\ w # I1
      <4>1. \A w \in {I3, U1, X1} : Head(w) \in {"insert", "update", "delete"}
        BY FirstsAre DEF Firsts
      <4>2. \A w \in {I5, I4, I1} : Head(w) \in {"find by id", "columns", "store"}
        BY FirstsAre DEF Firsts
      <4>3. QED
        BY <4>1, <4>2
    <3>2. QED
      BY <3>1, WordsApart
  <2>10. ~Late(h) /\ ~Late(g)
    BY <1>2, <2>5, <2>7, WordsApart DEF Late
  <2>11. Shaped(h) /\ AloneOf(h, n)
    <3>1. h.todo # <<>> /\ h.todo \notin Finding
      BY <2>6, <2>7, WordsApart
    <3>2. ~g.schema /\ h.todo \notin Making \union Dropping
      BY <1>2, <2>5, <2>7, WordsApart DEF Shaped
    <3>3. h.todo \in {I5, I4, I3} => h.rows # <<>>
      BY <1>2, <2>5, <2>7, <2>9 DEF Shaped
    <3>4. h.todo \notin {D2, D1} /\ h.todo # I1
      BY <2>5, <2>7, <2>9, WordsApart
    <3>5. QED
      BY <1>4, <2>7, <3>1, <3>2, <3>3, <3>4 DEF Shaped, AloneOf
  <2>12. QED
    BY <1>1, <1>2, <1>3, <1>4, <2>7, <2>8, <2>9, <2>10, <2>11, StepQuietly
<1>7. QED
  BY <1>5, <1>6

LEMMA CountKeeps ==
  ASSUME TablesInv, NEW c \in TableClients, Count(c)
  PROVE  TablesInv'
<1>1. PICK g : g = handling[c]
  OBVIOUS
<1>2. TableTypes /\ g \in Request /\ Shaped(g) /\ g.todo # <<>> /\ g.todo = I2
  BY <1>1, RequestIs, AtIs DEF Count, At
<1>3. PICK n : n = Name(c)
  OBVIOUS
<1>4. n \in Names /\ c \in On(n) /\ g.name = n /\ g.todo \in Named
  BY <1>1, <1>2, <1>3, RequestIs DEF Named
<1>5. CASE ~There(c)
  <2>1. HalfDone(c)
    BY <1>5 DEF Count
  <2>2. QED
    BY <1>1, <1>2, <2>1, HalfDoneKeeps
<1>6. CASE There(c)
  <2>1. PICK h : h = [g EXCEPT !.todo = I1, !.count = real[n].size]
    OBVIOUS
  <2>2. Rest(c) = I1 /\ I1 \in Named
    BY <1>1, <1>2, WordsAre DEF Rest, Words, Named
  <2>3. n \in DOMAIN real /\ real[n].size \in Nat
    BY <1>2, <1>3, <1>6 DEF There, TableTypes
  <2>4. h \in Request /\ h.todo = I1 /\ h.name = n /\ h.schema = g.schema /\ h.count = real[n].size
    BY <1>2, <1>4, <2>1, <2>2, <2>3 DEF Request
  <2>5. Proceeds(c, h) /\ UNCHANGED <<real, registry, ids, adrift>>
    BY <1>1, <1>3, <1>6, <2>1, <2>2 DEF Count
  <2>6. I1 # <<>> /\ I1 \notin Finding /\ I1 \notin {D2, D1} /\ I1 \notin {I5, I4, I3} /\ ~Late(h) /\ ~Late(g)
    <3>1. I1 \notin {I5, I4, I3}
      BY WordsAre DEF Words
    <3>2. QED
      BY <1>2, <2>2, <2>4, <3>1, WordsApart DEF Late
  <2>7. ~g.schema /\ h.todo \notin Making \union Dropping
    BY <1>2, <2>4, WordsApart DEF Shaped
  <2>8. Shaped(h) /\ AloneOf(h, n)
    BY <1>4, <2>3, <2>4, <2>6, <2>7 DEF Shaped, AloneOf
  <2>9. QED
    BY <1>1, <1>2, <1>3, <1>4, <2>4, <2>5, <2>6, <2>8, StepQuietly
<1>7. QED
  BY <1>5, <1>6

(* The last statement of a request that has changed nothing itself. *)
LEMMA LastKeeps ==
  ASSUME TablesInv, NEW c \in TableClients, handling[c].todo \in {U1, X1}, GoesOn(c),
         UNCHANGED <<real, registry, ids, adrift>>
  PROVE  TablesInv'
<1>1. PICK g : g = handling[c]
  OBVIOUS
<1>2. TableTypes /\ g \in Request /\ g.todo \in Named /\ g.name = Name(c)
  BY <1>1, RequestIs DEF Named
<1>3. PICK h : h = [g EXCEPT !.todo = <<>>]
  OBVIOUS
<1>4. Rest(c) = <<>>
  BY <1>1, WordsAre DEF Rest, Words
<1>5. h \in Request /\ h.todo = <<>> /\ h.name = Name(c)
  BY <1>2, <1>3, NextIs
<1>6. Proceeds(c, h)
  BY <1>1, <1>3, <1>4 DEF GoesOn
<1>7. ~Late(h) /\ ~Late(g) /\ g.todo \notin {I3, I2, I1}
  BY <1>1, <1>5, WordsApart DEF Late
<1>8. QED
  BY <1>1, <1>2, <1>5, <1>6, <1>7, StepQuietly

LEMMA UpdateKeeps ==
  ASSUME TablesInv, NEW c \in TableClients, Update(c)
  PROVE  TablesInv'
<1>1. handling[c].todo = U1
  BY RequestIs, AtIs DEF Update, At
<1>2. QED
  BY <1>1, RefusedKeeps, LastKeeps DEF Update

LEMMA CutKeeps ==
  ASSUME TablesInv, NEW c \in TableClients, Cut(c)
  PROVE  TablesInv'
BY HalfDoneKeeps DEF Cut

(* A step that went on with one name and kept what holds of it, and left     *)
(* all others, keeps the invariant.                                          *)
LEMMA StepFinishes ==
  ASSUME TablesInv, NEW c \in TableClients, NEW h \in Request, NEW n \in Names, handling' = Meet(h, c, n),
         h.name = n, handling[c].name = n,
         \A m \in Names \ {n} : /\ RealSame(m) /\ RowsSame(m)
                                /\ m \in torn' <=> m \in torn
                                /\ m \in adrift' <=> m \in adrift,
         TableTypes', SchemaInv(n)', AloneInv(n)', CountInv(n)'
  PROVE  TablesInv'
<1>1. \A m \in Names \ {n} : NameInv(m)'
  BY MeetElsewhere
<1>2. QED
  BY <1>1 DEF TablesInv, NameInv

(* What a request that changes the schema finds, if its name is not torn. *)
LEMMA MakingFinds ==
  ASSUME TablesInv, NEW c \in TableClients, NEW n \in Names, c \in On(n), handling[c].todo = C3,
         n \notin torn', torn' = torn \union IF SchemaOn(n) \ {c} # {} THEN {n} ELSE {}
  PROVE  Agrees(n) /\ \A d \in TableClients \ {c} : ~LateOn(d, n)
<1>1. n \notin torn /\ \A d \in TableClients \ {c} : ~LateOn(d, n)
  BY RequestIs, SchemaAlone
<1>2. ~Late(handling[c])
  BY WordsApart DEF Late
<1>3. \A d \in On(n) : ~Late(handling[d])
  BY <1>1, <1>2 DEF LateOn, On
<1>4. QED
  BY <1>1, <1>3, RequestIs DEF SchemaInv

(* CREATE TABLE: the create is halfway from here on, and the table empty.    *)
LEMMA CreateKeeps ==
  ASSUME TablesInv, NEW c \in TableClients, CreateReal(c)
  PROVE  TablesInv'
<1>1. PICK g : g = handling[c]
  OBVIOUS
<1>2. TableTypes /\ g \in Request /\ Shaped(g) /\ g.todo # <<>> /\ g.todo = C3
  BY <1>1, RequestIs, AtIs DEF CreateReal, At
<1>3. PICK n : n = Name(c)
  OBVIOUS
<1>4. n \in Names /\ c \in On(n) /\ g.name = n /\ g.todo \in Named /\ SchemaInv(n)
  BY <1>1, <1>2, <1>3, RequestIs DEF Named
<1>5. CASE Refuse(c)
  BY <1>1, <1>2, <1>5, RefusedKeeps
<1>6. CASE GoesOn(c) /\ UNCHANGED <<registry, ids, adrift>>
  <2>1. PICK h : h = [g EXCEPT !.todo = C2]
    OBVIOUS
  <2>2. Rest(c) = C2 /\ C2 \in Named /\ C2 \in Making /\ C3 \in Making
    BY <1>1, <1>2, WordsAre DEF Rest, Words, Named, Making
  <2>3. h \in Request /\ h.todo = C2 /\ h.name = n /\ h.schema = g.schema /\ h.cols = g.cols
    BY <1>2, <1>4, <2>1, <2>2 DEF Request
  <2>4. g.schema
    BY <1>2, <2>2 DEF Shaped
  <2>5. handling' = Meet(h, c, n) /\ torn' = torn \union IF SchemaOn(n) \ {c} # {} THEN {n} ELSE {}
    BY <1>1, <1>6, <2>1, <2>2, <2>3, <2>4 DEF GoesOn, Proceeds
  <2>6. n \notin torn' => Agrees(n) /\ \A d \in TableClients \ {c} : ~LateOn(d, n)
    BY <1>1, <1>2, <1>4, <2>5, MakingFinds
  <2>7. C2 # <<>> /\ C2 \notin Finding /\ C2 \notin {D2, D1} /\ C2 # I1 /\ C2 \notin {I5, I4, I3}
    <3>1. C2 # I1 /\ C2 \notin {I5, I4, I3}
      BY WordsAre DEF Words
    <3>2. QED
      BY <2>2, <3>1, WordsApart
  <2>8. Shaped(h)
    BY <1>4, <2>2, <2>3, <2>4, <2>7 DEF Shaped
  <2>9. AloneOf(h, n) /\ AloneOf(h, n)'
    BY <2>3, <2>7 DEF AloneOf
  <2>10. Beside(c) /\ c \in On(n)' /\ SameBut(handling'[c], h)
    BY <1>2, <1>4, <2>3, <2>5, <2>7, MeetIs, MeetNow
  <2>11. LateOn(c, n)' /\ ~Late(g) /\ g.todo \notin {I3, I2, I1}
    BY <1>2, <2>3, <2>10, WordsApart DEF LateOn, Late, SameBut
  <2>12. CASE There(c) /\ real' = real
    <3>1. n \in DOMAIN real
      BY <1>3, <2>12 DEF There
    <3>2. n \notin torn' => RegisteredAs(n) # {}
      BY <2>6, <3>1 DEF Agrees
    <3>3. n \notin torn' => Halfway(handling[c], n)'
      BY <1>6, <2>3, <2>6, <2>7, <2>10, <2>12, <3>1, <3>2 DEF Halfway, Agrees, RegisteredAs, SameBut
    <3>4. SchemaInv(n)'
      BY <1>4, <2>6, <2>10, <2>11, <3>3, SchemaMoves
    <3>5. torn \subseteq torn' /\ torn' \subseteq torn \union {n} /\ UNCHANGED <<real, registry, ids, adrift>>
      BY <1>6, <2>5, <2>12
    <3>6. ~InsertsOn(c, n) /\ handling[c].name \in {n, NoName}
      BY <1>1, <1>4, <2>11 DEF InsertsOn
    <3>7. QED
      BY <1>4, <2>3, <2>5, <2>8, <2>9, <3>2, <3>4, <3>5, <3>6, GoesQuietly
  <2>13. CASE ~There(c) /\ real' = With(real, n, [cols |-> g.cols, size |-> 0])
    <3>1. n \notin DOMAIN real
      BY <1>3, <2>13 DEF There
    <3>2. /\ DOMAIN real' = DOMAIN real \union {n} /\ real'[n] = [cols |-> g.cols, size |-> 0]
          /\ \A m \in DOMAIN real : real'[m] = real[m]
      BY <2>13, <3>1 DEF With
    <3>3. g.cols \in SUBSET Columns
      BY <1>2 DEF Request
    <3>4. TableTypes'
      <4>1. /\ DOMAIN real' \subseteq Names
            /\ \A m \in DOMAIN real' : real'[m] \in [cols : SUBSET Columns, size : Nat]
        BY <1>2, <1>4, <3>2, <3>3 DEF TableTypes
      <4>2. ids' = ids /\ registry' = registry /\ Shaped(h)'
        BY <1>6, <2>8 DEF Shaped
      <4>3. /\ ids' \in Nat /\ ids' >= ids /\ DOMAIN registry' \subseteq 1 .. ids'
            /\ \A i \in DOMAIN registry' :
                 /\ registry'[i] \in [name : Names, cols : SUBSET Columns, row_count : Nat]
                 /\ i \in 1 .. ids => i \in DOMAIN registry /\ registry'[i].name = registry[i].name
            /\ \A i, j \in DOMAIN registry' : registry'[i].name = registry'[j].name => i = j
        BY <1>2, <4>2 DEF TableTypes
      <4>4. QED
        BY <1>2, <1>4, <2>3, <2>5, <4>1, <4>2, <4>3, MeetTypes
    <3>5. \A m \in Names \ {n} : /\ RealSame(m) /\ RowsSame(m)
                                 /\ m \in torn' <=> m \in torn
                                 /\ m \in adrift' <=> m \in adrift
      BY <1>6, <2>5, <3>2 DEF RealSame, RowsSame, RegisteredAs
    <3>6. n \notin torn' => RegisteredAs(n)' = {}
      BY <1>6, <2>6, <3>1 DEF Agrees, RegisteredAs
    <3>7. n \notin torn' => Halfway(handling[c], n)'
      BY <2>3, <2>7, <2>10, <3>2, <3>6 DEF Halfway, SameBut
    <3>8. SchemaInv(n)'
      BY <1>4, <2>6, <2>10, <2>11, <3>7, SchemaMoves
    <3>9. AloneInv(n)'
      BY <1>2, <1>4, <2>3, <2>5, <2>9, AloneGoes
    <3>10. CountInv(n)'
      BY <3>2, <3>6 DEF CountInv
    <3>11. QED
      BY <1>1, <1>4, <2>3, <2>5, <3>4, <3>5, <3>8, <3>9, <3>10, StepFinishes
  <2>14. QED
    <3>1. IF There(c) THEN real' = real \/ Refuse(c) ELSE Refuse(c) \/ real' = With(real, n, [cols |-> g.cols, size |-> 0])
      BY <1>1, <1>3 DEF CreateReal
    <3>2. QED
      BY <1>5, <2>12, <2>13, <3>1, <1>1, <1>2, RefusedKeeps
<1>7. QED
  BY <1>5, <1>6 DEF CreateReal

(* INSERT INTO org_tables: the name agrees again, or two changes met.        *)
LEMMA RegisterKeeps ==
  ASSUME TablesInv, NEW c \in TableClients, Register(c)
  PROVE  TablesInv'
<1>1. PICK g : g = handling[c]
  OBVIOUS
<1>2. TableTypes /\ g \in Request /\ Shaped(g) /\ g.todo # <<>> /\ g.todo = C1
  BY <1>1, RequestIs, AtIs DEF Register, At
<1>3. PICK n : n = Name(c)
  OBVIOUS
<1>4. n \in Names /\ c \in On(n) /\ g.name = n /\ g.todo \in Named /\ SchemaInv(n) /\ CountInv(n)
  BY <1>1, <1>2, <1>3, RequestIs DEF Named
<1>5. n \notin torn => /\ n \in DOMAIN real
                       /\ \A i \in RegisteredAs(n) : real[n].cols = registry[i].cols
                       /\ RegisteredAs(n) = {} => real[n].cols = g.cols
  BY <1>1, <1>2, <1>4 DEF SchemaInv, Halfway
<1>6. CASE Registered(c)
  <2>1. Refuse(c)
    BY <1>6 DEF Register
  <2>2. n \notin torn => Agrees(n)
    BY <1>3, <1>5, <1>6 DEF Agrees, Registered
  <2>3. \A m \in Names : LateOn(c, m) => m = n
    BY <1>1, <1>4 DEF LateOn, On
  <2>4. g.todo \notin {I3, I2, I1}
    BY <1>2, WordsApart
  <2>5. QED
    BY <1>1, <1>2, <2>1, <2>2, <2>3, <2>4, RefuseKeeps
<1>7. CASE ~Registered(c)
  <2>1. PICK h : h = [g EXCEPT !.todo = <<>>]
    OBVIOUS
  <2>2. Rest(c) = <<>> /\ C1 \in Making
    BY <1>1, <1>2, WordsAre DEF Rest, Words, Making
  <2>3. h \in Request /\ h.todo = <<>> /\ h.name = n /\ h.schema = g.schema
    BY <1>2, <1>4, <2>1 DEF Request
  <2>4. g.schema
    BY <1>2, <2>2 DEF Shaped
  <2>5. handling' = Meet(h, c, n) /\ torn' = torn \union IF SchemaOn(n) \ {c} # {} THEN {n} ELSE {}
    BY <1>1, <1>7, <2>1, <2>2, <2>3, <2>4 DEF Register, GoesOn, Proceeds
  <2>6. PICK row : row = [name |-> n, cols |-> g.cols, row_count |-> 0]
    OBVIOUS
  <2>7. /\ row \in [name : Names, cols : SUBSET Columns, row_count : Nat]
        /\ row.name = n /\ row.cols = g.cols /\ row.row_count = 0
    BY <1>2, <1>4, <2>6 DEF Request
  <2>8. /\ ids' = ids + 1 /\ registry' = With(registry, ids + 1, row) /\ real' = real
        /\ adrift' = IF g.clear THEN adrift \ {n} ELSE adrift
    BY <1>1, <1>3, <1>7, <2>6 DEF Register
  <2>9. ids \in Nat /\ DOMAIN registry \subseteq 1 .. ids
    BY <1>2 DEF TableTypes
  <2>10. ids + 1 \notin DOMAIN registry
    BY <2>9
  <2>11. /\ DOMAIN registry' = DOMAIN registry \union {ids + 1} /\ registry'[ids + 1] = row
         /\ \A i \in DOMAIN registry : registry'[i] = registry[i]
    BY <2>8, <2>10 DEF With
  <2>12. \A i \in DOMAIN registry : registry[i].name # n
    BY <1>3, <1>7 DEF Registered, RegisteredAs
  <2>13. RegisteredAs(n) = {} /\ RegisteredAs(n)' = {ids + 1}
    BY <2>7, <2>11, <2>12 DEF RegisteredAs
  <2>14. TableTypes'
    <3>1. ids' \in Nat /\ ids' >= ids /\ DOMAIN registry' \subseteq 1 .. ids'
      BY <2>8, <2>9, <2>11
    <3>2. /\ DOMAIN real' \subseteq Names
          /\ \A m \in DOMAIN real' : real'[m] \in [cols : SUBSET Columns, size : Nat]
      BY <1>2, <2>8 DEF TableTypes
    <3>3. ids + 1 \notin 1 .. ids
      BY <2>9
    <3>4. \A i \in DOMAIN registry : registry[i] \in [name : Names, cols : SUBSET Columns, row_count : Nat]
      BY <1>2 DEF TableTypes
    <3>5. \A i \in DOMAIN registry' :
            /\ registry'[i] \in [name : Names, cols : SUBSET Columns, row_count : Nat]
            /\ i \in 1 .. ids => i \in DOMAIN registry /\ registry'[i].name = registry[i].name
      BY <2>7, <2>11, <3>3, <3>4
    <3>6. \A i, j \in DOMAIN registry : registry[i].name = registry[j].name => i = j
      BY <1>2 DEF TableTypes
    <3>7. \A i, j \in DOMAIN registry' : registry'[i].name = registry'[j].name => i = j
      BY <2>7, <2>11, <2>12, <3>6
    <3>8. QED
      BY <1>2, <1>4, <2>3, <2>5, <3>1, <3>2, <3>5, <3>7, MeetTypes
  <2>15. \A m \in Names \ {n} : /\ RealSame(m) /\ RowsSame(m)
                                /\ m \in torn' <=> m \in torn
                                /\ m \in adrift' <=> m \in adrift
    BY <2>5, <2>7, <2>8, <2>11 DEF RealSame, RowsSame, RegisteredAs
  <2>16. Beside(c) /\ c \notin On(n)'
    BY <1>2, <1>4, <2>3, <2>5, MeetIs, MeetNow
  <2>17. n \notin torn' => n \notin torn /\ \A d \in TableClients \ {c} : ~LateOn(d, n)
    BY <1>2, <2>5, SchemaAlone
  <2>18. n \notin torn' => Agrees(n)'
    BY <1>5, <2>7, <2>8, <2>11, <2>13, <2>17 DEF Agrees
  <2>19. SchemaInv(n)'
    BY <1>4, <2>16, <2>17, <2>18, SchemaMoves DEF LateOn
  <2>20. AloneInv(n)'
    BY <1>2, <1>4, <2>3, <2>5, AloneGoes
  <2>21. CountInv(n)'
    <3>1. SUFFICES ASSUME n \notin torn'
                   PROVE  n \notin adrift' => Inserts(n)' \/ real'[n].size = 0
      BY <2>7, <2>11, <2>13 DEF CountInv
    <3>2. /\ g.clear => real[n].size = 0
          /\ n \notin adrift => real[n].size = 0 \/ Inserts(n)
      BY <1>1, <1>2, <1>4, <2>13, <2>17, <3>1 DEF CountInv
    <3>3. Inserts(n) => Inserts(n)'
      <4>1. SUFFICES ASSUME NEW d \in On(n), handling[d].todo \in {I3, I2, I1} PROVE Inserts(n)'
        BY DEF Inserts
      <4>2. d # c /\ d \in TableClients
        BY <1>1, <1>2, <4>1, WordsApart DEF On
      <4>3. d \in On(n)' /\ handling'[d].todo = handling[d].todo
        BY <2>16, <4>2, BesideStay DEF OthersStay, Beside, SameBut
      <4>4. QED
        BY <4>1, <4>3 DEF Inserts
    <3>4. QED
      BY <2>8, <3>2, <3>3
  <2>22. QED
    BY <1>1, <1>4, <2>3, <2>5, <2>14, <2>15, <2>19, <2>20, <2>21, StepFinishes
<1>8. QED
  BY <1>6, <1>7

LEMMA RegisterFailsKeeps ==
  ASSUME TablesInv, NEW c \in TableClients, RegisterFails(c)
  PROVE  TablesInv'
<1>1. CASE Registered(c)
  BY <1>1, RegisterKeeps DEF RegisterFails, Register
<1>2. CASE ~Registered(c)
  BY <1>2, HalfDoneKeeps DEF RegisterFails, At
<1>3. QED
  BY <1>1, <1>2

(* DROP TABLE: the deletion is halfway from here on.                         *)
LEMMA DropKeeps ==
  ASSUME TablesInv, NEW c \in TableClients, DropReal(c)
  PROVE  TablesInv'
<1>1. PICK g : g = handling[c]
  OBVIOUS
<1>2. TableTypes /\ g \in Request /\ Shaped(g) /\ g.todo # <<>> /\ g.todo = D2
  BY <1>1, RequestIs, AtIs DEF DropReal, At
<1>3. PICK n : n = Name(c)
  OBVIOUS
<1>4. n \in Names /\ c \in On(n) /\ g.name = n /\ g.todo \in Named /\ SchemaInv(n) /\ AloneInv(n)
  BY <1>1, <1>2, <1>3, RequestIs DEF Named
<1>5. PICK h : h = [g EXCEPT !.todo = D1]
  OBVIOUS
<1>6. Rest(c) = D1 /\ D1 \in Named /\ D1 \in Dropping /\ D2 \in Dropping
  BY <1>1, <1>2, WordsAre DEF Rest, Words, Named, Dropping
<1>7. h \in Request /\ h.todo = D1 /\ h.name = n /\ h.schema = g.schema /\ h.id = g.id
  BY <1>2, <1>4, <1>5, <1>6 DEF Request
<1>8. g.schema
  BY <1>2, <1>6 DEF Shaped
<1>9. handling' = Meet(h, c, n) /\ torn' = torn \union IF SchemaOn(n) \ {c} # {} THEN {n} ELSE {}
  BY <1>1, <1>5, <1>6, <1>7, <1>8 DEF DropReal, GoesOn, Proceeds
<1>10. real' = Less(real, n) /\ UNCHANGED <<registry, ids, adrift>>
  BY <1>3 DEF DropReal
<1>11. /\ DOMAIN real' = DOMAIN real \ {n}
       /\ \A m \in DOMAIN real \ {n} : real'[m] = real[m]
  BY <1>10 DEF Less
<1>12. D1 # <<>> /\ D1 \notin Finding /\ D1 \notin {C2, C1} /\ D1 # D2 /\ D1 # I1 /\ D1 \notin {I5, I4, I3}
  <2>1. D1 # I1 /\ D1 \notin {I5, I4, I3}
    BY WordsAre DEF Words
  <2>2. QED
    BY <1>6, <2>1, WordsApart
<1>13. Shaped(h)'
  <2>1. h.id \in 1 .. ids /\ (h.id \in DOMAIN registry => registry[h.id].name = h.name)
    BY <1>2, <1>4, <1>7 DEF Shaped
  <2>2. QED
    BY <1>4, <1>6, <1>7, <1>8, <1>10, <1>12, <2>1 DEF Shaped
<1>14. TableTypes'
  <2>1. /\ DOMAIN real' \subseteq Names
        /\ \A m \in DOMAIN real' : real'[m] \in [cols : SUBSET Columns, size : Nat]
    BY <1>2, <1>11 DEF TableTypes
  <2>2. ids' = ids /\ registry' = registry
    BY <1>10
  <2>3. /\ ids' \in Nat /\ ids' >= ids /\ DOMAIN registry' \subseteq 1 .. ids'
        /\ \A i \in DOMAIN registry' :
             /\ registry'[i] \in [name : Names, cols : SUBSET Columns, row_count : Nat]
             /\ i \in 1 .. ids => i \in DOMAIN registry /\ registry'[i].name = registry[i].name
        /\ \A i, j \in DOMAIN registry' : registry'[i].name = registry'[j].name => i = j
    BY <1>2, <2>2 DEF TableTypes
  <2>4. QED
    BY <1>2, <1>4, <1>7, <1>9, <1>13, <2>1, <2>3, MeetTypes
<1>15. \A m \in Names \ {n} : /\ RealSame(m) /\ RowsSame(m)
                              /\ m \in torn' <=> m \in torn
                              /\ m \in adrift' <=> m \in adrift
  BY <1>9, <1>10, <1>11 DEF RealSame, RowsSame, RegisteredAs
<1>16. Beside(c) /\ c \in On(n)' /\ SameBut(handling'[c], h)
  BY <1>2, <1>4, <1>7, <1>9, <1>12, MeetIs, MeetNow
<1>17. n \notin torn' => n \notin torn /\ \A d \in TableClients \ {c} : ~LateOn(d, n)
  BY <1>2, <1>9, SchemaAlone
<1>18. n \notin torn => g.id \in RegisteredAs(n)
  BY <1>1, <1>2, <1>4 DEF SchemaInv, Halfway
<1>19. RegisteredAs(n)' = RegisteredAs(n) /\ n \notin DOMAIN real'
  BY <1>10, <1>11 DEF RegisteredAs
<1>20. SchemaInv(n)'
  <2>1. LateOn(c, n)'
    BY <1>7, <1>16 DEF LateOn, Late, SameBut
  <2>2. n \notin torn' => Halfway(handling[c], n)'
    BY <1>7, <1>12, <1>16, <1>17, <1>18, <1>19 DEF Halfway, SameBut
  <2>3. QED
    BY <1>4, <1>16, <1>17, <2>1, <2>2, SchemaMoves
<1>21. AloneInv(n)'
  <2>1. handling'[c].clear => g.clear
    BY <1>5, <1>2, <1>16 DEF SameBut, Request
  <2>2. g.clear => g.id \in RegisteredAs(n)
    BY <1>1, <1>2, <1>4 DEF AloneInv
  <2>3. handling'[c].clear => AloneOf(h, n)'
    BY <1>7, <1>12, <1>19, <2>1, <2>2 DEF AloneOf
  <2>4. QED
    BY <1>2, <1>4, <1>7, <1>9, <2>3, AloneGoes
<1>22. CountInv(n)'
  <2>1. SUFFICES ASSUME n \notin torn' PROVE \A d \in On(n)' : handling'[d].todo \notin {C2, C1}
    BY <1>19 DEF CountInv
  <2>2. handling'[c].todo \notin {C2, C1}
    BY <1>7, <1>12, <1>16 DEF SameBut
  <2>3. \A d \in TableClients \ {c} : d \in On(n)' => handling'[d].todo \notin {C2, C1}
    BY <1>16, <1>17, <2>1, BesideStay DEF LateOn, Late
  <2>4. QED
    BY <2>2, <2>3 DEF On
<1>23. QED
  BY <1>1, <1>4, <1>7, <1>9, <1>14, <1>15, <1>20, <1>21, <1>22, StepFinishes

(* DELETE FROM org_tables: the name agrees again, or two changes met.        *)
LEMMA UnregisterKeeps ==
  ASSUME TablesInv, NEW c \in TableClients, Unregister(c)
  PROVE  TablesInv'
<1>1. PICK g : g = handling[c]
  OBVIOUS
<1>2. TableTypes /\ g \in Request /\ Shaped(g) /\ g.todo # <<>> /\ g.todo = D1
  BY <1>1, RequestIs, AtIs DEF Unregister, At
<1>3. PICK n : n = Name(c)
  OBVIOUS
<1>4. n \in Names /\ c \in On(n) /\ g.name = n /\ SchemaInv(n) /\ AloneInv(n)
  BY <1>1, <1>2, <1>3, RequestIs DEF Named
<1>5. /\ registry' = Less(registry, g.id) /\ handling' = [handling EXCEPT ![c] = Unasked]
      /\ torn' = IF g.clear THEN torn \ {n} ELSE torn \union IF SchemaOn(n) \ {c} # {} THEN {n} ELSE {}
      /\ UNCHANGED <<real, ids, adrift>>
  BY <1>1, <1>3 DEF Unregister
<1>6. /\ DOMAIN registry' = DOMAIN registry \ {g.id}
      /\ \A i \in DOMAIN registry \ {g.id} : registry'[i] = registry[i]
  BY <1>5 DEF Less
<1>7. g.id \in DOMAIN registry => registry[g.id].name = n
  BY <1>2, <1>4 DEF Shaped
<1>8. /\ \A d \in TableClients \ {c} : handling'[d] = handling[d]
      /\ handling'[c] = Unasked /\ Beside(c) /\ handling' \in [TableClients -> Request]
      /\ \A m \in Names : On(m)' = On(m) \ {c}
  BY <1>2, <1>5, EndsApart
<1>9. TableTypes'
  <2>1. Shaped(handling[c])'
    BY <1>8, IdleIs, WordsApart DEF Shaped
  <2>2. real' = real /\ ids' = ids
    BY <1>5
  <2>3. /\ ids' \in Nat /\ ids' >= ids /\ DOMAIN real' \subseteq Names
        /\ \A m \in DOMAIN real' : real'[m] \in [cols : SUBSET Columns, size : Nat]
    BY <1>2, <2>2 DEF TableTypes
  <2>4. /\ DOMAIN registry' \subseteq 1 .. ids'
        /\ \A i \in DOMAIN registry' :
             /\ registry'[i] \in [name : Names, cols : SUBSET Columns, row_count : Nat]
             /\ i \in 1 .. ids => i \in DOMAIN registry /\ registry'[i].name = registry[i].name
        /\ \A i, j \in DOMAIN registry' : registry'[i].name = registry'[j].name => i = j
    BY <1>2, <1>6, <2>2 DEF TableTypes
  <2>5. QED
    BY <1>2, <1>8, <2>1, <2>3, <2>4, TypesMove
<1>10. ASSUME NEW m \in Names \ {n} PROVE NameInv(m)'
  <2>1. NameInv(m)
    BY DEF TablesInv
  <2>2. RealSame(m) /\ (m \in torn' <=> m \in torn) /\ (m \in adrift' <=> m \in adrift)
    BY <1>5 DEF RealSame
  <2>3. RowsSame(m)
    BY <1>6, <1>7 DEF RowsSame, RegisteredAs
  <2>4. c \notin On(m)
    BY <1>1, <1>4 DEF On
  <2>5. On(m)' = On(m) /\ \A d \in On(m) : handling'[d] = handling[d]
    BY <1>8, <2>4 DEF On
  <2>6. QED
    BY <2>1, <2>2, <2>3, <2>5, Elsewhere
<1>11. \A d \in TableClients \ {c} : d \in On(n) => ~handling[d].clear
  BY <1>4 DEF AloneInv
<1>12. c \notin On(n)'
  BY <1>4, <1>8
<1>13. n \notin torn' => /\ n \notin DOMAIN real /\ g.id \in RegisteredAs(n)
                         /\ \A d \in TableClients \ {c} : ~LateOn(d, n)
  <2>1. CASE g.clear
    BY <1>1, <1>2, <1>4, <2>1 DEF AloneInv, LateOn
  <2>2. CASE ~g.clear
    <3>1. n \notin torn' => n \notin torn /\ \A d \in TableClients \ {c} : ~LateOn(d, n)
      BY <1>2, <1>5, <2>2, SchemaAlone
    <3>2. QED
      BY <1>1, <1>2, <1>4, <3>1 DEF SchemaInv, Halfway
  <2>3. QED
    BY <2>1, <2>2
<1>14. n \notin torn' => RegisteredAs(n)' = {} /\ n \notin DOMAIN real'
  <2>1. \A i, j \in DOMAIN registry : registry[i].name = registry[j].name => i = j
    BY <1>2 DEF TableTypes
  <2>2. QED
    BY <1>5, <1>6, <1>13, <2>1 DEF RegisteredAs
<1>15. SchemaInv(n)'
  <2>1. n \notin torn' => Agrees(n)'
    BY <1>14 DEF Agrees
  <2>2. QED
    BY <1>4, <1>8, <1>12, <1>13, <2>1, SchemaMoves DEF LateOn
<1>16. AloneInv(n)'
  BY <1>4, <1>8, <1>11, <1>12, AloneMoves
<1>17. CountInv(n)'
  <2>1. SUFFICES ASSUME n \notin torn' PROVE \A d \in On(n)' : handling'[d].todo \notin {C2, C1}
    BY <1>14 DEF CountInv
  <2>2. \A d \in TableClients \ {c} : d \in On(n)' => handling'[d].todo \notin {C2, C1}
    BY <1>8, <1>13, <2>1, BesideStay DEF LateOn, Late
  <2>3. QED
    BY <1>12, <2>2 DEF On
<1>18. QED
  BY <1>9, <1>10, <1>15, <1>16, <1>17 DEF TablesInv, NameInv

(* One row of an insert: its count is still to be stored.                    *)
LEMMA InsertKeeps ==
  ASSUME TablesInv, NEW c \in TableClients, InsertRow(c)
  PROVE  TablesInv'
<1>1. PICK g : g = handling[c]
  OBVIOUS
<1>2. TableTypes /\ g \in Request /\ Shaped(g) /\ g.todo # <<>> /\ g.todo = I3
  BY <1>1, RequestIs, AtIs DEF InsertRow, At
<1>3. PICK n : n = Name(c)
  OBVIOUS
<1>4. n \in Names /\ c \in On(n) /\ g.name = n /\ g.todo \in Named /\ SchemaInv(n)
  BY <1>1, <1>2, <1>3, RequestIs DEF Named
<1>5. CASE ~Fits(c) \/ ~Head(g.rows)
  BY <1>1, <1>2, <1>5, HalfDoneKeeps DEF InsertRow
<1>6. CASE ~(~Fits(c) \/ ~Head(g.rows))
  <2>1. PICK left : left = Tail(g.rows)
    OBVIOUS
  <2>2. PICK w : w = IF left = <<>> THEN I2 ELSE I3
    OBVIOUS
  <2>3. PICK h : h = [g EXCEPT !.rows = left, !.todo = w]
    OBVIOUS
  <2>4. Rest(c) = I2 /\ I2 \in Named /\ I3 \in Named
    BY <1>1, <1>2, WordsAre DEF Rest, Words, Named
  <2>5. left \in Seq(BOOLEAN)
    <3>1. g.rows \in Seq(BOOLEAN) /\ g.rows # <<>>
      BY <1>2 DEF Request, Shaped
    <3>2. QED
      BY <2>1, <3>1, HeadTailProperties
  <2>6. w \in {I2, I3} /\ (w = I3 => left # <<>>)
    <3>1. I2 # I3
      BY WordsAre DEF Words
    <3>2. QED
      BY <2>2, <3>1
  <2>7. h \in Request /\ h.todo = w /\ h.name = n /\ h.schema = g.schema /\ h.rows = left
    BY <1>2, <1>4, <2>3, <2>4, <2>5, <2>6 DEF Request
  <2>8. Proceeds(c, h) /\ real' = [real EXCEPT ![n].size = @ + 1] /\ UNCHANGED <<registry, ids, adrift>>
    BY <1>1, <1>2, <1>3, <1>6, <2>1, <2>2, <2>3, <2>4 DEF InsertRow
  <2>9. handling' = Meet(h, c, n) /\ torn \subseteq torn' /\ torn' \subseteq torn \union {n}
    BY <2>7, <2>8 DEF Proceeds
  <2>10. n \in DOMAIN real
    BY <1>3, <1>6 DEF Fits, There
  <2>11. real[n] \in [cols : SUBSET Columns, size : Nat]
    BY <1>2, <2>10 DEF TableTypes
  <2>12. /\ DOMAIN real' = DOMAIN real /\ real'[n].cols = real[n].cols
         /\ real'[n] \in [cols : SUBSET Columns, size : Nat]
         /\ \A m \in DOMAIN real \ {n} : real'[m] = real[m]
    BY <2>8, <2>10, <2>11
  <2>13. w # <<>> /\ w \notin Finding /\ w \notin {D2, D1, C2, C1} /\ w # I1 /\ w \notin {I5, I4}
    <3>1. \A v \in {I2, I3} : v # I1 /\ v \notin {I5, I4}
      <4>1. \A v \in {I2, I3} : Head(v) \in {"count", "insert"}
        BY FirstsAre DEF Firsts
      <4>2. \A v \in {I5, I4, I1} : Head(v) \in {"find by id", "columns", "store"}
        BY FirstsAre DEF Firsts
      <4>3. QED
        BY <4>1, <4>2
    <3>2. QED
      BY <2>4, <2>6, <3>1, WordsApart
  <2>14. ~Late(h) /\ ~Late(g)
    BY <1>2, <2>7, <2>13, WordsApart DEF Late
  <2>15. Shaped(h)'
    <3>1. ~g.schema /\ w \notin Making \union Dropping
      BY <1>2, <2>6, WordsApart DEF Shaped
    <3>2. QED
      BY <1>4, <2>6, <2>7, <2>13, <3>1 DEF Shaped
  <2>16. TableTypes'
    <3>1. ids' = ids /\ registry' = registry
      BY <2>8
    <3>2. /\ ids' \in Nat /\ ids' >= ids /\ DOMAIN registry' \subseteq 1 .. ids'
          /\ \A i \in DOMAIN registry' :
               /\ registry'[i] \in [name : Names, cols : SUBSET Columns, row_count : Nat]
               /\ i \in 1 .. ids => i \in DOMAIN registry /\ registry'[i].name = registry[i].name
          /\ \A i, j \in DOMAIN registry' : registry'[i].name = registry'[j].name => i = j
      BY <1>2, <3>1 DEF TableTypes
    <3>3. /\ DOMAIN real' \subseteq Names
          /\ \A m \in DOMAIN real' : real'[m] \in [cols : SUBSET Columns, size : Nat]
      BY <1>2, <2>12 DEF TableTypes
    <3>4. QED
      BY <1>2, <1>4, <2>7, <2>9, <2>15, <3>2, <3>3, MeetTypes
  <2>17. \A m \in Names \ {n} : /\ RealSame(m) /\ RowsSame(m)
                                /\ m \in torn' <=> m \in torn
                                /\ m \in adrift' <=> m \in adrift
    BY <2>8, <2>9, <2>12 DEF RealSame, RowsSame, RegisteredAs
  <2>18. KeepsSchema(n)
    BY <2>8, <2>12 DEF KeepsSchema, RegisteredAs
  <2>19. SchemaInv(n)'
    BY <1>1, <1>2, <1>4, <2>7, <2>9, <2>14, <2>18, SchemaGoes DEF LateOn
  <2>20. AloneInv(n)'
    <3>1. AloneOf(h, n)'
      BY <2>7, <2>13 DEF AloneOf
    <3>2. QED
      BY <1>2, <1>4, <2>7, <2>9, <3>1, AloneGoes
  <2>21. /\ Beside(c) /\ c \in On(n)' /\ SameBut(handling'[c], h)
         /\ \A d \in TableClients \ {c} : d \in On(n) => ~handling'[d].clear
    BY <1>2, <1>4, <2>7, <2>9, <2>13, MeetIs, MeetNow
  <2>22. CountInv(n)'
    <3>1. handling'[c].todo \in {I2, I3}
      BY <2>6, <2>7, <2>21 DEF SameBut
    <3>2. Inserts(n)'
      BY <2>21, <3>1 DEF Inserts
    <3>3. \A d \in On(n)' : handling'[d].todo \in {C2, C1} => ~handling'[d].clear
      <4>1. handling'[c].todo \notin {C2, C1}
        BY <3>1, WordsApart
      <4>2. QED
        BY <2>21, <4>1, BesideStay DEF OthersStay, On
    <3>4. QED
      BY <3>2, <3>3 DEF CountInv
  <2>23. QED
    BY <1>1, <1>4, <2>7, <2>9, <2>16, <2>17, <2>19, <2>20, <2>22, StepFinishes
<1>7. QED
  BY <1>5, <1>6

(* The stored count is that of the table if the insert met no other request. *)
LEMMA StoreKeeps ==
  ASSUME TablesInv, NEW c \in TableClients, Store(c)
  PROVE  TablesInv'
<1>1. PICK g : g = handling[c]
  OBVIOUS
<1>2. TableTypes /\ g \in Request /\ Shaped(g) /\ g.todo # <<>> /\ g.todo = I1
  BY <1>1, RequestIs, AtIs DEF Store, At
<1>3. PICK n : n = Name(c)
  OBVIOUS
<1>4. n \in Names /\ c \in On(n) /\ g.name = n /\ g.todo \in Named /\ SchemaInv(n) /\ AloneInv(n)
  BY <1>1, <1>2, <1>3, RequestIs DEF Named
<1>5. PICK h : h = [g EXCEPT !.todo = <<>>]
  OBVIOUS
<1>6. Rest(c) = <<>>
  BY <1>1, <1>2, WordsAre DEF Rest, Words
<1>7. h \in Request /\ h.todo = <<>> /\ h.name = n
  BY <1>2, <1>4, <1>5 DEF Request
<1>8. Proceeds(c, h)
  BY <1>1, <1>5, <1>6 DEF Store, GoesOn
<1>9. handling' = Meet(h, c, n) /\ torn \subseteq torn' /\ torn' \subseteq torn \union {n}
  BY <1>7, <1>8 DEF Proceeds
<1>10. /\ registry' = [i \in DOMAIN registry |->
            IF i \in RegisteredAs(n) THEN [registry[i] EXCEPT !.row_count = g.count] ELSE registry[i]]
       /\ adrift' = (IF g.clear THEN adrift \ {n} ELSE adrift \union {n})
       /\ real' = real /\ ids' = ids
  BY <1>1, <1>3 DEF Store
<1>11. \A i \in DOMAIN registry : registry[i] \in [name : Names, cols : SUBSET Columns, row_count : Nat]
  BY <1>2 DEF TableTypes
<1>12. g.count \in Nat
  BY <1>2 DEF Request
<1>13. /\ DOMAIN registry' = DOMAIN registry
       /\ \A i \in DOMAIN registry :
            /\ registry'[i] \in [name : Names, cols : SUBSET Columns, row_count : Nat]
            /\ registry'[i].name = registry[i].name /\ registry'[i].cols = registry[i].cols
            /\ i \in RegisteredAs(n) => registry'[i].row_count = g.count
            /\ i \notin RegisteredAs(n) => registry'[i] = registry[i]
  BY <1>10, <1>11, <1>12
<1>14. \A m \in Names : RegisteredAs(m)' = RegisteredAs(m)
  BY <1>13 DEF RegisteredAs
<1>15. TableTypes'
  <2>1. /\ ids' \in Nat /\ ids' >= ids /\ DOMAIN real' \subseteq Names
        /\ \A m \in DOMAIN real' : real'[m] \in [cols : SUBSET Columns, size : Nat]
    BY <1>2, <1>10 DEF TableTypes
  <2>2. /\ DOMAIN registry' \subseteq 1 .. ids'
        /\ \A i, j \in DOMAIN registry' : registry'[i].name = registry'[j].name => i = j
    BY <1>2, <1>10, <1>13 DEF TableTypes
  <2>3. QED
    BY <1>2, <1>4, <1>7, <1>9, <1>13, <2>1, <2>2, MeetTypes
<1>16. \A m \in Names \ {n} : /\ RealSame(m) /\ RowsSame(m)
                              /\ m \in torn' <=> m \in torn
                              /\ m \in adrift' <=> m \in adrift
  <2> TAKE m \in Names \ {n}
  <2>1. \A i \in RegisteredAs(m) : i \in DOMAIN registry /\ i \notin RegisteredAs(n)
    BY DEF RegisteredAs
  <2>2. RealSame(m) /\ RowsSame(m)
    BY <1>10, <1>13, <1>14, <2>1 DEF RealSame, RowsSame
  <2>3. QED
    BY <1>9, <1>10, <2>2
<1>17. ~Late(g) /\ ~Late(h)
  BY <1>2, <1>7, WordsApart DEF Late
<1>18. SchemaInv(n)'
  <2>1. KeepsSchema(n)
    BY <1>4, <1>10, <1>13, <1>14 DEF KeepsSchema, RegisteredAs
  <2>2. QED
    BY <1>1, <1>2, <1>4, <1>7, <1>9, <1>17, <2>1, SchemaGoes DEF LateOn
<1>19. AloneInv(n)'
  BY <1>2, <1>4, <1>7, <1>9, AloneGoes
<1>20. /\ Beside(c) /\ c \notin On(n)'
       /\ \A d \in TableClients \ {c} : d \in On(n) => ~handling'[d].clear
  BY <1>2, <1>4, <1>7, <1>9, MeetIs, MeetNow
<1>21. CountInv(n)'
  <2>1. \A d \in On(n)' : d \in TableClients \ {c} /\ d \in On(n)
    BY <1>20, BesideStay DEF OthersStay, On
  <2>2. CASE g.clear
    <3>1. On(n) = {c} /\ n \in DOMAIN real /\ g.count = real[n].size
      BY <1>1, <1>2, <1>4, <2>2 DEF AloneInv
    <3>2. On(n)' = {}
      BY <2>1, <3>1
    <3>3. \A i \in RegisteredAs(n)' : registry'[i].row_count = real'[n].size
      BY <1>4, <1>10, <1>13, <1>14, <3>1 DEF RegisteredAs
    <3>4. QED
      BY <3>2, <3>3 DEF CountInv
  <2>3. CASE ~g.clear
    <3>1. n \in adrift'
      BY <1>10, <2>3
    <3>2. \A d \in On(n)' : ~handling'[d].clear
      BY <1>20, <2>1
    <3>3. QED
      BY <3>1, <3>2 DEF CountInv
  <2>4. QED
    BY <2>2, <2>3
<1>22. QED
  BY <1>1, <1>4, <1>7, <1>9, <1>15, <1>16, <1>18, <1>19, <1>21, StepFinishes

(* Deleting records stores no count, so the name is adrift.                  *)
LEMMA DeleteKeeps ==
  ASSUME TablesInv, NEW c \in TableClients, DeleteRows(c)
  PROVE  TablesInv'
<1>1. PICK g : g = handling[c]
  OBVIOUS
<1>2. TableTypes /\ g \in Request /\ Shaped(g) /\ g.todo # <<>> /\ g.todo = X1
  BY <1>1, RequestIs, AtIs DEF DeleteRows, At
<1>3. PICK n : n = Name(c)
  OBVIOUS
<1>4. n \in Names /\ c \in On(n) /\ g.name = n /\ SchemaInv(n)
  BY <1>1, <1>2, <1>3, RequestIs DEF Named
<1>5. CASE ~There(c)
  BY <1>1, <1>2, <1>5, RefusedKeeps DEF DeleteRows
<1>6. CASE There(c)
  <2>1. n \in DOMAIN real
    BY <1>3, <1>6 DEF There
  <2>2. real[n] \in [cols : SUBSET Columns, size : Nat]
    BY <1>2, <2>1 DEF TableTypes
  <2>3. PICK k \in 0 .. real[n].size :
          /\ real' = [real EXCEPT ![n].size = k]
          /\ adrift' = (IF k = real[n].size THEN adrift ELSE adrift \union {n})
          /\ GoesOn(c) /\ UNCHANGED <<registry, ids>>
    BY <1>3, <1>6 DEF DeleteRows
  <2>4. k \in Nat
    BY <2>2, <2>3
  <2>5. /\ DOMAIN real' = DOMAIN real /\ real'[n].cols = real[n].cols /\ real'[n].size = k
        /\ real'[n] \in [cols : SUBSET Columns, size : Nat]
        /\ \A m \in DOMAIN real \ {n} : real'[m] = real[m]
    BY <2>1, <2>2, <2>3, <2>4
  <2>6. k = real[n].size => real'[n] = real[n]
    BY <2>2, <2>5
  <2>7. PICK h : h = [g EXCEPT !.todo = <<>>]
    OBVIOUS
  <2>8. Rest(c) = <<>>
    BY <1>1, <1>2, WordsAre DEF Rest, Words
  <2>9. h \in Request /\ h.todo = <<>> /\ h.name = n
    BY <1>2, <1>4, <2>7 DEF Request
  <2>10. Proceeds(c, h)
    BY <1>1, <2>3, <2>7, <2>8 DEF GoesOn
  <2>11. handling' = Meet(h, c, n) /\ torn \subseteq torn' /\ torn' \subseteq torn \union {n}
    BY <2>9, <2>10 DEF Proceeds
  <2>12. TableTypes'
    <3>1. ids' = ids /\ registry' = registry
      BY <2>3
    <3>2. /\ ids' \in Nat /\ ids' >= ids /\ DOMAIN registry' \subseteq 1 .. ids'
          /\ \A i \in DOMAIN registry' :
               /\ registry'[i] \in [name : Names, cols : SUBSET Columns, row_count : Nat]
               /\ i \in 1 .. ids => i \in DOMAIN registry /\ registry'[i].name = registry[i].name
          /\ \A i, j \in DOMAIN registry' : registry'[i].name = registry'[j].name => i = j
      BY <1>2, <3>1 DEF TableTypes
    <3>3. /\ DOMAIN real' \subseteq Names
          /\ \A m \in DOMAIN real' : real'[m] \in [cols : SUBSET Columns, size : Nat]
      BY <1>2, <2>5 DEF TableTypes
    <3>4. QED
      BY <1>2, <1>4, <2>9, <2>11, <3>2, <3>3, MeetTypes
  <2>13. \A m \in Names \ {n} : /\ RealSame(m) /\ RowsSame(m)
                                /\ m \in torn' <=> m \in torn
                                /\ m \in adrift' <=> m \in adrift
    BY <2>3, <2>5, <2>11 DEF RealSame, RowsSame, RegisteredAs
  <2>14. ~Late(g) /\ ~Late(h) /\ g.todo \notin {I3, I2, I1}
    BY <1>2, <2>9, WordsApart DEF Late
  <2>15. SchemaInv(n)'
    <3>1. KeepsSchema(n)
      BY <2>3, <2>5 DEF KeepsSchema, RegisteredAs
    <3>2. QED
      BY <1>1, <1>2, <1>4, <2>9, <2>11, <2>14, <3>1, SchemaGoes DEF LateOn
  <2>16. AloneInv(n)'
    BY <1>2, <1>4, <2>9, <2>11, AloneGoes
  <2>17. /\ Beside(c) /\ c \notin On(n)'
         /\ \A d \in TableClients \ {c} : d \in On(n) => ~handling'[d].clear
    BY <1>2, <1>4, <2>9, <2>11, MeetIs, MeetNow
  <2>18. CountInv(n)'
    <3>1. CASE k = real[n].size
      <4>1. RealSame(n) /\ RowsSame(n)
        BY <2>3, <2>5, <2>6, <3>1 DEF RealSame, RowsSame, RegisteredAs
      <4>2. ~InsertsOn(c, n) /\ ~MakesOn(c, n)'
        BY <1>1, <2>14, <2>17 DEF InsertsOn, MakesOn
      <4>3. QED
        BY <1>4, <2>3, <2>11, <2>17, <3>1, <4>1, <4>2, CountQuiet, RequestIs
    <3>2. CASE k # real[n].size
      <4>1. n \in adrift'
        BY <2>3, <3>2
      <4>2. ASSUME NEW d \in On(n)' PROVE ~handling'[d].clear
        <5>1. d \in TableClients \ {c}
          <6>1. d \in TableClients
            BY DEF On
          <6>2. QED
            BY <2>17, <6>1
        <5>2. OthersStay(c, n)
          BY <2>17, BesideStay
        <5>3. d \in On(n)
          BY <5>1, <5>2 DEF OthersStay
        <5>4. QED
          BY <2>17, <5>1, <5>3
      <4>3. QED
        BY <4>1, <4>2 DEF CountInv
    <3>3. QED
      BY <3>1, <3>2
  <2>19. QED
    BY <1>1, <1>4, <2>9, <2>11, <2>12, <2>13, <2>15, <2>16, <2>18, StepFinishes
<1>7. QED
  BY <1>5, <1>6

(* Rows of others leave the name adrift and no request on it clear.          *)
LEMMA OthersKeep ==
  ASSUME TablesInv, NEW n \in Names, OthersInsert(n)
  PROVE  TablesInv'
<1>1. TableTypes /\ n \in DOMAIN real
  BY DEF TablesInv, OthersInsert
<1>2. PICK b \in Batches : real' = [real EXCEPT ![n].size = @ + Len(b)]
  BY DEF OthersInsert
<1>3. /\ adrift' = adrift \union {n} /\ registry' = registry /\ torn' = torn /\ ids' = ids
      /\ handling' = [c \in TableClients |-> [handling[c] EXCEPT !.clear = @ /\ c \notin On(n)]]
  BY DEF OthersInsert
<1>4. Len(b) \in Nat
  <2>1. b = <<TRUE>> \/ b = <<TRUE, TRUE>> \/ b = <<TRUE, FALSE>>
    BY DEF Batches
  <2>2. Len(<<TRUE>>) = 1 /\ Len(<<TRUE, TRUE>>) = 2 /\ Len(<<TRUE, FALSE>>) = 2
    OBVIOUS
  <2>3. QED
    BY <2>1, <2>2
<1>5. real[n] \in [cols : SUBSET Columns, size : Nat]
  BY <1>1 DEF TableTypes
<1>6. /\ DOMAIN real' = DOMAIN real /\ real'[n].cols = real[n].cols
      /\ real'[n] \in [cols : SUBSET Columns, size : Nat]
      /\ \A m \in DOMAIN real \ {n} : real'[m] = real[m]
  BY <1>1, <1>2, <1>4, <1>5
<1>7. ASSUME NEW c \in TableClients
      PROVE  /\ handling[c] \in Request /\ handling'[c] \in Request /\ SameBut(handling'[c], handling[c])
             /\ handling'[c].clear => handling[c].clear /\ c \notin On(n)
             /\ c \notin On(n) => handling'[c] = handling[c]
  <2>1. handling[c] \in Request
    BY <1>1 DEF TableTypes
  <2>2. handling'[c] = [handling[c] EXCEPT !.clear = @ /\ c \notin On(n)]
    BY <1>3
  <2>3. handling'[c].clear => handling[c].clear /\ c \notin On(n)
    BY <2>1, <2>2 DEF Request
  <2>4. SameBut(handling'[c], handling[c])
    BY <2>1, <2>2 DEF Request, SameBut
  <2>5. handling'[c] \in Request
    BY <2>1, <2>2 DEF Request
  <2>6. c \notin On(n) => handling'[c] = handling[c]
    BY <2>1, <2>2 DEF Request
  <2>7. QED
    BY <2>1, <2>3, <2>4, <2>5, <2>6
<1>8. \A m \in Names : On(m)' = On(m) /\ RegisteredAs(m)' = RegisteredAs(m)
  BY <1>3, <1>7 DEF On, RegisteredAs, SameBut
<1>9. TableTypes'
  <2>1. \A c \in TableClients : Shaped(handling[c])'
    <3> TAKE c \in TableClients
    <3>1. Shaped(handling[c]) /\ SameBut(handling'[c], handling[c])
      BY <1>1, <1>7 DEF TableTypes
    <3>2. handling[c].todo = <<>> => handling'[c] = handling[c]
      BY <1>7 DEF On
    <3>3. ids' = ids /\ registry' = registry
      BY <1>3
    <3>4. QED
      BY <3>1, <3>2, <3>3 DEF Shaped, SameBut
  <2>2. handling' \in [TableClients -> Request]
    BY <1>3, <1>7
  <2>3. \A m \in DOMAIN real' : real'[m] \in [cols : SUBSET Columns, size : Nat]
    BY <1>1, <1>6 DEF TableTypes
  <2>4. QED
    BY <1>1, <1>3, <1>6, <2>1, <2>2, <2>3 DEF TableTypes
<1>10. ASSUME NEW m \in Names PROVE NameInv(m)'
  <2>1. SchemaInv(m) /\ AloneInv(m) /\ CountInv(m)
    BY DEF TablesInv, NameInv
  <2>2. \A c \in On(m) : c \in TableClients /\ SameBut(handling'[c], handling[c])
    BY <1>7 DEF On
  <2>3. /\ DOMAIN real' = DOMAIN real /\ registry' = registry
        /\ m \in DOMAIN real => real'[m].cols = real[m].cols
    BY <1>3, <1>6
  <2>4. Agrees(m)' <=> Agrees(m)
    BY <1>8, <2>3 DEF Agrees
  <2>5. SchemaInv(m)'
    <3>1. \A c \in On(m) : Late(handling'[c]) <=> Late(handling[c])
      BY <2>2 DEF Late, SameBut
    <3>2. \A c \in On(m) : Halfway(handling[c], m) => Halfway(handling[c], m)'
      BY <1>8, <2>2, <2>3, <2>4 DEF Halfway, SameBut
    <3>3. QED
      BY <1>3, <1>8, <2>1, <2>4, <3>1, <3>2 DEF SchemaInv
  <2>6. AloneInv(m)'
    <3>1. SUFFICES ASSUME NEW c \in On(m), handling'[c].clear
                   PROVE  /\ On(m) = {c}
                          /\ handling'[c].todo = D2 => handling'[c].id \in RegisteredAs(m)
                          /\ handling'[c].todo = D1 => m \notin DOMAIN real /\ handling'[c].id \in RegisteredAs(m)
                          /\ handling'[c].todo = I1 => m \in DOMAIN real /\ handling'[c].count = real'[m].size
      BY <1>8, <2>3 DEF AloneInv
    <3>2. c \in TableClients /\ handling[c].clear /\ c \notin On(n)
      BY <1>7, <2>2, <3>1
    <3>3. handling'[c] = handling[c] /\ m # n
      BY <1>7, <3>1, <3>2
    <3>4. m \in DOMAIN real => real'[m] = real[m]
      BY <1>6, <3>3
    <3>5. QED
      BY <2>1, <3>1, <3>2, <3>3, <3>4 DEF AloneInv
  <2>7. CountInv(m)'
    <3>1. CASE m = n
      BY <1>3, <1>7, <1>8, <2>2, <3>1 DEF CountInv
    <3>2. CASE m # n
      <4>1. \A c \in On(m) : handling'[c].todo = handling[c].todo /\ (handling'[c].clear => handling[c].clear)
        BY <1>7, <2>2 DEF SameBut
      <4>2. Inserts(m)' <=> Inserts(m)
        BY <1>8, <4>1 DEF Inserts
      <4>3. /\ m \in adrift' <=> m \in adrift
            /\ m \in DOMAIN real => real'[m] = real[m]
            /\ DOMAIN real' = DOMAIN real
        BY <1>3, <1>6, <3>2
      <4>4. CASE m \in DOMAIN real
        BY <1>3, <1>8, <2>1, <4>1, <4>2, <4>3, <4>4 DEF CountInv
      <4>5. CASE m \notin DOMAIN real
        <5>1. m \notin torn => \A c \in On(m) : handling[c].todo \notin {C2, C1}
          BY <2>1, <4>5 DEF SchemaInv, Halfway
        <5>2. QED
          BY <1>3, <1>8, <2>1, <4>1, <4>2, <4>3, <4>5, <5>1 DEF CountInv
      <4>6. QED
        BY <4>4, <4>5
    <3>3. QED
      BY <3>1, <3>2
  <2>8. QED
    BY <2>5, <2>6, <2>7 DEF NameInv
<1>11. QED
  BY <1>9, <1>10 DEF TablesInv

-----------------------------------------------------------------------------
(* What is registered of the tables is so, whatever requests come when.      *)

THEOREM TablesInvHolds == TablesSpec => []TablesInv
<1>1. TablesInit => TablesInv
  <2> SUFFICES ASSUME TablesInit PROVE TablesInv
    OBVIOUS
  <2>1. /\ real = <<>> /\ registry = <<>> /\ ids = 0 /\ DOMAIN <<>> = {}
        /\ handling = [c \in TableClients |-> Unasked]
    BY DEF TablesInit
  <2>2. DOMAIN real = {} /\ DOMAIN registry = {}
    BY <2>1
  <2>3. TableTypes
    BY <2>1, <2>2, IdleIs DEF TableTypes
  <2>4. \A n \in Names : On(n) = {} /\ RegisteredAs(n) = {}
    BY <2>1, <2>2, IdleIs DEF On, RegisteredAs
  <2>5. \A n \in Names : SchemaInv(n) /\ AloneInv(n) /\ CountInv(n)
    BY <2>2, <2>4 DEF SchemaInv, AloneInv, CountInv, Agrees
  <2>6. QED
    BY <2>3, <2>5 DEF TablesInv, NameInv
<1>2. TablesInv /\ [TablesNext]_tablesVars => TablesInv'
  <2> SUFFICES ASSUME TablesInv, [TablesNext]_tablesVars PROVE TablesInv'
    OBVIOUS
  <2>1. CASE UNCHANGED tablesVars
    <3>1. UNCHANGED <<real, registry, handling, torn, adrift, ids>>
      BY <2>1 DEF tablesVars
    <3>2. TableTypes'
      BY <3>1 DEF TablesInv, TableTypes, Shaped
    <3>3. \A n \in Names : NameInv(n)'
      <4> TAKE n \in Names
      <4>1. NameInv(n) /\ RealSame(n) /\ RowsSame(n) /\ On(n)' = On(n)
        BY <3>1 DEF TablesInv, RealSame, RowsSame, RegisteredAs, On
      <4>2. QED
        BY <3>1, <4>1, Elsewhere
    <3>4. QED
      BY <3>2, <3>3 DEF TablesInv
  <2>2. CASE TablesNext
    <3>1. CASE \E n \in Names : OthersInsert(n)
      BY <3>1, OthersKeep
    <3>2. ASSUME NEW c \in TableClients, TablesStep(c) PROVE TablesInv'
      BY <3>2, AsksKeeps, FindKeeps, CreateKeeps, IndexKeeps, RegisterKeeps, RegisterFailsKeeps,
         DropKeeps, UnregisterKeeps, ReadColumnsKeeps, InsertKeeps, CountKeeps, StoreKeeps, UpdateKeeps, DeleteKeeps, CutKeeps
         DEF TablesStep
    <3>3. QED
      BY <2>2, <3>1, <3>2 DEF TablesNext
  <2>3. QED
    BY <2>1, <2>2
<1>3. QED
  BY <1>1, <1>2, PTL DEF TablesSpec

(* The registry of an organization's tables agrees with the tables that the  *)
(* statements of create, drop and insert (org-tables.js) have made: in names *)
(* and columns unless two changes of the schema overlapped, or one broke off *)
(* or was refused half way, and in counts once an insert met no other        *)
(* request, until a flow or a service inserts past them.                     *)
THEOREM RegistryExactHolds == TablesSpec => []RegistryExact
<1>1. TablesInv => RegistryExact
  <2> SUFFICES ASSUME TablesInv PROVE RegistryExact
    OBVIOUS
  <2>1. ASSUME NEW n \in Names \ torn, SchemaOn(n) = {} PROVE Agrees(n)
    <3>1. SchemaInv(n) /\ \A d \in On(n) : Shaped(handling[d])
      BY DEF TablesInv, NameInv, TableTypes, On
    <3>2. \A d \in On(n) : ~Late(handling[d])
      BY <2>1, <3>1 DEF Shaped, Late, Making, Dropping, SchemaOn
    <3>3. QED
      BY <2>1, <3>1, <3>2 DEF SchemaInv
  <2>2. SchemaAgrees
    BY <2>1 DEF SchemaAgrees, Agrees
  <2>3. CountExact
    <3>1. SUFFICES ASSUME NEW n \in Names \ (torn \union adrift), On(n) = {}, NEW i \in RegisteredAs(n)
                   PROVE  registry[i].row_count = real[n].size
      BY DEF CountExact
    <3>2. SchemaOn(n) = {}
      BY <3>1 DEF SchemaOn
    <3>3. n \in DOMAIN real
      BY <2>1, <3>1, <3>2 DEF Agrees
    <3>4. CountInv(n) /\ ~Inserts(n)
      BY <3>1 DEF TablesInv, NameInv, Inserts
    <3>5. QED
      BY <3>1, <3>3, <3>4 DEF CountInv
  <2>4. QED
    BY <2>2, <2>3 DEF RegistryExact
<1>2. QED
  BY <1>1, TablesInvHolds, PTL

-----------------------------------------------------------------------------
(***************************************************************************)
(* Custom blocks.                                                          *)
(***************************************************************************)

BlockRow == [org : Orgs, type : CustomTypes, code : BlockCodes, active : BOOLEAN]

(* An organization has one row of a type; a deletion knows its row, and what *)
(* it is about to delete is in use only where history has noted it.          *)
RowsInv ==
  /\ built \in Nat /\ DOMAIN block \subseteq 1 .. built
  /\ \A i \in DOMAIN block : block[i] \in BlockRow
  /\ \A i, j \in DOMAIN block : block[i].org = block[j].org /\ block[i].type = block[j].type => i = j
DeletionsInv ==
  /\ DOMAIN used = Orgs /\ DOMAIN deleting = Orgs
  /\ \A o \in Orgs : LET d == deleting[o] IN
       /\ DOMAIN d = {"at", "id"}
       /\ d.at \in {"flows", "row"} => d.id \in B!BlocksOf(o)
       /\ d.at = "row" /\ block[d.id].type \in used[o] => <<o, block[d.id].type>> \in orphaned
BlocksInv == RowsInv /\ DeletionsInv /\ B!UsedIsThere

LEMMA ThereIs ==
  ASSUME NEW o, NEW t
  PROVE  B!Named(B!BlocksOf(o), t) # {} <=> \E i \in DOMAIN block : block[i].org = o /\ block[i].type = t
BY DEF B!Named, B!BlocksOf

LEMMA BlocksBegin == B!BlocksInit => BlocksInv
<1> SUFFICES ASSUME B!BlocksInit PROVE BlocksInv
  OBVIOUS
<1>1. block = <<>> /\ built = 0 /\ DOMAIN <<>> = {}
  BY DEF B!BlocksInit
<1>2. RowsInv
  BY <1>1 DEF RowsInv
<1>3. /\ DOMAIN used = Orgs /\ DOMAIN deleting = Orgs
      /\ \A o \in Orgs : used[o] = {} /\ deleting[o] = [at |-> "no", id |-> 0]
  BY DEF B!BlocksInit, B!NoDeletion
<1>4. DeletionsInv
  BY <1>3 DEF DeletionsInv
<1>5. B!UsedIsThere
  BY <1>3 DEF B!UsedIsThere
<1>6. QED
  BY <1>2, <1>4, <1>5 DEF BlocksInv

(* Whatever leaves flows, deletions and what rows are of as they are.        *)
LEMMA BlocksAlike ==
  ASSUME BlocksInv, UNCHANGED <<used, deleting, orphaned>>, RowsInv',
         DOMAIN block \subseteq DOMAIN block',
         \A i \in DOMAIN block : block'[i].org = block[i].org /\ block'[i].type = block[i].type
  PROVE  BlocksInv'
<1>1. ASSUME NEW o, NEW i \in B!BlocksOf(o) PROVE i \in B!BlocksOf(o)' /\ block'[i].type = block[i].type
  BY <1>1 DEF B!BlocksOf
<1>2. DeletionsInv'
  <2>1. DOMAIN used = Orgs /\ DOMAIN deleting = Orgs
    BY DEF BlocksInv, DeletionsInv
  <2>2. ASSUME NEW o \in Orgs
        PROVE  /\ DOMAIN deleting[o] = {"at", "id"}
               /\ deleting[o].at \in {"flows", "row"} => deleting[o].id \in B!BlocksOf(o)'
               /\ deleting[o].at = "row" /\ block'[deleting[o].id].type \in used[o]
                    => <<o, block'[deleting[o].id].type>> \in orphaned
    BY <1>1 DEF BlocksInv, DeletionsInv
  <2>3. QED
    BY <2>1, <2>2 DEF DeletionsInv
<1>3. B!UsedIsThere'
  <2>1. ASSUME NEW o \in Orgs, NEW t \in used[o], <<o, t>> \notin orphaned
        PROVE  B!Named(B!BlocksOf(o), t)' # {}
    <3>1. PICK i \in DOMAIN block : block[i].org = o /\ block[i].type = t
      BY <2>1, ThereIs DEF BlocksInv, B!UsedIsThere
    <3>2. i \in DOMAIN block' /\ block'[i].org = o /\ block'[i].type = t
      BY <3>1
    <3>3. QED
      BY <3>2 DEF B!Named, B!BlocksOf
  <2>2. QED
    BY <2>1 DEF B!UsedIsThere
<1>4. QED
  BY <1>2, <1>3 DEF BlocksInv

LEMMA PostKeeps ==
  ASSUME BlocksInv, NEW o \in Orgs, B!PostBlock(o) PROVE BlocksInv'
<1>1. PICK t \in CustomTypes, c \in BlockCodes :
        /\ B!Named(B!BlocksOf(o), t) = {}
        /\ block' = [i \in DOMAIN block \union {built + 1} |-> IF i \in DOMAIN block THEN block[i]
                       ELSE [org |-> o, type |-> t, code |-> c, active |-> TRUE]]
  BY DEF B!PostBlock
<1>2. RowsInv
  BY DEF BlocksInv
<1>3. built + 1 \notin DOMAIN block /\ built' = built + 1
  BY <1>2 DEF RowsInv, B!PostBlock
<1>4. /\ DOMAIN block' = DOMAIN block \union {built + 1}
      /\ \A i \in DOMAIN block : block'[i] = block[i]
      /\ block'[built + 1] = [org |-> o, type |-> t, code |-> c, active |-> TRUE]
  BY <1>1, <1>3
<1>5. RowsInv'
  <2>1. built' \in Nat /\ DOMAIN block' \subseteq 1 .. built'
    BY <1>2, <1>3, <1>4 DEF RowsInv
  <2>a. [org |-> o, type |-> t, code |-> c, active |-> TRUE] \in BlockRow
    BY DEF BlockRow
  <2>b. \A i \in DOMAIN block : block[i] \in BlockRow
    BY <1>2 DEF RowsInv
  <2>2. \A i \in DOMAIN block' : block'[i] \in BlockRow
    BY <1>4, <2>a, <2>b
  <2>3. \A i \in DOMAIN block : ~(block[i].org = o /\ block[i].type = t)
    BY <1>1, ThereIs
  <2>4. ASSUME NEW i \in DOMAIN block', NEW j \in DOMAIN block',
               block'[i].org = block'[j].org, block'[i].type = block'[j].type
        PROVE  i = j
    BY <1>2, <1>4, <2>3, <2>4 DEF RowsInv
  <2>5. QED
    BY <2>1, <2>2, <2>4 DEF RowsInv
<1>6. QED
  BY <1>4, <1>5, BlocksAlike DEF B!PostBlock

LEMMA PatchKeeps ==
  ASSUME BlocksInv, NEW o \in Orgs, B!PatchBlock(o) PROVE BlocksInv'
<1>1. PICK i \in B!BlocksOf(o), c \in BlockCodes, a \in BOOLEAN :
        block' = [block EXCEPT ![i].code = c, ![i].active = a]
  BY DEF B!PatchBlock
<1>2. RowsInv /\ i \in DOMAIN block
  BY DEF BlocksInv, B!BlocksOf
<1>3. block[i] \in BlockRow
  BY <1>2 DEF RowsInv
<1>4. /\ DOMAIN block' = DOMAIN block
      /\ \A j \in DOMAIN block : j # i => block'[j] = block[j]
      /\ block'[i] = [block[i] EXCEPT !.code = c, !.active = a]
  BY <1>1, <1>2
<1>5. block'[i] \in BlockRow /\ block'[i].org = block[i].org /\ block'[i].type = block[i].type
  BY <1>3, <1>4 DEF BlockRow
<1>6. \A j \in DOMAIN block : block'[j].org = block[j].org /\ block'[j].type = block[j].type
  BY <1>4, <1>5
<1>7. RowsInv'
  <2>1. built' = built
    BY DEF B!PatchBlock
  <2>2. \A j \in DOMAIN block' : block'[j] \in BlockRow
    BY <1>2, <1>4, <1>5 DEF RowsInv
  <2>3. QED
    BY <1>2, <1>4, <1>6, <2>1, <2>2 DEF RowsInv
<1>8. QED
  BY <1>4, <1>6, <1>7, BlocksAlike DEF B!PatchBlock

(* A step of one organization's deletion. *)
LEMMA DeletionStep ==
  ASSUME BlocksInv, NEW o \in Orgs, UNCHANGED <<block, built, used, orphaned>>,
         NEW d, deleting' = [deleting EXCEPT ![o] = d], DOMAIN d = {"at", "id"},
         d.at \in {"flows", "row"} => d.id \in B!BlocksOf(o),
         d.at = "row" => block[d.id].type \notin used[o]
  PROVE  BlocksInv'
<1>1. RowsInv'
  BY DEF BlocksInv, RowsInv
<1>2. /\ DOMAIN deleting' = Orgs /\ deleting'[o] = d
      /\ \A p \in Orgs : p # o => deleting'[p] = deleting[p]
  BY DEF BlocksInv, DeletionsInv
<1>3. \A p : B!BlocksOf(p)' = B!BlocksOf(p)
  BY DEF B!BlocksOf
<1>4. DeletionsInv'
  BY <1>2, <1>3 DEF BlocksInv, DeletionsInv
<1>5. B!UsedIsThere'
  BY DEF BlocksInv, B!UsedIsThere, B!Named, B!BlocksOf
<1>6. QED
  BY <1>1, <1>4, <1>5 DEF BlocksInv

LEMMA VerifyKeeps ==
  ASSUME BlocksInv, NEW o \in Orgs, B!VerifyBlock(o) PROVE BlocksInv'
<1>1. PICK i \in B!BlocksOf(o) : deleting' = [deleting EXCEPT ![o] = [at |-> "flows", id |-> i]]
  BY DEF B!VerifyBlock
<1>2. QED
  BY <1>1, DeletionStep DEF B!VerifyBlock

LEMMA CheckFlowsKeeps ==
  ASSUME ScreensAssumption, BlocksInv, NEW o \in Orgs, B!CheckFlows(o) PROVE BlocksInv'
<1> DEFINE d == deleting[o]
           t == block[d.id].type
<1>1. DOMAIN deleting = Orgs /\ DOMAIN d = {"at", "id"} /\ d.at = "flows" /\ d.id \in B!BlocksOf(o)
  BY DEF BlocksInv, DeletionsInv, B!CheckFlows
<1>2. CASE B!UsedBy(o, t)
  <2>1. deleting' = [deleting EXCEPT ![o] = B!NoDeletion]
    BY <1>1, <1>2 DEF B!CheckFlows
  <2>2. DOMAIN B!NoDeletion = {"at", "id"} /\ B!NoDeletion.at = "no"
    BY DEF B!NoDeletion
  <2>3. QED
    BY <2>1, <2>2, DeletionStep DEF B!CheckFlows
<1>3. CASE ~B!UsedBy(o, t)
  <2>1. deleting' = [deleting EXCEPT ![o] = [d EXCEPT !.at = "row"]]
    BY <1>1, <1>3 DEF B!CheckFlows
  <2>2. LET e == [d EXCEPT !.at = "row"] IN DOMAIN e = {"at", "id"} /\ e.at = "row" /\ e.id = d.id
    BY <1>1
  <2>3. t \in CustomTypes
    <3>1. block[d.id] \in BlockRow
      BY <1>1 DEF BlocksInv, RowsInv, B!BlocksOf
    <3>2. QED
      BY <3>1 DEF BlockRow
  <2>4. t \notin used[o]
    BY <1>3, <2>3 DEF ScreensAssumption, B!BlocksAssumption, B!UsedBy
  <2>5. QED
    BY <1>1, <2>1, <2>2, <2>4, DeletionStep DEF B!CheckFlows
<1>4. QED
  BY <1>2, <1>3

LEMMA DeleteBlockKeeps ==
  ASSUME BlocksInv, NEW o \in Orgs, B!DeleteBlock(o) PROVE BlocksInv'
<1> DEFINE d == deleting[o].id
<1>1. /\ d \in B!BlocksOf(o) /\ d \in DOMAIN block /\ block[d].org = o
      /\ block[d].type \in used[o] => <<o, block[d].type>> \in orphaned
  BY DEF BlocksInv, DeletionsInv, B!DeleteBlock, B!BlocksOf
<1>2. DOMAIN block' = DOMAIN block \ {d} /\ \A i \in DOMAIN block' : block'[i] = block[i]
  BY DEF B!DeleteBlock
<1>3. UNCHANGED <<built, used, orphaned>>
  BY DEF B!DeleteBlock
<1>4. RowsInv'
  BY <1>2, <1>3 DEF BlocksInv, RowsInv
<1>5. /\ DOMAIN deleting' = Orgs /\ deleting'[o] = [at |-> "no", id |-> 0]
      /\ \A p \in Orgs : p # o => deleting'[p] = deleting[p]
  BY DEF BlocksInv, DeletionsInv, B!DeleteBlock, B!NoDeletion
<1>6. ASSUME NEW p \in Orgs, p # o, NEW i \in B!BlocksOf(p)
      PROVE  i \in B!BlocksOf(p)' /\ block'[i] = block[i]
  BY <1>1, <1>2, <1>6 DEF B!BlocksOf
<1>7. DeletionsInv'
  <2>1. ASSUME NEW p \in Orgs
        PROVE  /\ DOMAIN deleting'[p] = {"at", "id"}
               /\ deleting'[p].at \in {"flows", "row"} => deleting'[p].id \in B!BlocksOf(p)'
               /\ deleting'[p].at = "row" /\ block'[deleting'[p].id].type \in used'[p]
                    => <<p, block'[deleting'[p].id].type>> \in orphaned'
    <3>1. CASE p = o
      BY <1>5, <3>1
    <3>2. CASE p # o
      <4>1. /\ DOMAIN deleting[p] = {"at", "id"}
            /\ deleting[p].at \in {"flows", "row"} => deleting[p].id \in B!BlocksOf(p)
            /\ deleting[p].at = "row" /\ block[deleting[p].id].type \in used[p]
                    => <<p, block[deleting[p].id].type>> \in orphaned
        BY DEF BlocksInv, DeletionsInv
      <4>2. QED
        BY <1>3, <1>5, <1>6, <3>2, <4>1
    <3>3. QED
      BY <3>1, <3>2
  <2>2. QED
    BY <1>3, <1>5, <2>1 DEF BlocksInv, DeletionsInv
<1>8. B!UsedIsThere'
  <2>1. ASSUME NEW p \in Orgs, NEW t \in used[p], <<p, t>> \notin orphaned
        PROVE  B!Named(B!BlocksOf(p), t)' # {}
    <3>1. PICK i \in DOMAIN block : block[i].org = p /\ block[i].type = t
      BY <2>1, ThereIs DEF BlocksInv, B!UsedIsThere
    <3>2. i # d
      BY <1>1, <2>1, <3>1
    <3>3. i \in DOMAIN block' /\ block'[i].org = p /\ block'[i].type = t
      BY <1>2, <3>1, <3>2
    <3>4. QED
      BY <3>3 DEF B!Named, B!BlocksOf
  <2>2. QED
    BY <1>3, <2>1 DEF B!UsedIsThere
<1>9. QED
  BY <1>4, <1>7, <1>8 DEF BlocksInv

LEMMA SaveFlowKeeps ==
  ASSUME BlocksInv, NEW o \in Orgs, B!SaveFlow(o) PROVE BlocksInv'
<1>1. PICK T \in SUBSET B!Drawn(o) :
        /\ used' = [used EXCEPT ![o] = T]
        /\ orphaned' = {x \in orphaned : x[1] # o \/ x[2] \in T}
                         \union {<<o, t>> : t \in {x \in T \ used[o] : B!Going(o, x)}}
  BY DEF B!SaveFlow
<1>2. UNCHANGED <<block, built, deleting>>
  BY DEF B!SaveFlow
<1>3. DOMAIN used' = Orgs /\ used'[o] = T /\ \A p \in Orgs : p # o => used'[p] = used[p]
  BY <1>1 DEF BlocksInv, DeletionsInv
<1>4. ASSUME NEW p \in Orgs, NEW t, <<p, t>> \in orphaned, p # o \/ t \in T PROVE <<p, t>> \in orphaned'
  <2>1. <<p, t>>[1] = p /\ <<p, t>>[2] = t
    OBVIOUS
  <2>2. QED
    BY <1>1, <1>4, <2>1
<1>5. ASSUME NEW t \in T, t \notin used[o], B!Going(o, t) PROVE <<o, t>> \in orphaned'
  BY <1>1, <1>5
<1>6. RowsInv'
  BY <1>2 DEF BlocksInv, RowsInv
<1>7. \A p : B!BlocksOf(p)' = B!BlocksOf(p)
  BY <1>2 DEF B!BlocksOf
<1>8. DeletionsInv'
  <2>1. ASSUME NEW p \in Orgs, deleting[p].at = "row", block[deleting[p].id].type \in used'[p]
        PROVE  <<p, block[deleting[p].id].type>> \in orphaned'
    <3> DEFINE t == block[deleting[p].id].type
    <3>1. t \in used[p] => <<p, t>> \in orphaned
      BY <2>1 DEF BlocksInv, DeletionsInv
    <3>2. CASE t \in used[p]
      BY <1>3, <1>4, <2>1, <3>1, <3>2
    <3>3. CASE t \notin used[p]
      <4>1. p = o /\ t \in T
        BY <1>3, <2>1, <3>3
      <4>2. B!Going(o, t)
        BY <2>1, <4>1 DEF B!Going
      <4>3. QED
        BY <1>5, <3>3, <4>1, <4>2
    <3>4. QED
      BY <3>2, <3>3
  <2>2. QED
    BY <1>2, <1>3, <1>7, <2>1 DEF BlocksInv, DeletionsInv
<1>9. B!UsedIsThere'
  <2>1. ASSUME NEW p \in Orgs, NEW t \in used'[p], <<p, t>> \notin orphaned'
        PROVE  B!Named(B!BlocksOf(p), t) # {}
    <3>1. CASE t \in used[p]
      <4>1. <<p, t>> \notin orphaned
        BY <1>3, <1>4, <2>1
      <4>2. QED
        BY <3>1, <4>1 DEF BlocksInv, B!UsedIsThere
    <3>2. CASE t \notin used[p]
      <4>1. p = o /\ t \in T
        BY <1>3, <3>2
      <4>2. ~B!Going(o, t)
        BY <1>5, <2>1, <3>2, <4>1
      <4>3. QED
        BY <4>1, <4>2 DEF B!Going
    <3>3. QED
      BY <3>1, <3>2
  <2>2. \A p, t : B!Named(B!BlocksOf(p), t)' = B!Named(B!BlocksOf(p), t)
    BY <1>2 DEF B!Named, B!BlocksOf
  <2>3. QED
    BY <2>1, <2>2 DEF B!UsedIsThere
<1>10. QED
  BY <1>6, <1>8, <1>9 DEF BlocksInv

LEMMA BlocksStay == ASSUME BlocksInv, UNCHANGED <<block, built, used, deleting, orphaned>> PROVE BlocksInv'
BY DEF BlocksInv, RowsInv, DeletionsInv, B!UsedIsThere, B!Named, B!BlocksOf

LEMMA BlocksStep ==
  ASSUME ScreensAssumption, BlocksInv, [B!BlocksNext]_(B!blocksVars) PROVE BlocksInv'
<1>1. CASE UNCHANGED B!blocksVars
  BY <1>1, BlocksStay DEF B!blocksVars
<1>2. ASSUME NEW o \in Orgs, B!LoadPalette(o) \/ B!ReloadPage(o) \/ \E b \in Backends : B!ExecuteBlock(o, b)
      PROVE  BlocksInv'
  BY <1>2, BlocksStay DEF B!LoadPalette, B!ReloadPage, B!ExecuteBlock
<1>3. ASSUME NEW b \in Backends, B!RestartBackend(b) PROVE BlocksInv'
  BY <1>3, BlocksStay DEF B!RestartBackend
<1>4. ASSUME NEW o \in Orgs,
             \/ B!PostBlock(o) \/ B!PatchBlock(o) \/ B!VerifyBlock(o) \/ B!CheckFlows(o) \/ B!DeleteBlock(o)
             \/ B!SaveFlow(o)
      PROVE  BlocksInv'
  BY <1>4, PostKeeps, PatchKeeps, VerifyKeeps, CheckFlowsKeeps, DeleteBlockKeeps, SaveFlowKeeps
<1>5. QED
  BY <1>1, <1>2, <1>3, <1>4 DEF B!BlocksNext

(* A run looks up what it has just loaded.                                   *)
LEMMA RunsOwn ==
  ASSUME B!RunsOwnCode, [B!BlocksNext]_(B!blocksVars) PROVE B!RunsOwnCode'
<1>1. CASE ran' = ran
  BY <1>1 DEF B!RunsOwnCode
<1>2. ASSUME NEW o \in Orgs, NEW b \in Backends, B!ExecuteBlock(o, b) PROVE B!RunsOwnCode'
  <2> DEFINE H(l) == IF l THEN B!LoadOrgBlocks(handlers[b], o) ELSE handlers[b]
             Mine(t) == B!CodeOf(CHOOSE i \in B!Named(B!Active(o), t) : TRUE)
  <2>1. PICK t \in B!Drawn(o), loads \in BOOLEAN :
          ran' = [loaded |-> loads,
                  by |-> IF t \in DOMAIN H(loads) THEN H(loads)[t] ELSE B!Nobody,
                  own |-> IF B!Named(B!Active(o), t) = {} THEN B!Nobody ELSE Mine(t)]
    BY <1>2 DEF B!ExecuteBlock
  <2>2. SUFFICES ASSUME loads, B!Named(B!Active(o), t) # {} PROVE ran'.by = ran'.own
    BY <2>1 DEF B!RunsOwnCode
  <2>3. t \in {block[i].type : i \in B!Active(o)}
    BY <2>2 DEF B!Named
  <2>4. t \in DOMAIN H(loads) /\ H(loads)[t] = Mine(t)
    BY <2>2, <2>3 DEF B!LoadOrgBlocks
  <2>5. QED
    BY <2>1, <2>2, <2>4
<1>3. CASE UNCHANGED B!blocksVars
  BY <1>1, <1>3 DEF B!blocksVars
<1>4. ASSUME NEW o \in Orgs,
             \/ B!PostBlock(o) \/ B!PatchBlock(o) \/ B!VerifyBlock(o) \/ B!CheckFlows(o) \/ B!DeleteBlock(o)
             \/ B!SaveFlow(o) \/ B!LoadPalette(o) \/ B!ReloadPage(o)
      PROVE  B!RunsOwnCode'
  BY <1>1, <1>4 DEF B!PostBlock, B!PatchBlock, B!VerifyBlock, B!CheckFlows, B!DeleteBlock,
       B!SaveFlow, B!LoadPalette, B!ReloadPage
<1>5. ASSUME NEW b \in Backends, B!RestartBackend(b) PROVE B!RunsOwnCode'
  BY <1>1, <1>5 DEF B!RestartBackend
<1>6. QED
  BY <1>2, <1>3, <1>4, <1>5 DEF B!BlocksNext

LEMMA BlocksHold == ASSUME ScreensAssumption PROVE B!BlocksSpec => [](B!RunsOwnCode /\ B!UsedIsThere)
<1>1. B!BlocksInit => B!RunsOwnCode
  BY DEF B!BlocksInit, B!RunsOwnCode
<1>2. BlocksInv => B!UsedIsThere
  BY DEF BlocksInv
<1>3. BlocksInv /\ [B!BlocksNext]_(B!blocksVars) => BlocksInv'
  BY BlocksStep
<1>4. B!RunsOwnCode /\ [B!BlocksNext]_(B!blocksVars) => B!RunsOwnCode'
  BY RunsOwn
<1>5. QED
  BY <1>1, <1>2, <1>3, <1>4, BlocksBegin, PTL DEF B!BlocksSpec

(***************************************************************************)
(* Lists of pages and addresses.                                           *)
(***************************************************************************)

PageRow == [type : {"dashboard", "html"}, slug : Addresses, visibility : {"private", "org", "public"},
            user : BOOLEAN, role : BOOLEAN, app : Addresses \union {V!Unpublished}]

(* A list that was loaded after the last edit is what it would be now.       *)
ListInv ==
  /\ edits \in Nat /\ lists.at \in Nat /\ lists.at <= edits
  /\ held \in [V!ThePages -> PageRow]
  /\ lists.at = edits => lists.pages = V!Shared
ViewsInv == ListInv /\ V!ListedOpens /\ V!AddressReaches

LEMMA ViewsBegin == V!ViewInit => ViewsInv
<1> SUFFICES ASSUME V!ViewInit PROVE ViewsInv
  OBVIOUS
<1>1. /\ edits = 0 /\ lists.at = 0 /\ lists.pages = {} /\ address.by = "none"
      /\ held \in [V!ThePages -> [type : {"dashboard", "html"}, slug : Addresses, visibility : {"private"},
                                  user : {FALSE}, role : {FALSE}, app : {V!Unpublished}]]
  BY DEF V!ViewInit, V!Nowhere
<1>2. ASSUME NEW p \in V!ThePages
      PROVE  held[p] \in PageRow /\ held[p].visibility = "private" /\ ~held[p].user /\ ~held[p].role
  <2>1. held[p] \in [type : {"dashboard", "html"}, slug : Addresses, visibility : {"private"},
                     user : {FALSE}, role : {FALSE}, app : {V!Unpublished}]
    BY <1>1
  <2>2. held[p].visibility = "private" /\ held[p].user = FALSE /\ held[p].role = FALSE
    BY <2>1
  <2>3. held[p] \in PageRow
    BY <2>1 DEF PageRow
  <2>4. QED
    BY <2>2, <2>3
<1>3. V!Shared = {}
  BY <1>2 DEF V!Shared, V!SharedWith
<1>4. ListInv
  BY <1>1, <1>2, <1>3 DEF ListInv
<1>5. QED
  BY <1>1, <1>4 DEF ViewsInv, V!ListedOpens, V!AddressReaches

LEMMA EditKeeps ==
  ASSUME ViewsInv, NEW p \in V!ThePages, NEW row \in PageRow, V!Edits(p, row) PROVE ViewsInv'
<1>1. edits' = edits + 1 /\ held' = [held EXCEPT ![p] = row] /\ address'.by = "none" /\ lists' = lists
  BY DEF V!Edits, V!Nowhere
<1>2. ListInv'
  <2>1. held' \in [V!ThePages -> PageRow]
    BY <1>1 DEF ViewsInv, ListInv
  <2>2. edits' \in Nat /\ lists'.at \in Nat /\ lists'.at < edits'
    BY <1>1 DEF ViewsInv, ListInv
  <2>3. QED
    BY <2>1, <2>2 DEF ListInv
<1>3. QED
  BY <1>1, <1>2 DEF ViewsInv, V!ListedOpens, V!AddressReaches

LEMMA RowsKeep ==
  ASSUME ViewsInv, NEW p \in V!ThePages,
         V!SetVisibility(p) \/ V!ShareUser(p) \/ V!ShareRole(p) \/ V!Publish(p) \/ V!Rename(p)
  PROVE  ViewsInv'
<1>1. held[p] \in PageRow
  BY DEF ViewsInv, ListInv
<1>2. CASE V!SetVisibility(p)
  <2>1. PICK v \in {"private", "org", "public"} : V!Edits(p, [held[p] EXCEPT !.visibility = v])
    BY <1>2 DEF V!SetVisibility
  <2>2. [held[p] EXCEPT !.visibility = v] \in PageRow
    BY <1>1 DEF PageRow
  <2>3. QED
    BY <2>1, <2>2, EditKeeps
<1>3. CASE V!ShareUser(p)
  <2>1. [held[p] EXCEPT !.user = ~held[p].user] \in PageRow
    BY <1>1 DEF PageRow
  <2>2. V!Edits(p, [held[p] EXCEPT !.user = ~held[p].user])
    BY <1>3 DEF V!ShareUser
  <2>3. QED
    BY <2>1, <2>2, EditKeeps
<1>4. CASE V!ShareRole(p)
  <2>1. [held[p] EXCEPT !.role = ~held[p].role] \in PageRow
    BY <1>1 DEF PageRow
  <2>2. V!Edits(p, [held[p] EXCEPT !.role = ~held[p].role])
    BY <1>4 DEF V!ShareRole
  <2>3. QED
    BY <2>1, <2>2, EditKeeps
<1>5. CASE V!Publish(p)
  <2>1. [held[p] EXCEPT !.app = held[p].slug] \in PageRow
    BY <1>1 DEF PageRow
  <2>2. QED
    BY <1>5, <2>1, EditKeeps DEF V!Publish
<1>6. CASE V!Rename(p)
  <2>1. PICK s \in Addresses : V!Edits(p, [held[p] EXCEPT !.slug = s])
    BY <1>6 DEF V!Rename
  <2>2. [held[p] EXCEPT !.slug = s] \in PageRow
    BY <1>1 DEF PageRow
  <2>3. QED
    BY <2>1, <2>2, EditKeeps
<1>7. QED
  BY <1>2, <1>3, <1>4, <1>5, <1>6

LEMMA LoadKeeps == ASSUME ViewsInv, V!LoadList PROVE ViewsInv'
<1>1. lists'.pages = V!Shared /\ lists'.at = edits /\ UNCHANGED <<held, member, address, edits>>
  BY DEF V!LoadList
<1>2. V!Shared' = V!Shared
  BY <1>1 DEF V!Shared, V!SharedWith
<1>3. ListInv'
  BY <1>1, <1>2 DEF ViewsInv, ListInv
<1>4. V!ListedOpens'
  BY <1>1 DEF ViewsInv, V!ListedOpens, V!OnlyByRole
<1>5. V!AddressReaches'
  BY <1>1 DEF ViewsInv, V!AddressReaches, V!Holders, V!Permitted
<1>6. QED
  BY <1>3, <1>4, <1>5 DEF ViewsInv

(* The page found first is one of those published there. *)
LEMMA LeastPlace ==
  ASSUME NEW C, C \subseteq Nat, C # {}
  PROVE  V!Min(C) \in C
<1> DEFINE R == OpToRel(<, Nat)
<1>1. IsWellFoundedOn(R, Nat)
  BY NatLessThanWellFounded
<1>2. \A x, y \in Nat : y < x => <<y, x>> \in R
  BY DEF OpToRel
<1> HIDE DEF R
<1>3. PICK x \in C : \A y \in C : <<y, x>> \notin R
  BY <1>1, WFMin, Zenon
<1>4. \A y \in C : ~(y < x)
  BY <1>2, <1>3
<1>5. \A y \in C : x <= y
  BY <1>4
<1>6. QED
  BY <1>5 DEF V!Min

LEMMA SameCardinality == ASSUME NEW S PROVE V!Cardinality(S) = Cardinality(S)
  BY DEF V!Cardinality, Cardinality

LEMMA FoundIs ==
  ASSUME ScreensAssumption, ViewsInv, NEW s
  PROVE  LET h == V!Holders(s)
             g == V!Found(s, {"dashboard", "html"})
         IN /\ g # V!Denied => g \in h /\ V!Permitted(g)
            /\ V!Cardinality(h) = 1 /\ (\A p \in h : V!Permitted(p)) => g \in h
<1> DEFINE f == V!Published(s, {"dashboard", "html"})
           h == V!Holders(s)
<1>1. /\ V!ThePages = {ViewPages[i] : i \in DOMAIN ViewPages}
      /\ DOMAIN ViewPages \subseteq Nat
  <2>1. DOMAIN ViewPages = 1 .. Len(ViewPages) /\ Len(ViewPages) \in Nat
    BY DEF ScreensAssumption, V!ViewsAssumption
  <2>2. QED
    BY <2>1 DEF V!ThePages, V!ToSet
<1>2. ASSUME NEW i \in DOMAIN ViewPages
      PROVE  i \in f <=> ViewPages[i] \in h
  <2>1. ViewPages[i] \in V!ThePages
    BY <1>1
  <2>2. held[ViewPages[i]].type \in {"dashboard", "html"}
    BY <2>1 DEF ViewsInv, ListInv, PageRow
  <2>3. QED
    BY <2>1, <2>2 DEF V!Published, V!Holders
<1>3. f \subseteq DOMAIN ViewPages
  BY DEF V!Published
<1>4. CASE f = {}
  <2>1. h = {}
    BY <1>1, <1>2, <1>4 DEF V!Holders
  <2>2. V!Cardinality(h) = 0
    BY <2>1, FS_EmptySet, SameCardinality
  <2>3. V!Found(s, {"dashboard", "html"}) = V!Denied
    BY <1>4 DEF V!Found
  <2>4. QED
    BY <2>2, <2>3
<1>5. CASE f # {}
  <2> DEFINE first == ViewPages[V!Min(f)]
  <2>1. V!Min(f) \in f
    BY <1>1, <1>3, <1>5, LeastPlace
  <2>2. first \in h
    BY <1>2, <1>3, <2>1
  <2>3. V!Found(s, {"dashboard", "html"}) = IF V!Permitted(first) THEN first ELSE V!Denied
    BY <1>5 DEF V!Found
  <2>4. QED
    BY <2>2, <2>3
<1>6. QED
  BY <1>4, <1>5

(* Whatever is opened leaves all but what came as it is. *)
LEMMA OpensIs ==
  ASSUME ViewsInv, NEW by, NEW what, NEW got, V!Opens(by, what, got)
  PROVE  /\ ListInv' /\ UNCHANGED <<held, member, lists, edits>>
         /\ address'.by = by /\ address'.asked = what /\ address'.got = got
         /\ address'.fresh <=> lists.at = edits
<1>1. /\ UNCHANGED <<held, member, lists, edits>>
      /\ address'.by = by /\ address'.asked = what /\ address'.got = got
      /\ address'.fresh <=> lists.at = edits
  BY DEF V!Opens
<1>2. V!Shared' = V!Shared
  BY <1>1 DEF V!Shared, V!SharedWith
<1>3. QED
  BY <1>1, <1>2 DEF ViewsInv, ListInv

LEMMA OpenListedKeeps == ASSUME ViewsInv, V!OpenListed PROVE ViewsInv'
<1>1. PICK p \in lists.pages : V!Opens("list", p, IF V!MayGet(p) THEN p ELSE V!Denied)
  BY DEF V!OpenListed
<1>2. /\ ListInv' /\ UNCHANGED <<held, member, lists, edits>>
      /\ address'.by = "list" /\ address'.asked = p
      /\ address'.got = IF V!MayGet(p) THEN p ELSE V!Denied
      /\ address'.fresh <=> lists.at = edits
  BY <1>1, OpensIs
<1>3. ASSUME lists.at = edits, ~V!MayGet(p) PROVE V!OnlyByRole(p)
  <2>1. held[p].visibility = "private" /\ ~held[p].user
    BY <1>3 DEF V!MayGet
  <2>2. QED
    BY <2>1 DEF V!OnlyByRole
<1>4. V!OnlyByRole(p) => V!OnlyByRole(p)'
  BY <1>2 DEF V!OnlyByRole
<1>5. V!ListedOpens'
  <2>1. CASE V!MayGet(p)
    BY <1>2, <2>1 DEF V!ListedOpens
  <2>2. CASE ~V!MayGet(p) /\ lists.at = edits
    <3>1. V!OnlyByRole(address.asked)'
      BY <1>2, <1>3, <2>2 DEF V!OnlyByRole
    <3>2. QED
      BY <3>1 DEF V!ListedOpens
  <2>3. CASE lists.at # edits
    BY <1>2, <2>3 DEF V!ListedOpens
  <2>4. QED
    BY <2>1, <2>2, <2>3
<1>6. V!AddressReaches'
  BY <1>2 DEF V!AddressReaches
<1>7. QED
  BY <1>2, <1>5, <1>6 DEF ViewsInv

LEMMA AppKeeps == ASSUME ScreensAssumption, ViewsInv, V!AppViewer PROVE ViewsInv'
<1>1. PICK s \in Addresses : V!Opens("app", s, V!Found(s, {"dashboard", "html"}))
  BY DEF V!AppViewer
<1>2. /\ ListInv' /\ UNCHANGED <<held, member, lists, edits>>
      /\ address'.by = "app" /\ address'.asked = s /\ address'.got = V!Found(s, {"dashboard", "html"})
  BY <1>1, OpensIs
<1>3. LET h == V!Holders(s)
          g == address'.got
      IN /\ g # V!Denied => g \in h /\ V!Permitted(g)
         /\ V!Cardinality(h) = 1 /\ (\A p \in h : V!Permitted(p)) => g \in h
  BY <1>2, FoundIs
<1>4. V!AddressReaches'
  <2> DEFINE h == V!Holders(s)
             k == {p \in V!ThePages : held'[p].app # V!Unpublished /\ held'[p].slug = address'.asked}
  <2>1. k = h
    BY <1>2 DEF V!Holders
  <2>2. \A p : held'[p].app \in member'.apps <=> V!Permitted(p)
    BY <1>2 DEF V!Permitted
  <2> HIDE DEF h
  <2>3. /\ address'.got # V!Denied => address'.got \in k /\ held'[address'.got].app \in member'.apps
        /\ V!Cardinality(k) = 1 /\ (\A p \in k : held'[p].app \in member'.apps) => address'.got \in k
    BY <1>3, <2>1, <2>2 DEF h
  <2>4. QED
    BY <2>3 DEF V!AddressReaches, V!Holders, V!Permitted, V!ThePages, V!ToSet
<1>5. V!ListedOpens'
  BY <1>2 DEF V!ListedOpens
<1>6. QED
  BY <1>2, <1>4, <1>5 DEF ViewsInv

LEMMA OthersOpen ==
  ASSUME ViewsInv, V!DashboardBySlug \/ V!PublicApp \/ V!PublicDashboard PROVE ViewsInv'
<1>1. PICK by, what, got : by # "list" /\ by # "app" /\ V!Opens(by, what, got)
  BY DEF V!DashboardBySlug, V!PublicApp, V!PublicDashboard
<1>2. ListInv' /\ address'.by = by
  BY <1>1, OpensIs
<1>3. QED
  BY <1>1, <1>2 DEF ViewsInv, V!ListedOpens, V!AddressReaches

LEMMA ViewsStep == ASSUME ScreensAssumption, ViewsInv, [V!ViewNext]_(V!viewVars) PROVE ViewsInv'
<1>1. CASE UNCHANGED V!viewVars
  BY <1>1 DEF V!viewVars, ViewsInv, ListInv, V!ListedOpens, V!OnlyByRole, V!AddressReaches, V!Holders,
       V!Permitted, V!Shared, V!SharedWith
<1>2. QED
  BY <1>1, RowsKeep, LoadKeeps, OpenListedKeeps, AppKeeps, OthersOpen DEF V!ViewNext

LEMMA ViewsHold == ASSUME ScreensAssumption PROVE V!ViewSpec => [](V!ListedOpens /\ V!AddressReaches)
<1>1. ViewsInv => V!ListedOpens /\ V!AddressReaches
  BY DEF ViewsInv
<1>2. ViewsInv /\ [V!ViewNext]_(V!viewVars) => ViewsInv'
  BY ViewsStep
<1>3. QED
  BY <1>1, <1>2, ViewsBegin, PTL DEF V!ViewSpec

(***************************************************************************)
(* The page of a table.                                                    *)
(***************************************************************************)

Looks == [page : Nat, by : {"created_at", "key"}, up : BOOLEAN, only : SUBSET Records]

(* Requests of a page whose view is steady are about that view.              *)
OnTheWay ==
  /\ \E S : fetches \in Seq(S)
  /\ \E S : writes \in Seq(S)
  /\ "for" \in DOMAIN shown
  /\ steady => /\ \A n \in DOMAIN fetches : fetches[n].for = view
               /\ \A n \in DOMAIN writes : writes[n].at = view
AskInv == view \in Looks /\ OnTheWay /\ P!ShownIsAsked

(* The form has what it was opened on.                                       *)
FormInv ==
  /\ DOMAIN form = {"id", "col", "was", "v", "saving"}
  /\ \/ form = P!NoForm
     \/ /\ form.col \in P!FormColumns /\ form.was \in P!Allowed(form.col)
        /\ form.v = P!Received(form.was)

LEMMA LongerSeq ==
  ASSUME NEW S, NEW s \in Seq(S), NEW a
  PROVE  /\ Append(s, a) \in Seq(S \union {a}) /\ Append(s, a) # <<>>
         /\ DOMAIN Append(s, a) = DOMAIN s \union {Len(s) + 1}
         /\ \A n \in DOMAIN Append(s, a) : Append(s, a)[n] = IF n = Len(s) + 1 THEN a ELSE s[n]
<1>1. s \in Seq(S \union {a}) /\ a \in S \union {a}
  BY SMT
<1>2. /\ Append(s, a) \in Seq(S \union {a}) /\ Len(Append(s, a)) = Len(s) + 1
      /\ \A i \in 1 .. Len(s) : Append(s, a)[i] = s[i]
      /\ Append(s, a)[Len(s) + 1] = a
  BY <1>1, AppendProperties
<1>3. Len(s) \in Nat /\ DOMAIN s = 1 .. Len(s) /\ DOMAIN Append(s, a) = 1 .. Len(s) + 1
  BY <1>1, <1>2
<1>4. DOMAIN Append(s, a) = DOMAIN s \union {Len(s) + 1}
  BY <1>3
<1>5. Append(s, a) # <<>>
  BY <1>2, <1>3
<1>6. \A n \in DOMAIN Append(s, a) : Append(s, a)[n] = IF n = Len(s) + 1 THEN a ELSE s[n]
  BY <1>2, <1>3
<1>7. QED
  BY <1>2, <1>4, <1>5, <1>6

LEMMA SetSeq ==
  ASSUME NEW S, NEW s \in Seq(S), NEW m \in DOMAIN s, NEW a
  PROVE  /\ [s EXCEPT ![m] = a] \in Seq(S \union {a}) /\ [s EXCEPT ![m] = a] # <<>>
         /\ DOMAIN [s EXCEPT ![m] = a] = DOMAIN s
<1>1. s \in [1 .. Len(s) -> S] /\ Len(s) \in Nat /\ DOMAIN s = 1 .. Len(s)
  OBVIOUS
<1>2. [s EXCEPT ![m] = a] \in [1 .. Len(s) -> S \union {a}]
  BY <1>1
<1>3. [s EXCEPT ![m] = a] \in Seq(S \union {a})
  BY <1>1, <1>2, SeqDef
<1>4. DOMAIN [s EXCEPT ![m] = a] = DOMAIN s
  OBVIOUS
<1>5. DOMAIN <<>> = {}
  OBVIOUS
<1>6. QED
  BY <1>3, <1>4, <1>5

(* What is left of a sequence is of it.                                      *)
LEMMA LeftOf ==
  ASSUME NEW S, NEW s \in Seq(S), NEW m \in DOMAIN s
  PROVE  /\ P!Without(s, m) \in Seq(S)
         /\ \A n \in DOMAIN P!Without(s, m) : \E k \in DOMAIN s : P!Without(s, m)[n] = s[k]
<1>1. Len(s) \in Nat /\ DOMAIN s = 1 .. Len(s) /\ m \in 1 .. Len(s)
  OBVIOUS
<1> DEFINE a == SubSeq(s, 1, m - 1)
           b == SubSeq(s, m + 1, Len(s))
<1>2. a \in Seq(S) /\ Len(a) = m - 1 /\ \A i \in 1 .. m - 1 : a[i] = s[i]
  BY <1>1
<1>3. b \in Seq(S) /\ Len(b) = Len(s) - m /\ \A i \in 1 .. Len(s) - m : b[i] = s[m + i]
  BY <1>1
<1> HIDE DEF a, b
<1>4. /\ a \o b \in Seq(S) /\ Len(a \o b) = Len(s) - 1
      /\ \A i \in 1 .. Len(s) - 1 : (a \o b)[i] = IF i <= m - 1 THEN a[i] ELSE b[i - (m - 1)]
  <2>1. /\ a \o b \in Seq(S) /\ Len(a \o b) = Len(a) + Len(b)
        /\ \A i \in 1 .. Len(a) + Len(b) : (a \o b)[i] = IF i <= Len(a) THEN a[i] ELSE b[i - Len(a)]
    BY <1>2, <1>3, ConcatProperties
  <2>2. Len(a) + Len(b) = Len(s) - 1
    BY <1>1, <1>2, <1>3
  <2>3. QED
    BY <1>2, <2>1, <2>2
<1>5. \A n \in 1 .. Len(s) - 1 : \E k \in 1 .. Len(s) : (a \o b)[n] = s[k]
  <2> SUFFICES ASSUME NEW n \in 1 .. Len(s) - 1 PROVE \E k \in 1 .. Len(s) : (a \o b)[n] = s[k]
    OBVIOUS
  <2>1. CASE n <= m - 1
    <3>1. (a \o b)[n] = s[n]
      BY <1>1, <1>2, <1>4, <2>1
    <3>2. QED
      BY <1>1, <3>1
  <2>2. CASE ~(n <= m - 1)
    <3>1. n - (m - 1) \in 1 .. Len(s) - m
      BY <1>1, <2>2
    <3>2. (a \o b)[n] = b[n - (m - 1)]
      BY <1>1, <1>4, <2>2
    <3>3. b[n - (m - 1)] = s[n + 1]
      <4>1. m + (n - (m - 1)) = n + 1
        BY <1>1
      <4>2. QED
        BY <1>3, <3>1, <4>1
    <3>4. n + 1 \in 1 .. Len(s)
      BY <1>1
    <3>5. QED
      BY <3>2, <3>3, <3>4
  <2>3. QED
    BY <2>1, <2>2
<1>6. DOMAIN (a \o b) = 1 .. Len(s) - 1
  BY <1>4
<1>7. P!Without(s, m) = a \o b
  BY DEF P!Without, a, b
<1>8. QED
  BY <1>1, <1>4, <1>5, <1>6, <1>7

LEMMA PageBegins == P!PageInit => AskInv /\ FormInv /\ P!SelectedShown
<1> SUFFICES ASSUME P!PageInit PROVE AskInv /\ FormInv /\ P!SelectedShown
  OBVIOUS
<1>1. /\ view = P!FirstView /\ selected = {} /\ form = P!NoForm
      /\ shown = [rows |-> <<>>, total |-> 0, for |-> P!FirstView]
      /\ fetches = <<P!Asked(P!FirstView)>> /\ writes = <<>>
  BY DEF P!PageInit
<1>2. view \in Looks
  BY <1>1 DEF P!FirstView, Looks
<1>3. "for" \in DOMAIN shown
  BY <1>1
<1>4. fetches \in Seq({P!Asked(P!FirstView)}) /\ DOMAIN fetches = {1} /\ fetches[1] = P!Asked(P!FirstView)
  BY <1>1
<1>5. writes \in Seq({}) /\ DOMAIN writes = {}
  BY <1>1
<1>6. P!Asked(P!FirstView).for = view
  BY <1>1 DEF P!Asked
<1>7. OnTheWay
  BY <1>3, <1>4, <1>5, <1>6 DEF OnTheWay
<1>8. P!ShownIsAsked
  BY <1>4 DEF P!ShownIsAsked
<1>9. FormInv
  BY <1>1 DEF FormInv, P!NoForm
<1>10. QED
  BY <1>1, <1>2, <1>7, <1>8, <1>9 DEF AskInv, P!SelectedShown

(* One more fetch of the view, or the first of another one.                  *)
LEMMA FetchKeeps ==
  ASSUME AskInv, NEW v, v \in Looks, fetches' = Append(fetches, P!Asked(v)), view' = v,
         steady' => steady /\ (v = view \/ (fetches = <<>> /\ writes = <<>>)),
         UNCHANGED <<shown, writes>>
  PROVE  AskInv'
<1>1. PICK S : fetches \in Seq(S)
  BY DEF AskInv, OnTheWay
<1>2. P!Asked(v).for = v
  BY DEF P!Asked
<1>3. /\ fetches' \in Seq(S \union {P!Asked(v)}) /\ fetches' # <<>>
      /\ DOMAIN fetches' = DOMAIN fetches \union {Len(fetches) + 1}
      /\ \A n \in DOMAIN fetches' : fetches'[n] = IF n = Len(fetches) + 1 THEN P!Asked(v) ELSE fetches[n]
  BY <1>1, LongerSeq
<1>4. ASSUME steady', NEW n \in DOMAIN fetches' PROVE fetches'[n].for = v
  <2>1. CASE n = Len(fetches) + 1
    BY <1>2, <1>3, <2>1
  <2>2. CASE n # Len(fetches) + 1
    <3>1. n \in DOMAIN fetches /\ fetches'[n] = fetches[n]
      BY <1>3, <2>2
    <3>2. fetches # <<>>
      BY <3>1
    <3>3. v = view
      BY <1>4, <3>2
    <3>4. QED
      BY <1>4, <3>1, <3>3 DEF AskInv, OnTheWay
  <2>3. QED
    BY <2>1, <2>2
<1>5. ASSUME steady', NEW n \in DOMAIN writes PROVE writes[n].at = v
  <2>1. writes # <<>>
    BY <1>5
  <2>2. QED
    BY <1>5, <2>1 DEF AskInv, OnTheWay
<1>6. OnTheWay'
  BY <1>3, <1>4, <1>5 DEF AskInv, OnTheWay
<1>7. P!ShownIsAsked'
  BY <1>3 DEF P!ShownIsAsked
<1>8. QED
  BY <1>6, <1>7 DEF AskInv

LEMMA LookKeeps == ASSUME AskInv, NEW v \in Looks, P!Look(v) PROVE AskInv'
<1>1. view' = v /\ UNCHANGED <<shown, writes>>
  BY DEF P!Look
<1>2. CASE v = view
  <2>1. UNCHANGED <<view, shown, fetches, writes, steady>>
    BY <1>2 DEF P!Look
  <2>2. QED
    BY <2>1 DEF AskInv, OnTheWay, P!ShownIsAsked
<1>3. CASE v # view
  <2>1. fetches' = Append(fetches, P!Asked(v)) /\ (steady' => steady /\ fetches = <<>> /\ writes = <<>>)
    BY <1>3 DEF P!Look, P!FetchData
  <2>2. QED
    BY <1>1, <2>1, FetchKeeps
<1>4. QED
  BY <1>2, <1>3

LEMMA ClicksKeep ==
  ASSUME AskInv,
         P!ToggleSort \/ P!UpdateFilter \/ P!RemoveFilter \/ P!Next_ \/ P!Previous \/ P!Refresh
  PROVE  AskInv'
<1>1. view \in Looks
  BY DEF AskInv
<1>2. CASE P!ToggleSort
  <2>1. PICK col \in {"created_at", "key"} :
          P!Look([view EXCEPT !.page = 0, !.by = col, !.up = IF view.by = col THEN ~view.up ELSE TRUE])
    BY <1>2 DEF P!ToggleSort
  <2>2. (IF view.by = col THEN ~view.up ELSE TRUE) \in BOOLEAN
    BY <1>1 DEF Looks
  <2>3. [view EXCEPT !.page = 0, !.by = col, !.up = IF view.by = col THEN ~view.up ELSE TRUE] \in Looks
    BY <1>1, <2>2 DEF Looks
  <2>4. QED
    BY <2>1, <2>3, LookKeeps
<1>3. CASE P!UpdateFilter
  <2>1. PICK k \in Records : P!Look([view EXCEPT !.only = {k}])
    BY <1>3 DEF P!UpdateFilter
  <2>2. [view EXCEPT !.only = {k}] \in Looks
    BY <1>1 DEF Looks
  <2>3. QED
    BY <2>1, <2>2, LookKeeps
<1>4. CASE P!RemoveFilter
  <2>1. [view EXCEPT !.only = {}, !.page = 0] \in Looks
    BY <1>1 DEF Looks
  <2>2. QED
    BY <1>4, <2>1, LookKeeps DEF P!RemoveFilter
<1>5. CASE P!Next_
  <2>1. [view EXCEPT !.page = view.page + 1] \in Looks
    BY <1>1 DEF Looks
  <2>2. P!Look([view EXCEPT !.page = view.page + 1])
    BY <1>5 DEF P!Next_
  <2>3. QED
    BY <2>1, <2>2, LookKeeps
<1>6. CASE P!Previous
  <2>1. view.page > 0 /\ P!Look([view EXCEPT !.page = view.page - 1])
    BY <1>6 DEF P!Previous
  <2>2. [view EXCEPT !.page = view.page - 1] \in Looks
    BY <1>1, <2>1 DEF Looks
  <2>3. QED
    BY <2>1, <2>2, LookKeeps
<1>7. CASE P!Refresh
  <2>1. PICK v : v = view
    OBVIOUS
  <2>2. fetches' = Append(fetches, P!Asked(v)) /\ view' = v /\ UNCHANGED <<shown, writes, steady>>
    BY <1>7, <2>1 DEF P!Refresh, P!FetchData
  <2>3. v \in Looks /\ (steady' => steady /\ (v = view \/ (fetches = <<>> /\ writes = <<>>)))
    BY <1>1, <2>1, <2>2
  <2>4. QED
    BY <2>2, <2>3, FetchKeeps
<1>8. QED
  BY <1>2, <1>3, <1>4, <1>5, <1>6, <1>7

LEMMA ApplyKeeps == ASSUME AskInv, P!ApplyFilters PROVE AskInv'
<1>1. /\ view' = [view EXCEPT !.page = 0]
      /\ fetches' = IF view.page = 0 THEN Append(fetches, P!Asked(view))
                    ELSE fetches \o <<P!Asked(view), P!Asked(view')>>
      /\ steady' = (steady /\ view.page = 0)
      /\ UNCHANGED <<shown, writes>>
  BY DEF P!ApplyFilters
<1>2. view \in Looks /\ view' \in Looks
  BY <1>1 DEF AskInv, Looks
<1>3. CASE view.page = 0
  <2>1. PICK v : v = view
    OBVIOUS
  <2>2. view' = v
    BY <1>1, <1>2, <1>3, <2>1 DEF Looks
  <2>3. fetches' = Append(fetches, P!Asked(v)) /\ UNCHANGED <<shown, writes>>
    BY <1>1, <1>3, <2>1
  <2>4. v \in Looks /\ (steady' => steady /\ (v = view \/ (fetches = <<>> /\ writes = <<>>)))
    BY <1>1, <1>2, <2>1
  <2>5. QED
    BY <2>2, <2>3, <2>4, FetchKeeps
<1>4. CASE view.page # 0
  <2>1. PICK S : fetches \in Seq(S)
    BY DEF AskInv, OnTheWay
  <2> DEFINE two == <<P!Asked(view), P!Asked(view')>>
             T == S \union {P!Asked(view), P!Asked(view')}
  <2>2. two \in Seq(T) /\ Len(two) = 2
    OBVIOUS
  <2>3. fetches \in Seq(T)
    BY <2>1
  <2> HIDE DEF two, T
  <2>4. fetches \o two \in Seq(T) /\ Len(fetches \o two) = Len(fetches) + 2 /\ Len(fetches) \in Nat
    <3>1. fetches \o two \in Seq(T) /\ Len(fetches \o two) = Len(fetches) + Len(two)
      BY <2>2, <2>3, ConcatProperties
    <3>2. Len(fetches) \in Nat
      BY <2>1
    <3>3. QED
      BY <2>2, <3>1, <3>2
  <2>5. fetches' = fetches \o two
    BY <1>1, <1>4 DEF two
  <2>6. fetches' # <<>>
    BY <2>4, <2>5
  <2>7. ~steady'
    BY <1>1, <1>4
  <2>8. OnTheWay'
    BY <1>1, <2>4, <2>5, <2>7 DEF AskInv, OnTheWay
  <2>9. QED
    BY <1>2, <2>6, <2>8 DEF AskInv, P!ShownIsAsked
<1>5. QED
  BY <1>3, <1>4

LEMMA AnswerKeeps == ASSUME AskInv, P!Query PROVE AskInv'
<1>1. PICK n \in DOMAIN fetches : \E a \in P!Answers(fetches[n]) : fetches' = [fetches EXCEPT ![n] = a]
  BY DEF P!Query
<1>2. PICK a \in P!Answers(fetches[n]) : fetches' = [fetches EXCEPT ![n] = a]
  BY <1>1
<1>3. UNCHANGED <<view, shown, writes, steady>>
  BY DEF P!Query
<1>4. a.for = fetches[n].for
  BY DEF P!Answers
<1>5. PICK S : fetches \in Seq(S)
  BY DEF AskInv, OnTheWay
<1>6. fetches' \in Seq(S \union {a}) /\ fetches' # <<>> /\ DOMAIN fetches' = DOMAIN fetches
  BY <1>2, <1>5, SetSeq
<1>7. ASSUME NEW m \in DOMAIN fetches' PROVE fetches'[m].for = fetches[m].for
  BY <1>2, <1>4, <1>6
<1>8. OnTheWay'
  BY <1>3, <1>6, <1>7 DEF AskInv, OnTheWay
<1>9. QED
  BY <1>3, <1>6, <1>8 DEF AskInv, P!ShownIsAsked

(* An answer that arrives for a steady page is about its view.               *)
LEMMA ArriveKeeps == ASSUME AskInv, P!Arrive PROVE AskInv'
<1>1. PICK n \in DOMAIN fetches :
        /\ shown' = [x \in DOMAIN shown |-> fetches[n][x]]
        /\ fetches' = P!Without(fetches, n)
        /\ steady' = (steady \/ (fetches' = <<>> /\ writes = <<>> /\ fetches[n].for = view))
  BY DEF P!Arrive
<1>2. UNCHANGED <<view, writes>>
  BY DEF P!Arrive
<1>3. PICK S : fetches \in Seq(S)
  BY DEF AskInv, OnTheWay
<1>4. /\ fetches' \in Seq(S)
      /\ \A m \in DOMAIN fetches' : \E k \in DOMAIN fetches : fetches'[m] = fetches[k]
  BY <1>1, <1>3, LeftOf
<1>5. DOMAIN shown' = DOMAIN shown /\ shown'.for = fetches[n].for
  BY <1>1 DEF AskInv, OnTheWay
<1>6. CASE steady
  <2>1. \A k \in DOMAIN fetches : fetches[k].for = view
    BY <1>6 DEF AskInv, OnTheWay
  <2>2. \A m \in DOMAIN fetches' : fetches'[m].for = view
    BY <1>4, <2>1
  <2>3. OnTheWay'
    BY <1>2, <1>4, <1>5, <1>6, <2>2 DEF AskInv, OnTheWay
  <2>4. QED
    BY <1>2, <1>5, <2>1, <2>3 DEF AskInv, P!ShownIsAsked
<1>7. CASE ~steady /\ steady'
  <2>1. fetches' = <<>> /\ writes = <<>> /\ fetches[n].for = view
    BY <1>1, <1>7
  <2>2. DOMAIN fetches' = {} /\ DOMAIN writes = {}
    BY <2>1
  <2>3. OnTheWay'
    BY <1>2, <1>4, <1>5, <2>2 DEF AskInv, OnTheWay
  <2>4. QED
    BY <1>2, <1>5, <2>1, <2>3 DEF AskInv, P!ShownIsAsked
<1>8. CASE ~steady /\ ~steady'
  <2>1. OnTheWay'
    BY <1>2, <1>4, <1>5, <1>8 DEF AskInv, OnTheWay
  <2>2. QED
    BY <1>2, <1>8, <2>1 DEF AskInv, P!ShownIsAsked
<1>9. QED
  BY <1>6, <1>7, <1>8

(* A write carries the view of its render, which on a steady page is still   *)
(* the page's.                                                               *)
LEMMA WriteKeeps ==
  ASSUME AskInv, P!DeleteSelected \/ P!DuplicateRecord \/ P!HandleSubmit PROVE AskInv'
<1>1. PICK op, ws : P!Write(P!W(op, ws))
  BY DEF P!DeleteSelected, P!DuplicateRecord, P!HandleSubmit
<1>2. writes' = Append(writes, P!W(op, ws)) /\ UNCHANGED <<view, shown, fetches, steady>>
  BY <1>1 DEF P!Write
<1>3. P!W(op, ws).at = view
  BY DEF P!W
<1>4. PICK S : writes \in Seq(S)
  BY DEF AskInv, OnTheWay
<1>5. /\ writes' \in Seq(S \union {P!W(op, ws)}) /\ writes' # <<>>
      /\ DOMAIN writes' = DOMAIN writes \union {Len(writes) + 1}
      /\ \A n \in DOMAIN writes' : writes'[n] = IF n = Len(writes) + 1 THEN P!W(op, ws) ELSE writes[n]
  BY <1>2, <1>4, LongerSeq
<1>6. ASSUME steady, NEW n \in DOMAIN writes' PROVE writes'[n].at = view
  <2>1. \A m \in DOMAIN writes : writes[m].at = view
    BY <1>6 DEF AskInv, OnTheWay
  <2>2. QED
    BY <1>3, <1>5, <2>1
<1>7. OnTheWay'
  BY <1>2, <1>5, <1>6 DEF AskInv, OnTheWay
<1>8. QED
  BY <1>2, <1>5, <1>7 DEF AskInv, P!ShownIsAsked

LEMMA WroteKeeps == ASSUME AskInv, P!Wrote PROVE AskInv'
<1>1. PICK n \in DOMAIN writes :
        writes' = P!Without(writes, n) /\ fetches' = Append(fetches, P!Asked(writes[n].at))
  BY DEF P!Wrote, P!FetchData
<1>2. UNCHANGED <<view, shown, steady>>
  BY DEF P!Wrote
<1>3. PICK S : writes \in Seq(S)
  BY DEF AskInv, OnTheWay
<1>4. /\ writes' \in Seq(S)
      /\ \A m \in DOMAIN writes' : \E k \in DOMAIN writes : writes'[m] = writes[k]
  BY <1>1, <1>3, LeftOf
<1> DEFINE a == P!Asked(writes[n].at)
<1>5. a.for = writes[n].at
  BY DEF P!Asked
<1> HIDE DEF a
<1>6. PICK T : fetches \in Seq(T)
  BY DEF AskInv, OnTheWay
<1>7. /\ fetches' \in Seq(T \union {a}) /\ fetches' # <<>>
      /\ DOMAIN fetches' = DOMAIN fetches \union {Len(fetches) + 1}
      /\ \A m \in DOMAIN fetches' : fetches'[m] = IF m = Len(fetches) + 1 THEN a ELSE fetches[m]
  <2>1. fetches' = Append(fetches, a)
    BY <1>1 DEF a
  <2>2. QED
    BY <1>6, <2>1, LongerSeq
<1>8. ASSUME steady
      PROVE  /\ \A m \in DOMAIN fetches' : fetches'[m].for = view
             /\ \A m \in DOMAIN writes' : writes'[m].at = view
  <2>1. /\ \A m \in DOMAIN fetches : fetches[m].for = view
        /\ \A m \in DOMAIN writes : writes[m].at = view
    BY <1>8 DEF AskInv, OnTheWay
  <2>2. QED
    BY <1>4, <1>5, <1>7, <2>1
<1>9. OnTheWay'
  BY <1>2, <1>4, <1>7, <1>8 DEF AskInv, OnTheWay
<1>10. QED
  BY <1>2, <1>7, <1>9 DEF AskInv, P!ShownIsAsked

LEMMA AskStep == ASSUME AskInv, [P!PageNext]_(P!pageVars) PROVE AskInv'
<1>1. CASE UNCHANGED <<view, shown, fetches, writes, steady>>
  BY <1>1 DEF AskInv, OnTheWay, P!ShownIsAsked
<1>2. CASE UNCHANGED P!pageVars
  BY <1>1, <1>2 DEF P!pageVars
<1>3. CASE P!Others
  BY <1>1, <1>3 DEF P!Others
<1>4. CASE P!ToggleSelect
  BY <1>1, <1>4 DEF P!ToggleSelect
<1>5. CASE P!SelectAll
  BY <1>1, <1>5 DEF P!SelectAll
<1>6. CASE P!OpenForm
  BY <1>1, <1>6 DEF P!OpenForm
<1>7. CASE P!CloseForm
  BY <1>1, <1>7 DEF P!CloseForm
<1>8. QED
  BY <1>2, <1>3, <1>4, <1>5, <1>6, <1>7, ClicksKeep, ApplyKeeps, AnswerKeeps, ArriveKeeps, WriteKeeps,
     WroteKeeps DEF P!PageNext

LEMMA SelectStep == ASSUME P!SelectedShown, [P!PageNext]_(P!pageVars) PROVE P!SelectedShown'
<1>1. CASE UNCHANGED <<shown, selected>>
  BY <1>1 DEF P!SelectedShown, P!IdsShown
<1>2. CASE P!Arrive
  BY <1>2 DEF P!Arrive, P!SelectedShown
<1>3. CASE P!ToggleSelect
  <2>1. shown' = shown /\ selected' \subseteq selected \union P!IdsShown
    BY <1>3 DEF P!ToggleSelect
  <2>2. QED
    BY <2>1 DEF P!SelectedShown, P!IdsShown
<1>4. CASE P!SelectAll
  <2>1. shown' = shown /\ selected' \subseteq P!IdsShown
    BY <1>4 DEF P!SelectAll
  <2>2. QED
    BY <2>1 DEF P!SelectedShown, P!IdsShown
<1>5. CASE P!Query \/ P!Others \/ P!ApplyFilters \/ P!Refresh \/ P!OpenForm \/ P!CloseForm \/ P!Wrote
  BY <1>1, <1>5 DEF P!Query, P!Others, P!ApplyFilters, P!Refresh, P!OpenForm, P!CloseForm, P!Wrote
<1>6. CASE P!ToggleSort \/ P!UpdateFilter \/ P!RemoveFilter \/ P!Next_ \/ P!Previous
  BY <1>1, <1>6 DEF P!ToggleSort, P!UpdateFilter, P!RemoveFilter, P!Next_, P!Previous, P!Look
<1>7. CASE P!DeleteSelected \/ P!DuplicateRecord \/ P!HandleSubmit
  BY <1>1, <1>7 DEF P!DeleteSelected, P!DuplicateRecord, P!HandleSubmit, P!Write
<1>8. CASE UNCHANGED P!pageVars
  BY <1>1, <1>8 DEF P!pageVars
<1>9. QED
  BY <1>2, <1>3, <1>4, <1>5, <1>6, <1>7, <1>8 DEF P!PageNext

LEMMA FormStep == ASSUME FormInv, [P!PageNext]_(P!pageVars) PROVE FormInv'
<1>1. CASE UNCHANGED form
  BY <1>1 DEF FormInv
<1>2. CASE form' = P!NoForm
  BY <1>2 DEF FormInv, P!NoForm
<1>3. CASE P!OpenForm
  <2>1. PICK i \in P!IdsShown, col \in P!FormColumns : \E was \in P!Allowed(col) :
          form' = [id |-> i, col |-> col, was |-> was, v |-> P!Received(was), saving |-> FALSE]
    BY <1>3 DEF P!OpenForm
  <2>2. PICK was \in P!Allowed(col) :
          form' = [id |-> i, col |-> col, was |-> was, v |-> P!Received(was), saving |-> FALSE]
    BY <2>1
  <2>3. QED
    BY <2>2 DEF FormInv
<1>4. CASE P!HandleSubmit
  <2>1. form # P!NoForm /\ form' = [form EXCEPT !.saving = TRUE]
    BY <1>4 DEF P!HandleSubmit
  <2>2. /\ DOMAIN form' = DOMAIN form /\ form'.col = form.col /\ form'.was = form.was
        /\ form'.v = form.v
    BY <2>1 DEF FormInv
  <2>3. QED
    BY <2>1, <2>2 DEF FormInv
<1>5. CASE P!CloseForm
  BY <1>2, <1>5 DEF P!CloseForm
<1>6. CASE P!Wrote
  BY <1>1, <1>2, <1>6 DEF P!Wrote
<1>7. CASE P!Query \/ P!Others \/ P!Arrive \/ P!ApplyFilters \/ P!Refresh \/ P!ToggleSelect \/ P!SelectAll
  BY <1>1, <1>7 DEF P!Query, P!Others, P!Arrive, P!ApplyFilters, P!Refresh, P!ToggleSelect, P!SelectAll
<1>8. CASE P!ToggleSort \/ P!UpdateFilter \/ P!RemoveFilter \/ P!Next_ \/ P!Previous
  BY <1>1, <1>8 DEF P!ToggleSort, P!UpdateFilter, P!RemoveFilter, P!Next_, P!Previous, P!Look
<1>9. CASE P!DeleteSelected \/ P!DuplicateRecord
  BY <1>1, <1>9 DEF P!DeleteSelected, P!DuplicateRecord
<1>10. CASE UNCHANGED P!pageVars
  BY <1>1, <1>10 DEF P!pageVars
<1>11. QED
  BY <1>3, <1>4, <1>5, <1>6, <1>7, <1>8, <1>9, <1>10 DEF P!PageNext

(* A value that is shown as text is converted back to itself.                *)
LEMMA FormKeeps == ASSUME ScreensAssumption, FormInv PROVE P!UntouchedKept
<1> SUFFICES ASSUME form.was \notin {"empty", "huge", "NaN", "us"}, form.col.kind # "json"
             PROVE  P!Convert(form.col, form.v) = form.was
  BY DEF P!UntouchedKept
<1>1. CASE form = P!NoForm
  <2>1. form.col.kind = "text" /\ form.col.nullable = FALSE /\ form.v = "x" /\ form.was = "x"
    BY <1>1 DEF P!NoForm
  <2>2. QED
    BY <2>1 DEF P!Convert
<1>2. CASE /\ form.col \in P!FormColumns /\ form.was \in P!Allowed(form.col)
           /\ form.v = P!Received(form.was)
  <2>1. form.col.kind \in {"text", "integer", "bigint", "float", "boolean", "timestamp"}
    BY <1>2 DEF ScreensAssumption, P!PageAssumption, P!FormColumns
  <2>2. \/ form.was = "null" /\ form.col.nullable
        \/ form.was \in P!Values[form.col.kind]
    BY <1>2 DEF P!Allowed
  <2>3. CASE form.was = "null"
    <3>1. form.was \notin P!Values[form.col.kind]
      BY <2>1, <2>3 DEF P!Values
    <3>2. form.col.nullable /\ form.v = "empty"
      BY <1>2, <2>2, <2>3, <3>1 DEF P!Received
    <3>3. QED
      BY <2>3, <3>2 DEF P!Convert
  <2>4. CASE form.was # "null"
    <3>1. form.was \in P!Values[form.col.kind] /\ form.v = form.was
      BY <1>2, <2>2, <2>4 DEF P!Received
    <3>2. CASE form.col.kind = "text"
      BY <3>1, <3>2 DEF P!Convert, P!Values
    <3>3. CASE form.col.kind = "integer"
      BY <3>1, <3>3 DEF P!Convert, P!Values
    <3>4. CASE form.col.kind = "boolean"
      BY <3>1, <3>4 DEF P!Convert, P!Values
    <3>5. CASE form.col.kind = "bigint"
      BY <3>1, <3>5 DEF P!Convert, P!Values
    <3>6. CASE form.col.kind = "float"
      BY <3>1, <3>6 DEF P!Convert, P!Values
    <3>7. CASE form.col.kind = "timestamp"
      BY <3>1, <3>7 DEF P!Convert, P!Values
    <3>8. QED
      BY <2>1, <3>2, <3>3, <3>4, <3>5, <3>6, <3>7
  <2>5. QED
    BY <2>3, <2>4
<1>3. QED
  BY <1>1, <1>2 DEF FormInv

LEMMA PageHolds ==
  ASSUME ScreensAssumption
  PROVE  P!PageSpec => [](P!SelectedShown /\ P!ShownIsAsked /\ P!UntouchedKept)
<1>1. AskInv /\ FormInv => P!ShownIsAsked /\ P!UntouchedKept
  BY FormKeeps DEF AskInv
<1>2. AskInv /\ FormInv /\ P!SelectedShown /\ [P!PageNext]_(P!pageVars)
      => AskInv' /\ FormInv' /\ P!SelectedShown'
  BY AskStep, FormStep, SelectStep
<1>3. QED
  BY <1>1, <1>2, PageBegins, PTL DEF P!PageSpec

(***************************************************************************)
(* A dashboard's widget.                                                   *)
(***************************************************************************)

(* A view that was loaded with the rows there are shows what it would now.   *)
ScreenInv ==
  /\ \E S : rows \in Seq(S)
  /\ DOMAIN screen = W!Views
  /\ \A v \in W!Views : screen[v] # W!Unloaded =>
       /\ screen[v] = [shows |-> screen[v].shows, of |-> screen[v].of]
       /\ screen[v].of \in Nat /\ screen[v].of <= Len(rows)
       /\ screen[v].of = Len(rows) => screen[v].shows = W!Shown(v)

LEMMA ScreenBegins == W!WidgetInit => ScreenInv
<1> SUFFICES ASSUME W!WidgetInit PROVE ScreenInv
  OBVIOUS
<1>1. rows \in {<<>>, <<W!NaN>>} /\ screen = [v \in W!Views |-> W!Unloaded]
  BY DEF W!WidgetInit
<1>2. <<>> \in Seq({W!NaN}) /\ <<W!NaN>> \in Seq({W!NaN})
  OBVIOUS
<1>3. \E S : rows \in Seq(S)
  BY <1>1, <1>2
<1>4. QED
  BY <1>1, <1>3 DEF ScreenInv

LEMMA InsertKeepsScreen == ASSUME ScreenInv, W!InsertRow PROVE ScreenInv'
<1>1. PICK x : rows' = Append(rows, x) /\ UNCHANGED <<widget, screen>>
  BY DEF W!InsertRow
<1>2. PICK S : rows \in Seq(S)
  BY DEF ScreenInv
<1>3. rows' \in Seq(S \union {x}) /\ Len(rows') = Len(rows) + 1 /\ Len(rows) \in Nat
  <2>1. rows \in Seq(S \union {x}) /\ x \in S \union {x}
    BY <1>2
  <2>2. rows' \in Seq(S \union {x}) /\ Len(rows') = Len(rows) + 1
    BY <1>1, <2>1, AppendProperties
  <2>3. QED
    BY <1>2, <2>2
<1>4. ASSUME NEW v \in W!Views, screen[v] # W!Unloaded
      PROVE  /\ screen[v] = [shows |-> screen[v].shows, of |-> screen[v].of]
             /\ screen[v].of \in Nat /\ screen[v].of < Len(rows')
  BY <1>3, <1>4 DEF ScreenInv
<1>5. ASSUME NEW v \in W!Views, screen'[v] # W!Unloaded
      PROVE  /\ screen'[v] = [shows |-> screen'[v].shows, of |-> screen'[v].of]
             /\ screen'[v].of \in Nat /\ screen'[v].of <= Len(rows') /\ screen'[v].of # Len(rows')
  BY <1>1, <1>3, <1>4, <1>5
<1>6. DOMAIN screen' = W!Views
  BY <1>1 DEF ScreenInv
<1>7. QED
  BY <1>3, <1>5, <1>6 DEF ScreenInv

LEMMA LoadKeepsScreen == ASSUME ScreenInv, NEW w \in W!Views, W!LoadWidgets(w) PROVE ScreenInv'
<1>1. screen' = [screen EXCEPT ![w] = [shows |-> W!Shown(w), of |-> Len(rows)]] /\ UNCHANGED <<rows, widget>>
  BY DEF W!LoadWidgets
<1>2. \A v : W!Shown(v)' = W!Shown(v)
  BY <1>1 DEF W!Shown
<1>3. DOMAIN screen' = W!Views /\ Len(rows) \in Nat
  BY <1>1 DEF ScreenInv
<1>4. ASSUME NEW v \in W!Views, screen'[v] # W!Unloaded
      PROVE  /\ screen'[v] = [shows |-> screen'[v].shows, of |-> screen'[v].of]
             /\ screen'[v].of \in Nat /\ screen'[v].of <= Len(rows)
             /\ screen'[v].of = Len(rows) => screen'[v].shows = W!Shown(v)
  <2>1. CASE v = w
    <3>1. screen'[v] = [shows |-> W!Shown(w), of |-> Len(rows)]
      BY <1>1, <2>1 DEF ScreenInv
    <3>2. QED
      BY <1>3, <2>1, <3>1
  <2>2. CASE v # w
    <3>1. screen'[v] = screen[v]
      BY <1>1, <2>2
    <3>2. QED
      BY <1>4, <3>1 DEF ScreenInv
  <2>3. QED
    BY <2>1, <2>2
<1>5. QED
  BY <1>1, <1>2, <1>3, <1>4 DEF ScreenInv

LEMMA ScreenStep == ASSUME ScreenInv, [W!WidgetNext]_(W!widgetVars) PROVE ScreenInv'
<1>1. CASE UNCHANGED W!widgetVars
  <2>1. UNCHANGED <<rows, widget, screen>>
    BY <1>1 DEF W!widgetVars
  <2>2. \A v : W!Shown(v)' = W!Shown(v)
    BY <2>1 DEF W!Shown
  <2>3. QED
    BY <2>1, <2>2 DEF ScreenInv
<1>2. QED
  BY <1>1, InsertKeepsScreen, LoadKeepsScreen DEF W!WidgetNext

(* The three views of the organization draw alike.                           *)
LEMMA DrawnAlike ==
  ASSUME widget.type # "live", NEW v \in W!Views, v # "public"
  PROVE  W!Shown(v) = W!Draws(widget, W!ResolveWidgetData(widget, rows))
<1>1. v = "editor" \/ v = "app" \/ v = "dashboard"
  BY DEF W!Views
<1>2. QED
  BY <1>1 DEF W!Shown, W!WidgetView, W!DashWidget, W!SimpleWidget

LEMMA SameIsShown == ScreenInv => W!SameShown
<1> SUFFICES ASSUME ScreenInv, NEW v \in W!Views \ {"public"}, NEW w \in W!Views \ {"public"},
                    W!ShowsNow(v), W!ShowsNow(w), widget.type # "live"
             PROVE  screen[v] = screen[w]
  BY DEF W!SameShown
<1>1. ASSUME NEW x \in W!Views, W!ShowsNow(x)
      PROVE  screen[x] = [shows |-> W!Shown(x), of |-> Len(rows)]
  <2>1. screen[x].shows.kind # "loading" /\ screen[x].of = Len(rows)
    BY <1>1 DEF W!ShowsNow
  <2>2. screen[x] # W!Unloaded
    BY <2>1 DEF W!Unloaded, W!Nothing
  <2>3. QED
    BY <2>1, <2>2 DEF ScreenInv
<1>2. W!Shown(v) = W!Shown(w)
  BY DrawnAlike
<1>3. QED
  BY <1>1, <1>2

LEMMA Turned ==
  ASSUME NEW n \in Nat, NEW s, s = [i \in 1 .. n |-> s[i]]
  PROVE  /\ W!Reverse(s) = [i \in 1 .. n |-> s[n - i + 1]] /\ Len(s) = n
<1>1. Len([i \in 1 .. n |-> s[i]]) = n
  OBVIOUS
<1>2. Len(s) = n
  BY <1>1
<1>3. QED
  BY <1>2 DEF W!Reverse

(* The place of the first row that a chart shows, but one.                   *)
Skipped == IF Len(rows) > Limit THEN Len(rows) - Limit ELSE 0

LEMMA ChartIs ==
  ASSUME ScreensAssumption, ScreenInv
  PROVE  LET n == Len(rows) - Skipped
             c == W!Chart(rows)
         IN /\ n \in Nat /\ (Len(rows) > 0 => n > 0) /\ Skipped \in Nat /\ Len(rows) \in Nat
            /\ c.labels = [i \in 1 .. n |-> Skipped + i]
            /\ c.values = [i \in 1 .. n |-> W!OrZero(rows[Skipped + i])]
            /\ c.kind = "chart"
<1> DEFINE n == Len(rows) - Skipped
<1>1. PICK S : rows \in Seq(S)
  BY DEF ScreenInv
<1>2. Len(rows) \in Nat /\ Limit \in Nat \ {0}
  BY <1>1 DEF ScreensAssumption, W!WidgetsAssumption
<1>3. n \in Nat /\ Skipped \in Nat /\ (Len(rows) > 0 => n > 0) /\ n <= Len(rows)
  BY <1>2 DEF Skipped
<1>4. /\ (IF Len(rows) > Limit THEN Len(rows) - Limit + 1 ELSE 1) = Skipped + 1
      /\ (IF Len(rows) > Limit THEN Limit ELSE Len(rows)) = n
  BY <1>2 DEF Skipped
<1>5. Skipped + n = Len(rows)
  BY <1>2, <1>3
<1> HIDE DEF n
<1> DEFINE newest == SubSeq(rows, Skipped + 1, Len(rows))
<1>6. newest = [i \in 1 .. n |-> rows[Skipped + i]]
  <2>1. newest = [i \in 1 .. Len(rows) - (Skipped + 1) + 1 |-> rows[i + (Skipped + 1) - 1]]
    BY <1>1, <1>2, <1>3
  <2>2. QED
    BY <1>2, <1>3, <1>5, <2>1
<1> HIDE DEF newest
<1>7. \A i \in 1 .. n : n - i + 1 \in 1 .. n /\ n - (n - i + 1) + 1 = i /\ Len(rows) - (n - i + 1) + 1 = Skipped + i
  BY <1>2, <1>3, <1>5
<1>8. W!QueryData(rows) = [i \in 1 .. n |-> rows[Skipped + (n - i + 1)]]
  <2>1. newest = [i \in 1 .. n |-> newest[i]]
    BY <1>6
  <2>2. W!Reverse(newest) = [i \in 1 .. n |-> newest[n - i + 1]]
    BY <1>3, <2>1, Turned
  <2>3. W!QueryData(rows) = W!Reverse(newest)
    BY <1>4 DEF W!QueryData, newest
  <2>4. QED
    BY <1>6, <1>7, <2>2, <2>3
<1>9. W!TimesOf(rows) = [i \in 1 .. n |-> Skipped + i]
  <2> DEFINE times == [i \in 1 .. n |-> Len(rows) - i + 1]
  <2>1. times = [i \in 1 .. n |-> times[i]]
    OBVIOUS
  <2>2. W!TimesOf(rows) = W!Reverse(times)
    BY <1>4 DEF W!TimesOf
  <2>3. \A i \in 1 .. n : times[n - i + 1] = Skipped + i
    BY <1>7
  <2> HIDE DEF times
  <2>4. W!Reverse(times) = [i \in 1 .. n |-> times[n - i + 1]]
    BY <1>3, <2>1, Turned
  <2>5. QED
    BY <2>2, <2>3, <2>4
<1>10. W!Reverse(W!Series(W!QueryData(rows))) = [i \in 1 .. n |-> W!OrZero(rows[Skipped + i])]
  <2> DEFINE q == W!QueryData(rows)
             series == W!Series(q)
  <2>1. series = [i \in 1 .. n |-> W!OrZero(rows[Skipped + (n - i + 1)])]
    <3>1. DOMAIN q = 1 .. n /\ \A i \in 1 .. n : q[i] = rows[Skipped + (n - i + 1)]
      BY <1>8
    <3> HIDE DEF q
    <3>2. QED
      BY <3>1 DEF W!Series
  <2> HIDE DEF series
  <2>2. series = [i \in 1 .. n |-> series[i]]
    BY <2>1
  <2>3. W!Reverse(series) = [i \in 1 .. n |-> series[n - i + 1]]
    BY <1>3, <2>2, Turned
  <2>4. \A i \in 1 .. n : series[n - i + 1] = W!OrZero(rows[Skipped + i])
    BY <1>7, <2>1
  <2>5. W!Reverse(series) = [i \in 1 .. n |-> W!OrZero(rows[Skipped + i])]
    BY <2>3, <2>4
  <2>6. QED
    BY <2>5 DEF series
<1>11. /\ W!Chart(rows).labels = W!TimesOf(rows) /\ W!Chart(rows).kind = "chart"
       /\ W!Chart(rows).values = W!Reverse(W!Series(W!QueryData(rows)))
  BY DEF W!Chart, W!Nothing
<1>12. QED
  BY <1>2, <1>3, <1>9, <1>10, <1>11 DEF n

LEMMA ChartsAre == ASSUME ScreensAssumption, ScreenInv PROVE W!ChartInOrder
<1> SUFFICES ASSUME W!ShowsNow("editor"), screen["editor"].shows.kind = "chart", widget.column
             PROVE  LET c == screen["editor"].shows IN
                    /\ Len(c.labels) = Len(c.values)
                    /\ Len(rows) > 0 => W!Last(c.labels) = Len(rows)
                    /\ \A i \in DOMAIN c.labels :
                         /\ i > 1 => c.labels[i] = c.labels[i - 1] + 1
                         /\ c.values[i] = W!OrZero(rows[c.labels[i]])
  BY DEF W!ChartInOrder
<1>1. screen["editor"].shows = W!Shown("editor")
  <2>1. screen["editor"] # W!Unloaded /\ screen["editor"].of = Len(rows)
    BY DEF W!ShowsNow, W!Unloaded, W!Nothing
  <2>2. "editor" \in W!Views
    BY DEF W!Views
  <2>3. QED
    BY <2>1, <2>2 DEF ScreenInv
<1> DEFINE d == W!ResolveWidgetData(widget, rows)
<1>2. W!WidgetView(widget, d).kind = "chart" /\ screen["editor"].shows = W!WidgetView(widget, d)
  BY <1>1 DEF W!Shown
<1> HIDE DEF d
<1>3. W!WidgetView(widget, d) = d /\ d.kind = "chart" /\ widget.type \in {"bar", "line"}
  <2>1. widget.type # "live" /\ W!Draws(widget, d).kind = "chart" /\ W!WidgetView(widget, d) = W!Draws(widget, d)
    BY <1>2 DEF W!WidgetView, W!Nothing
  <2>2. QED
    BY <2>1 DEF W!Draws, W!Nothing
<1>4. d = W!Chart(rows)
  <2>1. widget.table
    BY <1>3 DEF d, W!ResolveWidgetData, W!Nothing
  <2>2. QED
    BY <1>3, <2>1 DEF d, W!ResolveWidgetData
<1> DEFINE n == Len(rows) - Skipped
           c == screen["editor"].shows
<1>5. /\ n \in Nat /\ (Len(rows) > 0 => n > 0) /\ Skipped \in Nat /\ Len(rows) \in Nat
      /\ c.labels = [i \in 1 .. n |-> Skipped + i]
      /\ c.values = [i \in 1 .. n |-> W!OrZero(rows[Skipped + i])]
  BY <1>2, <1>3, <1>4, ChartIs
<1>6. Skipped + n = Len(rows)
  BY <1>5
<1> HIDE DEF n, c
<1>7. Len(c.labels) = n /\ Len(c.values) = n
  BY <1>5
<1>8. Len(rows) > 0 => W!Last(c.labels) = Len(rows)
  BY <1>5, <1>6, <1>7 DEF W!Last
<1>9. ASSUME NEW i \in DOMAIN c.labels
      PROVE  /\ i > 1 => c.labels[i] = c.labels[i - 1] + 1
             /\ c.values[i] = W!OrZero(rows[c.labels[i]])
  <2>1. i \in 1 .. n /\ c.labels[i] = Skipped + i /\ c.values[i] = W!OrZero(rows[Skipped + i])
    BY <1>5
  <2>2. ASSUME i > 1 PROVE c.labels[i - 1] = Skipped + (i - 1)
    <3>1. i - 1 \in 1 .. n
      BY <1>5, <2>1, <2>2
    <3>2. QED
      BY <1>5, <3>1
  <2>3. QED
    BY <1>5, <2>1, <2>2
<1>10. QED
  BY <1>7, <1>8, <1>9 DEF c

LEMMA WidgetsHold == ASSUME ScreensAssumption PROVE W!WidgetSpec => [](W!ChartInOrder /\ W!SameShown)
<1>1. ScreenInv => W!ChartInOrder /\ W!SameShown
  BY ChartsAre, SameIsShown
<1>2. ScreenInv /\ [W!WidgetNext]_(W!widgetVars) => ScreenInv'
  BY ScreenStep
<1>3. QED
  BY <1>1, <1>2, ScreenBegins, PTL DEF W!WidgetSpec

(***************************************************************************)
(* The canvas of a flow.                                                   *)
(***************************************************************************)

(* Whatever renders the canvas leaves it alone, but for gestures, which are  *)
(* counted, and the page that a dialog loads again.                          *)
LEMMA CanvasStep ==
  ASSUME drawn \in Nat, [F!CanvasNext]_(F!canvasVars)
  PROVE  /\ drawn' \in Nat
         /\ loaded.has /\ drawn' = drawn /\ dialog' = dialog => UNCHANGED <<nodes, edges>>
<1>1. CASE UNCHANGED F!canvasVars
  BY <1>1 DEF F!canvasVars
<1>2. ASSUME NEW n, NEW e, F!Gesture(n, e) PROVE drawn' \in Nat /\ drawn' # drawn
  BY <1>2 DEF F!Gesture
<1>3. CASE \/ \E t \in Types : F!AddNode(t)
           \/ \E i \in DOMAIN nodes : F!RemoveNode(i) \/ F!UpdateNodeConfig(i)
           \/ \E i, j \in DOMAIN nodes : F!EndConnect(i, j)
           \/ \E i \in DOMAIN edges : F!RemoveEdge(i)
  <2>1. \E n, e : F!Gesture(n, e)
    <3>1. CASE \E t \in Types : F!AddNode(t)
      BY <3>1 DEF F!AddNode
    <3>2. CASE \E i \in DOMAIN nodes : F!RemoveNode(i)
      BY <3>2 DEF F!RemoveNode
    <3>3. CASE \E i \in DOMAIN nodes : F!UpdateNodeConfig(i)
      BY <3>3 DEF F!UpdateNodeConfig
    <3>4. CASE \E i, j \in DOMAIN nodes : F!EndConnect(i, j)
      BY <3>4 DEF F!EndConnect
    <3>5. CASE \E i \in DOMAIN edges : F!RemoveEdge(i)
      BY <3>5 DEF F!RemoveEdge
    <3>6. QED
      BY <1>3, <3>1, <3>2, <3>3, <3>4, <3>5
  <2>2. QED
    BY <1>2, <2>1
<1>4. F!Rerender => (loaded.has => UNCHANGED <<nodes, edges>>)
  BY DEF F!Rerender
<1>5. CASE F!HandleSave \/ F!Saved \/ F!HandleRun \/ F!Rendered
  <2>1. F!Rerender /\ drawn' = drawn
    BY <1>5 DEF F!HandleSave, F!Saved, F!HandleRun, F!Rendered
  <2>2. QED
    BY <1>4, <2>1
<1>6. CASE F!Patch
  BY <1>6 DEF F!Patch
<1>7. ASSUME NEW k, F!SetRunResult(k) PROVE F!Rerender /\ drawn' = drawn
  BY <1>7 DEF F!SetRunResult
<1>8. CASE F!SaveSchedule \/ F!UpdateSharing \/ F!PatchConfig
  <2>1. F!Rerender /\ drawn' = drawn
    BY <1>8 DEF F!SaveSchedule, F!UpdateSharing, F!PatchConfig, F!Ask
  <2>2. QED
    BY <1>4, <2>1
<1>9. CASE F!LoadPage
  <2>1. dialog.at = "load" /\ dialog'.at = "no" /\ drawn' = drawn
    BY <1>9 DEF F!LoadPage, F!Idle
  <2>2. QED
    BY <2>1
<1>10. QED
  BY <1>1, <1>3, <1>4, <1>5, <1>6, <1>7, <1>8, <1>9 DEF F!CanvasNext

(* Whatever is saved, run, answered or rendered, what was drawn on a canvas  *)
(* that was loaded with a flow stays on it.                                  *)
THEOREM CanvasKeptAlways == ScreensSpec => CanvasKept
<1> DEFINE Counted == drawn \in Nat
<1>1. F!CanvasInit => Counted
  BY DEF F!CanvasInit
<1>2. Counted /\ [F!CanvasNext]_(F!canvasVars) => Counted' /\ F!LeavesCanvas
  BY CanvasStep DEF F!LeavesCanvas
<1> HIDE DEF Counted
<1>3. F!CanvasSpec => [][F!LeavesCanvas]_(F!canvasVars)
  BY <1>1, <1>2, PTL DEF F!CanvasSpec
<1>4. ScreensSpec => F!CanvasSpec
  BY DEF ScreensSpec
<1>5. QED
  BY <1>3, <1>4, PTL DEF CanvasKept, F!CanvasKept

(* What screens show is what there is, whatever the bounds.                  *)
THEOREM ScreensHoldAlways == ScreensSpec => []ScreensHold
<1>1. P!PageSpec => [](P!SelectedShown /\ P!ShownIsAsked /\ P!UntouchedKept)
  BY PageHolds, ScreensAssumption
<1>2. W!WidgetSpec => [](W!ChartInOrder /\ W!SameShown)
  BY WidgetsHold, ScreensAssumption
<1>3. V!ViewSpec => [](V!ListedOpens /\ V!AddressReaches)
  BY ViewsHold, ScreensAssumption
<1>4. B!BlocksSpec => [](B!RunsOwnCode /\ B!UsedIsThere)
  BY BlocksHold, ScreensAssumption
<1>5. QED
  BY <1>1, <1>2, <1>3, <1>4, PTL DEF ScreensSpec, ScreensHold
=============================================================================
