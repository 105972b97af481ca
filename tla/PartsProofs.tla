----------------------------- MODULE PartsProofs -----------------------------
(***************************************************************************)
(* Proofs about two parts of the backend.  About Cron, for every calendar,  *)
(* horizon and set of expressions: those about the scan use nothing of      *)
(* Matches, so they hold for the matcher of either tier; those about the    *)
(* matchers follow.  About EventBatch, for every batch size, interval and   *)
(* POST timeout: its invariants, and that it implements EventSink.          *)
(***************************************************************************)
EXTENDS Cron, EventBatch, FiniteSetTheorems, WellFoundedInduction, TLAPS

(* While the scan goes on, every minute it passed over does not match, and   *)
(* the iterations left reach exactly to the end of the horizon.              *)
Passed ==
  /\ cand + left = after + 1 + Horizon /\ cand > after
  /\ \A t \in (after + 1)..(cand - 1) : Matches(tier, expr, t) = "no"

ScanInv == TypeOK /\ (out = Scanning => Passed) /\ NextIsEarliest

LEMMA ScanStart == Init => ScanInv
BY ScanAssumption DEF Init, ScanInv, TypeOK, Passed, NextIsEarliest, IsMinute,
                      Scanning, None, Raised

LEMMA ScanStep == ScanInv /\ [Next]_vars => ScanInv'
<1> SUFFICES ASSUME ScanInv, [Next]_vars PROVE ScanInv'
  OBVIOUS
<1> USE ScanAssumption
<1>1. CASE Look
  <2> SUFFICES ASSUME out = Scanning, left > 0, Passed
               PROVE  ScanInv'
    BY <1>1 DEF Look, ScanInv
  <2>1. UNCHANGED <<tier, expr, after>>
    BY <1>1 DEF Look
  <2>2. CASE /\ Matches(tier, expr, cand) = "yes"
             /\ out' = cand /\ UNCHANGED <<cand, left>>
    <3>1. cand \in Nat /\ left \in Nat /\ after \in Nat /\ Horizon \in Nat
      BY DEF ScanInv, TypeOK
    <3>2. cand > after /\ cand <= after + Horizon
      BY <3>1 DEF Passed
    <3>3. NextIsEarliest'
      BY <2>1, <2>2, <3>1, <3>2
         DEF NextIsEarliest, Passed, IsMinute, None
    <3>4. QED
      BY <2>1, <2>2, <3>1, <3>3 DEF ScanInv, TypeOK, Scanning
  <2>3. CASE /\ Matches(tier, expr, cand) = "raises"
             /\ out' = Raised /\ UNCHANGED <<cand, left>>
    BY <2>1, <2>3
       DEF ScanInv, TypeOK, NextIsEarliest, IsMinute, Raised, None, Scanning
  <2>4. CASE /\ Matches(tier, expr, cand) = "no"
             /\ cand' = cand + 1 /\ left' = left - 1 /\ UNCHANGED out
    <3>1. cand \in Nat /\ left \in Nat /\ after \in Nat
      BY DEF ScanInv, TypeOK
    <3>2. Passed'
      BY <2>1, <2>4, <3>1 DEF Passed
    <3>3. QED
      BY <2>1, <2>4, <3>1, <3>2
         DEF ScanInv, TypeOK, NextIsEarliest, IsMinute, None, Scanning
  <2>5. QED
    BY <1>1, <2>2, <2>3, <2>4 DEF Look
<1>2. CASE GiveUp
  <2>1. Passed /\ left = 0 /\ cand \in Nat /\ after \in Nat
    BY <1>2 DEF GiveUp, ScanInv, TypeOK
  <2>2. cand - 1 = after + Horizon
    BY <2>1 DEF Passed
  <2>3. NextIsEarliest'
    BY <1>2, <2>1, <2>2 DEF GiveUp, NextIsEarliest, Passed, IsMinute, None
  <2>4. QED
    BY <1>2, <2>3 DEF GiveUp, ScanInv, TypeOK, None, Scanning
<1>3. CASE UNCHANGED vars
  BY <1>3 DEF vars, ScanInv, TypeOK, Passed, NextIsEarliest
<1>4. QED
  BY <1>1, <1>2, <1>3 DEF Next

(* The next_run that update_task_run stamps is the first minute after the    *)
(* run that matches, and there is none only if no minute of the horizon      *)
(* matches, whatever the expression, the calendar and the horizon are.       *)
THEOREM NextIsEarliestHolds == Spec => []NextIsEarliest
<1>1. Init => ScanInv
  BY ScanStart
<1>2. ScanInv => NextIsEarliest
  BY DEF ScanInv
<1>3. QED
  BY <1>1, <1>2, ScanStep, PTL DEF Spec

-----------------------------------------------------------------------------
(* The matchers.                                                             *)

LEMMA LeastNat ==
  ASSUME NEW C, C \subseteq Nat, C # {}
  PROVE  \E x \in C : \A y \in C : x <= y
<1> DEFINE R == OpToRel(<, Nat)
<1>1. IsWellFoundedOn(R, Nat)
  BY NatLessThanWellFounded
<1>2. \A x, y \in Nat : y < x => <<y, x>> \in R
  BY DEF OpToRel
<1> HIDE DEF R
<1>3. PICK x \in C : \A y \in C : <<y, x>> \notin R
  BY <1>1, WFMin, Zenon
<1>4. \A y \in C : ~(y < x)
  BY <1>2, <1>3
<1>5. QED
  BY <1>3, <1>4

(* The remainder finds what lies a whole number of steps from the base.      *)
LEMMA StepIs ==
  ASSUME NEW a \in Nat, NEW b \in Nat \ {0}, NEW v \in Nat
  PROVE  StepHits(a, b, v) <=> \E k \in 0 .. v : v = a + k * b
<1> DEFINE d == v - a
<1>1. ASSUME d % b = 0, v >= a
      PROVE  \E k \in 0 .. v : v = a + k * b
  <2> DEFINE k == d \div b
  <2>1. d \in Int /\ k \in Int
    OBVIOUS
  <2>2. d = b * k + (d % b)
    BY Z3
  <2> HIDE DEF k
  <2>3. v = a + k * b
    BY <1>1, <2>1, <2>2
  <2>4. k * b <= v /\ k * b >= 0
    BY <1>1, <2>1, <2>3
  <2>5. k >= 0
    BY <2>1, <2>4, Z3
  <2>6. k <= k * b
    BY <2>1, <2>5, Z3
  <2>7. QED
    BY <2>1, <2>3, <2>4, <2>5, <2>6
<1>2. ASSUME NEW k \in 0 .. v, v = a + k * b
      PROVE  d % b = 0 /\ v >= a
  <2>1. d = k * b /\ k \in Nat
    BY <1>2
  <2>2. k * b >= 0
    BY <2>1, Z3
  <2>3. (k * b) % b = 0
    BY <2>1, Z3
  <2>4. QED
    BY <1>2, <2>1, <2>2, <2>3
<1>3. QED
  BY <1>1, <1>2 DEF StepHits

LEMMA PartIs ==
  ASSUME NEW lang \in Langs, NEW p \in FieldPart, WellFormedPart(p),
         NEW dom \in SUBSET Nat, NEW v \in dom
  PROVE  Part(lang, p, v) = YesIf(v \in Denoted(p, dom))
<1>1. /\ p.a.py \in Nat /\ p.a.js = p.a.py /\ p.b.py \in Nat /\ p.b.js = p.b.py
      /\ p.kind \in {"value", "range", "step"} /\ v \in Nat
      /\ p.a.py # NotANumber /\ p.b.py # NotANumber
  BY DEF FieldPart, Number, WellFormedPart
<1>2. CASE p.kind = "value"
  <2>1. Denoted(p, dom) = {p.a.py} \intersect dom
    BY <1>2 DEF Denoted
  <2>2. PartPy(p, v) = YesIf(v = p.a.py)
    BY <1>1, <1>2 DEF PartPy
  <2>3. PartJs(p, v) = YesIf(v = p.a.py)
    BY <1>1, <1>2 DEF PartJs
  <2>4. v \in Denoted(p, dom) <=> v = p.a.py
    BY <2>1
  <2>5. QED
    BY <2>2, <2>3, <2>4 DEF Part, YesIf
<1>3. CASE p.kind = "range"
  <2>1. Denoted(p, dom) = {x \in dom : p.a.py <= x /\ x <= p.b.py}
    BY <1>3 DEF Denoted
  <2>2. PartPy(p, v) = IF v < p.a.py THEN "no" ELSE YesIf(v <= p.b.py)
    BY <1>1, <1>3 DEF PartPy
  <2>3. PartJs(p, v) = YesIf(p.a.py <= v /\ v <= p.b.py)
    BY <1>1, <1>3 DEF PartJs
  <2>4. v \in Denoted(p, dom) <=> p.a.py <= v /\ v <= p.b.py
    BY <2>1
  <2>5. PartPy(p, v) = YesIf(p.a.py <= v /\ v <= p.b.py)
    BY <1>1, <2>2 DEF YesIf
  <2>6. QED
    BY <2>3, <2>4, <2>5 DEF Part, YesIf
<1>4. CASE p.kind = "step"
  <2>1. Denoted(p, dom) = {x \in dom : \E k \in 0 .. x : x = p.a.py + k * p.b.py}
    BY <1>4 DEF Denoted
  <2>2. p.b.py \in Nat \ {0} /\ p.b.py > 0
    BY <1>1, <1>4 DEF WellFormedPart
  <2>3. PartPy(p, v) = YesIf(StepHits(p.a.py, p.b.py, v))
    BY <1>1, <1>4, <2>2 DEF PartPy
  <2>4. PartJs(p, v) = YesIf(StepHits(p.a.py, p.b.py, v))
    <3>1. PartJs(p, v) =
            YesIf(p.a.js # NotANumber /\ (p.b.js > 0 /\ StepHits(p.a.js, p.b.js, v)))
      BY <1>4 DEF PartJs
    <3>2. QED
      BY <1>1, <2>2, <3>1 DEF YesIf
  <2>5. v \in Denoted(p, dom) <=> StepHits(p.a.py, p.b.py, v)
    BY <1>1, <2>1, <2>2, StepIs
  <2>6. QED
    BY <2>3, <2>4, <2>5 DEF Part, YesIf
<1>5. QED
  BY <1>1, <1>2, <1>3, <1>4

(* A chain of answers, each x or y, ends in y if one of them is.             *)
LEMMA ChainIs ==
  ASSUME NEW f, DOMAIN f \subseteq Nat, NEW x, NEW y, \A i \in DOMAIN f : f[i] \in {x, y}
  PROVE  FirstOther(f, x) = IF \E i \in DOMAIN f : f[i] # x THEN y ELSE x
<1> DEFINE others == {i \in DOMAIN f : f[i] # x}
<1>1. CASE others = {}
  BY <1>1 DEF FirstOther
<1>2. CASE others # {}
  <2>1. \E i \in others : \A j \in others : i <= j
    BY <1>2, LeastNat
  <2>2. (CHOOSE i \in others : \A j \in others : i <= j) \in others
    BY <2>1
  <2>3. FirstOther(f, x) = f[CHOOSE i \in others : \A j \in others : i <= j]
    BY <1>2 DEF FirstOther
  <2>4. QED
    BY <1>2, <2>2, <2>3
<1>3. QED
  BY <1>1, <1>2

Accepts(f, dom, v) == f.star \/ \E j \in DOMAIN f.parts : v \in Denoted(f.parts[j], dom)

LEMMA FieldIs ==
  ASSUME NEW lang \in Langs, NEW f \in CronField,
         \A j \in DOMAIN f.parts : WellFormedPart(f.parts[j]),
         NEW dom \in SUBSET Nat, NEW v \in dom
  PROVE  Field(lang, f, v) = YesIf(Accepts(f, dom, v))
<1> DEFINE answers == [j \in DOMAIN f.parts |-> Part(lang, f.parts[j], v)]
<1>1. f.parts \in Seq(FieldPart) /\ f.star \in BOOLEAN
  BY DEF CronField
<1>2. DOMAIN f.parts \subseteq Nat /\ \A j \in DOMAIN f.parts : f.parts[j] \in FieldPart
  BY <1>1
<1>3. \A j \in DOMAIN f.parts : answers[j] = YesIf(v \in Denoted(f.parts[j], dom))
  BY <1>2, PartIs
<1>4. DOMAIN answers = DOMAIN f.parts /\ \A j \in DOMAIN answers : answers[j] \in {"no", "yes"}
  BY <1>3 DEF YesIf
<1> HIDE DEF answers
<1>5. FirstOther(answers, "no") =
        IF \E j \in DOMAIN answers : answers[j] # "no" THEN "yes" ELSE "no"
  BY <1>2, <1>4, ChainIs
<1>6. (\E j \in DOMAIN answers : answers[j] # "no")
        <=> \E j \in DOMAIN f.parts : v \in Denoted(f.parts[j], dom)
  BY <1>3, <1>4 DEF YesIf
<1>7. Field(lang, f, v) = IF f.star THEN "yes" ELSE FirstOther(answers, "no")
  BY DEF Field, answers
<1>8. QED
  BY <1>5, <1>6, <1>7 DEF Accepts, YesIf

(* The calendar gives numbers. *)
LEMMA CalendarIs ==
  ASSUME NEW t \in Nat, NEW lang
  PROVE  /\ MinuteOf(t) \in Nat /\ HourOf(t) \in Nat /\ DayOfMonth(t) \in Nat
         /\ MonthOf(lang, t) \in Nat /\ Weekday(lang, t) \in Nat
<1>1. \A x \in Nat, y \in Nat \ {0} : x % y \in Nat /\ x \div y \in Nat
  OBVIOUS
<1>2. MinutesPerHour * HoursPerDay \in Nat \ {0}
  BY CalendarAssumption
<1>3. Day(t) \in Nat
  BY <1>1, <1>2 DEF Day
<1>4. DaysPerWeek \in Nat \ {0}
  BY DEF DaysPerWeek
<1>5. MinuteOf(t) \in Nat /\ HourOf(t) \in Nat
  BY <1>1, CalendarAssumption DEF MinuteOf, HourOf
<1>6. DayOfMonth(t) \in Nat
  BY <1>1, <1>3, CalendarAssumption DEF DayOfMonth
<1>7. MonthOf(lang, t) \in Nat
  BY <1>1, <1>3, CalendarAssumption DEF MonthOf, MonthIndex
<1>8. Weekday(lang, t) \in Nat
  BY <1>1, <1>3, <1>4 DEF Weekday
<1>9. QED
  BY <1>5, <1>6, <1>7, <1>8

LEMMA ExprIs ==
  ASSUME NEW e \in Exprs
  PROVE  e \in Seq(CronField)
BY ExprsAssumption

LEMMA FieldsAre == TypeOK => FieldsDenote
<1> DEFINE dom == 0..(MinutesPerHour + DaysPerMonth)
<1> SUFFICES ASSUME TypeOK, WellFormed(expr), NEW i \in DOMAIN expr, NEW v \in dom
             PROVE  Field(tier, expr[i], v) =
                      YesIf(expr[i].star \/
                        v \in UNION {Denoted(expr[i].parts[j], dom) : j \in DOMAIN expr[i].parts})
  BY DEF FieldsDenote
<1>1. expr[i] \in CronField /\ tier \in Langs
  BY ExprIs DEF TypeOK
<1>2. dom \in SUBSET Nat
  BY CalendarAssumption
<1>3. \A j \in DOMAIN expr[i].parts : WellFormedPart(expr[i].parts[j])
  BY DEF WellFormed
<1>4. Field(tier, expr[i], v) = YesIf(Accepts(expr[i], dom, v))
  BY <1>1, <1>2, <1>3, FieldIs
<1>5. Accepts(expr[i], dom, v) <=>
        expr[i].star \/
          v \in UNION {Denoted(expr[i].parts[j], dom) : j \in DOMAIN expr[i].parts}
  BY DEF Accepts
<1>6. QED
  BY <1>4, <1>5 DEF YesIf

LEMMA TiersDo == TypeOK => TiersAgree
<1> SUFFICES ASSUME TypeOK, WellFormed(expr), Len(expr) = 5, expr[5].star
             PROVE  Matches("py", expr, cand) = Matches("js", expr, cand)
  BY DEF TiersAgree
<1> DEFINE vals(lang) == <<MinuteOf(cand), HourOf(cand), DayOfMonth(cand), MonthOf(lang, cand),
                           Weekday(lang, cand)>>
           answers(lang) == [i \in 1..5 |-> Field(lang, expr[i], vals(lang)[i])]
<1>1. expr \in Seq(CronField) /\ cand \in Nat
  BY ExprIs DEF TypeOK
<1>2. DOMAIN expr = 1..5
  BY <1>1
<1>3. \A i \in 1..5 : /\ expr[i] \in CronField
                      /\ \A j \in DOMAIN expr[i].parts : WellFormedPart(expr[i].parts[j])
  <2>1. \A s \in Seq(CronField) : \A i \in 1..Len(s) : s[i] \in CronField
    OBVIOUS
  <2>2. \A i \in 1..5 : expr[i] \in CronField
    BY <1>1, <2>1
  <2>3. \A i \in 1..5 : \A j \in DOMAIN expr[i].parts : WellFormedPart(expr[i].parts[j])
    BY <1>2, Zenon DEF WellFormed
  <2>4. QED
    BY <2>2, <2>3
<1>4. \A i \in 1..5, v \in Nat : Field("py", expr[i], v) = Field("js", expr[i], v)
  <2> SUFFICES ASSUME NEW i \in 1..5, NEW v \in Nat
               PROVE  Field("py", expr[i], v) = Field("js", expr[i], v)
    OBVIOUS
  <2>1. {v} \in SUBSET Nat /\ v \in {v} /\ "py" \in Langs /\ "js" \in Langs
    BY DEF Langs
  <2>2. Field("py", expr[i], v) = YesIf(Accepts(expr[i], {v}, v))
    BY <1>3, <2>1, FieldIs
  <2>3. Field("js", expr[i], v) = YesIf(Accepts(expr[i], {v}, v))
    BY <1>3, <2>1, FieldIs
  <2>4. QED
    BY <2>2, <2>3
<1>5. \A i \in 1..4 : vals("py")[i] = vals("js")[i] /\ vals("py")[i] \in Nat
  <2>1. MonthOf("py", cand) = MonthOf("js", cand)
    BY DEF MonthOf
  <2>2. QED
    BY <1>1, <2>1, CalendarIs
<1>6. \A i \in 1..4 : Field("py", expr[i], vals("py")[i]) = Field("js", expr[i], vals("js")[i])
  BY <1>4, <1>5
<1>7. Field("py", expr[5], vals("py")[5]) = Field("js", expr[5], vals("js")[5])
  BY DEF Field
<1>8. \A i \in 1..5 : Field("py", expr[i], vals("py")[i]) = Field("js", expr[i], vals("js")[i])
  BY <1>6, <1>7
<1>9. answers("py") = answers("js")
  BY <1>8
<1>10. Matches("py", expr, cand) = FirstOther(answers("py"), "yes")
  BY DEF Matches
<1>11. Matches("js", expr, cand) = FirstOther(answers("js"), "yes")
  BY DEF Matches
<1>12. QED
  BY <1>9, <1>10, <1>11

(* For every well-formed expression, the field matcher of either tier        *)
(* accepts exactly what the field denotes, and without a weekday the task    *)
(* list's matcher answers as the scheduler's does.                           *)
THEOREM CronAgreesHolds == Spec => []CronAgrees
<1>1. Init => ScanInv
  BY ScanStart
<1>2. ScanInv => CronAgrees
  BY FieldsAre, TiersDo DEF ScanInv, CronAgrees
<1>3. QED
  BY <1>1, <1>2, ScanStep, PTL DEF Spec

-----------------------------------------------------------------------------
(* The event batches.                                                        *)

Entry == [id : Events, age : Nat]
PostRec == [ids : SUBSET Events, by : {"timer", "size"}, age : Nat]

BufferInv == BatchTypeOK /\ BufferBounded

LEMMA Aging ==
  ASSUME NEW e \in Entry
  PROVE  /\ [e EXCEPT !.age = Older(@)] \in Entry
         /\ [e EXCEPT !.age = Older(@)].id = e.id
         /\ [e EXCEPT !.age = Older(@)].age \in {e.age, e.age + 1}
<1>1. Older(e.age) \in Nat /\ Older(e.age) \in {e.age, e.age + 1}
  BY DEF Entry, Older
<1>2. ASSUME NEW n \in Nat
      PROVE  /\ [e EXCEPT !.age = n] \in Entry
             /\ [e EXCEPT !.age = n].id = e.id /\ [e EXCEPT !.age = n].age = n
  BY DEF Entry
<1>3. QED
  BY <1>1, <1>2

LEMMA IdsType == ASSUME NEW b \in Seq(Entry) PROVE IdsOf(b) \in SUBSET Events
<1>1. \A i \in DOMAIN b : b[i] \in Entry
  OBVIOUS
<1>2. QED
  BY <1>1 DEF IdsOf, Entry

LEMMA PostType ==
  ASSUME NEW b \in Seq(Entry), NEW who \in {"timer", "size"}
  PROVE  /\ Post(b, who) \in PostRec /\ Post(b, who).ids = IdsOf(b)
         /\ Post(b, who).by = who /\ Post(b, who).age = 0
BY IdsType DEF Post, PostRec

(* A POST as time passes. *)
Older1(p) == [p EXCEPT !.age = @ + 1]

LEMMA PostAging ==
  ASSUME NEW p \in PostRec
  PROVE  /\ Older1(p) \in PostRec /\ Older1(p).ids = p.ids
         /\ Older1(p).by = p.by /\ Older1(p).age = p.age + 1
BY DEF Older1, PostRec

(* What the entry of a buffered event is, and the buffer with it.            *)
LEMMA Entering ==
  ASSUME BatchAssumption, BufferInv, BufferEvent
  PROVE  \E b \in Seq(Entry) :
           /\ ready # <<>> /\ Head(ready) \in Events
           /\ b = Append(buffer, [id |-> Head(ready), age |-> 0])
           /\ Len(b) = Len(buffer) + 1
           /\ \A i \in DOMAIN buffer : b[i] = buffer[i]
           /\ b[Len(b)].id = Head(ready) /\ b[Len(b)].age = 0
           /\ \/ Len(b) >= BatchSize /\ Flush(b, "size")
              \/ Len(b) < BatchSize /\ buffer' = b /\ UNCHANGED posts
<1> DEFINE e == [id |-> Head(ready), age |-> 0]
           b == Append(buffer, e)
<1>1. ready \in Seq(Events) /\ ready # <<>> /\ buffer \in Seq(Entry)
  BY DEF BufferInv, BatchTypeOK, BufferEvent, Entry
<1>2. Head(ready) \in Events
  BY <1>1
<1>3. e \in Entry /\ e.id = Head(ready) /\ e.age = 0
  BY <1>2 DEF Entry
<1>4. IF IsFull(b) THEN Flush(b, "size") ELSE buffer' = b /\ UNCHANGED posts
  BY DEF BufferEvent
<1> HIDE DEF e
<1>5. /\ b \in Seq(Entry) /\ Len(b) = Len(buffer) + 1
      /\ \A i \in DOMAIN buffer : b[i] = buffer[i]
      /\ b[Len(b)] = e
  BY <1>1, <1>3
<1>6. b = Append(buffer, [id |-> Head(ready), age |-> 0])
  BY DEF e
<1> HIDE DEF b
<1>7. \/ Len(b) >= BatchSize /\ Flush(b, "size")
      \/ ~(Len(b) >= BatchSize) /\ buffer' = b /\ UNCHANGED posts
  BY <1>4 DEF IsFull
<1>8. \/ Len(b) >= BatchSize /\ Flush(b, "size")
      \/ Len(b) < BatchSize /\ buffer' = b /\ UNCHANGED posts
  BY <1>5, <1>7 DEF BatchAssumption
<1>9. b[Len(b)].id = Head(ready) /\ b[Len(b)].age = 0
  BY <1>3, <1>5
<1> b \in Seq(Entry)
  BY <1>5
<1> WITNESS b \in Seq(Entry)
<1>10. QED
  BY <1>1, <1>2, <1>5, <1>6, <1>8, <1>9

LEMMA BufferStep ==
  ASSUME BatchAssumption PROVE BufferInv /\ [BatchNext]_batchVars => BufferInv'
<1> SUFFICES ASSUME BufferInv, [BatchNext]_batchVars PROVE BufferInv'
  OBVIOUS
<1>0. /\ published \in 0..MaxEvents /\ ready \in Seq(Events)
      /\ buffer \in Seq(Entry) /\ posts \subseteq PostRec
      /\ timer \in [pc : {"none", "sleep", "post"}, left : Nat]
      /\ rows \in [Events -> Nat] /\ settled \subseteq Events
      /\ Len(buffer) < BatchSize
  BY DEF BufferInv, BatchTypeOK, BufferBounded, Entry, PostRec
<1>00. /\ Sleeping \in [pc : {"none", "sleep", "post"}, left : Nat]
       /\ Posting \in [pc : {"none", "sleep", "post"}, left : Nat]
  BY DEF Sleeping, Posting, BatchAssumption
<1>a. ASSUME /\ published' \in 0..MaxEvents /\ ready' \in Seq(Events)
             /\ buffer' \in Seq(Entry) /\ posts' \subseteq PostRec
             /\ timer' \in [pc : {"none", "sleep", "post"}, left : Nat]
             /\ rows' \in [Events -> Nat] /\ settled' \subseteq Events
             /\ Len(buffer') < BatchSize
      PROVE  BufferInv'
  BY <1>a DEF BufferInv, BatchTypeOK, BufferBounded, Entry, PostRec
<1>b. ASSUME NEW b \in Seq(Entry), NEW who \in {"timer", "size"}, Flush(b, who)
      PROVE  /\ buffer' \in Seq(Entry) /\ Len(buffer') < BatchSize
             /\ posts' \subseteq PostRec
  <2>1. posts' \subseteq PostRec
    BY <1>0, <1>b, PostType DEF Flush
  <2>2. buffer' = <<>>
    BY <1>b DEF Flush
  <2>3. QED
    BY <2>1, <2>2 DEF BatchAssumption
<1>1. CASE Publish
  <2>1. published + 1 \in Events /\ published' = published + 1
    BY <1>0, <1>1 DEF Publish, Events, BatchAssumption
  <2>2. ready' = Append(ready, published + 1)
        /\ UNCHANGED <<buffer, posts, timer, rows, settled>>
    BY <1>1 DEF Publish
  <2>3. ready' \in Seq(Events)
    BY <1>0, <2>1, <2>2
  <2>4. published' \in 0..MaxEvents
    BY <1>0, <1>1, <2>1 DEF Events, BatchAssumption
  <2>5. QED
    BY <1>0, <1>a, <2>2, <2>3, <2>4
<1>2. CASE BufferEvent
  <2>1. PICK b \in Seq(Entry) :
          \/ Flush(b, "size")
          \/ Len(b) < BatchSize /\ buffer' = b /\ UNCHANGED posts
    BY <1>2, Entering
  <2>2. /\ buffer' \in Seq(Entry) /\ Len(buffer') < BatchSize
        /\ posts' \subseteq PostRec
    BY <1>0, <1>b, <2>1
  <2>3. /\ ready # <<>> /\ ready' = Tail(ready) /\ UNCHANGED <<published, rows, settled>>
        /\ timer' = timer \/ timer' = Sleeping
    BY <1>2 DEF BufferEvent
  <2>4. ready' \in Seq(Events)
    BY <1>0, <2>3
  <2>5. QED
    BY <1>0, <1>00, <1>a, <2>2, <2>3, <2>4
<1>3. CASE TimerFires
  <2>1. /\ UNCHANGED <<published, ready, rows, settled>>
        /\ timer' \in {Sleeping, Posting}
        /\ UNCHANGED <<buffer, posts>> \/ Flush(buffer, "timer")
    BY <1>3 DEF TimerFires
  <2>2. /\ buffer' \in Seq(Entry) /\ Len(buffer') < BatchSize
        /\ posts' \subseteq PostRec
    BY <1>0, <1>b, <2>1
  <2>3. QED
    BY <1>0, <1>00, <1>a, <2>1, <2>2
<1>4. CASE Tick
  <2> DEFINE older == [i \in DOMAIN buffer |-> [buffer[i] EXCEPT !.age = Older(@)]]
  <2>1. \A i \in DOMAIN buffer : [buffer[i] EXCEPT !.age = Older(@)] \in Entry
    BY <1>0, Aging
  <2>2. older \in Seq(Entry) /\ Len(older) = Len(buffer)
    BY <1>0, <2>1
  <2>3. posts' \subseteq PostRec
    <3>1. posts' = {Older1(p) : p \in posts}
      BY <1>4 DEF Tick, Older1
    <3>2. QED
      BY <1>0, <3>1, PostAging
  <2>4. timer' \in [pc : {"none", "sleep", "post"}, left : Nat]
    BY <1>0, <1>4 DEF Tick
  <2>5. QED
    BY <1>0, <1>4, <1>a, <2>2, <2>3, <2>4 DEF Tick
<1>5. ASSUME NEW p \in posts, PostEnds(p) PROVE BufferInv'
  <2>1. /\ UNCHANGED <<published, ready, buffer>> /\ posts' \subseteq posts
        /\ settled' = settled \union p.ids /\ p.ids \subseteq Events
        /\ timer' = timer \/ timer' = Sleeping
    BY <1>0, <1>5 DEF PostEnds, PostRec
  <2>2. rows' \in [Events -> Nat]
    BY <1>0, <1>5 DEF PostEnds
  <2>3. QED
    BY <1>0, <1>00, <1>a, <2>1, <2>2
<1>6. CASE UNCHANGED batchVars
  BY <1>6 DEF batchVars, BufferInv, BatchTypeOK, BufferBounded
<1>7. QED
  BY <1>1, <1>2, <1>3, <1>4, <1>5, <1>6 DEF BatchNext

LEMMA BufferInit == ASSUME BatchAssumption PROVE BatchInit => BufferInv
<1> SUFFICES ASSUME BatchInit PROVE BufferInv
  OBVIOUS
<1>1. published \in 0..MaxEvents /\ Len(buffer) < BatchSize
  BY DEF BatchAssumption, BatchInit
<1>2. timer \in [pc : {"none", "sleep", "post"}, left : Nat]
  BY DEF BatchInit, Idle
<1>3. ready \in Seq(Events) /\ buffer \in Seq(Entry) /\ rows \in [Events -> Nat]
  BY DEF BatchInit
<1>4. posts \subseteq PostRec /\ settled \subseteq Events
  BY DEF BatchInit
<1>5. QED
  BY <1>1, <1>2, <1>3, <1>4 DEF BufferInv, BatchTypeOK, BufferBounded, Entry, PostRec

-----------------------------------------------------------------------------
(* Where the events are.  Their numbers rise from the settled ones and those *)
(* being inserted, through the buffer, to those that wait for their task;    *)
(* no two POSTs and no settled event overlap.                                *)
Sent == published - Len(ready) - Len(buffer)

PostsApart ==
  /\ \A p \in posts : p.ids # {} /\ p.ids \intersect settled = {}
  /\ \A p, q \in posts : p.ids \intersect q.ids # {} => p = q

PlaceInv ==
  /\ Sent >= 0
  /\ \A i \in DOMAIN ready : ready[i] = published - Len(ready) + i
  /\ \A i \in DOMAIN buffer : buffer[i].id = Sent + i
  /\ InPosts \union settled = 1..Sent /\ PostsApart

LEMMA Consecutive ==
  ASSUME NEW b \in Seq(Entry), NEW n \in Nat, \A i \in DOMAIN b : b[i].id = n + i
  PROVE  IdsOf(b) = (n + 1)..(n + Len(b))
<1>1. DOMAIN b = 1..Len(b) /\ Len(b) \in Nat
  OBVIOUS
<1>2. ASSUME NEW e \in (n + 1)..(n + Len(b)) PROVE e \in IdsOf(b)
  <2>1. e - n \in DOMAIN b /\ n + (e - n) = e
    BY <1>1
  <2>2. b[e - n].id = e
    BY <2>1
  <2>3. QED
    BY <2>1, <2>2 DEF IdsOf
<1>3. ASSUME NEW i \in DOMAIN b PROVE b[i].id \in (n + 1)..(n + Len(b))
  BY <1>1
<1>4. QED
  BY <1>2, <1>3 DEF IdsOf

(* What was sent grows by the batch that is flushed. *)
LEMMA FlushPlaces ==
  ASSUME BufferInv, PlaceInv, NEW b \in Seq(Entry), b # <<>>,
         \A i \in DOMAIN b : b[i].id = Sent + i,
         NEW who \in {"timer", "size"}, Flush(b, who), UNCHANGED settled
  PROVE  /\ (InPosts \union settled)' = 1..(Sent + Len(b)) /\ PostsApart'
         /\ buffer' = <<>>
<1>1. Sent \in Nat /\ Len(b) \in Nat \ {0}
  BY DEF BufferInv, BatchTypeOK, PlaceInv, Sent
<1>2. IdsOf(b) = (Sent + 1)..(Sent + Len(b))
  BY <1>1, Consecutive
<1> DEFINE new == Post(b, who)
<1>3. new.ids = IdsOf(b) /\ posts' = posts \union {new} /\ buffer' = <<>>
  BY PostType DEF Flush
<1> HIDE DEF new
<1>4. \A p \in posts : p.ids \subseteq 1..Sent
  BY DEF PlaceInv, InPosts
<1>5. settled \subseteq 1..Sent
  BY DEF PlaceInv
<1>6. InPosts' = InPosts \union IdsOf(b)
  BY <1>3 DEF InPosts
<1>7. (InPosts \union settled)' = 1..(Sent + Len(b))
  <2>1. (InPosts \union settled)' = (1..Sent) \union IdsOf(b)
    BY <1>6 DEF PlaceInv
  <2>2. (1..Sent) \union ((Sent + 1)..(Sent + Len(b))) = 1..(Sent + Len(b))
    BY <1>1
  <2>3. QED
    BY <1>2, <2>1, <2>2
<1>8. (\A e \in IdsOf(b) : e \notin 1..Sent) /\ IdsOf(b) # {}
  <2>1. Sent + 1 \in (Sent + 1)..(Sent + Len(b))
    BY <1>1
  <2>2. \A e \in (Sent + 1)..(Sent + Len(b)) : e \notin 1..Sent
    BY <1>1
  <2>3. QED
    BY <1>2, <2>1, <2>2
<1>9. PostsApart'
  <2>1. \A p \in posts' : p.ids # {} /\ p.ids \intersect settled' = {}
    BY <1>3, <1>5, <1>8 DEF PlaceInv, PostsApart
  <2>2. \A p, q \in posts' : p.ids \intersect q.ids # {} => p = q
    BY <1>3, <1>4, <1>8 DEF PlaceInv, PostsApart
  <2>3. QED
    BY <2>1, <2>2 DEF PostsApart
<1>10. QED
  BY <1>3, <1>7, <1>9

LEMMA PlaceStep ==
  ASSUME BatchAssumption PROVE BufferInv /\ PlaceInv /\ [BatchNext]_batchVars => PlaceInv'
<1> SUFFICES ASSUME BufferInv, PlaceInv, [BatchNext]_batchVars PROVE PlaceInv'
  OBVIOUS
<1>0. /\ published \in Nat /\ ready \in Seq(Events) /\ buffer \in Seq(Entry)
      /\ posts \subseteq PostRec /\ Len(ready) \in Nat /\ Len(buffer) \in Nat
  BY DEF BufferInv, BatchTypeOK, Entry, PostRec
<1>1. CASE Publish
  <2>1. /\ published' = published + 1 /\ ready' = Append(ready, published + 1)
        /\ UNCHANGED <<buffer, posts, settled>>
    BY <1>1 DEF Publish
  <2>2. /\ Len(ready') = Len(ready) + 1
        /\ DOMAIN ready' = 1..(Len(ready) + 1)
        /\ \A i \in 1..Len(ready) : ready'[i] = ready[i]
        /\ ready'[Len(ready) + 1] = published + 1
    BY <1>0, <2>1
  <2>3. Sent' = Sent
    BY <1>0, <2>1, <2>2 DEF Sent
  <2>4. \A i \in DOMAIN ready' : ready'[i] = published' - Len(ready') + i
    <3> SUFFICES ASSUME NEW i \in 1..(Len(ready) + 1)
                 PROVE  ready'[i] = (published + 1) - (Len(ready) + 1) + i
      BY <2>1, <2>2
    <3>1. CASE i = Len(ready) + 1
      BY <1>0, <2>2, <3>1
    <3>2. CASE i # Len(ready) + 1
      <4>1. i \in 1..Len(ready) /\ i \in DOMAIN ready
        BY <1>0, <3>2
      <4>2. ready[i] = published - Len(ready) + i
        BY <4>1 DEF PlaceInv
      <4>3. QED
        BY <1>0, <2>2, <4>1, <4>2
    <3>3. QED
      BY <3>1, <3>2
  <2>5. QED
    BY <2>1, <2>3, <2>4 DEF PlaceInv, PostsApart, InPosts
<1>2. CASE BufferEvent
  <2>1. PICK b \in Seq(Entry) :
          /\ ready # <<>>
          /\ Len(b) = Len(buffer) + 1
          /\ \A i \in DOMAIN buffer : b[i] = buffer[i]
          /\ b[Len(b)].id = Head(ready)
          /\ \/ Flush(b, "size")
             \/ buffer' = b /\ UNCHANGED posts
    BY <1>2, Entering
  <2>2. ready' = Tail(ready) /\ UNCHANGED <<published, settled>>
    BY <1>2 DEF BufferEvent
  <2>3. /\ Len(ready) >= 1 /\ Len(ready') = Len(ready) - 1
        /\ \A i \in DOMAIN ready' : ready'[i] = ready[i + 1] /\ i + 1 \in DOMAIN ready
        /\ Head(ready) = ready[1] /\ 1 \in DOMAIN ready
    BY <1>0, <2>1, <2>2
  <2>4. \A i \in DOMAIN ready' : ready'[i] = published' - Len(ready') + i
    <3> SUFFICES ASSUME NEW i \in DOMAIN ready'
                 PROVE  ready'[i] = published' - Len(ready') + i
      OBVIOUS
    <3>1. ready[i + 1] = published - Len(ready) + (i + 1)
      BY <2>3 DEF PlaceInv
    <3>2. i \in Nat
      <4>1. ready' \in Seq(Events)
        BY <1>0, <2>1, <2>2
      <4>2. QED
        BY <4>1
    <3>3. QED
      BY <1>0, <2>2, <2>3, <3>1, <3>2
  <2>5. Head(ready) = published - Len(ready) + 1
    BY <2>3 DEF PlaceInv
  <2>6. \A i \in DOMAIN b : b[i].id = Sent + i
    <3> SUFFICES ASSUME NEW i \in 1..Len(b) PROVE b[i].id = Sent + i
      OBVIOUS
    <3>1. CASE i = Len(b)
      BY <1>0, <2>1, <2>5, <3>1 DEF Sent
    <3>2. CASE i # Len(b)
      <4>1. i \in DOMAIN buffer
        BY <1>0, <2>1, <3>2
      <4>2. QED
        BY <2>1, <4>1 DEF PlaceInv
    <3>3. QED
      BY <3>1, <3>2
  <2>7. CASE Flush(b, "size")
    <3>1. b # <<>>
      BY <1>0, <2>1
    <3>2. /\ (InPosts \union settled)' = 1..(Sent + Len(b)) /\ PostsApart'
          /\ buffer' = <<>>
      BY <2>2, <2>6, <2>7, <3>1, FlushPlaces
    <3>3. Sent' = Sent + Len(b)
      BY <1>0, <2>1, <2>2, <2>3, <3>2 DEF Sent
    <3>4. Sent' >= 0
      BY <1>0, <2>1, <3>3 DEF PlaceInv, Sent
    <3>5. QED
      BY <2>4, <3>2, <3>3, <3>4 DEF PlaceInv
  <2>8. CASE buffer' = b /\ UNCHANGED posts
    <3>1. Sent' = Sent
      <4>1. Sent' = published' - Len(ready') - Len(b)
        BY <2>8 DEF Sent
      <4>2. Len(ready) \in Nat /\ Len(buffer) \in Nat /\ published \in Int
        BY <1>0
      <4>3. published' = published
        BY <2>2
      <4>4. Len(ready') = Len(ready) - 1
        BY <2>3
      <4>5. Len(b) = Len(buffer) + 1
        BY <2>1
      <4>6. Sent' = published - (Len(ready) - 1) - (Len(buffer) + 1)
        BY <4>1, <4>3, <4>4, <4>5
      <4>7. QED
        BY <4>2, <4>6 DEF Sent
    <3>2. QED
      BY <2>2, <2>4, <2>6, <2>8, <3>1 DEF PlaceInv, PostsApart, InPosts
  <2>9. QED
    BY <2>1, <2>7, <2>8
<1>3. CASE TimerFires
  <2>1. UNCHANGED <<published, ready, settled>>
    BY <1>3 DEF TimerFires
  <2>2. CASE UNCHANGED <<buffer, posts>>
    BY <2>1, <2>2 DEF PlaceInv, PostsApart, InPosts, Sent
  <2>3. CASE buffer # <<>> /\ Flush(buffer, "timer")
    <3>1. /\ (InPosts \union settled)' = 1..(Sent + Len(buffer)) /\ PostsApart'
          /\ buffer' = <<>>
      BY <1>0, <2>1, <2>3, FlushPlaces DEF PlaceInv
    <3>2. Sent' = Sent + Len(buffer) /\ Sent' >= 0
      BY <1>0, <2>1, <3>1 DEF Sent, PlaceInv
    <3>3. QED
      BY <2>1, <3>1, <3>2 DEF PlaceInv
  <2>4. QED
    BY <1>3, <2>2, <2>3 DEF TimerFires
<1>4. CASE Tick
  <2>1. UNCHANGED <<published, ready, settled>> /\ posts' = {Older1(p) : p \in posts}
    BY <1>4 DEF Tick, Older1
  <2>2. /\ Len(buffer') = Len(buffer) /\ DOMAIN buffer' = DOMAIN buffer
        /\ \A i \in DOMAIN buffer : buffer'[i].id = buffer[i].id
    <3>1. buffer' = [i \in DOMAIN buffer |-> [buffer[i] EXCEPT !.age = Older(@)]]
      BY <1>4 DEF Tick
    <3>2. \A i \in DOMAIN buffer : buffer[i] \in Entry
      BY <1>0
    <3>3. \A i \in DOMAIN buffer : buffer'[i].id = buffer[i].id
      BY <3>1, <3>2, Aging
    <3>4. Len(buffer') = Len(buffer) /\ DOMAIN buffer' = DOMAIN buffer
      BY <1>0, <3>1
    <3>5. QED
      BY <3>3, <3>4
  <2>3. Sent' = Sent
    BY <2>1, <2>2 DEF Sent
  <2>4. \A p \in posts : Older1(p).ids = p.ids
    BY <1>0, PostAging
  <2>5. InPosts' = InPosts
    BY <2>1, <2>4 DEF InPosts
  <2>6. PostsApart'
    BY <2>1, <2>4 DEF PlaceInv, PostsApart
  <2>7. QED
    BY <2>1, <2>2, <2>3, <2>5, <2>6 DEF PlaceInv
<1>5. ASSUME NEW p \in posts, PostEnds(p) PROVE PlaceInv'
  <2>1. /\ UNCHANGED <<published, ready, buffer>> /\ posts' = posts \ {p}
        /\ settled' = settled \union p.ids
    BY <1>5 DEF PostEnds
  <2>2. (InPosts \union settled)' = InPosts \union settled
    BY <2>1 DEF InPosts
  <2>3. PostsApart'
    BY <2>1 DEF PlaceInv, PostsApart
  <2>4. Sent' = Sent
    BY <2>1 DEF Sent
  <2>5. QED
    BY <2>1, <2>2, <2>3, <2>4 DEF PlaceInv
<1>6. CASE UNCHANGED batchVars
  BY <1>6 DEF batchVars, PlaceInv, PostsApart, InPosts, Sent
<1>7. QED
  BY <1>1, <1>2, <1>3, <1>4, <1>5, <1>6 DEF BatchNext

LEMMA PlaceInit == BatchInit => PlaceInv
<1> SUFFICES ASSUME BatchInit PROVE PlaceInv
  OBVIOUS
<1>0. published = 0 /\ ready = <<>> /\ buffer = <<>>
  BY DEF BatchInit
<1>1. Sent = 0
  <2>1. published = 0 /\ Len(ready) = 0 /\ Len(buffer) = 0
    BY <1>0
  <2>2. QED
    BY <2>1 DEF Sent
<1>2. QED
  BY <1>1 DEF BatchInit, PlaceInv, PostsApart, InPosts

-----------------------------------------------------------------------------
(* The promise of EventSink.                                                 *)
PendingIs == Pending = (1..published) \ settled

LEMMA Places == BufferInv /\ PlaceInv => PendingIs /\ InOnePlace
<1> SUFFICES ASSUME BufferInv, PlaceInv PROVE PendingIs /\ InOnePlace
  OBVIOUS
<1>0. /\ published \in Nat /\ ready \in Seq(Events) /\ buffer \in Seq(Entry)
      /\ Len(ready) \in Nat /\ Len(buffer) \in Nat
      /\ Sent \in Nat /\ Sent + Len(buffer) + Len(ready) = published
  BY DEF BufferInv, BatchTypeOK, Entry, PlaceInv, Sent
<1>1. IdsOf(buffer) = (Sent + 1)..(Sent + Len(buffer))
  BY <1>0, Consecutive DEF PlaceInv
<1>2. InReady = (Sent + Len(buffer) + 1)..published
  <2>0. \A i \in DOMAIN ready : ready[i] = published - Len(ready) + i
    BY DEF PlaceInv
  <2>1. ASSUME NEW i \in 1..Len(ready) PROVE ready[i] = Sent + Len(buffer) + i
    <3>1. ready[i] = published - Len(ready) + i
      BY <1>0, <2>0
    <3>2. QED
      BY <1>0, <3>1
  <2>2. ASSUME NEW e \in (Sent + Len(buffer) + 1)..published PROVE e \in InReady
    <3>1. e - (Sent + Len(buffer)) \in 1..Len(ready)
      BY <1>0
    <3>2. ready[e - (Sent + Len(buffer))] = e
      BY <1>0, <2>1, <3>1
    <3>3. QED
      BY <1>0, <3>1, <3>2 DEF InReady
  <2>3. \A i \in 1..Len(ready) : ready[i] \in (Sent + Len(buffer) + 1)..published
    BY <1>0, <2>1
  <2>4. QED
    BY <1>0, <2>2, <2>3 DEF InReady
<1>3. InPosts \intersect settled = {} /\ InPosts \union settled = 1..Sent
  BY DEF PlaceInv, PostsApart, InPosts
<1>4. /\ (1..Sent) \union ((Sent + 1)..(Sent + Len(buffer)))
           \union ((Sent + Len(buffer) + 1)..published) = 1..published
      /\ \A e \in (Sent + 1)..(Sent + Len(buffer)) : e \notin 1..Sent
      /\ \A e \in (Sent + Len(buffer) + 1)..published : e \notin 1..Sent
  BY <1>0
<1>5. Pending \union settled = 1..published /\ Pending \intersect settled = {}
  BY <1>1, <1>2, <1>3, <1>4 DEF Pending
<1>6. PendingIs
  BY <1>5 DEF PendingIs
<1>7. Cardinality(InPosts) + Cardinality(settled) = Sent
  <2>1. IsFiniteSet(1..Sent) /\ Cardinality(1..Sent) = Sent
    <3>1. 1 \in Int /\ Sent \in Int
      BY <1>0
    <3>2. /\ IsFiniteSet(1..Sent)
          /\ Cardinality(1..Sent) = IF 1 > Sent THEN 0 ELSE Sent-1+1
      BY <3>1, FS_Interval, Zenon
    <3>3. QED
      BY <1>0, <3>2
  <2>2. IsFiniteSet(InPosts) /\ IsFiniteSet(settled)
    BY <1>3, <2>1, FS_Subset
  <2>3. Cardinality(InPosts) \in Nat /\ Cardinality(settled) \in Nat
    BY <2>2, FS_CardinalityType
  <2>4. Cardinality(InPosts \union settled)
          = Cardinality(InPosts) + Cardinality(settled)
              - Cardinality(InPosts \intersect settled)
    BY <2>2, FS_Union
  <2>5. Cardinality(InPosts \intersect settled) = 0
    BY <1>3, FS_EmptySet
  <2>6. Cardinality(InPosts \union settled) = Sent
    BY <1>3, <2>1
  <2>7. QED
    BY <1>0, <2>3, <2>4, <2>5, <2>6
<1>8. \A p, q \in posts : p # q => p.ids \intersect q.ids = {}
  BY DEF PlaceInv, PostsApart
<1>9. Len(ready) + Len(buffer) + Cardinality(InPosts) + Cardinality(settled) = published
  <2>1. Cardinality(InPosts) \in Nat /\ Cardinality(settled) \in Nat
    <3>1. IsFiniteSet(1..Sent)
      BY <1>0, FS_Interval
    <3>2. IsFiniteSet(InPosts) /\ IsFiniteSet(settled)
      BY <1>3, <3>1, FS_Subset
    <3>3. QED
      BY <3>2, FS_CardinalityType
  <2>2. QED
    BY <1>0, <1>7, <2>1
<1>10. QED
  BY <1>5, <1>6, <1>8, <1>9 DEF InOnePlace

LEMMA SinkStep ==
  ASSUME BatchAssumption
  PROVE  BufferInv /\ PlaceInv /\ PendingIs /\ PendingIs' /\ [BatchNext]_batchVars
           => [Sink!Next]_(Sink!svars)
<1> SUFFICES ASSUME BufferInv, PlaceInv, PendingIs, PendingIs', [BatchNext]_batchVars
             PROVE  Sink!Next \/ UNCHANGED <<Pending, rows, settled>>
  BY DEF Sink!svars
<1>0. published \in Nat /\ settled \subseteq 1..published /\ posts \subseteq PostRec
  BY DEF BufferInv, BatchTypeOK, PlaceInv, Sent, PostRec
<1>1. CASE Publish
  <2>1. /\ published' = published + 1 /\ published + 1 \in Events
        /\ UNCHANGED <<rows, settled>>
    BY <1>0, <1>1 DEF Publish, Events, BatchAssumption
  <2>2. published + 1 \notin Pending \union settled
    BY <1>0 DEF PendingIs
  <2>3. Pending' = Pending \union {published + 1}
    BY <1>0, <2>1, <2>2 DEF PendingIs
  <2>4. Sink!Accept(published + 1)
    BY <2>1, <2>2, <2>3 DEF Sink!Accept
  <2>5. QED
    BY <2>1, <2>4 DEF Sink!Next
<1>2. ASSUME UNCHANGED <<published, rows, settled>>
      PROVE  UNCHANGED <<Pending, rows, settled>>
  BY <1>2 DEF PendingIs
<1>3. CASE BufferEvent
  BY <1>2, <1>3 DEF BufferEvent
<1>4. CASE TimerFires
  BY <1>2, <1>4 DEF TimerFires
<1>5. CASE Tick
  BY <1>2, <1>5 DEF Tick
<1>6. ASSUME NEW p \in posts, PostEnds(p) PROVE Sink!Next
  <2>1. /\ UNCHANGED published /\ settled' = settled \union p.ids
        /\ \E stored \in BOOLEAN :
             rows' = [e \in Events |-> IF stored /\ e \in p.ids THEN rows[e] + 1 ELSE rows[e]]
    BY <1>6 DEF PostEnds
  <2>2. p.ids # {} /\ p.ids \subseteq Pending /\ p.ids \in SUBSET Events
    BY <1>0 DEF PlaceInv, PostsApart, Pending, InPosts, PostRec
  <2>3. Pending' = Pending \ p.ids
    BY <2>1 DEF PendingIs
  <2>4. \E stored \in BOOLEAN : Sink!Settle(p.ids, stored)
    BY <2>1, <2>2, <2>3 DEF Sink!Settle
  <2>5. QED
    BY <2>2, <2>4 DEF Sink!Next
<1>7. CASE UNCHANGED batchVars
  BY <1>2, <1>7 DEF batchVars
<1>8. QED
  BY <1>1, <1>3, <1>4, <1>5, <1>6, <1>7 DEF BatchNext

(* Every event that was published and not settled is pending, is asked of    *)
(* the database at most once, and is settled only in a POST: the buffer does *)
(* what EventSink promises, for every batch size and number of events.       *)
THEOREM SinkHolds == ASSUME BatchAssumption PROVE BatchSpec => SinkSpec
<1>1. BatchInit => Sink!Init
  BY DEF BatchInit, Sink!Init, Pending, InReady, InPosts, IdsOf
<1>2. QED
  BY <1>1, BufferInit, BufferStep, PlaceInit, PlaceStep, Places, SinkStep, PTL
     DEF BatchSpec, SinkSpec, Sink!Spec

-----------------------------------------------------------------------------
(* How long an event waits.  While the loop sleeps, an entry is no older     *)
(* than a POST and the part of the interval that is over; while it posts, no *)
(* older than the POST, because the buffer was empty when that began.        *)
Young(age) == \A i \in DOMAIN buffer : buffer[i].age <= age

WaitInv ==
  /\ timer.pc = "none" => buffer = <<>>
  /\ timer.pc = "sleep" =>
       timer.left <= BatchInterval /\ Young(BatchInterval - timer.left + PostTimeout)
  /\ timer.pc = "post" => \E p \in posts : p.by = "timer" /\ Young(p.age)
  /\ \A p \in posts : p.age <= PostTimeout /\ (p.by = "timer" => timer.pc = "post")
  /\ \A p, q \in posts : p.by = "timer" /\ q.by = "timer" => p = q

LEMMA WaitStep ==
  ASSUME BatchAssumption PROVE BufferInv /\ WaitInv /\ [BatchNext]_batchVars => WaitInv'
<1> SUFFICES ASSUME BufferInv, WaitInv, [BatchNext]_batchVars PROVE WaitInv'
  OBVIOUS
<1>0. /\ buffer \in Seq(Entry) /\ posts \subseteq PostRec
      /\ timer \in [pc : {"none", "sleep", "post"}, left : Nat]
      /\ BatchInterval \in Nat /\ PostTimeout \in Nat
  BY DEF BufferInv, BatchTypeOK, Entry, PostRec, BatchAssumption
<1>00. \A i \in DOMAIN buffer : buffer[i] \in Entry /\ buffer[i].age \in Nat
  <2>1. \A i \in DOMAIN buffer : buffer[i] \in Entry
    BY <1>0
  <2>2. QED
    BY <2>1 DEF Entry
<1>s. Sleeping.pc = "sleep" /\ Sleeping.left = BatchInterval /\ Posting.pc = "post"
  BY DEF Sleeping, Posting
<1>a. ASSUME NEW b \in Seq(Entry), NEW who \in {"timer", "size"}, Flush(b, who)
      PROVE  /\ buffer' = <<>> /\ (\A i \in DOMAIN buffer' : FALSE)
             /\ \E new : /\ posts' = posts \union {new} /\ new.by = who /\ new.age = 0
  BY <1>a, PostType DEF Flush
<1>1. CASE Publish
  BY <1>1 DEF Publish, WaitInv, Young
<1>2. CASE BufferEvent
  <2>1. PICK b \in Seq(Entry) :
          /\ Len(b) = Len(buffer) + 1
          /\ \A i \in DOMAIN buffer : b[i] = buffer[i]
          /\ b[Len(b)].age = 0
          /\ \/ Flush(b, "size")
             \/ buffer' = b /\ UNCHANGED posts
    BY <1>2, Entering
  <2>2. timer' = IF timer.pc = "none" THEN Sleeping ELSE timer
    BY <1>2 DEF BufferEvent
  <2>3. timer'.pc # "none" /\ (timer'.pc = "post" <=> timer.pc = "post")
    BY <1>0, <1>s, <2>2
  <2>4. CASE Flush(b, "size")
    <3>1. buffer' = <<>> /\ (\A i \in DOMAIN buffer' : FALSE)
      BY <1>a, <2>4
    <3>2. PICK new : posts' = posts \union {new} /\ new.by = "size" /\ new.age = 0
      BY <1>a, <2>4
    <3>3. timer'.pc = "sleep" => timer'.left <= BatchInterval
      BY <1>0, <1>s, <2>2 DEF WaitInv
    <3>4. timer'.pc = "post" => \E p \in posts' : p.by = "timer" /\ Young(p.age)'
      BY <2>3, <3>1, <3>2 DEF WaitInv, Young
    <3>5. \A p \in posts' : p.age <= PostTimeout /\ (p.by = "timer" => timer'.pc = "post")
      BY <1>0, <2>3, <3>2 DEF WaitInv
    <3>6. \A p, q \in posts' : p.by = "timer" /\ q.by = "timer" => p = q
      BY <3>2 DEF WaitInv
    <3>7. QED
      BY <2>3, <3>1, <3>3, <3>4, <3>5, <3>6 DEF WaitInv, Young
  <2>5. CASE buffer' = b /\ UNCHANGED posts
    <3>1. \A n \in Nat : Young(n) => \A i \in DOMAIN buffer' : buffer'[i].age <= n
      <4> SUFFICES ASSUME NEW n \in Nat, Young(n), NEW i \in 1..Len(b)
                   PROVE  b[i].age <= n
        BY <2>5
      <4>1. CASE i = Len(b)
        BY <2>1, <4>1
      <4>2. CASE i # Len(b)
        <5>1. i \in DOMAIN buffer
          BY <1>0, <2>1, <4>2
        <5>2. QED
          BY <2>1, <5>1 DEF Young
      <4>3. QED
        BY <4>1, <4>2
    <3>2. timer'.pc = "sleep" =>
            /\ timer'.left <= BatchInterval
            /\ \A i \in DOMAIN buffer' :
                 buffer'[i].age <= BatchInterval - timer'.left + PostTimeout
      <4>1. CASE timer.pc = "none"
        <5>1. buffer = <<>> /\ timer'.left = BatchInterval /\ Young(PostTimeout)
          BY <1>s, <2>2, <4>1 DEF WaitInv, Young
        <5>2. QED
          BY <1>0, <3>1, <5>1
      <4>2. CASE timer.pc = "sleep"
        <5>1. /\ timer' = timer /\ timer.left <= BatchInterval
              /\ Young(BatchInterval - timer.left + PostTimeout)
          BY <2>2, <4>2 DEF WaitInv
        <5>2. BatchInterval - timer.left + PostTimeout \in Nat
          BY <1>0, <5>1
        <5>3. QED
          BY <3>1, <5>1, <5>2
      <4>3. CASE timer.pc = "post"
        BY <2>3, <4>3
      <4>4. QED
        BY <1>0, <4>1, <4>2, <4>3
    <3>3. timer'.pc = "post" =>
            \E p \in posts' :
              p.by = "timer" /\ \A i \in DOMAIN buffer' : buffer'[i].age <= p.age
      <4> SUFFICES ASSUME timer'.pc = "post"
                   PROVE  \E p \in posts : p.by = "timer"
                            /\ \A i \in DOMAIN buffer' : buffer'[i].age <= p.age
        BY <2>5
      <4>1. PICK p \in posts : p.by = "timer" /\ Young(p.age)
        BY <2>3 DEF WaitInv
      <4>2. p.age \in Nat
        BY <1>0 DEF PostRec
      <4>3. QED
        BY <3>1, <4>1, <4>2
    <3>4. /\ \A p \in posts' : p.age <= PostTimeout /\ (p.by = "timer" => timer'.pc = "post")
          /\ \A p, q \in posts' : p.by = "timer" /\ q.by = "timer" => p = q
      BY <2>3, <2>5 DEF WaitInv
    <3>5. QED
      BY <2>3, <3>2, <3>3, <3>4 DEF WaitInv, Young
  <2>6. QED
    BY <2>1, <2>4, <2>5
<1>3. CASE TimerFires
  <2>1. CASE buffer = <<>> /\ timer' = Sleeping /\ UNCHANGED <<buffer, posts>>
    <3>1. \A i \in DOMAIN buffer' : FALSE
      BY <2>1
    <3>2. \A p \in posts : p.by # "timer"
      BY <1>3 DEF WaitInv, TimerFires
    <3>3. QED
      BY <1>0, <1>s, <2>1, <3>1, <3>2 DEF WaitInv, Young
  <2>2. CASE timer' = Posting /\ Flush(buffer, "timer")
    <3>1. buffer' = <<>> /\ (\A i \in DOMAIN buffer' : FALSE)
      BY <1>0, <1>a, <2>2
    <3>2. PICK new : posts' = posts \union {new} /\ new.by = "timer" /\ new.age = 0
      BY <1>0, <1>a, <2>2
    <3>3. \A p \in posts : p.by # "timer" /\ p.age <= PostTimeout
      BY <1>3 DEF WaitInv, TimerFires
    <3>4. timer'.pc = "post"
      BY <1>s, <2>2
    <3>5. \A p \in posts' : p.age <= PostTimeout /\ (p.by = "timer" => timer'.pc = "post")
      BY <1>0, <3>2, <3>3, <3>4
    <3>6. \A p, q \in posts' : p.by = "timer" /\ q.by = "timer" => p = q
      BY <3>2, <3>3
    <3>7. QED
      BY <3>1, <3>2, <3>4, <3>5, <3>6 DEF WaitInv, Young
  <2>3. QED
    BY <1>3, <2>1, <2>2 DEF TimerFires
<1>4. CASE Tick
  <2>1. posts' = {Older1(p) : p \in posts} /\ \A p \in posts : p.age < PostTimeout
    BY <1>4 DEF Tick, Older1
  <2>2. /\ DOMAIN buffer' = DOMAIN buffer
        /\ \A i \in DOMAIN buffer : buffer'[i].age \in {buffer[i].age, buffer[i].age + 1}
    <3>1. buffer' = [i \in DOMAIN buffer |-> [buffer[i] EXCEPT !.age = Older(@)]]
      BY <1>4 DEF Tick
    <3>2. QED
      BY <1>00, <3>1, Aging
  <2>3. \A p \in posts : /\ Older1(p).by = p.by /\ Older1(p).age = p.age + 1
                         /\ p.age \in Nat
    BY <1>0, PostAging DEF PostRec
  <2>4. /\ timer'.pc = timer.pc
        /\ timer.pc = "sleep" => timer.left > 0 /\ timer'.left = timer.left - 1
    BY <1>0, <1>4 DEF Tick
  <2>5. timer'.pc = "none" => buffer' = <<>>
    <3> SUFFICES ASSUME buffer = <<>> PROVE buffer' = <<>>
      BY <2>4 DEF WaitInv
    <3>1. buffer' = [i \in DOMAIN buffer |-> [buffer[i] EXCEPT !.age = Older(@)]]
      BY <1>4 DEF Tick
    <3>2. QED
      BY <3>1
  <2>6. timer'.pc = "sleep" =>
          /\ timer'.left <= BatchInterval
          /\ \A i \in DOMAIN buffer' :
               buffer'[i].age <= BatchInterval - timer'.left + PostTimeout
    <3> SUFFICES ASSUME timer.pc = "sleep"
                 PROVE  /\ timer'.left <= BatchInterval
                        /\ \A i \in DOMAIN buffer :
                             buffer'[i].age <= BatchInterval - timer'.left + PostTimeout
      BY <2>2, <2>4
    <3>1. /\ timer.left <= BatchInterval /\ timer.left \in Nat
          /\ timer.left > 0 /\ timer'.left = timer.left - 1
      BY <1>0, <2>4 DEF WaitInv
    <3>2. \A i \in DOMAIN buffer :
            buffer[i].age <= BatchInterval - timer.left + PostTimeout
      BY DEF WaitInv, Young
    <3>3. ASSUME NEW i \in DOMAIN buffer
          PROVE  buffer'[i].age <= BatchInterval - timer'.left + PostTimeout
      <4>1. /\ buffer[i].age \in Nat
            /\ buffer'[i].age = buffer[i].age \/ buffer'[i].age = buffer[i].age + 1
        BY <1>00, <2>2
      <4>2. buffer[i].age <= BatchInterval - timer.left + PostTimeout
        BY <3>2
      <4>3. QED
        BY <1>0, <3>1, <4>1, <4>2
    <3>4. QED
      BY <3>1, <3>3, <1>0
  <2>7. timer'.pc = "post" =>
          \E p \in posts' :
            p.by = "timer" /\ \A i \in DOMAIN buffer' : buffer'[i].age <= p.age
    <3> SUFFICES ASSUME timer.pc = "post"
                 PROVE  \E p \in posts' :
                          p.by = "timer" /\ \A i \in DOMAIN buffer' : buffer'[i].age <= p.age
      BY <2>4
    <3>1. PICK p \in posts : p.by = "timer" /\ Young(p.age)
      BY DEF WaitInv
    <3>2. Older1(p) \in posts' /\ Older1(p).by = "timer" /\ Older1(p).age = p.age + 1
      BY <2>1, <2>3, <3>1
    <3>3. \A i \in DOMAIN buffer' : buffer'[i].age <= p.age + 1
      BY <1>00, <2>2, <2>3, <3>1 DEF Young
    <3>4. QED
      BY <3>2, <3>3
  <2>8. \A p \in posts' : p.age <= PostTimeout /\ (p.by = "timer" => timer'.pc = "post")
    BY <1>0, <2>1, <2>3, <2>4 DEF WaitInv
  <2>9. \A p, q \in posts' : p.by = "timer" /\ q.by = "timer" => p = q
    BY <2>1, <2>3 DEF WaitInv
  <2>10. QED
    BY <2>5, <2>6, <2>7, <2>8, <2>9 DEF WaitInv, Young
<1>5. ASSUME NEW p \in posts, PostEnds(p) PROVE WaitInv'
  <2>1. /\ UNCHANGED buffer /\ posts' = posts \ {p}
        /\ timer' = IF p.by = "timer" THEN Sleeping ELSE timer
    BY <1>5 DEF PostEnds
  <2>2. CASE p.by = "timer"
    <3>1. timer.pc = "post" /\ Young(p.age) /\ p.age <= PostTimeout
      BY <2>2 DEF WaitInv
    <3>2. \A q \in posts' : q.by # "timer" /\ q.age <= PostTimeout
      BY <2>1, <2>2 DEF WaitInv
    <3>3. p.age \in Nat
      BY <1>0 DEF PostRec
    <3>4. \A i \in DOMAIN buffer' : buffer'[i].age <= BatchInterval - BatchInterval + PostTimeout
      BY <1>0, <1>00, <2>1, <3>1, <3>3 DEF Young
    <3>5. timer'.pc = "sleep" /\ timer'.left = BatchInterval
      BY <1>s, <2>1, <2>2
    <3>6. QED
      BY <1>0, <3>2, <3>4, <3>5 DEF WaitInv, Young
  <2>3. CASE p.by # "timer"
    <3>1. timer' = timer /\ \A q \in posts : q.by = "timer" => q \in posts'
      BY <2>1, <2>3
    <3>2. QED
      BY <2>1, <3>1 DEF WaitInv, Young
  <2>4. QED
    BY <2>2, <2>3
<1>6. CASE UNCHANGED batchVars
  BY <1>6 DEF batchVars, WaitInv, Young
<1>7. QED
  BY <1>1, <1>2, <1>3, <1>4, <1>5, <1>6 DEF BatchNext

LEMMA WaitInit == BatchInit => WaitInv
BY DEF BatchInit, Idle, WaitInv

(* The buffer stays below a full batch; an event is in one place, once; and  *)
(* none waits longer than an interval and a POST: whatever the sizes and     *)
(* however publishing, the loop and the POSTs interleave.                    *)
THEOREM BufferHoldsAlways == ASSUME BatchAssumption PROVE BatchSpec => []BufferHolds
<1>1. BufferInv /\ WaitInv => WaitBounded
  <2> SUFFICES ASSUME BufferInv, WaitInv, NEW i \in DOMAIN buffer
               PROVE  buffer[i].age <= BatchInterval + PostTimeout
    BY DEF WaitBounded
  <2>0. buffer[i] \in Entry
    <3>1. buffer \in Seq(Entry)
      BY DEF BufferInv, BatchTypeOK, Entry
    <3>2. QED
      BY <3>1
  <2>1. /\ buffer[i].age \in Nat /\ posts \subseteq PostRec
        /\ timer \in [pc : {"none", "sleep", "post"}, left : Nat]
        /\ BatchInterval \in Nat /\ PostTimeout \in Nat
    BY <2>0 DEF BufferInv, BatchTypeOK, Entry, PostRec, BatchAssumption
  <2>2. CASE timer.pc = "none"
    BY <2>2 DEF WaitInv
  <2>3. CASE timer.pc = "sleep"
    BY <2>1, <2>3 DEF WaitInv, Young
  <2>4. CASE timer.pc = "post"
    <3>1. PICK p \in posts : p.by = "timer" /\ Young(p.age) /\ p.age <= PostTimeout
      BY <2>4 DEF WaitInv
    <3>2. p.age \in Nat /\ buffer[i].age <= p.age
      BY <2>1, <3>1 DEF Young, PostRec
    <3>3. QED
      BY <2>1, <3>1, <3>2
  <2>5. QED
    BY <2>1, <2>2, <2>3, <2>4
<1>2. BufferInv /\ InOnePlace /\ WaitBounded => BufferHolds
  BY DEF BufferInv, BufferHolds
<1>3. QED
  BY <1>1, <1>2, BufferInit, BufferStep, PlaceInit, PlaceStep, Places,
     WaitInit, WaitStep, PTL DEF BatchSpec
=============================================================================
