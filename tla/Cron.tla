-------------------------------- MODULE Cron --------------------------------
(***************************************************************************)
(* Cron expressions as the two tiers read them.  The scheduler             *)
(* (backend/scheduler.py: parse_cron, cron_matches, cron_next_run) decides *)
(* when a task runs and what next_run it stamps; the task list             *)
(* (frontend/app/api/tasks/route.js: cronNextRun) predicts the next run of *)
(* a task that was not stamped yet.  Both scan minute by minute.           *)
(*                                                                         *)
(* A text such as "0,1-3 * */2 * 1" is a sequence of fields; a field is *  *)
(* or a sequence of comma-separated parts; a number in a part is a token   *)
(* with the value Python's int and JavaScript's parseInt give it.          *)
(***************************************************************************)
EXTENDS Integers, Sequences

CONSTANTS
  MinutesPerHour, HoursPerDay, DaysPerMonth, MonthsPerYear,
  Horizon,  \* minutes a scan looks ahead (7 * 24 * 60 in the code)
  Exprs,    \* the expressions considered
  Starts    \* the minutes a scan may start from

DaysPerWeek == 7
NotANumber == -1   \* int raises ValueError; parseInt gives NaN

ASSUME ScanAssumption == Horizon \in Nat /\ Starts \subseteq Nat

ASSUME CalendarAssumption ==
  /\ MinutesPerHour \in Nat \ {0} /\ HoursPerDay \in Nat \ {0}
  /\ DaysPerMonth \in Nat \ {0} /\ MonthsPerYear \in Nat \ {0}

(* What int reads of digits, parseInt reads as the same number; a minus is   *)
(* the dash of a range.                                                      *)
Number == {n \in [py : Nat \union {NotANumber}, js : Nat \union {NotANumber}] :
             n.py # NotANumber => n.js = n.py}
FieldPart == [kind : {"value", "range", "step"}, a : Number, b : Number]
CronField == [star : BOOLEAN, parts : Seq(FieldPart)]

ASSUME ExprsAssumption == Exprs \subseteq Seq(CronField)

Langs == {"py", "js"}
Answers == {"yes", "no", "raises"}

(* The calendar of minute t, counted from 00:00 of a Monday, the first of    *)
(* the first month.                                                          *)
Day(t) == t \div (MinutesPerHour * HoursPerDay)
MinuteOf(t) == t % MinutesPerHour
HourOf(t) == (t \div MinutesPerHour) % HoursPerDay
DayOfMonth(t) == (Day(t) % DaysPerMonth) + 1
MonthIndex(t) == (Day(t) \div DaysPerMonth) % MonthsPerYear

(* datetime.month counts from 1, getUTCMonth() from 0. *)
MonthOf(lang, t) == MonthIndex(t) + 1

(* datetime.weekday() counts from Monday, Date.getUTCDay() from Sunday. *)
Weekday(lang, t) ==
  IF lang = "py" THEN Day(t) % DaysPerWeek ELSE (Day(t) + 1) % DaysPerWeek

-----------------------------------------------------------------------------
(* Matching one field against a value.                                       *)

Num(n) == [py |-> n, js |-> n]
Junk == [py |-> NotANumber, js |-> NotANumber]   \* "x", "MON", ""
Prefixed(n) == [py |-> NotANumber, js |-> n]     \* "5x", "1-5"

Star == [star |-> TRUE, parts |-> <<>>]
List(parts) == [star |-> FALSE, parts |-> parts]
Value(a) == [kind |-> "value", a |-> a, b |-> Num(0)]
Span(lo, hi) == [kind |-> "range", a |-> lo, b |-> hi]
Step(base, step) == [kind |-> "step", a |-> base, b |-> step]  \* * is Num(0)

YesIf(b) == IF b THEN "yes" ELSE "no"

StepAnyStart(a, b, v) == (v - a) % b = 0   \* mutant: values below the base too
StepHits(a, b, v) == (v - a) % b = 0 /\ v >= a

(* int() raises on a malformed number; int(lo) <= v <= int(hi) does not look *)
(* at hi when v is below lo; x % 0 raises.                                   *)
PartPy(p, v) ==
  LET a == p.a.py
      b == p.b.py
  IN CASE p.kind = "step" /\ (b = NotANumber \/ a = NotANumber \/ b = 0) -> "raises"
       [] p.kind = "step" /\ b > 0 -> YesIf(StepHits(a, b, v))
       [] p.kind = "range" /\ a = NotANumber -> "raises"
       [] p.kind = "range" /\ a # NotANumber ->
            IF v < a THEN "no" ELSE IF b = NotANumber THEN "raises" ELSE YesIf(v <= b)
       [] p.kind = "value" -> IF a = NotANumber THEN "raises" ELSE YesIf(v = a)

(* Every comparison with NaN is false, and so is x % 0 === 0. *)
PartJs(p, v) ==
  LET a == p.a.js
      b == p.b.js
  IN YesIf(/\ a # NotANumber
           /\ CASE p.kind = "step" -> b > 0 /\ StepHits(a, b, v)
                [] p.kind = "range" -> b # NotANumber /\ a <= v /\ v <= b
                [] p.kind = "value" -> v = a)

Part(lang, p, v) == IF lang = "py" THEN PartPy(p, v) ELSE PartJs(p, v)

(* The answer of the first element that is not x, and x if there is none:    *)
(* how a chain of "if ... return" or "and" decides.                          *)
FirstOther(answers, x) ==
  LET others == {i \in DOMAIN answers : answers[i] # x}
  IN IF others = {} THEN x
     ELSE answers[CHOOSE i \in others : \A j \in others : i <= j]

Field(lang, f, v) ==
  IF f.star THEN "yes"
  ELSE FirstOther([i \in DOMAIN f.parts |-> Part(lang, f.parts[i], v)], "no")

(* cron_matches, and the condition in the loop of cronNextRun. *)
Matches(lang, e, t) ==
  IF Len(e) # 5 THEN "no"
  ELSE LET vals == <<MinuteOf(t), HourOf(t), DayOfMonth(t), MonthOf(lang, t),
                     Weekday(lang, t)>>
       IN FirstOther([i \in 1..5 |-> Field(lang, e[i], vals[i])], "yes")

-----------------------------------------------------------------------------
(* The scan: cron_next_run and cronNextRun.                                  *)

VARIABLES
  tier,   \* the tier that scans
  expr,   \* the expression
  after,  \* the minute it scans from
  cand,   \* `candidate`
  left,   \* iterations left
  out     \* the minute found, or one of the three below

vars == <<tier, expr, after, cand, left, out>>

Scanning == -1
None == -2     \* None, null
Raised == -3   \* the exception left cron_next_run

Init ==
  /\ tier \in Langs /\ expr \in Exprs /\ after \in Starts
  /\ cand = after + 1 /\ left = Horizon /\ out = Scanning

LookOverrun ==   \* mutant: the candidate moves on before it is tested
  /\ out = Scanning /\ left > 0
  /\ \/ /\ Matches(tier, expr, cand + 1) = "yes"
        /\ out' = cand + 1 /\ cand' = cand + 1 /\ UNCHANGED left
     \/ /\ Matches(tier, expr, cand + 1) = "no"
        /\ cand' = cand + 1 /\ left' = left - 1 /\ UNCHANGED out
  /\ UNCHANGED <<tier, expr, after>>
(* One iteration: the candidate matches, raises, or is passed over. *)
Look ==
  /\ out = Scanning /\ left > 0
  /\ \/ /\ Matches(tier, expr, cand) = "yes"
        /\ out' = cand /\ UNCHANGED <<cand, left>>
     \/ /\ Matches(tier, expr, cand) = "raises"
        /\ out' = Raised /\ UNCHANGED <<cand, left>>
     \/ /\ Matches(tier, expr, cand) = "no"
        /\ cand' = cand + 1 /\ left' = left - 1 /\ UNCHANGED out
  /\ UNCHANGED <<tier, expr, after>>

GiveUp ==
  /\ out = Scanning /\ left = 0
  /\ out' = None
  /\ UNCHANGED <<tier, expr, after, cand, left>>

Next == Look \/ GiveUp

Spec == Init /\ [][Next]_vars

-----------------------------------------------------------------------------
(* Properties.                                                               *)

(* The scan's variables stay in range; a result is a minute after the start. *)
TypeOK ==
  /\ tier \in Langs /\ expr \in Exprs /\ after \in Nat
  /\ cand \in Nat /\ left \in 0..Horizon
  /\ out \in {Scanning, None, Raised} \union Nat

IsMinute(o) == o >= 0

(* The stamped next_run is the first matching minute after the run, and it   *)
(* is absent only when no minute of the horizon matches.                     *)
NextIsEarliest ==
  /\ IsMinute(out) =>
       /\ out > after /\ out <= after + Horizon
       /\ Matches(tier, expr, out) = "yes"
       /\ \A t \in (after + 1)..(out - 1) : Matches(tier, expr, t) = "no"
  /\ out = None =>
       \A t \in (after + 1)..(after + Horizon) : Matches(tier, expr, t) = "no"

(* The values a well-formed part stands for, as a set. *)
Denoted(p, dom) ==
  CASE p.kind = "value" -> {p.a.py} \intersect dom
    [] p.kind = "range" -> {v \in dom : p.a.py <= v /\ v <= p.b.py}
    [] p.kind = "step" -> {v \in dom : \E k \in 0..v : v = p.a.py + k * p.b.py}

WellFormedPart(p) ==
  /\ p.a.py # NotANumber /\ p.b.py # NotANumber
  /\ p.kind = "step" => p.b.py # 0
WellFormed(e) ==
  \A i \in DOMAIN e : \A j \in DOMAIN e[i].parts : WellFormedPart(e[i].parts[j])

(* In both languages the matcher of a well-formed field accepts exactly the  *)
(* union of what its parts denote, whatever their order, and never raises.   *)
FieldsDenote ==
  WellFormed(expr) =>
    \A i \in DOMAIN expr :
      LET dom == 0..(MinutesPerHour + DaysPerMonth)
          den == UNION {Denoted(expr[i].parts[j], dom) : j \in DOMAIN expr[i].parts}
      IN \A v \in dom :
           Field(tier, expr[i], v) = YesIf(expr[i].star \/ v \in den)

(* What the task list predicts is when the scheduler runs the task, for      *)
(* well-formed expressions that leave the weekday open.                      *)
TiersAgree ==
  WellFormed(expr) /\ Len(expr) = 5 /\ expr[5].star =>
    Matches("py", expr, cand) = Matches("js", expr, cand)

(* A field matches what it denotes, and the two tiers agree on the           *)
(* expressions that name no weekday.                                         *)
CronAgrees == FieldsDenote /\ TiersAgree
=============================================================================
