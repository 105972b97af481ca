------------------------------- MODULE MCCron -------------------------------
(* Instances of Cron for TLC: hours of 4 minutes, days of 3 hours, months of *)
(* 5 days, years of 2 months, weeks of 7 days.                               *)
EXTENDS Cron

Only(n) == List(<<Value(Num(n))>>)
Every(n) == List(<<Step(Num(0), Num(n))>>)

\* The presets of the schedule dialog, in these units.
Presets == {
  <<Every(2), Star, Star, Star, Star>>,          \* every n minutes
  <<Only(0), Star, Star, Star, Star>>,           \* every hour
  <<Only(0), Every(2), Star, Star, Star>>,       \* every n hours
  <<Only(0), Only(0), Star, Star, Star>>,        \* daily at midnight
  <<Only(0), Only(1), Star, Star, Star>>,        \* daily at a given hour
  <<Only(0), Only(0), Star, Star, Only(1)>>}     \* weekly

\* Custom expressions: lists, ranges, steps from a base, days, months, values
\* out of range, and a wrong number of fields.
Customs == {
  <<List(<<Value(Num(3)), Span(Num(0), Num(1))>>), Star, Star, Star, Star>>,
  <<List(<<Step(Num(2), Num(2))>>), Star, Star, Star, Star>>,
  <<Only(2), Star, Only(3), Star, Star>>,
  <<Only(2), Only(2), Only(1), Only(2), Star>>,
  <<Only(9), Star, Star, Star, Star>>,
  <<Only(0), Star, Star, Star, List(<<Span(Num(0), Num(4))>>)>>,
  <<Only(0), Star, Star, Star>>}

\* Malformed numbers: "x", "0,x", "0-x", "*/0" and "1-2-3" as minutes.
Malformed == {
  <<List(<<Value(Junk)>>), Star, Star, Star, Star>>,
  <<List(<<Value(Num(0)), Value(Junk)>>), Star, Star, Star, Star>>,
  <<List(<<Span(Num(2), Junk)>>), Star, Star, Star, Star>>,
  <<Every(0), Star, Star, Star, Star>>,
  <<List(<<Span(Num(1), Prefixed(2))>>), Star, Star, Star, Star>>}

AllExprs == Presets \union Customs \union Malformed
TwoWeeks == 0..(2 * DaysPerWeek * HoursPerDay * MinutesPerHour)
WeekInMinutes == DaysPerWeek * HoursPerDay * MinutesPerHour
=============================================================================
