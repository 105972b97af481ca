----------------------------- MODULE MCScheduler -----------------------------
(* Instances of Scheduler for TLC.                                           *)
EXTENDS Scheduler, TLC

CONSTANTS p1, p2

MCMinutes == 0..(MaxClock \div MinuteLen + CronHorizon)

\* "every" is "* * * * *", "bad" is an expression such as "x * * * *", and
\* "part" one such as "0,x * * * *", which matches minute 0 and raises at
\* every other.
MCCronMinutes == [c \in Crons |->
  IF c = "every" THEN MCMinutes ELSE IF c = "part" THEN {0} ELSE {}]
MCCronRaises == [c \in Crons |->
  IF c = "bad" THEN MCMinutes ELSE IF c = "part" THEN MCMinutes \ {0} ELSE {}]

\* One block, a query.
FlowOneRead == [p \in Pages |-> <<"read">>]

\* A query, and a page without blocks.
FlowOneOrNone == [p \in Pages |-> IF p = p1 THEN <<"read">> ELSE <<>>]

\* Two inserts with a computation between them, and a page without blocks.
FlowWrites == [p \in Pages |->
  IF p = p1 THEN <<"write", "pure", "write">> ELSE <<>>]

ReplicaSymmetry == Permutations(Replicas)
=============================================================================
