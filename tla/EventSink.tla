------------------------------ MODULE EventSink ------------------------------
(***************************************************************************)
(* What the ClickHouse buffer of backend/channels.py promises: an event    *)
(* that was published is inserted at most once, and the best effort ends:  *)
(* it is inserted or given up, in groups.                                  *)
(***************************************************************************)
EXTENDS Naturals

CONSTANT Events

VARIABLES
  pending,  \* accepted, not yet inserted or given up
  rows,     \* rows of data_events: [Events -> Nat]
  settled   \* inserted or given up

svars == <<pending, rows, settled>>

Init == pending = {} /\ rows = [e \in Events |-> 0] /\ settled = {}

Accept(e) ==
  /\ e \notin pending \union settled
  /\ pending' = pending \union {e}
  /\ UNCHANGED <<rows, settled>>

Settle(S, stored) ==
  /\ S # {} /\ S \subseteq pending
  /\ pending' = pending \ S
  /\ settled' = settled \union S
  /\ rows' = [e \in Events |-> IF stored /\ e \in S THEN rows[e] + 1 ELSE rows[e]]

Next ==
  \/ \E e \in Events : Accept(e)
  \/ \E S \in SUBSET Events : \E stored \in BOOLEAN : Settle(S, stored)

Spec == Init /\ [][Next]_svars
=============================================================================
