-------------------------- MODULE TelemetryPromise --------------------------
(***************************************************************************)
(* What the telemetry sender promises about security events while the      *)
(* process lives: an event is turned away only when Capacity of them wait, *)
(* and the events taken in get one verdict each, in the order of arrival.  *)
(***************************************************************************)
EXTENDS Naturals, Sequences

CONSTANTS Events, Capacity

VARIABLES pending,    \* taken in and without a verdict, oldest first
          verdict

promise == <<pending, verdict>>

Init == pending = <<>> /\ verdict = [e \in Events |-> "new"]

Accept(e) ==
    /\ verdict[e] = "new"
    /\ Len(pending) <= Capacity
    /\ pending' = Append(pending, e)
    /\ verdict' = [verdict EXCEPT ![e] = "waiting"]

TurnAway(e) ==
    /\ verdict[e] = "new"
    /\ Len(pending) >= Capacity
    /\ verdict' = [verdict EXCEPT ![e] = "dropped"]
    /\ UNCHANGED pending

Settle(v) ==
    /\ pending # <<>>
    /\ pending' = Tail(pending)
    /\ verdict' = [verdict EXCEPT ![Head(pending)] = v]

(* The queue lives in memory only.                                         *)
Lose ==
    /\ pending' = <<>>
    /\ verdict' = [e \in Events |-> IF verdict[e] = "waiting" THEN "lost" ELSE verdict[e]]

Next ==
    \/ \E e \in Events : Accept(e) \/ TurnAway(e)
    \/ \E v \in {"sent", "failed"} : Settle(v)
    \/ Lose

Spec == Init /\ [][Next]_promise
=============================================================================
