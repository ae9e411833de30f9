--------------------------- MODULE RequestPromise ---------------------------
(***************************************************************************)
(* What the gateway promises about a request, whatever it inspects and     *)
(* decides on the way.  A request of a banned source is turned away when   *)
(* it arrives, and never otherwise reaches anything; an admitted one is    *)
(* refused or goes upstream once; only what went upstream is delivered or  *)
(* withheld.  A trusted request is neither refused nor withheld.  Whoever  *)
(* is banned because of a request sees no answer to that request.          *)
(***************************************************************************)
CONSTANTS Requests, Sources

VARIABLES
    banned,
    stage,      \* of each request
    trusted,    \* requests found to be of someone trusted
    from        \* the source each request came from

vars == <<banned, stage, trusted, from>>

Init ==
    /\ banned = {} /\ trusted = {}
    /\ stage = [r \in Requests |-> "none"]
    /\ from \in [Requests -> Sources]

Becomes(r, before, after) ==
    /\ stage[r] = before
    /\ stage' = [stage EXCEPT ![r] = after]

Arrive(r) ==
    /\ Becomes(r, "none", "arrived")
    /\ \E s \in Sources : from' = [from EXCEPT ![r] = s]
    /\ UNCHANGED <<banned, trusted>>

Admit(r) ==
    /\ Becomes(r, "arrived", "admitted") /\ from[r] \notin banned
    /\ UNCHANGED <<banned, trusted, from>>

TurnAway(r) ==
    /\ Becomes(r, "arrived", "turned away") /\ from[r] \in banned
    /\ UNCHANGED <<banned, trusted, from>>

Trust(r) ==
    /\ stage[r] = "admitted"
    /\ trusted' = trusted \cup {r}
    /\ UNCHANGED <<banned, stage, from>>

Ban(r) ==
    /\ stage[r] \in {"admitted", "forwarded"} /\ r \notin trusted
    /\ banned' = banned \cup {from[r]}
    /\ stage' = [stage EXCEPT ![r] = IF @ = "admitted" THEN "refused" ELSE "withheld"]
    /\ UNCHANGED <<trusted, from>>

Refuse(r) ==
    /\ r \notin trusted
    /\ Becomes(r, "admitted", "refused") \/ Becomes(r, "forwarded", "withheld")
    /\ UNCHANGED <<banned, trusted, from>>

Forward(r) == Becomes(r, "admitted", "forwarded") /\ UNCHANGED <<banned, trusted, from>>
Deliver(r) == Becomes(r, "forwarded", "delivered") /\ UNCHANGED <<banned, trusted, from>>

Fail(r) ==
    /\ stage[r] \in {"none", "admitted", "forwarded"}
    /\ stage' = [stage EXCEPT ![r] = "failed"]
    /\ UNCHANGED <<banned, trusted, from>>

Lift(s) == banned' = banned \ {s} /\ UNCHANGED <<stage, trusted, from>>

Next ==
    \/ \E s \in Sources : Lift(s)
    \/ \E r \in Requests :
          \/ Arrive(r) \/ Admit(r) \/ TurnAway(r) \/ Trust(r) \/ Ban(r) \/ Refuse(r)
          \/ Forward(r) \/ Deliver(r) \/ Fail(r)

Spec == Init /\ [][Next]_vars
=============================================================================
