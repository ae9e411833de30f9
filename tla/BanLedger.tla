----------------------------- MODULE BanLedger ------------------------------
(***************************************************************************)
(* What the mitigation store promises about bans, whatever its threads,    *)
(* its sweep and its database do: a source is barred only by a ban that    *)
(* was issued for it, never past the expiry given when it was issued, and  *)
(* a restart brings back nothing else.                                     *)
(***************************************************************************)
EXTENDS Integers

CONSTANTS IPs, Ttls

VARIABLES now, up, nextId,
          enforced,   \* the live ban of each source
          issued      \* every ban issued for it

ledger == <<now, up, nextId, enforced, issued>>

NoBan == [id |-> 0, expires |-> 0]
InForce(b, t) == IF b.expires > t THEN b ELSE NoBan

Init ==
    /\ now = 0 /\ up = TRUE /\ nextId = 1
    /\ enforced = [i \in IPs |-> NoBan]
    /\ issued = [i \in IPs |-> {}]

Issue(i, t) ==
    LET b == [id |-> nextId, expires |-> now + t] IN
    /\ up
    /\ enforced' = [enforced EXCEPT ![i] = InForce(b, now)]
    /\ issued' = [issued EXCEPT ![i] = @ \cup {b}]
    /\ nextId' = nextId + 1
    /\ UNCHANGED <<now, up>>

Lift(i) ==
    /\ up
    /\ enforced' = [enforced EXCEPT ![i] = NoBan]
    /\ UNCHANGED <<now, up, nextId, issued>>

(* Time alone ends a ban.                                                  *)
Tick ==
    /\ now' = now + 1
    /\ enforced' = [i \in IPs |-> InForce(enforced[i], now + 1)]
    /\ UNCHANGED <<up, nextId, issued>>

Stop ==
    /\ up /\ up' = FALSE
    /\ enforced' = [i \in IPs |-> NoBan]
    /\ UNCHANGED <<now, nextId, issued>>

Start ==
    /\ ~up /\ up' = TRUE
    /\ enforced' \in [IPs -> {NoBan} \cup UNION {issued[i] : i \in IPs}]
    /\ \A i \in IPs : enforced'[i] # NoBan =>
           enforced'[i] \in issued[i] /\ enforced'[i].expires > now
    /\ UNCHANGED <<now, nextId, issued>>

Next ==
    \/ \E i \in IPs, t \in Ttls : Issue(i, t)
    \/ \E i \in IPs : Lift(i)
    \/ Tick \/ Stop \/ Start

Spec == Init /\ [][Next]_ledger
=============================================================================
