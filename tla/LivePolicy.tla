----------------------------- MODULE LivePolicy -----------------------------
(***************************************************************************)
(* The policy the firewall enforces, kept in memory behind a lock and lost *)
(* at a restart, and the signed bundles operators save it to and restore   *)
(* it from.  Each admin handler holds the lock only for its own change;    *)
(* saving and restoring reach the database in steps of their own, and a    *)
(* restore whose digest does not match is refused, recorded and alerted.   *)
(***************************************************************************)
EXTENDS Integers, FiniteSets, Sequences, SequencesExt

CONSTANTS
    Admins,      \* threads that run admin handlers
    PolicyModes, RuleModes, Rules,
    Marker,      \* the rule tampering sets, phase14.tamper.marker
    DetectOnly,  \* the mode it sets it to
    Unset,       \* a rule without a global mode
    Lists,       \* route overrides, rate limits, behaviour overrides, exceptions
    Edited,      \* those with handlers that edit one row
    Keys,        \* what a list is searched by: the path prefix of a row
    Values,
    Refused,     \* values that import validation refuses, but no row handler
    Config,      \* the policy of the configuration file
    Imports,     \* policies operators import
    CriticalAt,  \* refusals of a bundle that make its alert critical
    Seconds,     \* the clock; a bundle's id is the second it was saved in
    MaxVersion, MaxRestarts, MaxRefusals    \* bounds

Row    == [key : Keys, value : Values]
Policy == [mode : PolicyModes, rules : [Rules -> RuleModes \cup {Unset}],
           lists : [Lists -> Seq(Row)]]

ASSUME PolicyAssumption ==
    /\ Config \in Policy /\ Imports \subseteq Policy
    /\ Marker \in Rules /\ DetectOnly \in RuleModes /\ Unset \notin RuleModes
    /\ Edited \subseteq Lists /\ Refused \subseteq Values
    /\ CriticalAt \in Nat \ {0}
    /\ MaxVersion \in Nat \ {0} /\ MaxRestarts \in Nat /\ MaxRefusals \in Nat

VARIABLES
    live, version, previous,   \* LivePolicyState
    bundles,                   \* policy_bundles rows, by id
    refusals,                  \* restore_refusals rows of each bundle
    alerts,                    \* restore_refusal_alerts rows
    task,                      \* what each thread is at, and the values it has read
    second, restarts,
    signed,                    \* history: what each bundle was saved with
    missed                     \* history: bundles a refusal statement failed for

state == <<live, version, previous>>
vars  == <<state, bundles, refusals, alerts, task, second, restarts, signed, missed>>

NoVersion == 0

(* Rows of equal key keep their order in the canonical form, the others    *)
(* do not; the hash is as good as what it is taken of.                     *)
Digest(p) ==
    [mode |-> p.mode, rules |-> p.rules,
     rows |-> [l \in Lists |-> [x \in Keys |->
                  SelectSeq(p.lists[l], LAMBDA r : r.key = x)]]]

Valid(p) == \A l \in Lists : \A i \in 1 .. Len(p.lists[l]) : p.lists[l][i].value \notin Refused

Saved  == DOMAIN bundles
Intact(b) == Digest(b.policy) = b.digest

Severities == {"high", "critical"}
Statuses   == {"open", "acknowledged", "resolved"}

IsBundle(b) ==
    /\ b.policy \in Policy /\ b.version \in 1 .. MaxVersion /\ b.run \in 0 .. MaxRestarts

Idle == [step |-> "idle"]

Steps  == {"insert", "apply"}
Refuse == {"record", "count", "alert"}

IsTask(t) ==
    \/ t = Idle
    \/ t.step \in Steps /\ t.id \in Seconds /\ IsBundle(t.bundle)
    \/ t.step \in Refuse /\ t.id \in Saved /\ t.count \in Nat

TypeOK ==
    /\ live \in Policy
    /\ version \in 1 .. MaxVersion /\ previous \in {NoVersion, version - 1}
    /\ Saved \subseteq Seconds /\ \A id \in Saved : IsBundle(bundles[id])
    /\ refusals \in [Seconds -> Nat]
    /\ \A a \in alerts : a.bundle \in Saved /\ a.severity \in Severities /\ a.status \in Statuses
    /\ DOMAIN task = Admins /\ \A a \in Admins : IsTask(task[a])
    /\ second \in Seconds /\ restarts \in 0 .. MaxRestarts
    /\ DOMAIN signed = Saved /\ missed \subseteq Seconds

Exported == [policy |-> live, digest |-> Digest(live), version |-> version, run |-> restarts]

Init ==
    /\ live = Config /\ version = 1 /\ previous = NoVersion
    /\ bundles = [id \in {} |-> 0] /\ signed = bundles
    /\ refusals = [id \in Seconds |-> 0] /\ alerts = {}
    /\ restarts = 0
    /\ second \in Seconds /\ \A t \in Seconds : second <= t
    /\ task = [a \in Admins |-> Idle]
    /\ missed = {}
-----------------------------------------------------------------------------
At(a, step) == task[a].step = step

Goto(a, t) == task' = [task EXCEPT ![a] = t]

Bump ==
    /\ version < MaxVersion
    /\ version' = version + 1
    /\ previous' = version

others == <<bundles, refusals, alerts, task, second, restarts, signed, missed>>

SetGlobalRuleMode(r, m) ==
    /\ live' = [live EXCEPT !.rules[r] = m]
    /\ Bump
    /\ UNCHANGED others

Rows(l)    == live.lists[l]
Holds(l, x) == {i \in 1 .. Len(Rows(l)) : Rows(l)[i].key = x}

(* The first row of the key is replaced in place, a new one goes last.     *)
UpsertRow(l, x, v) ==
    LET row == [key |-> x, value |-> v]
        at  == CHOOSE i \in Holds(l, x) : \A j \in Holds(l, x) : i <= j
    IN  /\ live' = [live EXCEPT !.lists[l] =
                       IF Holds(l, x) = {} THEN Append(@, row) ELSE [@ EXCEPT ![at] = row]]
        /\ Bump
        /\ UNCHANGED others

(* The rows of other keys, in their order.                                 *)
Retain(rows, x) ==
    FoldLeft(LAMBDA kept, row : IF row.key = x THEN kept ELSE Append(kept, row), <<>>, rows)

MutDeleteRow(l, x) ==    \* mutant: the version stays
    /\ Holds(l, x) # {}
    /\ live' = [live EXCEPT !.lists[l] = Retain(@, x)]
    /\ UNCHANGED <<version, previous, others>>

(* Every row of the key goes; without one, nothing changes.                *)
DeleteRow(l, x) ==
    /\ Holds(l, x) # {}
    /\ live' = [live EXCEPT !.lists[l] = Retain(@, x)]
    /\ Bump
    /\ UNCHANGED others

MutImport(p, keepMode) ==    \* mutant: the version is set back with the policy
    /\ Valid(p)
    /\ live' = [p EXCEPT !.mode = IF keepMode THEN live.mode ELSE @]
    /\ version' = 1 /\ previous' = version
    /\ UNCHANGED others

(* An import may leave the policy mode out.                                *)
Import(p, keepMode) ==
    /\ Valid(p)
    /\ live' = [p EXCEPT !.mode = IF keepMode THEN live.mode ELSE @]
    /\ Bump
    /\ UNCHANGED others
-----------------------------------------------------------------------------
(* save_policy_bundle: one read of the state, then one insert.             *)
SaveExport(a) ==
    /\ task[a] = Idle
    /\ Goto(a, [step |-> "insert", id |-> second, bundle |-> Exported])
    /\ UNCHANGED <<state, bundles, refusals, alerts, second, restarts, signed, missed>>

With(f, id, b) == [j \in DOMAIN f \cup {id} |-> IF j = id THEN b ELSE f[j]]

(* The id is the second between the read and the insert the code takes it  *)
(* in.  Another bundle of that second violates the primary key, and the    *)
(* save fails like any other statement that does.                          *)
SaveInsert(a, id, ok) ==
    /\ At(a, "insert")
    /\ task[a].id <= id /\ id <= second
    /\ IF ok /\ id \notin Saved
       THEN /\ bundles' = With(bundles, id, task[a].bundle)
            /\ signed' = With(signed, id, task[a].bundle.policy)
       ELSE UNCHANGED <<bundles, signed>>
    /\ Goto(a, Idle)
    /\ UNCHANGED <<state, refusals, alerts, second, restarts, missed>>

(* tamper_policy_bundle, the admin API's integrity test: content changes,  *)
(* the digest stays.                                                       *)
Tamper(id) ==
    /\ id \in Saved
    /\ bundles' = [bundles EXCEPT ![id].policy.rules[Marker] = DetectOnly]
    /\ UNCHANGED <<state, refusals, alerts, task, second, restarts, signed, missed>>

MutVerdict(b) == IF Valid(b.policy) THEN "apply" ELSE "idle"    \* mutant: digest unchecked

Verdict(b) ==
    IF ~Intact(b) THEN "record" ELSE IF Valid(b.policy) THEN "apply" ELSE "idle"

RestoreFetch(a, id) ==
    /\ task[a] = Idle /\ id \in Saved
    /\ LET verdict == Verdict(bundles[id]) IN
       /\ verdict = "apply" => Goto(a, [step |-> "apply", id |-> id, bundle |-> bundles[id]])
       /\ verdict = "record" => Goto(a, [step |-> "record", id |-> id, count |-> 0])
       /\ verdict = "idle" => UNCHANGED task
    /\ UNCHANGED <<state, bundles, refusals, alerts, second, restarts, signed, missed>>

RestoreApply(a) ==
    /\ At(a, "apply")
    /\ live' = task[a].bundle.policy
    /\ Bump
    /\ Goto(a, Idle)
    /\ UNCHANGED <<bundles, refusals, alerts, second, restarts, signed, missed>>

Fell(a, ok) == missed' = IF ok THEN missed ELSE missed \cup {task[a].id}

(* A refusal is recorded, counted with those before it, and alerted; each  *)
(* statement may fail, and the next is tried all the same.                 *)
RefusalRecord(a, ok) ==
    /\ At(a, "record")
    /\ refusals[task[a].id] < MaxRefusals /\ Cardinality(alerts) < MaxRefusals
    /\ refusals' = [refusals EXCEPT ![task[a].id] = IF ok THEN @ + 1 ELSE @]
    /\ Goto(a, [task[a] EXCEPT !.step = "count"])
    /\ Fell(a, ok)
    /\ UNCHANGED <<state, bundles, alerts, second, restarts, signed>>

RefusalCount(a, ok) ==
    /\ At(a, "count")
    /\ LET n == IF ok THEN refusals[task[a].id] ELSE 1
       IN  Goto(a, [task[a] EXCEPT !.step = "alert", !.count = n])
    /\ Fell(a, ok)
    /\ UNCHANGED <<state, bundles, refusals, alerts, second, restarts, signed>>

MutSeverity(n) == IF n > CriticalAt THEN "critical" ELSE "high"    \* mutant: off by one

Severity(n) == IF n >= CriticalAt THEN "critical" ELSE "high"

RefusalAlert(a, ok) ==
    /\ At(a, "alert")
    /\ alerts' = IF ok THEN alerts \cup {[bundle |-> task[a].id,
                                          severity |-> Severity(task[a].count),
                                          status |-> "open", nr |-> Cardinality(alerts)]}
                       ELSE alerts
    /\ Goto(a, Idle)
    /\ Fell(a, ok)
    /\ UNCHANGED <<state, bundles, refusals, second, restarts, signed>>

(* Acknowledge and resolve: neither looks at the status before, and no     *)
(* other column of the row they write back ever changes.                   *)
SetAlertStatus(x, status) ==
    /\ x \in alerts
    /\ alerts' = (alerts \ {x}) \cup {[x EXCEPT !.status = status]}
    /\ UNCHANGED <<state, bundles, refusals, task, second, restarts, signed, missed>>

Refusing(id) == \E a \in Admins : task[a].step \in Refuse /\ task[a].id = id

Restart ==
    /\ restarts < MaxRestarts
    /\ restarts' = restarts + 1
    /\ live' = Config /\ version' = 1 /\ previous' = NoVersion
    /\ task' = [a \in Admins |-> Idle]
    /\ missed' = missed \cup {id \in Saved : Refusing(id)}
    /\ UNCHANGED <<bundles, refusals, alerts, second, signed>>

Tick ==
    /\ \E t \in Seconds : t > second /\ second' = t
    /\ UNCHANGED <<state, bundles, refusals, alerts, task, restarts, signed, missed>>

Edit ==
    \/ \E r \in Rules, m \in RuleModes : SetGlobalRuleMode(r, m)
    \/ \E l \in Edited, x \in Keys : DeleteRow(l, x) \/ \E v \in Values : UpsertRow(l, x, v)
    \/ \E p \in Imports, keepMode \in BOOLEAN : Import(p, keepMode)

Bundle(a) ==
    \/ SaveExport(a) \/ RestoreApply(a)
    \/ \E id \in Seconds : RestoreFetch(a, id) \/ \E ok \in BOOLEAN : SaveInsert(a, id, ok)
    \/ \E ok \in BOOLEAN : RefusalRecord(a, ok) \/ RefusalCount(a, ok) \/ RefusalAlert(a, ok)

Next ==
    \/ Edit
    \/ \E a \in Admins : Bundle(a)
    \/ \E id \in Seconds : Tamper(id)
    \/ \E x \in alerts, s \in {"acknowledged", "resolved"} : SetAlertStatus(x, s)
    \/ Restart \/ Tick

Spec == Init /\ [][Next]_vars
-----------------------------------------------------------------------------
(* A restore puts in force exactly what the bundle was saved with, however *)
(* the row was changed since and whatever ran between its reading and its  *)
(* application.                                                            *)
OnlySignedRestored ==
    [][\A a \in Admins : (At(a, "apply") /\ task'[a] = Idle /\ restarts' = restarts) =>
           live' = signed[task[a].id]]_vars

(* A version names one policy: what was exported under the version now in  *)
(* force, in this run of the process, is the policy in force, and no later *)
(* version has been exported.                                              *)
VersionNamesPolicy ==
    \A id \in Saved : bundles[id].run = restarts =>
        /\ bundles[id].version <= version
        /\ bundles[id].version = version => signed[id] = live

(* Concurrent refusals never hide an escalation: a bundle refused          *)
(* CriticalAt times has a critical alert once its refusals are through,    *)
(* unless a statement failed; and none is critical before.                 *)
AlertsEscalate ==
    \A id \in Saved :
        LET critical == {x \in alerts : x.bundle = id /\ x.severity = "critical"} IN
        /\ critical # {} => refusals[id] >= CriticalAt
        /\ (refusals[id] >= CriticalAt /\ ~Refusing(id) /\ id \notin missed) => critical # {}
=============================================================================
