-------------------------- MODULE LivePolicyProofs --------------------------
(***************************************************************************)
(* Proofs about LivePolicy, for any admins, policies, imports, clocks and  *)
(* numbers of restarts.                                                    *)
(***************************************************************************)
EXTENDS LivePolicy, FiniteSetTheorems, WellFoundedInduction, TLAPS

Shaped(p) == p = [field \in {"mode", "rules", "lists"} |-> p[field]]

ShapedRules(p) == Shaped(p) /\ p.rules = [r \in Rules |-> p.rules[r]]

IsExport(b) ==
    /\ b = [field \in {"policy", "digest", "version", "run"} |-> b[field]]
    /\ ShapedRules(b.policy) /\ b.version \in Nat /\ b.run \in Nat

Fields(step) ==
    IF step \in Steps THEN {"step", "id", "bundle"}
    ELSE IF step \in Refuse THEN {"step", "id", "count"} ELSE {"step"}

IsFormed(t, saved) ==
    /\ t = [field \in Fields(t.step) |-> t[field]]
    /\ t.step \in Steps \cup Refuse \cup {"idle"}
    /\ t.step \in Steps => IsExport(t.bundle)
    /\ t.step = "apply" => t.id \in saved
    /\ t.step \in Refuse => t.id \in saved /\ t.count \in Nat

(* What the proofs need of the types of the variables.                     *)
Formed ==
    /\ ShapedRules(live) /\ version \in Nat \ {0} /\ restarts \in Nat
    /\ bundles = [id \in Saved |-> bundles[id]] /\ signed = [id \in Saved |-> signed[id]]
    /\ Saved \subseteq Seconds
    /\ \A id \in Saved : IsExport(bundles[id]) /\ ShapedRules(signed[id])
    /\ task = [a \in Admins |-> task[a]] /\ \A a \in Admins : IsFormed(task[a], Saved)

LEMMA Imported ==
    ASSUME NEW p \in Policy
    PROVE  ShapedRules(p)
  BY DEF Policy, ShapedRules, Shaped

LEMMA EditLeaves ==
    ASSUME Formed, Edit
    PROVE  ShapedRules(live') /\ version' = version + 1 /\ UNCHANGED others
  <1>1. CASE \E r \in Rules, m \in RuleModes : SetGlobalRuleMode(r, m)
    BY <1>1 DEF SetGlobalRuleMode, Formed, ShapedRules, Shaped, Bump
  <1>2. CASE \E l \in Edited, x \in Keys : DeleteRow(l, x)
    BY <1>2 DEF DeleteRow, Formed, ShapedRules, Shaped, Bump
  <1>3. CASE \E l \in Edited, x \in Keys, v \in Values : UpsertRow(l, x, v)
    BY <1>3 DEF UpsertRow, Formed, ShapedRules, Shaped, Bump
  <1>4. CASE \E p \in Imports, keepMode \in BOOLEAN : Import(p, keepMode)
    BY <1>4, PolicyAssumption, Imported DEF Import, ShapedRules, Shaped, Bump
  <1> QED
    BY <1>1, <1>2, <1>3, <1>4 DEF Edit

LEMMA Moving ==
    ASSUME Formed, NEW a \in Admins, NEW t, Goto(a, t)
    PROVE  /\ task' = [x \in Admins |-> task'[x]] /\ task'[a] = t
           /\ \A x \in Admins \ {a} : task'[x] = task[x]
  BY DEF Formed, Goto

LEMMA IdleFormed == (\A saved : IsFormed(Idle, saved)) /\ Idle.step = "idle"
  BY DEF IsFormed, Idle, Fields, Steps, Refuse

(* A thread takes a step and leaves the policy and the bundles alone.      *)
LEMMA TaskKeeps ==
    ASSUME Formed, NEW a \in Admins, NEW t, IsFormed(t, Saved), Goto(a, t), UNCHANGED <<live, bundles, restarts, signed>>,
           version' = version \/ version' = version + 1
    PROVE  Formed'
  <1>1. Saved' = Saved
    BY DEF Saved
  <1>2. \A x \in Admins : IsFormed(task'[x], Saved')
    BY <1>1, Moving DEF Formed
  <1> QED
    BY <1>1, <1>2, Moving DEF Formed

LEMMA SaveKeeps ==
    ASSUME Formed, NEW a \in Admins, NEW id \in Seconds, NEW ok, SaveInsert(a, id, ok)
    PROVE  Formed'
  <1>1. /\ task[a].step = "insert" /\ IsExport(task[a].bundle) /\ Goto(a, Idle) /\ UNCHANGED <<live, version, restarts>>
    BY DEF SaveInsert, At, Formed, IsFormed, Steps, state
  <1>2. /\ Saved \subseteq Saved' /\ Saved' \subseteq Seconds
        /\ bundles' = [j \in Saved' |-> bundles'[j]] /\ signed' = [j \in Saved' |-> signed'[j]]
        /\ \A j \in Saved' : IsExport(bundles'[j]) /\ ShapedRules(signed'[j])
    <2>1. CASE bundles' = With(bundles, id, task[a].bundle) /\ signed' = With(signed, id, task[a].bundle.policy)
      BY <1>1, <2>1 DEF With, Formed, Saved, IsExport
    <2>2. CASE UNCHANGED <<bundles, signed>>
      BY <2>2 DEF Formed, Saved
    <2> QED
      BY <2>1, <2>2 DEF SaveInsert
  <1>3. \A x \in Admins : IsFormed(task'[x], Saved)
    BY <1>1, Moving, IdleFormed DEF Formed
  <1>4. \A x \in Admins : IsFormed(task'[x], Saved')
    BY <1>2, <1>3 DEF IsFormed
  <1> QED
    BY <1>1, <1>2, <1>4, Moving DEF Formed

Tampered(p) == [p EXCEPT !.rules[Marker] = DetectOnly]

(* Tampering shows in the digest unless it changes nothing.                *)
LEMMA TamperShows ==
    ASSUME NEW p, ShapedRules(p)
    PROVE  /\ ShapedRules(Tampered(p)) /\ Tampered(Tampered(p)) = Tampered(p)
           /\ Digest(Tampered(p)) = Digest(p) => Tampered(p) = p
  <1>1. ShapedRules(Tampered(p)) /\ Tampered(Tampered(p)) = Tampered(p)
    BY DEF ShapedRules, Shaped, Tampered
  <1>2. ASSUME Digest(Tampered(p)) = Digest(p) PROVE Tampered(p) = p
    <2>1. Tampered(p).rules = p.rules
      BY <1>2 DEF Digest
    <2> QED
      BY <2>1 DEF ShapedRules, Shaped, Tampered
  <1> QED
    BY <1>1, <1>2

LEMMA TamperKeeps ==
    ASSUME Formed, NEW id \in Seconds, Tamper(id)
    PROVE  /\ Formed' /\ Saved' = Saved /\ id \in Saved
           /\ \A j \in Saved \ {id} : bundles'[j] = bundles[j]
           /\ bundles'[id].policy = Tampered(bundles[id].policy)
           /\ bundles'[id].digest = bundles[id].digest /\ bundles'[id].version = bundles[id].version
           /\ bundles'[id].run = bundles[id].run
  <1>1. id \in Saved /\ UNCHANGED <<state, task, restarts, signed>>
    BY DEF Tamper
  <1>2. /\ Saved' = Saved /\ bundles' = [j \in Saved |-> bundles'[j]]
        /\ \A j \in Saved \ {id} : bundles'[j] = bundles[j]
    BY <1>1 DEF Tamper, Formed, Saved
  <1>3. bundles'[id] = [bundles[id] EXCEPT !.policy = Tampered(@)]
    BY <1>1 DEF Tamper, Formed, Saved, Tampered
  <1>4. IsExport(bundles[id])
    BY <1>1 DEF Formed
  <1>5. /\ bundles'[id].policy = Tampered(bundles[id].policy)
        /\ bundles'[id].digest = bundles[id].digest /\ bundles'[id].version = bundles[id].version
        /\ bundles'[id].run = bundles[id].run
        /\ bundles'[id] = [field \in {"policy", "digest", "version", "run"} |-> bundles'[id][field]]
    BY <1>3, <1>4 DEF IsExport
  <1>6. IsExport(bundles'[id])
    BY <1>4, <1>5, TamperShows DEF IsExport
  <1>7. Formed'
    BY <1>1, <1>2, <1>6 DEF Formed, state, IsFormed, Saved
  <1> QED
    BY <1>1, <1>2, <1>5, <1>7

(* The steps of a thread that touch neither the policy nor the bundles:    *)
(* what it was at, what it is at next, and the identity of the bundle.     *)
Carries(a, t) ==
    \/ task[a] = Idle /\ t = [step |-> "insert", id |-> second, bundle |-> Exported]
    \/ \E id \in Saved :
         \/ Intact(bundles[id]) /\ t = [step |-> "apply", id |-> id, bundle |-> bundles[id]]
         \/ t = [step |-> "record", id |-> id, count |-> 0]
    \/ task[a].step = "record" /\ t = [task[a] EXCEPT !.step = "count"]
    \/ task[a].step = "count" /\ \E n \in Nat : t = [task[a] EXCEPT !.step = "alert", !.count = n]
    \/ task[a].step = "alert" /\ t = Idle

LEMMA CarriedFields ==
    ASSUME NEW a \in Admins, NEW t, Carries(a, t), IsFormed(task[a], Saved)
    PROVE  \/ t.step = "insert" /\ t.bundle = Exported
           \/ t.step = "apply" /\ \E id \in Saved : Intact(bundles[id]) /\ t.id = id /\ t.bundle = bundles[id]
           \/ t.step \in Refuse \cup {"idle"}
  <1>1. CASE task[a] = Idle /\ t = [step |-> "insert", id |-> second, bundle |-> Exported]
    BY <1>1
  <1>2. CASE \E id \in Saved : \/ Intact(bundles[id]) /\ t = [step |-> "apply", id |-> id, bundle |-> bundles[id]]
                               \/ t = [step |-> "record", id |-> id, count |-> 0]
    <2>1. PICK id \in Saved : \/ Intact(bundles[id]) /\ t = [step |-> "apply", id |-> id, bundle |-> bundles[id]]
                              \/ t = [step |-> "record", id |-> id, count |-> 0]
      BY <1>2
    <2> QED
      BY <2>1 DEF Refuse
  <1>3. CASE task[a].step \in {"record", "count"}
             /\ \/ t = [task[a] EXCEPT !.step = "count"]
                \/ \E n \in Nat : t = [task[a] EXCEPT !.step = "alert", !.count = n]
    <2>1. /\ task[a] = [field \in {"step", "id", "count"} |-> task[a][field]]
      BY <1>3 DEF IsFormed, Fields, Refuse, Steps
    <2>2. t.step \in {"count", "alert"}
      BY <1>3, <2>1
    <2> QED
      BY <2>2 DEF Refuse
  <1>4. CASE t = Idle
    BY <1>4 DEF Idle
  <1> QED
    BY <1>1, <1>2, <1>3, <1>4 DEF Carries

Quiet(a) ==
    SaveExport(a) \/ (\E id \in Seconds : RestoreFetch(a, id))
    \/ \E ok \in BOOLEAN : RefusalRecord(a, ok) \/ RefusalCount(a, ok) \/ RefusalAlert(a, ok)

RefusalsTyped == refusals = [id \in Seconds |-> refusals[id]] /\ \A id \in Seconds : refusals[id] \in Nat

LEMMA QuietCarries ==
    ASSUME Formed, RefusalsTyped, NEW a \in Admins, Quiet(a)
    PROVE  /\ UNCHANGED <<state, bundles, signed, second, restarts>>
           /\ UNCHANGED task \/ \E t : Carries(a, t) /\ Goto(a, t) /\ IsFormed(t, Saved)
  <1>1. CASE SaveExport(a)
    <2>1. IsFormed([step |-> "insert", id |-> second, bundle |-> Exported], Saved)
      BY DEF Formed, IsFormed, Fields, Steps, Refuse, Exported, IsExport
    <2> QED
      BY <1>1, <2>1 DEF SaveExport, Carries
  <1>2. CASE \E id \in Seconds : RestoreFetch(a, id)
    <2>1. PICK id \in Saved : RestoreFetch(a, id)
      BY <1>2 DEF RestoreFetch
    <2>2. /\ UNCHANGED <<state, bundles, signed, second, restarts>>
          /\ \/ UNCHANGED task
             \/ Intact(bundles[id]) /\ Goto(a, [step |-> "apply", id |-> id, bundle |-> bundles[id]])
             \/ Goto(a, [step |-> "record", id |-> id, count |-> 0])
      BY <2>1 DEF RestoreFetch, Verdict
    <2>3. /\ IsFormed([step |-> "apply", id |-> id, bundle |-> bundles[id]], Saved)
          /\ IsFormed([step |-> "record", id |-> id, count |-> 0], Saved)
      BY DEF Formed, IsFormed, Fields, Steps, Refuse
    <2> QED
      BY <2>2, <2>3 DEF Carries
  <1>3. CASE \E ok \in BOOLEAN : RefusalRecord(a, ok)
    <2>1. task[a].step = "record" /\ IsFormed(task[a], Saved)
      BY <1>3 DEF RefusalRecord, At, Formed
    <2>2. IsFormed([task[a] EXCEPT !.step = "count"], Saved)
      BY <2>1 DEF IsFormed, Fields, Steps, Refuse
    <2> QED
      BY <1>3, <2>1, <2>2 DEF RefusalRecord, Carries
  <1>4. CASE \E ok \in BOOLEAN : RefusalCount(a, ok)
    <2>1. task[a].step = "count" /\ IsFormed(task[a], Saved)
      BY <1>4 DEF RefusalCount, At, Formed
    <2>2. task[a].id \in Seconds
      BY <2>1 DEF IsFormed, Refuse, Formed
    <2>3. PICK n \in Nat : Goto(a, [task[a] EXCEPT !.step = "alert", !.count = n])
      BY <1>4, <2>2 DEF RefusalCount, RefusalsTyped
    <2>4. IsFormed([task[a] EXCEPT !.step = "alert", !.count = n], Saved)
      BY <2>1 DEF IsFormed, Fields, Steps, Refuse
    <2> QED
      BY <1>4, <2>1, <2>3, <2>4 DEF RefusalCount, Carries
  <1>5. CASE \E ok \in BOOLEAN : RefusalAlert(a, ok)
    BY <1>5, IdleFormed DEF RefusalAlert, At, Carries
  <1> QED
    BY <1>1, <1>2, <1>3, <1>4, <1>5 DEF Quiet

LEMMA RestartKeeps ==
    ASSUME Formed, Restart
    PROVE  Formed'
  <1>1. /\ UNCHANGED <<bundles, signed>> /\ live' = Config /\ version' = 1 /\ restarts' = restarts + 1
        /\ task' = [a \in Admins |-> Idle]
    BY DEF Restart
  <1>2. Saved' = Saved /\ ShapedRules(Config)
    BY <1>1, PolicyAssumption, Imported DEF Saved
  <1> QED
    BY <1>1, <1>2, IdleFormed DEF Formed

Sound == Formed /\ RefusalsTyped

LEMMA RefusalsKept ==
    ASSUME Sound, [Next]_vars
    PROVE  /\ RefusalsTyped' /\ \A id \in Seconds : refusals'[id] >= refusals[id]
  <1>1. \/ UNCHANGED refusals
        \/ \E a \in Admins, ok \in BOOLEAN :
             refusals' = [refusals EXCEPT ![task[a].id] = IF ok THEN @ + 1 ELSE @]
    BY EditLeaves DEF Sound, Next, vars, others, Bundle, SaveExport, SaveInsert, RestoreFetch, RestoreApply, RefusalRecord,
       RefusalCount, RefusalAlert, Tamper, SetAlertStatus, Restart, Tick
  <1> QED
    BY <1>1 DEF Sound, RefusalsTyped

LEMMA Invariant == Spec => []Sound
  <1>1. Init => Sound
    BY PolicyAssumption, Imported, IdleFormed DEF Init, Sound, Formed, RefusalsTyped, Saved
  <1>2. Sound /\ [Next]_vars => Sound'
    <2> SUFFICES ASSUME Sound, [Next]_vars PROVE Formed'
      BY RefusalsKept DEF Sound
    <2>0. Formed /\ RefusalsTyped
      BY DEF Sound
    <2>1. CASE Edit
      BY <2>0, <2>1, EditLeaves DEF others, Formed, Saved
    <2>2. CASE \E a \in Admins : Quiet(a)
      <3>1. PICK a \in Admins : Quiet(a)
        BY <2>2
      <3>2. CASE UNCHANGED task
        BY <2>0, <3>1, <3>2, QuietCarries DEF state, Formed, Saved
      <3>3. CASE \E t : Goto(a, t) /\ IsFormed(t, Saved)
        BY <2>0, <3>1, <3>3, QuietCarries, TaskKeeps DEF state
      <3> QED
        BY <2>0, <3>1, <3>2, <3>3, QuietCarries
    <2>3. CASE \E a \in Admins, id \in Seconds, ok \in BOOLEAN : SaveInsert(a, id, ok)
      BY <2>0, <2>3, SaveKeeps
    <2>4. CASE \E a \in Admins : RestoreApply(a)
      <3>1. PICK a \in Admins : RestoreApply(a)
        BY <2>4
      <3>2. /\ task[a].step = "apply" /\ IsFormed(task[a], Saved) /\ live' = task[a].bundle.policy
            /\ version' = version + 1 /\ Goto(a, Idle) /\ UNCHANGED <<bundles, restarts, signed>>
        BY <2>0, <3>1 DEF RestoreApply, At, Bump, Formed
      <3>3. Saved' = Saved /\ ShapedRules(live')
        BY <3>2 DEF Saved, IsFormed, Steps, IsExport
      <3>4. \A x \in Admins : IsFormed(task'[x], Saved')
        BY <2>0, <3>2, <3>3, Moving, IdleFormed DEF Formed
      <3> QED
        BY <2>0, <3>2, <3>3, <3>4, Moving DEF Formed
    <2>5. CASE \E id \in Seconds : Tamper(id)
      BY <2>0, <2>5, TamperKeeps
    <2>6. CASE Restart
      BY <2>0, <2>6, RestartKeeps
    <2>7. CASE \/ UNCHANGED vars \/ Tick
               \/ \E x \in alerts, s \in {"acknowledged", "resolved"} : SetAlertStatus(x, s)
      <3>1. UNCHANGED <<live, version, bundles, restarts, signed, task>>
        BY <2>7 DEF vars, state, Tick, SetAlertStatus
      <3> QED
        BY <2>0, <3>1 DEF Formed, Saved
    <2> QED
      BY <2>1, <2>2, <2>3, <2>4, <2>5, <2>6, <2>7 DEF Next, Bundle, Quiet
  <1> QED
    BY <1>1, <1>2, PTL DEF Spec
-----------------------------------------------------------------------------
(* What a bundle's digest was taken of, whatever became of its content,    *)
(* and that a thread about to apply a bundle holds what was saved.         *)
Signing ==
    /\ \A id \in Saved :
         /\ bundles[id].digest = Digest(signed[id])
         /\ bundles[id].policy \in {signed[id], Tampered(signed[id])}
    /\ \A a \in Admins :
         /\ task[a].step = "insert" => task[a].bundle.digest = Digest(task[a].bundle.policy)
         /\ task[a].step = "apply" => task[a].bundle.policy = signed[task[a].id]

LEMMA IntactIsSigned ==
    ASSUME Sound, Signing, NEW id \in Saved, Intact(bundles[id])
    PROVE  bundles[id].policy = signed[id]
  <1>1. ShapedRules(signed[id])
    BY DEF Sound, Formed
  <1> QED
    BY <1>1, TamperShows DEF Signing, Intact

LEMMA QuietSigning ==
    ASSUME Sound, Signing, NEW a \in Admins, Quiet(a)
    PROVE  Signing'
  <1>1. /\ UNCHANGED <<bundles, signed>>
        /\ UNCHANGED task \/ \E t : Carries(a, t) /\ Goto(a, t) /\ IsFormed(t, Saved)
    BY QuietCarries DEF Sound
  <1>2. CASE UNCHANGED task
    BY <1>1, <1>2 DEF Signing, Saved
  <1>3. ASSUME NEW t, Carries(a, t), Goto(a, t)
        PROVE  Signing'
    <2>1. /\ task'[a] = t /\ \A x \in Admins \ {a} : task'[x] = task[x]
          /\ IsFormed(task[a], Saved)
      BY <1>3, Moving DEF Sound, Formed
    <2>2. t.step = "insert" => t.bundle.digest = Digest(t.bundle.policy)
      BY <1>3, <2>1, CarriedFields DEF Exported, Refuse
    <2>3. t.step = "apply" => t.bundle.policy = signed[t.id]
      <3>1. \A id \in Saved : Intact(bundles[id]) => bundles[id].policy = signed[id]
        BY IntactIsSigned
      <3> QED
        BY <1>3, <2>1, <3>1, CarriedFields DEF Refuse
    <2> QED
      BY <1>1, <2>1, <2>2, <2>3 DEF Signing, Saved
  <1> QED
    BY <1>1, <1>2, <1>3

LEMMA SaveSigning ==
    ASSUME Sound, Signing, NEW a \in Admins, NEW id \in Seconds, NEW ok, SaveInsert(a, id, ok)
    PROVE  Signing'
  <1>1. /\ task[a].step = "insert" /\ Goto(a, Idle)
        /\ task[a].bundle.digest = Digest(task[a].bundle.policy)
    BY DEF SaveInsert, At, Signing
  <1>2. task'[a].step = "idle" /\ \A x \in Admins \ {a} : task'[x] = task[x]
    BY <1>1, Moving, IdleFormed DEF Sound
  <1>3. CASE UNCHANGED <<bundles, signed>>
    BY <1>2, <1>3 DEF Signing, Saved
  <1>4. CASE /\ id \notin Saved /\ bundles' = With(bundles, id, task[a].bundle)
             /\ signed' = With(signed, id, task[a].bundle.policy)
    <2>1. /\ Saved' = Saved \cup {id}
          /\ \A j \in Saved : bundles'[j] = bundles[j] /\ signed'[j] = signed[j]
          /\ bundles'[id] = task[a].bundle /\ signed'[id] = task[a].bundle.policy
      BY <1>4 DEF With, Saved, Sound, Formed
    <2>2. \A x \in Admins : task[x].step = "apply" => task[x].id \in Saved
      BY DEF Sound, Formed, IsFormed
    <2>3. \A j \in Saved' : /\ bundles'[j].digest = Digest(signed'[j])
                            /\ bundles'[j].policy \in {signed'[j], Tampered(signed'[j])}
      BY <1>1, <2>1 DEF Signing
    <2>4. \A x \in Admins : /\ task'[x].step = "insert" => task'[x].bundle.digest = Digest(task'[x].bundle.policy)
                            /\ task'[x].step = "apply" => task'[x].bundle.policy = signed'[task'[x].id]
      BY <1>2, <2>1, <2>2 DEF Signing
    <2> QED
      BY <2>3, <2>4 DEF Signing
  <1> QED
    BY <1>3, <1>4 DEF SaveInsert

LEMMA TamperSigning ==
    ASSUME Sound, Signing, NEW id \in Seconds, Tamper(id)
    PROVE  Signing'
  <1>1. UNCHANGED <<task, signed>> /\ Formed
    BY DEF Tamper, Sound
  <1>2. /\ Saved' = Saved /\ id \in Saved
        /\ \A j \in Saved \ {id} : bundles'[j] = bundles[j]
        /\ bundles'[id].policy = Tampered(bundles[id].policy) /\ bundles'[id].digest = bundles[id].digest
    BY <1>1, TamperKeeps
  <1>3. ShapedRules(signed[id])
    BY <1>1, <1>2 DEF Formed
  <1>4. Tampered(Tampered(signed[id])) = Tampered(signed[id])
    BY <1>3, TamperShows
  <1>5. \A j \in Saved' : /\ bundles'[j].digest = Digest(signed'[j])
                          /\ bundles'[j].policy \in {signed'[j], Tampered(signed'[j])}
    BY <1>1, <1>2, <1>4 DEF Signing
  <1> QED
    BY <1>1, <1>5 DEF Signing

LEMMA SigningInvariant == Spec => []Signing
  <1>1. Init => Signing
    BY DEF Init, Signing, Saved, Idle
  <1>2. Sound /\ Signing /\ [Next]_vars => Signing'
    <2> SUFFICES ASSUME Sound, Signing, [Next]_vars PROVE Signing'
      OBVIOUS
    <2>1. CASE Edit
      BY <2>1, EditLeaves DEF Sound, others, Signing, Saved
    <2>2. CASE \E a \in Admins : Quiet(a)
      BY <2>2, QuietSigning
    <2>3. CASE \E a \in Admins, id \in Seconds, ok \in BOOLEAN : SaveInsert(a, id, ok)
      BY <2>3, SaveSigning
    <2>4. CASE \E a \in Admins : RestoreApply(a)
      <3>1. PICK a \in Admins : RestoreApply(a)
        BY <2>4
      <3>2. Goto(a, Idle) /\ UNCHANGED <<bundles, signed>>
        BY <3>1 DEF RestoreApply
      <3>3. task'[a].step = "idle" /\ \A x \in Admins \ {a} : task'[x] = task[x]
        BY <3>2, Moving, IdleFormed DEF Sound
      <3> QED
        BY <3>2, <3>3 DEF Signing, Saved
    <2>5. CASE \E id \in Seconds : Tamper(id)
      BY <2>5, TamperSigning
    <2>6. CASE Restart
      BY <2>6 DEF Restart, Signing, Saved, Idle
    <2>7. CASE \/ UNCHANGED vars \/ Tick
               \/ \E x \in alerts, s \in {"acknowledged", "resolved"} : SetAlertStatus(x, s)
      BY <2>7 DEF vars, Tick, SetAlertStatus, Signing, Saved
    <2> QED
      BY <2>1, <2>2, <2>3, <2>4, <2>5, <2>6, <2>7 DEF Next, Bundle, Quiet
  <1> QED
    BY <1>1, <1>2, Invariant, PTL DEF Spec

(* Only the thread itself ends a restore, short of a restart.              *)
LEMMA RestoreEnds ==
    ASSUME Sound, [Next]_vars, NEW a \in Admins, At(a, "apply"), task'[a] = Idle, restarts' = restarts
    PROVE  live' = task[a].bundle.policy
  <1>1. task[a].step = "apply" /\ task'[a].step = "idle" /\ Formed
    BY IdleFormed DEF At, Sound
  <1>2. CASE UNCHANGED task
    BY <1>1, <1>2
  <1>3. ASSUME NEW x \in Admins, Bundle(x) PROVE live' = task[a].bundle.policy
    <2>1. x # a => task'[a] = task[a]
      BY <1>1, <1>3, Moving
         DEF Bundle, SaveExport, SaveInsert, RestoreFetch, RestoreApply, RefusalRecord, RefusalCount,
             RefusalAlert, Goto, Verdict, Formed
    <2>2. x = a
      BY <1>1, <2>1
    <2>3. RestoreApply(a)
      BY <1>1, <1>3, <2>2
         DEF Bundle, SaveExport, SaveInsert, RestoreFetch, RefusalRecord, RefusalCount, RefusalAlert, At, Idle
    <2> QED
      BY <2>3 DEF RestoreApply
  <1>4. CASE Restart
    BY <1>4 DEF Restart, Sound, Formed
  <1> QED
    BY <1>1, <1>2, <1>3, <1>4, EditLeaves DEF Next, others, Tamper, SetAlertStatus, Tick, vars

(* A restore puts in force exactly what the bundle was saved with, however *)
(* its row was changed since and whatever ran between its reading and its  *)
(* application.                                                            *)
THEOREM OnlySignedRestoredHolds == Spec => OnlySignedRestored
  <1>1. Sound /\ Signing /\ [Next]_vars =>
            [\A a \in Admins : (At(a, "apply") /\ task'[a] = Idle /\ restarts' = restarts) =>
                live' = signed[task[a].id]]_vars
    BY RestoreEnds DEF Signing, At
  <1> QED
    BY <1>1, Invariant, SigningInvariant, PTL DEF Spec, OnlySignedRestored
-----------------------------------------------------------------------------
(* What was exported in this run of the process has a version already      *)
(* given, and the policy of the version in force is the one in force; of a *)
(* thread about to save, the same.                                         *)
Versions ==
    /\ \A id \in Saved :
         /\ bundles[id].run <= restarts
         /\ bundles[id].run = restarts =>
              /\ bundles[id].version <= version
              /\ bundles[id].version = version => signed[id] = live
    /\ \A a \in Admins : task[a].step = "insert" =>
         /\ task[a].bundle.run = restarts /\ task[a].bundle.version <= version
         /\ task[a].bundle.version = version => task[a].bundle.policy = live

(* A new version: everything exported before is of an earlier one.         *)
LEMMA BumpVersions ==
    ASSUME Sound, Versions, version' = version + 1, UNCHANGED <<bundles, restarts, signed>>,
           \A a \in Admins : task'[a] = task[a] \/ task'[a].step = "idle"
    PROVE  Versions'
  <1>1. /\ version \in Nat /\ Saved' = Saved
        /\ \A id \in Saved : bundles[id].version \in Nat
        /\ \A a \in Admins : task[a].step = "insert" => task[a].bundle.version \in Nat
    BY DEF Sound, Formed, IsExport, IsFormed, Saved, Steps
  <1> QED
    BY <1>1 DEF Versions

LEMMA QuietVersions ==
    ASSUME Sound, Versions, NEW a \in Admins, Quiet(a)
    PROVE  Versions'
  <1>1. /\ UNCHANGED <<live, version, bundles, signed, restarts>>
        /\ UNCHANGED task \/ \E t : Carries(a, t) /\ Goto(a, t) /\ IsFormed(t, Saved)
    BY QuietCarries DEF Sound, state
  <1>2. CASE UNCHANGED task
    BY <1>1, <1>2 DEF Versions, Saved
  <1>3. ASSUME NEW t, Carries(a, t), Goto(a, t)
        PROVE  Versions'
    <2>1. /\ task'[a] = t /\ \A x \in Admins \ {a} : task'[x] = task[x]
          /\ IsFormed(task[a], Saved) /\ version \in Nat
      BY <1>3, Moving DEF Sound, Formed
    <2>2. t.step = "insert" => t.bundle = Exported
      BY <1>3, <2>1, CarriedFields DEF Refuse
    <2> QED
      BY <1>1, <2>1, <2>2 DEF Versions, Saved, Exported
  <1> QED
    BY <1>1, <1>2, <1>3

LEMMA SaveVersions ==
    ASSUME Sound, Versions, NEW a \in Admins, NEW id \in Seconds, NEW ok, SaveInsert(a, id, ok)
    PROVE  Versions'
  <1>1. task[a].step = "insert" /\ Goto(a, Idle) /\ UNCHANGED <<live, version, restarts>> /\ restarts \in Nat
    BY DEF SaveInsert, At, state, Sound, Formed
  <1>2. task'[a].step = "idle" /\ \A x \in Admins \ {a} : task'[x] = task[x]
    BY <1>1, Moving, IdleFormed DEF Sound
  <1>3. CASE UNCHANGED <<bundles, signed>>
    BY <1>1, <1>2, <1>3 DEF Versions, Saved
  <1>4. CASE /\ id \notin Saved /\ bundles' = With(bundles, id, task[a].bundle)
             /\ signed' = With(signed, id, task[a].bundle.policy)
    <2>1. /\ Saved' = Saved \cup {id}
          /\ \A j \in Saved : bundles'[j] = bundles[j] /\ signed'[j] = signed[j]
          /\ bundles'[id] = task[a].bundle /\ signed'[id] = task[a].bundle.policy
      BY <1>4 DEF With, Saved, Sound, Formed
    <2> QED
      BY <1>1, <1>2, <2>1 DEF Versions
  <1> QED
    BY <1>3, <1>4 DEF SaveInsert

(* A version names one policy as long as the process runs, and no later    *)
(* one was exported: what an operator reads of a bundle tells which of the *)
(* policies in force it was, whatever was edited or restored meanwhile.    *)
THEOREM VersionNamesPolicyHolds == Spec => []VersionNamesPolicy
  <1>1. Init => Versions
    BY DEF Init, Versions, Saved, Idle
  <1>2. Sound /\ Versions /\ [Next]_vars => Versions'
    <2> SUFFICES ASSUME Sound, Versions, [Next]_vars PROVE Versions'
      OBVIOUS
    <2>1. CASE Edit
      BY <2>1, EditLeaves, BumpVersions DEF Sound, others
    <2>2. CASE \E a \in Admins : Quiet(a)
      BY <2>2, QuietVersions
    <2>3. CASE \E a \in Admins, id \in Seconds, ok \in BOOLEAN : SaveInsert(a, id, ok)
      BY <2>3, SaveVersions
    <2>4. CASE \E a \in Admins : RestoreApply(a)
      <3>1. PICK a \in Admins : RestoreApply(a)
        BY <2>4
      <3>2. Goto(a, Idle) /\ version' = version + 1 /\ UNCHANGED <<bundles, restarts, signed>>
        BY <3>1 DEF RestoreApply, Bump
      <3>3. task'[a].step = "idle" /\ \A x \in Admins \ {a} : task'[x] = task[x]
        BY <3>2, Moving, IdleFormed DEF Sound
      <3> QED
        BY <3>2, <3>3, BumpVersions
    <2>5. CASE \E id \in Seconds : Tamper(id)
      <3>1. PICK id \in Seconds : Tamper(id)
        BY <2>5
      <3>2. /\ Saved' = Saved /\ \A j \in Saved : bundles'[j].version = bundles[j].version /\ bundles'[j].run = bundles[j].run
            /\ UNCHANGED <<live, version, restarts, signed, task>>
        BY <3>1, TamperKeeps DEF Sound, Tamper, state
      <3> QED
        BY <3>2 DEF Versions
    <2>6. CASE Restart
      BY <2>6 DEF Restart, Versions, Saved, Idle, Sound, Formed, IsExport
    <2>7. CASE \/ UNCHANGED vars \/ Tick
               \/ \E x \in alerts, s \in {"acknowledged", "resolved"} : SetAlertStatus(x, s)
      BY <2>7 DEF vars, state, Tick, SetAlertStatus, Versions, Saved
    <2> QED
      BY <2>1, <2>2, <2>3, <2>4, <2>5, <2>6, <2>7 DEF Next, Bundle, Quiet
  <1>3. Versions => VersionNamesPolicy
    BY DEF Versions, VersionNamesPolicy
  <1> QED
    BY <1>1, <1>2, <1>3, Invariant, PTL DEF Spec
-----------------------------------------------------------------------------
(* Refusals that reach the threshold have raised a critical alert, or a    *)
(* thread is about to, unless a statement failed; a thread's count is one  *)
(* that was there, or the one that stands for a count that failed.         *)
IsAlert(x) ==
    /\ x = [field \in {"bundle", "severity", "status", "nr"} |-> x[field]]
    /\ x.severity = "critical" => x.bundle \in Seconds /\ refusals[x.bundle] >= CriticalAt

Raised(id) == \E x \in alerts : x.bundle = id /\ x.severity = "critical"

Raising(a, id) ==
    /\ task[a].step = "count" \/ (task[a].step = "alert" /\ task[a].count >= CriticalAt)
    /\ task[a].id = id

Escalation ==
    /\ \A x \in alerts : IsAlert(x)
    /\ \A a \in Admins : task[a].step = "alert" => task[a].count <= refusals[task[a].id] \/ task[a].count = 1
    /\ \A id \in Seconds \ missed :
         refusals[id] >= CriticalAt => Raised(id) \/ \E a \in Admins : Raising(a, id)

(* Steps that have no part in a refusal, but for the one that begins it.   *)
LEMMA AsideKeeps ==
    ASSUME Escalation, UNCHANGED <<refusals, alerts, missed>>,
           \A a \in Admins : \/ task'[a] = task[a]
                             \/ task[a].step \notin {"count", "alert"} /\ task'[a].step # "alert"
    PROVE  Escalation'
  <1>1. \A a \in Admins, id \in Seconds : Raising(a, id) => Raising(a, id)'
    BY DEF Raising
  <1>2. \A id \in Seconds : Raised(id)' = Raised(id)
    BY DEF Raised
  <1>3. \A x \in alerts : IsAlert(x) => IsAlert(x)'
    BY DEF IsAlert
  <1> QED
    BY <1>1, <1>2, <1>3 DEF Escalation

LEMMA RefusalKeeps ==
    ASSUME Sound, Sound', Escalation, CriticalAt > 1, NEW a \in Admins, NEW ok \in BOOLEAN,
           RefusalRecord(a, ok) \/ RefusalCount(a, ok) \/ RefusalAlert(a, ok)
    PROVE  Escalation'
  <1>0. PICK id : id = task[a].id
    OBVIOUS
  <1>1. /\ Formed /\ RefusalsTyped /\ CriticalAt \in Nat
        /\ task[a].step \in Refuse /\ IsFormed(task[a], Saved)
    BY PolicyAssumption DEF Sound, Formed, RefusalRecord, RefusalCount, RefusalAlert, At, Refuse
  <1>2. /\ id \in Seconds /\ task[a].count \in Nat
        /\ task[a] = [field \in {"step", "id", "count"} |-> task[a][field]]
    BY <1>0, <1>1 DEF IsFormed, Fields, Refuse, Steps, Formed
  <1>3. missed' = IF ok THEN missed ELSE missed \cup {id}
    BY <1>0 DEF RefusalRecord, RefusalCount, RefusalAlert, Fell
  <1>4. /\ RefusalsTyped' /\ \A i \in Seconds : refusals'[i] >= refusals[i]
        /\ \A i \in Seconds : refusals[i] \in Nat /\ refusals'[i] \in Nat
    <2>1. [Next]_vars
      BY DEF Next, Bundle
    <2> QED
      BY <1>1, <2>1, RefusalsKept DEF RefusalsTyped
  <1>5. ASSUME NEW x, IsAlert(x) PROVE IsAlert(x)'
    BY <1>1, <1>4, <1>5 DEF IsAlert
  <1>6. \A x \in Admins : task[x].step = "alert" => task[x].id \in Seconds /\ task[x].count \in Nat
    BY <1>1 DEF Formed, IsFormed, Refuse
  <1>7. CASE RefusalRecord(a, ok)
    <2>1. /\ task[a].step = "record" /\ Goto(a, [task[a] EXCEPT !.step = "count"]) /\ UNCHANGED alerts
          /\ refusals' = [refusals EXCEPT ![id] = IF ok THEN @ + 1 ELSE @]
      BY <1>0, <1>7 DEF RefusalRecord, At
    <2>2. /\ task'[a].step = "count" /\ task'[a].id = id
          /\ \A x \in Admins \ {a} : task'[x] = task[x]
      BY <1>0, <1>1, <1>2, <2>1, Moving
    <2>3. \A x \in Admins : task'[x].step = "alert" =>
              task'[x].count <= refusals'[task'[x].id] \/ task'[x].count = 1
      BY <1>4, <1>6, <2>1, <2>2 DEF Escalation
    <2>4. Raising(a, id)'
      BY <2>2 DEF Raising
    <2>5. ASSUME NEW i \in Seconds \ missed', refusals'[i] >= CriticalAt, i # id
          PROVE  Raised(i)' \/ \E x \in Admins : Raising(x, i)'
      <3>1. refusals[i] >= CriticalAt /\ i \notin missed
        BY <1>1, <1>3, <2>1, <2>5 DEF RefusalsTyped
      <3>2. Raised(i) \/ \E x \in Admins \ {a} : Raising(x, i)
        BY <2>1, <3>1 DEF Escalation, Raising
      <3> QED
        BY <2>1, <2>2, <3>2 DEF Raised, Raising
    <2> QED
      BY <1>5, <2>1, <2>3, <2>4, <2>5 DEF Escalation
  <1>8. CASE RefusalCount(a, ok)
    <2>0. PICK n : n = IF ok THEN refusals[id] ELSE 1
      OBVIOUS
    <2>1. /\ task[a].step = "count" /\ Goto(a, [task[a] EXCEPT !.step = "alert", !.count = n])
          /\ UNCHANGED <<refusals, alerts>>
      BY <1>0, <1>8, <2>0 DEF RefusalCount, At
    <2>2. /\ task'[a].step = "alert" /\ task'[a].id = id /\ task'[a].count = n
          /\ \A x \in Admins \ {a} : task'[x] = task[x]
      <3>1. /\ task'[a] = [task[a] EXCEPT !.step = "alert", !.count = n]
            /\ \A x \in Admins \ {a} : task'[x] = task[x]
        BY <1>1, <2>1, Moving
      <3> QED
        BY <1>0, <1>2, <3>1
    <2>3. n \in Nat /\ (n <= refusals[id] \/ n = 1)
      BY <1>2, <1>4, <2>0
    <2>4. \A x \in Admins : task'[x].step = "alert" =>
              task'[x].count <= refusals'[task'[x].id] \/ task'[x].count = 1
      BY <2>1, <2>2, <2>3 DEF Escalation
    <2>5. ASSUME NEW i \in Seconds \ missed', refusals'[i] >= CriticalAt
          PROVE  Raised(i)' \/ \E x \in Admins : Raising(x, i)'
      <3>1. refusals[i] >= CriticalAt /\ i \notin missed
        BY <1>3, <2>1, <2>5
      <3>2. CASE Raised(i)
        BY <2>1, <3>2 DEF Raised
      <3>3. CASE \E x \in Admins \ {a} : Raising(x, i)
        BY <2>2, <3>3 DEF Raising
      <3>4. CASE Raising(a, i)
        <4>1. i = id /\ ok
          BY <1>0, <1>3, <2>5, <3>4 DEF Raising
        <4>2. Raising(a, i)'
          BY <2>0, <2>2, <3>1, <4>1 DEF Raising
        <4> QED
          BY <4>2
      <3> QED
        BY <3>1, <3>2, <3>3, <3>4 DEF Escalation
    <2> QED
      BY <1>5, <2>1, <2>4, <2>5 DEF Escalation
  <1>9. CASE RefusalAlert(a, ok)
    <2>0. PICK alert : alert = [bundle |-> id, severity |-> Severity(task[a].count),
                                status |-> "open", nr |-> Cardinality(alerts)]
      OBVIOUS
    <2>1. /\ task[a].step = "alert" /\ Goto(a, Idle) /\ UNCHANGED refusals
          /\ alerts' = IF ok THEN alerts \cup {alert} ELSE alerts
      BY <1>0, <1>9, <2>0 DEF RefusalAlert, At
    <2>2. task'[a].step = "idle" /\ \A x \in Admins \ {a} : task'[x] = task[x]
      BY <1>1, <2>1, Moving, IdleFormed
    <2>3. IsAlert(alert)'
      <3>1. /\ alert = [field \in {"bundle", "severity", "status", "nr"} |-> alert[field]]
            /\ alert.bundle = id /\ alert.severity = Severity(task[a].count)
        BY <2>0
      <3>2. Severity(task[a].count) = "critical" => refusals[id] >= CriticalAt
        BY <1>0, <1>1, <1>2, <1>4, <2>1 DEF Escalation, Severity
      <3> QED
        BY <1>2, <2>1, <3>1, <3>2 DEF IsAlert
    <2>4. \A x \in alerts' : IsAlert(x)'
      BY <1>5, <2>1, <2>3 DEF Escalation
    <2>5. \A x \in Admins : task'[x].step = "alert" =>
              task'[x].count <= refusals'[task'[x].id] \/ task'[x].count = 1
      BY <2>1, <2>2 DEF Escalation
    <2>6. ASSUME NEW i \in Seconds \ missed', refusals'[i] >= CriticalAt
          PROVE  Raised(i)' \/ \E x \in Admins : Raising(x, i)'
      <3>1. refusals[i] >= CriticalAt /\ i \notin missed
        BY <1>3, <2>1, <2>6
      <3>2. CASE Raised(i)
        BY <2>1, <3>2 DEF Raised
      <3>3. CASE \E x \in Admins \ {a} : Raising(x, i)
        BY <2>2, <3>3 DEF Raising
      <3>4. CASE Raising(a, i)
        <4>1. i = id /\ ok /\ task[a].count >= CriticalAt
          BY <1>0, <1>3, <2>1, <2>6, <3>4 DEF Raising
        <4>2. alert \in alerts' /\ alert.bundle = i /\ alert.severity = "critical"
          BY <2>0, <2>1, <4>1 DEF Severity
        <4> QED
          BY <4>2 DEF Raised
      <3> QED
        BY <3>1, <3>2, <3>3, <3>4 DEF Escalation
    <2> QED
      BY <2>4, <2>5, <2>6 DEF Escalation
  <1> QED
    BY <1>7, <1>8, <1>9

LEMMA StatusKeeps ==
    ASSUME Escalation, NEW x \in alerts, NEW status, SetAlertStatus(x, status)
    PROVE  Escalation'
  <1> DEFINE y == [x EXCEPT !.status = status]
  <1>1. alerts' = (alerts \ {x}) \cup {y} /\ UNCHANGED <<refusals, task, missed>>
    BY DEF SetAlertStatus
  <1>2. x = [field \in {"bundle", "severity", "status", "nr"} |-> x[field]]
    BY DEF Escalation, IsAlert
  <1>3. /\ y = [field \in {"bundle", "severity", "status", "nr"} |-> y[field]]
        /\ y.bundle = x.bundle /\ y.severity = x.severity
    BY <1>2
  <1> HIDE DEF y
  <1>4. \A z \in alerts' : IsAlert(z)'
    BY <1>1, <1>3 DEF Escalation, IsAlert
  <1>5. \A i \in Seconds : Raised(i) => Raised(i)'
    BY <1>1, <1>3 DEF Raised
  <1>6. \A a \in Admins, i \in Seconds : Raising(a, i) => Raising(a, i)'
    BY <1>1 DEF Raising
  <1> QED
    BY <1>1, <1>4, <1>5, <1>6 DEF Escalation

LEMMA RestartEscalation ==
    ASSUME Sound, Escalation, Restart
    PROVE  Escalation'
  <1>1. /\ UNCHANGED <<refusals, alerts>> /\ task' = [a \in Admins |-> Idle]
        /\ missed' = missed \cup {id \in Saved : Refusing(id)}
    BY DEF Restart
  <1>2. \A a \in Admins : task'[a].step = "idle"
    BY <1>1 DEF Idle
  <1>3. \A a \in Admins, id \in Seconds : Raising(a, id) => id \in missed'
    BY <1>1 DEF Raising, Refusing, Refuse, Sound, Formed, IsFormed
  <1>4. \A x \in alerts' : IsAlert(x)'
    BY <1>1 DEF Escalation, IsAlert
  <1>5. \A id \in Seconds \ missed' : refusals'[id] >= CriticalAt => Raised(id)'
    BY <1>1, <1>3 DEF Escalation, Raised
  <1> QED
    BY <1>2, <1>4, <1>5 DEF Escalation

(* Refusals that race never hide an escalation, whatever fails: a critical *)
(* alert has its refusals behind it, and a bundle refused as often as the  *)
(* threshold has one when the refusals are through, if no statement fell.  *)
(* The threshold must be above one, for a count that fails is taken as one.*)
THEOREM AlertsEscalateHolds ==
    ASSUME CriticalAt > 1
    PROVE  Spec => []AlertsEscalate
  <1>1. Init => Escalation
    BY PolicyAssumption DEF Init, Escalation, Idle
  <1>2. Sound /\ Sound' /\ Escalation /\ [Next]_vars => Escalation'
    <2> SUFFICES ASSUME Sound, Sound', Escalation, [Next]_vars PROVE Escalation'
      OBVIOUS
    <2>1. CASE Edit
      BY <2>1, EditLeaves, AsideKeeps DEF Sound, others
    <2>2. CASE \E a \in Admins, ok \in BOOLEAN :
                   RefusalRecord(a, ok) \/ RefusalCount(a, ok) \/ RefusalAlert(a, ok)
      BY <2>2, RefusalKeeps
    <2>3. CASE \E a \in Admins : SaveExport(a) \/ RestoreApply(a)
                                 \/ \E id \in Seconds : RestoreFetch(a, id) \/ \E ok \in BOOLEAN : SaveInsert(a, id, ok)
      <3>1. PICK a \in Admins : SaveExport(a) \/ RestoreApply(a)
                                 \/ \E id \in Seconds : RestoreFetch(a, id) \/ \E ok \in BOOLEAN : SaveInsert(a, id, ok)
        BY <2>3
      <3>2. /\ UNCHANGED <<refusals, alerts, missed>> /\ task[a].step \notin {"count", "alert"}
            /\ \/ UNCHANGED task
               \/ \E t : Goto(a, t) /\ t.step # "alert"
        <4>1. CASE SaveExport(a) \/ RestoreApply(a) \/ \E id \in Seconds, ok \in BOOLEAN : SaveInsert(a, id, ok)
          BY <4>1 DEF SaveExport, RestoreApply, SaveInsert, At, Idle
        <4>2. CASE \E id \in Seconds : RestoreFetch(a, id)
          <5>1. PICK id \in Seconds : RestoreFetch(a, id)
            BY <4>2
          <5>2. /\ [step |-> "apply", id |-> id, bundle |-> bundles[id]].step # "alert"
                /\ [step |-> "record", id |-> id, count |-> 0].step # "alert"
            OBVIOUS
          <5> QED
            BY <5>1, <5>2 DEF RestoreFetch, Verdict, Idle
        <4> QED
          BY <3>1, <4>1, <4>2
      <3>3. \A x \in Admins : \/ task'[x] = task[x]
                              \/ task[x].step \notin {"count", "alert"} /\ task'[x].step # "alert"
        BY <3>2, Moving DEF Sound
      <3> QED
        BY <3>2, <3>3, AsideKeeps
    <2>4. CASE \E x \in alerts, s \in {"acknowledged", "resolved"} : SetAlertStatus(x, s)
      BY <2>4, StatusKeeps
    <2>5. CASE Restart
      BY <2>5, RestartEscalation
    <2>6. CASE UNCHANGED vars \/ Tick \/ \E id \in Seconds : Tamper(id)
      BY <2>6, AsideKeeps DEF vars, Tick, Tamper
    <2> QED
      BY <2>1, <2>2, <2>3, <2>4, <2>5, <2>6 DEF Next, Bundle
  <1>3. Sound /\ Escalation => AlertsEscalate
    <2> SUFFICES ASSUME Sound, Escalation PROVE AlertsEscalate
      OBVIOUS
    <2>1. \A x \in alerts : x.severity = "critical" => refusals[x.bundle] >= CriticalAt
      BY DEF Escalation, IsAlert
    <2>2. ASSUME NEW id \in Saved, refusals[id] >= CriticalAt, ~Refusing(id), id \notin missed
          PROVE  Raised(id)
      BY <2>2 DEF Escalation, Raising, Refusing, Refuse, Sound, Formed
    <2> QED
      BY <2>1, <2>2 DEF AlertsEscalate, Raised
  <1> QED
    BY <1>1, <1>2, <1>3, Invariant, PTL DEF Spec
-----------------------------------------------------------------------------
(* Types.  What Retain returns is a list of rows: one row at a time.       *)
LEMMA Induct ==
    ASSUME NEW T \in SUBSET Nat, 0 \in T, \A n \in T : n + 1 \in T
    PROVE  T = Nat
  <1> SUFFICES ASSUME Nat \ T # {} PROVE FALSE
    OBVIOUS
  <1>1. PICK m \in Nat \ T : \A k \in Nat \ T : <<k, m>> \notin OpToRel(<, Nat)
    BY NatLessThanWellFounded, WFMin
  <1>2. m # 0 /\ m - 1 \in Nat /\ m - 1 < m
    OBVIOUS
  <1>3. m - 1 \notin T
    BY <1>2
  <1>4. <<m - 1, m>> \in OpToRel(<, Nat)
    BY <1>2 DEF OpToRel
  <1> QED
    BY <1>1, <1>2, <1>3, <1>4

Latest(s) == CHOOSE i \in s : \A j \in s : i >= j

(* What is retained of the rows at s, if g says what is of fewer.          *)
Retaining(rows, x, g, s) ==
    IF s = {} THEN <<>>
    ELSE LET before == g[s \ {Latest(s)}]
         IN  IF rows[Latest(s)].key = x THEN before ELSE Append(before, rows[Latest(s)])

LEMMA LatestIn ==
    ASSUME NEW n \in Nat, NEW s, s \subseteq 1 .. n, s # {}
    PROVE  Latest(s) \in s
  <1> DEFINE T == {n - i : i \in s}
  <1>0. \A i \in s : i \in Int /\ 1 <= i /\ i <= n
    OBVIOUS
  <1>1. T \subseteq Nat /\ T # {}
    <2>1. \A i \in s : n - i \in Nat
      BY <1>0
    <2> QED
      BY <2>1
  <1>2. PICK m \in T : \A k \in T : <<k, m>> \notin OpToRel(<, Nat)
    BY <1>1, NatLessThanWellFounded, WFMin
  <1>3. \A k \in T : m <= k
    <2> SUFFICES ASSUME NEW k \in T PROVE m <= k
      OBVIOUS
    <2>1. k \in Nat /\ m \in Nat
      BY <1>1
    <2> HIDE DEF T
    <2>2. ~(k < m)
      BY <1>2, <2>1 DEF OpToRel
    <2> QED
      BY <2>1, <2>2
  <1>4. PICK x \in s : m = n - x
    BY <1>2
  <1>5. ASSUME NEW y \in s PROVE x >= y
    <2>1. n - x <= n - y
      BY <1>3, <1>4
    <2> QED
      BY <1>0, <2>1
  <1> QED
    BY <1>5 DEF Latest

LEMMA Fewer ==
    ASSUME NEW s, IsFiniteSet(s), NEW n \in Nat, Cardinality(s) <= n + 1, NEW x \in s
    PROVE  Cardinality(s \ {x}) <= n
  <1>1. Cardinality(s \ {x}) = Cardinality(s) - 1 /\ Cardinality(s) \in Nat
    BY FS_RemoveElement, FS_CardinalityType
  <1> QED
    BY <1>1

LEMMA RetainIs ==
    ASSUME NEW rows, NEW x
    PROVE  Retain(rows, x) = (CHOOSE g : g = [s \in SUBSET DOMAIN rows |-> Retaining(rows, x, g, s)])[DOMAIN rows]
  BY DEF Retain, FoldLeft, MapThenFoldSet, Retaining, Latest, Max

(* Such a g exists.                                                        *)
LEMMA RetainingExists ==
    ASSUME NEW rows, NEW x, NEW m \in Nat, DOMAIN rows = 1 .. m
    PROVE  \E g : g = [s \in SUBSET DOMAIN rows |-> Retaining(rows, x, g, s)]
  <1> DEFINE S == DOMAIN rows
             Good(g, n) == \A s \in SUBSET S : Cardinality(s) <= n => g[s] = Retaining(rows, x, g, s)
             T == {n \in Nat : \E g : Good(g, n)}
  <1>0. \A s \in SUBSET S : /\ IsFiniteSet(s) /\ Cardinality(s) \in Nat /\ (Cardinality(s) = 0 => s = {})
                            /\ s # {} => Latest(s) \in s
    <2>1. IsFiniteSet(S)
      BY FS_Interval
    <2> QED
      BY <2>1, FS_Subset, FS_CardinalityType, FS_EmptySet, LatestIn
  <1> HIDE DEF S
  <1>1. 0 \in T
    <2> DEFINE g == [s \in SUBSET S |-> <<>>]
    <2>1. Good(g, 0)
      BY <1>0 DEF Retaining
    <2> QED
      BY <2>1
  <1>2. ASSUME NEW n \in T PROVE n + 1 \in T
    <2>1. PICK g : Good(g, n)
      BY <1>2
    <2> DEFINE h == [s \in SUBSET S |-> IF Cardinality(s) <= n THEN g[s] ELSE Retaining(rows, x, g, s)]
    <2>2. ASSUME NEW s \in SUBSET S, Cardinality(s) <= n + 1 PROVE h[s] = Retaining(rows, x, h, s)
      <3>1. h[s] = Retaining(rows, x, g, s)
        BY <2>1
      <3>2. CASE s = {}
        BY <3>1, <3>2 DEF Retaining
      <3>3. CASE s # {}
        <4>1. Cardinality(s \ {Latest(s)}) <= n
          BY <1>0, <2>2, <3>3, Fewer
        <4>2. h[s \ {Latest(s)}] = g[s \ {Latest(s)}]
          BY <4>1
        <4> HIDE DEF h
        <4> QED
          BY <3>1, <3>3, <4>2 DEF Retaining
      <3> QED
        BY <3>2, <3>3
    <2> HIDE DEF h
    <2>3. Good(h, n + 1)
      BY <2>2
    <2> QED
      BY <2>3
  <1>3. T = Nat
    <2> HIDE DEF T
    <2>1. T \in SUBSET Nat
      BY DEF T
    <2> QED
      BY <1>1, <1>2, <2>1, Induct
  <1>4. PICK g : Good(g, Cardinality(S))
    <2>1. Cardinality(S) \in T
      BY <1>0, <1>3
    <2> QED
      BY <2>1
  <1>5. \A s \in SUBSET S : g[s] = Retaining(rows, x, g, s)
    BY <1>0, <1>4, FS_Subset
  <1> DEFINE h == [s \in SUBSET S |-> g[s]]
  <1>6. ASSUME NEW s \in SUBSET S PROVE g[s] = Retaining(rows, x, h, s)
    <2>1. s \ {Latest(s)} \in SUBSET S
      OBVIOUS
    <2>2. h[s \ {Latest(s)}] = g[s \ {Latest(s)}]
      BY <2>1
    <2> HIDE DEF h
    <2> QED
      BY <1>5, <2>2 DEF Retaining
  <1>7. h = [s \in SUBSET S |-> Retaining(rows, x, h, s)]
    BY <1>6
  <1> QED
    BY <1>7 DEF S

(* Nothing but rows of other keys is retained.                             *)
LEMMA Retained ==
    ASSUME NEW rows \in Seq(Row), NEW x
    PROVE  Retain(rows, x) \in Seq({row \in Row : row.key # x})
  <1> DEFINE Rest == {row \in Row : row.key # x}
             S == DOMAIN rows
             g == CHOOSE g : g = [s \in SUBSET DOMAIN rows |-> Retaining(rows, x, g, s)]
             T == {n \in Nat : \A s \in SUBSET S : Cardinality(s) <= n => g[s] \in Seq(Rest)}
  <1>0. Len(rows) \in Nat /\ DOMAIN rows = 1 .. Len(rows)
    OBVIOUS
  <1>1. \A s \in SUBSET S : /\ IsFiniteSet(s) /\ Cardinality(s) \in Nat /\ (Cardinality(s) = 0 => s = {})
                            /\ s # {} => Latest(s) \in s
    <2>1. IsFiniteSet(S)
      BY <1>0, FS_Interval
    <2> QED
      BY <1>0, <2>1, FS_Subset, FS_CardinalityType, FS_EmptySet, LatestIn
  <1>2. g = [s \in SUBSET S |-> Retaining(rows, x, g, s)]
    BY <1>0, RetainingExists
  <1>3. Retain(rows, x) = g[S]
    BY RetainIs
  <1>4. \A s \in S : rows[s] \in Row
    OBVIOUS
  <1> HIDE DEF g, S, Rest
  <1>5. \A s \in SUBSET S : g[s] = Retaining(rows, x, g, s)
    BY <1>2
  <1>5a. g[{}] \in Seq(Rest)
    <2>1. g[{}] = <<>>
      BY <1>5 DEF Retaining
    <2> QED
      BY <2>1
  <1>6. 0 \in T
    <2>1. ASSUME NEW s \in SUBSET S, Cardinality(s) <= 0 PROVE g[s] \in Seq(Rest)
      <3>1. s = {}
        BY <1>1, <2>1
      <3> QED
        BY <1>5a, <3>1
    <2> QED
      BY <2>1
  <1>7. ASSUME NEW n \in T PROVE n + 1 \in T
    <2>1. ASSUME NEW s \in SUBSET S, Cardinality(s) <= n + 1 PROVE g[s] \in Seq(Rest)
      <3>1. CASE s = {}
        BY <1>5a, <3>1
      <3>2. CASE s # {}
        <4>1. PICK i \in s : i = Latest(s)
          BY <1>1, <3>2
        <4>2. PICK before : before = g[s \ {i}]
          OBVIOUS
        <4>3. before \in Seq(Rest)
          BY <1>1, <1>7, <2>1, <4>2, Fewer
        <4>4. g[s] = IF rows[i].key = x THEN before ELSE Append(before, rows[i])
          BY <1>5, <3>2, <4>1, <4>2 DEF Retaining
        <4>5. rows[i].key # x => rows[i] \in Rest
          BY <1>4 DEF Rest
        <4> QED
          BY <4>3, <4>4, <4>5
      <3> QED
        BY <3>1, <3>2
    <2> QED
      BY <2>1
  <1>8. T = Nat
    <2> HIDE DEF T
    <2>1. T \in SUBSET Nat
      BY DEF T
    <2> QED
      BY <1>6, <1>7, <2>1, Induct
  <1>9. g[S] \in Seq(Rest)
    <2>1. Cardinality(S) \in T /\ S \in SUBSET S
      BY <1>1, <1>8
    <2> QED
      BY <1>1, <2>1
  <1> QED
    BY <1>3, <1>9 DEF Rest

LEMMA Replacing ==
    ASSUME NEW p \in Policy
    PROVE  /\ \A m \in PolicyModes : [p EXCEPT !.mode = m] \in Policy
           /\ \A f \in [Rules -> RuleModes \cup {Unset}] : [p EXCEPT !.rules = f] \in Policy
           /\ \A f \in [Lists -> Seq(Row)] : [p EXCEPT !.lists = f] \in Policy
           /\ p.mode \in PolicyModes /\ p.rules \in [Rules -> RuleModes \cup {Unset}]
           /\ p.lists \in [Lists -> Seq(Row)]
  BY DEF Policy

PolicyTyped == live \in Policy /\ version \in 1 .. MaxVersion /\ previous \in {NoVersion, version - 1}

LEMMA Bumped ==
    ASSUME PolicyTyped, Bump
    PROVE  version' \in 1 .. MaxVersion /\ previous' \in {NoVersion, version' - 1}
  BY PolicyAssumption DEF PolicyTyped, Bump

LEMMA RowsReplaced ==
    ASSUME NEW rows \in Seq(Row), NEW at, NEW row \in Row
    PROVE  Append(rows, row) \in Seq(Row) /\ [rows EXCEPT ![at] = row] \in Seq(Row)
  <1>1. Len(rows) \in Nat /\ rows \in [1 .. Len(rows) -> Row]
    OBVIOUS
  <1>2. [rows EXCEPT ![at] = row] \in [1 .. Len(rows) -> Row]
    BY <1>1
  <1>3. \A n \in Nat : [1 .. n -> Row] \subseteq Seq(Row)
    OBVIOUS
  <1>4. Append(rows, row) \in Seq(Row)
    OBVIOUS
  <1> QED
    BY <1>1, <1>2, <1>3, <1>4

LEMMA EditTyped ==
    ASSUME PolicyTyped, Edit
    PROVE  PolicyTyped' /\ UNCHANGED others
  <1>1. ASSUME NEW l \in Lists, NEW rows \in Seq(Row) PROVE [live EXCEPT !.lists[l] = rows] \in Policy
    <2>1. [live.lists EXCEPT ![l] = rows] \in [Lists -> Seq(Row)]
      BY Replacing DEF PolicyTyped
    <2>2. [live EXCEPT !.lists = [live.lists EXCEPT ![l] = rows]] \in Policy
      BY <2>1, Replacing DEF PolicyTyped
    <2> QED
      BY <2>2
  <1>2. CASE \E r \in Rules, m \in RuleModes : SetGlobalRuleMode(r, m)
    <2>1. PICK r \in Rules, m \in RuleModes : SetGlobalRuleMode(r, m)
      BY <1>2
    <2>2. [live.rules EXCEPT ![r] = m] \in [Rules -> RuleModes \cup {Unset}]
      BY Replacing DEF PolicyTyped
    <2>3. live' = [live EXCEPT !.rules = [live.rules EXCEPT ![r] = m]]
      BY <2>1 DEF SetGlobalRuleMode
    <2>4. live' \in Policy
      BY <2>2, <2>3, Replacing DEF PolicyTyped
    <2> QED
      BY <2>1, <2>4, Bumped DEF SetGlobalRuleMode, PolicyTyped
  <1>3. CASE \E l \in Edited, x \in Keys : DeleteRow(l, x)
    <2>1. PICK l \in Lists, x \in Keys : DeleteRow(l, x)
      BY <1>3, PolicyAssumption
    <2>2. PICK rows : rows = Retain(live.lists[l], x)
      OBVIOUS
    <2>3. live' = [live EXCEPT !.lists[l] = rows]
      BY <2>1, <2>2 DEF DeleteRow
    <2>4. rows \in Seq(Row)
      <3>1. live.lists[l] \in Seq(Row)
        BY Replacing DEF PolicyTyped
      <3>2. rows \in Seq({row \in Row : row.key # x})
        BY <2>2, <3>1, Retained
      <3> QED
        BY <3>2
    <2> QED
      BY <1>1, <2>1, <2>3, <2>4, Bumped DEF DeleteRow, PolicyTyped
  <1>4. CASE \E l \in Edited, x \in Keys, v \in Values : UpsertRow(l, x, v)
    <2>1. PICK l \in Lists, x \in Keys, v \in Values : UpsertRow(l, x, v)
      BY <1>4, PolicyAssumption
    <2>2. PICK row, at, none :
              /\ row = [key |-> x, value |-> v] /\ none = (Holds(l, x) = {})
              /\ at = CHOOSE i \in Holds(l, x) : \A j \in Holds(l, x) : i <= j
      OBVIOUS
    <2>3. live' = [live EXCEPT !.lists[l] = IF none THEN Append(@, row) ELSE [@ EXCEPT ![at] = row]]
      BY <2>1, <2>2 DEF UpsertRow
    <2>4. live.lists[l] \in Seq(Row) /\ row \in Row
      BY <2>2, Replacing DEF PolicyTyped, Row
    <2>5. Append(live.lists[l], row) \in Seq(Row) /\ [live.lists[l] EXCEPT ![at] = row] \in Seq(Row)
      BY <2>4, RowsReplaced
    <2>6. live' = [live EXCEPT !.lists[l] = Append(live.lists[l], row)]
          \/ live' = [live EXCEPT !.lists[l] = [live.lists[l] EXCEPT ![at] = row]]
      BY <2>3
    <2> QED
      BY <1>1, <2>1, <2>5, <2>6, Bumped DEF UpsertRow, PolicyTyped
  <1>5. CASE \E p \in Imports, keepMode \in BOOLEAN : Import(p, keepMode)
    <2>1. PICK p \in Policy, keepMode \in BOOLEAN : Import(p, keepMode)
      BY <1>5, PolicyAssumption
    <2>2. PICK m \in PolicyModes : m = IF keepMode THEN live.mode ELSE p.mode
      BY Replacing DEF PolicyTyped
    <2>3. live' = [p EXCEPT !.mode = m]
      BY <2>1, <2>2 DEF Import
    <2>4. live' \in Policy
      BY <2>3, Replacing
    <2> QED
      BY <2>1, <2>4, Bumped DEF Import, PolicyTyped
  <1> QED
    BY <1>2, <1>3, <1>4, <1>5 DEF Edit

LEMMA TamperedPolicy ==
    ASSUME NEW p \in Policy PROVE Tampered(p) \in Policy
  <1>1. [p.rules EXCEPT ![Marker] = DetectOnly] \in [Rules -> RuleModes \cup {Unset}]
    BY Replacing, PolicyAssumption
  <1>2. Tampered(p) = [p EXCEPT !.rules = [p.rules EXCEPT ![Marker] = DetectOnly]]
    BY DEF Tampered
  <1> QED
    BY <1>1, <1>2, Replacing

BundlesTyped == \A id \in Saved : IsBundle(bundles[id])

TasksTyped == \A a \in Admins : task[a].step \in Steps => task[a].id \in Seconds /\ IsBundle(task[a].bundle)

AlertsTyped ==
    /\ \A x \in alerts : /\ x = [field \in {"bundle", "severity", "status", "nr"} |-> x[field]]
                         /\ x.bundle \in Saved /\ x.severity \in Severities /\ x.status \in Statuses
    /\ missed \subseteq Seconds

Typed ==
    /\ PolicyTyped /\ BundlesTyped /\ TasksTyped /\ AlertsTyped
    /\ second \in Seconds /\ restarts \in 0 .. MaxRestarts

LEMMA TypedIs ==
    ASSUME Sound, Typed PROVE TypeOK
  <1>1. \A a \in Admins : IsTask(task[a])
    <2> SUFFICES ASSUME NEW a \in Admins PROVE IsTask(task[a])
      OBVIOUS
    <2>1. IsFormed(task[a], Saved)
      BY DEF Sound, Formed
    <2>2. task[a].step \in Steps => IsTask(task[a])
      BY DEF Typed, TasksTyped, IsTask
    <2>3. task[a].step \in Refuse => IsTask(task[a])
      BY <2>1 DEF IsFormed, IsTask
    <2>4. task[a].step = "idle" => task[a] = Idle
      BY <2>1 DEF IsFormed, Fields, Steps, Refuse, Idle
    <2> QED
      BY <2>1, <2>2, <2>3, <2>4 DEF IsFormed, IsTask
  <1>2. /\ Saved \subseteq Seconds /\ DOMAIN task = Admins /\ DOMAIN signed = Saved
        /\ refusals \in [Seconds -> Nat]
    BY DEF Sound, Formed, RefusalsTyped
  <1> QED
    BY <1>1, <1>2 DEF Typed, PolicyTyped, BundlesTyped, AlertsTyped, TypeOK

(* A step that leaves the bundles alone and gives a thread a task.         *)
LEMMA TasksGo ==
    ASSUME Formed, TasksTyped, NEW a \in Admins, NEW t, Goto(a, t),
           t.step \in Steps => t.id \in Seconds /\ IsBundle(t.bundle)
    PROVE  TasksTyped'
  BY Moving DEF TasksTyped

LEMMA QuietTyped ==
    ASSUME Sound, Typed, NEW a \in Admins, Quiet(a)
    PROVE  Typed'
  <1>0. Formed /\ RefusalsTyped
    BY DEF Sound
  <1>1. UNCHANGED <<live, version, previous, bundles, second, restarts>> /\ Saved' = Saved
    BY <1>0, QuietCarries DEF state, Saved
  <1>2. TasksTyped'
    <2>1. CASE UNCHANGED task
      BY <2>1 DEF Typed, TasksTyped
    <2>2. CASE ~(UNCHANGED task)
      <3>1. PICK t : Carries(a, t) /\ Goto(a, t) /\ IsFormed(t, Saved)
        BY <1>0, <2>2, QuietCarries
      <3>2. t.step = "insert" => t.id \in Seconds /\ IsBundle(t.bundle)
        <4>1. ASSUME t.step = "insert" PROVE t = [step |-> "insert", id |-> second, bundle |-> Exported]
          <5>1. CASE \E id \in Saved : \/ t = [step |-> "apply", id |-> id, bundle |-> bundles[id]]
                                       \/ t = [step |-> "record", id |-> id, count |-> 0]
            BY <4>1, <5>1
          <5>2. CASE task[a].step \in {"record", "count"}
            <6>1. task[a] = [field \in {"step", "id", "count"} |-> task[a][field]]
              BY <1>0, <5>2 DEF Formed, IsFormed, Fields, Refuse, Steps
            <6>2. t = [task[a] EXCEPT !.step = "count"]
                  \/ (\E n \in Nat : t = [task[a] EXCEPT !.step = "alert", !.count = n])
                  \/ t = [step |-> "insert", id |-> second, bundle |-> Exported] \/ t = Idle
                  \/ \E id \in Saved : \/ t = [step |-> "apply", id |-> id, bundle |-> bundles[id]]
                                       \/ t = [step |-> "record", id |-> id, count |-> 0]
              BY <3>1 DEF Carries
            <6>3. [task[a] EXCEPT !.step = "count"].step = "count"
              BY <6>1
            <6>4. \A n : [task[a] EXCEPT !.step = "alert", !.count = n].step = "alert"
              BY <6>1
            <6>5. Idle.step = "idle"
              BY DEF Idle
            <6>6. \A id \in Saved : /\ [step |-> "apply", id |-> id, bundle |-> bundles[id]].step = "apply"
                                    /\ [step |-> "record", id |-> id, count |-> 0].step = "record"
              OBVIOUS
            <6> QED
              BY <4>1, <6>2, <6>3, <6>4, <6>5, <6>6
          <5>3. CASE t = Idle
            BY <4>1, <5>3 DEF Idle
          <5> QED
            BY <3>1, <5>1, <5>2, <5>3 DEF Carries
        <4>2. IsBundle(Exported) /\ second \in Seconds
          BY DEF Typed, PolicyTyped, IsBundle, Exported
        <4> QED
          BY <4>1, <4>2
      <3>3. t.step = "apply" => t.id \in Seconds /\ IsBundle(t.bundle)
        <4>1. t.step = "apply" => \E id \in Saved : t.id = id /\ t.bundle = bundles[id]
          BY <1>0, <3>1, CarriedFields DEF Formed, Refuse
        <4> QED
          BY <1>0, <4>1 DEF Typed, BundlesTyped, Formed
      <3> QED
        BY <1>0, <3>1, <3>2, <3>3, TasksGo DEF Typed, Steps
    <2> QED
      BY <2>1, <2>2
  <1>3. AlertsTyped'
    <2>1. CASE UNCHANGED <<alerts, missed>>
      BY <1>1, <2>1 DEF Typed, AlertsTyped
    <2>2. CASE \E ok \in BOOLEAN : RefusalRecord(a, ok) \/ RefusalCount(a, ok) \/ RefusalAlert(a, ok)
      <3>1. task[a].id \in Saved /\ task[a].id \in Seconds
        BY <1>0, <2>2 DEF RefusalRecord, RefusalCount, RefusalAlert, At, Formed, IsFormed, Refuse
      <3>2. missed' \subseteq Seconds
        BY <2>2, <3>1 DEF RefusalRecord, RefusalCount, RefusalAlert, Fell, Typed, AlertsTyped
      <3>3. \A n : Severity(n) \in Severities
        BY DEF Severity, Severities
      <3>4. alerts' = alerts \/ \E x : /\ alerts' = alerts \cup {x} /\ x.bundle = task[a].id
                                       /\ x.severity \in Severities /\ x.status = "open"
                                       /\ x = [field \in {"bundle", "severity", "status", "nr"} |-> x[field]]
        BY <2>2, <3>3 DEF RefusalRecord, RefusalCount, RefusalAlert
      <3> QED
        BY <1>1, <3>1, <3>2, <3>4 DEF Typed, AlertsTyped, Statuses
    <2> QED
      BY <2>1, <2>2 DEF Quiet, SaveExport, RestoreFetch
  <1> QED
    BY <1>1, <1>2, <1>3 DEF Typed, PolicyTyped, BundlesTyped

(* Every variable keeps its type: among them the lists of the policy in    *)
(* force, through insertions in place, deletions and imports.              *)
THEOREM TypeCorrect == Spec => []TypeOK
  <1>1. Init => Typed
    BY PolicyAssumption DEF Init, Typed, PolicyTyped, BundlesTyped, TasksTyped, AlertsTyped, Saved, Idle, Steps, NoVersion
  <1>2. Sound /\ Typed /\ [Next]_vars => Typed'
    <2> SUFFICES ASSUME Sound, Typed, [Next]_vars PROVE Typed'
      OBVIOUS
    <2>0. Formed /\ RefusalsTyped /\ Saved \subseteq Seconds
      BY DEF Sound, Formed
    <2>1. CASE Edit
      <3>1. PolicyTyped' /\ UNCHANGED others
        BY <2>1, EditTyped DEF Typed
      <3> QED
        BY <3>1 DEF others, Typed, BundlesTyped, TasksTyped, AlertsTyped, Saved
    <2>2. CASE \E a \in Admins : Quiet(a)
      BY <2>2, QuietTyped
    <2>3. CASE \E a \in Admins, id \in Seconds, ok \in BOOLEAN : SaveInsert(a, id, ok)
      <3>1. PICK a \in Admins, id \in Seconds, ok \in BOOLEAN : SaveInsert(a, id, ok)
        BY <2>3
      <3>2. IsBundle(task[a].bundle)
        BY <3>1 DEF SaveInsert, At, Typed, TasksTyped, Steps
      <3>3. BundlesTyped' /\ Saved \subseteq Saved'
        <4>1. CASE bundles' = With(bundles, id, task[a].bundle)
          BY <3>2, <4>1 DEF With, Typed, BundlesTyped, Saved
        <4>2. CASE UNCHANGED bundles
          BY <4>2 DEF Typed, BundlesTyped, Saved
        <4> QED
          BY <3>1, <4>1, <4>2 DEF SaveInsert
      <3>4. TasksTyped'
        BY <2>0, <3>1, TasksGo, IdleFormed DEF SaveInsert, Typed, Steps
      <3>5. UNCHANGED <<live, version, previous, alerts, missed, second, restarts>>
        BY <3>1 DEF SaveInsert, state
      <3> QED
        BY <3>3, <3>4, <3>5 DEF Typed, PolicyTyped, AlertsTyped
    <2>4. CASE \E a \in Admins : RestoreApply(a)
      <3>1. PICK a \in Admins : RestoreApply(a)
        BY <2>4
      <3>2. live' \in Policy
        BY <3>1 DEF RestoreApply, At, Typed, TasksTyped, Steps, IsBundle
      <3>3. PolicyTyped'
        BY <3>1, <3>2, Bumped DEF RestoreApply, Typed, PolicyTyped
      <3>4. TasksTyped'
        BY <2>0, <3>1, TasksGo, IdleFormed DEF RestoreApply, Typed, Steps
      <3>5. UNCHANGED <<bundles, alerts, missed, second, restarts>>
        BY <3>1 DEF RestoreApply
      <3> QED
        BY <3>3, <3>4, <3>5 DEF Typed, BundlesTyped, AlertsTyped, Saved
    <2>5. CASE \E id \in Seconds : Tamper(id)
      <3>1. PICK id \in Seconds : Tamper(id)
        BY <2>5
      <3>2. /\ Saved' = Saved /\ id \in Saved /\ \A j \in Saved \ {id} : bundles'[j] = bundles[j]
            /\ bundles'[id].policy = Tampered(bundles[id].policy)
            /\ bundles'[id].version = bundles[id].version /\ bundles'[id].run = bundles[id].run
        BY <2>0, <3>1, TamperKeeps
      <3>3. BundlesTyped'
        BY <3>2, TamperedPolicy DEF Typed, BundlesTyped, IsBundle
      <3>4. UNCHANGED <<live, version, previous, alerts, missed, second, restarts, task>>
        BY <3>1 DEF Tamper, state
      <3> QED
        BY <3>2, <3>3, <3>4 DEF Typed, PolicyTyped, TasksTyped, AlertsTyped
    <2>6. CASE Restart
      <3>1. /\ live' = Config /\ version' = 1 /\ previous' = NoVersion /\ task' = [a \in Admins |-> Idle]
            /\ missed' = missed \cup {id \in Saved : Refusing(id)} /\ UNCHANGED <<bundles, alerts, second>>
            /\ restarts' = restarts + 1 /\ restarts < MaxRestarts
        BY <2>6 DEF Restart
      <3>2. Saved' = Saved /\ restarts' \in 0 .. MaxRestarts
        BY <3>1, PolicyAssumption DEF Saved, Typed
      <3>3. TasksTyped' /\ AlertsTyped' /\ BundlesTyped'
        BY <2>0, <3>1, <3>2 DEF Typed, TasksTyped, AlertsTyped, BundlesTyped, Idle, Steps
      <3> QED
        BY <3>1, <3>2, <3>3, PolicyAssumption DEF Typed, PolicyTyped
    <2>7. CASE \E x \in alerts, s \in {"acknowledged", "resolved"} : SetAlertStatus(x, s)
      <3>1. PICK x \in alerts, s \in {"acknowledged", "resolved"} : SetAlertStatus(x, s)
        BY <2>7
      <3>2. /\ UNCHANGED <<live, version, previous, bundles, task, second, restarts, missed>>
            /\ alerts' = (alerts \ {x}) \cup {[x EXCEPT !.status = s]}
        BY <3>1 DEF SetAlertStatus, state
      <3>3. x = [field \in {"bundle", "severity", "status", "nr"} |-> x[field]]
        BY DEF Typed, AlertsTyped
      <3>4. PICK y : /\ y = [x EXCEPT !.status = s]
                     /\ y = [field \in {"bundle", "severity", "status", "nr"} |-> y[field]]
                     /\ y.bundle = x.bundle /\ y.severity = x.severity /\ y.status = s
        <4> DEFINE y == [x EXCEPT !.status = s]
        <4>1. /\ y = [field \in {"bundle", "severity", "status", "nr"} |-> y[field]]
              /\ y.bundle = x.bundle /\ y.severity = x.severity /\ y.status = s
          BY <3>3
        <4> HIDE DEF y
        <4> QED
          BY <4>1 DEF y
      <3>5. AlertsTyped'
        BY <3>2, <3>4 DEF Typed, AlertsTyped, Saved, Statuses
      <3> QED
        BY <3>2, <3>5 DEF Typed, PolicyTyped, BundlesTyped, TasksTyped, Saved
    <2>8. CASE Tick \/ UNCHANGED vars
      BY <2>8 DEF Tick, vars, state, Typed, PolicyTyped, BundlesTyped, TasksTyped, AlertsTyped, Saved
    <2> QED
      BY <2>1, <2>2, <2>3, <2>4, <2>5, <2>6, <2>7, <2>8 DEF Next, Bundle, Quiet
  <1> QED
    BY <1>1, <1>2, Invariant, TypedIs, PTL DEF Spec
=============================================================================
