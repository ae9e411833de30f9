-------------------------- MODULE DiscoveryProofs --------------------------
(***************************************************************************)
(* Proofs about Discovery, for any routes, limits, requests, operators and *)
(* saved rows.                                                             *)
(***************************************************************************)
EXTENDS Discovery, FiniteSetTheorems, WellFoundedInduction, TLAPS

(* What serving a request leaves alone.                                    *)
LEMMA ServingLeaves ==
    ASSUME NEW q \in Requests, Serve(q)
    PROVE  UNCHANGED <<rows, listed, task, edits, faults, restarts, restored, undisturbed>>
  BY DEF Serve, Arrive, Remember, Learn, Observe, Unanswered

(* Only a cleared memory changes routes or what is restored among the      *)
(* steps of operators.                                                     *)
LEMMA OperatingLeaves ==
    ASSUME NEW o \in Operators, Operate(o)
    PROVE  ClearMemory(o) \/ UNCHANGED memory
  BY DEF Operate, Sync, ReadRoutes, ClearRows, RetireApproved, RetirePromoted, Retire, ReadListed,
         Read, ReplaceRows, Approve, PromoteShadowRoute, PromoteToManagedSpec,
         DeleteApproved, DeletePromoted, DeleteManaged, Delete, Begin, Goes
-----------------------------------------------------------------------------
(* The handlers: one that filters is a record of the fields of Reading.    *)
Fields == {"at", "hidden", "steady", "items"}

Formed(t) == t.at \in Filtering => t = [field \in Fields |-> t[field]]

TasksFormed ==
    /\ task = [o \in Operators |-> task[o]]
    /\ \A o \in Operators : Formed(task[o])

LEMMA Unsteadied ==
    ASSUME NEW t, Formed(t), NEW gone
    PROVE  /\ Formed(Unsteady(t, gone)) /\ Unsteady(t, gone).at = t.at
           /\ t.at \notin Filtering => Unsteady(t, gone) = t
           /\ t.at \in Filtering =>
                /\ Unsteady(t, gone).hidden = t.hidden /\ Unsteady(t, gone).items = t.items
                /\ Unsteady(t, gone).steady = (t.steady \cap OnSome(listed')) \ gone
  BY DEF Formed, Unsteady, Fields, Filtering, Stages

LEMMA ReadingFormed ==
    ASSUME NEW tables
    PROVE  /\ Formed(Reading(tables)) /\ Reading(tables).at = "approved"
           /\ Reading(tables).steady = OnSome(tables) /\ Reading(tables).hidden = {}
  BY DEF Formed, Reading, Fields

(* The task of o after its step; those of the others may lose some routes  *)
(* that are steady.                                                        *)
LEMMA OthersTasks ==
    ASSUME TasksFormed, NEW o \in Operators, Operate(o)
    PROVE  /\ TasksFormed'
           /\ \A x \in Operators \ {o} : task'[x] = task[x] \/ \E gone : task'[x] = Unsteady(task[x], gone)
  <1>1. ASSUME NEW t, Formed(t), Goto(o, t) \/ UNCHANGED task
        PROVE  TasksFormed' /\ \A x \in Operators \ {o} : task'[x] = task[x]
    BY <1>1 DEF TasksFormed, Goto, Formed
  <1>2. ASSUME NEW gone, task' = [x \in Operators |-> Unsteady(task[x], gone)]
        PROVE  TasksFormed' /\ \A x \in Operators \ {o} : task'[x] = Unsteady(task[x], gone)
    BY <1>2, Unsteadied DEF TasksFormed
  <1>3. CASE Sync(o)
    BY <1>1, <1>3, ReadingFormed DEF Sync
  <1>4. CASE \E r \in Handled, ok \in BOOLEAN :
                 PromoteShadowRoute(o, r, ok) \/ PromoteToManagedSpec(o, r, ok)
    <2>1. PICK r : Goto(o, [at |-> "retire approved", route |-> r])
                   \/ Goto(o, [at |-> "retire promoted", route |-> r]) \/ UNCHANGED task
      BY <1>4 DEF PromoteShadowRoute, PromoteToManagedSpec
    <2>2. Formed([at |-> "retire approved", route |-> r]) /\ Formed([at |-> "retire promoted", route |-> r])
      BY DEF Formed, Filtering, Stages
    <2> QED
      BY <1>1, <2>1, <2>2
  <1>5. CASE \E r \in Handled, ok \in BOOLEAN :
                 \/ Approve(o, r, ok) \/ DeleteApproved(o, r, ok)
                 \/ DeletePromoted(o, r, ok) \/ DeleteManaged(o, r, ok)
    BY <1>2, <1>5 DEF Approve, DeleteApproved, DeletePromoted, DeleteManaged, Delete
  <1>6. CASE ClearMemory(o) \/ (\E ok \in BOOLEAN : ClearRows(o, ok) \/ ReplaceRows(o, ok))
    <2>1. Formed(Ready) /\ Formed([at |-> "clear"])
      BY DEF Formed, Filtering, Stages, Ready
    <2> QED
      BY <1>1, <1>6, <2>1 DEF ClearMemory, ClearRows, ReplaceRows
  <1>7. CASE ReadRoutes(o)
    <2>1. task[o].at = "routes" /\ Formed(task[o])
      BY <1>7 DEF ReadRoutes, Goes, TasksFormed
    <2>2. \A items : Formed([task[o] EXCEPT !.at = "replace", !.items = items])
      BY <2>1 DEF Formed, Filtering
    <2> QED
      BY <1>1, <1>7, <2>2 DEF ReadRoutes
  <1>8. CASE \E ok \in BOOLEAN : ReadListed(o, ok)
    <2>0. PICK stage, keys, next, ok :
              Read(o, stage, keys, next, ok) /\ next \in {"promoted", "managed", "routes"}
      BY <1>8 DEF ReadListed
    <2>1. PICK hidden, steady : Goto(o, [task[o] EXCEPT !.at = next, !.hidden = hidden, !.steady = steady])
      <3>1. PICK h : h = IF ok THEN task[o].hidden \cup keys ELSE task[o].hidden
        OBVIOUS
      <3>2. PICK s : s = IF ok THEN task[o].steady ELSE task[o].steady \ keys
        OBVIOUS
      <3>3. Goto(o, [task[o] EXCEPT !.at = next, !.hidden = h, !.steady = s])
        BY <2>0, <3>1, <3>2 DEF Read
      <3> QED
        BY <3>3
    <2>2. task[o].at \in Filtering /\ Formed(task[o])
      BY <1>8 DEF ReadListed, Read, Goes, TasksFormed, Filtering, Stages
    <2>3. Formed([task[o] EXCEPT !.at = next, !.hidden = hidden, !.steady = steady])
      BY <2>0, <2>2 DEF Formed
    <2> QED
      BY <1>1, <2>1, <2>3
  <1>9. CASE \E ok \in BOOLEAN : RetireApproved(o, ok) \/ RetirePromoted(o, ok)
    <2>1. task' = [x \in Operators |-> IF x = o THEN Reading(listed') ELSE Unsteady(task[x], {})]
      BY <1>9 DEF RetireApproved, RetirePromoted, Retire
    <2> QED
      BY <2>1, Unsteadied, ReadingFormed DEF TasksFormed
  <1> QED
    BY <1>3, <1>4, <1>5, <1>6, <1>7, <1>8, <1>9 DEF Operate
-----------------------------------------------------------------------------
(* The memory of routes.                                                   *)
Finite ==
    /\ IsFiniteSet(DOMAIN routes) /\ IsFiniteSet(DOMAIN rows) /\ IsFiniteSet(restored)
    /\ TasksFormed
    /\ \A o \in Operators : task[o].at = "replace" => IsFiniteSet(DOMAIN task[o].items)

LEMMA MaxOfThree ==
    ASSUME NEW a \in Nat, NEW b \in Nat, NEW c \in Nat
    PROVE  /\ Max({a, b, c}) \in Nat
           /\ a <= Max({a, b, c}) /\ b <= Max({a, b, c}) /\ c <= Max({a, b, c})
  <1>1. \E x \in {a, b, c} : \A y \in {a, b, c} : x >= y
    <2>1. CASE a >= b /\ a >= c
      BY <2>1
    <2>2. CASE b >= a /\ b >= c
      BY <2>2
    <2>3. CASE c >= a /\ c >= b
      BY <2>3
    <2> QED
      BY <2>1, <2>2, <2>3
  <1>2. /\ Max({a, b, c}) \in {a, b, c}
        /\ \A y \in {a, b, c} : Max({a, b, c}) >= y
    BY <1>1 DEF Max
  <1> QED
    BY <1>2

(* What a request may do to the memory: nothing to which routes it holds,  *)
(* or one more, perhaps in the place of another.                           *)
LEMMA Remembering ==
    ASSUME NEW q \in Requests, NEW v, Remember(q, v)
    PROVE  LET r == request[q].call.route IN
           /\ r \in DOMAIN routes => DOMAIN routes' = DOMAIN routes
           /\ r \notin DOMAIN routes =>
                /\ v \in DOMAIN routes \/ DOMAIN routes = {}
                /\ DOMAIN routes' = (IF Full THEN DOMAIN routes \ {v} ELSE DOMAIN routes) \cup {r}
  BY DEF Remember, WithNew, Oldest, Nowhere

LEMMA RememberedBound ==
    ASSUME Finite, LearnedBound, NEW q \in Requests, NEW v, Remember(q, v)
    PROVE  IsFiniteSet(DOMAIN routes') /\ LearnedBound'
  <1> DEFINE r     == request[q].call.route
             bound == Max({1, MaxRoutes, Cardinality(restored)})
  <1>1. Cardinality(restored) \in Nat /\ Cardinality(DOMAIN routes) \in Nat /\ MaxRoutes \in Nat
    BY FS_CardinalityType, DiscoveryAssumption DEF Finite
  <1>2. bound \in Nat /\ 1 <= bound /\ MaxRoutes <= bound
    BY <1>1, MaxOfThree
  <1>3. UNCHANGED restored
    BY DEF Remember
  <1>4. Cardinality(DOMAIN routes) <= bound
    BY DEF LearnedBound
  <1> HIDE DEF bound
  <1>5. IsFiniteSet(DOMAIN routes') /\ Cardinality(DOMAIN routes') <= bound
    <2>1. CASE r \in DOMAIN routes
      BY <1>4, <2>1, Remembering DEF Finite
    <2>2. CASE r \notin DOMAIN routes /\ ~Full
      <3>1. DOMAIN routes' = DOMAIN routes \cup {r}
        BY <2>2, Remembering
      <3>2. Cardinality(DOMAIN routes') = Cardinality(DOMAIN routes) + 1 /\ IsFiniteSet(DOMAIN routes')
        BY <2>2, <3>1, FS_AddElement DEF Finite
      <3>3. Cardinality(DOMAIN routes) < MaxRoutes
        BY <1>1, <2>2 DEF Full
      <3> QED
        BY <1>1, <1>2, <3>2, <3>3
    <2>3. CASE r \notin DOMAIN routes /\ Full
      <3>1. DOMAIN routes' = (DOMAIN routes \ {v}) \cup {r}
        BY <2>3, Remembering
      <3>2. CASE v \in DOMAIN routes
        <4>1. IsFiniteSet(DOMAIN routes \ {v})
              /\ Cardinality(DOMAIN routes \ {v}) = Cardinality(DOMAIN routes) - 1
          BY <3>2, FS_RemoveElement DEF Finite
        <4>2. Cardinality(DOMAIN routes') = Cardinality(DOMAIN routes \ {v}) + 1
              /\ IsFiniteSet(DOMAIN routes')
          BY <2>3, <3>1, <4>1, FS_AddElement
        <4> QED
          BY <1>1, <1>4, <4>1, <4>2
      <3>3. CASE DOMAIN routes = {}
        <4>1. DOMAIN routes' = {r}
          BY <3>1, <3>3
        <4> QED
          BY <1>2, <4>1, FS_Singleton
      <3> QED
        BY <2>3, <3>2, <3>3, Remembering
    <2> QED
      BY <2>1, <2>2, <2>3
  <1> QED
    BY <1>3, <1>5 DEF bound, LearnedBound

(* What a request does otherwise leaves the routes that are known.         *)
LEMMA ServingOtherwise ==
    ASSUME NEW q \in Requests, Serve(q), \A v \in Routes : ~Remember(q, v)
    PROVE  DOMAIN routes' = DOMAIN routes /\ UNCHANGED announced
  BY DEF Serve, Arrive, Learn, Observe, Unanswered

(* The routes a handler is about to save are some that are known.          *)
LEMMA Selecting ==
    ASSUME TasksFormed, NEW o \in Operators, ReadRoutes(o)
    PROVE  /\ task[o].at = "routes" /\ task'[o].at = "replace"
           /\ DOMAIN task'[o].items = Shadow \ task[o].hidden
           /\ task'[o].steady = task[o].steady
           /\ \A x \in Operators \ {o} : task'[x] = task[x]
  <1> DEFINE items == [r \in Shadow \ task[o].hidden |-> routes[r]]
             t == [task[o] EXCEPT !.at = "replace", !.items = items]
  <1>1. task[o].at = "routes" /\ Formed(task[o])
    BY DEF TasksFormed, ReadRoutes, Goes
  <1>2. t.at = "replace" /\ t.items = items /\ t.steady = task[o].steady
    BY <1>1 DEF Formed, Filtering, Fields
  <1>3. task'[o] = t /\ \A x \in Operators \ {o} : task'[x] = task[x]
    BY DEF TasksFormed, ReadRoutes, Goto
  <1> QED
    BY <1>1, <1>2, <1>3

(* A handler is about to save only after it has read the routes.           *)
LEMMA ReplacingFollows ==
    ASSUME TasksFormed, NEW o \in Operators, Operate(o), task'[o].at = "replace"
    PROVE  ReadRoutes(o) \/ (task[o].at = "replace" /\ task'[o].items = task[o].items)
  <1>1. Formed(task[o])
    BY DEF TasksFormed
  <1>2. CASE Sync(o)
    BY <1>2, ReadingFormed DEF Sync, Goto, TasksFormed
  <1>3. CASE \E r \in Handled, ok \in BOOLEAN :
                 PromoteShadowRoute(o, r, ok) \/ PromoteToManagedSpec(o, r, ok)
    <2>1. PICK r : \/ Goto(o, [at |-> "retire approved", route |-> r])
                   \/ Goto(o, [at |-> "retire promoted", route |-> r]) \/ UNCHANGED task
      BY <1>3 DEF PromoteShadowRoute, PromoteToManagedSpec
    <2>2. \/ task'[o] = [at |-> "retire approved", route |-> r]
          \/ task'[o] = [at |-> "retire promoted", route |-> r]
          \/ task'[o] = task[o]
      BY <2>1 DEF Goto, TasksFormed
    <2>3. /\ [at |-> "retire approved", route |-> r].at = "retire approved"
          /\ [at |-> "retire promoted", route |-> r].at = "retire promoted"
      OBVIOUS
    <2>4. task'[o].at \in {"retire approved", "retire promoted"} \/ task'[o] = task[o]
      BY <2>2, <2>3
    <2> QED
      BY <2>4
  <1>4. CASE \E r \in Handled, ok \in BOOLEAN :
                 \/ Approve(o, r, ok) \/ DeleteApproved(o, r, ok)
                 \/ DeletePromoted(o, r, ok) \/ DeleteManaged(o, r, ok)
    <2>1. \E gone : task'[o] = Unsteady(task[o], gone)
      BY <1>4 DEF Approve, DeleteApproved, DeletePromoted, DeleteManaged, Delete
    <2> QED
      BY <1>1, <2>1, Unsteadied DEF Filtering
  <1>5. CASE ClearMemory(o) \/ (\E ok \in BOOLEAN : ClearRows(o, ok) \/ ReplaceRows(o, ok))
    BY <1>5 DEF ClearMemory, ClearRows, ReplaceRows, Goto, TasksFormed, Ready
  <1>6. CASE \E ok \in BOOLEAN : ReadListed(o, ok)
    <2>0. PICK stage, keys, next, ok :
              Read(o, stage, keys, next, ok) /\ next \in {"promoted", "managed", "routes"}
      BY <1>6 DEF ReadListed
    <2>1. PICK hidden, steady : Goto(o, [task[o] EXCEPT !.at = next, !.hidden = hidden, !.steady = steady])
      <3>1. PICK h : h = IF ok THEN task[o].hidden \cup keys ELSE task[o].hidden
        OBVIOUS
      <3>2. PICK s : s = IF ok THEN task[o].steady ELSE task[o].steady \ keys
        OBVIOUS
      <3>3. Goto(o, [task[o] EXCEPT !.at = next, !.hidden = h, !.steady = s])
        BY <2>0, <3>1, <3>2 DEF Read
      <3> QED
        BY <3>3
    <2>3. task'[o] = [task[o] EXCEPT !.at = next, !.hidden = hidden, !.steady = steady]
      BY <2>1 DEF Goto, TasksFormed
    <2>2. task[o].at \in Filtering
      BY <1>6 DEF ReadListed, Read, Goes, Filtering, Stages
    <2> QED
      BY <1>1, <2>0, <2>2, <2>3 DEF Formed, Fields
  <1>7. CASE \E ok \in BOOLEAN : RetireApproved(o, ok) \/ RetirePromoted(o, ok)
    <2>1. task'[o] = Reading(listed')
      BY <1>7 DEF RetireApproved, RetirePromoted, Retire
    <2> QED
      BY <2>1, ReadingFormed
  <1> QED
    BY <1>2, <1>3, <1>4, <1>5, <1>6, <1>7 DEF Operate

LEMMA OperatingFinite ==
    ASSUME Finite, NEW o \in Operators, Operate(o)
    PROVE  /\ IsFiniteSet(DOMAIN rows')
           /\ \A x \in Operators : task'[x].at = "replace" => IsFiniteSet(DOMAIN task'[x].items)
  <1>0. TasksFormed /\ IsFiniteSet(DOMAIN Nowhere)
    BY FS_EmptySet DEF Nowhere, Finite
  <1>1. CASE ReadRoutes(o)
    <2>1. IsFiniteSet(Shadow \ task[o].hidden)
      BY FS_Subset DEF Shadow, Finite
    <2>2. rows' = rows
      BY <1>1 DEF ReadRoutes
    <2> QED
      BY <1>0, <1>1, <2>1, <2>2, Selecting DEF Finite
  <1>2. CASE ~ReadRoutes(o)
    <2>1. ASSUME NEW x \in Operators \ {o}, task'[x].at = "replace"
          PROVE  task[x].at = "replace" /\ task'[x].items = task[x].items
      BY <1>0, <2>1, OthersTasks, Unsteadied DEF TasksFormed, Filtering
    <2>2. task'[o].at = "replace" => task[o].at = "replace" /\ task'[o].items = task[o].items
      BY <1>0, <1>2, ReplacingFollows
    <2>3. DOMAIN rows' \in {DOMAIN rows, DOMAIN Nowhere} \/ (task[o].at = "replace" /\ rows' = task[o].items)
      BY <1>2 DEF Operate, Sync, ClearMemory, ClearRows, RetireApproved, RetirePromoted, Retire,
         ReadListed, Read, ReplaceRows, Approve, PromoteShadowRoute, PromoteToManagedSpec,
         DeleteApproved, DeletePromoted, DeleteManaged, Delete, Begin, Goes
    <2> QED
      BY <1>0, <2>1, <2>2, <2>3 DEF Finite
  <1> QED
    BY <1>1, <1>2

(* The memory of routes holds no more than its limit, or than the last     *)
(* start brought back, for any saved rows and any limit.                   *)
THEOREM LearnedBoundHolds == Spec => []LearnedBound
<1>0. MaxRoutes \in Nat
  BY DiscoveryAssumption
<1>1. Init => Finite /\ LearnedBound
  <2> SUFFICES ASSUME Init PROVE Finite /\ LearnedBound
    OBVIOUS
  <2>1. IsFiniteSet(DOMAIN rows)
    BY FS_Subset, DiscoveryAssumption DEF Init, IsTable
  <2>2. \A o \in Operators : task[o] = Ready
    BY DEF Init
  <2>3. Finite
    BY <2>1, <2>2 DEF Init, Finite, TasksFormed, Formed, Filtering, Stages, Ready
  <2>4. LearnedBound
    BY <1>0, <2>1, MaxOfThree, FS_CardinalityType DEF Init, LearnedBound
  <2> QED
    BY <2>3, <2>4
<1>2. Finite /\ LearnedBound /\ [Next]_vars => (Finite /\ LearnedBound)'
  <2> SUFFICES ASSUME Finite, LearnedBound, [Next]_vars PROVE Finite' /\ LearnedBound'
    OBVIOUS
  <2>1. ASSUME NEW q \in Requests, Serve(q) PROVE Finite' /\ LearnedBound'
    <3>1. UNCHANGED <<rows, task, restored>>
      BY <2>1, ServingLeaves
    <3>2. IsFiniteSet(DOMAIN routes') /\ LearnedBound'
      <4>1. CASE \E v \in Routes : Remember(q, v)
        BY <4>1, RememberedBound
      <4>2. CASE \A v \in Routes : ~Remember(q, v)
        BY <2>1, <3>1, <4>2, ServingOtherwise DEF Finite, LearnedBound
      <4> QED
        BY <4>1, <4>2
    <3> QED
      BY <3>1, <3>2 DEF Finite, TasksFormed
  <2>2. ASSUME NEW o \in Operators, Operate(o) PROVE Finite' /\ LearnedBound'
    <3>1. CASE ClearMemory(o)
      <4>1. DOMAIN routes' = {} /\ restored' = {}
        BY <3>1 DEF ClearMemory, Nowhere
      <4>2. IsFiniteSet({}) /\ Cardinality({}) = 0
        BY FS_EmptySet
      <4>3. LearnedBound'
        BY <1>0, <4>1, <4>2, MaxOfThree DEF LearnedBound
      <4> QED
        BY <2>2, <4>1, <4>2, <4>3, OperatingFinite, OthersTasks DEF Finite
    <3>2. CASE UNCHANGED memory
      <4>1. UNCHANGED <<routes, restored>>
        BY <3>2 DEF memory
      <4> QED
        BY <2>2, <4>1, OperatingFinite, OthersTasks DEF Finite, LearnedBound
    <3> QED
      BY <2>2, <3>1, <3>2, OperatingLeaves
  <2>3. CASE Restart
    <3>1. DOMAIN routes' = DOMAIN rows /\ restored' = DOMAIN rows /\ rows' = rows
      BY <2>3 DEF Restart
    <3>2. TasksFormed' /\ \A o \in Operators : task'[o].at # "replace"
      BY <2>3 DEF Restart, TasksFormed, Formed, Filtering, Stages, Ready
    <3>3. LearnedBound'
      BY <1>0, <3>1, MaxOfThree, FS_CardinalityType DEF LearnedBound, Finite
    <3> QED
      BY <3>1, <3>2, <3>3 DEF Finite
  <2>4. CASE UNCHANGED vars
    BY <2>4 DEF vars, Finite, TasksFormed, LearnedBound
  <2> QED
    BY <2>1, <2>2, <2>3, <2>4 DEF Next
<1> QED
  BY <1>1, <1>2, PTL DEF Spec
-----------------------------------------------------------------------------
(* Announcements.  A route that is not known has none to its name.         *)
Announcements ==
    /\ announced \in [Routes -> Nat]
    /\ \A r \in Routes :
         /\ r \notin DOMAIN routes => announced[r] = 0
         /\ announced[r] <= 1
         /\ Enabled /\ r \in DOMAIN routes /\ announced[r] = 0 => r \in restored

LEMMA RememberedOnce ==
    ASSUME Announcements, NEW q \in Requests, NEW v, Remember(q, v)
    PROVE  Announcements'
  <1> DEFINE r == request[q].call.route
  <1>1. /\ announced' = [x \in Routes |-> IF x = r /\ Enabled /\ Announces(r) THEN announced[x] + 1
                                          ELSE IF x \in Gone THEN 0 ELSE announced[x]]
        /\ restored' = restored
    BY DEF Remember
  <1>2. CASE r \in DOMAIN routes
    <2>1. DOMAIN routes' = DOMAIN routes
      BY <1>2, Remembering
    <2>2. announced' = announced
      BY <1>1, <1>2, <2>1 DEF Gone, Announces, Announcements
    <2> QED
      BY <1>1, <2>1, <2>2 DEF Announcements
  <1>3. CASE r \notin DOMAIN routes
    <2>1. r \in DOMAIN routes' /\ DOMAIN routes' \subseteq DOMAIN routes \cup {r}
      BY <1>3, Remembering
    <2>2. \A x \in Routes \ {r} : announced'[x] = IF x \in Gone THEN 0 ELSE announced[x]
      BY <1>1
    <2>3. r \in Routes => announced'[r] = IF Enabled THEN 1 ELSE 0
      BY <1>1, <1>3, <2>1 DEF Gone, Announces, Announcements
    <2>4. announced' \in [Routes -> Nat]
      BY <1>1 DEF Announcements
    <2>5. \A x \in Routes \ {r} : x \in DOMAIN routes' => x \in DOMAIN routes /\ announced'[x] = announced[x]
      BY <2>1, <2>2 DEF Gone
    <2>6. \A x \in Routes \ {r} : x \notin DOMAIN routes' => announced'[x] = 0
      BY <2>2 DEF Gone, Announcements
    <2>7. \A x \in Routes \ {r} : announced'[x] <= 1
      BY <2>2 DEF Announcements
    <2> QED
      BY <1>1, <2>1, <2>3, <2>4, <2>5, <2>6, <2>7 DEF Announcements
  <1> QED
    BY <1>2, <1>3

(* A route is announced as new at most once while it is known, and always  *)
(* unless a start brought it back.                                         *)
THEOREM AnnouncedOnceHolds == Spec => []AnnouncedOnce
<1>1. Init => Announcements
  BY DEF Init, Announcements
<1>2. Announcements /\ [Next]_vars => Announcements'
  <2> SUFFICES ASSUME Announcements, [Next]_vars PROVE Announcements'
    OBVIOUS
  <2>1. ASSUME NEW q \in Requests, Serve(q) PROVE Announcements'
    <3>1. CASE \E v \in Routes : Remember(q, v)
      BY <3>1, RememberedOnce
    <3>2. CASE \A v \in Routes : ~Remember(q, v)
      BY <2>1, <3>2, ServingLeaves, ServingOtherwise DEF Announcements
    <3> QED
      BY <3>1, <3>2
  <2>2. ASSUME NEW o \in Operators, Operate(o) PROVE Announcements'
    <3>1. CASE ClearMemory(o)
      BY <3>1 DEF ClearMemory, Announcements, Nowhere
    <3>2. CASE UNCHANGED memory
      BY <3>2 DEF memory, Announcements
    <3> QED
      BY <2>2, <3>1, <3>2, OperatingLeaves
  <2>3. CASE Restart
    BY <2>3 DEF Restart, Announcements
  <2>4. CASE UNCHANGED vars
    BY <2>4 DEF vars, Announcements
  <2> QED
    BY <2>1, <2>2, <2>3, <2>4 DEF Next
<1>3. Announcements => AnnouncedOnce
  BY DEF Announcements, AnnouncedOnce
<1> QED
  BY <1>1, <1>2, <1>3, PTL DEF Spec
-----------------------------------------------------------------------------
(* What is hidden.  Of the routes on some table all the while, those gone  *)
(* from the tables read so far were hidden by them, or are on one that is  *)
(* still to be read.                                                       *)
Safe(t, tables) ==
    /\ t.at = "approved" => t.steady \subseteq OnSome(tables)
    /\ t.at = "promoted" => /\ t.steady \subseteq t.hidden \cup tables.promoted \cup tables.managed
                            /\ t.steady \cap tables.approved \subseteq t.hidden
    /\ t.at = "managed"  => t.steady \subseteq t.hidden \cup tables.managed
    /\ t.at = "routes"   => t.steady \subseteq t.hidden
    /\ t.at = "replace"  => DOMAIN t.items \cap t.steady = {}

Tables == listed = [s \in Stages |-> listed[s]]

HiddenInv == TasksFormed /\ Tables /\ \A o \in Operators : Safe(task[o], listed)

LEMMA OnSomeIs ==
    ASSUME NEW tables
    PROVE  OnSome(tables) = tables.approved \cup tables.promoted \cup tables.managed
  BY DEF OnSome, Stages

(* Adding to the later tables keeps a filter safe.                         *)
LEMMA SafeWithMore ==
    ASSUME NEW t, NEW before, NEW after, Safe(t, before),
           after.approved = before.approved,
           before.promoted \subseteq after.promoted, before.managed \subseteq after.managed
    PROVE  Safe(t, after)
  BY OnSomeIs DEF Safe

(* So does any other change, for what is steady after it: routes approved  *)
(* anew and routes taken off the table of managed ones are not.            *)
LEMMA SafeWithout ==
    ASSUME NEW t, Formed(t), Safe(t, listed), NEW gone,
           listed'.approved \subseteq listed.approved \cup gone,
           listed.managed \subseteq listed'.managed \cup gone
    PROVE  Safe(Unsteady(t, gone), listed')
  <1> DEFINE u == Unsteady(t, gone)
  <1>1. u.at = t.at
    BY Unsteadied
  <1>2. t.at \in Filtering => /\ u.hidden = t.hidden /\ u.items = t.items
                              /\ u.steady = (t.steady \cap OnSome(listed')) \ gone
    BY Unsteadied
  <1>3. u.at \in {"approved", "promoted", "managed", "routes", "replace"} => u.at \in Filtering
    BY DEF Filtering, Stages
  <1> HIDE DEF u
  <1>4. u.at = "approved" => u.steady \subseteq OnSome(listed')
    BY <1>1, <1>2, <1>3
  <1>5. u.at = "promoted" =>
            /\ u.steady \subseteq u.hidden \cup listed'.promoted \cup listed'.managed
            /\ u.steady \cap listed'.approved \subseteq u.hidden
    BY <1>1, <1>2, <1>3, OnSomeIs DEF Safe
  <1>6. u.at = "managed" => u.steady \subseteq u.hidden \cup listed'.managed
    BY <1>1, <1>2, <1>3 DEF Safe
  <1>7. u.at \in {"routes", "replace"} =>
            u.hidden = t.hidden /\ u.items = t.items /\ u.steady \subseteq t.steady
    BY <1>1, <1>2, <1>3
  <1>8. /\ u.at = "routes" => u.steady \subseteq u.hidden
        /\ u.at = "replace" => DOMAIN u.items \cap u.steady = {}
    BY <1>1, <1>7 DEF Safe
  <1>9. Safe(u, listed')
    BY <1>4, <1>5, <1>6, <1>8 DEF Safe
  <1> QED
    BY <1>9 DEF u

LEMMA SafeStep ==
    ASSUME HiddenInv, NEW o \in Operators, Operate(o)
    PROVE  HiddenInv'
  <1>0. /\ TasksFormed /\ Tables /\ TasksFormed'
        /\ \A x \in Operators : Formed(task[x]) /\ Safe(task[x], listed)
    BY OthersTasks DEF HiddenInv, TasksFormed
  <1>1. ASSUME NEW t, Goto(o, t) \/ (UNCHANGED task /\ t = task[o]), Safe(t, listed'), Tables',
               \A x \in Operators \ {o} : Safe(task[x], listed')
        PROVE  HiddenInv'
    <2>1. \A x \in Operators : task'[x] = IF x = o THEN t ELSE task[x]
      BY <1>0, <1>1 DEF Goto, TasksFormed
    <2> QED
      BY <1>0, <1>1, <2>1 DEF HiddenInv
  <1>2. ASSUME NEW t, Goto(o, t), Safe(t, listed), UNCHANGED listed
        PROVE  HiddenInv'
    BY <1>0, <1>1, <1>2 DEF Tables
  <1>3. CASE Sync(o)
    <2>1. Safe(Reading(listed), listed)
      BY ReadingFormed DEF Safe
    <2> QED
      BY <1>2, <1>3, <2>1 DEF Sync
  <1>4. CASE \E ok \in BOOLEAN : ReadListed(o, ok)
    <2>1. PICK ok \in BOOLEAN :
            \/ Read(o, "approved", listed.approved, "promoted", ok)
            \/ Read(o, "promoted", listed.promoted, "managed", ok)
            \/ Read(o, "managed", listed.managed, "routes", ok)
      BY <1>4 DEF ReadListed, ApprovedShadowRouteKeys, PromotedSpecRouteKeys, ManagedSpecRouteKeys
    <2>2. CASE Read(o, "approved", listed.approved, "promoted", ok)
      <3>1. task[o].at = "approved" /\ "approved" \in Stages /\ UNCHANGED listed
        BY <2>2 DEF Read, Goes, Stages
      <3>2. /\ task'[o].at = "promoted"
            /\ task'[o].hidden = IF ok THEN task[o].hidden \cup listed.approved ELSE task[o].hidden
            /\ task'[o].steady = IF ok THEN task[o].steady ELSE task[o].steady \ listed.approved
            /\ \A x \in Operators \ {o} : task'[x] = task[x]
        <4>1. Formed(task[o]) /\ task[o].at \in Filtering
          BY <1>0, <3>1 DEF Filtering
        <4>2. task' = [task EXCEPT ![o] = [task[o] EXCEPT !.at = "promoted",
                                             !.hidden = IF ok THEN @ \cup listed.approved ELSE @,
                                             !.steady = IF ok THEN @ ELSE @ \ listed.approved]]
          BY <2>2 DEF Read, Goto
        <4> QED
          BY <1>0, <4>1, <4>2 DEF Formed, Fields, TasksFormed
      <3>3. Safe(task'[o], listed)
        BY <1>0, <3>1, <3>2, OnSomeIs DEF Safe
      <3> QED
        BY <1>0, <3>1, <3>2, <3>3 DEF HiddenInv, Tables
    <2>3. CASE Read(o, "promoted", listed.promoted, "managed", ok)
      <3>1. task[o].at = "promoted" /\ "promoted" \in Stages /\ UNCHANGED listed
        BY <2>3 DEF Read, Goes, Stages
      <3>2. /\ task'[o].at = "managed"
            /\ task'[o].hidden = IF ok THEN task[o].hidden \cup listed.promoted ELSE task[o].hidden
            /\ task'[o].steady = IF ok THEN task[o].steady ELSE task[o].steady \ listed.promoted
            /\ \A x \in Operators \ {o} : task'[x] = task[x]
        <4>1. Formed(task[o]) /\ task[o].at \in Filtering
          BY <1>0, <3>1 DEF Filtering
        <4>2. task' = [task EXCEPT ![o] = [task[o] EXCEPT !.at = "managed",
                                             !.hidden = IF ok THEN @ \cup listed.promoted ELSE @,
                                             !.steady = IF ok THEN @ ELSE @ \ listed.promoted]]
          BY <2>3 DEF Read, Goto
        <4> QED
          BY <1>0, <4>1, <4>2 DEF Formed, Fields, TasksFormed
      <3>3. Safe(task'[o], listed)
        BY <1>0, <3>1, <3>2 DEF Safe
      <3> QED
        BY <1>0, <3>1, <3>2, <3>3 DEF HiddenInv, Tables
    <2>4. CASE Read(o, "managed", listed.managed, "routes", ok)
      <3>1. task[o].at = "managed" /\ "managed" \in Stages /\ UNCHANGED listed
        BY <2>4 DEF Read, Goes, Stages
      <3>2. /\ task'[o].at = "routes"
            /\ task'[o].hidden = IF ok THEN task[o].hidden \cup listed.managed ELSE task[o].hidden
            /\ task'[o].steady = IF ok THEN task[o].steady ELSE task[o].steady \ listed.managed
            /\ \A x \in Operators \ {o} : task'[x] = task[x]
        <4>1. Formed(task[o]) /\ task[o].at \in Filtering
          BY <1>0, <3>1 DEF Filtering
        <4>2. task' = [task EXCEPT ![o] = [task[o] EXCEPT !.at = "routes",
                                             !.hidden = IF ok THEN @ \cup listed.managed ELSE @,
                                             !.steady = IF ok THEN @ ELSE @ \ listed.managed]]
          BY <2>4 DEF Read, Goto
        <4> QED
          BY <1>0, <4>1, <4>2 DEF Formed, Fields, TasksFormed
      <3>3. Safe(task'[o], listed)
        BY <1>0, <3>1, <3>2 DEF Safe
      <3> QED
        BY <1>0, <3>1, <3>2, <3>3 DEF HiddenInv, Tables
    <2> QED
      BY <2>1, <2>2, <2>3, <2>4
  <1>5. CASE ReadRoutes(o)
    <2>1. DOMAIN task'[o].items \cap task'[o].steady = {} /\ task'[o].at = "replace"
      BY <1>0, <1>5, Selecting DEF Safe
    <2>2. UNCHANGED listed /\ \A x \in Operators \ {o} : task'[x] = task[x]
      BY <1>0, <1>5, Selecting DEF ReadRoutes
    <2>3. Safe(task'[o], listed')
      BY <2>1 DEF Safe
    <2> QED
      BY <1>0, <2>2, <2>3 DEF HiddenInv, Tables
  <1>6. CASE ClearMemory(o) \/ (\E ok \in BOOLEAN : ClearRows(o, ok) \/ ReplaceRows(o, ok))
    <2>1. UNCHANGED listed /\ (Goto(o, Ready) \/ Goto(o, [at |-> "clear"]))
      BY <1>6 DEF ClearMemory, ClearRows, ReplaceRows
    <2>2. Safe(Ready, listed) /\ Safe([at |-> "clear"], listed)
      BY DEF Safe, Ready
    <2> QED
      BY <1>2, <2>1, <2>2
  <1>7. CASE \E r \in Handled, ok \in BOOLEAN :
                 PromoteShadowRoute(o, r, ok) \/ PromoteToManagedSpec(o, r, ok)
    <2>0. PICK r \in Handled, ok \in BOOLEAN : PromoteShadowRoute(o, r, ok) \/ PromoteToManagedSpec(o, r, ok)
      BY <1>7
    <2>1. /\ listed' \in {listed, UpsertPromotedRow(r), UpsertManagedRow(r)}
          /\ \/ Goto(o, [at |-> "retire approved", route |-> r])
             \/ Goto(o, [at |-> "retire promoted", route |-> r])
             \/ UNCHANGED task
      BY <2>0 DEF PromoteShadowRoute, PromoteToManagedSpec
    <2>2. /\ Tables' /\ listed'.approved = listed.approved
          /\ listed.promoted \subseteq listed'.promoted /\ listed.managed \subseteq listed'.managed
      BY <1>0, <2>1 DEF Tables, Stages, UpsertPromotedRow, UpsertManagedRow
    <2>3. \A x \in Operators : Safe(task[x], listed')
      BY <1>0, <2>2, SafeWithMore
    <2>4. /\ Safe([at |-> "retire approved", route |-> r], listed')
          /\ Safe([at |-> "retire promoted", route |-> r], listed')
      BY DEF Safe
    <2> QED
      BY <1>1, <2>1, <2>2, <2>3, <2>4
  <1>8. ASSUME NEW gone, task' = [x \in Operators |-> Unsteady(task[x], gone)], Tables',
               listed'.approved \subseteq listed.approved \cup gone,
               listed.managed \subseteq listed'.managed \cup gone
        PROVE  HiddenInv'
    BY <1>0, <1>8, SafeWithout DEF HiddenInv
  <1>9. CASE \E r \in Handled, ok \in BOOLEAN : Approve(o, r, ok)
    <2>1. PICK r \in Handled, ok \in BOOLEAN : Approve(o, r, ok)
      BY <1>9
    <2> DEFINE gone == IF ok THEN {r} \ listed.approved ELSE {}
    <2>2. task' = [x \in Operators |-> Unsteady(task[x], gone)]
      BY <2>1 DEF Approve
    <2>3. Tables' /\ listed'.approved \subseteq listed.approved \cup gone /\ listed'.managed = listed.managed
      BY <1>0, <2>1 DEF Approve, UpsertApprovedRow, Tables, Stages
    <2> QED
      BY <1>8, <2>2, <2>3
  <1>10. CASE \E r \in Handled, ok \in BOOLEAN :
                 DeleteApproved(o, r, ok) \/ DeletePromoted(o, r, ok) \/ DeleteManaged(o, r, ok)
    <2>1. PICK r \in Handled, ok \in BOOLEAN :
              /\ listed' \in IF ok THEN {DeleteApprovedRow(r), DeletePromotedRow(r), DeleteManagedRow(r)}
                             ELSE {listed}
              /\ task' = [x \in Operators |-> Unsteady(task[x], IF ok THEN {r} ELSE {})]
      BY <1>10 DEF DeleteApproved, DeletePromoted, DeleteManaged, Delete
    <2>2. /\ Tables' /\ listed'.approved \subseteq listed.approved
          /\ listed.managed \subseteq listed'.managed \cup (IF ok THEN {r} ELSE {})
      BY <1>0, <2>1 DEF DeleteApprovedRow, DeletePromotedRow, DeleteManagedRow, Tables, Stages
    <2> QED
      BY <1>8, <2>1, <2>2
  <1>11. CASE \E ok \in BOOLEAN : RetireApproved(o, ok) \/ RetirePromoted(o, ok)
    <2>0. PICK ok \in BOOLEAN : RetireApproved(o, ok) \/ RetirePromoted(o, ok)
      BY <1>11
    <2> DEFINE r == task[o].route
    <2>1. /\ listed' \in {listed, DeleteApprovedRow(r), DeletePromotedRow(r)}
          /\ task' = [x \in Operators |->
                         IF x = o THEN Reading(listed') ELSE Unsteady(task[x], {})]
      BY <2>0 DEF RetireApproved, RetirePromoted, Retire
    <2>2. Tables' /\ listed'.approved \subseteq listed.approved /\ listed'.managed = listed.managed
      BY <1>0, <2>1 DEF DeleteApprovedRow, DeletePromotedRow, Tables, Stages
    <2>3. \A x \in Operators : Safe(Unsteady(task[x], {}), listed')
      BY <1>0, <2>2, SafeWithout
    <2>4. Safe(Reading(listed'), listed')
      BY ReadingFormed DEF Safe
    <2> QED
      BY <1>0, <2>1, <2>2, <2>3, <2>4 DEF HiddenInv
  <1> QED
    BY <1>3, <1>4, <1>5, <1>6, <1>7, <1>9, <1>10, <1>11 DEF Operate

(* A route on some table all the while a handler filtered, that nobody     *)
(* took off a table or approved anew, and that was on none of the tables   *)
(* whose query failed, is not in what it shows or saves.                   *)
THEOREM StaysHiddenHolds == Spec => []StaysHidden
<1>1. Init => HiddenInv
  <2> SUFFICES ASSUME Init PROVE HiddenInv
    OBVIOUS
  <2>1. \A o \in Operators : task[o] = Ready
    BY DEF Init
  <2>2. Formed(Ready) /\ Safe(Ready, listed)
    BY DEF Formed, Safe, Ready, Filtering, Stages
  <2> QED
    BY <2>1, <2>2 DEF Init, HiddenInv, TasksFormed, Tables
<1>2. HiddenInv /\ [Next]_vars => HiddenInv'
  <2> SUFFICES ASSUME HiddenInv, [Next]_vars PROVE HiddenInv'
    OBVIOUS
  <2>1. ASSUME UNCHANGED <<listed, task>> PROVE HiddenInv'
    BY <2>1 DEF HiddenInv, TasksFormed, Formed, Tables, Safe
  <2>2. ASSUME NEW q \in Requests, Serve(q) PROVE HiddenInv'
    BY <2>1, <2>2, ServingLeaves
  <2>3. ASSUME NEW o \in Operators, Operate(o) PROVE HiddenInv'
    BY <2>3, SafeStep
  <2>4. CASE Restart
    <3>1. task' = [o \in Operators |-> Ready] /\ UNCHANGED listed
      BY <2>4 DEF Restart
    <3>2. Formed(Ready) /\ Safe(Ready, listed')
      BY DEF Formed, Safe, Ready, Filtering, Stages
    <3> QED
      BY <3>1, <3>2 DEF HiddenInv, TasksFormed, Tables
  <2>5. CASE UNCHANGED vars
    BY <2>1, <2>5 DEF vars
  <2> QED
    BY <2>2, <2>3, <2>4, <2>5 DEF Next
<1>3. HiddenInv => StaysHidden
  BY DEF HiddenInv, Safe, StaysHidden
<1> QED
  BY <1>1, <1>2, <1>3, PTL DEF Spec
-----------------------------------------------------------------------------
(* What is saved.  As long as nothing disturbs the handlers, one is at     *)
(* work at most, and by the time it saves it has hidden whatever is        *)
(* promoted or managed.                                                    *)
Later == listed.promoted \cup listed.managed

Saves(t) ==
    /\ t.at = "clear"   => DOMAIN rows \cap Later = {}
    /\ t.at = "managed" => listed.promoted \subseteq t.hidden
    /\ t.at = "routes"  => Later \subseteq t.hidden
    /\ t.at = "replace" => DOMAIN t.items \cap Later = {}

Calm ==
    /\ \A o, x \in Operators : task[o] # Ready /\ task[x] # Ready => o = x
    /\ \A o \in Operators : Saves(task[o])
    /\ (\A o \in Operators : task[o] = Ready) => DOMAIN rows \cap Later = {}

SavedInv == TasksFormed /\ Tables /\ (undisturbed => Calm)

(* Nobody is at work, or only o is, and then is not done.                  *)
LEMMA CalmAgain ==
    ASSUME NEW o \in Operators, \A x \in Operators \ {o} : task'[x] = Ready,
           Saves(task[o])',
           task'[o] = Ready => DOMAIN rows' \cap Later' = {}
    PROVE  Calm'
  <1>1. Saves(Ready)'
    BY DEF Saves, Ready
  <1>2. \A x \in Operators : Saves(task[x])'
    BY <1>1
  <1> QED
    BY <1>2 DEF Calm

LEMMA CalmStep ==
    ASSUME SavedInv, NEW o \in Operators, Operate(o), undisturbed'
    PROVE  Calm'
  <1>0. TasksFormed /\ Tables /\ \A gone : Unsteady(Ready, gone) = Ready
    BY DEF SavedInv, Unsteady, Ready, Filtering, Stages
  <1>1. ASSUME NEW ok \in BOOLEAN, Begin(o, ok)
        PROVE  ok /\ Calm /\ (\A x \in Operators : task[x] = Ready) /\ rows' = rows
    BY <1>1 DEF Begin, SavedInv
  <1>2. ASSUME NEW step \in Filtering \cup {"clear", "retire approved", "retire promoted"},
               NEW ok \in BOOLEAN, Goes(o, step, ok)
        PROVE  /\ ok /\ Calm /\ task[o].at = step
               /\ \A x \in Operators \ {o} : task[x] = Ready
    <2>1. ok /\ Calm /\ task[o].at = step
      BY <1>2 DEF Goes, SavedInv
    <2>2. task[o].at # "idle"
      BY <2>1 DEF Filtering, Stages
    <2>3. Ready.at = "idle"
      BY DEF Ready
    <2>4. task[o] # Ready
      BY <2>2, <2>3
    <2> QED
      BY <2>1, <2>4 DEF Calm
  <1>3. CASE Sync(o)
    <2>1. \A x \in Operators : task'[x] = IF x = o THEN Reading(listed) ELSE Ready
      BY <1>0, <1>1, <1>3 DEF Sync, Goto, TasksFormed
    <2>2. task'[o].at = "approved" /\ task'[o] # Ready
      BY <2>1, ReadingFormed DEF Ready
    <2> QED
      BY <2>1, <2>2, CalmAgain DEF Saves
  <1>4. CASE \E r \in Handled, ok \in BOOLEAN :
                 PromoteShadowRoute(o, r, ok) \/ PromoteToManagedSpec(o, r, ok)
    <2>1. PICK r \in Handled, ok \in BOOLEAN : PromoteShadowRoute(o, r, ok) \/ PromoteToManagedSpec(o, r, ok)
      BY <1>4
    <2>2. ok /\ \A x \in Operators : task[x] = Ready
      BY <1>1, <2>1 DEF PromoteShadowRoute, PromoteToManagedSpec
    <2>3. \/ task' = [task EXCEPT ![o] = [at |-> "retire approved", route |-> r]]
          \/ task' = [task EXCEPT ![o] = [at |-> "retire promoted", route |-> r]]
      BY <2>1, <2>2 DEF PromoteShadowRoute, PromoteToManagedSpec, Goto
    <2>4. /\ task'[o] \in {[at |-> "retire approved", route |-> r], [at |-> "retire promoted", route |-> r]}
          /\ \A x \in Operators \ {o} : task'[x] = Ready
      BY <1>0, <2>2, <2>3 DEF TasksFormed
    <2>5. /\ [at |-> "retire approved", route |-> r].at = "retire approved"
          /\ [at |-> "retire promoted", route |-> r].at = "retire promoted"
      OBVIOUS
    <2>6. task'[o].at \in {"retire approved", "retire promoted"}
      BY <2>4, <2>5
    <2>7. task'[o].at # "idle"
      BY <2>6
    <2>8. task'[o] # Ready
      BY <2>7 DEF Ready
    <2> QED
      BY <2>4, <2>6, <2>8, CalmAgain DEF Saves
  <1>5. CASE \E r \in Handled, ok \in BOOLEAN :
                 \/ Approve(o, r, ok) \/ DeleteApproved(o, r, ok)
                 \/ DeletePromoted(o, r, ok) \/ DeleteManaged(o, r, ok)
    <2>1. PICK r \in Handled, ok \in BOOLEAN :
                 \/ Approve(o, r, ok) \/ DeleteApproved(o, r, ok)
                 \/ DeletePromoted(o, r, ok) \/ DeleteManaged(o, r, ok)
      BY <1>5
    <2>2. ok /\ Calm /\ (\A x \in Operators : task[x] = Ready) /\ rows' = rows
      BY <1>1, <2>1 DEF Approve, DeleteApproved, DeletePromoted, DeleteManaged, Delete
    <2>3. \A x \in Operators : task'[x] = Ready
      BY <1>0, <2>1, <2>2 DEF Approve, DeleteApproved, DeletePromoted, DeleteManaged, Delete
    <2>4. listed' \in {UpsertApprovedRow(r), DeleteApprovedRow(r), DeletePromotedRow(r), DeleteManagedRow(r)}
      BY <2>1, <2>2 DEF Approve, DeleteApproved, DeletePromoted, DeleteManaged, Delete
    <2>5. Later' \subseteq Later
      BY <1>0, <2>4 DEF Later, UpsertApprovedRow, DeleteApprovedRow, DeletePromotedRow, DeleteManagedRow,
                        Tables, Stages
    <2>6. DOMAIN rows' \cap Later' = {}
      BY <2>2, <2>5 DEF Calm
    <2>7. Saves(task[o])'
      BY <2>3 DEF Saves, Ready
    <2> QED
      BY <2>3, <2>6, <2>7, CalmAgain
  <1>6. CASE ClearMemory(o)
    <2>1. Calm /\ \A x \in Operators : task[x] = Ready
      BY <1>6 DEF ClearMemory, SavedInv
    <2>2. UNCHANGED <<rows, listed>> /\ task'[o] = [at |-> "clear"]
          /\ \A x \in Operators \ {o} : task'[x] = Ready
      BY <1>0, <1>6, <2>1 DEF ClearMemory, Goto, TasksFormed
    <2>3. Saves(task[o])'
      BY <2>1, <2>2 DEF Saves, Calm, Later
    <2>4. task'[o] # Ready
      BY <2>2 DEF Ready
    <2> QED
      BY <2>2, <2>3, <2>4, CalmAgain
  <1>7. CASE \E ok \in BOOLEAN : ClearRows(o, ok)
    <2>1. PICK ok \in BOOLEAN : ClearRows(o, ok)
      BY <1>7
    <2>2. ok /\ \A x \in Operators \ {o} : task[x] = Ready
      BY <1>2, <2>1 DEF ClearRows
    <2>3. DOMAIN rows' = {} /\ \A x \in Operators : task'[x] = Ready
      BY <1>0, <2>1, <2>2 DEF ClearRows, Goto, TasksFormed, Nowhere
    <2>4. Saves(task[o])'
      BY <2>3 DEF Saves, Ready
    <2> QED
      BY <2>3, <2>4, CalmAgain
  <1>8. CASE \E ok \in BOOLEAN : RetireApproved(o, ok) \/ RetirePromoted(o, ok)
    <2>1. PICK ok \in BOOLEAN : RetireApproved(o, ok) \/ RetirePromoted(o, ok)
      BY <1>8
    <2>2. \A x \in Operators \ {o} : task[x] = Ready
      BY <1>2, <2>1 DEF RetireApproved, RetirePromoted, Retire
    <2>3. task'[o] = Reading(listed') /\ \A x \in Operators \ {o} : task'[x] = Ready
      BY <1>0, <2>1, <2>2 DEF RetireApproved, RetirePromoted, Retire
    <2>4. task'[o].at = "approved" /\ task'[o] # Ready
      BY <2>3, ReadingFormed DEF Ready
    <2> QED
      BY <2>3, <2>4, CalmAgain DEF Saves
  <1>9. CASE ReadRoutes(o)
    <2>1. Calm /\ task[o].at = "routes" /\ \A x \in Operators \ {o} : task[x] = Ready
      BY <1>2, <1>9 DEF ReadRoutes, Filtering
    <2>2. Later \subseteq task[o].hidden /\ UNCHANGED listed
      BY <1>9, <2>1 DEF Calm, Saves, ReadRoutes
    <2>3. task'[o].at = "replace" /\ DOMAIN task'[o].items \cap Later' = {}
          /\ \A x \in Operators \ {o} : task'[x] = Ready
      BY <1>0, <1>9, <2>1, <2>2, Selecting DEF Later
    <2>4. task'[o] # Ready
      BY <2>3 DEF Ready
    <2> QED
      BY <2>3, <2>4, CalmAgain DEF Saves
  <1>10. CASE \E ok \in BOOLEAN : ReplaceRows(o, ok)
    <2>1. PICK ok \in BOOLEAN : ReplaceRows(o, ok)
      BY <1>10
    <2>2. ok /\ Calm /\ task[o].at = "replace" /\ \A x \in Operators \ {o} : task[x] = Ready
      BY <1>2, <2>1 DEF ReplaceRows, Filtering
    <2>3. rows' = task[o].items /\ UNCHANGED listed /\ \A x \in Operators : task'[x] = Ready
      BY <1>0, <2>1, <2>2 DEF ReplaceRows, Goto, TasksFormed
    <2>4. DOMAIN rows' \cap Later' = {}
      BY <2>2, <2>3 DEF Calm, Saves, Later
    <2>5. Saves(task[o])'
      BY <2>3 DEF Saves, Ready
    <2> QED
      BY <2>3, <2>4, <2>5, CalmAgain
  <1>11. CASE \E ok \in BOOLEAN : ReadListed(o, ok)
    <2>1. PICK ok \in BOOLEAN :
            \/ Read(o, "approved", listed.approved, "promoted", ok)
            \/ Read(o, "promoted", listed.promoted, "managed", ok)
            \/ Read(o, "managed", listed.managed, "routes", ok)
      BY <1>11 DEF ReadListed, ApprovedShadowRouteKeys, PromotedSpecRouteKeys, ManagedSpecRouteKeys
    <2>2. /\ ok /\ Calm /\ task[o].at \in Filtering /\ UNCHANGED listed
          /\ \A x \in Operators \ {o} : task[x] = Ready
      BY <1>2, <2>1 DEF Read, Filtering, Stages
    <2>3. Formed(task[o])
      BY <1>0 DEF TasksFormed
    <2>4. ASSUME NEW next, NEW hidden,
                 task' = [task EXCEPT ![o] = [task[o] EXCEPT !.at = next, !.hidden = hidden, !.steady = @]]
          PROVE  /\ task'[o].at = next /\ task'[o].hidden = hidden
                 /\ \A x \in Operators \ {o} : task'[x] = Ready
      BY <1>0, <2>2, <2>3, <2>4 DEF Formed, Fields, TasksFormed
    <2>5. CASE Read(o, "approved", listed.approved, "promoted", ok)
      <3>1. task'[o].at = "promoted" /\ \A x \in Operators \ {o} : task'[x] = Ready
        BY <2>2, <2>4, <2>5 DEF Read, Goto
      <3>2. task'[o] # Ready
        BY <3>1 DEF Ready
      <3> QED
        BY <3>1, <3>2, CalmAgain DEF Saves
    <2>6. CASE Read(o, "promoted", listed.promoted, "managed", ok)
      <3>1. /\ task'[o].at = "managed" /\ task'[o].hidden = task[o].hidden \cup listed.promoted
            /\ \A x \in Operators \ {o} : task'[x] = Ready
        BY <2>2, <2>4, <2>6 DEF Read, Goto
      <3>2. task'[o] # Ready
        BY <3>1 DEF Ready
      <3> QED
        BY <2>2, <3>1, <3>2, CalmAgain DEF Saves
    <2>7. CASE Read(o, "managed", listed.managed, "routes", ok)
      <3>1. /\ task'[o].at = "routes" /\ task'[o].hidden = task[o].hidden \cup listed.managed
            /\ \A x \in Operators \ {o} : task'[x] = Ready
        BY <2>2, <2>4, <2>7 DEF Read, Goto
      <3>2. listed.promoted \subseteq task[o].hidden
        BY <2>2, <2>7 DEF Read, Goes, Calm, Saves
      <3>3. task'[o] # Ready
        BY <3>1 DEF Ready
      <3> QED
        BY <2>2, <3>1, <3>2, <3>3, CalmAgain DEF Saves, Later
    <2> QED
      BY <2>1, <2>5, <2>6, <2>7
  <1> QED
    BY <1>3, <1>4, <1>5, <1>6, <1>7, <1>8, <1>9, <1>10, <1>11 DEF Operate

LEMMA TablesStep ==
    ASSUME Tables, NEW o \in Operators, Operate(o)
    PROVE  Tables'
  <1>1. CASE UNCHANGED listed
    BY <1>1 DEF Tables
  <1>2. ASSUME NEW r, listed' \in {UpsertApprovedRow(r), DeleteApprovedRow(r), UpsertPromotedRow(r),
                                 DeletePromotedRow(r), UpsertManagedRow(r), DeleteManagedRow(r)}
        PROVE  Tables'
    BY <1>2 DEF Tables, Stages, UpsertApprovedRow, DeleteApprovedRow, UpsertPromotedRow,
                DeletePromotedRow, UpsertManagedRow, DeleteManagedRow
  <1>3. CASE \/ Sync(o) \/ ClearMemory(o) \/ ReadRoutes(o)
             \/ \E ok \in BOOLEAN : ClearRows(o, ok) \/ ReadListed(o, ok) \/ ReplaceRows(o, ok)
    BY <1>1, <1>3 DEF Sync, ClearMemory, ReadRoutes, ClearRows, ReadListed, Read, ReplaceRows
  <1>4. CASE \E ok \in BOOLEAN : RetireApproved(o, ok) \/ RetirePromoted(o, ok)
    BY <1>4 DEF RetireApproved, RetirePromoted, Retire, DeleteApprovedRow, DeletePromotedRow, Tables, Stages
  <1>5. CASE \E r \in Handled, ok \in BOOLEAN :
                 \/ Approve(o, r, ok) \/ PromoteShadowRoute(o, r, ok) \/ PromoteToManagedSpec(o, r, ok)
                 \/ DeleteApproved(o, r, ok) \/ DeletePromoted(o, r, ok) \/ DeleteManaged(o, r, ok)
    <2>1. PICK r \in Handled, ok \in BOOLEAN :
                 \/ Approve(o, r, ok) \/ PromoteShadowRoute(o, r, ok) \/ PromoteToManagedSpec(o, r, ok)
                 \/ DeleteApproved(o, r, ok) \/ DeletePromoted(o, r, ok) \/ DeleteManaged(o, r, ok)
      BY <1>5
    <2>2. UNCHANGED listed \/ listed' \in {UpsertApprovedRow(r), DeleteApprovedRow(r), UpsertPromotedRow(r),
                                 DeletePromotedRow(r), UpsertManagedRow(r), DeleteManagedRow(r)}
      BY <2>1 DEF Approve, PromoteShadowRoute, PromoteToManagedSpec, DeleteApproved, DeletePromoted,
                  DeleteManaged, Delete
    <2> QED
      BY <1>1, <1>2, <2>2
  <1> QED
    BY <1>3, <1>4, <1>5 DEF Operate

(* As long as handlers come one at a time and none fails or is cut off,    *)
(* the saved list holds no route that is promoted or managed.              *)
THEOREM PromotedNotListedHolds == Spec => []PromotedNotListed
<1>1. Init => SavedInv
  <2> SUFFICES ASSUME Init PROVE SavedInv
    OBVIOUS
  <2>1. \A o \in Operators : task[o] = Ready
    BY DEF Init
  <2>2. Formed(Ready) /\ Saves(Ready)
    BY DEF Formed, Saves, Ready, Filtering, Stages
  <2>3. Tables /\ Later = {}
    BY DEF Init, Tables, Later, Stages
  <2> QED
    BY <2>1, <2>2, <2>3 DEF Init, SavedInv, TasksFormed, Calm
<1>2. SavedInv /\ [Next]_vars => SavedInv'
  <2> SUFFICES ASSUME SavedInv, [Next]_vars PROVE SavedInv'
    OBVIOUS
  <2>1. ASSUME UNCHANGED <<listed, task, rows, undisturbed>> PROVE SavedInv'
    BY <2>1 DEF SavedInv, TasksFormed, Formed, Tables, Calm, Saves, Later
  <2>2. ASSUME NEW q \in Requests, Serve(q) PROVE SavedInv'
    BY <2>1, <2>2, ServingLeaves
  <2>3. ASSUME NEW o \in Operators, Operate(o) PROVE SavedInv'
    BY <2>3, CalmStep, OthersTasks, TablesStep DEF SavedInv
  <2>4. CASE Restart
    <3>1. task' = [o \in Operators |-> Ready] /\ UNCHANGED <<listed, rows>>
      BY <2>4 DEF Restart
    <3>2. undisturbed' => undisturbed /\ \A o \in Operators : task[o] = Ready
      BY <2>4 DEF Restart
    <3>3. Formed(Ready) /\ Saves(Ready)'
      BY DEF Formed, Saves, Ready, Filtering, Stages
    <3>4. undisturbed' => DOMAIN rows' \cap Later' = {}
      BY <3>1, <3>2 DEF SavedInv, Calm, Later
    <3>5. undisturbed' => Calm'
      BY <3>1, <3>3, <3>4 DEF Calm
    <3> QED
      BY <3>1, <3>3, <3>5 DEF SavedInv, TasksFormed, Tables
  <2>5. CASE UNCHANGED vars
    BY <2>1, <2>5 DEF vars
  <2> QED
    BY <2>2, <2>3, <2>4, <2>5 DEF Next
<1>3. SavedInv => PromotedNotListed
  BY DEF SavedInv, Calm, Later, PromotedNotListed
<1> QED
  BY <1>1, <1>2, <1>3, PTL DEF Spec
-----------------------------------------------------------------------------
(* The memory of schemas.                                                  *)
Sampled ==
    /\ IsFiniteSet(DOMAIN schemas) /\ restarts \in Nat
    /\ \A k \in DOMAIN schemas : schemas[k].samples \in Nat

LEMMA MergedSamples ==
    ASSUME NEW p, NEW b
    PROVE  Merge(p, b).samples = p.samples + 1
  BY DEF Merge

(* Learning one body costs no established schema, or all were established. *)
LEMMA LearningKeeps ==
    ASSUME Sampled, NEW q \in Requests, NEW v, Learn(q, v)
    PROVE  /\ Sampled'
           /\ Cardinality(Established) >= MaxSchemas - 1 => Cardinality(Established') >= MaxSchemas - 1
  <1> DEFINE r == request[q].call.route
             b == request[q].call.body
  <1>0. MaxSchemas \in Nat /\ restarts' = restarts
    BY SchemaAssumption DEF Learn
  <1>1. CASE UNCHANGED schemas
    BY <1>0, <1>1 DEF Sampled, Established
  <1>2. CASE schemas' = AfterBody(schemas, r, b, v)
    <2>1. /\ DOMAIN schemas' = Kept(schemas, r, v) \cup {r}
          /\ \A k \in Kept(schemas, r, v) \ {r} : schemas'[k] = schemas[k]
          /\ schemas'[r].samples = IF r \in DOMAIN schemas THEN schemas[r].samples + 1 ELSE 1
      <3>1. schemas' = [k \in Kept(schemas, r, v) \cup {r} |->
                           IF k = r THEN Merge(ProfileOf(schemas, r), b) ELSE schemas[k]]
        BY <1>2 DEF AfterBody
      <3>2. ProfileOf(schemas, r).samples = IF r \in DOMAIN schemas THEN schemas[r].samples ELSE 0
        BY DEF ProfileOf, Blank
      <3>3. schemas'[r] = Merge(ProfileOf(schemas, r), b)
        BY <3>1
      <3>4. schemas'[r].samples = IF r \in DOMAIN schemas THEN schemas[r].samples + 1 ELSE 1
        BY <3>2, <3>3, MergedSamples
      <3> HIDE DEF r, b
      <3> QED
        BY <3>1, <3>4
    <2>2. Kept(schemas, r, v) \in {DOMAIN schemas, DOMAIN schemas \ {v}}
      BY DEF Kept
    <2>3. IsFiniteSet(DOMAIN schemas')
      <3>1. IsFiniteSet(Kept(schemas, r, v))
        BY <2>2, FS_Subset DEF Sampled
      <3> QED
        BY <2>1, <3>1, FS_AddElement
    <2>4. \A k \in DOMAIN schemas' : schemas'[k].samples \in Nat
      BY <2>1, <2>2 DEF Sampled
    <2>5. IsFiniteSet(Established) /\ IsFiniteSet(Established')
      BY <2>3, FS_Subset DEF Established, Sampled
    <2>6. Cardinality(Established) \in Nat /\ Cardinality(Established') \in Nat
      BY <2>5, FS_CardinalityType
    <2>7. CASE Kept(schemas, r, v) = DOMAIN schemas \/ v \notin Established
      <3>1. Established \subseteq Established'
        BY <2>1, <2>2, <2>7 DEF Established, Sampled
      <3>2. Cardinality(Established) <= Cardinality(Established')
        BY <2>5, <3>1, FS_Subset
      <3> QED
        BY <1>0, <2>3, <2>4, <2>6, <3>2 DEF Sampled
    <2>8. CASE Kept(schemas, r, v) # DOMAIN schemas /\ v \in Established
      <3>1. /\ r \notin DOMAIN schemas /\ Cardinality(DOMAIN schemas) >= MaxSchemas
            /\ Kept(schemas, r, v) = DOMAIN schemas \ {v}
        BY <2>8 DEF Kept
      <3>2. v \in Victims(schemas)
        BY <2>8 DEF Learn, Established, Nowhere
      <3>3. Established = DOMAIN schemas
        <4>1. v \in DOMAIN schemas /\ schemas[v].samples >= 2
          BY <2>8 DEF Established
        <4>2. \A o \in DOMAIN schemas : schemas[v].samples <= schemas[o].samples
          BY <3>2 DEF Victims
        <4>3. \A o \in DOMAIN schemas : schemas[o].samples >= 2
          BY <4>1, <4>2 DEF Sampled
        <4> QED
          BY <4>3 DEF Established
      <3>4. Established \ {v} \subseteq Established'
        BY <2>1, <3>1 DEF Established
      <3>5. IsFiniteSet(Established \ {v}) /\ Cardinality(Established \ {v}) = Cardinality(Established) - 1
        BY <2>5, <2>8, FS_RemoveElement
      <3>6. Cardinality(Established \ {v}) <= Cardinality(Established')
        BY <2>5, <3>4, FS_Subset
      <3> QED
        BY <1>0, <2>3, <2>4, <2>6, <3>1, <3>3, <3>5, <3>6 DEF Sampled
    <2> QED
      BY <2>7, <2>8
  <1> QED
    BY <1>1, <1>2 DEF Learn

(* What else leaves the memory of schemas alone.                           *)
LEMMA SchemasLeft ==
    ASSUME [Next]_vars, ~Restart, \A q \in Requests, v \in Routes : ~Learn(q, v)
    PROVE  UNCHANGED <<schemas, restarts>>
  <1>1. ASSUME NEW q \in Requests, Serve(q) PROVE UNCHANGED <<schemas, restarts>>
    BY <1>1 DEF Serve, Arrive, Remember, Observe, Unanswered
  <1>2. ASSUME NEW o \in Operators, Operate(o) PROVE UNCHANGED <<schemas, restarts>>
    <2>1. CASE ClearMemory(o)
      BY <2>1 DEF ClearMemory
    <2>2. CASE UNCHANGED memory
      BY <2>2 DEF memory
    <2> QED
      BY <1>2, <2>1, <2>2, OperatingLeaves
  <1>3. CASE UNCHANGED vars
    BY <1>3 DEF vars
  <1> QED
    BY <1>1, <1>2, <1>3 DEF Next

(* Without a restart, once all places of the memory but one hold schemas   *)
(* that more than one body made, at least so many always do.               *)
THEOREM EstablishedKeptHolds == Spec => EstablishedKept
<1>1. Init => Sampled
  BY FS_EmptySet DEF Init, Sampled, Nowhere
<1>2. Sampled /\ [Next]_vars =>
        /\ Sampled'
        /\ [(restarts' = restarts /\ Cardinality(Established) >= MaxSchemas - 1) =>
                 Cardinality(Established') >= MaxSchemas - 1]_vars
  <2> SUFFICES ASSUME Sampled, [Next]_vars
               PROVE  /\ Sampled'
                      /\ (restarts' = restarts /\ Cardinality(Established) >= MaxSchemas - 1) =>
                            Cardinality(Established') >= MaxSchemas - 1
    OBVIOUS
  <2>1. CASE Restart
    <3>1. restarts' = restarts + 1 /\ restarts' # restarts
      BY <2>1 DEF Restart, Sampled
    <3>2. Sampled'
      BY <2>1, <3>1, FS_EmptySet DEF Restart, Sampled, Nowhere
    <3> QED
      BY <3>1, <3>2
  <2>2. CASE \E q \in Requests, v \in Routes : Learn(q, v)
    BY <2>2, LearningKeeps
  <2>3. CASE ~Restart /\ \A q \in Requests, v \in Routes : ~Learn(q, v)
    <3>1. UNCHANGED <<schemas, restarts>>
      BY <2>3, SchemasLeft
    <3> QED
      BY <3>1 DEF Sampled, Established
  <2> QED
    BY <2>1, <2>2, <2>3
<1> QED
  BY <1>1, <1>2, PTL DEF Spec, EstablishedKept
-----------------------------------------------------------------------------
(* Sums over finite sets.                                                  *)
LEMMA Induct ==
    ASSUME NEW T \in SUBSET Nat, 0 \in T, \A n \in T : n + 1 \in T
    PROVE  T = Nat
  <1> SUFFICES ASSUME Nat \ T # {} PROVE FALSE
    OBVIOUS
  <1>1. PICK m \in Nat \ T : \A k \in Nat \ T : <<k, m>> \notin OpToRel(<, Nat)
    BY NatLessThanWellFounded, WFMin
  <1>2. m # 0 /\ m - 1 \in Nat /\ m - 1 < m
    OBVIOUS
  <1>3. m - 1 \notin T
    BY <1>2
  <1>4. <<m - 1, m>> \in OpToRel(<, Nat)
    BY <1>2 DEF OpToRel
  <1> QED
    BY <1>1, <1>2, <1>3, <1>4

Total(f) == MapThenSumSet(LAMBDA x : f[x], DOMAIN f)

Any(s) == CHOOSE x \in s : TRUE

(* What the sum over s is, if g says what it is over less.                 *)
Adding(f, g, s) == IF s = {} THEN 0 ELSE f[Any(s)] + g[s \ {Any(s)}]

Sums(f, g, S) == \A s \in SUBSET S : g[s] = Adding(f, g, s)

LEMMA Less ==
    ASSUME NEW s, IsFiniteSet(s), NEW n \in Nat, Cardinality(s) <= n + 1, NEW x \in s
    PROVE  Cardinality(s \ {x}) <= n /\ IsFiniteSet(s \ {x})
  <1>1. IsFiniteSet(s \ {x}) /\ Cardinality(s \ {x}) = Cardinality(s) - 1 /\ Cardinality(s) \in Nat
    BY FS_RemoveElement, FS_CardinalityType
  <1> QED
    BY <1>1

LEMMA AnyIn ==
    ASSUME NEW s, s # {} PROVE Any(s) \in s
  BY DEF Any

(* One more size of set at a time.                                         *)
LEMMA SumsExist ==
    ASSUME NEW f, NEW S, IsFiniteSet(S)
    PROVE  \E g : g = [s \in SUBSET S |-> Adding(f, g, s)]
  <1> DEFINE Good(g, n) == \A s \in SUBSET S : Cardinality(s) <= n => g[s] = Adding(f, g, s)
             T == {n \in Nat : \E g : Good(g, n)}
  <1>0. \A s \in SUBSET S : IsFiniteSet(s) /\ Cardinality(s) \in Nat /\ (Cardinality(s) = 0 => s = {})
    BY FS_Subset, FS_CardinalityType, FS_EmptySet
  <1>1. 0 \in T
    <2> DEFINE g == [s \in SUBSET S |-> 0]
    <2>1. Good(g, 0)
      BY <1>0 DEF Adding
    <2> QED
      BY <2>1
  <1>2. ASSUME NEW n \in T PROVE n + 1 \in T
    <2>1. PICK g : Good(g, n)
      BY <1>2
    <2> DEFINE h == [s \in SUBSET S |-> IF Cardinality(s) <= n THEN g[s] ELSE Adding(f, g, s)]
    <2>2. ASSUME NEW s \in SUBSET S, Cardinality(s) <= n + 1 PROVE h[s] = Adding(f, h, s)
      <3>1. h[s] = Adding(f, g, s)
        BY <2>1
      <3>2. CASE s = {}
        BY <3>1, <3>2 DEF Adding
      <3>3. CASE s # {}
        <4>1. Cardinality(s \ {Any(s)}) <= n
          BY <1>0, <2>2, <3>3, AnyIn, Less
        <4>2. h[s \ {Any(s)}] = g[s \ {Any(s)}]
          BY <4>1
        <4> HIDE DEF h
        <4> QED
          BY <3>1, <3>3, <4>2 DEF Adding
      <3> QED
        BY <3>2, <3>3
    <2> HIDE DEF h
    <2>3. Good(h, n + 1)
      BY <2>2
    <2> QED
      BY <2>3
  <1>3. T = Nat
    <2> HIDE DEF T
    <2>1. T \in SUBSET Nat
      BY DEF T
    <2> QED
      BY <1>1, <1>2, <2>1, Induct
  <1>4. PICK g : Good(g, Cardinality(S))
    <2>1. Cardinality(S) \in T
      BY <1>0, <1>3
    <2> QED
      BY <2>1
  <1>5. \A s \in SUBSET S : g[s] = Adding(f, g, s)
    BY <1>0, <1>4, FS_Subset
  <1> DEFINE h == [s \in SUBSET S |-> g[s]]
  <1>6. ASSUME NEW s \in SUBSET S PROVE g[s] = Adding(f, h, s)
    <2>1. s \ {Any(s)} \in SUBSET S
      OBVIOUS
    <2>2. h[s \ {Any(s)}] = g[s \ {Any(s)}]
      BY <2>1
    <2> HIDE DEF h
    <2> QED
      BY <1>5, <2>2 DEF Adding
  <1>7. h = [s \in SUBSET S |-> Adding(f, h, s)]
    BY <1>6
  <1> QED
    BY <1>7

LEMMA TotalIs ==
    ASSUME NEW f, IsFiniteSet(DOMAIN f)
    PROVE  \E g : Total(f) = g[DOMAIN f] /\ Sums(f, g, DOMAIN f)
  <1> DEFINE g == CHOOSE g : g = [s \in SUBSET DOMAIN f |-> Adding(f, g, s)]
  <1>1. Total(f) = g[DOMAIN f]
    BY DEF Total, MapThenSumSet, MapThenFoldSet, Adding, Any
  <1>2. g = [s \in SUBSET DOMAIN f |-> Adding(f, g, s)]
    BY SumsExist
  <1> HIDE DEF g
  <1>3. Sums(f, g, DOMAIN f)
    BY <1>2 DEF Sums
  <1> QED
    BY <1>1, <1>3

LEMMA SumOfNone ==
    ASSUME NEW S, NEW f, NEW g, Sums(f, g, S)
    PROVE  g[{}] = 0
  <1>1. {} \in SUBSET S
    OBVIOUS
  <1>2. g[{}] = Adding(f, g, {})
    BY <1>1 DEF Sums
  <1> QED
    BY <1>2 DEF Adding

(* Any element may be the last to be added.                                *)
LEMMA AnyLast ==
    ASSUME NEW S, IsFiniteSet(S), NEW f, \A x \in S : f[x] \in Nat, NEW g, Sums(f, g, S)
    PROVE  \A s \in SUBSET S : g[s] \in Nat /\ \A x \in s : g[s] = f[x] + g[s \ {x}]
  <1> DEFINE Good(s) == g[s] \in Nat /\ \A x \in s : g[s] = f[x] + g[s \ {x}]
             T == {n \in Nat : \A s \in SUBSET S : Cardinality(s) <= n => Good(s)}
  <1>0. \A s \in SUBSET S : IsFiniteSet(s) /\ Cardinality(s) \in Nat /\ (Cardinality(s) = 0 => s = {})
    BY FS_Subset, FS_CardinalityType, FS_EmptySet
  <1>1. 0 \in T
    BY <1>0 DEF Sums, Adding
  <1>2. ASSUME NEW n \in T PROVE n + 1 \in T
    <2>1. ASSUME NEW s \in SUBSET S, Cardinality(s) <= n + 1 PROVE Good(s)
      <3>1. CASE s = {}
        BY <3>1, SumOfNone
      <3>2. CASE s # {}
        <4>1. PICK y \in s : g[s] = f[y] + g[s \ {y}]
          BY <3>2, AnyIn DEF Sums, Adding
        <4>2. \A x \in s : Good(s \ {x})
          BY <1>0, <1>2, <2>1, Less
        <4>3. g[s] \in Nat
          BY <4>1, <4>2
        <4>4. ASSUME NEW x \in s, x # y PROVE g[s] = f[x] + g[s \ {x}]
          <5>1. g[s \ {y}] = f[x] + g[(s \ {y}) \ {x}]
            BY <4>2, <4>4
          <5>2. g[s \ {x}] = f[y] + g[(s \ {x}) \ {y}]
            BY <4>2, <4>4
          <5>3. (s \ {y}) \ {x} = (s \ {x}) \ {y}
            OBVIOUS
          <5>4. g[(s \ {x}) \ {y}] \in Nat
            <6>1. Cardinality(s \ {x}) <= n /\ IsFiniteSet(s \ {x})
              BY <1>0, <2>1, <4>4, Less
            <6>2. Cardinality((s \ {x}) \ {y}) <= Cardinality(s \ {x}) /\ (s \ {x}) \ {y} \in SUBSET S
              BY <6>1, FS_Subset
            <6>3. Cardinality((s \ {x}) \ {y}) <= n
              BY <1>0, <6>1, <6>2
            <6> QED
              BY <1>2, <6>2, <6>3
          <5>5. f[x] \in Nat /\ f[y] \in Nat
            OBVIOUS
          <5>6. g[(s \ {y}) \ {x}] = g[(s \ {x}) \ {y}]
            BY <5>3
          <5> QED
            BY <4>1, <5>1, <5>2, <5>4, <5>5, <5>6
        <4> QED
          BY <4>1, <4>3, <4>4
      <3> QED
        BY <3>1, <3>2
    <2> HIDE DEF Good
    <2> QED
      BY <2>1
  <1>3. T = Nat
    <2> HIDE DEF T
    <2>1. T \in SUBSET Nat
      BY DEF T
    <2> QED
      BY <1>1, <1>2, <2>1, Induct
  <1> HIDE DEF Good
  <1>4. \A s \in SUBSET S : Good(s)
    BY <1>0, <1>3
  <1> QED
    BY <1>4 DEF Good

(* The same numbers add up to the same.                                    *)
LEMMA SameSum ==
    ASSUME NEW S, IsFiniteSet(S), NEW e, NEW f, NEW g, NEW h, \A x \in S : e[x] = f[x],
           Sums(e, g, S), Sums(f, h, S)
    PROVE  \A s \in SUBSET S : g[s] = h[s]
  <1> DEFINE T == {n \in Nat : \A s \in SUBSET S : Cardinality(s) <= n => g[s] = h[s]}
  <1>0. \A s \in SUBSET S : IsFiniteSet(s) /\ Cardinality(s) \in Nat /\ (Cardinality(s) = 0 => s = {})
    BY FS_Subset, FS_CardinalityType, FS_EmptySet
  <1>1. 0 \in T
    BY <1>0, SumOfNone
  <1>2. ASSUME NEW n \in T PROVE n + 1 \in T
    <2>1. ASSUME NEW s \in SUBSET S, Cardinality(s) <= n + 1 PROVE g[s] = h[s]
      <3>1. CASE s = {}
        BY <3>1, SumOfNone
      <3>2. CASE s # {}
        <4>1. g[s \ {Any(s)}] = h[s \ {Any(s)}] /\ e[Any(s)] = f[Any(s)]
          BY <1>0, <1>2, <2>1, <3>2, AnyIn, Less
        <4> QED
          BY <3>2, <4>1 DEF Sums, Adding
      <3> QED
        BY <3>1, <3>2
    <2> QED
      BY <2>1
  <1>3. T = Nat
    <2> HIDE DEF T
    <2>1. T \in SUBSET Nat
      BY DEF T
    <2> QED
      BY <1>1, <1>2, <2>1, Induct
  <1> QED
    BY <1>0, <1>3

(* One more of a kind is one more in all.                                  *)
LEMMA CountedTotal ==
    ASSUME NEW types, IsFiniteSet(DOMAIN types), \A j \in DOMAIN types : types[j] \in Nat, NEW k
    PROVE  Total(Counted(types, k)) = Total(types) + 1
  <1> DEFINE more == Counted(types, k)
  <1>1. /\ DOMAIN more = DOMAIN types \cup {k}
        /\ \A j \in DOMAIN types \ {k} : more[j] = types[j]
        /\ more[k] = (IF k \in DOMAIN types THEN types[k] ELSE 0) + 1
        /\ \A j \in DOMAIN more : more[j] \in Nat
    BY DEF Counted
  <1> HIDE DEF more
  <1>2. IsFiniteSet(DOMAIN more) /\ IsFiniteSet(DOMAIN types \ {k})
    BY <1>1, FS_AddElement, FS_Subset
  <1>3. PICK g : Total(types) = g[DOMAIN types] /\ Sums(types, g, DOMAIN types)
    BY TotalIs
  <1>4. PICK h : Total(more) = h[DOMAIN more] /\ Sums(more, h, DOMAIN more)
    BY <1>2, TotalIs
  <1>5. h[DOMAIN types \ {k}] = g[DOMAIN types \ {k}]
    <2> DEFINE S == DOMAIN types \ {k}
    <2>1. S \subseteq DOMAIN more /\ S \subseteq DOMAIN types
      BY <1>1
    <2> HIDE DEF S
    <2>2. Sums(types, g, S) /\ Sums(more, h, S)
      BY <1>3, <1>4, <2>1 DEF Sums
    <2>3. \A x \in S : types[x] = more[x]
      BY <1>1 DEF S
    <2>4. IsFiniteSet(S)
      BY <1>2 DEF S
    <2>5. \A s \in SUBSET S : g[s] = h[s]
      BY <2>2, <2>3, <2>4, SameSum
    <2> QED
      BY <2>5 DEF S
  <1>6. h[DOMAIN more] = more[k] + h[DOMAIN types \ {k}]
    <2>0. \A s \in SUBSET DOMAIN more : h[s] \in Nat /\ \A x \in s : h[s] = more[x] + h[s \ {x}]
      BY <1>1, <1>2, <1>4, AnyLast
    <2>1. h[DOMAIN more] = more[k] + h[DOMAIN more \ {k}]
      BY <1>1, <2>0
    <2>2. DOMAIN more \ {k} = DOMAIN types \ {k}
      BY <1>1
    <2> QED
      BY <2>1, <2>2
  <1>7. \A s \in SUBSET DOMAIN types : g[s] \in Nat /\ \A x \in s : g[s] = types[x] + g[s \ {x}]
    <2>1. Sums(types, g, DOMAIN types)
      BY <1>3
    <2> QED
      BY <2>1, AnyLast
  <1>8. CASE k \in DOMAIN types
    <2>1. g[DOMAIN types] = types[k] + g[DOMAIN types \ {k}]
      BY <1>7, <1>8
    <2> QED
      BY <1>1, <1>3, <1>4, <1>5, <1>6, <1>7, <1>8, <2>1 DEF more
  <1>9. CASE k \notin DOMAIN types
    <2>1. DOMAIN types \ {k} = DOMAIN types
      BY <1>9
    <2> QED
      BY <1>1, <1>3, <1>4, <1>5, <1>6, <1>7, <1>9, <2>1 DEF more
  <1> QED
    BY <1>8, <1>9

LEMMA TotalOfNone == Total(NoTypes) = 0
  <1>1. DOMAIN NoTypes = {} /\ IsFiniteSet({})
    BY FS_EmptySet DEF NoTypes
  <1>2. PICK g : Total(NoTypes) = g[DOMAIN NoTypes] /\ Sums(NoTypes, g, DOMAIN NoTypes)
    BY <1>1, TotalIs
  <1> QED
    BY <1>1, <1>2 DEF Sums, Adding
-----------------------------------------------------------------------------
(* Requests: the record of one is told by how far it came.                 *)
Served(t, now) ==
    \/ t = Ready
    \/ /\ t.at \in {"remember", IF Enabled THEN "learn" ELSE "answer"}
       /\ t = [at |-> t.at, call |-> t.call, now |-> t.now]
       /\ t.call \in Calls /\ t.now \in 0 .. now
    \/ /\ t.at = "answer" /\ Enabled
       /\ t = [at |-> t.at, call |-> t.call, found |-> t.found]
       /\ t.call \in Calls

RequestsFormed ==
    /\ clock \in Nat
    /\ request = [q \in Requests |-> request[q]]
    /\ \A q \in Requests : Served(request[q], clock)

(* What each step of a request does to it.                                 *)
LEMMA Progress ==
    ASSUME RequestsFormed, NEW q \in Requests, Serve(q)
    PROVE  /\ RequestsFormed' /\ clock <= clock'
           /\ \A x \in Requests \ {q} : request'[x] = request[x]
  <1>1. ASSUME NEW t, request' = [request EXCEPT ![q] = t], clock' \in Nat, clock <= clock', Served(t, clock')
        PROVE  RequestsFormed' /\ \A x \in Requests \ {q} : request'[x] = request[x]
    <2>1. /\ request'[q] = t /\ \A x \in Requests \ {q} : request'[x] = request[x]
          /\ request' = [x \in Requests |-> request'[x]]
      BY <1>1 DEF RequestsFormed
    <2>2. ASSUME NEW x \in Requests \ {q} PROVE Served(request[x], clock')
      BY <1>1 DEF RequestsFormed, Served
    <2> QED
      BY <1>1, <2>1, <2>2 DEF RequestsFormed
  <1>2. CASE \E c \in Calls : Arrive(q, c)
    <2>1. PICK c \in Calls : Arrive(q, c)
      BY <1>2
    <2> DEFINE t == [at |-> "remember", call |-> c, now |-> clock + 1]
    <2>2. clock' = clock + 1 /\ clock' \in Nat /\ clock <= clock'
      BY <2>1 DEF Arrive, RequestsFormed
    <2>3. Served(t, clock')
      BY <2>2 DEF Served, RequestsFormed
    <2> QED
      BY <1>1, <2>1, <2>2, <2>3 DEF Arrive
  <1>3. CASE \E v \in Routes : Remember(q, v)
    <2>1. PICK step : Step(q, step) /\ step = IF Enabled THEN "learn" ELSE "answer"
      BY <1>3 DEF Remember
    <2>2. At(q, "remember") /\ clock' = clock
      BY <1>3 DEF Remember
    <2>3. request[q] # Ready /\ Served(request[q], clock)
      BY <2>2 DEF At, Ready, RequestsFormed
    <2>4. PICK c, n : request[q] = [at |-> "remember", call |-> c, now |-> n] /\ c \in Calls /\ n \in 0 .. clock
      BY <2>2, <2>3 DEF Served, At
    <2>5. request' = [request EXCEPT ![q] = [at |-> step, call |-> c, now |-> n]]
      <3>1. request' = [request EXCEPT ![q] = [request[q] EXCEPT !.at = step]]
        BY <2>1 DEF Step
      <3>2. [request[q] EXCEPT !.at = step] = [at |-> step, call |-> c, now |-> n]
        BY <2>4
      <3> QED
        BY <3>1, <3>2
    <2>6. Served([at |-> step, call |-> c, now |-> n], clock)
      BY <2>1, <2>4 DEF Served
    <2> QED
      BY <1>1, <2>2, <2>5, <2>6 DEF RequestsFormed
  <1>4. CASE \E v \in Routes : Learn(q, v)
    <2>1. At(q, "learn") /\ clock' = clock
      BY <1>4 DEF Learn
    <2>2. PICK found : request' = [request EXCEPT ![q] = [at |-> "answer", call |-> request[q].call, found |-> found]]
      BY <1>4 DEF Learn
    <2>3. request[q] # Ready /\ Served(request[q], clock)
      BY <2>1 DEF At, Ready, RequestsFormed
    <2>4. request[q].call \in Calls /\ Enabled
      BY <2>1, <2>3, DiscoveryAssumption DEF Served, At
    <2>5. Served([at |-> "answer", call |-> request[q].call, found |-> found], clock)
      BY <2>4 DEF Served
    <2> QED
      BY <1>1, <2>1, <2>2, <2>5 DEF RequestsFormed
  <1>5. CASE Observe(q) \/ Unanswered(q)
    BY <1>1, <1>5 DEF Observe, Unanswered, Served, RequestsFormed
  <1> QED
    BY <1>2, <1>3, <1>4, <1>5 DEF Serve, Arrive, Remember, Learn, Observe, Unanswered, RequestsFormed

(* Steps of operators leave the requests alone; a start ends them.         *)
LEMMA RequestsStep ==
    ASSUME RequestsFormed, [Next]_vars
    PROVE  RequestsFormed' /\ clock <= clock'
  <1>1. ASSUME UNCHANGED <<request, clock>> PROVE RequestsFormed' /\ clock <= clock'
    BY <1>1 DEF RequestsFormed
  <1>2. ASSUME NEW q \in Requests, Serve(q) PROVE RequestsFormed' /\ clock <= clock'
    BY <1>2, Progress
  <1>3. ASSUME NEW o \in Operators, Operate(o) PROVE RequestsFormed' /\ clock <= clock'
    BY <1>1, <1>3, OperatingLeaves DEF memory, ClearMemory
  <1>4. CASE Restart
    <2>1. request' = [q \in Requests |-> Ready] /\ clock' = clock
      BY <1>4 DEF Restart
    <2>2. \A q \in Requests : Served(request'[q], clock')
      BY <2>1 DEF Served
    <2> QED
      BY <2>1, <2>2 DEF RequestsFormed
  <1>5. CASE UNCHANGED vars
    BY <1>1, <1>5 DEF vars
  <1> QED
    BY <1>2, <1>3, <1>4, <1>5 DEF Next

LEMMA RequestsInit ==
    ASSUME Init PROVE RequestsFormed
  BY DEF Init, RequestsFormed, Served
-----------------------------------------------------------------------------
(* One body sent again and again.                                          *)
LEMMA MaxOfTwo ==
    ASSUME NEW a \in Nat, NEW b \in Nat
    PROVE  Max({a, b}) \in {a, b} /\ a <= Max({a, b}) /\ b <= Max({a, b})
  <1>1. \E x \in {a, b} : \A y \in {a, b} : x >= y
    <2>1. CASE a >= b
      BY <2>1
    <2>2. CASE b >= a
      BY <2>2
    <2> QED
      BY <2>1, <2>2
  <1>2. /\ Max({a, b}) \in {a, b}
        /\ \A y \in {a, b} : Max({a, b}) >= y
    BY <1>1 DEF Max
  <1> QED
    BY <1>2

LEMMA LastOne ==
    ASSUME NEW n \in Nat, NEW S, S \subseteq 1 .. n, S # {}
    PROVE  Max(S) \in S
  <1> DEFINE T == {n - i : i \in S}
  <1>0. \A i \in S : i \in Int /\ 1 <= i /\ i <= n
    OBVIOUS
  <1>1. T \subseteq Nat /\ T # {}
    <2>1. \A i \in S : n - i \in Nat
      BY <1>0
    <2> QED
      BY <2>1
  <1>2. PICK m \in T : \A k \in T : <<k, m>> \notin OpToRel(<, Nat)
    BY <1>1, NatLessThanWellFounded, WFMin
  <1>3. \A k \in T : m <= k
    <2> SUFFICES ASSUME NEW k \in T PROVE m <= k
      OBVIOUS
    <2>1. k \in Nat /\ m \in Nat
      BY <1>1
    <2> HIDE DEF T
    <2>2. ~(k < m)
      BY <1>2, <2>1 DEF OpToRel
    <2> QED
      BY <2>1, <2>2
  <1>4. PICK x \in S : m = n - x
    BY <1>2
  <1>5. ASSUME NEW y \in S PROVE x >= y
    <2>1. n - x <= n - y
      BY <1>3, <1>4
    <2> QED
      BY <1>0, <2>1
  <1> QED
    BY <1>5 DEF Max

KindNames == {Kinds[j] : j \in DOMAIN Kinds}

LEMMA FlatKinds ==
    ASSUME NEW b, IsBody(b)
    PROVE  \A n \in DOMAIN Flat(b) : Flat(b)[n] \in KindNames
  <1> DEFINE named(i) == {b.fields[j].name : j \in 1 .. i}
             taken    == {i \in DOMAIN b.fields : Cardinality(named(i - 1)) < MaxFields}
             last(n)  == Max({i \in taken : b.fields[i].name = n})
  <1>1. Flat(b) = [n \in {b.fields[i].name : i \in taken} |-> b.fields[last(n)].kind]
    BY DEF Flat
  <1>2. taken \subseteq DOMAIN b.fields
    OBVIOUS
  <1>3. Len(b.fields) \in Nat /\ DOMAIN b.fields = 1 .. Len(b.fields)
    BY DEF IsBody
  <1> HIDE DEF taken
  <1>4. ASSUME NEW n \in {b.fields[i].name : i \in taken} PROVE b.fields[last(n)].kind \in KindNames
    <2>1. {i \in taken : b.fields[i].name = n} # {} /\ {i \in taken : b.fields[i].name = n} \subseteq 1 .. Len(b.fields)
      BY <1>2, <1>3
    <2>2. last(n) \in DOMAIN b.fields
      BY <1>2, <1>3, <2>1, LastOne
    <2> HIDE DEF last
    <2> QED
      BY <2>2 DEF IsBody, KindNames
  <1> HIDE DEF last
  <1> QED
    BY <1>1, <1>4

LEMMA RankIs ==
    ASSUME NEW k \in KindNames PROVE Rank(k) \in Int
  <1>1. DOMAIN Kinds = 1 .. 6
    BY DEF Kinds
  <1>2. Rank(k) \in DOMAIN Kinds
    BY DEF Rank, KindNames
  <1> QED
    BY <1>1, <1>2

LEMMA DominantOfOne ==
    ASSUME NEW k \in KindNames, NEW types, DOMAIN types = {k}
    PROVE  DominantType(types) = k
  <1>1. \A j \in DOMAIN types : types[j] < types[k] \/ (types[j] = types[k] /\ Rank(j) <= Rank(k))
    BY RankIs
  <1> HIDE DEF KindNames
  <1>2. \E x \in DOMAIN types : \A j \in DOMAIN types :
            types[j] < types[x] \/ (types[j] = types[x] /\ Rank(j) <= Rank(x))
    BY <1>1
  <1>3. DominantType(types) \in DOMAIN types
    BY <1>2 DEF DominantType
  <1> QED
    BY <1>3

(* A schema that only b made, however often.                               *)
Repeated(p, b) ==
    /\ p.size = b.size
    /\ DOMAIN p.fields = DOMAIN Flat(b)
    /\ \A n \in DOMAIN Flat(b) : DOMAIN p.fields[n].types = {Flat(b)[n]}

Unlike == {"UZ-API-SCHEMA-001", "UZ-API-SCHEMA-002", "UZ-API-SCHEMA-003", "UZ-API-SCHEMA-007"}

LEMMA RepeatedQuiet ==
    ASSUME NEW b, IsBody(b), NEW p, Repeated(p, b)
    PROVE  SchemaFindings(p, b) = {}
  <1>1. ~UnexpectedField(p, b) /\ ~MissingField(p, b)
    BY DEF Repeated, UnexpectedField, MissingField
  <1>2. ~OtherType(p, b)
    BY FlatKinds, DominantOfOne DEF Repeated, OtherType
  <1>3. ~UnusualSize(p, b)
    BY DEF Repeated, UnusualSize, IsBody
  <1> QED
    BY <1>1, <1>2, <1>3 DEF SchemaFindings

(* The first body of a route and each time it is sent again.               *)
LEMMA RepeatedAgain ==
    ASSUME NEW b, IsBody(b), NEW p, p = Blank \/ Repeated(p, b)
    PROVE  Repeated(Merge(p, b), b)
  <1> DEFINE old(n) == IF n \in DOMAIN p.fields THEN p.fields[n] ELSE [seen |-> 0, types |-> NoTypes]
  <1>1. Merge(p, b).size = b.size
    BY MaxOfTwo DEF Merge, Repeated, IsBody, Blank
  <1>2. DOMAIN p.fields \subseteq DOMAIN Flat(b)
    <2>1. CASE p = Blank
      <3>1. p.fields = [n \in {} |-> 0]
        BY <2>1 DEF Blank
      <3>2. DOMAIN p.fields = {}
        BY <3>1
      <3> QED
        BY <3>2
    <2> QED
      BY <2>1 DEF Repeated
  <1>3. Merge(p, b).fields = [n \in DOMAIN Flat(b) |->
            [seen |-> old(n).seen + 1, types |-> Counted(old(n).types, Flat(b)[n])]]
    <2>1. DOMAIN p.fields \cup DOMAIN Flat(b) = DOMAIN Flat(b)
      BY <1>2
    <2> QED
      BY <2>1 DEF Merge
  <1>4. ASSUME NEW n \in DOMAIN Flat(b) PROVE DOMAIN old(n).types \subseteq {Flat(b)[n]}
    BY DEF Repeated, Blank, NoTypes
  <1>5. ASSUME NEW n \in DOMAIN Flat(b) PROVE DOMAIN Counted(old(n).types, Flat(b)[n]) = {Flat(b)[n]}
    <2>1. PICK t : t = old(n).types
      OBVIOUS
    <2>2. DOMAIN t \subseteq {Flat(b)[n]}
      BY <1>4, <2>1
    <2>3. DOMAIN Counted(t, Flat(b)[n]) = {Flat(b)[n]}
      BY <2>2 DEF Counted
    <2> QED
      BY <2>1, <2>3
  <1> HIDE DEF old
  <1> QED
    BY <1>1, <1>3, <1>5 DEF Repeated

LEMMA BodyQuiet ==
    ASSUME NEW b PROVE BodyFindings(b) \cap Unlike = {}
  BY DEF BodyFindings, Unlike

(* What was sent to each route, what is learned of it, and what was said   *)
(* of a body that is not the only one of its route any more.               *)
Learnings ==
    /\ sent = [r \in Routes |-> sent[r]]
    /\ \A r \in Routes :
           /\ IsFiniteSet(sent[r])
           /\ r \in DOMAIN schemas => sent[r] # {}
           /\ \A b \in sent[r] : sent[r] = {b} /\ r \in DOMAIN schemas => Repeated(schemas[r], b)

Answered(t) ==
    t.at = "answer" /\ Enabled =>
        IF Learned(t.call.body)
        THEN /\ t.call.body \in sent[t.call.route]
             /\ sent[t.call.route] = {t.call.body} => t.found \cap Unlike = {}
        ELSE t.found \cap Unlike = {}

QuietInv ==
    /\ RequestsFormed /\ Learnings
    /\ \A q \in Requests : Answered(request[q])

LEMMA LearningQuiet ==
    ASSUME MinSamples > 0, QuietInv, NEW q \in Requests, NEW v, Learn(q, v)
    PROVE  Learnings' /\ \A x \in Requests : Answered(request[x])'
  <1>1. PICK r, b : r = request[q].call.route /\ b = request[q].call.body
    OBVIOUS
  <1>2. r \in Routes /\ IsBody(b)
    <2>1. Served(request[q], clock) /\ request[q].at = "learn"
      BY DEF QuietInv, RequestsFormed, Learn, At
    <2>2. request[q].call \in Calls
      BY <2>1 DEF Served, Ready
    <2> QED
      BY <1>1, <2>2, DiscoveryAssumption
  <1>3. /\ request'[q].at = "answer" /\ request'[q].found = Findings(schemas, r, b)
        /\ request'[q].call.route = r /\ request'[q].call.body = b
        /\ \A x \in Requests \ {q} : request'[x] = request[x]
    <2>1. request' = [request EXCEPT ![q] = [at |-> "answer", call |-> request[q].call,
                                             found |-> Findings(schemas, r, b)]]
      BY <1>1 DEF Learn
    <2>2. PICK found : found = Findings(schemas, r, b)
      OBVIOUS
    <2>3. request' = [request EXCEPT ![q] = [at |-> "answer", call |-> request[q].call, found |-> found]]
      BY <2>1, <2>2
    <2> QED
      BY <1>1, <2>2, <2>3 DEF QuietInv, RequestsFormed
  <1>4. CASE ~Learned(b)
    <2>1. UNCHANGED <<schemas, sent>>
      BY <1>1, <1>4 DEF Learn
    <2>2. Findings(schemas, r, b) \cap Unlike = {}
      BY <1>4, BodyQuiet DEF Findings
    <2> QED
      BY <1>3, <1>4, <2>1, <2>2 DEF QuietInv, Learnings, Answered
  <1>5. CASE Learned(b)
    <2>1. /\ schemas' = AfterBody(schemas, r, b, v) /\ sent' = [sent EXCEPT ![r] = @ \cup {b}]
      BY <1>1, <1>5 DEF Learn
    <2>2. /\ sent'[r] = sent[r] \cup {b} /\ \A x \in Routes \ {r} : sent'[x] = sent[x]
          /\ sent' = [x \in Routes |-> sent'[x]]
      BY <1>2, <2>1 DEF QuietInv, Learnings
    <2>3. /\ \A x \in DOMAIN schemas' \ {r} : x \in DOMAIN schemas /\ schemas'[x] = schemas[x]
          /\ schemas'[r] = Merge(ProfileOf(schemas, r), b)
      BY <2>1 DEF AfterBody, Kept
    <2>4. sent'[r] = {b} => ProfileOf(schemas, r) = Blank \/ Repeated(ProfileOf(schemas, r), b)
      BY <1>2, <2>2 DEF ProfileOf, QuietInv, Learnings
    <2>5. Learnings'
      <3>1. \A x \in Routes : IsFiniteSet(sent'[x])
        BY <1>2, <2>2, FS_AddElement DEF QuietInv, Learnings
      <3>2. ASSUME NEW x \in Routes \ {r}
            PROVE  /\ x \in DOMAIN schemas' => sent'[x] # {}
                   /\ \A c \in sent'[x] : sent'[x] = {c} /\ x \in DOMAIN schemas' => Repeated(schemas'[x], c)
        BY <2>2, <2>3 DEF QuietInv, Learnings
      <3>3. sent'[r] = {b} => Repeated(schemas'[r], b)
        BY <1>2, <2>3, <2>4, RepeatedAgain
      <3>4. /\ sent'[r] # {}
            /\ \A c \in sent'[r] : sent'[r] = {c} => Repeated(schemas'[r], c)
        BY <2>2, <3>3
      <3> QED
        BY <2>2, <3>1, <3>2, <3>4 DEF Learnings
    <2>6. sent'[r] = {b} => Findings(schemas, r, b) \cap Unlike = {}
      <3>1. SchemaFindings(Blank, b) = {}
        BY SchemaAssumption DEF SchemaFindings, Enough, Blank
      <3> QED
        BY <1>2, <1>5, <2>4, <3>1, RepeatedQuiet, BodyQuiet DEF Findings
    <2>7. ASSUME NEW x \in Requests PROVE Answered(request[x])'
      <3>1. CASE x = q
        BY <1>3, <1>5, <2>2, <2>6, <3>1 DEF Answered
      <3>2. CASE x # q
        <4>1. request'[x] = request[x] /\ Answered(request[x]) /\ Served(request[x], clock)
          BY <1>3, <3>2 DEF QuietInv, RequestsFormed
        <4>2. request[x].at = "answer" => request[x].call.route \in Routes
          BY <4>1, DiscoveryAssumption DEF Served, Ready
        <4>3. request[x].at = "answer" => sent[request[x].call.route] \subseteq sent'[request[x].call.route]
          BY <2>2, <4>2
        <4> QED
          BY <4>1, <4>3 DEF Answered
      <3> QED
        BY <3>1, <3>2
    <2> QED
      BY <2>5, <2>7
  <1> QED
    BY <1>4, <1>5

(* A route whose clients all send one body never has it reported for a     *)
(* field, a type or a size, where a body is compared with others only.     *)
THEOREM SteadyClientQuietHolds ==
    ASSUME MinSamples > 0
    PROVE  Spec => []SteadyClientQuiet
<1>1. Init => QuietInv
  <2> SUFFICES ASSUME Init PROVE QuietInv
    OBVIOUS
  <2>1. Learnings
    BY FS_EmptySet DEF Init, Learnings, Nowhere
  <2>2. \A q \in Requests : Answered(request[q])
    BY DEF Init, Answered, Ready
  <2> QED
    BY <2>1, <2>2, RequestsInit DEF QuietInv
<1>2. QuietInv /\ [Next]_vars => QuietInv'
  <2> SUFFICES ASSUME QuietInv, [Next]_vars PROVE QuietInv'
    OBVIOUS
  <2>0. RequestsFormed'
    BY RequestsStep DEF QuietInv
  <2>1. ASSUME UNCHANGED <<schemas, sent>>,
               \A q \in Requests : request'[q] = request[q] \/ ~(request'[q].at = "answer" /\ Enabled)
        PROVE  QuietInv'
    BY <2>0, <2>1 DEF QuietInv, Learnings, Answered
  <2>2. ASSUME NEW q \in Requests, Serve(q) PROVE QuietInv'
    <3>1. CASE \E v \in Routes : Learn(q, v)
      BY <2>0, <3>1, LearningQuiet DEF QuietInv
    <3>2. CASE \A v \in Routes : ~Learn(q, v)
      <4>1. UNCHANGED <<schemas, sent>>
        BY <2>2, <3>2 DEF Serve, Arrive, Remember, Observe, Unanswered
      <4>2. \A x \in Requests \ {q} : request'[x] = request[x]
        BY <2>2, Progress DEF QuietInv
      <4>3. request = [x \in Requests |-> request[x]]
        BY DEF QuietInv, RequestsFormed
      <4>4. ~(request'[q].at = "answer" /\ Enabled)
        <5>1. CASE \E c \in Calls : Arrive(q, c)
          BY <4>3, <5>1 DEF Arrive
        <5>2. CASE \E v \in Routes : Remember(q, v)
          <6>1. Step(q, IF Enabled THEN "learn" ELSE "answer") /\ At(q, "remember") /\ Served(request[q], clock)
            BY <5>2 DEF Remember, QuietInv, RequestsFormed
          <6>2. request'[q] = [request[q] EXCEPT !.at = IF Enabled THEN "learn" ELSE "answer"]
            BY <4>3, <6>1 DEF Step
          <6>0. request[q].at = "remember" /\ request[q] # Ready
            BY <6>1 DEF At, Ready
          <6>3. PICK c, n : request[q] = [at |-> "remember", call |-> c, now |-> n]
            BY <6>0, <6>1 DEF Served
          <6> QED
            BY <6>2, <6>3
        <5>3. CASE Observe(q) \/ Unanswered(q)
          BY <4>3, <5>3 DEF Observe, Unanswered, Ready
        <5> QED
          BY <2>2, <3>2, <5>1, <5>2, <5>3 DEF Serve
      <4> QED
        BY <2>1, <4>1, <4>2, <4>4
    <3> QED
      BY <3>1, <3>2
  <2>3. ASSUME NEW o \in Operators, Operate(o) PROVE QuietInv'
    <3>1. UNCHANGED <<schemas, sent, request>>
      BY <2>3, OperatingLeaves DEF memory, ClearMemory
    <3> QED
      BY <2>1, <3>1
  <2>4. CASE Restart
    <3>1. /\ schemas' = Nowhere /\ sent' = [r \in Routes |-> {}]
          /\ request' = [q \in Requests |-> Ready]
      BY <2>4 DEF Restart
    <3>2. Learnings'
      BY <3>1, FS_EmptySet DEF Learnings, Nowhere
    <3> QED
      BY <2>0, <3>1, <3>2 DEF QuietInv, Answered, Ready
  <2>5. CASE UNCHANGED vars
    BY <2>1, <2>5 DEF vars
  <2> QED
    BY <2>2, <2>3, <2>4, <2>5 DEF Next
<1>3. QuietInv => SteadyClientQuiet
  <2> SUFFICES ASSUME QuietInv, NEW q \in Requests, At(q, "answer"), Enabled,
                      Cardinality(sent[request[q].call.route]) = 1
               PROVE  request[q].found \cap Unlike = {}
    BY DEF SteadyClientQuiet, Unlike
  <2>1. Served(request[q], clock) /\ Answered(request[q])
    BY DEF QuietInv, RequestsFormed
  <2>2. request[q].call.route \in Routes
    BY <2>1, DiscoveryAssumption DEF Served, Ready, At
  <2>3. PICK b : sent[request[q].call.route] = {b}
    <3>1. IsFiniteSet(sent[request[q].call.route])
      BY <2>2 DEF QuietInv, Learnings
    <3> QED
      BY <3>1, FS_Singleton
  <2> QED
    BY <2>1, <2>3 DEF Answered, At
<1> QED
  BY <1>1, <1>2, <1>3, PTL DEF Spec
-----------------------------------------------------------------------------
(* Types.  A schema whose kinds add up.                                    *)
Profiled(p) ==
    /\ p.samples \in Nat /\ p.size \in Nat
    /\ \A n \in DOMAIN p.fields :
           /\ p.fields[n].seen \in 1 .. p.samples
           /\ IsFiniteSet(DOMAIN p.fields[n].types)
           /\ \A k \in DOMAIN p.fields[n].types : p.fields[n].types[k] \in Nat
           /\ p.fields[n].seen = Total(p.fields[n].types)

LEMMA ProfiledIs ==
    ASSUME NEW p, Profiled(p) PROVE IsProfile(p)
  BY DEF Profiled, IsProfile, Total

LEMMA BlankProfiled == Profiled(Blank)
  <1>1. DOMAIN Blank.fields = {}
    BY DEF Blank
  <1> QED
    BY <1>1 DEF Profiled, Blank

LEMMA MergedProfile ==
    ASSUME NEW p, Profiled(p), NEW b, IsBody(b)
    PROVE  Profiled(Merge(p, b))
  <1> DEFINE old(n) == IF n \in DOMAIN p.fields THEN p.fields[n] ELSE [seen |-> 0, types |-> NoTypes]
             m == Merge(p, b)
  <1>1. /\ m.samples = p.samples + 1 /\ m.size = Max({p.size, b.size})
        /\ DOMAIN m.fields = DOMAIN p.fields \cup DOMAIN Flat(b)
        /\ \A n \in DOMAIN Flat(b) :
               m.fields[n] = [seen |-> old(n).seen + 1, types |-> Counted(old(n).types, Flat(b)[n])]
        /\ \A n \in DOMAIN p.fields \ DOMAIN Flat(b) : m.fields[n] = p.fields[n]
    BY DEF Merge
  <1> HIDE DEF m
  <1>2. p.samples \in Nat /\ m.samples \in Nat /\ m.size \in Nat
    BY <1>1, MaxOfTwo DEF Profiled, IsBody
  <1>3. ASSUME NEW n
        PROVE  /\ old(n).seen \in 0 .. p.samples /\ IsFiniteSet(DOMAIN old(n).types)
               /\ \A k \in DOMAIN old(n).types : old(n).types[k] \in Nat
               /\ old(n).seen = Total(old(n).types)
    <2>1. CASE n \in DOMAIN p.fields
      BY <2>1 DEF Profiled
    <2>2. CASE n \notin DOMAIN p.fields
      <3>1. old(n).seen = 0 /\ old(n).types = NoTypes /\ DOMAIN NoTypes = {}
        BY <2>2 DEF NoTypes
      <3> HIDE DEF old
      <3> QED
        BY <1>2, <3>1, TotalOfNone, FS_EmptySet
    <2> QED
      BY <2>1, <2>2
  <1> HIDE DEF old
  <1>4. ASSUME NEW n \in DOMAIN Flat(b)
        PROVE  /\ m.fields[n].seen \in 1 .. m.samples
               /\ IsFiniteSet(DOMAIN m.fields[n].types)
               /\ \A k \in DOMAIN m.fields[n].types : m.fields[n].types[k] \in Nat
               /\ m.fields[n].seen = Total(m.fields[n].types)
    <2>1. PICK types, k, seen : types = old(n).types /\ k = Flat(b)[n] /\ seen = old(n).seen
      OBVIOUS
    <2>2. m.fields[n].seen = seen + 1 /\ m.fields[n].types = Counted(types, k)
      <3>1. m.fields[n] = [seen |-> seen + 1, types |-> Counted(types, k)]
        BY <1>1, <2>1, Zenon
      <3> QED
        BY <3>1
    <2>3. /\ seen \in 0 .. p.samples /\ IsFiniteSet(DOMAIN types) /\ seen = Total(types)
          /\ \A j \in DOMAIN types : types[j] \in Nat
      BY <1>3, <2>1
    <2>4. Total(Counted(types, k)) = Total(types) + 1
      BY <2>3, CountedTotal
    <2>5. /\ DOMAIN Counted(types, k) = DOMAIN types \cup {k}
          /\ \A j \in DOMAIN Counted(types, k) : Counted(types, k)[j] \in Nat
      BY <2>3 DEF Counted
    <2>6. IsFiniteSet(DOMAIN Counted(types, k))
      BY <2>3, <2>5, FS_AddElement
    <2>7. seen + 1 \in 1 .. m.samples
      BY <1>1, <1>2, <2>3
    <2> QED
      BY <2>2, <2>3, <2>4, <2>5, <2>6, <2>7
  <1>5. ASSUME NEW n \in DOMAIN p.fields \ DOMAIN Flat(b)
        PROVE  /\ m.fields[n].seen \in 1 .. m.samples
               /\ IsFiniteSet(DOMAIN m.fields[n].types)
               /\ \A k \in DOMAIN m.fields[n].types : m.fields[n].types[k] \in Nat
               /\ m.fields[n].seen = Total(m.fields[n].types)
    BY <1>1, <1>2 DEF Profiled
  <1> QED
    BY <1>1, <1>2, <1>4, <1>5 DEF Profiled, m

LEMMA TableLater ==
    ASSUME NEW f, NEW c \in Nat, NEW d \in Nat, c <= d, IsTable(f, c)
    PROVE  IsTable(f, d)
  <1>1. 0 .. c \subseteq 0 .. d
    OBVIOUS
  <1> QED
    BY <1>1 DEF IsTable

TaskIs(t, now) ==
    \/ t = Ready \/ t = [at |-> "clear"]
    \/ t.at \in {"retire approved", "retire promoted"} /\ t.route \in Routes
    \/ t.at \in Filtering /\ t.hidden \cup t.steady \subseteq Routes /\ IsTable(t.items, now)

LEMMA TaskAt ==
    ASSUME NEW t, NEW c, TaskIs(t, c)
    PROVE  /\ t.at \in Filtering => t.hidden \cup t.steady \subseteq Routes /\ IsTable(t.items, c)
           /\ t.at \in {"retire approved", "retire promoted"} => t.route \in Routes
  <1>1. /\ Ready.at = "idle" /\ [at |-> "clear"].at = "clear"
        /\ Filtering \cap {"idle", "clear", "retire approved", "retire promoted"} = {}
    BY DEF Ready, Filtering, Stages
  <1>2. "idle" \notin {"retire approved", "retire promoted"} /\ "clear" \notin {"retire approved", "retire promoted"}
    OBVIOUS
  <1> QED
    BY <1>1, <1>2 DEF TaskIs

LEMMA UnsteadyTask ==
    ASSUME NEW t, Formed(t), NEW c, TaskIs(t, c), NEW gone
    PROVE  TaskIs(Unsteady(t, gone), c)
  <1>1. CASE t.at \in Filtering
    <2>1. t.hidden \cup t.steady \subseteq Routes /\ IsTable(t.items, c)
      BY <1>1, TaskAt
    <2>2. /\ Unsteady(t, gone).at \in Filtering /\ Unsteady(t, gone).hidden = t.hidden
          /\ Unsteady(t, gone).items = t.items /\ Unsteady(t, gone).steady \subseteq t.steady
      BY <1>1, Unsteadied
    <2> QED
      BY <2>1, <2>2 DEF TaskIs
  <1>2. CASE t.at \notin Filtering
    BY <1>2, Unsteadied
  <1> QED
    BY <1>1, <1>2

LEMMA NowhereTable ==
    ASSUME NEW c PROVE IsTable(Nowhere, c)
  BY DEF IsTable, Nowhere

LEMMA ReadingTask ==
    ASSUME NEW tables, NEW c, \A s \in Stages : tables[s] \subseteq Routes
    PROVE  TaskIs(Reading(tables), c)
  <1>1. OnSome(tables) \subseteq Routes
    BY DEF OnSome
  <1>2. Reading(tables).items = Nowhere
    BY DEF Reading
  <1> QED
    BY <1>1, <1>2, ReadingFormed, NowhereTable DEF TaskIs, Filtering, Stages

LEMMA TaskLater ==
    ASSUME NEW t, NEW c \in Nat, NEW d \in Nat, c <= d, TaskIs(t, c)
    PROVE  TaskIs(t, d)
  BY TableLater DEF TaskIs

TypeInv ==
    /\ RequestsFormed /\ TasksFormed
    /\ IsTable(routes, clock) /\ IsTable(rows, clock)
    /\ DOMAIN schemas \subseteq Routes /\ \A r \in DOMAIN schemas : Profiled(schemas[r])
    /\ listed \in [Stages -> SUBSET Routes]
    /\ \A o \in Operators : TaskIs(task[o], clock)
    /\ edits \in Nat /\ faults \in 0 .. MaxFaults /\ restarts \in 0 .. MaxRestarts
    /\ announced \in [Routes -> Nat] /\ undisturbed \in BOOLEAN

(* What a request is at, and so what it writes.                            *)
LEMMA CallIs ==
    ASSUME RequestsFormed, NEW q \in Requests, request[q] # Ready
    PROVE  request[q].call \in Calls /\ request[q].call.route \in Routes /\ IsBody(request[q].call.body)
  <1>1. request[q].call \in Calls
    BY DEF RequestsFormed, Served
  <1> QED
    BY <1>1, DiscoveryAssumption

LEMMA RoutesTyped ==
    ASSUME TypeInv, NEW q \in Requests, Serve(q)
    PROVE  IsTable(routes', clock') /\ announced' \in [Routes -> Nat]
  <1>1. clock \in Nat /\ clock' \in Nat /\ clock <= clock'
    BY Progress DEF TypeInv, RequestsFormed
  <1>2. CASE UNCHANGED <<routes, announced>>
    BY <1>1, <1>2, TableLater DEF TypeInv
  <1>3. CASE \E v \in Routes : Remember(q, v)
    <2>1. PICK v \in Routes : Remember(q, v)
      BY <1>3
    <2>2. PICK r, n : r = request[q].call.route /\ n = request[q].now
      OBVIOUS
    <2>3. request[q].at = "remember" /\ request[q] # Ready /\ Served(request[q], clock) /\ clock' = clock
      BY <2>1 DEF Remember, At, Ready, TypeInv, RequestsFormed
    <2>4. r \in Routes /\ n \in 0 .. clock
      BY <2>2, <2>3, CallIs DEF Served, TypeInv
    <2>5. announced' \in [Routes -> Nat]
      BY <2>1 DEF Remember, TypeInv
    <2>6. CASE r \in DOMAIN routes
      <3>1. routes' = [routes EXCEPT ![r].hits = @ + 1, ![r].last = n]
        BY <2>1, <2>2, <2>6 DEF Remember
      <3>2. IsTable(routes', clock)
        <4> DEFINE Rows == [hits : Nat \ {0}, last : 0 .. clock, status : {"new", "known"}]
        <4>1. routes \in [DOMAIN routes -> Rows] /\ DOMAIN routes \subseteq Routes
          BY DEF TypeInv, IsTable
        <4>2. PICK row : row = [routes[r] EXCEPT !.hits = @ + 1, !.last = n]
          OBVIOUS
        <4>3. row \in Rows
          <5>1. routes[r] \in Rows
            BY <2>6, <4>1
          <5>2. PICK h \in Nat \ {0}, l \in 0 .. clock, s \in {"new", "known"} :
                    routes[r] = [hits |-> h, last |-> l, status |-> s]
            BY <5>1
          <5>3. row = [hits |-> h + 1, last |-> n, status |-> s]
            <6>1. row = [[hits |-> h, last |-> l, status |-> s] EXCEPT !.hits = @ + 1, !.last = n]
              BY <4>2, <5>2, Zenon
            <6> QED
              BY <6>1
          <5>4. h + 1 \in Nat \ {0}
            BY <5>2
          <5> QED
            BY <2>4, <5>2, <5>3, <5>4
        <4>4. routes' = [routes EXCEPT ![r] = row]
          BY <3>1, <4>2
        <4> HIDE DEF Rows
        <4>5. routes' \in [DOMAIN routes -> Rows] /\ DOMAIN routes' = DOMAIN routes
          BY <4>1, <4>3, <4>4
        <4> QED
          BY <4>1, <4>5 DEF IsTable, Rows
      <3> QED
        BY <2>3, <2>5, <3>2
    <2>7. CASE r \notin DOMAIN routes
      <3>1. routes' = [x \in (IF Full THEN DOMAIN routes \ {v} ELSE DOMAIN routes) \cup {r} |->
                          IF x = r THEN [hits |-> 1, last |-> n, status |-> "new"] ELSE routes[x]]
        BY <2>1, <2>2, <2>7 DEF Remember, WithNew
      <3>2. IsTable(routes', clock)
        BY <2>4, <3>1 DEF TypeInv, IsTable
      <3> QED
        BY <2>3, <2>5, <3>2
    <2> QED
      BY <2>6, <2>7
  <1>4. CASE Observe(q)
    <2>1. /\ clock' = clock /\ UNCHANGED announced
          /\ routes' = routes \/ \E r \in DOMAIN routes : routes' = [routes EXCEPT ![r].status = "known"]
      BY <1>4 DEF Observe
    <2>2. IsTable(routes', clock)
      BY <2>1 DEF TypeInv, IsTable
    <2> QED
      BY <2>1, <2>2 DEF TypeInv
  <1> QED
    BY <1>2, <1>3, <1>4 DEF Serve, Arrive, Learn, Unanswered

LEMMA SchemasTyped ==
    ASSUME TypeInv, NEW q \in Requests, Serve(q)
    PROVE  DOMAIN schemas' \subseteq Routes /\ \A r \in DOMAIN schemas' : Profiled(schemas'[r])
  <1>1. CASE UNCHANGED schemas
    BY <1>1 DEF TypeInv
  <1>2. CASE \E v \in Routes : Learn(q, v)
    <2>0. PICK r, b : r = request[q].call.route /\ b = request[q].call.body
      OBVIOUS
    <2>1. PICK v \in Routes : Learn(q, v)
      BY <1>2
    <2>2. request[q] # Ready
      BY <2>1 DEF Learn, At, Ready
    <2>3. r \in Routes /\ IsBody(b)
      BY <2>0, <2>2, CallIs DEF TypeInv
    <2>4. CASE schemas' = AfterBody(schemas, r, b, v)
      <3>1. Profiled(ProfileOf(schemas, r))
        BY BlankProfiled DEF ProfileOf, TypeInv
      <3>2. /\ DOMAIN schemas' \subseteq DOMAIN schemas \cup {r}
            /\ \A x \in DOMAIN schemas' \ {r} : x \in DOMAIN schemas /\ schemas'[x] = schemas[x]
            /\ schemas'[r] = Merge(ProfileOf(schemas, r), b)
        BY <2>4 DEF AfterBody, Kept
      <3>3. Profiled(Merge(ProfileOf(schemas, r), b))
        BY <2>3, <3>1, MergedProfile
      <3> QED
        BY <2>3, <3>2, <3>3 DEF TypeInv
    <2> QED
      BY <1>1, <2>0, <2>1, <2>4 DEF Learn
  <1> QED
    BY <1>1, <1>2 DEF Serve, Arrive, Remember, Observe, Unanswered

(* What a handler's step leaves in the tables, the rows and the tasks.     *)
LEMMA OperatingTyped ==
    ASSUME TypeInv, NEW o \in Operators, Operate(o)
    PROVE  /\ listed' \in [Stages -> SUBSET Routes] /\ IsTable(rows', clock)
           /\ edits' \in Nat /\ faults' \in 0 .. MaxFaults /\ undisturbed' \in BOOLEAN
  <1>0. MaxFaults \in Nat /\ Handled \subseteq Routes
    BY DiscoveryAssumption
  <1>1. ASSUME NEW ok \in BOOLEAN, Failing(ok) PROVE faults' \in 0 .. MaxFaults
    BY <1>0, <1>1 DEF Failing, TypeInv
  <1>2. ASSUME NEW ok \in BOOLEAN, Begin(o, ok)
        PROVE  edits' \in Nat /\ faults' \in 0 .. MaxFaults /\ undisturbed' \in BOOLEAN /\ rows' = rows
    BY <1>1, <1>2 DEF Begin, TypeInv
  <1>3. ASSUME NEW ok \in BOOLEAN, NEW step, Goes(o, step, ok)
        PROVE  edits' \in Nat /\ faults' \in 0 .. MaxFaults /\ undisturbed' \in BOOLEAN
    BY <1>1, <1>3 DEF Goes, TypeInv
  <1>4. ASSUME NEW r \in Routes, listed' \in {UpsertApprovedRow(r), DeleteApprovedRow(r), UpsertPromotedRow(r),
                                 DeletePromotedRow(r), UpsertManagedRow(r), DeleteManagedRow(r)}
        PROVE  listed' \in [Stages -> SUBSET Routes]
    BY <1>4 DEF TypeInv, Stages, UpsertApprovedRow, DeleteApprovedRow, UpsertPromotedRow,
                DeletePromotedRow, UpsertManagedRow, DeleteManagedRow
  <1>5. CASE Sync(o) \/ ReadRoutes(o)
    BY <1>2, <1>3, <1>5 DEF Sync, ReadRoutes, TypeInv
  <1>6. CASE ClearMemory(o)
    BY <1>6 DEF ClearMemory, TypeInv
  <1>7. CASE \E ok \in BOOLEAN : ReadListed(o, ok)
    BY <1>3, <1>7 DEF ReadListed, Read, TypeInv
  <1>8. CASE \E ok \in BOOLEAN : ClearRows(o, ok)
    BY <1>3, <1>8, NowhereTable DEF ClearRows, TypeInv
  <1>9. CASE \E ok \in BOOLEAN : ReplaceRows(o, ok)
    <2>1. PICK ok \in BOOLEAN : ReplaceRows(o, ok)
      BY <1>9
    <2>2. task[o].at = "replace" /\ rows' \in {task[o].items, rows} /\ listed' = listed
      BY <2>1 DEF ReplaceRows, Goes
    <2>3. IsTable(task[o].items, clock)
      BY <2>2, TaskAt DEF TypeInv, Filtering
    <2> QED
      BY <1>3, <2>1, <2>2, <2>3 DEF ReplaceRows, TypeInv
  <1>10. CASE \E ok \in BOOLEAN : RetireApproved(o, ok) \/ RetirePromoted(o, ok)
    <2>1. PICK ok \in BOOLEAN : RetireApproved(o, ok) \/ RetirePromoted(o, ok)
      BY <1>10
    <2>2. task[o].at \in {"retire approved", "retire promoted"}
      BY <2>1 DEF RetireApproved, RetirePromoted
    <2>3. task[o].route \in Routes
      BY <2>2, TaskAt DEF TypeInv
    <2>4. /\ listed' \in {DeleteApprovedRow(task[o].route), DeletePromotedRow(task[o].route), listed}
          /\ rows' = rows
      BY <2>1 DEF RetireApproved, RetirePromoted, Retire
    <2>5. \E step : Goes(o, step, ok)
      BY <2>1 DEF RetireApproved, RetirePromoted, Retire
    <2> QED
      BY <1>3, <1>4, <2>3, <2>4, <2>5 DEF TypeInv
  <1>11. CASE \E r \in Handled, ok \in BOOLEAN :
                 \/ Approve(o, r, ok) \/ PromoteShadowRoute(o, r, ok) \/ PromoteToManagedSpec(o, r, ok)
                 \/ DeleteApproved(o, r, ok) \/ DeletePromoted(o, r, ok) \/ DeleteManaged(o, r, ok)
    <2>1. PICK r \in Routes, ok \in BOOLEAN :
                 \/ Approve(o, r, ok) \/ PromoteShadowRoute(o, r, ok) \/ PromoteToManagedSpec(o, r, ok)
                 \/ DeleteApproved(o, r, ok) \/ DeletePromoted(o, r, ok) \/ DeleteManaged(o, r, ok)
      BY <1>0, <1>11
    <2>2. Begin(o, ok)
      BY <2>1 DEF Approve, PromoteShadowRoute, PromoteToManagedSpec, DeleteApproved, DeletePromoted,
                  DeleteManaged, Delete
    <2>3. UNCHANGED listed \/ listed' \in {UpsertApprovedRow(r), DeleteApprovedRow(r), UpsertPromotedRow(r),
                                 DeletePromotedRow(r), UpsertManagedRow(r), DeleteManagedRow(r)}
      BY <2>1 DEF Approve, PromoteShadowRoute, PromoteToManagedSpec, DeleteApproved, DeletePromoted,
                  DeleteManaged, Delete
    <2> QED
      BY <1>2, <1>4, <2>2, <2>3 DEF TypeInv
  <1> QED
    BY <1>5, <1>6, <1>7, <1>8, <1>9, <1>10, <1>11 DEF Operate

LEMMA TasksTyped ==
    ASSUME TypeInv, NEW o \in Operators, Operate(o)
    PROVE  \A x \in Operators : TaskIs(task'[x], clock)
  <1>0. TasksFormed /\ TasksFormed'
    BY OthersTasks DEF TypeInv
  <1>1. ASSUME NEW x \in Operators, \E gone : task'[x] = Unsteady(task[x], gone)
        PROVE  TaskIs(task'[x], clock)
    BY <1>0, <1>1, UnsteadyTask DEF TasksFormed, TypeInv
  <1>2. \A x \in Operators \ {o} : TaskIs(task'[x], clock)
    BY <1>1, OthersTasks DEF TypeInv
  <1>3. ASSUME NEW t, Goto(o, t) PROVE task'[o] = t
    BY <1>0, <1>3 DEF Goto, TasksFormed
  <1>4. CASE Sync(o)
    <2>1. TaskIs(Reading(listed), clock)
      BY ReadingTask DEF TypeInv
    <2> QED
      BY <1>2, <1>3, <1>4, <2>1 DEF Sync
  <1>5. CASE \E r \in Handled, ok \in BOOLEAN :
                 PromoteShadowRoute(o, r, ok) \/ PromoteToManagedSpec(o, r, ok)
    <2>1. PICK r \in Routes : \/ Goto(o, [at |-> "retire approved", route |-> r])
                              \/ Goto(o, [at |-> "retire promoted", route |-> r]) \/ UNCHANGED task
      BY <1>5, DiscoveryAssumption DEF PromoteShadowRoute, PromoteToManagedSpec
    <2>2. /\ TaskIs([at |-> "retire approved", route |-> r], clock)
          /\ TaskIs([at |-> "retire promoted", route |-> r], clock)
      BY DEF TaskIs
    <2>3. TaskIs(task'[o], clock)
      BY <1>3, <2>1, <2>2 DEF TypeInv
    <2> QED
      BY <1>2, <2>3
  <1>6. CASE \E r \in Handled, ok \in BOOLEAN :
                 \/ Approve(o, r, ok) \/ DeleteApproved(o, r, ok)
                 \/ DeletePromoted(o, r, ok) \/ DeleteManaged(o, r, ok)
    <2>1. \E gone : task'[o] = Unsteady(task[o], gone)
      BY <1>6 DEF Approve, DeleteApproved, DeletePromoted, DeleteManaged, Delete
    <2> QED
      BY <1>1, <1>2, <2>1
  <1>7. CASE ClearMemory(o) \/ (\E ok \in BOOLEAN : ClearRows(o, ok) \/ ReplaceRows(o, ok))
    <2>1. Goto(o, Ready) \/ Goto(o, [at |-> "clear"])
      BY <1>7 DEF ClearMemory, ClearRows, ReplaceRows
    <2>2. TaskIs(task'[o], clock)
      BY <1>3, <2>1 DEF TaskIs
    <2> QED
      BY <1>2, <2>2
  <1>8. CASE ReadRoutes(o)
    <2>1. PICK items : items = [r \in Shadow \ task[o].hidden |-> routes[r]]
      OBVIOUS
    <2>2. task[o].at = "routes" /\ Formed(task[o]) /\ task'[o] = [task[o] EXCEPT !.at = "replace", !.items = items]
      BY <1>0, <1>3, <1>8, <2>1 DEF ReadRoutes, Goes, TasksFormed
    <2>3. IsTable(items, clock)
      <3>1. Shadow \ task[o].hidden \subseteq DOMAIN routes
        BY DEF Shadow
      <3> QED
        BY <2>1, <3>1 DEF TypeInv, IsTable
    <2>4. task[o].hidden \cup task[o].steady \subseteq Routes
      BY <2>2, TaskAt DEF TypeInv, Filtering
    <2>5. /\ task'[o].at = "replace" /\ task'[o].items = items
          /\ task'[o].hidden = task[o].hidden /\ task'[o].steady = task[o].steady
      BY <2>2 DEF Formed, Filtering, Fields
    <2>6. TaskIs(task'[o], clock)
      BY <2>3, <2>4, <2>5 DEF TaskIs, Filtering
    <2> QED
      BY <1>2, <2>6
  <1>9. CASE \E ok \in BOOLEAN : ReadListed(o, ok)
    <2>0. PICK stage, keys, next, ok :
              /\ Read(o, stage, keys, next, ok) /\ stage \in Stages /\ next \in {"promoted", "managed", "routes"}
              /\ keys \in {listed.approved, listed.promoted, listed.managed}
      BY <1>9 DEF ReadListed, Stages, ApprovedShadowRouteKeys, PromotedSpecRouteKeys, ManagedSpecRouteKeys
    <2>1. keys \subseteq Routes
      BY <2>0 DEF TypeInv, Stages
    <2>2. task[o].at \in Filtering /\ Formed(task[o])
      BY <1>0, <2>0 DEF Read, Goes, TasksFormed, Filtering
    <2>3. task[o].hidden \cup task[o].steady \subseteq Routes /\ IsTable(task[o].items, clock)
      BY <2>2, TaskAt DEF TypeInv
    <2>4. PICK h, s : h = (IF ok THEN task[o].hidden \cup keys ELSE task[o].hidden)
                      /\ s = (IF ok THEN task[o].steady ELSE task[o].steady \ keys)
      OBVIOUS
    <2>5. h \subseteq Routes /\ s \subseteq Routes
      BY <2>1, <2>3, <2>4
    <2>6. Goto(o, [task[o] EXCEPT !.at = next, !.hidden = h, !.steady = s])
      BY <2>0, <2>4 DEF Read
    <2>7. task'[o] = [task[o] EXCEPT !.at = next, !.hidden = h, !.steady = s]
      BY <1>3, <2>6
    <2>8. /\ task'[o].at = next /\ task'[o].items = task[o].items
          /\ task'[o].hidden = h /\ task'[o].steady = s
      BY <2>2, <2>7 DEF Formed, Fields
    <2>9. TaskIs(task'[o], clock)
      BY <2>0, <2>3, <2>5, <2>8 DEF TaskIs, Filtering, Stages
    <2> QED
      BY <1>2, <2>9
  <1>10. CASE \E ok \in BOOLEAN : RetireApproved(o, ok) \/ RetirePromoted(o, ok)
    <2>1. task'[o] = Reading(listed')
      BY <1>10 DEF RetireApproved, RetirePromoted, Retire
    <2>2. listed' \in [Stages -> SUBSET Routes]
      BY OperatingTyped
    <2>3. TaskIs(Reading(listed'), clock)
      BY <2>2, ReadingTask
    <2> QED
      BY <1>2, <2>1, <2>3
  <1> QED
    BY <1>4, <1>5, <1>6, <1>7, <1>8, <1>9, <1>10 DEF Operate

(* Every variable keeps its type: what is known, saved and about to be     *)
(* saved of a route, and a learned schema, whose counts of kinds add up to *)
(* the bodies that had the field.                                          *)
THEOREM TypeCorrect == Spec => []TypeOK
<1>1. Init => TypeInv
  <2> SUFFICES ASSUME Init PROVE TypeInv
    OBVIOUS
  <2>1. IsTable(rows, clock) /\ IsTable(routes, clock)
    BY DiscoveryAssumption DEF Init
  <2>2. TasksFormed /\ \A o \in Operators : TaskIs(task[o], clock)
    BY DEF Init, TasksFormed, TaskIs, Formed, Ready, Filtering, Stages
  <2>3. 0 \in 0 .. MaxFaults /\ 0 \in 0 .. MaxRestarts
    BY DiscoveryAssumption
  <2> QED
    BY <2>1, <2>2, <2>3, RequestsInit DEF Init, TypeInv, Nowhere
<1>2. TypeInv /\ [Next]_vars => TypeInv'
  <2> SUFFICES ASSUME TypeInv, [Next]_vars PROVE TypeInv'
    OBVIOUS
  <2>0. RequestsFormed' /\ clock \in Nat /\ clock' \in Nat /\ clock <= clock'
    BY RequestsStep DEF TypeInv, RequestsFormed
  <2>1. ASSUME NEW q \in Requests, Serve(q) PROVE TypeInv'
    <3>1. UNCHANGED <<rows, listed, task, edits, faults, restarts, undisturbed>>
      BY <2>1, ServingLeaves
    <3>2. TasksFormed' /\ IsTable(rows', clock') /\ \A o \in Operators : TaskIs(task'[o], clock')
      BY <2>0, <3>1, TableLater, TaskLater DEF TypeInv, TasksFormed
    <3> QED
      BY <2>0, <2>1, <3>1, <3>2, RoutesTyped, SchemasTyped DEF TypeInv
  <2>2. ASSUME NEW o \in Operators, Operate(o) PROVE TypeInv'
    <3>1. /\ UNCHANGED <<schemas, clock, restarts>>
          /\ UNCHANGED <<routes, announced>> \/ (routes' = Nowhere /\ announced' = [r \in Routes |-> 0])
      BY <2>2, OperatingLeaves DEF memory, ClearMemory
    <3>2. IsTable(routes', clock') /\ announced' \in [Routes -> Nat]
      BY <3>1, NowhereTable DEF TypeInv
    <3>3. TasksFormed'
      BY <2>2, OthersTasks DEF TypeInv
    <3> QED
      BY <2>0, <2>2, <3>1, <3>2, <3>3, OperatingTyped, TasksTyped DEF TypeInv
  <2>3. CASE Restart
    <3>1. /\ routes' = rows /\ schemas' = Nowhere /\ task' = [o \in Operators |-> Ready]
          /\ announced' = [r \in Routes |-> 0] /\ UNCHANGED <<rows, listed, clock, edits, faults>>
          /\ restarts' = restarts + 1 /\ restarts < MaxRestarts
          /\ undisturbed' = (undisturbed /\ \A o \in Operators : task[o] = Ready)
      BY <2>3 DEF Restart
    <3>2. TasksFormed' /\ \A o \in Operators : TaskIs(task'[o], clock')
      BY <3>1 DEF TasksFormed, TaskIs, Formed, Ready, Filtering, Stages
    <3>3. restarts' \in 0 .. MaxRestarts
      BY <3>1, DiscoveryAssumption DEF TypeInv
    <3>4. undisturbed' \in BOOLEAN
      BY <3>1 DEF TypeInv
    <3> QED
      BY <2>0, <3>1, <3>2, <3>3, <3>4 DEF TypeInv, Nowhere
  <2>4. CASE UNCHANGED vars
    BY <2>0, <2>4 DEF vars, TypeInv, TasksFormed
  <2> QED
    BY <2>1, <2>2, <2>3, <2>4 DEF Next
<1>3. TypeInv => TypeOK
  <2> SUFFICES ASSUME TypeInv PROVE TypeOK
    OBVIOUS
  <2>1. \A r \in DOMAIN schemas : IsProfile(schemas[r])
    BY ProfiledIs DEF TypeInv
  <2>2. \A o \in Operators : IsTask(task[o])
    BY DEF TypeInv, TaskIs, IsTask
  <2>3. \A q \in Requests : request[q] # Ready => request[q].call \in Calls
    BY CallIs DEF TypeInv
  <2> QED
    BY <2>1, <2>2, <2>3 DEF TypeInv, RequestsFormed, TypeOK
<1> QED
  BY <1>1, <1>2, <1>3, PTL DEF Spec
=============================================================================
