--------------------------- MODULE ReleaseProofs ----------------------------
(***************************************************************************)
(* Proofs about ReleaseChannel, for any set of threads and any channels.   *)
(***************************************************************************)
EXTENDS ReleaseChannel, TLAPS

(* What a promotion carries from step to step: the contract it has read    *)
(* was there, the guard it has passed was met, the row it will replace     *)
(* allows its target, and the row counted as fresh is the one it read.     *)
Carried(a) ==
    /\ At(a, "guard") /\ task[a].hasContract => since[a].contract
    /\ task[a].step \in {"current", "write"} /\ task[a].target = "exported" =>
           since[a].contract /\ since[a].approved
    /\ At(a, "write") => Transition(task[a].read, task[a].target)
    /\ since[a].fresh => At(a, "write") /\ channel = task[a].read

IInv == TypeOK /\ \A a \in Admins : Carried(a)

(* The history of a thread, one component at a time.                       *)
LEMMA WitnessOf ==
    ASSUME NEW a \in Admins, Witness
    PROVE  /\ since'[a].contract = (contract' \/ (~At(a, "idle") /\ since[a].contract))
           /\ since'[a].approved = (channel' = "approved" \/ (~At(a, "idle") /\ since[a].approved))
           /\ since'[a].fresh = (task'[a].step = "write" /\ channel' = task'[a].read
                                  /\ (At(a, "write") => since[a].fresh))
  BY DEF Witness

LEMMA WitnessTyped ==
    ASSUME Witness, TypeOK, contract' \in BOOLEAN
    PROVE  since' \in [Admins -> [contract : BOOLEAN, approved : BOOLEAN, fresh : BOOLEAN]]
  BY DEF Witness, TypeOK, At

(* The initial states satisfy the invariant: no promotion has begun.       *)
LEMMA InitInv == Init => IInv
  <1> SUFFICES ASSUME Init PROVE IInv
    OBVIOUS
  <1>1. TypeOK
    BY ReleaseAssumption DEF Init, TypeOK, Idle, Task, Steps
  <1>2. ASSUME NEW a \in Admins PROVE Carried(a)
    BY <1>2 DEF Init, Idle, Carried, At
  <1> QED
    BY <1>1, <1>2 DEF IInv

(* A thread that a step leaves where it is carries what it did.            *)
LEMMA CarriedStays ==
    ASSUME NEW a \in Admins, Carried(a), TypeOK, Witness, task'[a] = task[a]
    PROVE  Carried(a)'
  BY WitnessOf DEF Carried, At

(* An idle thread, and one that has just begun, carry nothing.             *)
LEMMA CarriedNothing ==
    ASSUME NEW a \in Admins, Witness, task'[a].step \in {"idle", "contracts"}
    PROVE  Carried(a)'
  BY WitnessOf DEF Carried, At

LEMMA StepInv == IInv /\ [Next]_vars => IInv'
  <1> SUFFICES ASSUME IInv, [Next]_vars PROVE IInv'
    OBVIOUS
  <1> USE ReleaseAssumption
  <1>1. ASSUME Witness, task' \in [Admins -> Task], contract' \in BOOLEAN,
               channel' \in Channels \cup {NoRow},
               \A a \in Admins : task'[a] = task[a] \/ Carried(a)'
        PROVE  IInv'
    <2>1. TypeOK'
      BY <1>1, WitnessTyped DEF TypeOK, IInv
    <2>2. ASSUME NEW a \in Admins PROVE Carried(a)'
      BY <1>1, <2>2, CarriedStays DEF IInv
    <2> QED
      BY <2>1, <2>2 DEF IInv
  <1>2. Idle \in Task
    BY DEF Idle, Task, Steps
  <1>3. ASSUME NEW a \in Admins, NEW t \in Task, Goto(a, t), Witness,
               contract' \in BOOLEAN, channel' \in Channels \cup {NoRow},
               Carried(a)'
        PROVE  IInv'
    <2>1. task' \in [Admins -> Task]
      BY <1>3 DEF Goto, IInv, TypeOK
    <2>2. \A b \in Admins : task'[b] = task[b] \/ Carried(b)'
      BY <1>3 DEF Goto, IInv, TypeOK
    <2> QED
      BY <1>1, <1>3, <2>1, <2>2
  <1>4. ASSUME NEW a \in Admins, NEW t \in Task, Goto(a, t) PROVE task'[a] = t
    BY <1>4 DEF Goto, IInv, TypeOK
  <1>5. CASE Witness /\ \E a \in Admins : Promotion(a)
    <2> PICK a \in Admins : Promotion(a)
      BY <1>5
    <2> USE <1>5
    <2>0. /\ task[a] \in Task /\ contract \in BOOLEAN
          /\ channel \in Channels \cup {NoRow} /\ Carried(a)
      BY DEF IInv, TypeOK
    <2>1. ASSUME NEW target \in Channels, Begin(a, target) PROVE IInv'
      <3> DEFINE t == [Idle EXCEPT !.step = "contracts", !.target = target]
      <3>1. t \in Task /\ t.step = "contracts"
        BY DEF Idle, Task, Steps
      <3>2. Goto(a, t) /\ UNCHANGED rows
        BY <2>1 DEF Begin
      <3>3. Carried(a)'
        BY <1>4, <3>1, <3>2, CarriedNothing
      <3> QED
        BY <1>3, <2>0, <3>1, <3>2, <3>3 DEF rows
    <2>2. ASSUME NEW ok \in Outcomes, ReadContracts(a, ok) PROVE IInv'
      <3> DEFINE t == [task[a] EXCEPT !.step = "guard", !.hasContract = Contracts(ok)]
      <3>1. /\ t \in Task /\ t.step = "guard" /\ t.hasContract = (ok /\ contract)
        BY <2>0 DEF Task, Steps, Contracts
      <3>2. Goto(a, t) /\ UNCHANGED rows
        BY <2>2 DEF ReadContracts
      <3>3. Carried(a)'
        BY <1>4, <3>1, <3>2, WitnessOf DEF Carried, At, rows
      <3> QED
        BY <1>3, <2>0, <3>1, <3>2, <3>3 DEF rows
    <2>3. ASSUME NEW ok \in Outcomes, ReadGuard(a, ok) PROVE IInv'
      <3>0. UNCHANGED rows /\ At(a, "guard")
        BY <2>3 DEF ReadGuard
      <3>1. CASE Allowed(task[a], Row(ok))
        <4> DEFINE t == [task[a] EXCEPT !.step = "current"]
        <4>1. t \in Task /\ t.step = "current" /\ t.target = task[a].target
          BY <2>0 DEF Task, Steps
        <4>2. Goto(a, t)
          BY <2>3, <3>1 DEF ReadGuard
        <4>3. t.target = "exported" => task[a].hasContract /\ channel = "approved"
          BY <3>1, <4>1 DEF Allowed, Row
        <4>4. Carried(a)'
          BY <1>4, <2>0, <3>0, <4>1, <4>2, <4>3, WitnessOf DEF Carried, At, rows
        <4> QED
          BY <1>3, <2>0, <3>0, <4>1, <4>2, <4>4 DEF rows
      <3>2. CASE ~Allowed(task[a], Row(ok))
        <4>1. Goto(a, Idle)
          BY <2>3, <3>2 DEF ReadGuard
        <4>2. Carried(a)'
          BY <1>2, <1>4, <4>1, CarriedNothing DEF Idle
        <4> QED
          BY <1>2, <1>3, <2>0, <3>0, <4>1, <4>2 DEF rows
      <3> QED
        BY <3>1, <3>2
    <2>4. ASSUME NEW ok \in Outcomes, ReadCurrent(a, ok) PROVE IInv'
      <3>0. UNCHANGED rows /\ At(a, "current")
        BY <2>4 DEF ReadCurrent
      <3>1. CASE Transition(Row(ok), task[a].target)
        <4> DEFINE t == [task[a] EXCEPT !.step = "write", !.read = Row(ok)]
        <4>1. /\ t \in Task /\ t.step = "write" /\ t.target = task[a].target /\ t.read = Row(ok)
          BY <2>0 DEF Task, Steps, Row
        <4>2. Goto(a, t)
          BY <2>4, <3>1 DEF ReadCurrent
        <4>3. Carried(a)'
          BY <1>4, <2>0, <3>0, <3>1, <4>1, <4>2, WitnessOf DEF Carried, At, rows
        <4> QED
          BY <1>3, <2>0, <3>0, <4>1, <4>2, <4>3 DEF rows
      <3>2. CASE ~Transition(Row(ok), task[a].target)
        <4>1. Goto(a, Idle)
          BY <2>4, <3>2 DEF ReadCurrent
        <4>2. Carried(a)'
          BY <1>2, <1>4, <4>1, CarriedNothing DEF Idle
        <4> QED
          BY <1>2, <1>3, <2>0, <3>0, <4>1, <4>2 DEF rows
      <3> QED
        BY <3>1, <3>2
    <2>5. ASSUME NEW ok \in Outcomes, Write(a, ok) PROVE IInv'
      <3>1. Goto(a, Idle) /\ UNCHANGED contract
        BY <2>5 DEF Write
      <3>2. channel' \in Channels \cup {NoRow}
        BY <2>0, <2>5 DEF Write, Task
      <3>3. Carried(a)'
        BY <1>2, <1>4, <3>1, CarriedNothing DEF Idle
      <3> QED
        BY <1>2, <1>3, <2>0, <3>1, <3>2, <3>3
    <2> QED
      BY <2>1, <2>2, <2>3, <2>4, <2>5 DEF Promotion
  <1>6. CASE Witness /\ Override
    <2>1. UNCHANGED task
      BY <1>6 DEF Override, SetChannel, DeleteChannel, SetContract
    <2>2. contract' \in BOOLEAN /\ channel' \in Channels \cup {NoRow}
      BY <1>6 DEF Override, SetChannel, DeleteChannel, SetContract, IInv, TypeOK
    <2>3. task' \in [Admins -> Task]
      BY <2>1 DEF IInv, TypeOK
    <2> QED
      BY <1>1, <1>6, <2>1, <2>2, <2>3
  <1>7. CASE Witness /\ Restart
    <2>1. task' = [a \in Admins |-> Idle] /\ UNCHANGED rows
      BY <1>7 DEF Restart
    <2>2. \A a \in Admins : task'[a].step = "idle"
      BY <2>1 DEF Idle
    <2>3. \A a \in Admins : Carried(a)'
      BY <1>7, <2>2, CarriedNothing
    <2>4. task' \in [Admins -> Task]
      BY <1>2, <2>1
    <2>5. contract' \in BOOLEAN /\ channel' \in Channels \cup {NoRow}
      BY <2>1 DEF rows, IInv, TypeOK
    <2> QED
      BY <1>1, <1>7, <2>3, <2>4, <2>5
  <1>8. CASE UNCHANGED vars
    BY <1>8 DEF IInv, TypeOK, Carried, At, vars, Transition
  <1> QED
    BY <1>5, <1>6, <1>7, <1>8 DEF Next

(* Every state has the type: rows, tasks and history stay in their sets.   *)
THEOREM TypeCorrect == Spec => []TypeOK
  <1>1. IInv => TypeOK
    BY DEF IInv
  <1> QED
    BY InitInv, StepInv, <1>1, PTL DEF Spec

(* For any number of promotions, overrides, failed reads and restarts, no  *)
(* promotion comes to write an export that never had its contract and its  *)
(* approval.                                                               *)
THEOREM ExportVouchedHolds == Spec => []ExportVouched
  <1>1. IInv => ExportVouched
    BY DEF IInv, Carried, ExportVouched, At
  <1> QED
    BY InitInv, StepInv, <1>1, PTL DEF Spec

(* A promotion whose row nobody has touched since it read it moves the     *)
(* route forward only.                                                     *)
THEOREM UndisturbedAdvancesHolds == Spec => []UndisturbedAdvances
  <1>1. IInv => UndisturbedAdvances
    BY DEF IInv, Carried, UndisturbedAdvances, Transition, Advances, Edges
  <1> QED
    BY InitInv, StepInv, <1>1, PTL DEF Spec
=============================================================================
