-------------------------- MODULE TelemetryProofs ---------------------------
(***************************************************************************)
(* Proofs about TelemetryDelivery and the Startup around it, for any       *)
(* events, channel, retries, restarts and settings.                        *)
(***************************************************************************)
EXTENDS Startup, FiniteSetTheorems, SequenceTheorems, TLAPS

(* The worker has an event in hand exactly while it delivers one.          *)
InHand == /\ pc = "recv" <=> current = Nobody
          /\ pc = "recv" => attempt = 0

(* Those that wait in the channel are taken in, are not in hand, and are   *)
(* there once.                                                             *)
Line ==
    /\ current # Nobody => verdict[current] = "waiting"
    /\ \A i \in 1 .. Len(queue) : verdict[queue[i]] = "waiting" /\ queue[i] # current
    /\ \A i, j \in 1 .. Len(queue) : queue[i] = queue[j] => i = j

TurnedAway == \A e \in dropping : verdict[e] = "dropped"

Inv == TypeOK /\ InHand /\ Line /\ TurnedAway

(* What ends the delivery of current: the verdict v, and whatever becomes  *)
(* of its copies and of the counters.                                      *)
Settled(v) ==
    /\ pc = "post" /\ Done(v)
    /\ UNCHANGED <<queue, dropping, restarts>>

LEMMA Posting ==
    ASSUME PostSent \/ PostPermanent \/ PostRetryable
    PROVE  \/ Settled("sent") \/ Settled("failed")
           \/ UNCHANGED <<queue, dropping, current, verdict, restarts>> /\ pc' = "backoff"
  BY DEF PostSent, PostPermanent, PostRetryable, Settled

LEMMA SettledKeeps ==
    ASSUME Inv, NEW v \in {"sent", "failed"}, Settled(v)
    PROVE  /\ InHand' /\ Line' /\ TurnedAway'
           /\ current \in Events /\ verdict[current] = "waiting"
           /\ verdict' = [verdict EXCEPT ![current] = v]
  <1>1. /\ current \in Events /\ verdict[current] = "waiting" /\ verdict' = [verdict EXCEPT ![current] = v]
        /\ current' = Nobody /\ pc' = "recv" /\ attempt' = 0 /\ UNCHANGED <<queue, dropping>>
    BY DEF Inv, InHand, Line, Settled, Done, TypeOK
  <1>2. TurnedAway'
    BY <1>1 DEF Inv, TurnedAway, TypeOK, Verdicts
  <1>3. \A i \in 1 .. Len(queue) : queue[i] \in Events
    BY ElementOfSeq DEF Inv, TypeOK
  <1>4. Line'
    BY <1>1, <1>3, TelemetryAssumption DEF Inv, Line, TypeOK
  <1> QED
    BY <1>1, <1>2, <1>4 DEF InHand

LEMMA EnqueueKeeps ==
    ASSUME Inv, NEW e \in Events, Enqueue(e)
    PROVE  Inv'
  <1>1. verdict[e] = "new" /\ UNCHANGED <<worker, counters, received, restarts>> /\ e # Nobody
    BY TelemetryAssumption DEF Enqueue
  <1>2. CASE HasRoom
    <2>1. queue' = Append(queue, e) /\ verdict' = [verdict EXCEPT ![e] = "waiting"] /\ dropping' = dropping
      BY <1>2 DEF Enqueue
    <2>2. /\ Append(queue, e) \in Seq(Events) /\ Len(Append(queue, e)) = Len(queue) + 1
          /\ \A i \in 1 .. Len(queue) : Append(queue, e)[i] = queue[i] /\ queue[i] \in Events
          /\ Append(queue, e)[Len(queue) + 1] = e /\ Len(queue) \in Nat
      BY AppendProperties, ElementOfSeq, LenProperties DEF Inv, TypeOK
    <2>3. TypeOK'
      BY <1>1, <2>1, <2>2 DEF Inv, TypeOK, worker, counters, Verdicts
    <2>4. Line'
      <3>1. current # e
        BY <1>1 DEF Inv, Line
      <3>2. \A i \in 1 .. Len(queue) : queue[i] # e
        BY <1>1 DEF Inv, Line
      <3>3. \A i \in 1 .. Len(queue'), j \in 1 .. Len(queue') : queue'[i] = queue'[j] => i = j
        BY <2>1, <2>2, <3>2 DEF Inv, Line
      <3>4. \A i \in 1 .. Len(queue') : verdict'[queue'[i]] = "waiting" /\ queue'[i] # current'
        BY <1>1, <2>1, <2>2, <3>1 DEF Inv, Line, TypeOK, worker
      <3>5. current' # Nobody => verdict'[current'] = "waiting"
        BY <1>1, <2>1, <3>1 DEF Inv, Line, TypeOK, worker
      <3> QED
        BY <3>3, <3>4, <3>5 DEF Line
    <2>5. TurnedAway'
      BY <1>1, <2>1 DEF Inv, TurnedAway, TypeOK
    <2> QED
      BY <1>1, <2>3, <2>4, <2>5 DEF Inv, InHand, worker
  <1>3. CASE ~HasRoom
    <2>1. dropping' = dropping \cup {e} /\ verdict' = [verdict EXCEPT ![e] = "dropped"] /\ queue' = queue
      BY <1>3 DEF Enqueue
    <2>2. TypeOK' /\ TurnedAway' /\ InHand'
      BY <1>1, <2>1 DEF Inv, TypeOK, TurnedAway, InHand, worker, counters, Verdicts
    <2>3. \A i \in 1 .. Len(queue) : queue[i] \in Events
      BY ElementOfSeq DEF Inv, TypeOK
    <2>4. Line'
      BY <1>1, <2>1, <2>3 DEF Inv, Line, TypeOK, worker
    <2> QED
      BY <2>2, <2>4 DEF Inv
  <1> QED
    BY <1>2, <1>3

LEMMA ReceiveKeeps ==
    ASSUME Inv, Receive
    PROVE  Inv' /\ verdict[Head(queue)] = "waiting" /\ current = Nobody /\ Head(queue) \in Events
  <1>1. /\ queue # <<>> /\ current' = Head(queue) /\ queue' = Tail(queue) /\ pc = "recv"
        /\ pc' = "post" /\ attempt' = 0 /\ UNCHANGED <<dropping, counters, received, restarts, verdict>>
    BY DEF Receive
  <1>2. /\ Head(queue) = queue[1] /\ Head(queue) \in Events /\ Tail(queue) \in Seq(Events)
        /\ Len(Tail(queue)) = Len(queue) - 1 /\ Len(queue) \in Nat \ {0}
        /\ \A i \in 1 .. Len(Tail(queue)) : Tail(queue)[i] = queue[i + 1]
    BY <1>1, HeadTailProperties, EmptySeq DEF Inv, TypeOK
  <1>3. TypeOK' /\ InHand' /\ TurnedAway'
    BY <1>1, <1>2, TelemetryAssumption DEF Inv, TypeOK, counters, InHand, TurnedAway
  <1>4. Line'
    <2>1. \A i \in 1 .. Len(queue') : i + 1 \in 1 .. Len(queue) /\ queue'[i] = queue[i + 1]
      BY <1>1, <1>2
    <2>2. 1 \in 1 .. Len(queue) /\ current' = queue[1]
      BY <1>1, <1>2
    <2>3. \A i \in 1 .. Len(queue') : verdict'[queue'[i]] = "waiting" /\ queue'[i] # current'
      BY <1>1, <2>1, <2>2 DEF Inv, Line
    <2>4. \A i, j \in 1 .. Len(queue') : queue'[i] = queue'[j] => i = j
      BY <1>2, <2>1 DEF Inv, Line
    <2> QED
      BY <1>1, <2>2, <2>3, <2>4 DEF Inv, Line
  <1> QED
    BY <1>1, <1>2, <1>3, <1>4 DEF Inv, InHand, Line

LEMMA PostTyped ==
    ASSUME Inv, PostSent \/ PostPermanent \/ PostRetryable
    PROVE  TypeOK'
  <1>1. current \in Events /\ MaxRetries \in Nat /\ Nobody \notin Events
    BY TelemetryAssumption DEF Inv, InHand, TypeOK, PostSent, PostPermanent, PostRetryable
  <1>2. ASSUME NEW v \in {"sent", "failed"}, Done(v)
        PROVE  /\ pc' = "recv" /\ current' = Nobody /\ attempt' = 0
               /\ verdict' \in [Events -> Verdicts]
    BY <1>2 DEF Done, Inv, TypeOK, Verdicts
  <1>3. Take => received' \in [Events -> Nat]
    BY <1>1 DEF Take, Inv, TypeOK
  <1>4. CASE PostSent
    BY <1>1, <1>2, <1>3, <1>4 DEF PostSent, Inv, TypeOK
  <1>5. CASE PostPermanent
    BY <1>1, <1>2, <1>5 DEF PostPermanent, Inv, TypeOK
  <1>6. CASE PostRetryable
    <2>1. received' \in [Events -> Nat]
      BY <1>3, <1>6 DEF PostRetryable, Inv, TypeOK
    <2>2. CASE MayRetry
      BY <1>1, <1>6, <2>1, <2>2 DEF PostRetryable, MayRetry, Inv, TypeOK
    <2>3. CASE ~MayRetry
      BY <1>1, <1>2, <1>6, <2>1, <2>3 DEF PostRetryable, Inv, TypeOK
    <2> QED
      BY <2>2, <2>3
  <1> QED
    BY <1>4, <1>5, <1>6

LEMMA RestartKeeps ==
    ASSUME Inv, Restart
    PROVE  Inv'
  <1>1. /\ queue' = <<>> /\ dropping' = {} /\ current' = Nobody /\ pc' = "recv" /\ attempt' = 0
        /\ verdict' \in [Events -> Verdicts]
    BY DEF Restart, Inv, TypeOK, Verdicts
  <1>2. TypeOK'
    BY <1>1, TelemetryAssumption DEF Restart, Inv, TypeOK
  <1> QED
    BY <1>1, <1>2 DEF Inv, InHand, Line, TurnedAway

LEMMA Invariant == Spec => []Inv
  <1>1. Init => Inv
    BY TelemetryAssumption, EmptySeq DEF Init, Inv, TypeOK, InHand, Line, TurnedAway, Verdicts
  <1>2. Inv /\ [Next]_vars => Inv'
    <2> SUFFICES ASSUME Inv, [Next]_vars PROVE Inv'
      OBVIOUS
    <2>1. CASE \E e \in Events : Enqueue(e)
      BY <2>1, EnqueueKeeps
    <2>2. CASE \E e \in Events : CountDrop(e)
      BY <2>2 DEF CountDrop, worker, Inv, TypeOK, InHand, Line, TurnedAway
    <2>3. CASE Receive
      BY <2>3, ReceiveKeeps
    <2>4. CASE PostSent \/ PostPermanent \/ PostRetryable
      <3>1. CASE UNCHANGED <<queue, dropping, current, verdict, restarts>> /\ pc' = "backoff"
        <4>1. pc = "post"
          BY <2>4 DEF PostSent, PostPermanent, PostRetryable
        <4> QED
          BY <2>4, <3>1, <4>1, PostTyped DEF Inv, InHand, Line, TurnedAway
      <3> QED
        BY <2>4, <3>1, Posting, PostTyped, SettledKeeps DEF Inv
    <2>5. CASE Backoff
      BY <2>5 DEF Backoff, counters, Inv, TypeOK, InHand, Line, TurnedAway
    <2>6. CASE Restart
      BY <2>6, RestartKeeps
    <2>7. CASE UNCHANGED vars
      BY <2>7 DEF vars, worker, counters, Inv, TypeOK, InHand, Line, TurnedAway
    <2> QED
      BY <2>1, <2>2, <2>3, <2>4, <2>5, <2>6, <2>7 DEF Next, WorkerStep
  <1> QED
    BY <1>1, <1>2, PTL DEF Spec

(* The variables of the sender have their types, whatever the control      *)
(* plane answers and however often the process starts again.               *)
THEOREM TypeCorrect == Spec => []TypeOK
  BY Invariant, PTL DEF Inv
-----------------------------------------------------------------------------
(* Copies at the control plane: an event still in the channel has not been *)
(* posted, and the one in hand once for each attempt that failed.          *)
Copies ==
    /\ \A e \in Events :
         /\ verdict[e] \in {"new", "dropped"} => received[e] = 0
         /\ verdict[e] = "waiting" /\ e # current => received[e] = 0
         /\ verdict[e] = "sent" => received[e] >= 1
         /\ received[e] <= MaxRetries + 1
    /\ current # Nobody => received[current] <= attempt

LEMMA PostCopies ==
    ASSUME Inv, Copies, PostSent \/ PostPermanent \/ PostRetryable
    PROVE  Copies'
  <1>1. /\ current \in Events /\ current # Nobody /\ MaxRetries \in Nat /\ Nobody \notin Events
        /\ attempt \in 0 .. MaxRetries /\ received \in [Events -> Nat] /\ verdict \in [Events -> Verdicts]
        /\ verdict[current] = "waiting"
    BY TelemetryAssumption DEF Inv, InHand, Line, TypeOK, PostSent, PostPermanent, PostRetryable
  <1>2. /\ received' \in [Events -> Nat]
        /\ \A e \in Events \ {current} : received'[e] = received[e]
        /\ received'[current] \in received[current] .. received[current] + 1
    BY <1>1 DEF PostSent, PostPermanent, PostRetryable, Take
  <1>3. ASSUME NEW v \in {"sent", "failed"}, Done(v), v = "sent" => Take
        PROVE  Copies'
    <2>1. /\ \A e \in Events \ {current} : verdict'[e] = verdict[e]
          /\ verdict'[current] = v /\ current' = Nobody
      BY <1>1, <1>3 DEF Done
    <2>2. v = "sent" => received'[current] >= 1
      BY <1>1, <1>3 DEF Take
    <2>3. received'[current] <= MaxRetries + 1
      BY <1>1, <1>2 DEF Copies
    <2> QED
      BY <1>1, <1>2, <2>1, <2>2, <2>3 DEF Copies
  <1>4. CASE PostSent \/ PostPermanent
    BY <1>3, <1>4 DEF PostSent, PostPermanent
  <1>5. CASE PostRetryable /\ ~MayRetry
    BY <1>3, <1>5 DEF PostRetryable
  <1>6. CASE PostRetryable /\ MayRetry
    <2>1. attempt' = attempt + 1 /\ UNCHANGED <<current, verdict>> /\ attempt + 1 <= MaxRetries
      BY <1>6 DEF PostRetryable, MayRetry
    <2>2. received'[current] <= attempt + 1
      BY <1>1, <1>2 DEF Copies
    <2> QED
      BY <1>1, <1>2, <2>1, <2>2 DEF Copies
  <1> QED
    BY <1>4, <1>5, <1>6

LEMMA CopiesInvariant == Spec => []Copies
  <1>1. Init => Copies
    BY TelemetryAssumption DEF Init, Copies
  <1>2. Inv /\ Copies /\ [Next]_vars => Copies'
    <2> SUFFICES ASSUME Inv, Copies, [Next]_vars PROVE Copies'
      OBVIOUS
    <2>1. CASE \E e \in Events : Enqueue(e)
      <3>1. PICK e \in Events : Enqueue(e)
        BY <2>1
      <3>2. /\ verdict[e] = "new" /\ UNCHANGED <<received, current, attempt>>
            /\ \E v \in {"waiting", "dropped"} : verdict' = [verdict EXCEPT ![e] = v]
        BY <3>1 DEF Enqueue, worker
      <3> QED
        BY <3>2 DEF Inv, TypeOK, Copies
    <2>2. CASE \E e \in Events : CountDrop(e)
      BY <2>2 DEF CountDrop, worker, Copies
    <2>3. CASE Receive
      <3>1. /\ verdict[Head(queue)] = "waiting" /\ current = Nobody /\ Head(queue) \in Events
            /\ current' = Head(queue) /\ attempt' = 0 /\ UNCHANGED <<received, verdict>>
        BY <2>3, ReceiveKeeps DEF Receive
      <3> QED
        BY <3>1, TelemetryAssumption DEF Copies
    <2>4. CASE PostSent \/ PostPermanent \/ PostRetryable
      BY <2>4, PostCopies
    <2>5. CASE Backoff
      BY <2>5 DEF Backoff, Copies
    <2>6. CASE Restart
      BY <2>6, TelemetryAssumption DEF Restart, Copies, Inv, TypeOK, Verdicts
    <2>7. CASE UNCHANGED vars
      BY <2>7 DEF vars, worker, Copies
    <2> QED
      BY <2>1, <2>2, <2>3, <2>4, <2>5, <2>6, <2>7 DEF Next, WorkerStep
  <1> QED
    BY <1>1, <1>2, Invariant, PTL DEF Spec

(* However often a post times out after the control plane took the event,  *)
(* it holds no more copies of it than the worker may make attempts, has    *)
(* one of every event counted as sent, and none of an event turned away.   *)
THEOREM DuplicatesBoundedHolds == Spec => []DuplicatesBounded
  <1>1. Copies => DuplicatesBounded
    BY DEF Copies, DuplicatesBounded
  <1> QED
    BY <1>1, CopiesInvariant, PTL
-----------------------------------------------------------------------------
(* The counts are of finite sets, for events come one at a time.           *)
Counted ==
    restarts = 0 =>
        /\ IsFiniteSet(dropping)
        /\ \A v \in Verdicts \ {"new", "lost"} : IsFiniteSet(With(v))

(* One event gets a new verdict.                                           *)
LEMMA Moved ==
    ASSUME Inv, NEW e \in Events, NEW old, NEW v, old = verdict[e], v # old,
           verdict' = [verdict EXCEPT ![e] = v]
    PROVE  /\ With(v)' = With(v) \cup {e} /\ e \notin With(v)
           /\ With(old)' = With(old) \ {e} /\ e \in With(old)
           /\ \A u \in Verdicts : u # v /\ u # old => With(u)' = With(u)
  <1>1. verdict'[e] = v /\ \A x \in Events \ {e} : verdict'[x] = verdict[x]
    BY DEF Inv, TypeOK
  <1> QED
    BY <1>1 DEF With

LEMMA Recounted ==
    ASSUME Inv, restarts = 0, Counted, NEW e \in Events, NEW old \in {"new", "waiting"},
           NEW v \in {"waiting", "dropped", "sent", "failed"},
           old = verdict[e], v # old, verdict' = [verdict EXCEPT ![e] = v]
    PROVE  /\ \A u \in Verdicts \ {"new", "lost"} : IsFiniteSet(With(u)')
           /\ Cardinality(With(v)') = Cardinality(With(v)) + 1
           /\ old = "waiting" => Cardinality(With("waiting")') = Cardinality(With("waiting")) - 1
           /\ \A u \in Verdicts : u # v /\ u # old => With(u)' = With(u)
  <1>1. /\ With(v)' = With(v) \cup {e} /\ e \notin With(v)
        /\ With(old)' = With(old) \ {e} /\ e \in With(old)
        /\ \A u \in Verdicts : u # v /\ u # old => With(u)' = With(u)
    BY Moved
  <1>2. \A u \in Verdicts \ {"new", "lost"} : IsFiniteSet(With(u))
    BY DEF Counted
  <1>3. v \in Verdicts \ {"new", "lost"} /\ "waiting" \in Verdicts \ {"new", "lost"}
    BY DEF Verdicts
  <1>4. IsFiniteSet(With(v)') /\ Cardinality(With(v)') = Cardinality(With(v)) + 1
    BY <1>1, <1>2, <1>3, FS_AddElement
  <1>5. old = "waiting" =>
            /\ IsFiniteSet(With("waiting")')
            /\ Cardinality(With("waiting")') = Cardinality(With("waiting")) - 1
    BY <1>1, <1>2, <1>3, FS_RemoveElement
  <1> QED
    BY <1>1, <1>2, <1>4, <1>5

Accounts == CountersAccount /\ Counted

LEMMA EnqueueAccounts ==
    ASSUME Inv, Accounts, restarts = 0, NEW e \in Events, Enqueue(e)
    PROVE  Accounts'
  <1>1. /\ verdict[e] = "new" /\ UNCHANGED <<current, attempt, sent, failed, dropped, retried, restarts>>
        /\ "waiting" # "dropped"
    BY DEF Enqueue, worker, counters
  <1>2. CASE HasRoom
    <2>1. queue' = Append(queue, e) /\ verdict' = [verdict EXCEPT ![e] = "waiting"] /\ dropping' = dropping
      BY <1>2 DEF Enqueue
    <2>2. Len(queue') = Len(queue) + 1 /\ Len(queue) \in Nat
      BY <2>1, AppendProperties, LenProperties DEF Inv, TypeOK
    <2>3. /\ \A u \in Verdicts \ {"new", "lost"} : IsFiniteSet(With(u)')
          /\ Cardinality(With("waiting")') = Cardinality(With("waiting")) + 1
          /\ \A u \in Verdicts : u # "waiting" /\ u # "new" => With(u)' = With(u)
      BY <1>1, <2>1, Recounted DEF Accounts
    <2>4. With("sent")' = With("sent") /\ With("failed")' = With("failed") /\ With("dropped")' = With("dropped")
      BY <2>3 DEF Verdicts
    <2> QED
      BY <1>1, <2>1, <2>2, <2>3, <2>4 DEF Accounts, CountersAccount, Counted
  <1>3. CASE ~HasRoom
    <2>1. dropping' = dropping \cup {e} /\ verdict' = [verdict EXCEPT ![e] = "dropped"] /\ queue' = queue
      BY <1>3 DEF Enqueue
    <2>2. e \notin dropping
      BY <1>1 DEF Inv, TurnedAway
    <2>3. IsFiniteSet(dropping') /\ Cardinality(dropping') = Cardinality(dropping) + 1
      BY <2>1, <2>2, FS_AddElement DEF Accounts, Counted
    <2>4. /\ \A u \in Verdicts \ {"new", "lost"} : IsFiniteSet(With(u)')
          /\ Cardinality(With("dropped")') = Cardinality(With("dropped")) + 1
          /\ \A u \in Verdicts : u # "dropped" /\ u # "new" => With(u)' = With(u)
      BY <1>1, <2>1, Recounted DEF Accounts
    <2>5. With("sent")' = With("sent") /\ With("failed")' = With("failed") /\ With("waiting")' = With("waiting")
      BY <2>4 DEF Verdicts
    <2>6. Cardinality(dropping) \in Nat /\ dropped \in Nat /\ Cardinality(With("dropped")) \in Nat
      <3>1. IsFiniteSet(With("dropped"))
        BY DEF Accounts, Counted, Verdicts
      <3> QED
        BY <3>1, FS_CardinalityType DEF Accounts, Counted, Inv, TypeOK
    <2> QED
      BY <1>1, <2>1, <2>3, <2>4, <2>5, <2>6 DEF Accounts, CountersAccount, Counted
  <1> QED
    BY <1>2, <1>3

LEMMA CountDropAccounts ==
    ASSUME Inv, Accounts, restarts = 0, NEW e \in Events, CountDrop(e)
    PROVE  Accounts'
  <1>1. /\ e \in dropping /\ dropping' = dropping \ {e} /\ dropped' = dropped + 1
        /\ UNCHANGED <<queue, current, attempt, sent, failed, retried, restarts, verdict>>
    BY DEF CountDrop, worker
  <1>2. /\ IsFiniteSet(dropping') /\ Cardinality(dropping') = Cardinality(dropping) - 1
        /\ Cardinality(dropping) \in Nat /\ dropped \in Nat
    BY <1>1, FS_RemoveElement, FS_CardinalityType DEF Accounts, Counted, Inv, TypeOK
  <1>3. \A v : With(v)' = With(v)
    BY <1>1 DEF With
  <1> QED
    BY <1>1, <1>2, <1>3 DEF Accounts, CountersAccount, Counted

(* An event that is settled leaves those that wait, and its verdict is     *)
(* counted; retries stay within the budget of the settled ones.            *)
LEMMA PostAccounts ==
    ASSUME Inv, Accounts, restarts = 0, PostSent \/ PostPermanent \/ PostRetryable
    PROVE  Accounts'
  <1>1. /\ current # Nobody /\ current \in Events /\ MaxRetries \in Nat /\ attempt \in 0 .. MaxRetries
        /\ sent \in Nat /\ failed \in Nat /\ retried \in Nat /\ Len(queue) \in Nat
        /\ UNCHANGED <<queue, dropping, dropped, restarts>>
    BY TelemetryAssumption, LenProperties
       DEF Inv, InHand, TypeOK, PostSent, PostPermanent, PostRetryable
  <1>2. MaxRetries * (sent + 1 + failed) = MaxRetries * (sent + failed) + MaxRetries
    <2>1. \A m, n \in Nat : m * (n + 1) = m * n + m
      OBVIOUS
    <2> QED
      BY <1>1, <2>1
  <1>3. ASSUME NEW v \in {"sent", "failed"}, Settled(v), retried' = retried,
               sent' = IF v = "sent" THEN sent + 1 ELSE sent,
               failed' = IF v = "failed" THEN failed + 1 ELSE failed
        PROVE  Accounts'
    <2>1. /\ verdict[current] = "waiting" /\ verdict' = [verdict EXCEPT ![current] = v]
          /\ current' = Nobody /\ attempt' = 0
      BY <1>3, SettledKeeps DEF Settled, Done
    <2>2. /\ \A u \in Verdicts \ {"new", "lost"} : IsFiniteSet(With(u)')
          /\ Cardinality(With(v)') = Cardinality(With(v)) + 1
          /\ Cardinality(With("waiting")') = Cardinality(With("waiting")) - 1
          /\ \A u \in Verdicts : u # v /\ u # "waiting" => With(u)' = With(u)
      BY <1>1, <2>1, Recounted DEF Accounts
    <2>3. /\ With("dropped")' = With("dropped")
          /\ v = "sent" => With("failed")' = With("failed")
          /\ v = "failed" => With("sent")' = With("sent")
      BY <2>2 DEF Verdicts
    <2>4. /\ sent' = Cardinality(With("sent")') /\ failed' = Cardinality(With("failed")')
          /\ dropped' + Cardinality(dropping') = Cardinality(With("dropped")')
      BY <1>1, <1>3, <2>2, <2>3 DEF Accounts, CountersAccount
    <2>5. Cardinality(With("waiting")') = Len(queue')
      BY <1>1, <2>2 DEF Accounts, CountersAccount
    <2>6. retried' <= MaxRetries * (sent' + failed') + attempt'
      <3>1. sent' + failed' = sent + 1 + failed
        BY <1>1, <1>3
      <3>2. retried <= MaxRetries * (sent + failed) + attempt
        BY DEF Accounts, CountersAccount
      <3>3. MaxRetries * (sent + failed) \in Nat
        BY <1>1
      <3>4. MaxRetries * (sent' + failed') = MaxRetries * (sent + failed) + MaxRetries
        BY <1>2, <3>1
      <3> HIDE <1>2
      <3> QED
        BY <1>1, <1>3, <2>1, <3>2, <3>3, <3>4
    <2> QED
      BY <1>1, <2>1, <2>2, <2>4, <2>5, <2>6 DEF Accounts, CountersAccount, Counted
  <1>4. CASE PostSent
    BY <1>3, <1>4 DEF PostSent, Settled
  <1>5. CASE PostPermanent
    BY <1>3, <1>5 DEF PostPermanent, Settled
  <1>6. CASE PostRetryable /\ ~MayRetry
    BY <1>3, <1>6 DEF PostRetryable, Settled
  <1>7. CASE PostRetryable /\ MayRetry
    <2>1. attempt' = attempt + 1 /\ retried' = retried + 1 /\ UNCHANGED <<current, failed, verdict, sent>>
      BY <1>7 DEF PostRetryable
    <2>2. \A v : With(v)' = With(v)
      BY <2>1 DEF With
    <2>3. MaxRetries * (sent + failed) \in Nat
      BY <1>1
    <2>4. retried' <= MaxRetries * (sent + failed) + attempt'
      <3>1. retried <= MaxRetries * (sent + failed) + attempt
        BY DEF Accounts, CountersAccount
      <3> QED
        BY <1>1, <2>1, <2>3, <3>1
    <2> QED
      BY <1>1, <2>1, <2>2, <2>4 DEF Accounts, CountersAccount, Counted
  <1> QED
    BY <1>4, <1>5, <1>6, <1>7

LEMMA ReceiveAccounts ==
    ASSUME Inv, Accounts, restarts = 0, Receive
    PROVE  Accounts'
  <1>1. /\ current = Nobody /\ current' = Head(queue) /\ Head(queue) \in Events
        /\ queue' = Tail(queue) /\ queue # <<>> /\ pc = "recv" /\ attempt' = 0
        /\ UNCHANGED <<dropping, sent, failed, dropped, retried, restarts, verdict>>
    BY ReceiveKeeps DEF Receive, counters
  <1>2. Len(queue') = Len(queue) - 1 /\ Len(queue) \in Nat
    BY <1>1, HeadTailProperties, LenProperties DEF Inv, TypeOK
  <1>3. \A v : With(v)' = With(v)
    BY <1>1 DEF With
  <1>4. Head(queue) # Nobody
    BY <1>1, TelemetryAssumption
  <1>5. attempt = 0
    BY <1>1 DEF Inv, InHand
  <1> QED
    BY <1>1, <1>2, <1>3, <1>4, <1>5 DEF Accounts, CountersAccount, Counted

LEMMA AccountsInvariant == Spec => []Accounts
  <1>1. Init => Accounts
    <2> SUFFICES ASSUME Init PROVE Accounts
      OBVIOUS
    <2>1. \A v \in Verdicts \ {"new"} : With(v) = {}
      BY DEF Init, With
    <2>2. With("sent") = {} /\ With("failed") = {} /\ With("dropped") = {} /\ With("waiting") = {}
      BY <2>1 DEF Verdicts
    <2>3. MaxRetries * (0 + 0) = 0
      BY TelemetryAssumption
    <2>4. Counted
      BY <2>1, FS_EmptySet DEF Init, Counted
    <2>5. CountersAccount
      <3>1. retried <= MaxRetries * (sent + failed) + attempt /\ Len(queue) = 0
        BY <2>3, EmptySeq DEF Init
      <3>2. Cardinality({}) = 0 /\ dropping = {} /\ current = Nobody
        BY FS_EmptySet DEF Init
      <3>3. 0 = Cardinality(With("sent")) /\ 0 = Cardinality(With("failed"))
            /\ 0 = Cardinality(With("dropped")) /\ 0 = Cardinality(With("waiting"))
        BY <2>2, <3>2
      <3> QED
        BY <3>1, <3>2, <3>3 DEF Init, CountersAccount
    <2> QED
      BY <2>4, <2>5 DEF Accounts
  <1>2. Inv /\ Accounts /\ [Next]_vars => Accounts'
    <2> SUFFICES ASSUME Inv, Accounts, [Next]_vars PROVE Accounts'
      OBVIOUS
    <2>1. CASE restarts # 0
      <3>1. restarts' # 0
        BY <2>1 DEF Next, vars, worker, Enqueue, CountDrop, WorkerStep, Receive, PostSent, PostPermanent,
                    PostRetryable, Backoff, Restart, Inv, TypeOK
      <3> QED
        BY <3>1 DEF Accounts, CountersAccount, Counted
    <2>2. CASE restarts = 0
      <3>1. CASE Backoff \/ UNCHANGED vars
        <4>1. UNCHANGED <<queue, dropping, current, attempt, counters, restarts, verdict>>
          BY <3>1 DEF Backoff, vars, worker
        <4>2. \A v : With(v)' = With(v)
          BY <4>1 DEF With
        <4> QED
          BY <4>1, <4>2 DEF counters, Accounts, CountersAccount, Counted
      <3>2. CASE Restart
        BY <2>2, <3>2 DEF Restart, Accounts, CountersAccount, Counted
      <3> QED
        BY <2>2, <3>1, <3>2, EnqueueAccounts, CountDropAccounts, ReceiveAccounts, PostAccounts
           DEF Next, WorkerStep
    <2> QED
      BY <2>1, <2>2
  <1> QED
    BY <1>1, <1>2, Invariant, PTL DEF Spec

(* While the process lives the counters account for every event: what was  *)
(* taken in is waiting, in hand, sent or failed, what was refused is       *)
(* counted or about to be, and retries are within their budget.            *)
THEOREM CountersAccountHolds == Spec => []CountersAccount
  BY AccountsInvariant, PTL DEF Accounts
-----------------------------------------------------------------------------
(* Pending events: the one in hand, then the channel.                      *)
Hand == IF current = Nobody THEN <<>> ELSE <<current>>

(* A hand that has one event, and one that has none.                       *)
LEMMA Pending ==
    ASSUME Inv
    PROVE  /\ Hand \in Seq(Events) /\ queue \in Seq(Events) /\ Hand \o queue \in Seq(Events)
           /\ Len(Hand \o queue) = Len(queue) + IF current = Nobody THEN 0 ELSE 1
           /\ Len(queue) \in Nat
           /\ current = Nobody => Hand \o queue = queue
           /\ current # Nobody => Hand \o queue # <<>> /\ Head(Hand \o queue) = current
                                  /\ Tail(Hand \o queue) = queue
  <1>1. Hand \in Seq(Events) /\ queue \in Seq(Events)
    BY DEF Hand, Inv, TypeOK
  <1>2. /\ Len(Hand) = IF current = Nobody THEN 0 ELSE 1
        /\ current # Nobody => Hand[1] = current
    BY DEF Hand
  <1>3. /\ Hand \o queue \in Seq(Events) /\ Len(Hand \o queue) = Len(Hand) + Len(queue)
        /\ \A i \in 1 .. Len(Hand) + Len(queue) :
               (Hand \o queue)[i] = IF i <= Len(Hand) THEN Hand[i] ELSE queue[i - Len(Hand)]
        /\ Len(queue) \in Nat
    BY <1>1, ConcatProperties, LenProperties
  <1>4. current = Nobody => Hand \o queue = queue
    BY <1>1, ConcatEmptySeq DEF Hand
  <1>5. ASSUME current # Nobody
        PROVE  /\ Hand \o queue # <<>> /\ Head(Hand \o queue) = current /\ Tail(Hand \o queue) = queue
    <2>1. Len(Hand \o queue) = Len(queue) + 1 /\ (Hand \o queue)[1] = current
      BY <1>2, <1>3, <1>5
    <2>2. Hand \o queue # <<>>
      BY <1>3, <2>1, EmptySeq
    <2>3. /\ Tail(Hand \o queue) \in Seq(Events) /\ Len(Tail(Hand \o queue)) = Len(queue)
          /\ \A i \in 1 .. Len(queue) : Tail(Hand \o queue)[i] = (Hand \o queue)[i + 1]
      BY <1>3, <2>1, <2>2, HeadTailProperties
    <2>4. \A i \in 1 .. Len(queue) : (Hand \o queue)[i + 1] = queue[i]
      BY <1>2, <1>3, <1>5
    <2>5. Tail(Hand \o queue) = queue
      BY <1>1, <2>3, <2>4, SeqEqual
    <2>6. Head(Hand \o queue) = current
      BY <1>3, <2>1, <2>2
    <2> QED
      BY <2>2, <2>5, <2>6
  <1> QED
    BY <1>1, <1>2, <1>3, <1>4, <1>5

(* Events are settled one by one in the order in which they were taken in, *)
(* turned away only while as many as the channel holds are waiting, and    *)
(* lost only when the process ends: the sender does what it promises.      *)
THEOREM RefinesPromise == Spec => PromiseSpec
  <1>1. Init => Promise!Init
    BY EmptySeq, ConcatEmptySeq DEF Init, Promise!Init
  <1>2. Inv /\ Inv' /\ [Next]_vars => [Promise!Next]_(Promise!promise)
    <2> SUFFICES ASSUME Inv, Inv', [Next]_vars
                 PROVE  Promise!Next \/ UNCHANGED <<Hand \o queue, verdict>>
      BY DEF Promise!promise, Hand
    <2>1. CASE \E e \in Events : Enqueue(e)
      <3>1. PICK e \in Events : Enqueue(e)
        BY <2>1
      <3>2. verdict[e] = "new" /\ current' = current /\ Hand' = Hand /\ Capacity \in Nat
        BY <3>1, TelemetryAssumption DEF Enqueue, worker, Hand
      <3>3. CASE HasRoom
        <4>1. queue' = Append(queue, e) /\ verdict' = [verdict EXCEPT ![e] = "waiting"]
          BY <3>1, <3>3 DEF Enqueue
        <4>2. Hand \o Append(queue, e) = Append(Hand \o queue, e)
          BY Pending, AppendIsConcat, ConcatAssociative
        <4>3. Len(Hand \o queue) <= Capacity
          BY <3>2, <3>3, Pending DEF HasRoom
        <4> QED
          BY <3>2, <4>1, <4>2, <4>3 DEF Promise!Next, Promise!Accept, Hand
      <3>4. CASE ~HasRoom
        <4>1. queue' = queue /\ verdict' = [verdict EXCEPT ![e] = "dropped"]
          BY <3>1, <3>4 DEF Enqueue
        <4>2. Len(Hand \o queue) >= Capacity
          BY <3>2, <3>4, Pending DEF HasRoom
        <4> QED
          BY <3>2, <4>1, <4>2 DEF Promise!Next, Promise!TurnAway, Hand
      <3> QED
        BY <3>3, <3>4
    <2>2. CASE Receive
      <3>1. /\ current = Nobody /\ current' # Nobody /\ current' = Head(queue) /\ queue' = Tail(queue)
            /\ queue # <<>> /\ verdict' = verdict
        BY <2>2, ReceiveKeeps, TelemetryAssumption DEF Receive
      <3>2. Hand' = <<Head(queue)>>
        BY <3>1 DEF Hand
      <3>3. <<Head(queue)>> \o Tail(queue) = queue
        BY <3>1 DEF Inv, TypeOK
      <3> QED
        BY <3>1, <3>2, <3>3, Pending
    <2>3. ASSUME NEW v \in {"sent", "failed"}, Settled(v)
          PROVE  Promise!Next
      <3>1. /\ current # Nobody /\ current' = Nobody /\ queue' = queue
            /\ verdict' = [verdict EXCEPT ![current] = v]
        BY <2>3, SettledKeeps, TelemetryAssumption DEF Settled, Done
      <3>2. (Hand \o queue)' = queue
        BY <3>1, ConcatEmptySeq DEF Hand, Inv, TypeOK
      <3>3. Promise!Settle(v)
        BY <3>1, <3>2, Pending DEF Promise!Settle, Hand
      <3> QED
        BY <3>3 DEF Promise!Next
    <2>4. CASE Restart
      <3>1. (Hand \o queue)' = <<>>
        BY <2>4, EmptySeq, ConcatEmptySeq DEF Restart, Hand
      <3> QED
        BY <2>4, <3>1 DEF Promise!Next, Promise!Lose, Restart, Hand
    <2>5. CASE \/ UNCHANGED vars \/ Backoff \/ \E e \in Events : CountDrop(e)
               \/ UNCHANGED <<queue, dropping, current, verdict, restarts>>
      <3>1. UNCHANGED <<queue, current, verdict>>
        BY <2>5 DEF vars, worker, Backoff, CountDrop
      <3> QED
        BY <3>1 DEF Hand
    <2> QED
      BY <2>1, <2>2, <2>3, <2>4, <2>5, Posting DEF Next, WorkerStep
  <1> QED
    BY <1>1, <1>2, Invariant, PTL DEF Spec, PromiseSpec, Promise!Spec
-----------------------------------------------------------------------------
(* What the process has and what its phase says of it: what it serves with *)
(* are the operator's settings as they were validated, since those that    *)
(* enrolled have lost their token and are not validated a second time.     *)
Starts ==
    /\ settings \in ControlPlaneConfig /\ config \in ControlPlaneConfig
    /\ spent \in BOOLEAN /\ enrolled \in BOOLEAN /\ served \in BOOLEAN
    /\ phase \in {"down", "loaded", "enrolled", "stored", "built", "hydrated", "serving"}
    /\ phase # "down" => refused = "no"
    /\ phase = "loaded" => config = settings
    /\ phase \in {"loaded", "enrolled", "stored", "built", "hydrated", "serving"} =>
         validate(settings)
    /\ phase \in {"enrolled", "stored"} =>
         \/ config = settings /\ ~config.enrollment_enabled
         \/ config.enrollment_enabled /\ ~config.enrollment_token
                /\ settings.enrollment_enabled
    /\ phase \in {"built", "hydrated", "serving"} =>
         config = settings /\ ~config.enrollment_enabled
    /\ served => validate(settings) /\ ~settings.enrollment_enabled
                     /\ refused \notin {"settings", "token"}

LEMMA Blank == NoConfig \in ControlPlaneConfig
BY DEF NoConfig, ControlPlaneConfig

LEMMA StartsInvariant == StartSpec => []Starts
<1>1. StartInit => Starts
  BY StartupAssumption, Blank DEF StartInit, Starts
<1>2. Starts /\ [StartNext]_startVars => Starts'
  <2> SUFFICES ASSUME Starts, [StartNext]_startVars PROVE Starts'
    OBVIOUS
  <2> USE Blank
  <2>1. CASE Configure
    <3>1. settings' \in ControlPlaneConfig
      BY <2>1, StartupAssumption DEF Configure
    <3>2. settings'.enrollment_token \in BOOLEAN
      BY <3>1 DEF ControlPlaneConfig
    <3>3. spent' \in BOOLEAN
      BY <2>1, <3>2 DEF Configure
    <3> QED
      BY <2>1, <3>1, <3>3 DEF Configure, Starts, process
  <2>2. CASE Load
    <3>1. CASE validate(settings)
      BY <2>2, <3>1 DEF Load, Starts, validate
    <3>2. CASE ~validate(settings)
      <4>1. UNCHANGED <<settings, config, phase, spent, served>> /\ enrolled' = FALSE
        BY <2>2, <3>2 DEF Load
      <4>2. phase = "down" /\ ~served
        BY <2>2, <3>2 DEF Load, Starts
      <4> QED
        BY <4>1, <4>2 DEF Starts
    <3> QED
      BY <3>1, <3>2
  <2>3. CASE SkipEnrollment
    BY <2>3 DEF SkipEnrollment, Proceed, Starts, validate
  <2>4. CASE Enroll
    BY <2>4 DEF Enroll, Proceed, Starts, validate, ControlPlaneConfig
  <2>5. CASE EnrollFails
    BY <2>5 DEF EnrollFails, End, Starts, validate
  <2>6. CASE Store
    BY <2>6 DEF Store, Proceed, Starts, validate
  <2>7. CASE Build
    BY <2>7 DEF Build, Proceed, End, Starts, validate
  <2>8. CASE Hydrate
    BY <2>8 DEF Hydrate, Proceed, Starts, validate
  <2>9. CASE Bind
    BY <2>9 DEF Bind, Starts, validate
  <2>10. CASE StartFails
    BY <2>10 DEF StartFails, End, Starts, validate
  <2>11. CASE Crash
    BY <2>11 DEF Crash, Starts, validate
  <2>12. CASE \/ \E e \in Events : Deliver(Enqueue(e)) \/ Deliver(CountDrop(e))
              \/ Deliver(WorkerStep)
    BY <2>12 DEF Deliver, Starts, validate, process
  <2>13. CASE UNCHANGED startVars
    BY <2>13 DEF startVars, Starts, validate, process
  <2> QED
    BY <2>1, <2>2, <2>3, <2>4, <2>5, <2>6, <2>7, <2>8, <2>9, <2>10, <2>11, <2>12, <2>13
    DEF StartNext, DeliveryStep
<1> QED
  BY <1>1, <1>2, PTL DEF StartSpec

(* Under any settings, telemetry that serves has its address, key and id.  *)
THEOREM ServesAsConfiguredHolds == StartSpec => []ServesAsConfigured
<1>1. Starts => ServesAsConfigured
  BY DEF Starts, ServesAsConfigured, validate, ControlPlaneConfig
<1> QED
  BY <1>1, StartsInvariant, PTL

(* Under any settings, those that have served are not refused later.       *)
THEOREM ServedSettingsStandHolds == StartSpec => []ServedSettingsStand
<1>1. Starts => ServedSettingsStand
  BY DEF Starts, ServedSettingsStand
<1> QED
  BY <1>1, StartsInvariant, PTL

(* The extent of the finding about enrollment: with enrollment enabled, no *)
(* start ever comes to serve, whatever else is set and answered.           *)
EnrollingNeverServes == phase = "serving" => ~settings.enrollment_enabled

THEOREM EnrollingNeverServesHolds == StartSpec => []EnrollingNeverServes
<1>1. Starts => EnrollingNeverServes
  BY DEF Starts, EnrollingNeverServes
<1> QED
  BY <1>1, StartsInvariant, PTL

(* Whatever the process goes through, its sender behaves as the sender     *)
(* alone: what is proved of Spec holds of StartSpec.                       *)
THEOREM StartRefinesDelivery == StartSpec => Spec
<1>1. StartInit => Init
  BY DEF StartInit
<1>2. [StartNext]_startVars => [Next]_vars
  <2> SUFFICES ASSUME [StartNext]_startVars PROVE [Next]_vars
    OBVIOUS
  <2>1. CASE Crash
    BY <2>1 DEF Crash, Next
  <2>2. ASSUME NEW e \in Events, Deliver(Enqueue(e)) \/ Deliver(CountDrop(e)) PROVE Next
    BY <2>2 DEF Deliver, Next
  <2>3. CASE DeliveryStep
    BY <2>3 DEF DeliveryStep, Deliver, Next
  <2>4. CASE \/ Configure \/ Load \/ SkipEnrollment \/ Enroll \/ EnrollFails
             \/ Store \/ Build \/ Hydrate \/ Bind \/ StartFails
    BY <2>4 DEF Configure, Load, SkipEnrollment, Enroll, EnrollFails, Store, Build, Hydrate,
                Bind, StartFails, Proceed, End
  <2>5. CASE UNCHANGED startVars
    BY <2>5 DEF startVars
  <2> QED
    BY <2>1, <2>2, <2>3, <2>4, <2>5 DEF StartNext
<1> QED
  BY <1>1, <1>2, PTL DEF StartSpec, Spec
=============================================================================
