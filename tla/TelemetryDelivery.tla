------------------------- MODULE TelemetryDelivery --------------------------
(***************************************************************************)
(* Delivery of security events to the control plane: request threads put   *)
(* events on a bounded channel without waiting, one worker takes them off  *)
(* in order and posts each, retrying what may succeed later, and four      *)
(* counters tell the admin API what became of them.  The control plane and *)
(* the network may answer anything, or accept an event and lose the answer.*)
(***************************************************************************)
EXTENDS Integers, Sequences, FiniteSets

CONSTANTS
    Events,      \* security events, each enqueued at most once
    Capacity,    \* of the channel
    MaxRetries,  \* MAX_RETRIES
    MaxRestarts, \* bound: process restarts
    Nobody       \* no event in the worker's hands

ASSUME TelemetryAssumption ==
    /\ Capacity \in Nat \ {0}
    /\ MaxRetries \in Nat /\ MaxRestarts \in Nat
    /\ Nobody \notin Events

VARIABLES
    queue,       \* the channel
    dropping,    \* events refused by a full channel, not yet counted
    current,     \* event the worker delivers
    pc,          \* of the worker
    attempt,     \* failed attempts at current
    sent, failed, dropped, retried,   \* the counters
    received,    \* copies of each event the control plane has taken
    restarts,
    verdict      \* history: what became of each event

counters == <<sent, failed, dropped, retried>>
worker   == <<current, pc, attempt>>
vars     == <<queue, dropping, worker, counters, received, restarts, verdict>>

Verdicts == {"new", "waiting", "sent", "failed", "dropped", "lost"}

TypeOK ==
    /\ queue \in Seq(Events)
    /\ dropping \subseteq Events
    /\ current \in Events \cup {Nobody}
    /\ pc \in {"recv", "post", "backoff"}
    /\ attempt \in 0 .. MaxRetries
    /\ sent \in Nat /\ failed \in Nat /\ dropped \in Nat /\ retried \in Nat
    /\ received \in [Events -> Nat]
    /\ restarts \in Nat
    /\ verdict \in [Events -> Verdicts]

Init ==
    /\ queue = <<>> /\ dropping = {}
    /\ current = Nobody /\ pc = "recv" /\ attempt = 0
    /\ sent = 0 /\ failed = 0 /\ dropped = 0 /\ retried = 0
    /\ received = [e \in Events |-> 0]
    /\ restarts = 0
    /\ verdict = [e \in Events |-> "new"]
-----------------------------------------------------------------------------
MutHasRoom == Len(queue) < Capacity - 1    \* mutant: one slot is never used

HasRoom == Len(queue) < Capacity

MutEnqueue(e) ==    \* mutant: a full channel gives up its oldest event
    /\ verdict[e] = "new"
    /\ IF HasRoom
       THEN /\ queue' = Append(queue, e)
            /\ verdict' = [verdict EXCEPT ![e] = "waiting"]
            /\ UNCHANGED dropping
       ELSE /\ queue' = Append(Tail(queue), e)
            /\ dropping' = dropping \cup {Head(queue)}
            /\ verdict' = [verdict EXCEPT ![e] = "waiting", ![Head(queue)] = "dropped"]
    /\ UNCHANGED <<worker, counters, received, restarts>>

(* try_send never waits: the newest event is the one a full channel loses. *)
(* A closed channel would lose it, and count it, in the same way; none is  *)
(* closed before the process ends, for the worker keeps the receiver.      *)
Enqueue(e) ==
    /\ verdict[e] = "new"
    /\ IF HasRoom
       THEN /\ queue' = Append(queue, e)
            /\ verdict' = [verdict EXCEPT ![e] = "waiting"]
            /\ UNCHANGED dropping
       ELSE /\ dropping' = dropping \cup {e}
            /\ verdict' = [verdict EXCEPT ![e] = "dropped"]
            /\ UNCHANGED queue
    /\ UNCHANGED <<worker, counters, received, restarts>>

(* The refusing thread counts the loss after the refusal.                  *)
CountDrop(e) ==
    /\ e \in dropping
    /\ dropping' = dropping \ {e}
    /\ dropped' = dropped + 1
    /\ UNCHANGED <<queue, worker, sent, failed, retried, received, restarts, verdict>>

Receive ==
    /\ pc = "recv" /\ queue # <<>>
    /\ current' = Head(queue)
    /\ queue' = Tail(queue)
    /\ pc' = "post" /\ attempt' = 0
    /\ UNCHANGED <<dropping, counters, received, restarts, verdict>>

Done(v) ==
    /\ pc' = "recv" /\ current' = Nobody /\ attempt' = 0
    /\ verdict' = [verdict EXCEPT ![current] = v]

Take == received' = [received EXCEPT ![current] = @ + 1]

(* A success status: the event was taken.                                  *)
PostSent ==
    /\ pc = "post"
    /\ Take
    /\ sent' = sent + 1
    /\ Done("sent")
    /\ UNCHANGED <<queue, dropping, failed, dropped, retried, restarts>>

(* A status that no retry can mend.                                        *)
PostPermanent ==
    /\ pc = "post"
    /\ failed' = failed + 1
    /\ Done("failed")
    /\ UNCHANGED <<queue, dropping, sent, dropped, retried, received, restarts>>

MutMayRetry == attempt <= MaxRetries    \* mutant: compared before the increment

MayRetry == attempt + 1 <= MaxRetries

(* 408, 429, 5xx or a network error, which a timed-out answer is too: the  *)
(* control plane may have taken the event.                                 *)
MutPostRetryable ==    \* mutant: giving up goes uncounted
    /\ pc = "post"
    /\ Take \/ UNCHANGED received
    /\ IF MayRetry
       THEN /\ attempt' = attempt + 1
            /\ retried' = retried + 1
            /\ pc' = "backoff"
            /\ UNCHANGED <<current, failed, verdict>>
       ELSE /\ Done("failed")
            /\ UNCHANGED <<retried, failed>>
    /\ UNCHANGED <<queue, dropping, sent, dropped, restarts>>

PostRetryable ==
    /\ pc = "post"
    /\ Take \/ UNCHANGED received
    /\ IF MayRetry
       THEN /\ attempt' = attempt + 1
            /\ retried' = retried + 1
            /\ pc' = "backoff"
            /\ UNCHANGED <<current, failed, verdict>>
       ELSE /\ failed' = failed + 1
            /\ Done("failed")
            /\ UNCHANGED retried
    /\ UNCHANGED <<queue, dropping, sent, dropped, restarts>>

MutBackoff ==    \* mutant: the next attempt starts the count again
    /\ pc = "backoff"
    /\ pc' = "post" /\ attempt' = 0
    /\ UNCHANGED <<queue, dropping, current, counters, received, restarts, verdict>>

MutAbandon ==    \* mutant: after the sleep the worker goes on to the next event
    /\ pc = "backoff"
    /\ pc' = "recv" /\ current' = Nobody /\ attempt' = 0
    /\ UNCHANGED <<queue, dropping, counters, received, restarts, verdict>>

Backoff ==
    /\ pc = "backoff"
    /\ pc' = "post"
    /\ UNCHANGED <<queue, dropping, current, attempt, counters, received, restarts, verdict>>

(* A crash and restart: channel and counters are memory.                   *)
Restart ==
    /\ restarts < MaxRestarts
    /\ restarts' = restarts + 1
    /\ queue' = <<>> /\ dropping' = {}
    /\ current' = Nobody /\ pc' = "recv" /\ attempt' = 0
    /\ sent' = 0 /\ failed' = 0 /\ dropped' = 0 /\ retried' = 0
    /\ verdict' = [e \in Events |-> IF verdict[e] = "waiting" THEN "lost" ELSE verdict[e]]
    /\ UNCHANGED received

WorkerStep == Receive \/ PostSent \/ PostPermanent \/ PostRetryable \/ Backoff

Next ==
    \/ \E e \in Events : Enqueue(e) \/ CountDrop(e)
    \/ WorkerStep
    \/ Restart

Spec == Init /\ [][Next]_vars

(* The worker task runs until the process ends; a post ends because the    *)
(* client has a timeout, and a backoff is a sleep.                         *)
FairSpec == Spec /\ WF_vars(WorkerStep)
-----------------------------------------------------------------------------
With(v) == {e \in Events : verdict[e] = v}

(* The counters account for every event since the process started: what    *)
(* was taken in is queued, in hand, sent or failed, what was refused is    *)
(* counted or about to be, and retries stay within their budget.           *)
CountersAccount ==
    restarts = 0 =>
        /\ sent = Cardinality(With("sent"))
        /\ failed = Cardinality(With("failed"))
        /\ dropped + Cardinality(dropping) = Cardinality(With("dropped"))
        /\ Cardinality(With("waiting")) = Len(queue) + IF current = Nobody THEN 0 ELSE 1
        /\ retried <= MaxRetries * (sent + failed) + attempt

(* The control plane holds an event counted as sent, and never more copies *)
(* than attempts were allowed; a copy may be there of a failed one.        *)
DuplicatesBounded ==
    \A e \in Events :
        /\ verdict[e] = "sent" => received[e] >= 1
        /\ received[e] <= MaxRetries + 1
        /\ verdict[e] \in {"new", "dropped"} => received[e] = 0

(* Taken-in events are settled in order of arrival, and only a full        *)
(* channel refuses one.                                                    *)
Promise == INSTANCE TelemetryPromise WITH
    pending <- (IF current = Nobody THEN <<>> ELSE <<current>>) \o queue

PromiseSpec == Promise!Spec

(* Every event taken in gets its verdict, whatever the control plane does, *)
(* unless the process ends.                                                *)
EveryEventSettled == \A e \in Events : verdict[e] = "waiting" ~> verdict[e] # "waiting"
=============================================================================
