--------------------------- MODULE BehaviorStore ----------------------------
(***************************************************************************)
(* The behaviour map of the rate limiter: what each principal did on each  *)
(* route lately, and the sign-in attempts of each source.  A request goes  *)
(* through up to three phases; each reads the clock, makes room for one    *)
(* entry, and then finds or creates its own and updates it under its lock. *)
(* Operators clear the map, whole or for one source.                       *)
(***************************************************************************)
EXTENDS Integers, FiniteSets, Sequences, SequencesExt

CONSTANTS
    Workers,        \* request threads
    Requests,       \* [main, ids, auth, subject]: see RequestType
    Keys, Ids, Subjects,
    NoKey,          \* the request is no sign-in attempt
    SourceKeys,     \* keys that begin with the cleared source's "ip:" prefix
    MaxEntries,     \* behavior.max_entries
    MaxIds,         \* behavior.max_ids_per_entry
    ObjectWindow, HitWindow, AuthWindow,
    MaxTime,        \* bound: the clock stops there
    MaxRequests     \* bound: requests

RequestType == [main : Keys, ids : Seq(Ids), auth : Keys \cup {NoKey}, subject : Subjects]

ASSUME BehaviorAssumption ==
    /\ IsFiniteSet(Workers) /\ Workers # {}
    /\ NoKey \notin Keys /\ SourceKeys \subseteq Keys
    /\ Requests \subseteq RequestType
    /\ MaxEntries \in Nat \ {0} /\ MaxIds \in Nat
    /\ ObjectWindow \in Nat /\ HitWindow \in Nat /\ AuthWindow \in Nat
    /\ MaxTime \in Nat /\ MaxRequests \in Nat

VARIABLES
    now,
    behavior,      \* the entries that are there, by key
    pc,            \* phase each thread is in
    step,          \* within it: about to make room, collecting, removing or updating
    request, stamp,
    excess,        \* entries the thread found too many
    victims,       \* keys the thread still removes to make room
    toClear,       \* keys an operator's clear still removes
    requests,
    made           \* history: sign-in attempts since the entry was created

threads == <<pc, step, request, stamp, excess, victims>>
vars    == <<now, behavior, threads, toClear, requests, made>>

Empty == [hits |-> <<>>, ids |-> <<>>, attempts |-> <<>>]
Entry == [hits : Seq(Nat), ids : Seq(Nat \X Ids), attempts : Seq(Nat \X Subjects)]

Present == DOMAIN behavior

TypeOK ==
    /\ now \in Nat /\ requests \in Nat
    /\ Present \subseteq Keys /\ \A k \in Present : behavior[k] \in Entry
    /\ pc \in [Workers -> {"idle", "hits", "ids", "auth"}]
    /\ step \in [Workers -> {"room", "collect", "update"}] /\ excess \in [Workers -> Nat]
    /\ request \in [Workers -> Requests]
    /\ stamp \in [Workers -> Nat]
    /\ victims \in [Workers -> SUBSET Keys]
    /\ toClear \subseteq Keys
    /\ made \in [Keys -> Seq(Nat \X Subjects)]

Init ==
    /\ now = 0 /\ requests = 0
    /\ behavior = [k \in {} |-> Empty]
    /\ pc = [w \in Workers |-> "idle"] /\ step = [w \in Workers |-> "room"]
    /\ request \in [Workers -> Requests]
    /\ stamp = [w \in Workers |-> 0] /\ excess = [w \in Workers |-> 0]
    /\ victims = [w \in Workers |-> {}]
    /\ toClear = {}
    /\ made = [k \in Keys |-> <<>>]
-----------------------------------------------------------------------------
(* Entries are popped from the front while they are too old.               *)
Purge(s, stampOf(_), t, window) ==
    LET fresh == {i \in 1 .. Len(s) : t - stampOf(s[i]) <= window}
        first == IF fresh = {} THEN Len(s) + 1
                 ELSE CHOOSE i \in fresh : \A j \in fresh : i <= j
    IN  SubSeq(s, first, Len(s))

Time(t)  == t
First(p) == p[1]

KeepLast(s, n) == SubSeq(s, IF Len(s) > n THEN Len(s) - n + 1 ELSE 1, Len(s))

Distinct(s) == Cardinality({s[i][2] : i \in 1 .. Len(s)})

(* evaluate_behavior                                                       *)
Behaved(e, t) ==
    [e EXCEPT !.hits = Append(Purge(@, Time, t, HitWindow), t),
              !.ids  = Purge(@, First, t, ObjectWindow)]

(* evaluate_object_enumeration                                             *)
Enumerated(e, t, ids) ==
    LET seen == Purge(e.ids, First, t, ObjectWindow) \o [i \in 1 .. Len(ids) |-> <<t, ids[i]>>]
    IN  [e EXCEPT !.ids = KeepLast(seen, MaxIds)]

(* evaluate_auth_abuse                                                     *)
MutAttempted(e, t, subject) ==    \* mutant: attempts as old as the window are dropped
    [e EXCEPT !.attempts = Append(Purge(@, First, t, AuthWindow - 1), <<t, subject>>)]

Attempted(e, t, subject) ==
    [e EXCEPT !.attempts = Append(Purge(@, First, t, AuthWindow), <<t, subject>>)]
-----------------------------------------------------------------------------
Begin(w, r) ==
    /\ pc[w] = "idle" /\ requests < MaxRequests
    /\ requests' = requests + 1
    /\ pc' = [pc EXCEPT ![w] = "hits"]
    /\ request' = [request EXCEPT ![w] = r]
    /\ UNCHANGED <<now, behavior, step, stamp, excess, victims, toClear, made>>

(* enforce_behavior_capacity: nothing to do below the limit, else so many  *)
(* keys are to go that there is room for one entry.  len is read twice in  *)
(* a row; whatever the two reads give, the outcome is that of one of them. *)
MutExcess == Cardinality(Present) - MaxEntries    \* mutant: no room for the new entry

Excess == Cardinality(Present) - (MaxEntries - 1)

Count(w) ==
    /\ pc[w] # "idle" /\ step[w] = "room"
    /\ stamp' = [stamp EXCEPT ![w] = now]
    /\ IF Excess > 0
       THEN /\ excess' = [excess EXCEPT ![w] = Excess]
            /\ step' = [step EXCEPT ![w] = "collect"]
       ELSE step' = [step EXCEPT ![w] = "update"] /\ UNCHANGED excess
    /\ UNCHANGED <<now, behavior, pc, request, victims, toClear, requests, made>>

(* They are the first that an iteration meets, in a map that others have   *)
(* changed since; it goes shard by shard, which is one step here.          *)
Collect(w) ==
    /\ step[w] = "collect"
    /\ \E vs \in SUBSET Present :
           /\ \/ Cardinality(vs) = excess[w]
              \/ vs = Present /\ Cardinality(vs) <= excess[w]
           /\ victims' = [victims EXCEPT ![w] = vs]
    /\ excess' = [excess EXCEPT ![w] = 0]
    /\ step' = [step EXCEPT ![w] = "update"]
    /\ UNCHANGED <<now, behavior, pc, request, stamp, toClear, requests, made>>

Without(k) == [j \in Present \ {k} |-> behavior[j]]

Forget(k) ==
    /\ behavior' = Without(k)
    /\ made' = [made EXCEPT ![k] = <<>>]

Evict(w, k) ==
    /\ k \in victims[w]
    /\ victims' = [victims EXCEPT ![w] = @ \ {k}]
    /\ Forget(k)
    /\ UNCHANGED <<now, pc, step, request, stamp, excess, toClear, requests>>

(* entry(key).or_default(), updated under its lock.                        *)
Found(k) == IF k \in Present THEN behavior[k] ELSE Empty
Put(k, e) == behavior' = [j \in Present \cup {k} |-> IF j = k THEN e ELSE behavior[j]]

Ready(w, phase) == pc[w] = phase /\ step[w] = "update" /\ victims[w] = {}

Then(w, phase) ==
    /\ pc' = [pc EXCEPT ![w] = phase]
    /\ step' = [step EXCEPT ![w] = "room"]
    /\ UNCHANGED <<now, request, stamp, excess, victims, toClear, requests>>

MutAfterIds(r) == "auth"    \* mutant: every request is taken for a sign-in attempt

AfterIds(r) == IF r.auth = NoKey THEN "idle" ELSE "auth"

UpdateHits(w) ==
    LET r == request[w] IN
    /\ Ready(w, "hits")
    /\ Put(r.main, Behaved(Found(r.main), stamp[w]))
    /\ Then(w, IF r.ids # <<>> THEN "ids" ELSE AfterIds(r))
    /\ UNCHANGED made

UpdateIds(w) ==
    LET r == request[w] IN
    /\ Ready(w, "ids")
    /\ Put(r.main, Enumerated(Found(r.main), stamp[w], r.ids))
    /\ Then(w, AfterIds(r))
    /\ UNCHANGED made

UpdateAuth(w) ==
    LET r == request[w] IN
    /\ Ready(w, "auth")
    /\ Put(r.auth, Attempted(Found(r.auth), stamp[w], r.subject))
    /\ made' = [made EXCEPT ![r.auth] = Append(@, <<stamp[w], r.subject>>)]
    /\ Then(w, "idle")

(* clear_behavior_state takes every key, clear_source_state those of one   *)
(* source; both collect first and remove afterwards.                       *)
ClearCollect(ks) ==
    /\ toClear = {} /\ Present \cap ks # {}
    /\ toClear' = Present \cap ks
    /\ UNCHANGED <<now, behavior, threads, requests, made>>

ClearRemove(k) ==
    /\ k \in toClear
    /\ toClear' = toClear \ {k}
    /\ Forget(k)
    /\ UNCHANGED <<now, threads, requests>>

Tick ==
    /\ now < MaxTime
    /\ now' = now + 1
    /\ UNCHANGED <<behavior, threads, toClear, requests, made>>

WorkerStep(w) ==
    \/ Count(w) \/ Collect(w)
    \/ \E k \in Keys : Evict(w, k)
    \/ UpdateHits(w) \/ UpdateIds(w) \/ UpdateAuth(w)

Next ==
    \/ \E w \in Workers : WorkerStep(w) \/ \E r \in Requests : Begin(w, r)
    \/ ClearCollect(Keys) \/ ClearCollect(SourceKeys)
    \/ \E k \in Keys : ClearRemove(k)
    \/ Tick

Spec == Init /\ [][Next]_vars
-----------------------------------------------------------------------------
(* Eviction is not atomic with the count it follows, nor with the          *)
(* insertion it makes room for, but every thread makes room for its own:   *)
(* the map exceeds its limit by at most one entry for each other thread,   *)
(* and a list of ids never exceeds its own.                                *)
CapacityBound ==
    /\ Cardinality(Present) <= MaxEntries + Cardinality(Workers) - 1
    /\ \A k \in Present : Len(behavior[k].ids) <= MaxIds

(* No attempt that still counts is forgotten while its entry lives, though *)
(* threads append with clocks read before they had the lock.               *)
AttemptsKept ==
    \A k \in Present : \A i \in 1 .. Len(made[k]) :
        now - made[k][i][1] <= AuthWindow =>
            IsSuffix(SubSeq(made[k], i, Len(made[k])), behavior[k].attempts)
=============================================================================
