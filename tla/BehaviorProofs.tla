--------------------------- MODULE BehaviorProofs ---------------------------
(***************************************************************************)
(* Proofs about BehaviorStore, for any threads, requests, keys, limits and *)
(* windows.                                                                *)
(***************************************************************************)
EXTENDS BehaviorStore, FiniteSetTheorems, SequenceTheorems, WellFoundedInduction, TLAPS

LEMMA LeastIsThere ==
    ASSUME NEW T \in SUBSET Nat, T # {}
    PROVE  \E i \in T : \A j \in T : i <= j
  <1>1. PICK i \in T : \A j \in T : <<j, i>> \notin OpToRel(<, Nat)
    BY NatLessThanWellFounded, WFMin
  <1>2. \A j \in T : ~(j < i)
    BY <1>1 DEF OpToRel
  <1> QED
    BY <1>2

LEMMA DroppedFront ==
    ASSUME NEW S, NEW s \in Seq(S), NEW first \in 1 .. Len(s) + 1
    PROVE  /\ SubSeq(s, first, Len(s)) \in Seq(S)
           /\ Len(SubSeq(s, first, Len(s))) = Len(s) - first + 1
           /\ \A i \in 1 .. Len(s) - first + 1 : SubSeq(s, first, Len(s))[i] = s[first + i - 1]
  <1>1. Len(s) \in Nat /\ first \in Int /\ \A i \in first .. Len(s) : s[i] \in S
    BY LenProperties, ElementOfSeq
  <1>2. /\ SubSeq(s, first, Len(s)) \in Seq(S)
        /\ Len(SubSeq(s, first, Len(s))) = IF first <= Len(s) THEN Len(s) - first + 1 ELSE 0
        /\ \A i \in 1 .. Len(s) - first + 1 : SubSeq(s, first, Len(s))[i] = s[first + i - 1]
    BY <1>1, SubSeqProperties
  <1> QED
    BY <1>1, <1>2

(* Where a purge begins to keep: nothing before it is fresh.               *)
LEMMA FirstFresh ==
    ASSUME NEW n \in Nat, NEW fresh \in SUBSET (1 .. n)
    PROVE  \E first \in 1 .. n + 1 :
             /\ first = IF fresh = {} THEN n + 1 ELSE CHOOSE i \in fresh : \A j \in fresh : i <= j
             /\ \A i \in 1 .. first - 1 : i \notin fresh
  <1>1. CASE fresh = {}
    BY <1>1
  <1>2. CASE fresh # {}
    <2>1. \E i \in fresh : \A j \in fresh : i <= j
      BY <1>2, LeastIsThere
    <2>2. PICK first : first = CHOOSE i \in fresh : \A j \in fresh : i <= j
      OBVIOUS
    <2>3. first \in fresh /\ \A j \in fresh : first <= j
      BY <2>1, <2>2
    <2>4. first \in 1 .. n + 1 /\ \A i \in 1 .. first - 1 : i \notin fresh
      BY <2>3
    <2> QED
      BY <1>2, <2>2, <2>4
  <1> QED
    BY <1>1, <1>2

LEMMA PurgedTimes ==
    ASSUME NEW s \in Seq(Nat), NEW t \in Nat, NEW window \in Nat
    PROVE  Purge(s, Time, t, window) \in Seq(Nat)
  <1>1. PICK fresh : fresh = {i \in 1 .. Len(s) : t - s[i] <= window}
    OBVIOUS
  <1>2. fresh \in SUBSET (1 .. Len(s)) /\ Len(s) \in Nat
    BY <1>1, LenProperties
  <1>3. PICK first \in 1 .. Len(s) + 1 :
            first = IF fresh = {} THEN Len(s) + 1 ELSE CHOOSE i \in fresh : \A j \in fresh : i <= j
    BY <1>2, FirstFresh
  <1>4. Purge(s, Time, t, window) = SubSeq(s, first, Len(s))
    BY <1>1, <1>3 DEF Purge, Time
  <1> QED
    BY <1>4, DroppedFront

LEMMA PurgedPairs ==
    ASSUME NEW S, NEW s \in Seq(Nat \X S), NEW t \in Nat, NEW window \in Nat
    PROVE  /\ Purge(s, First, t, window) \in Seq(Nat \X S)
           /\ \E first \in 1 .. Len(s) + 1 :
                /\ Purge(s, First, t, window) = SubSeq(s, first, Len(s))
                /\ \A i \in 1 .. first - 1 : t - s[i][1] > window
  <1>1. PICK fresh : fresh = {i \in 1 .. Len(s) : t - s[i][1] <= window}
    OBVIOUS
  <1>2. fresh \in SUBSET (1 .. Len(s)) /\ Len(s) \in Nat
    BY <1>1, LenProperties
  <1>3. PICK first \in 1 .. Len(s) + 1 :
            /\ first = IF fresh = {} THEN Len(s) + 1 ELSE CHOOSE i \in fresh : \A j \in fresh : i <= j
            /\ \A i \in 1 .. first - 1 : i \notin fresh
    BY <1>2, FirstFresh
  <1>4. Purge(s, First, t, window) = SubSeq(s, first, Len(s))
    BY <1>1, <1>3 DEF Purge, First
  <1>5. \A i \in 1 .. Len(s) : i \notin fresh => t - s[i][1] > window
    <2>1. \A i \in 1 .. Len(s) : s[i][1] \in Nat
      BY ElementOfSeq
    <2> QED
      BY <1>1, <2>1
  <1>6. \A i \in 1 .. first - 1 : t - s[i][1] > window
    <2>1. /\ first \in 1 .. Len(s) + 1
          /\ \A i \in 1 .. first - 1 : i \notin fresh
      BY <1>3, Zenon
    <2>2. \A i \in 1 .. first - 1 : i \in 1 .. Len(s)
      BY <1>2, <2>1
    <2> QED
      BY <1>5, <2>1, <2>2
  <1> QED
    BY <1>4, <1>6, DroppedFront

LEMMA Kept ==
    ASSUME NEW S, NEW s \in Seq(S), NEW n \in Nat
    PROVE  KeepLast(s, n) \in Seq(S) /\ Len(KeepLast(s, n)) <= n
  <1>1. Len(s) \in Nat
    BY LenProperties
  <1>2. CASE Len(s) > n
    BY <1>1, <1>2, DroppedFront DEF KeepLast
  <1>3. CASE Len(s) <= n
    BY <1>1, <1>3, DroppedFront DEF KeepLast
  <1> QED
    BY <1>1, <1>2, <1>3
-----------------------------------------------------------------------------
(* What each phase makes of an entry.                                      *)
Short(e) == e \in Entry /\ Len(e.ids) <= MaxIds

LEMMA BehavedShort ==
    ASSUME NEW e, Short(e), NEW t \in Nat
    PROVE  Short(Behaved(e, t)) /\ Behaved(e, t).attempts = e.attempts
  <1>1. e \in Entry /\ ObjectWindow \in Nat /\ HitWindow \in Nat /\ MaxIds \in Nat
    BY BehaviorAssumption DEF Short
  <1>2. Purge(e.hits, Time, t, HitWindow) \in Seq(Nat)
    BY <1>1, PurgedTimes DEF Entry
  <1>3. PICK ids : ids = Purge(e.ids, First, t, ObjectWindow)
    OBVIOUS
  <1>4. ids \in Seq(Nat \X Ids) /\ Len(ids) <= MaxIds
    <2>1. PICK old \in Seq(Nat \X Ids) : old = e.ids /\ Len(old) \in Nat /\ Len(old) <= MaxIds
      BY <1>1, LenProperties DEF Entry, Short
    <2>2. PICK first \in 1 .. Len(old) + 1 :
              /\ Purge(old, First, t, ObjectWindow) = SubSeq(old, first, Len(old))
              /\ \A i \in 1 .. first - 1 : t - old[i][1] > ObjectWindow
      <3>1. ObjectWindow \in Nat
        BY <1>1
      <3> QED
        BY <3>1, PurgedPairs, Zenon
    <2>3. ids = SubSeq(old, first, Len(old))
      BY <1>3, <2>1, <2>2
    <2>4. ids \in Seq(Nat \X Ids) /\ Len(ids) = Len(old) - first + 1
      BY <2>3, DroppedFront
    <2> QED
      BY <1>1, <2>1, <2>4
  <1>5. PICK hits : hits = Append(Purge(e.hits, Time, t, HitWindow), t) /\ hits \in Seq(Nat)
    BY <1>2, AppendProperties
  <1>6. Behaved(e, t) = [e EXCEPT !.hits = hits, !.ids = ids]
    BY <1>3, <1>5 DEF Behaved
  <1> QED
    BY <1>1, <1>4, <1>5, <1>6 DEF Entry, Short

LEMMA EnumeratedShort ==
    ASSUME NEW e, Short(e), NEW t \in Nat, NEW ids \in Seq(Ids)
    PROVE  Short(Enumerated(e, t, ids)) /\ Enumerated(e, t, ids).attempts = e.attempts
  <1>1. e \in Entry /\ ObjectWindow \in Nat /\ MaxIds \in Nat /\ e.ids \in Seq(Nat \X Ids)
    BY BehaviorAssumption DEF Short, Entry
  <1>2. PICK new : new = [i \in 1 .. Len(ids) |-> <<t, ids[i]>>]
    OBVIOUS
  <1>3. new \in Seq(Nat \X Ids)
    <2>1. Len(ids) \in Nat /\ \A i \in 1 .. Len(ids) : ids[i] \in Ids
      BY LenProperties, ElementOfSeq
    <2>2. new \in [1 .. Len(ids) -> Nat \X Ids]
      BY <1>2, <2>1
    <2> QED
      BY <2>1, <2>2, SeqDef
  <1>4. PICK old : old = Purge(e.ids, First, t, ObjectWindow) /\ old \in Seq(Nat \X Ids)
    BY <1>1, PurgedPairs
  <1>5. PICK kept : kept = KeepLast(old \o new, MaxIds) /\ kept \in Seq(Nat \X Ids) /\ Len(kept) <= MaxIds
    BY <1>1, <1>3, <1>4, ConcatProperties, Kept
  <1>6. Enumerated(e, t, ids) = [e EXCEPT !.ids = kept]
    BY <1>2, <1>4, <1>5 DEF Enumerated
  <1> QED
    BY <1>1, <1>5, <1>6 DEF Entry, Short

LEMMA AttemptedShort ==
    ASSUME NEW e, Short(e), NEW t \in Nat, NEW subject \in Subjects
    PROVE  /\ Short(Attempted(e, t, subject))
           /\ Attempted(e, t, subject).attempts = Append(Purge(e.attempts, First, t, AuthWindow), <<t, subject>>)
  <1>1. e \in Entry /\ AuthWindow \in Nat /\ e.attempts \in Seq(Nat \X Subjects)
    BY BehaviorAssumption DEF Short, Entry
  <1>2. PICK attempts : attempts = Append(Purge(e.attempts, First, t, AuthWindow), <<t, subject>>)
    OBVIOUS
  <1>3. attempts \in Seq(Nat \X Subjects)
    BY <1>1, <1>2, PurgedPairs, AppendProperties
  <1>4. Attempted(e, t, subject) = [e EXCEPT !.attempts = attempts]
    BY <1>2 DEF Attempted
  <1> QED
    BY <1>1, <1>2, <1>3, <1>4 DEF Entry, Short

LEMMA EmptyShort == Short(Empty) /\ Empty.attempts = <<>>
  BY BehaviorAssumption, EmptySeq DEF Short, Empty, Entry
-----------------------------------------------------------------------------
(* The map: finite, with entries in shape.                                 *)
Mapped ==
    /\ behavior = [k \in Present |-> behavior[k]] /\ IsFiniteSet(Present)
    /\ Present \subseteq Keys /\ \A k \in Present : Short(behavior[k])

Inv ==
    /\ TypeOK /\ Mapped
    /\ \A w \in Workers : stamp[w] <= now /\ (pc[w] = "auth" => request[w].auth \in Keys)

LEMMA PutMaps ==
    ASSUME Mapped, NEW k \in Keys, NEW e, Short(e), Put(k, e)
    PROVE  /\ Mapped' /\ Present' = Present \cup {k} /\ behavior'[k] = e
           /\ \A j \in Present \ {k} : behavior'[j] = behavior[j]
  <1>1. /\ Present' = Present \cup {k} /\ behavior' = [j \in Present' |-> behavior'[j]]
        /\ behavior'[k] = e /\ \A j \in Present \ {k} : behavior'[j] = behavior[j]
    BY DEF Put, Present
  <1>2. IsFiniteSet(Present')
    BY <1>1, FS_AddElement DEF Mapped
  <1>3. \A j \in Present' : Short(behavior'[j])
    BY <1>1 DEF Mapped
  <1> QED
    BY <1>1, <1>2, <1>3 DEF Mapped, Short, Entry

LEMMA ForgetMaps ==
    ASSUME Mapped, NEW k, Forget(k)
    PROVE  Mapped' /\ Present' = Present \ {k} /\ \A j \in Present' : behavior'[j] = behavior[j]
  <1>1. /\ Present' = Present \ {k} /\ behavior' = [j \in Present' |-> behavior'[j]]
        /\ \A j \in Present' : behavior'[j] = behavior[j]
    BY DEF Forget, Without, Present
  <1>2. IsFiniteSet(Present')
    BY <1>1, FS_RemoveElement DEF Mapped
  <1> QED
    BY <1>1, <1>2 DEF Mapped, Short, Entry

LEMMA FoundShort ==
    ASSUME Mapped, NEW k
    PROVE  Short(Found(k))
  BY EmptyShort DEF Mapped, Found

LEMMA RequestTyped ==
    ASSUME NEW r \in Requests
    PROVE  /\ r.main \in Keys /\ r.ids \in Seq(Ids) /\ r.subject \in Subjects
           /\ r.auth # NoKey => r.auth \in Keys
           /\ AfterIds(r) \in {"idle", "auth"} /\ (AfterIds(r) = "auth" => r.auth \in Keys)
  <1>1. r \in RequestType
    BY BehaviorAssumption
  <1> QED
    BY <1>1 DEF RequestType, AfterIds

(* A phase that ends: its entry, and where the thread goes.                *)
LEMMA UpdateKeeps ==
    ASSUME Inv, NEW w \in Workers, NEW k \in Keys, NEW e, Short(e), Put(k, e),
           NEW phase \in {"idle", "ids", "auth"}, Then(w, phase),
           phase = "auth" => request[w].auth \in Keys,
           made' \in [Keys -> Seq(Nat \X Subjects)]
    PROVE  Inv'
  <1>1. Mapped'
    BY PutMaps DEF Inv
  <1>2. \A x \in Workers : stamp'[x] <= now' /\ (pc'[x] = "auth" => request'[x].auth \in Keys)
    BY DEF Then, Inv, TypeOK
  <1> QED
    BY <1>1, <1>2 DEF Then, Inv, TypeOK, Mapped, Short

LEMMA Invariant == Spec => []Inv
  <1>1. Init => Inv
    <2> SUFFICES ASSUME Init PROVE Inv
      OBVIOUS
    <2>1. Present = {} /\ IsFiniteSet(Present) /\ behavior = [k \in Present |-> behavior[k]]
      BY FS_EmptySet DEF Init, Present
    <2> QED
      BY <2>1, EmptySeq DEF Init, Inv, TypeOK, Mapped
  <1>2. Inv /\ [Next]_vars => Inv'
    <2> SUFFICES ASSUME Inv, [Next]_vars PROVE Inv'
      OBVIOUS
    <2>1. CASE \E w \in Workers, r \in Requests : Begin(w, r)
      <3>1. UNCHANGED <<behavior, stamp, now, excess, victims, step, toClear, made>>
        BY <2>1 DEF Begin
      <3>2. Mapped' /\ Present' = Present
        BY <3>1 DEF Mapped, Inv, Present, Short, Entry
      <3>3. /\ pc' \in [Workers -> {"idle", "hits", "ids", "auth"}] /\ request' \in [Workers -> Requests]
            /\ requests' \in Nat /\ \A w \in Workers : pc'[w] = "auth" => request'[w].auth \in Keys
        BY <2>1 DEF Begin, Inv, TypeOK
      <3> QED
        BY <3>1, <3>2, <3>3 DEF Inv, TypeOK
    <2>2. CASE \E w \in Workers : Count(w) \/ Collect(w)
      <3>1. UNCHANGED <<now, behavior, pc, request, toClear, requests, made>>
        BY <2>2 DEF Count, Collect
      <3>2. Mapped' /\ Present' = Present /\ Present \subseteq Keys
        BY <3>1 DEF Mapped, Inv, Present, Short, Entry
      <3>3. /\ stamp' \in [Workers -> Nat] /\ \A w \in Workers : stamp'[w] <= now
            /\ victims' \in [Workers -> SUBSET Keys] /\ step' \in [Workers -> {"room", "collect", "update"}]
        <4>1. PICK w \in Workers : Count(w) \/ Collect(w)
          BY <2>2
        <4>2. /\ now \in Nat /\ stamp \in [Workers -> Nat] /\ \A x \in Workers : stamp[x] <= now
              /\ victims \in [Workers -> SUBSET Keys] /\ step \in [Workers -> {"room", "collect", "update"}]
          BY DEF Inv, TypeOK
        <4>3. stamp' = stamp \/ stamp' = [stamp EXCEPT ![w] = now]
          BY <4>1 DEF Count, Collect
        <4>4. victims' = victims \/ \E vs \in SUBSET Present : victims' = [victims EXCEPT ![w] = vs]
          BY <4>1 DEF Count, Collect
        <4>5. \E s \in {"collect", "update"} : step' = [step EXCEPT ![w] = s]
          BY <4>1 DEF Count, Collect
        <4>6. stamp' \in [Workers -> Nat] /\ \A x \in Workers : stamp'[x] <= now
          BY <4>2, <4>3
        <4> QED
          BY <3>2, <4>2, <4>4, <4>5, <4>6
      <3>4. excess' \in [Workers -> Nat]
        <4>1. Excess > 0 => Excess \in Nat
          BY BehaviorAssumption, FS_CardinalityType DEF Excess, Inv, Mapped
        <4> QED
          BY <2>2, <4>1 DEF Count, Collect, Inv, TypeOK
      <3> QED
        BY <3>1, <3>2, <3>3, <3>4 DEF Inv, TypeOK
    <2>3. CASE \E w \in Workers, k \in Keys : Evict(w, k)
      <3>1. PICK w \in Workers, k \in Keys : Evict(w, k)
        BY <2>3
      <3>2. Forget(k) /\ UNCHANGED <<now, pc, step, request, stamp, excess, toClear, requests>>
        BY <3>1 DEF Evict
      <3>3. Mapped' /\ made' \in [Keys -> Seq(Nat \X Subjects)]
        BY <3>2, ForgetMaps, EmptySeq DEF Inv, TypeOK, Forget
      <3>4. victims' \in [Workers -> SUBSET Keys]
        BY <3>1 DEF Evict, Inv, TypeOK
      <3> QED
        BY <3>2, <3>3, <3>4 DEF Inv, TypeOK, Mapped, Short
    <2>4. CASE \E w \in Workers : UpdateHits(w) \/ UpdateIds(w) \/ UpdateAuth(w)
      <3>1. PICK w \in Workers : UpdateHits(w) \/ UpdateIds(w) \/ UpdateAuth(w)
        BY <2>4
      <3>2. PICK r \in Requests : r = request[w] /\ stamp[w] \in Nat /\ made \in [Keys -> Seq(Nat \X Subjects)]
        BY DEF Inv, TypeOK
      <3>3. CASE UpdateHits(w)
        <4>1. /\ Put(r.main, Behaved(Found(r.main), stamp[w])) /\ made' = made
              /\ Then(w, IF r.ids # <<>> THEN "ids" ELSE AfterIds(r))
          BY <3>2, <3>3 DEF UpdateHits
        <4>2. Short(Behaved(Found(r.main), stamp[w])) /\ r.main \in Keys
          BY <3>2, FoundShort, BehavedShort, RequestTyped DEF Inv
        <4> QED
          BY <3>2, <4>1, <4>2, RequestTyped, UpdateKeeps
      <3>4. CASE UpdateIds(w)
        <4>1. Put(r.main, Enumerated(Found(r.main), stamp[w], r.ids)) /\ Then(w, AfterIds(r)) /\ made' = made
          BY <3>2, <3>4 DEF UpdateIds
        <4>2. Short(Enumerated(Found(r.main), stamp[w], r.ids)) /\ r.main \in Keys
          BY <3>2, FoundShort, EnumeratedShort, RequestTyped DEF Inv
        <4> QED
          BY <3>2, <4>1, <4>2, RequestTyped, UpdateKeeps
      <3>5. CASE UpdateAuth(w)
        <4>1. /\ Put(r.auth, Attempted(Found(r.auth), stamp[w], r.subject)) /\ Then(w, "idle")
              /\ made' = [made EXCEPT ![r.auth] = Append(@, <<stamp[w], r.subject>>)]
              /\ pc[w] = "auth"
          BY <3>2, <3>5 DEF UpdateAuth, Ready
        <4>2. r.auth \in Keys /\ <<stamp[w], r.subject>> \in Nat \X Subjects
          BY <3>2, <4>1, RequestTyped DEF Inv
        <4>3. Short(Attempted(Found(r.auth), stamp[w], r.subject))
          BY <3>2, FoundShort, AttemptedShort, RequestTyped DEF Inv
        <4>4. made' \in [Keys -> Seq(Nat \X Subjects)]
          BY <3>2, <4>1, <4>2, AppendProperties
        <4> QED
          BY <4>1, <4>2, <4>3, <4>4, UpdateKeeps
      <3> QED
        BY <3>1, <3>3, <3>4, <3>5
    <2>5. CASE ClearCollect(Keys) \/ ClearCollect(SourceKeys)
      <3>1. UNCHANGED <<now, behavior, threads, requests, made>> /\ toClear' \subseteq Present
        BY <2>5 DEF ClearCollect
      <3>2. Mapped' /\ Present' = Present /\ Present \subseteq Keys
        BY <3>1 DEF Mapped, Inv, Present, Short, Entry
      <3> QED
        BY <3>1, <3>2 DEF threads, Inv, TypeOK
    <2>6. CASE \E k \in Keys : ClearRemove(k)
      <3>1. PICK k \in Keys : ClearRemove(k)
        BY <2>6
      <3>2. Forget(k) /\ UNCHANGED <<now, threads, requests>> /\ toClear' \subseteq toClear
        BY <3>1 DEF ClearRemove
      <3>3. Mapped' /\ made' \in [Keys -> Seq(Nat \X Subjects)]
        BY <3>2, ForgetMaps, EmptySeq DEF Inv, TypeOK, Forget
      <3> QED
        BY <3>2, <3>3 DEF threads, Inv, TypeOK, Mapped, Short
    <2>7. CASE Tick \/ UNCHANGED vars
      <3>1. UNCHANGED <<behavior, threads, toClear, requests, made>> /\ (now' = now \/ now' = now + 1)
        BY <2>7 DEF Tick, vars
      <3>2. Mapped' /\ Present' = Present
        BY <3>1 DEF Mapped, Inv, Present, Short, Entry
      <3> QED
        BY <3>1, <3>2 DEF threads, Inv, TypeOK
    <2> QED
      BY <2>1, <2>2, <2>3, <2>4, <2>5, <2>6, <2>7 DEF Next, WorkerStep
  <1> QED
    BY <1>1, <1>2, PTL DEF Spec

(* Threads, entries and clocks keep their types, and an entry its shape.   *)
THEOREM TypeCorrect == Spec => []TypeOK
  BY Invariant, PTL DEF Inv
-----------------------------------------------------------------------------
(* Room: take any of the threads that have counted and not used their      *)
(* room.  Without what they are still to remove, the map leaves one entry  *)
(* for each of them under the bound; or one of them has yet to collect so  *)
(* many that it will.                                                      *)
Active  == {w \in Workers : step[w] \in {"collect", "update"}}
Rest(S) == {k \in Present : \A w \in S : step[w] = "update" => k \notin victims[w]}
Bound   == MaxEntries - 1 + Cardinality(Workers)

Fits(S) ==
    \/ Cardinality(Rest(S)) + Cardinality(S) <= Bound
    \/ \E c \in S : step[c] = "collect" /\ Cardinality(Present) - excess[c] + Cardinality(S) <= Bound

Room == \A S \in SUBSET Active : Fits(S)

LEMMA FiniteParts ==
    ASSUME Inv, NEW S \in SUBSET Workers
    PROVE  /\ IsFiniteSet(Rest(S)) /\ Cardinality(Rest(S)) \in Nat /\ Rest(S) \subseteq Present
           /\ Cardinality(Rest(S)) <= Cardinality(Present)
           /\ IsFiniteSet(Present) /\ Cardinality(Present) \in Nat
           /\ IsFiniteSet(S) /\ Cardinality(S) \in Nat /\ Cardinality(S) <= Cardinality(Workers)
           /\ Cardinality(Workers) \in Nat /\ MaxEntries \in Nat \ {0}
           /\ Bound \in Nat /\ Cardinality(S) <= Bound
           /\ \A w \in Workers : excess[w] \in Nat
  <1>1. IsFiniteSet(S) /\ Cardinality(S) <= Cardinality(Workers) /\ IsFiniteSet(Workers)
    BY BehaviorAssumption, FS_Subset
  <1>2. IsFiniteSet(Present) /\ Rest(S) \subseteq Present
    BY DEF Rest, Inv, Mapped
  <1>3. IsFiniteSet(Rest(S)) /\ Cardinality(Rest(S)) <= Cardinality(Present)
    BY <1>2, FS_Subset
  <1>4. /\ Cardinality(S) \in Nat /\ Cardinality(Workers) \in Nat /\ MaxEntries \in Nat \ {0}
        /\ Cardinality(Rest(S)) \in Nat /\ Cardinality(Present) \in Nat
    BY <1>1, <1>2, <1>3, BehaviorAssumption, FS_CardinalityType
  <1>5. Bound \in Nat /\ Cardinality(S) <= Bound
    BY <1>1, <1>4 DEF Bound
  <1> QED
    BY <1>1, <1>2, <1>3, <1>4, <1>5 DEF Inv, TypeOK

(* Nothing that counts is added.                                           *)
LEMMA ShrinkKeepsRoom ==
    ASSUME Inv, Inv', Room, step' = step, excess' = excess, Present' \subseteq Present,
           \A S \in SUBSET Active : Rest(S)' \subseteq Rest(S)
    PROVE  Room'
  <1> SUFFICES ASSUME NEW S \in SUBSET Active PROVE Fits(S)'
    BY DEF Room, Active
  <1>1. S \in SUBSET Workers
    BY DEF Active
  <1>2. Cardinality(Rest(S)') <= Cardinality(Rest(S)) /\ Cardinality(Rest(S)') \in Nat
    <2>1. IsFiniteSet(Rest(S)) /\ Rest(S)' \subseteq Rest(S)
      BY <1>1, FiniteParts
    <2> QED
      BY <2>1, FS_Subset, FS_CardinalityType
  <1>3. Cardinality(Present') <= Cardinality(Present) /\ Cardinality(Present') \in Nat
    <2>1. IsFiniteSet(Present)
      BY DEF Inv, Mapped
    <2> QED
      BY <2>1, FS_Subset, FS_CardinalityType
  <1>4. CASE Cardinality(Rest(S)) + Cardinality(S) <= Bound
    BY <1>1, <1>2, <1>4, FiniteParts DEF Fits, Bound
  <1>5. CASE \E c \in S : step[c] = "collect" /\ Cardinality(Present) - excess[c] + Cardinality(S) <= Bound
    <2>1. PICK c \in S : step[c] = "collect" /\ Cardinality(Present) - excess[c] + Cardinality(S) <= Bound
      BY <1>5
    <2>2. excess[c] \in Nat
      BY <1>1, FiniteParts
    <2>3. Cardinality(Present') - excess[c] + Cardinality(S) <= Bound
      BY <1>1, <1>3, <2>1, <2>2, FiniteParts
    <2> QED
      BY <2>1, <2>3 DEF Fits, Bound
  <1> QED
    BY <1>4, <1>5 DEF Room, Fits

(* Whoever has just counted will leave less than the limit, whatever else  *)
(* is under way.                                                           *)
LEMMA CountKeepsRoom ==
    ASSUME Inv, Room, NEW w \in Workers, Count(w)
    PROVE  Room'
  <1>1. /\ step[w] = "room" /\ Present' = Present /\ victims' = victims
        /\ step \in [Workers -> {"room", "collect", "update"}] /\ excess \in [Workers -> Nat]
        /\ \/ Excess > 0 /\ step' = [step EXCEPT ![w] = "collect"] /\ excess' = [excess EXCEPT ![w] = Excess]
           \/ ~(Excess > 0) /\ step' = [step EXCEPT ![w] = "update"] /\ excess' = excess
    BY DEF Count, Inv, TypeOK, Present
  <1>2. Active' = Active \cup {w} /\ \A x \in Workers \ {w} : step'[x] = step[x] /\ excess'[x] = excess[x]
    BY <1>1 DEF Active
  <1> SUFFICES ASSUME NEW S \in SUBSET (Active \cup {w}) PROVE Fits(S)'
    BY <1>2 DEF Room
  <1>3. S \in SUBSET Workers
    BY DEF Active
  <1>4. CASE w \notin S
    <2>1. S \in SUBSET Active /\ Rest(S)' = Rest(S)
      BY <1>1, <1>2, <1>3, <1>4 DEF Rest
    <2>2. \A c \in S : step'[c] = step[c] /\ excess'[c] = excess[c]
      BY <1>2, <1>3, <1>4
    <2>3. Fits(S)
      BY <2>1 DEF Room
    <2> QED
      BY <1>1, <2>1, <2>2, <2>3 DEF Fits, Bound
  <1>5. CASE w \in S /\ Excess > 0
    <2>1. step'[w] = "collect" /\ excess'[w] = Cardinality(Present) - (MaxEntries - 1)
      BY <1>1, <1>5 DEF Excess
    <2>2. Cardinality(Present') - excess'[w] + Cardinality(S) <= Bound
      BY <1>1, <1>3, <2>1, FiniteParts DEF Bound
    <2> QED
      BY <1>5, <2>1, <2>2 DEF Fits, Bound
  <1>6. CASE w \in S /\ ~(Excess > 0)
    <2>1. Rest(S)' \subseteq Present /\ IsFiniteSet(Present)
      BY <1>1 DEF Rest, Inv, Mapped
    <2>2. Cardinality(Rest(S)') <= Cardinality(Present) /\ Cardinality(Rest(S)') \in Nat
      BY <2>1, FS_Subset, FS_CardinalityType
    <2>3. Cardinality(Rest(S)') + Cardinality(S) <= Bound
      BY <1>3, <1>6, <2>2, FiniteParts DEF Bound, Excess
    <2> QED
      BY <2>3 DEF Fits, Bound
  <1> QED
    BY <1>4, <1>5, <1>6

(* Whoever collects leaves as much room as it had counted on, or an empty  *)
(* map.                                                                    *)
LEMMA CollectKeepsRoom ==
    ASSUME Inv, Room, NEW w \in Workers, Collect(w)
    PROVE  Room'
  <1>1. /\ step[w] = "collect" /\ Present' = Present /\ excess' = [excess EXCEPT ![w] = 0]
        /\ step' = [step EXCEPT ![w] = "update"] /\ excess \in [Workers -> Nat]
        /\ step \in [Workers -> {"room", "collect", "update"}] /\ victims \in [Workers -> SUBSET Keys]
    BY DEF Collect, Inv, TypeOK, Present
  <1>2. PICK vs \in SUBSET Present : /\ Cardinality(vs) = excess[w] \/ vs = Present
                                     /\ victims' = [victims EXCEPT ![w] = vs]
    BY DEF Collect
  <1>3. /\ Active' = Active
        /\ \A x \in Workers \ {w} : step'[x] = step[x] /\ excess'[x] = excess[x] /\ victims'[x] = victims[x]
        /\ step'[w] = "update" /\ victims'[w] = vs
    BY <1>1, <1>2 DEF Active
  <1> SUFFICES ASSUME NEW S \in SUBSET Active PROVE Fits(S)'
    BY <1>3 DEF Room
  <1>4. S \in SUBSET Workers
    BY DEF Active
  <1>5. Rest(S)' \subseteq Rest(S) /\ (w \in S => Rest(S)' \subseteq Present \ vs)
    BY <1>1, <1>3, <1>4 DEF Rest
  <1>6. Cardinality(Rest(S)') <= Cardinality(Rest(S)) /\ Cardinality(Rest(S)') \in Nat
    <2>1. IsFiniteSet(Rest(S))
      BY <1>4, FiniteParts
    <2> QED
      BY <1>5, <2>1, FS_Subset, FS_CardinalityType
  <1>7. CASE Cardinality(Rest(S)) + Cardinality(S) <= Bound
    BY <1>4, <1>6, <1>7, FiniteParts DEF Fits, Bound
  <1>8. CASE \E c \in S \ {w} : step[c] = "collect" /\ Cardinality(Present) - excess[c] + Cardinality(S) <= Bound
    <2>1. PICK c \in S \ {w} : step[c] = "collect" /\ Cardinality(Present) - excess[c] + Cardinality(S) <= Bound
      BY <1>8
    <2>2. step'[c] = "collect" /\ excess'[c] = excess[c]
      BY <1>3, <1>4, <2>1
    <2> QED
      BY <1>1, <2>1, <2>2 DEF Fits, Bound
  <1>9. CASE w \in S /\ Cardinality(Present) - excess[w] + Cardinality(S) <= Bound
    <2>1. /\ Cardinality(Present \ vs) = Cardinality(Present) - Cardinality(vs)
          /\ IsFiniteSet(Present \ vs) /\ Cardinality(Present \ vs) \in Nat
      <3>1. IsFiniteSet(Present) /\ Present \cap vs = vs
        BY DEF Inv, Mapped
      <3> QED
        BY <3>1, FS_Difference, FS_CardinalityType
    <2>2. Cardinality(Present \ vs) + Cardinality(S) <= Bound
      <3>1. CASE Cardinality(vs) = excess[w]
        BY <1>9, <2>1, <3>1
      <3>2. CASE vs = Present
        <4>1. Cardinality(Present \ vs) = 0
          BY <3>2, FS_EmptySet
        <4> QED
          BY <1>4, <4>1, FiniteParts
      <3> QED
        BY <1>2, <3>1, <3>2
    <2>3. Cardinality(Rest(S)') <= Cardinality(Present \ vs)
      BY <1>5, <1>9, <2>1, FS_Subset
    <2>4. Cardinality(Rest(S)') + Cardinality(S) <= Bound
      BY <1>4, <1>6, <2>1, <2>2, <2>3, FiniteParts
    <2> QED
      BY <2>4 DEF Fits, Bound
  <1>10. Fits(S)
    BY DEF Room
  <1> QED
    BY <1>7, <1>8, <1>9, <1>10 DEF Fits

(* Whoever uses its room adds one entry, and no longer counts.             *)
LEMMA UpdateKeepsRoom ==
    ASSUME Inv, Mapped', Room, NEW w \in Workers, NEW k \in Keys, NEW e, Short(e), Put(k, e),
           step[w] = "update", victims[w] = {}, NEW phase, Then(w, phase)
    PROVE  Room'
  <1>1. /\ Mapped /\ step' = [step EXCEPT ![w] = "room"] /\ victims' = victims /\ excess' = excess
        /\ step \in [Workers -> {"room", "collect", "update"}] /\ w \in Active
    BY DEF Then, Inv, TypeOK, Active
  <1>2. Present' = Present \cup {k} /\ Active' = Active \ {w}
    BY <1>1, PutMaps DEF Active
  <1> SUFFICES ASSUME NEW S \in SUBSET (Active \ {w}) PROVE Fits(S)'
    BY <1>2 DEF Room
  <1>3. PICK T \in SUBSET Active : T = S \cup {w}
    BY <1>1
  <1>4. S \in SUBSET Workers /\ T \in SUBSET Workers
    BY DEF Active
  <1>5. Cardinality(T) = Cardinality(S) + 1
    BY <1>1, <1>3, <1>4, FiniteParts, FS_AddElement
  <1>6. Rest(S)' \subseteq Rest(T) \cup {k}
    BY <1>1, <1>2, <1>3, <1>4 DEF Rest
  <1>7. ASSUME NEW P, IsFiniteSet(P), NEW Q \in SUBSET (P \cup {k})
        PROVE  Cardinality(Q) \in Nat /\ Cardinality(Q) <= Cardinality(P) + 1
    <2>1. /\ IsFiniteSet(P \cup {k}) /\ Cardinality(P) \in Nat
          /\ Cardinality(P \cup {k}) = IF k \in P THEN Cardinality(P) ELSE Cardinality(P) + 1
      BY <1>7, FS_AddElement, FS_CardinalityType
    <2>2. IsFiniteSet(Q) /\ Cardinality(Q) <= Cardinality(P \cup {k})
      BY <2>1, FS_Subset
    <2>3. Cardinality(Q) \in Nat
      BY <2>2, FS_CardinalityType
    <2> QED
      BY <2>1, <2>2, <2>3
  <1>8. Cardinality(Rest(S)') <= Cardinality(Rest(T)) + 1 /\ Cardinality(Rest(S)') \in Nat
    <2>1. IsFiniteSet(Rest(T))
      BY <1>4, FiniteParts
    <2> QED
      BY <1>6, <1>7, <2>1
  <1>9. Cardinality(Present') <= Cardinality(Present) + 1 /\ Cardinality(Present') \in Nat
    <2>1. IsFiniteSet(Present)
      BY <1>1 DEF Mapped
    <2> QED
      BY <1>2, <1>7, <2>1
  <1>10. CASE Cardinality(Rest(T)) + Cardinality(T) <= Bound
    <2>1. Cardinality(Rest(S)') + Cardinality(S) <= Bound
      BY <1>4, <1>5, <1>8, <1>10, FiniteParts
    <2> QED
      BY <2>1 DEF Fits, Bound
  <1>11. CASE \E c \in T : step[c] = "collect" /\ Cardinality(Present) - excess[c] + Cardinality(T) <= Bound
    <2>1. PICK c \in T : step[c] = "collect" /\ Cardinality(Present) - excess[c] + Cardinality(T) <= Bound
      BY <1>11
    <2>2. c \in S /\ step'[c] = "collect" /\ excess'[c] = excess[c] /\ excess[c] \in Nat
      BY <1>1, <1>3, <1>4, <2>1, FiniteParts
    <2>3. Cardinality(Present') - excess[c] + Cardinality(S) <= Bound
      BY <1>4, <1>5, <1>9, <2>1, <2>2, FiniteParts
    <2> QED
      BY <2>2, <2>3 DEF Fits, Bound
  <1> QED
    BY <1>10, <1>11 DEF Room, Fits

(* Every step that updates an entry is one of these.                       *)
LEMMA Updates ==
    ASSUME Inv, NEW w \in Workers, UpdateHits(w) \/ UpdateIds(w) \/ UpdateAuth(w)
    PROVE  /\ step[w] = "update" /\ victims[w] = {}
           /\ \E k \in Keys : \E e, phase : Short(e) /\ Put(k, e) /\ Then(w, phase)
  <1>1. PICK r \in Requests : r = request[w] /\ stamp[w] \in Nat
    BY DEF Inv, TypeOK
  <1>2. CASE UpdateHits(w)
    <2>1. /\ Put(r.main, Behaved(Found(r.main), stamp[w])) /\ Ready(w, "hits")
          /\ Then(w, IF r.ids # <<>> THEN "ids" ELSE AfterIds(r))
      BY <1>1, <1>2 DEF UpdateHits
    <2>2. Short(Behaved(Found(r.main), stamp[w])) /\ r.main \in Keys
      BY <1>1, FoundShort, BehavedShort, RequestTyped DEF Inv
    <2> QED
      BY <2>1, <2>2 DEF Ready
  <1>3. CASE UpdateIds(w)
    <2>1. /\ Put(r.main, Enumerated(Found(r.main), stamp[w], r.ids)) /\ Ready(w, "ids")
          /\ Then(w, AfterIds(r))
      BY <1>1, <1>3 DEF UpdateIds
    <2>2. Short(Enumerated(Found(r.main), stamp[w], r.ids)) /\ r.main \in Keys
      BY <1>1, FoundShort, EnumeratedShort, RequestTyped DEF Inv
    <2> QED
      BY <2>1, <2>2 DEF Ready
  <1>4. CASE UpdateAuth(w)
    <2>1. /\ Put(r.auth, Attempted(Found(r.auth), stamp[w], r.subject)) /\ Ready(w, "auth")
          /\ Then(w, "idle")
      BY <1>1, <1>4 DEF UpdateAuth
    <2>2. Short(Attempted(Found(r.auth), stamp[w], r.subject)) /\ r.auth \in Keys
      BY <1>1, <2>1, FoundShort, AttemptedShort, RequestTyped DEF Inv, Ready
    <2> QED
      BY <2>1, <2>2 DEF Ready
  <1> QED
    BY <1>2, <1>3, <1>4

(* The map exceeds its limit by at most one entry for each thread but one, *)
(* however requests, evictions and clears interleave; no list of ids grows *)
(* beyond its own.                                                         *)
THEOREM CapacityBoundHolds == Spec => []CapacityBound
  <1>1. Init => Room
    <2> SUFFICES ASSUME Init PROVE Room
      OBVIOUS
    <2>1. Present = {} /\ Active = {}
      BY DEF Init, Present, Active
    <2>2. \A S : Rest(S) = {}
      BY <2>1 DEF Rest
    <2>3. Cardinality({}) = 0 /\ Cardinality(Workers) \in Nat /\ MaxEntries \in Nat \ {0}
      BY BehaviorAssumption, FS_EmptySet, FS_CardinalityType
    <2> QED
      BY <2>1, <2>2, <2>3 DEF Room, Fits, Bound
  <1>2. Inv /\ Inv' /\ Room /\ [Next]_vars => Room'
    <2> SUFFICES ASSUME Inv, Inv', Room, [Next]_vars PROVE Room'
      OBVIOUS
    <2>0. Mapped /\ Mapped' /\ victims \in [Workers -> SUBSET Keys]
      BY DEF Inv, TypeOK
    <2>1. CASE \E w \in Workers : Count(w) \/ Collect(w)
      BY <2>1, CountKeepsRoom, CollectKeepsRoom
    <2>2. CASE \E w \in Workers, k \in Keys : Evict(w, k)
      <3>1. PICK w \in Workers, k \in Keys : Evict(w, k)
        BY <2>2
      <3>2. /\ Present' = Present \ {k} /\ victims' = [victims EXCEPT ![w] = @ \ {k}]
            /\ step' = step /\ excess' = excess
        BY <2>0, <3>1, ForgetMaps DEF Evict
      <3>3. \A S \in SUBSET Active : Rest(S)' \subseteq Rest(S)
        BY <2>0, <3>2 DEF Rest, Active
      <3> QED
        BY <3>2, <3>3, ShrinkKeepsRoom
    <2>3. CASE \E w \in Workers : UpdateHits(w) \/ UpdateIds(w) \/ UpdateAuth(w)
      BY <2>0, <2>3, Updates, UpdateKeepsRoom
    <2>4. CASE \E k \in Keys : ClearRemove(k)
      <3>1. PICK k \in Keys : ClearRemove(k)
        BY <2>4
      <3>2. Present' = Present \ {k} /\ victims' = victims /\ step' = step /\ excess' = excess
        BY <2>0, <3>1, ForgetMaps DEF ClearRemove, threads
      <3>3. \A S : Rest(S)' \subseteq Rest(S)
        BY <3>2 DEF Rest
      <3> QED
        BY <3>2, <3>3, ShrinkKeepsRoom
    <2>5. CASE UNCHANGED <<behavior, victims, step, excess>>
      <3>1. Present' = Present /\ \A S : Rest(S)' = Rest(S)
        BY <2>5 DEF Rest, Present
      <3> QED
        BY <2>5, <3>1, ShrinkKeepsRoom
    <2> QED
      BY <2>1, <2>2, <2>3, <2>4, <2>5
         DEF Next, WorkerStep, Begin, ClearCollect, Tick, vars, threads
  <1>3. Inv /\ Room => CapacityBound
    <2> SUFFICES ASSUME Inv, Room PROVE CapacityBound
      OBVIOUS
    <2>1. Rest({}) = Present /\ Cardinality({}) = 0 /\ {} \in SUBSET Active
      BY FS_EmptySet DEF Rest
    <2>2. Cardinality(Rest({})) + Cardinality({}) <= MaxEntries - 1 + Cardinality(Workers)
      BY <2>1 DEF Room, Fits, Bound
    <2>3. /\ Cardinality(Present) \in Nat /\ Cardinality(Workers) \in Nat /\ MaxEntries \in Nat
          /\ \A k \in Present : Len(behavior[k].ids) <= MaxIds
      BY BehaviorAssumption, FS_CardinalityType DEF Inv, Mapped, Short
    <2> QED
      BY <2>1, <2>2, <2>3 DEF CapacityBound
  <1> QED
    BY <1>1, <1>2, <1>3, Invariant, PTL DEF Spec
-----------------------------------------------------------------------------
(* An entry holds the last of the attempts made since it was created; the  *)
(* ones gone are too old to count.                                         *)
Tries == Nat \X Subjects

LastOf(all, kept, gone, t) ==
    /\ Len(all) = gone + Len(kept)
    /\ \A i \in 1 .. Len(kept) : all[gone + i] = kept[i]
    /\ \A i \in 1 .. gone : t - all[i][1] > AuthWindow

Remembered(k) == \E gone \in Nat : LastOf(made[k], behavior[k].attempts, gone, now)

Attempts ==
    /\ \A k \in Present : Remembered(k)
    /\ \A k \in Keys \ Present : made[k] = <<>>

LEMMA OldStays ==
    ASSUME NEW all \in Seq(Tries), NEW kept \in Seq(Tries), NEW gone \in Nat,
           NEW t \in Nat, NEW u \in Nat, t <= u, LastOf(all, kept, gone, t)
    PROVE  LastOf(all, kept, gone, u)
  <1>1. Len(kept) \in Nat /\ Len(all) = gone + Len(kept)
    BY LenProperties DEF LastOf
  <1>2. ASSUME NEW i \in 1 .. gone PROVE u - all[i][1] > AuthWindow
    <2>1. i \in 1 .. Len(all)
      BY <1>1
    <2>2. all[i][1] \in Nat
      BY <2>1, ElementOfSeq DEF Tries
    <2>3. t - all[i][1] > AuthWindow /\ AuthWindow \in Nat
      BY BehaviorAssumption DEF LastOf
    <2> QED
      BY <2>2, <2>3
  <1> QED
    BY <1>2 DEF LastOf

(* An attempt appended: what the purge drops is older than the window by   *)
(* the thread's clock, and so by the clock itself.                         *)
LEMMA AppendRemembers ==
    ASSUME NEW all \in Seq(Tries), NEW kept \in Seq(Tries), NEW p \in Tries,
           NEW t \in Nat, NEW clock \in Nat, t <= clock,
           NEW gone \in Nat, LastOf(all, kept, gone, clock)
    PROVE  \E more \in Nat :
             LastOf(Append(all, p), Append(Purge(kept, First, t, AuthWindow), p), more, clock)
  <1>0. AuthWindow \in Nat
    BY BehaviorAssumption
  <1>1. PICK first \in 1 .. Len(kept) + 1 :
            /\ Purge(kept, First, t, AuthWindow) = SubSeq(kept, first, Len(kept))
            /\ \A i \in 1 .. first - 1 : t - kept[i][1] > AuthWindow
    BY <1>0, PurgedPairs, Zenon DEF Tries
  <1>2. PICK n \in Nat : n = Len(kept)
    BY LenProperties
  <1>3. PICK m \in 0 .. n : m = first - 1 /\ n - first + 1 = n - m
    BY <1>2
  <1>4. PICK left \in Seq(Tries) :
            /\ left = Purge(kept, First, t, AuthWindow) /\ Len(left) = n - m
            /\ \A i \in 1 .. n - m : left[i] = kept[m + i]
    <2>1. PICK part : part = SubSeq(kept, first, Len(kept))
      OBVIOUS
    <2>2. /\ part \in Seq(Tries) /\ Len(part) = n - m
          /\ \A i \in 1 .. n - m : part[i] = kept[first + i - 1]
      BY <1>2, <1>3, <2>1, DroppedFront
    <2>3. \A i \in 1 .. n - m : first + i - 1 = m + i
      BY <1>3
    <2> QED
      BY <1>1, <2>1, <2>2, <2>3
  <1>5. PICK before : before = Append(all, p)
    OBVIOUS
  <1>6. PICK after : after = Append(left, p)
    OBVIOUS
  <1>7. /\ Len(all) = gone + n
        /\ \A i \in 1 .. n : all[gone + i] = kept[i]
        /\ \A i \in 1 .. gone : clock - all[i][1] > AuthWindow
    BY <1>2 DEF LastOf
  <1>8. /\ Len(before) = gone + n + 1 /\ before[gone + n + 1] = p
        /\ \A i \in 1 .. gone + n : before[i] = all[i]
    BY <1>5, <1>7, AppendProperties
  <1>9. /\ Len(after) = n - m + 1 /\ after[n - m + 1] = p
        /\ \A i \in 1 .. n - m : after[i] = left[i]
    BY <1>4, <1>6, AppendProperties
  <1>10. ASSUME NEW i \in 1 .. n - m + 1 PROVE before[gone + m + i] = after[i]
    <2>1. CASE i = n - m + 1
      <3>1. gone + m + i = gone + n + 1
        BY <2>1
      <3> QED
        BY <1>8, <1>9, <2>1, <3>1
    <2>2. CASE i \in 1 .. n - m
      <3>1. PICK j \in 1 .. n : j = m + i
        BY <2>2
      <3>2. gone + m + i = gone + j /\ gone + j \in 1 .. gone + n
        BY <3>1
      <3>3. before[gone + j] = all[gone + j] /\ all[gone + j] = kept[j]
        BY <1>7, <1>8, <3>2
      <3>4. after[i] = left[i] /\ left[i] = kept[j]
        BY <1>4, <1>9, <2>2, <3>1
      <3> QED
        BY <3>2, <3>3, <3>4
    <2> QED
      BY <2>1, <2>2
  <1>11. ASSUME NEW i \in 1 .. gone + m PROVE clock - before[i][1] > AuthWindow
    <2>1. i \in 1 .. gone + n /\ before[i] = all[i]
      BY <1>8
    <2>2. CASE i \in 1 .. gone
      BY <1>7, <2>1, <2>2
    <2>3. CASE i > gone
      <3>1. PICK j \in 1 .. m : j = i - gone /\ i = gone + j
        BY <2>3
      <3>2. j \in 1 .. n /\ all[gone + j] = kept[j]
        BY <1>7
      <3>3. kept[j][1] \in Nat
        BY <1>2, <3>2, ElementOfSeq DEF Tries
      <3>4. t - kept[j][1] > AuthWindow
        BY <1>1, <1>3
      <3>5. clock - kept[j][1] > AuthWindow
        BY <1>0, <3>3, <3>4
      <3> QED
        BY <2>1, <3>1, <3>2, <3>5
    <2> QED
      BY <2>2, <2>3
  <1>12. LastOf(before, after, gone + m, clock)
    <2>1. Len(before) = gone + m + Len(after)
      BY <1>8, <1>9
    <2> QED
      BY <1>9, <1>10, <1>11, <2>1 DEF LastOf
  <1>13. gone + m \in Nat
    OBVIOUS
  <1> QED
    BY <1>4, <1>5, <1>6, <1>12, <1>13

(* A shorter sequence that agrees from the back is a suffix.               *)
LEMMA Reversed ==
    ASSUME NEW S, NEW s \in Seq(S)
    PROVE  /\ Reverse(s) \in Seq(S) /\ Len(Reverse(s)) = Len(s)
           /\ \A i \in 1 .. Len(s) : Reverse(s)[i] = s[Len(s) - i + 1]
  <1>1. PICK n \in Nat : n = Len(s)
    BY LenProperties
  <1>2. PICK r : r = [i \in 1 .. n |-> s[(n - i) + 1]]
    OBVIOUS
  <1>3. r = Reverse(s)
    BY <1>1, <1>2 DEF Reverse
  <1>4. r \in [1 .. n -> S]
    <2>1. \A i \in 1 .. n : (n - i) + 1 \in 1 .. n
      BY <1>1
    <2>2. \A i \in 1 .. n : s[(n - i) + 1] \in S
      BY <1>1, <2>1, ElementOfSeq
    <2> QED
      BY <1>2, <2>2
  <1>5. r \in Seq(S) /\ Len(r) = n
    <2>1. r \in Seq(S)
      BY <1>1, <1>4, SeqDef
    <2>2. DOMAIN r = 1 .. n /\ DOMAIN r = 1 .. Len(r) /\ Len(r) \in Nat
      BY <1>4, <2>1, LenProperties
    <2> QED
      BY <1>1, <2>1, <2>2
  <1> QED
    BY <1>1, <1>2, <1>3, <1>5

LEMMA AgreesFromTheBack ==
    ASSUME NEW S, NEW s \in Seq(S), NEW t \in Seq(S), Len(s) <= Len(t),
           \A i \in 1 .. Len(s) : s[Len(s) - i + 1] = t[Len(t) - i + 1]
    PROVE  IsSuffix(s, t)
  <1>1. PICK n \in Nat : n = Len(s)
    BY LenProperties
  <1>2. PICK m \in Nat : m = Len(t)
    BY LenProperties
  <1>3. PICK a \in Seq(S) : a = Reverse(s) /\ Len(a) = n /\ \A i \in 1 .. n : a[i] = s[n - i + 1]
    BY <1>1, Reversed
  <1>4. PICK b \in Seq(S) : b = Reverse(t) /\ Len(b) = m /\ \A i \in 1 .. m : b[i] = t[m - i + 1]
    BY <1>2, Reversed
  <1>5. PICK front : front = SubSeq(b, 1, n)
    OBVIOUS
  <1>6. front \in Seq(S) /\ Len(front) = n /\ \A i \in 1 .. n : front[i] = b[i]
    <2>1. n <= m
      BY <1>1, <1>2
    <2>2. \A i \in 1 .. n : b[i] \in S
      BY <1>4, <2>1, ElementOfSeq
    <2>3. /\ front \in Seq(S) /\ Len(front) = IF 1 <= n THEN n - 1 + 1 ELSE 0
          /\ \A i \in 1 .. n - 1 + 1 : front[i] = b[1 + i - 1]
      BY <1>5, <2>2, SubSeqProperties
    <2> QED
      BY <2>3
  <1>7. \A i \in 1 .. n : a[i] = front[i]
    BY <1>1, <1>2, <1>3, <1>4, <1>6
  <1>8. a = front
    BY <1>3, <1>6, <1>7, SeqEqual
  <1>9. SubSeq(a, 1, n) = a
    BY <1>3, SubSeqFull
  <1> QED
    BY <1>1, <1>2, <1>3, <1>4, <1>5, <1>8, <1>9 DEF IsSuffix, IsPrefix

(* What is not too old lies behind what is gone.                           *)
LEMMA FreshIsKept ==
    ASSUME NEW all \in Seq(Tries), NEW kept \in Seq(Tries), NEW t \in Nat,
           NEW gone \in Nat, LastOf(all, kept, gone, t),
           NEW i \in 1 .. Len(all), t - all[i][1] <= AuthWindow
    PROVE  IsSuffix(SubSeq(all, i, Len(all)), kept)
  <1>1. PICK k \in Nat : k = Len(kept)
    BY LenProperties
  <1>2. PICK n \in Nat : n = Len(all)
    BY LenProperties
  <1>3. n = gone + k /\ \A j \in 1 .. k : all[gone + j] = kept[j]
    BY <1>1, <1>2 DEF LastOf
  <1>4. i > gone
    <2> SUFFICES ASSUME i <= gone PROVE FALSE
      BY <1>2
    <2>1. i \in 1 .. gone
      BY <1>2
    <2>2. t - all[i][1] > AuthWindow
      BY <2>1 DEF LastOf
    <2>3. all[i][1] \in Nat
      BY ElementOfSeq DEF Tries
    <2> QED
      BY <2>2, <2>3, BehaviorAssumption
  <1>5. PICK s : s = SubSeq(all, i, Len(all))
    OBVIOUS
  <1>6. s \in Seq(Tries) /\ Len(s) = n - i + 1 /\ \A j \in 1 .. n - i + 1 : s[j] = all[i + j - 1]
    <2>1. i \in 1 .. Len(all) + 1
      BY <1>2
    <2> QED
      BY <1>2, <1>5, <2>1, DroppedFront
  <1>7. Len(s) <= Len(kept)
    BY <1>1, <1>2, <1>3, <1>4, <1>6
  <1>8. ASSUME NEW j \in 1 .. Len(s) PROVE s[Len(s) - j + 1] = kept[Len(kept) - j + 1]
    <2>1. i \in Nat /\ i <= n /\ j \in 1 .. n - i + 1
      BY <1>2, <1>6
    <2>2. PICK m \in 1 .. n - i + 1 : m = n - i + 1 - j + 1
      BY <2>1
    <2>3. PICK q \in 1 .. k : q = k - j + 1
      BY <1>3, <1>4, <2>1
    <2>4. i + m - 1 = gone + q
      BY <1>3, <2>1, <2>2, <2>3
    <2>5. s[m] = kept[q]
      BY <1>3, <1>6, <2>2, <2>3, <2>4
    <2>6. Len(s) - j + 1 = m /\ Len(kept) - j + 1 = q
      BY <1>1, <1>6, <2>1, <2>2, <2>3
    <2> QED
      BY <2>5, <2>6
  <1> QED
    BY <1>5, <1>6, <1>7, <1>8, AgreesFromTheBack

(* Forgetting a key forgets its history; the other entries stay.           *)
LEMMA ForgetRemembers ==
    ASSUME Inv, Attempts, NEW k \in Keys, Forget(k), now' = now
    PROVE  Attempts'
  <1>1. Present' = Present \ {k} /\ \A j \in Present' : behavior'[j] = behavior[j]
    BY ForgetMaps DEF Inv
  <1>2. made'[k] = <<>> /\ \A j \in Keys \ {k} : made'[j] = made[j]
    BY DEF Forget, Inv, TypeOK
  <1>3. Present \subseteq Keys
    BY DEF Inv, TypeOK
  <1>4. ASSUME NEW j \in Present' PROVE Remembered(j)'
    <2>1. j \in Present /\ j \in Keys \ {k}
      BY <1>1, <1>3
    <2>2. behavior'[j] = behavior[j] /\ made'[j] = made[j] /\ Remembered(j)
      BY <1>1, <1>2, <2>1 DEF Attempts
    <2> QED
      BY <2>2 DEF Remembered, LastOf
  <1>5. \A j \in Keys \ Present' : made'[j] = <<>>
    BY <1>1, <1>2 DEF Attempts
  <1> QED
    BY <1>4, <1>5 DEF Attempts

(* What a found entry remembers, an entry just made included.              *)
LEMMA FoundRemembers ==
    ASSUME Inv, Attempts, NEW k \in Keys
    PROVE  \E gone \in Nat : LastOf(made[k], Found(k).attempts, gone, now)
  <1>1. CASE k \in Present
    BY <1>1 DEF Attempts, Remembered, Found
  <1>2. CASE k \notin Present
    <2>1. made[k] = <<>> /\ Found(k).attempts = <<>>
      BY <1>2, EmptyShort DEF Attempts, Found
    <2>2. LastOf(<<>>, <<>>, 0, now)
      BY EmptySeq DEF LastOf
    <2> QED
      BY <2>1, <2>2
  <1> QED
    BY <1>1, <1>2

(* An update of one entry.                                                 *)
LEMMA PutRemembers ==
    ASSUME Inv, Attempts, NEW k \in Keys, NEW e, Short(e), Put(k, e), now' = now,
           \A j \in Keys \ {k} : made'[j] = made[j],
           \E gone \in Nat : LastOf(made'[k], e.attempts, gone, now)
    PROVE  Attempts'
  <1>1. /\ Present' = Present \cup {k} /\ behavior'[k] = e
        /\ \A j \in Present \ {k} : behavior'[j] = behavior[j]
    BY PutMaps DEF Inv
  <1>2. Present \subseteq Keys
    BY DEF Inv, TypeOK
  <1>3. Remembered(k)'
    BY <1>1 DEF Remembered, LastOf
  <1>4. ASSUME NEW j \in Present \ {k} PROVE Remembered(j)'
    <2>1. behavior'[j] = behavior[j] /\ made'[j] = made[j] /\ now' = now
      BY <1>1, <1>2
    <2>2. PICK gone \in Nat : LastOf(made[j], behavior[j].attempts, gone, now)
      BY DEF Attempts, Remembered
    <2>3. LastOf(made'[j], behavior'[j].attempts, gone, now')
      BY <2>1, <2>2
    <2> QED
      BY <2>3 DEF Remembered
  <1>5. \A j \in Keys \ Present' : made'[j] = <<>>
    BY <1>1 DEF Attempts
  <1> QED
    BY <1>1, <1>3, <1>4, <1>5 DEF Attempts

LEMMA AttemptsStay ==
    ASSUME Attempts, UNCHANGED <<behavior, made, now>>
    PROVE  Attempts'
  BY DEF Attempts, Remembered, LastOf, Present

(* Whatever an interleaving of phases, evictions and clears does, an entry *)
(* keeps every attempt that still counts: what it lost is too old.         *)
THEOREM AttemptsKeptHolds == Spec => []AttemptsKept
  <1>1. Init => Attempts
    <2> SUFFICES ASSUME Init PROVE Attempts
      OBVIOUS
    <2>1. Present = {} /\ \A k \in Keys : made[k] = <<>>
      BY DEF Init, Present
    <2> QED
      BY <2>1 DEF Attempts
  <1>2. Inv /\ Inv' /\ Attempts /\ [Next]_vars => Attempts'
    <2> SUFFICES ASSUME Inv, Inv', Attempts, [Next]_vars PROVE Attempts'
      OBVIOUS
    <2>1. CASE \E w \in Workers, k \in Keys : Evict(w, k)
      BY <2>1, ForgetRemembers DEF Evict
    <2>2. CASE \E k \in Keys : ClearRemove(k)
      BY <2>2, ForgetRemembers DEF ClearRemove
    <2>3. CASE \E w \in Workers : UpdateHits(w) \/ UpdateIds(w) \/ UpdateAuth(w)
      <3>1. PICK w \in Workers : UpdateHits(w) \/ UpdateIds(w) \/ UpdateAuth(w)
        BY <2>3
      <3>2. PICK r \in Requests : r = request[w]
        BY DEF Inv, TypeOK
      <3>3. PICK t \in Nat : t = stamp[w] /\ t <= now /\ now \in Nat
        BY DEF Inv, TypeOK
      <3>4. CASE UpdateHits(w)
        <4>1. PICK e : e = Behaved(Found(r.main), t)
          OBVIOUS
        <4>2. Put(r.main, e) /\ made' = made /\ now' = now
          BY <3>2, <3>3, <3>4, <4>1 DEF UpdateHits, Then
        <4>3. Short(e) /\ e.attempts = Found(r.main).attempts /\ r.main \in Keys
          BY <4>1, FoundShort, BehavedShort, RequestTyped DEF Inv
        <4>4. \E gone \in Nat : LastOf(made'[r.main], e.attempts, gone, now)
          BY <4>2, <4>3, FoundRemembers
        <4> QED
          BY <4>2, <4>3, <4>4, PutRemembers
      <3>5. CASE UpdateIds(w)
        <4>1. PICK e : e = Enumerated(Found(r.main), t, r.ids)
          OBVIOUS
        <4>2. Put(r.main, e) /\ made' = made /\ now' = now
          BY <3>2, <3>3, <3>5, <4>1 DEF UpdateIds, Then
        <4>3. Short(e) /\ e.attempts = Found(r.main).attempts /\ r.main \in Keys
          BY <4>1, FoundShort, EnumeratedShort, RequestTyped DEF Inv
        <4>4. \E gone \in Nat : LastOf(made'[r.main], e.attempts, gone, now)
          BY <4>2, <4>3, FoundRemembers
        <4> QED
          BY <4>2, <4>3, <4>4, PutRemembers
      <3>6. CASE UpdateAuth(w)
        <4>1. r.auth \in Keys
          BY <3>2, <3>6 DEF UpdateAuth, Ready, Inv
        <4>2. PICK k \in Keys : k = r.auth
          BY <4>1
        <4>3. PICK p \in Tries : p = <<t, r.subject>>
          BY RequestTyped DEF Tries
        <4>4. PICK kept \in Seq(Tries) : kept = Found(k).attempts
          BY FoundShort DEF Inv, Short, Entry, Tries
        <4>5. PICK e : e = Attempted(Found(k), t, r.subject)
          OBVIOUS
        <4>6. Short(e) /\ e.attempts = Append(Purge(kept, First, t, AuthWindow), p)
          <5>1. Short(Found(k)) /\ r.subject \in Subjects
            BY FoundShort, RequestTyped DEF Inv
          <5> QED
            BY <4>3, <4>4, <4>5, <5>1, AttemptedShort
        <4>7. Put(k, e) /\ now' = now /\ made' = [made EXCEPT ![k] = Append(@, p)]
          BY <3>2, <3>3, <3>6, <4>2, <4>3, <4>5 DEF UpdateAuth, Then
        <4>8. made'[k] = Append(made[k], p) /\ \A j \in Keys \ {k} : made'[j] = made[j]
          BY <4>7 DEF Inv, TypeOK
        <4>9. PICK all \in Seq(Tries) : all = made[k]
          BY DEF Inv, TypeOK, Tries
        <4>10. PICK clock \in Nat : clock = now /\ t <= clock
          BY <3>3
        <4>11. \E gone \in Nat : LastOf(made'[k], e.attempts, gone, now)
          <5>1. PICK gone \in Nat : LastOf(all, kept, gone, clock)
            BY <4>4, <4>9, <4>10, FoundRemembers
          <5>2. PICK after : after = Append(Purge(kept, First, t, AuthWindow), p)
            OBVIOUS
          <5>3. \E more \in Nat : LastOf(Append(all, p), after, more, clock)
            BY <4>10, <5>1, <5>2, AppendRemembers
          <5>4. made'[k] = Append(all, p) /\ e.attempts = after
            BY <4>6, <4>8, <4>9, <5>2
          <5> QED
            BY <4>10, <5>3, <5>4
        <4> QED
          BY <4>6, <4>7, <4>8, <4>11, PutRemembers
      <3> QED
        BY <3>1, <3>4, <3>5, <3>6
    <2>4. CASE Tick
      <3>1. UNCHANGED <<behavior, made>> /\ now' = now + 1 /\ now \in Nat /\ Present' = Present
        BY <2>4 DEF Tick, Inv, TypeOK, Present
      <3>2. ASSUME NEW k \in Present PROVE Remembered(k)'
        <4>1. PICK gone \in Nat : LastOf(made[k], behavior[k].attempts, gone, now)
          BY DEF Attempts, Remembered
        <4>2. PICK all \in Seq(Tries) : all = made[k]
          BY DEF Inv, TypeOK, Tries
        <4>3. PICK kept \in Seq(Tries) : kept = behavior[k].attempts
          BY DEF Inv, TypeOK, Entry, Tries
        <4>4. PICK t \in Nat, u \in Nat : t = now /\ u = now' /\ t <= u
          BY <3>1
        <4>5. LastOf(all, kept, gone, u)
          BY <4>1, <4>2, <4>3, <4>4, OldStays
        <4> QED
          BY <3>1, <4>2, <4>3, <4>4, <4>5 DEF Remembered
      <3> QED
        BY <3>1, <3>2 DEF Attempts
    <2>5. CASE \/ \E w \in Workers : Count(w) \/ Collect(w) \/ \E r \in Requests : Begin(w, r)
               \/ ClearCollect(Keys) \/ ClearCollect(SourceKeys) \/ UNCHANGED vars
      <3>1. UNCHANGED <<behavior, made, now>>
        BY <2>5 DEF Count, Collect, Begin, ClearCollect, vars
      <3> QED
        BY <3>1, AttemptsStay
    <2> QED
      BY <2>1, <2>2, <2>3, <2>4, <2>5 DEF Next, WorkerStep
  <1>3. Inv /\ Attempts => AttemptsKept
    <2> SUFFICES ASSUME Inv, Attempts,
                        NEW k \in Present, NEW i \in 1 .. Len(made[k]),
                        now - made[k][i][1] <= AuthWindow
                 PROVE  IsSuffix(SubSeq(made[k], i, Len(made[k])), behavior[k].attempts)
      BY DEF AttemptsKept
    <2>1. PICK gone \in Nat : LastOf(made[k], behavior[k].attempts, gone, now)
      BY DEF Attempts, Remembered
    <2>2. PICK all \in Seq(Tries), kept \in Seq(Tries), t \in Nat :
             all = made[k] /\ kept = behavior[k].attempts /\ t = now
      BY DEF Inv, TypeOK, Entry, Tries
    <2>3. LastOf(all, kept, gone, t) /\ i \in 1 .. Len(all) /\ t - all[i][1] <= AuthWindow
      BY <2>1, <2>2
    <2>4. IsSuffix(SubSeq(all, i, Len(all)), kept)
      <3>1. PICK n \in 1 .. Len(all) : n = i
        BY <2>3
      <3> QED
        BY <2>3, <3>1, FreshIsKept
    <2> QED
      BY <2>2, <2>4
  <1> QED
    BY <1>1, <1>2, <1>3, Invariant, PTL DEF Spec
=============================================================================
