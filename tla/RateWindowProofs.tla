-------------------------- MODULE RateWindowProofs ---------------------------
(***************************************************************************)
(* Proofs about RateWindow, for any finite set of threads, any keys and    *)
(* any policies the operators switch between.                              *)
(***************************************************************************)
EXTENDS RateWindow, FiniteSetTheorems, SequenceTheorems, WellFoundedInduction, TLAPS

TypeInv == TypeOK

LEMMA TypeInvInit == Init => TypeInv
  BY RateAssumption DEF Init, TypeInv, TypeOK, Absent

LEMMA TypeInvNext == TypeInv /\ [Next]_vars => TypeInv'
<1> SUFFICES ASSUME TypeInv, [Next]_vars PROVE TypeInv'
  OBVIOUS
<1> USE RateAssumption DEF TypeInv, TypeOK, threads, history
<1>1. ASSUME NEW w \in Workers, NEW k \in Keys, NEW p \in Policies, Check(w, k, p)
      PROVE TypeInv'
  <2>1. UNCHANGED <<now, entries, toClear, admits, overwrites, log>> /\ checks' \in Nat
    BY <1>1 DEF Check
  <2>2. pc' \in [Workers -> {"idle", "lookup", "insert"}] /\ stamp' \in [Workers -> Nat]
    BY <1>1 DEF Check
  <2>3. key' \in [Workers -> Keys] /\ policy' \in [Workers -> Policies]
    BY <1>1 DEF Check
  <2>4. stirred' \subseteq Keys
    BY <1>1 DEF Check
  <2> QED  BY <2>1, <2>2, <2>3, <2>4
<1>2. ASSUME NEW w \in Workers, Hit(w)
      PROVE TypeInv'
  <2> DEFINE k == key[w]
  <2>0. k \in Keys /\ stamp[w] \in Nat /\ now \in Nat
    OBVIOUS
  <2>1. pc' \in [Workers -> {"idle", "lookup", "insert"}]
    BY <1>2 DEF Hit, Return
  <2>2. CASE Roll(w, k)
    BY <1>2, <2>0, <2>1, <2>2, AppendProperties DEF Hit, Roll, Record
  <2>3. CASE Count(w, k)
    <3>1. entries' \in [Keys -> [count : Nat, start : Nat]]
      <4>1. entries[k] \in [count : Nat, start : Nat]
        BY <2>0
      <4>2. entries' = [entries EXCEPT ![k].count = @ + 1]
        BY <2>3 DEF Count
      <4>3. entries[k].count + 1 \in Nat
        BY <4>1
      <4> QED  BY <2>0, <4>2, <4>3
    <3>2. admits' \in [Keys -> Nat] /\ log' \in [Keys -> Seq(Nat)]
      <4>1. CASE UNCHANGED <<admits, log>>
        BY <4>1
      <4>2. CASE admits' = [admits EXCEPT ![k] = @ + 1] /\ Record(k)
        <5>1. Append(log[k], now) \in Seq(Nat)
          BY <2>0, AppendProperties
        <5>2. log' \in [Keys -> Seq(Nat)]
          BY <2>0, <4>2, <5>1 DEF Record
        <5>3. admits' \in [Keys -> Nat]
          BY <2>0, <4>2
        <5> QED  BY <5>2, <5>3
      <4> QED  BY <2>3, <4>1, <4>2 DEF Count
    <3> QED  BY <1>2, <2>1, <2>3, <3>1, <3>2 DEF Hit, Count
  <2> QED  BY <1>2, <2>2, <2>3 DEF Hit
<1>3. ASSUME NEW w \in Workers, Miss(w)
      PROVE TypeInv'
  BY <1>3 DEF Miss
<1>4. ASSUME NEW w \in Workers, InsertFirst(w)
      PROVE TypeInv'
  <2>1. key[w] \in Keys /\ stamp[w] \in Nat /\ now \in Nat
    OBVIOUS
  <2>2. /\ entries' \in [Keys -> [count : Nat, start : Nat]]
        /\ pc' \in [Workers -> {"idle", "lookup", "insert"}]
    BY <1>4, <2>1 DEF InsertFirst, Return
  <2>3. admits' \in [Keys -> Nat] /\ overwrites' \in [Keys -> Nat]
    BY <1>4, <2>1 DEF InsertFirst
  <2>4. log' \in [Keys -> Seq(Nat)]
    BY <1>4, <2>1, AppendProperties DEF InsertFirst, Record
  <2> QED  BY <1>4, <2>2, <2>3, <2>4 DEF InsertFirst
<1>5. ASSUME ClearCollect
      PROVE TypeInv'
  BY <1>5 DEF ClearCollect
<1>6. ASSUME NEW k \in Keys, ClearRemove(k)
      PROVE TypeInv'
  BY <1>6 DEF ClearRemove, Absent
<1>7. ASSUME Tick
      PROVE TypeInv'
  BY <1>7 DEF Tick
<1>8. CASE UNCHANGED vars
  BY <1>8 DEF vars
<1> QED  BY <1>1, <1>2, <1>3, <1>4, <1>5, <1>6, <1>7, <1>8 DEF Next

(* Type correctness of the request counters.                               *)
THEOREM TypeCorrect == Spec => []TypeOK
<1>1. Spec => []TypeInv
  BY TypeInvInit, TypeInvNext, PTL DEF Spec
<1> QED  BY <1>1, PTL DEF TypeInv
-----------------------------------------------------------------------------
(* Each count is worth the admissions it stands for: a window of count c   *)
(* has let at most c through, at most Cap, since it was last begun over.   *)
Worth(c) == IF c <= Cap THEN c ELSE Cap

(* What the windows begun over may have admitted.                          *)
Spent(n) == Cap * n

LEMMA SpentStep ==
    ASSUME NEW n \in Nat
    PROVE  Spent(n) \in Nat /\ Spent(n + 1) = Spent(n) + Cap
  BY RateAssumption DEF Spent

LEMMA WorthStep ==
    ASSUME NEW c \in Nat
    PROVE  /\ Worth(c) \in Nat /\ Worth(c) <= Cap
           /\ Worth(c) <= Worth(c + 1)
           /\ c + 1 <= Cap => Worth(c + 1) = Worth(c) + 1
  BY RateAssumption DEF Worth

WindowInv(k) ==
    entries[k] # Absent =>
        /\ entries[k].count >= 1
        /\ admits[k] <= Spent(overwrites[k]) + Worth(entries[k].count)
        /\ overwrites[k] + Cardinality(Late(k)) < Cardinality(Workers)

BoundInv == TypeInv /\ \A k \in Keys : WindowInv(k)

LEMMA LateFinite ==
    ASSUME NEW k \in Keys
    PROVE  /\ Late(k) \in SUBSET Workers /\ IsFiniteSet(Late(k))
           /\ Cardinality(Late(k)) \in Nat /\ Cardinality(Workers) \in Nat
           /\ Cardinality(Late(k)) <= Cardinality(Workers)
  BY RateAssumption, FS_Subset, FS_CardinalityType DEF Late

(* A thread that is not late leaves room for one.                          *)
LEMMA LateRoom ==
    ASSUME NEW k \in Keys, NEW w \in Workers, w \notin Late(k)
    PROVE  Cardinality(Late(k)) < Cardinality(Workers)
<1>1. Late(k) \subseteq Workers \ {w}
  BY DEF Late
<1>2. IsFiniteSet(Workers \ {w}) /\ Cardinality(Workers \ {w}) = Cardinality(Workers) - 1
  BY RateAssumption, FS_RemoveElement
<1>3. Cardinality(Late(k)) <= Cardinality(Workers \ {w})
  BY <1>1, <1>2, FS_Subset
<1> QED  BY <1>2, <1>3, LateFinite

LEMMA BoundInit == Init => BoundInv
  BY TypeInvInit DEF Init, BoundInv, WindowInv

LEMMA BoundNext == BoundInv /\ [Next]_vars => BoundInv'
<1> SUFFICES ASSUME BoundInv, [Next]_vars, NEW k \in Keys
             PROVE  WindowInv(k)'
  BY TypeInvNext DEF BoundInv
<1> USE RateAssumption DEF BoundInv, TypeInv, TypeOK
<1>0. WindowInv(k) /\ TypeInv'
  BY TypeInvNext
<1>1. (* what a step that keeps the window and brings nobody late preserves *)
      ASSUME entries'[k] = entries[k], admits'[k] = admits[k],
             overwrites'[k] = overwrites[k], Late(k)' \subseteq Late(k)
      PROVE  WindowInv(k)'
  <2>1. Cardinality(Late(k)') <= Cardinality(Late(k))
    BY <1>1, LateFinite, FS_Subset
  <2>2. Cardinality(Late(k)') \in Nat
    BY <1>1, LateFinite, FS_Subset, FS_CardinalityType
  <2>3. CASE entries[k] # Absent
    <3>1. overwrites[k] + Cardinality(Late(k)) < Cardinality(Workers)
      BY <1>0, <2>3 DEF WindowInv
    <3>2. overwrites[k] + Cardinality(Late(k)') < Cardinality(Workers)
      BY <2>1, <2>2, <3>1, LateFinite
    <3> QED  BY <1>0, <1>1, <2>3, <3>2 DEF WindowInv
  <2> QED  BY <1>1, <2>3 DEF WindowInv, Absent
<1>2. ASSUME NEW w \in Workers, NEW j \in Keys, NEW p \in Policies, Check(w, j, p)
      PROVE WindowInv(k)'
  BY <1>1, <1>2 DEF Check, Late
<1>3. ASSUME NEW w \in Workers, Hit(w)
      PROVE WindowInv(k)'
  <2>1. Late(k)' = Late(k) /\ w \notin Late(k)
    BY <1>3 DEF Hit, Return, Late
  <2>2. CASE key[w] # k
    BY <1>1, <1>3, <2>1, <2>2 DEF Hit, Roll, Count
  <2>3. CASE key[w] = k /\ Roll(w, k)
    <3>1. entries'[k].count = 1 /\ admits'[k] = 1 /\ overwrites'[k] = 0
      BY <2>3 DEF Roll
    <3>2. Cardinality(Late(k)) < Cardinality(Workers)
      BY <2>1, LateRoom
    <3>3. Spent(0) \in Nat /\ Worth(1) = 1
      BY SpentStep DEF Worth
    <3>4. 1 <= Spent(0) + Worth(1)
      BY <3>3
    <3>5. 0 + Cardinality(Late(k)') < Cardinality(Workers)
      BY <2>1, <3>2, LateFinite
    <3> QED  BY <3>1, <3>4, <3>5 DEF WindowInv
  <2>4. CASE key[w] = k /\ Count(w, k)
    <3>1. /\ entries'[k].count = entries[k].count + 1
          /\ overwrites'[k] = overwrites[k]
          /\ \/ admits'[k] = admits[k]
             \/ admits'[k] = admits[k] + 1 /\ entries[k].count + 1 <= policy[w].limit
      BY <2>4 DEF Count, Within
    <3>2. policy[w].limit <= Cap /\ policy[w].limit \in Nat
      OBVIOUS
    <3>3. entries[k] # Absent
      BY <1>3, <2>4 DEF Hit
    <3>4. Spent(overwrites[k]) \in Nat /\ admits[k] \in Nat /\ entries[k].count \in Nat
      BY SpentStep
    <3>5. /\ admits[k] <= Spent(overwrites[k]) + Worth(entries[k].count)
          /\ entries[k].count >= 1
          /\ overwrites[k] + Cardinality(Late(k)) < Cardinality(Workers)
      BY <1>0, <3>3 DEF WindowInv
    <3>6. admits'[k] <= Spent(overwrites[k]) + Worth(entries[k].count + 1)
      <4>0. /\ Worth(entries[k].count) \in Nat /\ Worth(entries[k].count + 1) \in Nat
            /\ Worth(entries[k].count) <= Worth(entries[k].count + 1)
            /\ entries[k].count + 1 <= Cap =>
                   Worth(entries[k].count + 1) = Worth(entries[k].count) + 1
        <5>1. entries[k].count \in Nat /\ entries[k].count + 1 \in Nat
          BY <3>4
        <5> QED  BY <5>1, WorthStep
      <4>1. CASE admits'[k] = admits[k]
        BY <3>4, <3>5, <4>0, <4>1
      <4>2. CASE admits'[k] = admits[k] + 1 /\ entries[k].count + 1 <= policy[w].limit
        <5>1. entries[k].count + 1 <= Cap
          BY <3>2, <3>4, <4>2
        <5> QED  BY <3>4, <3>5, <4>0, <4>2, <5>1
      <4> QED  BY <3>1, <4>1, <4>2
    <3>7. entries'[k].count >= 1
      BY <3>1, <3>4
    <3> QED  BY <2>1, <3>1, <3>5, <3>6, <3>7 DEF WindowInv
  <2> QED  BY <1>3, <2>2, <2>3, <2>4 DEF Hit
<1>4. ASSUME NEW w \in Workers, Miss(w)
      PROVE WindowInv(k)'
  <2>1. CASE key[w] = k
    BY <1>4, <2>1 DEF Miss, WindowInv
  <2>2. CASE key[w] # k
    BY <1>1, <1>4, <2>2 DEF Miss, Late, history
  <2> QED  BY <2>1, <2>2
<1>5. ASSUME NEW w \in Workers, InsertFirst(w)
      PROVE WindowInv(k)'
  <2>1. CASE key[w] # k
    BY <1>1, <1>5, <2>1 DEF InsertFirst, Late, Return
  <2>2. CASE key[w] = k
    <3>1. Late(k)' = Late(k) \ {w} /\ w \in Late(k)
      BY <1>5, <2>2 DEF InsertFirst, Return, Late
    <3>2. Cardinality(Late(k)') = Cardinality(Late(k)) - 1
      BY <3>1, LateFinite, FS_RemoveElement
    <3>3. entries'[k].count = 1 /\ Worth(1) = 1
      BY <1>5, <2>2 DEF InsertFirst, Worth
    <3>4. CASE entries[k] = Absent
      <4>1. admits'[k] = 1 /\ overwrites'[k] = 0
        BY <1>5, <2>2, <3>4 DEF InsertFirst
      <4>2. Spent(0) \in Nat
        BY SpentStep
      <4>3. 1 <= Spent(0) + Worth(1)
        BY <3>3, <4>2
      <4>4. 0 + Cardinality(Late(k)') < Cardinality(Workers)
        <5>1. /\ Cardinality(Late(k)) \in Nat /\ Cardinality(Workers) \in Nat
              /\ Cardinality(Late(k)) <= Cardinality(Workers)
          BY LateFinite
        <5> QED  BY <3>2, <5>1
      <4> QED  BY <3>3, <4>1, <4>3, <4>4 DEF WindowInv
    <3>5. CASE entries[k] # Absent
      <4>1. admits'[k] = admits[k] + 1 /\ overwrites'[k] = overwrites[k] + 1
        BY <1>5, <2>2, <3>5 DEF InsertFirst
      <4>0. /\ Worth(entries[k].count) \in Nat /\ Worth(entries[k].count) <= Cap
            /\ Spent(overwrites[k]) \in Nat /\ admits[k] \in Nat /\ Cap \in Nat
        BY SpentStep, WorthStep
      <4>2. admits[k] <= Spent(overwrites[k]) + Cap
        <5>1. admits[k] <= Spent(overwrites[k]) + Worth(entries[k].count)
          BY <1>0, <3>5 DEF WindowInv
        <5> QED  BY <4>0, <5>1
      <4>3. Spent(overwrites[k] + 1) = Spent(overwrites[k]) + Cap
        BY SpentStep
      <4>4. admits'[k] <= Spent(overwrites'[k]) + 1
        BY <4>0, <4>1, <4>2, <4>3
      <4>5. overwrites'[k] + Cardinality(Late(k)') < Cardinality(Workers)
        BY <1>0, <3>2, <3>5, <4>1, LateFinite DEF WindowInv
      <4> QED  BY <3>3, <4>4, <4>5 DEF WindowInv
    <3> QED  BY <3>4, <3>5
  <2> QED  BY <2>1, <2>2
<1>6. ASSUME ClearCollect
      PROVE WindowInv(k)'
  BY <1>1, <1>6 DEF ClearCollect, Late, threads, history
<1>7. ASSUME NEW j \in Keys, ClearRemove(j)
      PROVE WindowInv(k)'
  <2>1. CASE j = k
    BY <1>7, <2>1 DEF ClearRemove, WindowInv
  <2>2. CASE j # k
    BY <1>1, <1>7, <2>2 DEF ClearRemove, Late, threads
  <2> QED  BY <2>1, <2>2
<1>8. ASSUME Tick
      PROVE WindowInv(k)'
  BY <1>1, <1>8 DEF Tick, Late, threads, history
<1>9. CASE UNCHANGED vars
  BY <1>1, <1>9 DEF vars, Late, threads, history
<1> QED  BY <1>2, <1>3, <1>4, <1>5, <1>6, <1>7, <1>8, <1>9 DEF Next

(* A window admits no more than Cap requests for each thread, because only *)
(* a thread that missed the entry can begin it over.                       *)
THEOREM AdmissionBoundHolds == Spec => []AdmissionBound
<1>1. BoundInv => AdmissionBound
  <2> SUFFICES ASSUME BoundInv, NEW k \in Keys, entries[k] # Absent
               PROVE  /\ admits[k] <= Cap * (1 + overwrites[k])
                      /\ overwrites[k] + Cardinality(Late(k)) < Cardinality(Workers)
    BY DEF AdmissionBound
  <2> USE RateAssumption DEF BoundInv, TypeInv, TypeOK
  <2>0. /\ Worth(entries[k].count) \in Nat /\ Worth(entries[k].count) <= Cap
        /\ Spent(overwrites[k]) \in Nat /\ admits[k] \in Nat /\ Cap \in Nat
    BY SpentStep, WorthStep
  <2>1. admits[k] <= Spent(overwrites[k]) + Cap
    <3>1. admits[k] <= Spent(overwrites[k]) + Worth(entries[k].count)
      BY DEF WindowInv
    <3> QED  BY <2>0, <3>1
  <2>2. Spent(overwrites[k] + 1) = Spent(overwrites[k]) + Cap
    BY SpentStep
  <2>3. 1 + overwrites[k] = overwrites[k] + 1
    OBVIOUS
  <2>4. Cap * (1 + overwrites[k]) = Spent(overwrites[k] + 1)
    BY <2>3 DEF Spent
  <2>5. admits[k] <= Cap * (1 + overwrites[k])
    BY <2>1, <2>2, <2>4
  <2> QED  BY <2>5 DEF WindowInv
<1>2. Spec => []BoundInv
  BY BoundInit, BoundNext, PTL DEF Spec
<1> QED  BY <1>1, <1>2, PTL
-----------------------------------------------------------------------------
(* No window is shorter than the shortest: a set of numbers has a least    *)
(* one.                                                                    *)
LEMMA Shortest ==
    ASSUME NEW p \in Policies
    PROVE  ShortestWindow \in Nat /\ ShortestWindow <= p.window
<1> DEFINE S == {q.window : q \in Policies}
<1>1. S \subseteq Nat /\ S # {} /\ p.window \in S
  BY RateAssumption
<1>2. \E x \in S : \A y \in S : x =< y
  <2> HIDE DEF S
  <2>1. PICK x \in S : \A y \in S : ~(<<y, x>> \in OpToRel(<, Nat))
    BY <1>1, NatLessThanWellFounded, WFMin
  <2>2. \A y \in S : <<y, x>> \in OpToRel(<, Nat) <=> y < x
    BY <1>1 DEF OpToRel
  <2>3. \A y \in S : ~(y < x)
    BY <2>1, <2>2
  <2> QED  BY <1>1, <2>3
<1>3. Min(S) \in S /\ \A y \in S : Min(S) =< y
  <2> HIDE DEF S
  <2> QED  BY <1>2 DEF Min
<1> QED  BY <1>1, <1>3 DEF ShortestWindow

(* What the log of a key is when its requests did not overlap.  The last n *)
(* admissions are those of the window that began at the given time, the    *)
(* others came before it; all but the window before it came before that.   *)
Windowed(s, start, n) ==
    /\ \A i \in 1 .. Len(s) - n : s[i] <= start
    /\ \A i \in 1 .. Len(s) - n - Cap : s[i] + ShortestWindow <= start

Spaced(s) == \A i \in 1 .. Len(s) - 2 * Cap : s[i + 2 * Cap] - s[i] >= ShortestWindow

Before(s, t) == \A i \in 1 .. Len(s) : s[i] <= t

SerialInv(k) ==
    k \notin stirred =>
        /\ \A v, w \in On(k) : v = w
        /\ \A w \in On(k) : stamp[w] <= now /\ Before(log[k], stamp[w])
        /\ Before(log[k], now) /\ Spaced(log[k])
        /\ Late(k) # {} => entries[k] = Absent
        /\ entries[k] = Absent => log[k] = <<>>
        /\ entries[k] # Absent =>
               /\ overwrites[k] = 0 /\ entries[k].start <= now
               /\ Windowed(log[k], entries[k].start, admits[k])

(* One admission more, in the window or as the first of the next.          *)
LEMMA Appended ==
    ASSUME NEW s \in Seq(Nat), NEW t \in Nat
    PROVE  /\ Append(s, t) \in Seq(Nat) /\ Len(Append(s, t)) = Len(s) + 1 /\ Len(s) \in Nat
           /\ \A i \in 1 .. Len(s) : Append(s, t)[i] = s[i] /\ s[i] \in Nat
           /\ Append(s, t)[Len(s) + 1] = t
  BY AppendProperties, LenProperties, ElementOfSeq

LEMMA AdmittedInWindow ==
    ASSUME NEW s \in Seq(Nat), NEW t \in Nat, NEW start \in Nat, NEW n \in Nat, ShortestWindow \in Nat,
           Windowed(s, start, n), Spaced(s), start <= t, n + 1 <= Cap
    PROVE  Windowed(Append(s, t), start, n + 1) /\ Spaced(Append(s, t))
<1> USE RateAssumption, Appended
<1> DEFINE z == Append(s, t)
<1>1. Windowed(z, start, n + 1)
  BY DEF Windowed
<1>2. ASSUME NEW i \in 1 .. Len(z) - 2 * Cap PROVE z[i + 2 * Cap] - z[i] >= ShortestWindow
  <2>1. CASE i + 2 * Cap <= Len(s)
    BY <2>1 DEF Spaced
  <2>2. CASE i + 2 * Cap = Len(s) + 1
    <3>1. i \in 1 .. Len(s) - n - Cap /\ i \in 1 .. Len(s)
      BY <2>2
    <3>2. s[i] + ShortestWindow <= start /\ s[i] \in Nat /\ z[i] = s[i] /\ z[i + 2 * Cap] = t
      BY <2>2, <3>1 DEF Windowed
    <3> QED  BY <3>2
  <2> QED  BY <2>1, <2>2
<1> QED  BY <1>1, <1>2 DEF Spaced

LEMMA AdmittedAsFirst ==
    ASSUME NEW s \in Seq(Nat), NEW t \in Nat, NEW start \in Nat, NEW n \in Nat, NEW next \in Nat,
           ShortestWindow \in Nat, Windowed(s, start, n), Spaced(s), Before(s, next),
           n <= Cap, start + ShortestWindow <= next, next <= t
    PROVE  Windowed(Append(s, t), next, 1) /\ Spaced(Append(s, t))
<1> USE RateAssumption, Appended
<1> DEFINE z == Append(s, t)
<1>1. ASSUME NEW i \in 1 .. Len(s) - Cap
      PROVE  s[i] \in Nat /\ s[i] + ShortestWindow <= next /\ z[i] = s[i]
  <2>1. i \in 1 .. Len(s) - n /\ i \in 1 .. Len(s)
    OBVIOUS
  <2> QED  BY <2>1 DEF Windowed
<1>2. Windowed(z, next, 1)
  <2>1. \A i \in 1 .. Len(z) - 1 : z[i] <= next
    BY DEF Before
  <2>2. \A i \in 1 .. Len(z) - 1 - Cap : z[i] + ShortestWindow <= next
    BY <1>1
  <2> QED  BY <2>1, <2>2 DEF Windowed
<1>3. ASSUME NEW i \in 1 .. Len(z) - 2 * Cap PROVE z[i + 2 * Cap] - z[i] >= ShortestWindow
  <2>1. CASE i + 2 * Cap <= Len(s)
    BY <2>1 DEF Spaced
  <2>2. CASE i + 2 * Cap = Len(s) + 1
    <3>1. i \in 1 .. Len(s) - Cap
      BY <2>2
    <3> QED  BY <1>1, <2>2, <3>1
  <2>3. i + 2 * Cap <= Len(s) \/ i + 2 * Cap = Len(s) + 1
    OBVIOUS
  <2> QED  BY <2>1, <2>2, <2>3
<1> QED  BY <1>2, <1>3 DEF Spaced

LEMMA SerialStep ==
    ASSUME BoundInv, \A k \in Keys : SerialInv(k), [Next]_vars, NEW k \in Keys, k \notin stirred'
    PROVE  SerialInv(k)'
<1> USE DEF BoundInv, TypeInv, TypeOK
<1>0. k \notin stirred /\ SerialInv(k) /\ WindowInv(k)
  BY DEF Next, Check, Hit, Miss, InsertFirst, ClearCollect, ClearRemove, Tick, history, vars
<1>1. ASSUME UNCHANGED <<entries, admits, overwrites, log>>, now' \in Nat, now <= now',
             On(k)' \subseteq On(k), Late(k)' \subseteq Late(k), \A w \in On(k) : stamp'[w] = stamp[w]
      PROVE  SerialInv(k)'
  <2>1. \A i \in 1 .. Len(log[k]) : log[k][i] \in Nat
    BY ElementOfSeq
  <2>2. Before(log[k], now) => Before(log[k], now')
    BY <1>1, <2>1 DEF Before
  <2>3. \A t \in Nat : t <= now => t <= now'
    BY <1>1
  <2>4. entries[k].start \in Nat /\ \A w \in On(k) : stamp[w] \in Nat
    BY DEF On
  <2>5. \A w \in On(k) : stamp[w] <= now => stamp'[w] <= now'
    BY <1>1, <2>3, <2>4
  <2> QED  BY <1>0, <1>1, <2>2, <2>3, <2>4, <2>5 DEF SerialInv
<1>2. ASSUME NEW w \in Workers, NEW j \in Keys, NEW p \in Policies, Check(w, j, p)
      PROVE SerialInv(k)'
  <2>1. CASE j # k
    <3>1. On(k)' = On(k) /\ Late(k)' = Late(k) /\ \A v \in On(k) : stamp'[v] = stamp[v]
      BY <1>2, <2>1 DEF Check, On, Late
    <3> QED  BY <1>1, <1>2, <3>1 DEF Check
  <2>2. CASE j = k
    <3>1. On(k) = {} /\ On(k)' = {w} /\ stamp'[w] = now /\ Late(k)' = {}
      BY <1>2, <2>2 DEF Check, On, Late
    <3> QED  BY <1>0, <1>2, <3>1 DEF Check, SerialInv
  <2> QED  BY <2>1, <2>2
<1>3. ASSUME NEW w \in Workers, pc[w] # "idle", pc'[w] = "idle" \/ pc'[w] # "idle", key[w] # k,
             UNCHANGED <<now, key, stamp>>, \A v \in Workers \ {w} : pc'[v] = pc[v],
             entries'[k] = entries[k], admits'[k] = admits[k], overwrites'[k] = overwrites[k],
             log'[k] = log[k]
      PROVE  SerialInv(k)'
  <2>1. On(k)' = On(k) /\ Late(k)' = Late(k)
    BY <1>3 DEF On, Late
  <2> QED  BY <1>0, <1>3, <2>1 DEF SerialInv, Before, Windowed, Spaced
<1>4. ASSUME NEW w \in Workers, key[w] = k, pc[w] # "idle"
      PROVE  /\ On(k) = {w} /\ w \in On(k) /\ stamp[w] \in Nat /\ now \in Nat /\ stamp[w] <= now
             /\ Before(log[k], stamp[w]) /\ Before(log[k], now) /\ Spaced(log[k])
             /\ log[k] \in Seq(Nat) /\ policy[w] \in Policies
  BY <1>0, <1>4 DEF On, SerialInv
<1>5. ASSUME NEW w \in Workers, key[w] = k, pc[w] # "idle", Return(w), now' = now, key' = key,
             Spaced(log'[k]), Before(log'[k], now), entries'[k] # Absent, overwrites'[k] = 0,
             entries'[k].start <= now, Windowed(log'[k], entries'[k].start, admits'[k])
      PROVE  SerialInv(k)'
  <2>1. On(k)' = {} /\ Late(k)' = {}
    BY <1>4, <1>5 DEF On, Late, Return
  <2> QED  BY <1>5, <2>1 DEF SerialInv
<1>6. ASSUME NEW w \in Workers, Hit(w) PROVE SerialInv(k)'
  <2>1. CASE key[w] # k
    BY <1>3, <1>6, <2>1 DEF Hit, Return, Roll, Count, Record
  <2>2. CASE key[w] = k
    <3> DEFINE e == entries[k]
    <3>1. /\ e # Absent /\ overwrites[k] = 0 /\ e.start <= now /\ e.start \in Nat /\ e.count \in Nat
          /\ Windowed(log[k], e.start, admits[k]) /\ admits[k] \in Nat /\ pc[w] # "idle"
      BY <1>0, <1>6, <2>2 DEF Hit, SerialInv
    <3>2. admits[k] <= Worth(e.count) /\ e.count >= 1
      <4>1. admits[k] <= Spent(0) + Worth(e.count) /\ e.count >= 1
        BY <1>0, <3>1 DEF WindowInv
      <4>2. Spent(0) = 0
        BY RateAssumption DEF Spent
      <4>3. e.count \in Nat
        BY <3>1
      <4>4. Worth(e.count) \in Nat
        <5> HIDE DEF e
        <5> QED  BY <4>3, WorthStep
      <4> QED  BY <3>1, <4>1, <4>2, <4>4
    <3>3. CASE Roll(w, k)
      <4>1. /\ entries'[k] = [count |-> 1, start |-> stamp[w]] /\ admits'[k] = 1 /\ overwrites'[k] = 0
            /\ log'[k] = Append(log[k], now)
        BY <3>3 DEF Roll, Record
      <4>2. e.start + ShortestWindow <= stamp[w] /\ ShortestWindow \in Nat
        <5>1. stamp[w] - e.start >= policy[w].window /\ policy[w].window \in Nat
          BY <1>4, <2>2, <3>1, <3>3, RateAssumption DEF Roll, Elapsed
        <5>2. ShortestWindow \in Nat /\ ShortestWindow <= policy[w].window
          BY <1>4, <2>2, <3>1, Shortest
        <5> QED  BY <1>4, <2>2, <3>1, <5>1, <5>2
      <4>3. admits[k] <= Cap
        <5>1. Worth(e.count) \in Nat /\ Worth(e.count) <= Cap
          <6> HIDE DEF e
          <6> QED  BY <3>1, WorthStep
        <5> QED  BY <3>1, <3>2, <5>1, RateAssumption
      <4>4. Windowed(log'[k], stamp[w], 1) /\ Spaced(log'[k])
        BY <1>4, <2>2, <3>1, <4>1, <4>2, <4>3, AdmittedAsFirst
      <4>5. log'[k] \in Seq(Nat) /\ Before(log'[k], now)
        BY <1>4, <2>2, <3>1, <4>1, Appended DEF Before
      <4>6. entries'[k] # Absent /\ entries'[k].start = stamp[w] /\ stamp[w] <= now
        BY <1>4, <2>2, <3>1, <4>1 DEF Absent
      <4> QED  BY <1>5, <1>6, <2>2, <3>1, <4>1, <4>4, <4>5, <4>6 DEF Hit
    <3>4. CASE Count(w, k)
      <4>1. entries'[k].start = e.start /\ entries'[k].count = e.count + 1 /\ overwrites'[k] = overwrites[k]
        BY <3>4 DEF Count
      <4>0. entries'[k] # Absent
        BY <3>1, <3>2, <4>1 DEF Absent
      <4>2. CASE admits'[k] = admits[k] /\ log'[k] = log[k]
        <5>1. Spaced(log'[k]) /\ Before(log'[k], now) /\ Windowed(log'[k], e.start, admits'[k])
          BY <1>4, <2>2, <3>1, <4>2
        <5> QED  BY <1>5, <1>6, <2>2, <3>1, <4>0, <4>1, <5>1 DEF Hit
      <4>3. CASE /\ admits'[k] = admits[k] + 1 /\ log'[k] = Append(log[k], now)
                 /\ e.count + 1 <= policy[w].limit
        <5>1. e.count + 1 <= Cap
          BY <1>4, <2>2, <3>1, <4>3, RateAssumption
        <5>2. admits[k] + 1 <= Cap
          BY <3>1, <3>2, <5>1, RateAssumption DEF Worth
        <5>3. ShortestWindow \in Nat
          BY <1>4, <2>2, <3>1, Shortest
        <5>4. Windowed(log'[k], e.start, admits'[k]) /\ Spaced(log'[k])
          BY <1>4, <2>2, <3>1, <4>3, <5>2, <5>3, AdmittedInWindow
        <5>5. log'[k] \in Seq(Nat) /\ Before(log'[k], now)
          BY <1>4, <2>2, <3>1, <4>3, Appended DEF Before
        <5> QED  BY <1>5, <1>6, <2>2, <3>1, <4>0, <4>1, <5>4, <5>5 DEF Hit
      <4> QED  BY <3>4, <4>2, <4>3 DEF Count, Within, Record
    <3> QED  BY <1>6, <2>2, <3>3, <3>4 DEF Hit
  <2> QED  BY <2>1, <2>2
<1>7. ASSUME NEW w \in Workers, Miss(w) PROVE SerialInv(k)'
  <2>1. CASE key[w] # k
    BY <1>3, <1>7, <2>1 DEF Miss, history
  <2>2. CASE key[w] = k
    <3>1. On(k)' = On(k) /\ entries[k] = Absent
      BY <1>7, <2>2 DEF Miss, On
    <3> QED  BY <1>0, <1>7, <3>1 DEF Miss, history, SerialInv
  <2> QED  BY <2>1, <2>2
<1>8. ASSUME NEW w \in Workers, InsertFirst(w) PROVE SerialInv(k)'
  <2>1. CASE key[w] # k
    BY <1>3, <1>8, <2>1 DEF InsertFirst, Return, Record
  <2>2. CASE key[w] = k
    <3>1. entries[k] = Absent /\ log[k] = <<>> /\ pc[w] # "idle"
      BY <1>0, <1>8, <2>2 DEF InsertFirst, SerialInv, Late
    <3>2. /\ entries'[k] = [count |-> 1, start |-> stamp[w]] /\ admits'[k] = 1 /\ overwrites'[k] = 0
          /\ log'[k] = Append(<<>>, now)
      BY <1>8, <2>2, <3>1 DEF InsertFirst, Record
    <3>3. /\ log'[k] \in Seq(Nat) /\ Len(log'[k]) = 1 /\ log'[k][1] = now
      BY <1>4, <2>2, <3>1, <3>2
    <3>4. Windowed(log'[k], stamp[w], 1) /\ Spaced(log'[k]) /\ Before(log'[k], now)
      BY <3>3, <1>4, <2>2, <3>1, RateAssumption DEF Windowed, Spaced, Before
    <3>5. entries'[k] # Absent /\ entries'[k].start = stamp[w] /\ stamp[w] <= now
      BY <1>4, <2>2, <3>1, <3>2 DEF Absent
    <3> QED  BY <1>5, <1>8, <2>2, <3>1, <3>2, <3>4, <3>5 DEF InsertFirst
  <2> QED  BY <2>1, <2>2
<1>9. ASSUME NEW j \in Keys, ClearRemove(j) PROVE SerialInv(k)'
  <2>1. j # k
    BY <1>9 DEF ClearRemove
  <2>2. On(k)' = On(k) /\ Late(k)' = Late(k)
    BY <1>9 DEF ClearRemove, threads, On, Late
  <2> QED  BY <1>0, <1>9, <2>1, <2>2 DEF ClearRemove, threads, SerialInv
<1>10. CASE ClearCollect \/ Tick \/ UNCHANGED vars
  BY <1>1, <1>10 DEF ClearCollect, Tick, vars, threads, history, On, Late
<1> QED  BY <1>2, <1>6, <1>7, <1>8, <1>9, <1>10 DEF Next

(* A key whose requests did not overlap admits at most two windows' worth  *)
(* in any span as long as the shortest window, for any limits and windows, *)
(* changed at any time.                                                    *)
THEOREM SlidingBoundHolds == Spec => []SlidingBound
<1> DEFINE Serial == \A k \in Keys : SerialInv(k)
<1>1. Init => Serial
  <2> SUFFICES ASSUME Init, NEW k \in Keys PROVE SerialInv(k)
    OBVIOUS
  <2>1. log[k] = <<>> /\ On(k) = {} /\ Late(k) = {} /\ entries[k] = Absent
    BY DEF Init, On, Late
  <2>2. Before(log[k], now) /\ Spaced(log[k])
    BY <2>1, RateAssumption DEF Before, Spaced
  <2> QED  BY <2>1, <2>2 DEF SerialInv
<1>2. BoundInv /\ Serial /\ [Next]_vars => Serial'
  <2> SUFFICES ASSUME BoundInv, Serial, [Next]_vars, NEW k \in Keys PROVE SerialInv(k)'
    OBVIOUS
  <2>1. CASE k \in stirred'
    BY <2>1 DEF SerialInv
  <2>2. CASE k \notin stirred'
    BY <2>2, SerialStep
  <2> QED  BY <2>1, <2>2
<1>3. Serial => SlidingBound
  BY DEF SerialInv, Spaced, SlidingBound
<1> HIDE DEF Serial
<1>4. Spec => [](BoundInv /\ Serial)
  BY <1>1, <1>2, BoundInit, BoundNext, PTL DEF Spec
<1> QED  BY <1>3, <1>4, PTL
=============================================================================
