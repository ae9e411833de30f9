-------------------------- MODULE MitigationProofs --------------------------
(***************************************************************************)
(* Proofs about the mitigation store: type correctness, the invariant      *)
(* RestartAgreement, and the refinement of the ledger of bans.             *)
(***************************************************************************)
EXTENDS Mitigation, TLAPS

(* A thread about to insert a ban holds its length; without this the       *)
(* expiry it computes need not be a time.                                  *)
BanInHand == \A w \in Workers : pc[w] = "insertBan" => ban[w] \in Ttls

LEMMA BanInHandStep == TypeOK /\ BanInHand /\ [Next]_vars => BanInHand'
<1> SUFFICES ASSUME TypeOK, BanInHand, [Next]_vars PROVE BanInHand'
    OBVIOUS
<1>1. CASE UNCHANGED tasks
    BY <1>1 DEF BanInHand, tasks
<1>2. ASSUME NEW w \in Workers, RequestStep(w) PROVE BanInHand'
    BY <1>2 DEF BanInHand, TypeOK, RequestStep, LookupExpired, LazyRemove, ChargeKnown,
       ChargeUnknown, InsertScore, SaveScore, InsertBan, SaveBan, Goto
<1>3. ASSUME NEW w \in Workers, AdminStep(w) PROVE BanInHand'
    BY <1>3 DEF BanInHand, TypeOK, AdminStep, ManualBlock, Unblock, ClearSource,
       ResetReputation, UnblockRow, ClearRow, DeleteScore, ClearScore, DropScore, Goto
<1>4. CASE Crash
    BY <1>4 DEF BanInHand, Crash
<1>5. QED
    BY <1>1, <1>2, <1>3, <1>4 DEF Next, vars, SweepStep, SweepStart, SweepVisit,
       SweepRemove, SweepPurge, Tick, Restart

(* Each action keeps every variable in its set.                            *)
LEMMA TypeStep == TypeOK /\ BanInHand /\ [Next]_vars => TypeOK'
<1> SUFFICES ASSUME TypeOK, BanInHand, [Next]_vars PROVE TypeOK'
    OBVIOUS
<1> USE MitigationAssumption DEF TypeOK, Ban, NoBan, Nothing, Labels, process,
        memory, database, tasks, sweep, history, Begin, Touch, Wrote, Goto
<1>1. ASSUME NEW w \in Workers, NEW i \in IPs, LookupExpired(w, i) PROVE TypeOK'
    BY <1>1 DEF LookupExpired
<1>2. ASSUME NEW w \in Workers, LazyRemove(w) PROVE TypeOK'
    BY <1>2 DEF LazyRemove
<1>3. ASSUME NEW w \in Workers, NEW i \in IPs, NEW d \in Deltas,
             NEW t \in Ttls \cup {Nothing}, ChargeKnown(w, i, d, t) PROVE TypeOK'
    BY <1>3 DEF ChargeKnown
<1>4. ASSUME NEW w \in Workers, NEW i \in IPs, NEW d \in Deltas,
             NEW t \in Ttls \cup {Nothing}, ChargeUnknown(w, i, d, t) PROVE TypeOK'
    BY <1>4 DEF ChargeUnknown
<1>5. ASSUME NEW w \in Workers, InsertScore(w) PROVE TypeOK'
    BY <1>5 DEF InsertScore, InsertScoreEffect
<1>6. ASSUME NEW w \in Workers, NEW ok \in BOOLEAN, SaveScore(w, ok) PROVE TypeOK'
    <2>1. pc' \in [Workers -> Labels] /\ src' = src /\ ban' = ban /\ held' = held
        BY <1>6 DEF SaveScore
    <2>2. score' \in [Workers -> Nat] /\ dbReputation' \in [IPs -> Nat]
        BY <1>6 DEF SaveScore
    <2>3. QED
        BY <1>6, <2>1, <2>2 DEF SaveScore
<1>7. ASSUME NEW w \in Workers, InsertBan(w) PROVE TypeOK'
    <2>1. ban[w] \in Nat
        BY <1>7 DEF InsertBan, BanInHand
    <2>2. QED
        BY <1>7, <2>1 DEF InsertBan, BlockIpFor
<1>8. ASSUME NEW w \in Workers, NEW ok \in BOOLEAN, SaveBan(w, ok) PROVE TypeOK'
    BY <1>8 DEF SaveBan
<1>9. ASSUME NEW w \in Workers, NEW i \in IPs, NEW t \in Ttls, ManualBlock(w, i, t)
      PROVE TypeOK'
    BY <1>9 DEF ManualBlock, BlockIpFor
<1>10. ASSUME NEW w \in Workers, NEW i \in IPs, Unblock(w, i) PROVE TypeOK'
    BY <1>10 DEF Unblock
<1>11. ASSUME NEW w \in Workers, NEW ok \in BOOLEAN, UnblockRow(w, ok) PROVE TypeOK'
    BY <1>11 DEF UnblockRow, DeleteBanRow
<1>12. ASSUME NEW w \in Workers, NEW i \in IPs, ClearSource(w, i) PROVE TypeOK'
    BY <1>12 DEF ClearSource
<1>13. ASSUME NEW w \in Workers, NEW ok \in BOOLEAN, ClearRow(w, ok) PROVE TypeOK'
    BY <1>13 DEF ClearRow, DeleteBanRow
<1>14. ASSUME NEW w \in Workers, ClearScore(w) PROVE TypeOK'
    BY <1>14 DEF ClearScore, DropScore
<1>15. ASSUME NEW w \in Workers, NEW i \in IPs, ResetReputation(w, i) PROVE TypeOK'
    BY <1>15 DEF ResetReputation, DropScore
<1>16. ASSUME NEW w \in Workers, NEW ok \in BOOLEAN, DeleteScore(w, ok) PROVE TypeOK'
    BY <1>16 DEF DeleteScore
<1>17. CASE SweepStep
    <2>1. CASE SweepStart
        BY <2>1 DEF SweepStart
    <2>2. ASSUME NEW i \in IPs, SweepVisit(i) PROVE TypeOK'
        BY <2>2 DEF SweepVisit
    <2>3. ASSUME NEW i \in IPs, SweepRemove(i) PROVE TypeOK'
        BY <2>3 DEF SweepRemove
    <2>4. ASSUME NEW i \in IPs, NEW ok \in BOOLEAN, SweepPurge(i, ok) PROVE TypeOK'
        BY <2>4 DEF SweepPurge, DeleteBanRow
    <2>5. QED
        BY <1>17, <2>1, <2>2, <2>3, <2>4 DEF SweepStep
<1>18. CASE Tick
    BY <1>18 DEF Tick
<1>19. CASE Crash
    <2>1. /\ pc' \in [Workers -> Labels] /\ ban' \in [Workers -> Ttls \cup {Nothing}]
          /\ score' \in [Workers -> Nat] /\ held' \in [Workers -> Ban]
        BY <1>19 DEF Crash
    <2>2. /\ blocks' \in [IPs -> Ban] /\ reputation' \in [IPs -> Nat]
          /\ owed' \in [IPs -> Nat] /\ crashes' \in Nat
        BY <1>19 DEF Crash
    <2>3. QED
        BY <1>19, <2>1, <2>2 DEF Crash
<1>20. CASE Restart
    BY <1>20 DEF Restart, Hydrate, Hydrated
<1>21. CASE UNCHANGED vars
    BY <1>21 DEF vars
<1> HIDE MitigationAssumption DEF TypeOK, Ban, NoBan, Nothing, Labels, process,
        memory, database, tasks, sweep, history, Begin, Touch, Wrote, Goto
<1>22. QED
    BY <1>1, <1>2, <1>3, <1>4, <1>5, <1>6, <1>7, <1>8, <1>9, <1>10, <1>11, <1>12,
       <1>13, <1>14, <1>15, <1>16, <1>17, <1>18, <1>19, <1>20, <1>21
       DEF Next, RequestStep, AdminStep

LEMMA Typing == Spec => [](TypeOK /\ BanInHand)
<1>1. Init => TypeOK /\ BanInHand
    BY DEF Init, TypeOK, BanInHand, Ban, NoBan, Labels
<1>2. QED
    BY <1>1, TypeStep, BanInHandStep, PTL DEF Spec

(* The variables of the store stay in their sets.                          *)
THEOREM TypeCorrect == Spec => []TypeOK
BY Typing, PTL
-----------------------------------------------------------------------------
(***************************************************************************)
(* RestartAgreement is not inductive: between its two writes a handler     *)
(* leaves the copies apart.  What is inductive says, for each source that  *)
(* is not muddied, that at most one actor is at work on it and which copy  *)
(* is ahead given where that actor stands.                                 *)
(***************************************************************************)
BansAgree(i)   == Hydrated(blocks[i]) = Hydrated(dbBlocks[i])
ScoresAgree(i) == reputation[i] = dbReputation[i]

On(w, i) == pc[w] # "idle" /\ src[w] = i

Alone(w, i) ==
    /\ \A v \in Workers : On(v, i) => v = w
    /\ i \notin reapList /\ i \notin purgeList

Ahead(w, i) ==
    /\ pc[w] \notin {"saveBan", "unblockRow", "clearRow"} => BansAgree(i)
    /\ pc[w] = "saveBan" => blocks[i] = held[w]
    /\ pc[w] \in {"unblockRow", "clearRow"} => blocks[i] = NoBan
    /\ pc[w] = "lazyRemove" => Expired(blocks[i])
    /\ pc[w] \notin {"saveScore", "deleteScore"} => ScoresAgree(i)
    /\ pc[w] = "saveScore" => score[w] = reputation[i]
    /\ pc[w] = "deleteScore" => reputation[i] = 0

SourceInv(i) ==
    /\ \A w \in Workers : On(w, i) => Alone(w, i) /\ Ahead(w, i)
    /\ (\A w \in Workers : ~On(w, i)) => BansAgree(i) /\ ScoresAgree(i)
    /\ i \in reapList => Expired(blocks[i])
    /\ i \in purgeList => blocks[i] = NoBan

DownInv ==
    ~up => /\ \A w \in Workers : pc[w] = "idle"
           /\ toScan = {} /\ reapList = {} /\ purgeList = {}

AgreementInv ==
    /\ sweepTime <= now
    /\ DownInv
    /\ up => \A i \in IPs \ muddied : SourceInv(i)

(* A step that does nothing at a source keeps what is known of it.         *)
LEMMA Frame ==
    ASSUME NEW i \in IPs, SourceInv(i), now' = now,
           blocks'[i] = blocks[i], dbBlocks'[i] = dbBlocks[i],
           reputation'[i] = reputation[i], dbReputation'[i] = dbReputation[i],
           \A v \in Workers : On(v, i)' <=> On(v, i),
           \A v \in Workers : On(v, i) =>
               pc'[v] = pc[v] /\ held'[v] = held[v] /\ score'[v] = score[v],
           i \in reapList' => i \in reapList, i \in purgeList' => i \in purgeList
    PROVE  SourceInv(i)'
<1>1. BansAgree(i)' <=> BansAgree(i)
    BY DEF BansAgree, Hydrated, Live
<1>2. ScoresAgree(i)' <=> ScoresAgree(i)
    BY DEF ScoresAgree
<1>3. Expired(blocks[i])' <=> Expired(blocks[i])
    BY DEF Expired
<1>4. ASSUME NEW v \in Workers, On(v, i)' PROVE Alone(v, i)' /\ Ahead(v, i)'
    <2>1. On(v, i) /\ Alone(v, i) /\ Ahead(v, i)
        BY <1>4 DEF SourceInv
    <2>2. Alone(v, i)'
        BY <2>1 DEF Alone
    <2>3. Ahead(v, i)'
        BY <2>1, <1>1, <1>2, <1>3 DEF Ahead
    <2>4. QED
        BY <2>2, <2>3
<1>5. QED
    BY <1>1, <1>2, <1>3, <1>4 DEF SourceInv

(* A step of thread w at another source does not disturb this one.         *)
LEMMA Elsewhere ==
    ASSUME NEW i \in IPs, NEW w \in Workers, SourceInv(i), now' = now,
           pc[w] # "idle" => src[w] # i, src'[w] # i,
           blocks'[i] = blocks[i], dbBlocks'[i] = dbBlocks[i],
           reputation'[i] = reputation[i], dbReputation'[i] = dbReputation[i],
           \A v \in Workers \ {w} :
               /\ pc'[v] = pc[v] /\ src'[v] = src[v]
               /\ held'[v] = held[v] /\ score'[v] = score[v],
           reapList' = reapList, purgeList' = purgeList
    PROVE  SourceInv(i)'
<1>1. \A v \in Workers : On(v, i)' <=> On(v, i)
    BY DEF On
<1>2. \A v \in Workers : On(v, i) => v # w
    BY DEF On
<1>3. QED
    BY <1>1, <1>2, Frame

(* After a step of the only actor at a source, what its new label says of  *)
(* the two copies is all there is to show.                                 *)
LEMMA AtSource ==
    ASSUME NEW i \in IPs, NEW w \in Workers,
           \A v \in Workers \ {w} : ~On(v, i),
           \A v \in Workers \ {w} : pc'[v] = pc[v] /\ src'[v] = src[v],
           src'[w] = i,
           i \notin reapList', i \notin purgeList',
           pc'[w] # "idle" => Ahead(w, i)',
           pc'[w] = "idle" => BansAgree(i)' /\ ScoresAgree(i)'
    PROVE  SourceInv(i)'
<1>1. \A v \in Workers : On(v, i)' => v = w
    BY DEF On
<1>2. On(w, i)' <=> pc'[w] # "idle"
    BY DEF On
<1>3. QED
    BY <1>1, <1>2 DEF SourceInv, Alone

(* An operation that begins at an untouched source finds the copies agreed.*)
LEMMA BeginAgrees ==
    ASSUME TypeOK, NEW i \in IPs, NEW w \in Workers, SourceInv(i), Begin(w, i),
           i \notin muddied'
    PROVE  /\ now' = now
           /\ \A v \in Workers : ~On(v, i)
           /\ i \notin reapList /\ i \notin purgeList
           /\ BansAgree(i) /\ ScoresAgree(i)
           /\ src'[w] = i
           /\ \A v \in Workers \ {w} : src'[v] = src[v]
<1>1. ~Touched(i)
    BY DEF Begin, Touch
<1>2. (\A v \in Workers : ~On(v, i)) /\ i \notin reapList /\ i \notin purgeList
    BY <1>1 DEF Touched, WorkerOn, On
<1>3. BansAgree(i) /\ ScoresAgree(i)
    BY <1>2 DEF SourceInv
<1>4. QED
    BY <1>2, <1>3 DEF Begin, TypeOK

(* A step of a request handler keeps what is known of each source that is not
   muddied after it.                                                       *)
LEMMA RequestAgreement ==
    ASSUME TypeOK, NEW i \in IPs, NEW w \in Workers, SourceInv(i), RequestStep(w),
           i \notin muddied'
    PROVE  SourceInv(i)'
<1> USE DEF TypeOK, Ban, process, memory, database, tasks, sweep, history
<1>1. ASSUME NEW j \in IPs, LookupExpired(w, j) PROVE SourceInv(i)'
    <2>1. CASE j = i
        <3>1. Begin(w, i)
            BY <1>1, <2>1 DEF LookupExpired
        <3>2. /\ \A v \in Workers \ {w} : pc'[v] = pc[v]
              /\ reapList' = reapList /\ purgeList' = purgeList
            BY <1>1 DEF LookupExpired, Begin, Goto
        <3>3. now' = now /\ BansAgree(i) /\ ScoresAgree(i)
            BY <3>1, BeginAgrees
        <3>4. /\ pc'[w] # "idle" => Ahead(w, i)'
              /\ pc'[w] = "idle" => BansAgree(i)' /\ ScoresAgree(i)'
            BY <1>1, <2>1, <3>3 DEF LookupExpired, Begin, Goto, Ahead, BansAgree,
               ScoresAgree, Hydrated, Live, Expired, NoBan
        <3>5. QED
            BY <3>1, <3>2, <3>4, BeginAgrees, AtSource
    <2>2. CASE j # i
        BY <1>1, <2>2, Elsewhere DEF LookupExpired, Begin, Goto, Begin
    <2>3. QED
        BY <2>1, <2>2
<1>2. ASSUME LazyRemove(w) PROVE SourceInv(i)'
    <2>1. CASE src[w] = i
        <3>1. On(w, i)
            BY <1>2, <2>1 DEF LazyRemove, On
        <3>2. /\ \A v \in Workers \ {w} : pc'[v] = pc[v]
              /\ src' = src /\ reapList' = reapList /\ purgeList' = purgeList
            BY <1>2 DEF LazyRemove, Goto
        <3>3. Alone(w, i) /\ Ahead(w, i)
            BY <3>1 DEF SourceInv
        <3>4. /\ pc'[w] # "idle" => Ahead(w, i)'
              /\ pc'[w] = "idle" => BansAgree(i)' /\ ScoresAgree(i)'
            BY <1>2, <2>1, <3>3 DEF LazyRemove, Goto, Ahead, BansAgree, ScoresAgree, Hydrated,
               Live, Expired, NoBan
        <3>5. QED
            BY <2>1, <3>2, <3>3, <3>4, AtSource DEF Alone
    <2>2. CASE src[w] # i
        BY <1>2, <2>2, Elsewhere DEF LazyRemove, Goto
    <2>3. QED
        BY <2>1, <2>2
<1>3. ASSUME NEW j \in IPs, NEW d \in Deltas, NEW t \in Ttls \cup {Nothing},
             ChargeKnown(w, j, d, t) PROVE SourceInv(i)'
    <2>1. CASE j = i
        <3>1. Begin(w, i)
            BY <1>3, <2>1 DEF ChargeKnown
        <3>2. /\ \A v \in Workers \ {w} : pc'[v] = pc[v]
              /\ reapList' = reapList /\ purgeList' = purgeList
            BY <1>3 DEF ChargeKnown, Begin, Goto
        <3>3. now' = now /\ BansAgree(i) /\ ScoresAgree(i)
            BY <3>1, BeginAgrees
        <3>4. /\ pc'[w] # "idle" => Ahead(w, i)'
              /\ pc'[w] = "idle" => BansAgree(i)' /\ ScoresAgree(i)'
            BY <1>3, <2>1, <3>3 DEF ChargeKnown, Begin, Goto, Ahead, BansAgree,
               ScoresAgree, Hydrated, Live, Expired, NoBan
        <3>5. QED
            BY <3>1, <3>2, <3>4, BeginAgrees, AtSource
    <2>2. CASE j # i
        BY <1>3, <2>2, Elsewhere DEF ChargeKnown, Begin, Goto, Begin
    <2>3. QED
        BY <2>1, <2>2
<1>4. ASSUME NEW j \in IPs, NEW d \in Deltas, NEW t \in Ttls \cup {Nothing},
             ChargeUnknown(w, j, d, t) PROVE SourceInv(i)'
    <2>1. CASE j = i
        <3>1. Begin(w, i)
            BY <1>4, <2>1 DEF ChargeUnknown
        <3>2. /\ \A v \in Workers \ {w} : pc'[v] = pc[v]
              /\ reapList' = reapList /\ purgeList' = purgeList
            BY <1>4 DEF ChargeUnknown, Begin, Goto
        <3>3. now' = now /\ BansAgree(i) /\ ScoresAgree(i)
            BY <3>1, BeginAgrees
        <3>4. /\ pc'[w] # "idle" => Ahead(w, i)'
              /\ pc'[w] = "idle" => BansAgree(i)' /\ ScoresAgree(i)'
            BY <1>4, <2>1, <3>3 DEF ChargeUnknown, Begin, Goto, Ahead, BansAgree,
               ScoresAgree, Hydrated, Live, Expired, NoBan
        <3>5. QED
            BY <3>1, <3>2, <3>4, BeginAgrees, AtSource
    <2>2. CASE j # i
        BY <1>4, <2>2, Elsewhere DEF ChargeUnknown, Begin, Goto, Begin
    <2>3. QED
        BY <2>1, <2>2
<1>5. ASSUME InsertScore(w) PROVE SourceInv(i)'
    <2>1. CASE src[w] = i
        <3>1. On(w, i)
            BY <1>5, <2>1 DEF InsertScore, On
        <3>2. /\ \A v \in Workers \ {w} : pc'[v] = pc[v]
              /\ src' = src /\ reapList' = reapList /\ purgeList' = purgeList
            BY <1>5 DEF InsertScore, InsertScoreEffect, Goto
        <3>3. Alone(w, i) /\ Ahead(w, i)
            BY <3>1 DEF SourceInv
        <3>4. /\ pc'[w] # "idle" => Ahead(w, i)'
              /\ pc'[w] = "idle" => BansAgree(i)' /\ ScoresAgree(i)'
            BY <1>5, <2>1, <3>3 DEF InsertScore, InsertScoreEffect, Goto, Ahead, BansAgree, ScoresAgree, Hydrated,
               Live, Expired, NoBan
        <3>5. QED
            BY <2>1, <3>2, <3>3, <3>4, AtSource DEF Alone
    <2>2. CASE src[w] # i
        BY <1>5, <2>2, Elsewhere DEF InsertScore, InsertScoreEffect, Goto
    <2>3. QED
        BY <2>1, <2>2
<1>6. ASSUME NEW ok \in BOOLEAN, SaveScore(w, ok) PROVE SourceInv(i)'
    <2>1. CASE src[w] = i
        <3>1. On(w, i)
            BY <1>6, <2>1 DEF SaveScore, On
        <3>2. /\ \A v \in Workers \ {w} : pc'[v] = pc[v]
              /\ src' = src /\ reapList' = reapList /\ purgeList' = purgeList
            BY <1>6 DEF SaveScore, Goto, Wrote
        <3>3. Alone(w, i) /\ Ahead(w, i)
            BY <3>1 DEF SourceInv
        <3>4. /\ pc'[w] # "idle" => Ahead(w, i)'
              /\ pc'[w] = "idle" => BansAgree(i)' /\ ScoresAgree(i)'
            BY <1>6, <2>1, <3>3 DEF SaveScore, Goto, Wrote, Ahead, BansAgree, ScoresAgree, Hydrated,
               Live, Expired, NoBan
        <3>5. QED
            BY <2>1, <3>2, <3>3, <3>4, AtSource DEF Alone
    <2>2. CASE src[w] # i
        BY <1>6, <2>2, Elsewhere DEF SaveScore, Goto, Wrote
    <2>3. QED
        BY <2>1, <2>2
<1>7. ASSUME InsertBan(w) PROVE SourceInv(i)'
    <2>1. CASE src[w] = i
        <3>1. On(w, i)
            BY <1>7, <2>1 DEF InsertBan, On
        <3>2. /\ \A v \in Workers \ {w} : pc'[v] = pc[v]
              /\ src' = src /\ reapList' = reapList /\ purgeList' = purgeList
            BY <1>7 DEF InsertBan, BlockIpFor, Goto
        <3>3. Alone(w, i) /\ Ahead(w, i)
            BY <3>1 DEF SourceInv
        <3>4. /\ pc'[w] # "idle" => Ahead(w, i)'
              /\ pc'[w] = "idle" => BansAgree(i)' /\ ScoresAgree(i)'
            BY <1>7, <2>1, <3>3 DEF InsertBan, BlockIpFor, Goto, Ahead, BansAgree, ScoresAgree, Hydrated,
               Live, Expired, NoBan
        <3>5. QED
            BY <2>1, <3>2, <3>3, <3>4, AtSource DEF Alone
    <2>2. CASE src[w] # i
        BY <1>7, <2>2, Elsewhere DEF InsertBan, BlockIpFor, Goto
    <2>3. QED
        BY <2>1, <2>2
<1>8. ASSUME NEW ok \in BOOLEAN, SaveBan(w, ok) PROVE SourceInv(i)'
    <2>1. CASE src[w] = i
        <3>1. On(w, i)
            BY <1>8, <2>1 DEF SaveBan, On
        <3>2. /\ \A v \in Workers \ {w} : pc'[v] = pc[v]
              /\ src' = src /\ reapList' = reapList /\ purgeList' = purgeList
            BY <1>8 DEF SaveBan, Goto, Wrote
        <3>3. Alone(w, i) /\ Ahead(w, i)
            BY <3>1 DEF SourceInv
        <3>4. /\ pc'[w] # "idle" => Ahead(w, i)'
              /\ pc'[w] = "idle" => BansAgree(i)' /\ ScoresAgree(i)'
            BY <1>8, <2>1, <3>3 DEF SaveBan, Goto, Wrote, Ahead, BansAgree, ScoresAgree, Hydrated,
               Live, Expired, NoBan
        <3>5. QED
            BY <2>1, <3>2, <3>3, <3>4, AtSource DEF Alone
    <2>2. CASE src[w] # i
        BY <1>8, <2>2, Elsewhere DEF SaveBan, Goto, Wrote
    <2>3. QED
        BY <2>1, <2>2
<1> HIDE DEF TypeOK, Ban, process, memory, database, tasks, sweep, history
<1>9. QED
    BY <1>1, <1>2, <1>3, <1>4, <1>5, <1>6, <1>7, <1>8 DEF RequestStep

(* A step of a admin handler keeps what is known of each source that is not
   muddied after it.                                                       *)
LEMMA AdminAgreement ==
    ASSUME TypeOK, NEW i \in IPs, NEW w \in Workers, SourceInv(i), AdminStep(w),
           i \notin muddied'
    PROVE  SourceInv(i)'
<1> USE DEF TypeOK, Ban, process, memory, database, tasks, sweep, history
<1>1. ASSUME NEW j \in IPs, NEW t \in Ttls, ManualBlock(w, j, t) PROVE SourceInv(i)'
    <2>1. CASE j = i
        <3>1. Begin(w, i)
            BY <1>1, <2>1 DEF ManualBlock
        <3>2. /\ \A v \in Workers \ {w} : pc'[v] = pc[v]
              /\ reapList' = reapList /\ purgeList' = purgeList
            BY <1>1 DEF ManualBlock, BlockIpFor, Begin, Goto
        <3>3. now' = now /\ BansAgree(i) /\ ScoresAgree(i)
            BY <3>1, BeginAgrees
        <3>4. /\ pc'[w] # "idle" => Ahead(w, i)'
              /\ pc'[w] = "idle" => BansAgree(i)' /\ ScoresAgree(i)'
            BY <1>1, <2>1, <3>3 DEF ManualBlock, BlockIpFor, Begin, Goto, Ahead, BansAgree,
               ScoresAgree, Hydrated, Live, Expired, NoBan
        <3>5. QED
            BY <3>1, <3>2, <3>4, BeginAgrees, AtSource
    <2>2. CASE j # i
        BY <1>1, <2>2, Elsewhere DEF ManualBlock, BlockIpFor, Begin, Goto, Begin
    <2>3. QED
        BY <2>1, <2>2
<1>2. ASSUME NEW j \in IPs, Unblock(w, j) PROVE SourceInv(i)'
    <2>1. CASE j = i
        <3>1. Begin(w, i)
            BY <1>2, <2>1 DEF Unblock
        <3>2. /\ \A v \in Workers \ {w} : pc'[v] = pc[v]
              /\ reapList' = reapList /\ purgeList' = purgeList
            BY <1>2 DEF Unblock, Begin, Goto
        <3>3. now' = now /\ BansAgree(i) /\ ScoresAgree(i)
            BY <3>1, BeginAgrees
        <3>4. /\ pc'[w] # "idle" => Ahead(w, i)'
              /\ pc'[w] = "idle" => BansAgree(i)' /\ ScoresAgree(i)'
            BY <1>2, <2>1, <3>3 DEF Unblock, Begin, Goto, Ahead, BansAgree,
               ScoresAgree, Hydrated, Live, Expired, NoBan
        <3>5. QED
            BY <3>1, <3>2, <3>4, BeginAgrees, AtSource
    <2>2. CASE j # i
        BY <1>2, <2>2, Elsewhere DEF Unblock, Begin, Goto, Begin
    <2>3. QED
        BY <2>1, <2>2
<1>3. ASSUME NEW j \in IPs, ClearSource(w, j) PROVE SourceInv(i)'
    <2>1. CASE j = i
        <3>1. Begin(w, i)
            BY <1>3, <2>1 DEF ClearSource
        <3>2. /\ \A v \in Workers \ {w} : pc'[v] = pc[v]
              /\ reapList' = reapList /\ purgeList' = purgeList
            BY <1>3 DEF ClearSource, Begin, Goto
        <3>3. now' = now /\ BansAgree(i) /\ ScoresAgree(i)
            BY <3>1, BeginAgrees
        <3>4. /\ pc'[w] # "idle" => Ahead(w, i)'
              /\ pc'[w] = "idle" => BansAgree(i)' /\ ScoresAgree(i)'
            BY <1>3, <2>1, <3>3 DEF ClearSource, Begin, Goto, Ahead, BansAgree,
               ScoresAgree, Hydrated, Live, Expired, NoBan
        <3>5. QED
            BY <3>1, <3>2, <3>4, BeginAgrees, AtSource
    <2>2. CASE j # i
        BY <1>3, <2>2, Elsewhere DEF ClearSource, Begin, Goto, Begin
    <2>3. QED
        BY <2>1, <2>2
<1>4. ASSUME NEW j \in IPs, ResetReputation(w, j) PROVE SourceInv(i)'
    <2>1. CASE j = i
        <3>1. Begin(w, i)
            BY <1>4, <2>1 DEF ResetReputation
        <3>2. /\ \A v \in Workers \ {w} : pc'[v] = pc[v]
              /\ reapList' = reapList /\ purgeList' = purgeList
            BY <1>4 DEF ResetReputation, DropScore, Begin, Goto
        <3>3. now' = now /\ BansAgree(i) /\ ScoresAgree(i)
            BY <3>1, BeginAgrees
        <3>4. /\ pc'[w] # "idle" => Ahead(w, i)'
              /\ pc'[w] = "idle" => BansAgree(i)' /\ ScoresAgree(i)'
            BY <1>4, <2>1, <3>3 DEF ResetReputation, DropScore, Begin, Goto, Ahead, BansAgree,
               ScoresAgree, Hydrated, Live, Expired, NoBan
        <3>5. QED
            BY <3>1, <3>2, <3>4, BeginAgrees, AtSource
    <2>2. CASE j # i
        BY <1>4, <2>2, Elsewhere DEF ResetReputation, DropScore, Begin, Goto, Begin
    <2>3. QED
        BY <2>1, <2>2
<1>5. ASSUME NEW ok \in BOOLEAN, UnblockRow(w, ok) PROVE SourceInv(i)'
    <2>1. CASE src[w] = i
        <3>1. On(w, i)
            BY <1>5, <2>1 DEF UnblockRow, On
        <3>2. /\ \A v \in Workers \ {w} : pc'[v] = pc[v]
              /\ src' = src /\ reapList' = reapList /\ purgeList' = purgeList
            BY <1>5 DEF UnblockRow, DeleteBanRow, Goto, Wrote
        <3>3. Alone(w, i) /\ Ahead(w, i)
            BY <3>1 DEF SourceInv
        <3>4. /\ pc'[w] # "idle" => Ahead(w, i)'
              /\ pc'[w] = "idle" => BansAgree(i)' /\ ScoresAgree(i)'
            BY <1>5, <2>1, <3>3 DEF UnblockRow, DeleteBanRow, Goto, Wrote, Ahead, BansAgree, ScoresAgree, Hydrated,
               Live, Expired, NoBan
        <3>5. QED
            BY <2>1, <3>2, <3>3, <3>4, AtSource DEF Alone
    <2>2. CASE src[w] # i
        BY <1>5, <2>2, Elsewhere DEF UnblockRow, DeleteBanRow, Goto, Wrote
    <2>3. QED
        BY <2>1, <2>2
<1>6. ASSUME NEW ok \in BOOLEAN, ClearRow(w, ok) PROVE SourceInv(i)'
    <2>1. CASE src[w] = i
        <3>1. On(w, i)
            BY <1>6, <2>1 DEF ClearRow, On
        <3>2. /\ \A v \in Workers \ {w} : pc'[v] = pc[v]
              /\ src' = src /\ reapList' = reapList /\ purgeList' = purgeList
            BY <1>6 DEF ClearRow, DeleteBanRow, Goto, Wrote
        <3>3. Alone(w, i) /\ Ahead(w, i)
            BY <3>1 DEF SourceInv
        <3>4. /\ pc'[w] # "idle" => Ahead(w, i)'
              /\ pc'[w] = "idle" => BansAgree(i)' /\ ScoresAgree(i)'
            BY <1>6, <2>1, <3>3 DEF ClearRow, DeleteBanRow, Goto, Wrote, Ahead, BansAgree, ScoresAgree, Hydrated,
               Live, Expired, NoBan
        <3>5. QED
            BY <2>1, <3>2, <3>3, <3>4, AtSource DEF Alone
    <2>2. CASE src[w] # i
        BY <1>6, <2>2, Elsewhere DEF ClearRow, DeleteBanRow, Goto, Wrote
    <2>3. QED
        BY <2>1, <2>2
<1>7. ASSUME ClearScore(w) PROVE SourceInv(i)'
    <2>1. CASE src[w] = i
        <3>1. On(w, i)
            BY <1>7, <2>1 DEF ClearScore, On
        <3>2. /\ \A v \in Workers \ {w} : pc'[v] = pc[v]
              /\ src' = src /\ reapList' = reapList /\ purgeList' = purgeList
            BY <1>7 DEF ClearScore, DropScore, Goto
        <3>3. Alone(w, i) /\ Ahead(w, i)
            BY <3>1 DEF SourceInv
        <3>4. /\ pc'[w] # "idle" => Ahead(w, i)'
              /\ pc'[w] = "idle" => BansAgree(i)' /\ ScoresAgree(i)'
            BY <1>7, <2>1, <3>3 DEF ClearScore, DropScore, Goto, Ahead, BansAgree, ScoresAgree, Hydrated,
               Live, Expired, NoBan
        <3>5. QED
            BY <2>1, <3>2, <3>3, <3>4, AtSource DEF Alone
    <2>2. CASE src[w] # i
        BY <1>7, <2>2, Elsewhere DEF ClearScore, DropScore, Goto
    <2>3. QED
        BY <2>1, <2>2
<1>8. ASSUME NEW ok \in BOOLEAN, DeleteScore(w, ok) PROVE SourceInv(i)'
    <2>1. CASE src[w] = i
        <3>1. On(w, i)
            BY <1>8, <2>1 DEF DeleteScore, On
        <3>2. /\ \A v \in Workers \ {w} : pc'[v] = pc[v]
              /\ src' = src /\ reapList' = reapList /\ purgeList' = purgeList
            BY <1>8 DEF DeleteScore, Goto, Wrote
        <3>3. Alone(w, i) /\ Ahead(w, i)
            BY <3>1 DEF SourceInv
        <3>4. /\ pc'[w] # "idle" => Ahead(w, i)'
              /\ pc'[w] = "idle" => BansAgree(i)' /\ ScoresAgree(i)'
            BY <1>8, <2>1, <3>3 DEF DeleteScore, Goto, Wrote, Ahead, BansAgree, ScoresAgree, Hydrated,
               Live, Expired, NoBan
        <3>5. QED
            BY <2>1, <3>2, <3>3, <3>4, AtSource DEF Alone
    <2>2. CASE src[w] # i
        BY <1>8, <2>2, Elsewhere DEF DeleteScore, Goto, Wrote
    <2>3. QED
        BY <2>1, <2>2
<1> HIDE DEF TypeOK, Ban, process, memory, database, tasks, sweep, history
<1>9. QED
    BY <1>1, <1>2, <1>3, <1>4, <1>5, <1>6, <1>7, <1>8 DEF AdminStep

(* So does a step of the sweep, which finds expired bans, removes them and *)
(* deletes their rows.                                                     *)
LEMMA SweepAgreement ==
    ASSUME TypeOK, sweepTime <= now, NEW i \in IPs, SourceInv(i), SweepStep,
           i \notin muddied'
    PROVE  SourceInv(i)'
<1> USE DEF TypeOK, Ban, process, memory, database, tasks, sweep, history
<1>1. CASE SweepStart
    BY <1>1, Frame DEF SweepStart, On
<1>2. ASSUME NEW j \in IPs, SweepVisit(j) PROVE SourceInv(i)'
    <2>1. CASE reapList' = reapList \/ j # i
        BY <1>2, <2>1, Frame DEF SweepVisit, On
    <2>2. CASE reapList' # reapList /\ j = i
        <3>1. Expired(blocks[i]) /\ ~Touched(i)
            BY <1>2, <2>2 DEF SweepVisit, Touch, Expired
        <3>2. (\A v \in Workers : ~On(v, i)) /\ i \notin purgeList
            BY <3>1 DEF Touched, WorkerOn, On
        <3>3. UNCHANGED <<now, blocks, dbBlocks, reputation, dbReputation, pc, src, purgeList>>
            BY <1>2 DEF SweepVisit
        <3>4. BansAgree(i) /\ ScoresAgree(i)
            BY <3>2 DEF SourceInv
        <3>5. BansAgree(i)' /\ ScoresAgree(i)' /\ Expired(blocks[i])'
            BY <3>1, <3>3, <3>4 DEF BansAgree, ScoresAgree, Hydrated, Live, Expired
        <3>6. QED
            BY <3>2, <3>3, <3>5 DEF SourceInv, On
    <2>3. QED
        BY <2>1, <2>2
<1>3. ASSUME NEW j \in IPs, SweepRemove(j) PROVE SourceInv(i)'
    <2>1. CASE j # i
        BY <1>3, <2>1, Frame DEF SweepRemove, On
    <2>2. CASE j = i
        <3>1. i \in reapList /\ Expired(blocks[i])
            BY <1>3, <2>2 DEF SweepRemove, SourceInv
        <3>2. \A v \in Workers : ~On(v, i)
            BY <3>1 DEF SourceInv, Alone
        <3>3. BansAgree(i) /\ ScoresAgree(i)
            BY <3>2 DEF SourceInv
        <3>4. /\ UNCHANGED <<now, dbBlocks, reputation, dbReputation, pc, src>>
              /\ blocks'[i] = NoBan /\ i \notin reapList'
            BY <1>3, <2>2 DEF SweepRemove
        <3>5. BansAgree(i)' /\ ScoresAgree(i)'
            BY <3>1, <3>3, <3>4 DEF BansAgree, ScoresAgree, Hydrated, Live, Expired, NoBan
        <3>6. QED
            BY <3>2, <3>4, <3>5 DEF SourceInv, On
    <2>3. QED
        BY <2>1, <2>2
<1>4. ASSUME NEW j \in IPs, NEW ok \in BOOLEAN, SweepPurge(j, ok) PROVE SourceInv(i)'
    <2>1. CASE j # i
        BY <1>4, <2>1, Frame DEF SweepPurge, DeleteBanRow, On
    <2>2. CASE j = i
        <3>1. i \in purgeList /\ blocks[i] = NoBan /\ i \notin reapList
            BY <1>4, <2>2 DEF SweepPurge, SourceInv
        <3>2. \A v \in Workers : ~On(v, i)
            BY <3>1 DEF SourceInv, Alone
        <3>3. BansAgree(i) /\ ScoresAgree(i)
            BY <3>2 DEF SourceInv
        <3>4. /\ UNCHANGED <<now, blocks, reputation, dbReputation, pc, src, reapList>>
              /\ dbBlocks'[i] = NoBan \/ dbBlocks'[i] = dbBlocks[i]
              /\ i \notin purgeList'
            BY <1>4, <2>2 DEF SweepPurge, DeleteBanRow
        <3>5. BansAgree(i)' /\ ScoresAgree(i)'
            BY <3>1, <3>3, <3>4 DEF BansAgree, ScoresAgree, Hydrated, Live, NoBan
        <3>6. QED
            BY <3>1, <3>2, <3>4, <3>5 DEF SourceInv, On
    <2>3. QED
        BY <2>1, <2>2
<1> HIDE DEF TypeOK, Ban, process, memory, database, tasks, sweep, history
<1>5. QED
    BY <1>1, <1>2, <1>3, <1>4 DEF SweepStep

(* Time ends the two copies of a ban together.                             *)
LEMMA TickAgreement ==
    ASSUME TypeOK, NEW i \in IPs, SourceInv(i), Tick
    PROVE  SourceInv(i)'
<1> USE DEF process, memory, database, tasks, sweep, history
<1>1. BansAgree(i) => BansAgree(i)'
    BY DEF TypeOK, Ban, Tick, BansAgree, Hydrated, Live, NoBan
<1>2. ScoresAgree(i)' <=> ScoresAgree(i)
    BY DEF Tick, ScoresAgree
<1>3. Expired(blocks[i]) => Expired(blocks[i])'
    BY DEF TypeOK, Ban, Tick, Expired
<1>4. UNCHANGED <<blocks, reputation, pc, src, held, score, reapList, purgeList>>
    BY DEF Tick
<1>5. ASSUME NEW w \in Workers, On(w, i)' PROVE Alone(w, i)' /\ Ahead(w, i)'
    <2>1. On(w, i) /\ Alone(w, i) /\ Ahead(w, i)
        BY <1>4, <1>5 DEF SourceInv, On
    <2>2. Alone(w, i)'
        BY <1>4, <2>1 DEF Alone, On
    <2>3. Ahead(w, i)'
        BY <1>1, <1>2, <1>3, <1>4, <2>1 DEF Ahead
    <2>4. QED
        BY <2>2, <2>3
<1>6. (\A w \in Workers : ~On(w, i)') => BansAgree(i)' /\ ScoresAgree(i)'
    BY <1>1, <1>2, <1>4 DEF SourceInv, On
<1>7. QED
    BY <1>3, <1>4, <1>5, <1>6 DEF SourceInv

(* A process that is down holds nothing in memory and runs nothing.        *)
LEMMA DownStep == TypeOK /\ DownInv /\ [Next]_vars => DownInv'
<1> SUFFICES ASSUME TypeOK, DownInv, [Next]_vars PROVE DownInv'
    OBVIOUS
<1> USE DEF DownInv, process, memory, database, tasks, sweep, history
<1>1. ASSUME NEW w \in Workers, RequestStep(w) PROVE DownInv'
    BY <1>1 DEF RequestStep, LookupExpired, LazyRemove, ChargeKnown,
       ChargeUnknown, InsertScore, SaveScore, InsertBan, SaveBan, Begin
<1>2. ASSUME NEW w \in Workers, AdminStep(w) PROVE DownInv'
    BY <1>2 DEF AdminStep, ManualBlock, Unblock, ClearSource,
       ResetReputation, UnblockRow, ClearRow, DeleteScore, ClearScore, Begin
<1>3. CASE SweepStep
    BY <1>3 DEF SweepStep, SweepStart, SweepVisit, SweepRemove, SweepPurge
<1>4. CASE Crash
    BY <1>4 DEF Crash
<1>5. CASE Tick \/ Restart
    BY <1>5 DEF Tick, Restart
<1>6. CASE UNCHANGED vars
    BY <1>6 DEF vars
<1>7. QED
    BY <1>1, <1>2, <1>3, <1>4, <1>5, <1>6 DEF Next

(* Sources leave muddied only at a restart.                                *)
LEMMA StepOutline ==
    ASSUME TypeOK, Next, ~Restart, ~Crash
    PROVE  up' = up /\ muddied \subseteq muddied'
BY DEF process, memory, database, tasks, sweep, history, Next, RequestStep, AdminStep,
   SweepStep, LookupExpired, LazyRemove, ChargeKnown, ChargeUnknown, InsertScore,
   SaveScore, InsertBan, SaveBan, ManualBlock, Unblock, ClearSource, ResetReputation,
   UnblockRow, ClearRow, DeleteScore, ClearScore, SweepStart, SweepVisit, SweepRemove,
   SweepPurge, Tick, Begin, Touch, Wrote

LEMMA AgreementStep ==
    TypeOK /\ TypeOK' /\ AgreementInv /\ [Next]_vars => AgreementInv'
<1> SUFFICES ASSUME TypeOK, TypeOK', AgreementInv, [Next]_vars PROVE AgreementInv'
    OBVIOUS
<1>1. DownInv'
    BY DownStep DEF AgreementInv
<1>2. CASE UNCHANGED vars
    <2>1. \A i \in IPs : SourceInv(i)' <=> SourceInv(i)
        BY <1>2 DEF vars, process, memory, database, tasks, sweep, SourceInv, On, Alone, Ahead,
           BansAgree, ScoresAgree, Hydrated, Live, Expired
    <2>2. QED
        BY <1>1, <1>2, <2>1 DEF vars, process, sweep, history, AgreementInv
<1>3. CASE Crash
    BY <1>1, <1>3 DEF Crash, AgreementInv, TypeOK
<1>4. CASE Restart
    <2>1. ASSUME NEW i \in IPs PROVE SourceInv(i)'
        <3>1. (\A v \in Workers : ~On(v, i)') /\ i \notin reapList' /\ i \notin purgeList'
            BY <1>4 DEF Restart, AgreementInv, DownInv, On, tasks, sweep
        <3>2. /\ UNCHANGED <<now, dbBlocks, dbReputation>>
              /\ blocks'[i] = Hydrated(dbBlocks[i]) /\ reputation'[i] = dbReputation[i]
            BY <1>4 DEF Restart, Hydrate, database
        <3>3. BansAgree(i)' /\ ScoresAgree(i)'
            BY <3>2 DEF TypeOK, BansAgree, ScoresAgree, Hydrated, Live, NoBan
        <3>4. QED
            BY <3>1, <3>3 DEF SourceInv
    <2>2. QED
        BY <1>1, <1>4, <2>1 DEF Restart, AgreementInv, sweep
<1>5. CASE Next /\ ~Restart /\ ~Crash
    <2>1. up' = up /\ muddied \subseteq muddied'
        BY <1>5, StepOutline
    <2>2. sweepTime' <= now'
        <3>1. CASE SweepStart
            BY <3>1 DEF SweepStart, TypeOK, process
        <3>2. CASE Tick
            BY <3>2 DEF Tick, TypeOK, sweep, AgreementInv
        <3>3. CASE ~SweepStart /\ ~Tick
            <4>1. now' = now /\ sweepTime' = sweepTime
                BY <1>5, <3>3 DEF process, memory, database, tasks, sweep, history, Next, RequestStep,
                   AdminStep, SweepStep, LookupExpired, LazyRemove, ChargeKnown,
                   ChargeUnknown, InsertScore, SaveScore, InsertBan, SaveBan,
                   ManualBlock, Unblock, ClearSource, ResetReputation, UnblockRow,
                   ClearRow, DeleteScore, ClearScore, SweepVisit,
                   SweepRemove, SweepPurge, Begin
            <4>2. QED
                BY <4>1 DEF AgreementInv
        <3>4. QED
            BY <3>1, <3>2, <3>3
    <2>3. ASSUME up, NEW i \in IPs \ muddied' PROVE SourceInv(i)'
        <3>1. SourceInv(i) /\ sweepTime <= now
            BY <2>1, <2>3 DEF AgreementInv
        <3>2. QED
            BY <1>5, <2>3, <3>1, RequestAgreement, AdminAgreement, SweepAgreement,
               TickAgreement DEF Next
    <2>4. QED
        BY <1>1, <2>1, <2>2, <2>3 DEF AgreementInv
<1>6. QED
    BY <1>2, <1>3, <1>4, <1>5

(* For every number of threads, sources and lengths, and however often the *)
(* process crashes: where operations did not overlap and the database did  *)
(* not fail, a restart would load what is in force.                        *)
THEOREM RestartAgreementHolds == Spec => []RestartAgreement
<1>1. Init => AgreementInv
    BY DEF Init, AgreementInv, DownInv, SourceInv, On, BansAgree, ScoresAgree
<1>2. AgreementInv => RestartAgreement
    BY DEF AgreementInv, SourceInv, RestartAgreement, Quiet, Touched, WorkerOn, On,
       BansAgree, ScoresAgree
<1>3. QED
    BY <1>1, <1>2, TypeCorrect, AgreementStep, PTL DEF Spec
-----------------------------------------------------------------------------
(***************************************************************************)
(* The refinement.  Every ban kept anywhere was issued for its source,     *)
(* which is what a restart relies on.                                      *)
(***************************************************************************)
IssuedInv ==
    /\ \A i \in IPs : blocks[i] \in issued[i] \cup {NoBan}
    /\ \A i \in IPs : dbBlocks[i] \in issued[i] \cup {NoBan}
    /\ \A w \in Workers : pc[w] = "saveBan" => held[w] \in issued[src[w]]

LEMMA IssuedStep == TypeOK /\ IssuedInv /\ [Next]_vars => IssuedInv'
<1> SUFFICES ASSUME TypeOK, IssuedInv, [Next]_vars PROVE IssuedInv'
    OBVIOUS
<1> USE DEF IssuedInv, process, memory, database, tasks, sweep, history
<1>1. ASSUME NEW w \in Workers, RequestStep(w), ~InsertBan(w) PROVE IssuedInv'
    BY <1>1 DEF TypeOK, RequestStep, LookupExpired, LazyRemove, ChargeKnown, ChargeUnknown,
       InsertScore, SaveScore, SaveBan, Begin, Goto
<1>2. ASSUME NEW w \in Workers, NEW i \in IPs, NEW t, BlockIpFor(w, i, t), src'[w] = i,
             UNCHANGED dbBlocks, \A v \in Workers \ {w} : pc'[v] = pc[v] /\ src'[v] = src[v]
      PROVE IssuedInv'
    BY <1>2 DEF TypeOK, BlockIpFor
<1>3. ASSUME NEW w \in Workers, InsertBan(w) PROVE IssuedInv'
    BY <1>2, <1>3 DEF TypeOK, InsertBan, Goto
<1>4. ASSUME NEW w \in Workers, NEW i \in IPs, NEW t, ManualBlock(w, i, t) PROVE IssuedInv'
    BY <1>2, <1>4 DEF TypeOK, ManualBlock, Begin, Goto
<1>5. ASSUME NEW w \in Workers, NEW i \in IPs,
             Unblock(w, i) \/ ClearSource(w, i) \/ ResetReputation(w, i) PROVE IssuedInv'
    BY <1>5 DEF TypeOK, Unblock, ClearSource, ResetReputation, DropScore, Begin, Goto
<1>6. ASSUME NEW w \in Workers, NEW ok \in BOOLEAN,
             UnblockRow(w, ok) \/ ClearRow(w, ok) \/ DeleteScore(w, ok) \/ ClearScore(w)
      PROVE IssuedInv'
    BY <1>6 DEF TypeOK, UnblockRow, ClearRow, DeleteScore, ClearScore, DropScore,
       DeleteBanRow, Goto
<1>7. CASE SweepStep
    BY <1>7 DEF TypeOK, SweepStep, SweepStart, SweepVisit, SweepRemove, SweepPurge,
       DeleteBanRow
<1>8. CASE Tick \/ Crash \/ Restart
    BY <1>8 DEF Tick, Crash, Restart, Hydrate, Hydrated
<1>9. CASE UNCHANGED vars
    BY <1>9 DEF vars
<1>10. QED
    BY <1>1, <1>3, <1>4, <1>5, <1>6, <1>7, <1>8, <1>9 DEF Next, RequestStep, AdminStep

(* What the ledger sees of a step that changes one source's ban to b.      *)
LEMMA EnforcedExcept ==
    ASSUME TypeOK, NEW j \in IPs, NEW b, blocks' = [blocks EXCEPT ![j] = b], now' = now
    PROVE  [i \in IPs |-> Hydrated(blocks[i])]' =
               [[i \in IPs |-> Hydrated(blocks[i])] EXCEPT ![j] = Hydrated(b)]
BY DEF TypeOK, Hydrated, Live

LEMMA LedgerStep ==
    TypeOK /\ BanInHand /\ DownInv /\ IssuedInv /\ [Next]_vars => [Ledger!Next]_(Ledger!ledger)
<1> SUFFICES ASSUME TypeOK, BanInHand, DownInv, IssuedInv, [Next]_vars
             PROVE  [Ledger!Next]_(Ledger!ledger)
    OBVIOUS
<1> USE DEF process, memory, database, tasks, sweep, history
<1>1. ASSUME UNCHANGED <<now, up, nextId, issued, blocks>>
      PROVE UNCHANGED Ledger!ledger
    BY <1>1 DEF Ledger!ledger, Hydrated, Live
<1>2. ASSUME NEW i \in IPs, up, UNCHANGED <<now, up, nextId, issued>>,
             blocks' = [blocks EXCEPT ![i] = NoBan]
      PROVE Ledger!Next
    <2>1. Hydrated(NoBan) = NoBan
        BY DEF TypeOK, Hydrated, Live, NoBan
    <2>2. Ledger!Lift(i)
        BY <1>2, <2>1, EnforcedExcept DEF Ledger!Lift, Ledger!NoBan, NoBan
    <2>3. QED
        BY <2>2 DEF Ledger!Next
<1>3. ASSUME NEW w \in Workers, NEW i \in IPs, NEW t \in Ttls, up,
             BlockIpFor(w, i, t), UNCHANGED <<now, up>>
      PROVE Ledger!Next
    <2>1. Ledger!Issue(i, t)
        BY <1>3, EnforcedExcept DEF Ledger!Issue, Ledger!InForce, Ledger!NoBan, NoBan, BlockIpFor,
           Hydrated, Live
    <2>2. QED
        BY <2>1 DEF Ledger!Next
<1>4. CASE Tick
    <2>1. \A i \in IPs : Hydrated(blocks[i])' =
              Ledger!InForce(Hydrated(blocks[i]), now + 1)
        BY <1>4 DEF Tick, TypeOK, Ban, Hydrated, Live, Ledger!InForce, Ledger!NoBan, NoBan
    <2>2. Ledger!Tick
        BY <1>4, <2>1 DEF Tick, Ledger!Tick, Ledger!InForce
    <2>3. QED
        BY <2>2 DEF Ledger!Next
<1>5. CASE Crash
    <2>1. Ledger!Stop
        BY <1>5 DEF Crash, Ledger!Stop, Ledger!NoBan, TypeOK, Hydrated, Live, NoBan
    <2>2. QED
        BY <2>1 DEF Ledger!Next
<1>6. CASE Restart
    <2>1. UNCHANGED <<now, nextId, issued, dbBlocks>> /\ ~up /\ up' = TRUE
        BY <1>6 DEF Restart
    <2>2. \A i \in IPs : blocks'[i] = Hydrated(dbBlocks[i])
        BY <1>6 DEF Restart, Hydrate
    <2>3. \A i \in IPs : Hydrated(blocks[i])' = Hydrated(dbBlocks[i])
        BY <2>1, <2>2 DEF TypeOK, Hydrated, Live, NoBan
    <2>4. \A i \in IPs : Hydrated(dbBlocks[i]) # NoBan =>
              Hydrated(dbBlocks[i]) \in issued[i] /\ Hydrated(dbBlocks[i]).expires > now
        BY DEF IssuedInv, Hydrated, Live
    <2>5. Ledger!Start
        BY <2>1, <2>3, <2>4 DEF Ledger!Start, Ledger!NoBan, NoBan
    <2>6. QED
        BY <2>5 DEF Ledger!Next
<1>7. ASSUME NEW w \in Workers, RequestStep(w)
      PROVE Ledger!Next \/ UNCHANGED Ledger!ledger
    <2>1. CASE LazyRemove(w)
        BY <1>2, <2>1 DEF LazyRemove, DownInv, TypeOK
    <2>2. CASE InsertBan(w)
        BY <1>3, <2>2 DEF InsertBan, BanInHand, DownInv, TypeOK
    <2>3. CASE ~LazyRemove(w) /\ ~InsertBan(w)
        BY <1>1, <1>7, <2>3 DEF RequestStep, LookupExpired, ChargeKnown, ChargeUnknown,
           InsertScore, SaveScore, SaveBan, Begin
    <2>4. QED
        BY <2>1, <2>2, <2>3
<1>8. ASSUME NEW w \in Workers, AdminStep(w)
      PROVE Ledger!Next \/ UNCHANGED Ledger!ledger
    <2>1. ASSUME NEW i \in IPs, NEW t \in Ttls, ManualBlock(w, i, t) PROVE Ledger!Next
        BY <1>3, <2>1 DEF ManualBlock, Begin
    <2>2. ASSUME NEW i \in IPs, Unblock(w, i) \/ ClearSource(w, i) PROVE Ledger!Next
        BY <1>2, <2>2 DEF Unblock, ClearSource, Begin
    <2>3. ASSUME \/ \E i \in IPs : ResetReputation(w, i)
                 \/ \E ok \in BOOLEAN : UnblockRow(w, ok) \/ ClearRow(w, ok) \/ DeleteScore(w, ok)
                 \/ ClearScore(w)
          PROVE UNCHANGED Ledger!ledger
        BY <1>1, <2>3 DEF ResetReputation, UnblockRow, ClearRow, DeleteScore, ClearScore, Begin
    <2>4. QED
        BY <1>8, <2>1, <2>2, <2>3 DEF AdminStep
<1>9. CASE SweepStep
    <2>1. ASSUME NEW i \in IPs, SweepRemove(i) PROVE Ledger!Next
        BY <1>2, <2>1 DEF SweepRemove, DownInv
    <2>2. ASSUME \/ SweepStart
                 \/ \E i \in IPs : SweepVisit(i)
                 \/ \E i \in IPs, ok \in BOOLEAN : SweepPurge(i, ok)
          PROVE UNCHANGED Ledger!ledger
        BY <1>1, <2>2 DEF SweepStart, SweepVisit, SweepPurge
    <2>3. QED
        BY <1>9, <2>1, <2>2 DEF SweepStep
<1>10. CASE UNCHANGED vars
    BY <1>1, <1>10 DEF vars
<1>11. QED
    BY <1>4, <1>5, <1>6, <1>7, <1>8, <1>9, <1>10 DEF Next

(* The store implements the ledger: sources are barred only by bans issued *)
(* for them, never longer than issued, and a restart adds nothing.         *)
THEOREM RefinesLedger == Spec => LedgerSpec
<1>1. Init => Ledger!Init
    BY DEF Init, Ledger!Init, Ledger!NoBan, NoBan, Hydrated, Live
<1>2. Init => IssuedInv /\ DownInv
    BY DEF Init, IssuedInv, DownInv
<1>3. QED
    BY <1>1, <1>2, Typing, IssuedStep, DownStep, LedgerStep, PTL
       DEF Spec, LedgerSpec, Ledger!Spec
-----------------------------------------------------------------------------
(***************************************************************************)
(* How bans end.  A newer ban has a larger id, and what the lazy removal   *)
(* and the sweep take out was expired when they saw it, and nobody has     *)
(* replaced it since, unless the source is muddied.                        *)
(***************************************************************************)
NumberedInv ==
    /\ \A i \in IPs : blocks[i].id < nextId /\ dbBlocks[i].id < nextId
    /\ \A w \in Workers : held[w].id < nextId
    /\ ~up => \A i \in IPs : blocks[i] = NoBan

LEMMA NumberedStep == TypeOK /\ TypeOK' /\ DownInv /\ NumberedInv /\ [Next]_vars => NumberedInv'
<1> SUFFICES ASSUME TypeOK, TypeOK', DownInv, NumberedInv, [Next]_vars PROVE NumberedInv'
    OBVIOUS
<1> USE DEF NumberedInv, Ban, NoBan, process, memory, database, tasks, sweep, history
<1>1. ASSUME NEW w \in Workers, NEW i \in IPs, NEW t, BlockIpFor(w, i, t), up,
             UNCHANGED <<up, dbBlocks>> PROVE NumberedInv'
    BY <1>1 DEF TypeOK, BlockIpFor
<1>2. ASSUME NEW w \in Workers, RequestStep(w) PROVE NumberedInv'
    <2>1. CASE InsertBan(w)
        BY <1>1, <2>1 DEF InsertBan, DownInv, TypeOK
    <2>2. CASE LazyRemove(w)
        BY <2>2 DEF LazyRemove, DownInv, TypeOK
    <2>3. ASSUME NEW ok \in BOOLEAN, SaveBan(w, ok) PROVE NumberedInv'
        BY <2>3 DEF SaveBan, TypeOK
    <2>4. ASSUME ~InsertBan(w), ~LazyRemove(w), ~(\E ok \in BOOLEAN : SaveBan(w, ok))
          PROVE UNCHANGED <<blocks, dbBlocks, held, nextId, up>>
        BY <1>2, <2>4 DEF RequestStep, LookupExpired, ChargeKnown, ChargeUnknown, InsertScore,
           SaveScore, Begin
    <2>5. QED
        BY <2>1, <2>2, <2>3, <2>4
<1>3. ASSUME NEW w \in Workers, AdminStep(w) PROVE NumberedInv'
    <2>1. ASSUME NEW i \in IPs, NEW t \in Ttls, ManualBlock(w, i, t) PROVE NumberedInv'
        BY <1>1, <2>1 DEF ManualBlock, Begin
    <2>2. ASSUME NEW i \in IPs, Unblock(w, i) PROVE NumberedInv'
        BY <2>2 DEF Unblock, Begin, TypeOK
    <2>3. ASSUME NEW i \in IPs, ClearSource(w, i) PROVE NumberedInv'
        BY <2>3 DEF ClearSource, Begin, TypeOK
    <2>4. ASSUME NEW ok \in BOOLEAN, UnblockRow(w, ok) PROVE NumberedInv'
        BY <2>4 DEF UnblockRow, DeleteBanRow, TypeOK
    <2>5. ASSUME NEW ok \in BOOLEAN, ClearRow(w, ok) PROVE NumberedInv'
        BY <2>5 DEF ClearRow, DeleteBanRow, TypeOK
    <2>6. ASSUME \/ \E i \in IPs : ResetReputation(w, i)
                 \/ \E ok \in BOOLEAN : DeleteScore(w, ok)
                 \/ ClearScore(w)
          PROVE UNCHANGED <<blocks, dbBlocks, held, nextId, up>>
        BY <2>6 DEF ResetReputation, DeleteScore, ClearScore, Begin
    <2>7. QED
        BY <1>3, <2>1, <2>2, <2>3, <2>4, <2>5, <2>6 DEF AdminStep
<1>4. CASE SweepStep
    <2>1. ASSUME NEW i \in IPs, SweepRemove(i) PROVE NumberedInv'
        BY <2>1 DEF SweepRemove, DownInv, TypeOK
    <2>2. ASSUME NEW i \in IPs, NEW ok \in BOOLEAN, SweepPurge(i, ok) PROVE NumberedInv'
        BY <2>2 DEF SweepPurge, DeleteBanRow, TypeOK
    <2>3. ASSUME SweepStart \/ \E i \in IPs : SweepVisit(i)
          PROVE UNCHANGED <<blocks, dbBlocks, held, nextId, up>>
        BY <2>3 DEF SweepStart, SweepVisit
    <2>4. QED
        BY <1>4, <2>1, <2>2, <2>3 DEF SweepStep
<1>5. CASE Tick
    BY <1>5 DEF Tick
<1>6. CASE Crash
    BY <1>6 DEF Crash, TypeOK
<1>7. CASE Restart
    BY <1>7 DEF Restart, Hydrate, Hydrated, TypeOK
<1>8. CASE UNCHANGED vars
    BY <1>8 DEF vars
<1>9. QED
    BY <1>2, <1>3, <1>4, <1>5, <1>6, <1>7, <1>8 DEF Next

LEMMA EndStep ==
    ASSUME TypeOK, AgreementInv, NumberedInv, [Next]_vars,
           NEW i \in IPs, up', Live(blocks[i]), blocks'[i] # blocks[i]
    PROVE  blocks'[i].id > blocks[i].id \/ Lifting(i) \/ i \in muddied
<1> USE DEF process, memory, database, tasks, sweep, history
<1>1. up
    BY DEF NumberedInv, TypeOK, Live, NoBan
<1>2. ASSUME NEW w \in Workers, NEW j \in IPs, NEW t, BlockIpFor(w, j, t)
      PROVE blocks'[i].id > blocks[i].id
    BY <1>2 DEF BlockIpFor, NumberedInv, TypeOK, Ban
<1>3. ASSUME i \notin muddied PROVE SourceInv(i)
    BY <1>1, <1>3 DEF AgreementInv
<1>4. ASSUME NEW w \in Workers, LazyRemove(w) PROVE i \in muddied
    <2>1. On(w, i) /\ pc[w] = "lazyRemove"
        BY <1>4 DEF LazyRemove, On, TypeOK
    <2>2. ~Expired(blocks[i])
        BY DEF Expired, Live, TypeOK, Ban
    <2>3. QED
        BY <1>3, <2>1, <2>2 DEF SourceInv, Ahead
<1>5. ASSUME NEW j \in IPs, SweepRemove(j) PROVE i \in muddied
    <2>1. i \in reapList
        BY <1>5 DEF SweepRemove, TypeOK
    <2>2. ~Expired(blocks[i])
        BY DEF Expired, Live, TypeOK, Ban
    <2>3. QED
        BY <1>3, <2>1, <2>2 DEF SourceInv
<1>6. ASSUME NEW w \in Workers, NEW j \in IPs, Unblock(w, j) \/ ClearSource(w, j) PROVE Lifting(i)
    <2>1. j = i /\ pc[w] = "idle" /\ src'[w] = i
        <3>1. blocks' = [blocks EXCEPT ![j] = NoBan] /\ Begin(w, j)
            BY <1>6 DEF Unblock, ClearSource
        <3>2. j = i
            BY <3>1 DEF TypeOK
        <3>3. QED
            BY <3>1, <3>2 DEF Begin, TypeOK
    <2>2. blocks[i] # NoBan
        BY DEF Live, TypeOK, NoBan
    <2>3. pc'[w] \in {"unblockRow", "clearRow"}
        BY <1>6, <2>1, <2>2 DEF Unblock, ClearSource, Goto, TypeOK
    <2>4. QED
        BY <2>1, <2>3 DEF Lifting
<1>7. ASSUME NEW w \in Workers, RequestStep(w)
      PROVE blocks'[i].id > blocks[i].id \/ i \in muddied
    <2>1. CASE InsertBan(w)
        BY <1>2, <2>1 DEF InsertBan, TypeOK
    <2>2. CASE LazyRemove(w)
        BY <1>4, <2>2
    <2>3. ASSUME ~InsertBan(w), ~LazyRemove(w) PROVE FALSE
        BY <1>7, <2>3 DEF RequestStep, LookupExpired, ChargeKnown, ChargeUnknown, InsertScore,
           SaveScore, SaveBan
    <2>4. QED
        BY <2>1, <2>2, <2>3
<1>8. ASSUME NEW w \in Workers, AdminStep(w)
      PROVE blocks'[i].id > blocks[i].id \/ Lifting(i)
    <2>1. ASSUME NEW j \in IPs, NEW t \in Ttls, ManualBlock(w, j, t)
          PROVE blocks'[i].id > blocks[i].id
        BY <1>2, <2>1 DEF ManualBlock
    <2>2. ASSUME \/ \E j \in IPs : ResetReputation(w, j)
                 \/ \E ok \in BOOLEAN : UnblockRow(w, ok) \/ ClearRow(w, ok) \/ DeleteScore(w, ok)
                 \/ ClearScore(w)
          PROVE FALSE
        BY <2>2 DEF ResetReputation, UnblockRow, ClearRow, DeleteScore, ClearScore
    <2>3. QED
        BY <1>6, <1>8, <2>1, <2>2 DEF AdminStep
<1>9. CASE SweepStep
    BY <1>5, <1>9 DEF SweepStep, SweepStart, SweepVisit, SweepPurge
<1>10. ASSUME Tick \/ Crash \/ Restart \/ UNCHANGED vars PROVE FALSE
    BY <1>1, <1>10 DEF Tick, Crash, Restart, vars
<1>11. QED
    BY <1>7, <1>8, <1>9, <1>10 DEF Next

(* For any threads, sources and lengths, a ban in force ends early only by *)
(* an operator's lift, a newer ban or the end of the process, wherever     *)
(* operations on the source did not overlap.                               *)
THEOREM BanEndsOnlyByLiftHolds == Spec => BanEndsOnlyByLift
<1>1. Init => AgreementInv /\ NumberedInv
    BY DEF Init, AgreementInv, DownInv, SourceInv, On, BansAgree, ScoresAgree, NumberedInv, NoBan
<1>2. AgreementInv => DownInv
    BY DEF AgreementInv
<1>3. TypeOK /\ AgreementInv /\ NumberedInv /\ [Next]_vars
      => [\A i \in IPs : (up' /\ Live(blocks[i]) /\ blocks'[i] # blocks[i]) =>
              blocks'[i].id > blocks[i].id \/ Lifting(i) \/ i \in muddied]_vars
    BY EndStep
<1>4. QED
    BY <1>1, <1>2, <1>3, TypeCorrect, AgreementStep, NumberedStep, PTL
       DEF Spec, BanEndsOnlyByLift
-----------------------------------------------------------------------------
(***************************************************************************)
(* How charges are counted.  A thread that found no entry inserts its      *)
(* delta as the whole score: until it does there is still none, unless     *)
(* somebody else was at work on the source.                                *)
(***************************************************************************)
AbsentInv == \A w \in Workers :
    (pc[w] = "insertScore" /\ src[w] \notin muddied) => reputation[src[w]] = 0

ChargesInv == \A i \in IPs :
    /\ reputation[i] <= owed[i]
    /\ i \notin muddied => reputation[i] = owed[i]

(* What an operation that begins leaves of another's at the same source.   *)
LEMMA BeginMuddies ==
    ASSUME NEW v \in Workers, NEW i \in IPs, Begin(v, i),
           NEW w \in Workers, pc[w] # "idle", src[w] = i
    PROVE  i \in muddied'
BY DEF Begin, Touch, Touched, WorkerOn

LEMMA ChargesStep ==
    ASSUME TypeOK, AgreementInv, AbsentInv, ChargesInv, [Next]_vars
    PROVE  AbsentInv' /\ ChargesInv'
<1> USE DEF process, memory, database, tasks, sweep, history
<1>1. ASSUME up' = up, muddied \subseteq muddied', UNCHANGED <<reputation, owed>> PROVE ChargesInv'
    BY <1>1 DEF ChargesInv
<1>2. ASSUME NEW i \in IPs \ muddied, NEW v \in Workers, NEW w \in Workers, On(v, i), On(w, i)
      PROVE v = w
    BY <1>2 DEF AgreementInv, DownInv, SourceInv, Alone, On
<1>3. CASE Crash
    BY <1>3 DEF Crash, AbsentInv, ChargesInv, TypeOK
<1>4. CASE Restart
    BY <1>4 DEF Restart, Hydrate, AbsentInv, ChargesInv, TypeOK, AgreementInv, DownInv
<1>5. CASE UNCHANGED vars
    BY <1>5 DEF vars, AbsentInv, ChargesInv
<1>6. CASE Next /\ ~Restart /\ ~Crash
    <2>1. up' = up /\ muddied \subseteq muddied'
        BY <1>6, StepOutline
    <2>2. ASSUME UNCHANGED <<reputation, pc, src>> PROVE AbsentInv'
        BY <2>1, <2>2 DEF AbsentInv
    <2>3. CASE SweepStep \/ Tick
        <3>1. UNCHANGED <<reputation, owed, pc, src>>
            BY <2>3 DEF SweepStep, SweepStart, SweepVisit, SweepRemove, SweepPurge, Tick
        <3>2. QED
            BY <1>1, <2>1, <2>2, <3>1
    <2>4. ASSUME NEW w \in Workers, RequestStep(w) \/ AdminStep(w) PROVE AbsentInv' /\ ChargesInv'
        <3> DEFINE i == src'[w]
        <3>1. /\ i \in IPs
              /\ \A v \in Workers \ {w} : pc'[v] = pc[v] /\ src'[v] = src[v]
            BY <2>4 DEF RequestStep, AdminStep, LookupExpired, LazyRemove, ChargeKnown,
               ChargeUnknown, InsertScore, SaveScore, InsertBan, SaveBan, ManualBlock, Unblock,
               ClearSource, ResetReputation, UnblockRow, ClearRow, DeleteScore, ClearScore,
               DropScore, Begin, Goto, TypeOK
        <3>2. Begin(w, i) \/ (On(w, i) /\ src' = src)
            BY <2>4 DEF RequestStep, AdminStep, LookupExpired, LazyRemove, ChargeKnown,
               ChargeUnknown, InsertScore, SaveScore, InsertBan, SaveBan, ManualBlock, Unblock,
               ClearSource, ResetReputation, UnblockRow, ClearRow, DeleteScore, ClearScore,
               Begin, On, TypeOK
        <3>3. ASSUME NEW v \in Workers \ {w}, On(v, i), i \notin muddied' PROVE FALSE
            BY <1>2, <2>1, <3>1, <3>2, <3>3, BeginMuddies DEF On
        <3>4. \A j \in IPs \ {i} : reputation'[j] = reputation[j] /\ owed'[j] = owed[j]
            BY <2>4 DEF RequestStep, AdminStep, LookupExpired, LazyRemove, ChargeKnown,
               ChargeUnknown, InsertScore, InsertScoreEffect, SaveScore, InsertBan, SaveBan,
               ManualBlock, Unblock, ClearSource, ResetReputation, UnblockRow, ClearRow,
               DeleteScore, ClearScore, DropScore, Begin, TypeOK
        <3>5. pc'[w] = "insertScore" => reputation'[i] = 0
            BY <2>4 DEF RequestStep, AdminStep, LookupExpired, LazyRemove, ChargeKnown,
               ChargeUnknown, InsertScore, SaveScore, InsertBan, SaveBan, ManualBlock, Unblock,
               ClearSource, ResetReputation, UnblockRow, ClearRow, DeleteScore, ClearScore,
               DropScore, Begin, Goto, TypeOK
        <3>6. AbsentInv'
            <4> SUFFICES ASSUME NEW v \in Workers, pc'[v] = "insertScore", src'[v] \notin muddied'
                         PROVE  reputation'[src'[v]] = 0
                BY DEF AbsentInv
            <4>1. CASE v = w
                BY <3>5, <4>1
            <4>2. CASE v # w /\ src'[v] = i
                BY <3>1, <3>3, <4>2 DEF On
            <4>3. CASE v # w /\ src'[v] # i
                BY <2>1, <3>1, <3>4, <4>3 DEF AbsentInv, TypeOK
            <4>4. QED
                BY <4>1, <4>2, <4>3
        <3>7. /\ reputation'[i] <= owed'[i]
              /\ i \notin muddied' => reputation'[i] = owed'[i]
            <4>1. CASE \E d \in Deltas, t \in Ttls \cup {Nothing} : ChargeKnown(w, i, d, t)
                <5>1. PICK d \in Deltas : /\ reputation' = [reputation EXCEPT ![i] = @ + d]
                                          /\ owed' = [owed EXCEPT ![i] = @ + d]
                    BY <4>1 DEF ChargeKnown
                <5>2. d \in Nat
                    BY MitigationAssumption
                <5>3. /\ reputation[i] \in Nat /\ owed[i] \in Nat
                      /\ reputation[i] <= owed[i]
                      /\ i \notin muddied => reputation[i] = owed[i]
                    BY <3>1 DEF ChargesInv, TypeOK
                <5>4. reputation'[i] = reputation[i] + d /\ owed'[i] = owed[i] + d
                    <6> HIDE DEF i
                    <6>1. QED
                        BY <3>1, <5>1 DEF TypeOK
                <5>5. QED
                    <6> HIDE DEF i
                    <6>1. QED
                        BY <2>1, <5>2, <5>3, <5>4
            <4>2. CASE InsertScore(w)
                BY <2>1, <4>2 DEF InsertScore, InsertScoreEffect, ChargesInv, AbsentInv, TypeOK
            <4>3. CASE ClearScore(w) \/ ResetReputation(w, i)
                <5>1. DropScore(w, i)
                    BY <4>3 DEF ClearScore, ResetReputation
                <5>2. reputation'[i] = 0 /\ owed'[i] = 0
                    <6> HIDE DEF i
                    <6>1. QED
                        BY <3>1, <5>1 DEF DropScore, TypeOK
                <5>3. QED
                    BY <5>2
            <4>4. CASE UNCHANGED <<reputation, owed>>
                BY <1>1, <2>1, <3>1, <4>4 DEF ChargesInv
            <4>5. QED
                BY <2>4, <3>1, <4>1, <4>2, <4>3, <4>4 DEF RequestStep, AdminStep, LookupExpired,
                   LazyRemove, ChargeKnown, ChargeUnknown, SaveScore, InsertBan, SaveBan,
                   ManualBlock, Unblock, ClearSource, ResetReputation, UnblockRow, ClearRow,
                   DeleteScore, Begin, TypeOK
        <3>8. ChargesInv'
            BY <2>1, <3>1, <3>4, <3>7 DEF ChargesInv
        <3>9. QED
            BY <3>6, <3>8
    <2>5. QED
        BY <1>6, <2>3, <2>4 DEF Next
<1>7. QED
    BY <1>3, <1>4, <1>5, <1>6

(* For any threads, sources and deltas, no source is charged more than its *)
(* decisions gave it, and exactly that where its operations did not        *)
(* overlap.                                                                *)
THEOREM ScoreAccountingHolds == Spec => []ScoreAccounting
<1>1. Init => AgreementInv /\ AbsentInv /\ ChargesInv
    BY DEF Init, AgreementInv, DownInv, SourceInv, On, BansAgree, ScoresAgree, AbsentInv, ChargesInv
<1>2. ChargesInv => ScoreAccounting
    BY DEF ChargesInv, ScoreAccounting
<1>3. QED
    BY <1>1, <1>2, TypeCorrect, AgreementStep, ChargesStep, PTL DEF Spec
=============================================================================
