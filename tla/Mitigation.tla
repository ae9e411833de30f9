----------------------------- MODULE Mitigation -----------------------------
(***************************************************************************)
(* The mitigation store of the firewall: temporary source bans and source  *)
(* reputation, each kept twice, in the concurrent maps of                  *)
(* TemporaryMitigationStore and in SQLite.  Request and admin threads run  *)
(* the handlers one map access or one database statement at a time, a      *)
(* background task sweeps expired bans, the process crashes and restarts,  *)
(* and any database statement may fail.                                    *)
(***************************************************************************)
EXTENDS Integers

CONSTANTS
    Workers,     \* threads that run request and admin handlers
    IPs,         \* source addresses
    Ttls,        \* ban lengths a policy or an operator asks for
    Deltas,      \* reputation deltas a decision can carry
    MaxTime,     \* bound: the clock stops there
    MaxOps,      \* bound: operations begun
    MaxCrashes   \* bound: process crashes

ASSUME MitigationAssumption ==
    /\ Ttls \subseteq Nat
    /\ Deltas \subseteq Nat \ {0}
    /\ MaxTime \in Nat /\ MaxOps \in Nat /\ MaxCrashes \in Nat

VARIABLES
    now,            \* wall clock
    up,             \* the process serves
    blocks,         \* memory: ban of each source
    reputation,     \* memory: suspicious score, 0 when there is no entry
    dbBlocks,       \* active_mitigations rows
    dbReputation,   \* source_reputation rows, 0 when there is no row
    pc, src,        \* what each thread is about to do, and for which source
    ban, score,     \* ban still to apply, score (or delta) in hand
    held,           \* ban inserted in, or taken out of, memory whose row is due
    toScan,         \* sweep: entries not visited yet
    sweepTime,      \* sweep: the clock it read before visiting them
    reapList,       \* sweep: found expired, to be removed from memory
    purgeList,      \* sweep: removed from memory, row to be deleted
    nextId, ops, crashes,
    issued,         \* history: every ban issued for a source
    owed,           \* history: deltas charged since the last reset or restart
    lifted,         \* history: ids of the bans an unblock answered "removed" for
    muddied         \* history: see Touch and Wrote

process  == <<now, up, nextId, ops, crashes>>
memory   == <<blocks, reputation>>
database == <<dbBlocks, dbReputation>>
tasks    == <<pc, src, ban, score, held>>
sweep    == <<toScan, sweepTime, reapList, purgeList>>
history  == <<issued, owed, lifted, muddied>>
vars     == <<process, memory, database, tasks, sweep, history>>

Ban    == [id : Nat, expires : Nat]
NoBan  == [id |-> 0, expires |-> 0]
Nothing == -1                       \* a decision without a ban action

Labels == {"idle", "lazyRemove", "insertScore", "saveScore", "insertBan",
           "saveBan", "unblockRow", "clearRow", "clearScore", "deleteScore"}

Live(b)    == b.expires > now
Expired(b) == b # NoBan /\ b.expires <= now

(* What a restart would make of a row.                                     *)
Hydrated(row) == IF Live(row) THEN row ELSE NoBan

TypeOK ==
    /\ now \in Nat /\ up \in BOOLEAN
    /\ nextId \in Nat \ {0} /\ ops \in Nat /\ crashes \in Nat
    /\ blocks \in [IPs -> Ban] /\ dbBlocks \in [IPs -> Ban]
    /\ reputation \in [IPs -> Nat] /\ dbReputation \in [IPs -> Nat]
    /\ pc \in [Workers -> Labels]
    /\ src \in [Workers -> IPs]
    /\ ban \in [Workers -> Ttls \cup {Nothing}]
    /\ score \in [Workers -> Nat]
    /\ held \in [Workers -> Ban]
    /\ toScan \subseteq IPs /\ reapList \subseteq IPs /\ purgeList \subseteq IPs
    /\ sweepTime \in Nat
    /\ issued \in [IPs -> SUBSET Ban]
    /\ owed \in [IPs -> Nat]
    /\ lifted \subseteq Nat
    /\ muddied \subseteq IPs

Init ==
    /\ now = 0 /\ up = TRUE /\ nextId = 1 /\ ops = 0 /\ crashes = 0
    /\ blocks = [i \in IPs |-> NoBan] /\ dbBlocks = blocks
    /\ reputation = [i \in IPs |-> 0] /\ dbReputation = reputation
    /\ pc = [w \in Workers |-> "idle"]
    /\ src \in [Workers -> IPs]
    /\ ban = [w \in Workers |-> Nothing]
    /\ score = [w \in Workers |-> 0]
    /\ held = [w \in Workers |-> NoBan]
    /\ toScan = {} /\ reapList = {} /\ purgeList = {} /\ sweepTime = 0
    /\ issued = [i \in IPs |-> {}]
    /\ owed = [i \in IPs |-> 0]
    /\ lifted = {} /\ muddied = {}
-----------------------------------------------------------------------------
(***************************************************************************)
(* Bookkeeping shared by the actions.  muddied holds the sources for which,*)
(* since the last restart, two operations overlapped or a database         *)
(* statement failed: the code promises nothing about those.                *)
(***************************************************************************)
WorkerOn(i) == \E w \in Workers : pc[w] # "idle" /\ src[w] = i
Touched(i)  == WorkerOn(i) \/ i \in reapList \cup purgeList

Touch(i) == muddied' = IF Touched(i) THEN muddied \cup {i} ELSE muddied

Wrote(i, ok) == muddied' = IF ok THEN muddied ELSE muddied \cup {i}

Begin(w, i) ==
    /\ up /\ pc[w] = "idle" /\ ops < MaxOps
    /\ ops' = ops + 1
    /\ src' = [src EXCEPT ![w] = i]
    /\ Touch(i)
    /\ UNCHANGED <<now, up, crashes>>

Goto(w, label) == pc' = [pc EXCEPT ![w] = label]

MutBlockIpFor(w, i, ttl) ==    \* mutant: a new ban extends the one in force
    LET b == [id |-> nextId,
              expires |-> ttl + IF Live(blocks[i]) THEN blocks[i].expires ELSE now] IN
    /\ blocks' = [blocks EXCEPT ![i] = b]
    /\ held' = [held EXCEPT ![w] = b]
    /\ issued' = [issued EXCEPT ![i] = @ \cup {b}]
    /\ nextId' = nextId + 1

(* block_ip_for: a fresh ban replaces whatever the map holds.              *)
BlockIpFor(w, i, ttl) ==
    LET b == [id |-> nextId, expires |-> now + ttl] IN
    /\ blocks' = [blocks EXCEPT ![i] = b]
    /\ held' = [held EXCEPT ![w] = b]
    /\ issued' = [issued EXCEPT ![i] = @ \cup {b}]
    /\ nextId' = nextId + 1
-----------------------------------------------------------------------------
(* Lookup of get_active_block that meets an expired entry: it gives the    *)
(* entry up here and removes the key in a later step.  Other lookups       *)
(* change nothing.                                                         *)
LookupExpired(w, i) ==
    /\ Begin(w, i)
    /\ Expired(blocks[i])
    /\ Goto(w, "lazyRemove")
    /\ UNCHANGED <<memory, database, ban, score, held, sweep, nextId, issued, owed, lifted>>

LazyRemove(w) ==
    /\ pc[w] = "lazyRemove"
    /\ blocks' = [blocks EXCEPT ![src[w]] = NoBan]
    /\ Goto(w, "idle")
    /\ UNCHANGED <<process, reputation, database, src, ban, score, held, sweep, history>>

(***************************************************************************)
(* The effects of a decision (finalize_blocking_decision when it rejects,  *)
(* apply_non_blocking_effects when it allows): charge the score, save it,  *)
(* then apply and save the ban if the decision carries one.                *)
(***************************************************************************)
ChargeKnown(w, i, d, t) ==
    /\ Begin(w, i)
    /\ reputation[i] > 0
    /\ reputation' = [reputation EXCEPT ![i] = @ + d]
    /\ owed' = [owed EXCEPT ![i] = @ + d]
    /\ score' = [score EXCEPT ![w] = reputation[i] + d]
    /\ ban' = [ban EXCEPT ![w] = t]
    /\ Goto(w, "saveScore")
    /\ UNCHANGED <<blocks, database, held, sweep, nextId, issued, lifted>>

ChargeUnknown(w, i, d, t) ==
    /\ Begin(w, i)
    /\ reputation[i] = 0
    /\ score' = [score EXCEPT ![w] = d]
    /\ ban' = [ban EXCEPT ![w] = t]
    /\ Goto(w, "insertScore")
    /\ UNCHANGED <<memory, database, held, sweep, nextId, issued, owed, lifted>>

MutInsertScore(w) ==    \* mutant: the score is subtracted
    /\ reputation' = [reputation EXCEPT ![src[w]] = -score[w]]
    /\ owed' = [owed EXCEPT ![src[w]] = @ + score[w]]

InsertScoreEffect(w) ==
    /\ reputation' = [reputation EXCEPT ![src[w]] = score[w]]
    /\ owed' = [owed EXCEPT ![src[w]] = @ + score[w]]

InsertScore(w) ==
    /\ pc[w] = "insertScore"
    /\ InsertScoreEffect(w)
    /\ Goto(w, "saveScore")
    /\ UNCHANGED <<process, blocks, database, src, ban, score, held, sweep,
                   issued, muddied, lifted>>

SaveScore(w, ok) ==
    /\ pc[w] = "saveScore"
    /\ dbReputation' = IF ok THEN [dbReputation EXCEPT ![src[w]] = score[w]]
                             ELSE dbReputation
    /\ score' = [score EXCEPT ![w] = 0]
    /\ Goto(w, IF ban[w] = Nothing THEN "idle" ELSE "insertBan")
    /\ Wrote(src[w], ok)
    /\ UNCHANGED <<process, memory, dbBlocks, src, ban, held, sweep, issued, owed, lifted>>

InsertBan(w) ==
    /\ pc[w] = "insertBan"
    /\ BlockIpFor(w, src[w], ban[w])
    /\ ban' = [ban EXCEPT ![w] = Nothing]
    /\ Goto(w, "saveBan")
    /\ UNCHANGED <<now, up, ops, crashes, reputation, database, src, score,
                   sweep, owed, muddied, lifted>>

(* apply_manual_block inserts in memory at once; saving is the same step   *)
(* as for a decision's ban.                                                *)
ManualBlock(w, i, t) ==
    /\ Begin(w, i)
    /\ BlockIpFor(w, i, t)
    /\ Goto(w, "saveBan")
    /\ UNCHANGED <<reputation, database, ban, score, sweep, owed, lifted>>

SaveBan(w, ok) ==
    /\ pc[w] = "saveBan"
    /\ dbBlocks' = IF ok THEN [dbBlocks EXCEPT ![src[w]] = held[w]] ELSE dbBlocks
    /\ held' = [held EXCEPT ![w] = NoBan]
    /\ Goto(w, "idle")
    /\ Wrote(src[w], ok)
    /\ UNCHANGED <<process, memory, dbReputation, src, ban, score, sweep, issued, owed, lifted>>
-----------------------------------------------------------------------------
(* The admin API's unblock.                                                *)
Unblock(w, i) ==
    /\ Begin(w, i)
    /\ blocks[i] # NoBan
    /\ blocks' = [blocks EXCEPT ![i] = NoBan]
    /\ held' = [held EXCEPT ![w] = blocks[i]]
    /\ Goto(w, "unblockRow")
    /\ UNCHANGED <<reputation, database, ban, score, sweep, nextId, issued, owed, lifted>>

MutDeleteBanRow(i, ok) == UNCHANGED dbBlocks    \* mutant: the row stays

DeleteBanRow(i, ok) ==
    dbBlocks' = IF ok THEN [dbBlocks EXCEPT ![i] = NoBan] ELSE dbBlocks

(* A failed delete is logged; the answer is "removed" all the same.        *)
UnblockRow(w, ok) ==
    /\ pc[w] = "unblockRow"
    /\ DeleteBanRow(src[w], ok)
    /\ held' = [held EXCEPT ![w] = NoBan]
    /\ lifted' = lifted \cup {held[w].id}
    /\ Goto(w, "idle")
    /\ Wrote(src[w], ok)
    /\ UNCHANGED <<process, memory, dbReputation, src, ban, score, sweep,
                   issued, owed>>

(* clear_source_state: the ban first, then the reputation; a failed delete *)
(* of the ban's row ends it before the reputation is touched.              *)
ClearSource(w, i) ==
    /\ Begin(w, i)
    /\ blocks' = [blocks EXCEPT ![i] = NoBan]
    /\ Goto(w, IF blocks[i] # NoBan THEN "clearRow" ELSE "clearScore")
    /\ UNCHANGED <<reputation, database, ban, score, held, sweep, nextId, issued, owed, lifted>>

ClearRow(w, ok) ==
    /\ pc[w] = "clearRow"
    /\ DeleteBanRow(src[w], ok)
    /\ Goto(w, IF ok THEN "clearScore" ELSE "idle")
    /\ Wrote(src[w], ok)
    /\ UNCHANGED <<process, memory, dbReputation, src, ban, score, held, sweep,
                   issued, owed, lifted>>

MutDropScore(w, i) ==    \* mutant: the row is deleted, the entry stays
    /\ owed' = [owed EXCEPT ![i] = 0]
    /\ Goto(w, IF reputation[i] > 0 THEN "deleteScore" ELSE "idle")
    /\ UNCHANGED reputation

(* reset_reputation: the entry goes, and only then is the row deleted.     *)
DropScore(w, i) ==
    /\ reputation' = [reputation EXCEPT ![i] = 0]
    /\ owed' = [owed EXCEPT ![i] = 0]
    /\ Goto(w, IF reputation[i] > 0 THEN "deleteScore" ELSE "idle")

ClearScore(w) ==
    /\ pc[w] = "clearScore"
    /\ DropScore(w, src[w])
    /\ UNCHANGED <<process, blocks, database, src, ban, score, held, sweep,
                   issued, muddied, lifted>>

ResetReputation(w, i) ==
    /\ Begin(w, i)
    /\ reputation[i] > 0
    /\ DropScore(w, i)
    /\ UNCHANGED <<blocks, database, ban, score, held, sweep, nextId, issued, lifted>>

DeleteScore(w, ok) ==
    /\ pc[w] = "deleteScore"
    /\ dbReputation' = IF ok THEN [dbReputation EXCEPT ![src[w]] = 0] ELSE dbReputation
    /\ Goto(w, "idle")
    /\ Wrote(src[w], ok)
    /\ UNCHANGED <<process, memory, dbBlocks, src, ban, score, held, sweep, issued, owed, lifted>>
-----------------------------------------------------------------------------
(***************************************************************************)
(* The background sweep.  DashMap does not fix the order in which entries  *)
(* are visited, so any order is.                                           *)
(***************************************************************************)
SweepStart ==
    /\ up /\ toScan = {} /\ reapList = {} /\ purgeList = {}
    /\ toScan' = IPs
    /\ sweepTime' = now
    /\ UNCHANGED <<process, memory, database, tasks, reapList, purgeList, history>>

MutSweepVisit(i) ==    \* mutant: the expiry is compared the wrong way round
    /\ i \in toScan
    /\ toScan' = toScan \ {i}
    /\ IF blocks[i] # NoBan /\ blocks[i].expires >= sweepTime
       THEN reapList' = reapList \cup {i} /\ Touch(i)
       ELSE UNCHANGED <<reapList, muddied>>
    /\ UNCHANGED <<process, memory, database, tasks, sweepTime, purgeList, issued, owed, lifted>>

SweepVisit(i) ==
    /\ i \in toScan
    /\ toScan' = toScan \ {i}
    /\ IF blocks[i] # NoBan /\ blocks[i].expires <= sweepTime
       THEN reapList' = reapList \cup {i} /\ Touch(i)
       ELSE UNCHANGED <<reapList, muddied>>
    /\ UNCHANGED <<process, memory, database, tasks, sweepTime, purgeList, issued, owed, lifted>>

MutSweepRemove(i) ==    \* mutant: the sweep only deletes rows
    /\ toScan = {} /\ i \in reapList
    /\ reapList' = reapList \ {i}
    /\ purgeList' = purgeList \cup {i}
    /\ UNCHANGED <<process, memory, database, tasks, toScan, sweepTime, history>>

SweepRemove(i) ==
    /\ toScan = {} /\ i \in reapList
    /\ blocks' = [blocks EXCEPT ![i] = NoBan]
    /\ reapList' = reapList \ {i}
    /\ purgeList' = purgeList \cup {i}
    /\ UNCHANGED <<process, reputation, database, tasks, toScan, sweepTime, history>>

SweepPurge(i, ok) ==
    /\ toScan = {} /\ reapList = {} /\ i \in purgeList
    /\ DeleteBanRow(i, ok)
    /\ purgeList' = purgeList \ {i}
    /\ Wrote(i, ok)
    /\ UNCHANGED <<process, memory, dbReputation, tasks, toScan, sweepTime, reapList,
                   issued, owed, lifted>>
-----------------------------------------------------------------------------
Tick ==
    /\ now < MaxTime
    /\ now' = now + 1
    /\ UNCHANGED <<up, nextId, ops, crashes, memory, database, tasks, sweep, history>>

(* The process dies between two steps: only the database is left.          *)
Crash ==
    /\ up /\ crashes < MaxCrashes
    /\ up' = FALSE
    /\ crashes' = crashes + 1
    /\ blocks' = [i \in IPs |-> NoBan]
    /\ reputation' = [i \in IPs |-> 0]
    /\ pc' = [w \in Workers |-> "idle"]
    /\ ban' = [w \in Workers |-> Nothing]
    /\ score' = [w \in Workers |-> 0]
    /\ held' = [w \in Workers |-> NoBan]
    /\ toScan' = {} /\ reapList' = {} /\ purgeList' = {} /\ sweepTime' = 0
    /\ owed' = [i \in IPs |-> 0]
    /\ UNCHANGED <<now, nextId, ops, database, src, issued, muddied, lifted>>

(* hydrate_state_from_storage: rows that have not expired become bans,     *)
(* every reputation row becomes an entry.  Nothing else runs yet.          *)
Hydrate ==
    /\ blocks' = [i \in IPs |-> Hydrated(dbBlocks[i])]
    /\ reputation' = dbReputation
    /\ owed' = dbReputation

Restart ==
    /\ ~up
    /\ up' = TRUE
    /\ Hydrate
    /\ muddied' = {}
    /\ UNCHANGED <<now, nextId, ops, crashes, database, tasks, sweep, issued, lifted>>

RequestStep(w) ==
    \/ \E i \in IPs : LookupExpired(w, i)
    \/ LazyRemove(w)
    \/ \E i \in IPs, d \in Deltas, t \in Ttls \cup {Nothing} :
           ChargeKnown(w, i, d, t) \/ ChargeUnknown(w, i, d, t)
    \/ InsertScore(w)
    \/ \E ok \in BOOLEAN : SaveScore(w, ok)
    \/ InsertBan(w)
    \/ \E ok \in BOOLEAN : SaveBan(w, ok)

AdminStep(w) ==
    \/ \E i \in IPs, t \in Ttls : ManualBlock(w, i, t)
    \/ \E i \in IPs : Unblock(w, i) \/ ClearSource(w, i) \/ ResetReputation(w, i)
    \/ \E ok \in BOOLEAN : UnblockRow(w, ok) \/ ClearRow(w, ok) \/ DeleteScore(w, ok)
    \/ ClearScore(w)

SweepStep ==
    \/ SweepStart
    \/ \E i \in IPs : SweepVisit(i) \/ SweepRemove(i)
    \/ \E i \in IPs, ok \in BOOLEAN : SweepPurge(i, ok)

Next ==
    \/ \E w \in Workers : RequestStep(w) \/ AdminStep(w)
    \/ SweepStep
    \/ Tick \/ Crash \/ Restart

Spec == Init /\ [][Next]_vars

(* Threads finish the handlers they began; the sweep's timer always fires  *)
(* again; a supervisor restarts the process.                               *)
FairSpec ==
    /\ Spec
    /\ \A w \in Workers : WF_vars(pc[w] # "idle" /\ (RequestStep(w) \/ AdminStep(w)))
    /\ WF_vars(SweepStep) /\ WF_vars(Tick) /\ WF_vars(Restart)
-----------------------------------------------------------------------------
Quiet(i) == up /\ ~Touched(i)

(* A restart changes nothing: for a source whose operations never          *)
(* overlapped and never met a database error, whenever none is under way,  *)
(* the bans and the score a restart would load are those in force.  The    *)
(* two copies are written apart by every handler, by the lazy removal      *)
(* (which leaves its row) and by the sweep.                                *)
RestartAgreement ==
    \A i \in IPs \ muddied : Quiet(i) =>
        /\ Hydrated(blocks[i]) = Hydrated(dbBlocks[i])
        /\ reputation[i] = dbReputation[i]

(* Charges are counted once: no source is ever charged more than its       *)
(* decisions gave it since its last reset or restart, and one whose        *)
(* operations did not overlap is charged exactly that (add_suspicious_score*)
(* reads and inserts in two steps).                                        *)
ScoreAccounting ==
    up => \A i \in IPs :
        /\ reputation[i] <= owed[i]
        /\ i \notin muddied => reputation[i] = owed[i]

(* A live ban ends only by an operator's unblock or clear, by a newer ban, *)
(* or by a crash, unless the source's operations overlapped: the lazy      *)
(* removal and the sweep both remove by address what they saw expired in   *)
(* an earlier step.                                                        *)
Lifting(i) == \E w \in Workers :
    pc[w] = "idle" /\ src'[w] = i /\ pc'[w] \in {"unblockRow", "clearRow"}

BanEndsOnlyByLift ==
    [][\A i \in IPs :
          (up' /\ Live(blocks[i]) /\ blocks'[i] # blocks[i]) =>
              blocks'[i].id > blocks[i].id \/ Lifting(i) \/ i \in muddied]_vars

(* Every expired ban leaves memory, if only by the sweep.                  *)
ExpiredBanReaped == \A i \in IPs : Expired(blocks[i]) ~> ~Expired(blocks[i])

(* The store implements the ledger of bans: enforced is the live part of   *)
(* the map, so an expired entry that is still there, or its removal, is    *)
(* nothing to the ledger.                                                  *)
Ledger == INSTANCE BanLedger WITH
    enforced <- [i \in IPs |-> Hydrated(blocks[i])]

LedgerSpec == Ledger!Spec

(* "Use unblock endpoint to remove before TTL expires" (rollback_hint of   *)
(* the ban recommendation): a ban an unblock removed is not in force again.*)
UnblockSticks == \A i \in IPs : Live(blocks[i]) => blocks[i].id \notin lifted
=============================================================================
