----------------------------- MODULE RateWindow -----------------------------
(***************************************************************************)
(* The request counters of the rate limiter: one fixed window per key      *)
(* (principal and bucket), found and created in two steps by the request   *)
(* threads, forgotten when an operator clears a source.  Limit and window  *)
(* come with each request, because operators change them while it runs.    *)
(***************************************************************************)
EXTENDS Integers, FiniteSets, Sequences, FiniteSetsExt

CONSTANTS
    Workers,     \* request threads
    Keys,        \* "principal|bucket" keys
    SourceKeys,  \* those of the source an operator clears
    Policies,    \* [limit, window] a request may be given
    Cap,         \* admissions the largest limit allows; the first is free
    MaxTime,     \* bound: the clock stops there
    MaxChecks    \* bound: requests

ASSUME RateAssumption ==
    /\ IsFiniteSet(Workers)
    /\ SourceKeys \subseteq Keys
    /\ Policies \subseteq [limit : Nat, window : Nat]
    /\ Cap \in Nat \ {0} /\ \A p \in Policies : p.limit <= Cap
    /\ MaxTime \in Nat /\ MaxChecks \in Nat

VARIABLES
    now,
    entries,      \* [count, start] of each key, or Absent
    pc, key, policy,
    stamp,        \* the clock each thread read, before it looked the key up
    toClear,      \* clear: keys collected, to be removed one by one
    checks,
    admits,       \* history: admissions since the key's window began
    overwrites,   \* history: windows begun on top of it
    log,          \* history: when each key's requests were admitted, in order
    stirred       \* history: keys two threads were on at once, or cleared

threads == <<pc, key, policy, stamp>>
history == <<admits, overwrites, log, stirred>>
vars    == <<now, entries, threads, toClear, checks, history>>

Absent == [count |-> 0, start |-> 0]

TypeOK ==
    /\ now \in Nat /\ checks \in Nat
    /\ entries \in [Keys -> [count : Nat, start : Nat]]
    /\ pc \in [Workers -> {"idle", "lookup", "insert"}]
    /\ key \in [Workers -> Keys]
    /\ policy \in [Workers -> Policies]
    /\ stamp \in [Workers -> Nat]
    /\ toClear \subseteq SourceKeys
    /\ admits \in [Keys -> Nat] /\ overwrites \in [Keys -> Nat]
    /\ log \in [Keys -> Seq(Nat)]
    /\ stirred \subseteq Keys

Init ==
    /\ now = 0 /\ checks = 0
    /\ entries = [k \in Keys |-> Absent]
    /\ pc = [w \in Workers |-> "idle"]
    /\ key \in [Workers -> Keys] /\ policy \in [Workers -> Policies]
    /\ stamp = [w \in Workers |-> 0]
    /\ toClear = {}
    /\ admits = [k \in Keys |-> 0] /\ overwrites = [k \in Keys |-> 0]
    /\ log = [k \in Keys |-> <<>>]
    /\ stirred = {}
-----------------------------------------------------------------------------
On(k)      == {w \in Workers : pc[w] # "idle" /\ key[w] = k}
Late(k)    == {w \in Workers : pc[w] = "insert" /\ key[w] = k}

MutCheck(w, k, p) ==    \* mutant: the clock is read one window back
    /\ pc[w] = "idle" /\ checks < MaxChecks
    /\ checks' = checks + 1
    /\ pc' = [pc EXCEPT ![w] = "lookup"]
    /\ key' = [key EXCEPT ![w] = k]
    /\ policy' = [policy EXCEPT ![w] = p]
    /\ stamp' = [stamp EXCEPT ![w] = now - p.window]
    /\ stirred' = IF On(k) = {} THEN stirred ELSE stirred \cup {k}
    /\ UNCHANGED <<now, entries, toClear, admits, overwrites, log>>

Check(w, k, p) ==
    /\ pc[w] = "idle" /\ checks < MaxChecks
    /\ checks' = checks + 1
    /\ pc' = [pc EXCEPT ![w] = "lookup"]
    /\ key' = [key EXCEPT ![w] = k]
    /\ policy' = [policy EXCEPT ![w] = p]
    /\ stamp' = [stamp EXCEPT ![w] = now]
    /\ stirred' = IF On(k) = {} THEN stirred ELSE stirred \cup {k}
    /\ UNCHANGED <<now, entries, toClear, admits, overwrites, log>>

Return(w) == pc' = [pc EXCEPT ![w] = "idle"]

Record(k) == log' = [log EXCEPT ![k] = Append(@, now)]

Elapsed(w, e) == stamp[w] - e.start >= policy[w].window

(* The window is over: this request begins the next, whatever its limit.   *)
MutRoll(w, k) ==    \* mutant: the window keeps its old beginning
    /\ Elapsed(w, entries[k])
    /\ entries' = [entries EXCEPT ![k].count = 1]
    /\ admits' = [admits EXCEPT ![k] = 1]
    /\ overwrites' = [overwrites EXCEPT ![k] = 0]
    /\ Record(k)

Roll(w, k) ==
    /\ Elapsed(w, entries[k])
    /\ entries' = [entries EXCEPT ![k] = [count |-> 1, start |-> stamp[w]]]
    /\ admits' = [admits EXCEPT ![k] = 1]
    /\ overwrites' = [overwrites EXCEPT ![k] = 0]
    /\ Record(k)

MutWithin(count, limit) == count <= limit + 1    \* mutant: off by one

Within(count, limit) == count <= limit

(* Refused requests are counted too.                                       *)
Count(w, k) ==
    /\ ~Elapsed(w, entries[k])
    /\ entries' = [entries EXCEPT ![k].count = @ + 1]
    /\ IF Within(entries[k].count + 1, policy[w].limit)
       THEN /\ admits' = [admits EXCEPT ![k] = @ + 1]
            /\ Record(k)
       ELSE UNCHANGED <<admits, log>>
    /\ UNCHANGED overwrites

Hit(w) ==
    /\ pc[w] = "lookup" /\ entries[key[w]] # Absent
    /\ Roll(w, key[w]) \/ Count(w, key[w])
    /\ Return(w)
    /\ UNCHANGED <<now, key, policy, stamp, toClear, checks, stirred>>

Miss(w) ==
    /\ pc[w] = "lookup" /\ entries[key[w]] = Absent
    /\ pc' = [pc EXCEPT ![w] = "insert"]
    /\ UNCHANGED <<now, entries, key, policy, stamp, toClear, checks, history>>

(* The entry may be there by now: it is overwritten, count and all.        *)
InsertFirst(w) ==
    LET k == key[w]  fresh == entries[k] = Absent IN
    /\ pc[w] = "insert"
    /\ entries' = [entries EXCEPT ![k] = [count |-> 1, start |-> stamp[w]]]
    /\ admits' = [admits EXCEPT ![k] = IF fresh THEN 1 ELSE @ + 1]
    /\ overwrites' = [overwrites EXCEPT ![k] = IF fresh THEN 0 ELSE @ + 1]
    /\ Record(k)
    /\ Return(w)
    /\ UNCHANGED <<now, key, policy, stamp, toClear, checks, stirred>>

(* clear_source_state: collect, then remove by key.                        *)
ClearCollect ==
    /\ toClear = {}
    /\ toClear' = {k \in SourceKeys : entries[k] # Absent}
    /\ toClear' # {}
    /\ UNCHANGED <<now, entries, threads, checks, history>>

ClearRemove(k) ==
    /\ k \in toClear
    /\ toClear' = toClear \ {k}
    /\ entries' = [entries EXCEPT ![k] = Absent]
    /\ stirred' = stirred \cup {k}
    /\ UNCHANGED <<now, threads, checks, admits, overwrites, log>>

Tick ==
    /\ now < MaxTime
    /\ now' = now + 1
    /\ UNCHANGED <<entries, threads, toClear, checks, history>>

Next ==
    \/ \E w \in Workers :
           \/ \E k \in Keys, p \in Policies : Check(w, k, p)
           \/ Hit(w) \/ Miss(w) \/ InsertFirst(w)
    \/ ClearCollect
    \/ \E k \in Keys : ClearRemove(k)
    \/ Tick

Spec == Init /\ [][Next]_vars
-----------------------------------------------------------------------------
(* A window admits Cap requests, and Cap more for each thread that missed  *)
(* the entry and began the window over after another had: never more than  *)
(* Cap for each thread, whatever the operators change meanwhile.           *)
AdmissionBound ==
    \A k \in Keys : entries[k] # Absent =>
        /\ admits[k] <= Cap * (1 + overwrites[k])
        /\ overwrites[k] + Cardinality(Late(k)) < Cardinality(Workers)

(* Windows are fixed, not sliding: a span as long as the shortest window   *)
(* sees at most two windows' admissions, for a key whose requests did not  *)
(* overlap and that was not cleared.  Of 2 * Cap + 1 admissions in a row   *)
(* the last is that much later than the first.                             *)
ShortestWindow == Min({p.window : p \in Policies})

SlidingBound ==
    \A k \in Keys \ stirred : \A i \in 1 .. Len(log[k]) - 2 * Cap :
        log[k][i + 2 * Cap] - log[k][i] >= ShortestWindow
=============================================================================
