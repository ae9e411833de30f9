--------------------------- MODULE ReleaseChannel ---------------------------
(***************************************************************************)
(* The release channel of one managed route, a database row, and the       *)
(* response contract an export needs, a row of another table.  A promotion *)
(* reads contracts, reads the channel for its guard, reads it again for    *)
(* the transition, and then writes: four statements without a transaction, *)
(* each of which other handlers may come between.                          *)
(***************************************************************************)
EXTENDS Naturals

CONSTANTS
    Admins,       \* threads that run promote_managed_spec_release
    Channels,     \* what a request may name; includes those below
    NoRow,        \* the channel of a route that has no row
    Outcomes      \* of a statement: {TRUE}, or BOOLEAN when it may fail

ASSUME ReleaseAssumption ==
    /\ {"draft", "approved", "exported"} \subseteq Channels
    /\ NoRow \notin Channels
    /\ Outcomes \subseteq BOOLEAN

VARIABLES
    contract,     \* the route has a response contract
    channel,      \* its release channel
    task,         \* what each thread is at, and what it has read
    since         \* history: what was so since each thread's promotion began

vars == <<contract, channel, task, since>>

Steps == {"idle", "contracts", "guard", "current", "write"}
Task  == [step : Steps, target : Channels, hasContract : BOOLEAN, read : Channels \cup {NoRow}]

TypeOK ==
    /\ contract \in BOOLEAN
    /\ channel \in Channels \cup {NoRow}
    /\ task \in [Admins -> Task]
    /\ since \in [Admins -> [contract : BOOLEAN, approved : BOOLEAN, fresh : BOOLEAN]]

Idle == [step |-> "idle", target |-> "draft", hasContract |-> FALSE, read |-> NoRow]

Init ==
    /\ contract = FALSE /\ channel = NoRow
    /\ task = [a \in Admins |-> Idle]
    /\ since = [a \in Admins |-> [contract |-> FALSE, approved |-> FALSE, fresh |-> FALSE]]
-----------------------------------------------------------------------------
At(a, step) == task[a].step = step

Goto(a, t) == task' = [task EXCEPT ![a] = t]

rows == <<contract, channel>>

Begin(a, target) ==
    /\ At(a, "idle")
    /\ Goto(a, [Idle EXCEPT !.step = "contracts", !.target = target])
    /\ UNCHANGED rows

(* A query that fails reads as an empty table.                             *)
Contracts(ok) == ok /\ contract
Row(ok)       == IF ok THEN channel ELSE NoRow

ReadContracts(a, ok) ==
    /\ At(a, "contracts")
    /\ Goto(a, [task[a] EXCEPT !.step = "guard", !.hasContract = Contracts(ok)])
    /\ UNCHANGED rows

MutAllowed(t, c) == t.target = "exported" => t.hasContract    \* mutant: any channel

Allowed(t, c) == t.target = "exported" => t.hasContract /\ c = "approved"

ReadGuard(a, ok) ==
    /\ At(a, "guard")
    /\ Goto(a, IF Allowed(task[a], Row(ok)) THEN [task[a] EXCEPT !.step = "current"] ELSE Idle)
    /\ UNCHANGED rows

MutTransition(c, t) ==    \* mutant: a first record in any channel
    \/ c = NoRow \/ c = t
    \/ <<c, t>> \in {<<"draft", "approved">>, <<"approved", "exported">>}

(* is_valid_release_transition.                                            *)
Transition(c, t) ==
    \/ c = NoRow /\ t = "draft"
    \/ c = t
    \/ <<c, t>> \in {<<"draft", "approved">>, <<"approved", "exported">>}

ReadCurrent(a, ok) ==
    /\ At(a, "current")
    /\ Goto(a, IF Transition(Row(ok), task[a].target)
               THEN [task[a] EXCEPT !.step = "write", !.read = Row(ok)] ELSE Idle)
    /\ UNCHANGED rows

(* The upsert replaces whatever row is there by now.                       *)
Write(a, ok) ==
    /\ At(a, "write")
    /\ channel' = IF ok THEN task[a].target ELSE channel
    /\ Goto(a, Idle)
    /\ UNCHANGED contract

(* upsert_managed_spec_release_state: any channel, without a guard.        *)
SetChannel(target) ==
    /\ channel' = target
    /\ UNCHANGED <<contract, task>>

MutDeleteChannel ==    \* mutant: a tombstone row
    /\ channel' = "deleted"
    /\ UNCHANGED <<contract, task>>

DeleteChannel ==
    /\ channel' = NoRow
    /\ UNCHANGED <<contract, task>>

(* Upsert, approve from a mismatch event, and delete a response contract.  *)
SetContract(there) ==
    /\ contract' = there
    /\ UNCHANGED <<channel, task>>

Restart ==
    /\ task' = [a \in Admins |-> Idle]
    /\ UNCHANGED rows

Promotion(a) ==
    \/ \E target \in Channels : Begin(a, target)
    \/ \E ok \in Outcomes :
           ReadContracts(a, ok) \/ ReadGuard(a, ok) \/ ReadCurrent(a, ok) \/ Write(a, ok)

Override ==
    \/ \E target \in Channels : SetChannel(target)
    \/ DeleteChannel
    \/ \E there \in BOOLEAN : SetContract(there)

(* What was so at some time since the promotion began, and whether the row *)
(* is still the one it read for its transition.                            *)
Witness ==
    since' = [a \in Admins |->
        [contract |-> contract' \/ (~At(a, "idle") /\ since[a].contract),
         approved |-> channel' = "approved" \/ (~At(a, "idle") /\ since[a].approved),
         fresh    |-> task'[a].step = "write" /\ channel' = task'[a].read
                      /\ (At(a, "write") => since[a].fresh)]]

Next == /\ (\E a \in Admins : Promotion(a)) \/ Override \/ Restart
        /\ Witness

Spec == Init /\ [][Next]_vars
-----------------------------------------------------------------------------
(* A promotion about to export had a response contract and the approved    *)
(* channel before it at some time since it began: neither of its stale     *)
(* reads nor a failed one lets a route through that never had them.        *)
ExportVouched ==
    \A a \in Admins : At(a, "write") /\ task[a].target = "exported" =>
        since[a].contract /\ since[a].approved

Edges == {<<NoRow, "draft">>, <<"draft", "approved">>, <<"approved", "exported">>}

Advances(c, t) == c = t \/ <<c, t>> \in Edges

(* A promotion that read the row as it is, and that no other writer came   *)
(* before since, moves the route along draft, approved, exported or leaves *)
(* it where it is.                                                         *)
UndisturbedAdvances ==
    \A a \in Admins : since[a].fresh => Advances(channel, task[a].target)

(* What the refusal "invalid release-state transition" promises: no        *)
(* promotion moves a route against the order of the channels.              *)
TransitionsValid ==
    [][\A a \in Admins : At(a, "write") /\ task'[a] = Idle /\ channel' # channel =>
           Advances(channel, channel')]_vars
=============================================================================
