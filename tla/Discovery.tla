----------------------------- MODULE Discovery -----------------------------
(***************************************************************************)
(* What the gateway learns of the API behind it.  Requests leave routes    *)
(* and JSON schemas in two bounded memories; operators list the routes     *)
(* outside the specification, approve, promote and manage them, and save   *)
(* the list, which is what a restart brings back.  A handler of theirs is  *)
(* a row of statements and reads, others run between any two of them, and  *)
(* each may fail.                                                          *)
(***************************************************************************)
EXTENDS SchemaLearning

CONSTANTS
    Requests,      \* threads that serve requests
    Operators,     \* threads that run admin handlers
    Routes,        \* method and path, normalised
    Specified,     \* routes of the specification
    Calls,         \* what a request may be: its route and its body
    Enabled,       \* discovery.enabled
    MinHits,       \* requests that make a route worth listing
    MaxRoutes,     \* max_learned_routes, perhaps lower than at an earlier start
    StartRows,     \* what an earlier run may have saved
    Handled,       \* bound: routes that handlers name
    Budgets,       \* bound: requests and handlers that one behaviour may have
    MaxFaults, MaxRestarts    \* bounds

IsTable(f, now) ==
    /\ DOMAIN f \subseteq Routes
    /\ f \in [DOMAIN f -> [hits : Nat \ {0}, last : 0 .. now, status : {"new", "known"}]]

ASSUME DiscoveryAssumption ==
    /\ IsFiniteSet(Routes) /\ Specified \subseteq Routes /\ Handled \subseteq Routes
    /\ \A c \in Calls : c.route \in Routes /\ IsBody(c.body)
    /\ \A saved \in StartRows : IsTable(saved, 0)
    /\ Enabled \in BOOLEAN /\ {MinHits, MaxRoutes} \subseteq Nat
    /\ Budgets \subseteq Nat \X Nat /\ {MaxFaults, MaxRestarts} \subseteq Nat

VARIABLES
    routes,       \* ROUTE_MEMORY: route -> what is known of it
    schemas,      \* SCHEMA_MEMORY: route -> its schema
    rows,         \* table learned_routes, of the same shape as routes
    listed,       \* tables of approved, promoted and managed routes
    clock,        \* requests so far, none at the same instant as another
    request, task,
    edits, faults, restarts,
    restored,     \* history: routes the last start brought back
    announced,    \* history: new-endpoint findings of each route since it was last forgotten
    sent,         \* history: bodies learned of each route since the start
    undisturbed   \* history: handlers came one at a time, none failed or was cut off

vars == <<routes, schemas, rows, listed, clock, request, task,
          edits, faults, restarts, restored, announced, sent, undisturbed>>

memory == <<routes, schemas, clock, request, restarts, restored, announced, sent>>

Nowhere == [r \in {} |-> 0]
Stages  == {"approved", "promoted", "managed"}
Ready   == [at |-> "idle"]

Filtering == Stages \cup {"routes", "replace"}

IsTask(t) ==
    \/ t = Ready \/ t = [at |-> "clear"]
    \/ t.at \in {"retire approved", "retire promoted"} /\ t.route \in Routes
    \/ t.at \in Filtering /\ t.hidden \cup t.steady \subseteq Routes /\ IsTable(t.items, clock)

TypeOK ==
    /\ IsTable(routes, clock) /\ IsTable(rows, clock)
    /\ DOMAIN schemas \subseteq Routes /\ \A r \in DOMAIN schemas : IsProfile(schemas[r])
    /\ listed \in [Stages -> SUBSET Routes]
    /\ clock \in Nat /\ edits \in Nat
    /\ \A q \in Requests : request[q] # Ready => request[q].call \in Calls
    /\ \A o \in Operators : IsTask(task[o])
    /\ faults \in 0 .. MaxFaults /\ restarts \in 0 .. MaxRestarts
    /\ announced \in [Routes -> Nat] /\ undisturbed \in BOOLEAN

Init ==
    /\ rows \in StartRows /\ routes = rows /\ restored = DOMAIN rows
    /\ schemas = Nowhere
    /\ listed = [s \in Stages |-> {}]
    /\ clock = 0 /\ edits = 0 /\ faults = 0 /\ restarts = 0
    /\ request = [q \in Requests |-> Ready] /\ task = [o \in Operators |-> Ready]
    /\ announced = [r \in Routes |-> 0] /\ sent = [r \in Routes |-> {}] /\ undisturbed = TRUE
-----------------------------------------------------------------------------
Within(c, e) == \E b \in Budgets : c <= b[1] /\ e <= b[2]

(* Requests.  The instant is taken before the lock.                        *)
Arrive(q, c) ==
    /\ request[q] = Ready /\ Within(clock + 1, edits)
    /\ clock' = clock + 1
    /\ request' = [request EXCEPT ![q] = [at |-> "remember", call |-> c, now |-> clock + 1]]
    /\ UNCHANGED <<routes, schemas, rows, listed, task, edits, faults, restarts,
                   restored, announced, sent, undisturbed>>

At(q, step) == request[q].at = step

Step(q, step) == request' = [request EXCEPT ![q].at = step]

Oldest == {v \in DOMAIN routes : \A r \in DOMAIN routes : routes[v].last <= routes[r].last}

MutFull == Cardinality(DOMAIN routes) > MaxRoutes    \* mutant: off by one

Full == Cardinality(DOMAIN routes) >= MaxRoutes

(* A route not known yet takes the place of the one seen longest ago.      *)
WithNew(r, now, v) ==
    [x \in (IF Full THEN DOMAIN routes \ {v} ELSE DOMAIN routes) \cup {r} |->
        IF x = r THEN [hits |-> 1, last |-> now, status |-> "new"] ELSE routes[x]]

MutAnnounces(r) == r \in DOMAIN routes => routes[r].hits = 1    \* mutant: hits before this one

Announces(r) == r \notin DOMAIN routes

Gone == DOMAIN routes \ DOMAIN routes'    \* those a step forgets

Remember(q, v) ==
    LET r == request[q].call.route IN
    /\ At(q, "remember")
    /\ v \in Oldest \/ routes = Nowhere
    /\ routes' = IF r \in DOMAIN routes
                 THEN [routes EXCEPT ![r].hits = @ + 1, ![r].last = request[q].now]
                 ELSE WithNew(r, request[q].now, v)
    /\ announced' = [x \in Routes |-> IF x = r /\ Enabled /\ Announces(r) THEN announced[x] + 1
                                      ELSE IF x \in Gone THEN 0 ELSE announced[x]]
    /\ Step(q, IF Enabled THEN "learn" ELSE "answer")
    /\ UNCHANGED <<schemas, rows, listed, clock, task, edits, faults, restarts,
                   restored, sent, undisturbed>>

Learn(q, v) ==
    LET r == request[q].call.route
        b == request[q].call.body
    IN
    /\ At(q, "learn")
    /\ v \in Victims(schemas) \/ schemas = Nowhere
    /\ request' = [request EXCEPT ![q] = [at |-> "answer", call |-> @.call,
                                          found |-> Findings(schemas, r, b)]]
    /\ IF Learned(b)
       THEN schemas' = AfterBody(schemas, r, b, v) /\ sent' = [sent EXCEPT ![r] = @ \cup {b}]
       ELSE UNCHANGED <<schemas, sent>>
    /\ UNCHANGED <<routes, rows, listed, clock, task, edits, faults, restarts,
                   restored, announced, undisturbed>>

(* The upstream's answer is noted of a route still known; a request turned *)
(* away, or one whose upstream fails, gets none.                           *)
Observe(q) ==
    LET r == request[q].call.route IN
    /\ At(q, "answer")
    /\ routes' = IF Enabled /\ r \in DOMAIN routes /\ routes[r].hits >= MinHits
                 THEN [routes EXCEPT ![r].status = "known"] ELSE routes
    /\ request' = [request EXCEPT ![q] = Ready]
    /\ UNCHANGED <<schemas, rows, listed, clock, task, edits, faults, restarts,
                   restored, announced, sent, undisturbed>>

Unanswered(q) ==
    /\ At(q, "answer")
    /\ request' = [request EXCEPT ![q] = Ready]
    /\ UNCHANGED <<routes, schemas, rows, listed, clock, task, edits, faults, restarts,
                   restored, announced, sent, undisturbed>>
-----------------------------------------------------------------------------
(* Operators.  A handler that ends with the saving of the list reads what  *)
(* hides routes from it, stage by stage, then the routes, then writes.     *)
Failing(ok) ==
    /\ ok \/ faults < MaxFaults
    /\ faults' = IF ok THEN faults ELSE faults + 1

Goto(o, t) == task' = [task EXCEPT ![o] = t]

OnSome(tables) == UNION {tables[s] : s \in Stages}

Reading(tables) == [at |-> "approved", hidden |-> {}, steady |-> OnSome(tables), items |-> Nowhere]

(* What a change of the tables leaves of the routes that were on some:     *)
(* not those that an operator took off one, or approved anew.              *)
Unsteady(t, gone) ==
    IF t.at \in Filtering THEN [t EXCEPT !.steady = (@ \cap OnSome(listed')) \ gone] ELSE t

(* Begins a handler: nobody else may be at one for it to be undisturbed.   *)
Begin(o, ok) ==
    /\ task[o] = Ready /\ Within(clock, edits + 1)
    /\ edits' = edits + 1
    /\ Failing(ok)
    /\ undisturbed' = (undisturbed /\ ok /\ \A x \in Operators : task[x] = Ready)
    /\ UNCHANGED <<memory, rows>>

(* sync_shadow_routes; the reading alone is what the list views show.      *)
Sync(o) ==
    /\ Begin(o, TRUE)
    /\ Goto(o, Reading(listed))
    /\ UNCHANGED listed

(* The statements on the tables.                                           *)
UpsertApprovedRow(r) == [listed EXCEPT !.approved = @ \cup {r}]
DeleteApprovedRow(r) == [listed EXCEPT !.approved = @ \ {r}]
UpsertPromotedRow(r) == [listed EXCEPT !.promoted = @ \cup {r}]
DeletePromotedRow(r) == [listed EXCEPT !.promoted = @ \ {r}]
UpsertManagedRow(r)  == [listed EXCEPT !.managed = @ \cup {r}]
DeleteManagedRow(r)  == [listed EXCEPT !.managed = @ \ {r}]

Approve(o, r, ok) ==
    /\ Begin(o, ok)
    /\ listed' = IF ok THEN UpsertApprovedRow(r) ELSE listed
    /\ task' = [x \in Operators |-> Unsteady(task[x], IF ok THEN {r} \ listed.approved ELSE {})]

(* A promotion adds the route to the next table, and then takes it off the *)
(* one before.                                                             *)
PromoteShadowRoute(o, r, ok) ==
    /\ Begin(o, ok)
    /\ listed' = IF ok THEN UpsertPromotedRow(r) ELSE listed
    /\ IF ok THEN Goto(o, [at |-> "retire approved", route |-> r]) ELSE UNCHANGED task

PromoteToManagedSpec(o, r, ok) ==
    /\ Begin(o, ok)
    /\ listed' = IF ok THEN UpsertManagedRow(r) ELSE listed
    /\ IF ok THEN Goto(o, [at |-> "retire promoted", route |-> r]) ELSE UNCHANGED task

(* An operator takes a route off a table.                                  *)
Delete(o, r, without, ok) ==
    /\ Begin(o, ok)
    /\ listed' = IF ok THEN without ELSE listed
    /\ task' = [x \in Operators |-> Unsteady(task[x], IF ok THEN {r} ELSE {})]

DeleteApproved(o, r, ok) == Delete(o, r, DeleteApprovedRow(r), ok)
DeletePromoted(o, r, ok) == Delete(o, r, DeletePromotedRow(r), ok)
DeleteManaged(o, r, ok)  == Delete(o, r, DeleteManagedRow(r), ok)

(* Memory goes first: when the rows' deletion fails they stay.             *)
ClearMemory(o) ==
    /\ task[o] = Ready /\ Within(clock, edits + 1)
    /\ edits' = edits + 1
    /\ routes' = Nowhere /\ restored' = {}
    /\ announced' = [r \in Routes |-> 0]
    /\ Goto(o, [at |-> "clear"])
    /\ undisturbed' = (undisturbed /\ \A x \in Operators : task[x] = Ready)
    /\ UNCHANGED <<schemas, rows, listed, clock, request, faults, restarts, sent>>

Goes(o, step, ok) ==
    /\ task[o].at = step
    /\ Failing(ok)
    /\ undisturbed' = (undisturbed /\ ok)
    /\ UNCHANGED <<memory, edits>>

ClearRows(o, ok) ==
    /\ Goes(o, "clear", ok)
    /\ rows' = IF ok THEN Nowhere ELSE rows
    /\ Goto(o, Ready)
    /\ UNCHANGED listed

MutRetire(o, step, without, ok) ==    \* mutant: the list is not saved again
    /\ Goes(o, step, ok)
    /\ listed' = IF ok THEN without ELSE listed
    /\ Goto(o, Ready)
    /\ UNCHANGED rows

(* A failed deletion is ignored.                                           *)
Retire(o, step, without, ok) ==
    /\ Goes(o, step, ok)
    /\ listed' = IF ok THEN without ELSE listed
    /\ task' = [x \in Operators |-> IF x = o THEN Reading(listed') ELSE Unsteady(task[x], {})]
    /\ UNCHANGED rows

RetireApproved(o, ok) ==
    task[o].at = "retire approved" /\ Retire(o, "retire approved", DeleteApprovedRow(task[o].route), ok)
RetirePromoted(o, ok) ==
    task[o].at = "retire promoted" /\ Retire(o, "retire promoted", DeletePromotedRow(task[o].route), ok)

(* A query that fails hides nothing (unwrap_or_default): the routes on its *)
(* table then may be shown and saved, and are not steady.                  *)
Read(o, stage, keys, next, ok) ==
    /\ Goes(o, stage, ok)
    /\ Goto(o, [task[o] EXCEPT !.at = next,
                               !.hidden = IF ok THEN @ \cup keys ELSE @,
                               !.steady = IF ok THEN @ ELSE @ \ keys])
    /\ UNCHANGED <<rows, listed>>

ApprovedShadowRouteKeys == listed.approved
PromotedSpecRouteKeys   == listed.promoted
ManagedSpecRouteKeys    == listed.managed

MutReadListed(o, ok) ==    \* mutant: the last table first
    \/ Read(o, "approved", ManagedSpecRouteKeys, "promoted", ok)
    \/ Read(o, "promoted", PromotedSpecRouteKeys, "managed", ok)
    \/ Read(o, "managed", ApprovedShadowRouteKeys, "routes", ok)

ReadListed(o, ok) ==
    \/ Read(o, "approved", ApprovedShadowRouteKeys, "promoted", ok)
    \/ Read(o, "promoted", PromotedSpecRouteKeys, "managed", ok)
    \/ Read(o, "managed", ManagedSpecRouteKeys, "routes", ok)

Shadow == {r \in DOMAIN routes \ Specified : Enabled /\ routes[r].hits >= MinHits}

ReadRoutes(o) ==
    /\ Goes(o, "routes", TRUE)
    /\ Goto(o, [task[o] EXCEPT !.at = "replace",
                               !.items = [r \in Shadow \ task[o].hidden |-> routes[r]]])
    /\ UNCHANGED <<rows, listed>>

(* One transaction replaces the table.                                     *)
ReplaceRows(o, ok) ==
    /\ Goes(o, "replace", ok)
    /\ rows' = IF ok THEN task[o].items ELSE rows
    /\ Goto(o, Ready)
    /\ UNCHANGED listed
-----------------------------------------------------------------------------
(* The process ends anywhere and starts again, with all the rows hold,     *)
(* whatever the limit.                                                     *)
Restart ==
    /\ restarts < MaxRestarts
    /\ restarts' = restarts + 1
    /\ routes' = rows /\ restored' = DOMAIN rows
    /\ schemas' = Nowhere
    /\ request' = [q \in Requests |-> Ready] /\ task' = [o \in Operators |-> Ready]
    /\ announced' = [r \in Routes |-> 0] /\ sent' = [r \in Routes |-> {}]
    /\ undisturbed' = (undisturbed /\ \A o \in Operators : task[o] = Ready)
    /\ UNCHANGED <<rows, listed, clock, edits, faults>>

Serve(q) ==
    \/ \E c \in Calls : Arrive(q, c)
    \/ \E v \in Routes : Remember(q, v) \/ Learn(q, v)
    \/ Observe(q) \/ Unanswered(q)

Operate(o) ==
    \/ Sync(o) \/ ClearMemory(o) \/ ReadRoutes(o)
    \/ \E ok \in BOOLEAN :
           \/ ClearRows(o, ok) \/ RetireApproved(o, ok) \/ RetirePromoted(o, ok)
           \/ ReadListed(o, ok) \/ ReplaceRows(o, ok)
           \/ \E r \in Handled :
                  \/ Approve(o, r, ok) \/ PromoteShadowRoute(o, r, ok) \/ PromoteToManagedSpec(o, r, ok)
                  \/ DeleteApproved(o, r, ok) \/ DeletePromoted(o, r, ok) \/ DeleteManaged(o, r, ok)

Next ==
    \/ \E q \in Requests : Serve(q)
    \/ \E o \in Operators : Operate(o)
    \/ Restart

Spec == Init /\ [][Next]_vars
-----------------------------------------------------------------------------
(* The memory of routes holds no more than its limit, or than the last     *)
(* start brought back: learning makes room for one at a time, hydration    *)
(* none (restore_learned_routes, remember_route).                          *)
LearnedBound ==
    Cardinality(DOMAIN routes) <= Max({1, MaxRoutes, Cardinality(restored)})

(* A route is announced as new once while it is known, also when its first *)
(* requests race, and not at all when a restart brought it back.           *)
AnnouncedOnce ==
    Enabled => \A r \in Routes :
        /\ announced[r] <= 1
        /\ (r \in DOMAIN routes /\ announced[r] = 0) => r \in restored

(* A route that was on some table all the while a handler filtered, that   *)
(* no operator took off a table or approved anew meanwhile, and that was   *)
(* on none of the tables whose query failed, is not in what the handler    *)
(* shows or saves, although the tables are read one by one and promotions  *)
(* move routes between them: whatever is gone from the table read first is *)
(* on one read later (discover_shadow_apis_filtered).  Where the query of  *)
(* a table fails, the code does show and save the routes that were on it.  *)
StaysHidden ==
    \A o \in Operators : task[o].at = "replace" => DOMAIN task[o].items \cap task[o].steady = {}

(* As long as handlers come one at a time and none fails or is cut off,    *)
(* the saved list holds no route promoted or managed, so no restart brings *)
(* one back (promote_shadow_route, promote_to_managed_spec).               *)
PromotedNotListed ==
    (undisturbed /\ \A o \in Operators : task[o] = Ready) =>
        DOMAIN rows \cap (listed["promoted"] \cup listed["managed"]) = {}

(* A route whose clients all send one body never has it reported for a     *)
(* field, a type or a size, whatever other routes push out of the memory.  *)
SteadyClientQuiet ==
    \A q \in Requests :
        (At(q, "answer") /\ Enabled /\ Cardinality(sent[request[q].call.route]) = 1) =>
            request[q].found \cap {"UZ-API-SCHEMA-001", "UZ-API-SCHEMA-002",
                                   "UZ-API-SCHEMA-003", "UZ-API-SCHEMA-007"} = {}

Established == {r \in DOMAIN schemas : schemas[r].samples >= 2}

(* A flood of routes that send one body each costs at most one schema that *)
(* more than one body made (evict_lowest_sample_schema).                   *)
EstablishedKept ==
    [][(restarts' = restarts /\ Cardinality(Established) >= MaxSchemas - 1) =>
           Cardinality(Established') >= MaxSchemas - 1]_vars
=============================================================================
