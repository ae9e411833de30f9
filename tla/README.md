# Uzyntra API firewall: models, checks and proofs

TLA+ models of the firewall under `src/`, the TLC runs that check them on small
instances, and TLAPS proofs of the properties that matter most for every value
of the constants. `PROJECT.json` maps every definition to the lines it
translates and lists runs, mutants, hazards, findings and theorems.

## 1. The system

A reverse proxy written in Rust. A request passes the middleware
(`core/mod.rs`), is inspected (`detection/`, `rate_limit/`), judged
(`policy/`), acted upon (`mitigation/`), proxied and inspected again on the way
back (`proxy/`). Operators change the running system through an admin API
(`control_plane/`); SQLite (`storage/`) keeps part of the state across restarts;
security events go to a remote control plane (`telemetry_delivery.rs`).

Handlers run concurrently on a thread pool. They share `DashMap`s, locked one
entry at a time, `RwLock`s held for one read or one write, and a database where
each statement opens a connection of its own. No handler holds anything across
two of these accesses. That is why the models' steps are one map access, one
locked section or one statement.

| component | state | operations | hard behaviour | what makes it correct |
|---|---|---|---|---|
| request pipeline (`core/`, `proxy/`) | the requests in flight | block check, inspect, decide, act, proxy, inspect the response | every read of shared state is at another moment; statements fail | what is refused has a cause; bans are checked on arrival; nothing refused goes upstream; trust leaves no trace |
| decision engine (`policy/`) | none; reads policy and reputation | evaluate, exceptions, actions | several reads of one policy, thresholds per mode | Strict rejects what Balanced does |
| detection and normalization (`detection/`, `core/`) | none | inspect a request, a response | decoding in two places, which stops at bytes that are not UTF-8 | an attack that the passes undo is reported |
| allowlists, suppressions, contracts (`core/`, `control_plane/`) | seven tables | upsert, delete, approve a contract | read afresh by every request, table by table | trust holds for both sides |
| mitigation store (`mitigation/`, hydration in `app/`) | bans and scores in two maps, and their rows | lookup, effects of a decision, manual block, unblock, clear, reset, sweep, hydrate | look-up-then-remove races, maps against rows, failing statements, crashes | a ban in force was issued and is not over; it ends early only when an operator lifts it; memory and rows agree; a score is charged once |
| telemetry delivery (`telemetry_delivery.rs`) | bounded channel, counters, the worker's event and attempt | enqueue, receive, post, back off | a full channel, late or lost answers, retries, restart | every event is settled, once, in order; counters account for all; copies are bounded |
| start-up, enrollment, configuration (`main.rs`, `enrollment.rs`, `config/`, `app/`) | settings, the process's copy, the one-time token | load, validate, enroll, open, build, hydrate, bind | the copy changes between its two validations; the token is spent before the answer is kept | what serves is fully configured; settings that served can be started again |
| request windows (`rate_limit/`) | count and beginning of a window for each key | check, clear | two-step creation, stale clocks, limits that change | what a window and a sliding span admit |
| behaviour map (`rate_limit/`) | recent hits, ids and sign-in attempts for each key | three phases of a request, eviction, clear | making room and using it are two steps | the map is bounded; no attempt inside the window is forgotten |
| live policy and bundles (`control_plane/`, `core/`, `types/`) | policy and version behind a lock; bundles, refusals and alerts as rows | row handlers, import, save, restore, tamper, alert status | restore in several steps, refusals in several statements, versions that start again | a version names one policy; only what was signed is restored; alerts escalate |
| release channels (`control_plane/`, `core/`) | channel and contract rows of a route | promote, set, delete, contracts | four statements without a transaction, failing reads | exports are vouched for; undisturbed promotions move forward |
| route inventory (`core/`, `storage/`) | learned routes behind a lock; saved rows and three tables of routes | remember, evict, list, sync, approve, promote, manage, clear, hydrate | first requests race; a list is filtered table by table while routes move | the memory is bounded; one announcement; what is approved stays hidden |
| schema learning (`detection/`) | a bounded map of schemas | compare, learn, evict | the compared body is learned afterwards; floods | a steady client is not reported; a flood leaves established schemas |
| admin authentication, audit, metrics, exports, logging | audit rows | queries | none that decides anything | left out |

Interaction: the pipeline reads bans (`get_active_block`), asks the rate limiter
and the detectors for findings, reads the live policy to decide, writes bans and
scores, and enqueues events. The admin API writes bans, policy, rows, and clears
the maps. The background task sweeps bans. The start hydrates bans, scores and
routes before anything serves.

## 2. Modules

**`PolicyDecision`** is the decision engine as operators: `ResolveRuleMode`,
`Excepted`, the thresholds of each mode, the risk in quarters of a point,
`EvaluateFindings`. **`Detection`** is what inspection finds, over records that
keep what the detectors tell apart: an attack is a payload, not a string, with a
kind, the number of times it is encoded, the texts it lies in (path, query, a field
of the body, the body as sent, the body decoded), for each of them how many passes
come before one whose bytes are not UTF-8 and end the decoding (`readable`), and
those where it follows the name of a secret and is replaced before anything looks
at it (`secret`), which the code does to any body whatever its type; what the
expressions match is thereby an input. **`AnalystRules`** has the seven tables, one action per
handler. **`RequestPromise`** says what becomes of a request, with the ban ledger
in its smallest form. **`RequestPipeline`** composes these: requests in
flight (`req`, with a program counter and the side of the upstream they are on),
operators, and a database whose statements fail. Each read of shared state is a
step: the mode of each rule, each allowlist, the suppressions, the score, the
policy mode, the exceptions, the contract. A charge is one step where the source
has a score, and two where it has none (`FindNoScore`, `InsertFirstScore`), so that
two first charges can overwrite each other; `raced` remembers the sources where two
requests were between these steps at once. It implements the promise
(`RequestPromiseSpec`).

**`SchemaLearning`** is `learn_and_detect_json_schema` as operators on a bounded
map. **`Discovery`** is the inventory around it: request threads that learn
routes and bodies, operators whose handlers are rows of statements, saved rows,
and a restart that hydrates from them. Budgets bound requests and handlers
together.

**`Startup`** is `main`: settings, the two validations, enrollment against a
control plane (external) that may take the token and lose the answer, the steps
that may fail, serving, crashes. It extends `TelemetryDelivery`: the sender's
steps are those of a process that serves with telemetry on, and its `Restart` is
such a process's crash. A setting is reduced to whether it is there, the timeout
and the capacity to whether they are in range.

**`BanLedger`** is what the mitigation store promises a source: it is barred only
by a ban issued for it and not past its expiry, restarts included. **`Mitigation`**
is the store: both maps, both tables, request and admin threads (`pc`, `src`, the
ban or score in hand), the sweep with the entries it has still to visit, remove
and purge, failing statements, a crash that leaves only the tables, and
hydration. Actions are named for the functions they are steps of. It implements
the ledger under the mapping stated at its end.

**`TelemetryPromise`** says that accepted events are settled in order, each with
one verdict, turned away only when the queue is full, and lost only when the
process ends. **`TelemetryDelivery`** has the channel, the worker and the
counters; the control plane (external) may answer anything, and a post that
fails may have arrived.

**`RateWindow`** is `RateLimiter::check` with its two steps for an absent key and
the clock read before the lock. Limits change from one request to the next since
the live policy does. `log` is history: when each key's requests were admitted,
in order.

**`BehaviorStore`** is the other map of the limiter: `evaluate_behavior`,
`evaluate_object_enumeration`, `evaluate_auth_abuse`, each of which first makes
room (`enforce_behavior_capacity`): it counts (`Count`), then chooses its victims in
a map that others may have changed (`Collect`), then removes them one at a time
(`Evict`). Statistics that guard nothing are left out.

**`LivePolicy`** is the policy state and its bundles. The four lists of the policy
(overrides, rate limits, behaviour overrides, exceptions) are one function
`lists`, since their handlers are the same code; exceptions have no row handlers
(`Edited`). A digest is what it is taken of: the policy with the rows of each
prefix in order, as the canonical form sorts by prefix only. `task` holds what a
thread has read. Statuses of alerts are written without a look at the old one.

**`ReleaseChannel`** is `promote_managed_spec_release`, one step per statement,
against the handlers that write the same rows unguarded. `since` is history: what
was so since a promotion began, and whether its row is still the one it read.

`MC*` modules give the constants their values (`Mitigation` needs none). `*Proofs`
modules hold the theorems: `GatewayProofs` those of the pipeline and its
decisions, `TelemetryProofs` also those of `Startup`. Operators named `Mut...` are
deliberate mistakes, each defined just above the definition it would replace; no
specification uses them, and each shows that a property would catch that mistake.

## 3. Runs

| run | asks | bounds, and why they are enough |
|---|---|---|
| `gateway` | has every rejection and ban a cause; does Strict reject what Balanced does; does trust leave a trace; do charges add up, and what can two first charges lose; are encoded attacks reported; is the promise implemented | two requests at a time out of four kinds (a search whose two payloads must not be claimed, one beside bytes that no pass can decode and one redacted; a path traversal; SQL in an order whose body text is redacted and whose field is not; a foreign tenant on an unknown route), from two sources, one without a score and one with, two answers of the upstream; one change by an operator anywhere between their steps, one failing statement; one decoding pass puts a payload encoded twice within reach and one encoded thrice beyond |
| `discovery` | bounds of both memories, one announcement, lists true to the tables whose queries succeed, quiet for steady clients | two requests, two operators, three routes of which one is specified; room for one route and two schemas, so everything evicts; saved rows exceed the limit at the start; one fault, one restart; budgets of requests and handlers that cover four requests, two with a handler, one with three |
| `mitigation` | do memory and rows agree for a source whose operations neither overlapped nor failed; are scores charged once; do live bans end only by a lift; is the ledger implemented; does every expired ban leave memory | two threads and the sweep are the three actors that race; one source, as no step reads another's entry; three operations, a ban of one tick, a crash |
| `mitigation_unblock` | is an unblocked ban gone for good (violation) | one thread: the failure needs no race |
| `startup_delivery` | counters, duplicates, order, settlement; is what serves configured; can what served start again | four events against a channel of two: it fills, drops and drains; one retry, one crash while serving, any number of starts that fail; five settings: a key given by hand, the key forgotten, a capacity out of range, enrolling with and without an address to post to |
| `startup_enrollment` | does a complete enrolling configuration survive its enrollment (violation) | one setting, nothing else is needed |
| `rate_window` | admissions per window and per sliding span | two threads make the creation race; two limits and windows; five checks pass every limit |
| `behavior_store` | by how much the map exceeds its limit; attempts kept | a map of two with four keys: every request may evict, after a count that the other thread has made stale |
| `policy_versions` | versions, restores | two admins; two seconds, so two bundles and an id collision; three versions: save, edit, restore; one restart |
| `policy_alerts` | escalation, unless a statement for the bundle failed | the code's threshold of three refusals, one bundle, failing statements; row handlers are off since alerts do not read the live policy |
| `release_channel` | exports vouched for, promotions forward | two promotions, four channels, every statement may fail; nothing else is bounded |
| `release_transitions` | are promotions' transitions always valid (violation) | statements do not fail, so the counterexample is the race alone |

Deadlock is checked except where a bound ends every behaviour: requests,
budgets, clocks, versions and events of `gateway`, `discovery`, `rate_window`,
`behavior_store`, `startup_delivery` and `policy_*` run out.

The three violations are findings about the code:

* `startup_enrollment`: a start that enrolls cannot serve. Enrollment clears
  `enrollment_token` and leaves `enrollment_enabled` set; `TelemetryDelivery::new`
  validates the configuration a second time and refuses it for the missing token.
  The one-time token is spent by then. The theorem `EnrollingNeverServesHolds`
  gives the extent: with enrollment enabled no start ever serves. The obvious
  repair, to clear the flag with the token, is the mutant of
  `ServedSettingsStand`: the next start under the same settings would present the
  spent token, and the credential it was traded for was kept in memory only.
* `mitigation_unblock`: `unblock_ip` answers "removed" although the delete of the
  row failed, and the next start loads the ban again.
* `release_transitions`: a promotion upserts over a row that changed after its
  check, so the transition it performs can be one the check refuses.

**Fairness.** `Startup` and `TelemetryDelivery` assume weak fairness of the worker
only: it is a task that loops while the process lives, its posts have a time-out,
and nothing is assumed of what the control plane answers or of who starts the
process. `Mitigation!FairSpec` assumes it of a thread that is inside a handler,
of the sweep (a task on a timer), of the clock and of the restart. Neither
assumes that requests come.

What the code does and a reader might not expect, met while modelling and kept
in the models as it is:

* A tenant hint read from a body string keeps its JSON quotes, so it never equals
  the tenant of the token: the finding is always critical (`core/mod.rs:1908`).
* `approve_response_contract_from_event` keeps the old row's status and type and
  adds only headers.
* A critical finding that is excepted, or whose rule only detects, still counts in
  the risk, and the risk can reject.
* The behaviour map can exceed `max_entries`, which `docs/PHASE_5_STATUS.md` calls
  bounded, by one entry for each other thread: `CapacityBound` says so. The memory of routes that was
  hydrated above its limit stays there: learning evicts one for one.
* Approving a route does not rewrite the saved rows, and a sync that filtered
  before a promotion can write the promoted route back: `PromotedNotListed` is
  therefore about handlers that come one at a time, `StaysHidden` about routes no
  operator took off a table or approved anew meanwhile.
* A table whose query fails reads as empty (`unwrap_or_default`, `core/mod.rs:554`):
  it hides nothing, and the routes that were on it throughout are shown, and saved
  by a sync. `StaysHidden` excludes them: it speaks of routes on no table whose
  query failed.
* Two requests that find a source without a score at once lose one of their
  charges: the later insertion replaces the other (`mitigation/mod.rs:122`).
  `ChargesAddUp` allows this for such sources and says how much can be lost: whole
  charges, never all.
* One sequence that does not decode to UTF-8 stops the decoding of the whole text
  it is in, so a payload encoded beside it is looked at as it was sent. An attack
  behind the name of a secret, as in `token=...`, is redacted before it is looked at,
  in any body. `AttacksReported` claims neither.
* A count of refusals that fails reads as one, and the alert it should have made
  critical is not: `AlertsEscalate` is about bundles no statement failed for.
* The policy digest sorts rows by prefix while requests take the first match, so
  two policies that decide differently can have one digest; a restore moves the
  rows themselves, so no property of bundles breaks.
* `config/development.yaml` sets modes for `sqli.basic` and `UZ-API-SCHEMA-001`,
  which are not looked up: findings of learned schemas are governed by
  `UZ-API-SCHEMA-000`.

## 4. Proofs

Every theorem is for all values of the constants, under the `ASSUME`s of the
modules (types, finite sets of threads, positive bounds; what a policy, a payload,
a body or a saved table is made of: `IsPolicy`, `PipelineAssumption`, `IsBody`,
`IsTable`), which TLC evaluates in passing runs. Every invariant and every action
property the runs check is a theorem. Each is strengthened until it is inductive;
the strengthenings are what the proofs add to the runs.

* `GatewayProofs`. `RefinesPromise`, `TrustLeavesNoTraceHolds`: `GoodInv` says for
  each program counter which side of the upstream a request is on, that trusted
  requests have nothing to decide and that what has not been decided has no event.
  `RejectionHasCauseHolds`: modes, policy mode and exceptions are read at different
  moments, so `CauseInv` says of each value a request carries that it was so under
  a policy in force since it arrived, and of each ban that its event is there.
  `StrictRejectsWhatBalancedDoes` is about the operators alone, for any findings;
  it needs the configured thresholds to be at or above the floors Strict lowers
  them to (`MinBlockConfidence >= 55`, `MinBlockScore >= 35`): below, the floor
  raises them.
  `ChargesAddUpHolds`: event and charge are separate steps, and a first charge is two,
  so `ChargeInv` adds that a request between them has one event of its side, whose
  findings are what it is about to charge, and that a source whose first charge is still to
  be inserted started without a score and, unless it is in `raced`, has none yet
  (`FirstInv`). For a source in `raced` the events whose charges are kept are named by
  an existential: an addition extends them, an insertion leaves only its own. That
  one event more changes the sum by its findings alone rests on lemmas about
  `ReputationDelta` of disjoint finite sets.
  `AttacksReportedHolds`, for any payloads, texts, readable passes and secrets:
  `AttackInv` follows an attack from the payload to the event:
  at each step its finding is still to be made, in hand, suppressed for this
  request, or logged; the suppressions in force are among those a request in
  flight has seen. `TypeCorrect` by `TypeInv`, which says at each step which fields
  are already filled.
* `DiscoveryProofs`. `LearnedBoundHolds` and `EstablishedKeptHolds` count with
  `FiniteSetTheorems`; `AnnouncedOnceHolds` from what a request holds between its
  lookup and its insertion; `StaysHiddenHolds` from the order in which the tables
  are read and routes move between them, for routes on no table whose query failed
  (`HiddenInv`); `PromotedNotListedHolds`
  from what each handler has already filtered while nobody disturbs it.
  `TypeCorrect` includes that the kinds counted for a field add up to the bodies it
  was seen in: sums over finite sets are taken apart by `CountedTotal`, proved by
  induction on the set. `SteadyClientQuietHolds`: `QuietInv` says that a route whose
  clients all sent one body has, while it is remembered, a schema with the fields
  of that body and no others, each only ever seen with its kind, and with its size. It assumes
  `MinSamples > 0`, which the configuration does not validate (the default is
  positive): with zero, the first body of a route is compared with an empty
  schema, and every field of it but the sensitive ones is reported.
* `TelemetryProofs`. `CountersAccountHolds` and `RefinesPromise` need that the channel holds no
  event twice and that what is in hand or in line is `waiting`; `DuplicatesBoundedHolds`
  that copies are bounded by attempts at every moment of a delivery. For
  `Startup`, `Starts` says that what is served with is the operator's settings
  unchanged; `StartRefinesDelivery` carries the theorems about the sender over to
  the whole process.
* `LivePolicyProofs`. `OnlySignedRestoredHolds`: tampering either shows in the
  digest or changed nothing. `VersionNamesPolicyHolds`: what a thread has exported
  and not yet inserted names a policy too. `AlertsEscalateHolds`: every counted
  refusal is behind an alert or a thread on its way to one; the threshold is above
  one since a count that fails reads as one. `TypeCorrect` needs what the rows a
  deletion keeps are (`Retained`): a fold over the list, by induction on its length.
* `BehaviorProofs`. `CapacityBoundHolds`: the bound (limit plus other threads) is not
  inductive, since evictions interleave; the strengthening `Room` says, for every
  set of threads between counting and using the room, that what nobody is about to
  remove and that set together stay within `MaxEntries - 1` plus all threads, those
  that have yet to collect counted with the number of entries they will remove.
  `AttemptsKeptHolds`: what was made is what is too old followed by what the entry
  holds.
* `RateWindowProofs`. `AdmissionBoundHolds`, for any finite set of threads, by
  counting, for a window, what is admitted plus what each thread that has missed
  the key may still add. `SlidingBoundHolds`: `SerialInv` says of a key whose
  requests did not overlap that all its admissions but those of its window
  are no later than the window's beginning, that all but those and `Cap` before
  them are a shortest window earlier, and that an admission and the one `2 * Cap`
  after it are a shortest window apart.
* `MitigationProofs`. `RestartAgreementHolds`, whose invariant says for each source
  what memory and row are at every step of the one operation that may be under
  way, nothing being claimed of a source in `muddied`; `RefinesLedger`, by the
  mapping of each action to a step of the ledger or a stutter, with the lemma that
  every ban in memory, in hand or in a row was issued. `BanEndsOnlyByLiftHolds`
  adds `NumberedInv`: every ban held anywhere is numbered below the next one, and
  memory is empty while the process is down. `ScoreAccountingHolds` adds
  `AbsentInv`: a thread about to insert a first score still finds none, where its
  operation did not overlap another on the source.
* `ReleaseProofs`. `ExportVouchedHolds`, `UndisturbedAdvancesHolds`, from
  `Carried`: what a thread has read was so at some time since its promotion began.

Only model-checked: liveness (`ExpiredBanReaped`, `EveryEventSettled`), as the
prover treats neither fairness nor `ENABLED`. The prover's induction theorems take
an operator as a parameter and cannot be used; where a proof is by induction, on the
size of a finite set or the length of a sequence, it is so on the set of numbers for
which the claim holds (`Induct`, from `WellFoundedInduction`). `SelectSeq` cannot be
expanded by the prover: the models filter with a fold where a proof looks inside.
No module uses `RECURSIVE`.

## 5. What is not modelled

Admin authentication (a token comparison), the audit (appended, failures logged
and ignored), metrics, exports and logging: no state of theirs decides anything.
Of modelled components: names, payloads, reasons and timestamps that no guard
reads; HTTP, JSON and paging; what the detectors' expressions match; cutting
inspected text to a number of bytes (a payload beyond the cut is in no text of the
model) and the case of a content type; an enqueue after the worker has gone, which
only happens as the process ends (`TrySendError::Closed`); an iteration or a count
over a sharded map that sees some shards earlier than others (`BehaviorStore` takes
each as one step); clearing a score while requests charge it, which `Mitigation`
has and the pipeline does not; floating-point statistics of the behaviour
map; attributes of a learned route that are only reported; what configuration
sections other than the control plane's are validated for; `upsert_learned_route`
and the helpers that clear and list the schema memory, which only tests call.
SQLite statements are atomic and either happen or fail. Poisoned locks end the
process. The wall clock does not go back.

## 6. Plan

What is left, in order of importance:

1. The composition of `RequestPipeline` with `RateWindow` and `BehaviorStore`,
   whose findings are inputs of the pipeline now.
2. Statistics of the behaviour map over scaled integers.
