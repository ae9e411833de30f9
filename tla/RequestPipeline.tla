-------------------------- MODULE RequestPipeline ---------------------------
(***************************************************************************)
(* A request on its way through the gateway: context, ban check,           *)
(* inspection, allowlists, suppressions, decision, event, mitigation, the  *)
(* upstream, and the same again for the response.  Every read of state     *)
(* shared with operators or other requests is a step of its own: the mode  *)
(* of each rule, each allowlist, the suppressions, the score, the policy   *)
(* mode, the exceptions, the contract.                                     *)
(***************************************************************************)
EXTENDS PolicyDecision, Detection, AnalystRules

CONSTANTS
    Requests,       \* names of the requests
    Sources,
    Inputs,         \* what a request may be: a record of Detection, with its route
    Responses,      \* what the upstream may answer
    Policies,       \* what operators may put in force
    StartPolicies,  \* of these, what may be in force at the start
    StartReputations,   \* what hydration may have loaded: a score for each source
    MaxChanges,     \* bound: changes by operators, and bans that end
    MaxFaults       \* bound: statements that fail

(* What a document of the policy deserializes to.                          *)
IsPolicy(p) ==
    /\ p.mode \in PolicyModes
    /\ \A rule \in DOMAIN p.globals : p.globals[rule] \in RuleModes
    /\ DOMAIN p.overrides \subseteq Nat
    /\ \A i \in DOMAIN p.overrides :
         \A rule \in DOMAIN p.overrides[i].modes : p.overrides[i].modes[rule] \in RuleModes

ASSUME PipelineAssumption ==
    /\ \A p \in Policies : IsPolicy(p)
    /\ IsFiniteSet(Requests) /\ Inputs # {} /\ Responses # {}
    /\ ListedSources \subseteq Sources /\ StartPolicies \subseteq Policies
    /\ StartReputations \subseteq [Sources -> Nat] /\ MaxChanges \in Nat /\ MaxFaults \in Nat
    /\ \A i \in Inputs :
         /\ i.source \in Sources
         /\ \A f \in i.observed : f.severity \in Severities /\ f.confidence \in Nat
         /\ \A p \in i.payloads : /\ p.kind \in {"traversal", "sqli", "xss", "cmdi", "ssrf"}
                                 /\ p.layers \in Nat /\ DOMAIN p.readable \subseteq Texts
                                 /\ \A text \in DOMAIN p.readable : p.readable[text] \in Nat \X Nat
    /\ Config.maxDecodePasses \in Nat

VARIABLES
    policy, banned,
    reputation, \* 0 is a source the map has no entry for
    req,        \* each request: see Blank
    events,     \* the security events, logged and handed to the sender
    changes, faults,
    started,    \* history: reputations at the start
    raced       \* history: sources two requests found without a score at once

vars == <<rules, policy, banned, reputation, req, events, changes, faults, started, raced>>

NoFindings == [f \in {} |-> "detect_only"]

Blank == [pc       |-> "none",
          input    |-> CHOOSE i \in Inputs : TRUE,
          side     |-> "request",    \* what is inspected, it or its response
          todo     |-> {},           \* findings whose rule's mode is not read yet
          found    |-> NoFindings,   \* finding -> mode
          trusted  |-> FALSE,        \* a row of an allowlist matched
          response |-> Nothing, contract |-> Nothing,
          score    |-> 0, mode |-> "monitor", decision |-> Nothing,
          seen     |-> {},           \* history: policies in force since it arrived
          hushed   |-> {}]           \* history: suppressions in force since then

Answered == {"turned away", "refused", "withheld", "delivered", "failed"}
Asking   == {"source", "scoped source", "principal", "scoped principal", "tri scoped"}
Deciding == {"score", "mode", "decide", "record", "charge", "first charge", "mitigate"}
Steps    == {"none", "check", "resolve", "shadow", "filter", "forward", "contract", "deliver"}
            \cup Answered \cup Asking \cup Deciding

TypeOK ==
    /\ RulesTypeOK
    /\ policy \in Policies /\ banned \subseteq Sources
    /\ reputation \in [Sources -> Nat] /\ started \in [Sources -> Nat] /\ raced \subseteq Sources
    /\ changes \in 0 .. MaxChanges /\ faults \in 0 .. MaxFaults
    /\ \A r \in Requests :
         /\ req[r].pc \in Steps /\ req[r].input \in Inputs
         /\ req[r].side \in {"request", "response"} /\ req[r].trusted \in BOOLEAN
         /\ \A f \in DOMAIN req[r].found : req[r].found[f] \in RuleModes
         /\ req[r].score \in Nat /\ req[r].mode \in PolicyModes
         /\ req[r].seen \subseteq Policies

Init ==
    /\ StartTables
    /\ policy \in StartPolicies /\ banned = {}
    /\ reputation \in StartReputations /\ started = reputation /\ raced = {}
    /\ req = [r \in Requests |-> Blank] /\ events = {}
    /\ changes = 0 /\ faults = 0

world == <<rules, policy, banned, reputation, events, changes, started, raced>>

(* A statement may fail while faults are left.                             *)
Succeeds == UNCHANGED faults
Fails    == faults < MaxFaults /\ faults' = faults + 1

Path(r)   == req[r].input.path
Source(r) == req[r].input.source

(* Of an answered request only what it was is kept.                        *)
Answer(r, outcome) ==
    req' = [req EXCEPT ![r] = [Blank EXCEPT !.pc = outcome, !.input = req[r].input,
                                            !.trusted = req[r].trusted,
                                            !.hushed = req[r].hushed]]
-----------------------------------------------------------------------------
(* Middleware: the body is read into a context, or the request is answered *)
(* 400; then comes the ban check.                                          *)
RequestContextMiddleware(r) ==
    /\ req[r].pc = "none"
    /\ \/ \E i \in Inputs :
             req' = [req EXCEPT ![r].pc = "check", ![r].input = i,
                                ![r].seen = {policy}, ![r].hushed = suppressions]
       \/ Answer(r, "failed")
    /\ Succeeds /\ UNCHANGED world

(* What is still to be resolved, and the step after that.                  *)
Inspecting(side, left) ==
    IF left # {} THEN "resolve" ELSE IF side = "request" THEN "source" ELSE "contract"

MutSecurityMiddleware(r) ==
    LET raised == InspectRequest(req[r].input) IN
    /\ req[r].pc = "check"
    /\ req' = [req EXCEPT ![r].pc = Inspecting("request", raised), ![r].todo = raised]
    /\ Succeeds /\ UNCHANGED world

SecurityMiddleware(r) ==
    LET raised == InspectRequest(req[r].input) IN
    /\ req[r].pc = "check"
    /\ IF Source(r) \in banned
       THEN Answer(r, "turned away")
       ELSE req' = [req EXCEPT ![r].pc = Inspecting("request", raised), ![r].todo = raised]
    /\ Succeeds /\ UNCHANGED world

WithFinding(r, f) ==
    [g \in DOMAIN req[r].found \cup {f} |->
        IF g = f THEN ResolveRuleMode(policy, Path(r), Governing(f.rule)) ELSE req[r].found[g]]

(* Each detector reads the mode of its rule when it reports.               *)
ResolveFinding(r) ==
    /\ req[r].pc = "resolve"
    /\ \E f \in req[r].todo :
         req' = [req EXCEPT ![r].found = WithFinding(r, f), ![r].todo = @ \ {f},
                            ![r].pc = Inspecting(req[r].side, req[r].todo \ {f})]
    /\ Succeeds /\ UNCHANGED world
-----------------------------------------------------------------------------
(* The allowlists are asked in turn, each by a statement of its own; a     *)
(* statement that fails matches nothing.  A source that matches is not     *)
(* looked up again for its path, nor is a principal.                       *)
Ask(r, step, matches, found, otherwise) ==
    /\ req[r].pc = step
    /\ \/ /\ Succeeds
          /\ req' = [req EXCEPT ![r].pc = IF matches THEN found ELSE otherwise,
                                ![r].trusted = @ \/ matches]
       \/ /\ matches /\ Fails
          /\ req' = [req EXCEPT ![r].pc = otherwise]
    /\ UNCHANGED world

(* A route that was learned and is not in the specification is a finding.  *)
Unlisted(r) == IF req[r].input.shadow THEN "shadow" ELSE "filter"

AskAllowlists(r) ==
    LET principal == DerivePrincipal(req[r].input) IN
    \/ Ask(r, "source", IsSourceAllowlisted(Source(r)), "principal", "scoped source")
    \/ Ask(r, "scoped source", IsSourceAllowlistedForPath(Source(r), Path(r)), "principal", "principal")
    \/ Ask(r, "principal", IsPrincipalAllowlisted(principal), "tri scoped", "scoped principal")
    \/ Ask(r, "scoped principal", IsPrincipalAllowlistedForPath(principal, Path(r)),
           "tri scoped", "tri scoped")
    \/ Ask(r, "tri scoped", IsTriScopedAllowlisted(Source(r), principal, Path(r)), Unlisted(r), Unlisted(r))

ShadowRoute(r) ==
    /\ req[r].pc = "shadow"
    /\ req' = [req EXCEPT ![r].pc = "filter", ![r].found = WithFinding(r, ShadowFinding)]
    /\ Succeeds /\ UNCHANGED world

Keep(r, kept) ==
    req' = [req EXCEPT
        ![r].found = [f \in kept |-> req[r].found[f]],
        ![r].pc    = IF kept # {} THEN "score"
                     ELSE IF req[r].side = "request" THEN "forward" ELSE "deliver"]

MutFilterFindings(r) ==
    LET all    == DOMAIN req[r].found
        hushed == {f \in all : Suppressed(f.rule, Path(r))}
    IN  /\ req[r].pc = "filter"
        /\ \/ /\ Succeeds
              /\ Keep(r, IF req[r].trusted /\ req[r].side = "request" THEN {} ELSE all \ hushed)
           \/ ~req[r].trusted /\ hushed # {} /\ Fails /\ Keep(r, all)
        /\ UNCHANGED world

(* The findings of a trusted request are dropped, on both sides; of any    *)
(* other, those an analyst suppressed, and none where the statement fails. *)
FilterFindings(r) ==
    LET all    == DOMAIN req[r].found
        hushed == {f \in all : Suppressed(f.rule, Path(r))}
    IN  /\ req[r].pc = "filter"
        /\ \/ Succeeds /\ Keep(r, IF req[r].trusted THEN {} ELSE all \ hushed)
           \/ ~req[r].trusted /\ hushed # {} /\ Fails /\ Keep(r, all)
        /\ UNCHANGED world
-----------------------------------------------------------------------------
(* evaluate_findings reads the score, the policy mode and the exceptions   *)
(* in three steps.                                                         *)
ReadScore(r) ==
    /\ req[r].pc = "score"
    /\ req' = [req EXCEPT ![r].pc = "mode", ![r].score = reputation[Source(r)]]
    /\ Succeeds /\ UNCHANGED world

ReadPolicyMode(r) ==
    /\ req[r].pc = "mode"
    /\ req' = [req EXCEPT ![r].pc = "decide", ![r].mode = policy.mode]
    /\ Succeeds /\ UNCHANGED world

Decide(r) ==
    /\ req[r].pc = "decide"
    /\ req' = [req EXCEPT ![r].pc = "record",
                  ![r].decision = EvaluateFindings(req[r].mode, policy.exceptions, Path(r),
                                                   req[r].found, req[r].score),
                  ![r].score = 0, ![r].mode = "monitor"]
    /\ Succeeds /\ UNCHANGED world

(* The event is logged, stored where that statement succeeds, and queued.  *)
Event(r, stored) ==
    LET mismatch == \E f \in DOMAIN req[r].found : f.rule = "response.contract_mismatch" IN
    [request |-> r, side |-> req[r].side, source |-> Source(r),
     findings |-> DOMAIN req[r].found, reject |-> req[r].decision.reject,
     seen |-> req[r].seen, stored |-> stored,
     expected |-> IF mismatch THEN req[r].contract ELSE Nothing, response |-> req[r].response]

RecordEvent(r) ==
    /\ req[r].pc = "record"
    /\ \E stored \in BOOLEAN :
         /\ IF stored THEN Succeeds ELSE Fails
         /\ events' = events \cup {Event(r, stored)}
    /\ req' = [req EXCEPT ![r].pc = "charge"]
    /\ UNCHANGED <<rules, policy, banned, reputation, changes, started, raced>>

ReputationDelta(fs) ==
    LET Count(severity) == Cardinality({f \in fs : f.severity = severity})
    IN  Count("low") + 2 * Count("medium") + 4 * Count("high") + 6 * Count("critical")

(* What follows the event: a rejection is answered, the rest goes on.      *)
Charge(r, score) ==
    /\ reputation' = [reputation EXCEPT ![Source(r)] = score]
    /\ req' = [req EXCEPT ![r].pc = IF req[r].decision.reject THEN "mitigate"
                                    ELSE IF req[r].side = "request" THEN "forward" ELSE "deliver"]

FindNoScore(r) ==
    /\ reputation[Source(r)] = 0
    /\ req' = [req EXCEPT ![r].pc = "first charge"]
    /\ raced' = IF \E o \in Requests \ {r} : req[o].pc = "first charge" /\ Source(o) = Source(r)
                THEN raced \cup {Source(r)} ELSE raced
    /\ UNCHANGED reputation

AddToScore(r) ==
    LET score == reputation[Source(r)]
    IN  /\ score # 0
        /\ Charge(r, score + ReputationDelta(DOMAIN req[r].found))
        /\ UNCHANGED raced

MutChargeReputation(r) ==
    /\ req[r].pc = "charge"
    /\ \/ req[r].decision.reject /\ (FindNoScore(r) \/ AddToScore(r))
       \/ ~req[r].decision.reject /\ Charge(r, reputation[Source(r)]) /\ UNCHANGED raced
    /\ Succeeds /\ UNCHANGED <<rules, policy, banned, events, changes, started>>

(* Every decision charges the source.  add_suspicious_score looks for the  *)
(* score first: one that is there is raised under its lock, in this step.  *)
ChargeReputation(r) ==
    /\ req[r].pc = "charge"
    /\ FindNoScore(r) \/ AddToScore(r)
    /\ Succeeds /\ UNCHANGED <<rules, policy, banned, events, changes, started>>

(* Where there was none the charge is inserted, over whatever another      *)
(* request inserted meanwhile.                                             *)
InsertFirstScore(r) ==
    /\ req[r].pc = "first charge"
    /\ Charge(r, ReputationDelta(DOMAIN req[r].found))
    /\ Succeeds /\ UNCHANGED <<rules, policy, banned, events, changes, started, raced>>

(* Then a rejection bans the source where the actions ask for it, and is   *)
(* the answer.  A decision that allows applies none of its actions.        *)
FinalizeBlockingDecision(r) ==
    /\ req[r].pc = "mitigate"
    /\ banned' = IF "BlockSourceIpTemporary" \in req[r].decision.actions
                 THEN banned \cup {Source(r)} ELSE banned
    /\ Answer(r, IF req[r].side = "request" THEN "refused" ELSE "withheld")
    /\ Succeeds /\ UNCHANGED <<rules, policy, reputation, events, changes, started, raced>>
-----------------------------------------------------------------------------
(* The upstream answers, or the client is told 400, 405 or 502.            *)
Forward(r) ==
    /\ req[r].pc = "forward"
    /\ \/ Answer(r, "failed")
       \/ \E p \in Responses :
            LET raised == InspectResponseHeaders(p) \cup InspectResponse(p) IN
            req' = [req EXCEPT ![r].pc = Inspecting("response", raised), ![r].side = "response",
                               ![r].response = p, ![r].todo = raised,
                               ![r].found = NoFindings, ![r].decision = Nothing]
    /\ Succeeds /\ UNCHANGED world

(* A contract whose statement fails is no contract.                        *)
CheckContract(r) ==
    LET stored == IF req[r].input.route \in DOMAIN contracts
                  THEN contracts[req[r].input.route] ELSE Nothing
        Found(c) == ContractFindings(req[r].response, c)
    IN  /\ req[r].pc = "contract"
        /\ \E c \in {stored, Nothing} :
             /\ IF c = stored THEN Succeeds ELSE Fails
             /\ req' = [req EXCEPT ![r].pc = "filter", ![r].contract = c,
                           ![r].found = IF Found(c) = {} THEN @
                                        ELSE WithFinding(r, CHOOSE f \in Found(c) : TRUE)]
        /\ UNCHANGED world

Deliver(r) == req[r].pc = "deliver" /\ Answer(r, "delivered") /\ Succeeds /\ UNCHANGED world
-----------------------------------------------------------------------------
(* Around the requests: operators, and bans that expire or are lifted.     *)
(* The module Mitigation has what clears a score, in memory and in its row.*)
Changed == changes < MaxChanges /\ changes' = changes + 1

InFlight(r) == req[r].pc \notin Answered \cup {"none"}

ChangePolicy ==
    /\ Changed
    /\ \E p \in Policies \ {policy} :
         /\ policy' = p
         /\ req' = [r \in Requests |-> IF InFlight(r) THEN [req[r] EXCEPT !.seen = @ \cup {p}] ELSE req[r]]
    /\ Succeeds /\ UNCHANGED <<rules, banned, reputation, events, started, raced>>

ChangeRules ==
    /\ Changed
    /\ EditRules /\ rules' # rules
    /\ req' = [r \in Requests |-> IF InFlight(r) THEN [req[r] EXCEPT !.hushed = @ \cup suppressions']
                                  ELSE req[r]]
    /\ Succeeds /\ UNCHANGED <<policy, banned, reputation, events, started, raced>>

ApproveFromEvent ==
    /\ Changed
    /\ \E e \in events :
         /\ e.stored /\ e.expected # Nothing
         /\ ApproveResponseContractFromEvent(req[e.request].input.route, e.expected, e.response)
    /\ rules' # rules
    /\ Succeeds /\ UNCHANGED <<policy, banned, reputation, req, events, started, raced>>

LiftBan ==
    /\ Changed
    /\ \E s \in banned : banned' = banned \ {s}
    /\ Succeeds /\ UNCHANGED <<rules, policy, reputation, req, events, started, raced>>

Proceed(r) ==
    \/ RequestContextMiddleware(r) \/ SecurityMiddleware(r)
    \/ ResolveFinding(r)
    \/ AskAllowlists(r) \/ ShadowRoute(r) \/ FilterFindings(r)
    \/ ReadScore(r) \/ ReadPolicyMode(r) \/ Decide(r) \/ RecordEvent(r)
    \/ ChargeReputation(r) \/ InsertFirstScore(r) \/ FinalizeBlockingDecision(r)
    \/ Forward(r) \/ CheckContract(r) \/ Deliver(r)

Next ==
    \/ \E r \in Requests : Proceed(r)
    \/ ChangePolicy \/ ChangeRules \/ ApproveFromEvent \/ LiftBan

Spec == Init /\ [][Next]_vars
-----------------------------------------------------------------------------
(* What happens to requests is what the gateway promises: bans are checked *)
(* once, on arrival; nothing is delivered that did not go upstream, and    *)
(* nothing refused goes there; trust holds for both sides.                 *)
Stage(r) ==
    CASE req[r].pc \in Answered \cup {"none"} -> req[r].pc
      [] req[r].pc = "check" -> "arrived"
      [] OTHER -> IF req[r].side = "request" THEN "admitted" ELSE "forwarded"

Promise == INSTANCE RequestPromise WITH
    stage <- [r \in Requests |-> Stage(r)],
    trusted <- {r \in Requests : req[r].trusted},
    from <- [r \in Requests |-> Source(r)]
RequestPromiseSpec == Promise!Spec

(* A decision takes rule modes, policy mode and exceptions from different  *)
(* moments.  Still no rejection is without cause: some policy in force     *)
(* since the request arrived was not Monitor, and a finding of the event   *)
(* is critical, or is high, in blocking mode and not excepted under        *)
(* policies of that time.  Only a rejection for a critical finding bans.   *)
RejectionHasCause ==
    /\ \A e \in events : e.reject =>
         LET path == req[e.request].input.path IN
         /\ \E p \in e.seen : p.mode # "monitor"
         /\ \E f \in e.findings :
              \/ f.severity = "critical"
              \/ /\ f.severity = "high"
                 /\ \E p \in e.seen : ResolveRuleMode(p, path, Governing(f.rule)) = "block"
                 /\ \E p \in e.seen : ~Excepted(p.exceptions, path, f)
    /\ \A s \in banned : \E e \in events :
         e.source = s /\ e.reject /\ \E f \in e.findings : f.severity = "critical"

(* Whatever Balanced would reject of what is being decided, Strict rejects *)
(* too.                                                                    *)
StrictRejectsMore ==
    \A r \in Requests : req[r].pc = "decide" =>
        LET Verdict(policyMode) ==
              EvaluateFindings(policyMode, policy.exceptions, Path(r), req[r].found, req[r].score)
        IN  Verdict("balanced").reject => Verdict("strict").reject

(* A trusted request leaves no trace: no event, no charge, no refusal.     *)
TrustLeavesNoTrace ==
    \A r \in Requests : req[r].trusted =>
        /\ req[r].pc \notin Deciding \cup {"refused", "withheld"}
        /\ \A e \in events : e.request # r

(* Charges of concurrent requests add up: the reputation of a source is    *)
(* where it started plus what the findings of its events are worth, save   *)
(* for an event whose request is still to be charged.  A finding counts    *)
(* once for each event it is in.  Only where two requests found the source *)
(* without a score at once may charges be lost to the later insertion, and *)
(* then whole charges, never all of them.                                  *)
Charged(s) ==
    {e \in events : /\ e.source = s
                    /\ ~(req[e.request].pc \in {"charge", "first charge"} /\ req[e.request].side = e.side)}

FindingsOf(e) == {[severity |-> f.severity, finding |-> f, event |-> e] : f \in e.findings}

Worth(kept) == ReputationDelta(UNION {FindingsOf(e) : e \in kept})

ChargesAddUp ==
    \A s \in Sources : \E kept \in SUBSET Charged(s) :
        /\ reputation[s] = started[s] + Worth(kept)
        /\ s \notin raced => kept = Charged(s)
        /\ Charged(s) # {} => kept # {}

(* An attack in a text that is looked at, encoded no more often than that  *)
(* text is decoded, is in the event of a request that gets past its        *)
(* inspection, unless its rule was suppressed or its sender is trusted.    *)
(* Neither a text that is redacted nor one that no pass can decode counts. *)
ClassOf(kind) ==
    CASE kind = "traversal" -> "PathTraversal" [] kind = "sqli" -> "SqlInjection"
      [] kind = "xss" -> "Xss" [] kind = "cmdi" -> "CommandInjection" [] OTHER -> "Ssrf"

RulesOf(kind) ==
    CASE kind = "traversal" -> {"UZ-TRAV-001"}
      [] kind = "sqli" -> {"UZ-SQLI-001", "UZ-SQLI-002"}
      [] kind = "xss" -> {"UZ-XSS-001", "UZ-XSS-002"}
      [] kind = "cmdi" -> {"UZ-CMDI-001", "UZ-CMDI-002"}
      [] OTHER -> {"UZ-SSRF-001"}

Reach(p, text) ==
    (IF text = "sent" THEN 0 ELSE Passes(p.readable[text][1])) + Passes(p.readable[text][2])

AttacksReported ==
    \A r \in Requests :
        /\ ~req[r].trusted
        /\ req[r].pc \in {"refused", "withheld", "delivered", "forward"} \/ req[r].side = "response"
        => \A p \in req[r].input.payloads :
             (\E text \in Texts : Inspected(p, text) /\ p.layers <= Reach(p, text)) =>
                \/ \E e \in events : /\ e.request = r /\ e.side = "request"
                                     /\ \E f \in e.findings : f.class = ClassOf(p.kind)
                \/ \E row \in req[r].hushed : row[1] \in RulesOf(p.kind) /\ Path(r) \in row[2]
=============================================================================
