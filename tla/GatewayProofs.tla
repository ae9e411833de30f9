--------------------------- MODULE GatewayProofs ----------------------------
(***************************************************************************)
(* Proofs about RequestPipeline, for any requests, inputs, answers of the  *)
(* upstream, policies and rows.                                            *)
(***************************************************************************)
EXTENDS RequestPipeline, FiniteSetTheorems, FunctionTheorems, WellFoundedInduction, TLAPS

(* What is found has a severity and a confidence, and is finite.           *)
IsFinding(f) == f.severity \in Severities /\ f.confidence \in Nat

IsFound(found) ==
    /\ IsFiniteSet(DOMAIN found)
    /\ \A f \in DOMAIN found : IsFinding(f)

(* Every weight of findings, and so every risk, is a number.               *)
LEMMA WeightIsNatural ==
    ASSUME NEW findings, IsFiniteSet(findings), NEW classes
    PROVE  SeverityWeight(findings, classes) \in Nat
  <1> DEFINE Of(severity) == {f \in findings : f.class \in classes /\ f.severity = severity}
  <1>1. ASSUME NEW severity PROVE Cardinality(Of(severity)) \in Nat
    <2>1. IsFiniteSet(Of(severity))
      BY FS_Subset
    <2> QED
      BY <2>1, FS_CardinalityType
  <1>2. /\ Cardinality(Of("low")) \in Nat /\ Cardinality(Of("medium")) \in Nat
        /\ Cardinality(Of("high")) \in Nat /\ Cardinality(Of("critical")) \in Nat
    BY <1>1
  <1>3. SeverityWeight(findings, classes) =
            2 * Cardinality(Of("low")) + 4 * Cardinality(Of("medium"))
            + 7 * Cardinality(Of("high")) + 10 * Cardinality(Of("critical"))
    BY DEF SeverityWeight
  <1> HIDE DEF Of
  <1> QED
    BY <1>2, <1>3

LEMMA RiskIsNumber ==
    ASSUME NEW findings, IsFiniteSet(findings), NEW standing \in Nat
    PROVE  CalculateRisk(findings, standing) \in Nat
  <1> DEFINE W(classes) == SeverityWeight(findings, classes)
  <1>1. ASSUME NEW classes PROVE W(classes) \in Nat
    BY WeightIsNatural
  <1>2. /\ W({"SchemaViolation"}) \in Nat
        /\ W({"BehaviorAnomaly", "BruteForce", "RateLimitExceeded"}) \in Nat
        /\ W({"ObjectEnumeration", "TenantBoundaryViolation"}) \in Nat
        /\ W({"JwtAbuse", "BrokenAuthentication"}) \in Nat
    BY <1>1
  <1>3. CalculateRisk(findings, standing) =
            4 * W({"SchemaViolation"})
            + 5 * W({"BehaviorAnomaly", "BruteForce", "RateLimitExceeded"})
            + 5 * W({"ObjectEnumeration", "TenantBoundaryViolation"})
            + 4 * W({"JwtAbuse", "BrokenAuthentication"})
            + 6 * Larger(standing, 0)
    BY DEF CalculateRisk
  <1>4. Larger(standing, 0) \in Nat
    BY DEF Larger
  <1> HIDE DEF W
  <1> QED
    BY <1>2, <1>3, <1>4

(* Strict asks less of a finding than Balanced, wherever the configured    *)
(* thresholds are not below the floors that strict keeps to.               *)
LEMMA StrictNeedsLess ==
    ASSUME MinBlockConfidence >= 55, MinBlockScore >= 35,
           NEW f, IsFinding(f), IsBlockingConfidenceMet("balanced", f)
    PROVE  IsBlockingConfidenceMet("strict", f)
  <1>1. Score(f) \in Nat
    BY DEF Score, ScoreWeight, IsFinding
  <1>2. NeededConfidence("strict") <= MinBlockConfidence /\ NeededConfidence("strict") \in Int
    BY ThresholdAssumption DEF NeededConfidence, Larger
  <1>3. NeededScore("strict") <= MinBlockScore /\ NeededScore("strict") \in Int
    BY ThresholdAssumption DEF NeededScore, Larger
  <1>4. /\ f.severity \in {"high", "critical"}
        /\ f.confidence >= MinBlockConfidence
        /\ Score(f) >= 100 * MinBlockScore
    BY DEF IsBlockingConfidenceMet, NeededConfidence, NeededScore
  <1>5. f.confidence \in Nat
    BY DEF IsFinding
  <1>6. f.confidence >= NeededConfidence("strict")
    BY <1>2, <1>4, <1>5, ThresholdAssumption
  <1>7. Score(f) >= 100 * NeededScore("strict")
    BY <1>1, <1>3, <1>4, ThresholdAssumption
  <1> QED
    BY <1>4, <1>6, <1>7 DEF IsBlockingConfidenceMet

(* Whatever Balanced rejects, Strict rejects too: the same findings run in *)
(* blocking mode, each needs less, and so does the risk of the whole.      *)
THEOREM StrictRejectsWhatBalancedDoes ==
    ASSUME MinBlockConfidence >= 55, MinBlockScore >= 35,
           NEW exceptions, NEW path, NEW found, IsFound(found), NEW standing \in Nat,
           EvaluateFindings("balanced", exceptions, path, found, standing).reject
    PROVE  EvaluateFindings("strict", exceptions, path, found, standing).reject
  <1> DEFINE findings == DOMAIN found
             effective == ApplyDetectorExceptions(exceptions, path, found)
             Blocking(mode) == {f \in findings : EffectiveRuleMode(mode, effective[f]) = "block"}
             risk == CalculateRisk(findings, standing)
             Rejects(mode) ==
                \/ \E f \in Blocking(mode) : IsBlockingConfidenceMet(mode, f)
                \/ /\ mode # "monitor"
                   /\ RiskIsBlocking(mode, risk)
                   /\ \E f \in findings : f.severity = "critical"
  <1>1. ASSUME NEW mode
        PROVE  EvaluateFindings(mode, exceptions, path, found, standing).reject = Rejects(mode)
    BY DEF EvaluateFindings
  <1>2. Rejects("balanced")
    BY <1>1
  <1>3. Blocking("balanced") \subseteq Blocking("strict")
    BY DEF EffectiveRuleMode
  <1>4. risk \in Nat
    BY RiskIsNumber DEF IsFound
  <1>5. RiskIsBlocking("balanced", risk) => RiskIsBlocking("strict", risk)
    BY <1>4 DEF RiskIsBlocking
  <1>6. ASSUME NEW f \in Blocking("balanced"), IsBlockingConfidenceMet("balanced", f)
        PROVE  IsBlockingConfidenceMet("strict", f)
    BY <1>6, StrictNeedsLess DEF IsFound
  <1>7. Rejects("strict")
    BY <1>2, <1>3, <1>5, <1>6
  <1> QED
    BY <1>1, <1>7
-----------------------------------------------------------------------------
(* Everything inspection finds has a severity and a confidence.            *)
LEMMA PayloadFindings ==
    ASSUME NEW payloads, NEW texts, NEW loc
    PROVE  \A f \in InspectPayloadCandidates(payloads, texts, loc) : IsFinding(f)
  BY DEF InspectPayloadCandidates, When, Finding, IsFinding, Severities

LEMMA SpecFindings ==
    ASSUME NEW q
    PROVE  \A f \in ValidateAgainstSpec(q) : IsFinding(f)
  <1>1. ASSUME NEW rule, NEW severity \in Severities, NEW loc
        PROVE  \A f \in SchemaBlock(rule, severity, loc) : IsFinding(f)
    BY DEF SchemaBlock, Finding, IsFinding
  <1>2. ASSUME NEW route, NEW body PROVE \A f \in FieldFaults(route, body) : IsFinding(f)
    BY <1>1 DEF FieldFaults, Severities
  <1>3. \A f \in UnknownRouteResult : IsFinding(f)
    BY DEF UnknownRouteResult, Finding, IsFinding, Severities
  <1> QED
    BY <1>1, <1>2, <1>3 DEF ValidateAgainstSpec, Severities

LEMMA TokenFindings ==
    ASSUME NEW q, NEW scopes
    PROVE  \A f \in JwtSecurityDetector(q, scopes) : IsFinding(f)
  BY DEF JwtSecurityDetector, When, Finding, IsFinding, Severities

LEMMA RequestFindings ==
    ASSUME NEW i \in Inputs
    PROVE  \A f \in InspectRequest(i) : IsFinding(f)
  <1>1. \A f \in AuthDetector(i) \cup MethodDetector(i) : IsFinding(f)
    BY DEF AuthDetector, MethodDetector, When, Finding, IsFinding, Severities
  <1>2. \A f \in HeaderDetector(i) : IsFinding(f)
    <2>1. /\ IsFinding(Finding("smuggling.cl_te", "RequestSmuggling", "high", 72,
                               "header.transfer-encoding"))
          /\ IsFinding(Finding("UZ-PROTO-002", "RequestSmuggling", "medium", 70,
                               "request.headers.host"))
          /\ IsFinding(Finding("UZ-PROTO-003", "RequestSmuggling", "low", 62, "request.method"))
      BY DEF Finding, IsFinding, Severities
    <2> QED
      BY <2>1 DEF HeaderDetector, When
  <1>3. \A f \in ObjectAbuseDetector(i) : IsFinding(f)
    BY DEF ObjectAbuseDetector, When, Finding, IsFinding, Severities
  <1>4. \A f \in ResourceAbuseDetector(i) : IsFinding(f)
    BY DEF ResourceAbuseDetector, When, Finding, IsFinding, Severities
  <1>5. \A f \in PathDetector(i) \cup BodyDetector(i) : IsFinding(f)
    BY PayloadFindings DEF PathDetector, BodyDetector
  <1>6. \A f \in i.observed : IsFinding(f)
    BY PipelineAssumption DEF IsFinding
  <1> QED
    BY <1>1, <1>2, <1>3, <1>4, <1>5, <1>6, SpecFindings, TokenFindings DEF InspectRequest

LEMMA ResponseFindings ==
    ASSUME NEW p
    PROVE  /\ \A f \in InspectResponse(p) \cup InspectResponseHeaders(p) : IsFinding(f)
           /\ \A c : \A f \in ContractFindings(p, c) : IsFinding(f)
           /\ IsFinding(ShadowFinding)
  <1>1. \A f \in InspectResponse(p) : IsFinding(f)
    BY DEF InspectResponse, When, Finding, IsFinding, Severities
  <1>2. \A f \in InspectResponseHeaders(p) : IsFinding(f)
    <2>1. \A h : IsFinding(Finding(<<"missing", h>>, "MissingSecurityHeaders", "low", 95,
                                   "response.headers"))
      BY DEF Finding, IsFinding, Severities
    <2>2. /\ IsFinding(Finding("UZ-RESP-CONFIG-001", "SecurityMisconfiguration", "medium", 90,
                               "response.headers"))
          /\ IsFinding(Finding("UZ-RESP-CONFIG-002", "SecurityMisconfiguration", "low", 82,
                               "response.headers.cache-control"))
      BY DEF Finding, IsFinding, Severities
    <2> QED
      BY <2>1, <2>2 DEF InspectResponseHeaders, When
  <1>3. \A c : \A f \in ContractFindings(p, c) : IsFinding(f)
    BY DEF ContractFindings, When, Finding, IsFinding, Severities
  <1>4. IsFinding(ShadowFinding)
    BY DEF ShadowFinding, Finding, IsFinding, Severities
  <1> QED
    BY <1>1, <1>2, <1>3, <1>4
-----------------------------------------------------------------------------
(* A request is a record of the fields of Blank.                           *)
Fields == {"pc", "input", "side", "todo", "found", "trusted", "response", "contract", "score",
           "mode", "decision", "seen", "hushed"}

Shaped(q) == q = [field \in Fields |-> q[field]]

(* The steps that only one side takes.                                     *)
Sided(q) ==
    /\ q.side \in {"request", "response"}
    /\ q.pc \in {"none", "check", "shadow", "forward"} \cup Asking => q.side = "request"
    /\ q.pc \in {"contract", "deliver"} => q.side = "response"

(* Steps that end in an answer other than a delivery.                      *)
Quiet(q) == q.trusted => q.pc \notin Deciding \cup {"refused", "withheld"}

Good(q) ==
    /\ Shaped(q) /\ q.input \in Inputs
    /\ IsFound(q.found) /\ \A f \in q.todo : IsFinding(f)
    /\ q.score \in Nat /\ q.trusted \in BOOLEAN
    /\ Sided(q) /\ Quiet(q)

(* Steps before the event that the inspection of a request may record.     *)
Early(q) == q.pc \in {"none", "check"} \cup Asking \/ (q.pc = "resolve" /\ q.side = "request")

GoodInv ==
    /\ req = [r \in Requests |-> req[r]]
    /\ \A r \in Requests : Good(req[r])
    /\ reputation \in [Sources -> Nat]
    /\ banned \subseteq Sources
    /\ \A r \in Requests : Early(req[r]) \/ req[r].trusted => \A e \in events : e.request # r

(* The step of request r is the only change of what requests are.          *)
Becomes(r, q) == req' = [s \in Requests |-> IF s = r THEN q ELSE req[s]]

LEMMA BlankIsGood == Good(Blank)
  <1>1. Inputs # {}
    BY PipelineAssumption
  <1>2. IsFound(NoFindings)
    BY FS_EmptySet DEF IsFound, NoFindings
  <1> QED
    BY <1>1, <1>2 DEF Good, Shaped, Fields, Blank, Sided, Quiet, Asking, Deciding

LEMMA Answering ==
    ASSUME GoodInv, NEW r \in Requests, NEW outcome \in Answered, Answer(r, outcome),
           req[r].trusted => outcome \notin {"refused", "withheld"}
    PROVE  \E q : /\ Good(q) /\ Becomes(r, q) /\ q.pc = outcome /\ ~Early(q)
                  /\ q.trusted = req[r].trusted /\ q.input = req[r].input
  <1> DEFINE q == [Blank EXCEPT !.pc = outcome, !.input = req[r].input,
                               !.trusted = req[r].trusted, !.hushed = req[r].hushed]
  <1>1. /\ q.pc = outcome /\ q.trusted = req[r].trusted /\ q.input = req[r].input
        /\ q.side = "request" /\ q.found = Blank.found /\ q.todo = Blank.todo /\ q.score = Blank.score
    BY DEF Blank
  <1>2. Shaped(q)
    BY BlankIsGood DEF Good, Shaped
  <1>3. Good(q) /\ ~Early(q)
    BY <1>1, <1>2, BlankIsGood DEF Good, GoodInv, Sided, Quiet, Early, Answered, Asking, Deciding
  <1>4. Becomes(r, q)
    BY DEF Becomes, Answer, GoodInv
  <1> QED
    BY <1>1, <1>3, <1>4
-----------------------------------------------------------------------------
(* Between admission and answer.                                           *)
Inside == Asking \cup Deciding \cup {"resolve", "shadow", "filter", "forward", "contract", "deliver"}

(* The step of r leaves everything in order, and nothing early or trusted  *)
(* comes of what is neither.                                               *)
Effect(r, q) ==
    /\ Good(q) /\ Becomes(r, q)
    /\ Early(q) \/ q.trusted => Early(req[r]) \/ req[r].trusted

(* A step that nobody outside sees, except that r may become trusted.      *)
Inner(r, q) ==
    /\ Effect(r, q)
    /\ req[r].pc \in Inside /\ q.pc \in Inside
    /\ q.side = req[r].side /\ q.input = req[r].input
    /\ q.trusted # req[r].trusted => q.trusted /\ q.side = "request"

LEMMA AddingFinding ==
    ASSUME GoodInv, NEW r \in Requests, NEW f, IsFinding(f)
    PROVE  IsFound(WithFinding(r, f))
  <1>1. IsFound(req[r].found)
    BY DEF GoodInv, Good
  <1>2. DOMAIN WithFinding(r, f) = DOMAIN req[r].found \cup {f}
    BY DEF WithFinding
  <1>3. IsFiniteSet(DOMAIN req[r].found \cup {f})
    BY <1>1, FS_AddElement DEF IsFound
  <1> QED
    BY <1>1, <1>2, <1>3 DEF IsFound

LEMMA ResolvingFinding ==
    ASSUME GoodInv, NEW r \in Requests, ResolveFinding(r)
    PROVE  \E q : Inner(r, q)
  <1>1. PICK f \in req[r].todo :
            req' = [req EXCEPT ![r].found = WithFinding(r, f), ![r].todo = @ \ {f},
                               ![r].pc = Inspecting(req[r].side, req[r].todo \ {f})]
    BY DEF ResolveFinding
  <1> DEFINE q == [req[r] EXCEPT !.found = WithFinding(r, f), !.todo = @ \ {f},
                                 !.pc = Inspecting(req[r].side, req[r].todo \ {f})]
  <1>2. Good(req[r]) /\ req[r].pc = "resolve"
    BY DEF GoodInv, ResolveFinding
  <1>3. Shaped(q)
    BY <1>2 DEF Good, Shaped
  <1>4. /\ q.found = WithFinding(r, f) /\ q.todo = req[r].todo \ {f}
        /\ q.pc = Inspecting(req[r].side, req[r].todo \ {f})
        /\ q.input = req[r].input /\ q.side = req[r].side /\ q.score = req[r].score
        /\ q.trusted = req[r].trusted
    BY <1>2 DEF Good, Shaped, Fields
  <1>5. Becomes(r, q)
    BY <1>1 DEF Becomes, GoodInv
  <1>6. IsFound(q.found)
    BY <1>1, <1>2, <1>4, AddingFinding DEF Good
  <1> HIDE DEF q
  <1>7. q.pc \in {"resolve", "source", "contract"}
    BY <1>4 DEF Inspecting
  <1>8. /\ q.pc = "source" => q.side = "request"
        /\ q.pc = "contract" => q.side = "response"
    BY <1>2, <1>4 DEF Inspecting, Good, Sided
  <1>9. Good(q)
    BY <1>2, <1>3, <1>4, <1>6, <1>7, <1>8 DEF Good, Sided, Quiet, Asking, Deciding
  <1> QED
    BY <1>2, <1>4, <1>5, <1>7, <1>8, <1>9 DEF Inner, Effect, Early, Inside, Asking

LEMMA Asked ==
    ASSUME GoodInv, NEW r \in Requests, NEW step \in Asking, NEW matches \in BOOLEAN,
           NEW found \in Asking \cup {"shadow", "filter"},
           NEW otherwise \in Asking \cup {"shadow", "filter"},
           Ask(r, step, matches, found, otherwise)
    PROVE  \E q : Inner(r, q)
  <1>1. Good(req[r]) /\ req[r].pc \in Asking /\ req[r].side = "request"
    BY DEF GoodInv, Ask, Good, Sided
  <1>2. PICK pc \in Asking \cup {"shadow", "filter"}, trusted \in BOOLEAN :
            /\ req' = [req EXCEPT ![r].pc = pc, ![r].trusted = trusted]
            /\ req[r].trusted => trusted
    <2>1. CASE req' = [req EXCEPT ![r].pc = IF matches THEN found ELSE otherwise,
                                  ![r].trusted = @ \/ matches]
      <3> WITNESS (IF matches THEN found ELSE otherwise) \in Asking \cup {"shadow", "filter"}
      <3> WITNESS (req[r].trusted \/ matches) \in BOOLEAN
      <3> QED
        BY <2>1 DEF GoodInv
    <2>2. CASE req' = [req EXCEPT ![r].pc = otherwise]
      <3>1. req[r].trusted \in BOOLEAN
        BY <1>1 DEF Good
      <3>2. req' = [req EXCEPT ![r].pc = otherwise, ![r].trusted = req[r].trusted]
        BY <1>1, <2>2 DEF GoodInv, Good, Shaped
      <3> QED
        BY <3>1, <3>2
    <2> QED
      BY <2>1, <2>2 DEF Ask
  <1> DEFINE q == [req[r] EXCEPT !.pc = pc, !.trusted = trusted]
  <1>3. Shaped(q)
    BY <1>1 DEF Good, Shaped
  <1>4. /\ q.pc = pc /\ q.trusted = trusted
        /\ q.found = req[r].found /\ q.todo = req[r].todo
        /\ q.input = req[r].input /\ q.side = req[r].side /\ q.score = req[r].score
    BY <1>1 DEF Good, Shaped, Fields
  <1>5. Becomes(r, q)
    BY <1>2 DEF Becomes, GoodInv
  <1> HIDE DEF q
  <1>6. Good(q)
    BY <1>1, <1>2, <1>3, <1>4 DEF Good, Sided, Quiet, Asking, Deciding
  <1> QED
    BY <1>1, <1>2, <1>4, <1>5, <1>6 DEF Inner, Effect, Early, Inside, Asking, Good

LEMMA AskingAllowlists ==
    ASSUME GoodInv, NEW r \in Requests, AskAllowlists(r)
    PROVE  \E q : Inner(r, q)
  <1>1. Unlisted(r) \in Asking \cup {"shadow", "filter"}
    BY DEF Unlisted
  <1>2. /\ IsSourceAllowlisted(Source(r)) \in BOOLEAN
        /\ IsSourceAllowlistedForPath(Source(r), Path(r)) \in BOOLEAN
        /\ \A p : /\ IsPrincipalAllowlisted(p) \in BOOLEAN
                  /\ IsPrincipalAllowlistedForPath(p, Path(r)) \in BOOLEAN
                  /\ IsTriScopedAllowlisted(Source(r), p, Path(r)) \in BOOLEAN
    BY DEF IsSourceAllowlisted, IsSourceAllowlistedForPath, IsPrincipalAllowlisted,
           IsPrincipalAllowlistedForPath, IsTriScopedAllowlisted
  <1>3. {"source", "scoped source", "principal", "scoped principal", "tri scoped"} = Asking
    BY DEF Asking
  <1> QED
    BY <1>1, <1>2, <1>3, Asked DEF AskAllowlists

LEMMA FindingShadow ==
    ASSUME GoodInv, NEW r \in Requests, ShadowRoute(r)
    PROVE  \E q : Inner(r, q)
  <1> DEFINE q == [req[r] EXCEPT !.pc = "filter", !.found = WithFinding(r, ShadowFinding)]
  <1>1. Good(req[r]) /\ req[r].pc = "shadow"
    BY DEF GoodInv, ShadowRoute
  <1>2. Shaped(q)
    BY <1>1 DEF Good, Shaped
  <1>3. /\ q.found = WithFinding(r, ShadowFinding) /\ q.todo = req[r].todo
        /\ q.pc = "filter" /\ q.input = req[r].input /\ q.side = req[r].side
        /\ q.score = req[r].score /\ q.trusted = req[r].trusted
    BY <1>1 DEF Good, Shaped, Fields
  <1>4. Becomes(r, q)
    BY DEF Becomes, GoodInv, ShadowRoute
  <1>5. IsFound(q.found)
    BY <1>3, AddingFinding, ResponseFindings
  <1> HIDE DEF q
  <1>6. Good(q)
    BY <1>1, <1>2, <1>3, <1>5 DEF Good, Sided, Quiet, Asking, Deciding
  <1> QED
    BY <1>1, <1>3, <1>4, <1>6 DEF Inner, Effect, Early, Inside, Asking, Good

LEMMA Keeping ==
    ASSUME GoodInv, NEW r \in Requests, req[r].pc = "filter",
           NEW kept, kept \subseteq DOMAIN req[r].found,
           req[r].trusted => kept = {}, Keep(r, kept)
    PROVE  \E q : Inner(r, q)
  <1> DEFINE pc == IF kept # {} THEN "score"
                   ELSE IF req[r].side = "request" THEN "forward" ELSE "deliver"
             q  == [req[r] EXCEPT !.found = [f \in kept |-> req[r].found[f]], !.pc = pc]
  <1>1. Good(req[r])
    BY DEF GoodInv
  <1>2. Shaped(q)
    BY <1>1 DEF Good, Shaped
  <1>3. /\ DOMAIN q.found = kept /\ q.todo = req[r].todo /\ q.pc = pc
        /\ q.input = req[r].input /\ q.side = req[r].side
        /\ q.score = req[r].score /\ q.trusted = req[r].trusted
    BY <1>1 DEF Good, Shaped, Fields
  <1>4. Becomes(r, q)
    BY DEF Becomes, GoodInv, Keep
  <1>5. IsFound(q.found)
    <2>1. IsFiniteSet(kept)
      BY <1>1, FS_Subset DEF Good, IsFound
    <2> QED
      BY <1>1, <1>3, <2>1 DEF Good, IsFound
  <1> HIDE DEF q
  <1>6. Good(q)
    BY <1>1, <1>2, <1>3, <1>5 DEF Good, Sided, Quiet, Asking, Deciding
  <1> QED
    BY <1>1, <1>3, <1>4, <1>6 DEF Inner, Effect, Early, Inside, Asking, Deciding, Good

LEMMA Filtering ==
    ASSUME GoodInv, NEW r \in Requests, FilterFindings(r)
    PROVE  \E q : Inner(r, q)
  <1> DEFINE all    == DOMAIN req[r].found
             hushed == {f \in all : Suppressed(f.rule, Path(r))}
  <1>1. CASE Keep(r, IF req[r].trusted THEN {} ELSE all \ hushed)
    BY <1>1, Keeping DEF FilterFindings
  <1>2. CASE ~req[r].trusted /\ Keep(r, all)
    BY <1>2, Keeping DEF FilterFindings
  <1> QED
    BY <1>1, <1>2 DEF FilterFindings

(* evaluate_findings: three reads, then the decision; the event follows.   *)
LEMMA Evaluating ==
    ASSUME GoodInv, NEW r \in Requests,
           ReadScore(r) \/ ReadPolicyMode(r) \/ Decide(r) \/ RecordEvent(r)
    PROVE  \E q : Inner(r, q)
  <1>1. /\ Good(req[r]) /\ req[r].pc \in {"score", "mode", "decide", "record"}
        /\ ~req[r].trusted
    BY DEF GoodInv, Good, Quiet, Deciding, ReadScore, ReadPolicyMode, Decide, RecordEvent
  <1>2. reputation[Source(r)] \in Nat
    BY <1>1, PipelineAssumption DEF GoodInv, Good, Source
  <1>3. PICK pc, score, mode, decision :
            /\ pc \in Deciding /\ score \in Nat
            /\ req' = [req EXCEPT ![r].pc = pc, ![r].score = score, ![r].mode = mode,
                                  ![r].decision = decision]
    <2>1. CASE ReadScore(r)
      <3>1. req' = [req EXCEPT ![r].pc = "mode", ![r].score = reputation[Source(r)],
                               ![r].mode = req[r].mode, ![r].decision = req[r].decision]
        BY <1>1, <2>1 DEF ReadScore, GoodInv, Good, Shaped
      <3> QED
        BY <1>2, <3>1 DEF Deciding
    <2>2. CASE ReadPolicyMode(r)
      <3>1. req' = [req EXCEPT ![r].pc = "decide", ![r].score = req[r].score,
                               ![r].mode = policy.mode, ![r].decision = req[r].decision]
        BY <1>1, <2>2 DEF ReadPolicyMode, GoodInv, Good, Shaped
      <3> QED
        BY <1>1, <3>1 DEF Deciding, Good
    <2>3. CASE Decide(r)
      <3>1. req' = [req EXCEPT ![r].pc = "record", ![r].score = 0, ![r].mode = "monitor",
                        ![r].decision = EvaluateFindings(req[r].mode, policy.exceptions, Path(r),
                                                         req[r].found, req[r].score)]
        BY <1>1, <2>3 DEF Decide, GoodInv, Good, Shaped
      <3> QED
        BY <3>1 DEF Deciding
    <2>4. CASE RecordEvent(r)
      <3>1. req' = [req EXCEPT ![r].pc = "charge", ![r].score = req[r].score,
                               ![r].mode = req[r].mode, ![r].decision = req[r].decision]
        BY <1>1, <2>4 DEF RecordEvent, GoodInv, Good, Shaped
      <3> QED
        BY <1>1, <3>1 DEF Deciding, Good
    <2> QED
      BY <2>1, <2>2, <2>3, <2>4
  <1> DEFINE q == [req[r] EXCEPT !.pc = pc, !.score = score, !.mode = mode, !.decision = decision]
  <1>4. Shaped(q)
    BY <1>1 DEF Good, Shaped
  <1>5. /\ q.found = req[r].found /\ q.todo = req[r].todo /\ q.pc = pc
        /\ q.input = req[r].input /\ q.side = req[r].side
        /\ q.score = score /\ q.trusted = req[r].trusted
    BY <1>1 DEF Good, Shaped, Fields
  <1>6. Becomes(r, q)
    BY <1>3 DEF Becomes, GoodInv
  <1> HIDE DEF q
  <1>7. Good(q)
    BY <1>1, <1>3, <1>4, <1>5 DEF Good, Sided, Quiet, Asking, Deciding
  <1> QED
    BY <1>1, <1>3, <1>5, <1>6, <1>7 DEF Inner, Effect, Early, Inside, Asking, Deciding, Good

LEMMA DeltaIsNatural ==
    ASSUME NEW fs, IsFiniteSet(fs) PROVE ReputationDelta(fs) \in Nat
  <1> DEFINE Of(severity) == {f \in fs : f.severity = severity}
  <1>1. ASSUME NEW severity PROVE Cardinality(Of(severity)) \in Nat
    BY FS_Subset, FS_CardinalityType
  <1>2. ReputationDelta(fs) = Cardinality(Of("low")) + 2 * Cardinality(Of("medium"))
                              + 4 * Cardinality(Of("high")) + 6 * Cardinality(Of("critical"))
    BY DEF ReputationDelta
  <1> HIDE DEF Of
  <1> QED
    BY <1>1, <1>2

(* The two steps of a charge, and what both do to their request.           *)
ChargeStep(r) == ChargeReputation(r) \/ InsertFirstScore(r)

AfterCharge(q) ==
    IF q.decision.reject THEN "mitigate" ELSE IF q.side = "request" THEN "forward" ELSE "deliver"

LEMMA ChargeSteps ==
    ASSUME NEW r \in Requests, ChargeStep(r)
    PROVE  /\ req[r].pc \in {"charge", "first charge"}
           /\ \E pc \in {"first charge", AfterCharge(req[r])} : req' = [req EXCEPT ![r].pc = pc]
           /\ \/ reputation' = reputation
              \/ \E score \in {ReputationDelta(DOMAIN req[r].found),
                              reputation[Source(r)] + ReputationDelta(DOMAIN req[r].found)} :
                    reputation' = [reputation EXCEPT ![Source(r)] = score]
           /\ raced' \subseteq raced \cup {Source(r)}
           /\ UNCHANGED <<rules, policy, banned, events, changes, faults, started>>
  BY DEF ChargeStep, ChargeReputation, InsertFirstScore, FindNoScore, AddToScore, Charge, AfterCharge,
         Succeeds

LEMMA ScoresStayTyped ==
    ASSUME GoodInv, NEW r \in Requests, ChargeStep(r), Source(r) \in Sources,
           ReputationDelta(DOMAIN req[r].found) \in Nat
    PROVE  reputation' \in [Sources -> Nat]
  <1>1. reputation \in [Sources -> Nat] /\ reputation[Source(r)] \in Nat
    BY DEF GoodInv
  <1>2. ASSUME NEW score \in Nat, reputation' = [reputation EXCEPT ![Source(r)] = score]
        PROVE  reputation' \in [Sources -> Nat]
    BY <1>1, <1>2
  <1>3. PICK before \in Nat, delta \in Nat :
          before = reputation[Source(r)] /\ delta = ReputationDelta(DOMAIN req[r].found)
    BY <1>1
  <1>4. before + delta \in Nat
    OBVIOUS
  <1>5. \/ reputation' = reputation
        \/ \E score \in {delta, before + delta} : reputation' = [reputation EXCEPT ![Source(r)] = score]
    BY <1>3, ChargeSteps
  <1> QED
    BY <1>1, <1>2, <1>4, <1>5

LEMMA ChargingInside ==
    ASSUME GoodInv, NEW r \in Requests, ChargeStep(r)
    PROVE  /\ \E q : Inner(r, q)
           /\ reputation' \in [Sources -> Nat]
  <1>1. Good(req[r]) /\ req[r].pc \in {"charge", "first charge"} /\ ~req[r].trusted
    BY ChargeSteps DEF GoodInv, Good, Quiet, Deciding
  <1>0. PICK pc \in {"first charge", AfterCharge(req[r])} : req' = [req EXCEPT ![r].pc = pc]
    BY ChargeSteps
  <1> DEFINE q  == [req[r] EXCEPT !.pc = pc]
  <1>2. Shaped(q)
    BY <1>1 DEF Good, Shaped
  <1>3. /\ q.found = req[r].found /\ q.todo = req[r].todo /\ q.pc = pc
        /\ q.input = req[r].input /\ q.side = req[r].side
        /\ q.score = req[r].score /\ q.trusted = req[r].trusted
    BY <1>1 DEF Good, Shaped, Fields
  <1>4. Becomes(r, q)
    BY <1>0 DEF Becomes, GoodInv
  <1> HIDE DEF q
  <1>5. Good(q)
    BY <1>0, <1>1, <1>2, <1>3 DEF Good, Sided, Quiet, Asking, Deciding, AfterCharge
  <1>6. Inner(r, q)
    BY <1>0, <1>1, <1>3, <1>4, <1>5 DEF Inner, Effect, Early, Inside, Asking, Deciding, Good, AfterCharge
  <1>7. ReputationDelta(DOMAIN req[r].found) \in Nat
    BY <1>1, DeltaIsNatural DEF Good, IsFound
  <1>8. Source(r) \in Sources
    BY <1>1, PipelineAssumption DEF Good, Source
  <1>9. reputation' \in [Sources -> Nat]
    BY <1>7, <1>8, ScoresStayTyped
  <1> QED
    BY <1>6, <1>9

LEMMA CheckingContract ==
    ASSUME GoodInv, NEW r \in Requests, CheckContract(r)
    PROVE  \E q : Inner(r, q)
  <1>1. Good(req[r]) /\ req[r].pc = "contract"
    BY DEF GoodInv, CheckContract
  <1>2. PICK c, found :
            /\ IsFound(found)
            /\ req' = [req EXCEPT ![r].pc = "filter", ![r].contract = c, ![r].found = found]
    <2> DEFINE Faults(c) == ContractFindings(req[r].response, c)
    <2>1. PICK c : req' = [req EXCEPT ![r].pc = "filter", ![r].contract = c,
                                 ![r].found = IF Faults(c) = {} THEN req[r].found
                                              ELSE WithFinding(r, CHOOSE f \in Faults(c) : TRUE)]
      BY <1>1 DEF CheckContract, GoodInv, Good, Shaped, Fields
    <2>2. ASSUME Faults(c) # {} PROVE IsFinding(CHOOSE f \in Faults(c) : TRUE)
      BY <2>2, ResponseFindings
    <2>3. CASE Faults(c) = {}
      BY <1>1, <2>1, <2>3 DEF Good
    <2>4. CASE Faults(c) # {}
      <3>1. IsFound(WithFinding(r, CHOOSE f \in Faults(c) : TRUE))
        BY <2>2, <2>4, AddingFinding
      <3> QED
        BY <2>1, <2>4, <3>1
    <2> QED
      BY <2>3, <2>4
  <1> DEFINE q == [req[r] EXCEPT !.pc = "filter", !.contract = c, !.found = found]
  <1>3. Shaped(q)
    BY <1>1 DEF Good, Shaped
  <1>4. /\ q.found = found /\ q.todo = req[r].todo /\ q.pc = "filter"
        /\ q.input = req[r].input /\ q.side = req[r].side
        /\ q.score = req[r].score /\ q.trusted = req[r].trusted
    BY <1>1 DEF Good, Shaped, Fields
  <1>5. Becomes(r, q)
    BY <1>2 DEF Becomes, GoodInv
  <1> HIDE DEF q
  <1>6. Good(q)
    BY <1>1, <1>2, <1>3, <1>4 DEF Good, Sided, Quiet, Asking, Deciding
  <1> QED
    BY <1>1, <1>4, <1>5, <1>6 DEF Inner, Effect, Early, Inside, Asking, Deciding, Good
-----------------------------------------------------------------------------
(* The steps that are seen from outside.                                   *)
LEMMA Arriving ==
    ASSUME GoodInv, NEW r \in Requests, RequestContextMiddleware(r)
    PROVE  \E q : /\ Effect(r, q) /\ q.trusted = req[r].trusted /\ req[r].pc = "none"
                  /\ \/ q.pc = "check"
                     \/ q.pc = "failed" /\ q.input = req[r].input
  <1>1. Good(req[r]) /\ req[r].pc = "none"
    BY DEF GoodInv, RequestContextMiddleware
  <1>2. CASE Answer(r, "failed")
    <2>1. "failed" \in Answered
      BY DEF Answered
    <2>2. PICK q : /\ Good(q) /\ Becomes(r, q) /\ q.pc = "failed" /\ ~Early(q)
                   /\ q.trusted = req[r].trusted /\ q.input = req[r].input
      BY <1>2, <2>1, Answering
    <2> QED
      BY <1>1, <2>2 DEF Effect
  <1>3. ASSUME NEW i \in Inputs,
               req' = [req EXCEPT ![r].pc = "check", ![r].input = i,
                                  ![r].seen = {policy}, ![r].hushed = suppressions]
        PROVE  \E q : Effect(r, q) /\ q.pc = "check" /\ q.trusted = req[r].trusted
    <2> DEFINE q == [req[r] EXCEPT !.pc = "check", !.input = i, !.seen = {policy},
                                   !.hushed = suppressions]
    <2>1. Shaped(q)
      BY <1>1 DEF Good, Shaped
    <2>2. /\ q.found = req[r].found /\ q.todo = req[r].todo /\ q.pc = "check"
          /\ q.input = i /\ q.side = req[r].side
          /\ q.score = req[r].score /\ q.trusted = req[r].trusted
      BY <1>1 DEF Good, Shaped, Fields
    <2>3. Becomes(r, q)
      BY <1>3 DEF Becomes, GoodInv
    <2> HIDE DEF q
    <2>4. Good(q)
      BY <1>1, <2>1, <2>2 DEF Good, Sided, Quiet, Asking, Deciding
    <2> QED
      BY <1>1, <2>2, <2>3, <2>4 DEF Effect, Early
  <1> QED
    BY <1>1, <1>2, <1>3 DEF RequestContextMiddleware

LEMMA Securing ==
    ASSUME GoodInv, NEW r \in Requests, SecurityMiddleware(r)
    PROVE  \E q : /\ Effect(r, q) /\ q.trusted = req[r].trusted /\ q.input = req[r].input
                  /\ req[r].pc = "check"
                  /\ IF Source(r) \in banned THEN q.pc = "turned away"
                     ELSE q.pc \in Inside /\ q.side = "request"
  <1>1. Good(req[r]) /\ req[r].pc = "check" /\ req[r].side = "request"
    BY DEF GoodInv, SecurityMiddleware, Good, Sided
  <1>2. CASE Source(r) \in banned
    <2>1. "turned away" \in Answered /\ Answer(r, "turned away")
      BY <1>2 DEF Answered, SecurityMiddleware
    <2>2. PICK q : /\ Good(q) /\ Becomes(r, q) /\ q.pc = "turned away" /\ ~Early(q)
                   /\ q.trusted = req[r].trusted /\ q.input = req[r].input
      BY <2>1, Answering
    <2> QED
      BY <1>1, <1>2, <2>2 DEF Effect
  <1>3. CASE Source(r) \notin banned
    <2> DEFINE raised == InspectRequest(req[r].input)
               pc == Inspecting("request", raised)
               q  == [req[r] EXCEPT !.pc = pc, !.todo = raised]
    <2>1. Shaped(q)
      BY <1>1 DEF Good, Shaped
    <2>2. /\ q.found = req[r].found /\ q.todo = raised /\ q.pc = pc
          /\ q.input = req[r].input /\ q.side = req[r].side
          /\ q.score = req[r].score /\ q.trusted = req[r].trusted
      BY <1>1 DEF Good, Shaped, Fields
    <2>3. Becomes(r, q)
      BY <1>3 DEF Becomes, GoodInv, SecurityMiddleware
    <2>4. \A f \in q.todo : IsFinding(f)
      BY <1>1, <2>2, RequestFindings DEF Good
    <2>5. pc \in {"resolve", "source"}
      BY DEF Inspecting
    <2> HIDE DEF q, pc
    <2>6. Good(q)
      BY <1>1, <2>1, <2>2, <2>4, <2>5 DEF Good, Sided, Quiet, Asking, Deciding
    <2> QED
      BY <1>1, <1>3, <2>2, <2>3, <2>5, <2>6 DEF Effect, Early, Inside, Asking
  <1> QED
    BY <1>2, <1>3

LEMMA Finalizing ==
    ASSUME GoodInv, NEW r \in Requests, FinalizeBlockingDecision(r)
    PROVE  /\ \E q : /\ Effect(r, q) /\ q.trusted = req[r].trusted /\ q.input = req[r].input
                     /\ q.pc = IF req[r].side = "request" THEN "refused" ELSE "withheld"
           /\ req[r].pc = "mitigate" /\ ~req[r].trusted
           /\ banned' \in {banned, banned \cup {Source(r)}} /\ Source(r) \in Sources
  <1> DEFINE outcome == IF req[r].side = "request" THEN "refused" ELSE "withheld"
  <1>1. Good(req[r]) /\ req[r].pc = "mitigate" /\ ~req[r].trusted
    BY DEF GoodInv, Good, Quiet, Deciding, FinalizeBlockingDecision
  <1>2. outcome \in Answered /\ Answer(r, outcome)
    BY DEF Answered, FinalizeBlockingDecision
  <1>3. PICK q : /\ Good(q) /\ Becomes(r, q) /\ q.pc = outcome /\ ~Early(q)
                 /\ q.trusted = req[r].trusted /\ q.input = req[r].input
    BY <1>1, <1>2, Answering
  <1>4. Effect(r, q)
    BY <1>3 DEF Effect
  <1>5. Source(r) \in Sources
    BY <1>1, PipelineAssumption DEF Good, Source
  <1>6. banned' \in {banned, banned \cup {Source(r)}}
    BY DEF FinalizeBlockingDecision
  <1> QED
    BY <1>1, <1>3, <1>4, <1>5, <1>6

LEMMA Forwarding ==
    ASSUME GoodInv, NEW r \in Requests, Forward(r)
    PROVE  \E q : /\ Effect(r, q) /\ q.trusted = req[r].trusted /\ q.input = req[r].input
                  /\ req[r].pc = "forward" /\ req[r].side = "request"
                  /\ q.pc = "failed" \/ (q.pc \in Inside /\ q.side = "response")
  <1>1. Good(req[r]) /\ req[r].pc = "forward" /\ req[r].side = "request"
    BY DEF GoodInv, Forward, Good, Sided
  <1>2. CASE Answer(r, "failed")
    <2>1. "failed" \in Answered
      BY DEF Answered
    <2>2. PICK q : /\ Good(q) /\ Becomes(r, q) /\ q.pc = "failed" /\ ~Early(q)
                   /\ q.trusted = req[r].trusted /\ q.input = req[r].input
      BY <1>2, <2>1, Answering
    <2> QED
      BY <1>1, <2>2 DEF Effect
  <1>3. ASSUME NEW p \in Responses, NEW raised, raised = InspectResponseHeaders(p) \cup InspectResponse(p),
               req' = [req EXCEPT ![r].pc = Inspecting("response", raised), ![r].side = "response",
                                  ![r].response = p, ![r].todo = raised,
                                  ![r].found = NoFindings, ![r].decision = Nothing]
        PROVE  \E q : /\ Effect(r, q) /\ q.trusted = req[r].trusted /\ q.input = req[r].input
                      /\ q.pc \in Inside /\ q.side = "response"
    <2> DEFINE pc == Inspecting("response", raised)
               q  == [req[r] EXCEPT !.pc = pc, !.side = "response", !.response = p,
                                    !.todo = raised, !.found = NoFindings, !.decision = Nothing]
    <2>1. Shaped(q)
      BY <1>1 DEF Good, Shaped
    <2>2. /\ q.found = NoFindings /\ q.todo = raised /\ q.pc = pc
          /\ q.input = req[r].input /\ q.side = "response"
          /\ q.score = req[r].score /\ q.trusted = req[r].trusted
      BY <1>1 DEF Good, Shaped, Fields
    <2>3. Becomes(r, q)
      BY <1>3 DEF Becomes, GoodInv
    <2>4. \A f \in q.todo : IsFinding(f)
      BY <1>3, <2>2, ResponseFindings
    <2>5. IsFound(q.found)
      BY <2>2, FS_EmptySet DEF IsFound, NoFindings
    <2>6. pc \in {"resolve", "contract"}
      BY DEF Inspecting
    <2> HIDE DEF q, pc
    <2>7. Good(q)
      BY <1>1, <2>1, <2>2, <2>4, <2>5, <2>6 DEF Good, Sided, Quiet, Asking, Deciding
    <2> QED
      BY <1>1, <2>2, <2>3, <2>6, <2>7 DEF Effect, Early, Inside, Asking
  <1> QED
    BY <1>1, <1>2, <1>3 DEF Forward

LEMMA Delivering ==
    ASSUME GoodInv, NEW r \in Requests, Deliver(r)
    PROVE  \E q : /\ Effect(r, q) /\ q.trusted = req[r].trusted /\ q.input = req[r].input
                  /\ req[r].pc = "deliver" /\ req[r].side = "response" /\ q.pc = "delivered"
  <1>1. req[r].pc = "deliver" /\ req[r].side = "response"
    BY DEF GoodInv, Deliver, Good, Sided
  <1>2. "delivered" \in Answered /\ Answer(r, "delivered")
    BY DEF Answered, Deliver
  <1>3. PICK q : /\ Good(q) /\ Becomes(r, q) /\ q.pc = "delivered" /\ ~Early(q)
                 /\ q.trusted = req[r].trusted /\ q.input = req[r].input
    BY <1>2, Answering
  <1> QED
    BY <1>1, <1>3 DEF Effect
-----------------------------------------------------------------------------
(* Changes around the requests leave them in order.                        *)
LEMMA Watching ==
    ASSUME GoodInv, NEW r \in Requests, NEW x
    PROVE  /\ \A q \in {[req[r] EXCEPT !.seen = x], [req[r] EXCEPT !.hushed = x]} :
                 /\ Good(q) /\ q.pc = req[r].pc /\ q.side = req[r].side
                 /\ q.trusted = req[r].trusted /\ q.input = req[r].input
  <1>1. Good(req[r])
    BY DEF GoodInv
  <1>2. ASSUME NEW q, q = [req[r] EXCEPT !.seen = x] \/ q = [req[r] EXCEPT !.hushed = x]
        PROVE  /\ Shaped(q) /\ q.pc = req[r].pc /\ q.side = req[r].side /\ q.todo = req[r].todo
               /\ q.found = req[r].found /\ q.score = req[r].score
               /\ q.trusted = req[r].trusted /\ q.input = req[r].input
    BY <1>1, <1>2 DEF Good, Shaped, Fields
  <1>3. ASSUME NEW q, q = [req[r] EXCEPT !.seen = x] \/ q = [req[r] EXCEPT !.hushed = x]
        PROVE  Good(q)
    BY <1>1, <1>2, <1>3 DEF Good, Sided, Quiet
  <1> QED
    BY <1>2, <1>3

LEMMA Changing ==
    ASSUME GoodInv, ChangePolicy \/ ChangeRules \/ ApproveFromEvent \/ LiftBan
    PROVE  /\ req' = [r \in Requests |-> req'[r]]
           /\ \A r \in Requests :
                /\ Good(req'[r]) /\ req'[r].pc = req[r].pc /\ req'[r].side = req[r].side
                /\ req'[r].trusted = req[r].trusted /\ req'[r].input = req[r].input
  <1>1. CASE ChangePolicy
    <2>1. PICK p : req' = [r \in Requests |-> IF InFlight(r) THEN [req[r] EXCEPT !.seen = @ \cup {p}]
                                             ELSE req[r]]
      BY <1>1 DEF ChangePolicy
    <2> QED
      BY <2>1, Watching DEF GoodInv
  <1>2. CASE ChangeRules
    BY <1>2, Watching DEF ChangeRules, GoodInv
  <1>3. CASE ApproveFromEvent \/ LiftBan
    BY <1>3 DEF ApproveFromEvent, LiftBan, GoodInv
  <1> QED
    BY <1>1, <1>2, <1>3
-----------------------------------------------------------------------------
(* A step of a request, as all of the above say of it.                     *)
LEMMA Proceeding ==
    ASSUME GoodInv, NEW r \in Requests, Proceed(r)
    PROVE  /\ \E q : Effect(r, q)
           /\ reputation' \in [Sources -> Nat] /\ banned' \subseteq Sources
           /\ \A e \in events' \ events : e.request = r
           /\ events' # events => ~req[r].trusted /\ \A q : Effect(r, q) => ~Early(q) /\ ~q.trusted
  <1>0. reputation \in [Sources -> Nat] /\ banned \subseteq Sources /\ Good(req[r])
    BY DEF GoodInv
  <1>1. CASE RecordEvent(r)
    <2>1. req[r].pc = "record" /\ ~req[r].trusted
      BY <1>0, <1>1 DEF RecordEvent, Good, Quiet, Deciding
    <2>2. ~Early(req[r])
      BY <2>1 DEF Early, Asking
    <2>3. \A e \in events' \ events : e.request = r
      BY <1>1 DEF RecordEvent, Event
    <2>4. UNCHANGED <<reputation, banned>>
      BY <1>1 DEF RecordEvent
    <2> QED
      BY <1>0, <1>1, <2>1, <2>2, <2>3, <2>4, Evaluating DEF Inner, Effect
  <1>2. CASE ChargeStep(r)
    <2>1. UNCHANGED <<events, banned>>
      BY <1>2, ChargeSteps
    <2> QED
      BY <1>0, <1>2, <2>1, ChargingInside DEF Inner
  <1>3. CASE FinalizeBlockingDecision(r)
    <2>1. UNCHANGED <<events, reputation>>
      BY <1>3 DEF FinalizeBlockingDecision
    <2> QED
      BY <1>0, <1>3, <2>1, Finalizing
  <1>4. ASSUME UNCHANGED world, \E q : Effect(r, q)
        PROVE  /\ \E q : Effect(r, q)
               /\ reputation' \in [Sources -> Nat] /\ banned' \subseteq Sources /\ events' = events
    BY <1>0, <1>4 DEF world
  <1>5. CASE ReadScore(r) \/ ReadPolicyMode(r) \/ Decide(r)
    BY <1>4, <1>5, Evaluating DEF Inner, ReadScore, ReadPolicyMode, Decide
  <1>6. CASE ResolveFinding(r) \/ ShadowRoute(r) \/ FilterFindings(r) \/ CheckContract(r)
    BY <1>4, <1>6, ResolvingFinding, FindingShadow, Filtering, CheckingContract
       DEF Inner, ResolveFinding, ShadowRoute, FilterFindings, CheckContract
  <1>7. CASE AskAllowlists(r)
    BY <1>4, <1>7, AskingAllowlists DEF Inner, AskAllowlists, Ask
  <1>8. CASE RequestContextMiddleware(r) \/ SecurityMiddleware(r) \/ Forward(r) \/ Deliver(r)
    BY <1>4, <1>8, Arriving, Securing, Forwarding, Delivering
       DEF RequestContextMiddleware, SecurityMiddleware, Forward, Deliver
  <1> QED
    BY <1>1, <1>2, <1>3, <1>5, <1>6, <1>7, <1>8 DEF Proceed, ChargeStep

(* What keeps every request in order, from the start.                      *)
LEMMA GoodFromTheStart == Spec => []GoodInv
<1>1. Init => GoodInv
  <2> SUFFICES ASSUME Init PROVE GoodInv
    OBVIOUS
  <2>1. req = [r \in Requests |-> req[r]] /\ \A r \in Requests : Good(req[r])
    BY BlankIsGood DEF Init
  <2>2. reputation \in [Sources -> Nat] /\ banned \subseteq Sources /\ events = {}
    BY PipelineAssumption DEF Init
  <2> QED
    BY <2>1, <2>2 DEF GoodInv
<1>2. GoodInv /\ [Next]_vars => GoodInv'
  <2> SUFFICES ASSUME GoodInv, [Next]_vars PROVE GoodInv'
    OBVIOUS
  <2>1. ASSUME NEW r \in Requests, Proceed(r) PROVE GoodInv'
    <3>1. PICK q : Effect(r, q)
      BY <2>1, Proceeding
    <3>2. /\ req' = [s \in Requests |-> req'[s]] /\ \A s \in Requests : Good(req'[s])
          /\ req'[r] = q /\ \A s \in Requests \ {r} : req'[s] = req[s]
      BY <3>1 DEF Effect, Becomes, GoodInv
    <3>3. ASSUME NEW s \in Requests, Early(req'[s]) \/ req'[s].trusted
          PROVE  \A e \in events' : e.request # s
      BY <2>1, <3>1, <3>2, <3>3, Proceeding DEF Effect, GoodInv
    <3> QED
      BY <2>1, <3>2, <3>3, Proceeding DEF GoodInv, Early
  <2>2. ASSUME ChangePolicy \/ ChangeRules \/ ApproveFromEvent \/ LiftBan PROVE GoodInv'
    <3>1. UNCHANGED <<events, reputation>> /\ banned' \subseteq banned
      BY <2>2 DEF ChangePolicy, ChangeRules, ApproveFromEvent, LiftBan
    <3>2. \A s \in Requests : Early(req'[s]) \/ req'[s].trusted => Early(req[s]) \/ req[s].trusted
      BY <2>2, Changing DEF Early
    <3> QED
      BY <2>2, <3>1, <3>2, Changing DEF GoodInv, Early
  <2>3. CASE UNCHANGED vars
    BY <2>3 DEF vars, GoodInv, Good, Shaped, Sided, Quiet, Early, IsFound
  <2> QED
    BY <2>1, <2>2, <2>3 DEF Next
<1> QED
  BY <1>1, <1>2, PTL DEF Spec
-----------------------------------------------------------------------------
(* A request found on an allowlist causes no event, no charge and no       *)
(* refusal, on either side.                                                *)
THEOREM TrustLeavesNoTraceHolds == Spec => []TrustLeavesNoTrace
<1>1. GoodInv => TrustLeavesNoTrace
  BY DEF GoodInv, Good, Quiet, TrustLeavesNoTrace
<1> QED
  BY <1>1, GoodFromTheStart, PTL

(* Of what is being decided, Strict rejects all that Balanced would, where *)
(* the configured thresholds are not below the floors of Strict.           *)
THEOREM StrictRejectsMoreHolds ==
    ASSUME MinBlockConfidence >= 55, MinBlockScore >= 35
    PROVE  Spec => []StrictRejectsMore
<1>1. GoodInv => StrictRejectsMore
  BY StrictRejectsWhatBalancedDoes DEF GoodInv, Good, StrictRejectsMore
<1> QED
  BY <1>1, GoodFromTheStart, PTL
-----------------------------------------------------------------------------
(* What a request is to the promise.                                       *)
StageOf(q) ==
    CASE q.pc \in Answered \cup {"none"} -> q.pc
      [] q.pc = "check" -> "arrived"
      [] OTHER -> IF q.side = "request" THEN "admitted" ELSE "forwarded"

stages  == [r \in Requests |-> Stage(r)]
trusted == {r \in Requests : req[r].trusted}
from    == [r \in Requests |-> Source(r)]

LEMMA StageIs == \A r : Stage(r) = StageOf(req[r])
  BY DEF Stage, StageOf

LEMMA StagesInside ==
    ASSUME NEW q
    PROVE  /\ q.pc \in Inside => StageOf(q) = IF q.side = "request" THEN "admitted" ELSE "forwarded"
           /\ q.pc \in Answered \cup {"none"} => StageOf(q) = q.pc
           /\ q.pc = "check" => StageOf(q) = "arrived"
  BY DEF StageOf, Inside, Answered, Asking, Deciding

(* What the step of r changes for the promise.                             *)
LEMMA Seen ==
    ASSUME GoodInv, NEW r \in Requests, NEW q, Effect(r, q)
    PROVE  /\ stages' = [stages EXCEPT ![r] = StageOf(q)]
           /\ stages[r] = StageOf(req[r])
           /\ trusted' = IF q.trusted THEN trusted \cup {r} ELSE trusted \ {r}
           /\ r \in trusted <=> req[r].trusted
           /\ from' = [from EXCEPT ![r] = q.input.source]
           /\ from[r] = Source(r)
           /\ q.input.source \in Sources
  <1>1. req' = [s \in Requests |-> IF s = r THEN q ELSE req[s]] /\ Good(q)
    BY DEF Effect, Becomes
  <1>2. stages = [s \in Requests |-> StageOf(req[s])]
    BY StageIs DEF stages
  <1>3. stages' = [s \in Requests |-> StageOf(req'[s])]
    BY DEF stages, Stage, StageOf
  <1>4. from = [s \in Requests |-> req[s].input.source] /\ from' = [s \in Requests |-> req'[s].input.source]
    BY DEF from, Source
  <1>5. trusted = {s \in Requests : req[s].trusted} /\ trusted' = {s \in Requests : req'[s].trusted}
    BY DEF trusted
  <1>6. stages' = [stages EXCEPT ![r] = StageOf(q)] /\ stages[r] = StageOf(req[r])
    BY <1>1, <1>2, <1>3
  <1>7. from' = [from EXCEPT ![r] = q.input.source] /\ from[r] = Source(r)
    BY <1>1, <1>4 DEF Source
  <1>8. /\ trusted' = IF q.trusted THEN trusted \cup {r} ELSE trusted \ {r}
        /\ r \in trusted <=> req[r].trusted
    BY <1>1, <1>5
  <1>9. q.input.source \in Sources
    BY <1>1, PipelineAssumption DEF Good
  <1> QED
    BY <1>6, <1>7, <1>8, <1>9

(* What a step may do to what the promise sees.                            *)
Sees(r, stage, others) ==
    stages' = [stages EXCEPT ![r] = stage] /\ trusted' = others /\ UNCHANGED from

LEMMA Unchanged ==
    ASSUME GoodInv, NEW r \in Requests, NEW q, Effect(r, q),
           q.trusted = req[r].trusted, q.input = req[r].input
    PROVE  Sees(r, StageOf(q), trusted)
  <1>1. trusted' = trusted
    BY Seen
  <1>2. from' = [from EXCEPT ![r] = from[r]]
    BY Seen DEF Source
  <1>3. UNCHANGED from
    BY <1>2 DEF from
  <1> QED
    BY <1>1, <1>3, Seen DEF Sees

LEMMA InnerStep ==
    ASSUME GoodInv, NEW r \in Requests, NEW q, Inner(r, q), UNCHANGED banned
    PROVE  Promise!Trust(r) \/ UNCHANGED <<stages, trusted, from>>
  <1>1. StageOf(q) = StageOf(req[r]) /\ stages' = [stages EXCEPT ![r] = stages[r]]
    BY StagesInside, Seen DEF Inner
  <1>2. UNCHANGED stages
    BY <1>1 DEF stages
  <1>3. UNCHANGED from
    <2>1. from' = [from EXCEPT ![r] = from[r]]
      BY Seen DEF Inner, Source
    <2> QED
      BY <2>1 DEF from
  <1>4. CASE q.trusted = req[r].trusted
    BY <1>2, <1>3, <1>4, Seen DEF Inner
  <1>5. CASE q.trusted # req[r].trusted
    <2>1. stages[r] = "admitted" /\ trusted' = trusted \cup {r}
      BY <1>1, <1>5, Seen, StagesInside DEF Inner
    <2> QED
      BY <1>2, <1>3, <2>1 DEF Promise!Trust, stages, trusted, from
  <1> QED
    BY <1>4, <1>5

LEMMA PromiseStep == GoodInv /\ [Next]_vars => [Promise!Next]_<<banned, stages, trusted, from>>
  <1> SUFFICES ASSUME GoodInv, [Next]_vars
               PROVE  Promise!Next \/ UNCHANGED <<banned, stages, trusted, from>>
    OBVIOUS
  <1>1. ASSUME NEW r \in Requests, NEW q, Inner(r, q), UNCHANGED banned
        PROVE  Promise!Next \/ UNCHANGED <<banned, stages, trusted, from>>
    BY <1>1, InnerStep DEF Promise!Next
  <1>2. ASSUME NEW r \in Requests, RequestContextMiddleware(r) PROVE Promise!Next
    <2>1. PICK q : /\ Effect(r, q) /\ q.trusted = req[r].trusted /\ req[r].pc = "none"
                   /\ \/ q.pc = "check"
                      \/ q.pc = "failed" /\ q.input = req[r].input
      BY <1>2, Arriving
    <2>2. stages[r] = "none" /\ UNCHANGED <<banned, trusted>>
      <3>1. StageOf(req[r]) = "none"
        BY <2>1, StagesInside
      <3>2. UNCHANGED banned
        BY <1>2 DEF RequestContextMiddleware, world
      <3> QED
        BY <2>1, <3>1, <3>2, Seen
    <2>3. CASE q.pc = "check"
      <3>1. Promise!Arrive(r)
        BY <2>1, <2>2, <2>3, Seen, StagesInside
           DEF Promise!Arrive, Promise!Becomes, stages, trusted, from
      <3> QED
        BY <3>1 DEF Promise!Next
    <2>4. CASE q.pc = "failed" /\ q.input = req[r].input
      <3>1. Sees(r, "failed", trusted)
        BY <2>1, <2>4, Unchanged, StagesInside DEF Answered
      <3>2. Promise!Fail(r)
        BY <2>2, <3>1 DEF Sees, Promise!Fail, stages, trusted, from
      <3> QED
        BY <3>2 DEF Promise!Next
    <2> QED
      BY <2>1, <2>3, <2>4
  <1>3. ASSUME NEW r \in Requests, SecurityMiddleware(r) PROVE Promise!Next
    <2>1. PICK q : /\ Effect(r, q) /\ q.trusted = req[r].trusted /\ q.input = req[r].input
                   /\ req[r].pc = "check"
                   /\ IF Source(r) \in banned THEN q.pc = "turned away"
                      ELSE q.pc \in Inside /\ q.side = "request"
      BY <1>3, Securing
    <2>2. Sees(r, StageOf(q), trusted) /\ UNCHANGED banned /\ stages[r] = "arrived" /\ from[r] = Source(r)
      BY <1>3, <2>1, Unchanged, Seen, StagesInside DEF SecurityMiddleware, world
    <2>3. StageOf(q) = IF Source(r) \in banned THEN "turned away" ELSE "admitted"
      BY <2>1, StagesInside DEF Answered
    <2>4. Promise!TurnAway(r) \/ Promise!Admit(r)
      BY <2>2, <2>3 DEF Sees, Promise!TurnAway, Promise!Admit, Promise!Becomes, stages, trusted, from
    <2> QED
      BY <2>4 DEF Promise!Next
  <1>4. ASSUME NEW r \in Requests, FinalizeBlockingDecision(r) PROVE Promise!Next
    <2>1. /\ req[r].pc = "mitigate" /\ ~req[r].trusted
          /\ banned' \in {banned, banned \cup {Source(r)}} /\ Source(r) \in Sources
      BY <1>4, Finalizing
    <2>2. PICK q : /\ Effect(r, q) /\ q.trusted = req[r].trusted /\ q.input = req[r].input
                   /\ q.pc = IF req[r].side = "request" THEN "refused" ELSE "withheld"
      BY <1>4, Finalizing
    <2>3. Sees(r, IF req[r].side = "request" THEN "refused" ELSE "withheld", trusted)
      BY <2>2, Unchanged, StagesInside DEF Answered
    <2>4. /\ stages[r] = IF req[r].side = "request" THEN "admitted" ELSE "forwarded"
          /\ r \notin trusted /\ from[r] = Source(r)
      BY <2>1, <2>2, Seen, StagesInside DEF Inside, Deciding
    <2>5. Promise!Refuse(r) \/ Promise!Ban(r)
      BY <2>1, <2>3, <2>4
         DEF Sees, Promise!Refuse, Promise!Ban, Promise!Becomes, stages, trusted, from
    <2> QED
      BY <2>5 DEF Promise!Next
  <1>5. ASSUME NEW r \in Requests, Forward(r) PROVE Promise!Next
    <2>1. PICK q : /\ Effect(r, q) /\ q.trusted = req[r].trusted /\ q.input = req[r].input
                   /\ req[r].pc = "forward" /\ req[r].side = "request"
                   /\ q.pc = "failed" \/ (q.pc \in Inside /\ q.side = "response")
      BY <1>5, Forwarding
    <2>2. Sees(r, StageOf(q), trusted) /\ UNCHANGED banned /\ stages[r] = "admitted"
      BY <1>5, <2>1, Unchanged, Seen, StagesInside DEF Forward, world, Inside
    <2>3. StageOf(q) \in {"failed", "forwarded"}
      BY <2>1, StagesInside DEF Answered
    <2>4. Promise!Fail(r) \/ Promise!Forward(r)
      BY <2>2, <2>3 DEF Sees, Promise!Fail, Promise!Forward, Promise!Becomes, stages, trusted, from
    <2> QED
      BY <2>4 DEF Promise!Next
  <1>6. ASSUME NEW r \in Requests, Deliver(r) PROVE Promise!Next
    <2>1. PICK q : /\ Effect(r, q) /\ q.trusted = req[r].trusted /\ q.input = req[r].input
                   /\ req[r].pc = "deliver" /\ req[r].side = "response" /\ q.pc = "delivered"
      BY <1>6, Delivering
    <2>2. Sees(r, "delivered", trusted) /\ UNCHANGED banned /\ stages[r] = "forwarded"
      <3>1. StageOf(q) = "delivered" /\ StageOf(req[r]) = "forwarded"
        BY <2>1, StagesInside DEF Inside, Answered
      <3>2. UNCHANGED banned
        BY <1>6 DEF Deliver, world
      <3> QED
        BY <2>1, <3>1, <3>2, Unchanged, Seen
    <2>3. Promise!Deliver(r)
      BY <2>2 DEF Sees, Promise!Deliver, Promise!Becomes, stages, trusted, from
    <2> QED
      BY <2>3 DEF Promise!Next
  <1>7. ASSUME ChangePolicy \/ ChangeRules \/ ApproveFromEvent \/ LiftBan
        PROVE  Promise!Next \/ UNCHANGED <<banned, stages, trusted, from>>
    <2>1. UNCHANGED <<stages, trusted, from>>
      BY <1>7, Changing DEF stages, trusted, from, Stage, Source
    <2>2. CASE LiftBan
      <3>1. PICK s \in Sources : Promise!Lift(s)
        BY <2>1, <2>2 DEF LiftBan, GoodInv, Promise!Lift, stages, trusted, from
      <3> QED
        BY <3>1 DEF Promise!Next
    <2>3. CASE ~LiftBan
      BY <1>7, <2>1, <2>3 DEF ChangePolicy, ChangeRules, ApproveFromEvent
    <2> QED
      BY <2>2, <2>3
  <1>8. CASE UNCHANGED vars
    BY <1>8 DEF vars, stages, trusted, from, Stage, Source
  <1>9. ASSUME NEW r \in Requests, Proceed(r)
        PROVE  Promise!Next \/ UNCHANGED <<banned, stages, trusted, from>>
    <2>1. CASE ResolveFinding(r) \/ ShadowRoute(r) \/ FilterFindings(r) \/ CheckContract(r)
      BY <1>1, <2>1, ResolvingFinding, FindingShadow, Filtering, CheckingContract
         DEF ResolveFinding, ShadowRoute, FilterFindings, CheckContract, world
    <2>2. CASE ReadScore(r) \/ ReadPolicyMode(r) \/ Decide(r) \/ RecordEvent(r)
      BY <1>1, <2>2, Evaluating DEF ReadScore, ReadPolicyMode, Decide, RecordEvent, world
    <2>3. CASE AskAllowlists(r)
      BY <1>1, <2>3, AskingAllowlists DEF AskAllowlists, Ask, world
    <2>4. CASE ChargeStep(r)
      BY <1>1, <2>4, ChargingInside, ChargeSteps
    <2> QED
      BY <1>2, <1>3, <1>4, <1>5, <1>6, <1>9, <2>1, <2>2, <2>3, <2>4 DEF Proceed, ChargeStep
  <1> QED
    BY <1>7, <1>8, <1>9 DEF Next

(* The gateway keeps its promise: bans are checked on arrival, nothing     *)
(* refused goes upstream, only what went there is delivered or withheld,   *)
(* and nothing trusted is refused or withheld.                             *)
THEOREM RefinesPromise == Spec => RequestPromiseSpec
<1>1. Init => Promise!Init
  <2> SUFFICES ASSUME Init PROVE Promise!Init
    OBVIOUS
  <2>1. \A r \in Requests : req[r] = Blank
    BY DEF Init
  <2>2. Blank.pc = "none" /\ Blank.trusted = FALSE /\ Blank.input \in Inputs
    BY BlankIsGood DEF Blank, Good
  <2>3. \A r \in Requests : Stage(r) = "none" /\ Source(r) \in Sources
    BY <2>1, <2>2, PipelineAssumption DEF Stage, Source
  <2> QED
    BY <2>1, <2>2, <2>3 DEF Init, Promise!Init
<1> QED
  BY <1>1, PromiseStep, GoodFromTheStart, PTL
     DEF Spec, RequestPromiseSpec, Promise!Spec, Promise!vars, stages, trusted, from
-----------------------------------------------------------------------------
(* No rejection without a cause: the modes of the rules, the mode of the   *)
(* policy and the exceptions that a decision takes from different moments  *)
(* all were in force while the request was on its way.                     *)
Cause(seen, path, findings) ==
    /\ \E p \in seen : p.mode # "monitor"
    /\ \E f \in findings :
         \/ f.severity = "critical"
         \/ /\ f.severity = "high"
            /\ \E p \in seen : ResolveRuleMode(p, path, Governing(f.rule)) = "block"
            /\ \E p \in seen : ~Excepted(p.exceptions, path, f)

Critical(findings) == \E f \in findings : f.severity = "critical"

(* What a request carries was in force at some moment since it arrived.    *)
Resolved(q) ==
    \A f \in DOMAIN q.found :
        \E p \in q.seen : q.found[f] = ResolveRuleMode(p, q.input.path, Governing(f.rule))

Decided == {"record", "charge", "first charge", "mitigate"}

Grounded(q, now) ==
    /\ q.pc \notin Answered \cup {"none"} => now \in q.seen
    /\ q.pc = "none" => DOMAIN q.found = {}
    /\ Resolved(q)
    /\ q.pc = "decide" => \E p \in q.seen : q.mode = p.mode
    /\ q.pc \in Decided =>
         /\ q.decision.reject => Cause(q.seen, q.input.path, DOMAIN q.found)
         /\ "BlockSourceIpTemporary" \in q.decision.actions => Critical(DOMAIN q.found)
    /\ q.pc = "mitigate" => q.decision.reject

(* The event of a decision is there by the time it is acted upon.          *)
Reported(q, log) ==
    q.pc \in {"charge", "first charge", "mitigate"} =>
        \E e \in log : /\ e.source = q.input.source /\ e.reject = q.decision.reject
                       /\ e.findings = DOMAIN q.found

CauseInv ==
    /\ \A r \in Requests : Grounded(req[r], policy) /\ Reported(req[r], events)
    /\ \A e \in events :
         /\ e.request \in Requests
         /\ e.reject => Cause(e.seen, req[e.request].input.path, e.findings)
    /\ \A s \in banned : \E e \in events : e.source = s /\ e.reject /\ Critical(e.findings)

(* More policies make no cause go away.                                    *)
LEMMA CauseGrows ==
    ASSUME NEW seen, NEW more, seen \subseteq more, NEW path, NEW findings, Cause(seen, path, findings)
    PROVE  Cause(more, path, findings)
  BY DEF Cause

(* What a decision rests on.                                               *)
LEMMA DecisionHasCause ==
    ASSUME NEW mode, NEW exceptions, NEW path, NEW found, NEW score, NEW seen,
           \E p \in seen : mode = p.mode,
           \E p \in seen : exceptions = p.exceptions,
           \A f \in DOMAIN found : \E p \in seen : found[f] = ResolveRuleMode(p, path, Governing(f.rule))
    PROVE  LET decision == EvaluateFindings(mode, exceptions, path, found, score) IN
           /\ decision.reject => Cause(seen, path, DOMAIN found)
           /\ "BlockSourceIpTemporary" \in decision.actions => Critical(DOMAIN found)
  <1> DEFINE effective == ApplyDetectorExceptions(exceptions, path, found)
             blocking == {f \in DOMAIN found : EffectiveRuleMode(mode, effective[f]) = "block"}
             decision == EvaluateFindings(mode, exceptions, path, found, score)
  <1>1. ASSUME NEW f \in blocking
        PROVE  found[f] = "block" /\ ~Excepted(exceptions, path, f) /\ mode # "monitor"
    BY DEF EffectiveRuleMode, ApplyDetectorExceptions
  <1>2. ASSUME NEW f \in blocking, IsBlockingConfidenceMet(mode, f)
        PROVE  Cause(seen, path, DOMAIN found)
    <2>1. f \in DOMAIN found /\ f.severity \in {"high", "critical"}
      BY <1>2 DEF IsBlockingConfidenceMet
    <2>2. \E p \in seen : p.mode # "monitor"
      BY <1>1, <1>2
    <2>3. /\ \E p \in seen : ResolveRuleMode(p, path, Governing(f.rule)) = "block"
          /\ \E p \in seen : ~Excepted(p.exceptions, path, f)
      BY <1>1, <2>1
    <2> QED
      BY <2>1, <2>2, <2>3 DEF Cause
  <1>3. ASSUME mode # "monitor", NEW f \in DOMAIN found, f.severity = "critical"
        PROVE  Cause(seen, path, DOMAIN found)
    BY <1>3 DEF Cause
  <1>4. decision.reject => Cause(seen, path, DOMAIN found)
    BY <1>2, <1>3 DEF EvaluateFindings
  <1>5. "BlockSourceIpTemporary" \in decision.actions => Critical(DOMAIN found)
    <2>1. decision.actions = UNION {BlockActions(f) : f \in blocking}
      BY DEF EvaluateFindings
    <2>2. \A f : "BlockSourceIpTemporary" \in BlockActions(f) => f.severity = "critical"
      BY DEF BlockActions
    <2> QED
      BY <2>1, <2>2 DEF Critical
  <1> QED
    BY <1>4, <1>5
-----------------------------------------------------------------------------
(* A step of r to q that keeps what r is, and brings no event.             *)
Onward(r, q) ==
    /\ Becomes(r, q) /\ Grounded(q, policy) /\ Reported(q, events)
    /\ q.input = req[r].input

LEMMA Answers ==
    ASSUME GoodInv, NEW r \in Requests, NEW outcome \in Answered, Answer(r, outcome)
    PROVE  \E q : Onward(r, q)
  <1> DEFINE q == [Blank EXCEPT !.pc = outcome, !.input = req[r].input,
                               !.trusted = req[r].trusted, !.hushed = req[r].hushed]
  <1>1. q.pc = outcome /\ q.input = req[r].input /\ DOMAIN q.found = {}
    BY DEF Blank, NoFindings
  <1>2. Becomes(r, q)
    BY DEF Becomes, Answer, GoodInv
  <1> HIDE DEF q
  <1>3. Grounded(q, policy) /\ Reported(q, events)
    BY <1>1 DEF Grounded, Resolved, Reported, Answered, Decided
  <1> QED
    BY <1>1, <1>2, <1>3 DEF Onward

(* A finding whose mode is read from the policy in force.                  *)
LEMMA ResolvedNow ==
    ASSUME GoodInv, CauseInv, NEW r \in Requests, InFlight(r), NEW f, NEW q,
           q.found = WithFinding(r, f), q.seen = req[r].seen, q.input = req[r].input
    PROVE  Resolved(q)
  <1>1. policy \in req[r].seen /\ Resolved(req[r])
    BY DEF CauseInv, Grounded, InFlight
  <1>2. DOMAIN q.found = DOMAIN req[r].found \cup {f}
    BY DEF WithFinding
  <1>3. q.found[f] = ResolveRuleMode(policy, q.input.path, Governing(f.rule))
    BY DEF WithFinding, Path
  <1>4. \A g \in DOMAIN req[r].found \ {f} : q.found[g] = req[r].found[g]
    BY DEF WithFinding
  <1> QED
    BY <1>1, <1>2, <1>3, <1>4 DEF Resolved

(* On the way to a decision only what is resolved matters.                 *)
LEMMA Underway ==
    ASSUME CauseInv, NEW r \in Requests, InFlight(r), NEW q, Becomes(r, q),
           q.seen = req[r].seen, q.input = req[r].input, Resolved(q),
           q.pc \notin {"none", "decide", "charge"} \cup Decided
    PROVE  Onward(r, q)
  <1>1. policy \in q.seen
    BY DEF CauseInv, Grounded, InFlight
  <1>2. Grounded(q, policy) /\ Reported(q, events)
    BY <1>1 DEF Grounded, Reported, Decided
  <1> QED
    BY <1>2 DEF Onward

LEMMA InspectingHasCause ==
    ASSUME GoodInv, CauseInv, NEW r \in Requests,
           ResolveFinding(r) \/ ShadowRoute(r) \/ CheckContract(r)
    PROVE  \E q : Onward(r, q)
  <1>1. Good(req[r]) /\ req[r].pc \in {"resolve", "shadow", "contract"} /\ InFlight(r)
    BY DEF GoodInv, ResolveFinding, ShadowRoute, CheckContract, InFlight, Answered
  <1>2. PICK pc, todo, contract, found :
            /\ req' = [req EXCEPT ![r].pc = pc, ![r].todo = todo, ![r].contract = contract,
                                  ![r].found = found]
            /\ pc \in {"resolve", "source", "contract", "filter"}
            /\ found = req[r].found \/ \E f : found = WithFinding(r, f)
    <2>1. CASE ResolveFinding(r)
      <3>1. PICK f \in req[r].todo :
              req' = [req EXCEPT ![r].found = WithFinding(r, f), ![r].todo = @ \ {f},
                                 ![r].pc = Inspecting(req[r].side, req[r].todo \ {f})]
        BY <2>1 DEF ResolveFinding
      <3>2. req' = [req EXCEPT ![r].pc = Inspecting(req[r].side, req[r].todo \ {f}),
                               ![r].todo = req[r].todo \ {f}, ![r].contract = req[r].contract,
                               ![r].found = WithFinding(r, f)]
        BY <1>1, <3>1 DEF GoodInv, Good, Shaped, Fields
      <3>3. Inspecting(req[r].side, req[r].todo \ {f}) \in {"resolve", "source", "contract"}
        BY DEF Inspecting
      <3> WITNESS Inspecting(req[r].side, req[r].todo \ {f}), req[r].todo \ {f},
                  req[r].contract, WithFinding(r, f)
      <3> QED
        BY <3>2, <3>3
    <2>2. CASE ShadowRoute(r)
      <3>1. req' = [req EXCEPT ![r].pc = "filter", ![r].todo = req[r].todo,
                               ![r].contract = req[r].contract,
                               ![r].found = WithFinding(r, ShadowFinding)]
        BY <1>1, <2>2 DEF ShadowRoute, GoodInv, Good, Shaped, Fields
      <3> WITNESS "filter", req[r].todo, req[r].contract, WithFinding(r, ShadowFinding)
      <3> QED
        BY <3>1
    <2>3. CASE CheckContract(r)
      <3> DEFINE Faults(c) == ContractFindings(req[r].response, c)
                 Now(c) == IF Faults(c) = {} THEN req[r].found
                           ELSE WithFinding(r, CHOOSE f \in Faults(c) : TRUE)
      <3>1. PICK c : req' = [req EXCEPT ![r].pc = "filter", ![r].contract = c, ![r].found = Now(c)]
        BY <1>1, <2>3 DEF CheckContract, GoodInv, Good, Shaped, Fields
      <3>2. Now(c) = req[r].found \/ \E f : Now(c) = WithFinding(r, f)
        OBVIOUS
      <3> HIDE DEF Now
      <3>3. req' = [req EXCEPT ![r].pc = "filter", ![r].todo = req[r].todo,
                               ![r].contract = c, ![r].found = Now(c)]
        BY <1>1, <3>1 DEF GoodInv, Good, Shaped, Fields
      <3> QED
        BY <3>2, <3>3
    <2> QED
      BY <2>1, <2>2, <2>3
  <1> DEFINE q == [req[r] EXCEPT !.pc = pc, !.todo = todo, !.contract = contract, !.found = found]
  <1>3. q.pc = pc /\ q.seen = req[r].seen /\ q.input = req[r].input /\ q.found = found
    BY <1>1 DEF Good, Shaped, Fields
  <1>4. Becomes(r, q)
    BY <1>2 DEF Becomes, GoodInv
  <1> HIDE DEF q
  <1>5. Resolved(q)
    <2>1. CASE found = req[r].found
      BY <1>3, <2>1 DEF Resolved, CauseInv, Grounded
    <2>2. ASSUME NEW f, found = WithFinding(r, f) PROVE Resolved(q)
      BY <1>1, <1>3, <2>2, ResolvedNow
    <2> QED
      BY <1>2, <2>1, <2>2
  <1>6. q.pc \notin {"none", "decide", "charge"} \cup Decided
    BY <1>2, <1>3 DEF Decided
  <1> QED
    BY <1>1, <1>3, <1>4, <1>5, <1>6, Underway

LEMMA AskingHasCause ==
    ASSUME GoodInv, CauseInv, NEW r \in Requests, AskAllowlists(r)
    PROVE  \E q : Onward(r, q)
  <1>1. Good(req[r]) /\ req[r].pc \in Asking /\ InFlight(r)
    BY DEF GoodInv, AskAllowlists, Ask, InFlight, Answered, Asking
  <1>2. ASSUME NEW step, NEW matches, NEW found, NEW otherwise, Ask(r, step, matches, found, otherwise),
               {found, otherwise} \subseteq Asking \cup {"shadow", "filter"}
        PROVE  \E pc, trust :
                   /\ pc \in Asking \cup {"shadow", "filter"}
                   /\ req' = [req EXCEPT ![r].pc = pc, ![r].trusted = trust]
    <2>1. CASE req' = [req EXCEPT ![r].pc = IF matches THEN found ELSE otherwise,
                                  ![r].trusted = @ \/ matches]
      <3>1. req' = [req EXCEPT ![r].pc = IF matches THEN found ELSE otherwise,
                               ![r].trusted = req[r].trusted \/ matches]
        BY <2>1 DEF GoodInv
      <3> QED
        BY <1>2, <3>1
    <2>2. CASE req' = [req EXCEPT ![r].pc = otherwise]
      <3>1. req' = [req EXCEPT ![r].pc = otherwise, ![r].trusted = req[r].trusted]
        BY <1>1, <2>2 DEF GoodInv, Good, Shaped, Fields
      <3> QED
        BY <1>2, <3>1
    <2> QED
      BY <1>2, <2>1, <2>2 DEF Ask
  <1>3. Unlisted(r) \in {"shadow", "filter"}
    BY DEF Unlisted
  <1>4. PICK pc, trust :
            /\ pc \in Asking \cup {"shadow", "filter"}
            /\ req' = [req EXCEPT ![r].pc = pc, ![r].trusted = trust]
    BY <1>2, <1>3 DEF AskAllowlists, Asking
  <1> DEFINE q == [req[r] EXCEPT !.pc = pc, !.trusted = trust]
  <1>5. q.pc = pc /\ q.seen = req[r].seen /\ q.input = req[r].input /\ q.found = req[r].found
    BY <1>1 DEF Good, Shaped, Fields
  <1>6. Becomes(r, q)
    BY <1>4 DEF Becomes, GoodInv
  <1> HIDE DEF q
  <1>7. Resolved(q)
    BY <1>5 DEF Resolved, CauseInv, Grounded
  <1>8. q.pc \notin {"none", "decide", "charge"} \cup Decided
    BY <1>4, <1>5 DEF Decided, Asking
  <1> QED
    BY <1>1, <1>4, <1>5, <1>6, <1>7, <1>8, Underway

LEMMA FilteringHasCause ==
    ASSUME GoodInv, CauseInv, NEW r \in Requests, FilterFindings(r)
    PROVE  \E q : Onward(r, q)
  <1>1. Good(req[r]) /\ req[r].pc = "filter" /\ InFlight(r)
    BY DEF GoodInv, FilterFindings, InFlight, Answered
  <1>2. PICK kept : kept \subseteq DOMAIN req[r].found /\ Keep(r, kept)
    BY DEF FilterFindings
  <1> DEFINE pc == IF kept # {} THEN "score"
                   ELSE IF req[r].side = "request" THEN "forward" ELSE "deliver"
             found == [f \in kept |-> req[r].found[f]]
             q == [req[r] EXCEPT !.found = found, !.pc = pc]
  <1>3. q.pc = pc /\ q.seen = req[r].seen /\ q.input = req[r].input /\ q.found = found
    BY <1>1 DEF Good, Shaped, Fields
  <1>4. Becomes(r, q)
    BY <1>2 DEF Becomes, GoodInv, Keep
  <1> HIDE DEF q
  <1>5. Resolved(q)
    BY <1>2, <1>3 DEF Resolved, CauseInv, Grounded
  <1>6. q.pc \notin {"none", "decide", "charge"} \cup Decided
    BY <1>3 DEF Decided
  <1> QED
    BY <1>1, <1>3, <1>4, <1>5, <1>6, Underway

(* Reading what the decision needs, deciding, and charging.                *)
LEMMA DecidingHasCause ==
    ASSUME GoodInv, CauseInv, NEW r \in Requests,
           ReadScore(r) \/ ReadPolicyMode(r) \/ Decide(r) \/ ChargeStep(r)
    PROVE  \E q : Onward(r, q)
  <1>1. /\ Good(req[r]) /\ req[r].pc \in {"score", "mode", "decide", "charge", "first charge"}
        /\ policy \in req[r].seen /\ Grounded(req[r], policy) /\ Reported(req[r], events)
    BY ChargeSteps DEF GoodInv, CauseInv, Grounded, ReadScore, ReadPolicyMode, Decide, Answered
  <1>2. CASE ReadScore(r)
    <2> DEFINE q == [req[r] EXCEPT !.pc = "mode", !.score = reputation[Source(r)]]
    <2>1. q.pc = "mode" /\ q.seen = req[r].seen /\ q.input = req[r].input /\ q.found = req[r].found
      BY <1>1 DEF Good, Shaped, Fields
    <2>2. Becomes(r, q)
      BY <1>2 DEF Becomes, GoodInv, ReadScore
    <2> HIDE DEF q
    <2>3. Grounded(q, policy) /\ Reported(q, events)
      BY <1>1, <2>1 DEF Grounded, Resolved, Reported, Decided
    <2> QED
      BY <2>1, <2>2, <2>3 DEF Onward
  <1>3. CASE ReadPolicyMode(r)
    <2> DEFINE q == [req[r] EXCEPT !.pc = "decide", !.mode = policy.mode]
    <2>1. /\ q.pc = "decide" /\ q.seen = req[r].seen /\ q.input = req[r].input
          /\ q.found = req[r].found /\ q.mode = policy.mode
      BY <1>1 DEF Good, Shaped, Fields
    <2>2. Becomes(r, q)
      BY <1>3 DEF Becomes, GoodInv, ReadPolicyMode
    <2> HIDE DEF q
    <2>3. Grounded(q, policy) /\ Reported(q, events)
      BY <1>1, <2>1 DEF Grounded, Resolved, Reported, Decided
    <2> QED
      BY <2>1, <2>2, <2>3 DEF Onward
  <1>4. CASE Decide(r)
    <2> DEFINE decision == EvaluateFindings(req[r].mode, policy.exceptions, Path(r),
                                            req[r].found, req[r].score)
               q == [req[r] EXCEPT !.pc = "record", !.decision = decision,
                                   !.score = 0, !.mode = "monitor"]
    <2>1. /\ q.pc = "record" /\ q.seen = req[r].seen /\ q.input = req[r].input
          /\ q.found = req[r].found /\ q.decision = decision
      BY <1>1 DEF Good, Shaped, Fields
    <2>2. Becomes(r, q)
      BY <1>4 DEF Becomes, GoodInv, Decide
    <2>3. /\ decision.reject => Cause(req[r].seen, Path(r), DOMAIN req[r].found)
          /\ "BlockSourceIpTemporary" \in decision.actions => Critical(DOMAIN req[r].found)
      <3>1. \E p \in req[r].seen : req[r].mode = p.mode
        BY <1>1, <1>4 DEF Grounded, Decide
      <3>2. \A f \in DOMAIN req[r].found : \E p \in req[r].seen :
                req[r].found[f] = ResolveRuleMode(p, Path(r), Governing(f.rule))
        BY <1>1 DEF Grounded, Resolved, Path
      <3> QED
        BY <1>1, <3>1, <3>2, DecisionHasCause
    <2> HIDE DEF q, decision
    <2>4. Grounded(q, policy) /\ Reported(q, events)
      BY <1>1, <2>1, <2>3 DEF Grounded, Resolved, Reported, Decided, Path
    <2> QED
      BY <2>1, <2>2, <2>4 DEF Onward
  <1>5. CASE ChargeStep(r)
    <2>0. PICK pc \in {"first charge", AfterCharge(req[r])} : req' = [req EXCEPT ![r].pc = pc]
      BY <1>5, ChargeSteps
    <2> DEFINE q == [req[r] EXCEPT !.pc = pc]
    <2>1. /\ q.pc = pc /\ q.seen = req[r].seen /\ q.input = req[r].input
          /\ q.found = req[r].found /\ q.decision = req[r].decision
      BY <1>1 DEF Good, Shaped, Fields
    <2>2. Becomes(r, q)
      BY <2>0 DEF Becomes, GoodInv
    <2> HIDE DEF q
    <2>3. /\ req[r].pc \in {"charge", "first charge"} /\ (pc = "mitigate" => req[r].decision.reject)
          /\ pc \in {"first charge", "mitigate", "forward", "deliver"}
      BY <1>5, <2>0, ChargeSteps DEF AfterCharge
    <2>4. Grounded(q, policy) /\ Reported(q, events)
      BY <1>1, <2>1, <2>3 DEF Grounded, Resolved, Reported, Decided
    <2> QED
      BY <2>1, <2>2, <2>4 DEF Onward
  <1> QED
    BY <1>2, <1>3, <1>4, <1>5

(* A step that brings no event and no ban.                                 *)
LEMMA OnwardKeeps ==
    ASSUME GoodInv, CauseInv, NEW r \in Requests, NEW q, Onward(r, q),
           UNCHANGED <<policy, events, banned>>
    PROVE  CauseInv'
  <1>1. \A s \in Requests : req'[s] = IF s = r THEN q ELSE req[s]
    BY DEF Onward, Becomes
  <1>2. \A s \in Requests : req'[s].input = req[s].input
    BY <1>1 DEF Onward
  <1>3. \A s \in Requests : Grounded(req'[s], policy') /\ Reported(req'[s], events')
    BY <1>1 DEF Onward, CauseInv
  <1> QED
    BY <1>2, <1>3 DEF CauseInv

LEMMA ArrivingHasCause ==
    ASSUME GoodInv, CauseInv, NEW r \in Requests, RequestContextMiddleware(r)
    PROVE  CauseInv'
  <1>1. Good(req[r]) /\ req[r].pc = "none" /\ Early(req[r]) /\ UNCHANGED <<policy, events, banned>>
    BY DEF GoodInv, RequestContextMiddleware, world, Early
  <1>2. CASE Answer(r, "failed")
    <2>1. "failed" \in Answered
      BY DEF Answered
    <2> QED
      BY <1>1, <1>2, <2>1, Answers, OnwardKeeps
  <1>3. ASSUME NEW i \in Inputs,
               req' = [req EXCEPT ![r].pc = "check", ![r].input = i,
                                  ![r].seen = {policy}, ![r].hushed = suppressions]
        PROVE  CauseInv'
    <2> DEFINE q == [req[r] EXCEPT !.pc = "check", !.input = i, !.seen = {policy},
                                   !.hushed = suppressions]
    <2>1. q.pc = "check" /\ q.seen = {policy} /\ q.found = req[r].found
      BY <1>1 DEF Good, Shaped, Fields
    <2>2. Becomes(r, q)
      BY <1>3 DEF Becomes, GoodInv
    <2> HIDE DEF q
    <2>3. DOMAIN q.found = {}
      BY <1>1, <2>1 DEF CauseInv, Grounded
    <2>4. Grounded(q, policy) /\ Reported(q, events)
      BY <2>1, <2>3 DEF Grounded, Resolved, Reported, Decided
    <2>5. \A s \in Requests : req'[s] = IF s = r THEN q ELSE req[s]
      BY <2>2 DEF Becomes
    <2>6. \A e \in events : e.request # r
      BY <1>1 DEF GoodInv
    <2> QED
      BY <1>1, <2>4, <2>5, <2>6 DEF CauseInv
  <1> QED
    BY <1>1, <1>2, <1>3 DEF RequestContextMiddleware

LEMMA SecuringHasCause ==
    ASSUME GoodInv, CauseInv, NEW r \in Requests, SecurityMiddleware(r)
    PROVE  \E q : Onward(r, q)
  <1>1. Good(req[r]) /\ req[r].pc = "check" /\ InFlight(r)
    BY DEF GoodInv, SecurityMiddleware, InFlight, Answered
  <1>2. CASE Answer(r, "turned away")
    <2>1. "turned away" \in Answered
      BY DEF Answered
    <2> QED
      BY <1>2, <2>1, Answers
  <1>3. ASSUME NEW raised,
               req' = [req EXCEPT ![r].pc = Inspecting("request", raised), ![r].todo = raised]
        PROVE  \E q : Onward(r, q)
    <2> DEFINE q == [req[r] EXCEPT !.pc = Inspecting("request", raised), !.todo = raised]
    <2>1. /\ q.pc = Inspecting("request", raised) /\ q.seen = req[r].seen
          /\ q.input = req[r].input /\ q.found = req[r].found
      BY <1>1 DEF Good, Shaped, Fields
    <2>2. Becomes(r, q)
      BY <1>3 DEF Becomes, GoodInv
    <2> HIDE DEF q
    <2>3. Resolved(q)
      BY <2>1 DEF Resolved, CauseInv, Grounded
    <2>4. q.pc \notin {"none", "decide", "charge"} \cup Decided
      BY <2>1 DEF Decided, Inspecting
    <2> QED
      BY <1>1, <2>1, <2>2, <2>3, <2>4, Underway
  <1> QED
    BY <1>2, <1>3 DEF SecurityMiddleware

LEMMA ForwardingHasCause ==
    ASSUME GoodInv, CauseInv, NEW r \in Requests, Forward(r)
    PROVE  \E q : Onward(r, q)
  <1>1. Good(req[r]) /\ req[r].pc = "forward" /\ InFlight(r)
    BY DEF GoodInv, Forward, InFlight, Answered
  <1>2. CASE Answer(r, "failed")
    <2>1. "failed" \in Answered
      BY DEF Answered
    <2> QED
      BY <1>2, <2>1, Answers
  <1>3. ASSUME NEW p, NEW raised,
               req' = [req EXCEPT ![r].pc = Inspecting("response", raised), ![r].side = "response",
                                  ![r].response = p, ![r].todo = raised,
                                  ![r].found = NoFindings, ![r].decision = Nothing]
        PROVE  \E q : Onward(r, q)
    <2> DEFINE q == [req[r] EXCEPT !.pc = Inspecting("response", raised), !.side = "response",
                                   !.response = p, !.todo = raised,
                                   !.found = NoFindings, !.decision = Nothing]
    <2>1. /\ q.pc = Inspecting("response", raised) /\ q.seen = req[r].seen
          /\ q.input = req[r].input /\ q.found = NoFindings
      BY <1>1 DEF Good, Shaped, Fields
    <2>2. Becomes(r, q)
      BY <1>3 DEF Becomes, GoodInv
    <2> HIDE DEF q
    <2>3. Resolved(q)
      BY <2>1 DEF Resolved, NoFindings
    <2>4. q.pc \notin {"none", "decide", "charge"} \cup Decided
      BY <2>1 DEF Decided, Inspecting
    <2> QED
      BY <1>1, <2>1, <2>2, <2>3, <2>4, Underway
  <1> QED
    BY <1>2, <1>3 DEF Forward

LEMMA RecordingHasCause ==
    ASSUME GoodInv, CauseInv, NEW r \in Requests, RecordEvent(r)
    PROVE  CauseInv'
  <1>1. /\ Good(req[r]) /\ req[r].pc = "record" /\ UNCHANGED <<policy, banned>>
        /\ Grounded(req[r], policy)
    BY DEF GoodInv, CauseInv, RecordEvent
  <1> DEFINE q == [req[r] EXCEPT !.pc = "charge"]
  <1>2. /\ q.pc = "charge" /\ q.seen = req[r].seen /\ q.input = req[r].input
        /\ q.found = req[r].found /\ q.decision = req[r].decision
    BY <1>1 DEF Good, Shaped, Fields
  <1>3. Becomes(r, q)
    BY DEF Becomes, GoodInv, RecordEvent
  <1> HIDE DEF q
  <1>4. PICK e : /\ events' = events \cup {e} /\ e.request = r /\ e.source = req[r].input.source
                 /\ e.findings = DOMAIN req[r].found /\ e.reject = req[r].decision.reject
                 /\ e.seen = req[r].seen
    <2>1. PICK stored \in BOOLEAN : events' = events \cup {Event(r, stored)}
      BY DEF RecordEvent
    <2>2. /\ Event(r, stored).request = r
          /\ Event(r, stored).source = req[r].input.source
          /\ Event(r, stored).findings = DOMAIN req[r].found
          /\ Event(r, stored).reject = req[r].decision.reject
          /\ Event(r, stored).seen = req[r].seen
      BY DEF Event, Source
    <2> QED
      BY <2>1, <2>2
  <1>5. \A s \in Requests : req'[s] = IF s = r THEN q ELSE req[s]
    BY <1>3 DEF Becomes
  <1>6. Grounded(q, policy) /\ Reported(q, events')
    <2>1. Grounded(q, policy)
      BY <1>1, <1>2 DEF Grounded, Resolved, Decided, Answered
    <2>2. Reported(q, events')
      BY <1>2, <1>4 DEF Reported
    <2> QED
      BY <2>1, <2>2
  <1>7. \A s \in Requests : Grounded(req'[s], policy') /\ Reported(req'[s], events')
    <2> SUFFICES ASSUME NEW s \in Requests PROVE Grounded(req'[s], policy') /\ Reported(req'[s], events')
      OBVIOUS
    <2>1. CASE s = r
      BY <1>1, <1>5, <1>6, <2>1
    <2>2. CASE s # r
      <3>1. Grounded(req[s], policy) /\ Reported(req[s], events) /\ req'[s] = req[s]
        BY <1>5, <2>2 DEF CauseInv
      <3>2. Reported(req[s], events')
        BY <1>4, <3>1 DEF Reported
      <3> QED
        BY <1>1, <3>1, <3>2
    <2> QED
      BY <2>1, <2>2
  <1>8. \A s \in Requests : req'[s].input = req[s].input
    BY <1>2, <1>5
  <1>9. e.reject => Cause(e.seen, req[r].input.path, e.findings)
    BY <1>1, <1>4 DEF Grounded, Decided
  <1>10. \A x \in events' : /\ x.request \in Requests
                            /\ x.reject => Cause(x.seen, req'[x.request].input.path, x.findings)
    BY <1>4, <1>8, <1>9 DEF CauseInv
  <1> QED
    BY <1>1, <1>4, <1>7, <1>10 DEF CauseInv

LEMMA FinalizingHasCause ==
    ASSUME GoodInv, CauseInv, NEW r \in Requests, FinalizeBlockingDecision(r)
    PROVE  CauseInv'
  <1>1. req[r].pc = "mitigate" /\ UNCHANGED <<policy, events>>
    BY DEF FinalizeBlockingDecision
  <1>2. PICK q : Onward(r, q)
    <2>1. (IF req[r].side = "request" THEN "refused" ELSE "withheld") \in Answered
      BY DEF Answered
    <2> QED
      BY <2>1, Answers DEF FinalizeBlockingDecision
  <1>3. banned' # banned =>
          /\ banned' = banned \cup {req[r].input.source}
          /\ "BlockSourceIpTemporary" \in req[r].decision.actions
    BY DEF FinalizeBlockingDecision, Source
  <1>4. /\ "BlockSourceIpTemporary" \in req[r].decision.actions => Critical(DOMAIN req[r].found)
        /\ req[r].decision.reject
        /\ \E e \in events : /\ e.source = req[r].input.source /\ e.reject = req[r].decision.reject
                             /\ e.findings = DOMAIN req[r].found
    BY <1>1 DEF CauseInv, Grounded, Reported, Decided
  <1>5. \A s \in banned' : \E e \in events : e.source = s /\ e.reject /\ Critical(e.findings)
    BY <1>3, <1>4 DEF CauseInv
  <1>6. \A s \in Requests : req'[s] = IF s = r THEN q ELSE req[s]
    BY <1>2 DEF Onward, Becomes
  <1>7. \A s \in Requests : req'[s].input = req[s].input
    BY <1>2, <1>6 DEF Onward
  <1>8. \A s \in Requests : Grounded(req'[s], policy') /\ Reported(req'[s], events')
    BY <1>1, <1>2, <1>6 DEF Onward, CauseInv
  <1> QED
    BY <1>1, <1>5, <1>7, <1>8 DEF CauseInv

(* Whoever watches a policy come into force keeps what it has.             *)
LEMMA ChangingHasCause ==
    ASSUME GoodInv, CauseInv, ChangePolicy \/ ChangeRules \/ ApproveFromEvent \/ LiftBan
    PROVE  CauseInv'
  <1>1. events' = events /\ banned' \subseteq banned
    BY DEF ChangePolicy, ChangeRules, ApproveFromEvent, LiftBan
  <1>2. \A r \in Requests :
          /\ req'[r].pc = req[r].pc /\ req'[r].input = req[r].input /\ req'[r].found = req[r].found
          /\ req'[r].mode = req[r].mode /\ req'[r].decision = req[r].decision
          /\ req[r].seen \subseteq req'[r].seen
          /\ policy' # policy /\ InFlight(r) => policy' \in req'[r].seen
    <2>0. \A r \in Requests : Shaped(req[r])
      BY DEF GoodInv, Good
    <2>1. CASE ChangePolicy
      <3>1. PICK p : /\ policy' = p
                     /\ req' = [r \in Requests |-> IF InFlight(r) THEN [req[r] EXCEPT !.seen = @ \cup {p}]
                                                   ELSE req[r]]
        BY <2>1 DEF ChangePolicy
      <3> QED
        BY <2>0, <3>1 DEF Shaped, Fields
    <2>2. CASE ChangeRules
      <3>1. /\ policy' = policy
            /\ req' = [r \in Requests |-> IF InFlight(r) THEN [req[r] EXCEPT !.hushed = @ \cup suppressions']
                                          ELSE req[r]]
        BY <2>2 DEF ChangeRules
      <3> QED
        BY <2>0, <3>1 DEF Shaped, Fields
    <2>3. CASE ApproveFromEvent \/ LiftBan
      BY <2>3 DEF ApproveFromEvent, LiftBan
    <2> QED
      BY <2>1, <2>2, <2>3
  <1>3. ASSUME NEW r \in Requests PROVE Grounded(req'[r], policy') /\ Reported(req'[r], events')
    <2>1. Grounded(req[r], policy) /\ Reported(req[r], events)
      BY DEF CauseInv
    <2>2. req'[r].pc \notin Answered \cup {"none"} => policy' \in req'[r].seen
      BY <1>2, <2>1 DEF Grounded, InFlight
    <2>3. Resolved(req'[r]) /\ (req'[r].pc = "decide" => \E p \in req'[r].seen : req'[r].mode = p.mode)
      BY <1>2, <2>1 DEF Grounded, Resolved
    <2>4. req'[r].pc \in Decided /\ req'[r].decision.reject =>
              Cause(req'[r].seen, req'[r].input.path, DOMAIN req'[r].found)
      BY <1>2, <2>1, CauseGrows DEF Grounded
    <2>5. Grounded(req'[r], policy')
      BY <1>2, <2>1, <2>2, <2>3, <2>4 DEF Grounded
    <2>6. Reported(req'[r], events')
      BY <1>1, <1>2, <2>1 DEF Reported
    <2> QED
      BY <2>5, <2>6
  <1> QED
    BY <1>1, <1>2, <1>3 DEF CauseInv
-----------------------------------------------------------------------------
(* No rejection without a cause: see RejectionHasCause.                    *)
THEOREM RejectionHasCauseHolds == Spec => []RejectionHasCause
<1>1. Init => CauseInv
  <2> SUFFICES ASSUME Init PROVE CauseInv
    OBVIOUS
  <2>1. \A r \in Requests : req[r] = Blank
    BY DEF Init
  <2>2. Grounded(Blank, policy) /\ Reported(Blank, events)
    BY DEF Grounded, Resolved, Reported, Blank, NoFindings, Decided
  <2> QED
    BY <2>1, <2>2 DEF Init, CauseInv
<1>2. GoodInv /\ CauseInv /\ [Next]_vars => CauseInv'
  <2> SUFFICES ASSUME GoodInv, CauseInv, [Next]_vars PROVE CauseInv'
    OBVIOUS
  <2>1. ASSUME NEW r \in Requests, Proceed(r) PROVE CauseInv'
    <3>1. CASE RequestContextMiddleware(r)
      BY <3>1, ArrivingHasCause
    <3>2. CASE RecordEvent(r)
      BY <3>2, RecordingHasCause
    <3>3. CASE FinalizeBlockingDecision(r)
      BY <3>3, FinalizingHasCause
    <3>4. CASE ReadScore(r) \/ ReadPolicyMode(r) \/ Decide(r) \/ ChargeStep(r)
      <4>1. UNCHANGED <<policy, events, banned>>
        BY <3>4, ChargeSteps DEF ReadScore, ReadPolicyMode, Decide, world
      <4> QED
        BY <3>4, <4>1, DecidingHasCause, OnwardKeeps
    <3>5. CASE ResolveFinding(r) \/ ShadowRoute(r) \/ CheckContract(r) \/ FilterFindings(r)
      <4>1. UNCHANGED <<policy, events, banned>>
        BY <3>5 DEF ResolveFinding, ShadowRoute, CheckContract, FilterFindings, world
      <4> QED
        BY <3>5, <4>1, InspectingHasCause, FilteringHasCause, OnwardKeeps
    <3>6. CASE AskAllowlists(r)
      <4>1. UNCHANGED <<policy, events, banned>>
        BY <3>6 DEF AskAllowlists, Ask, world
      <4> QED
        BY <3>6, <4>1, AskingHasCause, OnwardKeeps
    <3>7. CASE SecurityMiddleware(r) \/ Forward(r)
      <4>1. UNCHANGED <<policy, events, banned>>
        BY <3>7 DEF SecurityMiddleware, Forward, world
      <4> QED
        BY <3>7, <4>1, SecuringHasCause, ForwardingHasCause, OnwardKeeps
    <3>8. CASE Deliver(r)
      <4>1. UNCHANGED <<policy, events, banned>> /\ Answer(r, "delivered") /\ "delivered" \in Answered
        BY <3>8 DEF Deliver, world, Answered
      <4> QED
        BY <4>1, Answers, OnwardKeeps
    <3> QED
      BY <2>1, <3>1, <3>2, <3>3, <3>4, <3>5, <3>6, <3>7, <3>8 DEF Proceed, ChargeStep
  <2>2. CASE UNCHANGED vars
    <3>1. req' = req /\ policy' = policy /\ events' = events /\ banned' = banned
      BY <2>2 DEF vars
    <3> QED
      BY <3>1 DEF CauseInv
  <2> QED
    BY <2>1, <2>2, ChangingHasCause DEF Next
<1>3. CauseInv => RejectionHasCause
  BY DEF CauseInv, Cause, Critical, RejectionHasCause
<1> QED
  BY <1>1, <1>2, <1>3, GoodFromTheStart, PTL DEF Spec
-----------------------------------------------------------------------------
(* What each step of a request does to each of its fields.                 *)
Kept(r, but) == \A field \in Fields \ but : req'[r][field] = req[r][field]

Ends(r, outcome) ==
    /\ req'[r].pc = outcome
    /\ \A field \in {"input", "trusted", "hushed"} : req'[r][field] = req[r][field]
    /\ \A field \in Fields \ {"pc", "input", "trusted", "hushed"} : req'[r][field] = Blank[field]

(* The step after the findings are filtered, and after a charge.           *)
Onwards(side) == IF side = "request" THEN "forward" ELSE "deliver"

LEMMA EndsAt ==
    ASSUME GoodInv, NEW r \in Requests, NEW outcome, Answer(r, outcome)
    PROVE  Ends(r, outcome)
  <1>1. /\ req'[r] = [Blank EXCEPT !.pc = outcome, !.input = req[r].input,
                                   !.trusted = req[r].trusted, !.hushed = req[r].hushed]
    BY DEF Answer, GoodInv
  <1>2. DOMAIN Blank = Fields
    BY DEF Blank, Fields
  <1>3. /\ req'[r].pc = outcome /\ req'[r].input = req[r].input
        /\ req'[r].trusted = req[r].trusted /\ req'[r].hushed = req[r].hushed
    BY <1>1 DEF Blank
  <1>4. \A field \in Fields \ {"pc", "input", "trusted", "hushed"} : req'[r][field] = Blank[field]
    BY <1>1, <1>2
  <1> QED
    BY <1>3, <1>4 DEF Ends

LEMMA OthersKept ==
    ASSUME GoodInv, NEW r \in Requests, Proceed(r)
    PROVE  \A s \in Requests \ {r} : req'[s] = req[s]
  BY Proceeding DEF Effect, Becomes

LEMMA FieldsOfArrival ==
    ASSUME GoodInv, NEW r \in Requests, RequestContextMiddleware(r)
    PROVE  \/ Ends(r, "failed")
           \/ /\ req'[r].pc = "check" /\ req'[r].input \in Inputs
              /\ req'[r].seen = {policy} /\ req'[r].hushed = suppressions
              /\ Kept(r, {"pc", "input", "seen", "hushed"})
  <1>1. Shaped(req[r])
    BY DEF GoodInv, Good
  <1>2. ASSUME NEW i \in Inputs,
               req' = [req EXCEPT ![r].pc = "check", ![r].input = i,
                                  ![r].seen = {policy}, ![r].hushed = suppressions]
        PROVE  /\ req'[r].pc = "check" /\ req'[r].input \in Inputs
               /\ req'[r].seen = {policy} /\ req'[r].hushed = suppressions
               /\ Kept(r, {"pc", "input", "seen", "hushed"})
    BY <1>1, <1>2 DEF GoodInv, Shaped, Fields, Kept
  <1> QED
    BY <1>2, EndsAt DEF RequestContextMiddleware

LEMMA FieldsOfSecurity ==
    ASSUME GoodInv, NEW r \in Requests, SecurityMiddleware(r)
    PROVE  \/ Ends(r, "turned away")
           \/ /\ req'[r].todo = InspectRequest(req[r].input)
              /\ req'[r].pc = Inspecting("request", req'[r].todo)
              /\ Kept(r, {"pc", "todo"})
  <1>1. Shaped(req[r])
    BY DEF GoodInv, Good
  <1>2. ASSUME NEW raised, raised = InspectRequest(req[r].input),
               req' = [req EXCEPT ![r].pc = Inspecting("request", raised), ![r].todo = raised]
        PROVE  /\ req'[r].todo = InspectRequest(req[r].input)
               /\ req'[r].pc = Inspecting("request", req'[r].todo)
               /\ Kept(r, {"pc", "todo"})
    BY <1>1, <1>2 DEF GoodInv, Shaped, Fields, Kept
  <1> QED
    BY <1>2, EndsAt DEF SecurityMiddleware

LEMMA FieldsOfResolving ==
    ASSUME GoodInv, NEW r \in Requests, ResolveFinding(r)
    PROVE  \E f \in req[r].todo :
              /\ req'[r].found = WithFinding(r, f) /\ req'[r].todo = req[r].todo \ {f}
              /\ req'[r].pc = Inspecting(req[r].side, req'[r].todo)
              /\ Kept(r, {"pc", "todo", "found"})
  <1>1. Shaped(req[r])
    BY DEF GoodInv, Good
  <1>2. PICK f \in req[r].todo :
            req' = [req EXCEPT ![r].found = WithFinding(r, f), ![r].todo = @ \ {f},
                               ![r].pc = Inspecting(req[r].side, req[r].todo \ {f})]
    BY DEF ResolveFinding
  <1> QED
    BY <1>1, <1>2 DEF GoodInv, Shaped, Fields, Kept

LEMMA FieldsOfAsking ==
    ASSUME GoodInv, NEW r \in Requests, AskAllowlists(r)
    PROVE  /\ req[r].pc \in Asking /\ req'[r].pc \in Asking \cup {"shadow", "filter"}
           /\ req[r].trusted => req'[r].trusted
           /\ Kept(r, {"pc", "trusted"})
  <1>1. Shaped(req[r])
    BY DEF GoodInv, Good
  <1>2. ASSUME NEW step \in Asking, NEW matches,
               NEW found \in Asking \cup {"shadow", "filter"},
               NEW otherwise \in Asking \cup {"shadow", "filter"},
               Ask(r, step, matches, found, otherwise)
        PROVE  /\ req[r].pc \in Asking /\ req'[r].pc \in Asking \cup {"shadow", "filter"}
               /\ req[r].trusted => req'[r].trusted
               /\ Kept(r, {"pc", "trusted"})
    <2>1. CASE req' = [req EXCEPT ![r].pc = IF matches THEN found ELSE otherwise,
                                  ![r].trusted = @ \/ matches]
      <3>1. PICK pc \in Asking \cup {"shadow", "filter"} : pc = IF matches THEN found ELSE otherwise
        OBVIOUS
      <3>2. req' = [req EXCEPT ![r].pc = pc, ![r].trusted = req[r].trusted \/ matches]
        BY <2>1, <3>1 DEF GoodInv
      <3>3. req'[r].pc = pc /\ req'[r].trusted = (req[r].trusted \/ matches) /\ Kept(r, {"pc", "trusted"})
        BY <1>1, <3>2 DEF GoodInv, Shaped, Fields, Kept
      <3> QED
        BY <1>2, <3>3 DEF Ask
    <2>2. CASE req' = [req EXCEPT ![r].pc = otherwise]
      <3>1. req'[r].pc = otherwise /\ Kept(r, {"pc"})
        BY <1>1, <2>2 DEF GoodInv, Shaped, Fields, Kept
      <3>2. req'[r].trusted = req[r].trusted
        BY <3>1 DEF Kept, Fields
      <3> QED
        BY <1>2, <3>1, <3>2 DEF Ask, Kept
    <2> QED
      BY <1>2, <2>1, <2>2 DEF Ask
  <1>3. Unlisted(r) \in Asking \cup {"shadow", "filter"}
    BY DEF Unlisted
  <1> QED
    BY <1>2, <1>3 DEF AskAllowlists, Asking

LEMMA FieldsOfShadow ==
    ASSUME GoodInv, NEW r \in Requests, ShadowRoute(r)
    PROVE  /\ req'[r].pc = "filter" /\ req'[r].found = WithFinding(r, ShadowFinding)
           /\ Kept(r, {"pc", "found"})
  BY DEF GoodInv, Good, Shaped, Fields, Kept, ShadowRoute

LEMMA FieldsOfFilter ==
    ASSUME GoodInv, NEW r \in Requests, FilterFindings(r)
    PROVE  \E kept \in SUBSET DOMAIN req[r].found :
              /\ req'[r].found = [f \in kept |-> req[r].found[f]]
              /\ req'[r].pc = IF kept # {} THEN "score" ELSE Onwards(req[r].side)
              /\ ~req[r].trusted =>
                   \A f \in DOMAIN req[r].found \ kept : Suppressed(f.rule, Path(r))
              /\ Kept(r, {"pc", "found"})
  <1>1. Shaped(req[r])
    BY DEF GoodInv, Good
  <1>2. ASSUME NEW kept \in SUBSET DOMAIN req[r].found, Keep(r, kept)
        PROVE  /\ req'[r].found = [f \in kept |-> req[r].found[f]]
               /\ req'[r].pc = IF kept # {} THEN "score" ELSE Onwards(req[r].side)
               /\ Kept(r, {"pc", "found"})
    BY <1>1, <1>2 DEF GoodInv, Shaped, Fields, Kept, Keep, Onwards
  <1>3. PICK kept \in SUBSET DOMAIN req[r].found :
            /\ Keep(r, kept)
            /\ ~req[r].trusted => \A f \in DOMAIN req[r].found \ kept : Suppressed(f.rule, Path(r))
    BY DEF FilterFindings
  <1> QED
    BY <1>2, <1>3

LEMMA FieldsOfDeciding ==
    ASSUME GoodInv, NEW r \in Requests
    PROVE  /\ ReadScore(r) => req'[r].pc = "mode" /\ Kept(r, {"pc", "score"})
           /\ ReadPolicyMode(r) => /\ req'[r].pc = "decide" /\ req'[r].mode = policy.mode
                                   /\ Kept(r, {"pc", "mode"})
           /\ Decide(r) => /\ req'[r].pc = "record" /\ req'[r].mode = "monitor"
                           /\ Kept(r, {"pc", "score", "mode", "decision"})
           /\ RecordEvent(r) => req'[r].pc = "charge" /\ Kept(r, {"pc"})
           /\ ChargeStep(r) => /\ req'[r].pc \in {"first charge", "mitigate", Onwards(req[r].side)}
                               /\ Kept(r, {"pc"})
  <1>1. Shaped(req[r])
    BY DEF GoodInv, Good
  <1>2. ReadScore(r) => req'[r].pc = "mode" /\ Kept(r, {"pc", "score"})
    BY <1>1 DEF GoodInv, Shaped, Fields, Kept, ReadScore
  <1>3. ReadPolicyMode(r) => /\ req'[r].pc = "decide" /\ req'[r].mode = policy.mode
                             /\ Kept(r, {"pc", "mode"})
    BY <1>1 DEF GoodInv, Shaped, Fields, Kept, ReadPolicyMode
  <1>4. Decide(r) => /\ req'[r].pc = "record" /\ req'[r].mode = "monitor"
                     /\ Kept(r, {"pc", "score", "mode", "decision"})
    <2>1. SUFFICES ASSUME Decide(r) PROVE /\ req'[r].pc = "record" /\ req'[r].mode = "monitor"
                                          /\ Kept(r, {"pc", "score", "mode", "decision"})
      OBVIOUS
    <2>2. PICK decision : req' = [req EXCEPT ![r].pc = "record", ![r].decision = decision,
                                             ![r].score = 0, ![r].mode = "monitor"]
      BY <2>1 DEF Decide
    <2>3. req'[r].pc = "record" /\ req'[r].mode = "monitor"
      BY <1>1, <2>2 DEF GoodInv, Shaped, Fields
    <2>4. Kept(r, {"pc", "score", "mode", "decision"})
      BY <1>1, <2>2 DEF GoodInv, Shaped, Fields, Kept
    <2> QED
      BY <2>3, <2>4
  <1>5. RecordEvent(r) => req'[r].pc = "charge" /\ Kept(r, {"pc"})
    BY <1>1 DEF GoodInv, Shaped, Fields, Kept, RecordEvent
  <1>6. ChargeStep(r) => /\ req'[r].pc \in {"first charge", "mitigate", Onwards(req[r].side)}
                         /\ Kept(r, {"pc"})
    <2> SUFFICES ASSUME ChargeStep(r)
                 PROVE  /\ req'[r].pc \in {"first charge", "mitigate", Onwards(req[r].side)}
                        /\ Kept(r, {"pc"})
      OBVIOUS
    <2>1. PICK pc \in {"first charge", AfterCharge(req[r])} : req' = [req EXCEPT ![r].pc = pc]
      BY ChargeSteps
    <2> QED
      BY <1>1, <2>1 DEF GoodInv, Shaped, Fields, Kept, Onwards, AfterCharge
  <1> QED
    BY <1>2, <1>3, <1>4, <1>5, <1>6

LEMMA FieldsOfForwarding ==
    ASSUME GoodInv, NEW r \in Requests, Forward(r)
    PROVE  \/ Ends(r, "failed")
           \/ /\ req'[r].side = "response" /\ req'[r].found = NoFindings
              /\ req'[r].pc \in {"resolve", "contract"}
              /\ Kept(r, {"pc", "side", "response", "todo", "found", "decision"})
  <1>1. Shaped(req[r])
    BY DEF GoodInv, Good
  <1>2. ASSUME NEW p, NEW raised,
               req' = [req EXCEPT ![r].pc = Inspecting("response", raised), ![r].side = "response",
                                  ![r].response = p, ![r].todo = raised,
                                  ![r].found = NoFindings, ![r].decision = Nothing]
        PROVE  /\ req'[r].side = "response" /\ req'[r].found = NoFindings
               /\ req'[r].pc \in {"resolve", "contract"}
               /\ Kept(r, {"pc", "side", "response", "todo", "found", "decision"})
    <2>1. req'[r].side = "response" /\ req'[r].found = NoFindings
      BY <1>1, <1>2 DEF GoodInv, Shaped, Fields
    <2>2. req'[r].pc = Inspecting("response", raised)
      BY <1>1, <1>2 DEF GoodInv, Shaped, Fields
    <2>3. Kept(r, {"pc", "side", "response", "todo", "found", "decision"})
      BY <1>1, <1>2 DEF GoodInv, Shaped, Fields, Kept
    <2> QED
      BY <2>1, <2>2, <2>3 DEF Inspecting
  <1> QED
    BY <1>2, EndsAt DEF Forward

LEMMA FieldsOfContract ==
    ASSUME GoodInv, NEW r \in Requests, CheckContract(r)
    PROVE  /\ req'[r].pc = "filter"
           /\ req'[r].contract # Nothing => req[r].input.route \in DOMAIN contracts
           /\ req'[r].found = req[r].found \/ \E f : req'[r].found = WithFinding(r, f)
           /\ Kept(r, {"pc", "contract", "found"})
  <1> DEFINE Faults(c) == ContractFindings(req[r].response, c)
             Now(c) == IF Faults(c) = {} THEN req[r].found
                       ELSE WithFinding(r, CHOOSE f \in Faults(c) : TRUE)
  <1>1. Shaped(req[r])
    BY DEF GoodInv, Good
  <1>2. PICK c : /\ c # Nothing => req[r].input.route \in DOMAIN contracts
                 /\ req' = [req EXCEPT ![r].pc = "filter", ![r].contract = c, ![r].found = Now(c)]
    BY <1>1 DEF CheckContract, GoodInv, Shaped, Fields
  <1>3. Now(c) = req[r].found \/ \E f : Now(c) = WithFinding(r, f)
    OBVIOUS
  <1> HIDE DEF Now
  <1>4. /\ req'[r].pc = "filter" /\ req'[r].contract = c /\ req'[r].found = Now(c)
        /\ Kept(r, {"pc", "contract", "found"})
    BY <1>1, <1>2 DEF GoodInv, Shaped, Fields, Kept
  <1> QED
    BY <1>2, <1>3, <1>4

LEMMA FieldsOfAnswers ==
    ASSUME GoodInv, NEW r \in Requests
    PROVE  /\ Deliver(r) => Ends(r, "delivered")
           /\ FinalizeBlockingDecision(r) =>
                Ends(r, IF req[r].side = "request" THEN "refused" ELSE "withheld")
  BY EndsAt DEF Deliver, FinalizeBlockingDecision
-----------------------------------------------------------------------------
(* Types.  A mode that the policy resolves to is a mode.                   *)
LEMMA LeastOverride ==
    ASSUME NEW S \in SUBSET Nat, S # {} PROVE Min(S) \in S
  <1>1. PICK m \in S : \A y \in S : <<y, m>> \notin OpToRel(<, Nat)
    BY NatLessThanWellFounded, WFMin
  <1>2. \A y \in S : ~(y < m)
    BY <1>1 DEF OpToRel
  <1>3. \A y \in S : m <= y
    BY <1>2
  <1> QED
    BY <1>3 DEF Min

LEMMA ModeIsMode ==
    ASSUME NEW p \in Policies, NEW path, NEW rule PROVE ResolveRuleMode(p, path, rule) \in RuleModes
  <1> DEFINE naming == {i \in DOMAIN p.overrides :
                          path \in p.overrides[i].paths /\ rule \in DOMAIN p.overrides[i].modes}
  <1>1. IsPolicy(p)
    BY PipelineAssumption
  <1>2. naming \subseteq Nat
    BY <1>1 DEF IsPolicy
  <1>3. naming # {} => Min(naming) \in naming
    BY <1>2, LeastOverride
  <1>4. naming # {} => p.overrides[Min(naming)].modes[rule] \in RuleModes
    BY <1>1, <1>3 DEF IsPolicy
  <1>5. rule \in DOMAIN p.globals => p.globals[rule] \in RuleModes
    BY <1>1 DEF IsPolicy
  <1>6. ResolveRuleMode(p, path, rule) =
            IF naming # {} THEN p.overrides[Min(naming)].modes[rule]
            ELSE IF rule \in DOMAIN p.globals THEN p.globals[rule] ELSE "detect_only"
    BY DEF ResolveRuleMode
  <1> QED
    BY <1>4, <1>5, <1>6 DEF RuleModes

(* A contract a request was checked against is of a route with contracts.  *)
Typed(q) ==
    /\ q.pc \in Steps /\ q.mode \in PolicyModes /\ q.seen \subseteq Policies
    /\ \A f \in DOMAIN q.found : q.found[f] \in RuleModes
    /\ q.contract # Nothing => q.pc # "none" /\ q.input.route \in Routes

(* So is one that an event expected.                                       *)
TypeInv ==
    /\ RulesTypeOK
    /\ policy \in Policies
    /\ started \in [Sources -> Nat] /\ raced \subseteq Sources
    /\ changes \in 0 .. MaxChanges /\ faults \in 0 .. MaxFaults
    /\ \A r \in Requests : Typed(req[r])
    /\ \A e \in events : /\ e.request \in Requests
                         /\ e.expected # Nothing => req[e.request].input.route \in Routes

LEMMA BlankIsTyped == Typed(Blank)
  BY DEF Typed, Blank, Steps, PolicyModes, NoFindings

LEMMA EndsTyped ==
    ASSUME GoodInv, TypeInv, NEW r \in Requests, NEW outcome \in Answered, Ends(r, outcome)
    PROVE  Typed(req'[r])
  <1>1. /\ req'[r].pc = outcome /\ req'[r].mode = Blank.mode /\ req'[r].seen = Blank.seen
        /\ req'[r].found = Blank.found /\ req'[r].contract = Blank.contract
    BY DEF Ends, Fields
  <1>2. Blank.contract = Nothing
    BY DEF Blank
  <1> QED
    BY <1>1, <1>2, BlankIsTyped DEF Typed, Steps

LEMMA FindingTyped ==
    ASSUME TypeInv, NEW r \in Requests, NEW f
    PROVE  \A g \in DOMAIN WithFinding(r, f) : WithFinding(r, f)[g] \in RuleModes
  <1>1. ResolveRuleMode(policy, Path(r), Governing(f.rule)) \in RuleModes
    BY ModeIsMode DEF TypeInv
  <1>2. \A g \in DOMAIN req[r].found : req[r].found[g] \in RuleModes
    BY DEF TypeInv, Typed
  <1> QED
    BY <1>1, <1>2 DEF WithFinding

(* Every step of a request keeps its types and what it is.                 *)
LEMMA InspectionTyped ==
    ASSUME GoodInv, TypeInv, NEW r \in Requests,
           \/ SecurityMiddleware(r) \/ ResolveFinding(r) \/ AskAllowlists(r) \/ ShadowRoute(r)
           \/ FilterFindings(r) \/ CheckContract(r)
    PROVE  Typed(req'[r]) /\ req'[r].input = req[r].input
  <1>1. Typed(req[r])
    BY DEF TypeInv
  <1>2. CASE SecurityMiddleware(r)
    <2>1. CASE Ends(r, "turned away")
      <3>1. "turned away" \in Answered
        BY DEF Answered
      <3> QED
        BY <2>1, <3>1, EndsTyped DEF Ends
    <2>2. CASE req'[r].pc = Inspecting("request", req'[r].todo) /\ Kept(r, {"pc", "todo"})
      <3>1. req'[r].pc \in {"resolve", "source"}
        BY <2>2 DEF Inspecting
      <3> QED
        BY <1>1, <2>2, <3>1 DEF Typed, Kept, Fields, Steps, Asking
    <2> QED
      BY <1>2, <2>1, <2>2, FieldsOfSecurity
  <1>3. CASE ResolveFinding(r)
    <2>1. PICK f \in req[r].todo :
            /\ req'[r].found = WithFinding(r, f)
            /\ req'[r].pc = Inspecting(req[r].side, req'[r].todo)
            /\ Kept(r, {"pc", "todo", "found"})
      BY <1>3, FieldsOfResolving
    <2>2. req'[r].pc \in {"resolve", "source", "contract"}
      BY <2>1 DEF Inspecting
    <2>3. \A g \in DOMAIN req'[r].found : req'[r].found[g] \in RuleModes
      BY <2>1, FindingTyped
    <2> QED
      BY <1>1, <2>1, <2>2, <2>3 DEF Typed, Kept, Fields, Steps, Asking
  <1>4. CASE AskAllowlists(r)
    <2>1. req'[r].pc \in Asking \cup {"shadow", "filter"} /\ Kept(r, {"pc", "trusted"})
      BY <1>4, FieldsOfAsking
    <2> QED
      BY <1>1, <2>1 DEF Typed, Kept, Fields, Steps, Asking
  <1>5. CASE ShadowRoute(r)
    <2>1. \A g \in DOMAIN req'[r].found : req'[r].found[g] \in RuleModes
      BY <1>5, FieldsOfShadow, FindingTyped
    <2> QED
      BY <1>1, <1>5, <2>1, FieldsOfShadow DEF Typed, Kept, Fields, Steps
  <1>6. CASE FilterFindings(r)
    <2>1. PICK kept \in SUBSET DOMAIN req[r].found :
            /\ req'[r].found = [f \in kept |-> req[r].found[f]]
            /\ req'[r].pc = IF kept # {} THEN "score" ELSE Onwards(req[r].side)
            /\ Kept(r, {"pc", "found"})
      BY <1>6, FieldsOfFilter
    <2>2. req'[r].pc \in {"score", "forward", "deliver"}
      BY <2>1 DEF Onwards
    <2> QED
      BY <1>1, <2>1, <2>2 DEF Typed, Kept, Fields, Steps, Deciding
  <1>7. CASE CheckContract(r)
    <2>1. \A g \in DOMAIN req'[r].found : req'[r].found[g] \in RuleModes
      <3>1. CASE req'[r].found = req[r].found
        BY <1>1, <3>1 DEF Typed
      <3>2. CASE \E f : req'[r].found = WithFinding(r, f)
        BY <3>2, FindingTyped
      <3> QED
        BY <1>7, <3>1, <3>2, FieldsOfContract
    <2>2. req'[r].contract # Nothing => req[r].input.route \in Routes
      BY <1>7, FieldsOfContract DEF TypeInv, RulesTypeOK
    <2> QED
      BY <1>1, <1>7, <2>1, <2>2, FieldsOfContract DEF Typed, Kept, Fields, Steps
  <1> QED
    BY <1>2, <1>3, <1>4, <1>5, <1>6, <1>7

LEMMA DecisionTyped ==
    ASSUME GoodInv, TypeInv, NEW r \in Requests,
           \/ ReadScore(r) \/ ReadPolicyMode(r) \/ Decide(r) \/ RecordEvent(r)
           \/ ChargeStep(r) \/ FinalizeBlockingDecision(r) \/ Forward(r) \/ Deliver(r)
    PROVE  Typed(req'[r]) /\ req'[r].input = req[r].input
  <1>1. Typed(req[r]) /\ policy.mode \in PolicyModes
    BY PipelineAssumption DEF TypeInv, IsPolicy
  <1>2. CASE ReadScore(r) \/ RecordEvent(r) \/ ChargeStep(r)
    <2>1. /\ req'[r].pc \in {"mode", "charge", "first charge", "mitigate", Onwards(req[r].side)}
          /\ Kept(r, {"pc", "score"})
      BY <1>2, FieldsOfDeciding DEF Kept
    <2>2. req'[r].pc \in Steps \ {"none"}
      BY <2>1 DEF Steps, Deciding, Onwards
    <2> QED
      BY <1>1, <2>1, <2>2 DEF Typed, Kept, Fields
  <1>3. CASE ReadPolicyMode(r)
    BY <1>1, <1>3, FieldsOfDeciding DEF Typed, Kept, Fields, Steps, Deciding
  <1>4. CASE Decide(r)
    BY <1>1, <1>4, FieldsOfDeciding DEF Typed, Kept, Fields, Steps, Deciding, PolicyModes
  <1>5. ASSUME NEW outcome \in Answered, Ends(r, outcome)
        PROVE  Typed(req'[r]) /\ req'[r].input = req[r].input
    BY <1>5, EndsTyped DEF Ends
  <1>6. CASE FinalizeBlockingDecision(r) \/ Deliver(r)
    BY <1>5, <1>6, FieldsOfAnswers DEF Answered
  <1>7. CASE Forward(r)
    <2>1. ASSUME req'[r].found = NoFindings, req'[r].pc \in {"resolve", "contract"},
                 Kept(r, {"pc", "side", "response", "todo", "found", "decision"})
          PROVE  Typed(req'[r]) /\ req'[r].input = req[r].input
      BY <1>1, <2>1 DEF Typed, Kept, Fields, Steps, NoFindings
    <2>2. "failed" \in Answered
      BY DEF Answered
    <2> QED
      BY <1>5, <1>7, <2>1, <2>2, FieldsOfForwarding
  <1> QED
    BY <1>2, <1>3, <1>4, <1>6, <1>7

LEMMA ArrivalTyped ==
    ASSUME GoodInv, TypeInv, NEW r \in Requests, RequestContextMiddleware(r)
    PROVE  Typed(req'[r]) /\ \A e \in events : e.request # r
  <1>1. Typed(req[r]) /\ policy \in Policies
    BY DEF TypeInv
  <1>2. req[r].pc = "none"
    BY DEF RequestContextMiddleware
  <1>3. \A e \in events : e.request # r
    BY <1>2 DEF GoodInv, Early
  <1>4. CASE Ends(r, "failed")
    <2>1. "failed" \in Answered
      BY DEF Answered
    <2> QED
      BY <1>3, <1>4, <2>1, EndsTyped
  <1>5. CASE req'[r].pc = "check" /\ req'[r].seen = {policy} /\ Kept(r, {"pc", "input", "seen", "hushed"})
    BY <1>1, <1>2, <1>3, <1>5 DEF Typed, Kept, Fields, Steps
  <1> QED
    BY <1>4, <1>5, FieldsOfArrival

(* What no step of a request changes, and how far failures are counted.    *)
LEMMA AroundSteps ==
    ASSUME NEW r \in Requests, Proceed(r), faults \in 0 .. MaxFaults
    PROVE  /\ UNCHANGED <<rules, policy, changes, started>>
           /\ faults' \in 0 .. MaxFaults
           /\ RecordEvent(r) \/ events' = events
           /\ ChargeStep(r) \/ UNCHANGED <<reputation, raced>>
  <1>1. Succeeds \/ Fails => faults' \in 0 .. MaxFaults
    BY PipelineAssumption DEF Succeeds, Fails
  <1>2. CASE RequestContextMiddleware(r) \/ SecurityMiddleware(r) \/ ResolveFinding(r)
    BY <1>1, <1>2 DEF RequestContextMiddleware, SecurityMiddleware, ResolveFinding, world
  <1>3. CASE AskAllowlists(r) \/ ShadowRoute(r) \/ FilterFindings(r)
    BY <1>1, <1>3 DEF AskAllowlists, Ask, ShadowRoute, FilterFindings, world
  <1>4. CASE ReadScore(r) \/ ReadPolicyMode(r) \/ Decide(r)
    BY <1>1, <1>4 DEF ReadScore, ReadPolicyMode, Decide, world
  <1>5. CASE RecordEvent(r) \/ ChargeStep(r) \/ FinalizeBlockingDecision(r)
    BY <1>1, <1>5, ChargeSteps DEF RecordEvent, FinalizeBlockingDecision
  <1>6. CASE Forward(r) \/ CheckContract(r) \/ Deliver(r)
    <2>1. Succeeds \/ Fails
      BY <1>6 DEF Forward, CheckContract, Deliver
    <2>2. UNCHANGED world
      BY <1>6 DEF Forward, CheckContract, Deliver
    <2> QED
      BY <1>1, <2>1, <2>2 DEF world
  <1> QED
    BY <1>2, <1>3, <1>4, <1>5, <1>6 DEF Proceed, ChargeStep

(* The tables hold rows that may be written, contracts those of routes.    *)
LEMMA EditedAllowlists ==
    ASSUME RulesTypeOK, EditAllowlists PROVE RulesTypeOK'
  <1>1. ASSUME NEW s \in ListedSources, UpsertSourceAllowlist(s) \/ DeleteSourceAllowlist(s)
        PROVE  RulesTypeOK'
    BY <1>1 DEF RulesTypeOK, UpsertSourceAllowlist, DeleteSourceAllowlist, UpsertSourceRow, DeleteSourceRow
  <1>2. ASSUME NEW p \in PrincipalPrefixes, UpsertPrincipalAllowlist(p) \/ DeletePrincipalAllowlist(p)
        PROVE  RulesTypeOK'
    BY <1>2 DEF RulesTypeOK, UpsertPrincipalAllowlist, DeletePrincipalAllowlist,
                UpsertPrincipalRow, DeletePrincipalRow
  <1>3. ASSUME NEW s \in ListedSources, NEW prefix \in PathPrefixes,
               UpsertScopedSourceAllowlist(s, prefix) \/ DeleteScopedSourceAllowlist(s, prefix)
        PROVE  RulesTypeOK'
    BY <1>3 DEF RulesTypeOK, UpsertScopedSourceAllowlist, DeleteScopedSourceAllowlist,
                UpsertScopedSourceRow, DeleteScopedSourceRow
  <1>4. ASSUME NEW p \in PrincipalPrefixes, NEW prefix \in PathPrefixes,
               UpsertScopedPrincipalAllowlist(p, prefix) \/ DeleteScopedPrincipalAllowlist(p, prefix)
        PROVE  RulesTypeOK'
    BY <1>4 DEF RulesTypeOK, UpsertScopedPrincipalAllowlist, DeleteScopedPrincipalAllowlist,
                UpsertScopedPrincipalRow, DeleteScopedPrincipalRow
  <1>5. ASSUME NEW s \in ListedSources, NEW p \in PrincipalPrefixes, NEW prefix \in PathPrefixes,
               UpsertTriScopedAllowlist(s, p, prefix) \/ DeleteTriScopedAllowlist(s, p, prefix)
        PROVE  RulesTypeOK'
    BY <1>5 DEF RulesTypeOK, UpsertTriScopedAllowlist, DeleteTriScopedAllowlist,
                UpsertTriScopedRow, DeleteTriScopedRow
  <1> QED
    BY <1>1, <1>2, <1>3, <1>4, <1>5 DEF EditAllowlists

LEMMA EditedRules ==
    ASSUME RulesTypeOK, EditRules PROVE RulesTypeOK'
  <1>1. ASSUME NEW rule \in SuppressibleRules, NEW prefix \in PathPrefixes,
               UpsertAnalystSuppression(rule, prefix) \/ DeleteAnalystSuppression(rule, prefix)
        PROVE  RulesTypeOK'
    BY <1>1 DEF RulesTypeOK, UpsertAnalystSuppression, DeleteAnalystSuppression,
                UpsertSuppressionRow, DeleteSuppressionRow, allowlists
  <1>2. ASSUME NEW route \in Routes, NEW c, UpsertResponseContract(route, c) \/ ApproveResponseContract(route, c)
        PROVE  RulesTypeOK'
    BY <1>2 DEF RulesTypeOK, UpsertResponseContract, ApproveResponseContract, UpsertContractRow, allowlists
  <1>3. ASSUME NEW route \in Routes, DeleteResponseContract(route)
        PROVE  RulesTypeOK'
    BY <1>3 DEF RulesTypeOK, DeleteResponseContract, DeleteContractRow, allowlists
  <1> QED
    BY <1>1, <1>2, <1>3, EditedAllowlists DEF EditRules

LEMMA ApprovedContract ==
    ASSUME RulesTypeOK, NEW route \in Routes, NEW expected, NEW response,
           ApproveResponseContractFromEvent(route, expected, response)
    PROVE  RulesTypeOK'
  BY DEF RulesTypeOK, ApproveResponseContractFromEvent, UpsertContractRow, allowlists

(* Operators keep the types of the tables and of what is under way.        *)
LEMMA OperatorsTyped ==
    ASSUME GoodInv, TypeInv, ChangePolicy \/ ChangeRules \/ ApproveFromEvent \/ LiftBan
    PROVE  TypeInv'
  <1>1. changes' \in 0 .. MaxChanges
    BY PipelineAssumption DEF TypeInv, Changed, ChangePolicy, ChangeRules, ApproveFromEvent, LiftBan
  <1>2. UNCHANGED <<faults, events, started, raced>> /\ policy' \in Policies
    BY DEF TypeInv, ChangePolicy, ChangeRules, ApproveFromEvent, LiftBan, Succeeds
  <1>3. RulesTypeOK'
    <2>1. CASE ChangeRules
      BY <2>1, EditedRules DEF TypeInv, ChangeRules
    <2>2. CASE ApproveFromEvent
      BY <2>2, ApprovedContract DEF TypeInv, ApproveFromEvent
    <2>3. CASE ChangePolicy \/ LiftBan
      BY <2>3 DEF TypeInv, ChangePolicy, LiftBan, rules, allowlists, RulesTypeOK
    <2> QED
      BY <2>1, <2>2, <2>3
  <1>4. \A r \in Requests : Typed(req'[r]) /\ req'[r].input = req[r].input
    <2> SUFFICES ASSUME NEW r \in Requests PROVE Typed(req'[r]) /\ req'[r].input = req[r].input
      OBVIOUS
    <2>1. Shaped(req[r]) /\ Typed(req[r])
      BY DEF GoodInv, Good, TypeInv
    <2>2. CASE ChangePolicy
      <3>1. PICK p \in Policies : req'[r] = IF InFlight(r) THEN [req[r] EXCEPT !.seen = @ \cup {p}] ELSE req[r]
        BY <2>2 DEF ChangePolicy
      <3> QED
        BY <2>1, <3>1 DEF Shaped, Fields, Typed
    <2>3. CASE ChangeRules
      <3>1. req'[r] = IF InFlight(r) THEN [req[r] EXCEPT !.hushed = @ \cup suppressions'] ELSE req[r]
        BY <2>3 DEF ChangeRules
      <3> QED
        BY <2>1, <3>1 DEF Shaped, Fields, Typed
    <2>4. CASE ApproveFromEvent \/ LiftBan
      BY <2>1, <2>4 DEF ApproveFromEvent, LiftBan
    <2> QED
      BY <2>2, <2>3, <2>4
  <1>5. \A e \in events' : /\ e.request \in Requests
                           /\ e.expected # Nothing => req'[e.request].input.route \in Routes
    BY <1>2, <1>4 DEF TypeInv
  <1> QED
    BY <1>1, <1>2, <1>3, <1>4, <1>5 DEF TypeInv

LEMMA RecordedEventTyped ==
    ASSUME GoodInv, TypeInv, NEW r \in Requests, RecordEvent(r)
    PROVE  \A e \in events' \ events :
              e.request = r /\ (e.expected # Nothing => req[r].input.route \in Routes)
  <1>1. PICK stored \in BOOLEAN : events' = events \cup {Event(r, stored)}
    BY DEF RecordEvent
  <1>2. Event(r, stored).request = r /\ Event(r, stored).expected \in {req[r].contract, Nothing}
    BY DEF Event
  <1> QED
    BY <1>1, <1>2 DEF TypeInv, Typed

LEMMA TypesKept == GoodInv /\ TypeInv /\ [Next]_vars => TypeInv'
<1> SUFFICES ASSUME GoodInv, TypeInv, [Next]_vars PROVE TypeInv'
  OBVIOUS
<1>1. ASSUME NEW r \in Requests, Proceed(r) PROVE TypeInv'
  <2>1. /\ UNCHANGED <<rules, policy, changes, started>> /\ faults' \in 0 .. MaxFaults
        /\ RecordEvent(r) \/ events' = events
    BY <1>1, AroundSteps DEF TypeInv
  <2>7. raced' \subseteq Sources
    <3>1. Source(r) \in Sources
      BY PipelineAssumption DEF GoodInv, Good, Source
    <3>2. raced' \subseteq raced \cup {Source(r)}
      BY <1>1, AroundSteps, ChargeSteps DEF TypeInv
    <3> QED
      BY <3>1, <3>2 DEF TypeInv
  <2>2. RulesTypeOK'
    BY <2>1 DEF TypeInv, RulesTypeOK, rules, allowlists
  <2>3. Typed(req'[r]) /\ (req'[r].input = req[r].input \/ \A e \in events' : e.request # r)
    <3>1. CASE RequestContextMiddleware(r)
      BY <3>1, ArrivalTyped DEF RequestContextMiddleware, world
    <3> QED
      BY <1>1, <3>1, InspectionTyped, DecisionTyped DEF Proceed, ChargeStep
  <2>4. \A s \in Requests \ {r} : req'[s] = req[s]
    BY <1>1, OthersKept
  <2>5. \A e \in events' : /\ e.request \in Requests
                           /\ e.expected # Nothing => req'[e.request].input.route \in Routes
    <3>1. \A e \in events' : /\ e.request \in Requests
                             /\ e.expected # Nothing => req[e.request].input.route \in Routes
      BY <2>1, RecordedEventTyped DEF TypeInv
    <3> QED
      BY <2>3, <2>4, <3>1
  <2>6. \A s \in Requests : Typed(req'[s])
    BY <2>3, <2>4 DEF TypeInv
  <2> QED
    BY <2>1, <2>2, <2>5, <2>6, <2>7 DEF TypeInv
<1>2. CASE UNCHANGED vars
  BY <1>2 DEF vars, rules, allowlists, TypeInv, Typed, RulesTypeOK
<1> QED
  BY <1>1, <1>2, OperatorsTyped DEF Next

LEMMA TypesFromTheStart == Spec => []TypeInv
<1>1. Init => TypeInv
  <2> SUFFICES ASSUME Init PROVE TypeInv
    OBVIOUS
  <2>1. RulesTypeOK
    BY DEF Init, StartTables, RulesTypeOK
  <2>2. policy \in Policies /\ started \in [Sources -> Nat] /\ raced = {} /\ events = {}
    BY PipelineAssumption DEF Init
  <2>3. changes \in 0 .. MaxChanges /\ faults \in 0 .. MaxFaults
    BY PipelineAssumption DEF Init
  <2>4. \A r \in Requests : Typed(req[r])
    BY BlankIsTyped DEF Init
  <2> QED
    BY <2>1, <2>2, <2>3, <2>4 DEF TypeInv
<1> QED
  BY <1>1, TypesKept, GoodFromTheStart, PTL DEF Spec

(* Requests, tables and counters keep their types: every mode a finding is *)
(* given is a mode, and an approval writes contracts of known routes only. *)
THEOREM TypeCorrect == Spec => []TypeOK
<1>1. GoodInv /\ TypeInv => TypeOK
  BY DEF GoodInv, Good, Sided, TypeInv, Typed, TypeOK
<1> QED
  BY <1>1, GoodFromTheStart, TypesFromTheStart, PTL
-----------------------------------------------------------------------------
(* What findings are worth: disjoint sets add up, and each finding of an   *)
(* event is worth the same with its event beside it.                       *)
OfSeverity(fs, severity) == {f \in fs : f.severity = severity}

LEMMA DeltaIs ==
    ASSUME NEW fs
    PROVE  ReputationDelta(fs) =
              Cardinality(OfSeverity(fs, "low")) + 2 * Cardinality(OfSeverity(fs, "medium"))
              + 4 * Cardinality(OfSeverity(fs, "high")) + 6 * Cardinality(OfSeverity(fs, "critical"))
  BY DEF ReputationDelta, OfSeverity

LEMMA DeltaOfNothing == ReputationDelta({}) = 0
  <1>1. \A severity : OfSeverity({}, severity) = {}
    BY DEF OfSeverity
  <1> QED
    BY <1>1, DeltaIs, FS_EmptySet

LEMMA DeltaAdds ==
    ASSUME NEW A, NEW B, IsFiniteSet(A), IsFiniteSet(B), A \cap B = {}
    PROVE  ReputationDelta(A \cup B) = ReputationDelta(A) + ReputationDelta(B)
  <1>1. ASSUME NEW severity
        PROVE  /\ Cardinality(OfSeverity(A, severity)) \in Nat
               /\ Cardinality(OfSeverity(B, severity)) \in Nat
               /\ Cardinality(OfSeverity(A \cup B, severity)) =
                      Cardinality(OfSeverity(A, severity)) + Cardinality(OfSeverity(B, severity))
    <2> DEFINE a == OfSeverity(A, severity)
               b == OfSeverity(B, severity)
    <2>1. IsFiniteSet(a) /\ IsFiniteSet(b)
      BY FS_Subset DEF OfSeverity
    <2>2. OfSeverity(A \cup B, severity) = a \cup b /\ a \cap b = {}
      BY DEF OfSeverity
    <2> HIDE DEF a, b
    <2>3. Cardinality(a) \in Nat /\ Cardinality(b) \in Nat
      BY <2>1, FS_CardinalityType
    <2>4. Cardinality(a \cup b) = Cardinality(a) + Cardinality(b) - 0
      BY <2>1, <2>2, FS_Union, FS_EmptySet
    <2>5. Cardinality(a \cup b) = Cardinality(a) + Cardinality(b)
      BY <2>3, <2>4
    <2> QED
      BY <2>2, <2>3, <2>5 DEF a, b
  <1> DEFINE a(severity) == Cardinality(OfSeverity(A, severity))
             b(severity) == Cardinality(OfSeverity(B, severity))
             both(severity) == Cardinality(OfSeverity(A \cup B, severity))
  <1>2. \A severity : /\ a(severity) \in Nat /\ b(severity) \in Nat
                      /\ both(severity) = a(severity) + b(severity)
    BY <1>1
  <1>3. /\ ReputationDelta(A) = a("low") + 2 * a("medium") + 4 * a("high") + 6 * a("critical")
        /\ ReputationDelta(B) = b("low") + 2 * b("medium") + 4 * b("high") + 6 * b("critical")
        /\ ReputationDelta(A \cup B) =
               both("low") + 2 * both("medium") + 4 * both("high") + 6 * both("critical")
    BY DeltaIs
  <1> HIDE DEF a, b, both
  <1> QED
    BY <1>2, <1>3

LEMMA DeltaOfEvent ==
    ASSUME NEW e, IsFiniteSet(e.findings)
    PROVE  /\ IsFiniteSet(FindingsOf(e))
           /\ ReputationDelta(FindingsOf(e)) = ReputationDelta(e.findings)
  <1> DEFINE Tagged(f) == [severity |-> f.severity, finding |-> f, event |-> e]
  <1>1. ASSUME NEW fs \in SUBSET e.findings
        PROVE  /\ IsFiniteSet({Tagged(f) : f \in fs})
               /\ Cardinality({Tagged(f) : f \in fs}) = Cardinality(fs)
    <2> DEFINE T == {Tagged(f) : f \in fs}
               F == [f \in fs |-> Tagged(f)]
    <2>1. F \in [fs -> T] /\ \A t \in T : \E f \in fs : F[f] = t
      OBVIOUS
    <2>2. \A f, g \in fs : F[f] = F[g] => f = g
      OBVIOUS
    <2>3. F \in Bijection(fs, T)
      BY <2>1, <2>2, Fun_IsBij
    <2>4. ExistsBijection(fs, T)
      BY <2>3, Fun_ExistsBij
    <2>5. IsFiniteSet(fs)
      BY FS_Subset
    <2> QED
      BY <2>4, <2>5, FS_Bijection
  <1>2. FindingsOf(e) = {Tagged(f) : f \in e.findings}
    BY DEF FindingsOf
  <1>3. \A severity : OfSeverity(FindingsOf(e), severity) = {Tagged(f) : f \in OfSeverity(e.findings, severity)}
    BY DEF FindingsOf, OfSeverity
  <1>4. \A severity : Cardinality(OfSeverity(FindingsOf(e), severity)) =
                      Cardinality(OfSeverity(e.findings, severity))
    BY <1>1, <1>3 DEF OfSeverity
  <1> QED
    BY <1>1, <1>2, <1>4, DeltaIs

LEMMA WorthOfNothing == Worth({}) = 0
  <1>1. UNION {FindingsOf(e) : e \in {}} = {}
    OBVIOUS
  <1> QED
    BY <1>1, DeltaOfNothing DEF Worth

LEMMA WorthOfOne ==
    ASSUME NEW e, IsFiniteSet(e.findings) PROVE Worth({e}) = ReputationDelta(e.findings)
  <1>1. UNION {FindingsOf(x) : x \in {e}} = FindingsOf(e)
    OBVIOUS
  <1> QED
    BY <1>1, DeltaOfEvent DEF Worth

LEMMA WorthAdds ==
    ASSUME NEW kept, NEW e, e \notin kept, IsFiniteSet(UNION {FindingsOf(x) : x \in kept}),
           IsFiniteSet(e.findings)
    PROVE  Worth(kept \cup {e}) = Worth(kept) + ReputationDelta(e.findings)
  <1> DEFINE all == UNION {FindingsOf(x) : x \in kept}
  <1>1. UNION {FindingsOf(x) : x \in kept \cup {e}} = all \cup FindingsOf(e)
    OBVIOUS
  <1>2. all \cap FindingsOf(e) = {}
    BY DEF FindingsOf
  <1> HIDE DEF all
  <1>3. ReputationDelta(all \cup FindingsOf(e)) = ReputationDelta(all) + ReputationDelta(FindingsOf(e))
    BY <1>2, DeltaAdds, DeltaOfEvent DEF all
  <1> QED
    BY <1>1, <1>3, DeltaOfEvent DEF Worth, all

(* The findings that have been charged to a source.                        *)
Accounted(s) == UNION {FindingsOf(e) : e \in Charged(s)}

(* These events are what a score consists of.                              *)
AddsUp(kept, charged, score, start, lossy) ==
    /\ kept \subseteq charged
    /\ score = start + Worth(kept)
    /\ lossy \/ kept = charged
    /\ charged # {} => kept # {}

LEMMA AddingUp ==
    ChargesAddUp <=> \A s \in Sources : \E kept :
                        AddsUp(kept, Charged(s), reputation[s], started[s], s \in raced)
  BY DEF ChargesAddUp, AddsUp

(* Steps before the event of the side that is inspected.                   *)
Unrecorded(q) == q.pc \notin Answered \cup {"charge", "first charge", "mitigate", "forward", "deliver"}

Charging(q) == q.pc \in {"charge", "first charge"}

(* A side has one event, which is there when it is charged, and none       *)
(* before.                                                                 *)
Billed(r, q, log) ==
    /\ q.pc \notin Answered /\ q.side = "request" => \A e \in log : e.request = r => e.side = "request"
    /\ Unrecorded(q) => \A e \in log : e.request = r => e.side # q.side
    /\ Charging(q) =>
         \E e \in log : /\ e.request = r /\ e.side = q.side /\ e.source = q.input.source
                        /\ e.findings = DOMAIN q.found
                        /\ \A x \in log : x.request = r /\ x.side = q.side => x = e

(* A source whose charge is to be inserted had no score when it was looked *)
(* for, and has none still unless another's was looked for, too.           *)
FirstInv ==
    /\ \A r \in Requests : req[r].pc = "first charge" =>
         /\ started[Source(r)] = 0
         /\ Source(r) \in raced \/ reputation[Source(r)] = 0
    /\ \A r, o \in Requests :
         r # o /\ req[r].pc = "first charge" /\ req[o].pc = "first charge" /\ Source(r) = Source(o)
         => Source(r) \in raced

ChargeInv ==
    /\ ChargesAddUp /\ FirstInv
    /\ \A s \in Sources : IsFiniteSet(Accounted(s))
    /\ \A r \in Requests : Billed(r, req[r], events)

LEMMA EndsBilled ==
    ASSUME NEW r \in Requests, NEW outcome \in Answered, Ends(r, outcome)
    PROVE  Billed(r, req'[r], events) /\ ~Charging(req'[r])
  BY DEF Billed, Ends, Unrecorded, Answered, Charging

LEMMA SameSideBilled ==
    ASSUME NEW r, NEW old, NEW q, NEW log, Billed(r, old, log), old.pc \notin Answered,
           q.side = old.side, Unrecorded(q) => Unrecorded(old), ~Charging(q)
    PROVE  Billed(r, q, log)
  BY DEF Billed

(* Every step but the recording and the charging of an event.              *)
LEMMA MovesBilled ==
    ASSUME GoodInv, ChargeInv, NEW r \in Requests, Proceed(r),
           ~RecordEvent(r), ~ChargeStep(r)
    PROVE  /\ ~Charging(req[r]) /\ ~Charging(req'[r])
           /\ Billed(r, req'[r], events)
  <1>1. Billed(r, req[r], events)
    BY DEF ChargeInv
  <1>2. Good(req[r])
    BY DEF GoodInv
  <1>3. ASSUME req[r].pc \notin Answered \cup {"charge", "first charge"}, req'[r].side = req[r].side,
               Unrecorded(req'[r]) => Unrecorded(req[r]), ~Charging(req'[r])
        PROVE  /\ ~Charging(req[r]) /\ ~Charging(req'[r])
               /\ Billed(r, req'[r], events)
    BY <1>1, <1>3, SameSideBilled DEF Charging
  <1>4. CASE RequestContextMiddleware(r)
    <2>1. req[r].pc = "none" /\ "failed" \in Answered
      BY <1>4 DEF RequestContextMiddleware, Answered
    <2>2. CASE Ends(r, "failed")
      BY <2>1, <2>2, EndsBilled DEF Charging
    <2>3. CASE req'[r].pc = "check" /\ Kept(r, {"pc", "input", "seen", "hushed"})
      BY <1>3, <2>1, <2>3 DEF Kept, Fields, Unrecorded, Answered, Charging
    <2> QED
      BY <1>4, <2>2, <2>3, FieldsOfArrival
  <1>5. CASE SecurityMiddleware(r)
    <2>1. req[r].pc = "check" /\ "turned away" \in Answered
      BY <1>5 DEF SecurityMiddleware, Answered
    <2>2. CASE Ends(r, "turned away")
      BY <2>1, <2>2, EndsBilled DEF Charging
    <2>3. CASE req'[r].pc = Inspecting("request", req'[r].todo) /\ Kept(r, {"pc", "todo"})
      BY <1>3, <2>1, <2>3 DEF Kept, Fields, Unrecorded, Answered, Inspecting, Charging
    <2> QED
      BY <1>5, <2>2, <2>3, FieldsOfSecurity
  <1>6. CASE ResolveFinding(r)
    <2>1. req[r].pc = "resolve"
      BY <1>6 DEF ResolveFinding
    <2>2. req'[r].pc \in {"resolve", "source", "contract"} /\ req'[r].side = req[r].side
      BY <1>6, FieldsOfResolving DEF Kept, Fields, Inspecting
    <2> QED
      BY <1>3, <2>1, <2>2 DEF Unrecorded, Answered, Charging
  <1>7. CASE AskAllowlists(r)
    BY <1>3, <1>7, FieldsOfAsking DEF Kept, Fields, Unrecorded, Answered, Asking, Charging
  <1>8. CASE ShadowRoute(r) \/ CheckContract(r)
    <2>1. req[r].pc \in {"shadow", "contract"}
      BY <1>8 DEF ShadowRoute, CheckContract
    <2>2. req'[r].pc = "filter" /\ req'[r].side = req[r].side
      BY <1>8, FieldsOfShadow, FieldsOfContract DEF Kept, Fields
    <2> QED
      BY <1>3, <2>1, <2>2 DEF Unrecorded, Answered, Charging
  <1>9. CASE FilterFindings(r)
    <2>1. req[r].pc = "filter"
      BY <1>9 DEF FilterFindings
    <2>2. req'[r].pc \in {"score", "forward", "deliver"} /\ req'[r].side = req[r].side
      BY <1>9, FieldsOfFilter DEF Kept, Fields, Onwards
    <2> QED
      BY <1>3, <2>1, <2>2 DEF Unrecorded, Answered, Charging
  <1>10. CASE ReadScore(r) \/ ReadPolicyMode(r) \/ Decide(r)
    <2>1. req[r].pc \in {"score", "mode", "decide"}
      BY <1>10 DEF ReadScore, ReadPolicyMode, Decide
    <2>2. req'[r].pc \in {"mode", "decide", "record"} /\ req'[r].side = req[r].side
      BY <1>10, FieldsOfDeciding DEF Kept, Fields
    <2> QED
      BY <1>3, <2>1, <2>2 DEF Unrecorded, Answered, Charging
  <1>11. CASE FinalizeBlockingDecision(r) \/ Deliver(r)
    <2>1. ~Charging(req[r])
      BY <1>11 DEF FinalizeBlockingDecision, Deliver, Charging
    <2>2. PICK outcome \in Answered : Ends(r, outcome)
      BY <1>11, FieldsOfAnswers DEF Answered
    <2> QED
      BY <2>1, <2>2, EndsBilled
  <1>12. CASE Forward(r)
    <2>1. req[r].pc = "forward" /\ req[r].side = "request" /\ "failed" \in Answered
      BY <1>2, <1>12 DEF Forward, Answered, Good, Sided
    <2>2. CASE Ends(r, "failed")
      BY <2>1, <2>2, EndsBilled DEF Charging
    <2>3. CASE req'[r].side = "response" /\ req'[r].pc \in {"resolve", "contract"}
      BY <1>1, <2>1, <2>3 DEF Billed, Unrecorded, Answered, Charging
    <2> QED
      BY <1>12, <2>2, <2>3, FieldsOfForwarding
  <1> QED
    BY <1>4, <1>5, <1>6, <1>7, <1>8, <1>9, <1>10, <1>11, <1>12 DEF Proceed, ChargeStep

(* Where the same events are charged nothing needs to be added.            *)
LEMMA SameAccount ==
    ASSUME ChargeInv, UNCHANGED <<reputation, started>>, raced \subseteq raced',
           \A s \in Sources : Charged(s)' = Charged(s)
    PROVE  ChargesAddUp' /\ \A s \in Sources : IsFiniteSet(Accounted(s))'
  BY DEF ChargeInv, ChargesAddUp, Accounted

(* Nor where none begins an insertion.                                     *)
LEMMA SameFirst ==
    ASSUME FirstInv, UNCHANGED <<reputation, started, raced>>,
           \A r \in Requests : req'[r].pc = "first charge" =>
              req[r].pc = "first charge" /\ req'[r].input = req[r].input
    PROVE  FirstInv'
  BY DEF FirstInv, Source

LEMMA MovingCharges ==
    ASSUME GoodInv, TypeInv, ChargeInv, NEW r \in Requests, Proceed(r),
           ~RecordEvent(r), ~ChargeStep(r)
    PROVE  ChargeInv'
  <1>1. UNCHANGED <<events, reputation, started, raced>>
    BY AroundSteps DEF TypeInv
  <1>2. \A s \in Requests \ {r} : req'[s] = req[s]
    BY OthersKept
  <1>3. /\ ~Charging(req[r]) /\ ~Charging(req'[r])
        /\ Billed(r, req'[r], events)
    BY MovesBilled
  <1>4. \A s \in Sources : Charged(s)' = Charged(s)
    BY <1>1, <1>2, <1>3 DEF Charged, TypeInv, Charging
  <1>5. \A s \in Requests : Billed(s, req'[s], events')
    BY <1>1, <1>2, <1>3 DEF ChargeInv
  <1>6. FirstInv'
    BY <1>1, <1>2, <1>3, SameFirst DEF ChargeInv, Charging
  <1> QED
    BY <1>1, <1>4, <1>5, <1>6, SameAccount DEF ChargeInv

(* An event is new when it is recorded, and is not charged before the next *)
(* step.                                                                   *)
LEMMA RecordingCharges ==
    ASSUME GoodInv, TypeInv, ChargeInv, NEW r \in Requests, RecordEvent(r)
    PROVE  ChargeInv'
  <1>1. UNCHANGED <<reputation, started, raced>> /\ req[r].pc = "record"
    BY DEF RecordEvent
  <1>2. \A s \in Requests \ {r} : req'[s] = req[s]
    BY OthersKept DEF Proceed
  <1>3. req'[r].pc = "charge" /\ Kept(r, {"pc"})
    BY FieldsOfDeciding
  <1>4. req'[r].side = req[r].side /\ req'[r].input = req[r].input /\ req'[r].found = req[r].found
    BY <1>3 DEF Kept, Fields
  <1>5. PICK e : /\ events' = events \cup {e}
                 /\ e.request = r /\ e.side = req[r].side /\ e.source = req[r].input.source
                 /\ e.findings = DOMAIN req[r].found
    <2>1. PICK stored \in BOOLEAN : events' = events \cup {Event(r, stored)}
      BY DEF RecordEvent
    <2>2. /\ Event(r, stored).request = r /\ Event(r, stored).side = req[r].side
          /\ Event(r, stored).source = req[r].input.source
          /\ Event(r, stored).findings = DOMAIN req[r].found
      BY DEF Event, Source
    <2> QED
      BY <2>1, <2>2
  <1>6. Billed(r, req[r], events) /\ Unrecorded(req[r])
    BY <1>1 DEF ChargeInv, Unrecorded, Answered
  <1>7. \A x \in events : x.request = r => x.side # req[r].side
    BY <1>6 DEF Billed
  <1>8. \A s \in Sources : Charged(s)' = Charged(s)
    <2> SUFFICES ASSUME NEW s \in Sources PROVE Charged(s)' = Charged(s)
      OBVIOUS
    <2>1. e \notin Charged(s)'
      BY <1>3, <1>4, <1>5 DEF Charged
    <2>2. \A x \in events : x \in Charged(s)' <=> x \in Charged(s)
      BY <1>1, <1>2, <1>3, <1>4, <1>5, <1>7 DEF Charged, TypeInv
    <2> QED
      BY <1>5, <2>1, <2>2 DEF Charged
  <1>9. ASSUME NEW s \in Requests PROVE Billed(s, req'[s], events')
    <2>1. CASE s = r
      <3>1. \A x \in events' : x.request = r /\ x.side = req[r].side => x = e
        BY <1>5, <1>7
      <3>2. req[r].side = "request" => \A x \in events' : x.request = r => x.side = "request"
        BY <1>1, <1>5, <1>6 DEF Billed, Answered
      <3>3. req'[r].pc = "charge" /\ ~Unrecorded(req'[r])
        BY <1>3 DEF Unrecorded
      <3>4. Billed(r, req'[r], events')
        BY <1>4, <1>5, <3>1, <3>2, <3>3 DEF Billed
      <3> QED
        BY <2>1, <3>4
    <2>2. CASE s # r
      <3>1. Billed(s, req[s], events) /\ req'[s] = req[s]
        BY <1>2, <2>2 DEF ChargeInv
      <3> QED
        BY <1>5, <2>2, <3>1 DEF Billed
    <2> QED
      BY <2>1, <2>2
  <1>10. FirstInv'
    BY <1>1, <1>2, <1>3, SameFirst DEF ChargeInv
  <1> QED
    BY <1>1, <1>8, <1>9, <1>10, SameAccount DEF ChargeInv

(* What becomes of a score when an event is charged: the event is added to *)
(* those it consists of, or is left as the only one of them.               *)
LEMMA ChargeAddsUp ==
    ASSUME NEW kept, NEW charged, NEW e, e \notin charged, NEW score \in Nat, NEW start \in Nat, NEW lossy,
           AddsUp(kept, charged, score, start, lossy),
           IsFiniteSet(UNION {FindingsOf(x) : x \in charged}), IsFiniteSet(e.findings)
    PROVE  /\ AddsUp(kept \cup {e}, charged \cup {e}, score + ReputationDelta(e.findings), start, lossy)
           /\ lossy /\ start = 0 => AddsUp({e}, charged \cup {e}, ReputationDelta(e.findings), start, lossy)
  <1>1. IsFiniteSet(UNION {FindingsOf(x) : x \in kept})
    <2>1. UNION {FindingsOf(x) : x \in kept} \subseteq UNION {FindingsOf(x) : x \in charged}
      BY DEF AddsUp
    <2> QED
      BY <2>1, FS_Subset
  <1>2. Worth(kept) \in Nat /\ ReputationDelta(e.findings) \in Nat
    BY <1>1, DeltaIsNatural DEF Worth
  <1>3. Worth(kept \cup {e}) = Worth(kept) + ReputationDelta(e.findings)
    BY <1>1, WorthAdds DEF AddsUp
  <1>4. Worth({e}) = ReputationDelta(e.findings)
    BY WorthOfOne
  <1> QED
    BY <1>2, <1>3, <1>4 DEF AddsUp

(* A score of 0 was 0 from the start.                                      *)
LEMMA NoScoreFromTheStart ==
    ASSUME TypeInv, ChargeInv, NEW s \in Sources, reputation[s] = 0 PROVE started[s] = 0
  <1>1. PICK kept \in SUBSET Charged(s) : reputation[s] = started[s] + Worth(kept)
    BY DEF ChargeInv, ChargesAddUp
  <1>2. UNION {FindingsOf(e) : e \in kept} \subseteq Accounted(s)
    BY DEF Accounted
  <1>3. IsFiniteSet(UNION {FindingsOf(e) : e \in kept})
    BY <1>2, FS_Subset DEF ChargeInv
  <1>4. Worth(kept) \in Nat /\ started[s] \in Nat
    BY <1>3, DeltaIsNatural DEF Worth, TypeInv
  <1> QED
    BY <1>1, <1>4

(* A step of a charge, seen with the one event it is about.                *)
LEMMA ChargeOfEvent ==
    ASSUME GoodInv, TypeInv, ChargeInv, NEW r \in Requests, ChargeStep(r)
    PROVE  /\ UNCHANGED <<events, started>> /\ Charging(req[r]) /\ Source(r) \in Sources
           /\ \A s \in Requests \ {r} : req'[s] = req[s]
           /\ req'[r].side = req[r].side /\ req'[r].input = req[r].input
           /\ req'[r].found = req[r].found
           /\ req'[r].pc \in {"first charge", "mitigate", "forward", "deliver"}
           /\ \E e \in events : /\ e.request = r /\ e.side = req[r].side /\ e.source = Source(r)
                                /\ e.findings = DOMAIN req[r].found /\ IsFiniteSet(e.findings)
                                /\ \A x \in events : x.request = r /\ x.side = req[r].side => x = e
  <1>1. UNCHANGED <<events, started>> /\ Charging(req[r])
    BY ChargeSteps DEF Charging
  <1>2. Good(req[r])
    BY DEF GoodInv
  <1>3. Source(r) \in Sources /\ IsFiniteSet(DOMAIN req[r].found)
    BY <1>2, PipelineAssumption DEF Good, Source, IsFound
  <1>4. \A s \in Requests \ {r} : req'[s] = req[s]
    BY OthersKept DEF Proceed, ChargeStep
  <1>5. /\ req'[r].pc \in {"first charge", "mitigate", "forward", "deliver"}
        /\ req'[r].side = req[r].side /\ req'[r].input = req[r].input
        /\ req'[r].found = req[r].found
    BY FieldsOfDeciding DEF Kept, Fields, Onwards
  <1>6. PICK e \in events : /\ e.request = r /\ e.side = req[r].side /\ e.source = req[r].input.source
                            /\ e.findings = DOMAIN req[r].found
                            /\ \A x \in events : x.request = r /\ x.side = req[r].side => x = e
    BY <1>1 DEF ChargeInv, Billed
  <1> QED
    BY <1>1, <1>3, <1>4, <1>5, <1>6 DEF Source

(* The look-up that finds no score charges nothing yet.                    *)
LEMMA LookingCharges ==
    ASSUME GoodInv, TypeInv, ChargeInv, NEW r \in Requests, ChargeReputation(r), FindNoScore(r)
    PROVE  ChargeInv'
  <1>1. /\ reputation[Source(r)] = 0 /\ UNCHANGED reputation
        /\ req[r].pc = "charge" /\ req' = [req EXCEPT ![r].pc = "first charge"]
        /\ raced' = IF \E o \in Requests \ {r} : req[o].pc = "first charge" /\ Source(o) = Source(r)
                    THEN raced \cup {Source(r)} ELSE raced
    BY DEF ChargeReputation, FindNoScore
  <1>2. PICK e \in events : /\ e.request = r /\ e.side = req[r].side /\ e.source = Source(r)
                            /\ e.findings = DOMAIN req[r].found
                            /\ \A x \in events : x.request = r /\ x.side = req[r].side => x = e
    BY ChargeOfEvent DEF ChargeStep
  <1>3. /\ UNCHANGED <<events, started>> /\ Source(r) \in Sources
        /\ \A s \in Requests \ {r} : req'[s] = req[s]
        /\ req'[r].side = req[r].side /\ req'[r].input = req[r].input /\ req'[r].found = req[r].found
    BY ChargeOfEvent DEF ChargeStep
  <1>4. req'[r].pc = "first charge"
    <2>1. Shaped(req[r])
      BY DEF GoodInv, Good
    <2> QED
      BY <1>1, <2>1 DEF Shaped, Fields, GoodInv
  <1>5. \A s \in Sources : Charged(s)' = Charged(s)
    BY <1>1, <1>3, <1>4 DEF Charged, TypeInv
  <1>6. \A s \in Requests : Billed(s, req'[s], events')
    <2>1. Billed(r, req'[r], events)
      <3>1. Billed(r, req[r], events)
        BY DEF ChargeInv
      <3>2. req[r].pc \notin Answered /\ Charging(req[r]) /\ ~Unrecorded(req'[r])
        BY <1>1, <1>4 DEF Unrecorded, Charging, Answered
      <3> QED
        BY <1>3, <3>1, <3>2 DEF Billed
    <2> QED
      BY <1>3, <2>1 DEF ChargeInv
  <1>7. started[Source(r)] = 0
    BY <1>1, <1>3, NoScoreFromTheStart
  <1>8. FirstInv'
    <2>1. ASSUME NEW o \in Requests, req'[o].pc = "first charge"
          PROVE  /\ started'[Source(o)'] = 0
                 /\ Source(o)' \in raced' \/ reputation'[Source(o)'] = 0
                 /\ Source(o)' = Source(o) /\ o # r => req[o].pc = "first charge"
      <3>1. Source(o)' = Source(o) /\ (o # r => req[o].pc = "first charge")
        BY <1>3, <2>1 DEF Source
      <3>2. CASE o = r
        BY <1>1, <1>3, <1>7, <3>1, <3>2
      <3>3. CASE o # r
        BY <1>1, <1>3, <3>1, <3>3 DEF ChargeInv, FirstInv
      <3> QED
        BY <3>1, <3>2, <3>3
    <2>2. ASSUME NEW o \in Requests, NEW x \in Requests, o # x,
                 req'[o].pc = "first charge", req'[x].pc = "first charge", Source(o)' = Source(x)'
          PROVE  Source(o)' \in raced'
      <3>1. Source(o)' = Source(o) /\ Source(x)' = Source(x)
        BY <1>3 DEF Source
      <3>2. CASE o # r /\ x # r
        BY <1>1, <2>1, <2>2, <3>1, <3>2 DEF ChargeInv, FirstInv
      <3>3. CASE o = r \/ x = r
        BY <1>1, <2>1, <2>2, <3>1, <3>3
      <3> QED
        BY <3>2, <3>3
    <2> QED
      BY <2>1, <2>2 DEF FirstInv
  <1>9. raced \subseteq raced'
    BY <1>1
  <1> QED
    BY <1>1, <1>3, <1>5, <1>6, <1>8, <1>9, SameAccount DEF ChargeInv

(* A score that is there is raised; one that was not is set.               *)
LEMMA ScoringCharges ==
    ASSUME GoodInv, TypeInv, ChargeInv, NEW r \in Requests,
           \/ ChargeReputation(r) /\ AddToScore(r)
           \/ InsertFirstScore(r)
    PROVE  ChargeInv'
  <1>1. PICK e \in events : /\ e.request = r /\ e.side = req[r].side /\ e.source = Source(r)
                            /\ e.findings = DOMAIN req[r].found /\ IsFiniteSet(e.findings)
                            /\ \A x \in events : x.request = r /\ x.side = req[r].side => x = e
    BY ChargeOfEvent DEF ChargeStep
  <1>2. /\ UNCHANGED <<events, started>> /\ Charging(req[r]) /\ Source(r) \in Sources
        /\ \A s \in Requests \ {r} : req'[s] = req[s]
        /\ req'[r].side = req[r].side /\ req'[r].input = req[r].input
    BY ChargeOfEvent DEF ChargeStep
  <1> DEFINE delta == ReputationDelta(e.findings)
  <1>3. PICK score : /\ reputation' = [reputation EXCEPT ![e.source] = score]
                     /\ UNCHANGED raced
                     /\ \/ score = reputation[e.source] + delta /\ reputation[e.source] # 0
                        \/ score = delta /\ req[r].pc = "first charge"
    BY <1>1 DEF ChargeReputation, AddToScore, InsertFirstScore, Charge
  <1>4. req'[r].pc \in {"mitigate", "forward", "deliver"}
    <2>1. PICK pc \in {"mitigate", "forward", "deliver"} : req' = [req EXCEPT ![r].pc = pc]
      BY DEF ChargeReputation, AddToScore, InsertFirstScore, Charge
    <2>2. Shaped(req[r])
      BY DEF GoodInv, Good
    <2> QED
      BY <2>1, <2>2 DEF Shaped, Fields, GoodInv
  <1>5. delta \in Nat /\ reputation[e.source] \in Nat /\ started[e.source] \in Nat /\ e.source \in Sources
    BY <1>1, <1>2, DeltaIsNatural DEF GoodInv, TypeInv
  <1>6. \A s \in Sources \ {e.source} : Charged(s)' = Charged(s)
    BY <1>1, <1>2, <1>4 DEF Charged, TypeInv, Charging
  <1>7. Charged(e.source)' = Charged(e.source) \cup {e} /\ e \notin Charged(e.source)
    BY <1>1, <1>2, <1>4 DEF Charged, TypeInv, Charging
  <1> HIDE DEF delta
  <1>8. \/ score = reputation[e.source] + delta
        \/ score = delta /\ e.source \in raced /\ started[e.source] = 0
    <2>1. CASE score = delta /\ req[r].pc = "first charge"
      <3>1. started[e.source] = 0 /\ (e.source \in raced \/ reputation[e.source] = 0)
        BY <1>1, <2>1 DEF ChargeInv, FirstInv
      <3>2. PICK worth \in Nat : worth = delta
        BY <1>5
      <3>3. reputation[e.source] = 0 => reputation[e.source] + worth = worth
        OBVIOUS
      <3>4. reputation[e.source] = 0 => score = reputation[e.source] + delta
        BY <2>1, <3>2, <3>3
      <3> QED
        BY <2>1, <3>1, <3>4
    <2> QED
      BY <1>3, <2>1
  <1>9. \E kept : AddsUp(kept, Charged(e.source)', reputation'[e.source], started'[e.source],
                         e.source \in raced')
    <2>1. PICK kept : AddsUp(kept, Charged(e.source), reputation[e.source], started[e.source],
                             e.source \in raced)
      BY <1>5, AddingUp DEF ChargeInv
    <2>2. IsFiniteSet(UNION {FindingsOf(x) : x \in Charged(e.source)})
      BY <1>5 DEF ChargeInv, Accounted
    <2>3. reputation'[e.source] = score /\ started' = started /\ raced' = raced
      BY <1>2, <1>3, <1>5 DEF GoodInv
    <2>4. /\ AddsUp(kept \cup {e}, Charged(e.source) \cup {e}, reputation[e.source] + delta,
                    started[e.source], e.source \in raced)
          /\ e.source \in raced /\ started[e.source] = 0 =>
                AddsUp({e}, Charged(e.source) \cup {e}, delta, started[e.source], e.source \in raced)
      BY <1>1, <1>5, <1>7, <2>1, <2>2, ChargeAddsUp DEF delta
    <2> QED
      BY <1>7, <1>8, <2>3, <2>4
  <1>10. ASSUME NEW s \in Sources, s # e.source
         PROVE  \E kept : AddsUp(kept, Charged(s)', reputation'[s], started'[s], s \in raced')
    <2>1. reputation'[s] = reputation[s] /\ started' = started /\ raced' = raced
      BY <1>2, <1>3, <1>10 DEF GoodInv
    <2> QED
      BY <1>6, <1>10, <2>1, AddingUp DEF ChargeInv
  <1>11. ChargesAddUp'
    <2>1. \A s \in Sources : \E kept : AddsUp(kept, Charged(s)', reputation'[s], started'[s], s \in raced')
      BY <1>9, <1>10
    <2> QED
      BY <2>1 DEF ChargesAddUp, AddsUp
  <1>12. ASSUME NEW s \in Sources PROVE IsFiniteSet(Accounted(s)')
    <2>1. CASE s # e.source
      BY <1>6, <2>1 DEF ChargeInv, Accounted
    <2>2. CASE s = e.source
      <3>1. Accounted(s)' = Accounted(s) \cup FindingsOf(e)
        BY <1>7, <2>2 DEF Accounted, FindingsOf
      <3>2. IsFiniteSet(Accounted(s)) /\ IsFiniteSet(FindingsOf(e))
        BY <1>1, DeltaOfEvent DEF ChargeInv
      <3> QED
        BY <3>1, <3>2, FS_Union
    <2> QED
      BY <2>1, <2>2
  <1>13. \A s \in Requests : Billed(s, req'[s], events')
    <2>1. Billed(r, req'[r], events)
      <3>1. Billed(r, req[r], events)
        BY DEF ChargeInv
      <3>2. ~Unrecorded(req'[r]) /\ ~Charging(req'[r]) /\ req[r].pc \notin Answered
        BY <1>2, <1>4 DEF Unrecorded, Answered, Charging
      <3> QED
        BY <1>2, <3>1, <3>2, SameSideBilled
    <2> QED
      BY <1>2, <2>1 DEF ChargeInv
  <1>14. FirstInv'
    <2>1. ASSUME NEW o \in Requests, req'[o].pc = "first charge"
          PROVE  o # r /\ req[o].pc = "first charge" /\ Source(o)' = Source(o)
      BY <1>2, <1>4, <2>1 DEF Source
    <2>2. ASSUME NEW o \in Requests, req'[o].pc = "first charge", Source(o) = e.source
          PROVE  e.source \in raced
      <3>1. o # r /\ req[o].pc = "first charge"
        BY <2>1, <2>2
      <3>2. CASE reputation[e.source] # 0
        BY <2>2, <3>1, <3>2 DEF ChargeInv, FirstInv
      <3>3. CASE req[r].pc = "first charge"
        BY <1>1, <2>2, <3>1, <3>3 DEF ChargeInv, FirstInv
      <3> QED
        BY <1>3, <3>2, <3>3
    <2>3. ASSUME NEW o \in Requests, req'[o].pc = "first charge"
          PROVE  /\ started'[Source(o)'] = 0
                 /\ Source(o)' \in raced' \/ reputation'[Source(o)'] = 0
      <3>1. /\ o # r /\ req[o].pc = "first charge" /\ Source(o)' = Source(o)
            /\ started' = started /\ raced' = raced
        BY <1>2, <1>3, <2>1, <2>3
      <3>2. started[Source(o)] = 0 /\ (Source(o) \in raced \/ reputation[Source(o)] = 0)
        BY <3>1 DEF ChargeInv, FirstInv
      <3>3. Source(o) # e.source => reputation'[Source(o)] = reputation[Source(o)]
        <4>1. Source(o) \in Sources
          BY PipelineAssumption DEF GoodInv, Good, Source
        <4> QED
          BY <1>3, <4>1 DEF GoodInv
      <3> QED
        BY <2>2, <2>3, <3>1, <3>2, <3>3
    <2>4. ASSUME NEW o \in Requests, NEW x \in Requests, o # x, req'[o].pc = "first charge",
                 req'[x].pc = "first charge", Source(o)' = Source(x)'
          PROVE  Source(o)' \in raced'
      <3>1. /\ req[o].pc = "first charge" /\ req[x].pc = "first charge" /\ Source(o) = Source(x)
            /\ Source(o)' = Source(o) /\ raced' = raced
        BY <1>3, <2>1, <2>4
      <3> QED
        BY <2>4, <3>1 DEF ChargeInv, FirstInv
    <2> QED
      BY <2>3, <2>4 DEF FirstInv
  <1> QED
    BY <1>11, <1>12, <1>13, <1>14 DEF ChargeInv

LEMMA ChargingCharges ==
    ASSUME GoodInv, TypeInv, ChargeInv, NEW r \in Requests, ChargeStep(r)
    PROVE  ChargeInv'
  <1>1. \/ ChargeReputation(r) /\ FindNoScore(r)
        \/ ChargeReputation(r) /\ AddToScore(r)
        \/ InsertFirstScore(r)
    BY DEF ChargeStep, ChargeReputation
  <1> QED
    BY <1>1, LookingCharges, ScoringCharges

LEMMA ChangingCharges ==
    ASSUME GoodInv, TypeInv, ChargeInv, ChangePolicy \/ ChangeRules \/ ApproveFromEvent \/ LiftBan
    PROVE  ChargeInv'
  <1>1. UNCHANGED <<events, reputation, started, raced>>
    BY DEF ChangePolicy, ChangeRules, ApproveFromEvent, LiftBan
  <1>2. \A r \in Requests : /\ req'[r].pc = req[r].pc /\ req'[r].side = req[r].side
                            /\ req'[r].input = req[r].input /\ req'[r].found = req[r].found
    <2> SUFFICES ASSUME NEW r \in Requests
                 PROVE  /\ req'[r].pc = req[r].pc /\ req'[r].side = req[r].side
                        /\ req'[r].input = req[r].input /\ req'[r].found = req[r].found
      OBVIOUS
    <2>1. Shaped(req[r])
      BY DEF GoodInv, Good
    <2>2. CASE ChangePolicy
      <3>1. PICK p \in Policies : req'[r] = IF InFlight(r) THEN [req[r] EXCEPT !.seen = @ \cup {p}] ELSE req[r]
        BY <2>2 DEF ChangePolicy
      <3> QED
        BY <2>1, <3>1 DEF Shaped, Fields
    <2>3. CASE ChangeRules
      <3>1. req'[r] = IF InFlight(r) THEN [req[r] EXCEPT !.hushed = @ \cup suppressions'] ELSE req[r]
        BY <2>3 DEF ChangeRules
      <3> QED
        BY <2>1, <3>1 DEF Shaped, Fields
    <2>4. CASE ApproveFromEvent \/ LiftBan
      BY <2>4 DEF ApproveFromEvent, LiftBan
    <2> QED
      BY <2>2, <2>3, <2>4
  <1>3. \A s \in Sources : Charged(s)' = Charged(s)
    BY <1>1, <1>2 DEF Charged, TypeInv
  <1>4. \A s \in Requests : Billed(s, req'[s], events')
    <2> SUFFICES ASSUME NEW s \in Requests PROVE Billed(s, req'[s], events')
      OBVIOUS
    <2>1. Billed(s, req[s], events) /\ events' = events
      BY <1>1 DEF ChargeInv
    <2>2. /\ req'[s].pc = req[s].pc /\ req'[s].side = req[s].side
          /\ req'[s].input = req[s].input /\ req'[s].found = req[s].found
      BY <1>2
    <2>3. (Unrecorded(req'[s]) <=> Unrecorded(req[s])) /\ (Charging(req'[s]) <=> Charging(req[s]))
      BY <2>2 DEF Unrecorded, Charging
    <2> QED
      BY <2>1, <2>2, <2>3 DEF Billed
  <1>5. FirstInv'
    BY <1>1, <1>2, SameFirst DEF ChargeInv
  <1> QED
    BY <1>1, <1>3, <1>4, <1>5, SameAccount DEF ChargeInv

(* The reputation of a source is where it started plus what the events     *)
(* charged to it are worth, however requests interleave; but where two of  *)
(* them found it without a score at once, some of these events, not none,  *)
(* may be all that is counted.                                             *)
THEOREM ChargesAddUpHolds == Spec => []ChargesAddUp
<1>1. Init => ChargeInv
  <2> SUFFICES ASSUME Init PROVE ChargeInv
    OBVIOUS
  <2>1. events = {} /\ reputation = started /\ \A s \in Sources : started[s] \in Nat
    BY PipelineAssumption DEF Init
  <2>2. \A s \in Sources : Accounted(s) = {}
    BY <2>1 DEF Accounted, Charged
  <2>3. ChargesAddUp
    BY <2>1, WorthOfNothing DEF ChargesAddUp, Charged
  <2>4. \A r \in Requests : Billed(r, req[r], events)
    BY <2>1 DEF Init, Billed, Blank, Charging
  <2>5. FirstInv
    BY DEF Init, FirstInv, Blank
  <2> QED
    BY <2>2, <2>3, <2>4, <2>5, FS_EmptySet DEF ChargeInv
<1>2. GoodInv /\ TypeInv /\ ChargeInv /\ [Next]_vars => ChargeInv'
  <2> SUFFICES ASSUME GoodInv, TypeInv, ChargeInv, [Next]_vars PROVE ChargeInv'
    OBVIOUS
  <2>1. CASE UNCHANGED vars
    <3>1. /\ UNCHANGED <<events, reputation, started, raced>> /\ req' = req
      BY <2>1 DEF vars
    <3>2. \A s \in Sources : Charged(s)' = Charged(s)
      BY <3>1 DEF Charged
    <3>3. FirstInv'
      BY <3>1, SameFirst DEF ChargeInv
    <3>4. \A s \in Requests : Billed(s, req'[s], events')
      BY <3>1 DEF ChargeInv
    <3> QED
      BY <3>1, <3>2, <3>3, <3>4, SameAccount DEF ChargeInv
  <2> QED
    BY <2>1, MovingCharges, RecordingCharges, ChargingCharges, ChangingCharges DEF Next
<1>3. ChargeInv => ChargesAddUp
  BY DEF ChargeInv
<1> QED
  BY <1>1, <1>2, <1>3, GoodFromTheStart, TypesFromTheStart, PTL DEF Spec
-----------------------------------------------------------------------------
(* An attack that has to be reported, and what shows it.                   *)
DueIn(p, text) == Inspected(p, text) /\ p.layers <= Reach(p, text)

Due(p) == \E text \in Texts : DueIn(p, text)

Shown(findings, p) == \E f \in findings : f.class = ClassOf(p.kind) /\ f.rule \in RulesOf(p.kind)

Hushed(q, p) == \E row \in q.hushed : row[1] \in RulesOf(p.kind) /\ q.input.path \in row[2]

Logged(r, p, log) ==
    \E e \in log : e.request = r /\ e.side = "request" /\ \E f \in e.findings : f.class = ClassOf(p.kind)

(* Decoding as often as is needed leaves the text in clear.                *)
LEMMA LayersUndone ==
    ASSUME NEW layers \in Nat, NEW readable \in Nat
    PROVE  /\ Passes(readable) \in Nat /\ BoundedDecode(layers, readable) \in Nat
           /\ BoundedDecode(layers, readable) = IF layers > Passes(readable) THEN layers - Passes(readable) ELSE 0
  <1> DEFINE allowed == Min({Config.maxDecodePasses, 4})
  <1>1. allowed \in Nat
    <2>1. {Config.maxDecodePasses, 4} \in SUBSET Nat /\ {Config.maxDecodePasses, 4} # {}
      BY PipelineAssumption
    <2> QED
      BY <2>1, LeastOverride
  <1>2. Passes(readable) = IF readable < allowed THEN readable ELSE allowed
    BY DEF Passes
  <1> HIDE DEF allowed
  <1>3. Passes(readable) \in Nat
    BY <1>1, <1>2
  <1>4. BoundedDecode(layers, readable) =
           IF layers - Passes(readable) > 0 THEN layers - Passes(readable) ELSE 0
    BY DEF BoundedDecode
  <1>5. PICK passes \in Nat : passes = Passes(readable)
    BY <1>3
  <1> QED
    BY <1>4, <1>5

LEMMA DecodedInClear ==
    ASSUME NEW i \in Inputs, NEW p \in i.payloads, NEW text, DueIn(p, text)
    PROVE  Decoded(p, text) = 0
  <1>1. text \in DOMAIN p.readable /\ p.layers <= Reach(p, text)
    BY DEF DueIn, Inspected
  <1>2. p.layers \in Nat /\ p.readable[text] \in Nat \X Nat
    BY <1>1, PipelineAssumption
  <1>3. PICK first \in Nat, second \in Nat : p.readable[text][1] = first /\ p.readable[text][2] = second
    BY <1>2
  <1>4. PICK before \in Nat, after \in Nat : Passes(first) = before /\ Passes(second) = after
    BY LayersUndone
  <1>5. p.layers <= (IF text = "sent" THEN 0 ELSE before) + after
    BY <1>1, <1>3, <1>4 DEF Reach
  <1> DEFINE normalized == IF text = "sent" THEN p.layers ELSE BoundedDecode(p.layers, first)
  <1>6. normalized \in Nat /\ normalized <= after
    <2>1. CASE text = "sent"
      BY <1>2, <1>4, <1>5, <2>1
    <2>2. CASE text # "sent"
      <3>1. PICK layers \in Nat : p.layers = layers
        BY <1>2
      <3>2. /\ BoundedDecode(layers, first) \in Nat
            /\ BoundedDecode(layers, first) = IF layers > before THEN layers - before ELSE 0
        BY <1>4, LayersUndone
      <3>3. layers <= before + after
        BY <1>5, <2>2, <3>1
      <3>4. normalized = BoundedDecode(layers, first)
        BY <2>2, <3>1
      <3> HIDE DEF normalized
      <3>5. PICK left \in Nat : left = BoundedDecode(layers, first)
        BY <3>2
      <3> QED
        BY <3>2, <3>3, <3>4, <3>5
    <2> QED
      BY <2>1, <2>2
  <1>7. Decoded(p, text) = BoundedDecode(normalized, second)
    BY <1>3 DEF Decoded
  <1> HIDE DEF normalized
  <1> QED
    BY <1>3, <1>4, <1>6, <1>7, LayersUndone

LEMMA CandidatesShown ==
    ASSUME NEW payloads, NEW p \in payloads, NEW texts, NEW loc, 0 \in Residuals(p, texts),
           p.kind \in {"traversal", "sqli", "xss", "cmdi", "ssrf"}
    PROVE  Shown(InspectPayloadCandidates(payloads, texts, loc), p)
  <1> DEFINE found == InspectPayloadCandidates(payloads, texts, loc)
  <1>1. ASSUME NEW rule \in RulesOf(p.kind), NEW severity, NEW confidence,
               Finding(rule, ClassOf(p.kind), severity, confidence, loc) \in found
        PROVE  Shown(found, p)
    <2> DEFINE f == Finding(rule, ClassOf(p.kind), severity, confidence, loc)
    <2>1. f.rule = rule /\ f.class = ClassOf(p.kind)
      BY DEF Finding
    <2> QED
      BY <1>1, <2>1 DEF Shown
  <1>2. CASE p.kind = "traversal"
    <2> DEFINE rule == "UZ-TRAV-001"
    <2>1. Finding(rule, "PathTraversal", "high", 95, loc) \in found
      BY <1>2 DEF InspectPayloadCandidates, When
    <2>2. rule \in RulesOf(p.kind) /\ ClassOf(p.kind) = "PathTraversal"
      BY <1>2 DEF RulesOf, ClassOf
    <2> HIDE DEF rule
    <2> QED
      BY <1>1, <2>1, <2>2
  <1>3. CASE p.kind = "sqli"
    <2> DEFINE rule == IF loc = "request.body" THEN "UZ-SQLI-002" ELSE "UZ-SQLI-001"
    <2>1. Finding(rule, "SqlInjection", "critical", 91, loc) \in found
      BY <1>3 DEF InspectPayloadCandidates, When
    <2>2. rule \in RulesOf(p.kind) /\ ClassOf(p.kind) = "SqlInjection"
      BY <1>3 DEF RulesOf, ClassOf
    <2> HIDE DEF rule
    <2> QED
      BY <1>1, <2>1, <2>2
  <1>4. CASE p.kind = "xss"
    <2> DEFINE rule == IF loc = "request.body" THEN "UZ-XSS-002" ELSE "UZ-XSS-001"
    <2>1. Finding(rule, "Xss", "high", 89, loc) \in found
      BY <1>4 DEF InspectPayloadCandidates, When
    <2>2. rule \in RulesOf(p.kind) /\ ClassOf(p.kind) = "Xss"
      BY <1>4 DEF RulesOf, ClassOf
    <2> HIDE DEF rule
    <2> QED
      BY <1>1, <2>1, <2>2
  <1>5. CASE p.kind = "cmdi"
    <2> DEFINE rule == IF loc = "request.body" THEN "UZ-CMDI-002" ELSE "UZ-CMDI-001"
    <2>1. Finding(rule, "CommandInjection", "critical", 87, loc) \in found
      BY <1>5 DEF InspectPayloadCandidates, When
    <2>2. rule \in RulesOf(p.kind) /\ ClassOf(p.kind) = "CommandInjection"
      BY <1>5 DEF RulesOf, ClassOf
    <2> HIDE DEF rule
    <2> QED
      BY <1>1, <2>1, <2>2
  <1>6. CASE p.kind = "ssrf"
    <2> DEFINE rule == "UZ-SSRF-001"
    <2>1. Finding(rule, "Ssrf", "high", 80, loc) \in found
      BY <1>6 DEF InspectPayloadCandidates, When
    <2>2. rule \in RulesOf(p.kind) /\ ClassOf(p.kind) = "Ssrf"
      BY <1>6 DEF RulesOf, ClassOf
    <2> HIDE DEF rule
    <2> QED
      BY <1>1, <2>1, <2>2
  <1> QED
    BY <1>2, <1>3, <1>4, <1>5, <1>6

LEMMA InspectionShows ==
    ASSUME NEW i \in Inputs, NEW p \in i.payloads, Due(p)
    PROVE  Shown(InspectRequest(i), p)
  <1>1. p.kind \in {"traversal", "sqli", "xss", "cmdi", "ssrf"}
    BY PipelineAssumption
  <1>2. PICK text \in Texts : DueIn(p, text)
    BY DEF Due
  <1>3. 0 \in Residuals(p, {"path", "query"}) \/ 0 \in Residuals(p, BodyTexts)
    <2>1. Decoded(p, text) = 0 /\ Inspected(p, text)
      BY <1>2, DecodedInClear DEF DueIn
    <2>2. text \in {"path", "query"} \/ text \in BodyTexts
      BY DEF Texts
    <2> QED
      BY <2>1, <2>2 DEF Residuals
  <1>4. Shown(PathDetector(i), p) \/ Shown(BodyDetector(i), p)
    BY <1>1, <1>2, <1>3, CandidatesShown DEF PathDetector, BodyDetector
  <1>5. PathDetector(i) \cup BodyDetector(i) \subseteq InspectRequest(i)
    BY DEF InspectRequest
  <1> QED
    BY <1>4, <1>5 DEF Shown

(* Where an attack that is due is, from its inspection to the event.       *)
Place(r, q, p, log) ==
    /\ q.side = "request" /\ q.pc = "resolve" => Shown(q.todo \cup DOMAIN q.found, p)
    /\ q.side = "request" /\ q.pc \in Asking \cup {"shadow", "filter"} => Shown(DOMAIN q.found, p)
    /\ q.side = "request" /\ q.pc \in {"score", "mode", "decide", "record"} =>
         Shown(DOMAIN q.found, p) \/ Hushed(q, p)
    /\ q.side = "response" \/ q.pc \in {"charge", "first charge", "mitigate", "forward",
                                      "refused", "withheld", "delivered"} =>
         Logged(r, p, log) \/ Hushed(q, p)

Traced(r, q, log) ==
    ~q.trusted => \A p \in q.input.payloads : Due(p) => Place(r, q, p, log)

AttackInv ==
    \A r \in Requests :
        /\ InFlight(r) => suppressions \subseteq req[r].hushed
        /\ Traced(r, req[r], events)

(* What is told of an attack stays told.                                   *)
LEMMA ToldBefore ==
    ASSUME NEW r, NEW old, NEW q, NEW p, NEW log, NEW more, log \subseteq more,
           q.input = old.input, q.hushed = old.hushed, Logged(r, p, log) \/ Hushed(old, p)
    PROVE  Logged(r, p, more) \/ Hushed(q, p)
  BY DEF Logged, Hushed

LEMMA ArrivalTraced ==
    ASSUME GoodInv, NEW r \in Requests, RequestContextMiddleware(r), NEW p, NEW log
    PROVE  Place(r, req'[r], p, log) /\ (InFlight(r)' => suppressions \subseteq req'[r].hushed)
  <1>1. Good(req[r]) /\ req[r].pc = "none" /\ req[r].side = "request"
    BY DEF GoodInv, Good, Sided, RequestContextMiddleware
  <1>2. CASE Ends(r, "failed")
    BY <1>2 DEF Ends, Fields, Place, Blank, Asking, InFlight, Answered
  <1>3. CASE /\ req'[r].pc = "check" /\ req'[r].hushed = suppressions
             /\ Kept(r, {"pc", "input", "seen", "hushed"})
    BY <1>1, <1>3 DEF Kept, Fields, Place, Asking
  <1> QED
    BY <1>2, <1>3, FieldsOfArrival

LEMMA SecurityTraced ==
    ASSUME GoodInv, NEW r \in Requests, SecurityMiddleware(r),
           NEW p \in req[r].input.payloads, Due(p), NEW log
    PROVE  Place(r, req'[r], p, log)
  <1>1. Good(req[r]) /\ req[r].side = "request"
    BY DEF GoodInv, Good, Sided, SecurityMiddleware
  <1>2. CASE Ends(r, "turned away")
    BY <1>2 DEF Ends, Fields, Place, Blank, Asking
  <1>3. CASE /\ req'[r].todo = InspectRequest(req[r].input)
             /\ req'[r].pc = Inspecting("request", req'[r].todo)
             /\ Kept(r, {"pc", "todo"})
    <2>1. Shown(req'[r].todo, p)
      BY <1>1, <1>3, InspectionShows DEF Good
    <2>2. req'[r].pc = "resolve" /\ req'[r].side = "request"
      BY <1>1, <1>3, <2>1 DEF Shown, Inspecting, Kept, Fields
    <2> QED
      BY <2>1, <2>2 DEF Place, Shown, Asking
  <1> QED
    BY <1>2, <1>3, FieldsOfSecurity

LEMMA ResolvingTraced ==
    ASSUME GoodInv, NEW r \in Requests, ResolveFinding(r), NEW p, NEW log, Place(r, req[r], p, log)
    PROVE  Place(r, req'[r], p, log)
  <1>1. req[r].pc = "resolve" /\ Good(req[r])
    BY DEF GoodInv, ResolveFinding
  <1>2. PICK f \in req[r].todo :
            /\ req'[r].found = WithFinding(r, f) /\ req'[r].todo = req[r].todo \ {f}
            /\ req'[r].pc = Inspecting(req[r].side, req'[r].todo)
            /\ Kept(r, {"pc", "todo", "found"})
    BY FieldsOfResolving
  <1>3. DOMAIN req'[r].found = DOMAIN req[r].found \cup {f}
    BY <1>2 DEF WithFinding
  <1>4. /\ req'[r].side = req[r].side /\ req'[r].input = req[r].input /\ req'[r].hushed = req[r].hushed
    BY <1>2 DEF Kept, Fields
  <1>5. CASE req[r].side = "request"
    <2>1. Shown(req'[r].todo \cup DOMAIN req'[r].found, p)
      BY <1>1, <1>2, <1>3, <1>5 DEF Place, Shown
    <2>2. req'[r].pc = "resolve" \/ (req'[r].pc = "source" /\ req'[r].todo = {})
      BY <1>2, <1>5 DEF Inspecting
    <2> QED
      BY <1>4, <1>5, <2>1, <2>2 DEF Place, Shown, Asking
  <1>6. CASE req[r].side = "response"
    BY <1>4, <1>6 DEF Place, Hushed
  <1> QED
    BY <1>1, <1>5, <1>6 DEF Good, Sided

LEMMA AskingTraced ==
    ASSUME GoodInv, NEW r \in Requests, AskAllowlists(r) \/ ShadowRoute(r), NEW p, NEW log,
           Place(r, req[r], p, log)
    PROVE  Place(r, req'[r], p, log)
  <1>1. /\ req[r].pc \in Asking \cup {"shadow"} /\ req'[r].pc \in Asking \cup {"shadow", "filter"}
        /\ req'[r].side = req[r].side /\ DOMAIN req[r].found \subseteq DOMAIN req'[r].found
    <2>1. CASE AskAllowlists(r)
      BY <2>1, FieldsOfAsking DEF Kept, Fields
    <2>2. CASE ShadowRoute(r)
      <3>1. DOMAIN WithFinding(r, ShadowFinding) = DOMAIN req[r].found \cup {ShadowFinding}
        BY DEF WithFinding
      <3>2. /\ req'[r].pc = "filter" /\ req'[r].found = WithFinding(r, ShadowFinding)
            /\ req'[r].side = req[r].side
        BY <2>2, FieldsOfShadow DEF Kept, Fields
      <3> QED
        BY <2>2, <3>1, <3>2 DEF ShadowRoute
    <2> QED
      BY <2>1, <2>2
  <1>2. req[r].side = "request"
    BY <1>1 DEF GoodInv, Good, Sided
  <1>3. Shown(DOMAIN req'[r].found, p)
    BY <1>1, <1>2 DEF Place, Shown
  <1> QED
    BY <1>1, <1>2, <1>3 DEF Place, Asking

LEMMA FilterTraced ==
    ASSUME GoodInv, AttackInv, NEW r \in Requests, FilterFindings(r), ~req[r].trusted,
           NEW p, NEW log, Place(r, req[r], p, log)
    PROVE  Place(r, req'[r], p, log)
  <1>1. /\ req[r].pc = "filter" /\ Good(req[r])
        /\ suppressions \subseteq req[r].hushed
    BY DEF GoodInv, FilterFindings, AttackInv, InFlight, Answered
  <1>2. PICK kept \in SUBSET DOMAIN req[r].found :
            /\ req'[r].found = [f \in kept |-> req[r].found[f]]
            /\ req'[r].pc = IF kept # {} THEN "score" ELSE Onwards(req[r].side)
            /\ \A f \in DOMAIN req[r].found \ kept : Suppressed(f.rule, Path(r))
            /\ Kept(r, {"pc", "found"})
    BY FieldsOfFilter
  <1>3. /\ req'[r].side = req[r].side /\ req'[r].input = req[r].input /\ req'[r].hushed = req[r].hushed
        /\ DOMAIN req'[r].found = kept
    BY <1>2 DEF Kept, Fields
  <1>4. CASE req[r].side = "request"
    <2>1. PICK f \in DOMAIN req[r].found : f.class = ClassOf(p.kind) /\ f.rule \in RulesOf(p.kind)
      BY <1>1, <1>4 DEF Place, Shown
    <2>2. f \notin kept => Hushed(req'[r], p)
      BY <1>1, <1>2, <1>3, <2>1 DEF Suppressed, Hushed, Path
    <2>3. f \in kept => Shown(DOMAIN req'[r].found, p) /\ req'[r].pc = "score"
      BY <1>2, <1>3, <2>1 DEF Shown
    <2>4. req'[r].pc \in {"score", "forward"} /\ req'[r].side = "request"
      BY <1>2, <1>3, <1>4 DEF Onwards
    <2> QED
      BY <2>2, <2>3, <2>4 DEF Place, Asking
  <1>5. CASE req[r].side = "response"
    BY <1>3, <1>5 DEF Place, Hushed
  <1> QED
    BY <1>1, <1>4, <1>5 DEF Good, Sided

LEMMA DecidingTraced ==
    ASSUME GoodInv, NEW r \in Requests, ReadScore(r) \/ ReadPolicyMode(r) \/ Decide(r),
           NEW p, NEW log, Place(r, req[r], p, log)
    PROVE  Place(r, req'[r], p, log)
  <1>1. /\ req[r].pc \in {"score", "mode", "decide"} /\ req'[r].pc \in {"mode", "decide", "record"}
        /\ req'[r].side = req[r].side /\ req'[r].input = req[r].input
        /\ req'[r].hushed = req[r].hushed /\ req'[r].found = req[r].found
    BY FieldsOfDeciding DEF Kept, Fields, ReadScore, ReadPolicyMode, Decide
  <1> QED
    BY <1>1 DEF Place, Hushed, Asking

LEMMA RecordingTraced ==
    ASSUME GoodInv, NEW r \in Requests, RecordEvent(r), NEW p, Place(r, req[r], p, events)
    PROVE  Place(r, req'[r], p, events')
  <1>1. /\ req[r].pc = "record" /\ req'[r].pc = "charge" /\ Good(req[r])
        /\ req'[r].side = req[r].side /\ req'[r].input = req[r].input
        /\ req'[r].hushed = req[r].hushed
    BY FieldsOfDeciding DEF Kept, Fields, RecordEvent, GoodInv
  <1>2. PICK stored \in BOOLEAN : events' = events \cup {Event(r, stored)}
    BY DEF RecordEvent
  <1>3. /\ Event(r, stored).request = r /\ Event(r, stored).side = req[r].side
        /\ Event(r, stored).findings = DOMAIN req[r].found
    BY DEF Event
  <1>4. CASE req[r].side = "request"
    <2>1. Shown(DOMAIN req[r].found, p) => Logged(r, p, events')
      BY <1>2, <1>3, <1>4 DEF Shown, Logged
    <2>2. Shown(DOMAIN req[r].found, p) \/ Hushed(req[r], p)
      BY <1>1, <1>4 DEF Place
    <2>3. Hushed(req[r], p) => Hushed(req'[r], p)
      BY <1>1 DEF Hushed
    <2> QED
      BY <1>1, <1>4, <2>1, <2>2, <2>3 DEF Place, Asking
  <1>5. CASE req[r].side = "response"
    <2>1. Logged(r, p, events') \/ Hushed(req'[r], p)
      BY <1>1, <1>2, <1>5, ToldBefore DEF Place
    <2> QED
      BY <1>1, <1>5, <2>1 DEF Place
  <1> QED
    BY <1>1, <1>4, <1>5 DEF Good, Sided

(* The steps after the event.                                              *)
LEMMA SettledTraced ==
    ASSUME GoodInv, NEW r \in Requests,
           \/ ChargeStep(r) \/ FinalizeBlockingDecision(r) \/ Forward(r)
           \/ CheckContract(r) \/ Deliver(r),
           NEW p, NEW log, Place(r, req[r], p, log)
    PROVE  Place(r, req'[r], p, log)
  <1>1. req[r].side = "response" \/ req[r].pc \in {"charge", "first charge", "mitigate", "forward"}
    BY ChargeSteps DEF GoodInv, Good, Sided, FinalizeBlockingDecision, Forward, CheckContract, Deliver
  <1>2. req'[r].input = req[r].input /\ req'[r].hushed = req[r].hushed
    <2>1. CASE ChargeStep(r)
      BY <2>1, FieldsOfDeciding DEF Kept, Fields
    <2>2. CASE FinalizeBlockingDecision(r) \/ Deliver(r)
      BY <2>2, FieldsOfAnswers DEF Ends
    <2>3. CASE Forward(r)
      BY <2>3, FieldsOfForwarding DEF Kept, Fields, Ends
    <2>4. CASE CheckContract(r)
      BY <2>4, FieldsOfContract DEF Kept, Fields
    <2> QED
      BY <2>1, <2>2, <2>3, <2>4
  <1>3. Logged(r, p, log) \/ Hushed(req'[r], p)
    BY <1>1, <1>2, ToldBefore DEF Place
  <1>4. \/ req'[r].side = "response"
        \/ req'[r].pc \in {"first charge", "mitigate", "forward", "deliver"} \cup Answered
    <2>1. CASE ChargeStep(r)
      BY <2>1, FieldsOfDeciding DEF Onwards
    <2>2. CASE FinalizeBlockingDecision(r) \/ Deliver(r)
      BY <2>2, FieldsOfAnswers DEF Ends, Answered
    <2>3. CASE Forward(r)
      BY <2>3, FieldsOfForwarding DEF Ends, Answered
    <2>4. CASE CheckContract(r)
      <3>1. req[r].side = "response"
        BY <2>4 DEF GoodInv, Good, Sided, CheckContract
      <3> QED
        BY <2>4, <3>1, FieldsOfContract DEF Kept, Fields
    <2> QED
      BY <2>1, <2>2, <2>3, <2>4
  <1> QED
    BY <1>3, <1>4 DEF Place, Asking, Answered

(* What operators change leaves an attack where it is, and what they       *)
(* suppress is remembered by all that are under way.                       *)
LEMMA ChangingTraced ==
    ASSUME GoodInv, AttackInv, ChangePolicy \/ ChangeRules \/ ApproveFromEvent \/ LiftBan
    PROVE  AttackInv'
  <1> SUFFICES ASSUME NEW r \in Requests
               PROVE  /\ InFlight(r)' => suppressions' \subseteq req'[r].hushed
                      /\ Traced(r, req'[r], events')
    BY DEF AttackInv
  <1>1. Shaped(req[r])
    BY DEF GoodInv, Good
  <1>2. /\ events' = events /\ req[r].hushed \subseteq req'[r].hushed
        /\ \A field \in Fields \ {"seen", "hushed"} : req'[r][field] = req[r][field]
        /\ InFlight(r) => suppressions' \subseteq req'[r].hushed \cup suppressions
    <2>1. CASE ChangePolicy
      <3>1. PICK p \in Policies : req'[r] = IF InFlight(r) THEN [req[r] EXCEPT !.seen = @ \cup {p}] ELSE req[r]
        BY <2>1 DEF ChangePolicy
      <3>2. suppressions' = suppressions /\ events' = events
        BY <2>1 DEF ChangePolicy, rules
      <3> QED
        BY <1>1, <3>1, <3>2 DEF Shaped, Fields
    <2>2. CASE ChangeRules
      <3>1. req'[r] = IF InFlight(r) THEN [req[r] EXCEPT !.hushed = @ \cup suppressions'] ELSE req[r]
        BY <2>2 DEF ChangeRules
      <3>2. events' = events
        BY <2>2 DEF ChangeRules
      <3> QED
        BY <1>1, <3>1, <3>2 DEF Shaped, Fields
    <2>3. CASE ApproveFromEvent \/ LiftBan
      <3>1. UNCHANGED <<req, events, suppressions>>
        BY <2>3 DEF ApproveFromEvent, LiftBan, ApproveResponseContractFromEvent, rules
      <3> QED
        BY <3>1
    <2> QED
      BY <2>1, <2>2, <2>3
  <1>3. InFlight(r) => suppressions \subseteq req[r].hushed
    BY DEF AttackInv
  <1>4. /\ req'[r].pc = req[r].pc /\ req'[r].side = req[r].side /\ req'[r].input = req[r].input
        /\ req'[r].todo = req[r].todo /\ req'[r].found = req[r].found /\ req'[r].trusted = req[r].trusted
    BY <1>2 DEF Fields
  <1>5. InFlight(r)' => suppressions' \subseteq req'[r].hushed
    BY <1>2, <1>3, <1>4 DEF InFlight
  <1>6. ASSUME NEW p PROVE Hushed(req[r], p) => Hushed(req'[r], p)
    BY <1>2, <1>4 DEF Hushed
  <1>7. ASSUME NEW p, Place(r, req[r], p, events) PROVE Place(r, req'[r], p, events')
    BY <1>2, <1>4, <1>6, <1>7 DEF Place
  <1>8. Traced(r, req'[r], events')
    BY <1>4, <1>7 DEF AttackInv, Traced
  <1> QED
    BY <1>5, <1>8

(* Of what a request is told while under way nothing is forgotten.         *)
LEMMA HushedKept ==
    ASSUME GoodInv, AttackInv, NEW r \in Requests, Proceed(r), ~RequestContextMiddleware(r)
    PROVE  /\ InFlight(r) /\ req'[r].hushed = req[r].hushed /\ req'[r].input = req[r].input
           /\ req[r].trusted => req'[r].trusted
  <1>1. CASE SecurityMiddleware(r)
    BY <1>1, FieldsOfSecurity DEF Kept, Ends, Fields, SecurityMiddleware, InFlight, Answered
  <1>2. CASE ResolveFinding(r) \/ AskAllowlists(r) \/ ShadowRoute(r)
    <2>1. req'[r].hushed = req[r].hushed /\ req'[r].input = req[r].input /\ (req[r].trusted => req'[r].trusted)
      BY <1>2, FieldsOfResolving, FieldsOfAsking, FieldsOfShadow DEF Kept, Fields
    <2>2. req[r].pc \in {"resolve", "shadow"} \cup Asking
      BY <1>2, FieldsOfAsking DEF ResolveFinding, ShadowRoute
    <2> QED
      BY <2>1, <2>2 DEF InFlight, Answered, Asking
  <1>3. CASE FilterFindings(r) \/ CheckContract(r)
    <2>1. req'[r].hushed = req[r].hushed /\ req'[r].input = req[r].input /\ (req[r].trusted => req'[r].trusted)
      <3>1. CASE FilterFindings(r)
        BY <3>1, FieldsOfFilter DEF Kept, Fields
      <3>2. CASE CheckContract(r)
        BY <3>2, FieldsOfContract DEF Kept, Fields
      <3> QED
        BY <1>3, <3>1, <3>2
    <2>2. req[r].pc \in {"filter", "contract"}
      BY <1>3 DEF FilterFindings, CheckContract
    <2> QED
      BY <2>1, <2>2 DEF InFlight, Answered
  <1>4. CASE ReadScore(r) \/ ReadPolicyMode(r) \/ Decide(r) \/ RecordEvent(r) \/ ChargeStep(r)
    <2>1. req'[r].hushed = req[r].hushed /\ req'[r].input = req[r].input /\ (req[r].trusted => req'[r].trusted)
      BY <1>4, FieldsOfDeciding DEF Kept, Fields
    <2>2. req[r].pc \in {"score", "mode", "decide", "record", "charge", "first charge"}
      BY <1>4, ChargeSteps DEF ReadScore, ReadPolicyMode, Decide, RecordEvent
    <2> QED
      BY <2>1, <2>2 DEF InFlight, Answered
  <1>5. CASE FinalizeBlockingDecision(r) \/ Deliver(r)
    BY <1>5, FieldsOfAnswers DEF Ends, FinalizeBlockingDecision, Deliver, InFlight, Answered
  <1>6. CASE Forward(r)
    <2>1. req'[r].hushed = req[r].hushed /\ req'[r].input = req[r].input /\ (req[r].trusted => req'[r].trusted)
      BY <1>6, FieldsOfForwarding DEF Kept, Ends, Fields
    <2> QED
      BY <1>6, <2>1 DEF Forward, InFlight, Answered
  <1> QED
    BY <1>1, <1>2, <1>3, <1>4, <1>5, <1>6 DEF Proceed, ChargeStep

LEMMA ProceedingTraced ==
    ASSUME GoodInv, TypeInv, AttackInv, NEW r \in Requests, Proceed(r)
    PROVE  AttackInv'
  <1>1. UNCHANGED suppressions /\ events \subseteq events' /\ (RecordEvent(r) \/ events' = events)
    BY AroundSteps DEF TypeInv, rules, RecordEvent
  <1>2. \A s \in Requests \ {r} : req'[s] = req[s]
    BY OthersKept
  <1>3. (InFlight(r)' => suppressions' \subseteq req'[r].hushed) /\ Traced(r, req'[r], events')
    <2>1. CASE RequestContextMiddleware(r)
      BY <1>1, <2>1, ArrivalTraced DEF Traced
    <2>2. CASE ~RequestContextMiddleware(r)
      <3>1. InFlight(r)' => suppressions' \subseteq req'[r].hushed
        BY <1>1, <2>2, HushedKept DEF AttackInv
      <3> SUFFICES ASSUME ~req'[r].trusted, NEW p \in req'[r].input.payloads, Due(p)
                   PROVE  Place(r, req'[r], p, events')
        BY <3>1 DEF Traced
      <3>2. ~req[r].trusted /\ p \in req[r].input.payloads
        BY <2>2, HushedKept
      <3>3. Place(r, req[r], p, events)
        BY <3>2 DEF AttackInv, Traced
      <3>4. CASE RecordEvent(r)
        BY <3>3, <3>4, RecordingTraced
      <3>5. ASSUME ~RecordEvent(r) PROVE Place(r, req'[r], p, events)
        <4>1. CASE SecurityMiddleware(r)
          BY <3>2, <4>1, SecurityTraced
        <4>2. CASE ResolveFinding(r)
          BY <3>3, <4>2, ResolvingTraced
        <4>3. CASE AskAllowlists(r) \/ ShadowRoute(r)
          BY <3>3, <4>3, AskingTraced
        <4>4. CASE FilterFindings(r)
          BY <3>2, <3>3, <4>4, FilterTraced
        <4>5. CASE ReadScore(r) \/ ReadPolicyMode(r) \/ Decide(r)
          BY <3>3, <4>5, DecidingTraced
        <4>6. CASE \/ ChargeStep(r) \/ FinalizeBlockingDecision(r) \/ Forward(r)
                   \/ CheckContract(r) \/ Deliver(r)
          BY <3>3, <4>6, SettledTraced
        <4> QED
          BY <2>2, <3>5, <4>1, <4>2, <4>3, <4>4, <4>5, <4>6 DEF Proceed, ChargeStep
      <3> QED
        BY <1>1, <3>4, <3>5
    <2> QED
      BY <2>1, <2>2
  <1>4. ASSUME NEW s \in Requests \ {r}
        PROVE  (InFlight(s)' => suppressions' \subseteq req'[s].hushed) /\ Traced(s, req'[s], events')
    <2>1. (InFlight(s) => suppressions \subseteq req[s].hushed) /\ Traced(s, req[s], events)
      BY DEF AttackInv
    <2>2. \A p : Place(s, req[s], p, events) => Place(s, req[s], p, events')
      BY <1>1 DEF Place, Logged
    <2> QED
      BY <1>1, <1>2, <2>1, <2>2 DEF InFlight, Traced
  <1> QED
    BY <1>3, <1>4 DEF AttackInv

(* An attack that is decoded and looked at is in the event of a request    *)
(* that gets past its inspection, unless its rule was suppressed meanwhile *)
(* or its sender is trusted.                                               *)
THEOREM AttacksReportedHolds == Spec => []AttacksReported
<1>1. Init => AttackInv
  <2> SUFFICES ASSUME Init PROVE AttackInv
    OBVIOUS
  <2>1. \A r \in Requests : req[r].pc = "none" /\ req[r].side = "request"
    BY DEF Init, Blank
  <2> QED
    BY <2>1 DEF AttackInv, InFlight, Traced, Place, Asking
<1>2. GoodInv /\ TypeInv /\ AttackInv /\ [Next]_vars => AttackInv'
  <2> SUFFICES ASSUME GoodInv, TypeInv, AttackInv, [Next]_vars PROVE AttackInv'
    OBVIOUS
  <2>1. CASE UNCHANGED vars
    BY <2>1 DEF vars, rules, AttackInv, InFlight, Traced, Place
  <2> QED
    BY <2>1, ProceedingTraced, ChangingTraced DEF Next
<1>3. AttackInv => AttacksReported
  BY DEF AttackInv, Traced, Place, Due, DueIn, Logged, Hushed, AttacksReported, Path
<1> QED
  BY <1>1, <1>2, <1>3, GoodFromTheStart, TypesFromTheStart, PTL DEF Spec
=============================================================================
