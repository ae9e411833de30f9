--------------------------- MODULE PolicyDecision ---------------------------
(***************************************************************************)
(* What the policy makes of a set of findings: the mode each rule runs in, *)
(* the detector exceptions, the risk of the whole, and the decision to     *)
(* reject, to act or to recommend.  Pure operators.                        *)
(*                                                                         *)
(* Confidences are hundredths, so that a finding's score is counted in     *)
(* hundredths too; risk is counted in quarters of a point.  A path prefix  *)
(* is the set of the paths that begin with it, an absent one every path.   *)
(***************************************************************************)
EXTENDS Integers, FiniteSets, Sequences, FiniteSetsExt

CONSTANTS
    MinBlockConfidence,  \* security.min_block_confidence, hundredths
    MinBlockScore        \* security.min_block_score

ASSUME ThresholdAssumption == MinBlockConfidence \in 0 .. 100 /\ MinBlockScore \in 0 .. 100

Severities  == {"low", "medium", "high", "critical"}
RuleModes   == {"detect_only", "recommend", "block"}
PolicyModes == {"monitor", "balanced", "strict"}

RefusedClasses ==
    {"SqlInjection", "CommandInjection", "HeaderInjection", "PathTraversal", "Xss",
     "BrokenAuthentication", "JwtAbuse", "SchemaViolation", "TenantBoundaryViolation", "AuthAbuse"}
ThrottledClasses ==
    {"BruteForce", "RateLimitExceeded", "BehaviorAnomaly", "ObjectEnumeration", "ResourceAbuse"}
AdvisedClasses ==
    {"Ssrf", "RequestSmuggling", "MissingSecurityHeaders", "ResponseLeak", "ShadowApi",
     "ApiInventory", "SecurityMisconfiguration"}
Classes == RefusedClasses \cup ThrottledClasses \cup AdvisedClasses \cup {"PayloadEvasion", "MethodAbuse"}

Larger(a, b) == IF a > b THEN a ELSE b
-----------------------------------------------------------------------------
MutResolveRuleMode(policy, path, rule) ==
    IF rule \in DOMAIN policy.globals THEN policy.globals[rule] ELSE policy.mode

(* The first route override that names the rule on this path decides, then *)
(* the global mode; a rule named nowhere only detects.                     *)
ResolveRuleMode(policy, path, rule) ==
    LET naming == {i \in DOMAIN policy.overrides :
                     path \in policy.overrides[i].paths /\ rule \in DOMAIN policy.overrides[i].modes}
    IN  IF naming # {} THEN policy.overrides[Min(naming)].modes[rule]
        ELSE IF rule \in DOMAIN policy.globals THEN policy.globals[rule] ELSE "detect_only"

MutEffectiveRuleMode(policyMode, ruleMode) ==
    IF policyMode = "monitor" THEN "detect_only"
    ELSE IF policyMode = "strict" /\ ruleMode = "detect_only" THEN "block"
    ELSE ruleMode

EffectiveRuleMode(policyMode, ruleMode) ==
    IF policyMode = "monitor" THEN "detect_only"
    ELSE IF policyMode = "strict" /\ ruleMode = "detect_only" THEN "recommend"
    ELSE ruleMode

Excepted(exceptions, path, finding) ==
    \E e \in exceptions :
        /\ e.monitorOnly
        /\ e.rule = finding.rule
        /\ path \in e.paths
        /\ finding.confidence >= e.confidence
        /\ finding.loc \in e.locations   \* a blank parameter names no location

(* found gives the mode of each finding.                                   *)
ApplyDetectorExceptions(exceptions, path, found) ==
    [f \in DOMAIN found |-> IF Excepted(exceptions, path, f) THEN "detect_only" ELSE found[f]]
-----------------------------------------------------------------------------
ScoreWeight(severity) ==
    CASE severity = "low" -> 20 [] severity = "medium" -> 45
      [] severity = "high" -> 70 [] OTHER -> 90

Score(finding) == ScoreWeight(finding.severity) * finding.confidence

(* Strict asks for less than the configured thresholds, but never for less *)
(* than a floor, even where the configuration asks for less than that.     *)
NeededConfidence(policyMode) ==
    IF policyMode = "strict" THEN Larger(MinBlockConfidence - 15, 55) ELSE MinBlockConfidence
NeededScore(policyMode) ==
    IF policyMode = "strict" THEN Larger(MinBlockScore - 15, 35) ELSE MinBlockScore

IsBlockingConfidenceMet(policyMode, finding) ==
    /\ policyMode # "monitor"
    /\ finding.severity \in {"high", "critical"}
    /\ finding.confidence >= NeededConfidence(policyMode)
    /\ Score(finding) >= 100 * NeededScore(policyMode)

(* Twice the weight of the findings of these classes.                      *)
SeverityWeight(findings, classes) ==
    LET Count(severity) == Cardinality({f \in findings : f.class \in classes /\ f.severity = severity})
    IN  2 * Count("low") + 4 * Count("medium") + 7 * Count("high") + 10 * Count("critical")

CalculateRisk(findings, reputation) ==
    4 * SeverityWeight(findings, {"SchemaViolation"})
    + 5 * SeverityWeight(findings, {"BehaviorAnomaly", "BruteForce", "RateLimitExceeded"})
    + 5 * SeverityWeight(findings, {"ObjectEnumeration", "TenantBoundaryViolation"})
    + 4 * SeverityWeight(findings, {"JwtAbuse", "BrokenAuthentication"})
    + 6 * Larger(reputation, 0)

MutRiskIsBlocking(policyMode, risk) ==
    \/ policyMode = "balanced" /\ risk >= 50
    \/ policyMode = "strict" /\ risk >= 80

RiskIsBlocking(policyMode, risk) ==
    \/ policyMode = "balanced" /\ risk >= 80
    \/ policyMode = "strict" /\ risk >= 50
-----------------------------------------------------------------------------
(* What a finding in blocking mode asks for.                               *)
BlockActions(finding) ==
    (IF finding.class \in RefusedClasses \cup {"MethodAbuse"} THEN {"BlockRequest"} ELSE {})
    \cup (IF finding.class \in ThrottledClasses THEN {"ThrottleSource"} ELSE {})
    \cup (IF finding.class \in RefusedClasses \cup {"PayloadEvasion"} THEN {"MarkSourceSuspicious"} ELSE {})
    \cup (IF finding.severity = "critical" THEN {"BlockSourceIpTemporary"} ELSE {})

RecommendationFor(class) ==
    CASE class = "SqlInjection" -> "review_input_validation"
      [] class = "Xss" -> "tighten_output_encoding"
      [] class = "CommandInjection" -> "isolate_command_surfaces"
      [] class = "PathTraversal" -> "restrict_file_path_resolution"
      [] class = "HeaderInjection" -> "reject_crlf_payloads"
      [] class = "RequestSmuggling" -> "review_proxy_header_handling"
      [] class = "Ssrf" -> "enforce_egress_allowlist"
      [] class \in {"BrokenAuthentication", "JwtAbuse", "AuthAbuse"} -> "review_auth_policy"
      [] class \in ThrottledClasses \ {"ObjectEnumeration"} -> "enable_progressive_delay"
      [] class = "MethodAbuse" -> "disable_unused_methods"
      [] class = "PayloadEvasion" -> "increase_inspection_depth"
      [] class \in {"MissingSecurityHeaders", "SecurityMisconfiguration"} -> "add_security_headers"
      [] class = "SchemaViolation" -> "tighten_api_schema"
      [] class \in {"ObjectEnumeration", "TenantBoundaryViolation"} -> "harden_object_authorization"
      [] class = "ResponseLeak" -> "inspect_response_contracts"
      [] OTHER -> "review_shadow_routes"

(* A set keeps one action and one recommendation of a kind: both lists are *)
(* deduplicated by key.                                                    *)
EvaluateFindings(policyMode, exceptions, path, found, reputation) ==
    LET effective == ApplyDetectorExceptions(exceptions, path, found)
        findings  == DOMAIN found
        blocking  == {f \in findings : EffectiveRuleMode(policyMode, effective[f]) = "block"}
        risk      == CalculateRisk(findings, reputation)
    IN  [reject |-> \/ \E f \in blocking : IsBlockingConfidenceMet(policyMode, f)
                    \/ /\ policyMode # "monitor"
                       /\ RiskIsBlocking(policyMode, risk)
                       /\ \E f \in findings : f.severity = "critical",
         actions |-> UNION {BlockActions(f) : f \in blocking},
         recommendations |->
            {RecommendationFor(f.class) :
                f \in {g \in findings : g \notin blocking \/ g.class \in AdvisedClasses}},
         risk |-> risk]
=============================================================================
