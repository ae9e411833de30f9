----------------------------- MODULE Detection ------------------------------
(***************************************************************************)
(* What inspection finds in a request and in a response.  Pure operators   *)
(* over records that keep what the detectors tell apart:                   *)
(*                                                                         *)
(*   request   source, path, method, apiKey, tenantHeader, jwt,            *)
(*             headers (a set), query (a sequence of [key, value]),        *)
(*             body [present, json, depth, count, fields: name -> kind],   *)
(*             contentLength, objects (identifiers), tenantHint, shows,    *)
(*             payloads, observed                                          *)
(*   payload   [kind, index, layers, dense, readable, secret]: markers of  *)
(*             one kind of attack, percent-encoded "layers" times, in the  *)
(*             texts that are the domain of "readable"; secret are those   *)
(*             of them where the name of a secret comes before it          *)
(*   response  [status, type, headers, cors, cache, debug, token, fields], *)
(*             type the parts a content type is written in, lower case:    *)
(*             <<"application/", "json", "; charset=utf-8">>               *)
(*                                                                         *)
(* "observed" are the findings of the rate limiter and of what the gateway *)
(* has learned of routes and bodies, which have modules of their own.      *)
(* Findings form a set: the source drops all but the first of a rule and   *)
(* location, and here two of those are the same record.                    *)
(***************************************************************************)
EXTENDS Integers, FiniteSets, Sequences, FiniteSetsExt

CONSTANTS
    Config,     \* the settings read below, a record
    Nothing     \* an absent value

When(condition, finding) == IF condition THEN {finding} ELSE {}

Finding(rule, class, severity, confidence, loc) ==
    [rule |-> rule, class |-> class, severity |-> severity, confidence |-> confidence, loc |-> loc]
-----------------------------------------------------------------------------
(* The texts a payload is looked for in: the path, a value of the query, a *)
(* top-level field of a JSON body, and the whole body as it was sent and,  *)
(* where that differs, as it is when decoded.  A text is cut at a number   *)
(* of bytes: a payload beyond the cut is not in it.                        *)
BodyTexts == {"field", "sent", "decoded"}
Texts     == {"path", "query"} \cup BodyTexts

(* Decoding.  A pass undoes one layer of percent-encoding, a text that no  *)
(* longer changes is left alone, and there are at most four passes.  A     *)
(* pass whose bytes are not UTF-8 is the last and undoes nothing: for each *)
(* text "readable" tells how many come before that one, when the request   *)
(* is normalized and again when it is inspected.                           *)
Passes(readable) ==
    LET allowed == Min({Config.maxDecodePasses, 4})
    IN  IF readable < allowed THEN readable ELSE allowed

BoundedDecode(layers, readable) ==
    LET left == layers - Passes(readable) IN IF left > 0 THEN left ELSE 0

MutDecoded(p, text) == BoundedDecode(p.layers, p.readable[text][2])

(* Every text is decoded when the request is normalized and again when it  *)
(* is inspected, save the body as it was sent: that only when inspected.   *)
Decoded(p, text) ==
    LET normalized == IF text = "sent" THEN p.layers ELSE BoundedDecode(p.layers, p.readable[text][1])
    IN  BoundedDecode(normalized, p.readable[text][2])

(* What follows the name of a secret is replaced before it is looked at:   *)
(* a query value and a field by their keys, the text of any body, whatever *)
(* its type, by what stands before "=" since the last "&".  A path never.  *)
Redacted(p, text) == text \in p.secret \ {"path"}

Inspected(p, text) ==
    /\ text \in DOMAIN p.readable
    /\ ~Redacted(p, text)
    /\ text = "query" => Config.inspectQuery /\ p.index <= Config.maxQueryParams
    /\ text \in BodyTexts => Config.inspectBody

(* How often a payload is still encoded in the texts that are looked at.   *)
Residuals(p, texts) == {Decoded(p, text) : text \in {x \in texts : Inspected(p, x)}}

(* Traversal is also recognised once or twice encoded, every other kind    *)
(* only in clear; a text that is still encoded twice, or dense with        *)
(* escapes, is evasive by itself.                                          *)
InspectPayloadCandidates(payloads, texts, loc) ==
    LET inBody      == loc = "request.body"
        Clear(kind) == \E p \in payloads : p.kind = kind /\ 0 \in Residuals(p, texts)
    IN  When(\E p \in payloads : p.kind = "traversal" /\ \E n \in Residuals(p, texts) : n <= 2,
             Finding("UZ-TRAV-001", "PathTraversal", "high", 95, loc))
        \cup When(Clear("sqli"), Finding(IF inBody THEN "UZ-SQLI-002" ELSE "UZ-SQLI-001",
                                         "SqlInjection", "critical", 91, loc))
        \cup When(Clear("xss"), Finding(IF inBody THEN "UZ-XSS-002" ELSE "UZ-XSS-001",
                                        "Xss", "high", 89, loc))
        \cup When(Clear("cmdi"), Finding(IF inBody THEN "UZ-CMDI-002" ELSE "UZ-CMDI-001",
                                         "CommandInjection", "critical", 87, loc))
        \cup When(Clear("ssrf"), Finding("UZ-SSRF-001", "Ssrf", "high", 80, loc))
        \cup When(\E p \in payloads : \E n \in Residuals(p, texts) : n >= 2 \/ (n = 1 /\ p.dense),
                  Finding("UZ-EVASION-001", "PayloadEvasion", "medium", 76, loc))

PathDetector(q) == InspectPayloadCandidates(q.payloads, {"path", "query"}, "request.path_or_query")
BodyDetector(q) == InspectPayloadCandidates(q.payloads, BodyTexts, "request.body")
-----------------------------------------------------------------------------
(* Who is asking.  Claims are read from a token whose payload decodes,     *)
(* whatever the rest of the token is like.                                 *)
Claimed(q, claim) == IF q.jwt # Nothing /\ q.jwt.payload THEN q.jwt[claim] ELSE Nothing

DerivePrincipal(q) ==
    LET tenant == Claimed(q, "tenant")
        sub    == Claimed(q, "sub")
    IN  IF sub # Nothing THEN IF tenant # Nothing THEN <<"tenant_user", tenant, sub>> ELSE <<"jwt_sub", sub>>
        ELSE IF q.apiKey # Nothing THEN <<"api_key", q.apiKey>>
        ELSE <<"ip", q.source>>

ResolveAuthStatus(q) ==
    IF ~Config.authEnabled \/ q.path \notin Config.protectedPaths THEN "not_required"
    ELSE IF q.apiKey = Nothing THEN "missing"
    ELSE IF q.apiKey \in Config.apiKeys THEN "satisfied" ELSE "invalid"

HasAuthContext(q) == q.apiKey \in Config.apiKeys \/ (q.jwt # Nothing /\ q.jwt.payload)

AuthDetector(q) ==
    When(ResolveAuthStatus(q) = "missing",
         Finding("auth.missing_api_key", "BrokenAuthentication", "high", 99, "request.headers"))
    \cup When(ResolveAuthStatus(q) = "invalid",
         Finding("auth.invalid_api_key", "BrokenAuthentication", "high", 99, "request.headers"))

MethodDetector(q) ==
    When(q.method \in Config.blockedMethods,
         Finding("method.disallowed", "MethodAbuse", "high", 98, "request.method"))

(* A header value that is text holds no line break, so "header.crlf" of    *)
(* the source is never raised.                                             *)
HeaderDetector(q) ==
    IF ~Config.inspectHeaders THEN {} ELSE
    When({"transfer-encoding chunked", "content-length"} \subseteq q.headers,
         Finding("smuggling.cl_te", "RequestSmuggling", "high", 72, "header.transfer-encoding"))
    \cup When("malformed host" \in q.headers,
         Finding("UZ-PROTO-002", "RequestSmuggling", "medium", 70, "request.headers.host"))
    \cup When(q.method \in {"GET", "HEAD"} /\ q.body.present,
         Finding("UZ-PROTO-003", "RequestSmuggling", "low", 62, "request.method"))

(* A token that does not parse is reported for that alone; nothing checks  *)
(* its signature.                                                          *)
JwtSecurityDetector(q, requiredScopes) ==
    IF ~Config.jwtEnabled \/ q.jwt = Nothing THEN {}
    ELSE IF q.jwt.segments # 3
         THEN {Finding("jwt.invalid_structure", "JwtAbuse", "high", 95, "request.headers.authorization")}
    ELSE IF ~q.jwt.header
         THEN {Finding("jwt.invalid_encoding", "JwtAbuse", "high", 96, "jwt.header")}
    ELSE IF ~q.jwt.payload
         THEN {Finding("jwt.invalid_encoding", "JwtAbuse", "high", 96, "jwt.payload")}
    ELSE When(Config.rejectAlgNone /\ q.jwt.alg = "none",
              Finding("jwt.alg_none", "JwtAbuse", "critical", 99, "jwt.header.alg"))
         \cup When(Config.issuer \notin {Nothing, q.jwt.iss},
              Finding("jwt.invalid_issuer", "JwtAbuse", "high", 92, "jwt.claims.iss"))
         \cup When(Config.audience \notin {Nothing} \cup q.jwt.aud,
              Finding("jwt.invalid_audience", "JwtAbuse", "high", 90, "jwt.claims.aud"))
         \cup When(~(requiredScopes \subseteq q.jwt.scopes),
              Finding("jwt.missing_scope", "JwtAbuse", "high", 90, "jwt.claims.scope"))

(* The tenant a request is about is read from a body field first.  A field *)
(* that holds a JSON string keeps its quotation marks, and then equals no  *)
(* tenant of a token or header.                                            *)
TenantHint(q) ==
    CASE q.tenantHint = Nothing -> Nothing
      [] q.tenantHint.from = "body string" -> <<"quoted", q.tenantHint.tenant>>
      [] OTHER -> q.tenantHint.tenant

ObjectAbuseDetector(q) ==
    LET tenant == IF Claimed(q, "tenant") # Nothing THEN Claimed(q, "tenant") ELSE q.tenantHeader
    IN  When(Cardinality(q.objects) >= 3,
             Finding("object.multiple_ids", "ObjectEnumeration", "medium", 68, "request.object_ids"))
        \cup When(Nothing \notin {tenant, TenantHint(q)} /\ tenant # TenantHint(q),
             Finding("tenant.cross_boundary", "TenantBoundaryViolation", "critical", 94,
                     "request.tenant_context"))

ResourceAbuseDetector(q) ==
    LET looked == 1 .. Min({Len(q.query), Config.maxQueryParams})
        paging == {i \in looked : q.query[i].key \in {"limit", "page_size", "per_page", "take"}
                                  /\ q.query[i].value > 1000}
    IN  When(Len(q.query) > Config.maxQueryParams,
             Finding("UZ-API-RESOURCE-001", "ResourceAbuse", "medium", 84, "request.query"))
        \cup When(q.contentLength > Config.maxBodyBytes,
             Finding("UZ-API-RESOURCE-002", "ResourceAbuse", "high", 96, "request.headers.content-length"))
        \cup {Finding("UZ-API-RESOURCE-003", "ResourceAbuse", "medium", 80, <<"query", q.query[i].key>>) :
                 i \in paging}
-----------------------------------------------------------------------------
(* The configured specification: routes [method, paths, headers, query,    *)
(* auth, scopes, json, maxDepth, maxFields, fields], fields a sequence of  *)
(* [name, required, kind].  The first route that matches is the one.       *)
SpecMatch(q) ==
    {i \in DOMAIN Config.specRoutes :
        Config.specRoutes[i].method = q.method /\ q.path \in Config.specRoutes[i].paths}

SpecRoute(q) == Config.specRoutes[Min(SpecMatch(q))]

RequiredScopes(q) == IF SpecMatch(q) = {} THEN {} ELSE SpecRoute(q).scopes

UnknownRouteResult ==
    {Finding("schema.unknown_route", "SchemaViolation",
             CASE Config.unknownRouteMode = "allow" -> "low"
               [] Config.unknownRouteMode = "detect" -> "medium"
               [] OTHER -> "high", 93, "request.path")}

SchemaBlock(rule, severity, loc) == {Finding(rule, "SchemaViolation", severity, 97, loc)}

FieldFaults(route, body) ==
    LET Absent(field)  == field.name \notin DOMAIN body.fields
        faulty == {i \in DOMAIN route.fields :
                     IF Absent(route.fields[i]) THEN route.fields[i].required
                     ELSE route.fields[i].kind \notin {"any", body.fields[route.fields[i].name]}}
        first  == route.fields[Min(faulty)]
    IN  IF faulty = {} THEN {}
        ELSE IF Absent(first) THEN SchemaBlock("schema.required_field_missing", "high", <<"body", first.name>>)
        ELSE SchemaBlock("schema.field_type_mismatch", "high", <<"body", first.name>>)

(* The first check that fails is the only one reported.                    *)
ValidateAgainstSpec(q) ==
    IF ~Config.specEnabled THEN {}
    ELSE IF SpecMatch(q) = {} THEN UnknownRouteResult
    ELSE LET route == SpecRoute(q) IN
         IF ~(route.headers \subseteq q.headers)
         THEN SchemaBlock("schema.missing_required_header", "high", "header")
         ELSE IF \E key \in route.query : \A i \in DOMAIN q.query : q.query[i].key # key
         THEN SchemaBlock("schema.missing_required_query", "medium", "query")
         ELSE IF route.auth /\ ~HasAuthContext(q)
         THEN SchemaBlock("schema.auth_required", "high", "request.auth")
         ELSE IF route.fields = <<>> /\ ~route.json THEN {}
         ELSE IF ~q.body.present THEN SchemaBlock("schema.body_required", "high", "request.body")
         ELSE IF ~q.body.json THEN SchemaBlock("schema.invalid_json", "high", "request.body")
         ELSE IF route.maxDepth > 0 /\ q.body.depth > route.maxDepth
         THEN SchemaBlock("schema.max_depth", "medium", "request.body")
         ELSE IF route.maxFields > 0 /\ q.body.count > route.maxFields
         THEN SchemaBlock("schema.max_fields", "medium", "request.body")
         ELSE FieldFaults(route, q.body)

(* The rule whose mode a finding takes: what is learned of bodies is       *)
(* governed as a whole, by a rule that is never a finding's own.           *)
LearnedSchemaRules ==
    {"UZ-API-SCHEMA-001", "UZ-API-SCHEMA-002", "UZ-API-SCHEMA-003", "UZ-API-SCHEMA-004",
     "UZ-API-SCHEMA-005", "UZ-API-SCHEMA-006", "UZ-API-SCHEMA-007", "UZ-API-SCHEMA-008"}

Governing(rule) == IF rule \in LearnedSchemaRules THEN "UZ-API-SCHEMA-000" ELSE rule

InspectRequest(q) ==
    ValidateAgainstSpec(q) \cup AuthDetector(q) \cup MethodDetector(q) \cup PathDetector(q)
    \cup HeaderDetector(q) \cup BodyDetector(q) \cup JwtSecurityDetector(q, RequiredScopes(q))
    \cup ObjectAbuseDetector(q) \cup ResourceAbuseDetector(q) \cup q.observed
-----------------------------------------------------------------------------
Contains(type, parts)   == \E i \in DOMAIN type : \E j \in i .. Len(type) : SubSeq(type, i, j) = parts
StartsWith(type, parts) == \E j \in 0 .. Len(type) : SubSeq(type, 1, j) = parts

InspectResponse(p) ==
    IF ~Config.responseSecurity THEN {} ELSE
    When(p.debug, Finding("response.debug_leak", "ResponseLeak", "high", 95, "response.body"))
    \cup When(p.token, Finding("response.token_exposure", "ResponseLeak", "critical", 96, "response.body"))
    \cup When(Contains(p.type, <<"application/", "json">>) /\ p.fields > Config.maxJsonFields,
         Finding("response.oversharing", "ResponseLeak", "medium", 75, "response.body"))

InspectResponseHeaders(p) ==
    {Finding(<<"missing", h>>, "MissingSecurityHeaders", "low", 95, "response.headers") :
        h \in {"x-content-type-options", "x-frame-options", "content-security-policy"} \ p.headers}
    \cup When(p.cors = "any origin with credentials",
         Finding("UZ-RESP-CONFIG-001", "SecurityMisconfiguration", "medium", 90, "response.headers"))
    \cup When(Contains(p.type, <<"json">>) /\ p.cache \in {"public", "missing"},
         Finding("UZ-RESP-CONFIG-002", "SecurityMisconfiguration", "low", 82,
                 "response.headers.cache-control"))

(* contract is [status, type, headers], or Nothing where none is stored.   *)
ContractFindings(p, contract) ==
    When(/\ contract # Nothing
         /\ \/ p.status # contract.status
            \/ ~StartsWith(p.type, contract.type)
            \/ ~(contract.headers \subseteq p.headers),
         Finding("response.contract_mismatch", "ResponseLeak", "medium", 88, "response.contract"))

ShadowFinding == Finding("shadow.route_live", "ShadowApi", "medium", 80, "request.path")
=============================================================================
