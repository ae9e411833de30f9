------------------------- MODULE MCRequestPipeline --------------------------
EXTENDS RequestPipeline, TLC

CONSTANTS s1, s2, orders, admin, home, acme, alice, key1

-----------------------------------------------------------------------------
(* The settings, with one decoding pass so that a twice encoded payload is *)
(* within reach and a thrice encoded one is not.                           *)
MCConfig ==
    [maxDecodePasses |-> 1, maxQueryParams |-> 2, inspectQuery |-> TRUE, inspectBody |-> TRUE,
     inspectHeaders |-> TRUE, authEnabled |-> TRUE, protectedPaths |-> {admin}, apiKeys |-> {key1},
     blockedMethods |-> {"TRACE"}, jwtEnabled |-> TRUE, rejectAlgNone |-> TRUE,
     issuer |-> Nothing, audience |-> Nothing, maxBodyBytes |-> 10,
     specEnabled |-> TRUE, unknownRouteMode |-> "allow",
     specRoutes |-> <<[method |-> "POST", paths |-> {orders}, headers |-> {}, query |-> {},
                       auth |-> FALSE, scopes |-> {}, json |-> TRUE, maxDepth |-> 3, maxFields |-> 0,
                       fields |-> <<[name |-> "item", required |-> TRUE, kind |-> "string"]>>],
                      [method |-> "GET", paths |-> {orders, admin}, headers |-> {}, query |-> {},
                       auth |-> FALSE, scopes |-> {}, json |-> FALSE, maxDepth |-> 0, maxFields |-> 0,
                       fields |-> <<>>]>>,
     responseSecurity |-> TRUE, maxJsonFields |-> 5]

NoBody == [present |-> FALSE, json |-> FALSE, depth |-> 0, count |-> 0, fields |-> [n \in {} |-> "any"]]

Get(source, path) ==
    [source |-> source, path |-> path, route |-> <<"GET", path>>, method |-> "GET", apiKey |-> Nothing,
     tenantHeader |-> Nothing, tenantHint |-> Nothing, jwt |-> Nothing, headers |-> {}, query |-> <<>>,
     body |-> NoBody, contentLength |-> 0, objects |-> {}, payloads |-> {}, observed |-> {},
     shadow |-> FALSE]

(* A payload that every pass can decode, in these texts.                   *)
Payload(kind, layers, texts) ==
    [kind |-> kind, index |-> 1, layers |-> layers, dense |-> FALSE,
     readable |-> [text \in texts |-> <<9, 9>>], secret |-> {}]

Param(key) == [key |-> key, value |-> 0]

(* A search that shows nothing, for one of its values holds markup beside  *)
(* bytes that no pass can decode and the other is a secret; one whose path *)
(* climbs, encoded as often as is decoded; an order with SQL in a field of *)
(* an odd type, where the text of the body is redacted; a token of another *)
(* tenant on a route that is not in the specification.                     *)
MCInputs ==
    {[Get(s2, orders) EXCEPT !.query = <<Param("search"), Param("token")>>,
        !.payloads = {[Payload("xss", 1, {"query"}) EXCEPT !.readable = [text \in {"query"} |-> <<0, 0>>]],
                      [Payload("sqli", 0, {"query"}) EXCEPT !.index = 2, !.secret = {"query"}]}],
     [Get(s1, orders) EXCEPT !.payloads = {Payload("traversal", 2, {"path"})}],
     [Get(s1, orders) EXCEPT !.method = "POST", !.route = <<"POST", orders>>,
        !.payloads = {[Payload("sqli", 2, BodyTexts) EXCEPT !.secret = {"sent", "decoded"}]},
        !.observed = {Finding("UZ-API-SCHEMA-003", "SchemaViolation", "medium", 78, <<"body", "item">>)},
        !.body = [present |-> TRUE, json |-> TRUE, depth |-> 1, count |-> 1,
                  fields |-> [n \in {"item"} |-> "string"]]],
     [Get(s2, home) EXCEPT !.shadow = TRUE, !.tenantHint = [from |-> "path", tenant |-> "other"],
        !.jwt = [segments |-> 3, header |-> TRUE, payload |-> TRUE, alg |-> "RS256", iss |-> Nothing,
                 aud |-> {}, scopes |-> {}, sub |-> alice, tenant |-> acme]]}

AllSecure == {"x-content-type-options", "x-frame-options", "content-security-policy"}
Fine  == [status |-> 200, type |-> <<"application/", "json", "; charset=utf-8">>, headers |-> AllSecure,
          cors |-> "none", cache |-> "no-store", debug |-> FALSE, token |-> FALSE, fields |-> 1]
Leaky == [Fine EXCEPT !.status = 500, !.token = TRUE]

MCResponses == {Fine, Leaky}
MCContracts == {[status |-> 200, type |-> <<"application/", "json">>, headers |-> {"x-frame-options"}]}

Blocking == [rule \in {"UZ-TRAV-001", "UZ-SQLI-002", "UZ-API-SCHEMA-000"} |-> "block"]
Balanced ==
    [mode |-> "balanced", globals |-> Blocking, overrides |-> <<>>,
     exceptions |-> {[rule |-> "UZ-TRAV-001", paths |-> {orders}, locations |-> {"request.path_or_query"},
                      confidence |-> 80, monitorOnly |-> TRUE]}]
Strict ==
    [mode |-> "strict", globals |-> Blocking, exceptions |-> {},
     overrides |-> <<[paths |-> {home}, modes |-> [r \in {"tenant.cross_boundary"} |-> "block"]],
                     [paths |-> {orders}, modes |-> [r \in {"UZ-TRAV-001"} |-> "detect_only"]]>>]

MCPolicies      == {Balanced, Strict, [Balanced EXCEPT !.mode = "monitor"]}
MCStartPolicies == {Balanced, Strict}

(* One source is new, the other has a past.                                *)
MCStartReputations == {[s \in Sources |-> IF s = s1 THEN 0 ELSE 9]}

MCPrincipalPrefixes  == {{<<"tenant_user", acme, alice>>}}
MCPathPrefixes       == {{orders, home}}
MCSuppressible       == {"UZ-SQLI-002"}
MCRoutes             == {<<"GET", orders>>}
Symmetry == Permutations(Requests)
=============================================================================
