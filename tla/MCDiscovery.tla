---------------------------- MODULE MCDiscovery -----------------------------
EXTENDS Discovery, TLC

CONSTANTS r1, r2, r3

Json(size, fields) ==
    [type |-> "json", malformed |-> FALSE, depth |-> 2, array |-> 0, size |-> size, fields |-> fields]

Field(n, k) == [name |-> n, kind |-> k]

(* An order, and one with other fields that is longer than is usual.       *)
Order == Json(1, <<Field("item", "string"), Field("password", "string"), Field("note", "null"),
                   Field("note", "string"), Field("cut", "number")>>)
Other == Json(5, <<Field("item", "number"), Field("admin", "boolean")>>)

MCCalls == {[route |-> r, body |-> Order] : r \in {r1, r2, r3}}
           \cup {[route |-> r3, body |-> Other]}

MCStartRows == {[r \in {r1, r2} |-> [hits |-> 1, last |-> 0, status |-> "known"]]}
MCBudgets   == {<<4, 0>>, <<2, 1>>, <<1, 3>>}

Symmetry == Permutations(Requests) \cup Permutations(Operators)
=============================================================================
