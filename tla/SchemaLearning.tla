-------------------------- MODULE SchemaLearning ---------------------------
(***************************************************************************)
(* What is learned of the JSON bodies of each route, in a bounded memory,  *)
(* and the findings a body draws against it: fields nobody sent before,    *)
(* fields everybody sends, other types, other sizes.                       *)
(***************************************************************************)
EXTENDS FiniteSetsExt, Sequences

CONSTANTS
    MinSamples,      \* bodies seen before a body is compared with them
    MaxSchemas,      \* routes whose schema is kept
    MaxFields,       \* fields taken from one body
    MaxDepth, MaxArray,
    Sensitive        \* names never reported

ASSUME SchemaAssumption ==
    /\ {MinSamples, MaxSchemas, MaxFields, MaxDepth, MaxArray} \subseteq Nat

Nobody == [type |-> "none", malformed |-> FALSE, depth |-> 0, array |-> 0, size |-> 0, fields |-> <<>>]

(* The names of types, in the order in which a tie between them is broken. *)
Kinds == <<"array", "boolean", "null", "number", "object", "string">>
Rank(k) == CHOOSE i \in DOMAIN Kinds : Kinds[i] = k

IsBody(b) ==
    /\ b.size \in Nat /\ b.fields \in Seq({b.fields[i] : i \in DOMAIN b.fields})
    /\ \A i \in DOMAIN b.fields : b.fields[i].kind \in {Kinds[j] : j \in DOMAIN Kinds}

Blank == [samples |-> 0, size |-> 0, fields |-> [n \in {} |-> 0]]

NoTypes == [k \in {} |-> 0]

IsProfile(p) ==
    /\ p.samples \in Nat /\ p.size \in Nat
    /\ \A n \in DOMAIN p.fields :
           /\ p.fields[n].seen \in 1 .. p.samples
           /\ p.fields[n].seen = MapThenSumSet(LAMBDA k : p.fields[n].types[k], DOMAIN p.fields[n].types)
-----------------------------------------------------------------------------
(* The fields of an object and of the objects in it, in the order of the   *)
(* document, up to the limit; of equal names the last counts.              *)
Flat(b) ==
    LET named(i) == {b.fields[j].name : j \in 1 .. i}
        taken    == {i \in DOMAIN b.fields : Cardinality(named(i - 1)) < MaxFields}
        last(n)  == Max({i \in taken : b.fields[i].name = n})
    IN  [n \in {b.fields[i].name : i \in taken} |-> b.fields[last(n)].kind]

Learned(b) == b.type = "json" /\ ~b.malformed

(* What a body draws by itself.                                            *)
BodyFindings(b) ==
    CASE b.type = "none"  -> {}
      [] b.type = "other" -> {"UZ-API-SCHEMA-008"}
      [] b.malformed      -> {"UZ-API-SCHEMA-004"}
      [] OTHER            -> {f \in {"UZ-API-SCHEMA-005"} : b.depth > MaxDepth}
                             \cup {f \in {"UZ-API-SCHEMA-006"} : b.array > MaxArray}

DominantType(types) ==
    CHOOSE k \in DOMAIN types : \A j \in DOMAIN types :
        types[j] < types[k] \/ (types[j] = types[k] /\ Rank(j) <= Rank(k))

UnexpectedField(p, b) == DOMAIN Flat(b) \ (DOMAIN p.fields \cup Sensitive) # {}

OtherType(p, b) ==
    \E n \in (DOMAIN Flat(b) \cap DOMAIN p.fields) \ Sensitive :
        Flat(b)[n] # DominantType(p.fields[n].types)

MissingField(p, b) ==    \* usually there: in nine bodies of ten
    \E n \in DOMAIN p.fields \ (DOMAIN Flat(b) \cup Sensitive) :
        10 * p.fields[n].seen >= 9 * p.samples

UnusualSize(p, b) == p.size > 0 /\ b.size > 4 * p.size

MutEnough(p) == p.samples + 1 >= MinSamples    \* mutant: counts this body too

Enough(p) == p.samples >= MinSamples

(* What it draws against what was learned of its route.                    *)
SchemaFindings(p, b) ==
    {f \in {"UZ-API-SCHEMA-001"} : Enough(p) /\ UnexpectedField(p, b)}
    \cup {f \in {"UZ-API-SCHEMA-002"} : Enough(p) /\ MissingField(p, b)}
    \cup {f \in {"UZ-API-SCHEMA-003"} : Enough(p) /\ OtherType(p, b)}
    \cup {f \in {"UZ-API-SCHEMA-007"} : Enough(p) /\ UnusualSize(p, b)}

MutCounted(types, k) ==    \* mutant: every type counts
    [j \in DOMAIN types \cup {k} |-> (IF j \in DOMAIN types THEN types[j] ELSE 0) + 1]

Counted(types, k) ==
    [j \in DOMAIN types \cup {k} |-> (IF j \in DOMAIN types THEN types[j] ELSE 0)
                                     + (IF j = k THEN 1 ELSE 0)]

Merge(p, b) ==
    LET sent == Flat(b)
        old(n) == IF n \in DOMAIN p.fields THEN p.fields[n] ELSE [seen |-> 0, types |-> NoTypes]
    IN  [samples |-> p.samples + 1,
         size    |-> Max({p.size, b.size}),
         fields  |-> [n \in DOMAIN p.fields \cup DOMAIN sent |->
                         IF n \in DOMAIN sent
                         THEN [seen |-> old(n).seen + 1, types |-> Counted(old(n).types, sent[n])]
                         ELSE old(n)]]
-----------------------------------------------------------------------------
MutVictims(s) == {v \in DOMAIN s : \A o \in DOMAIN s : s[v].samples >= s[o].samples}    \* mutant: the most

(* The schemas of the fewest samples, one of which goes.                   *)
Victims(s) == {v \in DOMAIN s : \A o \in DOMAIN s : s[v].samples <= s[o].samples}

Kept(s, key, v) ==    \* the routes kept beside a body's, when v is the victim
    IF key \notin DOMAIN s /\ Cardinality(DOMAIN s) >= MaxSchemas THEN DOMAIN s \ {v} ELSE DOMAIN s

ProfileOf(s, key) == IF key \in DOMAIN s THEN s[key] ELSE Blank

(* All findings of a body, and the memory after it, under one lock.        *)
Findings(s, key, b) ==
    BodyFindings(b) \cup (IF Learned(b) THEN SchemaFindings(ProfileOf(s, key), b) ELSE {})

AfterBody(s, key, b, v) ==
    [k \in Kept(s, key, v) \cup {key} |-> IF k = key THEN Merge(ProfileOf(s, key), b) ELSE s[k]]
=============================================================================
