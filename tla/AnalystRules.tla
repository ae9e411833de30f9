---------------------------- MODULE AnalystRules ----------------------------
(***************************************************************************)
(* The rules analysts keep in SQLite and every request reads: allowlists   *)
(* of sources and principals, each also for some paths only, suppressed    *)
(* findings, and the response contracts of routes.  A row is its key; a    *)
(* prefix is the set of what begins with it.  Each handler is one          *)
(* statement, answered with its error where it fails, which changes        *)
(* nothing.                                                                *)
(***************************************************************************)
EXTENDS Integers

CONSTANTS
    ListedSources,       \* sources an analyst may list
    PrincipalPrefixes,   \* sets of principals
    PathPrefixes,        \* sets of paths
    SuppressibleRules,
    Contracts,           \* [status, type, headers] an analyst may write
    Routes               \* methods with normalized paths

VARIABLES
    sourceAllowlist, scopedSourceAllowlist,
    principalAllowlist, scopedPrincipalAllowlist,
    triScopedAllowlist,
    suppressions,
    contracts

allowlists == <<sourceAllowlist, scopedSourceAllowlist, principalAllowlist,
                scopedPrincipalAllowlist, triScopedAllowlist>>
rules == <<allowlists, suppressions, contracts>>

RulesTypeOK ==
    /\ sourceAllowlist \subseteq ListedSources
    /\ scopedSourceAllowlist \subseteq ListedSources \X PathPrefixes
    /\ principalAllowlist \subseteq PrincipalPrefixes
    /\ scopedPrincipalAllowlist \subseteq PrincipalPrefixes \X PathPrefixes
    /\ triScopedAllowlist \subseteq ListedSources \X PrincipalPrefixes \X PathPrefixes
    /\ suppressions \subseteq SuppressibleRules \X PathPrefixes
    /\ DOMAIN contracts \subseteq Routes
-----------------------------------------------------------------------------
(* Tables with every row that may be written, or with none; every route    *)
(* has a contract.                                                         *)
StartTables ==
    /\ \/ /\ sourceAllowlist = {} /\ scopedSourceAllowlist = {} /\ principalAllowlist = {}
          /\ scopedPrincipalAllowlist = {} /\ triScopedAllowlist = {} /\ suppressions = {}
       \/ /\ sourceAllowlist = ListedSources
          /\ scopedSourceAllowlist = ListedSources \X PathPrefixes
          /\ principalAllowlist = PrincipalPrefixes
          /\ scopedPrincipalAllowlist = PrincipalPrefixes \X PathPrefixes
          /\ triScopedAllowlist = ListedSources \X PrincipalPrefixes \X PathPrefixes
          /\ suppressions = SuppressibleRules \X PathPrefixes
    /\ contracts \in [Routes -> Contracts]
-----------------------------------------------------------------------------
(* What a request asks of the rows.                                        *)
IsSourceAllowlisted(source) == source \in sourceAllowlist
IsSourceAllowlistedForPath(source, path) ==
    \E row \in scopedSourceAllowlist : row[1] = source /\ path \in row[2]
IsPrincipalAllowlisted(principal) == \E prefix \in principalAllowlist : principal \in prefix
IsPrincipalAllowlistedForPath(principal, path) ==
    \E row \in scopedPrincipalAllowlist : principal \in row[1] /\ path \in row[2]
IsTriScopedAllowlisted(source, principal, path) ==
    \E row \in triScopedAllowlist : row[1] = source /\ principal \in row[2] /\ path \in row[3]

Suppressed(rule, path) == \E row \in suppressions : row[1] = rule /\ path \in row[2]
-----------------------------------------------------------------------------
(* The statements.                                                         *)
UpsertSourceRow(s) ==
    /\ sourceAllowlist' = sourceAllowlist \cup {s}
    /\ UNCHANGED <<scopedSourceAllowlist, principalAllowlist, scopedPrincipalAllowlist, triScopedAllowlist>>
DeleteSourceRow(s) ==
    /\ sourceAllowlist' = sourceAllowlist \ {s}
    /\ UNCHANGED <<scopedSourceAllowlist, principalAllowlist, scopedPrincipalAllowlist, triScopedAllowlist>>
UpsertScopedSourceRow(s, prefix) ==
    /\ scopedSourceAllowlist' = scopedSourceAllowlist \cup {<<s, prefix>>}
    /\ UNCHANGED <<sourceAllowlist, principalAllowlist, scopedPrincipalAllowlist, triScopedAllowlist>>
DeleteScopedSourceRow(s, prefix) ==
    /\ scopedSourceAllowlist' = scopedSourceAllowlist \ {<<s, prefix>>}
    /\ UNCHANGED <<sourceAllowlist, principalAllowlist, scopedPrincipalAllowlist, triScopedAllowlist>>
UpsertPrincipalRow(p) ==
    /\ principalAllowlist' = principalAllowlist \cup {p}
    /\ UNCHANGED <<sourceAllowlist, scopedSourceAllowlist, scopedPrincipalAllowlist, triScopedAllowlist>>
DeletePrincipalRow(p) ==
    /\ principalAllowlist' = principalAllowlist \ {p}
    /\ UNCHANGED <<sourceAllowlist, scopedSourceAllowlist, scopedPrincipalAllowlist, triScopedAllowlist>>
UpsertScopedPrincipalRow(p, prefix) ==
    /\ scopedPrincipalAllowlist' = scopedPrincipalAllowlist \cup {<<p, prefix>>}
    /\ UNCHANGED <<sourceAllowlist, scopedSourceAllowlist, principalAllowlist, triScopedAllowlist>>
DeleteScopedPrincipalRow(p, prefix) ==
    /\ scopedPrincipalAllowlist' = scopedPrincipalAllowlist \ {<<p, prefix>>}
    /\ UNCHANGED <<sourceAllowlist, scopedSourceAllowlist, principalAllowlist, triScopedAllowlist>>
UpsertTriScopedRow(s, p, prefix) ==
    /\ triScopedAllowlist' = triScopedAllowlist \cup {<<s, p, prefix>>}
    /\ UNCHANGED <<sourceAllowlist, scopedSourceAllowlist, principalAllowlist, scopedPrincipalAllowlist>>
DeleteTriScopedRow(s, p, prefix) ==
    /\ triScopedAllowlist' = triScopedAllowlist \ {<<s, p, prefix>>}
    /\ UNCHANGED <<sourceAllowlist, scopedSourceAllowlist, principalAllowlist, scopedPrincipalAllowlist>>

UpsertSuppressionRow(rule, prefix) == suppressions' = suppressions \cup {<<rule, prefix>>}
DeleteSuppressionRow(rule, prefix) == suppressions' = suppressions \ {<<rule, prefix>>}

UpsertContractRow(route, c) ==
    contracts' = [r \in DOMAIN contracts \cup {route} |-> IF r = route THEN c ELSE contracts[r]]
DeleteContractRow(route) == contracts' = [r \in DOMAIN contracts \ {route} |-> contracts[r]]
-----------------------------------------------------------------------------
(* The handlers of the control plane.                                      *)
UpsertSourceAllowlist(s)          == UpsertSourceRow(s) /\ UNCHANGED <<suppressions, contracts>>
DeleteSourceAllowlist(s)          == DeleteSourceRow(s) /\ UNCHANGED <<suppressions, contracts>>
UpsertScopedSourceAllowlist(s, prefix) ==
    UpsertScopedSourceRow(s, prefix) /\ UNCHANGED <<suppressions, contracts>>
DeleteScopedSourceAllowlist(s, prefix) ==
    DeleteScopedSourceRow(s, prefix) /\ UNCHANGED <<suppressions, contracts>>
UpsertPrincipalAllowlist(p)       == UpsertPrincipalRow(p) /\ UNCHANGED <<suppressions, contracts>>
DeletePrincipalAllowlist(p)       == DeletePrincipalRow(p) /\ UNCHANGED <<suppressions, contracts>>
UpsertScopedPrincipalAllowlist(p, prefix) ==
    UpsertScopedPrincipalRow(p, prefix) /\ UNCHANGED <<suppressions, contracts>>
DeleteScopedPrincipalAllowlist(p, prefix) ==
    DeleteScopedPrincipalRow(p, prefix) /\ UNCHANGED <<suppressions, contracts>>
UpsertTriScopedAllowlist(s, p, prefix) ==
    UpsertTriScopedRow(s, p, prefix) /\ UNCHANGED <<suppressions, contracts>>
DeleteTriScopedAllowlist(s, p, prefix) ==
    DeleteTriScopedRow(s, p, prefix) /\ UNCHANGED <<suppressions, contracts>>
UpsertAnalystSuppression(rule, prefix) ==
    UpsertSuppressionRow(rule, prefix) /\ UNCHANGED <<allowlists, contracts>>
DeleteAnalystSuppression(rule, prefix) ==
    DeleteSuppressionRow(rule, prefix) /\ UNCHANGED <<allowlists, contracts>>
UpsertResponseContract(route, c)  == UpsertContractRow(route, c) /\ UNCHANGED <<allowlists, suppressions>>
ApproveResponseContract(route, c) == UpsertContractRow(route, c) /\ UNCHANGED <<allowlists, suppressions>>
DeleteResponseContract(route)     == DeleteContractRow(route) /\ UNCHANGED <<allowlists, suppressions>>

(* Approving an event writes the contract its mismatch was found against,  *)
(* as it was then, with the headers the response lacked as the required    *)
(* ones.                                                                   *)
ContractFromMismatch(expected, response) ==
    [expected EXCEPT !.headers = @ \ response.headers]

ApproveResponseContractFromEvent(route, expected, response) ==
    /\ UpsertContractRow(route, ContractFromMismatch(expected, response))
    /\ UNCHANGED <<allowlists, suppressions>>

EditAllowlists ==
    \/ \E s \in ListedSources : UpsertSourceAllowlist(s) \/ DeleteSourceAllowlist(s)
    \/ \E p \in PrincipalPrefixes : UpsertPrincipalAllowlist(p) \/ DeletePrincipalAllowlist(p)
    \/ \E s \in ListedSources, prefix \in PathPrefixes :
          UpsertScopedSourceAllowlist(s, prefix) \/ DeleteScopedSourceAllowlist(s, prefix)
    \/ \E p \in PrincipalPrefixes, prefix \in PathPrefixes :
          UpsertScopedPrincipalAllowlist(p, prefix) \/ DeleteScopedPrincipalAllowlist(p, prefix)
    \/ \E s \in ListedSources, p \in PrincipalPrefixes, prefix \in PathPrefixes :
          UpsertTriScopedAllowlist(s, p, prefix) \/ DeleteTriScopedAllowlist(s, p, prefix)

EditRules ==
    \/ EditAllowlists
    \/ \E rule \in SuppressibleRules, prefix \in PathPrefixes :
          UpsertAnalystSuppression(rule, prefix) \/ DeleteAnalystSuppression(rule, prefix)
    \/ \E route \in Routes, c \in Contracts :
          UpsertResponseContract(route, c) \/ ApproveResponseContract(route, c)
    \/ \E route \in Routes : DeleteResponseContract(route)
=============================================================================
