------------------------------- MODULE Routing -------------------------------
(***************************************************************************)
(* The routing policy: internal/routing/routing.go, which compiles the     *)
(* rules and resolves a CONNECT target to the ids of its candidate routes, *)
(* and parseRoutingSettings of internal/config/routing.go, which decides   *)
(* whether a configuration may have these rules at all.                    *)
(*                                                                         *)
(* A spelling of a host name is the sequence of what stands between its    *)
(* dots, so that "a.b." ends in the empty label and a leading dot begins   *)
(* with it.  Abstractions: a label is an element of Label, the bytes of    *)
(* the grammar are the set Good, and the length of a name is counted in    *)
(* labels.                                                                 *)
(*                                                                         *)
(* A definition X_Fault is the code of X with a bug in it.  No behaviour   *)
(* uses it; each shows that the properties notice the bug.                 *)
(***************************************************************************)
EXTENDS Integers, Sequences

CONSTANTS
  Label,         \* what may stand between two dots
  Lower,         \* Lower[l]: l in lower case
  Good,          \* the labels of the host name grammar
  Empty, Star,   \* the empty label and "*"
  MaxLabels,     \* longest name the grammar accepts
  RouteIds,      \* the ids the grammar of validateRouteID accepts
  NoName,        \* the target is an address literal
  NoRouter,      \* the nil *Router
  Unrestricted,  \* the nil *Set
  Absent         \* a configuration key that is not there

ASSUME LabelAssumption ==
  /\ Lower \in [Label -> Label]
  /\ \A l \in Label : Lower[Lower[l]] = Lower[l]
  /\ Good \subseteq {l \in Label : Lower[l] = l}
  /\ {Empty, Star} \subseteq Label \ Good
  /\ Lower[Empty] = Empty
  /\ MaxLabels \in Nat \ {0}

Name == Seq(Label) \ {<<>>}

ASSUME NoNameAssumption == NoName \notin Name

\* The routing block; `routing: {}` has no rules and no default list.
RuleEntry == [domains : Seq(Name), routes : Seq(RouteIds)]
RoutingBlock == [rules : Seq(RuleEntry), defaults : Seq(RouteIds) \cup {Absent}]

\* A compiled policy.
Pattern == [wild : BOOLEAN, host : Seq(Label)]
Router  == [rules    : Seq([patterns : SUBSET Pattern, routes : SUBSET RouteIds]),
            defaults : SUBSET RouteIds]

ASSUME RouterAssumption == NoRouter \notin Router /\ \A ids \in SUBSET RouteIds : Unrestricted # ids

Elements(s) == {s[i] : i \in DOMAIN s}
Distinct(s) == \A i, j \in DOMAIN s : s[i] = s[j] => i = j

-----------------------------------------------------------------------------
(* Names and patterns.                                                     *)

\* One trailing dot and the case of the letters make no difference.
normalizeHost(name) ==
  LET n == Len(name)
      m == IF n > 1 /\ name[n] = Empty THEN n - 1 ELSE n
  IN  [i \in 1..m |-> Lower[name[i]]]

validateHostname(host) == Len(host) <= MaxLabels /\ \A i \in DOMAIN host : host[i] \in Good

\* A whole host name, or "*." before one.
compilePattern(pattern) ==
  LET host == normalizeHost(pattern)
      wild == Len(host) > 1 /\ host[1] = Star
  IN  [wild |-> wild, host |-> IF wild THEN Tail(host) ELSE host]

ValidPattern(pattern) == validateHostname(compilePattern(pattern).host)

\* Whether a compiled pattern matches a valid host: a wildcard stands for one
\* label or more.
Covers(p, host) ==
  LET rest == Len(host) - Len(p.host)
  IN  /\ IF p.wild THEN rest > 0 ELSE rest = 0
      /\ \A i \in DOMAIN p.host : host[rest + i] = p.host[i]

-----------------------------------------------------------------------------
(* The policy.  A rule as configured has domains and routes, both lists.   *)

compiledRule(rule) ==
  [patterns |-> {compilePattern(d) : d \in Elements(rule.domains)},
   routes   |-> Elements(rule.routes)]

RuleCompiles(rule) ==
  /\ rule.domains # <<>> /\ \A d \in Elements(rule.domains) : ValidPattern(d)
  /\ Distinct([i \in DOMAIN rule.domains |-> compilePattern(rule.domains[i])])
  /\ rule.routes # <<>> /\ Distinct(rule.routes)

\* parseRoutingSettings, for the ids of all serving routes: an id names one
\* route, and with a routing block every route has one and every id a rule
\* or the default list names is the id of a route.
RoutingAccepted(raw, ids) ==
  /\ \A i, j \in DOMAIN ids : ids[i] = ids[j] /\ ids[i] # Absent => i = j
  /\ raw # Absent =>
       /\ Absent \notin Elements(ids)
       /\ \A rule \in Elements(raw.rules) :
            RuleCompiles(rule) /\ Elements(rule.routes) \subseteq Elements(ids)
       /\ raw.defaults # Absent =>
            raw.defaults # <<>> /\ Elements(raw.defaults) \subseteq Elements(ids)

\* Compile, for a policy that was accepted.
Compile(raw) ==
  IF raw = Absent THEN NoRouter
  ELSE [rules    |-> [i \in DOMAIN raw.rules |-> compiledRule(raw.rules[i])],
        defaults |-> IF raw.defaults = Absent THEN {} ELSE Elements(raw.defaults)]

Matches(rule, host) == \E p \in rule.patterns : Covers(p, host)

\* Fault: the last rule that matches decides.
Decides_Last(router, i, host) ==
  /\ Matches(router.rules[i], host)
  /\ \A j \in (i + 1)..Len(router.rules) : ~Matches(router.rules[j], host)

\* Rule i decides host.
Decides(router, i, host) ==
  /\ Matches(router.rules[i], host)
  /\ \A j \in 1..(i - 1) : ~Matches(router.rules[j], host)

\* Match: the candidate ids of a target, a spelling or an address literal.
Match(router, target) ==
  IF router = NoRouter THEN Unrestricted
  ELSE IF target = NoName THEN router.defaults
  ELSE LET host     == normalizeHost(target)
           deciding == {i \in DOMAIN router.rules : Decides(router, i, host)}
       IN  IF validateHostname(host) /\ deciding # {}
           THEN router.rules[CHOOSE i \in deciding : TRUE].routes
           ELSE router.defaults

\* Set.Allows fails closed.
Allows(set, id) == set # Unrestricted /\ id \in set

\* Pool.Scope: the candidate set resolved to the routes that bear its ids in
\* one generation; every route when there is no policy.
Scope(entries, ids, set) ==
  IF set = Unrestricted THEN entries ELSE {p \in entries : Allows(set, ids[p])}
=============================================================================
