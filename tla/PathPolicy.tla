------------------------------ MODULE PathPolicy ------------------------------
(***************************************************************************)
(* get_path_config: which of the policy's endpoint configurations apply to *)
(* the path of a request, and what each category is configured with        *)
(* (leakpolicy/src/lib.rs 351-408, path_glob.rs).                          *)
(*                                                                         *)
(* A component of a path is a model value.  A component of a glob is a     *)
(* kind and the set of components it matches: that is all a regex, prefix, *)
(* suffix, "within" or literal does here.  A call runs to its end without  *)
(* interruption; its two loops are one action per endpoint's glob and one  *)
(* per entry of the BTreeMap.                                              *)
(***************************************************************************)
EXTENDS Naturals, Sequences, FiniteSetsExt

CONSTANTS
  Names,        \* the components of paths
  Paths,        \* the paths requested
  Policies,     \* the endpoints of the policies considered
  Styles,       \* report styles
  RootStyle     \* the policy's report_style

\* A report style that is not specified.
Unset == [style |-> "unset", report_bits |-> 0]

ASSUME StylesAssumption == RootStyle \in Styles /\ Unset \notin Styles

Component == [kind : {"any_one", "any_many", "globish", "literal"}, names : SUBSET Names]

\* What the types of the Vecs say.
WellTyped(policy) ==
  /\ policy \in Seq({policy[e] : e \in DOMAIN policy})
  /\ \A e \in DOMAIN policy : policy[e].matches \in Seq(Seq(Component))

ASSUME PoliciesAssumption ==
  Paths \subseteq Seq(Names) /\ \A policy \in Policies : WellTyped(policy)

VARIABLES
  endpoints,     \* self.endpoints: [matches, config, report_style, token_extractor]
  components,    \* the path
  endpoint, glob,   \* the loops over endpoints and their matches
  policy_paths,  \* the BTreeMap: order of the key |-> [path, configs]
  rest,          \* the keys that the loop over policy_paths has yet to visit
  output,        \* category |-> [matcher_path, endpoint, category_config, report_style]
  token_extractor   \* the endpoint whose token_extractor is used, 0 if none is

vars == <<endpoints, components, endpoint, glob, policy_paths, rest, output, token_extractor>>

-----------------------------------------------------------------------------
(***************************************************************************)
(* PathGlob.                                                               *)
(***************************************************************************)
AnyOne == [kind |-> "any_one", names |-> Names]
AnyMany == [kind |-> "any_many", names |-> Names]
Globish(names) == [kind |-> "globish", names |-> names]
Literal(name) == [kind |-> "literal", names |-> {name}]

Matches(component, name) == name \in component.names

\* Faulty variant: a glob matches the paths that begin with what it matches.
AnyEnd(path, i) == TRUE
AtEnd(path, i) == i > Len(path)

\* matches_components: whether g from its k-th component on matches path from its i-th
\* on.  "**" takes as little as it can, and does not try again.
MatchesComponents(g, path) ==
  LET m[k \in 1 .. Len(g) + 1] ==
        [i \in 1 .. Len(path) + 1 |->
           \/ k > Len(g) /\ AtEnd(path, i)
           \/ k = Len(g) /\ g[k] = AnyMany
           \/ /\ k < Len(g) /\ g[k] = AnyMany
              /\ LET hits == {j \in i .. Len(path) : Matches(g[k + 1], path[j])}
                 IN hits # {} /\ m[k + 2][Min(hits) + 1]
           \/ /\ k <= Len(g) /\ g[k] # AnyMany
              /\ i <= Len(path) /\ Matches(g[k], path[i]) /\ m[k + 1][i + 1]]
  IN m[1][1]

Count(g, kind) == Cardinality({k \in DOMAIN g : g[k].kind = kind})

\* What Ord compares: the longer glob first, then the one with fewer "**", "*" and
\* partial components.
Order(g) == <<Len(g), Count(g, "any_many"), Count(g, "any_one"), Count(g, "globish")>>

\* Faulty variant: the partial components are not counted.
PartialsIgnored(o1, o2) ==
  \/ o1[1] > o2[1]
  \/ /\ o1[1] = o2[1]
     /\ \E k \in 2 .. 3 : o1[k] < o2[k] /\ \A j \in 2 .. k - 1 : o1[j] = o2[j]

Before(o1, o2) ==
  \/ o1[1] > o2[1]
  \/ /\ o1[1] = o2[1]
     /\ \E k \in 2 .. 4 : o1[k] < o2[k] /\ \A j \in 2 .. k - 1 : o1[j] = o2[j]

-----------------------------------------------------------------------------
(***************************************************************************)
(* get_path_config.                                                        *)
(***************************************************************************)
Start(policy, path) ==
  /\ endpoints = policy
  /\ components = path
  /\ endpoint = 1 /\ glob = 1
  /\ policy_paths = << >>
  /\ rest = {}
  /\ output = << >>
  /\ token_extractor = 0

Init == \E policy \in Policies, path \in Paths : Start(policy, path)

Entered(o, entry) ==
  [key \in DOMAIN policy_paths \cup {o} |-> IF key = o THEN entry ELSE policy_paths[key]]

\* Faulty variant: a key that is there already keeps its endpoint only.
EntryReplaced(o, g, e) == Entered(o, [path |-> g, configs |-> <<e>>])

\* policy_paths.entry(path).or_default().push(endpoint): a key that compares equal
\* keeps the glob it was entered with.
EntryPush(o, g, e) ==
  IF o \in DOMAIN policy_paths
  THEN [policy_paths EXCEPT ![o].configs = Append(@, e)]
  ELSE Entered(o, [path |-> g, configs |-> <<e>>])

Collecting == endpoint <= Len(endpoints)
CurrentGlob == endpoints[endpoint].matches[glob]

\* One glob of one endpoint.
Collect ==
  /\ Collecting /\ glob <= Len(endpoints[endpoint].matches)
  /\ policy_paths' = IF MatchesComponents(CurrentGlob, components)
                     THEN EntryPush(Order(CurrentGlob), CurrentGlob, endpoint)
                     ELSE policy_paths
  /\ glob' = glob + 1
  /\ UNCHANGED <<endpoints, components, endpoint, rest, output, token_extractor>>

NextEndpoint ==
  /\ Collecting /\ glob > Len(endpoints[endpoint].matches)
  /\ endpoint' = endpoint + 1
  /\ glob' = 1
  /\ rest' = IF endpoint = Len(endpoints) THEN DOMAIN policy_paths ELSE {}
  /\ UNCHANGED <<endpoints, components, policy_paths, output, token_extractor>>

\* The report style of a category: `config` is the category's in both places.
ReportStyle(style) == IF style # Unset THEN style ELSE RootStyle

\* output.insert for the categories of an endpoint.
Insert(out, path, e) ==
  LET config == endpoints[e].config
  IN [c \in DOMAIN config \cup DOMAIN out |->
        IF c \in DOMAIN config
        THEN [matcher_path |-> path, endpoint |-> e, category_config |-> config[c],
              report_style |-> ReportStyle(config[c].report_style)]
        ELSE out[c]]

\* The endpoints of one key, in the order they were pushed.
InsertAll(entry) ==
  LET out[k \in 0 .. Len(entry.configs)] ==
        IF k = 0 THEN output ELSE Insert(out[k - 1], entry.path, entry.configs[k])
  IN out[Len(entry.configs)]

\* The last of them that has a token extractor replaces the one found before.
Extractor(entry) ==
  LET having == {k \in DOMAIN entry.configs : endpoints[entry.configs[k]].token_extractor}
  IN IF having = {} THEN token_extractor ELSE entry.configs[Max(having)]

\* One entry, from the last of the BTreeMap to the first.
Apply ==
  /\ ~Collecting
  /\ \E o \in rest :
       /\ \A p \in rest : ~Before(o, p)
       /\ output' = InsertAll(policy_paths[o])
       /\ token_extractor' = Extractor(policy_paths[o])
       /\ rest' = rest \ {o}
  /\ UNCHANGED <<endpoints, components, endpoint, glob, policy_paths>>

Next == Collect \/ NextEndpoint \/ Apply

Spec == Init /\ [][Next]_vars

-----------------------------------------------------------------------------
(***************************************************************************)
(* Properties.                                                             *)
(***************************************************************************)
Done == ~Collecting /\ rest = {}

\* The documented meaning of a glob: every "**" stands for some number of components.
Denotes(g, path) ==
  LET m[k \in 1 .. Len(g) + 1] ==
        [i \in 1 .. Len(path) + 1 |->
           \/ k > Len(g) /\ i > Len(path)
           \/ /\ k <= Len(g) /\ g[k] = AnyMany
              /\ \E j \in i .. Len(path) + 1 : m[k + 1][j]
           \/ /\ k <= Len(g) /\ g[k] # AnyMany
              /\ i <= Len(path) /\ Matches(g[k], path[i]) /\ m[k + 1][i + 1]]
  IN m[1][1]

\* "**" is nowhere but at the end.
ManyIsLast(g) == \A k \in DOMAIN g : g[k] = AnyMany => k = Len(g)

\* The globs of the endpoints that configure the category c.
GlobsFor(c) ==
  UNION {{endpoints[e].matches[k] : k \in DOMAIN endpoints[e].matches} :
           e \in {n \in DOMAIN endpoints : c \in DOMAIN endpoints[n].config}}

\* A category is configured by an endpoint that was meant for the path: one of its
\* globs denotes it, and so does the glob that is reported as matcher_path.
OnlyMeant ==
  Done => \A c \in DOMAIN output :
    /\ Denotes(output[c].matcher_path, components)
    /\ \E k \in DOMAIN endpoints[output[c].endpoint].matches :
         Denotes(endpoints[output[c].endpoint].matches[k], components)

\* No category is lost, though globs share keys and endpoints override each other: it
\* is configured when an endpoint enables it with a glob that denotes the path and has
\* "**" at its end only.  Nor is a token extractor (lib.rs:371, 376-397).
NoneLost ==
  Done => \A e \in DOMAIN endpoints : \A k \in DOMAIN endpoints[e].matches :
    LET g == endpoints[e].matches[k]
    IN ManyIsLast(g) /\ Denotes(g, components) =>
         /\ DOMAIN endpoints[e].config \subseteq DOMAIN output
         /\ endpoints[e].token_extractor => token_extractor # 0

Narrower(g, h) ==
  /\ \A path \in Paths : Denotes(g, path) => Denotes(h, path)
  /\ \E path \in Paths : Denotes(h, path) /\ ~Denotes(g, path)

\* Components as PathGlob means them: a partial one matches more than one name, and not
\* each.
PartialComponent(x) ==
  \E names \in SUBSET Names : /\ x = Globish(names) /\ names # Names
                              /\ \E y, z \in names : y # z
Proper(x) ==
  x = AnyOne \/ x = AnyMany \/ PartialComponent(x) \/ \E name \in Names : x = Literal(name)

\* No partial component of one is narrower than that of the other at its place: the order
\* counts the partial components and does not compare them, so that "ab*" and "a*" are
\* equal (path_glob.rs 155-162).
Apart(g, h) ==
  \A k \in DOMAIN g \cap DOMAIN h :
    g[k].kind = "globish" /\ h[k].kind = "globish" /\ g[k].names \subseteq h[k].names =>
      g[k].names = h[k].names

OrderTells(g, h) ==
  /\ Apart(g, h)
  /\ \A k \in DOMAIN g : Proper(g[k])
  /\ \A k \in DOMAIN h : Proper(h[k])

\* Of two globs of one length, the one that denotes fewer paths configures a category
\* that both do (lib.rs:316-317), unless it is narrower by a partial component only: two
\* such globs share a key, and the endpoint that comes later wins, be it the wider one.
NarrowerWins ==
  Done => \A c \in DOMAIN output : \A g \in GlobsFor(c) :
    LET h == output[c].matcher_path
    IN Len(g) = Len(h) /\ OrderTells(g, h) /\ MatchesComponents(g, components) =>
         ~Narrower(g, h)

(***************************************************************************)
(* Statements of the documentation that the code does not keep.            *)
(***************************************************************************)
\* POLICY.md:152: "**" matches an arbitrary number of components, so each endpoint
\* whose glob denotes the path configures its categories.
AllMeant ==
  Done => \A c \in UNION {DOMAIN endpoints[e].config : e \in DOMAIN endpoints} :
    (\E g \in GlobsFor(c) : Denotes(g, components)) => c \in DOMAIN output

\* lib.rs:317: the most specific endpoint configuration takes precedence, globs of
\* different lengths included, and those that differ in how much a partial component
\* matches.
MostSpecificWins ==
  Done => \A c \in DOMAIN output : \A g \in GlobsFor(c) :
    MatchesComponents(g, components) => ~Narrower(g, output[c].matcher_path)

\* POLICY.md:193: the report style of an endpoint overrides the policy's.
EndpointStyleUsed ==
  Done => \A c \in DOMAIN output :
    LET e == endpoints[output[c].endpoint]
    IN e.config[c].report_style = Unset /\ e.report_style # Unset =>
         output[c].report_style = e.report_style
=============================================================================
