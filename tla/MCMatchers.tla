------------------------------ MODULE MCMatchers ------------------------------
(* Instances of Matchers for TLC: every case of MCPathPolicy with a response that *)
(* is not scanned, and fewer policies and paths with responses that are.          *)
EXTENDS MCPathPolicy, Matchers

Digit == "1"
AB == <<"a", "b">>
MCBytes == {"a", "b", "-", Digit, "lead", "cont"}

\* A number between two characters that are no digits, which are stripped.
Around == <<<<"-">>, <<"a">>, <<"b">>, <<"lead", "cont">>>>
Number == [k \in 1 .. 16 |-> Around[((k - 1) \div 4) + 1] \o <<Digit>> \o Around[((k - 1) % 4) + 1]]

Group(raw, regexes, strip) ==
  [raw |-> raw, regexes |-> regexes, regex_strip |-> strip, direct |-> << >>, ignore |-> {}]
Inline(group) == [name |-> "", group |-> group]
Reference(name) == [name |-> name, group |-> EmptyGroup]

Correlation(group1, group2, interest) ==
  [kind |-> "correlate", group1 |-> group1, group2 |-> group2, interest |-> interest]

MCCategories ==
  "word" :> [kind |-> "matchers", group |-> Group(<<AB, <<"-">>>>, << >>, 0)]
    @@ "number" :> [kind |-> "matchers", group |-> Group(<<<<"b">>>>, <<Number>>, 1)]
    @@ "near_all" :> Correlation(Inline(Group(<<AB>>, << >>, 0)),
                                 Inline(Group(<< >>, <<Number>>, 1)), "all")
    @@ "near_first" :> Correlation(Inline(Group(<<<<"-">>>>, << >>, 0)),
                                   Inline(Group(<<<<"b">>, <<"a">>>>, << >>, 0)), "group1")
    @@ "near_second" :> Correlation(Inline(Group(<<<<"-">>>>, << >>, 0)),
                                    Inline(Group(<< >>, <<Number>>, 1)), "group2")
    @@ "named" :> Correlation(Reference("word"), Inline(Group(<<<<"b">>>>, << >>, 0)), "all")
    @@ "chain" :> [kind |-> "matchers", group |-> Group(<<<<"-", Digit, "-">>>>, << >>, 0)]
    @@ "rematched" :> [kind |-> "rematch"]
    @@ "native" :> [kind |-> "matchers",
                    group |-> [Group(<<AB>>, << >>, 0) EXCEPT !.direct = <<"ssn">>]]

-----------------------------------------------------------------------------
Text(context, bytes, offset, minimum_end_index) ==
  [context |-> context, bytes |-> bytes, offset |-> offset,
   minimum_end_index |-> minimum_end_index]

\* A key, a value and another key of a JSON body.
Json ==
  [content_type |-> "json",
   texts |-> <<Text("keys", AB, 2, 0),
               Text("values", <<"a", "b", "-", Digit, "-">>, 7, 0),
               Text("keys", <<"b", Digit, "b">>, 15, 0)>>]

\* Two pieces of an HTML body; the second begins with the last three bytes of the first.
Html ==
  [content_type |-> "html",
   texts |-> <<Text("html", <<"a", "b", "-", Digit, "-">>, 0, 0),
               Text("html", <<"-", Digit, "-", "a", "b">>, 2, 5)>>]

NotScanned == [content_type |-> "unknown", texts |-> << >>]

\* With a character of two bytes beside the number.
Accented ==
  [content_type |-> "json",
   texts |-> <<Text("values", <<"a", "lead", "cont", Digit, "-">>, 1, 0)>>]

\* With places of a word that overlap, one of them in both pieces.
Chained ==
  LET bytes == <<"-", Digit, "-", Digit, "-">>
  IN [content_type |-> "html", texts |-> <<Text("html", bytes, 0, 0), Text("html", bytes, 2, 5)>>]

-----------------------------------------------------------------------------
Partial(bits) == [style |-> "partial_sha256", report_bits |-> bits]

MatchConfigs(names, actions, styles) ==
  UNION {{name :> [action |-> x, content_types |-> t, contexts |-> s, ignore |-> {},
                   report_style |-> y] :
            x \in actions, t \in SUBSET {"html", "json"}, s \in SUBSET {"keys", "values"},
            y \in styles} : name \in names}

EndpointFor(m, config) ==
  [matches |-> <<m>>, config |-> config, report_style |-> Unset, token_extractor |-> FALSE]

Anywhere == <<AnyMany>>
Below == <<Literal(a), AnyMany>>

Scanned(policies, responses) ==
  [endpoints : policies, path : {<<a, b>>}, response : responses]

\* One category in two endpoints.
Overridden(names) ==
  LET configs == MatchConfigs(names, {"unset", "ignore"}, {Unset})
  IN {<<EndpointFor(Anywhere, f), EndpointFor(Below, g)>> : f \in configs, g \in configs}

\* Two categories for one response.
Several(names) ==
  LET of(name) == MatchConfigs({name}, {"block"}, {Unset})
  IN UNION {{<<EndpointFor(Anywhere, f @@ g)>> : f \in of(names[p[1]]), g \in of(names[p[2]])} :
              p \in {q \in (DOMAIN names) \X (DOMAIN names) : q[1] < q[2]}}

\* Every number of bits up to two bytes, and the largest.
Bits == 1 .. 17 \cup {248, 255, 256}
Hashed ==
  LET one(style) == Config(style)
  IN {<<EndpointFor(Anywhere, "word" :> one(Partial(n)) @@ "number" :> one(s))>> :
        n \in Bits, s \in {Style("sha256"), Style("none"), Style("raw")}}

\* What the task panics at.
Panicking ==
  {<<EndpointFor(Anywhere, "word" :> Config(Partial(n)))>> : n \in {0, 257}}
    \cup {<<EndpointFor(Anywhere, f)>> : f \in MatchConfigs({"native"}, {"unset"}, {Unset})}

Ignoring ==
  {<<EndpointFor(Anywhere, "number" :> [Config(Unset) EXCEPT !.ignore = {w}])>> :
     w \in {<<"-", Digit, "-">>, <<"b">>, <<Digit>>}}

MCCases ==
  [endpoints : MCPolicies, path : MCPaths, response : {NotScanned}]
    \cup [endpoints : Overridden({"word"}), path : {<<a, b>>, <<b>>}, response : {Json, Html}]
    \cup Scanned(Several(<<"word", "number", "near_all", "near_first", "near_second">>), {Json})
    \cup Scanned(Several(<<"near_all", "near_first">>), {Html})
    \cup Scanned(Several(<<"word", "named">>), {Json})
    \cup Scanned(Several(<<"word", "rematched">>), {Html})
    \cup Scanned(Several(<<"number", "absent">>), {Html})
    \cup Scanned(Hashed \cup Panicking \cup Ignoring, {Json, Html})
    \cup Scanned(Several(<<"number", "near_second">>), {Accented})
    \cup Scanned({<<EndpointFor(Anywhere, f)>> : f \in MatchConfigs({"chain"}, {"unset"}, {Unset})},
                 {Chained})
=============================================================================
