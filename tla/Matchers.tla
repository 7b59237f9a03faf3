------------------------------- MODULE Matchers -------------------------------
(***************************************************************************)
(* What the task of a response matches and reports: the configuration of   *)
(* its path (PathPolicy) decides which categories are prepared for HTML,   *)
(* for the keys and for the values of JSON (html.rs 36-80, json/mod.rs     *)
(* 18-123); each text is then evaluated (evaluator.rs 57-271) and what is  *)
(* found is reported in the style of its category (policy.rs 44-62).       *)
(*                                                                         *)
(* A text is a sequence of bytes; "lead" and "cont" are the two bytes of a *)
(* character that takes two.  A regex is the sequence of the words that it *)
(* stands for, the first one preferred.  Which of the pairs of a Correlate *)
(* category are reported is Correlate's: here it may be any of them.  The  *)
(* order of the reports and of the IndexMap is left open.                  *)
(***************************************************************************)
EXTENDS PathPolicy, LowEntropyHash, SequencesExt

CONSTANTS
  Bytes,        \* the bytes of texts
  Categories,   \* policy.categories, as written
  Cases         \* the endpoints, paths and responses considered

\* A piece of HTML is scanned for "html", what a JSON body has for "keys" and "values".
WellFormed(r) ==
  r.texts \in Seq([context : IF r.content_type = "html" THEN {"html"} ELSE {"keys", "values"},
                   bytes : Seq(Bytes), offset : Nat, minimum_end_index : Nat])

ASSUME CasesAssumption ==
  \A case \in Cases :
    WellTyped(case.endpoints) /\ case.path \in Seq(Names) /\ WellFormed(case.response)

VARIABLES
  response,     \* [content_type, texts]; a text is [context, bytes, offset, minimum_end_index]
  unprepared,   \* the categories that the loop over the configuration has yet to visit
  states,       \* context |-> MatcherState
  text,         \* the next text
  matches, key_matches,
  phase,        \* "path", "task", "done" or "panicked"
  panic         \* what the task panicked at

task == <<unprepared, states, text, matches, key_matches, phase, panic>>
allvars == <<vars, response, task>>

Contexts == {"html", "keys", "values"}
NoMatchers == [correlation_index |-> 0, raws |-> << >>, regexes |-> << >>]
NoCorrelation == [correlation_index |-> 0, is_second |-> FALSE]

TaskInit ==
  /\ \E case \in Cases : Start(case.endpoints, case.path) /\ response = case.response
  /\ unprepared = {}
  /\ states = [c \in Contexts |-> NoMatchers]
  /\ text = 1
  /\ matches = {} /\ key_matches = {}
  /\ phase = "path"
  /\ panic = "none"

\* get_path_config, with the headers of the request.
Configure == phase = "path" /\ Next /\ UNCHANGED <<response, task>>

\* The task is made when the response is of a type that is scanned.
Begin ==
  /\ phase = "path" /\ Done
  /\ response.content_type \in {"html", "json"}
  /\ phase' = "task"
  /\ unprepared' = DOMAIN output
  /\ UNCHANGED <<vars, response, states, text, matches, key_matches, panic>>

-----------------------------------------------------------------------------
(***************************************************************************)
(* prepare_match_state and prepare_matches.                                *)
(***************************************************************************)
EmptyGroup == [raw |-> << >>, regexes |-> << >>, regex_strip |-> 0, direct |-> << >>,
               ignore |-> {}]

\* MatchGroupRef is untagged: any map is an Inline group, and a group of which no field
\* is there is empty.  So is what was written as a reference, `name: ...`.
MatchGroup(ref) == IF ref.name # "" THEN EmptyGroup ELSE ref.group

\* What the types of the policy say, and that no word is empty.
Word == Seq(Bytes) \ {<< >>}
IsGroup(group) ==
  group.raw \in Seq(Word) /\ group.regexes \in Seq(Seq(Word)) /\ group.regex_strip \in Nat

ASSUME CategoriesAssumption ==
  \A c \in DOMAIN Categories :
    LET category == Categories[c]
    IN \/ category.kind = "matchers" /\ IsGroup(category.group)
       \/ /\ category.kind = "correlate"
          /\ IsGroup(MatchGroup(category.group1)) /\ IsGroup(MatchGroup(category.group2))
          /\ category.interest \in {"group1", "group2", "all"}
       \/ category.kind = "rematch"

PrepareMatchGroup(state, group, metadata, extra_ignore) ==
  [state EXCEPT
     !.raws = @ \o [k \in DOMAIN group.raw |->
                      [metadata |-> metadata, raw |-> group.raw[k]]],
     !.regexes = @ \o [k \in DOMAIN group.regexes |->
                         [metadata |-> metadata, regex |-> group.regexes[k],
                          regex_strip |-> group.regex_strip,
                          ignore |-> extra_ignore \cup group.ignore]]]

\* Faulty variant: each Correlate category gets the same index.
SameIndex(index) == 1
\* From 1, as 0 stands for none.
NextIndex(index) == index + 1

PrepareCorrelate(state, category, metadata, extra_ignore) ==
  LET index == NextIndex(state.correlation_index)
      half(second) == [metadata EXCEPT !.correlation.correlation_index = index,
                                       !.correlation.is_second = second]
      first == PrepareMatchGroup([state EXCEPT !.correlation_index = index],
                                 MatchGroup(category.group1), half(FALSE), extra_ignore)
  IN PrepareMatchGroup(first, MatchGroup(category.group2), half(TRUE), extra_ignore)

\* A category that is not there, and a Rematch, is logged and skipped.
PrepareMatches(state, name, metadata, extra_ignore) ==
  LET category == Categories[name]
  IN CASE name \notin DOMAIN Categories -> state
       [] name \in DOMAIN Categories /\ category.kind = "matchers" ->
            PrepareMatchGroup(state, category.group, metadata, extra_ignore)
       [] name \in DOMAIN Categories /\ category.kind = "correlate" ->
            PrepareCorrelate(state, category, metadata, extra_ignore)
       [] OTHER -> state

\* todo!() for each entry of `direct`.
HasDirect(name) ==
  /\ name \in DOMAIN Categories
  /\ LET category == Categories[name]
     IN \/ category.kind = "matchers" /\ category.group.direct # << >>
        \/ /\ category.kind = "correlate"
           /\ \/ MatchGroup(category.group1).direct # << >>
              \/ MatchGroup(category.group2).direct # << >>

ActionOf(config) == IF config.action = "unset" THEN "alert" ELSE config.action

\* Faulty variant: an empty list admits nothing.
Listed(list, x) == x \in list
Admits(list, x) == list = {} \/ x \in list

\* The states that a category is prepared for.
UsedContexts(config) ==
  IF ~Admits(config.content_types, response.content_type) \/ ActionOf(config) = "ignore"
  THEN {}
  ELSE IF response.content_type = "html" THEN {"html"}
  ELSE {c \in {"keys", "values"} : Admits(config.contexts, c)}

Metadata(name) ==
  [policy_path |-> output[name].matcher_path, category_name |-> name,
   action |-> ActionOf(output[name].category_config),
   local_report_style |-> output[name].report_style,
   correlation |-> NoCorrelation]

\* One iteration of the loop over the configuration.
PrepareCategory(name) ==
  LET config == output[name].category_config
      used == UsedContexts(config)
  IN /\ phase = "task"
     /\ name \in unprepared
     /\ unprepared' = unprepared \ {name}
     /\ states' = [c \in Contexts |->
                     IF c \in used
                     THEN PrepareMatches(states[c], name, Metadata(name), config.ignore)
                     ELSE states[c]]
     /\ IF used # {} /\ HasDirect(name)
        THEN phase' = "panicked" /\ panic' = "direct"
        ELSE UNCHANGED <<phase, panic>>
     /\ UNCHANGED <<vars, response, text, matches, key_matches>>

-----------------------------------------------------------------------------
(***************************************************************************)
(* evaluate.                                                               *)
(***************************************************************************)
IsAt(source, i, word) ==
  /\ i + Len(word) - 1 <= Len(source)
  /\ SubSeq(source, i, i + Len(word) - 1) = word

\* From left to right, none overlapping another: find_iter, and the loop for a raw
\* value, which is the case of a single word.
FindIter(source, words) ==
  LET at(i) == {k \in DOMAIN words : IsAt(source, i, words[k])}
      from[i \in 1 .. Len(source) + 1] ==
        IF i > Len(source) THEN << >>
        ELSE IF at(i) = {} THEN from[i + 1]
        ELSE LET next == i + Len(words[Min(at(i))])
             IN <<[start |-> i - 1, end |-> next - 1]>> \o from[next]
  IN from[1]

RawMatches(raw, source) ==
  {[metadata |-> raw.metadata, start |-> m.start, length |-> m.end - m.start] :
     m \in ToSet(FindIter(source, <<raw.raw>>))}

\* An ignored text is compared before it is stripped; regex_strip counts bytes.
Stripped(regex, m) ==
  LET start == m.start + regex.regex_strip
  IN [metadata |-> regex.metadata, start |-> start,
      length |-> Max({0, m.end - (start + regex.regex_strip)})]

RegexMatches(regex, source) ==
  LET ignored(m) == SubSeq(source, m.start + 1, m.end) \in regex.ignore
  IN {Stripped(regex, m) : m \in {x \in ToSet(FindIter(source, regex.regex)) : ~ignored(x)}}

Evaluate(state, source) ==
  (UNION {RawMatches(raw, source) : raw \in ToSet(state.raws)})
    \cup (UNION {RegexMatches(regex, source) : regex \in ToSet(state.regexes)})

-----------------------------------------------------------------------------
(***************************************************************************)
(* do_matching and evaluate_report_style.                                  *)
(***************************************************************************)
EndOf(m) == m.start + m.length

\* &body[start..end] panics unless both are between two characters.
Boundary(source, p) == p = Len(source) \/ (p < Len(source) /\ source[p + 1] # "cont")
Sliceable(source, m) == Boundary(source, m.start) /\ Boundary(source, EndOf(m))

Showable(style) == style.style = "partial_sha256" => Hashable(style.report_bits)

MatchedValue(style, bytes) ==
  CASE style.style = "raw" -> [text |-> bytes, shown |-> {}]
    [] style.style = "partial_sha256" -> [text |-> << >>, shown |-> Fmt(style.report_bits).shown]
    [] style.style = "sha256" -> [text |-> << >>, shown |-> 0 .. 255]
    [] style.style = "none" -> [text |-> << >>, shown |-> {}]

\* What is to be reported of a pair; both have the style of their category.
PairSpan(first, second) ==
  LET start == Min({first.start, second.start})
      whole == [first EXCEPT !.start = start,
                             !.length = Max({EndOf(first), EndOf(second)}) - start]
      interest == Categories[first.metadata.category_name].interest
  IN CASE interest = "group1" -> first
       [] interest = "group2" -> second
       [] interest = "all" -> whole

Half(m, second) ==
  m.metadata.correlation.correlation_index # 0 /\ m.metadata.correlation.is_second = second

\* The pairs of matches with one correlation_index.
Candidates(found) ==
  {pair \in {m \in found : Half(m, FALSE)} \X {m \in found : Half(m, TRUE)} :
     pair[1].metadata.correlation.correlation_index
       = pair[2].metadata.correlation.correlation_index}

\* What do_matching reports, each with the matches it is made of.
Spans(found, pairs) ==
  {[span |-> m, of |-> <<m>>] : m \in {x \in found : x.metadata.correlation = NoCorrelation}}
    \cup {[span |-> PairSpan(p[1], p[2]), of |-> p] : p \in pairs}

Part(t, m) == SubSeq(t.bytes, m.start + 1, EndOf(m))

Report(t, s) ==
  LET metadata == s.of[1].metadata
  IN [category_name |-> metadata.category_name, matcher_path |-> metadata.policy_path,
      action_taken |-> metadata.action, style |-> metadata.local_report_style,
      global_start_position |-> s.span.start + t.offset, global_length |-> s.span.length,
      matched_value |-> MatchedValue(metadata.local_report_style, Part(t, s.span)),
      text |-> text, parts |-> [k \in DOMAIN s.of |-> Part(t, s.of[k])]]

IsNew(t, m) == m.start + t.offset + m.length > t.minimum_end_index

\* One call of do_matching.
DoMatching ==
  /\ phase = "task" /\ unprepared = {}
  /\ text <= Len(response.texts)
  /\ LET t == response.texts[text]
         found == {m \in Evaluate(states[t.context], t.bytes) : IsNew(t, m)}
     IN \E pairs \in SUBSET Candidates(found) :
          LET spans == Spans(found, pairs)
              cut == \E s \in spans : ~Sliceable(t.bytes, s.span)
              unshown == \E s \in spans : ~Showable(s.of[1].metadata.local_report_style)
              reports == {Report(t, s) : s \in spans}
          IN IF cut \/ unshown
             THEN /\ phase' = "panicked"
                  /\ panic' = IF cut THEN "slice" ELSE "report_bits"
                  /\ UNCHANGED <<text, matches, key_matches>>
             ELSE /\ text' = text + 1
                  /\ IF t.context = "keys"
                     THEN key_matches' = key_matches \cup reports /\ UNCHANGED matches
                     ELSE matches' = matches \cup reports /\ UNCHANGED key_matches
                  /\ UNCHANGED <<phase, panic>>
  /\ UNCHANGED <<vars, response, unprepared, states>>

\* matching.unwrap(): the search for a regex can give up in the middle of a text.
RegexFails ==
  /\ phase = "task" /\ unprepared = {}
  /\ text <= Len(response.texts)
  /\ states[response.texts[text].context].regexes # << >>
  /\ phase' = "panicked" /\ panic' = "regex"
  /\ UNCHANGED <<vars, response, unprepared, states, text, matches, key_matches>>

\* The body ends, and the matches of keys follow those of values.
Finish ==
  /\ phase = "task" /\ unprepared = {}
  /\ text > Len(response.texts)
  /\ phase' = "done"
  /\ matches' = matches \cup key_matches
  /\ UNCHANGED <<vars, response, unprepared, states, text, key_matches, panic>>

TaskNext ==
  \/ Configure
  \/ Begin
  \/ \E name \in unprepared : PrepareCategory(name)
  \/ DoMatching
  \/ RegexFails
  \/ Finish

TaskSpec == TaskInit /\ [][TaskNext]_allvars

-----------------------------------------------------------------------------
(***************************************************************************)
(* Properties.                                                             *)
(***************************************************************************)
\* What the documentation says of a MatchConfig (POLICY.md 197-199).
Wants(config, context) ==
  /\ config.action # "ignore"
  /\ config.content_types # {} => response.content_type \in config.content_types
  /\ context \in {"keys", "values"} /\ config.contexts # {} => context \in config.contexts

\* What a group looks for, as it is to be reported.
Strip(word, n) == SubSeq(word, n + 1, Len(word) - n)
Words(group) ==
  ToSet(group.raw)
    \cup UNION {{Strip(w, group.regex_strip) : w \in ToSet(group.regexes[k])} :
                  k \in DOMAIN group.regexes}

Groups(category) ==
  IF category.kind = "matchers" THEN <<category.group>>
  ELSE <<MatchGroup(category.group1), MatchGroup(category.group2)>>

\* Every match that is reported is of a category that is wanted in this kind of text by
\* the endpoint whose configuration of it applies to the path, be there others that it
\* overrides; and it consists of what that category looks for: the parts of a correlation
\* are never of two categories (json/mod.rs 26-94, evaluator.rs 137-153).
OnlyConfigured ==
  \A m \in matches \cup key_matches :
    LET name == m.category_name
        groups == Groups(Categories[name])
        from == endpoints[output[name].endpoint]
    IN /\ name \in DOMAIN from.config
       /\ Wants(from.config[name], response.texts[m.text].context)
       /\ \E k \in DOMAIN from.matches : Denotes(from.matches[k], components)
       /\ Len(m.parts) = Len(groups)
       /\ \A k \in DOMAIN groups : m.parts[k] \in Words(groups[k])

\* Where a word is in a text, and whether that is in what was looked through before.
Occurrences(t, word) == {s \in 0 .. Len(t.bytes) - Len(word) : IsAt(t.bytes, s + 1, word)}
Seen(t, word, s) == s + t.offset + Len(word) <= t.minimum_end_index

\* The raw values of a category that are not among its exceptions, or those of its
\* configuration for the path.
Sought(c) ==
  ToSet(Categories[c].group.raw)
    \ (Categories[c].group.ignore \cup output[c].category_config.ignore)

\* When the body ends, each raw value of a category that the path's configuration wants
\* was reported wherever it is; where it overlaps another place of itself, the first one
\* was, or was looked through before.  What is in a list of exceptions need not be
\* reported (POLICY.md:16, 201), though raw values are (evaluator.rs 164-193).
EachWordReported ==
  phase = "done" => \A c \in DOMAIN output \cap DOMAIN Categories, k \in DOMAIN response.texts :
    LET t == response.texts[k]
    IN Categories[c].kind = "matchers" /\ Wants(output[c].category_config, t.context) =>
         \A word \in Sought(c) : \A s \in Occurrences(t, word) :
           \E first \in Occurrences(t, word) :
             /\ first <= s /\ s < first + Len(word)
             /\ \/ Seen(t, word, first)
                \/ \E m \in matches :
                     /\ m.category_name = c /\ m.text = k /\ m.parts = <<word>>
                     /\ m.global_start_position = first + t.offset

\* A partial digest begins with the first bit of the hash and has no gap, so that equal
\* matches have equal reports whatever their report_bits (low_entropy_hash.rs 29-64).
FirstBits ==
  \A m \in matches : m.style.style = "partial_sha256" =>
    /\ m.matched_value.text = << >>
    /\ 0 \in m.matched_value.shown
    /\ m.matched_value.shown = 0 .. Max(m.matched_value.shown)

(***************************************************************************)
(* Statements of the documentation that the code does not keep.            *)
(***************************************************************************)
\* POLICY.md:67: regex_strip strips the first and last character from the match.
StripsCharacters == panic # "slice"

\* POLICY.md:214: report_bits is the number of bits that are reported.
ReportsBits ==
  \A m \in matches : m.style.style = "partial_sha256" =>
    Cardinality(m.matched_value.shown) = m.style.report_bits

\* POLICY.md:201: what is in the list of exceptions is ignored.
IgnoredNotReported ==
  \A m \in matches :
    LET config == output[m.category_name].category_config
    IN \A k \in DOMAIN m.parts : m.parts[k] \notin config.ignore

=============================================================================
