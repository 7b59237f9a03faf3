------------------------------ MODULE MCPathPolicy ------------------------------
(* Instances of PathPolicy for TLC. *)
EXTENDS PathPolicy, SequencesExt, TLC

CONSTANTS a, b, c, d, k1, k2

MCNames == {a, b, c, d}

\* Every kind of component; a partial one matches some names, not all, and one of them
\* more than another.
MCGlobs ==
  {<<Literal(a)>>, <<AnyMany>>, <<Literal(a), Literal(b)>>, <<Literal(a), AnyOne>>,
   <<Globish({a, b}), AnyOne>>, <<Globish({a, b, c}), AnyOne>>,
   <<Literal(a), Globish({b, c})>>,
   <<Literal(a), AnyMany>>, <<AnyMany, Literal(b)>>}

\* The globs are of up to two components; longer paths tell which "**" is where.
MCPaths == (SeqOf(MCNames, 2) \cup SeqOf({a, b}, 3)) \ {<< >>}

Style(s) == [style |-> s, report_bits |-> 0]
MCStyles == {Style("raw"), Style("none")}
MCRootStyle == Style("raw")

Config(style) ==
  [action |-> "unset", content_types |-> {}, contexts |-> {}, ignore |-> {},
   report_style |-> style]

Configs ==
  {(k1 :> Config(Unset)), (k1 :> Config(Style("none"))) @@ (k2 :> Config(Unset))}

\* The globs of the endpoints, with and without a style and a token extractor.
Endpoints(globs) ==
  {[matches |-> m, config |-> f, report_style |-> s[1], token_extractor |-> s[2]] :
     m \in globs, f \in Configs, s \in {<<Unset, FALSE>>, <<Style("none"), TRUE>>}}

OneGlob == {<<g>> : g \in MCGlobs}
TwoGlobs == {<<<<Literal(a), AnyOne>>, <<Literal(a), AnyMany>>>>,
             <<<<Literal(a), Literal(b)>>, <<Globish({a, b}), AnyOne>>>>}

MCPolicies ==
  {<<e>> : e \in Endpoints(OneGlob)}
    \cup {<<e, f>> : e \in Endpoints(OneGlob), f \in Endpoints(OneGlob)}
    \cup {<<e, f>> : e \in Endpoints(TwoGlobs), f \in Endpoints(OneGlob)}
=============================================================================
