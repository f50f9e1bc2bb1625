-------------------------- MODULE MCHttpExchange ---------------------------
(***************************************************************************)
(* Instances of HttpExchange for TLC.                                      *)
(***************************************************************************)
EXTENDS HttpExchange

MCTokens == {"200", "invalid", "length", "type", "length2", "no colon", "text", "more",
             "Content-Length", "Content-Type", "4", "5"}

MCHeaderTexts ==
  [length  |-> [name |-> <<"Content-Length">>, value |-> <<"4">>],
   type    |-> [name |-> <<"Content-Type">>, value |-> <<"text">>],
   length2 |-> [name |-> <<"Content-Length">>, value |-> <<"5">>]]

\* Lines, each with its end.
Ended(lines) == FlattenSeq([i \in DOMAIN lines |-> <<lines[i]>> \o Line])

\* An answer with a header and a body that has a blank line itself, one without
\* headers, one with neither headers nor a body, one of another version, one
\* with a header that comes twice, one with lines that have no colon, and two with
\* a "cr" too many, behind which the lines are shifted.
MCOtherReplies ==
  {Ended(<<"200", "length">>) \o Line \o <<"text">> \o BlankLine \o <<"more">>,
   Ended(<<"200">>) \o Line \o <<"text">> \o BlankLine \o <<"more">>,
   Ended(<<"200">>) \o Line,
   Ended(<<"invalid", "length">>) \o Line \o <<"text">>,
   Ended(<<"200", "length", "type", "length2">>) \o Line \o <<"text">>,
   Ended(<<"200", "no colon", "length", "type", "no colon">>) \o Line \o <<"text">>,
   Ended(<<"200">>) \o <<"length", "cr">> \o BlankLine \o <<"text">> \o BlankLine \o <<"more">>,
   Ended(<<"200">>) \o <<"type", "cr">> \o Line \o <<"length">> \o BlankLine \o <<"text">>}
=============================================================================
