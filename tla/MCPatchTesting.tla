--------------------------- MODULE MCPatchTesting ----------------------------
(***************************************************************************)
(* Two files, of which the patch and the tests may each have any, one with *)
(* "hidden" in its name; commands that print nothing, an error under a     *)
(* line that asserts, or a line of the tests without a marker; and tests   *)
(* that are rewritten, or not, in each way that keeps their meaning.       *)
(***************************************************************************)
EXTENDS PatchTesting

CONSTANTS source, test

MCFiles == {source, test}
MCHiddenNames == {test}

Error     == [says |-> <<"error">>, is |-> {"marked"}]
Assertion == [says |-> <<"assert", "helper">>, is |-> Traits]
Unmarked  == [says |-> <<"helper">>, is |-> {"source"}]

(* expected = ..., or a helper called with what the code got.              *)
Marked    == [says |-> <<"helper", "expected">>, is |-> {"marked", "source"}]

MCPrints == {<< >>, <<Assertion, Error, Unmarked>>}
MCMarkedPrints == MCPrints \cup {<<Marked, Error>>}

(* assert total(x) == 3                                                    *)
Equality == <<"assert", "call", "==", "want">>
MCTexts ==
  {Equality,
   Equality \o <<"newline">> \o Equality,
   <<"assert", "want", "==", "call">>,                       \* reversed
   <<"assert", "braces", "==", "want">>,                     \* total({'a': 1}) == 3
   <<"assert", "call", "==", "want", "and", "call", "==", "name">>,
   <<"assert", "call", "==", "name", ",", "message">>,
   <<"call", ";", "assert", "call", "==", "want">>,
   <<"assert", "not", "call", "==", "want", "and", "true">>}

MCPlainTexts == {Equality}

(* Lines of the visible tests of two tasks of the Coding v1 suite, where   *)
(* the first "==" of the line is that of a lambda, or of another statement *)
(* than the first:                                                         *)
(*   assert find_first([1,4,6],lambda x:x%2==0) == 4                       *)
(*   assert b.consume(2) is False; b.refill(9); assert b.tokens == 3       *)
MCShippedTexts ==
  {<<"assert", "call", "(", "name", "==", "want", ")", "==", "want">>,
   <<"assert", "true", ";", "call", ";", "assert", "call", "==", "want">>}
=============================================================================
