---------------------------- MODULE FailureReport ----------------------------
(***************************************************************************)
(* What a failing test prints, and what becomes of it: the safe summary of *)
(* hidden failures, and the summary of visible ones from which the values  *)
(* expected and got are read for the repair.  Output is taken to be short  *)
(* enough to be kept: the ends of 2000 and 4000 characters that the runner *)
(* keeps of it, and the last 20 lines of the summary, are all of it here.  *)
(***************************************************************************)
EXTENDS TestAssertions

(* A line, by what it says and what the summaries look for in it: whether  *)
(* it starts with "assert ", has a marker such as "expected", or quotes    *)
(* the source of the tests.                                                *)
Traits == {"assert", "marked", "source"}

Heading(word) == [says |-> <<word>>, is |-> {}]
Note == [says |-> << >>, is |-> {}]
Printed(says) == [says |-> says, is |-> {}]

(* The line about the exit code of a command says which one was expected.  *)
ExitNote == [says |-> <<"exit">>, is |-> {"marked"}]

SyntaxErrorOutput == <<[says |-> <<"SyntaxError:">>, is |-> {"marked"}]>>

(* The message of a rewritten assertion, as its f-string makes it.  Braces *)
(* in the expression are fields of that string: they raise.                *)
MessageOutput(left, bound) ==
  IF Contains(left, "braces")
    THEN <<[says |-> <<"ValueError:">>, is |-> {"marked"}]>>
    ELSE <<[says |-> <<"AssertionError: Expression:">>, is |-> {"marked"}],
           [says |-> left, is |-> {"source"}],
           Heading("Expected:"), Printed(<<bound.expected>>),
           Heading("Got:"), Printed(<<bound.actual>>)>>

(* The traceback quotes the line that failed.                              *)
FailureOutput(text, returned) ==
  IF ~ SyntaxOK(text) THEN SyntaxErrorOutput
  ELSE LET statements == Statements(text)
           failing == Failing(text, returned)
           k == Min(failing)
           st == statements[k]
           quoted == [says |-> st, is |-> {"assert", "source"}]
           left == SubSeq(st, SelectInSeq(st, LAMBDA t : t = "open") + 1, Len(st) - 1)
       IN  <<quoted>> \o IF Contains(st, "open")
                           THEN MessageOutput(left, Bound(statements, k, returned))
                           ELSE <<Heading("AssertionError")>>

(* The statements of a text that call the code under test.                 *)
Calling(text) ==
  {k \in DOMAIN Statements(text) :
     LET st == Statements(text)[k]
     IN  \E i \in DOMAIN st : st[i] \in Calls /\ ~ Quoted(st, i)}

(* The code under test raises there, and the traceback quotes the line.    *)
(* The right side of a rewritten equality is on one with a marker, since   *)
(* it is assigned to __cgr_expected.                                       *)
RaisedOutput(st) ==
  <<[says |-> st, is |-> {"source"} \cup (IF Head(st) = "assert" THEN {"assert"} ELSE {})
                                    \cup (IF Head(st) = "expected=" THEN {"marked"} ELSE {})],
    [says |-> <<"TypeError:">>, is |-> {"marked"}]>>

-----------------------------------------------------------------------------
(* Mutant: lines that start with "assert " are not left out.               *)
SafeSummaryOfMarked(lines) ==
  LET safe == Selected(lines, {i \in DOMAIN lines : "marked" \in lines[i].is})
  IN  IF safe = << >> THEN <<Note>> ELSE safe

(* safe_hidden_failure_summary                                             *)
SafeSummary(lines) ==
  LET safe == Selected(lines, {i \in DOMAIN lines : /\ "marked" \in lines[i].is
                                                   /\ "assert" \notin lines[i].is})
  IN  IF safe = << >> THEN <<Note>> ELSE safe

-----------------------------------------------------------------------------
Says(lines, i, word) == i \in DOMAIN lines /\ lines[i].says = <<word>>

(* dict.fromkeys: of lines that say the same the first stays.              *)
Deduplicated(lines) ==
  LET says == [i \in DOMAIN lines |-> lines[i].says]
  IN  Selected(says, {i \in DOMAIN lines : \A j \in 1 .. i - 1 : says[j] # says[i]})

(* _expected_got_context_lines: the first block with both values.          *)
ExpectedGotContext(lines) ==
  LET Got(i) == SelectInSubSeq(lines, i + 2, IF i + 5 <= Len(lines) THEN i + 5 ELSE Len(lines),
                               LAMBDA line : line.says = <<"Got:">>)
      blocks == {i \in DOMAIN lines :
                   /\ Says(lines, i, "Expected:")
                   /\ Got(i) # 0 /\ Got(i) < Len(lines)}
      i == Min(blocks)
  IN  IF blocks = {} THEN << >>
      ELSE (IF i > 1 /\ ~ Says(lines, i - 1, "AssertionError: Expression:")
              THEN <<Heading("Expression:"), lines[i - 1]>> ELSE << >>)
           \o <<lines[i], lines[i + 1], Heading("Got:"), lines[Got(i) + 1]>>

HasSignal(line) ==
  \/ line.is \cap {"assert", "marked"} # {}
  \/ line.says \in {<<"AssertionError">>, <<"Expected:">>, <<"Got:">>}

Signals(lines) == Selected(lines, {i \in DOMAIN lines : HasSignal(lines[i])})

(* Mutant: the block comes after the lines with a signal.                  *)
SummarizeSignalsFirst(lines) ==
  Deduplicated(Signals(lines) \o ExpectedGotContext(lines) \o lines)

(* summarize_python_test_failure                                           *)
Summarize(lines) ==
  Deduplicated(ExpectedGotContext(lines) \o Signals(lines) \o lines)

(* _extract_expected_got_values: what is between the first heading and the *)
(* next must be one literal, and what follows that one.                    *)
Literals == {"want", "wrong", "true", "false", "tuple", "message"}
Literal(lines, i) ==
  IF i \in DOMAIN lines /\ Len(lines[i]) = 1 /\ lines[i][1] \in Literals
    THEN lines[i][1] ELSE "none"

ExtractExpectedGot(lines) ==
  LET e == SelectInSeq(lines, LAMBDA line : line = <<"Expected:">>)
      g == SelectInSubSeq(lines, e + 2, Len(lines) - 1, LAMBDA line : line = <<"Got:">>)
  IN  IF e = 0 \/ g = 0 THEN [expected |-> "none", got |-> "none"]
      ELSE [expected |-> IF g = e + 2 THEN Literal(lines, e + 1) ELSE "none",
            got |-> Literal(lines, g + 1)]
=============================================================================
