--------------------------- MODULE TestAssertions ----------------------------
(***************************************************************************)
(* The text of a test, as Python runs it and as PythonTestRunner writes it *)
(* for visible tests: an assertion that looks like an equality becomes     *)
(* three lines, so that a failure prints both sides.  Text is a sequence   *)
(* of tokens; what a failure prints is taken apart again for the hints of  *)
(* a repair.                                                               *)
(***************************************************************************)
EXTENDS Integers, Sequences, FiniteSets, SequencesExt, Selection

(* Operands, by what they evaluate to.  Those of Calls stand for a call of *)
(* the code under test, quoted for one with a double quote or with {} in   *)
(* it, braces for one with a dictionary.  Of the others, want is a literal *)
(* and name a variable of that value, true a comparison that always holds. *)
Calls == {"call", "quoted", "braces"}
Operands == Calls \cup {"want", "name", "message", "true", "actual", "expected"}
Keywords == {"assert", "actual=", "expected="}
Tokens == Operands \cup Keywords \cup
  {"not", "and", "or", "==", ",", ";", "newline", "(", ")", "open", "close"}

-----------------------------------------------------------------------------
(* How Python reads a text.  The brackets of depth are those of an         *)
(* expression and the quotes, open and close, of a rewritten message.      *)
Count(s, ts) == Cardinality({i \in DOMAIN s : s[i] \in ts})
Depth(s, i) == Count(SubSeq(s, 1, i - 1), {"(", "open"})
                 - Count(SubSeq(s, 1, i - 1), {")", "close"})
Quoted(s, i) == Count(SubSeq(s, 1, i - 1), {"open"})
                  > Count(SubSeq(s, 1, i - 1), {"close"})

PartsBetween(s, cuts) ==
  LET Cut(k) == CASE k = 0                 -> 0
                  [] k \in 1 .. Cardinality(cuts) -> Nth(cuts, k)
                  [] OTHER                 -> Len(s) + 1
  IN  [k \in 1 .. Cardinality(cuts) + 1 |-> SubSeq(s, Cut(k - 1) + 1, Cut(k) - 1)]

Parts(s, separators) ==
  PartsBetween(s, {i \in DOMAIN s : s[i] \in separators /\ Depth(s, i) = 0})

Statements(text) == Parts(text, {"newline", ";"})

SyntaxOK(text) ==
  /\ Depth(text, Len(text) + 1) = 0
  /\ \A k \in DOMAIN Statements(text) :
       LET st == Statements(text)[k]
       IN  \A i \in DOMAIN st :
             /\ st[i] \in Keywords => i = 1 \/ Quoted(st, i)
             /\ st[i] = "quoted" => ~ Quoted(st, i)

(* The value of an expression; bound has the values that are not fixed.    *)
ValueOf(operand, bound) ==
  CASE operand \in Calls                 -> bound.returned
    [] operand \in {"want", "name"}      -> "want"
    [] operand \in {"actual", "expected"} -> bound[operand]
    [] OTHER                             -> operand

Truth(b) == IF b THEN "true" ELSE "false"

Operand(e, bound) ==
  ValueOf(e[Min({i \in DOMAIN e : e[i] \in Operands})], bound)

Comparison(e, bound) ==
  LET sides == [k \in DOMAIN Parts(e, {"=="}) |-> Operand(Parts(e, {"=="})[k], bound)]
  IN  IF Len(sides) = 1 THEN sides[1]
      ELSE Truth(\A k \in 1 .. Len(sides) - 1 : sides[k] = sides[k + 1])

Negation(e, bound) ==
  IF Head(e) = "not" THEN Truth(Comparison(Tail(e), bound) = "false")
                     ELSE Comparison(e, bound)

(* The first value that decides, or the last one.                          *)
Decides(values, Stops(_)) ==
  LET deciding == {k \in DOMAIN values : Stops(values[k]) \/ k = Len(values)}
  IN  values[Min(deciding)]

Conjunction(e, bound) ==
  Decides([k \in DOMAIN Parts(e, {"and"}) |-> Negation(Parts(e, {"and"})[k], bound)],
          LAMBDA v : v = "false")

Disjunction(e, bound) ==
  Decides([k \in DOMAIN Parts(e, {"or"}) |-> Conjunction(Parts(e, {"or"})[k], bound)],
          LAMBDA v : v # "false")

Value(e, bound) ==
  IF Len(Parts(e, {","})) > 1 THEN "tuple" ELSE Disjunction(e, bound)

(* What a test with these statements knows before the k-th of them.        *)
Bound(statements, k, returned) ==
  LET unset == [returned |-> returned, actual |-> "unset", expected |-> "unset"]
      Assigned(keyword) ==
        LET places == {j \in 1 .. k - 1 : Head(statements[j]) = keyword}
        IN  IF places = {} THEN "unset" ELSE Value(Tail(statements[Max(places)]), unset)
  IN  [unset EXCEPT !.actual = Assigned("actual="), !.expected = Assigned("expected=")]

Condition(assertion) == Parts(Tail(assertion), {","})[1]

(* The assertions that do not hold, when the code under test returns this. *)
Failing(text, returned) ==
  LET statements == Statements(text)
  IN  {k \in DOMAIN statements :
         /\ Head(statements[k]) = "assert"
         /\ Value(Condition(statements[k]), Bound(statements, k, returned)) = "false"}

Holds(text, returned) == SyntaxOK(text) /\ Failing(text, returned) = {}

-----------------------------------------------------------------------------
(* _enhance_simple_equality_asserts, which reads a text line by line and   *)
(* knows no brackets, statements or operators but the first "==".          *)
Lines(text) == PartsBetween(text, {i \in DOMAIN text : text[i] = "newline"})

LooksLikeEquality(line) ==
  /\ Len(line) > 0 /\ line[1] = "assert"
  /\ \E i \in 3 .. Len(line) - 1 : line[i] = "=="

(* Mutant: a conjunction is taken for an equality.                         *)
IsRewrittenWithAnd(line) ==
  /\ LooksLikeEquality(line)
  /\ ~ \E i \in 1 .. Len(line) - 2 :
         line[i] = "==" /\ line[i + 1] = "name" /\ line[i + 2] = ","

IsRewritten(line) ==
  /\ LooksLikeEquality(line)
  /\ ~ Contains(line, "and")
  /\ ~ \E i \in 1 .. Len(line) - 2 :
         line[i] = "==" /\ line[i + 1] = "name" /\ line[i + 2] = ","

Rewritten(line) ==
  LET at == Min({i \in 3 .. Len(line) : line[i] = "=="})
      left == SubSeq(line, 2, at - 1)
      right == SubSeq(line, at + 1, Len(line))
  IN  <<"actual=">> \o left \o <<"newline", "expected=">> \o right \o
      <<"newline", "assert", "actual", "==", "expected", ",", "open">> \o left \o <<"close">>

Enhanced(text) ==
  LET lines == Lines(text)
      new == [k \in DOMAIN lines |->
                IF IsRewritten(lines[k]) THEN Rewritten(lines[k]) ELSE lines[k]]
  IN  Tail(FlattenSeq([k \in DOMAIN new |-> <<"newline">> \o new[k]]))
=============================================================================
