------------------------------ MODULE MCSuite -------------------------------
(***************************************************************************)
(* Two repository tasks and two tasks of the other suites; the tests of    *)
(* one of each may time out or fail to start.                              *)
(***************************************************************************)
EXTENDS CodingCommand

CONSTANTS steady, shaky, plain, other, good, bad

MCVerdicts ==
  [task \in Tasks |-> [p \in Patches |->
     IF p = bad THEN {"failed"}
     ELSE IF task \in {shaky, other} THEN Verdict ELSE {"passed"}]]

MCSuiteOf ==
  [c \in Commands |->
     CASE c = "hard" -> <<plain, other>>
       [] c = "v1"   -> <<other, plain>>
       [] c = "repo" -> <<steady, shaky>>]

MCSuites == {MCSuiteOf[c] : c \in Commands}
MCLimits == {0, 1, 3}
=============================================================================
