-------------------------- MODULE ExecutionLedger ---------------------------
(***************************************************************************)
(* What the kernel promises about executions, without a bus, a registry or *)
(* a call stack: executions are numbered as they begin, the last one begun *)
(* is the first one to end, and an execution whose plugin was called ends  *)
(* with an outcome, if plugins can be trusted to return results.           *)
(***************************************************************************)
EXTENDS Naturals, Sequences

CONSTANT Trusted

VARIABLES
  open,       \* the numbers of the executions in progress
  outcome     \* [1..n -> status], n the number of executions begun

ledgerVars == <<open, outcome>>

(* Of the executions in progress, the one begun last.                      *)
Innermost == CHOOSE run \in open : \A other \in open : other <= run

Init == open = {} /\ outcome = << >>

Begin ==
  /\ open' = open \cup {Len(outcome) + 1}
  /\ outcome' = Append(outcome, "begun")

Work ==
  /\ open # {}
  /\ outcome[Innermost] = "begun"
  /\ outcome' = [outcome EXCEPT ![Innermost] = "working"]
  /\ UNCHANGED open

Close(from, to) ==
  /\ open # {}
  /\ outcome[Innermost] \in from
  /\ outcome' = [outcome EXCEPT ![Innermost] = to]
  /\ open' = open \ {Innermost}

Complete == Close({"working"}, "completed")
Fail == Close({"begun", "working"}, "failed")

(* An execution may end in silence before its plugin was called, or when   *)
(* the plugin gave what is no result.                                      *)
Abandon ==
  Close(IF Trusted THEN {"begun"} ELSE {"begun", "working"}, "abandoned")

Next == Begin \/ Work \/ Complete \/ Fail \/ Abandon

Spec == Init /\ [][Next]_ledgerVars
=============================================================================
