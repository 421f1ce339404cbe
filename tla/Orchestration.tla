---------------------------- MODULE Orchestration ---------------------------
(***************************************************************************)
(* The engines built on the kernel: competition and fusion run a request   *)
(* through every plugin that supports its capability, the benchmark runner *)
(* runs a routed request for every task of a suite, and the model pipeline *)
(* runs two routed requests and a fusion one after the other.              *)
(*                                                                         *)
(* An engine is a client of the kernel.  It works off an agenda of calls,  *)
(* made from what the registry holds when the engine looks at it; the      *)
(* plugins and handlers that run meanwhile may change the registry, but    *)
(* not the agenda.  Competition and fusion differ only in what they make   *)
(* of the outcomes, of which nothing but the status and the schema of the  *)
(* output is kept here.                                                    *)
(***************************************************************************)
EXTENDS KernelProperties, Selection

CONSTANTS
  ReasonCapability, CodeCapability,
  Tasks                         \* the capabilities of a suite's tasks

ASSUME StagesAssumption == {ReasonCapability, CodeCapability} \subseteq Capabilities
ASSUME TasksAssumption == Tasks \in Seq(Capabilities)

VARIABLES
  engine,                       \* what the client is doing
  agenda,                       \* the calls of the kernel still to be made
  waiting,                      \* whether a call is being made
  current,                      \* its run, 0 when none was begun
  outcomes,                     \* Seq(Outcome)
  snapshot                      \* auxiliary: the plugins found

orchestrationVars == <<engine, agenda, waiting, current, outcomes, snapshot>>
clientVars == <<vars, orchestrationVars>>

Engines == {"none", "compete", "pipeline", "suite", "done"}

Call ==
  [kind : {"execute"}, id : PluginIds, capability : Capabilities]
  \cup [kind : {"route", "fuse"}, capability : Capabilities]

(* A result may be unsuccessful, successful or fit the response schema.    *)
Results == {"raised", "unsuccessful", "successful", "fit"}
Outcome == [call : Call, run : Nat, result : Results]

Routed(capability) == [kind |-> "route", capability |-> capability]
Fused(capability) == [kind |-> "fuse", capability |-> capability]

Supporting(capability) == Selected(registry, FindByCapability(capability))

Attempts(capability) ==
  [i \in DOMAIN Supporting(capability) |->
     [kind |-> "execute", id |-> Id[Supporting(capability)[i]],
      capability |-> capability]]

AtClient == stack = << >> /\ control = "user"

-----------------------------------------------------------------------------
(* compete and fuse raise at once when they find no plugin.                *)
Competes(capability) ==
  /\ engine = "none" /\ AtClient
  /\ Supporting(capability) # << >>
  /\ engine' = "compete"
  /\ agenda' = Attempts(capability)
  /\ snapshot' = Supporting(capability)
  /\ UNCHANGED <<vars, waiting, current, outcomes>>

RunsPipeline ==
  /\ engine = "none" /\ AtClient
  /\ engine' = "pipeline"
  /\ agenda' = <<Routed(ReasonCapability), Routed(CodeCapability),
                 Fused(ReasonCapability)>>
  /\ UNCHANGED <<vars, waiting, current, outcomes, snapshot>>

(* run_suite of the benchmark runner.                                      *)
RunsSuite ==
  /\ engine = "none" /\ AtClient
  /\ engine' = "suite"
  /\ agenda' = [i \in DOMAIN Tasks |-> Routed(Tasks[i])]
  /\ UNCHANGED <<vars, waiting, current, outcomes, snapshot>>

(* The fusion of a pipeline looks for plugins only now, and the pipeline   *)
(* does without a fused output if there is none.                           *)
Fuses ==
  /\ AtClient /\ ~ waiting
  /\ agenda # << >> /\ Head(agenda).kind = "fuse"
  /\ agenda' = Attempts(Head(agenda).capability) \o Tail(agenda)
  /\ snapshot' = Supporting(Head(agenda).capability)
  /\ UNCHANGED <<vars, engine, waiting, current, outcomes>>

(* Mutant: the engine stops looking after a plugin that is gone.           *)
ExecutesPresent ==
  /\ AtClient /\ ~ waiting
  /\ agenda # << >> /\ Head(agenda).kind = "execute"
  /\ IF HasId(Head(agenda).id)
       THEN /\ BeginExecution(Head(agenda).id, Head(agenda).capability, FALSE)
            /\ waiting' = TRUE
            /\ current' = runs + 1
            /\ UNCHANGED <<calls, engine, agenda, outcomes, snapshot>>
       ELSE /\ agenda' = Tail(agenda)
            /\ UNCHANGED <<vars, engine, waiting, current, outcomes, snapshot>>

Executes ==
  /\ AtClient /\ ~ waiting
  /\ agenda # << >> /\ Head(agenda).kind = "execute"
  /\ BeginExecution(Head(agenda).id, Head(agenda).capability, FALSE)
  /\ waiting' = TRUE
  /\ current' = runs + 1
  /\ UNCHANGED <<calls, engine, agenda, outcomes, snapshot>>

(* The router raises before any event when it has no available plugin.     *)
Routes ==
  /\ AtClient /\ ~ waiting
  /\ agenda # << >> /\ Head(agenda).kind = "route"
  /\ waiting' = TRUE
  /\ \/ /\ \E i \in FindByCapability(Head(agenda).capability) :
              BeginExecution(Id[registry[i]], Head(agenda).capability, TRUE)
        /\ current' = runs + 1
     \/ /\ control' = "raise"
        /\ current' = 0
        /\ UNCHANGED <<busVars, registry, stack, life, runs, log>>
  /\ UNCHANGED <<calls, engine, agenda, outcomes, snapshot>>

(* Mutant: what an exception left behind is taken for a result.            *)
GetsRegardless(result) ==
  /\ waiting /\ stack = << >> /\ control # "user"
  /\ outcomes' = Append(outcomes, [call |-> Head(agenda), run |-> current,
                                   result |-> result])
  /\ agenda' = Tail(agenda)
  /\ waiting' = FALSE
  /\ control' = "user"
  /\ UNCHANGED <<busVars, registry, stack, life, runs, log, calls,
                 engine, current, snapshot>>

(* Every engine catches what the call raises.                              *)
Gets(result) ==
  /\ waiting /\ stack = << >> /\ control # "user"
  /\ (result = "raised") <=> (control = "raise")
  /\ outcomes' = Append(outcomes, [call |-> Head(agenda), run |-> current,
                                   result |-> result])
  /\ agenda' = Tail(agenda)
  /\ waiting' = FALSE
  /\ control' = "user"
  /\ UNCHANGED <<busVars, registry, stack, life, runs, log, calls,
                 engine, current, snapshot>>

(* What they return is made of the outcomes alone.                         *)
EngineReturns ==
  /\ engine \in {"compete", "pipeline", "suite"} /\ AtClient /\ ~ waiting
  /\ agenda = << >>
  /\ engine' = "done"
  /\ UNCHANGED <<vars, agenda, waiting, current, outcomes, snapshot>>

-----------------------------------------------------------------------------
OrchestrationInit ==
  /\ Init
  /\ engine = "none"
  /\ agenda = << >>
  /\ waiting = FALSE
  /\ current = 0
  /\ outcomes = << >>
  /\ snapshot = << >>

(* The client prepares the registry first; then it runs one engine.        *)
ClientPrepares ==
  /\ engine = "none" \/ stack # << >>
  /\ UserCalls \/ UserEnds
  /\ UNCHANGED orchestrationVars

KernelRuns == Kernel /\ UNCHANGED orchestrationVars

EngineSteps ==
  \/ Fuses \/ Executes \/ Routes \/ EngineReturns
  \/ \E result \in Results : Gets(result)

OrchestrationNext ==
  \/ \E capability \in Capabilities : Competes(capability)
  \/ RunsPipeline \/ RunsSuite
  \/ ClientPrepares \/ KernelRuns \/ EngineSteps

OrchestrationSpec == OrchestrationInit /\ [][OrchestrationNext]_clientVars

-----------------------------------------------------------------------------
OrchestrationTypeOK ==
  /\ TypeOK
  /\ engine \in Engines
  /\ agenda \in Seq(Call)
  /\ waiting \in BOOLEAN
  /\ current \in 0 .. runs
  /\ outcomes \in Seq(Outcome)
  /\ snapshot \in Seq(Plugins)
  /\ waiting => agenda # << >>

(* Competition and fusion try every plugin that supported the capability   *)
(* when they looked, once and in the order of the registry, whatever the   *)
(* plugins tried before and the handlers do to the registry meanwhile.     *)
Executed ==
  Selected(outcomes, {i \in DOMAIN outcomes : outcomes[i].call.kind = "execute"})

EveryCandidateIsTried ==
  engine = "done" =>
    [i \in DOMAIN Executed |-> Executed[i].call.id]
      = [i \in DOMAIN snapshot |-> Id[snapshot[i]]]

(* A result the engine counts, as a success or not, is that of a run of    *)
(* its own that the kernel reported COMPLETED and not FAILED, for the id   *)
(* that was asked for; and no run is counted twice.                        *)
ResultsAreTheRuns ==
  \A k \in DOMAIN outcomes :
    LET run == outcomes[k].run
    IN  /\ \A l \in 1 .. k - 1 :
             run # 0 => run # outcomes[l].run
        /\ outcomes[k].result # "raised" =>
             /\ Logged("completed", run) /\ ~ Logged("failed", run)
             /\ outcomes[k].call.kind = "execute" =>
                  \E i \in DOMAIN log :
                    /\ log[i].type = "started" /\ log[i].run = run
                    /\ log[i].id = outcomes[k].call.id
=============================================================================
