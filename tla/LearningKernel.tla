--------------------------- MODULE LearningKernel ---------------------------
(***************************************************************************)
(* The kernel with its router and a learning memory: the memory is an      *)
(* event handler that keeps statistics of the executions it is told about, *)
(* and the router may choose by them.                                      *)
(*                                                                         *)
(* What the kernel leaves open is decided here: which plugin a routed      *)
(* request goes to, and what the terminal events report.  A kernel step    *)
(* that is not mentioned below is taken as it is.                          *)
(***************************************************************************)
EXTENDS KernelRuntime, FiniteSets

CONSTANTS
  Memory,              \* the handler LearningMemory.consume_event
  Strategy,            \* the RouteStrategy the router was built with
  Durations,           \* values of duration_ms a plugin reports
  Unavailable          \* sets of plugins that may report UNAVAILABLE at once

Strategies == {"first_match", "highest_priority", "memory_best"}

ASSUME MemoryAssumption == Memory \in Handlers
ASSUME StrategyAssumption == Strategy \in Strategies
ASSUME DurationsAssumption == Durations \subseteq Nat
ASSUME UnavailableAssumption == Unavailable \subseteq SUBSET Plugins

VARIABLES
  observations,        \* the sums performance_for takes, by capability and id
  payloads             \* what the terminal event of each execution reports

learnVars == <<observations, payloads>>
allVars == <<vars, learnVars>>

Performance == [total : Nat, successful : Nat, duration : Nat]
Untried == [total |-> 0, successful |-> 0, duration |-> 0]
Payload == [capability : Capabilities, id : PluginIds,
            success : BOOLEAN, duration : Nat]

-----------------------------------------------------------------------------
(* The router.                                                             *)

(* Comparing average_duration_ms and success_rate without fractions: both  *)
(* are 0 for a plugin that was never observed.                             *)
Divisor(p) == IF p.total = 0 THEN 1 ELSE p.total
HigherRate(p, q) == p.successful * Divisor(q) > q.successful * Divisor(p)
Faster(p, q) == p.duration * Divisor(q) < q.duration * Divisor(p)

(* Mutant: the fastest plugin, whether it succeeds or not.                 *)
PreferredBySpeed(p, q) == Faster(p, q)

(* The key of MEMORY_BEST: success rate, then duration, then experience.   *)
Preferred(p, q) ==
  \/ HigherRate(p, q)
  \/ ~ HigherRate(q, p) /\ Faster(p, q)
  \/ ~ HigherRate(q, p) /\ ~ Faster(q, p) /\ p.total > q.total

PerformanceFor(capability, i) == observations[<<capability, Id[registry[i]]>>]

(* All candidates have the priority 0: HIGHEST_PRIORITY finds no better.   *)
Better(i, j, capability) ==
  /\ Strategy = "memory_best"
  /\ Preferred(PerformanceFor(capability, i), PerformanceFor(capability, j))

(* Mutant: every available plugin is a candidate.                          *)
AllCandidates(capability, down) ==
  {i \in DOMAIN registry : registry[i] \notin down}

(* find_by_capability without the plugins that are UNAVAILABLE.            *)
Candidates(capability, down) ==
  {i \in FindByCapability(capability) : registry[i] \notin down}

(* max takes the first of equals.                                          *)
Select(candidates, capability) ==
  {i \in candidates :
     \A j \in candidates : /\ ~ Better(j, i, capability)
                           /\ j < i => Better(i, j, capability)}

Route(capability) ==
  /\ Make("route")
  /\ \E down \in Unavailable :
       LET candidates == Candidates(capability, down)
       IN  \/ \E i \in Select(candidates, capability) :
                BeginExecution(Id[registry[i]], capability, TRUE)
           \/ /\ candidates = {}
              /\ control' = "raise"
              /\ UNCHANGED <<busVars, registry, stack, life, runs, log>>
  /\ UNCHANGED learnVars

-----------------------------------------------------------------------------
(* The events the kernel publishes, and the memory.                        *)

Report(success, duration) ==
  payloads' =
    [run \in DOMAIN payloads \cup {Top.run} |->
       IF run = Top.run THEN [capability |-> Top.capability, id |-> Top.id,
                              success |-> success, duration |-> duration]
                        ELSE payloads[run]]

Completes ==
  /\ ExecuteCompletes
  /\ \E success \in BOOLEAN, duration \in Durations : Report(success, duration)
  /\ UNCHANGED observations

(* The FAILED event of an exception reports a duration of 0.               *)
Fails ==
  /\ ExecuteFails
  /\ Report(FALSE, 0)
  /\ UNCHANGED observations

AtMemory == control = "user" /\ On("callback") /\ Top.who = Memory

Added(p, payload) ==
  [total |-> p.total + 1,
   successful |-> p.successful + (IF payload.success THEN 1 ELSE 0),
   duration |-> p.duration + payload.duration]

(* The publish call below the handler tells which event it was called for. *)
Consume(types) ==
  LET event   == stack[Len(stack) - 1].event
      payload == payloads[event.run]
  IN  observations' =
        IF event.type \in types
          THEN [observations EXCEPT
                  ![<<payload.capability, payload.id>>] = Added(@, payload)]
          ELSE observations

(* Mutant: failed executions are forgotten.                                *)
ConsumeCompletedEvent == Consume({"completed"})

(* consume_event records one observation of a terminal event.              *)
ConsumeEvent == Consume({"completed", "failed"})

MemoryHandles ==
  /\ AtMemory
  /\ UserReturns
  /\ ConsumeEvent
  /\ UNCHANGED payloads

-----------------------------------------------------------------------------
LearnInit ==
  /\ Init
  /\ observations = [key \in Capabilities \X PluginIds |-> Untried]
  /\ payloads = << >>

LearnNext ==
  \/ \E capability \in Capabilities : ~ AtMemory /\ Route(capability)
  \/ /\ ~ AtMemory /\ (DirectCalls \/ UserEnds \/ Transitions)
     /\ UNCHANGED learnVars
  \/ Completes \/ Fails \/ MemoryHandles

LearnSpec == LearnInit /\ [][LearnNext]_allVars

LearnTypeOK ==
  /\ observations \in [Capabilities \X PluginIds -> Performance]
  /\ \A run \in DOMAIN payloads : run \in 1 .. runs /\ payloads[run] \in Payload

-----------------------------------------------------------------------------
(***************************************************************************)
(* The kernel with a memory is still the kernel: the router and the memory *)
(* take only steps the kernel allows user code and itself.                 *)
(***************************************************************************)
KernelSpec == Spec

(***************************************************************************)
(* What the memory knows of a plugin are exactly the outcomes it had: once *)
(* every call has returned, each terminal event was recorded once, however *)
(* executions nested, and whichever other handler raised meanwhile.  The   *)
(* memory must be the first subscriber of both terminal events and stay    *)
(* subscribed.                                                             *)
(***************************************************************************)
Outcomes(capability, id) ==
  {i \in DOMAIN log :
     /\ log[i].type \in {"completed", "failed"}
     /\ log[i].id = id
     /\ payloads[log[i].run].capability = capability}

Succeeded(i) == payloads[log[i].run].success

MemoryIsComplete ==
  stack = << >> =>
    \A capability \in Capabilities, id \in PluginIds :
      LET outcomes == Outcomes(capability, id)
          known    == observations[<<capability, id>>]
      IN  /\ known.total = Cardinality(outcomes)
          /\ known.successful = Cardinality({i \in outcomes : Succeeded(i)})

(***************************************************************************)
(* With MEMORY_BEST a request the client makes never goes to a plugin all  *)
(* of whose executions failed while one that is available has succeeded.   *)
(***************************************************************************)
EverSucceeded(capability, id) ==
  \E i \in Outcomes(capability, id) : Succeeded(i)

AlwaysUp == Registered \ UNION Unavailable

RouteWorks ==
  \A capability \in Capabilities, plugin \in AlwaysUp :
    /\ stack = << >> /\ runs' = runs + 1
    /\ stack'[1].routed /\ stack'[1].capability = capability
    /\ capability \in Supports[plugin]
    /\ EverSucceeded(capability, Id[plugin])
    => EverSucceeded(capability, stack'[1].id)

RoutesToWhatWorks == [][RouteWorks]_allVars
=============================================================================
