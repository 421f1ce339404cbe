# Formal models of the Capability Graph Runtime

TLA+ models of the runtime in `src/src/cgr`, the TLC configurations that check
them on small instances, and theorems whose proofs TLAPS checks.

    tlc -config Kernel.cfg MCKernel       model-checks an instance
    tlapm KernelProofs.tla                checks the proofs of a module

File names below are relative to `src/src/cgr`.

## 1. The system

Everything is synchronous and runs in one thread, with two kinds of exception:
test commands are subprocesses with a timeout, and models answer over HTTP.
Nothing is persisted.  The code is hard for other reasons:

- the kernel calls out to code it does not know at every transition.  Event
  handlers and plugins may call the kernel again, change subscribers and
  registry while they are being walked, and raise;
- what models and tests answer is arbitrary: a text may be no patch, a call may
  raise, and one patch may pass its tests now and fail them later;
- several layers each retry, fall back or swallow exceptions, and the results
  and traces they report must still fit together.

### The kernel and what is built into it

| component | state | operations | what makes it correct |
|---|---|---|---|
| Event bus `shared/events/event_bus.py` | subscribers per type, history | subscribe, unsubscribe, publish, clear | an event goes to those subscribed when it was published, in order, until one raises |
| Registry `kernel/registry` | plugins by id in insertion order | register, unregister, get, find_by_capability | ids are unique; a rejected plugin leaves no trace |
| Kernel `kernel/runtime` | owns bus, registry, router | register_plugin, load_plugins, unregister_plugin, shutdown, execute, execute_capability | the events explain the registry; plugins run exactly while registered; an execution has one outcome; shutdown leaves nothing |
| Loader `kernel/loader` | none | load_many | all instances, or none are registered |
| Router `kernel/router` | strategy | select_plugin | a supporting, available plugin is chosen; what worked is preferred |
| Learning memory `kernel/learning` | observations | consume_event, performance_for | it knows every outcome it was told of, once |
| Capability graph `kernel/graph/capability_graph.py` | nodes, edges | add_node, add_edge, topological_order | an order is found unless there is a cycle |
| Graph executor `kernel/graph/graph_executor.py` | result of a run | execute | dependencies first; a failure stops the run if asked to; the result tells which |

The memory is a handler of the bus, the router reads the memory, the kernel asks
the router.  A plugin of a graph node may hold the graph that is being run.

### Engines over the kernel

| component | state | operations | what makes it correct |
|---|---|---|---|
| Competition `kernel/competition` | attempts, successes, failures, winner | compete | every plugin found is tried once, whatever happens to the registry meanwhile |
| Fusion `kernel/fusion` | successful outputs | fuse | the same, over outputs |
| Pipeline `kernel/pipeline` and benchmark runner `kernel/benchmark/benchmark_runner.py` | results of stages or tasks | run | each result counted is that of a run of its own |
| Booster `kernel/booster` | candidates, critiques, repairs, trace | solve, compare | the answer that is selected is verified if any was; the first weak ones are repaired |

### Coding agents and suites

| component | state | operations | what makes it correct |
|---|---|---|---|
| Patch normalizer `kernel/coding/coding_patch_normalizer.py` | none | normalize, raw_python_single_file_patch | only allowed files; what was written as a patch is preferred to what can be guessed |
| Test runner `kernel/coding/python_test_runner.py` | temporary directory, messages | run, rewriting of assertions, safe_hidden_failure_summary | a pass is earned by the patch; rewritten tests mean the same; failures are explained; hidden tests stay hidden |
| Patch verification `kernel/coding/patch_verification.py` | environments of the syntax tree walks | verify_patch, select_patch, guards | a guard rejects what is wrong and nothing else |
| Single agent `plugins/agents/single_model_coding_agent.py` | candidates, selection | execute | the patch returned passed if one did |
| Multi agent `plugins/agents/multi_model_coding_agent.py` | candidates, known failures, attempts, trace | execute | the same; known failures stay out; a fallback is tried before giving up; the trace is true |
| SWE A/B runner `kernel/swe/swe_ab_runner.py` | rows of results | run_suite, guards | a stronger mode never loses to a weaker one; a pass is earned |
| Coding v1 runner `kernel/coding/v1_runner.py` | evaluations | run | rates, lists and summary of the report agree |
| Commands of the suites `apps/cli/main.py` | arguments, selected tasks | select, check references, evaluate | exit code 0 means that what was asked for was done |
| Providers `plugins/providers` | configuration | execute | a usable reply is returned |

The A/B runner calls models and agents through the kernel; the multi agent runs
the single agent as its fallback; both agents use the normalizer, the guards and
the test runner; the Coding v1 runner calls the A/B runner repeatedly.  The commands select tasks
of a suite and hand them to the v1 runner, or to the A/B runner directly
(`cgr-coding-ab-hard`), or try their reference solutions in the test runner.

`PROJECT.json` lists every component, with those that are not modelled, and under
`hazards` the places in the code where these properties could fail in ways that
tests hardly reach.

## 2. Modules

| module | models | how |
|---|---|---|
| `EventBus` | event bus | operators on `subscribers` and `history`; deliveries are frames of the kernel's stack |
| `PluginRegistry` | registry | a sequence of plugin instances with different ids |
| `KernelRuntime` | kernel, loader | see below |
| `KernelProperties` | | what the kernel must keep |
| `ExecutionLedger` | | abstract: executions nest and each ends once |
| `LearningKernel` | router, memory | `KernelRuntime` with the choices it leaves open made: `Route` by strategy, `MemoryHandles` for the memory's turn among the handlers |
| `CapabilityGraph` | graph, Kahn's algorithm | one step per node taken from the heap |
| `GraphExecutor` | executor | a step per node; user code may change the graph between any two |
| `DependencyOrder` | | abstract: nodes attempted once, after their predecessors |
| `Orchestration` | competition, fusion, pipeline, benchmark runner | `KernelRuntime` with an engine as its client: a sequence of calls it has still to make |
| `Selection` | | the elements of a sequence at some of its places: what a list comprehension with a condition makes |
| `BoosterEngine` | booster | a step from one answer of a model to the next |
| `SWEABRunner` | A/B runner | a step from one answer or verdict to the next; `GuardSingle`, `GuardMulti`, `GuardMultiBaseline` are the guards in their order |
| `CodingV1Runner` | v1 runner | repeats `SWEABRunner`; the report as operators on the evaluations |
| `CodingCommand` | the commands of the three coding suites | the client of `CodingV1Runner`: a list of what is still to do, then the exit code |
| `PatchVerification` | verify_patch, select_patch as the agents see them | a patch has a size, a verdict of the guards and possible verdicts of its tests |
| `SingleAgent`, `MultiAgent` | the agents | a step from one answer or verdict to the next; `MultiAgent` instantiates `SingleAgent` for its fallback |
| `PatchSearch` | | abstract: give a patch that was tried, a passing one if any passed |
| `TestAssertions` | the text of tests, as Python runs it and as the test runner rewrites it | operators on sequences of tokens: `Holds` is Python's reading, `Enhanced` the rewriting line by line |
| `FailureReport` | what failing tests print and the two summaries of it | operators on lines, up to the expected and returned values that hints are made of |
| `PatchTesting` | test runner, verify_patch in detail | a step per stage and command, over the files of a directory and the text of its tests |
| `PatchText` | normalizer and format retries | a text is the JSON values found in it, or whether it holds Python |
| `CartMutation` | the analyzer of in-place mutation | a program is written statement by statement, executed and analyzed at once |
| `ModelProvider` | both providers | a step per configuration, request, failure and reply |
| `AskedPatch` | agents and baseline asking a provider for a patch | composes `PatchText` with an instance of `ModelProvider`: the text of a response is handed to the caller, which may ask once more |
| `SequenceLemmas`, `KernelProofs`, `CallProofs`, `EngineProofs`, `AgentProofs`, `SWEProofs`, `PatchProofs`, `TestingProofs` | | proofs |

Each `MC` module gives the constants of one or two configurations.  A
definition whose comment begins with "Mutant" is a plausible bug in the
definition that follows it, and takes its place to see that a property notices.

### The kernel's stack

`KernelRuntime` makes the Python call stack explicit.  A frame is a function of
the kernel with the place it will resume at (`register` at `initialize`,
`rollback` or `announce`, `execute` at `started`, `running`, `completed`,
`failed`, and so on), a delivery of an event with the handlers still to be
called, or user code.  `control` says what the top frame sees: user code is
running, a call returned, or a call raised.  A step runs the program from one
call or return to the next: `UserCalls` are the calls user code makes
(`Permitted` says which kind of user code makes which), `UserEnds` its return,
its exception, or its reaction to an exception, and `Transitions` the kernel's
own code between two calls.  So `unregister_plugin` is three steps with user
code between them, as in the code, and a handler of `PLUGIN_UNREGISTERED` may
register a plugin while `shutdown` walks its snapshot of the ids.

`log` is a history variable: the events as published, which `history` is as well
until someone calls `clear`.  `life` is the state each plugin is in.

## 3. What the runs check

| run | question | distinct states |
|---|---|---|
| `kernel` | do registry, plugins, events and executions stay consistent under re-entrant and failing user code, failing shutdowns too | 830,917 |
| `learning` | does the memory know the outcomes, does the router use them well, and is this still the kernel | 1,357,372 |
| `graph` | does Kahn's algorithm refuse cycles only, and is a run in order while the graph changes | 274,194 |
| `orchestration` | do engines try every candidate once and count the kernel's results | 6,383,656 |
| `booster` | is the best candidate chosen, are the right ones repaired | 384,976 |
| `suite` | is the suite monotone, is credit earned, does the report of repeated runs agree with itself, does the exit code tell what was done | 320,792 |
| `agent` | do both agents return the best of what they tried; trace, known failures, fallback | 16,739 |
| `patch_testing` | is a pass earned, do rewritten tests keep their meaning, is a failure explained, hidden source hidden | 1,392,336 |
| `patch_testing_marked` | the same secrecy where a traceback may quote the hidden tests: violated | stops early |
| `patch_testing_shipped` | do the assertions that come with the v1 suite keep their meaning: violated | stops early |
| `asked_patch` | is a usable reply returned, a readable answer used, and a written patch preferred, from the configuration to the patch | 230,160 |
| `cart_mutation` | does every wrong verdict of the analyzer come from one of its known limits | 1,272,832 |

Properties, by what they say of the code:

- **LogExplainsRegistry**: an id is registered exactly when its last lifecycle
  event is `PLUGIN_REGISTERED`.  Registration and removal each happen before
  their event and nothing between can fail, whatever the handlers then do.
- **LifecycleMatchesRegistry**: what is registered runs, until the call that
  shut it down removes it; what leaves the registry was shut down; and nothing
  runs that is not registered, but for two cases, each tied to the plugin and to
  the step in which it happens.  A plugin that took the place of the one
  `unregister_plugin` was shutting down is removed in its stead, still running
  (`TookThePlace`, `kernel_runtime.py:84`).  A plugin that was refused as a
  duplicate goes on running if its own shutdown raises in the rollback
  (`RefusedInVain`, `:68`).  Shutdown methods may call the kernel, and fail; one
  that raises leaves its plugin, and in a shutdown of the kernel those after it,
  registered and running.  The property needs that no instance is registered
  twice (`Reuse = FALSE`).
- **ShutdownLeavesNothing**: what was registered when `shutdown` was called is
  gone when it returns, though handlers unregister and register in between.
- **OneOutcome**, **LedgerSpec**: executions nest; each ends with at most one
  outcome, and without any only if its plugin was never called, or returned what
  is no result.  The latter is possible in `learning` and `orchestration`
  (`"result" \in Faults`) and not in `kernel`.
- **ExecutorSupportsCapability**: a routed execution reaches a plugin that has
  the capability, although the plugin is looked up again by its id once the
  subscribers of `EXECUTION_STARTED` have run; except where its id was
  unregistered and registered again since that event.  The subscribers in the
  run do this, and remove and register other ids as well.
- **CallsReturn**: control comes back to the client.
- **MemoryIsComplete**, **RoutesToWhatWorks**, **KernelSpec**: the memory
  holds each outcome once; with `memory_best` a plugin of which no execution
  succeeded is not preferred to one with successes; and the composition is a
  refinement of the kernel.
- **RefusesCyclesOnly**, **ResultTellsTheRun**,
  **RunsInDependencyOrder**, **RunsEnd**: of the graph and its executor.
- **EveryCandidateIsTried**, **ResultsAreTheRuns**: of the engines.
- **SelectionIsVerified**, **FirstWeakAreRepaired**: of the
  booster.  The first needs that the scores of unverified answers stay below
  those of verified ones, for each kind of task.
- **Monotone**: of repository tasks with steady tests, what the baseline solves
  the single mode solves, and what that solves the multi mode solves.
  **CreditIsEarned**: a result becomes a passed one only by the patch its own
  mode answered, as that is verified, or, of a repository task, by the patch of
  a weaker mode's passed result; and it stays passed.
  **ReportAgrees**, **NoRegressionReported**: the report over several
  evaluations, with its lists, rates and first-run summary.
- **ExitTellsTheRun**, **CommandEnds**: the command exits with 0 only if the
  tasks asked for, and no others, were evaluated as often as asked, or had
  references that all passed; it calls no task of the suite unknown, except
  where it limits the tasks first; and it ends, also when an exception in the
  verification of a fallback aborts an evaluation.
- **SearchSpec**, **SingleSearchSpec**, **KnownFailuresStayOut**,
  **TraceTellsTheRun**, **MonotonicFallback**, **AgentEnds**: of the agents.
- **PassIsEarned**: a patch passes only when all commands of the task ended as
  expected, the visible stage before the hidden one, each in a directory of its
  own in which the task's tests replace files of the patch.
- **TestsKeepTheirMeaning**: rewriting an assertion so that it prints both sides
  changes what is printed and not whether it holds.  The run has assertions that
  are rewritten and assertions that must not be; two of the repository's own
  tests break it (section 5).
- **FailureIsExplained**: a failure has a message, and if a visible equality of
  a call with a literal failed, then through the printing, the summary and its
  removal of repeated lines the hints for the repair still get the value that
  was expected and the one that was returned.
- **HiddenSourceStaysHidden**: of the safe summary, also where the code under
  test raises in a line of the hidden tests; for tests of which a name has
  `hidden` in it, as those of the suites have (section 5).
- **RepliesAreReturned**, **AnswersAreUsed**, **WrittenPatchIsPreferred**: from
  the provider to the patch.  A reply with a text is returned; a caller gives up
  only if nothing it was sent can be read by the readings it allows, and asks
  again only after a text it could not read; a patch that was written down is
  preferred to what is guessed from the text around it.
- **FalseAlarmHasCause**, **MissHasCause**: of the analyzer.  A program that
  leaves its argument alone is accused only at a name that is `stale`: one that
  was bound again in an inner block, annotated or augmented, or given a list that
  shares the items.  A program that mutates its argument is missed only at such a
  name, or where the analyzer does not look at all: a method that is not among
  `MUTATING_METHODS`, an augmented assignment to a name, the blocks of `while` and
  `match`.

`TypeOK` of the kernel is checked and proved.  Every other module of a component
has a type invariant too; they hold in these instances and can be checked by
adding them to a configuration.  That of `SWEABRunner` is proved as part of the
inductive invariant of `SWEProofs`.

### Bounds

- *Kernel*: three plugins of which two share an id and one lacks the
  capability, one handler, five calls in all, a stack of at most twelve frames
  when a call is made.  Two plugins of one id are needed for duplicates and
  replacement, a second id for what happens to bystanders, and five calls for a
  client's load and shutdown and what handlers and shutdown methods do inside.
  All kinds of calls together are too much for one behaviour, so each behaviour
  has a `focus`: registration and removal (no executions), or executions (no
  `load` or `shutdown`, at most four calls, which is a registration, a routed
  request, and a removal and a registration in its handler).
- *Learning*: five calls, two durations, so that sums and means differ; one
  plugin that may be unavailable; a handler behind the memory that routes
  requests, so that events nest, and raises.
- *Graph*: three nodes, three of six offered edges: a chain, cycles of two and
  three nodes, a diamond's two ways, parallel edges.
- *Suite*: a right and a wrong patch, suites of two tasks whose tests are
  steady or not, `--runs` 0, 1 or 2, `--max-tasks` absent, 0, 1 or 3,
  `--task-id` absent, of the suite or unknown; tasks times repetitions are at
  most two (`MaxRows`), which is one repeated row or two rows: the guards look
  at one row, and the lists of the report at two evaluations of a task.
- *Agent*: `MaxRepairs = 3`, the default of the code.  Four patches: right,
  wrong and smaller, shaky, and one that a guard of repairs objects to.
- *Booster*: three candidates and two repairs, so that there may be more weak
  candidates than repairs; every kind of task.
- *Patch testing*: two files, which may be both in the patch and in the tests,
  two commands in each stage, and eight tests, one for each way in which a line
  is rewritten or left alone; the texts have at most two assertions, as the
  rewriting looks at one line at a time.
- *Asked patch*: texts of at most two JSON values, which is what the rule "the
  first acceptable one wins" can tell apart; two texts, the answer and its
  retry; replies of up to two texts, and each kind of counter in their usage.
- *Cart*: five statements and three nested blocks over three variables, and six
  of the nine copies; the other three are treated like one of these.  Five
  statements make an alias, enter a block or two, bind a name again, leave and
  change.  A program is not written further when the verdict and its cause are
  settled (`MCUndecided`), since neither property can fail behind that.
- *Orchestration*: four calls of the client and the handler together: it prepares
  up to three plugins, and the handler removes one or registers another under its
  id while the engine runs.

### Fairness

Weak fairness of the kernel's own steps, and of user code coming to its end: the
interpreter goes on, and the kernel has no way to stop a plugin or a handler, so
that they return is an assumption about them (`KernelRuntime!Fairness`).  The
graph executor, the command with its suite and the agents are fair in the steps of a run: models
answer or raise because requests have a timeout (`chat_config.py:16`,
`chat_client.py:48`) and tests because the runner has one
(`python_test_runner.py:19`).  That timeout is one of socket operations, so a
server that keeps sending a little for ever is excluded by assumption.  Nothing
else is assumed: what user code does, and in which order, is not fair.

`CHECK_DEADLOCK FALSE` stands where behaviours end: when the bound on calls is
reached, or a command, a run of an agent, or a text is finished.

## 4. What is proved

For every value of the constants that satisfies the named assumptions:

- `KernelProofs!TypeCorrectness`: `Spec => []TypeOK`.
- `KernelProofs!LogExplainsTheRegistry`: `Spec => []LogExplainsRegistry`.
  The invariant is `RegistryInv`: the property and the uniqueness of ids in the
  registry.  Uniqueness is needed because removal takes one instance out: with
  two of one id the id would stay registered although its last event says that
  it is gone.  A step either changes neither log nor registry in this respect
  (`RegistryInvNeutral`), or inserts and announces (`RegistryInvRegister`), or
  removes and announces (`RegistryInvUnregister`).
- `KernelProofs!OneOutcomePerExecution`: `Spec => []OneOutcome`.  The invariant
  `RunsInv` adds what the stack knows: numbers of executions are not reused,
  each frame of `execute` has a number of its own whose STARTED event is in the
  log, and no terminal event of it is there while the frame is still at
  `started` or `running`.
- `CallProofs` follows the call stack.  All of it rests on `NestInv`: which
  function stands on which, and that user code runs on top only.
  - `NothingIsLeft`: `Spec => []ShutdownLeavesNothing` if no instance is
    registered twice (`~ Reuse`).  `ShutInv` says of each frame of `shutdown`
    that what it has still to remove is in its list, or is removed by the frame
    above it, or an exception is on its way; and that no frame above it brings
    one of them back, since instances that were registered once are known
    (`KnownInv`) and only new ones are registered.  With `Reuse` a handler could
    register a plugin of the snapshot again behind the loop.
  - `LifeFollowsRegistry`: `Spec => LifecycleMatchesRegistry` under `OneHand`:
    no instance is registered twice, and a load names no instance twice, as
    `load_many` makes a new one of each class.  User code may do anything else,
    shutdown methods included.  `HandsInv` says that an instance is in the
    hands of one frame of `register` or `load_many` at most; it makes the word
    of one frame about its plugin safe from the others.  `LifeInv` says what
    each frame knows of its plugin while it waits for the one above it, before
    and after that has ended, with or without an exception.
  - `RoutedToASupporter`: `Spec => []ExecutorSupportsCapability`, of any user
    code.  `RouteInv` carries the promise of the router from the choice, over the
    handlers, to the lookup: either every plugin of the id
    supports the request, or it was vacated since STARTED, or the log has both a
    removal and a registration of it since then.
  - `ExecutionsKeepTheLedger`: `Spec => LedgerSpec`, the refinement step by
    step, where plugins are trusted exactly if they return results (`Trusted`).
    `RunsInv` tells which executions have an outcome; `OrderInv` adds
    that those in progress stand on the stack in the order they were begun, so
    that the one that ends is the innermost.
  - `LearningKernelIsKernel`: the kernel with memory and router implements the
    kernel, by the identity on the kernel's variables; hence
    `LearningKernelKeepsItsWord`: its invariants and its ledger.
  - `MemoryKnowsEveryOutcome`: `LearnSpec /\ []MemorySubscribed =>
    []MemoryIsComplete`.  The hypotheses are how a memory is wired
    (`tests/test_learning_memory.py:220`): it is a handler and no plugin, and the
    first subscriber of both terminal events.  That it is the first is what `HearsInv` lives on:
    when it is told of an event, no other handler of it has run, so the latest
    event of the log is the only one it may still owe.  `RecordInv` says that it
    has counted all others, each once.  A memory behind a handler that calls the
    kernel again hears of outcomes in another order, and behind one that raises
    it does not hear of them.
  - `SuccessIsPreferred`: with `memory_best` as well, `RoutesToWhatWorks`.  The
    arithmetic is that of cross-multiplied success rates (`RateDecides`).
  - `CandidatesAreTried` and `ResultsAreThoseOfTheRuns`: `OrchestrationSpec =>
    []EveryCandidateIsTried` and `[]ResultsAreTheRuns`, of the engines that call
    the kernel, under whatever its handlers and plugins do.  While an engine
    waits, the oldest frame of the stack is its own call and everything above
    stands in for it (`WaitInv`); that call begins no second execution, so the
    outcome the engine is given is the one in the log.  A run that has been
    counted is no longer in progress and gets no further outcome (`PastInv`).
    `AgendaInv` relates what is left on the agenda to what the engine found when
    it looked at the registry, which the kernel may change and the agenda not.
- `EngineProofs`, of the two engines that work through a list of their own:
  - `OnlyCyclesAreRefused`, `RunsAreToldTruly` and `RunsFollowTheOrder`, which is
    `Spec => RunsInDependencyOrder`, of the graph executor.  `SortInv` is the
    loop invariant of Kahn's algorithm: a degree is the number of edges from
    nodes not in the order yet, those of degree zero are ready, and what is in
    the order has its predecessors before it.  When nothing is ready, the nodes
    that are left form the cycle, and conversely the first node of a cyclic set
    to enter the order would have a predecessor in it.  `PlanInv` carries the
    order into the run, which user code cannot reach as it changes the graph and
    not the plan.
  - `SelectionsAreVerified` and `RepairsGoToTheFirstWeak`, of the booster, for
    any tasks, texts, scores and limits.  `DoneBefore` says of the candidates in
    front of the current one that they were criticised, and repaired if they are
    among the first weak ones; repairs stand behind the generated candidates and
    change none of their scores, so who is weak does not change (`SameWeak`).
    That the best candidate is a verified one rests on the scores of each kind
    of task: none gives an answer that is not verified as much as one that is
    (`VerifiedIsHigher`).
- `AgentProofs`: `AgentSearches` and `FallbackSearches` (`SearchSpec`,
  `SingleSearchSpec`), `FailuresStayOut`, `FallbackIsMonotonic`, `TraceIsTrue`, for
  any patches, verdicts and `MaxRepairs`.  The invariant counts candidates and
  prompts at each place (`PlaceInv`), says that the selected one is a best
  one (`BestInv`), and that with tests the known failures are exactly the own
  candidates that failed (`KnownInv`), which is why a repetition of one is
  recognised.
- `SWEProofs`, of the commands, the repeated evaluations they make and the suite
  runner below, for any suites, patches, verdicts and options:
  - `SuiteIsMonotone`, `CommandsAreMonotone`: `Spec => []Monotone` of the runner
    alone and `CommandSpec => []Monotone`.  `Monotone` speaks of finished rows.
    The invariant `IInv` adds that a result that passed carries a patch that can
    pass, marked as verified where the guards look for that, and that the
    current row becomes monotone guard by guard: with steady tests a patch that
    can pass will pass when it is verified again.
  - `CreditsAreEarned`: `CommandSpec => CreditIsEarned`.  `PendingInv` adds that
    the result of a mode is empty until its case has ended, so that what a case
    writes replaces nothing that passed.
  - `ReportsAgree`, `NoRegressions`: `[]ReportAgrees` and
    `[]NoRegressionReported`.  `V1Inv` says that each evaluation has a row for
    every task, and that these are monotone where the task is a steady one of a
    repository; the rest is counting (`MorePasses`: a mode that solves whatever
    another one solves has at least its rate) and the order in which the best
    mode is looked for (`BestModeIs`).
  - `ExitsTellTheRun`: `[]ExitTellsTheRun`.  `SelectionInv` says which tasks are
    selected by what is left to do, in the order of either kind of command.
- `PatchProofs` proves `[]AnswersAreUsed`, `[]WrittenPatchIsPreferred` and
  `[]RepliesAreReturned` of `AskedSpec`, and `[]PatchIsAllowed`, which no run
  needs any more: a patch edits at least one file, only files the task allows,
  and leaves none blank.  They speak of the end of an exchange; the invariant
  adds what the place of the caller and the state of the connection tell of the
  number of texts and requests (`PlaceInv`), and that a retry follows a text
  that could not be read (`Unread`).  For the provider it is `ReplyInv`: what is
  on its way is made of the reply that came.
- `TestingProofs!PassesAreEarned`: `Spec => []PassIsEarned`.  `PassIsEarned`
  is not inductive: it speaks of what a stage found when it began and of what it
  ran when it is over.  The invariant adds the directory at each place of the
  run (`DiskInv`), that a stage has run nothing before its first command and
  goes on only while its commands end as expected, and that the hidden stage is
  entered only behind a visible one that passed (`StageInv`).
- `TestingProofs!EquationsKeepOutcomes`: a text of assertions `a == b` of plain
  operands, of any number of lines, has the outcomes it had once it is rewritten.
  An operand is plain if it is one token that can be read on its own (`Plain`).
  `EnhancedLayout` says which token of the rewritten text stands at which place
  (fifteen to a line), from which follow its statements, three for each assertion
  (`actual = ...`, `expected = ...`, the new assertion), what the two names are
  bound to where that is reached (the values of this line and not of an earlier
  one), and that it can be read (`EnhancedCanBeRead`): so the third of the
  statements fails if and only if the assertion it stands for fails.
- `TestingProofs!OutcomesAreThoseOfTheTests`: `Spec => []TestsKeepTheirMeaning`
  for these texts, for texts of which no line is rewritten (`UntouchedIsKept`:
  they stay as they are), and for any other whose outcomes rewriting keeps
  (`OtherTextsKeepOutcomes`).  The texts of `patch_testing` are of the first two
  kinds; `patch_testing_shipped` has two for which rewriting does not keep them
  (section 5).  Then nothing else changes what a command says of a patch: not the
  files of the patch, not another command, not the other stage.
- `TestingProofs!FailuresAreExplained`: `Spec => []FailureIsExplained` if no
  command prints a heading of such a failure before it ends
  (`PrintsHaveNoHeadings`).  That an equality which fails prints the two values
  between their headings is a lemma (`EqualitiesAreRewritten`).  `ExplainInv` says
  that the lines collected so far have no heading and that what is run is the
  rewriting of what was given.  The rest is about output of any length: the first
  block found is that of the failure, it stands first in the summary, and as its
  lines differ `dict.fromkeys` drops none of them, whatever follows.
- `TestingProofs!HiddenSourceIsKept`: `Spec => []HiddenSourceStaysHidden` if
  no printed line with a marker quotes the tests, unless it begins with
  `assert ` (`PrintsAreDiscreet`).  That is what `patch_testing_marked` leaves
  out.  `HiddenInv` says that the lines collected so far are discreet in this
  sense, which the quotation of a line that raises is unless the tests are
  rewritten, and that of the hidden stage only summaries are kept.
- `TestingProofs!AlarmsHaveACause` and `MissesHaveACause`: `CartSpec =>
  []FalseAlarmHasCause` and `[]MissHasCause`, for programs of any length and
  depth and all nine copies.  The invariant `CartInv` says that what each open
  block thinks of a name is true unless the name is stale there (`Knows`): the
  argument and its items are known as such, and everything else shares nothing
  with them.  So the verdict at a name that is not stale is right, and each way
  to lose this truth makes a name stale.

`SequenceLemmas` has the facts about sequences these rest on.  The assumptions
are those at the head of the modules, such as `IdAssumption` (`Id` maps plugins
to ids) and `VerdictAssumption`; TLC evaluates them in the runs.

Every refinement and every invariant that a run checks is proved.  Only
model-checked are the liveness properties (`CallsReturn`, `RunsEnd`, `AgentEnds`,
`CommandEnds`), as TLAPS does not reason about fairness.  The rewriting of texts
that are neither of equations of plain operands nor left alone as a whole is not
proved to keep outcomes, since in general it does not.

## 5. Where code and words differ

`safe_hidden_failure_summary` (`kernel/coding/python_test_runner.py:245`) says of
itself that it keeps actionable text "without exposing hidden source".  It
leaves out lines that begin with `assert `, but a traceback may quote any line of
a test, and one with `expected` or `got` in it is kept.  `patch_testing_marked`
shows it; `patch_testing` shows that the secret is kept when quoted lines either
begin with `assert ` or have no marker.

`_enhance_simple_equality_asserts` (`python_test_runner.py:191`) promises
"messages to simple one-line equality assertions", but splits a line at its first
`==`, whatever it belongs to (`:205`).  Two visible tests of the Coding v1 suite
are not such assertions: one has the equality inside a lambda
(`v1_benchmarks.py:213`) and becomes a syntax error, one has three statements on
its line (`:222`) of which the wrong two values are compared.
`patch_testing_shipped` shows that a right patch fails them; it is the visible
verification in the agents that is affected, as scoring writes the hidden tests
into the same directory, and a hidden name switches the rewriting off.

While reading the code we met behaviours that no text of the repository rules
out; the properties are stated so that they are allowed:

- registering an instance twice shuts the registered one down
  (`kernel_runtime.py:68`, excluded by `Reuse = FALSE`);
- a plugin whose `shutdown` has itself replaced in the registry makes
  `unregister_plugin` remove the replacement, which goes on running
  (`kernel_runtime.py:85`); `TookThePlace` names it;
- `execute_capability` says that it executes a request "with a plugin supporting
  its capability" (`kernel_runtime.py:139`), but hands on an id.  A handler of
  `EXECUTION_STARTED` that replaces the plugin under its id gets the routed
  request to the replacement, which may lack the capability (`:164`);
  `ReplacedSince` names it;
- what a plugin returns is not checked: if it has no status or duration,
  `_execute_plugin` raises behind its `try` and publishes neither COMPLETED nor
  FAILED (`kernel_runtime.py:189`); `ExecuteMisreads`;
- a critic that raises ends the multi agent before its fallback
  (`multi_model_coding_agent.py:286`);
- a model that raises makes the booster drop answers it had verified
  (`booster_engine.py:152`);
- an exception in the verification of a fallback ends a whole suite
  (`swe_ab_runner.py:450`);
- `cgr-coding-ab-hard` limits the tasks before it looks for the one asked for,
  the other commands after (`apps/cli/main.py:246`), so only the first may call a
  task of its suite unknown; `ExitTellsTheRun` names the exception;
- JSON that was rejected for its file names may be wrapped as a Python module
  (`coding_patch_normalizer.py:73`);
- the analyzer looks for nine methods only, so that `item.setdefault(...)` and
  `item.popitem()` are missed (`patch_verification.py:338`).  An augmented
  assignment to a name, as `items += [...]`, changes the object and is taken for
  a new binding (`:357`); an annotation without a value is one too (`:365`).
  `while` and `match` have no case (`:383`), and what a block binds again is
  forgotten once it is left (`:384`).  A comprehension that builds new elements
  counts as the argument itself (`:425`), and the items of `list(items)` as local
  values (`:438`).  `stale` and `overlooked` name these;
- where a test is rewritten and its right side raises, the traceback quotes the
  line as `__cgr_expected = ...` (`python_test_runner.py:211`), which has a
  marker: the safe summary would show it for hidden tests without `hidden` in a
  name.  There are none in the repository;
- `compile` of a patch may raise what is no SyntaxError, for a null byte or too
  deep a nesting, and ends the verification (`python_test_runner.py:82`);
- one negative counter in its usage loses a reply (`openai_responses_model_plugin.py:154`);
- when the request of a retry raises, an agent loses the first text, from which
  it would have taken raw Python (`single_model_coding_agent.py:332`):
  `AnswersAreUsed` speaks of callers whose requests were all answered;
- braces in the left side of a rewritten assertion are fields of the f-string it
  becomes, so that its failure may be a ValueError without the values
  (`python_test_runner.py:225`); `FailureIsExplained` speaks of calls without.
  With empty braces or a double quote there the rewritten file does not compile;
  no visible test of the repository has them;
- the summary drops repeated lines: where the value that was got repeats a line
  before it, it is gone, which happens if the assertion has the literal on the
  left; `FailureIsExplained` speaks of a call on the left.

## 6. What is not modelled

The commands for demos and local comparisons, prompts and checklists, benchmark data, exporters, built-in
and mock plugins, contracts and the schema verifier: pure functions, data or
output; `PROJECT.json` gives the reason for each.  Of patch verification only the
decisions, the reading of failures, and one of the syntactic guards are modelled.
The others, such as that against overwriting configuration with None, match
patterns in the text of one benchmark task ("reject obvious ..."): they promise
neither to find every wrong patch nor to object to wrong ones only, so there is
no property to hold them to, and they appear as a verdict on the patch.  A
payload that is no model request, and a server that keeps one request open by
sending a little at a time (`chat_client.py:48` sets the timeout of a socket
operation, not that of the request), are left out of the providers.
Durations and token counts appear only where the router decides by them.

Of user code, what is no `Exception` is left out: KeyboardInterrupt and
SystemExit pass every `except Exception` of the kernel.  An `execution_id` is the
caller's: competition, fusion and pipeline give one to several executions, so the
models number executions by calls of `_execute_plugin` (`runs`), and nothing is
claimed of a log read by `execution_id`.  Test output is taken to be short: the
runner keeps the last 2000 or 4000 characters and the summary the last 20 lines.
Of candidates for the cart task, tuple targets, walrus assignments, nested
functions, arguments under another name, items replaced or added in a list, a
second pass of a loop and branches that are not taken are left out.

## 7. Plan

Done, in this order: the kernel with bus and registry and its proofs; router and
memory; graph and executor; A/B runner and v1 runner with the proof of
monotonicity; agents; booster; engines; test runner, normalizer, analyzer and
providers; the commands of the suites; the text of tests and of failures; the
exchange from the request to the patch; shutdowns that fail.

What section 6 names is all that is left of the system.  Of the proofs,
`EquationsKeepOutcomes` could be extended from plain operands to those of several
tokens with balanced brackets, and to texts in which such assertions stand among
lines that are left alone.
