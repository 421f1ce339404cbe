-------------------------- MODULE KernelProperties --------------------------
(***************************************************************************)
(* What the runtime kernel must keep: the event log against the registry,  *)
(* the outcome of executions, and the lifecycle of plugins.                *)
(***************************************************************************)
EXTENDS KernelRuntime

Runs == 1 .. runs

Logged(type, run) ==
  \E i \in DOMAIN log : log[i].type = type /\ log[i].run = run

OnStack(fn, pcs, run) ==
  \E i \in DOMAIN stack : /\ stack[i].fn = fn
                          /\ stack[i].pc \in pcs
                          /\ stack[i].run = run

(***************************************************************************)
(* The published events explain the registry: an id is registered exactly  *)
(* when a PLUGIN_REGISTERED event of it has been published and no          *)
(* PLUGIN_UNREGISTERED event since.  register_plugin, unregister_plugin    *)
(* and shutdown must keep this through failing handlers, rejected          *)
(* duplicates and handlers that change the registry again.                 *)
(***************************************************************************)
Explained(events, id) ==
  \E i \in DOMAIN events :
    /\ events[i].type = "registered" /\ events[i].id = id
    /\ \A j \in i + 1 .. Len(events) :
         ~ (events[j].type = "unregistered" /\ events[j].id = id)

LogExplainsRegistry ==
  \A id \in PluginIds : HasId(id) <=> Explained(log, id)

(***************************************************************************)
(* One outcome per execution: a call of _execute_plugin publishes at most  *)
(* one COMPLETED or FAILED event, and it comes after its STARTED event and *)
(* has the same plugin id.  A subscriber that raises must not turn a       *)
(* COMPLETED execution into one that also FAILED.                          *)
(***************************************************************************)
Terminal(i) == log[i].type \in {"completed", "failed"}

OneOutcome ==
  /\ \A i, j \in DOMAIN log :
       Terminal(i) /\ Terminal(j) /\ log[i].run = log[j].run => i = j
  /\ \A i \in DOMAIN log :
       Terminal(i) => \E j \in 1 .. i - 1 : /\ log[j].type = "started"
                                            /\ log[j].run = log[i].run
                                            /\ log[j].id = log[i].id

(***************************************************************************)
(* The life of plugins follows the registry.  What is registered runs,     *)
(* until the call that shut it down removes it.  What leaves the registry  *)
(* was shut down, and what runs is registered, but for two cases: a plugin *)
(* that took the place of the one unregister_plugin was shutting down is   *)
(* removed in its stead, and a plugin that register_plugin refused goes on *)
(* running if its shutdown raises in the rollback.  Holds when no instance *)
(* is registered twice, whatever user code does, shutdown methods too.     *)
(***************************************************************************)
Changing(fn, pcs, plugin) ==
  \E i \in DOMAIN stack : /\ stack[i].fn = fn
                          /\ stack[i].pc \in pcs
                          /\ stack[i].plugin = plugin

RegisteredIsRunning ==
  \A p \in Registered :
    life[p] = "running" \/ Changing("unregister", {"shutdown"}, p)

(* A plugin runs, and no call is about to register or to refuse it.        *)
Loose(p) ==
  /\ life[p] = "running" /\ p \notin Registered
  /\ ~ Changing("register", {"initialize", "rollback"}, p)

(* unregister_plugin shut down another plugin than p, of the same id.      *)
TookThePlace(p) ==
  /\ Returned("unregister", "shutdown")
  /\ Id[p] = Top.id /\ p # Top.plugin /\ life[Top.plugin] = "stopped"

RefusedInVain(p) ==
  control = "raise" /\ At("register", "rollback") /\ Top.plugin = p

LifeStep ==
  /\ \A p \in Registered :
       p \notin Registered' => life[p] = "stopped" \/ TookThePlace(p)
  /\ \A p \in Plugins :
       ~ Loose(p) /\ Loose(p)' =>
         \/ TookThePlace(p) /\ p \in Registered
         \/ RefusedInVain(p)

LifecycleMatchesRegistry == []RegisteredIsRunning /\ [][LifeStep]_vars

(***************************************************************************)
(* execute_capability, kernel_runtime.py:139, executes a request with a    *)
(* plugin supporting its capability.  The plugin is looked up by its id    *)
(* again when the subscribers of STARTED have run: it is one that lacks    *)
(* the capability only if the id was taken from the plugin that was        *)
(* selected, and given to another one, since STARTED.                      *)
(***************************************************************************)
ReplacedSince(run, id) ==
  \E s, u, r \in DOMAIN log :
    /\ s < u /\ u < r
    /\ log[s].type = "started" /\ log[s].run = run
    /\ log[u].type = "unregistered" /\ log[u].id = id
    /\ log[r].type = "registered" /\ log[r].id = id

ExecutorSupportsCapability ==
  \A i \in DOMAIN stack :
    /\ i < Len(stack) /\ stack[i].fn = "execute"
    /\ stack[i].pc = "running" /\ stack[i].routed
    => \/ stack[i].capability \in Supports[stack[i + 1].who]
       \/ ReplacedSince(stack[i].run, stack[i].id)

(***************************************************************************)
(* When shutdown returns, nothing that was registered when it was called   *)
(* is still registered, whatever handlers registered or unregistered in    *)
(* between.                                                                *)
(***************************************************************************)
ShutdownLeavesNothing ==
  control = "return" /\ On("shutdown") =>
    (Top.todo = << >> => Top.managed \cap Registered = {})

(***************************************************************************)
(* Every call user code makes comes back: control returns to the client    *)
(* however the handlers and plugins nest and fail.                         *)
(***************************************************************************)
CallsReturn == []<>(stack = << >>)

(***************************************************************************)
(* The executions implement the abstract ledger: they nest, each is begun, *)
(* worked on and closed by at most one outcome, and one that ends without  *)
(* an outcome never reached a plugin, or one that returned no result.      *)
(***************************************************************************)
Status(run) ==
  CASE Logged("completed", run) -> "completed"
    [] ~ Logged("completed", run) /\ Logged("failed", run) -> "failed"
    [] OnStack("execute", {"started"}, run) -> "begun"
    [] OnStack("execute", {"running"}, run) -> "working"
    [] OTHER -> "abandoned"

OpenRuns == {run \in Runs : OnStack("execute", {"started", "running"}, run)}

Ledger == INSTANCE ExecutionLedger
            WITH Trusted <- "result" \notin Faults, open <- OpenRuns,
                 outcome <- [run \in Runs |-> Status(run)]

LedgerSpec == Ledger!Spec
=============================================================================
