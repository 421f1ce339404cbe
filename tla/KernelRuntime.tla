--------------------------- MODULE KernelRuntime ----------------------------
(***************************************************************************)
(* The runtime kernel: it owns a registry and an event bus, drives the     *)
(* lifecycle of plugins and executes requests through them, publishing an  *)
(* event for every transition.                                             *)
(*                                                                         *)
(* Everything runs in one thread, but the kernel calls out to code it does *)
(* not know: event handlers and the initialize, shutdown and execute       *)
(* methods of plugins.  That user code may call the kernel again, may      *)
(* change the subscribers and may raise.  The model makes the call stack   *)
(* explicit: a kernel function stands on it as a frame with the place it   *)
(* will resume at, and user code as a frame of its own.  A step runs the   *)
(* program from one call or return to the next.                            *)
(*                                                                         *)
(* Abstracted: the payload, output, status and duration of an execution    *)
(* (CapabilityRouter and LearningMemory read them, the kernel does not),   *)
(* and the router's choice, which is any registered plugin that supports   *)
(* the capability, or none when each of them reports UNAVAILABLE.  Left    *)
(* out is what is no Exception, such as KeyboardInterrupt.                 *)
(***************************************************************************)
EXTENDS EventBus, PluginRegistry

CONSTANTS
  InitialSubscribers,  \* the states of the bus given to the constructor
  Loads,               \* the plugin lists load_plugins may be called with
  Permitted,           \* the calls user code of each kind makes
  Faults,              \* the kinds of user code that raise on their own, and
                       \* "result" if plugins may return what is no result
  Reuse,               \* whether an instance may be registered again
  MaxCalls,            \* bound: calls made by user code
  MaxDepth             \* bound: height of the call stack when a call is made

CallbackKinds == {"initialize", "shutdown", "execute", "handle"}
Callers == CallbackKinds \cup {"client"}
Calls == {"subscribe", "unsubscribe", "clear", "register", "load",
          "unregister", "shutdown", "execute", "route"}

ASSUME SubscribersAssumption ==
         InitialSubscribers \subseteq [EventTypes -> Seq(Handlers)]
ASSUME LoadsAssumption == Loads \subseteq Seq(Plugins)
ASSUME PermittedAssumption == Permitted \in [Callers -> SUBSET Calls]
ASSUME FaultsAssumption == Faults \subseteq CallbackKinds \cup {"result"}
ASSUME ReuseAssumption == Reuse \in BOOLEAN
ASSUME BoundsAssumption == MaxCalls \in Nat /\ MaxDepth \in Nat

VARIABLES
  stack,               \* the call stack, innermost frame last
  control,             \* who runs: "user", or the kernel function on top of
                       \* the stack after its callee did "return" or "raise"
  life,                \* PluginState of each instance
  runs,                \* auxiliary: number of executions begun, that is, of
                       \* calls of _execute_plugin; the execution_id is the
                       \* request's, whose caller may use it for several
  log,                 \* auxiliary: every event published, never cleared
  calls                \* auxiliary: calls made so far, for the bound

kernelVars == <<stack, control, life, runs, log, calls>>
vars == <<subscribers, history, registry, kernelVars>>

-----------------------------------------------------------------------------
(* Events and frames.  The run of an event is auxiliary, see runs.         *)

Event == [type : EventTypes, id : PluginIds, run : Nat]

PluginEvent(type, id) == [type |-> type, id |-> id, run |-> 0]
ExecutionEvent(type, frame) ==
  [type |-> type, id |-> frame.id, run |-> frame.run]

RegisterFrame ==
  [fn : {"register"}, pc : {"initialize", "rollback", "announce"},
   plugin : Plugins]
UnregisterFrame ==
  [fn : {"unregister"}, pc : {"shutdown", "announce"},
   id : PluginIds, plugin : Plugins]
(* managed is auxiliary: what was registered when shutdown was called.     *)
ShutdownFrame ==
  [fn : {"shutdown"}, todo : Seq(PluginIds), managed : SUBSET Plugins]
LoadFrame == [fn : {"load"}, todo : Seq(Plugins)]
(* routed is auxiliary: whether execute_capability chose the plugin.       *)
ExecuteFrame ==
  [fn : {"execute"}, pc : {"started", "running", "failed", "completed"},
   id : PluginIds, run : Nat, capability : Capabilities, routed : BOOLEAN]
PublishFrame == [fn : {"publish"}, event : Event, todo : Seq(Handlers)]
CallbackFrame ==
  [fn : {"callback"}, kind : CallbackKinds, who : Plugins \cup Handlers]

Frame == RegisterFrame \cup UnregisterFrame \cup ShutdownFrame \cup LoadFrame
         \cup ExecuteFrame \cup PublishFrame \cup CallbackFrame

Top == stack[Len(stack)]
Below == SubSeq(stack, 1, Len(stack) - 1)
On(fn) == stack # << >> /\ Top.fn = fn
At(fn, pc) == On(fn) /\ Top.pc = pc
Returned(fn, pc) == control = "return" /\ At(fn, pc)
Resumed(pc) == Append(Below, [Top EXCEPT !.pc = pc])

(* The step passes control on and changes nothing else.                    *)
OnlyControl == UNCHANGED <<busVars, registry, life, runs, log, calls>>

-----------------------------------------------------------------------------
(* Passing control.                                                        *)

Callback(kind, who) == [fn |-> "callback", kind |-> kind, who |-> who]

(* Call user code from the kernel function on top of frames.               *)
CallUser(frames, kind, who) ==
  /\ stack' = Append(frames, Callback(kind, who))
  /\ control' = "user"

(* Record an event and start its delivery above frames.                    *)
Publish(frames, event) ==
  /\ Record(event)
  /\ log' = Append(log, event)
  /\ stack' = Append(frames, [fn |-> "publish", event |-> event,
                              todo |-> Receivers(event)])
  /\ control' = "return"

(* The function on top of the stack ends with the given outcome.           *)
Leave(outcome) ==
  /\ stack' = Below
  /\ control' = outcome

-----------------------------------------------------------------------------
(* Calls user code makes: the client when the stack is empty, otherwise    *)
(* the handler or plugin method on top of it.                              *)

Caller == IF stack = << >> THEN "client" ELSE Top.kind

Make(call) ==
  /\ control = "user"
  /\ call \in Permitted[Caller]
  /\ calls < MaxCalls
  /\ Len(stack) < MaxDepth
  /\ calls' = calls + 1

CallSubscribe(type, handler) ==
  /\ Make("subscribe")
  /\ Subscribe(type, handler)
  /\ UNCHANGED <<registry, stack, control, life, runs, log>>

CallUnsubscribe(type, handler) ==
  /\ Make("unsubscribe")
  /\ Unsubscribe(type, handler)
  /\ UNCHANGED <<registry, stack, control, life, runs, log>>

CallClear ==
  /\ Make("clear")
  /\ ClearHistory
  /\ UNCHANGED <<registry, stack, control, life, runs, log>>

(* An instance that is, or is about to be, in the hands of the runtime.    *)
Handed(plugin) ==
  \/ life[plugin] # "discovered"
  \/ \E i \in DOMAIN stack :
        \/ stack[i].fn = "register" /\ stack[i].plugin = plugin
        \/ stack[i].fn = "load" /\ Contains(stack[i].todo, plugin)

Registering(plugin) ==
  [fn |-> "register", pc |-> "initialize", plugin |-> plugin]

CallRegister(plugin) ==
  /\ Make("register")
  /\ Reuse \/ ~ Handed(plugin)
  /\ CallUser(Append(stack, Registering(plugin)), "initialize", plugin)
  /\ UNCHANGED <<busVars, registry, life, runs, log>>

(* load_many either instantiates every class, or raises before anything    *)
(* is registered; the instances are new.                                   *)
CallLoad(plugins) ==
  /\ Make("load")
  /\ \A i \in DOMAIN plugins : ~ Handed(plugins[i])
  /\ \/ /\ stack' = Append(stack, [fn |-> "load", todo |-> plugins])
        /\ control' = "return"
     \/ control' = "raise" /\ UNCHANGED stack
  /\ UNCHANGED <<busVars, registry, life, runs, log>>

Unregistering(id) ==
  [fn |-> "unregister", pc |-> "shutdown", id |-> id, plugin |-> Lookup(id)]

CallUnregister(id) ==
  /\ Make("unregister")
  /\ \/ /\ ~ HasId(id)
        /\ UNCHANGED <<stack, control>>
     \/ /\ HasId(id)
        /\ CallUser(Append(stack, Unregistering(id)), "shutdown", Lookup(id))
  /\ UNCHANGED <<busVars, registry, life, runs, log>>

CallShutdown ==
  /\ Make("shutdown")
  /\ stack' = Append(stack, [fn |-> "shutdown", todo |-> RegisteredIds,
                             managed |-> Registered])
  /\ control' = "return"
  /\ UNCHANGED <<busVars, registry, life, runs, log>>

BeginExecution(id, capability, routed) ==
  LET frame == [fn |-> "execute", pc |-> "started", id |-> id,
                run |-> runs + 1, capability |-> capability,
                routed |-> routed]
  IN  /\ Publish(Append(stack, frame), ExecutionEvent("started", frame))
      /\ runs' = runs + 1
      /\ UNCHANGED <<registry, life>>

CallExecute(id, capability) ==
  /\ Make("execute")
  /\ BeginExecution(id, capability, FALSE)

(* execute_capability hands on the id of the plugin the router selected;   *)
(* the router raises when it has no available plugin, before any event.    *)
CallExecuteCapability(capability) ==
  /\ Make("route")
  /\ \/ \E i \in FindByCapability(capability) :
          BeginExecution(Id[registry[i]], capability, TRUE)
     \/ /\ control' = "raise"
        /\ UNCHANGED <<busVars, registry, stack, life, runs, log>>

-----------------------------------------------------------------------------
(* User code gets an outcome back, and ends.                               *)

(* The client, or a callback that catches exceptions, goes on.             *)
UserResumes ==
  /\ control # "user"
  /\ stack = << >> \/ On("callback")
  /\ control' = "user"
  /\ UNCHANGED <<busVars, registry, stack, life, runs, log, calls>>

(* A callback lets the exception of a call it made pass through.           *)
UserPropagates ==
  /\ control = "raise"
  /\ On("callback")
  /\ Leave("raise")
  /\ OnlyControl

(* Mutant: initialize leaves the plugin INITIALIZED.                       *)
UserReturnsInitialized ==
  /\ control = "user"
  /\ On("callback")
  /\ life' = IF Top.kind = "initialize"
               THEN [life EXCEPT ![Top.who] = "initialized"] ELSE life
  /\ Leave("return")
  /\ UNCHANGED <<busVars, registry, runs, log, calls>>

(* initialize and shutdown of a plugin leave it RUNNING and STOPPED.       *)
UserReturns ==
  /\ control = "user"
  /\ On("callback")
  /\ life' = CASE Top.kind = "initialize" ->
                      [life EXCEPT ![Top.who] = "running"]
               [] Top.kind = "shutdown" ->
                      [life EXCEPT ![Top.who] = "stopped"]
               [] OTHER -> life
  /\ Leave("return")
  /\ UNCHANGED <<busVars, registry, runs, log, calls>>

UserRaises ==
  /\ control = "user"
  /\ On("callback")
  /\ Top.kind \in Faults
  /\ Leave("raise")
  /\ OnlyControl

-----------------------------------------------------------------------------
(* Kernel functions going on after the function they called returned.      *)

(* publish: call the next handler of the copied list.                      *)
DeliverNext ==
  /\ control = "return" /\ On("publish")
  /\ Top.todo # << >>
  /\ CallUser(Append(Below, [Top EXCEPT !.todo = Tail(@)]),
              "handle", Head(Top.todo))
  /\ OnlyControl

RegisterInserts ==
  /\ Returned("register", "initialize")
  /\ Register(Top.plugin)
  /\ Publish(Resumed("announce"), PluginEvent("registered", Id[Top.plugin]))
  /\ UNCHANGED <<life, runs, calls>>

(* Mutant: the rollback removes the id, which another plugin holds.        *)
RegisterRollsBackId ==
  /\ Returned("register", "initialize")
  /\ HasId(Id[Top.plugin])
  /\ Unregister(Id[Top.plugin])
  /\ CallUser(Resumed("rollback"), "shutdown", Top.plugin)
  /\ UNCHANGED <<busVars, life, runs, log, calls>>

(* Mutant: the instance that was refused is not shut down.                 *)
RegisterRefuses ==
  /\ Returned("register", "initialize")
  /\ HasId(Id[Top.plugin])
  /\ Leave("raise")
  /\ OnlyControl

RegisterRollsBack ==
  /\ Returned("register", "initialize")
  /\ HasId(Id[Top.plugin])
  /\ CallUser(Resumed("rollback"), "shutdown", Top.plugin)
  /\ OnlyControl

LoadNext ==
  /\ control = "return" /\ On("load")
  /\ Top.todo # << >>
  /\ LET plugin == Head(Top.todo)
         rest   == [Top EXCEPT !.todo = Tail(@)]
     IN  CallUser(Append(Append(Below, rest), Registering(plugin)),
                  "initialize", plugin)
  /\ OnlyControl

UnregisterRemoves ==
  /\ Returned("unregister", "shutdown")
  /\ Unregister(Top.id)
  /\ Publish(Resumed("announce"), PluginEvent("unregistered", Top.id))
  /\ UNCHANGED <<life, runs, calls>>

(* Mutants: the loop walks the live ids, so every second one is skipped;   *)
(* an id that is gone stays the next one.                                  *)
ShutdownNextWith(shorter(_), afterMissing(_)) ==
  /\ control = "return" /\ On("shutdown")
  /\ Top.todo # << >>
  /\ LET id   == Head(Top.todo)
         rest == [Top EXCEPT !.todo = shorter(@)]
     IN  \/ /\ HasId(id)
            /\ CallUser(Append(Append(Below, rest), Unregistering(id)),
                        "shutdown", Lookup(id))
         \/ /\ ~ HasId(id)
            /\ stack' = Append(Below, [Top EXCEPT !.todo = afterMissing(@)])
            /\ UNCHANGED control
  /\ OnlyControl

ShutdownNextSkips ==
  ShutdownNextWith(LAMBDA todo : SubSeq(todo, 3, Len(todo)), Tail)
ShutdownNextRetries == ShutdownNextWith(Tail, LAMBDA todo : todo)

(* shutdown goes through the ids registered when it was called; one that   *)
(* is gone by its turn is skipped.                                         *)
ShutdownNext ==
  /\ control = "return" /\ On("shutdown")
  /\ Top.todo # << >>
  /\ LET id   == Head(Top.todo)
         rest == [Top EXCEPT !.todo = Tail(@)]
     IN  \/ /\ HasId(id)
            /\ CallUser(Append(Append(Below, rest), Unregistering(id)),
                        "shutdown", Lookup(id))
         \/ /\ ~ HasId(id)
            /\ stack' = Append(Below, rest)
            /\ UNCHANGED control
  /\ OnlyControl

(* The plugin is looked up after the subscribers of STARTED have run.      *)
ExecuteCallsPlugin ==
  /\ Returned("execute", "started")
  /\ HasId(Top.id)
  /\ CallUser(Resumed("running"), "execute", Lookup(Top.id))
  /\ OnlyControl

(* Mutant: the try block also covers the COMPLETED event.                  *)
ExecuteFailsAfterCompletion ==
  /\ \/ Returned("execute", "started") /\ ~ HasId(Top.id)
     \/ control = "raise" /\ At("execute", "running")
     \/ control = "raise" /\ At("execute", "completed")
  /\ Publish(Resumed("failed"), ExecutionEvent("failed", Top))
  /\ UNCHANGED <<registry, life, runs, calls>>

(* The except clause: an unknown id, or an exception of the plugin.        *)
ExecuteFails ==
  /\ \/ Returned("execute", "started") /\ ~ HasId(Top.id)
     \/ control = "raise" /\ At("execute", "running")
  /\ Publish(Resumed("failed"), ExecutionEvent("failed", Top))
  /\ UNCHANGED <<registry, life, runs, calls>>

ExecuteCompletes ==
  /\ Returned("execute", "running")
  /\ Publish(Resumed("completed"), ExecutionEvent("completed", Top))
  /\ UNCHANGED <<registry, life, runs, calls>>

(* The event is made from the status and the duration of the result: what  *)
(* has none raises here, behind the try, and there is no terminal event.   *)
ExecuteMisreads ==
  /\ Returned("execute", "running")
  /\ "result" \in Faults
  /\ Leave("raise")
  /\ OnlyControl

(* The end of every function, reached once its last event is delivered or  *)
(* its loop is over.                                                       *)
Returns ==
  /\ \/ Returned("register", "announce")
     \/ Returned("unregister", "announce")
     \/ Returned("execute", "completed")
     \/ /\ control = "return"
        /\ On("publish") \/ On("load") \/ On("shutdown")
        /\ Top.todo = << >>
  /\ Leave("return")
  /\ OnlyControl

(* The bare raise that ends an except clause: a duplicate registration     *)
(* after its rollback, a failed execution after its FAILED event.          *)
Reraises ==
  /\ Returned("register", "rollback") \/ Returned("execute", "failed")
  /\ Leave("raise")
  /\ OnlyControl

(* Mutant: not every exception of a plugin is caught.                      *)
UnwindAll ==
  /\ control = "raise"
  /\ stack # << >>
  /\ ~ On("callback")
  /\ Leave("raise")
  /\ OnlyControl

(* An exception leaves every kernel function that does not catch it: all   *)
(* but _execute_plugin while the plugin runs.                              *)
Unwind ==
  /\ control = "raise"
  /\ stack # << >>
  /\ ~ On("callback") /\ ~ At("execute", "running")
  /\ Leave("raise")
  /\ OnlyControl

-----------------------------------------------------------------------------
Init ==
  /\ BusInit(InitialSubscribers)
  /\ registry = << >>
  /\ stack = << >>
  /\ control = "user"
  /\ life = [p \in Plugins |-> "discovered"]
  /\ runs = 0
  /\ log = << >>
  /\ calls = 0

DirectCalls ==
  \/ \E type \in EventTypes, handler \in Handlers :
        CallSubscribe(type, handler) \/ CallUnsubscribe(type, handler)
  \/ CallClear
  \/ \E plugin \in Plugins : CallRegister(plugin)
  \/ \E plugins \in Loads : CallLoad(plugins)
  \/ \E id \in PluginIds : CallUnregister(id)
  \/ CallShutdown
  \/ \E id \in PluginIds, capability \in Capabilities :
        CallExecute(id, capability)

UserCalls ==
  \/ DirectCalls
  \/ \E capability \in Capabilities : CallExecuteCapability(capability)

UserEnds == UserResumes \/ UserPropagates \/ UserReturns \/ UserRaises

Transitions ==
  \/ DeliverNext
  \/ RegisterInserts \/ RegisterRollsBack \/ LoadNext
  \/ UnregisterRemoves \/ ShutdownNext
  \/ ExecuteCallsPlugin \/ ExecuteMisreads
  \/ Returns \/ Reraises \/ Unwind

Kernel == Transitions \/ ExecuteFails \/ ExecuteCompletes

Next == UserCalls \/ UserEnds \/ Kernel

Spec == Init /\ [][Next]_vars

(* The interpreter keeps running the kernel, and every callback ends: the  *)
(* kernel enforces no timeout on a plugin or a handler.                    *)
Fairness == WF_vars(Kernel) /\ WF_vars(UserEnds)

FairSpec == Spec /\ Fairness

-----------------------------------------------------------------------------
TypeOK ==
  /\ subscribers \in [EventTypes -> Seq(Handlers)]
  /\ history \in Seq(Event)
  /\ registry \in Seq(Plugins)
  /\ stack \in Seq(Frame)
  /\ control \in {"user", "return", "raise"}
  /\ life \in [Plugins -> {"discovered", "running", "stopped"}]
  /\ runs \in Nat
  /\ log \in Seq(Event)
  /\ calls \in Nat
=============================================================================
