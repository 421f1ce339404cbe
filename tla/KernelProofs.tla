---------------------------- MODULE KernelProofs ----------------------------
(***************************************************************************)
(* Proofs about the runtime kernel, for any plugins, handlers, permitted   *)
(* calls and faults.                                                       *)
(***************************************************************************)
EXTENDS KernelProperties, SequenceLemmas

-----------------------------------------------------------------------------
(* The call stack.                                                         *)

(* A nonempty stack has a top frame, and a stack below it.                 *)
LEMMA StackPops ==
  ASSUME stack \in Seq(Frame), stack # << >>
  PROVE  /\ Len(stack) \in Nat \ {0}
         /\ Top \in Frame
         /\ Below \in Seq(Frame)
         /\ Len(Below) = Len(stack) - 1
         /\ \A i \in 1 .. Len(stack) - 1 : Below[i] = stack[i]
<1> HIDE DEF Frame
<1>1. QED
  BY PopProperties DEF Top, Below

(* The name of a function tells which fields its frame has.                *)
LEMMA FrameOf ==
  ASSUME NEW f \in Frame
  PROVE  /\ f.fn = "register" => f \in RegisterFrame
         /\ f.fn = "unregister" => f \in UnregisterFrame
         /\ f.fn = "shutdown" => f \in ShutdownFrame
         /\ f.fn = "load" => f \in LoadFrame
         /\ f.fn = "execute" => f \in ExecuteFrame
         /\ f.fn = "publish" => f \in PublishFrame
         /\ f.fn = "callback" => f \in CallbackFrame
BY DEF Frame, RegisterFrame, UnregisterFrame, ShutdownFrame, LoadFrame,
       ExecuteFrame, PublishFrame, CallbackFrame

(* An id that is registered belongs to a plugin instance of the registry.  *)
LEMMA LookupType ==
  ASSUME registry \in Seq(Plugins), NEW id, HasId(id)
  PROVE  /\ PositionOf(id) \in 1 .. Len(registry)
         /\ Lookup(id) \in Plugins
         /\ Id[Lookup(id)] = id
<1>1. DOMAIN registry = 1 .. Len(registry)
  BY LenProperties
<1>2. PositionOf(id) \in DOMAIN registry /\ Id[registry[PositionOf(id)]] = id
  BY DEF HasId, PositionOf
<1>3. QED
  BY <1>1, <1>2, ElementOfSeq DEF Lookup

LEMMA RegisteredIdsType ==
  ASSUME registry \in Seq(Plugins)
  PROVE  RegisteredIds \in Seq(PluginIds) /\ Registered \in SUBSET Plugins
<1>1. PICK n \in Nat : n = Len(registry) /\ DOMAIN registry = 1 .. n
                       /\ \A i \in 1 .. n : registry[i] \in Plugins
  BY LenProperties, ElementOfSeq
<1>2. RegisteredIds \in [1 .. n -> PluginIds]
  BY <1>1, IdAssumption DEF RegisteredIds
<1>3. RegisteredIds \in Seq(PluginIds)
  BY <1>2, FunctionIsSeq
<1>4. QED
  BY <1>1, <1>3 DEF Registered

-----------------------------------------------------------------------------
(* Types of what the kernel pushes and publishes.                          *)

LEMMA CallUserType ==
  ASSUME NEW frames \in Seq(Frame), NEW kind \in CallbackKinds,
         NEW who \in Plugins \cup Handlers, CallUser(frames, kind, who)
  PROVE  stack' \in Seq(Frame) /\ control' = "user"
<1>1. Callback(kind, who) \in Frame
  BY DEF Callback, Frame, CallbackFrame
<1>2. QED
  BY <1>1, AppendProperties DEF CallUser

LEMMA PublishType ==
  ASSUME TypeOK, NEW frames \in Seq(Frame), NEW event \in Event,
         Publish(frames, event)
  PROVE  /\ stack' \in Seq(Frame)
         /\ control' = "return"
         /\ history' \in Seq(Event)
         /\ log' \in Seq(Event)
         /\ subscribers' \in [EventTypes -> Seq(Handlers)]
<1>1. Receivers(event) \in Seq(Handlers)
  BY DEF TypeOK, Receivers, Event
<1>2. [fn |-> "publish", event |-> event, todo |-> Receivers(event)] \in Frame
  BY <1>1 DEF Frame, PublishFrame
<1>3. QED
  BY <1>2, AppendProperties DEF Publish, Record, TypeOK

LEMMA LeaveType ==
  ASSUME TypeOK, stack # << >>, NEW outcome, Leave(outcome)
  PROVE  stack' \in Seq(Frame) /\ control' = outcome
BY StackPops DEF Leave, TypeOK

(* Setting the pc of the top frame to one its function has.                *)
LEMMA ResumedType ==
  ASSUME TypeOK, stack # << >>, NEW pc,
         \/ Top.fn = "register" /\ pc \in {"rollback", "announce"}
         \/ Top.fn = "unregister" /\ pc = "announce"
         \/ Top.fn = "execute" /\ pc \in {"running", "failed", "completed"}
  PROVE  Resumed(pc) \in Seq(Frame)
<1>1. Top \in Frame /\ Below \in Seq(Frame)
  BY StackPops DEF TypeOK
<1>2. [Top EXCEPT !.pc = pc] \in Frame
  <2>1. CASE Top.fn = "register"
    BY <1>1, <2>1, FrameOf DEF RegisterFrame, Frame
  <2>2. CASE Top.fn = "unregister"
    BY <1>1, <2>2, FrameOf DEF UnregisterFrame, Frame
  <2>3. CASE Top.fn = "execute"
    BY <1>1, <2>3, FrameOf DEF ExecuteFrame, Frame
  <2>4. QED
    BY <2>1, <2>2, <2>3
<1>3. QED
  BY <1>1, <1>2, AppendProperties DEF Resumed

LEMMA RegisteringType ==
  ASSUME NEW plugin \in Plugins
  PROVE  Registering(plugin) \in Frame
BY DEF Registering, Frame, RegisterFrame

LEMMA UnregisteringType ==
  ASSUME TypeOK, NEW id \in PluginIds, HasId(id)
  PROVE  Unregistering(id) \in Frame
BY LookupType DEF Unregistering, Frame, UnregisterFrame, TypeOK

-----------------------------------------------------------------------------
(* Type correctness.                                                       *)

LEMMA TypeOKInit == Init => TypeOK
BY SubscribersAssumption, EmptySeq DEF Init, BusInit, TypeOK

(* The steps of the kernel functions.                                      *)
LEMMA TypeOKKernel ==
  ASSUME TypeOK, Kernel
  PROVE  TypeOK'
<1> USE DEF busVars, OnlyControl, On, At, Returned
<1>1. stack # << >> => Top \in Frame /\ Below \in Seq(Frame)
  BY StackPops DEF TypeOK
<1>2. CASE DeliverNext
  <2>1. Top \in PublishFrame
    BY <1>1, <1>2, FrameOf DEF DeliverNext
  <2>2. Top.todo \in Seq(Handlers) /\ Top.todo # << >>
    BY <1>2, <2>1 DEF PublishFrame, DeliverNext
  <2>3. Head(Top.todo) \in Handlers /\ Tail(Top.todo) \in Seq(Handlers)
    BY <2>2, HeadTailProperties
  <2>4. [Top EXCEPT !.todo = Tail(@)] \in Frame
    BY <2>1, <2>3 DEF PublishFrame, Frame
  <2>5. Append(Below, [Top EXCEPT !.todo = Tail(@)]) \in Seq(Frame)
    BY <1>1, <1>2, <2>4, AppendProperties DEF DeliverNext
  <2>6. stack' \in Seq(Frame) /\ control' = "user"
    BY <1>2, <2>3, <2>5, CallUserType DEF DeliverNext, CallbackKinds
  <2>7. QED
    BY <1>2, <2>6 DEF DeliverNext, TypeOK
<1>3. CASE RegisterInserts
  <2>1. Top.plugin \in Plugins
    BY <1>1, <1>3, FrameOf DEF RegisterInserts, RegisterFrame
  <2>2. PluginEvent("registered", Id[Top.plugin]) \in Event
    BY <2>1, IdAssumption DEF PluginEvent, Event, EventTypes
  <2>3. Resumed("announce") \in Seq(Frame)
    BY <1>3, ResumedType DEF RegisterInserts
  <2>4. registry' \in Seq(Plugins)
    BY <1>3, <2>1, AppendProperties DEF RegisterInserts, Register, TypeOK
  <2>5. Publish(Resumed("announce"), PluginEvent("registered", Id[Top.plugin]))
    BY <1>3 DEF RegisterInserts
  <2>6. QED
    BY <1>3, <2>2, <2>3, <2>4, <2>5, PublishType DEF RegisterInserts, TypeOK
<1>4. CASE RegisterRollsBack
  <2>1. Top.plugin \in Plugins
    BY <1>1, <1>4, FrameOf DEF RegisterRollsBack, RegisterFrame
  <2>2. Resumed("rollback") \in Seq(Frame)
    BY <1>4, ResumedType DEF RegisterRollsBack
  <2>3. stack' \in Seq(Frame) /\ control' = "user"
    BY <1>4, <2>1, <2>2, CallUserType DEF RegisterRollsBack, CallbackKinds
  <2>4. QED
    BY <1>4, <2>3 DEF RegisterRollsBack, TypeOK
<1>5. CASE LoadNext
  <2>1. Top \in LoadFrame
    BY <1>1, <1>5, FrameOf DEF LoadNext
  <2>2. Head(Top.todo) \in Plugins /\ Tail(Top.todo) \in Seq(Plugins)
    BY <1>5, <2>1, HeadTailProperties DEF LoadNext, LoadFrame
  <2>3. [Top EXCEPT !.todo = Tail(@)] \in Frame
    BY <2>1, <2>2 DEF LoadFrame, Frame
  <2> DEFINE frames == Append(Append(Below, [Top EXCEPT !.todo = Tail(@)]),
                              Registering(Head(Top.todo)))
  <2>4. frames \in Seq(Frame)
    BY <1>1, <1>5, <2>2, <2>3, RegisteringType, AppendProperties DEF LoadNext
  <2>5. CallUser(frames, "initialize", Head(Top.todo))
    BY <1>5 DEF LoadNext
  <2> HIDE DEF frames
  <2>6. stack' \in Seq(Frame) /\ control' = "user"
    BY <2>2, <2>4, <2>5, CallUserType DEF CallbackKinds
  <2>7. QED
    BY <1>5, <2>6 DEF LoadNext, TypeOK
<1>6. CASE UnregisterRemoves
  <2>1. Top.id \in PluginIds
    BY <1>1, <1>6, FrameOf DEF UnregisterRemoves, UnregisterFrame
  <2>2. PluginEvent("unregistered", Top.id) \in Event
    BY <2>1 DEF PluginEvent, Event, EventTypes
  <2>3. Resumed("announce") \in Seq(Frame)
    BY <1>6, ResumedType DEF UnregisterRemoves
  <2>4. registry' \in Seq(Plugins)
    BY <1>6, LookupType, RemoveAtProperties
       DEF UnregisterRemoves, Unregister, TypeOK
  <2>5. Publish(Resumed("announce"), PluginEvent("unregistered", Top.id))
    BY <1>6 DEF UnregisterRemoves
  <2>6. QED
    BY <1>6, <2>2, <2>3, <2>4, <2>5, PublishType DEF UnregisterRemoves, TypeOK
<1>7. CASE ShutdownNext
  <2>1. Top \in ShutdownFrame
    BY <1>1, <1>7, FrameOf DEF ShutdownNext
  <2> DEFINE id == Head(Top.todo)
             rest == [Top EXCEPT !.todo = Tail(@)]
  <2>2. id \in PluginIds /\ Tail(Top.todo) \in Seq(PluginIds)
    BY <1>7, <2>1, HeadTailProperties DEF ShutdownNext, ShutdownFrame
  <2>3. rest \in Frame
    BY <2>1, <2>2 DEF ShutdownFrame, Frame
  <2>4. Append(Below, rest) \in Seq(Frame)
    BY <1>1, <1>7, <2>3, AppendProperties DEF ShutdownNext
  <2>5. \/ /\ HasId(id)
           /\ CallUser(Append(Append(Below, rest), Unregistering(id)),
                       "shutdown", Lookup(id))
        \/ stack' = Append(Below, rest) /\ UNCHANGED control
    BY <1>7 DEF ShutdownNext
  <2> HIDE DEF id, rest
  <2>6. CASE /\ HasId(id)
             /\ CallUser(Append(Append(Below, rest), Unregistering(id)),
                         "shutdown", Lookup(id))
    <3>1. Append(Append(Below, rest), Unregistering(id)) \in Seq(Frame)
      BY <2>2, <2>4, <2>6, UnregisteringType, AppendProperties
    <3>2. Lookup(id) \in Plugins
      BY <2>6, LookupType DEF TypeOK
    <3>3. stack' \in Seq(Frame) /\ control' = "user"
      BY <2>6, <3>1, <3>2, CallUserType DEF CallbackKinds
    <3>4. QED
      BY <1>7, <3>3 DEF ShutdownNext, TypeOK
  <2>7. CASE stack' = Append(Below, rest) /\ UNCHANGED control
    BY <1>7, <2>4, <2>7 DEF ShutdownNext, TypeOK
  <2>8. QED
    BY <2>5, <2>6, <2>7
<1>8. CASE ExecuteCallsPlugin
  <2>1. Top.id \in PluginIds /\ HasId(Top.id)
    BY <1>1, <1>8, FrameOf DEF ExecuteCallsPlugin, ExecuteFrame
  <2>2. Lookup(Top.id) \in Plugins
    BY <2>1, LookupType DEF TypeOK
  <2>3. Resumed("running") \in Seq(Frame)
    BY <1>8, ResumedType DEF ExecuteCallsPlugin
  <2>4. stack' \in Seq(Frame) /\ control' = "user"
    BY <1>8, <2>2, <2>3, CallUserType DEF ExecuteCallsPlugin, CallbackKinds
  <2>5. QED
    BY <1>8, <2>4 DEF ExecuteCallsPlugin, TypeOK
<1>9. CASE ExecuteFails \/ ExecuteCompletes
  <2>1. stack # << >> /\ Top.fn = "execute"
    BY <1>9 DEF ExecuteFails, ExecuteCompletes
  <2>2. Top \in ExecuteFrame
    BY <1>1, <2>1, FrameOf
  <2>3. \A type \in EventTypes : ExecutionEvent(type, Top) \in Event
    BY <2>2 DEF ExecutionEvent, Event, ExecuteFrame
  <2>4. Resumed("failed") \in Seq(Frame) /\ Resumed("completed") \in Seq(Frame)
    BY <2>1, ResumedType
  <2>5. PICK pc \in {"failed", "completed"} :
          Publish(Resumed(pc), ExecutionEvent(pc, Top))
    BY <1>9 DEF ExecuteFails, ExecuteCompletes
  <2>6. ExecutionEvent(pc, Top) \in Event /\ Resumed(pc) \in Seq(Frame)
    BY <2>3, <2>4 DEF EventTypes
  <2>7. /\ stack' \in Seq(Frame)
        /\ control' = "return"
        /\ history' \in Seq(Event)
        /\ log' \in Seq(Event)
        /\ subscribers' \in [EventTypes -> Seq(Handlers)]
    BY <2>5, <2>6, PublishType
  <2>8. QED
    BY <1>9, <2>7 DEF ExecuteFails, ExecuteCompletes, TypeOK
<1>10. CASE Returns \/ Reraises \/ ExecuteMisreads \/ Unwind
  <2>1. stack # << >> /\ (Leave("return") \/ Leave("raise"))
    BY <1>10 DEF Returns, Reraises, ExecuteMisreads, Unwind
  <2>2. stack' \in Seq(Frame) /\ control' \in {"return", "raise"}
    BY <2>1, LeaveType
  <2>3. QED
    BY <1>10, <2>2 DEF Returns, Reraises, ExecuteMisreads, Unwind, TypeOK
<1>11. QED
  BY <1>2, <1>3, <1>4, <1>5, <1>6, <1>7, <1>8, <1>9, <1>10 DEF Kernel, Transitions

LEMMA TypeOKStep ==
  ASSUME TypeOK, [Next]_vars
  PROVE  TypeOK'
<1> USE DEF kernelVars, busVars, Make, OnlyControl, On, At, Returned
<1>1. ASSUME NEW type \in EventTypes, NEW handler \in Handlers,
             CallSubscribe(type, handler) \/ CallUnsubscribe(type, handler)
      PROVE  TypeOK'
  <2>1. /\ Append(subscribers[type], handler) \in Seq(Handlers)
        /\ RemoveFirst(subscribers[type], handler) \in Seq(Handlers)
    BY RemoveFirstType, AppendProperties DEF TypeOK
  <2>2. CASE CallSubscribe(type, handler)
    BY <2>1, <2>2 DEF CallSubscribe, Subscribe, TypeOK
  <2>3. CASE CallUnsubscribe(type, handler)
    BY <2>1, <2>3 DEF CallUnsubscribe, Unsubscribe, TypeOK
  <2>4. QED
    BY <1>1, <2>2, <2>3
<1>2. CASE CallClear
  BY <1>2, EmptySeq DEF CallClear, ClearHistory, TypeOK
<1>3. ASSUME NEW plugin \in Plugins, CallRegister(plugin)
      PROVE  TypeOK'
  <2>1. Append(stack, Registering(plugin)) \in Seq(Frame)
    BY RegisteringType, AppendProperties DEF TypeOK
  <2>2. stack' \in Seq(Frame) /\ control' = "user"
    BY <1>3, <2>1, CallUserType DEF CallRegister, CallbackKinds
  <2>3. QED
    BY <1>3, <2>2 DEF CallRegister, TypeOK
<1>4. ASSUME NEW plugins \in Loads, CallLoad(plugins)
      PROVE  TypeOK'
  <2>1. [fn |-> "load", todo |-> plugins] \in Frame
    BY LoadsAssumption DEF Frame, LoadFrame
  <2>2. Append(stack, [fn |-> "load", todo |-> plugins]) \in Seq(Frame)
    BY <2>1, AppendProperties DEF TypeOK
  <2> DEFINE pushed == Append(stack, [fn |-> "load", todo |-> plugins])
  <2>3. /\ \/ stack' = pushed /\ control' = "return"
           \/ UNCHANGED stack /\ control' = "raise"
        /\ UNCHANGED <<busVars, registry, life, runs, log>>
        /\ calls' = calls + 1
    BY <1>4 DEF CallLoad
  <2> HIDE DEF pushed
  <2>4. pushed \in Seq(Frame)
    BY <2>2 DEF pushed
  <2>5. QED
    BY <2>3, <2>4 DEF TypeOK
<1>5. ASSUME NEW id \in PluginIds, CallUnregister(id)
      PROVE  TypeOK'
  <2>1. CASE HasId(id)
    <3>1. Append(stack, Unregistering(id)) \in Seq(Frame)
      BY <2>1, UnregisteringType, AppendProperties DEF TypeOK
    <3>2. Lookup(id) \in Plugins
      BY <2>1, LookupType DEF TypeOK
    <3>3. stack' \in Seq(Frame) /\ control' = "user"
      BY <1>5, <2>1, <3>1, <3>2, CallUserType DEF CallUnregister, CallbackKinds
    <3>4. QED
      BY <1>5, <3>3 DEF CallUnregister, TypeOK
  <2>2. CASE ~ HasId(id)
    BY <1>5, <2>2 DEF CallUnregister, TypeOK
  <2>3. QED
    BY <2>1, <2>2
<1>6. CASE CallShutdown
  <2>1. RegisteredIds \in Seq(PluginIds) /\ Registered \in SUBSET Plugins
    BY RegisteredIdsType DEF TypeOK
  <2>2. [fn |-> "shutdown", todo |-> RegisteredIds, managed |-> Registered]
          \in Frame
    BY <2>1 DEF Frame, ShutdownFrame
  <2>3. QED
    BY <1>6, <2>2, AppendProperties DEF CallShutdown, TypeOK
<1>7. ASSUME NEW id \in PluginIds, NEW capability \in Capabilities,
             NEW routed \in BOOLEAN,
             BeginExecution(id, capability, routed), calls' = calls + 1
      PROVE  TypeOK'
  <2> DEFINE frame == [fn |-> "execute", pc |-> "started", id |-> id,
                       run |-> runs + 1, capability |-> capability,
                       routed |-> routed]
  <2>1. frame \in Frame /\ ExecutionEvent("started", frame) \in Event
    BY DEF Frame, ExecuteFrame, ExecutionEvent, Event, EventTypes, TypeOK
  <2>2. Append(stack, frame) \in Seq(Frame)
    BY <2>1, AppendProperties DEF TypeOK
  <2>3. Publish(Append(stack, frame), ExecutionEvent("started", frame))
    BY <1>7 DEF BeginExecution
  <2> HIDE DEF frame
  <2>4. /\ stack' \in Seq(Frame)
        /\ control' = "return"
        /\ history' \in Seq(Event)
        /\ log' \in Seq(Event)
        /\ subscribers' \in [EventTypes -> Seq(Handlers)]
    BY <2>1, <2>2, <2>3, PublishType
  <2>5. QED
    BY <1>7, <2>4 DEF BeginExecution, TypeOK
<1>8. ASSUME NEW capability \in Capabilities, CallExecuteCapability(capability)
      PROVE  TypeOK'
  <2>1. ASSUME NEW i \in DOMAIN registry,
               BeginExecution(Id[registry[i]], capability, TRUE),
               calls' = calls + 1
        PROVE  TypeOK'
    <3>1. Id[registry[i]] \in PluginIds
      BY IdAssumption, LenProperties, ElementOfSeq DEF TypeOK
    <3>2. QED
      BY <1>7, <2>1, <3>1
  <2>2. \/ /\ calls' = calls + 1
           /\ \E i \in DOMAIN registry :
                BeginExecution(Id[registry[i]], capability, TRUE)
        \/ /\ calls' = calls + 1 /\ control' = "raise"
           /\ UNCHANGED <<busVars, registry, stack, life, runs, log>>
    BY <1>8 DEF CallExecuteCapability, FindByCapability, Make
  <2>3. CASE /\ calls' = calls + 1 /\ control' = "raise"
             /\ UNCHANGED <<busVars, registry, stack, life, runs, log>>
    BY <2>3 DEF TypeOK
  <2>4. QED
    BY <2>1, <2>2, <2>3
<1>9. CASE UserEnds
  <2>1. CASE UserResumes
    BY <2>1 DEF UserResumes, TypeOK
  <2>2. CASE UserPropagates
    BY <2>2, LeaveType DEF UserPropagates, TypeOK
  <2>3. CASE UserReturns
    BY <2>3, LeaveType DEF UserReturns, TypeOK
  <2>4. CASE UserRaises
    BY <2>4, LeaveType DEF UserRaises, TypeOK
  <2>5. QED
    BY <1>9, <2>1, <2>2, <2>3, <2>4 DEF UserEnds
<1>10. CASE Kernel
  BY <1>10, TypeOKKernel
<1>11. CASE UNCHANGED vars
  BY <1>11 DEF vars, TypeOK
<1>12. ASSUME NEW id \in PluginIds, NEW capability \in Capabilities,
             CallExecute(id, capability)
       PROVE  TypeOK'
  BY <1>7, <1>12 DEF CallExecute
<1>13. QED
  BY <1>1, <1>2, <1>3, <1>4, <1>5, <1>6, <1>8, <1>9, <1>10, <1>11, <1>12
     DEF Next, UserCalls, DirectCalls

(* The state always has the shape the kernel's data structures have.       *)
THEOREM TypeCorrectness == Spec => []TypeOK
<1>1. TypeOK /\ [Next]_vars => TypeOK'
  BY TypeOKStep
<1>2. QED
  BY <1>1, TypeOKInit, PTL DEF Spec

-----------------------------------------------------------------------------
(* The log explains the registry.  The invariant that is inductive adds    *)
(* that no two registered plugins have the same id: otherwise removing one *)
(* of them would leave the id registered after its UNREGISTERED event.     *)

UniqueIds ==
  \A i, j \in DOMAIN registry : Id[registry[i]] = Id[registry[j]] => i = j

RegistryInv == UniqueIds /\ LogExplainsRegistry

(* What one more event does to the explanation of an id.                   *)
LEMMA ExplainedAppend ==
  ASSUME NEW events \in Seq(Event), NEW event \in Event, NEW id
  PROVE  /\ event.type = "registered" /\ event.id = id
              => Explained(Append(events, event), id)
         /\ event.type = "unregistered" /\ event.id = id
              => ~ Explained(Append(events, event), id)
         /\ event.type \notin {"registered", "unregistered"} \/ event.id # id
              => (Explained(Append(events, event), id) <=> Explained(events, id))
<1> DEFINE more == Append(events, event)
<1>1. PICK n \in Nat : n = Len(events) /\ DOMAIN events = 1 .. n
  BY LenProperties
<1>2. /\ Len(more) = n + 1 /\ DOMAIN more = 1 .. n + 1
      /\ \A i \in 1 .. n : more[i] = events[i]
      /\ more[n + 1] = event
  BY <1>1, AppendProperties, LenProperties
<1> HIDE DEF more
<1>3. ASSUME event.type = "registered", event.id = id
      PROVE  Explained(more, id)
  <2>1. n + 1 \in DOMAIN more /\ (n + 1) + 1 .. Len(more) = {}
    BY <1>2
  <2>2. QED
    BY <1>2, <1>3, <2>1 DEF Explained
<1>4. ASSUME event.type = "unregistered", event.id = id
      PROVE  ~ Explained(more, id)
  <2>1. SUFFICES ASSUME NEW i \in 1 .. n + 1, more[i].type = "registered"
                 PROVE  n + 1 \in i + 1 .. Len(more)
    BY <1>2, <1>4, <2>1 DEF Explained
  <2>2. i # n + 1
    BY <1>2, <1>4, <2>1
  <2>3. QED
    BY <1>2, <2>1, <2>2
<1>5. ASSUME event.type \notin {"registered", "unregistered"} \/ event.id # id
      PROVE  Explained(more, id) <=> Explained(events, id)
  <2>1. ASSUME NEW i \in 1 .. n,
               \A j \in i + 1 .. n :
                 ~ (events[j].type = "unregistered" /\ events[j].id = id),
               NEW j \in i + 1 .. n + 1
        PROVE  ~ (more[j].type = "unregistered" /\ more[j].id = id)
    <3>1. CASE j = n + 1
      BY <1>2, <1>5, <3>1
    <3>2. CASE j # n + 1
      <4>1. j \in i + 1 .. n /\ j \in 1 .. n
        BY <3>2
      <4>2. QED
        BY <1>2, <2>1, <4>1
    <3>3. QED
      BY <3>1, <3>2
  <2>2. Explained(events, id) => Explained(more, id)
    <3>1. SUFFICES ASSUME Explained(events, id)
                   PROVE  Explained(more, id)
      OBVIOUS
    <3>2. PICK i \in 1 .. n :
            /\ events[i].type = "registered" /\ events[i].id = id
            /\ \A j \in i + 1 .. n :
                 ~ (events[j].type = "unregistered" /\ events[j].id = id)
      BY <1>1, <3>1 DEF Explained
    <3>3. \A j \in i + 1 .. n + 1 :
            ~ (more[j].type = "unregistered" /\ more[j].id = id)
      BY <2>1, <3>2
    <3>4. i \in 1 .. n + 1 /\ more[i] = events[i]
      BY <1>2
    <3>5. QED
      BY <1>2, <3>2, <3>3, <3>4 DEF Explained
  <2>3. Explained(more, id) => Explained(events, id)
    <3>1. SUFFICES ASSUME Explained(more, id)
                   PROVE  Explained(events, id)
      OBVIOUS
    <3>2. PICK i \in 1 .. n + 1 :
            /\ more[i].type = "registered" /\ more[i].id = id
            /\ \A j \in i + 1 .. n + 1 :
                 ~ (more[j].type = "unregistered" /\ more[j].id = id)
      BY <1>2, <3>1 DEF Explained
    <3>3. i \in 1 .. n
      BY <1>2, <1>5, <3>2
    <3>4. \A j \in i + 1 .. n : j \in 1 .. n /\ j \in i + 1 .. n + 1
      BY <3>3
    <3>5. \A j \in i + 1 .. n :
            ~ (events[j].type = "unregistered" /\ events[j].id = id)
      BY <1>2, <3>2, <3>4
    <3>6. QED
      BY <1>1, <1>2, <3>2, <3>3, <3>5 DEF Explained
  <2>4. QED
    BY <2>2, <2>3
<1>6. QED
  BY <1>3, <1>4, <1>5 DEF more

(* A step that publishes an execution event or none keeps the invariant.   *)
LEMMA RegistryInvNeutral ==
  ASSUME TypeOK, RegistryInv, UNCHANGED registry,
         \/ UNCHANGED log
         \/ \E event \in Event : /\ log' = Append(log, event)
                                 /\ event.type \notin {"registered", "unregistered"}
  PROVE  RegistryInv'
<1>1. UniqueIds' /\ \A id : HasId(id)' <=> HasId(id)
  BY DEF RegistryInv, UniqueIds, HasId
<1>2. \A id : Explained(log', id) <=> Explained(log, id)
  BY ExplainedAppend DEF TypeOK
<1>3. QED
  BY <1>1, <1>2 DEF RegistryInv, LogExplainsRegistry

LEMMA RegistryInvRegister ==
  ASSUME TypeOK, RegistryInv, RegisterInserts
  PROVE  RegistryInv'
<1> DEFINE plugin == Top.plugin
           event  == PluginEvent("registered", Id[plugin])
<1>1. plugin \in Plugins /\ Id[plugin] \in PluginIds
  BY StackPops, FrameOf, IdAssumption
     DEF RegisterInserts, RegisterFrame, Returned, At, On, TypeOK
<1>2. event \in Event /\ event.type = "registered" /\ event.id = Id[plugin]
  BY <1>1 DEF PluginEvent, Event, EventTypes
<1>3. /\ ~ HasId(Id[plugin])
      /\ registry' = Append(registry, plugin)
      /\ log' = Append(log, event)
  BY DEF RegisterInserts, Register, Publish
<1> HIDE DEF plugin, event
<1>4. PICK n \in Nat : n = Len(registry) /\ DOMAIN registry = 1 .. n
  BY LenProperties DEF TypeOK
<1>5. /\ DOMAIN registry' = 1 .. n + 1
      /\ \A i \in 1 .. n : registry'[i] = registry[i]
      /\ registry'[n + 1] = plugin
  BY <1>1, <1>3, <1>4, AppendProperties, LenProperties DEF TypeOK
<1>6. UniqueIds'
  <2>1. \A i \in 1 .. n : Id[registry[i]] # Id[plugin]
    BY <1>3, <1>4 DEF HasId
  <2>2. \A i \in 1 .. n + 1 : i = n + 1 \/ i \in 1 .. n
    OBVIOUS
  <2>3. QED
    BY <1>4, <1>5, <2>1, <2>2 DEF RegistryInv, UniqueIds
<1>7. \A id : HasId(id)' <=> HasId(id) \/ id = Id[plugin]
  <2>1. \A i \in 1 .. n + 1 : i = n + 1 \/ i \in 1 .. n
    OBVIOUS
  <2>2. n + 1 \in 1 .. n + 1 /\ \A i \in 1 .. n : i \in 1 .. n + 1
    OBVIOUS
  <2>3. QED
    BY <1>4, <1>5, <2>1, <2>2 DEF HasId
<1>8. \A id \in PluginIds :
        Explained(log', id) <=> Explained(log, id) \/ id = Id[plugin]
  BY <1>2, <1>3, ExplainedAppend DEF TypeOK
<1>9. QED
  BY <1>6, <1>7, <1>8 DEF RegistryInv, LogExplainsRegistry

LEMMA RegistryInvUnregister ==
  ASSUME TypeOK, RegistryInv, UnregisterRemoves
  PROVE  RegistryInv'
<1> DEFINE gone  == Top.id
           event == PluginEvent("unregistered", gone)
<1>1. gone \in PluginIds
  BY StackPops, FrameOf
     DEF UnregisterRemoves, UnregisterFrame, Returned, At, On, TypeOK
<1>2. event \in Event /\ event.type = "unregistered" /\ event.id = gone
  BY <1>1 DEF PluginEvent, Event, EventTypes
<1>3. log' = Append(log, event) /\ Unregister(gone)
  BY DEF UnregisterRemoves, Publish
<1> HIDE DEF gone, event
<1>4. UniqueIds' /\ \A id : HasId(id)' <=> HasId(id) /\ id # gone
  <2>1. CASE ~ HasId(gone)
    BY <1>3, <2>1 DEF Unregister, RegistryInv, UniqueIds, HasId
  <2>2. CASE HasId(gone)
    <3> DEFINE k == PositionOf(gone)
    <3>1. PICK n \in Nat : n = Len(registry) /\ DOMAIN registry = 1 .. n
      BY LenProperties DEF TypeOK
    <3>2. k \in 1 .. n /\ Id[registry[k]] = gone
      BY <2>2, <3>1, LookupType DEF TypeOK, Lookup
    <3>3. registry' = RemoveAt(registry, k)
      BY <1>3, <2>2 DEF Unregister
    <3> HIDE DEF k
    <3>4. /\ RemoveAt(registry, k) \in Seq(Plugins)
          /\ Len(RemoveAt(registry, k)) = n - 1
          /\ \A i \in 1 .. n - 1 :
               RemoveAt(registry, k)[i] =
                 IF i < k THEN registry[i] ELSE registry[i + 1]
      BY <3>1, <3>2, RemoveAtProperties DEF TypeOK
    <3>5. DOMAIN registry' = 1 .. n - 1
      BY <3>3, <3>4, LenProperties
    <3> DEFINE old(i) == IF i < k THEN i ELSE i + 1
    <3>6. \A i \in 1 .. n - 1 : /\ old(i) \in 1 .. n
                                /\ old(i) # k
                                /\ registry'[i] = registry[old(i)]
      BY <3>2, <3>3, <3>4
    <3>7. \A i, j \in 1 .. n - 1 : old(i) = old(j) => i = j
      BY <3>2
    <3>8. \A m \in 1 .. n : m # k => \E i \in 1 .. n - 1 : old(i) = m
      <4> TAKE m \in 1 .. n
      <4>1. CASE m < k
        <5>1. m \in 1 .. n - 1 /\ old(m) = m
          BY <3>2, <4>1
        <5>2. QED
          BY <5>1
      <4>2. CASE m > k
        <5>1. m - 1 \in 1 .. n - 1 /\ old(m - 1) = m
          BY <3>2, <4>2
        <5>2. QED
          BY <5>1
      <4>3. QED
        BY <3>2, <4>1, <4>2
    <3> HIDE DEF old
    <3>9. \A i, j \in 1 .. n : Id[registry[i]] = Id[registry[j]] => i = j
      BY <3>1 DEF RegistryInv, UniqueIds
    <3>10. UniqueIds'
      BY <3>5, <3>6, <3>7, <3>9 DEF UniqueIds
    <3>11. ASSUME NEW id
           PROVE  HasId(id)' <=> HasId(id) /\ id # gone
      <4>1. ASSUME HasId(id)' PROVE HasId(id) /\ id # gone
        <5>1. PICK i \in 1 .. n - 1 : Id[registry'[i]] = id
          BY <3>5, <4>1 DEF HasId
        <5>2. /\ old(i) \in 1 .. n /\ old(i) # k
              /\ Id[registry[old(i)]] = id
          BY <3>6, <5>1
        <5>3. QED
          BY <3>1, <3>2, <3>9, <5>2 DEF HasId
      <4>2. ASSUME HasId(id), id # gone PROVE HasId(id)'
        <5>1. PICK m \in 1 .. n : Id[registry[m]] = id
          BY <3>1, <4>2 DEF HasId
        <5>2. PICK i \in 1 .. n - 1 : old(i) = m
          BY <3>2, <3>8, <4>2, <5>1
        <5>3. QED
          BY <3>5, <3>6, <5>1, <5>2 DEF HasId
      <4>3. QED
        BY <4>1, <4>2
    <3>12. QED
      BY <3>10, <3>11
  <2>3. QED
    BY <2>1, <2>2
<1>5. \A id \in PluginIds :
        Explained(log', id) <=> Explained(log, id) /\ id # gone
  BY <1>2, <1>3, ExplainedAppend DEF TypeOK
<1>6. QED
  BY <1>4, <1>5 DEF RegistryInv, LogExplainsRegistry

LEMMA RegistryInvStep ==
  ASSUME TypeOK, RegistryInv, [Next]_vars
  PROVE  RegistryInv'
<1> USE DEF OnlyControl
<1>1. ASSUME UNCHANGED <<registry, log>>
      PROVE  RegistryInv'
  BY <1>1, RegistryInvNeutral
<1>2. CASE UserCalls
  <2>1. ASSUME NEW id \in PluginIds, NEW capability \in Capabilities,
               NEW routed \in BOOLEAN,
               BeginExecution(id, capability, routed)
        PROVE  RegistryInv'
    <3> DEFINE frame == [fn |-> "execute", pc |-> "started", id |-> id,
                         run |-> runs + 1, capability |-> capability,
                         routed |-> routed]
               event == ExecutionEvent("started", frame)
    <3>1. log' = Append(log, event) /\ UNCHANGED registry
      BY <2>1 DEF BeginExecution, Publish
    <3>2. event \in Event /\ event.type = "started"
      BY DEF ExecutionEvent, Event, EventTypes, TypeOK
    <3>3. QED
      BY <3>1, <3>2, RegistryInvNeutral
  <2>2. \A i \in DOMAIN registry : Id[registry[i]] \in PluginIds
    BY IdAssumption, LenProperties, ElementOfSeq DEF TypeOK
  <2>3. ASSUME NEW capability \in Capabilities,
               CallExecuteCapability(capability)
        PROVE  RegistryInv'
    BY <1>1, <2>1, <2>2, <2>3 DEF CallExecuteCapability, FindByCapability
  <2>4. ASSUME NEW id \in PluginIds, NEW capability \in Capabilities,
             CallExecute(id, capability)
        PROVE  RegistryInv'
    BY <2>1, <2>4 DEF CallExecute
  <2>5. QED
    BY <1>1, <1>2, <2>3, <2>4
       DEF UserCalls, DirectCalls, CallSubscribe, CallUnsubscribe, CallClear, CallRegister,
           CallLoad, CallUnregister, CallShutdown
<1>3. CASE UserEnds
  BY <1>1, <1>3 DEF UserEnds, UserResumes, UserPropagates, UserReturns, UserRaises
<1>4. CASE ExecuteFails \/ ExecuteCompletes
  <2>1. Top \in ExecuteFrame
    BY <1>4, StackPops, FrameOf
       DEF ExecuteFails, ExecuteCompletes, Returned, At, On, TypeOK
  <2>2. PICK type \in {"failed", "completed"} :
          log' = Append(log, ExecutionEvent(type, Top))
    BY <1>4 DEF ExecuteFails, ExecuteCompletes, Publish
  <2>3. /\ ExecutionEvent(type, Top) \in Event
        /\ ExecutionEvent(type, Top).type = type
    BY <2>1 DEF ExecutionEvent, Event, EventTypes, ExecuteFrame
  <2>4. UNCHANGED registry
    BY <1>4 DEF ExecuteFails, ExecuteCompletes
  <2>5. QED
    BY <2>2, <2>3, <2>4, RegistryInvNeutral
<1>5. CASE Kernel
  BY <1>1, <1>4, <1>5, RegistryInvRegister, RegistryInvUnregister
     DEF Kernel, Transitions, DeliverNext, RegisterRollsBack, LoadNext, ShutdownNext,
         ExecuteCallsPlugin, Returns, Reraises, ExecuteMisreads, Unwind
<1>6. CASE UNCHANGED vars
  BY <1>1, <1>6 DEF vars, kernelVars
<1>7. QED
  BY <1>2, <1>3, <1>5, <1>6 DEF Next

(* Whatever handlers and plugins do, an id is registered exactly when its  *)
(* last lifecycle event says so.                                           *)
THEOREM LogExplainsTheRegistry == Spec => []LogExplainsRegistry
<1>1. Init => RegistryInv
  BY DEF Init, RegistryInv, UniqueIds, LogExplainsRegistry, HasId, Explained
<1>2. TypeOK /\ RegistryInv /\ [Next]_vars => RegistryInv'
  BY RegistryInvStep
<1>3. RegistryInv => LogExplainsRegistry
  BY DEF RegistryInv
<1>4. QED
  BY <1>1, <1>2, <1>3, TypeCorrectness, PTL DEF Spec

-----------------------------------------------------------------------------
(* One outcome per execution.  The invariant that is inductive says of     *)
(* every _execute_plugin call on the stack that its context is its own,    *)
(* that its STARTED event is in the log, and that no outcome is, as long   *)
(* as it has published none.                                               *)

IsExecution(i) == stack[i].fn = "execute"

StartedIn(events, run, id) ==
  \E j \in DOMAIN events :
    /\ events[j].type = "started"
    /\ events[j].run = run
    /\ events[j].id = id

RunsInv ==
  /\ \A i \in DOMAIN log : Terminal(i) => log[i].run <= runs
  /\ \A i \in DOMAIN stack : IsExecution(i) =>
       /\ stack[i].run <= runs
       /\ StartedIn(log, stack[i].run, stack[i].id)
       /\ stack[i].pc \in {"started", "running"} =>
            \A k \in DOMAIN log : Terminal(k) => log[k].run # stack[i].run
  /\ \A i, j \in DOMAIN stack :
       IsExecution(i) /\ IsExecution(j) /\ stack[i].run = stack[j].run => i = j
  /\ OneOutcome

(* The stack after the top frame is replaced and another one pushed on it. *)
LEMMA ReplaceAndPush ==
  ASSUME stack \in Seq(Frame), stack # << >>,
         NEW f \in Frame, NEW g \in Frame,
         stack' = Append(Append(Below, f), g)
  PROVE  /\ DOMAIN stack' = 1 .. Len(stack) + 1
         /\ \A i \in 1 .. Len(stack) - 1 : stack'[i] = stack[i]
         /\ stack'[Len(stack)] = f
         /\ stack'[Len(stack) + 1] = g
<1> HIDE DEF Frame
<1>1. PICK m \in Nat : m = Len(stack) /\ m # 0
  BY StackPops
<1>2. /\ Below \in Seq(Frame) /\ Len(Below) = m - 1
      /\ \A i \in 1 .. m - 1 : Below[i] = stack[i]
  BY <1>1, StackPops
<1> DEFINE s == Append(Below, f)
<1>3. /\ s \in Seq(Frame) /\ Len(s) = (m - 1) + 1
      /\ \A i \in 1 .. m - 1 : s[i] = stack[i]
      /\ s[(m - 1) + 1] = f
  BY <1>2, AppendProperties
<1>4. stack' = Append(s, g)
  OBVIOUS
<1> HIDE DEF s
<1>5. (m - 1) + 1 = m /\ \A i \in 1 .. m - 1 : i \in 1 .. m
  BY <1>1
<1>6. /\ stack' \in Seq(Frame) /\ Len(stack') = m + 1
      /\ \A i \in 1 .. m : stack'[i] = s[i]
      /\ stack'[m + 1] = g
  BY <1>3, <1>4, <1>5, AppendProperties
<1>7. m \in 1 .. m
  BY <1>1
<1>8. QED
  BY <1>1, <1>3, <1>5, <1>6, <1>7, LenProperties

(* A longer log, by one event that is not an outcome, still has one        *)
(* outcome per execution.                                                  *)
LEMMA OneOutcomeAppend ==
  ASSUME log \in Seq(Event), OneOutcome, NEW event \in Event,
         log' = Append(log, event),
         event.type \in {"completed", "failed"} =>
           /\ StartedIn(log, event.run, event.id)
           /\ \A k \in DOMAIN log : Terminal(k) => log[k].run # event.run
  PROVE  OneOutcome'
<1>1. PICK n \in Nat : n = Len(log) /\ DOMAIN log = 1 .. n
  BY LenProperties
<1>2. /\ DOMAIN log' = 1 .. n + 1
      /\ \A i \in 1 .. n : log'[i] = log[i]
      /\ log'[n + 1] = event
  BY <1>1, AppendProperties, LenProperties
<1>3. \A i \in 1 .. n + 1 : i \in 1 .. n \/ i = n + 1
  OBVIOUS
<1>4. \A i \in 1 .. n : Terminal(i)' <=> Terminal(i)
  BY <1>2 DEF Terminal
<1>5. Terminal(n + 1)' <=> event.type \in {"completed", "failed"}
  BY <1>2 DEF Terminal
<1>6. ASSUME NEW i \in 1 .. n + 1, NEW j \in 1 .. n + 1,
             Terminal(i)', Terminal(j)', log'[i].run = log'[j].run
      PROVE  i = j
  <2>1. CASE i \in 1 .. n /\ j \in 1 .. n
    BY <1>1, <1>2, <1>4, <1>6, <2>1 DEF OneOutcome
  <2>2. CASE i = n + 1 /\ j \in 1 .. n
    BY <1>1, <1>2, <1>4, <1>5, <1>6, <2>2
  <2>3. CASE i \in 1 .. n /\ j = n + 1
    BY <1>1, <1>2, <1>4, <1>5, <1>6, <2>3
  <2>4. QED
    BY <1>3, <2>1, <2>2, <2>3
<1>7. ASSUME NEW i \in 1 .. n + 1, Terminal(i)'
      PROVE  \E j \in 1 .. i - 1 : /\ log'[j].type = "started"
                                   /\ log'[j].run = log'[i].run
                                   /\ log'[j].id = log'[i].id
  <2>1. CASE i \in 1 .. n
    <3>1. PICK j \in 1 .. i - 1 : /\ log[j].type = "started"
                                  /\ log[j].run = log[i].run
                                  /\ log[j].id = log[i].id
      BY <1>1, <1>4, <1>7, <2>1 DEF OneOutcome
    <3>2. j \in 1 .. n
      BY <2>1
    <3>3. QED
      BY <1>2, <2>1, <3>1, <3>2
  <2>2. CASE i = n + 1
    <3>1. PICK j \in 1 .. n : /\ log[j].type = "started"
                              /\ log[j].run = event.run
                              /\ log[j].id = event.id
      BY <1>1, <1>5, <1>7, <2>2 DEF StartedIn
    <3>2. j \in 1 .. n
      OBVIOUS
    <3>3. QED
      BY <1>2, <2>2, <3>1, <3>2
  <2>3. QED
    BY <1>3, <2>1, <2>2
<1>8. QED
  BY <1>2, <1>6, <1>7 DEF OneOutcome

LEMMA StartedInAppend ==
  ASSUME NEW events \in Seq(Event), NEW event \in Event, NEW run, NEW id
  PROVE  /\ StartedIn(events, run, id)
              => StartedIn(Append(events, event), run, id)
         /\ event.type = "started" /\ event.run = run /\ event.id = id
              => StartedIn(Append(events, event), run, id)
<1>1. PICK n \in Nat : n = Len(events) /\ DOMAIN events = 1 .. n
  BY LenProperties
<1>2. /\ DOMAIN Append(events, event) = 1 .. n + 1
      /\ \A i \in 1 .. n : Append(events, event)[i] = events[i]
      /\ Append(events, event)[n + 1] = event
  BY <1>1, AppendProperties, LenProperties
<1>3. n + 1 \in 1 .. n + 1 /\ \A i \in 1 .. n : i \in 1 .. n + 1
  OBVIOUS
<1>4. QED
  BY <1>1, <1>2, <1>3 DEF StartedIn

(* The executions of a stack are those of the present one, at the same     *)
(* places, and those in progress were in progress.                         *)
Kept(frames) ==
  \A i \in DOMAIN frames :
    frames[i].fn = "execute" => /\ i \in DOMAIN stack /\ IsExecution(i)
                                /\ frames[i].run = stack[i].run
                                /\ frames[i].id = stack[i].id
                                /\ frames[i].pc \in {"started", "running"}
                                     => stack[i].pc \in {"started", "running"}

LEMMA KeptPush ==
  ASSUME NEW frames \in Seq(Frame), Kept(frames),
         NEW f \in Frame, f.fn # "execute"
  PROVE  Append(frames, f) \in Seq(Frame) /\ Kept(Append(frames, f))
<1> HIDE DEF Frame
<1>1. PICK n \in Nat : n = Len(frames) /\ DOMAIN frames = 1 .. n
  BY LenProperties
<1>2. /\ Append(frames, f) \in Seq(Frame)
      /\ DOMAIN Append(frames, f) = 1 .. n + 1
      /\ \A i \in 1 .. n : Append(frames, f)[i] = frames[i]
      /\ Append(frames, f)[n + 1] = f
  BY <1>1, AppendProperties, LenProperties
<1>3. \A i \in 1 .. n + 1 : i \in 1 .. n \/ i = n + 1
  OBVIOUS
<1>4. QED
  BY <1>1, <1>2, <1>3 DEF Kept

(* Popping the top frame, or replacing it by one of the same function.     *)
LEMMA KeptPop ==
  ASSUME TypeOK, stack # << >>
  PROVE  /\ Below \in Seq(Frame) /\ Kept(Below)
         /\ \A f \in Frame :
              /\ f.fn = Top.fn
              /\ f.fn = "execute" =>
                   /\ f.run = Top.run /\ f.id = Top.id
                   /\ f.pc \in {"started", "running"}
                        => Top.pc \in {"started", "running"}
              => Append(Below, f) \in Seq(Frame) /\ Kept(Append(Below, f))
<1> HIDE DEF Frame
<1>1. PICK m \in Nat : m = Len(stack) /\ m # 0 /\ DOMAIN stack = 1 .. m
  BY StackPops, LenProperties DEF TypeOK
<1>2. /\ Below \in Seq(Frame) /\ Len(Below) = m - 1
      /\ DOMAIN Below = 1 .. m - 1
      /\ \A i \in 1 .. m - 1 : Below[i] = stack[i]
  BY <1>1, StackPops, LenProperties DEF TypeOK
<1>3. \A i \in 1 .. m - 1 : i \in 1 .. m
  BY <1>1
<1>4. Kept(Below)
  BY <1>1, <1>2, <1>3 DEF Kept, IsExecution
<1>5. ASSUME NEW f \in Frame, f.fn = Top.fn,
             f.fn = "execute" =>
               /\ f.run = Top.run /\ f.id = Top.id
               /\ f.pc \in {"started", "running"}
                    => Top.pc \in {"started", "running"}
      PROVE  Append(Below, f) \in Seq(Frame) /\ Kept(Append(Below, f))
  <2>1. (m - 1) + 1 = m
    BY <1>1
  <2>2. /\ Append(Below, f) \in Seq(Frame)
        /\ DOMAIN Append(Below, f) = 1 .. m
        /\ \A i \in 1 .. m - 1 : Append(Below, f)[i] = stack[i]
        /\ Append(Below, f)[m] = f
    BY <1>1, <1>2, <2>1, AppendProperties, LenProperties
  <2>3. \A i \in 1 .. m : i \in 1 .. m - 1 \/ i = m
    BY <1>1
  <2>4. Top = stack[m] /\ m \in 1 .. m
    BY <1>1 DEF Top
  <2>5. QED
    BY <1>1, <1>3, <1>5, <2>2, <2>3, <2>4 DEF Kept, IsExecution
<1>6. QED
  BY <1>2, <1>4, <1>5

LEMMA KeptStack == Kept(stack)
BY DEF Kept, IsExecution

(* A step keeps the invariant if each execution on the new stack was there *)
(* before, at the same place, and still has no outcome unless it had one   *)
(* already; what it publishes is no outcome of an execution.               *)
LEMMA RunsInvNeutral ==
  ASSUME TypeOK, RunsInv, TypeOK', UNCHANGED runs,
         Kept(stack'),
         \/ UNCHANGED log
         \/ \E event \in Event : /\ log' = Append(log, event)
                                 /\ event.type \notin {"completed", "failed"}
  PROVE  RunsInv'
<1>0. \A i \in DOMAIN stack' :
        IsExecution(i)' => /\ i \in DOMAIN stack /\ IsExecution(i)
                           /\ stack'[i].run = stack[i].run
                           /\ stack'[i].id = stack[i].id
                           /\ stack'[i].pc \in {"started", "running"}
                                => stack[i].pc \in {"started", "running"}
  BY DEF Kept, IsExecution
<1>1. CASE UNCHANGED log
  <2>1. (\A i : Terminal(i)' <=> Terminal(i)) /\ OneOutcome'
    BY <1>1 DEF RunsInv, OneOutcome, Terminal
  <2>2. QED
    BY <1>0, <1>1, <2>1 DEF RunsInv
<1>2. ASSUME NEW event \in Event, log' = Append(log, event),
             event.type \notin {"completed", "failed"}
      PROVE  RunsInv'
  <2>1. PICK n \in Nat : n = Len(log) /\ DOMAIN log = 1 .. n
    BY LenProperties DEF TypeOK
  <2>2. /\ DOMAIN log' = 1 .. n + 1 /\ Len(log') = n + 1
        /\ \A i \in 1 .. n : log'[i] = log[i]
        /\ log'[n + 1] = event
    BY <1>2, <2>1, AppendProperties, LenProperties DEF TypeOK
  <2>3. \A i \in 1 .. n + 1 :
          Terminal(i)' => i \in 1 .. n /\ Terminal(i) /\ log'[i] = log[i]
    BY <1>2, <2>2 DEF Terminal
  <2>4. OneOutcome'
    BY <1>2, OneOutcomeAppend DEF RunsInv, TypeOK
  <2>5. \A run, id : StartedIn(log, run, id) => StartedIn(log', run, id)
    BY <1>2, StartedInAppend DEF TypeOK
  <2>6. \A i \in DOMAIN log' : Terminal(i)' => log'[i].run <= runs'
    BY <2>1, <2>2, <2>3 DEF RunsInv
  <2>7. ASSUME NEW i \in DOMAIN stack', IsExecution(i)'
        PROVE  /\ stack'[i].run <= runs'
               /\ StartedIn(log', stack'[i].run, stack'[i].id)
               /\ stack'[i].pc \in {"started", "running"} =>
                    \A k \in DOMAIN log' :
                      Terminal(k)' => log'[k].run # stack'[i].run
    <3>1. /\ stack[i].run <= runs
          /\ StartedIn(log, stack[i].run, stack[i].id)
          /\ stack[i].pc \in {"started", "running"} =>
               \A k \in DOMAIN log : Terminal(k) => log[k].run # stack[i].run
      BY <1>0, <2>7 DEF RunsInv
    <3>2. StartedIn(log', stack'[i].run, stack'[i].id)
      BY <1>0, <2>5, <2>7, <3>1
    <3>3. QED
      BY <1>0, <2>1, <2>2, <2>3, <2>7, <3>1, <3>2
  <2>8. \A i, j \in DOMAIN stack' :
          IsExecution(i)' /\ IsExecution(j)' /\ stack'[i].run = stack'[j].run
            => i = j
    BY <1>0 DEF RunsInv
  <2>9. QED
    BY <2>4, <2>6, <2>7, <2>8 DEF RunsInv
<1>3. QED
  BY <1>1, <1>2

(* A new execution has a context no other one has.                         *)
LEMMA RunsInvBegin ==
  ASSUME TypeOK, RunsInv, NEW id \in PluginIds,
         NEW capability \in Capabilities, NEW routed \in BOOLEAN,
         BeginExecution(id, capability, routed)
  PROVE  RunsInv'
<1> DEFINE frame == [fn |-> "execute", pc |-> "started", id |-> id,
                     run |-> runs + 1, capability |-> capability,
                     routed |-> routed]
           event == ExecutionEvent("started", frame)
           publish == [fn |-> "publish", event |-> event,
                       todo |-> Receivers(event)]
<1>1. /\ frame \in Frame /\ frame.fn = "execute" /\ frame.run = runs + 1
      /\ frame.id = id
  BY DEF Frame, ExecuteFrame, TypeOK
<1>2. /\ event \in Event /\ event.type = "started" /\ event.run = runs + 1
      /\ event.id = id
  BY DEF ExecutionEvent, Event, EventTypes, TypeOK
<1>3. publish \in Frame /\ publish.fn = "publish"
  BY <1>2 DEF Receivers, Frame, PublishFrame, Event, TypeOK
<1>4. /\ stack' = Append(Append(stack, frame), publish)
      /\ log' = Append(log, event)
      /\ runs' = runs + 1
  BY DEF BeginExecution, Publish
<1> HIDE DEF frame, event, publish
<1>5. PICK m \in Nat : m = Len(stack) /\ DOMAIN stack = 1 .. m
  BY LenProperties DEF TypeOK
<1>6. /\ DOMAIN stack' = 1 .. m + 2
      /\ \A i \in 1 .. m : stack'[i] = stack[i]
      /\ stack'[m + 1] = frame
      /\ stack'[m + 2] = publish
  <2> HIDE DEF Frame
  <2> DEFINE s == Append(stack, frame)
  <2>1. /\ s \in Seq(Frame) /\ Len(s) = m + 1 /\ s[m + 1] = frame
        /\ \A i \in 1 .. m : s[i] = stack[i]
    BY <1>1, <1>5, AppendProperties DEF TypeOK
  <2>2. stack' = Append(s, publish)
    BY <1>4
  <2> HIDE DEF s
  <2>3. /\ stack' \in Seq(Frame) /\ Len(stack') = m + 1 + 1
        /\ \A i \in 1 .. m + 1 : stack'[i] = s[i]
        /\ stack'[m + 1 + 1] = publish
    BY <1>3, <2>1, <2>2, AppendProperties
  <2>4. m + 1 + 1 = m + 2 /\ m + 1 \in 1 .. m + 1
        /\ \A i \in 1 .. m : i \in 1 .. m + 1
    OBVIOUS
  <2>5. QED
    BY <2>1, <2>3, <2>4, LenProperties
<1>7. \A i \in 1 .. m + 2 : IsExecution(i)' => i \in 1 .. m \/ i = m + 1
  BY <1>3, <1>6 DEF IsExecution
<1>8. \A i \in 1 .. m : IsExecution(i)' <=> IsExecution(i)
  BY <1>6 DEF IsExecution
<1>9. PICK n \in Nat : n = Len(log) /\ DOMAIN log = 1 .. n
  BY LenProperties DEF TypeOK
<1>10. /\ DOMAIN log' = 1 .. n + 1
       /\ \A i \in 1 .. n : log'[i] = log[i]
       /\ log'[n + 1] = event
  BY <1>2, <1>4, <1>9, AppendProperties, LenProperties DEF TypeOK
<1>11. \A i \in 1 .. n + 1 :
         Terminal(i)' => i \in 1 .. n /\ Terminal(i) /\ log'[i] = log[i]
  BY <1>2, <1>10 DEF Terminal
<1>12. OneOutcome'
  BY <1>2, <1>4, OneOutcomeAppend DEF RunsInv, TypeOK
<1>13. \A k \in DOMAIN log' : Terminal(k)' => log'[k].run <= runs
  BY <1>9, <1>10, <1>11 DEF RunsInv
<1>14. ASSUME NEW k \in DOMAIN log' PROVE log'[k].run \in Nat
  <2>1. CASE k \in 1 .. n
    <3>1. log[k] \in Event
      BY <1>9, <2>1, ElementOfSeq DEF TypeOK
    <3>2. log'[k] = log[k]
      BY <1>10, <2>1
    <3>3. QED
      BY <3>1, <3>2 DEF Event
  <2>2. CASE k = n + 1
    BY <1>2, <1>10, <2>2 DEF Event
  <2>3. QED
    BY <1>10, <2>1, <2>2
<1>15. ASSUME NEW i \in DOMAIN stack', IsExecution(i)'
       PROVE  /\ stack'[i].run <= runs'
              /\ StartedIn(log', stack'[i].run, stack'[i].id)
              /\ stack'[i].pc \in {"started", "running"} =>
                   \A k \in DOMAIN log' :
                     Terminal(k)' => log'[k].run # stack'[i].run
  <2>1. CASE i \in 1 .. m
    <3>1. /\ stack[i].run <= runs
          /\ StartedIn(log, stack[i].run, stack[i].id)
          /\ stack[i].pc \in {"started", "running"} =>
               \A k \in DOMAIN log : Terminal(k) => log[k].run # stack[i].run
      BY <1>5, <1>8, <1>15, <2>1 DEF RunsInv
    <3>2. stack'[i] = stack[i]
      BY <1>6, <2>1
    <3>3. stack[i] \in ExecuteFrame
      BY <1>5, <1>8, <1>15, <2>1, ElementOfSeq, FrameOf DEF IsExecution, TypeOK
    <3>4. stack'[i].run <= runs'
      BY <1>4, <3>1, <3>2, <3>3 DEF ExecuteFrame, TypeOK
    <3>5. StartedIn(log', stack'[i].run, stack'[i].id)
      BY <1>2, <1>4, <3>1, <3>2, StartedInAppend DEF TypeOK
    <3>6. QED
      BY <1>9, <1>10, <1>11, <3>1, <3>2, <3>4, <3>5
  <2>2. CASE i = m + 1
    <3>1. stack'[i].run = runs + 1 /\ stack'[i].id = id
      BY <1>1, <1>6, <2>2
    <3>2. StartedIn(log', stack'[i].run, stack'[i].id)
      BY <1>2, <1>4, <3>1, StartedInAppend DEF TypeOK
    <3>3. \A k \in DOMAIN log' : Terminal(k)' => log'[k].run # stack'[i].run
      BY <1>13, <1>14, <3>1 DEF TypeOK
    <3>4. stack'[i].run <= runs'
      BY <1>4, <3>1 DEF TypeOK
    <3>5. QED
      BY <3>2, <3>3, <3>4
  <2>3. QED
    BY <1>6, <1>7, <1>15, <2>1, <2>2
<1>16. ASSUME NEW i \in DOMAIN stack', NEW j \in DOMAIN stack',
              IsExecution(i)', IsExecution(j)', stack'[i].run = stack'[j].run
       PROVE  i = j
  <2>1. \A k \in 1 .. m : IsExecution(k) =>
          stack'[k].run = stack[k].run /\ stack[k].run <= runs
    BY <1>5, <1>6 DEF RunsInv
  <2>2. stack'[m + 1].run = runs + 1 /\ ~ (runs + 1 <= runs)
    BY <1>1, <1>6 DEF TypeOK
  <2>3. CASE i \in 1 .. m /\ j \in 1 .. m
    BY <1>5, <1>6, <1>8, <1>16, <2>3 DEF RunsInv
  <2>4. CASE i = m + 1 \/ j = m + 1
    BY <1>6, <1>7, <1>8, <1>16, <2>1, <2>2, <2>4
  <2>5. QED
    BY <1>6, <1>7, <1>16, <2>3, <2>4
<1>17. \A i \in DOMAIN log' : Terminal(i)' => log'[i].run <= runs'
  BY <1>4, <1>13, <1>14 DEF TypeOK
<1>18. QED
  BY <1>12, <1>15, <1>16, <1>17 DEF RunsInv

(* An execution in progress publishes its outcome.                         *)
LEMMA RunsInvClose ==
  ASSUME TypeOK, RunsInv, NEW type \in {"completed", "failed"},
         stack # << >>, Top.fn = "execute", Top.pc \in {"started", "running"},
         Publish(Resumed(type), ExecutionEvent(type, Top)), UNCHANGED runs
  PROVE  RunsInv'
<1> DEFINE frame == [Top EXCEPT !.pc = type]
           event == ExecutionEvent(type, Top)
           publish == [fn |-> "publish", event |-> event,
                       todo |-> Receivers(event)]
<1>1. Top \in ExecuteFrame /\ Top \in Frame
  BY StackPops, FrameOf DEF TypeOK
<1>2. /\ frame \in Frame /\ frame.fn = "execute" /\ frame.pc = type
      /\ frame.run = Top.run /\ frame.id = Top.id
  BY <1>1 DEF Frame, ExecuteFrame
<1>3. /\ event \in Event /\ event.type = type
      /\ event.run = Top.run /\ event.id = Top.id
  BY <1>1 DEF ExecutionEvent, Event, EventTypes, ExecuteFrame
<1>4. publish \in Frame /\ publish.fn = "publish"
  BY <1>3 DEF Receivers, Frame, PublishFrame, Event, TypeOK
<1>5. /\ stack' = Append(Append(Below, frame), publish)
      /\ log' = Append(log, event)
  BY DEF Publish, Resumed
<1>6. PICK m \in Nat : m = Len(stack) /\ m # 0 /\ DOMAIN stack = 1 .. m
  BY StackPops, LenProperties DEF TypeOK
<1>7. Top = stack[m] /\ m \in 1 .. m
  BY <1>6 DEF Top
<1> HIDE DEF frame, event, publish
<1>8. /\ DOMAIN stack' = 1 .. m + 1
      /\ \A i \in 1 .. m - 1 : stack'[i] = stack[i]
      /\ stack'[m] = frame
      /\ stack'[m + 1] = publish
  BY <1>2, <1>4, <1>5, <1>6, ReplaceAndPush DEF TypeOK
<1>9. \A i \in 1 .. m + 1 :
        IsExecution(i)' => i \in 1 .. m /\ (i \in 1 .. m - 1 \/ i = m)
  BY <1>4, <1>6, <1>8 DEF IsExecution
<1>10. \A i \in 1 .. m : i \in 1 .. m - 1 \/ i = m
  BY <1>6
<1>11. \A i \in 1 .. m : /\ IsExecution(i)' => IsExecution(i)
                         /\ IsExecution(i) => stack'[i].run = stack[i].run
                                              /\ stack'[i].id = stack[i].id
  BY <1>2, <1>7, <1>8, <1>10 DEF IsExecution
<1>12. PICK n \in Nat : n = Len(log) /\ DOMAIN log = 1 .. n
  BY LenProperties DEF TypeOK
<1>13. /\ DOMAIN log' = 1 .. n + 1
       /\ \A k \in 1 .. n : log'[k] = log[k]
       /\ log'[n + 1] = event
  BY <1>3, <1>5, <1>12, AppendProperties, LenProperties DEF TypeOK
<1>14. \A k \in 1 .. n + 1 : k \in 1 .. n \/ k = n + 1
  OBVIOUS
<1>15. /\ Top.run <= runs
       /\ StartedIn(log, Top.run, Top.id)
       /\ \A k \in DOMAIN log : Terminal(k) => log[k].run # Top.run
  BY <1>6, <1>7 DEF RunsInv, IsExecution
<1>16. OneOutcome'
  BY <1>3, <1>5, <1>15, OneOutcomeAppend DEF RunsInv, TypeOK
<1>17. \A k \in DOMAIN log' : Terminal(k)' => log'[k].run <= runs'
  BY <1>3, <1>12, <1>13, <1>14, <1>15 DEF RunsInv, Terminal
<1>18. ASSUME NEW i \in DOMAIN stack', IsExecution(i)'
       PROVE  /\ stack'[i].run <= runs'
              /\ StartedIn(log', stack'[i].run, stack'[i].id)
              /\ stack'[i].pc \in {"started", "running"} =>
                   \A k \in DOMAIN log' :
                     Terminal(k)' => log'[k].run # stack'[i].run
  <2>1. i \in 1 .. m /\ IsExecution(i)
    BY <1>8, <1>9, <1>11, <1>18
  <2>2. stack'[i].run = stack[i].run /\ stack'[i].id = stack[i].id
    BY <1>11, <2>1
  <2>3. /\ stack[i].run <= runs
        /\ StartedIn(log, stack[i].run, stack[i].id)
        /\ stack[i].pc \in {"started", "running"} =>
             \A k \in DOMAIN log : Terminal(k) => log[k].run # stack[i].run
    BY <1>6, <2>1 DEF RunsInv
  <2>4. StartedIn(log', stack[i].run, stack[i].id)
    BY <1>3, <1>5, <2>3, StartedInAppend DEF TypeOK
  <2>5. ASSUME stack'[i].pc \in {"started", "running"},
               NEW k \in DOMAIN log', Terminal(k)'
        PROVE  log'[k].run # stack'[i].run
    <3>1. i # m
      BY <1>2, <1>8, <2>5
    <3>2. stack'[i] = stack[i] /\ stack[i].run # Top.run
      <4>1. stack'[i] = stack[i]
        BY <1>8, <1>10, <2>1, <3>1
      <4>2. IsExecution(m)
        BY <1>7 DEF IsExecution
      <4>3. QED
        BY <1>6, <1>7, <2>1, <3>1, <4>1, <4>2 DEF RunsInv
    <3>3. CASE k \in 1 .. n
      BY <1>12, <1>13, <2>2, <2>3, <2>5, <3>2, <3>3 DEF Terminal
    <3>4. CASE k = n + 1
      BY <1>3, <1>13, <2>2, <3>2, <3>4
    <3>5. QED
      BY <1>13, <1>14, <3>3, <3>4
  <2>6. QED
    BY <2>2, <2>3, <2>4, <2>5
<1>19. ASSUME NEW i \in DOMAIN stack', NEW j \in DOMAIN stack',
              IsExecution(i)', IsExecution(j)', stack'[i].run = stack'[j].run
       PROVE  i = j
  <2>1. i \in 1 .. m /\ IsExecution(i) /\ j \in 1 .. m /\ IsExecution(j)
    BY <1>8, <1>9, <1>11, <1>19
  <2>2. stack[i].run = stack[j].run
    BY <1>11, <1>19, <2>1
  <2>3. QED
    BY <1>6, <2>1, <2>2 DEF RunsInv
<1>20. QED
  BY <1>16, <1>17, <1>18, <1>19 DEF RunsInv

(* A function that goes on is still the same call.                         *)
LEMMA KeptResumed ==
  ASSUME TypeOK, stack # << >>, NEW pc,
         \/ Top.fn = "register" /\ pc \in {"rollback", "announce"}
         \/ Top.fn = "unregister" /\ pc = "announce"
         \/ Top.fn = "execute" /\ Top.pc = "started" /\ pc = "running"
  PROVE  Resumed(pc) \in Seq(Frame) /\ Kept(Resumed(pc))
<1> DEFINE f == [Top EXCEPT !.pc = pc]
<1>1. Top \in Frame
  BY StackPops DEF TypeOK
<1>2. /\ f \in Frame /\ f.fn = Top.fn
      /\ f.fn = "execute" =>
           /\ f.run = Top.run /\ f.id = Top.id
           /\ f.pc \in {"started", "running"}
                => Top.pc \in {"started", "running"}
  <2>1. CASE Top.fn = "register"
    BY <1>1, <2>1, FrameOf DEF RegisterFrame, Frame
  <2>2. CASE Top.fn = "unregister"
    BY <1>1, <2>2, FrameOf DEF UnregisterFrame, Frame
  <2>3. CASE Top.fn = "execute"
    BY <1>1, <2>3, FrameOf DEF ExecuteFrame, Frame
  <2>4. QED
    BY <2>1, <2>2, <2>3
<1>3. Resumed(pc) = Append(Below, f)
  BY DEF Resumed
<1> HIDE DEF f
<1>4. QED
  BY <1>2, <1>3, KeptPop

(* Calling user code above frames that keep the executions.                *)
LEMMA RunsInvCallUser ==
  ASSUME TypeOK, RunsInv, TypeOK', UNCHANGED <<runs, log>>,
         NEW frames \in Seq(Frame), Kept(frames),
         NEW kind \in CallbackKinds, NEW who \in Plugins \cup Handlers,
         CallUser(frames, kind, who)
  PROVE  RunsInv'
<1>1. Callback(kind, who) \in Frame /\ Callback(kind, who).fn # "execute"
  BY DEF Callback, Frame, CallbackFrame
<1>2. Kept(stack')
  BY <1>1, KeptPush DEF CallUser
<1>3. QED
  BY <1>2, RunsInvNeutral

(* Publishing an event of a plugin above such frames.                      *)
LEMMA RunsInvPublish ==
  ASSUME TypeOK, RunsInv, TypeOK', UNCHANGED runs,
         NEW frames \in Seq(Frame), Kept(frames), NEW event \in Event,
         event.type \notin {"completed", "failed"}, Publish(frames, event)
  PROVE  RunsInv'
<1> DEFINE publish == [fn |-> "publish", event |-> event,
                       todo |-> Receivers(event)]
<1>1. publish \in Frame /\ publish.fn # "execute"
  BY DEF Receivers, Frame, PublishFrame, Event, TypeOK
<1>2. stack' = Append(frames, publish) /\ log' = Append(log, event)
  BY DEF Publish
<1> HIDE DEF publish
<1>3. Kept(stack')
  BY <1>1, <1>2, KeptPush
<1>4. QED
  BY <1>2, <1>3, RunsInvNeutral

(* The steps of the kernel functions.                                      *)
LEMMA RunsInvKernel ==
  ASSUME TypeOK, RunsInv, TypeOK', Kernel
  PROVE  RunsInv'
<1> USE DEF OnlyControl, On, At, Returned
<1>1. stack # << >> => Top \in Frame /\ Below \in Seq(Frame) /\ Kept(Below)
  BY StackPops, KeptPop DEF TypeOK
<1>2. CASE DeliverNext
  <2> DEFINE rest == [Top EXCEPT !.todo = Tail(@)]
  <2>1. Top \in PublishFrame
    BY <1>1, <1>2, FrameOf DEF DeliverNext
  <2>2. rest \in Frame /\ rest.fn = Top.fn /\ rest.fn # "execute"
    <3>1. Top.todo \in Seq(Handlers) /\ Top.todo # << >>
      BY <1>2, <2>1 DEF DeliverNext, PublishFrame
    <3>2. Tail(Top.todo) \in Seq(Handlers)
      BY <3>1, HeadTailProperties
    <3>3. QED
      BY <2>1, <3>2 DEF PublishFrame, Frame
  <2>3. Head(Top.todo) \in Handlers
    BY <1>2, <2>1 DEF DeliverNext, PublishFrame
  <2>4. CallUser(Append(Below, rest), "handle", Head(Top.todo))
    BY <1>2 DEF DeliverNext
  <2>5. stack # << >> /\ UNCHANGED <<runs, log>>
    BY <1>2 DEF DeliverNext
  <2> HIDE DEF rest
  <2>6. Append(Below, rest) \in Seq(Frame) /\ Kept(Append(Below, rest))
    BY <2>2, <2>5, KeptPop
  <2>7. QED
    BY <2>3, <2>4, <2>5, <2>6, RunsInvCallUser DEF CallbackKinds
<1>3. CASE RegisterInserts
  <2>1. Top \in RegisterFrame
    BY <1>1, <1>3, FrameOf DEF RegisterInserts
  <2>2. Resumed("announce") \in Seq(Frame) /\ Kept(Resumed("announce"))
    BY <1>3, KeptResumed DEF RegisterInserts
  <2> DEFINE event == PluginEvent("registered", Id[Top.plugin])
  <2>3. event \in Event /\ event.type = "registered"
    BY <2>1, IdAssumption DEF PluginEvent, Event, EventTypes, RegisterFrame
  <2>4. Publish(Resumed("announce"), event) /\ UNCHANGED runs
    BY <1>3 DEF RegisterInserts
  <2> HIDE DEF event
  <2>5. QED
    BY <2>2, <2>3, <2>4, RunsInvPublish
<1>4. CASE RegisterRollsBack
  <2>1. Top \in RegisterFrame
    BY <1>1, <1>4, FrameOf DEF RegisterRollsBack
  <2>2. Resumed("rollback") \in Seq(Frame) /\ Kept(Resumed("rollback"))
    BY <1>4, KeptResumed DEF RegisterRollsBack
  <2>3. QED
    BY <1>4, <2>1, <2>2, RunsInvCallUser
       DEF RegisterRollsBack, RegisterFrame, CallbackKinds
<1>5. CASE LoadNext
  <2> DEFINE rest == [Top EXCEPT !.todo = Tail(@)]
             plugin == Head(Top.todo)
  <2>1. Top \in LoadFrame
    BY <1>1, <1>5, FrameOf DEF LoadNext
  <2>2. rest \in Frame /\ rest.fn = Top.fn /\ rest.fn # "execute"
    BY <1>5, <2>1 DEF LoadNext, LoadFrame, Frame
  <2>3. plugin \in Plugins
    BY <1>5, <2>1 DEF LoadNext, LoadFrame
  <2>4. CallUser(Append(Append(Below, rest), Registering(plugin)),
                 "initialize", plugin)
    BY <1>5 DEF LoadNext
  <2>5. stack # << >> /\ UNCHANGED <<runs, log>>
    BY <1>5 DEF LoadNext
  <2> HIDE DEF rest, plugin
  <2>6. Append(Below, rest) \in Seq(Frame) /\ Kept(Append(Below, rest))
    BY <2>2, <2>5, KeptPop
  <2>7. Registering(plugin) \in Frame /\ Registering(plugin).fn # "execute"
    BY <2>3, RegisteringType DEF Registering
  <2> DEFINE frames == Append(Append(Below, rest), Registering(plugin))
  <2>8. frames \in Seq(Frame) /\ Kept(frames)
    BY <2>6, <2>7, KeptPush
  <2> HIDE DEF frames
  <2>9. CallUser(frames, "initialize", plugin)
    BY <2>4 DEF frames
  <2>10. QED
    BY <2>3, <2>5, <2>8, <2>9, RunsInvCallUser DEF CallbackKinds
<1>6. CASE UnregisterRemoves
  <2>1. Top \in UnregisterFrame
    BY <1>1, <1>6, FrameOf DEF UnregisterRemoves
  <2>2. Resumed("announce") \in Seq(Frame) /\ Kept(Resumed("announce"))
    BY <1>6, KeptResumed DEF UnregisterRemoves
  <2> DEFINE event == PluginEvent("unregistered", Top.id)
  <2>3. event \in Event /\ event.type = "unregistered"
    BY <2>1 DEF PluginEvent, Event, EventTypes, UnregisterFrame
  <2>4. Publish(Resumed("announce"), event) /\ UNCHANGED runs
    BY <1>6 DEF UnregisterRemoves
  <2> HIDE DEF event
  <2>5. QED
    BY <2>2, <2>3, <2>4, RunsInvPublish
<1>7. CASE ShutdownNext
  <2> DEFINE rest == [Top EXCEPT !.todo = Tail(@)]
             id   == Head(Top.todo)
  <2>1. Top \in ShutdownFrame
    BY <1>1, <1>7, FrameOf DEF ShutdownNext
  <2>2. rest \in Frame /\ rest.fn = Top.fn /\ rest.fn # "execute"
    <3>1. Top.todo \in Seq(PluginIds) /\ Top.todo # << >>
      BY <1>7, <2>1 DEF ShutdownNext, ShutdownFrame
    <3>2. Tail(Top.todo) \in Seq(PluginIds)
      BY <3>1, HeadTailProperties
    <3>3. QED
      BY <2>1, <3>2 DEF ShutdownFrame, Frame
  <2>3. id \in PluginIds
    BY <1>7, <2>1 DEF ShutdownNext, ShutdownFrame
  <2>4. \/ /\ HasId(id)
           /\ CallUser(Append(Append(Below, rest), Unregistering(id)),
                       "shutdown", Lookup(id))
        \/ stack' = Append(Below, rest)
    BY <1>7 DEF ShutdownNext
  <2>5. stack # << >> /\ UNCHANGED <<runs, log>>
    BY <1>7 DEF ShutdownNext
  <2> HIDE DEF rest, id
  <2>6. Append(Below, rest) \in Seq(Frame) /\ Kept(Append(Below, rest))
    BY <2>2, <2>5, KeptPop
  <2>7. CASE stack' = Append(Below, rest)
    BY <2>5, <2>6, <2>7, RunsInvNeutral
  <2>8. ASSUME HasId(id),
               CallUser(Append(Append(Below, rest), Unregistering(id)),
                        "shutdown", Lookup(id))
        PROVE  RunsInv'
    <3>1. Unregistering(id) \in Frame /\ Unregistering(id).fn # "execute"
      BY <2>3, <2>8, UnregisteringType DEF Unregistering
    <3>2. Lookup(id) \in Plugins
      BY <2>8, LookupType DEF TypeOK
    <3> DEFINE frames == Append(Append(Below, rest), Unregistering(id))
    <3>3. frames \in Seq(Frame) /\ Kept(frames)
      BY <2>6, <3>1, KeptPush
    <3> HIDE DEF frames
    <3>4. CallUser(frames, "shutdown", Lookup(id))
      BY <2>8 DEF frames
    <3>5. QED
      BY <2>5, <3>2, <3>3, <3>4, RunsInvCallUser DEF CallbackKinds
  <2>9. QED
    BY <2>4, <2>7, <2>8
<1>8. CASE ExecuteCallsPlugin
  <2>1. Resumed("running") \in Seq(Frame) /\ Kept(Resumed("running"))
    BY <1>8, KeptResumed DEF ExecuteCallsPlugin
  <2>2. Lookup(Top.id) \in Plugins
    BY <1>8, LookupType DEF ExecuteCallsPlugin, TypeOK
  <2>3. CallUser(Resumed("running"), "execute", Lookup(Top.id))
        /\ UNCHANGED <<runs, log>>
    BY <1>8 DEF ExecuteCallsPlugin
  <2>4. QED
    BY <2>1, <2>2, <2>3, RunsInvCallUser DEF CallbackKinds
<1>9. CASE ExecuteFails
  BY <1>9, RunsInvClose DEF ExecuteFails
<1>10. CASE ExecuteCompletes
  BY <1>10, RunsInvClose DEF ExecuteCompletes
<1>11. CASE Returns \/ Reraises \/ ExecuteMisreads \/ Unwind
  <2>1. stack # << >> /\ stack' = Below /\ UNCHANGED <<runs, log>>
    BY <1>11 DEF Returns, Reraises, ExecuteMisreads, Unwind, Leave
  <2>2. QED
    BY <1>1, <2>1, RunsInvNeutral
<1>12. QED
  BY <1>2, <1>3, <1>4, <1>5, <1>6, <1>7, <1>8, <1>9, <1>10, <1>11 DEF Kernel, Transitions

LEMMA RunsInvStep ==
  ASSUME TypeOK, RunsInv, [Next]_vars
  PROVE  RunsInv'
<1> USE DEF OnlyControl, On
<1>1. TypeOK'
  BY TypeOKStep
<1>2. ASSUME UNCHANGED <<stack, runs, log>>
      PROVE  RunsInv'
  BY <1>1, <1>2, KeptStack, RunsInvNeutral
<1>3. ASSUME NEW plugin \in Plugins, CallRegister(plugin)
      PROVE  RunsInv'
  <2>1. Registering(plugin) \in Frame /\ Registering(plugin).fn # "execute"
    BY RegisteringType DEF Registering
  <2> DEFINE frames == Append(stack, Registering(plugin))
  <2>2. frames \in Seq(Frame) /\ Kept(frames)
    BY <2>1, KeptStack, KeptPush DEF TypeOK
  <2>3. CallUser(frames, "initialize", plugin) /\ UNCHANGED <<runs, log>>
    BY <1>3 DEF CallRegister
  <2> HIDE DEF frames
  <2>4. QED
    BY <1>1, <2>2, <2>3, RunsInvCallUser DEF CallbackKinds
<1>4. ASSUME NEW plugins \in Loads, CallLoad(plugins)
      PROVE  RunsInv'
  <2> DEFINE f == [fn |-> "load", todo |-> plugins]
  <2>1. f \in Frame /\ f.fn # "execute"
    BY LoadsAssumption DEF Frame, LoadFrame
  <2>2. (stack' = Append(stack, f) \/ UNCHANGED stack) /\ UNCHANGED <<runs, log>>
    BY <1>4 DEF CallLoad
  <2> HIDE DEF f
  <2>3. Kept(Append(stack, f))
    BY <2>1, KeptStack, KeptPush DEF TypeOK
  <2>4. QED
    BY <1>1, <1>2, <2>2, <2>3, RunsInvNeutral
<1>5. ASSUME NEW id \in PluginIds, CallUnregister(id)
      PROVE  RunsInv'
  <2>1. CASE HasId(id)
    <3>1. Unregistering(id) \in Frame /\ Unregistering(id).fn # "execute"
      BY <2>1, UnregisteringType DEF Unregistering
    <3>2. Lookup(id) \in Plugins
      BY <2>1, LookupType DEF TypeOK
    <3> DEFINE frames == Append(stack, Unregistering(id))
    <3>3. frames \in Seq(Frame) /\ Kept(frames)
      BY <3>1, KeptStack, KeptPush DEF TypeOK
    <3>4. CallUser(frames, "shutdown", Lookup(id)) /\ UNCHANGED <<runs, log>>
      BY <1>5, <2>1 DEF CallUnregister
    <3> HIDE DEF frames
    <3>5. QED
      BY <1>1, <3>2, <3>3, <3>4, RunsInvCallUser DEF CallbackKinds
  <2>2. CASE ~ HasId(id)
    BY <1>2, <1>5, <2>2 DEF CallUnregister
  <2>3. QED
    BY <2>1, <2>2
<1>6. CASE CallShutdown
  <2> DEFINE f == [fn |-> "shutdown", todo |-> RegisteredIds,
                   managed |-> Registered]
  <2>1. f \in Frame /\ f.fn # "execute"
    BY RegisteredIdsType DEF Frame, ShutdownFrame, TypeOK
  <2>2. stack' = Append(stack, f) /\ UNCHANGED <<runs, log>>
    BY <1>6 DEF CallShutdown
  <2> HIDE DEF f
  <2>3. Kept(stack')
    BY <2>1, <2>2, KeptStack, KeptPush DEF TypeOK
  <2>4. QED
    BY <1>1, <2>2, <2>3, RunsInvNeutral
<1>7. ASSUME NEW capability \in Capabilities, CallExecuteCapability(capability)
      PROVE  RunsInv'
  <2>1. \A i \in DOMAIN registry : Id[registry[i]] \in PluginIds
    BY IdAssumption, LenProperties, ElementOfSeq DEF TypeOK
  <2>2. QED
    BY <1>2, <1>7, <2>1, RunsInvBegin DEF CallExecuteCapability, FindByCapability
<1>8. ASSUME NEW id \in PluginIds, NEW capability \in Capabilities,
             CallExecute(id, capability)
      PROVE  RunsInv'
  BY <1>8, RunsInvBegin DEF CallExecute
<1>9. CASE UserCalls
  BY <1>2, <1>3, <1>4, <1>5, <1>6, <1>7, <1>8, <1>9
     DEF UserCalls, DirectCalls, CallSubscribe, CallUnsubscribe, CallClear
<1>10. CASE UserPropagates \/ UserReturns \/ UserRaises
  <2>1. stack # << >> /\ stack' = Below /\ UNCHANGED <<runs, log>>
    BY <1>10 DEF UserPropagates, UserReturns, UserRaises, Leave
  <2>2. QED
    BY <1>1, <2>1, KeptPop, RunsInvNeutral
<1>11. CASE UserEnds
  BY <1>2, <1>10, <1>11 DEF UserEnds, UserResumes
<1>12. CASE Kernel
  BY <1>1, <1>12, RunsInvKernel
<1>13. CASE UNCHANGED vars
  BY <1>2, <1>13 DEF vars, kernelVars
<1>14. QED
  BY <1>9, <1>11, <1>12, <1>13 DEF Next

(* However handlers and plugins nest and fail, an execution never gets a   *)
(* second outcome, nor an outcome before its STARTED event.                *)
THEOREM OneOutcomePerExecution == Spec => []OneOutcome
<1>1. Init => RunsInv
  BY DEF Init, RunsInv, OneOutcome
<1>2. TypeOK /\ RunsInv /\ [Next]_vars => RunsInv'
  BY RunsInvStep
<1>3. RunsInv => OneOutcome
  BY DEF RunsInv
<1>4. QED
  BY <1>1, <1>2, <1>3, TypeCorrectness, PTL DEF Spec
=============================================================================
