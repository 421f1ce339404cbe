----------------------------- MODULE CallProofs -----------------------------
(***************************************************************************)
(* Proofs about the runtime kernel that follow its calls: which function   *)
(* stands on which, who executes a routed request, what shutdown leaves    *)
(* behind, how the life of plugins follows the registry, how executions    *)
(* nest; of the kernel with a memory and a router that uses it, that it is *)
(* still the kernel, what the memory knows, and how the router uses that;  *)
(* and of the engines on the kernel, what they try and what they count.    *)
(***************************************************************************)
EXTENDS LearningKernel, Orchestration, KernelProofs, FiniteSetTheorems

-----------------------------------------------------------------------------
(* What a step does to the call stack, place by place.                     *)

Height == Len(stack)

(* The first kept frames stay, and the new stack has height frames.        *)
Reshapes(kept, height) ==
  /\ Len(stack') = height
  /\ \A i \in 1 .. kept : stack'[i] = stack[i]

Pushes1(f) ==
  /\ Reshapes(Height, Height + 1)
  /\ stack'[Height + 1] = f
Pushes2(f, g) ==
  /\ Reshapes(Height, Height + 2)
  /\ stack'[Height + 1] = f
  /\ stack'[Height + 2] = g
Pops == Height # 0 /\ Reshapes(Height - 1, Height - 1)
(* The top frame goes on as f, with nothing, g, or g and h above it.       *)
Resumes(f) ==
  /\ Height # 0 /\ Reshapes(Height - 1, Height)
  /\ stack'[Height] = f
ResumesAndCalls(f, g) ==
  /\ Height # 0 /\ Reshapes(Height - 1, Height + 1)
  /\ stack'[Height] = f
  /\ stack'[Height + 1] = g
ResumesAndCalls2(f, g, h) ==
  /\ Height # 0 /\ Reshapes(Height - 1, Height + 2)
  /\ stack'[Height] = f
  /\ stack'[Height + 1] = g
  /\ stack'[Height + 2] = h

LEMMA StackIndices ==
  ASSUME TypeOK
  PROVE  /\ Height \in Nat
         /\ DOMAIN stack = 1 .. Height
         /\ \A i \in 1 .. Height : stack[i] \in Frame
         /\ stack = << >> <=> Height = 0
         /\ Top = stack[Height]
<1> HIDE DEF Frame
<1>1. stack \in Seq(Frame)
  BY DEF TypeOK
<1>2. QED
  BY <1>1, LenProperties, ElementOfSeq, EmptySeq DEF Height, Top

LEMMA Appended ==
  ASSUME NEW s \in Seq(Frame), NEW f \in Frame
  PROVE  /\ Append(s, f) \in Seq(Frame)
         /\ Len(s) \in Nat
         /\ Len(Append(s, f)) = Len(s) + 1
         /\ Append(s, f)[Len(s) + 1] = f
         /\ \A i \in 1 .. Len(s) : Append(s, f)[i] = s[i]
<1> HIDE DEF Frame
<1>1. QED
  BY AppendProperties, LenProperties

LEMMA PushShapes ==
  ASSUME TypeOK, NEW f \in Frame
  PROVE  /\ stack' = Append(stack, f) => Pushes1(f)
         /\ \A g \in Frame :
              stack' = Append(Append(stack, f), g) => Pushes2(f, g)
<1> HIDE DEF Frame
<1>1. stack \in Seq(Frame)
  BY DEF TypeOK
<1>2. ASSUME NEW g \in Frame
      PROVE  LET s == Append(Append(stack, f), g)
             IN  /\ Len(s) = Height + 2
                 /\ \A i \in 1 .. Height : s[i] = stack[i]
                 /\ s[Height + 1] = f
                 /\ s[Height + 2] = g
  <2> DEFINE r == Append(stack, f)
  <2>1. /\ r \in Seq(Frame) /\ Height \in Nat /\ Len(r) = Height + 1
        /\ r[Height + 1] = f
        /\ \A i \in 1 .. Height : r[i] = stack[i]
    BY <1>1, Appended DEF Height
  <2> HIDE DEF r
  <2>2. /\ Len(Append(r, g)) = (Height + 1) + 1
        /\ Append(r, g)[(Height + 1) + 1] = g
        /\ \A i \in 1 .. Height + 1 : Append(r, g)[i] = r[i]
    BY <2>1, Appended
  <2>3. (Height + 1) + 1 = Height + 2 /\ Height + 1 \in 1 .. Height + 1
        /\ \A i \in 1 .. Height : i \in 1 .. Height + 1
    BY <2>1
  <2>4. QED
    BY <2>1, <2>2, <2>3 DEF r
<1>3. QED
  BY <1>1, <1>2, Appended DEF Pushes1, Pushes2, Reshapes, Height

LEMMA PopShapes ==
  ASSUME TypeOK, stack # << >>
  PROVE  /\ stack' = Below => Pops
         /\ \A f \in Frame :
              /\ stack' = Append(Below, f) => Resumes(f)
              /\ \A g \in Frame :
                   /\ stack' = Append(Append(Below, f), g)
                        => ResumesAndCalls(f, g)
                   /\ \A h \in Frame :
                        stack' = Append(Append(Append(Below, f), g), h)
                          => ResumesAndCalls2(f, g, h)
<1> HIDE DEF Frame
<1>1. /\ Height \in Nat /\ Height # 0
      /\ Below \in Seq(Frame) /\ Len(Below) = Height - 1
      /\ \A i \in 1 .. Height - 1 : Below[i] = stack[i]
  BY StackPops DEF TypeOK, Height
<1>2. ASSUME NEW f \in Frame
      PROVE  /\ Append(Below, f) \in Seq(Frame)
             /\ Len(Append(Below, f)) = Height
             /\ Append(Below, f)[Height] = f
             /\ \A i \in 1 .. Height - 1 : Append(Below, f)[i] = stack[i]
  <2>1. (Height - 1) + 1 = Height
    BY <1>1
  <2>2. QED
    BY <1>1, <2>1, Appended
<1>3. ASSUME NEW f \in Frame, NEW g \in Frame,
             NEW s, s = Append(Append(Below, f), g)
      PROVE  /\ s \in Seq(Frame)
             /\ Len(s) = Height + 1
             /\ s[Height] = f
             /\ s[Height + 1] = g
             /\ \A i \in 1 .. Height - 1 : s[i] = stack[i]
  <2>1. PICK r \in Seq(Frame) : r = Append(Below, f)
    BY <1>2
  <2>2. /\ Len(r) = Height /\ r[Height] = f
        /\ \A i \in 1 .. Height - 1 : r[i] = stack[i]
    BY <1>2, <2>1
  <2>3. s = Append(r, g)
    BY <1>3, <2>1
  <2>4. /\ s \in Seq(Frame)
        /\ Len(s) = Height + 1
        /\ s[Height + 1] = g
        /\ \A i \in 1 .. Height : s[i] = r[i]
    BY <2>2, <2>3, Appended
  <2>5. Height \in 1 .. Height /\ \A i \in 1 .. Height - 1 : i \in 1 .. Height
    BY <1>1
  <2>6. QED
    BY <2>2, <2>4, <2>5
<1>4. ASSUME NEW f \in Frame, NEW g \in Frame, NEW h \in Frame,
             NEW s, s = Append(Append(Append(Below, f), g), h)
      PROVE  /\ Len(s) = Height + 2
             /\ s[Height] = f
             /\ s[Height + 1] = g
             /\ s[Height + 2] = h
             /\ \A i \in 1 .. Height - 1 : s[i] = stack[i]
  <2> DEFINE q == Append(Below, f)
             r == Append(q, g)
  <2>1. s = Append(r, h)
    BY <1>4
  <2>2. /\ q \in Seq(Frame) /\ Len(q) = Height /\ q[Height] = f
        /\ \A i \in 1 .. Height - 1 : q[i] = stack[i]
    BY <1>2
  <2> HIDE DEF q
  <2>3. /\ r \in Seq(Frame) /\ Len(r) = Height + 1
        /\ r[Height] = f /\ r[Height + 1] = g
        /\ \A i \in 1 .. Height - 1 : r[i] = stack[i]
    <3>1. /\ r \in Seq(Frame) /\ Len(r) = Height + 1 /\ r[Height + 1] = g
          /\ \A i \in 1 .. Height : r[i] = q[i]
      BY <2>2, Appended
    <3>2. Height \in 1 .. Height /\ \A i \in 1 .. Height - 1 : i \in 1 .. Height
      BY <1>1
    <3> QED
      BY <2>2, <3>1, <3>2
  <2> HIDE DEF r
  <2>4. /\ Len(s) = (Height + 1) + 1
        /\ s[(Height + 1) + 1] = h
        /\ \A i \in 1 .. Height + 1 : s[i] = r[i]
    BY <2>1, <2>3, Appended
  <2>5. /\ Height \in 1 .. Height + 1 /\ Height + 1 \in 1 .. Height + 1
        /\ (Height + 1) + 1 = Height + 2
        /\ \A i \in 1 .. Height - 1 : i \in 1 .. Height + 1
    BY <1>1
  <2>6. QED
    BY <2>3, <2>4, <2>5
<1>5. stack' = Below => Pops
  BY <1>1 DEF Pops, Reshapes
<1>6. ASSUME NEW f \in Frame, stack' = Append(Below, f)
      PROVE  Resumes(f)
  BY <1>1, <1>2, <1>6 DEF Resumes, Reshapes
<1>7. ASSUME NEW f \in Frame, NEW g \in Frame,
             stack' = Append(Append(Below, f), g)
      PROVE  ResumesAndCalls(f, g)
  BY <1>1, <1>3, <1>7 DEF ResumesAndCalls, Reshapes
<1>8. ASSUME NEW f \in Frame, NEW g \in Frame, NEW h \in Frame,
             stack' = Append(Append(Append(Below, f), g), h)
      PROVE  ResumesAndCalls2(f, g, h)
  BY <1>1, <1>4, <1>8 DEF ResumesAndCalls2, Reshapes
<1>9. QED
  BY <1>5, <1>6, <1>7, <1>8

Delivery(event) ==
  [fn |-> "publish", event |-> event, todo |-> Receivers(event)]
Loading(plugins) == [fn |-> "load", todo |-> plugins]
ShuttingDown ==
  [fn |-> "shutdown", todo |-> RegisteredIds, managed |-> Registered]
Executing(id, capability, routed) ==
  [fn |-> "execute", pc |-> "started", id |-> id, run |-> runs + 1,
   capability |-> capability, routed |-> routed]
Rest == [Top EXCEPT !.todo = Tail(@)]
TopAt(pc) == [Top EXCEPT !.pc = pc]

LEMMA DeliveryType ==
  ASSUME TypeOK, NEW event \in Event
  PROVE  Delivery(event) \in Frame
BY DEF Delivery, Receivers, Frame, PublishFrame, Event, TypeOK

LEMMA CallbackType ==
  ASSUME NEW kind \in CallbackKinds, NEW who \in Plugins \cup Handlers
  PROVE  Callback(kind, who) \in Frame
BY DEF Callback, Frame, CallbackFrame

(* The calls user code makes push one or two frames.                       *)
LEMMA CallShapes ==
  ASSUME TypeOK
  PROVE  /\ \A p \in Plugins : CallRegister(p) =>
              Pushes2(Registering(p), Callback("initialize", p))
         /\ \A plugins \in Loads : CallLoad(plugins) =>
              \/ control' = "return" /\ Pushes1(Loading(plugins))
              \/ control' = "raise" /\ UNCHANGED stack
         /\ \A id \in PluginIds : CallUnregister(id) =>
              \/ UNCHANGED <<stack, control>>
              \/ /\ HasId(id) /\ control' = "user"
                 /\ Pushes2(Unregistering(id), Callback("shutdown", Lookup(id)))
         /\ CallShutdown => Pushes1(ShuttingDown)
         /\ \A id \in PluginIds, capability \in Capabilities,
               routed \in BOOLEAN : BeginExecution(id, capability, routed) =>
              LET frame == Executing(id, capability, routed)
              IN  Pushes2(frame, Delivery(ExecutionEvent("started", frame)))
<1>1. ASSUME NEW p \in Plugins, CallRegister(p)
      PROVE  Pushes2(Registering(p), Callback("initialize", p))
  <2>1. Registering(p) \in Frame /\ Callback("initialize", p) \in Frame
    BY RegisteringType, CallbackType DEF CallbackKinds
  <2>2. QED
    BY <1>1, <2>1, PushShapes DEF CallRegister, CallUser
<1>2. ASSUME NEW plugins \in Loads, CallLoad(plugins)
      PROVE  \/ control' = "return" /\ Pushes1(Loading(plugins))
             \/ control' = "raise" /\ UNCHANGED stack
  <2>1. Loading(plugins) \in Frame
    BY LoadsAssumption DEF Loading, Frame, LoadFrame
  <2>2. QED
    BY <1>2, <2>1, PushShapes DEF CallLoad, Loading
<1>3. ASSUME NEW id \in PluginIds, CallUnregister(id)
      PROVE  \/ UNCHANGED <<stack, control>>
             \/ /\ HasId(id) /\ control' = "user"
                /\ Pushes2(Unregistering(id), Callback("shutdown", Lookup(id)))
  <2>1. CASE HasId(id)
    <3>1. /\ Unregistering(id) \in Frame
          /\ Callback("shutdown", Lookup(id)) \in Frame
      BY <2>1, UnregisteringType, LookupType, CallbackType
         DEF CallbackKinds, TypeOK
    <3>2. QED
      BY <1>3, <2>1, <3>1, PushShapes DEF CallUnregister, CallUser
  <2>2. QED
    BY <1>3, <2>1 DEF CallUnregister
<1>4. ASSUME CallShutdown
      PROVE  Pushes1(ShuttingDown)
  <2>1. ShuttingDown \in Frame
    BY RegisteredIdsType DEF ShuttingDown, Frame, ShutdownFrame, TypeOK
  <2>2. QED
    BY <1>4, <2>1, PushShapes DEF CallShutdown, ShuttingDown
<1>5. ASSUME NEW id \in PluginIds, NEW capability \in Capabilities,
             NEW routed \in BOOLEAN, BeginExecution(id, capability, routed)
      PROVE  LET frame == Executing(id, capability, routed)
             IN  Pushes2(frame, Delivery(ExecutionEvent("started", frame)))
  <2> DEFINE frame == Executing(id, capability, routed)
             event == ExecutionEvent("started", frame)
  <2>1. frame \in Frame
    BY DEF Executing, Frame, ExecuteFrame, TypeOK
  <2>2. event \in Event
    BY DEF ExecutionEvent, Executing, Event, EventTypes, TypeOK
  <2>3. stack' = Append(Append(stack, frame), Delivery(event))
    BY <1>5 DEF BeginExecution, Publish, Delivery, Executing
  <2> HIDE DEF frame, event
  <2>4. Pushes2(frame, Delivery(event))
    BY <2>1, <2>2, <2>3, DeliveryType, PushShapes
  <2>5. QED
    BY <2>4 DEF frame, event
<1>6. QED
  BY <1>1, <1>2, <1>3, <1>4, <1>5

(* User code and kernel functions that end pop their frame.                *)
LEMMA EndShapes ==
  ASSUME TypeOK, \/ UserPropagates \/ UserReturns \/ UserRaises
                 \/ Returns \/ Reraises \/ ExecuteMisreads \/ Unwind
  PROVE  Pops
<1>1. stack # << >> /\ stack' = Below
  BY DEF UserPropagates, UserReturns, UserRaises, Returns, Reraises,
         ExecuteMisreads, Unwind, Returned, At, On, Leave
<1>2. QED
  BY <1>1, PopShapes

(* Kernel functions that go on replace their frame, and push what they     *)
(* call.                                                                   *)
LEMMA KernelShapes ==
  ASSUME TypeOK
  PROVE  /\ DeliverNext =>
              /\ Top \in PublishFrame
              /\ ResumesAndCalls(Rest, Callback("handle", Head(Top.todo)))
         /\ RegisterInserts =>
              /\ Top \in RegisterFrame
              /\ ResumesAndCalls(TopAt("announce"),
                   Delivery(PluginEvent("registered", Id[Top.plugin])))
         /\ RegisterRollsBack =>
              /\ Top \in RegisterFrame
              /\ ResumesAndCalls(TopAt("rollback"),
                   Callback("shutdown", Top.plugin))
         /\ LoadNext =>
              /\ Top \in LoadFrame
              /\ ResumesAndCalls2(Rest, Registering(Head(Top.todo)),
                   Callback("initialize", Head(Top.todo)))
         /\ UnregisterRemoves =>
              /\ Top \in UnregisterFrame
              /\ ResumesAndCalls(TopAt("announce"),
                   Delivery(PluginEvent("unregistered", Top.id)))
         /\ ShutdownNext =>
              /\ Top \in ShutdownFrame
              /\ \/ /\ HasId(Head(Top.todo)) /\ control' = "user"
                    /\ ResumesAndCalls2(Rest, Unregistering(Head(Top.todo)),
                         Callback("shutdown", Lookup(Head(Top.todo))))
                 \/ /\ ~ HasId(Head(Top.todo)) /\ control' = "return"
                    /\ Resumes(Rest)
         /\ ExecuteCallsPlugin =>
              /\ Top \in ExecuteFrame
              /\ ResumesAndCalls(TopAt("running"),
                   Callback("execute", Lookup(Top.id)))
         /\ ExecuteFails =>
              /\ Top \in ExecuteFrame
              /\ ResumesAndCalls(TopAt("failed"),
                   Delivery(ExecutionEvent("failed", Top)))
         /\ ExecuteCompletes =>
              /\ Top \in ExecuteFrame
              /\ ResumesAndCalls(TopAt("completed"),
                   Delivery(ExecutionEvent("completed", Top)))
<1> USE DEF On, At, Returned, Resumed, TopAt, Rest
<1>1. stack # << >> => Top \in Frame
  BY StackPops DEF TypeOK
<1>2. ASSUME DeliverNext
      PROVE  /\ Top \in PublishFrame
             /\ ResumesAndCalls(Rest, Callback("handle", Head(Top.todo)))
  <2>1. Top \in PublishFrame /\ stack # << >>
    BY <1>1, <1>2, FrameOf DEF DeliverNext
  <2>2. Top.todo \in Seq(Handlers) /\ Top.todo # << >>
    BY <1>2, <2>1 DEF PublishFrame, DeliverNext
  <2>3. Head(Top.todo) \in Handlers /\ Tail(Top.todo) \in Seq(Handlers)
    BY <2>2, HeadTailProperties
  <2>4. Rest \in Frame /\ Callback("handle", Head(Top.todo)) \in Frame
    BY <2>1, <2>3, CallbackType DEF PublishFrame, Frame, CallbackKinds
  <2>5. stack' = Append(Append(Below, Rest), Callback("handle", Head(Top.todo)))
    BY <1>2 DEF DeliverNext, CallUser
  <2> HIDE DEF Rest
  <2>6. QED
    BY <2>1, <2>4, <2>5, PopShapes
<1>3. ASSUME RegisterInserts \/ RegisterRollsBack
      PROVE  /\ Top \in RegisterFrame /\ stack # << >>
             /\ TopAt("announce") \in Frame /\ TopAt("rollback") \in Frame
  <2>1. Top \in RegisterFrame /\ stack # << >>
    BY <1>1, <1>3, FrameOf DEF RegisterInserts, RegisterRollsBack
  <2>2. QED
    BY <2>1 DEF RegisterFrame, Frame
<1>4. ASSUME RegisterInserts
      PROVE  ResumesAndCalls(TopAt("announce"),
               Delivery(PluginEvent("registered", Id[Top.plugin])))
  <2> DEFINE event == PluginEvent("registered", Id[Top.plugin])
  <2>1. event \in Event
    BY <1>3, <1>4, IdAssumption
       DEF PluginEvent, Event, EventTypes, RegisterFrame
  <2>2. stack' = Append(Append(Below, TopAt("announce")), Delivery(event))
    BY <1>4 DEF RegisterInserts, Publish, Delivery
  <2> HIDE DEF TopAt, event
  <2>3. ResumesAndCalls(TopAt("announce"), Delivery(event))
    BY <1>3, <1>4, <2>1, <2>2, DeliveryType, PopShapes
  <2>4. QED
    BY <2>3 DEF event
<1>5. ASSUME RegisterRollsBack
      PROVE  ResumesAndCalls(TopAt("rollback"), Callback("shutdown", Top.plugin))
  <2>1. Callback("shutdown", Top.plugin) \in Frame
    BY <1>3, <1>5, CallbackType DEF RegisterFrame, CallbackKinds
  <2>2. stack' = Append(Append(Below, TopAt("rollback")),
                        Callback("shutdown", Top.plugin))
    BY <1>5 DEF RegisterRollsBack, CallUser
  <2> HIDE DEF TopAt
  <2>3. QED
    BY <1>3, <1>5, <2>1, <2>2, PopShapes
<1>6. ASSUME LoadNext
      PROVE  /\ Top \in LoadFrame
             /\ ResumesAndCalls2(Rest, Registering(Head(Top.todo)),
                  Callback("initialize", Head(Top.todo)))
  <2>1. Top \in LoadFrame /\ stack # << >>
    BY <1>1, <1>6, FrameOf DEF LoadNext
  <2>2. Head(Top.todo) \in Plugins /\ Tail(Top.todo) \in Seq(Plugins)
    BY <1>6, <2>1, HeadTailProperties DEF LoadNext, LoadFrame
  <2>3. /\ Rest \in Frame /\ Registering(Head(Top.todo)) \in Frame
        /\ Callback("initialize", Head(Top.todo)) \in Frame
    BY <2>1, <2>2, RegisteringType, CallbackType
       DEF LoadFrame, Frame, CallbackKinds
  <2>4. stack' = Append(Append(Append(Below, Rest), Registering(Head(Top.todo))),
                        Callback("initialize", Head(Top.todo)))
    BY <1>6 DEF LoadNext, CallUser
  <2> HIDE DEF Rest
  <2>5. QED
    BY <2>1, <2>3, <2>4, PopShapes
<1>7. ASSUME UnregisterRemoves
      PROVE  /\ Top \in UnregisterFrame
             /\ ResumesAndCalls(TopAt("announce"),
                  Delivery(PluginEvent("unregistered", Top.id)))
  <2> DEFINE event == PluginEvent("unregistered", Top.id)
  <2>1. Top \in UnregisterFrame /\ stack # << >>
    BY <1>1, <1>7, FrameOf DEF UnregisterRemoves
  <2>2. event \in Event /\ TopAt("announce") \in Frame
    BY <2>1 DEF PluginEvent, Event, EventTypes, UnregisterFrame, Frame
  <2>3. stack' = Append(Append(Below, TopAt("announce")), Delivery(event))
    BY <1>7 DEF UnregisterRemoves, Publish, Delivery
  <2> HIDE DEF TopAt, event
  <2>4. ResumesAndCalls(TopAt("announce"), Delivery(event))
    BY <2>1, <2>2, <2>3, DeliveryType, PopShapes
  <2>5. QED
    BY <2>1, <2>4 DEF event
<1>8. ASSUME ShutdownNext
      PROVE  /\ Top \in ShutdownFrame
             /\ \/ /\ HasId(Head(Top.todo)) /\ control' = "user"
                   /\ ResumesAndCalls2(Rest, Unregistering(Head(Top.todo)),
                        Callback("shutdown", Lookup(Head(Top.todo))))
                \/ /\ ~ HasId(Head(Top.todo)) /\ control' = "return"
                   /\ Resumes(Rest)
  <2> DEFINE id == Head(Top.todo)
  <2>1. Top \in ShutdownFrame /\ stack # << >>
    BY <1>1, <1>8, FrameOf DEF ShutdownNext
  <2>2. id \in PluginIds /\ Tail(Top.todo) \in Seq(PluginIds)
    BY <1>8, <2>1, HeadTailProperties DEF ShutdownNext, ShutdownFrame
  <2>3. Rest \in Frame
    BY <2>1, <2>2 DEF ShutdownFrame, Frame
  <2>4. \/ /\ HasId(id) /\ control' = "user"
           /\ stack' = Append(Append(Append(Below, Rest), Unregistering(id)),
                              Callback("shutdown", Lookup(id)))
        \/ ~ HasId(id) /\ control' = "return" /\ stack' = Append(Below, Rest)
    BY <1>8 DEF ShutdownNext, CallUser
  <2>5. HasId(id) => /\ Unregistering(id) \in Frame
                     /\ Callback("shutdown", Lookup(id)) \in Frame
    BY <2>2, UnregisteringType, LookupType, CallbackType
       DEF CallbackKinds, TypeOK
  <2> HIDE DEF Rest, id
  <2>6. \/ /\ HasId(id) /\ control' = "user"
           /\ ResumesAndCalls2(Rest, Unregistering(id),
                               Callback("shutdown", Lookup(id)))
        \/ ~ HasId(id) /\ control' = "return" /\ Resumes(Rest)
    BY <2>1, <2>3, <2>4, <2>5, PopShapes
  <2>7. QED
    BY <2>1, <2>6 DEF id
<1>9. ASSUME ExecuteCallsPlugin \/ ExecuteFails \/ ExecuteCompletes
      PROVE  /\ Top \in ExecuteFrame /\ stack # << >>
             /\ TopAt("running") \in Frame
             /\ TopAt("failed") \in Frame /\ TopAt("completed") \in Frame
             /\ ExecutionEvent("failed", Top) \in Event
             /\ ExecutionEvent("completed", Top) \in Event
  <2>1. Top \in ExecuteFrame /\ stack # << >>
    BY <1>1, <1>9, FrameOf
       DEF ExecuteCallsPlugin, ExecuteFails, ExecuteCompletes
  <2>2. /\ TopAt("running") \in ExecuteFrame
        /\ TopAt("failed") \in ExecuteFrame
        /\ TopAt("completed") \in ExecuteFrame
    BY <2>1 DEF ExecuteFrame
  <2>3. /\ ExecutionEvent("failed", Top) \in Event
        /\ ExecutionEvent("completed", Top) \in Event
    BY <2>1 DEF ExecutionEvent, Event, EventTypes, ExecuteFrame
  <2>4. QED
    BY <2>1, <2>2, <2>3 DEF Frame
<1>10. ASSUME ExecuteCallsPlugin
       PROVE  ResumesAndCalls(TopAt("running"),
                              Callback("execute", Lookup(Top.id)))
  <2>1. Callback("execute", Lookup(Top.id)) \in Frame
    BY <1>10, LookupType, CallbackType
       DEF ExecuteCallsPlugin, TypeOK, CallbackKinds
  <2>2. stack' = Append(Append(Below, TopAt("running")),
                        Callback("execute", Lookup(Top.id)))
    BY <1>10 DEF ExecuteCallsPlugin, CallUser
  <2> HIDE DEF TopAt
  <2>3. QED
    BY <1>9, <1>10, <2>1, <2>2, PopShapes
<1>11. ASSUME ExecuteFails
       PROVE  ResumesAndCalls(TopAt("failed"),
                              Delivery(ExecutionEvent("failed", Top)))
  <2>1. stack' = Append(Append(Below, TopAt("failed")),
                        Delivery(ExecutionEvent("failed", Top)))
    BY <1>11 DEF ExecuteFails, Publish, Delivery
  <2> HIDE DEF TopAt
  <2>2. QED
    BY <1>9, <1>11, <2>1, DeliveryType, PopShapes
<1>12. ASSUME ExecuteCompletes
       PROVE  ResumesAndCalls(TopAt("completed"),
                              Delivery(ExecutionEvent("completed", Top)))
  <2>1. stack' = Append(Append(Below, TopAt("completed")),
                        Delivery(ExecutionEvent("completed", Top)))
    BY <1>12 DEF ExecuteCompletes, Publish, Delivery
  <2> HIDE DEF TopAt
  <2>2. QED
    BY <1>9, <1>12, <2>1, DeliveryType, PopShapes
<1> HIDE DEF TopAt, Rest
<1>13. QED
  BY <1>2, <1>3, <1>4, <1>5, <1>6, <1>7, <1>8, <1>9, <1>10, <1>11, <1>12

-----------------------------------------------------------------------------
(* The calls on the stack.  A kernel function that is not on top waits for *)
(* the call its pc stands for, and it is user code that runs as "user".    *)

CalledBy(f, g) ==
  \/ /\ f.fn = "register" /\ f.pc = "initialize"
     /\ g = Callback("initialize", f.plugin)
  \/ /\ f.fn = "register" /\ f.pc = "rollback"
     /\ g = Callback("shutdown", f.plugin)
  \/ f.fn = "register" /\ f.pc = "announce" /\ g.fn = "publish"
  \/ /\ f.fn = "unregister" /\ f.pc = "shutdown"
     /\ g = Callback("shutdown", f.plugin)
  \/ f.fn = "unregister" /\ f.pc = "announce" /\ g.fn = "publish"
  \/ f.fn = "shutdown" /\ g.fn = "unregister"
  \/ f.fn = "load" /\ g.fn = "register"
  \/ f.fn = "execute" /\ f.pc = "running" /\ g.fn = "callback"
                      /\ g.kind = "execute"
  \/ f.fn = "execute" /\ f.pc # "running" /\ g.fn = "publish"
  \/ f.fn = "publish" /\ g.fn = "callback" /\ g.kind = "handle"
  \/ /\ f.fn = "callback"
     /\ g.fn \in {"register", "unregister", "shutdown", "load", "execute"}

NestInv ==
  /\ \A i \in 1 .. Height - 1 : CalledBy(stack[i], stack[i + 1])
  /\ control = "user" /\ Height # 0 => stack[Height].fn = "callback"

(* User code on top may push any call.                                     *)
LEMMA NestPush ==
  ASSUME TypeOK, NestInv, control = "user", NEW f,
         f.fn \in {"register", "unregister", "shutdown", "load", "execute"}
  PROVE  /\ Pushes1(f) /\ control' # "user" => NestInv'
         /\ \A g : Pushes2(f, g) /\ CalledBy(f, g)
                   /\ (control' = "user" => g.fn = "callback") => NestInv'
<1>1. Height \in Nat
  BY StackIndices
<1>2. Height # 0 => stack[Height].fn = "callback"
  BY DEF NestInv
<1>3. Height # 0 => CalledBy(stack[Height], f)
  BY <1>2 DEF CalledBy
<1>4. ASSUME Pushes1(f), control' # "user"
      PROVE  NestInv'
  <2>1. /\ Height' = Height + 1 /\ stack'[Height + 1] = f
        /\ \A i \in 1 .. Height : stack'[i] = stack[i]
    BY <1>4 DEF Pushes1, Reshapes, Height
  <2>2. ASSUME NEW i \in 1 .. Height' - 1
        PROVE  CalledBy(stack'[i], stack'[i + 1])
    <3>1. CASE i = Height
      BY <1>1, <1>3, <2>1, <3>1
    <3>2. CASE i # Height
      <4>1. i \in 1 .. Height - 1 /\ i \in 1 .. Height /\ i + 1 \in 1 .. Height
        BY <1>1, <2>1, <2>2, <3>2
      <4>2. QED
        BY <2>1, <4>1 DEF NestInv
    <3>3. QED
      BY <3>1, <3>2
  <2>3. QED
    BY <1>4, <2>2 DEF NestInv, CalledBy
<1>5. ASSUME NEW g, Pushes2(f, g), CalledBy(f, g),
             control' = "user" => g.fn = "callback"
      PROVE  NestInv'
  <2>1. /\ Height' = Height + 2
        /\ stack'[Height + 1] = f /\ stack'[Height + 2] = g
        /\ \A i \in 1 .. Height : stack'[i] = stack[i]
    BY <1>5 DEF Pushes2, Reshapes, Height
  <2>2. ASSUME NEW i \in 1 .. Height' - 1
        PROVE  CalledBy(stack'[i], stack'[i + 1])
    <3>1. CASE i = Height + 1
      <4>1. i + 1 = Height + 2
        BY <1>1, <3>1
      <4>2. QED
        BY <1>5, <2>1, <3>1, <4>1
    <3>2. CASE i = Height
      BY <1>1, <1>3, <2>1, <3>2
    <3>3. CASE i # Height /\ i # Height + 1
      <4>1. i \in 1 .. Height - 1 /\ i \in 1 .. Height /\ i + 1 \in 1 .. Height
        BY <1>1, <2>1, <2>2, <3>3
      <4>2. QED
        BY <2>1, <4>1 DEF NestInv
    <3>4. QED
      BY <3>1, <3>2, <3>3
  <2>3. QED
    BY <1>5, <2>1, <2>2 DEF NestInv, CalledBy
<1>6. QED
  BY <1>4, <1>5

LEMMA NestPop ==
  ASSUME TypeOK, NestInv, Pops, control' # "user"
  PROVE  NestInv'
<1>1. /\ Height \in Nat /\ Height # 0 /\ Height' = Height - 1
      /\ \A i \in 1 .. Height - 1 : stack'[i] = stack[i]
  BY StackIndices DEF Pops, Reshapes, Height
<1>2. \A i \in 1 .. Height' - 1 : /\ i \in 1 .. Height - 1
                                  /\ i + 1 \in 1 .. Height - 1
  BY <1>1
<1>3. QED
  BY <1>1, <1>2 DEF NestInv

(* A kernel function on top goes on, and calls what its new pc stands for. *)
LEMMA NestResume ==
  ASSUME TypeOK, NestInv, NEW f, f.fn = Top.fn, Top.fn # "callback"
  PROVE  /\ Resumes(f) /\ control' # "user" => NestInv'
         /\ \A g : ResumesAndCalls(f, g) /\ CalledBy(f, g)
                   /\ (control' = "user" => g.fn = "callback") => NestInv'
         /\ \A g, h : ResumesAndCalls2(f, g, h)
                      /\ CalledBy(f, g) /\ CalledBy(g, h)
                      /\ (control' = "user" => h.fn = "callback") => NestInv'
<1>1. Height \in Nat /\ Top = stack[Height]
  BY StackIndices
<1>2. \A e : CalledBy(e, Top) => CalledBy(e, f)
  BY DEF CalledBy, Callback
<1>3. ASSUME Height # 0, Reshapes(Height - 1, Len(stack')), stack'[Height] = f,
             NEW i \in 1 .. Height - 1
      PROVE  CalledBy(stack'[i], stack'[i + 1])
  <2>1. stack'[i] = stack[i] /\ CalledBy(stack[i], stack[i + 1])
    BY <1>3 DEF NestInv, Reshapes
  <2>2. CASE i + 1 = Height
    BY <1>1, <1>2, <1>3, <2>1, <2>2
  <2>3. CASE i + 1 # Height
    <3>1. i + 1 \in 1 .. Height - 1
      BY <1>1, <1>3, <2>3
    <3>2. QED
      BY <1>3, <2>1, <3>1 DEF Reshapes
  <2>4. QED
    BY <2>2, <2>3
<1>4. ASSUME Resumes(f), control' # "user"
      PROVE  NestInv'
  <2>1. /\ Height' = Height /\ Height # 0 /\ stack'[Height] = f
        /\ Reshapes(Height - 1, Len(stack'))
    BY <1>4 DEF Resumes, Reshapes, Height
  <2>2. QED
    BY <1>3, <1>4, <2>1 DEF NestInv
<1>5. ASSUME NEW g, ResumesAndCalls(f, g), CalledBy(f, g),
             control' = "user" => g.fn = "callback"
      PROVE  NestInv'
  <2>1. /\ Height' = Height + 1 /\ Height # 0
        /\ stack'[Height] = f /\ stack'[Height + 1] = g
        /\ Reshapes(Height - 1, Len(stack'))
    BY <1>5 DEF ResumesAndCalls, Reshapes, Height
  <2>2. \A i \in 1 .. Height' - 1 : i \in 1 .. Height - 1 \/ i = Height
    BY <1>1, <2>1
  <2>3. QED
    BY <1>3, <1>5, <2>1, <2>2 DEF NestInv
<1>6. ASSUME NEW g, NEW h, ResumesAndCalls2(f, g, h), CalledBy(f, g),
             CalledBy(g, h), control' = "user" => h.fn = "callback"
      PROVE  NestInv'
  <2>1. /\ Height' = Height + 2 /\ Height # 0
        /\ stack'[Height] = f /\ stack'[Height + 1] = g
        /\ stack'[Height + 2] = h
        /\ Reshapes(Height - 1, Len(stack'))
    BY <1>6 DEF ResumesAndCalls2, Reshapes, Height
  <2>2. /\ \A i \in 1 .. Height' - 1 :
             i \in 1 .. Height - 1 \/ i = Height \/ i = Height + 1
        /\ (Height + 1) + 1 = Height + 2
    BY <1>1, <2>1
  <2>3. QED
    BY <1>3, <1>6, <2>1, <2>2 DEF NestInv
<1>7. QED
  BY <1>4, <1>5, <1>6

LEMMA NestStep ==
  ASSUME TypeOK, NestInv, [Next]_vars
  PROVE  NestInv'
<1> USE DEF OnlyControl, On, At, Returned
<1>1. ASSUME UNCHANGED stack,
             control' = "user" => control = "user" \/ stack = << >> \/ On("callback")
      PROVE  NestInv'
  <2>1. Height' = Height /\ (stack # << >> => Top = stack[Height])
        /\ (Height # 0 => stack # << >>)
    BY <1>1, StackIndices DEF Height
  <2>2. QED
    BY <1>1, <2>1 DEF NestInv
<1>2. ASSUME NEW p \in Plugins, CallRegister(p)
      PROVE  NestInv'
  <2>1. CalledBy(Registering(p), Callback("initialize", p))
        /\ Registering(p).fn = "register"
        /\ Callback("initialize", p).fn = "callback"
    BY DEF CalledBy, Registering, Callback
  <2>2. control = "user"
    BY <1>2 DEF CallRegister, Make
  <2>3. QED
    BY <1>2, <2>1, <2>2, CallShapes, NestPush
<1>3. ASSUME NEW plugins \in Loads, CallLoad(plugins)
      PROVE  NestInv'
  <2>1. Loading(plugins).fn = "load"
    BY DEF Loading
  <2>2. control = "user"
    BY <1>3 DEF CallLoad, Make
  <2>3. \/ control' = "return" /\ Pushes1(Loading(plugins))
        \/ control' = "raise" /\ UNCHANGED stack
    BY <1>3, CallShapes
  <2>4. QED
    BY <1>1, <2>1, <2>2, <2>3, NestPush
<1>4. ASSUME NEW id \in PluginIds, CallUnregister(id)
      PROVE  NestInv'
  <2>1. control = "user"
    BY <1>4 DEF CallUnregister, Make
  <2>2. CalledBy(Unregistering(id), Callback("shutdown", Lookup(id)))
        /\ Unregistering(id).fn = "unregister"
        /\ Callback("shutdown", Lookup(id)).fn = "callback"
    BY DEF CalledBy, Unregistering, Callback
  <2>3. QED
    BY <1>1, <1>4, <2>1, <2>2, CallShapes, NestPush
<1>5. CASE CallShutdown
  <2>1. ShuttingDown.fn = "shutdown"
    BY DEF ShuttingDown
  <2>2. control = "user" /\ control' = "return"
    BY <1>5 DEF CallShutdown, Make
  <2>3. QED
    BY <1>5, <2>1, <2>2, CallShapes, NestPush
<1>6. ASSUME NEW id \in PluginIds, NEW capability \in Capabilities,
             NEW routed \in BOOLEAN, control = "user",
             BeginExecution(id, capability, routed)
      PROVE  NestInv'
  <2> DEFINE f == Executing(id, capability, routed)
             g == Delivery(ExecutionEvent("started", f))
  <2>1. f.fn = "execute" /\ CalledBy(f, g)
    BY DEF CalledBy, Executing, Delivery
  <2>2. control' = "return"
    BY <1>6 DEF BeginExecution, Publish
  <2>3. Pushes2(f, g)
    BY <1>6, CallShapes
  <2> HIDE DEF f, g
  <2>4. QED
    BY <1>6, <2>1, <2>2, <2>3, NestPush
<1>7. ASSUME NEW id \in PluginIds, NEW capability \in Capabilities,
             CallExecute(id, capability)
      PROVE  NestInv'
  BY <1>6, <1>7 DEF CallExecute, Make
<1>8. ASSUME NEW capability \in Capabilities, CallExecuteCapability(capability)
      PROVE  NestInv'
  <2>1. \A i \in DOMAIN registry : Id[registry[i]] \in PluginIds
    BY IdAssumption, LenProperties, ElementOfSeq DEF TypeOK
  <2>2. QED
    BY <1>1, <1>6, <1>8, <2>1
       DEF CallExecuteCapability, FindByCapability, Make
<1>9. CASE UserCalls
  BY <1>1, <1>2, <1>3, <1>4, <1>5, <1>7, <1>8, <1>9
     DEF UserCalls, DirectCalls, CallSubscribe, CallUnsubscribe, CallClear
<1>10. CASE UserResumes
  BY <1>1, <1>10 DEF UserResumes
<1>11. CASE \/ UserPropagates \/ UserReturns \/ UserRaises \/ Returns
            \/ Reraises \/ ExecuteMisreads \/ Unwind
  <2>1. control' # "user"
    BY <1>11 DEF UserPropagates, UserReturns, UserRaises, Returns, Reraises,
                 ExecuteMisreads, Unwind, Leave
  <2>2. QED
    BY <1>11, <2>1, EndShapes, NestPop
<1>12. CASE DeliverNext
  <2> DEFINE g == Callback("handle", Head(Top.todo))
  <2>1. Top \in PublishFrame /\ ResumesAndCalls(Rest, g)
    BY <1>12, KernelShapes
  <2>2. Rest.fn = "publish" /\ Top.fn = "publish" /\ CalledBy(Rest, g)
        /\ g.fn = "callback"
    BY <2>1 DEF Rest, PublishFrame, CalledBy, Callback
  <2> HIDE DEF g
  <2>3. QED
    BY <2>1, <2>2, NestResume
<1>13. CASE RegisterInserts
  <2> DEFINE g == Delivery(PluginEvent("registered", Id[Top.plugin]))
  <2>1. Top \in RegisterFrame /\ ResumesAndCalls(TopAt("announce"), g)
    BY <1>13, KernelShapes
  <2>2. TopAt("announce").fn = Top.fn /\ Top.fn = "register"
        /\ CalledBy(TopAt("announce"), g)
    BY <2>1 DEF TopAt, RegisterFrame, CalledBy, Delivery
  <2>3. control' # "user"
    BY <1>13 DEF RegisterInserts, Publish
  <2> HIDE DEF g
  <2>4. QED
    BY <2>1, <2>2, <2>3, NestResume
<1>14. CASE RegisterRollsBack
  <2> DEFINE g == Callback("shutdown", Top.plugin)
  <2>1. Top \in RegisterFrame /\ ResumesAndCalls(TopAt("rollback"), g)
    BY <1>14, KernelShapes
  <2>2. TopAt("rollback").fn = Top.fn /\ Top.fn = "register"
        /\ CalledBy(TopAt("rollback"), g) /\ g.fn = "callback"
    BY <2>1 DEF TopAt, RegisterFrame, CalledBy, Callback
  <2> HIDE DEF g
  <2>3. QED
    BY <2>1, <2>2, NestResume
<1>15. CASE LoadNext
  <2> DEFINE g == Registering(Head(Top.todo))
             h == Callback("initialize", Head(Top.todo))
  <2>1. Top \in LoadFrame /\ ResumesAndCalls2(Rest, g, h)
    BY <1>15, KernelShapes
  <2>2. Rest.fn = "load" /\ Top.fn = "load" /\ h.fn = "callback"
        /\ CalledBy(Rest, g) /\ CalledBy(g, h)
    BY <2>1 DEF Rest, LoadFrame, CalledBy, Registering, Callback
  <2> HIDE DEF g, h
  <2>3. QED
    BY <2>1, <2>2, NestResume
<1>16. CASE UnregisterRemoves
  <2> DEFINE g == Delivery(PluginEvent("unregistered", Top.id))
  <2>1. Top \in UnregisterFrame /\ ResumesAndCalls(TopAt("announce"), g)
    BY <1>16, KernelShapes
  <2>2. TopAt("announce").fn = Top.fn /\ Top.fn = "unregister"
        /\ CalledBy(TopAt("announce"), g)
    BY <2>1 DEF TopAt, UnregisterFrame, CalledBy, Delivery
  <2>3. control' # "user"
    BY <1>16 DEF UnregisterRemoves, Publish
  <2> HIDE DEF g
  <2>4. QED
    BY <2>1, <2>2, <2>3, NestResume
<1>17. CASE ShutdownNext
  <2> DEFINE g == Unregistering(Head(Top.todo))
             h == Callback("shutdown", Lookup(Head(Top.todo)))
  <2>1. Top \in ShutdownFrame
        /\ (ResumesAndCalls2(Rest, g, h) \/ (control' = "return" /\ Resumes(Rest)))
    BY <1>17, KernelShapes
  <2>2. Rest.fn = "shutdown" /\ Top.fn = "shutdown" /\ h.fn = "callback"
        /\ CalledBy(Rest, g) /\ CalledBy(g, h)
    BY <2>1 DEF Rest, ShutdownFrame, CalledBy, Unregistering, Callback
  <2> HIDE DEF g, h
  <2>3. QED
    BY <2>1, <2>2, NestResume
<1>18. CASE ExecuteCallsPlugin
  <2> DEFINE g == Callback("execute", Lookup(Top.id))
  <2>1. Top \in ExecuteFrame /\ ResumesAndCalls(TopAt("running"), g)
    BY <1>18, KernelShapes
  <2>2. TopAt("running").fn = Top.fn /\ Top.fn = "execute"
        /\ CalledBy(TopAt("running"), g) /\ g.fn = "callback"
    BY <2>1 DEF TopAt, ExecuteFrame, CalledBy, Callback
  <2> HIDE DEF g
  <2>3. QED
    BY <2>1, <2>2, NestResume
<1>19. CASE ExecuteFails \/ ExecuteCompletes
  <2>1. PICK pc \in {"failed", "completed"} :
          /\ Top \in ExecuteFrame
          /\ ResumesAndCalls(TopAt(pc), Delivery(ExecutionEvent(pc, Top)))
    BY <1>19, KernelShapes
  <2> DEFINE g == Delivery(ExecutionEvent(pc, Top))
  <2>2. TopAt(pc).fn = Top.fn /\ Top.fn = "execute" /\ CalledBy(TopAt(pc), g)
    BY <2>1 DEF TopAt, ExecuteFrame, CalledBy, Delivery
  <2>3. control' # "user"
    BY <1>19 DEF ExecuteFails, ExecuteCompletes, Publish
  <2>4. ResumesAndCalls(TopAt(pc), g)
    BY <2>1
  <2> HIDE DEF g
  <2>5. QED
    BY <2>2, <2>3, <2>4, NestResume
<1>20. CASE UNCHANGED vars
  BY <1>1, <1>20 DEF vars, kernelVars
<1>21. QED
  BY <1>9, <1>10, <1>11, <1>12, <1>13, <1>14, <1>15, <1>16, <1>17, <1>18,
     <1>19, <1>20 DEF Next, UserEnds, Kernel, Transitions

LEMMA NestInitially == Init => NestInv
BY EmptySeq DEF Init, NestInv, Height

-----------------------------------------------------------------------------
(* What a step leaves of the stack, what it does to the registry, and what *)
(* it says of that in the log.                                             *)

(* The frames below the top one stay.                                      *)
LEMMA LowerFrames ==
  ASSUME TypeOK, [Next]_vars, Height # 0
  PROVE  Reshapes(Height - 1, Height') /\ Height' \in Nat /\ Height' >= Height - 1
<1> USE DEF OnlyControl
<1>1. Height \in Nat /\ Height' = Len(stack')
  BY StackIndices DEF Height
<1>2. ASSUME UNCHANGED stack
      PROVE  Reshapes(Height - 1, Height') /\ Height' = Height
  BY <1>1, <1>2 DEF Reshapes, Height
<1>3. ASSUME NEW f, NEW g, Pushes1(f) \/ Pushes2(f, g)
      PROVE  Reshapes(Height - 1, Height') /\ Height' \in {Height + 1, Height + 2}
  <2>1. \A i \in 1 .. Height - 1 : i \in 1 .. Height
    BY <1>1
  <2> QED
    BY <1>1, <1>3, <2>1 DEF Pushes1, Pushes2, Reshapes
<1>4. ASSUME NEW f, NEW g, NEW h,
             \/ Resumes(f) \/ ResumesAndCalls(f, g) \/ ResumesAndCalls2(f, g, h)
             \/ Pops
      PROVE  /\ Reshapes(Height - 1, Height')
             /\ Height' \in {Height - 1, Height, Height + 1, Height + 2}
  BY <1>1, <1>4 DEF Resumes, ResumesAndCalls, ResumesAndCalls2, Pops, Reshapes
<1>5. CASE UserCalls
  <2>1. CASE DirectCalls
    <3>1. ASSUME NEW type, NEW handler,
                 \/ CallSubscribe(type, handler) \/ CallUnsubscribe(type, handler)
                 \/ CallClear
          PROVE  UNCHANGED stack
      BY <3>1 DEF CallSubscribe, CallUnsubscribe, CallClear
    <3>2. ASSUME \/ \E type \in EventTypes, handler \in Handlers :
                       CallSubscribe(type, handler) \/ CallUnsubscribe(type, handler)
                 \/ CallClear
          PROVE  UNCHANGED stack
      BY <3>1, <3>2
    <3>3. ASSUME NEW plugin \in Plugins, CallRegister(plugin)
          PROVE  \E f, g : Pushes1(f) \/ Pushes2(f, g)
      BY <3>3, CallShapes
    <3>4. ASSUME NEW plugins \in Loads, CallLoad(plugins)
          PROVE  UNCHANGED stack \/ \E f, g : Pushes1(f) \/ Pushes2(f, g)
      BY <3>4, CallShapes
    <3>5. ASSUME NEW id \in PluginIds, CallUnregister(id)
          PROVE  UNCHANGED stack \/ \E f, g : Pushes1(f) \/ Pushes2(f, g)
      BY <3>5, CallShapes
    <3>6. ASSUME CallShutdown
          PROVE  \E f, g : Pushes1(f) \/ Pushes2(f, g)
      BY <3>6, CallShapes
    <3>7. ASSUME NEW id \in PluginIds, NEW capability \in Capabilities,
                 CallExecute(id, capability)
          PROVE  \E f, g : Pushes1(f) \/ Pushes2(f, g)
      <4>1. BeginExecution(id, capability, FALSE)
        BY <3>7 DEF CallExecute
      <4> QED
        BY <4>1, CallShapes
    <3> QED
      BY <1>1, <1>2, <1>3, <2>1, <3>2, <3>3, <3>4, <3>5, <3>6, <3>7 DEF DirectCalls
  <2>2. ASSUME NEW capability \in Capabilities, CallExecuteCapability(capability)
        PROVE  UNCHANGED stack \/ \E f, g : Pushes1(f) \/ Pushes2(f, g)
    <3>1. \A i \in DOMAIN registry : Id[registry[i]] \in PluginIds
      BY IdAssumption, LenProperties, ElementOfSeq DEF TypeOK
    <3>2. ASSUME NEW i \in FindByCapability(capability),
                 BeginExecution(Id[registry[i]], capability, TRUE)
          PROVE  \E f, g : Pushes1(f) \/ Pushes2(f, g)
      <4>1. Id[registry[i]] \in PluginIds
        BY <3>1 DEF FindByCapability
      <4> QED
        BY <3>2, <4>1, CallShapes
    <3> QED
      BY <2>2, <3>2 DEF CallExecuteCapability
  <2> QED
    BY <1>1, <1>2, <1>3, <1>5, <2>1, <2>2 DEF UserCalls
<1>6. CASE UserEnds
  <2>1. UserResumes => UNCHANGED stack
    BY DEF UserResumes
  <2>2. UserPropagates \/ UserReturns \/ UserRaises => Pops
    BY EndShapes
  <2> QED
    BY <1>1, <1>2, <1>4, <1>6, <2>1, <2>2 DEF UserEnds
<1>7. CASE Kernel
  <2>1. Returns \/ Reraises \/ ExecuteMisreads \/ Unwind => Pops
    BY EndShapes
  <2>2. \/ Returns \/ Reraises \/ ExecuteMisreads \/ Unwind
        \/ \E f, g, h : Resumes(f) \/ ResumesAndCalls(f, g) \/ ResumesAndCalls2(f, g, h)
    BY <1>7, KernelShapes DEF Kernel, Transitions
  <2>3. CASE Pops
    <3>1. /\ Reshapes(Height - 1, Height')
          /\ Height' \in {Height - 1, Height, Height + 1, Height + 2}
      BY <1>4, <2>3
    <3> QED
      BY <1>1, <3>1
  <2>4. ASSUME NEW f, NEW g, NEW h,
               Resumes(f) \/ ResumesAndCalls(f, g) \/ ResumesAndCalls2(f, g, h)
        PROVE  Reshapes(Height - 1, Height') /\ Height' \in Nat /\ Height' >= Height - 1
    <3>1. /\ Reshapes(Height - 1, Height')
          /\ Height' \in {Height - 1, Height, Height + 1, Height + 2}
      BY <1>4, <2>4
    <3> QED
      BY <1>1, <3>1
  <2> QED
    BY <2>1, <2>2, <2>3, <2>4
<1>8. CASE UNCHANGED vars
  BY <1>1, <1>2, <1>8 DEF vars, kernelVars
<1> QED
  BY <1>5, <1>6, <1>7, <1>8 DEF Next

LEMMA RegistryRemoveAt ==
  ASSUME TypeOK, NEW n \in Nat, n = Len(registry), NEW at \in 1 .. n,
         registry' = RemoveAt(registry, at)
  PROVE  /\ DOMAIN registry' = 1 .. n - 1
         /\ \A j \in 1 .. n - 1 :
              registry'[j] = IF j < at THEN registry[j] ELSE registry[j + 1]
<1>1. registry \in Seq(Plugins) /\ at \in 1 .. Len(registry)
  BY DEF TypeOK
<1>2. /\ registry' \in Seq(Plugins) /\ Len(registry') = n - 1
      /\ \A j \in 1 .. Len(registry) - 1 :
           registry'[j] = IF j < at THEN registry[j] ELSE registry[j + 1]
  BY <1>1, RemoveAtProperties
<1>3. DOMAIN registry' = 1 .. n - 1
  BY <1>2, LenProperties
<1>4. QED
  BY <1>2, <1>3

(* Only RegisterInserts adds to the registry, and what it inserts stands   *)
(* on top of the stack.                                                    *)
LEMMA RegistryStep ==
  ASSUME TypeOK, [Next]_vars
  PROVE  /\ Registered' \subseteq Registered \/ RegisterInserts
         /\ RegisterInserts =>
              /\ Registered' = Registered \cup {Top.plugin}
              /\ Top \in RegisterFrame /\ ~ HasId(Id[Top.plugin])
<1>1. ASSUME UNCHANGED registry
      PROVE  Registered' \subseteq Registered
  BY <1>1 DEF Registered
<1>2. ASSUME UnregisterRemoves
      PROVE  Registered' \subseteq Registered
  <2>1. registry \in Seq(Plugins)
    BY DEF TypeOK
  <2>2. CASE HasId(Top.id)
    <3>1. PositionOf(Top.id) \in 1 .. Len(registry)
      BY <2>1, <2>2, LookupType
    <3>2. registry' = RemoveAt(registry, PositionOf(Top.id))
      BY <1>2, <2>2 DEF UnregisterRemoves, Unregister
    <3>3. PICK n \in Nat : n = Len(registry) /\ DOMAIN registry = 1 .. n
      BY <2>1, LenProperties
    <3>4. /\ DOMAIN registry' = 1 .. n - 1
          /\ \A j \in 1 .. n - 1 :
               \/ registry'[j] = registry[j] \/ registry'[j] = registry[j + 1]
      BY <3>1, <3>2, <3>3, RegistryRemoveAt
    <3>5. \A j \in 1 .. n - 1 : j \in 1 .. n /\ j + 1 \in 1 .. n
      BY <3>3
    <3>6. QED
      BY <3>3, <3>4, <3>5 DEF Registered
  <2>3. CASE ~ HasId(Top.id)
    BY <1>1, <1>2, <2>3 DEF UnregisterRemoves, Unregister
  <2>4. QED
    BY <2>2, <2>3
<1>3. ASSUME RegisterInserts
      PROVE  /\ Registered' = Registered \cup {Top.plugin}
             /\ Top \in RegisterFrame /\ ~ HasId(Id[Top.plugin])
  <2>1. Top \in RegisterFrame
    BY <1>3, KernelShapes
  <2>2. registry' = Append(registry, Top.plugin) /\ ~ HasId(Id[Top.plugin])
    BY <1>3 DEF RegisterInserts, Register
  <2>3. Top.plugin \in Plugins
    BY <2>1 DEF RegisterFrame
  <2>4. PICK n \in Nat : n = Len(registry) /\ DOMAIN registry = 1 .. n
    BY LenProperties DEF TypeOK
  <2>5. /\ DOMAIN registry' = 1 .. n + 1
        /\ \A j \in 1 .. n : registry'[j] = registry[j]
        /\ registry'[n + 1] = Top.plugin
    BY <2>2, <2>3, <2>4, AppendProperties, LenProperties DEF TypeOK
  <2>6. \A j \in 1 .. n + 1 : j \in 1 .. n \/ j = n + 1
    BY <2>4
  <2>7. Registered' = Registered \cup {Top.plugin}
    BY <2>4, <2>5, <2>6 DEF Registered
  <2>8. QED
    BY <2>1, <2>2, <2>7
<1>4. QED
  BY <1>1, <1>2, <1>3
     DEF Next, UserCalls, DirectCalls, UserEnds, Kernel, Transitions, vars,
         kernelVars, OnlyControl, CallSubscribe, CallUnsubscribe, CallClear,
         CallRegister, CallLoad, CallUnregister, CallShutdown, CallExecute,
         CallExecuteCapability, BeginExecution, UserResumes, UserPropagates,
         UserReturns, UserRaises, DeliverNext, RegisterRollsBack,
         LoadNext, ShutdownNext, ExecuteCallsPlugin,
         ExecuteFails, ExecuteCompletes, Returns, Reraises, ExecuteMisreads, Unwind

LEMMA StepLogs ==
  ASSUME [Next]_vars
  PROVE  UNCHANGED log \/ \E event : log' = Append(log, event)
<1> USE DEF OnlyControl
<1>1. CASE DirectCalls
  <2>1. ASSUME NEW type, NEW handler,
               CallSubscribe(type, handler) \/ CallUnsubscribe(type, handler)
        PROVE  UNCHANGED log
    BY <2>1 DEF CallSubscribe, CallUnsubscribe
  <2>2. ASSUME NEW id, NEW capability, CallExecute(id, capability)
        PROVE  \E event : log' = Append(log, event)
    BY <2>2 DEF CallExecute, BeginExecution, Publish
  <2>3. ASSUME \/ CallClear \/ CallShutdown
               \/ \E plugin \in Plugins : CallRegister(plugin)
               \/ \E plugins \in Loads : CallLoad(plugins)
               \/ \E id \in PluginIds : CallUnregister(id)
        PROVE  UNCHANGED log
    BY <2>3 DEF CallClear, CallShutdown, CallRegister, CallLoad, CallUnregister
  <2> QED
    BY <1>1, <2>1, <2>2, <2>3 DEF DirectCalls
<1>2. ASSUME NEW capability, CallExecuteCapability(capability)
      PROVE  UNCHANGED log \/ \E event : log' = Append(log, event)
  BY <1>2 DEF CallExecuteCapability, BeginExecution, Publish
<1>3. CASE UserEnds
  BY <1>3 DEF UserEnds, UserResumes, UserPropagates, UserReturns, UserRaises
<1>4. CASE DeliverNext \/ RegisterRollsBack \/ LoadNext \/ ShutdownNext
           \/ ExecuteCallsPlugin \/ Returns \/ Reraises \/ ExecuteMisreads \/ Unwind
  BY <1>4 DEF DeliverNext, RegisterRollsBack, LoadNext, ShutdownNext,
              ExecuteCallsPlugin, Returns, Reraises, ExecuteMisreads, Unwind
<1>5. CASE RegisterInserts \/ UnregisterRemoves \/ ExecuteFails \/ ExecuteCompletes
  BY <1>5 DEF RegisterInserts, UnregisterRemoves, ExecuteFails, ExecuteCompletes, Publish
<1>6. CASE UNCHANGED vars
  BY <1>6 DEF vars, kernelVars
<1> QED
  BY <1>1, <1>2, <1>3, <1>4, <1>5, <1>6 DEF Next, UserCalls, Kernel, Transitions

(* A step adds to the log an event of the given type and id.               *)
Announces(type, id) ==
  \E j \in DOMAIN log' :
    /\ \A i \in DOMAIN log : i < j
    /\ log'[j].type = type /\ log'[j].id = id

LogKept == \A i \in DOMAIN log : i \in DOMAIN log' /\ log'[i] = log[i]

(* The log only grows; it says which ids left the registry, and which new  *)
(* ones it has.                                                            *)
RegistryIsLogged ==
  /\ LogKept
  /\ \A id : HasId(id) /\ ~ HasId(id)' => Announces("unregistered", id)
  /\ \A p \in Registered' \ Registered :
       ~ HasId(Id[p]) /\ Announces("registered", Id[p])

LEMMA LogAppends ==
  ASSUME TypeOK, NEW event, log' = Append(log, event)
  PROVE  LogKept /\ Announces(event.type, event.id)
<1>1. PICK n \in Nat : n = Len(log) /\ DOMAIN log = 1 .. n
  BY LenProperties DEF TypeOK
<1>2. /\ DOMAIN log' = 1 .. n + 1 /\ log'[n + 1] = event
      /\ \A i \in 1 .. n : log'[i] = log[i]
  BY <1>1 DEF TypeOK
<1>3. LogKept
  BY <1>1, <1>2 DEF LogKept
<1>4. n + 1 \in DOMAIN log' /\ \A i \in DOMAIN log : i < n + 1
  BY <1>1, <1>2
<1>5. Announces(event.type, event.id)
  BY <1>2, <1>4 DEF Announces
<1> QED
  BY <1>3, <1>5

(* An id that is not the one removed stays.                                *)
LEMMA OtherIdsStay ==
  ASSUME TypeOK, NEW id, Unregister(id), NEW other, other # id, HasId(other)
  PROVE  HasId(other)'
<1>1. PICK n \in Nat : n = Len(registry) /\ DOMAIN registry = 1 .. n
  BY LenProperties DEF TypeOK
<1>2. CASE ~ HasId(id)
  BY <1>2 DEF Unregister, HasId
<1>3. CASE HasId(id)
  <2>1. /\ PositionOf(id) \in 1 .. n
        /\ Id[registry[PositionOf(id)]] = id
        /\ registry' = RemoveAt(registry, PositionOf(id))
    BY <1>1, <1>3, LookupType DEF Unregister, TypeOK, Lookup
  <2>2. /\ DOMAIN registry' = 1 .. n - 1
        /\ \A j \in 1 .. n - 1 :
             registry'[j] = IF j < PositionOf(id) THEN registry[j]
                            ELSE registry[j + 1]
    BY <1>1, <2>1, RegistryRemoveAt
  <2>3. PICK k \in 1 .. n : Id[registry[k]] = other
    BY <1>1 DEF HasId
  <2>4. k # PositionOf(id)
    BY <2>1, <2>3
  <2>5. CASE k < PositionOf(id)
    <3>1. k \in 1 .. n - 1 /\ registry'[k] = registry[k]
      BY <1>1, <2>1, <2>2, <2>5
    <3> QED
      BY <2>2, <2>3, <3>1 DEF HasId
  <2>6. CASE PositionOf(id) < k
    <3>1. k - 1 \in 1 .. n - 1 /\ ~ (k - 1 < PositionOf(id))
          /\ (k - 1) + 1 = k
      BY <1>1, <2>1, <2>6
    <3>2. registry'[k - 1] = registry[k]
      BY <2>2, <3>1
    <3> QED
      BY <2>2, <2>3, <3>1, <3>2 DEF HasId
  <2> QED
    BY <1>1, <2>1, <2>4, <2>5, <2>6
<1> QED
  BY <1>2, <1>3

LEMMA RegistryLogs ==
  ASSUME TypeOK, [Next]_vars
  PROVE  RegistryIsLogged
<1>1. LogKept
  <2>1. CASE UNCHANGED log
    BY <2>1 DEF LogKept
  <2> QED
    BY <2>1, StepLogs, LogAppends
<1>2. ASSUME UNCHANGED registry
      PROVE  RegistryIsLogged
  BY <1>1, <1>2 DEF RegistryIsLogged, HasId, Registered
<1>3. CASE UnregisterRemoves
  <2>1. /\ Unregister(Top.id)
        /\ log' = Append(log, PluginEvent("unregistered", Top.id))
    BY <1>3 DEF UnregisterRemoves, Publish
  <2>2. Announces("unregistered", Top.id)
    <3>1. PICK event : event = PluginEvent("unregistered", Top.id)
      OBVIOUS
    <3>2. event.type = "unregistered" /\ event.id = Top.id
      BY <3>1 DEF PluginEvent
    <3> QED
      BY <2>1, <3>1, <3>2, LogAppends
  <2>3. \A id : HasId(id) /\ ~ HasId(id)' => id = Top.id
    BY <2>1, OtherIdsStay
  <2>4. ~ RegisterInserts
    BY <1>3 DEF UnregisterRemoves, RegisterInserts, Returned, At, On
  <2>5. Registered' \subseteq Registered
    BY <2>4, RegistryStep
  <2> QED
    BY <1>1, <2>2, <2>3, <2>5 DEF RegistryIsLogged
<1>4. CASE RegisterInserts
  <2>1. /\ registry' = Append(registry, Top.plugin)
        /\ log' = Append(log, PluginEvent("registered", Id[Top.plugin]))
    BY <1>4 DEF RegisterInserts, Register, Publish
  <2>2. /\ Registered' = Registered \cup {Top.plugin}
        /\ Top \in RegisterFrame /\ ~ HasId(Id[Top.plugin])
    BY <1>4, RegistryStep
  <2>3. Announces("registered", Id[Top.plugin])
    <3>1. PICK event : event = PluginEvent("registered", Id[Top.plugin])
      OBVIOUS
    <3>2. event.type = "registered" /\ event.id = Id[Top.plugin]
      BY <3>1 DEF PluginEvent
    <3> QED
      BY <2>1, <3>1, <3>2, LogAppends
  <2>4. ASSUME NEW id, HasId(id)
        PROVE  HasId(id)'
    <3>1. PICK n \in Nat : n = Len(registry) /\ DOMAIN registry = 1 .. n
      BY LenProperties DEF TypeOK
    <3>2. PICK k \in 1 .. n : Id[registry[k]] = id
      BY <2>4, <3>1 DEF HasId
    <3>3. Top.plugin \in Plugins
      BY <2>2 DEF RegisterFrame
    <3>4. /\ DOMAIN registry' = 1 .. n + 1
          /\ \A j \in 1 .. n : registry'[j] = registry[j]
      BY <2>1, <3>1, <3>3, AppendProperties, LenProperties DEF TypeOK
    <3>5. k \in 1 .. n + 1
      BY <3>1, <3>2
    <3> QED
      BY <3>2, <3>4, <3>5 DEF HasId
  <2> QED
    BY <1>1, <2>2, <2>3, <2>4 DEF RegistryIsLogged
<1> QED
  BY <1>2, <1>3, <1>4
     DEF Next, UserCalls, DirectCalls, UserEnds, Kernel, Transitions, vars,
         kernelVars, OnlyControl, CallSubscribe, CallUnsubscribe, CallClear,
         CallRegister, CallLoad, CallUnregister, CallShutdown, CallExecute,
         CallExecuteCapability, BeginExecution, UserResumes, UserPropagates,
         UserReturns, UserRaises, DeliverNext, RegisterRollsBack,
         LoadNext, ShutdownNext, ExecuteCallsPlugin, ExecuteMisreads,
         ExecuteFails, ExecuteCompletes, Returns, Reraises, Unwind

-----------------------------------------------------------------------------
(* Who executes a routed request.  The plugin is looked up by its id again *)
(* when the subscribers of STARTED have run: until then either what is     *)
(* registered under the id supports the capability, or the id was given up *)
(* since STARTED, and perhaps taken again.                                 *)

(* An execution whose frame a step leaves alone, with the call it waits    *)
(* for.                                                                    *)
Carried(i) ==
  /\ i \in 1 .. Height /\ stack'[i] = stack[i]
  /\ stack[i].fn = "execute" /\ stack[i].pc = "running" /\ i < Height'
       => i < Height /\ stack'[i + 1] = stack[i + 1]

LEMMA CarriedFrames ==
  ASSUME TypeOK, NestInv
  PROVE  /\ UNCHANGED stack => \A i \in 1 .. Height' : Carried(i)
         /\ control = "user" /\ Reshapes(Height, Height') =>
              \A i \in 1 .. Height : Carried(i)
         /\ Pops => \A i \in 1 .. Height' : Carried(i)
         /\ Top.fn # "callback" /\ Reshapes(Height - 1, Height') =>
              \A i \in 1 .. Height - 1 : Carried(i)
<1>1. Height \in Nat /\ Top = stack[Height]
  BY StackIndices
<1>2. ASSUME UNCHANGED stack, NEW i \in 1 .. Height'
      PROVE  Carried(i)
  <2>1. Height' = Height
    BY <1>2 DEF Height
  <2>2. QED
    BY <1>2, <2>1 DEF Carried
<1>3. ASSUME control = "user", Reshapes(Height, Height'), NEW i \in 1 .. Height
      PROVE  Carried(i)
  <2>1. \A j \in 1 .. Height : stack'[j] = stack[j]
    BY <1>3 DEF Reshapes
  <2>2. CASE i = Height
    <3>1. stack[i].fn = "callback"
      BY <1>1, <1>3, <2>2 DEF NestInv
    <3>2. QED
      BY <2>1, <3>1 DEF Carried
  <2>3. CASE i # Height
    <3>1. i < Height /\ i + 1 \in 1 .. Height
      BY <1>1, <2>3
    <3>2. QED
      BY <2>1, <3>1 DEF Carried
  <2>4. QED
    BY <2>2, <2>3
<1>4. ASSUME Pops, NEW i \in 1 .. Height'
      PROVE  Carried(i)
  <2>1. Height' = Height - 1 /\ \A j \in 1 .. Height - 1 : stack'[j] = stack[j]
    BY <1>4 DEF Pops, Reshapes, Height
  <2>2. i \in 1 .. Height /\ i < Height
    BY <1>1, <2>1
  <2>3. i < Height' => i + 1 \in 1 .. Height - 1
    BY <1>1, <2>1
  <2>4. QED
    BY <2>1, <2>2, <2>3 DEF Carried
<1>5. ASSUME Top.fn # "callback", Reshapes(Height - 1, Height'),
             NEW i \in 1 .. Height - 1
      PROVE  Carried(i)
  <2>1. \A j \in 1 .. Height - 1 : stack'[j] = stack[j]
    BY <1>5 DEF Reshapes
  <2>2. i \in 1 .. Height /\ i < Height
    BY <1>1
  <2>3. CASE i + 1 = Height
    <3>1. CalledBy(stack[i], Top)
      BY <1>1, <2>3 DEF NestInv
    <3>2. ~ (stack[i].fn = "execute" /\ stack[i].pc = "running")
      BY <1>5, <3>1 DEF CalledBy
    <3>3. QED
      BY <2>1, <2>2, <3>2 DEF Carried
  <2>4. CASE i + 1 # Height
    <3>1. i + 1 \in 1 .. Height - 1
      BY <1>1, <2>4
    <3>2. QED
      BY <2>1, <2>2, <3>1 DEF Carried
  <2>5. QED
    BY <2>3, <2>4
<1>6. QED
  BY <1>2, <1>3, <1>4, <1>5

Vacated(run, id) ==
  \E s, u \in DOMAIN log :
    /\ s < u
    /\ log[s].type = "started" /\ log[s].run = run
    /\ log[u].type = "unregistered" /\ log[u].id = id

Supported(id, capability) ==
  /\ HasId(id)
  /\ \A p \in Registered : Id[p] = id => capability \in Supports[p]

RouteHeld(run, id, capability) ==
  \/ Supported(id, capability)
  \/ ~ HasId(id) /\ Vacated(run, id)
  \/ ReplacedSince(run, id)

RouteKept(i) ==
  stack[i].fn = "execute" /\ stack[i].routed =>
    /\ stack[i].pc = "started" =>
         RouteHeld(stack[i].run, stack[i].id, stack[i].capability)
    /\ stack[i].pc = "running" /\ i < Height =>
         \/ stack[i].capability \in Supports[stack[i + 1].who]
         \/ ReplacedSince(stack[i].run, stack[i].id)

RouteInv == \A i \in 1 .. Height : RouteKept(i)

(* The events a replacement consists of stay where they are in the log.    *)
LEMMA ReplacedStays ==
  ASSUME LogKept
  PROVE  /\ \A run, id : ReplacedSince(run, id) => ReplacedSince(run, id)'
         /\ \A run, id : Vacated(run, id) => Vacated(run, id)'
BY DEF LogKept, ReplacedSince, Vacated

LEMMA HeldStays ==
  ASSUME TypeOK, RegistryIsLogged, NEW run, NEW id, NEW capability,
         StartedIn(log, run, id), RouteHeld(run, id, capability)
  PROVE  RouteHeld(run, id, capability)'
<1>1. LogKept
  BY DEF RegistryIsLogged
<1>2. DOMAIN log = 1 .. Len(log) /\ Len(log) \in Nat
  BY LenProperties DEF TypeOK
<1>3. CASE Supported(id, capability)
  <2>1. CASE HasId(id)'
    <3>1. ASSUME NEW p \in Registered', Id[p] = id
          PROVE  capability \in Supports[p]
      BY <1>3, <3>1 DEF RegistryIsLogged, Supported
    <3> QED
      BY <2>1, <3>1 DEF RouteHeld, Supported
  <2>2. CASE ~ HasId(id)'
    <3>1. PICK s \in DOMAIN log :
            log[s].type = "started" /\ log[s].run = run
      BY DEF StartedIn
    <3>2. Announces("unregistered", id)
      BY <1>3, <2>2 DEF RegistryIsLogged, Supported
    <3>3. PICK u \in DOMAIN log' :
            /\ \A i \in DOMAIN log : i < u
            /\ log'[u].type = "unregistered" /\ log'[u].id = id
      BY <3>2 DEF Announces
    <3>4. s \in DOMAIN log' /\ log'[s] = log[s] /\ s < u
      BY <1>1, <3>1, <3>3 DEF LogKept
    <3>5. Vacated(run, id)'
      BY <3>1, <3>3, <3>4 DEF Vacated
    <3> QED
      BY <2>2, <3>5 DEF RouteHeld
  <2> QED
    BY <2>1, <2>2
<1>4. CASE ~ HasId(id) /\ Vacated(run, id)
  <2>1. CASE HasId(id)'
    <3>1. PICK p \in Registered' : Id[p] = id
      BY <2>1 DEF HasId, Registered
    <3>2. p \notin Registered
      BY <1>4, <3>1 DEF HasId, Registered
    <3>3. Announces("registered", id)
      BY <3>1, <3>2 DEF RegistryIsLogged
    <3>4. PICK r \in DOMAIN log' :
            /\ \A i \in DOMAIN log : i < r
            /\ log'[r].type = "registered" /\ log'[r].id = id
      BY <3>3 DEF Announces
    <3>5. PICK s \in DOMAIN log, u \in DOMAIN log :
            /\ s < u
            /\ log[s].type = "started" /\ log[s].run = run
            /\ log[u].type = "unregistered" /\ log[u].id = id
      BY <1>4 DEF Vacated
    <3>6. /\ s \in DOMAIN log' /\ log'[s] = log[s]
          /\ u \in DOMAIN log' /\ log'[u] = log[u] /\ u < r
      BY <1>1, <3>4, <3>5 DEF LogKept
    <3>7. ReplacedSince(run, id)'
      BY <3>4, <3>5, <3>6 DEF ReplacedSince
    <3> QED
      BY <3>7 DEF RouteHeld
  <2>2. CASE ~ HasId(id)'
    BY <1>1, <1>4, <2>2, ReplacedStays DEF RouteHeld
  <2> QED
    BY <2>1, <2>2
<1>5. CASE ReplacedSince(run, id)
  BY <1>1, <1>5, ReplacedStays DEF RouteHeld
<1> QED
  BY <1>3, <1>4, <1>5 DEF RouteHeld

LEMMA RouteCarried ==
  ASSUME TypeOK, RunsInv, RouteInv, RegistryIsLogged, NEW i, Carried(i)
  PROVE  RouteKept(i)'
<1>1. /\ i \in 1 .. Height /\ i \in DOMAIN stack /\ stack'[i] = stack[i]
      /\ RouteKept(i)
  BY StackIndices DEF Carried, RouteInv
<1>2. PICK run, id, capability :
        /\ run = stack[i].run /\ id = stack[i].id
        /\ capability = stack[i].capability
  OBVIOUS
<1>3. SUFFICES ASSUME stack[i].fn = "execute", stack[i].routed
               PROVE  /\ stack[i].pc = "started" =>
                           RouteHeld(run, id, capability)'
                      /\ stack[i].pc = "running" /\ i < Height' =>
                           \/ capability \in Supports[stack'[i + 1].who]
                           \/ ReplacedSince(run, id)'
  BY <1>1, <1>2
     DEF RouteKept, RouteHeld, Supported, Vacated, ReplacedSince
<1>4. ASSUME stack[i].pc = "started"
      PROVE  RouteHeld(run, id, capability)'
  <2>1. StartedIn(log, run, id)
    BY <1>1, <1>2, <1>3 DEF RunsInv, IsExecution
  <2>2. RouteHeld(run, id, capability)
    BY <1>1, <1>2, <1>3, <1>4 DEF RouteKept
  <2> QED
    BY <2>1, <2>2, HeldStays
<1>5. ASSUME stack[i].pc = "running", i < Height'
      PROVE  \/ capability \in Supports[stack'[i + 1].who]
             \/ ReplacedSince(run, id)'
  <2>1. i < Height /\ stack'[i + 1] = stack[i + 1]
    BY <1>1, <1>3, <1>5 DEF Carried
  <2>2. \/ capability \in Supports[stack[i + 1].who]
        \/ ReplacedSince(run, id)
    BY <1>1, <1>2, <1>3, <1>5, <2>1 DEF RouteKept
  <2> QED
    BY <2>1, <2>2, ReplacedStays DEF RegistryIsLogged
<1> QED
  BY <1>4, <1>5

(* A step keeps the invariant if the frame it changes or pushes first      *)
(* does, and the others it pushes are no executions.                       *)
LEMMA RoutePush ==
  ASSUME TypeOK, NestInv, RunsInv, RouteInv, RegistryIsLogged,
         control = "user",
         NEW k, k = Height + 1,
         NEW f, stack'[k] = f, f.fn = "execute" => RouteKept(k)'
  PROVE  /\ Pushes1(f) => RouteInv'
         /\ \A g : Pushes2(f, g) /\ g.fn # "execute" => RouteInv'
<1>1. Height \in Nat
  BY StackIndices
<1>2. ASSUME Reshapes(Height, Height'),
             \A i \in Height + 2 .. Height' : stack'[i].fn # "execute",
             NEW i \in 1 .. Height'
      PROVE  RouteKept(i)'
  <2>1. CASE i \in 1 .. Height
    BY <1>2, <2>1, CarriedFrames, RouteCarried
  <2>2. CASE i = Height + 1
    <3>1. f.fn # "execute" => RouteKept(i)'
      BY <2>2 DEF RouteKept
    <3>2. QED
      BY <2>2, <3>1
  <2>3. CASE i \notin 1 .. Height /\ i # Height + 1
    <3>1. i \in Height + 2 .. Height'
      BY <1>1, <2>3
    <3>2. QED
      BY <1>2, <3>1 DEF RouteKept
  <2>4. QED
    BY <2>1, <2>2, <2>3
<1>3. ASSUME Pushes1(f)
      PROVE  RouteInv'
  <2>1. /\ Height' = Height + 1 /\ Reshapes(Height, Height')
        /\ Height + 2 .. Height' = {}
    BY <1>1, <1>3 DEF Pushes1, Reshapes, Height
  <2>2. QED
    BY <1>2, <2>1 DEF RouteInv
<1>4. ASSUME NEW g, Pushes2(f, g), g.fn # "execute"
      PROVE  RouteInv'
  <2>1. /\ Height' = Height + 2 /\ Reshapes(Height, Height')
        /\ stack'[Height + 2] = g
    BY <1>4 DEF Pushes2, Reshapes, Height
  <2>2. \A i \in Height + 2 .. Height' : i = Height + 2
    BY <1>1, <2>1
  <2>3. QED
    BY <1>2, <1>4, <2>1, <2>2 DEF RouteInv
<1>5. QED
  BY <1>3, <1>4

LEMMA RouteResume ==
  ASSUME TypeOK, NestInv, RunsInv, RouteInv, RegistryIsLogged,
         Top.fn # "callback", NEW k, k = Height,
         NEW f, stack'[k] = f, f.fn = "execute" => RouteKept(k)'
  PROVE  /\ Resumes(f) => RouteInv'
         /\ \A g : ResumesAndCalls(f, g) /\ g.fn # "execute" => RouteInv'
         /\ \A g, h : ResumesAndCalls2(f, g, h) /\ g.fn # "execute"
                      /\ h.fn # "execute" => RouteInv'
<1>1. Height \in Nat
  BY StackIndices
<1>2. ASSUME Reshapes(Height - 1, Height'),
             \A i \in Height + 1 .. Height' : stack'[i].fn # "execute",
             NEW i \in 1 .. Height'
      PROVE  RouteKept(i)'
  <2>1. CASE i \in 1 .. Height - 1
    BY <1>2, <2>1, CarriedFrames, RouteCarried
  <2>2. CASE i = Height
    <3>1. f.fn # "execute" => RouteKept(i)'
      BY <2>2 DEF RouteKept
    <3>2. QED
      BY <2>2, <3>1
  <2>3. CASE i \notin 1 .. Height - 1 /\ i # Height
    <3>1. i \in Height + 1 .. Height'
      BY <1>1, <2>3
    <3>2. QED
      BY <1>2, <3>1 DEF RouteKept
  <2>4. QED
    BY <2>1, <2>2, <2>3
<1>3. ASSUME Resumes(f)
      PROVE  RouteInv'
  <2>1. /\ Height' = Height /\ Reshapes(Height - 1, Height')
        /\ Height + 1 .. Height' = {}
    BY <1>1, <1>3 DEF Resumes, Reshapes, Height
  <2>2. QED
    BY <1>2, <2>1 DEF RouteInv
<1>4. ASSUME NEW g, ResumesAndCalls(f, g), g.fn # "execute"
      PROVE  RouteInv'
  <2>1. /\ Height' = Height + 1 /\ Reshapes(Height - 1, Height')
        /\ stack'[Height + 1] = g
    BY <1>4 DEF ResumesAndCalls, Reshapes, Height
  <2>2. \A i \in Height + 1 .. Height' : i = Height + 1
    BY <1>1, <2>1
  <2>3. QED
    BY <1>2, <1>4, <2>1, <2>2 DEF RouteInv
<1>5. ASSUME NEW g, NEW h, ResumesAndCalls2(f, g, h), g.fn # "execute",
             h.fn # "execute"
      PROVE  RouteInv'
  <2>1. /\ Height' = Height + 2 /\ Reshapes(Height - 1, Height')
        /\ stack'[Height + 1] = g /\ stack'[Height + 2] = h
    BY <1>5 DEF ResumesAndCalls2, Reshapes, Height
  <2>2. \A i \in Height + 1 .. Height' : i = Height + 1 \/ i = Height + 2
    BY <1>1, <2>1
  <2>3. QED
    BY <1>2, <1>5, <2>1, <2>2 DEF RouteInv
<1>6. QED
  BY <1>3, <1>4, <1>5

(* Steps that concern no execution.                                        *)
LEMMA RouteOthers ==
  ASSUME TypeOK, NestInv, RunsInv, RouteInv, RegistryIsLogged,
         NEW f, f.fn # "execute", NEW g, g.fn # "execute",
         NEW h, h.fn # "execute",
         \/ control = "user" /\ (Pushes1(f) \/ Pushes2(f, g))
         \/ /\ Top.fn # "callback"
            /\ \/ Resumes(f) \/ ResumesAndCalls(f, g)
               \/ ResumesAndCalls2(f, g, h)
  PROVE  RouteInv'
<1>1. CASE control = "user" /\ (Pushes1(f) \/ Pushes2(f, g))
  <2>1. PICK k : k = Height + 1
    OBVIOUS
  <2>2. stack'[k] = f
    BY <1>1, <2>1 DEF Pushes1, Pushes2
  <2>3. QED
    BY <1>1, <2>1, <2>2, RoutePush
<1>2. CASE /\ Top.fn # "callback"
           /\ Resumes(f) \/ ResumesAndCalls(f, g) \/ ResumesAndCalls2(f, g, h)
  <2>1. PICK k : k = Height
    OBVIOUS
  <2>2. stack'[k] = f
    BY <1>2, <2>1 DEF Resumes, ResumesAndCalls, ResumesAndCalls2
  <2>3. QED
    BY <1>2, <2>1, <2>2, RouteResume
<1>3. QED
  BY <1>1, <1>2

LEMMA RouteStep ==
  ASSUME TypeOK, NestInv, UniqueIds, RunsInv, RouteInv, [Next]_vars
  PROVE  RouteInv'
<1> USE DEF OnlyControl, On, At, Returned
<1> RegistryIsLogged
  BY RegistryLogs
<1>1. ASSUME UNCHANGED stack
      PROVE  RouteInv'
  BY <1>1, CarriedFrames, RouteCarried DEF RouteInv
<1>2. ASSUME NEW p \in Plugins, CallRegister(p)
      PROVE  RouteInv'
  <2>1. /\ Registering(p).fn # "execute"
        /\ Callback("initialize", p).fn # "execute"
    BY DEF Registering, Callback
  <2>2. control = "user"
    BY <1>2 DEF CallRegister, Make
  <2>3. QED
    BY <1>2, <2>1, <2>2, CallShapes, RouteOthers
<1>3. ASSUME NEW plugins \in Loads, CallLoad(plugins)
      PROVE  RouteInv'
  <2>1. Loading(plugins).fn # "execute"
    BY DEF Loading
  <2>2. control = "user"
    BY <1>3 DEF CallLoad, Make
  <2>3. Pushes1(Loading(plugins)) \/ UNCHANGED stack
    BY <1>3, CallShapes
  <2>4. QED
    BY <1>1, <2>1, <2>2, <2>3, RouteOthers
<1>4. ASSUME NEW id \in PluginIds, CallUnregister(id)
      PROVE  RouteInv'
  <2>1. control = "user"
    BY <1>4 DEF CallUnregister, Make
  <2>2. /\ Unregistering(id).fn # "execute"
        /\ Callback("shutdown", Lookup(id)).fn # "execute"
    BY DEF Unregistering, Callback
  <2>3. QED
    BY <1>1, <1>4, <2>1, <2>2, CallShapes, RouteOthers
<1>5. CASE CallShutdown
  <2>1. ShuttingDown.fn # "execute"
    BY DEF ShuttingDown
  <2>2. control = "user"
    BY <1>5 DEF CallShutdown, Make
  <2>3. QED
    BY <1>5, <2>1, <2>2, CallShapes, RouteOthers
<1>6. ASSUME NEW id \in PluginIds, NEW capability \in Capabilities,
             NEW routed \in BOOLEAN, control = "user",
             BeginExecution(id, capability, routed),
             routed => Supported(id, capability)
      PROVE  RouteInv'
  <2> DEFINE f == Executing(id, capability, routed)
             g == Delivery(ExecutionEvent("started", f))
  <2>1. Pushes2(f, g) /\ g.fn # "execute"
    BY <1>6, CallShapes DEF Delivery
  <2>2. UNCHANGED registry
    BY <1>6 DEF BeginExecution
  <2>3. PICK k : k = Height + 1
    OBVIOUS
  <2>4. stack'[k] = f
    BY <2>1, <2>3 DEF Pushes2
  <2>5. RouteKept(k)'
    BY <1>6, <2>2, <2>4
       DEF RouteKept, RouteHeld, Executing, Supported, HasId, Registered
  <2> HIDE DEF f, g
  <2>6. QED
    BY <1>6, <2>1, <2>3, <2>4, <2>5, RoutePush
<1>7. ASSUME NEW id \in PluginIds, NEW capability \in Capabilities,
             CallExecute(id, capability)
      PROVE  RouteInv'
  BY <1>6, <1>7 DEF CallExecute, Make
<1>8. ASSUME NEW capability \in Capabilities, CallExecuteCapability(capability)
      PROVE  RouteInv'
  <2>1. CASE UNCHANGED stack
    BY <1>1, <2>1
  <2>2. ASSUME NEW i \in FindByCapability(capability),
               BeginExecution(Id[registry[i]], capability, TRUE)
        PROVE  RouteInv'
    <3>1. i \in DOMAIN registry /\ capability \in Supports[registry[i]]
      BY <2>2 DEF FindByCapability
    <3>2. Id[registry[i]] \in PluginIds
      BY <3>1, IdAssumption, LenProperties, ElementOfSeq DEF TypeOK
    <3>3. Supported(Id[registry[i]], capability)
      BY <3>1 DEF Supported, HasId, Registered, UniqueIds
    <3>4. QED
      BY <1>6, <1>8, <2>2, <3>2, <3>3 DEF CallExecuteCapability, Make
  <2>3. QED
    BY <1>8, <2>1, <2>2 DEF CallExecuteCapability
<1>9. CASE UserCalls
  BY <1>1, <1>2, <1>3, <1>4, <1>5, <1>7, <1>8, <1>9
     DEF UserCalls, DirectCalls, CallSubscribe, CallUnsubscribe, CallClear
<1>10. CASE UserResumes
  BY <1>1, <1>10 DEF UserResumes
<1>11. CASE \/ UserPropagates \/ UserReturns \/ UserRaises \/ Returns
            \/ Reraises \/ ExecuteMisreads \/ Unwind
  BY <1>11, EndShapes, CarriedFrames, RouteCarried DEF RouteInv
<1>12. CASE DeliverNext \/ RegisterInserts \/ RegisterRollsBack \/ LoadNext
            \/ UnregisterRemoves \/ ShutdownNext
  <2>1. PICK f, g, h :
          /\ Top.fn # "callback" /\ f.fn # "execute" /\ g.fn # "execute"
          /\ h.fn # "execute"
          /\ \/ Resumes(f) \/ ResumesAndCalls(f, g)
             \/ ResumesAndCalls2(f, g, h)
    <3>1. CASE DeliverNext
      <4>1. /\ Top \in PublishFrame
            /\ ResumesAndCalls(Rest, Callback("handle", Head(Top.todo)))
        BY <3>1, KernelShapes
      <4>2. /\ Top.fn = "publish" /\ Rest.fn = "publish"
            /\ Callback("handle", Head(Top.todo)).fn = "callback"
        BY <4>1 DEF PublishFrame, Rest, Callback
      <4>3. QED
        BY <4>1, <4>2
    <3>2. CASE RegisterInserts \/ RegisterRollsBack
      <4>1. PICK pc \in {"announce", "rollback"} : \E g :
              /\ Top \in RegisterFrame
              /\ ResumesAndCalls(TopAt(pc), g)
              /\ \/ g = Delivery(PluginEvent("registered", Id[Top.plugin]))
                 \/ g = Callback("shutdown", Top.plugin)
        BY <3>2, KernelShapes
      <4>2. Top.fn = "register" /\ TopAt(pc).fn = "register"
        BY <4>1 DEF RegisterFrame, TopAt
      <4>3. PICK g : ResumesAndCalls(TopAt(pc), g) /\ g.fn # "execute"
        BY <4>1 DEF Callback, Delivery
      <4>4. QED
        BY <4>2, <4>3
    <3>3. CASE LoadNext
      <4>1. /\ Top \in LoadFrame
            /\ ResumesAndCalls2(Rest, Registering(Head(Top.todo)),
                  Callback("initialize", Head(Top.todo)))
        BY <3>3, KernelShapes
      <4>2. /\ Top.fn = "load" /\ Rest.fn = "load"
            /\ Registering(Head(Top.todo)).fn = "register"
            /\ Callback("initialize", Head(Top.todo)).fn = "callback"
        BY <4>1 DEF LoadFrame, Rest, Registering, Callback
      <4>3. QED
        BY <4>1, <4>2
    <3>4. CASE UnregisterRemoves
      <4>1. /\ Top \in UnregisterFrame
            /\ ResumesAndCalls(TopAt("announce"),
                 Delivery(PluginEvent("unregistered", Top.id)))
        BY <3>4, KernelShapes
      <4>2. /\ Top.fn = "unregister" /\ TopAt("announce").fn = "unregister"
            /\ Delivery(PluginEvent("unregistered", Top.id)).fn = "publish"
        BY <4>1 DEF UnregisterFrame, TopAt, Delivery
      <4>3. QED
        BY <4>1, <4>2
    <3>5. CASE ShutdownNext
      <4> DEFINE g == Unregistering(Head(Top.todo))
                 h == Callback("shutdown", Lookup(Head(Top.todo)))
      <4>1. /\ Top \in ShutdownFrame
            /\ ResumesAndCalls2(Rest, g, h) \/ Resumes(Rest)
        BY <3>5, KernelShapes
      <4>2. /\ Top.fn = "shutdown" /\ Rest.fn = "shutdown"
            /\ g.fn = "unregister" /\ h.fn = "callback"
        BY <4>1 DEF ShutdownFrame, Rest, Unregistering, Callback
      <4> HIDE DEF g, h
      <4>3. QED
        BY <4>1, <4>2
    <3>6. QED
      BY <1>12, <3>1, <3>2, <3>3, <3>4, <3>5
  <2>2. QED
    BY <2>1, RouteOthers
<1>13. CASE ExecuteCallsPlugin
  <2> DEFINE g == Callback("execute", Lookup(Top.id))
  <2>1. Top \in ExecuteFrame /\ ResumesAndCalls(TopAt("running"), g)
    BY <1>13, KernelShapes
  <2>2. /\ Top.fn = "execute" /\ Top.pc = "started" /\ HasId(Top.id)
        /\ UNCHANGED <<registry, log>>
    BY <1>13 DEF ExecuteCallsPlugin
  <2>3. /\ TopAt("running") = [Top EXCEPT !.pc = "running"]
        /\ TopAt("running").fn = "execute" /\ TopAt("running").pc = "running"
        /\ TopAt("running").routed <=> Top.routed
        /\ TopAt("running").capability = Top.capability
        /\ TopAt("running").run = Top.run /\ TopAt("running").id = Top.id
    BY <2>1 DEF TopAt, ExecuteFrame
  <2>4. Lookup(Top.id) \in Registered /\ Id[Lookup(Top.id)] = Top.id
    BY <2>2, LookupType, LenProperties DEF TypeOK, Lookup, Registered
  <2>5. PICK run, id : run = Top.run /\ id = Top.id
    OBVIOUS
  <2>6. Top.routed => \/ Top.capability \in Supports[Lookup(Top.id)]
                      \/ ReplacedSince(run, id)'
    <3>1. Height \in 1 .. Height /\ Top = stack[Height]
      BY <2>1, StackIndices DEF ResumesAndCalls
    <3>2. Top.routed => RouteHeld(Top.run, Top.id, Top.capability)
      BY <2>2, <3>1 DEF RouteInv, RouteKept
    <3>3. Top.routed => \/ Top.capability \in Supports[Lookup(Top.id)]
                        \/ ReplacedSince(run, id)
      BY <2>2, <2>4, <2>5, <3>2 DEF RouteHeld, Supported
    <3>4. ReplacedSince(run, id) => ReplacedSince(run, id)'
      BY ReplacedStays DEF RegistryIsLogged
    <3> QED
      BY <3>3, <3>4
  <2>7. /\ stack'[Height] = TopAt("running") /\ stack'[Height + 1] = g
        /\ g.who = Lookup(Top.id)
    BY <2>1 DEF ResumesAndCalls, Callback
  <2>8. PICK k : k = Height
    OBVIOUS
  <2>9. g.fn # "execute"
    BY DEF Callback
  <2> HIDE DEF g
  <2>10. RouteKept(k)'
    <3>1. PICK top : top = TopAt("running")
      OBVIOUS
    <3>2. /\ stack'[k] = top /\ top.pc = "running"
          /\ top.routed <=> Top.routed
          /\ top.capability = Top.capability /\ top.run = run /\ top.id = id
          /\ stack'[k + 1].who = Lookup(Top.id)
      BY <2>3, <2>5, <2>7, <2>8, <3>1
    <3> HIDE DEF TopAt, Lookup
    <3>3. top.routed => \/ top.capability \in Supports[stack'[k + 1].who]
                        \/ ReplacedSince(run, id)'
      BY <2>6, <3>2
    <3> QED
      BY <3>2, <3>3 DEF RouteKept, ReplacedSince
  <2>11. QED
    BY <2>1, <2>2, <2>7, <2>8, <2>9, <2>10, RouteResume
<1>14. CASE ExecuteFails \/ ExecuteCompletes
  <2>1. PICK pc \in {"failed", "completed"} :
          /\ Top \in ExecuteFrame
          /\ ResumesAndCalls(TopAt(pc), Delivery(ExecutionEvent(pc, Top)))
    BY <1>14, KernelShapes
  <2> DEFINE g == Delivery(ExecutionEvent(pc, Top))
  <2>2. Top.fn = "execute" /\ TopAt(pc).pc = pc /\ g.fn # "execute"
    BY <2>1 DEF TopAt, ExecuteFrame, Delivery
  <2>3. stack'[Height] = TopAt(pc) /\ ResumesAndCalls(TopAt(pc), g)
    BY <2>1 DEF ResumesAndCalls
  <2>4. PICK k : k = Height
    OBVIOUS
  <2>5. RouteKept(k)'
    BY <2>2, <2>3, <2>4 DEF RouteKept
  <2> HIDE DEF g
  <2>6. QED
    BY <2>2, <2>3, <2>4, <2>5, RouteResume
<1>15. CASE UNCHANGED vars
  BY <1>1, <1>15 DEF vars, kernelVars
<1>16. QED
  BY <1>9, <1>10, <1>11, <1>12, <1>13, <1>14, <1>15
     DEF Next, UserEnds, Kernel, Transitions

(* A routed request is executed by a plugin that supports its capability,  *)
(* although it is looked up a second time behind the subscribers of        *)
(* STARTED, unless its id was unregistered and registered again since      *)
(* STARTED.  Nothing is assumed of handlers and plugins.                   *)
THEOREM RoutedToASupporter == Spec => []ExecutorSupportsCapability
<1> DEFINE Inv == NestInv /\ RegistryInv /\ RunsInv /\ RouteInv
<1>1. Init => Inv
  <2>1. Init => RouteInv
    BY EmptySeq DEF Init, RouteInv, Height
  <2>2. Init => RegistryInv
    BY DEF Init, RegistryInv, UniqueIds, LogExplainsRegistry, HasId, Explained
  <2>3. Init => RunsInv
    BY EmptySeq DEF Init, RunsInv, OneOutcome
  <2>4. QED
    BY <2>1, <2>2, <2>3, NestInitially
<1>2. TypeOK /\ TypeOK' /\ Inv /\ [Next]_vars => Inv'
  BY NestStep, RegistryInvStep, RunsInvStep, RouteStep DEF RegistryInv
<1>3. TypeOK /\ Inv => ExecutorSupportsCapability
  <2>1. SUFFICES ASSUME TypeOK, RouteInv
                 PROVE  ExecutorSupportsCapability
    OBVIOUS
  <2>2. QED
    BY <2>1, StackIndices
       DEF ExecutorSupportsCapability, RouteInv, RouteKept, Height
<1> HIDE DEF Inv
<1>4. QED
  BY <1>1, <1>2, <1>3, TypeCorrectness, PTL DEF Spec

-----------------------------------------------------------------------------
(* A plugin that is registered was initialized.                            *)

KnownInv ==
  /\ \A p \in Registered : life[p] # "discovered"
  /\ Returned("register", "initialize") => life[Top.plugin] # "discovered"

(* No plugin is ever forgotten.                                            *)
LEMMA NeverForgotten ==
  ASSUME TypeOK, [Next]_vars
  PROVE  \A p \in Plugins : life[p] # "discovered" => life'[p] # "discovered"
<1>1. ASSUME UNCHANGED life
      PROVE  \A p \in Plugins : life[p] # "discovered" => life'[p] # "discovered"
  BY <1>1
<1>2. CASE UserReturns
  BY <1>2 DEF UserReturns, TypeOK
<1>3. QED
  BY <1>1, <1>2
     DEF Next, UserCalls, DirectCalls, UserEnds, Kernel, Transitions, vars,
         kernelVars, OnlyControl, CallSubscribe, CallUnsubscribe, CallClear,
         CallRegister, CallLoad, CallUnregister, CallShutdown, CallExecute,
         CallExecuteCapability, BeginExecution, UserResumes, UserPropagates,
         UserRaises, DeliverNext, RegisterInserts, RegisterRollsBack,
         LoadNext, UnregisterRemoves, ShutdownNext, ExecuteCallsPlugin,
         ExecuteFails, ExecuteCompletes, Returns, Reraises, ExecuteMisreads, Unwind

(* An id that is removed is not registered any more, as no two plugins of  *)
(* the registry have the same.                                             *)
LEMMA RemovedIsGone ==
  ASSUME TypeOK, UniqueIds, NEW id, Unregister(id)
  PROVE  \A p \in Registered' : Id[p] # id
<1>1. PICK n \in Nat : n = Len(registry) /\ DOMAIN registry = 1 .. n
  BY LenProperties DEF TypeOK
<1>2. CASE ~ HasId(id)
  BY <1>2 DEF Unregister, HasId, Registered
<1>3. CASE HasId(id)
  <2>1. /\ PositionOf(id) \in 1 .. n
        /\ Id[registry[PositionOf(id)]] = id
        /\ registry' = RemoveAt(registry, PositionOf(id))
    BY <1>1, <1>3, LookupType DEF Unregister, TypeOK, Lookup
  <2>2. /\ DOMAIN registry' = 1 .. n - 1
        /\ \A j \in 1 .. n - 1 :
             registry'[j] = IF j < PositionOf(id) THEN registry[j]
                            ELSE registry[j + 1]
    BY <1>1, <2>1, RegistryRemoveAt
  <2>3. ASSUME NEW j \in 1 .. n - 1
        PROVE  Id[registry'[j]] # id
    <3>1. j \in 1 .. n /\ j + 1 \in 1 .. n
      BY <1>1
    <3>2. CASE j < PositionOf(id)
      BY <1>1, <2>1, <2>2, <3>1, <3>2 DEF UniqueIds
    <3>3. CASE ~ (j < PositionOf(id))
      <4>1. j + 1 # PositionOf(id)
        BY <2>1, <3>3
      <4>2. QED
        BY <1>1, <2>1, <2>2, <3>1, <3>3, <4>1 DEF UniqueIds
    <3>4. QED
      BY <3>2, <3>3
  <2>4. QED
    BY <2>2, <2>3 DEF Registered
<1>4. QED
  BY <1>2, <1>3

(* A kernel function goes on by returning only when its callee did.        *)
LEMMA ReturnStep ==
  ASSUME TypeOK, NestInv, [Next]_vars, Returned("register", "initialize")'
  PROVE  \/ UNCHANGED vars
         \/ /\ UserReturns /\ Top = Callback("initialize", Top'.plugin)
            /\ Top'.plugin \in Plugins
<1> USE DEF On, At, Returned, OnlyControl
<1>0. TypeOK' /\ NestInv'
  BY TypeOKStep, NestStep
<1>1. /\ Height' \in Nat \ {0} /\ Top' = stack'[Height']
      /\ Top' \in Frame /\ Top'.fn = "register" /\ Top'.pc = "initialize"
      /\ control' = "return"
  <2>1. stack' \in Seq(Frame) /\ stack' # << >>
    BY <1>0 DEF TypeOK
  <2> HIDE DEF Frame
  <2>2. QED
    BY <2>1, EmptySeq, LenProperties, ElementOfSeq DEF Top, Height
<1>2. Top'.plugin \in Plugins
  BY <1>1, FrameOf DEF RegisterFrame
<1>3. ASSUME NEW f, f.fn # "register",
             Pushes1(f) \/ Resumes(f)
      PROVE  FALSE
  BY <1>1, <1>3 DEF Pushes1, Resumes, Reshapes, Height
<1>4. ASSUME NEW f, NEW g, g.fn # "register",
             Pushes2(f, g) \/ ResumesAndCalls(f, g)
      PROVE  FALSE
  BY <1>1, <1>4 DEF Pushes2, ResumesAndCalls, Reshapes, Height
<1>5. ASSUME Pops
      PROVE  Top = Callback("initialize", Top'.plugin)
  <2>1. /\ Height \in Nat /\ Height' = Height - 1
        /\ Top' = stack[Height - 1] /\ Height - 1 \in 1 .. Height - 1
        /\ Top = stack[(Height - 1) + 1]
    BY <1>1, <1>5, StackIndices DEF Pops, Reshapes, Height
  <2>2. CalledBy(Top', Top)
    BY <2>1 DEF NestInv
  <2>3. QED
    BY <1>1, <2>2 DEF CalledBy
<1>6. ~ DeliverNext /\ ~ RegisterRollsBack /\ ~ LoadNext /\ ~ ExecuteCallsPlugin
  BY <1>1 DEF DeliverNext, RegisterRollsBack, LoadNext, ExecuteCallsPlugin,
              CallUser
<1>7. ~ RegisterInserts /\ ~ UnregisterRemoves /\ ~ ExecuteFails
      /\ ~ ExecuteCompletes
  BY <1>4, KernelShapes DEF Delivery
<1>8. ~ ShutdownNext
  <2>1. SUFFICES ASSUME ShutdownNext
                 PROVE  FALSE
    OBVIOUS
  <2>2. Top \in ShutdownFrame /\ Resumes(Rest)
    BY <1>1, <2>1, KernelShapes
  <2>3. Rest.fn = "shutdown"
    BY <2>2 DEF Rest, ShutdownFrame
  <2>4. QED
    BY <1>3, <2>2, <2>3
<1>9. ~ Returns /\ ~ Reraises /\ ~ ExecuteMisreads /\ ~ Unwind
  <2>1. SUFFICES ASSUME Returns \/ Reraises \/ ExecuteMisreads \/ Unwind
                 PROVE  FALSE
    OBVIOUS
  <2>2. Top.fn = "callback"
    BY <1>5, <2>1, EndShapes DEF Callback
  <2>3. QED
    BY <1>1, <2>1, <2>2 DEF Returns, Reraises, ExecuteMisreads, Unwind, Leave
<1>10. ~ UserResumes /\ ~ UserPropagates /\ ~ UserRaises
  BY <1>1 DEF UserResumes, UserPropagates, UserRaises, Leave
<1>11. ASSUME NEW id \in PluginIds, NEW capability \in Capabilities,
              NEW routed \in BOOLEAN, BeginExecution(id, capability, routed)
       PROVE  FALSE
  <2> DEFINE f == Executing(id, capability, routed)
             g == Delivery(ExecutionEvent("started", f))
  <2>1. Pushes2(f, g) /\ g.fn # "register"
    BY <1>11, CallShapes DEF Delivery
  <2> HIDE DEF f, g
  <2>2. QED
    BY <1>4, <2>1
<1>12. ASSUME UserCalls
       PROVE  FALSE
  <2>1. ASSUME control = "user", control' # "return"
        PROVE  FALSE
    BY <1>1, <2>1
  <2>2. ASSUME NEW plugins \in Loads, CallLoad(plugins)
        PROVE  FALSE
    <3>1. Pushes1(Loading(plugins)) /\ Loading(plugins).fn = "load"
      BY <1>1, <2>2, CallShapes DEF Loading
    <3>2. QED
      BY <1>3, <3>1
  <2>3. ASSUME CallShutdown
        PROVE  FALSE
    <3>1. Pushes1(ShuttingDown) /\ ShuttingDown.fn = "shutdown"
      BY <2>3, CallShapes DEF ShuttingDown
    <3>2. QED
      BY <1>3, <3>1
  <2>4. \A i \in DOMAIN registry : Id[registry[i]] \in PluginIds
    BY IdAssumption, LenProperties, ElementOfSeq DEF TypeOK
  <2>5. ASSUME NEW capability \in Capabilities,
               CallExecuteCapability(capability)
        PROVE  FALSE
    BY <1>1, <1>11, <2>4, <2>5 DEF CallExecuteCapability, FindByCapability
  <2>6. QED
    BY <1>1, <1>11, <1>12, <2>1, <2>2, <2>3, <2>5
       DEF UserCalls, DirectCalls, CallSubscribe, CallUnsubscribe, CallClear,
           CallRegister, CallUnregister, CallExecute, CallUser, Make
<1>13. QED
  BY <1>2, <1>5, <1>6, <1>7, <1>8, <1>9, <1>10, <1>12, EndShapes
     DEF Next, UserEnds, Kernel, Transitions

LEMMA KnownStep ==
  ASSUME TypeOK, NestInv, KnownInv, [Next]_vars
  PROVE  KnownInv'
<1>1. \A p \in Plugins : life[p] # "discovered" => life'[p] # "discovered"
  BY NeverForgotten
<1>2. Registered \subseteq Plugins
  BY RegisteredIdsType DEF TypeOK
<1>3. ASSUME NEW p \in Registered'
      PROVE  life'[p] # "discovered"
  <2>1. CASE p \in Registered
    BY <1>1, <1>2, <2>1 DEF KnownInv
  <2>2. CASE p \notin Registered
    <3>1. RegisterInserts /\ p = Top.plugin /\ Top \in RegisterFrame
      BY <1>3, <2>2, RegistryStep
    <3>2. life[p] # "discovered" /\ p \in Plugins
      BY <3>1 DEF RegisterInserts, KnownInv, RegisterFrame
    <3>3. QED
      BY <1>1, <3>2
  <2>3. QED
    BY <2>1, <2>2
<1>4. ASSUME Returned("register", "initialize")'
      PROVE  life'[Top'.plugin] # "discovered"
  <2>1. CASE UNCHANGED vars
    BY <1>4, <2>1
       DEF vars, kernelVars, KnownInv, Returned, At, On, Top
  <2>2. CASE /\ UserReturns /\ Top = Callback("initialize", Top'.plugin)
             /\ Top'.plugin \in Plugins
    <3>1. Top.kind = "initialize" /\ Top.who = Top'.plugin
      BY <2>2 DEF Callback
    <3>2. life' = [life EXCEPT ![Top'.plugin] = "running"]
      BY <2>2, <3>1 DEF UserReturns
    <3>3. QED
      BY <2>2, <3>2 DEF TypeOK
  <2>3. QED
    BY <1>4, <2>1, <2>2, ReturnStep
<1>5. QED
  BY <1>3, <1>4 DEF KnownInv

-----------------------------------------------------------------------------
(* What shutdown leaves.  Each plugin it found registered and that still   *)
(* is has its id ahead in the loop, or is being removed by the call above, *)
(* or the loop was broken off by an exception; and what is registered      *)
(* meanwhile is new, so that none of them can come back.                   *)

Harmless(f, managed) ==
  /\ f.fn = "register" /\ f.pc = "initialize" => f.plugin \notin managed
  /\ f.fn = "load" => \A k \in DOMAIN f.todo : f.todo[k] \notin managed

ShutKept(i) ==
  stack[i].fn = "shutdown" =>
    /\ \A p \in stack[i].managed : life[p] # "discovered"
    /\ \A j \in i + 1 .. Height : Harmless(stack[j], stack[i].managed)
    /\ \A p \in stack[i].managed \cap Registered :
         \/ \E k \in DOMAIN stack[i].todo : stack[i].todo[k] = Id[p]
         \/ /\ i < Height
            /\ stack[i + 1].pc = "shutdown" /\ stack[i + 1].id = Id[p]
         \/ i = Height /\ control = "raise"

ShutInv == \A i \in 1 .. Height : ShutKept(i)

Alive == \A p \in Plugins : life[p] # "discovered" => life'[p] # "discovered"

(* A shutdown call below the top of the stack.                             *)
LEMMA ShutCarried ==
  ASSUME TypeOK, NEW i \in 1 .. Height, ShutKept(i), Alive,
         stack'[i] = stack[i], i < Height, i < Height',
         stack[i].fn = "shutdown" =>
           /\ \A j \in i + 1 .. Height' :
                \/ j \in 1 .. Height /\ stack'[j] = stack[j]
                \/ Harmless(stack'[j], stack[i].managed)
           /\ \A p \in stack[i].managed \cap Registered' :
                /\ p \in Registered
                /\ stack[i + 1].pc = "shutdown" /\ stack[i + 1].id = Id[p]
                   => stack'[i + 1].pc = "shutdown" /\ stack'[i + 1].id = Id[p]
  PROVE  ShutKept(i)'
<1>1. SUFFICES ASSUME stack[i].fn = "shutdown"
               PROVE  ShutKept(i)'
  BY DEF ShutKept
<1>2. stack[i].managed \subseteq Plugins
  BY <1>1, StackIndices, FrameOf DEF ShutdownFrame
<1>3. \A p \in stack[i].managed : life'[p] # "discovered"
  BY <1>1, <1>2 DEF ShutKept, Alive
<1>4. ASSUME NEW j \in i + 1 .. Height'
      PROVE  Harmless(stack'[j], stack[i].managed)
  <2>1. CASE j \in 1 .. Height /\ stack'[j] = stack[j]
    <3>1. j \in i + 1 .. Height
      BY <2>1, StackIndices
    <3>2. QED
      BY <1>1, <2>1, <3>1 DEF ShutKept
  <2>2. QED
    BY <1>1, <1>4, <2>1
<1>5. ASSUME NEW p \in stack[i].managed \cap Registered'
      PROVE  \/ \E k \in DOMAIN stack[i].todo : stack[i].todo[k] = Id[p]
             \/ /\ i < Height'
                /\ stack'[i + 1].pc = "shutdown" /\ stack'[i + 1].id = Id[p]
  <2>1. p \in Registered
    BY <1>1, <1>5
  <2>2. \/ \E k \in DOMAIN stack[i].todo : stack[i].todo[k] = Id[p]
        \/ stack[i + 1].pc = "shutdown" /\ stack[i + 1].id = Id[p]
    BY <1>1, <1>5, <2>1, StackIndices DEF ShutKept
  <2>3. QED
    BY <1>1, <1>5, <2>2
<1>6. QED
  BY <1>3, <1>4, <1>5 DEF ShutKept

(* Steps of user code that call the kernel.                                *)
LEMMA ShutPush ==
  ASSUME TypeOK, NestInv, ShutInv, UNCHANGED <<registry, life>>,
         control = "user", Height' \in Nat, Height' > Height,
         Reshapes(Height, Height'),
         \A j \in Height + 1 .. Height' :
           /\ ShutKept(j)'
           /\ \A i \in 1 .. Height :
                stack[i].fn = "shutdown" => Harmless(stack'[j], stack[i].managed)
  PROVE  ShutInv'
<1>1. Height \in Nat /\ \A j \in 1 .. Height : stack'[j] = stack[j]
  BY StackIndices DEF Reshapes
<1>2. ASSUME NEW i \in 1 .. Height'
      PROVE  ShutKept(i)'
  <2>1. CASE i \notin 1 .. Height
    <3>1. i \in Height + 1 .. Height'
      BY <1>1, <2>1
    <3>2. QED
      BY <3>1
  <2>2. CASE i = Height
    BY <1>1, <2>2 DEF NestInv, ShutKept
  <2>3. CASE i \in 1 .. Height /\ i # Height
    <3>1. i < Height /\ i + 1 \in 1 .. Height
      BY <1>1, <2>3
    <3>2. i < Height'
      BY <1>1, <3>1
    <3>3. \A j \in i + 1 .. Height' :
            j \in 1 .. Height \/ j \in Height + 1 .. Height'
      BY <1>1, <2>3
    <3>4. Registered' = Registered /\ Alive
      BY DEF Registered, Alive
    <3>5. QED
      BY <1>1, <2>3, <3>1, <3>2, <3>3, <3>4, ShutCarried DEF ShutInv
  <2>4. QED
    BY <2>1, <2>2, <2>3
<1>3. QED
  BY <1>2 DEF ShutInv

(* A function on top ends.                                                 *)
LEMMA ShutPop ==
  ASSUME TypeOK, NestInv, ShutInv, Alive, UNCHANGED registry, Pops,
         control' # "raise" /\ Top.fn = "unregister" => Top.pc = "announce"
  PROVE  ShutInv'
<1>1. /\ Height \in Nat /\ Height # 0 /\ Height' = Height - 1
      /\ Top = stack[Height]
      /\ \A j \in 1 .. Height - 1 : stack'[j] = stack[j]
  BY StackIndices DEF Pops, Reshapes, Height
<1>2. ASSUME NEW i \in 1 .. Height'
      PROVE  ShutKept(i)'
  <2>1. /\ i \in 1 .. Height /\ i \in 1 .. Height - 1 /\ i < Height
        /\ stack'[i] = stack[i] /\ ShutKept(i)
    BY <1>1, <1>2 DEF ShutInv
  <2>2. CASE i < Height'
    <3>1. \A j \in i + 1 .. Height' : j \in 1 .. Height /\ j \in 1 .. Height - 1
      BY <1>1, <2>1
    <3>2. i + 1 \in 1 .. Height - 1
      BY <1>1, <2>1, <2>2
    <3>3. QED
      BY <1>1, <2>1, <2>2, <3>1, <3>2, ShutCarried DEF Registered
  <2>3. CASE ~ (i < Height')
    <3>1. i = Height - 1 /\ i = Height' /\ i + 1 = Height
      BY <1>1, <1>2, <2>3
    <3>2. SUFFICES ASSUME stack[i].fn = "shutdown"
                   PROVE  ShutKept(i)'
      BY <2>1 DEF ShutKept
    <3>3. stack[i].managed \subseteq Plugins
      BY <2>1, <3>2, StackIndices, FrameOf DEF ShutdownFrame
    <3>4. CalledBy(stack[i], Top) /\ Top.fn = "unregister"
      <4>1. CalledBy(stack[i], Top)
        BY <1>1, <2>1, <3>1 DEF NestInv
      <4>2. QED
        BY <3>2, <4>1 DEF CalledBy
    <3>5. \A p \in stack[i].managed : life'[p] # "discovered"
      BY <2>1, <3>2, <3>3 DEF ShutKept, Alive
    <3>6. i + 1 .. Height' = {}
      BY <1>1, <3>1
    <3>7. ASSUME NEW p \in stack[i].managed \cap Registered',
                 control' # "raise"
          PROVE  \E k \in DOMAIN stack[i].todo : stack[i].todo[k] = Id[p]
      <4>1. p \in Registered
        BY <3>7 DEF Registered
      <4>2. Top.pc = "announce"
        BY <3>4, <3>7
      <4>3. QED
        BY <1>1, <2>1, <3>1, <3>2, <3>7, <4>1, <4>2 DEF ShutKept
    <3>8. QED
      BY <2>1, <3>1, <3>5, <3>6, <3>7 DEF ShutKept
  <2>4. QED
    BY <2>2, <2>3
<1>3. QED
  BY <1>2 DEF ShutInv

(* A kernel function on top goes on.                                       *)
LEMMA ShutResume ==
  ASSUME TypeOK, NestInv, ShutInv, Alive, Top.fn # "callback",
         Height' \in Nat, Height' >= Height, Reshapes(Height - 1, Height'),
         \A j \in Height .. Height' :
           /\ ShutKept(j)'
           /\ \A i \in 1 .. Height - 1 :
                stack[i].fn = "shutdown" => Harmless(stack'[j], stack[i].managed),
         \A i \in 1 .. Height - 1 : stack[i].fn = "shutdown" =>
           \A p \in stack[i].managed \cap Registered' :
             /\ p \in Registered
             /\ i + 1 = Height => ~ (Top.pc = "shutdown" /\ Top.id = Id[p])
  PROVE  ShutInv'
<1>1. /\ Height \in Nat /\ Top = stack[Height]
      /\ \A j \in 1 .. Height - 1 : stack'[j] = stack[j]
  BY StackIndices DEF Reshapes
<1>2. ASSUME NEW i \in 1 .. Height'
      PROVE  ShutKept(i)'
  <2>1. CASE i \notin 1 .. Height - 1
    <3>1. i \in Height .. Height'
      BY <1>1, <2>1
    <3>2. QED
      BY <3>1
  <2>2. CASE i \in 1 .. Height - 1
    <3>1. /\ i \in 1 .. Height /\ i < Height /\ i < Height'
          /\ stack'[i] = stack[i] /\ ShutKept(i)
      BY <1>1, <2>2 DEF ShutInv
    <3>2. \A j \in i + 1 .. Height' :
            \/ j \in 1 .. Height - 1 /\ j \in 1 .. Height
            \/ j \in Height .. Height'
      BY <1>1, <2>2
    <3>3. i + 1 \in 1 .. Height - 1 \/ i + 1 = Height
      BY <1>1, <2>2
    <3>4. QED
      BY <1>1, <2>2, <3>1, <3>2, <3>3, ShutCarried
  <2>3. QED
    BY <2>1, <2>2
<1>3. QED
  BY <1>2 DEF ShutInv

HarmlessAbove(k, f) ==
  \A i \in 1 .. k :
    stack[i].fn = "shutdown" => Harmless(f, stack[i].managed)

LEMMA ShutPushOthers ==
  ASSUME TypeOK, NestInv, ShutInv, UNCHANGED <<registry, life>>,
         control = "user",
         NEW f, f.fn # "shutdown", HarmlessAbove(Height, f),
         NEW g, g.fn # "shutdown", HarmlessAbove(Height, g),
         Pushes1(f) \/ Pushes2(f, g)
  PROVE  ShutInv'
<1>1. Height \in Nat
  BY StackIndices
<1>2. /\ Height' \in Nat /\ Height' > Height /\ Reshapes(Height, Height')
      /\ \A j \in Height + 1 .. Height' : stack'[j] = f \/ stack'[j] = g
  <2>1. CASE Pushes1(f)
    <3>1. Height' = Height + 1 /\ stack'[Height + 1] = f
          /\ Reshapes(Height, Height')
      BY <2>1 DEF Pushes1, Reshapes, Height
    <3>2. \A j \in Height + 1 .. Height' : j = Height + 1
      BY <1>1, <3>1
    <3>3. QED
      BY <1>1, <3>1, <3>2
  <2>2. CASE Pushes2(f, g)
    <3>1. Height' = Height + 2 /\ stack'[Height + 1] = f
          /\ stack'[Height + 2] = g /\ Reshapes(Height, Height')
      BY <2>2 DEF Pushes2, Reshapes, Height
    <3>2. \A j \in Height + 1 .. Height' : j = Height + 1 \/ j = Height + 2
      BY <1>1, <3>1
    <3>3. QED
      BY <1>1, <3>1, <3>2
  <2>3. QED
    BY <2>1, <2>2
<1>3. ASSUME NEW j \in Height + 1 .. Height'
      PROVE  /\ ShutKept(j)'
             /\ \A i \in 1 .. Height : stack[i].fn = "shutdown"
                                       => Harmless(stack'[j], stack[i].managed)
  BY <1>2, <1>3 DEF ShutKept, HarmlessAbove
<1>4. QED
  BY <1>2, <1>3, ShutPush

LEMMA ShutResumeOthers ==
  ASSUME TypeOK, NestInv, ShutInv, Alive, Top.fn # "callback",
         NEW f, f.fn # "shutdown", HarmlessAbove(Height - 1, f),
         NEW g, g.fn # "shutdown", HarmlessAbove(Height - 1, g),
         NEW h, h.fn # "shutdown", HarmlessAbove(Height - 1, h),
         ResumesAndCalls(f, g) \/ ResumesAndCalls2(f, g, h),
         \A i \in 1 .. Height - 1 : stack[i].fn = "shutdown" =>
           \A p \in stack[i].managed \cap Registered' :
             /\ p \in Registered
             /\ i + 1 = Height => ~ (Top.pc = "shutdown" /\ Top.id = Id[p])
  PROVE  ShutInv'
<1>1. Height \in Nat
  BY StackIndices
<1>2. /\ Height' \in Nat /\ Height' >= Height /\ Reshapes(Height - 1, Height')
      /\ \A j \in Height .. Height' :
           stack'[j] = f \/ stack'[j] = g \/ stack'[j] = h
  <2>1. CASE ResumesAndCalls(f, g)
    <3>1. Height' = Height + 1 /\ stack'[Height] = f
          /\ stack'[Height + 1] = g /\ Reshapes(Height - 1, Height')
      BY <2>1 DEF ResumesAndCalls, Reshapes, Height
    <3>2. \A j \in Height .. Height' : j = Height \/ j = Height + 1
      BY <1>1, <3>1
    <3>3. QED
      BY <1>1, <3>1, <3>2
  <2>2. CASE ResumesAndCalls2(f, g, h)
    <3>1. Height' = Height + 2 /\ stack'[Height] = f
          /\ stack'[Height + 1] = g /\ stack'[Height + 2] = h
          /\ Reshapes(Height - 1, Height')
      BY <2>2 DEF ResumesAndCalls2, Reshapes, Height
    <3>2. \A j \in Height .. Height' :
            j = Height \/ j = Height + 1 \/ j = Height + 2
      BY <1>1, <3>1
    <3>3. QED
      BY <1>1, <3>1, <3>2
  <2>3. QED
    BY <2>1, <2>2
<1>3. ASSUME NEW j \in Height .. Height'
      PROVE  /\ ShutKept(j)'
             /\ \A i \in 1 .. Height - 1 :
                  stack[i].fn = "shutdown"
                    => Harmless(stack'[j], stack[i].managed)
  BY <1>2, <1>3 DEF ShutKept, HarmlessAbove
<1>4. QED
  BY <1>2, <1>3, ShutResume

LEMMA ShutSame ==
  ASSUME TypeOK, NestInv, ShutInv, UNCHANGED <<stack, registry, life>>,
         control = "raise" =>
           control' = "raise" \/ stack = << >> \/ Top.fn = "callback"
  PROVE  ShutInv'
<1>1. /\ Height' = Height /\ Registered' = Registered
      /\ Top = stack[Height] /\ (stack = << >> <=> Height = 0)
      /\ Height \in Nat
  BY StackIndices DEF Height, Registered
<1>2. ASSUME NEW i \in 1 .. Height
      PROVE  ShutKept(i)'
  <2>1. ShutKept(i)
    BY <1>2 DEF ShutInv
  <2>2. i = Height /\ control = "raise" /\ stack[i].fn = "shutdown"
          => control' = "raise"
    BY <1>1
  <2>3. QED
    BY <1>1, <2>1, <2>2 DEF ShutKept
<1>3. QED
  BY <1>1, <1>2 DEF ShutInv

(* A plugin the kernel has never had in its hands is none that a shutdown  *)
(* call manages.                                                           *)
LEMMA NewIsHarmless ==
  ASSUME TypeOK, ShutInv, NEW p, life[p] = "discovered", NEW i \in 1 .. Height,
         stack[i].fn = "shutdown"
  PROVE  p \notin stack[i].managed
BY DEF ShutInv, ShutKept

(* User code calls the kernel.                                             *)
LEMMA ShutCalls ==
  ASSUME TypeOK, NestInv, KnownInv, ShutInv, ~ Reuse, UserCalls
  PROVE  ShutInv'
<1>1. ASSUME control = "user", UNCHANGED <<stack, registry, life>>
      PROVE  ShutInv'
  BY <1>1, ShutSame
<1>2. ASSUME NEW p \in Plugins, CallRegister(p)
      PROVE  ShutInv'
  <2>1. /\ control = "user" /\ UNCHANGED <<registry, life>>
        /\ life[p] = "discovered"
    BY <1>2 DEF CallRegister, Make, Handed
  <2> DEFINE f == Registering(p)
             g == Callback("initialize", p)
  <2>2. /\ f.fn = "register" /\ f.plugin = p /\ g.fn = "callback"
        /\ Pushes2(f, g)
    BY <1>2, CallShapes DEF Registering, Callback
  <2> HIDE DEF f, g
  <2>3. HarmlessAbove(Height, f) /\ HarmlessAbove(Height, g)
    BY <2>1, <2>2, NewIsHarmless DEF HarmlessAbove, Harmless
  <2>4. QED
    BY <2>1, <2>2, <2>3, ShutPushOthers
<1>3. ASSUME NEW plugins \in Loads, CallLoad(plugins)
      PROVE  ShutInv'
  <2>1. /\ control = "user" /\ UNCHANGED <<registry, life>>
        /\ \A i \in DOMAIN plugins : life[plugins[i]] = "discovered"
    BY <1>3 DEF CallLoad, Make, Handed
  <2> DEFINE f == Loading(plugins)
  <2>2. f.fn = "load" /\ f.todo = plugins /\ (Pushes1(f) \/ UNCHANGED stack)
    BY <1>3, CallShapes DEF Loading
  <2> HIDE DEF f
  <2>3. HarmlessAbove(Height, f)
    BY <2>1, <2>2, NewIsHarmless DEF HarmlessAbove, Harmless
  <2>4. QED
    BY <1>1, <2>1, <2>2, <2>3, ShutPushOthers
<1>4. ASSUME NEW id \in PluginIds, CallUnregister(id)
      PROVE  ShutInv'
  <2>1. control = "user" /\ UNCHANGED <<registry, life>>
    BY <1>4 DEF CallUnregister, Make
  <2> DEFINE f == Unregistering(id)
             g == Callback("shutdown", Lookup(id))
  <2>2. /\ f.fn = "unregister" /\ g.fn = "callback"
        /\ Pushes2(f, g) \/ UNCHANGED stack
    BY <1>4, CallShapes DEF Unregistering, Callback
  <2> HIDE DEF f, g
  <2>3. HarmlessAbove(Height, f) /\ HarmlessAbove(Height, g)
    BY <2>2 DEF HarmlessAbove, Harmless
  <2>4. QED
    BY <1>1, <2>1, <2>2, <2>3, ShutPushOthers
<1>5. CASE CallShutdown
  <2>1. control = "user" /\ UNCHANGED <<registry, life>>
    BY <1>5 DEF CallShutdown, Make
  <2> DEFINE f == ShuttingDown
  <2>2. /\ f.fn = "shutdown" /\ f.managed = Registered /\ Pushes1(f)
        /\ f.todo = RegisteredIds
    BY <1>5, CallShapes DEF ShuttingDown
  <2> HIDE DEF f
  <2>3. /\ Height \in Nat /\ Height' = Height + 1 /\ stack'[Height + 1] = f
        /\ Reshapes(Height, Height')
    BY <2>2, StackIndices DEF Pushes1, Reshapes, Height
  <2>4. \A p \in Registered :
          \E k \in DOMAIN f.todo : f.todo[k] = Id[p]
    BY <2>2 DEF Registered, RegisteredIds
  <2>5. ASSUME NEW j \in Height + 1 .. Height'
        PROVE  /\ ShutKept(j)'
               /\ \A i \in 1 .. Height :
                    stack[i].fn = "shutdown"
                      => Harmless(stack'[j], stack[i].managed)
    <3>1. j = Height + 1 /\ stack'[j] = f /\ j + 1 .. Height' = {}
      BY <2>3
    <3>2. Registered' = Registered
      BY <2>1 DEF Registered
    <3>3. ShutKept(j)'
      BY <2>1, <2>2, <2>4, <3>1, <3>2 DEF ShutKept, KnownInv
    <3>4. QED
      BY <2>2, <3>1, <3>3 DEF Harmless
  <2>6. QED
    BY <2>1, <2>3, <2>5, ShutPush
<1>6. ASSUME NEW id \in PluginIds, NEW capability \in Capabilities,
             NEW routed \in BOOLEAN, control = "user",
             BeginExecution(id, capability, routed)
      PROVE  ShutInv'
  <2> DEFINE f == Executing(id, capability, routed)
             g == Delivery(ExecutionEvent("started", f))
  <2>1. f.fn = "execute" /\ g.fn = "publish" /\ Pushes2(f, g)
    BY <1>6, CallShapes DEF Executing, Delivery
  <2>2. UNCHANGED <<registry, life>>
    BY <1>6 DEF BeginExecution
  <2> HIDE DEF f, g
  <2>3. HarmlessAbove(Height, f) /\ HarmlessAbove(Height, g)
    BY <2>1 DEF HarmlessAbove, Harmless
  <2>4. QED
    BY <1>6, <2>1, <2>2, <2>3, ShutPushOthers
<1>7. \A i \in DOMAIN registry : Id[registry[i]] \in PluginIds
  BY IdAssumption, LenProperties, ElementOfSeq DEF TypeOK
<1>8. ASSUME NEW capability \in Capabilities, CallExecuteCapability(capability)
      PROVE  ShutInv'
  BY <1>1, <1>6, <1>7, <1>8 DEF CallExecuteCapability, FindByCapability, Make
<1>9. ASSUME NEW id \in PluginIds, NEW capability \in Capabilities,
             CallExecute(id, capability)
      PROVE  ShutInv'
  BY <1>6, <1>9 DEF CallExecute, Make
<1>10. QED
  BY <1>1, <1>2, <1>3, <1>4, <1>5, <1>8, <1>9
     DEF UserCalls, DirectCalls, CallSubscribe, CallUnsubscribe, CallClear, Make

(* Frames that are no register or load call are harmless, and so is one    *)
(* that goes on with less to do.                                           *)
LEMMA HarmlessFrames ==
  ASSUME TypeOK, ShutInv
  PROVE  /\ \A f, k : f.fn \notin {"register", "load"} => HarmlessAbove(k, f)
         /\ \A f, k : f.fn = "register" /\ f.pc # "initialize"
                      => HarmlessAbove(k, f)
         /\ HarmlessAbove(Height - 1, Top)
<1>1. /\ \A f, k : f.fn \notin {"register", "load"} => HarmlessAbove(k, f)
      /\ \A f, k : f.fn = "register" /\ f.pc # "initialize"
                   => HarmlessAbove(k, f)
  BY DEF HarmlessAbove, Harmless
<1>2. ASSUME NEW i \in 1 .. Height - 1, stack[i].fn = "shutdown"
      PROVE  Harmless(Top, stack[i].managed)
  <2>1. /\ i \in 1 .. Height /\ Height \in i + 1 .. Height
        /\ Top = stack[Height]
    BY StackIndices
  <2>2. QED
    BY <1>2, <2>1 DEF ShutInv, ShutKept
<1>3. QED
  BY <1>1, <1>2 DEF HarmlessAbove

LEMMA ShutKernel ==
  ASSUME TypeOK, NestInv, UniqueIds, KnownInv, ShutInv, Alive, Kernel
  PROVE  ShutInv'
<1> USE DEF On, At, Returned, OnlyControl
<1>1. HarmlessAbove(Height - 1, Top)
  BY HarmlessFrames
<1>2. ASSUME NEW i \in 1 .. Height - 1, stack[i].fn = "shutdown",
             i + 1 = Height
      PROVE  Top.fn = "unregister"
  <2>1. CalledBy(stack[i], Top)
    BY <1>2, StackIndices DEF NestInv
  <2>2. QED
    BY <1>2, <2>1 DEF CalledBy
<1>3. ASSUME Registered' \subseteq Registered, Top.fn # "unregister"
      PROVE  \A i \in 1 .. Height - 1 : stack[i].fn = "shutdown" =>
               \A p \in stack[i].managed \cap Registered' :
                 /\ p \in Registered
                 /\ i + 1 = Height => ~ (Top.pc = "shutdown" /\ Top.id = Id[p])
  BY <1>2, <1>3
<1>4. CASE DeliverNext
  <2> DEFINE g == Callback("handle", Head(Top.todo))
  <2>1. /\ Top.fn = "publish" /\ Rest.fn = "publish" /\ g.fn = "callback"
        /\ ResumesAndCalls(Rest, g)
    BY <1>4, KernelShapes DEF Rest, PublishFrame, Callback
  <2> HIDE DEF g
  <2>2. UNCHANGED registry
    BY <1>4 DEF DeliverNext
  <2>3. HarmlessAbove(Height - 1, Rest) /\ HarmlessAbove(Height - 1, g)
    BY <2>1, HarmlessFrames
  <2>4. QED
    BY <1>3, <2>1, <2>2, <2>3, ShutResumeOthers DEF Registered
<1>5. CASE RegisterInserts
  <2> DEFINE g == Delivery(PluginEvent("registered", Id[Top.plugin]))
             f == TopAt("announce")
  <2>1. /\ Top \in RegisterFrame /\ Top.fn = "register"
        /\ f.fn = "register" /\ f.pc = "announce"
        /\ g.fn = "publish" /\ ResumesAndCalls(f, g)
    BY <1>5, KernelShapes DEF TopAt, RegisterFrame, Delivery
  <2> HIDE DEF f, g
  <2>2. HarmlessAbove(Height - 1, f) /\ HarmlessAbove(Height - 1, g)
    BY <2>1, HarmlessFrames
  <2>3. Registered' = Registered \cup {Top.plugin} /\ Top.pc = "initialize"
    BY <1>5, RegistryStep DEF RegisterInserts, Next
  <2>4. \A i \in 1 .. Height - 1 : stack[i].fn = "shutdown" =>
          Top.plugin \notin stack[i].managed
    BY <1>1, <2>1, <2>3 DEF HarmlessAbove, Harmless
  <2>5. \A i \in 1 .. Height - 1 : stack[i].fn = "shutdown" =>
          \A p \in stack[i].managed \cap Registered' :
            /\ p \in Registered
            /\ i + 1 = Height => ~ (Top.pc = "shutdown" /\ Top.id = Id[p])
    BY <1>2, <2>1, <2>3, <2>4
  <2>6. QED
    BY <2>1, <2>2, <2>5, ShutResumeOthers
<1>6. CASE RegisterRollsBack
  <2> DEFINE g == Callback("shutdown", Top.plugin)
             f == TopAt("rollback")
  <2>1. /\ Top.fn = "register" /\ f.fn = "register" /\ f.pc = "rollback"
        /\ g.fn = "callback" /\ ResumesAndCalls(f, g)
    BY <1>6, KernelShapes DEF TopAt, RegisterFrame, Callback
  <2> HIDE DEF f, g
  <2>2. UNCHANGED registry
    BY <1>6 DEF RegisterRollsBack
  <2>3. HarmlessAbove(Height - 1, f) /\ HarmlessAbove(Height - 1, g)
    BY <2>1, HarmlessFrames
  <2>4. QED
    BY <1>3, <2>1, <2>2, <2>3, ShutResumeOthers DEF Registered
<1>7. CASE LoadNext
  <2> DEFINE g == Registering(Head(Top.todo))
             h == Callback("initialize", Head(Top.todo))
  <2>1. /\ Top \in LoadFrame /\ Top.fn = "load" /\ Rest.fn = "load"
        /\ Rest.todo = Tail(Top.todo)
        /\ g.fn = "register" /\ g.plugin = Head(Top.todo)
        /\ h.fn = "callback" /\ ResumesAndCalls2(Rest, g, h)
    BY <1>7, KernelShapes DEF Rest, LoadFrame, Registering, Callback
  <2>2. UNCHANGED registry /\ Top.todo # << >>
    BY <1>7 DEF LoadNext
  <2> HIDE DEF g, h
  <2>3. PICK n \in Nat : /\ DOMAIN Top.todo = 1 .. n /\ n # 0
                         /\ Head(Top.todo) = Top.todo[1]
                         /\ DOMAIN Tail(Top.todo) = 1 .. n - 1
                         /\ \A k \in 1 .. n - 1 :
                              Tail(Top.todo)[k] = Top.todo[k + 1]
    <3>1. Top.todo \in Seq(Plugins)
      BY <2>1 DEF LoadFrame
    <3>2. QED
      BY <2>2, <3>1, EmptySeq, LenProperties, HeadTailProperties
  <2>4. \A i \in 1 .. Height - 1 : stack[i].fn = "shutdown" =>
          \A k \in 1 .. n : Top.todo[k] \notin stack[i].managed
    BY <1>1, <2>1, <2>3 DEF HarmlessAbove, Harmless
  <2>5. 1 \in 1 .. n /\ \A k \in 1 .. n - 1 : k + 1 \in 1 .. n
    BY <2>3
  <2>6. /\ HarmlessAbove(Height - 1, Rest) /\ HarmlessAbove(Height - 1, g)
        /\ HarmlessAbove(Height - 1, h)
    BY <2>1, <2>3, <2>4, <2>5 DEF HarmlessAbove, Harmless
  <2>7. QED
    BY <1>3, <2>1, <2>2, <2>6, ShutResumeOthers DEF Registered
<1>8. CASE UnregisterRemoves
  <2> DEFINE g == Delivery(PluginEvent("unregistered", Top.id))
             f == TopAt("announce")
  <2>1. /\ Top.fn = "unregister" /\ f.fn = "unregister"
        /\ g.fn = "publish" /\ ResumesAndCalls(f, g)
    BY <1>8, KernelShapes DEF TopAt, UnregisterFrame, Delivery
  <2> HIDE DEF f, g
  <2>2. HarmlessAbove(Height - 1, f) /\ HarmlessAbove(Height - 1, g)
    BY <2>1, HarmlessFrames
  <2>3. Registered' \subseteq Registered
    BY <1>8, <2>1, RegistryStep DEF Next, RegisterInserts
  <2>4. \A p \in Registered' : Id[p] # Top.id
    BY <1>8, RemovedIsGone DEF UnregisterRemoves
  <2>5. QED
    BY <2>1, <2>2, <2>3, <2>4, ShutResumeOthers
<1>9. CASE ShutdownNext
  <2>1. /\ Top \in ShutdownFrame /\ Top.fn = "shutdown"
        /\ Rest.fn = "shutdown" /\ Rest.todo = Tail(Top.todo)
        /\ Rest.managed = Top.managed
    BY <1>9, KernelShapes DEF Rest, ShutdownFrame
  <2>2. /\ UNCHANGED <<registry, life>> /\ control = "return"
        /\ Top.todo # << >>
    BY <1>9 DEF ShutdownNext
  <2> DEFINE id == Head(Top.todo)
  <2>3. \A k \in DOMAIN Top.todo :
          \/ Top.todo[k] = id
          \/ \E m \in DOMAIN Rest.todo : Rest.todo[m] = Top.todo[k]
    <3>1. Top.todo \in Seq(PluginIds)
      BY <2>1 DEF ShutdownFrame
    <3>2. PICK n \in Nat : /\ DOMAIN Top.todo = 1 .. n
                           /\ id = Top.todo[1]
                           /\ DOMAIN Rest.todo = 1 .. n - 1
                           /\ \A k \in 1 .. n - 1 :
                                Rest.todo[k] = Top.todo[k + 1]
      BY <2>1, <2>2, <3>1, EmptySeq, LenProperties, HeadTailProperties
    <3>3. \A k \in 1 .. n : k = 1 \/ (k - 1 \in 1 .. n - 1 /\ (k - 1) + 1 = k)
      BY <3>2
    <3>4. QED
      BY <3>2, <3>3
  <2>4. Height \in Nat /\ Height # 0 /\ Height \in 1 .. Height /\ Top = stack[Height]
    BY <1>9, StackIndices DEF ShutdownNext
  <2>5. /\ \A p \in Top.managed : life[p] # "discovered"
        /\ \A p \in Top.managed \cap Registered :
             \E k \in DOMAIN Top.todo : Top.todo[k] = Id[p]
    BY <2>1, <2>2, <2>4 DEF ShutInv, ShutKept
  <2>6. Registered' = Registered
    BY <2>2 DEF Registered
  <2>7. ASSUME NEW i \in 1 .. Height - 1, stack[i].fn = "shutdown",
               NEW p \in stack[i].managed \cap Registered'
        PROVE  /\ p \in Registered
               /\ i + 1 = Height => ~ (Top.pc = "shutdown" /\ Top.id = Id[p])
    BY <1>2, <2>1, <2>6, <2>7
  <2>8. CASE ~ HasId(id) /\ control' = "return" /\ Resumes(Rest)
    <3>1. /\ Height' = Height /\ stack'[Height] = Rest
          /\ Reshapes(Height - 1, Height')
      BY <2>8 DEF Resumes, Reshapes, Height
    <3>2. ASSUME NEW j \in Height .. Height'
          PROVE  /\ ShutKept(j)'
                 /\ \A i \in 1 .. Height - 1 :
                      stack[i].fn = "shutdown"
                        => Harmless(stack'[j], stack[i].managed)
      <4>1. j = Height /\ stack'[j] = Rest /\ j + 1 .. Height' = {}
        BY <2>4, <3>1
      <4>2. ASSUME NEW p \in Top.managed \cap Registered
            PROVE  \E m \in DOMAIN Rest.todo : Rest.todo[m] = Id[p]
        <5>1. Id[p] # id
          BY <2>8, <4>2 DEF HasId, Registered
        <5>2. QED
          BY <2>3, <2>5, <4>2, <5>1
      <4>3. ShutKept(j)'
        BY <2>1, <2>2, <2>5, <2>6, <4>1, <4>2 DEF ShutKept
      <4>4. QED
        BY <2>1, <4>1, <4>3 DEF Harmless
    <3>3. QED
      BY <2>1, <2>4, <2>7, <3>1, <3>2, ShutResume
  <2>9. ASSUME HasId(id), control' = "user",
               ResumesAndCalls2(Rest, Unregistering(id),
                                Callback("shutdown", Lookup(id)))
        PROVE  ShutInv'
    <3> DEFINE g == Unregistering(id)
               h == Callback("shutdown", Lookup(id))
    <3>1. /\ g.fn = "unregister" /\ g.pc = "shutdown" /\ g.id = id
          /\ h.fn = "callback"
      BY DEF Unregistering, Callback
    <3>2. /\ Height' = Height + 2 /\ stack'[Height] = Rest
          /\ stack'[Height + 1] = g /\ stack'[Height + 2] = h
          /\ Reshapes(Height - 1, Height')
      BY <2>9 DEF ResumesAndCalls2, Reshapes, Height
    <3> HIDE DEF g, h, id
    <3>3. \A j \in Height .. Height' :
            j = Height \/ j = Height + 1 \/ j = Height + 2
      BY <2>4, <3>2
    <3>4. \A j \in Height + 1 .. Height' :
            stack'[j] = g \/ stack'[j] = h
      BY <2>4, <3>2
    <3>5. ASSUME NEW j, j = Height
          PROVE  ShutKept(j)'
      <4>1. stack'[j] = Rest /\ stack'[j + 1] = g /\ j < Height'
            /\ j + 1 .. Height' = Height + 1 .. Height'
        BY <2>4, <3>2, <3>5
      <4>2. \A k \in j + 1 .. Height' : Harmless(stack'[k], Rest.managed)
        BY <3>1, <3>4, <4>1 DEF Harmless
      <4>3. \A p \in Top.managed \cap Registered :
              \/ \E m \in DOMAIN Rest.todo : Rest.todo[m] = Id[p]
              \/ g.id = Id[p]
        BY <2>3, <2>5, <3>1
      <4>4. QED
        BY <2>1, <2>2, <2>5, <2>6, <3>1, <4>1, <4>2, <4>3 DEF ShutKept
    <3>6. ASSUME NEW j \in Height .. Height'
          PROVE  /\ ShutKept(j)'
                 /\ \A i \in 1 .. Height - 1 :
                      stack[i].fn = "shutdown"
                        => Harmless(stack'[j], stack[i].managed)
      <4>1. CASE j = Height
        BY <2>1, <3>2, <3>5, <4>1 DEF Harmless
      <4>2. CASE stack'[j] = g \/ stack'[j] = h
        BY <3>1, <4>2 DEF ShutKept, Harmless
      <4>3. QED
        BY <3>2, <3>3, <4>1, <4>2
    <3>7. Height' \in Nat /\ Height' >= Height
      BY <2>4, <3>2
    <3>8. QED
      BY <2>1, <2>7, <3>2, <3>6, <3>7, ShutResume
  <2>10. QED
    BY <1>9, <2>8, <2>9, KernelShapes
<1>10. CASE ExecuteCallsPlugin
  <2> DEFINE g == Callback("execute", Lookup(Top.id))
             f == TopAt("running")
  <2>1. /\ Top.fn = "execute" /\ f.fn = "execute" /\ g.fn = "callback"
        /\ ResumesAndCalls(f, g)
    BY <1>10, KernelShapes DEF TopAt, ExecuteFrame, Callback
  <2> HIDE DEF f, g
  <2>2. UNCHANGED registry
    BY <1>10 DEF ExecuteCallsPlugin
  <2>3. HarmlessAbove(Height - 1, f) /\ HarmlessAbove(Height - 1, g)
    BY <2>1, HarmlessFrames
  <2>4. QED
    BY <1>3, <2>1, <2>2, <2>3, ShutResumeOthers DEF Registered
<1>11. CASE ExecuteFails \/ ExecuteCompletes
  <2>1. PICK pc \in {"failed", "completed"} :
          /\ Top \in ExecuteFrame
          /\ ResumesAndCalls(TopAt(pc), Delivery(ExecutionEvent(pc, Top)))
    BY <1>11, KernelShapes
  <2> DEFINE g == Delivery(ExecutionEvent(pc, Top))
             f == TopAt(pc)
  <2>2. /\ Top.fn = "execute" /\ f.fn = "execute" /\ g.fn = "publish"
        /\ ResumesAndCalls(f, g)
    BY <2>1 DEF TopAt, ExecuteFrame, Delivery
  <2> HIDE DEF f, g
  <2>3. UNCHANGED registry
    BY <1>11 DEF ExecuteFails, ExecuteCompletes
  <2>4. HarmlessAbove(Height - 1, f) /\ HarmlessAbove(Height - 1, g)
    BY <2>2, HarmlessFrames
  <2>5. QED
    BY <1>3, <2>2, <2>3, <2>4, ShutResumeOthers DEF Registered
<1>12. CASE Returns \/ Reraises \/ ExecuteMisreads \/ Unwind
  <2>1. Pops /\ UNCHANGED registry
    BY <1>12, EndShapes DEF Returns, Reraises, ExecuteMisreads, Unwind
  <2>2. control' # "raise" /\ Top.fn = "unregister" => Top.pc = "announce"
    BY <1>12 DEF Returns, Reraises, ExecuteMisreads, Unwind, Leave
  <2>3. QED
    BY <2>1, <2>2, ShutPop
<1>13. QED
  BY <1>4, <1>5, <1>6, <1>7, <1>8, <1>9, <1>10, <1>11, <1>12
     DEF Kernel, Transitions

LEMMA ShutStep ==
  ASSUME TypeOK, NestInv, UniqueIds, KnownInv, ShutInv, ~ Reuse, [Next]_vars
  PROVE  ShutInv'
<1>1. Alive
  BY NeverForgotten DEF Alive
<1>2. CASE UserCalls
  BY <1>2, ShutCalls
<1>3. CASE UserResumes
  BY <1>3, ShutSame DEF UserResumes, On
<1>4. CASE UserPropagates \/ UserReturns \/ UserRaises
  <2>1. Pops /\ UNCHANGED registry /\ Top.fn = "callback"
    BY <1>4, EndShapes DEF UserPropagates, UserReturns, UserRaises, On,
                           OnlyControl
  <2>2. QED
    BY <1>1, <2>1, ShutPop
<1>5. CASE Kernel
  BY <1>1, <1>5, ShutKernel
<1>6. CASE UNCHANGED vars
  BY <1>6, ShutSame DEF vars, kernelVars
<1>7. QED
  BY <1>2, <1>3, <1>4, <1>5, <1>6 DEF Next, UserEnds

(* Whatever handlers register or unregister in between, nothing that was   *)
(* registered when shutdown was called is registered when it returns, as   *)
(* long as an instance is not registered a second time.                    *)
THEOREM NothingIsLeft ==
  ASSUME ~ Reuse
  PROVE  Spec => []ShutdownLeavesNothing
<1>1. Init => NestInv /\ RegistryInv /\ KnownInv /\ ShutInv
  <2>1. Init => RegistryInv
    BY DEF Init, RegistryInv, UniqueIds, LogExplainsRegistry, HasId, Explained
  <2>2. Init => KnownInv /\ ShutInv
    BY EmptySeq DEF Init, KnownInv, ShutInv, Height, Registered, Returned, At,
                    On
  <2>3. QED
    BY <2>1, <2>2, NestInitially
<1>2. TypeOK /\ NestInv /\ RegistryInv /\ KnownInv /\ ShutInv /\ [Next]_vars
      => NestInv' /\ RegistryInv' /\ KnownInv' /\ ShutInv'
  BY NestStep, RegistryInvStep, KnownStep, ShutStep DEF RegistryInv
<1>3. TypeOK /\ ShutInv => ShutdownLeavesNothing
  <2>1. SUFFICES ASSUME TypeOK, ShutInv, control = "return", On("shutdown"),
                        Top.todo = << >>
                 PROVE  Top.managed \cap Registered = {}
    BY DEF ShutdownLeavesNothing
  <2>2. Height \in 1 .. Height /\ Top = stack[Height] /\ Top.fn = "shutdown"
    BY <2>1, StackIndices DEF On
  <2>3. DOMAIN Top.todo = {}
    BY <2>1
  <2>4. QED
    BY <2>1, <2>2, <2>3 DEF ShutInv, ShutKept
<1>4. QED
  BY <1>1, <1>2, <1>3, TypeCorrectness, PTL DEF Spec

-----------------------------------------------------------------------------
(* The life of plugins.  An instance is in the hands of one call at most,  *)
(* and while that is so its state says how far the call has come.          *)

Fresh(p) == life[p] = "discovered" /\ p \notin Registered

Holds(f, p) ==
  \/ f.fn = "register" /\ f.plugin = p
  \/ f.fn = "load" /\ \E k \in DOMAIN f.todo : f.todo[k] = p

NoTwice(f) ==
  f.fn = "load" =>
    \A k, m \in DOMAIN f.todo : f.todo[k] = f.todo[m] => k = m

HandsInv ==
  /\ \A i, j \in 1 .. Height, p \in Plugins :
       Holds(stack[i], p) /\ Holds(stack[j], p) => i = j
  /\ \A i \in 1 .. Height : NoTwice(stack[i])

(* A call whose callee has not come back, or came back with an exception,  *)
(* and one whose callee returned.  The plugin that unregister_plugin shuts *)
(* down may have left the registry meanwhile, by a call of its shutdown.   *)
Pending(f) ==
  /\ f.fn = "load" => \A k \in DOMAIN f.todo : Fresh(f.todo[k])
  /\ f.fn = "register" /\ f.pc = "initialize" => Fresh(f.plugin)
  /\ f.fn = "register" /\ f.pc = "rollback" => f.plugin \notin Registered
  /\ f.fn = "unregister" /\ f.pc = "shutdown" =>
       life[f.plugin] # "discovered" /\ Id[f.plugin] = f.id

Back(f) ==
  /\ f.fn = "load" => \A k \in DOMAIN f.todo : Fresh(f.todo[k])
  /\ f.fn = "register" /\ f.pc = "initialize" =>
       f.plugin \notin Registered /\ life[f.plugin] = "running"
  /\ f.fn = "register" /\ f.pc = "rollback" =>
       f.plugin \notin Registered /\ life[f.plugin] = "stopped"
  /\ f.fn = "unregister" /\ f.pc = "shutdown" =>
       life[f.plugin] = "stopped" /\ Id[f.plugin] = f.id

FrameKept(i) ==
  IF i = Height /\ control = "return" THEN Back(stack[i]) ELSE Pending(stack[i])

(* User code other than the client was called by the kernel.               *)
Hosted(i) == stack[i].fn = "callback" => i # 1

RegisteredRuns(p) ==
  p \in Registered =>
    \/ life[p] = "running"
    \/ Returned("unregister", "shutdown") /\ Top.plugin = p

LifeInv ==
  /\ \A i \in 1 .. Height : FrameKept(i) /\ Hosted(i)
  /\ \A p \in Plugins : RegisteredRuns(p)

(* How instances are handed to the kernel for the property to hold.        *)
OneHand ==
  /\ ~ Reuse
  /\ \A plugins \in Loads :
       \A k, m \in DOMAIN plugins : plugins[k] = plugins[m] => k = m

LEMMA HandsFrom ==
  ASSUME TypeOK, HandsInv, NEW k \in Nat, k <= Height, Height' \in Nat,
         Reshapes(k, Height'),
         \A i \in k + 1 .. Height', p \in Plugins : Holds(stack'[i], p) =>
           /\ \A j \in 1 .. k : ~ Holds(stack[j], p)
           /\ \A j \in k + 1 .. Height' : Holds(stack'[j], p) => i = j,
         \A i \in k + 1 .. Height' : NoTwice(stack'[i])
  PROVE  HandsInv'
<1>1. Height \in Nat /\ \A i \in 1 .. k : i \in 1 .. Height /\ stack'[i] = stack[i]
  BY StackIndices DEF Reshapes
<1>2. \A i \in 1 .. Height' : i \in 1 .. k \/ i \in k + 1 .. Height'
  OBVIOUS
<1>3. ASSUME NEW i \in 1 .. Height', NEW j \in 1 .. Height', NEW p \in Plugins,
             Holds(stack'[i], p), Holds(stack'[j], p)
      PROVE  i = j
  <2>1. CASE i \in 1 .. k /\ j \in 1 .. k
    BY <1>1, <1>3, <2>1 DEF HandsInv
  <2>2. CASE i \in k + 1 .. Height' \/ j \in k + 1 .. Height'
    BY <1>1, <1>2, <1>3, <2>2
  <2> QED
    BY <1>2, <2>1, <2>2
<1>4. \A i \in 1 .. Height' : NoTwice(stack'[i])
  BY <1>1, <1>2 DEF HandsInv
<1> QED
  BY <1>3, <1>4 DEF HandsInv, Holds, NoTwice

Idle(f) == f.fn \notin {"register", "load"}

LEMMA HandsShapes ==
  ASSUME TypeOK, HandsInv
  PROVE  /\ UNCHANGED stack => HandsInv'
         /\ Pops => HandsInv'
         /\ \A f : Pushes1(f) /\ NoTwice(f)
                   /\ (\A j \in 1 .. Height, p \in Plugins :
                         ~ (Holds(stack[j], p) /\ Holds(f, p))) => HandsInv'
         /\ \A f, g : Pushes2(f, g) /\ NoTwice(f) /\ Idle(g)
                      /\ (\A j \in 1 .. Height, p \in Plugins :
                            ~ (Holds(stack[j], p) /\ Holds(f, p))) => HandsInv'
         /\ \A f : Resumes(f) /\ NoTwice(f)
                   /\ (\A p \in Plugins : Holds(f, p) => Holds(Top, p)) => HandsInv'
         /\ \A f, g : ResumesAndCalls(f, g) /\ NoTwice(f) /\ Idle(g)
                      /\ (\A p \in Plugins : Holds(f, p) => Holds(Top, p))
                        => HandsInv'
         /\ \A f, g, h : ResumesAndCalls2(f, g, h) /\ NoTwice(f) /\ NoTwice(g)
                         /\ Idle(h)
                         /\ (\A p \in Plugins :
                               /\ Holds(f, p) => Holds(Top, p) /\ ~ Holds(g, p)
                               /\ Holds(g, p) => Holds(Top, p)) => HandsInv'
<1>1. Height \in Nat /\ Top = stack[Height]
  BY StackIndices
<1>2. \A f : Idle(f) => NoTwice(f) /\ \A p : ~ Holds(f, p)
  BY DEF Idle, NoTwice, Holds
<1>3. Height # 0 => \A p \in Plugins : Holds(Top, p) =>
        \A j \in 1 .. Height - 1 : ~ Holds(stack[j], p)
  <2> SUFFICES ASSUME Height # 0, NEW p \in Plugins, Holds(Top, p),
                      NEW j \in 1 .. Height - 1, Holds(stack[j], p)
               PROVE  FALSE
    OBVIOUS
  <2>1. j \in 1 .. Height /\ Height \in 1 .. Height /\ j # Height
    BY <1>1
  <2> QED
    BY <1>1, <2>1 DEF HandsInv
<1>4. UNCHANGED stack => HandsInv'
  BY DEF HandsInv, Height, NoTwice, Holds
<1>5. ASSUME Pops PROVE HandsInv'
  <2>1. Height' = Height - 1 /\ Reshapes(Height - 1, Height') /\ Height - 1 \in Nat
    BY <1>1, <1>5 DEF Pops, Reshapes, Height
  <2>2. \A i \in (Height - 1) + 1 .. Height' : FALSE
    BY <1>1, <2>1
  <2> QED
    BY <1>1, <2>1, <2>2, HandsFrom
<1>6. ASSUME NEW f, Pushes1(f), NoTwice(f),
             \A j \in 1 .. Height, p \in Plugins :
               ~ (Holds(stack[j], p) /\ Holds(f, p))
      PROVE  HandsInv'
  <2>1. Height' = Height + 1 /\ Reshapes(Height, Height') /\ stack'[Height + 1] = f
    BY <1>6 DEF Pushes1, Reshapes, Height
  <2>2. \A i \in Height + 1 .. Height' : i = Height + 1
    BY <1>1, <2>1
  <2> QED
    BY <1>1, <1>6, <2>1, <2>2, HandsFrom
<1>7. ASSUME NEW f, NEW g, Pushes2(f, g), NoTwice(f), Idle(g),
             \A j \in 1 .. Height, p \in Plugins :
               ~ (Holds(stack[j], p) /\ Holds(f, p))
      PROVE  HandsInv'
  <2>1. /\ Height' = Height + 2 /\ Reshapes(Height, Height')
        /\ stack'[Height + 1] = f /\ stack'[Height + 2] = g
    BY <1>7 DEF Pushes2, Reshapes, Height
  <2>2. \A i \in Height + 1 .. Height' : i = Height + 1 \/ i = Height + 2
    BY <1>1, <2>1
  <2>3. \A i \in Height + 1 .. Height', p \in Plugins : Holds(stack'[i], p) =>
          i = Height + 1 /\ Holds(f, p)
    BY <1>2, <1>7, <2>1, <2>2
  <2>4. \A i \in Height + 1 .. Height' : NoTwice(stack'[i])
    BY <1>2, <1>7, <2>1, <2>2
  <2> QED
    BY <1>1, <1>7, <2>1, <2>3, <2>4, HandsFrom
<1>8. ASSUME NEW f, Resumes(f), NoTwice(f),
             \A p \in Plugins : Holds(f, p) => Holds(Top, p)
      PROVE  HandsInv'
  <2>1. /\ Height' = Height /\ Reshapes(Height - 1, Height') /\ stack'[Height] = f
        /\ Height # 0 /\ Height - 1 \in Nat /\ (Height - 1) + 1 = Height
    BY <1>1, <1>8 DEF Resumes, Reshapes, Height
  <2>2. \A i \in (Height - 1) + 1 .. Height' : i = Height
    BY <1>1, <2>1
  <2>3. \A i \in (Height - 1) + 1 .. Height', p \in Plugins : Holds(stack'[i], p) =>
          i = Height /\ Holds(Top, p)
    BY <1>8, <2>1, <2>2
  <2>4. \A i \in (Height - 1) + 1 .. Height' : NoTwice(stack'[i])
    BY <1>8, <2>1, <2>2
  <2> QED
    BY <1>1, <1>3, <2>1, <2>3, <2>4, HandsFrom
<1>9. ASSUME NEW f, NEW g, ResumesAndCalls(f, g), NoTwice(f), Idle(g),
             \A p \in Plugins : Holds(f, p) => Holds(Top, p)
      PROVE  HandsInv'
  <2>1. /\ Height' = Height + 1 /\ Reshapes(Height - 1, Height')
        /\ stack'[Height] = f /\ stack'[Height + 1] = g
        /\ Height # 0 /\ Height - 1 \in Nat /\ (Height - 1) + 1 = Height
    BY <1>1, <1>9 DEF ResumesAndCalls, Reshapes, Height
  <2>2. \A i \in (Height - 1) + 1 .. Height' : i = Height \/ i = Height + 1
    BY <1>1, <2>1
  <2>3. \A i \in (Height - 1) + 1 .. Height', p \in Plugins : Holds(stack'[i], p) =>
          i = Height /\ Holds(Top, p)
    BY <1>2, <1>9, <2>1, <2>2
  <2>4. \A i \in (Height - 1) + 1 .. Height' : NoTwice(stack'[i])
    BY <1>2, <1>9, <2>1, <2>2
  <2> QED
    BY <1>1, <1>3, <2>1, <2>3, <2>4, HandsFrom
<1>10. ASSUME NEW f, NEW g, NEW h, ResumesAndCalls2(f, g, h), NoTwice(f),
              NoTwice(g), Idle(h),
              \A p \in Plugins : /\ Holds(f, p) => Holds(Top, p) /\ ~ Holds(g, p)
                                 /\ Holds(g, p) => Holds(Top, p)
       PROVE  HandsInv'
  <2>1. /\ Height' = Height + 2 /\ Reshapes(Height - 1, Height')
        /\ stack'[Height] = f /\ stack'[Height + 1] = g /\ stack'[Height + 2] = h
        /\ Height # 0 /\ Height - 1 \in Nat /\ (Height - 1) + 1 = Height
    BY <1>1, <1>10 DEF ResumesAndCalls2, Reshapes, Height
  <2>2. \A i \in (Height - 1) + 1 .. Height' :
          i = Height \/ i = Height + 1 \/ i = Height + 2
    BY <1>1, <2>1
  <2>3. \A i \in (Height - 1) + 1 .. Height', p \in Plugins : Holds(stack'[i], p) =>
          /\ Holds(Top, p)
          /\ \/ i = Height /\ Holds(f, p)
             \/ i = Height + 1 /\ Holds(g, p)
    BY <1>2, <1>10, <2>1, <2>2
  <2>4. \A i \in (Height - 1) + 1 .. Height' : NoTwice(stack'[i])
    BY <1>2, <1>10, <2>1, <2>2
  <2>5. ASSUME NEW i \in (Height - 1) + 1 .. Height', NEW p \in Plugins,
               Holds(stack'[i], p)
        PROVE  /\ \A j \in 1 .. Height - 1 : ~ Holds(stack[j], p)
               /\ \A j \in (Height - 1) + 1 .. Height' : Holds(stack'[j], p) => i = j
    <3>1. \A j \in (Height - 1) + 1 .. Height' : Holds(stack'[j], p) => i = j
      BY <1>10, <2>3, <2>5
    <3>2. \A j \in 1 .. Height - 1 : ~ Holds(stack[j], p)
      BY <1>3, <2>1, <2>3, <2>5
    <3> QED
      BY <3>1, <3>2
  <2> QED
    BY <1>1, <2>1, <2>4, <2>5, HandsFrom
<1> QED
  BY <1>4, <1>5, <1>6, <1>7, <1>8, <1>9, <1>10

LEMMA NotHanded ==
  ASSUME TypeOK, NEW p, ~ Handed(p)
  PROVE  \A j \in 1 .. Height : ~ Holds(stack[j], p)
<1>1. /\ DOMAIN stack = 1 .. Height
      /\ \A j \in 1 .. Height : stack[j] \in Frame
  BY StackIndices
<1>2. ASSUME NEW j \in 1 .. Height, Holds(stack[j], p)
      PROVE  FALSE
  <2>1. ~ (stack[j].fn = "register" /\ stack[j].plugin = p)
    BY <1>1 DEF Handed
  <2>2. stack[j].fn = "load" /\ \E k \in DOMAIN stack[j].todo : stack[j].todo[k] = p
    BY <1>2, <2>1 DEF Holds
  <2>3. stack[j].todo \in Seq(Plugins)
    BY <1>1, <2>2, FrameOf DEF LoadFrame
  <2>4. Contains(stack[j].todo, p)
    BY <2>2, <2>3, LenProperties DEF Contains
  <2> QED
    BY <1>1, <2>2, <2>4 DEF Handed
<1> QED
  BY <1>2

(* An instance is handed to one call, and handed on, never copied.         *)
LEMMA HandsStep ==
  ASSUME TypeOK, HandsInv, OneHand, [Next]_vars
  PROVE  HandsInv'
<1> USE DEF OnlyControl, On, At, Returned
<1>1. ASSUME UNCHANGED stack
      PROVE  HandsInv'
  BY <1>1, HandsShapes
<1>2. ASSUME NEW f, NEW g, Idle(f), Idle(g), Pushes1(f) \/ Pushes2(f, g)
      PROVE  HandsInv'
  BY <1>2, HandsShapes DEF Idle, Holds, NoTwice
<1>3. ASSUME NEW f, NEW g, NEW h, Idle(f), Idle(g), Idle(h),
             \/ Resumes(f) \/ ResumesAndCalls(f, g)
             \/ ResumesAndCalls2(f, g, h)
      PROVE  HandsInv'
  <2>1. /\ NoTwice(f) /\ NoTwice(g)
        /\ \A p : ~ Holds(f, p) /\ ~ Holds(g, p)
    BY <1>3 DEF Idle, Holds, NoTwice
  <2> QED
    BY <1>3, <2>1, HandsShapes
<1>4. ASSUME NEW p \in Plugins, CallRegister(p)
      PROVE  HandsInv'
  <2> DEFINE f == Registering(p)
             g == Callback("initialize", p)
  <2>1. Pushes2(f, g)
    BY <1>4, CallShapes
  <2>2. Idle(g) /\ NoTwice(f) /\ \A q : Holds(f, q) => q = p
    BY DEF Registering, Callback, Idle, NoTwice, Holds
  <2>3. \A j \in 1 .. Height : ~ Holds(stack[j], p)
    BY <1>4, NotHanded DEF CallRegister, OneHand
  <2> HIDE DEF f, g
  <2> QED
    BY <2>1, <2>2, <2>3, HandsShapes
<1>5. ASSUME NEW plugins \in Loads, CallLoad(plugins)
      PROVE  HandsInv'
  <2> DEFINE f == Loading(plugins)
  <2>1. Pushes1(f) \/ UNCHANGED stack
    BY <1>5, CallShapes
  <2>2. NoTwice(f)
    BY DEF Loading, NoTwice, OneHand
  <2>3. \A p \in Plugins : Holds(f, p) => ~ Handed(p)
    BY <1>5 DEF Loading, Holds, CallLoad
  <2>4. \A j \in 1 .. Height, p \in Plugins : ~ (Holds(stack[j], p) /\ Holds(f, p))
    BY <2>3, NotHanded
  <2> HIDE DEF f
  <2> QED
    BY <1>1, <2>1, <2>2, <2>4, HandsShapes
<1>6. ASSUME NEW id \in PluginIds, CallUnregister(id)
      PROVE  HandsInv'
  <2>1. Idle(Unregistering(id)) /\ Idle(Callback("shutdown", Lookup(id)))
    BY DEF Idle, Unregistering, Callback
  <2> QED
    BY <1>1, <1>2, <1>6, <2>1, CallShapes
<1>7. CASE CallShutdown
  <2>1. Idle(ShuttingDown)
    BY DEF Idle, ShuttingDown
  <2> QED
    BY <1>2, <1>7, <2>1, CallShapes
<1>8. ASSUME NEW id \in PluginIds, NEW capability \in Capabilities,
             NEW routed \in BOOLEAN, BeginExecution(id, capability, routed)
      PROVE  HandsInv'
  <2> DEFINE f == Executing(id, capability, routed)
             g == Delivery(ExecutionEvent("started", f))
  <2>1. Idle(f) /\ Idle(g)
    BY DEF Idle, Executing, Delivery
  <2>2. Pushes2(f, g)
    BY <1>8, CallShapes
  <2> HIDE DEF f, g
  <2> QED
    BY <1>2, <2>1, <2>2
<1>9. CASE UserCalls
  <2>1. \A i \in DOMAIN registry : Id[registry[i]] \in PluginIds
    BY IdAssumption, LenProperties, ElementOfSeq DEF TypeOK
  <2>2. ASSUME NEW capability \in Capabilities,
               CallExecuteCapability(capability)
        PROVE  HandsInv'
    BY <1>1, <1>8, <2>1, <2>2 DEF CallExecuteCapability, FindByCapability
  <2>3. ASSUME NEW id \in PluginIds, NEW capability \in Capabilities,
               CallExecute(id, capability)
        PROVE  HandsInv'
    BY <1>8, <2>3 DEF CallExecute
  <2> QED
    BY <1>1, <1>4, <1>5, <1>6, <1>7, <1>9, <2>2, <2>3
       DEF UserCalls, DirectCalls, CallSubscribe, CallUnsubscribe, CallClear
<1>10. CASE UserResumes \/ UNCHANGED vars
  BY <1>1, <1>10 DEF UserResumes, vars, kernelVars
<1>11. CASE \/ UserPropagates \/ UserReturns \/ UserRaises \/ Returns
            \/ Reraises \/ ExecuteMisreads \/ Unwind
  BY <1>11, EndShapes, HandsShapes
<1>12. CASE RegisterInserts \/ RegisterRollsBack
  <2>1. PICK g : /\ Top \in RegisterFrame /\ Idle(g)
                 /\ \E pc \in {"announce", "rollback"} :
                      ResumesAndCalls(TopAt(pc), g)
    <3>1. /\ Idle(Delivery(PluginEvent("registered", Id[Top.plugin])))
          /\ Idle(Callback("shutdown", Top.plugin))
      BY DEF Idle, Delivery, Callback
    <3> QED
      BY <1>12, <3>1, KernelShapes
  <2>2. \A pc : /\ NoTwice(TopAt(pc))
                /\ \A p : Holds(TopAt(pc), p) => Holds(Top, p)
    BY <2>1 DEF TopAt, RegisterFrame, NoTwice, Holds
  <2> HIDE DEF TopAt
  <2> QED
    BY <2>1, <2>2, HandsShapes
<1>13. CASE LoadNext
  <2> DEFINE p == Head(Top.todo)
             g == Registering(p)
             h == Callback("initialize", p)
  <2>1. Top \in LoadFrame /\ ResumesAndCalls2(Rest, g, h) /\ Top.todo # << >>
    BY <1>13, KernelShapes DEF LoadNext
  <2>2. /\ Idle(h) /\ NoTwice(g)
        /\ \A q : Holds(g, q) => q = p
    BY DEF Registering, Callback, Idle, NoTwice, Holds
  <2>3. PICK n \in Nat \ {0} :
          /\ DOMAIN Top.todo = 1 .. n /\ DOMAIN Tail(Top.todo) = 1 .. n - 1
          /\ Top.todo[1] = p
          /\ \A k \in 1 .. n - 1 : Tail(Top.todo)[k] = Top.todo[k + 1]
    <3>1. Top.todo \in Seq(Plugins)
      BY <2>1 DEF LoadFrame
    <3>2. /\ Len(Top.todo) \in Nat \ {0} /\ DOMAIN Top.todo = 1 .. Len(Top.todo)
          /\ Tail(Top.todo) \in Seq(Plugins)
          /\ Len(Tail(Top.todo)) = Len(Top.todo) - 1
          /\ \A k \in 1 .. Len(Tail(Top.todo)) : Tail(Top.todo)[k] = Top.todo[k + 1]
          /\ Top.todo[1] = p
      BY <2>1, <3>1, HeadTailProperties, LenProperties, EmptySeq
    <3>3. DOMAIN Tail(Top.todo) = 1 .. Len(Top.todo) - 1
      BY <3>2, LenProperties
    <3> QED
      BY <3>2, <3>3
  <2>4. /\ \A k \in 1 .. n - 1 : k \in 1 .. n /\ k + 1 \in 1 .. n /\ k + 1 # 1
        /\ 1 \in 1 .. n
        /\ \A k, m \in 1 .. n - 1 : k + 1 = m + 1 => k = m
    BY <2>3
  <2>5. Top.fn = "load" /\ Rest.fn = "load" /\ Rest.todo = Tail(Top.todo)
    BY <2>1 DEF Rest, LoadFrame
  <2>6. NoTwice(Top)
    <3>1. Height \in 1 .. Height /\ Top = stack[Height]
      BY <2>1, StackIndices DEF ResumesAndCalls2
    <3> QED
      BY <3>1 DEF HandsInv
  <2>7. NoTwice(Rest)
    BY <2>3, <2>4, <2>5, <2>6 DEF NoTwice
  <2>8. /\ Holds(Top, p)
        /\ \A q : Holds(Rest, q) => Holds(Top, q) /\ q # p
    <3>1. Holds(Top, p)
      BY <2>3, <2>4, <2>5 DEF Holds
    <3>2. ASSUME NEW q, Holds(Rest, q)
          PROVE  Holds(Top, q) /\ q # p
      <4>1. PICK k \in 1 .. n - 1 : Top.todo[k + 1] = q
        BY <2>3, <2>5, <3>2 DEF Holds
      <4>2. Holds(Top, q)
        BY <2>3, <2>4, <2>5, <4>1 DEF Holds
      <4>3. q # p
        BY <2>3, <2>4, <2>5, <2>6, <4>1 DEF NoTwice
      <4> QED
        BY <4>2, <4>3
    <3> QED
      BY <3>1, <3>2
  <2> HIDE DEF p, g, h
  <2>9. \A q \in Plugins : /\ Holds(Rest, q) => Holds(Top, q) /\ ~ Holds(g, q)
                           /\ Holds(g, q) => Holds(Top, q)
    BY <2>2, <2>8
  <2> QED
    BY <2>1, <2>2, <2>7, <2>9, HandsShapes
<1>14. CASE DeliverNext \/ UnregisterRemoves \/ ShutdownNext
            \/ ExecuteCallsPlugin \/ ExecuteFails \/ ExecuteCompletes
  <2>1. \A kind, who, id, event : /\ Idle(Callback(kind, who))
                                  /\ Idle(Unregistering(id))
                                  /\ Idle(Delivery(event))
    BY DEF Idle, Callback, Unregistering, Delivery
  <2>2. /\ Top \in PublishFrame \/ Top \in ShutdownFrame => Idle(Rest)
        /\ Top \in UnregisterFrame \/ Top \in ExecuteFrame =>
             \A pc : Idle(TopAt(pc))
    BY DEF Rest, TopAt, PublishFrame, ShutdownFrame, UnregisterFrame,
           ExecuteFrame, Idle
  <2> HIDE DEF Rest, TopAt
  <2>3. DeliverNext => HandsInv'
    BY <1>3, <2>1, <2>2, KernelShapes
  <2>4. UnregisterRemoves => HandsInv'
    BY <1>3, <2>1, <2>2, KernelShapes
  <2>5. ShutdownNext => HandsInv'
    BY <1>3, <2>1, <2>2, KernelShapes
  <2>6. ExecuteCallsPlugin \/ ExecuteFails \/ ExecuteCompletes => HandsInv'
    BY <1>3, <2>1, <2>2, KernelShapes
  <2> QED
    BY <1>14, <2>3, <2>4, <2>5, <2>6
<1> QED
  BY <1>9, <1>10, <1>11, <1>12, <1>13, <1>14
     DEF Next, UserEnds, Kernel, Transitions

(* What the frames below the ones a step touches say of plugins: only what *)
(* is in Q may be initialized or registered by the step.                   *)
Waits(f) ==
  \/ f.fn = "register" /\ f.pc \in {"initialize", "rollback"}
  \/ f.fn = "unregister" /\ f.pc = "shutdown"

Alters(Q) ==
  \A p \in Plugins \ Q :
    /\ life[p] = "discovered" => life'[p] = "discovered"
    /\ p \notin Registered => p \notin Registered'

LEMMA PendingKept ==
  ASSUME Alive, NEW Q, Alters(Q), NEW f \in Frame, Pending(f),
         \A p \in Q : ~ Holds(f, p)
  PROVE  Pending(f)' /\ (~ Waits(f) => Back(f)')
<1>1. CASE f.fn = "load"
  <2>1. f.todo \in Seq(Plugins)
    BY <1>1, FrameOf DEF LoadFrame
  <2>2. ASSUME NEW k \in DOMAIN f.todo
        PROVE  Fresh(f.todo[k])'
    <3>1. f.todo[k] \in Plugins \ Q /\ Fresh(f.todo[k])
      BY <1>1, <2>1, <2>2, LenProperties, ElementOfSeq DEF Holds, Pending
    <3> QED
      BY <3>1 DEF Alters, Fresh
  <2> QED
    BY <1>1, <2>2 DEF Pending, Back
<1>2. CASE f.fn = "register"
  <2>1. f.plugin \in Plugins \ Q
    BY <1>2, FrameOf DEF RegisterFrame, Holds
  <2> QED
    BY <1>2, <2>1 DEF Pending, Back, Waits, Fresh, Alters
<1>3. CASE f.fn = "unregister" /\ f.pc = "shutdown"
  <2>1. f.plugin \in Plugins
    BY <1>3, FrameOf DEF UnregisterFrame
  <2> QED
    BY <1>3, <2>1 DEF Pending, Waits, Alive
<1> QED
  BY <1>1, <1>2, <1>3 DEF Pending, Back, Waits

LEMMA FramesFrom ==
  ASSUME TypeOK, LifeInv, NEW k \in Nat, k <= Height, k <= Height',
         Height' \in Nat, Reshapes(k, Height'), Alive, NEW Q, Alters(Q),
         \A i \in 1 .. k :
           /\ i < Height \/ stack[i].fn = "callback"
           /\ \A p \in Q : ~ Holds(stack[i], p)
           /\ i = Height' /\ control' = "return" => ~ Waits(stack[i]),
         \A i \in k + 1 .. Height' : FrameKept(i)' /\ Hosted(i)'
  PROVE  \A i \in 1 .. Height' : FrameKept(i)' /\ Hosted(i)'
<1>1. /\ Height \in Nat
      /\ \A i \in 1 .. k : i \in 1 .. Height /\ i \in 1 .. Height'
                           /\ stack'[i] = stack[i] /\ stack[i] \in Frame
      /\ \A i \in 1 .. Height' : i \in 1 .. k \/ i \in k + 1 .. Height'
  BY StackIndices DEF Reshapes
<1>2. ASSUME NEW i \in 1 .. k
      PROVE  FrameKept(i)' /\ Hosted(i)'
  <2>1. FrameKept(i) /\ Hosted(i) /\ i \in 1 .. Height
    BY <1>1 DEF LifeInv
  <2>2. PICK f \in Frame : f = stack[i] /\ f = stack'[i]
    BY <1>1
  <2>3. Pending(f)
    <3>1. CASE i < Height
      BY <1>1, <2>1, <2>2, <3>1 DEF FrameKept
    <3>2. CASE f.fn = "callback"
      BY <3>2 DEF Pending
    <3> QED
      BY <2>2, <3>1, <3>2
  <2>4. Pending(f)' /\ (~ Waits(f) => Back(f)')
    BY <2>2, <2>3, PendingKept
  <2>5. i = Height' /\ control' = "return" => Back(f)'
    BY <2>2, <2>4
  <2>6. FrameKept(i)'
    BY <2>2, <2>4, <2>5 DEF FrameKept, Pending, Back
  <2>7. Hosted(i)'
    BY <1>1, <2>1, <2>2 DEF Hosted
  <2> QED
    BY <2>6, <2>7
<1> QED
  BY <1>1, <1>2

(* A step that changes no plugin, and is not the one that removes what was *)
(* shut down.                                                              *)
LEMMA LifeSame ==
  ASSUME TypeOK, LifeInv, NEW k \in Nat, k <= Height, k <= Height',
         Height' \in Nat, Reshapes(k, Height'), UNCHANGED <<registry, life>>,
         ~ Returned("unregister", "shutdown"),
         \A i \in 1 .. k :
           /\ i < Height \/ stack[i].fn = "callback"
           /\ i = Height' /\ control' = "return" => ~ Waits(stack[i]),
         \A i \in k + 1 .. Height' : FrameKept(i)' /\ Hosted(i)'
  PROVE  LifeInv'
<1>1. Registered' = Registered
  BY DEF Registered
<1>2. Alive /\ Alters({})
  BY <1>1 DEF Alive, Alters
<1>3. \A i \in 1 .. k, p \in {} : ~ Holds(stack[i], p)
  OBVIOUS
<1>4. \A i \in 1 .. Height' : FrameKept(i)' /\ Hosted(i)'
  BY <1>2, <1>3, FramesFrom
<1>5. \A p \in Plugins : RegisteredRuns(p)'
  BY <1>1 DEF LifeInv, RegisteredRuns
<1> QED
  BY <1>4, <1>5 DEF LifeInv

LEMMA LifePush ==
  ASSUME TypeOK, NestInv, LifeInv, control = "user",
         UNCHANGED <<registry, life>>,
         Height' \in Nat, Height <= Height', Reshapes(Height, Height'),
         \A i \in Height + 1 .. Height' : FrameKept(i)' /\ Hosted(i)'
  PROVE  LifeInv'
<1>1. Height \in Nat
  BY StackIndices
<1>2. Height # 0 => stack[Height].fn = "callback"
  BY DEF NestInv
<1>3. \A i \in 1 .. Height :
        /\ i < Height \/ stack[i].fn = "callback"
        /\ i = Height' /\ control' = "return" => ~ Waits(stack[i])
  BY <1>1, <1>2 DEF Waits
<1>4. ~ Returned("unregister", "shutdown")
  BY DEF Returned
<1> QED
  BY <1>1, <1>3, <1>4, LifeSame

LEMMA LifeCalls ==
  ASSUME TypeOK, NestInv, LifeInv, OneHand, UserCalls
  PROVE  LifeInv'
<1>1. Height \in Nat
  BY StackIndices
<1>2. control = "user"
  BY DEF UserCalls, DirectCalls, CallSubscribe, CallUnsubscribe, CallClear,
         CallRegister, CallLoad, CallUnregister, CallShutdown, CallExecute,
         CallExecuteCapability, Make
<1>3. \A p \in Plugins : p \in Registered => life[p] = "running"
  BY <1>2 DEF LifeInv, RegisteredRuns, Returned
<1>4. UNCHANGED <<registry, life>>
  BY DEF UserCalls, DirectCalls, CallSubscribe, CallUnsubscribe, CallClear,
         CallRegister, CallLoad, CallUnregister, CallShutdown, CallExecute,
         CallExecuteCapability, BeginExecution
<1>5. Registered' = Registered /\ \A p : Fresh(p)' <=> Fresh(p)
  BY <1>4 DEF Registered, Fresh
<1>6. ASSUME UNCHANGED stack
      PROVE  LifeInv'
  <2>1. Height' = Height /\ Reshapes(Height, Height')
        /\ \A i \in Height + 1 .. Height' : FALSE
    BY <1>1, <1>6 DEF Height, Reshapes
  <2> QED
    BY <1>1, <1>2, <1>4, <2>1, LifePush
<1>7. ASSUME NEW f, Pushes1(f), control' = "return", f.fn # "callback",
             Back(f)'
      PROVE  LifeInv'
  <2>1. /\ Height' = Height + 1 /\ Reshapes(Height, Height')
        /\ stack'[Height'] = f
        /\ \A i \in Height + 1 .. Height' : i = Height'
    BY <1>1, <1>7 DEF Pushes1, Reshapes, Height
  <2>2. \A i \in Height + 1 .. Height' : FrameKept(i)' /\ Hosted(i)'
    BY <1>7, <2>1 DEF FrameKept, Hosted, Back
  <2> QED
    BY <1>1, <1>2, <1>4, <1>7, <2>1, <2>2, LifePush
<1>8. ASSUME NEW f, NEW g, Pushes2(f, g), f.fn # "callback",
             Pending(f)', Pending(g)', Back(g)'
      PROVE  LifeInv'
  <2>1. /\ Height' = Height + 2 /\ Reshapes(Height, Height')
        /\ stack'[Height + 1] = f /\ stack'[Height'] = g
        /\ \A i \in Height + 1 .. Height' : i = Height + 1 \/ i = Height'
        /\ Height + 1 # Height' /\ Height' # 1
    BY <1>1, <1>8 DEF Pushes2, Reshapes, Height
  <2>2. \A i \in Height + 1 .. Height' : FrameKept(i)' /\ Hosted(i)'
    BY <1>8, <2>1 DEF FrameKept, Hosted, Back, Pending
  <2> QED
    BY <1>1, <1>2, <1>4, <1>8, <2>1, <2>2, LifePush
<1>9. ASSUME NEW p \in Plugins, CallRegister(p)
       PROVE  LifeInv'
  <2> DEFINE f == Registering(p)
             g == Callback("initialize", p)
  <2>1. Pushes2(f, g) /\ control' = "user"
    BY <1>9, CallShapes DEF CallRegister, CallUser
  <2>2. Fresh(p)
    BY <1>3, <1>9 DEF CallRegister, OneHand, Handed, Fresh
  <2>3. Pending(f)'
    BY <1>5, <2>2 DEF Pending, Registering
  <2>4. f.fn # "callback" /\ Pending(g)' /\ Back(g)'
    BY DEF Pending, Back, Registering, Callback
  <2> HIDE DEF f, g
  <2> QED
    BY <1>8, <2>1, <2>3, <2>4
<1>10. ASSUME NEW plugins \in Loads, CallLoad(plugins)
       PROVE  LifeInv'
  <2> DEFINE f == Loading(plugins)
  <2>1. \/ control' = "return" /\ Pushes1(f)
        \/ UNCHANGED stack
    BY <1>10, CallShapes
  <2>2. ASSUME NEW k \in DOMAIN plugins
        PROVE  Fresh(plugins[k])'
    <3>1. plugins[k] \in Plugins
      BY LoadsAssumption, LenProperties, ElementOfSeq
    <3>2. life[plugins[k]] = "discovered"
      BY <1>10 DEF CallLoad, Handed
    <3> QED
      BY <1>3, <1>5, <3>1, <3>2 DEF Fresh
  <2>3. f.fn # "callback" /\ Back(f)'
    BY <2>2 DEF Loading, Back
  <2> HIDE DEF f
  <2> QED
    BY <1>6, <1>7, <2>1, <2>3
<1>11. ASSUME NEW id \in PluginIds, CallUnregister(id)
       PROVE  LifeInv'
  <2>1. PICK f, g : f = Unregistering(id) /\ g = Callback("shutdown", Lookup(id))
    OBVIOUS
  <2>2. \/ UNCHANGED stack
        \/ HasId(id) /\ control' = "user" /\ Pushes2(f, g)
    BY <1>11, <2>1, CallShapes
  <2>3. HasId(id) => life[Lookup(id)] # "discovered" /\ Id[Lookup(id)] = id
    <3>1. HasId(id) =>
            /\ Lookup(id) \in Registered /\ Lookup(id) \in Plugins
            /\ Id[Lookup(id)] = id
      BY LookupType, LenProperties DEF TypeOK, Lookup, Registered
    <3> QED
      BY <1>3, <3>1
  <2>4. HasId(id) => Pending(f)'
    BY <1>4, <2>1, <2>3 DEF Pending, Unregistering
  <2>5. f.fn # "callback" /\ Pending(g)' /\ Back(g)'
    BY <2>1 DEF Pending, Back, Unregistering, Callback
  <2> QED
    BY <1>6, <1>8, <2>2, <2>4, <2>5
<1>12. CASE CallShutdown
  <2>1. Pushes1(ShuttingDown) /\ control' = "return"
    BY <1>12, CallShapes DEF CallShutdown
  <2>2. ShuttingDown.fn = "shutdown"
    BY DEF ShuttingDown
  <2>3. PICK f : f = ShuttingDown
    OBVIOUS
  <2>4. Pushes1(f) /\ f.fn = "shutdown"
    BY <2>1, <2>2, <2>3
  <2>5. Back(f)'
    BY <2>4 DEF Back
  <2> QED
    BY <1>7, <2>1, <2>4, <2>5
<1>13. ASSUME NEW id \in PluginIds, NEW capability \in Capabilities,
              NEW routed \in BOOLEAN, BeginExecution(id, capability, routed)
       PROVE  LifeInv'
  <2>1. PICK f, g : f.fn = "execute" /\ g.fn = "publish" /\ Pushes2(f, g)
    BY <1>13, CallShapes DEF Executing, Delivery
  <2>2. control' = "return"
    BY <1>13 DEF BeginExecution, Publish
  <2>3. Pending(f)' /\ Pending(g)' /\ Back(g)'
    BY <2>1 DEF Pending, Back
  <2> QED
    BY <1>8, <2>1, <2>2, <2>3
<1>14. \A i \in DOMAIN registry : Id[registry[i]] \in PluginIds
  BY IdAssumption, LenProperties, ElementOfSeq DEF TypeOK
<1>15. ASSUME NEW capability \in Capabilities, CallExecuteCapability(capability)
       PROVE  LifeInv'
  BY <1>6, <1>13, <1>14, <1>15 DEF CallExecuteCapability, FindByCapability
<1>16. ASSUME NEW id \in PluginIds, NEW capability \in Capabilities,
              CallExecute(id, capability)
       PROVE  LifeInv'
  BY <1>13, <1>16 DEF CallExecute
<1> QED
  BY <1>6, <1>9, <1>10, <1>11, <1>12, <1>15, <1>16
     DEF UserCalls, DirectCalls, CallSubscribe, CallUnsubscribe, CallClear

(* A function or a callback ends, and no plugin was initialized or shut    *)
(* down.                                                                   *)
LEMMA LifePop ==
  ASSUME TypeOK, NestInv, LifeInv, UNCHANGED <<registry, life>>,
         \/ UserPropagates \/ UserRaises \/ Returns \/ Reraises
         \/ ExecuteMisreads \/ Unwind
         \/ (UserReturns /\ Top.kind \notin {"initialize", "shutdown"})
  PROVE  LifeInv'
<1> USE DEF On, At, Returned, OnlyControl
<1>1. Height \in Nat \ {0} /\ Top = stack[Height] /\ Height \in 1 .. Height
  BY EndShapes, StackIndices DEF Pops
<1>2. PICK k \in Nat : Height = k + 1
  <2>1. Height - 1 \in Nat /\ Height = (Height - 1) + 1
    BY <1>1
  <2> QED
    BY <2>1
<1>3. /\ Height' = k /\ Reshapes(k, Height')
      /\ \A i \in k + 1 .. Height' : FALSE
      /\ \A i \in 1 .. k : i < Height
      /\ k <= Height /\ k <= Height'
  BY <1>2, EndShapes DEF Pops, Reshapes, Height
<1>4. ASSUME NEW i \in 1 .. k, i = Height', control' = "return", Waits(stack[i])
      PROVE  FALSE
  <2>1. i \in 1 .. Height - 1 /\ i + 1 = Height
    BY <1>2, <1>3, <1>4
  <2>2. CalledBy(stack[i], Top)
    BY <1>1, <2>1 DEF NestInv
  <2>3. Top.fn = "callback" /\ Top.kind \in {"initialize", "shutdown"}
    BY <1>4, <2>2 DEF Waits, CalledBy, Callback
  <2> QED
    BY <1>4, <2>3 DEF UserPropagates, UserRaises, Returns, Reraises,
                      ExecuteMisreads, Unwind, Leave
<1>5. ~ Returned("unregister", "shutdown")
  BY DEF UserPropagates, UserRaises, Returns, Reraises, ExecuteMisreads, Unwind,
         UserReturns
<1> QED
  BY <1>3, <1>4, <1>5, LifeSame

(* What waits below user code that initializes or shuts down a plugin.     *)
LEMMA WaitsBelow ==
  ASSUME TypeOK, NestInv, LifeInv, UserReturns,
         Top.kind \in {"initialize", "shutdown"}
  PROVE  \E k \in Nat, g \in Frame, q \in Plugins :
           /\ Height = k + 2 /\ Height' = k + 1 /\ Reshapes(k, Height')
           /\ stack[k + 1] = g /\ stack'[k + 1] = g
           /\ Waits(g) /\ Pending(g) /\ q = g.plugin /\ Top.who = q
           /\ Top.kind = "initialize" <=> g.fn = "register" /\ g.pc = "initialize"
<1> USE DEF On, At, Returned
<1>1. Height \in Nat \ {0} /\ Top = stack[Height] /\ Height \in 1 .. Height
  BY EndShapes, StackIndices DEF Pops
<1>2. Height # 1 /\ control = "user" /\ Top.fn = "callback"
  BY <1>1 DEF LifeInv, Hosted, UserReturns
<1>3. PICK k \in Nat : Height = k + 2
  <2>1. Height - 2 \in Nat /\ Height = (Height - 2) + 2
    BY <1>1, <1>2
  <2> QED
    BY <2>1
<1>4. /\ Height' = k + 1 /\ Reshapes(k, Height')
      /\ stack'[k + 1] = stack[k + 1]
      /\ k + 1 \in 1 .. Height - 1 /\ k + 1 \in 1 .. Height /\ k + 1 # Height
      /\ (k + 1) + 1 = Height
  BY <1>3, EndShapes DEF Pops, Reshapes, Height
<1>5. PICK g \in Frame : g = stack[k + 1]
  BY <1>4, StackIndices
<1>6. PICK q : q = g.plugin
  OBVIOUS
<1>7. /\ Waits(g) /\ Top = Callback(Top.kind, q) /\ Pending(g)
      /\ Top.kind = "initialize" <=> g.fn = "register" /\ g.pc = "initialize"
  <2>1. CalledBy(g, Top) /\ FrameKept(k + 1)
    BY <1>1, <1>4, <1>5 DEF NestInv, LifeInv
  <2> QED
    BY <1>2, <1>4, <1>5, <1>6, <2>1 DEF CalledBy, Callback, Waits, FrameKept
<1>8. q \in Plugins /\ Top.who = q
  <2>1. Top.who = q
    BY <1>7 DEF Callback
  <2>2. q \in Plugins
    BY <1>5, <1>6, <1>7, FrameOf DEF Waits, RegisterFrame, UnregisterFrame
  <2> QED
    BY <2>1, <2>2
<1> QED
  BY <1>3, <1>4, <1>5, <1>6, <1>7, <1>8

(* A plugin was initialized or shut down: the call right below waits.      *)
LEMMA LifeEnd ==
  ASSUME TypeOK, NestInv, HandsInv, LifeInv, [Next]_vars,
         UserReturns, Top.kind \in {"initialize", "shutdown"}
  PROVE  LifeInv'
<1> USE DEF On, At, Returned
<1>1. PICK k \in Nat, g \in Frame, q \in Plugins :
        /\ Height = k + 2 /\ Height' = k + 1 /\ Reshapes(k, Height')
        /\ stack[k + 1] = g /\ stack'[k + 1] = g
        /\ Waits(g) /\ Pending(g) /\ q = g.plugin /\ Top.who = q
        /\ Top.kind = "initialize" <=> g.fn = "register" /\ g.pc = "initialize"
  BY WaitsBelow
<1>2. /\ \A i \in 1 .. k : i < Height /\ i \in 1 .. Height /\ i # k + 1
      /\ k + 1 \in 1 .. Height
      /\ \A i \in k + 1 .. Height' : i = k + 1
      /\ k <= Height /\ k <= Height' /\ Height' \in Nat
      /\ k + 1 # 1 \/ k + 1 = 1
  BY <1>1
<1>3. control' = "return" /\ control = "user" /\ Registered' = Registered
  BY DEF UserReturns, Leave, Registered
<1>4. PICK state \in {"running", "stopped"} :
        /\ life' = [life EXCEPT ![q] = state]
        /\ state = "running" <=> Top.kind = "initialize"
  <2>1. CASE Top.kind = "initialize"
    BY <1>1, <2>1 DEF UserReturns
  <2>2. CASE Top.kind = "shutdown"
    BY <1>1, <2>2 DEF UserReturns
  <2> QED
    BY <2>1, <2>2
<1>5. life'[q] = state /\ \A p \in Plugins \ {q} : life'[p] = life[p]
  BY <1>4 DEF TypeOK
<1>6. Alive
  BY <1>5 DEF Alive
<1>7. Back(g)'
  <2>1. CASE g.fn = "register" /\ g.pc = "initialize"
    BY <1>1, <1>3, <1>4, <1>5, <2>1 DEF Pending, Back, Fresh
  <2>2. CASE g.fn = "register" /\ g.pc = "rollback"
    BY <1>1, <1>3, <1>4, <1>5, <2>2 DEF Pending, Back
  <2>3. CASE g.fn = "unregister" /\ g.pc = "shutdown"
    BY <1>1, <1>3, <1>4, <1>5, <2>3 DEF Pending, Back
  <2> QED
    BY <1>1, <2>1, <2>2, <2>3 DEF Waits
<1>8. \A i \in k + 1 .. Height' : FrameKept(i)' /\ Hosted(i)'
  BY <1>1, <1>2, <1>3, <1>7 DEF FrameKept, Hosted, Waits
<1>9. TypeOK' /\ Top' = stack'[Height'] /\ stack' # << >>
  <2>1. TypeOK'
    BY TypeOKStep
  <2>2. stack' \in Seq(Frame)
    BY <2>1 DEF TypeOK
  <2> HIDE DEF Frame
  <2> QED
    BY <1>1, <2>1, <2>2, EmptySeq DEF Top, Height
<1>10. RegisteredRuns(q)'
  <2>1. CASE g.fn = "register" /\ g.pc = "initialize"
    BY <1>1, <1>3, <2>1 DEF RegisteredRuns, Pending, Fresh
  <2>2. CASE g.fn = "register" /\ g.pc = "rollback"
    BY <1>1, <1>3, <2>2 DEF RegisteredRuns, Pending
  <2>3. CASE g.fn = "unregister" /\ g.pc = "shutdown"
    BY <1>1, <1>3, <1>9, <2>3 DEF RegisteredRuns
  <2> QED
    BY <1>1, <2>1, <2>2, <2>3 DEF Waits
<1>11. ASSUME NEW p \in Plugins
       PROVE  RegisteredRuns(p)'
  <2>1. CASE p = q
    BY <1>10, <2>1
  <2>2. CASE p # q
    <3>1. RegisteredRuns(p) /\ life'[p] = life[p]
      BY <1>5, <2>2 DEF LifeInv
    <3> QED
      BY <1>3, <3>1 DEF RegisteredRuns
  <2> QED
    BY <2>1, <2>2
<1>12. g.fn = "register" \/ life[q] # "discovered"
  BY <1>1 DEF Waits, Pending
<1>13. CASE g.fn = "register"
  <2>1. Alters({q})
    BY <1>3, <1>5 DEF Alters
  <2>2. \A i \in 1 .. k, p \in {q} : ~ Holds(stack[i], p)
    <3>1. Holds(stack[k + 1], q)
      BY <1>1, <1>13 DEF Holds
    <3> QED
      BY <1>2, <3>1 DEF HandsInv
  <2>3. \A i \in 1 .. k : i # Height'
    BY <1>1
  <2>4. \A i \in 1 .. Height' : FrameKept(i)' /\ Hosted(i)'
    BY <1>1, <1>2, <1>6, <1>8, <2>1, <2>2, <2>3, FramesFrom
  <2> QED
    BY <1>11, <2>4 DEF LifeInv
<1>14. CASE life[q] # "discovered"
  <2>1. Alters({})
    BY <1>3, <1>5, <1>14 DEF Alters
  <2>2. \A i \in 1 .. k, p \in {} : ~ Holds(stack[i], p)
    OBVIOUS
  <2>3. \A i \in 1 .. k : i # Height'
    BY <1>1
  <2>4. \A i \in 1 .. Height' : FrameKept(i)' /\ Hosted(i)'
    BY <1>1, <1>2, <1>6, <1>8, <2>1, <2>2, <2>3, FramesFrom
  <2> QED
    BY <1>11, <2>4 DEF LifeInv
<1> QED
  BY <1>12, <1>13, <1>14

(* A kernel function on top goes on.                                       *)
LEMMA FramesResume ==
  ASSUME TypeOK, LifeInv, Height # 0,
         Height' \in Nat, Height <= Height', Reshapes(Height - 1, Height'),
         Alive, NEW Q, Alters(Q),
         \A i \in 1 .. Height - 1, p \in Q : ~ Holds(stack[i], p),
         \A i \in Height .. Height' : FrameKept(i)' /\ Hosted(i)'
  PROVE  \A i \in 1 .. Height' : FrameKept(i)' /\ Hosted(i)'
<1>1. Height \in Nat \ {0}
  BY StackIndices
<1>2. PICK k \in Nat : Height = k + 1
  <2>1. Height - 1 \in Nat /\ Height = (Height - 1) + 1
    BY <1>1
  <2> QED
    BY <2>1
<1>3. /\ Height - 1 = k /\ k <= Height /\ k <= Height'
      /\ \A i \in 1 .. k : i < Height /\ i # Height'
  BY <1>1, <1>2
<1>4. /\ Reshapes(k, Height')
      /\ \A i \in 1 .. k, p \in Q : ~ Holds(stack[i], p)
      /\ \A i \in k + 1 .. Height' : FrameKept(i)' /\ Hosted(i)'
  BY <1>2, <1>3
<1> QED
  BY <1>3, <1>4, FramesFrom

(* The steps of kernel functions that leave every plugin as it is.         *)
LEMMA LifeKernel ==
  ASSUME TypeOK, NestInv, LifeInv,
         \/ DeliverNext \/ RegisterRollsBack \/ LoadNext \/ ShutdownNext
         \/ ExecuteCallsPlugin \/ ExecuteFails \/ ExecuteCompletes
  PROVE  LifeInv'
<1> USE DEF On, At, Returned, OnlyControl
<1>1. Height \in Nat \ {0} /\ Top = stack[Height] /\ Height \in 1 .. Height
  <2>1. stack # << >>
    BY DEF DeliverNext, RegisterRollsBack, LoadNext, ShutdownNext,
           ExecuteCallsPlugin, ExecuteFails, ExecuteCompletes
  <2> QED
    BY <2>1, StackIndices
<1>2. /\ Top.fn \in {"publish", "register", "load", "shutdown", "execute"}
      /\ control' # "raise"
  BY DEF DeliverNext, RegisterRollsBack, LoadNext, ShutdownNext,
         ExecuteCallsPlugin, ExecuteFails, ExecuteCompletes, CallUser, Publish
<1>3. UNCHANGED <<registry, life>> /\ Registered' = Registered
      /\ \A p : Fresh(p)' <=> Fresh(p)
  BY DEF DeliverNext, RegisterRollsBack, LoadNext, ShutdownNext,
         ExecuteCallsPlugin, ExecuteFails, ExecuteCompletes, Registered, Fresh
<1>4. Alive /\ Alters({})
  BY <1>3 DEF Alive, Alters
<1>5. \A p \in Registered : life[p] = "running"
  <2>1. Registered \subseteq Plugins
    BY RegisteredIdsType DEF TypeOK
  <2> QED
    BY <1>2, <2>1 DEF LifeInv, RegisteredRuns
<1>6. ASSUME Height' \in Nat, Height <= Height', Reshapes(Height - 1, Height'),
             \A i \in Height .. Height' : FrameKept(i)' /\ Hosted(i)'
      PROVE  LifeInv'
  <2>1. \A i \in 1 .. Height - 1, p \in {} : ~ Holds(stack[i], p)
    OBVIOUS
  <2>2. \A i \in 1 .. Height' : FrameKept(i)' /\ Hosted(i)'
    BY <1>1, <1>4, <1>6, <2>1, FramesResume
  <2>3. \A p \in Plugins : RegisteredRuns(p)'
    BY <1>3, <1>5 DEF RegisteredRuns
  <2> QED
    BY <2>2, <2>3 DEF LifeInv
<1>7. ASSUME NEW f, Resumes(f), control' = "return", f.fn # "callback",
             Back(f)'
      PROVE  LifeInv'
  <2>1. /\ Height' = Height /\ Reshapes(Height - 1, Height') /\ stack'[Height] = f
        /\ \A i \in Height .. Height' : i = Height
    BY <1>1, <1>7 DEF Resumes, Reshapes, Height
  <2>2. \A i \in Height .. Height' : FrameKept(i)' /\ Hosted(i)'
    BY <1>7, <2>1 DEF FrameKept, Hosted, Back
  <2> QED
    BY <1>1, <1>6, <1>7, <2>1, <2>2
<1>8. ASSUME NEW f, NEW g, ResumesAndCalls(f, g), f.fn # "callback", Pending(f)',
             Pending(g)', Back(g)'
      PROVE  LifeInv'
  <2>1. /\ Height' = Height + 1 /\ Reshapes(Height - 1, Height')
        /\ stack'[Height] = f /\ stack'[Height'] = g
        /\ \A i \in Height .. Height' : i = Height \/ i = Height'
        /\ Height # Height' /\ Height' # 1
    BY <1>1, <1>8 DEF ResumesAndCalls, Reshapes, Height
  <2>2. \A i \in Height .. Height' : FrameKept(i)' /\ Hosted(i)'
    BY <1>8, <2>1 DEF FrameKept, Hosted, Pending, Back
  <2> QED
    BY <1>1, <1>6, <1>8, <2>1, <2>2
<1>9. ASSUME NEW f, NEW g, NEW h, ResumesAndCalls2(f, g, h), f.fn # "callback",
             g.fn # "callback", Pending(f)', Pending(g)', Pending(h)', Back(h)'
      PROVE  LifeInv'
  <2>1. /\ Height' = Height + 2 /\ Reshapes(Height - 1, Height')
        /\ stack'[Height] = f /\ stack'[Height + 1] = g /\ stack'[Height'] = h
        /\ \A i \in Height .. Height' : i = Height \/ i = Height + 1 \/ i = Height'
        /\ Height # Height' /\ Height + 1 # Height' /\ Height' # 1
    BY <1>1, <1>9 DEF ResumesAndCalls2, Reshapes, Height
  <2>2. \A i \in Height .. Height' : FrameKept(i)' /\ Hosted(i)'
    BY <1>9, <2>1 DEF FrameKept, Hosted, Pending, Back
  <2> QED
    BY <1>1, <1>6, <1>9, <2>1, <2>2
<1>10. control = "return" => Back(Top)
  BY <1>1 DEF LifeInv, FrameKept
<1>11. CASE DeliverNext
  <2>1. PICK f, g : /\ f.fn = "publish" /\ g.fn = "callback" /\ g.kind = "handle"
                    /\ ResumesAndCalls(f, g) /\ Top.fn = "publish"
    BY <1>11, KernelShapes DEF PublishFrame, Rest, Callback
  <2>2. Pending(f)' /\ Pending(g)' /\ Back(g)'
    BY <2>1 DEF Pending, Back
  <2> QED
    BY <1>8, <2>1, <2>2
<1>12. CASE RegisterRollsBack
  <2>1. PICK f, g : /\ f = TopAt("rollback") /\ g = Callback("shutdown", Top.plugin)
                    /\ ResumesAndCalls(f, g) /\ Top \in RegisterFrame
    BY <1>12, KernelShapes
  <2>2. /\ f.fn = "register" /\ f.pc = "rollback" /\ f.plugin = Top.plugin
        /\ Top.fn = "register" /\ Top.plugin \in Plugins /\ control' = "user"
    BY <1>12, <2>1 DEF TopAt, RegisterFrame, RegisterRollsBack, CallUser
  <2>3. f.plugin \notin Registered
    BY <1>10, <1>12, <2>2 DEF RegisterRollsBack, Back
  <2>4. Pending(f)' /\ Pending(g)' /\ Back(g)'
    BY <1>3, <2>1, <2>2, <2>3 DEF Pending, Back, Callback
  <2> QED
    BY <1>8, <2>1, <2>2, <2>4
<1>13. CASE LoadNext
  <2>1. PICK f, g, h : /\ f = Rest /\ g = Registering(Head(Top.todo))
                       /\ h = Callback("initialize", Head(Top.todo))
                       /\ ResumesAndCalls2(f, g, h) /\ Top \in LoadFrame
    BY <1>13, KernelShapes
  <2>2. /\ f.fn = "load" /\ f.todo = Tail(Top.todo) /\ Top.fn = "load"
        /\ g.fn = "register" /\ g.plugin = Head(Top.todo)
        /\ h.fn = "callback" /\ h.kind = "initialize"
    BY <2>1 DEF Rest, LoadFrame, Registering, Callback
  <2>3. Top.todo \in Seq(Plugins) /\ Top.todo # << >>
    BY <1>13, <2>1 DEF LoadFrame, LoadNext
  <2>4. PICK n \in Nat \ {0} :
          /\ DOMAIN Top.todo = 1 .. n /\ DOMAIN f.todo = 1 .. n - 1
          /\ Head(Top.todo) = Top.todo[1]
          /\ \A k \in 1 .. n - 1 : f.todo[k] = Top.todo[k + 1]
    <3>1. /\ Len(Top.todo) \in Nat \ {0} /\ DOMAIN Top.todo = 1 .. Len(Top.todo)
          /\ Tail(Top.todo) \in Seq(Plugins)
          /\ Len(Tail(Top.todo)) = Len(Top.todo) - 1
          /\ \A k \in 1 .. Len(Tail(Top.todo)) : Tail(Top.todo)[k] = Top.todo[k + 1]
          /\ Top.todo[1] = Head(Top.todo)
      BY <2>3, HeadTailProperties, LenProperties, EmptySeq
    <3>2. DOMAIN Tail(Top.todo) = 1 .. Len(Top.todo) - 1
      BY <3>1, LenProperties
    <3> QED
      BY <2>2, <3>1, <3>2
  <2>5. \A k \in 1 .. n - 1 : k + 1 \in 1 .. n
    BY <2>4
  <2>6. \A k \in 1 .. n : Fresh(Top.todo[k])
    BY <1>10, <1>13, <2>2, <2>4 DEF LoadNext, Back
  <2>7. Fresh(g.plugin)' /\ \A k \in DOMAIN f.todo : Fresh(f.todo[k])'
    BY <1>3, <2>2, <2>4, <2>5, <2>6
  <2>8. g.pc = "initialize"
    BY <2>1 DEF Registering
  <2>9. Pending(f)' /\ Pending(g)' /\ Pending(h)' /\ Back(h)'
    BY <2>2, <2>7, <2>8 DEF Pending, Back
  <2> QED
    BY <1>9, <2>1, <2>2, <2>9
<1>14. CASE ShutdownNext
  <2>1. PICK f, g, h : /\ f = Rest /\ g = Unregistering(Head(Top.todo))
                       /\ h = Callback("shutdown", Lookup(Head(Top.todo)))
    OBVIOUS
  <2>2. /\ Top \in ShutdownFrame
        /\ \/ /\ HasId(Head(Top.todo)) /\ control' = "user"
              /\ ResumesAndCalls2(f, g, h)
           \/ control' = "return" /\ Resumes(f)
    BY <1>14, <2>1, KernelShapes
  <2>3. /\ f.fn = "shutdown" /\ Top.fn = "shutdown" /\ g.fn = "unregister"
        /\ g.plugin = Lookup(Head(Top.todo)) /\ g.id = Head(Top.todo)
        /\ h.fn = "callback"
    BY <2>1, <2>2 DEF Rest, ShutdownFrame, Unregistering, Callback
  <2>4. Pending(f)' /\ Back(f)' /\ Pending(h)' /\ Back(h)'
    BY <2>3 DEF Pending, Back
  <2>5. HasId(Head(Top.todo)) => Pending(g)'
    <3>1. HasId(Head(Top.todo)) =>
            g.plugin \in Registered /\ Id[g.plugin] = g.id
      BY <2>3, LookupType, LenProperties DEF TypeOK, Lookup, Registered
    <3> QED
      BY <1>3, <1>5, <2>3, <3>1 DEF Pending
  <2> QED
    BY <1>7, <1>9, <2>2, <2>3, <2>4, <2>5
<1>15. CASE ExecuteCallsPlugin \/ ExecuteFails \/ ExecuteCompletes
  <2>1. PICK f, g :
          /\ f.fn = "execute" /\ Top.fn = "execute"
          /\ g.fn \in {"publish", "callback"}
          /\ g.fn = "callback" => g.kind = "execute"
          /\ ResumesAndCalls(f, g)
    <3>1. \A pc : Top \in ExecuteFrame => TopAt(pc).fn = "execute"
      BY DEF TopAt, ExecuteFrame
    <3>2. \A event : Delivery(event).fn = "publish"
      BY DEF Delivery
    <3>3. \A who : /\ Callback("execute", who).fn = "callback"
                   /\ Callback("execute", who).kind = "execute"
      BY DEF Callback
    <3>4. Top \in ExecuteFrame => Top.fn = "execute"
      BY DEF ExecuteFrame
    <3> QED
      BY <1>15, <3>1, <3>2, <3>3, <3>4, KernelShapes
  <2>2. Pending(f)' /\ Pending(g)' /\ Back(g)'
    BY <2>1 DEF Pending, Back
  <2> QED
    BY <1>8, <2>1, <2>2
<1> QED
  BY <1>11, <1>12, <1>13, <1>14, <1>15

(* The step that registers a plugin, which was initialized for it.         *)
LEMMA LifeRegisters ==
  ASSUME TypeOK, NestInv, HandsInv, LifeInv, [Next]_vars, RegisterInserts
  PROVE  LifeInv'
<1> USE DEF On, At, Returned
<1>1. Height \in Nat \ {0} /\ Top = stack[Height] /\ Height \in 1 .. Height
  BY KernelShapes, StackIndices DEF ResumesAndCalls
<1>2. PICK f, g, q :
        /\ f = TopAt("announce") /\ g = Delivery(PluginEvent("registered", Id[q]))
        /\ q = Top.plugin
  OBVIOUS
<1>3. Top \in RegisterFrame /\ ResumesAndCalls(f, g)
  BY <1>2, KernelShapes
<1>4. /\ f.fn = "register" /\ f.pc = "announce" /\ g.fn = "publish"
      /\ q \in Plugins /\ Top.fn = "register" /\ control = "return"
      /\ Top.pc = "initialize" /\ control' = "return" /\ UNCHANGED life
  BY <1>2, <1>3 DEF TopAt, RegisterFrame, Delivery, RegisterInserts, Publish
<1>5. /\ Height' = Height + 1 /\ Reshapes(Height - 1, Height')
      /\ stack'[Height] = f /\ stack'[Height'] = g
      /\ \A i \in Height .. Height' : i = Height \/ i = Height'
      /\ Height # Height'
  BY <1>1, <1>3 DEF ResumesAndCalls, Reshapes, Height
<1>6. Registered' = Registered \cup {q}
  BY <1>2, RegistryStep
<1>7. q \notin Registered /\ life[q] = "running"
  BY <1>1, <1>2, <1>4 DEF LifeInv, FrameKept, Back
<1>8. Alive /\ Alters({q})
  BY <1>4, <1>6 DEF Alive, Alters
<1>9. ASSUME NEW i \in 1 .. Height - 1, Holds(stack[i], q)
      PROVE  FALSE
  <2>1. Holds(Top, q)
    BY <1>2, <1>4 DEF Holds
  <2>2. i \in 1 .. Height /\ i # Height
    BY <1>1
  <2> QED
    BY <1>1, <1>4, <1>9, <2>1, <2>2 DEF HandsInv
<1>10. \A i \in Height .. Height' : FrameKept(i)' /\ Hosted(i)'
  BY <1>4, <1>5 DEF FrameKept, Hosted, Pending, Back
<1>11. Height' \in Nat /\ Height <= Height'
  BY <1>1, <1>5
<1>12. \A i \in 1 .. Height' : FrameKept(i)' /\ Hosted(i)'
  BY <1>1, <1>5, <1>8, <1>9, <1>10, <1>11, FramesResume
<1>13. \A p \in Plugins : RegisteredRuns(p)'
  BY <1>4, <1>6, <1>7 DEF RegisteredRuns, LifeInv
<1> QED
  BY <1>12, <1>13 DEF LifeInv

(* The step that removes a plugin, behind the shutdown of one of that id.  *)
LEMMA LifeUnregisters ==
  ASSUME TypeOK, NestInv, UniqueIds, LifeInv, [Next]_vars, UnregisterRemoves
  PROVE  /\ LifeInv'
         /\ Returned("unregister", "shutdown")
         /\ life[Top.plugin] = "stopped"
         /\ \A p \in Registered : p \notin Registered' => Id[p] = Top.id
<1> USE DEF On, At, Returned
<1>1. Height \in Nat \ {0} /\ Top = stack[Height] /\ Height \in 1 .. Height
  BY KernelShapes, StackIndices DEF ResumesAndCalls
<1>2. PICK f, g, q :
        /\ f = TopAt("announce") /\ g = Delivery(PluginEvent("unregistered", Top.id))
        /\ q = Top.plugin
  OBVIOUS
<1>3. Top \in UnregisterFrame /\ ResumesAndCalls(f, g)
  BY <1>2, KernelShapes
<1>4. /\ f.fn = "unregister" /\ f.pc = "announce" /\ g.fn = "publish"
      /\ q \in Plugins /\ Top.fn = "unregister" /\ control = "return"
      /\ Top.pc = "shutdown" /\ control' = "return" /\ UNCHANGED life
      /\ Unregister(Top.id) /\ stack # << >>
  BY <1>2, <1>3 DEF TopAt, UnregisterFrame, Delivery, UnregisterRemoves, Publish
<1>5. /\ Height' = Height + 1 /\ Reshapes(Height - 1, Height')
      /\ stack'[Height] = f /\ stack'[Height'] = g
      /\ \A i \in Height .. Height' : i = Height \/ i = Height'
      /\ Height # Height'
  BY <1>1, <1>3 DEF ResumesAndCalls, Reshapes, Height
<1>6. Id[q] = Top.id /\ life[q] = "stopped"
  BY <1>1, <1>2, <1>4 DEF LifeInv, FrameKept, Back
<1>7. /\ Registered' \subseteq Registered /\ Registered \subseteq Plugins
      /\ \A p \in Registered' : Id[p] # Top.id
  <2>1. Registered' \subseteq Registered
    BY <1>4, RegistryStep DEF RegisterInserts
  <2> QED
    BY <1>4, <2>1, RemovedIsGone, RegisteredIdsType DEF TypeOK
<1>8. Alive /\ Alters({})
  BY <1>4, <1>7 DEF Alive, Alters
<1>9. \A i \in 1 .. Height - 1, p \in {} : ~ Holds(stack[i], p)
  OBVIOUS
<1>10. \A i \in Height .. Height' : FrameKept(i)' /\ Hosted(i)'
  BY <1>4, <1>5 DEF FrameKept, Hosted, Pending, Back
<1>11. Height' \in Nat /\ Height <= Height'
  BY <1>1, <1>5
<1>12. \A i \in 1 .. Height' : FrameKept(i)' /\ Hosted(i)'
  BY <1>1, <1>5, <1>8, <1>9, <1>10, <1>11, FramesResume
<1>13. ASSUME NEW p \in Plugins
       PROVE  RegisteredRuns(p)'
  <2>1. RegisteredRuns(p)
    BY DEF LifeInv
  <2> QED
    BY <1>2, <1>4, <1>6, <1>7, <2>1 DEF RegisteredRuns
<1>14. ASSUME NEW p \in Registered, p \notin Registered'
       PROVE  Id[p] = Top.id
  <2>1. CASE Id[p] # Top.id
    <3>1. PICK q2 \in Registered : q2 = p
      OBVIOUS
    <3>2. HasId(Id[p])
      BY DEF HasId, Registered
    <3>3. HasId(Id[p])'
      BY <1>4, <2>1, <3>2, OtherIdsStay
    <3>4. PICK r \in Registered' : Id[r] = Id[p]
      BY <3>3 DEF HasId, Registered
    <3>5. r = p
      BY <1>7, <3>4 DEF UniqueIds, Registered
    <3> QED
      BY <1>14, <3>4, <3>5
  <2> QED
    BY <2>1
<1> QED
  BY <1>2, <1>4, <1>6, <1>12, <1>13, <1>14 DEF LifeInv

LEMMA LifeInvStep ==
  ASSUME TypeOK, NestInv, UniqueIds, HandsInv, LifeInv, OneHand, [Next]_vars
  PROVE  LifeInv'
<1>1. CASE UNCHANGED vars
  <2>1. UNCHANGED <<stack, control, registry, life>>
    BY <1>1 DEF vars, kernelVars
  <2>2. Height' = Height /\ Registered' = Registered /\ Top' = Top
    BY <2>1 DEF Height, Registered, Top
  <2> QED
    BY <2>1, <2>2 DEF LifeInv, FrameKept, Hosted, Pending, Back, Fresh,
       RegisteredRuns, At, On, Returned
<1>2. CASE UserCalls
  BY <1>2, LifeCalls
<1>3. CASE UserResumes
  <2>1. Height \in Nat /\ Top = stack[Height]
    BY StackIndices
  <2>2. UNCHANGED <<stack, registry, life>> /\ control' = "user"
    BY <1>3 DEF UserResumes
  <2>3. Height # 0 => stack[Height].fn = "callback"
    BY <1>3, <2>1, StackIndices DEF UserResumes, On
  <2>4. ~ Returned("unregister", "shutdown")
    BY <1>3 DEF UserResumes, Returned, At, On
  <2>5. /\ Height' = Height /\ Reshapes(Height, Height')
        /\ \A i \in Height + 1 .. Height' : FALSE
    BY <2>1, <2>2 DEF Height, Reshapes
  <2>6. \A i \in 1 .. Height :
          /\ i < Height \/ stack[i].fn = "callback"
          /\ i = Height' /\ control' = "return" => ~ Waits(stack[i])
    BY <2>1, <2>2, <2>3
  <2> QED
    BY <2>1, <2>2, <2>4, <2>5, <2>6, LifeSame
<1>4. CASE UserEnds
  <2>1. UserPropagates \/ UserRaises => LifeInv'
    BY LifePop DEF UserPropagates, UserRaises, OnlyControl
  <2>2. UserReturns => LifeInv'
    <3>1. UserReturns /\ Top.kind \notin {"initialize", "shutdown"}
          => UNCHANGED <<registry, life>>
      BY DEF UserReturns
    <3> QED
      BY <3>1, LifeEnd, LifePop
  <2> QED
    BY <1>3, <1>4, <2>1, <2>2 DEF UserEnds
<1>5. CASE Kernel
  <2>1. Returns \/ Reraises \/ ExecuteMisreads \/ Unwind => LifeInv'
    BY LifePop DEF Returns, Reraises, ExecuteMisreads, Unwind, OnlyControl
  <2> QED
    BY <1>5, <2>1, LifeKernel, LifeRegisters, LifeUnregisters
       DEF Kernel, Transitions
<1> QED
  BY <1>1, <1>2, <1>4, <1>5 DEF Next

(* What leaves the registry, and what comes to run outside it.             *)
LEMMA LeavesAreExcused ==
  ASSUME TypeOK, NestInv, UniqueIds, LifeInv, [Next]_vars,
         NEW p \in Registered, p \notin Registered'
  PROVE  life[p] = "stopped" \/ TookThePlace(p)
<1>1. CASE UnregisterRemoves
  <2>1. /\ Returned("unregister", "shutdown") /\ life[Top.plugin] = "stopped"
        /\ Id[p] = Top.id
    BY <1>1, LifeUnregisters
  <2> QED
    BY <2>1 DEF TookThePlace
<1>2. CASE RegisterInserts
  BY <1>2, RegistryStep
<1>3. ASSUME UNCHANGED registry
      PROVE  FALSE
  BY <1>3 DEF Registered
<1> QED
  BY <1>1, <1>2, <1>3
     DEF Next, UserCalls, DirectCalls, UserEnds, Kernel, Transitions, vars,
         kernelVars, OnlyControl, CallSubscribe, CallUnsubscribe, CallClear,
         CallRegister, CallLoad, CallUnregister, CallShutdown, CallExecute,
         CallExecuteCapability, BeginExecution, UserResumes, UserPropagates,
         UserReturns, UserRaises, DeliverNext, RegisterRollsBack,
         LoadNext, ShutdownNext, ExecuteCallsPlugin, ExecuteMisreads,
         ExecuteFails, ExecuteCompletes, Returns, Reraises, Unwind

(* The call that registers or refuses a plugin, as a step leaves it.       *)
LEMMA RefusalOnTop ==
  ASSUME TypeOK, TypeOK', NestInv, LifeInv, [Next]_vars, NEW p \in Plugins,
         life[p] = "running", p \notin Registered', UNCHANGED life,
         Changing("register", {"initialize", "rollback"}, p),
         ~ Changing("register", {"initialize", "rollback"}, p)'
  PROVE  RefusedInVain(p)
<1> USE DEF On, At, Returned, OnlyControl
<1>1. /\ Height \in Nat /\ DOMAIN stack = 1 .. Height /\ Top = stack[Height]
      /\ stack = << >> <=> Height = 0
  BY StackIndices
<1>2. DOMAIN stack' = 1 .. Height' /\ Height' \in Nat
  <2>1. stack' \in Seq(Frame)
    BY DEF TypeOK
  <2> HIDE DEF Frame
  <2> QED
    BY <2>1, LenProperties DEF Height
<1>3. PICK i \in 1 .. Height :
        /\ stack[i].fn = "register" /\ stack[i].plugin = p
        /\ stack[i].pc \in {"initialize", "rollback"}
  BY <1>1 DEF Changing
<1>4. i = Height
  <2>1. SUFFICES ASSUME i # Height
                 PROVE  FALSE
    OBVIOUS
  <2>2. i \in 1 .. Height - 1 /\ Height # 0
    BY <1>1, <2>1
  <2>3. Reshapes(Height - 1, Height') /\ Height' >= Height - 1
    BY <2>2, LowerFrames
  <2>4. stack'[i] = stack[i] /\ i \in 1 .. Height'
    BY <1>1, <1>2, <2>2, <2>3 DEF Reshapes
  <2> QED
    BY <1>2, <1>3, <2>4 DEF Changing
<1>5. /\ Top.fn = "register" /\ Top.plugin = p /\ stack # << >>
      /\ Top.pc \in {"initialize", "rollback"}
      /\ control # "user" /\ FrameKept(Height)
  BY <1>1, <1>3, <1>4 DEF NestInv, LifeInv
<1>6. UNCHANGED stack => FALSE
  BY DEF Changing
<1>7. CASE control = "raise"
  <2>1. Pending(Top)
    BY <1>1, <1>5, <1>7 DEF FrameKept
  <2>2. Top.pc = "rollback"
    BY <1>5, <2>1 DEF Pending, Fresh
  <2> QED
    BY <1>5, <1>7, <2>2 DEF RefusedInVain
<1>8. CASE control = "return"
  <2>1. Back(Top)
    BY <1>1, <1>5, <1>8 DEF FrameKept
  <2>2. Top.pc = "initialize"
    BY <1>5, <2>1 DEF Back
  <2>3. CASE RegisterInserts
    BY <1>5, <2>3, RegistryStep
  <2>4. CASE RegisterRollsBack
    <3>1. PICK g : Top \in RegisterFrame /\ ResumesAndCalls(TopAt("rollback"), g)
      BY <2>4, KernelShapes
    <3>2. /\ TopAt("rollback").fn = "register" /\ TopAt("rollback").pc = "rollback"
          /\ TopAt("rollback").plugin = p
      BY <1>5, <3>1 DEF TopAt, RegisterFrame
    <3>3. stack'[Height] = TopAt("rollback") /\ Height' = Height + 1
      BY <3>1 DEF ResumesAndCalls, Reshapes, Height
    <3>4. Height \in 1 .. Height'
      BY <1>1, <1>3, <3>3
    <3> QED
      BY <1>2, <3>2, <3>3, <3>4 DEF Changing
  <2>5. ~ UserCalls
    BY <1>5 DEF UserCalls, DirectCalls, CallSubscribe, CallUnsubscribe,
       CallClear, CallRegister, CallLoad, CallUnregister, CallShutdown,
       CallExecute, CallExecuteCapability, Make
  <2>6. ~ UserEnds
    BY <1>5 DEF UserEnds, UserResumes, UserPropagates, UserReturns, UserRaises
  <2>7. ~ Kernel \/ RegisterInserts \/ RegisterRollsBack
    BY <1>5, <1>8, <2>2 DEF Kernel, Transitions, DeliverNext, LoadNext,
       UnregisterRemoves, ShutdownNext, ExecuteCallsPlugin, ExecuteMisreads,
       ExecuteFails, ExecuteCompletes, Returns, Reraises, Unwind
  <2> QED
    BY <1>6, <2>3, <2>4, <2>5, <2>6, <2>7 DEF Next, vars, kernelVars
<1> QED
  BY <1>5, <1>7, <1>8 DEF TypeOK

LEMMA LooseIsExcused ==
  ASSUME TypeOK, TypeOK', NestInv, UniqueIds, LifeInv, [Next]_vars,
         NEW p \in Plugins, ~ Loose(p), Loose(p)'
  PROVE  (TookThePlace(p) /\ p \in Registered) \/ RefusedInVain(p)
<1>1. /\ life'[p] = "running" /\ p \notin Registered'
      /\ ~ Changing("register", {"initialize", "rollback"}, p)'
  BY DEF Loose
<1>2. CASE UserReturns /\ Top.kind \in {"initialize", "shutdown"}
  <2>1. PICK k \in Nat, g \in Frame, q \in Plugins :
          /\ Height = k + 2 /\ Height' = k + 1 /\ Reshapes(k, Height')
          /\ stack[k + 1] = g /\ stack'[k + 1] = g
          /\ Waits(g) /\ Pending(g) /\ q = g.plugin /\ Top.who = q
          /\ Top.kind = "initialize" <=> g.fn = "register" /\ g.pc = "initialize"
    BY <1>2, WaitsBelow
  <2>2. DOMAIN stack = 1 .. Height /\ DOMAIN stack' = 1 .. Height'
    <3>1. stack' \in Seq(Frame) /\ stack \in Seq(Frame)
      BY DEF TypeOK
    <3> HIDE DEF Frame
    <3> QED
      BY <3>1, LenProperties DEF Height
  <2>3. k + 1 \in 1 .. Height'
    BY <2>1
  <2>4. p # q
    <3>1. SUFFICES ASSUME p = q
                   PROVE  FALSE
      OBVIOUS
    <3>2. CASE Top.kind = "initialize"
      BY <1>1, <2>1, <2>2, <2>3, <3>1, <3>2 DEF Changing
    <3>3. CASE Top.kind = "shutdown"
      <4>1. life' = [life EXCEPT ![p] = "stopped"]
        BY <1>2, <2>1, <3>1, <3>3 DEF UserReturns
      <4> QED
        BY <1>1, <4>1 DEF TypeOK
    <3> QED
      BY <1>2, <3>2, <3>3
  <2>5. life'[p] = life[p] /\ Registered' = Registered
    BY <1>2, <2>1, <2>4 DEF UserReturns, TypeOK, Registered
  <2>6. Changing("register", {"initialize", "rollback"}, p)
    BY <1>1, <2>5 DEF Loose
  <2>7. PICK i \in 1 .. Height :
          /\ stack[i].fn = "register" /\ stack[i].plugin = p
          /\ stack[i].pc \in {"initialize", "rollback"}
    BY <2>2, <2>6 DEF Changing
  <2>8. i # Height
    <3>1. Top = stack[Height] /\ Top.fn = "callback"
      BY <1>2, StackIndices DEF UserReturns, On
    <3> QED
      BY <2>7, <3>1
  <2>9. stack'[i] = stack[i] /\ i \in 1 .. Height'
    BY <2>1, <2>7, <2>8 DEF Reshapes
  <2> QED
    BY <1>1, <2>2, <2>7, <2>9 DEF Changing
<1>3. ASSUME UNCHANGED life
      PROVE  (TookThePlace(p) /\ p \in Registered) \/ RefusedInVain(p)
  <2>1. CASE p \in Registered
    <3>1. life[p] # "stopped"
      BY <1>1, <1>3
    <3> QED
      BY <1>1, <2>1, <3>1, LeavesAreExcused
  <2>2. CASE p \notin Registered
    <3>1. Changing("register", {"initialize", "rollback"}, p)
      BY <1>1, <1>3, <2>2 DEF Loose
    <3> QED
      BY <1>1, <1>3, <3>1, RefusalOnTop
  <2> QED
    BY <2>1, <2>2
<1> QED
  BY <1>2, <1>3
     DEF Next, UserCalls, DirectCalls, UserEnds, Kernel, Transitions, vars,
         kernelVars, OnlyControl, CallSubscribe, CallUnsubscribe, CallClear,
         CallRegister, CallLoad, CallUnregister, CallShutdown, CallExecute,
         CallExecuteCapability, BeginExecution, UserResumes, UserPropagates,
         UserReturns, UserRaises, DeliverNext, RegisterInserts,
         RegisterRollsBack, UnregisterRemoves,
         LoadNext, ShutdownNext, ExecuteCallsPlugin, ExecuteMisreads,
         ExecuteFails, ExecuteCompletes, Returns, Reraises, Unwind

(* The life of plugins follows the registry, whatever handlers, plugins    *)
(* and their shutdown methods do, when an instance is handed to the kernel *)
(* once.                                                                   *)
THEOREM LifeFollowsRegistry ==
  ASSUME OneHand
  PROVE  Spec => LifecycleMatchesRegistry
<1> DEFINE Inv == NestInv /\ RegistryInv /\ HandsInv /\ LifeInv
<1>1. Init => Inv
  <2>1. Init => RegistryInv
    BY DEF Init, RegistryInv, UniqueIds, LogExplainsRegistry, HasId, Explained
  <2>2. Init => Height = 0 /\ Registered = {}
    BY EmptySeq DEF Init, Height, Registered
  <2>3. Init => HandsInv /\ LifeInv
    BY <2>2 DEF Init, HandsInv, LifeInv, RegisteredRuns
  <2> QED
    BY <2>1, <2>3, NestInitially
<1>2. TypeOK /\ Inv /\ [Next]_vars => Inv'
  BY NestStep, RegistryInvStep, HandsStep, LifeInvStep DEF RegistryInv
<1>3. TypeOK /\ Inv => RegisteredIsRunning
  <2> SUFFICES ASSUME TypeOK, LifeInv
               PROVE  RegisteredIsRunning
    OBVIOUS
  <2>1. DOMAIN stack = 1 .. Height /\ Top = stack[Height]
        /\ (stack # << >> => Height \in 1 .. Height)
    BY StackIndices
  <2>2. Registered \subseteq Plugins
    BY RegisteredIdsType DEF TypeOK
  <2>3. ASSUME NEW p \in Registered, life[p] # "running"
        PROVE  Changing("unregister", {"shutdown"}, p)
    BY <2>1, <2>2, <2>3 DEF LifeInv, RegisteredRuns, Returned, At, On, Changing
  <2> QED
    BY <2>3 DEF RegisteredIsRunning
<1>4. TypeOK /\ TypeOK' /\ Inv /\ [Next]_vars => LifeStep
  BY LeavesAreExcused, LooseIsExcused DEF LifeStep, RegistryInv
<1>5. LifeStep => [LifeStep]_vars
  OBVIOUS
<1> HIDE DEF Inv
<1> QED
  BY <1>1, <1>2, <1>3, <1>4, <1>5, TypeCorrectness, PTL
     DEF Spec, LifecycleMatchesRegistry

-----------------------------------------------------------------------------
(* The executions implement the ledger.  Those in progress stand on the    *)
(* stack in the order they were begun, so the innermost has the largest    *)
(* number, and by RunsInv none of them has an outcome in the log.          *)

Open(i) ==
  /\ i \in 1 .. Height /\ stack[i].fn = "execute"
  /\ stack[i].pc \in {"started", "running"}

OrderInv ==
  /\ \A i : Open(i) => stack[i].run \in Runs
  /\ \A i, j : Open(i) /\ Open(j) /\ i < j => stack[i].run < stack[j].run

RunOutcomes == [run \in Runs |-> Status(run)]
Statuses == {"begun", "working", "completed", "failed", "abandoned"}

LEMMA OpenRunsAre ==
  ASSUME TypeOK
  PROVE  /\ \A run, pcs : OnStack("execute", pcs, run) <=>
              \E i \in 1 .. Height : /\ stack[i].fn = "execute"
                                     /\ stack[i].pc \in pcs
                                     /\ stack[i].run = run
         /\ OrderInv => OpenRuns = {stack[i].run : i \in {i \in 1 .. Height : Open(i)}}
         /\ \A run \in Runs : Status(run) \in Statuses
<1>1. \A run, pcs : OnStack("execute", pcs, run) <=>
              \E i \in 1 .. Height : /\ stack[i].fn = "execute"
                                     /\ stack[i].pc \in pcs
                                     /\ stack[i].run = run
  BY StackIndices DEF OnStack
<1>2. OrderInv => OpenRuns = {stack[i].run : i \in {i \in 1 .. Height : Open(i)}}
  BY <1>1 DEF OpenRuns, Open, OrderInv
<1>3. \A run \in Runs : Status(run) \in Statuses
  BY DEF Status, Statuses
<1>4. QED
  BY <1>1, <1>2, <1>3

(* An execution in progress is begun or working, as its frame says.        *)
LEMMA OpenStatus ==
  ASSUME TypeOK, RunsInv, OrderInv, NEW i, Open(i)
  PROVE  /\ stack[i].run \in Runs /\ stack[i].run \in OpenRuns
         /\ ~ Logged("completed", stack[i].run)
         /\ ~ Logged("failed", stack[i].run)
         /\ stack[i].pc = "started" => Status(stack[i].run) = "begun"
         /\ stack[i].pc = "running" => Status(stack[i].run) = "working"
<1>1. stack[i].run \in Runs /\ i \in DOMAIN stack /\ IsExecution(i)
  BY StackIndices DEF Open, OrderInv, IsExecution
<1>2. stack[i].run \in OpenRuns
  BY <1>1, OpenRunsAre DEF Open
<1>3. ~ Logged("completed", stack[i].run) /\ ~ Logged("failed", stack[i].run)
  BY <1>1 DEF RunsInv, Open, Logged, Terminal
<1>4. \A j \in 1 .. Height : Open(j) /\ stack[j].run = stack[i].run => j = i
  BY <1>1, StackIndices DEF RunsInv, Open, IsExecution
<1>5. CASE stack[i].pc = "started"
  <2>1. OnStack("execute", {"started"}, stack[i].run)
    BY <1>5, OpenRunsAre DEF Open
  <2>2. ~ OnStack("execute", {"running"}, stack[i].run)
    BY <1>4, <1>5, OpenRunsAre DEF Open
  <2>3. QED
    BY <1>1, <1>2, <1>3, <1>5, <2>1, <2>2 DEF Status
<1>6. CASE stack[i].pc = "running"
  <2>1. OnStack("execute", {"running"}, stack[i].run)
    BY <1>6, OpenRunsAre DEF Open
  <2>2. ~ OnStack("execute", {"started"}, stack[i].run)
    BY <1>4, <1>6, OpenRunsAre DEF Open
  <2>3. QED
    BY <1>1, <1>2, <1>3, <1>6, <2>1, <2>2 DEF Status
<1>7. QED
  BY <1>1, <1>2, <1>3, <1>5, <1>6

(* The execution on top of the stack is the innermost of the ledger.       *)
LEMMA TopIsInnermost ==
  ASSUME TypeOK, OrderInv, Open(Height)
  PROVE  Ledger!Innermost = Top.run /\ OpenRuns # {} /\ Top.run \in OpenRuns
<1>1. Height \in Nat /\ Top = stack[Height]
  BY StackIndices
<1>2. Top.run \in OpenRuns
  BY <1>1, OpenRunsAre DEF Open
<1>3. ASSUME NEW run \in OpenRuns
      PROVE  run \in Nat /\ run <= Top.run
  <2>1. PICK i \in 1 .. Height : Open(i) /\ run = stack[i].run
    BY OpenRunsAre
  <2>2. stack[i].run \in Nat /\ Top.run \in Nat
    BY <1>1, <2>1 DEF OrderInv, Runs
  <2>3. i = Height \/ i < Height
    BY <1>1, <2>1
  <2>4. QED
    BY <1>1, <2>1, <2>2, <2>3 DEF OrderInv
<1>4. \A run \in OpenRuns :
        (\A other \in OpenRuns : other <= run) => run = Top.run
  <2>1. ASSUME NEW run \in OpenRuns, \A other \in OpenRuns : other <= run
        PROVE  run = Top.run
    <3>1. Top.run <= run /\ run <= Top.run /\ run \in Nat /\ Top.run \in Nat
      BY <1>2, <1>3, <2>1
    <3>2. QED
      BY <3>1
  <2>2. QED
    BY <2>1
<1>5. QED
  BY <1>2, <1>3, <1>4 DEF Ledger!Innermost

(* Steps that no execution notices.                                        *)
SameOpen ==
  /\ \A i : Open(i)' <=> Open(i)
  /\ \A i : Open(i) => stack'[i].run = stack[i].run /\ stack'[i].pc = stack[i].pc

SameOutcomes ==
  \/ UNCHANGED log
  \/ \E event \in Event :
       log' = Append(log, event) /\ event.type \notin {"completed", "failed"}

LEMMA LoggedAppend ==
  ASSUME TypeOK, NEW event \in Event, log' = Append(log, event)
  PROVE  \A type, run : Logged(type, run)' <=>
           Logged(type, run) \/ (event.type = type /\ event.run = run)
<1>1. PICK n \in Nat : n = Len(log) /\ DOMAIN log = 1 .. n
  BY LenProperties DEF TypeOK
<1>2. /\ DOMAIN log' = 1 .. n + 1
      /\ \A i \in 1 .. n : log'[i] = log[i]
      /\ log'[n + 1] = event
  BY <1>1, AppendProperties, LenProperties DEF TypeOK
<1>3. /\ \A i \in 1 .. n + 1 : i \in 1 .. n \/ i = n + 1
      /\ \A i \in 1 .. n : i \in 1 .. n + 1
      /\ n + 1 \in 1 .. n + 1
  BY <1>1
<1>4. QED
  BY <1>1, <1>2, <1>3 DEF Logged

LEMMA OnStackIsOpen ==
  ASSUME TypeOK, TypeOK'
  PROVE  \A run, pcs : pcs \in SUBSET {"started", "running"} =>
           /\ OnStack("execute", pcs, run) <=>
                \E i : Open(i) /\ stack[i].pc \in pcs /\ stack[i].run = run
           /\ OnStack("execute", pcs, run)' <=>
                \E i : Open(i)' /\ stack'[i].pc \in pcs /\ stack'[i].run = run
<1>1. DOMAIN stack' = 1 .. Height' /\ DOMAIN stack = 1 .. Height
  BY LenProperties DEF TypeOK, Height
<1>2. QED
  BY <1>1 DEF OnStack, Open

LEMMA LedgerNeutral ==
  ASSUME TypeOK, TypeOK', OrderInv, UNCHANGED runs, SameOpen, SameOutcomes
  PROVE  OrderInv' /\ OpenRuns' = OpenRuns /\ RunOutcomes' = RunOutcomes
<1>1. OrderInv'
  BY DEF OrderInv, SameOpen, Runs
<1>2. \A run, pcs : pcs \in SUBSET {"started", "running"} =>
        (OnStack("execute", pcs, run)' <=> OnStack("execute", pcs, run))
  <2>1. ASSUME NEW run, NEW pcs \in SUBSET {"started", "running"}
        PROVE  OnStack("execute", pcs, run)' <=> OnStack("execute", pcs, run)
    <3>1. (\E i : Open(i) /\ stack[i].pc \in pcs /\ stack[i].run = run)
            <=> (\E i : Open(i)' /\ stack'[i].pc \in pcs /\ stack'[i].run = run)
      BY DEF SameOpen
    <3>2. QED
      BY <3>1, OnStackIsOpen
  <2>2. QED
    BY <2>1
<1>3. \A run : (Logged("completed", run)' <=> Logged("completed", run))
               /\ (Logged("failed", run)' <=> Logged("failed", run))
  <2>1. CASE UNCHANGED log
    BY <2>1 DEF Logged
  <2>2. CASE ~ UNCHANGED log
    BY <2>2, LoggedAppend DEF SameOutcomes
  <2>3. QED
    BY <2>1, <2>2
<1>4. OpenRuns' = OpenRuns
  BY <1>2 DEF OpenRuns, Runs
<1>5. \A run : Status(run)' = Status(run)
  BY <1>2, <1>3 DEF Status
<1>6. RunOutcomes' = RunOutcomes
  BY <1>5 DEF RunOutcomes, Runs
<1>7. QED
  BY <1>1, <1>4, <1>6

LEMMA OutcomesType ==
  ASSUME TypeOK
  PROVE  RunOutcomes \in Seq(Statuses) /\ Len(RunOutcomes) = runs
<1>1. RunOutcomes \in [1 .. runs -> Statuses]
  BY OpenRunsAre DEF RunOutcomes, Runs
<1>2. QED
  BY <1>1, FunctionIsSeq DEF TypeOK

LEMMA LedgerBegin ==
  ASSUME TypeOK, TypeOK', RunsInv, OrderInv, runs' = runs + 1,
         NEW event \in Event, event.type = "started",
         log' = Append(log, event),
         \A i : Open(i)' <=> Open(i) \/ i = Height + 1,
         \A i : Open(i) => stack'[i].run = stack[i].run
                           /\ stack'[i].pc = stack[i].pc,
         stack'[Height + 1].run = runs + 1, stack'[Height + 1].pc = "started"
  PROVE  OrderInv' /\ Ledger!Begin
<1>1. runs \in Nat /\ Height \in Nat /\ Runs' = Runs \cup {runs + 1}
  <2>1. runs \in Nat
    BY DEF TypeOK
  <2>2. 1 .. runs + 1 = 1 .. runs \cup {runs + 1}
    BY <2>1
  <2>3. QED
    BY <2>1, <2>2, StackIndices DEF Runs
<1>2. \A i : Open(i) => i < Height + 1 /\ stack[i].run < runs + 1
                       /\ stack[i].run \in Runs
  BY <1>1 DEF Open, OrderInv, Runs
<1>3. OrderInv'
  <2>1. \A i : Open(i)' => stack'[i].run \in Runs'
    BY <1>1, <1>2
  <2>2. ASSUME NEW i, NEW j, Open(i)', Open(j)', i < j
        PROVE  stack'[i].run < stack'[j].run
    <3>1. CASE Open(i) /\ Open(j)
      BY <2>2, <3>1 DEF OrderInv
    <3>2. CASE Open(i) /\ j = Height + 1
      BY <1>2, <3>2
    <3>3. CASE i = Height + 1
      <4>1. j \in Int /\ j <= Height + 1
        BY <1>1, <2>2 DEF Open
      <4>2. QED
        BY <1>1, <2>2, <3>3, <4>1
    <3>4. QED
      BY <2>2, <3>1, <3>2, <3>3
  <2>3. QED
    BY <2>1, <2>2 DEF OrderInv
<1>4. \A run \in Runs : \A pcs : pcs \in SUBSET {"started", "running"} =>
        (OnStack("execute", pcs, run)' <=> OnStack("execute", pcs, run))
  <2>1. ASSUME NEW run \in Runs, NEW pcs \in SUBSET {"started", "running"}
        PROVE  OnStack("execute", pcs, run)' <=> OnStack("execute", pcs, run)
    <3>1. run # runs + 1
      BY <1>1 DEF Runs
    <3>2. ASSUME NEW i, Open(i)', stack'[i].pc \in pcs, stack'[i].run = run
          PROVE  Open(i) /\ stack[i].pc \in pcs /\ stack[i].run = run
      <4>1. i # Height + 1
        BY <3>1, <3>2
      <4>2. QED
        BY <3>2, <4>1
    <3>3. ASSUME NEW i, Open(i), stack[i].pc \in pcs, stack[i].run = run
          PROVE  Open(i)' /\ stack'[i].pc \in pcs /\ stack'[i].run = run
      BY <3>3
    <3>4. OnStack("execute", pcs, run) <=>
            \E i : Open(i) /\ stack[i].pc \in pcs /\ stack[i].run = run
      BY OnStackIsOpen
    <3>5. OnStack("execute", pcs, run)' <=>
            \E i : Open(i)' /\ stack'[i].pc \in pcs /\ stack'[i].run = run
      BY OnStackIsOpen
    <3>6. QED
      BY <3>2, <3>3, <3>4, <3>5
  <2>2. QED
    BY <2>1
<1>5. \A type, run : type \in {"completed", "failed"} =>
        (Logged(type, run)' <=> Logged(type, run))
  BY LoggedAppend
<1>6. \A run \in Runs : Status(run)' = Status(run)
  BY <1>4, <1>5 DEF Status
<1>7. ASSUME NEW run, run = runs + 1
      PROVE  Status(run)' = "begun" /\ OnStack("execute", {"started"}, run)'
  <2>1. ~ Logged("completed", run) /\ ~ Logged("failed", run)
    <3>1. ASSUME NEW i \in DOMAIN log, Terminal(i)
          PROVE  log[i].run # run
      <4>1. log[i] \in Event
        BY LenProperties, ElementOfSeq DEF TypeOK
      <4>2. log[i].run \in Nat /\ log[i].run <= runs
        BY <3>1, <4>1 DEF RunsInv, Event
      <4>3. QED
        BY <1>1, <1>7, <4>2
    <3>2. QED
      BY <3>1 DEF Logged, Terminal
  <2>2. OnStack("execute", {"started"}, run)'
    BY <1>7, OnStackIsOpen
  <2>3. ~ OnStack("execute", {"running"}, run)'
    <3>1. \A i : Open(i) => stack[i].run # run
      BY <1>1, <1>2, <1>7 DEF Runs
    <3>2. ASSUME NEW i, Open(i)', stack'[i].pc = "running",
                 stack'[i].run = run
          PROVE  FALSE
      BY <3>1, <3>2
    <3>3. QED
      BY <3>2, OnStackIsOpen
  <2>4. QED
    BY <1>5, <2>1, <2>2, <2>3 DEF Status
<1>8. OpenRuns' = OpenRuns \cup {runs + 1}
  <2>1. \A run \in Runs : run \in OpenRuns' <=> run \in OpenRuns
    BY <1>1, <1>4 DEF OpenRuns
  <2>2. runs + 1 \in OpenRuns'
    <3>1. ASSUME NEW run, run = runs + 1
          PROVE  run \in OpenRuns'
      <4>1. stack'[Height + 1].run = run /\ stack'[Height + 1].pc = "started"
        BY <3>1
      <4>2. ASSUME NEW k, k = Height + 1
            PROVE  OnStack("execute", {"started", "running"}, run)'
        <5>1. Open(k)' /\ stack'[k].pc \in {"started", "running"}
              /\ stack'[k].run = run
          BY <4>1, <4>2
        <5>2. QED
          BY <5>1, OnStackIsOpen
      <4>3. OnStack("execute", {"started", "running"}, run)'
        BY <4>2
      <4>4. QED
        BY <1>1, <3>1, <4>3 DEF OpenRuns
    <3>2. QED
      BY <3>1
  <2>3. OpenRuns' \subseteq Runs \cup {runs + 1} /\ OpenRuns \subseteq Runs
    BY <1>1 DEF OpenRuns
  <2>4. QED
    BY <2>1, <2>2, <2>3
<1>9. RunOutcomes' = Append(RunOutcomes, "begun")
  <2>1. RunOutcomes \in Seq(Statuses) /\ Len(RunOutcomes) = runs
        /\ RunOutcomes' \in Seq(Statuses) /\ Len(RunOutcomes') = runs + 1
    <3>1. RunOutcomes' \in [1 .. runs + 1 -> Statuses]
      BY DEF RunOutcomes, Runs, Status, Statuses
    <3>2. QED
      BY <1>1, <3>1, OutcomesType, FunctionIsSeq
  <2> DEFINE s == Append(RunOutcomes, "begun")
  <2>2. /\ s \in Seq(Statuses) /\ Len(s) = runs + 1
        /\ \A run \in 1 .. runs : s[run] = RunOutcomes[run]
        /\ s[runs + 1] = "begun"
    BY <1>1, <2>1, AppendProperties DEF Statuses
  <2> HIDE DEF s
  <2>3. \A run \in 1 .. runs + 1 : RunOutcomes'[run] = s[run]
    <3>1. \A run \in 1 .. runs + 1 : RunOutcomes'[run] = Status(run)'
      BY DEF RunOutcomes, Runs
    <3>2. \A run \in 1 .. runs : RunOutcomes[run] = Status(run)
      BY DEF RunOutcomes, Runs
    <3>3. \A run \in 1 .. runs + 1 : run \in 1 .. runs \/ run = runs + 1
      BY <1>1
    <3>4. \A run \in 1 .. runs : Status(run)' = Status(run)
      BY <1>6 DEF Runs
    <3>5. \A run \in 1 .. runs : run \in 1 .. runs + 1
      BY <1>1
    <3>6. QED
      BY <1>7, <2>2, <3>1, <3>2, <3>3, <3>4, <3>5
  <2>4. QED
    BY <2>1, <2>2, <2>3, SeqEqual DEF s
<1>10. QED
  BY <1>3, <1>8, <1>9, OutcomesType DEF Ledger!Begin, RunOutcomes

(* An execution is called by its plugin, or ends with an outcome or        *)
(* without one.                                                            *)
LEMMA LedgerMoves ==
  ASSUME TypeOK, TypeOK', RunsInv, OrderInv, UNCHANGED runs, Open(Height),
         NEW to, to \in {"working", "completed", "failed", "abandoned"},
         \A i : i # Height => (Open(i)' <=> Open(i)),
         \A i : Open(i) /\ i # Height => stack'[i].run = stack[i].run
                                        /\ stack'[i].pc = stack[i].pc,
         IF to = "working"
           THEN /\ Open(Height) /\ \A i : i = Height =>
                     /\ Open(i)' /\ stack'[i].run = Top.run
                     /\ stack'[i].pc = "running"
                /\ UNCHANGED log
           ELSE /\ \A i : i = Height => ~ Open(i)'
                /\ IF to = "abandoned" THEN UNCHANGED log
                   ELSE \E event \in Event : /\ log' = Append(log, event)
                                             /\ event.type = to
                                             /\ event.run = Top.run
  PROVE  /\ OrderInv'
         /\ OpenRuns' = IF to = "working" THEN OpenRuns
                                          ELSE OpenRuns \ {Top.run}
         /\ RunOutcomes' = [RunOutcomes EXCEPT ![Top.run] = to]
<1>1. /\ Height \in Nat /\ Top = stack[Height] /\ Top.run \in Runs
      /\ Runs' = Runs /\ runs \in Nat
  BY StackIndices DEF Open, OrderInv, Runs, TypeOK
<1>2. ASSUME NEW i, Open(i)'
      PROVE  Open(i) /\ stack'[i].run = stack[i].run
  <2>1. CASE i = Height
    BY <1>1, <1>2, <2>1
  <2>2. CASE i # Height
    BY <1>2, <2>2
  <2>3. QED
    BY <2>1, <2>2
<1>3. OrderInv'
  <2>1. \A i : Open(i)' => stack'[i].run \in Runs'
    BY <1>1, <1>2 DEF OrderInv
  <2>2. \A i, j : Open(i)' /\ Open(j)' /\ i < j => stack'[i].run < stack'[j].run
    BY <1>2 DEF OrderInv
  <2>3. QED
    BY <2>1, <2>2 DEF OrderInv
<1>4. \A i : Open(i) /\ stack[i].run = Top.run => i = Height
  <2>1. ASSUME NEW i, Open(i), stack[i].run = Top.run
        PROVE  i = Height
    <3>1. Height \in DOMAIN stack /\ IsExecution(Height)
      BY <1>1, StackIndices DEF Open, IsExecution
    <3>2. i \in DOMAIN stack /\ IsExecution(i)
      BY <2>1, StackIndices DEF Open, IsExecution
    <3>3. QED
      BY <1>1, <2>1, <3>1, <3>2 DEF RunsInv
  <2>2. QED
    BY <2>1
<1>5. ASSUME NEW run, run # Top.run, NEW pcs \in SUBSET {"started", "running"}
      PROVE  OnStack("execute", pcs, run)' <=> OnStack("execute", pcs, run)
  <2>1. ASSUME NEW i, Open(i)', stack'[i].pc \in pcs, stack'[i].run = run
        PROVE  Open(i) /\ stack[i].pc \in pcs /\ stack[i].run = run
    <3>1. Open(i) /\ stack[i].run = run
      BY <1>2, <2>1
    <3>2. i # Height
      BY <1>1, <1>5, <3>1
    <3>3. QED
      BY <2>1, <3>1, <3>2
  <2>2. ASSUME NEW i, Open(i), stack[i].pc \in pcs, stack[i].run = run
        PROVE  Open(i)' /\ stack'[i].pc \in pcs /\ stack'[i].run = run
    <3>1. i # Height
      BY <1>1, <1>5, <2>2
    <3>2. QED
      BY <2>2, <3>1
  <2>3. OnStack("execute", pcs, run) <=>
          \E i : Open(i) /\ stack[i].pc \in pcs /\ stack[i].run = run
    BY OnStackIsOpen
  <2>4. OnStack("execute", pcs, run)' <=>
          \E i : Open(i)' /\ stack'[i].pc \in pcs /\ stack'[i].run = run
    BY OnStackIsOpen
  <2>5. QED
    BY <2>1, <2>2, <2>3, <2>4
<1>6. ASSUME NEW type \in {"completed", "failed"}, NEW run
      PROVE  Logged(type, run)' <=>
               Logged(type, run) \/ (type = to /\ run = Top.run)
  <2>1. CASE to \in {"working", "abandoned"}
    <3>1. UNCHANGED log /\ type # to
      BY <2>1
    <3>2. QED
      BY <3>1 DEF Logged
  <2>2. CASE to \in {"completed", "failed"}
    <3>1. PICK event \in Event : /\ log' = Append(log, event)
                                 /\ event.type = to /\ event.run = Top.run
      BY <2>2
    <3>2. Logged(type, run)' <=>
            Logged(type, run) \/ (event.type = type /\ event.run = run)
      BY <3>1, LoggedAppend
    <3>3. QED
      BY <3>1, <3>2
  <2>3. QED
    BY <2>1, <2>2
<1>7. ASSUME NEW run, run # Top.run
      PROVE  Status(run)' = Status(run)
  BY <1>5, <1>6, <1>7 DEF Status
<1>8. ASSUME NEW run, run = Top.run
      PROVE  /\ Status(run)' = to
             /\ OnStack("execute", {"started", "running"}, run)'
                  <=> to = "working"
  <2>1. ~ Logged("completed", run) /\ ~ Logged("failed", run)
    BY <1>1, <1>8, OpenStatus
  <2>2. CASE to = "working"
    <3>1. \A i : i = Height => Open(i)' /\ stack'[i].run = run
                               /\ stack'[i].pc = "running"
      BY <1>8, <2>2
    <3>2. OnStack("execute", {"running"}, run)'
          /\ OnStack("execute", {"started", "running"}, run)'
      <4>1. PICK k : k = Height
        OBVIOUS
      <4>2. Open(k)' /\ stack'[k].run = run /\ stack'[k].pc = "running"
        BY <3>1, <4>1
      <4>3. QED
        BY <4>2, OnStackIsOpen
    <3>3. ~ OnStack("execute", {"started"}, run)'
      <4>1. ASSUME NEW i, Open(i)', stack'[i].run = run
            PROVE  stack'[i].pc = "running"
        BY <1>2, <1>4, <1>8, <3>1, <4>1
      <4>2. QED
        BY <4>1, OnStackIsOpen
    <3>4. QED
      BY <1>6, <2>1, <2>2, <3>2, <3>3 DEF Status
  <2>3. CASE to # "working"
    <3>1. ASSUME NEW i, Open(i)', stack'[i].run = run
          PROVE  FALSE
      BY <1>2, <1>4, <1>8, <2>3, <3>1
    <3>2. ASSUME NEW pcs \in SUBSET {"started", "running"}
          PROVE  ~ OnStack("execute", pcs, run)'
      BY <3>1, OnStackIsOpen
    <3>3. QED
      BY <1>6, <1>8, <2>1, <2>3, <3>2 DEF Status
  <2>4. QED
    BY <2>2, <2>3
<1>9. OpenRuns' = IF to = "working" THEN OpenRuns ELSE OpenRuns \ {Top.run}
  <2>1. \A run \in Runs : run # Top.run => (run \in OpenRuns' <=> run \in OpenRuns)
    BY <1>1, <1>5 DEF OpenRuns
  <2>2. Top.run \in OpenRuns
    BY TopIsInnermost
  <2>3. \A run : run = Top.run => (run \in OpenRuns' <=> to = "working")
    BY <1>1, <1>8 DEF OpenRuns
  <2>4. OpenRuns \subseteq Runs /\ OpenRuns' \subseteq Runs
    BY <1>1 DEF OpenRuns
  <2>5. QED
    BY <2>1, <2>2, <2>3, <2>4
<1>10. RunOutcomes' = [RunOutcomes EXCEPT ![Top.run] = to]
  BY <1>1, <1>7, <1>8 DEF RunOutcomes
<1>11. QED
  BY <1>3, <1>9, <1>10

(* Frames of other functions come and go without the ledger noticing.      *)
NotOpen(f) == f.fn # "execute" \/ f.pc \notin {"started", "running"}

LEMMA OpenAbove ==
  ASSUME TypeOK, TypeOK', NEW n \in Nat, n <= Height, n <= Height',
         \A i \in 1 .. n : stack'[i] = stack[i]
  PROVE  /\ \A i : i \in 1 .. n => (Open(i)' <=> Open(i)) /\ stack'[i] = stack[i]
         /\ \A i : Open(i) => i \in 1 .. n \/ i \in n + 1 .. Height
         /\ \A i : Open(i)' => i \in 1 .. n \/ i \in n + 1 .. Height'
<1>1. Height \in Nat /\ Height' \in Nat
  BY LenProperties DEF TypeOK, Height
<1>2. QED
  BY <1>1 DEF Open

LEMMA OpenSame ==
  ASSUME TypeOK, TypeOK', NEW n \in Nat, n <= Height, n <= Height',
         \A i \in 1 .. n : stack'[i] = stack[i],
         \A i \in n + 1 .. Height : NotOpen(stack[i]),
         \A i \in n + 1 .. Height' : NotOpen(stack'[i])
  PROVE  SameOpen
<1>1. \A i \in n + 1 .. Height : ~ Open(i)
  BY DEF NotOpen, Open
<1>2. \A i \in n + 1 .. Height' : ~ Open(i)'
  BY DEF NotOpen, Open
<1>3. QED
  BY <1>1, <1>2, OpenAbove DEF SameOpen

LEMMA OpenShapes ==
  ASSUME TypeOK, TypeOK', NEW f, NEW g, NEW h,
         NotOpen(f), NotOpen(g), NotOpen(h),
         \/ Pushes1(f) \/ Pushes2(f, g)
         \/ /\ NotOpen(Top)
            /\ \/ Pops \/ Resumes(f) \/ ResumesAndCalls(f, g)
               \/ ResumesAndCalls2(f, g, h)
  PROVE  SameOpen
<1>1. Height \in Nat /\ Height' = Len(stack') /\ Top = stack[Height]
  BY StackIndices DEF Height
<1>2. CASE Pushes1(f)
  <2>1. /\ Height' = Height + 1 /\ stack'[Height + 1] = f
        /\ \A i \in 1 .. Height : stack'[i] = stack[i]
    BY <1>1, <1>2 DEF Pushes1, Reshapes
  <2>2. /\ \A i \in Height + 1 .. Height : FALSE
        /\ \A i \in Height + 1 .. Height' : i = Height + 1
    BY <1>1, <2>1
  <2>3. QED
    BY <1>1, <2>1, <2>2, OpenSame
<1>3. CASE Pushes2(f, g)
  <2>1. /\ Height' = Height + 2 /\ stack'[Height + 1] = f
        /\ stack'[Height + 2] = g
        /\ \A i \in 1 .. Height : stack'[i] = stack[i]
    BY <1>1, <1>3 DEF Pushes2, Reshapes
  <2>2. /\ \A i \in Height + 1 .. Height : FALSE
        /\ \A i \in Height + 1 .. Height' : i = Height + 1 \/ i = Height + 2
    BY <1>1, <2>1
  <2>3. QED
    BY <1>1, <2>1, <2>2, OpenSame
<1>4. ASSUME Height # 0, NotOpen(Top), Height' >= Height - 1, Height' \in Nat,
             \A i \in 1 .. Height - 1 : stack'[i] = stack[i],
             \A i \in Height .. Height' : NotOpen(stack'[i])
      PROVE  SameOpen
  <2> DEFINE n == Height - 1
  <2>1. /\ n \in Nat /\ n <= Height /\ n <= Height' /\ n + 1 = Height
        /\ \A i \in n + 1 .. Height : i = Height
    BY <1>1, <1>4
  <2>2. \A i \in 1 .. n : stack'[i] = stack[i]
    BY <1>4
  <2> HIDE DEF n
  <2>3. QED
    BY <1>1, <1>4, <2>1, <2>2, OpenSame
<1>5. CASE NotOpen(Top) /\ Pops
  <2>1. /\ Height' = Height - 1 /\ Height # 0
        /\ \A i \in 1 .. Height - 1 : stack'[i] = stack[i]
    BY <1>1, <1>5 DEF Pops, Reshapes
  <2>2. Height' \in Nat /\ \A i \in Height .. Height' : FALSE
    BY <1>1, <2>1
  <2>3. QED
    BY <1>1, <1>4, <1>5, <2>1, <2>2
<1>6. CASE NotOpen(Top) /\ Resumes(f)
  <2>1. /\ Height' = Height /\ Height # 0 /\ stack'[Height] = f
        /\ \A i \in 1 .. Height - 1 : stack'[i] = stack[i]
    BY <1>1, <1>6 DEF Resumes, Reshapes
  <2>2. \A i \in Height .. Height' : i = Height
    BY <1>1, <2>1
  <2>3. QED
    BY <1>1, <1>4, <1>6, <2>1, <2>2
<1>7. CASE NotOpen(Top) /\ ResumesAndCalls(f, g)
  <2>1. /\ Height' = Height + 1 /\ Height # 0 /\ stack'[Height] = f
        /\ stack'[Height + 1] = g
        /\ \A i \in 1 .. Height - 1 : stack'[i] = stack[i]
    BY <1>1, <1>7 DEF ResumesAndCalls, Reshapes
  <2>2. \A i \in Height .. Height' : i = Height \/ i = Height + 1
    BY <1>1, <2>1
  <2>3. QED
    BY <1>1, <1>4, <1>7, <2>1, <2>2
<1>8. CASE NotOpen(Top) /\ ResumesAndCalls2(f, g, h)
  <2>1. /\ Height' = Height + 2 /\ Height # 0 /\ stack'[Height] = f
        /\ stack'[Height + 1] = g /\ stack'[Height + 2] = h
        /\ \A i \in 1 .. Height - 1 : stack'[i] = stack[i]
    BY <1>1, <1>8 DEF ResumesAndCalls2, Reshapes
  <2>2. \A i \in Height .. Height' :
          i = Height \/ i = Height + 1 \/ i = Height + 2
    BY <1>1, <2>1
  <2>3. QED
    BY <1>1, <1>4, <1>8, <2>1, <2>2
<1>9. QED
  BY <1>2, <1>3, <1>5, <1>6, <1>7, <1>8

(* The top frame is an execution in progress, and goes on or ends.         *)
LEMMA OpenTop ==
  ASSUME TypeOK, TypeOK', Height # 0, NotOpen(stack'[Height + 1]),
         \/ Height' = Height - 1 \/ Height' = Height + 1,
         \A i \in 1 .. Height - 1 : stack'[i] = stack[i]
  PROVE  /\ \A i : i # Height => (Open(i)' <=> Open(i))
         /\ \A i : Open(i) /\ i # Height => stack'[i].run = stack[i].run
                                          /\ stack'[i].pc = stack[i].pc
         /\ \A i : i = Height => (Open(i)' <=> /\ Height' # Height - 1
                                              /\ ~ NotOpen(stack'[i]))
<1>1. Height \in Nat
  BY StackIndices
<1>2. ASSUME NEW i, Open(i)
      PROVE  i = Height \/ i \in 1 .. Height - 1
  BY <1>1, <1>2 DEF Open
<1>3. ASSUME NEW i, Open(i)'
      PROVE  i = Height \/ i \in 1 .. Height - 1
  <2>1. i \in 1 .. Height' /\ ~ NotOpen(stack'[i])
    BY <1>3 DEF Open, NotOpen
  <2>2. i # Height + 1
    BY <2>1
  <2>3. QED
    BY <1>1, <2>1, <2>2
<1>4. \A i \in 1 .. Height - 1 : i \in 1 .. Height /\ i \in 1 .. Height'
  BY <1>1
<1>5. \A i \in 1 .. Height - 1 : Open(i)' <=> Open(i)
  BY <1>4 DEF Open
<1>6. \A i : i # Height => (Open(i)' <=> Open(i))
  BY <1>2, <1>3, <1>5
<1>7. ASSUME NEW i, i = Height
      PROVE  Open(i)' <=> Height' # Height - 1 /\ ~ NotOpen(stack'[i])
  <2>1. i \in 1 .. Height' <=> Height' # Height - 1
    BY <1>1, <1>7
  <2>2. QED
    BY <2>1 DEF Open, NotOpen
<1>8. QED
  BY <1>2, <1>6, <1>7

LEMMA LedgerBegins ==
  ASSUME TypeOK, TypeOK', RunsInv, OrderInv,
         NEW id \in PluginIds, NEW capability \in Capabilities,
         NEW routed \in BOOLEAN, BeginExecution(id, capability, routed)
  PROVE  OrderInv' /\ Ledger!Begin
<1> DEFINE frame == Executing(id, capability, routed)
           event == ExecutionEvent("started", frame)
<1>1. Pushes2(frame, Delivery(event))
  BY CallShapes
<1>2. /\ frame.fn = "execute" /\ frame.pc = "started" /\ frame.run = runs + 1
      /\ event \in Event /\ event.type = "started"
      /\ NotOpen(Delivery(event))
  <2>1. frame.fn = "execute" /\ frame.pc = "started" /\ frame.run = runs + 1
        /\ frame.id = id
    BY DEF Executing
  <2>2. Delivery(event).fn = "publish"
    BY DEF Delivery
  <2>3. runs + 1 \in Nat
    BY DEF TypeOK
  <2> HIDE DEF frame
  <2>4. event \in Event /\ event.type = "started"
    BY <2>1, <2>3 DEF ExecutionEvent, Event, EventTypes
  <2>5. QED
    BY <2>1, <2>2, <2>4 DEF NotOpen
<1>3. runs' = runs + 1 /\ log' = Append(log, event)
  BY DEF BeginExecution, Publish, Executing
<1> DEFINE g == Delivery(event)
<1> HIDE DEF frame, g
<1>4. /\ Height \in Nat /\ Height' = Height + 2
      /\ stack'[Height + 1] = frame /\ stack'[Height + 2] = g
      /\ \A i \in 1 .. Height : stack'[i] = stack[i]
  BY <1>1, StackIndices DEF Pushes2, Reshapes, Height, g
<1>5. ASSUME NEW i
      PROVE  Open(i)' <=> Open(i) \/ i = Height + 1
  <2>1. i \in 1 .. Height' <=> i \in 1 .. Height \/ i = Height + 1 \/ i = Height + 2
    BY <1>4
  <2>2. CASE i \in 1 .. Height
    <3>1. i # Height + 1 /\ i \in 1 .. Height'
      BY <1>4, <2>2
    <3>2. QED
      BY <1>4, <2>2, <3>1 DEF Open
  <2>3. CASE i = Height + 1
    <3>1. i \in 1 .. Height'
      BY <2>1, <2>3
    <3>2. Open(i)'
      BY <1>2, <1>4, <2>3, <3>1 DEF Open
    <3>3. QED
      BY <2>3, <3>2
  <2>4. CASE i = Height + 2
    <3>1. i # Height + 1 /\ i \notin 1 .. Height
      BY <1>4, <2>4
    <3>2. ~ Open(i)'
      BY <1>2, <1>4, <2>4 DEF Open, NotOpen, g
    <3>3. QED
      BY <3>1, <3>2 DEF Open
  <2>5. CASE i \notin 1 .. Height' /\ i \notin 1 .. Height
    <3>1. i # Height + 1
      BY <2>1, <2>5
    <3>2. QED
      BY <2>5, <3>1 DEF Open
  <2>6. QED
    BY <2>1, <2>2, <2>3, <2>4, <2>5
<1>6. \A i : Open(i) => stack'[i] = stack[i]
  BY <1>4 DEF Open
<1>7. stack'[Height + 1].run = runs + 1 /\ stack'[Height + 1].pc = "started"
  BY <1>2, <1>4
<1> HIDE DEF event
<1>8. QED
  BY <1>2, <1>3, <1>5, <1>6, <1>7, LedgerBegin

LEMMA LedgerCalls ==
  ASSUME TypeOK, TypeOK', OrderInv, RunsInv, Kernel,
         NEW to \in {"working", "completed", "failed", "abandoned"},
         Open(Height),
         \/ to = "working" /\ ExecuteCallsPlugin
         \/ to = "completed" /\ ExecuteCompletes
         \/ to = "failed" /\ ExecuteFails
         \/ to = "abandoned" /\ (ExecuteMisreads \/ Unwind)
  PROVE  /\ OrderInv'
         /\ OpenRuns' = IF to = "working" THEN OpenRuns
                                          ELSE OpenRuns \ {Top.run}
         /\ RunOutcomes' = [RunOutcomes EXCEPT ![Top.run] = to]
<1> USE DEF OnlyControl
<1>1. Height \in Nat /\ Height # 0 /\ Top = stack[Height] /\ UNCHANGED runs
      /\ Top \in Frame /\ Top.fn = "execute"
  BY StackIndices DEF Open, ExecuteCallsPlugin, ExecuteCompletes, ExecuteFails,
                      ExecuteMisreads, Unwind
<1>2. Top \in ExecuteFrame
  BY <1>1, FrameOf
<1>3. CASE to = "abandoned"
  <2>1. Pops /\ UNCHANGED log
    BY <1>3, EndShapes DEF ExecuteMisreads, Unwind
  <2>2. /\ Height' = Height - 1
        /\ \A i \in 1 .. Height - 1 : stack'[i] = stack[i]
    BY <2>1 DEF Pops, Reshapes, Height
  <2>3. ASSUME NEW i
        PROVE  /\ Open(i)' <=> Open(i) /\ i # Height
               /\ Open(i) /\ i # Height => stack'[i] = stack[i]
    <3>1. i \in 1 .. Height' <=> i \in 1 .. Height /\ i # Height
      BY <1>1, <2>2
    <3>2. QED
      BY <2>2, <3>1 DEF Open
  <2>4. QED
    BY <1>1, <1>3, <2>1, <2>3, LedgerMoves
<1>4. ASSUME NEW pc \in {"running", "failed", "completed"}, NEW g,
             NotOpen(g), ResumesAndCalls(TopAt(pc), g)
      PROVE  /\ \A i : i # Height => (Open(i)' <=> Open(i))
             /\ \A i : Open(i) /\ i # Height => stack'[i].run = stack[i].run
                                              /\ stack'[i].pc = stack[i].pc
             /\ \A i : i = Height => /\ Open(i)' <=> pc = "running"
                                     /\ stack'[i].run = Top.run
                                     /\ stack'[i].pc = pc
  <2>1. /\ Height' = Height + 1 /\ stack'[Height] = TopAt(pc)
        /\ stack'[Height + 1] = g
        /\ \A i \in 1 .. Height - 1 : stack'[i] = stack[i]
    BY <1>4 DEF ResumesAndCalls, Reshapes, Height
  <2>2. /\ TopAt(pc).fn = "execute" /\ TopAt(pc).pc = pc
        /\ TopAt(pc).run = Top.run
    BY <1>2 DEF TopAt, ExecuteFrame
  <2>3. NotOpen(TopAt(pc)) <=> pc # "running"
    BY <2>2 DEF NotOpen
  <2>4. Height' # Height - 1
    BY <1>1, <2>1
  <2>5. QED
    BY <1>1, <1>4, <2>1, <2>2, <2>3, <2>4, OpenTop
<1>5. CASE to = "working"
  <2>1. UNCHANGED log
        /\ ResumesAndCalls(TopAt("running"), Callback("execute", Lookup(Top.id)))
    BY <1>5, KernelShapes DEF ExecuteCallsPlugin
  <2>2. NotOpen(Callback("execute", Lookup(Top.id)))
    BY DEF NotOpen, Callback
  <2>3. QED
    BY <1>1, <1>4, <1>5, <2>1, <2>2, LedgerMoves
<1>6. CASE to \in {"completed", "failed"}
  <2> DEFINE event == ExecutionEvent(to, Top)
  <2>1. log' = Append(log, event)
        /\ ResumesAndCalls(TopAt(to), Delivery(event))
    BY <1>6, KernelShapes DEF ExecuteFails, ExecuteCompletes, Publish
  <2>2. event \in Event /\ event.type = to /\ event.run = Top.run
    BY <1>2, <1>6 DEF ExecutionEvent, ExecuteFrame, Event, EventTypes
  <2>3. NotOpen(Delivery(event))
    BY DEF NotOpen, Delivery
  <2> HIDE DEF event
  <2>4. QED
    BY <1>1, <1>4, <1>6, <2>1, <2>2, <2>3, LedgerMoves
<1>7. QED
  BY <1>3, <1>5, <1>6

LEMMA LedgerStep ==
  ASSUME TypeOK, RunsInv, OrderInv, [Next]_vars
  PROVE  OrderInv' /\ (Ledger!Next \/ UNCHANGED <<OpenRuns, RunOutcomes>>)
<1> USE DEF OnlyControl, On, At, Returned
<1>1. TypeOK'
  BY TypeOKStep
<1>2. ASSUME SameOpen, SameOutcomes, UNCHANGED runs
      PROVE  OrderInv' /\ UNCHANGED <<OpenRuns, RunOutcomes>>
  BY <1>1, <1>2, LedgerNeutral
<1>3. ASSUME UNCHANGED <<stack, runs, log>>
      PROVE  OrderInv' /\ UNCHANGED <<OpenRuns, RunOutcomes>>
  <2>1. SameOpen
    BY <1>3 DEF SameOpen, Open, Height
  <2>2. QED
    BY <1>2, <1>3, <2>1 DEF SameOutcomes
<1>4. ASSUME NEW f, NEW g, NEW h, NotOpen(f), NotOpen(g), NotOpen(h),
             SameOutcomes, UNCHANGED runs,
             \/ Pushes1(f) \/ Pushes2(f, g)
             \/ /\ NotOpen(Top)
                /\ \/ Pops \/ Resumes(f) \/ ResumesAndCalls(f, g)
                   \/ ResumesAndCalls2(f, g, h)
      PROVE  OrderInv' /\ UNCHANGED <<OpenRuns, RunOutcomes>>
  <2>1. SameOpen
    BY <1>1, <1>4, OpenShapes
  <2>2. QED
    BY <1>2, <1>4, <2>1
<1>5. ASSUME NEW p \in Plugins, CallRegister(p)
      PROVE  OrderInv' /\ UNCHANGED <<OpenRuns, RunOutcomes>>
  <2> DEFINE f == Registering(p)
             g == Callback("initialize", p)
  <2>1. NotOpen(f) /\ NotOpen(g)
    BY DEF NotOpen, Registering, Callback
  <2>2. Pushes2(f, g) /\ UNCHANGED <<runs, log>>
    BY <1>5, CallShapes DEF CallRegister
  <2> HIDE DEF f, g
  <2>3. QED
    BY <1>4, <2>1, <2>2 DEF SameOutcomes
<1>6. ASSUME NEW plugins \in Loads, CallLoad(plugins)
      PROVE  OrderInv' /\ UNCHANGED <<OpenRuns, RunOutcomes>>
  <2> DEFINE f == Loading(plugins)
  <2>1. NotOpen(f)
    BY DEF NotOpen, Loading
  <2>2. (Pushes1(f) \/ UNCHANGED stack) /\ UNCHANGED <<runs, log>>
    BY <1>6, CallShapes DEF CallLoad
  <2> HIDE DEF f
  <2>3. QED
    BY <1>3, <1>4, <2>1, <2>2 DEF SameOutcomes
<1>7. ASSUME NEW id \in PluginIds, CallUnregister(id)
      PROVE  OrderInv' /\ UNCHANGED <<OpenRuns, RunOutcomes>>
  <2> DEFINE f == Unregistering(id)
             g == Callback("shutdown", Lookup(id))
  <2>1. NotOpen(f) /\ NotOpen(g)
    BY DEF NotOpen, Unregistering, Callback
  <2>2. (Pushes2(f, g) \/ UNCHANGED stack) /\ UNCHANGED <<runs, log>>
    BY <1>7, CallShapes DEF CallUnregister
  <2> HIDE DEF f, g
  <2>3. QED
    BY <1>3, <1>4, <2>1, <2>2 DEF SameOutcomes
<1>8. CASE CallShutdown
  <2> DEFINE f == ShuttingDown
  <2>1. NotOpen(f)
    BY DEF NotOpen, ShuttingDown
  <2>2. Pushes1(f) /\ UNCHANGED <<runs, log>>
    BY <1>8, CallShapes DEF CallShutdown
  <2> HIDE DEF f
  <2>3. QED
    BY <1>4, <2>1, <2>2 DEF SameOutcomes
<1>9. ASSUME NEW id \in PluginIds, NEW capability \in Capabilities,
             NEW routed \in BOOLEAN, BeginExecution(id, capability, routed)
      PROVE  OrderInv' /\ Ledger!Next
  BY <1>1, <1>9, LedgerBegins DEF Ledger!Next
<1>10. CASE DirectCalls
  <2>1. ASSUME NEW type \in EventTypes, NEW handler \in Handlers,
               CallSubscribe(type, handler) \/ CallUnsubscribe(type, handler)
        PROVE  UNCHANGED <<stack, runs, log>>
    BY <2>1 DEF CallSubscribe, CallUnsubscribe
  <2>2. CallClear => UNCHANGED <<stack, runs, log>>
    BY DEF CallClear
  <2>3. ASSUME NEW id \in PluginIds, NEW capability \in Capabilities,
               CallExecute(id, capability)
        PROVE  OrderInv' /\ Ledger!Next
    BY <1>9, <2>3 DEF CallExecute
  <2>4. QED
    BY <1>3, <1>5, <1>6, <1>7, <1>8, <1>10, <2>1, <2>2, <2>3 DEF DirectCalls
<1>11. ASSUME NEW capability \in Capabilities, CallExecuteCapability(capability)
       PROVE  OrderInv' /\ (Ledger!Next \/ UNCHANGED <<OpenRuns, RunOutcomes>>)
  <2>1. CASE UNCHANGED <<stack, runs, log>>
    BY <1>3, <2>1
  <2>2. ASSUME NEW i \in FindByCapability(capability),
               BeginExecution(Id[registry[i]], capability, TRUE)
        PROVE  OrderInv' /\ Ledger!Next
    <3>1. i \in 1 .. Len(registry) /\ registry \in Seq(Plugins)
      BY LenProperties DEF FindByCapability, TypeOK
    <3>2. registry[i] \in Plugins
      BY <3>1, ElementOfSeq
    <3>3. Id[registry[i]] \in PluginIds
      BY <3>2, IdAssumption
    <3>4. QED
      BY <1>9, <2>2, <3>3
  <2>3. QED
    BY <1>11, <2>1, <2>2 DEF CallExecuteCapability
<1>12. CASE UserResumes
  BY <1>3, <1>12 DEF UserResumes
<1>13. CASE \/ UserPropagates \/ UserReturns \/ UserRaises
            \/ Returns \/ Reraises \/ (Unwind /\ ~ Open(Height))
  <2>1. Pops /\ UNCHANGED <<runs, log>>
    BY <1>13, EndShapes DEF UserPropagates, UserReturns, UserRaises, Returns,
                            Reraises, Unwind
  <2>2. NotOpen(Top)
    <3>1. CASE Unwind /\ ~ Open(Height)
      BY <2>1, <3>1, StackIndices DEF NotOpen, Open, Pops
    <3>2. CASE \/ UserPropagates \/ UserReturns \/ UserRaises
               \/ Returns \/ Reraises
      BY <3>2 DEF UserPropagates, UserReturns, UserRaises, Returns, Reraises,
                  NotOpen
    <3>3. QED
      BY <1>13, <3>1, <3>2
  <2> DEFINE f == Callback("handle", "handle")
  <2>3. NotOpen(f)
    BY DEF NotOpen, Callback
  <2> HIDE DEF f
  <2>4. QED
    BY <1>4, <2>1, <2>2, <2>3 DEF SameOutcomes
<1>14. CASE DeliverNext
  <2> DEFINE g == Callback("handle", Head(Top.todo))
  <2>1. /\ NotOpen(Top) /\ NotOpen(Rest) /\ NotOpen(g)
        /\ ResumesAndCalls(Rest, g)
    BY <1>14, KernelShapes DEF Rest, PublishFrame, Callback, NotOpen
  <2>2. UNCHANGED <<runs, log>>
    BY <1>14 DEF DeliverNext
  <2> HIDE DEF g
  <2>3. QED
    BY <1>4, <2>1, <2>2 DEF SameOutcomes
<1>15. CASE RegisterInserts
  <2> DEFINE event == PluginEvent("registered", Id[Top.plugin])
             f == TopAt("announce")
             g == Delivery(event)
  <2>1. /\ Top \in RegisterFrame /\ NotOpen(Top) /\ NotOpen(f) /\ NotOpen(g)
        /\ ResumesAndCalls(f, g)
    BY <1>15, KernelShapes DEF TopAt, RegisterFrame, Delivery, NotOpen
  <2>2. event \in Event /\ event.type = "registered"
    BY <2>1, IdAssumption DEF PluginEvent, Event, EventTypes, RegisterFrame
  <2>3. UNCHANGED runs /\ log' = Append(log, event)
    BY <1>15 DEF RegisterInserts, Publish
  <2> HIDE DEF event, f, g
  <2>4. SameOutcomes
    BY <2>2, <2>3 DEF SameOutcomes
  <2>5. QED
    BY <1>4, <2>1, <2>3, <2>4
<1>16. CASE RegisterRollsBack
  <2> DEFINE f == TopAt("rollback")
             g == Callback("shutdown", Top.plugin)
  <2>1. /\ NotOpen(Top) /\ NotOpen(f) /\ NotOpen(g)
        /\ ResumesAndCalls(f, g)
    BY <1>16, KernelShapes DEF TopAt, RegisterFrame, Callback, NotOpen
  <2>2. UNCHANGED <<runs, log>>
    BY <1>16 DEF RegisterRollsBack
  <2> HIDE DEF f, g
  <2>3. QED
    BY <1>4, <2>1, <2>2 DEF SameOutcomes
<1>17. CASE LoadNext
  <2> DEFINE g == Registering(Head(Top.todo))
             h == Callback("initialize", Head(Top.todo))
  <2>1. /\ NotOpen(Top) /\ NotOpen(Rest) /\ NotOpen(g) /\ NotOpen(h)
        /\ ResumesAndCalls2(Rest, g, h)
    BY <1>17, KernelShapes DEF Rest, LoadFrame, Registering, Callback, NotOpen
  <2>2. UNCHANGED <<runs, log>>
    BY <1>17 DEF LoadNext
  <2> HIDE DEF g, h
  <2>3. QED
    BY <1>4, <2>1, <2>2 DEF SameOutcomes
<1>18. CASE UnregisterRemoves
  <2> DEFINE event == PluginEvent("unregistered", Top.id)
             f == TopAt("announce")
             g == Delivery(event)
  <2>1. /\ Top \in UnregisterFrame /\ NotOpen(Top) /\ NotOpen(f) /\ NotOpen(g)
        /\ ResumesAndCalls(f, g)
    BY <1>18, KernelShapes DEF TopAt, UnregisterFrame, Delivery, NotOpen
  <2>2. event \in Event /\ event.type = "unregistered"
    BY <2>1 DEF PluginEvent, Event, EventTypes, UnregisterFrame
  <2>3. UNCHANGED runs /\ log' = Append(log, event)
    BY <1>18 DEF UnregisterRemoves, Publish
  <2> HIDE DEF event, f, g
  <2>4. SameOutcomes
    BY <2>2, <2>3 DEF SameOutcomes
  <2>5. QED
    BY <1>4, <2>1, <2>3, <2>4
<1>19. CASE ShutdownNext
  <2> DEFINE id == Head(Top.todo)
             g == Unregistering(id)
             h == Callback("shutdown", Lookup(id))
  <2>1. /\ NotOpen(Top) /\ NotOpen(Rest) /\ NotOpen(g) /\ NotOpen(h)
        /\ Resumes(Rest) \/ ResumesAndCalls2(Rest, g, h)
    BY <1>19, KernelShapes DEF Rest, ShutdownFrame, Unregistering, Callback,
                               NotOpen
  <2>2. UNCHANGED <<runs, log>>
    BY <1>19 DEF ShutdownNext
  <2> HIDE DEF g, h
  <2>3. QED
    BY <1>4, <2>1, <2>2 DEF SameOutcomes
<1>20. ASSUME Kernel, NEW to \in {"working", "completed", "failed", "abandoned"},
              Open(Height),
              \/ to = "working" /\ ExecuteCallsPlugin
              \/ to = "completed" /\ ExecuteCompletes
              \/ to = "failed" /\ ExecuteFails
              \/ to = "abandoned" /\ (ExecuteMisreads \/ Unwind)
       PROVE  OrderInv' /\ Ledger!Next
  <2>1. /\ OrderInv'
        /\ OpenRuns' = IF to = "working" THEN OpenRuns
                                         ELSE OpenRuns \ {Top.run}
        /\ RunOutcomes' = [RunOutcomes EXCEPT ![Top.run] = to]
    BY <1>1, <1>20, LedgerCalls
  <2>2. /\ Ledger!Innermost = Top.run /\ OpenRuns # {}
    BY <1>20, TopIsInnermost
  <2>3. Top = stack[Height] /\ Top.run \in Runs /\ Top.pc \in {"started", "running"}
    BY <1>20, StackIndices DEF Open, OrderInv
  <2>4. /\ Top.pc = "started" => RunOutcomes[Top.run] = "begun"
        /\ Top.pc = "running" => RunOutcomes[Top.run] = "working"
    BY <1>20, <2>3, OpenStatus DEF RunOutcomes
  <2>5. CASE to = "working"
    <3>1. Top.pc = "started"
      BY <1>20, <2>5 DEF ExecuteCallsPlugin
    <3>2. Ledger!Work
      BY <2>1, <2>2, <2>4, <2>5, <3>1 DEF Ledger!Work, RunOutcomes
    <3>3. QED
      BY <2>1, <3>2 DEF Ledger!Next
  <2>6. CASE to = "completed"
    <3>1. Top.pc = "running"
      BY <1>20, <2>6 DEF ExecuteCompletes
    <3>2. Ledger!Complete
      BY <2>1, <2>2, <2>4, <2>6, <3>1
         DEF Ledger!Complete, Ledger!Close, RunOutcomes
    <3>3. QED
      BY <2>1, <3>2 DEF Ledger!Next
  <2>7. CASE to = "failed"
    <3>1. Ledger!Fail
      BY <2>1, <2>2, <2>3, <2>4, <2>7 DEF Ledger!Fail, Ledger!Close, RunOutcomes
    <3>2. QED
      BY <2>1, <3>1 DEF Ledger!Next
  <2>8. CASE to = "abandoned"
    <3>1. \/ Top.pc = "started"
          \/ Top.pc = "running" /\ "result" \in Faults
      BY <1>20, <2>3, <2>8 DEF ExecuteMisreads, Unwind, Open
    <3>2. RunOutcomes[Top.run] \in IF "result" \notin Faults
                                    THEN {"begun"} ELSE {"begun", "working"}
      BY <2>4, <3>1
    <3>3. Ledger!Abandon
      BY <2>1, <2>2, <2>8, <3>2 DEF Ledger!Abandon, Ledger!Close, RunOutcomes
    <3>4. QED
      BY <2>1, <3>3 DEF Ledger!Next
  <2>9. QED
    BY <2>5, <2>6, <2>7, <2>8
<1>21. ASSUME \/ ExecuteCallsPlugin \/ ExecuteCompletes \/ ExecuteFails
              \/ ExecuteMisreads
       PROVE  Open(Height)
  BY <1>21, StackIndices
     DEF ExecuteCallsPlugin, ExecuteCompletes, ExecuteFails, ExecuteMisreads,
         Open
<1>22. CASE Kernel
  BY <1>13, <1>14, <1>15, <1>16, <1>17, <1>18, <1>19, <1>20, <1>21, <1>22
     DEF Kernel, Transitions
<1>23. CASE UNCHANGED vars
  BY <1>3, <1>23 DEF vars, kernelVars
<1>24. QED
  BY <1>10, <1>11, <1>12, <1>13, <1>22, <1>23 DEF Next, UserCalls, UserEnds

(* However plugins and handlers call back, fail and change the registry,   *)
(* executions nest, and one whose plugin was called ends with an outcome.  *)
THEOREM ExecutionsKeepTheLedger == Spec => LedgerSpec
<1>1. Init => RunsInv /\ OrderInv /\ Ledger!Init
  BY EmptySeq DEF Init, RunsInv, OneOutcome, OrderInv, Open, Height, OpenRuns,
                  OnStack, Runs, Ledger!Init
<1>2. TypeOK /\ RunsInv /\ OrderInv /\ [Next]_vars
      => RunsInv' /\ OrderInv' /\ [Ledger!Next]_(Ledger!ledgerVars)
  BY RunsInvStep, LedgerStep DEF Ledger!ledgerVars, RunOutcomes
<1>3. QED
  BY <1>1, <1>2, TypeCorrectness, PTL DEF Spec, LedgerSpec, Ledger!Spec

-----------------------------------------------------------------------------
(* The kernel with a memory and a router that uses it implements the       *)
(* kernel, so what is proved of the kernel holds with a memory too.        *)

(* The router's choice is one the kernel may make.                         *)
LEMMA RouteIsKernelCall ==
  ASSUME NEW capability \in Capabilities, Route(capability)
  PROVE  CallExecuteCapability(capability)
BY DEF Route, Select, Candidates, CallExecuteCapability

LEMMA LearnStep == [LearnNext]_allVars => [Next]_vars
<1>1. CASE \E capability \in Capabilities : ~ AtMemory /\ Route(capability)
  BY <1>1, RouteIsKernelCall DEF Next, UserCalls
<1>2. CASE ~ AtMemory /\ (DirectCalls \/ UserEnds \/ Transitions)
  BY <1>2 DEF Next, UserCalls, Kernel
<1>3. CASE Completes \/ Fails \/ MemoryHandles
  BY <1>3 DEF Completes, Fails, MemoryHandles, Next, Kernel, UserEnds
<1>4. CASE UNCHANGED allVars
  BY <1>4 DEF allVars
<1>5. QED
  BY <1>1, <1>2, <1>3, <1>4 DEF LearnNext

(* Whatever the memory has seen and the router prefers, the kernel with    *)
(* both only takes steps of the kernel.                                    *)
THEOREM LearningKernelIsKernel == LearnSpec => KernelSpec
<1>1. LearnInit => Init
  BY DEF LearnInit
<1>2. QED
  BY <1>1, LearnStep, PTL DEF LearnSpec, KernelSpec, Spec

(* Routing by memory cannot make the log and the registry disagree, nor    *)
(* give an execution two outcomes or none.                                 *)
THEOREM LearningKernelKeepsItsWord ==
  LearnSpec => [](LogExplainsRegistry /\ OneOutcome) /\ LedgerSpec
BY LearningKernelIsKernel, LogExplainsTheRegistry, OneOutcomePerExecution,
   ExecutionsKeepTheLedger, PTL
   DEF KernelSpec

-----------------------------------------------------------------------------
(* What the memory knows.  It is the first to hear of a terminal event, so *)
(* the last event of the log is the only one it may still have to record,  *)
(* and nothing else happens until it has.                                  *)

Ends(type) == type \in {"completed", "failed"}

(* The memory is, once, the first subscriber of both terminal events.      *)
MemorySubscribed ==
  \A type \in {"completed", "failed"} :
    /\ subscribers[type] # << >>
    /\ Head(subscribers[type]) = Memory
    /\ \A k \in DOMAIN Tail(subscribers[type]) :
         Tail(subscribers[type])[k] # Memory

(* A frame that has nothing more to tell the memory.                       *)
Quiet(f) ==
  /\ ~ (f.fn = "callback" /\ f.who = Memory)
  /\ f.fn = "publish" /\ Ends(f.event.type)
       => \A k \in DOMAIN f.todo : f.todo[k] # Memory

Telling(f) ==
  /\ f.fn = "publish" /\ Ends(f.event.type)
  /\ f.todo # << >> /\ Head(f.todo) = Memory
  /\ \A k \in DOMAIN Tail(f.todo) : Tail(f.todo)[k] # Memory

Latest(event) == log # << >> /\ event = log[Len(log)]

AllQuiet == \A i \in 1 .. Height : Quiet(stack[i])

AboutToTell ==
  /\ Height # 0 /\ control = "return"
  /\ \A i \in 1 .. Height - 1 : Quiet(stack[i])
  /\ Telling(stack[Height]) /\ Latest(stack[Height].event)

Told ==
  /\ Height > 1 /\ control = "user"
  /\ \A i \in 1 .. Height - 1 : Quiet(stack[i])
  /\ stack[Height].fn = "callback" /\ stack[Height].who = Memory
  /\ stack[Height].kind = "handle"
  /\ stack[Height - 1].fn = "publish"
  /\ Ends(stack[Height - 1].event.type) => Latest(stack[Height - 1].event)

HearsInv == AllQuiet \/ AboutToTell \/ Told

(* The memory has still to record the latest event.                        *)
Owed ==
  \/ AboutToTell
  \/ Told /\ Ends(stack[Height - 1].event.type)

Ended == {i \in DOMAIN log : Ends(log[i].type)}
Recorded == IF Owed THEN Ended \ {Len(log)} ELSE Ended

PayloadInv ==
  /\ DOMAIN payloads = {log[i].run : i \in Ended}
  /\ \A i \in Ended : /\ payloads[log[i].run] \in Payload
                      /\ payloads[log[i].run].id = log[i].id

Heard(capability, id) == Outcomes(capability, id) \cap Recorded
HeardWell(capability, id) == {i \in Heard(capability, id) : Succeeded(i)}

RecordInv ==
  /\ observations \in [Capabilities \X PluginIds -> Performance]
  /\ \A capability \in Capabilities : \A id \in PluginIds :
       /\ observations[<<capability, id>>].total
            = Cardinality(Heard(capability, id))
       /\ observations[<<capability, id>>].successful
            = Cardinality(HeardWell(capability, id))

MemoryInv == HearsInv /\ PayloadInv /\ RecordInv

LEMMA QuietAbove ==
  ASSUME TypeOK, TypeOK', NEW n \in Nat, n <= Height, n <= Height',
         \A i \in 1 .. n : Quiet(stack[i]),
         \A i \in 1 .. n : stack'[i] = stack[i],
         \A i \in n + 1 .. Height' : Quiet(stack'[i])
  PROVE  AllQuiet'
<1>1. Height \in Nat /\ Height' \in Nat
  BY LenProperties DEF TypeOK, Height
<1>2. \A i \in 1 .. Height' : i \in 1 .. n \/ i \in n + 1 .. Height'
  BY <1>1
<1>3. QED
  BY <1>2 DEF AllQuiet

LEMMA QuietShapes ==
  ASSUME TypeOK, TypeOK', NEW f, NEW g, NEW h,
         Quiet(f), Quiet(g), Quiet(h),
         \/ AllQuiet /\ (Pushes1(f) \/ Pushes2(f, g))
         \/ /\ \A i \in 1 .. Height - 1 : Quiet(stack[i])
            /\ \/ Pops \/ Resumes(f) \/ ResumesAndCalls(f, g)
               \/ ResumesAndCalls2(f, g, h)
  PROVE  AllQuiet'
<1>1. Height \in Nat /\ Height' = Len(stack')
  BY StackIndices DEF Height
<1>2. CASE AllQuiet /\ Pushes1(f)
  <2>1. /\ Height' = Height + 1 /\ stack'[Height + 1] = f
        /\ \A i \in 1 .. Height : stack'[i] = stack[i]
    BY <1>1, <1>2 DEF Pushes1, Reshapes
  <2>2. /\ \A i \in Height + 1 .. Height' : i = Height + 1
        /\ Height <= Height'
    BY <1>1, <2>1
  <2>3. QED
    BY <1>1, <1>2, <2>1, <2>2, QuietAbove DEF AllQuiet
<1>3. CASE AllQuiet /\ Pushes2(f, g)
  <2>1. /\ Height' = Height + 2 /\ stack'[Height + 1] = f
        /\ stack'[Height + 2] = g
        /\ \A i \in 1 .. Height : stack'[i] = stack[i]
    BY <1>1, <1>3 DEF Pushes2, Reshapes
  <2>2. /\ \A i \in Height + 1 .. Height' : i = Height + 1 \/ i = Height + 2
        /\ Height <= Height'
    BY <1>1, <2>1
  <2>3. QED
    BY <1>1, <1>3, <2>1, <2>2, QuietAbove DEF AllQuiet
<1>4. ASSUME Height # 0, \A i \in 1 .. Height - 1 : Quiet(stack[i]),
             Height' >= Height - 1, Height' \in Nat,
             \A i \in 1 .. Height - 1 : stack'[i] = stack[i],
             \A i \in Height .. Height' : Quiet(stack'[i])
      PROVE  AllQuiet'
  <2> DEFINE n == Height - 1
  <2>1. n \in Nat /\ n <= Height /\ n <= Height' /\ n + 1 = Height
    BY <1>1, <1>4
  <2>2. \A i \in 1 .. n : stack'[i] = stack[i] /\ Quiet(stack[i])
    BY <1>4
  <2> HIDE DEF n
  <2>3. QED
    BY <1>1, <1>4, <2>1, <2>2, QuietAbove
<1>5. CASE /\ \A i \in 1 .. Height - 1 : Quiet(stack[i])
           /\ Pops
  <2>1. /\ Height' = Height - 1 /\ Height # 0
        /\ \A i \in 1 .. Height - 1 : stack'[i] = stack[i]
    BY <1>1, <1>5 DEF Pops, Reshapes
  <2>2. Height' \in Nat /\ \A i \in Height .. Height' : FALSE
    BY <1>1, <2>1
  <2>3. QED
    BY <1>1, <1>4, <1>5, <2>1, <2>2
<1>6. CASE /\ \A i \in 1 .. Height - 1 : Quiet(stack[i])
           /\ Resumes(f)
  <2>1. /\ Height' = Height /\ Height # 0 /\ stack'[Height] = f
        /\ \A i \in 1 .. Height - 1 : stack'[i] = stack[i]
    BY <1>1, <1>6 DEF Resumes, Reshapes
  <2>2. \A i \in Height .. Height' : i = Height
    BY <1>1, <2>1
  <2>3. QED
    BY <1>1, <1>4, <1>6, <2>1, <2>2
<1>7. CASE /\ \A i \in 1 .. Height - 1 : Quiet(stack[i])
           /\ ResumesAndCalls(f, g)
  <2>1. /\ Height' = Height + 1 /\ Height # 0 /\ stack'[Height] = f
        /\ stack'[Height + 1] = g
        /\ \A i \in 1 .. Height - 1 : stack'[i] = stack[i]
    BY <1>1, <1>7 DEF ResumesAndCalls, Reshapes
  <2>2. \A i \in Height .. Height' : i = Height \/ i = Height + 1
    BY <1>1, <2>1
  <2>3. QED
    BY <1>1, <1>4, <1>7, <2>1, <2>2
<1>8. CASE /\ \A i \in 1 .. Height - 1 : Quiet(stack[i])
           /\ ResumesAndCalls2(f, g, h)
  <2>1. /\ Height' = Height + 2 /\ Height # 0 /\ stack'[Height] = f
        /\ stack'[Height + 1] = g /\ stack'[Height + 2] = h
        /\ \A i \in 1 .. Height - 1 : stack'[i] = stack[i]
    BY <1>1, <1>8 DEF ResumesAndCalls2, Reshapes
  <2>2. \A i \in Height .. Height' :
          i = Height \/ i = Height + 1 \/ i = Height + 2
    BY <1>1, <2>1
  <2>3. QED
    BY <1>1, <1>4, <1>8, <2>1, <2>2
<1>9. QED
  BY <1>2, <1>3, <1>5, <1>6, <1>7, <1>8

LEMMA TellingIsLoud ==
  ASSUME NEW f \in Frame, Telling(f)
  PROVE  ~ Quiet(f)
<1>1. f \in PublishFrame
  BY FrameOf DEF Telling
<1>2. f.todo \in Seq(Handlers) /\ f.todo # << >>
  BY <1>1 DEF PublishFrame, Telling
<1>3. 1 \in DOMAIN f.todo /\ f.todo[1] = Memory
  BY <1>2, HeadTailProperties, LenProperties, EmptySeq DEF Telling
<1>4. QED
  BY <1>3 DEF Quiet, Telling

LEMMA QuietOwesNothing ==
  ASSUME TypeOK, TypeOK'
  PROVE  (AllQuiet => ~ Owed) /\ (AllQuiet' => ~ Owed')
<1>1. /\ Height \in Nat /\ Height' \in Nat
      /\ \A i \in 1 .. Height : stack[i] \in Frame
      /\ \A i \in 1 .. Height' : stack'[i] \in Frame
  <2> HIDE DEF Frame
  <2>1. stack \in Seq(Frame) /\ stack' \in Seq(Frame)
    BY DEF TypeOK
  <2>2. QED
    BY <2>1, LenProperties, ElementOfSeq DEF Height
<1>2. Height # 0 => Height \in 1 .. Height
  BY <1>1
<1>3. Height' # 0 => Height' \in 1 .. Height'
  BY <1>1
<1>4. AllQuiet => ~ Owed
  BY <1>1, <1>2, TellingIsLoud DEF AllQuiet, Owed, AboutToTell, Told, Quiet
<1>5. AllQuiet' => ~ Owed'
  <2>0. ASSUME Owed' PROVE Height' # 0
    <3>1. AboutToTell' => Height' # 0
      BY DEF AboutToTell
    <3>2. Told' => Height' > 1
      BY DEF Told
    <3>3. AboutToTell' \/ Told'
      BY <2>0 DEF Owed
    <3>4. QED
      BY <1>1, <3>1, <3>2, <3>3
  <2>1. SUFFICES ASSUME AllQuiet', Owed', NEW f \in Frame, f = stack'[Height'],
                        Quiet(f), ~ Telling(f)
                 PROVE  FALSE
    <3>1. ASSUME AllQuiet', Owed'
          PROVE  Height' # 0
      BY <2>0, <3>1
    <3>2. ASSUME AllQuiet', Owed'
          PROVE  Quiet(stack'[Height'])
      BY <1>3, <3>1, <3>2 DEF AllQuiet
    <3>3. QED
      BY <1>1, <1>3, <3>1, <3>2, TellingIsLoud
  <2>2. f.fn = "callback" /\ f.who = Memory
    BY <2>1 DEF Owed, AboutToTell, Told, Telling
  <2>3. QED
    BY <2>1, <2>2 DEF Quiet
<1>6. QED
  BY <1>4, <1>5

(* The memory hears of every terminal event at once: what each kind of     *)
(* step does.                                                              *)
QuietStep == AllQuiet /\ AllQuiet' /\ SameOutcomes /\ UNCHANGED learnVars
EndStep == AllQuiet /\ (Completes \/ Fails) /\ AboutToTell'
TellStep == /\ AboutToTell /\ Told' /\ Ends(stack'[Height' - 1].event.type)
            /\ UNCHANGED <<log, learnVars>>
HearStep == /\ AllQuiet /\ Told' /\ ~ Ends(stack'[Height' - 1].event.type)
            /\ UNCHANGED <<log, learnVars>>
HandleStep == Told /\ MemoryHandles /\ AllQuiet'

LEMMA DeliveryIsHeard ==
  ASSUME TypeOK, TypeOK', AllQuiet \/ AboutToTell, DeliverNext,
         UNCHANGED learnVars
  PROVE  QuietStep \/ TellStep \/ HearStep
<1> DEFINE g == Callback("handle", Head(Top.todo))
<1>1. /\ Top \in PublishFrame /\ ResumesAndCalls(Rest, g)
      /\ control' = "user" /\ UNCHANGED log /\ Top.todo # << >>
  BY KernelShapes DEF DeliverNext, CallUser, OnlyControl
<1>2. /\ g.fn = "callback" /\ g.who = Head(Top.todo) /\ g.kind = "handle"
      /\ Rest.fn = "publish" /\ Rest.event = Top.event
      /\ Rest.todo = Tail(Top.todo) /\ Top.fn = "publish"
  BY <1>1 DEF Callback, Rest, PublishFrame
<1> HIDE DEF g
<1>3. /\ Height \in Nat /\ Height # 0 /\ Height' = Height + 1
      /\ stack'[Height] = Rest /\ stack'[Height + 1] = g
      /\ \A i \in 1 .. Height - 1 : stack'[i] = stack[i]
      /\ Top = stack[Height] /\ Height \in 1 .. Height
  BY <1>1, StackIndices DEF ResumesAndCalls, Reshapes, Height
<1>4. \A i \in 1 .. Height - 1 : Quiet(stack[i])
  <2>1. \A i \in 1 .. Height - 1 : i \in 1 .. Height
    BY <1>3
  <2>2. QED
    BY <2>1 DEF AllQuiet, AboutToTell
<1>5. \A k \in DOMAIN Tail(Top.todo) :
        \E m \in DOMAIN Top.todo : Tail(Top.todo)[k] = Top.todo[m]
  <2>1. Top.todo \in Seq(Handlers)
    BY <1>1 DEF PublishFrame
  <2>2. PICK n \in Nat : /\ DOMAIN Top.todo = 1 .. n
                         /\ DOMAIN Tail(Top.todo) = 1 .. n - 1
                         /\ \A k \in 1 .. n - 1 :
                              Tail(Top.todo)[k] = Top.todo[k + 1]
    BY <1>1, <2>1, LenProperties, HeadTailProperties
  <2>3. \A k \in 1 .. n - 1 : k + 1 \in 1 .. n
    BY <2>2
  <2>4. QED
    BY <2>2, <2>3
<1>6. Quiet(Rest)
  <2>1. CASE AllQuiet
    <3>1. Quiet(Top)
      BY <1>3, <2>1 DEF AllQuiet
    <3>2. QED
      BY <1>2, <1>5, <3>1 DEF Quiet
  <2>2. CASE AboutToTell
    BY <1>2, <1>3, <2>2 DEF AboutToTell, Telling, Quiet
  <2>3. QED
    BY <2>1, <2>2
<1>7. CASE Head(Top.todo) = Memory
  <2>1. \A i \in 1 .. Height : Quiet(stack'[i])
    <3>1. \A i \in 1 .. Height : i = Height \/ i \in 1 .. Height - 1
      BY <1>3
    <3>2. QED
      BY <1>3, <1>4, <1>6, <3>1
  <2>2. /\ Height' > 1 /\ Height' - 1 = Height
        /\ stack'[Height'] = g /\ stack'[Height' - 1] = Rest
    BY <1>3
  <2>3. Ends(Top.event.type) => AboutToTell
    <3>1. SUFFICES ASSUME AllQuiet, Ends(Top.event.type)
                   PROVE  FALSE
      OBVIOUS
    <3>2. Quiet(Top) /\ Top \in Frame
      BY <1>3, <3>1, StackIndices DEF AllQuiet
    <3>3. Top.todo \in Seq(Handlers) /\ Top.todo # << >>
      BY <1>1 DEF PublishFrame
    <3>4. 1 \in DOMAIN Top.todo /\ Top.todo[1] = Memory
      BY <1>7, <3>3, HeadTailProperties, LenProperties, EmptySeq
    <3>5. QED
      BY <1>2, <3>1, <3>2, <3>4 DEF Quiet
  <2>4. AboutToTell => Ends(Top.event.type)
    BY <1>3 DEF AboutToTell, Telling
  <2>5. Told'
    <3>1. Ends(stack'[Height' - 1].event.type)
            => Latest(stack[Height].event) /\ stack'[Height' - 1].event = stack[Height].event
      BY <1>2, <1>3, <2>2, <2>3 DEF AboutToTell
    <3>2. Latest(stack[Height].event) => log' # << >> /\ stack[Height].event = log'[Len(log')]
      BY <1>1 DEF Latest
    <3>3. QED
      BY <1>1, <1>2, <1>7, <2>1, <2>2, <3>1, <3>2 DEF Told, Latest
  <2>6. QED
    BY <1>1, <1>2, <2>2, <2>3, <2>4, <2>5 DEF TellStep, HearStep
<1>8. CASE Head(Top.todo) # Memory
  <2>1. AllQuiet
    BY <1>3, <1>8 DEF AboutToTell, Telling
  <2>2. Quiet(g)
    BY <1>2, <1>8 DEF Quiet
  <2>3. AllQuiet'
    BY <1>1, <1>4, <1>6, <2>2, QuietShapes
  <2>4. QED
    BY <1>1, <2>1, <2>3 DEF QuietStep, SameOutcomes
<1>9. QED
  BY <1>7, <1>8

LEMMA EndIsHeard ==
  ASSUME TypeOK, TypeOK', AllQuiet, MemorySubscribed, Completes \/ Fails
  PROVE  EndStep
<1>1. PICK pc \in {"failed", "completed"} :
        /\ Top \in ExecuteFrame
        /\ ResumesAndCalls(TopAt(pc), Delivery(ExecutionEvent(pc, Top)))
        /\ log' = Append(log, ExecutionEvent(pc, Top))
        /\ control' = "return"
  BY KernelShapes DEF Completes, Fails, ExecuteFails, ExecuteCompletes, Publish
<1> DEFINE event == ExecutionEvent(pc, Top)
           g == Delivery(event)
<1>2. /\ event \in Event /\ event.type = pc
      /\ g.fn = "publish" /\ g.event = event /\ g.todo = subscribers[pc]
      /\ Quiet(TopAt(pc))
  BY <1>1 DEF ExecutionEvent, ExecuteFrame, Event, EventTypes, Delivery,
              Receivers, Quiet, TopAt
<1>3. Telling(g)
  BY <1>2 DEF Telling, MemorySubscribed, Ends
<1> HIDE DEF event, g
<1>4. /\ Height \in Nat /\ Height # 0 /\ Height' = Height + 1
      /\ stack'[Height] = TopAt(pc) /\ stack'[Height + 1] = g
      /\ \A i \in 1 .. Height - 1 : stack'[i] = stack[i]
  BY <1>1, StackIndices DEF ResumesAndCalls, Reshapes, Height, event, g
<1>5. \A i \in 1 .. Height : Quiet(stack'[i])
  <2>1. \A i \in 1 .. Height : i = Height \/ i \in 1 .. Height - 1
    BY <1>4
  <2>2. QED
    BY <1>2, <1>4, <2>1 DEF AllQuiet
<1>6. log' # << >> /\ log'[Len(log')] = event
  <2>1. log' = Append(log, event) /\ log \in Seq(Event)
    BY <1>1 DEF event, TypeOK
  <2>2. QED
    BY <1>2, <2>1, AppendProperties, LenProperties
<1>7. AboutToTell'
  <2>1. Height' # 0 /\ Height' - 1 = Height /\ stack'[Height'] = g
    BY <1>4
  <2>2. QED
    BY <1>1, <1>2, <1>3, <1>5, <1>6, <2>1 DEF AboutToTell, Latest
<1>8. QED
  BY <1>7 DEF EndStep

LEMMA MemoryIsHeard ==
  ASSUME TypeOK, TypeOK', Told, MemoryHandles
  PROVE  HandleStep
<1>1. Pops /\ \A i \in 1 .. Height - 1 : Quiet(stack[i])
  BY EndShapes DEF MemoryHandles, Told
<1> DEFINE f == Loading(<< >>)
<1>2. Quiet(f)
  BY DEF Quiet, Loading
<1> HIDE DEF f
<1>3. AllQuiet'
  BY <1>1, <1>2, QuietShapes
<1>4. QED
  BY <1>3 DEF HandleStep

LEMMA HearingStep ==
  ASSUME TypeOK, NestInv, HearsInv, MemorySubscribed, Memory \notin Plugins,
         [LearnNext]_allVars
  PROVE  QuietStep \/ EndStep \/ TellStep \/ HearStep \/ HandleStep
         \/ UNCHANGED allVars
<1> USE DEF OnlyControl, On, At, Returned
<1>1. TypeOK' /\ [Next]_vars
  BY LearnStep, TypeOKStep
<1>2. Height \in Nat /\ Top = stack[Height] /\ (stack = << >> <=> Height = 0)
      /\ (Height # 0 => Height \in 1 .. Height)
  BY StackIndices
<1>3. ASSUME AllQuiet, UNCHANGED <<stack, learnVars>>, SameOutcomes
      PROVE  QuietStep
  BY <1>3 DEF QuietStep, AllQuiet, Height
<1>4. ASSUME NEW f, NEW g, NEW h, Quiet(f), Quiet(g), Quiet(h),
             AllQuiet, SameOutcomes, UNCHANGED learnVars,
             \/ Pushes1(f) \/ Pushes2(f, g)
             \/ Pops \/ Resumes(f) \/ ResumesAndCalls(f, g)
             \/ ResumesAndCalls2(f, g, h)
      PROVE  QuietStep
  <2>1. \A i \in 1 .. Height - 1 : Quiet(stack[i])
    BY <1>2, <1>4 DEF AllQuiet
  <2>2. AllQuiet'
    BY <1>1, <1>4, <2>1, QuietShapes
  <2>3. QED
    BY <1>4, <2>2 DEF QuietStep
<1>5. ASSUME NEW p, NEW kind, p \in Plugins
      PROVE  Quiet(Callback(kind, p))
  BY <1>5 DEF Quiet, Callback
<1>6. ASSUME NEW f, f.fn \notin {"publish", "callback"}
      PROVE  Quiet(f)
  BY <1>6 DEF Quiet
<1>7. ASSUME NEW event, ~ Ends(event.type)
      PROVE  Quiet(Delivery(event))
  BY <1>7 DEF Quiet, Delivery
<1>8. CASE UNCHANGED allVars
  BY <1>8
<1>9. CASE AboutToTell /\ LearnNext
  <2>1. DeliverNext /\ UNCHANGED learnVars
    <3>1. /\ control = "return" /\ stack # << >> /\ Top.fn = "publish"
          /\ Top.todo # << >>
      BY <1>2, <1>9 DEF AboutToTell, Telling
    <3>2. ~ (\E capability \in Capabilities : Route(capability))
      BY <3>1 DEF Route, Make
    <3>3. ~ DirectCalls
      BY <3>1 DEF DirectCalls, Make, CallSubscribe, CallUnsubscribe, CallClear,
                  CallRegister, CallLoad, CallUnregister, CallShutdown,
                  CallExecute
    <3>4. ~ UserEnds /\ ~ Completes /\ ~ Fails /\ ~ MemoryHandles
      BY <3>1 DEF UserEnds, UserResumes, UserPropagates, UserReturns,
                  UserRaises, Completes, Fails, ExecuteCompletes, ExecuteFails,
                  MemoryHandles
    <3>5. Transitions => DeliverNext
      BY <3>1 DEF Transitions, RegisterInserts, RegisterRollsBack, LoadNext,
                  UnregisterRemoves, ShutdownNext, ExecuteCallsPlugin,
                  Returns, Reraises, ExecuteMisreads, Unwind
    <3>6. QED
      BY <1>9, <3>2, <3>3, <3>4, <3>5 DEF LearnNext
  <2>2. QED
    BY <1>1, <1>9, <2>1, DeliveryIsHeard
<1>10. CASE Told /\ LearnNext
  <2>1. AtMemory
    BY <1>2, <1>10 DEF Told, AtMemory
  <2>2. MemoryHandles
    BY <1>10, <2>1 DEF LearnNext, Told, Completes, Fails, ExecuteCompletes,
                       ExecuteFails
  <2>3. QED
    BY <1>1, <1>10, <2>2, MemoryIsHeard
<1> SUFFICES ASSUME AllQuiet, LearnNext
             PROVE  QuietStep \/ EndStep \/ TellStep \/ HearStep \/ HandleStep
  BY <1>8, <1>9, <1>10 DEF HearsInv
<1>11. ~ AtMemory /\ (Height # 0 => Quiet(Top))
  BY <1>2 DEF AllQuiet, AtMemory, Quiet
<1>12. CASE Completes \/ Fails
  BY <1>1, <1>12, EndIsHeard
<1>13. CASE DeliverNext /\ UNCHANGED learnVars
  BY <1>1, <1>13, DeliveryIsHeard
<1>14. ASSUME NEW id \in PluginIds, NEW capability \in Capabilities,
              NEW routed \in BOOLEAN, BeginExecution(id, capability, routed),
              UNCHANGED learnVars
       PROVE  QuietStep
  <2> DEFINE f == Executing(id, capability, routed)
             event == ExecutionEvent("started", f)
             g == Delivery(event)
  <2>1. Pushes2(f, g) /\ log' = Append(log, event)
    BY <1>14, CallShapes DEF BeginExecution, Publish, Executing
  <2>2. event \in Event /\ event.type = "started" /\ f.fn = "execute"
    BY DEF ExecutionEvent, Executing, Event, EventTypes, TypeOK
  <2>3. Quiet(f) /\ Quiet(g)
    BY <1>6, <1>7, <2>2 DEF Ends
  <2> HIDE DEF f, event, g
  <2>4. SameOutcomes
    BY <2>1, <2>2 DEF SameOutcomes
  <2>5. QED
    BY <1>4, <1>14, <2>1, <2>3, <2>4
<1>15. ASSUME NEW capability \in Capabilities, Route(capability)
       PROVE  QuietStep
  <2>1. UNCHANGED learnVars
    BY <1>15 DEF Route
  <2>2. CASE UNCHANGED <<stack, log>>
    BY <1>3, <2>1, <2>2 DEF SameOutcomes
  <2>3. ASSUME NEW i \in FindByCapability(capability),
               BeginExecution(Id[registry[i]], capability, TRUE)
        PROVE  QuietStep
    <3>1. i \in 1 .. Len(registry) /\ registry \in Seq(Plugins)
      BY LenProperties DEF FindByCapability, TypeOK
    <3>2. registry[i] \in Plugins
      BY <3>1, ElementOfSeq
    <3>3. Id[registry[i]] \in PluginIds
      BY <3>2, IdAssumption
    <3>4. QED
      BY <1>14, <2>1, <2>3, <3>3
  <2>4. QED
    BY <1>15, <2>2, <2>3 DEF Route, Select, Candidates
<1>16. CASE DirectCalls /\ UNCHANGED learnVars
  <2>1. ASSUME NEW p \in Plugins, CallRegister(p)
        PROVE  QuietStep
    <3> DEFINE f == Registering(p)
               g == Callback("initialize", p)
    <3>1. Pushes2(f, g) /\ UNCHANGED log /\ Quiet(g)
      BY <1>5, <2>1, CallShapes DEF CallRegister
    <3>2. Quiet(f)
      BY DEF Quiet, Registering
    <3> HIDE DEF f, g
    <3>3. QED
      BY <1>4, <1>16, <3>1, <3>2 DEF SameOutcomes
  <2>2. ASSUME NEW plugins \in Loads, CallLoad(plugins)
        PROVE  QuietStep
    <3> DEFINE f == Loading(plugins)
    <3>1. (Pushes1(f) \/ UNCHANGED stack) /\ UNCHANGED log
      BY <2>2, CallShapes DEF CallLoad
    <3>2. Quiet(f)
      BY DEF Quiet, Loading
    <3> HIDE DEF f
    <3>3. QED
      BY <1>3, <1>4, <1>16, <3>1, <3>2 DEF SameOutcomes
  <2>3. ASSUME NEW id \in PluginIds, CallUnregister(id)
        PROVE  QuietStep
    <3> DEFINE f == Unregistering(id)
               g == Callback("shutdown", Lookup(id))
    <3>1. \/ UNCHANGED stack
          \/ Pushes2(f, g) /\ HasId(id)
      BY <2>3, CallShapes
    <3>2. Quiet(f) /\ UNCHANGED log
      BY <2>3 DEF Quiet, Unregistering, CallUnregister
    <3>3. HasId(id) => Quiet(g)
      BY <1>5, LookupType DEF TypeOK
    <3> HIDE DEF f, g
    <3>4. QED
      BY <1>3, <1>4, <1>16, <3>1, <3>2, <3>3 DEF SameOutcomes
  <2>4. CASE CallShutdown
    <3> DEFINE f == ShuttingDown
    <3>1. Pushes1(f) /\ UNCHANGED log
      BY <2>4, CallShapes DEF CallShutdown
    <3>2. Quiet(f)
      BY DEF Quiet, ShuttingDown
    <3> HIDE DEF f
    <3>3. QED
      BY <1>4, <1>16, <3>1, <3>2 DEF SameOutcomes
  <2>5. ASSUME NEW id \in PluginIds, NEW capability \in Capabilities,
               CallExecute(id, capability)
        PROVE  QuietStep
    BY <1>14, <1>16, <2>5 DEF CallExecute
  <2>6. ASSUME NEW type \in EventTypes, NEW handler \in Handlers,
               CallSubscribe(type, handler) \/ CallUnsubscribe(type, handler)
        PROVE  UNCHANGED <<stack, log>>
    BY <2>6 DEF CallSubscribe, CallUnsubscribe
  <2>7. CallClear => UNCHANGED <<stack, log>>
    BY DEF CallClear
  <2>8. QED
    BY <1>3, <1>16, <2>1, <2>2, <2>3, <2>4, <2>5, <2>6, <2>7
       DEF DirectCalls, SameOutcomes
<1>17. CASE UserResumes /\ UNCHANGED learnVars
  BY <1>3, <1>17 DEF UserResumes, SameOutcomes
<1>18. CASE /\ \/ UserPropagates \/ UserReturns \/ UserRaises
               \/ Returns \/ Reraises \/ ExecuteMisreads \/ Unwind
            /\ UNCHANGED learnVars
  <2>1. Pops /\ UNCHANGED log
    BY <1>18, EndShapes DEF UserPropagates, UserReturns, UserRaises, Returns,
                            Reraises, ExecuteMisreads, Unwind
  <2> DEFINE f == Loading(<< >>)
  <2>2. Quiet(f)
    BY DEF Quiet, Loading
  <2> HIDE DEF f
  <2>3. QED
    BY <1>4, <1>18, <2>1, <2>2 DEF SameOutcomes
<1>19. CASE RegisterInserts /\ UNCHANGED learnVars
  <2> DEFINE event == PluginEvent("registered", Id[Top.plugin])
             f == TopAt("announce")
             g == Delivery(event)
  <2>1. Top \in RegisterFrame /\ ResumesAndCalls(f, g) /\ log' = Append(log, event)
    BY <1>19, KernelShapes DEF RegisterInserts, Publish
  <2>2. event \in Event /\ event.type = "registered" /\ Quiet(f)
    BY <2>1, IdAssumption DEF PluginEvent, Event, EventTypes, RegisterFrame,
                              Quiet, TopAt
  <2>3. Quiet(g)
    BY <1>7, <2>2 DEF Ends
  <2> HIDE DEF event, f, g
  <2>4. SameOutcomes
    BY <2>1, <2>2 DEF SameOutcomes
  <2>5. QED
    BY <1>4, <1>19, <2>1, <2>2, <2>3, <2>4
<1>20. CASE UnregisterRemoves /\ UNCHANGED learnVars
  <2> DEFINE event == PluginEvent("unregistered", Top.id)
             f == TopAt("announce")
             g == Delivery(event)
  <2>1. /\ Top \in UnregisterFrame /\ ResumesAndCalls(f, g)
        /\ log' = Append(log, event)
    BY <1>20, KernelShapes DEF UnregisterRemoves, Publish
  <2>2. event \in Event /\ event.type = "unregistered" /\ Quiet(f)
    BY <2>1 DEF PluginEvent, Event, EventTypes, UnregisterFrame, Quiet, TopAt
  <2>3. Quiet(g)
    BY <1>7, <2>2 DEF Ends
  <2> HIDE DEF event, f, g
  <2>4. SameOutcomes
    BY <2>1, <2>2 DEF SameOutcomes
  <2>5. QED
    BY <1>4, <1>20, <2>1, <2>2, <2>3, <2>4
<1>21. CASE RegisterRollsBack /\ UNCHANGED learnVars
  <2> DEFINE f == TopAt("rollback")
             g == Callback("shutdown", Top.plugin)
  <2>1. Top \in RegisterFrame /\ ResumesAndCalls(f, g) /\ UNCHANGED log
    BY <1>21, KernelShapes DEF RegisterRollsBack
  <2>2. Quiet(f) /\ Quiet(g)
    BY <1>5, <2>1 DEF RegisterFrame, Quiet, TopAt
  <2> HIDE DEF f, g
  <2>3. QED
    BY <1>4, <1>21, <2>1, <2>2 DEF SameOutcomes
<1>22. CASE LoadNext /\ UNCHANGED learnVars
  <2> DEFINE p == Head(Top.todo)
             g == Registering(p)
             h == Callback("initialize", p)
  <2>1. /\ Top \in LoadFrame /\ ResumesAndCalls2(Rest, g, h)
        /\ UNCHANGED log /\ Top.todo # << >>
    BY <1>22, KernelShapes DEF LoadNext
  <2>2. p \in Plugins
    BY <2>1, HeadTailProperties DEF LoadFrame
  <2>3. Quiet(Rest) /\ Quiet(g) /\ Quiet(h)
    BY <1>5, <2>1, <2>2 DEF LoadFrame, Quiet, Rest, Registering
  <2> HIDE DEF g, h, p
  <2>4. QED
    BY <1>4, <1>22, <2>1, <2>3 DEF SameOutcomes
<1>23. CASE ShutdownNext /\ UNCHANGED learnVars
  <2> DEFINE id == Head(Top.todo)
             g == Unregistering(id)
             h == Callback("shutdown", Lookup(id))
  <2>1. /\ Top \in ShutdownFrame /\ UNCHANGED log
        /\ \/ HasId(id) /\ ResumesAndCalls2(Rest, g, h)
           \/ Resumes(Rest)
    BY <1>23, KernelShapes DEF ShutdownNext
  <2>2. Quiet(Rest) /\ Quiet(g)
    BY <2>1 DEF ShutdownFrame, Quiet, Rest, Unregistering
  <2>3. HasId(id) => Quiet(h)
    BY <1>5, LookupType DEF TypeOK
  <2> HIDE DEF g, h, id
  <2>4. QED
    BY <1>4, <1>23, <2>1, <2>2, <2>3 DEF SameOutcomes
<1>24. CASE ExecuteCallsPlugin /\ UNCHANGED learnVars
  <2> DEFINE f == TopAt("running")
             g == Callback("execute", Lookup(Top.id))
  <2>1. /\ Top \in ExecuteFrame /\ ResumesAndCalls(f, g)
        /\ UNCHANGED log /\ HasId(Top.id)
    BY <1>24, KernelShapes DEF ExecuteCallsPlugin
  <2>2. Quiet(f) /\ Quiet(g)
    BY <1>5, <2>1, LookupType DEF ExecuteFrame, Quiet, TopAt, TypeOK
  <2> HIDE DEF f, g
  <2>3. QED
    BY <1>4, <1>24, <2>1, <2>2 DEF SameOutcomes
<1>25. CASE UserEnds /\ UNCHANGED learnVars
  BY <1>17, <1>18, <1>25 DEF UserEnds
<1>26. CASE Transitions /\ UNCHANGED learnVars
  BY <1>13, <1>18, <1>19, <1>20, <1>21, <1>22, <1>23, <1>24, <1>26
     DEF Transitions
<1>27. ~ MemoryHandles
  BY <1>11 DEF MemoryHandles
<1>28. QED
  BY <1>12, <1>15, <1>16, <1>25, <1>26, <1>27 DEF LearnNext

-----------------------------------------------------------------------------
(* The records of the memory against the log.                              *)

LEMMA EndedIs ==
  ASSUME TypeOK
  PROVE  /\ Ended \subseteq 1 .. Len(log) /\ Len(log) \in Nat
         /\ IsFiniteSet(Ended)
         /\ \A i \in Ended : log[i] \in Event
         /\ \A capability, id : Outcomes(capability, id)
              = {i \in Ended : /\ log[i].id = id
                               /\ payloads[log[i].run].capability = capability}
<1>1. log \in Seq(Event)
  BY DEF TypeOK
<1>2. DOMAIN log = 1 .. Len(log) /\ Len(log) \in Nat
      /\ \A i \in 1 .. Len(log) : log[i] \in Event
  <2> HIDE DEF Event
  <2>1. QED
    BY <1>1, LenProperties, ElementOfSeq
<1>3. Ended \subseteq 1 .. Len(log)
  BY <1>2 DEF Ended
<1>4. IsFiniteSet(Ended)
  <2>1. IsFiniteSet(1 .. Len(log))
    BY <1>2, FS_Interval
  <2>2. QED
    BY <1>3, <2>1, FS_Subset
<1>5. QED
  BY <1>2, <1>3, <1>4 DEF Outcomes, Ended, Ends

LEMMA SameRecords ==
  ASSUME TypeOK, TypeOK', PayloadInv, RecordInv, UNCHANGED learnVars,
         Ended' = Ended, \A i \in Ended : log'[i] = log[i],
         Recorded' = Recorded
  PROVE  PayloadInv' /\ RecordInv'
<1>1. PayloadInv'
  BY DEF PayloadInv, learnVars
<1>2. ASSUME NEW capability, NEW id
      PROVE  /\ Outcomes(capability, id)' = Outcomes(capability, id)
             /\ Outcomes(capability, id) \subseteq Ended
  <2>1. Outcomes(capability, id) = {i \in Ended :
          /\ log[i].id = id
          /\ payloads[log[i].run].capability = capability}
    BY EndedIs
  <2>2. Outcomes(capability, id)' = {i \in Ended' :
          /\ log'[i].id = id
          /\ payloads'[log'[i].run].capability = capability}
    BY DEF Outcomes, Ended, Ends
  <2>3. QED
    BY <2>1, <2>2 DEF learnVars
<1>3. \A i \in Ended : Succeeded(i)' <=> Succeeded(i)
  BY DEF Succeeded, learnVars
<1>4. ASSUME NEW capability \in Capabilities, NEW id \in PluginIds
      PROVE  /\ Heard(capability, id)' = Heard(capability, id)
             /\ HeardWell(capability, id)' = HeardWell(capability, id)
  BY <1>2, <1>3 DEF Heard, HeardWell
<1>5. RecordInv'
  BY <1>4 DEF RecordInv, learnVars
<1>6. QED
  BY <1>1, <1>5

LEMMA EndedNeutral ==
  ASSUME TypeOK, SameOutcomes
  PROVE  Ended' = Ended /\ \A i \in Ended : log'[i] = log[i]
<1>1. CASE UNCHANGED log
  BY <1>1 DEF Ended
<1>2. ASSUME NEW event \in Event, log' = Append(log, event),
             event.type \notin {"completed", "failed"}
      PROVE  Ended' = Ended /\ \A i \in Ended : log'[i] = log[i]
  <2>1. PICK n \in Nat : n = Len(log) /\ DOMAIN log = 1 .. n
    BY LenProperties DEF TypeOK
  <2>2. /\ DOMAIN log' = 1 .. n + 1
        /\ \A i \in 1 .. n : log'[i] = log[i]
        /\ log'[n + 1] = event
    BY <1>2, <2>1, AppendProperties, LenProperties DEF TypeOK
  <2>3. /\ \A i \in 1 .. n + 1 : i \in 1 .. n \/ i = n + 1
        /\ \A i \in 1 .. n : i \in 1 .. n + 1
    BY <2>1
  <2>4. QED
    BY <1>2, <2>1, <2>2, <2>3 DEF Ended, Ends
<1>3. QED
  BY <1>1, <1>2 DEF SameOutcomes

(* Steps that publish no terminal event, and record none.                  *)
LEMMA OthersRecordNothing ==
  ASSUME TypeOK, TypeOK', PayloadInv, RecordInv,
         QuietStep \/ TellStep \/ HearStep
  PROVE  PayloadInv' /\ RecordInv'
<1>1. SameOutcomes /\ UNCHANGED learnVars
  BY DEF QuietStep, TellStep, HearStep, SameOutcomes
<1>2. Ended' = Ended /\ \A i \in Ended : log'[i] = log[i]
  BY <1>1, EndedNeutral
<1>3. Owed' <=> Owed
  <2>1. CASE QuietStep
    BY <2>1, QuietOwesNothing DEF QuietStep
  <2>2. CASE TellStep
    BY <2>2 DEF TellStep, Owed
  <2>3. CASE HearStep
    <3>1. ~ Owed
      BY <2>3, QuietOwesNothing DEF HearStep
    <3>2. ~ Owed'
      BY <2>3 DEF HearStep, Owed, Told, AboutToTell
    <3>3. QED
      BY <3>1, <3>2
  <2>4. QED
    BY <2>1, <2>2, <2>3
<1>4. Owed => UNCHANGED log
  BY QuietOwesNothing DEF QuietStep, TellStep, HearStep
<1>5. Recorded' = Recorded
  BY <1>2, <1>3, <1>4 DEF Recorded
<1>6. QED
  BY <1>1, <1>2, <1>5, SameRecords

(* A terminal event is published: the memory owes it.                      *)
LEMMA EndIsOwed ==
  ASSUME TypeOK, TypeOK', RunsInv, PayloadInv, RecordInv, EndStep
  PROVE  PayloadInv' /\ RecordInv'
<1>1. PICK type \in {"completed", "failed"} :
        /\ ExecuteCompletes \/ ExecuteFails
        /\ log' = Append(log, ExecutionEvent(type, Top))
        /\ UNCHANGED observations
        /\ \E success \in BOOLEAN, duration \in Nat : Report(success, duration)
  <2>1. CASE Completes
    BY <2>1, DurationsAssumption DEF Completes, ExecuteCompletes, Publish
  <2>2. CASE Fails
    <3>1. Report(FALSE, 0) /\ 0 \in Nat /\ FALSE \in BOOLEAN
      BY <2>2 DEF Fails
    <3>2. QED
      BY <2>2, <3>1 DEF Fails, ExecuteFails, Publish
  <2>3. QED
    BY <2>1, <2>2 DEF EndStep
<1>2. PICK success \in BOOLEAN, duration \in Nat : Report(success, duration)
  BY <1>1
<1>3. /\ Top \in ExecuteFrame /\ Len(stack) \in DOMAIN stack
      /\ Top = stack[Len(stack)] /\ Top.fn = "execute"
      /\ Top.pc \in {"started", "running"}
  <2>1. Top \in ExecuteFrame
    BY <1>1, KernelShapes
  <2>2. QED
    BY <1>1, <2>1, StackIndices
       DEF ExecuteCompletes, ExecuteFails, Returned, At, On, Height
<1>4. \A i \in Ended : log[i].run # Top.run
  BY <1>3 DEF RunsInv, IsExecution, Ended, Ends, Terminal
<1> DEFINE event == ExecutionEvent(type, Top)
           p == [capability |-> Top.capability, id |-> Top.id,
                 success |-> success, duration |-> duration]
<1>5. /\ event \in Event /\ event.type = type /\ event.run = Top.run
      /\ event.id = Top.id
      /\ p \in Payload /\ p.id = Top.id
  BY <1>3 DEF ExecutionEvent, ExecuteFrame, Event, EventTypes, Payload
<1>6. payloads' = [run \in DOMAIN payloads \cup {Top.run} |->
                     IF run = Top.run THEN p ELSE payloads[run]]
  BY <1>2 DEF Report
<1> HIDE DEF event, p
<1>7. PICK n \in Nat : n = Len(log) /\ DOMAIN log = 1 .. n
  BY LenProperties DEF TypeOK
<1>8. /\ DOMAIN log' = 1 .. n + 1 /\ Len(log') = n + 1
      /\ \A i \in 1 .. n : log'[i] = log[i]
      /\ log'[n + 1] = event
  BY <1>1, <1>5, <1>7, AppendProperties, LenProperties DEF TypeOK, event
<1>9. /\ \A i \in 1 .. n + 1 : i \in 1 .. n \/ i = n + 1
      /\ \A i \in 1 .. n : i \in 1 .. n + 1 /\ i # n + 1
      /\ n + 1 \in 1 .. n + 1
  BY <1>7
<1>10. Ended' = Ended \cup {n + 1} /\ n + 1 \notin Ended
       /\ \A i \in Ended : log'[i] = log[i]
  BY <1>5, <1>7, <1>8, <1>9 DEF Ended, Ends
<1>11. \A i \in Ended : payloads'[log'[i].run] = payloads[log[i].run]
  BY <1>4, <1>6, <1>10 DEF PayloadInv
<1>12. payloads'[log'[n + 1].run] = p
  BY <1>5, <1>6, <1>8
<1>13. PayloadInv'
  <2>1. DOMAIN payloads' = {log'[i].run : i \in Ended'}
    BY <1>5, <1>6, <1>8, <1>10 DEF PayloadInv
  <2>2. \A i \in Ended' : /\ payloads'[log'[i].run] \in Payload
                          /\ payloads'[log'[i].run].id = log'[i].id
    BY <1>5, <1>8, <1>10, <1>11, <1>12 DEF PayloadInv
  <2>3. QED
    BY <2>1, <2>2 DEF PayloadInv
<1>14. Recorded = Ended /\ Recorded' = Ended
  BY <1>8, <1>10, QuietOwesNothing DEF Recorded, EndStep, Owed
<1>15. ASSUME NEW capability, NEW id
       PROVE  /\ Heard(capability, id)' = Heard(capability, id)
              /\ Outcomes(capability, id) \subseteq Ended
  <2>1. Outcomes(capability, id) = {i \in Ended :
          /\ log[i].id = id
          /\ payloads[log[i].run].capability = capability}
    BY EndedIs
  <2>2. Outcomes(capability, id)' = {i \in Ended' :
          /\ log'[i].id = id
          /\ payloads'[log'[i].run].capability = capability}
    BY DEF Outcomes, Ended, Ends
  <2>3. QED
    BY <1>10, <1>11, <1>14, <2>1, <2>2 DEF Heard
<1>16. \A i \in Ended : Succeeded(i)' <=> Succeeded(i)
  BY <1>11 DEF Succeeded
<1>17. ASSUME NEW capability \in Capabilities, NEW id \in PluginIds
       PROVE  HeardWell(capability, id)' = HeardWell(capability, id)
  <2>1. Heard(capability, id) \subseteq Ended
    BY <1>15 DEF Heard
  <2>2. QED
    BY <1>15, <1>16, <2>1 DEF HeardWell
<1>18. RecordInv'
  BY <1>1, <1>15, <1>17 DEF RecordInv
<1>19. QED
  BY <1>13, <1>18

(* The memory records the latest event.                                    *)
LEMMA LatestIsRecorded ==
  ASSUME TypeOK, TypeOK', PayloadInv, RecordInv, HandleStep
  PROVE  PayloadInv' /\ RecordInv'
<1>1. /\ UNCHANGED <<log, payloads>> /\ ~ Owed'
      /\ ConsumeEvent /\ Told
  BY QuietOwesNothing DEF HandleStep, MemoryHandles, UserReturns
<1>2. Ended' = Ended /\ \A i \in Ended : log'[i] = log[i]
  BY <1>1 DEF Ended
<1> DEFINE event == stack[Height - 1].event
           payload == payloads[event.run]
<1>3. observations' =
        IF Ends(event.type)
          THEN [observations EXCEPT
                  ![<<payload.capability, payload.id>>] = Added(@, payload)]
          ELSE observations
  BY <1>1 DEF ConsumeEvent, Consume, Height, Ends
<1>4. CASE ~ Ends(event.type)
  <2>1. ~ Owed
    BY <1>1, <1>4 DEF Owed, Told, AboutToTell
  <2>2. Recorded' = Recorded
    BY <1>1, <1>2, <2>1 DEF Recorded
  <2>3. UNCHANGED learnVars
    BY <1>1, <1>3, <1>4 DEF learnVars
  <2>4. QED
    BY <1>2, <2>2, <2>3, SameRecords
<1>5. CASE Ends(event.type)
  <2> DEFINE n == Len(log)
  <2>1. Owed /\ log # << >> /\ event = log[n]
    BY <1>1, <1>5 DEF Owed, Told, Latest
  <2>2. n \in Ended
    <3>1. log \in Seq(Event)
      BY DEF TypeOK
    <3>2. n \in DOMAIN log
      BY <2>1, <3>1, LenProperties, EmptySeq
    <3>3. QED
      BY <1>5, <2>1, <3>2 DEF Ended
  <2>3. Recorded = Ended \ {n} /\ Recorded' = Ended
    BY <1>1, <1>2, <2>1 DEF Recorded
  <2>4. payload \in Payload /\ payload.id = log[n].id
        /\ payload = payloads[log[n].run]
    BY <2>1, <2>2 DEF PayloadInv
  <2>5. /\ payload.capability \in Capabilities /\ payload.id \in PluginIds
        /\ payload.success \in BOOLEAN /\ payload.duration \in Nat
    BY <2>4 DEF Payload
  <2> HIDE DEF n, event, payload
  <2> DEFINE key == <<payload.capability, payload.id>>
  <2>6. PayloadInv'
    BY <1>1, <1>2 DEF PayloadInv
  <2>7. observations' = [observations EXCEPT ![key] = Added(@, payload)]
    BY <1>3, <1>5
  <2>8. ASSUME NEW p \in Performance
        PROVE  /\ Added(p, payload) \in Performance
               /\ Added(p, payload).total = p.total + 1
               /\ Added(p, payload).successful
                    = p.successful + (IF payload.success THEN 1 ELSE 0)
    BY <2>5, <2>8 DEF Added, Performance
  <2>9. key \in Capabilities \X PluginIds
        /\ observations \in [Capabilities \X PluginIds -> Performance]
    BY <2>5 DEF RecordInv
  <2>10. observations' \in [Capabilities \X PluginIds -> Performance]
    BY <2>7, <2>8, <2>9
  <2>11. ASSUME NEW capability \in Capabilities, NEW id \in PluginIds
         PROVE  /\ observations'[<<capability, id>>].total
                     = Cardinality(Heard(capability, id)')
                /\ observations'[<<capability, id>>].successful
                     = Cardinality(HeardWell(capability, id)')
    <3> DEFINE all == Outcomes(capability, id)
    <3>1. all = {i \in Ended : /\ log[i].id = id
                               /\ payloads[log[i].run].capability = capability}
      BY EndedIs
    <3>2. all \subseteq Ended /\ IsFiniteSet(Ended)
          /\ (n \in all <=> key = <<capability, id>>)
      BY <2>2, <2>4, <3>1, EndedIs
    <3>3. Outcomes(capability, id)' = all
      BY <1>1 DEF Outcomes
    <3> HIDE DEF all
    <3>4. Heard(capability, id) = all \ {n} /\ Heard(capability, id)' = all
      BY <2>3, <3>2, <3>3 DEF Heard, all
    <3>5. /\ HeardWell(capability, id) = {i \in all \ {n} : Succeeded(i)}
          /\ HeardWell(capability, id)' = {i \in all : Succeeded(i)}
      BY <1>1, <3>4 DEF HeardWell, Succeeded
    <3>6. Succeeded(n) <=> payload.success
      BY <2>4 DEF Succeeded
    <3>7. /\ observations[<<capability, id>>].total
               = Cardinality(Heard(capability, id))
          /\ observations[<<capability, id>>].successful
               = Cardinality(HeardWell(capability, id))
          /\ observations[<<capability, id>>] \in Performance
      BY DEF RecordInv
    <3>8. CASE key # <<capability, id>>
      <4>1. observations'[<<capability, id>>] = observations[<<capability, id>>]
        BY <2>7, <2>9, <3>8
      <4>2. all \ {n} = all
        BY <3>2, <3>8
      <4>3. QED
        BY <3>4, <3>5, <3>7, <4>1, <4>2
    <3>9. CASE key = <<capability, id>>
      <4>1. observations'[<<capability, id>>]
              = Added(observations[<<capability, id>>], payload)
        BY <2>7, <2>9, <3>9
      <4>2. /\ IsFiniteSet(all \ {n}) /\ n \notin all \ {n}
            /\ all = (all \ {n}) \cup {n} /\ IsFiniteSet(all)
        BY <3>2, <3>9, FS_Subset
      <4>3. Cardinality(all) = Cardinality(all \ {n}) + 1
        BY <4>2, FS_AddElement
      <4> DEFINE well == {i \in all \ {n} : Succeeded(i)}
      <4>4. IsFiniteSet(well) /\ n \notin well
        BY <4>2, FS_Subset
      <4>5. {i \in all : Succeeded(i)}
              = IF payload.success THEN well \cup {n} ELSE well
        BY <3>6, <4>2
      <4>6. Cardinality(well \cup {n}) = Cardinality(well) + 1
            /\ Cardinality(well) \in Nat
        BY <4>4, FS_AddElement, FS_CardinalityType
      <4> HIDE DEF well
      <4>7. Cardinality({i \in all : Succeeded(i)})
              = Cardinality(well) + (IF payload.success THEN 1 ELSE 0)
        BY <4>5, <4>6
      <4>8. QED
        BY <2>8, <3>4, <3>5, <3>7, <4>1, <4>3, <4>7 DEF well
    <3>10. QED
      BY <3>8, <3>9
  <2>12. RecordInv'
    BY <2>10, <2>11 DEF RecordInv
  <2>13. QED
    BY <2>6, <2>12
<1>6. QED
  BY <1>4, <1>5

LEMMA MemoryStep ==
  ASSUME TypeOK, NestInv, RunsInv, MemoryInv, MemorySubscribed,
         Memory \notin Plugins, [LearnNext]_allVars
  PROVE  MemoryInv'
<1>1. TypeOK'
  BY LearnStep, TypeOKStep
<1>2. CASE UNCHANGED allVars
  <2>1. UNCHANGED <<stack, control, log, learnVars>>
    BY <1>2 DEF allVars, vars, kernelVars
  <2>2. AllQuiet' <=> AllQuiet
    BY <2>1 DEF AllQuiet, Height
  <2>3. AboutToTell' <=> AboutToTell
    BY <2>1 DEF AboutToTell, Height, Latest
  <2>4. Told' <=> Told
    BY <2>1 DEF Told, Height, Latest
  <2>5. Owed' <=> Owed
    BY <2>1, <2>3, <2>4 DEF Owed, Height
  <2>6. Ended' = Ended
    BY <2>1 DEF Ended
  <2>7. Recorded' = Recorded
    BY <2>1, <2>5, <2>6 DEF Recorded
  <2>8. QED
    BY <1>1, <2>1, <2>2, <2>3, <2>4, <2>6, <2>7, SameRecords
       DEF MemoryInv, HearsInv
<1>3. CASE QuietStep \/ TellStep \/ HearStep
  BY <1>1, <1>3, OthersRecordNothing
     DEF MemoryInv, HearsInv, QuietStep, TellStep, HearStep
<1>4. CASE EndStep
  BY <1>1, <1>4, EndIsOwed DEF MemoryInv, HearsInv, EndStep
<1>5. CASE HandleStep
  BY <1>1, <1>5, LatestIsRecorded DEF MemoryInv, HearsInv, HandleStep
<1>6. QED
  BY <1>2, <1>3, <1>4, <1>5, HearingStep DEF MemoryInv

LEMMA MemoryInitially == LearnInit => MemoryInv
<1> SUFFICES ASSUME LearnInit
             PROVE  MemoryInv
  OBVIOUS
<1>1. Height = 0 /\ DOMAIN log = {} /\ Ended = {} /\ DOMAIN payloads = {}
  BY EmptySeq DEF LearnInit, Init, Height, Ended
<1>2. HearsInv /\ PayloadInv
  BY <1>1 DEF HearsInv, AllQuiet, PayloadInv
<1>3. ASSUME NEW capability, NEW id
      PROVE  Heard(capability, id) = {} /\ HeardWell(capability, id) = {}
  BY <1>1 DEF Heard, HeardWell, Recorded
<1>4. RecordInv
  BY <1>3, FS_EmptySet DEF RecordInv, LearnInit, Untried, Performance
<1>5. QED
  BY <1>2, <1>4 DEF MemoryInv

(* While the memory is the first subscriber of both terminal events, what  *)
(* it knows once every call has returned are the outcomes of the log, each *)
(* counted once.                                                           *)
THEOREM MemoryKnowsEveryOutcome ==
  ASSUME Memory \notin Plugins
  PROVE  LearnSpec /\ []MemorySubscribed => []MemoryIsComplete
<1>1. LearnInit => NestInv /\ RunsInv /\ MemoryInv
  <2>1. Init => RunsInv
    BY EmptySeq DEF Init, RunsInv, OneOutcome
  <2>2. QED
    BY <2>1, NestInitially, MemoryInitially DEF LearnInit
<1>2. /\ TypeOK /\ NestInv /\ RunsInv /\ MemoryInv /\ MemorySubscribed
      /\ [LearnNext]_allVars
      => NestInv' /\ RunsInv' /\ MemoryInv'
  BY LearnStep, NestStep, RunsInvStep, MemoryStep
<1>3. TypeOK /\ MemoryInv => MemoryIsComplete
  <2> SUFFICES ASSUME TypeOK, MemoryInv, stack = << >>,
                      NEW capability \in Capabilities, NEW id \in PluginIds
               PROVE  LET heard == Outcomes(capability, id)
                          known == observations[<<capability, id>>]
                      IN  /\ known.total = Cardinality(heard)
                          /\ known.successful
                               = Cardinality({i \in heard : Succeeded(i)})
    BY DEF MemoryIsComplete
  <2>1. Height = 0
    BY StackIndices
  <2>2. Recorded = Ended
    BY <2>1 DEF Recorded, Owed, AboutToTell, Told
  <2>3. Outcomes(capability, id) \subseteq Ended
    BY EndedIs
  <2>4. Heard(capability, id) = Outcomes(capability, id)
    BY <2>2, <2>3 DEF Heard
  <2>5. QED
    BY <2>4 DEF MemoryInv, RecordInv, HeardWell
<1>4. LearnSpec => []TypeOK
  BY LearningKernelIsKernel, TypeCorrectness, PTL DEF KernelSpec
<1>5. QED
  BY <1>1, <1>2, <1>3, <1>4, PTL DEF LearnSpec

(* Going by what it knows, the router cannot prefer a plugin of which no   *)
(* execution succeeded to one of which one did.                            *)
LEMMA RateDecides ==
  ASSUME NEW p \in Performance, NEW q \in Performance,
         p.successful # 0, ~ HigherRate(p, q)
  PROVE  q.successful # 0
<1>1. /\ p.successful \in Nat /\ q.successful \in Nat
      /\ Divisor(p) \in Nat \ {0} /\ Divisor(q) \in Nat \ {0}
  BY DEF Performance, Divisor
<1>2. ASSUME NEW a \in Nat \ {0}, NEW b \in Nat \ {0}
      PROVE  a * b > 0
  BY <1>2
<1>3. p.successful * Divisor(q) > 0
  BY <1>1, <1>2
<1>4. q.successful = 0 => q.successful * Divisor(p) = 0
  BY <1>1
<1>5. QED
  BY <1>3, <1>4 DEF HigherRate

LEMMA KnownSuccess ==
  ASSUME TypeOK, MemoryInv, stack = << >>,
         NEW capability \in Capabilities, NEW id \in PluginIds
  PROVE  /\ observations[<<capability, id>>] \in Performance
         /\ EverSucceeded(capability, id)
              <=> observations[<<capability, id>>].successful # 0
<1>1. Height = 0
  BY StackIndices
<1>2. Recorded = Ended
  BY <1>1 DEF Recorded, Owed, AboutToTell, Told
<1>3. Outcomes(capability, id) \subseteq Ended /\ IsFiniteSet(Ended)
  BY EndedIs
<1>4. HeardWell(capability, id)
        = {i \in Outcomes(capability, id) : Succeeded(i)}
  BY <1>2, <1>3 DEF HeardWell, Heard
<1>5. IsFiniteSet(HeardWell(capability, id))
  <2>1. HeardWell(capability, id) \subseteq Ended
    BY <1>3, <1>4
  <2>2. QED
    BY <1>3, <2>1, FS_Subset
<1>6. EverSucceeded(capability, id) <=> HeardWell(capability, id) # {}
  BY <1>4 DEF EverSucceeded
<1>7. QED
  BY <1>5, <1>6, FS_EmptySet DEF MemoryInv, RecordInv

LEMMA RouteStepWorks ==
  ASSUME TypeOK, MemoryInv, LearnNext, Strategy = "memory_best"
  PROVE  RouteWorks
<1> SUFFICES ASSUME NEW capability \in Capabilities, NEW plugin \in AlwaysUp,
                    stack = << >>, runs' = runs + 1,
                    stack'[1].routed, stack'[1].capability = capability,
                    capability \in Supports[plugin],
                    EverSucceeded(capability, Id[plugin])
             PROVE  EverSucceeded(capability, stack'[1].id)
  BY DEF RouteWorks
<1> USE DEF OnlyControl, On, At, Returned
<1>1. Height = 0 /\ runs' # runs /\ registry \in Seq(Plugins)
  BY StackIndices DEF TypeOK
<1>2. ASSUME NEW id \in PluginIds, NEW cap \in Capabilities,
             NEW routed \in BOOLEAN, BeginExecution(id, cap, routed)
      PROVE  /\ stack'[1].routed = routed /\ stack'[1].capability = cap
             /\ stack'[1].id = id
  <2> DEFINE f == Executing(id, cap, routed)
  <2>1. stack'[Height + 1] = f
    BY <1>2, CallShapes DEF Pushes2
  <2>2. f.routed = routed /\ f.capability = cap /\ f.id = id
    BY DEF Executing
  <2> HIDE DEF f
  <2>3. stack'[1] = f
    BY <1>1, <2>1
  <2>4. QED
    BY <2>2, <2>3
<1>3. PICK cap \in Capabilities : Route(cap)
  <2>1. ~ DirectCalls
    <3>1. ASSUME NEW id \in PluginIds, NEW cap \in Capabilities
          PROVE  ~ CallExecute(id, cap)
      BY <1>2 DEF CallExecute
    <3>2. QED
      BY <1>1, <3>1 DEF DirectCalls, CallSubscribe, CallUnsubscribe,
         CallClear, CallRegister, CallLoad, CallUnregister, CallShutdown
  <2>2. ~ UserEnds
    BY <1>1 DEF UserEnds, UserResumes, UserPropagates, UserReturns, UserRaises
  <2>3. ~ Transitions
    BY <1>1 DEF Transitions, DeliverNext, RegisterInserts, RegisterRollsBack,
       LoadNext, UnregisterRemoves, ShutdownNext, ExecuteCallsPlugin, Returns,
       Reraises, ExecuteMisreads, Unwind
  <2>4. ~ Completes /\ ~ Fails /\ ~ MemoryHandles
    BY <1>1 DEF Completes, Fails, ExecuteCompletes, ExecuteFails,
                MemoryHandles, UserReturns
  <2>5. QED
    BY <2>1, <2>2, <2>3, <2>4 DEF LearnNext
<1>4. PICK down \in Unavailable :
        \E i \in Select(Candidates(cap, down), cap) :
          BeginExecution(Id[registry[i]], cap, TRUE)
  BY <1>1, <1>3 DEF Route
<1> PICK i \in Select(Candidates(cap, down), cap) :
      BeginExecution(Id[registry[i]], cap, TRUE)
  BY <1>4
<1>5. /\ i \in FindByCapability(cap)
      /\ \A j \in Candidates(cap, down) : ~ Better(j, i, cap)
  BY DEF Select, Candidates
<1>6. i \in 1 .. Len(registry) /\ DOMAIN registry = 1 .. Len(registry)
  BY <1>1, <1>5, LenProperties DEF FindByCapability
<1>7. registry[i] \in Plugins /\ Id[registry[i]] \in PluginIds
  BY <1>1, <1>6, ElementOfSeq, IdAssumption
<1>8. cap = capability /\ stack'[1].id = Id[registry[i]]
  BY <1>2, <1>4, <1>7
<1>9. PICK j \in DOMAIN registry : registry[j] = plugin
  BY DEF AlwaysUp, Registered
<1>10. j \in Candidates(cap, down)
  BY <1>8, <1>9 DEF Candidates, FindByCapability, AlwaysUp
<1>11. plugin \in Plugins /\ Id[plugin] \in PluginIds
  BY <1>1, <1>6, <1>9, ElementOfSeq, IdAssumption
<1>12. ~ HigherRate(PerformanceFor(cap, j), PerformanceFor(cap, i))
  BY <1>5, <1>10 DEF Better, Preferred
<1>13. PerformanceFor(cap, j).successful # 0
  BY <1>8, <1>9, <1>11, KnownSuccess DEF PerformanceFor
<1>14. PerformanceFor(cap, i).successful # 0
  BY <1>7, <1>8, <1>9, <1>11, <1>12, <1>13, KnownSuccess, RateDecides
     DEF PerformanceFor
<1>15. QED
  BY <1>7, <1>8, <1>14, KnownSuccess DEF PerformanceFor

(* With memory_best (_select_memory_best), a plugin of which no execution  *)
(* succeeded is not chosen while one that has succeeded and that was       *)
(* available all the time supports the capability.                         *)
THEOREM SuccessIsPreferred ==
  ASSUME Memory \notin Plugins, Strategy = "memory_best"
  PROVE  LearnSpec /\ []MemorySubscribed => RoutesToWhatWorks
<1>1. LearnInit => NestInv /\ RunsInv /\ MemoryInv
  <2>1. Init => RunsInv
    BY EmptySeq DEF Init, RunsInv, OneOutcome
  <2>2. QED
    BY <2>1, NestInitially, MemoryInitially DEF LearnInit
<1>2. /\ TypeOK /\ NestInv /\ RunsInv /\ MemoryInv /\ MemorySubscribed
      /\ [LearnNext]_allVars
      => NestInv' /\ RunsInv' /\ MemoryInv' /\ [RouteWorks]_allVars
  BY LearnStep, NestStep, RunsInvStep, MemoryStep, RouteStepWorks
<1>3. LearnSpec => []TypeOK
  BY LearningKernelIsKernel, TypeCorrectness, PTL DEF KernelSpec
<1>4. QED
  BY <1>1, <1>2, <1>3, PTL DEF LearnSpec, RoutesToWhatWorks

-----------------------------------------------------------------------------
(* The engines.  One makes its calls with nothing on the stack, so while   *)
(* it waits, what stands at the bottom is its own call, or was.            *)

EngineTypes ==
  /\ engine \in Engines
  /\ agenda \in Seq(Call)
  /\ waiting \in BOOLEAN
  /\ current \in 0 .. runs
  /\ outcomes \in Seq(Outcome)
  /\ snapshot \in Seq(Plugins)

(* Nothing runs for an engine that is not waiting.                         *)
IdleInv ==
  /\ engine \in {"none", "done"} => ~ waiting /\ agenda = << >>
  /\ engine = "none" => outcomes = << >> /\ snapshot = << >>
  /\ ~ waiting /\ engine # "none" => AtClient

(* The call an engine waits for, until it returns.                         *)
WaitInv ==
  waiting =>
    /\ agenda # << >>
    /\ current = 0 => stack = << >> /\ control = "raise"
    /\ Height # 0 =>
         /\ stack[1].fn = "execute" /\ stack[1].run = current
         /\ stack[1].pc = "completed" => Logged("completed", current)
    /\ Height = 0 =>
         /\ control # "user"
         /\ control = "return" => Logged("completed", current)
    /\ Head(agenda).kind = "execute" => StartedIn(log, current, Head(agenda).id)

(* The runs whose results are in, and the one that is waited for.          *)
PastInv ==
  /\ ResultsAreTheRuns
  /\ \A k \in DOMAIN outcomes :
       /\ outcomes[k].run <= runs
       /\ waiting /\ current # 0 => outcomes[k].run # current

(* An engine works off what it found, once it has looked.                  *)
Looked ==
  /\ \A i \in DOMAIN agenda : agenda[i].kind = "execute"
  /\ Len(snapshot) = Len(Executed) + Len(agenda)
  /\ \A i \in DOMAIN Executed : Executed[i].call.id = Id[snapshot[i]]
  /\ \A i \in DOMAIN agenda : agenda[i].id = Id[snapshot[Len(Executed) + i]]

NotLooked ==
  /\ Executed = << >> /\ snapshot = << >>
  /\ \A i \in DOMAIN agenda :
       /\ agenda[i].kind # "execute"
       /\ agenda[i].kind = "fuse" => i = Len(agenda)

AgendaInv == Looked \/ NotLooked

KernelInv == TypeOK /\ RunsInv /\ NestInv
EngineInv == EngineTypes /\ IdleInv /\ WaitInv /\ PastInv /\ AgendaInv

-----------------------------------------------------------------------------
(* What a step of the kernel does to the log and to its oldest call.       *)

LEMMA LogGrows ==
  ASSUME TypeOK, TypeOK', UNCHANGED log \/ \E event : log' = Append(log, event)
  PROVE  /\ \A type, run : Logged(type, run) => Logged(type, run)'
         /\ \A run, id : StartedIn(log, run, id) => StartedIn(log', run, id)
<1>1. CASE UNCHANGED log
  BY <1>1 DEF Logged
<1>2. ASSUME NEW event, log' = Append(log, event)
      PROVE  /\ \A type, run : Logged(type, run) => Logged(type, run)'
             /\ \A run, id : StartedIn(log, run, id) => StartedIn(log', run, id)
  <2>1. PICK n \in Nat : n = Len(log) /\ DOMAIN log = 1 .. n
    BY LenProperties DEF TypeOK
  <2>2. DOMAIN log' = 1 .. n + 1 /\ \A i \in 1 .. n : log'[i] = log[i]
    BY <1>2, <2>1 DEF TypeOK
  <2>3. \A i \in 1 .. n : i \in 1 .. n + 1
    BY <2>1
  <2> QED
    BY <2>1, <2>2, <2>3 DEF Logged, StartedIn
<1> QED
  BY <1>1, <1>2

LEMMA RunsGrow == ASSUME TypeOK, [Next]_vars PROVE runs' \in {runs, runs + 1}
<1> USE DEF OnlyControl
<1>1. CASE DirectCalls
  <2>1. ASSUME NEW type, NEW handler,
               CallSubscribe(type, handler) \/ CallUnsubscribe(type, handler)
        PROVE  UNCHANGED runs
    BY <2>1 DEF CallSubscribe, CallUnsubscribe
  <2>2. ASSUME NEW id, NEW capability, CallExecute(id, capability)
        PROVE  runs' = runs + 1
    BY <2>2 DEF CallExecute, BeginExecution
  <2>3. ASSUME \/ CallClear \/ CallShutdown
               \/ \E plugin \in Plugins : CallRegister(plugin)
               \/ \E plugins \in Loads : CallLoad(plugins)
               \/ \E id \in PluginIds : CallUnregister(id)
        PROVE  UNCHANGED runs
    BY <2>3 DEF CallClear, CallShutdown, CallRegister, CallLoad, CallUnregister
  <2> QED
    BY <1>1, <2>1, <2>2, <2>3 DEF DirectCalls
<1>2. ASSUME NEW capability, CallExecuteCapability(capability)
      PROVE  runs' \in {runs, runs + 1}
  BY <1>2 DEF CallExecuteCapability, BeginExecution
<1>3. CASE UserEnds
  BY <1>3 DEF UserEnds, UserResumes, UserPropagates, UserReturns, UserRaises
<1>4. CASE Kernel
  BY <1>4 DEF Kernel, Transitions, DeliverNext, RegisterRollsBack, LoadNext, ShutdownNext,
              ExecuteCallsPlugin, Returns, Reraises, ExecuteMisreads, Unwind,
              RegisterInserts, UnregisterRemoves, ExecuteFails, ExecuteCompletes
<1>5. CASE UNCHANGED vars
  BY <1>5 DEF vars, kernelVars
<1> QED
  BY <1>1, <1>2, <1>3, <1>4, <1>5 DEF Next, UserCalls

(* The oldest call, of an execution, stays until it has an outcome.        *)
LEMMA OldestCall ==
  ASSUME TypeOK, NestInv, [Next]_vars, Height # 0, stack[1].fn = "execute"
  PROVE  \/ Height' # 0 /\ stack'[1] = stack[1]
         \/ \E pc \in {"running", "failed", "completed"} :
              /\ Height' # 0 /\ stack'[1] = [stack[1] EXCEPT !.pc = pc]
              /\ pc = "completed" => log' = Append(log, ExecutionEvent("completed", stack[1]))
         \/ Height' = 0 /\ control' = "raise"
         \/ Height' = 0 /\ control' = "return" /\ stack[1].pc = "completed"
<1> USE DEF On, At, Returned
<1>1. /\ Height \in Nat /\ Height' = Len(stack') /\ Top = stack[Height]
      /\ stack # << >>
  BY StackIndices DEF Height
<1>2. CASE Height # 1
  <2>1. 1 \in 1 .. Height - 1 /\ Height - 1 > 0
    BY <1>1, <1>2
  <2>2. Reshapes(Height - 1, Height') /\ Height' \in Nat /\ Height' >= Height - 1
    BY LowerFrames
  <2> QED
    BY <1>1, <2>1, <2>2 DEF Reshapes
<1>3. ASSUME Height = 1, NEW pc \in {"running", "failed", "completed"}, NEW g,
             ResumesAndCalls(TopAt(pc), g)
      PROVE  Height' # 0 /\ stack'[1] = [stack[1] EXCEPT !.pc = pc]
  <2>1. Height' = 2
    BY <1>1, <1>3 DEF ResumesAndCalls, Reshapes
  <2> QED
    BY <1>1, <1>3, <2>1 DEF ResumesAndCalls, TopAt
<1>4. ASSUME Height = 1, Pops PROVE Height' = 0
  BY <1>1, <1>4 DEF Pops, Reshapes
<1>5. CASE Height = 1
  <2>1. Top.fn = "execute" /\ control # "user" /\ Top = stack[1]
    BY <1>1, <1>5 DEF NestInv
  <2>2. CASE UNCHANGED <<stack, log>>
    BY <1>1, <1>5, <2>2 DEF Height
  <2>3. ~ UserCalls
    BY <2>1 DEF UserCalls, DirectCalls, CallSubscribe, CallUnsubscribe, CallClear,
           CallShutdown, CallRegister, CallLoad, CallUnregister, CallExecute,
           CallExecuteCapability, Make
  <2>4. ~ UserEnds
    BY <1>1, <2>1 DEF UserEnds, UserResumes, UserPropagates, UserReturns, UserRaises
  <2>5. CASE ExecuteCallsPlugin
    BY <1>3, <1>5, <2>5, KernelShapes
  <2>6. CASE ExecuteFails
    BY <1>3, <1>5, <2>6, KernelShapes
  <2>7. CASE ExecuteCompletes
    <3>1. log' = Append(log, ExecutionEvent("completed", Top))
      BY <2>7 DEF ExecuteCompletes, Publish
    <3> QED
      BY <1>3, <1>5, <2>1, <2>7, <3>1, KernelShapes
  <2>8. CASE Returns
    <3>1. Pops /\ control' = "return" /\ Top.pc = "completed"
      BY <2>1, <2>8, EndShapes DEF Returns, Leave
    <3> QED
      BY <1>4, <1>5, <2>1, <3>1
  <2>9. CASE Reraises \/ ExecuteMisreads \/ Unwind
    <3>1. Pops /\ control' = "raise"
      BY <2>9, EndShapes DEF Reraises, ExecuteMisreads, Unwind, Leave
    <3> QED
      BY <1>4, <1>5, <3>1
  <2>10. ~ (DeliverNext \/ RegisterInserts \/ RegisterRollsBack \/ LoadNext
            \/ UnregisterRemoves \/ ShutdownNext)
    BY <2>1 DEF DeliverNext, RegisterInserts, RegisterRollsBack, LoadNext,
                UnregisterRemoves, ShutdownNext
  <2>11. UNCHANGED vars => UNCHANGED <<stack, log>>
    BY DEF vars, kernelVars
  <2> QED
    BY <2>2, <2>3, <2>4, <2>5, <2>6, <2>7, <2>8, <2>9, <2>10, <2>11
       DEF Next, Kernel, Transitions
<1> QED
  BY <1>2, <1>5

(* An execution begun by an engine, which the bound on calls of user code  *)
(* does not count.                                                         *)
LEMMA EngineBegins ==
  ASSUME KernelInv, NEW id \in PluginIds, NEW capability \in Capabilities,
         NEW routed \in BOOLEAN, BeginExecution(id, capability, routed),
         UNCHANGED calls, AtClient
  PROVE  /\ KernelInv'
         /\ Height' = 2 /\ stack'[1] = Executing(id, capability, routed)
         /\ log' = Append(log, ExecutionEvent("started", Executing(id, capability, routed)))
         /\ runs' = runs + 1
         /\ StartedIn(log', runs + 1, id)
<1> DEFINE frame == Executing(id, capability, routed)
           event == ExecutionEvent("started", frame)
<1>1. TypeOK /\ RunsInv /\ NestInv /\ runs \in Nat /\ control = "user"
      /\ Height = 0
  BY StackIndices DEF KernelInv, TypeOK, AtClient
<1>2. /\ frame \in Frame /\ frame.fn = "execute" /\ frame.pc = "started"
      /\ frame.run = runs + 1 /\ frame.id = id
  BY <1>1 DEF Executing, Frame, ExecuteFrame
<1>3. /\ event \in Event /\ event.type = "started" /\ event.run = runs + 1
      /\ event.id = id
  BY <1>1 DEF ExecutionEvent, Executing, Event, EventTypes
<1>4. /\ Publish(Append(stack, frame), event) /\ runs' = runs + 1
      /\ UNCHANGED <<registry, life>> /\ log' = Append(log, event)
  BY DEF BeginExecution, Executing, Publish
<1>5. Pushes2(frame, Delivery(event))
  BY <1>1, CallShapes
<1>6. Append(stack, frame) \in Seq(Frame)
  BY <1>1, <1>2, Appended DEF TypeOK
<1>7. RunsInv'
  BY <1>1, RunsInvBegin
<1>8. CalledBy(frame, Delivery(event))
  BY <1>2 DEF CalledBy, Delivery
<1> HIDE DEF frame, event
<1>9. TypeOK'
  <2>1. /\ stack' \in Seq(Frame) /\ control' = "return"
        /\ history' \in Seq(Event) /\ log' \in Seq(Event)
        /\ subscribers' \in [EventTypes -> Seq(Handlers)]
    BY <1>1, <1>3, <1>4, <1>6, PublishType
  <2>2. runs' \in Nat
    BY <1>1, <1>4
  <2> QED
    BY <1>1, <1>4, <2>1, <2>2 DEF TypeOK
<1>10. control' = "return"
  BY <1>4 DEF Publish
<1>11. NestInv'
  BY <1>1, <1>2, <1>5, <1>8, <1>10, NestPush
<1>12. Height' = 2 /\ stack'[1] = frame
  BY <1>1, <1>5 DEF Pushes2, Reshapes, Height
<1>13. StartedIn(log', runs + 1, id)
  BY <1>1, <1>3, <1>4, StartedInAppend DEF TypeOK
<1> QED
  BY <1>4, <1>7, <1>9, <1>11, <1>12, <1>13 DEF KernelInv, frame, event

-----------------------------------------------------------------------------
(* What the engines keep while the kernel runs.                            *)

LEMMA NoSecondOutcome ==
  ASSUME OneOutcome, NEW run, Logged("completed", run)
  PROVE  ~ Logged("failed", run)
BY DEF OneOutcome, Logged, Terminal

(* Results that are in stay true as the log grows.                         *)
LEMMA ResultsStay ==
  ASSUME KernelInv, KernelInv', EngineTypes, PastInv, UNCHANGED outcomes,
         runs' \in {runs, runs + 1},
         UNCHANGED log \/ \E event : log' = Append(log, event)
  PROVE  /\ ResultsAreTheRuns'
         /\ \A k \in DOMAIN outcomes : outcomes[k].run <= runs'
<1>1. /\ \A type, run : Logged(type, run) => Logged(type, run)'
      /\ \A run, id : StartedIn(log, run, id) => StartedIn(log', run, id)
  BY LogGrows DEF KernelInv
<1>2. OneOutcome' /\ runs \in Nat
  BY DEF KernelInv, RunsInv, TypeOK
<1>3. \A run : Logged("completed", run)' => ~ Logged("failed", run)'
  BY <1>2 DEF OneOutcome, Logged, Terminal
<1>4. ResultsAreTheRuns'
  <2> SUFFICES ASSUME NEW k \in DOMAIN outcomes
               PROVE  LET run == outcomes[k].run
                      IN  /\ \A l \in 1 .. k - 1 : run # 0 => run # outcomes[l].run
                          /\ outcomes[k].result # "raised" =>
                               /\ Logged("completed", run)' /\ ~ Logged("failed", run)'
                               /\ outcomes[k].call.kind = "execute" =>
                                    StartedIn(log', run, outcomes[k].call.id)
    BY DEF ResultsAreTheRuns, StartedIn
  <2>1. \A l \in 1 .. k - 1 : outcomes[k].run # 0 => outcomes[k].run # outcomes[l].run
    BY DEF PastInv, ResultsAreTheRuns
  <2>2. outcomes[k].result # "raised" =>
          /\ Logged("completed", outcomes[k].run)
          /\ outcomes[k].call.kind = "execute" =>
               StartedIn(log, outcomes[k].run, outcomes[k].call.id)
    BY DEF PastInv, ResultsAreTheRuns, StartedIn
  <2> QED
    BY <1>1, <1>3, <2>1, <2>2
<1>5. ASSUME NEW k \in DOMAIN outcomes PROVE outcomes[k].run <= runs'
  <2>1. outcomes[k].run <= runs /\ outcomes[k].run \in Nat
    <3>1. outcomes[k] \in Outcome
      BY ElementOfSeq, LenProperties DEF EngineTypes
    <3> QED
      BY <3>1 DEF PastInv, Outcome
  <2> QED
    BY <1>2, <2>1
<1> QED
  BY <1>4, <1>5

LEMMA KernelMoves ==
  ASSUME KernelInv, EngineInv, [Next]_vars, engine = "none" \/ stack # << >>,
         UNCHANGED orchestrationVars
  PROVE  KernelInv' /\ EngineInv'
<1>1. /\ UNCHANGED <<engine, agenda, waiting, current, outcomes, snapshot>>
      /\ TypeOK /\ RunsInv /\ NestInv
      /\ EngineTypes /\ IdleInv /\ WaitInv /\ PastInv /\ AgendaInv
  BY DEF orchestrationVars, KernelInv, EngineInv
<1>2. KernelInv'
  BY <1>1, TypeOKStep, RunsInvStep, NestStep DEF KernelInv
<1>3. UNCHANGED log \/ \E event : log' = Append(log, event)
  BY StepLogs
<1>4. runs' \in {runs, runs + 1} /\ runs \in Nat
  BY <1>1, RunsGrow DEF TypeOK
<1>5. EngineTypes'
  BY <1>1, <1>4 DEF EngineTypes, Engines
<1>6. IdleInv'
  BY <1>1 DEF IdleInv, AtClient
<1>7. PastInv'
  BY <1>1, <1>2, <1>3, <1>4, ResultsStay DEF PastInv
<1>8. AgendaInv'
  BY <1>1 DEF AgendaInv, Looked, NotLooked, Executed
<1>9. ASSUME waiting PROVE WaitInv'
  <2>1. stack # << >> /\ Height # 0 /\ current # 0
    BY <1>1, <1>9, StackIndices DEF IdleInv, WaitInv
  <2>2. /\ stack[1].fn = "execute" /\ stack[1].run = current
        /\ stack[1].pc = "completed" => Logged("completed", current)
        /\ agenda # << >>
        /\ Head(agenda).kind = "execute" => StartedIn(log, current, Head(agenda).id)
    BY <1>1, <1>9, <2>1 DEF WaitInv
  <2>3. /\ \A type, run : Logged(type, run) => Logged(type, run)'
        /\ \A run, id : StartedIn(log, run, id) => StartedIn(log', run, id)
    BY <1>1, <1>2, <1>3, LogGrows DEF KernelInv
  <2>4. CASE Height' # 0 /\ stack'[1] = stack[1]
    BY <1>1, <2>1, <2>2, <2>3, <2>4 DEF WaitInv
  <2>5. ASSUME NEW pc \in {"running", "failed", "completed"}, Height' # 0,
               stack'[1] = [stack[1] EXCEPT !.pc = pc],
               pc = "completed" => log' = Append(log, ExecutionEvent("completed", stack[1]))
        PROVE  WaitInv'
    <3>1. stack[1] \in ExecuteFrame
      <4>1. Height \in Nat /\ 1 \in 1 .. Height /\ \A i \in 1 .. Height : stack[i] \in Frame
        BY <1>1, <2>1, StackIndices
      <4> QED
        BY <2>2, <4>1, FrameOf
    <3>2. stack'[1].fn = "execute" /\ stack'[1].run = current /\ stack'[1].pc = pc
      BY <2>2, <2>5, <3>1 DEF ExecuteFrame
    <3>3. pc = "completed" => Logged("completed", current)'
      <4>1. ExecutionEvent("completed", stack[1]) \in Event
        BY <3>1 DEF ExecutionEvent, Event, EventTypes, ExecuteFrame
      <4>2. /\ ExecutionEvent("completed", stack[1]).type = "completed"
            /\ ExecutionEvent("completed", stack[1]).run = current
        BY <2>2 DEF ExecutionEvent
      <4> QED
        BY <1>1, <2>5, <4>1, <4>2, LoggedAppend
    <3> QED
      BY <1>1, <2>1, <2>2, <2>3, <2>5, <3>2, <3>3 DEF WaitInv
  <2>6. CASE Height' = 0 /\ control' = "raise"
    BY <1>1, <2>1, <2>2, <2>3, <2>6 DEF WaitInv
  <2>7. CASE Height' = 0 /\ control' = "return" /\ stack[1].pc = "completed"
    BY <1>1, <2>1, <2>2, <2>3, <2>7 DEF WaitInv
  <2> QED
    BY <1>1, <2>1, <2>2, <2>4, <2>5, <2>6, <2>7, OldestCall
<1>10. WaitInv'
  <2>1. CASE waiting
    BY <1>9, <2>1
  <2>2. CASE ~ waiting
    BY <1>1, <2>2 DEF WaitInv
  <2> QED
    BY <2>1, <2>2
<1> QED
  BY <1>2, <1>5, <1>6, <1>7, <1>8, <1>10 DEF EngineInv

LEMMA CallIs ==
  ASSUME NEW call \in Call
  PROVE  /\ call.kind \in {"execute", "route", "fuse"} /\ call.capability \in Capabilities
         /\ call.kind = "execute" => call.id \in PluginIds
BY DEF Call

LEMMA AgendaIs ==
  ASSUME EngineTypes, agenda # << >>
  PROVE  /\ Head(agenda) \in Call /\ Head(agenda) = agenda[1] /\ 1 \in DOMAIN agenda
         /\ Tail(agenda) \in Seq(Call) /\ Len(agenda) \in Nat \ {0}
         /\ Len(Tail(agenda)) = Len(agenda) - 1
         /\ DOMAIN Tail(agenda) = 1 .. Len(agenda) - 1
         /\ \A i \in 1 .. Len(agenda) - 1 :
              Tail(agenda)[i] = agenda[i + 1] /\ i + 1 \in DOMAIN agenda
<1> HIDE DEF Call
<1>1. agenda \in Seq(Call)
  BY DEF EngineTypes
<1>2. PICK n \in Nat : n = Len(agenda) /\ DOMAIN agenda = 1 .. n
  BY <1>1, LenProperties
<1>3. n # 0
  BY <1>1, <1>2, EmptySeq
<1>4. Head(agenda) \in Call /\ Tail(agenda) \in Seq(Call) /\ Len(Tail(agenda)) = n - 1
      /\ \A i \in 1 .. n - 1 : Tail(agenda)[i] = agenda[i + 1]
  BY <1>1, <1>2, HeadTailProperties
<1>5. Head(agenda) = agenda[1]
  BY <1>1
<1> QED
  BY <1>2, <1>3, <1>4, <1>5, LenProperties

(* What an engine finds, and makes calls of.                               *)
LEMMA AttemptsAre ==
  ASSUME TypeOK, NEW capability \in Capabilities
  PROVE  /\ Supporting(capability) \in Seq(Plugins)
         /\ Attempts(capability) \in Seq(Call)
         /\ Len(Attempts(capability)) = Len(Supporting(capability))
         /\ \A i \in DOMAIN Attempts(capability) :
              /\ Attempts(capability)[i].kind = "execute"
              /\ Attempts(capability)[i].id = Id[Supporting(capability)[i]]
<1> DEFINE found == Supporting(capability)
<1>1. found \in Seq(Plugins)
  <2>1. registry \in Seq(Plugins)
    BY DEF TypeOK
  <2>2. FindByCapability(capability) \in SUBSET (DOMAIN registry)
    BY DEF FindByCapability
  <2> QED
    BY <2>1, <2>2, SelectedProperties DEF Supporting
<1>2. PICK n \in Nat : n = Len(found) /\ DOMAIN found = 1 .. n
  BY <1>1, LenProperties
<1>3. \A i \in 1 .. n : Id[found[i]] \in PluginIds
  BY <1>1, <1>2, ElementOfSeq, IdAssumption
<1>4. Attempts(capability) = [i \in 1 .. n |->
        [kind |-> "execute", id |-> Id[found[i]], capability |-> capability]]
  BY <1>2 DEF Attempts
<1> HIDE DEF found
<1>5. \A i \in 1 .. n :
        [kind |-> "execute", id |-> Id[found[i]], capability |-> capability] \in Call
  BY <1>3 DEF Call
<1>6. Attempts(capability) \in [1 .. n -> Call]
  BY <1>4, <1>5
<1>7. Attempts(capability) \in Seq(Call) /\ Len(Attempts(capability)) = n
  BY <1>6, FunctionIsSeq
<1> QED
  BY <1>1, <1>2, <1>4, <1>7 DEF found

LEMMA NothingExecuted == outcomes = << >> => Executed = << >>
<1> SUFFICES ASSUME outcomes = << >> PROVE Executed = << >>
  OBVIOUS
<1>1. {i \in DOMAIN outcomes : outcomes[i].call.kind = "execute"} = {}
  OBVIOUS
<1>2. Executed = Selected(outcomes, {})
  BY <1>1 DEF Executed
<1>3. Selected(outcomes, {}) \in Seq(Outcome) /\ Len(Selected(outcomes, {})) = 0
  <2>1. outcomes \in Seq(Outcome) /\ {} \in SUBSET (DOMAIN outcomes)
    OBVIOUS
  <2> QED
    BY <2>1, SelectedProperties, FS_EmptySet
<1> QED
  BY <1>2, <1>3, EmptySeq

(* Another result, of a plugin that was found or of a routed request.      *)
LEMMA ExecutedAppend ==
  ASSUME EngineTypes, NEW o \in Outcome, outcomes' = Append(outcomes, o)
  PROVE  /\ Executed \in Seq(Outcome)
         /\ o.call.kind = "execute" => Executed' = Append(Executed, o)
         /\ o.call.kind # "execute" => Executed' = Executed
<1> HIDE DEF Outcome
<1> DEFINE places == {i \in DOMAIN outcomes : outcomes[i].call.kind = "execute"}
           more == {i \in DOMAIN outcomes' : outcomes'[i].call.kind = "execute"}
<1>1. outcomes \in Seq(Outcome) /\ places \in SUBSET (DOMAIN outcomes)
  BY DEF EngineTypes
<1>2. PICK n \in Nat : n = Len(outcomes) /\ DOMAIN outcomes = 1 .. n
  BY <1>1, LenProperties
<1>3. /\ DOMAIN outcomes' = 1 .. n + 1 /\ outcomes'[n + 1] = o
      /\ \A i \in 1 .. n : outcomes'[i] = outcomes[i]
  BY <1>1, <1>2, AppendProperties, LenProperties
<1>4. Executed = Selected(outcomes, places) /\ Executed' = Selected(Append(outcomes, o), more)
  BY DEF Executed
<1>5. o.call.kind = "execute" => more = places \cup {n + 1}
  BY <1>2, <1>3
<1>6. o.call.kind # "execute" => more = places
  BY <1>2, <1>3
<1> HIDE DEF places, more
<1>7. Executed \in Seq(Outcome)
  BY <1>1, <1>4, SelectedProperties
<1>8. /\ Selected(Append(outcomes, o), places) = Selected(outcomes, places)
      /\ Selected(Append(outcomes, o), places \cup {n + 1})
           = Append(Selected(outcomes, places), o)
  BY <1>1, <1>2, SelectedAppend
<1> QED
  BY <1>4, <1>5, <1>6, <1>7, <1>8

-----------------------------------------------------------------------------
(* What the engines do.                                                    *)

LEMMA Looks ==
  ASSUME TypeOK, EngineTypes, NotLooked, UNCHANGED outcomes,
         NEW capability \in Capabilities,
         agenda' = Attempts(capability), snapshot' = Supporting(capability)
  PROVE  /\ agenda' \in Seq(Call) /\ snapshot' \in Seq(Plugins)
         /\ AgendaInv'
<1>1. /\ agenda' \in Seq(Call) /\ snapshot' \in Seq(Plugins)
      /\ Len(agenda') = Len(snapshot') /\ Len(agenda') \in Nat
      /\ \A i \in DOMAIN agenda' : /\ agenda'[i].kind = "execute"
                                   /\ agenda'[i].id = Id[snapshot'[i]]
      /\ DOMAIN agenda' = 1 .. Len(agenda')
  BY AttemptsAre, LenProperties
<1>2. Executed' = << >> /\ Len(Executed') = 0 /\ DOMAIN Executed' = {}
  BY EmptySeq DEF NotLooked, Executed
<1>3. \A i \in DOMAIN agenda' : 0 + i = i
  BY <1>1
<1> QED
  BY <1>1, <1>2, <1>3 DEF AgendaInv, Looked

LEMMA Starts ==
  ASSUME KernelInv, EngineInv,
         \/ \E capability \in Capabilities : Competes(capability)
         \/ RunsPipeline \/ RunsSuite
  PROVE  KernelInv' /\ EngineInv'
<1>1. /\ EngineTypes /\ IdleInv /\ WaitInv /\ PastInv /\ TypeOK
      /\ engine = "none" /\ AtClient /\ ~ waiting /\ outcomes = << >> /\ snapshot = << >>
      /\ engine' \in {"compete", "pipeline", "suite"}
      /\ UNCHANGED <<vars, waiting, current, outcomes>>
      /\ UNCHANGED <<stack, control, log, runs, calls, registry, life, subscribers, history>>
  BY DEF KernelInv, EngineInv, Competes, RunsPipeline, RunsSuite, IdleInv, vars, kernelVars
<1>2. KernelInv'
  BY <1>1, TypeOKStep, RunsInvStep, NestStep DEF KernelInv
<1>3. Executed = << >> /\ Executed' = << >> /\ NotLooked
  <2>1. Executed = << >>
    BY <1>1, NothingExecuted
  <2>2. Executed' = Executed
    BY <1>1 DEF Executed
  <2>3. agenda = << >>
    BY <1>1 DEF IdleInv
  <2> QED
    BY <1>1, <2>1, <2>2, <2>3 DEF NotLooked
<1>4. agenda' \in Seq(Call) /\ snapshot' \in Seq(Plugins) /\ AgendaInv'
  <2>1. ASSUME NEW capability \in Capabilities, Competes(capability)
        PROVE  agenda' \in Seq(Call) /\ snapshot' \in Seq(Plugins) /\ AgendaInv'
    BY <1>1, <1>3, <2>1, Looks DEF Competes
  <2>2. \A capability \in Capabilities :
          /\ Routed(capability) \in Call /\ Routed(capability).kind = "route"
          /\ Fused(capability) \in Call /\ Fused(capability).kind = "fuse"
    BY DEF Routed, Fused, Call
  <2>3. CASE RunsPipeline
    <3>1. agenda' = <<Routed(ReasonCapability), Routed(CodeCapability),
                      Fused(ReasonCapability)>>
          /\ snapshot' = << >>
      BY <1>1, <2>3 DEF RunsPipeline
    <3>2. ReasonCapability \in Capabilities /\ CodeCapability \in Capabilities
      BY StagesAssumption
    <3> HIDE DEF Call
    <3>3. /\ agenda' \in Seq(Call) /\ Len(agenda') = 3 /\ DOMAIN agenda' = 1 .. 3
          /\ agenda'[1].kind = "route" /\ agenda'[2].kind = "route"
          /\ agenda'[3].kind = "fuse"
      BY <2>2, <3>1, <3>2
    <3> QED
      BY <1>3, <3>1, <3>3 DEF AgendaInv, NotLooked
  <2>4. CASE RunsSuite
    <3>1. agenda' = [i \in DOMAIN Tasks |-> Routed(Tasks[i])] /\ snapshot' = << >>
      BY <1>1, <2>4 DEF RunsSuite
    <3>2. PICK n \in Nat : DOMAIN Tasks = 1 .. n /\ \A i \in 1 .. n : Tasks[i] \in Capabilities
      BY TasksAssumption, LenProperties, ElementOfSeq
    <3> HIDE DEF Call
    <3>3. agenda' \in [1 .. n -> Call] /\ \A i \in DOMAIN agenda' : agenda'[i].kind = "route"
      BY <2>2, <3>1, <3>2
    <3>4. agenda' \in Seq(Call)
      BY <3>3, FunctionIsSeq
    <3> QED
      BY <1>3, <3>1, <3>3, <3>4 DEF AgendaInv, NotLooked
  <2> QED
    BY <2>1, <2>3, <2>4
<1>5. EngineTypes' /\ IdleInv' /\ WaitInv'
  BY <1>1, <1>4 DEF EngineTypes, Engines, IdleInv, WaitInv, AtClient
<1>6. PastInv'
  BY <1>1 DEF PastInv, ResultsAreTheRuns, Logged
<1> QED
  BY <1>2, <1>4, <1>5, <1>6 DEF EngineInv

LEMMA FusesInv == ASSUME KernelInv, EngineInv, Fuses PROVE KernelInv' /\ EngineInv'
<1>1. /\ EngineTypes /\ IdleInv /\ WaitInv /\ PastInv /\ AgendaInv /\ TypeOK
      /\ AtClient /\ ~ waiting /\ agenda # << >> /\ Head(agenda).kind = "fuse"
      /\ UNCHANGED <<vars, engine, waiting, current, outcomes>>
      /\ UNCHANGED <<stack, control, log, runs, calls, registry, life, subscribers, history>>
  BY DEF KernelInv, EngineInv, Fuses, vars, kernelVars
<1>2. KernelInv'
  BY <1>1, TypeOKStep, RunsInvStep, NestStep DEF KernelInv
<1>3. NotLooked
  BY <1>1, AgendaIs DEF AgendaInv, Looked
<1>4. Head(agenda).capability \in Capabilities
  BY <1>1, AgendaIs, CallIs
<1>5. Tail(agenda) = << >>
  <2>1. Len(agenda) = 1
    BY <1>1, <1>3, AgendaIs DEF NotLooked
  <2>2. Tail(agenda) \in Seq(Call) /\ Len(Tail(agenda)) = 0
    BY <1>1, <2>1, AgendaIs
  <2> QED
    BY <2>2, EmptySeq
<1>6. /\ agenda' = Attempts(Head(agenda).capability)
      /\ snapshot' = Supporting(Head(agenda).capability)
  <2>1. Attempts(Head(agenda).capability) \in Seq(Call)
    BY <1>1, <1>4, AttemptsAre
  <2>2. Attempts(Head(agenda).capability) \o << >> = Attempts(Head(agenda).capability)
    BY <2>1, ConcatEmptySeq
  <2> QED
    BY <1>5, <2>2 DEF Fuses
<1>7. agenda' \in Seq(Call) /\ snapshot' \in Seq(Plugins) /\ AgendaInv'
  BY <1>1, <1>3, <1>4, <1>6, Looks
<1>8. EngineTypes' /\ IdleInv' /\ WaitInv'
  BY <1>1, <1>7 DEF EngineTypes, IdleInv, WaitInv, AtClient
<1>9. PastInv'
  BY <1>1 DEF PastInv, ResultsAreTheRuns, Logged
<1> QED
  BY <1>2, <1>7, <1>8, <1>9 DEF EngineInv

LEMMA EngineReturnsInv ==
  ASSUME KernelInv, EngineInv, EngineReturns PROVE KernelInv' /\ EngineInv'
<1>1. /\ EngineTypes /\ IdleInv /\ WaitInv /\ PastInv /\ AgendaInv /\ TypeOK
      /\ AtClient /\ ~ waiting /\ agenda = << >> /\ engine' = "done"
      /\ UNCHANGED <<vars, agenda, snapshot, waiting, current, outcomes>>
      /\ UNCHANGED <<stack, control, log, runs, calls, registry, life, subscribers, history>>
  BY DEF KernelInv, EngineInv, EngineReturns, vars, kernelVars
<1>2. KernelInv'
  BY <1>1, TypeOKStep, RunsInvStep, NestStep DEF KernelInv
<1>3. EngineTypes' /\ IdleInv' /\ WaitInv'
  BY <1>1 DEF EngineTypes, Engines, IdleInv, WaitInv, AtClient
<1>4. PastInv'
  BY <1>1 DEF PastInv, ResultsAreTheRuns, Logged
<1>5. AgendaInv'
  BY <1>1 DEF AgendaInv, Looked, NotLooked, Executed
<1> QED
  BY <1>2, <1>3, <1>4, <1>5 DEF EngineInv

(* An engine makes its next call, for which it will wait.                  *)
LEMMA CallBegins ==
  ASSUME KernelInv, EngineInv, AtClient, ~ waiting, agenda # << >>,
         NEW id \in PluginIds, NEW capability \in Capabilities, NEW routed \in BOOLEAN,
         BeginExecution(id, capability, routed),
         Head(agenda).kind = "execute" => Head(agenda).id = id,
         waiting' = TRUE, current' = runs + 1,
         UNCHANGED <<calls, engine, agenda, outcomes, snapshot>>
  PROVE  KernelInv' /\ EngineInv'
<1> DEFINE frame == Executing(id, capability, routed)
           event == ExecutionEvent("started", frame)
<1>1. /\ EngineTypes /\ IdleInv /\ PastInv /\ AgendaInv /\ TypeOK /\ runs \in Nat
  BY DEF KernelInv, EngineInv, TypeOK
<1>2. /\ KernelInv' /\ Height' = 2 /\ stack'[1] = frame
      /\ log' = Append(log, event) /\ runs' = runs + 1
      /\ StartedIn(log', runs + 1, id)
  BY EngineBegins
<1>3. frame.fn = "execute" /\ frame.run = runs + 1 /\ frame.pc = "started"
  BY DEF Executing
<1> HIDE DEF frame, event
<1>4. EngineTypes'
  BY <1>1, <1>2 DEF EngineTypes
<1>5. IdleInv'
  BY <1>1 DEF IdleInv
<1>6. WaitInv'
  <2>1. current' # 0
    BY <1>1
  <2> QED
    BY <1>1, <1>2, <1>3, <2>1 DEF WaitInv
<1>7. PastInv'
  <2>1. /\ ResultsAreTheRuns'
        /\ \A k \in DOMAIN outcomes : outcomes[k].run <= runs'
    BY <1>1, <1>2, ResultsStay
  <2>2. ASSUME NEW k \in DOMAIN outcomes PROVE outcomes[k].run # runs + 1
    <3>1. outcomes[k] \in Outcome
      BY <1>1, ElementOfSeq, LenProperties DEF EngineTypes
    <3>2. outcomes[k].run \in Nat /\ outcomes[k].run <= runs
      BY <1>1, <3>1 DEF Outcome, PastInv
    <3> QED
      BY <1>1, <3>2
  <2> QED
    BY <2>1, <2>2 DEF PastInv
<1>8. AgendaInv'
  BY <1>1 DEF AgendaInv, Looked, NotLooked, Executed
<1> QED
  BY <1>2, <1>4, <1>5, <1>6, <1>7, <1>8 DEF EngineInv

LEMMA ExecutesInv == ASSUME KernelInv, EngineInv, Executes PROVE KernelInv' /\ EngineInv'
<1>1. EngineTypes /\ agenda # << >> /\ Head(agenda).kind = "execute"
  BY DEF EngineInv, Executes
<1>2. Head(agenda).id \in PluginIds /\ Head(agenda).capability \in Capabilities
  BY <1>1, AgendaIs, CallIs
<1> QED
  BY <1>1, <1>2, CallBegins DEF Executes

LEMMA RoutesInv == ASSUME KernelInv, EngineInv, Routes PROVE KernelInv' /\ EngineInv'
<1>1. /\ EngineTypes /\ IdleInv /\ PastInv /\ AgendaInv /\ TypeOK /\ RunsInv
      /\ agenda # << >> /\ Head(agenda).kind = "route" /\ ~ waiting
      /\ AtClient /\ stack = << >> /\ waiting' = TRUE /\ runs \in Nat
      /\ UNCHANGED <<calls, engine, agenda, outcomes, snapshot>>
  BY DEF KernelInv, EngineInv, Routes, AtClient, TypeOK
<1>2. Head(agenda).capability \in Capabilities
  BY <1>1, AgendaIs, CallIs
<1>3. ASSUME NEW i \in FindByCapability(Head(agenda).capability),
             BeginExecution(Id[registry[i]], Head(agenda).capability, TRUE),
             current' = runs + 1
      PROVE  KernelInv' /\ EngineInv'
  <2>1. Id[registry[i]] \in PluginIds
    BY IdAssumption, LenProperties, ElementOfSeq DEF TypeOK, FindByCapability, KernelInv
  <2> QED
    BY <1>1, <1>2, <1>3, <2>1, CallBegins
<1>4. ASSUME control' = "raise", current' = 0,
             UNCHANGED <<busVars, registry, stack, life, runs, log>>
      PROVE  KernelInv' /\ EngineInv'
  <2>1. UNCHANGED <<subscribers, history, registry, stack, life, runs, log, calls>>
    BY <1>1, <1>4 DEF busVars
  <2>2. TypeOK'
    BY <1>1, <1>4, <2>1 DEF TypeOK
  <2>3. RunsInv'
    BY <1>1, <2>1 DEF RunsInv, OneOutcome, Terminal, IsExecution
  <2>4. Height' = 0 /\ NestInv'
    <3>1. Height' = 0
      BY <1>1, <2>1, EmptySeq DEF Height
    <3> QED
      BY <1>4, <3>1 DEF NestInv
  <2>5. EngineTypes' /\ IdleInv' /\ WaitInv'
    BY <1>1, <1>4, <2>1, <2>4 DEF EngineTypes, IdleInv, WaitInv
  <2>6. PastInv'
    BY <1>1, <1>4, <2>1 DEF PastInv, ResultsAreTheRuns, Logged
  <2>7. AgendaInv'
    BY <1>1 DEF AgendaInv, Looked, NotLooked, Executed
  <2> QED
    BY <2>2, <2>3, <2>4, <2>5, <2>6, <2>7 DEF KernelInv, EngineInv
<1> QED
  BY <1>3, <1>4 DEF Routes

(* The call returns or raises.  A result that is none of an exception      *)
(* comes with the COMPLETED event of its run.                              *)
LEMMA GetsInv ==
  ASSUME KernelInv, EngineInv, NEW result \in Results, Gets(result)
  PROVE  KernelInv' /\ EngineInv'
<1> DEFINE o == [call |-> Head(agenda), run |-> current, result |-> result]
<1>1. /\ EngineTypes /\ IdleInv /\ WaitInv /\ PastInv /\ AgendaInv /\ TypeOK /\ RunsInv
      /\ waiting /\ stack = << >> /\ control # "user" /\ agenda # << >>
      /\ (result = "raised") <=> (control = "raise")
      /\ outcomes' = Append(outcomes, o) /\ agenda' = Tail(agenda)
      /\ waiting' = FALSE /\ control' = "user"
      /\ UNCHANGED <<busVars, registry, stack, life, runs, log, calls>>
      /\ UNCHANGED <<engine, current, snapshot>>
  BY DEF KernelInv, EngineInv, Gets, WaitInv
<1>2. KernelInv'
  <2>1. Next
    BY <1>1 DEF UserResumes, UserEnds, Next
  <2> QED
    BY <2>1, TypeOKStep, RunsInvStep, NestStep DEF KernelInv
<1>3. runs \in Nat /\ current \in Nat /\ current <= runs
  BY <1>1 DEF TypeOK, EngineTypes
<1>4. /\ o \in Outcome /\ o.call = Head(agenda) /\ o.run = current /\ o.result = result
  BY <1>1, <1>3, AgendaIs DEF Outcome
<1> HIDE DEF o
<1>5. EngineTypes'
  <2>1. outcomes' \in Seq(Outcome) /\ agenda' \in Seq(Call)
    BY <1>1, <1>4, AgendaIs, AppendProperties DEF EngineTypes
  <2> QED
    BY <1>1, <2>1 DEF EngineTypes
<1>6. IdleInv' /\ WaitInv'
  BY <1>1 DEF IdleInv, WaitInv, AtClient
<1>7. PICK n \in Nat : n = Len(outcomes) /\ DOMAIN outcomes = 1 .. n
  BY <1>1, LenProperties DEF EngineTypes
<1>8. /\ DOMAIN outcomes' = 1 .. n + 1 /\ outcomes'[n + 1] = o
      /\ \A i \in 1 .. n : outcomes'[i] = outcomes[i]
  BY <1>1, <1>4, <1>7, AppendProperties, LenProperties DEF EngineTypes
<1>9. PastInv'
  <2>1. ASSUME NEW k \in 1 .. n + 1
        PROVE  /\ \A l \in 1 .. k - 1 :
                    outcomes'[k].run # 0 => outcomes'[k].run # outcomes'[l].run
               /\ outcomes'[k].result # "raised" =>
                    /\ Logged("completed", outcomes'[k].run)
                    /\ ~ Logged("failed", outcomes'[k].run)
                    /\ outcomes'[k].call.kind = "execute" =>
                         StartedIn(log, outcomes'[k].run, outcomes'[k].call.id)
               /\ outcomes'[k].run <= runs
    <3>1. \A l \in 1 .. k - 1 : l \in 1 .. n
      BY <1>7
    <3>2. CASE k \in 1 .. n
      BY <1>1, <1>7, <1>8, <3>1, <3>2 DEF PastInv, ResultsAreTheRuns, StartedIn
    <3>3. CASE k = n + 1
      <4>1. \A l \in 1 .. k - 1 : current # 0 => current # outcomes'[l].run
        BY <1>1, <1>7, <1>8, <3>1 DEF PastInv
      <4>2. ASSUME result # "raised"
            PROVE  /\ Logged("completed", current) /\ ~ Logged("failed", current)
                   /\ Head(agenda).kind = "execute" => StartedIn(log, current, Head(agenda).id)
        <5>1. control = "return" /\ Height = 0
          BY <1>1, <4>2, StackIndices DEF TypeOK
        <5>2. Logged("completed", current)
          BY <1>1, <5>1 DEF WaitInv
        <5>3. ~ Logged("failed", current)
          BY <1>1, <5>2, NoSecondOutcome DEF RunsInv
        <5> QED
          BY <1>1, <5>2, <5>3 DEF WaitInv
      <4> QED
        BY <1>3, <1>4, <1>8, <3>3, <4>1, <4>2
    <3> QED
      BY <1>7, <3>2, <3>3
  <2> QED
    BY <1>1, <1>8, <2>1 DEF PastInv, ResultsAreTheRuns, StartedIn, Logged
<1>10. /\ Executed \in Seq(Outcome)
       /\ o.call.kind = "execute" => Executed' = Append(Executed, o)
       /\ o.call.kind # "execute" => Executed' = Executed
  BY <1>1, <1>4, ExecutedAppend
<1>11. ASSUME Looked PROVE AgendaInv'
  <2>1. Head(agenda).kind = "execute" /\ Head(agenda).id = Id[snapshot[Len(Executed) + 1]]
    BY <1>1, <1>11, AgendaIs DEF Looked
  <2>2. Executed' = Append(Executed, o)
    BY <1>4, <1>10, <2>1
  <2>3. PICK m \in Nat : m = Len(Executed) /\ DOMAIN Executed = 1 .. m
    BY <1>10, LenProperties
  <2>4. /\ Len(Executed') = m + 1 /\ DOMAIN Executed' = 1 .. m + 1
        /\ Executed'[m + 1] = o /\ \A i \in 1 .. m : Executed'[i] = Executed[i]
    <3> HIDE DEF Outcome
    <3> QED
      BY <1>4, <1>10, <2>2, <2>3, AppendProperties, LenProperties
  <2>5. PICK q \in Nat : /\ q = Len(agenda) /\ q # 0
                         /\ Len(agenda') = q - 1 /\ DOMAIN agenda' = 1 .. q - 1
                         /\ \A i \in 1 .. q - 1 : agenda'[i] = agenda[i + 1]
                                                 /\ i + 1 \in DOMAIN agenda
    BY <1>1, AgendaIs
  <2>6. Len(snapshot') = Len(Executed') + Len(agenda')
    BY <1>1, <1>11, <2>3, <2>4, <2>5 DEF Looked
  <2>7. \A i \in 1 .. q - 1 : agenda'[i].kind = "execute"
    BY <1>11, <2>5 DEF Looked
  <2>8. ASSUME NEW i \in 1 .. q - 1
        PROVE  agenda'[i].id = Id[snapshot'[Len(Executed') + i]]
    <3>1. agenda'[i].id = Id[snapshot[m + (i + 1)]]
      BY <1>11, <2>3, <2>5 DEF Looked
    <3>2. m + (i + 1) = (m + 1) + i
      BY <2>3, <2>5
    <3> QED
      BY <1>1, <2>4, <3>1, <3>2
  <2>9. ASSUME NEW i \in 1 .. m + 1
        PROVE  Executed'[i].call.id = Id[snapshot'[i]]
    <3>1. CASE i \in 1 .. m
      BY <1>1, <1>11, <2>3, <2>4, <3>1 DEF Looked
    <3>2. CASE i = m + 1
      BY <1>1, <1>4, <2>1, <2>3, <2>4, <3>2
    <3> QED
      BY <2>3, <3>1, <3>2
  <2> QED
    BY <2>4, <2>5, <2>6, <2>7, <2>8, <2>9 DEF AgendaInv, Looked
<1>12. ASSUME NotLooked PROVE AgendaInv'
  <2>1. Head(agenda).kind # "execute"
    BY <1>1, <1>12, AgendaIs DEF NotLooked
  <2>2. Executed' = << >> /\ snapshot' = << >>
    BY <1>1, <1>4, <1>10, <1>12, <2>1 DEF NotLooked
  <2>3. ASSUME NEW i \in DOMAIN agenda'
        PROVE  /\ agenda'[i].kind # "execute"
               /\ agenda'[i].kind = "fuse" => i = Len(agenda')
    <3>1. /\ i \in 1 .. Len(agenda) - 1 /\ Len(agenda) \in Nat
          /\ agenda'[i] = agenda[i + 1] /\ i + 1 \in DOMAIN agenda
          /\ Len(agenda') = Len(agenda) - 1
      BY <1>1, AgendaIs
    <3>2. /\ agenda[i + 1].kind # "execute"
          /\ agenda[i + 1].kind = "fuse" => i + 1 = Len(agenda)
      BY <1>12, <3>1 DEF NotLooked
    <3> QED
      BY <3>1, <3>2
  <2> QED
    BY <2>2, <2>3 DEF AgendaInv, NotLooked
<1>13. AgendaInv'
  BY <1>1, <1>11, <1>12 DEF AgendaInv
<1> QED
  BY <1>2, <1>5, <1>6, <1>9, <1>13 DEF EngineInv

LEMMA EngineStep ==
  ASSUME KernelInv, EngineInv, [OrchestrationNext]_clientVars
  PROVE  KernelInv' /\ EngineInv'
<1>1. CASE ClientPrepares
  <2>1. Next /\ UNCHANGED orchestrationVars /\ (engine = "none" \/ stack # << >>)
    BY <1>1 DEF ClientPrepares, Next
  <2> QED
    BY <2>1, KernelMoves
<1>2. CASE KernelRuns
  <2>1. Next /\ UNCHANGED orchestrationVars /\ Kernel
    BY <1>2 DEF KernelRuns, Next
  <2>2. stack # << >>
    BY <2>1 DEF Kernel, Transitions, DeliverNext, RegisterInserts, RegisterRollsBack,
           LoadNext, UnregisterRemoves, ShutdownNext, ExecuteCallsPlugin, Returns,
           Reraises, ExecuteMisreads, Unwind, ExecuteFails, ExecuteCompletes,
           Returned, At, On
  <2> QED
    BY <2>1, <2>2, KernelMoves
<1>3. CASE EngineSteps
  BY <1>3, FusesInv, ExecutesInv, RoutesInv, EngineReturnsInv, GetsInv DEF EngineSteps
<1>4. CASE UNCHANGED clientVars
  <2>1. UNCHANGED vars /\ UNCHANGED orchestrationVars
    BY <1>4 DEF clientVars
  <2>2. engine = "none" \/ stack # << >> \/ stack = << >>
    OBVIOUS
  <2>3. UNCHANGED <<subscribers, history, registry, stack, control, life, runs, log, calls,
                    engine, agenda, waiting, current, outcomes, snapshot>>
    BY <2>1 DEF vars, kernelVars, orchestrationVars
  <2>4. KernelInv'
    BY <2>1, TypeOKStep, RunsInvStep, NestStep DEF KernelInv
  <2>5. EngineTypes' /\ IdleInv' /\ WaitInv'
    BY <2>3 DEF EngineInv, EngineTypes, IdleInv, WaitInv, AtClient, Logged, Height
  <2>6. PastInv' /\ AgendaInv'
    BY <2>3 DEF EngineInv, PastInv, ResultsAreTheRuns, Logged, AgendaInv, Looked,
                NotLooked, Executed
  <2> QED
    BY <2>4, <2>5, <2>6 DEF EngineInv
<1> QED
  BY <1>1, <1>2, <1>3, <1>4, Starts DEF OrchestrationNext

LEMMA EngineInitially == OrchestrationInit => KernelInv /\ EngineInv
<1> SUFFICES ASSUME OrchestrationInit PROVE KernelInv /\ EngineInv
  OBVIOUS
<1>1. KernelInv
  BY TypeOKInit, NestInitially
     DEF OrchestrationInit, KernelInv, Init, RunsInv, OneOutcome
<1>2. Executed = << >>
  BY NothingExecuted DEF OrchestrationInit
<1>3. EngineTypes
  <2>1. runs \in Nat
    BY <1>1 DEF KernelInv, TypeOK
  <2>2. engine \in Engines /\ waiting \in BOOLEAN
    BY DEF OrchestrationInit, Engines
  <2>3. current \in 0 .. runs
    BY <2>1 DEF OrchestrationInit
  <2>4. agenda \in Seq(Call) /\ outcomes \in Seq(Outcome) /\ snapshot \in Seq(Plugins)
    BY EmptySeq DEF OrchestrationInit
  <2> QED
    BY <2>2, <2>3, <2>4 DEF EngineTypes
<1>4. IdleInv /\ WaitInv
  BY DEF OrchestrationInit, IdleInv, WaitInv
<1>5. PastInv /\ AgendaInv
  BY <1>2 DEF OrchestrationInit, PastInv, ResultsAreTheRuns, AgendaInv, NotLooked
<1> QED
  BY <1>1, <1>3, <1>5, <1>4 DEF EngineInv

(* Whatever plugins and handlers do to the registry while competition or   *)
(* fusion runs, each plugin that was found is tried, once and in order.    *)
THEOREM CandidatesAreTried == OrchestrationSpec => []EveryCandidateIsTried
<1>1. KernelInv /\ EngineInv => EveryCandidateIsTried
  <2> SUFFICES ASSUME KernelInv, EngineInv, engine = "done"
               PROVE  [i \in DOMAIN Executed |-> Executed[i].call.id]
                        = [i \in DOMAIN snapshot |-> Id[snapshot[i]]]
    BY DEF EveryCandidateIsTried
  <2>1. agenda = << >> /\ snapshot \in Seq(Plugins) /\ AgendaInv
    BY DEF EngineInv, IdleInv, EngineTypes
  <2>2. CASE NotLooked
    BY <2>2 DEF NotLooked
  <2>3. CASE Looked
    <3>1. Executed \in Seq(Outcome)
      <4>1. {i \in DOMAIN outcomes : outcomes[i].call.kind = "execute"}
              \in SUBSET (DOMAIN outcomes) /\ outcomes \in Seq(Outcome)
        BY DEF EngineInv, EngineTypes
      <4> QED
        BY <4>1, SelectedProperties DEF Executed
    <3>2. Len(snapshot) = Len(Executed)
      BY <2>1, <2>3, <3>1, LenProperties DEF Looked
    <3>3. DOMAIN snapshot = DOMAIN Executed
      BY <2>1, <3>1, <3>2, LenProperties
    <3> QED
      BY <2>3, <3>3 DEF Looked
  <2> QED
    BY <2>1, <2>2, <2>3 DEF AgendaInv
<1> QED
  BY <1>1, EngineInitially, EngineStep, PTL DEF OrchestrationSpec

(* And what it counts, as a success or not, is the result of a run of its  *)
(* own, that completed and did not fail.                                   *)
THEOREM ResultsAreThoseOfTheRuns == OrchestrationSpec => []ResultsAreTheRuns
<1>1. KernelInv /\ EngineInv => ResultsAreTheRuns
  BY DEF EngineInv, PastInv
<1> QED
  BY <1>1, EngineInitially, EngineStep, PTL DEF OrchestrationSpec
=============================================================================
