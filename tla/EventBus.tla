------------------------------ MODULE EventBus ------------------------------
(***************************************************************************)
(* The in-process event bus: ordered subscribers per event type and the    *)
(* history of published events.                                            *)
(*                                                                         *)
(* The bus has no thread of its own.  publish records the event and then   *)
(* calls the handlers one after the other, and a handler may call the bus  *)
(* again before the next one is called; the runtime module therefore keeps *)
(* the deliveries in progress on its call stack and uses the operators     *)
(* below for the state the bus owns.                                       *)
(***************************************************************************)
EXTENDS Naturals, Sequences, SequencesExt

CONSTANT Handlers               \* the callables user code may subscribe

EventTypes == {"started", "completed", "failed", "registered", "unregistered"}

VARIABLES
  subscribers,                  \* [EventTypes -> Seq(Handlers)]
  history                       \* the events a call of history() returns

busVars == <<subscribers, history>>

(* A bus may be handed to the runtime with handlers already subscribed.    *)
BusInit(initialSubscribers) ==
  /\ subscribers \in initialSubscribers
  /\ history = << >>

(* The same handler may be subscribed to a type more than once.            *)
Subscribe(type, handler) ==
  /\ subscribers' = [subscribers EXCEPT ![type] = Append(@, handler)]
  /\ UNCHANGED history

(* Only the first subscription is removed; a missing one is ignored.       *)
Unsubscribe(type, handler) ==
  /\ subscribers' = [subscribers EXCEPT ![type] = RemoveFirst(@, handler)]
  /\ UNCHANGED history

(* The first half of publish: the event is recorded before any delivery.   *)
Record(event) ==
  /\ history' = Append(history, event)
  /\ UNCHANGED subscribers

(* The copy of the subscriber list that publish iterates over.             *)
Receivers(event) == subscribers[event.type]

(* clear() forgets the history and keeps the subscribers.                  *)
ClearHistory ==
  /\ history' = << >>
  /\ UNCHANGED subscribers
=============================================================================
