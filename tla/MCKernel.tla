------------------------------ MODULE MCKernel ------------------------------
(***************************************************************************)
(* Two plugins that share an id, of which one lacks the capability, and    *)
(* one with another id; one handler, subscribed to the events at stake.    *)
(***************************************************************************)
EXTENDS KernelProperties

CONSTANTS a1, a2, b, h, A, B, cap, MaxBusy

MCPlugins == {a1, a2, b}
MCIds == {A, B}
MCId == [p \in MCPlugins |-> IF p = b THEN B ELSE A]
MCSupports == [p \in MCPlugins |-> IF p = a2 THEN {} ELSE {cap}]

Nobody == [caller \in Callers |-> {}]
Subscribed(types) ==
  [type \in EventTypes |-> IF type \in types THEN <<h>> ELSE << >>]

(* What user code does when plugins come and go, and when executions nest, *)
(* race with removal, and change the subscribers.                          *)
MCPermitted ==
  [Nobody EXCEPT
     !["client"] = {"register", "load", "unregister", "shutdown", "execute",
                    "route"},
     !["handle"] = {"register", "unregister", "shutdown", "execute",
                    "unsubscribe", "clear"},
     !["execute"] = {"execute", "subscribe", "unregister"},
     !["shutdown"] = {"register", "unregister"}]

MCLoads == {<<a1, b>>, <<b, a2, a1>>}

-----------------------------------------------------------------------------
(* All of it at once is too much: a behaviour is about one or the other.   *)
VARIABLE focus

MCInit ==
  /\ focus \in {"lifecycle", "execution"}
  /\ Init
  /\ subscribers = IF focus = "lifecycle"
                     THEN Subscribed({"registered", "unregistered"})
                     ELSE Subscribed({"started", "completed", "failed"})

(* No executions; or at most MaxBusy calls, where the client and the       *)
(* subscribers of STARTED register, one plugin at a time, and only user    *)
(* code below the client removes.                                          *)
Focused ==
  /\ UNCHANGED focus
  /\ focus = "lifecycle" => runs' = 0 /\ (calls' > calls => UNCHANGED busVars)
  /\ focus = "execution" =>
       /\ calls' <= MaxBusy
       /\ \A i \in DOMAIN stack' :
            /\ stack'[i].fn \notin {"load", "shutdown"}
            /\ stack'[i].fn = "register" =>
                 i = 1 \/ stack'[i - 1].kind = "handle"
            /\ stack'[i].fn = "unregister" => i > 1

MCSpec == /\ MCInit /\ [][Next /\ Focused]_<<vars, focus>>
          /\ Fairness

MCSubscribers == {Subscribed({"registered", "unregistered"}),
                  Subscribed({"started", "completed", "failed"})}
=============================================================================
