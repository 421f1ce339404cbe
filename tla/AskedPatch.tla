----------------------------- MODULE AskedPatch ------------------------------
(***************************************************************************)
(* A model is asked for a patch: the agents and the baseline, which read   *)
(* the text of a response and may ask once more (PatchText), on top of the *)
(* provider that sends the requests (ModelProvider).                       *)
(***************************************************************************)
EXTENDS PatchText

CONSTANTS Providers, MaxTexts, Counters

ASSUME ProviderAssumption ==
  /\ Providers \subseteq {"chat", "responses"} /\ MaxTexts \in Nat
  /\ Counters \subseteq {"count", "negative", "whole_float", "fraction", "flag", "word"}

VARIABLES provider, link, requests, reply, fault, response, error

Model == INSTANCE ModelProvider WITH pc <- link, MaxRequests <- 2

askedVars == <<textVars, Model!providerVars>>

AskedInit == Init /\ Model!Init

(* The caller waits for the model.                                         *)
Waits == Model!Works /\ UNCHANGED textVars

Asks == pc \in {"first", "retry"} /\ Model!Execute /\ UNCHANGED textVars

GetsException == link = "raised" /\ ModelRaises /\ Model!Hands

(* The text of a response is that of its parts; what a caller can read in  *)
(* it is up to the model.                                                  *)
Gets(text) ==
  /\ link = "returned"
  /\ First(text) \/ AgentRetry(text) \/ BaselineRetry(text)
  /\ Model!Hands

AskedNext ==
  \/ Waits \/ Asks \/ GetsException
  \/ \E text \in Texts : Gets(text)

AskedSpec == AskedInit /\ [][AskedNext]_askedVars

RepliesAreReturned == Model!RepliesAreReturned

(***************************************************************************)
(* A caller gives up on a model that answered only when nothing it was     *)
(* sent can be made a patch of, by the readings that this caller allows;   *)
(* and it asks again only after an answer that it could not read.          *)
(***************************************************************************)
AnswersAreUsed ==
  LET Readable(text) == \/ IsPatch(Normalize(text, allowed, caller = "baseline"))
                        \/ caller = "agent" /\ IsPatch(RawPatch(text, allowed))
  IN  /\ pc = "raised" /\ Len(texts) = requests =>
           \A i \in DOMAIN texts : ~ Readable(texts[i])
      /\ requests = 2 =>
           /\ texts # << >>
           /\ ~ IsPatch(Normalize(texts[1], allowed, caller = "baseline"))
=============================================================================
