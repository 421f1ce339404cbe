---------------------------- MODULE ModelProvider ----------------------------
(***************************************************************************)
(* The two plugins that ask a model over HTTP: one of the Responses API    *)
(* and one of chat completions.  They are configured by the environment,   *)
(* send one request per execution, and make a model response of the reply  *)
(* or raise.  A request is not repeated, and nothing of it is kept.        *)
(***************************************************************************)
EXTENDS Naturals, Sequences, SequencesExt

CONSTANTS
  Providers,                    \* a subset of {"chat", "responses"}
  MaxTexts,                     \* bound: texts in a reply's output
  Counters,                     \* kinds of values of a reply's usage: a
                                \* count, or something that is none
  MaxRequests                   \* bound: executions of the plugin

(* The text at the place where the API puts it, the items of the output of *)
(* the Responses API, and the values of its usage.                         *)
Replies ==
  [text : {"text", "empty", "none"},
   output : BoundedSeq({"text", "other"}, MaxTexts),
   usage : SUBSET Counters]

NoReply == [text |-> "none", output |-> << >>, usage |-> {}]

Settings ==
  [key : {"set", "empty"}, model : {"set", "empty", "unset"},
   url : {"set", "empty", "unset"},
   timeout : {"unset", "positive", "zero", "word"},
   name : {"set", "empty"}]

VARIABLES
  provider,
  pc,
  requests,                     \* executions begun
  reply,                        \* the reply to the request
  fault,                        \* what went wrong with it
  response,                     \* the texts and the usage that are returned
  error                         \* the exception that is raised

requestVars == <<reply, fault, response, error>>
providerVars == <<provider, pc, requests, requestVars>>

NoResponse == [texts |-> << >>, usage |-> {}]

Init ==
  /\ provider \in Providers
  /\ pc = "created"
  /\ requests = 0
  /\ reply = NoReply /\ fault = "none"
  /\ response = NoResponse
  /\ error = "none"

(* The Responses provider has defaults for all but its key; an empty value *)
(* is refused by both, by from_env or by the configuration's own fields.   *)
(* Only the chat provider can be given a name.                             *)
Configured(settings) ==
  /\ settings.key = "set"
  /\ settings.model = "set" \/ (provider = "responses" /\ settings.model = "unset")
  /\ settings.url = "set" \/ (provider = "responses" /\ settings.url = "unset")
  /\ settings.timeout \in {"unset", "positive"}
  /\ settings.name = "set" \/ provider = "responses"

Configures(settings) ==
  /\ pc = "created"
  /\ pc' = IF Configured(settings) THEN "ready" ELSE "refused"
  /\ UNCHANGED <<provider, requests, requestVars>>

Raises(kind, what) == pc' = "raised" /\ error' = kind /\ fault' = what

Execute ==
  /\ pc = "ready" /\ requests < MaxRequests
  /\ requests' = requests + 1
  /\ pc' = "sent"
  /\ UNCHANGED <<provider, requestVars>>

(* An answer with an error status, no connection, or a body that is not a  *)
(* JSON object.                                                            *)
Fails(what) ==
  /\ pc = "sent"
  /\ Raises("RuntimeError", what)
  /\ UNCHANGED <<provider, requests, reply, response>>

(* The connection breaks, or times out, while the answer is read: the      *)
(* OSError or HTTPException of this is not translated.                     *)
FailsReading ==
  /\ pc = "sent"
  /\ Raises("untranslated", "reading")
  /\ UNCHANGED <<provider, requests, reply, response>>

TextsOf(output) == SelectSeq(output, LAMBDA t : t = "text")

(* Mutant: the output is not looked at.                                    *)
FirstTextOnly(r) == IF r.text = "text" THEN <<r.text>> ELSE << >>

(* _extract_text                                                           *)
ExtractText(r) ==
  IF r.text = "text" THEN <<r.text>>
  ELSE IF provider = "responses" THEN TextsOf(r.output)
  ELSE << >>

(* _extract_usage                                                          *)
ExtractUsage(r) ==
  IF provider = "chat" THEN r.usage \cap {"count"}
                       ELSE r.usage \cap {"count", "negative", "whole_float"}

(* ModelResponse refuses negative numbers.                                 *)
Validates(usage) == "negative" \notin usage

Answers(r) ==
  /\ pc = "sent"
  /\ reply' = r
  /\ LET texts == ExtractText(r)
     IN  \/ /\ texts = << >>
            /\ Raises("RuntimeError", "no_text")
            /\ UNCHANGED response
         \/ /\ texts # << >> /\ ~ Validates(ExtractUsage(r))
            /\ Raises("ValueError", "usage")
            /\ UNCHANGED response
         \/ /\ texts # << >> /\ Validates(ExtractUsage(r))
            /\ pc' = "returned"
            /\ response' = [texts |-> texts, usage |-> ExtractUsage(r)]
            /\ UNCHANGED <<fault, error>>
  /\ UNCHANGED <<provider, requests>>

(* The caller has the response, or the exception.                          *)
Hands ==
  /\ pc \in {"returned", "raised"}
  /\ pc' = "ready"
  /\ reply' = NoReply /\ fault' = "none" /\ response' = NoResponse /\ error' = "none"
  /\ UNCHANGED <<provider, requests>>

(* What the plugin and its network do without the caller.                  *)
Works ==
  \/ FailsReading
  \/ \E settings \in Settings : Configures(settings)
  \/ \E what \in {"status", "connection", "body"} : Fails(what)
  \/ \E r \in Replies : Answers(r)

Next == Works \/ Execute \/ Hands

Spec == Init /\ [][Next]_providerVars

-----------------------------------------------------------------------------
ProviderTypeOK ==
  /\ provider \in Providers
  /\ pc \in {"created", "ready", "refused", "sent", "returned", "raised"}
  /\ requests \in 0 .. MaxRequests
  /\ reply \in Replies
  /\ response.texts \in Seq({"text"}) /\ response.usage \subseteq Counters
  /\ pc = "raised" <=> error # "none"

(***************************************************************************)
(* A reply that has a text is returned, with all of its texts; only the    *)
(* Responses plugin may lose it, to a negative number in its usage.        *)
(***************************************************************************)
RepliesAreReturned ==
  reply # NoReply =>
    /\ reply.text = "text" \/ (provider = "responses" /\ TextsOf(reply.output) # << >>) =>
         \/ pc = "returned"
         \/ provider = "responses" /\ "negative" \in reply.usage
    /\ pc = "returned" /\ reply.text # "text" => response.texts = TextsOf(reply.output)
=============================================================================
