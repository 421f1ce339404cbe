----------------------------- MODULE PatchProofs -----------------------------
(***************************************************************************)
(* Asking a model for a patch, for any sets of allowed files, mappings and *)
(* replies: what was sent is used if it can be, and what is made of it     *)
(* edits allowed files only.                                               *)
(*                                                                         *)
(* The properties speak of the end of an exchange.  They are kept because  *)
(* each place of the caller fixes how many texts and requests there were,  *)
(* and because a second request follows only a first text that could not   *)
(* be read.                                                                *)
(***************************************************************************)
EXTENDS AskedPatch, TLAPS

Unread(text) == ~ IsPatch(Normalize(text, allowed, caller = "baseline"))

TextInv ==
  /\ caller \in {"agent", "baseline"} /\ allowed \in Allowed
  /\ texts \in Seq(Texts)
  /\ pc \in {"first", "retry", "returned", "raised"}
  /\ pc \in {"first", "retry"} => ~ fallback /\ ~ succeeded

(* What has happened where the caller and its provider are.                *)
PlaceInv ==
  /\ pc = "first" =>
       /\ Len(texts) = 0
       /\ \/ requests = 0 /\ link \in {"created", "ready", "refused"}
          \/ requests = 1 /\ link \in {"sent", "returned", "raised"}
  /\ pc = "retry" =>
       /\ Len(texts) = 1 /\ Unread(texts[1])
       /\ \/ requests = 1 /\ link = "ready"
          \/ requests = 2 /\ link \in {"sent", "returned", "raised"}
  /\ pc = "raised" =>
       /\ link = "ready" /\ Len(texts) \in {requests - 1, requests}
       /\ requests \in {1, 2}
  /\ pc = "returned" =>
       /\ link = "ready" /\ Len(texts) = requests
       /\ requests \in {1, 2}

IInv ==
  /\ TextInv /\ PlaceInv
  /\ AnswersAreUsed /\ WrittenPatchIsPreferred /\ PatchIsAllowed

-----------------------------------------------------------------------------
(* What is read as a patch edits allowed files, at least one, and leaves   *)
(* none blank.                                                             *)
IsAllowed(patch, names) ==
  IsPatch(patch) =>
    /\ DOMAIN patch.files # {} /\ DOMAIN patch.files \subseteq names
    /\ \A f \in DOMAIN patch.files : patch.files[f] # "blank"

LEMMA PatchFields ==
  ASSUME NEW files
  PROVE  /\ IsPatch(Patch(files)) /\ Patch(files).files = files
         /\ ~ IsPatch(Error)
  BY DEF IsPatch, Patch, Error

LEMMA ValidatedIsAllowed ==
  ASSUME NEW files, NEW names \in Allowed
  PROVE  IsAllowed(ValidateFiles(files, names), names)
<1> DEFINE named == Renamed(files, names)
<1> SUFFICES ASSUME IsPatch(ValidateFiles(files, names))
             PROVE  IsAllowed(ValidateFiles(files, names), names)
  BY DEF IsAllowed
<1>1. /\ DOMAIN files # {}
      /\ \A f \in DOMAIN named : f \in names /\ named[f] # "blank"
      /\ ValidateFiles(files, names) = Patch(named)
  BY PatchFields DEF ValidateFiles
<1>2. DOMAIN named # {}
  BY <1>1, AllowedAssumption DEF Renamed
<1> HIDE DEF named
<1> QED
  BY <1>1, <1>2, PatchFields DEF IsAllowed

LEMMA RawIsAllowed ==
  ASSUME NEW text \in Texts, NEW names \in Allowed
  PROVE  IsAllowed(RawPatch(text, names), names)
<1>1. text.python \in {"whole", "fenced", "none", "word", "module"}
  BY DEF Texts
<1>2. LooksLikePython(text) # "blank"
  BY <1>1 DEF LooksLikePython
<1>3. names # {}
  BY AllowedAssumption
<1> DEFINE file == [f \in names |-> LooksLikePython(text)]
<1>4. DOMAIN file = names /\ \A f \in names : file[f] # "blank"
  BY <1>2
<1>5. RawPatch(text, names) \in {Error, Patch(file)}
  BY DEF RawPatch
<1> HIDE DEF file
<1> QED
  BY <1>3, <1>4, <1>5, PatchFields DEF IsAllowed

LEMMA NormalizedIsAllowed ==
  ASSUME NEW text \in Texts, NEW names \in Allowed, NEW raw \in BOOLEAN
  PROVE  IsAllowed(Normalize(text, names, raw), names)
<1>1. IsAllowed(FromJSON(text, names), names)
  BY ValidatedIsAllowed, PatchFields DEF FromJSON, IsAllowed
<1> QED
  BY <1>1, RawIsAllowed DEF Normalize

(* An agent does not have a text made a patch as it is.                    *)
LEMMA NotRaw ==
  ASSUME NEW text, NEW names
  PROVE  Normalize(text, names, FALSE) = FromJSON(text, names)
  BY DEF Normalize

-----------------------------------------------------------------------------
(* What the provider does to the exchange.                                 *)
LEMMA ProviderWorks ==
  ASSUME Model!Works
  PROVE  /\ requests' = requests
         /\ \/ link = "created" /\ link' \in {"ready", "refused"}
            \/ link = "sent" /\ link' \in {"raised", "returned"}
<1>1. CASE Model!FailsReading
  BY <1>1 DEF Model!FailsReading, Model!Raises
<1>2. ASSUME NEW settings \in Model!Settings, Model!Configures(settings)
      PROVE  requests' = requests /\ link = "created" /\ link' \in {"ready", "refused"}
  BY <1>2 DEF Model!Configures
<1>3. ASSUME NEW what, Model!Fails(what)
      PROVE  requests' = requests /\ link = "sent" /\ link' \in {"raised", "returned"}
  BY <1>3 DEF Model!Fails, Model!Raises
<1>4. ASSUME NEW r \in Model!Replies, Model!Answers(r)
      PROVE  requests' = requests /\ link = "sent" /\ link' \in {"raised", "returned"}
  BY <1>4 DEF Model!Answers, Model!Raises
<1> QED
  BY <1>1, <1>2, <1>3, <1>4 DEF Model!Works

LEMMA Handed ==
  ASSUME Model!Hands PROVE link' = "ready" /\ requests' = requests
  BY DEF Model!Hands

(* A text more.                                                            *)
LEMMA OneMore ==
  ASSUME texts \in Seq(Texts), NEW text \in Texts
  PROVE  /\ Append(texts, text) \in Seq(Texts)
         /\ Len(Append(texts, text)) = Len(texts) + 1
         /\ Append(texts, text)[Len(texts) + 1] = text
         /\ \A i \in DOMAIN texts : Append(texts, text)[i] = texts[i]
         /\ DOMAIN Append(texts, text) = 1 .. Len(texts) + 1
  OBVIOUS

-----------------------------------------------------------------------------
LEMMA AskedInitInv == AskedInit => IInv
<1> SUFFICES ASSUME AskedInit PROVE IInv
  OBVIOUS
<1>1. Init /\ link = "created" /\ requests = 0
  BY DEF AskedInit, Model!Init
<1>2. TextInv /\ PlaceInv
  BY <1>1 DEF Init, TextInv, PlaceInv
<1>3. AnswersAreUsed /\ WrittenPatchIsPreferred
  BY <1>1 DEF Init, AnswersAreUsed, WrittenPatchIsPreferred
<1>4. PatchIsAllowed
  BY <1>1, PatchFields DEF Init, PatchIsAllowed
<1> QED
  BY <1>2, <1>3, <1>4 DEF IInv

-----------------------------------------------------------------------------
(* The properties speak of what the caller has, and of requests.           *)
LEMMA NothingNew ==
  ASSUME IInv, UNCHANGED textVars, PlaceInv', AnswersAreUsed'
  PROVE  IInv'
<1>1. TextInv' /\ WrittenPatchIsPreferred' /\ PatchIsAllowed'
  BY DEF IInv, textVars, TextInv, WrittenPatchIsPreferred, PatchIsAllowed
<1> QED
  BY <1>1 DEF IInv

LEMMA WaitsInv == ASSUME IInv, Waits PROVE IInv'
<1>1. UNCHANGED textVars /\ requests' = requests
      /\ \/ link = "created" /\ link' \in {"ready", "refused"}
         \/ link = "sent" /\ link' \in {"raised", "returned"}
  BY ProviderWorks DEF Waits
<1>2. PlaceInv'
  BY <1>1 DEF IInv, textVars, PlaceInv, Unread
<1>3. AnswersAreUsed'
  BY <1>1 DEF IInv, textVars, AnswersAreUsed
<1> QED
  BY <1>1, <1>2, <1>3, NothingNew

LEMMA AsksInv == ASSUME IInv, Asks PROVE IInv'
<1>1. /\ pc \in {"first", "retry"} /\ UNCHANGED textVars
      /\ link = "ready" /\ link' = "sent" /\ requests' = requests + 1
  BY DEF Asks, Model!Execute
<1>2. TextInv /\ PlaceInv
  BY DEF IInv
<1>3. CASE pc = "first"
  <2>1. requests = 0 /\ requests' = 1
    BY <1>1, <1>2, <1>3 DEF PlaceInv
  <2>2. PlaceInv'
    BY <1>1, <1>2, <1>3, <2>1 DEF textVars, PlaceInv
  <2>3. AnswersAreUsed'
    BY <1>1, <1>3, <2>1 DEF textVars, AnswersAreUsed
  <2> QED
    BY <1>1, <2>2, <2>3, NothingNew
<1>4. CASE pc = "retry"
  <2>1. requests' = 2 /\ Len(texts) = 1 /\ Unread(texts[1])
    BY <1>1, <1>2, <1>4 DEF PlaceInv
  <2>2. PlaceInv'
    BY <1>1, <1>4, <2>1 DEF textVars, PlaceInv, Unread
  <2>3. AnswersAreUsed'
    BY <1>1, <1>2, <1>4, <2>1 DEF textVars, AnswersAreUsed, Unread
  <2> QED
    BY <1>1, <2>2, <2>3, NothingNew
<1> QED
  BY <1>1, <1>3, <1>4

LEMMA GetsExceptionInv == ASSUME IInv, GetsException PROVE IInv'
<1>1. /\ link = "raised" /\ link' = "ready" /\ requests' = requests
      /\ pc \in {"first", "retry"} /\ pc' = "raised"
      /\ UNCHANGED <<caller, allowed, texts, result, succeeded, fallback>>
  BY Handed DEF GetsException, ModelRaises
<1>2. TextInv /\ PlaceInv
  BY DEF IInv
<1>3. requests \in {1, 2} /\ Len(texts) = requests - 1
      /\ (requests = 2 => Unread(texts[1]))
  <2>1. CASE pc = "first"
    BY <1>1, <1>2, <2>1 DEF PlaceInv
  <2>2. CASE pc = "retry"
    BY <1>1, <1>2, <2>2 DEF PlaceInv
  <2> QED
    BY <1>1, <2>1, <2>2
<1>4. TextInv' /\ PlaceInv'
  BY <1>1, <1>2, <1>3 DEF TextInv, PlaceInv
<1>5. AnswersAreUsed'
  BY <1>1, <1>2, <1>3 DEF TextInv, AnswersAreUsed, Unread
<1>6. WrittenPatchIsPreferred' /\ PatchIsAllowed'
  BY <1>1 DEF IInv, WrittenPatchIsPreferred, PatchIsAllowed
<1> QED
  BY <1>4, <1>5, <1>6 DEF IInv

(* What is known when a text arrives: the texts and requests so far.       *)
LEMMA FirstInv ==
  ASSUME IInv, NEW text \in Texts, link = "returned", First(text), Model!Hands
  PROVE  IInv'
<1>1. /\ pc = "first" /\ texts' = <<text>> /\ link' = "ready"
      /\ requests' = requests /\ requests = 1
      /\ UNCHANGED <<caller, allowed, succeeded, fallback>>
  BY Handed DEF IInv, PlaceInv, First
<1>2. TextInv /\ ~ fallback /\ ~ succeeded
  BY <1>1 DEF IInv, TextInv
<1> DEFINE patch == Normalize(text, allowed, caller = "baseline")
<1>3. \/ IsPatch(patch) /\ pc' = "returned" /\ result' = patch
      \/ ~ IsPatch(patch) /\ pc' = "retry" /\ result' = result
  BY DEF First, Returns
<1>4. IsAllowed(patch, allowed)
  BY <1>2, NormalizedIsAllowed DEF TextInv
<1>5. caller = "agent" => patch = FromJSON(text, allowed)
  BY NotRaw
<1>6. texts' \in Seq(Texts) /\ Len(texts') = 1 /\ texts'[1] = text /\ DOMAIN texts' = {1}
  BY <1>1
<1>7. (~ IsPatch(patch) => Unread(texts[1])')
  BY <1>1, <1>6 DEF Unread
<1> HIDE DEF patch
<1>8. TextInv' /\ PlaceInv'
  BY <1>1, <1>2, <1>3, <1>6, <1>7 DEF TextInv, PlaceInv
<1>9. AnswersAreUsed'
  BY <1>1, <1>3 DEF AnswersAreUsed
<1>10. PatchIsAllowed'
  BY <1>1, <1>3, <1>4 DEF IInv, PatchIsAllowed, IsAllowed
<1>11. WrittenPatchIsPreferred'
  <2> SUFFICES ASSUME pc' = "returned", caller = "agent"
               PROVE  WrittenPatchIsPreferred'
    BY <1>1 DEF WrittenPatchIsPreferred
  <2>1. IsPatch(patch) /\ result' = patch /\ patch = FromJSON(text, allowed)
    BY <1>3, <1>5
  <2>2. {i \in DOMAIN texts' : IsPatch(FromJSON(texts'[i], allowed'))} = {1}
    BY <1>1, <1>6, <2>1
  <2>3. Last(texts') = text
    BY <1>6 DEF Last
  <2> QED
    BY <1>1, <1>2, <2>1, <2>2, <2>3 DEF WrittenPatchIsPreferred
<1> QED
  BY <1>8, <1>9, <1>10, <1>11 DEF IInv

(* Both ways of reading a second text.                                     *)
LEMMA SecondPlace ==
  ASSUME IInv, NEW text \in Texts, link = "returned", Model!Hands,
         pc = "retry", texts' = Append(texts, text),
         UNCHANGED <<caller, allowed>>, pc' \in {"returned", "raised"}
  PROVE  /\ TextInv' /\ PlaceInv' /\ requests' = 2
         /\ texts'[1] = texts[1] /\ texts'[2] = text /\ Unread(texts[1])
         /\ DOMAIN texts' = {1, 2} /\ Last(texts') = text
         /\ Head(texts) = texts[1] /\ ~ fallback /\ ~ succeeded
<1>1. TextInv /\ PlaceInv
  BY DEF IInv
<1>2. link' = "ready" /\ requests' = 2 /\ Len(texts) = 1 /\ Unread(texts[1])
  BY <1>1, Handed DEF PlaceInv
<1>3. /\ texts' \in Seq(Texts) /\ Len(texts') = 2 /\ DOMAIN texts' = {1, 2}
      /\ texts'[1] = texts[1] /\ texts'[2] = text
  BY <1>1, <1>2, OneMore DEF TextInv
<1>4. Last(texts') = text
  BY <1>3 DEF Last
<1>5. TextInv' /\ PlaceInv'
  BY <1>1, <1>2, <1>3 DEF TextInv, PlaceInv
<1>6. Head(texts) = texts[1] /\ ~ fallback /\ ~ succeeded
  BY <1>1, <1>2 DEF TextInv
<1> QED
  BY <1>2, <1>3, <1>4, <1>5, <1>6

LEMMA AgentRetryInv ==
  ASSUME IInv, NEW text \in Texts, link = "returned", AgentRetry(text), Model!Hands
  PROVE  IInv'
<1> DEFINE patch == Normalize(text, allowed, FALSE)
           later == RawPatch(text, allowed)
           first == RawPatch(Head(texts), allowed)
<1>1. /\ pc = "retry" /\ caller = "agent" /\ texts' = Append(texts, text)
      /\ UNCHANGED <<caller, allowed>> /\ pc' \in {"returned", "raised"}
  BY DEF AgentRetry, Returns
<1>2. TextInv /\ Len(texts) = 1
  BY <1>1 DEF IInv, PlaceInv
<1>3. /\ TextInv' /\ PlaceInv' /\ requests' = 2
      /\ texts'[1] = texts[1] /\ texts'[2] = text /\ Unread(texts[1])
      /\ DOMAIN texts' = {1, 2} /\ Last(texts') = text
      /\ Head(texts) = texts[1] /\ ~ fallback /\ ~ succeeded
  BY <1>1, SecondPlace
<1>4. texts[1] \in Texts /\ allowed \in Allowed
  BY <1>2 DEF TextInv
<1>5. IsAllowed(patch, allowed) /\ IsAllowed(later, allowed) /\ IsAllowed(first, allowed)
  BY <1>3, <1>4, NormalizedIsAllowed, RawIsAllowed
<1>6. /\ patch = FromJSON(text, allowed)
      /\ Normalize(text, allowed, caller = "baseline") = patch
      /\ Normalize(texts[1], allowed, caller = "baseline") = FromJSON(texts[1], allowed)
      /\ ~ IsPatch(FromJSON(texts[1], allowed))
  BY <1>1, <1>3, NotRaw DEF Unread
<1>7. \/ /\ IsPatch(patch) /\ pc' = "returned" /\ result' = patch
         /\ succeeded' = TRUE /\ fallback' = fallback
      \/ /\ ~ IsPatch(patch) /\ IsPatch(result')
         /\ result' \in {later, first} /\ pc' = "returned"
         /\ fallback' = TRUE /\ succeeded' = succeeded
      \/ /\ ~ IsPatch(patch) /\ ~ IsPatch(later) /\ ~ IsPatch(first)
         /\ pc' = "raised" /\ UNCHANGED <<result, succeeded, fallback>>
  BY DEF AgentRetry, Returns
<1> HIDE DEF patch
<1>8. AnswersAreUsed'
  <2>1. ASSUME pc' = "raised", NEW i \in DOMAIN texts'
        PROVE  /\ ~ IsPatch(Normalize(texts'[i], allowed, caller = "baseline"))
               /\ ~ IsPatch(RawPatch(texts'[i], allowed))
    <3>1. ~ IsPatch(patch) /\ ~ IsPatch(later) /\ ~ IsPatch(first)
      BY <1>7, <2>1
    <3>2. CASE i = 1
      BY <1>3, <1>6, <3>1, <3>2
    <3>3. CASE i = 2
      BY <1>3, <1>6, <3>1, <3>3
    <3> QED
      BY <1>3, <3>2, <3>3
  <2>2. texts' # << >>
    BY <1>1, <1>2, OneMore DEF TextInv
  <2>3. Unread(texts'[1])
    BY <1>3
  <2> QED
    BY <1>1, <2>1, <2>2, <2>3 DEF AnswersAreUsed, Unread
<1>9. PatchIsAllowed'
  BY <1>1, <1>5, <1>7 DEF IInv, PatchIsAllowed, IsAllowed
<1>10. WrittenPatchIsPreferred'
  <2> SUFFICES ASSUME pc' = "returned" PROVE WrittenPatchIsPreferred'
    BY DEF WrittenPatchIsPreferred
  <2> DEFINE readable == {i \in DOMAIN texts' : IsPatch(FromJSON(texts'[i], allowed'))}
  <2>1. CASE IsPatch(patch)
    <3>1. readable = {2}
      BY <1>1, <1>3, <1>6, <2>1
    <3> HIDE DEF readable
    <3> QED
      BY <1>1, <1>3, <1>6, <1>7, <2>1, <3>1 DEF WrittenPatchIsPreferred, readable
  <2>2. CASE ~ IsPatch(patch)
    <3>1. readable = {}
      BY <1>1, <1>3, <1>6, <2>2
    <3> HIDE DEF readable
    <3> QED
      BY <1>1, <1>3, <1>7, <2>2, <3>1 DEF WrittenPatchIsPreferred, readable
  <2> QED
    BY <2>1, <2>2
<1> QED
  BY <1>3, <1>8, <1>9, <1>10 DEF IInv

LEMMA BaselineRetryInv ==
  ASSUME IInv, NEW text \in Texts, link = "returned", BaselineRetry(text), Model!Hands
  PROVE  IInv'
<1> DEFINE patch == Normalize(text, allowed, TRUE)
<1>1. /\ pc = "retry" /\ caller = "baseline" /\ texts' = Append(texts, text)
      /\ UNCHANGED <<caller, allowed>> /\ pc' \in {"returned", "raised"}
  BY DEF BaselineRetry, Returns
<1>2. allowed \in Allowed
  BY DEF IInv, TextInv
<1>3. /\ TextInv' /\ PlaceInv' /\ requests' = 2
      /\ texts'[1] = texts[1] /\ texts'[2] = text /\ Unread(texts[1])
      /\ DOMAIN texts' = {1, 2}
  BY <1>1, SecondPlace
<1>4. \/ IsPatch(patch) /\ pc' = "returned" /\ result' = patch
      \/ ~ IsPatch(patch) /\ pc' = "raised" /\ result' = result
  BY DEF BaselineRetry, Returns
<1>5. IsAllowed(patch, allowed) /\ patch = Normalize(text, allowed, caller = "baseline")
  BY <1>1, <1>2, NormalizedIsAllowed
<1> HIDE DEF patch
<1>6. AnswersAreUsed'
  <2>1. ASSUME pc' = "raised", NEW i \in DOMAIN texts' PROVE Unread(texts'[i])
    BY <1>3, <1>4, <1>5, <2>1 DEF Unread
  <2>2. texts' # << >>
    BY <1>3
  <2> QED
    BY <1>1, <1>3, <2>1, <2>2 DEF AnswersAreUsed, Unread
<1>7. PatchIsAllowed'
  BY <1>1, <1>4, <1>5 DEF IInv, PatchIsAllowed, IsAllowed
<1>8. WrittenPatchIsPreferred'
  BY <1>1 DEF WrittenPatchIsPreferred
<1> QED
  BY <1>3, <1>6, <1>7, <1>8 DEF IInv

LEMMA NextInv == IInv /\ [AskedNext]_askedVars => IInv'
<1> SUFFICES ASSUME IInv, [AskedNext]_askedVars PROVE IInv'
  OBVIOUS
<1>1. CASE Waits
  BY <1>1, WaitsInv
<1>2. CASE Asks
  BY <1>2, AsksInv
<1>3. CASE GetsException
  BY <1>3, GetsExceptionInv
<1>4. ASSUME NEW text \in Texts, Gets(text) PROVE IInv'
  BY <1>4, FirstInv, AgentRetryInv, BaselineRetryInv DEF Gets
<1>5. CASE UNCHANGED askedVars
  <2>1. UNCHANGED <<textVars, link, requests>>
    BY <1>5 DEF askedVars, Model!providerVars
  <2>2. PlaceInv'
    BY <2>1 DEF IInv, textVars, PlaceInv, Unread
  <2>3. AnswersAreUsed'
    BY <2>1 DEF IInv, textVars, AnswersAreUsed
  <2> QED
    BY <2>1, <2>2, <2>3, NothingNew
<1> QED
  BY <1>1, <1>2, <1>3, <1>4, <1>5 DEF AskedNext

LEMMA Invariance == AskedSpec => []IInv
<1> QED
  BY AskedInitInv, NextInv, PTL DEF AskedSpec

-----------------------------------------------------------------------------
(* A reply is there from its arrival until the caller has the response or  *)
(* the exception; what becomes of it is decided in the first step.         *)
ReplyInv ==
  /\ RepliesAreReturned /\ provider \in Providers
  /\ reply # Model!NoReply => link \in {"returned", "raised"}

LEMMA ReplyInitInv == AskedInit => ReplyInv
  BY DEF AskedInit, Model!Init, ReplyInv, RepliesAreReturned, Model!RepliesAreReturned

LEMMA AnswersInv ==
  ASSUME ReplyInv, NEW r \in Model!Replies, Model!Answers(r)
  PROVE  ReplyInv'
<1> DEFINE parts == Model!ExtractText(r)
<1>1. reply' = r /\ provider' = provider
  BY DEF Model!Answers
<1>2. \/ parts = << >> /\ link' = "raised"
      \/ ~ Model!Validates(Model!ExtractUsage(r)) /\ link' = "raised"
      \/ link' = "returned" /\ response'.texts = parts
  BY DEF Model!Answers, Model!Raises
<1>3. /\ r.text = "text" => parts # << >>
      /\ r.text # "text" =>
           parts = IF provider = "responses" THEN Model!TextsOf(r.output) ELSE << >>
  BY DEF Model!ExtractText
<1>4. ~ Model!Validates(Model!ExtractUsage(r)) =>
        provider = "responses" /\ "negative" \in r.usage
  BY ProviderAssumption DEF ReplyInv, Model!Validates, Model!ExtractUsage
<1>5. link' = "returned" /\ r.text # "text" => response'.texts = Model!TextsOf(r.output)
  BY <1>2, <1>3 DEF Model!Answers, Model!Raises
<1> HIDE DEF parts
<1> QED
  BY <1>1, <1>2, <1>3, <1>4, <1>5
  DEF ReplyInv, RepliesAreReturned, Model!RepliesAreReturned

LEMMA ReplyNextInv == ReplyInv /\ [AskedNext]_askedVars => ReplyInv'
<1> SUFFICES ASSUME ReplyInv, [AskedNext]_askedVars PROVE ReplyInv'
  OBVIOUS
<1> DEFINE Same == UNCHANGED <<provider, reply, response>>
<1>1. ASSUME Same, reply = Model!NoReply PROVE ReplyInv'
  BY <1>1 DEF ReplyInv, RepliesAreReturned, Model!RepliesAreReturned
<1>2. CASE Waits
  <2>1. CASE Model!FailsReading
    BY <1>1, <2>1 DEF Model!FailsReading, ReplyInv
  <2>2. ASSUME NEW settings \in Model!Settings, Model!Configures(settings) PROVE ReplyInv'
    BY <1>1, <2>2 DEF Model!Configures, Model!requestVars, ReplyInv
  <2>3. ASSUME NEW what, Model!Fails(what) PROVE ReplyInv'
    BY <1>1, <2>3 DEF Model!Fails, ReplyInv
  <2> QED
    BY <1>2, <2>1, <2>2, <2>3, AnswersInv DEF Waits, Model!Works
<1>3. CASE Asks
  BY <1>1, <1>3 DEF Asks, Model!Execute, Model!requestVars, ReplyInv
<1>4. ASSUME Model!Hands PROVE ReplyInv'
  BY <1>4 DEF Model!Hands, ReplyInv, RepliesAreReturned, Model!RepliesAreReturned
<1>5. CASE UNCHANGED askedVars
  BY <1>5 DEF askedVars, Model!providerVars, Model!requestVars,
              ReplyInv, RepliesAreReturned, Model!RepliesAreReturned
<1> QED
  BY <1>2, <1>3, <1>4, <1>5 DEF AskedNext, GetsException, Gets

-----------------------------------------------------------------------------
(* An answer that can be made a patch of is not given up, and a model is   *)
(* asked again only for one that could not be read.                        *)
THEOREM NoAnswerIsLost == AskedSpec => []AnswersAreUsed
<1>1. IInv => AnswersAreUsed
  BY DEF IInv
<1> QED
  BY <1>1, Invariance, PTL

(* The patch of an agent is one the model wrote down, if it did, and its   *)
(* fields tell which text it is from.                                      *)
THEOREM WrittenPatchWins == AskedSpec => []WrittenPatchIsPreferred
<1>1. IInv => WrittenPatchIsPreferred
  BY DEF IInv
<1> QED
  BY <1>1, Invariance, PTL

(* A patch edits files that the task allows, and leaves none blank.        *)
THEOREM PatchesAreAllowed == AskedSpec => []PatchIsAllowed
<1>1. IInv => PatchIsAllowed
  BY DEF IInv
<1> QED
  BY <1>1, Invariance, PTL

(* A reply with a text is returned with all of its texts; only the plugin  *)
(* of the Responses API may lose it, to a negative number in its usage.    *)
THEOREM NoReplyIsLost == AskedSpec => []RepliesAreReturned
<1>1. ReplyInv => RepliesAreReturned
  BY DEF ReplyInv
<1> QED
  BY <1>1, ReplyInitInv, ReplyNextInv, PTL DEF AskedSpec
=============================================================================
