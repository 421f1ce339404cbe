------------------------------ MODULE PatchText ------------------------------
(***************************************************************************)
(* How the text of a model becomes a patch: CodingPatchNormalizer, and the *)
(* callers that send a text back once when it cannot be read.              *)
(*                                                                         *)
(* A text is what the normalizer finds in it: the JSON value it is, or the *)
(* JSON values of its fences and braces in their order, or else whether it *)
(* has something that parses as Python.                                    *)
(***************************************************************************)
EXTENDS Naturals, Sequences, SequencesExt, FiniteSets

CONSTANTS
  Allowed,                      \* sets of files that a task allows to edit
  Unknown, Placeholder,         \* another name, which may be empty; a placeholder
  Mappings                      \* what the files of a JSON object may be

AllowedNames == UNION Allowed
Filenames == AllowedNames \cup {Unknown, Placeholder}

(* "module" parses as Python, "prose" does not.                            *)
Contents == {"module", "prose", "blank"}

(* A JSON value with a mapping of files, one without, and what is no JSON. *)
Mapping(files) == [kind |-> "mapping", files |-> files]
Other == [kind |-> "other", files |-> << >>]
NotJSON == [kind |-> "none", files |-> << >>]
Values == {Mapping(files) : files \in Mappings} \cup {Other}

ASSUME AllowedAssumption ==
  /\ {} \notin Allowed
  /\ AllowedNames \cap {Unknown, Placeholder} = {}
ASSUME MappingAssumption ==
  Mappings \subseteq UNION {[names -> Contents] : names \in SUBSET Filenames}

(* A text is a JSON value, of which one without a mapping may be a list    *)
(* that has another in it, or has fences around some, or has one in braces *)
(* between other words, or none.                                           *)
Texts ==
  [whole : Values, parts : {<< >>}, python : {"whole"}]
  \cup [whole : {Other}, parts : {<<v>> : v \in Values}, python : {"whole"}]
  \cup [whole : {NotJSON}, parts : BoundedSeq(Values, 2) \ {<< >>},
        python : {"fenced"}]
  \cup [whole : {NotJSON}, parts : {<<v>> : v \in Values}, python : {"none"}]
  \cup [whole : {NotJSON}, parts : {<< >>}, python : {"none", "word", "module"}]

-----------------------------------------------------------------------------
Patch(files) == [read |-> TRUE, files |-> files]
Error == [read |-> FALSE, files |-> << >>]
IsPatch(patch) == patch.read

(* The only file may have a placeholder for the only name that is allowed. *)
Renamed(files, allowed) ==
  IF /\ Cardinality(allowed) = 1 /\ DOMAIN files = {Placeholder}
     /\ files[Placeholder] = "module"
    THEN [f \in allowed |-> "module"]
    ELSE files

(* _validate_files                                                         *)
ValidateFiles(files, allowed) ==
  LET named == Renamed(files, allowed)
  IN  IF /\ DOMAIN files # {}
         /\ \A f \in DOMAIN named : f \in allowed /\ named[f] # "blank"
        THEN Patch(named) ELSE Error

(* The first value that has a mapping of files decides.                    *)
FirstObject(text) ==
  LET values == <<text.whole>> \o text.parts
      found  == SelectSeq(values, LAMBDA v : v.kind = "mapping")
  IN  IF found = << >> THEN Other ELSE Head(found)

HasMapping(text) == FirstObject(text) # Other

FromJSON(text, allowed) ==
  IF HasMapping(text) THEN ValidateFiles(FirstObject(text).files, allowed)
                      ELSE Error

(* The first candidate that parses as Python.  A JSON object or list does, *)
(* and what is between the fences around one does as well.                 *)
LooksLikePython(text) ==
  LET raw(value) == IF value.kind = "mapping" THEN "json" ELSE "word"
  IN  CASE text.python = "whole"  -> raw(text.whole)
        [] text.python = "fenced" -> raw(Head(text.parts))
        [] OTHER -> text.python

(* raw_python_single_file_patch                                            *)
RawPatch(text, allowed) ==
  IF Cardinality(allowed) # 1 \/ LooksLikePython(text) = "none"
    THEN Error
    ELSE Patch([f \in allowed |-> LooksLikePython(text)])

(* normalize: the text of a mapping that is not valid is not tried raw.    *)
Normalize(text, allowed, raw) ==
  LET patch == FromJSON(text, allowed)
  IN  IF IsPatch(patch) \/ HasMapping(text) \/ ~ raw
        THEN patch ELSE RawPatch(text, allowed)

-----------------------------------------------------------------------------
VARIABLES
  caller,                       \* an agent, or the baseline
  allowed,
  pc,
  texts,                        \* what the model answered
  result,                       \* the patch that is returned
  succeeded, fallback           \* fields of the patch: format_retry_succeeded
                                \* and raw_python_single_file_fallback_used

textVars == <<caller, allowed, pc, texts, result, succeeded, fallback>>

Init ==
  /\ caller \in {"agent", "baseline"}
  /\ allowed \in Allowed
  /\ pc = "first"
  /\ texts = << >>
  /\ result = Error
  /\ succeeded = FALSE /\ fallback = FALSE

Returns(patch) == pc' = "returned" /\ result' = patch

(* The model raises.                                                       *)
ModelRaises ==
  /\ pc \in {"first", "retry"}
  /\ pc' = "raised"
  /\ UNCHANGED <<caller, allowed, texts, result, succeeded, fallback>>

First(text) ==
  /\ pc = "first"
  /\ texts' = <<text>>
  /\ LET patch == Normalize(text, allowed, caller = "baseline")
     IN  IF IsPatch(patch) THEN Returns(patch)
                           ELSE pc' = "retry" /\ UNCHANGED result
  /\ UNCHANGED <<caller, allowed, succeeded, fallback>>

(* Mutant: the first text is wrapped before the second is.                 *)
RetryFirstRaw(text) ==
  /\ pc = "retry" /\ caller = "agent"
  /\ texts' = Append(texts, text)
  /\ LET patch  == Normalize(text, allowed, FALSE)
         wraps  == SelectSeq(<<RawPatch(Head(texts), allowed), patch,
                               RawPatch(text, allowed)>>, IsPatch)
     IN  IF wraps # << >>
           THEN /\ Returns(Head(wraps)) /\ fallback' = (Head(wraps) # patch)
                /\ succeeded' = (Head(wraps) = patch)
           ELSE pc' = "raised" /\ UNCHANGED <<result, succeeded, fallback>>
  /\ UNCHANGED <<caller, allowed>>

(* Mutant: what the first text has as Python is forgotten.                 *)
RetryForgetsFirst(text) ==
  /\ pc = "retry" /\ caller = "agent"
  /\ texts' = Append(texts, text)
  /\ LET patch == Normalize(text, allowed, FALSE)
         raw   == RawPatch(text, allowed)
     IN  IF IsPatch(patch) \/ IsPatch(raw)
           THEN /\ Returns(IF IsPatch(patch) THEN patch ELSE raw)
                /\ succeeded' = IsPatch(patch) /\ fallback' = ~ IsPatch(patch)
           ELSE pc' = "raised" /\ UNCHANGED <<result, succeeded, fallback>>
  /\ UNCHANGED <<caller, allowed>>

(* _normalize_with_retry of the agents: what both texts have as Python is  *)
(* only looked at when neither could be read, the later text first.        *)
AgentRetry(text) ==
  /\ pc = "retry" /\ caller = "agent"
  /\ texts' = Append(texts, text)
  /\ LET patch == Normalize(text, allowed, FALSE)
         later == RawPatch(text, allowed)
         first == RawPatch(Head(texts), allowed)
     IN  \/ /\ IsPatch(patch)
            /\ Returns(patch) /\ succeeded' = TRUE
            /\ UNCHANGED fallback
         \/ /\ ~ IsPatch(patch) /\ (IsPatch(later) \/ IsPatch(first))
            /\ Returns(IF IsPatch(later) THEN later ELSE first) /\ fallback' = TRUE
            /\ UNCHANGED succeeded
         \/ /\ ~ IsPatch(patch) /\ ~ IsPatch(later) /\ ~ IsPatch(first)
            /\ pc' = "raised"
            /\ UNCHANGED <<result, succeeded, fallback>>
  /\ UNCHANGED <<caller, allowed>>

(* _run_baseline                                                           *)
BaselineRetry(text) ==
  /\ pc = "retry" /\ caller = "baseline"
  /\ texts' = Append(texts, text)
  /\ LET patch == Normalize(text, allowed, TRUE)
     IN  IF IsPatch(patch) THEN Returns(patch)
                           ELSE pc' = "raised" /\ UNCHANGED result
  /\ UNCHANGED <<caller, allowed, succeeded, fallback>>

Next ==
  \/ ModelRaises
  \/ \E text \in Texts : First(text) \/ AgentRetry(text) \/ BaselineRetry(text)

Spec == Init /\ [][Next]_textVars

-----------------------------------------------------------------------------
Ended == pc \in {"returned", "raised"}

TextTypeOK ==
  /\ allowed \in Allowed
  /\ pc \in {"first", "retry", "returned", "raised"}
  /\ Len(texts) <= 2 /\ \A i \in DOMAIN texts : texts[i] \in Texts
  /\ pc = "returned" <=> IsPatch(result)

(***************************************************************************)
(* Whatever a model answers, a patch edits files that the task allows, at  *)
(* least one, and leaves none of them blank.                               *)
(***************************************************************************)
PatchIsAllowed ==
  IsPatch(result) =>
    /\ DOMAIN result.files # {} /\ DOMAIN result.files \subseteq allowed
    /\ \A f \in DOMAIN result.files : result.files[f] # "blank"

(***************************************************************************)
(* A patch that a model wrote down is preferred to a text that is wrapped: *)
(* the fallback is used only if no text could be read, and its fields tell *)
(* which of the two happened.                                              *)
(***************************************************************************)
WrittenPatchIsPreferred ==
  pc = "returned" /\ caller = "agent" =>
    LET readable == {i \in DOMAIN texts : IsPatch(FromJSON(texts[i], allowed))}
    IN  /\ readable # {} => result = FromJSON(Last(texts), allowed)
        /\ fallback <=> readable = {}
        /\ succeeded <=> readable = {2}
=============================================================================
