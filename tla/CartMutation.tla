---------------------------- MODULE CartMutation -----------------------------
(***************************************************************************)
(* The analyzer that tells whether the function total of a candidate       *)
(* mutates the items it is given: a candidate it accuses is rejected       *)
(* before its tests are run.                                               *)
(*                                                                         *)
(* A program is written statement by statement.  Each is executed, on a    *)
(* cart of one item, and analyzed as it is written: `values' holds what    *)
(* the variables refer to, `scopes' what the analyzer thinks they do.      *)
(***************************************************************************)
EXTENDS Integers, Sequences, SequencesExt

CONSTANTS
  Names,                        \* the variables of the program
  items,                        \* the one that holds the argument
  Copies,                       \* the expressions a program may use
  MaxStatements, MaxDepth       \* bounds on a program

ASSUME ItemsAssumption == items \in Names
ASSUME CopyAssumption ==
  Copies \subseteq {"plain", "dict", "copy", "list", "deepcopy",
                    "each", "each_dict", "each_copy", "each_deepcopy"}
ASSUME BoundAssumption == MaxStatements \in Nat /\ MaxDepth \in Nat \ {0}

VARIABLES
  values,                       \* what the variables refer to
  mutated,                      \* the argument was changed
  scopes,                       \* the environments of the open blocks
  detected,                     \* the analyzer's verdict so far
  stale,                        \* per environment, the names it may be wrong about
  misled,                       \* such a name gave an alarm
  overlooked,                   \* a change was made where the analyzer cannot look
  statements                    \* how many are written

verdicts == <<mutated, detected, misled, overlooked>>
cartVars == <<values, scopes, stale, verdicts, statements>>

-----------------------------------------------------------------------------
(***************************************************************************)
(* What the program does.  A value is a level of the cart, 0 for the list  *)
(* and 1 for an item, and the level from which on it shares the argument's *)
(* objects; 2 and more share nothing that can be changed.                  *)
(***************************************************************************)
Unbound == [level |-> 2, shared |-> 2]
Values == [level : 0 .. 1, shared : 0 .. 2] \cup {Unbound}

IsBound(n) == values[n] # Unbound

(* A path is a variable, or the item at an index of one.                   *)
Paths == [name : Names, indexed : BOOLEAN]

HasValue(path) ==
  IsBound(path.name) /\ (path.indexed => values[path.name].level = 0)

ValueAt(path) ==
  IF path.indexed THEN [values[path.name] EXCEPT !.level = 1]
                  ELSE values[path.name]

Highest(a, b) == IF a < b THEN b ELSE a

(* A shallow copy is a new object, its contents are those of the original. *)
Copied(copy, value) ==
  CASE copy = "plain" -> value
    [] copy \in {"dict", "copy", "list", "each"} ->
         [value EXCEPT !.shared = Highest(@, value.level + 1)]
    [] OTHER -> [value EXCEPT !.shared = 2]

(* dict(x) and x.copy() of an item, list(x) and comprehensions of a list.  *)
MakesSense(copy, value) ==
  CASE copy \in {"dict", "copy"} -> value.level = 1
    [] copy \in {"plain", "deepcopy"} -> TRUE
    [] OTHER -> value.level = 0

IsOriginal(value) == value.level >= value.shared

-----------------------------------------------------------------------------
(* What the analyzer thinks.                                               *)

Provenances == {"original_collection", "original_element",
                "copied_collection", "copied_element", "local_value",
                "unknown"}
Original == {"original_collection", "original_element"}

(* Mutant: an item of the collection is not taken for an original.         *)
ElementOrLocal(provenance) ==
  IF provenance = "copied_collection" THEN "copied_element" ELSE "local_value"

(* The provenance of an item of a collection.                              *)
Element(provenance) ==
  CASE provenance \in Original -> "original_element"
    [] provenance = "copied_collection" -> "copied_element"
    [] OTHER -> "local_value"

PathProvenance(path, env) ==
  IF path.indexed THEN Element(env[path.name]) ELSE env[path.name]

LoopVariable(provenance) ==
  CASE provenance = "copied_collection" -> "copied_element"
    [] provenance = "original_collection" -> "original_element"
    [] OTHER -> "unknown"

(* Mutant: what an element of a comprehension is made of does not matter.  *)
ProvenanceOfAnyComp(copy, source) ==
  CASE copy = "plain" -> source
    [] copy \in {"each", "each_dict", "each_copy", "each_deepcopy"} ->
         IF source = "original_collection" THEN source ELSE "unknown"
    [] OTHER -> "local_value"

Provenance(copy, source) ==
  CASE copy = "plain" -> source
    [] copy \in {"dict", "copy"} ->
         IF source = "original_element" THEN "copied_element" ELSE "local_value"
    [] copy = "list" -> "local_value"
    [] copy = "deepcopy" ->
         CASE source = "original_collection" -> "copied_collection"
           [] source = "original_element" -> "copied_element"
           [] OTHER -> "local_value"
    [] copy = "each" ->
         IF source = "original_collection" THEN source ELSE "unknown"
    [] OTHER ->
         IF source = "original_collection" THEN "copied_collection" ELSE "unknown"

Env == Last(scopes)

ThinksOf(copy, path) == Provenance(copy, PathProvenance(path, Env))

(* The analyzer may be wrong about what is made of path if it may be wrong *)
(* about path, unless each item is copied; and it is wrong about copies    *)
(* that share the items of the argument.                                   *)
Doubtful(copy, path, shallow) ==
  \/ copy \in {"plain", "list", "each"} /\ path.name \in Last(stale)
  \/ copy \in shallow /\ PathProvenance(path, Env) = "original_collection"

-----------------------------------------------------------------------------
CartInit ==
  /\ values = [n \in Names |->
                 IF n = items THEN [level |-> 0, shared |-> 0] ELSE Unbound]
  /\ scopes = <<[n \in Names |->
                   IF n = items THEN "original_collection" ELSE "unknown"]>>
  /\ stale = <<{}>>
  /\ mutated = FALSE /\ detected = FALSE
  /\ misled = FALSE /\ overlooked = FALSE
  /\ statements = 0

Writes == statements < MaxStatements /\ statements' = statements + 1

(* The innermost block takes n for this, the enclosing ones do not look.   *)
Binds(n, provenance, doubtful) ==
  /\ scopes' = [scopes EXCEPT ![Len(scopes)] = [@ EXCEPT ![n] = provenance]]
  /\ stale' = [i \in DOMAIN stale |->
                 IF i = Len(stale) /\ ~ doubtful THEN stale[i] \ {n}
                                                ELSE stale[i] \cup {n}]

(* n = <copy of path>                                                      *)
Assign(n, copy, path) ==
  /\ Writes
  /\ HasValue(path) /\ MakesSense(copy, ValueAt(path))
  /\ values' = [values EXCEPT ![n] = Copied(copy, ValueAt(path))]
  /\ Binds(n, ThinksOf(copy, path), Doubtful(copy, path, {"list", "each"}))
  /\ UNCHANGED verdicts

(* n: list, without a value, which does nothing.                           *)
Annotates(n) ==
  /\ Writes
  /\ Binds(n, "local_value", TRUE)
  /\ UNCHANGED <<values, verdicts>>

(* What path refers to is changed in a way that is looked for in the       *)
(* environments at these places.                                           *)
Changes(path, places) ==
  LET seen == {i \in places : PathProvenance(path, scopes[i]) \in Original}
      original == IsOriginal(ValueAt(path))
  IN  /\ mutated' = (mutated \/ original)
      /\ detected' = (detected \/ seen # {})
      /\ misled' = (misled \/ \E i \in seen : path.name \in stale[i])
      /\ overlooked' = \/ overlooked
                       \/ original /\ (places = {} \/ path.name \in Last(stale))

(* path["key"] = ..., path["key"] += ... or del path["key"], of an item.   *)
Stores(path) ==
  /\ Writes
  /\ HasValue(path) /\ ValueAt(path).level = 1
  /\ Changes(path, {Len(scopes)})
  /\ UNCHANGED <<values, scopes, stale>>

(* path.sort(), path.update(...) and the others of MUTATING_METHODS: each  *)
(* open block looked for them in all of its statements, with what it knew  *)
(* when the inner one was entered.                                         *)
CallsListed(path) ==
  /\ Writes
  /\ HasValue(path)
  /\ Changes(path, DOMAIN scopes)
  /\ UNCHANGED <<values, scopes, stale>>

(* path.setdefault(...), path.popitem(), path.__setitem__(...)             *)
CallsUnlisted(path) ==
  /\ Writes
  /\ HasValue(path)
  /\ Changes(path, {})
  /\ UNCHANGED <<values, scopes, stale>>

(* What the analyzer takes n for after n += ... or n |= ...: a literal, or *)
(* another variable or item of the kind of n.                              *)
Augmented(n) ==
  {"local_value"} \cup
  {PathProvenance(path, Env) :
     path \in {path \in Paths : /\ HasValue(path)
                               /\ ValueAt(path).level = values[n].level}}

(* The object is changed in place, with what stands on the right behind    *)
(* its first item.                                                         *)
Augments(n, provenance) ==
  /\ Writes
  /\ IsBound(n)
  /\ Changes([name |-> n, indexed |-> FALSE], {})
  /\ Binds(n, provenance, TRUE)
  /\ UNCHANGED values

Enters(env) ==
  /\ Writes
  /\ Len(scopes) < MaxDepth
  /\ scopes' = Append(scopes, env)
  /\ UNCHANGED verdicts

(* for n in <copy of path>:                                                *)
EntersFor(n, copy, path) ==
  /\ HasValue(path) /\ ValueAt(path).level = 0 /\ MakesSense(copy, ValueAt(path))
  /\ Enters([Env EXCEPT ![n] = LoopVariable(ThinksOf(copy, path))])
  /\ stale' = Append([i \in DOMAIN stale |-> stale[i] \cup {n}],
                     IF Doubtful(copy, path, {"list"}) THEN Last(stale) \cup {n}
                                                       ELSE Last(stale) \ {n})
  /\ values' = [values EXCEPT ![n] =
                  [Copied(copy, ValueAt(path)) EXCEPT !.level = 1]]

(* if ...:, with ...:, try:                                                *)
EntersBlock ==
  /\ Enters(Env)
  /\ stale' = Append(stale, Last(stale))
  /\ UNCHANGED values

(* while ...:, match ...:, blocks the analyzer has no case for.            *)
EntersUnseen ==
  /\ Enters([n \in Names |-> "unknown"])
  /\ stale' = Append(stale, Names)
  /\ UNCHANGED values

(* What a block bound stays bound behind it, and there the analyzer goes   *)
(* on with what it knew before.                                            *)
Leaves ==
  /\ Len(scopes) > 1
  /\ scopes' = Front(scopes) /\ stale' = Front(stale)
  /\ UNCHANGED <<values, verdicts, statements>>

CartNext ==
  \/ \E n \in Names, copy \in Copies, path \in Paths :
       Assign(n, copy, path) \/ EntersFor(n, copy, path)
  \/ \E path \in Paths :
       Stores(path) \/ CallsListed(path) \/ CallsUnlisted(path)
  \/ \E n \in Names : \/ Annotates(n)
                      \/ \E provenance \in Augmented(n) : Augments(n, provenance)
  \/ EntersBlock \/ EntersUnseen \/ Leaves

CartSpec == CartInit /\ [][CartNext]_cartVars

-----------------------------------------------------------------------------
CartTypeOK ==
  /\ values \in [Names -> Values]
  /\ scopes \in Seq([Names -> Provenances]) /\ scopes # << >>
  /\ stale \in Seq(SUBSET Names) /\ Len(stale) = Len(scopes)
  /\ mutated \in BOOLEAN /\ detected \in BOOLEAN
  /\ misled \in BOOLEAN /\ overlooked \in BOOLEAN
  /\ statements \in 0 .. MaxStatements

(***************************************************************************)
(* A program that leaves its argument alone is rejected for mutating it,   *)
(* as check_cart_total_contract rejects "partial cart repairs", only if a  *)
(* name was bound again in an inner block, annotated or augmented, or was  *)
(* given a list that shares the items, and the alarm went off at it.       *)
(***************************************************************************)
FalseAlarmHasCause == detected => mutated \/ misled

(***************************************************************************)
(* A program that mutates its argument is noticed before its tests run,    *)
(* unless it did so by a method that is not looked for, by an augmented    *)
(* assignment to a name, in a while block, or at such a name.              *)
(***************************************************************************)
MissHasCause == mutated => detected \/ overlooked
=============================================================================
