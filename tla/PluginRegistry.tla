--------------------------- MODULE PluginRegistry ---------------------------
(***************************************************************************)
(* The registry of loaded plugins: a dictionary from plugin id to plugin   *)
(* instance that keeps insertion order.  It is a sequence of instances     *)
(* here, whose ids are pairwise different.                                 *)
(***************************************************************************)
EXTENDS Naturals, Sequences, SequencesExt

CONSTANTS
  Plugins,                      \* plugin instances
  PluginIds,                    \* values of metadata.id
  Id,                           \* the id in the metadata of each instance
  Capabilities,                 \* capability ids
  Supports                      \* the capabilities of each instance

ASSUME IdAssumption == Id \in [Plugins -> PluginIds]
ASSUME SupportsAssumption == Supports \in [Plugins -> SUBSET Capabilities]

VARIABLE registry               \* Seq(Plugins)

Registered == {registry[i] : i \in DOMAIN registry}

HasId(id) == \E i \in DOMAIN registry : Id[registry[i]] = id

PositionOf(id) == CHOOSE i \in DOMAIN registry : Id[registry[i]] = id

Lookup(id) == registry[PositionOf(id)]

RegisteredIds == [i \in DOMAIN registry |-> Id[registry[i]]]

(* Registering an id that is taken raises PluginAlreadyRegisteredError.    *)
Register(plugin) ==
  /\ ~ HasId(Id[plugin])
  /\ registry' = Append(registry, plugin)

(* Removing an id that is not there is not an error.                       *)
Unregister(id) ==
  registry' = IF HasId(id) THEN RemoveAt(registry, PositionOf(id))
              ELSE registry

(* Mutant: every plugin is returned.                                       *)
FindAll(capability) == DOMAIN registry

(* find_by_capability: the places of the plugins that support it, whatever *)
(* the version asked for.                                                  *)
FindByCapability(capability) ==
  {i \in DOMAIN registry : capability \in Supports[registry[i]]}
=============================================================================
