---------------------------- MODULE MCStructures ----------------------------
\* The data structures that only calls change, one at a time: the allocators, the
\* linked list, the tables that keep coroutines alive, and the logger's map.
EXTENDS MemPool, MemBuddy, MemSlot, DList, LuaRegistry, Logger

VARIABLE which

Init ==
  /\ memp_new /\ buddy_new /\ slot_new /\ ListInit /\ lbind_init_state /\ LogInit
  /\ which \in {"pool", "buddy", "slot", "list", "logger", "registry"}
  /\ which # "registry" => tables /\ chunk = "code"

\* only the named structure changes
Only(name, changes) == which = name /\ changes /\ UNCHANGED which

Next ==
  \/ Only("pool", PoolNext)
     /\ UNCHANGED <<buddyVars, slotVars, listVars, registryVars, logVars>>
  \/ Only("buddy", BuddyNext)
     /\ UNCHANGED <<poolVars, slotVars, listVars, registryVars, logVars>>
  \/ Only("slot", SlotNext)
     /\ UNCHANGED <<poolVars, buddyVars, listVars, registryVars, logVars>>
  \/ Only("list", ListNext)
     /\ UNCHANGED <<poolVars, buddyVars, slotVars, registryVars, logVars>>
  \/ Only("registry", RegistryNext)
     /\ UNCHANGED <<poolVars, buddyVars, slotVars, listVars, logVars>>
  \/ Only("logger", LogNext)
     /\ UNCHANGED <<poolVars, buddyVars, slotVars, listVars, registryVars>>

Spec ==
  Init /\ [][Next]_<<which, poolVars, buddyVars, slotVars, listVars, registryVars, logVars>>

\* given unsorted, as memp_new accepts them
McFSize == <<4, 2, 6>>
=============================================================================
