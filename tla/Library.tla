------------------------------ MODULE Library -------------------------------
(***************************************************************************)
(* The parts that the kernel builds on and that share no state, side by    *)
(* side: in a behaviour one of them, the driven one, takes steps.          *)
(***************************************************************************)
EXTENDS Naturals, SequencesExt, Allocator, MPMCQueue, CfsScheduler, StaticGuard,
        ThreadGroup, Vector, Strtox

CONSTANTS
  MapKeys, MapValues, DefaultBucketCount, MaxBuckets,
  TreeKeys,
  Levels, Entries, Pages, MaxDirs, VirtualPages, Ptes,
  MaxNodes

VARIABLES
  driven,
  hm, hm_ret,
  rb, rb_count, rb_fix, rb_ret,
  vm_tab, vm_next, vm_freed, vm_dirs, vm_ret,
  ls, ls_ret

HM == INSTANCE HashMap
RB == INSTANCE RbTree
VM == INSTANCE VirtualMemory
LS == INSTANCE List WITH Others <- BoundedSeq(Elements, MaxNodes)

Parts == {"map", "tree", "vm", "heap", "queue", "cfs", "group", "static",
          "vector", "list", "strtox"}

\* The parts that are not driven are in an initial state.
Init ==
  /\ driven \in Parts
  /\ HM!Init /\ RB!Init /\ VM!Init /\ HeapInit /\ QueueInit /\ GroupInit /\ GuardInit
  /\ VectorInit /\ LS!Init /\ StrtoxInit
  /\ CfsInit /\ (driven # "cfs" => cfs_weight = [t \in CfsTasks |-> 0])

map_vars == <<hm, hm_ret>>
tree_vars == <<rb, rb_count, rb_fix, rb_ret>>
vm_vars == <<vm_tab, vm_next, vm_freed, vm_dirs, vm_ret>>
list_vars == <<ls, ls_ret>>
vars == <<driven, map_vars, tree_vars, vm_vars, al_vars, mq_vars, cfs_vars, tg_vars,
          sg_vars, ve_vars, list_vars, sx_vars>>

Step(part) == driven = part /\ UNCHANGED driven
MapStep == Step("map") /\ HM!Next
  /\ UNCHANGED <<tree_vars, vm_vars, al_vars, mq_vars, cfs_vars, tg_vars,
                 sg_vars, ve_vars, list_vars, sx_vars>>
TreeStep == Step("tree") /\ RB!Next
  /\ UNCHANGED <<map_vars, vm_vars, al_vars, mq_vars, cfs_vars, tg_vars,
                 sg_vars, ve_vars, list_vars, sx_vars>>
VmStep == Step("vm") /\ VM!Next
  /\ UNCHANGED <<map_vars, tree_vars, al_vars, mq_vars, cfs_vars, tg_vars,
                 sg_vars, ve_vars, list_vars, sx_vars>>
HeapStep == Step("heap") /\ HeapNext
  /\ UNCHANGED <<map_vars, tree_vars, vm_vars, mq_vars, cfs_vars, tg_vars,
                 sg_vars, ve_vars, list_vars, sx_vars>>
QueueStep == Step("queue") /\ QueueNext
  /\ UNCHANGED <<map_vars, tree_vars, vm_vars, al_vars, cfs_vars, tg_vars,
                 sg_vars, ve_vars, list_vars, sx_vars>>
CfsStep == Step("cfs") /\ CfsNext
  /\ UNCHANGED <<map_vars, tree_vars, vm_vars, al_vars, mq_vars, tg_vars,
                 sg_vars, ve_vars, list_vars, sx_vars>>
GroupStep == Step("group") /\ GroupNext
  /\ UNCHANGED <<map_vars, tree_vars, vm_vars, al_vars, mq_vars, cfs_vars,
                 sg_vars, ve_vars, list_vars, sx_vars>>
StaticStep == Step("static") /\ GuardNext
  /\ UNCHANGED <<map_vars, tree_vars, vm_vars, al_vars, mq_vars, cfs_vars,
                 tg_vars, ve_vars, list_vars, sx_vars>>
VectorStep == Step("vector") /\ VectorNext
  /\ UNCHANGED <<map_vars, tree_vars, vm_vars, al_vars, mq_vars, cfs_vars,
                 tg_vars, sg_vars, list_vars, sx_vars>>
ListStep == Step("list") /\ LS!Next
  /\ UNCHANGED <<map_vars, tree_vars, vm_vars, al_vars, mq_vars, cfs_vars,
                 tg_vars, sg_vars, ve_vars, sx_vars>>
StrtoxStep == Step("strtox") /\ StrtoxNext
  /\ UNCHANGED <<map_vars, tree_vars, vm_vars, al_vars, mq_vars, cfs_vars,
                 tg_vars, sg_vars, ve_vars, list_vars>>

Next ==
  \/ MapStep \/ TreeStep \/ VmStep \/ HeapStep \/ QueueStep \/ CfsStep
  \/ GroupStep \/ StaticStep \/ VectorStep \/ ListStep \/ StrtoxStep

Spec == Init /\ [][Next]_vars

-----------------------------------------------------------------------------
(* The properties of the parts that are instantiated; those of the others are *)
(* in their modules.  A part that is not driven stays in its initial state.   *)

\* unordered_map: what find, insert, operator[], erase and clear show is a map.  A
\* rehash moves every node to the chain in which find looks for it, and each call
\* returns what the map says (AbstractMap!Spec).  Iteration, by which Wait,
\* ReparentChildren and GetThreadGroup walk over task_table_, meets every entry
\* exactly once, and size() counts them.
ImplementsMap ==
  /\ HM!Map!Init
  /\ [][driven = "map" => HM!Map!Next \/ UNCHANGED HM!Map!vars]_vars
  /\ [](driven = "map" => HM!IterationComplete)

\* RbTree: insert_unique, erase and clear do to the tree what they would do to a set
\* and return what the set says; no step of a rebalancing loop changes the set.  At
\* every step iteration is sorted and as long as size() says, and find, lower_bound
\* and upper_bound agree with it.  After every call no red node has a red child and
\* all paths have the same number of black nodes.
ImplementsSet ==
  /\ RB!Set!Init
  /\ [][driven = "tree" => RB!Set!Next \/ UNCHANGED RB!Set!vars]_vars
  /\ [](driven = "tree" => RB!Ordered /\ RB!Balanced)

\* VirtualMemory: MapPage, UnmapPage, a clone and a destroyed directory change the
\* mapping they name and no other, in no other directory; a call that runs out of
\* memory changes none (AbstractVM!Spec).  Every table in use belongs to one entry of
\* one directory and has not been freed, no table is freed twice, also after failed
\* calls, and only a clone that fails loses page tables.
ImplementsAddressSpaces ==
  /\ VM!Abstract!Init
  /\ [][driven = "vm" => VM!Abstract!Next \/ UNCHANGED VM!Abstract!vars]_vars
  /\ [](driven = "vm" => VM!TablesOwned)
  /\ [][driven = "vm" => VM!LostByFailedCloneOnly]_vars

\* list: insert, erase, remove and assignment do to the list what they would do to a
\* sequence and return an iterator to the right place (AbstractSequence!Spec); next
\* and prev of neighbours agree, and size() nodes lie on the ring, no deleted one
\* among them.
ListImplementsSequence ==
  /\ LS!Sequence!Init
  /\ [][driven = "list" => LS!Sequence!Next \/ UNCHANGED LS!Sequence!vars]_vars
  /\ [](driven = "list" => LS!RingIntact)
=============================================================================
