----------------------------- MODULE FrozenHeaps -----------------------------
(***************************************************************************)
(* Lifetimes of frozen heaps: `FrozenHeap`, `FrozenHeapRef` (heap_type.rs) *)
(* and the values that keep a reference, `FrozenModule`,                   *)
(* `OwnedFrozenValue` and `OwnedFrozenRef`.  A FrozenValue is a naked      *)
(* pointer: it is valid as long as the heap it points into is.  Heaps are  *)
(* kept alive by reference counts only, from the handles the application   *)
(* holds and from the set `refs` of each heap (docs/heaps.md).             *)
(*                                                                         *)
(* A heap stands for a Module (or GlobalsBuilder) with all that is         *)
(* allocated for it, in its unfrozen and its frozen heap.  The model       *)
(* tells values apart by the heap they live in: `points[h]` is the set of  *)
(* other heaps that values of h point into.  Handles are shared between    *)
(* threads, so drops interleave with everything else.  Values taken out    *)
(* with `unsafe` functions (unchecked_frozen_value) are outside the model. *)
(*                                                                         *)
(* The names HeapsInit, HeapsNext, ... let one module speak of this        *)
(* specification and of ModuleFreeze, which fills the heaps.               *)
(***************************************************************************)
EXTENDS Naturals, FiniteSets

CONSTANT Heap    \* identities of heaps

VARIABLES
    state,   \* "unused", "open" (FrozenHeap), "sealed" (FrozenHeapRef), "freed"
    refs,    \* the heaps in FrozenHeap.refs, FrozenFrozenHeap.refs
    points,  \* the heaps that values in a heap point into
    held     \* handles of the application

heapVars == <<state, refs, points, held>>

\* A handle: the FrozenHeapRef it owns and the heap its value lives in, which
\* need not be the same (a module re-exports what it loaded).
Handle == [owner : Heap, target : Heap]

HeapsTypeOK ==
    /\ state \in [Heap -> {"unused", "open", "sealed", "freed"}]
    /\ refs \in [Heap -> SUBSET Heap]
    /\ points \in [Heap -> SUBSET Heap]
    /\ held \subseteq Handle

HeapsInit ==
    /\ state = [h \in Heap |-> "unused"]
    /\ refs = [h \in Heap |-> {}]
    /\ points = [h \in Heap |-> {}]
    /\ held = {}

-----------------------------------------------------------------------------
\* Module::new, FrozenHeap::new.
New(h) ==
    /\ state[h] = "unused"
    /\ state' = [state EXCEPT ![h] = "open"]
    /\ UNCHANGED <<refs, points, held>>

\* FrozenHeap::add_reference: refs is a set, a duplicate is not added.
RefsUnchanged(h, o) == refs[h]
RefsAfter(h, o)     == refs[h] \cup {o.owner}

\* OwnedFrozenValue::owned_value and owned_frozen_value, load_symbol,
\* OwnedRefFrozenRef::add_heap_ref: reference the owner, then use the value.
Load(h, o) ==
    /\ state[h] = "open" /\ o \in held
    /\ refs' = [refs EXCEPT ![h] = RefsAfter(h, o)]
    /\ points' = [points EXCEPT ![h] = @ \cup {o.target}]
    /\ UNCHANGED <<state, held>>

\* Module::import_public_symbols and FrozenModule::from_globals: reference the
\* module's heap, then use every value its slots hold.
Import(h, o) ==
    /\ state[h] = "open" /\ o \in held
    /\ o.owner = o.target
    /\ refs' = [refs EXCEPT ![h] = RefsAfter(h, o)]
    /\ points' = [points EXCEPT ![h] = @ \cup {o.owner} \cup points[o.owner]]
    /\ UNCHANGED <<state, held>>

\* Evaluation takes a value out of a frozen container and keeps it: no
\* reference is added.
Extract(h, g, k) ==
    /\ state[h] = "open"
    /\ g \in points[h] /\ k \in points[g]
    /\ points' = [points EXCEPT ![h] = @ \cup {k}]
    /\ UNCHANGED <<state, refs, held>>

\* FrozenHeap::into_ref at the end of Module::freeze: the references move along.
\* (An arena that is empty and has no references becomes the empty
\* FrozenHeapRef, which owns nothing.)
RefsToSelf(h) == refs[h] \cup {h}
RefsSealed(h) == refs[h]

IntoRef(h) ==
    /\ state[h] = "open"
    /\ state' = [state EXCEPT ![h] = "sealed"]
    /\ refs' = [refs EXCEPT ![h] = RefsSealed(h)]
    /\ held' = held \cup {[owner |-> h, target |-> h]}
    /\ UNCHANGED points

\* Module::freeze fails, or the module is dropped: FrozenHeap's own Drop.
Discard(h) ==
    /\ state[h] = "open"
    /\ state' = [state EXCEPT ![h] = "freed"]
    /\ refs' = [refs EXCEPT ![h] = {}]
    /\ points' = [points EXCEPT ![h] = {}]
    /\ UNCHANGED held

\* FrozenModule::get, OwnedFrozenValue::map and OwnedFrozenRef::map: another
\* value, reached from the handle's, under the same owner.
Map(o, k) ==
    /\ o \in held
    /\ k \in points[o.target]
    /\ held' = held \cup {[owner |-> o.owner, target |-> k]}
    /\ UNCHANGED <<state, refs, points>>

\* The last clone of a handle is dropped.
Drop(o) ==
    /\ o \in held
    /\ held' = held \ {o}
    /\ UNCHANGED <<state, refs, points>>

\* The Arc's count is zero: no handle and no heap holds it.
UnownedByHandles(h) == \A o \in held : o.owner # h
Unowned(h) == (\A o \in held : o.owner # h) /\ (\A g \in Heap : h \notin refs[g])

\* FrozenFrozenHeap is dropped, and the references it holds with it.
Free(h) ==
    /\ state[h] = "sealed"
    /\ Unowned(h)
    /\ state' = [state EXCEPT ![h] = "freed"]
    /\ refs' = [refs EXCEPT ![h] = {}]
    /\ points' = [points EXCEPT ![h] = {}]
    /\ UNCHANGED held

HeapsNext ==
    \/ \E h \in Heap : New(h) \/ IntoRef(h) \/ Discard(h) \/ Free(h)
    \/ \E h \in Heap, o \in held : Load(h, o) \/ Import(h, o)
    \/ \E h, g, k \in Heap : Extract(h, g, k)
    \/ \E o \in held, k \in Heap : Map(o, k)
    \/ \E o \in held : Drop(o)

HeapsSpec == HeapsInit /\ [][HeapsNext]_heapVars

\* Dropping the last Arc frees the heap, there is nothing to wait for.
HeapsFairSpec == HeapsSpec /\ \A h \in Heap : WF_heapVars(Free(h))

-----------------------------------------------------------------------------
(***************************************************************************)
(* Properties.                                                             *)
(***************************************************************************)

Live(h) == state[h] \in {"open", "sealed"}

\* Every FrozenValue the program can get at is valid: what values of a live heap
\* point into has not been freed, however the modules in between were dropped.
NoDanglingFrozenValue ==
    \A h \in Heap : Live(h) => \A g \in points[h] : state[g] = "sealed"

\* OwnedFrozenValue: "this FrozenValue must be kept alive by the `owner` field".
OwnerKeepsValueAlive ==
    \A o \in held : state[o.target] = "sealed"

\* Reference counts leak nothing: references never form a cycle, so whenever a
\* sealed heap is left that neither a handle nor an open heap keeps alive, one
\* of those left can be freed.
NoReferenceCycle ==
    \A S \in SUBSET {h \in Heap : state[h] = "sealed"} :
        S # {} => \E h \in S : \A g \in S : h \notin refs[g]

\* A heap nobody will ever hold again is freed: with every handle dropped and no
\* module open for good, no heap stays.
AllFreedInTheEnd ==
    (held = {} /\ \A h \in Heap : state[h] \in {"sealed", "freed"})
        ~> (\A h \in Heap : state[h] = "freed")
=============================================================================
