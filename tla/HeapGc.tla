------------------------------- MODULE HeapGc -------------------------------
(***************************************************************************)
(* The unfrozen heap of starlark-rust and its copying garbage collector:   *)
(* `Heap`, `Tracer`, `Arena` (values/layout/heap/) and the `heap_copy`     *)
(* methods of the value kinds (values/layout/avalue.rs).                   *)
(*                                                                         *)
(* A value is a tagged word: a pointer into the unfrozen heap (an address) *)
(* or a word that does not point there (an inline int, a static or frozen  *)
(* value: a member of Frozen).  The arenas are sets of addresses; memory   *)
(* of a dropped arena may be handed out again, so a pointer that survives  *)
(* its arena is a real dangling pointer in this model.                     *)
(*                                                                         *)
(* The recursion of `Tracer::trace` -> `adjust` -> `heap_copy` is the      *)
(* sequence `stack`, one frame per `heap_copy` in progress, so that every  *)
(* intermediate heap (forward pointers, black holes, payloads moved out of *)
(* the old arena) is a state.                                              *)
(***************************************************************************)
EXTENDS Naturals, Sequences, FiniteSets

CONSTANTS Addr,        \* addresses the bump allocators hand out
          Root,        \* cells the evaluator traces: slots, frame, call stack
          Frozen,      \* words that are not pointers into the unfrozen heap
          None,        \* Value::new_none()
          EmptyArray,  \* VALUE_EMPTY_ARRAY, the static array of capacity 0
          MaxObjs,     \* bound: objects in one arena
          MaxLen,      \* bound: fields of one object
          MaxListLen   \* bound: elements of one list

ASSUME HeapAssumption ==
    /\ Addr \cap Frozen = {}
    /\ None \in Frozen
    /\ EmptyArray \in Frozen
    /\ IsFiniteSet(Root)
    /\ MaxObjs \in Nat
    /\ MaxLen \in Nat
    /\ MaxListLen \in Nat

VARIABLES
    arena,     \* addresses allocated from Heap.arena
    newArena,  \* addresses allocated from Tracer.arena during a collection
    tag,       \* what the header word at an address is
    kind,      \* the AValue implementation of the object at an address
    slots,     \* the values the object at an address holds
    cap,       \* capacity of the Array at an address
    fwd,       \* the ForwardPtr at an address whose tag is "forward"
    emptyArray,\* the content of VALUE_EMPTY_ARRAY, which all heaps share
    root,      \* the traced cells
    phase,     \* "mutator" or "tracing"
    pending,   \* roots the collection has still to trace
    stack,     \* heap_copy frames in progress, the innermost last
    before     \* history variable: the heap the collection started from

heapVars == <<arena, newArena, tag, kind, slots, cap, fwd, emptyArray>>
vars == <<heapVars, root, phase, pending, stack, before>>

Value == Addr \cup Frozen

\* AValue implementations by what heap_copy does with them: "leaf" is a string
\* or a simple value (no values inside), "complex" a tuple (never empty, never
\* mutated) or any other ComplexValue.
Kind == {"leaf", "list", "array", "complex"}
Tag  == {"unused", "object", "forward", "blackHole"}

\* A heap_copy in progress: the reservation in the new arena, the payload
\* taken out of the old object, and the field being traced.
Frame == [new : Addr, fields : Seq(Value), next : Nat]

Snapshot == [root : [Root -> Value], slots : [Addr -> Seq(Value)], kind : [Addr -> Kind]]

NoSnapshot == [root  |-> [r \in Root |-> None],
               slots |-> [a \in Addr |-> <<>>],
               kind  |-> [a \in Addr |-> "leaf"]]

FreeAddr == Addr \ (arena \cup newArena)

TypeOK ==
    /\ arena \subseteq Addr
    /\ newArena \subseteq Addr
    /\ tag \in [Addr -> Tag]
    /\ kind \in [Addr -> Kind]
    /\ slots \in [Addr -> Seq(Value)]
    /\ cap \in [Addr -> Nat]
    /\ fwd \in [Addr -> Value]
    /\ emptyArray \in Seq(Value)
    /\ root \in [Root -> Value]
    /\ phase \in {"mutator", "tracing"}
    /\ pending \subseteq Root
    /\ stack \in Seq(Frame)
    /\ before \in Snapshot

Init ==
    /\ arena = {}
    /\ newArena = {}
    /\ tag = [a \in Addr |-> "unused"]
    /\ kind = [a \in Addr |-> "leaf"]
    /\ slots = [a \in Addr |-> <<>>]
    /\ cap = [a \in Addr |-> 0]
    /\ fwd = [a \in Addr |-> None]
    /\ emptyArray = <<>>
    /\ root = [r \in Root |-> None]
    /\ phase = "mutator"
    /\ pending = {}
    /\ stack = <<>>
    /\ before = NoSnapshot

-----------------------------------------------------------------------------
(***************************************************************************)
(* The mutator.                                                            *)
(***************************************************************************)

\* Values a Starlark program can name: it never holds an Array.
Held == {root[r] : r \in Root} \cup {None}

IsObj(v, k) == v \in Addr /\ tag[v] = "object" /\ kind[v] = k

\* Array::content() and Array::capacity(), of the static array too.
ArrayContent(b)  == IF b = EmptyArray THEN emptyArray ELSE slots[b]
ArrayCapacity(b) == IF b = EmptyArray THEN 0 ELSE cap[b]

\* The array of a list, and ListData::content().
ListArray(v)   == slots[v][1]
ListContent(v) == ArrayContent(ListArray(v))

\* The values reachable from an object in one step of the program.
Elems(v) ==
    IF v \notin Addr THEN <<>>
    ELSE IF kind[v] = "list" THEN ListContent(v)
    ELSE slots[v]

SeqsOfHeld(m) == UNION {[1..n -> Held] : n \in 1..m}

\* Heap::alloc_str, alloc_simple: objects that hold no values.
AllocLeaf(r, a) ==
    /\ Cardinality(arena) < MaxObjs
    /\ a \in FreeAddr
    /\ arena' = arena \cup {a}
    /\ tag' = [tag EXCEPT ![a] = "object"]
    /\ kind' = [kind EXCEPT ![a] = "leaf"]
    /\ slots' = [slots EXCEPT ![a] = <<>>]
    /\ root' = [root EXCEPT ![r] = a]
    /\ UNCHANGED <<newArena, cap, fwd, emptyArray, phase, pending, stack, before>>

\* Heap::alloc_tuple (the empty tuple is a static value and takes no memory)
\* and Heap::alloc_complex of a value that holds others.
AllocFields(r, a, elems) ==
    /\ elems # <<>>
    /\ Cardinality(arena) < MaxObjs
    /\ a \in FreeAddr
    /\ arena' = arena \cup {a}
    /\ tag' = [tag EXCEPT ![a] = "object"]
    /\ kind' = [kind EXCEPT ![a] = "complex"]
    /\ slots' = [slots EXCEPT ![a] = elems]
    /\ root' = [root EXCEPT ![r] = a]
    /\ UNCHANGED <<newArena, cap, fwd, emptyArray, phase, pending, stack, before>>

\* Heap::alloc_list of no elements: the list shares the static empty array.
AllocEmptyList(r, a) ==
    /\ Cardinality(arena) < MaxObjs
    /\ a \in FreeAddr
    /\ arena' = arena \cup {a}
    /\ tag' = [tag EXCEPT ![a] = "object"]
    /\ kind' = [kind EXCEPT ![a] = "list"]
    /\ slots' = [slots EXCEPT ![a] = <<EmptyArray>>]
    /\ root' = [root EXCEPT ![r] = a]
    /\ UNCHANGED <<newArena, cap, fwd, emptyArray, phase, pending, stack, before>>

\* Heap::alloc_list of some elements: an array of exactly that capacity.
AllocList(r, a, b, elems) ==
    /\ Cardinality(arena) + 2 <= MaxObjs
    /\ a \in FreeAddr /\ b \in FreeAddr /\ a # b
    /\ elems # <<>>
    /\ arena' = arena \cup {a, b}
    /\ tag' = [tag EXCEPT ![a] = "object", ![b] = "object"]
    /\ kind' = [kind EXCEPT ![a] = "list", ![b] = "array"]
    /\ slots' = [slots EXCEPT ![a] = <<b>>, ![b] = elems]
    /\ cap' = [cap EXCEPT ![b] = Len(elems)]
    /\ root' = [root EXCEPT ![r] = a]
    /\ UNCHANGED <<newArena, fwd, emptyArray, phase, pending, stack, before>>

\* An array is changed in place.
SetContent(b, content) ==
    /\ slots' = [a \in Addr |-> IF a = b THEN content ELSE slots[a]]
    /\ emptyArray' = IF b = EmptyArray THEN content ELSE emptyArray
    /\ UNCHANGED <<arena, newArena, tag, kind, cap, fwd, root, phase, pending, stack, before>>

\* reserve_additional(1) finds room; on no account in the static array.
AlwaysHasRoom(b) == TRUE
HasRoom(b) == Len(ArrayContent(b)) < ArrayCapacity(b)

\* ListData::push with remaining capacity.
ListPushInPlace(r, v) ==
    /\ IsObj(root[r], "list")
    /\ HasRoom(ListArray(root[r]))
    /\ Len(ListContent(root[r])) < MaxListLen
    /\ SetContent(ListArray(root[r]), Append(ListContent(root[r]), v))

NatMax(m, n) == IF m >= n THEN m ELSE n

\* The capacity reserve_additional_slow chooses for one more element.
NewCapacity(len) == NatMax(NatMax(len + 1, 2 * len), 4)

\* ListData::push without remaining capacity: reserve_additional_slow copies
\* the content to a larger array and leaves the old array as garbage.
ListPushRealloc(r, v, b) ==
    /\ Cardinality(arena) < MaxObjs
    /\ b \in FreeAddr
    /\ IsObj(root[r], "list")
    /\ LET content == ListContent(root[r]) IN
        /\ ~HasRoom(ListArray(root[r]))
        /\ Len(content) < MaxListLen
        /\ arena' = arena \cup {b}
        /\ tag' = [tag EXCEPT ![b] = "object"]
        /\ kind' = [kind EXCEPT ![b] = "array"]
        /\ slots' = [slots EXCEPT ![b] = Append(content, v), ![root[r]] = <<b>>]
        /\ cap' = [cap EXCEPT ![b] = NewCapacity(Len(content))]
    /\ UNCHANGED <<newArena, fwd, emptyArray, root, phase, pending, stack, before>>

\* ListData::clear: length 0, the array and its capacity stay.  Clearing an
\* empty list writes the length of the static array.
ListClear(r) ==
    /\ IsObj(root[r], "list")
    /\ SetContent(ListArray(root[r]), <<>>)

\* Array::set_at, the assignment of a list element.
ListSetAt(r, i, v) ==
    /\ IsObj(root[r], "list")
    /\ i \in 1..Len(ListContent(root[r]))
    /\ SetContent(ListArray(root[r]), [ListContent(root[r]) EXCEPT ![i] = v])

\* ListData::remove.
ListRemove(r, i) ==
    /\ IsObj(root[r], "list")
    /\ LET content == ListContent(root[r]) IN
        /\ i \in 1..Len(content)
        /\ SetContent(ListArray(root[r]),
                      SubSeq(content, 1, i - 1) \o SubSeq(content, i + 1, Len(content)))

\* A value held by a complex value is replaced (a dict entry, an attribute).
SetField(r, i, v) ==
    /\ IsObj(root[r], "complex")
    /\ i \in 1..Len(slots[root[r]])
    /\ slots' = [slots EXCEPT ![root[r]] = [@ EXCEPT ![i] = v]]
    /\ UNCHANGED <<arena, newArena, tag, kind, cap, fwd, emptyArray, root, phase, pending, stack, before>>

\* A traced cell is overwritten: by a value read out of an object, by the
\* value of another cell, or by None.
AssignRoot(r, v) ==
    /\ v \in Held \/ \E s \in Root : \E i \in DOMAIN Elems(root[s]) : v = Elems(root[s])[i]
    /\ root' = [root EXCEPT ![r] = v]
    /\ UNCHANGED <<heapVars, phase, pending, stack, before>>

-----------------------------------------------------------------------------
(***************************************************************************)
(* The collection.                                                         *)
(***************************************************************************)

\* What Evaluator::trace hands to the tracer: the module's slots and extra
\* value, the interned strings, the current frame, the call stack.
TracedButOne == {R \in SUBSET Root : Cardinality(R) = Cardinality(Root) - 1}
TracedCells == {Root}

\* Heap::garbage_collect_internal: the arena is taken out of the heap, a
\* Tracer with an empty arena is created.
GcStart ==
    /\ phase = "mutator"
    /\ phase' = "tracing"
    /\ newArena' = {}
    /\ pending' \in TracedCells
    /\ stack' = <<>>
    /\ before' = [root |-> root, slots |-> slots, kind |-> kind]
    /\ UNCHANGED <<arena, tag, kind, slots, cap, fwd, emptyArray, root>>

\* Tracer::adjust, the two cases that copy nothing: a word that is not an
\* unfrozen pointer is kept, a forwarded object gives its forward pointer.
\* An empty Array gives the static empty array (AValueArray::heap_copy).
Settled(v) ==
    v \in Addr => tag[v] = "forward" \/ (kind[v] = "array" /\ slots[v] = <<>>)

AdjustNothing(v) == v

AdjustSettled(v) ==
    IF v \in Frozen THEN v
    ELSE IF tag[v] = "forward" THEN fwd[v]
    ELSE EmptyArray

\* StarlarkStrAValue::heap_copy, and heap_copy_impl of a simple value: the
\* copy is complete when the forward is written, nothing is traced.
CopyLeaf(v, n) ==
    /\ n \in FreeAddr
    /\ tag[v] = "object" /\ kind[v] = "leaf"
    /\ newArena' = newArena \cup {n}
    /\ tag' = [tag EXCEPT ![n] = "object", ![v] = "forward"]
    /\ kind' = [kind EXCEPT ![n] = kind[v]]
    /\ slots' = [slots EXCEPT ![n] = <<>>]
    /\ fwd' = [fwd EXCEPT ![v] = n]
    /\ UNCHANGED <<arena, cap, emptyArray, stack>>

PayloadShort(v) == Tail(slots[v])

\* The values moved out of the old object: AValueHeader::overwrite_with_forward
\* returns the payload, the content of a tuple or an array lies behind it.
Payload(v) == slots[v]

\* heap_copy of a tuple, list, array or complex value, up to its first
\* recursive call: reserve (a black hole in the new arena), overwrite the old
\* object with the forward, take the payload out.  An array gives up its
\* extra capacity.
CopyFields(v, n) ==
    /\ n \in FreeAddr
    /\ tag[v] = "object" /\ kind[v] # "leaf"
    /\ newArena' = newArena \cup {n}
    /\ tag' = [tag EXCEPT ![n] = "blackHole", ![v] = "forward"]
    /\ kind' = [kind EXCEPT ![n] = kind[v]]
    /\ cap' = [cap EXCEPT ![n] = IF kind[v] = "array" THEN Len(slots[v]) ELSE 0]
    /\ fwd' = [fwd EXCEPT ![v] = n]
    /\ stack' = Append(stack, [new |-> n, fields |-> Payload(v), next |-> 1])
    /\ slots' = [slots EXCEPT ![v] = <<>>, ![n] = <<>>]
    /\ UNCHANGED <<arena, emptyArray>>

CopyValue(v, n) == CopyLeaf(v, n) \/ CopyFields(v, n)

\* Tracer::trace of a root cell; called with no heap_copy in progress.  When
\* the object has first to be copied, the cell gets the forward that heap_copy
\* returns: the cell stays pending until the copy is complete.
TraceRoot(r) ==
    /\ phase = "tracing"
    /\ stack = <<>>
    /\ r \in pending
    /\ Settled(root[r])
    /\ root' = [root EXCEPT ![r] = AdjustSettled(root[r])]
    /\ pending' = pending \ {r}
    /\ UNCHANGED <<heapVars, phase, stack, before>>

CopyRoot(r, n) ==
    /\ phase = "tracing"
    /\ stack = <<>>
    /\ r \in pending
    /\ ~Settled(root[r])
    /\ CopyValue(root[r], n)
    /\ UNCHANGED <<root, phase, pending, before>>

Top == stack[Len(stack)]

SameField(i) == i
FieldAfter(i) == i + 1

\* Tracer::trace of the next field of the innermost heap_copy.
TraceField ==
    /\ phase = "tracing"
    /\ stack # <<>>
    /\ Top.next <= Len(Top.fields)
    /\ Settled(Top.fields[Top.next])
    /\ stack' = [stack EXCEPT ![Len(stack)] =
           [new    |-> Top.new,
            fields |-> [Top.fields EXCEPT ![Top.next] = AdjustSettled(Top.fields[Top.next])],
            next   |-> FieldAfter(Top.next)]]
    /\ UNCHANGED <<heapVars, root, phase, pending, before>>

CopyField(n) ==
    /\ phase = "tracing"
    /\ stack # <<>>
    /\ Top.next <= Len(Top.fields)
    /\ ~Settled(Top.fields[Top.next])
    /\ CopyValue(Top.fields[Top.next], n)
    /\ UNCHANGED <<root, phase, pending, before>>

\* Reservation::fill: the traced payload replaces the black hole.
Fill ==
    /\ phase = "tracing"
    /\ stack # <<>>
    /\ Top.next > Len(Top.fields)
    /\ tag' = [tag EXCEPT ![Top.new] = "object"]
    /\ slots' = [slots EXCEPT ![Top.new] = Top.fields]
    /\ stack' = SubSeq(stack, 1, Len(stack) - 1)
    /\ UNCHANGED <<arena, newArena, kind, cap, fwd, emptyArray, root, phase, pending, before>>

SurvivorsAndGarbage == newArena \cup {a \in arena : tag[a] = "object"}

\* What the heap keeps: the tracer's arena, nothing of the old one.
Survivors == newArena

\* End of garbage_collect_internal: the tracer's arena becomes the heap's,
\* the old arena is dropped.
GcFinish ==
    /\ phase = "tracing"
    /\ stack = <<>>
    /\ pending = {}
    /\ phase' = "mutator"
    /\ arena' = Survivors
    /\ newArena' = {}
    /\ tag' = [a \in Addr |-> IF a \in Survivors THEN tag[a] ELSE "unused"]
    /\ slots' = [a \in Addr |-> IF a \in Survivors THEN slots[a] ELSE <<>>]
    /\ kind' = [a \in Addr |-> IF a \in Survivors THEN kind[a] ELSE "leaf"]
    /\ cap' = [a \in Addr |-> IF a \in Survivors THEN cap[a] ELSE 0]
    /\ fwd' = [a \in Addr |-> None]
    /\ before' = NoSnapshot
    /\ UNCHANGED <<emptyArray, root, pending, stack>>

Tracing ==
    \/ \E r \in Root : TraceRoot(r) \/ \E n \in Addr : CopyRoot(r, n)
    \/ TraceField
    \/ \E n \in Addr : CopyField(n)
    \/ Fill
    \/ GcFinish

Mutate ==
    /\ phase = "mutator"
    /\ \E r \in Root :
        \/ \E a \in Addr : AllocLeaf(r, a)
        \/ \E a \in Addr, elems \in SeqsOfHeld(MaxLen) : AllocFields(r, a, elems)
        \/ \E a \in Addr : AllocEmptyList(r, a)
        \/ \E a, b \in Addr, elems \in SeqsOfHeld(MaxListLen) : AllocList(r, a, b, elems)
        \/ \E v \in Held : ListPushInPlace(r, v)
        \/ \E v \in Held, b \in Addr : ListPushRealloc(r, v, b)
        \/ ListClear(r)
        \/ \E i \in 1..MaxListLen, v \in Held : ListSetAt(r, i, v)
        \/ \E i \in 1..MaxListLen : ListRemove(r, i)
        \/ \E i \in 1..MaxLen, v \in Held : SetField(r, i, v)
        \/ \E v \in Value : AssignRoot(r, v)

Next == Mutate \/ GcStart \/ Tracing

Spec == Init /\ [][Next]_vars

-----------------------------------------------------------------------------
(***************************************************************************)
(* Properties.                                                             *)
(***************************************************************************)

Live(S, v) == v \in Frozen \/ (v \in S /\ tag[v] = "object")

Holds(S, seq) == \A i \in DOMAIN seq : Live(S, seq[i])

(* Between collections no cell and no object refers to memory of a dropped *)
(* arena, to a forward pointer or to a black hole: what the `unsafe` of    *)
(* Heap::garbage_collect and the lifetime casts of alloc_raw rely on.      *)
NoDangling ==
    phase = "mutator" =>
        /\ \A r \in Root : Live(arena, root[r])
        /\ \A a \in arena : tag[a] = "object" /\ Holds(arena, slots[a])

(* During a collection a finished object of the new arena never refers to  *)
(* the old arena, and a black hole belongs to a heap_copy in progress.     *)
NewArenaClosed ==
    phase = "tracing" =>
        \A n \in newArena :
            \/ /\ tag[n] = "object"
               /\ \A i \in DOMAIN slots[n] : slots[n][i] \in newArena \cup Frozen
            \/ /\ tag[n] = "blackHole"
               /\ \E i \in DOMAIN stack : stack[i].new = n

\* Where a value of the heap before the collection ends up.
Moved(v) ==
    IF v \in Frozen THEN v
    ELSE IF before.kind[v] = "array" /\ before.slots[v] = <<>> THEN EmptyArray
    ELSE fwd[v]

(* When every root has been traced, the new arena holds an exact copy of   *)
(* the graph the roots had: the same kinds, the same values in the same    *)
(* order, shared objects still shared and distinct objects still distinct, *)
(* cycles included (heap_copy writes the forward before it traces).        *)
GraphPreserved ==
    (phase = "tracing" /\ stack = <<>> /\ pending = {}) =>
        /\ \A r \in Root : root[r] = Moved(before.root[r])
        /\ \A a \in arena : tag[a] = "forward" =>
              /\ tag[fwd[a]] = "object"
              /\ kind[fwd[a]] = before.kind[a]
              /\ slots[fwd[a]] = [i \in DOMAIN before.slots[a] |-> Moved(before.slots[a][i])]
        /\ \A a, b \in arena : tag[a] = "forward" /\ tag[b] = "forward" /\ fwd[a] = fwd[b] => a = b

Reachable(S, rt, sl) ==
    {a \in S : \A T \in SUBSET S :
        (/\ \A r \in Root : rt[r] \in S => rt[r] \in T
         /\ \A b \in T : \A i \in DOMAIN sl[b] : sl[b][i] \in S => sl[b][i] \in T)
        => a \in T}

(* A collection keeps nothing that the roots do not reach: in particular   *)
(* the arrays that lists have outgrown are gone.                           *)
GcReclaimsGarbage ==
    [][GcFinish => arena' = Reachable(arena', root', slots')]_vars

(* No array ever holds more values than its capacity, across in-place      *)
(* pushes, reallocation and the capacity that a collection takes away.  In *)
(* particular nothing is ever pushed into the static array of capacity 0,  *)
(* which the empty lists of all heaps and threads share.                   *)
ArrayFits ==
    /\ TypeOK
    /\ emptyArray = <<>>
    /\ \A a \in arena \cup newArena :
         tag[a] = "object" /\ kind[a] = "array" => Len(slots[a]) <= cap[a]

Uncopied == {a \in arena : tag[a] # "forward"}

FieldsLeft == IF stack = <<>> THEN 0 ELSE Len(Top.fields) + 1 - Top.next

Earlier(m, n) ==
    \E i \in DOMAIN m : m[i] < n[i] /\ \A j \in 1..(i - 1) : m[j] = n[j]

(* A collection ends, on cyclic and shared graphs too: every step of it    *)
(* lowers, in lexicographic order, the objects not copied yet, the roots   *)
(* not traced yet, the depth of the recursion and the fields the innermost *)
(* heap_copy has left.  The only other step is GcFinish, which returns to  *)
(* the mutator, and no state of a collection is stuck (no deadlock).       *)
GcMakesProgress ==
    [][phase = "tracing" /\ phase' = "tracing" =>
         Earlier(<<Cardinality(Uncopied'), Cardinality(pending'), Len(stack'), FieldsLeft'>>,
                 <<Cardinality(Uncopied), Cardinality(pending), Len(stack), FieldsLeft>>)]_vars

=============================================================================
