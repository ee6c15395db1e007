---------------------------- MODULE ModuleFreeze ----------------------------
(***************************************************************************)
(* `Module::freeze` (environment/modules.rs): the values reachable from    *)
(* the module's slots and extra value move from the unfrozen heap to the   *)
(* frozen one through `Freezer::freeze` and the `heap_freeze` method of    *)
(* each kind of value (values/layout/avalue.rs); then every function       *)
(* frozen is completed by `FrozenDef::post_freeze` (eval/compiler/def.rs), *)
(* the unfrozen heap is dropped and the frozen one sealed.                 *)
(*                                                                         *)
(* The recursion of freeze is the sequence `work`, one frame for each      *)
(* heap_freeze in progress, so that black holes, forwards and half written *)
(* lists are states.                                                       *)
(***************************************************************************)
EXTENDS Naturals, Sequences, SequencesExt, FiniteSets

CONSTANTS NSlots,   \* module slots, the module's extra value being the last
          MaxObjs,  \* bound: objects in the unfrozen heap
          MaxLen    \* bound: values inside one object

ASSUME FreezeAssumption ==
    /\ NSlots \in Nat
    /\ MaxObjs \in Nat
    /\ MaxLen \in Nat

VARIABLES
    phase,     \* "running", "freezing", "postFreeze", "frozen" or "failed"
    heap,      \* unfrozen heap: the objects by address
    slots,     \* module slots
    fwd,       \* forward left at an unfrozen address, NoForward before
    frozen,    \* arena of the frozen heap: the objects by address
    frozenSlots, \* slots frozen so far
    work,      \* heap_freeze calls in progress, innermost last
    defs       \* Freezer.frozen_defs still to post_freeze

vars == <<phase, heap, slots, fwd, frozen, frozenSlots, work, defs>>

\* Words: pointers into the unfrozen heap, into this module's frozen heap, and
\* to values frozen earlier or static.
H(i) == <<"heap", i>>
F(i) == <<"frozen", i>>
Old       == <<"static", "old">>
EmptyList == <<"static", "emptyList">>
Static    == <<"static", "value">>
Uninit    == <<"uninit", 0>>
NoForward == <<"uninit", 1>>

\* "leaf" is a string or simple value, "complex" a ComplexValue, "static" one
\* whose try_freeze_static succeeds, "noFreeze" one that cannot be frozen.
Kind == {"leaf", "tuple", "list", "complex", "def", "static", "noFreeze"}

\* FrozenModuleData references of a def: none, this module's, another's.
ModuleRef == {"none", "this", "other"}

Value(h)  == {H(i) : i \in DOMAIN h} \cup {Old}
FValue(f) == {F(i) : i \in DOMAIN f} \cup {Old, EmptyList, Static}

Object  == [kind : Kind, elems : Seq(Value(heap)), module : ModuleRef]
FObject == [tag : {"blackHole", "object"}, kind : Kind,
            elems : Seq(FValue(frozen) \cup {Uninit}), module : ModuleRef,
            optimized : BOOLEAN]
Frame   == [src : DOMAIN heap, new : DOMAIN frozen, fields : Seq(Value(heap)),
            out : Seq(FValue(frozen))]

TypeOK ==
    /\ phase \in {"running", "freezing", "postFreeze", "frozen", "failed"}
    /\ heap \in Seq(Object)
    /\ slots \in Seq(Value(heap))
    /\ fwd \in Seq(FValue(frozen) \cup {NoForward})
    /\ Len(fwd) = Len(heap)
    /\ frozen \in Seq(FObject)
    /\ frozenSlots \in Seq(FValue(frozen))
    /\ work \in Seq(Frame)
    /\ defs \in Seq(DOMAIN frozen)

Init ==
    /\ phase = "running"
    /\ heap = <<>>
    /\ slots = [i \in 1 .. NSlots |-> Old]
    /\ fwd = <<>>
    /\ frozen = <<>>
    /\ frozenSlots = <<>>
    /\ work = <<>>
    /\ defs = <<>>

-----------------------------------------------------------------------------
(***************************************************************************)
(* The evaluation that leaves the heap behind.                             *)
(***************************************************************************)

\* Empty tuples are static; simple values and those that do not freeze hold no
\* values that matter here.
WellFormed(k, es) ==
    /\ k = "tuple" => es # <<>>
    /\ k \in {"leaf", "static", "noFreeze"} => es = <<>>

\* An object is allocated and becomes the value of a variable.  A def keeps the
\* module of the frozen function that created it, if one did (Def::new).
Alloc ==
    /\ phase = "running"
    /\ Len(heap) < MaxObjs
    /\ \E k \in Kind, n \in 0 .. MaxLen, s \in DOMAIN slots :
         \E es \in [1 .. n -> Value(heap)], m \in {"none", "other"} :
           /\ WellFormed(k, es)
           /\ m = "other" => k = "def"
           /\ heap' = Append(heap, [kind |-> k, elems |-> es, module |-> m])
           /\ slots' = [slots EXCEPT ![s] = H(Len(heap) + 1)]
    /\ fwd' = Append(fwd, NoForward)
    /\ UNCHANGED <<phase, frozen, frozenSlots, work, defs>>

\* Mutation: lists, dictionaries and captured variables can point anywhere.
SetElem ==
    /\ phase = "running"
    /\ \E i \in DOMAIN heap : \E j \in DOMAIN heap[i].elems, v \in Value(heap) :
         /\ heap[i].kind \in {"list", "complex", "def"}
         /\ heap' = [heap EXCEPT ![i].elems[j] = v]
    /\ UNCHANGED <<phase, slots, fwd, frozen, frozenSlots, work, defs>>

-----------------------------------------------------------------------------
(***************************************************************************)
(* Freezing.                                                               *)
(***************************************************************************)

Start ==
    /\ phase = "running"
    /\ phase' = "freezing"
    /\ UNCHANGED <<heap, slots, fwd, frozen, frozenSlots, work, defs>>

Top == Last(work)

\* The value freezer.freeze() is called on next.
Pending ==
    /\ phase = "freezing"
    /\ IF work = <<>> THEN Len(frozenSlots) < NSlots ELSE Len(Top.out) < Len(Top.fields)

Current == IF work = <<>> THEN slots[Len(frozenSlots) + 1] ELSE Top.fields[Len(Top.out) + 1]

\* freezer.freeze() returned v to the innermost caller, one of w or the slots.  A
\* list writes the element in place, the others collect it.
Deliver(f, w, v) ==
    /\ frozenSlots' = IF w = <<>> THEN Append(frozenSlots, v) ELSE frozenSlots
    /\ work' = IF w = <<>> THEN w ELSE [w EXCEPT ![Len(w)].out = Append(@, v)]
    /\ frozen' = IF w # <<>> /\ f[Last(w).new].kind = "list"
                   THEN [f EXCEPT ![Last(w).new].elems[Len(Last(w).out) + 1] = v] ELSE f

\* Freezer::freeze takes a forward as it is, to a black hole too.
ForwardFilled(v) == v # NoForward /\ (v[1] = "frozen" => frozen[v[2]].tag = "object")
ForwardFound(v)  == v # NoForward

\* Freezer::freeze, a value that is frozen already or was frozen before.
FreezeKnown ==
    /\ Pending
    /\ IF Current = Old THEN Deliver(frozen, work, Old)
       ELSE /\ ForwardFound(fwd[Current[2]])
            /\ Deliver(frozen, work, fwd[Current[2]])
    /\ UNCHANGED <<phase, heap, slots, fwd, defs>>

\* The kinds whose heap_freeze is called, with the object it is called on.
ToFreeze(kinds) ==
    /\ Pending
    /\ Current # Old
    /\ fwd[Current[2]] = NoForward
    /\ heap[Current[2]].kind \in kinds

Source == heap[Current[2]]

IsStatic(o) == o.kind = "static" \/ (o.kind = "list" /\ o.elems = <<>>)

\* An empty list, or try_freeze_static: the forward is to a static value.
FreezeToStatic ==
    /\ ToFreeze({"list", "static"})
    /\ IsStatic(Source)
    /\ LET v == IF Source.kind = "list" THEN EmptyList ELSE Static
       IN  fwd' = [fwd EXCEPT ![Current[2]] = v] /\ Deliver(frozen, work, v)
    /\ UNCHANGED <<phase, heap, slots, defs>>

Reserved(o, tag, es) ==
    [tag |-> tag, kind |-> o.kind, elems |-> es, module |-> "none", optimized |-> FALSE]

\* heap_freeze_simple_impl: reserve, forward and fill at once.
FreezeLeaf ==
    /\ ToFreeze({"leaf"})
    /\ LET v == F(Len(frozen) + 1)
       IN  /\ fwd' = [fwd EXCEPT ![Current[2]] = v]
           /\ Deliver(Append(frozen, Reserved(Source, "object", <<>>)), work, v)
    /\ UNCHANGED <<phase, heap, slots, defs>>

\* The forward heap_freeze leaves before it freezes what is inside.
ForwardLate(v)   == NoForward
ForwardBefore(v) == v

\* heap_freeze of tuples, lists and complex values: reserve (a black hole),
\* forward, and for a list fill the header, before anything inside is frozen.
FreezeReserve ==
    /\ ToFreeze({"tuple", "list", "complex", "def"})
    /\ ~IsStatic(Source)
    /\ LET isList == Source.kind = "list"
           new == Reserved(Source, IF isList THEN "object" ELSE "blackHole",
                           IF isList THEN [i \in DOMAIN Source.elems |-> Uninit] ELSE <<>>)
       IN  /\ frozen' = Append(frozen, new)
           /\ fwd' = [fwd EXCEPT ![Current[2]] = ForwardBefore(F(Len(frozen) + 1))]
           /\ work' = Append(work, [src |-> Current[2], new |-> Len(frozen) + 1,
                                    fields |-> Source.elems, out |-> <<>>])
    /\ UNCHANGED <<phase, heap, slots, frozenSlots, defs>>

\* Freeze for Def: the module reference is carried over.
ModuleKept(o) == o.module

\* frozen_defs after a heap_freeze of kind k filled address a.
DefsForgotten(k, a)   == defs
DefsAfter(k, a)       == IF k = "def" THEN Append(defs, a) ELSE defs

\* The loop over what is inside an object is over.
CompleteEarly(frame) == Len(frame.out) + 1 >= Len(frame.fields)
Complete(frame)      == Len(frame.out) = Len(frame.fields)

\* Everything inside is frozen: fill the reservation (a list is filled already)
\* and return.
FreezeReturn ==
    /\ phase = "freezing" /\ work # <<>>
    /\ Complete(Top)
    /\ LET src  == heap[Top.src]
           full == [tag |-> "object", kind |-> src.kind, optimized |-> FALSE,
                    elems |-> IF src.kind = "list" THEN frozen[Top.new].elems ELSE Top.out,
                    module |-> ModuleKept(src)]
       IN  /\ Deliver([frozen EXCEPT ![Top.new] = full], Front(work), F(Top.new))
           /\ defs' = DefsAfter(src.kind, Top.new)
    /\ UNCHANGED <<phase, heap, slots, fwd>>

\* Module::freeze on an error from the freezer.
PhaseErrorIgnored == "frozen"
PhaseAfterError   == "failed"

\* AValueComplexNoFreeze: the error leaves through every `?`, and the module
\* with both heaps is dropped.  An error of a complex value's own Freeze, which
\* comes after the forward, is represented by this one: the heaps are dropped
\* all the same.
FreezeFails ==
    /\ ToFreeze({"noFreeze"})
    /\ phase' = PhaseAfterError
    /\ UNCHANGED <<heap, slots, fwd, frozen, frozenSlots, work, defs>>

\* Slots and extra value are frozen: FrozenModuleData is allocated.
AllocModuleData ==
    /\ phase = "freezing" /\ work = <<>>
    /\ Len(frozenSlots) = NSlots
    /\ phase' = "postFreeze"
    /\ UNCHANGED <<heap, slots, fwd, frozen, frozenSlots, work, defs>>

\* post_freeze: a def keeps the module it was declared in.
ModuleAfter(m) == IF m = "none" THEN "this" ELSE m

PostFreeze ==
    /\ phase = "postFreeze" /\ defs # <<>>
    /\ frozen' = [frozen EXCEPT ![Head(defs)].module = ModuleAfter(@),
                                ![Head(defs)].optimized = TRUE]
    /\ defs' = Tail(defs)
    /\ UNCHANGED <<phase, heap, slots, fwd, frozenSlots, work>>

\* The unfrozen heap is dropped, the frozen one becomes a FrozenHeapRef.
Seal ==
    /\ phase = "postFreeze" /\ defs = <<>>
    /\ phase' = "frozen"
    /\ UNCHANGED <<heap, slots, fwd, frozen, frozenSlots, work, defs>>

Ended == phase \in {"frozen", "failed"} /\ UNCHANGED vars

FreezeStep ==
    \/ FreezeKnown \/ FreezeToStatic \/ FreezeLeaf \/ FreezeReserve \/ FreezeReturn
    \/ FreezeFails \/ AllocModuleData \/ PostFreeze \/ Seal

Next == Alloc \/ SetElem \/ Start \/ FreezeStep \/ Ended

Spec == Init /\ [][Next]_vars

\* Freezing is one function call: it is executed to its end.
FairSpec == Spec /\ WF_vars(FreezeStep)

-----------------------------------------------------------------------------
(***************************************************************************)
(* Properties.                                                             *)
(***************************************************************************)

\* The unfrozen addresses reachable from the slots: those in every set that has
\* what the slots hold and what is inside its members.
Inside(vs) == {vs[j][2] : j \in {j \in DOMAIN vs : vs[j] # Old}}
Closed(S) == Inside(slots) \subseteq S /\ \A i \in S : Inside(heap[i].elems) \subseteq S
Reachable == {i \in DOMAIN heap : \A S \in SUBSET DOMAIN heap : Closed(S) => i \in S}

\* Published memory is complete: nothing in a frozen module is a black hole, an
\* unwritten list element or a pointer into the heap that was dropped.
FrozenHeapComplete ==
    /\ TypeOK
    /\ phase = "frozen" =>
         /\ \A i \in DOMAIN frozen :
              /\ frozen[i].tag = "object"
              /\ \A j \in DOMAIN frozen[i].elems : frozen[i].elems[j] \in FValue(frozen)
         /\ \A i \in DOMAIN frozenSlots : frozenSlots[i] \in FValue(frozen)

\* The frozen counterpart of a word.
Image(v) == IF v = Old THEN Old ELSE fwd[v[2]]

\* The frozen module is the module that was frozen: through the forwards, every
\* reachable object has a copy of its kind with the copies of its elements, in
\* cyclic and shared structure too, and two objects never become one.
FrozenGraphPreserved ==
    phase = "frozen" =>
        /\ frozenSlots = [i \in 1 .. NSlots |-> Image(slots[i])]
        /\ \A o \in Reachable :
             IF IsStatic(heap[o]) THEN fwd[o] \in {EmptyList, Static}
             ELSE /\ fwd[o][1] = "frozen"
                  /\ frozen[fwd[o][2]].kind = heap[o].kind
                  /\ frozen[fwd[o][2]].elems = [j \in DOMAIN heap[o].elems |-> Image(heap[o].elems[j])]
                  /\ \A p \in Reachable : fwd[p] = fwd[o] => p = o

\* post_freeze works on a complete heap ("all module variables are frozen, so we
\* can inline more aggressively"), and completes every def: none is callable
\* without its body, whichever path it was frozen through.  "A function can be
\* created in a frozen module and frozen later in another module": its module
\* remains the one it was declared in.
DefsCompleted ==
    /\ phase = "postFreeze" => \A i \in DOMAIN frozen : frozen[i].tag = "object"
    /\ phase = "frozen" =>
         /\ \A i \in DOMAIN frozen : frozen[i].kind = "def" => frozen[i].optimized
         /\ \A o \in Reachable : heap[o].kind = "def" =>
              frozen[fwd[o][2]].module = IF heap[o].module = "none" THEN "this" ELSE heap[o].module

\* Freezing fails exactly when a value that cannot be frozen is reachable.
FailsOnlyOnNoFreeze ==
    LET blocked == \E o \in Reachable : heap[o].kind = "noFreeze"
    IN  /\ phase = "failed" => blocked
        /\ phase = "frozen" => ~blocked

\* Module::freeze returns, also on cyclic values: each object is frozen once.
FreezeTerminates == phase = "freezing" ~> phase \in {"frozen", "failed"}
=============================================================================
