---------------------------- MODULE HeapGcProofs ----------------------------
(***************************************************************************)
(* The garbage collector of HeapGc, for every set of addresses, every      *)
(* finite set of roots and every bound: it leaves no dangling pointer, the *)
(* graph that was there and no garbage, and it ends; lists stay within     *)
(* their arrays.                                                           *)
(***************************************************************************)
EXTENDS HeapGc, FiniteSetTheorems, SequenceTheorems, TLAPS

(* NoDangling speaks of the heap between collections only.  To be          *)
(* inductive it needs what holds of the two arenas while a collection is   *)
(* half done: who may point where, and which black holes will be filled.   *)

\* No address belongs to both arenas.
Disjoint == arena \cap newArena = {}

\* Outside a collection there is nothing of one.
Quiet == phase = "mutator" => newArena = {} /\ stack = <<>> /\ pending = {}

\* An object of the old arena is untouched or replaced by a forward pointer
\* into the new arena.
OldArena ==
    \A a \in arena :
        \/ /\ tag[a] = "object"
           /\ \A i \in DOMAIN slots[a] : slots[a][i] \in arena \cup Frozen
        \/ /\ phase = "tracing"
           /\ tag[a] = "forward"
           /\ fwd[a] \in newArena
           /\ kind[fwd[a]] = kind[a]

\* The frames own distinct black holes; the fields already traced point to
\* the new arena, the others still to the old one.
Frames ==
    \A k \in DOMAIN stack :
        /\ stack[k].new \in newArena
        /\ tag[stack[k].new] = "blackHole"
        /\ stack[k].next \in 1..(Len(stack[k].fields) + 1)
        /\ \A i \in DOMAIN stack[k].fields :
              stack[k].fields[i] \in
                 (IF i < stack[k].next THEN newArena ELSE arena) \cup Frozen
        /\ \A m \in DOMAIN stack : stack[k].new = stack[m].new => k = m

\* A root points to the old arena until it has been traced.
Roots ==
    \A r \in Root :
        root[r] \in (IF phase = "mutator" \/ r \in pending THEN arena ELSE newArena)
                    \cup Frozen

\* A list holds one value, its array; the static array is empty.
IsArray(S, v) == v = EmptyArray \/ (v \in S /\ kind[v] = "array")

ListShape ==
    /\ emptyArray = <<>>
    /\ \A a \in arena : tag[a] = "object" /\ kind[a] = "list" =>
          Len(slots[a]) = 1 /\ IsArray(arena, slots[a][1])

NewListShape ==
    /\ \A a \in newArena : tag[a] = "object" /\ kind[a] = "list" =>
          Len(slots[a]) = 1 /\ IsArray(newArena, slots[a][1])
    /\ \A k \in DOMAIN stack : kind[stack[k].new] = "list" =>
          Len(stack[k].fields) = 1 /\ IsArray(Addr, stack[k].fields[1])

IInv ==
    /\ TypeOK
    /\ Disjoint
    /\ Quiet
    /\ OldArena
    /\ NewArenaClosed
    /\ Frames
    /\ Roots
    /\ ListShape
    /\ NewListShape

\* A new heap, Heap::new, satisfies the invariant.
THEOREM InitIInv == Init => IInv
  BY HeapAssumption DEF Init, IInv, TypeOK, Disjoint, Quiet, OldArena, NewArenaClosed,
     Frames, Roots, ListShape, NewListShape, Value, Kind, Tag, Frame, Snapshot, NoSnapshot

\* The values a program can name are roots, hence live.
LEMMA HeldLive ==
  ASSUME IInv, phase = "mutator"
  PROVE  Held \subseteq arena \cup Frozen
  BY HeapAssumption DEF IInv, Roots, Held

\* The elements a program builds a list or a tuple from are live.
LEMMA SeqsLive ==
  ASSUME IInv, phase = "mutator", NEW m \in Nat, NEW elems \in SeqsOfHeld(m)
  PROVE  /\ elems \in Seq(arena \cup Frozen)
         /\ elems \in Seq(Value)
         /\ elems # <<>>
  BY HeapAssumption, HeldLive DEF SeqsOfHeld, IInv, TypeOK, Value

\* The list a root points to, and its array.
LEMMA RootList ==
  ASSUME IInv, phase = "mutator", NEW r \in Root, IsObj(root[r], "list")
  PROVE  /\ root[r] \in arena
         /\ slots[root[r]] = <<slots[root[r]][1]>>
         /\ IsArray(arena, slots[root[r]][1])
         /\ ListContent(root[r]) \in Seq(Value)
         /\ \A i \in DOMAIN ListContent(root[r]) :
               ListContent(root[r])[i] \in arena \cup Frozen
<1>. USE HeapAssumption
<1>1. root[r] \in arena
  BY DEF IInv, Roots, IsObj
<1>2. Len(slots[root[r]]) = 1 /\ IsArray(arena, slots[root[r]][1])
  BY <1>1 DEF IInv, ListShape, IsObj
<1>3. slots[root[r]] = <<slots[root[r]][1]>>
  BY <1>1, <1>2 DEF IInv, TypeOK
<1>4. CASE slots[root[r]][1] = EmptyArray
  <2>1. ListContent(root[r]) = <<>>
    BY <1>4 DEF ListContent, ListArray, ArrayContent, IInv, ListShape
  <2>. QED BY <1>1, <1>2, <1>3, <2>1
<1>5. CASE slots[root[r]][1] # EmptyArray
  <2>. DEFINE b == slots[root[r]][1]
  <2>1. b \in arena /\ ListContent(root[r]) = slots[b]
    BY <1>2, <1>5 DEF ListContent, ListArray, ArrayContent, IsArray
  <2>2. slots[b] \in Seq(Value)
    BY <2>1 DEF IInv, TypeOK
  <2>3. \A i \in DOMAIN slots[b] : slots[b][i] \in arena \cup Frozen
    BY <2>1 DEF IInv, OldArena
  <2>. QED BY <1>1, <1>2, <1>3, <2>1, <2>2, <2>3
<1>. QED BY <1>4, <1>5

\* alloc_str and alloc_simple preserve the invariant.
LEMMA AllocLeafInv ==
  ASSUME IInv, phase = "mutator", NEW r \in Root, NEW a \in Addr, AllocLeaf(r, a)
  PROVE  IInv'
<1>. USE HeapAssumption DEF IInv, AllocLeaf, FreeAddr
<1>1. TypeOK'
  BY DEF TypeOK, Tag, Kind, Value
<1>2. Disjoint' /\ Quiet'
  BY DEF Disjoint, Quiet, TypeOK
<1>3. OldArena'
  BY DEF OldArena, TypeOK, Quiet
<1>4. NewArenaClosed' /\ Frames'
  BY DEF NewArenaClosed, Frames, Quiet
<1>5. Roots'
  BY DEF Roots, TypeOK
<1>6. ListShape'
  BY DEF ListShape, IsArray, TypeOK
<1>7. NewListShape'
  BY DEF NewListShape, IsArray, Quiet
<1>. QED BY <1>1, <1>2, <1>3, <1>4, <1>5, <1>6, <1>7

\* alloc_tuple and alloc_complex preserve the invariant.
LEMMA AllocFieldsInv ==
  ASSUME IInv, phase = "mutator", NEW r \in Root, NEW a \in Addr,
         NEW elems \in Seq(arena \cup Frozen), elems \in Seq(Value), AllocFields(r, a, elems)
  PROVE  IInv'
<1>. USE HeapAssumption DEF IInv, AllocFields, FreeAddr
<1>1. TypeOK'
  BY DEF TypeOK, Tag, Kind, Value
<1>2. Disjoint' /\ Quiet'
  BY DEF Disjoint, Quiet, TypeOK
<1>3. OldArena'
  BY DEF OldArena, TypeOK, Quiet
<1>4. NewArenaClosed' /\ Frames'
  BY DEF NewArenaClosed, Frames, Quiet
<1>5. Roots'
  BY DEF Roots, TypeOK
<1>6. ListShape'
  BY DEF ListShape, IsArray, TypeOK
<1>7. NewListShape'
  BY DEF NewListShape, IsArray, Quiet
<1>. QED BY <1>1, <1>2, <1>3, <1>4, <1>5, <1>6, <1>7

\* alloc_list of no elements preserves the invariant.
LEMMA AllocEmptyListInv ==
  ASSUME IInv, phase = "mutator", NEW r \in Root, NEW a \in Addr, AllocEmptyList(r, a)
  PROVE  IInv'
<1>. USE HeapAssumption DEF IInv, AllocEmptyList, FreeAddr
<1>1. TypeOK'
  BY DEF TypeOK, Tag, Kind, Value
<1>2. Disjoint' /\ Quiet'
  BY DEF Disjoint, Quiet, TypeOK
<1>3. OldArena'
  BY DEF OldArena, TypeOK, Quiet
<1>4. NewArenaClosed' /\ Frames'
  BY DEF NewArenaClosed, Frames, Quiet
<1>5. Roots'
  BY DEF Roots, TypeOK
<1>6. ListShape'
  BY DEF ListShape, IsArray, TypeOK
<1>7. NewListShape'
  BY DEF NewListShape, IsArray, Quiet
<1>. QED BY <1>1, <1>2, <1>3, <1>4, <1>5, <1>6, <1>7

\* alloc_list, which allocates a list and its array, preserves the invariant.
LEMMA AllocListInv ==
  ASSUME IInv, phase = "mutator", NEW r \in Root, NEW a \in Addr, NEW b \in Addr,
         NEW elems \in Seq(arena \cup Frozen), elems \in Seq(Value), AllocList(r, a, b, elems)
  PROVE  IInv'
<1>. USE HeapAssumption DEF IInv, AllocList, FreeAddr
<1>1. TypeOK'
  <2>1. <<b>> \in Seq(Value) /\ Len(elems) \in Nat
    BY DEF Value
  <2>2. slots' \in [Addr -> Seq(Value)] /\ cap' \in [Addr -> Nat]
    BY <2>1 DEF TypeOK
  <2>. QED BY <2>2 DEF TypeOK, Tag, Kind, Value
<1>2. Disjoint' /\ Quiet'
  BY DEF Disjoint, Quiet, TypeOK
<1>3. OldArena'
  BY DEF OldArena, TypeOK, Quiet
<1>4. NewArenaClosed' /\ Frames'
  BY DEF NewArenaClosed, Frames, Quiet
<1>5. Roots'
  BY DEF Roots, TypeOK
<1>6. ListShape'
  BY DEF ListShape, IsArray, TypeOK
<1>7. NewListShape'
  BY DEF NewListShape, IsArray, Quiet
<1>. QED BY <1>1, <1>2, <1>3, <1>4, <1>5, <1>6, <1>7

\* The array of a list gets a new content, the static array none but <<>>.
LEMMA SetContentInv ==
  ASSUME IInv, phase = "mutator", NEW r \in Root, IsObj(root[r], "list"),
         NEW c \in Seq(Value), \A i \in DOMAIN c : c[i] \in arena \cup Frozen,
         ListArray(root[r]) # EmptyArray \/ c = <<>>,
         SetContent(ListArray(root[r]), c)
  PROVE  IInv'
<1>. DEFINE b == ListArray(root[r])
<1>1. IsArray(arena, b)
  BY RootList DEF ListArray
<1>. HIDE DEF b
<1>2. /\ slots' = [a \in Addr |-> IF a = b THEN c ELSE slots[a]]
      /\ emptyArray' = <<>>
      /\ UNCHANGED <<arena, newArena, tag, kind, cap, fwd, root, phase, pending, stack, before>>
  BY DEF SetContent, b, IInv, ListShape
<1>3. \A a \in Addr : slots'[a] = IF a = b THEN c ELSE slots[a]
  BY <1>2
<1>4. \A a \in arena : a \in Addr /\ (kind[a] # "array" => a # b)
  BY <1>1, HeapAssumption DEF IsArray, IInv, TypeOK
<1>. USE DEF IInv
<1>5. TypeOK'
  <2>1. slots' \in [Addr -> Seq(Value)]
    BY <1>2 DEF TypeOK
  <2>2. emptyArray' \in Seq(Value)
    BY <1>2
  <2>. QED BY <1>2, <2>1, <2>2 DEF TypeOK
<1>6. Disjoint' /\ Quiet'
  BY <1>2 DEF Disjoint, Quiet, TypeOK
<1>7. OldArena'
  <2>1. \A a \in arena : tag[a] = "object" /\ \A i \in DOMAIN slots[a] : slots[a][i] \in arena \cup Frozen
    BY DEF OldArena
  <2>2. \A a \in arena : tag'[a] = "object" /\ \A i \in DOMAIN slots'[a] : slots'[a][i] \in arena' \cup Frozen
    BY <1>2, <1>3, <1>4, <2>1
  <2>. QED BY <1>2, <2>2 DEF OldArena
<1>8. NewArenaClosed' /\ Frames' /\ NewListShape'
  BY <1>2 DEF NewArenaClosed, Frames, NewListShape, Quiet
<1>9. Roots'
  BY <1>2 DEF Roots
<1>10. ListShape'
  BY <1>2, <1>3, <1>4 DEF ListShape, IsArray
<1>. QED BY <1>5, <1>6, <1>7, <1>8, <1>9, <1>10

\* ListData::push with capacity left preserves the invariant: the static array
\* has none.
LEMMA ListPushInPlaceInv ==
  ASSUME IInv, phase = "mutator", NEW r \in Root, NEW v \in arena \cup Frozen,
         ListPushInPlace(r, v)
  PROVE  IInv'
<1>. DEFINE lc == ListContent(root[r])
<1>1. lc \in Seq(Value) /\ \A i \in DOMAIN lc : lc[i] \in arena \cup Frozen
  BY RootList DEF ListPushInPlace
<1>2. v \in Value
  BY DEF IInv, TypeOK, Value
<1>3. ListArray(root[r]) # EmptyArray
  BY DEF ListPushInPlace, HasRoom, ArrayCapacity, ArrayContent, IInv, ListShape
<1>. HIDE DEF lc
<1>4. /\ Append(lc, v) \in Seq(Value)
      /\ \A i \in DOMAIN Append(lc, v) : Append(lc, v)[i] \in arena \cup Frozen
  <2>1. /\ DOMAIN Append(lc, v) = 1..(Len(lc) + 1) /\ DOMAIN lc = 1..Len(lc)
        /\ Append(lc, v)[Len(lc) + 1] = v
        /\ \A i \in 1..Len(lc) : Append(lc, v)[i] = lc[i]
    BY <1>1
  <2>. QED BY <1>1, <1>2, <2>1
<1>5. IsObj(root[r], "list") /\ SetContent(ListArray(root[r]), Append(lc, v))
  BY DEF ListPushInPlace, lc
<1>. QED BY <1>3, <1>4, <1>5, SetContentInv

\* ListData::push that moves the content to a larger array preserves it.
LEMMA ListPushReallocInv ==
  ASSUME IInv, phase = "mutator", NEW r \in Root, NEW v \in arena \cup Frozen,
         NEW b \in Addr, ListPushRealloc(r, v, b)
  PROVE  IInv'
<1>. USE HeapAssumption DEF IInv, ListPushRealloc, FreeAddr
<1>1. TypeOK'
  <2>1. <<b>> \in Seq(Value) /\ Append(ListContent(root[r]), v) \in Seq(Value)
    BY RootList DEF Value, TypeOK
  <2>2. NewCapacity(Len(ListContent(root[r]))) \in Nat
    BY RootList DEF NewCapacity, NatMax
  <2>3. slots' \in [Addr -> Seq(Value)] /\ cap' \in [Addr -> Nat]
    BY <2>1, <2>2 DEF TypeOK
  <2>. QED BY <2>3 DEF TypeOK, Tag, Kind, Value
<1>2. Disjoint' /\ Quiet'
  BY DEF Disjoint, Quiet, TypeOK
<1>3. OldArena'
  <2>. DEFINE c == Append(ListContent(root[r]), v)
  <2>1. \A i \in DOMAIN c : c[i] \in arena \cup Frozen
    <3>. DEFINE lc == ListContent(root[r])
    <3>1. lc \in Seq(Value) /\ \A i \in DOMAIN lc : lc[i] \in arena \cup Frozen
      BY RootList
    <3>. HIDE DEF lc, IInv, ListPushRealloc
    <3>2. /\ DOMAIN Append(lc, v) = 1..(Len(lc) + 1) /\ DOMAIN lc = 1..Len(lc)
          /\ Append(lc, v)[Len(lc) + 1] = v
          /\ \A i \in 1..Len(lc) : Append(lc, v)[i] = lc[i]
      BY <3>1
    <3>3. \A i \in DOMAIN Append(lc, v) : Append(lc, v)[i] \in arena \cup Frozen
      BY <3>1, <3>2
    <3>. QED BY <3>3 DEF lc
  <2>2. /\ b \notin arena /\ root[r] \in arena /\ b # root[r]
        /\ slots' = [slots EXCEPT ![b] = c, ![root[r]] = <<b>>]
    BY RootList DEF TypeOK
  <2>3. \A a \in arena' : tag'[a] = "object"
    BY DEF OldArena, TypeOK
  <2>4. \A a \in arena' : slots'[a] = IF a = root[r] THEN <<b>> ELSE IF a = b THEN c ELSE slots[a]
    BY <2>2 DEF TypeOK
  <2>5. \A a \in arena' : \A i \in DOMAIN slots'[a] : slots'[a][i] \in arena' \cup Frozen
    <3>1. ASSUME NEW a \in arena', a # root[r], a # b
          PROVE  \A i \in DOMAIN slots'[a] : slots'[a][i] \in arena' \cup Frozen
      <4>1. a \in arena /\ slots'[a] = slots[a] /\ arena \subseteq arena'
        BY <2>4, <3>1
      <4>2. \A i \in DOMAIN slots[a] : slots[a][i] \in arena \cup Frozen
        BY <4>1 DEF OldArena
      <4>. HIDE DEF IInv, ListPushRealloc
      <4>. QED BY <4>1, <4>2
    <3>2. DOMAIN <<b>> = {1} /\ <<b>>[1] = b /\ arena' = arena \cup {b}
      OBVIOUS
    <3>3. \A i \in DOMAIN slots'[root[r]] : slots'[root[r]][i] \in arena' \cup Frozen
      BY <2>2, <2>4, <3>2
    <3>4. \A i \in DOMAIN slots'[b] : slots'[b][i] \in arena' \cup Frozen
      BY <2>1, <2>2, <2>4, <3>2
    <3>. QED BY <3>1, <3>3, <3>4
  <2>. QED BY <2>3, <2>5 DEF OldArena
<1>4. NewArenaClosed' /\ Frames'
  BY DEF NewArenaClosed, Frames, Quiet
<1>5. Roots'
  BY DEF Roots, TypeOK
<1>6. ListShape'
  BY DEF ListShape, IsArray, TypeOK
<1>7. NewListShape'
  BY DEF NewListShape, IsArray, Quiet
<1>. QED BY <1>1, <1>2, <1>3, <1>4, <1>5, <1>6, <1>7

\* ListData::clear preserves the invariant.
LEMMA ListClearInv ==
  ASSUME IInv, phase = "mutator", NEW r \in Root, ListClear(r)
  PROVE  IInv'
<1>1. <<>> \in Seq(Value) /\ \A i \in DOMAIN <<>> : <<>>[i] \in arena \cup Frozen
  OBVIOUS
<1>. QED BY <1>1, SetContentInv DEF ListClear

\* Array::set_at preserves the invariant.
LEMMA ListSetAtInv ==
  ASSUME IInv, phase = "mutator", NEW r \in Root, NEW i \in 1..MaxListLen,
         NEW v \in arena \cup Frozen, ListSetAt(r, i, v)
  PROVE  IInv'
<1>. DEFINE lc == ListContent(root[r])
            c  == [lc EXCEPT ![i] = v]
<1>1. lc \in Seq(Value) /\ i \in DOMAIN lc /\ \A j \in DOMAIN lc : lc[j] \in arena \cup Frozen
  BY RootList DEF ListSetAt
<1>2. v \in Value
  BY DEF IInv, TypeOK, Value
<1>3. ListArray(root[r]) # EmptyArray
  BY DEF ListSetAt, ListContent, ArrayContent, IInv, ListShape
<1>. HIDE DEF lc
<1>4. c \in Seq(Value) /\ \A j \in DOMAIN c : c[j] \in arena \cup Frozen
  BY <1>1, <1>2
<1>5. IsObj(root[r], "list") /\ SetContent(ListArray(root[r]), c)
  BY DEF ListSetAt, lc
<1>. HIDE DEF c
<1>. QED BY <1>3, <1>4, <1>5, SetContentInv

\* A list without its element i.
LEMMA Removed ==
  ASSUME NEW S, NEW s \in Seq(S), NEW i \in 1..Len(s)
  PROVE  LET t == SubSeq(s, 1, i - 1) \o SubSeq(s, i + 1, Len(s))
         IN  t \in Seq(S) /\ Len(t) = Len(s) - 1
<1>. DEFINE x == SubSeq(s, 1, i - 1)
            y == SubSeq(s, i + 1, Len(s))
<1>1. x \in Seq(S) /\ Len(x) = i - 1
  OBVIOUS
<1>2. y \in Seq(S) /\ Len(y) = Len(s) - i
  OBVIOUS
<1>. HIDE DEF x, y
<1>3. x \o y \in Seq(S) /\ Len(x \o y) = Len(x) + Len(y)
  BY <1>1, <1>2, ConcatProperties
<1>4. Len(x \o y) = Len(s) - 1
  BY <1>1, <1>2, <1>3
<1>. QED BY <1>3, <1>4 DEF x, y

\* ListData::remove preserves the invariant.
LEMMA ListRemoveInv ==
  ASSUME IInv, phase = "mutator", NEW r \in Root, NEW i \in 1..MaxListLen, ListRemove(r, i)
  PROVE  IInv'
<1>. DEFINE lc == ListContent(root[r])
            c  == SubSeq(lc, 1, i - 1) \o SubSeq(lc, i + 1, Len(lc))
            S  == arena \cup Frozen
<1>1. lc \in Seq(Value) /\ \A j \in DOMAIN lc : lc[j] \in S
  BY RootList DEF ListRemove
<1>2. i \in 1..Len(lc)
  BY DEF ListRemove
<1>3. ListArray(root[r]) # EmptyArray
  BY DEF ListRemove, ListContent, ArrayContent, IInv, ListShape
<1>. HIDE DEF lc, S
<1>4. lc \in Seq(S)
  BY <1>1
<1>5. c \in Seq(Value) /\ c \in Seq(S)
  BY <1>1, <1>2, <1>4, Removed
<1>6. IsObj(root[r], "list") /\ SetContent(ListArray(root[r]), c)
  BY DEF ListRemove, lc
<1>. HIDE DEF c
<1>7. \A j \in DOMAIN c : c[j] \in S
  BY <1>5
<1>. QED BY <1>3, <1>5, <1>6, <1>7, SetContentInv DEF S

\* The mutation of a complex value in place preserves the invariant.
LEMMA SetFieldInv ==
  ASSUME IInv, phase = "mutator", NEW r \in Root, NEW i \in 1..MaxLen, NEW v \in arena \cup Frozen,
         SetField(r, i, v)
  PROVE  IInv'
<1>. USE HeapAssumption DEF IInv, SetField, IsObj
<1>1. TypeOK'
  BY DEF TypeOK, Tag, Kind, Value
<1>2. Disjoint' /\ Quiet'
  BY DEF Disjoint, Quiet, TypeOK
<1>3. OldArena'
  BY DEF OldArena, TypeOK, Quiet
<1>4. NewArenaClosed' /\ Frames'
  BY DEF NewArenaClosed, Frames, Quiet
<1>5. Roots'
  BY DEF Roots, TypeOK
<1>6. ListShape'
  BY DEF ListShape, IsArray, TypeOK
<1>7. NewListShape'
  BY DEF NewListShape, IsArray, Quiet
<1>. QED BY <1>1, <1>2, <1>3, <1>4, <1>5, <1>6, <1>7

\* Overwriting a slot or a local by a live value preserves the invariant.
LEMMA AssignRootInv ==
  ASSUME IInv, phase = "mutator", NEW r \in Root, NEW v \in Value, AssignRoot(r, v)
  PROVE  IInv'
<1>. USE HeapAssumption DEF IInv, AssignRoot, heapVars
<1>1. TypeOK'
  BY DEF TypeOK, Tag, Kind, Value
<1>2. Disjoint' /\ Quiet'
  BY DEF Disjoint, Quiet, TypeOK
<1>3. OldArena'
  BY DEF OldArena, TypeOK, Quiet
<1>4. NewArenaClosed' /\ Frames'
  BY DEF NewArenaClosed, Frames, Quiet
<1>5. Roots'
  <2>1. CASE v \in Held
    BY <2>1, HeldLive DEF Roots, TypeOK
  <2>2. ASSUME NEW s \in Root, NEW i \in DOMAIN Elems(root[s]), v = Elems(root[s])[i]
        PROVE  v \in arena \cup Frozen
    <3>1. root[s] \in arena /\ tag[root[s]] = "object"
      BY <2>2 DEF Elems, Roots, OldArena
    <3>2. CASE kind[root[s]] = "list"
      <4>1. IsObj(root[s], "list")
        BY <3>1, <3>2 DEF IsObj, TypeOK
      <4>2. v = ListContent(root[s])[i] /\ i \in DOMAIN ListContent(root[s])
        BY <2>2, <3>1, <3>2 DEF Elems, TypeOK
      <4>. QED BY <4>1, <4>2, RootList
    <3>3. CASE kind[root[s]] # "list"
      <4>1. v = slots[root[s]][i] /\ i \in DOMAIN slots[root[s]]
        BY <2>2, <3>1, <3>3 DEF Elems, TypeOK
      <4>. QED BY <3>1, <4>1 DEF OldArena
    <3>. QED BY <3>2, <3>3
  <2>3. v \in arena \cup Frozen
    BY <2>1, <2>2, HeldLive
  <2>. QED BY <2>3 DEF Roots, TypeOK
<1>6. ListShape'
  BY DEF ListShape, IsArray, TypeOK
<1>7. NewListShape'
  BY DEF NewListShape, IsArray, Quiet
<1>. QED BY <1>1, <1>2, <1>3, <1>4, <1>5, <1>6, <1>7

\* The start of garbage_collect_internal establishes the tracing part of it.
LEMMA GcStartInv ==
  ASSUME IInv, GcStart
  PROVE  IInv'
<1>. USE HeapAssumption DEF IInv, GcStart, TracedCells
<1>1. TypeOK'
  BY DEF TypeOK, Tag, Kind, Value, Snapshot
<1>2. Disjoint' /\ Quiet'
  BY DEF Disjoint, Quiet, TypeOK
<1>3. OldArena'
  BY DEF OldArena, TypeOK, Quiet
<1>4. NewArenaClosed' /\ Frames'
  BY DEF NewArenaClosed, Frames, Quiet
<1>5. Roots'
  BY DEF Roots, TypeOK
<1>6. ListShape'
  BY DEF ListShape, IsArray, TypeOK
<1>7. NewListShape'
  BY DEF NewListShape, IsArray, Quiet
<1>. QED BY <1>1, <1>2, <1>3, <1>4, <1>5, <1>6, <1>7

\* What Tracer::adjust returns without copying belongs to the new arena.
LEMMA AdjustedLive ==
  ASSUME IInv, phase = "tracing", NEW v \in arena \cup Frozen, Settled(v)
  PROVE  /\ AdjustSettled(v) \in newArena \cup Frozen
         /\ IsArray(Addr, v) => IsArray(newArena, AdjustSettled(v))
<1>. USE HeapAssumption
<1>1. CASE v \in Frozen
  BY <1>1 DEF AdjustSettled, IsArray
<1>2. CASE v \notin Frozen /\ tag[v] = "forward"
  <2>1. fwd[v] \in newArena /\ kind[fwd[v]] = kind[v]
    BY <1>2 DEF IInv, OldArena
  <2>. QED BY <1>2, <2>1 DEF AdjustSettled, IsArray
<1>3. CASE v \notin Frozen /\ tag[v] # "forward"
  BY <1>3 DEF AdjustSettled, IsArray
<1>. QED BY <1>1, <1>2, <1>3

\* Tracer::trace of a root whose object is already copied preserves it.
LEMMA TraceRootInv ==
  ASSUME IInv, NEW r \in Root, TraceRoot(r)
  PROVE  IInv'
<1>. USE HeapAssumption DEF IInv, TraceRoot, heapVars
<1>0. root[r] \in arena \cup Frozen /\ AdjustSettled(root[r]) \in newArena \cup Frozen
  BY AdjustedLive DEF Roots
<1>1. TypeOK'
  BY <1>0 DEF TypeOK, Value
<1>2. Disjoint' /\ Quiet' /\ OldArena' /\ NewArenaClosed' /\ Frames'
  BY DEF Disjoint, Quiet, OldArena, NewArenaClosed, Frames
<1>3. Roots'
  BY <1>0 DEF Roots, TypeOK
<1>4. ListShape' /\ NewListShape'
  BY DEF ListShape, NewListShape, IsArray
<1>. QED BY <1>1, <1>2, <1>3, <1>4

\* A copy started by heap_copy, from a root or from a field.
LEMMA CopyLeafInv ==
  ASSUME IInv, phase = "tracing", NEW v \in arena, NEW n \in Addr, CopyLeaf(v, n),
         UNCHANGED <<root, phase, pending, before>>
  PROVE  IInv'
<1>. USE HeapAssumption DEF IInv, CopyLeaf, FreeAddr
<1>0. n \notin arena /\ n \notin newArena /\ n # v
  OBVIOUS
<1>1. TypeOK'
  <2>1. /\ tag' \in [Addr -> Tag] /\ kind' \in [Addr -> Kind]
        /\ slots' \in [Addr -> Seq(Value)] /\ fwd' \in [Addr -> Value]
    <3>1. tag' \in [Addr -> Tag]
      BY DEF TypeOK, Tag
    <3>2. kind' \in [Addr -> Kind]
      BY DEF TypeOK
    <3>3. slots' \in [Addr -> Seq(Value)]
      BY DEF TypeOK
    <3>4. fwd' \in [Addr -> Value]
      BY DEF TypeOK, Value
    <3>. QED BY <3>1, <3>2, <3>3, <3>4
  <2>2. /\ arena' \subseteq Addr /\ newArena' \subseteq Addr
        /\ cap' \in [Addr -> Nat] /\ root' \in [Root -> Value]
        /\ phase' \in {"mutator", "tracing"} /\ pending' \subseteq Root
        /\ stack' \in Seq(Frame) /\ before' \in Snapshot
    BY DEF TypeOK
  <2>. QED BY <2>1, <2>2 DEF TypeOK
<1>2. Disjoint' /\ Quiet'
  BY DEF Disjoint, Quiet
<1>3. OldArena'
  BY <1>0 DEF OldArena, TypeOK
<1>4. NewArenaClosed'
  <2>1. tag'[n] = "object" /\ slots'[n] = <<>>
    BY <1>0 DEF TypeOK
  <2>2. ASSUME NEW m \in newArena
        PROVE  tag'[m] = tag[m] /\ slots'[m] = slots[m]
    BY <1>0, <2>2 DEF TypeOK, Disjoint
  <2>3. newArena' = newArena \cup {n} /\ stack' = stack
    OBVIOUS
  <2>4. ASSUME NEW m \in newArena
        PROVE  \/ /\ tag'[m] = "object"
                  /\ \A i \in DOMAIN slots'[m] : slots'[m][i] \in newArena' \cup Frozen
               \/ /\ tag'[m] = "blackHole"
                  /\ \E k \in DOMAIN stack' : stack'[k].new = m
    <3>1. NewArenaClosed /\ phase = "tracing"
      OBVIOUS
    <3>. HIDE DEF IInv, CopyLeaf, FreeAddr
    <3>2. newArena \cup Frozen \subseteq newArena' \cup Frozen
      BY <2>3
    <3>3. CASE tag[m] = "object"
      BY <2>2, <3>1, <3>2, <3>3 DEF NewArenaClosed
    <3>4. CASE tag[m] # "object"
      BY <2>2, <2>3, <3>1, <3>4 DEF NewArenaClosed
    <3>. QED BY <3>3, <3>4
  <2>. HIDE DEF IInv, CopyLeaf, FreeAddr
  <2>. QED BY <2>1, <2>3, <2>4 DEF NewArenaClosed
<1>5. Frames'
  BY <1>0 DEF Frames, TypeOK, Disjoint
<1>6. Roots'
  BY DEF Roots
<1>7. ListShape'
  BY <1>0 DEF ListShape, IsArray, TypeOK
<1>8. NewListShape'
  BY <1>0 DEF NewListShape, IsArray, TypeOK, Frames, Disjoint
<1>. QED BY <1>1, <1>2, <1>3, <1>4, <1>5, <1>6, <1>7, <1>8

\* heap_copy up to its first recursive call preserves the invariant.
LEMMA CopyFieldsInv ==
  ASSUME IInv, phase = "tracing", NEW v \in arena, NEW n \in Addr, CopyFields(v, n),
         UNCHANGED <<root, phase, pending, before>>
  PROVE  IInv'
<1>. USE HeapAssumption DEF IInv, CopyFields, FreeAddr, Payload
<1>. DEFINE f == [new |-> n, fields |-> slots[v], next |-> 1]
<1>0. n \notin arena /\ n \notin newArena /\ n # v /\ v \in Addr
  BY DEF TypeOK
<1>1. f \in Frame /\ stack' = Append(stack, f)
  BY DEF TypeOK, Frame
<1>2. /\ stack' \in Seq(Frame)
      /\ DOMAIN stack' = 1..(Len(stack) + 1)
      /\ \A k \in DOMAIN stack : stack'[k] = stack[k] /\ k \in DOMAIN stack' /\ k # Len(stack) + 1
      /\ stack'[Len(stack) + 1] = f
  BY <1>1 DEF TypeOK
<1>3. /\ tag' = [tag EXCEPT ![n] = "blackHole", ![v] = "forward"]
      /\ tag'[n] = "blackHole" /\ kind'[n] = kind[v]
      /\ \A m \in newArena : tag'[m] = tag[m] /\ slots'[m] = slots[m] /\ kind'[m] = kind[m]
      /\ \A a \in arena : kind'[a] = kind[a]
  BY <1>0 DEF TypeOK, Disjoint
<1>4. TypeOK'
  <2>1. /\ tag' \in [Addr -> Tag] /\ kind' \in [Addr -> Kind]
        /\ slots' \in [Addr -> Seq(Value)] /\ fwd' \in [Addr -> Value]
    <3>1. tag' \in [Addr -> Tag]
      BY <1>0 DEF TypeOK, Tag
    <3>2. kind' \in [Addr -> Kind]
      BY <1>0 DEF TypeOK
    <3>3. slots' \in [Addr -> Seq(Value)]
      <4>1. <<>> \in Seq(Value) /\ slots \in [Addr -> Seq(Value)]
        BY DEF TypeOK
      <4>2. slots' = [slots EXCEPT ![v] = <<>>, ![n] = <<>>]
        OBVIOUS
      <4>. HIDE DEF IInv, CopyFields
      <4>. QED BY <1>0, <4>1, <4>2
    <3>4. fwd' \in [Addr -> Value]
      BY <1>0 DEF TypeOK, Value
    <3>. QED BY <3>1, <3>2, <3>3, <3>4
  <2>2. cap' \in [Addr -> Nat]
    BY <1>0 DEF TypeOK
  <2>3. /\ arena' \subseteq Addr /\ newArena' \subseteq Addr
        /\ root' \in [Root -> Value]
        /\ phase' \in {"mutator", "tracing"} /\ pending' \subseteq Root
        /\ before' \in Snapshot
    BY DEF TypeOK
  <2>. QED BY <1>2, <2>1, <2>2, <2>3 DEF TypeOK
<1>5. Disjoint' /\ Quiet'
  BY <1>0 DEF Disjoint, Quiet
<1>6. OldArena'
  BY <1>0, <1>3 DEF OldArena, TypeOK
<1>7. NewArenaClosed'
  <2>1. n \in newArena' /\ \E k \in DOMAIN stack' : stack'[k].new = n
    BY <1>2
  <2>2. ASSUME NEW m \in newArena
        PROVE  \/ /\ tag'[m] = "object"
                  /\ \A i \in DOMAIN slots'[m] : slots'[m][i] \in newArena' \cup Frozen
               \/ /\ tag'[m] = "blackHole"
                  /\ \E k \in DOMAIN stack' : stack'[k].new = m
    <3>1. tag'[m] = tag[m] /\ slots'[m] = slots[m] /\ newArena \subseteq newArena'
      BY <1>3
    <3>2. (\E k \in DOMAIN stack : stack[k].new = m) => \E k \in DOMAIN stack' : stack'[k].new = m
      BY <1>2
    <3>3. NewArenaClosed /\ phase = "tracing"
      OBVIOUS
    <3>. HIDE DEF IInv, CopyFields, FreeAddr
    <3>4. CASE tag[m] = "object"
      BY <3>1, <3>3, <3>4 DEF NewArenaClosed
    <3>5. CASE tag[m] # "object"
      BY <3>1, <3>2, <3>3, <3>5 DEF NewArenaClosed
    <3>. QED BY <3>4, <3>5
  <2>3. newArena' = newArena \cup {n}
    OBVIOUS
  <2>. HIDE DEF IInv, CopyFields, FreeAddr
  <2>. QED BY <1>3, <2>1, <2>2, <2>3 DEF NewArenaClosed
<1>8. Frames'
  <2>1. \A i \in DOMAIN slots[v] : slots[v][i] \in arena \cup Frozen
    BY DEF OldArena
  <2>2. 1 \in 1..(Len(slots[v]) + 1)
    BY <1>0 DEF TypeOK
  <2>3. \A k \in DOMAIN stack : stack[k].new # n
    BY <1>0 DEF Frames
  <2>4. ASSUME NEW k \in DOMAIN stack
        PROVE  /\ stack'[k].new \in newArena'
               /\ tag'[stack'[k].new] = "blackHole"
               /\ stack'[k].next \in 1..(Len(stack'[k].fields) + 1)
               /\ \A i \in DOMAIN stack'[k].fields : stack'[k].fields[i] \in
                     (IF i < stack'[k].next THEN newArena' ELSE arena') \cup Frozen
               /\ \A m \in DOMAIN stack' : stack'[k].new = stack'[m].new => k = m
    <3>1. Frames /\ newArena' = newArena \cup {n} /\ arena' = arena
      OBVIOUS
    <3>2. stack'[k] = stack[k]
      BY <1>2
    <3>3. ASSUME NEW m \in DOMAIN stack', stack'[k].new = stack'[m].new
          PROVE  k = m
      <4>1. m # Len(stack) + 1
        BY <1>2, <2>3, <3>2, <3>3
      <4>2. m \in DOMAIN stack /\ stack'[m] = stack[m]
        BY <1>2, <4>1 DEF TypeOK
      <4>. HIDE DEF IInv, CopyFields, FreeAddr, f
      <4>. QED BY <3>1, <3>2, <3>3, <4>2 DEF Frames
    <3>. HIDE DEF IInv, CopyFields, FreeAddr, f
    <3>4. /\ stack[k].new \in newArena
          /\ tag[stack[k].new] = "blackHole"
          /\ stack[k].next \in 1..(Len(stack[k].fields) + 1)
          /\ \A i \in DOMAIN stack[k].fields : stack[k].fields[i] \in
                (IF i < stack[k].next THEN newArena ELSE arena) \cup Frozen
      BY <3>1 DEF Frames
    <3>5. tag'[stack[k].new] = "blackHole" /\ stack[k].new \in newArena'
      BY <1>3, <3>1, <3>4
    <3>6. \A i \in DOMAIN stack[k].fields : stack[k].fields[i] \in
             (IF i < stack[k].next THEN newArena' ELSE arena') \cup Frozen
      BY <3>1, <3>4
    <3>. QED BY <3>2, <3>3, <3>4, <3>5, <3>6
  <2>5. /\ f.new \in newArena'
        /\ tag'[f.new] = "blackHole"
        /\ f.next \in 1..(Len(f.fields) + 1)
        /\ \A i \in DOMAIN f.fields : f.fields[i] \in
              (IF i < f.next THEN newArena' ELSE arena') \cup Frozen
        /\ \A m \in DOMAIN stack' : f.new = stack'[m].new => Len(stack) + 1 = m
    BY <1>0, <1>2, <1>3, <2>1, <2>2, <2>3 DEF TypeOK
  <2>6. DOMAIN stack' = DOMAIN stack \cup {Len(stack) + 1}
    BY <1>2 DEF TypeOK
  <2>. HIDE DEF IInv, CopyFields, FreeAddr, f
  <2>. QED BY <1>2, <2>4, <2>5, <2>6 DEF Frames
<1>9. Roots'
  BY DEF Roots
<1>10. ListShape'
  BY <1>0, <1>3 DEF ListShape, IsArray, TypeOK
<1>11. NewListShape'
  <2>1. (\A a \in newArena : tag[a] = "object" /\ kind[a] = "list" =>
            Len(slots[a]) = 1 /\ IsArray(newArena, slots[a][1]))'
    <3>1. NewListShape /\ newArena' = newArena \cup {n}
      OBVIOUS
    <3>. HIDE DEF IInv, CopyFields, FreeAddr
    <3>2. ASSUME NEW a \in newArena, tag'[a] = "object", kind'[a] = "list"
          PROVE  /\ Len(slots'[a]) = 1
                 /\ \/ slots'[a][1] = EmptyArray
                    \/ slots'[a][1] \in newArena /\ kind'[slots'[a][1]] = "array"
      BY <1>3, <3>1, <3>2 DEF NewListShape, IsArray
    <3>. QED BY <1>3, <3>1, <3>2 DEF IsArray
  <2>2. kind[v] = "list" => Len(slots[v]) = 1 /\ IsArray(arena, slots[v][1])
    BY DEF ListShape
  <2>3. kind'[f.new] = "list" =>
          /\ Len(f.fields) = 1
          /\ f.fields[1] = EmptyArray \/ (f.fields[1] \in Addr /\ kind'[f.fields[1]] = "array")
    BY <1>0, <1>3, <2>2 DEF IsArray, TypeOK
  <2>4. ASSUME NEW k \in DOMAIN stack, kind'[stack[k].new] = "list"
        PROVE  /\ Len(stack[k].fields) = 1
               /\ \/ stack[k].fields[1] = EmptyArray
                  \/ stack[k].fields[1] \in Addr /\ kind'[stack[k].fields[1]] = "array"
    <3>1. stack[k].new \in newArena
      BY DEF Frames
    <3>2. Len(stack[k].fields) = 1 /\ IsArray(Addr, stack[k].fields[1])
      BY <1>3, <2>4, <3>1 DEF NewListShape
    <3>3. stack[k].fields[1] \in newArena \cup arena \cup Frozen
      <4>1. stack[k].fields \in Seq(Value) /\ 1 \in DOMAIN stack[k].fields
        <5>1. stack[k] \in Frame
          BY DEF TypeOK
        <5>. QED BY <3>2, <5>1 DEF Frame
      <4>. QED BY <4>1 DEF Frames
    <3>. QED BY <1>3, <3>2, <3>3 DEF IsArray
  <2>5. ASSUME NEW k \in DOMAIN stack', kind'[stack'[k].new] = "list"
        PROVE  /\ Len(stack'[k].fields) = 1
               /\ \/ stack'[k].fields[1] = EmptyArray
                  \/ stack'[k].fields[1] \in Addr /\ kind'[stack'[k].fields[1]] = "array"
    <3>. HIDE DEF IInv, CopyFields, FreeAddr
    <3>1. CASE k = Len(stack) + 1
      BY <1>2, <2>3, <2>5, <3>1
    <3>2. CASE k # Len(stack) + 1
      <4>1. k \in DOMAIN stack
        BY <1>2, <3>2, <2>5 DEF IInv, TypeOK
      <4>. QED BY <1>2, <2>4, <2>5, <4>1
    <3>. QED BY <3>1, <3>2
  <2>. HIDE DEF IInv, CopyFields, FreeAddr, f
  <2>. QED BY <2>1, <2>5 DEF NewListShape, IsArray
<1>. QED BY <1>4, <1>5, <1>6, <1>7, <1>8, <1>9, <1>10, <1>11

\* Tracer::trace of a root that has first to be copied preserves it.
LEMMA CopyRootInv ==
  ASSUME IInv, NEW r \in Root, NEW n \in Addr, CopyRoot(r, n)
  PROVE  IInv'
<1>1. root[r] \in arena
  BY HeapAssumption DEF IInv, Roots, CopyRoot, Settled
<1>. QED BY <1>1, CopyLeafInv, CopyFieldsInv DEF CopyRoot, CopyValue

\* The innermost frame.
LEMMA TopFrame ==
  ASSUME IInv, stack # <<>>
  PROVE  /\ Len(stack) \in DOMAIN stack
         /\ DOMAIN stack = 1..Len(stack)
         /\ Top \in Frame
         /\ Top = stack[Len(stack)]
         /\ \A i \in DOMAIN Top.fields :
               Top.fields[i] \in (IF i < Top.next THEN newArena ELSE arena) \cup Frozen
         /\ Top.next \in 1..(Len(Top.fields) + 1)
         /\ DOMAIN Top.fields = 1..Len(Top.fields)
<1>1. Len(stack) \in DOMAIN stack /\ DOMAIN stack = 1..Len(stack) /\ Top \in Frame
  BY DEF IInv, TypeOK, Top
<1>2. DOMAIN Top.fields = 1..Len(Top.fields)
  BY <1>1 DEF Frame
<1>. QED BY <1>1, <1>2 DEF IInv, Frames, Top

\* Tracer::trace of a field that has first to be copied preserves it.
LEMMA CopyFieldInv ==
  ASSUME IInv, NEW n \in Addr, CopyField(n)
  PROVE  IInv'
<1>1. Top.fields[Top.next] \in arena
  <2>1. Top.next \in DOMAIN Top.fields /\ stack # <<>>
    BY TopFrame DEF CopyField
  <2>2. Top.fields[Top.next] \in arena \cup Frozen
    BY <2>1, TopFrame
  <2>. QED BY <2>2, HeapAssumption DEF CopyField, Settled
<1>2. phase = "tracing" /\ UNCHANGED <<root, phase, pending, before>>
  BY DEF CopyField
<1>. QED BY <1>1, <1>2, CopyLeafInv, CopyFieldsInv DEF CopyField, CopyValue

\* Tracer::trace of a field whose object is already copied preserves it.
LEMMA TraceFieldInv ==
  ASSUME IInv, TraceField
  PROVE  IInv'
<1>. DEFINE v == Top.fields[Top.next]
            w == AdjustSettled(v)
            g == [new    |-> Top.new,
                  fields |-> [Top.fields EXCEPT ![Top.next] = w],
                  next   |-> Top.next + 1]
<1>1. /\ phase = "tracing" /\ stack # <<>> /\ Top.next <= Len(Top.fields)
      /\ Settled(v)
      /\ UNCHANGED <<arena, newArena, tag, kind, slots, cap, fwd, emptyArray, root, phase, pending, before>>
  BY DEF TraceField, heapVars
<1>2. /\ v \in arena \cup Frozen /\ Top.next \in DOMAIN Top.fields
  BY <1>1, TopFrame
<1>3. /\ w \in newArena \cup Frozen
      /\ IsArray(Addr, v) => IsArray(newArena, w)
  BY <1>1, <1>2, AdjustedLive
<1>4. stack' = [stack EXCEPT ![Len(stack)] = g]
  BY DEF TraceField, FieldAfter
<1>5. /\ g \in Frame /\ g.new = Top.new
      /\ g.next = Top.next + 1 /\ DOMAIN g.fields = DOMAIN Top.fields
      /\ Len(g.fields) = Len(Top.fields)
      /\ g.fields[Top.next] = w
      /\ \A i \in DOMAIN Top.fields : i # Top.next => g.fields[i] = Top.fields[i]
  <2>1. w \in Value
    BY <1>3 DEF IInv, TypeOK, Value
  <2>2. Top.fields \in Seq(Value) /\ Top.next \in Nat /\ Top.new \in Addr
    BY <1>1, TopFrame DEF Frame
  <2>3. [Top.fields EXCEPT ![Top.next] = w] \in Seq(Value)
    BY <1>2, <2>1, <2>2
  <2>. QED BY <1>1, <1>2, <2>1, <2>2, <2>3, TopFrame DEF Frame
<1>6. /\ stack' \in Seq(Frame) /\ DOMAIN stack' = DOMAIN stack /\ Len(stack') = Len(stack)
      /\ stack'[Len(stack)] = g
      /\ \A k \in DOMAIN stack : k # Len(stack) => stack'[k] = stack[k]
      /\ \A k \in DOMAIN stack : stack'[k].new = stack[k].new
  <2>. HIDE DEF g
  <2>. QED BY <1>1, <1>4, <1>5, TopFrame DEF IInv, TypeOK
<1>7. TypeOK'
  BY <1>1, <1>6 DEF IInv, TypeOK
<1>8. Disjoint' /\ Quiet' /\ OldArena' /\ Roots' /\ ListShape'
  BY <1>1 DEF IInv, Disjoint, Quiet, OldArena, Roots, ListShape, IsArray
<1>9. NewArenaClosed'
  BY <1>1, <1>6 DEF IInv, NewArenaClosed
<1>10. Frames'
  <2>1. \A i \in DOMAIN g.fields :
           g.fields[i] \in (IF i < g.next THEN newArena ELSE arena) \cup Frozen
    <3>1. ASSUME NEW i \in DOMAIN g.fields
          PROVE  g.fields[i] \in (IF i < g.next THEN newArena ELSE arena) \cup Frozen
      <4>1. i \in Nat /\ Top.next \in Nat
        BY <1>1, <1>5, TopFrame
      <4>2. CASE i = Top.next
        BY <1>3, <1>5, <4>1, <4>2
      <4>3. CASE i # Top.next
        <5>1. g.fields[i] = Top.fields[i] /\ i \in DOMAIN Top.fields
          BY <1>5, <4>3
        <5>2. g.fields[i] \in (IF i < Top.next THEN newArena ELSE arena) \cup Frozen
          BY <1>1, <5>1, TopFrame
        <5>3. i < Top.next <=> i < g.next
          BY <1>5, <4>1, <4>3
        <5>. HIDE DEF g
        <5>. QED BY <5>2, <5>3
      <4>. QED BY <4>2, <4>3
    <3>. QED BY <3>1
  <2>2. g.next \in 1..(Len(g.fields) + 1)
    BY <1>1, <1>5, TopFrame DEF Frame
  <2>. HIDE DEF g
  <2>3. ASSUME NEW k \in DOMAIN stack
        PROVE  /\ stack'[k].next \in 1..(Len(stack'[k].fields) + 1)
               /\ \A i \in DOMAIN stack'[k].fields : stack'[k].fields[i] \in
                     (IF i < stack'[k].next THEN newArena ELSE arena) \cup Frozen
    BY <1>6, <2>1, <2>2, <2>3 DEF IInv, Frames
  <2>. QED BY <1>1, <1>6, <2>3 DEF IInv, Frames
<1>11. NewListShape'
  <2>1. ASSUME kind[Top.new] = "list"
        PROVE  Len(g.fields) = 1 /\ IsArray(Addr, g.fields[1])
    <3>1. Len(Top.fields) = 1 /\ IsArray(Addr, Top.fields[1])
      BY <1>1, <2>1, TopFrame DEF IInv, NewListShape
    <3>2. Top.next = 1
      BY <1>1, <3>1, TopFrame
    <3>3. newArena \subseteq Addr
      BY DEF IInv, TypeOK
    <3>. QED BY <1>3, <1>5, <3>1, <3>2, <3>3 DEF IsArray
  <2>. HIDE DEF g
  <2>2. ASSUME NEW k \in DOMAIN stack, kind[stack[k].new] = "list"
        PROVE  Len(stack'[k].fields) = 1 /\ IsArray(Addr, stack'[k].fields[1])
    <3>1. CASE k = Len(stack)
      BY <1>1, <1>6, <2>1, <2>2, <3>1, TopFrame
    <3>2. CASE k # Len(stack)
      BY <1>6, <2>2, <3>2 DEF IInv, NewListShape
    <3>. QED BY <3>1, <3>2
  <2>. QED BY <1>1, <1>6, <2>2 DEF IInv, NewListShape, IsArray
<1>. QED BY <1>7, <1>8, <1>9, <1>10, <1>11 DEF IInv

\* Reservation::fill preserves the invariant.
LEMMA FillInv ==
  ASSUME IInv, Fill
  PROVE  IInv'
<1>. DEFINE n == Top.new
<1>1. /\ phase = "tracing" /\ stack # <<>> /\ Top.next > Len(Top.fields)
      /\ tag' = [tag EXCEPT ![n] = "object"]
      /\ slots' = [slots EXCEPT ![n] = Top.fields]
      /\ stack' = SubSeq(stack, 1, Len(stack) - 1)
      /\ UNCHANGED <<arena, newArena, kind, cap, fwd, emptyArray, root, phase, pending, before>>
  BY DEF Fill
<1>2. /\ n \in newArena /\ n \in Addr /\ n \notin arena
      /\ Top.fields \in Seq(Value)
  BY <1>1, TopFrame DEF IInv, Frames, Frame, Disjoint
<1>3. /\ stack' \in Seq(Frame)
      /\ DOMAIN stack' = 1..(Len(stack) - 1)
      /\ \A k \in DOMAIN stack' : k \in DOMAIN stack /\ k # Len(stack) /\ stack'[k] = stack[k]
      /\ \A k \in DOMAIN stack : k # Len(stack) => k \in DOMAIN stack'
  BY <1>1, TopFrame DEF IInv, TypeOK
<1>4. /\ tag'[n] = "object" /\ slots'[n] = Top.fields
      /\ \A a \in Addr : a # n => tag'[a] = tag[a] /\ slots'[a] = slots[a]
  BY <1>1, <1>2 DEF IInv, TypeOK
<1>5. \A k \in DOMAIN stack : stack[k].new = n => k = Len(stack)
  BY <1>1, TopFrame DEF IInv, Frames
<1>6. TypeOK'
  <2>1. tag' \in [Addr -> Tag] /\ slots' \in [Addr -> Seq(Value)]
    BY <1>1, <1>2 DEF IInv, TypeOK, Tag
  <2>. QED BY <1>1, <1>3, <2>1 DEF IInv, TypeOK
<1>7. Disjoint' /\ Quiet' /\ Roots'
  BY <1>1 DEF IInv, Disjoint, Quiet, Roots
<1>8. OldArena' /\ ListShape'
  BY <1>1, <1>2, <1>4 DEF IInv, OldArena, ListShape, IsArray, TypeOK
<1>9. \A i \in DOMAIN Top.fields : Top.fields[i] \in newArena \cup Frozen
  BY <1>1, TopFrame
<1>10. NewArenaClosed'
  <2>1. ASSUME NEW m \in newArena, m # n
        PROVE  \/ /\ tag'[m] = "object"
                  /\ \A i \in DOMAIN slots'[m] : slots'[m][i] \in newArena \cup Frozen
               \/ /\ tag'[m] = "blackHole"
                  /\ \E k \in DOMAIN stack' : stack'[k].new = m
    <3>1. tag'[m] = tag[m] /\ slots'[m] = slots[m]
      BY <1>4, <2>1 DEF IInv, TypeOK
    <3>2. CASE tag[m] = "object"
      BY <1>1, <3>1, <3>2 DEF IInv, NewArenaClosed
    <3>3. CASE tag[m] # "object"
      <4>1. PICK k \in DOMAIN stack : stack[k].new = m
        BY <1>1, <3>3 DEF IInv, NewArenaClosed
      <4>2. k # Len(stack)
        BY <2>1, <4>1 DEF Top
      <4>3. k \in DOMAIN stack' /\ stack'[k].new = m
        BY <1>3, <4>1, <4>2
      <4>. QED BY <1>1, <3>1, <3>3, <4>3 DEF IInv, NewArenaClosed
    <3>. QED BY <3>2, <3>3
  <2>. QED BY <1>1, <1>4, <1>9, <2>1 DEF NewArenaClosed
<1>11. Frames'
  <2>1. ASSUME NEW k \in DOMAIN stack'
        PROVE  /\ stack'[k] = stack[k] /\ k \in DOMAIN stack
               /\ tag'[stack[k].new] = "blackHole"
    <3>1. stack[k].new # n /\ k \in DOMAIN stack /\ stack'[k] = stack[k]
      BY <1>3, <1>5
    <3>. QED BY <1>4, <3>1 DEF IInv, Frames, TypeOK
  <2>. QED BY <1>1, <2>1 DEF IInv, Frames
<1>12. NewListShape'
  <2>1. ASSUME kind[n] = "list"
        PROVE  Len(Top.fields) = 1 /\ IsArray(newArena, Top.fields[1])
    <3>1. Len(Top.fields) = 1 /\ IsArray(Addr, Top.fields[1])
      BY <1>1, <2>1, TopFrame DEF IInv, NewListShape
    <3>2. Top.fields[1] \in newArena \cup Frozen
      BY <1>1, <1>9, <3>1, TopFrame
    <3>. QED BY <3>1, <3>2, HeapAssumption DEF IsArray
  <2>2. ASSUME NEW a \in newArena, tag'[a] = "object", kind[a] = "list"
        PROVE  Len(slots'[a]) = 1 /\ IsArray(newArena, slots'[a][1])
    BY <1>4, <2>1, <2>2 DEF IInv, NewListShape, TypeOK
  <2>3. ASSUME NEW k \in DOMAIN stack', kind[stack'[k].new] = "list"
        PROVE  Len(stack'[k].fields) = 1 /\ IsArray(Addr, stack'[k].fields[1])
    BY <1>3, <2>3 DEF IInv, NewListShape
  <2>. QED BY <1>1, <2>2, <2>3 DEF NewListShape, IsArray
<1>. QED BY <1>6, <1>7, <1>8, <1>10, <1>11, <1>12 DEF IInv

\* The old arena is dropped: the mutator part of the invariant holds again.
LEMMA GcFinishInv ==
  ASSUME IInv, GcFinish
  PROVE  IInv'
<1>. USE HeapAssumption DEF GcFinish, Survivors
<1>1. \A m \in newArena : /\ tag[m] = "object"
                          /\ \A i \in DOMAIN slots[m] : slots[m][i] \in newArena \cup Frozen
  BY DEF IInv, NewArenaClosed
<1>2. /\ arena' = newArena /\ newArena' = {}
      /\ \A m \in newArena : tag'[m] = tag[m] /\ slots'[m] = slots[m] /\ kind'[m] = kind[m]
  BY DEF IInv, TypeOK
<1>3. TypeOK'
  <2>1. tag' \in [Addr -> Tag] /\ kind' \in [Addr -> Kind]
    BY DEF IInv, TypeOK, Tag, Kind
  <2>2. slots' \in [Addr -> Seq(Value)]
    BY DEF IInv, TypeOK
  <2>3. cap' \in [Addr -> Nat] /\ fwd' \in [Addr -> Value]
    BY DEF IInv, TypeOK, Value
  <2>4. before' \in Snapshot
    BY DEF Snapshot, NoSnapshot, Kind, Value
  <2>. QED BY <2>1, <2>2, <2>3, <2>4 DEF IInv, TypeOK
<1>4. Disjoint' /\ Quiet' /\ NewArenaClosed' /\ Frames' /\ NewListShape'
  BY <1>2 DEF Disjoint, Quiet, NewArenaClosed, Frames, NewListShape
<1>5. OldArena'
  BY <1>1, <1>2 DEF OldArena
<1>6. Roots'
  BY <1>2 DEF IInv, Roots
<1>7. ListShape'
  <2>1. ASSUME NEW m \in newArena, kind[m] = "list"
        PROVE  Len(slots[m]) = 1 /\ IsArray(newArena, slots[m][1])
    BY <1>1, <2>1 DEF IInv, NewListShape
  <2>2. ASSUME NEW m \in newArena, kind[m] = "list"
        PROVE  /\ Len(slots'[m]) = 1
               /\ \/ slots'[m][1] = EmptyArray
                  \/ slots'[m][1] \in newArena /\ kind'[slots'[m][1]] = "array"
    <3>1. slots'[m] = slots[m] /\ \A k \in newArena : kind'[k] = kind[k]
      BY <1>2
    <3>. HIDE DEF GcFinish
    <3>. QED BY <2>1, <2>2, <3>1 DEF IsArray
  <2>3. emptyArray' = <<>>
    BY DEF IInv, ListShape
  <2>. HIDE DEF GcFinish
  <2>. QED BY <1>2, <2>2, <2>3 DEF ListShape, IsArray
<1>. QED BY <1>3, <1>4, <1>5, <1>6, <1>7 DEF IInv

\* Every step of the mutator preserves the invariant.
LEMMA MutateInv ==
  ASSUME IInv, Mutate
  PROVE  IInv'
<1>1. phase = "mutator"
  BY DEF Mutate
<1>2. PICK r \in Root :
        \/ \E a \in Addr : AllocLeaf(r, a)
        \/ \E a \in Addr, elems \in SeqsOfHeld(MaxLen) : AllocFields(r, a, elems)
        \/ \E a \in Addr : AllocEmptyList(r, a)
        \/ \E a, b \in Addr, elems \in SeqsOfHeld(MaxListLen) : AllocList(r, a, b, elems)
        \/ \E v \in Held : ListPushInPlace(r, v)
        \/ \E v \in Held, b \in Addr : ListPushRealloc(r, v, b)
        \/ ListClear(r)
        \/ \E i \in 1..MaxListLen, v \in Held : ListSetAt(r, i, v)
        \/ \E i \in 1..MaxListLen : ListRemove(r, i)
        \/ \E i \in 1..MaxLen, v \in Held : SetField(r, i, v)
        \/ \E v \in Value : AssignRoot(r, v)
  BY DEF Mutate
<1>3. MaxLen \in Nat /\ MaxListLen \in Nat
  BY HeapAssumption
<1>4. CASE \E a \in Addr : AllocLeaf(r, a)
  BY <1>1, <1>4, AllocLeafInv
<1>5. CASE \E a \in Addr, elems \in SeqsOfHeld(MaxLen) : AllocFields(r, a, elems)
  BY <1>1, <1>3, <1>5, SeqsLive, AllocFieldsInv
<1>6. CASE \E a \in Addr : AllocEmptyList(r, a)
  BY <1>1, <1>6, AllocEmptyListInv
<1>7. CASE \E a, b \in Addr, elems \in SeqsOfHeld(MaxListLen) : AllocList(r, a, b, elems)
  BY <1>1, <1>3, <1>7, SeqsLive, AllocListInv
<1>8. CASE \E v \in Held : ListPushInPlace(r, v)
  BY <1>1, <1>8, HeldLive, ListPushInPlaceInv
<1>9. CASE \E v \in Held, b \in Addr : ListPushRealloc(r, v, b)
  BY <1>1, <1>9, HeldLive, ListPushReallocInv
<1>10. CASE ListClear(r)
  BY <1>1, <1>10, ListClearInv
<1>11. CASE \E i \in 1..MaxLen, v \in Held : SetField(r, i, v)
  BY <1>1, <1>11, HeldLive, SetFieldInv
<1>12. CASE \E v \in Value : AssignRoot(r, v)
  BY <1>1, <1>12, AssignRootInv
<1>13. CASE \E i \in 1..MaxListLen, v \in Held : ListSetAt(r, i, v)
  BY <1>1, <1>13, HeldLive, ListSetAtInv
<1>14. CASE \E i \in 1..MaxListLen : ListRemove(r, i)
  BY <1>1, <1>14, ListRemoveInv
<1>. QED BY <1>2, <1>4, <1>5, <1>6, <1>7, <1>8, <1>9, <1>10, <1>11, <1>12, <1>13, <1>14

\* Every step keeps the inductive invariant.
LEMMA NextIInv == IInv /\ [Next]_vars => IInv'
<1>. SUFFICES ASSUME IInv, [Next]_vars PROVE IInv'
  OBVIOUS
<1>1. CASE Mutate
  BY <1>1, MutateInv
<1>2. CASE GcStart
  BY <1>2, GcStartInv
<1>3. CASE \E r \in Root : TraceRoot(r) \/ \E n \in Addr : CopyRoot(r, n)
  BY <1>3, TraceRootInv, CopyRootInv
<1>4. CASE TraceField
  BY <1>4, TraceFieldInv
<1>5. CASE \E n \in Addr : CopyField(n)
  BY <1>5, CopyFieldInv
<1>6. CASE Fill
  BY <1>6, FillInv
<1>7. CASE GcFinish
  BY <1>7, GcFinishInv
<1>8. CASE UNCHANGED vars
  BY <1>8 DEF vars, heapVars, IInv, TypeOK, Disjoint, Quiet, OldArena, NewArenaClosed,
     Frames, Roots, ListShape, NewListShape, IsArray
<1>. QED BY <1>1, <1>2, <1>3, <1>4, <1>5, <1>6, <1>7, <1>8 DEF Next, Tracing

\* The invariant holds in every state of Heap and Tracer.
LEMMA SpecIInv == Spec => []IInv
  BY InitIInv, NextIInv, PTL DEF Spec

(* The types of the heap, the roots and the collection hold in every state *)
(* of Heap and Tracer.                                                     *)
THEOREM TypeCorrect == Spec => []TypeOK
<1>1. IInv => TypeOK
  BY DEF IInv
<1>. QED BY <1>1, SpecIInv, PTL

(* Between collections nothing refers to freed memory, a forward or a      *)
(* black hole, for every number of objects, roots and fields.              *)
THEOREM GcSafe == Spec => []NoDangling
<1>1. IInv => NoDangling
  BY DEF IInv, NoDangling, Live, Holds, OldArena, Roots, Quiet
<1>. QED BY <1>1, SpecIInv, PTL

(* While a collection runs, finished copies never point back into the      *)
(* arena that is about to be dropped.                                      *)
THEOREM CopiesClosed == Spec => []NewArenaClosed
<1>1. IInv => NewArenaClosed
  BY DEF IInv
<1>. QED BY <1>1, SpecIInv, PTL

-----------------------------------------------------------------------------
(* What a collection preserves.  First the effect of its steps, read off   *)
(* the actions once.                                                       *)

\* heap_copy of v into n up to its first recursive call.
Copied(v, n) ==
    /\ n \notin arena /\ n \notin newArena /\ n # v /\ v \in Addr
    /\ tag[v] = "object" /\ arena' = arena /\ newArena' = newArena \cup {n}
    /\ tag'[v] = "forward" /\ fwd'[v] = n /\ kind'[n] = kind[v] /\ slots'[n] = <<>>
    /\ \A a \in Addr : a # v => fwd'[a] = fwd[a]
    /\ \A a \in Addr : a # n => kind'[a] = kind[a] /\ cap'[a] = cap[a]
    /\ \A a \in Addr : a # n /\ a # v => tag'[a] = tag[a] /\ slots'[a] = slots[a]
    /\ \/ /\ kind[v] = "leaf" /\ tag'[n] = "object"
          /\ slots'[v] = slots[v] /\ cap'[n] = cap[n] /\ stack' = stack
       \/ /\ kind[v] # "leaf" /\ tag'[n] = "blackHole" /\ slots'[v] = <<>>
          /\ cap'[n] = IF kind[v] = "array" THEN Len(slots[v]) ELSE 0
          /\ stack' = Append(stack, [new |-> n, fields |-> slots[v], next |-> 1])
          /\ DOMAIN stack' = 1..(Len(stack) + 1)
          /\ \A k \in DOMAIN stack : stack'[k] = stack[k] /\ k \in DOMAIN stack'
          /\ stack'[Len(stack) + 1] = [new |-> n, fields |-> slots[v], next |-> 1]

LEMMA CopyEffect ==
  ASSUME IInv, phase = "tracing", NEW v \in arena, NEW n \in Addr, CopyValue(v, n)
  PROVE  Copied(v, n)
<1>0. v \in Addr /\ TypeOK
  BY DEF IInv, TypeOK
<1>1. CASE CopyLeaf(v, n)
  <2>1. n \notin arena /\ n \notin newArena /\ n # v /\ tag[v] = "object" /\ kind[v] = "leaf"
    BY <1>1 DEF CopyLeaf, FreeAddr
  <2>2. /\ tag' = [tag EXCEPT ![n] = "object", ![v] = "forward"]
        /\ kind' = [kind EXCEPT ![n] = kind[v]] /\ slots' = [slots EXCEPT ![n] = <<>>]
        /\ fwd' = [fwd EXCEPT ![v] = n] /\ UNCHANGED <<arena, cap, stack>>
        /\ newArena' = newArena \cup {n}
    BY <1>1 DEF CopyLeaf
  <2>3. /\ tag \in [Addr -> Tag] /\ kind \in [Addr -> Kind] /\ slots \in [Addr -> Seq(Value)]
        /\ fwd \in [Addr -> Value] /\ cap \in [Addr -> Nat]
    BY <1>0 DEF TypeOK
  <2> QED BY ONLY n \in Addr, <1>0, <2>1, <2>2, <2>3 DEF Copied
<1>2. CASE CopyFields(v, n)
  <2> DEFINE f == [new |-> n, fields |-> slots[v], next |-> 1]
  <2>1. n \notin arena /\ n \notin newArena /\ n # v /\ tag[v] = "object" /\ kind[v] # "leaf"
    BY <1>2 DEF CopyFields, FreeAddr
  <2>2. /\ tag' = [tag EXCEPT ![n] = "blackHole", ![v] = "forward"]
        /\ kind' = [kind EXCEPT ![n] = kind[v]] /\ slots' = [slots EXCEPT ![v] = <<>>, ![n] = <<>>]
        /\ cap' = [cap EXCEPT ![n] = IF kind[v] = "array" THEN Len(slots[v]) ELSE 0]
        /\ fwd' = [fwd EXCEPT ![v] = n] /\ arena' = arena
        /\ newArena' = newArena \cup {n} /\ stack' = Append(stack, f)
    BY <1>2 DEF CopyFields, Payload
  <2>3. /\ tag \in [Addr -> Tag] /\ kind \in [Addr -> Kind] /\ slots \in [Addr -> Seq(Value)]
        /\ fwd \in [Addr -> Value] /\ cap \in [Addr -> Nat] /\ stack \in Seq(Frame)
    BY <1>0 DEF TypeOK
  <2>4. f \in Frame
    BY <1>0, <2>3 DEF Frame
  <2> HIDE DEF f
  <2>5. /\ DOMAIN stack' = 1..(Len(stack) + 1)
        /\ \A k \in DOMAIN stack : stack'[k] = stack[k] /\ k \in DOMAIN stack'
        /\ stack'[Len(stack) + 1] = f
    BY <2>2, <2>3, <2>4
  <2>6. /\ tag'[v] = "forward" /\ fwd'[v] = n /\ kind'[n] = kind[v] /\ slots'[n] = <<>>
        /\ \A a \in Addr : a # v => fwd'[a] = fwd[a]
        /\ \A a \in Addr : a # n => kind'[a] = kind[a] /\ cap'[a] = cap[a]
        /\ \A a \in Addr : a # n /\ a # v => tag'[a] = tag[a] /\ slots'[a] = slots[a]
        /\ tag'[n] = "blackHole" /\ slots'[v] = <<>>
        /\ cap'[n] = IF kind[v] = "array" THEN Len(slots[v]) ELSE 0
    BY ONLY n \in Addr, <1>0, <2>1, <2>2, <2>3
  <2> QED BY <1>0, <2>1, <2>2, <2>5, <2>6 DEF f, Copied
<1> QED BY <1>1, <1>2 DEF CopyValue

\* Tracer::trace of a field that is copied already.
LEMMA TraceFieldEffect ==
  ASSUME IInv, TraceField
  PROVE  /\ phase = "tracing" /\ stack # <<>> /\ stack' # <<>> /\ Settled(Top.fields[Top.next])
         /\ Top.next \in DOMAIN Top.fields /\ Top.next \in Nat
         /\ Top.fields[Top.next] \in arena \cup Frozen
         /\ UNCHANGED <<arena, newArena, tag, kind, slots, cap, fwd, root, phase, pending, before>>
         /\ DOMAIN stack' = DOMAIN stack /\ Len(stack') = Len(stack) /\ Len(stack) \in DOMAIN stack
         /\ \A k \in DOMAIN stack : k # Len(stack) => stack'[k] = stack[k]
         /\ \A k \in DOMAIN stack : /\ stack'[k].new = stack[k].new
                                    /\ DOMAIN stack'[k].fields = DOMAIN stack[k].fields
                                    /\ Len(stack'[k].fields) = Len(stack[k].fields)
         /\ Top'.next = Top.next + 1 /\ Top' = stack'[Len(stack)]
         /\ Top'.fields[Top.next] = AdjustSettled(Top.fields[Top.next])
         /\ \A i \in DOMAIN Top.fields : i # Top.next => Top'.fields[i] = Top.fields[i]
<1>. DEFINE v == Top.fields[Top.next]
            w == AdjustSettled(v)
            g == [new    |-> Top.new,
                  fields |-> [Top.fields EXCEPT ![Top.next] = w],
                  next   |-> Top.next + 1]
<1>1. /\ phase = "tracing" /\ stack # <<>> /\ Top.next <= Len(Top.fields)
      /\ Settled(v)
      /\ UNCHANGED <<arena, newArena, tag, kind, slots, cap, fwd, root, phase, pending, before>>
  BY DEF TraceField, heapVars
<1>2. v \in arena \cup Frozen /\ Top.next \in DOMAIN Top.fields /\ Top.next \in Nat
  BY <1>1, TopFrame
<1>3. w \in newArena \cup Frozen
  BY <1>1, <1>2, AdjustedLive
<1>4. stack' = [stack EXCEPT ![Len(stack)] = g]
  BY DEF TraceField, FieldAfter
<1>5. /\ g \in Frame /\ g.new = Top.new
      /\ g.next = Top.next + 1 /\ DOMAIN g.fields = DOMAIN Top.fields
      /\ Len(g.fields) = Len(Top.fields)
      /\ g.fields[Top.next] = w
      /\ \A i \in DOMAIN Top.fields : i # Top.next => g.fields[i] = Top.fields[i]
  <2>1. w \in Value
    BY <1>3 DEF IInv, TypeOK, Value
  <2>2. Top.fields \in Seq(Value) /\ Top.next \in Nat /\ Top.new \in Addr
    BY <1>1, TopFrame DEF Frame
  <2>3. [Top.fields EXCEPT ![Top.next] = w] \in Seq(Value)
    BY <1>2, <2>1, <2>2
  <2>. QED BY <1>1, <1>2, <2>1, <2>2, <2>3, TopFrame DEF Frame
<1> HIDE DEF g, w
<1>6. /\ DOMAIN stack' = DOMAIN stack /\ Len(stack') = Len(stack) /\ Len(stack) \in DOMAIN stack
      /\ stack'[Len(stack)] = g /\ Len(stack) \in Nat /\ Len(stack) # 0
      /\ \A k \in DOMAIN stack : k # Len(stack) => stack'[k] = stack[k]
  BY <1>1, <1>4, <1>5, TopFrame DEF IInv, TypeOK
<1>7. stack' # <<>>
  <2>1. Len(<<>>) = 0
    OBVIOUS
  <2> QED BY <1>6, <2>1
<1>8. Top' = g /\ stack[Len(stack)] = Top
  BY <1>6 DEF Top
<1> QED BY <1>1, <1>2, <1>5, <1>6, <1>7, <1>8 DEF w

\* Reservation::fill.
LEMMA FillEffect ==
  ASSUME IInv, Fill
  PROVE  /\ phase = "tracing" /\ stack # <<>> /\ Top.next = Len(Top.fields) + 1
         /\ Top.new \in newArena /\ Top.new \in Addr /\ Top.new \notin arena
         /\ UNCHANGED <<arena, newArena, kind, cap, fwd, root, phase, pending, before>>
         /\ tag[Top.new] = "blackHole" /\ tag'[Top.new] = "object" /\ slots'[Top.new] = Top.fields
         /\ \A a \in Addr : a # Top.new => tag'[a] = tag[a] /\ slots'[a] = slots[a]
         /\ Len(stack) \in DOMAIN stack /\ Len(stack') = Len(stack) - 1 /\ Len(stack) \in Nat
         /\ \A k \in DOMAIN stack' : k \in DOMAIN stack /\ k # Len(stack) /\ stack'[k] = stack[k]
         /\ \A k \in DOMAIN stack : k # Len(stack) => k \in DOMAIN stack'
<1>1. /\ phase = "tracing" /\ stack # <<>> /\ Top.next > Len(Top.fields)
      /\ tag' = [tag EXCEPT ![Top.new] = "object"]
      /\ slots' = [slots EXCEPT ![Top.new] = Top.fields]
      /\ stack' = SubSeq(stack, 1, Len(stack) - 1)
      /\ UNCHANGED <<arena, newArena, kind, cap, fwd, root, phase, pending, before>>
  BY DEF Fill
<1>2. /\ Top.new \in newArena /\ Top.new \in Addr /\ Top.new \notin arena
      /\ tag[Top.new] = "blackHole"
  BY <1>1, TopFrame DEF IInv, Frames, Frame, Disjoint
<1>3. /\ Len(stack') = Len(stack) - 1 /\ Len(stack) \in Nat
      /\ \A k \in DOMAIN stack' : k \in DOMAIN stack /\ k # Len(stack) /\ stack'[k] = stack[k]
      /\ \A k \in DOMAIN stack : k # Len(stack) => k \in DOMAIN stack'
  <2>1. stack \in Seq(Frame) /\ Len(stack) \in Nat /\ Len(stack) # 0 /\ DOMAIN stack = 1..Len(stack)
    BY <1>1, TopFrame DEF IInv, TypeOK
  <2>2. Len(stack) - 1 \in Nat
    BY <2>1
  <2>3. /\ Len(stack') = Len(stack) - 1 /\ DOMAIN stack' = 1..(Len(stack) - 1)
        /\ \A k \in 1..(Len(stack) - 1) : stack'[k] = stack[k]
    BY <1>1, <2>1, <2>2
  <2> QED BY <2>1, <2>3
<1>4. /\ tag'[Top.new] = "object" /\ slots'[Top.new] = Top.fields
      /\ \A a \in Addr : a # Top.new => tag'[a] = tag[a] /\ slots'[a] = slots[a]
  BY <1>1, <1>2 DEF IInv, TypeOK
<1>5. Top.next = Len(Top.fields) + 1
  <2>1. Top.next \in 1..(Len(Top.fields) + 1) /\ Top.fields \in Seq(Value)
    BY <1>1, TopFrame DEF Frame
  <2>2. Len(Top.fields) \in Nat
    BY <2>1
  <2> QED BY <1>1, <2>1, <2>2
<1> QED BY <1>1, <1>2, <1>3, <1>4, <1>5, TopFrame

\* A copy is started of a value that is in the old arena.
LEMMA CopiesOld ==
  ASSUME IInv
  PROVE  /\ \A r \in Root, n \in Addr : CopyRoot(r, n) =>
               root[r] \in arena /\ CopyValue(root[r], n) /\ phase = "tracing"
         /\ \A n \in Addr : CopyField(n) =>
               /\ Top.fields[Top.next] \in arena /\ CopyValue(Top.fields[Top.next], n)
               /\ phase = "tracing" /\ Top.next \in DOMAIN Top.fields
<1>1. ASSUME NEW r \in Root, NEW n \in Addr, CopyRoot(r, n)
      PROVE  root[r] \in arena /\ CopyValue(root[r], n) /\ phase = "tracing"
  BY <1>1, HeapAssumption DEF IInv, Roots, CopyRoot, Settled
<1>2. ASSUME NEW n \in Addr, CopyField(n)
      PROVE  /\ Top.fields[Top.next] \in arena /\ CopyValue(Top.fields[Top.next], n)
             /\ phase = "tracing" /\ Top.next \in DOMAIN Top.fields
  <2>1. Top.next \in DOMAIN Top.fields /\ stack # <<>>
    BY <1>2, TopFrame DEF CopyField
  <2>2. Top.fields[Top.next] \in arena \cup Frozen
    BY <2>1, TopFrame
  <2>. QED BY <1>2, <2>1, <2>2, HeapAssumption DEF CopyField, Settled
<1> QED BY <1>1, <1>2

-----------------------------------------------------------------------------
(* Capacities.  An array in progress fits the capacity its copy was        *)
(* reserved with; a leaf holds nothing; the arena is finite.               *)
LeavesEmpty == \A a \in arena \cup newArena : kind[a] = "leaf" => slots[a] = <<>>
ArraysFit   == \A a \in arena \cup newArena : kind[a] = "array" => Len(slots[a]) <= cap[a]
FramesFit   == \A k \in DOMAIN stack :
                 /\ kind[stack[k].new] # "leaf"
                 /\ kind[stack[k].new] = "array" => Len(stack[k].fields) <= cap[stack[k].new]

SInv == LeavesEmpty /\ ArraysFit /\ FramesFit /\ IsFiniteSet(arena) /\ IsFiniteSet(newArena)

LEMMA InitSInv == Init => SInv
  BY FS_EmptySet DEF Init, SInv, LeavesEmpty, ArraysFit, FramesFit

\* A step of the mutator that changes the objects of a set D only, new or old.
LEMMA MutatorSInv ==
  ASSUME IInv, SInv, phase = "mutator", NEW D \in SUBSET Addr, IsFiniteSet(D),
         newArena' = newArena, stack' = stack,
         arena' \in {arena, arena \cup D},
         \A a \in arena \ D : kind'[a] = kind[a] /\ slots'[a] = slots[a] /\ cap'[a] = cap[a],
         \A a \in D : kind'[a] = "leaf" => slots'[a] = <<>>,
         \A a \in D : kind'[a] = "array" => Len(slots'[a]) <= cap'[a]
  PROVE  SInv'
<1>1. newArena' = {} /\ stack' = <<>>
  BY DEF IInv, Quiet
<1>2. \A a \in arena' : a \in D \/ a \in arena \ D
  OBVIOUS
<1>3. LeavesEmpty' /\ ArraysFit'
  BY <1>1, <1>2 DEF SInv, LeavesEmpty, ArraysFit
<1>4. FramesFit'
  BY <1>1 DEF FramesFit
<1>5. IsFiniteSet(arena')
  BY FS_Union DEF SInv
<1>6. IsFiniteSet(newArena')
  BY <1>1, FS_EmptySet
<1> QED BY <1>3, <1>4, <1>5, <1>6 DEF SInv

\* The capacity of a list's array, and the content it has room for.
LEMMA CapacityType ==
  ASSUME IInv, SInv, phase = "mutator", NEW r \in Root, IsObj(root[r], "list")
  PROVE  /\ ArrayCapacity(ListArray(root[r])) \in Nat
         /\ Len(ListContent(root[r])) <= ArrayCapacity(ListArray(root[r]))
<1> DEFINE b == ListArray(root[r])
<1>1. IsArray(arena, b)
  BY RootList DEF ListArray
<1>2. CASE b = EmptyArray
  BY <1>2 DEF ArrayCapacity, ListContent, ArrayContent, IInv, ListShape
<1>3. CASE b # EmptyArray
  <2>1. b \in arena /\ kind[b] = "array" /\ b \in Addr
    BY <1>1, <1>3 DEF IsArray, IInv, TypeOK
  <2>2. cap[b] \in Nat /\ Len(slots[b]) <= cap[b]
    BY <2>1 DEF IInv, TypeOK, SInv, ArraysFit
  <2> QED BY <1>3, <2>2 DEF ArrayCapacity, ListContent, ArrayContent
<1> QED BY <1>2, <1>3

\* The array of a list gets a new content it has room for.
LEMMA SetContentSInv ==
  ASSUME IInv, SInv, phase = "mutator", NEW r \in Root, IsObj(root[r], "list"),
         NEW c \in Seq(Value), Len(c) <= ArrayCapacity(ListArray(root[r])),
         SetContent(ListArray(root[r]), c)
  PROVE  SInv'
<1> DEFINE b == ListArray(root[r])
<1>1. IsArray(arena, b)
  BY RootList DEF ListArray
<1> HIDE DEF b
<1>2. /\ slots' = [a \in Addr |-> IF a = b THEN c ELSE slots[a]]
      /\ UNCHANGED <<arena, newArena, kind, cap, stack>>
  BY DEF SetContent, b
<1>3. arena \subseteq Addr /\ slots \in [Addr -> Seq(Value)]
  BY DEF IInv, TypeOK
<1>4. \A a \in arena \ {b} : slots'[a] = slots[a]
  BY <1>2, <1>3
<1>5. CASE b = EmptyArray
  <2>1. \A a \in arena : slots'[a] = slots[a]
    BY <1>3, <1>4, <1>5, HeapAssumption
  <2>2. newArena = {} /\ stack = <<>>
    BY DEF IInv, Quiet
  <2> QED BY <1>2, <2>1, <2>2 DEF SInv, LeavesEmpty, ArraysFit, FramesFit
<1>6. CASE b # EmptyArray
  <2>1. b \in arena /\ kind[b] = "array" /\ b \in Addr
    BY <1>1, <1>3, <1>6 DEF IsArray
  <2>2. slots'[b] = c /\ Len(c) <= cap[b]
    BY <1>2, <1>6, <2>1 DEF ArrayCapacity, b
  <2>3. IsFiniteSet({b}) /\ {b} \in SUBSET Addr
    BY <2>1, FS_Singleton
  <2> QED BY <1>2, <1>4, <2>1, <2>2, <2>3, MutatorSInv
<1> QED BY <1>5, <1>6

LEMMA MutateSInv ==
  ASSUME IInv, SInv, Mutate
  PROVE  SInv'
<1>1. phase = "mutator"
  BY DEF Mutate
<1>2. PICK r \in Root :
        \/ \E a \in Addr : AllocLeaf(r, a)
        \/ \E a \in Addr, elems \in SeqsOfHeld(MaxLen) : AllocFields(r, a, elems)
        \/ \E a \in Addr : AllocEmptyList(r, a)
        \/ \E a, b \in Addr, elems \in SeqsOfHeld(MaxListLen) : AllocList(r, a, b, elems)
        \/ \E v \in Held : ListPushInPlace(r, v)
        \/ \E v \in Held, b \in Addr : ListPushRealloc(r, v, b)
        \/ ListClear(r)
        \/ \E i \in 1..MaxListLen, v \in Held : ListSetAt(r, i, v)
        \/ \E i \in 1..MaxListLen : ListRemove(r, i)
        \/ \E i \in 1..MaxLen, v \in Held : SetField(r, i, v)
        \/ \E v \in Value : AssignRoot(r, v)
  BY DEF Mutate
<1>3. /\ kind \in [Addr -> Kind] /\ slots \in [Addr -> Seq(Value)] /\ cap \in [Addr -> Nat]
      /\ tag \in [Addr -> Tag] /\ arena \subseteq Addr /\ MaxListLen \in Nat
  BY HeapAssumption DEF IInv, TypeOK
<1>4. \A a, b \in Addr : IsFiniteSet({a}) /\ IsFiniteSet({a, b}) /\ {a} \in SUBSET Addr /\ {a, b} \in SUBSET Addr
  <2> SUFFICES ASSUME NEW a \in Addr, NEW b \in Addr PROVE IsFiniteSet({a}) /\ IsFiniteSet({a, b})
    OBVIOUS
  <2>1. IsFiniteSet({a}) /\ IsFiniteSet({b})
    BY FS_Singleton
  <2>2. {a, b} = {a} \cup {b}
    OBVIOUS
  <2> QED BY <2>1, <2>2, FS_Union
<1>5. ASSUME NEW a \in Addr, AllocLeaf(r, a) PROVE SInv'
  <2>1. kind'[a] = "leaf" /\ slots'[a] = <<>>
    BY <1>3, <1>5 DEF AllocLeaf
  <2>2. \A c \in arena \ {a} : kind'[c] = kind[c] /\ slots'[c] = slots[c] /\ cap'[c] = cap[c]
    BY <1>3, <1>5 DEF AllocLeaf
  <2>3. newArena' = newArena /\ stack' = stack /\ arena' = arena \cup {a}
    BY <1>5 DEF AllocLeaf
  <2> QED BY <1>1, <1>4, <2>1, <2>2, <2>3, MutatorSInv
<1>6. ASSUME NEW a \in Addr, NEW elems \in SeqsOfHeld(MaxLen), AllocFields(r, a, elems) PROVE SInv'
  <2>1. kind'[a] = "complex"
    BY <1>3, <1>6 DEF AllocFields
  <2>2. \A c \in arena \ {a} : kind'[c] = kind[c] /\ slots'[c] = slots[c] /\ cap'[c] = cap[c]
    BY <1>3, <1>6 DEF AllocFields
  <2>3. newArena' = newArena /\ stack' = stack /\ arena' = arena \cup {a}
    BY <1>6 DEF AllocFields
  <2> QED BY <1>1, <1>4, <2>1, <2>2, <2>3, MutatorSInv
<1>7. ASSUME NEW a \in Addr, AllocEmptyList(r, a) PROVE SInv'
  <2>1. kind'[a] = "list"
    BY <1>3, <1>7 DEF AllocEmptyList
  <2>2. \A c \in arena \ {a} : kind'[c] = kind[c] /\ slots'[c] = slots[c] /\ cap'[c] = cap[c]
    BY <1>3, <1>7 DEF AllocEmptyList
  <2>3. newArena' = newArena /\ stack' = stack /\ arena' = arena \cup {a}
    BY <1>7 DEF AllocEmptyList
  <2> QED BY <1>1, <1>4, <2>1, <2>2, <2>3, MutatorSInv
<1>8. ASSUME NEW a \in Addr, NEW b \in Addr, NEW elems \in SeqsOfHeld(MaxListLen), AllocList(r, a, b, elems)
      PROVE  SInv'
  <2>0. elems \in Seq(Value) /\ Len(elems) \in Nat
    BY <1>1, <1>3, SeqsLive
  <2>1. kind'[a] = "list" /\ kind'[b] = "array" /\ slots'[b] = elems /\ cap'[b] = Len(elems)
    BY <1>3, <1>8 DEF AllocList
  <2>2. \A c \in arena \ {a, b} : kind'[c] = kind[c] /\ slots'[c] = slots[c] /\ cap'[c] = cap[c]
    BY <1>3, <1>8 DEF AllocList
  <2>3. newArena' = newArena /\ stack' = stack /\ arena' = arena \cup {a, b}
    BY <1>8 DEF AllocList
  <2> DEFINE D == {a, b}
  <2>4. \A c \in D : /\ kind'[c] = "leaf" => slots'[c] = <<>>
                     /\ kind'[c] = "array" => Len(slots'[c]) <= cap'[c]
    BY <2>0, <2>1
  <2>5. IsFiniteSet(D) /\ D \in SUBSET Addr
    BY <1>4
  <2> HIDE DEF D
  <2>6. /\ arena' = arena \cup D
        /\ \A c \in arena \ D : kind'[c] = kind[c] /\ slots'[c] = slots[c] /\ cap'[c] = cap[c]
    BY <2>2, <2>3 DEF D
  <2>7. /\ arena' \in {arena, arena \cup D}
        /\ \A c \in D : kind'[c] = "leaf" => slots'[c] = <<>>
        /\ \A c \in D : kind'[c] = "array" => Len(slots'[c]) <= cap'[c]
    BY <2>4, <2>6
  <2> QED BY <1>1, <2>3, <2>5, <2>6, <2>7, MutatorSInv
<1>9. ASSUME NEW v \in Held, ListPushInPlace(r, v) PROVE SInv'
  <2> DEFINE lc == ListContent(root[r])
             b  == ListArray(root[r])
  <2>1. IsObj(root[r], "list") /\ SetContent(b, Append(lc, v)) /\ Len(lc) < ArrayCapacity(b)
    BY <1>9 DEF ListPushInPlace, HasRoom, ListContent
  <2>2. v \in Value /\ lc \in Seq(Value)
    BY <1>1, <1>3, <2>1, HeldLive, RootList DEF Value
  <2> HIDE DEF lc
  <2>3. Append(lc, v) \in Seq(Value) /\ Len(Append(lc, v)) = Len(lc) + 1 /\ Len(lc) \in Nat
    BY <2>2
  <2>4. ArrayCapacity(b) \in Nat
    BY <1>1, <2>1, CapacityType
  <2> HIDE DEF b
  <2>5. Len(Append(lc, v)) <= ArrayCapacity(b)
    BY <2>1, <2>3, <2>4
  <2> QED BY <1>1, <2>1, <2>3, <2>5, SetContentSInv DEF b
<1>10. ASSUME NEW v \in Held, NEW b \in Addr, ListPushRealloc(r, v, b) PROVE SInv'
  <2> DEFINE c == ListContent(root[r])
             l == root[r]
             n == Len(c)
  <2>0. /\ IsObj(l, "list") /\ b \notin arena
    BY <1>10 DEF ListPushRealloc, FreeAddr
  <2>1. /\ l \in arena /\ l \in Addr /\ kind[l] = "list" /\ c \in Seq(Value)
    BY <1>1, <1>3, <2>0, RootList DEF IsObj
  <2>2. /\ UNCHANGED <<newArena, stack>> /\ arena' = arena \cup {b}
        /\ kind' = [kind EXCEPT ![b] = "array"]
        /\ slots' = [slots EXCEPT ![b] = Append(c, v), ![l] = <<b>>]
        /\ cap' = [cap EXCEPT ![b] = NewCapacity(n)]
    BY <1>10 DEF ListPushRealloc
  <2>3. v \in Value
    BY <1>1, <1>3, HeldLive DEF Value
  <2>4. n \in Nat /\ Len(Append(c, v)) = n + 1
    BY <2>1, <2>3
  <2> HIDE DEF c, l, n
  <2>5. NewCapacity(n) >= n + 1
    BY <2>4 DEF NewCapacity, NatMax
  <2>6. /\ slots'[b] = Append(c, v) /\ kind'[b] = "array" /\ cap'[b] = NewCapacity(n)
        /\ kind'[l] = "list"
    BY <1>3, <2>0, <2>1, <2>2
  <2>7. \A d \in arena \ {b, l} : kind'[d] = kind[d] /\ slots'[d] = slots[d] /\ cap'[d] = cap[d]
    BY <1>3, <2>2
  <2>8. Len(slots'[b]) <= cap'[b]
    BY <2>4, <2>5, <2>6 DEF NewCapacity, NatMax
  <2>9. arena' = arena \cup {b, l}
    BY <2>1, <2>2
  <2> DEFINE D == {b, l}
  <2>10. \A d \in D : /\ kind'[d] = "leaf" => slots'[d] = <<>>
                      /\ kind'[d] = "array" => Len(slots'[d]) <= cap'[d]
    BY <2>6, <2>8
  <2>11. IsFiniteSet(D) /\ D \in SUBSET Addr
    BY <1>4, <2>1
  <2>12. /\ arena' = arena \cup D
         /\ \A d \in arena \ D : kind'[d] = kind[d] /\ slots'[d] = slots[d] /\ cap'[d] = cap[d]
    BY <2>7, <2>9
  <2> HIDE DEF D
  <2>13. /\ arena' \in {arena, arena \cup D}
         /\ \A d \in D : kind'[d] = "leaf" => slots'[d] = <<>>
         /\ \A d \in D : kind'[d] = "array" => Len(slots'[d]) <= cap'[d]
    BY <2>10, <2>12
  <2> QED BY <1>1, <2>2, <2>11, <2>12, <2>13, MutatorSInv
<1>11. ASSUME ListClear(r) PROVE SInv'
  <2>1. <<>> \in Seq(Value) /\ Len(<<>>) = 0
    OBVIOUS
  <2>2. IsObj(root[r], "list") /\ SetContent(ListArray(root[r]), <<>>)
    BY <1>11 DEF ListClear
  <2>3. Len(<<>>) <= ArrayCapacity(ListArray(root[r]))
    BY <1>1, <2>1, <2>2, CapacityType
  <2> QED BY <1>1, <2>1, <2>2, <2>3, SetContentSInv
<1>12. ASSUME NEW i \in 1..MaxLen, NEW v \in Held, SetField(r, i, v) PROVE SInv'
  <2>0. root[r] \in Addr /\ kind[root[r]] = "complex"
    BY <1>12 DEF SetField, IsObj
  <2>1. /\ UNCHANGED <<arena, newArena, kind, cap, stack>>
        /\ slots' = [slots EXCEPT ![root[r]] = [slots[root[r]] EXCEPT ![i] = v]]
    BY <1>12 DEF SetField
  <2>2. \A c \in arena \ {root[r]} : kind'[c] = kind[c] /\ slots'[c] = slots[c] /\ cap'[c] = cap[c]
    BY <1>3, <2>1
  <2> QED BY <1>1, <1>4, <2>0, <2>1, <2>2, MutatorSInv
<1>13. ASSUME NEW v \in Value, AssignRoot(r, v) PROVE SInv'
  BY <1>13 DEF AssignRoot, heapVars, SInv, LeavesEmpty, ArraysFit, FramesFit
<1>14. ASSUME NEW i \in 1..MaxListLen, NEW v \in Held, ListSetAt(r, i, v) PROVE SInv'
  <2> DEFINE lc == ListContent(root[r])
             c  == [lc EXCEPT ![i] = v]
  <2>1. IsObj(root[r], "list") /\ SetContent(ListArray(root[r]), c) /\ i \in 1..Len(lc)
    BY <1>14 DEF ListSetAt
  <2>2. v \in Value /\ lc \in Seq(Value) /\ Len(lc) <= ArrayCapacity(ListArray(root[r]))
    BY <1>1, <1>3, <2>1, HeldLive, RootList, CapacityType DEF Value
  <2> HIDE DEF lc
  <2>3. c \in Seq(Value) /\ Len(c) = Len(lc)
    BY <2>1, <2>2
  <2> HIDE DEF c
  <2>4. Len(c) <= ArrayCapacity(ListArray(root[r]))
    BY <2>2, <2>3
  <2> QED BY <1>1, <2>1, <2>3, <2>4, SetContentSInv
<1>15. ASSUME NEW i \in 1..MaxListLen, ListRemove(r, i) PROVE SInv'
  <2> DEFINE lc == ListContent(root[r])
             c  == SubSeq(lc, 1, i - 1) \o SubSeq(lc, i + 1, Len(lc))
  <2>1. IsObj(root[r], "list") /\ SetContent(ListArray(root[r]), c) /\ i \in 1..Len(lc)
    BY <1>15 DEF ListRemove
  <2>2. lc \in Seq(Value) /\ Len(lc) <= ArrayCapacity(ListArray(root[r]))
    BY <1>1, <2>1, RootList, CapacityType
  <2>3. ArrayCapacity(ListArray(root[r])) \in Nat
    BY <1>1, <2>1, CapacityType
  <2> HIDE DEF lc
  <2>4. c \in Seq(Value) /\ Len(c) = Len(lc) - 1
    BY <2>1, <2>2, Removed
  <2> HIDE DEF c
  <2>5. Len(lc) \in Nat
    BY <2>2
  <2>6. Len(c) <= ArrayCapacity(ListArray(root[r]))
    BY <2>2, <2>3, <2>4, <2>5
  <2> QED BY <1>1, <2>1, <2>4, <2>6, SetContentSInv
<1> QED BY <1>2, <1>5, <1>6, <1>7, <1>8, <1>9, <1>10, <1>11, <1>12, <1>13, <1>14, <1>15

LEMMA CopySInv ==
  ASSUME IInv, SInv, phase = "tracing", NEW v \in arena, NEW n \in Addr, CopyValue(v, n)
  PROVE  SInv'
<1>0. Copied(v, n)
  BY CopyEffect
<1>1. /\ TypeOK /\ slots[v] \in Seq(Value) /\ Len(slots[v]) \in Nat /\ arena \subseteq Addr /\ newArena \subseteq Addr
      /\ cap \in [Addr -> Nat] /\ \A a \in arena' \cup newArena' : a = n \/ (a \in arena \cup newArena /\ a \in Addr /\ a # n)
  BY <1>0 DEF IInv, TypeOK, Copied
<1>2. LeavesEmpty'
  <2> SUFFICES ASSUME NEW a \in arena' \cup newArena', kind'[a] = "leaf" PROVE slots'[a] = <<>>
    BY DEF LeavesEmpty
  <2>1. CASE a = n
    BY <1>0, <2>1 DEF Copied
  <2>2. CASE a # n
    <3>1. slots[a] = <<>> /\ a \in Addr
      BY <1>0, <1>1, <2>2 DEF SInv, LeavesEmpty, Copied
    <3> QED BY <1>0, <1>1, <2>2, <3>1 DEF Copied
  <2> QED BY <2>1, <2>2
<1>3. ArraysFit'
  <2> SUFFICES ASSUME NEW a \in arena' \cup newArena', kind'[a] = "array" PROVE Len(slots'[a]) <= cap'[a]
    BY DEF ArraysFit
  <2>1. CASE a = n
    <3>1. cap'[n] \in Nat /\ slots'[n] = <<>> /\ Len(<<>>) = 0
      BY <1>0, <1>1 DEF Copied
    <3> QED BY <2>1, <3>1
  <2>2. CASE a # n
    <3>1. a \in arena \cup newArena /\ a \in Addr /\ cap'[a] = cap[a] /\ kind'[a] = kind[a] /\ cap[a] \in Nat
      BY <1>0, <1>1, <2>2 DEF Copied
    <3>2. Len(slots[a]) <= cap[a]
      BY <3>1 DEF SInv, ArraysFit
    <3>3. slots'[a] = slots[a] \/ slots'[a] = <<>>
      BY <1>0, <2>2, <3>1 DEF Copied
    <3>4. Len(<<>>) = 0
      OBVIOUS
    <3> QED BY <3>1, <3>2, <3>3, <3>4
  <2> QED BY <2>1, <2>2
<1>4. FramesFit'
  <2>1. \A k \in DOMAIN stack : stack[k].new \in newArena
    BY DEF IInv, Frames
  <2>2. ASSUME NEW k \in DOMAIN stack
        PROVE  /\ kind'[stack[k].new] # "leaf"
               /\ kind'[stack[k].new] = "array" => Len(stack[k].fields) <= cap'[stack[k].new]
    <3>1. stack[k].new \in Addr /\ stack[k].new # n
      BY <1>0, <1>1, <2>1 DEF Copied
    <3>2. kind'[stack[k].new] = kind[stack[k].new] /\ cap'[stack[k].new] = cap[stack[k].new]
      BY <1>0, <3>1 DEF Copied
    <3> QED BY <3>2 DEF SInv, FramesFit
  <2>3. CASE stack' = stack
    BY <2>2, <2>3 DEF FramesFit
  <2>4. CASE stack' # stack
    <3> DEFINE f == [new |-> n, fields |-> slots[v], next |-> 1]
    <3>1. /\ kind[v] # "leaf" /\ cap'[n] = (IF kind[v] = "array" THEN Len(slots[v]) ELSE 0)
          /\ DOMAIN stack' = 1..(Len(stack) + 1) /\ DOMAIN stack = 1..Len(stack) /\ Len(stack) \in Nat
          /\ \A k \in DOMAIN stack : stack'[k] = stack[k]
          /\ stack'[Len(stack) + 1] = f /\ kind'[n] = kind[v]
      BY <1>0, <1>1, <2>4 DEF TypeOK, Copied
    <3>2. f.new = n /\ f.fields = slots[v]
      OBVIOUS
    <3> HIDE DEF f
    <3> SUFFICES ASSUME NEW k \in DOMAIN stack'
                 PROVE  /\ kind'[stack'[k].new] # "leaf"
                        /\ kind'[stack'[k].new] = "array" => Len(stack'[k].fields) <= cap'[stack'[k].new]
      BY DEF FramesFit
    <3>3. k = Len(stack) + 1 \/ k \in DOMAIN stack
      BY <3>1
    <3>4. CASE k = Len(stack) + 1
      BY <1>1, <3>1, <3>2, <3>4
    <3>5. CASE k \in DOMAIN stack
      BY <2>2, <3>1, <3>5
    <3> QED BY <3>3, <3>4, <3>5
  <2> QED BY <2>3, <2>4
<1>5. IsFiniteSet(arena') /\ IsFiniteSet(newArena')
  BY <1>0, FS_AddElement DEF SInv, Copied
<1> QED BY <1>2, <1>3, <1>4, <1>5 DEF SInv

LEMMA NextSInv == IInv /\ SInv /\ [Next]_vars => SInv'
<1> SUFFICES ASSUME IInv, SInv, [Next]_vars PROVE SInv'
  OBVIOUS
<1>1. CASE Mutate
  BY <1>1, MutateSInv
<1>2. CASE GcStart
  <2>1. UNCHANGED <<arena, kind, slots, cap>> /\ newArena' = {} /\ stack' = <<>>
    BY <1>2 DEF GcStart
  <2>2. LeavesEmpty' /\ ArraysFit' /\ FramesFit'
    BY <2>1 DEF SInv, LeavesEmpty, ArraysFit, FramesFit
  <2> QED BY <2>1, <2>2, FS_EmptySet DEF SInv
<1>3. ASSUME NEW r \in Root, TraceRoot(r) PROVE SInv'
  BY <1>3 DEF TraceRoot, heapVars, SInv, LeavesEmpty, ArraysFit, FramesFit
<1>4. ASSUME NEW r \in Root, NEW n \in Addr, CopyRoot(r, n) PROVE SInv'
  BY <1>4, CopiesOld, CopySInv
<1>5. CASE TraceField
  <2>1. /\ UNCHANGED <<arena, newArena, kind, slots, cap>> /\ DOMAIN stack' = DOMAIN stack
        /\ \A k \in DOMAIN stack : stack'[k].new = stack[k].new /\ Len(stack'[k].fields) = Len(stack[k].fields)
    BY <1>5, TraceFieldEffect
  <2> QED BY <2>1 DEF SInv, LeavesEmpty, ArraysFit, FramesFit
<1>6. ASSUME NEW n \in Addr, CopyField(n) PROVE SInv'
  BY <1>6, CopiesOld, CopySInv
<1>7. CASE Fill
  <2>1. /\ UNCHANGED <<arena, newArena, kind, cap>>
        /\ slots'[Top.new] = Top.fields
        /\ \A a \in Addr : a # Top.new => slots'[a] = slots[a]
        /\ \A k \in DOMAIN stack' : k \in DOMAIN stack /\ stack'[k] = stack[k]
        /\ Len(stack) \in DOMAIN stack
    BY <1>7, FillEffect
  <2>2. kind[Top.new] # "leaf" /\ (kind[Top.new] = "array" => Len(Top.fields) <= cap[Top.new])
    BY <2>1 DEF SInv, FramesFit, Top
  <2>3. arena \cup newArena \subseteq Addr
    BY DEF IInv, TypeOK
  <2>4. LeavesEmpty' /\ ArraysFit'
    BY <2>1, <2>2, <2>3 DEF SInv, LeavesEmpty, ArraysFit
  <2>5. FramesFit'
    BY <2>1 DEF SInv, FramesFit
  <2> QED BY <2>1, <2>4, <2>5 DEF SInv
<1>8. CASE GcFinish
  <2>1. /\ arena' = newArena /\ newArena' = {} /\ stack' = <<>>
        /\ \A m \in newArena : slots'[m] = slots[m] /\ kind'[m] = kind[m] /\ cap'[m] = cap[m]
    BY <1>8 DEF GcFinish, Survivors, IInv, TypeOK
  <2>2. LeavesEmpty' /\ ArraysFit' /\ FramesFit'
    BY <2>1 DEF SInv, LeavesEmpty, ArraysFit, FramesFit
  <2> QED BY <2>1, <2>2, FS_EmptySet DEF SInv
<1>9. CASE UNCHANGED vars
  BY <1>9 DEF vars, heapVars, SInv, LeavesEmpty, ArraysFit, FramesFit
<1> QED BY <1>1, <1>2, <1>3, <1>4, <1>5, <1>6, <1>7, <1>8, <1>9 DEF Next, Tracing

(* No array outgrows its capacity, across pushes, reallocations and the    *)
(* collections that take spare capacity away.                              *)
THEOREM ArraysWithinCapacity == Spec => []ArrayFits
<1>1. IInv /\ SInv => ArrayFits
  BY DEF IInv, SInv, ArraysFit, ArrayFits, ListShape
<1> QED BY InitIInv, NextIInv, InitSInv, NextSInv, <1>1, PTL DEF Spec

-----------------------------------------------------------------------------
(* The graph.  w is where value v of the heap before the collection has    *)
(* gone, once and for all.                                                 *)
EmptyBefore(v) == before.kind[v] = "array" /\ before.slots[v] = <<>>

Goes(v, w) ==
    \/ v \in Frozen /\ w = v
    \/ v \in arena /\ EmptyBefore(v) /\ w = EmptyArray
    \/ v \in arena /\ ~EmptyBefore(v) /\ tag[v] = "forward" /\ w = fwd[v]

\* s holds the fields of old object a, those before position next moved.
MovedUpTo(s, a, next) ==
    /\ DOMAIN s = DOMAIN before.slots[a]
    /\ \A i \in DOMAIN s : IF i < next THEN Goes(before.slots[a][i], s[i])
                                      ELSE s[i] = before.slots[a][i]

OldObjects ==
    \A a \in arena :
        /\ kind[a] = before.kind[a]
        /\ tag[a] = "object" => slots[a] = before.slots[a]
        /\ tag[a] = "forward" => ~EmptyBefore(a)

OneCopy ==
    \A a, b \in arena : tag[a] = "forward" /\ tag[b] = "forward" /\ fwd[a] = fwd[b] => a = b

FinishedCopies ==
    \A a \in arena : tag[a] = "forward" /\ tag[fwd[a]] = "object" =>
        /\ DOMAIN slots[fwd[a]] = DOMAIN before.slots[a]
        /\ \A i \in DOMAIN before.slots[a] : Goes(before.slots[a][i], slots[fwd[a]][i])

\* Every heap_copy in progress copies one object.
Copies(f, a) == tag[a] = "forward" /\ fwd[a] = f.new /\ MovedUpTo(f.fields, a, f.next)
CopiesInProgress == \A k \in DOMAIN stack : \E a \in arena : Copies(stack[k], a)

RootsMoved ==
    \A r \in Root : IF r \in pending THEN root[r] = before.root[r]
                                     ELSE Goes(before.root[r], root[r])

GInv ==
    phase = "tracing" =>
        OldObjects /\ OneCopy /\ FinishedCopies /\ CopiesInProgress /\ RootsMoved

\* A step of the collection that keeps the forward pointers keeps what has
\* gone where.
Forwarding ==
    /\ arena' = arena /\ before' = before
    /\ \A a \in arena : tag[a] = "forward" => tag'[a] = "forward" /\ fwd'[a] = fwd[a]

LEMMA GoesStable ==
  ASSUME Forwarding, NEW v, NEW w, Goes(v, w)
  PROVE  Goes(v, w)'
  BY DEF Forwarding, Goes, EmptyBefore

LEMMA MovedStable ==
  ASSUME Forwarding, NEW s, NEW a, NEW next, MovedUpTo(s, a, next)
  PROVE  /\ DOMAIN s = DOMAIN before'.slots[a]
         /\ \A i \in DOMAIN s : IF i < next THEN Goes(before.slots[a][i], s[i])'
                                           ELSE s[i] = before'.slots[a][i]
<1>1. before' = before
  BY DEF Forwarding
<1> QED BY <1>1, GoesStable DEF MovedUpTo

LEMMA CopiesStable ==
  ASSUME Forwarding, NEW f, NEW a \in arena, Copies(f, a)
  PROVE  Copies(f, a)'
<1>1. MovedUpTo(f.fields, a, f.next)'
  BY MovedStable DEF Copies, MovedUpTo
<1>2. tag'[a] = "forward" /\ fwd'[a] = f.new
  BY DEF Copies, Forwarding
<1> QED BY <1>1, <1>2 DEF Copies

\* The same of the values in the next state.
LEMMA NextCopies ==
  ASSUME NEW k, NEW f, NEW a, f = stack'[k], Copies(f, a)'
  PROVE  Copies(stack[k], a)'
  BY DEF Copies, MovedUpTo, Goes, EmptyBefore

LEMMA NextRoot ==
  ASSUME NEW r, NEW v, NEW w, v = before'.root[r], w = root'[r], Goes(v, w)'
  PROVE  Goes(before.root[r], root[r])'
  BY DEF Goes, EmptyBefore

LEMMA NextSlot ==
  ASSUME NEW a, NEW i, NEW v, NEW w, v = before'.slots[a][i], w = slots'[fwd'[a]][i], Goes(v, w)'
  PROVE  Goes(before.slots[a][i], slots[fwd[a]][i])'
  BY DEF Goes, EmptyBefore

LEMMA FrameKept ==
  ASSUME Forwarding, CopiesInProgress, NEW k \in DOMAIN stack, stack'[k] = stack[k]
  PROVE  \E a \in arena : Copies(stack[k], a)'
<1>1. PICK a \in arena : Copies(stack[k], a)
  BY DEF CopiesInProgress
<1>2. ASSUME NEW f, f = stack[k] PROVE Copies(stack[k], a)'
  <2>1. Copies(f, a)'
    BY <1>1, <1>2, CopiesStable
  <2> QED BY <1>2, <2>1, NextCopies
<1> QED BY <1>2

LEMMA RootKept ==
  ASSUME Forwarding, NEW r, root'[r] = root[r], Goes(before.root[r], root[r])
  PROVE  Goes(before.root[r], root[r])'
<1>1. ASSUME NEW x, NEW y, x = before.root[r], y = root[r] PROVE Goes(before.root[r], root[r])'
  <2>1. Goes(x, y)' /\ before' = before
    BY <1>1, GoesStable DEF Forwarding
  <2> QED BY <1>1, <2>1, NextRoot
<1> QED BY <1>1

LEMMA SlotKept ==
  ASSUME Forwarding, NEW a \in arena, tag[a] = "forward", slots'[fwd[a]] = slots[fwd[a]],
         NEW i, Goes(before.slots[a][i], slots[fwd[a]][i])
  PROVE  Goes(before.slots[a][i], slots[fwd[a]][i])'
<1>1. ASSUME NEW x, NEW y, x = before.slots[a][i], y = slots[fwd[a]][i]
      PROVE  Goes(before.slots[a][i], slots[fwd[a]][i])'
  <2>1. Goes(x, y)' /\ before' = before /\ fwd'[a] = fwd[a]
    BY <1>1, GoesStable DEF Forwarding
  <2> QED BY <1>1, <2>1, NextSlot
<1> QED BY <1>1

\* Tracer::adjust without a copy gives what the value has become.
LEMMA SettledGoes ==
  ASSUME IInv, GInv, phase = "tracing", NEW v \in arena \cup Frozen, Settled(v)
  PROVE  Goes(v, AdjustSettled(v))
<1>1. CASE v \in Frozen
  BY <1>1 DEF Goes, AdjustSettled
<1>2. CASE v \in arena /\ v \notin Frozen
  <2>1. /\ kind[v] = before.kind[v] /\ (tag[v] = "object" => slots[v] = before.slots[v])
        /\ (tag[v] = "forward" => ~EmptyBefore(v)) /\ (tag[v] = "object" \/ tag[v] = "forward")
        /\ v \in Addr
    BY <1>2 DEF GInv, OldObjects, IInv, OldArena, TypeOK
  <2>2. CASE tag[v] = "forward"
    BY <1>2, <2>1, <2>2 DEF Goes, AdjustSettled
  <2>3. CASE tag[v] # "forward"
    BY <1>2, <2>1, <2>3 DEF Goes, AdjustSettled, Settled, EmptyBefore
  <2> QED BY <2>2, <2>3
<1> QED BY <1>1, <1>2

LEMMA CopyGInv ==
  ASSUME IInv, SInv, GInv, phase = "tracing", NEW v \in arena, NEW n \in Addr, CopyValue(v, n),
         ~Settled(v), UNCHANGED <<root, phase, pending, before>>
  PROVE  GInv'
<1>0. Copied(v, n)
  BY CopyEffect
<1>1. /\ OldObjects /\ OneCopy /\ FinishedCopies /\ CopiesInProgress /\ RootsMoved
      /\ arena \subseteq Addr /\ newArena \subseteq Addr /\ slots \in [Addr -> Seq(Value)]
      /\ \A a \in arena : tag[a] = "forward" => fwd[a] \in newArena /\ fwd[a] \notin arena
  BY DEF GInv, IInv, TypeOK, OldArena, Disjoint
<1>2. Forwarding
  BY <1>0, <1>1 DEF Forwarding, Copied
<1>3. /\ slots[v] = before.slots[v] /\ kind[v] = before.kind[v] /\ ~EmptyBefore(v)
      /\ kind[v] = "leaf" => slots[v] = <<>>
  BY <1>0, <1>1 DEF Copied, OldObjects, EmptyBefore, Settled, SInv, LeavesEmpty
<1>4. /\ arena' = arena /\ before' = before
      /\ \A a \in arena : a # v => tag'[a] = tag[a] /\ slots'[a] = slots[a] /\ fwd'[a] = fwd[a] /\ kind'[a] = kind[a]
      /\ tag'[v] = "forward" /\ fwd'[v] = n /\ kind'[v] = kind[v]
  BY <1>0, <1>1 DEF Copied
<1>5. OldObjects'
  BY <1>1, <1>3, <1>4 DEF OldObjects, EmptyBefore
<1>6. OneCopy'
  <2> SUFFICES ASSUME NEW a \in arena, NEW b \in arena, tag'[a] = "forward", tag'[b] = "forward",
                      fwd'[a] = fwd'[b], a # b
               PROVE  FALSE
    BY <1>4 DEF OneCopy
  <2>1. n \notin newArena
    BY <1>0 DEF Copied
  <2>2. CASE a # v /\ b # v
    BY <1>1, <1>4, <2>2 DEF OneCopy
  <2>3. CASE a = v
    BY <1>1, <1>4, <2>1, <2>3
  <2>4. CASE b = v
    BY <1>1, <1>4, <2>1, <2>4
  <2> QED BY <2>2, <2>3, <2>4
<1>7. FinishedCopies'
  <2> SUFFICES ASSUME NEW a \in arena, tag'[a] = "forward", tag'[fwd'[a]] = "object"
               PROVE  /\ DOMAIN slots'[fwd'[a]] = DOMAIN before.slots[a]
                      /\ \A i \in DOMAIN before.slots[a] : Goes(before.slots[a][i], slots[fwd[a]][i])'
    BY <1>4 DEF FinishedCopies
  <2>1. CASE a = v
    <3>1. tag'[n] = "object"
      BY <1>4, <2>1
    <3>2. slots'[n] = <<>> /\ before.slots[v] = <<>>
      BY <1>0, <1>3, <3>1 DEF Copied
    <3>3. DOMAIN <<>> = {}
      OBVIOUS
    <3> QED BY <1>4, <2>1, <3>2, <3>3
  <2>2. CASE a # v
    <3>1. tag[a] = "forward" /\ fwd'[a] = fwd[a] /\ fwd[a] \in newArena
      BY <1>1, <1>4, <2>2
    <3>2. fwd[a] \in Addr /\ fwd[a] # v /\ fwd[a] # n
      BY <1>0, <1>1, <3>1 DEF Copied
    <3>3. tag'[fwd[a]] = tag[fwd[a]] /\ slots'[fwd[a]] = slots[fwd[a]]
      BY <1>0, <3>2 DEF Copied
    <3>4. /\ DOMAIN slots[fwd[a]] = DOMAIN before.slots[a]
          /\ \A i \in DOMAIN before.slots[a] : Goes(before.slots[a][i], slots[fwd[a]][i])
      BY <1>1, <3>1, <3>3 DEF FinishedCopies
    <3>6. ASSUME NEW i \in DOMAIN before.slots[a] PROVE Goes(before.slots[a][i], slots[fwd[a]][i])'
      BY <1>2, <3>1, <3>3, <3>4, SlotKept
    <3> QED BY <3>1, <3>3, <3>4, <3>6
  <2> QED BY <2>1, <2>2
<1>8. CopiesInProgress'
  <2>1. ASSUME NEW k \in DOMAIN stack, stack'[k] = stack[k]
        PROVE  \E a \in arena : Copies(stack[k], a)'
    BY <1>1, <1>2, <2>1, FrameKept
  <2>2. CASE stack' = stack
    BY <1>4, <2>1, <2>2 DEF CopiesInProgress
  <2>3. CASE stack' # stack
    <3> DEFINE f == [new |-> n, fields |-> slots[v], next |-> 1]
    <3>1. /\ DOMAIN stack' = 1..(Len(stack) + 1) /\ DOMAIN stack = 1..Len(stack) /\ Len(stack) \in Nat
          /\ \A k \in DOMAIN stack : stack'[k] = stack[k]
          /\ stack'[Len(stack) + 1] = f
      BY <1>0, <2>3 DEF IInv, TypeOK, Copied
    <3>2. f.new = n /\ f.fields = slots[v] /\ f.next = 1
      OBVIOUS
    <3> HIDE DEF f
    <3>3. ASSUME NEW g, g = f PROVE Copies(g, v)'
      <4>1. \A i \in DOMAIN slots[v] : ~(i < 1)
        BY <1>1
      <4> QED BY <1>3, <1>4, <3>2, <3>3, <4>1 DEF Copies, MovedUpTo
    <3> SUFFICES ASSUME NEW k \in DOMAIN stack' PROVE \E a \in arena : Copies(stack[k], a)'
      BY <1>4 DEF CopiesInProgress
    <3>4. k = Len(stack) + 1 \/ k \in DOMAIN stack
      BY <3>1
    <3>5. CASE k = Len(stack) + 1
      <4>1. ASSUME NEW g, g = f PROVE Copies(stack[k], v)'
        BY <3>1, <3>3, <3>5, <4>1, NextCopies
      <4> QED BY <4>1
    <3>6. CASE k \in DOMAIN stack
      BY <2>1, <3>1, <3>6
    <3> QED BY <3>4, <3>5, <3>6
  <2> QED BY <2>2, <2>3
<1>9. RootsMoved'
  <2>1. root' = root /\ pending' = pending
    OBVIOUS
  <2>2. ASSUME NEW r \in Root, r \notin pending PROVE Goes(before.root[r], root[r])'
    BY <1>1, <1>2, <2>1, <2>2, RootKept DEF RootsMoved
  <2>3. ASSUME NEW r \in Root, r \in pending PROVE root'[r] = before'.root[r]
    BY <1>1, <1>4, <2>1, <2>3 DEF RootsMoved
  <2> QED BY <2>1, <2>2, <2>3 DEF RootsMoved
<1> QED BY <1>5, <1>6, <1>7, <1>8, <1>9 DEF GInv

LEMMA TraceRootGInv ==
  ASSUME IInv, GInv, NEW r \in Root, TraceRoot(r)
  PROVE  GInv'
<1>1. /\ phase = "tracing" /\ r \in pending /\ Settled(root[r]) /\ pending' = pending \ {r}
      /\ root' = [root EXCEPT ![r] = AdjustSettled(root[r])] /\ root \in [Root -> Value]
      /\ UNCHANGED <<arena, newArena, tag, kind, slots, cap, fwd, phase, stack, before>>
  BY DEF TraceRoot, heapVars, IInv, TypeOK
<1>2. /\ OldObjects /\ OneCopy /\ FinishedCopies /\ CopiesInProgress /\ RootsMoved
  BY <1>1 DEF GInv
<1>3. Forwarding
  BY <1>1 DEF Forwarding
<1>4. OldObjects' /\ OneCopy' /\ FinishedCopies' /\ CopiesInProgress'
  BY <1>1, <1>2 DEF OldObjects, OneCopy, FinishedCopies, CopiesInProgress, Copies, MovedUpTo, Goes, EmptyBefore
<1>5. RootsMoved'
  <2>1. ASSUME NEW q \in Root, q \notin pending' PROVE Goes(before.root[q], root[q])'
    <3>1. CASE q # r
      <4>1. root'[q] = root[q] /\ Goes(before.root[q], root[q])
        BY <1>1, <1>2, <2>1, <3>1 DEF RootsMoved
      <4> QED BY <1>3, <4>1, RootKept
    <3>2. CASE q = r
      <4>1. root[r] \in arena \cup Frozen
        BY <1>1 DEF IInv, Roots
      <4>2. Goes(root[r], AdjustSettled(root[r])) /\ root[r] = before.root[r] /\ root'[r] = AdjustSettled(root[r])
        BY <1>1, <1>2, <4>1, SettledGoes DEF RootsMoved
      <4>3. ASSUME NEW x, NEW y, x = root[r], y = AdjustSettled(root[r]) PROVE Goes(before.root[r], root[r])'
        <5>1. Goes(x, y)'
          BY <1>3, <4>2, <4>3, GoesStable
        <5> QED BY <1>1, <4>2, <4>3, <5>1, NextRoot
      <4> QED BY <3>2, <4>3
    <3> QED BY <3>1, <3>2
  <2>2. ASSUME NEW q \in Root, q \in pending' PROVE root'[q] = before'.root[q]
    BY <1>1, <1>2, <2>2 DEF RootsMoved
  <2> QED BY <2>1, <2>2 DEF RootsMoved
<1> QED BY <1>4, <1>5 DEF GInv

LEMMA TraceFieldGInv ==
  ASSUME IInv, GInv, TraceField
  PROVE  GInv'
<1>1. /\ phase = "tracing" /\ Settled(Top.fields[Top.next])
      /\ Top.next \in DOMAIN Top.fields /\ Top.next \in Nat
      /\ Top.fields[Top.next] \in arena \cup Frozen
      /\ UNCHANGED <<arena, newArena, tag, kind, slots, cap, fwd, root, phase, pending, before>>
      /\ DOMAIN stack' = DOMAIN stack /\ Len(stack) \in DOMAIN stack
      /\ \A k \in DOMAIN stack : k # Len(stack) => stack'[k] = stack[k]
      /\ \A k \in DOMAIN stack : /\ stack'[k].new = stack[k].new
                                 /\ DOMAIN stack'[k].fields = DOMAIN stack[k].fields
      /\ Top'.next = Top.next + 1 /\ Top' = stack'[Len(stack)]
      /\ Top'.fields[Top.next] = AdjustSettled(Top.fields[Top.next])
      /\ \A i \in DOMAIN Top.fields : i # Top.next => Top'.fields[i] = Top.fields[i]
      /\ DOMAIN Top.fields = 1..Len(Top.fields)
  BY TraceFieldEffect, TopFrame
<1>2. /\ OldObjects /\ OneCopy /\ FinishedCopies /\ CopiesInProgress /\ RootsMoved
  BY <1>1 DEF GInv
<1>3. Forwarding
  BY <1>1 DEF Forwarding
<1>4. OldObjects' /\ OneCopy' /\ FinishedCopies' /\ RootsMoved'
  BY <1>1, <1>2 DEF OldObjects, OneCopy, FinishedCopies, RootsMoved, Goes, EmptyBefore
<1>5. \E a \in arena : Copies(stack[Len(stack)], a)'
  <2>1. PICK a \in arena : Copies(Top, a)
    BY <1>1, <1>2 DEF CopiesInProgress, Top
  <2>2. ASSUME NEW f, NEW g, f = Top, g = Top', NEW k, k = Len(stack) PROVE Copies(stack[k], a)'
    <3>0. /\ DOMAIN f.fields = 1..Len(f.fields) /\ f.next \in Nat /\ f.next \in DOMAIN f.fields
          /\ g.new = f.new /\ g.next = f.next + 1 /\ DOMAIN g.fields = DOMAIN f.fields
          /\ g.fields[f.next] = AdjustSettled(f.fields[f.next])
          /\ \A i \in DOMAIN f.fields : i # f.next => g.fields[i] = f.fields[i]
      <4>1. stack'[Len(stack)].new = stack[Len(stack)].new
        BY <1>1
      <4>2. DOMAIN stack'[Len(stack)].fields = DOMAIN stack[Len(stack)].fields
        BY <1>1
      <4>3. Top = stack[Len(stack)]
        BY DEF Top
      <4> QED BY <1>1, <2>2, <4>1, <4>2, <4>3
    <3>1. tag[a] = "forward" /\ fwd[a] = f.new /\ MovedUpTo(f.fields, a, f.next)
      BY <2>1, <2>2 DEF Copies
    <3>2. f.fields[f.next] = before.slots[a][f.next]
      <4>1. ~(f.next < f.next)
        BY <3>0
      <4> QED BY <3>0, <3>1, <4>1 DEF MovedUpTo
    <3>3. Goes(before.slots[a][f.next], g.fields[f.next])
      BY <1>1, <2>2, <3>0, <3>2, SettledGoes
    <3>4. ASSUME NEW i \in DOMAIN g.fields
          PROVE  IF i < g.next THEN Goes(before.slots[a][i], g.fields[i]) ELSE g.fields[i] = before.slots[a][i]
      <4>0. i \in Nat /\ i \in DOMAIN f.fields
        BY <3>0
      <4>1. CASE i = f.next
        BY <3>0, <3>3, <4>0, <4>1
      <4>2. CASE i # f.next
        <5>1. g.fields[i] = f.fields[i] /\ (i < g.next <=> i < f.next)
          BY <3>0, <4>0, <4>2
        <5> QED BY <3>1, <4>0, <5>1 DEF MovedUpTo
      <4> QED BY <4>1, <4>2
    <3>5. Copies(g, a)
      BY <3>0, <3>1, <3>4 DEF Copies, MovedUpTo
    <3>6. Copies(g, a)'
      BY <1>3, <3>5, CopiesStable
    <3>7. g = stack'[k]
      BY <1>1, <2>2
    <3> QED BY <3>6, <3>7, NextCopies
  <2>3. ASSUME NEW k, k = Len(stack) PROVE Copies(stack[k], a)'
    BY <2>2, <2>3
  <2>4. Len(stack') = Len(stack)
    BY TraceFieldEffect
  <2>5. ASSUME NEW k, k = Len(stack), Copies(stack[k], a)' PROVE Copies(stack[Len(stack)], a)'
    BY <2>4, <2>5 DEF Copies, MovedUpTo, Goes, EmptyBefore
  <2> QED BY <2>3, <2>5
<1>6. CopiesInProgress'
  <2> SUFFICES ASSUME NEW k \in DOMAIN stack PROVE \E a \in arena : Copies(stack[k], a)'
    BY <1>1 DEF CopiesInProgress
  <2>1. CASE k = Len(stack)
    <3>1. PICK a \in arena : Copies(stack[Len(stack)], a)'
      BY <1>5
    <3>2. Len(stack') = Len(stack)
      BY TraceFieldEffect
    <3>3. Copies(stack[k], a)'
      BY <2>1, <3>1, <3>2 DEF Copies, MovedUpTo, Goes, EmptyBefore
    <3> QED BY <3>3
  <2>2. CASE k # Len(stack)
    BY <1>1, <1>2, <1>3, <2>2, FrameKept
  <2> QED BY <2>1, <2>2
<1> QED BY <1>4, <1>6 DEF GInv

LEMMA FillGInv ==
  ASSUME IInv, GInv, Fill
  PROVE  GInv'
<1>1. /\ phase = "tracing" /\ stack # <<>> /\ Top.next = Len(Top.fields) + 1
      /\ Top.new \in newArena /\ Top.new \in Addr /\ Top.new \notin arena
      /\ UNCHANGED <<arena, newArena, kind, cap, fwd, root, phase, pending, before>>
      /\ tag'[Top.new] = "object" /\ slots'[Top.new] = Top.fields
      /\ \A a \in Addr : a # Top.new => tag'[a] = tag[a] /\ slots'[a] = slots[a]
      /\ Len(stack) \in DOMAIN stack
      /\ \A k \in DOMAIN stack' : k \in DOMAIN stack /\ stack'[k] = stack[k]
      /\ arena \subseteq Addr /\ newArena \subseteq Addr
      /\ \A a \in arena : tag[a] = "forward" => fwd[a] \in newArena
  BY FillEffect DEF IInv, TypeOK, OldArena
<1>2. /\ OldObjects /\ OneCopy /\ FinishedCopies /\ CopiesInProgress /\ RootsMoved
  BY <1>1 DEF GInv
<1>3. \A a \in arena : tag'[a] = tag[a] /\ slots'[a] = slots[a]
  BY <1>1
<1>4. Forwarding
  BY <1>1, <1>3 DEF Forwarding
<1>5. OldObjects' /\ OneCopy' /\ RootsMoved'
  BY <1>1, <1>2, <1>3 DEF OldObjects, OneCopy, RootsMoved, Goes, EmptyBefore
<1>6. CopiesInProgress'
  BY <1>1, <1>2, <1>4, FrameKept DEF CopiesInProgress
<1>7. FinishedCopies'
  <2> SUFFICES ASSUME NEW a \in arena, tag[a] = "forward", tag'[fwd[a]] = "object"
               PROVE  /\ DOMAIN slots'[fwd[a]] = DOMAIN before.slots[a]
                      /\ \A i \in DOMAIN before.slots[a] : Goes(before.slots[a][i], slots[fwd[a]][i])'
    BY <1>1, <1>3 DEF FinishedCopies
  <2>1. CASE fwd[a] # Top.new
    <3>1. tag'[fwd[a]] = tag[fwd[a]] /\ slots'[fwd[a]] = slots[fwd[a]]
      BY <1>1, <2>1
    <3>2. /\ DOMAIN slots[fwd[a]] = DOMAIN before.slots[a]
          /\ \A i \in DOMAIN before.slots[a] : Goes(before.slots[a][i], slots[fwd[a]][i])
      BY <1>2, <3>1 DEF FinishedCopies
    <3> QED BY <1>4, <3>1, <3>2, SlotKept
  <2>2. CASE fwd[a] = Top.new
    <3>1. PICK b \in arena : Copies(Top, b)
      BY <1>1, <1>2 DEF CopiesInProgress, Top
    <3>2. b = a
      BY <1>2, <2>2, <3>1 DEF Copies, OneCopy
    <3>3. slots'[fwd[a]] = Top.fields /\ MovedUpTo(Top.fields, a, Top.next)
      BY <1>1, <2>2, <3>1, <3>2 DEF Copies
    <3>4. \A i \in DOMAIN Top.fields : i < Top.next
      <4>1. Top.fields \in Seq(Value) /\ DOMAIN Top.fields = 1..Len(Top.fields)
        BY <1>1, TopFrame DEF Frame
      <4>2. Len(Top.fields) \in Nat
        BY <4>1
      <4> QED BY <1>1, <4>1, <4>2
    <3>5. DOMAIN slots'[fwd[a]] = DOMAIN before.slots[a]
      BY <3>3 DEF MovedUpTo
    <3>6. ASSUME NEW i \in DOMAIN before.slots[a] PROVE Goes(before.slots[a][i], slots[fwd[a]][i])'
      <4>1. Goes(before.slots[a][i], Top.fields[i])
        BY <3>3, <3>4 DEF MovedUpTo
      <4>2. ASSUME NEW x, NEW y, x = before.slots[a][i], y = Top.fields[i]
            PROVE  Goes(before.slots[a][i], slots[fwd[a]][i])'
        <5>1. Goes(x, y)'
          BY <1>4, <4>1, <4>2, GoesStable
        <5>2. x = before'.slots[a][i] /\ y = slots'[fwd'[a]][i]
          BY <1>1, <2>2, <4>2
        <5> QED BY <5>1, <5>2, NextSlot
      <4> QED BY <4>2
    <3> QED BY <3>5, <3>6
  <2> QED BY <2>1, <2>2
<1> QED BY <1>5, <1>6, <1>7 DEF GInv

LEMMA NextGInv == IInv /\ SInv /\ GInv /\ [Next]_vars => GInv'
<1> SUFFICES ASSUME IInv, SInv, GInv, [Next]_vars PROVE GInv'
  OBVIOUS
<1>1. CASE Mutate
  <2>1. phase' = "mutator"
    BY <1>1 DEF Mutate, AllocLeaf, AllocFields, AllocEmptyList, AllocList, ListPushInPlace,
       ListPushRealloc, ListClear, ListSetAt, ListRemove, SetContent, SetField, AssignRoot
  <2> QED BY <2>1 DEF GInv
<1>2. CASE GcStart
  <2>1. /\ phase = "mutator" /\ newArena' = {} /\ pending' = Root /\ stack' = <<>>
        /\ before' = [root |-> root, slots |-> slots, kind |-> kind]
        /\ UNCHANGED <<arena, tag, kind, slots, cap, fwd, root>>
    BY <1>2 DEF GcStart, TracedCells
  <2>2. \A a \in arena : tag'[a] = "object"
    BY <2>1 DEF IInv, OldArena
  <2>3. OldObjects' /\ OneCopy' /\ FinishedCopies' /\ CopiesInProgress' /\ RootsMoved'
    BY <2>1, <2>2 DEF OldObjects, OneCopy, FinishedCopies, CopiesInProgress, RootsMoved
  <2> QED BY <2>3 DEF GInv
<1>3. ASSUME NEW r \in Root, TraceRoot(r) PROVE GInv'
  BY <1>3, TraceRootGInv
<1>4. ASSUME NEW r \in Root, NEW n \in Addr, CopyRoot(r, n) PROVE GInv'
  <2>1. root[r] \in arena /\ CopyValue(root[r], n) /\ phase = "tracing"
    BY <1>4, CopiesOld
  <2> QED BY <1>4, <2>1, CopyGInv DEF CopyRoot
<1>5. CASE TraceField
  BY <1>5, TraceFieldGInv
<1>6. ASSUME NEW n \in Addr, CopyField(n) PROVE GInv'
  <2>1. Top.fields[Top.next] \in arena /\ CopyValue(Top.fields[Top.next], n) /\ phase = "tracing"
    BY <1>6, CopiesOld
  <2> QED BY <1>6, <2>1, CopyGInv DEF CopyField
<1>7. CASE Fill
  BY <1>7, FillGInv
<1>8. CASE GcFinish
  BY <1>8 DEF GcFinish, GInv
<1>9. CASE UNCHANGED vars
  BY <1>9 DEF vars, heapVars, GInv, OldObjects, OneCopy, FinishedCopies, CopiesInProgress, RootsMoved,
     Copies, MovedUpTo, Goes, EmptyBefore
<1> QED BY <1>1, <1>2, <1>3, <1>4, <1>5, <1>6, <1>7, <1>8, <1>9 DEF Next, Tracing

(* A finished collection has made an exact copy of the graph: kinds, order *)
(* of fields, sharing and cycles, whatever the graph and the order in      *)
(* which the roots are traced.                                             *)
THEOREM CopyIsExact == Spec => []GraphPreserved
<1>0. Init => GInv
  BY DEF Init, GInv
<1>1. IInv /\ GInv => GraphPreserved
  <2> SUFFICES ASSUME IInv, GInv, phase = "tracing", stack = <<>>, pending = {}
               PROVE  /\ \A r \in Root : root[r] = Moved(before.root[r])
                      /\ \A a \in arena : tag[a] = "forward" =>
                            /\ tag[fwd[a]] = "object"
                            /\ kind[fwd[a]] = before.kind[a]
                            /\ slots[fwd[a]] = [i \in DOMAIN before.slots[a] |-> Moved(before.slots[a][i])]
                      /\ OneCopy
    BY DEF GraphPreserved, OneCopy
  <2>1. \A v, w : Goes(v, w) => w = Moved(v)
    BY HeapAssumption DEF Goes, Moved, EmptyBefore, IInv, TypeOK
  <2>2. \A r \in Root : root[r] = Moved(before.root[r])
    BY <2>1 DEF GInv, RootsMoved
  <2>3. ASSUME NEW a \in arena, tag[a] = "forward"
        PROVE  /\ tag[fwd[a]] = "object"
               /\ kind[fwd[a]] = before.kind[a]
               /\ slots[fwd[a]] = [i \in DOMAIN before.slots[a] |-> Moved(before.slots[a][i])]
    <3>1. fwd[a] \in newArena /\ kind[fwd[a]] = before.kind[a]
      BY <2>3 DEF IInv, OldArena, GInv, OldObjects
    <3>2. tag[fwd[a]] = "object"
      BY <3>1 DEF IInv, NewArenaClosed
    <3>3. /\ DOMAIN slots[fwd[a]] = DOMAIN before.slots[a]
          /\ \A i \in DOMAIN before.slots[a] : Goes(before.slots[a][i], slots[fwd[a]][i])
      BY <2>3, <3>2 DEF GInv, FinishedCopies
    <3>4. \A i \in DOMAIN before.slots[a] : slots[fwd[a]][i] = Moved(before.slots[a][i])
      BY <2>1, <3>3
    <3>5. slots[fwd[a]] \in Seq(Value)
      BY <3>1 DEF IInv, TypeOK
    <3> QED BY <3>1, <3>2, <3>3, <3>4, <3>5
  <2> QED BY <2>2, <2>3 DEF GInv
<1> QED BY InitIInv, NextIInv, InitSInv, NextSInv, <1>0, NextGInv, <1>1, PTL DEF Spec

-----------------------------------------------------------------------------
(* Garbage.  While it is being built, the new arena is what the roots and  *)
(* the copies in progress reach when old pointers are read through their   *)
(* forwards: every set closed under those links contains it.               *)
Look(v) == IF v \in arena /\ tag[v] = "forward" THEN fwd[v] ELSE v

RootsIn(T)   == \A r \in Root : Look(root[r]) \in newArena => Look(root[r]) \in T
ObjectsIn(T) == \A m \in newArena : m \in T /\ tag[m] = "object" =>
                   \A i \in DOMAIN slots[m] : slots[m][i] \in newArena => slots[m][i] \in T
FrameIn(f, T) == f.new \in T =>
                   \A i \in DOMAIN f.fields : Look(f.fields[i]) \in newArena => Look(f.fields[i]) \in T
FramesIn(T)  == \A k \in DOMAIN stack : FrameIn(stack[k], T)
ClosedIn(T)  == RootsIn(T) /\ ObjectsIn(T) /\ FramesIn(T)

RInv == phase = "tracing" => \A T \in SUBSET Addr : ClosedIn(T) => newArena \subseteq T

LEMMA CopyRInv ==
  ASSUME IInv, RInv, phase = "tracing", NEW v \in arena, NEW n \in Addr, CopyValue(v, n),
         UNCHANGED <<root, phase, pending, before>>,
         (\E r \in Root : v = root[r]) \/
            (stack # <<>> /\ Top.next \in DOMAIN Top.fields /\ v = Top.fields[Top.next])
  PROVE  RInv'
<1>0. Copied(v, n)
  BY CopyEffect
<1>1. /\ n \notin arena /\ n \notin newArena /\ n # v /\ v \in Addr
      /\ tag[v] = "object" /\ arena' = arena /\ newArena' = newArena \cup {n}
      /\ tag'[v] = "forward" /\ fwd'[v] = n
      /\ \A a \in Addr : a # v => fwd'[a] = fwd[a]
      /\ \A a \in Addr : a # n /\ a # v => tag'[a] = tag[a] /\ slots'[a] = slots[a]
      /\ arena \subseteq Addr /\ newArena \subseteq Addr /\ arena \cap newArena = {}
  BY <1>0 DEF Copied, IInv, TypeOK, Disjoint
<1>2. \A x : Look(x) \in newArena => Look(x)' = Look(x) /\ Look(x)' \in newArena'
  BY <1>1 DEF Look
<1>3. \A x : x = v => Look(x)' = n
  BY <1>1 DEF Look
<1>4. \A k \in DOMAIN stack : k \in DOMAIN stack' /\ stack'[k] = stack[k]
  BY <1>0 DEF Copied
<1>5. ASSUME NEW T \in SUBSET Addr, ClosedIn(T)' PROVE newArena' \subseteq T
  <2>1. RootsIn(T)
    <3> SUFFICES ASSUME NEW r \in Root, Look(root[r]) \in newArena PROVE Look(root[r]) \in T
      BY DEF RootsIn
    <3>1. ASSUME NEW x, x = root[r] PROVE Look(x) \in T
      <4>1. Look(x)' = Look(x) /\ Look(x)' \in newArena'
        BY <1>2, <3>1
      <4>2. root'[r] = x
        BY <3>1
      <4>3. Look(x)' \in newArena' => Look(x)' \in T
        BY <1>5, <4>2 DEF ClosedIn, RootsIn, Look
      <4> QED BY <4>1, <4>3
    <3> QED BY <3>1
  <2>2. ObjectsIn(T)
    <3>1. ObjectsIn(T)'
      BY <1>5 DEF ClosedIn
    <3> SUFFICES ASSUME NEW m \in newArena, m \in T, tag[m] = "object",
                        NEW i \in DOMAIN slots[m], slots[m][i] \in newArena
                 PROVE  slots[m][i] \in T
      BY DEF ObjectsIn
    <3>2. tag'[m] = tag[m] /\ slots'[m] = slots[m] /\ m \in newArena' /\ slots[m][i] \in newArena'
      BY <1>1
    <3> QED BY <3>1, <3>2 DEF ObjectsIn
  <2>3. ASSUME NEW k \in DOMAIN stack PROVE FrameIn(stack[k], T)
    <3>1. ASSUME NEW f, f = stack[k] PROVE FrameIn(f, T)
      <4>1. f = stack'[k] /\ k \in DOMAIN stack'
        BY <1>4, <3>1
      <4>2. FrameIn(f, T)'
        BY <1>5, <4>1 DEF ClosedIn, FramesIn, FrameIn, Look
      <4> QED BY <1>2, <4>2 DEF FrameIn
    <3> QED BY <3>1
  <2>4. newArena \subseteq T
    BY <2>1, <2>2, <2>3 DEF RInv, ClosedIn, FramesIn
  <2>5. n \in T
    <3>1. ASSUME NEW r \in Root, v = root[r] PROVE n \in T
      <4>1. Look(root[r])' = n /\ n \in newArena'
        BY <1>1, <3>1 DEF Look
      <4> QED BY <1>5, <4>1 DEF ClosedIn, RootsIn
    <3>2. ASSUME stack # <<>>, Top.next \in DOMAIN Top.fields, v = Top.fields[Top.next] PROVE n \in T
      <4>1. ASSUME NEW f, f = Top, NEW k, k = Len(stack), NEW i, i = Top.next PROVE n \in T
        <5>1. k \in DOMAIN stack /\ f = stack[k] /\ f.new \in newArena
          BY <3>2, <4>1, TopFrame DEF IInv, Frames
        <5>2. f = stack'[k] /\ k \in DOMAIN stack'
          BY <1>4, <5>1
        <5>3. FrameIn(f, T)'
          BY <1>5, <5>2 DEF ClosedIn, FramesIn, FrameIn, Look
        <5>4. f.new \in T /\ i \in DOMAIN f.fields /\ v = f.fields[i]
          BY <2>4, <3>2, <4>1, <5>1
        <5>5. Look(f.fields[i])' = n /\ n \in newArena'
          BY <1>1, <1>3, <5>4
        <5> QED BY <5>3, <5>4, <5>5 DEF FrameIn
      <4> QED BY <4>1
    <3> QED BY <3>1, <3>2
  <2> QED BY <1>1, <2>4, <2>5
<1> QED BY <1>5 DEF RInv

\* Tracer::adjust changes the word, not what it stands for.
LEMMA AdjustLooks ==
  ASSUME IInv, phase = "tracing", NEW v \in arena \cup Frozen, Settled(v)
  PROVE  Look(v) \in newArena => Look(AdjustSettled(v)) = Look(v)
<1>1. AdjustSettled(v) \in newArena \cup Frozen
  BY AdjustedLive
<1>2. /\ arena \cap newArena = {} /\ arena \subseteq Addr /\ newArena \subseteq Addr /\ Addr \cap Frozen = {}
  BY HeapAssumption DEF IInv, Disjoint, TypeOK
<1>3. Look(AdjustSettled(v)) = AdjustSettled(v)
  BY <1>1, <1>2 DEF Look
<1> QED BY <1>2, <1>3 DEF Look, AdjustSettled

LEMMA NextRInv == IInv /\ RInv /\ [Next]_vars => RInv'
<1> SUFFICES ASSUME IInv, RInv, [Next]_vars PROVE RInv'
  OBVIOUS
<1>1. CASE Mutate
  <2>1. phase' = "mutator"
    BY <1>1 DEF Mutate, AllocLeaf, AllocFields, AllocEmptyList, AllocList, ListPushInPlace,
       ListPushRealloc, ListClear, ListSetAt, ListRemove, SetContent, SetField, AssignRoot
  <2> QED BY <2>1 DEF RInv
<1>2. CASE GcStart
  BY <1>2 DEF GcStart, RInv
<1>3. ASSUME NEW r \in Root, TraceRoot(r) PROVE RInv'
  <2>1. /\ phase = "tracing" /\ r \in pending /\ Settled(root[r])
        /\ root' = [root EXCEPT ![r] = AdjustSettled(root[r])] /\ root \in [Root -> Value]
        /\ UNCHANGED <<arena, newArena, tag, kind, slots, cap, fwd, phase, stack, before>>
        /\ root[r] \in arena \cup Frozen
    BY <1>3 DEF TraceRoot, heapVars, IInv, TypeOK, Roots
  <2>2. Look(root[r]) \in newArena => Look(AdjustSettled(root[r])) = Look(root[r])
    BY <2>1, AdjustLooks
  <2>3. \A x : Look(x)' = Look(x)
    BY <2>1 DEF Look
  <2>4. ASSUME NEW T \in SUBSET Addr, ClosedIn(T)' PROVE newArena \subseteq T
    <3>1. ASSUME NEW q \in Root, Look(root[q]) \in newArena PROVE Look(root[q]) \in T
      <4>0. Look(root'[q]) \in newArena => Look(root'[q]) \in T
        BY <2>1, <2>4 DEF ClosedIn, RootsIn, Look
      <4>1. CASE q = r
        BY <2>1, <2>2, <3>1, <4>0, <4>1
      <4>2. CASE q # r
        BY <2>1, <3>1, <4>0, <4>2
      <4> QED BY <4>1, <4>2
    <3>2. ObjectsIn(T) /\ FramesIn(T)
      BY <2>1, <2>4 DEF ClosedIn, ObjectsIn, FramesIn, FrameIn, Look
    <3> QED BY <2>1, <3>1, <3>2 DEF RInv, ClosedIn, RootsIn
  <2> QED BY <2>1, <2>4 DEF RInv
<1>4. ASSUME NEW r \in Root, NEW n \in Addr, CopyRoot(r, n) PROVE RInv'
  <2>1. root[r] \in arena /\ CopyValue(root[r], n) /\ phase = "tracing"
    BY <1>4, CopiesOld
  <2> QED BY <1>4, <2>1, CopyRInv DEF CopyRoot
<1>5. CASE TraceField
  <2>1. /\ phase = "tracing" /\ Settled(Top.fields[Top.next])
        /\ Top.next \in DOMAIN Top.fields
        /\ Top.fields[Top.next] \in arena \cup Frozen
        /\ UNCHANGED <<arena, newArena, tag, kind, slots, cap, fwd, root, phase, pending, before>>
        /\ DOMAIN stack' = DOMAIN stack /\ Len(stack) \in DOMAIN stack
        /\ \A k \in DOMAIN stack : k # Len(stack) => stack'[k] = stack[k]
        /\ \A k \in DOMAIN stack : /\ stack'[k].new = stack[k].new
                                   /\ DOMAIN stack'[k].fields = DOMAIN stack[k].fields
        /\ Top' = stack'[Len(stack)]
        /\ Top'.fields[Top.next] = AdjustSettled(Top.fields[Top.next])
        /\ \A i \in DOMAIN Top.fields : i # Top.next => Top'.fields[i] = Top.fields[i]
    BY <1>5, TraceFieldEffect
  <2>2. Look(Top.fields[Top.next]) \in newArena => Look(AdjustSettled(Top.fields[Top.next])) = Look(Top.fields[Top.next])
    BY <2>1, AdjustLooks
  <2>3. \A k \in DOMAIN stack : \A i \in DOMAIN stack[k].fields :
           Look(stack[k].fields[i]) \in newArena => Look(stack'[k].fields[i]) = Look(stack[k].fields[i])
    <3> SUFFICES ASSUME NEW k \in DOMAIN stack, NEW i \in DOMAIN stack[k].fields,
                        Look(stack[k].fields[i]) \in newArena
                 PROVE  Look(stack'[k].fields[i]) = Look(stack[k].fields[i])
      OBVIOUS
    <3>1. CASE k # Len(stack)
      BY <2>1, <3>1
    <3>2. CASE k = Len(stack) /\ i # Top.next
      BY <2>1, <3>2 DEF Top
    <3>3. CASE k = Len(stack) /\ i = Top.next
      BY <2>1, <2>2, <3>3 DEF Top
    <3> QED BY <3>1, <3>2, <3>3
  <2>4. ASSUME NEW T \in SUBSET Addr, ClosedIn(T)' PROVE newArena \subseteq T
    <3>1. RootsIn(T) /\ ObjectsIn(T)
      BY <2>1, <2>4 DEF ClosedIn, RootsIn, ObjectsIn, Look
    <3>2. ASSUME NEW k \in DOMAIN stack, stack[k].new \in T, NEW i \in DOMAIN stack[k].fields,
                 Look(stack[k].fields[i]) \in newArena
          PROVE  Look(stack[k].fields[i]) \in T
      <4>1. Look(stack'[k].fields[i]) \in newArena => Look(stack'[k].fields[i]) \in T
        <5>1. k \in DOMAIN stack' /\ stack'[k].new \in T /\ i \in DOMAIN stack'[k].fields
          BY <2>1, <3>2
        <5> QED BY <2>1, <2>4, <5>1 DEF ClosedIn, FramesIn, FrameIn, Look
      <4> QED BY <2>3, <3>2, <4>1
    <3>3. FramesIn(T)
      BY <3>2 DEF FramesIn, FrameIn
    <3> QED BY <2>1, <3>1, <3>3 DEF RInv, ClosedIn
  <2> QED BY <2>1, <2>4 DEF RInv
<1>6. ASSUME NEW n \in Addr, CopyField(n) PROVE RInv'
  <2>1. Top.fields[Top.next] \in arena /\ CopyValue(Top.fields[Top.next], n) /\ phase = "tracing" /\ Top.next \in DOMAIN Top.fields
    BY <1>6, CopiesOld
  <2> QED BY <1>6, <2>1, CopyRInv DEF CopyField
<1>7. CASE Fill
  <2>1. /\ phase = "tracing" /\ stack # <<>> /\ Top.next = Len(Top.fields) + 1
        /\ Top.new \in newArena
        /\ UNCHANGED <<arena, newArena, kind, cap, fwd, root, phase, pending, before>>
        /\ tag[Top.new] = "blackHole" /\ tag'[Top.new] = "object" /\ slots'[Top.new] = Top.fields
        /\ \A a \in Addr : a # Top.new => tag'[a] = tag[a] /\ slots'[a] = slots[a]
        /\ Len(stack) \in DOMAIN stack
        /\ \A k \in DOMAIN stack' : k \in DOMAIN stack /\ stack'[k] = stack[k]
        /\ \A k \in DOMAIN stack : k # Len(stack) => k \in DOMAIN stack'
        /\ arena \subseteq Addr /\ newArena \subseteq Addr /\ arena \cap newArena = {} /\ Top.new \notin arena
        /\ Addr \cap Frozen = {}
    BY <1>7, FillEffect, HeapAssumption DEF IInv, TypeOK, Disjoint
  <2>2. \A i \in DOMAIN Top.fields : Top.fields[i] \in newArena \cup Frozen
    <3>1. Top.fields \in Seq(Value) /\ DOMAIN Top.fields = 1..Len(Top.fields)
          /\ \A i \in DOMAIN Top.fields :
               Top.fields[i] \in (IF i < Top.next THEN newArena ELSE arena) \cup Frozen
      BY <2>1, TopFrame DEF Frame
    <3>2. Len(Top.fields) \in Nat
      BY <3>1
    <3>3. \A i \in DOMAIN Top.fields : i < Top.next
      BY <2>1, <3>1, <3>2
    <3> QED BY <3>1, <3>3
  <2>3. \A x : Look(x)' = Look(x)
    BY <2>1 DEF Look
  <2>4. ASSUME NEW T \in SUBSET Addr, ClosedIn(T)' PROVE newArena \subseteq T
    <3>1. RootsIn(T)
      <4> SUFFICES ASSUME NEW r \in Root, Look(root[r]) \in newArena PROVE Look(root[r]) \in T
        BY DEF RootsIn
      <4>1. Look(root[r])' = Look(root[r])
        BY <2>1 DEF Look
      <4> QED BY <2>1, <2>4, <4>1 DEF ClosedIn, RootsIn
    <3>2. ObjectsIn(T)
      BY <2>1, <2>4 DEF ClosedIn, ObjectsIn
    <3>3. ASSUME NEW k \in DOMAIN stack, stack[k].new \in T, NEW i \in DOMAIN stack[k].fields,
                 Look(stack[k].fields[i]) \in newArena
          PROVE  Look(stack[k].fields[i]) \in T
      <4>1. CASE k # Len(stack)
        <5>1. k \in DOMAIN stack' /\ stack'[k] = stack[k]
          BY <2>1, <3>3, <4>1
        <5>2. ASSUME NEW f, f = stack[k] PROVE Look(f.fields[i]) \in T
          <6>1. FrameIn(f, T)'
            BY <2>4, <5>1, <5>2 DEF ClosedIn, FramesIn, FrameIn, Look
          <6>2. Look(f.fields[i])' \in newArena' => Look(f.fields[i])' \in T
            BY <3>3, <5>2, <6>1 DEF FrameIn
          <6> QED BY <2>1, <2>3, <3>3, <5>2, <6>2
        <5> QED BY <5>2
      <4>2. CASE k = Len(stack)
        <5>1. stack[k] = Top /\ Top.new \in T /\ i \in DOMAIN Top.fields
          BY <3>3, <4>2 DEF Top
        <5>2. Look(Top.fields[i]) = Top.fields[i] /\ Top.fields[i] \in newArena
          BY <2>1, <2>2, <3>3, <5>1 DEF Look
        <5>3. Top.fields[i] \in T
          BY <2>1, <2>4, <5>1, <5>2 DEF ClosedIn, ObjectsIn
        <5> QED BY <5>1, <5>2, <5>3
      <4> QED BY <4>1, <4>2
    <3>4. FramesIn(T)
      BY <3>3 DEF FramesIn, FrameIn
    <3> QED BY <2>1, <3>1, <3>2, <3>4 DEF RInv, ClosedIn
  <2> QED BY <2>1, <2>4 DEF RInv
<1>8. CASE GcFinish
  BY <1>8 DEF GcFinish, RInv
<1>9. CASE UNCHANGED vars
  BY <1>9 DEF vars, heapVars, RInv, ClosedIn, RootsIn, ObjectsIn, FramesIn, FrameIn, Look
<1> QED BY <1>1, <1>2, <1>3, <1>4, <1>5, <1>6, <1>7, <1>8, <1>9 DEF Next, Tracing

(* A collection keeps exactly what the roots reach.                        *)
THEOREM GarbageReclaimed == Spec => GcReclaimsGarbage
<1>0. Init => RInv
  BY DEF Init, RInv
<1>1. IInv /\ RInv /\ [Next]_vars => [GcFinish => arena' = Reachable(arena', root', slots')]_vars
  <2> SUFFICES ASSUME IInv, RInv, GcFinish
               PROVE  arena' = Reachable(arena', root', slots')
    OBVIOUS
  <2>1. /\ phase = "tracing" /\ stack = <<>> /\ pending = {} /\ arena' = newArena /\ root' = root
        /\ \A m \in newArena : tag[m] = "object" /\ slots'[m] = slots[m]
        /\ newArena \subseteq Addr /\ arena \subseteq Addr /\ Addr \cap Frozen = {} /\ arena \cap newArena = {}
        /\ \A r \in Root : root[r] \in newArena \cup Frozen
    BY HeapAssumption DEF GcFinish, Survivors, IInv, NewArenaClosed, TypeOK, Disjoint, Roots
  <2>2. ASSUME NEW T \in SUBSET newArena,
               \A r \in Root : root[r] \in newArena => root[r] \in T,
               \A b \in T : \A i \in DOMAIN slots'[b] : slots'[b][i] \in newArena => slots'[b][i] \in T
        PROVE  newArena \subseteq T
    <3>1. RootsIn(T)
      BY <2>1, <2>2 DEF RootsIn, Look
    <3>2. ObjectsIn(T)
      BY <2>1, <2>2 DEF ObjectsIn
    <3>3. FramesIn(T)
      BY <2>1 DEF FramesIn
    <3>4. T \in SUBSET Addr
      BY <2>1
    <3> QED BY <2>1, <3>1, <3>2, <3>3, <3>4 DEF RInv, ClosedIn
  <2>3. \A a \in newArena : a \in Reachable(newArena, root, slots')
    BY <2>2 DEF Reachable
  <2>4. Reachable(newArena, root, slots') \subseteq newArena
    BY DEF Reachable
  <2>5. Reachable(newArena, root, slots') = newArena
    BY <2>3, <2>4
  <2> QED BY <2>1, <2>5
<1> QED BY InitIInv, NextIInv, <1>0, NextRInv, <1>1, PTL DEF Spec, GcReclaimsGarbage

-----------------------------------------------------------------------------
(* Termination: the measure of GcMakesProgress.                            *)
LEMMA EarlierCases ==
  ASSUME NEW a, NEW b, NEW c, NEW d, NEW a1, NEW b1, NEW c1, NEW d1,
         \/ a < a1
         \/ a = a1 /\ b < b1
         \/ a = a1 /\ b = b1 /\ c < c1
         \/ a = a1 /\ b = b1 /\ c = c1 /\ d < d1
  PROVE  Earlier(<<a, b, c, d>>, <<a1, b1, c1, d1>>)
<1> DEFINE m == <<a, b, c, d>>
           n == <<a1, b1, c1, d1>>
<1>1. /\ DOMAIN m = {1, 2, 3, 4}
      /\ m[1] = a /\ m[2] = b /\ m[3] = c /\ m[4] = d
      /\ n[1] = a1 /\ n[2] = b1 /\ n[3] = c1 /\ n[4] = d1
  OBVIOUS
<1>2. 1..(1 - 1) = {} /\ 1..(2 - 1) = {1} /\ 1..(3 - 1) = {1, 2} /\ 1..(4 - 1) = {1, 2, 3}
  OBVIOUS
<1> HIDE DEF m, n
<1>3. \E i \in DOMAIN m : m[i] < n[i] /\ \A j \in 1..(i - 1) : m[j] = n[j]
  <2>1. CASE a < a1
    BY <1>1, <1>2, <2>1
  <2>2. CASE a = a1 /\ b < b1
    BY <1>1, <1>2, <2>2
  <2>3. CASE a = a1 /\ b = b1 /\ c < c1
    BY <1>1, <1>2, <2>3
  <2>4. CASE a = a1 /\ b = b1 /\ c = c1 /\ d < d1
    BY <1>1, <1>2, <2>4
  <2> QED BY <2>1, <2>2, <2>3, <2>4
<1> QED BY <1>3 DEF Earlier, m, n

LEMMA SmallerSet ==
  ASSUME NEW S, NEW T, IsFiniteSet(S), T \subseteq S, T # S
  PROVE  Cardinality(T) < Cardinality(S)
<1>1. /\ IsFiniteSet(T) /\ Cardinality(T) <= Cardinality(S) /\ Cardinality(T) # Cardinality(S)
      /\ Cardinality(T) \in Nat /\ Cardinality(S) \in Nat
  BY FS_Subset, FS_CardinalityType
<1> QED BY <1>1

LEMMA CopyProgress ==
  ASSUME IInv, SInv, phase = "tracing", NEW v \in arena, NEW n \in Addr, CopyValue(v, n)
  PROVE  Cardinality(Uncopied') < Cardinality(Uncopied)
<1>0. Copied(v, n)
  BY CopyEffect
<1>1. /\ n \notin arena /\ tag[v] = "object" /\ arena' = arena /\ tag'[v] = "forward"
      /\ \A a \in Addr : a # n /\ a # v => tag'[a] = tag[a]
      /\ arena \subseteq Addr
  BY <1>0 DEF Copied, IInv, TypeOK
<1>2. v \in Uncopied /\ v \notin Uncopied' /\ Uncopied' \subseteq Uncopied
  BY <1>1 DEF Uncopied
<1>3. IsFiniteSet(Uncopied)
  <2>1. Uncopied \subseteq arena
    BY DEF Uncopied
  <2> QED BY <2>1, FS_Subset DEF SInv
<1>4. ASSUME NEW S, NEW T, S = Uncopied, T = Uncopied' PROVE Cardinality(T) < Cardinality(S)
  BY <1>2, <1>3, <1>4, SmallerSet
<1> QED BY <1>4

(* Every step of a collection but the last lowers the measure, so that a   *)
(* collection ends.                                                        *)
THEOREM GcTerminates == Spec => GcMakesProgress
<1> DEFINE A == phase = "tracing" /\ phase' = "tracing" =>
         Earlier(<<Cardinality(Uncopied'), Cardinality(pending'), Len(stack'), FieldsLeft'>>,
                 <<Cardinality(Uncopied), Cardinality(pending), Len(stack), FieldsLeft>>)
<1>1. IInv /\ SInv /\ [Next]_vars => [A]_vars
  <2> SUFFICES ASSUME IInv, SInv, Next, phase = "tracing", phase' = "tracing"
               PROVE  Earlier(<<Cardinality(Uncopied'), Cardinality(pending'), Len(stack'), FieldsLeft'>>,
                              <<Cardinality(Uncopied), Cardinality(pending), Len(stack), FieldsLeft>>)
    OBVIOUS
  <2>1. \/ \E r \in Root : TraceRoot(r)
        \/ \E r \in Root, n \in Addr : CopyRoot(r, n)
        \/ TraceField
        \/ \E n \in Addr : CopyField(n)
        \/ Fill
    BY DEF Next, Mutate, GcStart, Tracing, GcFinish
  <2>2. ASSUME NEW r \in Root, TraceRoot(r)
        PROVE  Uncopied' = Uncopied /\ Cardinality(pending') < Cardinality(pending)
    <3>1. r \in pending /\ pending' = pending \ {r} /\ UNCHANGED <<arena, tag>>
      BY <2>2 DEF TraceRoot, heapVars
    <3>2. IsFiniteSet(pending)
      BY HeapAssumption, FS_Subset DEF IInv, TypeOK
    <3>3. ASSUME NEW S, NEW T, S = pending, T = pending' PROVE Cardinality(T) < Cardinality(S)
      BY <3>1, <3>2, <3>3, SmallerSet
    <3> QED BY <3>1, <3>3 DEF Uncopied
  <2>3. ASSUME NEW r \in Root, NEW n \in Addr, CopyRoot(r, n)
        PROVE  Cardinality(Uncopied') < Cardinality(Uncopied)
    BY <2>3, CopiesOld, CopyProgress
  <2>4. ASSUME TraceField
        PROVE  /\ Uncopied' = Uncopied /\ pending' = pending /\ Len(stack') = Len(stack)
               /\ FieldsLeft' < FieldsLeft
    <3>1. /\ stack # <<>> /\ stack' # <<>>
          /\ UNCHANGED <<arena, tag, pending>> /\ Len(stack') = Len(stack)
          /\ Top'.next = Top.next + 1 /\ Top.next \in Nat
      BY <2>4, TraceFieldEffect
    <3>2. Len(Top'.fields) = Len(Top.fields)
      <4>1. /\ Len(stack) \in DOMAIN stack /\ Top' = stack'[Len(stack)]
            /\ \A k \in DOMAIN stack : Len(stack'[k].fields) = Len(stack[k].fields)
        BY <2>4, TraceFieldEffect
      <4> QED BY <4>1 DEF Top
    <3>3. Len(Top.fields) \in Nat
      <4>1. Top.fields \in Seq(Value)
        BY <3>1, TopFrame DEF Frame
      <4> QED BY <4>1
    <3>4. FieldsLeft = Len(Top.fields) + 1 - Top.next /\ FieldsLeft' = Len(Top'.fields) + 1 - Top'.next
      BY <3>1 DEF FieldsLeft
    <3> HIDE DEF Top
    <3>5. FieldsLeft' < FieldsLeft
      BY <3>1, <3>2, <3>3, <3>4
    <3> QED BY <3>1, <3>5 DEF Uncopied
  <2>5. ASSUME NEW n \in Addr, CopyField(n) PROVE Cardinality(Uncopied') < Cardinality(Uncopied)
    BY <2>5, CopiesOld, CopyProgress
  <2>6. ASSUME Fill
        PROVE  Uncopied' = Uncopied /\ pending' = pending /\ Len(stack') < Len(stack)
    <3>1. /\ UNCHANGED <<arena, pending>> /\ Len(stack') = Len(stack) - 1 /\ Len(stack) \in Nat
          /\ \A a \in Addr : a # Top.new => tag'[a] = tag[a]
          /\ Top.new \notin arena /\ arena \subseteq Addr
      BY <2>6, FillEffect DEF IInv, TypeOK
    <3>2. Uncopied' = Uncopied
      BY <3>1 DEF Uncopied
    <3> QED BY <3>1, <3>2
  <2> DEFINE u == Cardinality(Uncopied)
             u1 == Cardinality(Uncopied')
             p == Cardinality(pending)
             p1 == Cardinality(pending')
             l == Len(stack)
             l1 == Len(stack')
             f == FieldsLeft
             f1 == FieldsLeft'
  <2>7. \/ u1 < u
        \/ u1 = u /\ p1 < p
        \/ u1 = u /\ p1 = p /\ l1 < l
        \/ u1 = u /\ p1 = p /\ l1 = l /\ f1 < f
    BY <2>1, <2>2, <2>3, <2>4, <2>5, <2>6, Zenon
  <2> HIDE DEF u, u1, p, p1, l, l1, f, f1
  <2>8. Earlier(<<u1, p1, l1, f1>>, <<u, p, l, f>>)
    BY <2>7, EarlierCases
  <2> QED BY <2>8 DEF u, u1, p, p1, l, l1, f, f1
<1> HIDE DEF A
<1>2. GcMakesProgress <=> [][A]_vars
  BY DEF GcMakesProgress, A
<1> QED BY InitIInv, NextIInv, InitSInv, NextSInv, <1>1, <1>2, PTL DEF Spec
=============================================================================
