------------------------- MODULE ModuleFreezeProofs -------------------------
(***************************************************************************)
(* Freezing a module: for every heap the evaluation can leave, of any size *)
(* and shape, cycles included, what is published is complete, is the same  *)
(* graph, and every function in it is completed; freezing fails only on a  *)
(* reachable value that cannot be frozen.                                  *)
(*                                                                         *)
(* The parts of the invariant take the heaps and the stack of heap_freeze  *)
(* calls as parameters, so that an action that does two things (fill an    *)
(* object and hand it to the caller) can be taken in two steps.            *)
(***************************************************************************)
EXTENDS ModuleFreeze, FrozenHeaps, SeqFacts

(* The frozen counterpart of word v under the forwards g, once it has one. *)
Known(g, v) == v = Old \/ g[v[2]] # NoForward
ImageBy(g, v) == IF v = Old THEN Old ELSE g[v[2]]

ObjectOf(h) == [kind : Kind, elems : Seq(Value(h)), module : ModuleRef]
FObjectOf(f) == [tag : {"blackHole", "object"}, kind : Kind,
                 elems : Seq(FValue(f) \cup {Uninit}), module : ModuleRef,
                 optimized : BOOLEAN]
FrameOf(h, f) == [src : DOMAIN h, new : DOMAIN f, fields : Seq(Value(h)),
                  out : Seq(FValue(f))]

Types(h, sl, g, f, w, fs, ds) ==
    /\ h \in Seq(ObjectOf(h))
    /\ sl \in Seq(Value(h))
    /\ g \in Seq(FValue(f) \cup {NoForward})
    /\ Len(g) = Len(h)
    /\ f \in Seq(FObjectOf(f))
    /\ fs \in Seq(FValue(f))
    /\ w \in Seq(FrameOf(h, f))
    /\ ds \in Seq(DOMAIN f)

(* Static objects are forwarded to static values, the others to places of  *)
(* their own in the frozen heap, and the frozen heap has no other places.  *)
Forwards(h, g, f) ==
    /\ \A i \in 1..Len(h) :
         \/ g[i] = NoForward
         \/ g[i] \in {EmptyList, Static} /\ IsStatic(h[i])
         \/ /\ ~IsStatic(h[i]) /\ h[i].kind # "noFreeze"
            /\ \E a \in 1..Len(f) : g[i] = F(a)
    /\ \A i, j \in 1..Len(h), a \in 1..Len(f) : g[i] = F(a) /\ g[j] = F(a) => i = j
    /\ \A a \in 1..Len(f) : \E i \in 1..Len(h) : g[i] = F(a)

(* A heap_freeze in progress: its object is forwarded, and what it has     *)
(* collected are the counterparts of its first fields.                     *)
FrameOk(h, g, f, fr) ==
    /\ fr.src \in 1..Len(h) /\ fr.new \in 1..Len(f)
    /\ g[fr.src] = F(fr.new)
    /\ fr.fields = h[fr.src].elems
    /\ Len(fr.out) <= Len(fr.fields)
    /\ \A j \in 1..Len(fr.out) : /\ Known(g, fr.fields[j])
                                 /\ fr.out[j] = ImageBy(g, fr.fields[j])
    /\ f[fr.new].kind = h[fr.src].kind
    /\ h[fr.src].kind = "list" =>
         /\ Len(f[fr.new].elems) = Len(fr.fields)
         /\ \A j \in 1..Len(fr.out) : f[fr.new].elems[j] = fr.out[j]

Frames(h, g, f, w) ==
    /\ \A d \in 1..Len(w) : FrameOk(h, g, f, w[d])
    /\ \A d, e \in 1..Len(w) : w[d].src = w[e].src => d = e

(* Each caller waits for the frame above it, the slots for the first.      *)
Chain(sl, w, fs) ==
    /\ w # <<>> => Len(fs) < Len(sl) /\ sl[Len(fs) + 1] = H(w[1].src)
    /\ \A d \in 1..Len(w) - 1 : /\ Len(w[d].out) < Len(w[d].fields)
                                /\ w[d].fields[Len(w[d].out) + 1] = H(w[d + 1].src)

(* The copy at a of object i is complete; a function waits for post_freeze *)
(* or is through it.                                                       *)
Finished(h, g, f, ds, i, a) ==
    /\ f[a].tag = "object"
    /\ f[a].kind = h[i].kind
    /\ Len(f[a].elems) = Len(h[i].elems)
    /\ \A j \in 1..Len(h[i].elems) : /\ Known(g, h[i].elems[j])
                                     /\ f[a].elems[j] = ImageBy(g, h[i].elems[j])
    /\ h[i].kind = "def" =>
         \/ f[a].optimized /\ f[a].module = ModuleAfter(h[i].module)
         \/ /\ ~f[a].optimized /\ f[a].module = h[i].module
            /\ \E d \in 1..Len(ds) : ds[d] = a

Copies(h, g, f, w, ds) ==
    \A i \in 1..Len(h), a \in 1..Len(f) :
        g[i] = F(a) /\ (\A d \in 1..Len(w) : w[d].src # i) => Finished(h, g, f, ds, i, a)

Slotted(sl, g, fs) ==
    /\ Len(fs) <= Len(sl)
    /\ \A j \in 1..Len(fs) : Known(g, sl[j]) /\ fs[j] = ImageBy(g, sl[j])

Core(h, sl, g, f, w, fs, ds) ==
    /\ Types(h, sl, g, f, w, fs, ds)
    /\ Forwards(h, g, f)
    /\ Frames(h, g, f, w)
    /\ Chain(sl, w, fs)
    /\ Copies(h, g, f, w, ds)
    /\ Slotted(sl, g, fs)

(* What each phase has not begun or has finished.                          *)
Phases ==
    /\ phase \in {"running", "freezing", "postFreeze", "frozen", "failed"}
    /\ Len(slots) = NSlots
    /\ phase = "running" => /\ frozen = <<>> /\ frozenSlots = <<>> /\ work = <<>> /\ defs = <<>>
                            /\ \A i \in 1..Len(heap) : fwd[i] = NoForward
    /\ phase \in {"postFreeze", "frozen"} => work = <<>> /\ Len(frozenSlots) = NSlots
    /\ phase = "frozen" => defs = <<>>
    /\ phase = "failed" => \E o \in Reachable : heap[o].kind = "noFreeze"

(* Simple values hold no others.                                           *)
Shapes(h) ==
    \A i \in 1..Len(h) : h[i].kind \in {"leaf", "static", "noFreeze"} => h[i].elems = <<>>

IInv ==
    /\ Core(heap, slots, fwd, frozen, work, frozenSlots, defs)
    /\ Shapes(heap)
    /\ Phases
    /\ \A i \in 1..Len(heap) : fwd[i] # NoForward => i \in Reachable

-----------------------------------------------------------------------------
(* Words.                                                                  *)
LEMMA Words ==
  /\ \A i : H(i) # Old /\ H(i)[2] = i
  /\ \A i : /\ F(i) # Old /\ F(i) # NoForward /\ F(i) # EmptyList /\ F(i) # Static
            /\ F(i)[1] = "frozen" /\ F(i)[2] = i /\ F(i) # Uninit
  /\ \A i, j : F(i) = F(j) => i = j
  /\ \A i, j : H(i) = H(j) => i = j
  /\ Old # NoForward /\ EmptyList # NoForward /\ Static # NoForward
  /\ EmptyList # Old /\ Static # Old
  /\ Old # Uninit /\ EmptyList # Uninit /\ Static # Uninit
BY DEF H, F, Old, NoForward, EmptyList, Static, Uninit

LEMMA ValueIs ==
  ASSUME NEW h
  PROVE  \A v : v \in Value(h) <=> v = Old \/ \E i \in DOMAIN h : v = H(i)
BY DEF Value

LEMMA FValueIs ==
  ASSUME NEW f
  PROVE  /\ \A v : v \in FValue(f) <=> \/ v \in {Old, EmptyList, Static}
                                       \/ \E a \in DOMAIN f : v = F(a)
         /\ NoForward \notin FValue(f) /\ Uninit \notin FValue(f)
BY Words DEF FValue

LEMMA SeqWider ==
  ASSUME NEW A, NEW B, A \subseteq B, NEW s \in Seq(A)
  PROVE  s \in Seq(B)
OBVIOUS

LEMMA TypeFacts ==
  ASSUME NEW h, NEW sl, NEW g, NEW f, NEW w, NEW fs, NEW ds, Types(h, sl, g, f, w, fs, ds)
  PROVE  /\ Len(h) \in Nat /\ DOMAIN h = 1..Len(h)
         /\ Len(sl) \in Nat /\ DOMAIN sl = 1..Len(sl)
         /\ Len(g) = Len(h) /\ DOMAIN g = 1..Len(h)
         /\ Len(f) \in Nat /\ DOMAIN f = 1..Len(f)
         /\ Len(w) \in Nat /\ DOMAIN w = 1..Len(w)
         /\ Len(fs) \in Nat /\ DOMAIN fs = 1..Len(fs)
         /\ Len(ds) \in Nat /\ DOMAIN ds = 1..Len(ds)
         /\ \A i \in 1..Len(h) : h[i] \in ObjectOf(h)
         /\ \A i \in 1..Len(sl) : sl[i] \in Value(h)
         /\ \A i \in 1..Len(h) : g[i] \in FValue(f) \cup {NoForward}
         /\ \A i \in 1..Len(f) : f[i] \in FObjectOf(f)
         /\ \A i \in 1..Len(fs) : fs[i] \in FValue(f)
         /\ \A i \in 1..Len(w) : w[i] \in FrameOf(h, f)
         /\ \A i \in 1..Len(ds) : ds[i] \in 1..Len(f)
<1> USE DEF Types
<1>1. Len(h) \in Nat /\ DOMAIN h = 1..Len(h) /\ \A i \in 1..Len(h) : h[i] \in ObjectOf(h)
  OBVIOUS
<1>2. Len(sl) \in Nat /\ DOMAIN sl = 1..Len(sl) /\ \A i \in 1..Len(sl) : sl[i] \in Value(h)
  OBVIOUS
<1>3. /\ Len(g) = Len(h) /\ DOMAIN g = 1..Len(h)
      /\ \A i \in 1..Len(h) : g[i] \in FValue(f) \cup {NoForward}
  OBVIOUS
<1>4. Len(f) \in Nat /\ DOMAIN f = 1..Len(f) /\ \A i \in 1..Len(f) : f[i] \in FObjectOf(f)
  OBVIOUS
<1>5. Len(fs) \in Nat /\ DOMAIN fs = 1..Len(fs) /\ \A i \in 1..Len(fs) : fs[i] \in FValue(f)
  OBVIOUS
<1>6. Len(w) \in Nat /\ DOMAIN w = 1..Len(w) /\ \A i \in 1..Len(w) : w[i] \in FrameOf(h, f)
  OBVIOUS
<1>7. Len(ds) \in Nat /\ DOMAIN ds = 1..Len(ds) /\ \A i \in 1..Len(ds) : ds[i] \in 1..Len(f)
  BY <1>4
<1> QED BY <1>1, <1>2, <1>3, <1>4, <1>5, <1>6, <1>7

LEMMA ObjectFacts ==
  ASSUME NEW h, NEW o \in ObjectOf(h)
  PROVE  /\ o.kind \in Kind /\ o.module \in ModuleRef
         /\ o.elems \in Seq(Value(h)) /\ Len(o.elems) \in Nat
         /\ DOMAIN o.elems = 1..Len(o.elems)
         /\ \A j \in 1..Len(o.elems) : o.elems[j] \in Value(h)
<1>1. o.kind \in Kind /\ o.module \in ModuleRef /\ o.elems \in Seq(Value(h))
  BY DEF ObjectOf
<1> QED BY <1>1

LEMMA FObjectFacts ==
  ASSUME NEW f, NEW o \in FObjectOf(f)
  PROVE  /\ o.elems \in Seq(FValue(f) \cup {Uninit}) /\ Len(o.elems) \in Nat
         /\ DOMAIN o.elems = 1..Len(o.elems)
<1>1. o.elems \in Seq(FValue(f) \cup {Uninit})
  BY DEF FObjectOf
<1> QED BY <1>1

LEMMA FrameFacts ==
  ASSUME NEW h, NEW f, NEW fr \in FrameOf(h, f)
  PROVE  /\ fr.src \in DOMAIN h /\ fr.new \in DOMAIN f
         /\ fr.fields \in Seq(Value(h)) /\ Len(fr.fields) \in Nat
         /\ fr.out \in Seq(FValue(f)) /\ Len(fr.out) \in Nat
         /\ DOMAIN fr.out = 1..Len(fr.out)
         /\ \A j \in 1..Len(fr.fields) : fr.fields[j] \in Value(h)
<1>1. fr.src \in DOMAIN h /\ fr.new \in DOMAIN f /\ fr.fields \in Seq(Value(h)) /\ fr.out \in Seq(FValue(f))
  BY DEF FrameOf
<1> QED BY <1>1

(* Types when the frozen heap has the same addresses, and more.            *)
LEMMA Wider ==
  ASSUME NEW h, NEW f, NEW f1, DOMAIN f \subseteq DOMAIN f1
  PROVE  /\ FValue(f) \subseteq FValue(f1)
         /\ FObjectOf(f) \subseteq FObjectOf(f1)
         /\ FrameOf(h, f) \subseteq FrameOf(h, f1)
         /\ DOMAIN f = DOMAIN f1 => FValue(f) = FValue(f1) /\ FObjectOf(f) = FObjectOf(f1)
<1>1. FValue(f) \subseteq FValue(f1)
  BY FValueIs
<1>2. FObjectOf(f) \subseteq FObjectOf(f1)
  <2> SUFFICES ASSUME NEW o \in FObjectOf(f) PROVE o \in FObjectOf(f1)
    OBVIOUS
  <2>1. o.elems \in Seq(FValue(f1) \cup {Uninit})
    <3>1. o.elems \in Seq(FValue(f) \cup {Uninit})
      BY DEF FObjectOf
    <3> DEFINE A == FValue(f) \cup {Uninit}
               B == FValue(f1) \cup {Uninit}
    <3>2. A \subseteq B
      BY <1>1
    <3> HIDE DEF A, B
    <3> QED BY <3>1, <3>2, SeqWider DEF A, B
  <2> QED BY <2>1 DEF FObjectOf
<1>3. FrameOf(h, f) \subseteq FrameOf(h, f1)
  <2> SUFFICES ASSUME NEW o \in FrameOf(h, f) PROVE o \in FrameOf(h, f1)
    OBVIOUS
  <2>1. o.out \in Seq(FValue(f1))
    <3>1. o.out \in Seq(FValue(f))
      BY DEF FrameOf
    <3> QED BY <1>1, <3>1, SeqWider
  <2> QED BY <2>1 DEF FrameOf
<1>4. DOMAIN f = DOMAIN f1 => FValue(f) = FValue(f1)
  BY DEF FValue
<1> QED BY <1>1, <1>2, <1>3, <1>4 DEF FObjectOf

LEMMA TypesGrow ==
  ASSUME NEW h, NEW sl, NEW g, NEW f, NEW w, NEW fs, NEW ds, Types(h, sl, g, f, w, fs, ds),
         NEW f1, f1 \in Seq(FObjectOf(f1)), Len(f) <= Len(f1),
         NEW g1, g1 \in Seq(FValue(f1) \cup {NoForward}), Len(g1) = Len(h)
  PROVE  Types(h, sl, g1, f1, w, fs, ds)
<1>1. DOMAIN f = 1..Len(f) /\ Len(f) \in Nat
  BY TypeFacts
<1>2. Len(f1) \in Nat /\ DOMAIN f1 = 1..Len(f1)
  OBVIOUS
<1>3. DOMAIN f \subseteq DOMAIN f1
  BY <1>1, <1>2
<1>4. FValue(f) \subseteq FValue(f1) /\ FrameOf(h, f) \subseteq FrameOf(h, f1)
  BY <1>3, Wider
<1>5. fs \in Seq(FValue(f1))
  BY <1>4, SeqWider DEF Types
<1>6. w \in Seq(FrameOf(h, f1))
  BY <1>4, SeqWider DEF Types
<1>7. ds \in Seq(DOMAIN f1)
  <2>1. ds \in Seq(DOMAIN f)
    BY DEF Types
  <2> QED BY <1>3, <2>1, SeqWider
<1> QED BY <1>5, <1>6, <1>7 DEF Types

-----------------------------------------------------------------------------
(* Forwards are only added and the frozen heap only grows.                 *)
Grows(h, g, g1) == \A j \in 1..Len(h) : g[j] # NoForward => g1[j] = g[j]
Extends(f, f1)  == Len(f) <= Len(f1) /\ \A a \in 1..Len(f) : f1[a] = f[a]

LEMMA KnownGrows ==
  ASSUME NEW h, DOMAIN h = 1..Len(h), NEW g, NEW g1, Grows(h, g, g1),
         NEW v \in Value(h), Known(g, v)
  PROVE  Known(g1, v) /\ ImageBy(g1, v) = ImageBy(g, v)
<1>1. CASE v = Old
  BY <1>1 DEF Known, ImageBy
<1>2. CASE v # Old
  <2>1. PICK i \in 1..Len(h) : v = H(i)
    BY <1>2, ValueIs
  <2>2. v[2] = i
    BY <2>1, Words
  <2>3. g[i] # NoForward
    BY <1>2, <2>2 DEF Known
  <2> QED BY <1>2, <2>2, <2>3 DEF Known, ImageBy, Grows
<1> QED BY <1>1, <1>2

LEMMA FrameGrows ==
  ASSUME NEW h, h \in Seq(ObjectOf(h)), NEW g, NEW g1, Grows(h, g, g1),
         NEW f, NEW f1, Extends(f, f1), Len(f) \in Nat, Len(f1) \in Nat,
         NEW fr, fr.fields \in Seq(Value(h)), Len(fr.out) \in Nat, FrameOk(h, g, f, fr)
  PROVE  FrameOk(h, g1, f1, fr)
<1>1. DOMAIN h = 1..Len(h)
  OBVIOUS
<1>2. fr.src \in 1..Len(h) /\ fr.new \in 1..Len(f) /\ g[fr.src] = F(fr.new)
  BY DEF FrameOk
<1>3. g1[fr.src] = F(fr.new)
  BY <1>2, Words DEF Grows
<1>4. fr.new \in 1..Len(f1) /\ f1[fr.new] = f[fr.new]
  BY <1>2 DEF Extends
<1>5. \A j \in 1..Len(fr.out) : /\ Known(g1, fr.fields[j])
                                /\ fr.out[j] = ImageBy(g1, fr.fields[j])
  <2> TAKE j \in 1..Len(fr.out)
  <2>1. Known(g, fr.fields[j]) /\ fr.out[j] = ImageBy(g, fr.fields[j]) /\ Len(fr.out) <= Len(fr.fields)
    BY DEF FrameOk
  <2>2. j \in 1..Len(fr.fields)
    BY <2>1
  <2>3. fr.fields[j] \in Value(h)
    BY <2>2
  <2> QED BY <1>1, <2>1, <2>3, KnownGrows
<1> QED BY <1>2, <1>3, <1>4, <1>5 DEF FrameOk

LEMMA FinishedGrows ==
  ASSUME NEW h, h \in Seq(ObjectOf(h)), NEW g, NEW g1, Grows(h, g, g1),
         NEW f, NEW f1, Extends(f, f1), NEW ds, NEW i \in 1..Len(h), NEW a \in 1..Len(f),
         Finished(h, g, f, ds, i, a)
  PROVE  Finished(h, g1, f1, ds, i, a)
<1>1. DOMAIN h = 1..Len(h) /\ h[i] \in ObjectOf(h)
  OBVIOUS
<1>2. f1[a] = f[a]
  BY DEF Extends
<1>3. \A j \in 1..Len(h[i].elems) : /\ Known(g1, h[i].elems[j])
                                    /\ ImageBy(g1, h[i].elems[j]) = ImageBy(g, h[i].elems[j])
  <2> TAKE j \in 1..Len(h[i].elems)
  <2>1. h[i].elems[j] \in Value(h) /\ Known(g, h[i].elems[j])
    BY <1>1, ObjectFacts DEF Finished
  <2> QED BY <1>1, <2>1, KnownGrows
<1>4. h[i].kind = "def" =>
         \/ f1[a].optimized /\ f1[a].module = ModuleAfter(h[i].module)
         \/ /\ ~f1[a].optimized /\ f1[a].module = h[i].module
            /\ \E d \in 1..Len(ds) : ds[d] = a
  BY <1>2 DEF Finished
<1> QED BY <1>2, <1>3, <1>4 DEF Finished

(* Object i, not frozen so far, is forwarded to v: a static value, or the  *)
(* next address of the frozen heap.  Nothing else changes.                 *)
NewPlace(h, f, f1, i, v) ==
    \/ f1 = f /\ v \in {EmptyList, Static} /\ IsStatic(h[i])
    \/ /\ ~IsStatic(h[i]) /\ h[i].kind # "noFreeze"
       /\ v = F(Len(f) + 1)
       /\ \E x \in FObjectOf(f1) : f1 = Append(f, x)

SetForward(g, i, v, g1) == g1 = [g EXCEPT ![i] = v]

(* Core, but for the copy of object i, which nothing is working on.        *)
CoreBut(h, sl, g, f, w, fs, ds, i) ==
    /\ Types(h, sl, g, f, w, fs, ds)
    /\ Forwards(h, g, f)
    /\ Frames(h, g, f, w)
    /\ Chain(sl, w, fs)
    /\ Slotted(sl, g, fs)
    /\ \A d \in 1..Len(w) : w[d].src # i
    /\ \A j \in 1..Len(h), a \in 1..Len(f) :
         /\ j # i
         /\ g[j] = F(a)
         /\ \A d \in 1..Len(w) : w[d].src # j
         => Finished(h, g, f, ds, j, a)

LEMMA NewForward ==
  ASSUME NEW h, NEW sl, NEW g, NEW f, NEW w, NEW fs, NEW ds, Core(h, sl, g, f, w, fs, ds),
         NEW i \in 1..Len(h), g[i] = NoForward, NEW f1, NEW v, NewPlace(h, f, f1, i, v),
         NEW g1, SetForward(g, i, v, g1)
  PROVE  CoreBut(h, sl, g1, f1, w, fs, ds, i) /\ g1[i] = v
<1> DEFINE n == Len(f)
<1>a. /\ Types(h, sl, g, f, w, fs, ds) /\ Forwards(h, g, f) /\ Frames(h, g, f, w)
      /\ Chain(sl, w, fs) /\ Copies(h, g, f, w, ds) /\ Slotted(sl, g, fs)
  BY DEF Core
<1>b. /\ h \in Seq(ObjectOf(h)) /\ Len(h) \in Nat /\ DOMAIN h = 1..Len(h)
      /\ Len(g) = Len(h) /\ DOMAIN g = 1..Len(h)
      /\ n \in Nat /\ DOMAIN f = 1..n /\ f \in Seq(FObjectOf(f))
      /\ Len(w) \in Nat /\ Len(fs) \in Nat /\ Len(sl) \in Nat
      /\ g \in Seq(FValue(f) \cup {NoForward})
  BY <1>a, TypeFacts DEF Types
<1>c. Len(f1) \in Nat /\ DOMAIN f1 = 1..Len(f1) /\ Extends(f, f1) /\ f1 \in Seq(FObjectOf(f1))
  <2>1. CASE f1 = f
    BY <1>b, <2>1 DEF Extends
  <2>2. ASSUME NEW x \in FObjectOf(f1), f1 = Append(f, x)
        PROVE  /\ Len(f1) \in Nat /\ DOMAIN f1 = 1..Len(f1) /\ Extends(f, f1)
               /\ f1 \in Seq(FObjectOf(f1))
    <3>1. /\ Len(f1) = n + 1 /\ DOMAIN f1 = 1..n + 1
          /\ \A a \in 1..n : f1[a] = f[a]
      BY <1>b, <2>2
    <3>2. FObjectOf(f) \subseteq FObjectOf(f1)
      <4>1. DOMAIN f \subseteq DOMAIN f1
        BY <1>b, <3>1
      <4> QED BY <4>1, Wider
    <3>3. f \in Seq(FObjectOf(f1))
      BY <1>b, <3>2, SeqWider
    <3>4. Append(f, x) \in Seq(FObjectOf(f1))
      BY <3>3, AppendProperties
    <3>5. n <= n + 1 /\ n + 1 \in Nat
      BY <1>b
    <3> QED BY <2>2, <3>1, <3>4, <3>5 DEF Extends
  <2> QED BY <2>1, <2>2 DEF NewPlace
<1>d. v \in FValue(f1) /\ v # NoForward
  <2>1. CASE v \in {EmptyList, Static}
    BY <2>1, FValueIs, Words
  <2>2. ASSUME v = F(n + 1), NEW x, f1 = Append(f, x) PROVE v \in FValue(f1) /\ v # NoForward
    <3>1. n + 1 \in DOMAIN f1
      BY <1>b, <2>2
    <3> QED BY <2>2, <3>1, FValueIs, Words
  <2> QED BY <2>1, <2>2 DEF NewPlace
<1>e. g1[i] = v /\ Len(g1) = Len(h) /\ \A j \in 1..Len(h) : j # i => g1[j] = g[j]
  BY <1>b DEF SetForward
<1>f. Grows(h, g, g1)
  BY <1>e DEF Grows
<1>1. Types(h, sl, g1, f1, w, fs, ds)
  <2>1. Len(f) <= Len(f1)
    BY <1>c DEF Extends
  <2>2. DOMAIN f \subseteq DOMAIN f1
    BY <1>b, <1>c, <2>1
  <2>3. FValue(f) \subseteq FValue(f1)
    BY <2>2, Wider
  <2> DEFINE A == FValue(f) \cup {NoForward}
             B == FValue(f1) \cup {NoForward}
  <2>4. A \subseteq B /\ v \in B /\ g \in Seq(A)
    BY <1>b, <1>d, <2>3
  <2> HIDE DEF A, B
  <2>5. g \in Seq(B)
    BY <2>4, SeqWider
  <2>6. g1 \in Seq(B)
    BY <1>b, <2>4, <2>5, ExceptSeq DEF SetForward
  <2> QED BY <1>a, <1>c, <1>e, <2>1, <2>6, TypesGrow DEF B
<1>2. \A d \in 1..Len(w) : w[d].src # i
  <2> TAKE d \in 1..Len(w)
  <2>1. g[w[d].src] = F(w[d].new)
    BY <1>a DEF Frames, FrameOk
  <2> QED BY <2>1, Words
<1>3. Frames(h, g1, f1, w)
  <2>1. \A d \in 1..Len(w) : FrameOk(h, g1, f1, w[d])
    <3> TAKE d \in 1..Len(w)
    <3>1. FrameOk(h, g, f, w[d])
      BY <1>a DEF Frames
    <3>2. w[d] \in FrameOf(h, f)
      BY <1>a, TypeFacts
    <3>3. w[d].fields \in Seq(Value(h)) /\ Len(w[d].out) \in Nat
      BY <3>2, FrameFacts
    <3> QED BY <1>b, <1>c, <1>f, <3>1, <3>3, FrameGrows
  <2> QED BY <1>a, <2>1 DEF Frames
<1>4. Slotted(sl, g1, fs)
  <2>1. Len(fs) <= Len(sl)
    BY <1>a DEF Slotted
  <2>2. \A j \in 1..Len(fs) : Known(g1, sl[j]) /\ fs[j] = ImageBy(g1, sl[j])
    <3> TAKE j \in 1..Len(fs)
    <3>1. j \in 1..Len(sl)
      BY <1>b, <2>1
    <3>2. sl[j] \in Value(h)
      BY <1>a, <3>1, TypeFacts
    <3>3. Known(g, sl[j]) /\ fs[j] = ImageBy(g, sl[j])
      BY <1>a DEF Slotted
    <3> QED BY <1>b, <1>f, <3>2, <3>3, KnownGrows
  <2> QED BY <2>1, <2>2 DEF Slotted
<1>5. ASSUME NEW j \in 1..Len(h), NEW a \in 1..Len(f1), j # i, g1[j] = F(a),
             \A d \in 1..Len(w) : w[d].src # j
      PROVE  a \in 1..n /\ Finished(h, g1, f1, ds, j, a)
  <2>1. g[j] = F(a)
    BY <1>5, <1>e
  <2>2. PICK b \in 1..n : g[j] = F(b)
    BY <1>a, <2>1, Words DEF Forwards
  <2>3. a \in 1..n
    BY <2>1, <2>2, Words
  <2>4. Finished(h, g, f, ds, j, a)
    BY <1>a, <1>5, <2>1, <2>3 DEF Copies
  <2> QED BY <1>b, <1>c, <1>f, <2>3, <2>4, FinishedGrows
<1>6. Forwards(h, g1, f1)
  <2>1. \A j \in 1..Len(h) :
         \/ g1[j] = NoForward
         \/ g1[j] \in {EmptyList, Static} /\ IsStatic(h[j])
         \/ /\ ~IsStatic(h[j]) /\ h[j].kind # "noFreeze"
            /\ \E a \in 1..Len(f1) : g1[j] = F(a)
    <3> TAKE j \in 1..Len(h)
    <3>1. CASE j # i
      <4>1. 1..n \subseteq 1..Len(f1)
        BY <1>b, <1>c DEF Extends
      <4> QED BY <1>a, <1>e, <3>1, <4>1 DEF Forwards
    <3>2. CASE j = i /\ v \in {EmptyList, Static} /\ IsStatic(h[i])
      BY <1>e, <3>2
    <3>3. ASSUME j = i, ~IsStatic(h[i]), h[i].kind # "noFreeze", v = F(n + 1), NEW x, f1 = Append(f, x)
          PROVE  \E a \in 1..Len(f1) : g1[j] = F(a)
      <4>1. n + 1 \in 1..Len(f1)
        BY <1>b, <3>3
      <4> QED BY <1>e, <3>3, <4>1
    <3> QED BY <3>1, <3>2, <3>3 DEF NewPlace
  <2>2. \A j \in 1..Len(h) : j # i => g1[j] # F(n + 1)
    <3> SUFFICES ASSUME NEW j \in 1..Len(h), j # i, g1[j] = F(n + 1) PROVE FALSE
      OBVIOUS
    <3>1. g[j] = F(n + 1)
      BY <1>e
    <3>2. PICK b \in 1..n : g[j] = F(b)
      BY <1>a, <3>1, Words DEF Forwards
    <3>3. b = n + 1
      BY <3>1, <3>2, Words
    <3> QED BY <1>b, <3>3
  <2>3. \A j, k \in 1..Len(h), a \in 1..Len(f1) : g1[j] = F(a) /\ g1[k] = F(a) => j = k
    <3> SUFFICES ASSUME NEW j \in 1..Len(h), NEW k \in 1..Len(h), NEW a \in 1..Len(f1),
                        g1[j] = F(a), g1[k] = F(a)
                 PROVE  j = k
      OBVIOUS
    <3>1. CASE j # i /\ k # i
      <4>1. g[j] = F(a) /\ g[k] = F(a)
        BY <1>e, <3>1
      <4>2. PICK b \in 1..n : g[j] = F(b)
        BY <1>a, <4>1, Words DEF Forwards
      <4>3. a \in 1..n
        BY <4>1, <4>2, Words
      <4> QED BY <1>a, <4>1, <4>3 DEF Forwards
    <3>2. v = F(a) => a = n + 1
      BY Words DEF NewPlace
    <3>3. CASE j = i \/ k = i
      BY <1>e, <2>2, <3>2, <3>3
    <3> QED BY <3>1, <3>3
  <2>4. \A a \in 1..Len(f1) : \E j \in 1..Len(h) : g1[j] = F(a)
    <3> TAKE a \in 1..Len(f1)
    <3>1. CASE a \in 1..n
      <4>1. PICK j \in 1..Len(h) : g[j] = F(a)
        BY <1>a, <3>1 DEF Forwards
      <4> QED BY <1>f, <4>1, Words DEF Grows
    <3>2. ASSUME a \notin 1..n, v = F(n + 1), NEW x, f1 = Append(f, x)
          PROVE  g1[i] = F(a)
      <4>1. a = n + 1
        BY <1>b, <3>2
      <4> QED BY <1>e, <3>2, <4>1
    <3> QED BY <3>1, <3>2 DEF NewPlace
  <2> QED BY <2>1, <2>3, <2>4 DEF Forwards
<1> QED BY <1>1, <1>2, <1>3, <1>4, <1>5, <1>6, <1>a, <1>e DEF CoreBut

(* An object whose copy needs nothing more: Core is kept as it is.         *)
LEMMA ForwardedCore ==
  ASSUME NEW h, NEW sl, NEW g, NEW f, NEW w, NEW fs, NEW ds, Core(h, sl, g, f, w, fs, ds),
         NEW i \in 1..Len(h), g[i] = NoForward, NEW f1, NEW v, NewPlace(h, f, f1, i, v),
         NEW g1, SetForward(g, i, v, g1),
         \A a \in 1..Len(f1) : v = F(a) => Finished(h, g1, f1, ds, i, a)
  PROVE  Core(h, sl, g1, f1, w, fs, ds)
<1>1. CoreBut(h, sl, g1, f1, w, fs, ds, i) /\ g1[i] = v
  BY NewForward
<1>2. Copies(h, g1, f1, w, ds)
  BY <1>1 DEF Copies, CoreBut
<1> QED BY <1>1, <1>2 DEF Core, CoreBut

LEMMA LeafCore ==
  ASSUME NEW h, NEW sl, NEW g, NEW f, NEW w, NEW fs, NEW ds, Core(h, sl, g, f, w, fs, ds),
         NEW i \in 1..Len(h), g[i] = NoForward, h[i].kind = "leaf", h[i].elems = <<>>
  PROVE  Core(h, sl, [g EXCEPT ![i] = F(Len(f) + 1)],
              Append(f, Reserved(h[i], "object", <<>>)), w, fs, ds)
<1> DEFINE x == Reserved(h[i], "object", <<>>)
           f1 == Append(f, x)
           g1 == [g EXCEPT ![i] = F(Len(f) + 1)]
<1>1. x.tag = "object" /\ x.kind = "leaf" /\ x.elems = <<>>
  BY DEF Reserved
<1>2. x \in FObjectOf(f1)
  <2>1. <<>> \in Seq(FValue(f1) \cup {Uninit})
    OBVIOUS
  <2> QED BY <2>1 DEF Reserved, FObjectOf, Kind, ModuleRef
<1>3. f1[Len(f) + 1] = x /\ Len(f) \in Nat
  <2>1. f \in Seq(FObjectOf(f))
    BY DEF Core, Types
  <2> QED BY <2>1
<1>4. ~IsStatic(h[i])
  BY DEF IsStatic
<1> HIDE DEF x
<1>5. NewPlace(h, f, f1, i, F(Len(f) + 1))
  BY <1>2, <1>4 DEF NewPlace
<1> HIDE DEF f1, g1
<1>6. \A a \in 1..Len(f1) : F(Len(f) + 1) = F(a) => Finished(h, g1, f1, ds, i, a)
  <2> SUFFICES ASSUME NEW a \in 1..Len(f1), F(Len(f) + 1) = F(a)
               PROVE  Finished(h, g1, f1, ds, i, a)
    OBVIOUS
  <2>1. f1[a] = x
    BY <1>3, Words
  <2>2. Len(<<>>) = 0 /\ 1..0 = {}
    OBVIOUS
  <2> QED BY <1>1, <2>1, <2>2 DEF Finished
<1>7. Core(h, sl, g1, f1, w, fs, ds)
  <2>1. SetForward(g, i, F(Len(f) + 1), g1)
    BY DEF SetForward, g1
  <2> QED BY <1>5, <1>6, <2>1, ForwardedCore
<1> QED BY <1>7 DEF g1, f1, x

LEMMA StaticCore ==
  ASSUME NEW h, NEW sl, NEW g, NEW f, NEW w, NEW fs, NEW ds, Core(h, sl, g, f, w, fs, ds),
         NEW i \in 1..Len(h), g[i] = NoForward, IsStatic(h[i]), NEW v \in {EmptyList, Static}
  PROVE  Core(h, sl, [g EXCEPT ![i] = v], f, w, fs, ds)
<1>1. NewPlace(h, f, f, i, v)
  BY DEF NewPlace
<1>2. \A a \in 1..Len(f) : v # F(a)
  BY Words
<1> DEFINE g1 == [g EXCEPT ![i] = v]
<1>3. SetForward(g, i, v, g1)
  BY DEF SetForward
<1> HIDE DEF g1
<1>4. Core(h, sl, g1, f, w, fs, ds)
  BY <1>1, <1>2, <1>3, ForwardedCore
<1> QED BY <1>4 DEF g1

(* heap_freeze reserves a place for object i and starts on its fields.     *)
(* The caller waits for u.                                                 *)
Awaits(sl, w, fs, u) ==
    \/ w = <<>> /\ Len(fs) < Len(sl) /\ u = sl[Len(fs) + 1]
    \/ /\ w # <<>>
       /\ Len(Last(w).out) < Len(Last(w).fields)
       /\ u = Last(w).fields[Len(Last(w).out) + 1]

(* heap_freeze of object i begins: x is its reservation.                   *)
Reserves(h, f, w, i, x, f1, w1) ==
    /\ f1 = Append(f, x)
    /\ w1 = Append(w, [src |-> i, new |-> Len(f) + 1, fields |-> h[i].elems, out |-> <<>>])

LEMMA ReserveCore ==
  ASSUME NEW h, NEW sl, NEW g, NEW f, NEW w, NEW fs, NEW ds, Core(h, sl, g, f, w, fs, ds),
         NEW i \in 1..Len(h), g[i] = NoForward, ~IsStatic(h[i]), h[i].kind # "noFreeze",
         Awaits(sl, w, fs, H(i)),
         NEW f1, NEW x \in FObjectOf(f1), NEW w1, Reserves(h, f, w, i, x, f1, w1),
         x.kind = h[i].kind, x.kind = "list" => Len(x.elems) = Len(h[i].elems),
         NEW g1, SetForward(g, i, F(Len(f) + 1), g1)
  PROVE  Core(h, sl, g1, f1, w1, fs, ds)
<1> /\ w = <<>> => Len(fs) < Len(sl) /\ sl[Len(fs) + 1] = H(i)
    /\ w # <<>> => /\ Len(Last(w).out) < Len(Last(w).fields)
                    /\ Last(w).fields[Len(Last(w).out) + 1] = H(i)
  BY DEF Awaits
<1> /\ f1 = Append(f, x) /\ g1 = [g EXCEPT ![i] = F(Len(f) + 1)]
    /\ w1 = Append(w, [src |-> i, new |-> Len(f) + 1, fields |-> h[i].elems, out |-> <<>>])
  BY DEF Reserves, SetForward
<1> DEFINE fr == [src |-> i, new |-> Len(f) + 1, fields |-> h[i].elems, out |-> <<>>]
<1>a. Types(h, sl, g, f, w, fs, ds) /\ Frames(h, g, f, w)
  BY DEF Core
<1>b. /\ Len(f) \in Nat /\ f \in Seq(FObjectOf(f)) /\ DOMAIN h = 1..Len(h)
      /\ h[i].elems \in Seq(Value(h)) /\ Len(h[i].elems) \in Nat
      /\ Len(w) \in Nat /\ w \in Seq(FrameOf(h, f))
  BY <1>a, TypeFacts, ObjectFacts DEF Types
<1>c. Len(f1) = Len(f) + 1 /\ f1[Len(f) + 1] = x /\ DOMAIN f1 = 1..Len(f) + 1
  BY <1>b
<1>1. NewPlace(h, f, f1, i, F(Len(f) + 1))
  BY DEF NewPlace
<1>p. SetForward(g, i, F(Len(f) + 1), g1)
  BY DEF SetForward
<1>q. CoreBut(h, sl, g1, f1, w, fs, ds, i) /\ g1[i] = F(Len(f) + 1)
  BY ONLY <1>1, <1>p, Core(h, sl, g, f, w, fs, ds), i \in 1..Len(h), g[i] = NoForward, NewForward
<1>2. /\ Types(h, sl, g1, f1, w, fs, ds)
      /\ Forwards(h, g1, f1)
      /\ Frames(h, g1, f1, w)
      /\ Chain(sl, w, fs)
      /\ Slotted(sl, g1, fs)
      /\ \A d \in 1..Len(w) : w[d].src # i
      /\ \A j \in 1..Len(h), a \in 1..Len(f1) :
           /\ j # i
           /\ g1[j] = F(a)
           /\ \A d \in 1..Len(w) : w[d].src # j
           => Finished(h, g1, f1, ds, j, a)
      /\ g1[i] = F(Len(f) + 1)
  BY <1>q DEF CoreBut
<1>3. /\ fr.src = i /\ fr.new = Len(f) + 1 /\ fr.fields = h[i].elems /\ fr.out = <<>>
      /\ Len(fr.out) = 0
  OBVIOUS
<1>4. fr \in FrameOf(h, f1)
  <2>1. i \in DOMAIN h /\ Len(f) + 1 \in DOMAIN f1 /\ <<>> \in Seq(FValue(f1))
    BY <1>b, <1>c
  <2> QED BY <1>b, <2>1 DEF FrameOf
<1> HIDE DEF fr
<1>5. /\ w1 = Append(w, fr) /\ Len(w1) = Len(w) + 1 /\ w1[Len(w) + 1] = fr
      /\ \A d \in 1..Len(w) : w1[d] = w[d]
  BY <1>b DEF fr
<1>6. \A d \in 1..Len(w1) : d = Len(w) + 1 \/ d \in 1..Len(w)
  BY <1>b, <1>5
<1>7. Types(h, sl, g1, f1, w1, fs, ds)
  <2>1. w \in Seq(FrameOf(h, f1))
    BY <1>2 DEF Types
  <2>2. w1 \in Seq(FrameOf(h, f1))
    BY <1>4, <1>5, <2>1, AppendProperties
  <2> QED BY <1>2, <2>2 DEF Types
<1>8. FrameOk(h, g1, f1, fr)
  <2>1. fr.new \in 1..Len(f1) /\ 1..0 = {} /\ 0 <= Len(h[i].elems)
    BY <1>b, <1>c, <1>3
  <2> QED BY <1>2, <1>3, <1>c, <2>1 DEF FrameOk
<1>9. Frames(h, g1, f1, w1)
  <2>1. \A d \in 1..Len(w1) : FrameOk(h, g1, f1, w1[d])
    BY <1>2, <1>5, <1>6, <1>8 DEF Frames
  <2>2. \A d, e \in 1..Len(w1) : w1[d].src = w1[e].src => d = e
    BY <1>2, <1>3, <1>5, <1>6 DEF Frames
  <2> QED BY <2>1, <2>2 DEF Frames
<1>10. Chain(sl, w1, fs)
  <2>1. CASE w = <<>>
    <3>1. Len(w1) = 1 /\ w1[1] = fr /\ 1..Len(w1) - 1 = {}
      BY <1>5, <2>1
    <3> QED BY <1>3, <2>1, <3>1 DEF Chain
  <2>2. CASE w # <<>>
    <3>1. Len(w) # 0 /\ 1 \in 1..Len(w) /\ Last(w) = w[Len(w)] /\ Len(w) \in 1..Len(w)
      BY <1>b, <2>2 DEF Last
    <3>2. w1[1] = w[1] /\ Len(fs) < Len(sl) /\ sl[Len(fs) + 1] = H(w[1].src)
      BY <1>2, <1>5, <2>2, <3>1 DEF Chain
    <3>3. \A d \in 1..Len(w1) - 1 : d = Len(w) \/ (d \in 1..Len(w) - 1 /\ d \in 1..Len(w) /\ d + 1 \in 1..Len(w))
      BY <1>b, <1>5
    <3>4. \A d \in 1..Len(w1) - 1 : /\ Len(w1[d].out) < Len(w1[d].fields)
                                    /\ w1[d].fields[Len(w1[d].out) + 1] = H(w1[d + 1].src)
      <4> TAKE d \in 1..Len(w1) - 1
      <4>1. CASE d = Len(w)
        BY <1>3, <1>5, <2>2, <3>1, <4>1
      <4>2. CASE d \in 1..Len(w) - 1 /\ d \in 1..Len(w) /\ d + 1 \in 1..Len(w)
        BY <1>2, <1>5, <4>2 DEF Chain
      <4> QED BY <3>3, <4>1, <4>2
    <3> QED BY <3>2, <3>4 DEF Chain
  <2> QED BY <2>1, <2>2
<1>11. Copies(h, g1, f1, w1, ds)
  <2> SUFFICES ASSUME NEW j \in 1..Len(h), NEW a \in 1..Len(f1), g1[j] = F(a),
                      \A d \in 1..Len(w1) : w1[d].src # j
               PROVE  Finished(h, g1, f1, ds, j, a)
    BY DEF Copies
  <2>1. Len(w) + 1 \in 1..Len(w1) /\ \A d \in 1..Len(w) : d \in 1..Len(w1)
    BY <1>b, <1>5
  <2>2. j # i
    BY <1>3, <1>5, <2>1
  <2>3. \A d \in 1..Len(w) : w[d].src # j
    BY <1>5, <2>1
  <2> QED BY <1>2, <2>2, <2>3
<1> QED BY <1>2, <1>7, <1>9, <1>10, <1>11 DEF Core

-----------------------------------------------------------------------------
(* A frozen value is handed to the caller: the innermost heap_freeze, or   *)
(* the loop over the slots.                                                *)
Delivered(f, w, fs, v, f1, w1, fs1) ==
    /\ fs1 = IF w = <<>> THEN Append(fs, v) ELSE fs
    /\ w1 = IF w = <<>> THEN w ELSE [w EXCEPT ![Len(w)].out = Append(@, v)]
    /\ f1 = IF w # <<>> /\ f[Last(w).new].kind = "list"
              THEN [f EXCEPT ![Last(w).new].elems[Len(Last(w).out) + 1] = v] ELSE f

LEMMA ImageTyped ==
  ASSUME NEW h, NEW sl, NEW g, NEW f, NEW w, NEW fs, NEW ds, Types(h, sl, g, f, w, fs, ds),
         NEW u \in Value(h), Known(g, u)
  PROVE  ImageBy(g, u) \in FValue(f)
<1>1. CASE u = Old
  BY <1>1, FValueIs DEF ImageBy
<1>2. CASE u # Old
  <2>1. PICK i \in DOMAIN h : u = H(i)
    BY <1>2, ValueIs
  <2>2. u[2] = i /\ i \in 1..Len(h)
    BY <2>1, Words, TypeFacts
  <2>3. g[i] \in FValue(f) \cup {NoForward}
    BY <2>2, TypeFacts
  <2> QED BY <1>2, <2>2, <2>3 DEF Known, ImageBy
<1> QED BY <1>1, <1>2

(* What holds of a frame or a finished copy depends on its own object only.*)
LEMMA FrameSame ==
  ASSUME NEW h, NEW g, NEW f, NEW f1, NEW fr, FrameOk(h, g, f, fr),
         Len(f1) = Len(f), f1[fr.new] = f[fr.new]
  PROVE  FrameOk(h, g, f1, fr)
BY DEF FrameOk

LEMMA FinishedSame ==
  ASSUME NEW h, NEW g, NEW f, NEW f1, NEW ds, NEW ds1, NEW i, NEW a, Finished(h, g, f, ds, i, a),
         f1[a] = f[a], (\E d \in 1..Len(ds) : ds[d] = a) => (\E d \in 1..Len(ds1) : ds1[d] = a)
  PROVE  Finished(h, g, f1, ds1, i, a)
<1>1. h[i].kind = "def" =>
         \/ f1[a].optimized /\ f1[a].module = ModuleAfter(h[i].module)
         \/ /\ ~f1[a].optimized /\ f1[a].module = h[i].module
            /\ \E d \in 1..Len(ds1) : ds1[d] = a
  BY Zenon DEF Finished
<1> QED BY <1>1 DEF Finished

(* The frozen object at a is replaced.                                     *)
Replaced(f, a, o, f1) == f1 = [f EXCEPT ![a] = o]

LEMMA ReplacedTypes ==
  ASSUME NEW h, NEW sl, NEW g, NEW f, NEW w, NEW fs, NEW ds, Types(h, sl, g, f, w, fs, ds),
         NEW a \in 1..Len(f), NEW o \in FObjectOf(f), NEW f1, Replaced(f, a, o, f1)
  PROVE  /\ Types(h, sl, g, f1, w, fs, ds)
         /\ Len(f1) = Len(f) /\ DOMAIN f1 = DOMAIN f
         /\ f1[a] = o /\ \A b \in 1..Len(f) : b # a => f1[b] = f[b]
<1>1. f \in Seq(FObjectOf(f)) /\ Len(f) \in Nat /\ DOMAIN f = 1..Len(f)
  BY TypeFacts DEF Types
<1>2. f1 \in Seq(FObjectOf(f)) /\ Len(f1) = Len(f)
  BY <1>1, ExceptSeq DEF Replaced
<1>3. DOMAIN f1 = DOMAIN f /\ f1[a] = o /\ \A b \in 1..Len(f) : b # a => f1[b] = f[b]
  BY <1>1 DEF Replaced
<1>4. FValue(f) = FValue(f1) /\ FObjectOf(f) = FObjectOf(f1)
  BY <1>3, Wider
<1>5. FrameOf(h, f) = FrameOf(h, f1)
  BY <1>3, <1>4 DEF FrameOf
<1> QED BY <1>2, <1>3, <1>4, <1>5 DEF Types

LEMMA SlotDelivered ==
  ASSUME NEW h, NEW sl, NEW g, NEW f, NEW w, NEW fs, NEW ds, Core(h, sl, g, f, w, fs, ds),
         w = <<>>, Len(fs) < Len(sl), Known(g, sl[Len(fs) + 1]),
         NEW v, v = ImageBy(g, sl[Len(fs) + 1])
  PROVE  Core(h, sl, g, f, w, Append(fs, v), ds)
<1> DEFINE fs1 == Append(fs, v)
           n == Len(fs)
<1>1. Types(h, sl, g, f, w, fs, ds) /\ Slotted(sl, g, fs)
  BY DEF Core
<1>2. n \in Nat /\ Len(sl) \in Nat /\ fs \in Seq(FValue(f))
  BY <1>1, TypeFacts DEF Types
<1>3. n + 1 \in 1..Len(sl)
  BY <1>2
<1>4. sl[n + 1] \in Value(h)
  BY <1>1, <1>3, TypeFacts
<1>5. v \in FValue(f)
  BY <1>1, <1>4, ImageTyped
<1>6. /\ fs1 \in Seq(FValue(f)) /\ Len(fs1) = n + 1
      /\ fs1[n + 1] = v /\ \A j \in 1..n : fs1[j] = fs[j]
  BY <1>2, <1>5
<1> HIDE DEF fs1
<1>7. Types(h, sl, g, f, w, fs1, ds)
  BY <1>1, <1>6 DEF Types
<1>8. Slotted(sl, g, fs1)
  <2>1. \A j \in 1..n + 1 : j = n + 1 \/ j \in 1..n
    BY <1>2
  <2>2. n + 1 <= Len(sl)
    BY <1>2
  <2> QED BY <1>1, <1>6, <2>1, <2>2 DEF Slotted
<1>9. Chain(sl, w, fs1)
  <2>1. 1..Len(w) - 1 = {}
    OBVIOUS
  <2> QED BY <2>1 DEF Chain
<1> QED BY <1>7, <1>8, <1>9 DEF Core, fs1

LEMMA FrameDelivered ==
  ASSUME NEW h, NEW sl, NEW g, NEW f, NEW w, NEW fs, NEW ds, Core(h, sl, g, f, w, fs, ds),
         w # <<>>, Len(Last(w).out) < Len(Last(w).fields),
         NEW u, u = Last(w).fields[Len(Last(w).out) + 1], Known(g, u), NEW v, v = ImageBy(g, u),
         NEW f1, NEW w1, NEW fs1, Delivered(f, w, fs, v, f1, w1, fs1)
  PROVE  Core(h, sl, g, f1, w1, fs, ds)
<1> DEFINE n == Len(w)
           top == Last(w)
           a == top.new
           p == Len(top.out) + 1
           t1 == [top EXCEPT !.out = Append(top.out, v)]
           o1 == [f[a] EXCEPT !.elems = [f[a].elems EXCEPT ![p] = v]]
<1>a. /\ Types(h, sl, g, f, w, fs, ds) /\ Forwards(h, g, f) /\ Frames(h, g, f, w)
      /\ Chain(sl, w, fs) /\ Copies(h, g, f, w, ds) /\ Slotted(sl, g, fs)
  BY DEF Core
<1>b. /\ n \in Nat /\ n # 0 /\ n \in 1..n /\ top = w[n] /\ DOMAIN w = 1..n
      /\ w \in Seq(FrameOf(h, f)) /\ Len(f) \in Nat /\ DOMAIN f = 1..Len(f)
  BY <1>a, TypeFacts DEF Types, Last
<1>c. top \in FrameOf(h, f) /\ FrameOk(h, g, f, top)
  BY <1>a, <1>b, TypeFacts DEF Frames
<1>d. /\ Len(top.out) \in Nat /\ Len(top.fields) \in Nat /\ top.out \in Seq(FValue(f))
      /\ a \in 1..Len(f) /\ p \in 1..Len(top.fields) /\ u \in Value(h)
      /\ top.src \in 1..Len(h)
  <2>1. /\ top.fields \in Seq(Value(h)) /\ Len(top.fields) \in Nat
        /\ top.out \in Seq(FValue(f)) /\ Len(top.out) \in Nat
        /\ \A j \in 1..Len(top.fields) : top.fields[j] \in Value(h)
    BY <1>c, FrameFacts
  <2>2. p \in 1..Len(top.fields)
    BY <2>1
  <2> QED BY <1>c, <2>1, <2>2 DEF FrameOk
<1>e. v \in FValue(f)
  BY <1>a, <1>d, ImageTyped
<1>f. /\ t1 \in FrameOf(h, f) /\ t1.src = top.src /\ t1.new = a /\ t1.fields = top.fields
      /\ t1.out \in Seq(FValue(f)) /\ Len(t1.out) = p /\ t1.out[p] = v
      /\ \A j \in 1..Len(top.out) : t1.out[j] = top.out[j]
  <2>1. /\ Append(top.out, v) \in Seq(FValue(f)) /\ Len(Append(top.out, v)) = p
        /\ Append(top.out, v)[p] = v
        /\ \A j \in 1..Len(top.out) : Append(top.out, v)[j] = top.out[j]
    BY <1>d, <1>e
  <2> DEFINE q == Append(top.out, v)
  <2> HIDE DEF q
  <2>2. t1 = [top EXCEPT !.out = q] /\ q \in Seq(FValue(f))
    BY <2>1 DEF q
  <2>3. t1 \in FrameOf(h, f) /\ t1.src = top.src /\ t1.new = a /\ t1.fields = top.fields /\ t1.out = q
    BY <1>c, <2>2 DEF FrameOf
  <2> QED BY <2>1, <2>3 DEF q
<1>g. /\ w1 \in Seq(FrameOf(h, f)) /\ Len(w1) = n
      /\ w1[n] = t1 /\ \A d \in 1..n : d # n => w1[d] = w[d]
  <2>1. w1 = [w EXCEPT ![n] = t1]
    BY <1>b DEF Delivered
  <2> HIDE DEF t1
  <2>2. w1 \in Seq(FrameOf(h, f)) /\ Len(w1) = n
    BY <1>b, <1>f, <2>1, ExceptSeq
  <2> QED BY <1>b, <2>1, <2>2
<1>h. \A d \in 1..n : w1[d].src = w[d].src
  BY <1>b, <1>f, <1>g
<1> HIDE DEF t1
<1>i. /\ f[a] \in FObjectOf(f) /\ f[a].kind = h[top.src].kind
      /\ f[a].elems \in Seq(FValue(f) \cup {Uninit}) /\ Len(f[a].elems) \in Nat
      /\ f[a].kind = "list" => Len(f[a].elems) = Len(top.fields)
  <2>1. f[a] \in FObjectOf(f)
    BY <1>a, <1>d, TypeFacts
  <2>2. f[a].elems \in Seq(FValue(f) \cup {Uninit}) /\ Len(f[a].elems) \in Nat
    BY <2>1, FObjectFacts
  <2> QED BY <1>c, <2>1, <2>2 DEF FrameOk
<1>j. ASSUME f[a].kind = "list"
      PROVE  /\ o1 \in FObjectOf(f) /\ o1.kind = "list"
             /\ Len(o1.elems) = Len(top.fields) /\ o1.elems[p] = v
             /\ \A j \in 1..Len(top.out) : o1.elems[j] = f[a].elems[j]
             /\ f1 = [f EXCEPT ![a] = o1]
  <2> DEFINE A == FValue(f) \cup {Uninit}
             es == f[a].elems
             q == [es EXCEPT ![p] = v]
  <2>1. v \in A /\ es \in Seq(A) /\ p \in 1..Len(es) /\ \A j \in 1..Len(top.out) : j \in 1..Len(es) /\ j # p
    BY <1>d, <1>e, <1>i, <1>j
  <2> HIDE DEF A, es
  <2>2. q \in Seq(A) /\ Len(q) = Len(es) /\ \A j \in 1..Len(es) : q[j] = IF j = p THEN v ELSE es[j]
    BY <2>1, ExceptSeq
  <2> HIDE DEF q
  <2>3. o1 = [f[a] EXCEPT !.elems = q]
    BY DEF q, es
  <2>4. o1 \in FObjectOf(f) /\ o1.kind = f[a].kind /\ o1.elems = q
    BY <1>i, <2>2, <2>3 DEF FObjectOf, A
  <2>5. f1 = [f EXCEPT ![a] = o1]
    BY <1>j DEF Delivered
  <2>6. Len(es) = Len(top.fields)
    BY <1>i, <1>j DEF es
  <2> HIDE DEF o1
  <2> QED BY <1>j, <2>1, <2>2, <2>4, <2>5, <2>6 DEF es
<1> HIDE DEF o1
<1>k. /\ Types(h, sl, g, f1, w, fs, ds) /\ Len(f1) = Len(f) /\ DOMAIN f1 = DOMAIN f
      /\ \A b \in 1..Len(f) : b # a => f1[b] = f[b]
      /\ f1[a].kind = f[a].kind
      /\ f[a].kind = "list" => f1[a] = o1
  <2>1. CASE f[a].kind = "list"
    BY <1>a, <1>d, <1>j, <2>1, ReplacedTypes DEF Replaced
  <2>2. CASE f[a].kind # "list"
    <3>1. f1 = f
      BY <2>2 DEF Delivered
    <3> QED BY <1>a, <2>2, <3>1
  <2> QED BY <2>1, <2>2
<1>1. Types(h, sl, g, f1, w1, fs, ds)
  <2>1. FrameOf(h, f) \subseteq FrameOf(h, f1)
    BY <1>k, Wider
  <2>2. w1 \in Seq(FrameOf(h, f1))
    BY <1>g, <2>1, SeqWider
  <2> QED BY <1>k, <2>2 DEF Types
<1>2. Forwards(h, g, f1)
  BY <1>a, <1>k DEF Forwards
<1>3. \A i \in 1..Len(h) : g[i] = F(a) => i = top.src
  BY <1>a, <1>c, <1>d DEF Forwards, FrameOk
<1>4. FrameOk(h, g, f1, t1)
  <2>1. \A j \in 1..Len(t1.out) : j = p \/ j \in 1..Len(top.out)
    BY <1>d, <1>f
  <2>2. /\ top.src \in 1..Len(h) /\ a \in 1..Len(f) /\ g[top.src] = F(a)
        /\ top.fields = h[top.src].elems
        /\ \A j \in 1..Len(top.out) : /\ Known(g, top.fields[j])
                                      /\ top.out[j] = ImageBy(g, top.fields[j])
        /\ f[a].kind = h[top.src].kind
        /\ h[top.src].kind = "list" => \A j \in 1..Len(top.out) : f[a].elems[j] = top.out[j]
    BY <1>c DEF FrameOk
  <2>3. \A j \in 1..Len(t1.out) : /\ Known(g, t1.fields[j])
                                  /\ t1.out[j] = ImageBy(g, t1.fields[j])
    BY <1>f, <2>1, <2>2
  <2>4. h[top.src].kind = "list" =>
          /\ Len(f1[a].elems) = Len(t1.fields)
          /\ \A j \in 1..Len(t1.out) : f1[a].elems[j] = t1.out[j]
    <3> SUFFICES ASSUME h[top.src].kind = "list"
                 PROVE  /\ Len(f1[a].elems) = Len(t1.fields)
                        /\ \A j \in 1..Len(t1.out) : f1[a].elems[j] = t1.out[j]
      OBVIOUS
    <3>1. f[a].kind = "list"
      BY <2>2
    <3>2. /\ f1[a] = o1 /\ Len(o1.elems) = Len(top.fields) /\ o1.elems[p] = v
          /\ \A j \in 1..Len(top.out) : o1.elems[j] = f[a].elems[j]
      BY <1>j, <1>k, <3>1
    <3>3. \A j \in 1..Len(top.out) : f[a].elems[j] = top.out[j]
      BY <2>2
    <3> HIDE DEF top, p, a
    <3> QED BY <1>f, <2>1, <3>2, <3>3
  <2>5. Len(t1.out) <= Len(t1.fields)
    BY <1>d, <1>f
  <2> HIDE DEF top, p, a
  <2> QED BY <1>f, <1>k, <2>2, <2>3, <2>4, <2>5 DEF FrameOk
<1>5. Frames(h, g, f1, w1)
  <2>1. \A d \in 1..Len(w1) : FrameOk(h, g, f1, w1[d])
    <3> TAKE d \in 1..Len(w1)
    <3>1. CASE d = n
      BY <1>4, <1>g, <3>1
    <3>2. CASE d # n
      <4>1. w1[d] = w[d] /\ FrameOk(h, g, f, w[d])
        BY <1>a, <1>g, <3>2 DEF Frames
      <4>2. w[d].new # a
        <5>1. SUFFICES ASSUME w[d].new = a PROVE FALSE
          OBVIOUS
        <5>2. w[d].src \in 1..Len(h) /\ g[w[d].src] = F(a)
          BY <4>1, <5>1 DEF FrameOk
        <5>3. w[d].src = w[n].src
          BY <1>3, <1>b, <5>2
        <5> QED BY <1>a, <1>b, <1>g, <3>2, <5>3 DEF Frames
      <4>3. f1[w[d].new] = f[w[d].new]
        BY <1>k, <4>1, <4>2 DEF FrameOk
      <4> QED BY <1>k, <4>1, <4>3, FrameSame
    <3> QED BY <3>1, <3>2
  <2> QED BY <1>a, <1>g, <1>h, <2>1 DEF Frames
<1>6. Chain(sl, w1, fs)
  <2>1. w1 # <<>> /\ 1 \in 1..n /\ Len(fs) < Len(sl) /\ sl[Len(fs) + 1] = H(w1[1].src)
    <3>1. Len(fs) < Len(sl) /\ sl[Len(fs) + 1] = H(w[1].src)
      BY <1>a DEF Chain
    <3>2. w1 # <<>> /\ 1 \in 1..n
      <4>1. Len(w1) # 0 /\ n \in Nat /\ n # 0
        BY <1>b, <1>g
      <4>2. w1 # <<>>
        BY ONLY <4>1
      <4> HIDE DEF n
      <4> QED BY ONLY <4>1, <4>2
    <3>3. w1[1].src = w[1].src
      BY <1>h, <3>2
    <3> QED BY <3>1, <3>2, <3>3
  <2>2. \A d \in 1..n - 1 : d \in 1..n /\ d # n /\ d + 1 \in 1..n
    <3>1. n \in Nat
      BY <1>b
    <3> HIDE DEF n
    <3> QED BY ONLY <3>1
  <2>3. \A d \in 1..n - 1 : /\ Len(w1[d].out) < Len(w1[d].fields)
                            /\ w1[d].fields[Len(w1[d].out) + 1] = H(w1[d + 1].src)
    BY <1>a, <1>g, <1>h, <2>2 DEF Chain
  <2> QED BY <1>g, <2>1, <2>3 DEF Chain
<1>7. Copies(h, g, f1, w1, ds)
  <2> SUFFICES ASSUME NEW i \in 1..Len(h), NEW b \in 1..Len(f1), g[i] = F(b),
                      \A d \in 1..Len(w1) : w1[d].src # i
               PROVE  Finished(h, g, f1, ds, i, b)
    BY DEF Copies
  <2>1. \A d \in 1..n : w[d].src # i
    BY <1>g, <1>h
  <2>2. b # a
    BY <1>3, <1>b, <2>1
  <2>3. Finished(h, g, f, ds, i, b) /\ f1[b] = f[b]
    BY <1>a, <1>k, <2>1, <2>2 DEF Copies
  <2> QED BY <2>3, FinishedSame
<1> QED BY <1>1, <1>2, <1>5, <1>6, <1>7, <1>a DEF Core

LEMMA DeliverCore ==
  ASSUME NEW h, NEW sl, NEW g, NEW f, NEW w, NEW fs, NEW ds, Core(h, sl, g, f, w, fs, ds),
         NEW u, Awaits(sl, w, fs, u), Known(g, u), NEW v, v = ImageBy(g, u),
         NEW f1, NEW w1, NEW fs1, Delivered(f, w, fs, v, f1, w1, fs1)
  PROVE  Core(h, sl, g, f1, w1, fs1, ds)
<1>1. CASE w = <<>>
  <2>1. f1 = f /\ w1 = w /\ fs1 = Append(fs, v)
    BY <1>1 DEF Delivered
  <2>2. Len(fs) < Len(sl) /\ u = sl[Len(fs) + 1]
    BY <1>1 DEF Awaits
  <2> QED BY <1>1, <2>1, <2>2, SlotDelivered
<1>2. CASE w # <<>>
  <2>1. fs1 = fs
    BY <1>2 DEF Delivered
  <2>2. Len(Last(w).out) < Len(Last(w).fields) /\ u = Last(w).fields[Len(Last(w).out) + 1]
    BY <1>2 DEF Awaits
  <2> QED BY <1>2, <2>1, <2>2, FrameDelivered
<1> QED BY <1>1, <1>2

-----------------------------------------------------------------------------
(* heap_freeze returns: the copy is complete and the caller waits for it.  *)
Filled(h, f, top) ==
    [tag |-> "object", kind |-> h[top.src].kind, optimized |-> FALSE,
     elems |-> IF h[top.src].kind = "list" THEN f[top.new].elems ELSE top.out,
     module |-> h[top.src].module]

(* The reservation of frame top is filled, and a function is remembered.   *)
Fills(h, f, top, f1) == f1 = [f EXCEPT ![top.new] = Filled(h, f, top)]
Remembers(h, ds, top, ds1) ==
    ds1 = IF h[top.src].kind = "def" THEN Append(ds, top.new) ELSE ds

LEMMA FillTypes ==
  ASSUME NEW h, NEW sl, NEW g, NEW f, NEW w, NEW fs, NEW ds, Types(h, sl, g, f, w, fs, ds),
         NEW top \in FrameOf(h, f), FrameOk(h, g, f, top), NEW f1, Fills(h, f, top, f1)
  PROVE  /\ Types(h, sl, g, f1, w, fs, ds) /\ Len(f1) = Len(f) /\ DOMAIN f1 = DOMAIN f
         /\ f1[top.new] = Filled(h, f, top)
         /\ \A b \in 1..Len(f) : b # top.new => f1[b] = f[b]
<1> DEFINE a == top.new
           s == top.src
           full == Filled(h, f, top)
<1>d. a \in 1..Len(f) /\ s \in 1..Len(h)
  BY DEF FrameOk
<1>e. h[s].kind \in Kind /\ h[s].module \in ModuleRef
  BY <1>d, TypeFacts, ObjectFacts
<1>g. full \in FObjectOf(f)
  <2> DEFINE A == FValue(f) \cup {Uninit}
             q == IF h[s].kind = "list" THEN f[a].elems ELSE top.out
  <2>1. f[a].elems \in Seq(A)
    BY <1>d, TypeFacts, FObjectFacts
  <2>2. top.out \in Seq(FValue(f)) /\ FValue(f) \subseteq A
    BY FrameFacts
  <2> HIDE DEF A
  <2>3. top.out \in Seq(A)
    BY <2>2, SeqWider
  <2>4. q \in Seq(A)
    BY <2>1, <2>3
  <2>5. full = [tag |-> "object", kind |-> h[s].kind, optimized |-> FALSE, elems |-> q,
                module |-> h[s].module]
    BY DEF Filled
  <2> HIDE DEF q, full
  <2> QED BY <1>e, <2>4, <2>5 DEF FObjectOf, A
<1>h. Replaced(f, a, full, f1)
  BY DEF Fills, Replaced
<1> HIDE DEF full, a
<1>i. /\ Types(h, sl, g, f1, w, fs, ds) /\ Len(f1) = Len(f) /\ DOMAIN f1 = DOMAIN f
      /\ f1[a] = full /\ \A b \in 1..Len(f) : b # a => f1[b] = f[b]
  BY <1>d, <1>g, <1>h, ReplacedTypes
<1> QED BY ONLY <1>i DEF full, a

LEMMA RememberedDefs ==
  ASSUME NEW h, NEW D, NEW ds \in Seq(D), NEW top, top.new \in D,
         NEW ds1, Remembers(h, ds, top, ds1)
  PROVE  /\ ds1 \in Seq(D)
         /\ \A d \in 1..Len(ds) : d \in 1..Len(ds1) /\ ds1[d] = ds[d]
         /\ h[top.src].kind = "def" => \E d \in 1..Len(ds1) : ds1[d] = top.new
<1>1. CASE h[top.src].kind = "def"
  <2>1. ds1 = Append(ds, top.new)
    BY <1>1 DEF Remembers
  <2>2. /\ ds1 \in Seq(D) /\ Len(ds1) = Len(ds) + 1 /\ ds1[Len(ds) + 1] = top.new
        /\ \A d \in 1..Len(ds) : ds1[d] = ds[d]
    BY <2>1, AppendProperties
  <2>3. Len(ds) \in Nat
    OBVIOUS
  <2>4. Len(ds) + 1 \in 1..Len(ds1) /\ \A d \in 1..Len(ds) : d \in 1..Len(ds1)
    BY <2>2, <2>3
  <2> QED BY <2>2, <2>4
<1>2. CASE h[top.src].kind # "def"
  BY <1>2 DEF Remembers
<1> QED BY <1>1, <1>2

LEMMA FrontFacts ==
  ASSUME NEW A, NEW w \in Seq(A), NEW n \in Nat, n = Len(w), n # 0, NEW w1, w1 = Front(w)
  PROVE  /\ w1 \in Seq(A) /\ Len(w1) = n - 1 /\ Last(w) = w[n]
         /\ \A d \in 1..n - 1 : w1[d] = w[d]
         /\ w1 = <<>> => n = 1
         /\ w1 # <<>> => /\ n - 1 \in 1..n - 1 /\ Last(w1) = w[n - 1]
                         /\ 1 \in 1..n - 1 /\ w1[1] = w[1]
<1>1. /\ w1 \in Seq(A) /\ Len(w1) = n - 1
      /\ \A d \in 1..n - 1 : w1[d] = w[d]
  BY FrontLast
<1>2. w1 = <<>> => n = 1
  BY ONLY <1>1, n \in Nat
<1>3. ASSUME w1 # <<>>
      PROVE  n - 1 # 0
  BY <1>1, <1>3
<1>4. ASSUME w1 # <<>>
      PROVE  n - 1 \in 1..n - 1 /\ 1 \in 1..n - 1
  BY ONLY <1>3, <1>4, n \in Nat, n # 0
<1>5. ASSUME w1 # <<>>
      PROVE  Last(w1) = w[n - 1] /\ w1[1] = w[1]
  BY <1>1, <1>4, <1>5 DEF Last
<1> QED BY <1>1, <1>2, <1>4, <1>5 DEF Last

Innermost(w, n, top, a, s) ==
    n \in Nat /\ n = Len(w) /\ n # 0 /\ top = w[n] /\ a = top.new /\ s = top.src

LEMMA ReturnParts ==
  ASSUME NEW h, NEW sl, NEW g, NEW f, NEW w, NEW fs, NEW ds, Core(h, sl, g, f, w, fs, ds),
         NEW n, NEW top, NEW a, NEW s, Innermost(w, n, top, a, s), Len(top.out) = Len(top.fields),
         NEW f1, Fills(h, f, top, f1), NEW w1, w1 = Front(w),
         NEW ds1, Remembers(h, ds, top, ds1)
  PROVE  /\ Core(h, sl, g, f1, w1, fs, ds1)
         /\ Awaits(sl, w1, fs, H(s))
         /\ Known(g, H(s)) /\ ImageBy(g, H(s)) = F(a)
<1> DEFINE full == Filled(h, f, top)
<1> n \in Nat /\ n = Len(w) /\ n # 0 /\ top = w[n] /\ a = top.new /\ s = top.src
  BY DEF Innermost
<1>a. /\ Types(h, sl, g, f, w, fs, ds) /\ Forwards(h, g, f) /\ Frames(h, g, f, w)
      /\ Chain(sl, w, fs) /\ Copies(h, g, f, w, ds) /\ Slotted(sl, g, fs)
  BY DEF Core
<1>b0. n \in 1..n
  BY ONLY n \in Nat, n # 0
<1>b. /\ DOMAIN w = 1..n /\ w # <<>>
      /\ w \in Seq(FrameOf(h, f)) /\ Len(f) \in Nat /\ DOMAIN f = 1..Len(f)
      /\ ds \in Seq(DOMAIN f) /\ Len(ds) \in Nat
  BY <1>a, TypeFacts DEF Types
<1>c. top \in FrameOf(h, f) /\ FrameOk(h, g, f, top)
  BY <1>a, <1>b0, TypeFacts DEF Frames
<1>d. /\ a \in 1..Len(f) /\ s \in 1..Len(h) /\ g[s] = F(a) /\ top.fields = h[s].elems
      /\ \A j \in 1..Len(top.out) : /\ Known(g, top.fields[j])
                                    /\ top.out[j] = ImageBy(g, top.fields[j])
      /\ f[a].kind = h[s].kind
      /\ h[s].kind = "list" => /\ Len(f[a].elems) = Len(top.fields)
                               /\ \A j \in 1..Len(top.out) : f[a].elems[j] = top.out[j]
  BY <1>c DEF FrameOk
<1>f. full.elems = (IF h[s].kind = "list" THEN f[a].elems ELSE top.out)
      /\ full.kind = h[s].kind /\ full.tag = "object" /\ full.module = h[s].module
  BY DEF Filled
<1>o. ~full.optimized
  BY DEF Filled
<1> HIDE DEF full
<1>h. /\ Types(h, sl, g, f1, w, fs, ds) /\ Len(f1) = Len(f) /\ DOMAIN f1 = DOMAIN f
      /\ f1[a] = full /\ \A b \in 1..Len(f) : b # a => f1[b] = f[b]
  BY <1>a, <1>c, FillTypes DEF full
<1>i. /\ w1 \in Seq(FrameOf(h, f)) /\ Len(w1) = n - 1
      /\ \A d \in 1..n - 1 : w1[d] = w[d]
  BY <1>b, FrontFacts
<1>j. \A d \in 1..n - 1 : d \in 1..n /\ d # n
  BY ONLY n \in Nat
<1>k. \A i \in 1..Len(h) : g[i] = F(a) => i = s
  BY <1>a, <1>d DEF Forwards
<1>l. /\ ds1 \in Seq(DOMAIN f)
      /\ \A b : (\E d \in 1..Len(ds) : ds[d] = b) => (\E d \in 1..Len(ds1) : ds1[d] = b)
      /\ h[s].kind = "def" => \E d \in 1..Len(ds1) : ds1[d] = a
  <2>1. /\ ds1 \in Seq(DOMAIN f)
        /\ \A b : (\E d \in 1..Len(ds) : ds[d] = b) => (\E d \in 1..Len(ds1) : ds1[d] = b)
        /\ h[top.src].kind = "def" => \E d \in 1..Len(ds1) : ds1[d] = top.new
    <3>1. ds \in Seq(DOMAIN f) /\ top.new \in DOMAIN f
      BY <1>b, <1>d
    <3> DEFINE D == DOMAIN f
    <3> HIDE DEF D
    <3>2. ds \in Seq(D) /\ top.new \in D
      BY <3>1 DEF D
    <3>3. /\ ds1 \in Seq(D)
          /\ \A b : (\E d \in 1..Len(ds) : ds[d] = b) => (\E d \in 1..Len(ds1) : ds1[d] = b)
          /\ h[top.src].kind = "def" => \E d \in 1..Len(ds1) : ds1[d] = top.new
      <4>1. ds1 \in Seq(D)
        BY ONLY <3>2, Remembers(h, ds, top, ds1), RememberedDefs
      <4>2. h[top.src].kind = "def" => \E d \in 1..Len(ds1) : ds1[d] = top.new
        BY ONLY <3>2, Remembers(h, ds, top, ds1), RememberedDefs
      <4>3. \A b : (\E d \in 1..Len(ds) : ds[d] = b) => (\E d \in 1..Len(ds1) : ds1[d] = b)
        <5> TAKE b
        <5> HAVE \E d \in 1..Len(ds) : ds[d] = b
        <5> PICK d \in 1..Len(ds) : ds[d] = b
          OBVIOUS
        <5>1. d \in 1..Len(ds1) /\ ds1[d] = ds[d]
          BY ONLY d \in 1..Len(ds), <3>2, Remembers(h, ds, top, ds1), RememberedDefs
        <5> QED BY ONLY <5>1, ds[d] = b
      <4> QED BY ONLY <4>1, <4>2, <4>3
    <3> QED BY ONLY <3>3 DEF D
  <2> QED BY ONLY <2>1, a = top.new, s = top.src
<1>1. Types(h, sl, g, f1, w1, fs, ds1)
  <2>1. FrameOf(h, f) \subseteq FrameOf(h, f1)
    BY <1>h, Wider
  <2>2. w1 \in Seq(FrameOf(h, f1))
    BY <1>i, <2>1, SeqWider
  <2> QED BY <1>h, <1>l, <2>2 DEF Types
<1>2. Forwards(h, g, f1)
  BY <1>a, <1>h DEF Forwards
<1>3. Frames(h, g, f1, w1)
  <2>1. \A d \in 1..Len(w1) : FrameOk(h, g, f1, w1[d])
    <3> TAKE d \in 1..Len(w1)
    <3>1. d \in 1..n /\ d # n /\ w1[d] = w[d]
      BY <1>i, <1>j
    <3>2. FrameOk(h, g, f, w[d])
      BY <1>a, <3>1 DEF Frames
    <3>3. w[d].new # a
      <4> SUFFICES ASSUME w[d].new = a PROVE FALSE
        OBVIOUS
      <4>1. w[d].src \in 1..Len(h) /\ g[w[d].src] = F(a)
        BY <3>2 DEF FrameOk
      <4>2. w[d].src = w[n].src
        BY <1>k, <4>1
      <4> QED BY <1>a, <1>b0, <3>1, <4>2 DEF Frames
    <3>4. f1[w[d].new] = f[w[d].new]
      BY <1>h, <3>2, <3>3 DEF FrameOk
    <3> QED BY <1>h, <3>1, <3>2, <3>4, FrameSame
  <2>2. \A d, e \in 1..Len(w1) : w1[d].src = w1[e].src => d = e
    BY <1>a, <1>i, <1>j DEF Frames
  <2> QED BY <2>1, <2>2 DEF Frames
<1>4. /\ w1 # <<>> => n - 1 \in 1..n - 1 /\ Last(w1) = w[n - 1]
      /\ w1 # <<>> => 1 \in 1..n - 1 /\ w1[1] = w[1]
      /\ w1 = <<>> => n = 1
  BY ONLY <1>b, n \in Nat, n = Len(w), n # 0, w1 = Front(w), FrontFacts
<1>5. Chain(sl, w1, fs)
  <2>1. \A d \in 1..Len(w1) - 1 : d \in 1..n - 1 /\ d + 1 \in 1..n - 1
    BY ONLY <1>i, n \in Nat, n # 0
  <2>2. w1 # <<>> => Len(fs) < Len(sl) /\ sl[Len(fs) + 1] = H(w1[1].src)
    BY <1>4, <1>a DEF Chain
  <2>3. \A d \in 1..Len(w1) - 1 : /\ Len(w1[d].out) < Len(w1[d].fields)
                                  /\ w1[d].fields[Len(w1[d].out) + 1] = H(w1[d + 1].src)
    BY <1>a, <1>i, <2>1 DEF Chain
  <2> QED BY <2>2, <2>3 DEF Chain
<1>6. Finished(h, g, f1, ds1, s, a)
  <2>1. Len(full.elems) = Len(h[s].elems)
    BY <1>d, <1>f
  <2>2. \A j \in 1..Len(h[s].elems) : /\ Known(g, h[s].elems[j])
                                      /\ full.elems[j] = ImageBy(g, h[s].elems[j])
    BY <1>d, <1>f
  <2>3. h[s].kind = "def" =>
         \/ full.optimized /\ full.module = ModuleAfter(h[s].module)
         \/ /\ ~full.optimized /\ full.module = h[s].module
            /\ \E d \in 1..Len(ds1) : ds1[d] = a
    BY <1>f, <1>l, <1>o
  <2> QED BY <1>f, <1>h, <2>1, <2>2, <2>3 DEF Finished
<1>7. Copies(h, g, f1, w1, ds1)
  <2> SUFFICES ASSUME NEW i \in 1..Len(h), NEW b \in 1..Len(f1), g[i] = F(b),
                      \A d \in 1..Len(w1) : w1[d].src # i
               PROVE  Finished(h, g, f1, ds1, i, b)
    BY DEF Copies
  <2>1. CASE i = s
    <3>1. b = a
      BY <1>d, <2>1, Words
    <3> QED BY <1>6, <2>1, <3>1
  <2>2. CASE i # s
    <3>1. b # a
      BY <1>k, <2>2
    <3>2. \A d \in 1..n : d = n \/ d \in 1..n - 1
      BY ONLY n \in Nat
    <3>3. \A d \in 1..n : w[d].src # i
      BY <1>b, <1>i, <2>2, <3>2
    <3>4. Finished(h, g, f, ds, i, b) /\ f1[b] = f[b]
      BY <1>a, <1>h, <3>1, <3>3 DEF Copies
    <3> QED BY <1>l, <3>4, FinishedSame
  <2> QED BY <2>1, <2>2
<1>8. Awaits(sl, w1, fs, H(s))
  <2>1. CASE w1 = <<>>
    <3>1. w[1] = top /\ w # <<>>
      BY <1>4, <1>b, <2>1
    <3> QED BY <1>a, <2>1, <3>1 DEF Chain, Awaits
  <2>2. CASE w1 # <<>>
    <3> DEFINE d == n - 1
    <3>1. d \in 1..n - 1 /\ d + 1 = n /\ Last(w1) = w[d]
      BY <1>4, <1>b, <2>2
    <3> HIDE DEF d
    <3>2. Len(w[d].out) < Len(w[d].fields) /\ w[d].fields[Len(w[d].out) + 1] = H(w[n].src)
      BY <1>a, <3>1 DEF Chain
    <3> QED BY <1>b, <2>2, <3>1, <3>2 DEF Awaits
  <2> QED BY <2>1, <2>2
<1>9. Known(g, H(s)) /\ ImageBy(g, H(s)) = F(a)
  BY <1>d, Words DEF Known, ImageBy
<1> QED BY <1>1, <1>2, <1>3, <1>5, <1>7, <1>8, <1>9, <1>a DEF Core

LEMMA ReturnCore ==
  ASSUME NEW h, NEW sl, NEW g, NEW f, NEW w, NEW fs, NEW ds, Core(h, sl, g, f, w, fs, ds),
         w # <<>>, NEW top, top = Last(w), Len(top.out) = Len(top.fields),
         NEW f1, Fills(h, f, top, f1), NEW w1, w1 = Front(w),
         NEW ds1, Remembers(h, ds, top, ds1)
  PROVE  /\ Core(h, sl, g, f1, w1, fs, ds1)
         /\ Awaits(sl, w1, fs, H(top.src))
         /\ Known(g, H(top.src)) /\ ImageBy(g, H(top.src)) = F(top.new)
<1>1. Types(h, sl, g, f, w, fs, ds)
  BY DEF Core
<1>2. Len(w) \in Nat /\ Len(w) # 0 /\ top = w[Len(w)]
  BY <1>1, TypeFacts DEF Types, Last
<1> DEFINE n == Len(w)
           a == top.new
           s == top.src
<1>3. Innermost(w, n, top, a, s)
  BY <1>2 DEF Innermost
<1> HIDE DEF n, a, s
<1>4. /\ Core(h, sl, g, f1, w1, fs, ds1)
      /\ Awaits(sl, w1, fs, H(s))
      /\ Known(g, H(s)) /\ ImageBy(g, H(s)) = F(a)
  BY <1>3, ReturnParts
<1> QED BY ONLY <1>4 DEF a, s

-----------------------------------------------------------------------------
(* post_freeze of the first function remembered: it keeps its module or    *)
(* gets this one, and is complete.  All frames have returned.              *)
Completed(o) == [o EXCEPT !.module = ModuleAfter(@), !.optimized = TRUE]

LEMMA CompletedObject ==
  ASSUME NEW f, NEW o \in FObjectOf(f)
  PROVE  /\ Completed(o) \in FObjectOf(f)
         /\ Completed(o).tag = o.tag /\ Completed(o).kind = o.kind /\ Completed(o).elems = o.elems
         /\ Completed(o).module = ModuleAfter(o.module) /\ Completed(o).optimized = TRUE
<1>1. ModuleAfter(o.module) \in ModuleRef /\ o.module \in ModuleRef
  BY DEF FObjectOf, ModuleRef, ModuleAfter
<1>3. Completed(o) \in FObjectOf(f)
  BY <1>1 DEF FObjectOf, Completed
<1>4. /\ Completed(o).tag = o.tag /\ Completed(o).kind = o.kind /\ Completed(o).elems = o.elems
      /\ Completed(o).module = ModuleAfter(o.module) /\ Completed(o).optimized = TRUE
  BY DEF FObjectOf, Completed
<1> QED BY <1>3, <1>4

LEMMA ModuleAfterTwice == \A m : ModuleAfter(ModuleAfter(m)) = ModuleAfter(m)
BY DEF ModuleAfter

LEMMA TailFacts ==
  ASSUME NEW A, NEW s \in Seq(A), s # <<>>
  PROVE  /\ Tail(s) \in Seq(A) /\ Head(s) \in A /\ Head(s) = s[1]
         /\ \A d \in 1..Len(s) : d = 1 \/ (d - 1 \in 1..Len(Tail(s)) /\ Tail(s)[d - 1] = s[d])
<1>1. Tail(s) \in Seq(A) /\ Head(s) \in A /\ Head(s) = s[1] /\ Len(Tail(s)) = Len(s) - 1
  BY HeadTailProperties
<1>2. \A d \in 1..Len(s) - 1 : Tail(s)[d] = s[d + 1]
  BY HeadTailProperties
<1>3. Len(s) \in Nat
  OBVIOUS
<1>4. ASSUME NEW d \in 1..Len(s), d # 1
      PROVE  d - 1 \in 1..Len(s) - 1 /\ (d - 1) + 1 = d
  BY ONLY <1>3, <1>4
<1>5. ASSUME NEW d \in 1..Len(s), d # 1
      PROVE  Tail(s)[d - 1] = s[d]
  <2> DEFINE e == d - 1
  <2>1. e \in 1..Len(s) - 1 /\ e + 1 = d
    BY <1>4, <1>5
  <2> HIDE DEF e
  <2>2. Tail(s)[e] = s[d]
    BY ONLY <1>2, <2>1
  <2> QED BY <2>2 DEF e
<1> QED BY <1>1, <1>4, <1>5

LEMMA PostCore ==
  ASSUME NEW h, NEW sl, NEW g, NEW f, NEW w, NEW fs, NEW ds, Core(h, sl, g, f, w, fs, ds),
         w = <<>>, ds # <<>>, NEW b, b = Head(ds),
         NEW f1, Replaced(f, b, Completed(f[b]), f1), NEW ds1, ds1 = Tail(ds)
  PROVE  Core(h, sl, g, f1, w, fs, ds1)
<1> DEFINE o1 == Completed(f[b])
<1>a. /\ Types(h, sl, g, f, w, fs, ds) /\ Forwards(h, g, f) /\ Frames(h, g, f, w)
      /\ Chain(sl, w, fs) /\ Copies(h, g, f, w, ds) /\ Slotted(sl, g, fs)
  BY DEF Core
<1>b. ds \in Seq(DOMAIN f) /\ DOMAIN f = 1..Len(f)
  BY <1>a, TypeFacts DEF Types
<1> DEFINE D == DOMAIN f
<1>c. /\ ds1 \in Seq(DOMAIN f) /\ b \in DOMAIN f
      /\ \A d \in 1..Len(ds) : d = 1 \/ (d - 1 \in 1..Len(ds1) /\ ds1[d - 1] = ds[d])
      /\ b = ds[1]
  <2> HIDE DEF D
  <2>1. ds \in Seq(D)
    BY <1>b DEF D
  <2>2. /\ ds1 \in Seq(D) /\ b \in D
        /\ \A d \in 1..Len(ds) : d = 1 \/ (d - 1 \in 1..Len(ds1) /\ ds1[d - 1] = ds[d])
        /\ b = ds[1]
    BY ONLY <2>1, ds # <<>>, b = Head(ds), ds1 = Tail(ds), TailFacts
  <2> QED BY ONLY <2>2 DEF D
<1>d. b \in 1..Len(f) /\ f[b] \in FObjectOf(f)
  BY <1>a, <1>b, <1>c, TypeFacts
<1>e. /\ o1 \in FObjectOf(f)
      /\ o1.tag = f[b].tag /\ o1.kind = f[b].kind /\ o1.elems = f[b].elems
      /\ o1.module = ModuleAfter(f[b].module)
  BY <1>d, CompletedObject
<1>o. o1.optimized
  BY <1>d, CompletedObject
<1> HIDE DEF o1
<1>f. /\ Types(h, sl, g, f1, w, fs, ds) /\ Len(f1) = Len(f) /\ DOMAIN f1 = DOMAIN f
      /\ f1[b] = o1 /\ \A c \in 1..Len(f) : c # b => f1[c] = f[c]
  <2>1. Replaced(f, b, o1, f1)
    BY DEF o1
  <2> QED BY ONLY <1>a, <1>d, <1>e, <2>1, ReplacedTypes
<1>1. Types(h, sl, g, f1, w, fs, ds1)
  BY <1>c, <1>f DEF Types
<1>2. Forwards(h, g, f1)
  BY <1>a, <1>f DEF Forwards
<1>3. Frames(h, g, f1, w)
  BY <1>a DEF Frames
<1>4. Chain(sl, w, fs)
  BY <1>a
<1>5. Copies(h, g, f1, w, ds1)
  <2> SUFFICES ASSUME NEW i \in 1..Len(h), NEW a \in 1..Len(f), g[i] = F(a)
               PROVE  Finished(h, g, f1, ds1, i, a)
    BY <1>f DEF Copies
  <2>1. Finished(h, g, f, ds, i, a)
    BY <1>a DEF Copies
  <2>2. CASE a = b
    <3>1. f[b].module = h[i].module \/ f[b].module = ModuleAfter(h[i].module) \/ h[i].kind # "def"
      BY <2>1, <2>2 DEF Finished
    <3>2. h[i].kind = "def" => o1.module = ModuleAfter(h[i].module)
      BY <1>e, <3>1, ModuleAfterTwice
    <3>3. h[i].kind = "def" => f1[a].optimized /\ f1[a].module = ModuleAfter(h[i].module)
      BY <1>f, <1>o, <2>2, <3>2
    <3>4. f1[a].tag = f[a].tag /\ f1[a].kind = f[a].kind /\ f1[a].elems = f[a].elems
      BY <1>e, <1>f, <2>2
    <3> QED BY <2>1, <3>3, <3>4 DEF Finished
  <2>3. CASE a # b
    <3>1. f1[a] = f[a]
      BY <1>f, <2>3
    <3>2. (\E d \in 1..Len(ds) : ds[d] = a) => \E d \in 1..Len(ds1) : ds1[d] = a
      BY <1>c, <2>3
    <3>3. h[i].kind = "def" =>
         \/ f1[a].optimized /\ f1[a].module = ModuleAfter(h[i].module)
         \/ /\ ~f1[a].optimized /\ f1[a].module = h[i].module
            /\ \E d \in 1..Len(ds1) : ds1[d] = a
      BY <2>1, <3>1, <3>2 DEF Finished
    <3> QED BY <2>1, <3>1, <3>3 DEF Finished
  <2> QED BY <2>2, <2>3
<1> QED BY <1>1, <1>2, <1>3, <1>4, <1>5, <1>a DEF Core

-----------------------------------------------------------------------------
(* What is reachable is what the slots hold, and is closed.                *)
LEMMA InsideIs ==
  ASSUME NEW h, NEW vs \in Seq(Value(h))
  PROVE  /\ \A i : \A j \in 1..Len(vs) : vs[j] = H(i) => i \in Inside(vs)
         /\ Inside(vs) \subseteq DOMAIN h
         /\ \A i \in Inside(vs) : \E j \in 1..Len(vs) : vs[j] = H(i)
<1>1. DOMAIN vs = 1..Len(vs) /\ \A j \in 1..Len(vs) : vs[j] \in Value(h)
  OBVIOUS
<1>2. ASSUME NEW j \in 1..Len(vs), NEW i, vs[j] = H(i)
      PROVE  i \in Inside(vs)
  <2>1. vs[j] # Old /\ vs[j][2] = i
    BY <1>2, Words
  <2> QED BY <1>1, <2>1 DEF Inside
<1>3. ASSUME NEW i \in Inside(vs)
      PROVE  i \in DOMAIN h /\ \E j \in 1..Len(vs) : vs[j] = H(i)
  <2>1. PICK j \in 1..Len(vs) : vs[j] # Old /\ i = vs[j][2]
    BY <1>1, <1>3 DEF Inside
  <2>2. PICK k \in DOMAIN h : vs[j] = H(k)
    BY <1>1, <2>1, ValueIs
  <2> QED BY <2>1, <2>2, Words
<1> QED BY <1>2, <1>3

LEMMA ReachableClosed ==
  ASSUME heap \in Seq(ObjectOf(heap)), slots \in Seq(Value(heap))
  PROVE  Closed(Reachable) /\ Reachable \subseteq 1..Len(heap)
<1>1. DOMAIN heap = 1..Len(heap) /\ \A i \in 1..Len(heap) : heap[i] \in ObjectOf(heap)
  OBVIOUS
<1>2. Reachable \subseteq DOMAIN heap
  BY DEF Reachable
<1>3. Inside(slots) \subseteq Reachable
  <2> SUFFICES ASSUME NEW i \in Inside(slots) PROVE i \in Reachable
    OBVIOUS
  <2>1. i \in DOMAIN heap
    BY InsideIs
  <2> QED BY <2>1 DEF Reachable, Closed
<1>4. ASSUME NEW o \in Reachable
      PROVE  Inside(heap[o].elems) \subseteq Reachable
  <2> SUFFICES ASSUME NEW i \in Inside(heap[o].elems) PROVE i \in Reachable
    OBVIOUS
  <2>1. heap[o] \in ObjectOf(heap)
    BY <1>1, <1>2
  <2>2. heap[o].elems \in Seq(Value(heap))
    BY <2>1, ObjectFacts
  <2>3. i \in DOMAIN heap
    BY <2>2, InsideIs
  <2> QED BY <2>3 DEF Reachable, Closed
<1> QED BY <1>1, <1>2, <1>3, <1>4 DEF Closed

LEMMA SameReachable ==
  ASSUME heap' = heap, slots' = slots
  PROVE  Reachable' = Reachable
BY DEF Reachable, Closed, Inside, Old

(* The word that freezer.freeze is called on next.                         *)
LEMMA CurrentWord ==
  ASSUME IInv, Pending
  PROVE  /\ Awaits(slots, work, frozenSlots, Current)
         /\ Current \in Value(heap)
         /\ Current # Old => /\ Current = H(Current[2]) /\ Current[2] \in 1..Len(heap)
                             /\ Current[2] \in Reachable
<1>a. /\ Types(heap, slots, fwd, frozen, work, frozenSlots, defs) /\ Frames(heap, fwd, frozen, work)
      /\ Slotted(slots, fwd, frozenSlots) /\ Len(slots) = NSlots
  BY DEF IInv, Core, Phases
<1>b. heap \in Seq(ObjectOf(heap)) /\ slots \in Seq(Value(heap))
  BY <1>a DEF Types
<1>c. Closed(Reachable) /\ Reachable \subseteq 1..Len(heap) /\ DOMAIN heap = 1..Len(heap)
  BY <1>b, ReachableClosed
<1>1. Awaits(slots, work, frozenSlots, Current)
  BY <1>a DEF Pending, Current, Top, Awaits
<1>2. /\ Current \in Value(heap)
      /\ \A i : Current = H(i) => i \in Reachable
  <2>1. CASE work = <<>>
    <3> DEFINE j == Len(frozenSlots) + 1
    <3>1. Len(frozenSlots) < Len(slots) /\ Current = slots[j]
      BY <1>1, <2>1 DEF Awaits
    <3>2. Len(frozenSlots) \in Nat /\ Len(slots) \in Nat
      BY <1>a, TypeFacts
    <3>3. j \in 1..Len(slots)
      BY ONLY <3>1, <3>2
    <3> HIDE DEF j
    <3>4. Current \in Value(heap)
      BY ONLY <1>b, <3>1, <3>3
    <3>5. \A i : Current = H(i) => i \in Inside(slots)
      BY <1>b, <3>1, <3>3, InsideIs
    <3> QED BY <1>c, <3>4, <3>5 DEF Closed
  <2>2. CASE work # <<>>
    <3> DEFINE fr == Last(work)
               j == Len(fr.out) + 1
    <3>1. Len(fr.out) < Len(fr.fields) /\ Current = fr.fields[j]
      BY <1>1, <2>2 DEF Awaits
    <3>2. Len(work) \in 1..Len(work) /\ fr = work[Len(work)]
      BY <1>a, <2>2, TypeFacts DEF Last, Types
    <3>3. fr \in FrameOf(heap, frozen) /\ FrameOk(heap, fwd, frozen, fr)
      BY <1>a, <3>2, TypeFacts DEF Frames
    <3> HIDE DEF fr
    <3>4. Len(fr.out) \in Nat /\ Len(fr.fields) \in Nat /\ fr.fields \in Seq(Value(heap))
      BY <3>3, FrameFacts
    <3>5. j \in 1..Len(fr.fields)
      BY ONLY <3>1, <3>4
    <3> HIDE DEF j
    <3>6. Current \in Value(heap)
      BY ONLY <3>1, <3>4, <3>5
    <3>7. \A i : Current = H(i) => i \in Inside(fr.fields)
      BY <3>1, <3>4, <3>5, InsideIs
    <3>8. fr.src \in 1..Len(heap) /\ fwd[fr.src] # NoForward /\ fr.fields = heap[fr.src].elems
      BY <3>3, Words DEF FrameOk
    <3>9. fr.src \in Reachable
      BY <3>8 DEF IInv
    <3> QED BY <1>c, <3>6, <3>7, <3>8, <3>9 DEF Closed
  <2> QED BY <2>1, <2>2
<1>3. Current # Old => \E i \in 1..Len(heap) : Current = H(i) /\ i = Current[2]
  BY <1>2, <1>c, ValueIs, Words
<1> QED BY <1>1, <1>2, <1>3

-----------------------------------------------------------------------------
(* The steps.                                                              *)
LEMMA FreezingStep ==
  ASSUME IInv, phase = "freezing", phase' = "freezing", heap' = heap, slots' = slots,
         Core(heap, slots, fwd', frozen', work', frozenSlots', defs'),
         \A i \in 1..Len(heap) : fwd'[i] # NoForward => i \in Reachable
  PROVE  IInv'
<1>1. Reachable' = Reachable
  BY SameReachable
<1>2. Core(heap, slots, fwd, frozen, work, frozenSlots, defs)'
  OBVIOUS
<1>3. Shapes(heap)'
  BY DEF IInv, Shapes
<1>4. Phases'
  BY DEF IInv, Phases
<1>5. (\A i \in 1..Len(heap) : fwd[i] # NoForward => i \in Reachable)'
  BY <1>1
<1> QED BY <1>2, <1>3, <1>4, <1>5 DEF IInv

(* Forwarding the current object, which is reachable.                      *)
LEMMA NewlyReachable ==
  ASSUME IInv, NEW i \in Reachable, NEW v, fwd' = [fwd EXCEPT ![i] = v]
  PROVE  \A j \in 1..Len(heap) : fwd'[j] # NoForward => j \in Reachable
<1>1. DOMAIN fwd = 1..Len(heap) /\ \A j \in 1..Len(heap) : fwd[j] # NoForward => j \in Reachable
  BY TypeFacts DEF IInv, Core
<1> QED BY <1>1

LEMMA DeliverStep ==
  ASSUME NEW f, Core(heap, slots, fwd', f, work, frozenSlots, defs),
         Awaits(slots, work, frozenSlots, Current), Known(fwd', Current),
         NEW v, v = ImageBy(fwd', Current), Deliver(f, work, v)
  PROVE  Core(heap, slots, fwd', frozen', work', frozenSlots', defs)
<1>1. Delivered(f, work, frozenSlots, v, frozen', work', frozenSlots')
  BY DEF Deliver, Delivered
<1> QED BY <1>1, DeliverCore

LEMMA KnownKeepsInv ==
  ASSUME IInv, FreezeKnown
  PROVE  IInv'
<1>a. Pending /\ heap' = heap /\ slots' = slots /\ fwd' = fwd /\ defs' = defs /\ phase' = phase
  BY DEF FreezeKnown
<1>b. Awaits(slots, work, frozenSlots, Current)
  BY <1>a, CurrentWord
<1>c. Core(heap, slots, fwd, frozen, work, frozenSlots, defs)
  BY DEF IInv
<1>d. Known(fwd, Current) /\ Deliver(frozen, work, ImageBy(fwd, Current))
  BY DEF FreezeKnown, Known, ImageBy, ForwardFound
<1>1. Core(heap, slots, fwd', frozen', work', frozenSlots', defs)
  <2> DEFINE v == ImageBy(fwd, Current)
  <2>1. v = ImageBy(fwd', Current) /\ Known(fwd', Current) /\ Deliver(frozen, work, v)
    BY <1>a, <1>d
  <2>2. Core(heap, slots, fwd', frozen, work, frozenSlots, defs)
    BY <1>a, <1>c
  <2> HIDE DEF v
  <2> QED BY <1>b, <2>1, <2>2, DeliverStep
<1>2. \A i \in 1..Len(heap) : fwd'[i] # NoForward => i \in Reachable
  BY <1>a DEF IInv
<1> QED BY <1>1, <1>2, <1>a, FreezingStep DEF Pending

(* What the three actions that forward the current object start from.      *)
LEMMA ToFreezeFacts ==
  ASSUME IInv, NEW kinds, ToFreeze(kinds), NEW i, i = Current[2]
  PROVE  /\ i \in 1..Len(heap) /\ i \in Reachable /\ Current = H(i) /\ fwd[i] = NoForward
         /\ heap[i].kind \in kinds /\ Source = heap[i] /\ phase = "freezing"
         /\ Awaits(slots, work, frozenSlots, H(i))
         /\ Core(heap, slots, fwd, frozen, work, frozenSlots, defs)
         /\ heap[i].kind \in {"leaf", "static", "noFreeze"} => heap[i].elems = <<>>
<1>1. Pending /\ Current # Old /\ fwd[i] = NoForward /\ heap[i].kind \in kinds
  BY DEF ToFreeze
<1>2. Awaits(slots, work, frozenSlots, Current) /\ Current = H(i) /\ i \in 1..Len(heap) /\ i \in Reachable
  BY <1>1, CurrentWord
<1> QED BY <1>1, <1>2 DEF IInv, Shapes, Source, Pending

LEMMA ForwardedWord ==
  ASSUME NEW g, NEW i \in DOMAIN g, NEW v, v # NoForward, fwd' = [g EXCEPT ![i] = v]
  PROVE  Known(fwd', H(i)) /\ ImageBy(fwd', H(i)) = v
<1>1. fwd'[i] = v /\ H(i) # Old /\ H(i)[2] = i
  BY Words
<1> QED BY <1>1 DEF Known, ImageBy

LEMMA StaticKeepsInv ==
  ASSUME IInv, FreezeToStatic
  PROVE  IInv'
<1> DEFINE i == Current[2]
           v == IF Source.kind = "list" THEN EmptyList ELSE Static
<1>a. /\ ToFreeze({"list", "static"}) /\ IsStatic(Source) /\ i = Current[2]
      /\ fwd' = [fwd EXCEPT ![i] = v] /\ Deliver(frozen, work, v)
      /\ phase' = phase /\ heap' = heap /\ slots' = slots /\ defs' = defs
  BY DEF FreezeToStatic
<1>b. v \in {EmptyList, Static}
  OBVIOUS
<1> HIDE DEF i, v
<1>c. /\ i \in 1..Len(heap) /\ i \in Reachable /\ Current = H(i) /\ fwd[i] = NoForward
      /\ Source = heap[i] /\ phase = "freezing" /\ Awaits(slots, work, frozenSlots, H(i))
      /\ Core(heap, slots, fwd, frozen, work, frozenSlots, defs)
  BY <1>a, ToFreezeFacts
<1>d. v # NoForward /\ DOMAIN fwd = 1..Len(heap)
  BY <1>b, <1>c, Words, TypeFacts DEF Core
<1>1. Core(heap, slots, fwd', frozen, work, frozenSlots, defs)
  BY <1>a, <1>b, <1>c, StaticCore
<1>2. Known(fwd', Current) /\ v = ImageBy(fwd', Current)
  BY <1>a, <1>c, <1>d, ForwardedWord
<1>3. Core(heap, slots, fwd', frozen', work', frozenSlots', defs)
  BY <1>1, <1>2, <1>a, <1>c, DeliverStep
<1>4. \A j \in 1..Len(heap) : fwd'[j] # NoForward => j \in Reachable
  BY <1>a, <1>c, NewlyReachable
<1> QED BY <1>3, <1>4, <1>a, <1>c, FreezingStep

LEMMA LeafKeepsInv ==
  ASSUME IInv, FreezeLeaf
  PROVE  IInv'
<1> DEFINE i == Current[2]
           v == F(Len(frozen) + 1)
           f == Append(frozen, Reserved(Source, "object", <<>>))
<1>a. /\ ToFreeze({"leaf"}) /\ i = Current[2]
      /\ fwd' = [fwd EXCEPT ![i] = v] /\ Deliver(f, work, v)
      /\ phase' = phase /\ heap' = heap /\ slots' = slots /\ defs' = defs
  BY DEF FreezeLeaf
<1> HIDE DEF i
<1>c. /\ i \in 1..Len(heap) /\ i \in Reachable /\ Current = H(i) /\ fwd[i] = NoForward
      /\ heap[i].kind = "leaf" /\ heap[i].elems = <<>>
      /\ Source = heap[i] /\ phase = "freezing" /\ Awaits(slots, work, frozenSlots, H(i))
      /\ Core(heap, slots, fwd, frozen, work, frozenSlots, defs)
  BY <1>a, ToFreezeFacts
<1>d. v # NoForward /\ DOMAIN fwd = 1..Len(heap)
  BY <1>c, Words, TypeFacts DEF Core
<1>1. Core(heap, slots, fwd', f, work, frozenSlots, defs)
  BY <1>a, <1>c, LeafCore
<1> HIDE DEF v, f
<1>2. Known(fwd', Current) /\ v = ImageBy(fwd', Current)
  BY <1>a, <1>c, <1>d, ForwardedWord
<1>3. Core(heap, slots, fwd', frozen', work', frozenSlots', defs)
  BY <1>1, <1>2, <1>a, <1>c, DeliverStep
<1>4. \A j \in 1..Len(heap) : fwd'[j] # NoForward => j \in Reachable
  BY <1>a, <1>c, NewlyReachable
<1> QED BY <1>3, <1>4, <1>a, <1>c, FreezingStep

LEMMA ReservedObject ==
  ASSUME NEW h, NEW f, NEW o \in ObjectOf(h), NEW t \in {"blackHole", "object"},
         NEW es \in Seq(FValue(f) \cup {Uninit})
  PROVE  /\ Reserved(o, t, es) \in FObjectOf(f)
         /\ Reserved(o, t, es).kind = o.kind /\ Reserved(o, t, es).elems = es
<1>1. o.kind \in Kind /\ "none" \in ModuleRef
  BY DEF ObjectOf, ModuleRef
<1>2. Reserved(o, t, es).kind = o.kind /\ Reserved(o, t, es).elems = es
  BY DEF Reserved
<1>3. Reserved(o, t, es) \in FObjectOf(f)
  BY <1>1 DEF Reserved, FObjectOf
<1> QED BY <1>2, <1>3

LEMMA ReserveKeepsInv ==
  ASSUME IInv, FreezeReserve
  PROVE  IInv'
<1> DEFINE i == Current[2]
           isList == Source.kind = "list"
           t == IF isList THEN "object" ELSE "blackHole"
           es == IF isList THEN [j \in DOMAIN Source.elems |-> Uninit] ELSE <<>>
           x == Reserved(Source, t, es)
<1>a. /\ ToFreeze({"tuple", "list", "complex", "def"}) /\ ~IsStatic(Source) /\ i = Current[2]
      /\ frozen' = Append(frozen, x)
      /\ fwd' = [fwd EXCEPT ![i] = F(Len(frozen) + 1)]
      /\ work' = Append(work, [src |-> i, new |-> Len(frozen) + 1,
                               fields |-> Source.elems, out |-> <<>>])
      /\ phase' = phase /\ heap' = heap /\ slots' = slots /\ frozenSlots' = frozenSlots /\ defs' = defs
  BY DEF FreezeReserve, ForwardBefore
<1> DEFINE kinds == {"tuple", "list", "complex", "def"}
<1>b. ToFreeze(kinds) /\ i = Current[2] /\ "noFreeze" \notin kinds
  BY <1>a
<1> HIDE DEF i, kinds
<1>c. /\ i \in 1..Len(heap) /\ i \in Reachable /\ Current = H(i) /\ fwd[i] = NoForward
      /\ heap[i].kind # "noFreeze" /\ Source = heap[i] /\ phase = "freezing"
      /\ Awaits(slots, work, frozenSlots, H(i))
      /\ Core(heap, slots, fwd, frozen, work, frozenSlots, defs)
  BY ONLY IInv, <1>b, ToFreezeFacts
<1>d. /\ Source \in ObjectOf(heap) /\ Len(Source.elems) \in Nat
      /\ DOMAIN Source.elems = 1..Len(Source.elems)
  BY <1>c, TypeFacts, ObjectFacts DEF Core
<1>e. /\ es \in Seq(FValue(frozen') \cup {Uninit})
      /\ Source.kind = "list" => Len(es) = Len(Source.elems)
      /\ t \in {"blackHole", "object"}
  BY <1>d
<1> HIDE DEF es, t
<1>f. x \in FObjectOf(frozen') /\ x.kind = Source.kind /\ x.elems = es
  BY <1>d, <1>e, ReservedObject
<1> HIDE DEF x
<1>1. Reserves(heap, frozen, work, i, x, frozen', work') /\ SetForward(fwd, i, F(Len(frozen) + 1), fwd')
  BY <1>a, <1>c DEF Reserves, SetForward
<1>2. Core(heap, slots, fwd', frozen', work', frozenSlots, defs)
  <2>1. /\ ~IsStatic(heap[i]) /\ x.kind = heap[i].kind
        /\ x.kind = "list" => Len(x.elems) = Len(heap[i].elems)
    BY <1>a, <1>c, <1>e, <1>f
  <2> QED BY ONLY <1>1, <1>c, <1>f, <2>1, ReserveCore
<1>4. \A j \in 1..Len(heap) : fwd'[j] # NoForward => j \in Reachable
  BY <1>a, <1>c, NewlyReachable
<1> QED BY <1>2, <1>4, <1>a, <1>c, FreezingStep

LEMMA ReturnKeepsInv ==
  ASSUME IInv, FreezeReturn
  PROVE  IInv'
<1> DEFINE top == Last(work)
           f == [frozen EXCEPT ![top.new] = Filled(heap, frozen, top)]
           w == Front(work)
<1>a. /\ phase = "freezing" /\ work # <<>> /\ Len(top.out) = Len(top.fields)
      /\ Deliver(f, w, F(top.new))
      /\ Remembers(heap, defs, top, defs')
      /\ phase' = phase /\ heap' = heap /\ slots' = slots /\ fwd' = fwd
  BY DEF FreezeReturn, Top, Complete, Filled, ModuleKept, DefsAfter, Remembers
<1>b. Fills(heap, frozen, top, f)
  BY DEF Fills
<1>c. Core(heap, slots, fwd, frozen, work, frozenSlots, defs)
  BY DEF IInv
<1>d. top = Last(work) /\ w = Front(work)
  OBVIOUS
<1> HIDE DEF top, f, w
<1>1. /\ Core(heap, slots, fwd, f, w, frozenSlots, defs')
      /\ Awaits(slots, w, frozenSlots, H(top.src))
      /\ Known(fwd, H(top.src)) /\ ImageBy(fwd, H(top.src)) = F(top.new)
  BY <1>a, <1>b, <1>c, <1>d, ReturnCore
<1>2. Delivered(f, w, frozenSlots, F(top.new), frozen', work', frozenSlots')
  BY <1>a DEF Deliver, Delivered
<1>3. Core(heap, slots, fwd, frozen', work', frozenSlots', defs')
  <2> DEFINE v == F(top.new)
             u == H(top.src)
  <2>1. /\ Awaits(slots, w, frozenSlots, u) /\ Known(fwd, u) /\ v = ImageBy(fwd, u)
        /\ Delivered(f, w, frozenSlots, v, frozen', work', frozenSlots')
    BY <1>1, <1>2
  <2> HIDE DEF v, u
  <2> QED BY ONLY <1>1, <2>1, DeliverCore
<1>4. \A i \in 1..Len(heap) : fwd'[i] # NoForward => i \in Reachable
  BY <1>a DEF IInv
<1> QED BY <1>3, <1>4, <1>a, FreezingStep

LEMMA PhaseKeepsInv ==
  ASSUME IInv, FreezeFails \/ AllocModuleData \/ Seal \/ Start \/ UNCHANGED vars
  PROVE  IInv'
<1>1. /\ heap' = heap /\ slots' = slots /\ fwd' = fwd /\ frozen' = frozen
      /\ frozenSlots' = frozenSlots /\ work' = work /\ defs' = defs
  BY DEF FreezeFails, AllocModuleData, Seal, Start, vars
<1>2. Reachable' = Reachable
  BY <1>1, SameReachable
<1>3. Core(heap, slots, fwd, frozen, work, frozenSlots, defs)'
  BY <1>1 DEF IInv
<1>4. Shapes(heap)'
  BY <1>1 DEF IInv, Shapes
<1>5. (\A i \in 1..Len(heap) : fwd[i] # NoForward => i \in Reachable)'
  BY <1>1, <1>2 DEF IInv
<1>6. Phases'
  <2>1. CASE FreezeFails
    <3> DEFINE i == Current[2]
    <3>1. ToFreeze({"noFreeze"}) /\ i = Current[2] /\ phase' = "failed"
      BY <2>1 DEF FreezeFails, PhaseAfterError
    <3> HIDE DEF i
    <3>2. i \in Reachable /\ heap[i].kind = "noFreeze"
      BY <3>1, ToFreezeFacts
    <3> QED BY <1>1, <1>2, <3>1, <3>2 DEF IInv, Phases
  <2>2. CASE AllocModuleData
    BY <1>1, <2>2 DEF AllocModuleData, IInv, Phases
  <2>3. CASE Seal
    BY <1>1, <2>3 DEF Seal, IInv, Phases
  <2>4. CASE Start
    BY <1>1, <2>4 DEF Start, IInv, Phases
  <2>5. CASE UNCHANGED vars
    BY <1>1, <1>2, <2>5 DEF vars, IInv, Phases
  <2> QED BY <2>1, <2>2, <2>3, <2>4, <2>5
<1> QED BY <1>3, <1>4, <1>5, <1>6 DEF IInv

LEMMA PostKeepsInv ==
  ASSUME IInv, PostFreeze
  PROVE  IInv'
<1> DEFINE b == Head(defs)
<1>a. /\ phase = "postFreeze" /\ phase' = phase /\ defs # <<>> /\ defs' = Tail(defs) /\ b = Head(defs)
      /\ heap' = heap /\ slots' = slots /\ fwd' = fwd /\ frozenSlots' = frozenSlots /\ work' = work
  BY DEF PostFreeze
<1>b. /\ Core(heap, slots, fwd, frozen, work, frozenSlots, defs) /\ work = <<>>
      /\ Len(frozenSlots) = NSlots /\ Len(slots) = NSlots
  BY <1>a DEF IInv, Phases
<1>c. Replaced(frozen, b, Completed(frozen[b]), frozen')
  BY DEF PostFreeze, Replaced, Completed
<1> HIDE DEF b
<1>1. Core(heap, slots, fwd, frozen', work, frozenSlots, defs')
  BY <1>a, <1>b, <1>c, PostCore
<1>2. Core(heap, slots, fwd, frozen, work, frozenSlots, defs)'
  BY <1>1, <1>a
<1>3. Reachable' = Reachable
  BY <1>a, SameReachable
<1>4. Shapes(heap)'
  BY <1>a DEF IInv, Shapes
<1>5. (\A i \in 1..Len(heap) : fwd[i] # NoForward => i \in Reachable)'
  BY <1>a, <1>3 DEF IInv
<1>6. Phases'
  BY <1>a, <1>b DEF Phases
<1> QED BY <1>2, <1>4, <1>5, <1>6 DEF IInv

(* While the module runs, nothing is frozen.                               *)
LEMMA RunningCore ==
  ASSUME NEW h, h \in Seq(ObjectOf(h)), NEW sl \in Seq(Value(h)), NEW g \in Seq({NoForward}),
         Len(g) = Len(h)
  PROVE  Core(h, sl, g, <<>>, <<>>, <<>>, <<>>)
<1>a. Len(h) \in Nat /\ DOMAIN g = 1..Len(h) /\ \A i \in 1..Len(h) : g[i] = NoForward
  OBVIOUS
<1>1. Types(h, sl, g, <<>>, <<>>, <<>>, <<>>)
  <2>1. g \in Seq(FValue(<<>>) \cup {NoForward})
    <3> DEFINE B == FValue(<<>>) \cup {NoForward}
    <3>1. {NoForward} \subseteq B
      OBVIOUS
    <3> HIDE DEF B
    <3> QED BY <3>1, SeqWider DEF B
  <2> QED BY <2>1 DEF Types
<1>2. Forwards(h, g, <<>>)
  BY <1>a DEF Forwards
<1>3. Frames(h, g, <<>>, <<>>) /\ Chain(sl, <<>>, <<>>)
  BY DEF Frames, Chain
<1>4. Copies(h, g, <<>>, <<>>, <<>>)
  BY <1>a DEF Copies
<1>5. Slotted(sl, g, <<>>)
  <2>1. Len(sl) \in Nat
    OBVIOUS
  <2> QED BY <2>1 DEF Slotted
<1> QED BY <1>1, <1>2, <1>3, <1>4, <1>5 DEF Core

LEMMA RunningFacts ==
  ASSUME IInv, phase = "running"
  PROVE  /\ heap \in Seq(ObjectOf(heap)) /\ slots \in Seq(Value(heap)) /\ Len(slots) = NSlots
         /\ fwd \in Seq({NoForward}) /\ Len(fwd) = Len(heap) /\ Shapes(heap)
         /\ frozen = <<>> /\ work = <<>> /\ frozenSlots = <<>> /\ defs = <<>>
<1>1. Types(heap, slots, fwd, frozen, work, frozenSlots, defs) /\ Phases /\ Shapes(heap)
  BY DEF IInv, Core
<1>2. DOMAIN fwd = 1..Len(fwd) /\ Len(fwd) = Len(heap) /\ Len(fwd) \in Nat
  BY <1>1 DEF Types
<1>3. \A i \in 1..Len(fwd) : fwd[i] = NoForward
  BY <1>1, <1>2 DEF Phases
<1>4. fwd \in Seq({NoForward})
  <2>1. fwd \in Seq(FValue(frozen) \cup {NoForward})
    BY <1>1 DEF Types
  <2>2. fwd = [i \in 1..Len(fwd) |-> fwd[i]]
    BY <1>2, <2>1
  <2> DEFINE n == Len(fwd)
  <2> HIDE DEF n
  <2>3. n \in Nat /\ fwd = [i \in 1..n |-> fwd[i]] /\ \A i \in 1..n : fwd[i] \in {NoForward}
    BY <1>2, <1>3, <2>2 DEF n
  <2> QED BY ONLY <2>3
<1> QED BY <1>1, <1>4 DEF Types, Phases

LEMMA RunningStep ==
  ASSUME phase' = "running",
         heap' \in Seq(ObjectOf(heap')), slots' \in Seq(Value(heap')), Len(slots') = NSlots,
         fwd' \in Seq({NoForward}), Len(fwd') = Len(heap'), Shapes(heap'),
         frozen' = <<>>, work' = <<>>, frozenSlots' = <<>>, defs' = <<>>
  PROVE  IInv'
<1>1. Core(heap, slots, fwd, frozen, work, frozenSlots, defs)'
  BY RunningCore
<1>2. \A i \in 1..Len(heap') : fwd'[i] = NoForward
  OBVIOUS
<1>3. Phases'
  BY <1>2 DEF Phases
<1> QED BY <1>1, <1>2, <1>3 DEF IInv

LEMMA InitKeepsInv == Init => IInv
<1> SUFFICES ASSUME Init PROVE IInv
  OBVIOUS
<1>1. /\ phase = "running" /\ heap = <<>> /\ fwd = <<>> /\ frozen = <<>> /\ frozenSlots = <<>>
      /\ work = <<>> /\ defs = <<>> /\ slots = [i \in 1 .. NSlots |-> Old] /\ NSlots \in Nat
  BY FreezeAssumption DEF Init
<1>2. slots \in Seq(Value(heap)) /\ Len(slots) = NSlots
  <2>1. Old \in Value(heap)
    BY ValueIs
  <2> QED BY <1>1, <2>1
<1>3. Core(heap, slots, fwd, frozen, work, frozenSlots, defs)
  <2>1. heap \in Seq(ObjectOf(heap)) /\ fwd \in Seq({NoForward}) /\ Len(fwd) = Len(heap)
    BY <1>1
  <2>2. Core(heap, slots, fwd, <<>>, <<>>, <<>>, <<>>)
    BY <1>2, <2>1, RunningCore
  <2> QED BY <1>1, <2>2
<1>4. Len(heap) = 0
  BY <1>1
<1>5. Shapes(heap) /\ \A i \in 1..Len(heap) : fwd[i] # NoForward => i \in Reachable
  BY <1>4 DEF Shapes
<1>6. Phases
  BY <1>1, <1>2, <1>4 DEF Phases
<1> QED BY <1>3, <1>5, <1>6 DEF IInv

(* Words of a heap remain words when it grows.                             *)
LEMMA ObjectsWider ==
  ASSUME NEW h, NEW h1, DOMAIN h \subseteq DOMAIN h1
  PROVE  Value(h) \subseteq Value(h1) /\ ObjectOf(h) \subseteq ObjectOf(h1)
<1>1. Value(h) \subseteq Value(h1)
  BY ValueIs
<1>2. ASSUME NEW o \in ObjectOf(h)
      PROVE  o \in ObjectOf(h1)
  <2>1. o.elems \in Seq(Value(h))
    BY DEF ObjectOf
  <2>2. o.elems \in Seq(Value(h1))
    BY <1>1, <2>1, SeqWider
  <2> QED BY <1>2, <2>2 DEF ObjectOf
<1> QED BY <1>1, <1>2

LEMMA AllocKeepsInv ==
  ASSUME IInv, Alloc
  PROVE  IInv'
<1>1. PICK k \in Kind, n \in 0 .. MaxLen, s \in DOMAIN slots :
         \E es \in [1 .. n -> Value(heap)], m \in {"none", "other"} :
           /\ WellFormed(k, es)
           /\ m = "other" => k = "def"
           /\ heap' = Append(heap, [kind |-> k, elems |-> es, module |-> m])
           /\ slots' = [slots EXCEPT ![s] = H(Len(heap) + 1)]
  BY DEF Alloc
<1>2. PICK es \in [1 .. n -> Value(heap)], m \in {"none", "other"} :
           /\ WellFormed(k, es)
           /\ heap' = Append(heap, [kind |-> k, elems |-> es, module |-> m])
           /\ slots' = [slots EXCEPT ![s] = H(Len(heap) + 1)]
  BY <1>1
<1> DEFINE o == [kind |-> k, elems |-> es, module |-> m]
<1>3. /\ phase = "running" /\ phase' = "running" /\ fwd' = Append(fwd, NoForward)
      /\ frozen' = frozen /\ frozenSlots' = frozenSlots /\ work' = work /\ defs' = defs
  BY DEF Alloc
<1>4. /\ heap \in Seq(ObjectOf(heap)) /\ slots \in Seq(Value(heap)) /\ Len(slots) = NSlots
      /\ fwd \in Seq({NoForward}) /\ Len(fwd) = Len(heap) /\ Shapes(heap)
      /\ frozen = <<>> /\ work = <<>> /\ frozenSlots = <<>> /\ defs = <<>>
  BY <1>3, RunningFacts
<1>5. n \in Nat
  BY FreezeAssumption
<1>6. o \in ObjectOf(heap) /\ o.kind = k /\ o.elems = es
  <2>1. es \in Seq(Value(heap))
    BY <1>5
  <2>2. m \in ModuleRef
    BY DEF ModuleRef
  <2> QED BY <2>1, <2>2 DEF ObjectOf
<1>7. heap' = Append(heap, o)
  BY <1>2
<1> HIDE DEF o
<1>8. /\ heap' \in Seq(ObjectOf(heap)) /\ Len(heap') = Len(heap) + 1 /\ heap'[Len(heap) + 1] = o
      /\ \A i \in 1..Len(heap) : heap'[i] = heap[i]
  BY <1>4, <1>6, <1>7, AppendProperties
<1>9. Len(heap) \in Nat /\ DOMAIN heap = 1..Len(heap) /\ DOMAIN heap' = 1..Len(heap')
  BY <1>4, <1>8
<1>10. DOMAIN heap \subseteq DOMAIN heap' /\ Len(heap) + 1 \in DOMAIN heap'
  BY <1>8, <1>9
<1>11. Value(heap) \subseteq Value(heap') /\ ObjectOf(heap) \subseteq ObjectOf(heap')
  BY <1>10, ObjectsWider
<1>12. heap' \in Seq(ObjectOf(heap'))
  BY <1>8, <1>11, SeqWider
<1>13. slots' \in Seq(Value(heap')) /\ Len(slots') = NSlots
  <2>1. slots \in Seq(Value(heap'))
    BY <1>4, <1>11, SeqWider
  <2>2. H(Len(heap) + 1) \in Value(heap')
    BY <1>10, ValueIs
  <2>3. s \in 1..Len(slots)
    BY <1>4
  <2> DEFINE v == H(Len(heap) + 1)
             V == Value(heap')
  <2>4. slots \in Seq(V) /\ v \in V /\ slots' = [slots EXCEPT ![s] = v]
    BY <1>2, <2>1, <2>2
  <2> HIDE DEF v, V
  <2>5. slots' \in Seq(V) /\ Len(slots') = Len(slots)
    BY ONLY <2>3, <2>4, ExceptSeq
  <2> QED BY <1>4, <2>5 DEF V
<1>14. fwd' \in Seq({NoForward}) /\ Len(fwd') = Len(heap')
  BY <1>3, <1>4, <1>8, AppendProperties
<1>15. Shapes(heap')
  <2>1. k \in {"leaf", "static", "noFreeze"} => es = <<>>
    BY <1>2 DEF WellFormed
  <2>2. \A i \in 1..Len(heap') : i \in 1..Len(heap) \/ i = Len(heap) + 1
    BY <1>8, <1>9
  <2> QED BY <1>4, <1>6, <1>8, <2>1, <2>2 DEF Shapes
<1> QED BY <1>3, <1>4, <1>12, <1>13, <1>14, <1>15, RunningStep

LEMMA SetElemKeepsInv ==
  ASSUME IInv, SetElem
  PROVE  IInv'
<1>1. PICK i \in DOMAIN heap : \E j \in DOMAIN heap[i].elems, v \in Value(heap) :
         /\ heap[i].kind \in {"list", "complex", "def"}
         /\ heap' = [heap EXCEPT ![i].elems[j] = v]
  BY DEF SetElem
<1>2. PICK j \in DOMAIN heap[i].elems, v \in Value(heap) :
         /\ heap[i].kind \in {"list", "complex", "def"}
         /\ heap' = [heap EXCEPT ![i].elems[j] = v]
  BY <1>1
<1>3. /\ phase = "running" /\ phase' = "running" /\ slots' = slots /\ fwd' = fwd
      /\ frozen' = frozen /\ frozenSlots' = frozenSlots /\ work' = work /\ defs' = defs
  BY DEF SetElem
<1>4. /\ heap \in Seq(ObjectOf(heap)) /\ slots \in Seq(Value(heap)) /\ Len(slots) = NSlots
      /\ fwd \in Seq({NoForward}) /\ Len(fwd) = Len(heap) /\ Shapes(heap)
      /\ frozen = <<>> /\ work = <<>> /\ frozenSlots = <<>> /\ defs = <<>>
  BY <1>3, RunningFacts
<1>5. i \in 1..Len(heap) /\ heap[i] \in ObjectOf(heap) /\ DOMAIN heap = 1..Len(heap)
  BY <1>4
<1> DEFINE es == heap[i].elems
           es1 == [es EXCEPT ![j] = v]
           o == [heap[i] EXCEPT !.elems = es1]
           V == Value(heap)
           O == ObjectOf(heap)
<1>6. es1 \in Seq(Value(heap))
  <2>1. es \in Seq(V) /\ j \in 1..Len(es) /\ v \in V /\ es1 = [es EXCEPT ![j] = v]
    BY <1>5, ObjectFacts
  <2> HIDE DEF es, es1, V
  <2>2. es1 \in Seq(V)
    BY ONLY <2>1, ExceptSeq
  <2> QED BY <2>2 DEF V
<1>7. heap' = [heap EXCEPT ![i] = o]
  BY <1>2
<1> HIDE DEF es1
<1>8. o \in ObjectOf(heap) /\ o.kind = heap[i].kind
  BY <1>5, <1>6 DEF ObjectOf
<1> HIDE DEF o
<1>9. heap' \in Seq(O) /\ Len(heap') = Len(heap) /\ DOMAIN heap' = DOMAIN heap
  <2>1. heap \in Seq(O) /\ o \in O
    BY <1>4, <1>8
  <2> HIDE DEF O
  <2>2. heap' \in Seq(O) /\ Len(heap') = Len(heap)
    BY ONLY <1>5, <1>7, <2>1, ExceptSeq
  <2> QED BY <1>7, <2>2
<1>10. V = Value(heap') /\ O = ObjectOf(heap')
  <2>1. V = Value(heap')
    BY <1>9 DEF Value
  <2> QED BY <2>1 DEF ObjectOf
<1>11. heap' \in Seq(ObjectOf(heap')) /\ slots' \in Seq(Value(heap'))
  BY <1>3, <1>4, <1>9, <1>10
<1>12. Shapes(heap')
  <2>1. \A c \in 1..Len(heap) : c = i \/ heap'[c] = heap[c]
    BY <1>5, <1>7
  <2>2. heap'[i] = o /\ o.kind \notin {"leaf", "static", "noFreeze"}
    BY <1>2, <1>5, <1>7, <1>8
  <2> QED BY <1>4, <1>9, <2>1, <2>2 DEF Shapes
<1> QED BY <1>3, <1>4, <1>9, <1>11, <1>12, RunningStep

LEMMA NextKeepsInv == IInv /\ [Next]_vars => IInv'
<1> SUFFICES ASSUME IInv, [Next]_vars PROVE IInv'
  OBVIOUS
<1>1. CASE Alloc
  BY <1>1, AllocKeepsInv
<1>2. CASE SetElem
  BY <1>2, SetElemKeepsInv
<1>3. CASE FreezeKnown
  BY <1>3, KnownKeepsInv
<1>4. CASE FreezeToStatic
  BY <1>4, StaticKeepsInv
<1>5. CASE FreezeLeaf
  BY <1>5, LeafKeepsInv
<1>6. CASE FreezeReserve
  BY <1>6, ReserveKeepsInv
<1>7. CASE FreezeReturn
  BY <1>7, ReturnKeepsInv
<1>8. CASE PostFreeze
  BY <1>8, PostKeepsInv
<1>9. CASE FreezeFails \/ AllocModuleData \/ Seal \/ Start \/ UNCHANGED vars
  BY <1>9, PhaseKeepsInv
<1> QED BY <1>1, <1>2, <1>3, <1>4, <1>5, <1>6, <1>7, <1>8, <1>9 DEF Next, FreezeStep, Ended

-----------------------------------------------------------------------------
(* What the invariant says once the frames have returned.                  *)
LEMMA InvParts ==
  ASSUME IInv
  PROVE  /\ Types(heap, slots, fwd, frozen, work, frozenSlots, defs) /\ Forwards(heap, fwd, frozen)
         /\ Copies(heap, fwd, frozen, work, defs) /\ Slotted(slots, fwd, frozenSlots)
         /\ Shapes(heap) /\ Phases
BY DEF IInv, Core

LEMMA AllFinished ==
  ASSUME IInv, work = <<>>
  PROVE  /\ \A i \in 1..Len(heap), a \in 1..Len(frozen) :
              fwd[i] = F(a) => Finished(heap, fwd, frozen, defs, i, a)
         /\ \A a \in 1..Len(frozen) : \E i \in 1..Len(heap) :
              fwd[i] = F(a) /\ Finished(heap, fwd, frozen, defs, i, a)
<1>1. \A i \in 1..Len(heap), a \in 1..Len(frozen) :
              fwd[i] = F(a) => Finished(heap, fwd, frozen, defs, i, a)
  BY InvParts DEF Copies
<1> QED BY <1>1, InvParts DEF Forwards

(* With every slot frozen, everything reachable is.                        *)
LEMMA AllForwarded ==
  ASSUME IInv, work = <<>>, Len(frozenSlots) = Len(slots)
  PROVE  \A o \in Reachable : o \in 1..Len(heap) /\ fwd[o] # NoForward
<1> DEFINE S == {i \in 1..Len(heap) : fwd[i] # NoForward}
<1>a. /\ Types(heap, slots, fwd, frozen, work, frozenSlots, defs) /\ Forwards(heap, fwd, frozen)
      /\ Slotted(slots, fwd, frozenSlots) /\ Shapes(heap)
  BY InvParts
<1>b. /\ heap \in Seq(ObjectOf(heap)) /\ slots \in Seq(Value(heap))
      /\ DOMAIN heap = 1..Len(heap) /\ \A i \in 1..Len(heap) : heap[i] \in ObjectOf(heap)
  BY <1>a DEF Types
<1>1. ASSUME NEW vs \in Seq(Value(heap)), \A j \in 1..Len(vs) : Known(fwd, vs[j])
      PROVE  Inside(vs) \subseteq S
  <2> SUFFICES ASSUME NEW i \in Inside(vs) PROVE i \in S
    OBVIOUS
  <2>1. i \in 1..Len(heap) /\ \E j \in 1..Len(vs) : vs[j] = H(i)
    BY <1>b, InsideIs
  <2>2. PICK j \in 1..Len(vs) : vs[j] = H(i)
    BY <2>1
  <2>3. Known(fwd, H(i))
    BY <1>1, <2>2
  <2>4. fwd[i] # NoForward
    BY <2>3, Words DEF Known
  <2> QED BY <2>1, <2>4
<1>2. Inside(slots) \subseteq S
  <2>1. \A j \in 1..Len(slots) : Known(fwd, slots[j])
    BY <1>a DEF Slotted
  <2> QED BY <1>1, <1>b, <2>1
<1>3. ASSUME NEW i \in S
      PROVE  Inside(heap[i].elems) \subseteq S
  <2>1. heap[i].elems \in Seq(Value(heap)) /\ Len(heap[i].elems) \in Nat
    BY <1>b, ObjectFacts
  <2>2. \A j \in 1..Len(heap[i].elems) : Known(fwd, heap[i].elems[j])
    <3>1. CASE IsStatic(heap[i])
      <4>1. heap[i].elems = <<>>
        BY <1>a, <3>1 DEF IsStatic, Shapes
      <4> QED BY <4>1
    <3>2. CASE \E a \in 1..Len(frozen) : fwd[i] = F(a)
      <4>1. PICK a \in 1..Len(frozen) : fwd[i] = F(a)
        BY <3>2
      <4>2. Finished(heap, fwd, frozen, defs, i, a)
        BY <4>1, AllFinished
      <4> QED BY <4>2 DEF Finished
    <3> QED BY <1>a, <3>1, <3>2 DEF Forwards
  <2> QED BY <1>1, <2>1, <2>2
<1>4. Closed(S) /\ S \in SUBSET DOMAIN heap
  BY <1>2, <1>3, <1>b DEF Closed
<1> HIDE DEF S
<1>5. \A o \in Reachable : o \in S
  BY <1>4 DEF Reachable
<1> QED BY <1>5 DEF S

-----------------------------------------------------------------------------
LEMMA TypeKept == IInv => TypeOK
<1> SUFFICES ASSUME IInv PROVE TypeOK
  OBVIOUS
<1>1. Types(heap, slots, fwd, frozen, work, frozenSlots, defs)
  BY InvParts
<1>2. phase \in {"running", "freezing", "postFreeze", "frozen", "failed"}
  BY InvParts DEF Phases
<1>3. Object = ObjectOf(heap) /\ FObject = FObjectOf(frozen) /\ Frame = FrameOf(heap, frozen)
  BY DEF Object, ObjectOf, FObject, FObjectOf, Frame, FrameOf
<1> QED BY <1>1, <1>2, <1>3 DEF Types, TypeOK

LEMMA CompleteKept == IInv => FrozenHeapComplete
<1> SUFFICES ASSUME IInv PROVE FrozenHeapComplete
  OBVIOUS
<1>1. ASSUME phase = "frozen", NEW a \in DOMAIN frozen
      PROVE  /\ frozen[a].tag = "object"
             /\ \A j \in DOMAIN frozen[a].elems : frozen[a].elems[j] \in FValue(frozen)
  <2>1. Types(heap, slots, fwd, frozen, work, frozenSlots, defs) /\ work = <<>>
    BY <1>1, InvParts DEF Phases
  <2>2. a \in 1..Len(frozen) /\ frozen[a] \in FObjectOf(frozen)
    BY <1>1, <2>1, TypeFacts
  <2>3. PICK i \in 1..Len(heap) : Finished(heap, fwd, frozen, defs, i, a)
    BY <2>1, <2>2, AllFinished
  <2>4. heap[i] \in ObjectOf(heap)
    BY <2>1, TypeFacts
  <2>5. DOMAIN frozen[a].elems = 1..Len(frozen[a].elems)
    BY <2>2, FObjectFacts
  <2>6. frozen[a].tag = "object" /\ Len(frozen[a].elems) = Len(heap[i].elems)
    BY <2>3 DEF Finished
  <2>7. ASSUME NEW j \in 1..Len(heap[i].elems)
        PROVE  frozen[a].elems[j] \in FValue(frozen)
    <3>1. Known(fwd, heap[i].elems[j]) /\ frozen[a].elems[j] = ImageBy(fwd, heap[i].elems[j])
      BY <2>3, <2>7 DEF Finished
    <3>2. heap[i].elems[j] \in Value(heap)
      BY <2>4, <2>7, ObjectFacts
    <3>3. ImageBy(fwd, heap[i].elems[j]) \in FValue(frozen)
      BY ONLY <2>1, <3>1, <3>2, ImageTyped
    <3> QED BY ONLY <3>1, <3>3
  <2> QED BY <2>5, <2>6, <2>7
<1>2. \A i \in DOMAIN frozenSlots : frozenSlots[i] \in FValue(frozen)
  BY InvParts, TypeFacts
<1> QED BY <1>1, <1>2, TypeKept DEF FrozenHeapComplete

LEMMA GraphKept == IInv => FrozenGraphPreserved
<1> SUFFICES ASSUME IInv, phase = "frozen"
             PROVE  /\ frozenSlots = [i \in 1 .. NSlots |-> Image(slots[i])]
                    /\ \A o \in Reachable :
                         IF IsStatic(heap[o]) THEN fwd[o] \in {EmptyList, Static}
                         ELSE /\ fwd[o][1] = "frozen"
                              /\ frozen[fwd[o][2]].kind = heap[o].kind
                              /\ frozen[fwd[o][2]].elems =
                                   [j \in DOMAIN heap[o].elems |-> Image(heap[o].elems[j])]
                              /\ \A p \in Reachable : fwd[p] = fwd[o] => p = o
  BY DEF FrozenGraphPreserved
<1>a. /\ Types(heap, slots, fwd, frozen, work, frozenSlots, defs) /\ Forwards(heap, fwd, frozen)
      /\ Slotted(slots, fwd, frozenSlots)
      /\ work = <<>> /\ Len(frozenSlots) = NSlots /\ Len(slots) = NSlots
  BY InvParts DEF Phases
<1>b. \A v : Image(v) = ImageBy(fwd, v)
  BY DEF Image, ImageBy
<1>c. \A o \in Reachable : o \in 1..Len(heap) /\ fwd[o] # NoForward
  BY <1>a, AllForwarded
<1>1. frozenSlots = [i \in 1 .. NSlots |-> Image(slots[i])]
  <2>1. frozenSlots \in Seq(FValue(frozen)) /\ DOMAIN frozenSlots = 1..NSlots
    BY <1>a, TypeFacts DEF Types
  <2>2. \A i \in 1..NSlots : frozenSlots[i] = Image(slots[i])
    BY <1>a, <1>b DEF Slotted
  <2> QED BY <2>1, <2>2
<1>2. ASSUME NEW o \in Reachable, IsStatic(heap[o])
      PROVE  fwd[o] \in {EmptyList, Static}
  BY <1>2, <1>a, <1>c DEF Forwards
<1>3. ASSUME NEW o \in Reachable, ~IsStatic(heap[o])
      PROVE  /\ fwd[o][1] = "frozen"
             /\ frozen[fwd[o][2]].kind = heap[o].kind
             /\ frozen[fwd[o][2]].elems = [j \in DOMAIN heap[o].elems |-> Image(heap[o].elems[j])]
             /\ \A p \in Reachable : fwd[p] = fwd[o] => p = o
  <2>1. PICK a \in 1..Len(frozen) : fwd[o] = F(a)
    BY <1>3, <1>a, <1>c DEF Forwards
  <2>2. fwd[o][1] = "frozen" /\ fwd[o][2] = a
    BY <2>1, Words
  <2>3. Finished(heap, fwd, frozen, defs, o, a)
    BY <1>a, <1>c, <2>1, AllFinished
  <2>4. heap[o] \in ObjectOf(heap) /\ frozen[a] \in FObjectOf(frozen)
    BY <1>a, <1>c, TypeFacts
  <2>5. /\ DOMAIN heap[o].elems = 1..Len(heap[o].elems)
        /\ frozen[a].elems \in Seq(FValue(frozen) \cup {Uninit})
        /\ DOMAIN frozen[a].elems = 1..Len(frozen[a].elems)
    BY <2>4, ObjectFacts, FObjectFacts
  <2>6. /\ frozen[a].kind = heap[o].kind /\ Len(frozen[a].elems) = Len(heap[o].elems)
        /\ \A j \in 1..Len(heap[o].elems) : frozen[a].elems[j] = Image(heap[o].elems[j])
    BY <1>b, <2>3 DEF Finished
  <2>7. frozen[a].elems = [j \in DOMAIN heap[o].elems |-> Image(heap[o].elems[j])]
    <3> DEFINE es == frozen[a].elems
               n == Len(heap[o].elems)
               I(j) == Image(heap[o].elems[j])
    <3>1. es = [j \in 1..n |-> es[j]] /\ \A j \in 1..n : es[j] = I(j)
      BY <2>5, <2>6
    <3> HIDE DEF es, n, I
    <3>2. es = [j \in 1..n |-> I(j)]
      BY ONLY <3>1
    <3> QED BY ONLY <2>5, <3>2 DEF es, n, I
  <2>8. \A p \in Reachable : fwd[p] = fwd[o] => p = o
    BY <1>a, <1>c, <2>1 DEF Forwards
  <2> QED BY <2>2, <2>6, <2>7, <2>8
<1> QED BY <1>1, <1>2, <1>3

LEMMA DefsKept == IInv => DefsCompleted
<1> SUFFICES ASSUME IInv PROVE DefsCompleted
  OBVIOUS
<1>a. /\ Types(heap, slots, fwd, frozen, work, frozenSlots, defs) /\ Forwards(heap, fwd, frozen)
      /\ Phases
  BY InvParts
<1>b. DOMAIN frozen = 1..Len(frozen)
  BY <1>a, TypeFacts
<1>1. ASSUME phase = "postFreeze"
      PROVE  \A a \in DOMAIN frozen : frozen[a].tag = "object"
  <2>1. work = <<>>
    BY <1>1, <1>a DEF Phases
  <2> QED BY <1>b, <2>1, AllFinished DEF Finished
<1>2. ASSUME phase = "frozen"
      PROVE  work = <<>> /\ Len(frozenSlots) = Len(slots) /\ ~\E d \in 1..Len(defs) : TRUE
  BY <1>2, <1>a DEF Phases
<1>3. ASSUME phase = "frozen", NEW i \in 1..Len(heap), NEW a \in 1..Len(frozen), fwd[i] = F(a),
             heap[i].kind = "def"
      PROVE  frozen[a].optimized /\ frozen[a].module = ModuleAfter(heap[i].module)
  <2>1. Finished(heap, fwd, frozen, defs, i, a)
    BY <1>2, <1>3, AllFinished
  <2>2. ~\E d \in 1..Len(defs) : defs[d] = a
    BY <1>2, <1>3
  <2> QED BY <1>3, <2>1, <2>2 DEF Finished
<1>4. ASSUME phase = "frozen", NEW a \in DOMAIN frozen, frozen[a].kind = "def"
      PROVE  frozen[a].optimized
  <2>1. PICK i \in 1..Len(heap) : fwd[i] = F(a) /\ Finished(heap, fwd, frozen, defs, i, a)
    BY <1>2, <1>4, <1>b, AllFinished
  <2>2. heap[i].kind = "def"
    BY <1>4, <2>1 DEF Finished
  <2> QED BY <1>3, <1>4, <1>b, <2>1, <2>2
<1>5. ASSUME phase = "frozen", NEW o \in Reachable, heap[o].kind = "def"
      PROVE  frozen[fwd[o][2]].module = IF heap[o].module = "none" THEN "this" ELSE heap[o].module
  <2>1. o \in 1..Len(heap) /\ fwd[o] # NoForward
    BY <1>2, <1>5, AllForwarded
  <2>2. ~IsStatic(heap[o])
    BY <1>5 DEF IsStatic
  <2>3. PICK a \in 1..Len(frozen) : fwd[o] = F(a)
    BY <1>a, <2>1, <2>2 DEF Forwards
  <2>4. fwd[o][2] = a
    BY <2>3, Words
  <2>5. frozen[a].module = ModuleAfter(heap[o].module)
    BY <1>3, <1>5, <2>1, <2>3
  <2> QED BY <2>4, <2>5 DEF ModuleAfter
<1> QED BY <1>1, <1>4, <1>5 DEF DefsCompleted

LEMMA FailsKept == IInv => FailsOnlyOnNoFreeze
<1> SUFFICES ASSUME IInv PROVE FailsOnlyOnNoFreeze
  OBVIOUS
<1>1. phase = "failed" => \E o \in Reachable : heap[o].kind = "noFreeze"
  BY InvParts DEF Phases
<1>2. ASSUME phase = "frozen", NEW o \in Reachable, heap[o].kind = "noFreeze"
      PROVE  FALSE
  <2>1. work = <<>> /\ Len(frozenSlots) = Len(slots)
    BY <1>2, InvParts DEF Phases
  <2>2. o \in 1..Len(heap) /\ fwd[o] # NoForward
    BY <1>2, <2>1, AllForwarded
  <2>3. ~IsStatic(heap[o])
    BY <1>2 DEF IsStatic
  <2> QED BY <1>2, <2>2, <2>3, InvParts DEF Forwards
<1> QED BY <1>1, <1>2 DEF FailsOnlyOnNoFreeze

(* Module::freeze publishes complete memory: at the end of every freeze,   *)
(* of a heap of any size and shape, no black hole, no unwritten list       *)
(* element and no pointer into the dropped heap is left.                   *)
THEOREM PublishesComplete == Spec => []FrozenHeapComplete
BY InitKeepsInv, NextKeepsInv, CompleteKept, PTL DEF Spec

(* The frozen module is the module that was frozen, cycles and sharing     *)
(* included: what is reachable is copied through Freezer::freeze once.     *)
THEOREM FreezeIsExact == Spec => []FrozenGraphPreserved
BY InitKeepsInv, NextKeepsInv, GraphKept, PTL DEF Spec

(* post_freeze runs on a complete heap and reaches every function frozen,  *)
(* and each keeps the module it was declared in.                           *)
THEOREM DefsAllCompleted == Spec => []DefsCompleted
BY InitKeepsInv, NextKeepsInv, DefsKept, PTL DEF Spec

(* Module::freeze fails only if a value that cannot be frozen is reachable *)
(* and succeeds only if none is.                                           *)
THEOREM FailsExactly == Spec => []FailsOnlyOnNoFreeze
BY InitKeepsInv, NextKeepsInv, FailsKept, PTL DEF Spec

-----------------------------------------------------------------------------
(***************************************************************************)
(* Lifetimes of the frozen heaps that modules publish: no FrozenValue      *)
(* dangles, for any number of heaps.                                       *)
(*                                                                         *)
(* The invariant says why: whatever values of a heap point into is kept    *)
(* alive by that heap through a chain of references (Kept), although       *)
(* `add_reference` was called for the first link only.  A chain is stated  *)
(* without recursion: g is kept by h when every set that holds h and is    *)
(* closed under refs holds g.                                              *)
(***************************************************************************)
ClosedUnderRefs(S) == \A k \in S : refs[k] \subseteq S

Kept(h) == {g \in Heap : \A S \in SUBSET Heap : h \in S /\ ClosedUnderRefs(S) => g \in S}

\* Only live heaps have references and values.
DeadAreEmpty == \A h \in Heap : ~Live(h) => refs[h] = {} /\ points[h] = {}

\* References go to sealed heaps.
RefsSealedOnly == \A h \in Heap : \A g \in refs[h] : state[g] = "sealed"

\* Values point to sealed heaps that the references keep.
PointsKept == \A h \in Heap : \A g \in points[h] : g \in Kept(h) /\ state[g] = "sealed"

\* So do handles.
HeldKept == \A o \in held : state[o.owner] = "sealed" /\ o.target \in Kept(o.owner)
                            /\ state[o.target] = "sealed"

HeapsInv ==
  HeapsTypeOK /\ DeadAreEmpty /\ RefsSealedOnly /\ PointsKept /\ HeldKept

-----------------------------------------------------------------------------
\* What a heap keeps, its references keep, too: Kept is transitive.
LEMMA KeptTransitive ==
    ASSUME NEW h \in Heap, NEW g \in Kept(h), NEW k \in Kept(g)
    PROVE  k \in Kept(h)
BY DEF Kept

\* A referenced heap and all it keeps are kept.
LEMMA KeptByRef ==
    ASSUME NEW h \in Heap, NEW g \in Heap, g \in refs[h], NEW k \in Kept(g)
    PROVE  k \in Kept(h)
BY DEF Kept, ClosedUnderRefs

\* A heap keeps itself.
LEMMA KeptSelf ==
    ASSUME NEW h \in Heap
    PROVE  h \in Kept(h)
BY DEF Kept

\* Adding references (add_reference) loses nothing.
LEMMA KeptGrows ==
    ASSUME \A h \in Heap : refs[h] \subseteq refs'[h],
           NEW h \in Heap, NEW g \in Kept(h)
    PROVE  g \in Kept(h)'
<1>1. SUFFICES ASSUME NEW S \in SUBSET Heap, h \in S, ClosedUnderRefs(S)'
              PROVE  g \in S
  BY DEF Kept
<1>2. ClosedUnderRefs(S)
  BY <1>1 DEF ClosedUnderRefs
<1> QED
  BY <1>1, <1>2 DEF Kept

\* Dropping the references of a heap nobody references (Free, Discard) loses
\* nothing for the others, and it was not kept by them.
LEMMA KeptAfterDrop ==
    ASSUME refs \in [Heap -> SUBSET Heap],
           NEW d \in Heap,
           \A k \in Heap : d \notin refs[k],
           \A k \in Heap : k # d => refs'[k] = refs[k],
           NEW h \in Heap, h # d, NEW g \in Kept(h)
    PROVE  g \in Kept(h)' /\ g # d
<1>1. ASSUME NEW S \in SUBSET Heap, h \in S, \A k \in S \ {d} : refs[k] \subseteq S
      PROVE  g \in S \ {d}
  <2>1. ClosedUnderRefs(S \ {d})
    BY <1>1 DEF ClosedUnderRefs
  <2> QED
    BY <1>1, <2>1 DEF Kept
<1>2. g \in Kept(h)'
  <2>1. SUFFICES ASSUME NEW S \in SUBSET Heap, h \in S, ClosedUnderRefs(S)'
                PROVE  g \in S
    BY DEF Kept
  <2>2. \A k \in S \ {d} : refs[k] \subseteq S
    BY <2>1 DEF ClosedUnderRefs
  <2> QED
    BY <1>1, <2>1, <2>2
<1>3. g \in Heap \ {d}
  <2>1. \A k \in Heap \ {d} : refs[k] \subseteq Heap
    OBVIOUS
  <2> QED
    BY <1>1, <2>1
<1> QED
  BY <1>2, <1>3

-----------------------------------------------------------------------------
(***************************************************************************)
(* The invariant holds.                                                    *)
(***************************************************************************)

\* No heap, no handle: the invariant holds at first.
LEMMA InitHeaps == HeapsInit => HeapsInv
BY DEF HeapsInit, HeapsInv, HeapsTypeOK, DeadAreEmpty, RefsSealedOnly, PointsKept,
       HeldKept, Live

\* A heap is created or sealed: references do not change, nothing is freed.
LEMMA NewHeaps ==
    ASSUME HeapsInv, NEW h \in Heap, New(h)
    PROVE  HeapsInv'
<1>0. refs' = refs /\ points' = points /\ held' = held
  BY DEF New
<1>1. \A k \in Heap : Kept(k)' = Kept(k)
  BY <1>0 DEF Kept, ClosedUnderRefs
<1>2. \A k \in Heap : state[k] = "sealed" => state'[k] = "sealed"
  BY DEF New, HeapsInv, HeapsTypeOK
<1>3. HeapsTypeOK'
  BY DEF New, HeapsInv, HeapsTypeOK
<1>4. DeadAreEmpty'
  BY DEF New, HeapsInv, HeapsTypeOK, DeadAreEmpty, Live
<1>5. RefsSealedOnly'
  BY <1>0, <1>2 DEF HeapsInv, HeapsTypeOK, RefsSealedOnly
<1>6. PointsKept'
  BY <1>0, <1>1, <1>2 DEF HeapsInv, HeapsTypeOK, PointsKept
<1>7. HeldKept'
  BY <1>0, <1>1, <1>2 DEF HeapsInv, HeapsTypeOK, HeldKept, Handle
<1> QED
  BY <1>3, <1>4, <1>5, <1>6, <1>7 DEF HeapsInv

\* FrozenHeap::into_ref preserves the invariant.
LEMMA SealHeaps ==
    ASSUME HeapsInv, NEW h \in Heap, IntoRef(h)
    PROVE  HeapsInv'
<1>0. refs' = refs /\ points' = points /\ held' = held \cup {[owner |-> h, target |-> h]}
  BY DEF IntoRef, RefsSealed, HeapsInv, HeapsTypeOK
<1>1. \A k \in Heap : Kept(k)' = Kept(k)
  BY <1>0 DEF Kept, ClosedUnderRefs
<1>2. state'[h] = "sealed" /\ \A k \in Heap : state[k] = "sealed" => state'[k] = "sealed"
  BY DEF IntoRef, HeapsInv, HeapsTypeOK
<1>3. HeapsTypeOK'
  BY DEF IntoRef, RefsSealed, HeapsInv, HeapsTypeOK, Handle
<1>4. DeadAreEmpty'
  BY <1>0 DEF IntoRef, HeapsInv, HeapsTypeOK, DeadAreEmpty, Live
<1>5. RefsSealedOnly'
  BY <1>0, <1>2 DEF HeapsInv, HeapsTypeOK, RefsSealedOnly
<1>6. PointsKept'
  BY <1>0, <1>1, <1>2 DEF HeapsInv, HeapsTypeOK, PointsKept
<1>7. HeldKept'
  <2>1. h \in Kept(h)'
    BY KeptSelf, <1>1
  <2>2. ASSUME NEW o \in held'
        PROVE  state'[o.owner] = "sealed" /\ o.target \in Kept(o.owner)' /\ state'[o.target] = "sealed"
    <3>1. CASE o \in held
      BY <3>1, <1>1, <1>2 DEF HeapsInv, HeapsTypeOK, HeldKept, Handle
    <3>2. CASE o = [owner |-> h, target |-> h]
      BY <3>2, <1>2, <2>1
    <3> QED
      BY <1>0, <3>1, <3>2
  <2> QED
    BY <2>2 DEF HeldKept
<1> QED
  BY <1>3, <1>4, <1>5, <1>6, <1>7 DEF HeapsInv

\* A heap is dropped that no heap references and no handle owns.
LEMMA GoneHeaps ==
    ASSUME HeapsInv, NEW d \in Heap, Live(d),
           \A k \in Heap : d \notin refs[k],
           \A o \in held : o.owner # d,
           state' = [state EXCEPT ![d] = "freed"],
           refs' = [refs EXCEPT ![d] = {}],
           points' = [points EXCEPT ![d] = {}],
           held' = held
    PROVE  HeapsInv'
<1>1. HeapsTypeOK'
  BY DEF HeapsInv, HeapsTypeOK
<1>2. refs \in [Heap -> SUBSET Heap] /\ points \in [Heap -> SUBSET Heap]
      /\ state \in [Heap -> {"unused", "open", "sealed", "freed"}] /\ held \subseteq Handle
  BY DEF HeapsInv, HeapsTypeOK
<1>3. \A k \in Heap : k # d => refs'[k] = refs[k] /\ points'[k] = points[k] /\ state'[k] = state[k]
  BY <1>2
<1>4. refs'[d] = {} /\ points'[d] = {}
  BY <1>2
<1>5. ASSUME NEW k \in Heap, k # d, NEW g \in Kept(k)
      PROVE  g \in Kept(k)' /\ g # d
  BY <1>2, <1>3, <1>5, KeptAfterDrop
<1>6. DeadAreEmpty'
  BY <1>3, <1>4 DEF HeapsInv, DeadAreEmpty, Live
<1>7. RefsSealedOnly'
  BY <1>2, <1>3, <1>4 DEF HeapsInv, RefsSealedOnly
<1>8. PointsKept'
  <2>1. ASSUME NEW k \in Heap, NEW g \in points'[k]
        PROVE  g \in Kept(k)' /\ state'[g] = "sealed"
    <3>1. k # d /\ g \in points[k]
      BY <2>1, <1>3, <1>4
    <3>2. g \in Kept(k) /\ g \in Heap /\ state[g] = "sealed"
      BY <3>1, <1>2 DEF HeapsInv, PointsKept
    <3> QED
      BY <3>1, <3>2, <1>5, <1>3
  <2> QED
    BY <2>1 DEF PointsKept
<1>9. HeldKept'
  <2>1. ASSUME NEW o \in held
        PROVE  state'[o.owner] = "sealed" /\ o.target \in Kept(o.owner)' /\ state'[o.target] = "sealed"
    <3>1. o.owner \in Heap /\ o.target \in Heap /\ o.owner # d
      BY <1>2 DEF Handle
    <3>2. state[o.owner] = "sealed" /\ o.target \in Kept(o.owner) /\ state[o.target] = "sealed"
      BY DEF HeapsInv, HeldKept
    <3> QED
      BY <3>1, <3>2, <1>5, <1>3
  <2> QED
    BY <2>1 DEF HeldKept
<1> QED
  BY <1>1, <1>6, <1>7, <1>8, <1>9 DEF HeapsInv

\* Free: an Arc whose count is zero.
LEMMA FreeHeaps ==
    ASSUME HeapsInv, NEW h \in Heap, Free(h)
    PROVE  HeapsInv'
BY GoneHeaps DEF Free, Unowned, Live

\* Discard: an open heap is neither referenced nor owned by a handle.
LEMMA DiscardHeaps ==
    ASSUME HeapsInv, NEW h \in Heap, Discard(h)
    PROVE  HeapsInv'
<1>1. \A k \in Heap : h \notin refs[k]
  BY DEF Discard, HeapsInv, RefsSealedOnly
<1>2. \A o \in held : o.owner # h
  BY DEF Discard, HeapsInv, HeldKept
<1> QED
  BY <1>1, <1>2, GoneHeaps DEF Discard, Live

\* References and values are added to one open heap: what is added to points
\* must be kept by the new references.
LEMMA GrowHeaps ==
    ASSUME HeapsInv, NEW h \in Heap, state[h] = "open",
           NEW R \in SUBSET Heap, NEW P \in SUBSET Heap,
           refs' = [refs EXCEPT ![h] = R], refs[h] \subseteq R,
           points' = [points EXCEPT ![h] = P],
           \A g \in R : state[g] = "sealed",
           \A g \in P : g \in Kept(h)' /\ state[g] = "sealed",
           state' = state, held' = held
    PROVE  HeapsInv'
<1>1. refs \in [Heap -> SUBSET Heap] /\ points \in [Heap -> SUBSET Heap]
      /\ state \in [Heap -> {"unused", "open", "sealed", "freed"}] /\ held \subseteq Handle
  BY DEF HeapsInv, HeapsTypeOK
<1>2. HeapsTypeOK'
  BY <1>1 DEF HeapsTypeOK
<1>3. \A k \in Heap : refs[k] \subseteq refs'[k]
  BY <1>1
<1>4. \A k \in Heap : \A g \in Kept(k) : g \in Kept(k)'
  BY <1>3, KeptGrows
<1>5. \A k \in Heap : k # h => refs'[k] = refs[k] /\ points'[k] = points[k]
  BY <1>1
<1>6. refs'[h] = R /\ points'[h] = P
  BY <1>1
<1>7. DeadAreEmpty'
  BY <1>5 DEF HeapsInv, DeadAreEmpty, Live
<1>8. RefsSealedOnly'
  BY <1>5, <1>6 DEF HeapsInv, RefsSealedOnly
<1>9. PointsKept'
  BY <1>4, <1>5, <1>6 DEF HeapsInv, PointsKept
<1>10. HeldKept'
  BY <1>1, <1>4 DEF HeapsInv, HeldKept, Handle
<1> QED
  BY <1>2, <1>7, <1>8, <1>9, <1>10 DEF HeapsInv

\* OwnedFrozenValue::owned_frozen_value, a loaded symbol, preserves it.
LEMMA LoadHeaps ==
    ASSUME HeapsInv, NEW h \in Heap, NEW o \in held, Load(h, o)
    PROVE  HeapsInv'
<1>1. refs \in [Heap -> SUBSET Heap] /\ points \in [Heap -> SUBSET Heap]
      /\ o.owner \in Heap /\ o.target \in Heap
  BY DEF HeapsInv, HeapsTypeOK, Handle
<1>2. state[o.owner] = "sealed" /\ o.target \in Kept(o.owner) /\ state[o.target] = "sealed"
  BY DEF HeapsInv, HeldKept
<1>3. /\ state[h] = "open" /\ state' = state /\ held' = held
      /\ refs' = [refs EXCEPT ![h] = refs[h] \cup {o.owner}]
      /\ points' = [points EXCEPT ![h] = points[h] \cup {o.target}]
  BY DEF Load, RefsAfter
<1>4. \A k \in Heap : refs[k] \subseteq refs'[k]
  BY <1>1, <1>3
<1>5. o.target \in Kept(o.owner)'
  BY <1>1, <1>2, <1>4, KeptGrows
<1>6. o.owner \in refs'[h]
  BY <1>1, <1>3
<1>7. o.target \in Kept(h)'
  BY <1>1, <1>5, <1>6 DEF Kept, ClosedUnderRefs
<1>8. \A g \in points[h] : g \in Kept(h)' /\ state[g] = "sealed"
  BY <1>4, KeptGrows DEF HeapsInv, PointsKept
<1>9. \A g \in refs[h] : state[g] = "sealed"
  BY DEF HeapsInv, RefsSealedOnly
<1>10. \A g \in points[h] \cup {o.target} : g \in Kept(h)' /\ state[g] = "sealed"
  BY <1>2, <1>7, <1>8
<1>11. \A g \in refs[h] \cup {o.owner} : state[g] = "sealed"
  BY <1>2, <1>9
<1>12. refs[h] \cup {o.owner} \in SUBSET Heap /\ points[h] \cup {o.target} \in SUBSET Heap
  BY <1>1
<1> QED
  BY <1>3, <1>10, <1>11, <1>12, GrowHeaps

\* Module::import_public_symbols preserves the invariant.
LEMMA ImportHeaps ==
    ASSUME HeapsInv, NEW h \in Heap, NEW o \in held, Import(h, o)
    PROVE  HeapsInv'
<1> DEFINE m == o.owner
<1>1. refs \in [Heap -> SUBSET Heap] /\ points \in [Heap -> SUBSET Heap] /\ m \in Heap
  BY DEF HeapsInv, HeapsTypeOK, Handle
<1>2. state[m] = "sealed"
  BY DEF HeapsInv, HeldKept
<1>3. /\ state[h] = "open" /\ state' = state /\ held' = held
      /\ refs' = [refs EXCEPT ![h] = refs[h] \cup {m}]
      /\ points' = [points EXCEPT ![h] = points[h] \cup {m} \cup points[m]]
  BY DEF Import, RefsAfter
<1> HIDE DEF m
<1>4. \A k \in Heap : refs[k] \subseteq refs'[k]
  BY <1>1, <1>3
<1>5. m \in refs'[h]
  BY <1>1, <1>3
<1>6. \A g \in points[m] : g \in Kept(m)' /\ state[g] = "sealed"
  BY <1>1, <1>4, KeptGrows DEF HeapsInv, PointsKept
<1>7. m \in Kept(m)'
  BY <1>1 DEF Kept
<1>8. \A g \in Kept(m)' : g \in Kept(h)'
  BY <1>1, <1>5 DEF Kept, ClosedUnderRefs
<1>9. \A g \in points[h] : g \in Kept(h)' /\ state[g] = "sealed"
  BY <1>4, KeptGrows DEF HeapsInv, PointsKept
<1>10. \A g \in points[h] \cup {m} \cup points[m] : g \in Kept(h)' /\ state[g] = "sealed"
  BY <1>2, <1>6, <1>7, <1>8, <1>9
<1>11. \A g \in refs[h] \cup {m} : state[g] = "sealed"
  BY <1>2 DEF HeapsInv, RefsSealedOnly
<1>12. refs[h] \cup {m} \in SUBSET Heap /\ points[h] \cup {m} \cup points[m] \in SUBSET Heap
  BY <1>1
<1> QED
  BY <1>3, <1>10, <1>11, <1>12, GrowHeaps

\* A value read out of an imported one preserves the invariant.
LEMMA ExtractHeaps ==
    ASSUME HeapsInv, NEW h \in Heap, NEW g \in Heap, NEW k \in Heap, Extract(h, g, k)
    PROVE  HeapsInv'
<1>1. refs \in [Heap -> SUBSET Heap] /\ points \in [Heap -> SUBSET Heap]
  BY DEF HeapsInv, HeapsTypeOK
<1>2. /\ state[h] = "open" /\ state' = state /\ held' = held /\ refs' = refs
      /\ points' = [points EXCEPT ![h] = points[h] \cup {k}]
      /\ g \in points[h] /\ k \in points[g]
  BY DEF Extract
<1>3. refs' = [refs EXCEPT ![h] = refs[h]]
  BY <1>1, <1>2
<1>4. \A x \in Heap : Kept(x)' = Kept(x)
  BY <1>2 DEF Kept, ClosedUnderRefs
<1>5. g \in Kept(h) /\ k \in Kept(g) /\ state[k] = "sealed"
  BY <1>2 DEF HeapsInv, PointsKept
<1>6. k \in Kept(h)'
  BY <1>4, <1>5, KeptTransitive
<1>7. \A x \in points[h] \cup {k} : x \in Kept(h)' /\ state[x] = "sealed"
  BY <1>4, <1>5, <1>6 DEF HeapsInv, PointsKept
<1>8. \A x \in refs[h] : state[x] = "sealed"
  BY DEF HeapsInv, RefsSealedOnly
<1>9. refs[h] \in SUBSET Heap /\ points[h] \cup {k} \in SUBSET Heap
  BY <1>1
<1> QED
  BY <1>2, <1>3, <1>7, <1>8, <1>9, GrowHeaps

\* Steps that change only the handles, to values already kept, preserve it.
LEMMA HandlesHeaps ==
    ASSUME HeapsInv, state' = state, refs' = refs, points' = points,
           held' \subseteq Handle,
           \A o \in held' : \/ o \in held
                           \/ \E p \in held : o.owner = p.owner /\ o.target \in points[p.target]
    PROVE  HeapsInv'
<1>1. \A x \in Heap : Kept(x)' = Kept(x)
  BY DEF Kept, ClosedUnderRefs
<1>2. HeapsTypeOK' /\ DeadAreEmpty' /\ RefsSealedOnly' /\ PointsKept'
  BY <1>1 DEF HeapsInv, HeapsTypeOK, DeadAreEmpty, RefsSealedOnly, PointsKept, Live
<1>3. ASSUME NEW o \in held'
      PROVE  state[o.owner] = "sealed" /\ o.target \in Kept(o.owner) /\ state[o.target] = "sealed"
  <2>1. CASE o \in held
    BY <2>1 DEF HeapsInv, HeldKept
  <2>2. ASSUME NEW p \in held, o.owner = p.owner, o.target \in points[p.target]
        PROVE  state[o.owner] = "sealed" /\ o.target \in Kept(o.owner) /\ state[o.target] = "sealed"
    <3>1. p.owner \in Heap /\ p.target \in Heap
      BY DEF HeapsInv, HeapsTypeOK, Handle
    <3>2. state[p.owner] = "sealed" /\ p.target \in Kept(p.owner)
      BY DEF HeapsInv, HeldKept
    <3>3. o.target \in Kept(p.target) /\ state[o.target] = "sealed"
      BY <2>2, <3>1 DEF HeapsInv, PointsKept
    <3> QED
      BY <2>2, <3>1, <3>2, <3>3, KeptTransitive
  <2> QED
    BY <1>3, <2>1, <2>2
<1>4. HeldKept'
  BY <1>1, <1>3 DEF HeldKept, Handle
<1> QED
  BY <1>2, <1>4 DEF HeapsInv

\* OwnedFrozenValue::map preserves the invariant.
LEMMA MapHeaps ==
    ASSUME HeapsInv, NEW o \in held, NEW k \in Heap, Map(o, k)
    PROVE  HeapsInv'
<1>1. o.owner \in Heap /\ held \subseteq Handle
  BY DEF HeapsInv, HeapsTypeOK, Handle
<1>2. held' = held \cup {[owner |-> o.owner, target |-> k]} /\ k \in points[o.target]
  BY DEF Map
<1>3. held' \subseteq Handle
  BY <1>1, <1>2 DEF Handle
<1> QED
  BY <1>2, <1>3, HandlesHeaps DEF Map

\* Dropping a handle preserves the invariant.
LEMMA DropHeaps ==
    ASSUME HeapsInv, NEW o \in held, Drop(o)
    PROVE  HeapsInv'
<1>1. held' \subseteq held /\ held' \subseteq Handle
  BY DEF HeapsInv, HeapsTypeOK, Drop
<1> QED
  BY <1>1, HandlesHeaps DEF Drop

\* Every step preserves the invariant.
LEMMA NextHeaps == HeapsInv /\ [HeapsNext]_heapVars => HeapsInv'
<1> SUFFICES ASSUME HeapsInv, [HeapsNext]_heapVars PROVE HeapsInv'
  OBVIOUS
<1>1. CASE UNCHANGED heapVars
  BY <1>1 DEF heapVars, HeapsInv, HeapsTypeOK, DeadAreEmpty, RefsSealedOnly, PointsKept,
              HeldKept, Live, Kept, ClosedUnderRefs
<1>2. ASSUME NEW h \in Heap, New(h) \/ IntoRef(h) \/ Discard(h) \/ Free(h)
      PROVE  HeapsInv'
  BY <1>2, NewHeaps, SealHeaps, DiscardHeaps, FreeHeaps
<1>3. ASSUME NEW h \in Heap, NEW o \in held, Load(h, o) \/ Import(h, o) PROVE HeapsInv'
  BY <1>3, LoadHeaps, ImportHeaps
<1>4. ASSUME NEW h \in Heap, NEW g \in Heap, NEW k \in Heap, Extract(h, g, k) PROVE HeapsInv'
  BY <1>4, ExtractHeaps
<1>5. ASSUME NEW o \in held, NEW k \in Heap, Map(o, k) PROVE HeapsInv'
  BY <1>5, MapHeaps
<1>6. ASSUME NEW o \in held, Drop(o) PROVE HeapsInv'
  BY <1>6, DropHeaps
<1> QED
  BY <1>1, <1>2, <1>3, <1>4, <1>5, <1>6 DEF HeapsNext

\* The invariant holds of every behaviour: whatever mix of loads, imports,
\* FrozenHeap::add_reference, into_ref, OwnedFrozenValue::map and drops of
\* reference-counted handles a program makes, a heap that is still reachable
\* from a handle has everything its values point to kept alive by refs.
THEOREM HeapsInvariance == HeapsSpec => []HeapsInv
BY InitHeaps, NextHeaps, PTL DEF HeapsSpec

\* For any number of modules loaded, re-exported and dropped in any order, no
\* value of a live heap points into a freed one (FrozenHeap::add_reference,
\* into_ref, Arc drops).
THEOREM FrozenValuesSafe == HeapsSpec => []NoDanglingFrozenValue
<1>1. HeapsInv => NoDanglingFrozenValue
  BY DEF HeapsInv, PointsKept, NoDanglingFrozenValue
<1> QED
  BY <1>1, HeapsInvariance, PTL

\* The owner of an OwnedFrozenValue keeps its value alive, although it holds a
\* reference to the heap it was taken from and not to the one it lives in.
THEOREM OwnedValuesSafe == HeapsSpec => []OwnerKeepsValueAlive
<1>1. HeapsInv => OwnerKeepsValueAlive
  BY DEF HeapsInv, HeldKept, OwnerKeepsValueAlive
<1> QED
  BY <1>1, HeapsInvariance, PTL

\* A step that seals no heap and adds no reference to a sealed one cannot close
\* a cycle.
LEMMA NoNewCycle ==
    ASSUME NoReferenceCycle,
           \A h \in Heap : state'[h] = "sealed" => state[h] = "sealed" /\ refs'[h] \subseteq refs[h]
    PROVE  NoReferenceCycle'
BY DEF NoReferenceCycle

\* Sealing a heap closes no cycle: it was open, and only sealed heaps are
\* referenced, so no reference leads to it.
LEMMA SealAcyclic ==
    ASSUME HeapsInv, NoReferenceCycle, NEW h \in Heap, IntoRef(h)
    PROVE  NoReferenceCycle'
<1>1. state' = [state EXCEPT ![h] = "sealed"] /\ refs' = refs /\ state[h] = "open"
  BY DEF IntoRef, RefsSealed, HeapsInv, HeapsTypeOK
<1>2. SUFFICES ASSUME NEW S \in SUBSET {g \in Heap : state'[g] = "sealed"}, S # {}
               PROVE  \E k \in S : \A g \in S : k \notin refs[g]
  BY <1>1 DEF NoReferenceCycle
<1>3. CASE h \in S
  BY <1>1, <1>3 DEF HeapsInv, RefsSealedOnly
<1>4. CASE h \notin S
  <2>1. S \in SUBSET {g \in Heap : state[g] = "sealed"}
    BY <1>1, <1>4 DEF HeapsInv, HeapsTypeOK
  <2> QED
    BY <1>2, <2>1 DEF NoReferenceCycle
<1> QED
  BY <1>3, <1>4

\* Reference counts free everything (FrozenHeap::add_reference, Arc drops): for
\* any number of modules, imported from and re-exported in any order, the
\* references between frozen heaps form no cycle.
THEOREM FrozenHeapsAcyclic == HeapsSpec => []NoReferenceCycle
<1>1. HeapsInit => NoReferenceCycle
  BY DEF HeapsInit, NoReferenceCycle
<1>2. ASSUME HeapsInv, NoReferenceCycle, [HeapsNext]_heapVars
      PROVE  NoReferenceCycle'
  <2>. USE <1>2
  <2>1. CASE UNCHANGED heapVars
    BY <2>1, NoNewCycle DEF heapVars
  <2>2. ASSUME NEW h \in Heap, IntoRef(h) PROVE NoReferenceCycle'
    BY <2>2, SealAcyclic
  <2>3. ASSUME NEW h \in Heap, New(h) \/ Discard(h) \/ Free(h)
        PROVE  NoReferenceCycle'
    BY <2>3, NoNewCycle DEF New, Discard, Free, HeapsInv, HeapsTypeOK
  <2>4. ASSUME NEW h \in Heap, NEW o \in held, Load(h, o) \/ Import(h, o)
        PROVE  NoReferenceCycle'
    BY <2>4, NoNewCycle DEF Load, Import, HeapsInv, HeapsTypeOK
  <2>5. ASSUME NEW h \in Heap, NEW g \in Heap, NEW k \in Heap, Extract(h, g, k)
        PROVE  NoReferenceCycle'
    BY <2>5, NoNewCycle DEF Extract
  <2>6. ASSUME NEW o \in held, NEW k \in Heap, Map(o, k) PROVE NoReferenceCycle'
    BY <2>6, NoNewCycle DEF Map
  <2>7. ASSUME NEW o \in held, Drop(o) PROVE NoReferenceCycle'
    BY <2>7, NoNewCycle DEF Drop
  <2> QED
    BY <2>1, <2>2, <2>3, <2>4, <2>5, <2>6, <2>7 DEF HeapsNext
<1> QED
  BY <1>1, <1>2, HeapsInvariance, PTL DEF HeapsSpec
=============================================================================
