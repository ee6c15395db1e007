-------------------------- MODULE EvaluationProofs --------------------------
(***************************************************************************)
(* The call stack, the current frame and the collections of an evaluator,  *)
(* for every stack size and every nesting of entry points.                 *)
(***************************************************************************)
EXTENDS Evaluation, SeqFacts

Framed == {"stmt", "def"}
Bases  == {"module", "function"}

\* x is the position of the last framed activation among the first n of s, 0
\* if there is none.
FrameUpTo(s, n, x) ==
    /\ x \in 0 .. n
    /\ x # 0 => s[x].kind \in Framed
    /\ \A j \in x + 1 .. n : s[j].kind \notin Framed

\* What the activations of a native stack s are entitled to assume of each
\* other: the outermost is an entry point, whose call stack frame is the empty
\* one, and each frame saved is the one that was current when it was.
ActOk(s, i) ==
    /\ i = 1 => s[i].kind \in Bases
    /\ s[i].kind \in Bases => s[i].fn = None
    /\ s[i].oldInfo \in 0 .. MaxModules
    /\ s[i].kind \in Framed => FrameUpTo(s, i - 1, s[i].oldFrame)

ActsOk(s) == \A i \in 1 .. Len(s) : ActOk(s, i)

\* The used part of call stack st is the pushed activations of s.
PushedOf(s)      == At(s, {i \in DOMAIN s : s[i].kind \in Pushed})
Mirrors(s, st, c) ==
    /\ c = Len(PushedOf(s))
    /\ \A i \in 1 .. c : st[i] = PushedOf(s)[i].fn

\* Unless the debugger did it, no module is entered from a statement or a def.
RootOk(s, i) ==
    /\ s[i].kind = "module" => i = 1 \/ (NativeEvals /\ s[i - 1].kind = "native")
    /\ s[i].kind = "stmt" => i # 1 /\ s[i - 1].kind = "module"
Rooted(s)    == \A i \in 1 .. Len(s) : RootOk(s, i)
Collected(s) == Rooted(s) /\ (s # <<>> => Last(s).kind = "stmt")

IInv ==
    /\ TypeOK
    /\ ActsOk(acts)
    /\ Mirrors(acts, stack, count)
    /\ FrameUpTo(acts, Len(acts), frame)
    /\ ~disableGc => Rooted(acts)
    /\ Collected(gcActs)

-----------------------------------------------------------------------------
(* Entering and leaving an activation.                                     *)

LEMMA AppendAct ==
  ASSUME NEW s \in Seq(Act), NEW a \in Act
  PROVE  /\ Append(s, a) \in Seq(Act)
         /\ Len(s) \in Nat
         /\ Len(Append(s, a)) = Len(s) + 1
         /\ Append(s, a)[Len(s) + 1] = a
         /\ \A i \in 1 .. Len(s) : Append(s, a)[i] = s[i]
  OBVIOUS

(* The innermost frame after an activation is entered.                     *)
LEMMA FrameAppend ==
  ASSUME NEW s \in Seq(Act), NEW a \in Act, NEW x,
         FrameUpTo(s, Len(s), x)
  PROVE  /\ FrameUpTo(Append(s, a), Len(s), x)
         /\ FrameUpTo(Append(s, a), Len(s) + 1, IF a.kind \in Framed THEN Len(s) + 1 ELSE x)
<1> DEFINE t == Append(s, a)
           n == Len(s)
<1>1. n \in Nat /\ t[n + 1] = a /\ \A i \in 1 .. n : t[i] = s[i]
  BY AppendAct
<1>2. x \in 0 .. n /\ (x # 0 => s[x].kind \in Framed) /\ \A j \in x + 1 .. n : s[j].kind \notin Framed
  BY DEF FrameUpTo
<1> HIDE DEF t, n
<1>3. x # 0 => t[x].kind \in Framed
  BY <1>1, <1>2
<1>4. \A j \in x + 1 .. n : t[j].kind \notin Framed
  BY <1>1, <1>2
<1>5. FrameUpTo(t, n, x)
  BY <1>2, <1>3, <1>4 DEF FrameUpTo
<1>6. CASE a.kind \in Framed
  <2>1. n + 1 \in 0 .. n + 1 /\ (n + 1) + 1 .. n + 1 = {}
    BY <1>1
  <2>2. FrameUpTo(t, n + 1, n + 1)
    BY <1>1, <1>6, <2>1 DEF FrameUpTo
  <2> QED BY <1>5, <1>6, <2>2 DEF n, t
<1>7. CASE a.kind \notin Framed
  <2>1. x \in 0 .. n + 1
    BY <1>1, <1>2
  <2>2. \A j \in x + 1 .. n + 1 : t[j].kind \notin Framed
    <3> TAKE j \in x + 1 .. n + 1
    <3>1. j = n + 1 \/ j \in x + 1 .. n
      BY <1>1, <1>2
    <3> QED BY <1>1, <1>4, <1>7, <3>1
  <2>3. FrameUpTo(t, n + 1, x)
    BY <1>3, <2>1, <2>2 DEF FrameUpTo
  <2> QED BY <1>5, <1>7, <2>3 DEF n, t
<1> QED BY <1>6, <1>7

LEMMA FrameSame ==
  ASSUME NEW s, NEW t, NEW n \in Nat, \A i \in 1 .. n : s[i] = t[i],
         NEW m \in 0 .. n, NEW x, FrameUpTo(s, m, x)
  PROVE  FrameUpTo(t, m, x)
<1>1. x \in 0 .. m /\ m \in Nat /\ x \in Nat
  BY DEF FrameUpTo
<1>2. x # 0 => x \in 1 .. n
  BY <1>1
<1>3. \A j \in x + 1 .. m : j \in 1 .. n
  BY <1>1
<1> QED BY <1>1, <1>2, <1>3 DEF FrameUpTo

LEMMA ActsOkAppend ==
  ASSUME NEW s \in Seq(Act), ActsOk(s), NEW a \in Act,
         s = <<>> => a.kind \in Bases,
         a.kind \in Bases => a.fn = None,
         a.oldInfo \in 0 .. MaxModules,
         FrameUpTo(s, Len(s), a.oldFrame)
  PROVE  ActsOk(Append(s, a))
<1> DEFINE t == Append(s, a)
           n == Len(s)
<1>1. n \in Nat /\ Len(t) = n + 1 /\ t[n + 1] = a /\ \A i \in 1 .. n : t[i] = s[i]
  BY AppendAct
<1>2. n = 0 => s = <<>>
  OBVIOUS
<1>3. FrameUpTo(t, n, a.oldFrame)
  BY FrameAppend
<1>4. \A i \in 1 .. n : ActOk(s, i)
  BY DEF ActsOk
<1> HIDE DEF t, n
<1>5. \A i \in 1 .. n + 1 : ActOk(t, i)
  <2> TAKE i \in 1 .. n + 1
  <2>1. CASE i = n + 1
    <3>1. (i = 1 => a.kind \in Bases) /\ i - 1 = n
      BY <1>1, <1>2, <2>1
    <3> QED BY <1>1, <1>3, <2>1, <3>1 DEF ActOk
  <2>2. CASE i \in 1 .. n
    <3>1. t[i] = s[i] /\ ActOk(s, i)
      BY <1>1, <1>4, <2>2
    <3>2. t[i].kind \in Framed => FrameUpTo(t, i - 1, t[i].oldFrame)
      <4> SUFFICES ASSUME t[i].kind \in Framed PROVE FrameUpTo(t, i - 1, t[i].oldFrame)
        OBVIOUS
      <4>1. FrameUpTo(s, i - 1, s[i].oldFrame)
        BY <3>1 DEF ActOk
      <4>2. (\A k \in 1 .. n : s[k] = t[k]) /\ i - 1 \in 0 .. n
        BY <1>1
      <4>3. FrameUpTo(t, i - 1, s[i].oldFrame)
        BY <1>1, <4>1, <4>2, FrameSame
      <4> QED BY <3>1, <4>3
    <3> QED BY <3>1, <3>2 DEF ActOk
  <2>3. i = n + 1 \/ i \in 1 .. n
    BY <1>1
  <2> QED BY <2>1, <2>2, <2>3
<1> QED BY <1>1, <1>5 DEF ActsOk, t, n

LEMMA ActsOkFront ==
  ASSUME NEW s \in Seq(Act), ActsOk(s), s # <<>>
  PROVE  ActsOk(Front(s))
<1> DEFINE t == Front(s)
           n == Len(s) - 1
<1>1. n \in Nat /\ Len(t) = n /\ \A i \in 1 .. n : t[i] = s[i]
  BY FrontLast
<1>2. \A i \in 1 .. n : ActOk(s, i)
  BY <1>1 DEF ActsOk
<1> HIDE DEF t, n
<1>3. ASSUME NEW i \in 1 .. n PROVE ActOk(t, i)
  <2>1. t[i] = s[i] /\ ActOk(s, i)
    BY <1>1, <1>2
  <2>2. t[i].kind \in Framed => FrameUpTo(t, i - 1, t[i].oldFrame)
    <3> SUFFICES ASSUME t[i].kind \in Framed PROVE FrameUpTo(t, i - 1, t[i].oldFrame)
      OBVIOUS
    <3>1. FrameUpTo(s, i - 1, s[i].oldFrame)
      BY <2>1 DEF ActOk
    <3>2. (\A k \in 1 .. n : s[k] = t[k]) /\ i - 1 \in 0 .. n
      BY <1>1
    <3>3. FrameUpTo(t, i - 1, s[i].oldFrame)
      BY <1>1, <3>1, <3>2, FrameSame
    <3> QED BY <2>1, <3>3
  <2> QED BY <2>1, <2>2 DEF ActOk
<1> QED BY <1>1, <1>3 DEF ActsOk, t

(* The innermost frame after an activation is left.                        *)
LEMMA FrameFront ==
  ASSUME NEW s \in Seq(Act), ActsOk(s), s # <<>>, NEW x,
         FrameUpTo(s, Len(s), x)
  PROVE  FrameUpTo(Front(s), Len(Front(s)),
                   IF Last(s).kind \in Framed THEN Last(s).oldFrame ELSE x)
<1> DEFINE t == Front(s)
           n == Len(s) - 1
           y == IF s[n + 1].kind \in Framed THEN s[n + 1].oldFrame ELSE x
<1>1. n \in Nat /\ Len(t) = n /\ Len(s) = n + 1 /\ Last(s) = s[n + 1] /\ \A i \in 1 .. n : s[i] = t[i]
  BY FrontLast
<1>2. FrameUpTo(s, n, y)
  <2>1. CASE s[n + 1].kind \in Framed
    <3>1. ActOk(s, n + 1) /\ (n + 1) - 1 = n
      BY <1>1 DEF ActsOk
    <3> HIDE DEF n
    <3>2. FrameUpTo(s, (n + 1) - 1, s[n + 1].oldFrame)
      BY <2>1, <3>1, Zenon DEF ActOk
    <3>3. FrameUpTo(s, n, s[n + 1].oldFrame)
      BY ONLY <3>1, <3>2
    <3> QED BY <2>1, <3>3
  <2>2. CASE s[n + 1].kind \notin Framed
    <3> HIDE DEF n
    <3>2. x \in 0 .. n + 1 /\ (x # 0 => s[x].kind \in Framed) /\ \A j \in x + 1 .. n + 1 : s[j].kind \notin Framed
      BY <1>1 DEF FrameUpTo
    <3>3. x # n + 1
      BY <1>1, <2>2, <3>2
    <3>4. x \in 0 .. n /\ x + 1 .. n \subseteq x + 1 .. n + 1
      BY <1>1, <3>2, <3>3
    <3>5. FrameUpTo(s, n, x)
      BY <3>2, <3>4 DEF FrameUpTo
    <3> QED BY <2>2, <3>5
  <2> QED BY <2>1, <2>2
<1> HIDE DEF t, n, y
<1>3. FrameUpTo(t, n, y)
  <2>1. n \in 0 .. n
    BY <1>1
  <2> QED BY <1>1, <1>2, <2>1, FrameSame
<1> QED BY <1>1, <1>3 DEF t, y

LEMMA PushedType ==
  ASSUME NEW s \in Seq(Act)
  PROVE  PushedOf(s) \in Seq(Act) /\ Len(PushedOf(s)) \in Nat
<1>1. {i \in DOMAIN s : s[i].kind \in Pushed} \in SUBSET (1 .. Len(s))
  OBVIOUS
<1>2. PushedOf(s) \in Seq(Act)
  BY <1>1, AtProperties DEF PushedOf
<1> QED BY <1>2

LEMMA PushedAppend ==
  ASSUME NEW s \in Seq(Act), NEW a \in Act
  PROVE  PushedOf(Append(s, a)) = IF a.kind \in Pushed THEN Append(PushedOf(s), a) ELSE PushedOf(s)
<1> DEFINE t == Append(s, a)
           n == Len(s)
           P == {i \in DOMAIN s : s[i].kind \in Pushed}
           Q == {i \in DOMAIN t : t[i].kind \in Pushed}
<1>1. n \in Nat /\ DOMAIN s = 1 .. n /\ DOMAIN t = 1 .. n + 1 /\ t[n + 1] = a /\ \A i \in 1 .. n : t[i] = s[i]
  OBVIOUS
<1>2. P \in SUBSET (1 .. Len(s))
  OBVIOUS
<1>3. Q = IF a.kind \in Pushed THEN P \cup {n + 1} ELSE P
  <2> HIDE DEF t, n
  <2>1. DOMAIN t = DOMAIN s \cup {n + 1}
    BY <1>1
  <2> QED BY <1>1, <2>1
<1> HIDE DEF P, Q
<1>4. At(t, P) = At(s, P) /\ At(t, P \cup {n + 1}) = Append(At(s, P), a)
  BY <1>2, AtAppend
<1>5. PushedOf(t) = At(t, Q) /\ PushedOf(s) = At(s, P)
  BY DEF PushedOf, P, Q
<1> QED BY <1>3, <1>4, <1>5

LEMMA MirrorsPush ==
  ASSUME NEW s \in Seq(Act), NEW a \in Act, NEW st, NEW c, Mirrors(s, st, c),
         a.kind \in Pushed, NEW u, u[c + 1] = a.fn, \A i \in 1 .. c : u[i] = st[i]
  PROVE  Mirrors(Append(s, a), u, c + 1)
<1> DEFINE p == PushedOf(s)
           q == PushedOf(Append(s, a))
<1>1. q = Append(p, a)
  BY PushedAppend
<1>2. p \in Seq(Act) /\ c = Len(p) /\ c \in Nat /\ \A i \in 1 .. c : st[i] = p[i].fn
  BY PushedType DEF Mirrors
<1> HIDE DEF p, q
<1>3. Len(q) = c + 1 /\ q[c + 1] = a /\ \A i \in 1 .. c : q[i] = p[i]
  BY <1>1, <1>2, AppendAct
<1>4. \A i \in 1 .. c + 1 : u[i] = q[i].fn
  <2> TAKE i \in 1 .. c + 1
  <2>1. i = c + 1 \/ i \in 1 .. c
    BY <1>2
  <2> QED BY <1>2, <1>3, <2>1
<1> QED BY <1>3, <1>4 DEF Mirrors, q

LEMMA MirrorsPop ==
  ASSUME NEW s \in Seq(Act), s # <<>>, NEW st, NEW c, Mirrors(s, st, c)
  PROVE  /\ Mirrors(Front(s), st, IF Last(s).kind \in Pushed THEN c - 1 ELSE c)
         /\ Last(s).kind \in Pushed => c # 0
<1> DEFINE t == Front(s)
           a == Last(s)
           p == PushedOf(t)
           q == PushedOf(s)
<1>1. t \in Seq(Act) /\ a \in Act /\ s = Append(t, a)
  <2>1. /\ t \in Seq(Act) /\ a \in Act /\ Len(s) \in Nat /\ Len(t) = Len(s) - 1 /\ a = s[Len(s)]
        /\ \A i \in 1 .. Len(s) - 1 : t[i] = s[i]
    BY FrontLast
  <2> DEFINE v == Append(t, a)
  <2> HIDE DEF t, a
  <2>2. v \in Seq(Act) /\ Len(v) = Len(s) /\ \A i \in 1 .. Len(s) - 1 : v[i] = s[i]
    BY <2>1
  <2>3. v[Len(s)] = s[Len(s)]
    BY <2>1
  <2>4. \A i \in 1 .. Len(s) : s[i] = v[i]
    <3> TAKE i \in 1 .. Len(s)
    <3>1. i = Len(s) \/ i \in 1 .. Len(s) - 1
      BY <2>1
    <3> QED BY <2>2, <2>3, <3>1
  <2> HIDE DEF v
  <2>5. s = v
    BY <2>2, <2>4, SameSeq
  <2> QED BY <2>1, <2>5 DEF v
<1>2. p \in Seq(Act) /\ Len(p) \in Nat /\ q = IF a.kind \in Pushed THEN Append(p, a) ELSE p
  <2> HIDE DEF t, a
  <2> QED BY <1>1, PushedType, PushedAppend
<1>3. c = Len(q) /\ \A i \in 1 .. c : st[i] = q[i].fn
  BY DEF Mirrors
<1> HIDE DEF t, a, p, q
<1>4. CASE a.kind \in Pushed
  <2>1. Len(q) = Len(p) + 1 /\ \A i \in 1 .. Len(p) : q[i] = p[i]
    BY <1>1, <1>2, <1>4, AppendAct
  <2>2. c - 1 = Len(p) /\ c # 0 /\ \A i \in 1 .. Len(p) : i \in 1 .. c
    BY <1>2, <1>3, <2>1
  <2>3. \A i \in 1 .. c - 1 : st[i] = p[i].fn
    BY <1>3, <2>1, <2>2
  <2> QED BY <1>4, <2>2, <2>3 DEF Mirrors, p, a, t
<1>5. CASE a.kind \notin Pushed
  BY <1>2, <1>3, <1>5 DEF Mirrors, p, a, t
<1> QED BY <1>4, <1>5

LEMMA RootedAppend ==
  ASSUME NEW s \in Seq(Act), Rooted(s), NEW a \in Act,
         a.kind = "module" => s = <<>> \/ (NativeEvals /\ Last(s).kind = "native"),
         a.kind = "stmt" => s # <<>> /\ Last(s).kind = "module"
  PROVE  Rooted(Append(s, a))
<1> DEFINE t == Append(s, a)
           n == Len(s)
<1>1. n \in Nat /\ Len(t) = n + 1 /\ t[n + 1] = a /\ \A i \in 1 .. n : t[i] = s[i]
  BY AppendAct
<1>2. n = 0 \/ (n # 0 /\ Last(s) = s[n])
  BY DEF Last
<1>3. (s = <<>>) <=> (n = 0)
  OBVIOUS
<1>4. \A i \in 1 .. n : RootOk(s, i)
  BY DEF Rooted
<1> HIDE DEF t, n
<1>5. ASSUME NEW i \in 1 .. n + 1 PROVE RootOk(t, i)
  <2>1. CASE i = n + 1
    <3>1. i = 1 \/ (n \in 1 .. n /\ i - 1 = n /\ n # 0)
      BY <1>1, <2>1
    <3> QED BY <1>1, <1>2, <1>3, <2>1, <3>1 DEF RootOk
  <2>2. CASE i \in 1 .. n
    <3>1. i = 1 \/ i - 1 \in 1 .. n
      BY <1>1, <2>2
    <3> QED BY <1>1, <1>4, <2>2, <3>1 DEF RootOk
  <2>3. i = n + 1 \/ i \in 1 .. n
    BY <1>1
  <2> QED BY <2>1, <2>2, <2>3
<1> QED BY <1>1, <1>5 DEF Rooted, t

LEMMA RootedFront ==
  ASSUME NEW s \in Seq(Act), Rooted(s), s # <<>>
  PROVE  Rooted(Front(s))
<1> DEFINE t == Front(s)
           n == Len(s) - 1
<1>1. n \in Nat /\ Len(t) = n /\ \A i \in 1 .. n : t[i] = s[i]
  BY FrontLast
<1>2. \A i \in 1 .. n : RootOk(s, i)
  BY <1>1 DEF Rooted
<1> HIDE DEF t, n
<1>3. ASSUME NEW i \in 1 .. n PROVE RootOk(t, i)
  <2>1. i = 1 \/ i - 1 \in 1 .. n
    BY <1>1
  <2> QED BY <1>1, <1>2, <2>1 DEF RootOk
<1> QED BY <1>1, <1>3 DEF Rooted, t

-----------------------------------------------------------------------------
(* The call stack: what an allocation and a push leave in place.           *)

LEMMA AllocatedType ==
  ASSUME TypeOK
  PROVE  /\ Allocated \in Seq(Function)
         /\ Len(Allocated) \in Nat /\ DOMAIN Allocated = 1 .. Len(Allocated)
         /\ count \in 0 .. Len(Allocated)
         /\ \A i \in 1 .. count : Allocated[i] = stack[i]
<1>1. Size \in Nat
  BY EvaluationAssumption DEF TypeOK, Size
<1>2. count \in Nat /\ stack \in Seq(Function) /\ Len(stack) \in Nat /\ count \in 0 .. Len(stack)
  BY DEF TypeOK
<1>3. CASE stack = <<>>
  <2>1. Allocated = [i \in 1 .. Size |-> None]
    BY <1>3 DEF Allocated
  <2>2. None \in Function
    BY DEF Function
  <2>3. Allocated \in [1 .. Size -> Function]
    BY <2>1, <2>2
  <2>4. Allocated \in Seq(Function) /\ Len(Allocated) = Size /\ DOMAIN Allocated = 1 .. Size
    BY <1>1, <2>3
  <2>5. count = 0
    <3>1. Len(stack) = 0
      BY <1>3
    <3> QED BY <1>2, <3>1
  <2> QED BY <1>1, <2>4, <2>5
<1>4. CASE stack # <<>>
  BY <1>2, <1>4 DEF Allocated
<1> QED BY <1>3, <1>4

LEMMA PushOne ==
  ASSUME TypeOK, NEW fn \in Function, ~Full(1), Push(<<fn>>)
  PROVE  /\ stack' \in Seq(Function) /\ count' \in 0 .. Len(stack')
         /\ count' = count + 1 /\ stack'[count + 1] = fn
         /\ \A i \in 1 .. count : stack'[i] = stack[i]
<1> DEFINE n == Len(Allocated)
<1>1. /\ Allocated \in Seq(Function) /\ n \in Nat /\ DOMAIN Allocated = 1 .. n
      /\ count \in 0 .. n /\ \A i \in 1 .. count : Allocated[i] = stack[i]
  BY AllocatedType
<1>2. count + 1 <= n /\ count \in Nat
  BY <1>1 DEF Full
<1>3. Len(<<fn>>) = 1 /\ <<fn>>[1] = fn
  OBVIOUS
<1>4. count' = count + 1
  BY <1>3 DEF Push
<1>5. stack' = [i \in 1 .. n |-> IF i \in count + 1 .. count + 1 THEN <<fn>>[i - count] ELSE Allocated[i]]
  BY <1>1, <1>3 DEF Push
<1> HIDE DEF n
<1>6. \A i \in 1 .. n : stack'[i] = IF i = count + 1 THEN fn ELSE Allocated[i]
  <2> TAKE i \in 1 .. n
  <2>1. i \in count + 1 .. count + 1 <=> i = count + 1
    BY <1>2
  <2>2. i = count + 1 => i - count = 1
    BY <1>2
  <2> QED BY <1>3, <1>5, <2>1, <2>2
<1>7. \A i \in 1 .. n : Allocated[i] \in Function
  BY <1>1
<1>8. stack' \in [1 .. n -> Function]
  <2>1. \A i \in 1 .. n : stack'[i] \in Function
    BY <1>6, <1>7
  <2> QED BY <1>5, <2>1
<1>9. stack' \in Seq(Function) /\ Len(stack') = n
  BY <1>1, <1>8
<1>10. \A i \in 1 .. count : stack'[i] = stack[i]
  <2> TAKE i \in 1 .. count
  <2>1. i \in 1 .. n /\ i # count + 1
    BY <1>1, <1>2
  <2> QED BY <1>1, <1>6, <2>1
<1>11. stack'[count + 1] = fn /\ count + 1 \in 0 .. n
  <2>1. count + 1 \in 1 .. n
    BY <1>1, <1>2
  <2> QED BY <1>1, <1>6, <2>1
<1> QED BY <1>4, <1>9, <1>10, <1>11

LEMMA PushTwo ==
  ASSUME TypeOK, NEW fn \in Function, ~Full(2), Push(<<None, fn>>)
  PROVE  /\ stack' \in Seq(Function) /\ count' \in 0 .. Len(stack')
         /\ count' = (count + 1) + 1 /\ stack'[count + 1] = None /\ stack'[(count + 1) + 1] = fn
         /\ \A i \in 1 .. count : stack'[i] = stack[i]
<1> DEFINE n == Len(Allocated)
           f == <<None, fn>>
<1>1. /\ Allocated \in Seq(Function) /\ n \in Nat /\ DOMAIN Allocated = 1 .. n
      /\ count \in 0 .. n /\ \A i \in 1 .. count : Allocated[i] = stack[i]
  BY AllocatedType
<1>2. count + 2 <= n /\ count \in Nat
  BY <1>1 DEF Full
<1>3. Len(f) = 2 /\ f[1] = None /\ f[2] = fn /\ None \in Function
  BY DEF Function
<1>4. count' = count + 2
  BY <1>3 DEF Push
<1>5. stack' = [i \in 1 .. n |-> IF i \in count + 1 .. count + 2 THEN f[i - count] ELSE Allocated[i]]
  BY <1>1, <1>3 DEF Push
<1> HIDE DEF n, f
<1>6. \A i \in 1 .. n : stack'[i] = IF i = count + 1 THEN None ELSE IF i = (count + 1) + 1 THEN fn ELSE Allocated[i]
  <2> TAKE i \in 1 .. n
  <2>1. i \in count + 1 .. count + 2 <=> i = count + 1 \/ i = (count + 1) + 1
    BY <1>2
  <2>2. (i = count + 1 => i - count = 1) /\ (i = (count + 1) + 1 => i - count = 2 /\ i # count + 1)
    BY <1>2
  <2> QED BY <1>3, <1>5, <2>1, <2>2
<1>7. \A i \in 1 .. n : Allocated[i] \in Function
  BY <1>1
<1>8. stack' \in [1 .. n -> Function]
  <2>1. \A i \in 1 .. n : stack'[i] \in Function
    BY <1>3, <1>6, <1>7
  <2> QED BY <1>5, <2>1
<1>9. stack' \in Seq(Function) /\ Len(stack') = n
  BY <1>1, <1>8
<1>10. \A i \in 1 .. count : stack'[i] = stack[i]
  <2> TAKE i \in 1 .. count
  <2>1. i \in 1 .. n /\ i # count + 1 /\ i # (count + 1) + 1
    BY <1>1, <1>2
  <2> QED BY <1>1, <1>6, <2>1
<1>11. stack'[count + 1] = None /\ stack'[(count + 1) + 1] = fn /\ count + 2 \in 0 .. n
  <2>1. count + 1 \in 1 .. n /\ (count + 1) + 1 \in 1 .. n /\ (count + 1) + 1 # count + 1
    BY <1>1, <1>2
  <2>2. count + 2 \in 0 .. n
    BY <1>1, <1>2
  <2> QED BY <1>6, <2>1, <2>2
<1>12. count' = (count + 1) + 1
  BY <1>2, <1>4
<1> QED BY <1>4, <1>9, <1>10, <1>11, <1>12

-----------------------------------------------------------------------------
(* The actions.                                                            *)

LEMMA InitIInv == Init => IInv
<1> SUFFICES ASSUME Init PROVE IInv
  OBVIOUS
<1>1. stack \in Seq(Function) /\ Len(stack) = 0 /\ acts \in Seq(Act) /\ Len(acts) = 0
      /\ gcActs \in Seq(Act) /\ Len(gcActs) = 0
  BY DEF Init
<1>2. disableGc \in BOOLEAN /\ due \in BOOLEAN /\ panicked \in BOOLEAN
  BY Zenon DEF Init
<1>3. count = 0 /\ count \in 0 .. Len(stack) /\ maxSize \in Nat /\ frame = 0 /\ frame \in Nat
      /\ defInfo \in 0 .. MaxModules /\ modules \in 0 .. MaxModules
  BY <1>1, EvaluationAssumption DEF Init
<1>4. TypeOK
  BY <1>1, <1>2, <1>3 DEF TypeOK
<1>5. ActsOk(acts) /\ Rooted(acts) /\ Collected(gcActs)
  BY <1>1 DEF ActsOk, Rooted, Collected
<1>6. FrameUpTo(acts, Len(acts), frame)
  BY <1>1, <1>3 DEF FrameUpTo
<1>7. Mirrors(acts, stack, count)
  <2>1. DOMAIN acts = {}
    BY <1>1
  <2> DEFINE P == {i \in DOMAIN acts : acts[i].kind \in Pushed}
  <2>2. P = {}
    BY <2>1
  <2>3. P \in SUBSET (1 .. Len(acts)) /\ Cardinality(P) = 0
    BY <2>2, FS_EmptySet
  <2> HIDE DEF P
  <2>4. Len(At(acts, P)) = 0
    BY <1>1, <2>3, AtProperties
  <2> QED BY <1>3, <2>4 DEF Mirrors, PushedOf, P
<1> QED BY <1>4, <1>5, <1>6, <1>7 DEF IInv

(* A step that leaves the native stack and the call stack alone.           *)
LEMMA QuietStep ==
  ASSUME IInv, TypeOK', UNCHANGED <<acts, count, frame>>,
         \A i \in 1 .. count : stack'[i] = stack[i],
         gcActs' = gcActs, ~disableGc' => ~disableGc
  PROVE  IInv'
<1>1. Mirrors(acts, stack, count)'
  BY DEF IInv, Mirrors, PushedOf
<1>2. FrameUpTo(acts, Len(acts), frame)' /\ ActsOk(acts)'
  BY DEF IInv, FrameUpTo, ActsOk, ActOk
<1>3. (~disableGc => Rooted(acts))' /\ Collected(gcActs)'
  BY DEF IInv, Rooted, RootOk, Collected
<1> QED BY <1>1, <1>2, <1>3 DEF IInv

LEMMA NewActType ==
  ASSUME TypeOK, NEW fn \in Function,
         NEW kind \in {"module", "stmt", "function", "def", "native"}
  PROVE  /\ NewAct(kind, fn) \in Act
         /\ NewAct(kind, fn).kind = kind /\ NewAct(kind, fn).fn = fn
         /\ NewAct(kind, fn).oldFrame = frame
         /\ NewAct(kind, fn).oldInfo = defInfo /\ defInfo \in 0 .. MaxModules
<1>1. defInfo \in Nat /\ frame \in Nat /\ defInfo \in 0 .. MaxModules
  BY EvaluationAssumption DEF TypeOK
<1> QED BY <1>1 DEF NewAct, Act

(* eval_module, entered from the application or a native function, or with *)
(* collections disabled.                                                   *)
LEMMA StartModuleStep ==
  ASSUME IInv, StartModule, UNCHANGED <<maxSize, frame, due, gcActs>>,
         disableGc' \in BOOLEAN,
         ~disableGc' => /\ ~disableGc
                        /\ acts = <<>> \/ (NativeEvals /\ Last(acts).kind = "native")
  PROVE  IInv'
<1>1. TypeOK /\ acts \in Seq(Act) /\ modules \in 0 .. MaxModules
  BY DEF IInv, TypeOK
<1>2. modules' \in 0 .. MaxModules /\ defInfo' \in 0 .. MaxModules
  BY <1>1, EvaluationAssumption DEF StartModule
<1>3. CASE UNCHANGED <<stack, count, acts>> /\ panicked' \in BOOLEAN
  <2>1. TypeOK'
    BY <1>1, <1>2, <1>3 DEF TypeOK
  <2> QED BY <1>3, <2>1, QuietStep
<1>4. CASE Push(<<None>>) /\ ~Full(1) /\ acts' = Append(acts, NewAct("module", None)) /\ UNCHANGED panicked
  <2> DEFINE a == NewAct("module", None)
  <2>1. /\ a \in Act /\ a.kind = "module" /\ a.fn = None /\ a.oldFrame = frame
        /\ a.oldInfo \in 0 .. MaxModules
    <3>1. None \in Function
      BY DEF Function
    <3> QED BY <1>1, <3>1, NewActType
  <2> HIDE DEF a
  <2>2. acts' = Append(acts, a) /\ acts' \in Seq(Act) /\ Len(acts') = Len(acts) + 1
    BY <1>1, <1>4, <2>1, AppendAct DEF a
  <2>3. /\ stack' \in Seq(Function) /\ count' \in 0 .. Len(stack')
        /\ count' = count + 1 /\ stack'[count + 1] = None
        /\ \A i \in 1 .. count : stack'[i] = stack[i]
    <3>1. None \in Function
      BY DEF Function
    <3> QED BY <1>1, <1>4, <3>1, PushOne
  <2>4. TypeOK'
    BY <1>1, <1>2, <1>4, <2>2, <2>3 DEF TypeOK
  <2>5. FrameUpTo(acts', Len(acts'), frame')
    <3>1. "module" \notin Framed
      BY DEF Framed
    <3>2. FrameUpTo(acts, Len(acts), frame)
      BY DEF IInv
    <3>3. FrameUpTo(Append(acts, a), Len(acts) + 1, frame)
      BY <1>1, <2>1, <3>1, <3>2, FrameAppend
    <3> QED BY <2>2, <3>3
  <2>6. ActsOk(acts')
    <3>1. FrameUpTo(acts, Len(acts), a.oldFrame) /\ ActsOk(acts)
      BY <2>1 DEF IInv
    <3>2. "module" \in Bases
      BY DEF Bases
    <3> QED BY <1>1, <2>1, <2>2, <3>1, <3>2, ActsOkAppend
  <2>7. Mirrors(acts', stack', count')
    <3>1. "module" \in Pushed /\ Mirrors(acts, stack, count)
      BY DEF Pushed, IInv
    <3>2. Mirrors(Append(acts, a), stack', count + 1)
      BY <1>1, <2>1, <2>3, <3>1, MirrorsPush
    <3> QED BY <2>2, <2>3, <3>2
  <2>8. ~disableGc' => Rooted(acts')
    BY <1>1, <2>1, <2>2, RootedAppend DEF IInv
  <2> QED BY <2>4, <2>5, <2>6, <2>7, <2>8 DEF IInv
<1> QED BY <1>1, <1>3, <1>4, Zenon DEF StartModule, TypeOK

LEMMA TopLevelStmtStep ==
  ASSUME IInv, TopLevelStmt PROVE IInv'
<1>1. TypeOK /\ acts \in Seq(Act) /\ acts # <<>>
  BY DEF IInv, TypeOK, TopLevelStmt, Running
<1> DEFINE a == NewAct("stmt", None)
<1>2. /\ a \in Act /\ a.kind = "stmt" /\ a.oldFrame = frame
      /\ a.oldInfo \in 0 .. MaxModules
  <2>1. None \in Function
    BY DEF Function
  <2> QED BY <1>1, <2>1, NewActType
<1>3. acts' = Append(acts, a)
  BY DEF TopLevelStmt
<1> HIDE DEF a
<1>4. acts' \in Seq(Act) /\ Len(acts') = Len(acts) + 1 /\ Len(acts) + 1 \in Nat
  BY <1>1, <1>2, <1>3, AppendAct
<1>5. TypeOK'
  BY <1>1, <1>4 DEF TypeOK, TopLevelStmt
<1>6. "stmt" \in Framed /\ "stmt" \notin Bases /\ "stmt" \notin Pushed
  BY DEF Framed, Bases, Pushed
<1>7. FrameUpTo(acts', Len(acts'), frame')
  <2>1. FrameUpTo(acts, Len(acts), frame)
    BY DEF IInv
  <2>2. FrameUpTo(Append(acts, a), Len(acts) + 1, Len(acts) + 1)
    BY <1>1, <1>2, <1>6, <2>1, FrameAppend
  <2> QED BY <1>3, <1>4, <2>2 DEF TopLevelStmt
<1>8. ActsOk(acts')
  <2>1. FrameUpTo(acts, Len(acts), a.oldFrame) /\ ActsOk(acts)
    BY <1>2 DEF IInv
  <2> QED BY <1>1, <1>2, <1>3, <1>6, <2>1, ActsOkAppend
<1>9. Mirrors(acts', stack', count')
  <2>1. PushedOf(acts') = PushedOf(acts)
    BY <1>1, <1>2, <1>3, <1>6, PushedAppend
  <2> QED BY <2>1 DEF IInv, Mirrors, TopLevelStmt
<1>10. ~disableGc' => Rooted(acts')
  <2>1. Last(acts).kind = "module"
    BY DEF TopLevelStmt, Running
  <2> QED BY <1>1, <1>2, <1>3, <2>1, RootedAppend DEF IInv, TopLevelStmt
<1>11. Collected(gcActs')
  BY DEF IInv, TopLevelStmt
<1> QED BY <1>5, <1>7, <1>8, <1>9, <1>10, <1>11 DEF IInv

LEMMA PossibleGcStep ==
  ASSUME IInv, PossibleGc PROVE IInv'
<1>1. TypeOK /\ Rooted(acts) /\ count \in Nat /\ Len(stack) \in Nat /\ count <= Len(stack)
  BY DEF IInv, TypeOK, PossibleGc
<1>2. stack' \in [1 .. Len(stack) -> Function]
  <2>1. \A i \in 1 .. Len(stack) : stack[i] \in Function /\ None \in Function
    BY <1>1 DEF TypeOK, Function
  <2> QED BY <2>1 DEF PossibleGc, Blanked
<1>3. stack' \in Seq(Function) /\ Len(stack') = Len(stack)
  BY <1>1, <1>2
<1>4. due' \in BOOLEAN
  BY Zenon DEF PossibleGc
<1>5. TypeOK'
  BY <1>1, <1>3, <1>4 DEF TypeOK, PossibleGc
<1>6. \A i \in 1 .. count : stack'[i] = stack[i]
  <2> TAKE i \in 1 .. count
  <2>1. i \in 1 .. Len(stack) /\ i <= count
    BY <1>1
  <2> QED BY <2>1 DEF PossibleGc, Blanked
<1>7. Mirrors(acts, stack, count)'
  BY <1>6 DEF IInv, Mirrors, PushedOf, PossibleGc
<1>8. FrameUpTo(acts, Len(acts), frame)' /\ ActsOk(acts)'
  BY DEF IInv, PossibleGc, FrameUpTo, ActsOk, ActOk
<1>9. (~disableGc => Rooted(acts))' /\ Collected(gcActs)'
  BY <1>1 DEF PossibleGc, Running, Rooted, RootOk, Collected
<1> QED BY <1>5, <1>7, <1>8, <1>9 DEF IInv

(* Invoking a function whose frame has been pushed.                        *)
LEMMA InvokeStep ==
  ASSUME NEW s \in Seq(Act), ActsOk(s), s # <<>>, NEW f \in Nat, FrameUpTo(s, Len(s), f),
         NEW fn \in Def \cup Native, NEW info \in 0 .. MaxModules, NEW old \in Nat, old = f,
         NEW a, a = [kind |-> IF fn \in Def THEN "def" ELSE "native", fn |-> fn,
                     oldFrame |-> old, oldInfo |-> info]
  PROVE  /\ a \in Act /\ a.kind \in Pushed /\ a.fn = fn
         /\ ActsOk(Append(s, a))
         /\ FrameUpTo(Append(s, a), Len(s) + 1, IF fn \in Def THEN Len(s) + 1 ELSE f)
         /\ Rooted(s) => Rooted(Append(s, a))
<1>1. fn \in Function /\ info \in Nat
  BY EvaluationAssumption DEF Function
<1>2. a \in Act /\ a.kind = (IF fn \in Def THEN "def" ELSE "native") /\ a.fn = fn /\ a.oldFrame = f /\ a.oldInfo = info
  BY <1>1 DEF Act
<1>3. /\ a.kind \in Pushed /\ a.kind \notin Bases /\ a.kind \notin {"module", "stmt"}
      /\ (a.kind \in Framed <=> fn \in Def)
  BY <1>2 DEF Pushed, Bases, Framed
<1>4. ActsOk(Append(s, a))
  BY <1>2, <1>3, ActsOkAppend
<1>5. FrameUpTo(Append(s, a), Len(s) + 1, IF fn \in Def THEN Len(s) + 1 ELSE f)
  <2>1. FrameUpTo(Append(s, a), Len(s) + 1, IF a.kind \in Framed THEN Len(s) + 1 ELSE f)
    BY <1>2, FrameAppend
  <2> QED BY <1>3, <2>1
<1>6. Rooted(s) => Rooted(Append(s, a))
  BY <1>2, <1>3, RootedAppend
<1> QED BY <1>2, <1>3, <1>4, <1>5, <1>6

LEMMA CallStep ==
  ASSUME IInv, NEW fn \in Def \cup Native, Call(fn) PROVE IInv'
<1>1. /\ TypeOK /\ acts \in Seq(Act) /\ acts # <<>> /\ ActsOk(acts) /\ frame \in Nat
      /\ FrameUpTo(acts, Len(acts), frame) /\ defInfo \in 0 .. MaxModules
  BY DEF IInv, TypeOK, Call, Running
<1> DEFINE a == NewAct(IF fn \in Def THEN "def" ELSE "native", fn)
<1>2. /\ a \in Act /\ a.kind \in Pushed /\ a.fn = fn
      /\ ActsOk(Append(acts, a))
      /\ FrameUpTo(Append(acts, a), Len(acts) + 1, IF fn \in Def THEN Len(acts) + 1 ELSE frame)
      /\ Rooted(acts) => Rooted(Append(acts, a))
  <2>1. a = [kind |-> IF fn \in Def THEN "def" ELSE "native", fn |-> fn,
             oldFrame |-> frame, oldInfo |-> defInfo]
    BY DEF NewAct
  <2> HIDE DEF a
  <2> QED BY <1>1, <2>1, InvokeStep
<1>3. acts' = Append(acts, a) /\ frame' = IF fn \in Def THEN Len(acts) + 1 ELSE frame
  <2>1. acts' = acts \o <<>> \o <<a>> /\ frame' = IF fn \in Def THEN Len(acts) + 1 ELSE frame
    BY DEF Call, Invoke
  <2> HIDE DEF a
  <2>2. acts \o <<>> = acts /\ acts \o <<a>> = Append(acts, a)
    BY <1>1, <1>2
  <2> QED BY <2>1, <2>2
<1> HIDE DEF a
<1>4. acts' \in Seq(Act) /\ Len(acts') = Len(acts) + 1 /\ Len(acts) \in Nat
  BY <1>1, <1>2, <1>3, AppendAct
<1>5. /\ stack' \in Seq(Function) /\ count' \in 0 .. Len(stack')
      /\ count' = count + 1 /\ stack'[count + 1] = fn
      /\ \A i \in 1 .. count : stack'[i] = stack[i]
  <2>1. fn \in Function
    BY DEF Function
  <2> QED BY <1>1, <2>1, PushOne DEF Call
<1>6. frame' \in Nat
  BY <1>1, <1>3, <1>4
<1>7. TypeOK'
  BY <1>1, <1>4, <1>5, <1>6 DEF TypeOK, Call
<1>8. Mirrors(acts', stack', count')
  <2>1. Mirrors(acts, stack, count)
    BY DEF IInv
  <2>2. Mirrors(Append(acts, a), stack', count + 1)
    BY <1>1, <1>2, <1>5, <2>1, MirrorsPush
  <2> QED BY <1>3, <1>5, <2>2
<1>9. FrameUpTo(acts', Len(acts'), frame')
  BY <1>2, <1>3, <1>4
<1>10. (~disableGc' => Rooted(acts')) /\ Collected(gcActs')
  BY <1>2, <1>3 DEF Call, IInv
<1>11. ActsOk(acts')
  BY <1>2, <1>3
<1> QED BY <1>7, <1>8, <1>9, <1>10, <1>11 DEF IInv

(* eval_function: the empty frame, then the function's.                    *)
LEMMA EvalFunctionStep ==
  ASSUME IInv, NEW fn \in Def \cup Native, EvalFunction(fn) PROVE IInv'
<1>1. /\ TypeOK /\ acts \in Seq(Act) /\ ActsOk(acts) /\ frame \in Nat
      /\ FrameUpTo(acts, Len(acts), frame) /\ defInfo \in 0 .. MaxModules
      /\ Mirrors(acts, stack, count)
  BY DEF IInv, TypeOK
<1>2. CASE Full(2)
  <2>1. /\ stack' = IF Full(1) THEN Allocated ELSE [Allocated EXCEPT ![count + 1] = None]
        /\ UNCHANGED <<count, acts, frame, maxSize, defInfo, disableGc, due, modules, panicked, gcActs>>
    BY <1>2 DEF EvalFunction
  <2>2. /\ Allocated \in Seq(Function)
        /\ Len(Allocated) \in Nat /\ DOMAIN Allocated = 1 .. Len(Allocated)
        /\ count \in 0 .. Len(Allocated)
        /\ \A i \in 1 .. count : Allocated[i] = stack[i]
    BY <1>1, AllocatedType
  <2>3. /\ stack' \in Seq(Function) /\ Len(stack') = Len(Allocated)
        /\ \A i \in 1 .. count : stack'[i] = stack[i]
    <3>1. CASE Full(1)
      BY <2>1, <2>2, <3>1
    <3>2. CASE ~Full(1)
      <4> DEFINE al == Allocated
                 n == Len(Allocated)
      <4>1. stack' = [al EXCEPT ![count + 1] = None]
        BY <2>1, <3>2
      <4>2. None \in Function
        BY DEF Function
      <4>3. al \in [1 .. n -> Function]
        BY <2>2
      <4>4. \A i \in 1 .. count : i \in 1 .. n /\ i # count + 1
        BY <2>2
      <4> HIDE DEF al, n
      <4>5. stack' \in [1 .. n -> Function] /\ \A i \in 1 .. count : stack'[i] = al[i]
        BY <4>1, <4>2, <4>3, <4>4
      <4>6. stack' \in Seq(Function) /\ Len(stack') = n
        BY <2>2, <4>5 DEF n
      <4> QED BY <2>2, <4>5, <4>6 DEF al, n
    <3> QED BY <3>1, <3>2
  <2>4. TypeOK'
    BY <1>1, <2>1, <2>2, <2>3 DEF TypeOK
  <2> QED BY <2>1, <2>3, <2>4, QuietStep
<1>3. CASE ~Full(2)
  <2> DEFINE b == NewAct("function", None)
             a == NewAct(IF fn \in Def THEN "def" ELSE "native", fn)
             s == Append(acts, b)
             n == Len(acts)
  <2>1. Push(<<None, fn>>) /\ Invoke(fn, n + 2, <<b>>)
    BY <1>3 DEF EvalFunction, FunctionFrames
  <2>2. /\ b \in Act /\ b.kind = "function" /\ b.fn = None /\ b.oldFrame = frame
        /\ b.oldInfo \in 0 .. MaxModules
    <3>1. None \in Function
      BY DEF Function
    <3> QED BY <1>1, <3>1, NewActType
  <2>3. a = [kind |-> IF fn \in Def THEN "def" ELSE "native", fn |-> fn,
             oldFrame |-> frame, oldInfo |-> defInfo]
    BY DEF NewAct
  <2>4. acts' = acts \o <<b>> \o <<a>> /\ frame' = IF fn \in Def THEN n + 2 ELSE frame
    BY <2>1 DEF Invoke
  <2> HIDE DEF a, b
  <2>5. "function" \in Bases /\ "function" \in Pushed /\ "function" \notin Framed
    BY DEF Bases, Pushed, Framed
  <2>6. /\ s \in Seq(Act) /\ s # <<>> /\ Len(s) = n + 1 /\ n \in Nat
        /\ acts \o <<b>> = s /\ s \o <<a>> = Append(s, a)
    BY <1>1, <2>2
  <2>7. ActsOk(s) /\ FrameUpTo(s, Len(s), frame) /\ (Rooted(acts) => Rooted(s))
    <3>1. ActsOk(s)
      BY <1>1, <2>2, <2>5, ActsOkAppend
    <3>2. FrameUpTo(s, n + 1, frame)
      BY <1>1, <2>2, <2>5, FrameAppend
    <3>3. Rooted(acts) => Rooted(s)
      BY <1>1, <2>2, RootedAppend
    <3> QED BY <2>6, <3>1, <3>2, <3>3
  <2>8. /\ stack' \in Seq(Function) /\ count' \in 0 .. Len(stack')
        /\ count' = (count + 1) + 1 /\ stack'[count + 1] = None /\ stack'[(count + 1) + 1] = fn
        /\ \A i \in 1 .. count : stack'[i] = stack[i]
    <3>1. fn \in Function
      BY DEF Function
    <3> QED BY <1>1, <1>3, <2>1, <3>1, PushTwo
  <2>9. Mirrors(s, stack', count + 1)
    BY <1>1, <2>2, <2>5, <2>8, MirrorsPush
  <2> HIDE DEF s, n
  <2>10. /\ a \in Act /\ a.kind \in Pushed /\ a.fn = fn
         /\ ActsOk(Append(s, a))
         /\ FrameUpTo(Append(s, a), Len(s) + 1, IF fn \in Def THEN Len(s) + 1 ELSE frame)
         /\ Rooted(s) => Rooted(Append(s, a))
    BY <1>1, <2>3, <2>6, <2>7, InvokeStep
  <2>11. acts' = Append(s, a) /\ acts' \in Seq(Act) /\ Len(acts') = Len(s) + 1
    BY <2>4, <2>6, <2>10, AppendAct
  <2>12. frame' = (IF fn \in Def THEN Len(s) + 1 ELSE frame) /\ frame' \in Nat
    BY <1>1, <2>4, <2>6
  <2>13. TypeOK'
    BY <1>1, <2>8, <2>11, <2>12 DEF TypeOK, EvalFunction
  <2>14. Mirrors(acts', stack', count')
    BY <2>6, <2>8, <2>9, <2>10, <2>11, MirrorsPush
  <2>15. FrameUpTo(acts', Len(acts'), frame')
    BY <2>10, <2>11, <2>12
  <2>16. (~disableGc' => Rooted(acts')) /\ Collected(gcActs')
    BY <2>7, <2>10, <2>11 DEF EvalFunction, IInv
  <2> QED BY <2>10, <2>11, <2>13, <2>14, <2>15, <2>16 DEF IInv
<1> QED BY <1>2, <1>3

LEMMA ReturnStep ==
  ASSUME IInv, Return PROVE IInv'
<1>1. /\ TypeOK /\ acts \in Seq(Act) /\ ActsOk(acts) /\ frame \in Nat /\ acts # <<>>
      /\ FrameUpTo(acts, Len(acts), frame) /\ defInfo \in 0 .. MaxModules
      /\ Mirrors(acts, stack, count) /\ count \in 0 .. Len(stack) /\ Len(stack) \in Nat
  BY DEF IInv, TypeOK, Return
<1> DEFINE a == Last(acts)
           t == Front(acts)
<1>2. /\ a \in Act /\ t \in Seq(Act) /\ Len(acts) \in Nat /\ Len(acts) # 0 /\ a = acts[Len(acts)]
  BY <1>1, FrontLast
<1>3. a.oldInfo \in 0 .. MaxModules
  <2>1. Len(acts) \in 1 .. Len(acts)
    BY <1>2
  <2> HIDE DEF a
  <2> QED BY <1>1, <1>2, <2>1 DEF ActsOk, ActOk
<1>4. /\ acts' = t /\ count' = (IF a.kind \in Pushed THEN count - 1 ELSE count)
      /\ frame' = (IF a.kind \in Framed THEN a.oldFrame ELSE frame)
      /\ defInfo' = (IF a.kind = "module" THEN a.oldInfo ELSE defInfo)
  BY DEF Return, CountAfter, FrameAfter, Framed
<1>5. Mirrors(t, stack, count') /\ (a.kind \in Pushed => count # 0)
  BY <1>1, <1>4, MirrorsPop
<1>6. FrameUpTo(t, Len(t), frame')
  BY <1>1, <1>4, FrameFront
<1>7. ActsOk(t) /\ (Rooted(acts) => Rooted(t))
  BY <1>1, ActsOkFront, RootedFront
<1> HIDE DEF a, t
<1>8. frame' \in Nat /\ count' \in 0 .. Len(stack) /\ defInfo' \in 0 .. MaxModules
  <2>1. a.oldFrame \in Nat
    BY <1>2 DEF Act
  <2>2. count' \in 0 .. Len(stack)
    BY <1>1, <1>4, <1>5
  <2> QED BY <1>1, <1>3, <1>4, <2>1, <2>2
<1>9. TypeOK'
  BY <1>1, <1>2, <1>4, <1>8 DEF TypeOK, Return
<1>10. (~disableGc' => Rooted(acts')) /\ Collected(gcActs') /\ stack' = stack
  BY <1>4, <1>7 DEF Return, IInv
<1> QED BY <1>4, <1>5, <1>6, <1>7, <1>9, <1>10 DEF IInv

LEMMA NextIInv == IInv /\ [Next]_vars => IInv'
<1> SUFFICES ASSUME IInv, [Next]_vars PROVE IInv'
  OBVIOUS
<1>0. TypeOK
  BY DEF IInv
<1>1. CASE SetMaxCallstackSize
  <2>1. TypeOK'
    BY <1>0, <1>1, EvaluationAssumption DEF TypeOK, SetMaxCallstackSize
  <2> QED BY <1>1, <2>1, QuietStep DEF SetMaxCallstackSize
<1>2. CASE EvalModule
  <2>1. disableGc \in BOOLEAN /\ disableGc' = disableGc
    BY <1>0, <1>2 DEF TypeOK, EvalModule
  <2>2. acts = <<>> \/ (NativeEvals /\ Last(acts).kind = "native")
    BY <1>2 DEF EvalModule, Running
  <2> QED BY <1>2, <2>1, <2>2, StartModuleStep DEF EvalModule
<1>3. CASE TopLevelStmt
  BY <1>3, TopLevelStmtStep
<1>4. CASE Allocate
  <2>0. due' \in BOOLEAN
    BY <1>4, Zenon DEF Allocate
  <2>1. TypeOK'
    BY <1>0, <1>4, <2>0 DEF TypeOK, Allocate
  <2> QED BY <1>4, <2>1, QuietStep DEF Allocate
<1>5. CASE PossibleGc
  BY <1>5, PossibleGcStep
<1>6. ASSUME NEW fn \in Def \cup Native, EvalFunction(fn) PROVE IInv'
  BY <1>6, EvalFunctionStep
<1>7. ASSUME NEW fn \in Def \cup Native, Call(fn) PROVE IInv'
  BY <1>7, CallStep
<1>8. CASE EvalStatements
  <2>0. disableGc' \in BOOLEAN /\ disableGc' = TRUE
    BY <1>8, Zenon DEF EvalStatements, GcInEvalStatements
  <2>1. CASE StartModule
    BY <1>8, <2>0, <2>1, StartModuleStep DEF EvalStatements
  <2>2. CASE UNCHANGED <<stack, count, defInfo, acts, modules, panicked>>
    <3>1. TypeOK'
      BY <1>0, <1>8, <2>0, <2>2 DEF TypeOK, EvalStatements
    <3> QED BY <1>8, <2>0, <2>2, <3>1, QuietStep DEF EvalStatements
  <2> QED BY <1>8, <2>1, <2>2 DEF EvalStatements
<1>9. CASE DisableGc
  <2>0. disableGc' \in BOOLEAN /\ disableGc' = TRUE
    BY <1>9, Zenon DEF DisableGc
  <2>1. TypeOK'
    BY <1>0, <1>9, <2>0 DEF TypeOK, DisableGc
  <2> QED BY <1>9, <2>0, <2>1, QuietStep DEF DisableGc
<1>10. CASE Return
  BY <1>10, ReturnStep
<1>11. CASE UNCHANGED vars
  <2>1. TypeOK'
    BY <1>0, <1>11 DEF TypeOK, vars
  <2> QED BY <1>11, <2>1, QuietStep DEF vars
<1> QED BY <1>1, <1>2, <1>3, <1>4, <1>5, <1>6, <1>7, <1>8, <1>9, <1>10, <1>11 DEF Next, Stopped

-----------------------------------------------------------------------------
(* The call stack is the native stack's functions, slot by slot, and its   *)
(* first entry is never a function, however evaluations nest, fail and     *)
(* overflow the stack.                                                     *)
THEOREM StackPaired == Spec => []StackMirrorsNative
<1>1. IInv => StackMirrorsNative
  <2> SUFFICES ASSUME IInv PROVE StackMirrorsNative
    OBVIOUS
  <2>1. /\ TypeOK /\ acts \in Seq(Act) /\ ActsOk(acts) /\ count \in Nat
        /\ Mirrors(acts, stack, count)
    BY DEF IInv, TypeOK
  <2> DEFINE P == {i \in DOMAIN acts : acts[i].kind \in Pushed}
  <2>2. PushedActs = PushedOf(acts) /\ PushedOf(acts) = At(acts, P)
    BY DEF PushedActs, PushedOf
  <2>3. count > 0 => stack[1] = None
    <3> SUFFICES ASSUME count > 0 PROVE stack[1] = None
      OBVIOUS
    <3>0. Len(acts) \in Nat /\ DOMAIN acts = 1 .. Len(acts) /\ P \in SUBSET (1 .. Len(acts))
      BY <2>1
    <3>1. /\ Len(At(acts, P)) = Cardinality(P)
          /\ \A m \in 1 .. Cardinality(P) : Nth(P, m) \in P /\ At(acts, P)[m] = acts[Nth(P, m)]
          /\ \A j \in P : Rank(P, j) \in 1 .. Cardinality(P) /\ Nth(P, Rank(P, j)) = j
      BY <2>1, <3>0, AtProperties
    <3>2. Cardinality(P) = count /\ 1 \in 1 .. count
      BY <2>1, <2>2, <3>1 DEF Mirrors
    <3>3. Nth(P, 1) \in 1 .. Len(acts)
      BY <3>0, <3>1, <3>2
    <3>4. 1 \in 1 .. Len(acts)
      BY <3>0, <3>3
    <3>5. acts[1].kind \in Bases /\ acts[1].fn = None
      BY <2>1, <3>4 DEF ActsOk, ActOk
    <3>6. 1 \in P
      BY <3>0, <3>4, <3>5 DEF Bases, Pushed
    <3>7. {l \in P : l <= 1} = {1}
      BY <3>0, <3>6
    <3>8. Rank(P, 1) = 1
      BY <3>7, FS_Singleton DEF Rank
    <3> HIDE DEF P
    <3>9. Nth(P, 1) = 1
      BY <3>1, <3>6, <3>8
    <3> QED BY <2>1, <2>2, <3>1, <3>2, <3>5, <3>9 DEF Mirrors
  <2> QED BY <2>1, <2>2, <2>3 DEF StackMirrorsNative, Mirrors
<1> QED BY InitIInv, NextIInv, <1>1, PTL DEF Spec

(* current_frame is the innermost frame in progress, so that no alloca is  *)
(* used after it is gone.                                                  *)
THEOREM FrameLive == Spec => []FrameIsLive
<1>1. IInv => FrameIsLive
  <2> SUFFICES ASSUME IInv PROVE FrameIsLive
    OBVIOUS
  <2>1. acts \in Seq(Act) /\ Len(acts) \in Nat /\ FrameUpTo(acts, Len(acts), frame) /\ DOMAIN acts = 1 .. Len(acts)
    BY DEF IInv, TypeOK
  <2> DEFINE n == Len(acts)
             F == {0} \cup {i \in DOMAIN acts : acts[i].kind \in {"stmt", "def"}}
  <2>2. frame \in 0 .. n /\ (frame # 0 => acts[frame].kind \in Framed) /\ \A j \in frame + 1 .. n : acts[j].kind \notin Framed
    BY <2>1 DEF FrameUpTo
  <2> HIDE DEF n
  <2>3. frame \in F
    <3>1. frame # 0 => frame \in 1 .. n
      BY <2>1, <2>2 DEF n
    <3> QED BY <2>1, <2>2, <3>1 DEF Framed, n
  <2>4. \A i \in F : frame >= i
    <3> SUFFICES ASSUME NEW i \in 1 .. n, acts[i].kind \in Framed PROVE frame >= i
      BY <2>1, <2>2 DEF Framed, n
    <3>1. i \in frame + 1 .. n \/ frame >= i
      BY <2>1, <2>2 DEF n
    <3> QED BY <2>2, <3>1
  <2>5. \A i \in F : i \in Nat
    BY <2>1
  <2> HIDE DEF F
  <2>6. \A m \in F : (\A i \in F : m >= i) => m = frame
    BY <2>3, <2>4, <2>5
  <2>7. Max(F) = frame
    BY <2>3, <2>4, <2>6, Zenon DEF Max
  <2> QED BY <2>7 DEF FrameIsLive, F
<1> QED BY InitIInv, NextIInv, <1>1, PTL DEF Spec

(* What a collection finds in progress: a statement in its module, which    *)
(* was entered first or by a native function.                               *)
LEMMA CollectedTop ==
  ASSUME NEW s \in Seq(Act), Collected(s), s # <<>>
  PROVE  \/ Len(s) = 2
         \/ NativeEvals /\ \E i \in DOMAIN s : s[i].kind = "native"
<1> DEFINE n == Len(s)
<1>1. n \in Nat /\ n # 0 /\ DOMAIN s = 1 .. n /\ Last(s) = s[n]
  BY DEF Last
<1> HIDE DEF n
<1>2. n \in 1 .. n /\ s[n].kind = "stmt"
  BY <1>1 DEF Collected
<1>3. n # 1 /\ s[n - 1].kind = "module"
  BY <1>2 DEF Collected, Rooted, RootOk, n
<1>4. n - 1 \in 1 .. n
  BY <1>1, <1>3
<1>5. n - 1 = 1 \/ (NativeEvals /\ s[(n - 1) - 1].kind = "native")
  BY <1>3, <1>4 DEF Collected, Rooted, RootOk, n
<1>6. n - 1 = 1 => n = 2
  BY <1>1
<1>7. n - 1 # 1 => (n - 1) - 1 \in 1 .. n
  BY <1>1, <1>3
<1> QED BY <1>1, <1>5, <1>6, <1>7 DEF n

(* The debugger, which enters a module from any statement or def, never     *)
(* leads to a collection: one that starts outside of native functions finds *)
(* nothing in progress but the root module and its statement.               *)
THEOREM DebuggerHoldsOffGc == Spec => []NoGcInDebugger
<1>1. IInv => NoGcInDebugger
  <2> SUFFICES ASSUME IInv, \A i \in DOMAIN gcActs : gcActs[i].kind # "native"
               PROVE  Len(gcActs) <= 2
    BY DEF NoGcInDebugger
  <2>1. gcActs \in Seq(Act) /\ Collected(gcActs)
    BY DEF IInv, TypeOK
  <2>2. CASE gcActs = <<>>
    BY <2>2
  <2>3. CASE gcActs # <<>>
    <3>1. Len(gcActs) = 2
      BY <2>1, <2>3, CollectedTop
    <3> QED BY <3>1
  <2> QED BY <2>2, <2>3
<1> QED BY InitIInv, NextIInv, <1>1, PTL DEF Spec

(* In an application whose native functions do not evaluate modules, what   *)
(* the comment of possible_gc (eval/compiler/stmt.rs) says is true: a       *)
(* collection runs at the root of the module only, and not inside a native  *)
(* function.                                                                *)
THEOREM GcAtRoot ==
  ASSUME ~NativeEvals
  PROVE  Spec => []GcOnlyAtRoot
<1>1. IInv => GcOnlyAtRoot
  <2> SUFFICES ASSUME IInv PROVE Len(gcActs) <= 2
    BY DEF GcOnlyAtRoot
  <2>1. gcActs \in Seq(Act) /\ Collected(gcActs)
    BY DEF IInv, TypeOK
  <2>2. CASE gcActs = <<>>
    BY <2>2
  <2>3. CASE gcActs # <<>>
    <3>1. Len(gcActs) = 2
      BY <2>1, <2>3, CollectedTop
    <3> QED BY <3>1
  <2> QED BY <2>2, <2>3
<1> QED BY InitIInv, NextIInv, <1>1, PTL DEF Spec
=============================================================================
