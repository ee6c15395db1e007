------------------------------ MODULE Bytecode ------------------------------
(***************************************************************************)
(* The compiler from statements to bytecode and the interpreter that runs  *)
(* it: jumps that are patched once their target is known, temporary slots  *)
(* taken and given back in stack order, locals that are read without a     *)
(* check because they are known to be assigned, and the loops, each of     *)
(* which keeps an iterator in a slot and a lock on what it iterates over   *)
(* until InstrContinue, InstrBreak or InstrIterStop releases it.           *)
(*                                                                         *)
(* A behaviour picks a function body from Programs, compiles it and runs   *)
(* it.  A call in the body returns any of CallValues or fails.  The module *)
(* ends with a reference: what the statements mean, by recursion over the  *)
(* syntax, against which a finished run is compared.                       *)
(*                                                                         *)
(* Slots 0..Locals-1 are local variables, the first Params of them the     *)
(* parameters, the ones of Captured shared with inner functions; temporary *)
(* slots follow.  Code addresses count instructions from 1.                *)
(***************************************************************************)
EXTENDS Naturals, Sequences, FiniteSets, SequencesExt

CONSTANTS
    Programs,       \* function bodies: [body |-> statements, typed |-> BOOLEAN]
    Locals, Params, Captured,
    CallValues,     \* what a call may return
    ListLen         \* elements of the list that the parameters refer to

VARIABLES
    prog, code,     \* the body and what it was compiled to
    pc, frame, idx, \* BcFrame: next instruction, slots, index of each loop
    heap,           \* lists: elements and number of iterators that lock it
    iters,          \* every iterator made: its list, and how often it was stopped
    calls,          \* what the calls returned so far
    status, result

vars == <<prog, code, pc, frame, idx, heap, iters, calls, status, result>>

Val(k, n) == [k |-> k, n |-> n]
True == Val("bool", 1)
False == Val("bool", 0)
None == Val("none", 0)
Unset == Val("unset", 0)
Failed == Val("failed", 0)

-----------------------------------------------------------------------------
(***************************************************************************)
(* BcWriter.  `da` is the set of definitely assigned locals, a loop is its *)
(* iterator slot, its variable, its first instruction and the addresses to *)
(* patch with its end.                                                     *)
(***************************************************************************)

NewWriter(typed) == [code |-> <<>>, stack |-> 0, maxStack |-> 0, da |-> (0..Params - 1) \ Captured,
                     loops |-> <<>>, maxDepth |-> 0, typed |-> typed]

Larger(a, b) == IF a >= b THEN a ELSE b

Ip(w) == Len(w.code) + 1
Emit(w, instr) == [w EXCEPT !.code = Append(@, instr)]
Patch(w, addrs) ==
    [w EXCEPT !.code = [a \in DOMAIN w.code |->
        IF a \in addrs THEN [w.code[a] EXCEPT !.to = Ip(w)] ELSE w.code[a]]]

Temp(w) == Locals + w.stack
StackAdd(w, n) == [w EXCEPT !.stack = @ + n, !.maxStack = Larger(@, w.stack + n)]
StackSub(w, n) == [w EXCEPT !.stack = @ - n]

WriteMov(w, from, out) ==
    IF from = out THEN w ELSE Emit(w, [op |-> "Mov", in |-> from, out |-> out])

WriteLoadLocal(w, x, out) ==
    IF x \in Captured THEN Emit(w, [op |-> "LoadLocalCaptured", x |-> x, out |-> out])
    ELSE IF x \in w.da THEN WriteMov(w, x, out)
    ELSE Emit(w, [op |-> "LoadLocal", x |-> x, out |-> out])

WriteStore(w, from, x) ==
    IF x \in Captured THEN Emit(w, [op |-> "StoreLocalCaptured", in |-> from, out |-> x])
    ELSE WriteMov(w, from, x)

WriteContinue(w) ==
    LET l == Last(w.loops)
        d == Len(w.loops)
    IN  [Emit(w, [op |-> "Continue", iter |-> l.iter, depth |-> d - 1, out |-> l.var,
                  begin |-> l.inner, to |-> 0])
           EXCEPT !.loops[d].ends = @ \union {Ip(w)}]

WriteBreak(w) ==
    [Emit(w, [op |-> "Break", iter |-> Last(w.loops).iter, to |-> 0])
       EXCEPT !.loops[Len(w.loops)].ends = @ \union {Ip(w)}]

WriteIterStopInner(w) ==
    IF w.loops = <<>> THEN w ELSE Emit(w, [op |-> "IterStop", iter |-> Last(w.loops).iter])
WriteIterStop(w) ==
    FoldLeft(LAMBDA acc, l : Emit(acc, [op |-> "IterStop", iter |-> l.iter]),
             w, Reverse(w.loops))

-----------------------------------------------------------------------------
(***************************************************************************)
(* mark_definitely_assigned_after: the locals that have a value once the   *)
(* expression or the statement has been executed.                          *)
(***************************************************************************)
RECURSIVE AssignedAfterExpr(_)
AssignedAfterExpr(e) ==
    CASE e.e \in {"const", "call"} -> {}
      [] e.e = "local" -> {e.x} \ Captured
      [] e.e \in {"not", "and", "or"} -> AssignedAfterExpr(e.a)
      [] e.e = "add" -> AssignedAfterExpr(e.a) \union AssignedAfterExpr(e.b)
      [] e.e = "if" -> AssignedAfterExpr(e.c)
      [] e.e = "compr" -> AssignedAfterExpr(Head(e.clauses).over)

AssignedAfterStmtThen(s) ==
    CASE s.s = "expr" -> AssignedAfterExpr(s.a)
      [] s.s \in {"assign", "addassign"} -> AssignedAfterExpr(s.a) \union ({s.x} \ Captured)
      [] s.s = "if" -> AssignedAfterExpr(s.c) \union
                         {s.t[i].x : i \in {j \in DOMAIN s.t : s.t[j].s = "assign"}}
      [] s.s = "for" -> AssignedAfterExpr(s.over)
      [] s.s \in {"break", "continue", "return"} -> {}
AssignedAfterStmt(s) ==
    CASE s.s = "expr" -> AssignedAfterExpr(s.a)
      [] s.s \in {"assign", "addassign"} -> AssignedAfterExpr(s.a) \union ({s.x} \ Captured)
      [] s.s = "if" -> AssignedAfterExpr(s.c)
      [] s.s = "for" -> AssignedAfterExpr(s.over)
      [] s.s \in {"break", "continue", "return"} -> {}

-----------------------------------------------------------------------------
(***************************************************************************)
(* write_bc.  A closure handed to the writer is a block: the statements of *)
(* a body, an expression with its target, a move, `continue`, or the rest  *)
(* of a comprehension.                                                     *)
(***************************************************************************)
Stmts(ss) == [b |-> "stmts", ss |-> ss]
ExprTo(e, out) == [b |-> "expr", a |-> e, out |-> out]
MovTo(from, out) == [b |-> "mov", in |-> from, out |-> out]
ContinueBlock == [b |-> "continue"]
Clauses(ifs, rest, elem, list) ==
    [b |-> "clauses", ifs |-> ifs, rest |-> rest, elem |-> elem, list |-> list]
Nothing == [b |-> "nothing"]

RECURSIVE WriteBlock(_, _)

(* write_bc_cb: the slot an expression is read from, a local itself or a   *)
(* temporary of n = 1 that the caller gives back.                          *)
WriteBcCb(w, e) ==
    IF e.e = "local" /\ e.x \in w.da
    THEN [w |-> w, slot |-> e.x, n |-> 0]
    ELSE [w |-> WriteBlock(StackAdd(w, 1), ExprTo(e, Temp(w))), slot |-> Temp(w), n |-> 1]

(* BcWriter::write_if_else_impl, used by `and` and `or`.                   *)
WriteIfElseSlot(w, slot, then, else) ==
    LET w1 == WriteBlock(Emit(w, [op |-> "IfNotBr", in |-> slot, to |-> 0]), then)
        w2 == [Patch(Emit(w1, [op |-> "Br", to |-> 0]), {Ip(w)}) EXCEPT !.da = w.da]
        w3 == Patch(WriteBlock(w2, else), {Ip(w1)})
    IN  [w3 EXCEPT !.da = w.da]

(* write_cond: t and f collect the addresses that jump to the then and to  *)
(* the else block.                                                         *)
RECURSIVE WriteCond(_, _, _, _, _)
WriteCond(w, c, negated, t, f) ==
    CASE c.e = "not" -> WriteCond(w, c.a, ~negated, t, f)
      [] c.e \in {"and", "or"} ->
           IF (c.e = "and") = ~negated
           THEN LET r == WriteCond(w, c.a, negated, {}, f)
                IN  WriteCond(Patch(r.w, r.t), c.b, negated, t, r.f)
           ELSE LET r == WriteCond(w, c.a, ~negated, {}, t)
                IN  WriteCond(Patch(r.w, r.t), c.b, negated, r.f, f)
      [] OTHER ->
           LET r == WriteBcCb(w, c)
           IN  [w |-> StackSub(Emit(r.w, [op |-> IF negated THEN "IfBr" ELSE "IfNotBr",
                                          in |-> r.slot, to |-> 0]), r.n),
                t |-> t, f |-> f \union {Ip(r.w)}]

(* if_compiler::write_if_else_impl, for statements, conditional            *)
(* expressions and the conditions of comprehensions.                       *)
WriteBranches(r, then, else) ==
    LET w1 == WriteBlock(Patch(r.w, r.t), then)
        w2 == [Patch(Emit(w1, [op |-> "Br", to |-> 0]), r.f) EXCEPT !.da = r.w.da]
        w3 == IF else = Nothing THEN Patch(w1, r.f)
              ELSE Patch(WriteBlock(w2, else), {Ip(w1)})
    IN  [w3 EXCEPT !.da = r.w.da]

WriteIfElse(w, c, negated, then, else) ==
    WriteBranches(WriteCond(w, c, negated, {}, {}), then, else)

(* write_for: the loop variable is written by the loop instructions when   *)
(* it is a plain local, and through a temporary when it is captured.       *)
WriteLoop(w, over, var, x, body) ==
    LET d == Len(w.loops)
        w1 == Emit(StackAdd(w, 1), [op |-> "Iter", in |-> over, depth |-> d, iter |-> Temp(w),
                                    out |-> var, to |-> 0])
        w2 == [w1 EXCEPT !.loops = Append(@, [iter |-> Temp(w), var |-> var,
                                              inner |-> Ip(w1), ends |-> {Ip(w)}]),
                         !.maxDepth = Larger(@, d + 1)]
        w3 == IF x \in Captured THEN WriteStore(w2, var, x)
                                ELSE [w2 EXCEPT !.da = @ \union {x}]
        w4 == WriteContinue(WriteBlock(w3, body))
        w5 == [Patch(w4, Last(w4.loops).ends) EXCEPT !.loops = Front(@), !.da = w.da]
    IN  StackSub(w5, 1)

WriteFor(w, x, over, body) ==
    LET r == WriteBcCb(w, over)
        w1 == IF x \in Captured
              THEN StackSub(WriteLoop(StackAdd(r.w, 1), r.slot, Temp(r.w), x, body), 1)
              ELSE WriteLoop(r.w, r.slot, x, x, body)
    IN  [StackSub(w1, r.n) EXCEPT !.da = w.da]

WriteExpr(w, e, out) ==
    CASE e.e = "const" -> Emit(w, [op |-> "Const", v |-> e.v, out |-> out])
      [] e.e = "call" -> Emit(w, [op |-> "Call", out |-> out])
      [] e.e = "local" -> WriteLoadLocal(w, e.x, out)
      [] e.e = "not" ->
           LET r == WriteBcCb(w, e.a)
           IN  StackSub(Emit(r.w, [op |-> "Not", in |-> r.slot, out |-> out]), r.n)
      [] e.e = "add" ->
           LET r == WriteBcCb(w, e.a)
               q == WriteBcCb(r.w, e.b)
           IN  StackSub(Emit(q.w, [op |-> "Add", in |-> r.slot, in2 |-> q.slot, out |-> out]),
                        r.n + q.n)
      [] e.e \in {"and", "or"} ->
           LET r == WriteBcCb(w, e.a)
               right == ExprTo(e.b, out)
               left == MovTo(r.slot, out)
           IN  StackSub(IF e.e = "and" THEN WriteIfElseSlot(r.w, r.slot, right, left)
                        ELSE WriteIfElseSlot(r.w, r.slot, left, right), r.n)
      [] e.e = "if" -> WriteIfElse(w, e.c, FALSE, ExprTo(e.t, out), ExprTo(e.f, out))
      [] e.e = "compr" ->
           LET w1 == Emit(StackAdd(w, 1), [op |-> "ListNew", out |-> Temp(w)])
               c == Head(e.clauses)
               w2 == WriteFor(w1, c.x, c.over, Clauses(c.ifs, Tail(e.clauses), e.elem, Temp(w)))
           IN  StackSub(WriteMov(w2, Temp(w), out), 1)

WriteReturn(w, e) ==
    LET w1 == WriteIterStop(w)
        r == WriteBcCb(w1, e)
    IN  IF w.typed
        THEN StackSub(Emit(r.w, [op |-> "ReturnCheckType", in |-> r.slot]), r.n)
        ELSE IF e.e = "const" THEN Emit(w1, [op |-> "ReturnConst", v |-> e.v])
        ELSE StackSub(Emit(r.w, [op |-> "Return", in |-> r.slot]), r.n)

(* AssignModifyLhs::Local and LocalCaptured.                               *)
WriteAddAssign(w, s) ==
    LET w1 == WriteLoadLocal(StackAdd(w, 2), s.x, Temp(w))
        w2 == Emit(WriteBlock(w1, ExprTo(s.a, Temp(w) + 1)),
                   [op |-> "AddAssign", in |-> Temp(w), in2 |-> Temp(w) + 1, out |-> Temp(w) + 1])
    IN  StackSub(WriteStore(w2, Temp(w) + 1, s.x), 2)

WriteStmtInner(w, s) ==
    CASE s.s = "expr" -> LET r == WriteBcCb(w, s.a) IN StackSub(r.w, r.n)
      [] s.s = "assign" ->
           IF s.x \in Captured
           THEN LET r == WriteBcCb(w, s.a) IN StackSub(WriteStore(r.w, r.slot, s.x), r.n)
           ELSE WriteBlock(w, ExprTo(s.a, s.x))
      [] s.s = "addassign" -> WriteAddAssign(w, s)
      [] s.s = "if" ->
           LET onlyElse == s.t = <<>> /\ s.f # <<>>
           IN  WriteIfElse(w, s.c, onlyElse, Stmts(IF onlyElse THEN s.f ELSE s.t),
                           IF s.t = <<>> \/ s.f = <<>> THEN Nothing ELSE Stmts(s.f))
      [] s.s = "for" -> WriteFor(w, s.x, s.over, Stmts(s.body))
      [] s.s = "break" -> WriteBreak(w)
      [] s.s = "continue" -> WriteContinue(w)
      [] s.s = "return" -> WriteReturn(w, s.a)

WriteStmt(w, s) ==
    LET w1 == WriteStmtInner(w, s)
    IN  [w1 EXCEPT !.da = @ \union AssignedAfterStmt(s)]

WriteBlock(w, blk) ==
    CASE blk.b = "stmts" -> FoldLeft(WriteStmt, w, blk.ss)
      [] blk.b = "expr" -> WriteExpr(w, blk.a, blk.out)
      [] blk.b = "mov" -> WriteMov(w, blk.in, blk.out)
      [] blk.b = "continue" -> WriteContinue(w)
      [] blk.b = "clauses" ->
           LET w1 == FoldLeft(LAMBDA acc, c : WriteIfElse(acc, c, TRUE, ContinueBlock, Nothing),
                              w, blk.ifs)
           IN  IF blk.rest = <<>>
               THEN LET r == WriteBcCb(w1, blk.elem)
                    IN  StackSub(Emit(r.w, [op |-> "ComprListAppend", in |-> blk.list,
                                            in2 |-> r.slot]), r.n)
               ELSE LET c == Head(blk.rest)
                    IN  WriteFor(w1, c.x, c.over,
                                 Clauses(c.ifs, Tail(blk.rest), blk.elem, blk.list))

(* as_bc: a body that does not end in `return` returns None.               *)
ReturnAtEnd(w, p) ==
    LET w1 == Emit(StackAdd(w, 1), [op |-> "Const", v |-> None, out |-> Temp(w)])
    IN  IF p.body # <<>> /\ Last(p.body).s = "return" THEN w
        ELSE IF p.typed
        THEN StackSub(Emit(w1, [op |-> "ReturnCheckType", in |-> Temp(w)]), 1)
        ELSE Emit(w, [op |-> "ReturnConst", v |-> None])

AsBc(p) == ReturnAtEnd(WriteBlock(NewWriter(p.typed), Stmts(p.body)), p)

-----------------------------------------------------------------------------
(***************************************************************************)
(* The interpreter.  An instruction that fails ends the function there and *)
(* then: run_block returns the error.                                      *)
(***************************************************************************)
Instr == code[pc]

Truth(v) == \/ v.k = "bool" /\ v.n = 1
            \/ v.k = "list" /\ heap[v.n].elems # <<>>

Go(to) == pc' = to /\ UNCHANGED <<prog, code, status, result>>

Fail ==
    /\ status' = "error"
    /\ UNCHANGED <<prog, code, pc, frame, idx, heap, iters, result>>

Set(out, v) == frame' = [frame EXCEPT ![out] = v]

Running(ops) == status = "run" /\ Instr.op \in ops

Const ==
    /\ Running({"Const"})
    /\ Set(Instr.out, Instr.v)
    /\ Go(pc + 1)
    /\ UNCHANGED <<idx, heap, iters, calls>>

Mov ==
    /\ Running({"Mov", "StoreLocalCaptured"})
    /\ Set(Instr.out, frame[Instr.in])
    /\ Go(pc + 1)
    /\ UNCHANGED <<idx, heap, iters, calls>>

(* "Local variable referenced before assignment" when there is none.       *)
LoadLocal ==
    /\ Running({"LoadLocal", "LoadLocalCaptured"})
    /\ \/ /\ frame[Instr.x] = Unset
          /\ Fail
       \/ /\ frame[Instr.x] # Unset
          /\ Set(Instr.out, frame[Instr.x])
          /\ Go(pc + 1)
          /\ UNCHANGED <<idx, heap, iters>>
    /\ UNCHANGED calls

Call(v) ==
    /\ Running({"Call"})
    /\ calls' = Append(calls, v)
    /\ \/ v = Failed /\ Fail
       \/ /\ v # Failed
          /\ Set(Instr.out, v)
          /\ Go(pc + 1)
          /\ UNCHANGED <<idx, heap, iters>>

Not ==
    /\ Running({"Not"})
    /\ Set(Instr.out, IF Truth(frame[Instr.in]) THEN False ELSE True)
    /\ Go(pc + 1)
    /\ UNCHANGED <<idx, heap, iters, calls>>

NewList(elems) == Append(heap, [elems |-> elems, locks |-> 0])

ListNew ==
    /\ Running({"ListNew"})
    /\ heap' = NewList(<<>>)
    /\ Set(Instr.out, Val("list", Len(heap) + 1))
    /\ Go(pc + 1)
    /\ UNCHANGED <<idx, iters, calls>>

(* List::add makes a new list; no other value here can be added.           *)
Add ==
    LET a == frame[Instr.in]
        b == frame[Instr.in2]
    IN  /\ Running({"Add"})
        /\ \/ /\ a.k = "list" /\ b.k = "list"
              /\ heap' = NewList(heap[a.n].elems \o heap[b.n].elems)
              /\ Set(Instr.out, Val("list", Len(heap) + 1))
              /\ Go(pc + 1)
              /\ UNCHANGED <<idx, iters>>
           \/ ~(a.k = "list" /\ b.k = "list") /\ Fail
        /\ UNCHANGED calls

(* add_assign: a list is extended in place unless an iterator locks it.    *)
(* Added to itself it is doubled, without iterating over what grows.       *)
CanExtendLocked(a, b) == a.k = "list" /\ b.k = "list"
CanExtend(a, b) == a.k = "list" /\ b.k = "list" /\ heap[a.n].locks = 0

AddAssign ==
    LET a == frame[Instr.in]
        b == frame[Instr.in2]
    IN  /\ Running({"AddAssign"})
        /\ \/ /\ CanExtend(a, b)
              /\ heap' = [heap EXCEPT ![a.n].elems = @ \o heap[b.n].elems]
              /\ Set(Instr.out, a)
              /\ Go(pc + 1)
              /\ UNCHANGED <<idx, iters>>
           \/ ~CanExtend(a, b) /\ Fail
        /\ UNCHANGED calls

ComprListAppend ==
    /\ Running({"ComprListAppend"})
    /\ heap' = [heap EXCEPT ![frame[Instr.in].n].elems = Append(@, frame[Instr.in2])]
    /\ Go(pc + 1)
    /\ UNCHANGED <<frame, idx, iters, calls>>

Branch ==
    /\ Running({"Br", "IfBr", "IfNotBr"})
    /\ Go(IF \/ Instr.op = "Br"
             \/ Instr.op = "IfBr" /\ Truth(frame[Instr.in])
             \/ Instr.op = "IfNotBr" /\ ~Truth(frame[Instr.in])
          THEN Instr.to ELSE pc + 1)
    /\ UNCHANGED <<frame, idx, heap, iters, calls>>

(* iterate locks the list; a list with nothing to yield is released again  *)
(* by the same instruction.                                                *)
Iter ==
    LET over == frame[Instr.in]
    IN  /\ Running({"Iter"})
        /\ \/ over.k # "list" /\ Fail
           \/ /\ over.k = "list"
              /\ heap[over.n].elems = <<>>
              /\ iters' = Append(iters, [list |-> over.n, stops |-> 1])
              /\ Go(Instr.to)
              /\ UNCHANGED <<frame, idx, heap>>
           \/ /\ over.k = "list"
              /\ heap[over.n].elems # <<>>
              /\ iters' = Append(iters, [list |-> over.n, stops |-> 0])
              /\ heap' = [heap EXCEPT ![over.n].locks = @ + 1]
              /\ frame' = [frame EXCEPT ![Instr.iter] = Val("iter", Len(iters) + 1),
                                        ![Instr.out] = Head(heap[over.n].elems)]
              /\ idx' = [idx EXCEPT ![Instr.depth] = 1]
              /\ Go(pc + 1)
        /\ UNCHANGED calls

(* iter_stop on the iterator in a slot.                                    *)
IterStopOn(slot) ==
    LET k == frame[slot].n
    IN  /\ iters' = [iters EXCEPT ![k].stops = @ + 1]
        /\ heap' = [heap EXCEPT ![iters[k].list].locks = @ - 1]

ContinueSameIndex ==
    LET elems == heap[iters[frame[Instr.iter].n].list].elems
        i == idx[Instr.depth]
    IN  /\ Running({"Continue"})
        /\ \/ /\ i < Len(elems)
              /\ Set(Instr.out, elems[i + 1])
              /\ Go(Instr.begin)
              /\ UNCHANGED <<idx, heap, iters>>
           \/ /\ i >= Len(elems)
              /\ IterStopOn(Instr.iter)
              /\ Go(Instr.to)
              /\ UNCHANGED <<frame, idx>>
        /\ UNCHANGED calls
Continue ==
    LET elems == heap[iters[frame[Instr.iter].n].list].elems
        i == idx[Instr.depth]
    IN  /\ Running({"Continue"})
        /\ \/ /\ i < Len(elems)
              /\ idx' = [idx EXCEPT ![Instr.depth] = i + 1]
              /\ Set(Instr.out, elems[i + 1])
              /\ Go(Instr.begin)
              /\ UNCHANGED <<heap, iters>>
           \/ /\ i >= Len(elems)
              /\ IterStopOn(Instr.iter)
              /\ Go(Instr.to)
              /\ UNCHANGED <<frame, idx>>
        /\ UNCHANGED calls

Break ==
    /\ Running({"Break"})
    /\ IterStopOn(Instr.iter)
    /\ Go(Instr.to)
    /\ UNCHANGED <<frame, idx, calls>>

IterStop ==
    /\ Running({"IterStop"})
    /\ IterStopOn(Instr.iter)
    /\ Go(pc + 1)
    /\ UNCHANGED <<frame, idx, calls>>

ReturnWith(v) ==
    /\ status' = "return"
    /\ result' = v
    /\ UNCHANGED <<prog, code, pc, frame, idx, heap, iters>>

Return ==
    /\ Running({"Return", "ReturnConst"})
    /\ ReturnWith(IF Instr.op = "Return" THEN frame[Instr.in] ELSE Instr.v)
    /\ UNCHANGED calls

(* The check of the return type passes or fails.                           *)
ReturnCheckType(ok) ==
    /\ Running({"ReturnCheckType"})
    /\ calls' = Append(calls, IF ok THEN True ELSE Failed)
    /\ \/ ok /\ ReturnWith(frame[Instr.in])
       \/ ~ok /\ Fail

Done == status # "run" /\ UNCHANGED vars

FirstList == [elems |-> [i \in 1..ListLen |-> IF i % 2 = 1 THEN True ELSE False], locks |-> 0]

Init ==
    /\ prog \in Programs
    /\ \E w \in {AsBc(prog)} :
           /\ code = w.code
           /\ frame = [i \in 0..Locals + w.maxStack - 1 |->
                         IF i < Params THEN Val("list", 1) ELSE Unset]
           /\ idx = [d \in 0..w.maxDepth - 1 |-> 0]
    /\ pc = 1
    /\ heap = <<FirstList>>
    /\ iters = <<>>
    /\ calls = <<>>
    /\ status = "run"
    /\ result = Unset

Next ==
    \/ Const \/ Mov \/ LoadLocal \/ Not \/ ListNew \/ Add \/ AddAssign \/ ComprListAppend
    \/ \E v \in CallValues \union {Failed} : Call(v)
    \/ Branch \/ Iter \/ Continue \/ Break \/ IterStop \/ Return
    \/ \E ok \in BOOLEAN : ReturnCheckType(ok)
    \/ Done

Spec == Init /\ [][Next]_vars /\ WF_vars(Next)

-----------------------------------------------------------------------------
(***************************************************************************)
(* Reference: the meaning of a body, by recursion over its syntax, given   *)
(* what its calls return.  `held` is the lists being iterated over; out is *)
(* "next" until a statement leaves the sequence it is in.                  *)
(***************************************************************************)
Error(st) == [st EXCEPT !.out = "error"]

NextCall(st) ==
    IF st.calls = <<>> THEN [st EXCEPT !.out = "stuck"]
    ELSE IF Head(st.calls) = Failed THEN Error([st EXCEPT !.calls = Tail(@)])
    ELSE [st EXCEPT !.val = Head(st.calls), !.calls = Tail(@)]

IsTrue(st) == \/ st.val.k = "bool" /\ st.val.n = 1
              \/ st.val.k = "list" /\ st.lists[st.val.n] # <<>>

(* What is to be done: an expression, the rest of a loop over a list, and, *)
(* as for the writer, statements or the rest of a comprehension.           *)
Value(e) == [b |-> "value", a |-> e]
Rest(list, i, x, body) == [b |-> "rest", list |-> list, i |-> i, x |-> x, body |-> body]

RECURSIVE Do(_, _)
Eval(st, e) == Do(st, Value(e))
Exec(st, ss) == Do(st, Stmts(ss))

(* A loop over the value just computed.                                    *)
Over(st, x, body) ==
    IF st.out # "next" THEN st
    ELSE IF st.val.k # "list" THEN Error(st)
    ELSE Do([st EXCEPT !.held = Append(@, st.val.n)], Rest(st.val.n, 1, x, body))

(* The conditions of a clause, then the next clause or the element.        *)
Condition(st, c) ==
    LET r == Eval(st, c)
    IN  IF st.out # "next" THEN st
        ELSE IF r.out = "next" /\ ~IsTrue(r) THEN [r EXCEPT !.out = "continue"] ELSE r

Collect(st, rest, elem, list) ==
    IF st.out # "next" THEN st
    ELSE IF rest = <<>>
    THEN LET r == Eval(st, elem)
         IN  IF r.out # "next" THEN r
             ELSE [r EXCEPT !.lists[list] = Append(@, r.val)]
    ELSE Over(Eval(st, Head(rest).over), Head(rest).x,
              Clauses(Head(rest).ifs, Tail(rest), elem, list))

(* The loop goes on after a body that ended with st.                       *)
GoOn(st, t) ==
    CASE st.out \in {"next", "continue"} ->
           Do([st EXCEPT !.out = "next"], [t EXCEPT !.i = @ + 1])
      [] st.out = "break" -> [st EXCEPT !.out = "next", !.held = Front(@)]
      [] OTHER -> st

EvalOne(st, e) ==
    CASE e.e = "const" -> [st EXCEPT !.val = e.v]
      [] e.e = "local" -> IF st.env[e.x] = Unset THEN Error(st)
                          ELSE [st EXCEPT !.val = st.env[e.x]]
      [] e.e = "call" -> NextCall(st)
      [] e.e = "not" -> LET r == Eval(st, e.a)
                        IN  IF r.out # "next" THEN r
                            ELSE [r EXCEPT !.val = IF IsTrue(r) THEN False ELSE True]
      [] e.e \in {"and", "or"} ->
           LET r == Eval(st, e.a)
           IN  IF r.out # "next" \/ IsTrue(r) = (e.e = "or") THEN r ELSE Eval(r, e.b)
      [] e.e = "if" -> LET r == Eval(st, e.c)
                       IN  IF r.out # "next" THEN r
                           ELSE Eval(r, IF IsTrue(r) THEN e.t ELSE e.f)
      [] e.e = "add" ->
           LET r == Eval(st, e.a)
               q == Eval(r, e.b)
           IN  IF r.out # "next" THEN r
               ELSE IF q.out # "next" THEN q
               ELSE IF r.val.k # "list" \/ q.val.k # "list" THEN Error(q)
               ELSE [q EXCEPT !.lists = Append(@, q.lists[r.val.n] \o q.lists[q.val.n]),
                              !.val = Val("list", Len(q.lists) + 1)]
      [] e.e = "compr" ->
           LET new == Len(st.lists) + 1
               r == Do([st EXCEPT !.lists = Append(@, <<>>)],
                       Clauses(<<>>, e.clauses, e.elem, new))
           IN  IF r.out # "next" THEN r ELSE [r EXCEPT !.val = Val("list", new)]

(* One statement.  `return` leaves every loop before its value is          *)
(* computed.                                                               *)
ExecOne(st, s) ==
    CASE s.s = "expr" -> Eval(st, s.a)
      [] s.s = "assign" -> LET r == Eval(st, s.a)
                           IN  IF r.out # "next" THEN r ELSE [r EXCEPT !.env[s.x] = r.val]
      [] s.s = "addassign" ->
           LET old == st.env[s.x]
               r == Eval(st, s.a)
           IN  IF old = Unset THEN Error(st)
               ELSE IF r.out # "next" THEN r
               ELSE IF \/ old.k # "list" \/ r.val.k # "list"
                       \/ \E i \in DOMAIN r.held : r.held[i] = old.n
               THEN Error(r)
               ELSE [r EXCEPT !.lists[old.n] = @ \o r.lists[r.val.n], !.env[s.x] = old]
      [] s.s = "if" -> LET r == Eval(st, s.c)
                       IN  IF r.out # "next" THEN r
                           ELSE Exec(r, IF IsTrue(r) THEN s.t ELSE s.f)
      [] s.s = "for" -> Over(Eval(st, s.over), s.x, Stmts(s.body))
      [] s.s \in {"break", "continue"} -> [st EXCEPT !.out = s.s]
      [] s.s = "return" -> LET r == Eval([st EXCEPT !.held = <<>>], s.a)
                           IN  IF r.out # "next" THEN r ELSE [r EXCEPT !.out = "return"]

Do(st, t) ==
    CASE t.b = "value" -> EvalOne(st, t.a)
      [] t.b = "stmts" -> IF t.ss = <<>> \/ st.out # "next" THEN st
                          ELSE Exec(ExecOne(st, Head(t.ss)), Tail(t.ss))
      [] t.b = "clauses" -> Collect(FoldLeft(Condition, st, t.ifs), t.rest, t.elem, t.list)
      [] t.b = "rest" ->
           IF t.i > Len(st.lists[t.list]) THEN [st EXCEPT !.held = Front(@)]
           ELSE GoOn(Do([st EXCEPT !.env[t.x] = st.lists[t.list][t.i]], t.body), t)

Meaning(p, answers) ==
    LET start == [env |-> [i \in 0..Locals - 1 |-> IF i < Params THEN Val("list", 1) ELSE Unset],
                  lists |-> <<FirstList.elems>>, held |-> <<>>, calls |-> answers,
                  out |-> "next", val |-> None]
        r == Exec(start, p.body)
        end == IF r.out = "next" THEN [r EXCEPT !.out = "return", !.val = None] ELSE r
        checked == NextCall(end)
    IN  IF end.out = "return" /\ p.typed
        THEN [checked EXCEPT !.val = end.val] ELSE end

-----------------------------------------------------------------------------
(***************************************************************************)
(* Properties.                                                             *)
(***************************************************************************)

(* What the compiled body does is what its statements mean: it ends the    *)
(* same way, after the same calls, with the same result, the same locals   *)
(* and the same lists, and leaves the same lists locked.                   *)
MatchesSource ==
    status # "run" =>
        LET r == Meaning(prog, calls)
        IN  /\ r.out = status
            /\ r.calls = <<>>
            /\ status = "return" => result = r.val
            /\ \A i \in 0..Locals - 1 : frame[i] = r.env[i]
            /\ [l \in DOMAIN heap |-> heap[l].elems] = r.lists
            /\ \A l \in DOMAIN heap : heap[l].locks = Cardinality({i \in DOMAIN r.held : r.held[i] = l})

(* The slots an instruction reads.                                         *)
Operands(i) == {i[f] : f \in DOMAIN i \intersect {"in", "in2"}}

(* get_bc_slot reads a slot without any check (frame.rs:218): every slot   *)
(* the next instruction reads is in the frame, has been written and holds  *)
(* a value, a local read without a check included; and the slot of a loop  *)
(* holds its iterator, which has not been stopped.                         *)
SlotsReadAreSet ==
    status = "run" =>
        /\ pc \in DOMAIN code
        /\ \A s \in Operands(Instr) : s \in DOMAIN frame /\ frame[s].k \in {"bool", "none", "list"}
        /\ "out" \in DOMAIN Instr => Instr.out \in DOMAIN frame
        /\ "depth" \in DOMAIN Instr => Instr.depth \in DOMAIN idx
        /\ Instr.op \in {"Continue", "Break", "IterStop"} =>
              /\ frame[Instr.iter].k = "iter"
              /\ iters[frame[Instr.iter].n].stops = 0

(* A lock is held exactly while an iterator over the list is not stopped,  *)
(* no iterator is stopped twice, and none is left when the body returns    *)
(* (traits.rs:524: "iter_stop is called exactly once").                    *)
IteratorsBalanced ==
    /\ \A k \in DOMAIN iters : iters[k].stops <= 1
    /\ \A l \in DOMAIN heap :
          heap[l].locks = Cardinality({k \in DOMAIN iters : iters[k].list = l /\ iters[k].stops = 0})
    /\ status = "return" => \A k \in DOMAIN iters : iters[k].stops = 1

(* Every body ends: a list cannot grow while it is iterated over.          *)
Terminates == <>(status # "run")

(* "Starlark-rust guarantees that [...] `iter_stop` is called exactly      *)
(* once" (traits.rs:524-527), also when the body fails.                    *)
IterStopExactlyOnce ==
    status # "run" => \A k \in DOMAIN iters : iters[k].stops = 1
=============================================================================
