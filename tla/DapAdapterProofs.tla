-------------------------- MODULE DapAdapterProofs --------------------------
(***************************************************************************)
(* The safety properties of the debug adapter, for every set of files and  *)
(* lines, every program and every sequence of requests.                    *)
(***************************************************************************)
EXTENDS DapAdapter, SeqFacts

(* NoReentrantStop and the properties about steps speak of one moment of a *)
(* hook call.  What carries them there is how the parts of the shared      *)
(* state depend on the point the call has reached.                         *)

\* The hooks are taken out of the evaluator exactly while one runs, so that
\* a statement run for an expression never enters a second one.
OneHook ==
    /\ Len(ctl) <= 1
    /\ hooks <=> ctl = <<>>
    /\ ctl # <<>> => ctl[1].depth = Len(prog.calls)

\* Breakpoints are disabled exactly while an expression runs, and the mutex
\* is held exactly while a condition runs; only a panic, which ends the
\* evaluation, leaves either behind.
InCondition  == ctl # <<>> /\ ctl[1].pc \in {"cond", "condEnd"}
InExpression == ctl # <<>> /\ ctl[1].pc \in {"expr", "exprEnd"}

DisabledInExpressions ==
    run # "ended" => disable = IF InCondition \/ InExpression THEN 1 ELSE 0
LockedInConditions ==
    /\ lock = "hook" <=> InCondition
    /\ lock = "poisoned" => run = "ended"

\* A closure in the channel, or one that evaluates an expression, has its
\* sender blocked: the channel never holds two.
SenderWaits ==
    /\ queue # <<>> => server = "waiting"
    /\ InExpression => server = "waiting" /\ queue = <<>>

\* The hook is called by a running evaluation only, and when that is over
\* nothing is left in the channel.
OverIsQuiet ==
    /\ run # "running" => ctl = <<>>
    /\ run = "ended" => queue = <<>>

\* The hook stops for the breakpoint it found, and for no other reason.
StopFollowsBreakpoint ==
    ctl # <<>> =>
        /\ ctl[1].pc \in {"cond", "condEnd"} => ctl[1].bp = "cond"
        /\ ctl[1].pc = "step" /\ ctl[1].bp = "always" => ctl[1].stop
        /\ ctl[1].pc = "step" /\ ctl[1].bp = "none" => ~ctl[1].stop

\* The step the hook has in mind is the one the client asked for, remembered by
\* the depth of the call it was asked in, and none is left over in a pause.
StepIsAsked ==
    /\ step.kind = asked.kind
    /\ asked.kind # "none" => step.size = Len(asked.calls)
    /\ ctl # <<>> /\ ctl[1].pc \in {"paused", "expr", "exprEnd"} =>
         step = NoStep /\ asked = Nothing

IInv ==
    /\ TypeOK
    /\ OneHook
    /\ DisabledInExpressions
    /\ LockedInConditions
    /\ SenderWaits
    /\ OverIsQuiet
    /\ StopFollowsBreakpoint
    /\ StepIsAsked

LEMMA InitIInv == Init => IInv
<1> SUFFICES ASSUME Init PROVE IInv
  OBVIOUS
<1>1. prog \in [loc : Loc, calls : Seq(Nat), stmts : 0 .. MaxStmts] /\ Len(prog.calls) \in Depth
  <2>1. <<0>> \in Seq(Nat) /\ Len(<<0>>) = 1 /\ prog.calls = <<0>>
    BY DEF Init
  <2>2. 1 \in Depth /\ 0 \in 0 .. MaxStmts
    BY DapAssumption DEF Depth
  <2> QED BY <2>1, <2>2 DEF Init
<1>2. bps \in [Loc -> Bp]
  BY DEF Init, Bp
<1>3. NoStep \in Step
  BY DEF Step
<1>4. /\ ctl \in Seq(Hook)
      /\ queue \in Seq(Request) /\ Len(queue) = 0
  BY DEF Init
<1>5. TypeOK
  <2>1. step \in Step /\ asked \in Asked
    BY <1>3 DEF Init, Asked, Nothing
  <2>2. disable \in 0 .. 1 /\ reqs \in 0 .. MaxReqs
    BY DapAssumption DEF Init
  <2>3. hooks \in BOOLEAN
    BY Zenon DEF Init
  <2>4. server \in ServerState /\ lock \in {"free", "hook", "poisoned"} /\ run \in RunState
    BY DEF Init, ServerState, RunState
  <2>5. Len(queue) <= 1
    BY <1>4
  <2> QED BY <1>1, <1>2, <1>4, <2>1, <2>2, <2>3, <2>4, <2>5, Zenon DEF TypeOK
<1> QED
  BY <1>5 DEF Init, IInv, OneHook, DisabledInExpressions, LockedInConditions, InCondition,
     InExpression, SenderWaits, OverIsQuiet, StopFollowsBreakpoint, StepIsAsked, NoStep, Nothing

LEMMA NextStmtIInv == IInv /\ NextStmt => IInv'
<1> SUFFICES ASSUME IInv, NextStmt PROVE IInv'
  OBVIOUS
<1>1. PICK l \in Loc, kept \in 1 .. Len(prog.calls), new \in 0 .. MaxDepth :
         /\ kept + new <= MaxDepth
         /\ prog' = [loc |-> l,
                     calls |-> SubSeq(prog.calls, 1, kept) \o [i \in 1 .. new |-> prog.stmts + 1],
                     stmts |-> prog.stmts + 1]
         /\ EnterHook(l, kept + new)
  BY DEF NextStmt
<1>2. /\ prog \in [loc : Loc, calls : Seq(Nat), stmts : 0 .. MaxStmts]
      /\ prog.calls \in Seq(Nat) /\ Len(prog.calls) \in Nat /\ prog.stmts \in Nat
      /\ kept \in Nat /\ kept > 0 /\ new \in Nat
  BY DapAssumption DEF IInv, TypeOK
<1> DEFINE h == NewHook(l, kept + new)
<1>3. h \in Hook /\ h.pc = "check" /\ h.depth = kept + new
  BY <1>2 DEF NewHook, Hook, HookPc, Bp
<1>4. prog'.calls \in Seq(Nat) /\ Len(prog'.calls) = kept + new
  <2> DEFINE old    == SubSeq(prog.calls, 1, kept)
             called == [i \in 1 .. new |-> prog.stmts + 1]
  <2>1. old \in Seq(Nat) /\ Len(old) = kept
    BY <1>2
  <2>2. called \in Seq(Nat) /\ Len(called) = new
    BY <1>2
  <2>3. prog'.calls = old \o called
    BY <1>1
  <2> HIDE DEF old, called
  <2>4. old \o called \in Seq(Nat) /\ Len(old \o called) = Len(old) + Len(called)
    BY <2>1, <2>2, ConcatProperties
  <2> QED BY <2>1, <2>2, <2>3, <2>4
<1>5. prog' \in [loc : Loc, calls : Seq(Nat), stmts : 0 .. MaxStmts] /\ Len(prog'.calls) \in Depth
  <2>1. prog.stmts + 1 \in 0 .. MaxStmts
    BY <1>2, DapAssumption DEF NextStmt
  <2>2. Len(prog'.calls) \in Depth
    BY <1>1, <1>2, <1>4, DapAssumption DEF Depth
  <2> QED BY <1>1, <1>4, <2>1, <2>2
<1>6. ctl' = <<h>> /\ ~hooks'
  BY <1>1 DEF NextStmt, EnterHook, HooksWhileCalled
<1>7. UNCHANGED <<run, step, disable, bps, lock, queue, server, reqs, asked>> /\ run = "running" /\ ctl = <<>>
  BY DEF NextStmt
<1> HIDE DEF h
<1>8. ctl' \in Seq(Hook) /\ ctl'[1] = h /\ Len(ctl') = 1 /\ ctl' # <<>>
  BY <1>3, <1>6
<1>9. hooks' \in BOOLEAN
  BY <1>1, Zenon DEF EnterHook, HooksWhileCalled
<1>10. TypeOK'
  BY <1>5, <1>7, <1>8, <1>9 DEF IInv, TypeOK
<1> QED
  BY <1>3, <1>4, <1>6, <1>7, <1>8, <1>10 DEF IInv, OneHook, DisabledInExpressions,
     LockedInConditions, InCondition, InExpression, SenderWaits, OverIsQuiet,
     StopFollowsBreakpoint, StepIsAsked

(* The only hook call in progress, and the call moved on to another point.  *)
LEMMA TopIsOnly ==
  ASSUME IInv, ctl # <<>>
  PROVE  /\ Len(ctl) = 1 /\ ctl = <<ctl[1]>> /\ Top = ctl[1]
         /\ ctl[1] \in Hook /\ ctl[1].depth = Len(prog.calls) /\ ctl[1].depth \in Depth
         /\ Front(ctl) = <<>>
         /\ ~hooks
         /\ run = "running"
<1>1. /\ ctl \in Seq(Hook) /\ Len(ctl) <= 1 /\ ctl[1].depth = Len(prog.calls)
      /\ ctl[1].depth \in Depth /\ ~hooks /\ run = "running"
  BY DEF IInv, TypeOK, OneHook, OverIsQuiet
<1> QED BY <1>1, OneElement DEF Top

LEMMA MovedOn ==
  ASSUME IInv, ctl # <<>>, NEW p \in HookPc
  PROVE  LET h == [ctl[1] EXCEPT !.pc = p]
         IN  /\ [ctl EXCEPT ![Len(ctl)].pc = p] = <<h>>
             /\ <<h>> \in Seq(Hook)
             /\ h.pc = p /\ h.bp = ctl[1].bp /\ h.stop = ctl[1].stop /\ h.depth = ctl[1].depth
<1> DEFINE h == [ctl[1] EXCEPT !.pc = p]
<1>1. /\ h \in Hook
      /\ h.pc = p /\ h.bp = ctl[1].bp /\ h.stop = ctl[1].stop /\ h.depth = ctl[1].depth
  BY TopIsOnly DEF Hook
<1>2. [ctl EXCEPT ![Len(ctl)].pc = p] = <<h>>
  BY TopIsOnly
<1> QED BY <1>1, <1>2

(* The hook returns, without a pause, with an error or after one.           *)
LEMMA LeaveIInv ==
  ASSUME IInv, NoStop \/ StopFails \/ Resume \/ AdapterGone
  PROVE  IInv'
<1>1. ctl # <<>> /\ ctl' = <<>> /\ hooks'
  BY TopIsOnly DEF NoStop, StopFails, Resume, AdapterGone, HookAt, LeaveHook, OnRecvError
<1>2. ctl[1].pc \in {"step", "paused"}
  BY TopIsOnly DEF NoStop, StopFails, Resume, AdapterGone, HookAt
<1>3. disable = 0 /\ disable' = 0 /\ lock = "free" /\ lock' = "free"
  BY <1>1, <1>2, TopIsOnly DEF IInv, TypeOK, DisabledInExpressions, LockedInConditions,
     InCondition, InExpression, NoStop, StopFails, Resume, AdapterGone
<1>4. /\ step' \in Step /\ asked' \in Asked
      /\ step'.kind = asked'.kind
      /\ asked'.kind # "none" => step'.size = Len(asked'.calls)
  <2>1. CASE NoStop \/ AdapterGone
    BY <2>1 DEF IInv, StepIsAsked, TypeOK, NoStop, AdapterGone
  <2>2. CASE StopFails
    BY <2>2 DEF StopFails, StepAfterStop, Step, NoStep, Nothing, Asked
  <2>3. CASE Resume
    <3>1. step = NoStep
      BY <2>3, TopIsOnly DEF IInv, StepIsAsked, Resume, HookAt
    <3>2. Top.depth \in Depth /\ Top.depth = Len(prog.calls) /\ prog.calls \in Seq(Nat)
      BY TopIsOnly, <1>1 DEF IInv, TypeOK
    <3>3. CASE Head(queue) \in StepKind
      <4>1. step' = [kind |-> Head(queue), size |-> Top.depth] /\
            asked' = [kind |-> Head(queue), calls |-> prog.calls]
        BY <2>3, <3>3 DEF Resume, StepAfter
      <4> QED BY <3>2, <3>3, <4>1 DEF Step, Asked
    <3>4. CASE Head(queue) \notin StepKind
      BY <2>3, <3>1, <3>4 DEF Resume, StepAfter, Step, NoStep, Nothing, Asked
    <3> QED BY <3>3, <3>4
  <2> QED BY <2>1, <2>2, <2>3
<1>5. /\ queue' \in Seq(Request) /\ Len(queue') <= 1
      /\ server' \in ServerState
      /\ queue' # <<>> => server' = "waiting"
      /\ run' \in {"running", "ended"} /\ (run' = "ended" => queue' = <<>>)
  <2>1. queue \in Seq(Request) /\ Len(queue) <= 1 /\ server \in ServerState
    BY DEF IInv, TypeOK
  <2>2. CASE NoStop \/ AdapterGone
    BY <2>2, <2>1, <1>1, TopIsOnly DEF IInv, SenderWaits, OverIsQuiet, NoStop, AdapterGone, TypeOK
  <2>3. CASE StopFails
    BY <2>3, <2>1 DEF StopFails
  <2>4. CASE Resume
    <3>1. queue' = <<>>
      BY <2>1, <2>4, OneElement DEF Resume
    <3> QED BY <2>4, <3>1, <1>1, TopIsOnly DEF Resume, Reply, ServerState, IInv, TypeOK
  <2> QED BY <2>2, <2>3, <2>4
<1>6. UNCHANGED <<prog, bps, reqs>>
  BY DEF NoStop, StopFails, Resume, AdapterGone
<1>7. TypeOK'
  <2>1. ctl' \in Seq(Hook) /\ run' \in RunState
    BY <1>1, <1>5 DEF RunState
  <2>2. hooks' \in BOOLEAN
    BY Zenon DEF NoStop, StopFails, Resume, AdapterGone, LeaveHook, OnRecvError
  <2> QED BY <1>1, <1>3, <1>4, <1>5, <1>6, <2>1, <2>2 DEF IInv, TypeOK
<1> QED
  BY <1>1, <1>3, <1>4, <1>5, <1>7 DEF IInv, OneHook, DisabledInExpressions, LockedInConditions,
     InCondition, InExpression, SenderWaits, OverIsQuiet, StopFollowsBreakpoint, StepIsAsked

(* The hook looks the statement up in the breakpoint table.                 *)
LEMMA CheckBreakpointIInv == IInv /\ CheckBreakpoint => IInv'
<1> SUFFICES ASSUME IInv, CheckBreakpoint PROVE IInv'
  OBVIOUS
<1>1. ctl # <<>> /\ Top = ctl[1] /\ ctl[1] \in Hook /\ ctl[1].pc = "check"
  BY TopIsOnly DEF CheckBreakpoint, HookAt
<1>2. disable = 0 /\ lock = "free"
  BY <1>1, TopIsOnly DEF IInv, TypeOK, DisabledInExpressions, LockedInConditions, InCondition,
     InExpression
<1> DEFINE bp == bps[ctl[1].loc]
<1>3. bp \in Bp
  BY <1>1 DEF IInv, TypeOK, Hook
<1> DEFINE h == IF bp = "cond" THEN [ctl[1] EXCEPT !.pc = "cond", !.bp = bp]
                ELSE [ctl[1] EXCEPT !.pc = "step", !.bp = bp, !.stop = (bp = "always")]
<1>4. ctl' = <<h>>
  <2>1. Len(ctl) = 1 /\ ctl = <<ctl[1]>>
    BY <1>1, TopIsOnly
  <2>2. CASE bp = "cond"
    <3>1. ctl' = [ctl EXCEPT ![1].pc = "cond", ![1].bp = bp]
      BY <1>1, <1>2, <2>1, <2>2 DEF CheckBreakpoint
    <3> QED BY <3>1, <2>1, <2>2
  <2>3. CASE bp # "cond"
    <3>1. ctl' = [ctl EXCEPT ![1].pc = "step", ![1].bp = bp, ![1].stop = (bp = "always")]
      BY <1>1, <1>2, <2>1, <2>3 DEF CheckBreakpoint
    <3> QED BY <3>1, <2>1, <2>3
  <2> QED BY <2>2, <2>3
<1>5. /\ h \in Hook /\ h.bp = bp /\ h.depth = ctl[1].depth
      /\ h.pc = IF bp = "cond" THEN "cond" ELSE "step"
      /\ bp # "cond" => (h.stop <=> bp = "always")
  BY <1>1, <1>3 DEF Hook, HookPc
<1>6. /\ disable' = IF bp = "cond" THEN 1 ELSE 0
      /\ lock' = IF bp = "cond" THEN "hook" ELSE "free"
      /\ UNCHANGED <<prog, run, hooks, step, bps, queue, server, reqs, asked>>
  BY <1>1, <1>2 DEF CheckBreakpoint
<1> HIDE DEF h
<1>7. ctl' \in Seq(Hook) /\ ctl'[1] = h /\ Len(ctl') = 1 /\ ctl' # <<>>
  BY <1>4, <1>5
<1>8. TypeOK'
  BY <1>6, <1>7 DEF IInv, TypeOK
<1> QED
  BY <1>1, <1>3, <1>5, <1>6, <1>7, <1>8, TopIsOnly DEF IInv, OneHook, DisabledInExpressions,
     LockedInConditions, InCondition, InExpression, SenderWaits, OverIsQuiet,
     StopFollowsBreakpoint, StepIsAsked

(* The expression of a condition or of a request runs its statement: no     *)
(* hook is installed, so it calls none.                                     *)
LEMMA NestedStmtIInv == IInv /\ NestedStmt => IInv'
<1> SUFFICES ASSUME IInv, NestedStmt PROVE IInv'
  OBVIOUS
<1>1. ctl # <<>> /\ Top = ctl[1] /\ ~hooks /\ ctl[1].pc \in {"cond", "expr"}
  BY TopIsOnly DEF NestedStmt
<1> DEFINE p == IF ctl[1].pc = "cond" THEN "condEnd" ELSE "exprEnd"
           h == [ctl[1] EXCEPT !.pc = p]
<1>2. p \in HookPc
  BY DEF HookPc
<1>3. ctl' = [ctl EXCEPT ![Len(ctl)].pc = p]
  BY <1>1 DEF NestedStmt
<1>4. /\ ctl' = <<h>> /\ ctl' \in Seq(Hook)
      /\ h.pc = p /\ h.bp = ctl[1].bp /\ h.stop = ctl[1].stop /\ h.depth = ctl[1].depth
  BY <1>1, <1>2, <1>3, MovedOn
<1>5. UNCHANGED <<prog, run, hooks, step, disable, bps, lock, queue, server, reqs, asked>>
  BY <1>1 DEF NestedStmt
<1> HIDE DEF h
<1>6. ctl'[1] = h /\ Len(ctl') = 1 /\ ctl' # <<>>
  BY <1>4
<1>7. TypeOK'
  BY <1>4, <1>5 DEF IInv, TypeOK
<1> QED
  BY <1>1, <1>4, <1>5, <1>6, <1>7, TopIsOnly DEF IInv, OneHook, DisabledInExpressions,
     LockedInConditions, InCondition, InExpression, SenderWaits, OverIsQuiet,
     StopFollowsBreakpoint, StepIsAsked

(* The condition has a value: the mutex is released, breakpoints enabled.   *)
LEMMA ConditionDoneIInv == IInv /\ ConditionDone => IInv'
<1> SUFFICES ASSUME IInv, ConditionDone PROVE IInv'
  OBVIOUS
<1>1. ctl # <<>> /\ Top = ctl[1] /\ ctl[1].pc \in {"cond", "condEnd"} /\ ctl[1] \in Hook /\ Len(ctl) = 1
      /\ ctl = <<ctl[1]>>
  BY TopIsOnly DEF ConditionDone, HookAt
<1>2. disable = 1
  BY <1>1, TopIsOnly DEF IInv, DisabledInExpressions, InCondition
<1>3. PICK b \in BOOLEAN : ctl' = [ctl EXCEPT ![1].pc = "step", ![1].stop = b]
  BY <1>1 DEF ConditionDone
<1> DEFINE h == [ctl[1] EXCEPT !.pc = "step", !.stop = b]
<1>4. ctl' = <<h>>
  BY <1>1, <1>3
<1>5. h \in Hook /\ h.pc = "step" /\ h.bp = "cond" /\ h.depth = ctl[1].depth
  BY <1>1 DEF Hook, HookPc, IInv, StopFollowsBreakpoint
<1>6. /\ disable' = 0 /\ lock' = "free"
      /\ UNCHANGED <<prog, run, hooks, step, bps, queue, server, reqs, asked>>
  BY <1>2 DEF ConditionDone, DisableAfter, LockAfterCheck
<1> HIDE DEF h
<1>7. ctl' \in Seq(Hook) /\ ctl'[1] = h /\ Len(ctl') = 1 /\ ctl' # <<>>
  BY <1>4, <1>5
<1>8. TypeOK'
  BY <1>6, <1>7 DEF IInv, TypeOK
<1> QED
  BY <1>1, <1>5, <1>6, <1>7, <1>8, TopIsOnly DEF IInv, OneHook, DisabledInExpressions,
     LockedInConditions, InCondition, InExpression, SenderWaits, OverIsQuiet,
     StopFollowsBreakpoint, StepIsAsked

(* The hook pauses, and what it does in a pause.                            *)
LEMMA PauseIInv ==
  ASSUME IInv, Stop \/ Evaluate \/ EvaluateDone
  PROVE  IInv'
<1> DEFINE p == IF Evaluate THEN "expr" ELSE "paused"
           h == [ctl[1] EXCEPT !.pc = p]
<1>1. ctl # <<>> /\ Top = ctl[1] /\ ctl[1].pc \in {"step", "paused", "expr", "exprEnd"}
  BY TopIsOnly DEF Stop, Evaluate, EvaluateDone, HookAt
<1>2. ctl' = [ctl EXCEPT ![Len(ctl)].pc = p]
  <2>1. CASE Evaluate
    BY <2>1 DEF Evaluate, Goto
  <2>2. CASE ~Evaluate
    BY <2>2 DEF Stop, EvaluateDone, Goto
  <2> QED BY <2>1, <2>2
<1>3. p \in HookPc
  BY DEF HookPc
<1> HIDE DEF p
<1>4. /\ ctl' = <<h>> /\ ctl' \in Seq(Hook)
      /\ h.pc = p /\ h.bp = ctl[1].bp /\ h.stop = ctl[1].stop /\ h.depth = ctl[1].depth
  BY <1>1, <1>2, <1>3, MovedOn
<1> HIDE DEF h
<1>5. ctl'[1] = h /\ Len(ctl') = 1 /\ ctl' # <<>>
  BY <1>4
<1>6. /\ UNCHANGED <<prog, run, hooks, bps, lock, reqs>>
      /\ lock = "free"
  BY <1>1, TopIsOnly DEF Stop, Evaluate, EvaluateDone, IInv, TypeOK, LockedInConditions, InCondition
<1>7. step' = NoStep /\ asked' = Nothing /\ NoStep \in Step /\ Nothing \in Asked
  <2>1. CASE Stop
    BY <2>1 DEF Stop, StepAfterStop, Step, Nothing, Asked
  <2>2. CASE Evaluate \/ EvaluateDone
    BY <2>2, TopIsOnly DEF Evaluate, EvaluateDone, HookAt, IInv, StepIsAsked, Step, Nothing, Asked
  <2> QED BY <2>1, <2>2
<1>8. disable' = IF p = "expr" THEN 1 ELSE 0
  <2>1. CASE Evaluate
    BY <2>1, <1>1, TopIsOnly DEF Evaluate, HookAt, IInv, DisabledInExpressions, InCondition,
       InExpression, p
  <2>2. CASE Stop /\ ~Evaluate
    BY <2>2, <1>1, TopIsOnly DEF Stop, HookAt, IInv, DisabledInExpressions, InCondition,
       InExpression, p
  <2>3. CASE EvaluateDone /\ ~Evaluate
    BY <2>3, <1>1, TopIsOnly DEF EvaluateDone, DisableAfter, HookAt, IInv,
       DisabledInExpressions, InCondition, InExpression, p
  <2> QED BY <2>1, <2>2, <2>3
<1>9. /\ queue' \in Seq(Request) /\ Len(queue') <= 1
      /\ server' \in ServerState
      /\ queue' # <<>> => server' = "waiting"
      /\ p = "expr" => server' = "waiting" /\ queue' = <<>>
  <2>1. queue \in Seq(Request) /\ Len(queue) <= 1 /\ server \in ServerState
    BY DEF IInv, TypeOK
  <2>2. CASE Evaluate
    <3>1. queue' = <<>>
      BY <2>1, <2>2, OneElement DEF Evaluate
    <3>2. server' = "waiting"
      BY <2>2 DEF Evaluate, IInv, SenderWaits
    <3> QED BY <3>1, <3>2 DEF ServerState
  <2>3. CASE Stop /\ ~Evaluate
    BY <2>1, <2>3 DEF Stop, IInv, SenderWaits, p
  <2>4. CASE EvaluateDone /\ ~Evaluate
    <3>1. queue' = <<>> /\ server' = "answered"
      BY <2>4, <1>1, TopIsOnly DEF EvaluateDone, HookAt, Reply, IInv, SenderWaits, InExpression
    <3>2. p # "expr"
      BY <2>4 DEF p
    <3> QED BY <3>1, <3>2 DEF ServerState
  <2> QED BY <2>2, <2>3, <2>4
<1>10. TypeOK'
  BY <1>4, <1>6, <1>7, <1>8, <1>9 DEF IInv, TypeOK
<1>11. p \in {"expr", "paused"}
  BY DEF p
<1> QED
  BY <1>1, <1>4, <1>5, <1>6, <1>7, <1>8, <1>9, <1>10, <1>11, TopIsOnly DEF IInv, OneHook,
     DisabledInExpressions, LockedInConditions, InCondition, InExpression, SenderWaits, OverIsQuiet,
     StopFollowsBreakpoint, StepIsAsked, NoStep, Nothing

(* A panic in an expression ends the evaluation, and poisons the mutex if   *)
(* the expression was a condition.                                          *)
LEMMA EvalPanicsIInv == IInv /\ EvalPanics => IInv'
<1> SUFFICES ASSUME IInv, EvalPanics PROVE IInv'
  OBVIOUS
<1>1. /\ ctl' = <<>> /\ hooks' /\ run' = "ended" /\ queue' = <<>>
      /\ lock' \in {"free", "poisoned"}
      /\ UNCHANGED <<prog, step, disable, bps, server, reqs, asked>>
  BY DEF EvalPanics, IInv, TypeOK
<1>2. TypeOK'
  <2>1. ctl' \in Seq(Hook) /\ queue' \in Seq(Request) /\ Len(queue') <= 1 /\ run' \in RunState
    BY <1>1 DEF RunState
  <2>2. hooks' \in BOOLEAN
    BY Zenon DEF EvalPanics
  <2> QED BY <1>1, <2>1, <2>2 DEF IInv, TypeOK
<1> QED
  BY <1>1, <1>2 DEF IInv, OneHook, DisabledInExpressions, LockedInConditions, InCondition,
     InExpression, SenderWaits, OverIsQuiet, StopFollowsBreakpoint, StepIsAsked

(* The server thread, and the steps of the evaluator that only touch the    *)
(* channel.                                                                 *)
LEMMA ServerIInv ==
  ASSUME IInv,
         \/ EvalEnds \/ Query \/ Send \/ SendPanics \/ ReceiveReply \/ ReplyLost
         \/ SetBreakpoints \/ SetBreakpointsLocked \/ SetBreakpointsPanics \/ Disconnect
         \/ Launch \/ ConfigurationDone \/ ConfigurationDoneAgain
  PROVE  IInv'
<1> DEFINE ServerOnly ==
             \/ SendPanics \/ ReceiveReply \/ ReplyLost \/ SetBreakpoints
             \/ SetBreakpointsLocked \/ SetBreakpointsPanics \/ Disconnect
             \/ ConfigurationDoneAgain
<1>1. UNCHANGED <<prog, ctl, hooks, step, disable, lock, asked>>
  BY DEF EvalEnds, Query, Send, SendPanics, ReceiveReply, ReplyLost, SetBreakpoints,
     SetBreakpointsLocked, SetBreakpointsPanics, Disconnect, Launch, ConfigurationDone,
     ConfigurationDoneAgain
<1>2. queue \in Seq(Request) /\ Len(queue) <= 1 /\ server \in ServerState
  BY DEF IInv, TypeOK
<1>3. bps' \in [Loc -> Bp]
  <2>1. CASE SetBreakpointsLocked
    BY <2>1 DEF SetBreakpointsLocked, Loc, IInv, TypeOK
  <2> QED BY <2>1 DEF EvalEnds, Query, Send, SendPanics, ReceiveReply, ReplyLost, SetBreakpoints,
             SetBreakpointsPanics, Disconnect, Launch, ConfigurationDone, ConfigurationDoneAgain,
             IInv, TypeOK
<1>4. reqs' \in 0 .. MaxReqs
  BY DapAssumption DEF EvalEnds, Query, Send, SendPanics, ReceiveReply, ReplyLost, SetBreakpoints,
     SetBreakpointsLocked, SetBreakpointsPanics, Disconnect, Launch, ConfigurationDone,
     ConfigurationDoneAgain, IInv, TypeOK
<1>5. /\ queue' \in Seq(Request) /\ Len(queue') <= 1
      /\ server' \in ServerState
      /\ queue' # <<>> => server' = "waiting"
      /\ InExpression => server' = "waiting" /\ queue' = <<>>
      /\ run' # "running" => ctl = <<>>
      /\ run' = "ended" => queue' = <<>>
      /\ run = "ended" => run' = "ended"
      /\ run' # "ended" => run # "ended"
      /\ run' \in RunState
  <2>1. run \in RunState /\ (run # "running" => ctl = <<>>) /\ (run = "ended" => queue = <<>>)
    BY DEF IInv, TypeOK, OverIsQuiet
  <2>2. /\ queue # <<>> => server = "waiting"
        /\ InExpression => server = "waiting" /\ queue = <<>> /\ ctl # <<>>
    BY DEF IInv, SenderWaits, InExpression
  <2>3. CASE EvalEnds
    BY <1>2, <2>2, <2>3 DEF EvalEnds, RunState
  <2>4. CASE Query
    <3>1. queue' = <<>> /\ queue # <<>> /\ server' = "answered" /\ run' = run
      BY <1>2, <2>4, OneElement DEF Query, Reply
    <3> QED BY <2>1, <2>2, <3>1 DEF ServerState
  <2>5. CASE Send
    <3>1. queue = <<>>
      BY <2>2, <2>5 DEF Send
    <3>2. PICK r \in Request : queue' = <<r>>
      BY <3>1, <2>5 DEF Send
    <3>3. queue' \in Seq(Request) /\ Len(queue') = 1
      BY <3>2
    <3>4. run # "ended" /\ run' = run /\ server' = "waiting" /\ server = "idle"
      BY <2>5 DEF Send
    <3> QED BY <2>1, <2>2, <3>3, <3>4 DEF ServerState
  <2>6. CASE ServerOnly
    <3>1. queue' = queue /\ run' = run /\ server' \in {"panicked", "idle", "locking", "dropped"}
      BY <2>6 DEF SendPanics, ReceiveReply, ReplyLost, SetBreakpoints, SetBreakpointsLocked,
         SetBreakpointsPanics, Disconnect, ConfigurationDoneAgain
    <3>2. queue = <<>> /\ ~InExpression
      BY <2>1, <2>2, <2>6 DEF SendPanics, ReceiveReply, ReplyLost, SetBreakpoints,
         SetBreakpointsLocked, SetBreakpointsPanics, Disconnect, ConfigurationDoneAgain
    <3> QED BY <1>2, <2>1, <3>1, <3>2 DEF ServerState
  <2>7. CASE Launch \/ ConfigurationDone
    <3>1. /\ queue' = queue /\ server' = server /\ server = "idle"
          /\ run \in {"none", "launched"} /\ run' \in {"launched", "running"}
      BY <2>7 DEF Launch, ConfigurationDone
    <3> QED BY <1>2, <2>1, <2>2, <3>1 DEF RunState
  <2> QED BY <2>3, <2>4, <2>5, <2>6, <2>7
<1>6. TypeOK'
  BY <1>1, <1>3, <1>4, <1>5 DEF IInv, TypeOK
<1> QED
  BY <1>1, <1>5, <1>6 DEF IInv, OneHook, DisabledInExpressions, LockedInConditions, InCondition,
     InExpression, SenderWaits, OverIsQuiet, StopFollowsBreakpoint, StepIsAsked

LEMMA NextIInv == IInv /\ [Next]_vars => IInv'
<1> SUFFICES ASSUME IInv, [Next]_vars PROVE IInv'
  OBVIOUS
<1>1. CASE UNCHANGED vars
  BY <1>1 DEF vars, IInv, TypeOK, OneHook, DisabledInExpressions, LockedInConditions, InCondition,
     InExpression, SenderWaits, OverIsQuiet, StopFollowsBreakpoint, StepIsAsked
<1>2. CASE Over
  BY <1>1, <1>2 DEF Over
<1>3. CASE EvalStep
  BY <1>3, NextStmtIInv, CheckBreakpointIInv, NestedStmtIInv, EvalPanicsIInv,
     ConditionDoneIInv, LeaveIInv, PauseIInv, ServerIInv DEF EvalStep
<1>4. CASE \/ ServerFinishes \/ Send \/ SendPanics \/ SetBreakpoints \/ Disconnect
           \/ Launch \/ ConfigurationDone \/ ConfigurationDoneAgain
  BY <1>4, ServerIInv DEF ServerFinishes
<1> QED BY <1>1, <1>2, <1>3, <1>4 DEF Next

-----------------------------------------------------------------------------
(* The evaluator never pauses in a statement that it runs for a condition  *)
(* or for an expression of the client (evaluate_expr,                      *)
(* implementation.rs), and the state has its types: in particular no path  *)
(* leaves disable_breakpoints above one or a second closure in the         *)
(* channel.                                                                *)
THEOREM PausesOnce == Spec => []NoReentrantStop
<1>1. IInv => NoReentrantStop
  BY DEF IInv, OneHook, NoReentrantStop
<1> QED BY InitIInv, NextIInv, <1>1, PTL DEF Spec

(* The steps after which the hook has returned.                            *)
LEMMA HookReturns ==
  ASSUME IInv, [Next]_vars, Len(ctl') < Len(ctl)
  PROVE  /\ ctl # <<>> /\ Top = ctl[1]
         /\ NoStop \/ StopFails \/ Resume \/ AdapterGone \/ EvalPanics
<1>1. ctl # <<>> /\ Len(ctl) = 1
  <2>1. ctl # <<>>
    <3> SUFFICES ASSUME ctl = <<>> PROVE FALSE
      OBVIOUS
    <3>1. ctl' \in Seq(Hook)
      BY NextIInv DEF IInv, TypeOK
    <3> QED BY <3>1
  <2> QED BY <2>1, TopIsOnly
<1>2. Top = ctl[1] /\ ctl \in Seq(Hook)
  BY <1>1, TopIsOnly DEF IInv, TypeOK
<1>3. ASSUME UNCHANGED ctl PROVE FALSE
  BY <1>1, <1>3
<1>4. ASSUME NEW p, ctl' = [ctl EXCEPT ![Len(ctl)] = p] PROVE FALSE
  <2>1. Len(ctl') = 1
    BY <1>1, <1>2, <1>4
  <2> QED BY <1>1, <2>1
<1>5. ~CheckBreakpoint /\ ~ConditionDone
  BY <1>4 DEF CheckBreakpoint, ConditionDone
<1>6. ~NestedStmt /\ ~Stop /\ ~Evaluate /\ ~EvaluateDone
  BY <1>1, <1>4, TopIsOnly DEF NestedStmt, Stop, Evaluate, EvaluateDone, Goto
<1>7. ~NextStmt
  BY <1>1 DEF NextStmt
<1> QED
  BY <1>1, <1>2, <1>3, <1>5, <1>6, <1>7 DEF Next, EvalStep, ServerFinishes, vars, Over, EvalEnds,
     Query, Send, SendPanics, ReceiveReply, ReplyLost, SetBreakpoints, SetBreakpointsLocked,
     SetBreakpointsPanics, Disconnect, Launch, ConfigurationDone, ConfigurationDoneAgain

(* No statement with a plain breakpoint is passed without a pause, whatever *)
(* was evaluated, failed, stepped or resumed before: `stop` in the hook     *)
(* (implementation.rs) follows the table, because disable_breakpoints is    *)
(* back at zero whenever a new statement is looked up.                      *)
THEOREM BreakpointsStop == Spec => PlainBreakpointStops
<1>1. ASSUME IInv, [Next]_vars
      PROVE  [Len(ctl') < Len(ctl) /\ Top.bp = "always" /\ run' # "ended" => Top.pc = "paused"]_vars
  <2> SUFFICES ASSUME Len(ctl') < Len(ctl), Top.bp = "always", run' # "ended"
               PROVE  Top.pc = "paused"
    OBVIOUS
  <2>1. ctl # <<>> /\ Top = ctl[1] /\ (NoStop \/ StopFails \/ Resume \/ AdapterGone \/ EvalPanics)
    BY <1>1, HookReturns
  <2>2. ~StopFails /\ ~EvalPanics
    BY DEF StopFails, EvalPanics
  <2>3. ~NoStop
    BY <1>1, <2>1 DEF NoStop, HookAt, ShallStop, IInv, StopFollowsBreakpoint
  <2> QED BY <2>1, <2>2, <2>3 DEF Resume, AdapterGone, HookAt
<1> QED BY InitIInv, NextIInv, <1>1, PTL DEF Spec, PlainBreakpointStops

(* What the depth of the call stack tells about the calls in progress.      *)
LEMMA PrefixLength ==
  ASSUME NEW s \in Seq(Nat), NEW t \in Seq(Nat)
  PROVE  /\ IsPrefix(s, t) => Len(s) <= Len(t)
         /\ IsStrictPrefix(s, t) => Len(s) < Len(t)
BY DEF IsPrefix, IsStrictPrefix

(* A step the client asked for is not overshot.  step_stop compares depths  *)
(* of the call stack; whatever was called and returned in between, that is  *)
(* enough for no statement of the call the step was asked in (Over), of a   *)
(* caller of it (Over and Out) or at all (Into) to be passed.               *)
THEOREM StepsStopInTime == Spec => StepNotOvershot
<1>1. ASSUME IInv, [Next]_vars
      PROVE  [HookAt("step") /\ ctl' = <<>> /\ run' # "ended" =>
                /\ asked.kind # "Into"
                /\ asked.kind = "Over" => ~IsPrefix(prog.calls, asked.calls)
                /\ asked.kind = "Out" => ~IsStrictPrefix(prog.calls, asked.calls)]_vars
  <2> SUFFICES ASSUME HookAt("step"), ctl' = <<>>, run' # "ended"
               PROVE  /\ asked.kind # "Into"
                      /\ asked.kind = "Over" => ~IsPrefix(prog.calls, asked.calls)
                      /\ asked.kind = "Out" => ~IsStrictPrefix(prog.calls, asked.calls)
    OBVIOUS
  <2>1. Len(ctl') < Len(ctl)
    BY <1>1, TopIsOnly DEF HookAt
  <2>2. ctl # <<>> /\ Top = ctl[1] /\ (NoStop \/ StopFails \/ Resume \/ AdapterGone \/ EvalPanics)
    BY <1>1, <2>1, HookReturns
  <2>3. NoStop
    BY <2>2 DEF StopFails, Resume, AdapterGone, EvalPanics, HookAt
  <2>4. ~StepStop(step, Len(prog.calls))
    BY <1>1, <2>2, <2>3, TopIsOnly DEF NoStop, ShallStop
  <2>5. /\ prog.calls \in Seq(Nat) /\ asked.calls \in Seq(Nat)
        /\ Len(prog.calls) \in Nat /\ Len(asked.calls) \in Nat
    BY <1>1 DEF IInv, TypeOK, Asked
  <2>6. step.kind = asked.kind /\ (asked.kind # "none" => step.size = Len(asked.calls))
    BY <1>1 DEF IInv, StepIsAsked
  <2> QED BY <2>4, <2>5, <2>6, PrefixLength DEF StepStop
<1> QED BY InitIInv, NextIInv, <1>1, PTL DEF Spec, StepNotOvershot

(* On a statement without a breakpoint the hook pauses for the step the     *)
(* client asked for and for none left over from an earlier pause; and while *)
(* the call the step was asked in is in progress, Over pauses in no         *)
(* function called from it and Out not at all.                              *)
THEOREM StepsStopNoEarlier == Spec => StepNotEarly
<1>1. ASSUME IInv, [Next]_vars
      PROVE  [HookAt("step") /\ ctl' # <<>> /\ Last(ctl').pc = "paused" /\ Top.bp = "none" =>
                \/ asked.kind = "Into"
                \/ asked.kind = "Over" /\ ~IsStrictPrefix(asked.calls, prog.calls)
                \/ asked.kind = "Out" /\ ~IsPrefix(asked.calls, prog.calls)]_vars
  <2> SUFFICES ASSUME HookAt("step"), ctl' # <<>>, Last(ctl').pc = "paused", Top.bp = "none"
               PROVE  \/ asked.kind = "Into"
                      \/ asked.kind = "Over" /\ ~IsStrictPrefix(asked.calls, prog.calls)
                      \/ asked.kind = "Out" /\ ~IsPrefix(asked.calls, prog.calls)
    OBVIOUS
  <2>1. ctl # <<>> /\ Top = ctl[1] /\ Top.pc = "step" /\ ~Top.stop /\ Front(ctl) = <<>>
    BY <1>1, TopIsOnly DEF HookAt, IInv, StopFollowsBreakpoint
  <2>2. ~UNCHANGED ctl
    BY <2>1 DEF Top
  <2>3. Stop \/ NoStop \/ StopFails
    BY <1>1, <2>1, <2>2 DEF Next, EvalStep, ServerFinishes, vars, Over, EvalEnds, Query, Send,
       SendPanics, ReceiveReply, ReplyLost, SetBreakpoints, SetBreakpointsLocked,
       SetBreakpointsPanics, Disconnect, Launch, ConfigurationDone, ConfigurationDoneAgain,
       NextStmt, CheckBreakpoint, NestedStmt, EvalPanics, ConditionDone, Resume, Evaluate,
       EvaluateDone, AdapterGone, HookAt
  <2>4. ShallStop
    BY <2>1, <2>3 DEF Stop, NoStop, StopFails, LeaveHook
  <2>5. StepStop(step, Len(prog.calls))
    BY <1>1, <2>1, <2>4, TopIsOnly DEF ShallStop
  <2>6. /\ prog.calls \in Seq(Nat) /\ asked.calls \in Seq(Nat)
        /\ Len(prog.calls) \in Nat /\ Len(asked.calls) \in Nat
    BY <1>1 DEF IInv, TypeOK, Asked
  <2>7. step.kind = asked.kind /\ (asked.kind # "none" => step.size = Len(asked.calls))
    BY <1>1 DEF IInv, StepIsAsked
  <2> QED BY <2>5, <2>6, <2>7, PrefixLength DEF StepStop
<1> QED BY InitIInv, NextIInv, <1>1, PTL DEF Spec, StepNotEarly

(* The mutex of the breakpoints is free in every pause and while the        *)
(* expression of a request runs, so the server thread, the only one that    *)
(* could resume the evaluator, is never blocked by it in set_breakpoints.   *)
THEOREM PauseHoldsNoLock ==
    Spec => [](HookAt("paused") \/ HookAt("expr") \/ HookAt("exprEnd") => lock = "free")
<1>1. IInv => (HookAt("paused") \/ HookAt("expr") \/ HookAt("exprEnd") => lock = "free")
  BY TopIsOnly DEF IInv, TypeOK, LockedInConditions, InCondition, HookAt
<1> QED BY InitIInv, NextIInv, <1>1, PTL DEF Spec
=============================================================================
