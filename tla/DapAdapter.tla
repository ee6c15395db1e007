----------------------------- MODULE DapAdapter -----------------------------
(***************************************************************************)
(* The debug adapter of debug/adapter/implementation.rs: the evaluator     *)
(* thread, which calls `DapAdapterEvalHookImpl::call` before every         *)
(* statement, and the server thread, which owns the `DapAdapterImpl` and   *)
(* handles one client request at a time (starlark_bin/bin/dap).  The       *)
(* server thread starts the evaluator thread, when the client is done      *)
(* configuring.                                                            *)
(*                                                                         *)
(* They share the breakpoint table behind a mutex and a channel of         *)
(* closures; every request carries a reply channel of its own on which the *)
(* server blocks.  `hooks` is the list `eval_instrumentation.before_stmt`, *)
(* which `before_stmt` takes out of the evaluator while it calls it.       *)
(*                                                                         *)
(* The debugged program is any sequence of statements between which        *)
(* functions return and are called; the expression of a condition or of an *)
(* `evaluate` request runs one statement, which may be one of the          *)
(* program's (a function it calls).                                        *)
(***************************************************************************)
EXTENDS Naturals, Sequences, SequencesExt

CONSTANTS File,      \* source files
          Line,      \* statements of one file
          MaxDepth,  \* size of the call stack
          MaxStmts,  \* bound: statements the debugged program executes
          MaxReqs    \* bound: requests the client sends

ASSUME DapAssumption ==
    /\ MaxDepth \in Nat \ {0}
    /\ MaxStmts \in Nat
    /\ MaxReqs \in Nat

VARIABLES
    prog,     \* the debugged program: its statement, the calls in progress
              \* (the call stack, a call named by when it began), steps done
    run,      \* the evaluation; once it has ended, the evaluator, the hook and
              \* the Receiver are dropped
    ctl,      \* hook calls in progress, innermost last
    hooks,    \* the hook is in eval.before_stmt (not taken)
    step,     \* DapAdapterEvalHookImpl.step
    disable,  \* SharedAdapterState.disable_breakpoints
    bps,      \* SharedAdapterState.breakpoints
    lock,     \* the mutex of breakpoints
    queue,    \* the channel of ToEvalMessage
    server,   \* the server thread
    reqs,     \* requests sent so far
    asked     \* history variable: the step the client last resumed with, and the
              \* calls in progress then

vars == <<prog, run, ctl, hooks, step, disable, bps, lock, queue, server, reqs, asked>>

Loc   == File \X Line
Depth == 1 .. MaxDepth

\* No breakpoint, a plain one, one with a condition.
Bp       == {"none", "always", "cond"}
StepKind == {"Into", "Over", "Out"}
NoStep   == [kind |-> "none", size |-> 0]
Step     == [kind : StepKind, size : Depth] \cup {NoStep}

\* What the client asked for: no step, or a step in the function called last.
Nothing == [kind |-> "none", calls |-> <<>>]
Asked   == [kind : StepKind \cup {"none"}, calls : Seq(Nat)]

\* top_frame, stack_trace, scopes and variables are "query": they read the
\* evaluator and leave it paused.
Request == {"query", "evaluate", "Continue"} \cup StepKind

\* A call of the hook: where, what `breakpoints.at` holds for the statement,
\* how far it got, and the local `stop`.
HookPc == {"check", "cond", "condEnd", "step", "paused", "expr", "exprEnd"}
Hook   == [loc : Loc, depth : Nat, bp : Bp, pc : HookPc, stop : BOOLEAN]

\* Nothing to run, a program named by launch, the evaluator thread runs, is over.
RunState == {"none", "launched", "running", "ended"}
Started  == run \in {"running", "ended"}

ServerState == {"idle", "locking", "waiting", "answered", "panicked", "dropped"}

TypeOK ==
    /\ prog \in [loc : Loc, calls : Seq(Nat), stmts : 0 .. MaxStmts]
    /\ Len(prog.calls) \in Depth
    /\ run \in RunState
    /\ ctl \in Seq(Hook)
    /\ hooks \in BOOLEAN
    /\ step \in Step
    /\ disable \in 0 .. 1
    /\ bps \in [Loc -> Bp]
    /\ lock \in {"free", "hook", "poisoned"}
    /\ queue \in Seq(Request)
    /\ Len(queue) <= 1
    /\ server \in ServerState
    /\ reqs \in 0 .. MaxReqs
    /\ asked \in Asked

Init ==
    /\ prog \in [loc : Loc, calls : {<<0>>}, stmts : {0}]
    /\ run = "none"
    /\ ctl = <<>>
    /\ hooks = TRUE
    /\ step = NoStep
    /\ disable = 0
    /\ bps = [l \in Loc |-> "none"]
    /\ lock = "free"
    /\ queue = <<>>
    /\ server = "idle"
    /\ reqs = 0
    /\ asked = Nothing

-----------------------------------------------------------------------------
(***************************************************************************)
(* The evaluator thread.                                                   *)
(***************************************************************************)

Top == Last(ctl)

HookAt(pc) == ctl # <<>> /\ Top.pc = pc

Goto(pc) == ctl' = [ctl EXCEPT ![Len(ctl)].pc = pc]

NewHook(l, d) == [loc |-> l, depth |-> d, bp |-> "none", pc |-> "check", stop |-> FALSE]

\* What evaluator.rs `before_stmt` leaves in the evaluator while hooks run.
HooksNotTaken    == TRUE
HooksWhileCalled == FALSE

\* before_stmt on the way in: take the hooks, call the first one.
EnterHook(l, d) ==
    /\ ctl' = Append(ctl, NewHook(l, d))
    /\ hooks' = HooksWhileCalled

\* before_stmt on the way out: put the hooks back.
LeaveHook ==
    /\ ctl' = Front(ctl)
    /\ hooks' = TRUE

\* The program reaches its next statement: all but `kept` calls in progress have
\* returned, and `new` functions have been called (natives, which run no
\* statement, and then the one the statement is in).
NextStmt ==
    /\ run = "running" /\ ctl = <<>>
    /\ prog.stmts < MaxStmts
    /\ \E l \in Loc, kept \in 1 .. Len(prog.calls), new \in 0 .. MaxDepth :
         /\ kept + new <= MaxDepth
         /\ prog' = [loc |-> l,
                     calls |-> SubSeq(prog.calls, 1, kept) \o [i \in 1 .. new |-> prog.stmts + 1],
                     stmts |-> prog.stmts + 1]
         /\ EnterHook(l, kept + new)
    /\ UNCHANGED <<run, step, disable, bps, lock, queue, server, reqs, asked>>

\* The evaluation returns, by its last statement or an error, or the program did
\* not parse: the evaluator is dropped with its hook and Receiver, and the queued
\* closures with it.
EvalEnds ==
    /\ run = "running" /\ ctl = <<>>
    /\ run' = "ended"
    /\ queue' = <<>>
    /\ UNCHANGED <<prog, ctl, hooks, step, disable, bps, lock, server, reqs, asked>>

\* The guard of `breaks` outlives the condition only inside the else block.
LockUntilReturn == "hook"
LockAfterCheck  == "free"

\* First half of the hook up to evaluate_expr of the condition: the lock is
\* taken unless breakpoints are disabled, and held over the evaluation.
CheckBreakpoint ==
    /\ HookAt("check")
    /\ disable > 0 \/ lock = "free"
    /\ LET bp  == bps[Top.loc]
           hit == IF disable > 0 THEN "none" ELSE bp
       IN  IF hit = "cond"
             THEN /\ lock' = "hook"
                  /\ disable' = disable + 1
                  /\ ctl' = [ctl EXCEPT ![Len(ctl)].pc = "cond", ![Len(ctl)].bp = bp]
             ELSE /\ ctl' = [ctl EXCEPT ![Len(ctl)].pc = "step",
                                        ![Len(ctl)].bp = bp,
                                        ![Len(ctl)].stop = (hit = "always")]
                  /\ UNCHANGED <<disable, lock>>
    /\ UNCHANGED <<prog, run, hooks, step, bps, queue, server, reqs, asked>>

\* eval_statements of a condition or of an expression runs its statement, one
\* eval_module frame or more above the program.  before_stmt calls a hook only
\* if one is installed.
NestedStmt ==
    /\ ctl # <<>> /\ Top.pc \in {"cond", "expr"}
    /\ Top.depth < MaxDepth
    /\ LET after == [ctl EXCEPT ![Len(ctl)].pc = IF Top.pc = "cond" THEN "condEnd" ELSE "exprEnd"]
       IN  IF hooks
             THEN /\ \E l \in Loc : ctl' = Append(after, NewHook(l, Top.depth + 1))
                  /\ hooks' = HooksWhileCalled
             ELSE ctl' = after /\ UNCHANGED hooks
    /\ UNCHANGED <<prog, run, step, disable, bps, lock, queue, server, reqs, asked>>

\* On a full call stack eval_module's push().unwrap() panics: the evaluator
\* thread is over, and a mutex it holds is poisoned.
EvalPanics ==
    /\ ctl # <<>> /\ Top.pc \in {"cond", "expr"}
    /\ Top.depth = MaxDepth
    /\ ctl' = <<>>
    /\ hooks' = TRUE
    /\ run' = "ended"
    /\ queue' = <<>>
    /\ lock' = IF lock = "hook" THEN "poisoned" ELSE lock
    /\ UNCHANGED <<prog, step, disable, bps, server, reqs, asked>>

\* disable_breakpoints after evaluate_expr; `failed`: parse or evaluation error.
DisableKeptOnError(failed) == IF failed THEN disable ELSE disable - 1
DisableAfter(failed) == disable - 1

\* The condition has a value, or does not parse; an error counts as true.
ConditionDone ==
    /\ \E failed, value \in BOOLEAN :
         /\ HookAt("condEnd") \/ (HookAt("cond") /\ failed)
         /\ disable' = DisableAfter(failed)
         /\ ctl' = [ctl EXCEPT ![Len(ctl)].pc = "step", ![Len(ctl)].stop = failed \/ value]
    /\ lock' = LockAfterCheck
    /\ UNCHANGED <<prog, run, hooks, step, bps, queue, server, reqs, asked>>

StepStopOverBelow(s, count) ==
    \/ s.kind = "Into"
    \/ s.kind = "Over" /\ count < s.size
    \/ s.kind = "Out" /\ count < s.size

\* step_stop.
StepStop(s, count) ==
    \/ s.kind = "Into"
    \/ s.kind = "Over" /\ count <= s.size
    \/ s.kind = "Out" /\ count < s.size

ShallStop == Top.stop \/ StepStop(step, Top.depth)

\* Neither a breakpoint nor a step stops here: the statement runs.
NoStop ==
    /\ HookAt("step")
    /\ ~ShallStop
    /\ LeaveHook
    /\ UNCHANGED <<prog, run, step, disable, bps, lock, queue, server, reqs, asked>>

\* self.step once the hook stops.
StepKept      == step
StepAfterStop == NoStep

\* client.event_stopped() succeeded.
Stop ==
    /\ HookAt("step")
    /\ ShallStop
    /\ step' = StepAfterStop
    /\ asked' = Nothing
    /\ Goto("paused")
    /\ UNCHANGED <<prog, run, hooks, disable, bps, lock, queue, server, reqs>>

\* client.event_stopped() failed: the error leaves through the hook and the
\* evaluation, which ends.
StopFails ==
    /\ HookAt("step")
    /\ ShallStop
    /\ step' = StepAfterStop
    /\ asked' = Nothing
    /\ LeaveHook
    /\ run' = "ended"
    /\ queue' = <<>>
    /\ UNCHANGED <<prog, disable, bps, lock, server, reqs>>

NoReply == UNCHANGED server

\* A closure of inject() that sent its result.
Reply == server' = "answered"

\* What handling Continue or Step(kind) assigns to self.step.
StepAfter(req) == IF req \in StepKind THEN [kind |-> req, size |-> Top.depth] ELSE step

\* Next::Continue and Next::Step leave the loop and the hook.
Resume ==
    /\ HookAt("paused")
    /\ queue # <<>> /\ Head(queue) \in {"Continue"} \cup StepKind
    /\ queue' = Tail(queue)
    /\ step' = StepAfter(Head(queue))
    /\ asked' = IF Head(queue) \in StepKind
                  THEN [kind |-> Head(queue), calls |-> prog.calls] ELSE Nothing
    /\ Reply
    /\ LeaveHook
    /\ UNCHANGED <<prog, run, disable, bps, lock, reqs>>

\* Next::RemainPaused, without evaluating an expression.
Query ==
    /\ HookAt("paused")
    /\ queue # <<>> /\ Head(queue) = "query"
    /\ queue' = Tail(queue)
    /\ Reply
    /\ UNCHANGED <<prog, run, ctl, hooks, step, disable, bps, lock, reqs, asked>>

\* evaluate, or inspect_variable of an expression: evaluate_expr begins.
Evaluate ==
    /\ HookAt("paused")
    /\ queue # <<>> /\ Head(queue) = "evaluate"
    /\ queue' = Tail(queue)
    /\ disable' = disable + 1
    /\ Goto("expr")
    /\ UNCHANGED <<prog, run, hooks, step, bps, lock, server, reqs, asked>>

EvaluateDone ==
    /\ \E failed \in BOOLEAN :
         /\ HookAt("exprEnd") \/ (HookAt("expr") /\ failed)
         /\ disable' = DisableAfter(failed)
    /\ Goto("paused")
    /\ Reply
    /\ UNCHANGED <<prog, run, hooks, step, bps, lock, queue, reqs, asked>>

\* Receiver::recv fails once the channel is empty and the Sender is gone.
RecvFails == queue = <<>> /\ server \in {"dropped", "panicked"}

\* What the hook does when recv fails: leave the loop.
RetryRecv   == UNCHANGED <<ctl, hooks>>
OnRecvError == LeaveHook

AdapterGone ==
    /\ HookAt("paused")
    /\ RecvFails
    /\ OnRecvError
    /\ UNCHANGED <<prog, run, step, disable, bps, lock, queue, server, reqs, asked>>

-----------------------------------------------------------------------------
(***************************************************************************)
(* The server thread.                                                      *)
(***************************************************************************)

\* launch names the program, once or again.
Launch ==
    /\ server = "idle" /\ run = "none"
    /\ run' = "launched"
    /\ UNCHANGED <<prog, ctl, hooks, step, disable, bps, lock, queue, server, reqs, asked>>

\* configurationDone: Backend::execute hands the hook to a new thread.
ConfigurationDone ==
    /\ server = "idle" /\ run = "launched"
    /\ run' = "running"
    /\ UNCHANGED <<prog, ctl, hooks, step, disable, bps, lock, queue, server, reqs, asked>>

\* A second one finds no hook: take().unwrap() panics.
ConfigurationDoneAgain ==
    /\ server = "idle" /\ Started
    /\ server' = "panicked"
    /\ UNCHANGED <<prog, run, ctl, hooks, step, disable, bps, lock, queue, reqs, asked>>

\* A request that inject()s a closure: send, then block in recv.  The Receiver
\* is there before the evaluation starts, but nobody listens.
Send ==
    /\ server = "idle" /\ run # "ended"
    /\ reqs < MaxReqs
    /\ \E r \in Request : queue' = Append(queue, r)
    /\ server' = "waiting"
    /\ reqs' = reqs + 1
    /\ UNCHANGED <<prog, run, ctl, hooks, step, disable, bps, lock, asked>>

\* The Receiver is gone: sender.send(..).unwrap() panics.
SendPanics ==
    /\ server = "idle" /\ run = "ended"
    /\ reqs < MaxReqs
    /\ server' = "panicked"
    /\ reqs' = reqs + 1
    /\ UNCHANGED <<prog, run, ctl, hooks, step, disable, bps, lock, queue, asked>>

ReceiveReply ==
    /\ server = "answered"
    /\ server' = "idle"
    /\ UNCHANGED <<prog, run, ctl, hooks, step, disable, bps, lock, queue, reqs, asked>>

\* The closure was dropped unanswered: receiver.recv().unwrap() panics.
ReplyLost ==
    /\ server = "waiting" /\ run = "ended"
    /\ server' = "panicked"
    /\ UNCHANGED <<prog, run, ctl, hooks, step, disable, bps, lock, queue, reqs, asked>>

SetBreakpoints ==
    /\ server = "idle"
    /\ reqs < MaxReqs
    /\ server' = "locking"
    /\ reqs' = reqs + 1
    /\ UNCHANGED <<prog, run, ctl, hooks, step, disable, bps, lock, queue, asked>>

\* BreakpointConfig::set_breakpoints under the lock: the table of one file is
\* replaced, those of the other files are kept.
SetBreakpointsLocked ==
    /\ server = "locking" /\ lock = "free"
    /\ \E f \in File : \E new \in [Line -> Bp] :
         bps' = [l \in Loc |-> IF l[1] = f THEN new[l[2]] ELSE bps[l]]
    /\ server' = "idle"
    /\ UNCHANGED <<prog, run, ctl, hooks, step, disable, lock, queue, reqs, asked>>

\* A panic of the evaluator under the lock: lock().unwrap() panics, too.
SetBreakpointsPanics ==
    /\ server = "locking" /\ lock = "poisoned"
    /\ server' = "panicked"
    /\ UNCHANGED <<prog, run, ctl, hooks, step, disable, bps, lock, queue, reqs, asked>>

\* disconnect: the server loop ends and drops the adapter.
Disconnect ==
    /\ server = "idle"
    /\ server' = "dropped"
    /\ UNCHANGED <<prog, run, ctl, hooks, step, disable, bps, lock, queue, reqs, asked>>

\* Both threads are over, or the server waits for an evaluation that only it
\* could start.
Over ==
    \/ run # "running" /\ server \in {"dropped", "panicked"} /\ UNCHANGED vars
    \/ ~Started /\ server = "waiting" /\ UNCHANGED vars

EvalStep ==
    \/ NextStmt \/ EvalEnds \/ CheckBreakpoint \/ NestedStmt \/ EvalPanics
    \/ ConditionDone \/ NoStop \/ Stop \/ StopFails \/ Resume \/ Query \/ Evaluate \/ EvaluateDone
    \/ AdapterGone

ServerFinishes ==
    ReceiveReply \/ ReplyLost \/ SetBreakpointsLocked \/ SetBreakpointsPanics

Next ==
    \/ EvalStep
    \/ ServerFinishes
    \/ Launch \/ ConfigurationDone \/ ConfigurationDoneAgain
    \/ Send \/ SendPanics \/ SetBreakpoints \/ Disconnect
    \/ Over

Spec == Init /\ [][Next]_vars

\* Both threads are scheduled, the evaluator's once it has been spawned, and a
\* thread blocked on the mutex or on a channel is woken when it can go on.  The
\* client owes no request, not even the one that starts the evaluation.
FairSpec == Spec /\ WF_vars(EvalStep) /\ WF_vars(ServerFinishes)

-----------------------------------------------------------------------------
(***************************************************************************)
(* Properties.                                                             *)
(***************************************************************************)

\* evaluate_expr: "We don't want to trigger breakpoints during an evaluate, not
\* least because we currently don't allow reenterant evaluate".  However steps
\* and conditional breakpoints combine, the evaluator never pauses in a
\* statement run for a condition or an expression.
NoReentrantStop ==
    /\ TypeOK
    /\ Len(ctl) > 1 => Top.pc # "paused"

\* A statement on which the hook found a plain breakpoint is not passed without
\* a pause, whatever was evaluated, failed, stepped or resumed before: no error
\* path leaves the breakpoints disabled.
PlainBreakpointStops ==
    [][Len(ctl') < Len(ctl) /\ Top.bp = "always" /\ run' # "ended" => Top.pc = "paused"]_vars

\* StepKind (adapter.rs): Over "will stop on the next statement in the current
\* function", Out "on the next statement after this function returns".  The code
\* compares depths of the call stack, which do not tell one call from another.
\* Still no statement is passed, after any calls and returns in between, that
\* belongs to the very call the step was asked in (Over) or to one of its
\* callers (Over and Out); after Into, none at all.  Statements of a function
\* called once the first has returned, as h in g() + h(), may be passed: Out does
\* not stop in h, although its document says so ("These aren't quite right",
\* implementation.rs:141).
StepNotOvershot ==
    [][HookAt("step") /\ ctl' = <<>> /\ run' # "ended" =>
         /\ asked.kind # "Into"
         /\ asked.kind = "Over" => ~IsPrefix(prog.calls, asked.calls)
         /\ asked.kind = "Out" => ~IsStrictPrefix(prog.calls, asked.calls)]_vars

\* With no breakpoint on the statement, a pause is the end of a step the client
\* asked for, and never of an earlier one: while the call the step was asked in
\* is in progress, Over stops in no function it calls ("so will step over a
\* function call"), and Out not at all.
StepNotEarly ==
    [][HookAt("step") /\ ctl' # <<>> /\ Last(ctl').pc = "paused" /\ Top.bp = "none" =>
         \/ asked.kind = "Into"
         \/ asked.kind = "Over" /\ ~IsStrictPrefix(asked.calls, prog.calls)
         \/ asked.kind = "Out" /\ ~IsPrefix(asked.calls, prog.calls)]_vars

\* Once the evaluation has started, the blocked server thread always comes back:
\* its request is answered, or the evaluation ends first and the server panics on
\* the dropped channel.  A request sent before configurationDone is never
\* answered: the thread that would start the evaluation is the one that waits
\* (inject, implementation.rs:397; dap.rs:165).
RequestEnds == (server = "waiting" /\ Started) ~> server \in {"idle", "panicked"}

\* set_breakpoints does not hang, also while the evaluator is paused: a pause
\* never holds the mutex (the only thread that could resume it would block).  It
\* returns, or panics because a condition was evaluated on a full call stack and
\* took the evaluator thread down with the mutex locked.
SetBreakpointsReturns ==
    server = "locking" ~> server = "idle" \/ (server = "panicked" /\ lock = "poisoned")

\* Once the client is gone an evaluation in progress runs to its end, through
\* every breakpoint and step still set.
DroppedAdapterReleasesEval == (server = "dropped" /\ Started) ~> run = "ended"
=============================================================================
