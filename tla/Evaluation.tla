----------------------------- MODULE Evaluation -----------------------------
(***************************************************************************)
(* The entry points of `Evaluator` (eval.rs, eval/runtime/evaluator.rs,    *)
(* debug/evaluate.rs) and the state they save and restore: the call stack  *)
(* of eval/runtime/cheap_call_stack.rs, current_frame, module_def_info and *)
(* the conditions under which a collection may start                       *)
(* (eval/compiler/stmt.rs possible_gc).                                    *)
(*                                                                         *)
(* `acts` is the native stack: the Rust functions in progress with what    *)
(* each keeps in locals to restore on its way out.  A function returns     *)
(* with a value or with an error at any time; both run the same cleanup.   *)
(***************************************************************************)
EXTENDS Naturals, Sequences, SequencesExt, FiniteSetsExt, Subsequences

CONSTANTS Def,         \* Starlark functions: Def and FrozenDef
          Native,      \* native functions
          None,        \* Value::new_none(), the function of a module's frame
          NoFrame,     \* Option::None
          DefaultSize, \* DEFAULT_STACK_SIZE
          Sizes,       \* arguments of set_max_callstack_size
          NativeEvals, \* whether native functions call eval_module
          MaxModules   \* bound: calls of eval_module

ASSUME EvaluationAssumption ==
    /\ None \notin Def \cup Native
    /\ DefaultSize \in Nat \ {0}
    /\ Sizes \subseteq Nat
    /\ NativeEvals \in BOOLEAN
    /\ MaxModules \in Nat

VARIABLES
    stack,      \* CheapCallStack.stack: the functions, used and unused slots
    count,      \* CheapCallStack.count
    maxSize,    \* max_callstack_size, 0 for None
    frame,      \* current_frame: its position in acts, 0 for null
    defInfo,    \* module_def_info: the eval_module it belongs to, 0 for empty
    disableGc,  \* disable_gc
    due,        \* heap().allocated_bytes() >= next_gc_level
    acts,       \* native activations, innermost last
    modules,    \* calls of eval_module so far
    panicked,   \* a Rust panic
    gcActs      \* history variable: the activations at the last collection

vars == <<stack, count, maxSize, frame, defInfo, disableGc, due, acts, modules,
          panicked, gcActs>>

Function == Def \cup Native \cup {None}

\* "module" is eval_module, "stmt" a top level statement in its alloca_frame,
\* "function" eval_function, "def" and "native" a with_call_stack around a
\* function.
Act == [kind : {"module", "stmt", "function", "def", "native"},
        fn : Function, oldFrame : Nat, oldInfo : Nat]

TypeOK ==
    /\ stack \in Seq(Function)
    /\ count \in 0 .. Len(stack)
    /\ maxSize \in Nat
    /\ frame \in Nat
    /\ defInfo \in 0 .. MaxModules
    /\ disableGc \in BOOLEAN
    /\ due \in BOOLEAN
    /\ acts \in Seq(Act)
    /\ modules \in 0 .. MaxModules
    /\ panicked \in BOOLEAN
    /\ gcActs \in Seq(Act)

Init ==
    /\ stack = <<>>
    /\ count = 0
    /\ maxSize = 0
    /\ frame = 0
    /\ defInfo = 0
    /\ disableGc = FALSE
    /\ due = FALSE
    /\ acts = <<>>
    /\ modules = 0
    /\ panicked = FALSE
    /\ gcActs = <<>>

-----------------------------------------------------------------------------
(***************************************************************************)
(* CheapCallStack.                                                         *)
(***************************************************************************)

Size == IF maxSize = 0 THEN DefaultSize ELSE maxSize

\* alloc_if_needed: the allocated stack, and whether the size asked for is its.
Allocated == IF stack = <<>> THEN [i \in 1 .. Size |-> None] ELSE stack
AllocOk   == Len(Allocated) = Size

\* The overflow test of push, for n frames pushed in a row.
Full(n) == count + n > Len(Allocated)

Push(fns) ==
    /\ stack' = [i \in DOMAIN Allocated |->
                    IF i \in count + 1 .. count + Len(fns) THEN fns[i - count] ELSE Allocated[i]]
    /\ count' = count + Len(fns)

\* Trace: the used slots are traced, the unused ones blanked.
Blanked == [i \in 1 .. Len(stack) |-> IF i <= count THEN stack[i] ELSE None]

\* top_nth_function_opt.
TopNthFunction(n) == IF count > n THEN stack[count - n] ELSE NoFrame

-----------------------------------------------------------------------------
(***************************************************************************)
(* Entry points and calls.                                                 *)
(***************************************************************************)

Running(kinds) == acts # <<>> /\ Last(acts).kind \in kinds

\* Code of the embedding application holds the evaluator.
HostRuns == acts = <<>> \/ Running({"native"})

NewAct(kind, fn) == [kind |-> kind, fn |-> fn, oldFrame |-> frame, oldInfo |-> defInfo]

\* A size that is zero, or set already, is an error.
SetMaxCallstackSize ==
    /\ ~panicked /\ HostRuns
    /\ maxSize = 0
    /\ \E n \in Sizes : n # 0 /\ maxSize' = n
    /\ UNCHANGED <<stack, count, frame, defInfo, disableGc, due, acts, modules, panicked, gcActs>>

\* eval_module up to the evaluation: module_def_info is replaced first, and
\* stays replaced if the stack turns out to have another size; a full stack
\* panics in push().unwrap().
StartModule ==
    /\ modules < MaxModules
    /\ modules' = modules + 1
    /\ defInfo' = modules + 1
    /\ IF ~AllocOk THEN UNCHANGED <<stack, count, acts, panicked>>
       ELSE IF Full(1) THEN panicked' = TRUE /\ UNCHANGED <<stack, count, acts>>
       ELSE /\ Push(<<None>>)
            /\ acts' = Append(acts, NewAct("module", None))
            /\ UNCHANGED panicked

\* A native function is given the evaluator it is called from, and may pass it
\* another module.
EvalModule ==
    /\ ~panicked
    /\ acts = <<>> \/ (NativeEvals /\ Running({"native"}))
    /\ StartModule
    /\ UNCHANGED <<maxSize, frame, disableGc, due, gcActs>>

\* eval_regular_top_level_stmt: a frame for one statement.
TopLevelStmt ==
    /\ ~panicked /\ Running({"module"})
    /\ acts' = Append(acts, NewAct("stmt", None))
    /\ frame' = Len(acts) + 1
    /\ UNCHANGED <<stack, count, maxSize, defInfo, disableGc, due, modules, panicked, gcActs>>

\* The heap grows past next_gc_level.
Allocate ==
    /\ ~panicked /\ Running({"stmt", "def", "native"})
    /\ due' = TRUE
    /\ UNCHANGED <<stack, count, maxSize, frame, defInfo, disableGc, acts, modules, panicked, gcActs>>

\* possible_gc, compiled only into statements at the root of a module; the
\* level that follows a collection is above what is allocated.
PossibleGc ==
    /\ ~panicked /\ Running({"stmt"})
    /\ ~disableGc /\ due
    /\ stack' = Blanked
    /\ due' = FALSE
    /\ gcActs' = acts
    /\ UNCHANGED <<count, maxSize, frame, defInfo, disableGc, acts, modules, panicked>>

\* What invoking fn adds to the native stack, at position n: Def::invoke_impl
\* also allocates a frame.
Invoke(fn, n, pre) ==
    /\ acts' = acts \o pre \o <<NewAct(IF fn \in Def THEN "def" ELSE "native", fn)>>
    /\ frame' = IF fn \in Def THEN n ELSE frame

\* The frames eval_function pushes: an empty one first, because "other places
\* expect that first frame to be ignorable".
FunctionFrames(fn) == <<None, fn>>

\* eval_function; the overflow of either push is an error that pops.
EvalFunction(fn) ==
    /\ ~panicked /\ HostRuns
    /\ AllocOk
    /\ IF Full(2)
         THEN /\ stack' = IF Full(1) THEN Allocated ELSE [Allocated EXCEPT ![count + 1] = None]
              /\ UNCHANGED <<count, acts, frame>>
         ELSE /\ Push(FunctionFrames(fn))
              /\ Invoke(fn, Len(acts) + 2, <<NewAct("function", None)>>)
    /\ UNCHANGED <<maxSize, defInfo, disableGc, due, modules, panicked, gcActs>>

\* with_call_stack.  A push on a full stack is the error "Starlark call stack
\* overflow", and nothing changed.
Call(fn) ==
    /\ ~panicked /\ Running({"stmt", "def", "native"})
    /\ ~Full(1)
    /\ Push(<<fn>>)
    /\ Invoke(fn, Len(acts) + 1, <<>>)
    /\ UNCHANGED <<maxSize, defInfo, disableGc, due, modules, panicked, gcActs>>

\* eval_statements and the collector: "let's not push our luck with GC".
GcAsBefore         == disableGc
GcInEvalStatements == TRUE

\* top_frame_def_info_for_debugger: one native frame is skipped.  A second one
\* (TopFrameNotDef) and an empty stack are errors.
DebuggerFrame == IF TopNthFunction(0) \in Native THEN TopNthFunction(1) ELSE TopNthFunction(0)

\* eval_statements up to the evaluation, from the application, a native function
\* (breakpoint, debug_evaluate) or the debugger's hook before a statement.
EvalStatements ==
    /\ ~panicked
    /\ acts = <<>> \/ Running({"native", "stmt", "def"})
    /\ disableGc' = GcInEvalStatements
    /\ IF DebuggerFrame \in Native \cup {NoFrame} THEN UNCHANGED <<stack, count, defInfo, acts, modules, panicked>>
       ELSE StartModule
    /\ UNCHANGED <<maxSize, frame, due, gcActs>>

\* Evaluator::disable_gc, enable_profile of a heap profile.
DisableGc ==
    /\ ~panicked /\ HostRuns
    /\ disableGc' = TRUE
    /\ UNCHANGED <<stack, count, maxSize, frame, defInfo, due, acts, modules, panicked, gcActs>>

\* current_frame after alloca_frame.
FrameKept(a)  == frame
FrameAfter(a) == IF a.kind \in {"stmt", "def"} THEN a.oldFrame ELSE frame

\* Activations that pushed a call stack frame.
Pushed == {"module", "function", "def", "native"}

\* call_stack.pop(), also when the function failed.
CountKept(a, failed)  == IF a.kind \in Pushed /\ ~failed THEN count - 1 ELSE count
CountAfter(a, failed) == IF a.kind \in Pushed THEN count - 1 ELSE count

\* The innermost native function returns, with a value or with an error.
Return ==
    /\ ~panicked /\ acts # <<>>
    /\ LET a == Last(acts)
       IN  \E failed \in BOOLEAN :
             /\ count' = CountAfter(a, failed)
             /\ frame' = FrameAfter(a)
             /\ defInfo' = IF a.kind = "module" THEN a.oldInfo ELSE defInfo
    /\ acts' = Front(acts)
    /\ UNCHANGED <<stack, maxSize, disableGc, due, modules, panicked, gcActs>>

\* A panic unwinds out of the evaluator.
Stopped == panicked /\ UNCHANGED vars

Next ==
    \/ SetMaxCallstackSize
    \/ EvalModule
    \/ TopLevelStmt
    \/ Allocate
    \/ PossibleGc
    \/ \E fn \in Def \cup Native : EvalFunction(fn) \/ Call(fn)
    \/ EvalStatements
    \/ DisableGc
    \/ Return
    \/ Stopped

Spec == Init /\ [][Next]_vars

-----------------------------------------------------------------------------
(***************************************************************************)
(* Properties.                                                             *)
(***************************************************************************)

PushedActs == At(acts, {i \in DOMAIN acts : acts[i].kind \in Pushed})

\* "It is important the each `push` is paired with a `pop`": the used part of
\* the call stack is, slot by slot, the functions in progress on the native
\* stack, after any mix of nested evaluations, errors and collections.  Its
\* first entry, which to_diagnostic_frames and to_function_values skip as "just
\* the entire module", is never a function, whichever entry point was used.
StackMirrorsNative ==
    /\ TypeOK
    /\ count > 0 => stack[1] = None
    /\ count = Len(PushedActs)
    /\ \A i \in 1 .. count : stack[i] = PushedActs[i].fn

\* alloca_frame: current_frame is the frame of the innermost statement or def
\* in progress, null when there is none: no frame outlives its alloca.
FrameIsLive ==
    frame = Max({0} \cup {i \in DOMAIN acts : acts[i].kind \in {"stmt", "def"}})

\* eval_statements, which the debugger's hook calls before any statement: "let's
\* not push our luck with GC".  A collection traces current_frame only, and would
\* miss the frames below it.  However often the debugger, an application or a
\* function of the program has evaluated statements, a collection that starts
\* with no native function in progress finds the root module and its statement
\* there, and nothing else.
NoGcInDebugger ==
    (\A i \in DOMAIN gcActs : gcActs[i].kind # "native") => Len(gcActs) <= 2

\* possible_gc: "For the moment we only GC when executing a statement at the root
\* of the module, which we know is safe with respect to all three conditions", of
\* which the second is "When evaluating inside a native function": nothing is in
\* progress but the module and its statement.
GcOnlyAtRoot == Len(gcActs) <= 2
=============================================================================
