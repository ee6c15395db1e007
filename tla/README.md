# A TLA+ verification of starlark-rust

This directory models the parts of starlark-rust whose correctness rests on
`unsafe` code, on the order of steps, on cleanup after errors, on two threads,
or on a translation that is hard to get right: the heap and its collector,
freezing, the lifetimes of frozen heaps, the evaluator's entry points, the
variables of a module, name resolution, the bytecode compiler and interpreter,
argument binding, the map behind most tables, and the debug adapter. TLC checks
each model on small instances; TLAPS proves the main safety properties of seven
of them for every size.

Paths below are relative to `starlark/src/` unless they start with another
crate. `PROJECT.json` maps every definition to the lines it models.

## 1. The system

### Components

| component | state | operations | correct when |
|---|---|---|---|
| unfrozen heap and collector (`values/layout/heap/`, `values/layout/avalue.rs`) | `Heap.arena`, header words, forwards, black holes | `alloc_*`, `garbage_collect_internal`, `Tracer::trace/adjust/reserve`, `heap_copy`, `Reservation::fill` | nothing dangles after a collection, the object graph is the same, garbage is gone, the recursion ends |
| list storage (`values/types/list/value.rs`, `values/types/array.rs`) | content array with length, capacity, iteration count | `push`, `clear`, `reserve_additional_slow`, `double`, `extend`, `insert`, `remove` | length within capacity, the shared static empty array never holds a value (`clear` writes its length, which is 0 already) |
| module freezing (`environment/modules.rs`, `avalue.rs`, `eval/compiler/def.rs`) | forwards, frozen arena, `Freezer.frozen_defs` | `Module::freeze`, `Freezer::freeze`, `heap_freeze`, `post_freeze` | the frozen module is a complete copy of the module, or freezing fails |
| frozen heap lifetimes (`heap_type.rs`, `values/owned.rs`, `owned_frozen_ref.rs`) | `Arc`s, `FrozenHeap.refs`, `OwnedFrozenValue.owner` | `add_reference`, `into_ref`, `owned_value`, `map`, imports, drops | a `FrozenValue` never outlives its heap; reference counts leak nothing |
| evaluator (`eval.rs`, `eval/runtime/evaluator.rs`, `cheap_call_stack.rs`, `debug/evaluate.rs`) | call stack, `current_frame`, `module_def_info`, `disable_gc` | `eval_module`, `eval_function`, `eval_statements`, `with_call_stack`, `possible_gc` | each entry point restores what it changed, on success and on error; a collection starts only where all values are rooted |
| module names and slots (`environment/names.rs`, `slots.rs`) | name -> slot and visibility, slot values | `add_name_visibility`, `hide_name`, `ensure_slots`, `set_slot` | a name's slot is its own; `eval_statements` puts names back |
| iteration guards (`values/iter.rs`, `array.rs`, dict and set) | iteration counters, `RefCell` borrows | `iterate`, `iter_stop` | a container under iteration does not change; the guard is released exactly once |
| `SmallMap`, `OrderedMap` (crate `starlark_map`) | entries, optional index | `insert`, `shift_remove`, `sort_keys`, `pop` | an insertion-ordered map, with and without index |
| argument binding (`eval/runtime/params/spec.rs`, crate `starlark_syntax` `syntax/def.rs`) | none (functions) | `DefParams::unpack`, `ParametersSpecBuilder`, `collect`, `can_fill_with_args` | Starlark's parameter rules; the builder's asserts never fail |
| scope resolution (`eval/compiler/scope.rs`) | names and slots of each scope, bindings, copies from parents | `enter_def`, `add_compr`, `get_name`, `unscope` | lexical scoping; a closure reaches the variable of its owner |
| bytecode (`eval/bc/`) | writer: code, stack depth, definite assignment; interpreter: frame, loop indices | `write_bc` of statements and expressions, `run_block` | the code does what the source means; unchecked reads are of set slots; loops release their lists |
| debug adapter (`debug/adapter/implementation.rs`, crate `starlark_bin` `dap`) | breakpoints behind a mutex, step, channel of closures, counter of disabled breakpoints | the hook before every statement, DAP requests | stops exactly where asked; neither thread hangs |
| interner, lexer indentation | small tables | `intern`, indentation stack | see the plan |
| parser, other compiler passes, typing, standard library, docs, lints, LSP, command line, derive macros | - | - | pure translations, data functions or I/O: not modelled |

### How the parts interact

The evaluator runs statements of a module; they allocate in the module's
`Heap` and call functions through `with_call_stack`. Before a statement at the
root of a module `possible_gc` may run the collector, which traces what
`Evaluator::trace` names and nothing else. `Module::freeze` consumes the module
and moves what its slots reach to a `FrozenHeap`; `load` brings values of other
frozen modules in and must record their owners with `add_reference`. A debugger
hooks into the evaluator before every statement, pauses it on a channel, and
evaluates expressions with `eval_statements`, which re-enters `eval_module`
below any number of frames.

### What is hard

* Recursion over a heap that is being rewritten: forwards and black holes are
  visible to the recursion through cycles and sharing (collection, freezing).
* Naked pointers kept valid by a protocol: roots handed to the tracer, owners
  referenced before values are used.
* Errors (`?`) that cross any number of activations with state to restore.
* Re-entrance: native functions and the debugger call back into the evaluator.
* Two threads with a mutex, a channel, a reply channel per request, and either
  side ending at any time.
* Limits: the call stack, array capacity, the switch of `SmallMap` to an index.
* Access by number: slots of a frame are read without a check because the
  compiler said so; slots of a module are indexed (a panic when out of bounds)
  by numbers that were resolved before other code was compiled on the same
  module.

`PROJECT.json` lists the single hazards with their lines and the properties
that would catch them.

## 2. Modules

### HeapGc

A value is an address of the unfrozen heap or a member of `Frozen` (inline
ints, static and frozen values). `arena` and `newArena` are the bump allocators
of the heap and of the tracer; `tag` is the header word of an address (object,
forward, black hole). A dropped arena's addresses may be handed out again, so a
stale pointer is really wrong in the model. `stack` is the Rust recursion
`trace` -> `adjust` -> `heap_copy`: one frame per copy in progress, holding the
reservation, the payload moved out of the old object and the next field.
One action is one step of that recursion: `CopyFields` is `heap_copy` up to its
first recursive call (reserve, overwrite with the forward, take the payload),
`TraceField` a field whose value needs no copy, `Fill` the end. The mutator
allocates strings, tuples, complex values and lists, pushes in place or with
reallocation (`NewCapacity`), assigns and removes elements, clears, mutates
complex values and reassigns roots. `emptyArray` is the content of the static
array of capacity 0 that all empty lists share; pushing to a list, or clearing
it, goes through the same test and the same write whichever array it has.

Abstracted: bytes and chunk layout of arenas, string content, destructors, the
profiler's entries.

### ModuleFreeze

`heap` and `frozen` are the two arenas, `fwd` the forwards. `work` is the
recursion of `Freezer::freeze` and `heap_freeze`. The kinds differ where the
code differs: simple values are complete at once, a tuple or complex value is
reserved, forwarded, traced and filled, a list writes its elements into
uninitialised memory, some values freeze to a static, some refuse. `PostFreeze`
completes the defs of `frozen_defs`. A function made by a frozen function of
another module keeps that module. Init is an empty heap; `Alloc` and `SetElem`
then build every heap of the bounds, cyclic ones included, before `Start`.

Abstracted: what optimisation does to a function body; retained profiles.

### FrozenHeaps

One heap per module: unused, open (`FrozenHeap`), sealed (`FrozenHeapRef`),
freed. `refs` are the `Arc`s a heap holds, `points` the heaps its values point
into, `held` the handles of the application (owner and the heap of the value).
`Load` and `Import` reference the owner of the handle, while the value may live
in a heap further away; `Extract` uses a value found inside an imported one and
adds no reference at all. `Free` is an `Arc` count reaching zero.

### Evaluation

`acts` is the native stack, each activation with the locals it restores from;
`stack`/`count` the `CheapCallStack`, including the slots above `count`. Every
activation ends by `Return`, with a value or an error. `EvalStatements` is the
debugger's or a native function's nested evaluation; `PossibleGc` records in
`gcActs` what was in progress when a collection began. `NativeEvals` says
whether native functions call `eval_module` on the evaluator they are given:
nothing in the API prevents it. The theorems hold for both, but for the one that
says so.

Abstracted: the values in frames, the bytecode between calls.

### DapAdapter

The server thread handles `launch` and `configurationDone`, which starts the
evaluator thread (`run`). That thread is any sequence of at most `MaxStmts`
statements; between two of them any of the calls in progress may have returned
and others begun (`prog.calls` names a call by when it began, so that two calls
at one depth are told apart). Each statement runs the hook: check the breakpoint under the mutex, evaluate its
condition (which runs a statement of its own), decide on the step, pause,
serve closures from the channel. `ctl` holds nested hook calls, `hooks` is
`before_stmt`, taken while the hook runs. The server thread sends one request
at a time, also before there is anybody to answer, and blocks on its reply
channel; it may disconnect, and it panics on a closed channel, on a poisoned
mutex and on a second `configurationDone` as the `unwrap`s do. A condition or an
expression evaluated on a full call stack panics the evaluator thread
(`EvalPanics`), and poisons the mutex if it was a condition. `asked` remembers
the step the client asked for and the calls in progress then, and is read by
properties only.

Abstracted: content of stack frames and variables, line numbers, DAP framing.

### ModuleEnv

`names` is `MutableNames` in insertion order, `slots` is `MutableSlots`. A new
name gets the slot numbered by the size of the table, and `hide_name` shrinks
the table again: the module is about that pair. `acts` is the stack of
evaluations: `eval_module` declares the names of a syntax tree and gives them
slots (or fails to resolve and leaves names without slots), top level
statements assign, a function is compiled when its statement is reached, with
variables inlined or read by slot (`code`), the host writes through
`set_module_variable_at_some_point`, and `eval_statements` pushes the symbols of
a frozen function's module and the locals of the paused function into the
module, evaluates, and puts back what it can; `BeginDebugNoDef` is its error
return between pushing and evaluating. A syntax tree is the set of names
it assigns, loads, and assigns more than once; `LoadReexport` says whether loaded
names are public, as in the dialects the crate ships. `touched`, `kept`, `fresh` and
`tainted` remember what the properties speak about; no action reads them.

Abstracted: what the statements compute (any value), unfrozen values (never
inlined), the heap. A native function that evaluates another tree on its own
evaluator is left to `Evaluation`.

### Scopes

The walk of the resolver over a syntax tree. The tree is the environment: at any
point a function with any parameters and assigned names, or a comprehension with
any variables, may be entered or left, and any identifier may be met. `scopes`
are `ScopeNames` (slots, names, copies from the parent), `unscopes` what open
comprehensions replaced. `env` is the reference, the stack of lexical blocks,
which no action of the resolver reads.

Abstracted: globals, error messages, visibility (in `ModuleEnv`).

### Bytecode

The first half is the writer as operators on a record (code, stack depth,
definitely assigned locals, open loops), one per function of `bc/writer.rs` and
`bc/compiler/`; closures passed to the writer are records that `WriteBlock`
dispatches on. The second half is the interpreter, one action per instruction,
with lists that count the iterators that lock them. A call returns any of
`CallValues` or fails. The last part gives the meaning of statements by
recursion over the syntax, with break, continue and return as outcomes; a
finished run is compared with it. Lists are locked while they are looped over
in the reference too, because the language says so.

Abstracted: everything a call does to other values, captured variables' cells
(they are slots that are always read with a check), dictionaries, attributes,
indexing.

### ArgumentBinding

Three functions of the code in sequence, each on all inputs within the bounds:
`Unpack` accepts or rejects a parameter list, the builder makes a
`ParametersSpec` of it (for a `def` as `InstrDef` drives it, for a native
function as `new_parts` does), `Collect` binds the arguments of a call by the
fast or the slow path. An argument's value says where it came from. The
reference states the rules of the language on the list itself: which lists are
legal, which mistakes a call makes, which argument a parameter gets.

### SmallMap and OrderedMap

`aaa` and `bbb` are the two arrays of `Vec2` (entries and hashes), `index` the
optional hash table: its buckets, and how many entries it takes without being
rehashed. A lookup may meet any bucket of the right hash, so equal hashes of
different keys matter. `retain` and `sort_keys` may panic after any call of the
closure, with the entries as the code's guards leave them; destructors do not
panic, and the predicate of `retain` leaves the values alone. `OrderedMap` is the
abstract specification: a sequence of pairs with distinct keys, and what each
operation does to it and returns. `SmallMap` implements it with `map <- aaa`.

## 3. Model checking

Every module `X` is instantiated by `MCX` with the bounds of its `.cfg`.

| run | checks | bounds | states |
|---|---|---|---|
| `heap_gc` | `NoDangling`, `NewArenaClosed`, `GraphPreserved`, `ArrayFits`, `GcReclaimsGarbage`, `GcMakesProgress` | 6 addresses, 2 roots, 3 objects, 1 field, lists of 2; symmetric addresses and roots | 18,993 |
| `module_freeze` | `FrozenHeapComplete`, `FrozenGraphPreserved`, `DefsCompleted`, `FailsOnlyOnNoFreeze`, `FreezeTerminates` | 2 slots (one is the extra value), 3 objects, 1 element | 921,584 |
| `frozen_heaps` | `NoDanglingFrozenValue`, `OwnerKeepsValueAlive`, `NoReferenceCycle`, `AllFreedInTheEnd` | 3 modules | 2,459 |
| `evaluation` | `StackMirrorsNative`, `FrameIsLive`, `NoGcInDebugger` | stacks of 2 to 4 frames, 3 calls of `eval_module`, native functions that evaluate modules | 49,404 |
| `module_env` | `SlotsDistinct`, `RunningHasSlots`, `InlinedIsCurrent`, `DebugPutsBack`, `LocalsKept` | 2 names, one of them private, 2 values, trees of 1 name, 6 activations, 4 evaluations, calls or host writes | 2,186,808 |
| `scopes` | `ResolutionIsLexical`, `ClosuresShareVariables` | 2 names, the module and 2 functions, 4 variables, 4 nested blocks | 1,046,693 |
| `bytecode` | `MatchesSource`, `SlotsReadAreSet`, `IteratorsBalanced`, `Terminates` | 8790 bodies of 2 or 3 statements with loops two deep, 4 locals, a list of 2 | 590,800 |
| `argument_binding` | `SpecFollowsList`, `BindsByTheRules` | lists of 4 parameters with 3 names, calls with 3 arguments | 1,269,773 |
| `small_map` | `IndexConsistent`, `RefinesOrderedMap` | 4 keys of which some share a hash, 2 values, threshold 2, sorting in place up to 3 | 29,841 |
| `dap_adapter` | `NoReentrantStop`, `PlainBreakpointStops`, `StepNotOvershot`, `StepNotEarly`, `RequestEnds`, `SetBreakpointsReturns`, `DroppedAdapterReleasesEval` | 2 files of 1 line, depth 3, 4 statements, 4 requests | 734,740 |
| `evaluation_gc_in_native`, `bytecode_iter_stop` | one documented statement each, which the code violates (section 5) | as `evaluation` and `bytecode` | |

Type correctness is a conjunct of the first property of a module (of the proved
invariant in `FrozenHeaps`).

What the newer runs show. `module_env`: the slots of the names are always
0..n-1, so that the next free slot is the size of the table, although the
debugger adds and hides names in nested evaluations, some of which fail to
resolve; running code always has the slots it was compiled for; a variable
inlined into a function keeps its value as long as neither the host nor the
debugger writes that variable; and once `eval_statements` in a function has
evaluated its statements, names, values and untouched locals are what they were. `scopes`: shadowing by
comprehensions and copying through several functions never mix up two variables
of one name. `bytecode`: compiled code agrees with the source for every answer
of the calls it makes, in particular in what it leaves in locals when it fails
half way, in which lists it leaves locked, and in the order of calls.
`argument_binding`: one comparison (`next_position > lowest_name`) and one check
per `**kwargs` key find every clash. `small_map`: the index is right through
shifting removals and panics, and positions, order and results are those of an
ordered map. `evaluation`: after the debugger was used once, nothing collects
below other frames. `dap_adapter`: comparing depths is right about the calls in
progress when the step was asked for, through any returns and calls; nothing is
said of calls that begin after the first one has returned (section 5).

Why the bounds suffice. Collection and freezing meet an object untouched, in
progress or done; three objects with two roots give self-cycles, two-cycles,
sharing between roots and fields, and garbage, in all combinations of kinds,
and lists of two elements reach both kinds of push and an outgrown array.
Twice `MaxObjs` addresses let every object have its copy. Three modules give
the chain whose middle is dropped and the diamond. A stack of two to four
frames overflows in each entry point, and three `eval_module`s allow two
evaluations nested in one another and one after. Four statements at depth up
to three are a pause, a step and the statements it passes or stops at on the
way in, level and out; four requests are breakpoints in both files, a step and
a query. In `module_env` two names are a variable of the module and a local of
the paused function with the same or another name, one of the frozen module's
symbols, and one private name; four evaluations are a module, a call, a pause
in it and one more of any kind, nested or after. In `scopes` two functions in
one another with a comprehension in each give copies through a function
between owner and use, and shadowing of a copied name. The bodies of
`bytecode` combine every condition with every way to leave a loop, after code
that does or does not assign the variable. With three names and four
parameters every kind of parameter stands next to every other; three arguments
overfill two parameters. `small_map` crosses its threshold, of 2 instead of 16,
in both directions with entries to spare on both sides.

Deadlock is checked everywhere but in `frozen_heaps`, where the program may
stop once all heaps are freed, and in `module_env` and `argument_binding`,
where a panic or a finished call ends the behaviour. A panic (`Evaluation`), the
end of both threads (`DapAdapter`) and the end of a body (`Bytecode`) are
explicit final states.

Fairness. `ModuleFreeze`: weak fairness of the freezing step, one function call
on one thread. `FrozenHeaps`: weak fairness of `Free`, the drop of the last
`Arc` is immediate. `Bytecode`: weak fairness of the next step, the interpreter
loop on one thread; that calls return or fail is assumed. `DapAdapter`: weak
fairness of each thread, the evaluator's once `configurationDone` has spawned
it; a thread blocked on the mutex or a channel is woken
when it can go on; the client owes no request, so a pause may last for ever
unless the client is gone. The debugged program ends (`MaxStmts`): `RequestEnds`
and `DroppedAdapterReleasesEval` rest on that, as they do in the code.
`GcMakesProgress` needs no fairness: it is a measure that every step of a
collection lowers.

Refinement. `RefinesOrderedMap` is `Ordered!Spec`, the abstract specification
instantiated with the entries: every operation of `SmallMap` is the operation
of the ordered map with the same result, or leaves the map alone (`reserve`,
`maybe_drop_index`).

Every property has a mutant: a definition changed as a plausible mistake would
change the code, under which TLC finds the property violated.

## 4. Proofs

TLAPS proves what follows for every value of the constants that satisfies the
assumption named in the module. Each proof module extends its component; one
lemma per action shows that the action keeps the inductive invariant `IInv`, and
the theorems combine them. TLC checked every `IInv` on the instance of the
component's run before it was proved.

`SeqFacts` holds what several of them need about numbers and sequences:
induction stated about sets of naturals (`InductiveSet`), so that it can be cited
without an operator as a parameter; what `Front`, `Last`, `Append` and `EXCEPT`
leave in a sequence; that the elements at some positions of a sequence
(`At`, module `Subsequences`) keep their order when the sequence grows or
shrinks at its end; that a function given by iteration exists, with what each
stage preserves (`IterationExists`, `EachStage`); and that `SetToSeq` lists the
elements of a finite set.

### The heap: `HeapGcProofs`

From `HeapAssumption`: addresses and frozen words are disjoint, `None` and the
empty array are frozen words, the roots are finitely many (they are the slots
and frames of one evaluator), bounds are naturals. The set of addresses may be
infinite.

* `TypeCorrect`, `GcSafe` (`NoDangling`), `CopiesClosed` (`NewArenaClosed`). They
  are not inductive: that the mutator resumes without dangling pointers depends
  on where a half-done collection may point. `IInv` says it: the arenas are
  disjoint; an old object is untouched and points into the old arena, or is a
  forward into the new one (`OldArena`); the frames own distinct black holes,
  with the fields already traced pointing into the new arena and the others into
  the old (`Frames`); a root points into the old arena until it is traced
  (`Roots`); every black hole has a frame (`NewArenaClosed`); and a list's only
  field is its array, at each stage (`ListShape`, `NewListShape`), without which a
  push would not know what it writes to. At `GcFinish` there is no frame and no
  pending root, so all of it collapses to `NoDangling`.
* `ArraysWithinCapacity` (`ArrayFits`): a push in place needs room, which the
  static array never has, and a collection copies an array with the capacity its
  length needs.
* `CopyIsExact` (`GraphPreserved`): `GInv` relates every finished copy, every
  half-written one and every traced root to the snapshot taken at the start, by
  a relation `Goes` between an old word and a new one that forwards never
  revise.
* `GarbageReclaimed` (`GcReclaimsGarbage`): an object is copied only because a
  root or a field of a copied object led to it, so every set that contains what
  the roots hold and is closed contains every copy.
* `GcTerminates` (`GcMakesProgress`): the measure that every step lowers.

### Freezing: `ModuleFreezeProofs`

From `FreezeAssumption` (bounds are naturals). `PublishesComplete`
(`FrozenHeapComplete`), `FreezeIsExact` (`FrozenGraphPreserved`),
`DefsAllCompleted` (`DefsCompleted`), `FailsExactly` (`FailsOnlyOnNoFreeze`).

All four speak of the end; `IInv` says what each moment owes to it. Objects are
forwarded to places of their own, and the frozen heap has no other places
(`Forwards`); a frame has collected exactly the counterparts of its first fields,
which for a list are already in the list (`Frames`); each caller waits for the
frame above it (`Chain`), so that a frame that returns hands over what its caller
asked for; a copy that no frame works on is finished, and an unfinished function
is in `frozen_defs` (`Copies`); what is forwarded is reachable. `Core` puts
them together, with the heaps and the stack as parameters: `FreezeReturn` fills
the reservation and delivers it, and is proved as two steps through a state that
does not occur. At the end no frame is left and all slots are frozen, so the set
of forwarded objects is closed and contains all that is reachable. `Reachable` is
the intersection of the closed sets, which needs no recursion.

### Lifetimes: the second half of `ModuleFreezeProofs`

The module extends `FrozenHeaps` as well as `ModuleFreeze`, whose result these
heaps hold (hence the names `HeapsSpec`, `HeapsNext`, ... of the former).
`FrozenValuesSafe` (`NoDanglingFrozenValue`), `OwnedValuesSafe`
(`OwnerKeepsValueAlive`), `FrozenHeapsAcyclic` (`NoReferenceCycle`), for any
number of modules. References are recorded for the first link only, so the
invariant says that what a heap points into is kept alive by a chain of
references: `Kept(h)`, the intersection of the sets that contain h and are
closed under `refs`. With it, only live heaps have references and values
(`DeadAreEmpty`), references go to sealed heaps (`RefsSealedOnly`), and handles
keep their values (`HeldKept`). A heap without owner is kept by nobody else, so
freeing it breaks no chain (`KeptAfterDrop`). Acyclicity follows because only
open heaps gain references and none leads to an open heap.

### The evaluator: `EvaluationProofs`

`StackPaired` (`StackMirrorsNative`), `FrameLive` (`FrameIsLive`),
`DebuggerHoldsOffGc` (`NoGcInDebugger`), for any size of the call stack and any
nesting; and `GcAtRoot`: `GcOnlyAtRoot`, which a run violates, does hold if
native functions evaluate no modules (`~NativeEvals`). The invariant
speaks of every activation in progress, not of the last one: the frame each
will restore is the innermost frame below it (`FrameUpTo`), so that any number
of returns, with or without an error, leaves the right one; the call stack is
the pushed activations in order (`Mirrors`); and while collections are not
disabled, a module was entered from a native function or is the first
activation (`Rooted`).

### Maps: `SmallMapProofs`

From `SmallMapAssumption`: keys are naturals (they are compared when sorting),
`None` is neither a value, a number nor a table, the hash function has the keys as
its domain. `MapConsistent` (`IndexConsistent`): the index is the function of
the hashes that a rebuild would compute, through shifting removals.
`MapRefines` (`RefinesOrderedMap`): each step is the step of `OrderedMap` with
the same result, for any keys, hashes and thresholds. Both sorting algorithms
are shown to sort; keys are distinct, so `sort_keys` has one outcome whichever
is taken. Insertion sort is proved by an
induction on the prefix that is in order (`PlacedOne`).

### The variables of a module: `ModuleEnvProofs`

From `ModuleEnvAssumption`: finitely many names, `Unassigned` is no value, a
frame's names and the frozen module's symbols are names. `SlotsAlwaysDistinct`
(`SlotsDistinct`), `RunningAlwaysHasSlots` (`RunningHasSlots`),
`InliningIsCurrent` (`InlinedIsCurrent`), `DebugPutsModuleBack` (`DebugPutsBack`)
and `LocalsAreKept` (`LocalsKept`), for any nesting of evaluations, calls and
uses of the debugger.

The slot of the i-th name is i - 1 (`Table`), and between two snapshots the table
only grows at its end (`Extends`). A snapshot of `eval_statements` is a prefix of
the table and no longer than the snapshots inside it (`Snapshots`); a tree that
is in progress resolved its variables within every snapshot taken since
(`Resolved`), and so did a function compiled outside the debugger (`CodeKept`).
So the names that are hidden on return are exactly the ones past the snapshot,
and no code in progress refers to them. That the snapshots are nested rests on
`Shape`: `eval_statements` in a function is called by that function, and a use of
the debugger inside it is in a function too, so it puts the table back before the
outer one does. The value of a local that nobody wrote is in the module, or in
the next snapshot, which puts it there again (`LocalsSeen`). A variable that its
tree assigns once and has not assigned yet has no value unless it is tainted
(`Unwritten`), so what is inlined has had its only assignment (`CompiledBy`). The
steps of `eval_statements` are proved from what pushing and popping an entry of
the stack does to the invariant (`PushDebug`, `PopDebug`).

### Names: `ScopesProofs`

From `ScopesAssumption`: finitely many names, bounds are naturals. `Lexical`
(`ResolutionIsLexical`) and `Shared` (`ClosuresShareVariables`), for any nesting
of functions and comprehensions.

Neither property is inductive: both speak of the tables in force now, and
`exit_compr` puts back entries that have been out of sight, possibly while names
were copied and variables captured inside. `IInv` therefore says of an entry, in
a table or among the replaced ones, what makes it right for good (`EntryOK`): of
the blocks it was made under, the innermost one that binds the name binds it to
the entry's variable (`Sees`); following the copies outwards there is one slot at
each level, ending at the slot of the scope that owns the variable, which is
itself filled from nowhere (`Leads`); and if that scope is not its own, the
variable is captured. An entry of an open scope is right for the blocks the scope
sees, one replaced by a comprehension for the blocks in front of that
comprehension (`UndoOK`); a replaced name that was unknown is bound by no block of
the scope further out, so that it is right to remove it. Slots are never given
twice (`CopiesOK`: copies go only to slots that exist), so a path, once right,
stays right when scopes grow (`LeadsStays`, `EntryStays`). The rest relates the
stack of blocks to the stack of scopes (`Nests`), the table of replaced names to
the open comprehensions (`ComprsAt`), and variables to their owners (`Declares`).

The step that needs most is `get_name` in an outer scope. The name is unknown to
every scope further in, so no block there binds it (`Unbound`) and it means the
same at every level (`SeesInside`); each new copy extends the path by one level
(`CopiesLead`); a def lies in between (`OuterCrossed`), so the variable becomes
captured exactly when the reference says so. When the innermost scope knows the
name by an earlier copy nothing is marked, and nothing needs to be: the copy
shows that the variable was captured before (`CopiedCaptured`).

### The debug adapter: `DapAdapterProofs`

`PausesOnce` (`NoReentrantStop`), `BreakpointsStop` (`PlainBreakpointStops`),
`StepsStopInTime` (`StepNotOvershot`), `StepsStopNoEarlier` (`StepNotEarly`), for
any program and any requests; and `PauseHoldsNoLock`: the mutex is free whenever
the evaluator waits for the server. The invariant ties the shared state to the
point the hook has reached: the hooks are taken exactly while one runs, the
counter of disabled breakpoints is one exactly in conditions and expressions,
the mutex is held exactly in conditions or poisoned once the evaluator is gone,
a closure in the channel has its sender blocked, and the step the hook has in
mind is the one asked for, with the depth it was asked at. The two theorems on
steps speak of calls, the code of depths. A statement of the call the step was
asked in, or of a caller, has a prefix of the calls that were in progress, and a
statement of what that call calls has an extension of them: that much the depth
tells. The converse is false, and with it what the documents of `StepKind` say
(section 5).

### Only model-checked

* Liveness (`FreezeTerminates`, `AllFreedInTheEnd`, `RequestEnds`,
  `SetBreakpointsReturns`, `DroppedAdapterReleasesEval`, `Terminates`): fairness
  and `ENABLED` are out of the prover's reach.
* `Bytecode` compares a recursive compiler and an interpreter with a recursive
  meaning; its operators are `RECURSIVE`, and their correctness is an induction
  over syntax trees, which the prover cannot do.
* `ArgumentBinding` goes through parameters and arguments with `FoldLeft` and
  `SelectSeq`. They take an operator as an argument, so no lemma about them can
  be cited for a particular one.

## 5. Findings

Two statements of the repository are violated, each by a run:

* `possible_gc` collects "when executing a statement at the root of the module,
  which we know is safe with respect to all three conditions" (`stmt.rs:543`), of
  which the second is being inside a native function. A native function that
  calls `eval_module` on its evaluator lets the inner module's statements
  collect (`stmt.rs:549`) while the native function and the frames below it are
  in progress (`GcOnlyAtRoot`, run `evaluation_gc_in_native`).
* `run_block` returns an error of an instruction without stopping the loops in
  progress, although `traits.rs` guarantees that `iter_stop` is called exactly
  once (`IterStopExactlyOnce`). A list whose loop failed stays locked until a
  collection copies it (`avalue.rs:517`); it matters when the evaluator is used
  again on the same module.

Seen while modelling, in models that behave as the code does unless stated
otherwise, without a run of their own:

* `CheapCallStack::top_frame` ("The frame at the top of the stack",
  `cheap_call_stack.rs:181`) returns `self.stack.last()`, the last slot of the
  allocation, not the last used one. The model leaves the function out.
* `StepKind::Out` "will stop on the next statement after this function returns"
  (`adapter.rs:256`) and `Over` "on the next statement in the current function"
  (`adapter.rs:253`). The code compares depths: in `g() + h()` a step out of `g`
  passes the statements of `h`, and a step over from the last statement of `g`
  stops in `h`. The comment at `implementation.rs:141` admits it ("These aren't
  quite right"). `StepNotOvershot` and `StepNotEarly` state what does hold.
* Breakpoints and steps stop twice on top level statements, once for the
  instruction that may collect (TODOs at `debug/adapter/tests.rs:341` and 354).
  In the model this is two statements at one place.
* A stack trace, evaluation, step or continue requested before
  `configurationDone` blocks the server in `inject` (`implementation.rs:397`), so
  that `configurationDone`, which starts the evaluation (`dap.rs:165`), is never
  read. `RequestEnds` is about requests once the evaluation has started.
* A condition evaluated on a full call stack panics (`eval.rs:121`) while the
  breakpoints are locked (`implementation.rs:119`); the mutex is poisoned, and
  the next `set_breakpoints` panics too (`implementation.rs:285`).
* A second `configurationDone` panics: the hook has been taken (`dap.rs:72`).
* `eval_statements` returns early when the top frame is of no Starlark function
  (`evaluate.rs:81`), with the locals already in the module: variables of the
  same names are overwritten and new names stay (`BeginDebugNoDef`).
* `eval_module` replaces `module_def_info` before `alloc_if_needed(..)?`
  (`eval.rs:117`); when that fails the old one is not put back.
* `eval_module` pushes its frame with `unwrap()` (`eval.rs:121`): with a full
  call stack, an evaluation for the debugger panics.
* A tree that fails to resolve has declared its names and given them no slots:
  `Module::get` and the snapshot of `eval_statements` index past the slots until
  a later module resolves (`BeginDebugPanics`, `GetPanics`).
* A value inlined into a function is out of date when the host or a native
  function sets the variable, before or after it is inlined, although of
  `set_module_variable_at_some_point` it is said that "the program from that
  point on will incorporate those values" (`evaluator.rs:597`); when the
  debugger pushed a local of the same name; or when a new name took over a slot
  that a hidden name had left assigned. `InlinedIsCurrent` states the rest.
* `eval_statements` makes a private name public when a local has that name, can
  leave an unassigned variable assigned, and moves two locals of one name (a
  variable and the comprehension variable that shadows it) through one module
  variable.
* `return` of a call inside a loop releases the loops before it evaluates the
  call: the call may change the list.

## 6. Not modelled

Parser, the compiler's rewritings, typing, the standard library, documentation,
lints, command line and derive macros: pure translations, data functions or
I/O, whose correctness is about the meaning of all programs. Profiling appears
only as far as it disables the collector. The language server is a
single-threaded loop over the last valid parse. A breakpoint is on a statement,
so the arithmetic on line numbers in `resolve_breakpoints` is left out.
`Bytecode` has no instructions for dictionaries, attributes, indexing and
arguments of calls; they neither jump nor hold slots beyond the scheme that is
modelled.

## 7. Plan

Done: `HeapGc`, `FrozenHeaps`, `ModuleFreeze`, `Evaluation`, `ModuleEnv`,
`SmallMap` with its refinement, `Scopes` and `DapAdapter`, all with proofs of
their safety properties; `Bytecode`, `ArgumentBinding`, checked.

To model, if the project grows: `insert` into lists; the borrows of dictionaries
and sets during iteration; the lexer's indentation stack; the string interner
across collections; the language server.
