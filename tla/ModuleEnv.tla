----------------------------- MODULE ModuleEnv ------------------------------
(***************************************************************************)
(* The variables of a module while it is evaluated: the table of names     *)
(* (MutableNames), the slots that hold their values (MutableSlots), the    *)
(* host's writes, eval_module, and eval_statements, which the debugger     *)
(* uses to evaluate code at a paused statement.                            *)
(*                                                                         *)
(* A new name gets the slot numbered by the present size of the table.     *)
(* eval_module declares the names of a syntax tree before anything runs,   *)
(* compiles each top-level statement when it is reached, and replaces a    *)
(* variable by its value when the tree assigns it at most once.            *)
(* eval_statements writes the locals of the paused function into the       *)
(* module, evaluates, and then undoes what it can.                         *)
(*                                                                         *)
(* `acts` is the stack of what is in progress: "module" for eval_module,   *)
(* "def" for a call, "debug" for eval_statements; "panic" ends a run.      *)
(* Slots are numbered from 0 in the table and kept in a sequence.  Every   *)
(* value is frozen: the others are never inlined.                          *)
(***************************************************************************)
EXTENDS Integers, Sequences, FiniteSets, SequencesExt, Subsequences

CONSTANTS
    Names,
    Underscored,    \* the names that begin with an underscore
    LoadReexport,   \* Dialect::enable_load_reexport
    Values,         \* frozen values: numbers, strings, frozen objects
    Unassigned,
    FrameNames,     \* DefInfo::used: the name of each local slot of a def
    FrozenValue,    \* value of every public symbol of the frozen module
    FrozenSymbols,  \* its public symbols
    MaxActs,        \* bound: depth of acts
    MaxCalls,       \* bound: evaluations, calls and host writes of one run
    MaxTree         \* bound: names one syntax tree defines

ASSUME ModuleEnvAssumption ==
    /\ IsFiniteSet(Names)
    /\ Unassigned \notin Values
    /\ FrameNames \in Seq(Names)
    /\ FrozenValue \in Values
    /\ FrozenSymbols \subseteq Names
    /\ Underscored \subseteq Names
    /\ LoadReexport \in BOOLEAN
    /\ MaxActs \in Nat /\ MaxCalls \in Nat /\ MaxTree \in Nat

VARIABLES
    names,      \* sequence of [name, slot, public]
    slots,      \* values by slot
    acts,
    code,       \* a variable read by a compiled function: its name, slot, inlined
                \* value; `kept`, `fresh` and `tainted` are for the properties
    calls       \* evaluations, calls and host writes so far

vars == <<names, slots, acts, code, calls>>

NoCode == [name |-> Unassigned, slot |-> 0, inlined |-> Unassigned,
           kept |-> FALSE, fresh |-> FALSE, tainted |-> FALSE]

-----------------------------------------------------------------------------
(***************************************************************************)
(* MutableNames and MutableSlots, as functions of a table t and slots s.   *)
(***************************************************************************)

Known(t, n) == \E i \in DOMAIN t : t[i].name = n
PlaceOf(t, n) == CHOOSE i \in DOMAIN t : t[i].name = n
SlotOf(t, n) == t[PlaceOf(t, n)].slot

(* add_name_visibility: a known name keeps its slot, and public wins.      *)
AddNameAfterSlots(t, n, public) ==
    IF Known(t, n)
    THEN [t EXCEPT ![PlaceOf(t, n)].public = @ \/ public]
    ELSE Append(t, [name |-> n, slot |-> Len(slots), public |-> public])
AddNameVisibility(t, n, public) ==
    IF Known(t, n)
    THEN [t EXCEPT ![PlaceOf(t, n)].public = @ \/ public]
    ELSE Append(t, [name |-> n, slot |-> Len(t), public |-> public])

(* hide_name, for each name of a set.                                      *)
HideNames(t, hidden) == At(t, {k \in DOMAIN t : t[k].name \notin hidden})

EnsureSlots(s, count) == IF Len(s) >= count THEN s
                         ELSE s \o [i \in 1..count - Len(s) |-> Unassigned]

SetSlot(s, slot, v) == [s EXCEPT ![slot + 1] = v]

(* Module::set and set_private, on a record of both.                       *)
Env(t, s) == [names |-> t, slots |-> s]

SetVar(e, n, v, public) ==
    LET t == AddNameVisibility(e.names, n, public)
        slot == SlotOf(t, n)
    IN  Env(t, SetSlot(EnsureSlots(e.slots, slot + 1), slot, v))

(* SetVar for the pairs of a sequence, in order.                           *)
SetAll(e, pairs) ==
    LET after[k \in 0..Len(pairs)] ==
            IF k = 0 THEN e ELSE SetVar(after[k - 1], pairs[k][1], pairs[k][2], TRUE)
    IN  after[Len(pairs)]

-----------------------------------------------------------------------------
(***************************************************************************)
(* eval_module.                                                            *)
(***************************************************************************)

(* enter_module declares the names of a tree.  The ones it assigns or      *)
(* defines are public, and the ones it loads where the dialect says so, as *)
(* the shipped ones do; default_visibility makes an underscore private.    *)
Exported(assigned, loaded) ==
    (IF LoadReexport THEN assigned \union loaded ELSE assigned) \ Underscored

Declare(t, assigned, loaded) ==
    LET ns == SetToSeq(assigned \union loaded)
        after[k \in 0..Len(ns)] ==
            IF k = 0 THEN t
            ELSE AddNameVisibility(after[k - 1], ns[k], ns[k] \in Exported(assigned, loaded))
    IN  after[Len(ns)]

(* The names of the tree that may be assigned more than once: those the    *)
(* module already had and the tree assigns too, and those it assigns       *)
(* several times or in a loop.                                             *)
AssignedAnyNew(t, assigned, loaded, multi) == multi
AssignedAny(t, assigned, loaded, multi) ==
    multi \union {n \in assigned \union loaded : Known(t, n)}

(* A slot that hide_name left with a value.                                *)
StaleAt(s, slot) == slot < Len(s) /\ s[slot + 1] # Unassigned

ModuleAct(t, s, assigned, loaded, multi) ==
    LET defined == assigned \union loaded
        declared == Declare(t, assigned, loaded)
    IN  [kind |-> "module",
         any |-> AssignedAny(t, assigned, loaded, multi),
         multi |-> multi,
         todo |-> defined,
         tainted |-> {n \in defined : ~Known(t, n) /\ StaleAt(s, SlotOf(declared, n))},
         slot |-> [n \in {declared[i].name : i \in DOMAIN declared} |-> SlotOf(declared, n)]]

(* The names a tree assigns, those it loads, and those it assigns several  *)
(* times or in a loop.                                                     *)
Trees == {tree \in (SUBSET Names) \X (SUBSET Names) \X (SUBSET Names) :
             /\ tree[2] \subseteq Names \ tree[1] /\ tree[3] \subseteq tree[1]
             /\ Cardinality(tree[1] \union tree[2]) <= MaxTree}

(* What the properties still need of a compiled function when its tree no  *)
(* longer runs undisturbed.                                                *)
Outdated == IF code.kept
            THEN [code EXCEPT !.fresh = FALSE, !.tainted = FALSE, !.inlined = Unassigned]
            ELSE NoCode
Running == \A i \in DOMAIN acts : acts[i].kind # "panic"

More == calls < MaxCalls /\ calls' = calls + 1

InDebug == \E i \in DOMAIN acts : acts[i].kind = "debug"

(* A host evaluates a module; a scope error is returned before the slots   *)
(* are made.  A native function that evaluates another tree with its own   *)
(* evaluator is the case of module Evaluation and is left out here.        *)
EvalModule(tree) ==
    /\ acts = <<>>
    /\ names' = Declare(names, tree[1], tree[2])
    /\ slots' = EnsureSlots(slots, Len(names'))
    /\ acts' = <<ModuleAct(names, slots, tree[1], tree[2], tree[3])>>
    /\ code' = Outdated

EvalModuleScopeError(tree) ==
    /\ acts = <<>>
    /\ names' = Declare(names, tree[1], tree[2])
    /\ code' = Outdated
    /\ UNCHANGED <<slots, acts>>

(* Every eval_statements in progress sees what is written meanwhile.       *)
Touch(ns) == [i \in DOMAIN acts |->
                IF acts[i].kind = "debug" THEN [acts[i] EXCEPT !.touched = @ \union ns]
                                          ELSE acts[i]]

(* Writes that no tree counts as assignments, for InlinedIsCurrent.        *)
Tainted(as, ns) == [i \in DOMAIN as |->
                      IF as[i].kind = "module" THEN [as[i] EXCEPT !.tainted = @ \union ns]
                                               ELSE as[i]]

(* A top-level statement assigns or loads a variable.                      *)
Assign(n, v) ==
    LET top == Last(acts)
    IN  /\ acts # <<>>
        /\ top.kind = "module"
        /\ n \in top.multi \union top.todo
        /\ slots' = SetSlot(slots, top.slot[n], v)
        /\ acts' = [Touch({n}) EXCEPT ![Len(acts)].todo = @ \ {n}]
        /\ UNCHANGED <<names, code, calls>>

(* expr_ident, in a function compiled at a top-level statement: a variable *)
(* the tree assigns at most once is replaced by the frozen value it has.   *)
Inlined(top, n) ==
    IF n \in top.any THEN Unassigned ELSE slots[top.slot[n] + 1]

CompileDef(n) ==
    LET top == Last(acts)
    IN  /\ acts # <<>>
        /\ top.kind = "module"
        /\ n \in DOMAIN top.slot
        /\ code = NoCode
        /\ code' = [name |-> n, slot |-> top.slot[n],
                    inlined |-> Inlined(top, n), kept |-> ~InDebug, fresh |-> TRUE,
                    tainted |-> n \in top.tainted]
        /\ UNCHANGED <<names, slots, acts, calls>>

(* The last statement has run, or one has failed; or a def returns.        *)
Finish ==
    /\ acts # <<>>
    /\ Last(acts).kind \in {"module", "def"}
    /\ acts' = Front(acts)
    /\ code' = IF Last(acts).kind = "module" THEN Outdated ELSE code
    /\ UNCHANGED <<names, slots, calls>>

(* A call of a function of this module, or of one from a frozen module.    *)
Call(frozen) ==
    /\ Len(acts) < MaxActs
    /\ acts # <<>> => Last(acts).kind = "module"
    /\ acts' = Append(acts, [kind |-> "def", frozen |-> frozen,
                             frame |-> [i \in DOMAIN FrameNames |-> Unassigned]])
    /\ UNCHANGED <<names, slots, code>>

AssignLocal(i, v) ==
    /\ acts # <<>>
    /\ Last(acts).kind = "def"
    /\ acts' = [acts EXCEPT ![Len(acts)].frame[i] = v]
    /\ UNCHANGED <<names, slots, code, calls>>

(* Module::set, from the host or from a native function that calls         *)
(* set_module_variable_at_some_point; set_private, from import.  A value   *)
(* of that variable that has been inlined stays in the code.               *)
HostSet(n, v, public) ==
    LET e == SetVar(Env(names, slots), n, v, public)
    IN  /\ Running
        /\ names' = e.names
        /\ slots' = e.slots
        /\ acts' = Tainted(Touch({n}), {n})
        /\ code' = IF n = code.name THEN [code EXCEPT !.tainted = TRUE] ELSE code

-----------------------------------------------------------------------------
(***************************************************************************)
(* eval_statements.                                                        *)
(***************************************************************************)

HasSlots == \A i \in DOMAIN names : names[i].slot < Len(slots)

(* The snapshot taken on entry.                                            *)
Original == [i \in DOMAIN names |->
                [name |-> names[i].name, slot |-> names[i].slot,
                 value |-> slots[names[i].slot + 1]]]

(* Where the program is paused: in a def, or at module level with no call  *)
(* in progress.  Paused in a statement of another eval_statements there is *)
(* a def further down whose names do not belong to the current frame; that *)
(* is the case of module Evaluation and is left out here.                  *)
PausedInDef == acts # <<>> /\ Last(acts).kind = "def"
PausedAtTop == acts # <<>> /\ \A i \in DOMAIN acts : acts[i].kind # "def"
                           /\ Last(acts).kind = "module"

(* The frozen module's symbols, then the locals in the order of their      *)
(* slots, each written with Module::set.                                   *)
FrozenPairs ==
    IF PausedInDef /\ Last(acts).frozen
    THEN LET ns == SetToSeq(FrozenSymbols) IN [i \in DOMAIN ns |-> <<ns[i], FrozenValue>>]
    ELSE <<>>

LocalPairs ==
    IF PausedInDef
    THEN At([i \in DOMAIN FrameNames |-> <<FrameNames[i], Last(acts).frame[i]>>],
            {i \in DOMAIN FrameNames : Last(acts).frame[i] # Unassigned})
    ELSE <<>>

PushedLocalsFirst == SetAll(Env(names, slots), LocalPairs \o FrozenPairs)
Pushed == SetAll(Env(names, slots), FrozenPairs \o LocalPairs)
PushedLocals == SetAll(Env(names, slots), LocalPairs)

DebugAct == [kind |-> "debug", original |-> Original, inDef |-> PausedInDef, touched |-> {}]

(* The statements are declared and start to run.                           *)
BeginDebug(tree) ==
    /\ Len(acts) + 2 <= MaxActs
    /\ PausedInDef \/ PausedAtTop
    /\ HasSlots
    /\ names' = Declare(Pushed.names, tree[1], tree[2])
    /\ slots' = EnsureSlots(Pushed.slots, Len(names'))
    /\ acts' = Tainted(acts, Names) \o <<DebugAct, ModuleAct(Pushed.names, Pushed.slots, tree[1], tree[2], tree[3])>>
    /\ code' = Outdated

(* They are declared but do not resolve: nothing runs, and what was pushed *)
(* is put back by the step that follows.                                   *)
BeginDebugScopeError(tree) ==
    /\ Len(acts) + 1 <= MaxActs
    /\ PausedInDef \/ PausedAtTop
    /\ HasSlots
    /\ names' = Declare(Pushed.names, tree[1], tree[2])
    /\ slots' = Pushed.slots
    /\ acts' = Append(Tainted(acts, Names), DebugAct)
    /\ code' = Outdated

(* The top frame, or the one under it when the top one is native, is of no *)
(* Starlark function, as when a native function calls a native one: there  *)
(* are no frozen symbols to push, the locals are those of the def further  *)
(* down, and then the error of top_frame_def_info_for_debugger is returned *)
(* with nothing put back.                                                  *)
BeginDebugNoDef ==
    /\ PausedInDef
    /\ HasSlots
    /\ names' = PushedLocals.names
    /\ slots' = PushedLocals.slots
    /\ acts' = Tainted(Touch(Range(FrameNames)), Names)
    /\ code' = Outdated

(* The snapshot reads the slot of a name that was declared by a tree with  *)
(* a scope error and has none.                                             *)
BeginDebugPanics ==
    /\ PausedInDef \/ PausedAtTop
    /\ ~HasSlots
    /\ acts' = <<[kind |-> "panic"]>>
    /\ UNCHANGED <<names, slots, code>>

(* Module::get: the value of a public name.  It reads the slot of any name *)
(* of the table, and panics when there is none.                            *)
GetPanics(n) == Known(names, n) /\ SlotOf(names, n) >= Len(slots)
Get(n) ==
    IF Known(names, n) /\ names[PlaceOf(names, n)].public
    THEN slots[SlotOf(names, n) + 1]
    ELSE Unassigned

(* Back to the locals: every slot of the frame whose name has a value.     *)
FrameAfter(frame) ==
    [i \in DOMAIN frame |-> IF Get(FrameNames[i]) # Unassigned THEN Get(FrameNames[i])
                            ELSE frame[i]]

(* Names that were not there are hidden, one that had a value gets it      *)
(* back.                                                                   *)
HiddenNamesNewest(original) ==
    IF Len(names) > Len(original) THEN Front(names) ELSE names
HiddenNamesUnassigned(original) ==
    HideNames(names, Names \ {original[i].name : i \in {j \in DOMAIN original :
                                                           original[j].value # Unassigned}})
HiddenNames(original) ==
    HideNames(names, Names \ {original[i].name : i \in DOMAIN original})
RestoredSlots(original) ==
    [j \in DOMAIN slots |->
        IF \E i \in DOMAIN original :
              /\ original[i].value # Unassigned
              /\ Known(names, original[i].name) /\ SlotOf(names, original[i].name) = j - 1
        THEN original[CHOOSE i \in DOMAIN original :
                         SlotOf(names, original[i].name) = j - 1].value
        ELSE slots[j]]

EndDebug ==
    LET top == Last(acts)
        d == Len(acts) - 1
    IN  /\ acts # <<>>
        /\ top.kind = "debug"
        /\ \/ /\ ~top.inDef
              /\ acts' = Front(acts)
              /\ UNCHANGED <<names, slots>>
           \/ /\ top.inDef
              /\ \E i \in DOMAIN FrameNames : GetPanics(FrameNames[i])
              /\ acts' = <<[kind |-> "panic"]>>
              /\ UNCHANGED <<names, slots>>
           \/ /\ top.inDef
              /\ \A i \in DOMAIN FrameNames : ~GetPanics(FrameNames[i])
              /\ acts' = [Front(acts) EXCEPT ![d].frame = FrameAfter(@)]
              /\ names' = HiddenNames(top.original)
              /\ slots' = RestoredSlots(top.original)
        /\ code' = Outdated
        /\ UNCHANGED calls

-----------------------------------------------------------------------------
Init ==
    /\ names = <<>>
    /\ slots = <<>>
    /\ acts = <<>>
    /\ code = NoCode
    /\ calls = 0

Next ==
    \/ \E tree \in Trees : More /\ EvalModule(tree)
    \/ \E tree \in Trees : More /\ EvalModuleScopeError(tree)
    \/ \E n \in Names, v \in Values : Assign(n, v)
    \/ \E n \in Names : CompileDef(n)
    \/ Finish
    \/ \E frozen \in BOOLEAN : More /\ Call(frozen)
    \/ \E i \in DOMAIN FrameNames, v \in Values : AssignLocal(i, v)
    \/ \E n \in Names, v \in Values, public \in BOOLEAN : More /\ HostSet(n, v, public)
    \/ \E tree \in Trees : More /\ BeginDebug(tree)
    \/ \E tree \in Trees : More /\ BeginDebugScopeError(tree)
    \/ More /\ BeginDebugNoDef
    \/ BeginDebugPanics /\ UNCHANGED calls
    \/ EndDebug

Spec == Init /\ [][Next]_vars

-----------------------------------------------------------------------------
(***************************************************************************)
(* Properties.                                                             *)
(***************************************************************************)

TypeOK ==
    /\ \A i \in DOMAIN names : /\ names[i].name \in Names
                                /\ names[i].slot \in Nat
                                /\ names[i].public \in BOOLEAN
    /\ slots \in Seq(Values \union {Unassigned})
    /\ \A i \in DOMAIN acts : acts[i].kind \in {"module", "def", "debug", "panic"}
    /\ code.inlined \in Values \union {Unassigned}

(* The size of the table is the next free slot only while the slots of the *)
(* names are exactly 0..n-1, each used once and each name there once:      *)
(* add_name_visibility (names.rs:86) takes it for granted, and hide_name   *)
(* removes names again.                                                    *)
SlotsDistinct ==
    /\ TypeOK
    /\ {names[i].slot : i \in DOMAIN names} = 0..Len(names) - 1
    /\ \A i, j \in DOMAIN names : names[i].name = names[j].name => i = j

(* Code that runs indexes the slots (slots.rs:60): out of bounds it would  *)
(* panic, within them it might read another variable.  Every slot its tree *)
(* resolved a variable to exists, and is still the slot of that name,      *)
(* whatever is declared, fails to resolve or is hidden in evaluations      *)
(* nested in it.  A compiled function refers to a variable by slot for     *)
(* ever: the slot is not given to another name when eval_statements hides  *)
(* the names it added (evaluate.rs:95).  Functions compiled by             *)
(* eval_statements have no such guarantee.                                 *)
RunningHasSlots ==
    /\ \A i \in DOMAIN acts : acts[i].kind = "module" =>
         \A n \in DOMAIN acts[i].slot :
             /\ acts[i].slot[n] < Len(slots)
             /\ Known(names, n) /\ SlotOf(names, n) = acts[i].slot[n]
    /\ code.kept => Known(names, code.name) /\ SlotOf(names, code.name) = code.slot

(* The names of a snapshot are where they were, and those outside W that   *)
(* had a value have that value.                                            *)
PutBack(original, W) ==
    \A i \in DOMAIN original :
        /\ names'[i].name = original[i].name
        /\ names'[i].slot = original[i].slot
        /\ original[i].value # Unassigned /\ original[i].name \notin W
             => slots'[original[i].slot + 1] = original[i].value

(* "Now put the Module back how it was before we started, as best we can"  *)
(* (evaluate.rs:84): when eval_statements in a function has evaluated its  *)
(* statements, to a result, an error or a scope error, the module has the  *)
(* names and slots it had, and every variable that had a value has that    *)
(* value again; one that had none may have one.  The error return at       *)
(* evaluate.rs:81 is before all that, and leaves the locals in the module: *)
(* names are added and the variables with the name of a local are          *)
(* overwritten, but no other.                                              *)
DebugPutsBack ==
    [][ /\ (Len(acts') < Len(acts) /\ Last(acts).kind = "debug" /\ Last(acts).inDef /\ Running')
             => /\ Len(names') = Len(Last(acts).original)
                /\ PutBack(Last(acts).original, {})
        /\ BeginDebugNoDef => PutBack(Original, Range(FrameNames)) ]_vars

(* A local of the paused function that the statements do not write keeps   *)
(* its value, whatever the module or the frozen module has under the same  *)
(* name (evaluate.rs:56-92).  A local whose name occurs twice, as when a   *)
(* comprehension shadows it, is not covered: both slots go through one     *)
(* module variable, and both get the value of the later one.               *)
LocalsKept ==
    [][ (Len(acts') < Len(acts) /\ Last(acts).kind = "debug" /\ Last(acts).inDef /\ Running')
        => LET d == Len(acts) - 1
           IN  \A i \in DOMAIN FrameNames :
                 (/\ acts[d].frame[i] # Unassigned
                  /\ FrameNames[i] \notin Last(acts).touched
                  /\ \A j \in DOMAIN FrameNames : FrameNames[j] = FrameNames[i] => j = i)
                 => acts'[d].frame[i] = acts[d].frame[i] ]_vars

(* "We can only inline variables if they were assigned once otherwise we   *)
(* might inline the wrong value" (expr.rs:1205): while the statements of   *)
(* its own tree run, a value inlined into a function remains the value of  *)
(* the variable, whatever statements assign and whatever other variables   *)
(* the host writes.  Three writes are not counted as assignments, and      *)
(* after them the code may hold another value.  A host or a native         *)
(* function writes that very variable, before or after it is inlined: "the *)
(* program from that point on will incorporate those values"               *)
(* (evaluator.rs:598) does not hold of code compiled by then.  The         *)
(* debugger pushes locals into the module.  The variable is new and its    *)
(* slot still holds the value of a name that eval_statements hid.          *)
InlinedIsCurrent ==
    (code.fresh /\ ~code.tainted /\ code.inlined # Unassigned)
        => slots[code.slot + 1] = code.inlined
=============================================================================
