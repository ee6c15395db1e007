------------------------------- MODULE Scopes -------------------------------
(***************************************************************************)
(* Name resolution: the walk of ModuleScopeBuilder over a module.  Every   *)
(* def and lambda is a scope with numbered slots; a comprehension is not a *)
(* scope of its own: its variables get fresh slots of the enclosing scope  *)
(* and replace the scope's names until the comprehension ends (Unscope).   *)
(* A name found in an outer scope is copied down, scope by scope, into     *)
(* slots that are filled from the parent when the closure is made.         *)
(*                                                                         *)
(* The syntax tree is the environment: at any point the walk may enter a   *)
(* def with any parameters and assigned names, enter a comprehension with  *)
(* any variables, meet an identifier, or leave the innermost construct.    *)
(* What runs outside a construct although it is written inside it (default *)
(* values, parameter types, the first `over` of a comprehension) is        *)
(* walked before the construct is entered.                                 *)
(*                                                                         *)
(* `env` is the reference: the stack of lexical blocks around the current  *)
(* point.  No operation of the resolver reads it.                          *)
(***************************************************************************)
EXTENDS Naturals, Sequences, FiniteSets, SequencesExt, Functions

CONSTANTS
    Names,
    MaxScopes,      \* bound: the module scope and the defs of one walk
    MaxBindings,    \* bound: variables of one walk
    MaxBlocks       \* bound: nesting of defs and comprehensions

ASSUME ScopesAssumption ==
    /\ IsFiniteSet(Names)
    /\ {MaxScopes, MaxBindings, MaxBlocks} \subseteq Nat

VARIABLES
    bindings,       \* BindingId -> its name, owner scope, slot and captured flag
    scopes,         \* ScopeId -> ScopeNames; scope 1 is the module scope
    locals,         \* the scopes around the current point, outermost first
    unscopes,       \* one table of replaced names for each open comprehension
    module_bindings,
    env,            \* reference: the lexical blocks around the current point
    inner,          \* reference: variables some nested def refers to
    last            \* the identifier resolved last, and what it should be

vars == <<bindings, scopes, locals, unscopes, module_bindings, env, inner, last>>

NoName == [slot |-> 0, binding |-> 0]
Nothing == [scope |-> 0, slot |-> 0, binding |-> 0, expected |-> 0]

ModuleScope == 1
ModuleOwner == 0        \* owner of a variable that lives in a module slot

EmptyNames == [used |-> <<>>, mp |-> <<>>, parent |-> <<>>]

NewBinding(n, owner, slot) == [name |-> n, owner |-> owner, slot |-> slot, captured |-> FALSE]

(* f with the pairs of g added, g first.                                   *)
Overlay(f, g) ==
    [n \in DOMAIN f \union DOMAIN g |-> IF n \in DOMAIN g THEN g[n] ELSE f[n]]

(* The names of seq ns as variables numbered from b on, in slots numbered  *)
(* from s on.                                                              *)
SlotTable(ns, s, b) ==
    [n \in Range(ns) |->
        LET i == CHOOSE i \in DOMAIN ns : ns[i] = n
        IN  [slot |-> s + i - 1, binding |-> b + i]]

(* The reference's view of the same names.                                 *)
BlockOf(kind, scope, ns, b) ==
    [kind |-> kind, scope |-> scope,
     names |-> [n \in Range(ns) |-> b + (CHOOSE i \in DOMAIN ns : ns[i] = n)]]

-----------------------------------------------------------------------------
(***************************************************************************)
(* ScopeNames.                                                             *)
(***************************************************************************)

(* add_name for each name of ns in turn, and add_scoped: a fresh slot that *)
(* the name now stands for.                                                *)
AddNames(sc, ns, b) ==
    [sc EXCEPT !.used = @ \o ns,
               !.mp = Overlay(@, SlotTable(ns, Len(sc.used), b))]

(* copy_parent: a fresh slot for the name, filled from parent_slot.        *)
CopyParent(sc, parent_slot, binding, n) ==
    [used |-> Append(sc.used, n),
     mp |-> Overlay(sc.mp, [m \in {n} |-> [slot |-> Len(sc.used), binding |-> binding]]),
     parent |-> Append(sc.parent, [parent |-> parent_slot, child |-> Len(sc.used)])]

(* What add_scoped remembers of the names it replaces.                     *)
Undo(sc, ns) ==
    [n \in Range(ns) |-> IF n \in DOMAIN sc.mp THEN sc.mp[n] ELSE NoName]

(* unscope: names that were unknown go, the others come back.              *)
UnscopeKeepNew(sc, undo) ==
    [sc EXCEPT !.mp =
        [n \in DOMAIN @ |->
            IF n \in DOMAIN undo /\ undo[n] # NoName THEN undo[n] ELSE @[n]]]
Unscope(sc, undo) ==
    [sc EXCEPT !.mp =
        [n \in {m \in DOMAIN @ : m \in DOMAIN undo => undo[m] # NoName} |->
            IF n \in DOMAIN undo THEN undo[n] ELSE @[n]]]

-----------------------------------------------------------------------------
(***************************************************************************)
(* The walk.                                                               *)
(***************************************************************************)

TopScopeId == Last(locals)

(* enter_module: the names of the module, old and new, get module slots.   *)
Init ==
    \E defined \in SUBSET Names :
        LET ns == SetToSeq(defined)
        IN  /\ bindings = [i \in DOMAIN ns |-> NewBinding(ns[i], ModuleOwner, i - 1)]
            /\ module_bindings = [n \in defined |-> CHOOSE i \in DOMAIN ns : ns[i] = n]
            /\ scopes = <<EmptyNames>>
            /\ locals = <<ModuleScope>>
            /\ unscopes = <<>>
            /\ env = <<BlockOf("module", ModuleScope, ns, 0)>>
            /\ inner = {}
            /\ last = Nothing

Bounded(ns) ==
    /\ Len(env) < MaxBlocks
    /\ Len(bindings) + Len(ns) <= MaxBindings

(* A def or lambda: collect_defines_in_def gave its parameters the first   *)
(* slots and then a slot to every other name its body assigns; enter_def   *)
(* makes it the innermost scope.                                           *)
EnterDef(params, assigned) ==
    LET ns == SetToSeq(params) \o SetToSeq(assigned \ params)
        id == Len(scopes) + 1
    IN  /\ id <= MaxScopes
        /\ Bounded(ns)
        /\ bindings' = bindings \o [i \in DOMAIN ns |-> NewBinding(ns[i], id, i - 1)]
        /\ scopes' = Append(scopes, AddNames(EmptyNames, ns, Len(bindings)))
        /\ locals' = Append(locals, id)
        /\ env' = Append(env, BlockOf("def", id, ns, Len(bindings)))
        /\ UNCHANGED <<unscopes, module_bindings, inner, last>>

(* exit_def                                                                *)
ExitDef ==
    /\ Last(env).kind = "def"
    /\ locals' = Front(locals)
    /\ env' = Front(env)
    /\ UNCHANGED <<bindings, scopes, unscopes, module_bindings, inner, last>>

(* enter_compr and add_compr: the variables of all the `for` clauses       *)
(* replace the names of the innermost scope together.                      *)
EnterCompr(targets) ==
    LET ns == SetToSeq(targets)
        id == TopScopeId
        first == Len(scopes[id].used)
    IN  /\ Bounded(ns)
        /\ bindings' = bindings \o [i \in DOMAIN ns |-> NewBinding(ns[i], id, first + i - 1)]
        /\ scopes' = [scopes EXCEPT ![id] = AddNames(@, ns, Len(bindings))]
        /\ unscopes' = Append(unscopes, Undo(scopes[id], ns))
        /\ env' = Append(env, BlockOf("compr", id, ns, Len(bindings)))
        /\ UNCHANGED <<locals, module_bindings, inner, last>>

(* exit_compr                                                              *)
ExitCompr ==
    /\ Last(env).kind = "compr"
    /\ scopes' = [scopes EXCEPT ![TopScopeId] = Unscope(@, Last(unscopes))]
    /\ unscopes' = Front(unscopes)
    /\ env' = Front(env)
    /\ UNCHANGED <<bindings, locals, module_bindings, inner, last>>

(* Where get_name finds n: the innermost scope that knows it.              *)
LevelOf(n) ==
    LET found == {i \in DOMAIN locals : n \in DOMAIN scopes[locals[i]].mp}
    IN  IF found = {} THEN 0 ELSE CHOOSE i \in found : \A j \in found : j <= i

(* The slot of level j - 1 from which level j copies a name known at i.    *)
ParentSlotOfOwner(n, i, j) == scopes[locals[i]].mp[n].slot
ParentSlot(n, i, j) ==
    IF j = i + 1 THEN scopes[locals[i]].mp[n].slot ELSE Len(scopes[locals[j - 1]].used)

(* The lexical meaning of n at the current point.                          *)
Meaning(n, blocks) ==
    LET found == {i \in DOMAIN blocks : n \in DOMAIN blocks[i].names}
    IN  IF found = {} THEN 0
        ELSE blocks[CHOOSE i \in found : \A j \in found : j <= i].names[n]

(* get_name, found in a scope: the variable is captured when the scope is  *)
(* an outer one, and the name is copied into each scope on the way in.     *)
FoundAbove(n, i) == scopes[locals[i]].mp[n].binding

Capture(b, i) ==
    IF i # Len(locals) THEN [bindings EXCEPT ![b].captured = TRUE] ELSE bindings

GetLocalName(n) ==
    LET i == LevelOf(n)
        b == FoundAbove(n, i)
        depth == Len(locals)
    IN  /\ i > 0
        /\ bindings' = Capture(b, i)
        /\ scopes' = [s \in DOMAIN scopes |->
                        IF \E j \in i + 1..depth : locals[j] = s
                        THEN LET j == CHOOSE j \in i + 1..depth : locals[j] = s
                             IN  CopyParent(scopes[s], ParentSlot(n, i, j), b, n)
                        ELSE scopes[s]]
        /\ last' = [scope |-> TopScopeId, binding |-> b,
                    slot |-> scopes'[TopScopeId].mp[n].slot,
                    expected |-> Meaning(n, env)]

(* get_name, found in no scope: a variable of the module, captured unless  *)
(* the use is at module level, or else a global or an error.               *)
GetModuleName(n) ==
    LET b == module_bindings[n]
    IN  /\ LevelOf(n) = 0
        /\ n \in DOMAIN module_bindings
        /\ bindings' = IF Len(locals) > 1 THEN [bindings EXCEPT ![b].captured = TRUE]
                                          ELSE bindings
        /\ last' = [scope |-> TopScopeId, slot |-> bindings[b].slot, binding |-> b,
                    expected |-> Meaning(n, env)]
        /\ UNCHANGED scopes

GetNoName(n) ==
    /\ LevelOf(n) = 0
    /\ n \notin DOMAIN module_bindings
    /\ last' = [Nothing EXCEPT !.scope = TopScopeId, !.expected = Meaning(n, env)]
    /\ UNCHANGED <<bindings, scopes>>

(* resolve_ident.  An identifier of a type expression is resolved the same *)
(* way; one that turns out to be local is then reported as an error.       *)
ResolveIdent(n) ==
    LET b == Meaning(n, env)
    IN  /\ GetLocalName(n) \/ GetModuleName(n) \/ GetNoName(n)
        /\ inner' = IF /\ b # 0
                       /\ \E i \in DOMAIN env :
                             /\ env[i].kind = "def"
                             /\ \A j \in i..Len(env) :
                                   n \in DOMAIN env[j].names => env[j].names[n] # b
                    THEN inner \union {b}
                    ELSE inner
        /\ UNCHANGED <<locals, unscopes, module_bindings, env>>

Next ==
    \/ \E params, assigned \in SUBSET Names : EnterDef(params, assigned)
    \/ ExitDef
    \/ \E targets \in SUBSET Names \ {{}} : EnterCompr(targets)
    \/ ExitCompr
    \/ \E n \in Names : ResolveIdent(n)

Spec == Init /\ [][Next]_vars

-----------------------------------------------------------------------------
(***************************************************************************)
(* Properties.                                                             *)
(***************************************************************************)

TypeOK ==
    /\ \A b \in DOMAIN bindings : bindings[b].name \in Names
    /\ \A s \in DOMAIN scopes : scopes[s].used \in Seq(Names)
    /\ locals \in Seq(DOMAIN scopes)
    /\ Len(unscopes) = Cardinality({k \in DOMAIN env : env[k].kind = "compr"})

(* What level i of the walk sees: the blocks up to the next def inwards.   *)
BlocksOfLevel(i) ==
    LET outer == {j \in DOMAIN env : env[j].kind = "def" /\ env[j].scope = locals[i + 1]}
    IN  IF i = Len(locals) THEN env
        ELSE SubSeq(env, 1, (CHOOSE j \in outer : TRUE) - 1)

(* Every open scope's table agrees with lexical scoping at its point of    *)
(* the walk: a name it holds stands for the innermost variable of that     *)
(* name there, whatever comprehensions have replaced and restored and      *)
(* whatever has been copied from outside in between, and every name that   *)
(* a def or an open comprehension of this scope binds is held.  So every   *)
(* identifier resolves to the innermost variable of its name.              *)
ResolutionIsLexical ==
    /\ TypeOK
    /\ last.binding = last.expected
    /\ \A i \in DOMAIN locals :
         LET mp == scopes[locals[i]].mp
             blocks == BlocksOfLevel(i)
         IN  /\ \A n \in DOMAIN mp : mp[n].binding = Meaning(n, blocks)
             /\ \A j \in DOMAIN blocks :
                   blocks[j].scope = locals[i] /\ blocks[j].kind # "module"
                      => DOMAIN blocks[j].names \subseteq DOMAIN mp

(* The slot a slot of scope s is filled from when the closure is made.     *)
Source(s, slot) == {c.parent : c \in {d \in Range(scopes[s].parent) : d.child = slot}}

(* The slots from which slot `slot` at level i of the walk is filled, from *)
(* level i outwards.                                                       *)
Chain(i, slot) ==
    LET at[j \in 1..i] == IF j = i THEN {slot}
                          ELSE UNION {Source(locals[j + 1], t) : t \in at[j + 1]}
    IN  at

(* Following the copies of a name outwards from any open scope ends at the *)
(* very slot of the scope that owns the variable, and no scope fills a     *)
(* slot from two places: the closure finds the owner's variable.  And what *)
(* it finds is a cell that both share: a variable is marked captured, so   *)
(* that its slot holds a cell and not the value, exactly when some nested  *)
(* def refers to it.                                                       *)
ClosuresShareVariables ==
    /\ \A i \in DOMAIN locals :
         \A n \in DOMAIN scopes[locals[i]].mp :
             LET e == scopes[locals[i]].mp[n]
                 b == bindings[e.binding]
                 chain == Chain(i, e.slot)
             IN  \E j \in 1..i : /\ locals[j] = b.owner
                                 /\ chain[j] = {b.slot}
                                 /\ Source(locals[j], b.slot) = {}
    /\ \A b \in DOMAIN bindings : bindings[b].captured <=> b \in inner
=============================================================================
