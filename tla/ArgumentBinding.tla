-------------------------- MODULE ArgumentBinding ---------------------------
(***************************************************************************)
(* From the parameters of a function and the arguments of a call to the    *)
(* slots of the callee: DefParams::unpack (starlark_syntax syntax/def.rs), *)
(* the builder of ParametersSpec as the def instruction and native         *)
(* functions drive it, collect_inline with its fast and slow paths, and    *)
(* can_fill_with_args, which answers the same question without arguments.  *)
(*                                                                         *)
(* A parameter is a record of kind and name; "star" is a bare `*` and      *)
(* "slash" a `/`.  The value of an argument tells where it came from, so   *)
(* that a slot shows which argument it was given.  Indices are those of    *)
(* the code plus one, counts are those of the code.                        *)
(***************************************************************************)
EXTENDS Naturals, Sequences, SequencesExt, FiniteSetsExt

CONSTANTS
    ParamNames,     \* names of parameters, in the order they are given out
    OtherName,      \* a name that is no parameter
    NotAString,     \* a key of a **kwargs dictionary that is no string
    MaxParams,      \* bound: items in a parameter list
    MaxArgs         \* bound: values passed by one call

ASSUME ArgumentBindingAssumption ==
    /\ OtherName \notin Range(ParamNames) /\ NotAString \notin Range(ParamNames)
    /\ OtherName # NotAString
    /\ MaxParams \in Nat /\ MaxArgs \in Nat

VARIABLES
    list,       \* the parameter list as written
    spec,       \* the ParametersSpec built from it, NoSpec before
    call,       \* arguments of the last call
    result      \* what collect returned for it

vars == <<list, spec, call, result>>

NoSpec == [params |-> <<>>, names |-> <<>>, posOnly |-> 0, positional |-> 0,
           args |-> 0, kwargs |-> 0, style |-> "none", panic |-> FALSE]
NoCall == [pos |-> 0, named |-> <<>>, star |-> <<"none">>, dict |-> <<"none">>]
NoResult == [err |-> "pending", slots |-> <<>>]
Unset == <<"unset">>

Regular == {"required", "optional", "defaulted"}
Rank(order, x) == CHOOSE i \in DOMAIN order : order[i] = x

-----------------------------------------------------------------------------
(***************************************************************************)
(* DefParams::unpack: the parameter list of a def.                         *)
(***************************************************************************)

UnpackState == <<"normal", "seenSlash", "seenStar", "seenStarStar">>
Before(u, s) == Rank(UnpackState, u.state) < Rank(UnpackState, s)

\* The error a parameter gives in state u.
Rejected(u, p) ==
    \/ p.kind \notin {"star", "slash"} /\ p.name \in u.seen
    \/ p.kind \in Regular /\ ~Before(u, "seenStarStar")
    \/ p.kind = "required" /\ u.optional /\ Before(u, "seenStar")
    \/ p.kind \in {"star", "args"} /\ ~Before(u, "seenStar")
    \/ p.kind = "slash" /\ ~Before(u, "seenSlash")
    \/ p.kind = "kwargs" /\ ~Before(u, "seenStarStar")

StateAfter(u, p) ==
    CASE p.kind \in {"star", "args"} -> "seenStar"
      [] p.kind = "slash" -> "seenSlash"
      [] p.kind = "kwargs" -> "seenStarStar"
      [] OTHER -> u.state

UnpackParam(u, p) ==
    IF u.failed \/ Rejected(u, p) THEN [u EXCEPT !.failed = TRUE]
    ELSE [u EXCEPT
            !.state = StateAfter(u, p),
            !.seen = @ \union {p.name},
            !.optional = @ \/ p.kind = "defaulted",
            !.positional = IF p.kind \in Regular /\ Before(u, "seenStar") THEN @ + 1 ELSE @,
            !.params = IF p.kind \in {"star", "slash"} THEN @ ELSE Append(@, p),
            !.args = IF p.kind = "args" THEN Len(u.params) + 1 ELSE @,
            !.kwargs = IF p.kind = "kwargs" THEN Len(u.params) + 1 ELSE @]

\* A bare `*` is followed by a named parameter.
StarIsLast(ps) ==
    \E i \in DOMAIN ps : ps[i].kind = "star" /\ (i = Len(ps) \/ ps[i + 1].kind \notin Regular)

Unpack(ps) ==
    LET slash == {i \in DOMAIN ps : ps[i].kind = "slash"}
        posOnly == IF slash = {} THEN 0 ELSE Min(slash) - 1
        start == [state |-> IF posOnly = 0 THEN "seenSlash" ELSE "normal", seen |-> {},
                  optional |-> FALSE, positional |-> 0, posOnly |-> posOnly,
                  params |-> <<>>, args |-> 0, kwargs |-> 0, failed |-> 1 \in slash]
        u == FoldLeft(UnpackParam, start, ps)
    IN  [u EXCEPT !.failed = @ \/ StarIsLast(ps)]

-----------------------------------------------------------------------------
(***************************************************************************)
(* ParametersSpecBuilder.  A failed assert is a panic.                     *)
(***************************************************************************)

Style == <<"posOnly", "posOrNamed", "namedOnly", "noMore">>
Earlier(b, s) == Rank(Style, b.style) < Rank(Style, s)

WithCapacity == [NoSpec EXCEPT !.style = "posOnly"]

Panics(b, cond) == [b EXCEPT !.panic = @ \/ ~cond]

\* add, for required, optional and defaulted.
Add(b, p) ==
    LET i == Len(b.params) + 1
        positional == b.args = 0 /\ b.style # "namedOnly"
    IN  Panics([b EXCEPT
                  !.params = Append(@, p),
                  !.names = IF b.style = "posOnly" THEN @
                            ELSE [n \in DOMAIN @ \union {p.name} |-> IF n = p.name THEN i ELSE @[n]],
                  !.positional = IF positional THEN i ELSE @,
                  !.posOnly = IF positional /\ b.style = "posOnly" THEN i ELSE @],
               /\ Earlier(b, "noMore") /\ b.kwargs = 0
               /\ b.style # "posOnly" => p.name \notin DOMAIN b.names)

Args(b, p) ==
    Panics([b EXCEPT !.params = Append(@, p), !.args = Len(b.params) + 1, !.style = "namedOnly"],
           b.args = 0 /\ Earlier(b, "namedOnly") /\ b.kwargs = 0)

NoMorePositionalOnlyArgs(b) ==
    Panics([b EXCEPT !.style = "posOrNamed"], b.style = "posOnly")

NoMorePositionalArgs(b) ==
    Panics([b EXCEPT !.style = "namedOnly"],
           b.args = 0 /\ Earlier(b, "namedOnly") /\ b.kwargs = 0)

Kwargs(b, p) ==
    Panics([b EXCEPT !.params = Append(@, p), !.kwargs = Len(b.params) + 1, !.style = "noMore"],
           b.kwargs = 0)

Finish(b) == Panics(b, b.posOnly <= b.positional)

Param(b, p) == CASE p.kind \in Regular -> Add(b, p)
                 [] p.kind = "args" -> Args(b, p)
                 [] p.kind = "kwargs" -> Kwargs(b, p)

\* The def instruction: the two ends of positional parameters are announced in
\* front of the parameter at their index, unless that is *args or **kwargs.
InstrDefParamEager(u, b, i) ==
    LET p == u.params[i]
        b1 == IF i - 1 = u.posOnly THEN NoMorePositionalOnlyArgs(b) ELSE b
        b2 == IF i - 1 = u.positional THEN NoMorePositionalArgs(b1) ELSE b1
    IN  Param(b2, p)
InstrDefParam(u, b, i) ==
    LET p == u.params[i]
        b1 == IF i - 1 = u.posOnly /\ p.kind \in Regular THEN NoMorePositionalOnlyArgs(b) ELSE b
        b2 == IF i - 1 = u.positional /\ p.kind \in Regular THEN NoMorePositionalArgs(b1) ELSE b1
    IN  Param(b2, p)

InstrDef(u) ==
    Finish(FoldLeft(LAMBDA b, i : InstrDefParam(u, b, i), WithCapacity,
                    [i \in DOMAIN u.params |-> i]))

\* new_parts, for native functions.
NewParts(posOnly, posOrNamed, args, namedOnly, kwargs) ==
    LET b1 == NoMorePositionalOnlyArgs(FoldLeft(Add, WithCapacity, posOnly))
        b2 == FoldLeft(Add, b1, posOrNamed)
        b3 == IF args = <<>> THEN NoMorePositionalArgs(b2) ELSE Args(b2, args[1])
        b4 == FoldLeft(Add, b3, namedOnly)
    IN  Finish(IF kwargs = <<>> THEN b4 ELSE Kwargs(b4, kwargs[1]))

-----------------------------------------------------------------------------
(***************************************************************************)
(* collect_inline.  The state of the slow path: the slots, the values for  *)
(* *args and for **kwargs, next_position and lowest_name.                  *)
(***************************************************************************)

Pos(n) == [i \in 1..n |-> <<"pos", i>>]
Star(c) == IF c.star[1] = "list" THEN [i \in 1..c.star[2] |-> <<"star", i>>] ELSE <<>>
Dict(c) == IF c.dict[1] = "dict" THEN c.dict[2] ELSE <<>>

Start(s) == [slots |-> [i \in DOMAIN s.params |-> Unset], extra |-> <<>>, kw |-> <<>>,
             next |-> 0, lowest |-> Len(s.params), err |-> "none"]

Fail(st, e) == [st EXCEPT !.err = e]

\* A positional value: the next slot, or *args.
FillPositional(s, st, v) ==
    IF st.next < s.positional
    THEN [st EXCEPT !.slots[st.next + 1] = v, !.next = @ + 1]
    ELSE [st EXCEPT !.extra = Append(@, v)]

\* A named argument: no duplicate is looked for, the lowest index is noted.
FillNamed(s, st, n) ==
    IF n \in DOMAIN s.names
    THEN [st EXCEPT !.slots[s.names[n]] = <<"named", n>>,
                    !.lowest = IF s.names[n] - 1 < @ THEN s.names[n] - 1 ELSE @]
    ELSE [st EXCEPT !.kw = Append(@, <<n, <<"named", n>>>>)]

\* An entry of the **kwargs dictionary.
FillKwarg(s, st, n) ==
    IF st.err # "none" THEN st
    ELSE IF n = NotAString THEN Fail(st, "ArgsValueIsNotString")
    ELSE IF n \in DOMAIN s.names
    THEN IF st.slots[s.names[n]] # Unset THEN Fail(st, "RepeatedArg")
         ELSE [st EXCEPT !.slots[s.names[n]] = <<"dict", n>>]
    ELSE IF \E i \in DOMAIN st.kw : st.kw[i][1] = n THEN Fail(st, "RepeatedArg")
    ELSE [st EXCEPT !.kw = Append(@, <<n, <<"dict", n>>>>)]

\* The check for an argument given by name and by position.
RepeatedAtOnce(st, next) == IF next > st.lowest THEN Fail(st, "RepeatedArg") ELSE st
CheckRepeatedLate(st) == RepeatedAtOnce(st, IF st.next = 0 THEN 0 ELSE st.next - 1)
CheckRepeated(st)     == RepeatedAtOnce(st, st.next)

\* Defaults, from next_position on; a required parameter without a value fails.
Missing(s, st) == \E i \in DOMAIN s.params :
                     i > st.next /\ st.slots[i] = Unset /\ s.params[i].kind = "required"
Defaults(s, st) ==
    IF Missing(s, st) THEN Fail(st, "MissingParameter")
    ELSE [st EXCEPT !.slots = [i \in DOMAIN @ |->
            IF i > st.next /\ @[i] = Unset /\ s.params[i].kind = "defaulted"
            THEN <<"default", s.params[i].name>> ELSE @[i]]]

Extras(s, st) ==
    IF s.args = 0 /\ st.extra # <<>> THEN Fail(st, "ExtraPositionalArg")
    ELSE IF s.kwargs = 0 /\ st.kw # <<>> THEN Fail(st, "ExtraNamedArg")
    ELSE [st EXCEPT !.slots = [i \in DOMAIN @ |-> IF i = s.args THEN <<"tuple", st.extra>>
                                                  ELSE IF i = s.kwargs THEN <<"map", st.kw>>
                                                  ELSE @[i]]]

Then(st, next) == IF st.err # "none" THEN st ELSE next

CollectSlow(s, c) ==
    LET positional(st, vs) == FoldLeft(LAMBDA acc, v : FillPositional(s, acc, v), st, vs)
        st1 == positional(Start(s), Pos(c.pos))
        st2 == FoldLeft(LAMBDA acc, n : FillNamed(s, acc, n), st1, c.named)
        st3 == IF c.star[1] = "other" THEN Fail(st2, "ArgsArrayIsNotIterable")
               ELSE CheckRepeated(positional(st2, Star(c)))
        st4 == Then(st3, IF c.dict[1] = "other" THEN Fail(st3, "KwArgsIsNotDict")
                         ELSE FoldLeft(LAMBDA acc, n : FillKwarg(s, acc, n), st3, Dict(c)))
        st5 == Then(st4, Defaults(s, st4))
        st6 == Then(st5, Extras(s, st5))
    IN  [err |-> st6.err, slots |-> IF st6.err = "none" THEN st6.slots ELSE <<>>]

\* Every parameter is positional and has its value.
FastPath(s, c) ==
    /\ c.pos = s.positional /\ c.pos = Len(s.params)
    /\ c.named = <<>> /\ c.star = <<"none">> /\ c.dict = <<"none">>

Collect(s, c) == IF FastPath(s, c) THEN [err |-> "none", slots |-> Pos(c.pos)]
                 ELSE CollectSlow(s, c)

\* can_fill_with_args.
CanFillNames(s, filled, names) ==
    \A i \in DOMAIN names : IF names[i] \in DOMAIN s.names
                            THEN /\ s.names[names[i]] \notin filled
                                 /\ \A j \in 1..i - 1 : names[j] # names[i]
                            ELSE s.kwargs # 0
CanFillWithArgs(s, pos, names) ==
    LET filled == {i \in DOMAIN s.params : i <= pos /\ i <= s.positional}
        named == {s.names[n] : n \in Range(names) \intersect DOMAIN s.names}
    IN  /\ pos <= s.positional \/ s.args # 0
        /\ CanFillNames(s, filled, names)
        /\ \A i \in DOMAIN s.params : s.params[i].kind = "required" => i \in filled \union named

-----------------------------------------------------------------------------
(***************************************************************************)
(* A parameter list is written item by item, becomes a def or a native     *)
(* function, and is called once.                                           *)
(***************************************************************************)

NamesUsed == {list[i].name : i \in DOMAIN list}

\* *args and **kwargs have names of their own.
AddParameter(kind, name) ==
    /\ spec = NoSpec
    /\ Len(list) < MaxParams
    /\ IF kind \in Regular
       THEN \E k \in DOMAIN ParamNames :
              name = ParamNames[k] /\ (k > 1 => ParamNames[k - 1] \in NamesUsed)
       ELSE name = kind
    /\ list' = Append(list, [kind |-> kind, name |-> name])
    /\ UNCHANGED <<spec, call, result>>

At(ps, kinds) == {i \in DOMAIN ps : ps[i].kind \in kinds}
Of(ps, kinds) == SelectSeq(ps, LAMBDA p : p.kind \in kinds)

\* A def has no optional parameters: only native code does.
DefineDef ==
    /\ spec = NoSpec
    /\ At(list, {"optional"}) = {}
    /\ ~Unpack(list).failed
    /\ spec' = InstrDef(Unpack(list))
    /\ UNCHANGED <<list, call, result>>

\* Items from..to that are parameters.
Between(ps, from, to) == Of(SubSeq(ps, from, to), Regular)

SlashAt(ps) == Max({0} \union At(ps, {"slash"}))
StopAt(ps) == Min({Len(ps) + 1} \union At(ps, {"star", "args", "kwargs"}))

\* The order of `/`, `*` and `**` that the five parts of a signature can have.
InParts(ps) ==
    /\ \A i, j \in DOMAIN ps : ps[i].name = ps[j].name => i = j
    /\ Cardinality(At(ps, {"star", "args"})) <= 1
    /\ SlashAt(ps) < StopAt(ps)
    /\ \A i \in At(ps, {"kwargs"}) : i = Len(ps)

DefineNative ==
    /\ spec = NoSpec
    /\ InParts(list)
    /\ spec' = NewParts(Between(list, 1, SlashAt(list)),
                        Between(list, SlashAt(list) + 1, StopAt(list) - 1),
                        Of(list, {"args"}),
                        Between(list, StopAt(list) + 1, Len(list)),
                        Of(list, {"kwargs"}))
    /\ UNCHANGED <<list, call, result>>

Distinct(s) == \A i, j \in DOMAIN s : s[i] = s[j] => i = j
ArgumentNames == Range(ParamNames) \union {OtherName}

\* The calls that CallArgsUnpack::unpack accepts: the names are distinct, and so
\* are the keys of a dictionary.
Calls ==
    {c \in [pos : 0..MaxArgs,
            named : {s \in SeqOf(ArgumentNames, MaxArgs) : Distinct(s)},
            star : {<<"none">>, <<"other">>} \union ({"list"} \X (0..MaxArgs)),
            dict : {<<"none">>, <<"other">>}
                     \union ({"dict"} \X {s \in SeqOf(ArgumentNames \union {NotAString}, MaxArgs) :
                                            Distinct(s)})] :
        c.pos + Len(c.named) + Len(Star(c)) + Len(Dict(c)) <= MaxArgs}

Invoke ==
    /\ spec # NoSpec
    /\ result = NoResult
    /\ \E c \in Calls : call' = c /\ result' = Collect(spec, c)
    /\ UNCHANGED <<list, spec>>

Init ==
    /\ list = <<>>
    /\ spec = NoSpec
    /\ call = NoCall
    /\ result = NoResult

Next ==
    \/ \E kind \in Regular \union {"star", "slash", "args", "kwargs"},
          name \in Range(ParamNames) \union {"star", "slash", "args", "kwargs"} :
             AddParameter(kind, name)
    \/ DefineDef
    \/ DefineNative
    \/ Invoke

Spec == Init /\ [][Next]_vars

-----------------------------------------------------------------------------
(***************************************************************************)
(* Reference: the rules of the language, stated on the list as written.    *)
(***************************************************************************)

Positional(ps) == Between(ps, 1, StopAt(ps) - 1)
PosOnlyNames(ps) == {ps[i].name : i \in {j \in At(ps, Regular) : j < SlashAt(ps)}}
ByName(ps) == {ps[i].name : i \in At(ps, Regular)} \ PosOnlyNames(ps)

\* The lists a def may have.
Legal(ps) ==
    /\ InParts(ps)
    /\ Cardinality(At(ps, {"slash"})) <= 1
    /\ 1 \notin At(ps, {"slash"})
    /\ \A i \in At(ps, {"star"}) : i + 1 \in At(ps, Regular)
    /\ \A i, j \in DOMAIN Positional(ps) :
         Positional(ps)[i].kind = "defaulted" /\ Positional(ps)[j].kind = "required" => j < i

Given(c) == Pos(c.pos) \o Star(c)
Filled(ps, c) ==
    LET positional == Positional(ps)
    IN  {positional[i].name : i \in {j \in DOMAIN positional : j <= Len(Given(c))}}
NamesGiven(c) == Range(c.named) \union Range(Dict(c))

\* The mistakes of a call.
Mistakes(ps, c) ==
    (IF c.star[1] = "other" THEN {"ArgsArrayIsNotIterable"} ELSE {})
    \union (IF c.dict[1] = "other" THEN {"KwArgsIsNotDict"} ELSE {})
    \union (IF NotAString \in Range(Dict(c)) THEN {"ArgsValueIsNotString"} ELSE {})
    \union (IF \/ Range(c.named) \intersect Range(Dict(c)) # {}
               \/ NamesGiven(c) \intersect ByName(ps) \intersect Filled(ps, c) # {}
            THEN {"RepeatedArg"} ELSE {})
    \union (IF \E i \in At(ps, {"required"}) :
                 ps[i].name \notin Filled(ps, c) \union (NamesGiven(c) \intersect ByName(ps))
            THEN {"MissingParameter"} ELSE {})
    \union (IF Len(Given(c)) > Len(Positional(ps)) /\ At(ps, {"args"}) = {}
            THEN {"ExtraPositionalArg"} ELSE {})
    \union (IF NamesGiven(c) \ (ByName(ps) \union {NotAString}) # {} /\ At(ps, {"kwargs"}) = {}
            THEN {"ExtraNamedArg"} ELSE {})

\* What a parameter is bound to by a call without mistakes.
BoundTo(ps, c, p) ==
    LET others == SelectSeq(c.named \o Dict(c), LAMBDA n : n \notin ByName(ps))
        from(n) == IF n \in Range(c.named) THEN <<"named", n>> ELSE <<"dict", n>>
    IN  CASE p.kind = "args" ->
               <<"tuple", SubSeq(Given(c), Len(Positional(ps)) + 1, Len(Given(c)))>>
          [] p.kind = "kwargs" -> <<"map", [i \in DOMAIN others |-> <<others[i], from(others[i])>>]>>
          [] p.name \in Filled(ps, c) ->
               Given(c)[CHOOSE i \in DOMAIN Positional(ps) : Positional(ps)[i] = p]
          [] p.name \in NamesGiven(c) \intersect ByName(ps) -> from(p.name)
          [] p.kind = "defaulted" -> <<"default", p.name>>
          [] OTHER -> Unset

-----------------------------------------------------------------------------
(***************************************************************************)
(* Properties.                                                             *)
(***************************************************************************)

TypeOK ==
    /\ \A i \in DOMAIN list : list[i].kind \in Regular \union {"star", "slash", "args", "kwargs"}
    /\ spec.panic \in BOOLEAN
    /\ spec.posOnly \in 0..Len(spec.params) /\ spec.positional \in 0..Len(spec.params)
    /\ \A n \in DOMAIN spec.names : spec.names[n] \in DOMAIN spec.params

\* A def is accepted exactly when its parameter list is legal, and what the def
\* instruction then builds without a failed assert (spec.rs:148-300) has the
\* shape of the list: the names that may be given, the counts and the places of
\* *args and **kwargs that the parser computed (def.rs:340).
SpecFollowsList ==
    /\ TypeOK
    /\ (spec = NoSpec /\ At(list, {"optional"}) = {}) => (~Unpack(list).failed <=> Legal(list))
    /\ (spec # NoSpec /\ result = NoResult) =>
         /\ ~spec.panic
         /\ spec.params = Of(list, Regular \union {"args", "kwargs"})
         /\ DOMAIN spec.names = ByName(list)
         /\ spec.positional = Len(Positional(list))
         /\ spec.args # 0 => spec.args = spec.positional + 1
         /\ spec.kwargs # 0 => spec.kwargs = Len(spec.params)

\* collect gives every parameter the argument the rules of the language give it,
\* by the fast path and by the slow one, and fails exactly on the calls that
\* have a mistake, naming one they have: a clash of a name with a position is
\* found whether the position came from *args or not, although the slow path
\* looks only at the lowest index that was named (spec.rs:627-669).  And
\* can_fill_with_args answers as collect would (spec.rs:793).
BindsByTheRules ==
    result # NoResult =>
        LET mistakes == Mistakes(list, call)
        IN  /\ IF mistakes = {}
               THEN /\ result.err = "none"
                    /\ result.slots = [i \in DOMAIN spec.params |-> BoundTo(list, call, spec.params[i])]
               ELSE result.err \in mistakes
            /\ (call.star = <<"none">> /\ call.dict = <<"none">>)
                 => (CanFillWithArgs(spec, call.pos, call.named) <=> result.err = "none")
=============================================================================
