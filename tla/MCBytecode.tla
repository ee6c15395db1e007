----------------------------- MODULE MCBytecode -----------------------------
EXTENDS Bytecode

\* Locals: the parameter p, a variable x, a captured variable c and the
\* variable z of comprehensions.
p == 0
x == 1
c == 2
z == 3

Local(v) == [e |-> "local", x |-> v]
CallE == [e |-> "call"]
NotE(a) == [e |-> "not", a |-> a]
BinE(op, a, b) == [e |-> op, a |-> a, b |-> b]
IfE(cond, t, f) == [e |-> "if", c |-> cond, t |-> t, f |-> f]
Clause(v, over, ifs) == [x |-> v, over |-> over, ifs |-> ifs]
ComprE(elem, clauses) == [e |-> "compr", elem |-> elem, clauses |-> clauses]

Atoms == {Local(p), Local(x), Local(c), CallE}
Conds ==
    {Local(x), CallE, NotE(CallE), BinE("and", CallE, Local(x)), BinE("or", CallE, Local(x)),
     NotE(BinE("and", Local(x), CallE)), BinE("or", BinE("and", CallE, Local(x)), NotE(Local(p)))}
Exprs ==
    Conds \union
    {Local(p), Local(c), BinE("add", Local(p), Local(x)), IfE(CallE, Local(x), Local(p)),
     ComprE(Local(z), <<Clause(z, Local(p), <<CallE>>)>>),
     ComprE(Local(x), <<Clause(z, Local(x), <<>>), Clause(c, CallE, <<Local(z)>>)>>)}

ExprS(a) == [s |-> "expr", a |-> a]
AssignS(v, a) == [s |-> "assign", x |-> v, a |-> a]
AddS(v, a) == [s |-> "addassign", x |-> v, a |-> a]
IfS(cond, t, f) == [s |-> "if", c |-> cond, t |-> t, f |-> f]
ForS(v, over, body) == [s |-> "for", x |-> v, over |-> over, body |-> body]
BreakS == [s |-> "break"]
ContinueS == [s |-> "continue"]
ReturnS(a) == [s |-> "return", a |-> a]

Plain == {ExprS(Local(x)), AssignS(x, CallE), AssignS(c, Local(x)), AddS(p, Local(p)),
          AddS(x, Local(p)), AddS(c, CallE), ReturnS(Local(x))}
Leave == {BreakS, ContinueS, ReturnS([e |-> "const", v |-> True]), ReturnS(CallE)}
Bodies ==
    {<<s>> : s \in Plain \union Leave} \union
    {<<IfS(CallE, <<l>>, <<>>), s>> : l \in Leave, s \in Plain} \union
    {<<IfS(Local(x), <<s>>, <<l>>)>> : l \in Leave, s \in Plain}
Loops ==
    {ForS(v, over, body) : v \in {x, c}, over \in {Local(p), CallE}, body \in Bodies}
Nested ==
    {ForS(c, Local(p), <<ForS(x, Local(p), body), s>>) :
        body \in {<<IfS(CallE, <<l>>, <<>>)>> : l \in Leave}, s \in Leave \union Plain}

OneStmt == {AssignS(x, e) : e \in Exprs} \union {ExprS(e) : e \in Exprs}
Ifs == {IfS(e, <<AssignS(x, CallE)>>, <<>>) : e \in Conds}
       \union {IfS(e, <<>>, <<s>>) : e \in Conds, s \in Plain}

MCPrograms ==
    {[body |-> b, typed |-> FALSE] :
        b \in {<<s, r>> : s \in OneStmt \union Ifs, r \in OneStmt \union Plain}
              \union {<<f, s, l>> : f \in {ExprS(Local(p)), AssignS(x, CallE)},
                                    s \in Plain, l \in Loops}
              \union {<<l, s>> : l \in Loops \union Nested, s \in Plain}}
    \union {[body |-> <<l>>, typed |-> TRUE] : l \in Loops \union Nested}

MCCallValues == {True, False, Val("list", 1)}
MCCaptured == {c}
=============================================================================
