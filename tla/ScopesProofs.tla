---------------------------- MODULE ScopesProofs ----------------------------
(***************************************************************************)
(* Proofs about name resolution, for any names, any number of scopes and   *)
(* variables, and any nesting of defs and comprehensions.                  *)
(*                                                                         *)
(* Slots are never given twice and a copy always fills a fresh slot, so    *)
(* what an entry of a scope's table leads to outwards stays what it was    *)
(* while the walk goes on.  That holds of the entries the open             *)
(* comprehensions have replaced as well, and what those meant was fixed by *)
(* the blocks around the comprehension, which are still open when          *)
(* exit_compr puts the entries back.                                       *)
(***************************************************************************)
EXTENDS Scopes, SeqFacts

-----------------------------------------------------------------------------
(***************************************************************************)
(* The invariant.                                                          *)
(***************************************************************************)
EntrySet == [slot : Nat, binding : Nat]
Tables == UNION {[S -> EntrySet] : S \in SUBSET Names}
CopySet == [parent : Nat, child : Nat]
ScopeSet == [used : Seq(Names), mp : Tables, parent : Seq(CopySet)]
BindingSet == [name : Names, owner : Nat, slot : Nat, captured : BOOLEAN]
NameSets == UNION {[S -> Nat] : S \in SUBSET Names}
BlockSet == [kind : {"module", "def", "compr"}, scope : Nat, names : NameSets]

(* A scope copies only into slots it has.                                  *)
CopiesOK(sc) == \A c \in 1..Len(sc.parent) : sc.parent[c].child < Len(sc.used)

Form ==
  /\ bindings \in Seq(BindingSet)
  /\ scopes \in Seq(ScopeSet)
  /\ \A s \in 1..Len(scopes) : CopiesOK(scopes[s])
  /\ locals \in Seq(1..Len(scopes))
  /\ unscopes \in Seq(Tables)
  /\ env \in Seq(BlockSet)

(* The open blocks and the open scopes nest alike: the scopes increase     *)
(* inwards, each but the module scope has the one def that opened it, and  *)
(* the comprehensions of a scope lie inside its def.                       *)
Nests(ls, ev) ==
  /\ 1 \in DOMAIN ls /\ 1 \in DOMAIN ev
  /\ ls[1] = ModuleScope /\ ev[1].scope = ModuleScope
  /\ \A i, j \in DOMAIN ls : i < j => ls[i] < ls[j]
  /\ \A k \in DOMAIN ev : /\ ev[k].kind = "module" <=> k = 1
                          /\ \E i \in DOMAIN ls : ev[k].scope = ls[i]
  /\ \A j, k \in DOMAIN ev :
        j < k => /\ ev[j].scope <= ev[k].scope
                 /\ ev[k].kind = "def" => ev[j].scope < ev[k].scope
  /\ \A i \in DOMAIN ls : i # 1 =>
        \E k \in DOMAIN ev : ev[k].kind = "def" /\ ev[k].scope = ls[i]

(* The variable a block's name stands for belongs to the block's scope.    *)
OwnerOf(ev, k) == IF k = 1 THEN ModuleOwner ELSE ev[k].scope
Declares(bs, ev, k) ==
  \A n \in DOMAIN ev[k].names : /\ ev[k].names[n] \in DOMAIN bs
                                /\ bs[ev[k].names[n]].owner = OwnerOf(ev, k)

(* Of the blocks in V, the innermost one that binds n binds it to b.       *)
Sees(ev, V, n, b) ==
  \E k \in V : /\ n \in DOMAIN ev[k].names /\ b = ev[k].names[n]
               /\ \A j \in V : k < j => n \notin DOMAIN ev[j].names

Sources(p, slot) == {c.parent : c \in {d \in Range(p) : d.child = slot}}

(* Following the copies outwards from a slot of level i leads to the slot  *)
(* of variable b in the scope that owns it, and ends there.                *)
Leads(bs, scs, ls, i, slot, b) ==
  \E j \in 1..i : \E path \in [1..i -> Nat] :
     /\ ls[j] = bs[b].owner
     /\ path[i] = slot /\ path[j] = bs[b].slot
     /\ Sources(scs[ls[j]].parent, path[j]) = {}
     /\ \A t \in j..i : path[t] < Len(scs[ls[t]].used)
     /\ \A t \in j + 1..i : Sources(scs[ls[t]].parent, path[t]) = {path[t - 1]}

(* An entry for n in the table of level i that is right as long as the     *)
(* blocks in V are what level i sees.                                      *)
EntryOK(bs, scs, ls, ev, e, n, i, V) ==
  /\ e.binding \in DOMAIN bs
  /\ Sees(ev, V, n, e.binding)
  /\ Leads(bs, scs, ls, i, e.slot, e.binding)
  /\ bs[e.binding].owner # ls[i] => bs[e.binding].captured

Seen(ls, ev, i) == {k \in DOMAIN ev : ev[k].scope <= ls[i]}

AgreesAt(bs, scs, ls, ev, i) ==
  \A n \in DOMAIN scs[ls[i]].mp :
     EntryOK(bs, scs, ls, ev, scs[ls[i]].mp[n], n, i, Seen(ls, ev, i))

HoldsAt(scs, ls, ev, i) ==
  \A k \in DOMAIN ev :
     k # 1 /\ ev[k].scope = ls[i] => DOMAIN ev[k].names \subseteq DOMAIN scs[ls[i]].mp

(* The table of replaced names of the comprehension that is block k.       *)
UndoOK(bs, scs, ls, ev, u, k) ==
  /\ DOMAIN u = DOMAIN ev[k].names
  /\ \A n \in DOMAIN u :
       /\ u[n] = NoName => \A j \in 2..k - 1 : ev[j].scope = ev[k].scope
                                                 => n \notin DOMAIN ev[j].names
       /\ u[n] # NoName => \A i \in DOMAIN ls : ev[k].scope = ls[i]
                             => EntryOK(bs, scs, ls, ev, u[n], n, i, 1..k - 1)

(* The q-th open comprehension is the block pos[q].                        *)
ComprsAt(us, ev, pos) ==
  /\ pos \in [1..Len(us) -> DOMAIN ev]
  /\ \A p, q \in 1..Len(us) : p < q => pos[p] < pos[q]
  /\ \A k \in DOMAIN ev : ev[k].kind = "compr" <=> \E q \in 1..Len(us) : pos[q] = k

UndosOK(bs, scs, ls, us, ev) ==
  \E pos : /\ ComprsAt(us, ev, pos)
           /\ \A q \in 1..Len(us) : UndoOK(bs, scs, ls, ev, us[q], pos[q])

IInv ==
  /\ Form
  /\ Nests(locals, env)
  /\ \A k \in DOMAIN env : Declares(bindings, env, k)
  /\ module_bindings = env[1].names
  /\ \A i \in DOMAIN locals : /\ AgreesAt(bindings, scopes, locals, env, i)
                              /\ HoldsAt(scopes, locals, env, i)
  /\ UndosOK(bindings, scopes, locals, unscopes, env)
  /\ \A b \in DOMAIN bindings : bindings[b].captured <=> b \in inner
  /\ inner \subseteq DOMAIN bindings
  /\ last.binding = last.expected

-----------------------------------------------------------------------------
(***************************************************************************)
(* What the operators on scopes and blocks return.                         *)
(***************************************************************************)
LEMMA TableFacts ==
  ASSUME NEW f
  PROVE  f \in Tables <=> /\ f = [n \in DOMAIN f |-> f[n]]
                          /\ DOMAIN f \subseteq Names
                          /\ \A n \in DOMAIN f : f[n] \in EntrySet
BY DEF Tables

LEMMA NameSetFacts ==
  ASSUME NEW f
  PROVE  f \in NameSets <=> /\ f = [n \in DOMAIN f |-> f[n]]
                            /\ DOMAIN f \subseteq Names
                            /\ \A n \in DOMAIN f : f[n] \in Nat
BY DEF NameSets

Index(ns, n) == CHOOSE i \in DOMAIN ns : ns[i] = n

LEMMA IndexFacts ==
  ASSUME NEW S, NEW ns \in Seq(S)
  PROVE  /\ Range(ns) \subseteq S
         /\ \A n \in Range(ns) : Index(ns, n) \in 1..Len(ns) /\ ns[Index(ns, n)] = n
         /\ \A k \in 1..Len(ns) : ns[k] \in Range(ns)
<1>1. DOMAIN ns = 1..Len(ns) /\ \A k \in 1..Len(ns) : ns[k] \in S
  OBVIOUS
<1>2. \A n \in Range(ns) : \E i \in DOMAIN ns : ns[i] = n
  BY DEF Range
<1>3. \A n \in Range(ns) : Index(ns, n) \in DOMAIN ns /\ ns[Index(ns, n)] = n
  BY <1>2 DEF Index
<1> QED BY <1>1, <1>2, <1>3 DEF Range

LEMMA BlockFacts ==
  ASSUME NEW kind \in {"module", "def", "compr"}, NEW s \in Nat, NEW ns \in Seq(Names), NEW b \in Nat
  PROVE  /\ BlockOf(kind, s, ns, b) \in BlockSet
         /\ BlockOf(kind, s, ns, b).kind = kind
         /\ BlockOf(kind, s, ns, b).scope = s
         /\ DOMAIN BlockOf(kind, s, ns, b).names = Range(ns)
         /\ \A n \in Range(ns) : BlockOf(kind, s, ns, b).names[n] = b + Index(ns, n)
<1> DEFINE f == [n \in Range(ns) |-> b + Index(ns, n)]
<1>1. BlockOf(kind, s, ns, b) = [kind |-> kind, scope |-> s, names |-> f]
  BY DEF BlockOf, Index
<1>2. f \in NameSets
  <2>1. \A n \in Range(ns) : Index(ns, n) \in 1..Len(ns)
    BY IndexFacts
  <2>2. \A n \in Range(ns) : b + Index(ns, n) \in Nat
    BY <2>1
  <2>3. f \in [Range(ns) -> Nat]
    BY <2>2
  <2>4. Range(ns) \in SUBSET Names
    BY IndexFacts
  <2> QED BY <2>3, <2>4 DEF NameSets
<1>3. DOMAIN f = Range(ns) /\ \A n \in Range(ns) : f[n] = b + Index(ns, n)
  OBVIOUS
<1> HIDE DEF f
<1> QED BY <1>1, <1>2, <1>3 DEF BlockSet

(* add_name and add_scoped give each name a fresh slot, and leave the      *)
(* other names and the copies as they are.                                 *)
LEMMA AddNamesFacts ==
  ASSUME NEW sc \in ScopeSet, NEW ns \in Seq(Names), NEW b \in Nat
  PROVE  /\ AddNames(sc, ns, b) \in ScopeSet
         /\ Len(AddNames(sc, ns, b).used) = Len(sc.used) + Len(ns)
         /\ AddNames(sc, ns, b).parent = sc.parent
         /\ DOMAIN AddNames(sc, ns, b).mp = DOMAIN sc.mp \union Range(ns)
         /\ \A n \in DOMAIN sc.mp : n \notin Range(ns) => AddNames(sc, ns, b).mp[n] = sc.mp[n]
         /\ \A n \in Range(ns) : /\ AddNames(sc, ns, b).mp[n].slot = Len(sc.used) + Index(ns, n) - 1
                                 /\ AddNames(sc, ns, b).mp[n].binding = b + Index(ns, n)
<1> DEFINE g == [n \in Range(ns) |-> [slot |-> Len(sc.used) + Index(ns, n) - 1, binding |-> b + Index(ns, n)]]
           f == Overlay(sc.mp, g)
           r == AddNames(sc, ns, b)
<1>0. sc.used \in Seq(Names) /\ sc.mp \in Tables /\ sc.parent \in Seq(CopySet) /\ Len(sc.used) \in Nat
  BY DEF ScopeSet
<1>1. SlotTable(ns, Len(sc.used), b) = g
  BY DEF SlotTable, Index
<1>2. r = [used |-> sc.used \o ns, mp |-> f, parent |-> sc.parent]
  <2>1. sc = [used |-> sc.used, mp |-> sc.mp, parent |-> sc.parent]
    BY DEF ScopeSet
  <2>2. \A u, m : [sc EXCEPT !.used = u, !.mp = m] = [used |-> u, mp |-> m, parent |-> sc.parent]
    <3> TAKE u, m
    <3> DEFINE v == [sc EXCEPT !.used = u]
    <3>1. v = [used |-> u, mp |-> sc.mp, parent |-> sc.parent]
      BY <2>1
    <3> HIDE DEF v
    <3>2. [v EXCEPT !.mp = m] = [used |-> u, mp |-> m, parent |-> sc.parent]
      BY <3>1
    <3> QED BY <3>2 DEF v
  <2>3. r = [sc EXCEPT !.used = sc.used \o ns, !.mp = f]
    BY <1>1 DEF AddNames
  <2> HIDE DEF r, f
  <2> QED BY <2>2, <2>3
<1>3. \A n \in Range(ns) : Index(ns, n) \in 1..Len(ns)
  BY IndexFacts
<1>4. Range(ns) \subseteq Names
  BY IndexFacts
<1>5. \A n \in Range(ns) : g[n] \in EntrySet
  BY <1>0, <1>3 DEF EntrySet
<1>6. DOMAIN g = Range(ns)
  OBVIOUS
<1>7. \A n \in Range(ns) : g[n].slot = Len(sc.used) + Index(ns, n) - 1 /\ g[n].binding = b + Index(ns, n)
  OBVIOUS
<1> HIDE DEF g
<1>8. /\ DOMAIN f = DOMAIN sc.mp \union Range(ns)
      /\ \A n \in DOMAIN f : f[n] = IF n \in Range(ns) THEN g[n] ELSE sc.mp[n]
      /\ f = [n \in DOMAIN f |-> f[n]]
  BY <1>6 DEF Overlay
<1>9. f \in Tables
  <2>1. DOMAIN sc.mp \subseteq Names /\ \A n \in DOMAIN sc.mp : sc.mp[n] \in EntrySet
    BY <1>0, TableFacts
  <2> HIDE DEF f
  <2>2. DOMAIN f \subseteq Names /\ \A n \in DOMAIN f : f[n] \in EntrySet
    BY <1>4, <1>5, <1>8, <2>1
  <2> QED BY <1>8, <2>2, TableFacts
<1> HIDE DEF f, r
<1>10. r.used = sc.used \o ns /\ r.mp = f /\ r.parent = sc.parent
  BY <1>2
<1>11. sc.used \o ns \in Seq(Names) /\ Len(sc.used \o ns) = Len(sc.used) + Len(ns)
  BY <1>0
<1>12. r \in ScopeSet
  BY <1>0, <1>2, <1>9, <1>11 DEF ScopeSet
<1>13. \A n \in Range(ns) : r.mp[n].slot = Len(sc.used) + Index(ns, n) - 1 /\ r.mp[n].binding = b + Index(ns, n)
  BY <1>7, <1>8, <1>10
<1>14. \A n \in DOMAIN sc.mp : n \notin Range(ns) => r.mp[n] = sc.mp[n]
  BY <1>8, <1>10
<1> QED BY <1>8, <1>10, <1>11, <1>12, <1>13, <1>14 DEF r

LEMMA CopyFacts ==
  ASSUME NEW sc \in ScopeSet, CopiesOK(sc)
  PROVE  /\ \A c \in 1..Len(sc.parent) : sc.parent[c].child < Len(sc.used) /\ sc.parent[c].child \in Nat
         /\ \A d \in Range(sc.parent) : d.child < Len(sc.used) /\ d.child \in Nat
<1>1. sc.parent \in Seq(CopySet)
  BY DEF ScopeSet
<1>2. \A c \in 1..Len(sc.parent) : sc.parent[c] \in CopySet
  BY <1>1
<1>3. \A d \in CopySet : d.child \in Nat
  BY DEF CopySet
<1>4. \A c \in 1..Len(sc.parent) : sc.parent[c].child \in Nat
  BY <1>2, <1>3
<1>5. \A c \in 1..Len(sc.parent) : sc.parent[c].child < Len(sc.used)
  BY DEF CopiesOK
<1>6. \A d \in Range(sc.parent) : \E c \in 1..Len(sc.parent) : sc.parent[c] = d
  BY <1>1 DEF Range
<1> QED BY <1>4, <1>5, <1>6

(* A slot that a scope does not have yet is not filled from anywhere.      *)
LEMMA FreshSlot ==
  ASSUME NEW sc \in ScopeSet, CopiesOK(sc), NEW slot \in Nat, slot >= Len(sc.used)
  PROVE  Sources(sc.parent, slot) = {}
<1>1. sc.parent \in Seq(CopySet) /\ Len(sc.used) \in Nat
  BY DEF ScopeSet
<1>2. ASSUME NEW d \in Range(sc.parent), d.child = slot PROVE FALSE
  <2>2. d.child < Len(sc.used) /\ d.child \in Nat
    BY CopyFacts
  <2> QED BY <1>1, <1>2, <2>2
<1> QED BY <1>2 DEF Sources

(* copy_parent fills one fresh slot, from the slot it was given, and       *)
(* leaves what the others are filled from.                                 *)
FillsNext(sc, sc2, p) == Sources(sc2.parent, Len(sc.used)) = {p}
NamesNext(sc, sc2, b, n) ==
  /\ DOMAIN sc2.mp = DOMAIN sc.mp \union {n}
  /\ sc2.mp[n].slot = Len(sc.used) /\ sc2.mp[n].binding = b
  /\ \A m \in DOMAIN sc.mp : m # n => sc2.mp[m] = sc.mp[m]

LEMMA CopyParentFacts ==
  ASSUME NEW sc \in ScopeSet, CopiesOK(sc), NEW p \in Nat, NEW b \in Nat, NEW n \in Names
  PROVE  /\ CopyParent(sc, p, b, n) \in ScopeSet
         /\ CopiesOK(CopyParent(sc, p, b, n))
         /\ Len(CopyParent(sc, p, b, n).used) = Len(sc.used) + 1
         /\ NamesNext(sc, CopyParent(sc, p, b, n), b, n)
         /\ \A slot \in Nat : slot < Len(sc.used) =>
               Sources(CopyParent(sc, p, b, n).parent, slot) = Sources(sc.parent, slot)
         /\ FillsNext(sc, CopyParent(sc, p, b, n), p)
<1> DEFINE r == CopyParent(sc, p, b, n)
           e == [slot |-> Len(sc.used), binding |-> b]
           g == [m \in {n} |-> e]
           f == Overlay(sc.mp, g)
           c == [parent |-> p, child |-> Len(sc.used)]
           q == Append(sc.parent, c)
<1>0. sc.used \in Seq(Names) /\ sc.mp \in Tables /\ sc.parent \in Seq(CopySet) /\ Len(sc.used) \in Nat
  BY DEF ScopeSet
<1>1. e \in EntrySet /\ e.slot = Len(sc.used) /\ e.binding = b
  BY <1>0 DEF EntrySet
<1>2. c \in CopySet /\ c.parent = p /\ c.child = Len(sc.used)
  BY <1>0 DEF CopySet
<1>3. r = [used |-> Append(sc.used, n), mp |-> f, parent |-> q]
  BY DEF CopyParent
<1> HIDE DEF e, c
<1>4. DOMAIN g = {n} /\ g[n] = e
  OBVIOUS
<1> HIDE DEF g
<1>5. /\ DOMAIN f = DOMAIN sc.mp \union {n}
      /\ \A m \in DOMAIN f : f[m] = IF m = n THEN e ELSE sc.mp[m]
      /\ f = [m \in DOMAIN f |-> f[m]]
  BY <1>4 DEF Overlay
<1> HIDE DEF f, r
<1>6. f \in Tables
  <2>1. DOMAIN sc.mp \subseteq Names /\ \A m \in DOMAIN sc.mp : sc.mp[m] \in EntrySet
    BY <1>0, TableFacts
  <2>2. DOMAIN f \subseteq Names /\ \A m \in DOMAIN f : f[m] \in EntrySet
    BY <1>1, <1>5, <2>1
  <2> QED BY <1>5, <2>2, TableFacts
<1>7. Append(sc.used, n) \in Seq(Names) /\ Len(Append(sc.used, n)) = Len(sc.used) + 1
  BY <1>0
<1>8. /\ q \in Seq(CopySet) /\ Len(q) = Len(sc.parent) + 1 /\ Len(sc.parent) \in Nat
      /\ q[Len(q)] = c
      /\ \A k \in 1..Len(sc.parent) : q[k] = sc.parent[k]
  BY <1>0, <1>2
<1>9. Range(q) = Range(sc.parent) \union {c}
  <2>1. DOMAIN q = 1..Len(sc.parent) + 1 /\ DOMAIN sc.parent = 1..Len(sc.parent)
    BY <1>0, <1>8
  <2> HIDE DEF q
  <2>2. \A k \in DOMAIN q : k \in DOMAIN sc.parent \/ k = Len(q)
    BY <1>8, <2>1
  <2>3. Len(q) \in DOMAIN q /\ \A k \in DOMAIN sc.parent : k \in DOMAIN q /\ q[k] = sc.parent[k]
    BY <1>8, <2>1
  <2> QED BY <1>8, <2>2, <2>3 DEF Range
<1> HIDE DEF q
<1>10. r.used = Append(sc.used, n) /\ r.mp = f /\ r.parent = q
  BY <1>3
<1>11. r \in ScopeSet
  BY <1>3, <1>6, <1>7, <1>8 DEF ScopeSet
<1>12. CopiesOK(r)
  <2> SUFFICES ASSUME NEW k \in 1..Len(q) PROVE q[k].child < Len(sc.used) + 1
    BY <1>7, <1>10 DEF CopiesOK
  <2>1. CASE k \in 1..Len(sc.parent)
    <3>1. sc.parent[k].child < Len(sc.used) /\ sc.parent[k].child \in Nat
      BY <2>1, CopyFacts
    <3> QED BY <1>0, <1>8, <2>1, <3>1
  <2>2. CASE k = Len(q)
    BY <1>0, <1>2, <1>8, <2>2
  <2> QED BY <1>8, <2>1, <2>2
<1>13. \A slot \in Nat : slot < Len(sc.used) => Sources(q, slot) = Sources(sc.parent, slot)
  <2> TAKE slot \in Nat
  <2> HAVE slot < Len(sc.used)
  <2>1. c.child # slot
    BY <1>0, <1>2
  <2>2. {d \in Range(q) : d.child = slot} = {d \in Range(sc.parent) : d.child = slot}
    BY <1>9, <2>1
  <2> QED BY <2>2 DEF Sources
<1>14. Sources(q, Len(sc.used)) = {p}
  <2>1. \A d \in Range(sc.parent) : d.child # Len(sc.used)
    <3> SUFFICES ASSUME NEW d \in Range(sc.parent) PROVE d.child # Len(sc.used)
      OBVIOUS
    <3>1. d.child < Len(sc.used) /\ d.child \in Nat
      BY CopyFacts
    <3> QED BY <1>0, <3>1
  <2>2. {d \in Range(q) : d.child = Len(sc.used)} = {c}
    BY <1>2, <1>9, <2>1
  <2> QED BY <1>2, <2>2 DEF Sources
<1>15. r.mp[n] = e /\ \A m \in DOMAIN sc.mp : m # n => r.mp[m] = sc.mp[m]
  BY <1>5, <1>10
<1>16. FillsNext(sc, r, p)
  BY <1>10, <1>14 DEF FillsNext
<1>17. NamesNext(sc, r, b, n)
  BY <1>1, <1>5, <1>10, <1>15 DEF NamesNext
<1> QED BY <1>7, <1>10, <1>11, <1>12, <1>13, <1>16, <1>17 DEF r

(* unscope only touches the table.                                         *)
LEMMA UnscopeFacts ==
  ASSUME NEW sc \in ScopeSet, NEW u \in Tables
  PROVE  /\ Unscope(sc, u) \in ScopeSet
         /\ Unscope(sc, u).used = sc.used
         /\ Unscope(sc, u).parent = sc.parent
         /\ DOMAIN Unscope(sc, u).mp = {m \in DOMAIN sc.mp : m \in DOMAIN u => u[m] # NoName}
         /\ \A n \in DOMAIN Unscope(sc, u).mp :
               Unscope(sc, u).mp[n] = IF n \in DOMAIN u THEN u[n] ELSE sc.mp[n]
<1> DEFINE D == {m \in DOMAIN sc.mp : m \in DOMAIN u => u[m] # NoName}
           f == [n \in D |-> IF n \in DOMAIN u THEN u[n] ELSE sc.mp[n]]
           r == Unscope(sc, u)
<1>0. sc.used \in Seq(Names) /\ sc.mp \in Tables /\ sc.parent \in Seq(CopySet)
  BY DEF ScopeSet
<1>1. r = [sc EXCEPT !.mp = f]
  BY DEF Unscope
<1>2. f \in Tables
  <2>1. DOMAIN sc.mp \subseteq Names /\ \A m \in DOMAIN sc.mp : sc.mp[m] \in EntrySet
    BY <1>0, TableFacts
  <2>2. \A m \in DOMAIN u : u[m] \in EntrySet
    BY TableFacts
  <2>3. DOMAIN f = D /\ f = [n \in DOMAIN f |-> f[n]] /\ \A n \in D : f[n] = IF n \in DOMAIN u THEN u[n] ELSE sc.mp[n]
    OBVIOUS
  <2>4. \A n \in D : n \in DOMAIN sc.mp
    OBVIOUS
  <2> HIDE DEF f, D
  <2>5. DOMAIN f \subseteq Names /\ \A n \in DOMAIN f : f[n] \in EntrySet
    BY <2>1, <2>2, <2>3, <2>4
  <2> QED BY <2>3, <2>5, TableFacts
<1>3. DOMAIN f = D /\ \A n \in D : f[n] = IF n \in DOMAIN u THEN u[n] ELSE sc.mp[n]
  OBVIOUS
<1> HIDE DEF f, r
<1>4. r = [used |-> sc.used, mp |-> f, parent |-> sc.parent]
  <2>1. sc = [used |-> sc.used, mp |-> sc.mp, parent |-> sc.parent]
    BY DEF ScopeSet
  <2> QED BY <1>1, <2>1
<1>5. r \in ScopeSet
  BY <1>0, <1>2, <1>4 DEF ScopeSet
<1> QED BY <1>3, <1>4, <1>5 DEF r

LEMMA UndoFacts ==
  ASSUME NEW sc \in ScopeSet, NEW ns \in Seq(Names)
  PROVE  /\ Undo(sc, ns) \in Tables
         /\ DOMAIN Undo(sc, ns) = Range(ns)
         /\ \A n \in Range(ns) : Undo(sc, ns)[n] = IF n \in DOMAIN sc.mp THEN sc.mp[n] ELSE NoName
<1> DEFINE u == Undo(sc, ns)
<1>1. /\ DOMAIN u = Range(ns) /\ u = [n \in DOMAIN u |-> u[n]]
      /\ \A n \in Range(ns) : u[n] = IF n \in DOMAIN sc.mp THEN sc.mp[n] ELSE NoName
  BY DEF Undo
<1> HIDE DEF u
<1>2. Range(ns) \subseteq Names
  BY IndexFacts
<1>3. sc.mp \in Tables
  BY DEF ScopeSet
<1>4. \A n \in DOMAIN sc.mp : sc.mp[n] \in EntrySet
  BY <1>3, TableFacts
<1>5. NoName \in EntrySet
  BY DEF NoName, EntrySet
<1>6. DOMAIN u \subseteq Names /\ \A n \in DOMAIN u : u[n] \in EntrySet
  BY <1>1, <1>2, <1>4, <1>5
<1>7. u \in Tables
  BY <1>1, <1>6, TableFacts
<1> QED BY <1>1, <1>7 DEF u

-----------------------------------------------------------------------------
(***************************************************************************)
(* What the walk leaves alone: variables keep their owners and slots, and  *)
(* a scope only gets more slots.                                           *)
(***************************************************************************)
LaterBindings(bs, bs2) ==
  \A b \in DOMAIN bs : /\ b \in DOMAIN bs2
                       /\ bs2[b].owner = bs[b].owner /\ bs2[b].slot = bs[b].slot
                       /\ bs[b].captured => bs2[b].captured

Wider(sc, sc2) ==
  /\ Len(sc.used) \in Nat /\ Len(sc2.used) \in Nat /\ Len(sc.used) <= Len(sc2.used)
  /\ \A slot \in Nat : slot < Len(sc.used) => Sources(sc2.parent, slot) = Sources(sc.parent, slot)

LaterScopes(scs, ls, scs2, ls2, i) ==
  \A t \in 1..i : ls2[t] = ls[t] /\ Wider(scs[ls[t]], scs2[ls[t]])

LEMMA CopyWider ==
  ASSUME NEW sc \in ScopeSet, CopiesOK(sc), NEW p \in Nat, NEW b \in Nat, NEW n \in Names
  PROVE  Wider(sc, CopyParent(sc, p, b, n))
<1> DEFINE r == CopyParent(sc, p, b, n)
<1>1. Len(sc.used) \in Nat
  BY DEF ScopeSet
<1>2. /\ Len(r.used) = Len(sc.used) + 1
      /\ \A slot \in Nat : slot < Len(sc.used) => Sources(r.parent, slot) = Sources(sc.parent, slot)
  BY CopyParentFacts
<1> HIDE DEF r
<1>3. Len(r.used) \in Nat /\ Len(sc.used) <= Len(r.used)
  BY <1>1, <1>2
<1>4. Wider(sc, r)
  BY <1>1, <1>2, <1>3 DEF Wider
<1> QED BY <1>4 DEF r

LEMMA LeadsStays ==
  ASSUME NEW bs, NEW scs, NEW ls, NEW bs2, NEW scs2, NEW ls2, NEW i \in Nat, NEW slot, NEW b \in DOMAIN bs,
         Leads(bs, scs, ls, i, slot, b), LaterBindings(bs, bs2), LaterScopes(scs, ls, scs2, ls2, i)
  PROVE  Leads(bs2, scs2, ls2, i, slot, b)
<1>1. PICK j \in 1..i, path \in [1..i -> Nat] :
     /\ ls[j] = bs[b].owner
     /\ path[i] = slot /\ path[j] = bs[b].slot
     /\ Sources(scs[ls[j]].parent, path[j]) = {}
     /\ \A t \in j..i : path[t] < Len(scs[ls[t]].used)
     /\ \A t \in j + 1..i : Sources(scs[ls[t]].parent, path[t]) = {path[t - 1]}
  BY DEF Leads
<1>2. ls2[j] = bs2[b].owner /\ path[j] = bs2[b].slot
  BY <1>1 DEF LaterBindings, LaterScopes
<1>3. ASSUME NEW t \in j..i
      PROVE  /\ path[t] < Len(scs2[ls2[t]].used)
             /\ Sources(scs2[ls2[t]].parent, path[t]) = Sources(scs[ls[t]].parent, path[t])
  <2>1. t \in 1..i /\ path[t] \in Nat
    OBVIOUS
  <2>2. ls2[t] = ls[t] /\ Wider(scs[ls[t]], scs2[ls[t]])
    BY <2>1 DEF LaterScopes
  <2>3. path[t] < Len(scs[ls[t]].used)
    BY <1>1
  <2> QED BY <2>1, <2>2, <2>3 DEF Wider
<1>4. Sources(scs2[ls2[j]].parent, path[j]) = {}
  BY <1>1, <1>3
<1>5. \A t \in j + 1..i : Sources(scs2[ls2[t]].parent, path[t]) = {path[t - 1]}
  <2> TAKE t \in j + 1..i
  <2>1. t \in j..i
    OBVIOUS
  <2> QED BY <1>1, <1>3, <2>1
<1> QED BY <1>1, <1>2, <1>3, <1>4, <1>5 DEF Leads

LEMMA EntryStays ==
  ASSUME NEW bs, NEW scs, NEW ls, NEW ev, NEW bs2, NEW scs2, NEW ls2, NEW ev2,
         NEW e, NEW n, NEW i \in Nat, NEW V,
         EntryOK(bs, scs, ls, ev, e, n, i, V), LaterBindings(bs, bs2),
         LaterScopes(scs, ls, scs2, ls2, i), \A k \in V : ev2[k] = ev[k]
  PROVE  EntryOK(bs2, scs2, ls2, ev2, e, n, i, V)
<1>1. e.binding \in DOMAIN bs /\ Leads(bs, scs, ls, i, e.slot, e.binding)
  BY DEF EntryOK
<1>2. Leads(bs2, scs2, ls2, i, e.slot, e.binding)
  BY <1>1, LeadsStays
<1>3. Sees(ev2, V, n, e.binding)
  <2>1. Sees(ev, V, n, e.binding)
    BY DEF EntryOK
  <2> QED BY <2>1 DEF Sees
<1>4. i \in 1..i
  BY <1>1 DEF Leads
<1>5. ls2[i] = ls[i]
  BY <1>4 DEF LaterScopes
<1>6. /\ e.binding \in DOMAIN bs2
      /\ bs2[e.binding].owner # ls2[i] => bs2[e.binding].captured
  BY <1>1, <1>5 DEF EntryOK, LaterBindings
<1> QED BY <1>2, <1>3, <1>6 DEF EntryOK

LEMMA AgreesStay ==
  ASSUME NEW bs, NEW scs, NEW ls, NEW ev, NEW bs2, NEW scs2, NEW ls2, NEW ev2, NEW i \in Nat,
         AgreesAt(bs, scs, ls, ev, i), LaterBindings(bs, bs2), LaterScopes(scs, ls, scs2, ls2, i),
         ls2[i] = ls[i], scs2[ls[i]].mp = scs[ls[i]].mp,
         Seen(ls2, ev2, i) = Seen(ls, ev, i), \A k \in Seen(ls, ev, i) : ev2[k] = ev[k]
  PROVE  AgreesAt(bs2, scs2, ls2, ev2, i)
<1> SUFFICES ASSUME NEW n \in DOMAIN scs[ls[i]].mp
             PROVE  EntryOK(bs2, scs2, ls2, ev2, scs[ls[i]].mp[n], n, i, Seen(ls, ev, i))
  BY DEF AgreesAt
<1> DEFINE e == scs[ls[i]].mp[n]
           V == Seen(ls, ev, i)
<1>1. EntryOK(bs, scs, ls, ev, e, n, i, V)
  BY DEF AgreesAt
<1> HIDE DEF e, V
<1>2. EntryOK(bs2, scs2, ls2, ev2, e, n, i, V)
  BY <1>1, EntryStays DEF V
<1> QED BY <1>2 DEF e, V

LEMMA UndoStays ==
  ASSUME NEW bs, NEW scs, NEW ls, NEW ev, NEW bs2, NEW scs2, NEW ls2, NEW ev2, NEW u, NEW k \in Nat,
         UndoOK(bs, scs, ls, ev, u, k), LaterBindings(bs, bs2),
         DOMAIN ls2 \subseteq Nat \ {0},
         \A i \in DOMAIN ls2 : ev[k].scope = ls2[i] => i \in DOMAIN ls /\ LaterScopes(scs, ls, scs2, ls2, i),
         \A j \in 1..k : ev2[j] = ev[j], k >= 1
  PROVE  UndoOK(bs2, scs2, ls2, ev2, u, k)
<1>1. ev2[k] = ev[k] /\ \A j \in 2..k - 1 : ev2[j] = ev[j]
  OBVIOUS
<1>2. ASSUME NEW n \in DOMAIN u, u[n] # NoName, NEW i \in DOMAIN ls2, ev[k].scope = ls2[i]
      PROVE  EntryOK(bs2, scs2, ls2, ev2, u[n], n, i, 1..k - 1)
  <2> DEFINE V == 1..k - 1
             e == u[n]
  <2>1. i \in DOMAIN ls /\ LaterScopes(scs, ls, scs2, ls2, i)
    BY <1>2
  <2>2. i \in Nat /\ i # 0
    OBVIOUS
  <2>3. \A j \in V : ev2[j] = ev[j]
    OBVIOUS
  <2> HIDE DEF V, e
  <2>6. EntryOK(bs, scs, ls, ev, e, n, i, V) => EntryOK(bs2, scs2, ls2, ev2, e, n, i, V)
    BY <2>1, <2>2, <2>3, EntryStays
  <2>5. EntryOK(bs, scs, ls, ev, e, n, i, V) \/ ls[i] # ls2[i]
    BY <1>2, <2>1 DEF UndoOK, V, e
  <2>7. CASE ls[i] # ls2[i]
    <3>1. i \notin 1..i
      BY <2>1, <2>7 DEF LaterScopes
    <3> QED BY <2>2, <3>1
  <2> QED BY <2>5, <2>6, <2>7 DEF V, e
<1> QED BY <1>1, <1>2 DEF UndoOK

-----------------------------------------------------------------------------
(***************************************************************************)
(* The nesting of blocks and scopes.                                       *)
(***************************************************************************)
LEMMA NestFacts ==
  ASSUME NEW ls \in Seq(Nat), NEW ev \in Seq(BlockSet), Nests(ls, ev)
  PROVE  /\ Len(ls) \in Nat /\ Len(ls) >= 1 /\ DOMAIN ls = 1..Len(ls) /\ Last(ls) = ls[Len(ls)]
         /\ Len(ev) \in Nat /\ Len(ev) >= 1 /\ DOMAIN ev = 1..Len(ev) /\ Last(ev) = ev[Len(ev)]
         /\ \A i \in 1..Len(ls) : ls[i] \in Nat /\ ls[i] <= ls[Len(ls)]
         /\ \A k \in 1..Len(ev) : ev[k].scope \in Nat /\ ev[k].scope <= ls[Len(ls)]
         /\ ev[Len(ev)].scope = ls[Len(ls)]
         /\ Seen(ls, ev, Len(ls)) = 1..Len(ev)
<1> DEFINE D == Len(ls)
           L == Len(ev)
<1>1. D \in Nat /\ L \in Nat /\ DOMAIN ls = 1..D /\ DOMAIN ev = 1..L
  OBVIOUS
<1>2. 1 \in 1..D /\ 1 \in 1..L
  BY <1>1 DEF Nests
<1>3. D >= 1 /\ L >= 1 /\ D \in 1..D /\ L \in 1..L
  BY <1>1, <1>2
<1>4. Last(ls) = ls[D] /\ Last(ev) = ev[L]
  BY DEF Last
<1>5. \A i \in 1..D : ls[i] \in Nat
  OBVIOUS
<1>6. \A k \in 1..L : ev[k].scope \in Nat
  <2>1. \A k \in 1..L : ev[k] \in BlockSet
    OBVIOUS
  <2> QED BY <2>1 DEF BlockSet
<1> HIDE DEF D, L
<1>7. \A i, j \in 1..D : i < j => ls[i] < ls[j]
  BY <1>1 DEF Nests
<1>8. \A i \in 1..D : ls[i] <= ls[D]
  <2> TAKE i \in 1..D
  <2>1. i = D \/ i < D
    BY <1>1
  <2>2. ls[i] \in Nat /\ ls[D] \in Nat
    BY <1>3, <1>5
  <2> QED BY <1>3, <1>7, <2>1, <2>2
<1>9. \A k \in 1..L : ev[k].scope <= ls[D]
  <2> TAKE k \in 1..L
  <2>1. PICK i \in 1..D : ev[k].scope = ls[i]
    BY <1>1 DEF Nests
  <2> QED BY <1>8, <2>1
<1>10. \E k \in 1..L : ev[k].scope = ls[D]
  <2>1. CASE D = 1
    BY <1>2, <2>1 DEF Nests
  <2>2. CASE D # 1
    BY <1>1, <1>3, <2>2 DEF Nests
  <2> QED BY <2>1, <2>2
<1>11. ev[L].scope = ls[D]
  <2>1. PICK k \in 1..L : ev[k].scope = ls[D]
    BY <1>10
  <2>2. \A a, c \in 1..L : a < c => ev[a].scope <= ev[c].scope
    BY <1>1 DEF Nests
  <2>3. k = L \/ k < L
    BY <1>1
  <2>4. ev[k].scope <= ev[L].scope
    BY <1>3, <1>6, <2>2, <2>3
  <2>5. ev[L].scope <= ls[D] /\ ev[L].scope \in Nat /\ ls[D] \in Nat
    BY <1>3, <1>5, <1>6, <1>9
  <2> QED BY <2>1, <2>4, <2>5
<1>12. Seen(ls, ev, D) = 1..L
  BY <1>1, <1>9 DEF Seen
<1> QED BY <1>1, <1>3, <1>4, <1>5, <1>6, <1>8, <1>9, <1>11, <1>12 DEF D, L

(* A block that is not the scope's def lies inside it.  The blocks a level *)
(* sees are the ones before the def of the next level.                     *)
LEMMA LevelBelow ==
  ASSUME NEW ls \in Seq(Nat), NEW ev \in Seq(BlockSet), Nests(ls, ev),
         NEW i \in 1..Len(ls), i # Len(ls), NEW m \in 1..Len(ev),
         ev[m].kind = "def", ev[m].scope = ls[i + 1]
  PROVE  /\ \A k \in 1..Len(ev) : k < m <=> ev[k].scope <= ls[i]
         /\ Seen(ls, ev, i) = 1..m - 1
         /\ m # 1
<1> DEFINE D == Len(ls)
           L == Len(ev)
<1>0. i \in 1..D /\ i # D /\ m \in 1..L
  OBVIOUS
<1>1. /\ D \in Nat /\ DOMAIN ls = 1..D /\ L \in Nat /\ DOMAIN ev = 1..L
      /\ \A t \in 1..D : ls[t] \in Nat
      /\ \A k \in 1..L : ev[k].scope \in Nat
  BY NestFacts
<1> HIDE DEF D, L
<1>2. i + 1 \in 1..D /\ i \in Nat
  BY <1>0, <1>1
<1>4. /\ \A a, c \in 1..L : a < c => ev[a].scope <= ev[c].scope
      /\ \A a, c \in 1..L : a < c => (ev[c].kind = "def" => ev[a].scope < ev[c].scope)
      /\ \A a, c \in 1..D : a < c => ls[a] < ls[c]
      /\ \A k \in 1..L : \E t \in 1..D : ev[k].scope = ls[t]
  <2>1. \A a, c \in 1..L : a < c => ev[a].scope <= ev[c].scope
    BY <1>1 DEF Nests
  <2>2. \A a, c \in 1..L : a < c => (ev[c].kind = "def" => ev[a].scope < ev[c].scope)
    BY <1>1 DEF Nests
  <2>3. \A a, c \in 1..D : a < c => ls[a] < ls[c]
    BY <1>1 DEF Nests
  <2>4. \A k \in 1..L : \E t \in 1..D : ev[k].scope = ls[t]
    BY <1>1 DEF Nests
  <2> QED BY <2>1, <2>2, <2>3, <2>4
<1>5. \A a \in 1..L : a < m => ev[a].scope < ls[i + 1]
  BY <1>0, <1>4
<1>9. \A c \in 1..L : m < c => ls[i + 1] <= ev[c].scope
  BY <1>0, <1>4
<1>3. ls[i] < ls[i + 1] /\ ls[i] \in Nat /\ ls[i + 1] \in Nat
  <2>1. i < i + 1
    BY <1>2
  <2>2. ls[i] < ls[i + 1]
    BY <1>0, <1>2, <1>4, <2>1
  <2> QED BY <1>0, <1>1, <1>2, <2>2
<1>6. ASSUME NEW k \in 1..L PROVE k < m <=> ev[k].scope <= ls[i]
  <2>1. ev[k].scope \in Nat
    BY <1>1
  <2>2. ASSUME k < m PROVE ev[k].scope <= ls[i]
    <3>1. ev[k].scope < ls[i + 1]
      BY <1>5, <2>2
    <3>2. PICK t \in 1..D : ev[k].scope = ls[t]
      BY <1>4
    <3>3. t \in Nat /\ ls[t] \in Nat
      BY <1>1
    <3>4. ~(i + 1 < t) /\ t # i + 1
      <4>1. ~(ls[i + 1] < ls[t]) /\ ls[t] # ls[i + 1]
        BY <1>3, <3>1, <3>2, <3>3, SMTT(30)
      <4>2. i + 1 < t => ls[i + 1] < ls[t]
        BY <1>2, <1>4
      <4> QED BY <4>1, <4>2
    <3>5. t = i \/ t < i
      BY <1>2, <3>3, <3>4
    <3> QED BY <1>0, <1>3, <1>4, <3>2, <3>3, <3>5
  <2>3. ASSUME ~(k < m) PROVE ~(ev[k].scope <= ls[i])
    <3>1. k = m \/ m < k
      BY <1>0, <1>1, <2>3
    <3>2. ls[i + 1] <= ev[k].scope
      BY <1>3, <1>9, <3>1
    <3> QED BY <1>3, <2>1, <3>2
  <2> QED BY <2>2, <2>3
<1>7. m # 1
  BY <1>0, <1>1 DEF Nests
<1>8. Seen(ls, ev, i) = 1..m - 1
  <2>1. \A k : k \in 1..L /\ k < m <=> k \in 1..m - 1
    BY <1>0, <1>1
  <2> QED BY <1>1, <1>6, <2>1 DEF Seen
<1> QED BY <1>6, <1>7, <1>8 DEF L

(* s2 is s with x at its end.                                              *)
Pushed(s, s2, x) ==
  /\ Len(s) \in Nat /\ Len(s2) = Len(s) + 1
  /\ DOMAIN s = 1..Len(s) /\ DOMAIN s2 = 1..Len(s) + 1
  /\ s2[Len(s) + 1] = x
  /\ \A i \in 1..Len(s) : s2[i] = s[i]

LEMMA PushedAppend ==
  ASSUME NEW S, NEW s \in Seq(S), NEW x \in S
  PROVE  Append(s, x) \in Seq(S) /\ Pushed(s, Append(s, x), x)
<1>1. /\ Append(s, x) \in Seq(S) /\ Len(Append(s, x)) = Len(s) + 1
      /\ \A i \in 1..Len(s) : Append(s, x)[i] = s[i]
      /\ Append(s, x)[Len(s) + 1] = x
  OBVIOUS
<1>2. Len(s) \in Nat /\ DOMAIN s = 1..Len(s)
  OBVIOUS
<1>3. DOMAIN Append(s, x) = 1..Len(s) + 1
  BY <1>1
<1> QED BY <1>1, <1>2, <1>3 DEF Pushed

LEMMA PushedFront ==
  ASSUME NEW S, NEW s \in Seq(S), s # <<>>
  PROVE  /\ Front(s) \in Seq(S) /\ Pushed(Front(s), s, Last(s))
         /\ Last(s) = s[Len(s)] /\ Last(s) \in S
<1>1. /\ Len(s) \in Nat /\ Len(s) # 0
      /\ Front(s) \in Seq(S)
      /\ Len(Front(s)) = Len(s) - 1
      /\ DOMAIN Front(s) = 1..Len(s) - 1
      /\ \A i \in 1..Len(s) - 1 : Front(s)[i] = s[i]
      /\ Last(s) = s[Len(s)] /\ Last(s) \in S
  BY FrontLast
<1>2. DOMAIN s = 1..Len(s)
  OBVIOUS
<1> DEFINE f == Front(s)
           n == Len(s)
           m == Len(f)
<1>3. n \in Nat /\ n # 0 /\ m = n - 1 /\ DOMAIN f = 1..n - 1 /\ DOMAIN s = 1..n
  BY <1>1, <1>2
<1>4. Last(s) = s[n] /\ \A i \in 1..n - 1 : f[i] = s[i]
  BY <1>1
<1> HIDE DEF n, m, f
<1>5. m \in Nat /\ n = m + 1 /\ DOMAIN f = 1..m /\ DOMAIN s = 1..m + 1 /\ s[m + 1] = Last(s)
  BY <1>3, <1>4
<1>6. \A i \in 1..m : s[i] = f[i]
  BY <1>3, <1>4
<1> QED BY <1>1, <1>5, <1>6 DEF Pushed, n, m, f

(* enter_def opens a new innermost level.                                  *)
LEMMA PushDef ==
  ASSUME NEW ls \in Seq(Nat), NEW ev \in Seq(BlockSet), Nests(ls, ev),
         NEW ls2 \in Seq(Nat), NEW ev2 \in Seq(BlockSet), NEW id \in Nat, NEW blk \in BlockSet,
         Pushed(ls, ls2, id), Pushed(ev, ev2, blk),
         blk.kind = "def", blk.scope = id, ls[Len(ls)] < id
  PROVE  /\ Nests(ls2, ev2)
         /\ \A i \in 1..Len(ls) : Seen(ls2, ev2, i) = Seen(ls, ev, i)
<1> DEFINE D == Len(ls)
           L == Len(ev)
<1>1. /\ D \in Nat /\ D >= 1 /\ DOMAIN ls = 1..D /\ L \in Nat /\ L >= 1 /\ DOMAIN ev = 1..L
      /\ \A i \in 1..D : ls[i] \in Nat /\ ls[i] <= ls[D]
      /\ \A k \in 1..L : ev[k].scope \in Nat /\ ev[k].scope <= ls[D]
  BY NestFacts
<1>2. /\ DOMAIN ls2 = 1..D + 1 /\ ls2[D + 1] = id /\ \A i \in 1..D : ls2[i] = ls[i]
      /\ DOMAIN ev2 = 1..L + 1 /\ ev2[L + 1] = blk /\ \A k \in 1..L : ev2[k] = ev[k]
  BY DEF Pushed
<1>3. ls[D] < id
  OBVIOUS
<1> HIDE DEF D, L
<1>4. \A i \in DOMAIN ls2 : i \in 1..D \/ i = D + 1
  BY <1>1, <1>2
<1>5. \A k \in DOMAIN ev2 : k \in 1..L \/ k = L + 1
  BY <1>1, <1>2
<1>6. (\A i \in 1..D : ls[i] < id) /\ \A k \in 1..L : ev[k].scope < id
  <2>1. ls[D] \in Nat
    BY <1>1
  <2> QED BY <1>1, <1>3, <2>1
<1>7. 1 \in 1..D /\ 1 \in 1..L /\ 1 \in DOMAIN ls2 /\ 1 \in DOMAIN ev2 /\ D + 1 \in DOMAIN ls2 /\ L + 1 \in DOMAIN ev2
  BY <1>1, <1>2
<1>8. ls2[1] = ModuleScope /\ ev2[1].scope = ModuleScope
  <2>1. ls[1] = ModuleScope /\ ev[1].scope = ModuleScope
    BY DEF Nests
  <2> QED BY <1>2, <1>7, <2>1
<1>9. ASSUME NEW i \in DOMAIN ls2, NEW j \in DOMAIN ls2, i < j PROVE ls2[i] < ls2[j]
  <2>1. i \in 1..D
    BY <1>1, <1>2, <1>9
  <2>2. CASE j \in 1..D
    <3>1. ls[i] < ls[j]
      BY <1>1, <1>9, <2>1, <2>2 DEF Nests
    <3> QED BY <1>2, <2>1, <2>2, <3>1
  <2>3. CASE j = D + 1
    BY <1>2, <1>6, <2>1, <2>3
  <2> QED BY <1>4, <2>2, <2>3
<1>10. ASSUME NEW k \in DOMAIN ev2
       PROVE  (ev2[k].kind = "module" <=> k = 1) /\ \E i \in DOMAIN ls2 : ev2[k].scope = ls2[i]
  <2>1. CASE k \in 1..L
    <3>1. ev[k].kind = "module" <=> k = 1
      BY <1>1, <2>1 DEF Nests
    <3>2. PICK i \in 1..D : ev[k].scope = ls[i]
      BY <1>1, <2>1 DEF Nests
    <3>3. i \in DOMAIN ls2
      BY <1>1, <1>2
    <3> QED BY <1>2, <2>1, <3>1, <3>2, <3>3
  <2>2. CASE k = L + 1
    <3>1. k # 1
      BY <1>1, <2>2
    <3> QED BY <1>2, <1>7, <2>2, <3>1
  <2> QED BY <1>5, <2>1, <2>2
<1>11. ASSUME NEW j \in DOMAIN ev2, NEW k \in DOMAIN ev2, j < k
       PROVE  ev2[j].scope <= ev2[k].scope /\ (ev2[k].kind = "def" => ev2[j].scope < ev2[k].scope)
  <2>1. j \in 1..L
    BY <1>1, <1>2, <1>11
  <2>2. CASE k \in 1..L
    <3>1. ev[j].scope <= ev[k].scope /\ (ev[k].kind = "def" => ev[j].scope < ev[k].scope)
      BY <1>1, <1>11, <2>1, <2>2 DEF Nests
    <3> QED BY <1>2, <2>1, <2>2, <3>1
  <2>3. CASE k = L + 1
    <3>1. ev[j].scope < id /\ ev[j].scope \in Nat
      BY <1>1, <1>6, <2>1
    <3> QED BY <1>2, <2>1, <2>3, <3>1
  <2> QED BY <1>5, <2>2, <2>3
<1>12. ASSUME NEW i \in DOMAIN ls2, i # 1
       PROVE  \E k \in DOMAIN ev2 : ev2[k].kind = "def" /\ ev2[k].scope = ls2[i]
  <2>1. CASE i \in 1..D
    <3>1. PICK k \in 1..L : ev[k].kind = "def" /\ ev[k].scope = ls[i]
      BY <1>1, <1>12, <2>1 DEF Nests
    <3>2. k \in DOMAIN ev2
      BY <1>1, <1>2
    <3> QED BY <1>2, <2>1, <3>1, <3>2
  <2>2. CASE i = D + 1
    BY <1>2, <1>7, <2>2
  <2> QED BY <1>4, <2>1, <2>2
<1>13. Nests(ls2, ev2)
  BY <1>7, <1>8, <1>9, <1>10, <1>11, <1>12 DEF Nests
<1>14. ASSUME NEW i \in 1..D PROVE Seen(ls2, ev2, i) = Seen(ls, ev, i)
  <2>1. ls2[i] = ls[i] /\ ls[i] \in Nat /\ ls[i] < id
    BY <1>1, <1>2, <1>6
  <2>2. ~(ev2[L + 1].scope <= ls2[i])
    BY <1>2, <2>1
  <2>3. \A k \in 1..L : k \in DOMAIN ev2 /\ ev2[k] = ev[k]
    BY <1>1, <1>2
  <2> QED BY <1>1, <1>5, <2>1, <2>2, <2>3 DEF Seen
<1> QED BY <1>13, <1>14 DEF D

(* exit_def closes it.                                                     *)
LEMMA PopDef ==
  ASSUME NEW ls \in Seq(Nat), NEW ev \in Seq(BlockSet), Nests(ls, ev),
         NEW ls2 \in Seq(Nat), NEW ev2 \in Seq(BlockSet), NEW id, NEW blk,
         Pushed(ls2, ls, id), Pushed(ev2, ev, blk), blk.kind = "def"
  PROVE  /\ Nests(ls2, ev2)
         /\ \A i \in 1..Len(ls2) : Seen(ls2, ev2, i) = Seen(ls, ev, i)
<1> DEFINE D == Len(ls2)
           L == Len(ev2)
<1>1. /\ D \in Nat /\ L \in Nat
      /\ DOMAIN ls2 = 1..D /\ DOMAIN ls = 1..D + 1 /\ ls[D + 1] = id /\ \A i \in 1..D : ls[i] = ls2[i]
      /\ DOMAIN ev2 = 1..L /\ DOMAIN ev = 1..L + 1 /\ ev[L + 1] = blk /\ \A k \in 1..L : ev[k] = ev2[k]
      /\ Len(ls) = D + 1 /\ Len(ev) = L + 1
  BY DEF Pushed
<1>2. /\ \A i \in 1..D + 1 : ls[i] \in Nat
      /\ \A k \in 1..L + 1 : ev[k].scope \in Nat
      /\ ev[L + 1].scope = ls[D + 1]
  BY <1>1, NestFacts
<1> HIDE DEF D, L
<1>3. D + 1 \in DOMAIN ls /\ L + 1 \in DOMAIN ev
  BY <1>1
<1>4. L + 1 # 1
  <2>1. ev[1].kind = "module"
    BY DEF Nests
  <2> QED BY <1>1, <2>1
<1>5. \A k \in 1..L : ev[k].scope < ls[D + 1]
  <2> TAKE k \in 1..L
  <2>1. k \in DOMAIN ev /\ k < L + 1
    BY <1>1
  <2>2. ev[k].scope < ev[L + 1].scope
    BY <1>1, <1>3, <2>1 DEF Nests
  <2> QED BY <1>2, <2>2
<1>6. D + 1 # 1
  <2>1. 1 \in 1..L /\ 1 \in 1..L + 1
    BY <1>1, <1>4
  <2>2. ev[1].scope = ls[1]
    BY DEF Nests
  <2>3. ev[1].scope < ls[D + 1] /\ ev[1].scope \in Nat
    BY <1>2, <1>5, <2>1
  <2> QED BY <2>2, <2>3
<1>7. 1 \in 1..D /\ 1 \in 1..L
  BY <1>1, <1>4, <1>6
<1>8. ls2[1] = ModuleScope /\ ev2[1].scope = ModuleScope
  <2>1. ls[1] = ModuleScope /\ ev[1].scope = ModuleScope
    BY DEF Nests
  <2> QED BY <1>1, <1>7, <2>1
<1>9. (\A i \in 1..D : i \in DOMAIN ls) /\ (\A k \in 1..L : k \in DOMAIN ev)
  BY <1>1
<1>10. \A i, j \in 1..D : i < j => ls2[i] < ls2[j]
  <2> SUFFICES ASSUME NEW i \in 1..D, NEW j \in 1..D, i < j PROVE ls2[i] < ls2[j]
    OBVIOUS
  <2>1. ls[i] < ls[j]
    BY <1>9 DEF Nests
  <2> QED BY <1>1, <2>1
<1>11. ASSUME NEW k \in 1..L
       PROVE  (ev2[k].kind = "module" <=> k = 1) /\ \E i \in 1..D : ev2[k].scope = ls2[i]
  <2>1. ev[k].kind = "module" <=> k = 1
    BY <1>9 DEF Nests
  <2>2. PICK i \in DOMAIN ls : ev[k].scope = ls[i]
    BY <1>9 DEF Nests
  <2>3. i # D + 1
    BY <1>2, <1>5, <2>2
  <2>4. i \in 1..D
    BY <1>1, <2>3
  <2> QED BY <1>1, <2>1, <2>2, <2>4
<1>12. ASSUME NEW j \in 1..L, NEW k \in 1..L, j < k
       PROVE  ev2[j].scope <= ev2[k].scope /\ (ev2[k].kind = "def" => ev2[j].scope < ev2[k].scope)
  <2>1. ev[j].scope <= ev[k].scope /\ (ev[k].kind = "def" => ev[j].scope < ev[k].scope)
    BY <1>9, <1>12 DEF Nests
  <2> QED BY <1>1, <2>1
<1>13. ASSUME NEW i \in 1..D, i # 1
       PROVE  \E k \in 1..L : ev2[k].kind = "def" /\ ev2[k].scope = ls2[i]
  <2>1. PICK k \in DOMAIN ev : ev[k].kind = "def" /\ ev[k].scope = ls[i]
    BY <1>9, <1>13 DEF Nests
  <2>2. ls[i] < ls[D + 1] /\ ls[i] \in Nat
    <3>1. i \in DOMAIN ls /\ i < D + 1
      BY <1>1
    <3>2. ls[i] < ls[D + 1]
      BY <1>3, <3>1 DEF Nests
    <3> QED BY <1>1, <1>2, <3>1, <3>2
  <2>3. k # L + 1
    BY <1>2, <2>1, <2>2
  <2>4. k \in 1..L
    BY <1>1, <2>3
  <2> QED BY <1>1, <2>1, <2>4
<1>14. Nests(ls2, ev2)
  <2>1. DOMAIN ls2 = 1..D /\ DOMAIN ev2 = 1..L
    BY <1>1
  <2>2. \A i, j \in DOMAIN ls2 : i < j => ls2[i] < ls2[j]
    BY <1>10, <2>1
  <2>3. \A k \in DOMAIN ev2 : /\ ev2[k].kind = "module" <=> k = 1
                              /\ \E i \in DOMAIN ls2 : ev2[k].scope = ls2[i]
    BY <1>11, <2>1
  <2>4. \A j, k \in DOMAIN ev2 :
           j < k => /\ ev2[j].scope <= ev2[k].scope
                    /\ ev2[k].kind = "def" => ev2[j].scope < ev2[k].scope
    BY <1>12, <2>1
  <2>5. \A i \in DOMAIN ls2 : i # 1 =>
           \E k \in DOMAIN ev2 : ev2[k].kind = "def" /\ ev2[k].scope = ls2[i]
    BY <1>13, <2>1
  <2>6. 1 \in DOMAIN ls2 /\ 1 \in DOMAIN ev2
    BY <1>7, <2>1
  <2> QED BY <1>8, <2>2, <2>3, <2>4, <2>5, <2>6 DEF Nests
<1>15. ASSUME NEW i \in 1..D PROVE Seen(ls2, ev2, i) = Seen(ls, ev, i)
  <2>1. ls2[i] = ls[i] /\ ls[i] < ls[D + 1] /\ ls[i] \in Nat /\ ls[D + 1] \in Nat
    <3>1. i \in DOMAIN ls /\ i < D + 1
      BY <1>1
    <3>2. ls[i] < ls[D + 1]
      BY <1>3, <3>1 DEF Nests
    <3> QED BY <1>1, <1>2, <1>3, <3>1, <3>2
  <2>2. ~(ev[L + 1].scope <= ls[i])
    BY <1>2, <2>1
  <2>3. \A k \in DOMAIN ev : k \in 1..L \/ k = L + 1
    BY <1>1
  <2> QED BY <1>1, <1>9, <2>1, <2>2, <2>3 DEF Seen
<1> QED BY <1>14, <1>15 DEF D

(* enter_compr and exit_compr add and remove a block of the innermost      *)
(* level.                                                                  *)
LEMMA PushCompr ==
  ASSUME NEW ls \in Seq(Nat), NEW ev \in Seq(BlockSet), Nests(ls, ev),
         NEW ev2 \in Seq(BlockSet), NEW blk \in BlockSet, Pushed(ev, ev2, blk),
         blk.kind = "compr", blk.scope = ls[Len(ls)]
  PROVE  /\ Nests(ls, ev2)
         /\ \A i \in 1..Len(ls) : i # Len(ls) => Seen(ls, ev2, i) = Seen(ls, ev, i)
<1> DEFINE D == Len(ls)
           L == Len(ev)
<1>1. /\ D \in Nat /\ D >= 1 /\ DOMAIN ls = 1..D /\ L \in Nat /\ L >= 1 /\ DOMAIN ev = 1..L
      /\ \A i \in 1..D : ls[i] \in Nat
      /\ \A k \in 1..L : ev[k].scope \in Nat /\ ev[k].scope <= ls[D]
  BY NestFacts
<1>2. DOMAIN ev2 = 1..L + 1 /\ ev2[L + 1] = blk /\ \A k \in 1..L : ev2[k] = ev[k]
  BY DEF Pushed
<1>3. blk.scope = ls[D]
  OBVIOUS
<1> HIDE DEF D, L
<1>5. \A k \in DOMAIN ev2 : k \in 1..L \/ k = L + 1
  BY <1>1, <1>2
<1>7. D \in DOMAIN ls /\ 1 \in 1..L /\ 1 \in DOMAIN ls /\ 1 \in DOMAIN ev2 /\ L + 1 \in DOMAIN ev2
  BY <1>1, <1>2
<1>8. ls[1] = ModuleScope /\ ev2[1].scope = ModuleScope
  <2>1. ls[1] = ModuleScope /\ ev[1].scope = ModuleScope
    BY DEF Nests
  <2> QED BY <1>2, <1>7, <2>1
<1>9. \A i, j \in DOMAIN ls : i < j => ls[i] < ls[j]
  BY DEF Nests
<1>10. ASSUME NEW k \in DOMAIN ev2
       PROVE  (ev2[k].kind = "module" <=> k = 1) /\ \E i \in DOMAIN ls : ev2[k].scope = ls[i]
  <2>1. CASE k \in 1..L
    <3>1. ev[k].kind = "module" <=> k = 1
      BY <1>1, <2>1 DEF Nests
    <3>2. \E i \in DOMAIN ls : ev[k].scope = ls[i]
      BY <1>1, <2>1 DEF Nests
    <3> QED BY <1>2, <2>1, <3>1, <3>2
  <2>2. CASE k = L + 1
    <3>1. k # 1
      BY <1>1, <2>2
    <3> QED BY <1>2, <1>3, <1>7, <2>2, <3>1
  <2> QED BY <1>5, <2>1, <2>2
<1>11. ASSUME NEW j \in DOMAIN ev2, NEW k \in DOMAIN ev2, j < k
       PROVE  ev2[j].scope <= ev2[k].scope /\ (ev2[k].kind = "def" => ev2[j].scope < ev2[k].scope)
  <2>1. j \in 1..L
    BY <1>1, <1>2, <1>11
  <2>2. CASE k \in 1..L
    <3>1. ev[j].scope <= ev[k].scope /\ (ev[k].kind = "def" => ev[j].scope < ev[k].scope)
      BY <1>1, <1>11, <2>1, <2>2 DEF Nests
    <3> QED BY <1>2, <2>1, <2>2, <3>1
  <2>3. CASE k = L + 1
    <3>1. ev[j].scope <= ls[D]
      BY <1>1, <2>1
    <3> QED BY <1>2, <1>3, <2>1, <2>3, <3>1
  <2> QED BY <1>5, <2>2, <2>3
<1>12. ASSUME NEW i \in DOMAIN ls, i # 1
       PROVE  \E k \in DOMAIN ev2 : ev2[k].kind = "def" /\ ev2[k].scope = ls[i]
  <2>1. PICK k \in 1..L : ev[k].kind = "def" /\ ev[k].scope = ls[i]
    BY <1>1, <1>12 DEF Nests
  <2>2. k \in DOMAIN ev2
    BY <1>1, <1>2
  <2> QED BY <1>2, <2>1, <2>2
<1>13. Nests(ls, ev2)
  BY <1>7, <1>8, <1>9, <1>10, <1>11, <1>12 DEF Nests
<1>14. ASSUME NEW i \in 1..D, i # D PROVE Seen(ls, ev2, i) = Seen(ls, ev, i)
  <2>1. ls[i] \in Nat /\ ls[D] \in Nat /\ ls[i] < ls[D]
    <3>1. i < D /\ i \in DOMAIN ls /\ D \in 1..D
      BY <1>1, <1>14
    <3> QED BY <1>1, <1>7, <1>9, <3>1
  <2>2. ~(ev2[L + 1].scope <= ls[i])
    BY <1>2, <1>3, <2>1
  <2>3. \A k \in 1..L : k \in DOMAIN ev2 /\ ev2[k] = ev[k]
    BY <1>1, <1>2
  <2> QED BY <1>1, <1>5, <2>1, <2>2, <2>3 DEF Seen
<1> QED BY <1>13, <1>14 DEF D

LEMMA PopCompr ==
  ASSUME NEW ls \in Seq(Nat), NEW ev \in Seq(BlockSet), Nests(ls, ev),
         NEW ev2 \in Seq(BlockSet), NEW blk, Pushed(ev2, ev, blk), blk.kind = "compr"
  PROVE  /\ Nests(ls, ev2)
         /\ \A i \in 1..Len(ls) : i # Len(ls) => Seen(ls, ev2, i) = Seen(ls, ev, i)
<1> DEFINE D == Len(ls)
           L == Len(ev2)
<1>1. /\ L \in Nat
      /\ DOMAIN ev2 = 1..L /\ DOMAIN ev = 1..L + 1 /\ ev[L + 1] = blk /\ \A k \in 1..L : ev[k] = ev2[k]
      /\ Len(ev) = L + 1
  BY DEF Pushed
<1>2. /\ D \in Nat /\ D >= 1 /\ DOMAIN ls = 1..D
      /\ \A i \in 1..D : ls[i] \in Nat
      /\ \A k \in 1..L + 1 : ev[k].scope \in Nat
      /\ ev[L + 1].scope = ls[D]
  BY <1>1, NestFacts
<1> HIDE DEF D, L
<1>3. D \in DOMAIN ls /\ L + 1 \in DOMAIN ev
  BY <1>1, <1>2
<1>4. L + 1 # 1
  <2>1. ev[1].kind = "module"
    BY DEF Nests
  <2> QED BY <1>1, <2>1
<1>7. 1 \in DOMAIN ls /\ 1 \in 1..L
  BY <1>1, <1>2, <1>4
<1>8. ls[1] = ModuleScope /\ ev2[1].scope = ModuleScope
  <2>1. ls[1] = ModuleScope /\ ev[1].scope = ModuleScope
    BY DEF Nests
  <2> QED BY <1>1, <1>7, <2>1
<1>9. \A k \in 1..L : k \in DOMAIN ev
  BY <1>1
<1>10. \A i, j \in DOMAIN ls : i < j => ls[i] < ls[j]
  BY DEF Nests
<1>11. ASSUME NEW k \in 1..L
       PROVE  (ev2[k].kind = "module" <=> k = 1) /\ \E i \in DOMAIN ls : ev2[k].scope = ls[i]
  <2>1. ev[k].kind = "module" <=> k = 1
    BY <1>9 DEF Nests
  <2>2. \E i \in DOMAIN ls : ev[k].scope = ls[i]
    BY <1>9 DEF Nests
  <2> QED BY <1>1, <2>1, <2>2
<1>12. ASSUME NEW j \in 1..L, NEW k \in 1..L, j < k
       PROVE  ev2[j].scope <= ev2[k].scope /\ (ev2[k].kind = "def" => ev2[j].scope < ev2[k].scope)
  <2>1. ev[j].scope <= ev[k].scope /\ (ev[k].kind = "def" => ev[j].scope < ev[k].scope)
    BY <1>9, <1>12 DEF Nests
  <2> QED BY <1>1, <2>1
<1>13. ASSUME NEW i \in DOMAIN ls, i # 1
       PROVE  \E k \in 1..L : ev2[k].kind = "def" /\ ev2[k].scope = ls[i]
  <2>1. PICK k \in DOMAIN ev : ev[k].kind = "def" /\ ev[k].scope = ls[i]
    BY <1>13 DEF Nests
  <2>3. k # L + 1
    BY <1>1, <2>1
  <2>4. k \in 1..L
    BY <1>1, <2>3
  <2> QED BY <1>1, <2>1, <2>4
<1>14. Nests(ls, ev2)
  <2>1. DOMAIN ev2 = 1..L
    BY <1>1
  <2>3. \A k \in DOMAIN ev2 : /\ ev2[k].kind = "module" <=> k = 1
                              /\ \E i \in DOMAIN ls : ev2[k].scope = ls[i]
    BY <1>11, <2>1
  <2>4. \A j, k \in DOMAIN ev2 :
           j < k => /\ ev2[j].scope <= ev2[k].scope
                    /\ ev2[k].kind = "def" => ev2[j].scope < ev2[k].scope
    BY <1>12, <2>1
  <2>5. \A i \in DOMAIN ls : i # 1 =>
           \E k \in DOMAIN ev2 : ev2[k].kind = "def" /\ ev2[k].scope = ls[i]
    BY <1>13, <2>1
  <2>6. 1 \in DOMAIN ls /\ 1 \in DOMAIN ev2
    BY <1>7, <2>1
  <2> QED BY <1>8, <1>10, <2>3, <2>4, <2>5, <2>6 DEF Nests
<1>15. ASSUME NEW i \in 1..D, i # D PROVE Seen(ls, ev2, i) = Seen(ls, ev, i)
  <2>1. ls[i] < ls[D] /\ ls[i] \in Nat /\ ls[D] \in Nat
    <3>1. i < D /\ i \in DOMAIN ls /\ D \in 1..D
      BY <1>2, <1>15
    <3> QED BY <1>2, <1>3, <1>10, <3>1
  <2>2. ~(ev[L + 1].scope <= ls[i])
    BY <1>2, <2>1
  <2>3. \A k \in DOMAIN ev : k \in 1..L \/ k = L + 1
    BY <1>1
  <2> QED BY <1>1, <1>9, <2>2, <2>3 DEF Seen
<1> QED BY <1>14, <1>15 DEF D

-----------------------------------------------------------------------------
(***************************************************************************)
(* The replaced names of the open comprehensions.                          *)
(***************************************************************************)
LevelsKept(scs, ls, ev, scs2, ls2) ==
  /\ DOMAIN ls2 \subseteq Nat \ {0}
  /\ \A k \in DOMAIN ev : \A i \in DOMAIN ls2 :
        ev[k].kind = "compr" /\ ev[k].scope = ls2[i]
           => i \in DOMAIN ls /\ LaterScopes(scs, ls, scs2, ls2, i)

SameComprs(ev, ev2) ==
  /\ DOMAIN ev \subseteq Nat \ {0}
  /\ \A k \in DOMAIN ev : ev[k].kind = "compr" => k \in DOMAIN ev2 /\ \A j \in 1..k : ev2[j] = ev[j]
  /\ \A k \in DOMAIN ev2 : ev2[k].kind = "compr" => k \in DOMAIN ev /\ ev[k].kind = "compr"

(* Unless a comprehension begins or ends, they stay.                       *)
LEMMA UndosStay ==
  ASSUME NEW bs, NEW scs, NEW ls, NEW us, NEW ev, NEW bs2, NEW scs2, NEW ls2, NEW ev2,
         UndosOK(bs, scs, ls, us, ev), LaterBindings(bs, bs2),
         LevelsKept(scs, ls, ev, scs2, ls2), SameComprs(ev, ev2)
  PROVE  UndosOK(bs2, scs2, ls2, us, ev2)
<1>1. PICK pos : /\ ComprsAt(us, ev, pos)
                 /\ \A q \in 1..Len(us) : UndoOK(bs, scs, ls, ev, us[q], pos[q])
  BY DEF UndosOK
<1>2. \A q \in 1..Len(us) : pos[q] \in DOMAIN ev /\ ev[pos[q]].kind = "compr"
  BY <1>1 DEF ComprsAt
<1>3. \A q \in 1..Len(us) : pos[q] \in DOMAIN ev2
  BY <1>2 DEF SameComprs
<1>4. \A k \in DOMAIN ev : ev[k].kind = "compr" => k \in DOMAIN ev2 /\ ev2[k] = ev[k]
  <2> SUFFICES ASSUME NEW k \in DOMAIN ev, ev[k].kind = "compr" PROVE k \in DOMAIN ev2 /\ ev2[k] = ev[k]
    OBVIOUS
  <2>1. k \in 1..k
    BY DEF SameComprs
  <2> QED BY <2>1 DEF SameComprs
<1>5. ComprsAt(us, ev2, pos)
  <2>1. pos \in [1..Len(us) -> DOMAIN ev2]
    BY <1>1, <1>3 DEF ComprsAt
  <2>2. \A p, q \in 1..Len(us) : p < q => pos[p] < pos[q]
    BY <1>1 DEF ComprsAt
  <2>3. ASSUME NEW k \in DOMAIN ev2
        PROVE  ev2[k].kind = "compr" <=> \E q \in 1..Len(us) : pos[q] = k
    <3>1. ASSUME ev2[k].kind = "compr" PROVE \E q \in 1..Len(us) : pos[q] = k
      BY <1>1, <3>1 DEF ComprsAt, SameComprs
    <3>2. ASSUME NEW q \in 1..Len(us), pos[q] = k PROVE ev2[k].kind = "compr"
      BY <1>2, <1>4, <3>2
    <3> QED BY <3>1, <3>2
  <2> QED BY <2>1, <2>2, <2>3 DEF ComprsAt
<1>6. ASSUME NEW q \in 1..Len(us) PROVE UndoOK(bs2, scs2, ls2, ev2, us[q], pos[q])
  <2> DEFINE k == pos[q]
             u == us[q]
  <2>1. UndoOK(bs, scs, ls, ev, u, k)
    BY <1>1
  <2>2. k \in DOMAIN ev /\ ev[k].kind = "compr"
    BY <1>2
  <2> HIDE DEF k, u
  <2>3. k \in Nat /\ k >= 1
    BY <2>2 DEF SameComprs
  <2>4. \A j \in 1..k : ev2[j] = ev[j]
    BY <2>2 DEF SameComprs
  <2>5. DOMAIN ls2 \subseteq Nat \ {0}
    BY DEF LevelsKept
  <2>6. \A i \in DOMAIN ls2 : ev[k].scope = ls2[i] => i \in DOMAIN ls /\ LaterScopes(scs, ls, scs2, ls2, i)
    BY <2>2 DEF LevelsKept
  <2>7. UndoOK(bs2, scs2, ls2, ev2, u, k)
    BY <2>1, <2>3, <2>4, <2>5, <2>6, UndoStays
  <2> QED BY <2>7 DEF k, u
<1> QED BY <1>5, <1>6 DEF UndosOK

(* A def opened or closed is not a comprehension.                          *)
LEMMA SameComprsDef ==
  ASSUME NEW ev, NEW ev2, NEW blk, Pushed(ev, ev2, blk), blk.kind = "def"
  PROVE  SameComprs(ev, ev2) /\ SameComprs(ev2, ev)
<1> DEFINE L == Len(ev)
<1>1. /\ L \in Nat
      /\ DOMAIN ev = 1..L /\ DOMAIN ev2 = 1..L + 1 /\ ev2[L + 1] = blk /\ \A k \in 1..L : ev2[k] = ev[k]
  BY DEF Pushed
<1> HIDE DEF L
<1>2. \A k \in DOMAIN ev2 : ev2[k].kind = "compr" => k \in DOMAIN ev
  BY <1>1
<1>3. (\A k \in DOMAIN ev : k \in DOMAIN ev2) /\ DOMAIN ev \subseteq Nat \ {0} /\ DOMAIN ev2 \subseteq Nat \ {0}
  BY <1>1
<1>4. \A k \in DOMAIN ev : \A j \in 1..k : ev2[j] = ev[j]
  BY <1>1
<1>5. \A k \in DOMAIN ev : ev2[k] = ev[k]
  BY <1>1
<1>6. SameComprs(ev, ev2)
  BY <1>2, <1>3, <1>4, <1>5 DEF SameComprs
<1>7. SameComprs(ev2, ev)
  BY <1>2, <1>3, <1>4, <1>5 DEF SameComprs
<1> QED BY <1>6, <1>7

(* A comprehension begins: enter_compr pushes what add_scoped replaced.    *)
LEMMA UndosPush ==
  ASSUME NEW bs, NEW scs, NEW ls, NEW us, NEW ev, NEW bs2, NEW scs2, NEW us2, NEW ev2, NEW u, NEW blk,
         UndosOK(bs, scs, ls, us, ev), LaterBindings(bs, bs2),
         LevelsKept(scs, ls, ev, scs2, ls),
         Pushed(us, us2, u), Pushed(ev, ev2, blk), blk.kind = "compr",
         UndoOK(bs2, scs2, ls, ev2, u, Len(ev) + 1)
  PROVE  UndosOK(bs2, scs2, ls, us2, ev2)
<1> DEFINE L == Len(ev)
           N == Len(us)
<1>1. /\ L \in Nat
      /\ DOMAIN ev = 1..L /\ DOMAIN ev2 = 1..L + 1 /\ ev2[L + 1] = blk /\ \A k \in 1..L : ev2[k] = ev[k]
  BY DEF Pushed
<1>2. N \in Nat /\ Len(us2) = N + 1 /\ us2[N + 1] = u /\ \A q \in 1..N : us2[q] = us[q]
  BY DEF Pushed
<1>3. PICK pos : /\ ComprsAt(us, ev, pos)
                 /\ \A q \in 1..N : UndoOK(bs, scs, ls, ev, us[q], pos[q])
  BY DEF UndosOK
<1>4. /\ pos \in [1..N -> 1..L]
      /\ \A p, q \in 1..N : p < q => pos[p] < pos[q]
      /\ \A k \in 1..L : ev[k].kind = "compr" <=> \E q \in 1..N : pos[q] = k
  BY <1>1, <1>3 DEF ComprsAt
<1>5. UndoOK(bs2, scs2, ls, ev2, u, L + 1)
  OBVIOUS
<1> HIDE DEF L, N
<1> DEFINE pos2 == [q \in 1..N + 1 |-> IF q = N + 1 THEN L + 1 ELSE pos[q]]
<1>6. \A q \in 1..N : q \in 1..N + 1 /\ q # N + 1
  BY <1>2
<1>7. /\ \A q \in 1..N : pos2[q] = pos[q] /\ pos[q] \in 1..L
      /\ pos2[N + 1] = L + 1
  BY <1>2, <1>4, <1>6
<1>8. \A q \in 1..N + 1 : q = N + 1 \/ q \in 1..N
  BY <1>2
<1>9. pos2 \in [1..N + 1 -> 1..L + 1]
  <2>1. \A q \in 1..N + 1 : pos2[q] \in 1..L + 1
    <3> HIDE DEF pos2
    <3>1. \A k \in 1..L : k \in 1..L + 1
      BY <1>1
    <3>2. L + 1 \in 1..L + 1
      BY <1>1
    <3> QED BY <1>7, <1>8, <3>1, <3>2
  <2> QED BY <2>1
<1> HIDE DEF pos2
<1>10. ASSUME NEW p \in 1..N + 1, NEW q \in 1..N + 1, p < q PROVE pos2[p] < pos2[q]
  <2>1. p \in 1..N
    BY <1>2, <1>10
  <2>2. CASE q \in 1..N
    BY <1>4, <1>7, <1>10, <2>1, <2>2
  <2>3. CASE q = N + 1
    BY <1>1, <1>7, <2>1, <2>3
  <2> QED BY <1>8, <2>2, <2>3
<1>11. ASSUME NEW k \in 1..L + 1 PROVE ev2[k].kind = "compr" <=> \E q \in 1..N + 1 : pos2[q] = k
  <2>1. CASE k = L + 1
    <3>1. N + 1 \in 1..N + 1
      BY <1>2
    <3> QED BY <1>1, <1>7, <2>1, <3>1
  <2>2. CASE k \in 1..L
    <3>1. (\E q \in 1..N + 1 : pos2[q] = k) <=> \E q \in 1..N : pos[q] = k
      <4>1. k # L + 1
        BY <1>1, <2>2
      <4> QED BY <1>6, <1>7, <1>8, <4>1
    <3>2. ev2[k] = ev[k]
      BY <1>1, <2>2
    <3> QED BY <1>4, <2>2, <3>1, <3>2
  <2> QED BY <1>1, <2>1, <2>2
<1>12. ComprsAt(us2, ev2, pos2)
  <2>1. DOMAIN ev2 = 1..L + 1 /\ Len(us2) = N + 1
    BY <1>1, <1>2
  <2> QED BY <1>9, <1>10, <1>11, <2>1 DEF ComprsAt
<1>13. ASSUME NEW q \in 1..N + 1 PROVE UndoOK(bs2, scs2, ls, ev2, us2[q], pos2[q])
  <2>1. CASE q = N + 1
    BY <1>2, <1>5, <1>7, <2>1
  <2>2. CASE q \in 1..N
    <3> DEFINE k == pos[q]
               v == us[q]
    <3>1. k \in 1..L /\ UndoOK(bs, scs, ls, ev, v, k)
      BY <1>3, <1>7, <2>2
    <3>2. ev[k].kind = "compr"
      BY <1>4, <2>2, <3>1
    <3> HIDE DEF k, v
    <3>3. k \in Nat /\ k >= 1 /\ k \in DOMAIN ev
      BY <1>1, <3>1
    <3>4. \A j \in 1..k : ev2[j] = ev[j]
      BY <1>1, <3>1
    <3>5. DOMAIN ls \subseteq Nat \ {0}
      BY DEF LevelsKept
    <3>6. \A i \in DOMAIN ls : ev[k].scope = ls[i] => i \in DOMAIN ls /\ LaterScopes(scs, ls, scs2, ls, i)
      BY <3>2, <3>3 DEF LevelsKept
    <3>7. UndoOK(bs2, scs2, ls, ev2, v, k)
      BY <3>1, <3>3, <3>4, <3>5, <3>6, UndoStays
    <3> QED BY <1>2, <1>7, <2>2, <3>7 DEF k, v
  <2> QED BY <1>8, <2>1, <2>2
<1> QED BY <1>2, <1>12, <1>13 DEF UndosOK

(* A comprehension ends: the table on top is its own.                      *)
LEMMA UndosPop ==
  ASSUME NEW bs, NEW scs, NEW ls, NEW us, NEW ev, NEW bs2, NEW scs2, NEW us2, NEW ev2, NEW u, NEW blk,
         UndosOK(bs, scs, ls, us, ev), LaterBindings(bs, bs2),
         LevelsKept(scs, ls, ev, scs2, ls),
         Pushed(us2, us, u), Pushed(ev2, ev, blk), blk.kind = "compr"
  PROVE  /\ UndosOK(bs2, scs2, ls, us2, ev2)
         /\ UndoOK(bs, scs, ls, ev, u, Len(ev))
<1> DEFINE L == Len(ev2)
           N == Len(us2)
<1>1. /\ L \in Nat
      /\ DOMAIN ev2 = 1..L /\ DOMAIN ev = 1..L + 1 /\ ev[L + 1] = blk /\ \A k \in 1..L : ev[k] = ev2[k]
      /\ Len(ev) = L + 1
  BY DEF Pushed
<1>2. N \in Nat /\ Len(us) = N + 1 /\ us[N + 1] = u /\ \A q \in 1..N : us[q] = us2[q]
  BY DEF Pushed
<1>3. PICK pos : /\ ComprsAt(us, ev, pos)
                 /\ \A q \in 1..Len(us) : UndoOK(bs, scs, ls, ev, us[q], pos[q])
  BY DEF UndosOK
<1> HIDE DEF L, N
<1>4. /\ pos \in [1..N + 1 -> 1..L + 1]
      /\ \A p, q \in 1..N + 1 : p < q => pos[p] < pos[q]
      /\ \A k \in 1..L + 1 : ev[k].kind = "compr" <=> \E q \in 1..N + 1 : pos[q] = k
  <2>1. DOMAIN ev = 1..L + 1 /\ Len(us) = N + 1
    BY <1>1, <1>2
  <2> QED BY <1>3, <2>1 DEF ComprsAt
<1>5. N + 1 \in 1..N + 1 /\ L + 1 \in 1..L + 1 /\ \A q \in 1..N : q \in 1..N + 1 /\ q < N + 1
  BY <1>1, <1>2
<1>6. pos[N + 1] = L + 1
  <2>1. PICK q \in 1..N + 1 : pos[q] = L + 1
    BY <1>1, <1>4, <1>5
  <2>2. q = N + 1 \/ q < N + 1
    BY <1>2
  <2>3. pos[N + 1] \in 1..L + 1
    BY <1>4, <1>5
  <2>4. ~(pos[q] < pos[N + 1])
    BY <1>1, <2>1, <2>3
  <2> QED BY <1>4, <1>5, <2>1, <2>2, <2>4
<1>7. \A q \in 1..N : pos[q] \in 1..L
  <2> TAKE q \in 1..N
  <2>1. pos[q] < L + 1 /\ pos[q] \in 1..L + 1
    BY <1>4, <1>5, <1>6
  <2> QED BY <1>1, <2>1
<1> DEFINE pos2 == [q \in 1..N |-> pos[q]]
<1>8. pos2 \in [1..N -> 1..L] /\ \A q \in 1..N : pos2[q] = pos[q]
  BY <1>7
<1> HIDE DEF pos2
<1>9. \A p, q \in 1..N : p < q => pos2[p] < pos2[q]
  BY <1>4, <1>5, <1>8
<1>10. ASSUME NEW k \in 1..L PROVE ev2[k].kind = "compr" <=> \E q \in 1..N : pos2[q] = k
  <2>1. k \in 1..L + 1 /\ k # L + 1 /\ ev[k] = ev2[k]
    BY <1>1
  <2>2. \A q \in 1..N + 1 : q = N + 1 \/ q \in 1..N
    BY <1>2
  <2>3. (\E q \in 1..N : pos2[q] = k) <=> \E q \in 1..N + 1 : pos[q] = k
    BY <1>5, <1>6, <1>8, <2>1, <2>2
  <2> QED BY <1>4, <2>1, <2>3
<1>11. ComprsAt(us2, ev2, pos2)
  <2>1. DOMAIN ev2 = 1..L /\ Len(us2) = N
    BY <1>1 DEF N
  <2> QED BY <1>8, <1>9, <1>10, <2>1 DEF ComprsAt
<1>12. ASSUME NEW q \in 1..N PROVE UndoOK(bs2, scs2, ls, ev2, us2[q], pos2[q])
  <2> DEFINE k == pos[q]
             v == us[q]
  <2>1. k \in 1..L /\ UndoOK(bs, scs, ls, ev, v, k)
    BY <1>2, <1>3, <1>5, <1>7
  <2>2. ev[k].kind = "compr" /\ k \in 1..L + 1
    <3>1. k \in 1..L + 1
      BY <1>1, <2>1
    <3> QED BY <1>4, <1>5, <3>1
  <2> HIDE DEF k, v
  <2>3. k \in Nat /\ k >= 1 /\ k \in DOMAIN ev
    BY <1>1, <2>2
  <2>4. \A j \in 1..k : ev2[j] = ev[j]
    BY <1>1, <2>1
  <2>5. DOMAIN ls \subseteq Nat \ {0}
    BY DEF LevelsKept
  <2>6. \A i \in DOMAIN ls : ev[k].scope = ls[i] => i \in DOMAIN ls /\ LaterScopes(scs, ls, scs2, ls, i)
    BY <2>2, <2>3 DEF LevelsKept
  <2>7. UndoOK(bs2, scs2, ls, ev2, v, k)
    BY <2>1, <2>3, <2>4, <2>5, <2>6, UndoStays
  <2> QED BY <1>2, <1>8, <2>7 DEF k, v
<1>13. UndosOK(bs2, scs2, ls, us2, ev2)
  BY <1>11, <1>12 DEF UndosOK, N
<1>14. UndoOK(bs, scs, ls, ev, u, L + 1)
  BY <1>2, <1>3, <1>5, <1>6
<1> QED BY <1>1, <1>13, <1>14

-----------------------------------------------------------------------------
(***************************************************************************)
(* Facts the steps share.                                                  *)
(***************************************************************************)
LEMMA StateFacts ==
  ASSUME IInv
  PROVE  /\ bindings \in Seq(BindingSet) /\ Len(bindings) \in Nat /\ DOMAIN bindings = 1..Len(bindings)
         /\ scopes \in Seq(ScopeSet) /\ Len(scopes) \in Nat /\ DOMAIN scopes = 1..Len(scopes)
         /\ \A s \in 1..Len(scopes) : scopes[s] \in ScopeSet /\ CopiesOK(scopes[s])
         /\ locals \in Seq(Nat) /\ locals \in Seq(1..Len(scopes))
         /\ \A i \in 1..Len(locals) : locals[i] \in 1..Len(scopes)
         /\ unscopes \in Seq(Tables)
         /\ env \in Seq(BlockSet) /\ Nests(locals, env)
         /\ Len(locals) \in Nat /\ Len(locals) >= 1 /\ DOMAIN locals = 1..Len(locals)
         /\ TopScopeId = locals[Len(locals)]
         /\ Len(env) \in Nat /\ Len(env) >= 1 /\ DOMAIN env = 1..Len(env) /\ Last(env) = env[Len(env)]
         /\ \A k \in 1..Len(env) : \E i \in 1..Len(locals) : env[k].scope = locals[i]
         /\ \A i, j \in 1..Len(locals) : locals[i] = locals[j] => i = j
<1>1. /\ bindings \in Seq(BindingSet) /\ scopes \in Seq(ScopeSet) /\ locals \in Seq(1..Len(scopes))
      /\ unscopes \in Seq(Tables) /\ env \in Seq(BlockSet) /\ Nests(locals, env)
      /\ \A s \in 1..Len(scopes) : CopiesOK(scopes[s])
  BY DEF IInv, Form
<1>2. Len(bindings) \in Nat /\ DOMAIN bindings = 1..Len(bindings) /\ Len(scopes) \in Nat /\ DOMAIN scopes = 1..Len(scopes)
  BY <1>1
<1>3. \A s \in 1..Len(scopes) : scopes[s] \in ScopeSet
  BY <1>1
<1>4. \A i \in 1..Len(locals) : locals[i] \in 1..Len(scopes)
  BY <1>1
<1>5. locals \in Seq(Nat)
  <2>1. 1..Len(scopes) \subseteq Nat
    BY <1>2
  <2> QED BY <1>1, <2>1, SeqMonotonic
<1>6. /\ Len(locals) \in Nat /\ Len(locals) >= 1 /\ DOMAIN locals = 1..Len(locals)
      /\ Last(locals) = locals[Len(locals)]
      /\ Len(env) \in Nat /\ Len(env) >= 1 /\ DOMAIN env = 1..Len(env) /\ Last(env) = env[Len(env)]
  BY <1>1, <1>5, NestFacts
<1>7. \A k \in 1..Len(env) : \E i \in 1..Len(locals) : env[k].scope = locals[i]
  <2>1. \A k \in DOMAIN env : \E i \in DOMAIN locals : env[k].scope = locals[i]
    BY <1>1 DEF Nests
  <2> QED BY <1>6, <2>1
<1>8. \A i, j \in 1..Len(locals) : locals[i] = locals[j] => i = j
  <2> DEFINE D == Len(locals)
  <2>1. D \in Nat /\ \A i \in 1..D : locals[i] \in Nat
    BY <1>5, <1>6
  <2>2. \A i, j \in 1..D : i < j => locals[i] < locals[j]
    BY <1>1, <1>6 DEF Nests
  <2> HIDE DEF D
  <2>3. \A i, j \in 1..D : locals[i] = locals[j] => i = j
    <3> SUFFICES ASSUME NEW i \in 1..D, NEW j \in 1..D, locals[i] = locals[j], i # j PROVE FALSE
      OBVIOUS
    <3>1. i < j \/ j < i
      BY <2>1
    <3>2. locals[i] < locals[j] \/ locals[j] < locals[i]
      BY <2>2, <3>1
    <3> QED BY <2>1, <3>2
  <2> QED BY <2>3 DEF D
<1> QED BY <1>1, <1>2, <1>3, <1>4, <1>5, <1>6, <1>7, <1>8 DEF TopScopeId

LEMMA WiderSame ==
  ASSUME NEW sc \in ScopeSet
  PROVE  Wider(sc, sc)
<1>1. Len(sc.used) \in Nat
  BY DEF ScopeSet
<1> QED BY <1>1 DEF Wider

LEMMA NewBindingFacts ==
  /\ \A n, o, s : /\ NewBinding(n, o, s).owner = o /\ NewBinding(n, o, s).slot = s
                  /\ NewBinding(n, o, s).captured = FALSE
  /\ \A n \in Names, o \in Nat, s \in Nat : NewBinding(n, o, s) \in BindingSet
BY DEF NewBinding, BindingSet

(* The variables of a block are numbered after all the others.             *)
Numbers(g, ns, owner, first) ==
  /\ DOMAIN g = 1..Len(ns) /\ g = [i \in DOMAIN g |-> g[i]]
  /\ \A i \in 1..Len(ns) : g[i] = NewBinding(ns[i], owner, first + i - 1)

Joins(r, s, t) == r = s \o t

Grown(bs, r, ns, owner, first) ==
  /\ r \in Seq(BindingSet)
  /\ Len(r) = Len(bs) + Len(ns)
  /\ LaterBindings(bs, r)
  /\ \A b \in 1..Len(bs) : r[b] = bs[b]
  /\ \A i \in 1..Len(ns) : r[Len(bs) + i] = NewBinding(ns[i], owner, first + i - 1)

LEMMA NewBindings ==
  ASSUME NEW bs \in Seq(BindingSet), NEW ns \in Seq(Names), NEW owner \in Nat, NEW first \in Nat, NEW g,
         NEW r, Joins(r, bs, g), Numbers(g, ns, owner, first)
  PROVE  Grown(bs, r, ns, owner, first)
<1> DEFINE N == Len(bs)
           M == Len(ns)
<1>1. N \in Nat /\ M \in Nat /\ \A i \in 1..M : ns[i] \in Names
  OBVIOUS
<1>2. \A i \in 1..M : g[i] \in BindingSet
  <2> TAKE i \in 1..M
  <2>1. first + i - 1 \in Nat /\ ns[i] \in Names
    BY <1>1
  <2>2. g[i] = NewBinding(ns[i], owner, first + i - 1)
    BY DEF Numbers
  <2> QED BY <2>1, <2>2, NewBindingFacts
<1>3. g \in Seq(BindingSet) /\ Len(g) = M
  <2>1. g \in [1..M -> BindingSet]
    BY <1>2 DEF Numbers
  <2>2. g \in Seq(BindingSet)
    <3> HIDE DEF M
    <3>1. M \in Nat
      BY <1>1
    <3> QED BY ONLY <2>1, <3>1, SeqDef
  <2>3. DOMAIN g = 1..M /\ DOMAIN g = 1..Len(g) /\ Len(g) \in Nat
    BY <2>2 DEF Numbers
  <2> QED BY <1>1, <2>2, <2>3
<1>4. /\ r \in Seq(BindingSet) /\ Len(r) = N + M
      /\ \A b \in 1..N + M : r[b] = IF b <= N THEN bs[b] ELSE g[b - N]
  <2>1. /\ r \in Seq(BindingSet) /\ Len(r) = N + Len(g)
        /\ \A b \in 1..N + Len(g) : r[b] = IF b <= N THEN bs[b] ELSE g[b - N]
    BY <1>3, ConcatProperties, ZenonT(30) DEF Joins
  <2> QED BY <1>3, <2>1
<1> HIDE DEF N, M
<1>5. \A b \in 1..N : r[b] = bs[b]
  BY <1>1, <1>4
<1>6. ASSUME NEW i \in 1..M PROVE r[N + i] = NewBinding(ns[i], owner, first + i - 1)
  <2>1. N + i \in 1..N + M /\ ~(N + i <= N) /\ (N + i) - N = i
    BY <1>1
  <2>2. g[i] = NewBinding(ns[i], owner, first + i - 1)
    BY DEF Numbers, M
  <2> QED BY <1>4, <2>1, <2>2
<1>8. LaterBindings(bs, r)
  <2>1. DOMAIN bs = 1..N /\ DOMAIN r = 1..N + M
    BY <1>4 DEF N
  <2>2. \A b \in 1..N : b \in 1..N + M
    BY <1>1
  <2> QED BY <1>5, <2>1, <2>2 DEF LaterBindings
<1> QED BY <1>4, <1>5, <1>6, <1>8 DEF Grown, N, M

LEMMA DeclaresStay ==
  ASSUME NEW bs, NEW ev, NEW bs2, NEW ev2, NEW k, Declares(bs, ev, k), LaterBindings(bs, bs2), ev2[k] = ev[k]
  PROVE  Declares(bs2, ev2, k)
BY DEF Declares, LaterBindings, OwnerOf

(* The entry of a name that the innermost block of V binds.                *)
LEMMA NewEntry ==
  ASSUME NEW bs, NEW scs, NEW ls, NEW ev, NEW e, NEW n, NEW i \in Nat, i # 0, NEW V, NEW k \in V,
         \A j \in V : ~(k < j),
         n \in DOMAIN ev[k].names, ev[k].names[n] = e.binding, e.binding \in DOMAIN bs,
         bs[e.binding].owner = ls[i], bs[e.binding].slot = e.slot, e.slot \in Nat,
         e.slot < Len(scs[ls[i]].used), Sources(scs[ls[i]].parent, e.slot) = {}
  PROVE  EntryOK(bs, scs, ls, ev, e, n, i, V)
<1>1. Sees(ev, V, n, e.binding)
  BY DEF Sees
<1>2. Leads(bs, scs, ls, i, e.slot, e.binding)
  <2> DEFINE path == [t \in 1..i |-> e.slot]
  <2>1. i \in 1..i /\ path \in [1..i -> Nat] /\ path[i] = e.slot
    OBVIOUS
  <2>2. (\A t \in i..i : t = i) /\ (\A t \in i + 1..i : FALSE)
    OBVIOUS
  <2> HIDE DEF path
  <2> QED BY <2>1, <2>2 DEF Leads
<1> QED BY <1>1, <1>2 DEF EntryOK

LEMMA EntrySees ==
  ASSUME NEW bs, NEW scs, NEW ls, NEW ev, NEW e, NEW n, NEW i, NEW V, NEW V2,
         EntryOK(bs, scs, ls, ev, e, n, i, V), Sees(ev, V2, n, e.binding)
  PROVE  EntryOK(bs, scs, ls, ev, e, n, i, V2)
BY DEF EntryOK

(* A name that a block does not bind means the same inside and outside.    *)
LEMMA SeesAcross ==
  ASSUME NEW ev, NEW n, NEW b, NEW L \in Nat, n \notin DOMAIN ev[L + 1].names
  PROVE  Sees(ev, 1..L, n, b) <=> Sees(ev, 1..L + 1, n, b)
<1>1. \A k \in 1..L : k \in 1..L + 1
  OBVIOUS
<1>2. \A k \in 1..L + 1 : k \in 1..L \/ k = L + 1
  OBVIOUS
<1> QED BY <1>1, <1>2 DEF Sees

-----------------------------------------------------------------------------
(***************************************************************************)
(* enter_def and exit_def.                                                 *)
(***************************************************************************)
LEMMA NamesInOrder ==
  ASSUME NEW S \in SUBSET Names
  PROVE  /\ SetToSeq(S) \in Seq(Names)
         /\ Range(SetToSeq(S)) = S
<1>1. IsFiniteSet(S)
  BY ScopesAssumption, FS_Subset
<1> DEFINE q == SetToSeq(S)
<1>2. q \in Seq(S) /\ \A x \in S : \E k \in 1..Len(q) : q[k] = x
  BY <1>1, Enumeration
<1> HIDE DEF q
<1>3. q \in Seq(Names)
  BY <1>2, SeqMonotonic
<1>4. Range(q) \subseteq S /\ \A k \in 1..Len(q) : q[k] \in Range(q)
  BY <1>2, IndexFacts
<1> QED BY <1>2, <1>3, <1>4 DEF q

LEMMA EmptyScope ==
  /\ EmptyNames \in ScopeSet /\ Len(EmptyNames.used) = 0 /\ DOMAIN EmptyNames.mp = {}
  /\ EmptyNames.parent = <<>> /\ CopiesOK(EmptyNames)
<1>1. <<>> \in Seq(Names) /\ <<>> \in Seq(CopySet) /\ Len(<<>>) = 0
  OBVIOUS
<1>2. <<>> \in Tables
  <2>1. <<>> \in [{} -> EntrySet]
    OBVIOUS
  <2> QED BY <2>1 DEF Tables
<1>3. DOMAIN <<>> = {}
  OBVIOUS
<1>4. EmptyNames.used = <<>> /\ EmptyNames.mp = <<>> /\ EmptyNames.parent = <<>>
  BY DEF EmptyNames
<1>5. EmptyNames \in ScopeSet
  BY <1>1, <1>2 DEF EmptyNames, ScopeSet
<1>6. CopiesOK(EmptyNames)
  BY <1>1, <1>4 DEF CopiesOK
<1> QED BY <1>1, <1>3, <1>4, <1>5, <1>6

LEMMA EnterDefStep ==
  ASSUME IInv, NEW params \in SUBSET Names, NEW assigned \in SUBSET Names, EnterDef(params, assigned)
  PROVE  IInv'
<1> DEFINE ns == SetToSeq(params) \o SetToSeq(assigned \ params)
           id == Len(scopes) + 1
           g == [i \in DOMAIN ns |-> NewBinding(ns[i], id, i - 1)]
           B == Len(bindings)
           sc == AddNames(EmptyNames, ns, B)
           blk == BlockOf("def", id, ns, B)
           D == Len(locals)
           L == Len(env)
<1>1. /\ bindings' = bindings \o g
      /\ scopes' = Append(scopes, sc)
      /\ locals' = Append(locals, id)
      /\ env' = Append(env, blk)
      /\ unscopes' = unscopes /\ module_bindings' = module_bindings /\ inner' = inner /\ last' = last
  BY DEF EnterDef
<1>2. ns \in Seq(Names)
  <2>1. SetToSeq(params) \in Seq(Names) /\ SetToSeq(assigned \ params) \in Seq(Names)
    BY NamesInOrder
  <2> QED BY <2>1
<1>3. /\ bindings \in Seq(BindingSet) /\ B \in Nat /\ DOMAIN bindings = 1..B
      /\ scopes \in Seq(ScopeSet) /\ Len(scopes) \in Nat /\ DOMAIN scopes = 1..Len(scopes)
      /\ \A s \in 1..Len(scopes) : scopes[s] \in ScopeSet /\ CopiesOK(scopes[s])
      /\ locals \in Seq(Nat)
      /\ \A i \in 1..D : locals[i] \in 1..Len(scopes)
      /\ env \in Seq(BlockSet) /\ Nests(locals, env)
      /\ D \in Nat /\ D >= 1 /\ DOMAIN locals = 1..D
      /\ L \in Nat /\ L >= 1 /\ DOMAIN env = 1..L
      /\ \A k \in 1..L : \E i \in 1..D : env[k].scope = locals[i]
  BY StateFacts
<1>4. id \in Nat /\ id = Len(scopes) + 1
  BY <1>3
<1>5. Numbers(g, ns, id, 0)
  <2> HIDE DEF ns
  <2>1. DOMAIN ns = 1..Len(ns)
    BY <1>2
  <2>2. DOMAIN g = 1..Len(ns) /\ g = [i \in DOMAIN g |-> g[i]]
    BY <2>1
  <2>3. \A i \in 1..Len(ns) : g[i] = NewBinding(ns[i], id, i - 1)
    BY <2>1
  <2>4. \A i \in 1..Len(ns) : 0 + i - 1 = i - 1
    OBVIOUS
  <2> HIDE DEF g
  <2> QED BY <2>2, <2>3, <2>4 DEF Numbers
<1> HIDE DEF ns, id, g
<1>6. /\ bindings' \in Seq(BindingSet) /\ Len(bindings') = B + Len(ns)
      /\ LaterBindings(bindings, bindings')
      /\ \A b \in 1..B : bindings'[b] = bindings[b]
      /\ \A i \in 1..Len(ns) : bindings'[B + i] = NewBinding(ns[i], id, 0 + i - 1)
  <2> DEFINE z == 0
             r == bindings'
  <2>1. z \in Nat /\ Joins(r, bindings, g) /\ bindings \in Seq(BindingSet) /\ Numbers(g, ns, id, z) /\ id \in Nat
    BY <1>1, <1>3, <1>4, <1>5 DEF Joins
  <2> HIDE DEF z, r
  <2>2. Grown(bindings, r, ns, id, z)
    BY ONLY <1>2, <2>1, NewBindings
  <2> QED BY <2>2 DEF Grown, z, r
<1>7. /\ sc \in ScopeSet /\ Len(sc.used) = 0 + Len(ns) /\ sc.parent = <<>>
      /\ DOMAIN sc.mp = Range(ns)
      /\ \A n \in Range(ns) : /\ sc.mp[n].slot = 0 + Index(ns, n) - 1
                              /\ sc.mp[n].binding = B + Index(ns, n)
  <2> HIDE DEF B
  <2>1. B \in Nat
    BY <1>3
  <2>2. EmptyNames \in ScopeSet /\ Len(EmptyNames.used) = 0 /\ DOMAIN EmptyNames.mp = {} /\ EmptyNames.parent = <<>>
    BY EmptyScope
  <2>3. /\ sc \in ScopeSet
        /\ Len(sc.used) = Len(EmptyNames.used) + Len(ns)
        /\ sc.parent = EmptyNames.parent
        /\ DOMAIN sc.mp = DOMAIN EmptyNames.mp \union Range(ns)
        /\ \A n \in Range(ns) : /\ sc.mp[n].slot = Len(EmptyNames.used) + Index(ns, n) - 1
                                /\ sc.mp[n].binding = B + Index(ns, n)
    BY <1>2, <2>1, <2>2, AddNamesFacts
  <2> HIDE DEF sc
  <2> QED BY <2>2, <2>3
<1>8. /\ blk \in BlockSet /\ blk.kind = "def" /\ blk.scope = id
      /\ DOMAIN blk.names = Range(ns)
      /\ \A n \in Range(ns) : blk.names[n] = B + Index(ns, n)
  <2> HIDE DEF B
  <2>1. B \in Nat /\ "def" \in {"module", "def", "compr"}
    BY <1>3
  <2> QED BY <1>2, <1>4, <2>1, BlockFacts
<1>9. \A n \in Range(ns) : Index(ns, n) \in 1..Len(ns)
  BY <1>2, IndexFacts
<1>10. Len(ns) \in Nat
  BY <1>2
<1> HIDE DEF sc, blk
<1>11. scopes' \in Seq(ScopeSet) /\ Pushed(scopes, scopes', sc)
  BY <1>1, <1>3, <1>7, PushedAppend
<1>12. locals' \in Seq(Nat) /\ Pushed(locals, locals', id)
  BY <1>1, <1>3, <1>4, PushedAppend
<1>13. env' \in Seq(BlockSet) /\ Pushed(env, env', blk)
  BY <1>1, <1>3, <1>8, PushedAppend
<1>14. /\ Len(scopes') = id /\ DOMAIN scopes' = 1..id /\ scopes'[id] = sc
       /\ \A s \in 1..Len(scopes) : scopes'[s] = scopes[s]
  BY <1>4, <1>11 DEF Pushed
<1>15. /\ Len(locals') = D + 1 /\ DOMAIN locals' = 1..D + 1 /\ locals'[D + 1] = id
       /\ \A i \in 1..D : locals'[i] = locals[i]
  BY <1>12 DEF Pushed
<1>16. /\ Len(env') = L + 1 /\ DOMAIN env' = 1..L + 1 /\ env'[L + 1] = blk
       /\ \A k \in 1..L : env'[k] = env[k]
  BY <1>13 DEF Pushed
<1> HIDE DEF B, D, L
<1>17. \A i \in 1..D : locals[i] < id /\ locals[i] \in Nat /\ locals[i] # id
  BY <1>3, <1>4
<1>18. locals[D] < id
  BY <1>3, <1>17
<1>19. Nests(locals', env') /\ \A i \in 1..D : Seen(locals', env', i) = Seen(locals, env, i)
  BY <1>3, <1>4, <1>8, <1>12, <1>13, <1>18, PushDef DEF D
<1>20. (\A s \in 1..id : s = id \/ s \in 1..Len(scopes)) /\ (\A s \in 1..Len(scopes) : s \in 1..id) /\ id \in 1..id
  BY <1>3, <1>4
<1>21. (\A i \in 1..D + 1 : i = D + 1 \/ i \in 1..D) /\ (\A i \in 1..D : i \in 1..D + 1) /\ D + 1 \in 1..D + 1
  BY <1>3
<1>22. (\A k \in 1..L + 1 : k = L + 1 \/ k \in 1..L) /\ (\A k \in 1..L : k \in 1..L + 1) /\ L + 1 \in 1..L + 1
  BY <1>3
<1>23. CopiesOK(sc)
  <2>1. Len(sc.parent) = 0
    BY <1>7
  <2> QED BY <2>1 DEF CopiesOK
<1>24. Form'
  <2>1. \A s \in 1..Len(scopes') : CopiesOK(scopes'[s])
    BY <1>3, <1>14, <1>20, <1>23
  <2>2. locals' \in Seq(1..Len(scopes'))
    <3>1. \A i \in 1..D + 1 : locals'[i] \in 1..id
      BY <1>3, <1>15, <1>20, <1>21
    <3>2. locals' \in [1..D + 1 -> 1..id] /\ D + 1 \in Nat
      <4>1. locals' = [i \in DOMAIN locals' |-> locals'[i]]
        BY <1>12
      <4> QED BY <1>3, <1>15, <3>1, <4>1
    <3>3. locals' \in Seq(1..id)
      BY ONLY <3>2, SeqDef
    <3> QED BY <1>14, <3>3
  <2>3. unscopes \in Seq(Tables)
    BY DEF IInv, Form
  <2> QED BY <1>1, <1>6, <1>11, <1>13, <2>1, <2>2, <2>3 DEF Form
<1>25. \A k \in DOMAIN env' : Declares(bindings', env', k)
  <2> TAKE k \in DOMAIN env'
  <2>1. CASE k \in 1..L
    <3>1. Declares(bindings, env, k)
      BY <1>3, <2>1 DEF IInv
    <3> QED BY <1>6, <1>16, <2>1, <3>1, DeclaresStay
  <2>2. CASE k = L + 1
    <3>1. k # 1
      BY <1>3, <2>2
    <3>2. ASSUME NEW n \in Range(ns) PROVE blk.names[n] \in DOMAIN bindings' /\ bindings'[blk.names[n]].owner = id
      <4>1. Index(ns, n) \in 1..Len(ns) /\ blk.names[n] = B + Index(ns, n)
        BY <1>8, <1>9
      <4>2. DOMAIN bindings' = 1..B + Len(ns)
        BY <1>6
      <4>3. B + Index(ns, n) \in 1..B + Len(ns)
        BY <1>3, <1>10, <4>1
      <4> QED BY <1>6, <4>1, <4>2, <4>3, NewBindingFacts
    <3> QED BY <1>8, <1>16, <2>2, <3>1, <3>2 DEF Declares, OwnerOf
  <2> QED BY <1>16, <1>22, <2>1, <2>2
<1>26. module_bindings' = env'[1].names
  <2>1. 1 \in 1..L
    BY <1>3
  <2> QED BY <1>1, <1>16, <2>1 DEF IInv
<1>27. ASSUME NEW i \in 1..D PROVE LaterScopes(scopes, locals, scopes', locals', i)
  <2> SUFFICES ASSUME NEW t \in 1..i PROVE locals'[t] = locals[t] /\ Wider(scopes[locals[t]], scopes'[locals[t]])
    BY DEF LaterScopes
  <2>1. t \in 1..D
    BY <1>3
  <2>2. locals[t] \in 1..Len(scopes)
    BY <1>3, <2>1
  <2>3. scopes'[locals[t]] = scopes[locals[t]] /\ scopes[locals[t]] \in ScopeSet
    BY <1>3, <1>14, <2>2
  <2>4. Wider(scopes[locals[t]], scopes[locals[t]])
    BY <2>3, WiderSame
  <2> QED BY <1>15, <2>1, <2>3, <2>4
<1>28. ASSUME NEW i \in 1..D PROVE AgreesAt(bindings', scopes', locals', env', i) /\ HoldsAt(scopes', locals', env', i)
  <2>1. AgreesAt(bindings, scopes, locals, env, i) /\ HoldsAt(scopes, locals, env, i)
    BY <1>3 DEF IInv
  <2>2. i \in Nat /\ locals'[i] = locals[i] /\ scopes'[locals[i]] = scopes[locals[i]]
    BY <1>3, <1>14, <1>15
  <2>3. Seen(locals', env', i) = Seen(locals, env, i)
    BY <1>19
  <2>4. \A k \in Seen(locals, env, i) : env'[k] = env[k]
    BY <1>3, <1>16 DEF Seen
  <2>5. AgreesAt(bindings', scopes', locals', env', i)
    BY <1>6, <1>27, <2>1, <2>2, <2>3, <2>4, AgreesStay
  <2>6. HoldsAt(scopes', locals', env', i)
    <3> SUFFICES ASSUME NEW k \in 1..L + 1, k # 1, env'[k].scope = locals[i]
                 PROVE  DOMAIN env'[k].names \subseteq DOMAIN scopes[locals[i]].mp
      BY <1>16, <2>2 DEF HoldsAt
    <3>1. k # L + 1
      BY <1>8, <1>16, <1>17
    <3>2. k \in 1..L
      BY <1>22, <3>1
    <3> QED BY <1>3, <1>16, <2>1, <3>2 DEF HoldsAt
  <2> QED BY <2>5, <2>6
<1>29. AgreesAt(bindings', scopes', locals', env', D + 1)
  <2>1. Seen(locals', env', D + 1) = 1..L + 1
    BY <1>12, <1>13, <1>15, <1>16, <1>19, NestFacts
  <2> SUFFICES ASSUME NEW n \in Range(ns)
               PROVE  EntryOK(bindings', scopes', locals', env', sc.mp[n], n, D + 1, 1..L + 1)
    BY <1>7, <1>14, <1>15, <2>1 DEF AgreesAt
  <2> DEFINE e == sc.mp[n]
             x == Index(ns, n)
             V == 1..L + 1
             k == L + 1
             i == D + 1
  <2>2. x \in 1..Len(ns) /\ e.slot = 0 + x - 1 /\ e.binding = B + x
    BY <1>7, <1>9
  <2>3. k \in V /\ (\A j \in V : ~(k < j)) /\ i \in Nat /\ i # 0
    BY <1>3
  <2>4. n \in DOMAIN env'[k].names /\ env'[k].names[n] = e.binding
    BY <1>8, <1>16, <2>2
  <2> HIDE DEF e, x
  <2>5. e.slot \in Nat /\ e.slot < Len(ns) /\ e.binding \in 1..B + Len(ns)
    BY <1>3, <1>10, <2>2
  <2>6. e.binding \in DOMAIN bindings'
    BY <1>6, <2>5
  <2>7. bindings'[e.binding].owner = id /\ bindings'[e.binding].slot = e.slot
    BY <1>6, <2>2, NewBindingFacts
  <2>8. locals'[i] = id /\ Len(scopes'[id].used) = Len(ns) /\ scopes'[id].parent = <<>>
    BY <1>7, <1>10, <1>14, <1>15
  <2>9. Sources(<<>>, e.slot) = {}
    <3>1. Range(<<>>) = {}
      BY DEF Range
    <3> QED BY <3>1 DEF Sources
  <2> HIDE DEF V, k, i
  <2>10. EntryOK(bindings', scopes', locals', env', e, n, i, V)
    BY <2>3, <2>4, <2>5, <2>6, <2>7, <2>8, <2>9, NewEntry
  <2> QED BY <2>10 DEF e, i, V
<1>30. HoldsAt(scopes', locals', env', D + 1)
  <2> SUFFICES ASSUME NEW k \in 1..L + 1, k # 1, env'[k].scope = id
               PROVE  DOMAIN env'[k].names \subseteq Range(ns)
    BY <1>7, <1>14, <1>15, <1>16 DEF HoldsAt
  <2>1. CASE k \in 1..L
    <3>1. PICK i \in 1..D : env[k].scope = locals[i]
      BY <1>3, <2>1
    <3> QED BY <1>16, <1>17, <2>1, <3>1
  <2>2. CASE k = L + 1
    BY <1>8, <1>16, <2>2
  <2> QED BY <1>22, <2>1, <2>2
<1>31. UndosOK(bindings', scopes', locals', unscopes', env')
  <2>1. UndosOK(bindings, scopes, locals, unscopes, env)
    BY DEF IInv
  <2>2. SameComprs(env, env')
    BY <1>8, <1>13, SameComprsDef
  <2>3. LevelsKept(scopes, locals, env, scopes', locals')
    <3>1. DOMAIN locals' \subseteq Nat \ {0}
      BY <1>3, <1>15
    <3>2. ASSUME NEW k \in 1..L, NEW i \in 1..D + 1, env[k].scope = locals'[i]
          PROVE  i \in 1..D /\ LaterScopes(scopes, locals, scopes', locals', i)
      <4>1. PICK j \in 1..D : env[k].scope = locals[j]
        BY <1>3
      <4>2. i # D + 1
        BY <1>15, <1>17, <3>2, <4>1
      <4> QED BY <1>21, <1>27, <4>2
    <3> QED BY <1>3, <1>15, <3>1, <3>2 DEF LevelsKept
  <2> QED BY <1>1, <1>6, <2>1, <2>2, <2>3, UndosStay
<1>32. \A b \in DOMAIN bindings' : bindings'[b].captured <=> b \in inner'
  <2> SUFFICES ASSUME NEW b \in DOMAIN bindings' PROVE bindings'[b].captured <=> b \in inner
    BY <1>1
  <2>1. CASE b \in 1..B
    BY <1>3, <1>6, <2>1 DEF IInv
  <2>2. CASE b \notin 1..B
    <3>1. b \notin inner
      BY <1>3, <2>2 DEF IInv
    <3>2. DOMAIN bindings' = 1..B + Len(ns)
      BY <1>6
    <3>3. b \in 1..B + Len(ns)
      BY <3>2
    <3>4. b - B \in 1..Len(ns) /\ B + (b - B) = b
      BY <1>3, <1>10, <2>2, <3>3
    <3>5. bindings'[b].captured = FALSE
      BY <1>6, <3>4, NewBindingFacts
    <3> QED BY <3>1, <3>5
  <2> QED BY <2>1, <2>2
<1>33. inner' \subseteq DOMAIN bindings'
  <2>1. inner \subseteq 1..B
    BY <1>3 DEF IInv
  <2>2. DOMAIN bindings' = 1..B + Len(ns)
    BY <1>6
  <2>3. 1..B \subseteq 1..B + Len(ns)
    BY <1>3, <1>10
  <2> QED BY <1>1, <2>1, <2>2, <2>3
<1>34. last'.binding = last'.expected
  BY <1>1 DEF IInv
<1>35. \A i \in DOMAIN locals' : AgreesAt(bindings', scopes', locals', env', i) /\ HoldsAt(scopes', locals', env', i)
  BY <1>15, <1>21, <1>28, <1>29, <1>30
<1> QED BY <1>19, <1>24, <1>25, <1>26, <1>31, <1>32, <1>33, <1>34, <1>35 DEF IInv

LEMMA BindingsSame ==
  ASSUME NEW bs
  PROVE  LaterBindings(bs, bs)
BY DEF LaterBindings

LEMMA ExitDefStep ==
  ASSUME IInv, ExitDef
  PROVE  IInv'
<1> DEFINE D == Len(locals')
           L == Len(env')
<1>1. /\ Last(env).kind = "def" /\ locals' = Front(locals) /\ env' = Front(env)
      /\ bindings' = bindings /\ scopes' = scopes /\ unscopes' = unscopes
      /\ module_bindings' = module_bindings /\ inner' = inner /\ last' = last
  BY DEF ExitDef
<1>2. /\ Len(scopes) \in Nat /\ DOMAIN scopes = 1..Len(scopes)
      /\ \A s \in 1..Len(scopes) : scopes[s] \in ScopeSet
      /\ locals \in Seq(Nat) /\ locals \in Seq(1..Len(scopes)) /\ locals # <<>>
      /\ \A i \in 1..Len(locals) : locals[i] \in 1..Len(scopes)
      /\ env \in Seq(BlockSet) /\ Nests(locals, env) /\ env # <<>>
      /\ DOMAIN locals = 1..Len(locals) /\ DOMAIN env = 1..Len(env)
  <2>1. locals # <<>> /\ env # <<>>
    BY StateFacts
  <2> QED BY <2>1, StateFacts
<1>3. locals' \in Seq(Nat) /\ locals' \in Seq(1..Len(scopes)) /\ Pushed(locals', locals, Last(locals))
  BY <1>1, <1>2, PushedFront
<1>4. env' \in Seq(BlockSet) /\ Pushed(env', env, Last(env))
  BY <1>1, <1>2, PushedFront
<1>5. Nests(locals', env') /\ \A i \in 1..D : Seen(locals', env', i) = Seen(locals, env, i)
  <2> DEFINE ls2 == locals'
             ev2 == env'
             id == Last(locals)
             blk == Last(env)
  <2>1. /\ ls2 \in Seq(Nat) /\ ev2 \in Seq(BlockSet) /\ Pushed(ls2, locals, id) /\ Pushed(ev2, env, blk) /\ blk.kind = "def"
    BY <1>1, <1>3, <1>4
  <2> HIDE DEF ls2, ev2, id, blk
  <2>2. Nests(ls2, ev2) /\ \A i \in 1..Len(ls2) : Seen(ls2, ev2, i) = Seen(locals, env, i)
    BY <1>2, <2>1, PopDef
  <2> QED BY <2>2 DEF ls2, ev2
<1>6. D \in Nat /\ DOMAIN locals' = 1..D /\ \A i \in 1..D : locals'[i] = locals[i] /\ i \in DOMAIN locals
  <2>1. D \in Nat /\ DOMAIN locals' = 1..D /\ DOMAIN locals = 1..D + 1 /\ \A i \in 1..D : locals[i] = locals'[i]
    BY <1>3 DEF Pushed
  <2> HIDE DEF D
  <2>2. \A i \in 1..D : i \in 1..D + 1
    BY <2>1
  <2> QED BY <2>1, <2>2
<1>7. L \in Nat /\ DOMAIN env' = 1..L /\ \A k \in 1..L : env'[k] = env[k] /\ k \in DOMAIN env
  <2>1. L \in Nat /\ DOMAIN env' = 1..L /\ DOMAIN env = 1..L + 1 /\ \A k \in 1..L : env[k] = env'[k]
    BY <1>4 DEF Pushed
  <2> HIDE DEF L
  <2>2. \A k \in 1..L : k \in 1..L + 1
    BY <2>1
  <2> QED BY <2>1, <2>2
<1> HIDE DEF D, L
<1>8. Form'
  BY <1>1, <1>3, <1>4 DEF IInv, Form
<1>9. LaterBindings(bindings, bindings')
  BY <1>1, BindingsSame
<1>10. \A k \in DOMAIN env' : Declares(bindings', env', k)
  <2> TAKE k \in DOMAIN env'
  <2>1. Declares(bindings, env, k) /\ env'[k] = env[k]
    BY <1>7 DEF IInv
  <2> QED BY <1>9, <2>1, DeclaresStay
<1>11. module_bindings' = env'[1].names
  <2>1. 1 \in DOMAIN env'
    BY <1>5 DEF Nests
  <2> QED BY <1>1, <1>7, <2>1 DEF IInv
<1>12. ASSUME NEW i \in 1..D PROVE LaterScopes(scopes, locals, scopes', locals', i)
  <2> SUFFICES ASSUME NEW t \in 1..i PROVE locals'[t] = locals[t] /\ Wider(scopes[locals[t]], scopes[locals[t]])
    BY <1>1 DEF LaterScopes
  <2>1. t \in 1..D
    BY <1>6
  <2>2. locals[t] \in 1..Len(scopes) /\ locals'[t] = locals[t]
    BY <1>2, <1>6, <2>1
  <2> QED BY <1>2, <2>2, WiderSame
<1>13. ASSUME NEW i \in DOMAIN locals'
       PROVE  AgreesAt(bindings', scopes', locals', env', i) /\ HoldsAt(scopes', locals', env', i)
  <2>1. i \in 1..D /\ i \in Nat /\ i \in DOMAIN locals /\ locals'[i] = locals[i]
    BY <1>6
  <2>2. AgreesAt(bindings, scopes, locals, env, i) /\ HoldsAt(scopes, locals, env, i)
    BY <2>1 DEF IInv
  <2>3. Seen(locals', env', i) = Seen(locals, env, i)
    BY <1>5, <2>1
  <2>4. \A k \in Seen(locals, env, i) : env'[k] = env[k]
    <3>1. \A k \in Seen(locals', env', i) : k \in DOMAIN env'
      BY DEF Seen
    <3> QED BY <1>7, <2>3, <3>1
  <2>5. AgreesAt(bindings', scopes', locals', env', i)
    BY <1>1, <1>9, <1>12, <2>1, <2>2, <2>3, <2>4, AgreesStay
  <2>6. HoldsAt(scopes', locals', env', i)
    BY <1>1, <1>7, <2>1, <2>2 DEF HoldsAt
  <2> QED BY <2>5, <2>6
<1>14. UndosOK(bindings', scopes', locals', unscopes', env')
  <2>1. UndosOK(bindings, scopes, locals, unscopes, env)
    BY DEF IInv
  <2>2. SameComprs(env, env')
    BY <1>1, <1>4, SameComprsDef
  <2>3. LevelsKept(scopes, locals, env, scopes', locals')
    <3>1. DOMAIN locals' \subseteq Nat \ {0}
      BY <1>6
    <3> QED BY <1>6, <1>12, <3>1 DEF LevelsKept
  <2> QED BY <1>1, <1>9, <2>1, <2>2, <2>3, UndosStay
<1>15. /\ \A b \in DOMAIN bindings' : bindings'[b].captured <=> b \in inner'
       /\ inner' \subseteq DOMAIN bindings'
       /\ last'.binding = last'.expected
  BY <1>1 DEF IInv
<1> QED BY <1>5, <1>8, <1>10, <1>11, <1>13, <1>14, <1>15 DEF IInv

-----------------------------------------------------------------------------
(***************************************************************************)
(* enter_compr and exit_compr.                                             *)
(***************************************************************************)
LEMMA EnterComprStep ==
  ASSUME IInv, NEW targets \in SUBSET Names, EnterCompr(targets)
  PROVE  IInv'
<1> DEFINE ns == SetToSeq(targets)
           id == TopScopeId
           first == Len(scopes[id].used)
           g == [i \in DOMAIN ns |-> NewBinding(ns[i], id, first + i - 1)]
           B == Len(bindings)
           old == scopes[id]
           sc == AddNames(old, ns, B)
           u == Undo(old, ns)
           blk == BlockOf("compr", id, ns, B)
           D == Len(locals)
           L == Len(env)
<1>1. /\ bindings' = bindings \o g
      /\ scopes' = [scopes EXCEPT ![id] = sc]
      /\ unscopes' = Append(unscopes, u)
      /\ env' = Append(env, blk)
      /\ locals' = locals /\ module_bindings' = module_bindings /\ inner' = inner /\ last' = last
  BY DEF EnterCompr
<1>2. ns \in Seq(Names)
  BY NamesInOrder
<1>3. /\ bindings \in Seq(BindingSet) /\ B \in Nat /\ DOMAIN bindings = 1..B
      /\ scopes \in Seq(ScopeSet) /\ Len(scopes) \in Nat /\ DOMAIN scopes = 1..Len(scopes)
      /\ \A s \in 1..Len(scopes) : scopes[s] \in ScopeSet /\ CopiesOK(scopes[s])
      /\ locals \in Seq(Nat) /\ locals \in Seq(1..Len(scopes))
      /\ \A i \in 1..D : locals[i] \in 1..Len(scopes)
      /\ unscopes \in Seq(Tables)
      /\ env \in Seq(BlockSet) /\ Nests(locals, env)
      /\ D \in Nat /\ D >= 1 /\ DOMAIN locals = 1..D /\ id = locals[D]
      /\ L \in Nat /\ L >= 1 /\ DOMAIN env = 1..L
      /\ \A i, j \in 1..D : locals[i] = locals[j] => i = j
  BY StateFacts
<1>4. Seen(locals, env, D) = 1..L
  BY <1>3, NestFacts
<1> HIDE DEF id, D, L, B
<1>5. D \in 1..D /\ id \in 1..Len(scopes) /\ id \in Nat
  BY <1>3
<1>6. old \in ScopeSet /\ CopiesOK(old)
  BY <1>3, <1>5
<1>7. first \in Nat /\ first = Len(old.used) /\ old.parent \in Seq(CopySet)
  BY <1>6 DEF ScopeSet
<1>8. Numbers(g, ns, id, first)
  <2> HIDE DEF ns, first
  <2>1. DOMAIN ns = 1..Len(ns)
    BY <1>2
  <2>2. DOMAIN g = 1..Len(ns) /\ g = [i \in DOMAIN g |-> g[i]]
    BY <2>1
  <2>3. \A i \in 1..Len(ns) : g[i] = NewBinding(ns[i], id, first + i - 1)
    BY <2>1
  <2> HIDE DEF g
  <2> QED BY <2>2, <2>3 DEF Numbers
<1> HIDE DEF ns, g, first, old
<1>9. Joins(bindings', bindings, g)
  BY <1>1 DEF Joins
<1>10. /\ bindings' \in Seq(BindingSet) /\ Len(bindings') = B + Len(ns)
       /\ LaterBindings(bindings, bindings')
       /\ \A b \in 1..B : bindings'[b] = bindings[b]
       /\ \A i \in 1..Len(ns) : bindings'[B + i] = NewBinding(ns[i], id, first + i - 1)
  <2> DEFINE r == bindings'
  <2>1. Joins(r, bindings, g) /\ bindings \in Seq(BindingSet) /\ Numbers(g, ns, id, first) /\ id \in Nat /\ first \in Nat
    BY <1>3, <1>5, <1>7, <1>8, <1>9
  <2> HIDE DEF r
  <2>2. Grown(bindings, r, ns, id, first)
    BY ONLY <1>2, <2>1, NewBindings
  <2> QED BY <2>2 DEF Grown, r, B
<1>11. /\ sc \in ScopeSet /\ Len(sc.used) = first + Len(ns) /\ sc.parent = old.parent
       /\ DOMAIN sc.mp = DOMAIN old.mp \union Range(ns)
       /\ \A n \in DOMAIN old.mp : n \notin Range(ns) => sc.mp[n] = old.mp[n]
       /\ \A n \in Range(ns) : /\ sc.mp[n].slot = first + Index(ns, n) - 1
                               /\ sc.mp[n].binding = B + Index(ns, n)
  BY <1>2, <1>3, <1>6, <1>7, AddNamesFacts
<1>12. /\ blk \in BlockSet /\ blk.kind = "compr" /\ blk.scope = id
       /\ DOMAIN blk.names = Range(ns)
       /\ \A n \in Range(ns) : blk.names[n] = B + Index(ns, n)
  <2>1. "compr" \in {"module", "def", "compr"}
    OBVIOUS
  <2> QED BY <1>2, <1>3, <1>5, <2>1, BlockFacts
<1>13. /\ u \in Tables /\ DOMAIN u = Range(ns)
       /\ \A n \in Range(ns) : u[n] = IF n \in DOMAIN old.mp THEN old.mp[n] ELSE NoName
  BY <1>2, <1>6, UndoFacts
<1>14. Len(ns) \in Nat /\ \A n \in Range(ns) : Index(ns, n) \in 1..Len(ns)
  BY <1>2, IndexFacts
<1> HIDE DEF sc, blk, u
<1>15. /\ scopes' \in Seq(ScopeSet) /\ Len(scopes') = Len(scopes) /\ scopes'[id] = sc
       /\ \A s \in 1..Len(scopes) : s # id => scopes'[s] = scopes[s]
  BY <1>1, <1>3, <1>5, <1>11, ExceptSeq
<1>16. unscopes' \in Seq(Tables) /\ Pushed(unscopes, unscopes', u)
  BY <1>1, <1>3, <1>13, PushedAppend
<1>17. env' \in Seq(BlockSet) /\ Pushed(env, env', blk)
  BY <1>1, <1>3, <1>12, PushedAppend
<1>18. /\ Len(env') = L + 1 /\ DOMAIN env' = 1..L + 1 /\ env'[L + 1] = blk
       /\ \A k \in 1..L : env'[k] = env[k]
  BY <1>17 DEF Pushed, L
<1>19. Nests(locals, env') /\ \A i \in 1..D : i # D => Seen(locals, env', i) = Seen(locals, env, i)
  <2>1. blk.scope = locals[Len(locals)]
    BY <1>3, <1>12 DEF D
  <2> QED BY <1>3, <1>12, <1>17, <2>1, PushCompr DEF D
<1>20. (\A k \in 1..L + 1 : k = L + 1 \/ k \in 1..L) /\ (\A k \in 1..L : k \in 1..L + 1) /\ L + 1 \in 1..L + 1
  BY <1>3
<1>21. CopiesOK(sc)
  <2> SUFFICES ASSUME NEW c \in 1..Len(old.parent) PROVE old.parent[c].child < first + Len(ns)
    BY <1>11 DEF CopiesOK
  <2>1. old.parent[c].child < first /\ old.parent[c].child \in Nat
    BY <1>6, <1>7, CopyFacts
  <2> QED BY <1>7, <1>14, <2>1
<1>22. Form'
  <2>1. \A s \in 1..Len(scopes') : CopiesOK(scopes'[s])
    BY <1>3, <1>15, <1>21
  <2> QED BY <1>1, <1>3, <1>10, <1>15, <1>16, <1>17, <2>1 DEF Form
<1>23. \A k \in DOMAIN env' : Declares(bindings', env', k)
  <2> TAKE k \in DOMAIN env'
  <2>1. CASE k \in 1..L
    <3>1. Declares(bindings, env, k)
      BY <1>3, <2>1 DEF IInv
    <3> QED BY <1>10, <1>18, <2>1, <3>1, DeclaresStay
  <2>2. CASE k = L + 1
    <3>1. k # 1
      BY <1>3, <2>2
    <3>2. ASSUME NEW n \in Range(ns) PROVE blk.names[n] \in DOMAIN bindings' /\ bindings'[blk.names[n]].owner = id
      <4>1. Index(ns, n) \in 1..Len(ns) /\ blk.names[n] = B + Index(ns, n)
        BY <1>12, <1>14
      <4>2. DOMAIN bindings' = 1..B + Len(ns)
        BY <1>10
      <4>3. B + Index(ns, n) \in 1..B + Len(ns)
        BY <1>3, <1>14, <4>1
      <4> QED BY <1>10, <4>1, <4>2, <4>3, NewBindingFacts
    <3> QED BY <1>12, <1>18, <2>2, <3>1, <3>2 DEF Declares, OwnerOf
  <2> QED BY <1>18, <1>20, <2>1, <2>2
<1>24. module_bindings' = env'[1].names
  <2>1. 1 \in 1..L
    BY <1>3
  <2> QED BY <1>1, <1>18, <2>1 DEF IInv
<1>25. Wider(old, sc)
  BY <1>7, <1>11, <1>14 DEF Wider
<1>26. ASSUME NEW i \in 1..D PROVE LaterScopes(scopes, locals, scopes', locals, i)
  <2> SUFFICES ASSUME NEW t \in 1..i PROVE Wider(scopes[locals[t]], scopes'[locals[t]])
    BY DEF LaterScopes
  <2>1. t \in 1..D
    BY <1>3
  <2>2. locals[t] \in 1..Len(scopes) /\ scopes[locals[t]] \in ScopeSet
    BY <1>3, <2>1
  <2>3. CASE locals[t] = id
    BY <1>15, <1>25, <2>3 DEF old
  <2>4. CASE locals[t] # id
    <3>1. scopes'[locals[t]] = scopes[locals[t]]
      BY <1>15, <2>2, <2>4
    <3> QED BY <2>2, <3>1, WiderSame
  <2> QED BY <2>3, <2>4
<1>27. ASSUME NEW i \in 1..D, i # D PROVE AgreesAt(bindings', scopes', locals, env', i) /\ HoldsAt(scopes', locals, env', i)
  <2>1. AgreesAt(bindings, scopes, locals, env, i) /\ HoldsAt(scopes, locals, env, i)
    BY <1>3 DEF IInv
  <2>2. i \in Nat /\ locals[i] # id /\ locals[i] \in 1..Len(scopes)
    BY <1>3, <1>5, <1>27
  <2>3. scopes'[locals[i]] = scopes[locals[i]]
    BY <1>15, <2>2
  <2>4. Seen(locals, env', i) = Seen(locals, env, i)
    BY <1>19, <1>27
  <2>5. \A k \in Seen(locals, env, i) : env'[k] = env[k]
    BY <1>3, <1>18 DEF Seen
  <2>6. AgreesAt(bindings', scopes', locals, env', i)
    BY <1>10, <1>26, <2>1, <2>2, <2>3, <2>4, <2>5, AgreesStay
  <2>7. HoldsAt(scopes', locals, env', i)
    <3> SUFFICES ASSUME NEW k \in 1..L + 1, k # 1, env'[k].scope = locals[i]
                 PROVE  DOMAIN env'[k].names \subseteq DOMAIN scopes[locals[i]].mp
      BY <1>18, <2>3 DEF HoldsAt
    <3>1. k # L + 1
      BY <1>12, <1>18, <2>2
    <3>2. k \in 1..L
      BY <1>20, <3>1
    <3> QED BY <1>3, <1>18, <2>1, <3>2 DEF HoldsAt
  <2> QED BY <2>6, <2>7
<1>28. AgreesAt(bindings, scopes, locals, env, D) /\ HoldsAt(scopes, locals, env, D)
  BY <1>3, <1>5 DEF IInv
<1>29. \A n \in DOMAIN old.mp : EntryOK(bindings, scopes, locals, env, old.mp[n], n, D, 1..L)
  BY <1>3, <1>4, <1>28 DEF AgreesAt, old
<1>30. AgreesAt(bindings', scopes', locals, env', D)
  <2>1. Seen(locals, env', D) = 1..L + 1
    BY <1>3, <1>17, <1>18, <1>19, NestFacts DEF D
  <2> SUFFICES ASSUME NEW n \in DOMAIN sc.mp
               PROVE  EntryOK(bindings', scopes', locals, env', sc.mp[n], n, D, 1..L + 1)
    BY <1>3, <1>15, <2>1 DEF AgreesAt
  <2> DEFINE e == sc.mp[n]
             V == 1..L + 1
             V1 == 1..L
  <2>2. CASE n \in Range(ns)
    <3> DEFINE x == Index(ns, n)
               k == L + 1
    <3>2. x \in 1..Len(ns) /\ e.slot = first + x - 1 /\ e.binding = B + x
      BY <1>11, <1>14, <2>2
    <3>3. k \in V /\ (\A j \in V : ~(k < j)) /\ D \in Nat /\ D # 0
      BY <1>3
    <3>4. n \in DOMAIN env'[k].names /\ env'[k].names[n] = e.binding
      BY <1>12, <1>18, <2>2, <3>2
    <3> HIDE DEF e, x
    <3>5. e.slot \in Nat /\ e.slot < first + Len(ns) /\ e.slot >= first /\ e.binding \in 1..B + Len(ns)
      BY <1>3, <1>7, <1>14, <3>2
    <3>6. e.binding \in DOMAIN bindings'
      BY <1>10, <3>5
    <3>7. bindings'[e.binding].owner = id /\ bindings'[e.binding].slot = e.slot
      BY <1>10, <3>2, NewBindingFacts
    <3>8. locals[D] = id /\ Len(scopes'[id].used) = first + Len(ns) /\ scopes'[id].parent = old.parent
      BY <1>3, <1>11, <1>15
    <3>9. Sources(old.parent, e.slot) = {}
      BY <1>6, <1>7, <3>5, FreshSlot
    <3> HIDE DEF V, k
    <3>10. EntryOK(bindings', scopes', locals, env', e, n, D, V)
      BY <3>3, <3>4, <3>5, <3>6, <3>7, <3>8, <3>9, NewEntry
    <3> QED BY <3>10 DEF e, V
  <2>3. CASE n \notin Range(ns)
    <3>1. n \in DOMAIN old.mp /\ e = old.mp[n]
      BY <1>11, <2>3
    <3>2. EntryOK(bindings, scopes, locals, env, e, n, D, V1)
      BY <1>29, <3>1
    <3>3. \A k \in V1 : env'[k] = env[k]
      BY <1>18
    <3>4. LaterScopes(scopes, locals, scopes', locals, D) /\ D \in Nat
      BY <1>3, <1>5, <1>26
    <3> HIDE DEF e, V1
    <3>5. EntryOK(bindings', scopes', locals, env', e, n, D, V1)
      BY <1>10, <3>2, <3>3, <3>4, EntryStays
    <3>6. n \notin DOMAIN env'[L + 1].names
      BY <1>12, <1>18, <2>3
    <3>7. Sees(env', 1..L, n, e.binding)
      BY <3>5 DEF EntryOK, V1
    <3>8. Sees(env', 1..L + 1, n, e.binding)
      BY <1>3, <3>6, <3>7, SeesAcross
    <3> HIDE DEF V
    <3>9. EntryOK(bindings', scopes', locals, env', e, n, D, V)
      <4>1. Sees(env', V, n, e.binding)
        BY <3>8 DEF V
      <4> QED BY <3>5, <4>1, EntrySees
    <3> QED BY <3>9 DEF e, V
  <2> QED BY <2>2, <2>3
<1>31. HoldsAt(scopes', locals, env', D)
  <2> SUFFICES ASSUME NEW k \in 1..L + 1, k # 1, env'[k].scope = id
               PROVE  DOMAIN env'[k].names \subseteq DOMAIN sc.mp
    BY <1>3, <1>15, <1>18 DEF HoldsAt
  <2>1. CASE k \in 1..L
    <3>1. DOMAIN env[k].names \subseteq DOMAIN old.mp
      BY <1>3, <1>18, <1>28, <2>1 DEF HoldsAt, old
    <3> QED BY <1>11, <1>18, <2>1, <3>1
  <2>2. CASE k = L + 1
    BY <1>11, <1>12, <1>18, <2>2
  <2> QED BY <1>20, <2>1, <2>2
<1>32. LevelsKept(scopes, locals, env, scopes', locals)
  <2>1. DOMAIN locals \subseteq Nat \ {0}
    BY <1>3
  <2> QED BY <1>3, <1>26, <2>1 DEF LevelsKept
<1>33. UndoOK(bindings', scopes', locals, env', u, L + 1)
  <2> DEFINE k == L + 1
  <2>1. DOMAIN u = DOMAIN env'[k].names
    BY <1>12, <1>13, <1>18
  <2>2. ASSUME NEW n \in DOMAIN u, u[n] = NoName, NEW j \in 2..k - 1, env'[j].scope = env'[k].scope
        PROVE  n \notin DOMAIN env'[j].names
    <3>1. n \in Range(ns)
      BY <1>13
    <3>2. n \notin DOMAIN old.mp
      <4> SUFFICES ASSUME n \in DOMAIN old.mp PROVE FALSE
        OBVIOUS
      <4>1. u[n] = old.mp[n]
        BY <1>13, <3>1
      <4>2. old.mp[n].binding \in DOMAIN bindings
        BY <1>29 DEF EntryOK
      <4>3. NoName.binding = 0
        BY DEF NoName
      <4>4. 0 \in 1..B
        BY <1>3, <2>2, <4>1, <4>2, <4>3
      <4> QED BY <1>3, <4>4
    <3>3. j \in 1..L /\ j # 1
      BY <1>3
    <3>4. env[j].scope = locals[D] /\ env'[j] = env[j]
      BY <1>3, <1>12, <1>18, <2>2, <3>3
    <3>5. DOMAIN env[j].names \subseteq DOMAIN old.mp
      BY <1>3, <1>28, <3>3, <3>4 DEF HoldsAt, old
    <3> QED BY <3>2, <3>4, <3>5
  <2>3. ASSUME NEW n \in DOMAIN u, u[n] # NoName, NEW i \in DOMAIN locals, env'[k].scope = locals[i]
        PROVE  EntryOK(bindings', scopes', locals, env', u[n], n, i, 1..k - 1)
    <3> DEFINE e == u[n]
               V == 1..L
    <3>1. n \in DOMAIN old.mp /\ e = old.mp[n]
      BY <1>13, <2>3
    <3>2. i = D
      BY <1>3, <1>5, <1>12, <1>18, <2>3
    <3>3. EntryOK(bindings, scopes, locals, env, e, n, D, V)
      BY <1>29, <3>1
    <3>4. LaterScopes(scopes, locals, scopes', locals, D) /\ D \in Nat
      BY <1>3, <1>5, <1>26
    <3>5. \A j \in V : env'[j] = env[j]
      BY <1>18
    <3> HIDE DEF e, V
    <3>6. EntryOK(bindings', scopes', locals, env', e, n, D, V)
      BY <1>10, <3>3, <3>4, <3>5, EntryStays
    <3>7. 1..k - 1 = V
      BY <1>3 DEF V
    <3> QED BY <3>2, <3>6, <3>7 DEF e
  <2> HIDE DEF k
  <2>4. UndoOK(bindings', scopes', locals, env', u, k)
    BY <2>1, <2>2, <2>3 DEF UndoOK
  <2> QED BY <2>4 DEF k
<1>34. UndosOK(bindings', scopes', locals, unscopes', env')
  <2>1. UndosOK(bindings, scopes, locals, unscopes, env)
    BY DEF IInv
  <2>2. UndoOK(bindings', scopes', locals, env', u, Len(env) + 1)
    BY <1>33 DEF L
  <2> QED BY <1>10, <1>12, <1>16, <1>17, <1>32, <2>1, <2>2, UndosPush
<1>35. \A b \in DOMAIN bindings' : bindings'[b].captured <=> b \in inner'
  <2> SUFFICES ASSUME NEW b \in DOMAIN bindings' PROVE bindings'[b].captured <=> b \in inner
    BY <1>1
  <2>1. CASE b \in 1..B
    BY <1>3, <1>10, <2>1 DEF IInv
  <2>2. CASE b \notin 1..B
    <3>1. b \notin inner
      BY <1>3, <2>2 DEF IInv
    <3>2. DOMAIN bindings' = 1..B + Len(ns)
      BY <1>10
    <3>3. b \in 1..B + Len(ns)
      BY <3>2
    <3>4. b - B \in 1..Len(ns) /\ B + (b - B) = b
      BY <1>3, <1>14, <2>2, <3>3
    <3>5. bindings'[b].captured = FALSE
      BY <1>10, <3>4, NewBindingFacts
    <3> QED BY <3>1, <3>5
  <2> QED BY <2>1, <2>2
<1>36. inner' \subseteq DOMAIN bindings'
  <2>1. inner \subseteq 1..B
    BY <1>3 DEF IInv
  <2>2. DOMAIN bindings' = 1..B + Len(ns)
    BY <1>10
  <2>3. 1..B \subseteq 1..B + Len(ns)
    BY <1>3, <1>14
  <2> QED BY <1>1, <2>1, <2>2, <2>3
<1>37. last'.binding = last'.expected
  BY <1>1 DEF IInv
<1>38. \A i \in DOMAIN locals' : AgreesAt(bindings', scopes', locals', env', i) /\ HoldsAt(scopes', locals', env', i)
  BY <1>1, <1>3, <1>27, <1>30, <1>31
<1> QED BY <1>1, <1>19, <1>22, <1>23, <1>24, <1>34, <1>35, <1>36, <1>37, <1>38 DEF IInv

LEMMA ExitComprStep ==
  ASSUME IInv, ExitCompr
  PROVE  IInv'
<1> DEFINE id == TopScopeId
           old == scopes[id]
           u == Last(unscopes)
           sc == Unscope(old, u)
           blk == Last(env)
           D == Len(locals)
           L == Len(env')
<1>1. /\ blk.kind = "compr"
      /\ scopes' = [scopes EXCEPT ![id] = sc]
      /\ unscopes' = Front(unscopes) /\ env' = Front(env)
      /\ bindings' = bindings /\ locals' = locals /\ module_bindings' = module_bindings
      /\ inner' = inner /\ last' = last
  BY DEF ExitCompr
<1>2. /\ DOMAIN bindings = 1..Len(bindings) /\ Len(bindings) \in Nat
      /\ scopes \in Seq(ScopeSet) /\ Len(scopes) \in Nat /\ DOMAIN scopes = 1..Len(scopes)
      /\ \A s \in 1..Len(scopes) : scopes[s] \in ScopeSet /\ CopiesOK(scopes[s])
      /\ locals \in Seq(Nat) /\ locals \in Seq(1..Len(scopes))
      /\ \A i \in 1..D : locals[i] \in 1..Len(scopes)
      /\ unscopes \in Seq(Tables)
      /\ env \in Seq(BlockSet) /\ Nests(locals, env) /\ env # <<>>
      /\ D \in Nat /\ D >= 1 /\ DOMAIN locals = 1..D /\ id = locals[D]
      /\ \A i, j \in 1..D : locals[i] = locals[j] => i = j
      /\ DOMAIN env = 1..Len(env) /\ Len(env) \in Nat /\ Len(env) >= 1 /\ blk = env[Len(env)]
  <2>1. env # <<>>
    BY StateFacts
  <2> QED BY <2>1, StateFacts
<1>3. Seen(locals, env, D) = 1..Len(env) /\ env[Len(env)].scope = locals[D]
  BY <1>2, NestFacts
<1>4. unscopes # <<>>
  <2>1. PICK pos : ComprsAt(unscopes, env, pos)
    BY DEF IInv, UndosOK
  <2>2. Len(env) \in DOMAIN env /\ env[Len(env)].kind = "compr"
    BY <1>1, <1>2
  <2>3. \E q \in 1..Len(unscopes) : pos[q] = Len(env)
    BY <2>1, <2>2 DEF ComprsAt
  <2> QED BY <2>3
<1> HIDE DEF id, u, blk, D, L
<1>5. env' \in Seq(BlockSet) /\ Pushed(env', env, blk)
  BY <1>1, <1>2, PushedFront DEF blk
<1>6. unscopes' \in Seq(Tables) /\ Pushed(unscopes', unscopes, u) /\ u \in Tables
  BY <1>1, <1>2, <1>4, PushedFront DEF u
<1>7. /\ L \in Nat /\ Len(env) = L + 1 /\ DOMAIN env' = 1..L /\ DOMAIN env = 1..L + 1 /\ env[L + 1] = blk
      /\ \A k \in 1..L : env'[k] = env[k]
  BY <1>5 DEF Pushed, L
<1>8. D \in 1..D /\ id \in 1..Len(scopes)
  BY <1>2
<1>9. old \in ScopeSet /\ CopiesOK(old)
  BY <1>2, <1>8
<1> HIDE DEF old
<1>10. /\ sc \in ScopeSet /\ sc.used = old.used /\ sc.parent = old.parent
       /\ DOMAIN sc.mp = {m \in DOMAIN old.mp : m \in DOMAIN u => u[m] # NoName}
       /\ \A n \in DOMAIN sc.mp : sc.mp[n] = IF n \in DOMAIN u THEN u[n] ELSE old.mp[n]
  BY <1>6, <1>9, UnscopeFacts
<1> HIDE DEF sc
<1>11. /\ scopes' \in Seq(ScopeSet) /\ Len(scopes') = Len(scopes) /\ scopes'[id] = sc
       /\ \A s \in 1..Len(scopes) : s # id => scopes'[s] = scopes[s]
  BY <1>1, <1>2, <1>8, <1>10, ExceptSeq
<1>12. Nests(locals, env') /\ \A i \in 1..D : i # D => Seen(locals, env', i) = Seen(locals, env, i)
  BY <1>1, <1>2, <1>5, PopCompr DEF D
<1>13. Seen(locals, env', D) = 1..L
  BY <1>2, <1>5, <1>12, NestFacts DEF D, L
<1>14. \A k \in 1..L : k \in 1..L + 1
  BY <1>7
<1>15. LaterBindings(bindings, bindings')
  BY <1>1, BindingsSame
<1>16. Wider(old, sc)
  <2>1. Len(old.used) \in Nat
    BY <1>9 DEF ScopeSet
  <2> QED BY <1>10, <2>1 DEF Wider
<1>17. ASSUME NEW i \in 1..D PROVE LaterScopes(scopes, locals, scopes', locals, i)
  <2> SUFFICES ASSUME NEW t \in 1..i PROVE Wider(scopes[locals[t]], scopes'[locals[t]])
    BY DEF LaterScopes
  <2>1. t \in 1..D
    BY <1>2
  <2>2. locals[t] \in 1..Len(scopes) /\ scopes[locals[t]] \in ScopeSet
    BY <1>2, <2>1
  <2>3. CASE locals[t] = id
    BY <1>11, <1>16, <2>3 DEF old
  <2>4. CASE locals[t] # id
    <3>1. scopes'[locals[t]] = scopes[locals[t]]
      BY <1>11, <2>2, <2>4
    <3> QED BY <2>2, <3>1, WiderSame
  <2> QED BY <2>3, <2>4
<1>18. LevelsKept(scopes, locals, env, scopes', locals)
  <2>1. DOMAIN locals \subseteq Nat \ {0}
    BY <1>2
  <2> QED BY <1>2, <1>17, <2>1 DEF LevelsKept
<1>19. UndosOK(bindings', scopes', locals, unscopes', env') /\ UndoOK(bindings, scopes, locals, env, u, L + 1)
  <2>1. UndosOK(bindings, scopes, locals, unscopes, env)
    BY DEF IInv
  <2>2. UndosOK(bindings', scopes', locals, unscopes', env') /\ UndoOK(bindings, scopes, locals, env, u, Len(env))
    BY <1>1, <1>5, <1>6, <1>15, <1>18, <2>1, UndosPop
  <2> QED BY <1>7, <2>2
<1>20. Form'
  <2>1. CopiesOK(sc)
    BY <1>9, <1>10 DEF CopiesOK
  <2>2. \A s \in 1..Len(scopes') : CopiesOK(scopes'[s])
    BY <1>2, <1>11, <2>1
  <2>3. bindings' \in Seq(BindingSet)
    BY <1>1 DEF IInv, Form
  <2> QED BY <1>1, <1>2, <1>5, <1>6, <1>11, <2>2, <2>3 DEF Form
<1>21. \A k \in DOMAIN env' : Declares(bindings', env', k)
  <2> TAKE k \in DOMAIN env'
  <2>1. Declares(bindings, env, k) /\ env'[k] = env[k]
    BY <1>7, <1>14 DEF IInv
  <2> QED BY <1>15, <2>1, DeclaresStay
<1>22. module_bindings' = env'[1].names
  <2>1. 1 \in DOMAIN env'
    BY <1>12 DEF Nests
  <2> QED BY <1>1, <1>7, <2>1 DEF IInv
<1>23. ASSUME NEW i \in 1..D, i # D PROVE AgreesAt(bindings', scopes', locals, env', i) /\ HoldsAt(scopes', locals, env', i)
  <2>1. AgreesAt(bindings, scopes, locals, env, i) /\ HoldsAt(scopes, locals, env, i)
    BY <1>2 DEF IInv
  <2>2. i \in Nat /\ locals[i] # id /\ locals[i] \in 1..Len(scopes)
    BY <1>2, <1>8, <1>23
  <2>3. scopes'[locals[i]] = scopes[locals[i]]
    BY <1>11, <2>2
  <2>4. Seen(locals, env', i) = Seen(locals, env, i)
    BY <1>12, <1>23
  <2>5. \A k \in Seen(locals, env, i) : env'[k] = env[k]
    <3>1. \A k \in Seen(locals, env', i) : k \in DOMAIN env'
      BY DEF Seen
    <3> QED BY <1>7, <2>4, <3>1
  <2>6. AgreesAt(bindings', scopes', locals, env', i)
    BY <1>15, <1>17, <2>1, <2>2, <2>3, <2>4, <2>5, AgreesStay
  <2>7. HoldsAt(scopes', locals, env', i)
    BY <1>7, <1>14, <2>1, <2>3 DEF HoldsAt
  <2> QED BY <2>6, <2>7
<1>24. AgreesAt(bindings, scopes, locals, env, D) /\ HoldsAt(scopes, locals, env, D)
  BY <1>2, <1>8 DEF IInv
<1>25. \A n \in DOMAIN old.mp : EntryOK(bindings, scopes, locals, env, old.mp[n], n, D, 1..L + 1)
  <2>1. Seen(locals, env, D) = 1..L + 1
    BY <1>3, <1>7
  <2> QED BY <1>2, <1>24, <2>1 DEF AgreesAt, old
<1>26. DOMAIN u = DOMAIN env[L + 1].names /\ env[L + 1].scope = locals[D]
  BY <1>3, <1>7, <1>19 DEF UndoOK
<1>27. AgreesAt(bindings', scopes', locals, env', D)
  <2> SUFFICES ASSUME NEW n \in DOMAIN sc.mp
               PROVE  EntryOK(bindings', scopes', locals, env', sc.mp[n], n, D, 1..L)
    BY <1>2, <1>11, <1>13 DEF AgreesAt
  <2> DEFINE e == sc.mp[n]
             V == 1..L
             k == L + 1
  <2>1. EntryOK(bindings, scopes, locals, env, e, n, D, V)
    <3>1. CASE n \in DOMAIN u
      <4>1. e = u[n] /\ u[n] # NoName
        BY <1>10, <3>1
      <4>2. V = 1..k - 1 /\ env[k].scope = locals[D] /\ D \in DOMAIN locals /\ UndoOK(bindings, scopes, locals, env, u, k)
        BY <1>2, <1>7, <1>8, <1>19, <1>26
      <4> HIDE DEF e, V, k
      <4>3. EntryOK(bindings, scopes, locals, env, u[n], n, D, 1..k - 1)
        BY <3>1, <4>1, <4>2 DEF UndoOK
      <4> QED BY <4>1, <4>2, <4>3
    <3>2. CASE n \notin DOMAIN u
      <4>1. n \in DOMAIN old.mp /\ e = old.mp[n]
        BY <1>10, <3>2
      <4>2. EntryOK(bindings, scopes, locals, env, e, n, D, 1..L + 1)
        BY <1>25, <4>1
      <4>3. n \notin DOMAIN env[L + 1].names
        BY <1>26, <3>2
      <4> HIDE DEF e
      <4>4. Sees(env, 1..L + 1, n, e.binding)
        BY <4>2 DEF EntryOK
      <4>5. Sees(env, 1..L, n, e.binding)
        BY <1>7, <4>3, <4>4, SeesAcross
      <4> DEFINE W == 1..L + 1
      <4>6. EntryOK(bindings, scopes, locals, env, e, n, D, W) /\ Sees(env, V, n, e.binding)
        BY <4>2, <4>5
      <4> HIDE DEF V, W
      <4> QED BY <4>6, EntrySees
    <3> QED BY <3>1, <3>2
  <2>2. \A j \in V : env'[j] = env[j]
    BY <1>7
  <2>3. LaterScopes(scopes, locals, scopes', locals, D) /\ D \in Nat
    BY <1>2, <1>8, <1>17
  <2> HIDE DEF e, V
  <2>4. EntryOK(bindings', scopes', locals, env', e, n, D, V)
    BY <1>15, <2>1, <2>2, <2>3, EntryStays
  <2> QED BY <2>4 DEF e, V
<1>28. HoldsAt(scopes', locals, env', D)
  <2> SUFFICES ASSUME NEW j \in 1..L, j # 1, env'[j].scope = id, NEW n \in DOMAIN env'[j].names
               PROVE  n \in DOMAIN sc.mp
    BY <1>2, <1>7, <1>11 DEF HoldsAt
  <2>1. env'[j] = env[j] /\ j \in 1..L + 1 /\ j \in 2..L
    BY <1>7, <1>14
  <2>2. n \in DOMAIN old.mp
    BY <1>2, <1>7, <1>24, <2>1 DEF HoldsAt, old
  <2>3. ASSUME n \in DOMAIN u PROVE u[n] # NoName
    <3> DEFINE k == L + 1
    <3>1. k - 1 = L /\ env[j].scope = env[k].scope /\ UndoOK(bindings, scopes, locals, env, u, k) /\ n \in DOMAIN env[j].names
      BY <1>2, <1>7, <1>19, <1>26, <2>1
    <3> HIDE DEF k
    <3>2. j \in 2..k - 1
      BY <2>1, <3>1
    <3> QED BY <2>3, <3>1, <3>2 DEF UndoOK
  <2> QED BY <1>10, <2>2, <2>3
<1>29. /\ \A b \in DOMAIN bindings' : bindings'[b].captured <=> b \in inner'
       /\ inner' \subseteq DOMAIN bindings'
       /\ last'.binding = last'.expected
  BY <1>1 DEF IInv
<1>30. \A i \in DOMAIN locals' : AgreesAt(bindings', scopes', locals', env', i) /\ HoldsAt(scopes', locals', env', i)
  BY <1>1, <1>2, <1>23, <1>27, <1>28
<1> QED BY <1>1, <1>12, <1>19, <1>20, <1>21, <1>22, <1>29, <1>30 DEF IInv

-----------------------------------------------------------------------------
(***************************************************************************)
(* resolve_ident.                                                          *)
(***************************************************************************)
LEMMA GreatestBelow ==
  ASSUME NEW N \in Nat, NEW T \in SUBSET (1..N), T # {}
  PROVE  \E x \in T : \A y \in T : y <= x
<1> DEFINE U == {z \in 0..N : N - z \in T}
<1>1. U \in SUBSET Nat
  OBVIOUS
<1>2. U # {}
  <2>1. PICK x : x \in T
    OBVIOUS
  <2>2. x \in 1..N /\ N - x \in 0..N /\ N - (N - x) = x
    BY <2>1
  <2> QED BY <2>1, <2>2
<1>3. PICK z \in U : \A y \in U : z <= y
  <2> HIDE DEF U
  <2> QED BY <1>1, <1>2, LeastNatural
<1>4. N - z \in T /\ z \in Nat
  OBVIOUS
<1>5. \A y \in T : y <= N - z
  <2> TAKE y \in T
  <2>1. y \in 1..N
    OBVIOUS
  <2>2. N - y \in 0..N /\ N - (N - y) = y
    BY <2>1
  <2>3. N - y \in U
    BY <2>2
  <2>4. z <= N - y
    BY <1>3, <2>3
  <2> QED BY <1>4, <2>1, <2>4
<1> QED BY <1>4, <1>5

(* The lexical meaning is what the innermost binding block says.           *)
LEMMA MeaningSeen ==
  ASSUME NEW ev, NEW L \in Nat, DOMAIN ev = 1..L, NEW n, NEW b, Sees(ev, 1..L, n, b)
  PROVE  Meaning(n, ev) = b
<1> DEFINE found == {i \in DOMAIN ev : n \in DOMAIN ev[i].names}
           top == CHOOSE i \in found : \A j \in found : j <= i
<1>1. PICK k \in 1..L : /\ n \in DOMAIN ev[k].names /\ b = ev[k].names[n]
                        /\ \A j \in 1..L : k < j => n \notin DOMAIN ev[j].names
  BY DEF Sees
<1>2. k \in found /\ \A j \in found : j <= k
  BY <1>1
<1>3. \A j \in found : j \in 1..L
  OBVIOUS
<1>4. Meaning(n, ev) = ev[top].names[n]
  BY <1>2 DEF Meaning
<1> HIDE DEF found
<1>5. top \in found /\ \A j \in found : j <= top
  BY <1>2
<1> HIDE DEF top
<1>6. top = k
  <2>1. top <= k /\ k <= top /\ top \in 1..L
    BY <1>2, <1>3, <1>5
  <2> QED BY <2>1
<1> QED BY <1>1, <1>4, <1>6

LEMMA MeaningUnseen ==
  ASSUME NEW ev, NEW n, \A k \in DOMAIN ev : n \notin DOMAIN ev[k].names
  PROVE  Meaning(n, ev) = 0
BY DEF Meaning

(* get_name finds the innermost scope that knows the name.                 *)
LEMMA LevelFacts ==
  ASSUME NEW n, Len(locals) \in Nat, DOMAIN locals = 1..Len(locals)
  PROVE  \/ LevelOf(n) = 0 /\ \A i \in 1..Len(locals) : n \notin DOMAIN scopes[locals[i]].mp
         \/ /\ LevelOf(n) \in 1..Len(locals)
            /\ n \in DOMAIN scopes[locals[LevelOf(n)]].mp
            /\ \A j \in 1..Len(locals) : LevelOf(n) < j => n \notin DOMAIN scopes[locals[j]].mp
<1> DEFINE found == {i \in DOMAIN locals : n \in DOMAIN scopes[locals[i]].mp}
           top == CHOOSE i \in found : \A j \in found : j <= i
<1>1. CASE found = {}
  BY <1>1 DEF LevelOf
<1>2. CASE found # {}
  <2>1. LevelOf(n) = top
    BY <1>2 DEF LevelOf
  <2>2. found \in SUBSET (1..Len(locals))
    OBVIOUS
  <2>3. \E x \in found : \A y \in found : y <= x
    <3> HIDE DEF found
    <3> QED BY <1>2, <2>2, GreatestBelow
  <2>4. top \in found /\ \A j \in found : j <= top
    <3> HIDE DEF found
    <3> QED BY <2>3
  <2>5. \A j \in 1..Len(locals) : n \in DOMAIN scopes[locals[j]].mp => j \in found
    OBVIOUS
  <2>6. top \in 1..Len(locals) /\ n \in DOMAIN scopes[locals[top]].mp
    BY <2>4
  <2> HIDE DEF top, found
  <2>7. \A j \in 1..Len(locals) : top < j => n \notin DOMAIN scopes[locals[j]].mp
    BY <2>4, <2>5, <2>6
  <2> QED BY <2>1, <2>6, <2>7
<1> QED BY <1>1, <1>2

(* Levels inside level i that do not know n do not bind it.                *)
LEMMA Unbound ==
  ASSUME IInv, NEW n, NEW i \in 1..Len(locals),
         \A j \in 1..Len(locals) : i < j => n \notin DOMAIN scopes[locals[j]].mp,
         NEW k \in 1..Len(env), k \notin Seen(locals, env, i)
  PROVE  n \notin DOMAIN env[k].names
<1> DEFINE D == Len(locals)
           L == Len(env)
<1>1. /\ D \in Nat /\ DOMAIN locals = 1..D /\ DOMAIN env = 1..L /\ i \in 1..D /\ k \in 1..L
      /\ locals \in Seq(Nat) /\ Nests(locals, env)
  BY StateFacts
<1>2. PICK j \in 1..D : env[k].scope = locals[j]
  BY StateFacts
<1>3. (\A a, c \in 1..D : a < c => locals[a] < locals[c]) /\ env[1].scope = locals[1]
  <2>1. \A a, c \in DOMAIN locals : a < c => locals[a] < locals[c]
    BY <1>1 DEF Nests
  <2>2. env[1].scope = locals[1]
    BY <1>1 DEF Nests
  <2> QED BY <1>1, <2>1, <2>2
<1>4. \A a \in 1..D : locals[a] \in Nat
  BY <1>1
<1>5. ~(env[k].scope <= locals[i])
  BY <1>1 DEF Seen
<1>6. \A a \in 1..D : i < a => n \notin DOMAIN scopes[locals[a]].mp
  OBVIOUS
<1>7. HoldsAt(scopes, locals, env, j)
  BY <1>1, <1>2 DEF IInv
<1> HIDE DEF D, L
<1>8. i < j
  <2>1. ~(j < i) /\ j # i
    <3>1. locals[i] \in Nat /\ locals[j] \in Nat
      BY <1>1, <1>2, <1>4
    <3>2. ~(locals[j] < locals[i]) /\ locals[j] # locals[i]
      BY <1>2, <1>5, <3>1
    <3> QED BY <1>1, <1>2, <1>3, <3>2
  <2> QED BY <1>1, <1>2, <2>1
<1>9. k # 1
  <2>1. CASE k = 1
    <3>1. 1 \in 1..D
      BY <1>1
    <3>2. 1 = i \/ 1 < i
      BY <1>1
    <3>3. locals[1] <= locals[i]
      <4>1. locals[1] \in Nat /\ locals[i] \in Nat
        BY <1>1, <1>4, <3>1
      <4> QED BY <1>1, <1>3, <3>1, <3>2, <4>1
    <3> QED BY <1>3, <1>5, <2>1, <3>3
  <2> QED BY <2>1
<1>10. DOMAIN env[k].names \subseteq DOMAIN scopes[locals[j]].mp
  BY <1>1, <1>2, <1>7, <1>9 DEF HoldsAt
<1> QED BY <1>2, <1>6, <1>8, <1>10

(* So a name known at level i means the same at every level inside.        *)
LEMMA SeesInside ==
  ASSUME IInv, NEW n, NEW b, NEW i \in 1..Len(locals),
         \A j \in 1..Len(locals) : i < j => n \notin DOMAIN scopes[locals[j]].mp,
         Sees(env, Seen(locals, env, i), n, b)
  PROVE  /\ Sees(env, 1..Len(env), n, b)
         /\ \A j \in 1..Len(locals) : i <= j => Sees(env, Seen(locals, env, j), n, b)
<1> DEFINE V == Seen(locals, env, i)
           D == Len(locals)
<1>1. PICK k \in V : /\ n \in DOMAIN env[k].names /\ b = env[k].names[n]
                     /\ \A j \in V : k < j => n \notin DOMAIN env[j].names
  BY DEF Sees
<1>2. V \subseteq 1..Len(env) /\ DOMAIN env = 1..Len(env)
  BY StateFacts DEF Seen
<1>3. \A j \in 1..Len(env) : j \notin V => n \notin DOMAIN env[j].names
  BY Unbound
<1> HIDE DEF V
<1>4. ASSUME NEW W, V \subseteq W, W \subseteq 1..Len(env) PROVE Sees(env, W, n, b)
  <2>1. k \in W
    BY <1>1, <1>4
  <2>2. \A j \in W : k < j => n \notin DOMAIN env[j].names
    BY <1>1, <1>3, <1>4
  <2> QED BY <1>1, <2>1, <2>2 DEF Sees
<1>5. ASSUME NEW j \in 1..D, i <= j PROVE V \subseteq Seen(locals, env, j) /\ Seen(locals, env, j) \subseteq 1..Len(env)
  <2>1. locals \in Seq(Nat) /\ Nests(locals, env) /\ DOMAIN locals = 1..D /\ D \in Nat /\ i \in 1..D /\ env \in Seq(BlockSet)
    BY StateFacts
  <2>2. \A a \in 1..D : locals[a] \in Nat
    BY <2>1
  <2>3. \A a, c \in DOMAIN locals : a < c => locals[a] < locals[c]
    BY <2>1 DEF Nests
  <2>4. \A a \in 1..Len(env) : env[a].scope \in Nat
    BY <2>1, NestFacts
  <2> HIDE DEF D
  <2>5. locals[i] <= locals[j]
    <3>1. i = j \/ i < j
      BY <1>5, <2>1
    <3>2. locals[i] \in Nat /\ locals[j] \in Nat
      BY <2>1, <2>2
    <3> QED BY <2>1, <2>3, <3>1, <3>2
  <2>6. \A a \in 1..Len(env) : env[a].scope <= locals[i] => env[a].scope <= locals[j]
    <3>2. locals[i] \in Nat /\ locals[j] \in Nat
      BY <2>1, <2>2
    <3> QED BY <2>4, <2>5, <3>2
  <2> QED BY <1>2, <2>6 DEF V, Seen
<1> QED BY <1>2, <1>4, <1>5 DEF D

(* get_name copies the name into every scope between the one that knows    *)
(* it and the innermost one.                                               *)
CopiedDown(scs2, n, i, b) ==
  /\ scs2 \in Seq(ScopeSet) /\ Len(scs2) = Len(scopes)
  /\ \A s \in 1..Len(scopes) : CopiesOK(scs2[s])
  /\ \A t \in 1..Len(locals) : ~(i < t) => scs2[locals[t]] = scopes[locals[t]]
  /\ \A t \in 1..Len(locals) : i < t =>
        scs2[locals[t]] = CopyParent(scopes[locals[t]], ParentSlot(n, i, t), b, n)

LEMMA CopiesDown ==
  ASSUME IInv, NEW n \in Names, NEW b \in Nat, NEW i \in 1..Len(locals), n \in DOMAIN scopes[locals[i]].mp,
         scopes' = [s \in DOMAIN scopes |->
                        IF \E j \in i + 1..Len(locals) : locals[j] = s
                        THEN LET j == CHOOSE j \in i + 1..Len(locals) : locals[j] = s
                             IN  CopyParent(scopes[s], ParentSlot(n, i, j), b, n)
                        ELSE scopes[s]]
  PROVE  /\ CopiedDown(scopes', n, i, b)
         /\ \A t \in 1..Len(locals) : i < t => ParentSlot(n, i, t) \in Nat
<1> DEFINE D == Len(locals)
           S == Len(scopes)
           at(s) == CHOOSE j \in i + 1..D : locals[j] = s
           copied(s) == \E j \in i + 1..D : locals[j] = s
<1>1. /\ S \in Nat /\ DOMAIN scopes = 1..S
      /\ \A s \in 1..S : scopes[s] \in ScopeSet /\ CopiesOK(scopes[s])
      /\ \A t \in 1..D : locals[t] \in 1..S
      /\ D \in Nat /\ i \in 1..D
      /\ \A t, j \in 1..D : locals[t] = locals[j] => t = j
  BY StateFacts
<1>2. DOMAIN scopes' = 1..S /\ scopes' = [s \in DOMAIN scopes' |-> scopes'[s]]
  BY <1>1
<1>3. \A s \in 1..S : copied(s) => scopes'[s] = CopyParent(scopes[s], ParentSlot(n, i, at(s)), b, n)
  BY <1>1
<1>4. \A s \in 1..S : ~copied(s) => scopes'[s] = scopes[s]
  BY <1>1
<1>5. \A t \in 1..D : (scopes[locals[t]].mp \in Tables /\ Len(scopes[locals[t]].used) \in Nat)
  <2>1. \A sc \in ScopeSet : sc.mp \in Tables /\ Len(sc.used) \in Nat
    BY DEF ScopeSet
  <2> QED BY <1>1, <2>1
<1>6. scopes[locals[i]].mp[n].slot \in Nat
  <2> DEFINE f == scopes[locals[i]].mp
  <2>1. f \in Tables /\ n \in DOMAIN f
    BY <1>1, <1>5
  <2> HIDE DEF f
  <2>2. f[n] \in EntrySet
    BY <2>1, TableFacts
  <2>3. f[n].slot \in Nat
    BY <2>2 DEF EntrySet
  <2> QED BY <2>3 DEF f
<1> HIDE DEF D, S
<1>7. ASSUME NEW t \in i + 1..D PROVE ParentSlot(n, i, t) \in Nat
  <2>1. CASE t = i + 1
    BY <1>6, <2>1 DEF ParentSlot
  <2>2. CASE t # i + 1
    <3>1. t - 1 \in 1..D
      BY <1>1, <2>2
    <3> QED BY <1>5, <2>2, <3>1 DEF ParentSlot
  <2> QED BY <2>1, <2>2
<1>8. \A t \in 1..D : (i < t <=> t \in i + 1..D)
  BY <1>1
<1>9. \A t \in i + 1..D : t \in 1..D
  BY <1>1
<1>10. \A s \in 1..S : copied(s) => at(s) \in i + 1..D /\ locals[at(s)] = s
  OBVIOUS
<1>11. \A t \in i + 1..D : at(locals[t]) = t /\ copied(locals[t])
  <2> TAKE t \in i + 1..D
  <2>1. copied(locals[t])
    OBVIOUS
  <2>2. at(locals[t]) \in i + 1..D /\ locals[at(locals[t])] = locals[t]
    OBVIOUS
  <2> HIDE DEF at
  <2> QED BY <1>1, <1>9, <2>1, <2>2
<1>12. \A t \in 1..D : t \notin i + 1..D => ~copied(locals[t])
  BY <1>1, <1>9
<1> HIDE DEF at, copied
<1>13. ASSUME NEW s \in 1..S PROVE scopes'[s] \in ScopeSet /\ CopiesOK(scopes'[s])
  <2>1. CASE copied(s)
    <3> DEFINE p == ParentSlot(n, i, at(s))
               sc == scopes[s]
    <3>1. /\ p \in Nat /\ sc \in ScopeSet /\ CopiesOK(sc) /\ n \in Names /\ b \in Nat
          /\ scopes'[s] = CopyParent(sc, p, b, n)
      BY <1>1, <1>3, <1>7, <1>10, <2>1
    <3> HIDE DEF p, sc
    <3>2. CopyParent(sc, p, b, n) \in ScopeSet /\ CopiesOK(CopyParent(sc, p, b, n))
      BY ONLY <3>1, CopyParentFacts
    <3> QED BY ONLY <3>1, <3>2
  <2>2. CASE ~copied(s)
    BY <1>1, <1>4, <2>2
  <2> QED BY <2>1, <2>2
<1>14. scopes' \in Seq(ScopeSet) /\ Len(scopes') = S
  <2>1. scopes' \in [1..S -> ScopeSet] /\ S \in Nat
    BY <1>1, <1>2, <1>13
  <2>2. scopes' \in Seq(ScopeSet)
    BY ONLY <2>1, SeqDef
  <2>3. DOMAIN scopes' = 1..Len(scopes') /\ Len(scopes') \in Nat
    BY <2>2
  <2> QED BY <1>1, <1>2, <2>2, <2>3
<1>15. \A t \in 1..D : ~(i < t) => scopes'[locals[t]] = scopes[locals[t]]
  BY <1>1, <1>4, <1>8, <1>12
<1>16. \A t \in 1..D : i < t => scopes'[locals[t]] = CopyParent(scopes[locals[t]], ParentSlot(n, i, t), b, n)
  BY <1>1, <1>3, <1>8, <1>11
<1>17. CopiedDown(scopes', n, i, b)
  BY <1>13, <1>14, <1>15, <1>16 DEF CopiedDown, D, S
<1> QED BY <1>7, <1>8, <1>17 DEF D

(* Marking a variable captured changes nothing else.                       *)
LEMMA CaptureFacts ==
  ASSUME NEW bs \in Seq(BindingSet), NEW b \in DOMAIN bs, NEW bs2, bs2 = [bs EXCEPT ![b].captured = TRUE]
  PROVE  /\ bs2 \in Seq(BindingSet) /\ DOMAIN bs2 = DOMAIN bs /\ LaterBindings(bs, bs2)
         /\ bs2[b].captured
         /\ \A c \in DOMAIN bs : c # b => bs2[c] = bs[c]
<1>1. Len(bs) \in Nat /\ DOMAIN bs = 1..Len(bs) /\ \A c \in 1..Len(bs) : bs[c] \in BindingSet
  OBVIOUS
<1> DEFINE v == [bs[b] EXCEPT !.captured = TRUE]
           old == bs[b]
<1>2. bs2 = [bs EXCEPT ![b] = v]
  OBVIOUS
<1>3. v \in BindingSet /\ v.owner = old.owner /\ v.slot = old.slot /\ v.captured = TRUE
  <2>1. old \in BindingSet
    BY <1>1
  <2>2. v = [old EXCEPT !.captured = TRUE]
    OBVIOUS
  <2> HIDE DEF old, v
  <2> QED BY <2>1, <2>2 DEF BindingSet
<1> HIDE DEF v
<1>4. bs2 \in Seq(BindingSet) /\ Len(bs2) = Len(bs) /\ \A c \in 1..Len(bs) : bs2[c] = IF c = b THEN v ELSE bs[c]
  <2>1. bs \in Seq(BindingSet) /\ b \in 1..Len(bs)
    BY <1>1
  <2>2. /\ [bs EXCEPT ![b] = v] \in Seq(BindingSet) /\ Len([bs EXCEPT ![b] = v]) = Len(bs)
        /\ \A c \in 1..Len(bs) : [bs EXCEPT ![b] = v][c] = IF c = b THEN v ELSE bs[c]
    BY ONLY <1>3, <2>1, ExceptSeq
  <2> QED BY ONLY <1>2, <2>2
<1>5. DOMAIN bs2 = DOMAIN bs
  BY <1>1, <1>4
<1>6. bs2[b] = v /\ \A c \in DOMAIN bs : c # b => bs2[c] = bs[c]
  BY <1>1, <1>4
<1>7. LaterBindings(bs, bs2)
  BY <1>3, <1>5, <1>6 DEF LaterBindings
<1> QED BY <1>3, <1>4, <1>5, <1>6, <1>7

(* Every level that gets a copy gets a chain of copies to the owner.       *)
LEMMA CopiesLead ==
  ASSUME IInv, NEW n \in Names, NEW b \in Nat, NEW i \in 1..Len(locals), NEW bs2, NEW scs2,
         CopiedDown(scs2, n, i, b),
         \A t \in 1..Len(locals) : i < t => ParentSlot(n, i, t) \in Nat,
         Leads(bs2, scs2, locals, i, scopes[locals[i]].mp[n].slot, b),
         NEW t \in 1..Len(locals), i < t
  PROVE  Leads(bs2, scs2, locals, t, Len(scopes[locals[t]].used), b)
<1> DEFINE D == Len(locals)
           slot == scopes[locals[i]].mp[n].slot
           used(x) == Len(scopes[locals[x]].used)
<1>1. D \in Nat /\ i \in 1..D /\ t \in 1..D /\ \A x \in 1..D : scopes[locals[x]] \in ScopeSet /\ CopiesOK(scopes[locals[x]])
  BY StateFacts
<1>2. \A x \in 1..D : used(x) \in Nat
  <2>1. \A sc \in ScopeSet : Len(sc.used) \in Nat
    BY DEF ScopeSet
  <2> QED BY <1>1, <2>1
<1>3. ASSUME NEW x \in 1..D, i < x
      PROVE  /\ used(x) < Len(scs2[locals[x]].used)
             /\ Sources(scs2[locals[x]].parent, used(x)) = {ParentSlot(n, i, x)}
  <2> DEFINE sc == scopes[locals[x]]
             p == ParentSlot(n, i, x)
             r == CopyParent(sc, p, b, n)
  <2>1. sc \in ScopeSet /\ CopiesOK(sc) /\ p \in Nat /\ n \in Names /\ b \in Nat
    BY <1>1, <1>3
  <2>4. scs2[locals[x]] = r
    BY <1>3 DEF CopiedDown
  <2> HIDE DEF sc, p
  <2>2. Len(CopyParent(sc, p, b, n).used) = Len(sc.used) + 1 /\ Sources(CopyParent(sc, p, b, n).parent, Len(sc.used)) = {p}
    <3>1. Len(CopyParent(sc, p, b, n).used) = Len(sc.used) + 1
      BY ONLY <2>1, CopyParentFacts
    <3>2. Sources(CopyParent(sc, p, b, n).parent, Len(sc.used)) = {p}
      <4>1. FillsNext(sc, CopyParent(sc, p, b, n), p)
        BY ONLY <2>1, CopyParentFacts
      <4> QED BY ONLY <4>1 DEF FillsNext
    <3> QED BY ONLY <3>1, <3>2
  <2>3. used(x) = Len(sc.used) /\ used(x) \in Nat
    BY <1>2 DEF sc
  <2> HIDE DEF r, used
  <2>5. Len(r.used) = Len(sc.used) + 1 /\ Sources(r.parent, Len(sc.used)) = {p}
    BY <2>2 DEF r
  <2> QED BY <2>4, <2>5, <2>3 DEF p
<1>4. PICK j \in 1..i, path \in [1..i -> Nat] :
     /\ locals[j] = bs2[b].owner
     /\ path[i] = slot /\ path[j] = bs2[b].slot
     /\ Sources(scs2[locals[j]].parent, path[j]) = {}
     /\ \A x \in j..i : path[x] < Len(scs2[locals[x]].used)
     /\ \A x \in j + 1..i : Sources(scs2[locals[x]].parent, path[x]) = {path[x - 1]}
  BY DEF Leads
<1>5. \A x \in 1..D : i < x => ParentSlot(n, i, x) = IF x = i + 1 THEN slot ELSE used(x - 1)
  BY DEF ParentSlot
<1>6. i < t
  OBVIOUS
<1> HIDE DEF D, slot, used
<1> DEFINE q == [x \in 1..t |-> IF x <= i THEN path[x] ELSE used(x)]
<1>7. \A x \in 1..t : q[x] = IF x <= i THEN path[x] ELSE used(x)
  OBVIOUS
<1>8. q \in [1..t -> Nat]
  <2>1. \A x \in 1..t : (IF x <= i THEN path[x] ELSE used(x)) \in Nat
    <3> TAKE x \in 1..t
    <3>1. CASE x <= i
      BY <1>1, <3>1
    <3>2. CASE ~(x <= i)
      BY <1>1, <1>2, <3>2
    <3> QED BY <3>1, <3>2
  <2> QED BY <2>1
<1> HIDE DEF q
<1>9. \A x \in j..i : x \in 1..t /\ x <= i
  BY <1>1, <1>6
<1>10. j \in 1..t /\ t \in 1..t /\ j \in j..i /\ i \in j..i
  BY <1>1, <1>6
<1>11. locals[j] = bs2[b].owner /\ q[j] = bs2[b].slot /\ Sources(scs2[locals[j]].parent, q[j]) = {}
  BY <1>4, <1>7, <1>9, <1>10
<1>12. q[t] = used(t)
  BY <1>1, <1>6, <1>7, <1>10
<1>13. ASSUME NEW x \in j..t PROVE q[x] < Len(scs2[locals[x]].used)
  <2>1. CASE x <= i
    <3>1. x \in j..i
      BY <1>1, <2>1
    <3> QED BY <1>4, <1>7, <1>9, <3>1
  <2>2. CASE ~(x <= i)
    <3>1. x \in 1..D /\ i < x /\ x \in 1..t
      BY <1>1, <2>2
    <3> QED BY <1>3, <1>7, <2>2, <3>1
  <2> QED BY <2>1, <2>2
<1>14. ASSUME NEW x \in j + 1..t PROVE Sources(scs2[locals[x]].parent, q[x]) = {q[x - 1]}
  <2>1. CASE x <= i
    <3>1. x \in j + 1..i /\ x \in j..i /\ x - 1 \in j..i
      BY <1>1, <2>1
    <3>2. q[x] = path[x] /\ q[x - 1] = path[x - 1]
      BY <1>7, <1>9, <3>1
    <3> QED BY <1>4, <3>1, <3>2
  <2>2. CASE x = i + 1
    <3>1. x \in 1..D /\ i < x /\ x \in 1..t /\ ~(x <= i) /\ x - 1 = i
      BY <1>1, <1>6, <2>2
    <3>2. q[x] = used(x) /\ q[x - 1] = slot
      BY <1>4, <1>7, <1>9, <1>10, <3>1
    <3> QED BY <1>3, <1>5, <2>2, <3>1, <3>2
  <2>3. CASE i + 1 < x
    <3>1. x \in 1..D /\ i < x /\ x \in 1..t /\ ~(x <= i) /\ x # i + 1 /\ x - 1 \in 1..t /\ ~(x - 1 <= i)
      BY <1>1, <1>6, <2>3
    <3>2. q[x] = used(x) /\ q[x - 1] = used(x - 1)
      BY <1>7, <3>1
    <3> QED BY <1>3, <1>5, <3>1, <3>2
  <2> QED BY <1>1, <2>1, <2>2, <2>3
<1>15. Leads(bs2, scs2, locals, t, used(t), b)
  BY <1>8, <1>10, <1>11, <1>12, <1>13, <1>14 DEF Leads
<1> QED BY <1>15 DEF used

(* A def between the variable's block and the current point.               *)
Crossed(n, b) ==
  \E i \in DOMAIN env : /\ env[i].kind = "def"
                        /\ \A j \in i..Len(env) : n \in DOMAIN env[j].names => env[j].names[n] # b

(* A name known at an outer level is used across a def.                    *)
LEMMA OuterCrossed ==
  ASSUME IInv, NEW n, NEW b, NEW i \in 1..Len(locals), i # Len(locals),
         \A j \in 1..Len(locals) : i < j => n \notin DOMAIN scopes[locals[j]].mp
  PROVE  Crossed(n, b)
<1> DEFINE D == Len(locals)
           L == Len(env)
<1>1. /\ D \in Nat /\ DOMAIN locals = 1..D /\ L \in Nat /\ DOMAIN env = 1..L /\ i \in 1..D /\ i # D
      /\ locals \in Seq(Nat) /\ env \in Seq(BlockSet) /\ Nests(locals, env)
  BY StateFacts
<1>2. \A x \in DOMAIN locals : x # 1 => \E k \in DOMAIN env : env[k].kind = "def" /\ env[k].scope = locals[x]
  BY <1>1 DEF Nests
<1> HIDE DEF D, L
<1>3. i + 1 \in DOMAIN locals /\ i + 1 # 1
  BY <1>1
<1>4. PICK m \in 1..L : env[m].kind = "def" /\ env[m].scope = locals[i + 1]
  BY <1>1, <1>2, <1>3
<1>5. Seen(locals, env, i) = 1..m - 1
  BY <1>1, <1>4, LevelBelow, ZenonT(30) DEF D, L
<1>6. ASSUME NEW j \in m..L PROVE n \notin DOMAIN env[j].names
  <2>1. j \in 1..L /\ j \notin 1..m - 1
    BY <1>1
  <2> QED BY <1>5, <2>1, Unbound DEF L
<1> QED BY <1>1, <1>4, <1>6 DEF Crossed, L

(* A variable used across a def that the innermost scope knows by a copy   *)
(* was captured when the copy was made.                                    *)
LEMMA CopiedCaptured ==
  ASSUME IInv, NEW n, NEW e, Crossed(n, e.binding),
         EntryOK(bindings, scopes, locals, env, e, n, Len(locals), 1..Len(env))
  PROVE  e.binding \in inner
<1> DEFINE D == Len(locals)
           L == Len(env)
           b == e.binding
<1>1. /\ D \in Nat /\ D >= 1 /\ DOMAIN locals = 1..D /\ L \in Nat /\ DOMAIN env = 1..L
      /\ locals \in Seq(Nat) /\ env \in Seq(BlockSet) /\ Nests(locals, env)
      /\ \A x \in 1..D : locals[x] \in 1..Len(scopes)
  BY StateFacts
<1>2. /\ \A k \in 1..L : env[k].scope \in Nat /\ env[k].scope <= locals[D]
  BY <1>1, NestFacts
<1>3. PICK m \in DOMAIN env : env[m].kind = "def" /\ \A j \in m..L : n \in DOMAIN env[j].names => env[j].names[n] # b
  BY DEF Crossed
<1>4. PICK k \in 1..L : n \in DOMAIN env[k].names /\ b = env[k].names[n]
  BY DEF EntryOK, Sees
<1>5. b \in DOMAIN bindings /\ (bindings[b].owner # locals[D] => bindings[b].captured)
  BY DEF EntryOK
<1>6. bindings[b].owner = OwnerOf(env, k)
  BY <1>1, <1>4 DEF IInv, Declares
<1> HIDE DEF D, L, b
<1>7. k < m
  <2>1. k \notin m..L
    BY <1>3, <1>4
  <2> QED BY <1>1, <2>1
<1>8. env[k].scope < env[m].scope
  BY <1>1, <1>3, <1>7 DEF Nests
<1>9. env[k].scope < locals[D]
  <2>1. env[m].scope <= locals[D] /\ env[m].scope \in Nat /\ env[k].scope \in Nat /\ locals[D] \in Nat
    <3>1. D \in 1..D
      BY <1>1
    <3> QED BY <1>1, <1>2, <3>1
  <2> QED BY <1>8, <2>1
<1>10. bindings[b].owner # locals[D]
  <2>1. locals[D] # 0 /\ locals[D] \in Nat
    <3>1. D \in 1..D
      BY <1>1
    <3> QED BY <1>1, <3>1
  <2> QED BY <1>2, <1>6, <1>9, <2>1 DEF OwnerOf, ModuleOwner
<1>11. b \in inner
  BY <1>5, <1>10 DEF IInv
<1> QED BY <1>11 DEF b

(* resolve_ident opens and closes nothing: it may add copies and mark      *)
(* variables captured.                                                     *)
LEMMA ResolveKeeps ==
  ASSUME IInv,
         UNCHANGED <<locals, unscopes, module_bindings, env>>,
         bindings' \in Seq(BindingSet), LaterBindings(bindings, bindings'),
         scopes' \in Seq(ScopeSet), Len(scopes') = Len(scopes), \A s \in 1..Len(scopes) : CopiesOK(scopes'[s]),
         \A t \in 1..Len(locals) : /\ Wider(scopes[locals[t]], scopes'[locals[t]])
                                   /\ DOMAIN scopes[locals[t]].mp \subseteq DOMAIN scopes'[locals[t]].mp
                                   /\ AgreesAt(bindings', scopes', locals, env, t),
         \A b \in DOMAIN bindings' : bindings'[b].captured <=> b \in inner',
         inner' \subseteq DOMAIN bindings',
         last'.binding = last'.expected
  PROVE  IInv'
<1> DEFINE D == Len(locals)
<1>1. /\ D \in Nat /\ DOMAIN locals = 1..D /\ locals \in Seq(1..Len(scopes)) /\ unscopes \in Seq(Tables)
      /\ env \in Seq(BlockSet) /\ Nests(locals, env) /\ Len(env) \in Nat /\ DOMAIN env = 1..Len(env)
  BY StateFacts
<1>2. Form'
  BY <1>1 DEF Form
<1>3. Nests(locals', env')
  BY <1>1
<1>4. \A k \in DOMAIN env' : Declares(bindings', env', k)
  <2>1. \A k \in DOMAIN env : Declares(bindings, env, k)
    BY DEF IInv
  <2> QED BY <2>1, DeclaresStay
<1>5. module_bindings' = env'[1].names
  BY DEF IInv
<1>6. \A i \in DOMAIN locals' : AgreesAt(bindings', scopes', locals', env', i)
  BY <1>1
<1>7. \A i \in DOMAIN locals' : HoldsAt(scopes', locals', env', i)
  <2> SUFFICES ASSUME NEW i \in 1..D PROVE HoldsAt(scopes', locals, env, i)
    BY <1>1
  <2>1. HoldsAt(scopes, locals, env, i)
    BY <1>1 DEF IInv
  <2>2. DOMAIN scopes[locals[i]].mp \subseteq DOMAIN scopes'[locals[i]].mp
    OBVIOUS
  <2> QED BY <2>1, <2>2 DEF HoldsAt
<1>8. UndosOK(bindings', scopes', locals', unscopes', env')
  <2>1. UndosOK(bindings, scopes, locals, unscopes, env)
    BY DEF IInv
  <2>2. \A i \in 1..D : LaterScopes(scopes, locals, scopes', locals, i)
    <3> TAKE i \in 1..D
    <3>1. \A t \in 1..i : t \in 1..D
      BY <1>1
    <3> QED BY <3>1 DEF LaterScopes
  <2>3. LevelsKept(scopes, locals, env, scopes', locals)
    BY <1>1, <2>2 DEF LevelsKept
  <2>4. SameComprs(env, env)
    BY <1>1 DEF SameComprs
  <2>5. UndosOK(bindings', scopes', locals, unscopes, env)
    BY <2>1, <2>3, <2>4, UndosStay
  <2> QED BY <2>5
<1> QED BY <1>2, <1>3, <1>4, <1>5, <1>6, <1>7, <1>8 DEF IInv

(* get_name, found in a scope: the copies mean at their levels what the    *)
(* name means where it was found.                                          *)
LEMMA CopiesAgree ==
  ASSUME IInv, NEW n \in Names, NEW b, NEW i \in 1..Len(locals),
         n \in DOMAIN scopes[locals[i]].mp, b = scopes[locals[i]].mp[n].binding,
         \A j \in 1..Len(locals) : i < j => n \notin DOMAIN scopes[locals[j]].mp,
         NEW bs2, NEW scs2, CopiedDown(scs2, n, i, b),
         \A t \in 1..Len(locals) : i < t => ParentSlot(n, i, t) \in Nat,
         LaterBindings(bindings, bs2), i # Len(locals) => bs2[b].captured
  PROVE  \A t \in 1..Len(locals) : /\ Wider(scopes[locals[t]], scs2[locals[t]])
                                   /\ DOMAIN scopes[locals[t]].mp \subseteq DOMAIN scs2[locals[t]].mp
                                   /\ AgreesAt(bs2, scs2, locals, env, t)
<1> DEFINE D == Len(locals)
           e == scopes[locals[i]].mp[n]
<1>1. /\ D \in Nat /\ i \in 1..D /\ DOMAIN locals = 1..D /\ DOMAIN bindings = 1..Len(bindings) /\ Len(bindings) \in Nat
      /\ \A x \in 1..D : scopes[locals[x]] \in ScopeSet /\ CopiesOK(scopes[locals[x]])
  BY StateFacts
<1>2. \A t \in 1..D : AgreesAt(bindings, scopes, locals, env, t)
  BY <1>1 DEF IInv
<1>3. EntryOK(bindings, scopes, locals, env, e, n, i, Seen(locals, env, i)) /\ e.binding = b
  BY <1>1, <1>2 DEF AgreesAt
<1> HIDE DEF e
<1>4. b \in DOMAIN bindings /\ Sees(env, Seen(locals, env, i), n, b) /\ Leads(bindings, scopes, locals, i, e.slot, b)
  BY <1>3 DEF EntryOK
<1>5. b \in Nat
  BY <1>1, <1>4
<1>6. /\ \A t \in 1..D : i < t => ParentSlot(n, i, t) \in Nat
      /\ \A t \in 1..D : i < t => n \notin DOMAIN scopes[locals[t]].mp
      /\ i # D => bs2[b].captured
  OBVIOUS
<1> HIDE DEF D
<1>7. ASSUME NEW t \in 1..D, ~(i < t)
      PROVE  scs2[locals[t]] = scopes[locals[t]] /\ Wider(scopes[locals[t]], scs2[locals[t]])
  <2>1. scs2[locals[t]] = scopes[locals[t]]
    BY <1>7 DEF CopiedDown, D
  <2> QED BY <1>1, <2>1, WiderSame
<1>8. ASSUME NEW t \in 1..D, i < t
      PROVE  /\ Wider(scopes[locals[t]], scs2[locals[t]])
             /\ DOMAIN scs2[locals[t]].mp = DOMAIN scopes[locals[t]].mp \union {n}
             /\ scs2[locals[t]].mp[n].slot = Len(scopes[locals[t]].used)
             /\ scs2[locals[t]].mp[n].binding = b
             /\ \A m \in DOMAIN scopes[locals[t]].mp : m # n => scs2[locals[t]].mp[m] = scopes[locals[t]].mp[m]
  <2> DEFINE sc == scopes[locals[t]]
             p == ParentSlot(n, i, t)
             r == CopyParent(sc, p, b, n)
             s2 == scs2[locals[t]]
  <2>1. sc \in ScopeSet /\ CopiesOK(sc) /\ p \in Nat /\ n \in Names /\ b \in Nat
    BY <1>1, <1>5, <1>6, <1>8
  <2>2. s2 = r
    BY <1>8 DEF CopiedDown, D
  <2> HIDE DEF sc, p, s2
  <2>3. Wider(sc, r)
    BY ONLY <2>1, CopyWider
  <2>4. NamesNext(sc, r, b, n)
    BY ONLY <2>1, CopyParentFacts
  <2> HIDE DEF r
  <2> QED BY <2>2, <2>3, <2>4 DEF NamesNext, sc, s2
<1>9. \A t \in 1..D : LaterScopes(scopes, locals, scs2, locals, t)
  <2> TAKE t \in 1..D
  <2>1. \A x \in 1..t : x \in 1..D
    BY <1>1
  <2>2. \A x \in 1..D : Wider(scopes[locals[x]], scs2[locals[x]])
    BY <1>7, <1>8
  <2> QED BY <2>1, <2>2 DEF LaterScopes
<1>10. ASSUME NEW t \in 1..D, NEW m \in DOMAIN scopes[locals[t]].mp
       PROVE  EntryOK(bs2, scs2, locals, env, scopes[locals[t]].mp[m], m, t, Seen(locals, env, t))
  <2> DEFINE f == scopes[locals[t]].mp[m]
             V == Seen(locals, env, t)
  <2>1. EntryOK(bindings, scopes, locals, env, f, m, t, V)
    BY <1>2 DEF AgreesAt
  <2>2. LaterScopes(scopes, locals, scs2, locals, t) /\ t \in Nat
    BY <1>1, <1>9
  <2> HIDE DEF f, V
  <2>3. EntryOK(bs2, scs2, locals, env, f, m, t, V)
    BY <2>1, <2>2, EntryStays
  <2> QED BY <2>3 DEF f, V
<1>11. Leads(bs2, scs2, locals, i, e.slot, b)
  <2>1. LaterScopes(scopes, locals, scs2, locals, i) /\ i \in Nat
    BY <1>1, <1>9
  <2> QED BY <1>4, <2>1, LeadsStays
<1>12. ASSUME NEW t \in 1..D, i < t
       PROVE  EntryOK(bs2, scs2, locals, env, scs2[locals[t]].mp[n], n, t, Seen(locals, env, t))
  <2> DEFINE f == scs2[locals[t]].mp[n]
  <2>1. f.binding = b /\ f.slot = Len(scopes[locals[t]].used)
    BY <1>8, <1>12
  <2>2. Leads(bs2, scs2, locals, t, Len(scopes[locals[t]].used), b)
    BY <1>5, <1>6, <1>11, <1>12, CopiesLead DEF D, e
  <2>3. Sees(env, Seen(locals, env, t), n, b)
    <3>1. i <= t
      BY <1>1, <1>12
    <3> QED BY <1>4, <3>1, SeesInside DEF D
  <2>4. bs2[b].captured /\ b \in DOMAIN bs2
    <3>1. i # D
      BY <1>1, <1>12
    <3> QED BY <1>4, <1>6, <3>1 DEF LaterBindings
  <2> HIDE DEF f
  <2>5. EntryOK(bs2, scs2, locals, env, f, n, t, Seen(locals, env, t))
    BY <2>1, <2>2, <2>3, <2>4 DEF EntryOK
  <2> QED BY <2>5 DEF f
<1>13. ASSUME NEW t \in 1..D
       PROVE  AgreesAt(bs2, scs2, locals, env, t) /\ DOMAIN scopes[locals[t]].mp \subseteq DOMAIN scs2[locals[t]].mp
  <2>1. CASE ~(i < t)
    BY <1>7, <1>10, <2>1 DEF AgreesAt
  <2>2. CASE i < t
    <3>1. \A m \in DOMAIN scopes[locals[t]].mp : m # n
      BY <1>6, <2>2
    <3>2. /\ DOMAIN scs2[locals[t]].mp = DOMAIN scopes[locals[t]].mp \union {n}
          /\ \A m \in DOMAIN scopes[locals[t]].mp : m # n => scs2[locals[t]].mp[m] = scopes[locals[t]].mp[m]
      BY <1>8, <2>2
    <3>3. ASSUME NEW m \in DOMAIN scs2[locals[t]].mp
          PROVE  EntryOK(bs2, scs2, locals, env, scs2[locals[t]].mp[m], m, t, Seen(locals, env, t))
      <4>1. CASE m = n
        BY <1>12, <2>2, <4>1
      <4>2. CASE m # n
        BY <1>10, <3>2, <4>2
      <4> QED BY <4>1, <4>2
    <3> QED BY <3>2, <3>3 DEF AgreesAt
  <2> QED BY <2>1, <2>2
<1> QED BY <1>7, <1>8, <1>13 DEF D

(* What resolve_ident does to the reference's set of captured variables.   *)
Marks(n, b) == inner' = IF b # 0 /\ Crossed(n, b) THEN inner \union {b} ELSE inner

(* A variable is marked captured in the step that makes it one of those    *)
(* the nested defs refer to, and only then.                                *)
LEMMA MarkedTogether ==
  ASSUME IInv, NEW n, NEW b \in DOMAIN bindings, Marks(n, b),
         \/ Crossed(n, b) /\ bindings' = [bindings EXCEPT ![b].captured = TRUE]
         \/ bindings' = bindings /\ (Crossed(n, b) => b \in inner)
  PROVE  /\ bindings' \in Seq(BindingSet) /\ LaterBindings(bindings, bindings')
         /\ \A c \in DOMAIN bindings' : bindings'[c].captured <=> c \in inner'
         /\ inner' \subseteq DOMAIN bindings'
<1>1. /\ bindings \in Seq(BindingSet) /\ DOMAIN bindings = 1..Len(bindings) /\ Len(bindings) \in Nat
      /\ \A c \in DOMAIN bindings : bindings[c].captured <=> c \in inner
      /\ inner \subseteq DOMAIN bindings
  BY StateFacts DEF IInv
<1>2. b # 0
  BY <1>1
<1>3. CASE Crossed(n, b) /\ bindings' = [bindings EXCEPT ![b].captured = TRUE]
  <2>1. inner' = inner \union {b}
    BY <1>2, <1>3 DEF Marks
  <2> DEFINE bs2 == bindings'
  <2>2. bs2 = [bindings EXCEPT ![b].captured = TRUE]
    BY <1>3
  <2> HIDE DEF bs2
  <2>3. /\ bs2 \in Seq(BindingSet) /\ DOMAIN bs2 = DOMAIN bindings /\ LaterBindings(bindings, bs2)
        /\ bs2[b].captured
        /\ \A c \in DOMAIN bindings : c # b => bs2[c] = bindings[c]
    BY <1>1, <2>2, CaptureFacts
  <2>4. \A c \in DOMAIN bs2 : bs2[c].captured <=> c \in inner'
    BY <1>1, <2>1, <2>3
  <2> QED BY <1>1, <2>1, <2>3, <2>4 DEF bs2
<1>4. CASE bindings' = bindings /\ (Crossed(n, b) => b \in inner)
  <2>1. inner' = inner
    BY <1>2, <1>4 DEF Marks
  <2> QED BY <1>1, <1>4, <2>1, BindingsSame
<1> QED BY <1>3, <1>4

LEMMA LocalStep ==
  ASSUME IInv, NEW n \in Names, GetLocalName(n), Marks(n, Meaning(n, env)),
         UNCHANGED <<locals, unscopes, module_bindings, env>>
  PROVE  IInv'
<1> DEFINE i == LevelOf(n)
           b == FoundAbove(n, i)
           D == Len(locals)
           e == scopes[locals[i]].mp[n]
<1>1. /\ D \in Nat /\ DOMAIN locals = 1..D /\ Len(env) \in Nat /\ DOMAIN env = 1..Len(env)
      /\ locals \in Seq(Nat) /\ env \in Seq(BlockSet) /\ Nests(locals, env)
      /\ DOMAIN bindings = 1..Len(bindings) /\ Len(bindings) \in Nat
      /\ scopes \in Seq(ScopeSet)
  BY StateFacts
<1>2. /\ i > 0
      /\ bindings' = Capture(b, i)
      /\ scopes' = [s \in DOMAIN scopes |->
                        IF \E j \in i + 1..Len(locals) : locals[j] = s
                        THEN LET j == CHOOSE j \in i + 1..Len(locals) : locals[j] = s
                             IN  CopyParent(scopes[s], ParentSlot(n, i, j), b, n)
                        ELSE scopes[s]]
      /\ last' = [scope |-> TopScopeId, binding |-> b,
                  slot |-> scopes'[TopScopeId].mp[n].slot,
                  expected |-> Meaning(n, env)]
  BY DEF GetLocalName
<1>3. /\ i \in 1..D /\ n \in DOMAIN scopes[locals[i]].mp
      /\ \A j \in 1..D : i < j => n \notin DOMAIN scopes[locals[j]].mp
  <2> HIDE DEF i
  <2>1. i # 0
    BY <1>2
  <2> QED BY <1>1, <2>1, LevelFacts DEF i
<1>4. b = e.binding
  BY DEF FoundAbove
<1>5. last'.binding = b /\ last'.expected = Meaning(n, env)
  <2> HIDE DEF b
  <2> QED BY <1>2
<1>6. i # D => bindings' = [bindings EXCEPT ![b].captured = TRUE]
  BY <1>2 DEF Capture
<1>7. i = D => bindings' = bindings
  BY <1>2 DEF Capture
<1>8. EntryOK(bindings, scopes, locals, env, e, n, i, Seen(locals, env, i))
  <2> HIDE DEF i
  <2>1. AgreesAt(bindings, scopes, locals, env, i)
    BY <1>1, <1>3 DEF IInv
  <2> QED BY <1>3, <2>1 DEF AgreesAt
<1>9. b \in DOMAIN bindings /\ Sees(env, Seen(locals, env, i), n, b)
  <2> HIDE DEF i, b, e
  <2> QED BY <1>4, <1>8 DEF EntryOK
<1>10. CopiedDown(scopes', n, i, b) /\ \A t \in 1..D : i < t => ParentSlot(n, i, t) \in Nat
  <2>1. b \in Nat
    <3> HIDE DEF b
    <3> QED BY <1>1, <1>9
  <2> HIDE DEF i, b
  <2> QED BY <1>2, <1>3, <2>1, CopiesDown
<1> HIDE DEF i, b, e
<1>11. Sees(env, 1..Len(env), n, b)
  BY <1>3, <1>9, SeesInside
<1>12. Meaning(n, env) = b
  BY <1>1, <1>11, MeaningSeen
<1>13. Marks(n, b)
  BY <1>12
<1>14. i = D /\ Crossed(n, b) => b \in inner
  <2> SUFFICES ASSUME i = D, Crossed(n, b) PROVE b \in inner
    OBVIOUS
  <2>1. Seen(locals, env, D) = 1..Len(env)
    BY <1>1, NestFacts
  <2>2. EntryOK(bindings, scopes, locals, env, e, n, D, 1..Len(env))
    BY <1>8, <2>1
  <2> QED BY <1>4, <2>2, CopiedCaptured
<1>15. i # D => Crossed(n, b)
  BY <1>3, OuterCrossed
<1>16. /\ bindings' \in Seq(BindingSet) /\ LaterBindings(bindings, bindings')
       /\ \A c \in DOMAIN bindings' : bindings'[c].captured <=> c \in inner'
       /\ inner' \subseteq DOMAIN bindings'
  BY <1>6, <1>7, <1>9, <1>13, <1>14, <1>15, MarkedTogether
<1>17. i # D => bindings'[b].captured
  <2>1. bindings \in Seq(BindingSet)
    BY StateFacts
  <2> QED BY <1>6, <1>9, <2>1, CaptureFacts
<1>18. \A t \in 1..D : /\ Wider(scopes[locals[t]], scopes'[locals[t]])
                       /\ DOMAIN scopes[locals[t]].mp \subseteq DOMAIN scopes'[locals[t]].mp
                       /\ AgreesAt(bindings', scopes', locals, env, t)
  <2> DEFINE scs2 == scopes'
             bs2 == bindings'
  <2>1. CopiedDown(scs2, n, i, b) /\ LaterBindings(bindings, bs2) /\ (i # D => bs2[b].captured)
    BY <1>10, <1>16, <1>17
  <2>2. b = scopes[locals[i]].mp[n].binding
    BY <1>4 DEF e
  <2> HIDE DEF scs2, bs2
  <2>3. \A t \in 1..D : /\ Wider(scopes[locals[t]], scs2[locals[t]])
                        /\ DOMAIN scopes[locals[t]].mp \subseteq DOMAIN scs2[locals[t]].mp
                        /\ AgreesAt(bs2, scs2, locals, env, t)
    BY <1>3, <1>10, <2>1, <2>2, CopiesAgree, ZenonT(30)
  <2> QED BY <2>3 DEF scs2, bs2
<1>19. scopes' \in Seq(ScopeSet) /\ Len(scopes') = Len(scopes) /\ \A s \in 1..Len(scopes) : CopiesOK(scopes'[s])
  BY <1>10 DEF CopiedDown
<1>20. last'.binding = last'.expected
  BY <1>5, <1>12
<1> QED BY <1>16, <1>18, <1>19, <1>20, ResolveKeeps

(* A name that no scope knows is bound by the module alone, if at all.     *)
LEMMA ModuleAlone ==
  ASSUME IInv, NEW n, \A i \in 1..Len(locals) : n \notin DOMAIN scopes[locals[i]].mp
  PROVE  \A k \in 1..Len(env) : k # 1 => n \notin DOMAIN env[k].names
<1> SUFFICES ASSUME NEW k \in 1..Len(env), k # 1 PROVE n \notin DOMAIN env[k].names
  OBVIOUS
<1>1. DOMAIN locals = 1..Len(locals) /\ DOMAIN env = 1..Len(env)
  BY StateFacts
<1>2. PICK i \in 1..Len(locals) : env[k].scope = locals[i]
  BY StateFacts
<1>3. HoldsAt(scopes, locals, env, i)
  BY <1>1 DEF IInv
<1>4. DOMAIN env[k].names \subseteq DOMAIN scopes[locals[i]].mp
  BY <1>1, <1>2, <1>3 DEF HoldsAt
<1> QED BY <1>4

(* Such a name is used across a def exactly inside a def.                  *)
LEMMA ModuleCrossed ==
  ASSUME IInv, NEW n, NEW b, \A i \in 1..Len(locals) : n \notin DOMAIN scopes[locals[i]].mp
  PROVE  Crossed(n, b) <=> Len(locals) > 1
<1> DEFINE D == Len(locals)
           L == Len(env)
<1>1. /\ D \in Nat /\ D >= 1 /\ DOMAIN locals = 1..D /\ L \in Nat /\ L >= 1 /\ DOMAIN env = 1..L /\ Nests(locals, env)
      /\ \A k \in 1..L : \E i \in 1..D : env[k].scope = locals[i]
  BY StateFacts
<1>2. \A k \in 1..L : k # 1 => n \notin DOMAIN env[k].names
  BY ModuleAlone
<1>3. \A x \in DOMAIN locals : x # 1 => \E k \in DOMAIN env : env[k].kind = "def" /\ env[k].scope = locals[x]
  BY <1>1 DEF Nests
<1>4. /\ locals[1] = 1 /\ env[1].scope = 1 /\ env[1].kind = "module"
  BY <1>1 DEF Nests, ModuleScope
<1>5. \A k \in DOMAIN env : 1 < k /\ env[k].kind = "def" => env[1].scope < env[k].scope
  BY <1>1 DEF Nests
<1> HIDE DEF D, L
<1>6. ASSUME D > 1 PROVE Crossed(n, b)
  <2>1. 2 \in DOMAIN locals /\ 2 # 1
    BY <1>1, <1>6
  <2>2. PICK m \in 1..L : env[m].kind = "def"
    BY <1>1, <1>3, <2>1
  <2>3. m # 1
    BY <1>4, <2>2
  <2>4. \A j \in m..L : j \in 1..L /\ j # 1
    BY <1>1, <2>3
  <2> QED BY <1>1, <1>2, <2>2, <2>4 DEF Crossed, L
<1>7. ASSUME Crossed(n, b), ~(D > 1) PROVE FALSE
  <2>1. PICK m \in 1..L : env[m].kind = "def"
    BY <1>1, <1>7 DEF Crossed
  <2>2. 1 < m
    BY <1>1, <1>4, <2>1
  <2>3. 1 < env[m].scope
    BY <1>1, <1>4, <1>5, <2>1, <2>2
  <2>4. PICK i \in 1..D : env[m].scope = locals[i]
    BY <1>1
  <2>5. i = 1
    BY <1>1, <1>7
  <2> QED BY <1>4, <2>3, <2>4, <2>5
<1> QED BY <1>6, <1>7 DEF D

(* When no scope changes, every level agrees as before.                    *)
LEMMA ScopesKept ==
  ASSUME IInv, UNCHANGED scopes, LaterBindings(bindings, bindings')
  PROVE  /\ scopes' \in Seq(ScopeSet) /\ Len(scopes') = Len(scopes)
         /\ \A s \in 1..Len(scopes) : CopiesOK(scopes'[s])
         /\ \A t \in 1..Len(locals) : /\ Wider(scopes[locals[t]], scopes'[locals[t]])
                                      /\ DOMAIN scopes[locals[t]].mp \subseteq DOMAIN scopes'[locals[t]].mp
                                      /\ AgreesAt(bindings', scopes', locals, env, t)
<1> DEFINE D == Len(locals)
<1>1. /\ D \in Nat /\ DOMAIN locals = 1..D /\ scopes \in Seq(ScopeSet)
      /\ \A s \in 1..Len(scopes) : scopes[s] \in ScopeSet /\ CopiesOK(scopes[s])
      /\ \A t \in 1..D : locals[t] \in 1..Len(scopes)
  BY StateFacts
<1>2. \A t \in 1..D : AgreesAt(bindings, scopes, locals, env, t)
  BY <1>1 DEF IInv
<1>3. \A t \in 1..D : Wider(scopes[locals[t]], scopes[locals[t]])
  BY <1>1, WiderSame
<1> HIDE DEF D
<1>4. ASSUME NEW t \in 1..D PROVE AgreesAt(bindings', scopes, locals, env, t)
  <2>1. \A x \in 1..t : x \in 1..D
    BY <1>1
  <2>2. LaterScopes(scopes, locals, scopes, locals, t) /\ t \in Nat
    BY <1>1, <1>3, <2>1 DEF LaterScopes
  <2> QED BY <1>2, <2>2, AgreesStay
<1> QED BY <1>1, <1>3, <1>4 DEF D

LEMMA ModuleStep ==
  ASSUME IInv, NEW n \in Names, GetModuleName(n), Marks(n, Meaning(n, env)),
         UNCHANGED <<locals, unscopes, module_bindings, env>>
  PROVE  IInv'
<1> DEFINE b == module_bindings[n]
           D == Len(locals)
<1>1. /\ D \in Nat /\ DOMAIN locals = 1..D /\ Len(env) \in Nat /\ DOMAIN env = 1..Len(env) /\ Len(env) >= 1
  BY StateFacts
<1>2. /\ LevelOf(n) = 0 /\ n \in DOMAIN module_bindings
      /\ bindings' = IF D > 1 THEN [bindings EXCEPT ![b].captured = TRUE] ELSE bindings
      /\ last' = [scope |-> TopScopeId, slot |-> bindings[b].slot, binding |-> b, expected |-> Meaning(n, env)]
      /\ scopes' = scopes
  BY DEF GetModuleName
<1>3. \A i \in 1..D : n \notin DOMAIN scopes[locals[i]].mp
  <2>1. ~(LevelOf(n) \in 1..D)
    BY <1>2
  <2> QED BY <1>1, <2>1, LevelFacts
<1>4. n \in DOMAIN env[1].names /\ b = env[1].names[n]
  BY <1>2 DEF IInv
<1> HIDE DEF b
<1>5. b \in DOMAIN bindings
  <2>1. Declares(bindings, env, 1)
    BY <1>1 DEF IInv
  <2> QED BY <1>4, <2>1 DEF Declares
<1>6. Sees(env, 1..Len(env), n, b)
  <2>1. \A k \in 1..Len(env) : k # 1 => n \notin DOMAIN env[k].names
    BY <1>3, ModuleAlone
  <2>2. 1 \in 1..Len(env) /\ \A k \in 1..Len(env) : 1 < k => k # 1
    BY <1>1
  <2> QED BY <1>4, <2>1, <2>2 DEF Sees
<1>7. Meaning(n, env) = b
  BY <1>1, <1>6, MeaningSeen
<1>8. Marks(n, b)
  BY <1>7
<1>9. Crossed(n, b) <=> D > 1
  BY <1>3, ModuleCrossed
<1> HIDE DEF D
<1>10. \/ Crossed(n, b) /\ bindings' = [bindings EXCEPT ![b].captured = TRUE]
       \/ bindings' = bindings /\ (Crossed(n, b) => b \in inner)
  BY <1>2, <1>9
<1>11. /\ bindings' \in Seq(BindingSet) /\ LaterBindings(bindings, bindings')
       /\ \A c \in DOMAIN bindings' : bindings'[c].captured <=> c \in inner'
       /\ inner' \subseteq DOMAIN bindings'
  BY <1>5, <1>8, <1>10, MarkedTogether
<1>12. last'.binding = last'.expected
  BY <1>2, <1>7
<1>13. /\ scopes' \in Seq(ScopeSet) /\ Len(scopes') = Len(scopes)
       /\ \A s \in 1..Len(scopes) : CopiesOK(scopes'[s])
       /\ \A t \in 1..Len(locals) : /\ Wider(scopes[locals[t]], scopes'[locals[t]])
                                    /\ DOMAIN scopes[locals[t]].mp \subseteq DOMAIN scopes'[locals[t]].mp
                                    /\ AgreesAt(bindings', scopes', locals, env, t)
  BY <1>2, <1>11, ScopesKept
<1> QED BY <1>11, <1>12, <1>13, ResolveKeeps

LEMMA NoNameStep ==
  ASSUME IInv, NEW n \in Names, GetNoName(n), Marks(n, Meaning(n, env)),
         UNCHANGED <<locals, unscopes, module_bindings, env>>
  PROVE  IInv'
<1> DEFINE D == Len(locals)
<1>1. /\ D \in Nat /\ DOMAIN locals = 1..D /\ Len(env) \in Nat /\ DOMAIN env = 1..Len(env) /\ Len(env) >= 1
      /\ bindings \in Seq(BindingSet)
  BY StateFacts
<1>2. /\ LevelOf(n) = 0 /\ n \notin DOMAIN module_bindings
      /\ last' = [Nothing EXCEPT !.scope = TopScopeId, !.expected = Meaning(n, env)]
      /\ bindings' = bindings /\ scopes' = scopes
  BY DEF GetNoName
<1>3. \A i \in 1..D : n \notin DOMAIN scopes[locals[i]].mp
  <2>1. ~(LevelOf(n) \in 1..D)
    BY <1>2
  <2> QED BY <1>1, <2>1, LevelFacts
<1>4. \A k \in DOMAIN env : n \notin DOMAIN env[k].names
  <2>1. \A k \in 1..Len(env) : k # 1 => n \notin DOMAIN env[k].names
    BY <1>3, ModuleAlone
  <2>2. n \notin DOMAIN env[1].names
    BY <1>2 DEF IInv
  <2> QED BY <1>1, <2>1, <2>2
<1>5. Meaning(n, env) = 0
  BY <1>4, MeaningUnseen
<1>6. inner' = inner
  BY <1>5 DEF Marks
<1>7. last'.binding = last'.expected
  <2>1. \A x, y : [Nothing EXCEPT !.scope = x, !.expected = y].binding = 0
                  /\ [Nothing EXCEPT !.scope = x, !.expected = y].expected = y
    <3> TAKE x, y
    <3> DEFINE v == [Nothing EXCEPT !.scope = x]
    <3>1. v = [scope |-> x, slot |-> 0, binding |-> 0, expected |-> 0]
      BY DEF Nothing
    <3> HIDE DEF v
    <3>2. [v EXCEPT !.expected = y].binding = 0 /\ [v EXCEPT !.expected = y].expected = y
      BY <3>1
    <3> QED BY <3>2 DEF v
  <2> QED BY <1>2, <1>5, <2>1
<1>8. LaterBindings(bindings, bindings')
  BY <1>2, BindingsSame
<1>9. /\ bindings' \in Seq(BindingSet)
      /\ \A c \in DOMAIN bindings' : bindings'[c].captured <=> c \in inner'
      /\ inner' \subseteq DOMAIN bindings'
  BY <1>1, <1>2, <1>6 DEF IInv
<1>13. /\ scopes' \in Seq(ScopeSet) /\ Len(scopes') = Len(scopes)
       /\ \A s \in 1..Len(scopes) : CopiesOK(scopes'[s])
       /\ \A t \in 1..Len(locals) : /\ Wider(scopes[locals[t]], scopes'[locals[t]])
                                    /\ DOMAIN scopes[locals[t]].mp \subseteq DOMAIN scopes'[locals[t]].mp
                                    /\ AgreesAt(bindings', scopes', locals, env, t)
  BY <1>2, <1>8, ScopesKept
<1> QED BY <1>7, <1>8, <1>9, <1>13, ResolveKeeps

LEMMA ResolveStep ==
  ASSUME IInv, NEW n \in Names, ResolveIdent(n)
  PROVE  IInv'
<1>1. Marks(n, Meaning(n, env)) /\ UNCHANGED <<locals, unscopes, module_bindings, env>>
  BY DEF ResolveIdent, Marks, Crossed
<1>2. GetLocalName(n) \/ GetModuleName(n) \/ GetNoName(n)
  BY DEF ResolveIdent
<1> QED BY <1>1, <1>2, LocalStep, ModuleStep, NoNameStep

-----------------------------------------------------------------------------
(***************************************************************************)
(* The invariant holds.                                                    *)
(***************************************************************************)
LEMMA InitHolds ==
  ASSUME Init
  PROVE  IInv
<1>1. PICK defined \in SUBSET Names :
        /\ bindings = [i \in DOMAIN SetToSeq(defined) |-> NewBinding(SetToSeq(defined)[i], ModuleOwner, i - 1)]
        /\ module_bindings = [n \in defined |-> CHOOSE i \in DOMAIN SetToSeq(defined) : SetToSeq(defined)[i] = n]
        /\ scopes = <<EmptyNames>> /\ locals = <<ModuleScope>> /\ unscopes = <<>>
        /\ env = <<BlockOf("module", ModuleScope, SetToSeq(defined), 0)>>
        /\ inner = {} /\ last = Nothing
  BY DEF Init
<1> DEFINE ns == SetToSeq(defined)
           blk == BlockOf("module", ModuleScope, ns, 0)
<1>2. ns \in Seq(Names) /\ Range(ns) = defined
  BY NamesInOrder
<1>3. /\ bindings = [i \in DOMAIN ns |-> NewBinding(ns[i], 0, i - 1)]
      /\ module_bindings = [n \in defined |-> Index(ns, n)]
      /\ scopes = <<EmptyNames>> /\ locals = <<1>> /\ unscopes = <<>>
      /\ env = <<blk>> /\ inner = {} /\ last = Nothing
  BY <1>1 DEF Index, ModuleOwner, ModuleScope
<1> HIDE DEF ns
<1>4. Len(ns) \in Nat /\ DOMAIN ns = 1..Len(ns) /\ \A i \in 1..Len(ns) : ns[i] \in Names
  BY <1>2
<1>5. /\ blk \in BlockSet /\ blk.kind = "module" /\ blk.scope = 1
      /\ DOMAIN blk.names = Range(ns)
      /\ \A n \in Range(ns) : blk.names[n] = 0 + Index(ns, n)
  <2>1. ModuleScope \in Nat /\ 0 \in Nat /\ ModuleScope = 1 /\ "module" \in {"module", "def", "compr"}
    BY DEF ModuleScope
  <2> DEFINE z == 0
             kd == "module"
  <2>2. z \in Nat /\ kd \in {"module", "def", "compr"} /\ ModuleScope \in Nat
    BY <2>1
  <2> HIDE DEF z, kd
  <2>3. LET k == BlockOf(kd, ModuleScope, ns, z)
        IN  /\ k \in BlockSet /\ k.kind = kd /\ k.scope = ModuleScope
            /\ DOMAIN k.names = Range(ns)
            /\ \A n \in Range(ns) : k.names[n] = z + Index(ns, n)
    BY <1>2, <2>2, BlockFacts
  <2> QED BY <2>1, <2>3 DEF z, kd
<1> HIDE DEF blk
<1>6. \A n \in Range(ns) : Index(ns, n) \in 1..Len(ns) /\ ns[Index(ns, n)] = n
  BY <1>2, IndexFacts
<1>7. blk.names = [n \in DOMAIN blk.names |-> blk.names[n]]
  <2>1. blk.names \in NameSets
    BY <1>5 DEF BlockSet
  <2> QED BY <2>1, NameSetFacts
<1>8. module_bindings = blk.names
  <2>1. \A n \in Range(ns) : blk.names[n] = Index(ns, n)
    BY <1>5, <1>6
  <2> QED BY <1>2, <1>3, <1>5, <1>7, <2>1
<1>9. bindings \in Seq(BindingSet) /\ DOMAIN bindings = 1..Len(ns)
  <2>1. \A i \in 1..Len(ns) : i - 1 \in Nat /\ 0 \in Nat
    OBVIOUS
  <2>2. \A i \in 1..Len(ns) : NewBinding(ns[i], 0, i - 1) \in BindingSet
    BY <1>4, <2>1, NewBindingFacts
  <2>3. bindings \in [1..Len(ns) -> BindingSet]
    BY <1>3, <1>4, <2>2
  <2>4. bindings \in Seq(BindingSet)
    BY ONLY <1>4, <2>3, SeqDef
  <2> QED BY <1>3, <1>4, <2>4
<1>10. \A i \in 1..Len(ns) : bindings[i].owner = 0 /\ bindings[i].captured = FALSE
  <2>1. \A i \in 1..Len(ns) : bindings[i] = NewBinding(ns[i], 0, i - 1)
    BY <1>3, <1>4
  <2> QED BY <2>1, NewBindingFacts
<1>11. /\ DOMAIN env = {1} /\ env[1] = blk /\ env \in Seq(BlockSet)
       /\ DOMAIN locals = {1} /\ locals[1] = 1 /\ Len(locals) = 1
       /\ DOMAIN scopes = {1} /\ scopes[1] = EmptyNames /\ Len(scopes) = 1
       /\ Len(unscopes) = 0 /\ unscopes \in Seq(Tables)
  <2>1. DOMAIN env = {1} /\ env[1] = blk
    BY <1>3
  <2>2. env \in Seq(BlockSet)
    BY <1>3, <1>5
  <2> QED BY <1>3, <2>1, <2>2
<1>12. Form
  <2>1. scopes \in Seq(ScopeSet)
    BY <1>3, EmptyScope
  <2>2. locals \in Seq(1..Len(scopes))
    <3>1. 1 \in 1..Len(scopes)
      BY <1>11
    <3> QED BY <1>3, <3>1
  <2>3. \A s \in 1..Len(scopes) : CopiesOK(scopes[s])
    BY <1>11, EmptyScope
  <2> QED BY <1>9, <1>11, <2>1, <2>2, <2>3 DEF Form
<1>13. Nests(locals, env)
  <2>1. \A i, j \in {1} : ~(i < j)
    OBVIOUS
  <2> QED BY <1>5, <1>11, <2>1 DEF Nests, ModuleScope
<1>14. \A k \in DOMAIN env : Declares(bindings, env, k)
  <2> SUFFICES ASSUME NEW n \in Range(ns)
               PROVE  blk.names[n] \in DOMAIN bindings /\ bindings[blk.names[n]].owner = 0
    BY <1>5, <1>11 DEF Declares, OwnerOf, ModuleOwner
  <2>1. blk.names[n] \in 1..Len(ns)
    BY <1>5, <1>6
  <2> QED BY <1>9, <1>10, <2>1
<1>15. \A i \in DOMAIN locals : AgreesAt(bindings, scopes, locals, env, i) /\ HoldsAt(scopes, locals, env, i)
  BY <1>11, EmptyScope DEF AgreesAt, HoldsAt
<1>16. UndosOK(bindings, scopes, locals, unscopes, env)
  <2>1. 1..Len(unscopes) = {}
    BY <1>11
  <2> DEFINE pos == [q \in {} |-> 1]
  <2>2. pos \in [{} -> DOMAIN env]
    OBVIOUS
  <2> HIDE DEF pos
  <2>3. ComprsAt(unscopes, env, pos)
    BY <1>5, <1>11, <2>1, <2>2 DEF ComprsAt
  <2> QED BY <2>1, <2>3 DEF UndosOK
<1>17. \A b \in DOMAIN bindings : bindings[b].captured <=> b \in inner
  BY <1>3, <1>9, <1>10
<1>18. last.binding = last.expected /\ inner \subseteq DOMAIN bindings
  BY <1>3 DEF Nothing
<1> QED BY <1>8, <1>11, <1>12, <1>13, <1>14, <1>15, <1>16, <1>17, <1>18 DEF IInv

LEMMA Unchanged ==
  ASSUME IInv, UNCHANGED vars
  PROVE  IInv'
BY DEF vars, IInv, Form

(* Every step of the walk (enter_def, exit_def, enter_compr, exit_compr    *)
(* and resolve_ident) keeps the open scopes, the replaced names and the    *)
(* lexical blocks in step.                                                 *)
THEOREM Inductive == Spec => []IInv
<1>1. Init => IInv
  BY InitHolds
<1>2. IInv /\ [Next]_vars => IInv'
  <2> SUFFICES ASSUME IInv, [Next]_vars PROVE IInv'
    OBVIOUS
  <2>1. CASE UNCHANGED vars
    BY <2>1, Unchanged
  <2>2. ASSUME NEW params \in SUBSET Names, NEW assigned \in SUBSET Names, EnterDef(params, assigned)
        PROVE  IInv'
    BY <2>2, EnterDefStep
  <2>3. CASE ExitDef
    BY <2>3, ExitDefStep
  <2>4. ASSUME NEW targets \in SUBSET Names \ {{}}, EnterCompr(targets)
        PROVE  IInv'
    BY <2>4, EnterComprStep
  <2>5. CASE ExitCompr
    BY <2>5, ExitComprStep
  <2>6. ASSUME NEW n \in Names, ResolveIdent(n) PROVE IInv'
    BY <2>6, ResolveStep
  <2> QED BY <2>1, <2>2, <2>3, <2>4, <2>5, <2>6 DEF Next
<1> QED BY <1>1, <1>2, PTL DEF Spec

-----------------------------------------------------------------------------
(***************************************************************************)
(* What the invariant says of the two properties.                          *)
(***************************************************************************)

(* The blocks before the def of the next level are those level i sees.     *)
LEMMA LevelBlocks ==
  ASSUME IInv, NEW i \in 1..Len(locals)
  PROVE  \E m \in Nat : /\ DOMAIN BlocksOfLevel(i) = 1..m /\ Seen(locals, env, i) = 1..m
                        /\ \A k \in 1..m : k \in 1..Len(env) /\ BlocksOfLevel(i)[k] = env[k]
<1> DEFINE D == Len(locals)
           L == Len(env)
           outer == {j \in DOMAIN env : env[j].kind = "def" /\ env[j].scope = locals[i + 1]}
           c == CHOOSE j \in outer : TRUE
<1>1. /\ D \in Nat /\ DOMAIN locals = 1..D /\ L \in Nat /\ DOMAIN env = 1..L /\ i \in 1..D
      /\ locals \in Seq(Nat) /\ env \in Seq(BlockSet) /\ Nests(locals, env)
  BY StateFacts
<1>2. CASE i = D
  <2>1. BlocksOfLevel(i) = env
    BY <1>2 DEF BlocksOfLevel
  <2>2. Seen(locals, env, D) = 1..L
    BY <1>1, NestFacts
  <2> QED BY <1>1, <1>2, <2>1, <2>2
<1>3. CASE i # D
  <2>1. BlocksOfLevel(i) = SubSeq(env, 1, c - 1)
    BY <1>3 DEF BlocksOfLevel
  <2>2. \A x \in DOMAIN locals : x # 1 => \E k \in DOMAIN env : env[k].kind = "def" /\ env[k].scope = locals[x]
    BY <1>1 DEF Nests
  <2>3. i + 1 \in DOMAIN locals /\ i + 1 # 1
    <3> HIDE DEF D
    <3> QED BY <1>1, <1>3
  <2>4. outer # {}
    BY <2>2, <2>3
  <2>5. c \in outer
    <3> HIDE DEF outer
    <3> QED BY <2>4
  <2>6. c \in 1..L /\ env[c].kind = "def" /\ env[c].scope = locals[i + 1]
    BY <1>1, <2>5
  <2> HIDE DEF c
  <2>7. Seen(locals, env, i) = 1..c - 1
    BY <1>1, <1>3, <2>6, LevelBelow, ZenonT(30)
  <2> DEFINE m == c - 1
  <2> HIDE DEF L
  <2>8. m \in Nat /\ m \in Int /\ 1 \in Int /\ \A k \in 1..m : k \in 1..L
    BY <1>1, <2>6
  <2>9. \A k \in 1..m : env[k] \in BlockSet
    BY <1>1, <2>8 DEF L
  <2>10. BlocksOfLevel(i) = SubSeq(env, 1, m) /\ Seen(locals, env, i) = 1..m
    BY <2>1, <2>7
  <2> HIDE DEF m
  <2>11. /\ SubSeq(env, 1, m) \in Seq(BlockSet) /\ Len(SubSeq(env, 1, m)) = IF 1 <= m THEN m - 1 + 1 ELSE 0
         /\ \A k \in 1..m - 1 + 1 : SubSeq(env, 1, m)[k] = env[1 + k - 1]
    BY ONLY <2>8, <2>9, SubSeqProperties
  <2> DEFINE s == SubSeq(env, 1, m)
  <2>12. s \in Seq(BlockSet) /\ Len(s) = m
    BY <2>8, <2>11
  <2>13. \A k \in 1..m : s[k] = env[k]
    <3> TAKE k \in 1..m
    <3>1. k \in 1..m - 1 + 1 /\ 1 + k - 1 = k
      BY <2>8
    <3> HIDE DEF s
    <3> QED BY <2>11, <3>1 DEF s
  <2> HIDE DEF s
  <2>14. DOMAIN s = 1..m
    BY <2>12
  <2> QED BY <2>8, <2>10, <2>13, <2>14 DEF s, L
<1> QED BY <1>2, <1>3

LEMMA OneUndoEach ==
  ASSUME IInv
  PROVE  Len(unscopes) = Cardinality({k \in DOMAIN env : env[k].kind = "compr"})
<1> DEFINE S == {k \in DOMAIN env : env[k].kind = "compr"}
           N == Len(unscopes)
<1>1. UndosOK(bindings, scopes, locals, unscopes, env) /\ unscopes \in Seq(Tables) /\ DOMAIN env \subseteq Nat
  BY StateFacts DEF IInv
<1>2. PICK pos : ComprsAt(unscopes, env, pos)
  BY <1>1 DEF UndosOK
<1>3. N \in Nat
  BY <1>1
<1>4. /\ pos \in [1..N -> DOMAIN env]
      /\ \A p, q \in 1..N : p < q => pos[p] < pos[q]
      /\ \A k \in DOMAIN env : env[k].kind = "compr" <=> \E q \in 1..N : pos[q] = k
  BY <1>2 DEF ComprsAt
<1> HIDE DEF N
<1>5. pos \in [1..N -> S] /\ \A k \in S : \E q \in 1..N : pos[q] = k
  BY <1>4
<1>6. \A p, q \in 1..N : pos[p] = pos[q] => p = q
  <2> SUFFICES ASSUME NEW p \in 1..N, NEW q \in 1..N, pos[p] = pos[q], p # q PROVE FALSE
    OBVIOUS
  <2>1. p < q \/ q < p
    BY <1>3
  <2>2. pos[p] \in Nat /\ pos[q] \in Nat
    BY <1>1, <1>4
  <2> QED BY <1>4, <2>1, <2>2
<1> HIDE DEF S
<1>7. pos \in Bijection(1..N, S)
  BY <1>5, <1>6 DEF Bijection, Injection, Surjection, IsInjective
<1>8. ExistsBijection(1..N, S)
  BY <1>7 DEF ExistsBijection
<1>9. Cardinality(S) = N
  BY <1>3, <1>8, FS_CountingElements
<1> QED BY <1>9 DEF S, N

LEMMA LexicalHolds ==
  ASSUME IInv
  PROVE  ResolutionIsLexical
<1>1. /\ bindings \in Seq(BindingSet) /\ DOMAIN bindings = 1..Len(bindings)
      /\ scopes \in Seq(ScopeSet) /\ DOMAIN scopes = 1..Len(scopes)
      /\ \A s \in 1..Len(scopes) : scopes[s] \in ScopeSet
      /\ locals \in Seq(1..Len(scopes)) /\ DOMAIN locals = 1..Len(locals) /\ DOMAIN env = 1..Len(env)
      /\ Nests(locals, env)
  BY StateFacts
<1>2. TypeOK
  <2>1. \A b \in DOMAIN bindings : bindings[b].name \in Names
    <3>1. \A b \in DOMAIN bindings : bindings[b] \in BindingSet
      BY <1>1
    <3> QED BY <3>1 DEF BindingSet
  <2>2. \A s \in DOMAIN scopes : scopes[s].used \in Seq(Names)
    BY <1>1 DEF ScopeSet
  <2>3. locals \in Seq(DOMAIN scopes)
    BY <1>1
  <2> QED BY <2>1, <2>2, <2>3, OneUndoEach DEF TypeOK
<1>3. last.binding = last.expected
  BY DEF IInv
<1>4. ASSUME NEW i \in DOMAIN locals
      PROVE  LET mp == scopes[locals[i]].mp
                 blocks == BlocksOfLevel(i)
             IN  /\ \A n \in DOMAIN mp : mp[n].binding = Meaning(n, blocks)
                 /\ \A j \in DOMAIN blocks :
                       blocks[j].scope = locals[i] /\ blocks[j].kind # "module"
                          => DOMAIN blocks[j].names \subseteq DOMAIN mp
  <2> DEFINE mp == scopes[locals[i]].mp
             blocks == BlocksOfLevel(i)
  <2>1. i \in 1..Len(locals)
    BY <1>1
  <2>2. PICK m \in Nat : /\ DOMAIN blocks = 1..m /\ Seen(locals, env, i) = 1..m
                         /\ \A k \in 1..m : k \in 1..Len(env) /\ blocks[k] = env[k]
    BY <2>1, LevelBlocks
  <2>3. AgreesAt(bindings, scopes, locals, env, i) /\ HoldsAt(scopes, locals, env, i)
    BY DEF IInv
  <2> HIDE DEF blocks
  <2>4. ASSUME NEW n \in DOMAIN mp PROVE mp[n].binding = Meaning(n, blocks)
    <3> DEFINE b == mp[n].binding
    <3>1. Sees(env, 1..m, n, b)
      BY <2>2, <2>3 DEF AgreesAt, EntryOK
    <3> HIDE DEF b
    <3>2. Sees(blocks, 1..m, n, b)
      BY <2>2, <3>1 DEF Sees
    <3>3. Meaning(n, blocks) = b
      BY <2>2, <3>2, MeaningSeen
    <3> QED BY <3>3 DEF b
  <2>5. ASSUME NEW j \in DOMAIN blocks, blocks[j].scope = locals[i], blocks[j].kind # "module"
        PROVE  DOMAIN blocks[j].names \subseteq DOMAIN mp
    <3>1. blocks[j] = env[j] /\ j \in DOMAIN env
      BY <1>1, <2>2
    <3>2. j # 1
      BY <1>1, <2>5, <3>1 DEF Nests
    <3> QED BY <2>3, <2>5, <3>1, <3>2 DEF HoldsAt
  <2> QED BY <2>4, <2>5 DEF blocks
<1> QED BY <1>2, <1>3, <1>4 DEF ResolutionIsLexical

LEMMA SourceDef ==
  ASSUME NEW s, NEW slot
  PROVE  Source(s, slot) = Sources(scopes[s].parent, slot)
BY DEF Source, Sources

(* Chain is the one function of its equation, and it follows the path: a   *)
(* single slot at each level down to the owner's, nothing outside it.      *)
LEMMA ChainFollows ==
  ASSUME NEW i \in Nat, NEW j \in 1..i, NEW path \in [1..i -> Nat],
         Source(locals[j], path[j]) = {},
         \A t \in j + 1..i : Source(locals[t], path[t]) = {path[t - 1]}
  PROVE  Chain(i, path[i])[j] = {path[j]}
<1> DEFINE Solves(f) == f = [t \in 1..i |-> IF t = i THEN {path[i]}
                                            ELSE UNION {Source(locals[t + 1], s) : s \in f[t + 1]}]
           at == CHOOSE f : Solves(f)
           w == [t \in 1..i |-> IF j <= t THEN {path[t]} ELSE {}]
<1>1. Chain(i, path[i]) = at
  BY DEF Chain
<1>2. \A t \in 1..i : w[t] = IF j <= t THEN {path[t]} ELSE {}
  OBVIOUS
<1>3. w = [t \in 1..i |-> w[t]]
  OBVIOUS
<1> HIDE DEF w
<1>4. ASSUME NEW t \in 1..i
      PROVE  w[t] = IF t = i THEN {path[i]} ELSE UNION {Source(locals[t + 1], s) : s \in w[t + 1]}
  <2>1. CASE t = i
    <3>1. j <= t
      BY <2>1
    <3> QED BY <1>2, <2>1, <3>1
  <2>2. CASE t # i /\ j <= t
    <3>1. t + 1 \in 1..i /\ j <= t + 1 /\ t + 1 \in j + 1..i /\ (t + 1) - 1 = t
      BY <2>2
    <3>2. w[t + 1] = {path[t + 1]} /\ w[t] = {path[t]}
      BY <1>2, <2>2, <3>1
    <3>3. Source(locals[t + 1], path[t + 1]) = {path[t]}
      BY <3>1
    <3> QED BY <2>2, <3>2, <3>3
  <2>3. CASE t # i /\ t + 1 = j
    <3>1. t + 1 \in 1..i /\ j <= t + 1 /\ ~(j <= t)
      BY <2>3
    <3>2. w[t + 1] = {path[j]} /\ w[t] = {}
      BY <1>2, <2>3, <3>1
    <3> QED BY <2>3, <3>2
  <2>4. CASE t # i /\ t + 1 < j
    <3>1. t + 1 \in 1..i /\ ~(j <= t + 1) /\ ~(j <= t)
      BY <2>4
    <3>2. w[t + 1] = {} /\ w[t] = {}
      BY <1>2, <3>1
    <3> QED BY <2>4, <3>2
  <2>5. j <= t \/ t + 1 = j \/ t + 1 < j
    OBVIOUS
  <2> QED BY <2>1, <2>2, <2>3, <2>4, <2>5
<1>5. Solves(w)
  BY <1>3, <1>4
<1>6. Solves(at)
  <2> HIDE DEF Solves
  <2> QED BY <1>5
<1> HIDE DEF at
<1>7. \A t \in 1..i : at[t] = IF t = i THEN {path[i]} ELSE UNION {Source(locals[t + 1], s) : s \in at[t + 1]}
  BY <1>6
<1> HIDE DEF Solves
<1> DEFINE n == i - j
           f == [k \in 0..n |-> at[i - k]]
           T == [k \in 0..n |-> {{path[i - k]}}]
<1>8. n \in Nat /\ \A k \in 0..n : i - k \in 1..i
  OBVIOUS
<1>9. \A k \in 0..n : f[k] = at[i - k] /\ T[k] = {{path[i - k]}}
  OBVIOUS
<1> HIDE DEF f, T, n
<1>10. f[0] \in T[0]
  <2>1. 0 \in 0..n /\ i - 0 = i /\ i \in 1..i
    BY <1>8
  <2>2. f[0] = at[i] /\ T[0] = {{path[i]}}
    BY <1>9, <2>1
  <2>3. at[i] = {path[i]}
    BY <1>7, <2>1
  <2> QED BY <2>2, <2>3
<1>11. ASSUME NEW k \in 1..n, f[k - 1] \in T[k - 1] PROVE f[k] \in T[k]
  <2> DEFINE t == i - k
  <2>1. k \in 0..n /\ k - 1 \in 0..n /\ i - (k - 1) = t + 1 /\ t \in 1..i /\ t # i /\ t + 1 \in j + 1..i /\ (t + 1) - 1 = t
    BY <1>8 DEF n
  <2>2. at[t + 1] = {path[t + 1]}
    BY <1>9, <1>11, <2>1
  <2> HIDE DEF t
  <2>3. Source(locals[t + 1], path[t + 1]) = {path[t]}
    BY <2>1
  <2>4. at[t] = UNION {Source(locals[t + 1], s) : s \in at[t + 1]}
    BY <1>7, <2>1
  <2>5. at[t] = {path[t]}
    BY <2>2, <2>3, <2>4
  <2> QED BY <1>9, <2>1, <2>5 DEF t
<1>12. \A k \in 0..n : f[k] \in T[k]
  BY <1>8, <1>10, <1>11, EachStage
<1>13. n \in 0..n /\ i - n = j
  BY <1>8 DEF n
<1>14. at[j] = {path[j]}
  BY <1>9, <1>12, <1>13
<1> QED BY <1>1, <1>14

LEMMA SharedHolds ==
  ASSUME IInv
  PROVE  ClosuresShareVariables
<1>1. DOMAIN locals = 1..Len(locals) /\ Len(locals) \in Nat
  BY StateFacts
<1>2. ASSUME NEW i \in DOMAIN locals, NEW n \in DOMAIN scopes[locals[i]].mp
      PROVE  LET e == scopes[locals[i]].mp[n]
                 b == bindings[e.binding]
                 chain == Chain(i, e.slot)
             IN  \E j \in 1..i : /\ locals[j] = b.owner
                                 /\ chain[j] = {b.slot}
                                 /\ Source(locals[j], b.slot) = {}
  <2> DEFINE e == scopes[locals[i]].mp[n]
             b == bindings[e.binding]
             sl == e.slot
             bb == e.binding
  <2>1. i \in Nat
    BY <1>1
  <2>2. AgreesAt(bindings, scopes, locals, env, i)
    BY DEF IInv
  <2>3. Leads(bindings, scopes, locals, i, sl, bb)
    BY <2>2 DEF AgreesAt, EntryOK
  <2> HIDE DEF sl, bb
  <2>4. PICK j \in 1..i, path \in [1..i -> Nat] :
     /\ locals[j] = bindings[bb].owner
     /\ path[i] = sl /\ path[j] = bindings[bb].slot
     /\ Sources(scopes[locals[j]].parent, path[j]) = {}
     /\ \A t \in j + 1..i : Sources(scopes[locals[t]].parent, path[t]) = {path[t - 1]}
    BY <2>3 DEF Leads
  <2>5. Source(locals[j], path[j]) = {} /\ \A t \in j + 1..i : Source(locals[t], path[t]) = {path[t - 1]}
    BY <2>4, SourceDef
  <2>6. Chain(i, path[i])[j] = {path[j]}
    BY <2>1, <2>5, ChainFollows
  <2>7. /\ locals[j] = bindings[bb].owner
        /\ Chain(i, sl)[j] = {bindings[bb].slot}
        /\ Source(locals[j], bindings[bb].slot) = {}
    BY <2>4, <2>5, <2>6
  <2> QED BY <2>7 DEF sl, bb
<1>3. \A b \in DOMAIN bindings : bindings[b].captured <=> b \in inner
  BY DEF IInv
<1> QED BY <1>2, <1>3 DEF ClosuresShareVariables

(* Name resolution is lexical: whatever get_name copies down and unscope   *)
(* puts back, the tables of all open scopes agree with the lexical blocks, *)
(* and resolve_ident finds the innermost variable of the name.             *)
THEOREM Lexical == Spec => []ResolutionIsLexical
<1>1. IInv => ResolutionIsLexical
  BY LexicalHolds
<1> QED BY <1>1, Inductive, PTL

(* The chains of copy_parent lead to the slot of the variable's owner and  *)
(* to nothing else, and a variable's slot holds a shared cell (captured)   *)
(* exactly when a nested def refers to it.                                 *)
THEOREM Shared == Spec => []ClosuresShareVariables
<1>1. IInv => ClosuresShareVariables
  BY SharedHolds
<1> QED BY <1>1, Inductive, PTL
=============================================================================
