-------------------------- MODULE ModuleEnvProofs ---------------------------
(***************************************************************************)
(* Proofs about the variables of a module, for any names, values, frames   *)
(* and trees, and any depth of evaluations in evaluations.                 *)
(*                                                                         *)
(* The table of names only ever grows at its end, until eval_statements    *)
(* cuts it back to the length it had: a snapshot is a prefix of the table, *)
(* the snapshots are nested as the evaluations are, and code that is still *)
(* running below a snapshot resolved its variables within it.              *)
(***************************************************************************)
EXTENDS ModuleEnv, SeqFacts

-----------------------------------------------------------------------------
(***************************************************************************)
(* Tables of names: the i-th name has slot i - 1, and no name is there     *)
(* twice.                                                                  *)
(***************************************************************************)
Cell == Values \union {Unassigned}
Entry == [name : Names, slot : Nat, public : BOOLEAN]

Table(t) == /\ t \in Seq(Entry)
            /\ \A i \in 1..Len(t) : t[i].slot = i - 1
            /\ \A i, j \in 1..Len(t) : t[i].name = t[j].name => i = j

(* u is t with perhaps more names at its end.                              *)
Extends(t, u) == /\ Len(t) <= Len(u)
                 /\ \A i \in 1..Len(t) : u[i].name = t[i].name

LEMMA TableLookup ==
  ASSUME NEW t, Table(t)
  PROVE  /\ Len(t) \in Nat /\ DOMAIN t = 1..Len(t)
         /\ \A i \in 1..Len(t) : /\ t[i] \in Entry /\ t[i].name \in Names
                                 /\ Known(t, t[i].name)
                                 /\ PlaceOf(t, t[i].name) = i
                                 /\ SlotOf(t, t[i].name) = i - 1
         /\ \A n : Known(t, n) => /\ PlaceOf(t, n) \in 1..Len(t)
                                  /\ t[PlaceOf(t, n)].name = n /\ n \in Names
                                  /\ SlotOf(t, n) = PlaceOf(t, n) - 1
                                  /\ SlotOf(t, n) \in Nat /\ SlotOf(t, n) < Len(t)
<1>1. Len(t) \in Nat /\ DOMAIN t = 1..Len(t) /\ \A i \in 1..Len(t) : t[i] \in Entry
  BY DEF Table
<1>2. \A i \in 1..Len(t) : t[i].name \in Names
  BY <1>1 DEF Entry
<1>3. ASSUME NEW n, Known(t, n)
      PROVE  /\ PlaceOf(t, n) \in 1..Len(t)
             /\ t[PlaceOf(t, n)].name = n
  <2>1. \E i \in 1..Len(t) : t[i].name = n
    BY <1>1, <1>3 DEF Known
  <2> QED BY <1>1, <2>1 DEF PlaceOf
<1>4. \A i \in 1..Len(t) : t[i].slot = i - 1
  BY DEF Table
<1>5. ASSUME NEW n, Known(t, n)
      PROVE  /\ n \in Names /\ SlotOf(t, n) = PlaceOf(t, n) - 1
             /\ SlotOf(t, n) \in Nat /\ SlotOf(t, n) < Len(t)
  <2> DEFINE p == PlaceOf(t, n)
  <2>1. p \in 1..Len(t) /\ t[p].name = n
    BY <1>3, <1>5
  <2>2. SlotOf(t, n) = p - 1
    BY <1>4, <2>1 DEF SlotOf
  <2> HIDE DEF p
  <2>3. n \in Names
    BY <1>2, <2>1
  <2>4. p - 1 \in Nat /\ p - 1 < Len(t)
    BY ONLY <1>1, <2>1
  <2> QED BY <2>2, <2>3, <2>4 DEF p
<1>6. ASSUME NEW i \in 1..Len(t)
      PROVE  /\ Known(t, t[i].name) /\ PlaceOf(t, t[i].name) = i
             /\ SlotOf(t, t[i].name) = i - 1
  <2>1. Known(t, t[i].name)
    BY <1>1 DEF Known
  <2>2. PlaceOf(t, t[i].name) \in 1..Len(t) /\ t[PlaceOf(t, t[i].name)].name = t[i].name
    BY <1>3, <2>1
  <2>3. PlaceOf(t, t[i].name) = i
    BY <2>2 DEF Table
  <2> QED BY <1>5, <2>1, <2>3
<1> QED BY <1>1, <1>2, <1>3, <1>5, <1>6

LEMMA ExtendsSlot ==
  ASSUME NEW t, NEW u, Table(t), Table(u), Extends(t, u), NEW n, Known(t, n)
  PROVE  Known(u, n) /\ SlotOf(u, n) = SlotOf(t, n)
<1> DEFINE p == PlaceOf(t, n)
<1>1. p \in 1..Len(t) /\ t[p].name = n /\ SlotOf(t, n) = p - 1
  BY TableLookup
<1>2. Len(t) \in Nat /\ Len(u) \in Nat
  BY TableLookup
<1> HIDE DEF p
<1>3. p \in 1..Len(u) /\ u[p].name = n
  BY <1>1, <1>2 DEF Extends
<1>4. Known(u, u[p].name) /\ SlotOf(u, u[p].name) = p - 1
  BY <1>3, TableLookup
<1> QED BY <1>1, <1>3, <1>4

LEMMA ExtendsReflexive ==
  ASSUME NEW t, Table(t)
  PROVE  Extends(t, t)
BY TableLookup DEF Extends

LEMMA ExtendsTransitive ==
  ASSUME NEW t, NEW u, NEW w, Table(t), Table(u), Table(w), Extends(t, u), Extends(u, w)
  PROVE  Extends(t, w)
<1>1. Len(t) \in Nat /\ Len(u) \in Nat /\ Len(w) \in Nat
  BY TableLookup
<1> QED BY <1>1 DEF Extends

(* Only names of the longer table that are not in the shorter one are at   *)
(* its end.                                                                *)
LEMMA NewSlot ==
  ASSUME NEW t, NEW u, Table(t), Table(u), Extends(t, u), NEW n, Known(u, n), ~Known(t, n)
  PROVE  SlotOf(u, n) >= Len(t)
<1> DEFINE p == PlaceOf(u, n)
<1>1. p \in 1..Len(u) /\ u[p].name = n /\ SlotOf(u, n) = p - 1
  BY TableLookup
<1>2. Len(t) \in Nat /\ Len(u) \in Nat
  BY TableLookup
<1> HIDE DEF p
<1>3. p \notin 1..Len(t)
  <2> SUFFICES ASSUME p \in 1..Len(t) PROVE FALSE
    OBVIOUS
  <2>1. t[p].name = n
    BY <1>1 DEF Extends
  <2>2. Known(t, t[p].name)
    BY TableLookup
  <2> QED BY <2>1, <2>2
<1> QED BY <1>1, <1>2, <1>3

(* add_name_visibility.                                                    *)
LEMMA AddNameFacts ==
  ASSUME NEW t, Table(t), NEW n \in Names, NEW public \in BOOLEAN
  PROVE  LET u == AddNameVisibility(t, n, public)
         IN  /\ Table(u) /\ Extends(t, u) /\ Known(u, n)
             /\ \A m : Known(u, m) => Known(t, m) \/ m = n
<1> DEFINE u == AddNameVisibility(t, n, public)
<1>0. /\ t \in Seq(Entry) /\ Len(t) \in Nat /\ DOMAIN t = 1..Len(t)
      /\ \A i \in 1..Len(t) : t[i] \in Entry /\ t[i].slot = i - 1
      /\ \A i, j \in 1..Len(t) : t[i].name = t[j].name => i = j
  BY TableLookup DEF Table
<1>1. CASE Known(t, n)
  <2> DEFINE p == PlaceOf(t, n)
             e == [t[p] EXCEPT !.public = @ \/ public]
  <2>1. p \in 1..Len(t) /\ t[p].name = n
    BY <1>1, TableLookup
  <2>2. u = [t EXCEPT ![p] = e]
    BY <1>1 DEF AddNameVisibility
  <2>3. e \in Entry /\ e.name = t[p].name /\ e.slot = t[p].slot
    <3>1. t[p] \in Entry
      BY <1>0, <2>1
    <3>2. t[p].public \in BOOLEAN /\ t[p] = [name |-> t[p].name, slot |-> t[p].slot, public |-> t[p].public]
      BY <3>1 DEF Entry
    <3>3. (t[p].public \/ public) \in BOOLEAN
      BY <3>2, Zenon
    <3>4. e = [name |-> t[p].name, slot |-> t[p].slot, public |-> (t[p].public \/ public)]
      BY <3>2
    <3>5. t[p].name \in Names /\ t[p].slot \in Nat
      BY <3>1 DEF Entry
    <3> HIDE DEF e
    <3> QED BY <3>3, <3>4, <3>5 DEF Entry
  <2> HIDE DEF p, e, u
  <2>4. u \in Seq(Entry) /\ Len(u) = Len(t) /\ DOMAIN u = 1..Len(t)
    BY <1>0, <2>1, <2>2, <2>3
  <2>5. \A i \in 1..Len(t) : u[i].name = t[i].name /\ u[i].slot = t[i].slot
    BY <1>0, <2>1, <2>2, <2>3
  <2>6. Table(u)
    BY <1>0, <2>4, <2>5 DEF Table
  <2>7. Extends(t, u)
    BY <1>0, <2>4, <2>5 DEF Extends
  <2>8. \A m : Known(u, m) <=> Known(t, m)
    BY <1>0, <2>4, <2>5 DEF Known
  <2> QED BY <1>1, <2>6, <2>7, <2>8 DEF u
<1>2. CASE ~Known(t, n)
  <2> DEFINE e == [name |-> n, slot |-> Len(t), public |-> public]
  <2>1. e \in Entry /\ e.name = n /\ e.slot = Len(t)
    BY <1>0 DEF Entry
  <2>2. u = Append(t, e)
    BY <1>2 DEF AddNameVisibility
  <2> HIDE DEF e, u
  <2>3. /\ u \in Seq(Entry) /\ Len(u) = Len(t) + 1 /\ DOMAIN u = 1..Len(t) + 1
        /\ u[Len(t) + 1] = e /\ \A i \in 1..Len(t) : u[i] = t[i]
    BY <1>0, <2>1, <2>2
  <2>4. \A i \in 1..Len(t) + 1 : i \in 1..Len(t) \/ i = Len(t) + 1
    BY <1>0
  <2>5. \A i \in 1..Len(t) : t[i].name # n
    BY <1>0, <1>2 DEF Known
  <2>6. \A i \in 1..Len(t) + 1 : u[i].slot = i - 1
    <3> TAKE i \in 1..Len(t) + 1
    <3>1. CASE i \in 1..Len(t)
      BY <1>0, <2>3, <3>1
    <3>2. CASE i = Len(t) + 1
      BY <1>0, <2>1, <2>3, <3>2
    <3> QED BY <2>4, <3>1, <3>2
  <2>7. \A i, j \in 1..Len(t) + 1 : u[i].name = u[j].name => i = j
    <3> SUFFICES ASSUME NEW i \in 1..Len(t) + 1, NEW j \in 1..Len(t) + 1,
                        u[i].name = u[j].name
                 PROVE  i = j
      OBVIOUS
    <3>1. CASE i \in 1..Len(t) /\ j \in 1..Len(t)
      BY <1>0, <2>3, <3>1
    <3>2. CASE i = Len(t) + 1 /\ j \in 1..Len(t)
      BY <2>1, <2>3, <2>5, <3>2
    <3>3. CASE j = Len(t) + 1 /\ i \in 1..Len(t)
      BY <2>1, <2>3, <2>5, <3>3
    <3> QED BY <2>4, <3>1, <3>2, <3>3
  <2>8. Table(u)
    BY <2>3, <2>6, <2>7 DEF Table
  <2>9. Extends(t, u)
    BY <1>0, <2>3 DEF Extends
  <2>10. Known(u, n)
    <3>1. Len(t) + 1 \in DOMAIN u /\ u[Len(t) + 1].name = n
      BY <1>0, <2>1, <2>3
    <3> QED BY <3>1 DEF Known
  <2>11. \A m : Known(u, m) => Known(t, m) \/ m = n
    <3> SUFFICES ASSUME NEW m, NEW i \in DOMAIN u, u[i].name = m PROVE Known(t, m) \/ m = n
      BY DEF Known
    <3>1. CASE i \in 1..Len(t)
      <4>1. t[i].name = m /\ i \in DOMAIN t
        BY <1>0, <2>3, <3>1
      <4> QED BY <4>1 DEF Known
    <3>2. CASE i = Len(t) + 1
      BY <2>1, <2>3, <3>2
    <3> QED BY <2>3, <2>4, <3>1, <3>2
  <2> QED BY <2>8, <2>9, <2>10, <2>11 DEF u
<1> QED BY <1>1, <1>2

-----------------------------------------------------------------------------
(***************************************************************************)
(* Slots, and tables with slots.                                           *)
(***************************************************************************)
LEMMA EnsureFacts ==
  ASSUME NEW s \in Seq(Cell), NEW count \in Nat
  PROVE  LET r == EnsureSlots(s, count)
         IN  /\ r \in Seq(Cell) /\ Len(r) >= count /\ Len(s) <= Len(r)
             /\ \A i \in 1..Len(s) : r[i] = s[i]
             /\ \A i \in 1..Len(r) : i > Len(s) => r[i] = Unassigned
<1>1. Len(s) \in Nat /\ \A i \in 1..Len(s) : s[i] \in Cell
  OBVIOUS
<1>2. CASE Len(s) >= count
  BY <1>1, <1>2 DEF EnsureSlots
<1>3. CASE ~(Len(s) >= count)
  <2> DEFINE m == count - Len(s)
             more == [i \in 1..m |-> Unassigned]
             r == s \o more
  <2>1. m \in Nat
    BY <1>1, <1>3
  <2>2. more \in Seq(Cell) /\ Len(more) = m /\ \A i \in 1..m : more[i] = Unassigned
    <3> HIDE DEF m
    <3> QED BY <2>1 DEF Cell
  <2> HIDE DEF more
  <2>3. r \in Seq(Cell) /\ Len(r) = Len(s) + m
    BY <1>1, <2>1, <2>2
  <2>4. \A i \in 1..Len(s) : r[i] = s[i]
    BY <1>1, <2>1, <2>2
  <2>5. \A i \in 1..Len(r) : i > Len(s) => r[i] = Unassigned
    <3> SUFFICES ASSUME NEW i \in 1..Len(r), i > Len(s) PROVE r[i] = Unassigned
      OBVIOUS
    <3> HIDE DEF m
    <3>1. i - Len(s) \in 1..m /\ i \in 1..Len(s) + m
      BY <1>1, <2>1, <2>3
    <3>2. r[i] = more[i - Len(s)]
      BY <1>1, <2>1, <2>2, <3>1
    <3> QED BY <2>2, <3>1, <3>2
  <2>6. Len(s) + m = count
    BY <1>1
  <2>7. EnsureSlots(s, count) = r
    BY <1>3 DEF EnsureSlots, more
  <2> HIDE DEF r, m
  <2> QED BY <1>1, <2>1, <2>3, <2>4, <2>5, <2>6, <2>7
<1> QED BY <1>2, <1>3

EnvSet == [names : {t \in Seq(Entry) : Table(t)}, slots : Seq(Cell)]

(* Name n has value v.                                                     *)
HasValue(t, s, n, v) ==
    Known(t, n) /\ SlotOf(t, n) < Len(s) /\ s[SlotOf(t, n) + 1] = v

(* From table t with slots s to u with r, no name loses its slot, and the  *)
(* names outside W keep their values.                                      *)
Keeps(t, s, u, r, W) ==
    /\ Table(u) /\ r \in Seq(Cell)
    /\ Extends(t, u) /\ Len(s) <= Len(r)
    /\ \A n \in Names \ W : \A v : HasValue(t, s, n, v) => HasValue(u, r, n, v)

LEMMA EnvFacts ==
  ASSUME NEW t, Table(t), NEW s \in Seq(Cell)
  PROVE  Env(t, s) \in EnvSet /\ Env(t, s).names = t /\ Env(t, s).slots = s
<1>1. t \in Seq(Entry)
  BY DEF Table
<1> QED BY <1>1 DEF Env, EnvSet

LEMMA EnvParts ==
  ASSUME NEW e \in EnvSet
  PROVE  Table(e.names) /\ e.slots \in Seq(Cell)
BY DEF EnvSet

LEMMA KeepsTransitive ==
  ASSUME NEW t, NEW s, NEW u, NEW r, NEW w, NEW q, NEW W,
         Table(t), s \in Seq(Cell), Keeps(t, s, u, r, W), Keeps(u, r, w, q, W)
  PROVE  Keeps(t, s, w, q, W)
<1>1. Len(s) \in Nat /\ Len(r) \in Nat /\ Len(q) \in Nat
  BY DEF Keeps
<1>2. Len(s) <= Len(q)
  BY <1>1 DEF Keeps
<1>3. Extends(t, w)
  BY ExtendsTransitive DEF Keeps
<1> QED BY <1>2, <1>3 DEF Keeps

LEMMA KeepsReflexive ==
  ASSUME NEW t, Table(t), NEW s \in Seq(Cell), NEW W
  PROVE  Keeps(t, s, t, s, W)
<1>1. Len(s) \in Nat
  OBVIOUS
<1> QED BY <1>1, ExtendsReflexive DEF Keeps

(* Growing the table and the slots keeps every value.                      *)
LEMMA KeepsGrown ==
  ASSUME NEW t, Table(t), NEW s \in Seq(Cell), NEW u, Table(u), Extends(t, u),
         NEW r \in Seq(Cell), Len(s) <= Len(r), \A i \in 1..Len(s) : r[i] = s[i], NEW W
  PROVE  Keeps(t, s, u, r, W)
<1> SUFFICES ASSUME NEW n, NEW v, HasValue(t, s, n, v) PROVE HasValue(u, r, n, v)
  BY DEF Keeps
<1> DEFINE k == SlotOf(t, n)
<1>1. Known(t, n) /\ k < Len(s) /\ s[k + 1] = v
  BY DEF HasValue
<1>2. Known(u, n) /\ SlotOf(u, n) = k
  BY <1>1, ExtendsSlot
<1>3. k \in Nat
  BY <1>1, TableLookup
<1>4. Len(s) \in Nat /\ Len(r) \in Nat
  OBVIOUS
<1> HIDE DEF k
<1>5. k + 1 \in 1..Len(s) /\ k < Len(r)
  BY <1>1, <1>3, <1>4
<1>6. r[k + 1] = v
  BY <1>1, <1>5
<1> QED BY <1>2, <1>5, <1>6 DEF HasValue

(* A value written at the slot of a name.                                  *)
LEMMA WriteFacts ==
  ASSUME NEW t, Table(t), NEW s \in Seq(Cell), NEW n, Known(t, n), SlotOf(t, n) < Len(s),
         NEW v \in Cell
  PROVE  LET r == SetSlot(s, SlotOf(t, n), v)
         IN  /\ Keeps(t, s, t, r, {n}) /\ HasValue(t, r, n, v)
             /\ Len(r) = Len(s) /\ r \in Seq(Cell)
             /\ \A i \in 1..Len(s) : i # SlotOf(t, n) + 1 => r[i] = s[i]
<1> DEFINE k == SlotOf(t, n)
           r == SetSlot(s, k, v)
<1>1. k \in Nat /\ k < Len(s) /\ Len(s) \in Nat
  BY TableLookup
<1>2. k + 1 \in 1..Len(s)
  BY ONLY <1>1
<1>3. /\ r \in Seq(Cell) /\ Len(r) = Len(s) /\ r[k + 1] = v
      /\ \A i \in 1..Len(s) : i # k + 1 => r[i] = s[i]
  <2> HIDE DEF k
  <2> QED BY <1>1, <1>2 DEF SetSlot
<1> HIDE DEF r
<1>4. HasValue(t, r, n, v)
  BY <1>1, <1>3 DEF HasValue
<1>5. ASSUME NEW m \in Names \ {n}, NEW w, HasValue(t, s, m, w) PROVE HasValue(t, r, m, w)
  <2> DEFINE l == SlotOf(t, m)
  <2>1. Known(t, m) /\ l < Len(s) /\ s[l + 1] = w
    BY <1>5 DEF HasValue
  <2>2. l \in Nat /\ l = PlaceOf(t, m) - 1 /\ PlaceOf(t, m) \in 1..Len(t) /\ t[PlaceOf(t, m)].name = m
    BY <2>1, TableLookup
  <2>3. k = PlaceOf(t, n) - 1 /\ PlaceOf(t, n) \in 1..Len(t) /\ t[PlaceOf(t, n)].name = n
    BY TableLookup
  <2>4. PlaceOf(t, m) # PlaceOf(t, n)
    BY <1>5, <2>2, <2>3
  <2>5. l # k
    <3>1. \A a, b \in Int : a # b => a - 1 # b - 1
      OBVIOUS
    <3>2. PlaceOf(t, m) \in Int /\ PlaceOf(t, n) \in Int
      BY <2>2, <2>3
    <3> QED BY ONLY <2>2, <2>3, <2>4, <3>1, <3>2
  <2> HIDE DEF k, l
  <2>6. l + 1 \in 1..Len(s) /\ l + 1 # k + 1
    BY ONLY <1>1, <2>1, <2>2, <2>5
  <2>7. r[l + 1] = w
    BY <1>3, <2>1, <2>6
  <2> QED BY <1>3, <2>1, <2>7 DEF HasValue, l
<1>6. Keeps(t, s, t, r, {n})
  BY <1>1, <1>3, <1>5, ExtendsReflexive DEF Keeps
<1> QED BY <1>3, <1>4, <1>6 DEF r

(* Module::set and set_private.                                            *)
LEMMA SetVarFacts ==
  ASSUME NEW e \in EnvSet, NEW n \in Names, NEW v \in Cell, NEW public \in BOOLEAN
  PROVE  LET f == SetVar(e, n, v, public)
         IN  /\ f \in EnvSet
             /\ Keeps(e.names, e.slots, f.names, f.slots, {n})
             /\ HasValue(f.names, f.slots, n, v)
<1> DEFINE t == e.names
           s == e.slots
           u == AddNameVisibility(t, n, public)
           k == SlotOf(u, n)
           q == EnsureSlots(s, k + 1)
           r == SetSlot(q, k, v)
<1>1. Table(t) /\ s \in Seq(Cell) /\ Len(s) \in Nat
  BY EnvParts
<1>2. Table(u) /\ Extends(t, u) /\ Known(u, n)
  <2> HIDE DEF t
  <2> QED BY <1>1, AddNameFacts
<1> HIDE DEF t, s, u
<1>3. k \in Nat /\ k + 1 \in Nat
  BY <1>2, TableLookup
<1>4. q \in Seq(Cell) /\ Len(q) >= k + 1 /\ Len(s) <= Len(q) /\ \A i \in 1..Len(s) : q[i] = s[i]
  <2> HIDE DEF k
  <2> QED BY <1>1, <1>3, EnsureFacts
<1>5. k < Len(q)
  <2>1. Len(q) \in Nat
    BY <1>4
  <2> HIDE DEF k, q
  <2> QED BY <1>3, <1>4, <2>1
<1>6. Keeps(t, s, u, q, {n})
  <2> HIDE DEF k, q
  <2> QED BY <1>1, <1>2, <1>4, KeepsGrown
<1>7. Keeps(u, q, u, r, {n}) /\ HasValue(u, r, n, v) /\ r \in Seq(Cell)
  <2> HIDE DEF q
  <2> QED BY <1>2, <1>4, <1>5, WriteFacts
<1>8. Keeps(t, s, u, r, {n})
  <2> HIDE DEF q, r
  <2> QED BY <1>1, <1>6, <1>7, KeepsTransitive
<1>9. SetVar(e, n, v, public) = Env(u, r)
  BY DEF SetVar, t, s, u
<1> HIDE DEF r
<1>10. Env(u, r) \in EnvSet /\ Env(u, r).names = u /\ Env(u, r).slots = r
  BY <1>2, <1>7, EnvFacts
<1> QED BY <1>7, <1>8, <1>9, <1>10 DEF t, s

(* What SetAll must preserve up to its k-th pair: names not written keep   *)
(* their values, a name that no later pair writes has its value.           *)
Written(pairs) == {pairs[k][1] : k \in 1..Len(pairs)}
AfterPairs(e, pairs, k) ==
    {f \in EnvSet :
        /\ Keeps(e.names, e.slots, f.names, f.slots, Written(pairs))
        /\ \A j \in 1..k :
             (\A l \in j + 1..Len(pairs) : pairs[l][1] # pairs[j][1])
                 => HasValue(f.names, f.slots, pairs[j][1], pairs[j][2])}

LEMMA SetAllFacts ==
  ASSUME NEW e \in EnvSet, NEW pairs \in Seq(Names \X Cell)
  PROVE  SetAll(e, pairs) \in AfterPairs(e, pairs, Len(pairs))
<1> DEFINE n == Len(pairs)
           T == [k \in 0..n |-> AfterPairs(e, pairs, k)]
           G == [k \in 1..n |-> [f \in EnvSet |-> SetVar(f, pairs[k][1], pairs[k][2], TRUE)]]
           Solves(f) == f = [k \in 0..n |-> IF k = 0 THEN e
                                 ELSE SetVar(f[k - 1], pairs[k][1], pairs[k][2], TRUE)]
<1>1. n \in Nat
  OBVIOUS
<1>2. \A k \in 1..n : pairs[k][1] \in Names /\ pairs[k][2] \in Cell
  OBVIOUS
<1>3. e \in T[0]
  <2>1. Keeps(e.names, e.slots, e.names, e.slots, Written(pairs))
    BY EnvParts, KeepsReflexive
  <2> QED BY <1>1, <2>1 DEF AfterPairs
<1>4. ASSUME NEW k \in 1..n, NEW f \in T[k - 1]
      PROVE  SetVar(f, pairs[k][1], pairs[k][2], TRUE) \in T[k]
  <2> DEFINE g == SetVar(f, pairs[k][1], pairs[k][2], TRUE)
             m == pairs[k][1]
             w == pairs[k][2]
  <2>1. k - 1 \in 0..n /\ k \in 0..n
    BY <1>1
  <2>2. f \in AfterPairs(e, pairs, k - 1)
    BY <1>4, <2>1
  <2>3. /\ f \in EnvSet
        /\ Keeps(e.names, e.slots, f.names, f.slots, Written(pairs))
        /\ \A j \in 1..k - 1 :
             (\A l \in j + 1..Len(pairs) : pairs[l][1] # pairs[j][1])
                 => HasValue(f.names, f.slots, pairs[j][1], pairs[j][2])
    BY <2>2 DEF AfterPairs
  <2>4. m \in Names /\ w \in Cell /\ m \in Written(pairs)
    BY <1>2 DEF Written
  <2> HIDE DEF m, w, T
  <2>5. g \in EnvSet /\ Keeps(f.names, f.slots, g.names, g.slots, {m}) /\ HasValue(g.names, g.slots, m, w)
    <3> HIDE DEF n
    <3> QED BY <2>3, <2>4, SetVarFacts DEF m, w
  <2> HIDE DEF g
  <2>6. Keeps(f.names, f.slots, g.names, g.slots, Written(pairs))
    BY <2>4, <2>5 DEF Keeps
  <2>7. Keeps(e.names, e.slots, g.names, g.slots, Written(pairs))
    BY <2>3, <2>6, EnvParts, KeepsTransitive
  <2>8. ASSUME NEW j \in 1..k, \A l \in j + 1..Len(pairs) : pairs[l][1] # pairs[j][1]
        PROVE  HasValue(g.names, g.slots, pairs[j][1], pairs[j][2])
    <3>1. CASE j = k
      BY <2>5, <3>1 DEF m, w
    <3>2. CASE j \in 1..k - 1
      <4>1. HasValue(f.names, f.slots, pairs[j][1], pairs[j][2])
        BY <2>3, <2>8, <3>2
      <4>2. k \in j + 1..Len(pairs) /\ j \in 1..n
        BY <1>1, <3>2
      <4>3. pairs[j][1] # m
        BY <2>8, <4>2 DEF m
      <4>4. pairs[j][1] \in Names \ {m}
        BY <1>2, <4>2, <4>3
      <4> QED BY <2>5, <4>1, <4>4 DEF Keeps
    <3>3. j = k \/ j \in 1..k - 1
      BY <1>1
    <3> QED BY <3>1, <3>2, <3>3
  <2>9. g \in AfterPairs(e, pairs, k)
    BY <2>5, <2>7, <2>8 DEF AfterPairs
  <2> QED BY <2>1, <2>9 DEF T, g
<1>5. \A k \in 0..n : T[k] \subseteq EnvSet
  BY DEF AfterPairs
<1>6. \E f : Solves(f)
  <2>1. PICK f : Iterates(f, n, e, G)
    <3> HIDE DEF n, G
    <3> QED BY <1>1, IterationExists
  <2>2. f[0] = e /\ \A k \in 1..n : f[k] = G[k][f[k - 1]]
    <3> HIDE DEF G
    <3>1. \A k \in 0..n : f[k] = IF k = 0 THEN e ELSE G[k][f[k - 1]]
      BY <2>1 DEF Iterates
    <3>2. 0 \in 0..n /\ \A k \in 1..n : k \in 0..n /\ k # 0
      BY <1>1
    <3> QED BY <3>1, <3>2
  <2>3. \A k \in 1..n : f[k - 1] \in EnvSet => f[k] = SetVar(f[k - 1], pairs[k][1], pairs[k][2], TRUE)
    BY <2>2
  <2>4. \A k \in 1..n : f[k - 1] \in T[k - 1] => f[k] \in T[k]
    <3> SUFFICES ASSUME NEW k \in 1..n, f[k - 1] \in T[k - 1] PROVE f[k] \in T[k]
      OBVIOUS
    <3>1. k - 1 \in 0..n
      BY <1>1
    <3> HIDE DEF T
    <3>2. f[k - 1] \in EnvSet
      BY <1>5, <3>1
    <3> QED BY <1>4, <2>3, <3>2
  <2>5. \A k \in 0..n : f[k] \in T[k]
    <3> HIDE DEF T, n
    <3>1. f[0] \in T[0]
      BY <1>3, <2>2
    <3> QED BY <1>1, <2>4, <3>1, EachStage
  <2>6. \A k \in 0..n : f[k] = IF k = 0 THEN e ELSE SetVar(f[k - 1], pairs[k][1], pairs[k][2], TRUE)
    <3> TAKE k \in 0..n
    <3> HIDE DEF T, G
    <3>1. k # 0 => k \in 1..n /\ k - 1 \in 0..n
      BY <1>1
    <3> QED BY <1>5, <2>2, <2>3, <2>5, <3>1
  <2>7. f = [k \in 0..n |-> f[k]]
    BY <2>1 DEF Iterates
  <2>8. Solves(f)
    <3> HIDE DEF T, G
    <3> QED BY <2>6, <2>7
  <2> QED BY <2>8
<1> DEFINE f == CHOOSE g : Solves(g)
<1>7. Solves(f)
  <2> HIDE DEF Solves
  <2> QED BY <1>6
<1>8. SetAll(e, pairs) = f[n]
  BY DEF SetAll
<1> HIDE DEF f
<1>9. \A k \in 0..n : f[k] = IF k = 0 THEN e ELSE SetVar(f[k - 1], pairs[k][1], pairs[k][2], TRUE)
  BY <1>7
<1> HIDE DEF Solves
<1>10. \A k \in 0..n : f[k] \in T[k]
  <2> HIDE DEF T, G, n
  <2>1. f[0] \in T[0]
    <3>1. 0 \in 0..n
      BY <1>1
    <3> QED BY <1>3, <1>9, <3>1
  <2>2. \A k \in 1..n : f[k - 1] \in T[k - 1] => f[k] \in T[k]
    <3> SUFFICES ASSUME NEW k \in 1..n, f[k - 1] \in T[k - 1] PROVE f[k] \in T[k]
      OBVIOUS
    <3>1. k \in 0..n /\ k # 0
      BY <1>1
    <3>2. f[k] = SetVar(f[k - 1], pairs[k][1], pairs[k][2], TRUE)
      BY <1>9, <3>1
    <3> QED BY <1>4, <3>2
  <2> QED BY <1>1, <2>1, <2>2, EachStage
<1>11. f[n] \in T[n] /\ T[n] = AfterPairs(e, pairs, n)
  <2>1. n \in 0..n
    BY <1>1
  <2> HIDE DEF n
  <2> QED BY <1>10, <2>1
<1> QED BY <1>8, <1>11

(* enter_module: the table after the first k of the names ns.              *)
TableSet == {t \in Seq(Entry) : Table(t)}
AfterNames(t, ns, k) ==
    {u \in TableSet : Extends(t, u) /\ \A j \in 1..k : Known(u, ns[j])}

LEMMA DeclareFacts ==
  ASSUME NEW t, Table(t), NEW assigned \in SUBSET Names, NEW loaded \in SUBSET Names
  PROVE  LET u == Declare(t, assigned, loaded)
         IN  /\ Table(u) /\ Extends(t, u)
             /\ \A m \in assigned \union loaded : Known(u, m)
<1> DEFINE ns == SetToSeq(assigned \union loaded)
           n == Len(ns)
           vis(k) == ns[k] \in Exported(assigned, loaded)
           T == [k \in 0..n |-> AfterNames(t, ns, k)]
           G == [k \in 1..n |-> [u \in TableSet |-> AddNameVisibility(u, ns[k], vis(k))]]
           Solves(f) == f = [k \in 0..n |-> IF k = 0 THEN t
                                 ELSE AddNameVisibility(f[k - 1], ns[k], ns[k] \in Exported(assigned, loaded))]
<1>0. /\ ns \in Seq(assigned \union loaded)
      /\ \A x \in assigned \union loaded : \E k \in 1..Len(ns) : ns[k] = x
  <2>1. IsFiniteSet(assigned \union loaded)
    BY ModuleEnvAssumption, FS_Subset
  <2> QED BY <2>1, Enumeration
<1> HIDE DEF ns
<1>1. n \in Nat
  BY <1>0
<1>2. \A k \in 1..n : ns[k] \in Names /\ vis(k) \in BOOLEAN
  BY <1>0
<1>3. t \in T[0]
  <2>1. t \in TableSet /\ Extends(t, t)
    BY ExtendsReflexive DEF TableSet, Table
  <2> QED BY <1>1, <2>1 DEF AfterNames
<1>4. ASSUME NEW k \in 1..n, NEW u \in T[k - 1]
      PROVE  AddNameVisibility(u, ns[k], vis(k)) \in T[k]
  <2> DEFINE w == AddNameVisibility(u, ns[k], vis(k))
             b == vis(k)
  <2>1. k - 1 \in 0..n /\ k \in 0..n
    BY <1>1
  <2>2. u \in AfterNames(t, ns, k - 1)
    BY <1>4, <2>1
  <2>3. u \in TableSet /\ Extends(t, u) /\ \A j \in 1..k - 1 : Known(u, ns[j])
    BY <2>2 DEF AfterNames
  <2>4. Table(u)
    BY <2>3 DEF TableSet
  <2>5. ns[k] \in Names /\ b \in BOOLEAN
    BY <1>2
  <2> HIDE DEF T
  <2>6. Table(w) /\ Extends(u, w) /\ Known(w, ns[k])
    <3> HIDE DEF b, n
    <3> QED BY <2>4, <2>5, AddNameFacts DEF b
  <2> HIDE DEF w
  <2>7. Extends(t, w)
    BY <2>3, <2>4, <2>6, ExtendsTransitive
  <2>8. \A j \in 1..k : Known(w, ns[j])
    <3> TAKE j \in 1..k
    <3>1. j = k \/ j \in 1..k - 1
      BY <1>1
    <3>2. CASE j \in 1..k - 1
      BY <2>3, <2>4, <2>6, <3>2, ExtendsSlot
    <3> QED BY <2>6, <3>1, <3>2
  <2>9. w \in AfterNames(t, ns, k)
    BY <2>6, <2>7, <2>8 DEF AfterNames, TableSet, Table
  <2> QED BY <2>1, <2>9 DEF T, w
<1>5. \A k \in 0..n : T[k] \subseteq TableSet
  BY DEF AfterNames
<1>6. \E f : Solves(f)
  <2>1. PICK f : Iterates(f, n, t, G)
    <3> HIDE DEF n, G
    <3> QED BY <1>1, IterationExists
  <2>2. f[0] = t /\ \A k \in 1..n : f[k] = G[k][f[k - 1]]
    <3> HIDE DEF G
    <3>1. \A k \in 0..n : f[k] = IF k = 0 THEN t ELSE G[k][f[k - 1]]
      BY <2>1 DEF Iterates
    <3>2. 0 \in 0..n /\ \A k \in 1..n : k \in 0..n /\ k # 0
      BY <1>1
    <3> QED BY <3>1, <3>2
  <2>3. \A k \in 1..n : f[k - 1] \in TableSet => f[k] = AddNameVisibility(f[k - 1], ns[k], vis(k))
    BY <2>2
  <2>4. \A k \in 1..n : f[k - 1] \in T[k - 1] => f[k] \in T[k]
    <3> SUFFICES ASSUME NEW k \in 1..n, f[k - 1] \in T[k - 1] PROVE f[k] \in T[k]
      OBVIOUS
    <3>1. k - 1 \in 0..n
      BY <1>1
    <3> HIDE DEF T
    <3>2. f[k - 1] \in TableSet
      BY <1>5, <3>1
    <3> QED BY <1>4, <2>3, <3>2
  <2>5. \A k \in 0..n : f[k] \in T[k]
    <3> HIDE DEF T, n
    <3>1. f[0] \in T[0]
      BY <1>3, <2>2
    <3> QED BY <1>1, <2>4, <3>1, EachStage
  <2>6. \A k \in 0..n : f[k] = IF k = 0 THEN t ELSE AddNameVisibility(f[k - 1], ns[k], vis(k))
    <3> TAKE k \in 0..n
    <3> HIDE DEF T, G
    <3>1. k # 0 => k \in 1..n /\ k - 1 \in 0..n
      BY <1>1
    <3> QED BY <1>5, <2>2, <2>3, <2>5, <3>1
  <2>7. f = [k \in 0..n |-> f[k]]
    BY <2>1 DEF Iterates
  <2>8. Solves(f)
    <3> HIDE DEF T, G
    <3> QED BY <2>6, <2>7
  <2> QED BY <2>8
<1> DEFINE f == CHOOSE g : Solves(g)
<1>7. Solves(f)
  <2> HIDE DEF Solves
  <2> QED BY <1>6
<1>8. Declare(t, assigned, loaded) = f[n]
  BY DEF Declare, ns
<1> HIDE DEF f
<1>9. \A k \in 0..n : f[k] = IF k = 0 THEN t ELSE AddNameVisibility(f[k - 1], ns[k], vis(k))
  BY <1>7
<1> HIDE DEF Solves
<1>10. \A k \in 0..n : f[k] \in T[k]
  <2> HIDE DEF T, G, n
  <2>1. f[0] \in T[0]
    <3>1. 0 \in 0..n
      BY <1>1
    <3> QED BY <1>3, <1>9, <3>1
  <2>2. \A k \in 1..n : f[k - 1] \in T[k - 1] => f[k] \in T[k]
    <3> SUFFICES ASSUME NEW k \in 1..n, f[k - 1] \in T[k - 1] PROVE f[k] \in T[k]
      OBVIOUS
    <3>1. k \in 0..n /\ k # 0
      BY <1>1
    <3>2. f[k] = AddNameVisibility(f[k - 1], ns[k], vis(k))
      BY <1>9, <3>1
    <3> QED BY <1>4, <3>2
  <2> QED BY <1>1, <2>1, <2>2, EachStage
<1>11. f[n] \in AfterNames(t, ns, n)
  <2>1. n \in 0..n
    BY <1>1
  <2> HIDE DEF n
  <2> QED BY <1>10, <2>1
<1>12. Table(f[n]) /\ Extends(t, f[n]) /\ \A j \in 1..n : Known(f[n], ns[j])
  BY <1>11 DEF AfterNames, TableSet
<1>13. \A m \in assigned \union loaded : Known(f[n], m)
  <2> SUFFICES ASSUME NEW m \in assigned \union loaded PROVE Known(f[n], m)
    OBVIOUS
  <2>1. PICK j \in 1..n : ns[j] = m
    BY <1>0
  <2> QED BY <1>12, <2>1
<1> QED BY <1>8, <1>12, <1>13

-----------------------------------------------------------------------------
(***************************************************************************)
(* The invariant, of a table t, slots s and the stack as of what is in     *)
(* progress.                                                               *)
(***************************************************************************)
Snap == [name : Names, slot : Nat, value : Cell]
SlotMaps == UNION {[S -> Nat] : S \in SUBSET Names}
ModuleSet == [kind : {"module"}, any : SUBSET Names, multi : SUBSET Names,
              todo : SUBSET Names, tainted : SUBSET Names, slot : SlotMaps]
DefSet == [kind : {"def"}, frozen : BOOLEAN, frame : [1..Len(FrameNames) -> Cell]]
DebugSet == [kind : {"debug"}, original : Seq(Snap), inDef : BOOLEAN,
             touched : SUBSET Names]
PanicSet == [kind : {"panic"}]
Act == ModuleSet \union DefSet \union DebugSet \union PanicSet

IsModule(as, i) == as[i].kind = "module"
IsDef(as, i) == as[i].kind = "def"
IsDebug(as, i) == as[i].kind = "debug"
InDef(as, i) == IsDebug(as, i) /\ as[i].inDef

(* A panic ends everything.  eval_statements in a def is called by it, and *)
(* what is evaluated inside eval_statements in a def is in a def too.      *)
Shape(as) ==
    /\ \A i \in 1..Len(as) : as[i].kind = "panic" => Len(as) = 1
    /\ \A i \in 1..Len(as) : InDef(as, i) => i > 1 /\ IsDef(as, i - 1)
    /\ \A i, j \in 1..Len(as) : i < j /\ InDef(as, i) /\ IsDebug(as, j) => InDef(as, j)

(* A snapshot is a prefix of the table, of names that have slots; an inner *)
(* snapshot is no shorter than an outer one.                               *)
Snapshots(t, s, as) ==
    /\ \A j \in 1..Len(as) : IsDebug(as, j) =>
         /\ Len(as[j].original) <= Len(t) /\ Len(as[j].original) <= Len(s)
         /\ \A k \in 1..Len(as[j].original) :
              as[j].original[k].name = t[k].name /\ as[j].original[k].slot = k - 1
    /\ \A i, j \in 1..Len(as) : i < j /\ IsDebug(as, i) /\ IsDebug(as, j)
         => Len(as[i].original) <= Len(as[j].original)

(* A tree's variables are the names with their slots, and these lie within *)
(* every snapshot taken since.                                             *)
Resolved(t, s, as) ==
    \A i \in 1..Len(as) : IsModule(as, i) =>
      /\ as[i].multi \subseteq as[i].any
      /\ as[i].multi \subseteq DOMAIN as[i].slot
      /\ as[i].todo \subseteq DOMAIN as[i].slot
      /\ \A n \in DOMAIN as[i].slot :
           /\ Known(t, n) /\ SlotOf(t, n) = as[i].slot[n] /\ as[i].slot[n] < Len(s)
           /\ \A j \in i + 1..Len(as) : IsDebug(as, j) => as[i].slot[n] < Len(as[j].original)

(* A variable that the tree assigns once, has not assigned yet, and nobody *)
(* else has written, has no value.                                         *)
Unwritten(s, as) ==
    \A i \in 1..Len(as) : IsModule(as, i) =>
      \A n \in as[i].todo : n \notin as[i].any /\ n \notin as[i].tainted
                              => s[as[i].slot[n] + 1] = Unassigned

(* eval_statements spoils that for every tree below it.                    *)
Spoiled(as) ==
    \A i, j \in 1..Len(as) : i < j /\ IsModule(as, i) /\ (IsModule(as, j) \/ IsDebug(as, j))
      => Names \subseteq as[i].tainted

(* A local of the def that called eval_statements that should keep its     *)
(* value: it has one, has its name alone, and nobody wrote that name.      *)
Kept(as, j, i) ==
    /\ as[j - 1].frame[i] # Unassigned
    /\ FrameNames[i] \notin as[j].touched
    /\ \A k \in 1..Len(FrameNames) : FrameNames[k] = FrameNames[i] => k = i

(* Its value is in the module, or in the next snapshot.                    *)
LocalsSeen(t, s, as) ==
    \A j \in 1..Len(as) : InDef(as, j) =>
      \A i \in 1..Len(FrameNames) : Kept(as, j, i) =>
        /\ (\A h \in j + 1..Len(as) : ~IsDebug(as, h))
             => HasValue(t, s, FrameNames[i], as[j - 1].frame[i])
        /\ \A h \in j + 1..Len(as) :
             IsDebug(as, h) /\ (\A g \in j + 1..h - 1 : ~IsDebug(as, g))
               => \E k \in 1..Len(as[h].original) :
                    /\ as[h].original[k].name = FrameNames[i]
                    /\ as[h].original[k].value = as[j - 1].frame[i]

Inv(t, s, as) ==
    /\ Table(t) /\ s \in Seq(Cell) /\ as \in Seq(Act)
    /\ Shape(as)
    /\ Snapshots(t, s, as)
    /\ Resolved(t, s, as)
    /\ Unwritten(s, as)
    /\ Spoiled(as)
    /\ LocalsSeen(t, s, as)

LEMMA ActKinds ==
  ASSUME NEW a \in Act
  PROVE  /\ a.kind \in {"module", "def", "debug", "panic"}
         /\ a.kind = "module" => a \in ModuleSet
         /\ a.kind = "def" => a \in DefSet
         /\ a.kind = "debug" => a \in DebugSet
         /\ a.kind = "panic" => a \in PanicSet
BY DEF Act, ModuleSet, DefSet, DebugSet, PanicSet

LEMMA ActsOf ==
  ASSUME NEW as \in Seq(Act)
  PROVE  /\ Len(as) \in Nat /\ DOMAIN as = 1..Len(as)
         /\ \A i \in 1..Len(as) :
              /\ as[i] \in Act
              /\ as[i].kind \in {"module", "def", "debug", "panic"}
              /\ IsModule(as, i) => as[i] \in ModuleSet
              /\ IsDef(as, i) => as[i] \in DefSet
              /\ IsDebug(as, i) => as[i] \in DebugSet
<1>1. Len(as) \in Nat /\ DOMAIN as = 1..Len(as) /\ \A i \in 1..Len(as) : as[i] \in Act
  BY LenProperties, ElementOfSeq
<1>2. ASSUME NEW i \in 1..Len(as)
      PROVE  /\ as[i].kind \in {"module", "def", "debug", "panic"}
             /\ IsModule(as, i) => as[i] \in ModuleSet
             /\ IsDef(as, i) => as[i] \in DefSet
             /\ IsDebug(as, i) => as[i] \in DebugSet
  <2> DEFINE a == as[i]
  <2>1. a \in Act
    BY <1>1
  <2> HIDE DEF a
  <2>2. /\ a.kind \in {"module", "def", "debug", "panic"}
        /\ a.kind = "module" => a \in ModuleSet
        /\ a.kind = "def" => a \in DefSet
        /\ a.kind = "debug" => a \in DebugSet
    BY <2>1, ActKinds
  <2> QED BY <2>2 DEF a, IsModule, IsDef, IsDebug
<1> QED BY <1>1, <1>2

LEMMA Positions ==
  \A n \in Nat : \A i \in 1..n :
     /\ i \in Nat
     /\ i > 1 => i - 1 \in 1..n /\ i - 1 < n
     /\ \A h \in i + 1..n : h \in 1..n /\ i < h /\ \A g \in i + 1..h - 1 : g \in 1..n
     /\ \A h \in 1..n : i < h => h \in i + 1..n
OBVIOUS

(* bs is as with more names touched and tainted, fewer to do, and perhaps  *)
(* another frame at the top.                                               *)
Alike(as, bs) ==
    /\ Len(bs) = Len(as)
    /\ \A i \in 1..Len(as) :
         /\ bs[i].kind = as[i].kind
         /\ IsModule(as, i) => /\ bs[i].slot = as[i].slot /\ bs[i].any = as[i].any
                               /\ bs[i].multi = as[i].multi
                               /\ bs[i].todo \subseteq as[i].todo
                               /\ as[i].tainted \subseteq bs[i].tainted
         /\ IsDebug(as, i) => /\ bs[i].original = as[i].original /\ bs[i].inDef = as[i].inDef
                              /\ as[i].touched \subseteq bs[i].touched
         /\ IsDef(as, i) /\ i < Len(as) => bs[i].frame = as[i].frame

LEMMA InvAlike ==
  ASSUME NEW t, NEW s, NEW as, Inv(t, s, as), NEW bs \in Seq(Act), Alike(as, bs),
         NEW u, NEW r, NEW W, Keeps(t, s, u, r, W), Unwritten(r, bs),
         \A j \in 1..Len(bs) : IsDebug(bs, j) => W \subseteq bs[j].touched
  PROVE  Inv(u, r, bs)
<1>1. Len(as) \in Nat /\ Len(bs) = Len(as)
  BY ActsOf DEF Inv, Alike
<1>2. \A i \in 1..Len(as) : /\ IsModule(bs, i) <=> IsModule(as, i)
                            /\ IsDef(bs, i) <=> IsDef(as, i)
                            /\ IsDebug(bs, i) <=> IsDebug(as, i)
                            /\ InDef(bs, i) <=> InDef(as, i)
                            /\ bs[i].kind = as[i].kind
  BY DEF Alike, IsModule, IsDef, IsDebug, InDef
<1>3. \A i \in 1..Len(as) : IsDebug(as, i) => /\ bs[i].original = as[i].original
                                              /\ as[i].touched \subseteq bs[i].touched
  BY DEF Alike
<1>4. \A i \in 1..Len(as) : IsModule(as, i) => /\ bs[i].slot = as[i].slot /\ bs[i].any = as[i].any
                               /\ bs[i].multi = as[i].multi
                               /\ bs[i].todo \subseteq as[i].todo
                               /\ as[i].tainted \subseteq bs[i].tainted
  BY DEF Alike
<1>5. Table(t) /\ Table(u) /\ Extends(t, u) /\ s \in Seq(Cell) /\ r \in Seq(Cell) /\ Len(s) <= Len(r)
  BY DEF Inv, Keeps
<1>6. Len(s) \in Nat /\ Len(r) \in Nat /\ Len(t) \in Nat /\ Len(u) \in Nat
  BY <1>5, TableLookup
<1>7. Shape(bs)
  <2>1. \A i \in 1..Len(as) : i > 1 => i - 1 \in 1..Len(as)
    BY ONLY <1>1, Positions
  <2> QED BY <1>1, <1>2, <2>1 DEF Inv, Shape
<1>8. Snapshots(u, r, bs)
  <2>1. ASSUME NEW j \in 1..Len(as), IsDebug(as, j)
        PROVE  /\ Len(as[j].original) <= Len(u) /\ Len(as[j].original) <= Len(r)
               /\ \A k \in 1..Len(as[j].original) :
                    as[j].original[k].name = u[k].name /\ as[j].original[k].slot = k - 1
    <3> DEFINE o == as[j].original
    <3>1. /\ Len(o) <= Len(t) /\ Len(o) <= Len(s)
          /\ \A k \in 1..Len(o) : o[k].name = t[k].name /\ o[k].slot = k - 1
      BY <2>1 DEF Inv, Snapshots
    <3>2. o \in Seq(Snap)
      BY <2>1, ActsOf DEF Inv, DebugSet
    <3> HIDE DEF o
    <3>3. Len(o) \in Nat
      BY <3>2
    <3>4. Len(o) <= Len(u) /\ Len(o) <= Len(r) /\ \A k \in 1..Len(o) : k \in 1..Len(t)
      BY <1>5, <1>6, <3>1, <3>3 DEF Extends
    <3> QED BY <1>5, <3>1, <3>4 DEF o, Extends
  <2>2. \A i, j \in 1..Len(as) : i < j /\ IsDebug(as, i) /\ IsDebug(as, j)
         => Len(as[i].original) <= Len(as[j].original)
    BY DEF Inv, Snapshots
  <2> QED BY <1>1, <1>2, <1>3, <2>1, <2>2 DEF Snapshots
<1>9. Resolved(u, r, bs)
  <2> SUFFICES ASSUME NEW i \in 1..Len(as), IsModule(as, i)
               PROVE  /\ as[i].multi \subseteq as[i].any
                      /\ as[i].multi \subseteq DOMAIN as[i].slot
                      /\ bs[i].todo \subseteq DOMAIN as[i].slot
                      /\ \A n \in DOMAIN as[i].slot :
                           /\ Known(u, n) /\ SlotOf(u, n) = as[i].slot[n] /\ as[i].slot[n] < Len(r)
                           /\ \A j \in i + 1..Len(as) :
                                IsDebug(bs, j) => as[i].slot[n] < Len(bs[j].original)
    <3> SUFFICES ASSUME NEW i \in 1..Len(as), IsModule(bs, i)
                 PROVE  /\ bs[i].multi \subseteq bs[i].any
                        /\ bs[i].multi \subseteq DOMAIN bs[i].slot
                        /\ bs[i].todo \subseteq DOMAIN bs[i].slot
                        /\ \A n \in DOMAIN bs[i].slot :
                             /\ Known(u, n) /\ SlotOf(u, n) = bs[i].slot[n] /\ bs[i].slot[n] < Len(r)
                             /\ \A j \in i + 1..Len(bs) :
                                  IsDebug(bs, j) => bs[i].slot[n] < Len(bs[j].original)
      BY <1>1 DEF Resolved
    <3>1. IsModule(as, i) /\ bs[i].slot = as[i].slot /\ bs[i].any = as[i].any /\ bs[i].multi = as[i].multi
      BY <1>2, <1>4
    <3> QED BY <1>1, <3>1
  <2>1. /\ as[i].multi \subseteq as[i].any
        /\ as[i].multi \subseteq DOMAIN as[i].slot
        /\ as[i].todo \subseteq DOMAIN as[i].slot
        /\ \A n \in DOMAIN as[i].slot :
             /\ Known(t, n) /\ SlotOf(t, n) = as[i].slot[n] /\ as[i].slot[n] < Len(s)
             /\ \A j \in i + 1..Len(as) : IsDebug(as, j) => as[i].slot[n] < Len(as[j].original)
    BY DEF Inv, Resolved
  <2>2. bs[i].todo \subseteq as[i].todo
    BY <1>4
  <2>3. ASSUME NEW n \in DOMAIN as[i].slot
        PROVE  /\ Known(u, n) /\ SlotOf(u, n) = as[i].slot[n] /\ as[i].slot[n] < Len(r)
               /\ \A j \in i + 1..Len(as) :
                    IsDebug(bs, j) => as[i].slot[n] < Len(bs[j].original)
    <3>1. Known(u, n) /\ SlotOf(u, n) = as[i].slot[n]
      <4>1. Known(t, n) /\ SlotOf(t, n) = as[i].slot[n]
        BY <2>1
      <4>2. Known(u, n) /\ SlotOf(u, n) = SlotOf(t, n)
        BY <1>5, <4>1, ExtendsSlot
      <4> QED BY <4>1, <4>2
    <3>2. as[i].slot[n] \in Nat
      <4>1. SlotOf(u, n) \in Nat
        BY <1>5, <3>1, TableLookup
      <4> QED BY <3>1, <4>1
    <3>3. as[i].slot[n] < Len(r)
      <4> DEFINE x == as[i].slot[n]
      <4>1. x < Len(s)
        BY <2>1
      <4>2. x \in Nat
        BY <3>2
      <4> HIDE DEF x
      <4>3. x < Len(r)
        BY <1>5, <1>6, <4>1, <4>2
      <4> QED BY <4>3 DEF x
    <3>4. \A j \in i + 1..Len(as) : j \in 1..Len(as)
      BY <1>1, Positions
    <3> QED BY <1>2, <1>3, <2>1, <3>1, <3>3, <3>4
  <2> QED BY <2>1, <2>2, <2>3
<1>10. Spoiled(bs)
  <2>1. \A i, j \in 1..Len(as) :
          i < j /\ IsModule(as, i) /\ (IsModule(as, j) \/ IsDebug(as, j)) => Names \subseteq as[i].tainted
    BY DEF Inv, Spoiled
  <2> QED BY <1>1, <1>2, <1>4, <2>1 DEF Spoiled
<1>11. LocalsSeen(u, r, bs)
  <2> SUFFICES ASSUME NEW j \in 1..Len(as), InDef(bs, j),
                      NEW i \in 1..Len(FrameNames), Kept(bs, j, i)
               PROVE  /\ (\A h \in j + 1..Len(bs) : ~IsDebug(bs, h))
                           => HasValue(u, r, FrameNames[i], bs[j - 1].frame[i])
                      /\ \A h \in j + 1..Len(bs) :
                           IsDebug(bs, h) /\ (\A g \in j + 1..h - 1 : ~IsDebug(bs, g))
                             => \E k \in 1..Len(bs[h].original) :
                                  /\ bs[h].original[k].name = FrameNames[i]
                                  /\ bs[h].original[k].value = bs[j - 1].frame[i]
    BY <1>1 DEF LocalsSeen
  <2>1. InDef(as, j) /\ IsDebug(as, j)
    BY <1>2 DEF InDef
  <2>2. j > 1 /\ IsDef(as, j - 1) /\ j - 1 \in 1..Len(as) /\ j - 1 < Len(as)
    <3>1. j > 1 /\ IsDef(as, j - 1)
      BY <2>1 DEF Inv, Shape
    <3> QED BY <1>1, <3>1, Positions
  <2>3. bs[j - 1].frame = as[j - 1].frame
    BY <2>2 DEF Alike
  <2>4. Kept(as, j, i)
    BY <1>3, <2>1, <2>3 DEF Kept
  <2>5. FrameNames[i] \in Names \ W
    <3>1. FrameNames[i] \in Names
      BY ModuleEnvAssumption
    <3>2. W \subseteq bs[j].touched
      BY <1>1, <1>2, <2>1
    <3> QED BY <3>1, <3>2 DEF Kept
  <2>6. \A h \in j + 1..Len(as) : h \in 1..Len(as) /\ \A g \in j + 1..h - 1 : g \in 1..Len(as)
    BY <1>1, Positions
  <2>7. ASSUME \A h \in j + 1..Len(as) : ~IsDebug(as, h)
        PROVE  HasValue(u, r, FrameNames[i], as[j - 1].frame[i])
    <3>1. HasValue(t, s, FrameNames[i], as[j - 1].frame[i])
      BY <2>1, <2>4, <2>7 DEF Inv, LocalsSeen
    <3> QED BY <2>5, <3>1 DEF Keeps
  <2>8. ASSUME NEW h \in j + 1..Len(as), IsDebug(as, h), \A g \in j + 1..h - 1 : ~IsDebug(as, g)
        PROVE  \E k \in 1..Len(as[h].original) :
                  /\ as[h].original[k].name = FrameNames[i]
                  /\ as[h].original[k].value = as[j - 1].frame[i]
    BY <2>1, <2>4, <2>8 DEF Inv, LocalsSeen
  <2>9. (\A h \in j + 1..Len(bs) : ~IsDebug(bs, h)) => HasValue(u, r, FrameNames[i], bs[j - 1].frame[i])
    BY <1>1, <1>2, <2>3, <2>6, <2>7
  <2>10. ASSUME NEW h \in j + 1..Len(bs), IsDebug(bs, h), \A g \in j + 1..h - 1 : ~IsDebug(bs, g)
         PROVE  \E k \in 1..Len(bs[h].original) :
                  /\ bs[h].original[k].name = FrameNames[i]
                  /\ bs[h].original[k].value = bs[j - 1].frame[i]
    <3>1. h \in j + 1..Len(as) /\ IsDebug(as, h) /\ h \in 1..Len(as)
      BY <1>1, <1>2, <2>6, <2>10
    <3>2. \A g \in j + 1..h - 1 : ~IsDebug(as, g)
      BY <1>2, <2>6, <2>10, <3>1
    <3>3. bs[h].original = as[h].original
      BY <1>3, <3>1
    <3> QED BY <2>3, <2>8, <3>1, <3>2, <3>3
  <2> QED BY <2>9, <2>10
<1> QED BY <1>5, <1>7, <1>8, <1>9, <1>10, <1>11 DEF Inv

-----------------------------------------------------------------------------
(***************************************************************************)
(* Pushing and popping.                                                    *)
(***************************************************************************)
Live(as) == \A i \in 1..Len(as) : as[i].kind # "panic"
AllSpoiled(as) == \A i \in 1..Len(as) : IsModule(as, i) => Names \subseteq as[i].tainted

(* bs is as with a on top.                                                 *)
Pushes(as, bs, a) ==
    /\ bs \in Seq(Act) /\ Len(bs) = Len(as) + 1 /\ bs[Len(as) + 1] = a
    /\ \A i \in 1..Len(as) : bs[i] = as[i]

LEMMA PushFacts ==
  ASSUME NEW as \in Seq(Act), NEW a \in Act, NEW bs, Pushes(as, bs, a)
  PROVE  /\ Len(as) \in Nat /\ Len(bs) = Len(as) + 1
         /\ \A i \in 1..Len(bs) : i \in 1..Len(as) \/ i = Len(as) + 1
         /\ \A i \in 1..Len(as) : i \in 1..Len(bs) /\ i < Len(as) + 1
         /\ \A i \in 1..Len(as) : /\ bs[i] = as[i]
                                  /\ IsModule(bs, i) <=> IsModule(as, i)
                                  /\ IsDef(bs, i) <=> IsDef(as, i)
                                  /\ IsDebug(bs, i) <=> IsDebug(as, i)
                                  /\ InDef(bs, i) <=> InDef(as, i)
         /\ \A i \in 1..Len(as) : \A h \in i + 1..Len(bs) :
              h \in i + 1..Len(as) \/ h = Len(as) + 1
         /\ \A i \in 1..Len(as) : \A h \in i + 1..Len(as) : h \in i + 1..Len(bs) /\ h \in 1..Len(as)
         /\ \A i \in 1..Len(as) : Len(as) + 1 \in i + 1..Len(bs)
         /\ Len(as) + 1 \in 1..Len(bs) /\ bs[Len(as) + 1] = a
<1>1. Len(as) \in Nat /\ Len(bs) = Len(as) + 1 /\ bs[Len(as) + 1] = a
  BY LenProperties DEF Pushes
<1>2. \A n \in Nat : /\ \A i \in 1..n + 1 : i \in 1..n \/ i = n + 1
                     /\ \A i \in 1..n : i \in 1..n + 1 /\ i < n + 1
                     /\ \A i \in 1..n : \A h \in i + 1..n + 1 : h \in i + 1..n \/ h = n + 1
                     /\ \A i \in 1..n : \A h \in i + 1..n : h \in i + 1..n + 1 /\ h \in 1..n
                     /\ \A i \in 1..n : n + 1 \in i + 1..n + 1
                     /\ n + 1 \in 1..n + 1
  OBVIOUS
<1>3. \A i \in 1..Len(as) : bs[i] = as[i]
  BY DEF Pushes
<1> HIDE DEF Pushes
<1>4. \A i \in 1..Len(as) : /\ IsModule(bs, i) <=> IsModule(as, i)
                            /\ IsDef(bs, i) <=> IsDef(as, i)
                            /\ IsDebug(bs, i) <=> IsDebug(as, i)
                            /\ InDef(bs, i) <=> InDef(as, i)
  BY <1>3 DEF IsModule, IsDef, IsDebug, InDef
<1> QED BY ONLY <1>1, <1>2, <1>3, <1>4

(* What a push preserves when it is not of eval_statements, for the        *)
(* elements below.                                                         *)
LEMMA PushBelow ==
  ASSUME NEW t, NEW s, NEW as, Inv(t, s, as), Live(as),
         NEW a \in Act, a.kind \in {"module", "def"}, NEW bs, Pushes(as, bs, a)
  PROVE  /\ Shape(bs) /\ Snapshots(t, s, bs) /\ LocalsSeen(t, s, bs)
<1> DEFINE n == Len(as)
           m == n + 1
<1>1. as \in Seq(Act)
  BY DEF Inv
<1>a. /\ n \in Nat /\ Len(bs) = m
      /\ \A i \in 1..m : i \in 1..n \/ i = m
      /\ \A i \in 1..n : i \in 1..m /\ i < m
      /\ \A i \in 1..n : /\ bs[i] = as[i]
                         /\ IsModule(bs, i) <=> IsModule(as, i)
                         /\ IsDef(bs, i) <=> IsDef(as, i)
                         /\ IsDebug(bs, i) <=> IsDebug(as, i)
                         /\ InDef(bs, i) <=> InDef(as, i)
      /\ \A i \in 1..n : \A h \in i + 1..m : h \in i + 1..n \/ h = m
      /\ \A i \in 1..n : \A h \in i + 1..n : h \in i + 1..m /\ h \in 1..n
      /\ bs[m] = a
  BY <1>1, PushFacts
<1>2. ~IsDebug(bs, m) /\ ~InDef(bs, m) /\ bs[m].kind # "panic"
  BY <1>a DEF IsDebug, InDef
<1>3. \A i \in 1..m : IsDebug(bs, i) => i \in 1..n
  BY <1>a, <1>2
<1>4. \A i \in 1..m : InDef(bs, i) => i \in 1..n
  BY <1>a, <1>2
<1> HIDE DEF m, n
<1>5. Shape(bs)
  <2>1. \A i \in 1..n : InDef(as, i) => i > 1 /\ IsDef(as, i - 1) /\ i - 1 \in 1..n
    BY <1>a, Positions DEF Inv, Shape, n
  <2>2. \A i \in 1..m : InDef(bs, i) => i > 1 /\ IsDef(bs, i - 1)
    BY <1>a, <1>4, <2>1
  <2>3. \A i, j \in 1..m : i < j /\ InDef(bs, i) /\ IsDebug(bs, j) => InDef(bs, j)
    BY <1>a, <1>3, <1>4 DEF Inv, Shape, n
  <2>4. \A i \in 1..m : bs[i].kind # "panic"
    BY <1>a, <1>2 DEF Live, n
  <2> QED BY <1>a, <2>2, <2>3, <2>4 DEF Shape
<1>6. Snapshots(t, s, bs)
  <2>1. \A j \in 1..m : IsDebug(bs, j) => j \in 1..n /\ IsDebug(as, j) /\ bs[j] = as[j]
    BY <1>a, <1>3
  <2>2. \A j \in 1..n : IsDebug(as, j) =>
          /\ Len(as[j].original) <= Len(t) /\ Len(as[j].original) <= Len(s)
          /\ \A k \in 1..Len(as[j].original) :
               as[j].original[k].name = t[k].name /\ as[j].original[k].slot = k - 1
    BY DEF Inv, Snapshots, n
  <2>3. \A i, j \in 1..n : i < j /\ IsDebug(as, i) /\ IsDebug(as, j)
          => Len(as[i].original) <= Len(as[j].original)
    BY DEF Inv, Snapshots, n
  <2>4. ASSUME NEW j \in 1..m, IsDebug(bs, j)
        PROVE  /\ Len(bs[j].original) <= Len(t) /\ Len(bs[j].original) <= Len(s)
               /\ \A k \in 1..Len(bs[j].original) :
                    bs[j].original[k].name = t[k].name /\ bs[j].original[k].slot = k - 1
    <3>1. j \in 1..n /\ IsDebug(as, j) /\ bs[j] = as[j]
      BY <2>1, <2>4
    <3> QED BY ONLY <2>2, <3>1
  <2>5. \A i, j \in 1..m : i < j /\ IsDebug(bs, i) /\ IsDebug(bs, j)
          => Len(bs[i].original) <= Len(bs[j].original)
    BY <2>1, <2>3
  <2> QED BY <1>a, <2>4, <2>5 DEF Snapshots
<1>7. LocalsSeen(t, s, bs)
  <2> SUFFICES ASSUME NEW j \in 1..m, InDef(bs, j), NEW i \in 1..Len(FrameNames), Kept(bs, j, i)
               PROVE  /\ (\A h \in j + 1..m : ~IsDebug(bs, h))
                           => HasValue(t, s, FrameNames[i], bs[j - 1].frame[i])
                      /\ \A h \in j + 1..m :
                           IsDebug(bs, h) /\ (\A g \in j + 1..h - 1 : ~IsDebug(bs, g))
                             => \E k \in 1..Len(bs[h].original) :
                                  /\ bs[h].original[k].name = FrameNames[i]
                                  /\ bs[h].original[k].value = bs[j - 1].frame[i]
    BY <1>a DEF LocalsSeen
  <2>1. j \in 1..n /\ InDef(as, j)
    BY <1>a, <1>4
  <2>2. j > 1
    BY <2>1 DEF Inv, Shape, n
  <2>3. bs[j] = as[j] /\ bs[j - 1] = as[j - 1]
    <3>1. j - 1 \in 1..n
      BY <1>a, <2>1, <2>2, Positions
    <3> QED BY <1>a, <2>1, <3>1
  <2>4. Kept(as, j, i)
    BY <2>3 DEF Kept
  <2>5. /\ (\A h \in j + 1..n : ~IsDebug(as, h))
             => HasValue(t, s, FrameNames[i], as[j - 1].frame[i])
        /\ \A h \in j + 1..n :
             IsDebug(as, h) /\ (\A g \in j + 1..h - 1 : ~IsDebug(as, g))
               => \E k \in 1..Len(as[h].original) :
                    /\ as[h].original[k].name = FrameNames[i]
                    /\ as[h].original[k].value = as[j - 1].frame[i]
    BY <2>1, <2>4 DEF Inv, LocalsSeen, n
  <2>6. ASSUME \A h \in j + 1..m : ~IsDebug(bs, h)
        PROVE  HasValue(t, s, FrameNames[i], bs[j - 1].frame[i])
    <3>1. \A h \in j + 1..n : ~IsDebug(as, h)
      BY <1>a, <2>1, <2>6
    <3> QED BY <2>3, <2>5, <3>1
  <2>7. ASSUME NEW h \in j + 1..m, IsDebug(bs, h), \A g \in j + 1..h - 1 : ~IsDebug(bs, g)
        PROVE  \E k \in 1..Len(bs[h].original) :
                  /\ bs[h].original[k].name = FrameNames[i]
                  /\ bs[h].original[k].value = bs[j - 1].frame[i]
    <3>1. h \in j + 1..n /\ h \in 1..n
      BY <1>a, <1>2, <2>1, <2>7
    <3>2. bs[h] = as[h] /\ IsDebug(as, h)
      BY <1>a, <2>7, <3>1
    <3>3. \A g \in j + 1..h - 1 : g \in 1..n
      BY <1>a, <2>1, <3>1, Positions
    <3>4. \A g \in j + 1..h - 1 : ~IsDebug(as, g)
      BY <1>a, <2>7, <3>3
    <3> QED BY <2>3, <2>5, <3>1, <3>2, <3>4
  <2> QED BY <2>6, <2>7
<1> QED BY <1>5, <1>6, <1>7

LEMMA PushDef ==
  ASSUME NEW t, NEW s, NEW as, Inv(t, s, as), Live(as),
         NEW a \in DefSet, NEW bs, Pushes(as, bs, a)
  PROVE  Inv(t, s, bs)
<1> DEFINE n == Len(as)
           m == n + 1
<1>1. as \in Seq(Act) /\ a \in Act /\ a.kind = "def"
  BY DEF Inv, Act, DefSet
<1>2. Shape(bs) /\ Snapshots(t, s, bs) /\ LocalsSeen(t, s, bs)
  BY <1>1, PushBelow
<1>a. /\ n \in Nat /\ Len(bs) = m
      /\ \A i \in 1..m : i \in 1..n \/ i = m
      /\ \A i \in 1..n : /\ bs[i] = as[i]
                         /\ IsModule(bs, i) <=> IsModule(as, i)
                         /\ IsDebug(bs, i) <=> IsDebug(as, i)
      /\ \A i \in 1..n : \A h \in i + 1..m : h \in i + 1..n \/ h = m
      /\ \A i \in 1..n : \A h \in i + 1..n : h \in 1..n
      /\ bs[m] = a
  BY <1>1, PushFacts
<1>3. ~IsDebug(bs, m) /\ ~IsModule(bs, m)
  BY <1>a, <1>1 DEF IsDebug, IsModule
<1>4. \A i \in 1..m : IsModule(bs, i) => i \in 1..n /\ IsModule(as, i) /\ bs[i] = as[i]
  BY <1>a, <1>3
<1>5. \A i \in 1..m : IsDebug(bs, i) => i \in 1..n /\ IsDebug(as, i) /\ bs[i] = as[i]
  BY <1>a, <1>3
<1> HIDE DEF n, m
<1>6. Resolved(t, s, bs)
  <2>1. \A i \in 1..n : \A h \in i + 1..m : IsDebug(bs, h) => h \in i + 1..n /\ IsDebug(as, h) /\ bs[h] = as[h]
    BY <1>a, <1>3
  <2> SUFFICES ASSUME NEW i \in 1..m, IsModule(bs, i)
               PROVE  /\ bs[i].multi \subseteq bs[i].any
                      /\ bs[i].multi \subseteq DOMAIN bs[i].slot
                      /\ bs[i].todo \subseteq DOMAIN bs[i].slot
                      /\ \A l \in DOMAIN bs[i].slot :
                           /\ Known(t, l) /\ SlotOf(t, l) = bs[i].slot[l] /\ bs[i].slot[l] < Len(s)
                           /\ \A j \in i + 1..m : IsDebug(bs, j) => bs[i].slot[l] < Len(bs[j].original)
    BY <1>a DEF Resolved
  <2>2. i \in 1..n /\ IsModule(as, i) /\ bs[i] = as[i]
    BY <1>4
  <2> QED BY <2>1, <2>2 DEF Inv, Resolved, n
<1>7. Unwritten(s, bs)
  BY <1>a, <1>4 DEF Inv, Unwritten, n
<1>8. Spoiled(bs)
  BY <1>a, <1>4, <1>5 DEF Inv, Spoiled, n
<1> QED BY <1>2, <1>6, <1>7, <1>8 DEF Inv, Pushes

(* A module act whose variables are resolved and not yet written.          *)
Prepared(t, s, a) ==
    /\ a.multi \subseteq a.any /\ a.multi \subseteq DOMAIN a.slot /\ a.todo \subseteq DOMAIN a.slot
    /\ \A n \in DOMAIN a.slot : Known(t, n) /\ SlotOf(t, n) = a.slot[n] /\ a.slot[n] < Len(s)
    /\ \A n \in a.todo : n \notin a.any /\ n \notin a.tainted => s[a.slot[n] + 1] = Unassigned

LEMMA PushModule ==
  ASSUME NEW t, NEW s, NEW as, Inv(t, s, as), Live(as), AllSpoiled(as),
         NEW a \in ModuleSet, Prepared(t, s, a), NEW bs, Pushes(as, bs, a)
  PROVE  Inv(t, s, bs)
<1> DEFINE n == Len(as)
           m == n + 1
<1>1. as \in Seq(Act) /\ a \in Act /\ a.kind = "module"
  BY DEF Inv, Act, ModuleSet
<1>2. Shape(bs) /\ Snapshots(t, s, bs) /\ LocalsSeen(t, s, bs)
  BY <1>1, PushBelow
<1>a. /\ n \in Nat /\ Len(bs) = m
      /\ \A i \in 1..m : i \in 1..n \/ i = m
      /\ \A i \in 1..n : /\ bs[i] = as[i]
                         /\ IsModule(bs, i) <=> IsModule(as, i)
                         /\ IsDebug(bs, i) <=> IsDebug(as, i)
      /\ \A i \in 1..n : \A h \in i + 1..m : h \in i + 1..n \/ h = m
      /\ \A i \in 1..n : \A h \in i + 1..n : h \in 1..n
      /\ bs[m] = a
  BY <1>1, PushFacts
<1>3. ~IsDebug(bs, m)
  BY <1>a, <1>1 DEF IsDebug
<1> HIDE DEF n
<1>b. m \in Nat
  <2>1. n \in Nat
    BY <1>a
  <2> QED BY ONLY <2>1
<1> HIDE DEF m
<1>4. \A h \in m + 1..m : FALSE
  BY ONLY <1>b
<1>5. \A j \in 1..m : ~(m < j)
  BY ONLY <1>b
<1>6. Resolved(t, s, bs)
  <2>1. \A i \in 1..n : \A h \in i + 1..m : IsDebug(bs, h) => h \in i + 1..n /\ IsDebug(as, h) /\ bs[h] = as[h]
    BY <1>a, <1>3
  <2> SUFFICES ASSUME NEW i \in 1..m, IsModule(bs, i)
               PROVE  /\ bs[i].multi \subseteq bs[i].any
                      /\ bs[i].multi \subseteq DOMAIN bs[i].slot
                      /\ bs[i].todo \subseteq DOMAIN bs[i].slot
                      /\ \A l \in DOMAIN bs[i].slot :
                           /\ Known(t, l) /\ SlotOf(t, l) = bs[i].slot[l] /\ bs[i].slot[l] < Len(s)
                           /\ \A j \in i + 1..m : IsDebug(bs, j) => bs[i].slot[l] < Len(bs[j].original)
    BY <1>a DEF Resolved
  <2>2. CASE i = m
    BY <1>a, <1>4, <2>2 DEF Prepared
  <2>3. CASE i \in 1..n
    BY <1>a, <2>1, <2>3 DEF Inv, Resolved, n
  <2> QED BY <1>a, <2>2, <2>3
<1>7. Unwritten(s, bs)
  <2> SUFFICES ASSUME NEW i \in 1..m, IsModule(bs, i), NEW l \in bs[i].todo,
                      l \notin bs[i].any, l \notin bs[i].tainted
               PROVE  s[bs[i].slot[l] + 1] = Unassigned
    BY <1>a DEF Unwritten
  <2>1. CASE i = m
    BY <1>a, <2>1 DEF Prepared
  <2>2. CASE i \in 1..n
    BY <1>a, <2>2 DEF Inv, Unwritten, n
  <2> QED BY <1>a, <2>1, <2>2
<1>8. Spoiled(bs)
  <2> SUFFICES ASSUME NEW i \in 1..m, NEW j \in 1..m, i < j, IsModule(bs, i)
               PROVE  Names \subseteq bs[i].tainted
    BY <1>a DEF Spoiled
  <2>1. i \in 1..n
    BY <1>a, <1>5
  <2> QED BY <1>a, <2>1 DEF AllSpoiled, n
<1> QED BY <1>2, <1>6, <1>7, <1>8 DEF Inv, Pushes

(* The snapshot of table t with slots s.                                   *)
SnapshotOf(t, s, o) ==
    /\ Len(o) = Len(t) /\ Len(t) <= Len(s)
    /\ \A k \in 1..Len(t) : o[k].name = t[k].name /\ o[k].slot = k - 1 /\ o[k].value = s[k]

(* The locals of frame are in the module.                                  *)
LocalsIn(u, r, frame) ==
    \A i \in 1..Len(FrameNames) :
      (/\ frame[i] # Unassigned
       /\ \A k \in 1..Len(FrameNames) : FrameNames[k] = FrameNames[i] => k = i)
      => HasValue(u, r, FrameNames[i], frame[i])

(* eval_statements: the snapshot is of t and s, the locals are in u and r. *)
LEMMA PushDebug ==
  ASSUME NEW t, NEW s, NEW as, Inv(t, s, as), Live(as), AllSpoiled(as), as # <<>>,
         NEW a \in DebugSet, SnapshotOf(t, s, a.original),
         NEW u, NEW r, Table(u), r \in Seq(Cell), Extends(t, u), Len(s) <= Len(r),
         a.inDef => IsDef(as, Len(as)) /\ LocalsIn(u, r, as[Len(as)].frame),
         ~a.inDef => \A i \in 1..Len(as) : ~InDef(as, i),
         NEW bs, Pushes(as, bs, a)
  PROVE  Inv(u, r, bs)
<1> DEFINE n == Len(as)
           m == n + 1
           o == a.original
<1>1. as \in Seq(Act) /\ a \in Act /\ a.kind = "debug" /\ Table(t) /\ s \in Seq(Cell)
  BY DEF Inv, Act, DebugSet
<1>a. /\ n \in Nat /\ Len(bs) = m
      /\ \A i \in 1..m : i \in 1..n \/ i = m
      /\ \A i \in 1..n : i \in 1..m /\ i < m
      /\ \A i \in 1..n : /\ bs[i] = as[i]
                         /\ IsModule(bs, i) <=> IsModule(as, i)
                         /\ IsDef(bs, i) <=> IsDef(as, i)
                         /\ IsDebug(bs, i) <=> IsDebug(as, i)
                         /\ InDef(bs, i) <=> InDef(as, i)
      /\ \A i \in 1..n : \A h \in i + 1..m : h \in i + 1..n \/ h = m
      /\ \A i \in 1..n : \A h \in i + 1..n : h \in i + 1..m /\ h \in 1..n
      /\ \A i \in 1..n : m \in i + 1..m
      /\ bs[m] = a
  BY <1>1, PushFacts
<1>2. IsDebug(bs, m) /\ ~IsModule(bs, m) /\ bs[m].kind # "panic" /\ (InDef(bs, m) <=> a.inDef)
  BY <1>a, <1>1 DEF IsDebug, IsModule, InDef
<1> HIDE DEF n
<1>3. n \in Nat /\ n # 0 /\ n \in 1..n /\ m - 1 = n /\ m \in Nat /\ m > 1
  <2>1. n \in Nat /\ n # 0
    BY <1>1, FrontLast DEF n
  <2> QED BY ONLY <2>1
<1> HIDE DEF m
<1>4. \A h \in m + 1..m : FALSE
  BY ONLY <1>3
<1>5. \A j \in 1..m : ~(m < j)
  BY ONLY <1>3
<1>6. /\ o \in Seq(Snap) /\ Len(o) = Len(t) /\ Len(t) <= Len(s)
      /\ \A k \in 1..Len(t) : o[k].name = t[k].name /\ o[k].slot = k - 1 /\ o[k].value = s[k]
  BY DEF SnapshotOf, DebugSet
<1> HIDE DEF o
<1>7. Len(t) \in Nat /\ Len(u) \in Nat /\ Len(s) \in Nat /\ Len(r) \in Nat
  BY <1>1, TableLookup
<1>8. Len(t) <= Len(u) /\ Len(s) <= Len(r) /\ \A k \in 1..Len(t) : u[k].name = t[k].name
  BY DEF Extends
<1>10. Shape(bs)
  <2>1. \A i \in 1..n : InDef(as, i) => i > 1 /\ IsDef(as, i - 1) /\ i - 1 \in 1..n
    BY <1>3, Positions DEF Inv, Shape, n
  <2>2. ASSUME NEW i \in 1..m, InDef(bs, i) PROVE i > 1 /\ IsDef(bs, i - 1)
    <3>1. CASE i \in 1..n
      BY <1>a, <2>1, <2>2, <3>1
    <3>2. CASE i = m
      <4>1. IsDef(as, n)
        BY <1>2, <2>2, <3>2 DEF n
      <4> QED BY <1>a, <1>3, <3>2, <4>1
    <3> QED BY <1>a, <3>1, <3>2
  <2>3. ASSUME NEW i \in 1..m, NEW j \in 1..m, i < j, InDef(bs, i), IsDebug(bs, j)
        PROVE  InDef(bs, j)
    <3>1. i \in 1..n /\ InDef(as, i)
      BY <1>a, <1>5, <2>3
    <3>2. CASE j = m
      BY <1>2, <3>1, <3>2 DEF n
    <3>3. CASE j \in 1..n
      BY <1>a, <2>3, <3>1, <3>3 DEF Inv, Shape, n
    <3> QED BY <1>a, <3>2, <3>3
  <2>4. \A i \in 1..m : bs[i].kind # "panic"
    BY <1>a, <1>2 DEF Live, n
  <2> QED BY <1>a, <2>2, <2>3, <2>4 DEF Shape
<1>11. Snapshots(u, r, bs)
  <2>1. \A j \in 1..n : IsDebug(as, j) =>
          /\ as[j].original \in Seq(Snap) /\ Len(as[j].original) <= Len(t) /\ Len(as[j].original) <= Len(s)
          /\ \A k \in 1..Len(as[j].original) :
               as[j].original[k].name = t[k].name /\ as[j].original[k].slot = k - 1
    BY <1>1, ActsOf DEF Inv, Snapshots, DebugSet, n
  <2>2. \A i, j \in 1..n : i < j /\ IsDebug(as, i) /\ IsDebug(as, j)
          => Len(as[i].original) <= Len(as[j].original)
    BY DEF Inv, Snapshots, n
  <2>3. ASSUME NEW j \in 1..m, IsDebug(bs, j)
        PROVE  /\ Len(bs[j].original) <= Len(u) /\ Len(bs[j].original) <= Len(r)
               /\ \A k \in 1..Len(bs[j].original) :
                    bs[j].original[k].name = u[k].name /\ bs[j].original[k].slot = k - 1
    <3> DEFINE p == bs[j].original
    <3>1. /\ p \in Seq(Snap) /\ Len(p) <= Len(t) /\ Len(p) <= Len(s)
          /\ \A k \in 1..Len(p) : p[k].name = t[k].name /\ p[k].slot = k - 1
      <4>1. CASE j = m
        <5>1. p = o
          BY <1>a, <4>1 DEF o
        <5> HIDE DEF p
        <5> QED BY <1>6, <1>7, <5>1
      <4>2. CASE j \in 1..n
        <5>1. bs[j] = as[j] /\ IsDebug(as, j)
          BY <1>a, <2>3, <4>2
        <5> QED BY ONLY <2>1, <4>2, <5>1
      <4> QED BY <1>a, <4>1, <4>2
    <3> HIDE DEF p
    <3>2. Len(p) \in Nat
      BY <3>1
    <3>3. Len(p) <= Len(u) /\ Len(p) <= Len(r) /\ \A k \in 1..Len(p) : k \in 1..Len(t)
      BY ONLY <1>7, <1>8, <3>1, <3>2
    <3> QED BY <1>8, <3>1, <3>3 DEF p
  <2>4. ASSUME NEW i \in 1..m, NEW j \in 1..m, i < j, IsDebug(bs, i), IsDebug(bs, j)
        PROVE  Len(bs[i].original) <= Len(bs[j].original)
    <3>1. i \in 1..n /\ IsDebug(as, i) /\ bs[i] = as[i]
      BY <1>a, <1>5, <2>4
    <3>2. CASE j = m
      <4>1. bs[j].original = o
        BY <1>a, <3>2 DEF o
      <4>2. Len(as[i].original) <= Len(t)
        BY <2>1, <3>1
      <4> QED BY <1>6, <3>1, <4>1, <4>2
    <3>3. CASE j \in 1..n
      <4>1. IsDebug(as, j) /\ bs[j] = as[j]
        BY <1>a, <2>4, <3>3
      <4> QED BY <2>2, <2>4, <3>1, <3>3, <4>1
    <3> QED BY <1>a, <3>2, <3>3
  <2> QED BY <1>a, <2>3, <2>4 DEF Snapshots
<1>12. Resolved(u, r, bs)
  <2> SUFFICES ASSUME NEW i \in 1..m, IsModule(bs, i)
               PROVE  /\ bs[i].multi \subseteq bs[i].any
                      /\ bs[i].multi \subseteq DOMAIN bs[i].slot
                      /\ bs[i].todo \subseteq DOMAIN bs[i].slot
                      /\ \A l \in DOMAIN bs[i].slot :
                           /\ Known(u, l) /\ SlotOf(u, l) = bs[i].slot[l] /\ bs[i].slot[l] < Len(r)
                           /\ \A j \in i + 1..m : IsDebug(bs, j) => bs[i].slot[l] < Len(bs[j].original)
    BY <1>a DEF Resolved
  <2>1. i \in 1..n /\ IsModule(as, i) /\ bs[i] = as[i]
    BY <1>a, <1>2
  <2>2. /\ as[i].multi \subseteq as[i].any
        /\ as[i].multi \subseteq DOMAIN as[i].slot
        /\ as[i].todo \subseteq DOMAIN as[i].slot
        /\ \A l \in DOMAIN as[i].slot :
             /\ Known(t, l) /\ SlotOf(t, l) = as[i].slot[l] /\ as[i].slot[l] < Len(s)
             /\ \A j \in i + 1..n : IsDebug(as, j) => as[i].slot[l] < Len(as[j].original)
    BY <2>1 DEF Inv, Resolved, n
  <2>3. ASSUME NEW l \in DOMAIN as[i].slot
        PROVE  /\ Known(u, l) /\ SlotOf(u, l) = as[i].slot[l] /\ as[i].slot[l] < Len(r)
               /\ \A j \in i + 1..m : IsDebug(bs, j) => as[i].slot[l] < Len(bs[j].original)
    <3> DEFINE x == as[i].slot[l]
    <3>1. Known(t, l) /\ SlotOf(t, l) = x /\ x < Len(s)
      BY <2>2, <2>3
    <3>2. x \in Nat /\ x < Len(t)
      <4>1. SlotOf(t, l) \in Nat /\ SlotOf(t, l) < Len(t)
        BY <1>1, <3>1, TableLookup
      <4> QED BY <3>1, <4>1
    <3>3. Known(u, l) /\ SlotOf(u, l) = SlotOf(t, l)
      BY <1>1, <3>1, ExtendsSlot
    <3>4. \A j \in i + 1..n : IsDebug(as, j) => x < Len(as[j].original)
      BY <2>2, <2>3
    <3> HIDE DEF x
    <3>5. x < Len(r)
      BY ONLY <1>7, <1>8, <3>1, <3>2
    <3>6. ASSUME NEW j \in i + 1..m, IsDebug(bs, j) PROVE x < Len(bs[j].original)
      <4>1. CASE j = m
        <5>1. bs[j].original = o
          BY <1>a, <4>1 DEF o
        <5> QED BY <1>6, <3>2, <5>1
      <4>2. CASE j \in i + 1..n
        <5>1. IsDebug(as, j) /\ bs[j] = as[j]
          BY <1>a, <2>1, <3>6, <4>2
        <5> QED BY <3>4, <4>2, <5>1
      <4> QED BY <1>a, <2>1, <4>1, <4>2
    <3> QED BY <3>1, <3>3, <3>5, <3>6 DEF x
  <2> QED BY <2>1, <2>2, <2>3
<1>13. Unwritten(r, bs)
  <2> SUFFICES ASSUME NEW i \in 1..m, IsModule(bs, i), NEW l \in bs[i].todo, l \notin bs[i].tainted
               PROVE  FALSE
    BY <1>a DEF Unwritten
  <2>1. i \in 1..n /\ IsModule(as, i) /\ bs[i] = as[i]
    BY <1>a, <1>2
  <2>2. as[i].todo \subseteq Names /\ Names \subseteq as[i].tainted
    BY <1>1, <2>1, ActsOf DEF AllSpoiled, ModuleSet, n
  <2> QED BY <2>1, <2>2
<1>14. Spoiled(bs)
  <2> SUFFICES ASSUME NEW i \in 1..m, IsModule(bs, i) PROVE Names \subseteq bs[i].tainted
    BY <1>a DEF Spoiled
  <2>1. i \in 1..n /\ IsModule(as, i) /\ bs[i] = as[i]
    BY <1>a, <1>2
  <2> QED BY <2>1 DEF AllSpoiled, n
<1>15. LocalsSeen(u, r, bs)
  <2> SUFFICES ASSUME NEW j \in 1..m, InDef(bs, j), NEW i \in 1..Len(FrameNames), Kept(bs, j, i)
               PROVE  /\ (\A h \in j + 1..m : ~IsDebug(bs, h))
                           => HasValue(u, r, FrameNames[i], bs[j - 1].frame[i])
                      /\ \A h \in j + 1..m :
                           IsDebug(bs, h) /\ (\A g \in j + 1..h - 1 : ~IsDebug(bs, g))
                             => \E k \in 1..Len(bs[h].original) :
                                  /\ bs[h].original[k].name = FrameNames[i]
                                  /\ bs[h].original[k].value = bs[j - 1].frame[i]
    BY <1>a DEF LocalsSeen
  <2>1. CASE j = m
    <3>1. a.inDef /\ LocalsIn(u, r, as[n].frame)
      BY <1>2, <2>1 DEF n
    <3>2. bs[j - 1] = as[n]
      BY <1>a, <1>3, <2>1
    <3>3. HasValue(u, r, FrameNames[i], bs[j - 1].frame[i])
      BY <3>1, <3>2 DEF LocalsIn, Kept
    <3> QED BY <1>4, <2>1, <3>3
  <2>2. CASE j \in 1..n
    <3>1. InDef(as, j)
      BY <1>a, <2>2
    <3>2. j > 1
      BY <2>2, <3>1 DEF Inv, Shape, n
    <3>3. bs[j] = as[j] /\ bs[j - 1] = as[j - 1]
      <4>1. j - 1 \in 1..n
        BY <1>3, <2>2, <3>2, Positions
      <4> QED BY <1>a, <2>2, <4>1
    <3>4. Kept(as, j, i)
      BY <3>3 DEF Kept
    <3>5. /\ (\A h \in j + 1..n : ~IsDebug(as, h))
               => HasValue(t, s, FrameNames[i], as[j - 1].frame[i])
          /\ \A h \in j + 1..n :
               IsDebug(as, h) /\ (\A g \in j + 1..h - 1 : ~IsDebug(as, g))
                 => \E k \in 1..Len(as[h].original) :
                      /\ as[h].original[k].name = FrameNames[i]
                      /\ as[h].original[k].value = as[j - 1].frame[i]
      BY <2>2, <3>1, <3>4 DEF Inv, LocalsSeen, n
    <3>6. ~(\A h \in j + 1..m : ~IsDebug(bs, h))
      BY <1>a, <1>2, <2>2
    <3>7. ASSUME NEW h \in j + 1..m, IsDebug(bs, h), \A g \in j + 1..h - 1 : ~IsDebug(bs, g)
          PROVE  \E k \in 1..Len(bs[h].original) :
                    /\ bs[h].original[k].name = FrameNames[i]
                    /\ bs[h].original[k].value = bs[j - 1].frame[i]
      <4>1. CASE h \in j + 1..n
        <5>1. h \in 1..n /\ bs[h] = as[h] /\ IsDebug(as, h)
          BY <1>a, <2>2, <3>7, <4>1
        <5>2. \A g \in j + 1..h - 1 : g \in 1..n
          BY <1>3, <2>2, <4>1, Positions
        <5>3. \A g \in j + 1..h - 1 : ~IsDebug(as, g)
          BY <1>a, <3>7, <5>2
        <5> QED BY <3>3, <3>5, <4>1, <5>1, <5>3
      <4>2. CASE h = m
        <5>1. \A g \in j + 1..n : ~IsDebug(as, g)
          BY <1>a, <1>3, <2>2, <3>7, <4>2
        <5> DEFINE nm == FrameNames[i]
                   v == as[j - 1].frame[i]
                   k == PlaceOf(t, nm)
        <5>2. Known(t, nm) /\ s[SlotOf(t, nm) + 1] = v
          BY <3>5, <5>1 DEF HasValue
        <5>3. k \in 1..Len(t) /\ t[k].name = nm /\ SlotOf(t, nm) = k - 1
          BY <1>1, <5>2, TableLookup
        <5> HIDE DEF nm, v, k
        <5>4. s[k] = v
          <6>1. (k - 1) + 1 = k
            BY ONLY <5>3, <1>7
          <6> QED BY <5>2, <5>3, <6>1
        <5>5. k \in 1..Len(o) /\ o[k].name = nm /\ o[k].value = v
          BY <1>6, <5>3, <5>4
        <5>6. bs[h].original = o
          BY <1>a, <4>2 DEF o
        <5> QED BY <3>3, <5>5, <5>6 DEF nm, v
      <4> QED BY <1>a, <2>2, <4>1, <4>2
    <3> QED BY <3>6, <3>7
  <2> QED BY <1>a, <2>1, <2>2
<1> QED BY <1>10, <1>11, <1>12, <1>13, <1>14, <1>15 DEF Inv, Pushes

(* bs is as without its top.                                               *)
Pops(as, bs) ==
    /\ as # <<>> /\ bs \in Seq(Act) /\ Len(bs) = Len(as) - 1
    /\ \A i \in 1..Len(as) - 1 : bs[i] = as[i]

LEMMA PopFacts ==
  ASSUME NEW as \in Seq(Act), NEW bs, Pops(as, bs)
  PROVE  /\ Len(as) \in Nat /\ Len(as) # 0 /\ Len(bs) = Len(as) - 1 /\ Len(bs) \in Nat
         /\ Len(as) \in 1..Len(as)
         /\ \A i \in 1..Len(bs) : /\ i \in 1..Len(as) /\ i < Len(as)
                                  /\ Len(as) \in i + 1..Len(as)
                                  /\ bs[i] = as[i]
                                  /\ IsModule(bs, i) <=> IsModule(as, i)
                                  /\ IsDef(bs, i) <=> IsDef(as, i)
                                  /\ IsDebug(bs, i) <=> IsDebug(as, i)
                                  /\ InDef(bs, i) <=> InDef(as, i)
         /\ \A i \in 1..Len(bs) : \A h \in i + 1..Len(bs) : h \in i + 1..Len(as) /\ h \in 1..Len(bs)
         /\ \A i \in 1..Len(bs) : \A h \in i + 1..Len(as) : h \in i + 1..Len(bs) \/ h = Len(as)
<1>1. Len(as) \in Nat /\ Len(as) # 0 /\ Len(bs) = Len(as) - 1
  BY FrontLast DEF Pops
<1>2. \A n \in Nat : n # 0 =>
        /\ n - 1 \in Nat /\ n \in 1..n
        /\ \A i \in 1..n - 1 : i \in 1..n /\ i < n /\ n \in i + 1..n
        /\ \A i \in 1..n - 1 : \A h \in i + 1..n - 1 : h \in i + 1..n /\ h \in 1..n - 1
        /\ \A i \in 1..n - 1 : \A h \in i + 1..n : h \in i + 1..n - 1 \/ h = n
  OBVIOUS
<1>3. \A i \in 1..Len(bs) : bs[i] = as[i]
  BY <1>1 DEF Pops
<1>4. \A i \in 1..Len(bs) : /\ IsModule(bs, i) <=> IsModule(as, i)
                            /\ IsDef(bs, i) <=> IsDef(as, i)
                            /\ IsDebug(bs, i) <=> IsDebug(as, i)
                            /\ InDef(bs, i) <=> InDef(as, i)
  BY <1>3 DEF IsModule, IsDef, IsDebug, InDef
<1> QED BY ONLY <1>1, <1>2, <1>3, <1>4

(* What holds of the elements below the top, whatever is popped.           *)
LEMMA PopBelow ==
  ASSUME NEW t, NEW s, NEW as, Inv(t, s, as), NEW bs, Pops(as, bs)
  PROVE  Shape(bs) /\ Spoiled(bs)
<1> DEFINE n == Len(as)
           m == Len(bs)
<1>a. /\ n \in Nat /\ m \in Nat /\ n # 0 /\ m = n - 1
      /\ \A i \in 1..m : /\ i \in 1..n /\ bs[i] = as[i]
                         /\ IsModule(bs, i) <=> IsModule(as, i)
                         /\ IsDef(bs, i) <=> IsDef(as, i)
                         /\ IsDebug(bs, i) <=> IsDebug(as, i)
                         /\ InDef(bs, i) <=> InDef(as, i)
  BY PopFacts DEF Inv
<1> HIDE DEF n, m
<1>1. \A i \in 1..m : i > 1 => i - 1 \in 1..m
  BY ONLY <1>a
<1>2. \A i \in 1..m : bs[i].kind # "panic"
  <2> SUFFICES ASSUME NEW i \in 1..m, as[i].kind = "panic" PROVE FALSE
    BY <1>a
  <2>1. n = 1
    BY <1>a DEF Inv, Shape, n
  <2>2. \A k \in 1..0 : FALSE
    OBVIOUS
  <2>3. m = 0
    BY <1>a, <2>1
  <2> QED BY <2>2, <2>3
<1>3. Shape(bs)
  <2>1. \A i \in 1..m : InDef(bs, i) => i > 1 /\ IsDef(bs, i - 1)
    BY <1>a, <1>1 DEF Inv, Shape, n
  <2>2. \A i, j \in 1..m : i < j /\ InDef(bs, i) /\ IsDebug(bs, j) => InDef(bs, j)
    BY <1>a DEF Inv, Shape, n
  <2> QED BY <1>2, <2>1, <2>2 DEF Shape, m
<1>4. Spoiled(bs)
  BY <1>a DEF Inv, Spoiled, n, m
<1> QED BY <1>3, <1>4

(* A return of a def or a module, or of eval_statements at module level.   *)
LEMMA PopPlain ==
  ASSUME NEW t, NEW s, NEW as, Inv(t, s, as), NEW bs, Pops(as, bs), ~InDef(as, Len(as))
  PROVE  Inv(t, s, bs)
<1> DEFINE n == Len(as)
           m == Len(bs)
<1>a. /\ n \in Nat /\ m \in Nat /\ n \in 1..n
      /\ \A i \in 1..m : /\ i \in 1..n /\ i < n /\ n \in i + 1..n /\ bs[i] = as[i]
                         /\ IsModule(bs, i) <=> IsModule(as, i)
                         /\ IsDef(bs, i) <=> IsDef(as, i)
                         /\ IsDebug(bs, i) <=> IsDebug(as, i)
                         /\ InDef(bs, i) <=> InDef(as, i)
      /\ \A i \in 1..m : \A h \in i + 1..m : h \in i + 1..n /\ h \in 1..m
      /\ \A i \in 1..m : \A h \in i + 1..n : h \in i + 1..m \/ h = n
  BY PopFacts DEF Inv
<1>1. Shape(bs) /\ Spoiled(bs)
  BY PopBelow
<1>2. \A i \in 1..m : InDef(as, i) => ~IsDebug(as, n)
  BY <1>a DEF Inv, Shape
<1> HIDE DEF n, m
<1>3. Snapshots(t, s, bs)
  <2>1. \A j \in 1..n : IsDebug(as, j) =>
          /\ Len(as[j].original) <= Len(t) /\ Len(as[j].original) <= Len(s)
          /\ \A k \in 1..Len(as[j].original) :
               as[j].original[k].name = t[k].name /\ as[j].original[k].slot = k - 1
    BY DEF Inv, Snapshots, n
  <2>2. \A i, j \in 1..n : i < j /\ IsDebug(as, i) /\ IsDebug(as, j)
          => Len(as[i].original) <= Len(as[j].original)
    BY DEF Inv, Snapshots, n
  <2>3. ASSUME NEW j \in 1..m, IsDebug(bs, j)
        PROVE  /\ Len(bs[j].original) <= Len(t) /\ Len(bs[j].original) <= Len(s)
               /\ \A k \in 1..Len(bs[j].original) :
                    bs[j].original[k].name = t[k].name /\ bs[j].original[k].slot = k - 1
    <3>1. j \in 1..n /\ IsDebug(as, j) /\ bs[j] = as[j]
      BY <1>a, <2>3
    <3> QED BY ONLY <2>1, <3>1
  <2>4. ASSUME NEW i \in 1..m, NEW j \in 1..m, i < j, IsDebug(bs, i), IsDebug(bs, j)
        PROVE  Len(bs[i].original) <= Len(bs[j].original)
    <3>1. /\ j \in 1..n /\ IsDebug(as, j) /\ bs[j] = as[j]
          /\ i \in 1..n /\ IsDebug(as, i) /\ bs[i] = as[i]
      BY <1>a, <2>4
    <3> QED BY <2>2, <2>4, <3>1
  <2> QED BY <2>3, <2>4 DEF Snapshots, m
<1>4. Resolved(t, s, bs)
  <2> SUFFICES ASSUME NEW i \in 1..m, IsModule(bs, i)
               PROVE  /\ bs[i].multi \subseteq bs[i].any
                      /\ bs[i].multi \subseteq DOMAIN bs[i].slot
                      /\ bs[i].todo \subseteq DOMAIN bs[i].slot
                      /\ \A l \in DOMAIN bs[i].slot :
                           /\ Known(t, l) /\ SlotOf(t, l) = bs[i].slot[l] /\ bs[i].slot[l] < Len(s)
                           /\ \A j \in i + 1..m : IsDebug(bs, j) => bs[i].slot[l] < Len(bs[j].original)
    BY DEF Resolved, m
  <2>1. i \in 1..n /\ IsModule(as, i) /\ bs[i] = as[i]
    BY <1>a
  <2>2. \A j \in i + 1..m : IsDebug(bs, j) => j \in i + 1..n /\ IsDebug(as, j) /\ bs[j] = as[j]
    BY <1>a
  <2> QED BY <2>1, <2>2 DEF Inv, Resolved, n
<1>5. Unwritten(s, bs)
  BY <1>a DEF Inv, Unwritten, n, m
<1>6. LocalsSeen(t, s, bs)
  <2> SUFFICES ASSUME NEW j \in 1..m, InDef(bs, j), NEW i \in 1..Len(FrameNames), Kept(bs, j, i)
               PROVE  /\ (\A h \in j + 1..m : ~IsDebug(bs, h))
                           => HasValue(t, s, FrameNames[i], bs[j - 1].frame[i])
                      /\ \A h \in j + 1..m :
                           IsDebug(bs, h) /\ (\A g \in j + 1..h - 1 : ~IsDebug(bs, g))
                             => \E k \in 1..Len(bs[h].original) :
                                  /\ bs[h].original[k].name = FrameNames[i]
                                  /\ bs[h].original[k].value = bs[j - 1].frame[i]
    BY DEF LocalsSeen, m
  <2>1. j \in 1..n /\ InDef(as, j) /\ ~IsDebug(as, n)
    BY <1>a, <1>2
  <2>2. j > 1
    BY <2>1 DEF Inv, Shape, n
  <2>3. bs[j] = as[j] /\ bs[j - 1] = as[j - 1]
    <3>1. j - 1 \in 1..m
      BY <1>a, <2>2, Positions
    <3> QED BY <1>a, <3>1
  <2>4. Kept(as, j, i)
    BY <2>3 DEF Kept
  <2>5. /\ (\A h \in j + 1..n : ~IsDebug(as, h))
             => HasValue(t, s, FrameNames[i], as[j - 1].frame[i])
        /\ \A h \in j + 1..n :
             IsDebug(as, h) /\ (\A g \in j + 1..h - 1 : ~IsDebug(as, g))
               => \E k \in 1..Len(as[h].original) :
                    /\ as[h].original[k].name = FrameNames[i]
                    /\ as[h].original[k].value = as[j - 1].frame[i]
    BY <2>1, <2>4 DEF Inv, LocalsSeen, n
  <2>6. ASSUME \A h \in j + 1..m : ~IsDebug(bs, h)
        PROVE  HasValue(t, s, FrameNames[i], bs[j - 1].frame[i])
    <3>1. \A h \in j + 1..n : ~IsDebug(as, h)
      BY <1>a, <2>1, <2>6
    <3> QED BY <2>3, <2>5, <3>1
  <2>7. ASSUME NEW h \in j + 1..m, IsDebug(bs, h), \A g \in j + 1..h - 1 : ~IsDebug(bs, g)
        PROVE  \E k \in 1..Len(bs[h].original) :
                  /\ bs[h].original[k].name = FrameNames[i]
                  /\ bs[h].original[k].value = bs[j - 1].frame[i]
    <3>1. h \in j + 1..n /\ h \in 1..m /\ bs[h] = as[h] /\ IsDebug(as, h)
      BY <1>a, <2>7
    <3>2. \A g \in j + 1..h - 1 : g \in 1..m
      BY <1>a, Positions
    <3>3. \A g \in j + 1..h - 1 : ~IsDebug(as, g)
      BY <1>a, <2>7, <3>2
    <3> QED BY <2>3, <2>5, <3>1, <3>3
  <2> QED BY <2>6, <2>7
<1> QED BY <1>1, <1>3, <1>4, <1>5, <1>6 DEF Inv, Pops

(* u and r are t and s put back to the snapshot o.                         *)
CutBack(t, s, o, u, r) ==
    /\ u \in Seq(Entry) /\ Len(u) = Len(o) /\ \A k \in 1..Len(o) : u[k] = t[k]
    /\ r \in Seq(Cell) /\ Len(r) = Len(s)
    /\ \A k \in 1..Len(o) : o[k].value # Unassigned => r[k] = o[k].value

(* eval_statements in a def returns, before the frame is updated.          *)
LEMMA PopDebug ==
  ASSUME NEW t, NEW s, NEW as, Inv(t, s, as), NEW bs, Pops(as, bs), InDef(as, Len(as)),
         NEW u, NEW r, CutBack(t, s, as[Len(as)].original, u, r)
  PROVE  Inv(u, r, bs)
<1> DEFINE n == Len(as)
           m == Len(bs)
           o == as[n].original
<1>a. /\ n \in Nat /\ m \in Nat /\ n \in 1..n /\ m = n - 1
      /\ \A i \in 1..m : /\ i \in 1..n /\ i < n /\ n \in i + 1..n /\ bs[i] = as[i]
                         /\ IsModule(bs, i) <=> IsModule(as, i)
                         /\ IsDef(bs, i) <=> IsDef(as, i)
                         /\ IsDebug(bs, i) <=> IsDebug(as, i)
                         /\ InDef(bs, i) <=> InDef(as, i)
      /\ \A i \in 1..m : \A h \in i + 1..m : h \in i + 1..n /\ h \in 1..m
      /\ \A i \in 1..m : \A h \in i + 1..n : h \in i + 1..m \/ h = n
  BY PopFacts DEF Inv
<1>1. Shape(bs) /\ Spoiled(bs)
  BY PopBelow
<1>2. IsDebug(as, n) /\ Table(t) /\ s \in Seq(Cell) /\ as \in Seq(Act)
  BY DEF InDef, Inv
<1>3. o \in Seq(Snap)
  BY <1>a, <1>2, ActsOf DEF DebugSet
<1>4. /\ Len(o) <= Len(t) /\ Len(o) <= Len(s)
      /\ \A k \in 1..Len(o) : o[k].name = t[k].name
  BY <1>a, <1>2 DEF Inv, Snapshots
<1>5. /\ u \in Seq(Entry) /\ Len(u) = Len(o) /\ \A k \in 1..Len(o) : u[k] = t[k]
      /\ r \in Seq(Cell) /\ Len(r) = Len(s)
      /\ \A k \in 1..Len(o) : o[k].value # Unassigned => r[k] = o[k].value
  BY DEF CutBack
<1> HIDE DEF n, m, o
<1>6. Len(o) \in Nat /\ Len(t) \in Nat /\ Len(s) \in Nat /\ \A k \in 1..Len(o) : k \in 1..Len(t)
  <2>1. Len(o) \in Nat /\ Len(t) \in Nat /\ Len(s) \in Nat
    BY <1>2, <1>3, TableLookup
  <2> QED BY ONLY <1>4, <2>1
<1>7. Table(u)
  BY <1>2, <1>5, <1>6 DEF Table
<1>8. Snapshots(u, r, bs)
  <2>1. \A j \in 1..n : IsDebug(as, j) =>
          /\ as[j].original \in Seq(Snap)
          /\ Len(as[j].original) <= Len(t) /\ Len(as[j].original) <= Len(s)
          /\ \A k \in 1..Len(as[j].original) :
               as[j].original[k].name = t[k].name /\ as[j].original[k].slot = k - 1
    BY <1>2, ActsOf DEF Inv, Snapshots, DebugSet, n
  <2>2. \A i, j \in 1..n : i < j /\ IsDebug(as, i) /\ IsDebug(as, j)
          => Len(as[i].original) <= Len(as[j].original)
    BY DEF Inv, Snapshots, n
  <2>3. ASSUME NEW j \in 1..m, IsDebug(bs, j)
        PROVE  /\ Len(bs[j].original) <= Len(u) /\ Len(bs[j].original) <= Len(r)
               /\ \A k \in 1..Len(bs[j].original) :
                    bs[j].original[k].name = u[k].name /\ bs[j].original[k].slot = k - 1
    <3> DEFINE p == bs[j].original
    <3>1. j \in 1..n /\ j < n /\ IsDebug(as, j) /\ bs[j] = as[j]
      BY <1>a, <2>3
    <3>2. /\ p \in Seq(Snap) /\ Len(p) <= Len(s)
          /\ \A k \in 1..Len(p) : p[k].name = t[k].name /\ p[k].slot = k - 1
      BY ONLY <2>1, <3>1
    <3>3. Len(p) <= Len(o)
      BY <1>a, <1>2, <2>2, <3>1 DEF o
    <3> HIDE DEF p
    <3>4. Len(p) \in Nat
      BY <3>2
    <3>5. \A k \in 1..Len(p) : k \in 1..Len(o)
      BY ONLY <1>6, <3>3, <3>4
    <3> QED BY <1>5, <3>2, <3>3, <3>5 DEF p
  <2>4. ASSUME NEW i \in 1..m, NEW j \in 1..m, i < j, IsDebug(bs, i), IsDebug(bs, j)
        PROVE  Len(bs[i].original) <= Len(bs[j].original)
    <3>1. /\ j \in 1..n /\ IsDebug(as, j) /\ bs[j] = as[j]
          /\ i \in 1..n /\ IsDebug(as, i) /\ bs[i] = as[i]
      BY <1>a, <2>4
    <3> QED BY <2>2, <2>4, <3>1
  <2> QED BY <2>3, <2>4 DEF Snapshots, m
<1>9. Resolved(u, r, bs)
  <2> SUFFICES ASSUME NEW i \in 1..m, IsModule(bs, i)
               PROVE  /\ bs[i].multi \subseteq bs[i].any
                      /\ bs[i].multi \subseteq DOMAIN bs[i].slot
                      /\ bs[i].todo \subseteq DOMAIN bs[i].slot
                      /\ \A l \in DOMAIN bs[i].slot :
                           /\ Known(u, l) /\ SlotOf(u, l) = bs[i].slot[l] /\ bs[i].slot[l] < Len(r)
                           /\ \A j \in i + 1..m : IsDebug(bs, j) => bs[i].slot[l] < Len(bs[j].original)
    BY DEF Resolved, m
  <2>1. i \in 1..n /\ IsModule(as, i) /\ bs[i] = as[i] /\ n \in i + 1..n
    BY <1>a
  <2>2. \A j \in i + 1..m : IsDebug(bs, j) => j \in i + 1..n /\ IsDebug(as, j) /\ bs[j] = as[j]
    BY <1>a
  <2>3. /\ as[i].multi \subseteq as[i].any
        /\ as[i].multi \subseteq DOMAIN as[i].slot
        /\ as[i].todo \subseteq DOMAIN as[i].slot
        /\ \A l \in DOMAIN as[i].slot :
             /\ Known(t, l) /\ SlotOf(t, l) = as[i].slot[l] /\ as[i].slot[l] < Len(s)
             /\ \A j \in i + 1..n : IsDebug(as, j) => as[i].slot[l] < Len(as[j].original)
    BY <2>1 DEF Inv, Resolved, n
  <2>4. ASSUME NEW l \in DOMAIN as[i].slot
        PROVE  Known(u, l) /\ SlotOf(u, l) = as[i].slot[l]
    <3> DEFINE x == as[i].slot[l]
               p == PlaceOf(t, l)
    <3>1. Known(t, l) /\ SlotOf(t, l) = x
      BY <2>3, <2>4
    <3>2. x < Len(o)
      BY <1>2, <2>1, <2>3, <2>4 DEF o
    <3>3. p \in 1..Len(t) /\ t[p].name = l /\ SlotOf(t, l) = p - 1
      BY <1>2, <3>1, TableLookup
    <3> HIDE DEF x, p
    <3>4. p \in 1..Len(o)
      BY ONLY <1>6, <3>1, <3>2, <3>3
    <3>5. p \in 1..Len(u) /\ u[p].name = l
      BY <1>5, <3>3, <3>4
    <3>6. Known(u, u[p].name) /\ SlotOf(u, u[p].name) = p - 1
      BY <1>7, <3>5, TableLookup
    <3> QED BY <3>1, <3>3, <3>5, <3>6 DEF x
  <2> QED BY <1>5, <2>1, <2>2, <2>3, <2>4
<1>10. Unwritten(r, bs)
  <2> SUFFICES ASSUME NEW i \in 1..m, IsModule(bs, i), NEW l \in bs[i].todo, l \notin bs[i].tainted
               PROVE  FALSE
    BY DEF Unwritten, m
  <2>1. i \in 1..n /\ i < n /\ n \in 1..n /\ IsModule(as, i) /\ bs[i] = as[i]
    BY <1>a
  <2>2. Names \subseteq as[i].tainted
    BY <1>2, <2>1 DEF Inv, Spoiled, n
  <2>3. as[i].todo \subseteq Names
    BY <1>2, <2>1, ActsOf DEF ModuleSet, n
  <2> QED BY <2>1, <2>2, <2>3
<1>11. LocalsSeen(u, r, bs)
  <2> SUFFICES ASSUME NEW j \in 1..m, InDef(bs, j), NEW i \in 1..Len(FrameNames), Kept(bs, j, i)
               PROVE  /\ (\A h \in j + 1..m : ~IsDebug(bs, h))
                           => HasValue(u, r, FrameNames[i], bs[j - 1].frame[i])
                      /\ \A h \in j + 1..m :
                           IsDebug(bs, h) /\ (\A g \in j + 1..h - 1 : ~IsDebug(bs, g))
                             => \E k \in 1..Len(bs[h].original) :
                                  /\ bs[h].original[k].name = FrameNames[i]
                                  /\ bs[h].original[k].value = bs[j - 1].frame[i]
    BY DEF LocalsSeen, m
  <2>1. j \in 1..n /\ InDef(as, j) /\ n \in j + 1..n
    BY <1>a
  <2>2. j > 1
    BY <2>1 DEF Inv, Shape, n
  <2>3. bs[j] = as[j] /\ bs[j - 1] = as[j - 1]
    <3>1. j - 1 \in 1..m
      BY <1>a, <2>2, Positions
    <3> QED BY <1>a, <3>1
  <2>4. Kept(as, j, i) /\ as[j - 1].frame[i] # Unassigned
    BY <2>3 DEF Kept
  <2>5. \A h \in j + 1..n :
             IsDebug(as, h) /\ (\A g \in j + 1..h - 1 : ~IsDebug(as, g))
               => \E k \in 1..Len(as[h].original) :
                    /\ as[h].original[k].name = FrameNames[i]
                    /\ as[h].original[k].value = as[j - 1].frame[i]
    BY <2>1, <2>4 DEF Inv, LocalsSeen, n
  <2>6. ASSUME \A h \in j + 1..m : ~IsDebug(bs, h)
        PROVE  HasValue(u, r, FrameNames[i], bs[j - 1].frame[i])
    <3> DEFINE nm == FrameNames[i]
               v == as[j - 1].frame[i]
    <3>1. \A g \in j + 1..n - 1 : ~IsDebug(as, g)
      BY <1>a, <2>6
    <3>2. PICK k \in 1..Len(o) : o[k].name = nm /\ o[k].value = v
      BY <1>2, <2>1, <2>5, <3>1 DEF o
    <3> HIDE DEF nm, v
    <3>3. v # Unassigned
      BY <2>4 DEF v
    <3>4. k \in 1..Len(u) /\ u[k].name = nm /\ r[k] = v
      BY <1>4, <1>5, <1>6, <3>2, <3>3
    <3>5. Known(u, u[k].name) /\ SlotOf(u, u[k].name) = k - 1
      BY <1>7, <3>4, TableLookup
    <3>6. (k - 1) + 1 = k /\ k - 1 < Len(s)
      BY ONLY <1>4, <1>6, k \in 1..Len(o)
    <3>7. HasValue(u, r, nm, v)
      BY <1>5, <3>4, <3>5, <3>6 DEF HasValue
    <3> QED BY <2>3, <3>7 DEF nm, v
  <2>7. ASSUME NEW h \in j + 1..m, IsDebug(bs, h), \A g \in j + 1..h - 1 : ~IsDebug(bs, g)
        PROVE  \E k \in 1..Len(bs[h].original) :
                  /\ bs[h].original[k].name = FrameNames[i]
                  /\ bs[h].original[k].value = bs[j - 1].frame[i]
    <3>1. h \in j + 1..n /\ h \in 1..m /\ bs[h] = as[h] /\ IsDebug(as, h)
      BY <1>a, <2>7
    <3>2. \A g \in j + 1..h - 1 : g \in 1..m
      BY <1>a, Positions
    <3>3. \A g \in j + 1..h - 1 : ~IsDebug(as, g)
      BY <1>a, <2>7, <3>2
    <3> QED BY <2>3, <2>5, <3>1, <3>3
  <2> QED BY <2>6, <2>7
<1> QED BY <1>1, <1>5, <1>7, <1>8, <1>9, <1>10, <1>11 DEF Inv, Pops

-----------------------------------------------------------------------------
(* Removing all but the names of a snapshot leaves the table as it was.    *)
LEMMA AtPrefix ==
  ASSUME NEW S, NEW q \in Seq(S), NEW m \in Nat, m <= Len(q)
  PROVE  /\ At(q, 1..m) \in Seq(S) /\ Len(At(q, 1..m)) = m
         /\ \A i \in 1..m : At(q, 1..m)[i] = q[i]
<1> DEFINE P == 1..m
<1>1. Len(q) \in Nat /\ P \in SUBSET (1..Len(q))
  <2>1. Len(q) \in Nat
    OBVIOUS
  <2> QED BY <2>1
<1>2. Cardinality(P) = m
  BY FS_Interval
<1>3. \A i \in P : {l \in P : l <= i} = 1..i /\ i \in Nat
  OBVIOUS
<1>4. \A i \in P : Rank(P, i) = i
  <2> TAKE i \in P
  <2>1. Cardinality(1..i) = i
    BY <1>3, FS_Interval
  <2> QED BY <1>3, <2>1 DEF Rank
<1> HIDE DEF P
<1>5. /\ At(q, P) \in Seq(S) /\ Len(At(q, P)) = Cardinality(P)
      /\ \A k \in 1..Cardinality(P) : At(q, P)[k] = q[Nth(P, k)]
      /\ \A j \in P : Nth(P, Rank(P, j)) = j
  BY <1>1, AtProperties
<1> QED BY <1>2, <1>4, <1>5 DEF P

-----------------------------------------------------------------------------
(***************************************************************************)
(* What the actions do to the stack.                                       *)
(***************************************************************************)

(* As InvAlike, when the names written are out of every tree's hands.      *)
LEMMA InvKeeps ==
  ASSUME NEW t, NEW s, NEW as, Inv(t, s, as), NEW bs \in Seq(Act), Alike(as, bs),
         NEW u, NEW r, NEW W, Keeps(t, s, u, r, W),
         \A i \in 1..Len(bs) : IsModule(bs, i) =>
            \A n \in bs[i].todo : n \in W => n \in bs[i].tainted,
         \A j \in 1..Len(bs) : IsDebug(bs, j) => W \subseteq bs[j].touched
  PROVE  Inv(u, r, bs)
<1> SUFFICES ASSUME NEW i \in 1..Len(bs), IsModule(bs, i), NEW n \in bs[i].todo,
                    n \notin bs[i].any, n \notin bs[i].tainted
             PROVE  r[bs[i].slot[n] + 1] = Unassigned
  BY InvAlike DEF Unwritten
<1>1. i \in 1..Len(as) /\ as \in Seq(Act)
  BY DEF Alike, Inv
<1>2. /\ IsModule(as, i) /\ bs[i].slot = as[i].slot /\ bs[i].any = as[i].any
      /\ n \in as[i].todo /\ n \notin as[i].tainted /\ n \notin as[i].any
  <2>1. IsModule(as, i)
    BY <1>1 DEF Alike, IsModule
  <2> QED BY <1>1, <2>1 DEF Alike
<1>3. n \in Names
  BY <1>1, <1>2, ActsOf DEF ModuleSet
<1> DEFINE x == as[i].slot[n]
<1>4. s[x + 1] = Unassigned
  BY <1>1, <1>2 DEF Inv, Unwritten
<1>5. Known(t, n) /\ SlotOf(t, n) = x /\ x < Len(s)
  BY <1>1, <1>2 DEF Inv, Resolved
<1>6. HasValue(t, s, n, Unassigned)
  BY <1>4, <1>5 DEF HasValue
<1>7. HasValue(u, r, n, Unassigned)
  BY <1>3, <1>6 DEF Keeps
<1>8. SlotOf(u, n) = SlotOf(t, n)
  <2>1. Table(t) /\ Table(u) /\ Extends(t, u)
    BY DEF Keeps, Inv
  <2>2. Known(t, n)
    BY <1>5
  <2> QED BY <2>1, <2>2, ExtendsSlot
<1> QED BY <1>2, <1>5, <1>7, <1>8 DEF HasValue

LEMMA AlikeTransitive ==
  ASSUME NEW as, NEW bs, NEW cs, Len(as) \in Nat, Alike(as, bs), Alike(bs, cs)
  PROVE  Alike(as, cs)
<1>1. Len(bs) = Len(as) /\ Len(cs) = Len(as)
  BY DEF Alike
<1>2. ASSUME NEW i \in 1..Len(as)
      PROVE  /\ cs[i].kind = as[i].kind
             /\ IsModule(as, i) => /\ cs[i].slot = as[i].slot /\ cs[i].any = as[i].any
                                   /\ cs[i].multi = as[i].multi
                                   /\ cs[i].todo \subseteq as[i].todo
                                   /\ as[i].tainted \subseteq cs[i].tainted
             /\ IsDebug(as, i) => /\ cs[i].original = as[i].original /\ cs[i].inDef = as[i].inDef
                                  /\ as[i].touched \subseteq cs[i].touched
             /\ IsDef(as, i) /\ i < Len(as) => cs[i].frame = as[i].frame
  <2>1. bs[i].kind = as[i].kind /\ cs[i].kind = bs[i].kind
    BY <1>1 DEF Alike
  <2>2. CASE IsModule(as, i)
    <3>1. IsModule(bs, i) /\ ~IsDebug(as, i) /\ ~IsDef(as, i)
      BY <2>1, <2>2 DEF IsModule, IsDebug, IsDef
    <3> QED BY <1>1, <2>1, <2>2, <3>1 DEF Alike
  <2>3. CASE IsDebug(as, i)
    <3>1. IsDebug(bs, i) /\ ~IsModule(as, i) /\ ~IsDef(as, i)
      BY <2>1, <2>3 DEF IsModule, IsDebug, IsDef
    <3> QED BY <1>1, <2>1, <2>3, <3>1 DEF Alike
  <2>4. CASE ~IsModule(as, i) /\ ~IsDebug(as, i)
    <3>1. IsDef(as, i) => IsDef(bs, i)
      BY <2>1 DEF IsDef
    <3> QED BY <1>1, <2>1, <2>4, <3>1 DEF Alike
  <2> QED BY <2>2, <2>3, <2>4
<1> QED BY <1>1, <1>2 DEF Alike

LEMMA AlikeReflexive ==
  ASSUME NEW as
  PROVE  Alike(as, as)
BY DEF Alike

LEMMA TouchFacts ==
  ASSUME acts \in Seq(Act), NEW ns \in SUBSET Names
  PROVE  /\ Touch(ns) \in Seq(Act) /\ Alike(acts, Touch(ns)) /\ Len(Touch(ns)) = Len(acts)
         /\ \A j \in 1..Len(acts) : IsDebug(acts, j) => ns \subseteq Touch(ns)[j].touched
         /\ \A j \in 1..Len(acts) : ~IsDebug(acts, j) => Touch(ns)[j] = acts[j]
<1> DEFINE bs == Touch(ns)
           n == Len(acts)
<1>1. n \in Nat /\ DOMAIN acts = 1..n
  BY ActsOf
<1>2. bs = [i \in 1..n |-> IF acts[i].kind = "debug" THEN [acts[i] EXCEPT !.touched = @ \union ns]
                                                     ELSE acts[i]]
  BY <1>1 DEF Touch
<1>3. ASSUME NEW i \in 1..n, IsDebug(acts, i)
      PROVE  /\ bs[i] \in Act /\ bs[i].kind = acts[i].kind /\ bs[i].original = acts[i].original
             /\ bs[i].inDef = acts[i].inDef /\ bs[i].touched = acts[i].touched \union ns
  <2>1. acts[i] \in DebugSet
    BY <1>3, ActsOf
  <2>2. bs[i] = [acts[i] EXCEPT !.touched = @ \union ns]
    BY <1>2, <1>3 DEF IsDebug
  <2> HIDE DEF bs
  <2>3. /\ bs[i] \in DebugSet /\ bs[i].kind = acts[i].kind /\ bs[i].original = acts[i].original
        /\ bs[i].inDef = acts[i].inDef /\ bs[i].touched = acts[i].touched \union ns
    BY <2>1, <2>2 DEF DebugSet
  <2> QED BY <2>3 DEF Act
<1>4. ASSUME NEW i \in 1..n, ~IsDebug(acts, i)
      PROVE  bs[i] = acts[i] /\ bs[i] \in Act
  <2>1. acts[i] \in Act
    BY ActsOf
  <2> QED BY <1>2, <1>4, <2>1 DEF IsDebug
<1> HIDE DEF n
<1>5. bs \in Seq(Act) /\ Len(bs) = n
  <2>1. bs \in [1..n -> Act]
    <3>1. \A i \in 1..n : bs[i] \in Act
      BY <1>3, <1>4
    <3>2. bs = [i \in 1..n |-> bs[i]]
      BY <1>2
    <3> HIDE DEF bs
    <3> QED BY <3>1, <3>2
  <2> HIDE DEF bs
  <2> QED BY <1>1, <2>1
<1>6. Alike(acts, bs)
  <2> HIDE DEF bs
  <2> SUFFICES ASSUME NEW i \in 1..n
               PROVE  /\ bs[i].kind = acts[i].kind
                      /\ IsModule(acts, i) => /\ bs[i].slot = acts[i].slot /\ bs[i].any = acts[i].any
                                              /\ bs[i].multi = acts[i].multi
                                              /\ bs[i].todo \subseteq acts[i].todo
                                              /\ acts[i].tainted \subseteq bs[i].tainted
                      /\ IsDebug(acts, i) => /\ bs[i].original = acts[i].original /\ bs[i].inDef = acts[i].inDef
                                             /\ acts[i].touched \subseteq bs[i].touched
                      /\ IsDef(acts, i) /\ i < Len(acts) => bs[i].frame = acts[i].frame
    BY <1>5 DEF Alike, n
  <2>1. CASE IsDebug(acts, i)
    <3>1. ~IsModule(acts, i) /\ ~IsDef(acts, i)
      BY <2>1 DEF IsDebug, IsModule, IsDef
    <3> QED BY <1>3, <2>1, <3>1
  <2>2. CASE ~IsDebug(acts, i)
    BY <1>4, <2>2
  <2> QED BY <2>1, <2>2
<1> HIDE DEF bs
<1>7. \A j \in 1..n : IsDebug(acts, j) => ns \subseteq bs[j].touched
  BY <1>3
<1>8. \A j \in 1..n : ~IsDebug(acts, j) => bs[j] = acts[j]
  BY <1>4
<1> QED BY <1>5, <1>6, <1>7, <1>8 DEF bs, n

LEMMA TaintFacts ==
  ASSUME NEW as \in Seq(Act), NEW ns \in SUBSET Names
  PROVE  /\ Tainted(as, ns) \in Seq(Act) /\ Alike(as, Tainted(as, ns))
         /\ Len(Tainted(as, ns)) = Len(as)
         /\ \A i \in 1..Len(as) : IsModule(as, i) => ns \subseteq Tainted(as, ns)[i].tainted
         /\ \A i \in 1..Len(as) : ~IsModule(as, i) => Tainted(as, ns)[i] = as[i]
<1> DEFINE bs == Tainted(as, ns)
           n == Len(as)
<1>1. n \in Nat /\ DOMAIN as = 1..n
  BY ActsOf
<1>2. bs = [i \in 1..n |-> IF as[i].kind = "module" THEN [as[i] EXCEPT !.tainted = @ \union ns]
                                                    ELSE as[i]]
  BY <1>1 DEF Tainted
<1>3. ASSUME NEW i \in 1..n, IsModule(as, i)
      PROVE  /\ bs[i] \in Act /\ bs[i].kind = as[i].kind /\ bs[i].slot = as[i].slot
             /\ bs[i].any = as[i].any /\ bs[i].multi = as[i].multi /\ bs[i].todo = as[i].todo
             /\ bs[i].tainted = as[i].tainted \union ns
  <2>1. as[i] \in ModuleSet
    BY <1>3, ActsOf
  <2>2. bs[i] = [as[i] EXCEPT !.tainted = @ \union ns]
    BY <1>2, <1>3 DEF IsModule
  <2> HIDE DEF bs
  <2>3. /\ bs[i] \in ModuleSet /\ bs[i].kind = as[i].kind /\ bs[i].slot = as[i].slot
        /\ bs[i].any = as[i].any /\ bs[i].multi = as[i].multi /\ bs[i].todo = as[i].todo
        /\ bs[i].tainted = as[i].tainted \union ns
    BY <2>1, <2>2 DEF ModuleSet
  <2> QED BY <2>3 DEF Act
<1>4. ASSUME NEW i \in 1..n, ~IsModule(as, i)
      PROVE  bs[i] = as[i] /\ bs[i] \in Act
  <2>1. as[i] \in Act
    BY ActsOf
  <2> QED BY <1>2, <1>4, <2>1 DEF IsModule
<1> HIDE DEF n
<1>5. bs \in Seq(Act) /\ Len(bs) = n
  <2>1. bs \in [1..n -> Act]
    <3>1. \A i \in 1..n : bs[i] \in Act
      BY <1>3, <1>4
    <3>2. bs = [i \in 1..n |-> bs[i]]
      BY <1>2
    <3> HIDE DEF bs
    <3> QED BY <3>1, <3>2
  <2> HIDE DEF bs
  <2> QED BY <1>1, <2>1
<1>6. Alike(as, bs)
  <2> HIDE DEF bs
  <2> SUFFICES ASSUME NEW i \in 1..n
               PROVE  /\ bs[i].kind = as[i].kind
                      /\ IsModule(as, i) => /\ bs[i].slot = as[i].slot /\ bs[i].any = as[i].any
                                            /\ bs[i].multi = as[i].multi
                                            /\ bs[i].todo \subseteq as[i].todo
                                            /\ as[i].tainted \subseteq bs[i].tainted
                      /\ IsDebug(as, i) => /\ bs[i].original = as[i].original /\ bs[i].inDef = as[i].inDef
                                           /\ as[i].touched \subseteq bs[i].touched
                      /\ IsDef(as, i) /\ i < Len(as) => bs[i].frame = as[i].frame
    BY <1>5 DEF Alike, n
  <2>1. CASE IsModule(as, i)
    <3>1. ~IsDebug(as, i) /\ ~IsDef(as, i)
      BY <2>1 DEF IsDebug, IsModule, IsDef
    <3> QED BY <1>3, <2>1, <3>1
  <2>2. CASE ~IsModule(as, i)
    BY <1>4, <2>2
  <2> QED BY <2>1, <2>2
<1> HIDE DEF bs
<1>7. \A j \in 1..n : IsModule(as, j) => ns \subseteq bs[j].tainted
  BY <1>3
<1>8. \A j \in 1..n : ~IsModule(as, j) => bs[j] = as[j]
  BY <1>4
<1> QED BY <1>5, <1>6, <1>7, <1>8 DEF bs, n

(* The act of a tree that has been declared.                               *)
LEMMA ModuleActFacts ==
  ASSUME NEW t, Table(t), NEW s \in Seq(Cell), NEW tree \in Trees
  PROVE  LET u == Declare(t, tree[1], tree[2])
             r == EnsureSlots(s, Len(u))
             a == ModuleAct(t, s, tree[1], tree[2], tree[3])
         IN  /\ Table(u) /\ Extends(t, u)
             /\ Keeps(t, s, u, r, {})
             /\ a \in ModuleSet /\ Prepared(u, r, a)
<1> DEFINE u == Declare(t, tree[1], tree[2])
           r == EnsureSlots(s, Len(u))
           a == ModuleAct(t, s, tree[1], tree[2], tree[3])
           defined == tree[1] \union tree[2]
           map == [n \in {u[i].name : i \in DOMAIN u} |-> SlotOf(u, n)]
<1>1. tree[1] \in SUBSET Names /\ tree[2] \in SUBSET Names /\ tree[3] \subseteq tree[1]
  BY DEF Trees
<1>2. Table(u) /\ Extends(t, u) /\ \A m \in defined : Known(u, m)
  <2> DEFINE A == tree[1]
             B == tree[2]
  <2>1. A \in SUBSET Names /\ B \in SUBSET Names
    BY <1>1
  <2> HIDE DEF A, B
  <2>2. LET w == Declare(t, A, B)
        IN  Table(w) /\ Extends(t, w) /\ \A m \in A \union B : Known(w, m)
    BY <2>1, DeclareFacts
  <2> QED BY <2>2 DEF A, B
<1>3. /\ a.kind = "module" /\ a.any = AssignedAny(t, tree[1], tree[2], tree[3]) /\ a.multi = tree[3]
      /\ a.todo = defined
      /\ a.tainted = {n \in defined : ~Known(t, n) /\ StaleAt(s, SlotOf(u, n))}
      /\ a.slot = map
      /\ a = [kind |-> "module", any |-> a.any, multi |-> a.multi, todo |-> a.todo,
              tainted |-> a.tainted, slot |-> a.slot]
  BY DEF ModuleAct
<1> HIDE DEF u, a
<1>4. Len(u) \in Nat /\ DOMAIN u = 1..Len(u) /\ Len(s) \in Nat
  BY <1>2, TableLookup
<1>5. /\ r \in Seq(Cell) /\ Len(r) >= Len(u) /\ Len(s) <= Len(r)
      /\ \A i \in 1..Len(s) : r[i] = s[i]
      /\ \A i \in 1..Len(r) : i > Len(s) => r[i] = Unassigned
  BY <1>4, EnsureFacts
<1> HIDE DEF r
<1>6. Keeps(t, s, u, r, {})
  BY <1>2, <1>5, KeepsGrown
<1>7. \A n : n \in DOMAIN map <=> Known(u, n)
  BY DEF Known
<1>8. \A n \in DOMAIN map : map[n] = SlotOf(u, n)
  OBVIOUS
<1>b. map = [n \in DOMAIN map |-> SlotOf(u, n)]
  OBVIOUS
<1>c. a.slot = map
  BY <1>3
<1> HIDE DEF map
<1>9. map \in SlotMaps
  <2>1. \A n \in DOMAIN map : n \in Names /\ SlotOf(u, n) \in Nat
    BY <1>2, <1>7, TableLookup
  <2>2. map \in [DOMAIN map -> Nat] /\ DOMAIN map \in SUBSET Names
    BY <1>b, <2>1
  <2> QED BY <2>2 DEF SlotMaps
<1>10. a.any \in SUBSET Names /\ a.multi \subseteq a.any /\ \A n \in defined : n \notin a.any => ~Known(t, n)
  BY <1>1, <1>3 DEF AssignedAny
<1>11. a \in ModuleSet
  <2>1. /\ a.any \in SUBSET Names /\ a.multi \in SUBSET Names /\ a.todo \in SUBSET Names
        /\ a.tainted \in SUBSET Names /\ a.slot \in SlotMaps
    BY <1>1, <1>3, <1>9, <1>10, <1>c
  <2> QED BY <1>3, <2>1 DEF ModuleSet
<1>12. Prepared(u, r, a)
  <2>1. a.multi \subseteq DOMAIN map /\ a.todo \subseteq DOMAIN map
    BY <1>1, <1>2, <1>3, <1>7
  <2>2. ASSUME NEW n \in DOMAIN map
        PROVE  Known(u, n) /\ SlotOf(u, n) = map[n] /\ map[n] < Len(r) /\ map[n] \in Nat
    <3>1. Known(u, n) /\ map[n] = SlotOf(u, n)
      BY <1>7, <1>8
    <3>2. SlotOf(u, n) \in Nat /\ SlotOf(u, n) < Len(u)
      BY <1>2, <3>1, TableLookup
    <3>3. Len(r) \in Nat
      BY <1>5
    <3>4. SlotOf(u, n) < Len(r)
      BY <1>4, <1>5, <3>2, <3>3
    <3> QED BY <3>1, <3>2, <3>4
  <2>3. ASSUME NEW n \in a.todo, n \notin a.any, n \notin a.tainted
        PROVE  r[map[n] + 1] = Unassigned
    <3> DEFINE x == map[n]
    <3>1. n \in defined /\ ~Known(t, n)
      BY <1>3, <1>10, <2>3
    <3>2. ~StaleAt(s, SlotOf(u, n))
      BY <1>3, <2>3, <3>1
    <3>3. x \in Nat /\ x < Len(r) /\ SlotOf(u, n) = x
      BY <2>1, <2>2, <2>3
    <3> HIDE DEF x
    <3>4. x < Len(s) => s[x + 1] = Unassigned
      BY <3>2, <3>3 DEF StaleAt
    <3>5. Len(r) \in Nat /\ x + 1 \in 1..Len(r) /\ (x < Len(s) => x + 1 \in 1..Len(s))
           /\ (~(x < Len(s)) => x + 1 > Len(s))
      <4>1. Len(r) \in Nat
        BY <1>5
      <4> QED BY ONLY <1>4, <3>3, <4>1
    <3> QED BY <1>5, <3>4, <3>5 DEF x
  <2> QED BY <1>10, <1>c, <2>1, <2>2, <2>3 DEF Prepared
<1> QED BY <1>2, <1>6, <1>11, <1>12 DEF u, r, a

(* The locals of the def, as pairs of a name and a value.                  *)
LEMMA LocalPairsFacts ==
  ASSUME Inv(names, slots, acts)
  PROVE  /\ LocalPairs \in Seq(Names \X Cell)
         /\ \A k \in 1..Len(LocalPairs) : LocalPairs[k][1] \in Range(FrameNames)
<1> DEFINE L == LocalPairs
           frame == acts[Len(acts)].frame
           P == {i \in 1..Len(FrameNames) : frame[i] # Unassigned}
           base == [i \in 1..Len(FrameNames) |-> <<FrameNames[i], frame[i]>>]
<1>0. Table(names) /\ slots \in Seq(Cell) /\ acts \in Seq(Act)
  BY DEF Inv
<1>1. FrameNames \in Seq(Names) /\ Len(FrameNames) \in Nat /\ DOMAIN FrameNames = 1..Len(FrameNames)
  BY ModuleEnvAssumption
<1>2. PausedInDef => frame \in [1..Len(FrameNames) -> Cell] /\ Last(acts) = acts[Len(acts)]
  <2> SUFFICES ASSUME PausedInDef
               PROVE  frame \in [1..Len(FrameNames) -> Cell] /\ Last(acts) = acts[Len(acts)]
    OBVIOUS
  <2>1. acts # <<>> /\ Last(acts).kind = "def"
    BY DEF PausedInDef
  <2>2. Last(acts) = acts[Len(acts)] /\ Last(acts) \in Act
    BY <1>0, <2>1, FrontLast
  <2>3. Last(acts) \in DefSet
    BY <2>1, <2>2, ActKinds
  <2> QED BY <2>2, <2>3 DEF DefSet
<1>4. P \in SUBSET (1..Len(FrameNames))
  OBVIOUS
<1>5. PausedInDef => L = At(base, P)
  <2> SUFFICES ASSUME PausedInDef PROVE L = At(base, P)
    OBVIOUS
  <2>1. Last(acts) = acts[Len(acts)]
    BY <1>2
  <2> QED BY <1>1, <2>1 DEF LocalPairs
<1>6. PausedInDef => base \in Seq(Names \X Cell) /\ Len(base) = Len(FrameNames)
  <2> SUFFICES ASSUME PausedInDef PROVE base \in Seq(Names \X Cell) /\ Len(base) = Len(FrameNames)
    OBVIOUS
  <2>1. \A i \in 1..Len(FrameNames) : <<FrameNames[i], frame[i]>> \in Names \X Cell
    <3> TAKE i \in 1..Len(FrameNames)
    <3>1. FrameNames[i] \in Names /\ frame[i] \in Cell
      BY <1>1, <1>2
    <3> QED BY <3>1
  <2>2. base \in [1..Len(FrameNames) -> Names \X Cell]
    BY <2>1
  <2> HIDE DEF base
  <2> QED BY <1>1, <2>2
<1>7. \A i \in 1..Len(FrameNames) : base[i] = <<FrameNames[i], frame[i]>>
  OBVIOUS
<1>8. ~PausedInDef => L = <<>>
  BY DEF LocalPairs
<1> HIDE DEF L, base, P, frame
<1>9. /\ L \in Seq(Names \X Cell)
      /\ \A k \in 1..Len(L) : L[k][1] \in Range(FrameNames)
  <2>1. CASE PausedInDef
    <3>1. P \in SUBSET (1..Len(base))
      BY <1>4, <1>6, <2>1
    <3>2. /\ At(base, P) \in Seq(Names \X Cell) /\ Len(At(base, P)) = Cardinality(P)
          /\ \A k \in 1..Cardinality(P) : Nth(P, k) \in P /\ At(base, P)[k] = base[Nth(P, k)]
      BY <1>6, <2>1, <3>1, AtProperties
    <3>3. ASSUME NEW k \in 1..Len(L) PROVE L[k][1] \in Range(FrameNames)
      <4>1. Nth(P, k) \in 1..Len(FrameNames) /\ L[k] = base[Nth(P, k)]
        BY <1>4, <1>5, <2>1, <3>2, <3>3
      <4>2. L[k] = <<FrameNames[Nth(P, k)], frame[Nth(P, k)]>>
        BY <1>7, <4>1
      <4>3. FrameNames[Nth(P, k)] \in Range(FrameNames)
        BY <1>1, <4>1 DEF Range
      <4> QED BY <4>2, <4>3
    <3> QED BY <1>5, <2>1, <3>2, <3>3
  <2>2. CASE ~PausedInDef
    BY <1>8, <2>2
  <2> QED BY <2>1, <2>2
<1> QED BY <1>9 DEF L

(* What the early error return of eval_statements leaves in the module.    *)
LEMMA PushedLocalsFacts ==
  ASSUME Inv(names, slots, acts)
  PROVE  Keeps(names, slots, PushedLocals.names, PushedLocals.slots, Range(FrameNames))
<1> DEFINE pairs == LocalPairs
           e == Env(names, slots)
<1>1. Table(names) /\ slots \in Seq(Cell)
  BY DEF Inv
<1>2. pairs \in Seq(Names \X Cell) /\ \A k \in 1..Len(pairs) : pairs[k][1] \in Range(FrameNames)
  BY LocalPairsFacts
<1>3. e \in EnvSet /\ e.names = names /\ e.slots = slots
  BY <1>1, EnvFacts
<1>4. PushedLocals = SetAll(e, pairs)
  BY DEF PushedLocals
<1> HIDE DEF pairs, e
<1>5. Written(pairs) \subseteq Range(FrameNames)
  BY <1>2 DEF Written
<1>6. PushedLocals \in AfterPairs(e, pairs, Len(pairs))
  BY <1>2, <1>3, <1>4, SetAllFacts
<1>7. Keeps(names, slots, PushedLocals.names, PushedLocals.slots, Written(pairs))
  BY <1>3, <1>6 DEF AfterPairs
<1> QED BY <1>5, <1>7 DEF Keeps

(* What eval_statements pushes: the locals of the def, in the end.         *)
PushedNames == Range(FrameNames) \union FrozenSymbols
LEMMA PushedFacts ==
  ASSUME Inv(names, slots, acts)
  PROVE  /\ Table(Pushed.names) /\ Pushed.slots \in Seq(Cell)
         /\ Keeps(names, slots, Pushed.names, Pushed.slots, PushedNames)
         /\ PausedInDef => LocalsIn(Pushed.names, Pushed.slots, acts[Len(acts)].frame)
<1> DEFINE F == FrozenPairs
           L == LocalPairs
           pairs == F \o L
           e == Env(names, slots)
           frame == acts[Len(acts)].frame
           P == {i \in 1..Len(FrameNames) : frame[i] # Unassigned}
           base == [i \in 1..Len(FrameNames) |-> <<FrameNames[i], frame[i]>>]
<1>0. Table(names) /\ slots \in Seq(Cell) /\ acts \in Seq(Act)
  BY DEF Inv
<1>1. FrameNames \in Seq(Names) /\ Len(FrameNames) \in Nat /\ DOMAIN FrameNames = 1..Len(FrameNames)
  BY ModuleEnvAssumption
<1>2. PausedInDef => frame \in [1..Len(FrameNames) -> Cell] /\ Last(acts) = acts[Len(acts)]
  <2> SUFFICES ASSUME PausedInDef
               PROVE  frame \in [1..Len(FrameNames) -> Cell] /\ Last(acts) = acts[Len(acts)]
    OBVIOUS
  <2>1. acts # <<>> /\ Last(acts).kind = "def"
    BY DEF PausedInDef
  <2>2. Last(acts) = acts[Len(acts)] /\ Last(acts) \in Act
    BY <1>0, <2>1, FrontLast
  <2>3. Last(acts) \in DefSet
    BY <2>1, <2>2, ActKinds
  <2> QED BY <2>2, <2>3 DEF DefSet
<1>3. F \in Seq(Names \X Cell) /\ \A k \in 1..Len(F) : F[k][1] \in FrozenSymbols
  <2>1. CASE PausedInDef /\ Last(acts).frozen
    <3> DEFINE ns == SetToSeq(FrozenSymbols)
    <3>1. ns \in Seq(FrozenSymbols)
      <4>1. IsFiniteSet(FrozenSymbols)
        BY ModuleEnvAssumption, FS_Subset
      <4> QED BY <4>1, Enumeration
    <3>2. F = [i \in DOMAIN ns |-> <<ns[i], FrozenValue>>]
      BY <2>1 DEF FrozenPairs
    <3> HIDE DEF ns
    <3>3. Len(ns) \in Nat /\ DOMAIN ns = 1..Len(ns) /\ \A i \in 1..Len(ns) : ns[i] \in FrozenSymbols
      BY <3>1
    <3>4. \A i \in 1..Len(ns) : <<ns[i], FrozenValue>> \in Names \X Cell
      BY <3>3, ModuleEnvAssumption DEF Cell
    <3> HIDE DEF F
    <3>5. F \in [1..Len(ns) -> Names \X Cell]
      BY <3>2, <3>3, <3>4
    <3>6. F \in Seq(Names \X Cell) /\ Len(F) = Len(ns)
      BY <3>3, <3>5
    <3> QED BY <3>2, <3>3, <3>6
  <2>2. CASE ~(PausedInDef /\ Last(acts).frozen)
    <3>1. F = <<>>
      BY <2>2 DEF FrozenPairs
    <3> HIDE DEF F
    <3> QED BY <3>1
  <2> QED BY <2>1, <2>2
<1>4. P \in SUBSET (1..Len(FrameNames))
  OBVIOUS
<1>5. PausedInDef => L = At(base, P)
  <2> SUFFICES ASSUME PausedInDef PROVE L = At(base, P)
    OBVIOUS
  <2>1. Last(acts) = acts[Len(acts)]
    BY <1>2
  <2> QED BY <1>1, <2>1 DEF LocalPairs
<1>6. PausedInDef => base \in Seq(Names \X Cell) /\ Len(base) = Len(FrameNames)
  <2> SUFFICES ASSUME PausedInDef PROVE base \in Seq(Names \X Cell) /\ Len(base) = Len(FrameNames)
    OBVIOUS
  <2>1. \A i \in 1..Len(FrameNames) : <<FrameNames[i], frame[i]>> \in Names \X Cell
    <3> TAKE i \in 1..Len(FrameNames)
    <3>1. FrameNames[i] \in Names /\ frame[i] \in Cell
      BY <1>1, <1>2
    <3> QED BY <3>1
  <2>2. base \in [1..Len(FrameNames) -> Names \X Cell]
    BY <2>1
  <2> HIDE DEF base
  <2> QED BY <1>1, <2>2
<1>7. \A i \in 1..Len(FrameNames) : base[i] = <<FrameNames[i], frame[i]>>
  OBVIOUS
<1>8. ~PausedInDef => L = <<>>
  BY DEF LocalPairs
<1> HIDE DEF L, F, base, P, frame
<1>9. /\ L \in Seq(Names \X Cell)
      /\ \A k \in 1..Len(L) : L[k][1] \in Range(FrameNames)
  BY LocalPairsFacts DEF L
<1>10. /\ pairs \in Seq(Names \X Cell) /\ Len(pairs) = Len(F) + Len(L)
       /\ \A k \in 1..Len(F) : pairs[k] = F[k]
       /\ \A k \in 1..Len(L) : pairs[Len(F) + k] = L[k]
       /\ \A k \in 1..Len(pairs) : k \in 1..Len(F) \/ k - Len(F) \in 1..Len(L)
       /\ Len(F) \in Nat /\ Len(L) \in Nat
       /\ \A k \in 1..Len(pairs) : k \in Nat /\ k = Len(F) + (k - Len(F))
  <2>1. Len(F) \in Nat /\ Len(L) \in Nat
    BY <1>3, <1>9
  <2>2. pairs \in Seq(Names \X Cell) /\ Len(pairs) = Len(F) + Len(L)
    BY <1>3, <1>9
  <2>3. \A k \in 1..Len(F) : pairs[k] = F[k]
    BY <1>3, <1>9
  <2>4. \A k \in 1..Len(L) : pairs[Len(F) + k] = L[k]
    BY <1>3, <1>9
  <2>5. \A k \in 1..Len(F) + Len(L) : k \in 1..Len(F) \/ k - Len(F) \in 1..Len(L)
    BY ONLY <2>1
  <2>6. \A k \in 1..Len(F) + Len(L) : k \in Nat /\ k = Len(F) + (k - Len(F))
    BY ONLY <2>1
  <2> QED BY <2>1, <2>2, <2>3, <2>4, <2>5, <2>6
<1> HIDE DEF pairs
<1>11. Written(pairs) \subseteq PushedNames
  <2> SUFFICES ASSUME NEW k \in 1..Len(pairs) PROVE pairs[k][1] \in PushedNames
    BY DEF Written
  <2>1. CASE k \in 1..Len(F)
    BY <1>3, <1>10, <2>1 DEF PushedNames
  <2>2. CASE k - Len(F) \in 1..Len(L)
    <3> DEFINE x == k - Len(F)
    <3>1. x \in 1..Len(L) /\ k = Len(F) + x
      BY <1>10, <2>2
    <3> HIDE DEF x
    <3>2. pairs[k] = L[x]
      BY <1>10, <3>1
    <3> QED BY <1>9, <3>1, <3>2 DEF PushedNames
  <2> QED BY <1>10, <2>1, <2>2
<1>12. e \in EnvSet /\ e.names = names /\ e.slots = slots
  BY <1>0, EnvFacts
<1>13. Pushed = SetAll(e, pairs)
  BY DEF Pushed, F, L, pairs
<1> HIDE DEF e
<1>14. Pushed \in AfterPairs(e, pairs, Len(pairs))
  BY <1>10, <1>12, <1>13, SetAllFacts
<1>15. /\ Pushed \in EnvSet
       /\ Keeps(names, slots, Pushed.names, Pushed.slots, Written(pairs))
       /\ \A j \in 1..Len(pairs) :
            (\A l \in j + 1..Len(pairs) : pairs[l][1] # pairs[j][1])
                 => HasValue(Pushed.names, Pushed.slots, pairs[j][1], pairs[j][2])
  BY <1>12, <1>14 DEF AfterPairs
<1>16. Keeps(names, slots, Pushed.names, Pushed.slots, PushedNames)
  BY <1>11, <1>15 DEF Keeps
<1>17. ASSUME PausedInDef, NEW i \in 1..Len(FrameNames), frame[i] # Unassigned,
              \A k \in 1..Len(FrameNames) : FrameNames[k] = FrameNames[i] => k = i
       PROVE  HasValue(Pushed.names, Pushed.slots, FrameNames[i], frame[i])
  <2> DEFINE c == Cardinality(P)
             x == Rank(P, i)
             j == Len(F) + x
  <2>1. i \in P
    BY <1>17 DEF P
  <2>2. P \in SUBSET (1..Len(base))
    BY <1>4, <1>6, <1>17
  <2>3. /\ Len(L) = c
        /\ \A k \in 1..c : Nth(P, k) \in P /\ L[k] = base[Nth(P, k)]
        /\ x \in 1..c /\ Nth(P, x) = i /\ c \in Nat
        /\ \A l, k \in 1..c : l < k => Nth(P, l) < Nth(P, k)
    BY <1>5, <1>6, <1>17, <2>1, <2>2, AtProperties
  <2>4. L[x] = <<FrameNames[i], frame[i]>>
    BY <1>7, <2>3
  <2> HIDE DEF c, x
  <2>5. j \in 1..Len(pairs) /\ pairs[j] = L[x] /\ j \in Nat
    BY <1>10, <2>3
  <2>6. ASSUME NEW l \in j + 1..Len(pairs) PROVE pairs[l][1] # FrameNames[i]
    <3> DEFINE y == l - Len(F)
    <3>1. y \in 1..c /\ x < y /\ l = Len(F) + y
      BY <1>10, <2>3
    <3> HIDE DEF y
    <3>2. pairs[l] = L[y]
      BY <1>10, <2>3, <3>1
    <3>3. Nth(P, y) \in P /\ i < Nth(P, y) /\ L[y] = base[Nth(P, y)]
      BY <2>3, <3>1
    <3>4. Nth(P, y) \in 1..Len(FrameNames) /\ Nth(P, y) # i
      <4>1. Nth(P, y) \in 1..Len(FrameNames)
        BY <1>4, <3>3
      <4>2. \A k \in 1..Len(FrameNames) : i < k => k # i
        OBVIOUS
      <4> QED BY <3>3, <4>1, <4>2
    <3>5. L[y] = <<FrameNames[Nth(P, y)], frame[Nth(P, y)]>>
      BY <1>7, <3>3, <3>4
    <3> QED BY <1>17, <3>2, <3>4, <3>5
  <2> HIDE DEF j
  <2>7. pairs[j][1] = FrameNames[i] /\ pairs[j][2] = frame[i]
    BY <2>4, <2>5
  <2> QED BY <1>15, <2>5, <2>6, <2>7
<1>18. PausedInDef => LocalsIn(Pushed.names, Pushed.slots, frame)
  BY <1>17 DEF LocalsIn
<1>19. Table(Pushed.names) /\ Pushed.slots \in Seq(Cell)
  BY <1>15, EnvParts
<1> QED BY <1>16, <1>18, <1>19 DEF frame

-----------------------------------------------------------------------------
(***************************************************************************)
(* The compiled function, and the invariant of the specification.          *)
(***************************************************************************)
CodeSet == [name : Names \union {Unassigned}, slot : Nat, inlined : Cell,
            kept : BOOLEAN, fresh : BOOLEAN, tainted : BOOLEAN]

(* Its variable keeps its slot, and is older than every snapshot.          *)
CodeKept(t, as, c) ==
    c.kept => /\ Known(t, c.name) /\ SlotOf(t, c.name) = c.slot
              /\ \A j \in 1..Len(as) : IsDebug(as, j) => c.slot < Len(as[j].original)

(* While it is fresh the tree that compiled it is on top, or under one     *)
(* call; what was inlined has been assigned for the only time.             *)
CompiledBy(as, c, p) ==
    /\ IsModule(as, p)
    /\ p = Len(as) \/ (p = Len(as) - 1 /\ IsDef(as, Len(as)))
    /\ c.name \in DOMAIN as[p].slot /\ c.slot = as[p].slot[c.name]
    /\ ~c.tainted /\ c.inlined # Unassigned => c.name \notin as[p].any /\ c.name \notin as[p].todo
CodeFresh(as, c) ==
    c.fresh => \/ Len(as) = 1 /\ as[1].kind = "panic"
               \/ \E p \in 1..Len(as) : CompiledBy(as, c, p)

Current(s, c) ==
    (c.fresh /\ ~c.tainted /\ c.inlined # Unassigned) => s[c.slot + 1] = c.inlined

CodeInv(t, s, as, c) ==
    c \in CodeSet /\ CodeKept(t, as, c) /\ CodeFresh(as, c) /\ Current(s, c)

IInv == Inv(names, slots, acts) /\ CodeInv(names, slots, acts, code)

LEMMA Basics ==
  ASSUME IInv
  PROVE  /\ Table(names) /\ slots \in Seq(Cell) /\ acts \in Seq(Act) /\ code \in CodeSet
         /\ Len(names) \in Nat /\ Len(slots) \in Nat /\ Len(acts) \in Nat
         /\ DOMAIN names = 1..Len(names) /\ DOMAIN acts = 1..Len(acts) /\ DOMAIN slots = 1..Len(slots)
<1>1. Table(names) /\ slots \in Seq(Cell) /\ acts \in Seq(Act) /\ code \in CodeSet
  BY DEF IInv, Inv, CodeInv
<1> QED BY <1>1, TableLookup, ActsOf

LEMMA OutdatedFacts ==
  ASSUME code \in CodeSet, NEW t, NEW s, NEW as, CodeKept(t, as, code)
  PROVE  CodeInv(t, s, as, Outdated)
<1>1. CASE code.kept
  <2>1. Outdated = [code EXCEPT !.fresh = FALSE, !.tainted = FALSE, !.inlined = Unassigned]
    BY <1>1 DEF Outdated
  <2>2. /\ Outdated \in CodeSet /\ Outdated.name = code.name /\ Outdated.slot = code.slot
        /\ Outdated.fresh = FALSE
    BY <2>1 DEF CodeSet, Cell
  <2> QED BY <1>1, <2>2 DEF CodeInv, CodeKept, CodeFresh, Current
<1>2. CASE ~code.kept
  <2>1. Outdated = NoCode
    BY <1>2 DEF Outdated
  <2>2. NoCode \in CodeSet /\ NoCode.fresh = FALSE /\ NoCode.kept = FALSE
    BY DEF NoCode, CodeSet, Cell
  <2> QED BY <2>1, <2>2 DEF CodeInv, CodeKept, CodeFresh, Current
<1> QED BY <1>1, <1>2

(* The function's variable keeps its slot while the table grows and the    *)
(* snapshots are old ones.                                                 *)
LEMMA KeptGrows ==
  ASSUME NEW t, NEW as, NEW c, CodeKept(t, as, c), Table(t), NEW u, Table(u), Extends(t, u),
         NEW bs, Alike(as, bs)
  PROVE  CodeKept(u, bs, c)
<1> SUFFICES ASSUME c.kept
             PROVE  /\ Known(u, c.name) /\ SlotOf(u, c.name) = c.slot
                    /\ \A j \in 1..Len(bs) : IsDebug(bs, j) => c.slot < Len(bs[j].original)
  BY DEF CodeKept
<1>1. /\ Known(t, c.name) /\ SlotOf(t, c.name) = c.slot
      /\ \A j \in 1..Len(as) : IsDebug(as, j) => c.slot < Len(as[j].original)
  BY DEF CodeKept
<1>2. Known(u, c.name) /\ SlotOf(u, c.name) = SlotOf(t, c.name)
  BY <1>1, ExtendsSlot
<1>3. \A j \in 1..Len(bs) : IsDebug(bs, j) => j \in 1..Len(as) /\ IsDebug(as, j) /\ bs[j].original = as[j].original
  BY DEF Alike, IsDebug
<1> QED BY <1>1, <1>2, <1>3

(* EvalModule and its scope error.                                         *)
LEMMA EmptyGrows ==
  ASSUME NEW t, NEW s, Inv(t, s, <<>>), NEW u, NEW r, Keeps(t, s, u, r, {})
  PROVE  Inv(u, r, <<>>)
<1>1. <<>> \in Seq(Act) /\ Len(<<>>) = 0
  OBVIOUS
<1>2. \A i \in 1..0 : FALSE
  OBVIOUS
<1> DEFINE q == <<>>
<1>3. Alike(q, q)
  BY AlikeReflexive
<1>4. q \in Seq(Act) /\ \A i \in 1..Len(q) : FALSE
  BY <1>1, <1>2
<1>5. Inv(t, s, q)
  OBVIOUS
<1> HIDE DEF q
<1>6. Inv(u, r, q)
  BY <1>3, <1>4, <1>5, InvKeeps
<1> QED BY <1>6 DEF q

LEMMA EvalModuleStep ==
  ASSUME IInv, NEW tree \in Trees, EvalModule(tree)
  PROVE  IInv'
<1> DEFINE a == ModuleAct(names, slots, tree[1], tree[2], tree[3])
<1>1. /\ acts = <<>> /\ names' = Declare(names, tree[1], tree[2])
      /\ slots' = EnsureSlots(slots, Len(names')) /\ acts' = <<a>> /\ code' = Outdated
  BY DEF EvalModule
<1>2. Table(names) /\ slots \in Seq(Cell) /\ code \in CodeSet
  BY Basics
<1>3. /\ Table(names') /\ Extends(names, names') /\ Keeps(names, slots, names', slots', {})
      /\ a \in ModuleSet /\ Prepared(names', slots', a)
  BY <1>1, <1>2, ModuleActFacts
<1> HIDE DEF a
<1>4. Inv(names', slots', <<>>)
  <2>1. Inv(names, slots, <<>>)
    BY <1>1 DEF IInv
  <2> QED BY <1>3, <2>1, EmptyGrows
<1>5. Pushes(<<>>, acts', a)
  <2>1. a \in Act
    BY <1>3 DEF Act
  <2>2. <<a>> \in Seq(Act) /\ Len(<<a>>) = 1 /\ <<a>>[1] = a
    BY <2>1
  <2>3. Len(<<>>) = 0 /\ \A i \in 1..0 : FALSE
    OBVIOUS
  <2> QED BY <1>1, <2>2, <2>3 DEF Pushes
<1>6. Live(<<>>) /\ AllSpoiled(<<>>)
  BY DEF Live, AllSpoiled
<1>7. Inv(names', slots', acts')
  <2> DEFINE q == <<>>
  <2>1. Inv(names', slots', q) /\ Pushes(q, acts', a) /\ Live(q) /\ AllSpoiled(q)
    BY <1>4, <1>5, <1>6
  <2> HIDE DEF q
  <2> QED BY <1>3, <2>1, PushModule
<1>8. CodeKept(names', acts', code)
  <2>1. CodeKept(names, <<>>, code)
    BY <1>1 DEF IInv, CodeInv
  <2>2. CodeKept(names', <<>>, code)
    BY <1>2, <1>3, <2>1, KeptGrows, AlikeReflexive
  <2>3. Len(acts') = 1 /\ ~IsDebug(acts', 1) /\ \A j \in 1..1 : j = 1
    BY <1>1, <1>3 DEF IsDebug, ModuleSet
  <2>4. \A j \in 1..Len(acts') : ~IsDebug(acts', j)
    BY <2>3
  <2> QED BY <2>2, <2>4 DEF CodeKept
<1>9. CodeInv(names', slots', acts', code')
  BY <1>1, <1>2, <1>8, OutdatedFacts
<1> QED BY <1>7, <1>9 DEF IInv

LEMMA EvalModuleScopeErrorStep ==
  ASSUME IInv, NEW tree \in Trees, EvalModuleScopeError(tree)
  PROVE  IInv'
<1>1. /\ acts = <<>> /\ names' = Declare(names, tree[1], tree[2])
      /\ slots' = slots /\ acts' = acts /\ code' = Outdated
  BY DEF EvalModuleScopeError
<1>2. Table(names) /\ slots \in Seq(Cell) /\ code \in CodeSet /\ Len(slots) \in Nat
  BY Basics
<1>3. Table(names') /\ Extends(names, names')
  BY <1>1, <1>2, ModuleActFacts
<1>4. Keeps(names, slots, names', slots', {})
  BY <1>1, <1>2, <1>3, KeepsGrown
<1>5. Inv(names', slots', acts')
  <2>1. Inv(names, slots, <<>>)
    BY <1>1 DEF IInv
  <2>2. Inv(names', slots', <<>>)
    BY <1>4, <2>1, EmptyGrows
  <2> QED BY <1>1, <2>2
<1>6. CodeKept(names', acts', code)
  <2>1. CodeKept(names, acts, code)
    BY DEF IInv, CodeInv
  <2>2. CodeKept(names', acts, code)
    BY <1>2, <1>3, <2>1, KeptGrows, AlikeReflexive
  <2> QED BY <1>1, <2>2
<1>7. CodeInv(names', slots', acts', code')
  BY <1>1, <1>2, <1>6, OutdatedFacts
<1> QED BY <1>5, <1>7 DEF IInv

LEMMA AssignStep ==
  ASSUME IInv, NEW n \in Names, NEW v \in Values, Assign(n, v)
  PROVE  IInv'
<1> DEFINE m == Len(acts)
           b == Touch({n})
           a == [acts[m] EXCEPT !.todo = @ \ {n}]
           x == acts[m].slot[n]
<1>1. Table(names) /\ slots \in Seq(Cell) /\ acts \in Seq(Act) /\ code \in CodeSet /\ m \in Nat
  BY Basics
<1>2. /\ acts # <<>> /\ Last(acts).kind = "module" /\ n \in Last(acts).multi \union Last(acts).todo
      /\ slots' = SetSlot(slots, Last(acts).slot[n], v)
      /\ acts' = [b EXCEPT ![m].todo = @ \ {n}]
      /\ names' = names /\ code' = code
  BY DEF Assign
<1>3. Last(acts) = acts[m] /\ m # 0 /\ m \in 1..m
  <2>1. Last(acts) = acts[m] /\ m # 0
    BY <1>1, <1>2, FrontLast
  <2> QED BY <1>1, <2>1
<1>4. IsModule(acts, m) /\ ~IsDebug(acts, m) /\ acts[m] \in ModuleSet
  <2>1. IsModule(acts, m) /\ ~IsDebug(acts, m)
    BY <1>2, <1>3 DEF IsModule, IsDebug
  <2> QED BY <1>1, <1>3, <2>1, ActsOf
<1>5. /\ acts[m].multi \subseteq acts[m].any /\ acts[m].multi \subseteq DOMAIN acts[m].slot
      /\ acts[m].todo \subseteq DOMAIN acts[m].slot
      /\ \A l \in DOMAIN acts[m].slot :
           Known(names, l) /\ SlotOf(names, l) = acts[m].slot[l] /\ acts[m].slot[l] < Len(slots)
  BY <1>3, <1>4 DEF IInv, Inv, Resolved
<1>6. Known(names, n) /\ SlotOf(names, n) = x /\ x < Len(slots)
  BY <1>2, <1>3, <1>5
<1>7. Keeps(names, slots, names', slots', {n})
  <2>1. v \in Cell /\ slots' = SetSlot(slots, SlotOf(names, n), v)
    BY <1>2, <1>3, <1>6 DEF Cell
  <2>2. SlotOf(names, n) < Len(slots)
    BY <1>6
  <2> QED BY <1>1, <1>2, <1>6, <2>1, <2>2, WriteFacts
<1>8. /\ b \in Seq(Act) /\ Alike(acts, b) /\ Len(b) = m
      /\ \A j \in 1..m : IsDebug(acts, j) => {n} \subseteq b[j].touched
      /\ b[m] = acts[m]
  BY <1>1, <1>3, <1>4, TouchFacts
<1>9. /\ a \in ModuleSet /\ a \in Act /\ a.kind = "module" /\ a.slot = acts[m].slot /\ a.any = acts[m].any
      /\ a.multi = acts[m].multi /\ a.todo = acts[m].todo \ {n} /\ a.tainted = acts[m].tainted
  BY <1>4 DEF ModuleSet, Act
<1>10. acts' = [b EXCEPT ![m] = a]
  BY <1>2, <1>8
<1> HIDE DEF a, b, x
<1>11. /\ acts' \in Seq(Act) /\ Len(acts') = m /\ acts'[m] = a
       /\ \A i \in 1..m : i # m => acts'[i] = b[i]
  BY <1>1, <1>3, <1>8, <1>9, <1>10
<1>12. Alike(b, acts')
  <2> SUFFICES ASSUME NEW i \in 1..m
               PROVE  /\ acts'[i].kind = b[i].kind
                      /\ IsModule(b, i) => /\ acts'[i].slot = b[i].slot /\ acts'[i].any = b[i].any
                                           /\ acts'[i].multi = b[i].multi
                                           /\ acts'[i].todo \subseteq b[i].todo
                                           /\ b[i].tainted \subseteq acts'[i].tainted
                      /\ IsDebug(b, i) => /\ acts'[i].original = b[i].original /\ acts'[i].inDef = b[i].inDef
                                          /\ b[i].touched \subseteq acts'[i].touched
                      /\ IsDef(b, i) /\ i < m => acts'[i].frame = b[i].frame
    BY <1>8, <1>11 DEF Alike
  <2>1. CASE i = m
    <3>1. acts'[i] = a /\ b[i] = acts[m] /\ b[i].kind = "module"
      BY <1>4, <1>8, <1>11, <2>1 DEF IsModule
    <3>2. ~IsDebug(b, i) /\ ~IsDef(b, i)
      BY <3>1 DEF IsDebug, IsDef
    <3> QED BY <1>9, <3>1, <3>2
  <2>2. CASE i # m
    BY <1>11, <2>2
  <2> QED BY <2>1, <2>2
<1>13. Alike(acts, acts')
  BY <1>1, <1>8, <1>12, AlikeTransitive
<1>14. \A i \in 1..Len(acts') : IsModule(acts', i) => \A l \in acts'[i].todo : l \in {n} => l \in acts'[i].tainted
  <2> SUFFICES ASSUME NEW i \in 1..m, IsModule(acts', i), n \in acts'[i].todo
               PROVE  n \in acts'[i].tainted
    BY <1>11
  <2>1. i # m
    BY <1>9, <1>11
  <2>2. IsModule(acts, i) /\ i < m
    BY <1>1, <1>13, <2>1 DEF Alike, IsModule
  <2>3. Names \subseteq acts[i].tainted
    BY <1>3, <1>4, <2>2 DEF IInv, Inv, Spoiled
  <2>4. acts[i].tainted \subseteq acts'[i].tainted
    BY <1>13, <2>2 DEF Alike
  <2> QED BY <2>3, <2>4
<1>15. \A j \in 1..Len(acts') : IsDebug(acts', j) => {n} \subseteq acts'[j].touched
  <2> SUFFICES ASSUME NEW j \in 1..m, IsDebug(acts', j) PROVE {n} \subseteq acts'[j].touched
    BY <1>11
  <2>1. j # m
    BY <1>9, <1>11 DEF IsDebug
  <2>2. acts'[j] = b[j] /\ IsDebug(acts, j)
    BY <1>11, <1>13, <2>1 DEF Alike, IsDebug
  <2> QED BY <1>8, <2>2
<1>16. Inv(names', slots', acts')
  <2>1. Inv(names, slots, acts)
    BY DEF IInv
  <2> QED BY <1>7, <1>11, <1>13, <1>14, <1>15, <2>1, InvKeeps
<1>17. CodeKept(names', acts', code')
  <2>1. CodeKept(names, acts, code)
    BY DEF IInv, CodeInv
  <2>2. CodeKept(names, acts', code)
    BY <1>1, <1>13, <2>1, KeptGrows, ExtendsReflexive
  <2> QED BY <1>2, <2>2
<1>18. code.fresh => CompiledBy(acts, code, m)
  <2> SUFFICES ASSUME code.fresh PROVE CompiledBy(acts, code, m)
    OBVIOUS
  <2>1. ~(Len(acts) = 1 /\ acts[1].kind = "panic")
    BY <1>2, <1>3
  <2>2. PICK p \in 1..Len(acts) : CompiledBy(acts, code, p)
    BY <2>1 DEF IInv, CodeInv, CodeFresh
  <2>3. ~IsDef(acts, m)
    BY <1>4 DEF IsModule, IsDef
  <2> QED BY <2>2, <2>3 DEF CompiledBy
<1>19. CodeFresh(acts', code')
  <2> SUFFICES ASSUME code.fresh PROVE CompiledBy(acts', code, m)
    BY <1>2, <1>3, <1>11 DEF CodeFresh
  <2>1. CompiledBy(acts, code, m)
    BY <1>18
  <2>2. IsModule(acts', m)
    BY <1>9, <1>11 DEF IsModule
  <2> QED BY <1>9, <1>11, <2>1, <2>2 DEF CompiledBy
<1>20. Current(slots', code')
  <2> SUFFICES ASSUME code.fresh, ~code.tainted, code.inlined # Unassigned
               PROVE  slots'[code.slot + 1] = code.inlined
    BY <1>2 DEF Current
  <2>1. CompiledBy(acts, code, m)
    BY <1>18
  <2>2. /\ code.name \in DOMAIN acts[m].slot /\ code.slot = acts[m].slot[code.name]
        /\ code.name \notin acts[m].any /\ code.name \notin acts[m].todo
    BY <2>1 DEF CompiledBy
  <2>3. code.name # n
    BY <1>2, <1>3, <1>5, <2>2
  <2>4. Known(names, code.name) /\ SlotOf(names, code.name) = code.slot /\ code.slot < Len(slots)
    BY <1>5, <2>2
  <2>5. slots[code.slot + 1] = code.inlined
    BY DEF IInv, CodeInv, Current
  <2>6. HasValue(names, slots, code.name, code.inlined)
    BY <2>4, <2>5 DEF HasValue
  <2>7. code.name \in Names \ {n}
    BY <1>1, <2>3, <2>4, TableLookup
  <2>8. HasValue(names, slots', code.name, code.inlined)
    BY <1>2, <1>7, <2>6, <2>7 DEF Keeps
  <2> QED BY <2>4, <2>8 DEF HasValue
<1> QED BY <1>1, <1>2, <1>16, <1>17, <1>19, <1>20 DEF IInv, CodeInv

LEMMA CompileDefStep ==
  ASSUME IInv, NEW n \in Names, CompileDef(n)
  PROVE  IInv'
<1> DEFINE m == Len(acts)
           top == acts[m]
           x == top.slot[n]
<1>1. Table(names) /\ slots \in Seq(Cell) /\ acts \in Seq(Act) /\ m \in Nat /\ Len(slots) \in Nat
  BY Basics
<1>2. /\ acts # <<>> /\ Last(acts).kind = "module" /\ n \in DOMAIN Last(acts).slot
      /\ code' = [name |-> n, slot |-> Last(acts).slot[n],
                    inlined |-> Inlined(Last(acts), n), kept |-> ~InDebug, fresh |-> TRUE,
                    tainted |-> n \in Last(acts).tainted]
      /\ names' = names /\ slots' = slots /\ acts' = acts
  BY DEF CompileDef
<1>3. Last(acts) = top /\ m # 0 /\ m \in 1..m
  <2>1. Last(acts) = top /\ m # 0
    BY <1>1, <1>2, FrontLast
  <2> QED BY <1>1, <2>1
<1>4. IsModule(acts, m) /\ top \in ModuleSet
  <2>1. IsModule(acts, m)
    BY <1>2, <1>3 DEF IsModule
  <2> QED BY <1>1, <1>3, <2>1, ActsOf
<1>5. Known(names, n) /\ SlotOf(names, n) = x /\ x < Len(slots)
  BY <1>2, <1>3, <1>4 DEF IInv, Inv, Resolved
<1>6. x \in Nat
  <2>1. SlotOf(names, n) \in Nat
    BY <1>1, <1>5, TableLookup
  <2> QED BY <1>5, <2>1
<1>7. n \in top.todo /\ n \notin top.any /\ n \notin top.tainted => slots[x + 1] = Unassigned
  BY <1>3, <1>4 DEF IInv, Inv, Unwritten
<1>8. n \in DOMAIN top.slot
  BY <1>2, <1>3
<1>9. /\ code'.name = n /\ code'.slot = x /\ code'.inlined = Inlined(top, n) /\ code'.fresh = TRUE
      /\ code'.kept = ~InDebug
      /\ code' = [name |-> n, slot |-> x, inlined |-> code'.inlined, kept |-> code'.kept,
                  fresh |-> TRUE, tainted |-> code'.tainted]
  BY <1>2, <1>3
<1>10. code'.tainted = (n \in top.tainted)
  BY <1>2, <1>3
<1>11. InDebug <=> \E j \in 1..m : IsDebug(acts, j)
  BY Basics DEF InDebug, IsDebug
<1> HIDE DEF top, x
<1>12. Inlined(top, n) = IF n \in top.any THEN Unassigned ELSE slots[x + 1]
  BY DEF Inlined, x
<1>13. slots[x + 1] \in Cell
  <2>1. x + 1 \in 1..Len(slots)
    BY <1>1, <1>5, <1>6
  <2> QED BY <1>1, <2>1
<1>14. code' \in CodeSet
  <2>1. code'.inlined \in Cell
    BY <1>9, <1>12, <1>13 DEF Cell
  <2>2. code'.kept \in BOOLEAN /\ code'.tainted \in BOOLEAN
    BY <1>9, <1>10
  <2> QED BY <1>6, <1>9, <2>1, <2>2 DEF CodeSet
<1>15. CodeKept(names', acts', code')
  <2> SUFFICES ASSUME code'.kept
               PROVE  /\ Known(names, n) /\ SlotOf(names, n) = x
                      /\ \A j \in 1..Len(acts) : ~IsDebug(acts, j)
    BY <1>2, <1>9 DEF CodeKept
  <2>1. ~InDebug
    BY <1>9
  <2> QED BY <1>5, <1>11, <2>1
<1>16. CompiledBy(acts', code', m)
  <2>1. /\ IsModule(acts, m) /\ m = Len(acts) /\ code'.name \in DOMAIN acts[m].slot
        /\ code'.slot = acts[m].slot[code'.name]
    BY <1>4, <1>8, <1>9 DEF top, x
  <2>2. ~code'.tainted /\ code'.inlined # Unassigned => n \notin top.any /\ n \notin top.todo
    <3> SUFFICES ASSUME ~code'.tainted, code'.inlined # Unassigned
                 PROVE  n \notin top.any /\ n \notin top.todo
      OBVIOUS
    <3>1. n \notin top.tainted
      BY <1>10
    <3>2. Inlined(top, n) # Unassigned
      BY <1>9
    <3> QED BY <1>7, <1>12, <3>1, <3>2
  <2> QED BY <1>2, <1>9, <2>1, <2>2 DEF CompiledBy, top
<1>17. CodeFresh(acts', code')
  BY <1>2, <1>3, <1>16 DEF CodeFresh
<1>18. Current(slots', code')
  <2> SUFFICES ASSUME code'.inlined # Unassigned PROVE slots[x + 1] = code'.inlined
    BY <1>2, <1>9 DEF Current
  <2>1. Inlined(top, n) # Unassigned
    BY <1>9
  <2> QED BY <1>9, <1>12, <2>1
<1> QED BY <1>2, <1>14, <1>15, <1>17, <1>18 DEF IInv, CodeInv

LEMMA KeptPops ==
  ASSUME NEW t, NEW as \in Seq(Act), NEW c, CodeKept(t, as, c), NEW bs, Pops(as, bs)
  PROVE  CodeKept(t, bs, c)
<1>1. \A j \in 1..Len(bs) : j \in 1..Len(as) /\ bs[j] = as[j] /\ (IsDebug(bs, j) <=> IsDebug(as, j))
  BY PopFacts
<1> QED BY <1>1 DEF CodeKept

LEMMA FrontPops ==
  ASSUME NEW as \in Seq(Act), as # <<>>
  PROVE  Pops(as, Front(as)) /\ Last(as) = as[Len(as)] /\ Len(as) \in 1..Len(as)
<1>1. /\ Len(as) \in Nat /\ Len(as) # 0 /\ Front(as) \in Seq(Act) /\ Len(Front(as)) = Len(as) - 1
      /\ \A i \in 1..Len(as) - 1 : Front(as)[i] = as[i]
      /\ Last(as) = as[Len(as)]
  BY FrontLast
<1>2. Len(as) \in 1..Len(as)
  <2>1. Len(as) \in Nat /\ Len(as) # 0
    BY <1>1
  <2>2. \A k \in Nat : k # 0 => k \in 1..k
    OBVIOUS
  <2> QED BY ONLY <2>1, <2>2
<1> QED BY <1>1, <1>2 DEF Pops

LEMMA FinishStep ==
  ASSUME IInv, Finish
  PROVE  IInv'
<1> DEFINE m == Len(acts)
<1>1. Table(names) /\ acts \in Seq(Act) /\ code \in CodeSet /\ m \in Nat
  BY Basics
<1>2. /\ acts # <<>> /\ Last(acts).kind \in {"module", "def"} /\ acts' = Front(acts)
      /\ code' = IF Last(acts).kind = "module" THEN Outdated ELSE code
      /\ names' = names /\ slots' = slots
  BY DEF Finish
<1>3. Pops(acts, acts') /\ Last(acts) = acts[m] /\ m \in 1..m
  BY <1>1, <1>2, FrontPops
<1>4. Inv(names', slots', acts')
  <2>1. ~InDef(acts, m) /\ Inv(names, slots, acts)
    BY <1>2, <1>3 DEF InDef, IsDebug, IInv
  <2> QED BY <1>2, <1>3, <2>1, PopPlain
<1>5. CodeKept(names', acts', code)
  <2>1. CodeKept(names, acts, code)
    BY DEF IInv, CodeInv
  <2> QED BY <1>1, <1>2, <1>3, <2>1, KeptPops
<1>6. CASE Last(acts).kind = "module"
  <2>1. CodeInv(names', slots', acts', code')
    BY <1>1, <1>2, <1>5, <1>6, OutdatedFacts
  <2> QED BY <1>4, <2>1 DEF IInv
<1>7. CASE Last(acts).kind = "def"
  <2>1. code' = code
    BY <1>2, <1>7
  <2>2. CodeFresh(acts', code)
    <3> SUFFICES ASSUME code.fresh PROVE \E p \in 1..Len(acts') : CompiledBy(acts', code, p)
      BY DEF CodeFresh
    <3>1. ~(Len(acts) = 1 /\ acts[1].kind = "panic")
      BY <1>3, <1>7
    <3>2. PICK p \in 1..m : CompiledBy(acts, code, p)
      BY <3>1 DEF IInv, CodeInv, CodeFresh
    <3>3. p = m - 1
      BY <1>3, <1>7, <3>2 DEF CompiledBy, IsModule
    <3>4. Len(acts') = m - 1 /\ m - 1 \in Nat
      BY <1>1, <1>3, PopFacts
    <3>5. p \in 1..Len(acts') /\ p = Len(acts')
      <4>1. p \in Nat /\ p >= 1
        BY <3>2
      <4> QED BY <3>3, <3>4, <4>1
    <3>6. acts'[p] = acts[p]
      BY <1>1, <1>3, <3>5, PopFacts
    <3>7. CompiledBy(acts', code, p)
      BY <3>2, <3>5, <3>6 DEF CompiledBy, IsModule
    <3> QED BY <3>5, <3>7
  <2>3. Current(slots', code)
    BY <1>2 DEF IInv, CodeInv
  <2> QED BY <1>1, <1>4, <1>5, <2>1, <2>2, <2>3 DEF IInv, CodeInv
<1> QED BY <1>2, <1>6, <1>7

LEMMA CallStep ==
  ASSUME IInv, NEW frozen \in BOOLEAN, Call(frozen)
  PROVE  IInv'
<1> DEFINE m == Len(acts)
           a == [kind |-> "def", frozen |-> frozen, frame |-> [i \in DOMAIN FrameNames |-> Unassigned]]
<1>1. Table(names) /\ acts \in Seq(Act) /\ code \in CodeSet /\ m \in Nat
  BY Basics
<1>2. /\ acts # <<>> => Last(acts).kind = "module"
      /\ acts' = Append(acts, a) /\ names' = names /\ slots' = slots /\ code' = code
  BY DEF Call
<1>3. a \in DefSet /\ a.kind = "def"
  <2>1. DOMAIN FrameNames = 1..Len(FrameNames)
    BY ModuleEnvAssumption
  <2>2. [i \in DOMAIN FrameNames |-> Unassigned] \in [1..Len(FrameNames) -> Cell]
    BY <2>1 DEF Cell
  <2> QED BY <2>2 DEF DefSet
<1> HIDE DEF a
<1>4. Pushes(acts, acts', a) /\ acts' \in Seq(Act)
  <2>1. a \in Act
    BY <1>3 DEF Act
  <2> QED BY <1>1, <1>2, <2>1, AppendProperties DEF Pushes
<1>5. m = 0 \/ (m \in 1..m /\ Last(acts) = acts[m] /\ IsModule(acts, m))
  <2>1. CASE acts = <<>>
    BY <2>1
  <2>2. CASE acts # <<>>
    BY <1>1, <1>2, <2>2, FrontPops DEF IsModule
  <2> QED BY <2>1, <2>2
<1>6. Live(acts)
  <2> SUFFICES ASSUME NEW i \in 1..m, acts[i].kind = "panic" PROVE FALSE
    BY DEF Live
  <2>1. m = 1
    BY DEF IInv, Inv, Shape
  <2>2. i = m
    BY <2>1
  <2> QED BY <1>5, <2>1, <2>2 DEF IsModule
<1>7. Inv(names', slots', acts')
  <2>1. Inv(names, slots, acts)
    BY DEF IInv
  <2> QED BY <1>2, <1>3, <1>4, <1>6, <2>1, PushDef
<1>8. /\ Len(acts') = m + 1 /\ acts'[m + 1] = a
      /\ \A i \in 1..m + 1 : i \in 1..m \/ i = m + 1
      /\ \A i \in 1..m : acts'[i] = acts[i] /\ i \in 1..m + 1
  <2>1. a \in Act
    BY <1>3 DEF Act
  <2> QED BY <1>1, <1>4, <2>1, PushFacts
<1>9. CodeKept(names', acts', code')
  <2>1. \A j \in 1..m + 1 : IsDebug(acts', j) => j \in 1..m /\ acts'[j] = acts[j] /\ IsDebug(acts, j)
    BY <1>3, <1>8 DEF IsDebug
  <2> QED BY <1>2, <1>8, <2>1 DEF IInv, CodeInv, CodeKept
<1>10. CodeFresh(acts', code')
  <2> SUFFICES ASSUME code.fresh PROVE \E p \in 1..Len(acts') : CompiledBy(acts', code, p)
    BY <1>2 DEF CodeFresh
  <2>1. ~(Len(acts) = 1 /\ acts[1].kind = "panic")
    <3> SUFFICES ASSUME m = 1, acts[1].kind = "panic" PROVE FALSE
      OBVIOUS
    <3> QED BY <1>5 DEF IsModule
  <2>2. PICK p \in 1..m : CompiledBy(acts, code, p)
    BY <2>1 DEF IInv, CodeInv, CodeFresh
  <2>3. m # 0
    BY <1>1
  <2>4. p = m
    BY <1>5, <2>2, <2>3 DEF CompiledBy, IsModule, IsDef
  <2>5. p \in 1..Len(acts') /\ p = Len(acts') - 1 /\ acts'[p] = acts[p]
    BY <1>1, <1>8, <2>4
  <2>6. IsDef(acts', Len(acts'))
    BY <1>3, <1>8 DEF IsDef
  <2>7. CompiledBy(acts', code, p)
    BY <2>2, <2>5, <2>6 DEF CompiledBy, IsModule
  <2> QED BY <2>5, <2>7
<1>11. Current(slots', code')
  BY <1>2 DEF IInv, CodeInv
<1> QED BY <1>1, <1>2, <1>7, <1>9, <1>10, <1>11 DEF IInv, CodeInv

(* Another frame for the def on top.                                       *)
Reframed(as, bs, frame) == bs = [as EXCEPT ![Len(as)].frame = frame]

LEMMA NewFrame ==
  ASSUME NEW as \in Seq(Act), as # <<>>, IsDef(as, Len(as)),
         NEW frame \in [1..Len(FrameNames) -> Cell], NEW bs, Reframed(as, bs, frame)
  PROVE  /\ bs \in Seq(Act) /\ Alike(as, bs) /\ Len(bs) = Len(as)
         /\ \A i \in 1..Len(as) : i # Len(as) => bs[i] = as[i]
         /\ bs[Len(as)].kind = "def" /\ bs[Len(as)].frame = frame
<1> DEFINE m == Len(as)
           a == [as[m] EXCEPT !.frame = frame]
<1>1. m \in Nat /\ m \in 1..m
  BY FrontPops, ActsOf
<1>2. as[m] \in DefSet
  BY <1>1, ActsOf
<1>3. a \in DefSet /\ a.kind = "def" /\ a.frame = frame /\ a \in Act /\ as[m].kind = "def"
  BY <1>2 DEF DefSet, Act
<1>4. bs = [as EXCEPT ![m] = a]
  BY DEF Reframed
<1> HIDE DEF a
<1>5. bs \in Seq(Act) /\ Len(bs) = m /\ bs[m] = a /\ \A i \in 1..m : i # m => bs[i] = as[i]
  <2> HIDE DEF m
  <2>1. as \in [1..m -> Act]
    BY LenProperties DEF m
  <2>2. bs \in [1..m -> Act] /\ bs[m] = a /\ \A i \in 1..m : i # m => bs[i] = as[i]
    BY <1>1, <1>3, <1>4, <2>1
  <2>3. bs \in Seq(Act) /\ Len(bs) = m
    BY <1>1, <2>2
  <2> QED BY <2>2, <2>3
<1>6. Alike(as, bs)
  <2> SUFFICES ASSUME NEW i \in 1..m
               PROVE  /\ bs[i].kind = as[i].kind
                      /\ IsModule(as, i) => /\ bs[i].slot = as[i].slot /\ bs[i].any = as[i].any
                                            /\ bs[i].multi = as[i].multi
                                            /\ bs[i].todo \subseteq as[i].todo
                                            /\ as[i].tainted \subseteq bs[i].tainted
                      /\ IsDebug(as, i) => /\ bs[i].original = as[i].original /\ bs[i].inDef = as[i].inDef
                                           /\ as[i].touched \subseteq bs[i].touched
                      /\ IsDef(as, i) /\ i < m => bs[i].frame = as[i].frame
    BY <1>5 DEF Alike
  <2>1. CASE i = m
    <3>0. ~(m < m)
      <4>1. \A k \in Nat : ~(k < k)
        OBVIOUS
      <4> QED BY ONLY <1>1, <4>1
    <3>1. ~IsModule(as, i) /\ ~IsDebug(as, i) /\ ~(i < m) /\ bs[i].kind = as[i].kind
      <4> HIDE DEF m
      <4> QED BY <1>3, <1>5, <2>1, <3>0 DEF IsModule, IsDebug
    <3> QED BY <3>1
  <2>2. CASE i # m
    BY <1>5, <2>2
  <2> QED BY <2>1, <2>2
<1> QED BY <1>3, <1>5, <1>6

LEMMA AssignLocalStep ==
  ASSUME IInv, NEW i \in DOMAIN FrameNames, NEW v \in Values, AssignLocal(i, v)
  PROVE  IInv'
<1> DEFINE m == Len(acts)
           frame == [acts[m].frame EXCEPT ![i] = v]
<1>1. Table(names) /\ slots \in Seq(Cell) /\ acts \in Seq(Act) /\ code \in CodeSet /\ m \in Nat
  BY Basics
<1>2. /\ acts # <<>> /\ Last(acts).kind = "def"
      /\ acts' = [acts EXCEPT ![m].frame[i] = v] /\ names' = names /\ slots' = slots /\ code' = code
  BY DEF AssignLocal
<1>3. m \in 1..m /\ IsDef(acts, m)
  BY <1>1, <1>2, FrontPops DEF IsDef
<1>4. acts[m] \in DefSet
  BY <1>1, <1>3, ActsOf
<1>5. frame \in [1..Len(FrameNames) -> Cell]
  <2>1. acts[m].frame \in [1..Len(FrameNames) -> Cell]
    BY <1>4 DEF DefSet
  <2>2. v \in Cell /\ i \in 1..Len(FrameNames)
    BY ModuleEnvAssumption DEF Cell
  <2> QED BY <2>1, <2>2
<1>6. Reframed(acts, acts', frame)
  BY <1>2 DEF Reframed
<1> HIDE DEF frame
<1>7. /\ acts' \in Seq(Act) /\ Alike(acts, acts') /\ Len(acts') = m
      /\ \A j \in 1..m : j # m => acts'[j] = acts[j]
      /\ acts'[m].kind = "def"
  <2>1. acts \in Seq(Act) /\ acts # <<>> /\ IsDef(acts, Len(acts))
    BY <1>1, <1>2, <1>3
  <2> QED BY ONLY <1>5, <1>6, <2>1, NewFrame
<1>8. Inv(names', slots', acts')
  <2>1. Inv(names, slots, acts)
    BY DEF IInv
  <2>2. Keeps(names, slots, names, slots, {})
    BY <1>1, KeepsReflexive
  <2> QED BY <1>2, <1>7, <2>1, <2>2, InvKeeps
<1>9. CodeKept(names', acts', code')
  <2>1. CodeKept(names, acts, code)
    BY DEF IInv, CodeInv
  <2>2. CodeKept(names, acts', code)
    BY <1>1, <1>7, <2>1, KeptGrows, ExtendsReflexive
  <2> QED BY <1>2, <2>2
<1>10. CodeFresh(acts', code')
  <2> SUFFICES ASSUME code.fresh PROVE \E p \in 1..Len(acts') : CompiledBy(acts', code, p)
    BY <1>2 DEF CodeFresh
  <2>1. ~(Len(acts) = 1 /\ acts[1].kind = "panic")
    <3> SUFFICES ASSUME m = 1, acts[1].kind = "panic" PROVE FALSE
      OBVIOUS
    <3> QED BY <1>3 DEF IsDef
  <2>2. PICK p \in 1..m : CompiledBy(acts, code, p)
    BY <2>1 DEF IInv, CodeInv, CodeFresh
  <2>3. p # m /\ p = m - 1
    BY <1>3, <2>2 DEF CompiledBy, IsModule, IsDef
  <2>4. acts'[p] = acts[p] /\ IsDef(acts', Len(acts'))
    BY <1>7, <2>3 DEF IsDef
  <2>5. CompiledBy(acts', code, p)
    BY <1>7, <2>2, <2>3, <2>4 DEF CompiledBy, IsModule
  <2> QED BY <1>7, <2>5
<1>11. Current(slots', code')
  BY <1>2 DEF IInv, CodeInv
<1> QED BY <1>1, <1>2, <1>8, <1>9, <1>10, <1>11 DEF IInv, CodeInv

(* Names written by others: touched for every snapshot, tainted for every  *)
(* tree.                                                                   *)
LEMMA TouchTaint ==
  ASSUME acts \in Seq(Act), NEW W \in SUBSET Names, NEW X \in SUBSET Names, W \subseteq X
  PROVE  LET bs == Tainted(Touch(W), X)
         IN  /\ bs \in Seq(Act) /\ Alike(acts, bs) /\ Len(bs) = Len(acts)
             /\ \A i \in 1..Len(bs) : IsModule(bs, i) => X \subseteq bs[i].tainted
             /\ \A j \in 1..Len(bs) : IsDebug(bs, j) => W \subseteq bs[j].touched
<1> DEFINE as == Touch(W)
           bs == Tainted(as, X)
<1>1. /\ as \in Seq(Act) /\ Alike(acts, as) /\ Len(as) = Len(acts) /\ Len(acts) \in Nat
      /\ \A j \in 1..Len(acts) : IsDebug(acts, j) => W \subseteq as[j].touched
  BY TouchFacts, ActsOf
<1> HIDE DEF as
<1>2. /\ bs \in Seq(Act) /\ Alike(as, bs) /\ Len(bs) = Len(as)
      /\ \A i \in 1..Len(as) : IsModule(as, i) => X \subseteq bs[i].tainted
      /\ \A i \in 1..Len(as) : ~IsModule(as, i) => bs[i] = as[i]
  BY <1>1, TaintFacts
<1> HIDE DEF bs
<1>3. Alike(acts, bs)
  BY <1>1, <1>2, AlikeTransitive
<1>4. \A i \in 1..Len(bs) : bs[i].kind = as[i].kind /\ as[i].kind = acts[i].kind
  BY <1>1, <1>2 DEF Alike
<1>5. \A i \in 1..Len(bs) : IsModule(bs, i) => X \subseteq bs[i].tainted
  BY <1>2, <1>4 DEF IsModule
<1>6. \A j \in 1..Len(bs) : IsDebug(bs, j) => IsDebug(acts, j) /\ ~IsModule(as, j)
  BY <1>4 DEF IsModule, IsDebug
<1>7. \A j \in 1..Len(bs) : IsDebug(bs, j) => W \subseteq bs[j].touched
  BY <1>1, <1>2, <1>6
<1> QED BY <1>1, <1>2, <1>3, <1>5, <1>7 DEF as, bs

LEMMA HostSetStep ==
  ASSUME IInv, NEW n \in Names, NEW v \in Values, NEW public \in BOOLEAN, HostSet(n, v, public)
  PROVE  IInv'
<1> DEFINE e == Env(names, slots)
           f == SetVar(e, n, v, public)
<1>1. Table(names) /\ slots \in Seq(Cell) /\ acts \in Seq(Act) /\ code \in CodeSet
  BY Basics
<1>2. /\ names' = f.names /\ slots' = f.slots /\ acts' = Tainted(Touch({n}), {n})
      /\ code' = IF n = code.name THEN [code EXCEPT !.tainted = TRUE] ELSE code
      /\ Running
  BY DEF HostSet
<1>3. e \in EnvSet /\ e.names = names /\ e.slots = slots
  BY <1>1, EnvFacts
<1> HIDE DEF e
<1>4. Keeps(e.names, e.slots, f.names, f.slots, {n})
  <2>1. v \in Cell
    BY DEF Cell
  <2> QED BY <1>3, <2>1, SetVarFacts
<1> HIDE DEF f
<1>5. Keeps(names, slots, names', slots', {n})
  BY <1>2, <1>3, <1>4
<1>6. /\ acts' \in Seq(Act) /\ Alike(acts, acts')
      /\ \A i \in 1..Len(acts') : IsModule(acts', i) => {n} \subseteq acts'[i].tainted
      /\ \A j \in 1..Len(acts') : IsDebug(acts', j) => {n} \subseteq acts'[j].touched
  <2> DEFINE W == {n}
  <2>1. W \in SUBSET Names /\ W \subseteq W
    OBVIOUS
  <2> HIDE DEF W
  <2>2. LET bs == Tainted(Touch(W), W)
        IN  /\ bs \in Seq(Act) /\ Alike(acts, bs)
            /\ \A i \in 1..Len(bs) : IsModule(bs, i) => W \subseteq bs[i].tainted
            /\ \A j \in 1..Len(bs) : IsDebug(bs, j) => W \subseteq bs[j].touched
    BY <1>1, <2>1, TouchTaint
  <2> QED BY <1>2, <2>2 DEF W
<1>7. Inv(names', slots', acts')
  <2>1. Inv(names, slots, acts)
    BY DEF IInv
  <2>2. \A i \in 1..Len(acts') : IsModule(acts', i) =>
            \A l \in acts'[i].todo : l \in {n} => l \in acts'[i].tainted
    BY <1>6
  <2> QED BY <1>5, <1>6, <2>1, <2>2, InvKeeps
<1>8. CodeKept(names', acts', code)
  <2>1. CodeKept(names, acts, code)
    BY DEF IInv, CodeInv
  <2>2. Table(names') /\ Extends(names, names')
    BY <1>5 DEF Keeps
  <2> QED BY <1>1, <1>6, <2>1, <2>2, KeptGrows
<1>9. /\ code' \in CodeSet /\ code'.name = code.name /\ code'.slot = code.slot
      /\ code'.kept = code.kept /\ code'.fresh = code.fresh /\ code'.inlined = code.inlined
      /\ ~code'.tainted => ~code.tainted /\ n # code.name
  BY <1>1, <1>2 DEF CodeSet
<1>10. CodeKept(names', acts', code')
  BY <1>8, <1>9 DEF CodeKept
<1>11. code.fresh => \E p \in 1..Len(acts) : CompiledBy(acts, code, p)
  <2>1. ~(Len(acts) = 1 /\ acts[1].kind = "panic")
    <3> SUFFICES ASSUME Len(acts) = 1 PROVE acts[1].kind # "panic"
      OBVIOUS
    <3>1. 1 \in DOMAIN acts
      BY <1>1
    <3> QED BY <1>2, <3>1 DEF Running
  <2> QED BY <2>1 DEF IInv, CodeInv, CodeFresh
<1>12. CodeFresh(acts', code')
  <2> SUFFICES ASSUME code.fresh PROVE \E p \in 1..Len(acts') : CompiledBy(acts', code', p)
    BY <1>9 DEF CodeFresh
  <2>1. PICK p \in 1..Len(acts) : CompiledBy(acts, code, p)
    BY <1>11
  <2>2. Len(acts') = Len(acts) /\ IsModule(acts, p)
    BY <1>6, <2>1 DEF Alike, CompiledBy
  <2>3. /\ acts'[p].kind = acts[p].kind /\ acts'[p].slot = acts[p].slot
        /\ acts'[p].any = acts[p].any /\ acts'[p].todo \subseteq acts[p].todo
    BY <1>6, <2>2 DEF Alike
  <2>4. IsDef(acts, Len(acts)) => IsDef(acts', Len(acts'))
    <3>1. Len(acts) \in 1..Len(acts)
      <4>1. Len(acts) \in Nat
        BY <1>1
      <4> QED BY ONLY <4>1, p \in 1..Len(acts)
    <3> QED BY <1>6, <2>2, <3>1 DEF Alike, IsDef
  <2>5. p \in 1..Len(acts') /\ IsModule(acts', p)
    BY <2>2, <2>3 DEF IsModule
  <2>6. CompiledBy(acts', code', p)
    BY <1>9, <2>1, <2>2, <2>3, <2>4, <2>5 DEF CompiledBy
  <2> QED BY <2>5, <2>6
<1>13. Current(slots', code')
  <2> SUFFICES ASSUME code.fresh, ~code.tainted, n # code.name, code.inlined # Unassigned
               PROVE  slots'[code.slot + 1] = code.inlined
    BY <1>9 DEF Current
  <2>1. PICK p \in 1..Len(acts) : CompiledBy(acts, code, p)
    BY <1>11
  <2>2. /\ IsModule(acts, p) /\ code.name \in DOMAIN acts[p].slot
        /\ code.slot = acts[p].slot[code.name]
    BY <2>1 DEF CompiledBy
  <2>3. Known(names, code.name) /\ SlotOf(names, code.name) = code.slot /\ code.slot < Len(slots)
    BY <2>2 DEF IInv, Inv, Resolved
  <2>4. slots[code.slot + 1] = code.inlined
    BY DEF IInv, CodeInv, Current
  <2>5. HasValue(names, slots, code.name, code.inlined)
    BY <2>3, <2>4 DEF HasValue
  <2>6. code.name \in Names \ {n}
    BY <1>1, <2>3, TableLookup
  <2>7. HasValue(names', slots', code.name, code.inlined)
    BY <1>5, <2>5, <2>6 DEF Keeps
  <2>8. SlotOf(names', code.name) = SlotOf(names, code.name)
    BY <1>1, <1>5, <2>3, ExtendsSlot DEF Keeps
  <2> QED BY <2>3, <2>7, <2>8 DEF HasValue
<1> QED BY <1>7, <1>9, <1>10, <1>12, <1>13 DEF IInv, CodeInv

-----------------------------------------------------------------------------
(***************************************************************************)
(* eval_statements begins.                                                 *)
(***************************************************************************)
LEMMA PausedFacts ==
  ASSUME IInv, PausedInDef \/ PausedAtTop
  PROVE  /\ acts # <<>> /\ Len(acts) \in 1..Len(acts) /\ Last(acts) = acts[Len(acts)]
         /\ PausedInDef => IsDef(acts, Len(acts))
         /\ ~PausedInDef => \A i \in 1..Len(acts) : ~IsDef(acts, i) /\ ~InDef(acts, i)
         /\ Live(acts)
<1> DEFINE m == Len(acts)
<1>1. acts \in Seq(Act) /\ m \in Nat /\ DOMAIN acts = 1..m
  BY Basics
<1>2. acts # <<>>
  BY DEF PausedInDef, PausedAtTop
<1>3. m \in 1..m /\ Last(acts) = acts[m]
  BY <1>1, <1>2, FrontPops
<1>4. PausedInDef => IsDef(acts, m)
  BY <1>3 DEF PausedInDef, IsDef
<1>5. ~PausedInDef => \A i \in 1..m : ~IsDef(acts, i) /\ ~InDef(acts, i)
  <2> SUFFICES ASSUME ~PausedInDef, NEW i \in 1..m PROVE ~IsDef(acts, i) /\ ~InDef(acts, i)
    OBVIOUS
  <2>1. \A j \in 1..m : ~IsDef(acts, j)
    BY <1>1 DEF PausedAtTop, IsDef
  <2>2. InDef(acts, i) => i > 1 /\ IsDef(acts, i - 1)
    BY DEF IInv, Inv, Shape
  <2>3. i > 1 => i - 1 \in 1..m
    BY <1>1, Positions
  <2> QED BY <2>1, <2>2, <2>3
<1>6. acts[m].kind \in {"def", "module"}
  BY <1>3 DEF PausedInDef, PausedAtTop
<1>7. Live(acts)
  <2> SUFFICES ASSUME NEW i \in 1..m, acts[i].kind = "panic" PROVE FALSE
    BY DEF Live
  <2>1. m = 1
    BY DEF IInv, Inv, Shape
  <2>2. i = m
    BY <2>1
  <2> QED BY <1>6, <2>2
<1> QED BY <1>2, <1>3, <1>4, <1>5, <1>7

(* The snapshot that DebugAct holds.                                       *)
LEMMA OriginalFacts ==
  ASSUME Table(names), slots \in Seq(Cell), HasSlots
  PROVE  /\ DebugAct \in DebugSet /\ DebugAct.inDef = PausedInDef
         /\ DebugAct.kind = "debug" /\ DebugAct.original = Original
         /\ SnapshotOf(names, slots, Original)
<1> DEFINE m == Len(names)
           x(i) == [name |-> names[i].name, slot |-> names[i].slot,
                    value |-> slots[names[i].slot + 1]]
<1>1. m \in Nat /\ DOMAIN names = 1..m /\ Len(slots) \in Nat
  BY TableLookup
<1>2. \A i \in 1..m : names[i].slot = i - 1 /\ names[i].name \in Names
  BY TableLookup DEF Table
<1>3. m <= Len(slots)
  <2>1. \A i \in 1..m : i - 1 < Len(slots)
    BY <1>1, <1>2 DEF HasSlots
  <2>2. m \in Nat /\ Len(slots) \in Nat
    BY <1>1
  <2> HIDE DEF m
  <2>3. CASE m = 0
    BY <2>2, <2>3
  <2>4. CASE m # 0
    <3>1. m \in 1..m
      BY <2>2, <2>4
    <3>2. m - 1 < Len(slots)
      BY <2>1, <3>1
    <3> QED BY <2>2, <3>2
  <2> QED BY <2>3, <2>4
<1>4. ASSUME NEW i \in 1..m
      PROVE  x(i) \in Snap /\ x(i).name = names[i].name /\ x(i).slot = i - 1 /\ x(i).value = slots[i]
  <2>1. i \in 1..Len(slots) /\ i - 1 \in Nat /\ (i - 1) + 1 = i
    <3> HIDE DEF m
    <3> QED BY <1>1, <1>3
  <2>2. slots[i] \in Cell
    BY <2>1, ElementOfSeq
  <2> QED BY <1>2, <2>1, <2>2 DEF Snap
<1>5. Original = [i \in 1..m |-> x(i)]
  BY <1>1 DEF Original
<1> HIDE DEF x
<1>6. Original \in Seq(Snap) /\ Len(Original) = m /\ \A i \in 1..m : Original[i] = x(i)
  <2> HIDE DEF m
  <2> QED BY <1>1, <1>4, <1>5
<1>7. SnapshotOf(names, slots, Original)
  BY <1>3, <1>4, <1>6 DEF SnapshotOf
<1>8. PausedInDef \in BOOLEAN
  BY DEF PausedInDef
<1>9. DebugAct \in DebugSet /\ DebugAct.inDef = PausedInDef /\ DebugAct.kind = "debug" /\ DebugAct.original = Original
  BY <1>6, <1>8 DEF DebugAct, DebugSet
<1> QED BY <1>7, <1>9

(* The trees below are tainted.                                            *)
LEMMA AllTainted ==
  ASSUME IInv, Live(acts)
  PROVE  LET bs == Tainted(acts, Names)
         IN  /\ bs \in Seq(Act) /\ Alike(acts, bs) /\ Len(bs) = Len(acts)
             /\ Inv(names, slots, bs) /\ Live(bs) /\ AllSpoiled(bs)
             /\ \A i \in 1..Len(bs) : /\ IsDef(bs, i) <=> IsDef(acts, i)
                                      /\ InDef(bs, i) <=> InDef(acts, i)
                                      /\ ~IsModule(acts, i) => bs[i] = acts[i]
<1> DEFINE bs == Tainted(acts, Names)
<1>1. Table(names) /\ slots \in Seq(Cell) /\ acts \in Seq(Act) /\ Inv(names, slots, acts)
  BY Basics DEF IInv
<1>2. /\ bs \in Seq(Act) /\ Alike(acts, bs) /\ Len(bs) = Len(acts)
      /\ \A i \in 1..Len(acts) : IsModule(acts, i) => Names \subseteq bs[i].tainted
      /\ \A i \in 1..Len(acts) : ~IsModule(acts, i) => bs[i] = acts[i]
  <2>1. Names \in SUBSET Names
    OBVIOUS
  <2> QED BY <1>1, <2>1, TaintFacts
<1> HIDE DEF bs
<1>3. \A i \in 1..Len(bs) : bs[i].kind = acts[i].kind
  BY <1>2 DEF Alike
<1>4. \A i \in 1..Len(bs) : IsDef(bs, i) <=> IsDef(acts, i)
  BY <1>3 DEF IsDef
<1>5. \A i \in 1..Len(bs) : InDef(bs, i) <=> InDef(acts, i)
  BY <1>2, <1>3 DEF InDef, IsDebug, Alike
<1>6. Live(bs)
  BY <1>2, <1>3 DEF Live
<1>7. AllSpoiled(bs)
  BY <1>2, <1>3 DEF AllSpoiled, IsModule
<1>8. Inv(names, slots, bs)
  <2>1. Keeps(names, slots, names, slots, {})
    BY <1>1, KeepsReflexive
  <2> QED BY <1>1, <1>2, <2>1, InvKeeps
<1> QED BY <1>2, <1>4, <1>5, <1>6, <1>7, <1>8 DEF bs

LEMMA LocalsGrow ==
  ASSUME NEW t, NEW s, NEW u, NEW r, Keeps(t, s, u, r, {}), NEW frame, LocalsIn(t, s, frame)
  PROVE  LocalsIn(u, r, frame)
<1>1. \A i \in 1..Len(FrameNames) : FrameNames[i] \in Names
  BY ModuleEnvAssumption, ElementOfSeq
<1> QED BY <1>1 DEF LocalsIn, Keeps

(* Up to the declarations of the statements.                               *)
LEMMA DebugBegins ==
  ASSUME IInv, PausedInDef \/ PausedAtTop, HasSlots,
         NEW u, NEW r, Keeps(Pushed.names, Pushed.slots, u, r, {}),
         NEW cs, Pushes(Tainted(acts, Names), cs, DebugAct)
  PROVE  /\ Inv(u, r, cs) /\ Live(cs) /\ AllSpoiled(cs) /\ cs \in Seq(Act)
         /\ CodeKept(u, cs, code)
<1> DEFINE bs == Tainted(acts, Names)
           a == DebugAct
           m == Len(acts)
           pn == Pushed.names
           ps == Pushed.slots
<1>1. /\ Table(names) /\ slots \in Seq(Cell) /\ acts \in Seq(Act) /\ code \in CodeSet /\ m \in Nat
      /\ Inv(names, slots, acts) /\ CodeKept(names, acts, code)
  BY Basics DEF IInv, CodeInv
<1>2. /\ acts # <<>> /\ m \in 1..m
      /\ PausedInDef => IsDef(acts, m)
      /\ ~PausedInDef => \A i \in 1..m : ~InDef(acts, i)
      /\ Live(acts)
  BY PausedFacts
<1>3. /\ a \in DebugSet /\ a.inDef = PausedInDef /\ a.kind = "debug" /\ a.original = Original
      /\ SnapshotOf(names, slots, Original)
  BY <1>1, OriginalFacts
<1>4. /\ bs \in Seq(Act) /\ Alike(acts, bs) /\ Len(bs) = m
      /\ Inv(names, slots, bs) /\ Live(bs) /\ AllSpoiled(bs)
      /\ \A i \in 1..m : /\ IsDef(bs, i) <=> IsDef(acts, i)
                         /\ InDef(bs, i) <=> InDef(acts, i)
                         /\ ~IsModule(acts, i) => bs[i] = acts[i]
  BY <1>2, AllTainted
<1>5. /\ Table(pn) /\ ps \in Seq(Cell) /\ Keeps(names, slots, pn, ps, PushedNames)
      /\ PausedInDef => LocalsIn(pn, ps, acts[m].frame)
  BY <1>1, PushedFacts
<1>6. Pushes(bs, cs, a) /\ Keeps(pn, ps, u, r, {})
  OBVIOUS
<1> HIDE DEF bs, a, pn, ps
<1>7. Table(u) /\ r \in Seq(Cell) /\ Extends(names, u) /\ Len(slots) <= Len(r)
  <2>1. Extends(names, pn) /\ Extends(pn, u) /\ Len(slots) <= Len(ps) /\ Len(ps) <= Len(r) /\ Table(u) /\ r \in Seq(Cell)
    BY <1>5, <1>6 DEF Keeps
  <2>2. Len(slots) \in Nat /\ Len(ps) \in Nat /\ Len(r) \in Nat
    BY <1>1, <1>5, <2>1
  <2>3. Extends(names, u)
    BY <1>1, <1>5, <2>1, ExtendsTransitive
  <2> QED BY <2>1, <2>2, <2>3
<1>8. a.inDef => IsDef(bs, Len(bs)) /\ LocalsIn(u, r, bs[Len(bs)].frame)
  <2> SUFFICES ASSUME PausedInDef PROVE IsDef(bs, m) /\ LocalsIn(u, r, bs[m].frame)
    BY <1>3, <1>4
  <2>1. IsDef(acts, m) /\ ~IsModule(acts, m)
    BY <1>2 DEF IsDef, IsModule
  <2>2. IsDef(bs, m) /\ bs[m] = acts[m]
    BY <1>2, <1>4, <2>1
  <2>3. LocalsIn(u, r, acts[m].frame)
    BY <1>5, <1>6, LocalsGrow
  <2> QED BY <2>2, <2>3
<1>9. ~a.inDef => \A i \in 1..Len(bs) : ~InDef(bs, i)
  BY <1>2, <1>3, <1>4
<1>10. bs # <<>>
  <2>1. Len(bs) # 0
    BY <1>2, <1>4
  <2> QED BY <2>1
<1>11. SnapshotOf(names, slots, a.original)
  BY <1>3
<1>12. Inv(u, r, cs)
  BY <1>3, <1>4, <1>6, <1>7, <1>8, <1>9, <1>10, <1>11, PushDebug
<1>13. a \in Act
  BY <1>3 DEF Act
<1>14. /\ Len(cs) = m + 1 /\ cs[m + 1] = a
       /\ \A i \in 1..m + 1 : i \in 1..m \/ i = m + 1
       /\ \A i \in 1..m : /\ cs[i] = bs[i] /\ (IsModule(cs, i) <=> IsModule(bs, i))
                          /\ (IsDebug(cs, i) <=> IsDebug(bs, i))
  BY <1>4, <1>6, <1>13, PushFacts
<1>15. Live(cs)
  BY <1>3, <1>4, <1>14 DEF Live
<1>16. AllSpoiled(cs)
  BY <1>3, <1>4, <1>14 DEF AllSpoiled, IsModule
<1>17. CodeKept(u, cs, code)
  <2>1. CodeKept(u, bs, code)
    BY <1>1, <1>4, <1>7, KeptGrows
  <2>2. code.kept => code.slot < Len(Original)
    <3> SUFFICES ASSUME code.kept PROVE code.slot < Len(Original)
      OBVIOUS
    <3>1. Known(names, code.name) /\ SlotOf(names, code.name) = code.slot
      BY <1>1 DEF CodeKept
    <3>2. SlotOf(names, code.name) < Len(names)
      BY <1>1, <3>1, TableLookup
    <3> QED BY <1>3, <3>1, <3>2 DEF SnapshotOf
  <2> QED BY <1>3, <1>4, <1>14, <2>1, <2>2 DEF CodeKept
<1> QED BY <1>6, <1>12, <1>15, <1>16, <1>17 DEF Pushes

LEMMA BeginDebugStep ==
  ASSUME IInv, NEW tree \in Trees, BeginDebug(tree)
  PROVE  IInv'
<1> DEFINE bs == Tainted(acts, Names)
           pn == Pushed.names
           ps == Pushed.slots
           x == DebugAct
           a == ModuleAct(pn, ps, tree[1], tree[2], tree[3])
           cs == Append(bs, x)
<1>1. Table(names) /\ slots \in Seq(Cell) /\ acts \in Seq(Act) /\ code \in CodeSet /\ Inv(names, slots, acts)
  BY Basics DEF IInv
<1>2. /\ PausedInDef \/ PausedAtTop
      /\ HasSlots /\ names' = Declare(pn, tree[1], tree[2])
      /\ slots' = EnsureSlots(ps, Len(names'))
      /\ acts' = bs \o <<x, a>> /\ code' = Outdated
  BY DEF BeginDebug
<1>3. Table(pn) /\ ps \in Seq(Cell)
  BY <1>1, PushedFacts
<1>4. /\ Keeps(pn, ps, names', slots', {})
      /\ a \in ModuleSet /\ Prepared(names', slots', a)
  <2> HIDE DEF pn, ps
  <2> QED BY <1>2, <1>3, ModuleActFacts
<1>5. bs \in Seq(Act)
  <2>1. Live(acts)
    BY <1>2, PausedFacts
  <2> QED BY <2>1, AllTainted
<1>6. x \in Act /\ a \in Act
  BY <1>1, <1>2, <1>4, OriginalFacts DEF Act
<1> HIDE DEF bs, x, a, pn, ps
<1>7. Pushes(bs, cs, x) /\ cs \in Seq(Act)
  BY <1>5, <1>6, AppendProperties DEF Pushes
<1>8. Pushes(cs, acts', a)
  <2>1. bs \o <<x, a>> = Append(cs, a)
    BY <1>5, <1>6
  <2>2. acts' = Append(cs, a) /\ cs \in Seq(Act) /\ a \in Act
    BY <1>2, <1>6, <1>7, <2>1
  <2> HIDE DEF cs
  <2> QED BY ONLY <2>2, AppendProperties DEF Pushes
<1> HIDE DEF cs
<1>9. /\ Inv(names', slots', cs) /\ Live(cs) /\ AllSpoiled(cs)
      /\ CodeKept(names', cs, code)
  BY <1>2, <1>4, <1>7, DebugBegins DEF bs, x, pn, ps
<1>10. Inv(names', slots', acts')
  BY <1>4, <1>8, <1>9, PushModule
<1>11. CodeKept(names', acts', code)
  <2>1. \A j \in 1..Len(acts') : IsDebug(acts', j) => j \in 1..Len(cs) /\ acts'[j] = cs[j] /\ IsDebug(cs, j)
    BY <1>4, <1>6, <1>7, <1>8, PushFacts DEF IsDebug, ModuleSet
  <2> QED BY <1>9, <2>1 DEF CodeKept
<1>12. CodeInv(names', slots', acts', code')
  BY <1>1, <1>2, <1>11, OutdatedFacts
<1> QED BY <1>10, <1>12 DEF IInv

LEMMA BeginDebugScopeErrorStep ==
  ASSUME IInv, NEW tree \in Trees, BeginDebugScopeError(tree)
  PROVE  IInv'
<1> DEFINE bs == Tainted(acts, Names)
           pn == Pushed.names
           ps == Pushed.slots
           x == DebugAct
<1>1. Table(names) /\ slots \in Seq(Cell) /\ acts \in Seq(Act) /\ code \in CodeSet /\ Inv(names, slots, acts)
  BY Basics DEF IInv
<1>2. /\ PausedInDef \/ PausedAtTop
      /\ HasSlots /\ names' = Declare(pn, tree[1], tree[2])
      /\ slots' = ps /\ acts' = Append(bs, x) /\ code' = Outdated
  BY DEF BeginDebugScopeError
<1>3. Table(pn) /\ ps \in Seq(Cell)
  BY <1>1, PushedFacts
<1>4. Table(names') /\ Extends(pn, names')
  <2> HIDE DEF pn, ps
  <2> QED BY <1>2, <1>3, ModuleActFacts
<1>5. bs \in Seq(Act)
  <2>1. Live(acts)
    BY <1>2, PausedFacts
  <2> QED BY <2>1, AllTainted
<1>6. x \in Act
  BY <1>1, <1>2, OriginalFacts DEF Act
<1> HIDE DEF bs, x, pn, ps
<1>7. Keeps(pn, ps, names', ps, {})
  <2>1. Len(ps) <= Len(ps)
    <3>1. Len(ps) \in Nat
      BY <1>3
    <3> QED BY ONLY <3>1
  <2> QED BY <1>3, <1>4, <2>1, KeepsGrown
<1>8. Pushes(bs, acts', x)
  BY <1>2, <1>5, <1>6, AppendProperties DEF Pushes
<1>9. Inv(names', ps, acts') /\ CodeKept(names', acts', code)
  BY <1>2, <1>7, <1>8, DebugBegins DEF bs, x, pn, ps
<1>10. CodeInv(names', slots', acts', code')
  BY <1>1, <1>2, <1>9, OutdatedFacts
<1> QED BY <1>2, <1>9, <1>10 DEF IInv

LEMMA BeginDebugNoDefStep ==
  ASSUME IInv, BeginDebugNoDef
  PROVE  IInv'
<1> DEFINE W == Range(FrameNames)
<1>1. Table(names) /\ slots \in Seq(Cell) /\ acts \in Seq(Act) /\ code \in CodeSet /\ Inv(names, slots, acts)
  BY Basics DEF IInv
<1>2. /\ names' = PushedLocals.names /\ slots' = PushedLocals.slots
      /\ acts' = Tainted(Touch(W), Names) /\ code' = Outdated
  BY DEF BeginDebugNoDef
<1>3. W \in SUBSET Names
  BY ModuleEnvAssumption DEF Range
<1>4. Keeps(names, slots, names', slots', W)
  BY <1>1, <1>2, PushedLocalsFacts
<1> HIDE DEF W
<1>5. /\ acts' \in Seq(Act) /\ Alike(acts, acts')
      /\ \A i \in 1..Len(acts') : IsModule(acts', i) => Names \subseteq acts'[i].tainted
      /\ \A j \in 1..Len(acts') : IsDebug(acts', j) => W \subseteq acts'[j].touched
  <2>1. Names \in SUBSET Names /\ W \subseteq Names
    BY <1>3
  <2> QED BY <1>1, <1>2, <1>3, <2>1, TouchTaint
<1>6. Inv(names', slots', acts')
  <2>1. \A i \in 1..Len(acts') : IsModule(acts', i) =>
            \A l \in acts'[i].todo : l \in W => l \in acts'[i].tainted
    BY <1>3, <1>5
  <2> QED BY <1>1, <1>4, <1>5, <2>1, InvKeeps
<1>7. CodeKept(names', acts', code)
  <2>1. CodeKept(names, acts, code)
    BY DEF IInv, CodeInv
  <2>2. Table(names') /\ Extends(names, names')
    BY <1>4 DEF Keeps
  <2> QED BY <1>1, <1>5, <2>1, <2>2, KeptGrows
<1>8. CodeInv(names', slots', acts', code')
  BY <1>1, <1>2, <1>7, OutdatedFacts
<1> QED BY <1>6, <1>8 DEF IInv

(* A panic ends the run.                                                   *)
Panicked == <<[kind |-> "panic"]>>
LEMMA PanicInv ==
  ASSUME NEW t, Table(t), NEW s \in Seq(Cell)
  PROVE  /\ Inv(t, s, Panicked) /\ Len(Panicked) = 1 /\ Panicked[1].kind = "panic"
         /\ \A j \in 1..Len(Panicked) : ~IsDebug(Panicked, j)
<1> DEFINE q == Panicked
<1>1. q \in Seq(Act) /\ Len(q) = 1 /\ q[1].kind = "panic"
  BY DEF Panicked, Act, PanicSet
<1> HIDE DEF q
<1>2. \A i \in 1..Len(q) : i = 1 /\ q[i].kind = "panic"
  BY <1>1
<1>3. \A i \in 1..Len(q) : ~IsModule(q, i) /\ ~IsDebug(q, i) /\ ~InDef(q, i)
  BY <1>2 DEF IsModule, IsDebug, InDef
<1>4. Shape(q)
  BY <1>1, <1>3 DEF Shape
<1>5. Snapshots(t, s, q) /\ Resolved(t, s, q) /\ Unwritten(s, q) /\ Spoiled(q) /\ LocalsSeen(t, s, q)
  BY <1>3 DEF Snapshots, Resolved, Unwritten, Spoiled, LocalsSeen
<1>6. Inv(t, s, q)
  BY <1>1, <1>4, <1>5 DEF Inv
<1> QED BY <1>1, <1>3, <1>6 DEF q

LEMMA BeginDebugPanicsStep ==
  ASSUME IInv, BeginDebugPanics
  PROVE  IInv'
<1>1. Table(names) /\ slots \in Seq(Cell) /\ code \in CodeSet
  BY Basics
<1>2. acts' = Panicked /\ names' = names /\ slots' = slots /\ code' = code
  BY DEF BeginDebugPanics, Panicked
<1>3. /\ Inv(names', slots', acts') /\ Len(acts') = 1 /\ acts'[1].kind = "panic"
      /\ \A j \in 1..Len(acts') : ~IsDebug(acts', j)
  BY <1>1, <1>2, PanicInv
<1>4. CodeKept(names', acts', code')
  BY <1>2, <1>3 DEF IInv, CodeInv, CodeKept
<1>5. CodeFresh(acts', code')
  BY <1>3 DEF CodeFresh
<1>6. Current(slots', code')
  BY <1>2 DEF IInv, CodeInv
<1> QED BY <1>1, <1>2, <1>3, <1>4, <1>5, <1>6 DEF IInv, CodeInv

-----------------------------------------------------------------------------
(***************************************************************************)
(* eval_statements returns.                                                *)
(***************************************************************************)
LEMMA TopSnapshot ==
  ASSUME IInv, acts # <<>>, Last(acts).kind = "debug"
  PROVE  LET o == Last(acts).original
         IN  /\ o = acts[Len(acts)].original
             /\ o \in Seq(Snap) /\ Len(o) \in Nat /\ DOMAIN o = 1..Len(o)
             /\ Len(o) <= Len(names) /\ Len(o) <= Len(slots)
             /\ \A k \in 1..Len(o) : /\ o[k] \in Snap /\ o[k].name = names[k].name /\ o[k].slot = k - 1
                                     /\ k \in 1..Len(names) /\ k \in 1..Len(slots)
<1> DEFINE m == Len(acts)
           o == acts[m].original
<1>1. /\ Table(names) /\ slots \in Seq(Cell) /\ acts \in Seq(Act) /\ m \in Nat
      /\ Len(names) \in Nat /\ Len(slots) \in Nat
  BY Basics
<1>2. m \in 1..m /\ Last(acts) = acts[m] /\ IsDebug(acts, m)
  BY <1>1, FrontPops DEF IsDebug
<1>3. acts[m] \in DebugSet
  BY <1>1, <1>2, ActsOf
<1>4. o \in Seq(Snap)
  BY <1>3 DEF DebugSet
<1>5. /\ Len(o) <= Len(names) /\ Len(o) <= Len(slots)
      /\ \A k \in 1..Len(o) : o[k].name = names[k].name /\ o[k].slot = k - 1
  BY <1>2 DEF IInv, Inv, Snapshots
<1>6. o = Last(acts).original
  BY <1>2
<1> HIDE DEF o
<1>7. Len(o) \in Nat /\ DOMAIN o = 1..Len(o) /\ \A k \in 1..Len(o) : o[k] \in Snap
  BY <1>4, LenProperties, ElementOfSeq
<1>8. \A k \in 1..Len(o) : k \in 1..Len(names) /\ k \in 1..Len(slots)
  <2>1. Len(o) \in Nat /\ Len(names) \in Nat /\ Len(slots) \in Nat /\ Len(o) <= Len(names) /\ Len(o) <= Len(slots)
    BY <1>1, <1>5, <1>7
  <2> QED BY ONLY <2>1
<1>9. o = acts[Len(acts)].original
  BY DEF o
<1> HIDE DEF m
<1> QED BY <1>4, <1>5, <1>6, <1>7, <1>8, <1>9

(* hide_name leaves the names of the snapshot, each at its place.          *)
LEMMA HiddenFacts ==
  ASSUME IInv, acts # <<>>, Last(acts).kind = "debug"
  PROVE  LET o == Last(acts).original
             u == HiddenNames(o)
         IN  u \in Seq(Entry) /\ Len(u) = Len(o) /\ \A k \in 1..Len(o) : u[k] = names[k]
<1> DEFINE o == Last(acts).original
           old == {o[i].name : i \in DOMAIN o}
           P == {k \in DOMAIN names : names[k].name \notin Names \ old}
<1>1. /\ Table(names) /\ Len(names) \in Nat /\ DOMAIN names = 1..Len(names)
      /\ names \in Seq(Entry)
      /\ \A k \in 1..Len(names) : names[k].name \in Names
      /\ \A i, j \in 1..Len(names) : names[i].name = names[j].name => i = j
  BY Basics, TableLookup DEF Table
<1>2. /\ Len(o) \in Nat /\ DOMAIN o = 1..Len(o) /\ Len(o) <= Len(names)
      /\ \A k \in 1..Len(o) : o[k].name = names[k].name /\ k \in 1..Len(names)
  BY TopSnapshot
<1>3. HiddenNames(o) = At(names, P)
  BY DEF HiddenNames, HideNames
<1> HIDE DEF o
<1>4. P = 1..Len(o)
  <2>1. ASSUME NEW k \in P PROVE k \in 1..Len(o)
    <3>1. k \in 1..Len(names) /\ names[k].name \in old
      BY <1>1
    <3>2. PICK i \in 1..Len(o) : names[k].name = o[i].name
      BY <1>2, <3>1
    <3>3. k = i
      BY <1>1, <1>2, <3>1, <3>2
    <3> QED BY <3>2, <3>3
  <2>2. ASSUME NEW k \in 1..Len(o) PROVE k \in P
    BY <1>1, <1>2
  <2> QED BY <2>1, <2>2
<1> HIDE DEF P
<1>5. /\ At(names, 1..Len(o)) \in Seq(Entry) /\ Len(At(names, 1..Len(o))) = Len(o)
      /\ \A i \in 1..Len(o) : At(names, 1..Len(o))[i] = names[i]
  BY <1>1, <1>2, AtPrefix
<1> QED BY <1>3, <1>4, <1>5 DEF o

(* The slots of the snapshot's variables get their values back.            *)
LEMMA RestoredFacts ==
  ASSUME IInv, acts # <<>>, Last(acts).kind = "debug"
  PROVE  LET o == Last(acts).original
             r == RestoredSlots(o)
         IN  /\ r \in Seq(Cell) /\ Len(r) = Len(slots)
             /\ \A k \in 1..Len(o) : o[k].value # Unassigned => r[k] = o[k].value
<1> DEFINE o == Last(acts).original
           Back(j) == \E i \in DOMAIN o : /\ o[i].value # Unassigned
                                          /\ Known(names, o[i].name) /\ SlotOf(names, o[i].name) = j - 1
           C(j) == CHOOSE i \in DOMAIN o : SlotOf(names, o[i].name) = j - 1
           val(j) == IF Back(j) THEN o[C(j)].value ELSE slots[j]
<1>1. Table(names) /\ slots \in Seq(Cell) /\ Len(slots) \in Nat /\ DOMAIN slots = 1..Len(slots)
  BY Basics
<1>2. /\ Len(o) \in Nat /\ DOMAIN o = 1..Len(o)
      /\ \A k \in 1..Len(o) : /\ o[k] \in Snap /\ o[k].name = names[k].name
                              /\ k \in 1..Len(names) /\ k \in 1..Len(slots)
  BY TopSnapshot
<1>3. RestoredSlots(o) = [j \in 1..Len(slots) |-> val(j)]
  BY <1>1 DEF RestoredSlots
<1> HIDE DEF o
<1>4. \A k \in 1..Len(o) : Known(names, o[k].name) /\ SlotOf(names, o[k].name) = k - 1
  BY <1>1, <1>2, TableLookup
<1>5. \A k \in 1..Len(o) : C(k) = k
  <2> SUFFICES ASSUME NEW k \in 1..Len(o) PROVE C(k) = k
    OBVIOUS
  <2>1. \E i \in DOMAIN o : SlotOf(names, o[i].name) = k - 1
    BY <1>2, <1>4
  <2>2. C(k) \in DOMAIN o /\ SlotOf(names, o[C(k)].name) = k - 1
    BY <2>1
  <2>3. C(k) \in 1..Len(o)
    BY <1>2, <2>2
  <2> HIDE DEF C
  <2>4. C(k) - 1 = k - 1
    BY <1>4, <2>2, <2>3
  <2> QED BY <1>2, <2>3, <2>4
<1>6. \A j \in 1..Len(slots) : Back(j) => j \in 1..Len(o)
  <2> SUFFICES ASSUME NEW j \in 1..Len(slots), Back(j) PROVE j \in 1..Len(o)
    OBVIOUS
  <2>1. PICK i \in 1..Len(o) : SlotOf(names, o[i].name) = j - 1
    BY <1>2
  <2>2. i - 1 = j - 1
    BY <1>4, <2>1
  <2>3. i = j
    BY <1>1, <1>2, <2>2
  <2> QED BY <2>3
<1>7. \A k \in 1..Len(o) : o[k].value # Unassigned => Back(k)
  BY <1>2, <1>4
<1> HIDE DEF Back, C
<1>8. \A j \in 1..Len(slots) : val(j) \in Cell
  <2> SUFFICES ASSUME NEW j \in 1..Len(slots) PROVE val(j) \in Cell
    OBVIOUS
  <2>1. CASE Back(j)
    BY <1>2, <1>5, <1>6, <2>1 DEF Snap
  <2>2. CASE ~Back(j)
    <3>1. slots[j] \in Cell
      BY <1>1, ElementOfSeq
    <3> QED BY <2>2, <3>1
  <2> QED BY <2>1, <2>2
<1>9. \A k \in 1..Len(o) : o[k].value # Unassigned => val(k) = o[k].value
  BY <1>5, <1>7
<1> HIDE DEF val
<1>10. RestoredSlots(o) \in Seq(Cell) /\ Len(RestoredSlots(o)) = Len(slots)
  BY <1>1, <1>3, <1>8
<1>11. \A k \in 1..Len(o) : o[k].value # Unassigned => RestoredSlots(o)[k] = o[k].value
  BY <1>2, <1>3, <1>9
<1> QED BY <1>10, <1>11 DEF o

(* Get reads cells, and a local that should keep its value does.           *)
LEMMA FrameFacts ==
  ASSUME IInv, NEW frame \in [1..Len(FrameNames) -> Cell],
         \A i \in DOMAIN FrameNames : ~GetPanics(FrameNames[i])
  PROVE  /\ FrameAfter(frame) \in [1..Len(FrameNames) -> Cell]
         /\ \A i \in 1..Len(FrameNames) :
              HasValue(names, slots, FrameNames[i], frame[i]) => FrameAfter(frame)[i] = frame[i]
<1>1. DOMAIN FrameNames = 1..Len(FrameNames) /\ DOMAIN frame = 1..Len(FrameNames)
  BY ModuleEnvAssumption
<1>2. Table(names) /\ slots \in Seq(Cell) /\ Len(slots) \in Nat
  BY Basics
<1>3. ASSUME NEW n, ~GetPanics(n) PROVE Get(n) \in Cell
  <2>1. CASE Known(names, n) /\ names[PlaceOf(names, n)].public
    <3> DEFINE k == SlotOf(names, n)
    <3>1. k \in Nat /\ ~(k >= Len(slots))
      BY <1>2, <1>3, <2>1, TableLookup DEF GetPanics
    <3> HIDE DEF k
    <3>2. k + 1 \in 1..Len(slots)
      BY <1>2, <3>1
    <3>3. slots[k + 1] \in Cell
      BY <1>2, <3>2, ElementOfSeq
    <3> QED BY <2>1, <3>3 DEF Get, k
  <2>2. CASE ~(Known(names, n) /\ names[PlaceOf(names, n)].public)
    <3>1. Get(n) = Unassigned
      BY <2>2 DEF Get
    <3> QED BY <3>1 DEF Cell
  <2> QED BY <2>1, <2>2
<1>4. FrameAfter(frame) \in [1..Len(FrameNames) -> Cell]
  <2>1. \A i \in 1..Len(FrameNames) : Get(FrameNames[i]) \in Cell
    BY <1>1, <1>3
  <2> QED BY <1>1, <2>1 DEF FrameAfter
<1>5. ASSUME NEW i \in 1..Len(FrameNames), HasValue(names, slots, FrameNames[i], frame[i])
      PROVE  FrameAfter(frame)[i] = frame[i]
  <2>1. Get(FrameNames[i]) \in {frame[i], Unassigned}
    BY <1>5 DEF Get, HasValue
  <2> QED BY <1>1, <2>1 DEF FrameAfter
<1> QED BY <1>4, <1>5

(* What the step does when eval_statements was called in a def.            *)
LEMMA EndInDef ==
  ASSUME IInv, EndDebug, Last(acts).inDef, \A i \in DOMAIN FrameNames : ~GetPanics(FrameNames[i])
  PROVE  LET m == Len(acts)
             as == Front(acts)
             o == acts[m].original
         IN  /\ acts # <<>> /\ Last(acts).kind = "debug" /\ Last(acts) = acts[m]
             /\ m \in 1..m /\ m - 1 \in 1..m /\ InDef(acts, m) /\ Pops(acts, as)
             /\ as \in Seq(Act) /\ as # <<>> /\ Len(as) = m - 1 /\ as[m - 1] = acts[m - 1]
             /\ IsDef(as, Len(as)) /\ acts[m - 1].frame \in [1..Len(FrameNames) -> Cell]
             /\ Reframed(as, acts', FrameAfter(acts[m - 1].frame))
             /\ names' = HiddenNames(o) /\ slots' = RestoredSlots(o)
             /\ CutBack(names, slots, o, names', slots')
             /\ code' = Outdated
<1> DEFINE m == Len(acts)
           as == Front(acts)
           o == acts[m].original
<1>1. acts \in Seq(Act) /\ m \in Nat
  BY Basics
<1>2. /\ acts # <<>> /\ Last(acts).kind = "debug" /\ code' = Outdated
      /\ acts' = [as EXCEPT ![m - 1].frame = FrameAfter(@)]
      /\ names' = HiddenNames(Last(acts).original) /\ slots' = RestoredSlots(Last(acts).original)
  BY DEF EndDebug
<1>3. /\ Pops(acts, as) /\ Last(acts) = acts[m] /\ m \in 1..m /\ as \in Seq(Act)
      /\ Len(as) = m - 1 /\ \A i \in 1..m - 1 : as[i] = acts[i]
  BY <1>1, <1>2, FrontPops DEF Pops
<1>4. InDef(acts, m)
  BY <1>2, <1>3 DEF InDef, IsDebug
<1>5. m > 1 /\ IsDef(acts, m - 1)
  BY <1>3, <1>4 DEF IInv, Inv, Shape
<1>6. m - 1 \in 1..m /\ m - 1 \in 1..m - 1 /\ m - 1 # 0
  <2>1. \A k \in Nat : k > 1 => k - 1 \in 1..k /\ k - 1 \in 1..k - 1 /\ k - 1 # 0
    OBVIOUS
  <2> QED BY <1>1, <1>5, <2>1
<1>7. as[m - 1] = acts[m - 1]
  BY <1>3, <1>6
<1>8. IsDef(as, Len(as)) /\ as # <<>>
  <2>1. IsDef(as, Len(as))
    BY <1>3, <1>5, <1>7 DEF IsDef
  <2>2. Len(as) # 0
    BY <1>3, <1>6
  <2>3. as # <<>>
    <3>1. Len(<<>>) = 0
      OBVIOUS
    <3> HIDE DEF as
    <3> QED BY ONLY <2>2, <3>1
  <2> QED BY <2>1, <2>3
<1>9. acts[m - 1].frame \in [1..Len(FrameNames) -> Cell]
  <2>1. acts[m - 1] \in DefSet
    BY <1>1, <1>5, <1>6, ActsOf
  <2> QED BY <2>1 DEF DefSet
<1>10. Reframed(as, acts', FrameAfter(acts[m - 1].frame))
  <2>1. acts' = [as EXCEPT ![Len(as)].frame = FrameAfter(as[m - 1].frame)]
    BY <1>2, <1>3
  <2> QED BY <1>7, <2>1 DEF Reframed
<1>11. names' = HiddenNames(o) /\ slots' = RestoredSlots(o)
  BY <1>2, <1>3
<1>12. CutBack(names, slots, o, names', slots')
  <2>1. o = Last(acts).original
    BY <1>3
  <2>2. HiddenNames(o) \in Seq(Entry) /\ Len(HiddenNames(o)) = Len(o) /\ \A k \in 1..Len(o) : HiddenNames(o)[k] = names[k]
    BY <1>2, <2>1, HiddenFacts
  <2>3. /\ RestoredSlots(o) \in Seq(Cell) /\ Len(RestoredSlots(o)) = Len(slots)
        /\ \A k \in 1..Len(o) : o[k].value # Unassigned => RestoredSlots(o)[k] = o[k].value
    BY <1>2, <2>1, RestoredFacts
  <2> QED BY <1>11, <2>2, <2>3 DEF CutBack
<1> QED BY <1>2, <1>3, <1>4, <1>6, <1>7, <1>8, <1>9, <1>10, <1>11, <1>12

LEMMA EndDebugStep ==
  ASSUME IInv, EndDebug
  PROVE  IInv'
<1> DEFINE m == Len(acts)
           as == Front(acts)
           o == acts[m].original
<1>1. /\ Table(names) /\ slots \in Seq(Cell) /\ acts \in Seq(Act) /\ code \in CodeSet /\ m \in Nat
      /\ Inv(names, slots, acts) /\ CodeKept(names, acts, code)
  BY Basics DEF IInv, CodeInv
<1>2. acts # <<>> /\ Last(acts).kind = "debug" /\ code' = Outdated
  BY DEF EndDebug
<1>3. Pops(acts, as) /\ Last(acts) = acts[m] /\ m \in 1..m
  BY <1>1, <1>2, FrontPops
<1>4. SUFFICES Inv(names', slots', acts') /\ CodeKept(names', acts', code)
  BY <1>1, <1>2, OutdatedFacts DEF IInv
<1>5. CASE ~Last(acts).inDef
  <2>1. acts' = as /\ names' = names /\ slots' = slots
    BY <1>5 DEF EndDebug
  <2>2. ~InDef(acts, m)
    BY <1>3, <1>5 DEF InDef
  <2> HIDE DEF as
  <2>3. Inv(names, slots, as)
    BY <1>1, <1>3, <2>2, PopPlain
  <2>4. CodeKept(names, as, code)
    BY <1>1, <1>3, KeptPops
  <2> QED BY <2>1, <2>3, <2>4
<1>6. CASE Last(acts).inDef /\ \E i \in DOMAIN FrameNames : GetPanics(FrameNames[i])
  <2>1. acts' = Panicked /\ names' = names /\ slots' = slots
    BY <1>6 DEF EndDebug, Panicked
  <2>2. /\ Inv(names', slots', acts')
        /\ \A j \in 1..Len(acts') : ~IsDebug(acts', j)
    BY <1>1, <2>1, PanicInv
  <2> QED BY <1>1, <2>1, <2>2 DEF CodeKept
<1>7. CASE Last(acts).inDef /\ \A i \in DOMAIN FrameNames : ~GetPanics(FrameNames[i])
  <2> DEFINE frame == FrameAfter(acts[m - 1].frame)
  <2>1. /\ InDef(acts, m) /\ as \in Seq(Act) /\ as # <<>> /\ IsDef(as, Len(as))
        /\ acts[m - 1].frame \in [1..Len(FrameNames) -> Cell]
        /\ Reframed(as, acts', frame) /\ CutBack(names, slots, o, names', slots')
    BY <1>7, EndInDef
  <2>2. frame \in [1..Len(FrameNames) -> Cell]
    BY <1>7, <2>1, FrameFacts
  <2> HIDE DEF frame, as
  <2>3. Inv(names', slots', as)
    BY <1>1, <1>3, <2>1, PopDebug
  <2>4. acts' \in Seq(Act) /\ Alike(as, acts')
    BY <2>1, <2>2, NewFrame
  <2>5. Table(names') /\ slots' \in Seq(Cell)
    BY <2>3 DEF Inv
  <2>6. Inv(names', slots', acts')
    <3>1. Keeps(names', slots', names', slots', {})
      BY <2>5, KeepsReflexive
    <3> QED BY <2>3, <2>4, <3>1, InvKeeps
  <2>7. CodeKept(names', as, code)
    <3> SUFFICES ASSUME code.kept
                 PROVE  /\ Known(names', code.name) /\ SlotOf(names', code.name) = code.slot
                        /\ \A j \in 1..Len(as) : IsDebug(as, j) => code.slot < Len(as[j].original)
      BY DEF CodeKept
    <3>1. CodeKept(names, as, code)
      BY <1>1, <1>3, KeptPops
    <3>2. \A j \in 1..Len(as) : IsDebug(as, j) => code.slot < Len(as[j].original)
      BY <3>1 DEF CodeKept
    <3>3. Known(names, code.name) /\ SlotOf(names, code.name) = code.slot /\ code.slot < Len(o)
      BY <1>1, <1>3, <2>1 DEF CodeKept, InDef
    <3> DEFINE p == PlaceOf(names, code.name)
    <3>4. p \in 1..Len(names) /\ names[p].name = code.name /\ code.slot = p - 1
      BY <1>1, <3>3, TableLookup
    <3> HIDE DEF p, o
    <3>5. /\ Len(names') = Len(o) /\ Len(o) \in Nat /\ Len(names) \in Nat
          /\ \A k \in 1..Len(o) : names'[k] = names[k]
      BY <1>1, <2>1, <2>5, TableLookup DEF CutBack
    <3>6. p \in 1..Len(names')
      <4>1. p \in Nat /\ p >= 1 /\ p - 1 < Len(o)
        BY <3>3, <3>4, <3>5
      <4> QED BY <3>5, <4>1
    <3>7. names'[p].name = code.name
      BY <3>4, <3>5, <3>6
    <3>8. Known(names', code.name) /\ SlotOf(names', code.name) = p - 1
      BY <2>5, <3>6, <3>7, TableLookup
    <3> QED BY <3>2, <3>4, <3>8
  <2>8. CodeKept(names', acts', code)
    BY <2>4, <2>5, <2>7, KeptGrows, ExtendsReflexive
  <2> QED BY <2>6, <2>8
<1> QED BY <1>5, <1>6, <1>7

-----------------------------------------------------------------------------
(***************************************************************************)
(* The theorems.                                                           *)
(***************************************************************************)
LEMMA InitIInv == Init => IInv
<1> SUFFICES ASSUME Init PROVE IInv
  OBVIOUS
<1> DEFINE q == <<>>
<1>1. names = q /\ slots = q /\ acts = q /\ code = NoCode
  BY DEF Init
<1>2. q \in Seq(Entry) /\ q \in Seq(Cell) /\ q \in Seq(Act) /\ Len(q) = 0
  OBVIOUS
<1>3. \A i \in 1..Len(q) : FALSE
  BY <1>2
<1> HIDE DEF q
<1>4. Table(q)
  BY <1>2, <1>3 DEF Table
<1>5. Inv(q, q, q)
  BY <1>2, <1>3, <1>4 DEF Inv, Shape, Snapshots, Resolved, Unwritten, Spoiled, LocalsSeen
<1>6. NoCode \in CodeSet /\ NoCode.fresh = FALSE /\ NoCode.kept = FALSE
  BY DEF NoCode, CodeSet, Cell
<1>7. CodeInv(q, q, q, NoCode)
  BY <1>6 DEF CodeInv, CodeKept, CodeFresh, Current
<1> QED BY <1>1, <1>5, <1>7 DEF IInv

LEMMA NextIInv == IInv /\ [Next]_vars => IInv'
<1> SUFFICES ASSUME IInv, [Next]_vars PROVE IInv'
  OBVIOUS
<1>1. ASSUME NEW tree \in Trees, EvalModule(tree) PROVE IInv'
  BY <1>1, EvalModuleStep
<1>2. ASSUME NEW tree \in Trees, EvalModuleScopeError(tree) PROVE IInv'
  BY <1>2, EvalModuleScopeErrorStep
<1>3. ASSUME NEW n \in Names, NEW v \in Values, Assign(n, v) PROVE IInv'
  BY <1>3, AssignStep
<1>4. ASSUME NEW n \in Names, CompileDef(n) PROVE IInv'
  BY <1>4, CompileDefStep
<1>5. CASE Finish
  BY <1>5, FinishStep
<1>6. ASSUME NEW frozen \in BOOLEAN, Call(frozen) PROVE IInv'
  BY <1>6, CallStep
<1>7. ASSUME NEW i \in DOMAIN FrameNames, NEW v \in Values, AssignLocal(i, v) PROVE IInv'
  BY <1>7, AssignLocalStep
<1>8. ASSUME NEW n \in Names, NEW v \in Values, NEW public \in BOOLEAN, HostSet(n, v, public) PROVE IInv'
  BY <1>8, HostSetStep
<1>9. ASSUME NEW tree \in Trees, BeginDebug(tree) PROVE IInv'
  BY <1>9, BeginDebugStep
<1>10. ASSUME NEW tree \in Trees, BeginDebugScopeError(tree) PROVE IInv'
  BY <1>10, BeginDebugScopeErrorStep
<1>11. CASE BeginDebugNoDef
  BY <1>11, BeginDebugNoDefStep
<1>12. CASE BeginDebugPanics
  BY <1>12, BeginDebugPanicsStep
<1>13. CASE EndDebug
  BY <1>13, EndDebugStep
<1>14. CASE UNCHANGED vars
  <2>1. names' = names /\ slots' = slots /\ acts' = acts /\ code' = code
    BY <1>14 DEF vars
  <2> QED BY <2>1 DEF IInv
<1> QED BY <1>1, <1>2, <1>3, <1>4, <1>5, <1>6, <1>7, <1>8, <1>9, <1>10, <1>11, <1>12, <1>13, <1>14 DEF Next

(* Names are numbered 0, 1, 2, ... and stay so while names are added by    *)
(* trees, by the host and by eval_statements and hidden again: a new name  *)
(* never gets the slot of another (add_name_visibility, hide_name).        *)
THEOREM SlotsAlwaysDistinct == Spec => []SlotsDistinct
<1>1. IInv => SlotsDistinct
  <2> SUFFICES ASSUME IInv PROVE SlotsDistinct
    OBVIOUS
  <2>1. /\ Table(names) /\ slots \in Seq(Cell) /\ acts \in Seq(Act) /\ code \in CodeSet
        /\ Len(names) \in Nat /\ DOMAIN names = 1..Len(names)
    BY Basics
  <2>2. \A i \in 1..Len(names) : names[i] \in Entry /\ names[i].slot = i - 1
    BY <2>1, TableLookup DEF Table
  <2>3. TypeOK
    <3>1. \A i \in DOMAIN names : names[i].name \in Names /\ names[i].slot \in Nat /\ names[i].public \in BOOLEAN
      BY <2>1, <2>2 DEF Entry
    <3>2. slots \in Seq(Values \union {Unassigned})
      BY <2>1 DEF Cell
    <3>3. \A i \in DOMAIN acts : acts[i].kind \in {"module", "def", "debug", "panic"}
      BY <2>1, ActsOf
    <3>4. code.inlined \in Values \union {Unassigned}
      BY <2>1 DEF CodeSet, Cell
    <3> QED BY <3>1, <3>2, <3>3, <3>4 DEF TypeOK
  <2>4. {names[i].slot : i \in DOMAIN names} = 0..Len(names) - 1
    <3>1. ASSUME NEW i \in DOMAIN names PROVE names[i].slot \in 0..Len(names) - 1
      BY <2>1, <2>2
    <3>2. ASSUME NEW k \in 0..Len(names) - 1 PROVE \E i \in DOMAIN names : names[i].slot = k
      <4>1. k + 1 \in 1..Len(names) /\ (k + 1) - 1 = k
        BY <2>1
      <4> QED BY <2>1, <2>2, <4>1
    <3> QED BY <3>1, <3>2
  <2>5. \A i, j \in DOMAIN names : names[i].name = names[j].name => i = j
    BY <2>1 DEF Table
  <2> QED BY <2>3, <2>4, <2>5 DEF SlotsDistinct
<1> QED BY InitIInv, NextIInv, <1>1, PTL DEF Spec

(* Code in progress indexes the slots by number (MutableSlots::get_slot):  *)
(* each slot a tree's variables resolved to exists and is still theirs,    *)
(* and so is the slot a function compiled outside eval_statements uses.    *)
THEOREM RunningAlwaysHasSlots == Spec => []RunningHasSlots
<1>1. IInv => RunningHasSlots
  <2> SUFFICES ASSUME IInv PROVE RunningHasSlots
    OBVIOUS
  <2>1. DOMAIN acts = 1..Len(acts)
    BY Basics
  <2>2. Resolved(names, slots, acts) /\ CodeKept(names, acts, code)
    BY DEF IInv, Inv, CodeInv
  <2> QED BY <2>1, <2>2 DEF Resolved, CodeKept, RunningHasSlots, IsModule
<1> QED BY InitIInv, NextIInv, <1>1, PTL DEF Spec

(* A value inlined by expr_ident is the value of the variable while the    *)
(* statements of its tree run, unless that very variable has been written  *)
(* by a host or native function or the debugger has pushed locals.         *)
THEOREM InliningIsCurrent == Spec => []InlinedIsCurrent
<1>1. IInv => InlinedIsCurrent
  BY DEF IInv, CodeInv, Current, InlinedIsCurrent
<1> QED BY InitIInv, NextIInv, <1>1, PTL DEF Spec

(* Only EndDebug takes eval_statements off the stack.                      *)
LEMMA OnlyEndDebug ==
  ASSUME IInv, [Next]_vars,
         Len(acts') < Len(acts), Last(acts).kind = "debug", Last(acts).inDef, Running'
  PROVE  EndDebug /\ \A i \in DOMAIN FrameNames : ~GetPanics(FrameNames[i])
<1>1. acts \in Seq(Act) /\ Len(acts) \in Nat /\ Len(acts') \in Nat
  <2>1. IInv'
    BY NextIInv
  <2>2. acts' \in Seq(Act)
    BY <2>1 DEF IInv, Inv
  <2> QED BY <2>2, Basics, ActsOf
<1>2. acts # <<>> /\ Len(acts') # Len(acts)
  <2>1. ~(Len(acts') < 0) /\ Len(acts') # Len(acts)
    BY <1>1
  <2>2. Len(<<>>) = 0
    OBVIOUS
  <2> QED BY <2>1, <2>2
<1>3. Last(acts).kind # "module" /\ Last(acts).kind # "def"
  OBVIOUS
<1>4. ~PausedInDef /\ ~PausedAtTop
  BY <1>3 DEF PausedInDef, PausedAtTop
<1>5. ASSUME NEW n \in Names, NEW v \in Values, NEW public \in BOOLEAN, HostSet(n, v, public) PROVE FALSE
  <2> DEFINE W == {n}
  <2>1. acts' = Tainted(Touch(W), W) /\ W \in SUBSET Names /\ W \subseteq W
    BY <1>5 DEF HostSet
  <2> HIDE DEF W
  <2>2. Len(acts') = Len(acts)
    BY <1>1, <2>1, TouchTaint
  <2> QED BY <1>2, <2>2
<1>6. CASE EndDebug
  <2>1. acts'[1].kind # "panic" \/ acts' # Panicked
    <3> SUFFICES ASSUME acts' = Panicked PROVE FALSE
      OBVIOUS
    <3>1. 1 \in DOMAIN Panicked /\ Panicked[1].kind = "panic"
      BY DEF Panicked
    <3> QED BY <3>1 DEF Running
  <2>2. Panicked[1].kind = "panic"
    BY DEF Panicked
  <2>3. acts' # Panicked
    BY <2>1, <2>2
  <2> QED BY <1>6, <2>3 DEF EndDebug, Panicked
<1>7. CASE UNCHANGED vars
  BY <1>2, <1>7 DEF vars
<1>8. ASSUME NEW tree, EvalModule(tree) \/ EvalModuleScopeError(tree) PROVE FALSE
  BY <1>2, <1>8 DEF EvalModule, EvalModuleScopeError
<1>9. ASSUME NEW n, NEW v, Assign(n, v) PROVE FALSE
  BY <1>3, <1>9 DEF Assign
<1>10. ASSUME NEW n, CompileDef(n) PROVE FALSE
  BY <1>3, <1>10 DEF CompileDef
<1>11. ASSUME Finish PROVE FALSE
  BY <1>3, <1>11 DEF Finish
<1>12. ASSUME NEW frozen, Call(frozen) PROVE FALSE
  BY <1>2, <1>3, <1>12 DEF Call
<1>13. ASSUME NEW i, NEW v, AssignLocal(i, v) PROVE FALSE
  BY <1>3, <1>13 DEF AssignLocal
<1>14. ASSUME NEW tree, BeginDebug(tree) \/ BeginDebugScopeError(tree) PROVE FALSE
  BY <1>4, <1>14 DEF BeginDebug, BeginDebugScopeError
<1>15. ASSUME BeginDebugNoDef \/ BeginDebugPanics PROVE FALSE
  BY <1>4, <1>15 DEF BeginDebugNoDef, BeginDebugPanics
<1> QED BY <1>5, <1>6, <1>7, <1>8, <1>9, <1>10, <1>11, <1>12, <1>13, <1>14, <1>15 DEF Next

(* "Now put the Module back how it was before we started, as best we can": *)
(* when eval_statements in a function has evaluated its statements, the    *)
(* module has the names and slots it had, and every variable that had a    *)
(* value has it again.  When it returns early with the error of            *)
(* top_frame_def_info_for_debugger, the names that were there keep their   *)
(* slots and only variables with the name of a local have changed.         *)
THEOREM DebugPutsModuleBack == Spec => DebugPutsBack
<1> DEFINE Ends == Len(acts') < Len(acts) /\ Last(acts).kind = "debug" /\ Last(acts).inDef /\ Running'
           Back == Len(names') = Len(Last(acts).original) /\ PutBack(Last(acts).original, {})
           Left == PutBack(Original, Range(FrameNames))
<1>1. ASSUME IInv, [Next]_vars, Ends PROVE Back
  <2> DEFINE o == Last(acts).original
  <2>1. EndDebug /\ \A i \in DOMAIN FrameNames : ~GetPanics(FrameNames[i])
    BY <1>1, OnlyEndDebug
  <2>2. acts # <<>> /\ CutBack(names, slots, acts[Len(acts)].original, names', slots')
    BY <1>1, <2>1, EndInDef
  <2>3. /\ o = acts[Len(acts)].original /\ Len(o) \in Nat /\ DOMAIN o = 1..Len(o)
        /\ \A k \in 1..Len(o) : /\ o[k].name = names[k].name /\ o[k].slot = k - 1
                                /\ k \in 1..Len(names)
    BY <1>1, <2>2, TopSnapshot
  <2>4. CutBack(names, slots, o, names', slots')
    BY <2>2, <2>3
  <2>5. \A k \in 1..Len(names) : names[k].slot = k - 1
    BY <1>1, Basics DEF Table
  <2> HIDE DEF o
  <2>6. Len(names') = Len(o)
    BY <2>4 DEF CutBack
  <2>7. ASSUME NEW i \in DOMAIN o
        PROVE  /\ names'[i].name = o[i].name /\ names'[i].slot = o[i].slot
               /\ o[i].value # Unassigned => slots'[o[i].slot + 1] = o[i].value
    <3>1. i \in 1..Len(o) /\ names'[i] = names[i] /\ o[i].slot = i - 1
      BY <2>3, <2>4 DEF CutBack
    <3>2. names'[i].name = o[i].name /\ names'[i].slot = o[i].slot
      BY <2>3, <2>5, <3>1
    <3>3. (i - 1) + 1 = i
      BY <2>3, <3>1
    <3>4. o[i].value # Unassigned => slots'[i] = o[i].value
      BY <2>4, <3>1 DEF CutBack
    <3> QED BY <3>1, <3>2, <3>3, <3>4
  <2>8. PutBack(o, {})
    BY <2>7 DEF PutBack
  <2> QED BY <2>6, <2>8 DEF o
<1>2. ASSUME IInv, BeginDebugNoDef PROVE Left
  <2> DEFINE o == Original
             W == Range(FrameNames)
  <2>1. /\ Table(names) /\ slots \in Seq(Cell) /\ Len(names) \in Nat /\ DOMAIN names = 1..Len(names)
        /\ Inv(names, slots, acts)
    BY <1>2, Basics DEF IInv
  <2>2. Keeps(names, slots, names', slots', W)
    BY <1>2, <2>1, PushedLocalsFacts DEF BeginDebugNoDef
  <2>3. /\ DOMAIN o = 1..Len(names)
        /\ \A i \in 1..Len(names) : /\ o[i].name = names[i].name /\ o[i].slot = names[i].slot
                                    /\ o[i].value = slots[names[i].slot + 1]
    BY <2>1 DEF Original
  <2>4. \A i \in 1..Len(names) : names[i].slot < Len(slots)
    BY <1>2, <2>1 DEF BeginDebugNoDef, HasSlots
  <2> HIDE DEF o, W
  <2>5. ASSUME NEW i \in DOMAIN o
        PROVE  /\ names'[i].name = o[i].name /\ names'[i].slot = o[i].slot
               /\ o[i].value # Unassigned /\ o[i].name \notin W
                    => slots'[o[i].slot + 1] = o[i].value
    <3> DEFINE n == names[i].name
               u == names'
               r == slots'
    <3>1. i \in 1..Len(names) /\ n \in Names
      <4>1. i \in 1..Len(names) /\ names \in Seq(Entry)
        BY <2>1, <2>3 DEF Table
      <4>2. names[i] \in Entry
        BY <4>1, ElementOfSeq
      <4> QED BY <4>1, <4>2 DEF Entry
    <3>2. Known(names, n) /\ SlotOf(names, n) = names[i].slot
      BY <2>1, <3>1, TableLookup DEF Table
    <3>3. /\ names'[i].name = names[i].name /\ names'[i].slot = names[i].slot
          /\ Known(u, n) /\ SlotOf(u, n) = SlotOf(names, n)
      <4>1. Table(u) /\ Extends(names, u)
        BY <2>2 DEF Keeps
      <4> HIDE DEF u
      <4>2. Known(u, n) /\ SlotOf(u, n) = SlotOf(names, n)
        BY <2>1, <3>2, <4>1, ExtendsSlot
      <4>3. u[i].name = names[i].name /\ u[i].slot = names[i].slot
        BY <2>1, <3>1, <4>1 DEF Extends, Table
      <4> QED BY <4>2, <4>3 DEF u
    <3>4. ASSUME n \notin W PROVE slots'[o[i].slot + 1] = o[i].value
      <4>1. HasValue(names, slots, n, o[i].value)
        BY <2>3, <2>4, <3>1, <3>2 DEF HasValue
      <4>2. HasValue(u, r, n, o[i].value)
        BY <2>2, <3>1, <3>4, <4>1 DEF Keeps
      <4> QED BY <2>3, <3>1, <3>2, <3>3, <4>2 DEF HasValue
    <3> QED BY <2>3, <3>1, <3>3, <3>4
  <2>6. PutBack(o, W)
    BY <2>5 DEF PutBack
  <2> QED BY <2>6 DEF o, W
<1>3. IInv /\ [Next]_vars => [(Ends => Back) /\ (BeginDebugNoDef => Left)]_vars
  BY <1>1, <1>2
<1>4. IInv /\ [Next]_vars => IInv'
  BY NextIInv
<1>5. Init => IInv
  BY InitIInv
<1> QED BY <1>3, <1>4, <1>5, PTL DEF Spec, DebugPutsBack

(* The locals of a paused function that the debugger's statements do not   *)
(* write keep their values, whatever the module has under their names.     *)
THEOREM LocalsAreKept == Spec => LocalsKept
<1> DEFINE Ends == Len(acts') < Len(acts) /\ Last(acts).kind = "debug" /\ Last(acts).inDef /\ Running'
           Same == LET d == Len(acts) - 1
                   IN  \A i \in DOMAIN FrameNames :
                         (/\ acts[d].frame[i] # Unassigned
                          /\ FrameNames[i] \notin Last(acts).touched
                          /\ \A j \in DOMAIN FrameNames : FrameNames[j] = FrameNames[i] => j = i)
                         => acts'[d].frame[i] = acts[d].frame[i]
<1>1. IInv /\ [Next]_vars => [Ends => Same]_vars
  <2> SUFFICES ASSUME IInv, [Next]_vars, Ends PROVE Same
    OBVIOUS
  <2> DEFINE m == Len(acts)
             frame == acts[m - 1].frame
             as == Front(acts)
             after == FrameAfter(frame)
  <2>1. EndDebug /\ \A i \in DOMAIN FrameNames : ~GetPanics(FrameNames[i])
    BY OnlyEndDebug
  <2>2. /\ Last(acts) = acts[m] /\ m \in 1..m /\ InDef(acts, m)
        /\ as \in Seq(Act) /\ as # <<>> /\ Len(as) = m - 1 /\ IsDef(as, Len(as))
        /\ frame \in [1..Len(FrameNames) -> Cell]
        /\ Reframed(as, acts', after)
    BY <2>1, EndInDef
  <2>3. /\ after \in [1..Len(FrameNames) -> Cell]
        /\ \A i \in 1..Len(FrameNames) :
             HasValue(names, slots, FrameNames[i], frame[i]) => after[i] = frame[i]
    BY <2>1, <2>2, FrameFacts
  <2>4. DOMAIN FrameNames = 1..Len(FrameNames) /\ m \in Nat
    BY ModuleEnvAssumption, Basics
  <2> HIDE DEF as, after
  <2>5. acts'[m - 1].frame = after
    <3>1. Len(as) \in 1..Len(as) /\ DOMAIN as = 1..Len(as)
      BY <2>2, FrontPops, ActsOf
    <3>2. as[Len(as)] \in DefSet
      BY <2>2, <3>1, ActsOf
    <3>3. acts' = [as EXCEPT ![Len(as)].frame = after]
      BY <2>2 DEF Reframed
    <3>4. acts'[Len(as)].frame = after
      BY <3>1, <3>2, <3>3 DEF DefSet
    <3> QED BY <2>2, <3>4
  <2>6. \A h \in m + 1..m : FALSE
    <3>1. m \in Nat
      BY <2>4
    <3> HIDE DEF m
    <3> QED BY ONLY <3>1
  <2>7. ASSUME NEW i \in 1..Len(FrameNames), Kept(acts, m, i)
        PROVE  HasValue(names, slots, FrameNames[i], frame[i])
    <3>1. LocalsSeen(names, slots, acts)
      BY DEF IInv, Inv
    <3> QED BY <2>2, <2>6, <2>7, <3>1 DEF LocalsSeen
  <2>8. ASSUME NEW i \in DOMAIN FrameNames,
               frame[i] # Unassigned, FrameNames[i] \notin Last(acts).touched,
               \A j \in DOMAIN FrameNames : FrameNames[j] = FrameNames[i] => j = i
        PROVE  acts'[m - 1].frame[i] = frame[i]
    <3>1. i \in 1..Len(FrameNames) /\ Kept(acts, m, i)
      BY <2>2, <2>4, <2>8 DEF Kept
    <3> QED BY <2>3, <2>5, <2>7, <3>1
  <2> QED BY <2>8
<1>2. IInv /\ [Next]_vars => IInv'
  BY NextIInv
<1>3. Init => IInv
  BY InitIInv
<1> QED BY <1>1, <1>2, <1>3, PTL DEF Spec, LocalsKept
=============================================================================
