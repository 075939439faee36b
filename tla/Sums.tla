------------------------------- MODULE Sums -------------------------------
(***************************************************************************)
(* Sums over finite sets.  SumFunction of the community modules takes the  *)
(* members of its domain in an order of its own; here is what it adds up   *)
(* to whatever the order: for parts, for images, for sums of two.          *)
(***************************************************************************)
EXTENDS Integers, Functions, FiniteSetTheorems, WellFoundedInduction, TLAPS

-----------------------------------------------------------------------------
(* Induction *)

\* Every non-empty set of naturals has a least member.
LEMMA LeastNat ==
    ASSUME NEW T, T \subseteq Nat, T # {}
    PROVE  \E n \in T : \A m \in T : n <= m
<1>1. IsWellFoundedOn({p \in Nat \X Nat : p[1] < p[2]}, Nat)
  BY NatLessThanWellFounded DEF OpToRel
<1>2. PICK n \in T : \A m \in T : <<m, n>> \notin {p \in Nat \X Nat : p[1] < p[2]}
  BY <1>1, WFMin
<1>3. \A m \in T : ~(m < n)
  BY <1>2
<1> QED BY <1>3

\* Induction over the naturals, for a set.
LEMMA Induction ==
    ASSUME NEW S, 0 \in S, \A n \in Nat : n \in S => n + 1 \in S
    PROVE  Nat \subseteq S
<1> SUFFICES ASSUME NEW k \in Nat \ S PROVE FALSE
  OBVIOUS
<1>1. PICK n \in Nat \ S : \A m \in Nat \ S : n <= m
  BY LeastNat
<1>2. n - 1 \in Nat /\ n - 1 \in S
  BY <1>1
<1> QED BY <1>1, <1>2

\* A member chosen of a set, as MapThenFoldSet chooses it.
Member(s) == CHOOSE x \in s : TRUE

\* What the proofs below need of the subsets of a finite set.
LEMMA SmallSets ==
    ASSUME NEW A, IsFiniteSet(A), NEW s \in SUBSET A
    PROVE  /\ IsFiniteSet(s) /\ Cardinality(s) \in Nat /\ (Cardinality(s) = 0 <=> s = {})
           /\ \A x \in s : Cardinality(s \ {x}) = Cardinality(s) - 1
           /\ s # {} => Member(s) \in s
<1>1. IsFiniteSet(s) /\ Cardinality(s) \in Nat /\ (Cardinality(s) = 0 <=> s = {})
  BY FS_Subset, FS_CardinalityType, FS_EmptySet
<1>2. ASSUME NEW x \in s PROVE Cardinality(s \ {x}) = Cardinality(s) - 1
  BY <1>1, FS_RemoveElement
<1>3. ASSUME s # {} PROVE Member(s) \in s
  BY <1>3 DEF Member
<1> QED BY <1>1, <1>2, <1>3

\* What holds of the empty set and goes on with every member added holds of a finite set.
LEMMA SetInduction ==
    ASSUME NEW A, IsFiniteSet(A), NEW F, {} \in F,
           \A s \in SUBSET A : \A x \in A \ s : s \in F => s \union {x} \in F
    PROVE  \A s \in SUBSET A : s \in F
<1> DEFINE S == {n \in Nat : \A s \in SUBSET A : Cardinality(s) = n => s \in F}
<1>1. 0 \in S
  BY SmallSets
<1>2. ASSUME NEW n \in Nat, n \in S PROVE n + 1 \in S
  <2> SUFFICES ASSUME NEW s \in SUBSET A, Cardinality(s) = n + 1 PROVE s \in F
    OBVIOUS
  <2>1. s # {}
    BY SmallSets
  <2>2. PICK x : x \in s
    BY <2>1
  <2>3. Cardinality(s \ {x}) = n
    BY <2>2, SmallSets
  <2>4. s \ {x} \in F /\ s = (s \ {x}) \union {x}
    BY <1>2, <2>2, <2>3
  <2> QED BY <2>2, <2>4
<1> HIDE DEF S
<1>3. Nat \subseteq S
  BY <1>1, <1>2, Induction
<1> QED BY <1>3, SmallSets DEF S

-----------------------------------------------------------------------------
(* Which member SumFunction takes first makes no difference *)

\* The function of subsets SumFunction chooses: the sum of each.
Body(v, iter) ==
    [s \in SUBSET DOMAIN v |->
        IF s = {} THEN 0 ELSE LET x == CHOOSE x \in s : TRUE IN v[x] + iter[s \ {x}]]
Iter(v) == CHOOSE iter : iter = Body(v, iter)

LEMMA SumIsIter == ASSUME NEW v PROVE SumFunction(v) = Iter(v)[DOMAIN v]
BY Zenon DEF SumFunction, SumFunctionOnSet, FoldFunctionOnSet, MapThenFoldSet, Iter, Body

\* There is one: it is built up for larger and larger subsets.
UpTo(v, n) == {s \in SUBSET DOMAIN v : Cardinality(s) <= n}
Adds(v, n, iter) ==
    iter = [s \in UpTo(v, n) |-> IF s = {} THEN 0 ELSE v[Member(s)] + iter[s \ {Member(s)}]]

LEMMA AddsUpTo ==
    ASSUME NEW v, IsFiniteSet(DOMAIN v)
    PROVE  \A n \in Nat : \E iter : Adds(v, n, iter)
<1> DEFINE S == {n \in Nat : \E iter : Adds(v, n, iter)}
<1>0. ASSUME NEW s \in SUBSET DOMAIN v, s # {}
      PROVE  Cardinality(s) \in Nat /\ Cardinality(s) # 0
             /\ Cardinality(s \ {Member(s)}) = Cardinality(s) - 1
  BY <1>0, SmallSets
<1>1. 0 \in S
  <2> DEFINE iter == [s \in UpTo(v, 0) |-> 0]
  <2>1. ASSUME NEW s \in UpTo(v, 0) PROVE s = {}
    <3>1. s \in SUBSET DOMAIN v /\ Cardinality(s) <= 0
      BY DEF UpTo
    <3>2. Cardinality(s) \in Nat /\ (Cardinality(s) = 0 <=> s = {})
      BY <3>1, SmallSets
    <3> QED BY <3>1, <3>2
  <2>2. Adds(v, 0, iter)
    BY <2>1 DEF Adds
  <2> QED BY <2>2
<1>2. ASSUME NEW n \in Nat, n \in S PROVE n + 1 \in S
  <2>1. PICK old : Adds(v, n, old)
    BY <1>2
  <2> DEFINE new == [s \in UpTo(v, n + 1) |->
                       IF s = {} THEN 0 ELSE v[Member(s)] + old[s \ {Member(s)}]]
  <2>2. ASSUME NEW s \in UpTo(v, n) PROVE new[s] = old[s]
    <3>1. Cardinality(s) \in Nat /\ Cardinality(s) <= n
      BY SmallSets DEF UpTo
    <3>2. s \in UpTo(v, n + 1)
      BY <3>1 DEF UpTo
    <3>3. old[s] = IF s = {} THEN 0 ELSE v[Member(s)] + old[s \ {Member(s)}]
      BY <2>1 DEF Adds
    <3> QED BY <3>2, <3>3
  <2>3. ASSUME NEW s \in UpTo(v, n + 1), s # {} PROVE s \ {Member(s)} \in UpTo(v, n)
    BY <1>0, <2>3 DEF UpTo
  <2>4. Adds(v, n + 1, new)
    BY <2>2, <2>3 DEF Adds
  <2> QED BY <2>4
<1> HIDE DEF S
<1>3. Nat \subseteq S
  BY <1>1, <1>2, Induction
<1> QED BY <1>3 DEF S

\* So the chosen one satisfies its equation.
LEMMA IterBody ==
    ASSUME NEW v, IsFiniteSet(DOMAIN v)
    PROVE  \A s \in SUBSET DOMAIN v :
              Iter(v)[s] = IF s = {} THEN 0 ELSE v[Member(s)] + Iter(v)[s \ {Member(s)}]
<1>1. PICK n \in Nat : n = Cardinality(DOMAIN v)
  BY FS_CardinalityType
<1>2. UpTo(v, n) = SUBSET DOMAIN v
  BY <1>1, FS_Subset DEF UpTo
<1>3. PICK iter : Adds(v, n, iter)
  BY AddsUpTo
<1>4. iter = Body(v, iter)
  BY <1>2, <1>3 DEF Adds, Body, Member
<1>5. Iter(v) = Body(v, Iter(v))
  BY <1>4 DEF Iter
<1>6. PICK it : it = Iter(v)
  OBVIOUS
<1>7. it = Body(v, it)
  BY <1>5, <1>6
<1> QED BY <1>6, <1>7 DEF Body, Member

Summable(v) == IsFiniteSet(DOMAIN v) /\ \A x \in DOMAIN v : v[x] \in Int

LEMMA IterType ==
    ASSUME NEW v, Summable(v)
    PROVE  \A s \in SUBSET DOMAIN v : Iter(v)[s] \in Int
<1>0. IsFiniteSet(DOMAIN v) /\ \A x \in DOMAIN v : v[x] \in Int
  BY DEF Summable
<1> DEFINE S == {n \in Nat : \A s \in SUBSET DOMAIN v : Cardinality(s) = n => Iter(v)[s] \in Int}
<1>1. 0 \in S
  <2>1. Iter(v)[{}] = 0
    BY <1>0, IterBody
  <2>2. \A s \in SUBSET DOMAIN v : Cardinality(s) = 0 => s = {}
    BY <1>0, SmallSets
  <2> QED BY <2>1, <2>2
<1>2. ASSUME NEW n \in Nat, n \in S PROVE n + 1 \in S
  <2> SUFFICES ASSUME NEW s \in SUBSET DOMAIN v, Cardinality(s) = n + 1 PROVE Iter(v)[s] \in Int
    OBVIOUS
  <2>1. s # {} /\ Member(s) \in s /\ Cardinality(s \ {Member(s)}) = n
    BY <1>0, SmallSets
  <2>2. Iter(v)[s] = v[Member(s)] + Iter(v)[s \ {Member(s)}]
    BY <1>0, <2>1, IterBody
  <2>3. Iter(v)[s \ {Member(s)}] \in Int
    BY <1>2, <2>1
  <2> QED BY <1>0, <2>1, <2>2, <2>3
<1> HIDE DEF S
<1>3. Nat \subseteq S
  BY <1>1, <1>2, Induction
<1> QED BY <1>0, <1>3, SmallSets DEF S

\* Any member may be taken out first.
LEMMA IterRemove ==
    ASSUME NEW v, Summable(v)
    PROVE  \A s \in SUBSET DOMAIN v : \A x \in s : Iter(v)[s] = v[x] + Iter(v)[s \ {x}]
<1>0. IsFiniteSet(DOMAIN v) /\ \A x \in DOMAIN v : v[x] \in Int
  BY DEF Summable
<1> DEFINE S == {n \in Nat : \A s \in SUBSET DOMAIN v : Cardinality(s) = n =>
                               \A x \in s : Iter(v)[s] = v[x] + Iter(v)[s \ {x}]}
<1>1. 0 \in S
  BY <1>0, SmallSets
<1>2. ASSUME NEW n \in Nat, n \in S PROVE n + 1 \in S
  <2> SUFFICES ASSUME NEW s \in SUBSET DOMAIN v, Cardinality(s) = n + 1, NEW x \in s
               PROVE  Iter(v)[s] = v[x] + Iter(v)[s \ {x}]
    OBVIOUS
  <2> DEFINE m == Member(s)
  <2>1. /\ m \in s /\ Cardinality(s \ {m}) = n /\ Cardinality(s \ {x}) = n
        /\ Iter(v)[s] = v[m] + Iter(v)[s \ {m}]
    BY <1>0, SmallSets, IterBody
  <2> HIDE DEF m
  <2>2. CASE x # m
    <3>1. Iter(v)[s \ {m}] = v[x] + Iter(v)[(s \ {m}) \ {x}]
      BY <1>2, <2>1, <2>2
    <3>2. Iter(v)[s \ {x}] = v[m] + Iter(v)[(s \ {x}) \ {m}]
      BY <1>2, <2>1, <2>2
    <3>3. (s \ {m}) \ {x} = (s \ {x}) \ {m} /\ (s \ {x}) \ {m} \in SUBSET DOMAIN v
      OBVIOUS
    <3>4. Iter(v)[(s \ {x}) \ {m}] \in Int /\ v[x] \in Int /\ v[m] \in Int
      BY <1>0, <2>1, <3>3, IterType
    <3> QED BY <2>1, <3>1, <3>2, <3>3, <3>4
  <2> QED BY <2>1, <2>2
<1> HIDE DEF S
<1>3. Nat \subseteq S
  BY <1>1, <1>2, Induction
<1> QED BY <1>0, <1>3, SmallSets DEF S

\* What is outside a set makes no difference to its sum.
LEMMA IterWithin ==
    ASSUME NEW v, NEW w, Summable(v), Summable(w), NEW A, A \subseteq DOMAIN v, A \subseteq DOMAIN w,
           \A x \in A : v[x] = w[x]
    PROVE  Iter(v)[A] = Iter(w)[A]
<1>0. IsFiniteSet(DOMAIN v) /\ IsFiniteSet(DOMAIN w) /\ IsFiniteSet(A)
  BY FS_Subset DEF Summable
<1> DEFINE F == {s \in SUBSET A : Iter(v)[s] = Iter(w)[s]}
<1>1. {} \in F
  BY <1>0, IterBody
<1>2. ASSUME NEW s \in SUBSET A, NEW x \in A \ s, s \in F PROVE s \union {x} \in F
  <2>1. (s \union {x}) \ {x} = s
    OBVIOUS
  <2>2. s \union {x} \in SUBSET DOMAIN v /\ s \union {x} \in SUBSET DOMAIN w
    OBVIOUS
  <2>3. Iter(v)[s \union {x}] = v[x] + Iter(v)[s]
    BY <2>1, <2>2, IterRemove
  <2>4. Iter(w)[s \union {x}] = w[x] + Iter(w)[s]
    BY <2>1, <2>2, IterRemove
  <2> QED BY <1>2, <2>3, <2>4
<1> HIDE DEF F
<1>3. \A s \in SUBSET A : s \in F
  BY <1>0, <1>1, <1>2, SetInduction
<1> QED BY <1>3 DEF F

-----------------------------------------------------------------------------
(* The sum of f over A *)

Over(A, f) == SumFunction([x \in A |-> f[x]])
Numbers(A, f) == IsFiniteSet(A) /\ \A x \in A : f[x] \in Int

LEMMA OverEmpty == ASSUME NEW f PROVE Over({}, f) = 0
<1> DEFINE v == [x \in {} |-> f[x]]
<1>1. IsFiniteSet(DOMAIN v) /\ DOMAIN v = {}
  BY FS_EmptySet
<1> HIDE DEF v
<1> QED BY <1>1, SumIsIter, IterBody DEF v, Over

LEMMA OverType == ASSUME NEW A, NEW f, Numbers(A, f) PROVE Over(A, f) \in Int
<1> DEFINE v == [x \in A |-> f[x]]
<1>1. Summable(v) /\ DOMAIN v = A
  BY DEF Numbers, Summable
<1> HIDE DEF v
<1> QED BY <1>1, SumIsIter, IterType DEF v, Over

\* One member more.
LEMMA OverAdd ==
    ASSUME NEW A, NEW x, x \notin A, NEW f, Numbers(A \union {x}, f)
    PROVE  Over(A \union {x}, f) = f[x] + Over(A, f)
<1> DEFINE v == [y \in A \union {x} |-> f[y]]
           w == [y \in A |-> f[y]]
<1>1. /\ Summable(v) /\ Summable(w)
      /\ DOMAIN v = A \union {x} /\ DOMAIN w = A /\ v[x] = f[x]
      /\ \A y \in A : v[y] = w[y]
  BY FS_Subset DEF Numbers, Summable
<1> HIDE DEF v, w
<1>2. Iter(v)[A \union {x}] = v[x] + Iter(v)[(A \union {x}) \ {x}]
  BY <1>1, IterRemove
<1>3. (A \union {x}) \ {x} = A
  OBVIOUS
<1>4. Iter(v)[A] = Iter(w)[A]
  BY <1>1, IterWithin
<1>5. SumFunction(v) = Iter(v)[A \union {x}] /\ SumFunction(w) = Iter(w)[A]
  BY <1>1, SumIsIter
<1> QED BY <1>1, <1>2, <1>3, <1>4, <1>5 DEF v, w, Over

\* Two disjoint sets.
LEMMA OverUnion ==
    ASSUME NEW A, NEW B, A \intersect B = {}, NEW f, Numbers(A, f), Numbers(B, f)
    PROVE  Over(A \union B, f) = Over(A, f) + Over(B, f)
<1>0. \A s \in SUBSET B : Numbers(s, f) /\ Numbers(A \union s, f)
  BY FS_Subset, FS_Union DEF Numbers
<1> DEFINE F == {s \in SUBSET B : Over(A \union s, f) = Over(A, f) + Over(s, f)}
<1>1. {} \in F
  <2>1. A \union {} = A
    OBVIOUS
  <2> QED BY <1>0, <2>1, OverEmpty, OverType
<1>2. ASSUME NEW s \in SUBSET B, NEW x \in B \ s, s \in F PROVE s \union {x} \in F
  <2>1. (A \union s) \union {x} = A \union (s \union {x}) /\ x \notin A \union s
    OBVIOUS
  <2>a. Numbers((A \union s) \union {x}, f)
    BY <1>0, <2>1
  <2>2. Over((A \union s) \union {x}, f) = f[x] + Over(A \union s, f)
    BY <2>1, <2>a, OverAdd
  <2>3. Over(s \union {x}, f) = f[x] + Over(s, f)
    BY <1>0, OverAdd
  <2>4. f[x] \in Int /\ Over(s, f) \in Int /\ Over(A, f) \in Int
    BY <1>0, OverType DEF Numbers
  <2>5. Over(A \union s, f) = Over(A, f) + Over(s, f)
    BY <1>2
  <2>6. Over(A \union (s \union {x}), f) = Over(A, f) + Over(s \union {x}, f)
    <3>1. Over(A \union (s \union {x}), f) = f[x] + Over(A \union s, f)
      BY <2>1, <2>2, Zenon
    <3> QED BY <2>3, <2>4, <2>5, <3>1
  <2> QED BY <2>6
<1> HIDE DEF F
<1>3. \A s \in SUBSET B : s \in F
  BY <1>1, <1>2, SetInduction DEF Numbers
<1> QED BY <1>3 DEF F

LEMMA OverSingle == ASSUME NEW x, NEW f, f[x] \in Int PROVE Over({x}, f) = f[x]
<1>1. Numbers({x}, f) /\ {} \union {x} = {x}
  BY FS_Singleton DEF Numbers
<1> QED BY <1>1, OverAdd, OverEmpty

\* A sum of sums.
LEMMA OverPlus ==
    ASSUME NEW A, NEW f, NEW g, Numbers(A, f), Numbers(A, g), NEW h,
           \A x \in A : h[x] = f[x] + g[x]
    PROVE  Over(A, h) = Over(A, f) + Over(A, g)
<1>0. \A s \in SUBSET A : Numbers(s, f) /\ Numbers(s, g) /\ Numbers(s, h)
  BY FS_Subset DEF Numbers
<1> DEFINE F == {s \in SUBSET A : Over(s, h) = Over(s, f) + Over(s, g)}
<1>1. {} \in F
  BY OverEmpty
<1>2. ASSUME NEW s \in SUBSET A, NEW x \in A \ s, s \in F PROVE s \union {x} \in F
  <2>1. /\ Over(s \union {x}, h) = h[x] + Over(s, h)
        /\ Over(s \union {x}, f) = f[x] + Over(s, f)
        /\ Over(s \union {x}, g) = g[x] + Over(s, g)
    BY <1>0, OverAdd
  <2>2. f[x] \in Int /\ g[x] \in Int /\ Over(s, f) \in Int /\ Over(s, g) \in Int
    BY <1>0, OverType DEF Numbers
  <2> QED BY <1>2, <2>1, <2>2
<1> HIDE DEF F
<1>3. \A s \in SUBSET A : s \in F
  BY <1>1, <1>2, SetInduction DEF Numbers
<1> QED BY <1>3 DEF F

\* The part of A for each value of p.
Partition(part, A, B, p) == \A b \in B : \A x : x \in part[b] <=> x \in A /\ p[x] = b

\* The sums of the parts of A, one for each value of p, add up to the sum over A.
LEMMA OverParts ==
    ASSUME NEW A, NEW f, Numbers(A, f), NEW B, IsFiniteSet(B), NEW p, \A x \in A : p[x] \in B,
           NEW part, Partition(part, A, B, p),
           NEW g, \A b \in B : g[b] = Over(part[b], f)
    PROVE  Over(B, g) = Over(A, f)
<1>0. ASSUME NEW s \in SUBSET A PROVE Numbers(s, f) /\ Over(s, f) \in Int
  BY FS_Subset, OverType DEF Numbers
<1>p. \A b \in B : part[b] \in SUBSET A
  BY DEF Partition
<1>g. \A t \in SUBSET B : Numbers(t, g)
  BY <1>0, <1>p, FS_Subset DEF Numbers
<1> DEFINE In(t) == {x \in A : p[x] \in t}
           F == {t \in SUBSET B : Over(t, g) = Over(In(t), f)}
<1>1. {} \in F
  <2>1. In({}) = {}
    OBVIOUS
  <2> QED BY <2>1, OverEmpty
<1>2. ASSUME NEW t \in SUBSET B, NEW b \in B \ t, t \in F PROVE t \union {b} \in F
  <2> DEFINE Part == part[b]
  <2>1. In(t \union {b}) = In(t) \union Part /\ In(t) \intersect Part = {}
    BY DEF Partition
  <2>2. Over(In(t) \union Part, f) = Over(In(t), f) + Over(Part, f)
    <3>1. Numbers(In(t), f) /\ Numbers(Part, f)
      BY <1>0, <1>p
    <3> HIDE DEF In, Part, F
    <3> QED BY <2>1, <3>1, OverUnion
  <2>3. Over(t \union {b}, g) = g[b] + Over(t, g)
    <3>1. t \union {b} \in SUBSET B /\ b \notin t
      OBVIOUS
    <3>2. Numbers(t \union {b}, g)
      BY <1>g, <3>1
    <3> HIDE DEF In, Part, F
    <3> QED BY <3>1, <3>2, OverAdd
  <2>4. Over(In(t), f) \in Int /\ Over(Part, f) \in Int
    <3>1. In(t) \in SUBSET A /\ Part \in SUBSET A
      BY <1>p
    <3> HIDE DEF In, Part, F
    <3> QED BY <1>0, <3>1
  <2>5. Over(t, g) = Over(In(t), f) /\ g[b] = Over(Part, f)
    BY <1>2
  <2>6. Over(t \union {b}, g) = Over(In(t \union {b}), f)
    <3> HIDE DEF In, Part, F
    <3>1. Over(In(t \union {b}), f) = Over(In(t) \union Part, f)
      BY <2>1, Zenon
    <3> QED BY <2>2, <2>3, <2>4, <2>5, <3>1
  <2> QED BY <2>6
<1>3. In(B) = A
  OBVIOUS
<1> HIDE DEF F
<1>4. \A t \in SUBSET B : t \in F
  BY <1>1, <1>2, SetInduction
<1> QED BY <1>3, <1>4 DEF F

\* The values of a function on a finite set are finitely many.
LEMMA ImageFinite == ASSUME NEW A, IsFiniteSet(A), NEW g PROVE IsFiniteSet({g[x] : x \in A})
<1> DEFINE F == {s \in SUBSET A : IsFiniteSet({g[x] : x \in s})}
<1>1. {} \in F
  <2>1. {g[x] : x \in {}} = {}
    OBVIOUS
  <2> QED BY <2>1, FS_EmptySet
<1>2. ASSUME NEW s \in SUBSET A, NEW x \in A \ s, s \in F PROVE s \union {x} \in F
  <2>1. {g[y] : y \in s \union {x}} = {g[y] : y \in s} \union {g[x]}
    OBVIOUS
  <2>2. IsFiniteSet({g[y] : y \in s} \union {g[x]})
    BY <1>2, FS_AddElement
  <2> QED BY <2>1, <2>2
<1> HIDE DEF F
<1>3. \A s \in SUBSET A : s \in F
  BY <1>1, <1>2, SetInduction
<1> QED BY <1>3 DEF F

\* A sum over the values g takes on A, each of them once.
LEMMA OverImage ==
    ASSUME NEW A, NEW g, \A x, y \in A : g[x] = g[y] => x = y,
           NEW f, NEW h, Numbers(A, f), \A x \in A : h[g[x]] = f[x]
    PROVE  Over({g[x] : x \in A}, h) = Over(A, f)
<1> DEFINE Of(s) == {g[x] : x \in s}
           F == {s \in SUBSET A : Over(Of(s), h) = Over(s, f)}
<1>0. ASSUME NEW s \in SUBSET A PROVE Numbers(s, f) /\ Numbers(Of(s), h)
  <2>1. IsFiniteSet(s)
    BY FS_Subset DEF Numbers
  <2>2. IsFiniteSet(Of(s))
    BY <2>1, ImageFinite
  <2> QED BY <2>1, <2>2 DEF Numbers
<1>1. {} \in F
  <2>1. Of({}) = {}
    OBVIOUS
  <2> QED BY <2>1, OverEmpty
<1>2. ASSUME NEW s \in SUBSET A, NEW x \in A \ s, s \in F PROVE s \union {x} \in F
  <2>1. Of(s \union {x}) = Of(s) \union {g[x]} /\ g[x] \notin Of(s)
    OBVIOUS
  <2>2. Over(Of(s) \union {g[x]}, h) = h[g[x]] + Over(Of(s), h)
    <3>1. Numbers(Of(s \union {x}), h)
      <4>1. s \union {x} \in SUBSET A
        OBVIOUS
      <4> HIDE DEF Of, F
      <4> QED BY <1>0, <4>1
    <3> HIDE DEF Of, F
    <3>2. Numbers(Of(s) \union {g[x]}, h)
      BY <2>1, <3>1, Zenon
    <3> QED BY <2>1, <3>2, OverAdd
  <2>3. Over(s \union {x}, f) = f[x] + Over(s, f)
    BY <1>0, OverAdd
  <2> QED BY <1>2, <2>1, <2>2, <2>3
<1> HIDE DEF F
<1>3. \A s \in SUBSET A : s \in F
  BY <1>1, <1>2, SetInduction DEF Numbers
<1> QED BY <1>3 DEF F

LEMMA OverZero ==
    ASSUME NEW A, IsFiniteSet(A), NEW f, \A x \in A : f[x] = 0
    PROVE  Over(A, f) = 0
<1>0. \A s \in SUBSET A : Numbers(s, f)
  BY FS_Subset DEF Numbers
<1> DEFINE F == {s \in SUBSET A : Over(s, f) = 0}
<1>1. {} \in F
  BY OverEmpty
<1>2. ASSUME NEW s \in SUBSET A, NEW x \in A \ s, s \in F PROVE s \union {x} \in F
  <2>1. Over(s \union {x}, f) = f[x] + Over(s, f)
    BY <1>0, OverAdd
  <2> QED BY <1>2, <2>1
<1> HIDE DEF F
<1>3. \A s \in SUBSET A : s \in F
  BY <1>1, <1>2, SetInduction
<1> QED BY <1>3 DEF F

\* Members that count nothing may be left out.
LEMMA OverOutside ==
    ASSUME NEW B, NEW A \in SUBSET B, NEW f, Numbers(B, f), \A x \in B \ A : f[x] = 0
    PROVE  Over(B, f) = Over(A, f)
<1>1. Numbers(A, f) /\ Numbers(B \ A, f) /\ A \union (B \ A) = B /\ A \intersect (B \ A) = {}
  BY FS_Subset DEF Numbers
<1>2. Over(A \union (B \ A), f) = Over(A, f) + Over(B \ A, f)
  BY <1>1, OverUnion
<1>3. Over(B \ A, f) = 0
  <2>1. IsFiniteSet(B \ A)
    BY <1>1 DEF Numbers
  <2> QED BY <2>1, OverZero
<1>4. Over(A, f) \in Int
  BY <1>1, OverType
<1>5. Over(B, f) = Over(A, f) + Over(B \ A, f)
  BY <1>1, <1>2, Zenon
<1> QED BY <1>3, <1>4, <1>5
=============================================================================
