-------------------------- MODULE NormalizerProofs --------------------------
(***************************************************************************)
(* The normalizer loses nothing, leaves one session per 5-tuple, covers    *)
(* the spans of what it merged and sorts the packets, for every list of    *)
(* sessions with ids of their own.  What the proofs need of sums over      *)
(* finite sets, and of sorting, comes first.                               *)
(***************************************************************************)
EXTENDS ParsedSessions, FiniteSetTheorems, SequenceTheorems, TLAPS

(* A set of numbers has a least one.                                       *)
LEMMA LeastNumber ==
  ASSUME NEW S \in SUBSET Nat, S # {}
  PROVE  \E m \in S : \A k \in S : m <= k
<1> DEFINE Less == {ss \in Nat \X Nat : ss[1] < ss[2]}
<1>1. IsWellFoundedOn(Less, Nat)
  BY NatLessThanWellFounded DEF OpToRel
<1>2. \A k, m \in S : k < m => <<k, m>> \in Less
  OBVIOUS
<1> HIDE DEF Less
<1>3. PICK m \in S : \A k \in S : ~(<<k, m>> \in Less)
  BY <1>1, WFMin
<1>4. \A k \in S : ~(k < m)
  BY <1>2, <1>3
<1> QED BY <1>4

(* Induction, for a set of numbers.                                        *)
LEMMA EveryNumber ==
  ASSUME NEW S \in SUBSET Nat, 0 \in S, \A n \in S : n + 1 \in S
  PROVE  S = Nat
<1> SUFFICES ASSUME Nat \ S # {} PROVE FALSE
  OBVIOUS
<1>1. PICK m \in Nat \ S : \A k \in Nat \ S : m <= k
  BY LeastNumber
<1>2. m # 0 /\ m - 1 \in Nat
  BY <1>1
<1>3. m - 1 \in S
  BY <1>1, <1>2
<1> QED BY <1>1, <1>2, <1>3

(* The sum of v over S, as the folds of the library compute it: member by
   member, in the order of CHOOSE. *)
AnyOf(s) == CHOOSE x \in s : TRUE

Term(f, v, s) == IF s = {} THEN 0 ELSE v[AnyOf(s)] + f[s \ {AnyOf(s)}]

IsSum(f, v, U) == f = [s \in SUBSET U |-> Term(f, v, s)]

Sum(v, S) == (CHOOSE f : IsSum(f, v, S))[S]

(* What the model sums up is this sum.                                     *)
LEMMA SumFunctionIsSum == \A v : SumFunction(v) = Sum(v, DOMAIN v)
BY DEF SumFunction, SumFunctionOnSet, FoldFunctionOnSet, MapThenFoldSet, Sum, IsSum, Term, AnyOf

LEMMA AnyOfMember == \A s : s # {} => AnyOf(s) \in s
BY DEF AnyOf

(* Without one of its members a finite set has one member less.            *)
LEMMA OneLess ==
  ASSUME NEW s, IsFiniteSet(s), NEW x \in s
  PROVE  /\ IsFiniteSet(s \ {x})
         /\ Cardinality(s) \in Nat \ {0}
         /\ Cardinality(s \ {x}) = Cardinality(s) - 1
BY FS_RemoveElement, FS_CardinalityType, FS_EmptySet

(* Induction, for the subsets of a finite set.                             *)
LEMMA EverySubset ==
  ASSUME NEW U, IsFiniteSet(U), NEW F, {} \in F,
         \A s \in SUBSET U : s \in F => \A x \in U \ s : s \cup {x} \in F
  PROVE  \A s \in SUBSET U : s \in F
<1> DEFINE Missing == (SUBSET U) \ F
           Sizes == {Cardinality(s) : s \in Missing}
<1> SUFFICES ASSUME Missing # {} PROVE FALSE
  OBVIOUS
<1>0. \A s \in SUBSET U : IsFiniteSet(s) /\ Cardinality(s) \in Nat
  BY FS_Subset, FS_CardinalityType
<1>1. Sizes \in SUBSET Nat /\ Sizes # {}
  BY <1>0
<1>2. PICK n \in Sizes : \A m \in Sizes : n <= m
  <2> HIDE DEF Sizes
  <2> QED BY <1>1, LeastNumber
<1>3. PICK s \in Missing : Cardinality(s) = n
  OBVIOUS
<1>4. PICK x \in s : TRUE
  OBVIOUS
<1>5. PICK t : t = s \ {x}
  OBVIOUS
<1>6. t \in SUBSET U /\ t \cup {x} = s /\ x \in U \ t
  BY <1>3, <1>4, <1>5
<1>7. Cardinality(t) = n - 1 /\ n \in Nat
  BY <1>0, <1>3, <1>4, <1>5, OneLess
<1>8. t \notin Missing
  BY <1>2, <1>7
<1> QED BY <1>3, <1>6, <1>8

(* There is such a sum of every finite set.                                *)
LEMMA SumExists ==
  ASSUME NEW v, NEW U, IsFiniteSet(U)
  PROVE  \E f : IsSum(f, v, U)
<1> DEFINE Small(n) == {s \in SUBSET U : Cardinality(s) <= n}
           UpTo(f, n) == f = [s \in Small(n) |-> Term(f, v, s)]
           Done == {n \in Nat : \E f : UpTo(f, n)}
<1>0. \A s \in SUBSET U : IsFiniteSet(s) /\ Cardinality(s) \in Nat
  BY FS_Subset, FS_CardinalityType
<1>1. 0 \in Done
  <2> DEFINE f == [s \in Small(0) |-> 0]
  <2>1. \A s \in Small(0) : s = {}
    BY <1>0, FS_EmptySet
  <2>2. \A s \in Small(0) : Term(f, v, s) = 0
    BY <2>1 DEF Term
  <2>3. UpTo(f, 0)
    BY <2>2
  <2> QED BY <2>3
<1>2. ASSUME NEW n \in Done PROVE n + 1 \in Done
  <2>1. PICK f : UpTo(f, n)
    OBVIOUS
  <2> DEFINE g == [s \in Small(n + 1) |-> Term(f, v, s)]
  <2>2. ASSUME NEW s \in Small(n + 1)
        PROVE  Term(g, v, s) = Term(f, v, s)
    <3>1. CASE s = {}
      BY <3>1 DEF Term
    <3>2. CASE s # {}
      <4> DEFINE t == s \ {AnyOf(s)}
      <4>1. t \in Small(n) /\ t \in Small(n + 1)
        BY <1>0, <3>2, AnyOfMember, OneLess
      <4>2. f[t] = Term(f, v, t)
        BY <2>1, <4>1
      <4>3. g[t] = Term(f, v, t)
        BY <4>1
      <4> HIDE DEF g, t
      <4>4. g[t] = f[t]
        BY <4>2, <4>3
      <4> QED BY <4>4, <3>2 DEF Term, t
    <3> QED BY <3>1, <3>2
  <2>3. UpTo(g, n + 1)
    BY <2>2
  <2>4. n + 1 \in Nat
    OBVIOUS
  <2> QED BY <2>3, <2>4
<1>3. Done = Nat
  <2> HIDE DEF Done
  <2>1. Done \in SUBSET Nat
    BY DEF Done
  <2> QED BY <1>1, <1>2, <2>1, EveryNumber
<1>4. Small(Cardinality(U)) = SUBSET U /\ Cardinality(U) \in Nat
  BY FS_Subset, FS_CardinalityType
<1>5. PICK f : UpTo(f, Cardinality(U))
  BY <1>3, <1>4
<1> QED BY <1>4, <1>5 DEF IsSum

LEMMA SumAt ==
  ASSUME NEW f, NEW v, NEW U, IsSum(f, v, U), NEW T \in SUBSET U
  PROVE  f[T] = Term(f, v, T)
BY DEF IsSum

(* The sum may be taken in any order, not only in that of AnyOf.           *)
LEMMA SumAnyOrder ==
  ASSUME NEW f, NEW v, NEW U, IsFiniteSet(U), IsSum(f, v, U),
         \A x \in U : v[x] \in Nat
  PROVE  \A T \in SUBSET U :
           /\ f[T] \in Nat
           /\ \A a \in T : f[T] = v[a] + f[T \ {a}]
<1> DEFINE Good(T) == /\ f[T] \in Nat
                      /\ \A a \in T : f[T] = v[a] + f[T \ {a}]
           Done == {n \in Nat : \A T \in SUBSET U : Cardinality(T) <= n => Good(T)}
<1>0. \A s \in SUBSET U : IsFiniteSet(s) /\ Cardinality(s) \in Nat
  BY FS_Subset, FS_CardinalityType
<1>1. 0 \in Done
  <2>1. f[{}] = 0
    BY SumAt DEF Term
  <2>2. \A T \in SUBSET U : Cardinality(T) <= 0 => T = {}
    BY <1>0, FS_EmptySet
  <2>3. Good({})
    BY <2>1
  <2> HIDE DEF Good
  <2>4. \A T \in SUBSET U : Cardinality(T) <= 0 => Good(T)
    BY <2>2, <2>3
  <2> QED BY <2>4
<1>2. ASSUME NEW n \in Done PROVE n + 1 \in Done
  <2>0. n \in Nat /\ \A T \in SUBSET U : Cardinality(T) <= n => Good(T)
    OBVIOUS
  <2>1. ASSUME NEW T \in SUBSET U, Cardinality(T) = n + 1
        PROVE  Good(T)
    <3>0. T # {}
      <4>1. Cardinality({}) = 0 /\ n + 1 # 0
        BY <2>0, FS_EmptySet
      <4> QED BY <2>1, <4>1
    <3>1. PICK x \in T : x = AnyOf(T)
      BY <3>0, AnyOfMember
    <3>2. \A y \in T : T \ {y} \in SUBSET U /\ Cardinality(T \ {y}) = n
      BY <1>0, <2>0, <2>1, OneLess
    <3>3. \A y \in T : Good(T \ {y})
      <4> HIDE DEF Good
      <4> QED BY <2>0, <3>2
    <3>4. \A y \in T : v[y] \in Nat
      OBVIOUS
    <3>5. f[T] = v[x] + f[T \ {x}]
      <4>1. f[T] = Term(f, v, T)
        BY SumAt
      <4> QED BY <3>0, <3>1, <4>1 DEF Term
    <3>6. f[T] \in Nat
      <4>1. f[T \ {x}] \in Nat
        BY <3>3
      <4>2. v[x] \in Nat
        BY <3>4
      <4> QED BY <3>5, <4>1, <4>2
    <3>7. ASSUME NEW a \in T
          PROVE  f[T] = v[a] + f[T \ {a}]
      <4>1. CASE a = x
        BY <3>5, <4>1
      <4>2. CASE a # x
        <5>1. PICK rest : rest = (T \ {x}) \ {a} /\ rest = (T \ {a}) \ {x}
          OBVIOUS
        <5>2. f[T \ {x}] = v[a] + f[rest]
          <6>1. a \in T \ {x} /\ Good(T \ {x})
            BY <3>3, <4>2
          <6> QED BY <5>1, <6>1
        <5>3. f[T \ {a}] = v[x] + f[rest]
          <6>1. x \in T \ {a} /\ Good(T \ {a})
            BY <3>3, <4>2
          <6> QED BY <5>1, <6>1
        <5>4. f[rest] \in Nat
          <6>1. rest \in SUBSET U /\ Cardinality(rest) <= n
            <7>1. T \ {a} \in SUBSET U /\ x \in T \ {a} /\ IsFiniteSet(T \ {a})
              BY <1>0, <4>2
            <7>2. Cardinality(rest) = Cardinality(T \ {a}) - 1 /\ rest \in SUBSET U
              BY <5>1, <7>1, OneLess
            <7> QED BY <2>0, <3>2, <7>2
          <6> HIDE DEF Good
          <6>2. Good(rest)
            BY <2>0, <6>1
          <6> USE DEF Good
          <6> QED BY <6>2
        <5> QED BY <3>4, <3>5, <5>2, <5>3, <5>4
      <4> QED BY <4>1, <4>2
    <3> QED BY <3>6, <3>7
  <2>2. \A T \in SUBSET U : Cardinality(T) <= n + 1 => Good(T)
    <3> HIDE DEF Good
    <3> QED BY <1>0, <2>0, <2>1
  <2>3. n + 1 \in Nat
    BY <2>0
  <2> HIDE DEF Good
  <2> QED BY <2>2, <2>3
<1>3. Done = Nat
  <2> HIDE DEF Done
  <2>1. Done \in SUBSET Nat
    BY DEF Done
  <2> QED BY <1>1, <1>2, <2>1, EveryNumber
<1> QED BY <1>0, <1>3

(* The sum over a set is the same within a larger one.                     *)
LEMMA SumsAgree ==
  ASSUME NEW f, NEW g, NEW v, NEW U, NEW W, IsFiniteSet(W), U \subseteq W,
         IsSum(f, v, U), IsSum(g, v, W)
  PROVE  f[U] = g[U]
<1> DEFINE Done == {n \in Nat : \A T \in SUBSET U : Cardinality(T) = n => f[T] = g[T]}
<1>0. \A s \in SUBSET U : s \in SUBSET W /\ IsFiniteSet(s) /\ Cardinality(s) \in Nat
  BY FS_Subset, FS_CardinalityType
<1>1. 0 \in Done
  <2>1. ASSUME NEW T \in SUBSET U, Cardinality(T) = 0
        PROVE  f[T] = g[T]
    <3>1. T = {}
      BY <1>0, <2>1, FS_EmptySet
    <3> QED BY <1>0, <3>1, SumAt DEF Term
  <2> QED BY <2>1
<1>2. ASSUME NEW n \in Done PROVE n + 1 \in Done
  <2>0. n \in Nat /\ \A T \in SUBSET U : Cardinality(T) = n => f[T] = g[T]
    OBVIOUS
  <2>1. ASSUME NEW T \in SUBSET U, Cardinality(T) = n + 1
        PROVE  f[T] = g[T]
    <3>0. T # {}
      <4>1. Cardinality({}) = 0 /\ n + 1 # 0
        BY <2>0, FS_EmptySet
      <4> QED BY <2>1, <4>1
    <3>1. PICK t : t = T \ {AnyOf(T)}
      OBVIOUS
    <3>2. t \in SUBSET U /\ Cardinality(t) = n
      BY <1>0, <2>0, <2>1, <3>0, <3>1, AnyOfMember, OneLess
    <3>3. f[t] = g[t]
      BY <2>0, <3>2
    <3>4. f[T] = Term(f, v, T) /\ g[T] = Term(g, v, T)
      BY <1>0, SumAt
    <3> QED BY <3>0, <3>1, <3>3, <3>4 DEF Term
  <2> QED BY <2>0, <2>1
<1>3. Done = Nat
  <2> HIDE DEF Done
  <2>1. Done \in SUBSET Nat
    BY DEF Done
  <2> QED BY <1>1, <1>2, <2>1, EveryNumber
<1> QED BY <1>0, <1>3

(* One member more adds its value.                                         *)
LEMMA SumAdds ==
  ASSUME NEW v, NEW S, IsFiniteSet(S), NEW a, a \notin S,
         \A x \in S \cup {a} : v[x] \in Nat
  PROVE  /\ Sum(v, S) \in Nat
         /\ Sum(v, S \cup {a}) = Sum(v, S) + v[a]
<1>1. PICK W : W = S \cup {a}
  OBVIOUS
<1>2. IsFiniteSet(W) /\ S \subseteq W /\ W \ {a} = S
  BY <1>1, FS_AddElement
<1>3. PICK f : IsSum(f, v, S) /\ Sum(v, S) = f[S]
  BY SumExists DEF Sum
<1>4. PICK g : IsSum(g, v, W) /\ Sum(v, W) = g[W]
  BY <1>2, SumExists DEF Sum
<1>5. f[S] = g[S]
  BY <1>2, <1>3, <1>4, SumsAgree
<1>6. g[S] \in Nat /\ g[W] = v[a] + g[W \ {a}]
  BY <1>1, <1>2, <1>4, SumAnyOrder
<1>7. v[a] \in Nat
  OBVIOUS
<1>8. Sum(v, W) = v[a] + Sum(v, S)
  BY <1>2, <1>3, <1>4, <1>5, <1>6
<1>9. Sum(v, S) \in Nat
  BY <1>3, <1>5, <1>6
<1> QED BY <1>1, <1>7, <1>8, <1>9

LEMMA SumOfNone == \A v : Sum(v, {}) = 0
<1> TAKE v
<1>1. PICK f : IsSum(f, v, {}) /\ Sum(v, {}) = f[{}]
  BY SumExists, FS_EmptySet DEF Sum
<1> QED BY <1>1, SumAt DEF Term

LEMMA SumIsNumber ==
  ASSUME NEW v, NEW S, IsFiniteSet(S), \A x \in S : v[x] \in Nat
  PROVE  Sum(v, S) \in Nat
<1>1. PICK f : IsSum(f, v, S) /\ Sum(v, S) = f[S]
  BY SumExists DEF Sum
<1> QED BY <1>1, SumAnyOrder

(* What v is elsewhere does not matter.                                    *)
LEMMA SumSame ==
  ASSUME NEW v, NEW w, NEW S, IsFiniteSet(S),
         \A x \in S : v[x] \in Nat /\ v[x] = w[x]
  PROVE  Sum(v, S) = Sum(w, S)
<1> DEFINE F == {s \in SUBSET S : Sum(v, s) = Sum(w, s)}
<1>1. {} \in F
  BY SumOfNone
<1>2. ASSUME NEW s \in SUBSET S, s \in F, NEW x \in S \ s
      PROVE  s \cup {x} \in F
  <2>1. IsFiniteSet(s) /\ x \notin s /\ \A y \in s \cup {x} : v[y] \in Nat /\ w[y] \in Nat
    BY FS_Subset
  <2>2. Sum(v, s \cup {x}) = Sum(v, s) + v[x]
    BY <2>1, SumAdds
  <2>3. Sum(w, s \cup {x}) = Sum(w, s) + w[x]
    BY <2>1, SumAdds
  <2>4. v[x] = w[x] /\ Sum(v, s) = Sum(w, s)
    BY <1>2
  <2>5. Sum(v, s \cup {x}) = Sum(w, s \cup {x})
    BY <2>2, <2>3, <2>4
  <2> QED BY <2>5
<1>3. \A s \in SUBSET S : s \in F
  <2> HIDE DEF F
  <2> QED BY <1>1, <1>2, EverySubset
<1> QED BY <1>3

(* The sum over two sets that have nothing in common.                      *)
LEMMA SumOfTwo ==
  ASSUME NEW v, NEW S, NEW T, IsFiniteSet(S), IsFiniteSet(T), S \cap T = {},
         \A x \in S \cup T : v[x] \in Nat
  PROVE  Sum(v, S \cup T) = Sum(v, S) + Sum(v, T)
<1> DEFINE F == {t \in SUBSET T : Sum(v, S \cup t) = Sum(v, S) + Sum(v, t)}
<1>0. Sum(v, S) \in Nat
  BY SumIsNumber
<1>1. {} \in F
  <2>1. S \cup {} = S /\ Sum(v, {}) = 0
    BY SumOfNone
  <2>2. Sum(v, S \cup {}) = Sum(v, S) + Sum(v, {})
    BY <1>0, <2>1
  <2> QED BY <2>2
<1>2. ASSUME NEW t \in SUBSET T, t \in F, NEW x \in T \ t
      PROVE  t \cup {x} \in F
  <2>1. IsFiniteSet(t) /\ IsFiniteSet(S \cup t) /\ x \notin t /\ x \notin S \cup t
    BY FS_Subset, FS_Union
  <2>2. \A y \in (S \cup t) \cup {x} : v[y] \in Nat
    OBVIOUS
  <2>3. Sum(v, (S \cup t) \cup {x}) = Sum(v, S \cup t) + v[x]
    BY <2>1, <2>2, SumAdds
  <2>4. Sum(v, t \cup {x}) = Sum(v, t) + v[x] /\ Sum(v, t) \in Nat
    BY <2>1, <2>2, SumAdds
  <2>5. Sum(v, S \cup t) = Sum(v, S) + Sum(v, t)
    BY <1>2
  <2>6. v[x] \in Nat /\ (S \cup t) \cup {x} = S \cup (t \cup {x})
    BY <2>2
  <2>7. Sum(v, S \cup (t \cup {x})) = Sum(v, S) + Sum(v, t \cup {x})
    BY <1>0, <2>3, <2>4, <2>5, <2>6
  <2> QED BY <2>7
<1>3. \A t \in SUBSET T : t \in F
  <2> HIDE DEF F
  <2> QED BY <1>1, <1>2, EverySubset
<1> QED BY <1>3

(* Members may be summed up part by part.                                  *)
LEMMA SumOfParts ==
  ASSUME NEW T, IsFiniteSet(T), NEW part, DOMAIN part = T, NEW v, NEW w,
         \A t \in T : IsFiniteSet(part[t]) /\ w[t] = Sum(v, part[t]),
         \A t, u \in T : t # u => part[t] \cap part[u] = {},
         \A t \in T : \A x \in part[t] : v[x] \in Nat,
         NEW all, \A x : x \in all <=> \E t \in T : x \in part[t]
  PROVE  Sum(w, T) = Sum(v, all)
<1> DEFINE All(s) == UNION {part[t] : t \in s}
           F == {s \in SUBSET T : IsFiniteSet(All(s)) /\ Sum(w, s) = Sum(v, All(s))}
<1>1. {} \in F
  <2>1. All({}) = {}
    OBVIOUS
  <2>2. IsFiniteSet(All({})) /\ Sum(w, {}) = Sum(v, All({}))
    BY <2>1, SumOfNone, FS_EmptySet
  <2> HIDE DEF All
  <2> QED BY <2>2
<1>2. ASSUME NEW s \in SUBSET T, s \in F, NEW t \in T \ s
      PROVE  s \cup {t} \in F
  <2>1. All(s \cup {t}) = All(s) \cup part[t] /\ All(s) \cap part[t] = {}
    OBVIOUS
  <2>2. \A x \in All(s) \cup part[t] : v[x] \in Nat
    OBVIOUS
  <2>3. IsFiniteSet(s) /\ t \notin s /\ IsFiniteSet(part[t])
    BY FS_Subset
  <2>4. \A u \in s \cup {t} : w[u] \in Nat
    BY SumIsNumber
  <2> HIDE DEF All
  <2>5. IsFiniteSet(All(s)) /\ Sum(w, s) = Sum(v, All(s))
    BY <1>2
  <2>6. Sum(v, All(s) \cup part[t]) = Sum(v, All(s)) + Sum(v, part[t])
    BY <2>1, <2>2, <2>3, <2>5, SumOfTwo
  <2>7. Sum(w, s \cup {t}) = Sum(w, s) + w[t]
    BY <2>3, <2>4, SumAdds
  <2>8. w[t] = Sum(v, part[t])
    OBVIOUS
  <2>9. Sum(w, s \cup {t}) = Sum(v, All(s \cup {t}))
    BY <2>1, <2>5, <2>6, <2>7, <2>8
  <2>10. IsFiniteSet(All(s \cup {t}))
    <3>1. IsFiniteSet(All(s) \cup part[t])
      BY <2>3, <2>5, FS_Union
    <3> QED BY <2>1, <3>1
  <2> QED BY <2>9, <2>10
<1>3. \A s \in SUBSET T : s \in F
  <2> HIDE DEF F
  <2> QED BY <1>1, <1>2, EverySubset
<1>4. All(T) = all
  OBVIOUS
<1> QED BY <1>3, <1>4
-----------------------------------------------------------------------------
(* Sorting. *)

(* sort(key=ts) puts the packets in a row (normalizer.py, merged.sort).    *)
LEMMA SoonerIsTotal ==
  ASSUME NEW ss, NEW P \in SUBSET (Nat \X Nat), \A x \in P : PacketAt(ss, x).ts \in Nat
  PROVE  /\ \A x \in P : ~Sooner(ss, x, x)
         /\ \A x, y, z \in P : Sooner(ss, x, y) /\ Sooner(ss, y, z) => Sooner(ss, x, z)
         /\ \A x, y \in P : x = y \/ Sooner(ss, x, y) \/ Sooner(ss, y, x)
<1> DEFINE time == [x \in P |-> PacketAt(ss, x).ts]
<1>1. \A x \in P : time[x] \in Nat /\ x[1] \in Nat /\ x[2] \in Nat /\ x = <<x[1], x[2]>>
  OBVIOUS
<1>2. \A x, y \in P : Sooner(ss, x, y) <=>
        \/ time[x] < time[y]
        \/ time[x] = time[y] /\ (x[1] < y[1] \/ (x[1] = y[1] /\ x[2] < y[2]))
  BY DEF Sooner, AsExtended
<1> HIDE DEF time
<1>3. \A x \in P : ~Sooner(ss, x, x)
  BY <1>1, <1>2
<1>4. ASSUME NEW x \in P, NEW y \in P, NEW z \in P, Sooner(ss, x, y), Sooner(ss, y, z)
      PROVE  Sooner(ss, x, z)
  BY <1>1, <1>2, <1>4
<1>5. ASSUME NEW x \in P, NEW y \in P, ~Sooner(ss, x, y), ~Sooner(ss, y, x)
      PROVE  x = y
  <2>1. x[1] = y[1] /\ x[2] = y[2]
    BY <1>1, <1>2, <1>5
  <2>2. x = <<x[1], x[2]>> /\ y = <<y[1], y[2]>>
    BY <1>1
  <2> QED BY <2>1, <2>2
<1> QED BY <1>3, <1>4, <1>5

(* Every packet has a place in that row, and every place a packet.         *)
LEMMA NthInOrder ==
  ASSUME NEW ss, NEW P \in SUBSET (Nat \X Nat), IsFiniteSet(P),
         \A x \in P : PacketAt(ss, x).ts \in Nat
  PROVE  /\ \A n \in 1 .. Cardinality(P) : Nth(ss, P, n) \in P
         /\ \A x \in P : \E n \in 1 .. Cardinality(P) : x = Nth(ss, P, n)
         /\ \A m, n \in 1 .. Cardinality(P) :
              m < n => Sooner(ss, Nth(ss, P, m), Nth(ss, P, n)) /\ Nth(ss, P, m) # Nth(ss, P, n)
<1> DEFINE Before(x) == {y \in P : Sooner(ss, y, x)}
           rank == [x \in P |-> Cardinality(Before(x)) + 1]
<1>0. PICK N \in Nat : N = Cardinality(P)
  BY FS_CardinalityType
<1>1. \A x \in P : IsFiniteSet(Before(x)) /\ Cardinality(Before(x)) \in Nat
  BY FS_Subset, FS_CardinalityType
<1>2. ASSUME NEW x \in P
      PROVE  rank[x] \in 1 .. N
  <2>1. Before(x) \in SUBSET (P \ {x})
    BY SoonerIsTotal
  <2>2. Cardinality(P \ {x}) = N - 1 /\ IsFiniteSet(P \ {x})
    BY <1>0, OneLess
  <2>3. Cardinality(Before(x)) <= N - 1
    <3> HIDE DEF Before
    <3> QED BY <2>1, <2>2, FS_Subset
  <2> HIDE DEF Before
  <2> QED BY <1>0, <1>1, <2>3
<1>3. ASSUME NEW x \in P, NEW y \in P, Sooner(ss, x, y)
      PROVE  rank[x] < rank[y]
  <2>1. Before(x) \in SUBSET (Before(y) \ {x}) /\ x \in Before(y)
    BY <1>3, SoonerIsTotal
  <2> HIDE DEF Before
  <2>2. Cardinality(Before(y) \ {x}) = Cardinality(Before(y)) - 1 /\ IsFiniteSet(Before(y) \ {x})
    BY <1>1, <2>1, OneLess
  <2>3. Cardinality(Before(x)) <= Cardinality(Before(y) \ {x})
    BY <2>1, <2>2, FS_Subset
  <2> QED BY <1>1, <2>2, <2>3
<1>4. \A x, y \in P : x # y => rank[x] # rank[y]
  <2> HIDE DEF rank
  <2>1. \A x, y \in P : x = y \/ Sooner(ss, x, y) \/ Sooner(ss, y, x)
    BY SoonerIsTotal
  <2>2. \A x, y \in P : Sooner(ss, x, y) => rank[x] < rank[y]
    BY <1>3
  <2>3. \A x \in P : rank[x] \in Nat
    BY <1>0, <1>2
  <2> QED BY <2>1, <2>2, <2>3
<1>5. \A n \in 1 .. N : \E x \in P : rank[x] = n
  <2>1. IsFiniteSet(1 .. N) /\ Cardinality(1 .. N) = Cardinality(P)
    BY <1>0, FS_Interval
  <2>2. rank \in [P -> 1 .. N]
    BY <1>2
  <2> HIDE DEF rank
  <2>3. rank \in Injection(P, 1 .. N)
    BY <1>4, <2>2 DEF Injection, IsInjective
  <2>4. rank \in Surjection(P, 1 .. N)
    BY <2>1, <2>3, FS_Injection
  <2> QED BY <2>4 DEF Surjection
<1>6. \A n \in 1 .. N : Nth(ss, P, n) \in P /\ rank[Nth(ss, P, n)] = n
  <2>1. ASSUME NEW n \in 1 .. N
        PROVE  \E x \in P : Cardinality(Before(x)) = n - 1
    <3>1. PICK x \in P : rank[x] = n
      BY <1>5
    <3>2. Cardinality(Before(x)) + 1 = n /\ Cardinality(Before(x)) \in Nat
      BY <1>1, <3>1
    <3> HIDE DEF Before
    <3> QED BY <3>2
  <2>2. \A n \in 1 .. N : Nth(ss, P, n) \in P /\ Cardinality(Before(Nth(ss, P, n))) = n - 1
    BY <2>1 DEF Nth
  <2> HIDE DEF Before
  <2> QED BY <2>2
<1> HIDE DEF rank
<1>7. \A x \in P : x = Nth(ss, P, rank[x])
  BY <1>2, <1>4, <1>6
<1>8. ASSUME NEW m \in 1 .. N, NEW n \in 1 .. N, m < n
      PROVE  Sooner(ss, Nth(ss, P, m), Nth(ss, P, n)) /\ Nth(ss, P, m) # Nth(ss, P, n)
  <2>1. PICK x \in P : x = Nth(ss, P, m) /\ rank[x] = m
    BY <1>6
  <2>2. PICK y \in P : y = Nth(ss, P, n) /\ rank[y] = n
    BY <1>6
  <2>3. ~Sooner(ss, y, x)
    <3>1. ~(n < m)
      BY <1>8
    <3> QED BY <1>3, <2>1, <2>2, <3>1
  <2>4. x # y
    BY <1>8, <2>1, <2>2
  <2>5. Sooner(ss, x, y)
    BY <2>3, <2>4, SoonerIsTotal
  <2> QED BY <2>1, <2>2, <2>4, <2>5
<1> QED BY <1>0, <1>2, <1>6, <1>7, <1>8
-----------------------------------------------------------------------------
(* The list of sessions. *)

Given == sessions \in Seq(Sessions)

LEMMA GivenSessions ==
  ASSUME Given
  PROVE  /\ DOMAIN sessions \in SUBSET Nat
         /\ IsFiniteSet(DOMAIN sessions)
         /\ \A i \in DOMAIN sessions : sessions[i] \in Sessions
<1>1. PICK n \in Nat : DOMAIN sessions = 1 .. n
  BY DEF Given
<1>2. IsFiniteSet(1 .. n)
  BY FS_Interval
<1>3. \A i \in DOMAIN sessions : sessions[i] \in Sessions
  BY DEF Given
<1> QED BY <1>1, <1>2, <1>3

LEMMA GivenPackets ==
  ASSUME Given, NEW i \in DOMAIN sessions
  PROVE  /\ sessions[i].packets \in Seq(Captured)
         /\ Len(sessions[i].packets) \in Nat
         /\ DOMAIN sessions[i].packets = 1 .. Len(sessions[i].packets)
         /\ \A n \in DOMAIN sessions[i].packets :
              /\ sessions[i].packets[n] \in Captured
              /\ sessions[i].packets[n].ts \in Nat
<1>1. sessions[i].packets \in Seq(Captured)
  BY GivenSessions DEF Sessions
<1> QED BY <1>1, ParsedAssumption

(* The places of the packets of a group: as many as its sessions have.     *)
LEMMA PlacesAreCounted ==
  ASSUME Given, NEW G \in SUBSET DOMAIN sessions
  PROVE  /\ Places(sessions, G) \in SUBSET (Nat \X Nat)
         /\ \A x \in Places(sessions, G) : PacketAt(sessions, x).ts \in Nat
         /\ IsFiniteSet(Places(sessions, G))
         /\ Cardinality(Places(sessions, G)) =
              Sum([i \in DOMAIN sessions |-> Len(sessions[i].packets)], G)
<1> DEFINE v == [i \in DOMAIN sessions |-> Len(sessions[i].packets)]
           P(H) == Places(sessions, H)
           Row(i) == {i} \X DOMAIN sessions[i].packets
           F == {H \in SUBSET G : IsFiniteSet(P(H)) /\ Cardinality(P(H)) = Sum(v, H)}
<1>0. IsFiniteSet(G) /\ G \in SUBSET Nat
  BY GivenSessions, FS_Subset
<1>1. \A x \in P(G) : x[1] \in G /\ x[2] \in DOMAIN sessions[x[1]].packets /\ x = <<x[1], x[2]>>
  BY DEF Places
<1>2. P(G) \in SUBSET (Nat \X Nat)
  <2>1. \A i \in G : i \in Nat /\ DOMAIN sessions[i].packets \in SUBSET Nat
    BY <1>0, GivenPackets
  <2> HIDE DEF P
  <2> QED BY <1>1, <2>1
<1>3. \A x \in P(G) : PacketAt(sessions, x).ts \in Nat
  <2> HIDE DEF P
  <2> QED BY <1>1, GivenPackets DEF PacketAt
<1>4. {} \in F
  <2>1. P({}) = {}
    BY DEF Places
  <2>2. IsFiniteSet(P({})) /\ Cardinality(P({})) = Sum(v, {})
    BY <2>1, SumOfNone, FS_EmptySet
  <2> HIDE DEF P, v
  <2> QED BY <2>2
<1>5. \A i \in G : v[i] = Len(sessions[i].packets) /\ v[i] \in Nat
  BY GivenPackets
<1>6. ASSUME NEW i \in G
      PROVE  IsFiniteSet(Row(i)) /\ Cardinality(Row(i)) = v[i]
  <2>1. IsFiniteSet({i}) /\ Cardinality({i}) = 1
    BY FS_Singleton
  <2>2. DOMAIN sessions[i].packets = 1 .. v[i] /\ v[i] \in Nat
    BY <1>5, GivenPackets
  <2>3. IsFiniteSet(1 .. v[i]) /\ Cardinality(1 .. v[i]) = v[i]
    BY <2>2, FS_Interval
  <2>4. /\ IsFiniteSet({i} \X (1 .. v[i]))
        /\ Cardinality({i} \X (1 .. v[i])) = Cardinality({i}) * Cardinality(1 .. v[i])
    BY <2>1, <2>3, FS_Product
  <2> HIDE DEF v
  <2> QED BY <2>1, <2>2, <2>3, <2>4
<1>7. ASSUME NEW H \in SUBSET G, H \in F, NEW i \in G \ H
      PROVE  H \cup {i} \in F
  <2>1. P(H \cup {i}) = P(H) \cup Row(i) /\ P(H) \cap Row(i) = {}
    BY DEF Places
  <2>2. IsFiniteSet(H) /\ i \notin H /\ \A j \in H \cup {i} : v[j] \in Nat
    BY <1>0, <1>5, FS_Subset
  <2> HIDE DEF P, v, Row
  <2>3. IsFiniteSet(P(H)) /\ Cardinality(P(H)) = Sum(v, H)
    BY <1>7
  <2>4. IsFiniteSet(Row(i)) /\ Cardinality(Row(i)) = v[i]
    BY <1>6
  <2>5. /\ IsFiniteSet(P(H) \cup Row(i))
        /\ Cardinality(P(H) \cup Row(i)) =
             Cardinality(P(H)) + Cardinality(Row(i)) - Cardinality(P(H) \cap Row(i))
    BY <2>3, <2>4, FS_Union
  <2>6. Cardinality(P(H) \cap Row(i)) = 0
    BY <2>1, FS_EmptySet
  <2>7. Sum(v, H \cup {i}) = Sum(v, H) + v[i] /\ Sum(v, H) \in Nat /\ v[i] \in Nat
    BY <2>2, SumAdds
  <2>8. Cardinality(P(H \cup {i})) = Sum(v, H \cup {i})
    <3>1. Cardinality(P(H) \cup Row(i)) = Sum(v, H) + v[i] - 0
      BY <2>3, <2>4, <2>5, <2>6
    <3>2. Cardinality(P(H) \cup Row(i)) = Sum(v, H) + v[i]
      BY <2>7, <3>1
    <3> QED BY <2>1, <2>7, <3>2
  <2>9. IsFiniteSet(P(H \cup {i}))
    BY <2>1, <2>5
  <2> QED BY <2>8, <2>9
<1>8. \A H \in SUBSET G : H \in F
  <2> HIDE DEF F
  <2> QED BY <1>0, <1>4, <1>7, EverySubset
<1> QED BY <1>2, <1>3, <1>8

(* The packets of a group are those of its sessions, in order of time      *)
(* (normalizer.py, merged).                                                *)
LEMMA PacketsSorted ==
  ASSUME Given, NEW G \in SUBSET DOMAIN sessions
  PROVE  LET P == Places(sessions, G)
             all == PacketsOf(sessions, G) IN
         /\ all \in Seq(Captured)
         /\ Len(all) = Cardinality(P)
         /\ DOMAIN all = 1 .. Cardinality(P)
         /\ \A n \in DOMAIN all : /\ Nth(sessions, P, n) \in P
                                 /\ all[n] = PacketAt(sessions, Nth(sessions, P, n))
         /\ \A m, n \in DOMAIN all : m < n => all[m].ts <= all[n].ts
<1> DEFINE P == Places(sessions, G)
           all == PacketsOf(sessions, G)
           N == Cardinality(P)
<1>1. N \in Nat /\ IsFiniteSet(P) /\ P \in SUBSET (Nat \X Nat)
      /\ \A x \in P : PacketAt(sessions, x).ts \in Nat
  BY PlacesAreCounted, FS_CardinalityType
<1>2. all = [n \in 1 .. N |-> PacketAt(sessions, Nth(sessions, P, n))]
  BY DEF PacketsOf
<1>3. \A x \in P : PacketAt(sessions, x) \in Captured
  <2>1. \A x \in P : x[1] \in G /\ x[2] \in DOMAIN sessions[x[1]].packets
    BY DEF Places
  <2> QED BY <2>1, GivenPackets DEF PacketAt
<1> HIDE DEF P
<1>4. \A n \in 1 .. N : Nth(sessions, P, n) \in P
  BY <1>1, NthInOrder
<1>5. \A m, n \in 1 .. N : m < n => Sooner(sessions, Nth(sessions, P, m), Nth(sessions, P, n))
  BY <1>1, NthInOrder
<1>6. ASSUME NEW m \in 1 .. N, NEW n \in 1 .. N, m < n
      PROVE  PacketAt(sessions, Nth(sessions, P, m)).ts <= PacketAt(sessions, Nth(sessions, P, n)).ts
  <2>1. PICK x \in P : x = Nth(sessions, P, m)
    BY <1>4
  <2>2. PICK y \in P : y = Nth(sessions, P, n)
    BY <1>4
  <2>3. Sooner(sessions, x, y)
    BY <1>5, <1>6, <2>1, <2>2
  <2>4. PacketAt(sessions, x).ts \in Nat /\ PacketAt(sessions, y).ts \in Nat
    BY <1>1
  <2>5. PacketAt(sessions, x).ts <= PacketAt(sessions, y).ts
    BY <2>3, <2>4 DEF Sooner
  <2> QED BY <2>1, <2>2, <2>5
<1>7. all \in [1 .. N -> Captured]
  BY <1>2, <1>3, <1>4
<1>8. all \in Seq(Captured) /\ Len(all) = N /\ DOMAIN all = 1 .. N
  <2> HIDE DEF all, N
  <2> QED BY <1>1, <1>7
<1> HIDE DEF N
<1>9. \A n \in DOMAIN all : all[n] = PacketAt(sessions, Nth(sessions, P, n))
  BY <1>2
<1> HIDE DEF all
<1> QED BY <1>4, <1>6, <1>8, <1>9 DEF P, all, N
-----------------------------------------------------------------------------
(* Groups and what is left of them. *)

(* The group key divides the sessions into classes (normalizer.py, key).   *)
LEMMA SameGroupDivides ==
  /\ \A s : SameGroup(s, s)
  /\ \A s, t : SameGroup(s, t) => SameGroup(t, s)
  /\ \A s, t, u : SameGroup(s, t) /\ SameGroup(t, u) => SameGroup(s, u)
BY DEF SameGroup, HasNoPorts

LEMMA GroupsOverlap ==
  ASSUME NEW s, NEW t, NEW j \in DOMAIN sessions,
         j \in GroupOf(sessions, s), j \in GroupOf(sessions, t)
  PROVE  GroupOf(sessions, s) = GroupOf(sessions, t)
<1>1. SameGroup(s, sessions[j]) /\ SameGroup(t, sessions[j])
  BY DEF GroupOf
<1>2. SameGroup(sessions[j], s) /\ SameGroup(sessions[j], t)
  BY <1>1, SameGroupDivides
<1>3. SameGroup(s, t) /\ SameGroup(t, s)
  BY <1>1, <1>2, SameGroupDivides
<1>4. \A u : SameGroup(s, u) <=> SameGroup(t, u)
  BY <1>3, SameGroupDivides
<1> QED BY <1>4 DEF GroupOf

LEMMA GreatestNumber ==
  ASSUME NEW S \in SUBSET Nat, S # {}, IsFiniteSet(S)
  PROVE  \E m \in S : \A k \in S : k <= m
<1> DEFINE F == {s \in SUBSET S : s = {} \/ \E m \in s : \A k \in s : k <= m}
<1>1. {} \in F
  OBVIOUS
<1>2. ASSUME NEW s \in SUBSET S, s \in F, NEW x \in S \ s
      PROVE  s \cup {x} \in F
  <2>1. CASE s = {}
    <3>1. \A k \in s \cup {x} : k <= x
      BY <2>1
    <3> QED BY <3>1
  <2>2. CASE \E m \in s : \A k \in s : k <= m
    <3>1. PICK m \in s : \A k \in s : k <= m
      BY <2>2
    <3>2. CASE x <= m
      <4>1. \A k \in s \cup {x} : k <= m
        BY <3>1, <3>2
      <4> QED BY <4>1
    <3>3. CASE m < x
      <4>1. \A k \in s \cup {x} : k <= x
        BY <3>1, <3>3
      <4> QED BY <4>1
    <3> QED BY <3>2, <3>3
  <2> QED BY <1>2, <2>1, <2>2
<1>3. \A s \in SUBSET S : s \in F
  <2> HIDE DEF F
  <2> QED BY <1>1, <1>2, EverySubset
<1> QED BY <1>3

LEMMA MinOf ==
  ASSUME NEW S \in SUBSET Nat, S # {}
  PROVE  Min(S) \in S /\ \A k \in S : Min(S) <= k
<1>1. \E m \in S : \A k \in S : m <= k
  BY LeastNumber
<1> QED BY <1>1 DEF Min

LEMMA MaxOf ==
  ASSUME NEW S \in SUBSET Nat, S # {}, IsFiniteSet(S)
  PROVE  Max(S) \in S /\ \A k \in S : k <= Max(S)
<1>1. \E m \in S : \A k \in S : k <= m
  BY GreatestNumber
<1>2. \E m \in S : \A k \in S : m >= k
  BY <1>1
<1>3. Max(S) \in S /\ \A k \in S : Max(S) >= k
  BY <1>2 DEF Max
<1> QED BY <1>3

LEMMA GroupOfOne ==
  ASSUME Given, NEW i \in DOMAIN sessions
  PROVE  LET G == GroupOf(sessions, sessions[i]) IN
         /\ G \in SUBSET DOMAIN sessions
         /\ i \in G
         /\ G \in SUBSET Nat
         /\ IsFiniteSet(G)
         /\ Min(G) \in G
<1> DEFINE G == GroupOf(sessions, sessions[i])
<1>1. G \in SUBSET DOMAIN sessions /\ i \in G
  BY SameGroupDivides DEF GroupOf
<1>2. G \in SUBSET Nat /\ IsFiniteSet(G)
  BY <1>1, GivenSessions, FS_Subset
<1> HIDE DEF G
<1>3. Min(G) \in G
  BY <1>1, <1>2, MinOf
<1> QED BY <1>1, <1>2, <1>3 DEF G

(* A merged session belongs to the group it was made of.                   *)
LEMMA MergedBelongs ==
  ASSUME Given, NEW i \in DOMAIN sessions
  PROVE  LET t == Merged(sessions, GroupOf(sessions, sessions[i])) IN
         SameGroup(sessions[i], t) /\ GroupOf(sessions, t) = GroupOf(sessions, sessions[i])
<1> DEFINE G == GroupOf(sessions, sessions[i])
           t == Merged(sessions, G)
<1>1. PICK f \in DOMAIN sessions : f = Min(G) /\ SameGroup(sessions[i], sessions[f])
  BY GroupOfOne DEF GroupOf
<1>2. /\ t.src = sessions[f].src /\ t.dst = sessions[f].dst
      /\ t.protocol = sessions[f].protocol /\ t.session_id = sessions[f].session_id
  BY <1>1 DEF Merged
<1> HIDE DEF t
<1>3. SameGroup(sessions[f], t)
  BY <1>2 DEF SameGroup
<1>4. SameGroup(sessions[i], t)
  BY <1>1, <1>3, SameGroupDivides
<1>5. \A u : SameGroup(t, u) <=> SameGroup(sessions[i], u)
  BY <1>4, SameGroupDivides
<1>6. GroupOf(sessions, t) = GroupOf(sessions, sessions[i])
  BY <1>5 DEF GroupOf
<1> QED BY <1>4, <1>6 DEF t, G

(* What is left is made of groups that divide the sessions among them.     *)
LEMMA LeftIsMerged ==
  ASSUME Given, NEW t \in Left
  PROVE  \E i \in DOMAIN sessions :
           /\ t = Merged(sessions, GroupOf(sessions, sessions[i]))
           /\ GroupOf(sessions, t) = GroupOf(sessions, sessions[i])
<1>1. PICK i \in DOMAIN sessions : t = Merged(sessions, GroupOf(sessions, sessions[i]))
  BY DEF Left, Normalize
<1> QED BY <1>1, MergedBelongs

LEMMA LeftDivides ==
  ASSUME Given
  PROVE  /\ IsFiniteSet(Left)
         /\ \A t \in Left : /\ GroupOf(sessions, t) \in SUBSET DOMAIN sessions
                            /\ IsFiniteSet(GroupOf(sessions, t))
         /\ \A t, u \in Left : t # u => GroupOf(sessions, t) \cap GroupOf(sessions, u) = {}
         /\ UNION {GroupOf(sessions, t) : t \in Left} = DOMAIN sessions
<1>1. IsFiniteSet(Left)
  <2> DEFINE merge == [i \in DOMAIN sessions |-> Merged(sessions, GroupOf(sessions, sessions[i]))]
  <2>1. merge \in Surjection(DOMAIN sessions, Left)
    BY DEF Surjection, Left, Normalize
  <2> HIDE DEF merge
  <2> QED BY <2>1, GivenSessions, FS_Surjection
<1>2. \A t \in Left : GroupOf(sessions, t) \in SUBSET DOMAIN sessions /\ IsFiniteSet(GroupOf(sessions, t))
  BY GivenSessions, FS_Subset DEF GroupOf
<1>3. ASSUME NEW t \in Left, NEW u \in Left,
             NEW j \in GroupOf(sessions, t) \cap GroupOf(sessions, u)
      PROVE  t = u
  <2>1. j \in DOMAIN sessions
    BY <1>2
  <2>2. GroupOf(sessions, t) = GroupOf(sessions, u)
    BY <2>1, GroupsOverlap
  <2>3. t = Merged(sessions, GroupOf(sessions, t)) /\ u = Merged(sessions, GroupOf(sessions, u))
    BY LeftIsMerged
  <2> QED BY <2>2, <2>3
<1>4. ASSUME NEW j \in DOMAIN sessions
      PROVE  \E t \in Left : j \in GroupOf(sessions, t)
  <2>1. Merged(sessions, GroupOf(sessions, sessions[j])) \in Left
    BY DEF Left, Normalize
  <2>2. j \in GroupOf(sessions, sessions[j])
    BY GroupOfOne
  <2> QED BY <2>1, <2>2, MergedBelongs
<1> QED BY <1>1, <1>2, <1>3, <1>4
-----------------------------------------------------------------------------
(* Totals. *)

(* What a merged session adds up is the sum over its group.                *)
LEMMA GroupTotal ==
  ASSUME Given, NEW G \in SUBSET DOMAIN sessions, NEW u, DOMAIN u = G,
         NEW v, \A i \in DOMAIN sessions : v[i] \in Nat, \A i \in G : u[i] = v[i]
  PROVE  SumFunction(u) = Sum(v, G)
<1>1. IsFiniteSet(G)
  BY GivenSessions, FS_Subset
<1>2. SumFunction(u) = Sum(u, G)
  BY SumFunctionIsSum
<1>3. \A i \in G : v[i] \in Nat /\ v[i] = u[i]
  OBVIOUS
<1>4. Sum(v, G) = Sum(u, G)
  BY <1>1, <1>3, SumSame
<1> QED BY <1>2, <1>4

(* ... so all that is left adds up to what was given.                      *)
LEMMA TotalOfGroups ==
  ASSUME Given, NEW v, DOMAIN v = DOMAIN sessions, \A i \in DOMAIN sessions : v[i] \in Nat,
         NEW w, DOMAIN w = Left, \A t \in Left : w[t] = Sum(v, GroupOf(sessions, t))
  PROVE  SumFunction(w) = SumFunction(v)
<1>1. PICK part : part = [t \in Left |-> GroupOf(sessions, t)]
  OBVIOUS
<1>2. \A t \in Left : part[t] = GroupOf(sessions, t)
  BY <1>1
<1>3. \A t \in Left : IsFiniteSet(part[t]) /\ w[t] = Sum(v, part[t])
  BY <1>2, LeftDivides
<1>4. \A t, u \in Left : t # u => part[t] \cap part[u] = {}
  BY <1>2, LeftDivides
<1>5. \A t \in Left : \A i \in part[t] : v[i] \in Nat
  BY <1>2, LeftDivides
<1>6. \A i : i \in DOMAIN sessions <=> \E t \in Left : i \in part[t]
  BY <1>2, LeftDivides
<1>7. IsFiniteSet(Left)
  BY LeftDivides
<1>8. Sum(w, Left) = Sum(v, DOMAIN sessions)
  <2>1. DOMAIN part = Left
    BY <1>1
  <2> QED BY <1>3, <1>4, <1>5, <1>6, <1>7, <2>1, SumOfParts
<1> QED BY <1>8, SumFunctionIsSum

LEMMA MergedFields ==
  ASSUME NEW ss, NEW G, NEW t, t = Merged(ss, G)
  PROVE  /\ t.bytes_sent = SumFunction([i \in G |-> ss[i].bytes_sent])
         /\ t.bytes_recv = SumFunction([i \in G |-> ss[i].bytes_recv])
         /\ t.packet_count = SumFunction([i \in G |-> ss[i].packet_count])
         /\ t.packets = PacketsOf(ss, G)
BY DEF Merged

LEMMA MergedSpan ==
  ASSUME NEW ss, NEW G, NEW t, t = Merged(ss, G)
  PROVE  t.start_ts = Span(ss, G).from /\ t.end_ts = Span(ss, G).to
BY DEF Merged

LEMMA MergedFlags ==
  ASSUME NEW ss, NEW G, NEW t, t = Merged(ss, G)
  PROVE  /\ t.rst = (\E i \in G : ss[i].rst)
         /\ t.confidence = IF \E i \in G : ss[i].confidence = "low" THEN "low" ELSE "normal"
BY DEF Merged

LEMMA LeftFromGroup ==
  ASSUME Given, NEW t \in Left
  PROVE  /\ t = Merged(sessions, GroupOf(sessions, t))
         /\ GroupOf(sessions, t) \in SUBSET DOMAIN sessions
BY LeftIsMerged, LeftDivides

LEMMA TotalOfSums ==
  ASSUME Given, NEW v, DOMAIN v = DOMAIN sessions, \A i \in DOMAIN sessions : v[i] \in Nat,
         NEW w, DOMAIN w = Left,
         \A t \in Left : \E u : /\ w[t] = SumFunction(u)
                               /\ DOMAIN u = GroupOf(sessions, t)
                               /\ \A i \in DOMAIN u : u[i] = v[i]
  PROVE  SumFunction(w) = SumFunction(v)
<1>1. ASSUME NEW t \in Left PROVE w[t] = Sum(v, GroupOf(sessions, t))
  <2>1. PICK u : /\ w[t] = SumFunction(u)
                 /\ DOMAIN u = GroupOf(sessions, t)
                 /\ \A i \in DOMAIN u : u[i] = v[i]
    OBVIOUS
  <2>2. PICK G \in SUBSET DOMAIN sessions : G = GroupOf(sessions, t)
    BY LeftFromGroup
  <2>3. SumFunction(u) = Sum(v, G)
    BY <2>1, <2>2, GroupTotal
  <2> QED BY <2>1, <2>2, <2>3
<1> QED BY <1>1, TotalOfGroups

LEMMA BytesSentKept ==
  ASSUME Given
  PROVE  SumFunction([t \in Left |-> t.bytes_sent]) =
           SumFunction([i \in DOMAIN sessions |-> sessions[i].bytes_sent])
<1>1. PICK v : v = [i \in DOMAIN sessions |-> sessions[i].bytes_sent]
  OBVIOUS
<1>2. PICK w : w = [t \in Left |-> t.bytes_sent]
  OBVIOUS
<1>3. \A i \in DOMAIN sessions : v[i] = sessions[i].bytes_sent /\ v[i] \in Nat
  BY <1>1, GivenSessions DEF Sessions
<1>4. ASSUME NEW t \in Left
      PROVE  \E u : /\ w[t] = SumFunction(u)
                    /\ DOMAIN u = GroupOf(sessions, t)
                    /\ \A i \in DOMAIN u : u[i] = v[i]
  <2>1. PICK G \in SUBSET DOMAIN sessions : G = GroupOf(sessions, t) /\ t = Merged(sessions, G)
    BY LeftFromGroup
  <2>2. PICK u : u = [i \in G |-> sessions[i].bytes_sent]
    OBVIOUS
  <2>3. w[t] = SumFunction(u)
    BY <1>2, <2>1, <2>2, MergedFields
  <2>4. DOMAIN u = G /\ \A i \in G : u[i] = v[i]
    BY <1>3, <2>2
  <2> QED BY <2>1, <2>3, <2>4
<1>5. SumFunction(w) = SumFunction(v)
  BY <1>1, <1>2, <1>3, <1>4, TotalOfSums
<1> QED BY <1>1, <1>2, <1>5

LEMMA BytesReceivedKept ==
  ASSUME Given
  PROVE  SumFunction([t \in Left |-> t.bytes_recv]) =
           SumFunction([i \in DOMAIN sessions |-> sessions[i].bytes_recv])
<1>1. PICK v : v = [i \in DOMAIN sessions |-> sessions[i].bytes_recv]
  OBVIOUS
<1>2. PICK w : w = [t \in Left |-> t.bytes_recv]
  OBVIOUS
<1>3. \A i \in DOMAIN sessions : v[i] = sessions[i].bytes_recv /\ v[i] \in Nat
  BY <1>1, GivenSessions DEF Sessions
<1>4. ASSUME NEW t \in Left
      PROVE  \E u : /\ w[t] = SumFunction(u)
                    /\ DOMAIN u = GroupOf(sessions, t)
                    /\ \A i \in DOMAIN u : u[i] = v[i]
  <2>1. PICK G \in SUBSET DOMAIN sessions : G = GroupOf(sessions, t) /\ t = Merged(sessions, G)
    BY LeftFromGroup
  <2>2. PICK u : u = [i \in G |-> sessions[i].bytes_recv]
    OBVIOUS
  <2>3. w[t] = SumFunction(u)
    BY <1>2, <2>1, <2>2, MergedFields
  <2>4. DOMAIN u = G /\ \A i \in G : u[i] = v[i]
    BY <1>3, <2>2
  <2> QED BY <2>1, <2>3, <2>4
<1>5. SumFunction(w) = SumFunction(v)
  BY <1>1, <1>2, <1>3, <1>4, TotalOfSums
<1> QED BY <1>1, <1>2, <1>5

LEMMA CountsKept ==
  ASSUME Given
  PROVE  SumFunction([t \in Left |-> t.packet_count]) =
           SumFunction([i \in DOMAIN sessions |-> sessions[i].packet_count])
<1>1. PICK v : v = [i \in DOMAIN sessions |-> sessions[i].packet_count]
  OBVIOUS
<1>2. PICK w : w = [t \in Left |-> t.packet_count]
  OBVIOUS
<1>3. \A i \in DOMAIN sessions : v[i] = sessions[i].packet_count /\ v[i] \in Nat
  BY <1>1, GivenSessions DEF Sessions
<1>4. ASSUME NEW t \in Left
      PROVE  \E u : /\ w[t] = SumFunction(u)
                    /\ DOMAIN u = GroupOf(sessions, t)
                    /\ \A i \in DOMAIN u : u[i] = v[i]
  <2>1. PICK G \in SUBSET DOMAIN sessions : G = GroupOf(sessions, t) /\ t = Merged(sessions, G)
    BY LeftFromGroup
  <2>2. PICK u : u = [i \in G |-> sessions[i].packet_count]
    OBVIOUS
  <2>3. w[t] = SumFunction(u)
    BY <1>2, <2>1, <2>2, MergedFields
  <2>4. DOMAIN u = G /\ \A i \in G : u[i] = v[i]
    BY <1>3, <2>2
  <2> QED BY <2>1, <2>3, <2>4
<1>5. SumFunction(w) = SumFunction(v)
  BY <1>1, <1>2, <1>3, <1>4, TotalOfSums
<1> QED BY <1>1, <1>2, <1>5

LEMMA LengthsKept ==
  ASSUME Given
  PROVE  SumFunction([t \in Left |-> Len(t.packets)]) =
           SumFunction([i \in DOMAIN sessions |-> Len(sessions[i].packets)])
<1>1. PICK v : v = [i \in DOMAIN sessions |-> Len(sessions[i].packets)]
  OBVIOUS
<1>2. PICK w : w = [t \in Left |-> Len(t.packets)]
  OBVIOUS
<1>3. \A i \in DOMAIN sessions : v[i] \in Nat
  BY <1>1, GivenPackets
<1>4. ASSUME NEW t \in Left PROVE w[t] = Sum(v, GroupOf(sessions, t))
  <2>1. PICK G \in SUBSET DOMAIN sessions : G = GroupOf(sessions, t) /\ t = Merged(sessions, G)
    BY LeftFromGroup
  <2>2. t.packets = PacketsOf(sessions, G)
    BY <2>1, MergedFields
  <2>3. Len(t.packets) = Sum(v, G)
    BY <1>1, <2>2, PacketsSorted, PlacesAreCounted
  <2> QED BY <1>2, <2>1, <2>3
<1>5. SumFunction(w) = SumFunction(v)
  BY <1>1, <1>2, <1>3, <1>4, TotalOfGroups
<1> QED BY <1>1, <1>2, <1>5

(* The packets of a merged session are those of its group.                 *)
LEMMA SamePackets ==
  ASSUME Given, NEW G \in SUBSET DOMAIN sessions
  PROVE  ToSet(PacketsOf(sessions, G)) = UNION {ToSet(sessions[i].packets) : i \in G}
<1> DEFINE P == Places(sessions, G)
           all == PacketsOf(sessions, G)
<1>1. \A x \in P : PacketAt(sessions, x) \in UNION {ToSet(sessions[i].packets) : i \in G}
  BY DEF Places, PacketAt, ToSet
<1>2. ASSUME NEW i \in G, NEW n \in DOMAIN sessions[i].packets
      PROVE  <<i, n>> \in P /\ PacketAt(sessions, <<i, n>>) = sessions[i].packets[n]
  BY DEF Places, PacketAt
<1>3. /\ DOMAIN all = 1 .. Cardinality(P)
      /\ \A n \in DOMAIN all : /\ Nth(sessions, P, n) \in P
                              /\ all[n] = PacketAt(sessions, Nth(sessions, P, n))
  BY PacketsSorted
<1>4. \A x \in P : \E n \in 1 .. Cardinality(P) : x = Nth(sessions, P, n)
  BY PlacesAreCounted, NthInOrder
<1> HIDE DEF P, all
<1>5. ToSet(all) \subseteq UNION {ToSet(sessions[i].packets) : i \in G}
  BY <1>1, <1>3 DEF ToSet
<1>6. ASSUME NEW i \in G, NEW p \in ToSet(sessions[i].packets)
      PROVE  p \in ToSet(all)
  <2>1. PICK n \in DOMAIN sessions[i].packets : p = sessions[i].packets[n]
    BY DEF ToSet
  <2>2. PICK x \in P : p = PacketAt(sessions, x)
    BY <1>2, <2>1
  <2>3. PICK m \in 1 .. Cardinality(P) : x = Nth(sessions, P, m)
    BY <1>4
  <2>4. m \in DOMAIN all /\ all[m] = p
    BY <1>3, <2>2, <2>3
  <2> QED BY <2>4 DEF ToSet
<1> QED BY <1>5, <1>6 DEF all

LEMMA PacketsKept ==
  ASSUME Given
  PROVE  UNION {ToSet(t.packets) : t \in Left} =
           UNION {ToSet(sessions[i].packets) : i \in DOMAIN sessions}
<1>1. ASSUME NEW t \in Left
      PROVE  ToSet(t.packets) = UNION {ToSet(sessions[i].packets) : i \in GroupOf(sessions, t)}
  <2>1. PICK G \in SUBSET DOMAIN sessions : G = GroupOf(sessions, t) /\ t = Merged(sessions, G)
    BY LeftFromGroup
  <2>2. t.packets = PacketsOf(sessions, G)
    BY <2>1, MergedFields
  <2> QED BY <2>1, <2>2, SamePackets
<1>2. UNION {GroupOf(sessions, t) : t \in Left} = DOMAIN sessions
  BY LeftDivides
<1>3. ASSUME NEW i \in DOMAIN sessions, NEW p \in ToSet(sessions[i].packets)
      PROVE  \E t \in Left : p \in ToSet(t.packets)
  <2>1. PICK t \in Left : i \in GroupOf(sessions, t)
    BY <1>2
  <2> QED BY <1>1, <2>1
<1>4. ASSUME NEW t \in Left, NEW p \in ToSet(t.packets)
      PROVE  \E i \in DOMAIN sessions : p \in ToSet(sessions[i].packets)
  <2>1. PICK i \in GroupOf(sessions, t) : p \in ToSet(sessions[i].packets)
    BY <1>1
  <2> QED BY <1>2, <2>1
<1> QED BY <1>3, <1>4
-----------------------------------------------------------------------------
(* One session per 5-tuple. *)

LEMMA LeftKeepsTuples ==
  ASSUME Given
  PROVE  {Tuple(t) : t \in Left} = {Tuple(sessions[i]) : i \in DOMAIN sessions}
<1>1. ASSUME NEW i \in DOMAIN sessions, NEW t \in Left, i \in GroupOf(sessions, t)
      PROVE  Tuple(t) = Tuple(sessions[i])
  BY <1>1 DEF GroupOf, SameGroup, Tuple
<1>2. \A t \in Left : \E i \in DOMAIN sessions : i \in GroupOf(sessions, t)
  BY LeftIsMerged, GroupOfOne
<1>3. \A i \in DOMAIN sessions : \E t \in Left : i \in GroupOf(sessions, t)
  BY LeftDivides
<1> QED BY <1>1, <1>2, <1>3

LEMMA TuplesApart ==
  ASSUME Given, NEW t \in Left, NEW u \in Left, t # u, Tuple(t) = Tuple(u)
  PROVE  HasNoPorts(t)
<1> SUFFICES ASSUME ~HasNoPorts(t) PROVE FALSE
  OBVIOUS
<1>1. SameGroup(t, u)
  BY DEF SameGroup, Tuple
<1>2. \A v : SameGroup(u, v) => SameGroup(t, v)
  BY <1>1, SameGroupDivides
<1>3. GroupOf(sessions, u) \subseteq GroupOf(sessions, t)
  BY <1>2 DEF GroupOf
<1>4. \E j : j \in GroupOf(sessions, u)
  BY LeftIsMerged, GroupOfOne
<1> QED BY <1>3, <1>4, LeftDivides

(* Each session has an id of its own.                                      *)
OwnIds ==
  \A i, j \in DOMAIN sessions : sessions[i].session_id = sessions[j].session_id => i = j

LEMMA NoPortsAlone ==
  ASSUME Given, OwnIds, NEW i \in DOMAIN sessions, HasNoPorts(sessions[i])
  PROVE  GroupOf(sessions, sessions[i]) = {i}
<1>1. \A j \in DOMAIN sessions :
        SameGroup(sessions[i], sessions[j]) => sessions[i].session_id = sessions[j].session_id
  BY DEF SameGroup
<1>2. GroupOf(sessions, sessions[i]) \subseteq {i}
  BY <1>1 DEF GroupOf, OwnIds
<1> QED BY <1>2, GroupOfOne

(* How often r is in the list q. *)
Times(q, r) == Cardinality({n \in DOMAIN q : q[n] = r})

(* Sorting the packets of one session only reorders them.                  *)
LEMMA OnlyReordered ==
  ASSUME Given, NEW i \in DOMAIN sessions
  PROVE  LET all == PacketsOf(sessions, {i}) IN
         /\ ToBag(all) = ToBag(sessions[i].packets)
         /\ \A r : Times(all, r) = Times(sessions[i].packets, r)
<1> DEFINE P == Places(sessions, {i})
           given == sessions[i].packets
           all == PacketsOf(sessions, {i})
<1>1. P = {i} \X DOMAIN given
  BY DEF Places
<1>2. /\ DOMAIN all = 1 .. Cardinality(P)
      /\ \A n \in DOMAIN all : /\ Nth(sessions, P, n) \in P
                              /\ all[n] = PacketAt(sessions, Nth(sessions, P, n))
  BY PacketsSorted
<1>3. /\ P \in SUBSET (Nat \X Nat) /\ IsFiniteSet(P) /\ Cardinality(P) \in Nat
      /\ \A x \in P : PacketAt(sessions, x).ts \in Nat
  BY PlacesAreCounted, FS_CardinalityType
<1>4. PICK at : at = [n \in DOMAIN all |-> Nth(sessions, P, n)[2]]
  OBVIOUS
<1>5. ASSUME NEW n \in DOMAIN all
      PROVE  /\ Nth(sessions, P, n) = <<i, at[n]>>
             /\ at[n] \in DOMAIN given
             /\ all[n] = given[at[n]]
  <2>1. PICK x \in P : x = Nth(sessions, P, n)
    BY <1>2
  <2>2. x = <<i, x[2]>> /\ x[2] \in DOMAIN given
    BY <1>1
  <2>3. at[n] = x[2]
    BY <1>4, <2>1
  <2>4. all[n] = sessions[x[1]].packets[x[2]]
    BY <1>2, <2>1 DEF PacketAt
  <2>5. x[1] = i
    BY <2>2
  <2> QED BY <2>1, <2>2, <2>3, <2>4, <2>5
<1> HIDE DEF P
<1>0. /\ \A x \in P : \E n \in 1 .. Cardinality(P) : x = Nth(sessions, P, n)
      /\ \A m, n \in 1 .. Cardinality(P) : m < n => Nth(sessions, P, m) # Nth(sessions, P, n)
  <2>1. \A x \in P : \E n \in 1 .. Cardinality(P) : x = Nth(sessions, P, n)
    BY <1>3, NthInOrder
  <2>2. ASSUME NEW m \in 1 .. Cardinality(P), NEW n \in 1 .. Cardinality(P), m < n
        PROVE  Nth(sessions, P, m) # Nth(sessions, P, n)
    <3>1. P \in SUBSET (Nat \X Nat) /\ IsFiniteSet(P) /\ \A x \in P : PacketAt(sessions, x).ts \in Nat
      BY <1>3
    <3> QED BY <2>2, <3>1, NthInOrder
  <2> QED BY <2>1, <2>2
<1> HIDE DEF all
<1>6. \A m \in DOMAIN given : \E n \in DOMAIN all : at[n] = m
  <2> TAKE m \in DOMAIN given
  <2>1. <<i, m>> \in P
    BY <1>1
  <2>2. PICK n \in DOMAIN all : <<i, m>> = Nth(sessions, P, n)
    BY <1>0, <1>2, <2>1
  <2> QED BY <1>5, <2>2
<1>7. \A m, n \in DOMAIN all : at[m] = at[n] => m = n
  <2>1. \A m, n \in DOMAIN all : m < n => Nth(sessions, P, m) # Nth(sessions, P, n)
    BY <1>0, <1>2
  <2>2. \A m, n \in DOMAIN all : at[m] = at[n] => ~(m < n) /\ ~(n < m)
    BY <1>5, <2>1
  <2>3. \A n \in DOMAIN all : n \in Nat
    BY <1>2, <1>3
  <2> QED BY <2>2, <2>3
<1>8. DOMAIN at = DOMAIN all
  BY <1>4
<1>9. IsFiniteSet(DOMAIN all)
  BY <1>2, <1>3, FS_Interval
<1> HIDE DEF given
<1>10. Range(all) = Range(given)
  BY <1>5, <1>6 DEF Range
<1>11. ASSUME NEW r
       PROVE  Cardinality({n \in DOMAIN all : all[n] = r}) =
                Cardinality({n \in DOMAIN given : given[n] = r})
  <2>1. PICK A, B : /\ A = {n \in DOMAIN all : all[n] = r}
                    /\ B = {n \in DOMAIN given : given[n] = r}
    OBVIOUS
  <2>2. PICK h : h = [n \in A |-> at[n]]
    OBVIOUS
  <2>3. \A n \in A : n \in DOMAIN all /\ h[n] = at[n] /\ h[n] \in B
    BY <1>5, <2>1, <2>2
  <2>4. \A m \in B : \E n \in A : h[n] = m
    BY <1>5, <1>6, <2>1, <2>2
  <2>5. h \in [A -> B]
    BY <2>2, <2>3
  <2>6. h \in Injection(A, B)
    BY <1>7, <2>2, <2>3, <2>5 DEF Injection, IsInjective
  <2>7. h \in Surjection(A, B)
    BY <2>4, <2>5 DEF Surjection
  <2>8. IsFiniteSet(A)
    BY <1>9, <2>1, FS_Subset
  <2>9. Cardinality(A) = Cardinality(B)
    BY <2>6, <2>7, <2>8, FS_Surjection
  <2> QED BY <2>1, <2>9
<1>12. ToBag(all) = ToBag(given)
  BY <1>10, <1>11 DEF ToBag
<1>13. \A r : Times(all, r) = Times(given, r)
  BY <1>11 DEF Times
<1> QED BY <1>12, <1>13 DEF all, given

LEMMA MinOfOne ==
  /\ \A x \in Nat : Min({x}) = x
  /\ \A x \in Nat : Max({x}) = x
<1>1. \A x \in Nat : Min({x}) \in {x}
  BY MinOf
<1>2. \A x \in Nat : Max({x}) \in {x}
  BY MaxOf, FS_Singleton
<1> QED BY <1>1, <1>2

LEMMA SumOfOne ==
  ASSUME NEW u, NEW x, DOMAIN u = {x}, u[x] \in Nat
  PROVE  SumFunction(u) = u[x]
<1>1. Sum(u, {} \cup {x}) = Sum(u, {}) + u[x]
  BY SumAdds, FS_EmptySet
<1>2. {} \cup {x} = {x} /\ Sum(u, {}) = 0
  BY SumOfNone
<1>3. Sum(u, {x}) = u[x]
  BY <1>1, <1>2
<1> QED BY <1>3, SumFunctionIsSum

(* A session that is the only one of its group is left as it was, but for  *)
(* the order of its packets.                                               *)
LEMMA MergedAlone ==
  ASSUME Given, NEW i \in DOMAIN sessions
  PROVE  LET s == sessions[i]
             t == Merged(sessions, {i}) IN
         /\ t.session_id = s.session_id /\ t.src = s.src /\ t.dst = s.dst
         /\ t.protocol = s.protocol /\ t.start_ts = s.start_ts /\ t.end_ts = s.end_ts
         /\ t.bytes_sent = s.bytes_sent /\ t.bytes_recv = s.bytes_recv
         /\ t.packet_count = s.packet_count /\ t.rst = s.rst /\ t.confidence = s.confidence
         /\ t = [s EXCEPT !.packets = t.packets]
<1> DEFINE s == sessions[i]
           t == Merged(sessions, {i})
<1>1. s \in Sessions /\ i \in Nat
  BY GivenSessions
<1>2. Min({i}) = i
  BY <1>1, MinOfOne
<1>3. t.session_id = s.session_id /\ t.src = s.src /\ t.dst = s.dst /\ t.protocol = s.protocol
  BY <1>2 DEF Merged
<1>4. t.start_ts = s.start_ts /\ t.end_ts = s.end_ts
  <2>1. t.start_ts = Min({sessions[j].start_ts : j \in {i}})
        /\ t.end_ts = Max({sessions[j].end_ts : j \in {i}})
    BY DEF Merged, Span
  <2>2. {sessions[j].start_ts : j \in {i}} = {s.start_ts} /\ {sessions[j].end_ts : j \in {i}} = {s.end_ts}
    OBVIOUS
  <2>3. s.start_ts \in Nat /\ s.end_ts \in Nat
    BY <1>1 DEF Sessions
  <2> QED BY <2>1, <2>2, <2>3, MinOfOne
<1>5. t.bytes_sent = s.bytes_sent /\ t.bytes_recv = s.bytes_recv /\ t.packet_count = s.packet_count
  <2>1. s.bytes_sent \in Nat /\ s.bytes_recv \in Nat /\ s.packet_count \in Nat
    BY <1>1 DEF Sessions
  <2>2. SumFunction([j \in {i} |-> sessions[j].bytes_sent]) = s.bytes_sent
    BY <2>1, SumOfOne
  <2>3. SumFunction([j \in {i} |-> sessions[j].bytes_recv]) = s.bytes_recv
    BY <2>1, SumOfOne
  <2>4. SumFunction([j \in {i} |-> sessions[j].packet_count]) = s.packet_count
    BY <2>1, SumOfOne
  <2> QED BY <2>2, <2>3, <2>4, MergedFields
<1>6. t.rst = s.rst /\ t.confidence = s.confidence
  <2>1. t.rst = (\E j \in {i} : sessions[j].rst)
        /\ t.confidence = IF \E j \in {i} : sessions[j].confidence = "low" THEN "low" ELSE "normal"
    BY DEF Merged
  <2>2. s.rst \in BOOLEAN /\ s.confidence \in {"low", "normal"}
    BY <1>1 DEF Sessions
  <2> QED BY <2>1, <2>2
<1>7. t = [s EXCEPT !.packets = t.packets]
  <2>1. PICK x : x = t
    OBVIOUS
  <2>2. x = [ session_id |-> x.session_id, src |-> x.src, dst |-> x.dst, protocol |-> x.protocol,
              start_ts |-> x.start_ts, end_ts |-> x.end_ts, bytes_sent |-> x.bytes_sent,
              bytes_recv |-> x.bytes_recv, packet_count |-> x.packet_count, rst |-> x.rst,
              confidence |-> x.confidence, packets |-> x.packets ]
    BY <2>1 DEF Merged
  <2>3. PICK y : y = s /\ y \in Sessions
    BY <1>1
  <2>4. /\ x.session_id = y.session_id /\ x.src = y.src /\ x.dst = y.dst /\ x.protocol = y.protocol
        /\ x.start_ts = y.start_ts /\ x.end_ts = y.end_ts /\ x.bytes_sent = y.bytes_sent
        /\ x.bytes_recv = y.bytes_recv /\ x.packet_count = y.packet_count /\ x.rst = y.rst
        /\ x.confidence = y.confidence
    BY <1>3, <1>4, <1>5, <1>6, <2>1, <2>3
  <2>5. x = [y EXCEPT !.packets = x.packets]
    BY <2>2, <2>3, <2>4 DEF Sessions
  <2> QED BY <2>1, <2>3, <2>5
<1> QED BY <1>3, <1>4, <1>5, <1>6, <1>7

(* ... and so is the whole list if no two sessions belong together.        *)
LEMMA AllAlone ==
  ASSUME Given,
         \A i, j \in DOMAIN sessions : SameGroup(sessions[i], sessions[j]) => i = j
  PROVE  Left = {Merged(sessions, {i}) : i \in DOMAIN sessions}
<1>1. ASSUME NEW i \in DOMAIN sessions
      PROVE  GroupOf(sessions, sessions[i]) = {i}
  <2>1. GroupOf(sessions, sessions[i]) \subseteq {i}
    BY DEF GroupOf
  <2> QED BY <2>1, GroupOfOne
<1> QED BY <1>1 DEF Left, Normalize

LEMMA SortedAlone ==
  ASSUME Given, NEW i \in DOMAIN sessions, NEW t, t = Merged(sessions, {i})
  PROVE  /\ \A m, n \in DOMAIN t.packets : m < n => t.packets[m].ts <= t.packets[n].ts
         /\ \A r : Times(t.packets, r) = Times(sessions[i].packets, r)
<1>1. t.packets = PacketsOf(sessions, {i})
  BY MergedFields
<1>2. {i} \in SUBSET DOMAIN sessions
  OBVIOUS
<1>3. \A m, n \in DOMAIN t.packets : m < n => t.packets[m].ts <= t.packets[n].ts
  BY <1>1, <1>2, PacketsSorted
<1>4. \A r : Times(t.packets, r) = Times(sessions[i].packets, r)
  BY <1>1, OnlyReordered
<1> QED BY <1>3, <1>4

LEMMA OnePerTuple ==
  ASSUME Given, OwnIds
  PROVE  OneSessionPerTuple
<1>1. ASSUME NEW i \in DOMAIN sessions, HasNoPorts(sessions[i])
      PROVE  \E t \in Left : /\ t = [sessions[i] EXCEPT !.packets = t.packets]
                            /\ ToBag(t.packets) = ToBag(sessions[i].packets)
  <2>1. PICK t : t = Merged(sessions, {i})
    OBVIOUS
  <2>2. t \in Left
    BY <1>1, <2>1, NoPortsAlone DEF Left, Normalize
  <2>3. t = [sessions[i] EXCEPT !.packets = t.packets]
    BY <2>1, MergedAlone
  <2>4. ToBag(t.packets) = ToBag(sessions[i].packets)
    <3>1. t.packets = PacketsOf(sessions, {i})
      BY <2>1, MergedFields
    <3> QED BY <3>1, OnlyReordered
  <2> QED BY <2>2, <2>3, <2>4
<1> QED BY <1>1, LeftKeepsTuples, TuplesApart DEF OneSessionPerTuple
-----------------------------------------------------------------------------
(* The spans, and the theorems. *)

LEMMA SpanOfGroup ==
  ASSUME Given, NEW G \in SUBSET DOMAIN sessions, G # {}
  PROVE  LET span == Span(sessions, G) IN
         /\ \A i \in G : span.from <= sessions[i].start_ts /\ sessions[i].end_ts <= span.to
         /\ \E i \in G : sessions[i].start_ts = span.from
         /\ \E i \in G : sessions[i].end_ts = span.to
<1>1. PICK A, B : A = {sessions[i].start_ts : i \in G} /\ B = {sessions[i].end_ts : i \in G}
  OBVIOUS
<1>2. A \in SUBSET Nat /\ B \in SUBSET Nat /\ A # {} /\ B # {}
  <2>1. \A i \in G : sessions[i].start_ts \in Nat /\ sessions[i].end_ts \in Nat
    BY GivenSessions DEF Sessions
  <2> QED BY <1>1, <2>1
<1>3. IsFiniteSet(B)
  <2>1. PICK end : end = [i \in G |-> sessions[i].end_ts]
    OBVIOUS
  <2>2. end \in Surjection(G, B)
    BY <1>1, <2>1 DEF Surjection
  <2>3. IsFiniteSet(G)
    BY GivenSessions, FS_Subset
  <2> QED BY <2>2, <2>3, FS_Surjection
<1>4. Min(A) \in A /\ \A x \in A : Min(A) <= x
  BY <1>2, MinOf
<1>5. Max(B) \in B /\ \A x \in B : x <= Max(B)
  BY <1>2, <1>3, MaxOf
<1>6. Span(sessions, G).from = Min(A) /\ Span(sessions, G).to = Max(B)
  BY <1>1 DEF Span
<1>7. \A i \in G : sessions[i].start_ts \in A /\ sessions[i].end_ts \in B
  BY <1>1
<1>8. \A i \in G : Min(A) <= sessions[i].start_ts /\ sessions[i].end_ts <= Max(B)
  BY <1>4, <1>5, <1>7
<1>9. (\E i \in G : sessions[i].start_ts = Min(A)) /\ (\E i \in G : sessions[i].end_ts = Max(B))
  BY <1>1, <1>4, <1>5
<1> QED BY <1>6, <1>8, <1>9

LEMMA SpansCover ==
  ASSUME Given
  PROVE  SpansCoverTheirParts
<1> SUFFICES ASSUME NEW t \in Left
             PROVE  LET parts == GroupOf(sessions, t) IN
                    /\ \A i \in parts : t.start_ts <= sessions[i].start_ts /\ sessions[i].end_ts <= t.end_ts
                    /\ \E i \in parts : sessions[i].start_ts = t.start_ts
                    /\ \E i \in parts : sessions[i].end_ts = t.end_ts
                    /\ t.rst = \E i \in parts : sessions[i].rst
                    /\ t.confidence = "low" <=> \E i \in parts : sessions[i].confidence = "low"
                    /\ \A m, n \in DOMAIN t.packets : m < n => t.packets[m].ts <= t.packets[n].ts
  BY DEF SpansCoverTheirParts, GroupOf
<1>1. PICK G \in SUBSET DOMAIN sessions : G = GroupOf(sessions, t) /\ t = Merged(sessions, G)
  BY LeftFromGroup
<1>2. G # {}
  BY <1>1, LeftIsMerged, GroupOfOne
<1>3. t.start_ts = Span(sessions, G).from /\ t.end_ts = Span(sessions, G).to
  BY <1>1, MergedSpan
<1>4. /\ t.rst = (\E i \in G : sessions[i].rst)
      /\ t.confidence = IF \E i \in G : sessions[i].confidence = "low" THEN "low" ELSE "normal"
  <2>1. t = Merged(sessions, G)
    BY <1>1
  <2> QED BY <2>1, MergedFlags, Zenon
<1>5. t.packets = PacketsOf(sessions, G)
  BY <1>1, MergedFields
<1>6. \A m, n \in DOMAIN t.packets : m < n => t.packets[m].ts <= t.packets[n].ts
  BY <1>5, PacketsSorted
<1>7. /\ \A i \in G : t.start_ts <= sessions[i].start_ts /\ sessions[i].end_ts <= t.end_ts
      /\ \E i \in G : sessions[i].start_ts = t.start_ts
      /\ \E i \in G : sessions[i].end_ts = t.end_ts
  BY <1>2, <1>3, SpanOfGroup
<1> QED BY <1>1, <1>4, <1>6, <1>7

(* The list grows by sessions with the next number as their id.            *)
ListInv ==
  /\ sessions \in Seq(Sessions)
  /\ \A i \in DOMAIN sessions : sessions[i].session_id = i

LEMMA ListStarts == Init => ListInv
BY DEF Init, ListInv

LEMMA ListGrows ==
  ASSUME ListInv, [Next]_sessions
  PROVE  ListInv'
<1>1. CASE UNCHANGED sessions
  BY <1>1 DEF ListInv
<1>2. CASE Next
  <2>1. PICK s \in Parsed : Parse(s)
    BY <1>2 DEF Next
  <2>2. PICK n \in Nat : n = Len(sessions) /\ DOMAIN sessions = 1 .. n
    BY DEF ListInv
  <2>3. PICK new : new = [s EXCEPT !.session_id = n + 1]
    OBVIOUS
  <2>4. s \in Sessions
    BY ParsedAssumption
  <2>5. new \in Sessions /\ new.session_id = n + 1
    BY <2>3, <2>4 DEF Sessions
  <2>6. sessions' = Append(sessions, new)
    BY <2>1, <2>2, <2>3 DEF Parse
  <2>7. /\ sessions' \in Seq(Sessions)
        /\ DOMAIN sessions' = 1 .. n + 1
        /\ \A i \in 1 .. n : sessions'[i] = sessions[i]
        /\ sessions'[n + 1] = new
    BY <2>2, <2>5, <2>6, AppendProperties DEF ListInv
  <2>8. \A i \in DOMAIN sessions' : sessions'[i].session_id = i
    <3>1. \A i \in 1 .. n : sessions'[i].session_id = i
      BY <2>2, <2>7 DEF ListInv
    <3>2. \A i \in 1 .. n + 1 : i \in 1 .. n \/ i = n + 1
      BY <2>2
    <3> QED BY <2>5, <2>7, <3>1, <3>2
  <2> QED BY <2>7, <2>8 DEF ListInv
<1> QED BY <1>1, <1>2

LEMMA ListAlways == Spec => []ListInv
BY ListStarts, ListGrows, PTL DEF Spec

(* Whatever a parser hands over, merging loses and doubles nothing: bytes, *)
(* packets counted and packets kept (normalizer.py, the sums and the       *)
(* remapping of packet_map).                                               *)
THEOREM NothingIsLost == Spec => []TotalsConserved
<1>1. ListInv => TotalsConserved
  BY BytesSentKept, BytesReceivedKept, CountsKept, LengthsKept, PacketsKept
     DEF ListInv, Given, TotalsConserved
<1> QED BY <1>1, ListAlways, PTL

(* One session is left per 5-tuple, and one without ports is left as it    *)
(* was, but for the order of its packets (normalizer.py, key).             *)
THEOREM OneSessionIsLeft == Spec => []OneSessionPerTuple
<1>1. ListInv => OneSessionPerTuple
  BY OnePerTuple DEF ListInv, Given, OwnIds
<1> QED BY <1>1, ListAlways, PTL

(* Every session left spans what went into it and has its packets in order *)
(* of time (normalizer.py, start_ts, end_ts, merged.sort).                 *)
THEOREM SpansAreCovered == Spec => []SpansCoverTheirParts
<1>1. ListInv => SpansCoverTheirParts
  BY SpansCover DEF ListInv, Given
<1> QED BY <1>1, ListAlways, PTL
=============================================================================
