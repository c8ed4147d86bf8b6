----------------------------- MODULE SumTheorems -----------------------------
(***************************************************************************)
(* What SumFunctionOnSet computes: the sums over the lines of an order,    *)
(* the reservations of a variant or the orders of a customer.              *)
(*                                                                         *)
(* The community module folds over a finite set by CHOOSE.  That the fold  *)
(* is well defined, and does not depend on the choices, is shown here by   *)
(* taking a smallest counterexample.                                       *)
(***************************************************************************)
EXTENDS Integers, Functions, FiniteSetTheorems, WellFoundedInduction, TLAPS

-----------------------------------------------------------------------------
(* Induction over the subsets of a finite set.                             *)

\* A family of subsets of a finite set has a smallest member.
LEMMA SmallestSubset ==
  ASSUME NEW S, IsFiniteSet(S), NEW F, F \subseteq SUBSET S, F # {}
  PROVE  \E T \in F : \A U \in F : U \subseteq T => U = T
<1>1. IsWellFoundedOn(StrictSubsetOrdering(S), SUBSET S)
  BY FS_StrictSubsetOrderingWellFounded, FS_FiniteSubsetsOfFinite
<1>2. \E T \in F : \A U \in F : ~(<<U, T>> \in StrictSubsetOrdering(S))
  BY <1>1, WFMin
<1> QED
  BY <1>2 DEF StrictSubsetOrdering

-----------------------------------------------------------------------------
(* The fold.                                                               *)

Chosen(s) == CHOOSE x \in s : TRUE

\* g adds f up over the subsets of T.
AddsUp(g, f, T) ==
  g = [s \in SUBSET T |-> IF s = {} THEN 0 ELSE f[Chosen(s)] + g[s \ {Chosen(s)}]]

Adder(f, T) == CHOOSE g : AddsUp(g, f, T)

LEMMA SumIsAdder ==
  ASSUME NEW f, NEW S
  PROVE  SumFunctionOnSet(f, S) = Adder(f, S)[S]
BY DEF SumFunctionOnSet, FoldFunctionOnSet, MapThenFoldSet, Adder, AddsUp, Chosen

LEMMA ChosenIn ==
  ASSUME NEW s, s # {}
  PROVE  Chosen(s) \in s
BY DEF Chosen

LEMMA AddersAgree ==
  ASSUME NEW f, NEW A, NEW B, NEW g, NEW h, IsFiniteSet(A),
         AddsUp(g, f, A), AddsUp(h, f, B), NEW T, T \subseteq A, T \subseteq B
  PROVE  g[T] = h[T]
<1> DEFINE F == {s \in SUBSET A : s \subseteq B /\ g[s] # h[s]}
<1> SUFFICES ASSUME F # {} PROVE FALSE
  OBVIOUS
<1>1. PICK s \in F : \A u \in F : u \subseteq s => u = s
  <2>1. F \subseteq SUBSET A
    OBVIOUS
  <2> HIDE DEF F
  <2> QED
    BY <2>1, SmallestSubset
<1>2. g[s] = IF s = {} THEN 0 ELSE f[Chosen(s)] + g[s \ {Chosen(s)}]
  BY <1>1 DEF AddsUp
<1>3. h[s] = IF s = {} THEN 0 ELSE f[Chosen(s)] + h[s \ {Chosen(s)}]
  BY <1>1 DEF AddsUp
<1>4. s # {}
  BY <1>1, <1>2, <1>3
<1>5. s \ {Chosen(s)} \notin F
  BY <1>1, <1>4, ChosenIn
<1>6. g[s \ {Chosen(s)}] = h[s \ {Chosen(s)}]
  BY <1>5, <1>1
<1> QED
  BY <1>1, <1>2, <1>3, <1>4, <1>6

LEMMA AddersExist ==
  ASSUME NEW f, NEW S, IsFiniteSet(S)
  PROVE  AddsUp(Adder(f, S), f, S)
<1> DEFINE F == {t \in SUBSET S : ~AddsUp(Adder(f, t), f, t)}
<1> SUFFICES ASSUME F # {} PROVE FALSE
  OBVIOUS
<1>1. PICK t \in F : \A u \in F : u \subseteq t => u = t
  <2>1. F \subseteq SUBSET S
    OBVIOUS
  <2> HIDE DEF F
  <2> QED
    BY <2>1, SmallestSubset
<1>2. \A u \in SUBSET t : u # t => AddsUp(Adder(f, u), f, u)
  BY <1>1
<1>3. \A u \in SUBSET S : IsFiniteSet(u)
  BY FS_Subset
<1> DEFINE g == [s \in SUBSET t |-> IF s = {} THEN 0
                   ELSE f[Chosen(s)] + Adder(f, s \ {Chosen(s)})[s \ {Chosen(s)}]]
<1>4. ASSUME NEW s \in SUBSET t, s # {}
      PROVE  g[s \ {Chosen(s)}] = Adder(f, s \ {Chosen(s)})[s \ {Chosen(s)}]
  <2> DEFINE u == s \ {Chosen(s)}
  <2>1. u \in SUBSET t /\ u # t
    BY <1>4, ChosenIn
  <2>2. AddsUp(Adder(f, u), f, u)
    BY <1>2, <2>1
  <2>3. Adder(f, u)[u] = IF u = {} THEN 0 ELSE f[Chosen(u)] + Adder(f, u)[u \ {Chosen(u)}]
    BY <2>2 DEF AddsUp
  <2>4. CASE u = {}
    BY <2>1, <2>3, <2>4
  <2>5. CASE u # {}
    <3> DEFINE w == u \ {Chosen(u)}
    <3>1. w \in SUBSET t /\ w # t /\ w \subseteq u
      BY <2>1, ChosenIn, <2>5
    <3>2. AddsUp(Adder(f, w), f, w)
      BY <1>2, <3>1
    <3>3. IsFiniteSet(u)
      BY <1>3, <2>1, <1>1
    <3> HIDE DEF w, u
    <3>4. Adder(f, u)[w] = Adder(f, w)[w]
      BY <2>2, <3>1, <3>2, <3>3, AddersAgree
    <3> USE DEF w
    <3>5. g[u] = f[Chosen(u)] + Adder(f, w)[w]
      BY <2>1, <2>5
    <3>6. Adder(f, u)[u] = g[u]
      BY <2>3, <2>5, <3>4, <3>5
    <3> QED
      BY <3>6 DEF u
  <2> QED
    BY <2>4, <2>5
<1>5. AddsUp(g, f, t)
  BY <1>4 DEF AddsUp
<1>6. AddsUp(Adder(f, t), f, t)
  <2> HIDE DEF g
  <2> QED
    BY <1>5 DEF Adder
<1> QED
  BY <1>1, <1>6

-----------------------------------------------------------------------------
(* Sums.                                                                   *)

LEMMA SumEmpty ==
  ASSUME NEW f
  PROVE  SumFunctionOnSet(f, {}) = 0
<1>1. AddsUp(Adder(f, {}), f, {})
  BY AddersExist, FS_EmptySet
<1> QED
  BY <1>1, SumIsAdder DEF AddsUp

LEMMA SumRecursion ==
  ASSUME NEW f, NEW S, IsFiniteSet(S), S # {}
  PROVE  SumFunctionOnSet(f, S) = f[Chosen(S)] + SumFunctionOnSet(f, S \ {Chosen(S)})
<1> DEFINE T == S \ {Chosen(S)}
<1>1. IsFiniteSet(T) /\ T \subseteq S
  BY FS_Subset
<1>2. AddsUp(Adder(f, S), f, S) /\ AddsUp(Adder(f, T), f, T)
  BY <1>1, AddersExist
<1>3. Adder(f, S)[S] = f[Chosen(S)] + Adder(f, S)[T]
  BY <1>2 DEF AddsUp
<1>4. Adder(f, S)[T] = Adder(f, T)[T]
  <2> HIDE DEF T
  <2> QED
    BY <1>1, <1>2, AddersAgree
<1> QED
  BY <1>3, <1>4, SumIsAdder

LEMMA SumSame ==
  ASSUME NEW f, NEW g, NEW S, IsFiniteSet(S), \A x \in S : f[x] = g[x]
  PROVE  SumFunctionOnSet(f, S) = SumFunctionOnSet(g, S)
<1> DEFINE F == {t \in SUBSET S : SumFunctionOnSet(f, t) # SumFunctionOnSet(g, t)}
<1> SUFFICES ASSUME F # {} PROVE FALSE
  OBVIOUS
<1>1. PICK t \in F : \A u \in F : u \subseteq t => u = t
  <2>1. F \subseteq SUBSET S
    OBVIOUS
  <2> HIDE DEF F
  <2> QED
    BY <2>1, SmallestSubset
<1>2. IsFiniteSet(t) /\ t # {}
  BY <1>1, FS_Subset, SumEmpty
<1>3. Chosen(t) \in t /\ f[Chosen(t)] = g[Chosen(t)]
  BY <1>1, <1>2, ChosenIn
<1>4. t \ {Chosen(t)} \notin F
  BY <1>1, <1>3
<1>5. SumFunctionOnSet(f, t \ {Chosen(t)}) = SumFunctionOnSet(g, t \ {Chosen(t)})
  BY <1>1, <1>4
<1> QED
  BY <1>1, <1>2, <1>3, <1>5, SumRecursion

LEMMA SumInt ==
  ASSUME NEW f, NEW S, IsFiniteSet(S), \A x \in S : f[x] \in Int
  PROVE  SumFunctionOnSet(f, S) \in Int
<1> DEFINE F == {t \in SUBSET S : SumFunctionOnSet(f, t) \notin Int}
<1> SUFFICES ASSUME F # {} PROVE FALSE
  OBVIOUS
<1>1. PICK t \in F : \A u \in F : u \subseteq t => u = t
  <2>1. F \subseteq SUBSET S
    OBVIOUS
  <2> HIDE DEF F
  <2> QED
    BY <2>1, SmallestSubset
<1>2. IsFiniteSet(t) /\ t # {}
  <2>1. IsFiniteSet(t)
    BY <1>1, FS_Subset
  <2>2. SumFunctionOnSet(f, {}) \in Int
    BY SumEmpty
  <2>3. SumFunctionOnSet(f, t) \notin Int
    BY <1>1
  <2> QED
    BY <2>1, <2>2, <2>3, Zenon
<1>3. Chosen(t) \in t /\ f[Chosen(t)] \in Int
  BY <1>1, <1>2, ChosenIn
<1>4. t \ {Chosen(t)} \notin F
  BY <1>1, <1>3
<1>5. SumFunctionOnSet(f, t \ {Chosen(t)}) \in Int
  BY <1>1, <1>4
<1> QED
  BY <1>1, <1>2, <1>3, <1>5, SumRecursion

\* The order of the summands does not matter.
LEMMA SumRemove ==
  ASSUME NEW f, NEW S, IsFiniteSet(S), \A x \in S : f[x] \in Int, NEW x \in S
  PROVE  SumFunctionOnSet(f, S) = f[x] + SumFunctionOnSet(f, S \ {x})
<1> DEFINE Sum(t) == SumFunctionOnSet(f, t)
           F == {t \in SUBSET S : \E y \in t : Sum(t) # f[y] + Sum(t \ {y})}
<1> SUFFICES ASSUME F # {} PROVE FALSE
  OBVIOUS
<1>0. \A t \in SUBSET S : IsFiniteSet(t) /\ Sum(t) \in Int
  BY FS_Subset, SumInt
<1>1. PICK t \in F : \A u \in F : u \subseteq t => u = t
  <2>1. F \subseteq SUBSET S
    OBVIOUS
  <2> HIDE DEF F
  <2> QED
    BY <2>1, SmallestSubset
<1>2. PICK y \in t : Sum(t) # f[y] + Sum(t \ {y})
  BY <1>1
<1> DEFINE c == Chosen(t)
<1>3. c \in t
  BY <1>2, ChosenIn
<1>4. Sum(t) = f[c] + Sum(t \ {c})
  BY <1>0, <1>1, <1>2, SumRecursion
<1>5. c # y
  BY <1>2, <1>4
<1>6. t \ {c} \notin F /\ t \ {y} \notin F /\ t \ {c} \in SUBSET S /\ t \ {y} \in SUBSET S
  BY <1>1, <1>2, <1>3
<1> HIDE DEF c, Sum
<1>7. Sum(t \ {c}) = f[y] + Sum((t \ {c}) \ {y}) /\ Sum(t \ {y}) = f[c] + Sum((t \ {y}) \ {c})
  BY <1>6, <1>5, <1>2, <1>3
<1>8. (t \ {c}) \ {y} = (t \ {y}) \ {c} /\ (t \ {y}) \ {c} \in SUBSET S
  BY <1>6
<1>9. f[c] \in Int /\ f[y] \in Int /\ Sum((t \ {y}) \ {c}) \in Int
  BY <1>0, <1>1, <1>2, <1>3, <1>8
<1>10. Sum((t \ {c}) \ {y}) = Sum((t \ {y}) \ {c})
  BY <1>8, Zenon
<1> QED
  BY <1>2, <1>4, <1>7, <1>9, <1>10

LEMMA SumAdd ==
  ASSUME NEW f, NEW S, IsFiniteSet(S), NEW x, x \notin S,
         \A y \in S \cup {x} : f[y] \in Int
  PROVE  SumFunctionOnSet(f, S \cup {x}) = f[x] + SumFunctionOnSet(f, S)
<1>1. IsFiniteSet(S \cup {x}) /\ (S \cup {x}) \ {x} = S
  BY FS_AddElement
<1> QED
  BY <1>1, SumRemove

\* Two disjoint sets.
LEMMA SumUnion ==
  ASSUME NEW f, NEW S, IsFiniteSet(S), NEW T, IsFiniteSet(T), S \cap T = {},
         \A y \in S \cup T : f[y] \in Int
  PROVE  SumFunctionOnSet(f, S \cup T) = SumFunctionOnSet(f, S) + SumFunctionOnSet(f, T)
<1> DEFINE Sum(t) == SumFunctionOnSet(f, t)
           F == {t \in SUBSET T : Sum(S \cup t) # Sum(S) + Sum(t)}
<1> SUFFICES ASSUME F # {} PROVE FALSE
  OBVIOUS
<1>0. \A t \in SUBSET T : IsFiniteSet(t) /\ IsFiniteSet(S \cup t)
  BY FS_Subset, FS_Union
<1>a. \A t \in SUBSET T : Sum(t) \in Int /\ Sum(S \cup t) \in Int
  BY <1>0, SumInt
<1>b. Sum(S) \in Int
  BY SumInt
<1>1. PICK t \in F : \A u \in F : u \subseteq t => u = t
  <2>1. F \subseteq SUBSET T
    OBVIOUS
  <2> HIDE DEF F
  <2> QED
    BY <2>1, SmallestSubset
<1>2. t # {}
  <2>1. S \cup {} = S /\ Sum({}) = 0
    BY SumEmpty
  <2>2. Sum(S \cup {}) = Sum(S)
    BY <2>1, Zenon
  <2>3. Sum(S \cup {}) = Sum(S) + Sum({})
    BY <2>1, <2>2, <1>b
  <2>4. Sum(S \cup t) # Sum(S) + Sum(t)
    BY <1>1
  <2> QED
    BY <2>3, <2>4, Zenon
<1>3. PICK y : y \in t
  BY <1>2
<1>4. t \ {y} \in SUBSET T /\ t \ {y} \notin F /\ t \in SUBSET T
  BY <1>1, <1>3
<1>5. Sum(S \cup (t \ {y})) = Sum(S) + Sum(t \ {y})
  BY <1>4
<1>6. Sum(t) = f[y] + Sum(t \ {y})
  BY <1>0, <1>3, <1>4, SumRemove
<1>7. Sum(S \cup t) = f[y] + Sum(S \cup (t \ {y}))
  <2>1. (S \cup t) \ {y} = S \cup (t \ {y}) /\ y \in S \cup t /\ \A z \in S \cup t : f[z] \in Int
    BY <1>3, <1>4
  <2> QED
    BY <2>1, <1>0, <1>4, SumRemove
<1>8. Sum(t \ {y}) \in Int /\ f[y] \in Int
  BY <1>a, <1>3, <1>4
<1> HIDE DEF Sum
<1>9. Sum(S \cup t) = Sum(S) + Sum(t)
  BY <1>5, <1>6, <1>7, <1>8, <1>b
<1> QED
  BY <1>9, <1>1

LEMMA SumNat ==
  ASSUME NEW f, NEW S, IsFiniteSet(S), \A x \in S : f[x] \in Nat
  PROVE  SumFunctionOnSet(f, S) \in Nat
<1> DEFINE F == {t \in SUBSET S : SumFunctionOnSet(f, t) \notin Nat}
<1> SUFFICES ASSUME F # {} PROVE FALSE
  OBVIOUS
<1>1. PICK t \in F : \A u \in F : u \subseteq t => u = t
  <2>1. F \subseteq SUBSET S
    OBVIOUS
  <2> HIDE DEF F
  <2> QED
    BY <2>1, SmallestSubset
<1>2. IsFiniteSet(t) /\ t # {}
  <2>1. IsFiniteSet(t)
    BY <1>1, FS_Subset
  <2>2. SumFunctionOnSet(f, {}) \in Nat
    BY SumEmpty
  <2>3. SumFunctionOnSet(f, t) \notin Nat
    BY <1>1
  <2> QED
    BY <2>1, <2>2, <2>3, Zenon
<1>3. Chosen(t) \in t /\ f[Chosen(t)] \in Nat
  BY <1>1, <1>2, ChosenIn
<1>4. t \ {Chosen(t)} \notin F
  BY <1>1, <1>3
<1>5. SumFunctionOnSet(f, t \ {Chosen(t)}) \in Nat
  BY <1>1, <1>4
<1> QED
  BY <1>1, <1>2, <1>3, <1>5, SumRecursion

\* A part of natural summands is at most the whole.
LEMMA SumPart ==
  ASSUME NEW f, NEW S, IsFiniteSet(S), \A x \in S : f[x] \in Nat, NEW T, T \subseteq S
  PROVE  SumFunctionOnSet(f, T) <= SumFunctionOnSet(f, S)
<1>1. IsFiniteSet(T) /\ IsFiniteSet(S \ T) /\ T \cup (S \ T) = S /\ T \cap (S \ T) = {}
  BY FS_Subset
<1>2. SumFunctionOnSet(f, T) \in Nat /\ SumFunctionOnSet(f, S \ T) \in Nat
  BY <1>1, SumNat
<1>3. \A x \in T \cup (S \ T) : f[x] \in Int
  OBVIOUS
<1>4. SumFunctionOnSet(f, T \cup (S \ T)) = SumFunctionOnSet(f, T) + SumFunctionOnSet(f, S \ T)
  BY <1>1, <1>3, SumUnion
<1>5. SumFunctionOnSet(f, T \cup (S \ T)) = SumFunctionOnSet(f, S)
  BY <1>1, Zenon
<1> QED
  BY <1>2, <1>4, <1>5

\* A sum over the image of a set under an injection.
LEMMA SumImage ==
  ASSUME NEW f, NEW g, NEW h, NEW S, IsFiniteSet(S),
         \A x, y \in S : h[x] = h[y] => x = y,
         \A x \in S : f[x] \in Int /\ g[h[x]] = f[x]
  PROVE  SumFunctionOnSet(g, {h[x] : x \in S}) = SumFunctionOnSet(f, S)
<1> DEFINE Im(t) == {h[x] : x \in t}
           F == {t \in SUBSET S : SumFunctionOnSet(g, Im(t)) # SumFunctionOnSet(f, t)}
<1> SUFFICES ASSUME F # {} PROVE FALSE
  OBVIOUS
<1>0. \A t \in SUBSET S : IsFiniteSet(t) /\ IsFiniteSet(Im(t))
  <2> SUFFICES ASSUME NEW t \in SUBSET S PROVE IsFiniteSet(t) /\ IsFiniteSet(Im(t))
    OBVIOUS
  <2>1. IsFiniteSet(t)
    BY FS_Subset
  <2>2. [x \in t |-> h[x]] \in Surjection(t, Im(t))
    BY DEF Surjection
  <2> QED
    BY <2>1, <2>2, FS_Surjection
<1>1. PICK t \in F : \A u \in F : u \subseteq t => u = t
  <2>1. F \subseteq SUBSET S
    OBVIOUS
  <2> HIDE DEF F
  <2> QED
    BY <2>1, SmallestSubset
<1>2. t # {}
  <2>1. Im({}) = {}
    OBVIOUS
  <2>2. SumFunctionOnSet(g, Im({})) = SumFunctionOnSet(f, {})
    BY <2>1, SumEmpty, Zenon
  <2>3. SumFunctionOnSet(g, Im(t)) # SumFunctionOnSet(f, t)
    BY <1>1
  <2> QED
    BY <2>2, <2>3, Zenon
<1>3. PICK y : y \in t
  BY <1>2
<1>4. t \ {y} \in SUBSET S /\ t \ {y} \notin F /\ t \in SUBSET S
  BY <1>1, <1>3
<1>5. Im(t \ {y}) = Im(t) \ {h[y]} /\ h[y] \in Im(t)
  BY <1>3, <1>4
<1>6. \A z \in Im(t) : g[z] \in Int
  BY <1>4
<1>7. SumFunctionOnSet(g, Im(t)) = g[h[y]] + SumFunctionOnSet(g, Im(t) \ {h[y]})
  <2>1. IsFiniteSet(Im(t))
    BY <1>0, <1>4
  <2> HIDE DEF Im
  <2> QED
    BY <2>1, <1>5, <1>6, SumRemove
<1>8. SumFunctionOnSet(f, t) = f[y] + SumFunctionOnSet(f, t \ {y})
  BY <1>0, <1>3, <1>4, SumRemove
<1>9. SumFunctionOnSet(g, Im(t \ {y})) = SumFunctionOnSet(f, t \ {y})
  BY <1>4
<1>10. SumFunctionOnSet(g, Im(t) \ {h[y]}) = SumFunctionOnSet(g, Im(t \ {y}))
  BY <1>5, Zenon
<1>11. g[h[y]] = f[y]
  BY <1>3, <1>4
<1>12. SumFunctionOnSet(g, Im(t)) = SumFunctionOnSet(f, t)
  <2> HIDE DEF Im
  <2> QED
    BY <1>7, <1>8, <1>9, <1>10, <1>11
<1> QED
  BY <1>1, <1>12
=============================================================================
