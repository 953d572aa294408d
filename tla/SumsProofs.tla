----------------------------- MODULE SumsProofs -----------------------------
(***************************************************************************)
(* What the proofs about Ledger, Purchasing and Inventory need to know of  *)
(* a sum over a finite set: it is a number, the empty sum is 0, and any    *)
(* element may be the one that is taken out, added or changed.             *)
(*                                                                         *)
(* The induction is over a set of sets: the sets a statement fails for     *)
(* have a smallest one (WFMin), and there is none.                         *)
(***************************************************************************)
EXTENDS Sums, FiniteSetTheorems, WellFoundedInduction, TLAPS

(***************************************************************************)
(* The sum as a function of the subsets of S, the way the fold computes it *)
(***************************************************************************)
(* The element the fold takes out of s first *)
Pick(s) == CHOOSE x \in s : TRUE
(* g is the function the fold over S builds *)
Adds(g, f, S) ==
  g = [s \in SUBSET S |-> IF s = {} THEN 0 ELSE f[Pick(s)] + g[s \ {Pick(s)}]]
SumFcn(f, S) == CHOOSE g : Adds(g, f, S)

(* A sum is the value of that function at the whole set. *)
LEMMA SumIs == ASSUME NEW f, NEW S PROVE SumOver(f, S) = SumFcn(f, S)[S]
BY DEF SumOver, MapThenSumSet, MapThenFoldSet, SumFcn, Adds, Pick

(* Induction over the naturals, for a set of numbers *)
LEMMA NatBySmallest ==
  ASSUME NEW A, 0 \in A, \A n \in Nat : n \in A => n + 1 \in A
  PROVE  Nat \subseteq A
<1> DEFINE T == Nat \ A
<1>1. SUFFICES ASSUME T # {} PROVE FALSE
  OBVIOUS
<1>2. PICK x \in T : \A y \in T : ~ (<<y, x>> \in OpToRel(<, Nat))
  BY <1>1, NatLessThanWellFounded, WFMin
<1>3. \A y \in Nat : y < x => <<y,x>> \in OpToRel(<, Nat)
  BY DEF OpToRel
<1>4. x # 0
  OBVIOUS
<1>5. x - 1 \in Nat /\ x - 1 < x
  BY <1>4
<1>6. x - 1 \in A
  BY <1>2, <1>3, <1>5
<1>7. QED
  BY <1>5, <1>6

(* Induction over the subsets of a finite set: a set of subsets that has every
   subset whose smaller ones it has, has them all. *)
LEMMA FiniteBySmallest ==
  ASSUME NEW S, IsFiniteSet(S), NEW A,
         \A T \in SUBSET S : (\A x \in T : T \ {x} \in A) => T \in A
  PROVE  SUBSET S \subseteq A
<1> DEFINE B == (SUBSET S) \ A
<1>1. SUFFICES ASSUME B # {} PROVE FALSE
  OBVIOUS
<1>2. FiniteSubsetsOf(S) = SUBSET S /\ IsWellFoundedOn(StrictSubsetOrdering(S), FiniteSubsetsOf(S))
  BY FS_FiniteSubsetsOfFinite, FS_StrictSubsetOrderingWellFounded
<1>3. PICK T \in B : \A U \in B : ~ (<<U, T>> \in StrictSubsetOrdering(S))
  <2> HIDE DEF B
  <2>1. B \subseteq SUBSET S
    BY DEF B
  <2>2. IsWellFoundedOn(StrictSubsetOrdering(S), SUBSET S)
    BY <1>2
  <2>3. QED
    BY <1>1, <2>1, <2>2, WFMin
<1>4. ASSUME NEW x \in T PROVE T \ {x} \in A
  <2>1. <<T \ {x}, T>> \in StrictSubsetOrdering(S)
    BY <1>4 DEF StrictSubsetOrdering
  <2>2. QED
    BY <1>3, <2>1
<1>5. QED
  BY <1>4

(* The recursive definition has a solution: by induction over the size of the
   subsets it is defined for. *)
LEMMA SumFcnIsOne ==
  ASSUME NEW f, NEW S, IsFiniteSet(S)
  PROVE  Adds(SumFcn(f, S), f, S)
<1> DEFINE Small(n) == {s \in SUBSET S : Cardinality(s) <= n}
           Step(g, s) == IF s = {} THEN 0 ELSE f[Pick(s)] + g[s \ {Pick(s)}]
           A == {n \in Nat : \E g : g = [s \in Small(n) |-> Step(g, s)]}
<1>1. \A s \in SUBSET S : IsFiniteSet(s) /\ Cardinality(s) \in Nat
  BY FS_Subset, FS_CardinalityType
<1>2. \A s \in SUBSET S : s # {} =>
        /\ s \ {Pick(s)} \in SUBSET S
        /\ Cardinality(s \ {Pick(s)}) = Cardinality(s) - 1
  <2>1. ASSUME NEW s \in SUBSET S, s # {}
        PROVE  /\ s \ {Pick(s)} \in SUBSET S
               /\ Cardinality(s \ {Pick(s)}) = Cardinality(s) - 1
    <3>1. Pick(s) \in s
      BY <2>1 DEF Pick
    <3>2. QED
      BY <1>1, <3>1, FS_RemoveElement
  <2>2. QED
    BY <2>1
<1>3. 0 \in A
  <2>1. Small(0) = {{}}
    <3>1. \A s \in SUBSET S : Cardinality(s) <= 0 <=> s = {}
      BY <1>1, FS_EmptySet
    <3>2. QED
      BY <3>1
  <2> DEFINE g == [s \in {{}} |-> 0]
  <2>2. g = [s \in Small(0) |-> Step(g, s)]
    BY <2>1
  <2>3. QED
    BY <2>2
<1>4. ASSUME NEW n \in Nat, n \in A  PROVE n + 1 \in A
  <2>1. PICK g : g = [s \in Small(n) |-> Step(g, s)]
    BY <1>4
  <2> DEFINE h == [s \in Small(n + 1) |-> IF s \in Small(n) THEN g[s] ELSE Step(g, s)]
  <2>2. ASSUME NEW s \in Small(n + 1)  PROVE h[s] = Step(h, s)
    <3>1. CASE s = {}
      <4>1. s \in Small(n)
        BY <3>1, FS_EmptySet
      <4>2. QED
        BY <2>1, <3>1, <4>1
    <3>2. CASE s # {}
      <4> DEFINE t == s \ {Pick(s)}
      <4>1. t \in Small(n)
        BY <1>1, <1>2, <3>2
      <4>2. t \in Small(n + 1)
        BY <1>1, <4>1
      <4>3. h[t] = g[t]
        BY <4>1, <4>2
      <4>4. h[s] = Step(g, s)
        BY <2>1
      <4>5. QED
        BY <3>2, <4>3, <4>4
    <3>3. QED
      BY <3>1, <3>2
  <2>3. h = [s \in Small(n + 1) |-> Step(h, s)]
    BY <2>2
  <2>4. \E k : k = [s \in Small(n + 1) |-> Step(k, s)]
    <3> HIDE DEF h, Step, Small
    <3>1. QED
      BY <2>3
  <2>5. n + 1 \in Nat
    OBVIOUS
  <2>6. QED
    <3> HIDE DEF Step, Small, h
    <3>1. QED
      BY <2>4, <2>5
<1>5. Cardinality(S) \in A
  <2> HIDE DEF A
  <2>1. Nat \subseteq A
    BY <1>3, <1>4, NatBySmallest
  <2>2. QED
    BY <1>1, <2>1
<1>6. Small(Cardinality(S)) = SUBSET S
  BY <1>1, FS_Subset
<1>7. \E g : Adds(g, f, S)
  BY <1>5, <1>6 DEF Adds
<1>8. QED
  BY <1>7 DEF SumFcn

(* What one needs to know of it, as a predicate that is opened where it is used *)
OneByOne(g, f, S) ==
  /\ g[{}] = 0
  /\ \A s \in SUBSET S : s # {} =>
       Pick(s) \in s /\ g[s] = f[Pick(s)] + g[s \ {Pick(s)}]

(* The function of the sum is one that adds the elements one by one. *)
LEMMA SumFcnOneByOne ==
  ASSUME NEW f, NEW S, IsFiniteSet(S)
  PROVE  OneByOne(SumFcn(f, S), f, S)
<1> DEFINE G == SumFcn(f, S)
<1>1. Adds(G, f, S)
  BY SumFcnIsOne
<1> HIDE DEF G
<1>2. \A s \in SUBSET S : G[s] = IF s = {} THEN 0 ELSE f[Pick(s)] + G[s \ {Pick(s)}]
  BY <1>1 DEF Adds
<1>3. \A s \in SUBSET S : s # {} => Pick(s) \in s
  BY DEF Pick
<1>4. OneByOne(G, f, S)
  BY <1>2, <1>3 DEF OneByOne
<1>5. QED
  BY <1>4 DEF G

(* Sums of integers are integers. *)
LEMMA SumFcnType ==
  ASSUME NEW f, NEW S, IsFiniteSet(S), \A x \in S : f[x] \in Int
  PROVE  \A s \in SUBSET S : SumFcn(f, S)[s] \in Int
<1> DEFINE A == {s \in SUBSET S : SumFcn(f, S)[s] \in Int}
<1>0. OneByOne(SumFcn(f, S), f, S)
  BY SumFcnOneByOne
<1>1. ASSUME NEW T \in SUBSET S, \A x \in T : T \ {x} \in A  PROVE T \in A
  <2>1. CASE T = {}
    BY <1>0, <2>1 DEF OneByOne
  <2>2. CASE T # {}
    <3>1. Pick(T) \in T /\ SumFcn(f, S)[T] = f[Pick(T)] + SumFcn(f, S)[T \ {Pick(T)}]
      BY <1>0, <2>2 DEF OneByOne
    <3>2. f[Pick(T)] \in Int /\ SumFcn(f, S)[T \ {Pick(T)}] \in Int
      BY <1>1, <3>1
    <3>3. QED
      BY <3>1, <3>2
  <2>3. QED
    BY <2>1, <2>2
<1>2. SUBSET S \subseteq A
  <2> HIDE DEF A
  <2>1. QED
    BY <1>1, FiniteBySmallest
<1>3. QED
  BY <1>2

(* The element that is taken out first does not matter. *)
LEMMA SumFcnAnyOrder ==
  ASSUME NEW f, NEW S, IsFiniteSet(S), \A x \in S : f[x] \in Int
  PROVE  \A s \in SUBSET S : \A x \in s :
           SumFcn(f, S)[s] = f[x] + SumFcn(f, S)[s \ {x}]
<1> DEFINE G == SumFcn(f, S)
           A == {s \in SUBSET S : \A x \in s : G[s] = f[x] + G[s \ {x}]}
<1>0. \A s \in SUBSET S : G[s] \in Int
  BY SumFcnType
<1>e. OneByOne(G, f, S)
  BY SumFcnOneByOne
<1> HIDE DEF G
<1>1. ASSUME NEW T \in SUBSET S, \A x \in T : T \ {x} \in A  PROVE T \in A
  <2> SUFFICES ASSUME NEW x \in T  PROVE G[T] = f[x] + G[T \ {x}]
    OBVIOUS
  <2> DEFINE c == Pick(T)
  <2>1. c \in T /\ G[T] = f[c] + G[T \ {c}]
    BY <1>e DEF OneByOne
  <2>2. CASE x = c
    BY <2>1, <2>2
  <2>3. CASE x # c
    <3>1. G[T \ {c}] = f[x] + G[(T \ {c}) \ {x}]
      BY <1>1, <2>1, <2>3
    <3>2. G[T \ {x}] = f[c] + G[(T \ {x}) \ {c}]
      BY <1>1, <2>1, <2>3
    <3>3. (T \ {c}) \ {x} = (T \ {x}) \ {c}
      OBVIOUS
    <3>4. f[c] \in Int /\ f[x] \in Int /\ G[(T \ {c}) \ {x}] \in Int
      BY <1>0, <2>1
    <3>5. G[T \ {x}] = f[c] + G[(T \ {c}) \ {x}]
      BY <3>2, <3>3
    <3>6. G[T] = f[c] + (f[x] + G[(T \ {c}) \ {x}])
      BY <2>1, <3>1
    <3>7. QED
      BY <3>4, <3>5, <3>6
  <2>4. QED
    BY <2>2, <2>3
<1>2. SUBSET S \subseteq A
  <2> HIDE DEF A
  <2>1. QED
    BY <1>1, FiniteBySmallest
<1>3. QED
  BY <1>2 DEF G

(* The sum over a subset does not depend on the set it is a subset of. *)
LEMMA SumFcnLocal ==
  ASSUME NEW f, NEW S, IsFiniteSet(S), NEW T \in SUBSET S
  PROVE  \A s \in SUBSET T : SumFcn(f, T)[s] = SumFcn(f, S)[s]
<1> DEFINE A == {s \in SUBSET T : SumFcn(f, T)[s] = SumFcn(f, S)[s]}
<1>0. IsFiniteSet(T)
  BY FS_Subset
<1>s. OneByOne(SumFcn(f, S), f, S)
  BY SumFcnOneByOne
<1>t. OneByOne(SumFcn(f, T), f, T)
  BY <1>0, SumFcnOneByOne
<1>1. ASSUME NEW U \in SUBSET T, \A x \in U : U \ {x} \in A  PROVE U \in A
  <2>1. CASE U = {}
    BY <1>s, <1>t, <2>1 DEF OneByOne
  <2>2. CASE U # {}
    <3>1. /\ Pick(U) \in U
          /\ SumFcn(f, T)[U] = f[Pick(U)] + SumFcn(f, T)[U \ {Pick(U)}]
      BY <1>t, <2>2 DEF OneByOne
    <3>2. SumFcn(f, S)[U] = f[Pick(U)] + SumFcn(f, S)[U \ {Pick(U)}]
      BY <1>s, <2>2 DEF OneByOne
    <3>3. QED
      BY <1>1, <3>1, <3>2
  <2>3. QED
    BY <2>1, <2>2
<1>2. SUBSET T \subseteq A
  <2> HIDE DEF A
  <2>1. QED
    BY <1>0, <1>1, FiniteBySmallest
<1>3. QED
  BY <1>2

(***************************************************************************)
(* What the other modules cite                                             *)
(***************************************************************************)

(* Nothing adds up to 0. *)
LEMMA SumEmpty == ASSUME NEW f PROVE SumOver(f, {}) = 0
BY SumIs, SumFcnOneByOne, FS_EmptySet DEF OneByOne

(* One element taken out *)
LEMMA SumRemove ==
  ASSUME NEW f, NEW S, IsFiniteSet(S), \A x \in S : f[x] \in Int, NEW x \in S
  PROVE  SumOver(f, S) = f[x] + SumOver(f, S \ {x})
<1>1. SumFcn(f, S)[S] = f[x] + SumFcn(f, S)[S \ {x}]
  BY SumFcnAnyOrder
<1>2. SumFcn(f, S \ {x})[S \ {x}] = SumFcn(f, S)[S \ {x}]
  BY SumFcnLocal
<1>3. QED
  BY <1>1, <1>2, SumIs

(* A sum of integers is an integer. *)
LEMMA SumType ==
  ASSUME NEW f, NEW S, IsFiniteSet(S), \A x \in S : f[x] \in Int
  PROVE  SumOver(f, S) \in Int
BY SumIs, SumFcnType

(* One element more *)
LEMMA SumAdd ==
  ASSUME NEW f, NEW S, IsFiniteSet(S), NEW x, x \notin S,
         \A y \in S \cup {x} : f[y] \in Int
  PROVE  SumOver(f, S \cup {x}) = f[x] + SumOver(f, S)
<1>1. IsFiniteSet(S \cup {x})
  BY FS_AddElement
<1>2. (S \cup {x}) \ {x} = S
  OBVIOUS
<1>3. SumOver(f, S \cup {x}) = f[x] + SumOver(f, (S \cup {x}) \ {x})
  BY <1>1, SumRemove
<1>4. QED
  BY <1>2, <1>3

(* Only the values at the elements of the set count. *)
LEMMA SumSame ==
  ASSUME NEW S, IsFiniteSet(S), NEW f, NEW g,
         \A x \in S : f[x] \in Int /\ g[x] = f[x]
  PROVE  SumOver(g, S) = SumOver(f, S)
<1> DEFINE A == {s \in SUBSET S : SumOver(g, s) = SumOver(f, s)}
<1>1. ASSUME NEW T \in SUBSET S, \A x \in T : T \ {x} \in A  PROVE T \in A
  <2>1. CASE T = {}
    BY <2>1, SumEmpty
  <2>2. CASE T # {}
    <3>1. PICK x \in T : TRUE
      BY <2>2
    <3>2. IsFiniteSet(T)
      BY FS_Subset
    <3>3. SumOver(f, T) = f[x] + SumOver(f, T \ {x})
      BY <3>2, SumRemove
    <3>4. SumOver(g, T) = g[x] + SumOver(g, T \ {x})
      BY <3>2, SumRemove
    <3>5. QED
      BY <1>1, <3>3, <3>4
  <2>3. QED
    BY <2>1, <2>2
<1>2. SUBSET S \subseteq A
  <2> HIDE DEF A
  <2>1. QED
    BY <1>1, FiniteBySmallest
<1>3. QED
  BY <1>2

(* A sum of naturals is a natural. *)
LEMMA SumNat ==
  ASSUME NEW f, NEW S, IsFiniteSet(S), \A x \in S : f[x] \in Nat
  PROVE  SumOver(f, S) \in Nat
<1> DEFINE A == {s \in SUBSET S : SumOver(f, s) \in Nat}
<1>1. ASSUME NEW T \in SUBSET S, \A x \in T : T \ {x} \in A  PROVE T \in A
  <2>1. CASE T = {}
    BY <2>1, SumEmpty
  <2>2. CASE T # {}
    <3>1. PICK x \in T : TRUE
      BY <2>2
    <3>2. IsFiniteSet(T)
      BY FS_Subset
    <3>3. SumOver(f, T) = f[x] + SumOver(f, T \ {x})
      BY <3>2, SumRemove
    <3>4. QED
      BY <1>1, <3>3
  <2>3. QED
    BY <2>1, <2>2
<1>2. SUBSET S \subseteq A
  <2> HIDE DEF A
  <2>1. QED
    BY <1>1, FiniteBySmallest
<1>3. QED
  BY <1>2

(* Nothing but zeros *)
LEMMA SumZero ==
  ASSUME NEW f, NEW S, IsFiniteSet(S), \A x \in S : f[x] = 0
  PROVE  SumOver(f, S) = 0
<1> DEFINE A == {s \in SUBSET S : SumOver(f, s) = 0}
<1>1. ASSUME NEW T \in SUBSET S, \A x \in T : T \ {x} \in A  PROVE T \in A
  <2>1. CASE T = {}
    BY <2>1, SumEmpty
  <2>2. CASE T # {}
    <3>1. PICK x \in T : TRUE
      BY <2>2
    <3>2. IsFiniteSet(T) /\ \A y \in T : f[y] \in Int
      BY FS_Subset
    <3>3. SumOver(f, T) = f[x] + SumOver(f, T \ {x})
      BY <3>2, SumRemove
    <3>4. f[x] = 0 /\ SumOver(f, T \ {x}) = 0
      BY <1>1
    <3>5. QED
      BY <3>3, <3>4
  <2>3. QED
    BY <2>1, <2>2
<1>2. SUBSET S \subseteq A
  <2> HIDE DEF A
  <2>1. QED
    BY <1>1, FiniteBySmallest
<1>3. QED
  BY <1>2

(* A part of the set adds up to no more than the whole. *)
LEMMA SumSubset ==
  ASSUME NEW f, NEW S, IsFiniteSet(S), \A x \in S : f[x] \in Nat, NEW T \in SUBSET S
  PROVE  SumOver(f, T) <= SumOver(f, S)
<1> DEFINE A == {s \in SUBSET S : SumOver(f, s \cap T) <= SumOver(f, s)}
<1>1. ASSUME NEW U \in SUBSET S, \A x \in U : U \ {x} \in A  PROVE U \in A
  <2>0. IsFiniteSet(U) /\ IsFiniteSet(U \cap T)
    BY FS_Subset
  <2>1. CASE U = {}
    <3>1. U \cap T = {}
      BY <2>1
    <3>2. QED
      BY <2>1, <3>1, SumEmpty
  <2>2. CASE U # {}
    <3>1. PICK x \in U : TRUE
      BY <2>2
    <3>2. SumOver(f, U) = f[x] + SumOver(f, U \ {x})
      BY <2>0, SumRemove
    <3>3. SumOver(f, (U \ {x}) \cap T) <= SumOver(f, U \ {x})
      BY <1>1, <3>1
    <3>4. /\ SumOver(f, U \ {x}) \in Nat
          /\ SumOver(f, (U \ {x}) \cap T) \in Nat
          /\ f[x] \in Nat
      <4>1. IsFiniteSet(U \ {x}) /\ IsFiniteSet((U \ {x}) \cap T)
        BY <2>0, FS_Subset
      <4>2. QED
        BY <4>1, SumNat
    <3>5. CASE x \in T
      <4>1. SumOver(f, U \cap T) = f[x] + SumOver(f, (U \cap T) \ {x})
        BY <2>0, <3>5, SumRemove
      <4>2. (U \cap T) \ {x} = (U \ {x}) \cap T
        OBVIOUS
      <4>3. SumOver(f, U \cap T) = f[x] + SumOver(f, (U \ {x}) \cap T)
        BY <4>1, <4>2
      <4>4. SumOver(f, U \cap T) <= SumOver(f, U)
        BY <3>2, <3>3, <3>4, <4>3
      <4>5. QED
        BY <4>4
    <3>6. CASE x \notin T
      <4>1. U \cap T = (U \ {x}) \cap T
        BY <3>6
      <4>2. SumOver(f, U \cap T) = SumOver(f, (U \ {x}) \cap T)
        BY <4>1
      <4>3. SumOver(f, U \cap T) <= SumOver(f, U)
        BY <3>2, <3>3, <3>4, <4>2
      <4>4. QED
        BY <4>3
    <3>7. QED
      BY <3>5, <3>6
  <2>3. QED
    BY <2>1, <2>2
<1>2. SUBSET S \subseteq A
  <2> HIDE DEF A
  <2>1. QED
    BY <1>1, FiniteBySmallest
<1>3. S \cap T = T
  OBVIOUS
<1>4. QED
  BY <1>2, <1>3

(* Two sets with no element in common *)
LEMMA SumUnion ==
  ASSUME NEW f, NEW S, IsFiniteSet(S), NEW T, IsFiniteSet(T), S \cap T = {},
         \A x \in S \cup T : f[x] \in Int
  PROVE  SumOver(f, S \cup T) = SumOver(f, S) + SumOver(f, T)
<1> DEFINE A == {s \in SUBSET S : SumOver(f, s \cup T) = SumOver(f, s) + SumOver(f, T)}
<1>0. SumOver(f, T) \in Int
  BY SumType
<1>1. ASSUME NEW U \in SUBSET S, \A x \in U : U \ {x} \in A  PROVE U \in A
  <2>0. IsFiniteSet(U) /\ IsFiniteSet(U \cup T)
    BY FS_Subset, FS_Union
  <2>1. CASE U = {}
    <3>1. U \cup T = T
      BY <2>1
    <3>2. QED
      BY <1>0, <2>1, <3>1, SumEmpty
  <2>2. CASE U # {}
    <3>1. PICK x \in U : TRUE
      BY <2>2
    <3>2. SumOver(f, U) = f[x] + SumOver(f, U \ {x})
      BY <2>0, SumRemove
    <3>3. SumOver(f, U \cup T) = f[x] + SumOver(f, (U \cup T) \ {x})
      BY <2>0, SumRemove
    <3>4. (U \cup T) \ {x} = (U \ {x}) \cup T
      BY <3>1
    <3>5. SumOver(f, (U \ {x}) \cup T) = SumOver(f, U \ {x}) + SumOver(f, T)
      BY <1>1, <3>1
    <3>6. SumOver(f, U \ {x}) \in Int /\ f[x] \in Int
      <4>1. IsFiniteSet(U \ {x})
        BY <2>0, FS_Subset
      <4>2. QED
        BY <4>1, SumType
    <3>7. SumOver(f, U \cup T) = f[x] + (SumOver(f, U \ {x}) + SumOver(f, T))
      BY <3>3, <3>4, <3>5
    <3>8. SumOver(f, U \cup T) = SumOver(f, U) + SumOver(f, T)
      BY <1>0, <3>2, <3>6, <3>7
    <3>9. QED
      BY <3>8
  <2>3. QED
    BY <2>1, <2>2
<1>2. SUBSET S \subseteq A
  <2> HIDE DEF A
  <2>1. QED
    BY <1>1, FiniteBySmallest
<1>4. QED
  BY <1>2

(* Smaller values give a smaller sum. *)
LEMMA SumBelow ==
  ASSUME NEW S, IsFiniteSet(S), NEW f, NEW g,
         \A x \in S : f[x] \in Int /\ g[x] \in Int /\ f[x] <= g[x]
  PROVE  SumOver(f, S) <= SumOver(g, S)
<1> DEFINE A == {s \in SUBSET S : SumOver(f, s) <= SumOver(g, s)}
<1>1. ASSUME NEW T \in SUBSET S, \A x \in T : T \ {x} \in A  PROVE T \in A
  <2>1. CASE T = {}
    BY <2>1, SumEmpty
  <2>2. CASE T # {}
    <3>1. PICK x \in T : TRUE
      BY <2>2
    <3>2. IsFiniteSet(T) /\ IsFiniteSet(T \ {x})
      BY FS_Subset
    <3>3. SumOver(f, T) = f[x] + SumOver(f, T \ {x})
      BY <3>2, SumRemove
    <3>4. SumOver(g, T) = g[x] + SumOver(g, T \ {x})
      BY <3>2, SumRemove
    <3>5. SumOver(f, T \ {x}) \in Int /\ SumOver(g, T \ {x}) \in Int
      BY <3>2, SumType
    <3>6. SumOver(f, T \ {x}) <= SumOver(g, T \ {x})
      BY <1>1
    <3>7. QED
      BY <3>3, <3>4, <3>5, <3>6
  <2>3. QED
    BY <2>1, <2>2
<1>2. SUBSET S \subseteq A
  <2> HIDE DEF A
  <2>1. QED
    BY <1>1, FiniteBySmallest
<1>3. QED
  BY <1>2

(* The value of one element changes. *)
LEMMA SumUpdate ==
  ASSUME NEW S, IsFiniteSet(S), NEW f, NEW g, NEW x \in S,
         \A y \in S : f[y] \in Int /\ g[y] \in Int,
         \A y \in S \ {x} : g[y] = f[y]
  PROVE  SumOver(g, S) = SumOver(f, S) + (g[x] - f[x])
<1>1. SumOver(f, S) = f[x] + SumOver(f, S \ {x})
  BY SumRemove
<1>2. SumOver(g, S) = g[x] + SumOver(g, S \ {x})
  BY SumRemove
<1>3. IsFiniteSet(S \ {x})
  BY FS_Subset
<1>4. SumOver(g, S \ {x}) = SumOver(f, S \ {x})
  BY <1>3, SumSame
<1>5. SumOver(f, S \ {x}) \in Int
  BY <1>3, SumType
<1>6. QED
  BY <1>1, <1>2, <1>4, <1>5

(* The values of a function on a finite set *)
LEMMA FiniteImage ==
  ASSUME NEW T, IsFiniteSet(T), NEW m
  PROVE  IsFiniteSet({m[x] : x \in T})
<1> DEFINE I == {m[x] : x \in T}
           h == [x \in T |-> m[x]]
<1>1. h \in Surjection(T, I)
  BY DEF Surjection
<1> HIDE DEF h
<1>2. QED
  BY <1>1, FS_Surjection

(* What the elements stand for, when several may stand for the same *)
LEMMA SumImage ==
  ASSUME NEW T, IsFiniteSet(T), NEW f, NEW m, NEW g,
         \A x \in T : f[x] \in Nat,
         \A x \in T : g[m[x]] \in Nat /\ g[m[x]] <= f[x]
  PROVE  SumOver(g, {m[x] : x \in T}) <= SumOver(f, T)
<1> DEFINE Img(s) == {m[x] : x \in s}
           A == {s \in SUBSET T : SumOver(g, Img(s)) <= SumOver(f, s)}
<1>1. ASSUME NEW U \in SUBSET T, \A x \in U : U \ {x} \in A  PROVE U \in A
  <2>0. IsFiniteSet(U)
    BY FS_Subset
  <2>1. CASE U = {}
    <3>1. Img(U) = {}
      BY <2>1
    <3>2. QED
      BY <2>1, <3>1, SumEmpty
  <2>2. CASE U # {}
    <3>1. PICK x \in U : TRUE
      BY <2>2
    <3>2. SumOver(f, U) = f[x] + SumOver(f, U \ {x})
      BY <2>0, SumRemove
    <3>3. SumOver(g, Img(U \ {x})) <= SumOver(f, U \ {x})
      BY <1>1
    <3>4. /\ IsFiniteSet(U \ {x}) 
          /\ IsFiniteSet(Img(U \ {x}))
      <4>1. IsFiniteSet(U \ {x})
        BY <2>0, FS_Subset
      <4>2. QED
        BY <4>1, FiniteImage
    <3>5. /\ SumOver(f, U \ {x}) \in Nat
          /\ SumOver(g, Img(U \ {x})) \in Nat
      BY <3>4, SumNat
    <3>6. f[x] \in Nat /\ g[m[x]] \in Nat /\ g[m[x]] <= f[x]
      BY <3>1
    <3>7. CASE m[x] \in Img(U \ {x})
      <4>1. Img(U) = Img(U \ {x})
        BY <3>7
      <4> HIDE DEF Img
      <4>2. SumOver(g, Img(U)) = SumOver(g, Img(U \ {x}))
        BY <4>1
      <4>3. SumOver(g, Img(U)) <= SumOver(f, U)
        BY <3>2, <3>3, <3>5, <3>6, <4>2
      <4>4. QED
        BY <4>3 DEF Img
    <3>8. CASE m[x] \notin Img(U \ {x})
      <4>1. Img(U) = Img(U \ {x}) \cup {m[x]}
        OBVIOUS
      <4>2. \A y \in Img(U \ {x}) \cup {m[x]} : g[y] \in Int
        OBVIOUS
      <4> HIDE DEF Img
      <4>3. SumOver(g, Img(U \ {x}) \cup {m[x]}) = g[m[x]] + SumOver(g, Img(U \ {x}))
        BY <3>4, <3>8, <4>2, SumAdd
      <4>4. SumOver(g, Img(U)) = g[m[x]] + SumOver(g, Img(U \ {x}))
        BY <4>1, <4>3
      <4>5. SumOver(g, Img(U)) <= SumOver(f, U)
        BY <3>2, <3>3, <3>5, <3>6, <4>4
      <4>6. QED
        BY <4>5 DEF Img
    <3>9. QED
      BY <3>7, <3>8
  <2>3. QED
    BY <2>1, <2>2
<1>2. SUBSET T \subseteq A
  <2> HIDE DEF A
  <2>1. QED
    BY <1>1, FiniteBySmallest
<1>3. QED
  BY <1>2

(* Of two sets, which may overlap *)
LEMMA SumOfBoth ==
  ASSUME NEW f, NEW S, IsFiniteSet(S), NEW T, IsFiniteSet(T),
         \A x \in S \cup T : f[x] \in Nat
  PROVE  SumOver(f, S \cup T) <= SumOver(f, S) + SumOver(f, T)
<1>1. IsFiniteSet(T \ S) /\ T \ S \in SUBSET T /\ S \cap (T \ S) = {}
  BY FS_Subset
<1>2. S \cup T = S \cup (T \ S) /\ \A x \in S \cup (T \ S) : f[x] \in Int
  OBVIOUS
<1>3. SumOver(f, S \cup (T \ S)) = SumOver(f, S) + SumOver(f, T \ S)
  BY <1>1, <1>2, SumUnion
<1>4. SumOver(f, T \ S) <= SumOver(f, T)
  BY <1>1, SumSubset
<1>5. SumOver(f, S) \in Nat /\ SumOver(f, T) \in Nat /\ SumOver(f, T \ S) \in Nat
  BY <1>1, SumNat
<1>6. SumOver(f, S \cup T) = SumOver(f, S) + SumOver(f, T \ S)
  BY <1>2, <1>3
<1>7. QED
  BY <1>4, <1>5, <1>6
=============================================================================
