------------------------- MODULE Commissions_proofs -------------------------
(***************************************************************************)
(* For any workers, months and inputs: the stored plan is one that the     *)
(* calculation may use, and every recorded day exists and is recorded      *)
(* once.  Under every plan that can be stored, each unit sold is paid at   *)
(* the rate of one tier, and who sells more earns no less.                 *)
(***************************************************************************)
EXTENDS Commissions, FiniteSetsExt, FiniteSetTheorems, TLAPS

-----------------------------------------------------------------------------
(* Sums over finite sets.  The model adds up amounts with MapThenSumSet, which is
   defined by recursion over the subsets of a set.  The recursion defines a function and
   the sum does not depend on the order, by induction over those subsets; the induction
   is stated with a set G, not with an operator, so that it can be applied with
   G == {T \in SUBSET S : ...}. *)

\* The element that the recursion takes out of a set.
Some(s) == CHOOSE x \in s : TRUE

\* The sum of the amounts of the elements of S.
Total(S, amount) == MapThenSumSet(LAMBDA x : amount[x], S)

\* g has the sum of the amounts over every subset of S.
Sums(g, S, amount) ==
  g = [s \in SUBSET S |-> IF s = {} THEN 0 ELSE amount[Some(s)] + g[s \ {Some(s)}]]

\* Induction over the subsets of a finite set: G has every subset of S if it has each
\* whose proper subsets it has.
LEMMA SubsetInduction ==
  ASSUME NEW S, IsFiniteSet(S), NEW G,
         \A T \in SUBSET S : (\A U \in SUBSET T : U # T => U \in G) => T \in G
  PROVE  SUBSET S \subseteq G
  <1> DEFINE Bad == (SUBSET S) \ G
  <1> SUFFICES ASSUME Bad # {}
               PROVE  FALSE
    OBVIOUS
  <1>1. IsWellFoundedOn(StrictSubsetOrdering(S), SUBSET S)
    <2>1. FiniteSubsetsOf(S) = SUBSET S
      BY FS_FiniteSubsetsOfFinite
    <2>2. IsWellFoundedOn(StrictSubsetOrdering(S), FiniteSubsetsOf(S))
      BY FS_StrictSubsetOrderingWellFounded
    <2>3. QED
      BY <2>1, <2>2, Zenon
  <1>2. Bad \subseteq SUBSET S
    OBVIOUS
  <1> HIDE DEF Bad
  <1>3. PICK T \in Bad : \A U \in Bad : ~ (<<U, T>> \in StrictSubsetOrdering(S))
    <2> DEFINE R == StrictSubsetOrdering(S)
               D == SUBSET S
    <2>1. IsWellFoundedOn(R, D) /\ Bad \subseteq D
      BY <1>1, <1>2
    <2> HIDE DEF R, D
    <2>2. \E T \in Bad : \A U \in Bad : ~ (<<U, T>> \in R)
      BY <2>1, WFMin
    <2>3. QED
      BY <2>2 DEF R
  <1>4. \A U \in SUBSET T : U # T => U \in G
    BY <1>2, <1>3 DEF StrictSubsetOrdering, Bad
  <1>5. QED
    BY <1>2, <1>3, <1>4 DEF Bad

LEMMA SomeIn == \A s : s # {} => Some(s) \in s
  BY DEF Some

\* Sums over a common subset are equal if the amounts there are.
LEMMA SumsAgree ==
  ASSUME NEW S, IsFiniteSet(S), NEW T, NEW U, NEW a, NEW b, NEW g, NEW h,
         Sums(g, T, a), Sums(h, U, b), S \subseteq T, S \subseteq U,
         \A x \in S : a[x] = b[x]
  PROVE  \A s \in SUBSET S : g[s] = h[s]
  <1> DEFINE G == {s \in SUBSET S : g[s] = h[s]}
  <1>1. ASSUME NEW s \in SUBSET S, \A u \in SUBSET s : u # s => u \in G
        PROVE  s \in G
    <2>1. CASE s = {}
      BY <2>1 DEF Sums
    <2>2. CASE s # {}
      <3> DEFINE x == Some(s)
      <3>1. x \in s
        BY <2>2, SomeIn
      <3>2. g[s \ {x}] = h[s \ {x}]
        BY <1>1, <3>1
      <3>3. g[s] = a[x] + g[s \ {x}] /\ h[s] = b[x] + h[s \ {x}]
        BY <2>2 DEF Sums
      <3>4. a[x] = b[x]
        BY <3>1
      <3>5. QED
        BY <3>2, <3>3, <3>4
    <2>3. QED
      BY <2>1, <2>2
  <1> HIDE DEF G
  <1>2. SUBSET S \subseteq G
    BY <1>1, SubsetInduction
  <1>3. QED
    BY <1>2 DEF G

\* The sums of amounts over the subsets of a finite set exist.
LEMMA SumsExist ==
  ASSUME NEW S, IsFiniteSet(S), NEW a
  PROVE  \E g : Sums(g, S, a)
  <1> DEFINE G == {T \in SUBSET S : \E g : Sums(g, T, a)}
             F == [T \in SUBSET S |-> CHOOSE g : Sums(g, T, a)]
  <1>1. ASSUME NEW T \in SUBSET S, \A U \in SUBSET T : U # T => U \in G
        PROVE  T \in G
    <2>0. \A U \in SUBSET T : U # T => Sums(F[U], U, a)
      <3>1. \A U \in SUBSET T : U # T => \E g : Sums(g, U, a)
        BY <1>1
      <3>2. QED
        BY <3>1
    <2> HIDE DEF F
    <2> DEFINE h == [s \in SUBSET T |->
                       IF s = {} THEN 0
                       ELSE a[Some(s)] + F[s \ {Some(s)}][s \ {Some(s)}]]
    <2>1. ASSUME NEW s \in SUBSET T, s # {}
          PROVE  F[s \ {Some(s)}][s \ {Some(s)}] = h[s \ {Some(s)}]
      <3> DEFINE u == s \ {Some(s)}
      <3>1. Some(s) \in s
        BY <2>1, SomeIn
      <3>2. u \in SUBSET T /\ u # T /\ Sums(F[u], u, a)
        BY <2>0, <3>1
      <3>3. CASE u = {}
        BY <3>2, <3>3 DEF Sums
      <3>4. CASE u # {}
        <4> DEFINE v == u \ {Some(u)}
        <4>1. Some(u) \in u
          BY <3>4, SomeIn
        <4>2. v \in SUBSET T /\ v # T /\ v \subseteq u /\ IsFiniteSet(v)
          BY <3>2, <4>1, FS_Subset
        <4>3. Sums(F[v], v, a)
          BY <2>0, <4>2
        <4>4. F[u][v] = F[v][v]
          <5> HIDE DEF u, v
          <5> QED BY <3>2, <4>2, <4>3, SumsAgree
        <4>5. F[u][u] = a[Some(u)] + F[u][v]
          BY <3>2, <3>4 DEF Sums
        <4>6. h[u] = a[Some(u)] + F[v][v]
          BY <3>2, <3>4
        <4>7. QED
          BY <4>4, <4>5, <4>6
      <3>5. QED
        BY <3>3, <3>4
    <2>2. h = [s \in SUBSET T |-> IF s = {} THEN 0 ELSE a[Some(s)] + h[s \ {Some(s)}]]
      BY <2>1
    <2>3. QED
      BY <2>2 DEF Sums
  <1> HIDE DEF G
  <1>2. SUBSET S \subseteq G
    BY <1>1, SubsetInduction
  <1>3. QED
    BY <1>2 DEF G

LEMMA TotalUnfolds ==
  ASSUME NEW S, IsFiniteSet(S), NEW a
  PROVE  \E g : Sums(g, S, a) /\ Total(S, a) = g[S]
  <1> DEFINE iter == CHOOSE g : g = [s \in SUBSET S |-> IF s = {} THEN 0
                     ELSE a[CHOOSE x \in s : TRUE] + g[s \ {CHOOSE x \in s : TRUE}]]
  <1>1. Total(S, a) = iter[S]
    BY DEF Total, MapThenSumSet, MapThenFoldSet
  <1>2. \E g : g = [s \in SUBSET S |-> IF s = {} THEN 0
                     ELSE a[CHOOSE x \in s : TRUE] + g[s \ {CHOOSE x \in s : TRUE}]]
    <2>1. \E g : Sums(g, S, a)
      BY SumsExist
    <2>2. QED
      BY <2>1, Zenon DEF Sums, Some
  <1>3. Sums(iter, S, a)
    BY <1>2, Zenon DEF Sums, Some
  <1>4. QED
    BY <1>1, <1>3

\* Any function with these sums gives the total.
LEMMA TotalIs ==
  ASSUME NEW S, IsFiniteSet(S), NEW a, NEW g, Sums(g, S, a)
  PROVE  Total(S, a) = g[S]
  <1>1. PICK h : Sums(h, S, a) /\ Total(S, a) = h[S]
    BY TotalUnfolds
  <1>2. QED
    BY <1>1, SumsAgree

\* Sums of naturals are naturals.
LEMMA SumsType ==
  ASSUME NEW S, IsFiniteSet(S), NEW a, \A x \in S : a[x] \in Nat, NEW g, Sums(g, S, a)
  PROVE  \A s \in SUBSET S : g[s] \in Nat
  <1> DEFINE G == {s \in SUBSET S : g[s] \in Nat}
  <1>1. ASSUME NEW s \in SUBSET S, \A u \in SUBSET s : u # s => u \in G
        PROVE  s \in G
    <2>1. CASE s = {}
      BY <2>1 DEF Sums
    <2>2. CASE s # {}
      <3> DEFINE x == Some(s)
      <3>1. x \in s
        BY <2>2, SomeIn
      <3>2. g[s \ {x}] \in Nat /\ a[x] \in Nat
        BY <1>1, <3>1
      <3>3. g[s] = a[x] + g[s \ {x}]
        BY <2>2 DEF Sums
      <3>4. QED
        BY <3>2, <3>3
    <2>3. QED
      BY <2>1, <2>2
  <1> HIDE DEF G
  <1>2. SUBSET S \subseteq G
    BY <1>1, SubsetInduction
  <1>3. QED
    BY <1>2 DEF G

\* The total of naturals is a natural, and that of nothing is zero.
LEMMA TotalType ==
  ASSUME NEW S, IsFiniteSet(S), NEW a, \A x \in S : a[x] \in Nat
  PROVE  Total(S, a) \in Nat
  <1>1. PICK g : Sums(g, S, a) /\ Total(S, a) = g[S]
    BY TotalUnfolds
  <1>2. QED
    BY <1>1, SumsType

LEMMA TotalOfNothing ==
  ASSUME NEW a
  PROVE  Total({}, a) = 0
  <1>1. IsFiniteSet({})
    BY FS_EmptySet
  <1>2. PICK g : Sums(g, {}, a) /\ Total({}, a) = g[{}]
    BY <1>1, TotalUnfolds
  <1>3. QED
    BY <1>2 DEF Sums

\* Sums of the same amounts are equal.
LEMMA TotalAgrees ==
  ASSUME NEW S, IsFiniteSet(S), NEW a, NEW b, \A x \in S : a[x] = b[x]
  PROVE  Total(S, a) = Total(S, b)
  <1>1. PICK g : Sums(g, S, a) /\ Total(S, a) = g[S]
    BY TotalUnfolds
  <1>2. PICK h : Sums(h, S, b) /\ Total(S, b) = h[S]
    BY TotalUnfolds
  <1>3. QED
    BY <1>1, <1>2, SumsAgree

\* A sum does not depend on the order: any amount can be taken out.
LEMMA TotalRemoves ==
  ASSUME NEW S, IsFiniteSet(S), NEW a, \A x \in S : a[x] \in Nat, NEW y \in S
  PROVE  Total(S, a) = a[y] + Total(S \ {y}, a)
  <1>1. PICK g : Sums(g, S, a) /\ Total(S, a) = g[S]
    BY TotalUnfolds
  <1> DEFINE R == S \ {y}
  <1>2. IsFiniteSet(R) /\ R \subseteq S
    BY FS_Subset
  <1>3. PICK h : Sums(h, R, a) /\ Total(R, a) = h[R]
    BY <1>2, TotalUnfolds
  <1>4. Total(R, a) = g[R]
    BY <1>1, <1>2, <1>3, SumsAgree
  <1>5. \A s \in SUBSET S : g[s] \in Nat
    BY <1>1, SumsType
  <1> DEFINE G == {s \in SUBSET S : \A x \in s : g[s] = a[x] + g[s \ {x}]}
  <1>6. ASSUME NEW s \in SUBSET S, \A u \in SUBSET s : u # s => u \in G
        PROVE  s \in G
    <2> SUFFICES ASSUME NEW x \in s
                 PROVE  g[s] = a[x] + g[s \ {x}]
      OBVIOUS
    <2> DEFINE z == Some(s)
    <2>1. z \in s
      BY SomeIn
    <2>2. g[s] = a[z] + g[s \ {z}]
      BY <1>1 DEF Sums
    <2>3. CASE x = z
      BY <2>2, <2>3
    <2>4. CASE x # z
      <3>1. s \ {z} \in G /\ s \ {x} \in G
        BY <1>6, <2>1
      <3>2. g[s \ {z}] = a[x] + g[(s \ {z}) \ {x}]
        BY <2>4, <3>1
      <3>3. g[s \ {x}] = a[z] + g[(s \ {x}) \ {z}]
        BY <2>1, <2>4, <3>1
      <3>4. (s \ {z}) \ {x} = (s \ {x}) \ {z}
        OBVIOUS
      <3>5. a[x] \in Nat /\ a[z] \in Nat /\ g[(s \ {x}) \ {z}] \in Nat
        BY <1>5, <2>1
      <3> HIDE DEF z
      <3>6. g[s] = a[z] + (a[x] + g[(s \ {x}) \ {z}])
        BY <2>2, <3>2, <3>4
      <3>7. QED
        BY <3>3, <3>5, <3>6
    <2>5. QED
      BY <2>3, <2>4
  <1>7. SUBSET S \subseteq G
    <2> HIDE DEF G
    <2> QED BY <1>6, SubsetInduction
  <1>8. QED
    BY <1>1, <1>4, <1>7

\* A part of the elements does not sum up to more than all of them.
LEMMA TotalOfPart ==
  ASSUME NEW S, IsFiniteSet(S), NEW a, \A x \in S : a[x] \in Nat, NEW T \in SUBSET S
  PROVE  Total(T, a) <= Total(S, a)
  <1> DEFINE G == {s \in SUBSET S : T \subseteq s => Total(T, a) <= Total(s, a)}
  <1>1. ASSUME NEW s \in SUBSET S, \A u \in SUBSET s : u # s => u \in G
        PROVE  s \in G
    <2> SUFFICES ASSUME T \subseteq s
                 PROVE  Total(T, a) <= Total(s, a)
      OBVIOUS
    <2>1. IsFiniteSet(s) /\ IsFiniteSet(T)
      BY FS_Subset
    <2>2. Total(T, a) \in Nat
      BY <2>1, TotalType
    <2>3. CASE s = T
      BY <2>2, <2>3
    <2>4. CASE s # T
      <3>1. PICK y \in s : y \notin T
        BY <2>4
      <3>2. s \ {y} \in SUBSET s /\ s \ {y} # s /\ T \subseteq s \ {y} /\ IsFiniteSet(s \ {y})
        BY <2>1, <3>1, FS_Subset
      <3>3. Total(T, a) <= Total(s \ {y}, a)
        BY <1>1, <3>2
      <3>4. Total(s, a) = a[y] + Total(s \ {y}, a)
        BY <2>1, TotalRemoves
      <3>5. a[y] \in Nat /\ Total(s \ {y}, a) \in Nat
        BY <3>2, TotalType
      <3>6. QED
        BY <2>2, <3>3, <3>4, <3>5
    <2>5. QED
      BY <2>3, <2>4
  <1> HIDE DEF G
  <1>2. SUBSET S \subseteq G
    BY <1>1, SubsetInduction
  <1>3. QED
    BY <1>2 DEF G

\* Sums add up element by element.
LEMMA TotalOfSums ==
  ASSUME NEW S, IsFiniteSet(S), NEW a, NEW d, NEW b,
         \A x \in S : a[x] \in Nat /\ d[x] \in Nat /\ b[x] = a[x] + d[x]
  PROVE  Total(S, b) = Total(S, a) + Total(S, d)
  <1> DEFINE G == {s \in SUBSET S : Total(s, b) = Total(s, a) + Total(s, d)}
  <1>1. ASSUME NEW s \in SUBSET S, \A u \in SUBSET s : u # s => u \in G
        PROVE  s \in G
    <2> SUFFICES Total(s, b) = Total(s, a) + Total(s, d)
      OBVIOUS
    <2>1. CASE s = {}
      BY <2>1, TotalOfNothing
    <2>2. CASE s # {}
      <3>1. PICK y \in s : TRUE
        BY <2>2
      <3>2. PICK R : R = s \ {y}
        OBVIOUS
      <3>3. IsFiniteSet(s) /\ IsFiniteSet(R) /\ R \in G
        BY <1>1, <3>1, <3>2, FS_Subset
      <3>4. Total(R, b) = Total(R, a) + Total(R, d)
        BY <3>3
      <3>5. \A x \in s : a[x] \in Nat /\ d[x] \in Nat /\ b[x] \in Nat
        OBVIOUS
      <3>6. /\ Total(s, a) = a[y] + Total(R, a) /\ Total(s, d) = d[y] + Total(R, d)
            /\ Total(s, b) = b[y] + Total(R, b)
        BY <3>1, <3>2, <3>3, <3>5, TotalRemoves
      <3>7. Total(R, a) \in Nat /\ Total(R, d) \in Nat
        BY <3>2, <3>3, <3>5, TotalType
      <3>8. a[y] \in Nat /\ d[y] \in Nat /\ b[y] = a[y] + d[y]
        BY <3>1
      <3>9. QED
        BY <3>4, <3>6, <3>7, <3>8
    <2>3. QED
      BY <2>1, <2>2
  <1> HIDE DEF G
  <1>2. SUBSET S \subseteq G
    BY <1>1, SubsetInduction
  <1>3. QED
    BY <1>2 DEF G

\* Larger amounts have the larger sum.
LEMMA TotalGrows ==
  ASSUME NEW S, IsFiniteSet(S), NEW a, NEW b,
         \A x \in S : a[x] \in Nat /\ b[x] \in Nat /\ a[x] <= b[x]
  PROVE  Total(S, a) <= Total(S, b)
  <1>1. PICK d : d = [x \in S |-> b[x] - a[x]]
    OBVIOUS
  <1>2. \A x \in S : a[x] \in Nat /\ d[x] \in Nat /\ b[x] = a[x] + d[x]
    BY <1>1
  <1>3. Total(S, b) = Total(S, a) + Total(S, d)
    BY <1>2, TotalOfSums
  <1>4. Total(S, a) \in Nat /\ Total(S, d) \in Nat
    BY <1>2, TotalType
  <1>5. QED
    BY <1>3, <1>4

\* Elements whose amount is zero can be left out.
LEMMA TotalOfFilter ==
  ASSUME NEW S, IsFiniteSet(S), NEW T \in SUBSET S, NEW a, NEW b,
         \A x \in T : a[x] \in Nat, \A x \in S : b[x] = IF x \in T THEN a[x] ELSE 0
  PROVE  Total(S, b) = Total(T, a)
  <1> DEFINE G == {s \in SUBSET S : Total(s, b) = Total(s \cap T, a)}
  <1>1. ASSUME NEW s \in SUBSET S, \A u \in SUBSET s : u # s => u \in G
        PROVE  s \in G
    <2> SUFFICES Total(s, b) = Total(s \cap T, a)
      OBVIOUS
    <2>1. CASE s = {}
      <3>1. s \cap T = {}
        BY <2>1
      <3>2. QED
        BY <2>1, <3>1, TotalOfNothing
    <2>2. CASE s # {}
      <3>1. PICK y \in s : TRUE
        BY <2>2
      <3>2. PICK R, P : R = s \ {y} /\ P = s \cap T
        OBVIOUS
      <3>3. IsFiniteSet(s) /\ IsFiniteSet(R) /\ IsFiniteSet(P) /\ R \in G
        BY <1>1, <3>1, <3>2, FS_Subset
      <3>4. Total(R, b) = Total(R \cap T, a)
        BY <3>3
      <3>5. \A x \in s : b[x] \in Nat
        OBVIOUS
      <3>6. Total(s, b) = b[y] + Total(R, b)
        BY <3>1, <3>2, <3>3, <3>5, TotalRemoves
      <3>7. CASE y \in T
        <4>1. R \cap T = P \ {y} /\ y \in P
          BY <3>1, <3>2, <3>7
        <4>2. Total(P, a) = a[y] + Total(P \ {y}, a)
          BY <3>2, <3>3, <4>1, TotalRemoves
        <4>3. QED
          BY <3>1, <3>2, <3>4, <3>6, <3>7, <4>1, <4>2
      <3>8. CASE y \notin T
        <4>1. R \cap T = P /\ b[y] = 0
          BY <3>1, <3>2, <3>8
        <4>2. Total(P, a) \in Nat
          BY <3>2, <3>3, TotalType
        <4>3. QED
          BY <3>2, <3>4, <3>6, <4>1, <4>2
      <3>9. QED
        BY <3>7, <3>8
    <2>3. QED
      BY <2>1, <2>2
  <1> HIDE DEF G
  <1>2. SUBSET S \subseteq G
    BY <1>1, SubsetInduction
  <1>3. S \cap T = T
    OBVIOUS
  <1>4. QED
    BY <1>2, <1>3 DEF G

\* Induction up to a bound N: G has 0, and the successor of each of its members.
LEMMA UpToInduction ==
  ASSUME NEW N \in Nat, NEW G, 0 \in G, \A n \in 0 .. N - 1 : n \in G => n + 1 \in G
  PROVE  0 .. N \subseteq G
  <1> DEFINE S == 1 .. N
             H == {T \in SUBSET S : \A n \in 0 .. N : T = 1 .. n => n \in G}
  <1>1. ASSUME NEW T \in SUBSET S, \A U \in SUBSET T : U # T => U \in H
        PROVE  T \in H
    <2> SUFFICES ASSUME NEW n \in 0 .. N, T = 1 .. n
                 PROVE  n \in G
      OBVIOUS
    <2>1. CASE n = 0
      BY <2>1
    <2>2. CASE n # 0
      <3>1. n - 1 \in 0 .. N - 1 /\ n - 1 + 1 = n
        BY <2>2
      <3>2. 1 .. (n - 1) \in SUBSET T /\ n \in T /\ n \notin 1 .. (n - 1)
        BY <2>2
      <3>3. 1 .. (n - 1) \in H
        BY <1>1, <3>2
      <3>4. n - 1 \in G
        BY <3>1, <3>3
      <3>5. QED
        BY <3>1, <3>4
    <2>3. QED
      BY <2>1, <2>2
  <1>2. IsFiniteSet(S)
    BY FS_Interval
  <1>3. SUBSET S \subseteq H
    <2> HIDE DEF H, S
    <2> QED BY <1>1, <1>2, SubsetInduction
  <1>4. ASSUME NEW n \in 0 .. N
        PROVE  n \in G
    <2>1. 1 .. n \in SUBSET S
      OBVIOUS
    <2>2. QED
      BY <1>3, <2>1
  <1>5. QED
    BY <1>4

\* What PlansValid asks of a plan.
GoodPlan(r) ==
  /\ r \in ConfigRow
  /\ IF r.model_type = "THRESHOLD_SURPLUS"
     THEN r.threshold_amount >= 0 /\ r.surplus_percentage \in 0 .. 100
     ELSE \A i \in DOMAIN r.tiers :
            r.tiers[i].from_amount >= 0 /\ r.tiers[i].percentage \in 0 .. 100
  /\ r.reward_active => \A i \in DOMAIN r.reward_milestones :
       r.reward_milestones[i].target_amount > 0 /\ r.reward_milestones[i].reward_amount >= 0

\* The stored plan is good, and so is every merged plan that a request is about to save.
PlansInv ==
  /\ job = [w \in Workers |-> job[w]]
  /\ config # Absent => GoodPlan(config)
  /\ \A w \in Workers : At(w, "save_config") => GoodPlan(job[w].row)

\* A PATCH of one column leaves a plan with all its columns.
LEMMA PatchedPlan ==
  ASSUME NEW r \in ConfigRow, NEW merged \in Patches(r, ConfigColumns)
  PROVE  merged \in ConfigRow
<1>1. DOMAIN ConfigColumns = {"is_active", "model_type", "threshold_amount", "surplus_percentage",
                              "tiers", "reward_active", "reward_mode", "reward_milestones"}
  BY DEF ConfigColumns
<1>2. PICK c \in DOMAIN ConfigColumns : \E v \in ConfigColumns[c] : merged = [r EXCEPT ![c] = v]
  BY DEF Patches
<1>3. CASE c = "is_active"  BY <1>2, <1>3 DEF ConfigRow, ConfigColumns
<1>4. CASE c = "model_type"  BY <1>2, <1>4 DEF ConfigRow, ConfigColumns
<1>5. CASE c = "threshold_amount"  BY <1>2, <1>5 DEF ConfigRow, ConfigColumns
<1>6. CASE c = "surplus_percentage"  BY <1>2, <1>6 DEF ConfigRow, ConfigColumns
<1>7. CASE c = "tiers"  BY <1>2, <1>7 DEF ConfigRow, ConfigColumns
<1>8. CASE c = "reward_active"  BY <1>2, <1>8 DEF ConfigRow, ConfigColumns
<1>9. CASE c = "reward_mode"  BY <1>2, <1>9 DEF ConfigRow, ConfigColumns
<1>10. CASE c = "reward_milestones"  BY <1>2, <1>10 DEF ConfigRow, ConfigColumns
<1> QED  BY <1>1, <1>3, <1>4, <1>5, <1>6, <1>7, <1>8, <1>9, <1>10

\* validate() accepts good plans only, whatever was sent.
LEMMA ValidIsGood ==
  ASSUME NEW r \in ConfigRow, NEW columns, ValidPlan(r, columns)
  PROVE  GoodPlan(r)
BY DEF ValidPlan, GoodPlan, ConfigRow, ConfigColumns

\* A step of the sales leaves the plan alone, and no request becomes one that saves it.
LEMMA SaleStepKeepsPlans ==
  ASSUME PlansInv, SaleStep
  PROVE  PlansInv'
<1>1. ASSUME UNCHANGED <<config, job>> PROVE PlansInv'
  BY <1>1 DEF PlansInv, At, GoodPlan
<1>2. ASSUME NEW w \in Workers, NEW s, NEW merged, LoadSale(w, s, merged) PROVE PlansInv'
  BY <1>2 DEF LoadSale, PlansInv, At, GoodPlan
<1>3. ASSUME NEW w \in Workers, SaveSale(w) PROVE PlansInv'
  BY <1>3 DEF SaveSale, Done, PlansInv, At, GoodPlan
<1> QED  BY <1>1, <1>2, <1>3 DEF SaleStep, CreateSale, DestroySale, BulkSave

LEMMA PlansInvHolds == Spec => []PlansInv
<1>1. Init => PlansInv  BY DEF Init, PlansInv, At
<1>2. PlansInv /\ [Next]_vars => PlansInv'
  <2> SUFFICES ASSUME PlansInv, [Next]_vars PROVE PlansInv'  OBVIOUS
  <2>1. CASE UNCHANGED vars  BY <2>1 DEF vars, PlansInv, At, GoodPlan
  <2>2. ASSUME NEW sent \in ConfigRow, CreateConfig(sent) PROVE PlansInv'
    <3>1. GoodPlan(sent)  BY <2>2, ValidIsGood DEF CreateConfig
    <3> QED  BY <2>2, <3>1 DEF CreateConfig, PlansInv, At, GoodPlan
  <2>3. ASSUME config # Absent, NEW w \in Workers, NEW merged \in Patches(config, ConfigColumns),
               LoadConfig(w, merged)
        PROVE  PlansInv'
    <3>1. merged \in ConfigRow  BY <2>3, PatchedPlan DEF PlansInv, GoodPlan
    <3>2. GoodPlan(merged)  BY <2>3, <3>1, ValidIsGood DEF LoadConfig
    <3>3. job'[w].row = merged /\ \A v \in Workers \ {w} : job'[v] = job[v]
      BY <2>3 DEF LoadConfig, PlansInv
    <3>4. config' = config /\ job' = [v \in Workers |-> job'[v]]
      BY <2>3 DEF LoadConfig, PlansInv
    <3>5. config' # Absent => GoodPlan(config)  BY <3>4 DEF PlansInv
    <3>6. \A v \in Workers : At(v, "save_config")' => GoodPlan(job'[v].row)
      BY <3>2, <3>3 DEF PlansInv, At
    <3> QED  BY <3>4, <3>5, <3>6 DEF PlansInv, GoodPlan
  <2>4. ASSUME NEW w \in Workers, SaveConfig(w) PROVE PlansInv'
    BY <2>4 DEF SaveConfig, Done, PlansInv, At, GoodPlan
  <2>5. CASE DestroyConfig  BY <2>5 DEF DestroyConfig, PlansInv, At, GoodPlan
  <2>6. ASSUME NEW w \in Workers, Rollback(w) PROVE PlansInv'
    BY <2>6 DEF Rollback, Done, PlansInv, At, GoodPlan
  <2> QED  BY <2>1, <2>2, <2>3, <2>4, <2>5, <2>6, SaleStepKeepsPlans DEF Next, ConfigStep
<1> QED  BY <1>1, <1>2, PTL DEF Spec

\* The plan in force was validated as a whole, though every PATCH sends one column of it
\* and two of them may overlap.
THEOREM PlansValidHolds == Spec => []PlansValid
<1>1. PlansInv => PlansValid  BY DEF PlansInv, PlansValid, GoodPlan
<1> QED  BY <1>1, PlansInvHolds, PTL

-----------------------------------------------------------------------------
\* A row of a day that exists, with the amount that was sold on it.
GoodDay(r) ==
  r \in SaleRow /\ r.amount >= 0 /\ r.shamsi_day \in 1 .. MaxDays(r.shamsi_month)

\* The largest day that is accepted is a number.
LEMMA MaxDaysType ==
  ASSUME NEW m \in Months
  PROVE  MaxDays(m) \in Int
BY CommissionsAssumption DEF MaxDays

\* No day is recorded twice.
OnePerDay ==
  \A s, t \in SaleIds : s # t /\ sale[s] # Absent /\ sale[t] # Absent => ~SameDay(sale[s], sale[t])

\* The recorded days exist, and so do those that requests are about to save; that these
\* are new is tested when they are saved.
DaysInv ==
  /\ sale = [s \in SaleIds |-> sale[s]]
  /\ job = [w \in Workers |-> job[w]]
  /\ \A s \in SaleIds : sale[s] # Absent => GoodDay(sale[s])
  /\ OnePerDay
  /\ \A w \in Workers : At(w, "save_sale") => job[w].id \in SaleIds /\ GoodDay(job[w].row)

\* A PATCH of one column leaves a row with all its columns.
LEMMA PatchedDay ==
  ASSUME NEW r \in SaleRow, NEW merged \in Patches(r, SaleColumns)
  PROVE  merged \in SaleRow
<1>1. DOMAIN SaleColumns = {"shamsi_month", "shamsi_day", "amount"}  BY DEF SaleColumns
<1>2. PICK c \in DOMAIN SaleColumns : \E v \in SaleColumns[c] : merged = [r EXCEPT ![c] = v]
  BY DEF Patches
<1>3. CASE c = "shamsi_month"  BY <1>2, <1>3 DEF SaleRow, SaleColumns
<1>4. CASE c = "shamsi_day"  BY <1>2, <1>4 DEF SaleRow, SaleColumns
<1>5. CASE c = "amount"  BY <1>2, <1>5 DEF SaleRow, SaleColumns
<1> QED  BY <1>1, <1>3, <1>4, <1>5

\* One row that is new to its day, written under any key, keeps the table sound.
LEMMA OneDay ==
  ASSUME DaysInv, NEW s \in SaleIds, NEW r, GoodDay(r), Unique(s, r),
         sale' = [sale EXCEPT ![s] = r],
         job' = [w \in Workers |-> job'[w]],
         \A w \in Workers : job'[w] = job[w] \/ job'[w] = Idle
  PROVE  DaysInv'
<1>1. sale'[s] = r /\ \A t \in SaleIds \ {s} : sale'[t] = sale[t]  BY DEF DaysInv
<1>2. OnePerDay'
  <2> SUFFICES ASSUME NEW t \in SaleIds, NEW u \in SaleIds, t # u,
                      sale'[t] # Absent, sale'[u] # Absent
               PROVE  ~SameDay(sale'[t], sale'[u])
    BY DEF OnePerDay
  <2>1. CASE t = s  BY <2>1, <1>1 DEF Unique, SameDay
  <2>2. CASE u = s  BY <2>2, <1>1 DEF Unique, SameDay
  <2>3. CASE t # s /\ u # s  BY <2>3, <1>1 DEF DaysInv, OnePerDay
  <2> QED  BY <2>1, <2>2, <2>3
<1> QED  BY <1>1, <1>2 DEF DaysInv, At, GoodDay

\* bulk-save keeps it sound: the days it writes differ, and each goes to the row of that
\* day or to a new one.
LEMMA BulkSaveKeepsDays ==
  ASSUME DaysInv, NEW m \in Months, NEW days \in SUBSET DayInputs,
         NEW amount \in [days -> Amounts], BulkSave(m, amount)
  PROVE  DaysInv'
<1> DEFINE Row(d) == [shamsi_month |-> m, shamsi_day |-> d, amount |-> amount[d]]
<1>1. PICK key \in [days -> SaleIds] :
        /\ \A d, e \in days : key[d] = key[e] => d = e
        /\ \A d \in days :
             IF sale[key[d]] = Absent THEN FreshSale(key[d]) /\ Unique(key[d], Row(d))
             ELSE SameDay(sale[key[d]], Row(d))
        /\ sale' = [s \in SaleIds |->
             IF \E d \in days : key[d] = s THEN Row(CHOOSE d \in days : key[d] = s) ELSE sale[s]]
  BY DEF BulkSave
<1>2. \A d \in days : GoodDay(Row(d))  BY DEF BulkSave, ValidBulk, GoodDay, SaleRow
<1>3. \A d \in days : Row(d).shamsi_month = m /\ Row(d).shamsi_day = d  OBVIOUS
<1> HIDE DEF Row
<1>4. ASSUME NEW d \in days PROVE sale'[key[d]] = Row(d)
  <2>1. (CHOOSE e \in days : key[e] = key[d]) = d  BY <1>1
  <2> QED  BY <1>1, <2>1
<1>5. \A s \in SaleIds : (\A d \in days : key[d] # s) => sale'[s] = sale[s]  BY <1>1
<1>6. ASSUME NEW d \in days, NEW t \in SaleIds, t # key[d], sale[t] # Absent
      PROVE  ~SameDay(sale[t], Row(d))
  <2>1. CASE sale[key[d]] = Absent  BY <2>1, <1>1, <1>6 DEF Unique
  <2>2. CASE sale[key[d]] # Absent
    <3>1. SameDay(sale[key[d]], Row(d))  BY <2>2, <1>1
    <3>2. ~SameDay(sale[t], sale[key[d]])  BY <2>2, <1>6 DEF DaysInv, OnePerDay
    <3> QED  BY <3>1, <3>2 DEF SameDay
  <2> QED  BY <2>1, <2>2
<1>7. OnePerDay'
  <2> SUFFICES ASSUME NEW s \in SaleIds, NEW t \in SaleIds, s # t,
                      sale'[s] # Absent, sale'[t] # Absent
               PROVE  ~SameDay(sale'[s], sale'[t])
    BY DEF OnePerDay
  <2>1. ASSUME NEW d \in days, NEW e \in days, s = key[d], t = key[e]
        PROVE  ~SameDay(sale'[s], sale'[t])
    BY <2>1, <1>3, <1>4 DEF SameDay
  <2>2. ASSUME NEW d \in days, s = key[d], \A e \in days : key[e] # t
        PROVE  ~SameDay(sale'[s], sale'[t])
    BY <2>2, <1>4, <1>5, <1>6 DEF SameDay
  <2>3. ASSUME NEW d \in days, t = key[d], \A e \in days : key[e] # s
        PROVE  ~SameDay(sale'[s], sale'[t])
    BY <2>3, <1>4, <1>5, <1>6 DEF SameDay
  <2>4. ASSUME \A d \in days : key[d] # s /\ key[d] # t
        PROVE  ~SameDay(sale'[s], sale'[t])
    BY <2>4, <1>5 DEF DaysInv, OnePerDay
  <2> QED  BY <2>1, <2>2, <2>3, <2>4
<1>8. \A s \in SaleIds : sale'[s] # Absent => GoodDay(sale'[s])
  BY <1>2, <1>4, <1>5 DEF DaysInv
<1>9. sale' = [s \in SaleIds |-> sale'[s]] /\ job' = job  BY <1>1 DEF BulkSave
<1> QED  BY <1>7, <1>8, <1>9 DEF DaysInv, At

LEMMA DaysInvHolds == Spec => []DaysInv
<1>1. Init => DaysInv  BY DEF Init, DaysInv, OnePerDay, At
<1>2. DaysInv /\ [Next]_vars => DaysInv'
  <2> SUFFICES ASSUME DaysInv, [Next]_vars PROVE DaysInv'  OBVIOUS
  <2>1. ASSUME NEW w \in Workers, NEW j, UNCHANGED sale, job' = [job EXCEPT ![w] = j],
               j = Idle \/ j.next # "save_sale" \/ (j.id \in SaleIds /\ GoodDay(j.row))
        PROVE  DaysInv'
    BY <2>1 DEF DaysInv, OnePerDay, At
  <2>2. CASE UNCHANGED <<sale, job>>  BY <2>2 DEF DaysInv, OnePerDay, At
  <2>3. CASE ConfigStep
    <3>1. ASSUME NEW w \in Workers, NEW merged, LoadConfig(w, merged) PROVE DaysInv'
      BY <3>1, <2>1 DEF LoadConfig
    <3>2. ASSUME NEW w \in Workers, SaveConfig(w) PROVE DaysInv'
      BY <3>2, <2>1 DEF SaveConfig, Done
    <3> QED  BY <2>3, <3>1, <3>2, <2>2 DEF ConfigStep, CreateConfig, DestroyConfig
  <2>4. ASSUME NEW s \in SaleIds, NEW sent \in SaleRow, CreateSale(s, sent) PROVE DaysInv'
    <3>1. GoodDay(sent) /\ Unique(s, sent)  BY <2>4 DEF CreateSale, ValidDay, GoodDay
    <3>2. job' = job  BY <2>4 DEF CreateSale
    <3> QED  BY <2>4, <3>1, <3>2, OneDay DEF CreateSale, DaysInv
  <2>5. ASSUME NEW s \in SaleIds, sale[s] # Absent, NEW w \in Workers,
               NEW merged \in Patches(sale[s], SaleColumns), LoadSale(w, s, merged)
        PROVE  DaysInv'
    <3>1. merged \in SaleRow  BY <2>5, PatchedDay DEF DaysInv, GoodDay
    <3>2. GoodDay(merged)  BY <2>5, <3>1 DEF LoadSale, ValidDay, GoodDay
    <3> QED  BY <2>5, <3>2, <2>1 DEF LoadSale
  <2>6. ASSUME NEW w \in Workers, SaveSale(w) PROVE DaysInv'
    <3> PICK s, r : s = job[w].id /\ r = job[w].row  OBVIOUS
    <3>1. s \in SaleIds /\ GoodDay(r) /\ Unique(s, r) /\ sale' = [sale EXCEPT ![s] = r]
      BY <2>6 DEF SaveSale, DaysInv
    <3>2. /\ job' = [v \in Workers |-> job'[v]]
          /\ \A v \in Workers : job'[v] = job[v] \/ job'[v] = Idle
      BY <2>6 DEF SaveSale, Done, DaysInv
    <3> QED  BY <3>1, <3>2, OneDay
  <2>7. ASSUME NEW s \in SaleIds, DestroySale(s) PROVE DaysInv'
    BY <2>7 DEF DestroySale, DaysInv, OnePerDay, At
  <2>8. CASE SaleStep
    BY <2>8, <2>4, <2>5, <2>6, <2>7, BulkSaveKeepsDays DEF SaleStep
  <2>9. ASSUME NEW w \in Workers, Rollback(w) PROVE DaysInv'
    BY <2>9, <2>1 DEF Rollback, Done
  <2> QED  BY <2>2, <2>3, <2>8, <2>9 DEF Next, vars
<1> QED  BY <1>1, <1>2, PTL DEF Spec

\* Month and day are patched one at a time and bulk-save writes many rows, but the days
\* on record exist, each once.
THEOREM DaysExistHolds == Spec => []DaysExist
<1>1. ASSUME DaysInv, NEW s \in SaleIds, sale[s] # Absent
      PROVE  /\ sale[s].shamsi_day <= IF sale[s].shamsi_month \in Uncounted THEN 31
                                       ELSE DaysInMonth[sale[s].shamsi_month]
             /\ Unique(s, sale[s])
  <2>1. GoodDay(sale[s])  BY <1>1 DEF DaysInv
  <2>2. sale[s].shamsi_day <= MaxDays(sale[s].shamsi_month)
    BY <2>1, MaxDaysType DEF GoodDay, SaleRow
  <2>3. Unique(s, sale[s])  BY <1>1 DEF Unique, DaysInv, OnePerDay
  <2> QED  BY <2>2, <2>3 DEF MaxDays
<1>2. DaysInv => DaysExist  BY <1>1 DEF DaysExist
<1> QED  BY <1>2, DaysInvHolds, PTL

-----------------------------------------------------------------------------
(* The calculation *)

\* The sums of the calculation are sums over finite sets.
LEMMA TieredIs ==
  ASSUME NEW total, NEW tiers, IsFiniteSet(DOMAIN tiers)
  PROVE  Tiered(total, tiers)
           = Total(DOMAIN tiers, [i \in DOMAIN tiers |-> TierPart(total, tiers[i])])
<1> DEFINE S == DOMAIN tiers
           a == [i \in S |-> TierPart(total, tiers[i])]
           iter == CHOOSE g : g = [s \in SUBSET S |-> IF s = {} THEN 0
                     ELSE TierPart(total, tiers[CHOOSE x \in s : TRUE]) + g[s \ {CHOOSE x \in s : TRUE}]]
<1>1. Tiered(total, tiers) = iter[S]  BY DEF Tiered, MapThenSumSet, MapThenFoldSet
<1>2. PICK h : Sums(h, S, a)  BY SumsExist
<1>3. \A s \in SUBSET S : s # {} => a[Some(s)] = TierPart(total, tiers[CHOOSE x \in s : TRUE])
  BY SomeIn DEF Some
<1>4. h = [s \in SUBSET S |-> IF s = {} THEN 0
             ELSE TierPart(total, tiers[CHOOSE x \in s : TRUE]) + h[s \ {CHOOSE x \in s : TRUE}]]
  BY <1>2, <1>3 DEF Sums, Some
<1>5. iter = [s \in SUBSET S |-> IF s = {} THEN 0
                ELSE TierPart(total, tiers[CHOOSE x \in s : TRUE]) + iter[s \ {CHOOSE x \in s : TRUE}]]
  BY <1>4, Zenon
<1> HIDE DEF iter
<1>6. Sums(iter, S, a)  BY <1>3, <1>5 DEF Sums, Some
<1> QED  BY <1>1, <1>6, TotalIs

LEMMA RewardsAre ==
  ASSUME NEW milestones, NEW S, IsFiniteSet(S)
  PROVE  MapThenSumSet(LAMBDA i : 100 * milestones[i].reward_amount, S)
           = Total(S, [i \in S |-> 100 * milestones[i].reward_amount])
<1> DEFINE a == [i \in S |-> 100 * milestones[i].reward_amount]
           F(g) == [s \in SUBSET S |-> IF s = {} THEN 0
                      ELSE 100 * milestones[CHOOSE x \in s : TRUE].reward_amount
                             + g[s \ {CHOOSE x \in s : TRUE}]]
           iter == CHOOSE g : g = F(g)
<1>1. MapThenSumSet(LAMBDA i : 100 * milestones[i].reward_amount, S) = iter[S]
  BY DEF MapThenSumSet, MapThenFoldSet
<1>2. PICK h : Sums(h, S, a)  BY SumsExist
<1>3. \A s \in SUBSET S :
        s # {} => a[Some(s)] = 100 * milestones[CHOOSE x \in s : TRUE].reward_amount
  BY SomeIn DEF Some
<1>4. h = F(h)
  <2>1. h = [s \in SUBSET S |-> IF s = {} THEN 0 ELSE a[Some(s)] + h[s \ {Some(s)}]]
    BY <1>2 DEF Sums
  <2>2. \A s \in SUBSET S : s # {} =>
          a[Some(s)] + h[s \ {Some(s)}]
            = 100 * milestones[CHOOSE x \in s : TRUE].reward_amount
                + h[s \ {CHOOSE x \in s : TRUE}]
    BY <1>3 DEF Some
  <2> HIDE DEF a
  <2> QED  BY <2>1, <2>2
<1> HIDE DEF F
<1>5. iter = F(iter)  BY <1>4, Zenon
<1> HIDE DEF iter
<1>6. Sums(iter, S, a)  BY <1>3, <1>5 DEF F, Sums, Some
<1> QED  BY <1>1, <1>6, TotalIs

LEMMA MonthTotalIs ==
  ASSUME NEW m, IsFiniteSet(Rows(m))
  PROVE  MonthTotal(m) = Total(Rows(m), [s \in Rows(m) |-> sale[s].amount])
<1> DEFINE S == Rows(m)
           a == [s \in S |-> sale[s].amount]
           iter == CHOOSE g : g = [s \in SUBSET S |-> IF s = {} THEN 0
                     ELSE sale[CHOOSE x \in s : TRUE].amount + g[s \ {CHOOSE x \in s : TRUE}]]
<1>1. MonthTotal(m) = iter[S]  BY DEF MonthTotal, MapThenSumSet, MapThenFoldSet
<1>2. PICK h : Sums(h, S, a)  BY SumsExist
<1>3. \A s \in SUBSET S : s # {} => a[Some(s)] = sale[CHOOSE x \in s : TRUE].amount
  BY SomeIn DEF Some
<1>4. h = [s \in SUBSET S |-> IF s = {} THEN 0
             ELSE sale[CHOOSE x \in s : TRUE].amount + h[s \ {CHOOSE x \in s : TRUE}]]
  BY <1>2, <1>3 DEF Sums, Some
<1>5. iter = [s \in SUBSET S |-> IF s = {} THEN 0
                ELSE sale[CHOOSE x \in s : TRUE].amount + iter[s \ {CHOOSE x \in s : TRUE}]]
  BY <1>4, Zenon
<1> HIDE DEF iter
<1>6. Sums(iter, S, a)  BY <1>3, <1>5 DEF Sums, Some
<1> QED  BY <1>1, <1>6, TotalIs

\* A tier that follows another one or is the last.
GoodTier(tier) ==
  /\ tier.from_amount \in Nat /\ tier.percentage \in Nat
  /\ tier.to_amount # Unlimited => tier.to_amount \in Int /\ tier.from_amount < tier.to_amount

\* The tiers of a stored plan that follow one another.
LEMMA StoredTiers ==
  ASSUME PlansInv, config # Absent, config.model_type # "THRESHOLD_SURPLUS",
         Consecutive(config.tiers)
  PROVE  /\ IsFiniteSet(DOMAIN config.tiers)
         /\ \A i \in DOMAIN config.tiers : GoodTier(config.tiers[i])
<1>1. PICK tiers : tiers = config.tiers  OBVIOUS
<1>2. tiers \in TierLists  BY <1>1 DEF PlansInv, GoodPlan, ConfigRow
<1>3. /\ Len(tiers) \in Nat /\ DOMAIN tiers = 1 .. Len(tiers)
      /\ \A i \in DOMAIN tiers : /\ tiers[i].from_amount \in Int /\ tiers[i].percentage \in Int
                                 /\ tiers[i].to_amount \in Int \cup {Unlimited}
  BY <1>2, CommissionsAssumption
<1>4. \A i \in DOMAIN tiers : tiers[i].from_amount >= 0 /\ tiers[i].percentage \in 0 .. 100
  BY <1>1 DEF PlansInv, GoodPlan
<1>5. ASSUME NEW i \in DOMAIN tiers, tiers[i].to_amount # Unlimited
      PROVE  tiers[i].to_amount \in Int /\ tiers[i].from_amount < tiers[i].to_amount
  BY <1>1, <1>3, <1>5 DEF Consecutive
<1>6. IsFiniteSet(1 .. Len(tiers))  BY <1>3, FS_Interval
<1>7. ASSUME NEW i \in DOMAIN tiers PROVE GoodTier(tiers[i])
  <2>1. tiers[i].from_amount \in Int  BY <1>3, Zenon
  <2>2. tiers[i].from_amount >= 0 /\ tiers[i].percentage \in 0 .. 100  BY <1>4, Zenon
  <2>3. tiers[i].from_amount \in Nat /\ tiers[i].percentage \in Nat  BY <2>1, <2>2
  <2> QED  BY <1>5, <2>3 DEF GoodTier
<1> QED  BY <1>1, <1>3, <1>6, <1>7

\* More of something at the same price costs more.
LEMMA ProductGrows ==
  ASSUME NEW a \in Nat, NEW b \in Nat, a <= b, NEW p \in Nat
  PROVE  a * p \in Nat /\ b * p \in Nat /\ a * p <= b * p
<1>1. PICK d \in Nat : b = a + d
  <2>1. b - a \in Nat /\ b = a + (b - a)  OBVIOUS
  <2> QED  BY <2>1
<1>2. a * p \in Nat /\ d * p \in Nat  OBVIOUS
<1>3. b * p = a * p + d * p  BY <1>1
<1> QED  BY <1>2, <1>3

LEMMA OneMore ==
  ASSUME NEW k \in Int, NEW p \in Int
  PROVE  (k + 1) * p = k * p + p
OBVIOUS

\* A tier pays more for more, and for one unit more the rate, if the unit lies in it.
LEMMA TierPartGrows ==
  ASSUME NEW tier, GoodTier(tier), NEW s \in Int, NEW t \in Int, s <= t
  PROVE  /\ TierPart(s, tier) \in Nat /\ TierPart(t, tier) \in Nat
         /\ TierPart(s, tier) <= TierPart(t, tier)
<1> DEFINE Covered(u) == IF u <= tier.from_amount THEN 0
                         ELSE IF tier.to_amount = Unlimited \/ u <= tier.to_amount
                         THEN u - tier.from_amount ELSE tier.to_amount - tier.from_amount
<1>1. ASSUME NEW u \in Int PROVE Covered(u) \in Nat /\ TierPart(u, tier) = Covered(u) * tier.percentage
  <2>1. Covered(u) \in Nat  BY DEF GoodTier
  <2>2. 0 * tier.percentage = 0  BY DEF GoodTier
  <2> QED  BY <2>1, <2>2 DEF TierPart
<1>2. Covered(s) <= Covered(t)  BY DEF GoodTier
<1>3. tier.percentage \in Nat  BY DEF GoodTier
<1> HIDE DEF Covered
<1> QED  BY <1>1, <1>2, <1>3, ProductGrows

LEMMA TierPartUnit ==
  ASSUME NEW tier, GoodTier(tier), NEW n \in Nat
  PROVE  TierPart(n + 1, tier)
           = TierPart(n, tier)
             + IF tier.from_amount < n + 1 /\ (tier.to_amount = Unlimited \/ n + 1 <= tier.to_amount)
               THEN tier.percentage ELSE 0
<1>1. PICK from, p : from = tier.from_amount /\ p = tier.percentage /\ from \in Nat /\ p \in Nat
  BY DEF GoodTier
<1>3. CASE n < from
  BY <1>1, <1>3 DEF TierPart
<1>4. CASE n >= from /\ (tier.to_amount = Unlimited \/ n + 1 <= tier.to_amount)
  <2>1. TierPart(n + 1, tier) = (n + 1 - from) * p  BY <1>1, <1>4 DEF TierPart
  <2>2. TierPart(n, tier) = (n - from) * p  BY <1>1, <1>4 DEF TierPart, GoodTier
  <2>3. (n - from + 1) * p = (n - from) * p + p  BY <1>1, OneMore
  <2>4. n + 1 - from = n - from + 1  BY <1>1
  <2> QED  BY <1>1, <1>4, <2>1, <2>2, <2>3, <2>4
<1>5. CASE n >= from /\ tier.to_amount # Unlimited /\ n + 1 > tier.to_amount
  <2>1. tier.to_amount \in Int /\ from < tier.to_amount  BY <1>1, <1>5 DEF GoodTier
  <2>2. TierPart(n + 1, tier) = (tier.to_amount - from) * p  BY <1>1, <1>5, <2>1 DEF TierPart
  <2>3. TierPart(n, tier) = (tier.to_amount - from) * p
    <3>1. n = tier.to_amount \/ n > tier.to_amount  BY <1>5, <2>1
    <3> QED  BY <1>1, <1>5, <2>1, <3>1 DEF TierPart
  <2>4. (tier.to_amount - from) * p \in Int  BY <1>1, <2>1
  <2> QED  BY <1>5, <2>1, <2>2, <2>3, <2>4
<1> QED  BY <1>1, <1>3, <1>4, <1>5 DEF GoodTier

\* So do all the tiers together.
LEMMA TieredGrows ==
  ASSUME NEW tiers, IsFiniteSet(DOMAIN tiers), \A i \in DOMAIN tiers : GoodTier(tiers[i]),
         NEW s \in Int, NEW t \in Int, s <= t
  PROVE  /\ Tiered(s, tiers) \in Nat /\ Tiered(t, tiers) \in Nat
         /\ Tiered(s, tiers) <= Tiered(t, tiers)
<1> DEFINE I == DOMAIN tiers
           a == [i \in I |-> TierPart(s, tiers[i])]
           b == [i \in I |-> TierPart(t, tiers[i])]
<1>1. Tiered(s, tiers) = Total(I, a) /\ Tiered(t, tiers) = Total(I, b)  BY TieredIs
<1>2. \A i \in I : a[i] \in Nat /\ b[i] \in Nat /\ a[i] <= b[i]  BY TierPartGrows
<1>3. IsFiniteSet(I)  OBVIOUS
<1> HIDE DEF I, a, b
<1>4. Total(I, a) \in Nat /\ Total(I, b) \in Nat  BY <1>2, <1>3, TotalType
<1>5. Total(I, a) <= Total(I, b)  BY <1>2, <1>3, TotalGrows
<1> QED  BY <1>1, <1>4, <1>5

\* The achieved milestones sorted by target have a last one.
Last(i, S, milestones) ==
  i \in S /\ \A j \in S : \/ milestones[j].target_amount < milestones[i].target_amount
                          \/ milestones[j].target_amount = milestones[i].target_amount /\ j <= i

LEMMA LastExists ==
  ASSUME NEW milestones, NEW S, IsFiniteSet(S), S # {}, S \subseteq Int,
         \A i \in S : milestones[i].target_amount \in Int
  PROVE  \E i \in S : Last(i, S, milestones)
<1> DEFINE G == {s \in SUBSET S : s # {} => \E i \in s : Last(i, s, milestones)}
<1>1. ASSUME NEW s \in SUBSET S, \A u \in SUBSET s : u # s => u \in G
      PROVE  s \in G
  <2> SUFFICES ASSUME s # {} PROVE \E i \in s : Last(i, s, milestones)  OBVIOUS
  <2>1. PICK y \in s : TRUE  OBVIOUS
  <2>2. PICK R : R = s \ {y}  OBVIOUS
  <2>3. y \in Int /\ milestones[y].target_amount \in Int  OBVIOUS
  <2>4. CASE R = {}
    <3>1. Last(y, s, milestones)  BY <2>1, <2>2, <2>3, <2>4 DEF Last
    <3> QED  BY <3>1
  <2>5. CASE R # {}
    <3>1. R \in G  BY <1>1, <2>1, <2>2
    <3>2. PICK i \in R : Last(i, R, milestones)  BY <2>5, <3>1
    <3>3. i \in s /\ i \in Int /\ milestones[i].target_amount \in Int  BY <2>2
    <3>4. \A j \in s : j \in Int /\ milestones[j].target_amount \in Int  OBVIOUS
    <3>5. CASE \/ milestones[y].target_amount < milestones[i].target_amount
               \/ milestones[y].target_amount = milestones[i].target_amount /\ y <= i
      <4>1. Last(i, s, milestones)  BY <2>2, <3>2, <3>3, <3>5 DEF Last
      <4> QED  BY <3>3, <4>1
    <3>6. CASE \/ milestones[i].target_amount < milestones[y].target_amount
               \/ milestones[i].target_amount = milestones[y].target_amount /\ i <= y
      <4>1. ASSUME NEW j \in s
            PROVE  \/ milestones[j].target_amount < milestones[y].target_amount
                   \/ milestones[j].target_amount = milestones[y].target_amount /\ j <= y
        <5>1. CASE j = y  BY <2>3, <5>1
        <5>2. CASE j # y
          <6>1. j \in R  BY <2>2, <5>2
          <6>2. \/ milestones[j].target_amount < milestones[i].target_amount
                \/ milestones[j].target_amount = milestones[i].target_amount /\ j <= i
            BY <3>2, <6>1 DEF Last
          <6> QED  BY <2>3, <3>3, <3>4, <3>6, <6>2
        <5> QED  BY <5>1, <5>2
      <4>2. Last(y, s, milestones)  BY <2>1, <4>1 DEF Last
      <4> QED  BY <4>2
    <3> QED  BY <2>3, <3>3, <3>5, <3>6
  <2> QED  BY <2>4, <2>5
<1> HIDE DEF G
<1>2. SUBSET S \subseteq G  BY <1>1, SubsetInduction
<1> QED  BY <1>2 DEF G

LEMMA HighestIsLast ==
  ASSUME NEW milestones, NEW S, IsFiniteSet(S), S # {}, S \subseteq Int,
         \A i \in S : milestones[i].target_amount \in Int
  PROVE  Last(Highest(S, milestones), S, milestones)
<1>1. \E i \in S : Last(i, S, milestones)  BY LastExists
<1>2. \E i \in S : \A j \in S :
        \/ milestones[j].target_amount < milestones[i].target_amount
        \/ milestones[j].target_amount = milestones[i].target_amount /\ j <= i
  BY <1>1 DEF Last
<1>3. PICK h : h = Highest(S, milestones)  OBVIOUS
<1>4. h \in S /\ \A j \in S :
        \/ milestones[j].target_amount < milestones[h].target_amount
        \/ milestones[j].target_amount = milestones[h].target_amount /\ j <= h
  BY <1>2, <1>3, Zenon DEF Highest
<1> QED  BY <1>3, <1>4 DEF Last

\* The rewards do not fall either, if they do not fall with the targets.
LEMMA RewardGrows ==
  ASSUME NEW milestones, NEW n \in Nat, DOMAIN milestones = 1 .. n,
         \A i \in 1 .. n : /\ milestones[i].target_amount \in Int
                           /\ milestones[i].reward_amount \in Nat,
         Ascending(milestones), NEW mode, NEW s \in Int, NEW t \in Int, s <= t
  PROVE  /\ Reward(s, milestones, mode) \in Nat /\ Reward(t, milestones, mode) \in Nat
         /\ Reward(s, milestones, mode) <= Reward(t, milestones, mode)
<1> DEFINE reward(i) == milestones[i].reward_amount
           target(i) == milestones[i].target_amount
<1>1. PICK A, B : A = Achieved(s, milestones) /\ B = Achieved(t, milestones)  OBVIOUS
<1>2. A \subseteq B /\ B \subseteq 1 .. n
  <2>1. \A i \in 1 .. n : target(i) \in Int  OBVIOUS
  <2>2. A = {i \in 1 .. n : s >= target(i)} /\ B = {i \in 1 .. n : t >= target(i)}
    BY <1>1 DEF Achieved
  <2> HIDE DEF target
  <2> QED  BY <2>1, <2>2
<1>3. IsFiniteSet(A) /\ IsFiniteSet(B)
  <2>1. IsFiniteSet(1 .. n)  BY FS_Interval
  <2> QED  BY <1>2, <2>1, FS_Subset
<1>4. \A i \in B : i \in Int /\ target(i) \in Int /\ reward(i) \in Nat
  <2>1. \A i \in 1 .. n : i \in Int /\ target(i) \in Int /\ reward(i) \in Nat  OBVIOUS
  <2> HIDE DEF target, reward
  <2> QED  BY <1>2, <2>1
<1>5. PICK a, b : a = Highest(A, milestones) /\ b = Highest(B, milestones)  OBVIOUS
<1>6. A # {} => Last(a, A, milestones)  BY <1>2, <1>3, <1>4, <1>5, HighestIsLast
<1>7. B # {} => Last(b, B, milestones)  BY <1>3, <1>4, <1>5, HighestIsLast
<1>8. CASE mode = "CUMULATIVE"
  <2>1. PICK c : c = [i \in B |-> 100 * reward(i)]  OBVIOUS
  <2>2. PICK d : d = [i \in A |-> 100 * reward(i)]  OBVIOUS
  <2>3. \A i \in B : c[i] \in Nat  BY <1>4, <2>1
  <2>4. \A i \in A : d[i] = c[i]  BY <1>2, <2>1, <2>2
  <2>5. Total(A, d) = Total(A, c) /\ Total(A, c) <= Total(B, c)
    BY <1>2, <1>3, <2>3, <2>4, TotalAgrees, TotalOfPart
  <2>6. Total(A, c) \in Nat /\ Total(B, c) \in Nat  BY <1>2, <1>3, <2>3, TotalType
  <2>7. /\ Reward(s, milestones, mode) = IF A = {} THEN 0 ELSE Total(A, d)
        /\ Reward(t, milestones, mode) = IF B = {} THEN 0 ELSE Total(B, c)
    BY <1>1, <1>3, <1>8, <2>1, <2>2, RewardsAre DEF Reward
  <2>8. Total({}, c) = 0  BY TotalOfNothing
  <2> QED  BY <1>2, <2>5, <2>6, <2>7, <2>8
<1>9. CASE mode # "CUMULATIVE"
  <2>1. /\ Reward(s, milestones, mode) = IF A = {} THEN 0 ELSE 100 * reward(a)
        /\ Reward(t, milestones, mode) = IF B = {} THEN 0 ELSE 100 * reward(b)
    BY <1>1, <1>5, <1>9 DEF Reward
  <2>2. B # {} => reward(b) \in Nat  BY <1>4, <1>7 DEF Last
  <2>3. CASE A = {}  BY <2>1, <2>2, <2>3
  <2>4. CASE A # {}
    <3>1. a \in A /\ b \in B /\ target(a) \in Int /\ target(b) \in Int
      BY <1>2, <1>4, <1>6, <1>7, <2>4 DEF Last
    <3>2. target(a) <= target(b)  BY <1>2, <1>7, <3>1 DEF Last
    <3>3. reward(a) <= reward(b)  BY <1>2, <3>1, <3>2 DEF Ascending
    <3>4. reward(a) \in Nat /\ reward(b) \in Nat  BY <1>2, <1>4, <3>1
    <3>5. A # {} /\ B # {}  BY <3>1
    <3>6. PICK x, y : x = reward(a) /\ y = reward(b)  OBVIOUS
    <3>7. Reward(s, milestones, mode) = 100 * x /\ Reward(t, milestones, mode) = 100 * y
      BY <2>1, <3>5, <3>6
    <3>8. x \in Nat /\ y \in Nat /\ x <= y  BY <3>3, <3>4, <3>6
    <3>9. 100 * x \in Nat /\ 100 * y \in Nat /\ 100 * x <= 100 * y  BY <3>8
    <3> HIDE DEF reward
    <3> QED  BY <3>7, <3>9
  <2> QED  BY <2>3, <2>4
<1> QED  BY <1>8, <1>9

\* A month has as many rows as days, or fewer: its total is a sum.
LEMMA MonthTotalType ==
  ASSUME DaysInv, NEW m \in Months
  PROVE  MonthTotal(m) \in Nat
<1> DEFINE R == Rows(m)
           D == 1 .. MaxDays(m)
           day == [s \in R |-> sale[s].shamsi_day]
<1>1. \A s \in R : GoodDay(sale[s]) /\ sale[s].shamsi_month = m  BY DEF DaysInv, Rows
<1>2. \A s, t \in R : s # t => sale[s].shamsi_day # sale[t].shamsi_day
  BY <1>1 DEF DaysInv, OnePerDay, Rows, SameDay
<1>3. day \in Injection(R, D)
  <2>1. day \in [R -> D]  BY <1>1 DEF GoodDay
  <2>2. \A s, t \in R : day[s] = day[t] => s = t  BY <1>2
  <2> HIDE DEF day, R, D
  <2> QED  BY <2>1, <2>2 DEF Injection, IsInjective
<1>4. IsFiniteSet(D)
  <2>1. MaxDays(m) \in Int  BY MaxDaysType
  <2> QED  BY <2>1, FS_Interval
<1> HIDE DEF day, D
<1>5. IsFiniteSet(R)
  <2> HIDE DEF R
  <2> QED  BY <1>3, <1>4, FS_Injection
<1>6. ASSUME NEW s \in R PROVE sale[s].amount \in Nat
  <2>1. sale[s] \in SaleRow /\ sale[s].amount >= 0  BY <1>1 DEF GoodDay
  <2>2. sale[s].amount \in Amounts  BY <2>1 DEF SaleRow
  <2>3. Amounts \subseteq Int  BY CommissionsAssumption
  <2>4. sale[s].amount \in Int  BY <2>2, <2>3
  <2> QED  BY <2>1, <2>4
<1>7. PICK a : a = [s \in R |-> sale[s].amount]  OBVIOUS
<1>8. \A s \in R : a[s] \in Nat  BY <1>6, <1>7
<1>9. Total(R, a) \in Nat
  <2> HIDE DEF R
  <2> QED  BY <1>5, <1>8, TotalType
<1> QED  BY <1>5, <1>7, <1>9, MonthTotalIs

\* The earnings under a plan that validate() has accepted.
LEMMA EarningsAreMore ==
  ASSUME PlansInv, config # Absent, config.model_type = "TIERED_FROM_BASE" => Consecutive(config.tiers),
         config.reward_active => Ascending(config.reward_milestones),
         NEW s \in Int, NEW t \in Int, s <= t
  PROVE  Earnings(config, s) <= Earnings(config, t)
<1>1. PICK tiers, milestones, threshold, p :
        /\ tiers = config.tiers /\ milestones = config.reward_milestones
        /\ threshold = config.threshold_amount /\ p = config.surplus_percentage
  OBVIOUS
<1>2. /\ config.model_type \in {"THRESHOLD_SURPLUS", "TIERED_FROM_BASE"}
      /\ milestones \in MilestoneLists /\ threshold \in Int
  BY <1>1, CommissionsAssumption DEF PlansInv, GoodPlan, ConfigRow, ConfigColumns
<1>3. /\ Commission(config, s) \in Nat /\ Commission(config, t) \in Nat
      /\ Commission(config, s) <= Commission(config, t)
  <2>1. CASE config.model_type = "THRESHOLD_SURPLUS"
    <3>1. p \in Nat
      <4>1. GoodPlan(config)  BY DEF PlansInv
      <4>2. config.surplus_percentage \in 0 .. 100  BY <2>1, <4>1 DEF GoodPlan
      <4> QED  BY <1>1, <4>2
    <3>2. /\ Commission(config, s) = Surplus(s, threshold, p)
          /\ Commission(config, t) = Surplus(t, threshold, p)
      BY <1>1, <2>1 DEF Commission
    <3>3. CASE t <= threshold  BY <1>2, <3>2, <3>3 DEF Surplus
    <3>4. CASE s <= threshold /\ t > threshold
      <4>1. (t - threshold) * p \in Nat
        <5>1. t - threshold \in Nat  BY <1>2, <3>4
        <5> QED  BY <3>1, <5>1
      <4> QED  BY <1>2, <3>2, <3>4, <4>1 DEF Surplus
    <3>5. CASE s > threshold
      <4>1. s - threshold \in Nat /\ t - threshold \in Nat /\ s - threshold <= t - threshold
        BY <1>2, <3>5
      <4>2. /\ (s - threshold) * p \in Nat /\ (t - threshold) * p \in Nat
            /\ (s - threshold) * p <= (t - threshold) * p
        BY <3>1, <4>1, ProductGrows
      <4> QED  BY <1>2, <3>2, <3>5, <4>2 DEF Surplus
    <3> QED  BY <1>2, <3>3, <3>4, <3>5
  <2>2. CASE config.model_type = "TIERED_FROM_BASE"
    <3>1. IsFiniteSet(DOMAIN tiers) /\ \A i \in DOMAIN tiers : GoodTier(tiers[i])
      BY <1>1, <2>2, StoredTiers
    <3>2. /\ Commission(config, s) = Tiered(s, tiers)
          /\ Commission(config, t) = Tiered(t, tiers)
      BY <1>1, <2>2 DEF Commission
    <3> QED  BY <3>1, <3>2, TieredGrows
  <2> QED  BY <1>2, <2>1, <2>2
<1>4. CASE config.reward_active
  <2>1. PICK n \in Nat : DOMAIN milestones = 1 .. n
    BY <1>2, CommissionsAssumption
  <2>2. ASSUME NEW i \in DOMAIN milestones
        PROVE  milestones[i].target_amount \in Int /\ milestones[i].reward_amount \in Nat
    <3>1. milestones[i].target_amount \in Int /\ milestones[i].reward_amount \in Int
      BY <1>2, CommissionsAssumption, Zenon
    <3>2. milestones[i].reward_amount >= 0  BY <1>1, <1>4 DEF PlansInv, GoodPlan
    <3> QED  BY <3>1, <3>2
  <2>3. \A i \in 1 .. n : milestones[i].target_amount \in Int /\ milestones[i].reward_amount \in Nat
    BY <2>1, <2>2
  <2>4. PICK mode : mode = config.reward_mode  OBVIOUS
  <2>5. /\ Reward(s, milestones, mode) \in Nat /\ Reward(t, milestones, mode) \in Nat
        /\ Reward(s, milestones, mode) <= Reward(t, milestones, mode)
    BY <1>1, <1>4, <2>1, <2>3, RewardGrows
  <2>6. \A u : Earnings(config, u)
                 = IF ~config.is_active THEN 0 ELSE Commission(config, u) + Reward(u, milestones, mode)
    BY <1>1, <1>4, <2>4 DEF Earnings
  <2> QED  BY <1>3, <2>5, <2>6
<1>5. CASE ~config.reward_active
  <2>1. \A u : Earnings(config, u) = IF ~config.is_active THEN 0 ELSE Commission(config, u) + 0
    BY <1>5 DEF Earnings
  <2> QED  BY <1>3, <2>1
<1> QED  BY <1>4, <1>5

\* Selling more never earns less, under any plan whose tiers follow one another and whose
\* rewards do not fall: whatever was patched before, by however many overlapping requests.
THEOREM EarningsGrowHolds == Spec => []EarningsGrow
<1>1. PlansInv /\ DaysInv => EarningsGrow
  <2> SUFFICES ASSUME PlansInv, DaysInv, config # Absent,
                      config.model_type = "TIERED_FROM_BASE" => Consecutive(config.tiers),
                      config.reward_active => Ascending(config.reward_milestones),
                      NEW m \in Months, NEW more \in 0 .. MaxTotal
               PROVE  Status(m, 0) <= Status(m, more)
    BY DEF EarningsGrow
  <2>1. PICK total, raised : total = MonthTotal(m) + 0 /\ raised = MonthTotal(m) + more  OBVIOUS
  <2>2. more \in Nat  BY CommissionsAssumption
  <2>3. total \in Int /\ raised \in Int /\ total <= raised  BY <2>1, <2>2, MonthTotalType
  <2>4. Earnings(config, total) <= Earnings(config, raised)  BY <2>3, EarningsAreMore
  <2> QED  BY <2>1, <2>4 DEF Status
<1> QED  BY <1>1, PlansInvHolds, DaysInvHolds, PTL

-----------------------------------------------------------------------------
(* The rate of every unit *)

\* The tiers that the u-th unit lies in.
Hit(tiers, u) ==
  {i \in DOMAIN tiers : tiers[i].from_amount < u
     /\ (tiers[i].to_amount = Unlimited \/ u <= tiers[i].to_amount)}

LEMMA UnitRateIs ==
  ASSUME NEW tiers, NEW u, IsFiniteSet(Hit(tiers, u))
  PROVE  UnitRate(tiers, u) = Total(Hit(tiers, u), [i \in Hit(tiers, u) |-> tiers[i].percentage])
<1> DEFINE S == Hit(tiers, u)
           a == [i \in S |-> tiers[i].percentage]
           F(g) == [s \in SUBSET S |-> IF s = {} THEN 0
                      ELSE tiers[CHOOSE x \in s : TRUE].percentage + g[s \ {CHOOSE x \in s : TRUE}]]
           iter == CHOOSE g : g = F(g)
<1>1. UnitRate(tiers, u) = iter[S]  BY DEF UnitRate, Hit, MapThenSumSet, MapThenFoldSet
<1>2. PICK h : Sums(h, S, a)  BY SumsExist
<1>3. \A s \in SUBSET S : s # {} => a[Some(s)] = tiers[CHOOSE x \in s : TRUE].percentage
  BY SomeIn DEF Some
<1>4. h = F(h)  BY <1>2, <1>3 DEF Sums, Some
<1> HIDE DEF F
<1>5. iter = F(iter)  BY <1>4, Zenon
<1> HIDE DEF iter
<1>6. Sums(iter, S, a)  BY <1>3, <1>5 DEF F, Sums, Some
<1> QED  BY <1>1, <1>6, TotalIs

LEMMA UnitsAre ==
  ASSUME NEW tiers, NEW S, IsFiniteSet(S)
  PROVE  MapThenSumSet(LAMBDA u : UnitRate(tiers, u), S) = Total(S, [u \in S |-> UnitRate(tiers, u)])
<1> DEFINE a == [u \in S |-> UnitRate(tiers, u)]
           F(g) == [s \in SUBSET S |-> IF s = {} THEN 0
                      ELSE UnitRate(tiers, CHOOSE x \in s : TRUE) + g[s \ {CHOOSE x \in s : TRUE}]]
           iter == CHOOSE g : g = F(g)
<1>1. MapThenSumSet(LAMBDA u : UnitRate(tiers, u), S) = iter[S]  BY DEF MapThenSumSet, MapThenFoldSet
<1>2. PICK h : Sums(h, S, a)  BY SumsExist
<1>3. \A s \in SUBSET S : s # {} => a[Some(s)] = UnitRate(tiers, CHOOSE x \in s : TRUE)
  BY SomeIn DEF Some
<1>4. h = F(h)  BY <1>2, <1>3 DEF Sums, Some
<1> HIDE DEF F
<1>5. iter = F(iter)  BY <1>4, Zenon
<1> HIDE DEF iter
<1>6. Sums(iter, S, a)  BY <1>3, <1>5 DEF F, Sums, Some
<1> QED  BY <1>1, <1>6, TotalIs

\* One unit more is paid at its rate.
LEMMA TieredUnit ==
  ASSUME NEW tiers, IsFiniteSet(DOMAIN tiers), \A i \in DOMAIN tiers : GoodTier(tiers[i]),
         NEW n \in Nat
  PROVE  /\ UnitRate(tiers, n + 1) \in Nat
         /\ Tiered(n + 1, tiers) = Tiered(n, tiers) + UnitRate(tiers, n + 1)
<1> DEFINE I == DOMAIN tiers
           H == Hit(tiers, n + 1)
           a == [i \in I |-> TierPart(n, tiers[i])]
           b == [i \in I |-> TierPart(n + 1, tiers[i])]
           d == [i \in I |-> IF i \in H THEN tiers[i].percentage ELSE 0]
           e == [i \in H |-> tiers[i].percentage]
<1>1. Tiered(n, tiers) = Total(I, a) /\ Tiered(n + 1, tiers) = Total(I, b)  BY TieredIs
<1>2. ASSUME NEW i \in I
      PROVE  a[i] \in Nat /\ d[i] \in Nat /\ b[i] = a[i] + d[i]
  <2>1. TierPart(n, tiers[i]) \in Nat  BY TierPartGrows
  <2>2. TierPart(n + 1, tiers[i]) = TierPart(n, tiers[i]) + d[i]  BY TierPartUnit DEF Hit
  <2>3. tiers[i].percentage \in Nat  BY DEF GoodTier
  <2> QED  BY <2>1, <2>2, <2>3
<1>3. IsFiniteSet(I) /\ H \in SUBSET I  BY DEF Hit
<1>4. IsFiniteSet(H)  BY <1>3, FS_Subset
<1>5. UnitRate(tiers, n + 1) = Total(H, e)  BY <1>4, UnitRateIs
<1>6. (\A i \in H : e[i] \in Nat) /\ \A i \in I : d[i] = IF i \in H THEN e[i] ELSE 0
  BY <1>3 DEF GoodTier
<1> HIDE DEF I, H, a, b, d, e
<1>7. Total(I, b) = Total(I, a) + Total(I, d)  BY <1>2, <1>3, TotalOfSums
<1>8. Total(I, d) = Total(H, e) /\ Total(H, e) \in Nat
  BY <1>3, <1>4, <1>6, TotalOfFilter, TotalType
<1> QED  BY <1>1, <1>5, <1>7, <1>8

\* Marginal tiers: every unit of money sold is paid at the rate of the tier it lies in and at
\* no other, up to any total, under any stored plan whose tiers follow one another.
THEOREM MarginalUnitsHold == Spec => []MarginalUnits
<1>1. PlansInv => MarginalUnits
  <2> SUFFICES ASSUME PlansInv, config # Absent, config.model_type = "TIERED_FROM_BASE",
                      Consecutive(config.tiers)
               PROVE  \A total \in 0 .. MaxTotal :
                        Tiered(total, config.tiers)
                          = MapThenSumSet(LAMBDA u : UnitRate(config.tiers, u), 1 .. total)
    BY DEF MarginalUnits
  <2>1. PICK tiers : tiers = config.tiers  OBVIOUS
  <2>2. IsFiniteSet(DOMAIN tiers) /\ \A i \in DOMAIN tiers : GoodTier(tiers[i])
    BY <2>1, StoredTiers
  <2> DEFINE Units(n) == [u \in 1 .. n |-> UnitRate(tiers, u)]
             G == {n \in 0 .. MaxTotal : Tiered(n, tiers) = Total(1 .. n, Units(n))}
  <2>3. MaxTotal \in Nat  BY CommissionsAssumption
  <2>4. 0 \in G
    <3>1. \A i \in DOMAIN tiers : TierPart(0, tiers[i]) = 0  BY <2>2 DEF GoodTier, TierPart
    <3>2. PICK a : a = [i \in DOMAIN tiers |-> TierPart(0, tiers[i])]  OBVIOUS
    <3>3. Tiered(0, tiers) = Total(DOMAIN tiers, a)  BY <2>2, <3>2, TieredIs
    <3>4. Total(DOMAIN tiers, a) = Total({}, a)
      <4>1. \A i \in DOMAIN tiers : a[i] = IF i \in {} THEN a[i] ELSE 0  BY <3>1, <3>2
      <4>2. \A i \in {} : a[i] \in Nat  OBVIOUS
      <4> QED  BY <2>2, <4>1, <4>2, TotalOfFilter
    <3>5. 1 .. 0 = {}  OBVIOUS
    <3>6. Total({}, a) = 0 /\ Total({}, Units(0)) = 0  BY TotalOfNothing
    <3> QED  BY <2>3, <3>3, <3>4, <3>5, <3>6
  <2>5. ASSUME NEW n \in 0 .. MaxTotal - 1, n \in G
        PROVE  n + 1 \in G
    <3>1. n \in Nat /\ n + 1 \in 0 .. MaxTotal  BY <2>3
    <3>2. PICK a, b, S, k : a = Units(n) /\ b = Units(n + 1) /\ S = 1 .. n /\ k = n + 1
      OBVIOUS
    <3>3. IsFiniteSet(S) /\ 1 .. k = S \cup {k} /\ k \notin S
      <4>1. IsFiniteSet(S)  BY <3>1, <3>2, FS_Interval
      <4>2. 1 .. k = S \cup {k} /\ k \notin S  BY <3>1, <3>2
      <4> QED  BY <4>1, <4>2
    <3>4. \A u \in 1 .. k : UnitRate(tiers, u) \in Nat
      <4> SUFFICES ASSUME NEW u \in 1 .. k PROVE UnitRate(tiers, u) \in Nat  OBVIOUS
      <4>1. u - 1 \in Nat /\ u - 1 + 1 = u  BY <3>1, <3>2
      <4>2. UnitRate(tiers, u - 1 + 1) \in Nat  BY <2>2, <4>1, TieredUnit
      <4> QED  BY <4>1, <4>2
    <3>5. /\ \A u \in S \cup {k} : b[u] \in Nat
          /\ \A u \in S : a[u] \in Nat /\ a[u] = b[u]
          /\ b[k] = UnitRate(tiers, k)
      BY <3>1, <3>2, <3>3, <3>4
    <3>6. Total(S \cup {k}, b) = b[k] + Total(S, a)
      <4> HIDE DEF Units, G
      <4>1. PICK T : T = S \cup {k}  OBVIOUS
      <4>2. \A u \in T : b[u] \in Nat  BY <3>5, <4>1
      <4>3. IsFiniteSet(T)  BY <3>3, <4>1, FS_AddElement
      <4>4. k \in T /\ T \ {k} = S  BY <3>3, <4>1
      <4>5. Total(T, b) = b[k] + Total(T \ {k}, b)  BY <4>2, <4>3, <4>4, TotalRemoves
      <4>6. Total(S, a) = Total(S, b)  BY <3>3, <3>5, TotalAgrees
      <4> QED  BY <4>1, <4>4, <4>5, <4>6
    <3>7. Tiered(k, tiers) = Tiered(n, tiers) + UnitRate(tiers, k)
      BY <2>2, <3>1, <3>2, TieredUnit
    <3>8. Tiered(n, tiers) = Total(S, a)  BY <2>5, <3>2
    <3>9. Total(S, a) \in Nat /\ b[k] \in Nat
      <4>1. b[k] \in Nat  BY <3>5
      <4>2. Total(S, a) \in Nat  BY <3>3, <3>5, TotalType
      <4> QED  BY <4>1, <4>2
    <3>10. Tiered(k, tiers) = Total(1 .. k, b)
      <4>1. Total(1 .. k, b) = Total(S \cup {k}, b)  BY <3>3
      <4>2. Total(S \cup {k}, b) = Total(S, a) + b[k]  BY <3>6, <3>9
      <4>3. Tiered(k, tiers) = Total(S, a) + b[k]  BY <3>5, <3>7, <3>8
      <4> QED  BY <4>1, <4>2, <4>3
    <3>11. Tiered(n + 1, tiers) = Total(1 .. (n + 1), Units(n + 1))  BY <3>2, <3>10
    <3> QED  BY <3>1, <3>11
  <2>6. 0 .. MaxTotal \subseteq G
    <3> HIDE DEF G
    <3> QED  BY <2>3, <2>4, <2>5, UpToInduction
  <2>7. ASSUME NEW total \in 0 .. MaxTotal
        PROVE  Tiered(total, config.tiers)
                 = MapThenSumSet(LAMBDA u : UnitRate(config.tiers, u), 1 .. total)
    <3>1. Tiered(total, tiers) = Total(1 .. total, Units(total))  BY <2>6
    <3>2. IsFiniteSet(1 .. total)  BY <2>3, FS_Interval
    <3>3. MapThenSumSet(LAMBDA u : UnitRate(config.tiers, u), 1 .. total)
            = Total(1 .. total, [u \in 1 .. total |-> UnitRate(config.tiers, u)])
      BY <3>2, UnitsAre
    <3>4. [u \in 1 .. total |-> UnitRate(config.tiers, u)] = Units(total)  BY <2>1
    <3> QED  BY <2>1, <3>1, <3>3, <3>4
  <2> QED  BY <2>7
<1> QED  BY <1>1, PlansInvHolds, PTL
=============================================================================
