----------------------- MODULE LiquidityMetrics_proofs -----------------------
(***************************************************************************)
(* For any expenses, payments, categories, amounts and dates: the pages    *)
(* agree, a payment leaves those behind it in the queue as they were, and  *)
(* waiting makes nothing look better.                                      *)
(*                                                                         *)
(* due_date, created_at and id order the stored expenses, so the unpaid    *)
(* ones of a category can be sorted, and the running sum over the sorted   *)
(* queue is the sum over those before an expense, which its own page asks  *)
(* for, and over those of the same due_date and created_at.                *)
(***************************************************************************)
EXTENDS LiquidityMetrics, FiniteSetsExt, FiniteSetTheorems, TLAPS

-----------------------------------------------------------------------------
(* Sums over finite sets.  The model adds up amounts with MapThenSumSet, which is
   defined by recursion over the subsets of a set.  The recursion defines a function and
   the sum does not depend on the order, by induction over those subsets; the induction
   is stated with a set G, not with an operator, so that it can be applied with
   G == {T \in SUBSET S : ...}. *)

\* The element that the recursion takes out of a set.
Some(s) == CHOOSE x \in s : TRUE

\* The sum of the amounts of the elements of S.
Total(S, amount) == MapThenSumSet(LAMBDA x : amount[x], S)

\* g has the sum of the amounts over every subset of S.
Sums(g, S, amount) ==
  g = [s \in SUBSET S |-> IF s = {} THEN 0 ELSE amount[Some(s)] + g[s \ {Some(s)}]]

\* Induction over the subsets of a finite set: G has every subset of S if it has each
\* whose proper subsets it has.
LEMMA SubsetInduction ==
  ASSUME NEW S, IsFiniteSet(S), NEW G,
         \A T \in SUBSET S : (\A U \in SUBSET T : U # T => U \in G) => T \in G
  PROVE  SUBSET S \subseteq G
  <1> DEFINE Bad == (SUBSET S) \ G
  <1> SUFFICES ASSUME Bad # {}
               PROVE  FALSE
    OBVIOUS
  <1>1. IsWellFoundedOn(StrictSubsetOrdering(S), SUBSET S)
    <2>1. FiniteSubsetsOf(S) = SUBSET S
      BY FS_FiniteSubsetsOfFinite
    <2>2. IsWellFoundedOn(StrictSubsetOrdering(S), FiniteSubsetsOf(S))
      BY FS_StrictSubsetOrderingWellFounded
    <2>3. QED
      BY <2>1, <2>2, Zenon
  <1>2. Bad \subseteq SUBSET S
    OBVIOUS
  <1> HIDE DEF Bad
  <1>3. PICK T \in Bad : \A U \in Bad : ~ (<<U, T>> \in StrictSubsetOrdering(S))
    <2> DEFINE R == StrictSubsetOrdering(S)
               D == SUBSET S
    <2>1. IsWellFoundedOn(R, D) /\ Bad \subseteq D
      BY <1>1, <1>2
    <2> HIDE DEF R, D
    <2>2. \E T \in Bad : \A U \in Bad : ~ (<<U, T>> \in R)
      BY <2>1, WFMin
    <2>3. QED
      BY <2>2 DEF R
  <1>4. \A U \in SUBSET T : U # T => U \in G
    BY <1>2, <1>3 DEF StrictSubsetOrdering, Bad
  <1>5. QED
    BY <1>2, <1>3, <1>4 DEF Bad

LEMMA SomeIn == \A s : s # {} => Some(s) \in s
  BY DEF Some

\* Sums over a common subset are equal if the amounts there are.
LEMMA SumsAgree ==
  ASSUME NEW S, IsFiniteSet(S), NEW T, NEW U, NEW a, NEW b, NEW g, NEW h,
         Sums(g, T, a), Sums(h, U, b), S \subseteq T, S \subseteq U,
         \A x \in S : a[x] = b[x]
  PROVE  \A s \in SUBSET S : g[s] = h[s]
  <1> DEFINE G == {s \in SUBSET S : g[s] = h[s]}
  <1>1. ASSUME NEW s \in SUBSET S, \A u \in SUBSET s : u # s => u \in G
        PROVE  s \in G
    <2>1. CASE s = {}
      BY <2>1 DEF Sums
    <2>2. CASE s # {}
      <3> DEFINE x == Some(s)
      <3>1. x \in s
        BY <2>2, SomeIn
      <3>2. g[s \ {x}] = h[s \ {x}]
        BY <1>1, <3>1
      <3>3. g[s] = a[x] + g[s \ {x}] /\ h[s] = b[x] + h[s \ {x}]
        BY <2>2 DEF Sums
      <3>4. a[x] = b[x]
        BY <3>1
      <3>5. QED
        BY <3>2, <3>3, <3>4
    <2>3. QED
      BY <2>1, <2>2
  <1> HIDE DEF G
  <1>2. SUBSET S \subseteq G
    BY <1>1, SubsetInduction
  <1>3. QED
    BY <1>2 DEF G

\* The sums of amounts over the subsets of a finite set exist.
LEMMA SumsExist ==
  ASSUME NEW S, IsFiniteSet(S), NEW a
  PROVE  \E g : Sums(g, S, a)
  <1> DEFINE G == {T \in SUBSET S : \E g : Sums(g, T, a)}
             F == [T \in SUBSET S |-> CHOOSE g : Sums(g, T, a)]
  <1>1. ASSUME NEW T \in SUBSET S, \A U \in SUBSET T : U # T => U \in G
        PROVE  T \in G
    <2>0. \A U \in SUBSET T : U # T => Sums(F[U], U, a)
      <3>1. \A U \in SUBSET T : U # T => \E g : Sums(g, U, a)
        BY <1>1
      <3>2. QED
        BY <3>1
    <2> HIDE DEF F
    <2> DEFINE h == [s \in SUBSET T |->
                       IF s = {} THEN 0
                       ELSE a[Some(s)] + F[s \ {Some(s)}][s \ {Some(s)}]]
    <2>1. ASSUME NEW s \in SUBSET T, s # {}
          PROVE  F[s \ {Some(s)}][s \ {Some(s)}] = h[s \ {Some(s)}]
      <3> DEFINE u == s \ {Some(s)}
      <3>1. Some(s) \in s
        BY <2>1, SomeIn
      <3>2. u \in SUBSET T /\ u # T /\ Sums(F[u], u, a)
        BY <2>0, <3>1
      <3>3. CASE u = {}
        BY <3>2, <3>3 DEF Sums
      <3>4. CASE u # {}
        <4> DEFINE v == u \ {Some(u)}
        <4>1. Some(u) \in u
          BY <3>4, SomeIn
        <4>2. v \in SUBSET T /\ v # T /\ v \subseteq u /\ IsFiniteSet(v)
          BY <3>2, <4>1, FS_Subset
        <4>3. Sums(F[v], v, a)
          BY <2>0, <4>2
        <4>4. F[u][v] = F[v][v]
          <5> HIDE DEF u, v
          <5> QED BY <3>2, <4>2, <4>3, SumsAgree
        <4>5. F[u][u] = a[Some(u)] + F[u][v]
          BY <3>2, <3>4 DEF Sums
        <4>6. h[u] = a[Some(u)] + F[v][v]
          BY <3>2, <3>4
        <4>7. QED
          BY <4>4, <4>5, <4>6
      <3>5. QED
        BY <3>3, <3>4
    <2>2. h = [s \in SUBSET T |-> IF s = {} THEN 0 ELSE a[Some(s)] + h[s \ {Some(s)}]]
      BY <2>1
    <2>3. QED
      BY <2>2 DEF Sums
  <1> HIDE DEF G
  <1>2. SUBSET S \subseteq G
    BY <1>1, SubsetInduction
  <1>3. QED
    BY <1>2 DEF G

LEMMA TotalUnfolds ==
  ASSUME NEW S, IsFiniteSet(S), NEW a
  PROVE  \E g : Sums(g, S, a) /\ Total(S, a) = g[S]
  <1> DEFINE iter == CHOOSE g : g = [s \in SUBSET S |-> IF s = {} THEN 0
                     ELSE a[CHOOSE x \in s : TRUE] + g[s \ {CHOOSE x \in s : TRUE}]]
  <1>1. Total(S, a) = iter[S]
    BY DEF Total, MapThenSumSet, MapThenFoldSet
  <1>2. \E g : g = [s \in SUBSET S |-> IF s = {} THEN 0
                     ELSE a[CHOOSE x \in s : TRUE] + g[s \ {CHOOSE x \in s : TRUE}]]
    <2>1. \E g : Sums(g, S, a)
      BY SumsExist
    <2>2. QED
      BY <2>1, Zenon DEF Sums, Some
  <1>3. Sums(iter, S, a)
    BY <1>2, Zenon DEF Sums, Some
  <1>4. QED
    BY <1>1, <1>3

\* Any function with these sums gives the total.
LEMMA TotalIs ==
  ASSUME NEW S, IsFiniteSet(S), NEW a, NEW g, Sums(g, S, a)
  PROVE  Total(S, a) = g[S]
  <1>1. PICK h : Sums(h, S, a) /\ Total(S, a) = h[S]
    BY TotalUnfolds
  <1>2. QED
    BY <1>1, SumsAgree

\* Sums of naturals are naturals, and sums of integers are integers.
LEMMA SumsType ==
  ASSUME NEW S, IsFiniteSet(S), NEW a, NEW N, N = Nat \/ N = Int,
         \A x \in S : a[x] \in N, NEW g, Sums(g, S, a)
  PROVE  \A s \in SUBSET S : g[s] \in N
  <1> DEFINE G == {s \in SUBSET S : g[s] \in N}
  <1>1. ASSUME NEW s \in SUBSET S, \A u \in SUBSET s : u # s => u \in G
        PROVE  s \in G
    <2>1. CASE s = {}
      <3>1. g[s] = 0 /\ 0 \in N
        BY <2>1 DEF Sums
      <3>2. QED
        BY <3>1
    <2>2. CASE s # {}
      <3> DEFINE x == Some(s)
      <3>1. x \in s
        BY <2>2, SomeIn
      <3>2. g[s \ {x}] \in N /\ a[x] \in N
        BY <1>1, <3>1
      <3>3. g[s] = a[x] + g[s \ {x}]
        BY <2>2 DEF Sums
      <3>4. \A i, j \in N : i + j \in N
        OBVIOUS
      <3>5. QED
        BY <3>2, <3>3, <3>4
    <2>3. QED
      BY <2>1, <2>2
  <1> HIDE DEF G
  <1>2. SUBSET S \subseteq G
    BY <1>1, SubsetInduction
  <1>3. QED
    BY <1>2 DEF G

\* The total of naturals is a natural, that of integers an integer, and that of nothing
\* is zero.
LEMMA TotalType ==
  ASSUME NEW S, IsFiniteSet(S), NEW a, \A x \in S : a[x] \in Int
  PROVE  /\ Total(S, a) \in Int
         /\ (\A x \in S : a[x] \in Nat) => Total(S, a) \in Nat
  <1>1. PICK g : Sums(g, S, a) /\ Total(S, a) = g[S]
    BY TotalUnfolds
  <1>2. g[S] \in Int
    BY <1>1, SumsType
  <1>3. ASSUME \A x \in S : a[x] \in Nat
        PROVE  g[S] \in Nat
    BY <1>1, <1>3, SumsType
  <1>4. QED
    BY <1>1, <1>2, <1>3

LEMMA TotalOfNothing ==
  ASSUME NEW a
  PROVE  Total({}, a) = 0
  <1>1. IsFiniteSet({})
    BY FS_EmptySet
  <1>2. PICK g : Sums(g, {}, a) /\ Total({}, a) = g[{}]
    BY <1>1, TotalUnfolds
  <1>3. QED
    BY <1>2 DEF Sums

\* Sums of the same amounts are equal.
LEMMA TotalAgrees ==
  ASSUME NEW S, IsFiniteSet(S), NEW a, NEW b, \A x \in S : a[x] = b[x]
  PROVE  Total(S, a) = Total(S, b)
  <1>1. PICK g : Sums(g, S, a) /\ Total(S, a) = g[S]
    BY TotalUnfolds
  <1>2. PICK h : Sums(h, S, b) /\ Total(S, b) = h[S]
    BY TotalUnfolds
  <1>3. QED
    BY <1>1, <1>2, SumsAgree

\* A sum does not depend on the order: any amount can be taken out.
LEMMA TotalRemoves ==
  ASSUME NEW S, IsFiniteSet(S), NEW a, \A x \in S : a[x] \in Int, NEW y \in S
  PROVE  Total(S, a) = a[y] + Total(S \ {y}, a)
  <1>1. PICK g : Sums(g, S, a) /\ Total(S, a) = g[S]
    BY TotalUnfolds
  <1> DEFINE R == S \ {y}
  <1>2. IsFiniteSet(R) /\ R \subseteq S
    BY FS_Subset
  <1>3. PICK h : Sums(h, R, a) /\ Total(R, a) = h[R]
    BY <1>2, TotalUnfolds
  <1>4. Total(R, a) = g[R]
    BY <1>1, <1>2, <1>3, SumsAgree
  <1>5. \A s \in SUBSET S : g[s] \in Int
    BY <1>1, SumsType
  <1> DEFINE G == {s \in SUBSET S : \A x \in s : g[s] = a[x] + g[s \ {x}]}
  <1>6. ASSUME NEW s \in SUBSET S, \A u \in SUBSET s : u # s => u \in G
        PROVE  s \in G
    <2> SUFFICES ASSUME NEW x \in s
                 PROVE  g[s] = a[x] + g[s \ {x}]
      OBVIOUS
    <2> DEFINE z == Some(s)
    <2>1. z \in s
      BY SomeIn
    <2>2. g[s] = a[z] + g[s \ {z}]
      BY <1>1 DEF Sums
    <2>3. CASE x = z
      BY <2>2, <2>3
    <2>4. CASE x # z
      <3>1. s \ {z} \in G /\ s \ {x} \in G
        BY <1>6, <2>1
      <3>2. g[s \ {z}] = a[x] + g[(s \ {z}) \ {x}]
        BY <2>4, <3>1
      <3>3. g[s \ {x}] = a[z] + g[(s \ {x}) \ {z}]
        BY <2>1, <2>4, <3>1
      <3>4. (s \ {z}) \ {x} = (s \ {x}) \ {z}
        OBVIOUS
      <3>5. a[x] \in Int /\ a[z] \in Int /\ g[(s \ {x}) \ {z}] \in Int
        BY <1>5, <2>1
      <3> HIDE DEF z
      <3>6. g[s] = a[z] + (a[x] + g[(s \ {x}) \ {z}])
        BY <2>2, <3>2, <3>4
      <3>7. QED
        BY <3>3, <3>5, <3>6
    <2>5. QED
      BY <2>3, <2>4
  <1>7. SUBSET S \subseteq G
    <2> HIDE DEF G
    <2> QED BY <1>6, SubsetInduction
  <1>8. QED
    BY <1>1, <1>4, <1>7

\* Sums add up element by element.
LEMMA TotalOfSums ==
  ASSUME NEW S, IsFiniteSet(S), NEW a, NEW d, NEW b,
         \A x \in S : a[x] \in Int /\ d[x] \in Int /\ b[x] = a[x] + d[x]
  PROVE  Total(S, b) = Total(S, a) + Total(S, d)
  <1> DEFINE G == {s \in SUBSET S : Total(s, b) = Total(s, a) + Total(s, d)}
  <1>1. ASSUME NEW s \in SUBSET S, \A u \in SUBSET s : u # s => u \in G
        PROVE  s \in G
    <2> SUFFICES Total(s, b) = Total(s, a) + Total(s, d)
      OBVIOUS
    <2>1. CASE s = {}
      BY <2>1, TotalOfNothing
    <2>2. CASE s # {}
      <3>1. PICK y \in s : TRUE
        BY <2>2
      <3>2. PICK R : R = s \ {y}
        OBVIOUS
      <3>3. IsFiniteSet(s) /\ IsFiniteSet(R) /\ R \in G
        BY <1>1, <3>1, <3>2, FS_Subset
      <3>4. Total(R, b) = Total(R, a) + Total(R, d)
        BY <3>3
      <3>5. \A x \in s : a[x] \in Int /\ d[x] \in Int /\ b[x] \in Int
        OBVIOUS
      <3>6. /\ Total(s, a) = a[y] + Total(R, a) /\ Total(s, d) = d[y] + Total(R, d)
            /\ Total(s, b) = b[y] + Total(R, b)
        BY <3>1, <3>2, <3>3, <3>5, TotalRemoves
      <3>7. Total(R, a) \in Int /\ Total(R, d) \in Int
        BY <3>2, <3>3, <3>5, TotalType
      <3>8. a[y] \in Int /\ d[y] \in Int /\ b[y] = a[y] + d[y]
        BY <3>1
      <3>9. QED
        BY <3>4, <3>6, <3>7, <3>8
    <2>3. QED
      BY <2>1, <2>2
  <1> HIDE DEF G
  <1>2. SUBSET S \subseteq G
    BY <1>1, SubsetInduction
  <1>3. QED
    BY <1>2 DEF G

\* The sum over two sets that share no element.
LEMMA TotalOfUnion ==
  ASSUME NEW S, NEW T, IsFiniteSet(S), IsFiniteSet(T), S \cap T = {}, NEW a,
         \A x \in S \cup T : a[x] \in Int
  PROVE  Total(S \cup T, a) = Total(S, a) + Total(T, a)
  <1> DEFINE G == {s \in SUBSET T : Total(S \cup s, a) = Total(S, a) + Total(s, a)}
  <1>1. ASSUME NEW s \in SUBSET T, \A u \in SUBSET s : u # s => u \in G
        PROVE  s \in G
    <2> SUFFICES Total(S \cup s, a) = Total(S, a) + Total(s, a)
      OBVIOUS
    <2>1. CASE s = {}
      <3>1. S \cup s = S /\ Total(s, a) = 0
        BY <2>1, TotalOfNothing
      <3>2. PICK m : m = Total(S, a)
        OBVIOUS
      <3>3. m \in Int
        BY <3>2, TotalType
      <3>4. m = m + 0
        BY <3>3
      <3>5. QED
        BY <3>1, <3>2, <3>4, Zenon
    <2>2. CASE s # {}
      <3>1. PICK y \in s : TRUE
        BY <2>2
      <3>2. PICK R, U : R = s \ {y} /\ U = S \cup s
        OBVIOUS
      <3>3. IsFiniteSet(s) /\ IsFiniteSet(R) /\ R \in G /\ IsFiniteSet(U)
        BY <1>1, <3>1, <3>2, FS_Subset, FS_Union
      <3>4. Total(S \cup R, a) = Total(S, a) + Total(R, a)
        BY <3>3
      <3>5. U \ {y} = S \cup R /\ y \in U /\ \A x \in U : a[x] \in Int
        BY <3>1, <3>2
      <3>6. Total(U, a) = a[y] + Total(U \ {y}, a)
        BY <3>3, <3>5, TotalRemoves
      <3>7. Total(s, a) = a[y] + Total(R, a)
        BY <3>1, <3>2, <3>3, TotalRemoves
      <3>8. Total(S, a) \in Int /\ Total(R, a) \in Int /\ a[y] \in Int
        BY <3>1, <3>2, <3>3, TotalType
      <3>9. \A i, j, k \in Int : i + (j + k) = j + (i + k)
        OBVIOUS
      <3>10. Total(U, a) = a[y] + (Total(S, a) + Total(R, a))
        BY <3>4, <3>5, <3>6, Zenon
      <3>11. a[y] + (Total(S, a) + Total(R, a)) = Total(S, a) + (a[y] + Total(R, a))
        BY <3>8, <3>9, Zenon
      <3>12. QED
        BY <3>2, <3>7, <3>10, <3>11, Zenon
    <2>3. QED
      BY <2>1, <2>2
  <1> HIDE DEF G
  <1>2. SUBSET T \subseteq G
    BY <1>1, SubsetInduction
  <1>3. QED
    BY <1>2 DEF G

\* Larger amounts have the larger sum.
LEMMA TotalGrows ==
  ASSUME NEW S, IsFiniteSet(S), NEW a, NEW b,
         \A x \in S : a[x] \in Int /\ b[x] \in Int /\ a[x] <= b[x]
  PROVE  Total(S, a) <= Total(S, b)
  <1>1. PICK d : d = [x \in S |-> b[x] - a[x]]
    OBVIOUS
  <1>2. \A x \in S : a[x] \in Int /\ d[x] \in Nat /\ d[x] \in Int /\ b[x] = a[x] + d[x]
    BY <1>1
  <1>3. Total(S, b) = Total(S, a) + Total(S, d)
    BY <1>2, TotalOfSums
  <1>4. Total(S, a) \in Int /\ Total(S, d) \in Nat
    BY <1>2, TotalType
  <1>5. QED
    BY <1>3, <1>4

USE MetricsAssumption

-----------------------------------------------------------------------------
(* Types *)

TypeInv ==
  /\ expense \in [Expenses -> ExpenseRow \cup {Absent}]
  /\ payment \in [Payments -> PaymentRow \cup {Absent}]
  /\ withdrawal \in [Expenses -> WithdrawalRow \cup {None}]
  /\ card \in [Categories -> Int] /\ revenue \in Nat /\ today \in Nat
  /\ IsFiniteSet(Stored) /\ IsFiniteSet({p \in Payments : payment[p] # Absent})
  /\ \A e \in Expenses : withdrawal[e] # None => e \in Stored

LEMMA CreateKeepsTypes ==
  ASSUME TypeInv, NEW e \in Expenses, NEW c \in Categories, NEW amount \in Amounts,
         NEW due \in DueDates, CreateExpense(e, c, amount, due)
  PROVE  TypeInv'
<1>b. PICK now \in Instants :
        expense' = [expense EXCEPT ![e] =
          [category |-> c, amount |-> amount, due_date |-> due, created_at |-> now,
           is_paid |-> FALSE]]
  BY Zenon DEF CreateExpense
<1>a. PICK r :
        /\ r = [category |-> c, amount |-> amount, due_date |-> due, created_at |-> now,
                is_paid |-> FALSE]
        /\ expense' = [expense EXCEPT ![e] = r]
  BY <1>b
<1>0. r \in ExpenseRow  BY <1>a DEF ExpenseRow
<1>1. r \in ExpenseRow /\ r # Absent  BY <1>0, SentinelAssumption
<1>2. expense' = [expense EXCEPT ![e] = r] /\ e \notin Stored  BY <1>a DEF CreateExpense
<1>3. Stored' = Stored \cup {e}  BY <1>1, <1>2 DEF TypeInv, Stored
<1>4. IsFiniteSet(Stored')  BY <1>3, FS_AddElement DEF TypeInv
<1>5. UNCHANGED <<payment, withdrawal, card, revenue, today>>  BY DEF CreateExpense
<1> QED  BY <1>1, <1>2, <1>3, <1>4, <1>5 DEF TypeInv

LEMMA DestroyKeepsTypes ==
  ASSUME TypeInv, NEW e \in Expenses, DestroyExpense(e)
  PROVE  TypeInv'
<1>1. expense' = [expense EXCEPT ![e] = Absent] /\ e \in Stored  BY DEF DestroyExpense
<1>2. Stored' = Stored \ {e}  BY <1>1 DEF TypeInv, Stored
<1>3. IsFiniteSet(Stored')  BY <1>2, FS_RemoveElement DEF TypeInv
<1>6. payment' \in [Payments -> PaymentRow \cup {Absent}]
  BY DEF TypeInv, DestroyExpense
<1>7. IsFiniteSet({p \in Payments : payment'[p] # Absent})
  <2>1. {p \in Payments : payment'[p] # Absent} \in SUBSET {p \in Payments : payment[p] # Absent}
    BY DEF DestroyExpense
  <2> QED  BY <2>1, FS_Subset DEF TypeInv
<1>8. withdrawal' = [withdrawal EXCEPT ![e] = None]  BY DEF DestroyExpense
<1>9. card' \in [Categories -> Int]
  <2>1. CASE withdrawal[e] = None  BY <2>1 DEF TypeInv, DestroyExpense
  <2>2. CASE withdrawal[e] # None
    <3> PICK c, n : c = withdrawal[e].card_type /\ n = withdrawal[e].amount  OBVIOUS
    <3>1. withdrawal[e] \in WithdrawalRow  BY <2>2 DEF TypeInv
    <3>2. c \in Categories /\ n \in Amounts  BY <3>1 DEF WithdrawalRow
    <3>4. n \in Int  BY <3>2
    <3>3. card' = [card EXCEPT ![c] = card[c] - n]  BY <2>2 DEF DestroyExpense
    <3> QED  BY <3>2, <3>3, <3>4 DEF TypeInv
  <2> QED  BY <2>1, <2>2
<1> QED
  BY <1>1, <1>2, <1>3, <1>6, <1>7, <1>8, <1>9 DEF TypeInv, DestroyExpense

\* One stored expense is written.
LEMMA WriteKeepsTypes ==
  ASSUME TypeInv, NEW e \in Stored, NEW r \in ExpenseRow,
         expense' = [expense EXCEPT ![e] = r], NEW q \in WithdrawalRow \cup {None},
         withdrawal' = [withdrawal EXCEPT ![e] = q],
         UNCHANGED <<payment, card, revenue, today>>
  PROVE  TypeInv'
<1>1. e \in Expenses /\ r # Absent  BY SentinelAssumption DEF Stored
<1>2. Stored' = Stored  BY <1>1 DEF TypeInv, Stored
<1> QED  BY <1>1, <1>2 DEF TypeInv

LEMMA ExpenseRequestKeepsTypes ==
  ASSUME TypeInv, NEW e \in Expenses, ExpenseRequest(e)
  PROVE  TypeInv'
<1>1. ASSUME e \in Stored
      PROVE  /\ expense[e] \in ExpenseRow /\ expense[e].is_paid \in BOOLEAN
             /\ expense[e].category \in Categories /\ expense[e].amount \in Amounts
             /\ expense[e].created_at \in Instants
             /\ expense[e] = [expense[e] EXCEPT !.is_paid = expense[e].is_paid]
  BY <1>1 DEF TypeInv, Stored, ExpenseRow
<1>2. withdrawal = [withdrawal EXCEPT ![e] = withdrawal[e]]
      /\ withdrawal[e] \in WithdrawalRow \cup {None}
  BY DEF TypeInv
<1>3. ASSUME NEW c \in Categories, NEW amount \in Amounts, NEW due \in DueDates,
             UpdateExpense(e, c, amount, due)
      PROVE  TypeInv'
  <2>1. PICK r : r = [category |-> c, amount |-> amount, due_date |-> due,
                      created_at |-> expense[e].created_at, is_paid |-> expense[e].is_paid]
    OBVIOUS
  <2>2. r \in ExpenseRow /\ e \in Stored  BY <1>1, <1>3, <2>1 DEF ExpenseRow, UpdateExpense
  <2>3. expense' = [expense EXCEPT ![e] = r]  BY <1>3, <2>1 DEF UpdateExpense
  <2>4. withdrawal' = [withdrawal EXCEPT ![e] = withdrawal[e]]
        /\ UNCHANGED <<payment, card, revenue, today>>
    BY <1>2, <1>3 DEF UpdateExpense
  <2> QED  BY <1>2, <2>2, <2>3, <2>4, WriteKeepsTypes
<1>4. ASSUME ConfirmPayment(e) \/ UnconfirmPayment(e)
      PROVE  TypeInv'
  <2>1. e \in Stored  BY <1>4 DEF ConfirmPayment, UnconfirmPayment, Unpaid
  <2>2. PICK b, q : /\ b \in BOOLEAN /\ q \in WithdrawalRow \cup {None}
                    /\ expense' = [expense EXCEPT ![e].is_paid = b]
                    /\ withdrawal' = [withdrawal EXCEPT ![e] = q]
    <3>1. [card_type |-> expense[e].category, amount |-> expense[e].amount] \in WithdrawalRow
      BY <1>1, <2>1 DEF WithdrawalRow
    <3>2. CASE ConfirmPayment(e)  BY <3>1, <3>2, Zenon DEF ConfirmPayment
    <3>3. CASE UnconfirmPayment(e)  BY <3>3, Zenon DEF UnconfirmPayment
    <3> QED  BY <1>4, <3>2, <3>3
  <2>3. PICK r : r = [expense[e] EXCEPT !.is_paid = b]  OBVIOUS
  <2>4. r \in ExpenseRow  BY <1>1, <2>1, <2>2, <2>3 DEF ExpenseRow
  <2>5. expense' = [expense EXCEPT ![e] = r]  BY <2>2, <2>3
  <2>6. UNCHANGED <<payment, card, revenue, today>>
    BY <1>4 DEF ConfirmPayment, UnconfirmPayment
  <2> QED  BY <2>1, <2>2, <2>4, <2>5, <2>6, WriteKeepsTypes
<1>5. ASSUME DeleteWithdrawal(e)
      PROVE  TypeInv'
  <2>1. Stored' = Stored  BY <1>5 DEF DeleteWithdrawal, Stored
  <2> QED  BY <1>5, <2>1 DEF TypeInv, DeleteWithdrawal
<1> QED
  BY <1>3, <1>4, <1>5, CreateKeepsTypes, DestroyKeepsTypes DEF ExpenseRequest

\* Nothing is written in the table of expenses.
LEMMA OtherKeepsTypes ==
  ASSUME TypeInv, UNCHANGED <<expense, withdrawal>>,
         payment' \in [Payments -> PaymentRow \cup {Absent}],
         IsFiniteSet({p \in Payments : payment'[p] # Absent}),
         card' \in [Categories -> Int], revenue' \in Nat, today' \in Nat
  PROVE  TypeInv'
<1>1. Stored' = Stored  BY DEF Stored
<1> QED  BY <1>1 DEF TypeInv

LEMMA TypesInductive == TypeInv /\ [Next]_vars => TypeInv'
<1> SUFFICES ASSUME TypeInv, [Next]_vars PROVE TypeInv'
  OBVIOUS
<1>1. /\ payment \in [Payments -> PaymentRow \cup {Absent}]
      /\ IsFiniteSet({p \in Payments : payment[p] # Absent})
      /\ card \in [Categories -> Int] /\ revenue \in Nat /\ today \in Nat
  BY DEF TypeInv
<1>2. ASSUME NEW p \in Payments, PaymentRequest(p)
      PROVE  TypeInv'
  <2>1. PICK q \in PaymentRow \cup {Absent} : payment' = [payment EXCEPT ![p] = q]
    <3>1. ASSUME NEW e \in Expenses, NEW amount \in Payable, AddPayment(p, e, amount)
          PROVE  \E q \in PaymentRow \cup {Absent} : payment' = [payment EXCEPT ![p] = q]
      <4>1. [expense |-> e, amount |-> amount] \in PaymentRow  BY DEF PaymentRow
      <4> QED  BY <3>1, <4>1, Zenon DEF AddPayment
    <3>2. CASE DeletePayment(p)  BY <3>2, Zenon DEF DeletePayment
    <3> QED  BY <1>2, <3>1, <3>2 DEF PaymentRequest
  <2>2. payment' \in [Payments -> PaymentRow \cup {Absent}]  BY <1>1, <2>1
  <2>3. {u \in Payments : payment'[u] # Absent} \in SUBSET ({u \in Payments : payment[u] # Absent} \cup {p})
    BY <1>1, <2>1
  <2>4. IsFiniteSet({u \in Payments : payment[u] # Absent} \cup {p})  BY <1>1, FS_AddElement
  <2>5. IsFiniteSet({u \in Payments : payment'[u] # Absent})  BY <2>3, <2>4, FS_Subset
  <2>6. UNCHANGED <<expense, withdrawal, card, revenue, today>>
    BY <1>2 DEF PaymentRequest, AddPayment, DeletePayment
  <2> QED  BY <1>1, <2>2, <2>5, <2>6, OtherKeepsTypes
<1>3. ASSUME NEW c \in Categories, NEW left \in CardSums, ChangeCard(c, left)
      PROVE  TypeInv'
  BY <1>1, <1>3, OtherKeepsTypes DEF ChangeCard
<1>4. ASSUME NEW amount \in Revenues, SetRevenue(amount)
      PROVE  TypeInv'
  BY <1>1, <1>4, OtherKeepsTypes DEF SetRevenue
<1>5. CASE NextDay  BY <1>1, <1>5, OtherKeepsTypes DEF NextDay
<1>6. CASE UNCHANGED vars  BY <1>1, <1>6, OtherKeepsTypes DEF vars
<1> QED  BY <1>2, <1>3, <1>4, <1>5, <1>6, ExpenseRequestKeepsTypes DEF Next

LEMMA TypesInitially == Init => TypeInv
<1> SUFFICES ASSUME Init PROVE TypeInv
  OBVIOUS
<1>1. Stored = {} /\ {p \in Payments : payment[p] # Absent} = {}  BY DEF Init, Stored
<1> QED  BY <1>1, FS_EmptySet DEF Init, TypeInv

LEMMA TypeInvHolds == Spec => []TypeInv
BY TypesInitially, TypesInductive, PTL DEF Spec

-----------------------------------------------------------------------------
(* The queue *)

\* R orders U strictly and totally.
Orders(R, U) ==
  /\ \A x \in U : <<x, x>> \notin R
  /\ \A x, y \in U : x # y => <<x, y>> \in R \/ <<y, x>> \in R
  /\ \A x, y, z \in U : <<x, y>> \in R /\ <<y, z>> \in R => <<x, z>> \in R

\* A finite set that is ordered can be sorted: an element comes to the place after all
\* that are before it.
LEMMA SortedExists ==
  ASSUME NEW U, IsFiniteSet(U), NEW R, Orders(R, U)
  PROVE  \E q \in SetToSeqs(U) : \A i, j \in DOMAIN q : i < j => <<q[i], q[j]>> \in R
<1> PICK n : n = Cardinality(U)  OBVIOUS
<1> DEFINE Ahead(x) == {y \in U : <<y, x>> \in R}
           rank == [x \in U |-> Cardinality(Ahead(x)) + 1]
           I == 1 .. n
<1>1. n \in Nat  BY FS_CardinalityType
<1>2. IsFiniteSet(I) /\ Cardinality(I) = n  BY <1>1, FS_Interval
<1>3. ASSUME NEW x \in U
      PROVE  /\ IsFiniteSet(Ahead(x)) /\ Cardinality(Ahead(x)) \in Nat
             /\ Cardinality(Ahead(x)) < n
  <2>1. Ahead(x) \in SUBSET U /\ Ahead(x) # U  BY DEF Orders
  <2> HIDE DEF Ahead
  <2>2. /\ IsFiniteSet(Ahead(x)) /\ Cardinality(Ahead(x)) <= n
        /\ Cardinality(Ahead(x)) # n
    BY <2>1, FS_Subset
  <2>3. Cardinality(Ahead(x)) \in Nat  BY <2>2, FS_CardinalityType
  <2> QED  BY <1>1, <2>2, <2>3
<1>4. ASSUME NEW x \in U, NEW y \in U, <<x, y>> \in R
      PROVE  Cardinality(Ahead(x)) < Cardinality(Ahead(y))
  <2>1. x \in Ahead(y) /\ x \notin Ahead(x)  BY <1>4 DEF Orders
  <2>2. Ahead(x) \in SUBSET Ahead(y)  BY <1>4 DEF Orders
  <2>3. /\ IsFiniteSet(Ahead(y)) /\ Cardinality(Ahead(x)) \in Nat
        /\ Cardinality(Ahead(y)) \in Nat
    BY <1>3
  <2> HIDE DEF Ahead
  <2>4. /\ Cardinality(Ahead(x)) <= Cardinality(Ahead(y))
        /\ Cardinality(Ahead(x)) # Cardinality(Ahead(y))
    BY <2>1, <2>2, <2>3, FS_Subset
  <2> QED  BY <2>3, <2>4
<1>5. ASSUME NEW x \in U, NEW y \in U, <<x, y>> \in R
      PROVE  rank[x] < rank[y]
  <2> HIDE DEF Ahead
  <2> QED  BY <1>3, <1>4, <1>5
<1>6. rank \in [U -> I]
  <2> HIDE DEF Ahead
  <2> QED  BY <1>1, <1>3
<1> HIDE DEF rank
<1>7. ASSUME NEW x \in U, NEW y \in U, x # y
      PROVE  rank[x] # rank[y]
  <2>1. rank[x] \in I /\ rank[y] \in I  BY <1>6
  <2>2. rank[x] < rank[y] \/ rank[y] < rank[x]  BY <1>5, <1>7 DEF Orders
  <2> QED  BY <2>1, <2>2
<1>8. rank \in Surjection(U, I)
  <2>1. rank \in Injection(U, I)  BY <1>6, <1>7 DEF Injection, IsInjective
  <2> HIDE DEF I
  <2> QED  BY <1>2, <2>1, FS_Injection
<1>9. \A i \in I : \E x \in U : rank[x] = i  BY <1>8 DEF Surjection
<1> PICK q : q = [i \in I |-> CHOOSE x \in U : rank[x] = i]  OBVIOUS
<1>10. \A i \in I : q[i] \in U /\ rank[q[i]] = i  BY <1>9
<1>11. q \in SetToSeqs(U)  BY <1>10 DEF SetToSeqs
<1>12. ASSUME NEW i \in I, NEW j \in I, i < j
       PROVE  <<q[i], q[j]>> \in R
  <2>1. q[i] \in U /\ q[j] \in U /\ rank[q[i]] = i /\ rank[q[j]] = j  BY <1>10
  <2>2. q[i] # q[j]  BY <1>12, <2>1
  <2>3. CASE <<q[j], q[i]>> \in R
    <3>1. j < i  BY <1>5, <2>1, <2>3
    <3> QED  BY <1>1, <1>12, <3>1
  <2> QED  BY <2>1, <2>2, <2>3 DEF Orders
<1> QED  BY <1>11, <1>12

\* In a sorted queue those ahead of an element are those before it.
LEMMA AheadInQueue ==
  ASSUME NEW U, NEW R, Orders(R, U), IsFiniteSet(U), NEW q \in SetToSeqs(U),
         \A i, j \in DOMAIN q : i < j => <<q[i], q[j]>> \in R, NEW e \in U
  PROVE  {q[i] : i \in {j \in DOMAIN q : \E k \in DOMAIN q : j < k /\ q[k] = e}}
           = {x \in U \ {e} : <<x, e>> \in R}
<1> PICK n : n = Cardinality(U)  OBVIOUS
<1>1. n \in Nat /\ IsFiniteSet(1 .. n) /\ Cardinality(1 .. n) = n
  BY FS_CardinalityType, FS_Interval
<1>2. q \in [1 .. n -> U] /\ \A i, j \in 1 .. n : i # j => q[i] # q[j]  BY DEF SetToSeqs
<1>3. q \in Surjection(1 .. n, U)
  <2>1. q \in Injection(1 .. n, U)  BY <1>2 DEF Injection, IsInjective
  <2> QED  BY <1>1, <2>1, FS_Injection
<1>4. \A x \in U : \E i \in 1 .. n : q[i] = x  BY <1>3 DEF Surjection
<1>5. \A i, j \in 1 .. n : i < j => <<q[i], q[j]>> \in R  BY <1>2
<1>6. ASSUME NEW i \in 1 .. n, NEW k \in 1 .. n, i < k, q[k] = e
      PROVE  q[i] \in U \ {e} /\ <<q[i], e>> \in R
  BY <1>2, <1>5, <1>6
<1>7. ASSUME NEW x \in U, <<x, e>> \in R
      PROVE  \E i \in 1 .. n : x = q[i] /\ \E k \in 1 .. n : i < k /\ q[k] = e
  <2>1. PICK i \in 1 .. n, k \in 1 .. n : q[i] = x /\ q[k] = e  BY <1>4
  <2>2. i # k  BY <1>7, <2>1 DEF Orders
  <2>3. ~ (k < i)
    <3> SUFFICES ASSUME k < i PROVE FALSE  OBVIOUS
    <3>1. <<e, x>> \in R  BY <1>5, <2>1
    <3> QED  BY <1>7, <3>1 DEF Orders
  <2>4. i < k  BY <2>2, <2>3
  <2> QED  BY <2>1, <2>4
<1>8. DOMAIN q = 1 .. n  BY <1>2
<1> QED  BY <1>6, <1>7, <1>8

\* What the types say of a stored expense.
LEMMA StoredRow ==
  ASSUME TypeInv, NEW e \in Stored
  PROVE  /\ e \in Expenses /\ expense[e] \in ExpenseRow /\ expense[e].category \in Categories
         /\ expense[e].amount \in Amounts /\ expense[e].amount \in Int /\ e \in Int
         /\ expense[e].due_date \in Int /\ expense[e].created_at \in Int
         /\ expense[e].is_paid \in BOOLEAN
BY DEF TypeInv, Stored, ExpenseRow

LEMMA UnpaidFinite ==
  ASSUME TypeInv
  PROVE  /\ IsFiniteSet(Unpaid) /\ Unpaid \subseteq Stored
         /\ \A c : IsFiniteSet(UnpaidIn(c)) /\ UnpaidIn(c) \subseteq Unpaid
<1>1. Unpaid \in SUBSET Stored  BY DEF Unpaid
<1>2. IsFiniteSet(Unpaid)  BY <1>1, FS_Subset DEF TypeInv
<1>3. ASSUME NEW c PROVE IsFiniteSet(UnpaidIn(c)) /\ UnpaidIn(c) \subseteq Unpaid
  <2>1. UnpaidIn(c) \in SUBSET Unpaid  BY DEF UnpaidIn
  <2> QED  BY <1>2, <2>1, FS_Subset
<1> QED  BY <1>1, <1>2, <1>3

\* The order of due_date, created_at and id, as a set of pairs.
Order == {p \in Stored \X Stored : ComesFirst(p[1], p[2])}

LEMMA BeforeOrders ==
  ASSUME TypeInv, NEW U, U \subseteq Stored
  PROVE  Orders(Order, U)
<1>1. \A e \in U : /\ e \in Stored /\ e \in Int
                   /\ expense[e].due_date \in Int /\ expense[e].created_at \in Int
  BY StoredRow
<1>2. \A e, f \in U : <<e, f>> \in Order <=>
        \/ expense[e].due_date < expense[f].due_date
        \/ /\ expense[e].due_date = expense[f].due_date
           /\ expense[e].created_at < expense[f].created_at
        \/ /\ expense[e].due_date = expense[f].due_date
           /\ expense[e].created_at = expense[f].created_at
           /\ e < f
  BY <1>1 DEF Order, ComesFirst, Before, Tied
<1>3. ASSUME NEW e \in U PROVE <<e, e>> \notin Order  BY <1>1, <1>2
<1>4. ASSUME NEW e \in U, NEW f \in U, e # f PROVE <<e, f>> \in Order \/ <<f, e>> \in Order
  BY <1>1, <1>2, <1>4
<1>5. ASSUME NEW e \in U, NEW f \in U, NEW g \in U, <<e, f>> \in Order, <<f, g>> \in Order
      PROVE  <<e, g>> \in Order
  <2> PICK a, b, d : /\ a = expense[e].due_date /\ b = expense[f].due_date
                     /\ d = expense[g].due_date
    OBVIOUS
  <2> PICK i, j, k : /\ i = expense[e].created_at /\ j = expense[f].created_at
                     /\ k = expense[g].created_at
    OBVIOUS
  <2>1. /\ a \in Int /\ b \in Int /\ d \in Int /\ i \in Int /\ j \in Int /\ k \in Int
        /\ e \in Int /\ f \in Int /\ g \in Int
    BY <1>1
  <2>2. /\ a < b \/ (a = b /\ i < j) \/ (a = b /\ i = j /\ e < f)
        /\ b < d \/ (b = d /\ j < k) \/ (b = d /\ j = k /\ f < g)
        /\ <<e, g>> \in Order <=> a < d \/ (a = d /\ i < k) \/ (a = d /\ i = k /\ e < g)
    BY <1>2, <1>5
  <2> QED  BY <2>1, <2>2
<1> QED  BY <1>3, <1>4, <1>5 DEF Orders

\* The sums of the model are sums over finite sets.
LEMMA SumOfAmounts ==
  ASSUME NEW S, IsFiniteSet(S), NEW f
  PROVE  MapThenSumSet(LAMBDA t : f[t].amount, S) = Total(S, [t \in S |-> f[t].amount])
<1> DEFINE a == [t \in S |-> f[t].amount]
           iter == CHOOSE g : g = [s \in SUBSET S |-> IF s = {} THEN 0
                     ELSE f[CHOOSE x \in s : TRUE].amount + g[s \ {CHOOSE x \in s : TRUE}]]
<1>1. MapThenSumSet(LAMBDA t : f[t].amount, S) = iter[S]  BY DEF MapThenSumSet, MapThenFoldSet
<1>2. PICK h : Sums(h, S, a)  BY SumsExist
<1>3. \A s \in SUBSET S : s # {} => a[Some(s)] = f[CHOOSE x \in s : TRUE].amount
  BY SomeIn DEF Some
<1>4. h = [s \in SUBSET S |-> IF s = {} THEN 0
             ELSE f[CHOOSE x \in s : TRUE].amount + h[s \ {CHOOSE x \in s : TRUE}]]
  BY <1>2, <1>3 DEF Sums, Some
<1>5. iter = [s \in SUBSET S |-> IF s = {} THEN 0
                ELSE f[CHOOSE x \in s : TRUE].amount + iter[s \ {CHOOSE x \in s : TRUE}]]
  BY <1>4, Zenon
<1> HIDE DEF iter
<1>6. Sums(iter, S, a)  BY <1>3, <1>5 DEF Sums, Some
<1> QED  BY <1>1, <1>6, TotalIs

LEMMA AmountIs ==
  ASSUME NEW S, IsFiniteSet(S)
  PROVE  AmountOf(S) = Total(S, [x \in S |-> expense[x].amount])
BY SumOfAmounts DEF AmountOf

\* What the types say of those ahead of an expense.
LEMMA UpstreamType ==
  ASSUME TypeInv, NEW e
  PROVE  /\ IsFiniteSet(Upstream(e)) /\ Upstream(e) \subseteq Stored
         /\ AmountOf(Upstream(e)) = Total(Upstream(e), [f \in Upstream(e) |-> expense[f].amount])
         /\ AmountOf(Upstream(e)) \in Int
<1> PICK U, a : U = Upstream(e) /\ a = [f \in U |-> expense[f].amount]  OBVIOUS
<1>1. U \in SUBSET UnpaidIn(expense[e].category)  BY DEF Upstream
<1>2. IsFiniteSet(U) /\ U \subseteq Stored  BY <1>1, UnpaidFinite, FS_Subset
<1>3. \A f \in U : a[f] \in Int  BY <1>2, StoredRow
<1>4. AmountOf(U) = Total(U, a)  BY <1>2, SumOfAmounts DEF AmountOf
<1> QED  BY <1>2, <1>3, <1>4, TotalType

\* The running sum over the sorted queue adds up what the page of the expense adds up,
\* and those that are tied with it.
LEMMA QueueAgrees ==
  ASSUME TypeInv, NEW e \in Unpaid
  PROVE  RunningSum(e) = AmountOf(Upstream(e)) + AmountOf(TiedAhead(e))
<1> PICK c, U, q : c = expense[e].category /\ U = UnpaidIn(c) /\ q = Queue(c)  OBVIOUS
<1>1. IsFiniteSet(U) /\ U \subseteq Stored /\ e \in U  BY UnpaidFinite DEF UnpaidIn
<1>2. Orders(Order, U)  BY <1>1, BeforeOrders
<1>3. \A x, y \in U : <<x, y>> \in Order <=> ComesFirst(x, y)  BY <1>1 DEF Order
<1>4. \E p \in SetToSeqs(U) : \A i, j \in DOMAIN p : i < j => ComesFirst(p[i], p[j])
  <2>1. PICK p \in SetToSeqs(U) : \A i, j \in DOMAIN p : i < j => <<p[i], p[j]>> \in Order
    BY <1>1, <1>2, SortedExists
  <2>2. \A i \in DOMAIN p : p[i] \in U  BY DEF SetToSeqs
  <2>3. \A i, j \in DOMAIN p : i < j => ComesFirst(p[i], p[j])  BY <1>3, <2>1, <2>2
  <2> QED  BY <2>3
<1>5. q = CHOOSE p \in SetToSeqs(U) : \A i, j \in DOMAIN p : i < j => ComesFirst(p[i], p[j])
  BY DEF Queue
<1>6. q \in SetToSeqs(U) /\ \A i, j \in DOMAIN q : i < j => ComesFirst(q[i], q[j])
  BY <1>4, <1>5
<1>7. \A i \in DOMAIN q : q[i] \in U  BY <1>6 DEF SetToSeqs
<1>8. \A i, j \in DOMAIN q : i < j => <<q[i], q[j]>> \in Order  BY <1>3, <1>6, <1>7
<1>9. {q[i] : i \in {j \in DOMAIN q : \E k \in DOMAIN q : j < k /\ q[k] = e}}
        = {x \in U \ {e} : <<x, e>> \in Order}
  BY <1>1, <1>2, <1>6, <1>8, AheadInQueue
<1>b. PICK V, W : V = Upstream(e) /\ W = TiedAhead(e)  OBVIOUS
<1>10. {x \in U \ {e} : <<x, e>> \in Order} = V \cup W
  BY <1>b, <1>1, <1>3 DEF Upstream, TiedAhead, ComesFirst
<1>11. RunningSum(e)
         = AmountOf({q[i] : i \in {j \in DOMAIN q : \E k \in DOMAIN q : j < k /\ q[k] = e}})
  BY DEF RunningSum
<1>12. RunningSum(e) = AmountOf(V \cup W)  BY <1>9, <1>10, <1>11
<1>13. /\ V \in SUBSET U /\ W \in SUBSET U /\ V \cup W \in SUBSET U
       /\ IsFiniteSet(V) /\ IsFiniteSet(W) /\ IsFiniteSet(V \cup W)
  <2>1. V \in SUBSET U /\ W \in SUBSET U /\ V \cup W \in SUBSET U
    BY <1>b DEF Upstream, TiedAhead
  <2> QED  BY <1>1, <2>1, FS_Subset
<1>14. V \cap W = {}
  <2> SUFFICES ASSUME NEW x \in V, x \in W PROVE FALSE  OBVIOUS
  <2>1. Before(x, e) /\ Tied(x, e)  BY <1>b DEF Upstream, TiedAhead
  <2>2. x \in Stored /\ e \in Stored  BY <1>1, <1>13
  <2>3. /\ expense[x].due_date \in Int /\ expense[x].created_at \in Int
        /\ expense[e].due_date \in Int /\ expense[e].created_at \in Int
    BY <2>2, StoredRow
  <2> QED  BY <2>1, <2>3 DEF Before, Tied
<1> PICK a : a = [x \in U |-> expense[x].amount]  OBVIOUS
<1>15. \A x \in U : a[x] \in Int  BY <1>1, StoredRow
<1>16. ASSUME NEW S \in SUBSET U, IsFiniteSet(S)
       PROVE  AmountOf(S) = Total(S, a)
  <2>1. PICK b : b = [x \in S |-> expense[x].amount]  OBVIOUS
  <2>2. AmountOf(S) = Total(S, b)  BY <1>16, <2>1, SumOfAmounts DEF AmountOf
  <2>3. \A x \in S : b[x] = a[x]  BY <2>1
  <2>4. Total(S, b) = Total(S, a)  BY <1>16, <2>3, TotalAgrees
  <2> QED  BY <2>2, <2>4
<1>17. /\ AmountOf(V) = Total(V, a) /\ AmountOf(W) = Total(W, a)
       /\ AmountOf(V \cup W) = Total(V \cup W, a)
  BY <1>13, <1>16
<1>18. Total(V \cup W, a) = Total(V, a) + Total(W, a)
  BY <1>13, <1>14, <1>15, TotalOfUnion
<1> QED  BY <1>b, <1>12, <1>17, <1>18

\* Exactly the paid expenses show PAID, and exactly the unpaid ones whose day has passed
\* show OVERDUE, whatever the metrics are computed from.
LEMMA IdleStatuses ==
  ASSUME NEW e \in Stored, NEW given, NEW balance, NEW upstream
  PROVE  LET s == Metrics(e, given, balance, upstream).status IN
         /\ s = "PAID" <=> e \notin Unpaid
         /\ s = "OVERDUE" <=> e \in Unpaid /\ DaysRemaining(e) < 0
<1>1. e \in Unpaid <=> ~expense[e].is_paid  BY DEF Unpaid
<1>2. \A ratio : StatusOf(ratio) # "PAID" /\ StatusOf(ratio) # "OVERDUE"  BY DEF StatusOf
<1>3. CASE e \notin Unpaid
  <2>1. Metrics(e, given, balance, upstream).status = "PAID"  BY <1>1, <1>3 DEF Metrics
  <2> QED  BY <1>3, <2>1
<1>4. CASE e \in Unpaid /\ DaysRemaining(e) < 0
  <2>1. Metrics(e, given, balance, upstream).status = "OVERDUE"  BY <1>1, <1>4 DEF Metrics
  <2> QED  BY <1>4, <2>1
<1>5. CASE e \in Unpaid /\ ~ (DaysRemaining(e) < 0)
  <2>1. \E ratio : Metrics(e, given, balance, upstream).status = StatusOf(ratio)
    BY <1>1, <1>5 DEF Metrics
  <2> QED  BY <1>2, <1>5, <2>1
<1> QED  BY <1>3, <1>4, <1>5

LEMMA BatchIsDetail ==
  ASSUME TypeInv, NEW e \in Stored
  PROVE  /\ Detail(e).status \in {"PAID", "OVERDUE"} =>
              [Batch(e) EXCEPT !.card_balance = 0, !.upstream = 0] = Detail(e)
         /\ Detail(e).status \notin {"PAID", "OVERDUE"} =>
              /\ Batch(e).card_balance = Detail(e).card_balance
              /\ Batch(e).upstream = Detail(e).upstream + AmountOf(TiedAhead(e))
              /\ TiedAhead(e) = {} => Batch(e) = Detail(e)
<1> PICK b, u, v : /\ b = Balance(expense[e].category) /\ u = AmountOf(Upstream(e))
                   /\ v = RunningSum(e)
  OBVIOUS
<1>1. Batch(e) = Metrics(e, TRUE, b, v) /\ Detail(e) = Metrics(e, FALSE, b, u)
  BY DEF Batch, Detail
<1>2. CASE expense[e].is_paid
  <2>1. [Metrics(e, TRUE, b, v) EXCEPT !.card_balance = 0, !.upstream = 0] = Metrics(e, FALSE, b, u)
    BY <1>2 DEF Metrics
  <2>2. Metrics(e, FALSE, b, u).status = "PAID"  BY <1>2 DEF Metrics
  <2> QED  BY <1>1, <2>1, <2>2
<1>3. CASE ~expense[e].is_paid /\ DaysRemaining(e) < 0
  <2>1. [Metrics(e, TRUE, b, v) EXCEPT !.card_balance = 0, !.upstream = 0] = Metrics(e, FALSE, b, u)
    BY <1>3 DEF Metrics
  <2>2. Metrics(e, FALSE, b, u).status = "OVERDUE"  BY <1>3 DEF Metrics
  <2> QED  BY <1>1, <2>1, <2>2
<1>4. CASE ~expense[e].is_paid /\ ~ (DaysRemaining(e) < 0)
  <2>1. e \in Unpaid  BY <1>4 DEF Unpaid
  <2>2. v = u + AmountOf(TiedAhead(e))  BY <2>1, QueueAgrees
  <2>3. Metrics(e, FALSE, b, u).status \notin {"PAID", "OVERDUE"}  BY <1>4, <2>1, IdleStatuses
  <2>4. /\ Metrics(e, TRUE, b, v).card_balance = b /\ Metrics(e, TRUE, b, v).upstream = v
        /\ Metrics(e, FALSE, b, u).card_balance = b /\ Metrics(e, FALSE, b, u).upstream = u
    BY <1>4 DEF Metrics
  <2>5. Metrics(e, TRUE, b, u) = Metrics(e, FALSE, b, u)  BY <1>4 DEF Metrics
  <2>6. TiedAhead(e) = {} => v = u
    <3>1. AmountOf({}) = 0
      <4>1. IsFiniteSet({})  BY FS_EmptySet
      <4> QED  BY <4>1, AmountIs, TotalOfNothing
    <3>2. u \in Int  BY UpstreamType
    <3> QED  BY <2>2, <3>1, <3>2
  <2> QED  BY <1>1, <2>2, <2>3, <2>4, <2>5, <2>6
<1> QED  BY <1>2, <1>3, <1>4

-----------------------------------------------------------------------------
(* The summary *)

LEMMA AllocationsSum ==
  ASSUME NEW S, IsFiniteSet(S)
  PROVE  MapThenSumSet(Allocated, S) = Total(S, [e \in S |-> Allocated(e)])
<1> DEFINE a == [e \in S |-> Allocated(e)]
           iter == CHOOSE g : g = [s \in SUBSET S |-> IF s = {} THEN 0
                     ELSE Allocated(CHOOSE x \in s : TRUE) + g[s \ {CHOOSE x \in s : TRUE}]]
<1>1. MapThenSumSet(Allocated, S) = iter[S]  BY DEF MapThenSumSet, MapThenFoldSet
<1>2. PICK h : Sums(h, S, a)  BY SumsExist
<1>3. \A s \in SUBSET S : s # {} => a[Some(s)] = Allocated(CHOOSE x \in s : TRUE)
  BY SomeIn DEF Some
<1>4. h = [s \in SUBSET S |-> IF s = {} THEN 0
             ELSE Allocated(CHOOSE x \in s : TRUE) + h[s \ {CHOOSE x \in s : TRUE}]]
  BY <1>2, <1>3 DEF Sums, Some
<1>5. iter = [s \in SUBSET S |-> IF s = {} THEN 0
                ELSE Allocated(CHOOSE x \in s : TRUE) + iter[s \ {CHOOSE x \in s : TRUE}]]
  BY <1>4, Zenon
<1> HIDE DEF iter
<1>6. Sums(iter, S, a)  BY <1>3, <1>5 DEF Sums, Some
<1> QED  BY <1>1, <1>6, TotalIs

LEMMA DebtsSum ==
  ASSUME NEW S, IsFiniteSet(S)
  PROVE  MapThenSumSet(RemainingDebt, S) = Total(S, [e \in S |-> RemainingDebt(e)])
<1> DEFINE a == [e \in S |-> RemainingDebt(e)]
           iter == CHOOSE g : g = [s \in SUBSET S |-> IF s = {} THEN 0
                     ELSE RemainingDebt(CHOOSE x \in s : TRUE) + g[s \ {CHOOSE x \in s : TRUE}]]
<1>1. MapThenSumSet(RemainingDebt, S) = iter[S]  BY DEF MapThenSumSet, MapThenFoldSet
<1>2. PICK h : Sums(h, S, a)  BY SumsExist
<1>3. \A s \in SUBSET S : s # {} => a[Some(s)] = RemainingDebt(CHOOSE x \in s : TRUE)
  BY SomeIn DEF Some
<1>4. h = [s \in SUBSET S |-> IF s = {} THEN 0
             ELSE RemainingDebt(CHOOSE x \in s : TRUE) + h[s \ {CHOOSE x \in s : TRUE}]]
  BY <1>2, <1>3 DEF Sums, Some
<1>5. iter = [s \in SUBSET S |-> IF s = {} THEN 0
                ELSE RemainingDebt(CHOOSE x \in s : TRUE) + iter[s \ {CHOOSE x \in s : TRUE}]]
  BY <1>4, Zenon
<1> HIDE DEF iter
<1>6. Sums(iter, S, a)  BY <1>3, <1>5 DEF Sums, Some
<1> QED  BY <1>1, <1>6, TotalIs

\* Debts that are counted one by one are not less than what is owed minus what was put
\* aside for all, and just that if no more than its amount was put aside for any.
LEMMA DebtsOneByOne ==
  ASSUME NEW S, IsFiniteSet(S), NEW a, NEW d, NEW r,
         \A x \in S : a[x] \in Int /\ d[x] \in Nat /\ r[x] = AtLeastZero(a[x] - d[x])
  PROVE  /\ AtLeastZero(Total(S, a) - Total(S, d)) <= Total(S, r)
         /\ (\A x \in S : d[x] <= a[x])
              => AtLeastZero(Total(S, a) - Total(S, d)) = Total(S, r)
<1> PICK b : b = [x \in S |-> r[x] + d[x]]  OBVIOUS
<1>1. \A x \in S : r[x] \in Nat /\ d[x] \in Nat /\ b[x] = r[x] + d[x] /\ b[x] \in Nat
                   /\ a[x] <= b[x] /\ a[x] \in Int
  BY DEF AtLeastZero
<1>2. Total(S, b) = Total(S, r) + Total(S, d)  BY <1>1, TotalOfSums
<1>3. Total(S, a) <= Total(S, b)  BY <1>1, TotalGrows
<1>4. Total(S, a) \in Int /\ Total(S, d) \in Nat /\ Total(S, r) \in Nat /\ Total(S, b) \in Int
  BY <1>1, TotalType
<1>5. ASSUME \A x \in S : d[x] <= a[x]
      PROVE  Total(S, a) = Total(S, b)
  <2>1. \A x \in S : a[x] = b[x]  BY <1>5 DEF AtLeastZero
  <2> QED  BY <2>1, TotalAgrees
<1> QED  BY <1>2, <1>3, <1>4, <1>5 DEF AtLeastZero

LEMMA AllocatedType ==
  ASSUME TypeInv, NEW e
  PROVE  Allocated(e) \in Nat
<1> PICK P : P = {p \in Payments : payment[p] # Absent /\ payment[p].expense = e}  OBVIOUS
<1>1. IsFiniteSet(P)
  <2>1. P \in SUBSET {p \in Payments : payment[p] # Absent}  OBVIOUS
  <2> QED  BY <2>1, FS_Subset DEF TypeInv
<1>2. ASSUME NEW p \in P PROVE payment[p].amount \in Nat
  <2>1. payment[p] \in PaymentRow  BY DEF TypeInv
  <2>2. PICK n : n = payment[p].amount  OBVIOUS
  <2>3. n \in Payable  BY <2>1, <2>2 DEF PaymentRow
  <2>4. n \in Amounts /\ n > 0  BY <2>3 DEF Payable
  <2>5. n \in Nat  BY <2>4
  <2> QED  BY <2>2, <2>5
<1> PICK a : a = [p \in P |-> payment[p].amount]  OBVIOUS
<1>3. Allocated(e) = Total(P, a)  BY <1>1, SumOfAmounts DEF Allocated
<1> QED  BY <1>1, <1>2, <1>3, TotalType

LEMMA SummaryAgrees ==
  ASSUME TypeInv, NEW debts, debts = MapThenSumSet(RemainingDebt, Unpaid)
  PROVE  /\ TotalRemaining <= debts
         /\ (\A e \in Unpaid : Allocated(e) <= expense[e].amount) => TotalRemaining = debts
<1> PICK U, a, d, r : /\ U = Unpaid /\ a = [e \in U |-> expense[e].amount]
                      /\ d = [e \in U |-> Allocated(e)] /\ r = [e \in U |-> RemainingDebt(e)]
  OBVIOUS
<1>1. IsFiniteSet(U) /\ U \subseteq Stored  BY UnpaidFinite
<1>2. AmountOf(U) = Total(U, a)  BY <1>1, SumOfAmounts DEF AmountOf
<1>3. MapThenSumSet(Allocated, U) = Total(U, d)  BY <1>1, AllocationsSum
<1>4. debts = Total(U, r)  BY <1>1, DebtsSum
<1>5. TotalRemaining = AtLeastZero(Total(U, a) - Total(U, d))
  BY <1>2, <1>3 DEF TotalRemaining
<1>6. \A e \in U : a[e] \in Int /\ d[e] \in Nat /\ r[e] = AtLeastZero(a[e] - d[e])
  BY <1>1, StoredRow, AllocatedType DEF RemainingDebt
<1>7. /\ AtLeastZero(Total(U, a) - Total(U, d)) <= Total(U, r)
      /\ (\A x \in U : d[x] <= a[x]) => AtLeastZero(Total(U, a) - Total(U, d)) = Total(U, r)
  BY <1>1, <1>6, DebtsOneByOne
<1>8. (\A e \in U : Allocated(e) <= expense[e].amount) => \A x \in U : d[x] <= a[x]  OBVIOUS
<1> QED  BY <1>4, <1>5, <1>7, <1>8

\* The list under a status, over all expenses and over those of the default scope.
LEMMA ListsAgree ==
  ASSUME NEW batch, batch = [e \in Stored |-> Batch(e)], NEW s \in Statuses
  PROVE  /\ StatusCounts(batch)[s] = Cardinality(Listed(batch, "", "all", s))
         /\ Listed(batch, "", "unpaid", s)
              = IF s = "PAID" THEN {} ELSE Listed(batch, "", "all", s)
         /\ s = "OVERDUE" => Listed(batch, "", "all", s) = Scoped("overdue")
<1>1. \A e \in Stored : /\ batch[e].status = "PAID" <=> e \notin Unpaid
                        /\ batch[e].status = "OVERDUE" <=> e \in Unpaid /\ DaysRemaining(e) < 0
  <2> TAKE e \in Stored
  <2>1. PICK b, v : batch[e] = Metrics(e, TRUE, b, v)  BY DEF Batch
  <2>2. /\ Metrics(e, TRUE, b, v).status = "PAID" <=> e \notin Unpaid
        /\ Metrics(e, TRUE, b, v).status = "OVERDUE" <=> e \in Unpaid /\ DaysRemaining(e) < 0
    BY IdleStatuses
  <2> QED  BY <2>1, <2>2
<1>2. Unpaid \subseteq Stored  BY DEF Unpaid
<1>3. /\ Flagged("") = Stored /\ Scoped("all") = Stored /\ Scoped("unpaid") = Unpaid
      /\ Scoped("overdue") = {e \in Unpaid : DaysRemaining(e) < 0}
  BY DEF Flagged, Scoped
<1>4. /\ Listed(batch, "", "all", s) = {e \in Stored : batch[e].status = s}
      /\ Listed(batch, "", "unpaid", s) = {e \in Unpaid : batch[e].status = s}
  BY <1>2, <1>3 DEF Listed
<1>5. CASE s = "PAID"
  <2>1. Listed(batch, "", "all", s) = Stored \ Unpaid  BY <1>1, <1>4, <1>5
  <2>2. StatusCounts(batch)[s] = Cardinality(Stored \ Unpaid)  BY <1>5 DEF StatusCounts
  <2> QED  BY <1>1, <1>2, <1>4, <1>5, <2>1, <2>2
<1>6. CASE s # "PAID"
  <2>1. Listed(batch, "", "all", s) = {e \in Unpaid : batch[e].status = s}
    BY <1>1, <1>2, <1>4, <1>6
  <2>2. StatusCounts(batch)[s] = Cardinality({e \in Unpaid : batch[e].status = s})
    BY <1>6 DEF StatusCounts
  <2>3. s = "OVERDUE" => Listed(batch, "", "all", s) = Scoped("overdue")
    BY <1>1, <1>2, <1>3, <2>1
  <2> QED  BY <1>4, <1>6, <2>1, <2>2, <2>3
<1> QED  BY <1>5, <1>6

LEMMA AgreeByTypes == TypeInv => PagesAgree
<1> SUFFICES ASSUME TypeInv PROVE PagesAgree
  OBVIOUS
<1> DEFINE batch == [e \in Stored |-> Batch(e)]
           page == [e \in Stored |-> Detail(e)]
           debts == MapThenSumSet(RemainingDebt, Unpaid)
<1>1. ASSUME NEW e \in Stored
      PROVE  /\ expense[e] \in ExpenseRow
             /\ page[e].status \in {"PAID", "OVERDUE"} =>
                  [batch[e] EXCEPT !.card_balance = 0, !.upstream = 0] = page[e]
             /\ page[e].status \notin {"PAID", "OVERDUE"} =>
                  /\ batch[e].card_balance = page[e].card_balance
                  /\ batch[e].upstream = page[e].upstream + AmountOf(TiedAhead(e))
                  /\ TiedAhead(e) = {} => batch[e] = page[e]
  <2>1. batch[e] = Batch(e) /\ page[e] = Detail(e)  OBVIOUS
  <2> HIDE DEF batch, page
  <2>2. expense[e] \in ExpenseRow  BY StoredRow
  <2> QED  BY <2>1, <2>2, BatchIsDetail, Zenon
<1>2. ASSUME NEW s \in Statuses
      PROVE  /\ StatusCounts(batch)[s] = Cardinality(Listed(batch, "", "all", s))
             /\ Listed(batch, "", "unpaid", s)
                  = IF s = "PAID" THEN {} ELSE Listed(batch, "", "all", s)
             /\ s = "OVERDUE" => Listed(batch, "", "all", s) = Scoped("overdue")
  BY ListsAgree
<1>3. /\ TotalRemaining <= debts
      /\ (\A e \in Unpaid : Allocated(e) <= expense[e].amount) => TotalRemaining = debts
  BY SummaryAgrees
<1> QED  BY <1>1, <1>2, <1>3, Zenon DEF PagesAgree

\* The list, the filter and the summary show what the pages of the expenses show, up to
\* those tied in due_date and created_at (batch_calculate_metrics against
\* calculate_liquidity_metrics), for every number of expenses, payments and categories,
\* every amount and every date.
THEOREM PagesAgreeHolds == Spec => []PagesAgree
BY TypeInvHolds, AgreeByTypes, PTL

-----------------------------------------------------------------------------
(* The queue after a payment *)

\* What is linked to the withdrawals of a card.
Withdrawn(c) == {e \in Expenses : withdrawal[e] # None /\ withdrawal[e].card_type = c}

LEMMA WithdrawnFinite ==
  ASSUME TypeInv, NEW c
  PROVE  /\ IsFiniteSet(Withdrawn(c)) /\ Withdrawn(c) \subseteq Expenses
         /\ \A e \in Withdrawn(c) : withdrawal[e] \in WithdrawalRow /\ withdrawal[e].amount \in Int
<1>1. Withdrawn(c) \in SUBSET Stored  BY DEF TypeInv, Withdrawn
<1>2. IsFiniteSet(Withdrawn(c))  BY <1>1, FS_Subset DEF TypeInv
<1>3. \A e \in Withdrawn(c) : withdrawal[e] \in WithdrawalRow  BY DEF TypeInv, Withdrawn
<1>4. \A e \in Withdrawn(c) : withdrawal[e].amount \in Amounts  BY <1>3 DEF WithdrawalRow
<1> QED  BY <1>1, <1>2, <1>3, <1>4 DEF Withdrawn

LEMMA BalanceIs ==
  ASSUME TypeInv, NEW c \in Categories
  PROVE  /\ Balance(c) = card[c]
                - Total(Withdrawn(c), [e \in Withdrawn(c) |-> withdrawal[e].amount])
         /\ Balance(c) \in Int
<1> PICK W, a : W = Withdrawn(c) /\ a = [e \in W |-> withdrawal[e].amount]  OBVIOUS
<1>1. IsFiniteSet(W) /\ \A e \in W : a[e] \in Int  BY WithdrawnFinite
<1>2. Balance(c) = card[c] - Total(W, a)  BY <1>1, SumOfAmounts DEF Balance, Withdrawn
<1>3. Total(W, a) \in Int /\ card[c] \in Int  BY <1>1, TotalType DEF TypeInv
<1> QED  BY <1>2, <1>3

LEMMA BalanceNext ==
  ASSUME NEW CONSTANT c
  PROVE  TypeInv' /\ c \in Categories => Balance(c)' = card'[c]
           - Total(Withdrawn(c)', [x \in Withdrawn(c)' |-> withdrawal'[x].amount])
<1>1. TypeInv /\ c \in Categories => Balance(c) = card[c]
        - Total(Withdrawn(c), [x \in Withdrawn(c) |-> withdrawal[x].amount])
  BY BalanceIs
<1>2. (TypeInv /\ c \in Categories => Balance(c) = card[c]
        - Total(Withdrawn(c), [x \in Withdrawn(c) |-> withdrawal[x].amount]))'
  BY <1>1, PTL
<1> QED  BY <1>2

LEMMA UpstreamNext ==
  ASSUME NEW CONSTANT e
  PROVE  TypeInv' => AmountOf(Upstream(e))'
           = Total(Upstream(e)', [x \in Upstream(e)' |-> expense'[x].amount])
<1>1. TypeInv => AmountOf(Upstream(e))
        = Total(Upstream(e), [x \in Upstream(e) |-> expense[x].amount])
  BY UpstreamType
<1>2. (TypeInv => AmountOf(Upstream(e))
        = Total(Upstream(e), [x \in Upstream(e) |-> expense[x].amount]))'
  BY <1>1, PTL
<1> QED  BY <1>2

LEMMA IncomingType ==
  ASSUME TypeInv, NEW e \in Stored
  PROVE  ExpectedIncoming(e) \in Nat
<1> PICK s, d : s = Share[expense[e].category] /\ d = AtLeastZero(DaysRemaining(e))  OBVIOUS
<1>1. s \in Nat  BY StoredRow
<1>2. d \in Nat  BY StoredRow DEF TypeInv, AtLeastZero, DaysRemaining
<1>3. revenue * s \in Nat  BY <1>1 DEF TypeInv
<1>4. revenue * s * d \in Nat  BY <1>2, <1>3
<1> QED  BY <1>4 DEF ExpectedIncoming

\* Only its confirmation makes an expense paid.
LEMMA OnlyConfirmPays ==
  ASSUME TypeInv, [Next]_vars, NEW e \in Unpaid, expense'[e] # Absent, expense'[e].is_paid
  PROVE  ConfirmPayment(e)
<1>1. /\ e \in Expenses /\ e \in Stored /\ expense[e] # Absent /\ ~expense[e].is_paid
      /\ expense \in [Expenses -> ExpenseRow \cup {Absent}]
  BY DEF Unpaid, Stored, TypeInv
<1>2. expense' # expense  BY <1>1
<1>3. PICK x \in Expenses : ExpenseRequest(x)
  BY <1>2 DEF Next, PaymentRequest, AddPayment, DeletePayment, ChangeCard, SetRevenue,
              NextDay, vars
<1>4. ASSUME NEW c \in Categories, NEW amount \in Amounts, NEW due \in DueDates,
             CreateExpense(x, c, amount, due)
      PROVE  FALSE
  <2>1. x \notin Stored  BY <1>4 DEF CreateExpense
  <2>2. expense'[e] = expense[e]  BY <1>1, <1>4, <2>1 DEF CreateExpense
  <2> QED  BY <1>1, <2>2
<1>5. ASSUME NEW c \in Categories, NEW amount \in Amounts, NEW due \in DueDates,
             UpdateExpense(x, c, amount, due)
      PROVE  FALSE
  <2>1. expense' = [expense EXCEPT ![x] =
          [category |-> c, amount |-> amount, due_date |-> due,
           created_at |-> expense[x].created_at, is_paid |-> expense[x].is_paid]]
    BY <1>5 DEF UpdateExpense
  <2>2. expense'[e].is_paid = expense[e].is_paid
    <3>1. CASE x = e  BY <1>1, <2>1, <3>1
    <3>2. CASE x # e  BY <1>1, <2>1, <3>2
    <3> QED  BY <3>1, <3>2
  <2> QED  BY <1>1, <2>2
<1>6. CASE DestroyExpense(x)
  <2>1. expense' = [expense EXCEPT ![x] = Absent]  BY <1>6 DEF DestroyExpense
  <2>2. expense'[e] = expense[e] \/ expense'[e] = Absent  BY <1>1, <2>1
  <2> QED  BY <1>1, <2>2
<1>7. CASE ConfirmPayment(x)
  <2>1. expense' = [expense EXCEPT ![x].is_paid = TRUE]  BY <1>7 DEF ConfirmPayment
  <2>2. x # e => expense'[e] = expense[e]  BY <1>1, <2>1
  <2> QED  BY <1>1, <1>7, <2>2
<1>8. CASE UnconfirmPayment(x)
  <2>1. x \notin Unpaid  BY <1>8 DEF UnconfirmPayment
  <2>2. expense'[e] = expense[e]  BY <1>1, <1>8, <2>1 DEF UnconfirmPayment
  <2> QED  BY <1>1, <2>2
<1>9. CASE DeleteWithdrawal(x)  BY <1>2, <1>9 DEF DeleteWithdrawal
<1> QED  BY <1>3, <1>4, <1>5, <1>6, <1>7, <1>8, <1>9 DEF ExpenseRequest

\* Nothing but the flag changes in the table of expenses.
LEMMA ConfirmKeepsRows ==
  ASSUME TypeInv, NEW e \in Expenses, ConfirmPayment(e)
  PROVE  /\ Stored' = Stored
         /\ \A x \in Stored : /\ expense'[x].category = expense[x].category
                              /\ expense'[x].amount = expense[x].amount
                              /\ expense'[x].due_date = expense[x].due_date
                              /\ expense'[x].created_at = expense[x].created_at
         /\ expense'[e].is_paid
         /\ \A x \in Stored \ {e} : expense'[x] = expense[x]
<1>1. e \in Unpaid /\ expense' = [expense EXCEPT ![e].is_paid = TRUE]  BY DEF ConfirmPayment
<1>2. e \in Stored  BY <1>1 DEF Unpaid
<1>3. /\ expense[e] \in ExpenseRow /\ expense \in [Expenses -> ExpenseRow \cup {Absent}]
      /\ Stored \subseteq Expenses
  BY <1>2, StoredRow DEF TypeInv, Stored
<1> PICK r : r = [expense[e] EXCEPT !.is_paid = TRUE]  OBVIOUS
<1>4. /\ r.category = expense[e].category /\ r.amount = expense[e].amount
      /\ r.due_date = expense[e].due_date /\ r.created_at = expense[e].created_at
      /\ r.is_paid /\ r \in ExpenseRow
  BY <1>3 DEF ExpenseRow
<1>5. expense' = [expense EXCEPT ![e] = r]  BY <1>1
<1>6. expense'[e] = r /\ \A x \in Stored \ {e} : expense'[x] = expense[x]  BY <1>3, <1>5
<1>7. r # Absent  BY <1>4, SentinelAssumption
<1>8. Stored' = Stored  BY <1>2, <1>3, <1>5, <1>7 DEF Stored
<1> QED  BY <1>4, <1>6, <1>8

\* The amount goes off the card.
LEMMA ConfirmTakes ==
  ASSUME TypeInv, TypeInv', NEW e \in Expenses, ConfirmPayment(e),
         NEW c \in Categories, c = expense[e].category
  PROVE  Balance(c)' = Balance(c) - expense[e].amount
<1> PICK n, r : n = expense[e].amount /\ r = [card_type |-> c, amount |-> n]  OBVIOUS
<1>1. e \in Stored /\ withdrawal[e] = None /\ card' = card
  BY DEF ConfirmPayment, Unpaid
<1>2. n \in Int /\ n \in Amounts  BY <1>1, StoredRow
<1>3. r \in WithdrawalRow /\ r # None /\ r.card_type = c /\ r.amount = n
  <2>1. r \in WithdrawalRow  BY <1>2 DEF WithdrawalRow
  <2> QED  BY <2>1, SentinelAssumption
<1>4. withdrawal' = [withdrawal EXCEPT ![e] = r]  BY DEF ConfirmPayment
<1>5. withdrawal'[e] = r /\ \A x \in Expenses \ {e} : withdrawal'[x] = withdrawal[x]
  BY <1>4 DEF TypeInv
<1>a. PICK V : V = Withdrawn(c)  OBVIOUS
<1>6. e \notin V  BY <1>1, <1>a DEF Withdrawn
<1>7. Withdrawn(c)' = V \cup {e}  BY <1>3, <1>5, <1>a DEF Withdrawn
<1>b. PICK a, b : /\ a = [x \in V |-> withdrawal[x].amount]
                  /\ b = [x \in V \cup {e} |-> withdrawal'[x].amount]
  OBVIOUS
<1>8. IsFiniteSet(V) /\ V \subseteq Expenses /\ \A x \in V : a[x] \in Int
  BY <1>a, <1>b, WithdrawnFinite
<1>9. b[e] = n /\ \A x \in V : a[x] = b[x]  BY <1>3, <1>5, <1>6, <1>8, <1>b
<1>10. \A x \in V \cup {e} : b[x] \in Int  BY <1>2, <1>8, <1>9
<1>11. Total(V \cup {e}, b) = b[e] + Total(V, a)
  <2>1. PICK T : T = V \cup {e}  OBVIOUS
  <2>2. \A x \in T : b[x] \in Int  BY <1>10, <2>1
  <2>3. IsFiniteSet(T)  BY <1>8, <2>1, FS_AddElement
  <2>4. e \in T /\ T \ {e} = V  BY <1>6, <2>1
  <2>5. Total(T, b) = b[e] + Total(T \ {e}, b)  BY <2>2, <2>3, <2>4, TotalRemoves
  <2>6. Total(V, a) = Total(V, b)  BY <1>8, <1>9, TotalAgrees
  <2> QED  BY <2>1, <2>4, <2>5, <2>6
<1>12. Balance(c) = card[c] - Total(V, a)  BY <1>a, <1>b, BalanceIs
<1>13. Balance(c)' = card'[c] - Total(V \cup {e}, b)
  <2>1. Balance(c)' = card'[c]
          - Total(Withdrawn(c)', [x \in Withdrawn(c)' |-> withdrawal'[x].amount])
    BY BalanceNext
  <2> QED  BY <1>7, <1>b, <2>1
<1>14. Total(V, a) \in Int /\ card[c] \in Int  BY <1>8, TotalType DEF TypeInv
<1> QED  BY <1>1, <1>2, <1>9, <1>11, <1>12, <1>13, <1>14

\* The expense leaves the queue, in which all others keep their places.
LEMMA ConfirmLeavesQueue ==
  ASSUME TypeInv, TypeInv', NEW e \in Unpaid, ConfirmPayment(e),
         NEW f \in UnpaidIn(expense[e].category) \ {e}
  PROVE  AmountOf(Upstream(f))'
           = AmountOf(Upstream(f)) - IF Before(e, f) THEN expense[e].amount ELSE 0
<1> PICK c, n : c = expense[e].category /\ n = expense[e].amount  OBVIOUS
<1>1. e \in Expenses /\ e \in Stored /\ f \in Stored /\ f # e /\ expense[f].category = c
      /\ e \in UnpaidIn(c)
  BY DEF Unpaid, Stored, UnpaidIn
<1>2. /\ Stored' = Stored /\ expense'[e].is_paid
      /\ \A x \in Stored : /\ expense'[x].category = expense[x].category
                           /\ expense'[x].amount = expense[x].amount
                           /\ expense'[x].due_date = expense[x].due_date
                           /\ expense'[x].created_at = expense[x].created_at
      /\ \A x \in Stored \ {e} : expense'[x] = expense[x]
  BY <1>1, ConfirmKeepsRows
<1>4. \A x, y \in Stored : Before(x, y)' <=> Before(x, y)
  BY <1>2 DEF Before
<1>5. UnpaidIn(c)' = UnpaidIn(c) \ {e}  BY <1>1, <1>2 DEF UnpaidIn, Unpaid
<1> PICK U, V : U = Upstream(f) /\ V = U \ {e}  OBVIOUS
<1>6. U = {x \in UnpaidIn(c) \ {f} : Before(x, f)}  BY <1>1 DEF Upstream
<1>7. UnpaidIn(c) \subseteq Stored  BY DEF UnpaidIn, Unpaid
<1>8. Upstream(f)' = V
  <2>1. expense'[f].category = c  BY <1>1, <1>2
  <2>2. Upstream(f)' = {x \in UnpaidIn(c)' \ {f} : Before(x, f)'}  BY <2>1 DEF Upstream
  <2>3. \A x \in UnpaidIn(c) : Before(x, f)' <=> Before(x, f)  BY <1>1, <1>4, <1>7
  <2> QED  BY <1>5, <1>6, <2>2, <2>3
<1> PICK a, b : a = [x \in U |-> expense[x].amount] /\ b = [x \in V |-> expense'[x].amount]
  OBVIOUS
<1>9. /\ IsFiniteSet(U) /\ U \subseteq Stored /\ AmountOf(U) = Total(U, a)
      /\ AmountOf(U) \in Int
  BY UpstreamType
<1>10. IsFiniteSet(V) /\ V \subseteq U  BY <1>9, FS_Subset
<1>11. AmountOf(Upstream(f))' = Total(V, b)
  <2>1. AmountOf(Upstream(f))'
          = Total(Upstream(f)', [x \in Upstream(f)' |-> expense'[x].amount])
    BY UpstreamNext
  <2> QED  BY <1>8, <2>1
<1>12. \A x \in V : a[x] = b[x]  BY <1>2, <1>9, <1>10
<1>13. Total(V, a) = Total(V, b)  BY <1>10, <1>12, TotalAgrees
<1>14. n \in Int /\ \A x \in U : a[x] \in Int  BY <1>1, <1>9, StoredRow
<1>15. Total(V, a) \in Int  BY <1>10, <1>14, TotalType
<1>16. CASE Before(e, f)
  <2>1. e \in U  BY <1>1, <1>6, <1>16
  <2>2. a[e] = n  BY <2>1
  <2>3. Total(U, a) = n + Total(V, a)  BY <1>9, <1>14, <2>1, <2>2, TotalRemoves
  <2> QED  BY <1>9, <1>11, <1>13, <1>14, <1>15, <1>16, <2>3
<1>17. CASE ~Before(e, f)
  <2>1. V = U  BY <1>6, <1>17
  <2> QED  BY <1>9, <1>11, <1>13, <1>15, <1>17, <2>1
<1> QED  BY <1>16, <1>17

LEMMA PaymentMoves ==
  ASSUME TypeInv, TypeInv', NEW e \in Unpaid, ConfirmPayment(e),
         NEW f \in UnpaidIn(expense[e].category) \ {e}
  PROVE  Cash(f)' = Cash(f) - IF Before(e, f) THEN 0 ELSE 100 * expense[e].amount
<1> PICK c, n, b, u, i : /\ c = expense[e].category /\ n = expense[e].amount
                         /\ b = Balance(c) /\ u = AmountOf(Upstream(f))
                         /\ i = ExpectedIncoming(f)
  OBVIOUS
<1>1. e \in Expenses /\ e \in Stored /\ f \in Stored /\ f # e /\ expense[f].category = c
  BY DEF Unpaid, Stored, UnpaidIn
<1>2. c \in Categories /\ n \in Int  BY <1>1, StoredRow
<1>3. expense'[f] = expense[f]  BY <1>1, ConfirmKeepsRows
<1>4. UNCHANGED <<revenue, today>>  BY DEF ConfirmPayment
<1>5. ExpectedIncoming(f)' = i  BY <1>3, <1>4 DEF ExpectedIncoming, DaysRemaining, AtLeastZero
<1>6. Balance(c)' = b - n  BY <1>1, <1>2, ConfirmTakes
<1>7. AmountOf(Upstream(f))' = u - IF Before(e, f) THEN n ELSE 0  BY ConfirmLeavesQueue
<1>8. b \in Int /\ u \in Int /\ i \in Nat  BY <1>1, <1>2, BalanceIs, UpstreamType, IncomingType
<1>9. Cash(f) = 100 * (b - u) + i  BY <1>1 DEF Cash, Available
<1>10. Cash(f)' = 100 * (Balance(c)' - AmountOf(Upstream(f))') + ExpectedIncoming(f)'
  BY <1>1, <1>3 DEF Cash, Available
<1>11. CASE Before(e, f)  BY <1>2, <1>5, <1>6, <1>7, <1>8, <1>9, <1>10, <1>11
<1>12. CASE ~Before(e, f)  BY <1>2, <1>5, <1>6, <1>7, <1>8, <1>9, <1>10, <1>12
<1> QED  BY <1>11, <1>12

\* Paying an expense leaves the cash of those behind it and takes its amount from those
\* ahead (confirm_payment between two calls of calculate_liquidity_metrics).
THEOREM PayingKeepsDownstreamHolds == Spec => PayingKeepsDownstream
<1>1. TypeInv /\ TypeInv' /\ [Next]_vars =>
        [\A e \in Unpaid : expense'[e] # Absent /\ expense'[e].is_paid =>
           \A f \in UnpaidIn(expense[e].category) \ {e} :
             Cash(f)' = Cash(f) - IF Before(e, f) THEN 0 ELSE 100 * expense[e].amount]_vars
  <2> SUFFICES ASSUME TypeInv, TypeInv', [Next]_vars, NEW e \in Unpaid,
                      expense'[e] # Absent, expense'[e].is_paid,
                      NEW f \in UnpaidIn(expense[e].category) \ {e}
               PROVE  Cash(f)' = Cash(f)
                        - IF Before(e, f) THEN 0 ELSE 100 * expense[e].amount
    OBVIOUS
  <2> QED  BY OnlyConfirmPays, PaymentMoves
<1> QED  BY <1>1, TypeInvHolds, PTL DEF Spec, PayingKeepsDownstream

-----------------------------------------------------------------------------
(* A day passes *)

\* Half-even rounding of a share.
Rounded(whole, rest, available) ==
  whole + IF 2 * rest > available \/ (2 * rest = available /\ whole % 2 = 1) THEN 1 ELSE 0

LEMMA Division ==
  ASSUME NEW n \in Nat, NEW c \in Nat, c > 0
  PROVE  /\ n \div c \in Nat /\ n % c \in Nat /\ n % c < c
         /\ n = c * (n \div c) + (n % c)
OBVIOUS

LEMMA Quotient ==
  ASSUME NEW n \in Int, NEW c \in Int, c > 0
  PROVE  n \div c \in Int /\ n % c \in Int /\ (n < 0 => n \div c < 0)
OBVIOUS

\* Of two divisors the larger has the smaller quotient, or of equal quotients the
\* smaller rest.
LEMMA QuotientGrows ==
  ASSUME NEW n \in Nat, NEW c \in Nat, NEW d \in Nat, d <= c,
         NEW p \in Nat, NEW r \in Nat, n = c * p + r,
         NEW q \in Nat, NEW s \in Nat, s < d, n = d * q + s
  PROVE  p <= q /\ (p = q => r <= s)
<1>1. \A x, y, z \in Nat : x <= y => z * x <= z * y  OBVIOUS
<1>2. \A x, y, z \in Nat : x <= y => x * z <= y * z  OBVIOUS
<1>3. d * p <= c * p  BY <1>2
<1>4. c * p \in Nat /\ d * p \in Nat /\ d * q \in Nat  OBVIOUS
<1>5. q + 1 <= p => d * q + d <= d * p
  <2>1. q + 1 \in Nat /\ d * (q + 1) = d * q + d  OBVIOUS
  <2>2. q + 1 <= p => d * (q + 1) <= d * p  BY <1>1, <2>1
  <2> QED  BY <2>1, <2>2
<1> PICK u, v, w : u = c * p /\ v = d * p /\ w = d * q  OBVIOUS
<1>6. u \in Nat /\ v \in Nat /\ w \in Nat /\ v <= u  BY <1>3, <1>4
<1>7. u + r = w + s  OBVIOUS
<1>8. q + 1 <= p => w + d <= v  BY <1>5
<1>9. ~ (q + 1 <= p)  BY <1>6, <1>7, <1>8
<1>10. p = q => w = v  OBVIOUS
<1>11. w = v => r <= s  BY <1>6, <1>7
<1> QED  BY <1>9, <1>10, <1>11

\* Half-even rounding keeps that order.
LEMMA RoundingGrows ==
  ASSUME NEW c \in Nat, NEW d \in Nat, d <= c, NEW p \in Nat, NEW r \in Nat,
         NEW q \in Nat, NEW s \in Nat, p <= q, p = q => r <= s
  PROVE  Rounded(p, r, c) <= Rounded(q, s, d)
<1>1. /\ Rounded(p, r, c) \in Int /\ Rounded(q, s, d) \in Int
      /\ Rounded(p, r, c) <= p + 1 /\ q <= Rounded(q, s, d)
  BY DEF Rounded
<1>2. CASE p # q  BY <1>1, <1>2
<1>3. CASE p = q /\ (2 * s > d \/ (2 * s = d /\ q % 2 = 1))
  <2>1. Rounded(q, s, d) = q + 1  BY <1>3 DEF Rounded
  <2> QED  BY <1>1, <1>3, <2>1
<1>4. CASE p = q /\ ~ (2 * s > d \/ (2 * s = d /\ q % 2 = 1))
  <2>1. ~ (2 * r > c \/ (2 * r = c /\ p % 2 = 1))  BY <1>4
  <2>2. Rounded(p, r, c) = p  BY <2>1 DEF Rounded
  <2> QED  BY <1>1, <1>4, <2>2
<1> QED  BY <1>2, <1>3, <1>4

\* The less there is, the larger the share that is rounded.
LEMMA RoundedGrows ==
  ASSUME NEW n \in Nat, NEW c \in Nat, NEW d \in Nat, 0 < d, d <= c
  PROVE  Rounded(n \div c, n % c, c) <= Rounded(n \div d, n % d, d)
<1>1. /\ n \div c \in Nat /\ n % c \in Nat /\ n = c * (n \div c) + (n % c)
      /\ n \div d \in Nat /\ n % d \in Nat /\ n % d < d /\ n = d * (n \div d) + (n % d)
  BY Division
<1>a. PICK p, r, q, s : p = n \div c /\ r = n % c /\ q = n \div d /\ s = n % d  OBVIOUS
<1>2. /\ p \in Nat /\ r \in Nat /\ n = c * p + r
      /\ q \in Nat /\ s \in Nat /\ s < d /\ n = d * q + s
  BY <1>1, <1>a, Zenon
<1>3. p <= q /\ (p = q => r <= s)  BY <1>2, QuotientGrows
<1>4. Rounded(p, r, c) <= Rounded(q, s, d)  BY <1>2, <1>3, RoundingGrows
<1> QED  BY <1>4, <1>a, Zenon

LEMMA RatioGrows ==
  ASSUME NEW a \in Nat, NEW c \in Int, NEW d \in Int, 0 < d, d <= c
  PROVE  /\ Ratio(a, c) <= Ratio(a, d) /\ Ratio(a, c) \in Int /\ Ratio(a, d) \in Int
<1>a. PICK n : n = 1000000 * a  BY SMT
<1>1. n \in Nat /\ c \in Nat /\ d \in Nat  BY <1>a, SMT
<1>2. Ratio(a, c) = Rounded(n \div c, n % c, c) /\ Ratio(a, d) = Rounded(n \div d, n % d, d)
  BY <1>a, SMT DEF Ratio, Rounded
<1>3. \A x, y, z \in Int : Rounded(x, y, z) \in Int  BY DEF Rounded
<1>4. n \div c \in Int /\ n % c \in Int /\ n \div d \in Int /\ n % d \in Int
  BY <1>1, Division
<1>5. Rounded(n \div c, n % c, c) <= Rounded(n \div d, n % d, d)  BY <1>1, RoundedGrows
<1>6. Rounded(n \div c, n % c, c) \in Int /\ Rounded(n \div d, n % d, d) \in Int
  BY <1>1, <1>3, <1>4
<1> QED  BY <1>2, <1>5, <1>6

\* A ratio is an integer, and that of a negative amount is not positive.
LEMMA RatioType ==
  ASSUME NEW a \in Int, NEW c \in Int, c > 0
  PROVE  Ratio(a, c) \in Int /\ (a < 0 => Ratio(a, c) <= 0)
<1>a. PICK n : n = 1000000 * a  BY SMT
<1>1. n \in Int /\ (a < 0 => n < 0)  BY <1>a, SMT
<1>2. Ratio(a, c) = Rounded(n \div c, n % c, c)  BY <1>a, SMT DEF Ratio, Rounded
<1>3. n \div c \in Int /\ n % c \in Int /\ (n < 0 => n \div c < 0)  BY <1>1, Quotient
<1>b. PICK p, s : p = n \div c /\ s = n % c  OBVIOUS
<1>4. Rounded(p, s, c) \in Int /\ Rounded(p, s, c) <= p + 1
  BY <1>3, <1>b DEF Rounded
<1>5. p < 0 => p + 1 <= 0  BY <1>3, <1>b
<1>6. Ratio(a, c) = Rounded(p, s, c)  BY <1>2, <1>b, Zenon
<1> QED  BY <1>1, <1>3, <1>4, <1>5, <1>6, <1>b

\* The order of the statuses.
LEMMA SeverityIs ==
  /\ Severity("EXCELLENT") = 0 /\ Severity("NORMAL") = 1 /\ Severity("WARNING") = 2
  /\ Severity("CRITICAL") = 3 /\ Severity("OVERDUE") = 4
<1>1. \A n \in 0 .. 4 : n = 0 \/ n = 1 \/ n = 2 \/ n = 3 \/ n = 4  OBVIOUS
<1> PICK q : q = <<"EXCELLENT", "NORMAL", "WARNING", "CRITICAL", "OVERDUE">>  OBVIOUS
<1>2. /\ q[0 + 1] = "EXCELLENT" /\ q[1 + 1] = "NORMAL" /\ q[2 + 1] = "WARNING"
      /\ q[3 + 1] = "CRITICAL" /\ q[4 + 1] = "OVERDUE"
  OBVIOUS
<1>3. \A s : Severity(s) = CHOOSE n \in 0 .. 4 : q[n + 1] = s  BY DEF Severity
<1>4. ASSUME NEW k \in 0 .. 4 PROVE Severity(q[k + 1]) = k
  <2>1. \A n \in 0 .. 4 : q[n + 1] = q[k + 1] => n = k  BY <1>1, <1>2
  <2> QED  BY <1>3, <2>1
<1> QED  BY <1>2, <1>4

LEMMA StatusGrows ==
  ASSUME NEW r \in Int, NEW s \in Int, r <= s
  PROVE  /\ Severity(StatusOf(r)) <= Severity(StatusOf(s))
         /\ Severity(StatusOf(r)) \in 0 .. 3 /\ Severity(StatusOf(s)) \in 0 .. 3
BY SeverityIs, SMT DEF StatusOf

\* The status of an unpaid expense, from what it depends on.
Shown(days, amount, cash) ==
  IF days < 0 THEN "OVERDUE" ELSE StatusOf(Pressure(amount, cash))

\* Without cash the pressure is the largest.
LEMMA PressureStatus ==
  ASSUME NEW a \in Int, NEW c \in Int
  PROVE  /\ Severity(StatusOf(Pressure(a, c))) \in 0 .. 3
         /\ c <= 0 => Severity(StatusOf(Pressure(a, c))) = 3
<1>1. CASE c > 0
  <2>1. Ratio(a, c) \in Int  BY <1>1, RatioType
  <2>2. Severity(StatusOf(Ratio(a, c))) \in 0 .. 3  BY <2>1, StatusGrows
  <2>3. Pressure(a, c) = Ratio(a, c)  BY <1>1 DEF Pressure
  <2> QED  BY <1>1, <2>2, <2>3
<1>2. CASE c <= 0
  <2>1. StatusOf(Pressure(a, c)) = "CRITICAL"  BY <1>2, SMT DEF Pressure, StatusOf
  <2> QED  BY <2>1, SeverityIs
<1> QED  BY <1>1, <1>2

\* The less cash there is, the worse the status; a negative amount is always excellent
\* while there is cash.
LEMMA PressureGrows ==
  ASSUME NEW a \in Int, NEW c \in Int, NEW d \in Int, d <= c
  PROVE  Severity(StatusOf(Pressure(a, c))) <= Severity(StatusOf(Pressure(a, d)))
<1>1. CASE d <= 0
  <2>1. Severity(StatusOf(Pressure(a, d))) = 3  BY <1>1, PressureStatus
  <2>2. Severity(StatusOf(Pressure(a, c))) \in 0 .. 3  BY PressureStatus
  <2> QED  BY <2>1, <2>2
<1>2. CASE d > 0
  <2>1. Pressure(a, c) = Ratio(a, c) /\ Pressure(a, d) = Ratio(a, d)  BY <1>2 DEF Pressure
  <2>2. CASE a >= 0
    <3>1. a \in Nat  BY <2>2
    <3>2. /\ Ratio(a, c) <= Ratio(a, d) /\ Ratio(a, c) \in Int /\ Ratio(a, d) \in Int
      BY <1>2, <3>1, RatioGrows
    <3> QED  BY <2>1, <3>2, StatusGrows
  <2>3. CASE a < 0
    <3>1. Ratio(a, c) <= 0 /\ Ratio(a, c) \in Int  BY <1>2, <2>3, RatioType
    <3>2. StatusOf(Ratio(a, c)) = "EXCELLENT"  BY <3>1, SMT DEF StatusOf
    <3>3. Severity(StatusOf(Pressure(a, d))) \in 0 .. 3  BY PressureStatus
    <3> QED  BY <2>1, <3>2, <3>3, SeverityIs
  <2> QED  BY <2>2, <2>3
<1> QED  BY <1>1, <1>2

LEMMA ShownGrows ==
  ASSUME NEW a \in Int, NEW days \in Int, NEW less \in Int, less <= days,
         NEW c \in Int, NEW d \in Int, d <= c
  PROVE  Severity(Shown(days, a, c)) <= Severity(Shown(less, a, d))
<1>1. CASE less < 0
  <2>1. Severity(Shown(less, a, d)) = 4  BY <1>1, SeverityIs DEF Shown
  <2>2. Severity(Shown(days, a, c)) \in 0 .. 4
    <3>1. CASE days < 0  BY <3>1, SeverityIs DEF Shown
    <3>2. CASE ~ (days < 0)
      <4>1. Shown(days, a, c) = StatusOf(Pressure(a, c))  BY <3>2 DEF Shown
      <4>2. Severity(StatusOf(Pressure(a, c))) \in 0 .. 3  BY PressureStatus
      <4> QED  BY <4>1, <4>2
    <3> QED  BY <3>1, <3>2
  <2> QED  BY <2>1, <2>2
<1>2. CASE less >= 0
  <2>1. /\ Shown(days, a, c) = StatusOf(Pressure(a, c))
        /\ Shown(less, a, d) = StatusOf(Pressure(a, d))
    BY <1>2 DEF Shown
  <2> QED  BY <2>1, PressureGrows
<1> QED  BY <1>1, <1>2

LEMMA DetailShows ==
  ASSUME NEW CONSTANT e
  PROVE  e \in Unpaid =>
           Detail(e).status = Shown(DaysRemaining(e), expense[e].amount, Cash(e))
<1> SUFFICES ASSUME e \in Unpaid
             PROVE  Detail(e).status = Shown(DaysRemaining(e), expense[e].amount, Cash(e))
  OBVIOUS
<1>1. ~expense[e].is_paid  BY DEF Unpaid
<1> QED  BY <1>1, SMT DEF Detail, Metrics, Shown, Cash

LEMMA DetailShowsNext ==
  ASSUME NEW CONSTANT e
  PROVE  (e \in Unpaid)' =>
           Detail(e)'.status = Shown(DaysRemaining(e)', expense'[e].amount, Cash(e)')
<1>1. (e \in Unpaid =>
         Detail(e).status = Shown(DaysRemaining(e), expense[e].amount, Cash(e)))'
  BY DetailShows, PTL
<1> QED  BY <1>1

LEMMA OnlyNextDay ==
  ASSUME [Next]_vars, today' # today
  PROVE  NextDay
BY DEF Next, ExpenseRequest, PaymentRequest, CreateExpense, UpdateExpense, DestroyExpense,
       ConfirmPayment, UnconfirmPayment, DeleteWithdrawal, AddPayment, DeletePayment,
       ChangeCard, SetRevenue, vars

\* A day less of expected revenue, and nothing else.
LEMMA DayPasses ==
  ASSUME TypeInv, TypeInv', NextDay, NEW e \in Unpaid
  PROVE  Severity(Detail(e).status) <= Severity(Detail(e)'.status)
<1> PICK c, a, s, days : /\ c = expense[e].category /\ a = expense[e].amount
                         /\ s = Share[c] /\ days = DaysRemaining(e)
  OBVIOUS
<1>1. /\ e \in Stored /\ c \in Categories /\ a \in Int /\ s \in Nat /\ days \in Int
      /\ revenue \in Nat /\ today \in Nat
  BY StoredRow DEF Unpaid, DaysRemaining, TypeInv
<1>2. UNCHANGED <<expense, withdrawal, card, revenue>> /\ today' = today + 1
  BY DEF NextDay
<1>3. DaysRemaining(e)' = days - 1
  <2>1. expense[e].due_date \in Int  BY <1>1, StoredRow
  <2> QED  BY <1>1, <1>2, <2>1 DEF DaysRemaining
<1>4. Balance(c)' = Balance(c)
  <2>1. Withdrawn(c)' = Withdrawn(c)  BY <1>2 DEF Withdrawn
  <2>2. Balance(c) = card[c]
          - Total(Withdrawn(c), [x \in Withdrawn(c) |-> withdrawal[x].amount])
    BY <1>1, BalanceIs
  <2>3. Balance(c)' = card'[c]
          - Total(Withdrawn(c)', [x \in Withdrawn(c)' |-> withdrawal'[x].amount])
    BY <1>1, BalanceNext
  <2>4. withdrawal' = withdrawal /\ card' = card  BY <1>2
  <2> QED  BY <2>1, <2>2, <2>3, <2>4, Zenon
<1>5. AmountOf(Upstream(e))' = AmountOf(Upstream(e))
  <2>1. Upstream(e)' = Upstream(e)
    BY <1>2 DEF Upstream, UnpaidIn, Unpaid, Stored, Before
  <2>2. AmountOf(Upstream(e)) = Total(Upstream(e), [x \in Upstream(e) |-> expense[x].amount])
    BY UpstreamType
  <2>3. AmountOf(Upstream(e))'
          = Total(Upstream(e)', [x \in Upstream(e)' |-> expense'[x].amount])
    BY UpstreamNext
  <2>4. expense' = expense  BY <1>2
  <2> QED  BY <2>1, <2>2, <2>3, <2>4, Zenon
<1> PICK f, g, h : f = AtLeastZero(days) /\ g = AtLeastZero(days - 1) /\ h = revenue * s
  OBVIOUS
<1>6. f \in Nat /\ g \in Nat /\ g <= f /\ h \in Nat  BY <1>1 DEF AtLeastZero
<1>7. h * g <= h * f /\ h * g \in Nat /\ h * f \in Nat
  <2>1. \A x, y, z \in Nat : x <= y => z * x <= z * y /\ z * x \in Nat /\ z * y \in Nat
    OBVIOUS
  <2> QED  BY <1>6, <2>1
<1>8. ExpectedIncoming(e) = h * f  BY DEF ExpectedIncoming
<1>9. ExpectedIncoming(e)' = h * g  BY <1>2, <1>3 DEF ExpectedIncoming
<1>10. Cash(e)' <= Cash(e) /\ Cash(e)' \in Int /\ Cash(e) \in Int
  <2>1. Balance(c) \in Int /\ AmountOf(Upstream(e)) \in Int  BY <1>1, BalanceIs, UpstreamType
  <2>2. Cash(e) = 100 * (Balance(c) - AmountOf(Upstream(e))) + ExpectedIncoming(e)
    BY DEF Cash, Available
  <2>3. Cash(e)' = 100 * (Balance(c)' - AmountOf(Upstream(e))') + ExpectedIncoming(e)'
    BY <1>2 DEF Cash, Available
  <2> QED  BY <1>4, <1>5, <1>7, <1>8, <1>9, <2>1, <2>2, <2>3
<1>11. Detail(e).status = Shown(days, a, Cash(e))  BY DetailShows
<1>12. Detail(e)'.status = Shown(days - 1, a, Cash(e)')
  <2>1. (e \in Unpaid)'  BY <1>2 DEF Unpaid, Stored
  <2> QED  BY <1>2, <1>3, <2>1, DetailShowsNext
<1>13. Severity(Shown(days, a, Cash(e))) <= Severity(Shown(days - 1, a, Cash(e)'))
  <2>1. PICK x, y, less : x = Cash(e) /\ y = Cash(e)' /\ less = days - 1  OBVIOUS
  <2>2. x \in Int /\ y \in Int /\ y <= x /\ less \in Int /\ less <= days
    BY <1>1, <1>10, <2>1
  <2>3. Severity(Shown(days, a, x)) <= Severity(Shown(less, a, y))  BY <1>1, <2>2, ShownGrows
  <2> QED  BY <2>1, <2>3
<1> QED  BY <1>11, <1>12, <1>13

\* A day on which nothing else happens makes no unpaid expense look better, over the
\* rounding of the ratio and the boundaries of the statuses and of the due date
\* (calculate_liquidity_metrics on two days).
THEOREM WaitingNeverHelpsHolds == Spec => WaitingNeverHelps
<1>1. TypeInv /\ TypeInv' /\ [Next]_vars =>
        [today' # today => \A e \in Unpaid :
           Severity(Detail(e).status) <= Severity(Detail(e)'.status)]_vars
  BY OnlyNextDay, DayPasses
<1> QED  BY <1>1, TypeInvHolds, PTL DEF Spec, WaitingNeverHelps
=============================================================================
