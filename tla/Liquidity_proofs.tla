-------------------------- MODULE Liquidity_proofs --------------------------
(***************************************************************************)
(* What holds of the liquidity manager for any number of expenses, cheques *)
(* and workers, however their statements interleave and wherever a worker  *)
(* is killed.                                                              *)
(*                                                                         *)
(* A cheque's status and its link are columns of one row and are written   *)
(* by one statement, so they stay in agreement if they agree in every      *)
(* instance that a running handler has yet to save.  Everything else the   *)
(* handlers promise spans several statements: an invariant that says, for  *)
(* each statement a handler may be at, what it has done and what it has    *)
(* yet to do, holds with one worker (PaidInv, FundsInv, LinkedInv,         *)
(* SpendInv, NetInv); with more of them TLC violates the promises.         *)
(***************************************************************************)
EXTENDS Liquidity, FiniteSetsExt, FiniteSetTheorems, TLAPS

-----------------------------------------------------------------------------
(* Sums over finite sets.  The model adds up amounts with MapThenSumSet, which is
   defined by recursion over the subsets of a set.  The recursion defines a function and
   the sum does not depend on the order, by induction over those subsets; the induction
   is stated with a set G, not with an operator, so that it can be applied with
   G == {T \in SUBSET S : ...}. *)

\* The element that the recursion takes out of a set.
Some(s) == CHOOSE x \in s : TRUE

\* The sum of the amounts of the elements of S.
Total(S, amount) == MapThenSumSet(LAMBDA x : amount[x], S)

\* g has the sum of the amounts over every subset of S.
Sums(g, S, amount) ==
  g = [s \in SUBSET S |-> IF s = {} THEN 0 ELSE amount[Some(s)] + g[s \ {Some(s)}]]

\* Induction over the subsets of a finite set: G has every subset of S if it has each
\* whose proper subsets it has.
LEMMA SubsetInduction ==
  ASSUME NEW S, IsFiniteSet(S), NEW G,
         \A T \in SUBSET S : (\A U \in SUBSET T : U # T => U \in G) => T \in G
  PROVE  SUBSET S \subseteq G
  <1> DEFINE Bad == (SUBSET S) \ G
  <1> SUFFICES ASSUME Bad # {}
               PROVE  FALSE
    OBVIOUS
  <1>1. IsWellFoundedOn(StrictSubsetOrdering(S), SUBSET S)
    <2>1. FiniteSubsetsOf(S) = SUBSET S
      BY FS_FiniteSubsetsOfFinite
    <2>2. IsWellFoundedOn(StrictSubsetOrdering(S), FiniteSubsetsOf(S))
      BY FS_StrictSubsetOrderingWellFounded
    <2>3. QED
      BY <2>1, <2>2, Zenon
  <1>2. Bad \subseteq SUBSET S
    OBVIOUS
  <1> HIDE DEF Bad
  <1>3. PICK T \in Bad : \A U \in Bad : ~ (<<U, T>> \in StrictSubsetOrdering(S))
    <2> DEFINE R == StrictSubsetOrdering(S)
               D == SUBSET S
    <2>1. IsWellFoundedOn(R, D) /\ Bad \subseteq D
      BY <1>1, <1>2
    <2> HIDE DEF R, D
    <2>2. \E T \in Bad : \A U \in Bad : ~ (<<U, T>> \in R)
      BY <2>1, WFMin
    <2>3. QED
      BY <2>2 DEF R
  <1>4. \A U \in SUBSET T : U # T => U \in G
    BY <1>2, <1>3 DEF StrictSubsetOrdering, Bad
  <1>5. QED
    BY <1>2, <1>3, <1>4 DEF Bad

LEMMA SomeIn == \A s : s # {} => Some(s) \in s
  BY DEF Some

\* Sums over a common subset are equal if the amounts there are.
LEMMA SumsAgree ==
  ASSUME NEW S, IsFiniteSet(S), NEW T, NEW U, NEW a, NEW b, NEW g, NEW h,
         Sums(g, T, a), Sums(h, U, b), S \subseteq T, S \subseteq U,
         \A x \in S : a[x] = b[x]
  PROVE  \A s \in SUBSET S : g[s] = h[s]
  <1> DEFINE G == {s \in SUBSET S : g[s] = h[s]}
  <1>1. ASSUME NEW s \in SUBSET S, \A u \in SUBSET s : u # s => u \in G
        PROVE  s \in G
    <2>1. CASE s = {}
      BY <2>1 DEF Sums
    <2>2. CASE s # {}
      <3> DEFINE x == Some(s)
      <3>1. x \in s
        BY <2>2, SomeIn
      <3>2. g[s \ {x}] = h[s \ {x}]
        BY <1>1, <3>1
      <3>3. g[s] = a[x] + g[s \ {x}] /\ h[s] = b[x] + h[s \ {x}]
        BY <2>2 DEF Sums
      <3>4. a[x] = b[x]
        BY <3>1
      <3>5. QED
        BY <3>2, <3>3, <3>4
    <2>3. QED
      BY <2>1, <2>2
  <1> HIDE DEF G
  <1>2. SUBSET S \subseteq G
    BY <1>1, SubsetInduction
  <1>3. QED
    BY <1>2 DEF G

\* The sums of amounts over the subsets of a finite set exist.
LEMMA SumsExist ==
  ASSUME NEW S, IsFiniteSet(S), NEW a
  PROVE  \E g : Sums(g, S, a)
  <1> DEFINE G == {T \in SUBSET S : \E g : Sums(g, T, a)}
             F == [T \in SUBSET S |-> CHOOSE g : Sums(g, T, a)]
  <1>1. ASSUME NEW T \in SUBSET S, \A U \in SUBSET T : U # T => U \in G
        PROVE  T \in G
    <2>0. \A U \in SUBSET T : U # T => Sums(F[U], U, a)
      <3>1. \A U \in SUBSET T : U # T => \E g : Sums(g, U, a)
        BY <1>1
      <3>2. QED
        BY <3>1
    <2> HIDE DEF F
    <2> DEFINE h == [s \in SUBSET T |->
                       IF s = {} THEN 0
                       ELSE a[Some(s)] + F[s \ {Some(s)}][s \ {Some(s)}]]
    <2>1. ASSUME NEW s \in SUBSET T, s # {}
          PROVE  F[s \ {Some(s)}][s \ {Some(s)}] = h[s \ {Some(s)}]
      <3> DEFINE u == s \ {Some(s)}
      <3>1. Some(s) \in s
        BY <2>1, SomeIn
      <3>2. u \in SUBSET T /\ u # T /\ Sums(F[u], u, a)
        BY <2>0, <3>1
      <3>3. CASE u = {}
        BY <3>2, <3>3 DEF Sums
      <3>4. CASE u # {}
        <4> DEFINE v == u \ {Some(u)}
        <4>1. Some(u) \in u
          BY <3>4, SomeIn
        <4>2. v \in SUBSET T /\ v # T /\ v \subseteq u /\ IsFiniteSet(v)
          BY <3>2, <4>1, FS_Subset
        <4>3. Sums(F[v], v, a)
          BY <2>0, <4>2
        <4>4. F[u][v] = F[v][v]
          <5> HIDE DEF u, v
          <5> QED BY <3>2, <4>2, <4>3, SumsAgree
        <4>5. F[u][u] = a[Some(u)] + F[u][v]
          BY <3>2, <3>4 DEF Sums
        <4>6. h[u] = a[Some(u)] + F[v][v]
          BY <3>2, <3>4
        <4>7. QED
          BY <4>4, <4>5, <4>6
      <3>5. QED
        BY <3>3, <3>4
    <2>2. h = [s \in SUBSET T |-> IF s = {} THEN 0 ELSE a[Some(s)] + h[s \ {Some(s)}]]
      BY <2>1
    <2>3. QED
      BY <2>2 DEF Sums
  <1> HIDE DEF G
  <1>2. SUBSET S \subseteq G
    BY <1>1, SubsetInduction
  <1>3. QED
    BY <1>2 DEF G

LEMMA TotalUnfolds ==
  ASSUME NEW S, IsFiniteSet(S), NEW a
  PROVE  \E g : Sums(g, S, a) /\ Total(S, a) = g[S]
  <1> DEFINE iter == CHOOSE g : g = [s \in SUBSET S |-> IF s = {} THEN 0
                     ELSE a[CHOOSE x \in s : TRUE] + g[s \ {CHOOSE x \in s : TRUE}]]
  <1>1. Total(S, a) = iter[S]
    BY DEF Total, MapThenSumSet, MapThenFoldSet
  <1>2. \E g : g = [s \in SUBSET S |-> IF s = {} THEN 0
                     ELSE a[CHOOSE x \in s : TRUE] + g[s \ {CHOOSE x \in s : TRUE}]]
    <2>1. \E g : Sums(g, S, a)
      BY SumsExist
    <2>2. QED
      BY <2>1, Zenon DEF Sums, Some
  <1>3. Sums(iter, S, a)
    BY <1>2, Zenon DEF Sums, Some
  <1>4. QED
    BY <1>1, <1>3

\* Any function with these sums gives the total.
LEMMA TotalIs ==
  ASSUME NEW S, IsFiniteSet(S), NEW a, NEW g, Sums(g, S, a)
  PROVE  Total(S, a) = g[S]
  <1>1. PICK h : Sums(h, S, a) /\ Total(S, a) = h[S]
    BY TotalUnfolds
  <1>2. QED
    BY <1>1, SumsAgree

\* Sums of naturals are naturals.
LEMMA SumsType ==
  ASSUME NEW S, IsFiniteSet(S), NEW a, \A x \in S : a[x] \in Int, NEW g, Sums(g, S, a)
  PROVE  \A s \in SUBSET S : g[s] \in Int
  <1> DEFINE G == {s \in SUBSET S : g[s] \in Int}
  <1>1. ASSUME NEW s \in SUBSET S, \A u \in SUBSET s : u # s => u \in G
        PROVE  s \in G
    <2>1. CASE s = {}
      BY <2>1 DEF Sums
    <2>2. CASE s # {}
      <3> DEFINE x == Some(s)
      <3>1. x \in s
        BY <2>2, SomeIn
      <3>2. g[s \ {x}] \in Int /\ a[x] \in Int
        BY <1>1, <3>1
      <3>3. g[s] = a[x] + g[s \ {x}]
        BY <2>2 DEF Sums
      <3>4. QED
        BY <3>2, <3>3
    <2>3. QED
      BY <2>1, <2>2
  <1> HIDE DEF G
  <1>2. SUBSET S \subseteq G
    BY <1>1, SubsetInduction
  <1>3. QED
    BY <1>2 DEF G

\* The total of integers is an integer, and that of nothing is zero.
LEMMA TotalType ==
  ASSUME NEW S, IsFiniteSet(S), NEW a, \A x \in S : a[x] \in Int
  PROVE  Total(S, a) \in Int
  <1>1. PICK g : Sums(g, S, a) /\ Total(S, a) = g[S]
    BY TotalUnfolds
  <1>2. QED
    BY <1>1, SumsType

LEMMA TotalOfNothing ==
  ASSUME NEW a
  PROVE  Total({}, a) = 0
  <1>1. IsFiniteSet({})
    BY FS_EmptySet
  <1>2. PICK g : Sums(g, {}, a) /\ Total({}, a) = g[{}]
    BY <1>1, TotalUnfolds
  <1>3. QED
    BY <1>2 DEF Sums

\* Sums of the same amounts are equal.
LEMMA TotalAgrees ==
  ASSUME NEW S, IsFiniteSet(S), NEW a, NEW b, \A x \in S : a[x] = b[x]
  PROVE  Total(S, a) = Total(S, b)
  <1>1. PICK g : Sums(g, S, a) /\ Total(S, a) = g[S]
    BY TotalUnfolds
  <1>2. PICK h : Sums(h, S, b) /\ Total(S, b) = h[S]
    BY TotalUnfolds
  <1>3. QED
    BY <1>1, <1>2, SumsAgree

\* A sum does not depend on the order: any amount can be taken out.
LEMMA TotalRemoves ==
  ASSUME NEW S, IsFiniteSet(S), NEW a, \A x \in S : a[x] \in Int, NEW y \in S
  PROVE  Total(S, a) = a[y] + Total(S \ {y}, a)
  <1>1. PICK g : Sums(g, S, a) /\ Total(S, a) = g[S]
    BY TotalUnfolds
  <1> DEFINE R == S \ {y}
  <1>2. IsFiniteSet(R) /\ R \subseteq S
    BY FS_Subset
  <1>3. PICK h : Sums(h, R, a) /\ Total(R, a) = h[R]
    BY <1>2, TotalUnfolds
  <1>4. Total(R, a) = g[R]
    BY <1>1, <1>2, <1>3, SumsAgree
  <1>5. \A s \in SUBSET S : g[s] \in Int
    BY <1>1, SumsType
  <1> DEFINE G == {s \in SUBSET S : \A x \in s : g[s] = a[x] + g[s \ {x}]}
  <1>6. ASSUME NEW s \in SUBSET S, \A u \in SUBSET s : u # s => u \in G
        PROVE  s \in G
    <2> SUFFICES ASSUME NEW x \in s
                 PROVE  g[s] = a[x] + g[s \ {x}]
      OBVIOUS
    <2> DEFINE z == Some(s)
    <2>1. z \in s
      BY SomeIn
    <2>2. g[s] = a[z] + g[s \ {z}]
      BY <1>1 DEF Sums
    <2>3. CASE x = z
      BY <2>2, <2>3
    <2>4. CASE x # z
      <3>1. s \ {z} \in G /\ s \ {x} \in G
        BY <1>6, <2>1
      <3>2. g[s \ {z}] = a[x] + g[(s \ {z}) \ {x}]
        BY <2>4, <3>1
      <3>3. g[s \ {x}] = a[z] + g[(s \ {x}) \ {z}]
        BY <2>1, <2>4, <3>1
      <3>4. (s \ {z}) \ {x} = (s \ {x}) \ {z}
        OBVIOUS
      <3>5. a[x] \in Int /\ a[z] \in Int /\ g[(s \ {x}) \ {z}] \in Int
        BY <1>5, <2>1
      <3> HIDE DEF z
      <3>6. g[s] = a[z] + (a[x] + g[(s \ {x}) \ {z}])
        BY <2>2, <3>2, <3>4
      <3>7. QED
        BY <3>3, <3>5, <3>6
    <2>5. QED
      BY <2>3, <2>4
  <1>7. SUBSET S \subseteq G
    <2> HIDE DEF G
    <2> QED BY <1>6, SubsetInduction
  <1>8. QED
    BY <1>1, <1>4, <1>7

USE LiquidityAssumption

\* What SpentIffLinked says of one cheque.
Agrees(r) == r.status = "SPENT" <=> r.spent_on_expense # None

ChecksAgree ==
  /\ check \in [Checks -> CheckRow \cup {Absent}]
  /\ \A c \in Checks : check[c] # Absent => Agrees(check[c])

\* The cheque instances a handler holds agree, and it has the expense it will link
\* them to; no handler is about to delete an expense.
JobAgrees(j) ==
  /\ j = [next |-> j.next, id |-> j.id, row |-> j.row, ids |-> j.ids,
          todo |-> j.todo, sum |-> j.sum]
  /\ j.next \notin {"release", "delete"}
  /\ j.next \in {"edit", "read_checks"} => j.id \in Expenses
  /\ j.next = "load_patched" => j.ids \subseteq Checks
  /\ j.todo \in [Checks -> CheckRow \cup {Absent}]
  /\ \A c \in Checks : j.todo[c] # Absent => Agrees(j.todo[c])

JobsAgree ==
  /\ job = [w \in Workers |-> job[w]]
  /\ \A w \in Workers : job[w] # Idle => JobAgrees(job[w])

AgreeInv == ChecksAgree /\ JobsAgree

\* The proof's assumptions on the inputs: clients set neither status nor link of a
\* cheque by hand, and expenses are not deleted.
GuidedInputs == StatusInputs = {} /\ LinkInputs = {} /\ "destroy" \notin Endpoints

-----------------------------------------------------------------------------
\* Worker w goes on with a job that agrees, or has finished.
LEMMA BecomesKeeps ==
  ASSUME JobsAgree, NEW w \in Workers, NEW j, j # Idle => JobAgrees(j), Becomes(w, j)
  PROVE  JobsAgree'
  <1>1. job' = [v \in Workers |-> IF v = w THEN j ELSE job[v]]
    BY Zenon DEF Becomes, JobsAgree
  <1>2. QED
    BY <1>1, Zenon DEF JobsAgree

LEMMA DoneKeeps ==
  ASSUME JobsAgree, NEW w \in Workers, Done(w)
  PROVE  JobsAgree'
  BY BecomesKeeps DEF Done

\* A handler that begins, holding no cheques yet.
LEMMA BeginsKeeps ==
  ASSUME JobsAgree, NEW w \in Workers, NEW endpoint, NEW next, NEW e, NEW r, NEW ids,
         next \notin {"release", "delete"},
         next \in {"edit", "read_checks"} => e \in Expenses,
         next = "load_patched" => ids \subseteq Checks,
         Begins(w, endpoint, next, e, r, ids, NoChecks)
  PROVE  JobsAgree'
  <1> DEFINE j == [next |-> next, id |-> e, row |-> r, ids |-> ids, todo |-> NoChecks, sum |-> 0]
  <1>1. /\ NoChecks \in [Checks -> CheckRow \cup {Absent}]
        /\ \A c \in Checks : NoChecks[c] = Absent
    BY DEF NoChecks
  <1>2. JobAgrees(j)
    BY <1>1 DEF JobAgrees
  <1>3. Becomes(w, j)
    BY DEF Begins
  <1> HIDE DEF j
  <1>4. QED
    BY <1>2, <1>3, BecomesKeeps

\* What assignments to the attributes of a job make of it.
LEMMA JobAssignments ==
  ASSUME NEW j,
         j = [next |-> j.next, id |-> j.id, row |-> j.row, ids |-> j.ids,
              todo |-> j.todo, sum |-> j.sum],
         NEW next, NEW row, NEW sum
  PROVE  /\ [j EXCEPT !.sum = sum, !.next = next] =
              [next |-> next, id |-> j.id, row |-> j.row, ids |-> j.ids,
               todo |-> j.todo, sum |-> sum]
         /\ [j EXCEPT !.row = row, !.next = next] =
              [next |-> next, id |-> j.id, row |-> row, ids |-> j.ids,
               todo |-> j.todo, sum |-> j.sum]
  <1> DEFINE summed == [j EXCEPT !.sum = sum]
             edited == [j EXCEPT !.row = row]
  <1>1. /\ summed = [next |-> j.next, id |-> j.id, row |-> j.row, ids |-> j.ids,
                     todo |-> j.todo, sum |-> sum]
        /\ edited = [next |-> j.next, id |-> j.id, row |-> row, ids |-> j.ids,
                     todo |-> j.todo, sum |-> j.sum]
    OBVIOUS
  <1>2. /\ [j EXCEPT !.sum = sum, !.next = next] = [summed EXCEPT !.next = next]
        /\ [j EXCEPT !.row = row, !.next = next] = [edited EXCEPT !.next = next]
    OBVIOUS
  <1> HIDE DEF summed, edited
  <1>3. QED
    BY <1>1, <1>2

LEMMA ChequeAssignments ==
  ASSUME NEW j,
         j = [next |-> j.next, id |-> j.id, row |-> j.row, ids |-> j.ids,
              todo |-> j.todo, sum |-> j.sum],
         NEW next, NEW todo
  PROVE  /\ [j EXCEPT !.todo = todo, !.next = next] =
              [next |-> next, id |-> j.id, row |-> j.row, ids |-> j.ids,
               todo |-> todo, sum |-> j.sum]
         /\ [j EXCEPT !.next = next, !.todo = todo] =
              [next |-> next, id |-> j.id, row |-> j.row, ids |-> j.ids,
               todo |-> todo, sum |-> j.sum]
  <1> DEFINE taken == [j EXCEPT !.todo = todo]
             moved == [j EXCEPT !.next = next]
  <1>1. /\ taken = [next |-> j.next, id |-> j.id, row |-> j.row, ids |-> j.ids,
                    todo |-> todo, sum |-> j.sum]
        /\ moved = [next |-> next, id |-> j.id, row |-> j.row, ids |-> j.ids,
                    todo |-> j.todo, sum |-> j.sum]
    OBVIOUS
  <1>2. /\ [j EXCEPT !.todo = todo, !.next = next] = [taken EXCEPT !.next = next]
        /\ [j EXCEPT !.next = next, !.todo = todo] = [moved EXCEPT !.todo = todo]
    OBVIOUS
  <1> HIDE DEF taken, moved
  <1>3. QED
    BY <1>1, <1>2

\* A handler that goes on to its next statement with the same cheques.
LEMMA StepsOn ==
  ASSUME NEW j, JobAgrees(j), NEW row, NEW sum,
         NEW next, next \notin {"release", "delete", "edit", "load_patched"},
         next = "read_checks" => j.id \in Expenses
  PROVE  /\ JobAgrees([j EXCEPT !.next = next])
         /\ JobAgrees([j EXCEPT !.sum = sum, !.next = next])
         /\ JobAgrees([j EXCEPT !.row = row, !.next = next])
  <1> DEFINE moved  == [next |-> next, id |-> j.id, row |-> j.row, ids |-> j.ids,
                        todo |-> j.todo, sum |-> j.sum]
             summed == [next |-> next, id |-> j.id, row |-> j.row, ids |-> j.ids,
                        todo |-> j.todo, sum |-> sum]
             edited == [next |-> next, id |-> j.id, row |-> row, ids |-> j.ids,
                        todo |-> j.todo, sum |-> j.sum]
  <1>1. JobAgrees(moved) /\ JobAgrees(summed) /\ JobAgrees(edited)
    BY DEF JobAgrees
  <1>2. j = [next |-> j.next, id |-> j.id, row |-> j.row, ids |-> j.ids,
             todo |-> j.todo, sum |-> j.sum]
    BY DEF JobAgrees
  <1>3. [j EXCEPT !.next = next] = moved
    BY <1>2
  <1>4. [j EXCEPT !.sum = sum, !.next = next] = summed
    BY <1>2, JobAssignments, Zenon
  <1>5. [j EXCEPT !.row = row, !.next = next] = edited
    BY <1>2, JobAssignments, Zenon
  <1> HIDE DEF moved, summed, edited
  <1>6. QED
    BY <1>1, <1>3, <1>4, <1>5

LEMMA GotoKeeps ==
  ASSUME JobsAgree, NEW w \in Workers, job[w] # Idle,
         NEW next, next \notin {"release", "delete", "edit", "load_patched"},
         next = "read_checks" => job[w].id \in Expenses,
         Goto(w, next)
  PROVE  JobsAgree'
  <1>1. JobAgrees(job[w])
    BY DEF JobsAgree
  <1>2. JobAgrees([job[w] EXCEPT !.next = next])
    BY <1>1, StepsOn
  <1>3. QED
    BY <1>2, BecomesKeeps DEF Goto

\* The statements that neither touch a cheque nor load one.
LEMMA QuietStatements ==
  ASSUME AgreeInv, NEW w \in Workers,
         \/ ReadDeposits(w) \/ ReadWithdrawals(w) \/ SavePaid(w) \/ CreateWithdrawal(w)
         \/ SaveUnpaid(w) \/ DeleteWithdrawals(w) \/ Recalculate(w) \/ SaveNet(w)
         \/ SaveEdited(w) \/ LoadDeleted(w)
  PROVE  AgreeInv'
  <1>1. check' = check /\ job[w] # Idle
    BY DEF ReadDeposits, ReadWithdrawals, SavePaid, CreateWithdrawal, SaveUnpaid,
           DeleteWithdrawals, Recalculate, SaveNet, SaveEdited, LoadDeleted, SaveExpense, At, tables
  <1>2. ChecksAgree'
    BY <1>1 DEF AgreeInv, ChecksAgree
  <1>3. JobsAgree /\ JobAgrees(job[w])
    BY <1>1 DEF AgreeInv, JobsAgree
  <1>4. CASE ReadDeposits(w)
    <2> DEFINE sum == CardSum(job[w].row.category, "DEPOSIT")
    <2>1. Becomes(w, [job[w] EXCEPT !.sum = sum, !.next = "withdrawals"])
      BY <1>4, Zenon DEF ReadDeposits
    <2> HIDE DEF sum
    <2>2. JobAgrees([job[w] EXCEPT !.sum = sum, !.next = "withdrawals"])
      BY <1>3, StepsOn
    <2>3. QED
      BY <1>2, <1>3, <2>1, <2>2, BecomesKeeps DEF AgreeInv
  <1>5. CASE ReadWithdrawals(w)
    <2> DEFINE row == [job[w].row EXCEPT !.is_paid = TRUE]
    <2>1. Done(w) \/ Becomes(w, [job[w] EXCEPT !.row = row, !.next = "pay"])
      BY <1>5, Zenon DEF ReadWithdrawals
    <2> HIDE DEF row
    <2>2. JobAgrees([job[w] EXCEPT !.row = row, !.next = "pay"])
      BY <1>3, StepsOn
    <2>3. QED
      BY <1>2, <1>3, <2>1, <2>2, BecomesKeeps, DoneKeeps DEF AgreeInv
  <1>6. CASE Recalculate(w)
    <2> DEFINE row == Recalculated(job[w].row, SpentChecksAmount(job[w].id))
    <2>1. Becomes(w, [job[w] EXCEPT !.row = row, !.next = "save_net"])
      BY <1>6, Zenon DEF Recalculate
    <2> HIDE DEF row
    <2>2. JobAgrees([job[w] EXCEPT !.row = row, !.next = "save_net"])
      BY <1>3, StepsOn
    <2>3. QED
      BY <1>2, <1>3, <2>1, <2>2, BecomesKeeps DEF AgreeInv
  <1>7. CASE SaveEdited(w)
    <2>1. job[w].id \in Expenses
      BY <1>3, <1>7 DEF SaveEdited, At, JobAgrees
    <2>2. Done(w) \/ Goto(w, "read_checks")
      BY <1>7 DEF SaveEdited
    <2>3. JobsAgree'
      BY <1>1, <1>3, <2>1, <2>2, GotoKeeps, DoneKeeps
    <2>4. QED
      BY <1>2, <2>3 DEF AgreeInv
  <1>8. CASE \/ SavePaid(w) \/ CreateWithdrawal(w) \/ SaveUnpaid(w) \/ DeleteWithdrawals(w)
             \/ SaveNet(w) \/ LoadDeleted(w)
    <2>1. \E next \in {"withdraw", "refund", "delete_check"} : Done(w) \/ Goto(w, next)
      BY <1>8 DEF SavePaid, CreateWithdrawal, SaveUnpaid, DeleteWithdrawals, SaveNet, LoadDeleted
    <2>2. JobsAgree'
      BY <1>1, <1>3, <2>1, GotoKeeps, DoneKeeps
    <2>3. QED
      BY <1>2, <2>2 DEF AgreeInv
  <1>9. QED
    BY <1>4, <1>5, <1>6, <1>7, <1>8

\* A handler that takes up other cheques, all of which agree.
LEMMA TakesUp ==
  ASSUME NEW j, JobAgrees(j),
         NEW todo \in [Checks -> CheckRow \cup {Absent}],
         \A c \in Checks : todo[c] # Absent => Agrees(todo[c]),
         NEW next, next \notin {"release", "delete", "edit", "read_checks", "load_patched"}
  PROVE  /\ JobAgrees([j EXCEPT !.todo = todo, !.next = next])
         /\ JobAgrees([j EXCEPT !.next = next, !.todo = todo])
  <1> DEFINE new == [next |-> next, id |-> j.id, row |-> j.row, ids |-> j.ids,
                     todo |-> todo, sum |-> j.sum]
  <1>1. JobAgrees(new)
    BY DEF JobAgrees
  <1>2. [j EXCEPT !.todo = todo, !.next = next] = new /\ [j EXCEPT !.next = next, !.todo = todo] = new
    <2>1. j = [next |-> j.next, id |-> j.id, row |-> j.row, ids |-> j.ids,
               todo |-> j.todo, sum |-> j.sum]
      BY DEF JobAgrees
    <2>2. QED
      BY <2>1, ChequeAssignments, Zenon
  <1> HIDE DEF new
  <1>3. QED
    BY <1>1, <1>2

\* Spending a cheque on an expense, and taking it back, set status and link together.
LEMMA SpentAgrees ==
  ASSUME NEW r \in CheckRow, NEW e \in Expenses
  PROVE  SpentOn(e, r) \in CheckRow /\ Agrees(SpentOn(e, r))
  BY DEF SpentOn, Agrees, CheckRow, CheckStatuses

LEMMA ReturnedAgrees ==
  ASSUME NEW r \in CheckRow
  PROVE  Returned(r) \in CheckRow /\ Agrees(Returned(r))
  BY DEF Returned, Agrees, CheckRow, CheckStatuses

\* The overdue synchronisation only moves PENDING cheques.
LEMMA SyncedAgrees ==
  ASSUME ChecksAgree, check' = Synced
  PROVE  ChecksAgree'
  <1>1. ASSUME NEW c \in Checks
        PROVE  Synced[c] \in CheckRow \cup {Absent} /\ (Synced[c] # Absent => Agrees(Synced[c]))
    BY DEF Synced, ChecksAgree, Agrees, CheckRow, CheckStatuses
  <1>2. Synced \in [Checks -> CheckRow \cup {Absent}]
    BY <1>1 DEF Synced
  <1>3. QED
    BY <1>1, <1>2 DEF ChecksAgree

\* The statements that load cheques.
LEMMA LoadingStatements ==
  ASSUME AgreeInv, GuidedInputs, NEW w \in Workers,
         ReadChecks(w) \/ ReadLinked(w) \/ LoadPatched(w)
  PROVE  AgreeInv'
  <1>1. check' = check /\ job[w] # Idle
    BY DEF ReadChecks, ReadLinked, LoadPatched, At, tables
  <1>2. ChecksAgree'
    BY <1>1 DEF AgreeInv, ChecksAgree
  <1>3. JobsAgree /\ JobAgrees(job[w]) /\ ChecksAgree
    BY <1>1 DEF AgreeInv, JobsAgree
  <1>4. CASE ReadChecks(w)
    <2> DEFINE todo == [c \in Checks |->
                          IF c \in job[w].ids THEN SpentOn(job[w].id, check[c]) ELSE Absent]
               next == IF job[w].ids = {} THEN "recalculate" ELSE "save_checks"
    <2>1. job[w].id \in Expenses
      BY <1>3, <1>4 DEF ReadChecks, At, JobAgrees
    <2>2. CASE Spendable(job[w].ids, job[w].id)
      <3>1. Becomes(w, [job[w] EXCEPT !.todo = todo, !.next = next])
        BY <1>4, <2>2, Zenon DEF ReadChecks
      <3>2. ASSUME NEW c \in Checks
            PROVE  todo[c] \in CheckRow \cup {Absent} /\ (todo[c] # Absent => Agrees(todo[c]))
        <4>1. CASE c \in job[w].ids
          <5>1. check[c] \in CheckRow
            BY <1>3, <2>2, <4>1 DEF Spendable, ChecksAgree
          <5>2. QED
            BY <2>1, <4>1, <5>1, SpentAgrees
        <4>2. CASE c \notin job[w].ids
          BY <4>2
        <4>3. QED
          BY <4>1, <4>2
      <3>3. todo \in [Checks -> CheckRow \cup {Absent}]
        BY <3>2
      <3>4. next \in {"recalculate", "save_checks"}
        OBVIOUS
      <3> HIDE DEF todo, next
      <3>5. JobAgrees([job[w] EXCEPT !.todo = todo, !.next = next])
        BY <1>3, <3>2, <3>3, <3>4, TakesUp
      <3>6. QED
        BY <1>2, <1>3, <3>1, <3>5, BecomesKeeps DEF AgreeInv
    <2>3. CASE ~Spendable(job[w].ids, job[w].id)
      <3>1. Done(w)
        BY <1>4, <2>3 DEF ReadChecks
      <3>2. QED
        BY <1>2, <1>3, <3>1, DoneKeeps DEF AgreeInv
    <2>4. QED
      BY <2>2, <2>3
  <1>5. CASE ReadLinked(w)
    <2> DEFINE todo == AllReturned(job[w].ids)
    <2>1. CASE job[w].ids \subseteq SpentChecks(job[w].id)
      <3>1. Becomes(w, [job[w] EXCEPT !.todo = todo, !.next = "save_checks"])
        BY <1>5, <2>1, Zenon DEF ReadLinked
      <3>2. ASSUME NEW c \in Checks
            PROVE  todo[c] \in CheckRow \cup {Absent} /\ (todo[c] # Absent => Agrees(todo[c]))
        <4>1. CASE c \in job[w].ids
          <5>1. check[c] \in CheckRow
            BY <1>3, <2>1, <4>1 DEF SpentChecks, ChecksAgree
          <5>2. QED
            BY <4>1, <5>1, ReturnedAgrees DEF AllReturned
        <4>2. CASE c \notin job[w].ids
          BY <4>2 DEF AllReturned
        <4>3. QED
          BY <4>1, <4>2
      <3>3. todo \in [Checks -> CheckRow \cup {Absent}]
        BY <3>2 DEF AllReturned
      <3> HIDE DEF todo
      <3>4. JobAgrees([job[w] EXCEPT !.todo = todo, !.next = "save_checks"])
        BY <1>3, <3>2, <3>3, TakesUp
      <3>5. QED
        BY <1>2, <1>3, <3>1, <3>4, BecomesKeeps DEF AgreeInv
    <2>2. CASE ~(job[w].ids \subseteq SpentChecks(job[w].id))
      <3>1. Done(w)
        BY <1>5, <2>2 DEF ReadLinked
      <3>2. QED
        BY <1>2, <1>3, <3>1, DoneKeeps DEF AgreeInv
    <2>3. QED
      BY <2>1, <2>2
  <1>6. CASE LoadPatched(w)
    <2>1. PICK c \in job[w].ids :
            IF check[c] = Absent THEN Done(w)
            ELSE \E amount \in Amounts, status \in StatusInputs \cup {check[c].status},
                    e \in LinkInputs \cup {check[c].spent_on_expense} :
                   Becomes(w, [job[w] EXCEPT !.next = "save_patched",
                     !.todo = [@ EXCEPT ![c] = [check[c] EXCEPT !.amount = amount,
                                !.status = status, !.spent_on_expense = e]]])
      BY <1>6, Zenon DEF LoadPatched
    <2>2. c \in Checks
      BY <1>3, <1>6 DEF LoadPatched, At, JobAgrees
    <2>3. CASE check[c] = Absent
      BY <1>2, <1>3, <2>1, <2>3, DoneKeeps DEF AgreeInv
    <2>4. CASE check[c] # Absent
      <3>1. PICK amount \in Amounts, status \in StatusInputs \cup {check[c].status},
                 e \in LinkInputs \cup {check[c].spent_on_expense} :
              Becomes(w, [job[w] EXCEPT !.next = "save_patched",
                !.todo = [job[w].todo EXCEPT ![c] = [check[c] EXCEPT !.amount = amount,
                           !.status = status, !.spent_on_expense = e]]])
        BY <2>1, <2>4, Zenon
      <3> DEFINE patched == [check[c] EXCEPT !.amount = amount, !.status = status,
                                             !.spent_on_expense = e]
                 todo    == [job[w].todo EXCEPT ![c] = patched]
      <3>2. check[c] \in CheckRow /\ Agrees(check[c])
        BY <1>3, <2>2, <2>4 DEF ChecksAgree
      <3>3. patched \in CheckRow /\ Agrees(patched)
        <4>1. status = check[c].status /\ e = check[c].spent_on_expense /\ amount \in Int
          BY DEF GuidedInputs
        <4>2. QED
          BY <3>2, <4>1 DEF CheckRow, Agrees
      <3> HIDE DEF patched
      <3>4. job[w].todo \in [Checks -> CheckRow \cup {Absent}]
            /\ \A d \in Checks : job[w].todo[d] # Absent => Agrees(job[w].todo[d])
        BY <1>3 DEF JobAgrees
      <3>5. todo \in [Checks -> CheckRow \cup {Absent}]
            /\ \A d \in Checks : todo[d] # Absent => Agrees(todo[d])
        BY <2>2, <3>3, <3>4
      <3>6. Becomes(w, [job[w] EXCEPT !.next = "save_patched", !.todo = todo])
        BY <3>1, Zenon DEF patched
      <3> HIDE DEF todo
      <3>7. JobAgrees([job[w] EXCEPT !.next = "save_patched", !.todo = todo])
        BY <1>3, <3>5, TakesUp
      <3>8. QED
        BY <1>2, <1>3, <3>6, <3>7, BecomesKeeps DEF AgreeInv
    <2>5. QED
      BY <2>3, <2>4
  <1>7. QED
    BY <1>4, <1>5, <1>6

\* The statements that save a cheque, or delete one.
LEMMA SavingStatements ==
  ASSUME AgreeInv, NEW w \in Workers,
         SaveChecks(w) \/ SavePatched(w) \/ DeleteCheck(w)
  PROVE  AgreeInv'
  <1>1. job[w] # Idle
    BY DEF SaveChecks, SavePatched, DeleteCheck, At
  <1>2. JobsAgree /\ JobAgrees(job[w]) /\ ChecksAgree
    BY <1>1 DEF AgreeInv, JobsAgree
  <1>3. ASSUME NEW c \in Checks, c \in Todo(w)
        PROVE  job[w].todo[c] \in CheckRow /\ Agrees(job[w].todo[c])
    BY <1>2, <1>3 DEF JobAgrees, Todo
  <1>4. CASE SaveChecks(w)
    <2>1. PICK c \in Checks : SaveCheck(w, c, "recalculate")
      BY <1>4, Zenon DEF SaveChecks
    <2>2. c \in Todo(w)
      BY <2>1 DEF SaveCheck
    <2>3. CASE LinkHolds(job[w].todo[c].spent_on_expense)
      <3> DEFINE todo == [job[w].todo EXCEPT ![c] = Absent]
                 next == IF Todo(w) = {c} THEN "recalculate" ELSE job[w].next
      <3>1. /\ check' = [check EXCEPT ![c] = job[w].todo[c]]
            /\ Becomes(w, [job[w] EXCEPT !.todo = todo, !.next = next])
        BY <2>1, <2>3, Zenon DEF SaveCheck
      <3>2. ChecksAgree'
        BY <1>2, <1>3, <2>2, <3>1 DEF ChecksAgree
      <3>3. /\ todo \in [Checks -> CheckRow \cup {Absent}]
            /\ \A d \in Checks : todo[d] # Absent => Agrees(todo[d])
        BY <1>2 DEF JobAgrees
      <3>4. next \in {"recalculate", "save_checks"}
        BY <1>4 DEF SaveChecks, At
      <3> HIDE DEF todo, next
      <3>5. JobAgrees([job[w] EXCEPT !.todo = todo, !.next = next])
        BY <1>2, <3>3, <3>4, TakesUp
      <3>6. QED
        BY <1>2, <3>1, <3>2, <3>5, BecomesKeeps DEF AgreeInv
    <2>4. CASE ~LinkHolds(job[w].todo[c].spent_on_expense)
      <3>1. check' = check /\ Done(w)
        BY <2>1, <2>4 DEF SaveCheck
      <3>2. QED
        BY <1>2, <3>1, DoneKeeps DEF AgreeInv, ChecksAgree
    <2>5. QED
      BY <2>3, <2>4
  <1>5. CASE SavePatched(w)
    <2>1. PICK c \in Todo(w) : check' = IF LinkHolds(job[w].todo[c].spent_on_expense)
                                        THEN [check EXCEPT ![c] = job[w].todo[c]] ELSE check
      BY <1>5, Zenon DEF SavePatched
    <2>2. c \in Checks
      BY DEF Todo
    <2>3. ChecksAgree'
      BY <1>2, <1>3, <2>1, <2>2 DEF ChecksAgree
    <2>4. Done(w)
      BY <1>5 DEF SavePatched
    <2>5. QED
      BY <1>2, <2>3, <2>4, DoneKeeps DEF AgreeInv
  <1>6. CASE DeleteCheck(w)
    <2>1. ChecksAgree'
      BY <1>2, <1>6 DEF DeleteCheck, ChecksAgree
    <2>2. QED
      BY <1>2, <1>6, <2>1, DoneKeeps DEF AgreeInv, DeleteCheck
  <1>7. QED
    BY <1>4, <1>5, <1>6

\* Handlers of an expense begin with no cheque in hand, but for destroy.
LEMMA RequestsBegin ==
  ASSUME AgreeInv, GuidedInputs, NEW w \in Workers, NEW e \in Expenses, ExpenseRequest(w, e)
  PROVE  AgreeInv'
  <1>1. ~DestroyLoad(w, e)
    BY DEF GuidedInputs, DestroyLoad, Begins
  <1>2. check' = check
    BY <1>1 DEF ExpenseRequest, ConfirmLoad, UnconfirmLoad, SpendLoad, RemoveLoad,
                CreateWithChecks, UpdateLoad, Loads, tables
  <1>3. ChecksAgree' /\ JobsAgree
    BY <1>2 DEF AgreeInv, ChecksAgree
  <1>4. \E endpoint, r, ids : \E next \in {"deposits", "unpay", "read_checks", "read_linked", "edit"} :
          Begins(w, endpoint, next, e, r, ids, NoChecks)
    <2>1. CASE ConfirmLoad(w, e) \/ SpendLoad(w, e) \/ RemoveLoad(w, e)
      <3>1. \E endpoint, ids : \E next \in {"deposits", "read_checks", "read_linked"} :
              Loads(w, endpoint, next, e, ids)
        BY <2>1, Zenon DEF ConfirmLoad, SpendLoad, RemoveLoad
      <3>2. QED
        BY <3>1, Zenon DEF Loads
    <2>2. CASE UnconfirmLoad(w, e)
      BY <2>2, Zenon DEF UnconfirmLoad
    <2>3. CASE CreateWithChecks(w, e)
      BY <2>3, Zenon DEF CreateWithChecks
    <2>4. CASE UpdateLoad(w, e)
      BY <2>4, Zenon DEF UpdateLoad
    <2>5. QED
      BY <1>1, <2>1, <2>2, <2>3, <2>4 DEF ExpenseRequest
  <1>5. JobsAgree'
    BY <1>3, <1>4, BeginsKeeps
  <1>6. QED
    BY <1>3, <1>5 DEF AgreeInv

LEMMA CheckRequestKeeps ==
  ASSUME AgreeInv, NEW w \in Workers, NEW c \in Checks, CheckRequest(w, c)
  PROVE  AgreeInv'
  <1>1. ChecksAgree'
    BY SyncedAgrees DEF AgreeInv, CheckRequest
  <1>2. \E endpoint : \E next \in {"load_patched", "load_deleted"} :
          Begins(w, endpoint, next, None, Absent, {c}, NoChecks)
    BY Zenon DEF CheckRequest
  <1>3. JobsAgree'
    BY <1>2, BeginsKeeps DEF AgreeInv
  <1>4. QED
    BY <1>1, <1>3 DEF AgreeInv

LEMMA CreateCheckKeeps ==
  ASSUME AgreeInv, GuidedInputs, NEW c \in Checks, CreateCheck(c)
  PROVE  AgreeInv'
  <1>1. PICK amount \in Amounts, due_date \in 0..LastDay,
             status \in StatusInputs \cup {"PENDING"}, e \in LinkInputs \cup {None} :
          check' = [check EXCEPT ![c] = [amount |-> amount, due_date |-> due_date,
                                         status |-> status, spent_on_expense |-> e]]
    BY Zenon DEF CreateCheck
  <1>2. status = "PENDING" /\ e = None /\ amount \in Int
    BY DEF GuidedInputs
  <1>3. ChecksAgree'
    BY <1>1, <1>2 DEF AgreeInv, ChecksAgree, CheckRow, CheckStatuses, Agrees
  <1>4. QED
    BY <1>3 DEF AgreeInv, JobsAgree, CreateCheck, JobAgrees

LEMMA AgreeInductive ==
  AgreeInv /\ GuidedInputs /\ [Next]_vars => AgreeInv'
  <1> SUFFICES ASSUME AgreeInv, GuidedInputs, [Next]_vars
               PROVE  AgreeInv'
    OBVIOUS
  <1>1. ASSUME UNCHANGED <<check, job>>
        PROVE  AgreeInv'
    BY <1>1 DEF AgreeInv, ChecksAgree, JobsAgree, JobAgrees
  <1>2. CASE UNCHANGED vars \/ (\E e \in Expenses : CreateExpense(e))
             \/ (\E t \in Transactions : DeleteTransaction(t)) \/ AddCardTransaction \/ Tick
    BY <1>1, <1>2 DEF vars, tables, CreateExpense, DeleteTransaction, AddCardTransaction, Tick
  <1>3. CASE \E c \in Checks : CreateCheck(c)
    BY <1>3, CreateCheckKeeps
  <1>4. CASE ListChecks
    <2>1. ChecksAgree'
      BY <1>4, SyncedAgrees DEF AgreeInv, ListChecks
    <2>2. QED
      BY <1>4, <2>1 DEF AgreeInv, ListChecks, JobsAgree, JobAgrees
  <1>5. CASE \E w \in Workers, e \in Expenses : ExpenseRequest(w, e)
    BY <1>5, RequestsBegin
  <1>6. CASE \E w \in Workers, c \in Checks : CheckRequest(w, c)
    BY <1>6, CheckRequestKeeps
  <1>7. ASSUME NEW w \in Workers, Statement(w)
        PROVE  AgreeInv'
    <2>1. ~ReleaseChecks(w) /\ ~DeleteExpense(w)
      BY DEF AgreeInv, JobsAgree, JobAgrees, ReleaseChecks, DeleteExpense, At
    <2>2. QED
      BY <1>7, <2>1, QuietStatements, LoadingStatements, SavingStatements DEF Statement
  <1>8. ASSUME NEW w \in Workers, Crash(w)
        PROVE  AgreeInv'
    BY <1>8, DoneKeeps DEF Crash, AgreeInv, ChecksAgree, tables
  <1>9. QED
    BY <1>2, <1>3, <1>4, <1>5, <1>6, <1>7, <1>8 DEF Next

\* A cheque is marked SPENT exactly if it is linked to an expense, for any number of
\* expenses, cheques and workers, whichever of their statements interleave and wherever
\* they are killed, as long as clients set neither column by hand and delete no expense.
THEOREM SpentIffLinkedHolds ==
  ASSUME GuidedInputs
  PROVE  Spec => []SpentIffLinked
  <1>1. Init => AgreeInv
    BY DEF Init, AgreeInv, ChecksAgree, JobsAgree
  <1>2. AgreeInv /\ [Next]_vars => AgreeInv'
    BY AgreeInductive
  <1>3. AgreeInv => SpentIffLinked
    BY DEF AgreeInv, ChecksAgree, Agrees, SpentIffLinked
  <1>4. QED
    BY <1>1, <1>2, <1>3, PTL DEF Spec


-----------------------------------------------------------------------------
(* Types, for any workers, endpoints and inputs *)

\* The handlers of a cheque's own endpoints; all others hold an expense.
CheckSteps == {"load_patched", "load_deleted", "save_patched", "delete_check"}

\* A running handler has what its next statement needs.
TypedJob(j) ==
  /\ j \in Job
  /\ IF j.next \in CheckSteps THEN j.ids \in SUBSET Checks
     ELSE j.id \in Expenses /\ j.row \in ExpenseRow
  /\ j.next \in {"read_checks", "read_linked"} => j.ids \in SUBSET Checks

JobsTyped ==
  /\ job \in [Workers -> Job \cup {Idle}]
  /\ \A w \in Workers : job[w] # Idle => TypedJob(job[w])

TablesTyped ==
  /\ expense \in [Expenses -> ExpenseRow \cup {Absent}]
  /\ check \in [Checks -> CheckRow \cup {Absent}]
  /\ card \in [Transactions -> CardRow \cup {Absent}]
  /\ today \in 0..LastDay

\* Only finitely many rows are ever stored, so that every aggregate is a sum.
StoredChecks == {c \in Checks : check[c] # Absent}
StoredTransactions == {t \in Transactions : card[t] # Absent}
TablesFinite == IsFiniteSet(StoredChecks) /\ IsFiniteSet(StoredTransactions)

TypeInv == TablesTyped /\ JobsTyped /\ TablesFinite

\* The sums of the model are sums over finite sets.
LEMMA SumOfAmounts ==
  ASSUME NEW S, IsFiniteSet(S), NEW f
  PROVE  MapThenSumSet(LAMBDA t : f[t].amount, S) = Total(S, [t \in S |-> f[t].amount])
  <1> DEFINE a == [t \in S |-> f[t].amount]
             iter == CHOOSE g : g = [s \in SUBSET S |-> IF s = {} THEN 0
                       ELSE f[CHOOSE x \in s : TRUE].amount + g[s \ {CHOOSE x \in s : TRUE}]]
  <1>1. MapThenSumSet(LAMBDA t : f[t].amount, S) = iter[S]
    BY DEF MapThenSumSet, MapThenFoldSet
  <1>2. PICK h : Sums(h, S, a)
    BY SumsExist
  <1>3. \A s \in SUBSET S : s # {} => a[Some(s)] = f[CHOOSE x \in s : TRUE].amount
    BY SomeIn DEF Some
  <1>4. h = [s \in SUBSET S |-> IF s = {} THEN 0
               ELSE f[CHOOSE x \in s : TRUE].amount + h[s \ {CHOOSE x \in s : TRUE}]]
    BY <1>2, <1>3 DEF Sums, Some
  <1>5. iter = [s \in SUBSET S |-> IF s = {} THEN 0
                  ELSE f[CHOOSE x \in s : TRUE].amount + iter[s \ {CHOOSE x \in s : TRUE}]]
    BY <1>4, Zenon
  <1> HIDE DEF iter
  <1>6. Sums(iter, S, a)
    BY <1>3, <1>5 DEF Sums, Some
  <1>7. QED
    BY <1>1, <1>6, TotalIs

LEMMA CardSumIs ==
  ASSUME NEW category, NEW type, IsFiniteSet(Rows(category, type))
  PROVE  CardSum(category, type)
           = Total(Rows(category, type), [t \in Rows(category, type) |-> card[t].amount])
  BY SumOfAmounts DEF CardSum

LEMMA SpentChecksAmountIs ==
  ASSUME NEW e, IsFiniteSet(SpentChecks(e))
  PROVE  SpentChecksAmount(e)
           = Total(SpentChecks(e), [c \in SpentChecks(e) |-> check[c].amount])
  BY SumOfAmounts DEF SpentChecksAmount


\* Worker w goes on at next with these attributes; id and ids stay as they are.
Moves(w, next, row, todo, sum) ==
  Becomes(w, [next |-> next, id |-> job[w].id, row |-> row, ids |-> job[w].ids,
              todo |-> todo, sum |-> sum])

\* The ways in which the statements assign to a job.
LEMMA MovesOn ==
  ASSUME JobsTyped, NEW w \in Workers, job[w] # Idle,
         NEW next, NEW row, NEW todo, NEW sum
  PROVE  /\ Goto(w, next) => Moves(w, next, job[w].row, job[w].todo, job[w].sum)
         /\ Becomes(w, [job[w] EXCEPT !.sum = sum, !.next = next])
              => Moves(w, next, job[w].row, job[w].todo, sum)
         /\ Becomes(w, [job[w] EXCEPT !.row = row, !.next = next])
              => Moves(w, next, row, job[w].todo, job[w].sum)
         /\ Becomes(w, [job[w] EXCEPT !.todo = todo, !.next = next])
              => Moves(w, next, job[w].row, todo, job[w].sum)
         /\ Becomes(w, [job[w] EXCEPT !.next = next, !.todo = todo])
              => Moves(w, next, job[w].row, todo, job[w].sum)
  <1>1. PICK j : j = job[w]
    OBVIOUS
  <1>2. j = [next |-> j.next, id |-> j.id, row |-> j.row, ids |-> j.ids,
             todo |-> j.todo, sum |-> j.sum]
    BY <1>1 DEF JobsTyped, TypedJob, Job
  <1>3. [j EXCEPT !.next = next] = [next |-> next, id |-> j.id, row |-> j.row, ids |-> j.ids,
                                    todo |-> j.todo, sum |-> j.sum]
    BY <1>2
  <1>4. /\ [j EXCEPT !.sum = sum, !.next = next] =
              [next |-> next, id |-> j.id, row |-> j.row, ids |-> j.ids,
               todo |-> j.todo, sum |-> sum]
        /\ [j EXCEPT !.row = row, !.next = next] =
              [next |-> next, id |-> j.id, row |-> row, ids |-> j.ids,
               todo |-> j.todo, sum |-> j.sum]
    BY <1>2, JobAssignments, Zenon
  <1>5. /\ [j EXCEPT !.todo = todo, !.next = next] =
              [next |-> next, id |-> j.id, row |-> j.row, ids |-> j.ids,
               todo |-> todo, sum |-> j.sum]
        /\ [j EXCEPT !.next = next, !.todo = todo] =
              [next |-> next, id |-> j.id, row |-> j.row, ids |-> j.ids,
               todo |-> todo, sum |-> j.sum]
    BY <1>2, ChequeAssignments, ZenonT(30)
  <1>6. QED
    BY <1>1, <1>3, <1>4, <1>5, Zenon DEF Goto, Moves

\* What the statements make of the job of their worker.
LEMMA ReadDepositsForm ==
  ASSUME JobsTyped, NEW w \in Workers, ReadDeposits(w)
  PROVE  Moves(w, "withdrawals", job[w].row, job[w].todo,
               CardSum(job[w].row.category, "DEPOSIT"))
  <1> DEFINE sum == CardSum(job[w].row.category, "DEPOSIT")
  <1>1. job[w] # Idle /\ Becomes(w, [job[w] EXCEPT !.sum = sum, !.next = "withdrawals"])
    BY Zenon DEF ReadDeposits, At
  <1> HIDE DEF sum
  <1>2. Moves(w, "withdrawals", job[w].row, job[w].todo, sum)
    BY <1>1, MovesOn
  <1>3. QED
    BY <1>2 DEF sum

LEMMA ReadWithdrawalsForm ==
  ASSUME JobsTyped, NEW w \in Workers, ReadWithdrawals(w)
  PROVE  \/ Done(w)
         \/ /\ ~(job[w].sum - CardSum(job[w].row.category, "WITHDRAWAL") < job[w].row.amount)
            /\ Moves(w, "pay", [job[w].row EXCEPT !.is_paid = TRUE], job[w].todo, job[w].sum)
  <1> DEFINE row == [job[w].row EXCEPT !.is_paid = TRUE]
             balance == job[w].sum - CardSum(job[w].row.category, "WITHDRAWAL")
  <1>1. job[w] # Idle
        /\ IF balance < job[w].row.amount THEN Done(w)
           ELSE Becomes(w, [job[w] EXCEPT !.row = row, !.next = "pay"])
    BY Zenon DEF ReadWithdrawals, At
  <1> HIDE DEF row
  <1>2. Done(w) \/ (~(balance < job[w].row.amount)
                    /\ Moves(w, "pay", row, job[w].todo, job[w].sum))
    <2> HIDE DEF balance
    <2> QED BY <1>1, MovesOn
  <1>3. QED
    BY <1>2, Zenon DEF row

LEMMA RecalculateForm ==
  ASSUME JobsTyped, NEW w \in Workers, Recalculate(w)
  PROVE  Moves(w, "save_net", Recalculated(job[w].row, SpentChecksAmount(job[w].id)),
               job[w].todo, job[w].sum)
  <1> DEFINE row == Recalculated(job[w].row, SpentChecksAmount(job[w].id))
  <1>1. job[w] # Idle /\ Becomes(w, [job[w] EXCEPT !.row = row, !.next = "save_net"])
    BY Zenon DEF Recalculate, At
  <1> HIDE DEF row
  <1>2. Moves(w, "save_net", row, job[w].todo, job[w].sum)
    BY <1>1, MovesOn
  <1>3. QED
    BY <1>2 DEF row

\* The cheques that spend_checks takes up, once it has found them spendable.
Taken(w) == [c \in Checks |-> IF c \in job[w].ids THEN SpentOn(job[w].id, check[c]) ELSE Absent]

LEMMA ReadChecksForm ==
  ASSUME JobsTyped, NEW w \in Workers, ReadChecks(w)
  PROVE  \/ Done(w)
         \/ /\ Spendable(job[w].ids, job[w].id)
            /\ Moves(w, IF job[w].ids = {} THEN "recalculate" ELSE "save_checks",
                     job[w].row, Taken(w), job[w].sum)
  <1> DEFINE todo == Taken(w)
             next == IF job[w].ids = {} THEN "recalculate" ELSE "save_checks"
  <1>1. job[w] # Idle
        /\ IF Spendable(job[w].ids, job[w].id)
           THEN Becomes(w, [job[w] EXCEPT !.todo = todo, !.next = next])
           ELSE Done(w)
    BY Zenon DEF ReadChecks, At, Taken
  <1> HIDE DEF todo, next
  <1>2. Done(w) \/ (Spendable(job[w].ids, job[w].id)
                    /\ Moves(w, next, job[w].row, todo, job[w].sum))
    BY <1>1, MovesOn
  <1>3. QED
    BY <1>2, Zenon DEF todo, next

LEMMA ReadLinkedForm ==
  ASSUME JobsTyped, NEW w \in Workers, ReadLinked(w)
  PROVE  \/ Done(w)
         \/ /\ job[w].ids \subseteq SpentChecks(job[w].id)
            /\ Moves(w, "save_checks", job[w].row, AllReturned(job[w].ids), job[w].sum)
  <1> DEFINE todo == AllReturned(job[w].ids)
  <1>1. job[w] # Idle
        /\ IF job[w].ids \subseteq SpentChecks(job[w].id)
           THEN Becomes(w, [job[w] EXCEPT !.todo = todo, !.next = "save_checks"])
           ELSE Done(w)
    BY Zenon DEF ReadLinked, At
  <1> HIDE DEF todo
  <1>2. Done(w) \/ (job[w].ids \subseteq SpentChecks(job[w].id)
                    /\ Moves(w, "save_checks", job[w].row, todo, job[w].sum))
    BY <1>1, MovesOn
  <1>3. QED
    BY <1>2 DEF todo

LEMMA SaveCheckForm ==
  ASSUME JobsTyped, NEW w \in Workers, job[w] # Idle, NEW c, NEW last, SaveCheck(w, c, last)
  PROVE  /\ c \in Todo(w)
         /\ UNCHANGED <<expense, card, today>>
         /\ \/ /\ ~LinkHolds(job[w].todo[c].spent_on_expense)
               /\ check' = check /\ Done(w)
            \/ /\ LinkHolds(job[w].todo[c].spent_on_expense)
               /\ check' = [check EXCEPT ![c] = job[w].todo[c]]
               /\ Moves(w, IF Todo(w) = {c} THEN last ELSE job[w].next, job[w].row,
                        [job[w].todo EXCEPT ![c] = Absent], job[w].sum)
  <1> DEFINE todo == [job[w].todo EXCEPT ![c] = Absent]
             next == IF Todo(w) = {c} THEN last ELSE job[w].next
  <1>1. /\ c \in Todo(w)
        /\ IF LinkHolds(job[w].todo[c].spent_on_expense)
           THEN /\ check' = [check EXCEPT ![c] = job[w].todo[c]]
                /\ Becomes(w, [job[w] EXCEPT !.todo = todo, !.next = next])
           ELSE check' = check /\ Done(w)
        /\ UNCHANGED <<expense, card, today>>
    BY Zenon DEF SaveCheck
  <1> HIDE DEF todo, next
  <1>2. Becomes(w, [job[w] EXCEPT !.todo = todo, !.next = next])
          => Moves(w, next, job[w].row, todo, job[w].sum)
    BY MovesOn
  <1>3. \/ /\ ~LinkHolds(job[w].todo[c].spent_on_expense)
           /\ check' = check /\ Done(w)
        \/ /\ LinkHolds(job[w].todo[c].spent_on_expense)
           /\ check' = [check EXCEPT ![c] = job[w].todo[c]]
           /\ Moves(w, next, job[w].row, todo, job[w].sum)
    BY <1>1, <1>2, Zenon
  <1>4. QED
    BY <1>1, <1>3, Zenon DEF todo, next

\* The cheque c of the handler, patched with some of the values that clients enter.
PatchedCheck(c, r) ==
  \E amount \in Amounts, status \in StatusInputs \cup {check[c].status},
     e \in LinkInputs \cup {check[c].spent_on_expense} :
    r = [check[c] EXCEPT !.amount = amount, !.status = status, !.spent_on_expense = e]

LEMMA LoadPatchedForm ==
  ASSUME JobsTyped, NEW w \in Workers, LoadPatched(w)
  PROVE  \/ Done(w)
         \/ \E c \in job[w].ids :
              /\ check[c] # Absent
              /\ \E r : PatchedCheck(c, r)
                        /\ Moves(w, "save_patched", job[w].row, [job[w].todo EXCEPT ![c] = r],
                                 job[w].sum)
  <1>1. job[w] # Idle
    BY DEF LoadPatched, At
  <1>2. PICK c \in job[w].ids :
          IF check[c] = Absent THEN Done(w)
          ELSE \E amount \in Amounts, status \in StatusInputs \cup {check[c].status},
                  e \in LinkInputs \cup {check[c].spent_on_expense} :
                 Becomes(w, [job[w] EXCEPT !.next = "save_patched",
                   !.todo = [job[w].todo EXCEPT ![c] = [check[c] EXCEPT !.amount = amount,
                              !.status = status, !.spent_on_expense = e]]])
    BY Zenon DEF LoadPatched
  <1>3. CASE check[c] = Absent
    BY <1>2, <1>3
  <1>4. CASE check[c] # Absent
    <2>1. PICK amount \in Amounts, status \in StatusInputs \cup {check[c].status},
               e \in LinkInputs \cup {check[c].spent_on_expense} :
            Becomes(w, [job[w] EXCEPT !.next = "save_patched",
              !.todo = [job[w].todo EXCEPT ![c] = [check[c] EXCEPT !.amount = amount,
                         !.status = status, !.spent_on_expense = e]]])
      BY <1>2, <1>4, Zenon
    <2> DEFINE r == [check[c] EXCEPT !.amount = amount, !.status = status, !.spent_on_expense = e]
               todo == [job[w].todo EXCEPT ![c] = r]
    <2>2. Becomes(w, [job[w] EXCEPT !.next = "save_patched", !.todo = todo])
      BY <2>1, Zenon
    <2>3. PatchedCheck(c, r)
      BY Zenon DEF PatchedCheck
    <2> HIDE DEF r, todo
    <2>4. Moves(w, "save_patched", job[w].row, todo, job[w].sum)
      BY <1>1, <2>2, MovesOn
    <2>5. QED
      BY <1>4, <2>3, <2>4, Zenon DEF todo
  <1>5. QED
    BY <1>3, <1>4


\* The job of one worker changes, and is typed.
LEMMA BecomesTyped ==
  ASSUME JobsTyped, NEW w \in Workers, NEW j, j = Idle \/ TypedJob(j), Becomes(w, j)
  PROVE  JobsTyped'
  <1>1. job' = [v \in Workers |-> IF v = w THEN j ELSE job[v]]
    BY DEF Becomes, JobsTyped
  <1>2. j \in Job \cup {Idle}
    BY DEF TypedJob
  <1>3. job' \in [Workers -> Job \cup {Idle}]
    BY <1>1, <1>2 DEF JobsTyped
  <1>4. \A v \in Workers : job'[v] # Idle => TypedJob(job'[v])
    BY <1>1, Zenon DEF JobsTyped
  <1>5. QED
    BY <1>3, <1>4 DEF JobsTyped

LEMMA DoneTyped ==
  ASSUME JobsTyped, NEW w \in Workers, Done(w)
  PROVE  JobsTyped'
  BY BecomesTyped DEF Done

\* A handler of an expense goes on to one of its statements.
ExpenseSteps == {"withdrawals", "pay", "withdraw", "refund", "read_checks", "save_checks",
                 "recalculate", "save_net", "release", "delete"}

LEMMA MovesTyped ==
  ASSUME JobsTyped, NEW w \in Workers, job[w] # Idle, job[w].next \notin CheckSteps,
         NEW next \in ExpenseSteps, NEW row \in ExpenseRow,
         NEW todo \in [Checks -> CheckRow \cup {Absent}], NEW sum \in Int,
         next = "read_checks" => job[w].ids \in SUBSET Checks,
         Moves(w, next, row, todo, sum)
  PROVE  JobsTyped'
  <1> DEFINE j == [next |-> next, id |-> job[w].id, row |-> row, ids |-> job[w].ids,
                   todo |-> todo, sum |-> sum]
  <1>1. job[w].id \in Expenses /\ job[w].ids \in (SUBSET Checks) \cup {None}
    BY DEF JobsTyped, TypedJob, Job
  <1>2. TypedJob(j)
    BY <1>1 DEF TypedJob, Job, CheckSteps, ExpenseSteps
  <1>3. Becomes(w, j)
    BY DEF Moves
  <1> HIDE DEF j
  <1>4. QED
    BY <1>2, <1>3, BecomesTyped

\* A handler of a cheque goes on to its last statement.
LEMMA ChequeMovesTyped ==
  ASSUME JobsTyped, NEW w \in Workers, job[w] # Idle, job[w].next \in CheckSteps,
         NEW next \in CheckSteps, NEW todo \in [Checks -> CheckRow \cup {Absent}],
         Moves(w, next, job[w].row, todo, job[w].sum)
  PROVE  JobsTyped'
  <1> DEFINE j == [next |-> next, id |-> job[w].id, row |-> job[w].row, ids |-> job[w].ids,
                   todo |-> todo, sum |-> job[w].sum]
  <1>1. TypedJob(job[w]) /\ job[w] \in Job
    BY DEF JobsTyped, TypedJob
  <1>2. TypedJob(j)
    BY <1>1 DEF TypedJob, Job, CheckSteps
  <1>3. Becomes(w, j)
    BY DEF Moves
  <1> HIDE DEF j
  <1>4. QED
    BY <1>2, <1>3, BecomesTyped

\* A handler that begins.
LEMMA BeginsTyped ==
  ASSUME JobsTyped, NEW w \in Workers, NEW endpoint, NEW next, NEW e, NEW r, NEW ids, NEW todo,
         TypedJob([next |-> next, id |-> e, row |-> r, ids |-> ids, todo |-> todo, sum |-> 0]),
         Begins(w, endpoint, next, e, r, ids, todo)
  PROVE  JobsTyped'
  <1> DEFINE j == [next |-> next, id |-> e, row |-> r, ids |-> ids, todo |-> todo, sum |-> 0]
  <1>1. Becomes(w, j) /\ TypedJob(j)
    BY DEF Begins
  <1> HIDE DEF j
  <1>2. QED
    BY <1>1, BecomesTyped

\* The sums that are read are naturals.
LEMMA AggregatesType ==
  ASSUME TablesTyped, TablesFinite
  PROVE  /\ \A category, type : /\ IsFiniteSet(Rows(category, type))
                                /\ CardSum(category, type) \in Int
         /\ \A e \in Expenses : /\ IsFiniteSet(SpentChecks(e))
                                /\ SpentChecksAmount(e) \in Int
  <1>1. ASSUME NEW category, NEW type
        PROVE  IsFiniteSet(Rows(category, type)) /\ CardSum(category, type) \in Int
    <2> DEFINE S == Rows(category, type)
               a == [t \in S |-> card[t].amount]
    <2>1. S \in SUBSET StoredTransactions
      BY DEF Rows, StoredTransactions
    <2>2. IsFiniteSet(S)
      BY <2>1, FS_Subset DEF TablesFinite
    <2>3. \A t \in S : a[t] \in Int
      BY <2>1 DEF TablesTyped, StoredTransactions, CardRow
    <2>4. CardSum(category, type) = Total(S, a)
      BY <2>2, CardSumIs
    <2> HIDE DEF S, a
    <2>5. Total(S, a) \in Int
      BY <2>2, <2>3, TotalType
    <2>6. QED
      BY <2>2, <2>4, <2>5 DEF S
  <1>2. ASSUME NEW e \in Expenses
        PROVE  IsFiniteSet(SpentChecks(e)) /\ SpentChecksAmount(e) \in Int
    <2> DEFINE S == SpentChecks(e)
               a == [c \in S |-> check[c].amount]
    <2>1. S \in SUBSET StoredChecks
      BY DEF SpentChecks, StoredChecks
    <2>2. IsFiniteSet(S)
      BY <2>1, FS_Subset DEF TablesFinite
    <2>3. \A c \in S : a[c] \in Int
      BY <2>1 DEF TablesTyped, StoredChecks, CheckRow
    <2>4. SpentChecksAmount(e) = Total(S, a)
      BY <2>2, SpentChecksAmountIs
    <2> HIDE DEF S, a
    <2>5. Total(S, a) \in Int
      BY <2>2, <2>3, TotalType
    <2>6. QED
      BY <2>2, <2>4, <2>5 DEF S
  <1>3. QED
    BY <1>1, <1>2


LEMMA StaysFinite ==
  ASSUME NEW S, IsFiniteSet(S), NEW x, NEW T, T \subseteq S \cup {x}
  PROVE  IsFiniteSet(T)
  <1>1. IsFiniteSet(S \cup {x})
    BY FS_AddElement
  <1>2. QED
    BY <1>1, FS_Subset

\* What the steps do to the tables.
LEMMA ExpensesTyped ==
  ASSUME TablesTyped, TablesFinite, UNCHANGED <<check, card, today>>,
         expense' \in [Expenses -> ExpenseRow \cup {Absent}]
  PROVE  TablesTyped' /\ TablesFinite'
  BY DEF TablesTyped, TablesFinite, StoredChecks, StoredTransactions

LEMMA SavesExpense ==
  ASSUME TypeInv, NEW w \in Workers, job[w] # Idle, job[w].next \notin CheckSteps, SaveExpense(w)
  PROVE  TablesTyped' /\ TablesFinite'
  <1>1. job[w].id \in Expenses /\ job[w].row \in ExpenseRow
    BY DEF TypeInv, JobsTyped, TypedJob
  <1>2. expense' \in [Expenses -> ExpenseRow \cup {Absent}]
    BY <1>1 DEF SaveExpense, TypeInv, TablesTyped
  <1>3. QED
    BY <1>2, ExpensesTyped DEF SaveExpense, TypeInv

LEMMA CheckTyped ==
  ASSUME TablesTyped, TablesFinite, UNCHANGED <<expense, card, today>>,
         NEW c, \A d \in Checks \ {c} : check'[d] # Absent => check[d] # Absent,
         check' \in [Checks -> CheckRow \cup {Absent}]
  PROVE  TablesTyped' /\ TablesFinite'
  <1>1. StoredChecks' \subseteq StoredChecks \cup {c}
    BY DEF StoredChecks
  <1>2. IsFiniteSet(StoredChecks')
    BY <1>1, StaysFinite DEF TablesFinite
  <1>3. QED
    BY <1>2 DEF TablesTyped, TablesFinite, StoredTransactions

LEMMA CardTyped ==
  ASSUME TablesTyped, TablesFinite, UNCHANGED <<expense, check, today>>,
         NEW t, \A u \in Transactions \ {t} : card'[u] # Absent => card[u] # Absent,
         card' \in [Transactions -> CardRow \cup {Absent}]
  PROVE  TablesTyped' /\ TablesFinite'
  <1>1. StoredTransactions' \subseteq StoredTransactions \cup {t}
    BY DEF StoredTransactions
  <1>2. IsFiniteSet(StoredTransactions')
    BY <1>1, StaysFinite DEF TablesFinite
  <1>3. QED
    BY <1>2 DEF TablesTyped, TablesFinite, StoredChecks

LEMMA AddTransactionTyped ==
  ASSUME TablesTyped, TablesFinite, UNCHANGED <<expense, check, today>>,
         NEW type \in {"DEPOSIT", "WITHDRAWAL"}, NEW category \in Categories, NEW amount \in Int,
         NEW e \in Expenses \cup {None}, AddTransaction(type, category, amount, e)
  PROVE  TablesTyped' /\ TablesFinite'
  <1>1. PICK t \in Transactions :
          card' = [card EXCEPT ![t] = [card_type |-> category, transaction_type |-> type,
                                       amount |-> amount, expense |-> e]]
    BY DEF AddTransaction
  <1>2. card' \in [Transactions -> CardRow \cup {Absent}]
    BY <1>1 DEF TablesTyped, CardRow
  <1>3. \A u \in Transactions \ {t} : card'[u] # Absent => card[u] # Absent
    BY <1>1 DEF TablesTyped
  <1>4. QED
    BY <1>2, <1>3, CardTyped

LEMMA SyncedTyped ==
  ASSUME TablesTyped, TablesFinite, UNCHANGED <<expense, card, today>>, check' = Synced
  PROVE  TablesTyped' /\ TablesFinite'
  <1>1. \A c \in Checks : Synced[c] \in CheckRow \cup {Absent} /\ (Synced[c] # Absent => check[c] # Absent)
    BY DEF Synced, TablesTyped, CheckRow, CheckStatuses
  <1>2. Synced \in [Checks -> CheckRow \cup {Absent}]
    BY <1>1 DEF Synced
  <1>3. QED
    BY <1>1, <1>2, CheckTyped

\* The steps that no handler takes.
LEMMA EnvironmentTyped ==
  ASSUME TypeInv,
         \/ \E e \in Expenses : CreateExpense(e)
         \/ \E c \in Checks : CreateCheck(c)
         \/ \E t \in Transactions : DeleteTransaction(t)
         \/ AddCardTransaction \/ ListChecks \/ Tick \/ UNCHANGED vars
  PROVE  TypeInv'
  <1>1. job' = job
    BY DEF CreateExpense, CreateCheck, DeleteTransaction, AddCardTransaction, ListChecks, Tick, vars
  <1>2. JobsTyped'
    BY <1>1 DEF TypeInv, JobsTyped
  <1>3. TablesTyped /\ TablesFinite
    BY DEF TypeInv
  <1>4. ASSUME NEW e \in Expenses, CreateExpense(e)
        PROVE  TablesTyped' /\ TablesFinite'
    <2>1. PICK category \in Categories, amount \in Amounts :
            expense' = [expense EXCEPT ![e] = NewExpense(category, amount)]
      BY <1>4 DEF CreateExpense
    <2>2. expense' \in [Expenses -> ExpenseRow \cup {Absent}]
      BY <1>3, <2>1 DEF TablesTyped, NewExpense, ExpenseRow
    <2>3. QED
      BY <1>3, <1>4, <2>2, ExpensesTyped DEF CreateExpense
  <1>5. ASSUME NEW c \in Checks, CreateCheck(c)
        PROVE  TablesTyped' /\ TablesFinite'
    <2>1. PICK amount \in Amounts, due_date \in 0..LastDay,
               status \in StatusInputs \cup {"PENDING"}, e \in LinkInputs \cup {None} :
            check' = [check EXCEPT ![c] = [amount |-> amount, due_date |-> due_date,
                                           status |-> status, spent_on_expense |-> e]]
      BY <1>5, Zenon DEF CreateCheck
    <2>2. check' \in [Checks -> CheckRow \cup {Absent}]
      BY <1>3, <2>1 DEF TablesTyped, CheckRow, CheckStatuses
    <2>3. \A d \in Checks \ {c} : check'[d] # Absent => check[d] # Absent
      BY <1>3, <2>1 DEF TablesTyped
    <2>4. UNCHANGED <<expense, card, today>>
      BY <1>5 DEF CreateCheck
    <2>5. QED
      BY <1>3, <2>2, <2>3, <2>4, CheckTyped
  <1>6. ASSUME NEW t \in Transactions, DeleteTransaction(t)
        PROVE  TablesTyped' /\ TablesFinite'
    BY <1>3, <1>6, CardTyped DEF DeleteTransaction, TablesTyped
  <1>7. ASSUME AddCardTransaction
        PROVE  TablesTyped' /\ TablesFinite'
    BY <1>3, <1>7, AddTransactionTyped DEF AddCardTransaction
  <1>8. ASSUME ListChecks
        PROVE  TablesTyped' /\ TablesFinite'
    BY <1>3, <1>8, SyncedTyped DEF ListChecks
  <1>9. ASSUME Tick \/ UNCHANGED vars
        PROVE  TablesTyped' /\ TablesFinite'
    <2>1. UNCHANGED tables /\ today' \in 0..LastDay
      <3>1. CASE Tick
        BY <1>3, <3>1, LiquidityAssumption DEF Tick, TablesTyped
      <3>2. CASE UNCHANGED vars
        BY <1>3, <3>2 DEF vars, tables, TablesTyped
      <3>3. QED
        BY <1>9, <3>1, <3>2
    <2>2. TablesTyped'
      BY <1>3, <2>1 DEF tables, TablesTyped
    <2>3. TablesFinite'
      BY <1>3, <2>1 DEF tables, TablesFinite, StoredChecks, StoredTransactions
    <2>4. QED
      BY <2>2, <2>3
  <1>10. QED
    BY <1>2, <1>4, <1>5, <1>6, <1>7, <1>8, <1>9 DEF TypeInv


\* The requests that load an expense.
LEMMA RequestsTyped ==
  ASSUME TypeInv, NEW w \in Workers, NEW e \in Expenses, ExpenseRequest(w, e)
  PROVE  TypeInv'
  <1>1. TablesTyped /\ TablesFinite /\ JobsTyped
    BY DEF TypeInv
  <1>2. NoChecks \in [Checks -> CheckRow \cup {Absent}]
    BY DEF NoChecks
  <1>3. expense[e] # Absent => expense[e] \in ExpenseRow
    BY <1>1 DEF TablesTyped
  <1>4. UNCHANGED tables /\ UNCHANGED today => TablesTyped' /\ TablesFinite'
    BY <1>1 DEF tables, TablesTyped, TablesFinite, StoredChecks, StoredTransactions
  <1>5. ASSUME NEW endpoint, NEW next \in {"deposits", "read_checks", "read_linked"},
               NEW ids \in (SUBSET Checks) \cup {None},
               next # "deposits" => ids \in SUBSET Checks,
               Loads(w, endpoint, next, e, ids)
        PROVE  TypeInv'
    <2>1. TypedJob([next |-> next, id |-> e, row |-> expense[e], ids |-> ids,
                    todo |-> NoChecks, sum |-> 0])
      BY <1>2, <1>3, <1>5 DEF TypedJob, Job, CheckSteps, Loads
    <2>2. QED
      BY <1>1, <1>4, <1>5, <2>1, BeginsTyped DEF Loads, TypeInv
  <1>6. CASE ConfirmLoad(w, e) \/ SpendLoad(w, e) \/ RemoveLoad(w, e)
    <2>1. CASE ConfirmLoad(w, e)
      BY <1>5, <2>1 DEF ConfirmLoad
    <2>2. CASE SpendLoad(w, e)
      <3>1. PICK ids \in (SUBSET Checks) \ {{}} : Loads(w, "spend", "read_checks", e, ids)
        BY <2>2 DEF SpendLoad
      <3>2. QED
        BY <1>5, <3>1
    <2>3. CASE RemoveLoad(w, e)
      <3>1. PICK c \in Checks : Loads(w, "remove", "read_linked", e, {c})
        BY <2>3 DEF RemoveLoad
      <3>2. QED
        BY <1>5, <3>1
    <2>4. QED
      BY <1>6, <2>1, <2>2, <2>3
  <1>7. CASE UnconfirmLoad(w, e)
    <2> DEFINE r == [expense[e] EXCEPT !.is_paid = FALSE]
    <2>1. r \in ExpenseRow
      BY <1>3, <1>7 DEF UnconfirmLoad, ExpenseRow
    <2>2. Begins(w, "unconfirm", "unpay", e, r, None, NoChecks) /\ UNCHANGED <<tables, today>>
      BY <1>7 DEF UnconfirmLoad
    <2> HIDE DEF r
    <2>3. TypedJob([next |-> "unpay", id |-> e, row |-> r, ids |-> None,
                    todo |-> NoChecks, sum |-> 0])
      BY <1>2, <2>1 DEF TypedJob, Job, CheckSteps
    <2>4. QED
      BY <1>1, <1>4, <2>2, <2>3, BeginsTyped DEF TypeInv
  <1>8. CASE CreateWithChecks(w, e)
    <2>1. PICK category \in Categories, amount \in Amounts, ids \in (SUBSET Checks) \ {{}} :
            /\ expense' = [expense EXCEPT ![e] = NewExpense(category, amount)]
            /\ Begins(w, "create_with_checks", "read_checks", e, NewExpense(category, amount),
                      ids, NoChecks)
      BY <1>8 DEF CreateWithChecks
    <2> DEFINE r == NewExpense(category, amount)
    <2>2. r \in ExpenseRow
      BY DEF NewExpense, ExpenseRow
    <2> HIDE DEF r
    <2>3. TypedJob([next |-> "read_checks", id |-> e, row |-> r, ids |-> ids,
                    todo |-> NoChecks, sum |-> 0])
      BY <1>2, <2>2 DEF TypedJob, Job, CheckSteps
    <2>4. expense' \in [Expenses -> ExpenseRow \cup {Absent}]
      BY <1>1, <2>1, <2>2 DEF TablesTyped, r
    <2>5. TablesTyped' /\ TablesFinite'
      BY <1>1, <1>8, <2>4, ExpensesTyped DEF CreateWithChecks
    <2>6. Begins(w, "create_with_checks", "read_checks", e, r, ids, NoChecks)
      BY <2>1 DEF r
    <2>7. QED
      BY <1>1, <2>3, <2>5, <2>6, BeginsTyped DEF TypeInv
  <1>9. CASE UpdateLoad(w, e)
    <2>1. PICK category \in Categories, amount \in Amounts, ids \in (SUBSET Checks) \cup {None} :
            Begins(w, "update", "edit", e,
                   [expense[e] EXCEPT !.category = category, !.amount = amount], ids, NoChecks)
      BY <1>9 DEF UpdateLoad
    <2> DEFINE r == [expense[e] EXCEPT !.category = category, !.amount = amount]
    <2>2. r \in ExpenseRow
      BY <1>3, <1>9 DEF UpdateLoad, ExpenseRow
    <2>3. Begins(w, "update", "edit", e, r, ids, NoChecks) /\ UNCHANGED <<tables, today>>
      BY <1>9, <2>1 DEF UpdateLoad
    <2> HIDE DEF r
    <2>4. TypedJob([next |-> "edit", id |-> e, row |-> r, ids |-> ids,
                    todo |-> NoChecks, sum |-> 0])
      BY <1>2, <2>2 DEF TypedJob, Job, CheckSteps
    <2>5. QED
      BY <1>1, <1>4, <2>3, <2>4, BeginsTyped DEF TypeInv
  <1>10. CASE DestroyLoad(w, e)
    <2> DEFINE todo == AllReturned(SpentChecks(e))
               next == IF SpentChecks(e) = {} THEN "delete" ELSE "release"
    <2>1. \A c \in SpentChecks(e) : Returned(check[c]) \in CheckRow
      BY <1>1, ReturnedAgrees DEF SpentChecks, TablesTyped
    <2>2. todo \in [Checks -> CheckRow \cup {Absent}]
      BY <2>1 DEF AllReturned
    <2>3. next \in {"delete", "release"}
      OBVIOUS
    <2>4. Begins(w, "destroy", next, e, expense[e], None, todo) /\ UNCHANGED <<tables, today>>
          /\ expense[e] # Absent
      BY <1>10 DEF DestroyLoad
    <2> HIDE DEF todo, next
    <2>5. TypedJob([next |-> next, id |-> e, row |-> expense[e], ids |-> None,
                    todo |-> todo, sum |-> 0])
      BY <1>3, <2>2, <2>3, <2>4 DEF TypedJob, Job, CheckSteps
    <2>6. QED
      BY <1>1, <1>4, <2>4, <2>5, BeginsTyped DEF TypeInv
  <1>11. QED
    BY <1>6, <1>7, <1>8, <1>9, <1>10 DEF ExpenseRequest

LEMMA CheckRequestTyped ==
  ASSUME TypeInv, NEW w \in Workers, NEW c \in Checks, CheckRequest(w, c)
  PROVE  TypeInv'
  <1>1. TablesTyped' /\ TablesFinite'
    BY SyncedTyped DEF CheckRequest, TypeInv
  <1>2. \E endpoint : \E next \in {"load_patched", "load_deleted"} :
          Begins(w, endpoint, next, None, Absent, {c}, NoChecks)
    BY Zenon DEF CheckRequest
  <1>3. NoChecks \in [Checks -> CheckRow \cup {Absent}]
    BY DEF NoChecks
  <1>4. ASSUME NEW next \in {"load_patched", "load_deleted"}
        PROVE  TypedJob([next |-> next, id |-> None, row |-> Absent, ids |-> {c},
                         todo |-> NoChecks, sum |-> 0])
    BY <1>3 DEF TypedJob, Job, CheckSteps
  <1>5. QED
    BY <1>1, <1>2, <1>4, BeginsTyped DEF TypeInv


\* What recalculate_amounts() leaves alone, and what it sets.
LEMMA RecalculatedFields ==
  ASSUME NEW r \in ExpenseRow, NEW spent \in Int
  PROVE  /\ Recalculated(r, spent) \in ExpenseRow
         /\ Recalculated(r, spent).category = r.category
         /\ Recalculated(r, spent).initial_amount = r.initial_amount
         /\ Recalculated(r, spent).is_paid = r.is_paid
         /\ Recalculated(r, spent).amount = Net(r.initial_amount, spent)
         /\ Recalculated(r, spent).has_spent_check = (spent > 0)
  <1>1. PICK flag : flag = (spent > 0)
    OBVIOUS
  <1>2. flag \in BOOLEAN
    BY <1>1
  <1>3. PICK net : net = Net(r.initial_amount, spent)
    OBVIOUS
  <1>4. net \in Int
    BY <1>3 DEF Net, ExpenseRow
  <1> DEFINE marked == [r EXCEPT !.has_spent_check = flag]
             new == [marked EXCEPT !.amount = net]
  <1>5. marked \in ExpenseRow /\ marked.has_spent_check = flag /\ marked.category = r.category
        /\ marked.initial_amount = r.initial_amount /\ marked.is_paid = r.is_paid
    BY <1>2 DEF ExpenseRow
  <1> HIDE DEF marked
  <1>6. new \in ExpenseRow /\ new.amount = net /\ new.has_spent_check = flag
        /\ new.category = r.category /\ new.initial_amount = r.initial_amount
        /\ new.is_paid = r.is_paid
    BY <1>4, <1>5 DEF ExpenseRow
  <1>7. Recalculated(r, spent) = new
    BY <1>1, <1>3, Zenon DEF Recalculated, marked
  <1> HIDE DEF new
  <1>8. QED
    BY <1>1, <1>3, <1>6, <1>7, Zenon

\* The statements of a handler of an expense that leave the cheques alone.
LEMMA ExpenseStatementsTyped ==
  ASSUME TypeInv, NEW w \in Workers,
         \/ ReadDeposits(w) \/ ReadWithdrawals(w) \/ SavePaid(w) \/ CreateWithdrawal(w)
         \/ SaveUnpaid(w) \/ DeleteWithdrawals(w) \/ Recalculate(w) \/ SaveNet(w)
         \/ SaveEdited(w)
  PROVE  TypeInv'
  <1>1. TablesTyped /\ TablesFinite /\ JobsTyped
    BY DEF TypeInv
  <1>2. job[w] # Idle /\ job[w].next \notin CheckSteps
    BY DEF ReadDeposits, ReadWithdrawals, SavePaid, CreateWithdrawal, SaveUnpaid,
           DeleteWithdrawals, Recalculate, SaveNet, SaveEdited, At, CheckSteps
  <1>3. /\ job[w].row \in ExpenseRow /\ job[w].id \in Expenses
        /\ job[w].todo \in [Checks -> CheckRow \cup {Absent}] /\ job[w].sum \in Int
        /\ job[w].ids \in (SUBSET Checks) \cup {None}
    BY <1>1, <1>2 DEF JobsTyped, TypedJob, Job
  <1>4. UNCHANGED <<tables, today>> => TablesTyped' /\ TablesFinite'
    BY <1>1 DEF tables, TablesTyped, TablesFinite, StoredChecks, StoredTransactions
  <1>5. CASE ReadDeposits(w)
    <2>1. Moves(w, "withdrawals", job[w].row, job[w].todo, CardSum(job[w].row.category, "DEPOSIT"))
      BY <1>1, <1>5, ReadDepositsForm
    <2>2. CardSum(job[w].row.category, "DEPOSIT") \in Int
      BY <1>1, AggregatesType
    <2>3. JobsTyped'
      BY <1>1, <1>2, <1>3, <2>1, <2>2, MovesTyped DEF ExpenseSteps
    <2>4. QED
      BY <1>4, <1>5, <2>3 DEF ReadDeposits, TypeInv
  <1>6. CASE ReadWithdrawals(w)
    <2>1. Done(w) \/ Moves(w, "pay", [job[w].row EXCEPT !.is_paid = TRUE], job[w].todo, job[w].sum)
      BY <1>1, <1>6, ReadWithdrawalsForm
    <2>2. [job[w].row EXCEPT !.is_paid = TRUE] \in ExpenseRow
      BY <1>3 DEF ExpenseRow
    <2>3. JobsTyped'
      BY <1>1, <1>2, <1>3, <2>1, <2>2, MovesTyped, DoneTyped DEF ExpenseSteps
    <2>4. QED
      BY <1>4, <1>6, <2>3 DEF ReadWithdrawals, TypeInv
  <1>7. CASE Recalculate(w)
    <2> DEFINE row == Recalculated(job[w].row, SpentChecksAmount(job[w].id))
    <2>1. Moves(w, "save_net", row, job[w].todo, job[w].sum)
      BY <1>1, <1>7, RecalculateForm
    <2>2. SpentChecksAmount(job[w].id) \in Int
      BY <1>1, <1>3, AggregatesType
    <2>3. row \in ExpenseRow
      BY <1>3, <2>2, RecalculatedFields
    <2> HIDE DEF row
    <2>4. JobsTyped'
      BY <1>1, <1>2, <1>3, <2>1, <2>3, MovesTyped DEF ExpenseSteps
    <2>5. QED
      BY <1>4, <1>7, <2>4 DEF Recalculate, TypeInv
  <1>8. CASE SavePaid(w) \/ SaveUnpaid(w) \/ SaveNet(w) \/ SaveEdited(w)
    <2>1. TablesTyped' /\ TablesFinite'
      BY <1>2, <1>8, SavesExpense DEF SavePaid, SaveUnpaid, SaveNet, SaveEdited
    <2>2. \/ Done(w)
          \/ \E next \in {"withdraw", "refund"} : Goto(w, next)
          \/ Goto(w, "read_checks") /\ job[w].ids # None
      BY <1>8 DEF SavePaid, SaveUnpaid, SaveNet, SaveEdited
    <2>3. \A next : Goto(w, next) => Moves(w, next, job[w].row, job[w].todo, job[w].sum)
      BY <1>1, <1>2, MovesOn
    <2>4. JobsTyped'
      BY <1>1, <1>2, <1>3, <2>2, <2>3, MovesTyped, DoneTyped DEF ExpenseSteps
    <2>5. QED
      BY <2>1, <2>4 DEF TypeInv
  <1>9. CASE CreateWithdrawal(w)
    <2>1. TablesTyped' /\ TablesFinite'
      <3>1. CASE LinkHolds(job[w].id)
        <4>1. AddTransaction("WITHDRAWAL", job[w].row.category, job[w].row.amount, job[w].id)
              /\ UNCHANGED <<expense, check, today>>
          BY <1>9, <3>1 DEF CreateWithdrawal
        <4>2. job[w].row.category \in Categories /\ job[w].row.amount \in Int
          BY <1>3 DEF ExpenseRow
        <4>3. QED
          BY <1>1, <1>3, <4>1, <4>2, AddTransactionTyped
      <3>2. CASE ~LinkHolds(job[w].id)
        BY <1>4, <1>9, <3>2 DEF CreateWithdrawal, tables
      <3>3. QED
        BY <3>1, <3>2
    <2>2. JobsTyped'
      BY <1>1, <1>9, DoneTyped DEF CreateWithdrawal
    <2>3. QED
      BY <2>1, <2>2 DEF TypeInv
  <1>10. CASE DeleteWithdrawals(w)
    <2>1. card' \in [Transactions -> CardRow \cup {Absent}]
          /\ \A t \in Transactions : card'[t] # Absent => card[t] # Absent
      BY <1>1, <1>10 DEF DeleteWithdrawals, TablesTyped
    <2>2. TablesTyped' /\ TablesFinite'
      BY <1>1, <1>10, <2>1, CardTyped DEF DeleteWithdrawals
    <2>3. JobsTyped'
      BY <1>1, <1>10, DoneTyped DEF DeleteWithdrawals
    <2>4. QED
      BY <2>2, <2>3 DEF TypeInv
  <1>11. QED
    BY <1>5, <1>6, <1>7, <1>8, <1>9, <1>10

\* The statements that load, save or delete cheques.
LEMMA ChequeStatementsTyped ==
  ASSUME TypeInv, NEW w \in Workers,
         \/ ReadChecks(w) \/ ReadLinked(w) \/ SaveChecks(w) \/ ReleaseChecks(w)
         \/ DeleteExpense(w)
  PROVE  TypeInv'
  <1>1. TablesTyped /\ TablesFinite /\ JobsTyped
    BY DEF TypeInv
  <1>2. job[w] # Idle /\ job[w].next \notin CheckSteps
    BY DEF ReadChecks, ReadLinked, SaveChecks, ReleaseChecks, DeleteExpense, At, CheckSteps
  <1>3. /\ job[w].row \in ExpenseRow /\ job[w].id \in Expenses
        /\ job[w].todo \in [Checks -> CheckRow \cup {Absent}] /\ job[w].sum \in Int
    BY <1>1, <1>2 DEF JobsTyped, TypedJob, Job
  <1>4. UNCHANGED <<tables, today>> => TablesTyped' /\ TablesFinite'
    BY <1>1 DEF tables, TablesTyped, TablesFinite, StoredChecks, StoredTransactions
  <1>5. CASE ReadChecks(w)
    <2> DEFINE next == IF job[w].ids = {} THEN "recalculate" ELSE "save_checks"
    <2>1. Done(w) \/ (Spendable(job[w].ids, job[w].id)
                      /\ Moves(w, next, job[w].row, Taken(w), job[w].sum))
      BY <1>1, <1>5, ReadChecksForm
    <2>2. next \in ExpenseSteps /\ next # "read_checks"
      BY DEF ExpenseSteps
    <2> HIDE DEF next
    <2>3. ASSUME Spendable(job[w].ids, job[w].id)
          PROVE  Taken(w) \in [Checks -> CheckRow \cup {Absent}]
      <3>1. \A c \in Checks : c \in job[w].ids => check[c] \in CheckRow
        BY <1>1, <2>3 DEF Spendable, TablesTyped
      <3>2. \A c \in Checks : c \in job[w].ids => SpentOn(job[w].id, check[c]) \in CheckRow
        BY <1>3, <3>1, SpentAgrees
      <3>3. QED
        BY <3>2 DEF Taken
    <2>4. JobsTyped'
      BY <1>1, <1>2, <1>3, <2>1, <2>2, <2>3, MovesTyped, DoneTyped
    <2>5. QED
      BY <1>4, <1>5, <2>4 DEF ReadChecks, TypeInv
  <1>6. CASE ReadLinked(w)
    <2>1. Done(w) \/ (job[w].ids \subseteq SpentChecks(job[w].id)
                      /\ Moves(w, "save_checks", job[w].row, AllReturned(job[w].ids), job[w].sum))
      BY <1>1, <1>6, ReadLinkedForm
    <2>2. ASSUME job[w].ids \subseteq SpentChecks(job[w].id)
          PROVE  AllReturned(job[w].ids) \in [Checks -> CheckRow \cup {Absent}]
      <3>1. \A c \in Checks : c \in job[w].ids => check[c] \in CheckRow
        BY <1>1, <2>2 DEF SpentChecks, TablesTyped
      <3>2. \A c \in Checks : c \in job[w].ids => Returned(check[c]) \in CheckRow
        BY <3>1, ReturnedAgrees
      <3>3. QED
        BY <3>2 DEF AllReturned
    <2>3. JobsTyped'
      BY <1>1, <1>2, <1>3, <2>1, <2>2, MovesTyped, DoneTyped DEF ExpenseSteps
    <2>4. QED
      BY <1>4, <1>6, <2>3 DEF ReadLinked, TypeInv
  <1>7. ASSUME NEW c \in Checks, NEW last \in {"recalculate", "delete"},
               job[w].next \in {"save_checks", "release"}, SaveCheck(w, c, last)
        PROVE  TypeInv'
    <2> DEFINE todo == [job[w].todo EXCEPT ![c] = Absent]
               next == IF Todo(w) = {c} THEN last ELSE job[w].next
    <2>1. /\ c \in Todo(w)
          /\ UNCHANGED <<expense, card, today>>
          /\ \/ check' = check /\ Done(w)
             \/ /\ check' = [check EXCEPT ![c] = job[w].todo[c]]
                /\ Moves(w, next, job[w].row, todo, job[w].sum)
      BY <1>1, <1>2, <1>7, SaveCheckForm, Zenon
    <2>2. todo \in [Checks -> CheckRow \cup {Absent}] /\ next \in ExpenseSteps /\ next # "read_checks"
      BY <1>3, <1>7 DEF ExpenseSteps
    <2> HIDE DEF todo, next
    <2>3. JobsTyped'
      BY <1>1, <1>2, <1>3, <2>1, <2>2, MovesTyped, DoneTyped
    <2>4. job[w].todo[c] \in CheckRow
      BY <1>3, <2>1 DEF Todo
    <2>5. CASE check' = check
      BY <1>4, <2>1, <2>3, <2>5 DEF tables, TypeInv
    <2>6. CASE check' = [check EXCEPT ![c] = job[w].todo[c]]
      <3>1. check' \in [Checks -> CheckRow \cup {Absent}]
        BY <1>1, <2>4, <2>6 DEF TablesTyped
      <3>2. \A d \in Checks \ {c} : check'[d] # Absent => check[d] # Absent
        BY <1>1, <2>6 DEF TablesTyped
      <3>3. QED
        BY <1>1, <2>1, <2>3, <3>1, <3>2, CheckTyped DEF TypeInv
    <2>7. QED
      BY <2>1, <2>5, <2>6
  <1>8. CASE SaveChecks(w) \/ ReleaseChecks(w)
    BY <1>7, <1>8 DEF SaveChecks, ReleaseChecks, At
  <1>9. CASE DeleteExpense(w)
    <2> DEFINE e == job[w].id
    <2>1. /\ expense' = [expense EXCEPT ![e] = Absent]
          /\ check' = [c \in Checks |-> IF c \in SpentChecks(e)
                         THEN [check[c] EXCEPT !.spent_on_expense = None] ELSE check[c]]
          /\ card' = [t \in Transactions |-> IF card[t] # Absent /\ card[t].expense = e
                        THEN [card[t] EXCEPT !.expense = None] ELSE card[t]]
          /\ Done(w) /\ today' = today
      BY <1>9, Zenon DEF DeleteExpense
    <2> HIDE DEF e
    <2>2. expense' \in [Expenses -> ExpenseRow \cup {Absent}]
      BY <1>1, <2>1 DEF TablesTyped
    <2>3. \A c \in Checks : check'[c] \in CheckRow \cup {Absent} /\ (check'[c] # Absent => check[c] # Absent)
      BY <1>1, <2>1 DEF TablesTyped, SpentChecks, CheckRow
    <2>4. \A t \in Transactions : card'[t] \in CardRow \cup {Absent} /\ (card'[t] # Absent => card[t] # Absent)
      BY <1>1, <2>1 DEF TablesTyped, CardRow
    <2>5. check' \in [Checks -> CheckRow \cup {Absent}] /\ card' \in [Transactions -> CardRow \cup {Absent}]
      BY <2>1, <2>3, <2>4
    <2>6. TablesTyped'
      BY <1>1, <2>1, <2>2, <2>5 DEF TablesTyped
    <2>7. StoredChecks' \subseteq StoredChecks /\ StoredTransactions' \subseteq StoredTransactions
      BY <2>3, <2>4 DEF StoredChecks, StoredTransactions
    <2>8. TablesFinite'
      BY <1>1, <2>7, FS_Subset DEF TablesFinite
    <2>9. JobsTyped'
      BY <1>1, <2>1, DoneTyped
    <2>10. QED
      BY <2>6, <2>8, <2>9 DEF TypeInv
  <1>10. QED
    BY <1>5, <1>6, <1>8, <1>9


\* The statements of a cheque's own endpoints.
LEMMA OwnStatementsTyped ==
  ASSUME TypeInv, NEW w \in Workers,
         LoadPatched(w) \/ SavePatched(w) \/ LoadDeleted(w) \/ DeleteCheck(w)
  PROVE  TypeInv'
  <1>1. TablesTyped /\ TablesFinite /\ JobsTyped
    BY DEF TypeInv
  <1>2. job[w] # Idle /\ job[w].next \in CheckSteps
    BY DEF LoadPatched, SavePatched, LoadDeleted, DeleteCheck, At, CheckSteps
  <1>3. /\ job[w].ids \in SUBSET Checks
        /\ job[w].todo \in [Checks -> CheckRow \cup {Absent}]
    BY <1>1, <1>2 DEF JobsTyped, TypedJob, Job
  <1>4. UNCHANGED <<tables, today>> => TablesTyped' /\ TablesFinite'
    BY <1>1 DEF tables, TablesTyped, TablesFinite, StoredChecks, StoredTransactions
  <1>5. CASE LoadPatched(w)
    <2>1. ASSUME NEW c \in job[w].ids, check[c] # Absent, NEW r, PatchedCheck(c, r),
                 Moves(w, "save_patched", job[w].row, [job[w].todo EXCEPT ![c] = r], job[w].sum)
          PROVE  JobsTyped'
      <3>1. check[c] \in CheckRow
        BY <1>1, <1>3, <2>1 DEF TablesTyped
      <3>2. r \in CheckRow
        BY <2>1, <3>1 DEF PatchedCheck, CheckRow, CheckStatuses
      <3> DEFINE todo == [job[w].todo EXCEPT ![c] = r]
      <3>3. todo \in [Checks -> CheckRow \cup {Absent}]
        BY <1>3, <3>2
      <3> HIDE DEF todo
      <3>4. Moves(w, "save_patched", job[w].row, todo, job[w].sum)
        BY <2>1 DEF todo
      <3>5. QED
        BY <1>1, <1>2, <3>3, <3>4, ChequeMovesTyped DEF CheckSteps
    <2>2. JobsTyped'
      BY <1>1, <1>5, <2>1, LoadPatchedForm, DoneTyped
    <2>3. QED
      BY <1>4, <1>5, <2>2 DEF LoadPatched, TypeInv
  <1>6. CASE SavePatched(w)
    <2>1. PICK c \in Todo(w) :
            check' = IF LinkHolds(job[w].todo[c].spent_on_expense)
                     THEN [check EXCEPT ![c] = job[w].todo[c]] ELSE check
      BY <1>6, Zenon DEF SavePatched
    <2>2. c \in Checks /\ job[w].todo[c] \in CheckRow
      BY <1>3 DEF Todo
    <2>3. check' \in [Checks -> CheckRow \cup {Absent}]
          /\ \A d \in Checks \ {c} : check'[d] # Absent => check[d] # Absent
      BY <1>1, <2>1, <2>2 DEF TablesTyped
    <2>4. TablesTyped' /\ TablesFinite'
      BY <1>1, <1>6, <2>3, CheckTyped DEF SavePatched
    <2>5. QED
      BY <1>1, <1>6, <2>4, DoneTyped DEF SavePatched, TypeInv
  <1>7. CASE LoadDeleted(w)
    <2>1. Done(w) \/ Goto(w, "delete_check")
      BY <1>7 DEF LoadDeleted
    <2>2. JobsTyped'
      BY <1>1, <1>2, <1>3, <2>1, MovesOn, ChequeMovesTyped, DoneTyped DEF CheckSteps
    <2>3. QED
      BY <1>4, <1>7, <2>2 DEF LoadDeleted, TypeInv
  <1>8. CASE DeleteCheck(w)
    <2>1. check' = [c \in Checks |-> IF c \in job[w].ids THEN Absent ELSE check[c]]
          /\ UNCHANGED <<expense, card, today>> /\ Done(w)
      BY <1>8 DEF DeleteCheck
    <2>2. check' \in [Checks -> CheckRow \cup {Absent}]
          /\ \A d \in Checks : check'[d] # Absent => check[d] # Absent
      BY <1>1, <2>1 DEF TablesTyped
    <2>3. TablesTyped' /\ TablesFinite'
      BY <1>1, <2>1, <2>2, CheckTyped
    <2>4. QED
      BY <1>1, <2>1, <2>3, DoneTyped DEF TypeInv
  <1>9. QED
    BY <1>5, <1>6, <1>7, <1>8

LEMMA TypeInductive ==
  TypeInv /\ [Next]_vars => TypeInv'
  <1> SUFFICES ASSUME TypeInv, [Next]_vars
               PROVE  TypeInv'
    OBVIOUS
  <1>1. CASE \/ UNCHANGED vars
             \/ \E e \in Expenses : CreateExpense(e)
             \/ \E c \in Checks : CreateCheck(c)
             \/ \E t \in Transactions : DeleteTransaction(t)
             \/ AddCardTransaction \/ ListChecks \/ Tick
    BY <1>1, EnvironmentTyped
  <1>2. ASSUME NEW w \in Workers,
               \/ \E e \in Expenses : ExpenseRequest(w, e)
               \/ \E c \in Checks : CheckRequest(w, c)
        PROVE  TypeInv'
    BY <1>2, RequestsTyped, CheckRequestTyped
  <1>3. ASSUME NEW w \in Workers, Statement(w)
        PROVE  TypeInv'
    BY <1>3, ExpenseStatementsTyped, ChequeStatementsTyped, OwnStatementsTyped DEF Statement
  <1>4. ASSUME NEW w \in Workers, Crash(w)
        PROVE  TypeInv'
    <2>1. UNCHANGED <<tables, today>> /\ Done(w)
      BY <1>4 DEF Crash
    <2>2. TablesTyped' /\ TablesFinite'
      BY <2>1 DEF tables, TypeInv, TablesTyped, TablesFinite, StoredChecks, StoredTransactions
    <2>3. QED
      BY <2>1, <2>2, DoneTyped DEF TypeInv
  <1>5. QED
    BY <1>1, <1>2, <1>3, <1>4 DEF Next

LEMMA TypeInitially == Init => TypeInv
  <1> SUFFICES ASSUME Init
               PROVE  TypeInv
    OBVIOUS
  <1>1. TablesTyped /\ JobsTyped
    BY LiquidityAssumption DEF Init, TablesTyped, JobsTyped
  <1>2. StoredChecks = {} /\ StoredTransactions = {}
    BY DEF Init, StoredChecks, StoredTransactions
  <1>3. QED
    BY <1>1, <1>2, FS_EmptySet DEF TypeInv, TablesFinite

\* Whatever clients enter and however the statements of any number of workers interleave,
\* also when they are killed in between, every row, every snapshot and every aggregate a
\* handler holds is of the type the models declare.
THEOREM TypesHold == Spec => []TypeOK
  <1>1. TypeInv => TypeOK
    BY DEF TypeInv, TablesTyped, JobsTyped, TypeOK
  <1>2. QED
    BY <1>1, TypeInitially, TypeInductive, PTL DEF Spec


-----------------------------------------------------------------------------
(* One worker *)

\* With one worker the only job is that of w0, and it has what it was given.
LEMMA SoloJob ==
  ASSUME JobsTyped, NEW w0 \in Workers
  PROVE  /\ Done(w0) => job'[w0] = Idle
         /\ \A j : Becomes(w0, j) => job'[w0] = j
         /\ \A next, row, todo, sum : Moves(w0, next, row, todo, sum) =>
              job'[w0] = [next |-> next, id |-> job[w0].id, row |-> row, ids |-> job[w0].ids,
                          todo |-> todo, sum |-> sum]
  BY DEF JobsTyped, Done, Becomes, Moves

\* Payments.  What a handler that is at next knows of the expense e it holds: it is stored, as
\* only this handler could delete it, and is_paid of the row is in a known relation to
\* is_paid of the instance until the withdrawal is recorded or removed.
PaidKnows(next, e, row) ==
  next \notin CheckSteps =>
    /\ expense[e] # Absent
    /\ next \in {"deposits", "withdrawals"} => ~expense[e].is_paid
    /\ next = "pay" => ~expense[e].is_paid /\ row.is_paid
    /\ next = "withdraw" => expense[e].is_paid /\ Withdrawals(e) = {}
    /\ next = "unpay" => expense[e].is_paid /\ ~row.is_paid
    /\ next = "refund" => ~expense[e].is_paid
    /\ next \in {"edit", "read_checks", "read_linked", "save_checks", "recalculate", "save_net"}
         => (row.is_paid <=> expense[e].is_paid)
PaidJob(j) == j # Idle => PaidKnows(j.next, j.id, j.row)

\* The handler with job j is between is_paid and the withdrawal of expense e.
BetweenBoth(j, e) == j # Idle /\ j.id = e /\ j.next \in {"withdraw", "refund"}

\* What is deducted is paid; what is paid is deducted, unless transactions are deleted by hand.
Settled(e) ==
  expense[e] # Absent =>
    /\ Withdrawals(e) # {} => expense[e].is_paid
    /\ "delete_transaction" \notin Endpoints => (expense[e].is_paid => Withdrawals(e) # {})

PaidInv(w0) ==
  /\ \A e \in Expenses : expense[e] = Absent => Withdrawals(e) = {}
  /\ \A e \in Expenses : \A t, u \in Withdrawals(e) : t = u
  /\ \A e \in Expenses : BetweenBoth(job[w0], e) \/ Settled(e)
  /\ PaidJob(job[w0])

\* The handler goes on, the tables of the expenses and of the cards being as they were.
LEMMA PaidQuiet ==
  ASSUME NEW w0, PaidInv(w0), UNCHANGED <<expense, card>>,
         job[w0] # Idle => job[w0].next \notin {"withdraw", "refund"},
         PaidJob(job[w0])'
  PROVE  PaidInv(w0)'
  BY DEF PaidInv, BetweenBoth, Settled, Withdrawals

LEMMA PaidMoves ==
  ASSUME JobsTyped, NEW w0 \in Workers, UNCHANGED <<expense, card>>,
         NEW next, NEW row, NEW todo, NEW sum, Moves(w0, next, row, todo, sum),
         PaidKnows(next, job[w0].id, row)
  PROVE  PaidJob(job[w0])'
  <1>1. job'[w0] = [next |-> next, id |-> job[w0].id, row |-> row, ids |-> job[w0].ids,
                    todo |-> todo, sum |-> sum]
    BY SoloJob
  <1>2. job'[w0].next = next /\ job'[w0].id = job[w0].id /\ job'[w0].row = row
    BY <1>1
  <1>3. PaidKnows(next, job[w0].id, row) <=> PaidKnows(job'[w0].next, job'[w0].id, job'[w0].row)
    BY <1>2
  <1>4. \A e : Withdrawals(e)' = Withdrawals(e)
    BY DEF Withdrawals
  <1>5. PaidKnows(job[w0].next, job[w0].id, job[w0].row)'
    BY <1>3, <1>4 DEF PaidKnows
  <1>6. QED
    BY <1>5 DEF PaidJob

\* The requests.
LEMMA PaidRequests ==
  ASSUME TypeInv, NEW w0 \in Workers, PaidInv(w0), NEW e \in Expenses, ExpenseRequest(w0, e)
  PROVE  PaidInv(w0)'
  <1>1. JobsTyped /\ TablesTyped /\ job[w0] = Idle
    BY DEF TypeInv, ExpenseRequest, ConfirmLoad, UnconfirmLoad, SpendLoad, RemoveLoad,
           CreateWithChecks, UpdateLoad, DestroyLoad, Loads, Begins
  <1>2. ASSUME NEW endpoint, NEW next, NEW r, NEW ids, NEW todo,
               Begins(w0, endpoint, next, e, r, ids, todo)
        PROVE  job'[w0] = [next |-> next, id |-> e, row |-> r, ids |-> ids, todo |-> todo,
                           sum |-> 0]
    BY <1>1, <1>2, SoloJob DEF Begins
  <1>3. CASE ConfirmLoad(w0, e)
    <2>1. /\ UNCHANGED <<expense, card>> /\ expense[e] # Absent /\ ~expense[e].is_paid
          /\ job'[w0] = [next |-> "deposits", id |-> e, row |-> expense[e], ids |-> None,
                         todo |-> NoChecks, sum |-> 0]
      BY <1>2, <1>3 DEF ConfirmLoad, Loads, tables
    <2>2. PaidJob(job[w0])'
      BY <2>1 DEF PaidKnows, PaidJob
    <2>3. QED
      BY <1>1, <2>1, <2>2, PaidQuiet
  <1>4. CASE UnconfirmLoad(w0, e)
    <2>1. /\ UNCHANGED <<expense, card>> /\ expense[e] # Absent /\ expense[e].is_paid
          /\ job'[w0] = [next |-> "unpay", id |-> e, row |-> [expense[e] EXCEPT !.is_paid = FALSE],
                         ids |-> None, todo |-> NoChecks, sum |-> 0]
      BY <1>2, <1>4 DEF UnconfirmLoad, tables
    <2>2. expense[e] \in ExpenseRow
      BY <1>1, <2>1 DEF TablesTyped
    <2>3. PaidJob(job[w0])'
      BY <2>1, <2>2 DEF PaidKnows, PaidJob, ExpenseRow
    <2>4. QED
      BY <1>1, <2>1, <2>3, PaidQuiet
  <1>5. CASE SpendLoad(w0, e) \/ RemoveLoad(w0, e)
    <2>1. PICK endpoint, ids : \E next \in {"read_checks", "read_linked"} :
                                 Loads(w0, endpoint, next, e, ids)
      BY <1>5, Zenon DEF SpendLoad, RemoveLoad
    <2>2. PICK next \in {"read_checks", "read_linked"} : Loads(w0, endpoint, next, e, ids)
      BY <2>1
    <2>3. /\ UNCHANGED <<expense, card>> /\ expense[e] # Absent
          /\ job'[w0] = [next |-> next, id |-> e, row |-> expense[e], ids |-> ids,
                         todo |-> NoChecks, sum |-> 0]
      BY <1>2, <2>2 DEF Loads, tables
    <2>4. PaidJob(job[w0])'
      BY <2>3 DEF PaidKnows, PaidJob
    <2>5. QED
      BY <1>1, <2>3, <2>4, PaidQuiet
  <1>6. CASE UpdateLoad(w0, e)
    <2>1. PICK category \in Categories, amount \in Amounts, ids \in (SUBSET Checks) \cup {None} :
            Begins(w0, "update", "edit", e,
                   [expense[e] EXCEPT !.category = category, !.amount = amount], ids, NoChecks)
      BY <1>6 DEF UpdateLoad
    <2> DEFINE r == [expense[e] EXCEPT !.category = category, !.amount = amount]
    <2>2. expense[e] \in ExpenseRow /\ expense[e] # Absent /\ UNCHANGED <<expense, card>>
      BY <1>1, <1>6 DEF UpdateLoad, TablesTyped, tables
    <2>3. r.is_paid = expense[e].is_paid
      BY <2>2 DEF ExpenseRow
    <2> HIDE DEF r
    <2>4. job'[w0] = [next |-> "edit", id |-> e, row |-> r, ids |-> ids, todo |-> NoChecks,
                      sum |-> 0]
      BY <1>2, <2>1 DEF r
    <2>5. PaidJob(job[w0])'
      BY <2>2, <2>3, <2>4 DEF PaidKnows, PaidJob
    <2>6. QED
      BY <1>1, <2>2, <2>5, PaidQuiet
  <1>7. CASE DestroyLoad(w0, e)
    <2> DEFINE next == IF SpentChecks(e) = {} THEN "delete" ELSE "release"
    <2>1. /\ expense[e] # Absent /\ UNCHANGED <<expense, card>>
          /\ Begins(w0, "destroy", next, e, expense[e], None, AllReturned(SpentChecks(e)))
      BY <1>7 DEF DestroyLoad, tables
    <2>2. next \in {"delete", "release"}
      OBVIOUS
    <2> HIDE DEF next
    <2>3. job'[w0] = [next |-> next, id |-> e, row |-> expense[e], ids |-> None,
                      todo |-> AllReturned(SpentChecks(e)), sum |-> 0]
      BY <1>2, <2>1
    <2>4. PaidJob(job[w0])'
      BY <2>1, <2>2, <2>3 DEF PaidKnows, PaidJob
    <2>5. QED
      BY <1>1, <2>1, <2>4, PaidQuiet
  <1>8. CASE CreateWithChecks(w0, e)
    <2>1. PICK category \in Categories, amount \in Amounts, ids \in (SUBSET Checks) \ {{}} :
            /\ expense' = [expense EXCEPT ![e] = NewExpense(category, amount)]
            /\ Begins(w0, "create_with_checks", "read_checks", e, NewExpense(category, amount),
                      ids, NoChecks)
      BY <1>8 DEF CreateWithChecks
    <2> DEFINE r == NewExpense(category, amount)
    <2>2. r \in ExpenseRow /\ r.is_paid = FALSE
      BY DEF NewExpense, ExpenseRow
    <2> HIDE DEF r
    <2>3. job'[w0] = [next |-> "read_checks", id |-> e, row |-> r, ids |-> ids,
                      todo |-> NoChecks, sum |-> 0]
      BY <1>2, <2>1 DEF r
    <2>4. expense' = [expense EXCEPT ![e] = r] /\ card' = card /\ expense[e] = Absent
      BY <1>8, <2>1 DEF r, CreateWithChecks, FreshExpense
    <2>5. expense'[e] = r /\ r # Absent
      BY <1>1, <2>2, <2>4, SentinelAssumption DEF TablesTyped
    <2>6. PaidJob(job[w0])'
      BY <2>3, <2>5 DEF PaidKnows, PaidJob
    <2>7. \A f \in Expenses : Withdrawals(f)' = Withdrawals(f)
      BY <2>4 DEF Withdrawals
    <2>8. \A f \in Expenses \ {e} : expense'[f] = expense[f]
      BY <1>1, <2>4 DEF TablesTyped
    <2>9. \A f \in Expenses : Settled(f)'
      BY <1>1, <2>2, <2>4, <2>5, <2>7, <2>8 DEF PaidInv, BetweenBoth, Settled
    <2>10. QED
      BY <2>5, <2>6, <2>7, <2>8, <2>9 DEF PaidInv
  <1>9. QED
    BY <1>3, <1>4, <1>5, <1>6, <1>7, <1>8 DEF ExpenseRequest


\* Requests for cheques, and steps that no handler takes.
LEMMA PaidOtherRequests ==
  ASSUME TypeInv, NEW w0 \in Workers, Workers = {w0}, PaidInv(w0),
         \/ \E c \in Checks : CheckRequest(w0, c)
         \/ \E e \in Expenses : CreateExpense(e)
         \/ \E c \in Checks : CreateCheck(c)
         \/ \E t \in Transactions : DeleteTransaction(t)
         \/ AddCardTransaction \/ ListChecks \/ Tick \/ UNCHANGED vars
  PROVE  PaidInv(w0)'
  <1>1. JobsTyped /\ TablesTyped
    BY DEF TypeInv
  <1>2. ASSUME UNCHANGED <<expense, card, job>>
        PROVE  PaidInv(w0)'
    BY <1>2 DEF PaidKnows, PaidInv, PaidJob, BetweenBoth, Settled, Withdrawals
  <1>3. CASE (\E c \in Checks : CreateCheck(c)) \/ ListChecks \/ Tick \/ UNCHANGED vars
    BY <1>2, <1>3 DEF CreateCheck, ListChecks, Tick, vars, tables
  <1>4. ASSUME NEW c \in Checks, CheckRequest(w0, c)
        PROVE  PaidInv(w0)'
    <2>1. job[w0] = Idle /\ UNCHANGED <<expense, card>>
          /\ \E endpoint : \E next \in {"load_patched", "load_deleted"} :
               Begins(w0, endpoint, next, None, Absent, {c}, NoChecks)
      BY <1>4, Zenon DEF CheckRequest, Begins
    <2>2. \E next \in {"load_patched", "load_deleted"} :
            job'[w0] = [next |-> next, id |-> None, row |-> Absent, ids |-> {c},
                        todo |-> NoChecks, sum |-> 0]
      BY <1>1, <2>1, SoloJob DEF Begins
    <2>3. PaidJob(job[w0])'
      BY <2>2 DEF PaidKnows, PaidJob, CheckSteps
    <2>4. QED
      BY <2>1, <2>3, PaidQuiet
  <1>5. ASSUME NEW e \in Expenses, CreateExpense(e)
        PROVE  PaidInv(w0)'
    <2>1. PICK category \in Categories, amount \in Amounts :
            expense' = [expense EXCEPT ![e] = NewExpense(category, amount)]
      BY <1>5 DEF CreateExpense
    <2> DEFINE r == NewExpense(category, amount)
    <2>2. r \in ExpenseRow /\ r.is_paid = FALSE
      BY DEF NewExpense, ExpenseRow
    <2> HIDE DEF r
    <2>3. expense' = [expense EXCEPT ![e] = r] /\ UNCHANGED <<card, job>> /\ expense[e] = Absent
          /\ (job[w0] # Idle => job[w0].id # e)
      BY <1>5, <2>1 DEF r, CreateExpense, FreshExpense
    <2>4. expense'[e] = r /\ r # Absent /\ \A f \in Expenses \ {e} : expense'[f] = expense[f]
      BY <1>1, <2>2, <2>3, SentinelAssumption DEF TablesTyped
    <2>5. \A f \in Expenses : Withdrawals(f)' = Withdrawals(f)
      BY <2>3 DEF Withdrawals
    <2>6. \A f \in Expenses : (BetweenBoth(job[w0], f) \/ Settled(f))'
      BY <2>2, <2>3, <2>4, <2>5 DEF PaidInv, BetweenBoth, Settled
    <2>7. job[w0] # Idle /\ job[w0].next \notin CheckSteps => job[w0].id \in Expenses
      BY <1>1 DEF JobsTyped, TypedJob
    <2>8. PaidJob(job[w0])'
      BY <2>3, <2>4, <2>5, <2>7 DEF PaidKnows, PaidInv, PaidJob
    <2>9. QED
      BY <2>4, <2>5, <2>6, <2>8 DEF PaidInv
  <1>6. ASSUME AddCardTransaction
        PROVE  PaidInv(w0)'
    <2>1. \A f \in Expenses : Withdrawals(f)' = Withdrawals(f)
      <3>1. PICK type, category, amount : AddTransaction(type, category, amount, None)
        BY <1>6 DEF AddCardTransaction
      <3>2. PICK t \in Transactions :
              /\ card[t] = Absent
              /\ card' = [card EXCEPT ![t] = [card_type |-> category, transaction_type |-> type,
                                              amount |-> amount, expense |-> None]]
        BY <3>1 DEF AddTransaction
      <3>3. card'[t].expense = None /\ \A u \in Transactions \ {t} : card'[u] = card[u]
        BY <1>1, <3>2 DEF TablesTyped
      <3>4. None \notin Expenses
        BY LiquidityAssumption
      <3>5. QED
        BY <3>2, <3>3, <3>4 DEF Withdrawals
    <2>2. UNCHANGED <<expense, job>>
      BY <1>6 DEF AddCardTransaction
    <2>3. job[w0] # Idle /\ job[w0].next \notin CheckSteps => job[w0].id \in Expenses
      BY <1>1 DEF JobsTyped, TypedJob
    <2>4. PaidJob(job[w0])'
      BY <2>1, <2>2, <2>3 DEF PaidKnows, PaidInv, PaidJob
    <2>5. QED
      BY <2>1, <2>2, <2>4 DEF PaidInv, BetweenBoth, Settled
  <1>7. ASSUME NEW t \in Transactions, DeleteTransaction(t)
        PROVE  PaidInv(w0)'
    <2>1. /\ "delete_transaction" \in Endpoints /\ UNCHANGED <<expense, job>>
          /\ card' = [card EXCEPT ![t] = Absent]
      BY <1>7 DEF DeleteTransaction
    <2>2. \A u \in Transactions : card'[u] = Absent \/ card'[u] = card[u]
      BY <1>1, <2>1 DEF TablesTyped
    <2>3. \A f \in Expenses : Withdrawals(f)' \subseteq Withdrawals(f)
      BY <2>2 DEF Withdrawals
    <2>4. job[w0] # Idle /\ job[w0].next \notin CheckSteps => job[w0].id \in Expenses
      BY <1>1 DEF JobsTyped, TypedJob
    <2>5. PaidJob(job[w0])'
      BY <2>1, <2>3, <2>4 DEF PaidKnows, PaidInv, PaidJob
    <2>6. \A f \in Expenses : Settled(f) => Settled(f)'
      BY <2>1, <2>3 DEF Settled
    <2>7. QED
      BY <2>1, <2>3, <2>5, <2>6 DEF PaidInv, BetweenBoth
  <1>8. QED
    BY <1>3, <1>4, <1>5, <1>6, <1>7

\* The statements that leave the expenses and the cards alone.
LEMMA PaidReads ==
  ASSUME TypeInv, NEW w0 \in Workers, PaidInv(w0),
         \/ ReadDeposits(w0) \/ ReadWithdrawals(w0) \/ ReadChecks(w0) \/ ReadLinked(w0)
         \/ SaveChecks(w0) \/ ReleaseChecks(w0) \/ Recalculate(w0)
         \/ LoadPatched(w0) \/ SavePatched(w0) \/ LoadDeleted(w0) \/ DeleteCheck(w0)
  PROVE  PaidInv(w0)'
  <1>1. JobsTyped /\ TablesTyped /\ PaidJob(job[w0])
    BY DEF TypeInv, PaidInv
  <1>2. job[w0] # Idle /\ UNCHANGED <<expense, card>>
    BY DEF ReadDeposits, ReadWithdrawals, ReadChecks, ReadLinked, SaveChecks, ReleaseChecks,
           Recalculate, LoadPatched, SavePatched, LoadDeleted, DeleteCheck, At, SaveCheck, tables
  <1>3. job[w0].next \notin {"withdraw", "refund"}
    BY DEF ReadDeposits, ReadWithdrawals, ReadChecks, ReadLinked, SaveChecks, ReleaseChecks,
           Recalculate, LoadPatched, SavePatched, LoadDeleted, DeleteCheck, At
  <1>4. SUFFICES PaidJob(job[w0])'
    BY <1>2, <1>3, PaidQuiet
  <1>5. Done(w0) => PaidJob(job[w0])'
    BY <1>1, SoloJob DEF PaidKnows, PaidJob
  <1>6. job[w0].next \notin CheckSteps => job[w0].id \in Expenses /\ job[w0].row \in ExpenseRow
    BY <1>1, <1>2 DEF JobsTyped, TypedJob
  <1>7. PaidKnows(job[w0].next, job[w0].id, job[w0].row)
    BY <1>1, <1>2 DEF PaidJob
  <1>8. CASE ReadDeposits(w0)
    <2>1. PICK sum : Moves(w0, "withdrawals", job[w0].row, job[w0].todo, sum)
      BY <1>1, <1>8, ReadDepositsForm
    <2>2. PaidKnows("withdrawals", job[w0].id, job[w0].row)
      BY <1>7, <1>8 DEF ReadDeposits, At, PaidKnows, CheckSteps
    <2>3. QED
      BY <1>1, <1>2, <2>1, <2>2, PaidMoves
  <1>9. CASE ReadWithdrawals(w0)
    <2> DEFINE row == [job[w0].row EXCEPT !.is_paid = TRUE]
    <2>1. Done(w0) \/ \E sum : Moves(w0, "pay", row, job[w0].todo, sum)
      BY <1>1, <1>9, ReadWithdrawalsForm
    <2>2. At(w0, "withdrawals")
      BY <1>9 DEF ReadWithdrawals
    <2>3. job[w0].row \in ExpenseRow
      BY <1>6, <2>2 DEF At, CheckSteps
    <2>4. row.is_paid
      BY <2>3 DEF ExpenseRow
    <2> HIDE DEF row
    <2>5. PaidKnows("pay", job[w0].id, row)
      BY <1>7, <2>2, <2>4 DEF PaidKnows, At, CheckSteps
    <2>6. QED
      BY <1>1, <1>2, <1>5, <2>1, <2>5, PaidMoves
  <1>10. CASE ReadChecks(w0) \/ ReadLinked(w0) \/ SaveChecks(w0)
    <2>1. Done(w0) \/ \E todo, sum : \/ Moves(w0, "recalculate", job[w0].row, todo, sum)
                                     \/ Moves(w0, "save_checks", job[w0].row, todo, sum)
      <3>1. CASE ReadChecks(w0)
        BY <1>1, <3>1, ReadChecksForm
      <3>2. CASE ReadLinked(w0)
        BY <1>1, <3>2, ReadLinkedForm
      <3>3. CASE SaveChecks(w0)
        <4>1. PICK c \in Checks : SaveCheck(w0, c, "recalculate")
          BY <3>3 DEF SaveChecks
        <4>2. job[w0].next = "save_checks"
          BY <3>3 DEF SaveChecks, At
        <4> DEFINE next == IF Todo(w0) = {c} THEN "recalculate" ELSE job[w0].next
                   todo == [job[w0].todo EXCEPT ![c] = Absent]
        <4>3. Done(w0) \/ Moves(w0, next, job[w0].row, todo, job[w0].sum)
          BY <1>1, <1>2, <4>1, SaveCheckForm
        <4>4. next = "recalculate" \/ next = "save_checks"
          BY <4>2
        <4> HIDE DEF next, todo
        <4>5. QED
          BY <4>3, <4>4
      <3>4. QED
        BY <1>10, <3>1, <3>2, <3>3
    <2>2. job[w0].next \in {"read_checks", "read_linked", "save_checks"}
      BY <1>10 DEF ReadChecks, ReadLinked, SaveChecks, At
    <2>3. /\ PaidKnows("recalculate", job[w0].id, job[w0].row)
          /\ PaidKnows("save_checks", job[w0].id, job[w0].row)
      BY <1>7, <2>2 DEF PaidKnows, CheckSteps
    <2>4. QED
      BY <1>1, <1>2, <1>5, <2>1, <2>3, PaidMoves
  <1>11. CASE ReleaseChecks(w0)
    <2>1. PICK c \in Checks : SaveCheck(w0, c, "delete")
      BY <1>11 DEF ReleaseChecks
    <2>2. job[w0].next = "release"
      BY <1>11 DEF ReleaseChecks, At
    <2> DEFINE next == IF Todo(w0) = {c} THEN "delete" ELSE job[w0].next
               todo == [job[w0].todo EXCEPT ![c] = Absent]
    <2>3. Done(w0) \/ Moves(w0, next, job[w0].row, todo, job[w0].sum)
      BY <1>1, <1>2, <2>1, SaveCheckForm
    <2>4. next = "release" \/ next = "delete"
      BY <2>2
    <2> HIDE DEF next, todo
    <2>5. PaidKnows(next, job[w0].id, job[w0].row)
      BY <1>7, <2>2, <2>4 DEF PaidKnows, CheckSteps
    <2>6. QED
      BY <1>1, <1>2, <1>5, <2>3, <2>5, PaidMoves
  <1>12. CASE Recalculate(w0)
    <2>1. At(w0, "recalculate")
      BY <1>12 DEF Recalculate
    <2>2. job[w0].id \in Expenses /\ job[w0].row \in ExpenseRow
      BY <1>6, <2>1 DEF At, CheckSteps
    <2>3. SpentChecksAmount(job[w0].id) \in Int
      BY <2>2, AggregatesType DEF TypeInv
    <2> DEFINE row == Recalculated(job[w0].row, SpentChecksAmount(job[w0].id))
    <2>4. row.is_paid = job[w0].row.is_paid
      BY <2>2, <2>3, RecalculatedFields
    <2>5. Moves(w0, "save_net", row, job[w0].todo, job[w0].sum)
      BY <1>1, <1>12, RecalculateForm
    <2> HIDE DEF row
    <2>6. PaidKnows("save_net", job[w0].id, row)
      BY <1>7, <2>1, <2>4 DEF PaidKnows, At, CheckSteps
    <2>7. QED
      BY <1>1, <1>2, <2>5, <2>6, PaidMoves
  <1>13. CASE LoadPatched(w0) \/ SavePatched(w0) \/ LoadDeleted(w0) \/ DeleteCheck(w0)
    <2>1. Done(w0) \/ \E row, todo, sum : \/ Moves(w0, "save_patched", row, todo, sum)
                                          \/ Moves(w0, "delete_check", row, todo, sum)
      <3>1. CASE LoadPatched(w0)
        BY <1>1, <3>1, LoadPatchedForm
      <3>2. CASE LoadDeleted(w0)
        BY <1>1, <1>2, <3>2, MovesOn DEF LoadDeleted
      <3>3. QED
        BY <1>13, <3>1, <3>2 DEF SavePatched, DeleteCheck
    <2>2. \A row : PaidKnows("save_patched", job[w0].id, row) /\ PaidKnows("delete_check", job[w0].id, row)
      BY DEF PaidKnows, CheckSteps
    <2>3. QED
      BY <1>1, <1>2, <1>5, <2>1, <2>2, PaidMoves
  <1>14. QED
    BY <1>8, <1>9, <1>10, <1>11, <1>12, <1>13


\* The handler of an expense goes on to another of its statements with the same attributes.
LEMMA SoloGoto ==
  ASSUME JobsTyped, NEW w0 \in Workers, job[w0] # Idle, NEW next \in ExpenseSteps,
         Goto(w0, next)
  PROVE  /\ job'[w0] # Idle /\ job'[w0].next = next
         /\ job'[w0].id = job[w0].id /\ job'[w0].row = job[w0].row
         /\ job'[w0].ids = job[w0].ids /\ job'[w0].todo = job[w0].todo
         /\ job'[w0].sum = job[w0].sum
  <1> DEFINE j == [next |-> next, id |-> job[w0].id, row |-> job[w0].row,
                   ids |-> job[w0].ids, todo |-> job[w0].todo, sum |-> job[w0].sum]
  <1>1. Moves(w0, next, job[w0].row, job[w0].todo, job[w0].sum)
    BY MovesOn
  <1>2. job'[w0] = j
    BY <1>1, SoloJob
  <1>3. job[w0] \in Job
    BY DEF JobsTyped, TypedJob
  <1>4. j \in Job
    BY <1>3 DEF Job, ExpenseSteps
  <1>5. j # Idle
    BY <1>4, SentinelAssumption
  <1>6. QED
    BY <1>2, <1>5

\* The statements that save an expense: is_paid changes as the handler knows.
LEMMA PaidSaves ==
  ASSUME TypeInv, NEW w0 \in Workers, PaidInv(w0),
         SavePaid(w0) \/ SaveUnpaid(w0) \/ SaveNet(w0) \/ SaveEdited(w0)
  PROVE  PaidInv(w0)'
  <1>1. JobsTyped /\ TablesTyped /\ job[w0] # Idle
    BY DEF TypeInv, SavePaid, SaveUnpaid, SaveNet, SaveEdited, At
  <1>2. job[w0].next \in {"pay", "unpay", "save_net", "edit"}
    BY DEF SavePaid, SaveUnpaid, SaveNet, SaveEdited, At
  <1>3. PICK e, r : e = job[w0].id /\ r = job[w0].row
    OBVIOUS
  <1>4. e \in Expenses /\ r \in ExpenseRow /\ r # Absent
    BY <1>1, <1>2, <1>3, SentinelAssumption DEF JobsTyped, TypedJob, CheckSteps
  <1>5. expense' = [expense EXCEPT ![e] = r] /\ card' = card
    BY <1>3 DEF SavePaid, SaveUnpaid, SaveNet, SaveEdited, SaveExpense
  <1>6. expense'[e] = r /\ \A f \in Expenses \ {e} : expense'[f] = expense[f]
    BY <1>1, <1>4, <1>5 DEF TablesTyped
  <1>7. \A f \in Expenses : Withdrawals(f)' = Withdrawals(f)
    BY <1>5 DEF Withdrawals
  <1>8. PaidKnows(job[w0].next, e, r) /\ Settled(e) /\ expense[e] # Absent
    <2>1. PaidKnows(job[w0].next, e, r) /\ ~BetweenBoth(job[w0], e)
      BY <1>1, <1>2, <1>3 DEF PaidInv, PaidJob, BetweenBoth
    <2>2. QED
      BY <1>2, <1>4, <2>1 DEF PaidInv, PaidKnows, CheckSteps
  <1>9. \A f \in Expenses \ {e} : Settled(f) /\ (expense[f] = Absent => Withdrawals(f) = {})
    BY <1>1, <1>2, <1>3 DEF PaidInv, BetweenBoth
  <1>10. \A f \in Expenses \ {e} : Settled(f)' /\ (expense'[f] = Absent => Withdrawals(f)' = {})
    BY <1>6, <1>7, <1>9 DEF Settled
  <1>11. \A f \in Expenses : \A t, u \in Withdrawals(f)' : t = u
    BY <1>7 DEF PaidInv
  <1>12. SUFFICES PaidJob(job[w0])' /\ (BetweenBoth(job[w0], e) \/ Settled(e))'
    BY <1>4, <1>6, <1>10, <1>11 DEF PaidInv
  <1>13. ASSUME NEW next \in ExpenseSteps, Goto(w0, next)
         PROVE  /\ job'[w0] # Idle /\ job'[w0].next = next
                /\ job'[w0].id = e /\ job'[w0].row = r
    BY <1>1, <1>3, <1>13, SoloGoto
  <1>14. CASE SavePaid(w0)
    <2>1. ~expense[e].is_paid /\ r.is_paid /\ Withdrawals(e) = {} /\ Goto(w0, "withdraw")
      BY <1>8, <1>14 DEF SavePaid, At, PaidKnows, CheckSteps, Settled
    <2>2. job'[w0].next = "withdraw" /\ job'[w0].id = e /\ job'[w0].row = r /\ job'[w0] # Idle
      BY <1>13, <2>1 DEF ExpenseSteps
    <2>3. PaidKnows("withdraw", e, r)'
      BY <1>4, <1>6, <1>7, <2>1 DEF PaidKnows
    <2>4. QED
      BY <2>2, <2>3 DEF PaidJob, BetweenBoth
  <1>15. CASE SaveUnpaid(w0)
    <2>1. ~r.is_paid /\ Goto(w0, "refund")
      BY <1>8, <1>15 DEF SaveUnpaid, At, PaidKnows, CheckSteps
    <2>2. job'[w0].next = "refund" /\ job'[w0].id = e /\ job'[w0].row = r /\ job'[w0] # Idle
      BY <1>13, <2>1 DEF ExpenseSteps
    <2>3. PaidKnows("refund", e, r)'
      BY <1>4, <1>6, <2>1 DEF PaidKnows
    <2>4. QED
      BY <2>2, <2>3 DEF PaidJob, BetweenBoth
  <1>16. CASE SaveNet(w0) \/ SaveEdited(w0)
    <2>1. r.is_paid <=> expense[e].is_paid
      BY <1>8, <1>16 DEF SaveNet, SaveEdited, At, PaidKnows, CheckSteps
    <2>2. Settled(e)'
      <3>1. expense'[e].is_paid <=> expense[e].is_paid
        BY <1>6, <2>1
      <3>2. /\ Withdrawals(e) # {} => expense[e].is_paid
            /\ "delete_transaction" \notin Endpoints => (expense[e].is_paid => Withdrawals(e) # {})
        BY <1>8 DEF Settled
      <3>3. Withdrawals(e)' = Withdrawals(e)
        BY <1>4, <1>7
      <3>4. QED
        BY <3>1, <3>2, <3>3, Zenon DEF Settled
    <2>3. Done(w0) \/ Goto(w0, "read_checks")
      BY <1>16 DEF SaveNet, SaveEdited
    <2>4. PaidKnows("read_checks", e, r)'
      BY <1>4, <1>6 DEF PaidKnows
    <2>5. PaidJob(job[w0])'
      BY <1>1, <1>13, <2>3, <2>4, SoloJob DEF PaidJob, ExpenseSteps
    <2>6. QED
      BY <2>2, <2>5
  <1>17. QED
    BY <1>14, <1>15, <1>16

\* The statements that change the card's transactions, or delete the expense.
LEMMA PaidCardWrites ==
  ASSUME TypeInv, NEW w0 \in Workers, PaidInv(w0),
         CreateWithdrawal(w0) \/ DeleteWithdrawals(w0) \/ DeleteExpense(w0)
  PROVE  PaidInv(w0)'
  <1>1. JobsTyped /\ TablesTyped /\ job[w0] # Idle
    BY DEF TypeInv, CreateWithdrawal, DeleteWithdrawals, DeleteExpense, At
  <1>2. job[w0].next \in {"withdraw", "refund", "delete"} /\ Done(w0)
    BY DEF CreateWithdrawal, DeleteWithdrawals, DeleteExpense, At
  <1>3. PICK e : e = job[w0].id
    OBVIOUS
  <1>4. e \in Expenses
    BY <1>1, <1>2, <1>3 DEF JobsTyped, TypedJob, CheckSteps
  <1>5. PaidKnows(job[w0].next, e, job[w0].row)
    BY <1>1, <1>3 DEF PaidInv, PaidJob
  <1>6. \A f \in Expenses \ {e} : Settled(f) /\ (expense[f] = Absent => Withdrawals(f) = {})
    BY <1>3 DEF PaidInv, BetweenBoth
  <1>7. PaidJob(job[w0])'
    BY <1>1, <1>2, SoloJob DEF PaidJob
  <1>8. SUFFICES /\ \A f \in Expenses \ {e} : Withdrawals(f)' = Withdrawals(f) /\ expense'[f] = expense[f]
                 /\ \A t, u \in Withdrawals(e)' : t = u
                 /\ expense'[e] = Absent => Withdrawals(e)' = {}
                 /\ Settled(e)'
    <2>1. \A f \in Expenses \ {e} : Settled(f)' /\ (expense'[f] = Absent => Withdrawals(f)' = {})
      BY <1>6, <1>8 DEF Settled
    <2>2. \A f \in Expenses : \A t, u \in Withdrawals(f)' : t = u
      BY <1>8 DEF PaidInv
    <2>3. QED
      BY <1>7, <1>8, <2>1, <2>2 DEF PaidInv
  <1>9. CASE CreateWithdrawal(w0)
    <2>1. expense[e] # Absent /\ expense[e].is_paid /\ Withdrawals(e) = {} /\ expense' = expense
      BY <1>5, <1>9 DEF CreateWithdrawal, At, PaidKnows, CheckSteps
    <2>2. LinkHolds(job[w0].id)
      BY <1>3, <2>1 DEF LinkHolds
    <2>3. PICK t \in Transactions :
            card' = [card EXCEPT ![t] = [card_type |-> job[w0].row.category,
                       transaction_type |-> "WITHDRAWAL", amount |-> job[w0].row.amount,
                       expense |-> e]] /\ card[t] = Absent
      BY <1>3, <1>9, <2>2 DEF CreateWithdrawal, AddTransaction
    <2> DEFINE row == [card_type |-> job[w0].row.category, transaction_type |-> "WITHDRAWAL",
                       amount |-> job[w0].row.amount, expense |-> e]
    <2>4. row \in CardRow
      BY <1>1, <1>2, <1>4 DEF JobsTyped, TypedJob, CheckSteps, ExpenseRow, CardRow
    <2>5. row.transaction_type = "WITHDRAWAL" /\ row.expense = e
      OBVIOUS
    <2> HIDE DEF row
    <2>6. /\ card'[t] = row /\ \A u \in Transactions \ {t} : card'[u] = card[u]
          /\ row # Absent
      BY <1>1, <2>3, <2>4, SentinelAssumption DEF TablesTyped, row
    <2>7. Withdrawals(e)' = {t}
      BY <2>1, <2>5, <2>6 DEF Withdrawals
    <2>8. \A f \in Expenses \ {e} : Withdrawals(f)' = Withdrawals(f)
      BY <2>3, <2>5, <2>6 DEF Withdrawals
    <2>9. QED
      BY <2>1, <2>7, <2>8 DEF Settled
  <1>10. CASE DeleteWithdrawals(w0)
    <2>1. expense[e] # Absent /\ ~expense[e].is_paid /\ expense' = expense
      BY <1>5, <1>10 DEF DeleteWithdrawals, At, PaidKnows, CheckSteps
    <2>2. \A t \in Transactions :
            card'[t] = IF card[t] # Absent /\ card[t].transaction_type = "WITHDRAWAL"
                          /\ card[t].expense = e
                       THEN Absent ELSE card[t]
      BY <1>3, <1>10 DEF DeleteWithdrawals
    <2>3. Withdrawals(e)' = {} /\ \A f \in Expenses \ {e} : Withdrawals(f)' = Withdrawals(f)
      BY <2>2 DEF Withdrawals
    <2>4. QED
      BY <2>1, <2>3 DEF Settled
  <1>11. CASE DeleteExpense(w0)
    <2>1. /\ expense' = [expense EXCEPT ![e] = Absent]
          /\ card' = [t \in Transactions |-> IF card[t] # Absent /\ card[t].expense = e
                        THEN [card[t] EXCEPT !.expense = None] ELSE card[t]]
      BY <1>3, <1>11, Zenon DEF DeleteExpense
    <2>2. expense'[e] = Absent /\ \A f \in Expenses \ {e} : expense'[f] = expense[f]
      BY <1>1, <1>4, <2>1 DEF TablesTyped
    <2>3. None \notin Expenses
      BY LiquidityAssumption
    <2>4. ASSUME NEW t \in Transactions, card[t] # Absent, card[t].expense = e
          PROVE  card'[t] = Absent \/ card'[t].expense = None
      BY <1>1, <2>1, <2>4 DEF TablesTyped, CardRow
    <2>5. \A t \in Transactions : ~(card[t] # Absent /\ card[t].expense = e) => card'[t] = card[t]
      BY <2>1
    <2>6. Withdrawals(e)' = {} /\ \A f \in Expenses \ {e} : Withdrawals(f)' = Withdrawals(f)
      BY <1>4, <2>3, <2>4, <2>5 DEF Withdrawals
    <2>7. QED
      BY <2>2, <2>6 DEF Settled
  <1>12. QED
    BY <1>9, <1>10, <1>11

LEMMA PaidInductive ==
  ASSUME NEW w0, Workers = {w0}, Crashes = FALSE
  PROVE  TypeInv /\ PaidInv(w0) /\ [Next]_vars => PaidInv(w0)'
  <1> SUFFICES ASSUME TypeInv, PaidInv(w0), [Next]_vars
               PROVE  PaidInv(w0)'
    OBVIOUS
  <1>1. w0 \in Workers
    OBVIOUS
  <1>2. CASE \/ UNCHANGED vars
             \/ \E c \in Checks : CheckRequest(w0, c)
             \/ \E e \in Expenses : CreateExpense(e)
             \/ \E c \in Checks : CreateCheck(c)
             \/ \E t \in Transactions : DeleteTransaction(t)
             \/ AddCardTransaction \/ ListChecks \/ Tick
    BY <1>1, <1>2, PaidOtherRequests
  <1>3. CASE \E e \in Expenses : ExpenseRequest(w0, e)
    BY <1>1, <1>3, PaidRequests
  <1>4. CASE Statement(w0)
    BY <1>1, <1>4, PaidReads, PaidSaves, PaidCardWrites DEF Statement
  <1>5. ~Crash(w0)
    BY DEF Crash
  <1>6. QED
    BY <1>2, <1>3, <1>4, <1>5 DEF Next

LEMMA PaidInitially ==
  ASSUME NEW w0, Workers = {w0}
  PROVE  Init => PaidInv(w0)
  BY DEF Init, PaidInv, PaidJob, Settled, Withdrawals

LEMMA AtMostOne ==
  ASSUME NEW S, \A t, u \in S : t = u
  PROVE  Cardinality(S) <= 1
  <1>1. CASE S = {}
    BY <1>1, FS_EmptySet
  <1>2. CASE S # {}
    <2>1. PICK t : S = {t}
      BY <1>2
    <2>2. Cardinality({t}) = 1
      BY FS_Singleton
    <2>3. QED
      BY <2>1, <2>2
  <1>3. QED
    BY <1>1, <1>2

\* views.py:4791: with one worker that is not killed in between, an expense is deducted from
\* its card at most once, whatever else clients do, transactions deleted by hand included.
THEOREM OneWorkerDeductsOnce ==
  ASSUME NEW w0, Workers = {w0}, Crashes = FALSE
  PROVE  Spec => []DeductedOnce
  <1>1. TypeInv /\ PaidInv(w0) /\ [Next]_vars => PaidInv(w0)'
    BY PaidInductive
  <1>2. PaidInv(w0) => DeductedOnce
    BY AtMostOne DEF PaidInv, DeductedOnce
  <1>3. Init => PaidInv(w0)
    BY PaidInitially
  <1>4. QED
    BY <1>1, <1>2, <1>3, TypeInitially, TypeInductive, PTL DEF Spec

\* Docs lines 443-444 and 452-454: with one worker that is not killed in between, and no
\* transaction deleted by hand, an expense is marked paid exactly if it has been deducted
\* from the card whenever no handler is running.
THEOREM OneWorkerPaysAsDeducted ==
  ASSUME NEW w0, Workers = {w0}, Crashes = FALSE, "delete_transaction" \notin Endpoints
  PROVE  Spec => []PaidIffDeducted
  <1>1. TypeInv /\ PaidInv(w0) /\ [Next]_vars => PaidInv(w0)'
    BY PaidInductive
  <1>2. PaidInv(w0) => PaidIffDeducted
    BY DEF PaidInv, PaidIffDeducted, AtRest, BetweenBoth, Settled
  <1>3. Init => PaidInv(w0)
    BY PaidInitially
  <1>4. QED
    BY <1>1, <1>2, <1>3, TypeInitially, TypeInductive, PTL DEF Spec

\* The balance of a card.

\* The rows of a card after a step, and what they sum up to.
LEMMA CardSumNext ==
  ASSUME NEW CONSTANT category, NEW CONSTANT type
  PROVE  IsFiniteSet(Rows(category, type)') =>
           CardSum(category, type)'
             = Total(Rows(category, type)', [t \in Rows(category, type)' |-> card'[t].amount])
  <1>1. IsFiniteSet(Rows(category, type)) =>
          CardSum(category, type)
            = Total(Rows(category, type), [t \in Rows(category, type) |-> card[t].amount])
    BY CardSumIs
  <1>2. (IsFiniteSet(Rows(category, type)) =>
          CardSum(category, type)
            = Total(Rows(category, type), [t \in Rows(category, type) |-> card[t].amount]))'
    BY <1>1, PTL
  <1>3. QED
    BY <1>2

LEMMA SumsTyped ==
  TypeInv => \A category, type : /\ IsFiniteSet(Rows(category, type))
                                 /\ CardSum(category, type) \in Int
  BY AggregatesType DEF TypeInv

LEMMA SumsTypedNext ==
  TypeInv' => \A category, type : /\ IsFiniteSet(Rows(category, type)')
                                  /\ CardSum(category, type)' \in Int
  <1>1. TypeInv' => (\A category, type : /\ IsFiniteSet(Rows(category, type))
                                         /\ CardSum(category, type) \in Int)'
    BY SumsTyped, PTL
  <1>2. QED
    BY <1>1

\* One more transaction adds its amount.
LEMMA CardSumAdds ==
  ASSUME NEW CONSTANT category, NEW CONSTANT type, TypeInv, TypeInv', NEW t \in Transactions,
         card[t] = Absent, card'[t] # Absent,
         card'[t].card_type = category, card'[t].transaction_type = type,
         \A u \in Transactions \ {t} : card'[u] = card[u]
  PROVE  CardSum(category, type)' = CardSum(category, type) + card'[t].amount
  <1> DEFINE S == Rows(category, type)
             T == Rows(category, type)'
             a == [u \in S |-> card[u].amount]
             b == [u \in T |-> card'[u].amount]
  <1>1. T = S \cup {t} /\ t \notin S
    BY DEF Rows
  <1>2. CardSum(category, type) = Total(S, a) /\ CardSum(category, type)' = Total(T, b)
    BY SumsTyped, SumsTypedNext, CardSumIs, CardSumNext
  <1>3. \A u \in S : a[u] = b[u]
    BY <1>1 DEF Rows
  <1>4. \A u \in T : b[u] \in Int
    BY DEF Rows, TypeInv, TablesTyped, CardRow
  <1>5. IsFiniteSet(S) /\ CardSum(category, type) \in Int
    BY SumsTyped
  <1>6. b[t] = card'[t].amount
    BY <1>1
  <1> HIDE DEF S, T, a, b
  <1>7. Total(T, b) = b[t] + Total(S, a)
    <2>1. IsFiniteSet(T) /\ t \in T /\ T \ {t} = S
      BY <1>1, <1>5, FS_AddElement
    <2>2. Total(T, b) = b[t] + Total(T \ {t}, b)
      BY <1>4, <2>1, TotalRemoves
    <2>3. Total(S, a) = Total(S, b)
      BY <1>3, <1>5, TotalAgrees
    <2>4. QED
      BY <2>1, <2>2, <2>3
  <1>8. b[t] \in Int
    BY <1>1, <1>4
  <1>9. QED
    BY <1>2, <1>5, <1>6, <1>7, <1>8

\* Transactions that stay with their amounts keep a sum.
LEMMA CardSumStays ==
  ASSUME NEW CONSTANT category, NEW CONSTANT type, TypeInv, TypeInv',
         Rows(category, type)' = Rows(category, type),
         \A u \in Rows(category, type) : card'[u].amount = card[u].amount
  PROVE  CardSum(category, type)' = CardSum(category, type)
  <1> DEFINE S == Rows(category, type)
             T == Rows(category, type)'
             a == [u \in S |-> card[u].amount]
             b == [u \in T |-> card'[u].amount]
  <1>1. CardSum(category, type) = Total(S, a) /\ CardSum(category, type)' = Total(T, b)
    BY SumsTyped, SumsTypedNext, CardSumIs, CardSumNext
  <1>2. T = S /\ \A u \in S : a[u] = b[u]
    OBVIOUS
  <1>3. IsFiniteSet(S)
    BY SumsTyped
  <1> HIDE DEF S, T, a, b
  <1>4. Total(S, a) = Total(S, b)
    BY <1>2, <1>3, TotalAgrees
  <1>5. QED
    BY <1>1, <1>2, <1>4

\* What a handler that confirms a payment knows of the card of its expense: while it runs
\* nobody else writes a card, so that the sums it has read are still those of the card.
FundsKnown(next, row, sum) ==
  /\ next = "withdrawals" => sum = CardSum(row.category, "DEPOSIT")
  /\ next \in {"pay", "withdraw"} => row.amount <= Balance(row.category)
FundsJob(j) == j # Idle => FundsKnown(j.next, j.row, j.sum)

FundsInv(w0) == FundsJob(job[w0])

\* The statements of a confirmation; no other handler relies on a card.
Confirming == {"withdrawals", "pay", "withdraw"}

\* All statements but those of a confirmation leave it to the others.
LEMMA OtherStatements ==
  ASSUME JobsTyped, NEW w \in Workers,
         \/ SaveUnpaid(w) \/ DeleteWithdrawals(w)
         \/ ReadChecks(w) \/ ReadLinked(w) \/ SaveChecks(w) \/ Recalculate(w) \/ SaveNet(w)
         \/ SaveEdited(w) \/ ReleaseChecks(w) \/ DeleteExpense(w)
         \/ LoadPatched(w) \/ SavePatched(w) \/ LoadDeleted(w) \/ DeleteCheck(w)
  PROVE  Done(w) \/ \E next, row, todo, sum : next \notin Confirming /\ Moves(w, next, row, todo, sum)
  <1>1. job[w] # Idle
    BY DEF SaveUnpaid, DeleteWithdrawals, ReadChecks, ReadLinked, SaveChecks, Recalculate,
           SaveNet, SaveEdited, ReleaseChecks, DeleteExpense, LoadPatched, SavePatched,
           LoadDeleted, DeleteCheck, At
  <1>0. ASSUME NEW next, next \notin Confirming, Goto(w, next)
        PROVE  \E n, row, todo, sum : n \notin Confirming /\ Moves(w, n, row, todo, sum)
    <2>1. Moves(w, next, job[w].row, job[w].todo, job[w].sum)
      BY <1>0, <1>1, MovesOn
    <2>2. QED
      BY <1>0, <2>1
  <1>2. CASE SaveUnpaid(w)
    <2>1. Goto(w, "refund") /\ "refund" \notin Confirming
      BY <1>2 DEF SaveUnpaid, Confirming
    <2>2. QED
      BY <1>0, <2>1
  <1>3. CASE \/ DeleteWithdrawals(w) \/ SaveNet(w) \/ DeleteExpense(w) \/ SavePatched(w)
             \/ DeleteCheck(w)
    BY <1>3 DEF DeleteWithdrawals, SaveNet, DeleteExpense, SavePatched, DeleteCheck
  <1>4. CASE SaveEdited(w)
    <2>1. Done(w) \/ Goto(w, "read_checks")
      BY <1>4 DEF SaveEdited
    <2>2. "read_checks" \notin Confirming
      BY DEF Confirming
    <2>3. QED
      BY <1>0, <2>1, <2>2
  <1>5. CASE ReadChecks(w)
    <2> DEFINE next == IF job[w].ids = {} THEN "recalculate" ELSE "save_checks"
    <2>1. Done(w) \/ Moves(w, next, job[w].row, Taken(w), job[w].sum)
      BY <1>5, ReadChecksForm
    <2>2. next \notin Confirming
      BY DEF Confirming
    <2> HIDE DEF next
    <2>3. QED
      BY <2>1, <2>2
  <1>6. CASE ReadLinked(w)
    BY <1>6, ReadLinkedForm DEF Confirming
  <1>7. ASSUME NEW c, NEW last \in {"recalculate", "delete"}, SaveCheck(w, c, last),
               job[w].next \in {"save_checks", "release"}
        PROVE  Done(w) \/ \E next, row, todo, sum : next \notin Confirming
                                                    /\ Moves(w, next, row, todo, sum)
    <2> DEFINE next == IF Todo(w) = {c} THEN last ELSE job[w].next
               todo == [job[w].todo EXCEPT ![c] = Absent]
    <2>1. Done(w) \/ Moves(w, next, job[w].row, todo, job[w].sum)
      BY <1>1, <1>7, SaveCheckForm
    <2>2. next \notin Confirming
      BY <1>7 DEF Confirming
    <2> HIDE DEF next, todo
    <2>3. QED
      BY <2>1, <2>2
  <1>8. CASE SaveChecks(w) \/ ReleaseChecks(w)
    BY <1>7, <1>8 DEF SaveChecks, ReleaseChecks, At
  <1>9. CASE Recalculate(w)
    BY <1>9, RecalculateForm DEF Confirming
  <1>10. CASE LoadPatched(w)
    BY <1>10, LoadPatchedForm DEF Confirming
  <1>11. CASE LoadDeleted(w)
    <2>1. Done(w) \/ Goto(w, "delete_check")
      BY <1>11 DEF LoadDeleted
    <2>2. "delete_check" \notin Confirming
      BY DEF Confirming
    <2>3. QED
      BY <1>0, <2>1, <2>2
  <1>12. QED
    BY <1>2, <1>3, <1>4, <1>5, <1>6, <1>8, <1>9, <1>10, <1>11

\* No sum changes unless a card does.
LEMMA SameFunds ==
  ASSUME TypeInv, TypeInv', card' = card
  PROVE  \A category : /\ CardSum(category, "DEPOSIT")' = CardSum(category, "DEPOSIT")
                       /\ Balance(category)' = Balance(category)
  <1>1. ASSUME NEW CONSTANT category, NEW CONSTANT type
        PROVE  CardSum(category, type)' = CardSum(category, type)
    <2>1. Rows(category, type)' = Rows(category, type)
      BY DEF Rows
    <2>2. QED
      BY <2>1, CardSumStays
  <1>2. ASSUME NEW CONSTANT category
        PROVE  Balance(category)' = Balance(category)
    BY <1>1 DEF Balance
  <1>3. QED
    BY <1>1, <1>2

\* The step of a worker that relies on no card afterwards.
LEMMA FundsLeft ==
  ASSUME JobsTyped, NEW w0 \in Workers,
         \/ Done(w0)
         \/ \E next, row, todo, sum : next \notin Confirming /\ Moves(w0, next, row, todo, sum)
         \/ \E next, e, row, ids, todo : next \notin Confirming /\ \E endpoint :
              Begins(w0, endpoint, next, e, row, ids, todo)
  PROVE  FundsInv(w0)'
  <1>1. job'[w0] = Idle \/ job'[w0].next \notin Confirming
    <2>1. ASSUME NEW next, NEW row, NEW todo, NEW sum, next \notin Confirming,
                 Moves(w0, next, row, todo, sum)
          PROVE  job'[w0].next \notin Confirming
      <3>1. job'[w0] = [next |-> next, id |-> job[w0].id, row |-> row, ids |-> job[w0].ids,
                        todo |-> todo, sum |-> sum]
        BY <2>1, SoloJob
      <3>2. QED
        BY <2>1, <3>1
    <2>2. ASSUME NEW endpoint, NEW next, NEW e, NEW row, NEW ids, NEW todo,
                 next \notin Confirming, Begins(w0, endpoint, next, e, row, ids, todo)
          PROVE  job'[w0].next \notin Confirming
      <3>1. job'[w0] = [next |-> next, id |-> e, row |-> row, ids |-> ids, todo |-> todo,
                        sum |-> 0]
        BY <2>2, SoloJob DEF Begins
      <3>2. QED
        BY <2>2, <3>1
    <2>3. Done(w0) => job'[w0] = Idle
      BY SoloJob
    <2>4. QED
      BY <2>1, <2>2, <2>3
  <1>2. QED
    BY <1>1 DEF FundsInv, FundsJob, FundsKnown, Confirming

\* The handler of a confirmation goes on.
LEMMA FundsMoves ==
  ASSUME TypeInv, TypeInv', NEW w0 \in Workers, card' = card,
         NEW next, NEW row, NEW todo, NEW sum,
         Moves(w0, next, row, todo, sum), FundsKnown(next, row, sum)
  PROVE  FundsInv(w0)'
  <1>1. job'[w0] = [next |-> next, id |-> job[w0].id, row |-> row, ids |-> job[w0].ids,
                    todo |-> todo, sum |-> sum]
    BY SoloJob DEF TypeInv
  <1>2. job'[w0].next = next /\ job'[w0].row = row /\ job'[w0].sum = sum
    BY <1>1
  <1>3. FundsKnown(next, row, sum)'
    BY SameFunds DEF FundsKnown
  <1>4. QED
    BY <1>2, <1>3 DEF FundsInv, FundsJob, FundsKnown

LEMMA FundsStatements ==
  ASSUME TypeInv, TypeInv', NEW w0 \in Workers, FundsInv(w0), Statement(w0)
  PROVE  FundsInv(w0)'
  <1>1. JobsTyped /\ job[w0] # Idle /\ FundsKnown(job[w0].next, job[w0].row, job[w0].sum)
    BY DEF TypeInv, FundsInv, FundsJob, Statement, At, ReadDeposits, ReadWithdrawals, SavePaid,
           CreateWithdrawal, SaveUnpaid, DeleteWithdrawals, ReadChecks, ReadLinked, SaveChecks,
           Recalculate, SaveNet, SaveEdited, ReleaseChecks, DeleteExpense, LoadPatched,
           SavePatched, LoadDeleted, DeleteCheck
  <1>2. \A c, type : CardSum(c, type) \in Int /\ CardSum(c, type)' \in Int
    BY SumsTyped, SumsTypedNext
  <1>3. \A c : Balance(c) \in Int /\ Balance(c)' \in Int
    BY <1>2 DEF Balance
  <1>4. job[w0].next \notin CheckSteps => job[w0].row \in ExpenseRow /\ job[w0].sum \in Int
    BY <1>1 DEF JobsTyped, TypedJob, Job
  <1>5. CASE ReadDeposits(w0)
    <2>1. card' = card
      BY <1>5 DEF ReadDeposits, tables
    <2>2. PICK sum : sum = CardSum(job[w0].row.category, "DEPOSIT")
      OBVIOUS
    <2>3. Moves(w0, "withdrawals", job[w0].row, job[w0].todo, sum)
      BY <1>1, <1>5, <2>2, ReadDepositsForm
    <2>4. FundsKnown("withdrawals", job[w0].row, sum)
      BY <1>2, <2>2 DEF FundsKnown
    <2>5. QED
      BY <1>1, <2>1, <2>3, <2>4, FundsMoves
  <1>6. CASE ReadWithdrawals(w0)
    <2>1. card' = card /\ job[w0].next = "withdrawals"
      BY <1>6 DEF ReadWithdrawals, tables, At
    <2>2. PICK row : row = [job[w0].row EXCEPT !.is_paid = TRUE]
      OBVIOUS
    <2>3. \/ Done(w0)
          \/ /\ ~(job[w0].sum - CardSum(job[w0].row.category, "WITHDRAWAL") < job[w0].row.amount)
             /\ Moves(w0, "pay", row, job[w0].todo, job[w0].sum)
      BY <1>1, <1>6, <2>2, ReadWithdrawalsForm
    <2>4. CASE Done(w0)
      BY <1>1, <2>4, FundsLeft
    <2>5. ASSUME ~(job[w0].sum - CardSum(job[w0].row.category, "WITHDRAWAL") < job[w0].row.amount)
          PROVE  FundsKnown("pay", row, job[w0].sum)
      <3>1. PICK c, amount : c = job[w0].row.category /\ amount = job[w0].row.amount
        OBVIOUS
      <3>2. job[w0].sum = CardSum(c, "DEPOSIT") /\ job[w0].sum \in Int /\ amount \in Int
        BY <1>1, <1>4, <2>1, <3>1 DEF FundsKnown, CheckSteps, ExpenseRow
      <3>3. ~(job[w0].sum - CardSum(c, "WITHDRAWAL") < amount)
        BY <2>5, <3>1
      <3>4. amount <= Balance(c)
        BY <1>2, <3>2, <3>3 DEF Balance
      <3>5. row.category = c /\ row.amount = amount
        BY <1>4, <2>1, <2>2, <3>1 DEF CheckSteps, ExpenseRow
      <3>6. QED
        BY <3>4, <3>5 DEF FundsKnown
    <2>6. QED
      BY <1>1, <2>1, <2>3, <2>4, <2>5, FundsMoves
  <1>7. CASE SavePaid(w0)
    <2>1. card' = card /\ job[w0].next = "pay" /\ Goto(w0, "withdraw")
      BY <1>7 DEF SavePaid, SaveExpense, At
    <2>2. Moves(w0, "withdraw", job[w0].row, job[w0].todo, job[w0].sum)
      BY <1>1, <2>1, MovesOn
    <2>3. FundsKnown("withdraw", job[w0].row, job[w0].sum)
      BY <1>1, <2>1 DEF FundsKnown
    <2>4. QED
      BY <1>1, <2>1, <2>2, <2>3, FundsMoves
  <1>8. CASE CreateWithdrawal(w0)
    BY <1>1, <1>8, FundsLeft DEF CreateWithdrawal
  <1>9. CASE \/ SaveUnpaid(w0) \/ DeleteWithdrawals(w0)
             \/ ReadChecks(w0) \/ ReadLinked(w0) \/ SaveChecks(w0) \/ Recalculate(w0)
             \/ SaveNet(w0) \/ SaveEdited(w0) \/ ReleaseChecks(w0) \/ DeleteExpense(w0)
             \/ LoadPatched(w0) \/ SavePatched(w0) \/ LoadDeleted(w0) \/ DeleteCheck(w0)
    BY <1>1, <1>9, OtherStatements, FundsLeft
  <1>10. QED
    BY <1>5, <1>6, <1>7, <1>8, <1>9 DEF Statement

\* Whatever happens while a payment is confirmed happens to no card: the requests of one
\* statement find no free worker.
LEMMA FundsRequests ==
  ASSUME TypeInv, TypeInv', NEW w0, Workers = {w0}, FundsInv(w0),
         \/ UNCHANGED vars
         \/ \E e \in Expenses : ExpenseRequest(w0, e)
         \/ \E c \in Checks : CheckRequest(w0, c)
         \/ \E e \in Expenses : CreateExpense(e)
         \/ \E c \in Checks : CreateCheck(c)
         \/ \E t \in Transactions : DeleteTransaction(t)
         \/ AddCardTransaction \/ ListChecks \/ Tick \/ Crash(w0)
  PROVE  FundsInv(w0)'
  <1>1. CASE UNCHANGED vars \/ Tick
    <2>1. card' = card /\ job' = job
      BY <1>1 DEF vars, tables, Tick
    <2>2. \A c : CardSum(c, "DEPOSIT")' = CardSum(c, "DEPOSIT") /\ Balance(c)' = Balance(c)
      BY <2>1, SameFunds
    <2>3. PICK j : j = job[w0]
      OBVIOUS
    <2>4. FundsJob(j)'
      BY <2>2, <2>3 DEF FundsInv, FundsJob, FundsKnown
    <2>5. QED
      BY <2>1, <2>3, <2>4 DEF FundsInv, FundsJob, FundsKnown
  <1>2. CASE \/ \E e \in Expenses : CreateExpense(e)
             \/ \E c \in Checks : CreateCheck(c)
             \/ \E t \in Transactions : DeleteTransaction(t)
             \/ AddCardTransaction \/ ListChecks
    <2>1. job[w0] = Idle /\ job' = job
      BY <1>2 DEF Free, CreateExpense, CreateCheck, DeleteTransaction, AddCardTransaction, ListChecks
    <2>2. QED
      BY <2>1 DEF FundsInv, FundsJob
  <1>3. CASE \/ \E e \in Expenses : ExpenseRequest(w0, e)
             \/ \E c \in Checks : CheckRequest(w0, c)
             \/ Crash(w0)
    <2>1. \/ Done(w0)
          \/ \E next, e, row, ids, todo : next \notin Confirming /\ \E endpoint :
               Begins(w0, endpoint, next, e, row, ids, todo)
      <3>1. ASSUME NEW endpoint, NEW next, NEW e, NEW row, NEW ids, NEW todo,
                   next \notin Confirming, Begins(w0, endpoint, next, e, row, ids, todo)
            PROVE  \E n, f, r, i, d : n \notin Confirming /\ \E p : Begins(w0, p, n, f, r, i, d)
        BY <3>1
      <3>2. ASSUME NEW e \in Expenses, ConfirmLoad(w0, e) \/ SpendLoad(w0, e) \/ RemoveLoad(w0, e)
            PROVE  \E endpoint, next, row, ids, todo : next \notin Confirming
                     /\ Begins(w0, endpoint, next, e, row, ids, todo)
        <4>1. \E endpoint, ids : \E next \in {"deposits", "read_checks", "read_linked"} :
                Begins(w0, endpoint, next, e, expense[e], ids, NoChecks)
          BY <3>2, Zenon DEF ConfirmLoad, SpendLoad, RemoveLoad, Loads
        <4>2. QED
          BY <4>1 DEF Confirming
      <3>3. ASSUME NEW e \in Expenses, UnconfirmLoad(w0, e) \/ UpdateLoad(w0, e)
                                         \/ CreateWithChecks(w0, e)
            PROVE  \E endpoint, next, row, ids, todo : next \notin Confirming
                     /\ Begins(w0, endpoint, next, e, row, ids, todo)
        <4>1. \E endpoint, row, ids : \E next \in {"unpay", "edit", "read_checks"} :
                Begins(w0, endpoint, next, e, row, ids, NoChecks)
          BY <3>3, Zenon DEF UnconfirmLoad, UpdateLoad, CreateWithChecks
        <4>2. QED
          BY <4>1 DEF Confirming
      <3>4. ASSUME NEW e \in Expenses, DestroyLoad(w0, e)
            PROVE  \E endpoint, next, row, ids, todo : next \notin Confirming
                     /\ Begins(w0, endpoint, next, e, row, ids, todo)
        <4> DEFINE next == IF SpentChecks(e) = {} THEN "delete" ELSE "release"
        <4>1. Begins(w0, "destroy", next, e, expense[e], None, AllReturned(SpentChecks(e)))
          BY <3>4 DEF DestroyLoad
        <4>2. next \notin Confirming
          BY DEF Confirming
        <4> HIDE DEF next
        <4>3. QED
          BY <4>1, <4>2
      <3>5. ASSUME NEW c \in Checks, CheckRequest(w0, c)
            PROVE  \E endpoint, next, e, row, ids, todo : next \notin Confirming
                     /\ Begins(w0, endpoint, next, e, row, ids, todo)
        <4>1. \E endpoint : \E next \in {"load_patched", "load_deleted"} :
                Begins(w0, endpoint, next, None, Absent, {c}, NoChecks)
          BY <3>5, Zenon DEF CheckRequest
        <4>2. QED
          BY <4>1 DEF Confirming
      <3>6. Crash(w0) => Done(w0)
        BY DEF Crash
      <3>7. QED
        BY <1>3, <3>1, <3>2, <3>3, <3>4, <3>5, <3>6 DEF ExpenseRequest
    <2>2. QED
      BY <2>1, FundsLeft DEF TypeInv
  <1>4. QED
    BY <1>1, <1>2, <1>3

LEMMA FundsInductive ==
  ASSUME NEW w0, Workers = {w0}
  PROVE  TypeInv /\ TypeInv' /\ FundsInv(w0) /\ [Next]_vars => FundsInv(w0)'
  <1> SUFFICES ASSUME TypeInv, TypeInv', FundsInv(w0), [Next]_vars
               PROVE  FundsInv(w0)'
    OBVIOUS
  <1>1. w0 \in Workers
    OBVIOUS
  <1>2. CASE Statement(w0)
    BY <1>1, <1>2, FundsStatements
  <1>3. CASE \/ UNCHANGED vars
             \/ \E e \in Expenses : ExpenseRequest(w0, e)
             \/ \E c \in Checks : CheckRequest(w0, c)
             \/ \E e \in Expenses : CreateExpense(e)
             \/ \E c \in Checks : CreateCheck(c)
             \/ \E t \in Transactions : DeleteTransaction(t)
             \/ AddCardTransaction \/ ListChecks \/ Tick \/ Crash(w0)
    BY <1>3, FundsRequests
  <1>4. QED
    BY <1>2, <1>3 DEF Next

\* Only the last statement of a confirmation records a transaction of an expense.
LEMMA NewPayments ==
  ASSUME TypeInv, [Next]_vars, NEW t \in Transactions, NEW category,
         card[t] = Absent, Deducted(t, category)'
  PROVE  \E w \in Workers : CreateWithdrawal(w)
  <1>1. card'[t] # Absent /\ card'[t].expense # None /\ card' # card
    BY DEF Deducted
  <1>2. CASE AddCardTransaction
    <2>1. PICK type \in {"DEPOSIT", "WITHDRAWAL"}, amount \in CardAmounts, c \in Categories :
            AddTransaction(type, c, amount, None)
      BY <1>2 DEF AddCardTransaction
    <2>2. PICK u \in Transactions :
            card' = [card EXCEPT ![u] = [card_type |-> c, transaction_type |-> type,
                                         amount |-> amount, expense |-> None]]
      BY <2>1 DEF AddTransaction
    <2>3. card'[t] = card[t] \/ card'[t].expense = None
      BY <2>2 DEF TypeInv, TablesTyped
    <2>4. QED
      BY <1>1, <2>3
  <1>3. ASSUME NEW u \in Transactions, DeleteTransaction(u)
        PROVE  FALSE
    BY <1>1, <1>3 DEF DeleteTransaction, TypeInv, TablesTyped
  <1>4. ASSUME NEW w \in Workers, DeleteWithdrawals(w)
        PROVE  FALSE
    BY <1>1, <1>4 DEF DeleteWithdrawals
  <1>5. ASSUME NEW w \in Workers, DeleteExpense(w)
        PROVE  FALSE
    BY <1>1, <1>5 DEF DeleteExpense
  <1>6. card' = card
          \/ AddCardTransaction \/ (\E u \in Transactions : DeleteTransaction(u))
          \/ \E w \in Workers : DeleteWithdrawals(w) \/ DeleteExpense(w) \/ CreateWithdrawal(w)
    <2>1. CASE UNCHANGED vars
      BY <2>1 DEF vars, tables
    <2>2. CASE Next
      <3>1. ASSUME NEW w \in Workers, NEW e \in Expenses, ExpenseRequest(w, e)
            PROVE  card' = card
        BY <3>1 DEF ExpenseRequest, ConfirmLoad, UnconfirmLoad, SpendLoad, RemoveLoad,
           CreateWithChecks, UpdateLoad, DestroyLoad, Loads, tables
      <3>2. ASSUME NEW w \in Workers, Statement(w)
            PROVE  card' = card \/ DeleteWithdrawals(w) \/ DeleteExpense(w) \/ CreateWithdrawal(w)
        BY <3>2 DEF Statement, ReadDeposits, ReadWithdrawals, SavePaid, SaveUnpaid, ReadChecks,
           ReadLinked, SaveChecks, Recalculate, SaveNet, SaveEdited, ReleaseChecks, LoadPatched,
           SavePatched, LoadDeleted, DeleteCheck, SaveExpense, SaveCheck, tables
      <3>3. ASSUME \/ \E e \in Expenses : CreateExpense(e)
                   \/ \E c \in Checks : CreateCheck(c)
                   \/ ListChecks \/ Tick
                   \/ \E w \in Workers : Crash(w) \/ \E c \in Checks : CheckRequest(w, c)
            PROVE  card' = card
        BY <3>3 DEF CreateExpense, CreateCheck, ListChecks, Tick, Crash, CheckRequest, tables
      <3>4. QED
        BY <2>2, <3>1, <3>2, <3>3 DEF Next
    <2>3. QED
      BY <2>1, <2>2
  <1>7. QED
    BY <1>1, <1>2, <1>3, <1>4, <1>5, <1>6

\* A payment is covered by what the handler knows.
LEMMA PaymentCovered ==
  ASSUME TypeInv, TypeInv', NEW w0 \in Workers, FundsInv(w0), CreateWithdrawal(w0),
         NEW t \in Transactions, NEW CONSTANT category, card[t] = Absent, Deducted(t, category)'
  PROVE  Balance(category)' >= 0
  <1>1. JobsTyped /\ job[w0] # Idle /\ job[w0].next = "withdraw"
    BY DEF TypeInv, CreateWithdrawal, At
  <1>2. PICK amount, held : amount = job[w0].row.amount /\ held = job[w0].row.category
    OBVIOUS
  <1>3. held \in Categories /\ amount \in Int /\ amount <= Balance(held)
    BY <1>1, <1>2 DEF JobsTyped, TypedJob, CheckSteps, ExpenseRow, FundsInv, FundsJob, FundsKnown
  <1>4. card'[t] # Absent /\ card'[t].card_type = category
    BY DEF Deducted
  <1>5. PICK u \in Transactions :
          /\ card[u] = Absent
          /\ card' = [card EXCEPT ![u] = [card_type |-> held, transaction_type |-> "WITHDRAWAL",
                                          amount |-> amount, expense |-> job[w0].id]]
    BY <1>2, <1>4 DEF CreateWithdrawal, AddTransaction
  <1>6. u = t
    BY <1>4, <1>5 DEF TypeInv, TablesTyped
  <1>7. /\ card'[t].card_type = held /\ card'[t].transaction_type = "WITHDRAWAL"
        /\ card'[t].amount = amount
        /\ \A v \in Transactions \ {t} : card'[v] = card[v]
    BY <1>5, <1>6 DEF TypeInv, TablesTyped
  <1>8. category = held
    BY <1>4, <1>7
  <1>9. CardSum(category, "WITHDRAWAL")' = CardSum(category, "WITHDRAWAL") + amount
    BY <1>4, <1>7, CardSumAdds
  <1>10. CardSum(category, "DEPOSIT")' = CardSum(category, "DEPOSIT")
    <2>1. /\ Rows(category, "DEPOSIT")' = Rows(category, "DEPOSIT")
          /\ \A v \in Rows(category, "DEPOSIT") : card'[v].amount = card[v].amount
      BY <1>7 DEF Rows
    <2>2. QED
      BY <2>1, CardSumStays
  <1>11. \A type : CardSum(category, type) \in Int /\ CardSum(category, type)' \in Int
    BY SumsTyped, SumsTypedNext
  <1>12. QED
    BY <1>3, <1>8, <1>9, <1>10, <1>11 DEF Balance

\* Docs lines 434-443: with one worker, also when it is killed between two statements, a
\* payment is recorded only while its card covers it, whatever amounts are entered, and
\* whatever is withdrawn by hand or deleted from the card before.
THEOREM OneWorkerPaysCovered ==
  ASSUME NEW w0, Workers = {w0}
  PROVE  Spec => PaymentsCovered
  <1>1. TypeInv /\ TypeInv' /\ FundsInv(w0) /\ [Next]_vars => FundsInv(w0)'
    BY FundsInductive
  <1>2. Init => FundsInv(w0)
    BY DEF Init, FundsInv, FundsJob
  <1>3. TypeInv /\ TypeInv' /\ FundsInv(w0) /\ [Next]_vars =>
          \A t \in Transactions, category \in Categories :
            card[t] = Absent /\ Deducted(t, category)' => (Balance(category) >= 0)'
    <2> SUFFICES ASSUME TypeInv, TypeInv', FundsInv(w0), [Next]_vars,
                        NEW t \in Transactions, NEW CONSTANT category \in Categories,
                        card[t] = Absent, Deducted(t, category)'
                 PROVE  Balance(category)' >= 0
      OBVIOUS
    <2>1. CreateWithdrawal(w0)
      BY NewPayments
    <2>2. QED
      BY <2>1, PaymentCovered
  <1>4. QED
    BY <1>1, <1>2, <1>3, TypeInitially, TypeInductive, PTL DEF Spec, PaymentsCovered

-----------------------------------------------------------------------------
(* Cheques, with one worker *)

\* The statements that neither touch a cheque nor take one up.
LEMMA ChequesKept ==
  ASSUME JobsTyped, NEW w \in Workers,
         \/ ReadDeposits(w) \/ ReadWithdrawals(w) \/ SavePaid(w) \/ CreateWithdrawal(w)
         \/ SaveUnpaid(w) \/ DeleteWithdrawals(w) \/ Recalculate(w) \/ SaveNet(w)
         \/ SaveEdited(w) \/ LoadDeleted(w)
  PROVE  /\ check' = check
         /\ \/ Done(w)
            \/ \E next, row, sum : /\ next \notin {"release", "delete"}
                                   /\ Moves(w, next, row, job[w].todo, sum)
  <1>1. check' = check /\ job[w] # Idle
    BY DEF ReadDeposits, ReadWithdrawals, SavePaid, CreateWithdrawal, SaveUnpaid,
           DeleteWithdrawals, Recalculate, SaveNet, SaveEdited, LoadDeleted, SaveExpense, At, tables
  <1>2. ASSUME NEW next \in {"withdraw", "refund", "read_checks", "delete_check"}, Goto(w, next)
        PROVE  \E n, row, sum : n \notin {"release", "delete"}
                                /\ Moves(w, n, row, job[w].todo, sum)
    <2>1. Moves(w, next, job[w].row, job[w].todo, job[w].sum)
      BY <1>1, <1>2, MovesOn
    <2>2. QED
      BY <2>1
  <1>3. CASE ReadDeposits(w)
    BY <1>1, <1>3, ReadDepositsForm
  <1>4. CASE ReadWithdrawals(w)
    BY <1>1, <1>4, ReadWithdrawalsForm
  <1>5. CASE Recalculate(w)
    BY <1>1, <1>5, RecalculateForm
  <1>6. CASE \/ SavePaid(w) \/ CreateWithdrawal(w) \/ SaveUnpaid(w) \/ DeleteWithdrawals(w)
             \/ SaveNet(w) \/ SaveEdited(w) \/ LoadDeleted(w)
    <2>1. \E next \in {"withdraw", "refund", "read_checks", "delete_check"} : Done(w) \/ Goto(w, next)
      BY <1>6 DEF SavePaid, CreateWithdrawal, SaveUnpaid, DeleteWithdrawals, SaveNet,
                  SaveEdited, LoadDeleted
    <2>2. QED
      BY <1>1, <1>2, <2>1
  <1>7. QED
    BY <1>3, <1>4, <1>5, <1>6

\* A cheque that is saved like this is not left SPENT without its expense.
Linked(r) == r.status = "SPENT" => r.spent_on_expense # None

\* What a step does to the cheques, as ReturnedWhenUnlinked has it.
ReturnsCheques ==
  \A c \in Checks :
    check[c] # Absent /\ check'[c] # Absent /\ check[c].spent_on_expense # None =>
      \/ check'[c].spent_on_expense # None
      \/ check'[c].status # "SPENT"
      \/ \E w \in Workers : At(w, "save_patched") /\ c \in Todo(w)

\* The cheques a handler has yet to save are linked, but for those a client edits; one that
\* releases the cheques of an expense marks none SPENT, and has yet to save all that are
\* spent on the expense.
LinkedKnown(next, e, todo) ==
  /\ next # "save_patched" => \A c \in Checks : todo[c] # Absent => Linked(todo[c])
  /\ next = "release" => \A c \in Checks : todo[c] # Absent => todo[c].status # "SPENT"
  /\ next = "delete" => \A c \in Checks : todo[c] = Absent
  /\ next \in {"release", "delete"} =>
       \A c \in Checks : check[c] # Absent /\ check[c].status = "SPENT"
                           /\ check[c].spent_on_expense = e => todo[c] # Absent
LinkedJob(j) == j # Idle => LinkedKnown(j.next, j.id, j.todo)

LinkedInv(w0) == LinkedJob(job[w0])

\* No link changes.
LinksStay ==
  \A c \in Checks : check[c] # Absent /\ check'[c] # Absent =>
    check'[c].spent_on_expense = check[c].spent_on_expense

LEMMA LinkedStays ==
  ASSUME NEW w0, LinkedInv(w0), LinksStay, job' = job, job[w0] = Idle \/ check' = check
  PROVE  ReturnsCheques /\ LinkedInv(w0)'
  <1>1. ReturnsCheques
    BY DEF LinksStay, ReturnsCheques
  <1>2. LinkedInv(w0)'
    BY DEF LinkedInv, LinkedJob, LinkedKnown, Linked
  <1>3. QED
    BY <1>1, <1>2

LEMMA LinkedMoves ==
  ASSUME JobsTyped, NEW w0 \in Workers, ReturnsCheques,
         NEW next, NEW row, NEW todo, NEW sum, Moves(w0, next, row, todo, sum),
         next \notin {"release", "delete"},
         next # "save_patched" => \A c \in Checks : todo[c] # Absent => Linked(todo[c])
  PROVE  ReturnsCheques /\ LinkedInv(w0)'
  <1>1. job'[w0] = [next |-> next, id |-> job[w0].id, row |-> row, ids |-> job[w0].ids,
                    todo |-> todo, sum |-> sum]
    BY SoloJob
  <1>2. job'[w0].next = next /\ job'[w0].todo = todo
    BY <1>1
  <1>3. LinkedJob(job[w0])'
    BY <1>2 DEF LinkedJob, LinkedKnown, Linked
  <1>4. QED
    BY <1>3 DEF LinkedInv

LEMMA LinkedDone ==
  ASSUME JobsTyped, NEW w0 \in Workers, ReturnsCheques, Done(w0)
  PROVE  ReturnsCheques /\ LinkedInv(w0)'
  BY SoloJob DEF LinkedInv, LinkedJob

\* The synchronisation changes no link.
LEMMA SyncKeepsLinks ==
  ASSUME TablesTyped, check' = Synced
  PROVE  LinksStay
  <1>1. SUFFICES ASSUME NEW c \in Checks, check[c] # Absent, check'[c] # Absent
                 PROVE  check'[c].spent_on_expense = check[c].spent_on_expense
    BY DEF LinksStay
  <1>2. check[c] \in CheckRow
    BY <1>1 DEF TablesTyped
  <1>3. check'[c] = check[c] \/ check'[c] = [check[c] EXCEPT !.status = "UNPAID"]
    BY DEF Synced
  <1>4. QED
    BY <1>2, <1>3 DEF CheckRow

\* A handler that begins with no cheque in hand.
LEMMA LinkedBegins ==
  ASSUME JobsTyped, NEW w0 \in Workers, ReturnsCheques, NEW endpoint, NEW next, NEW e, NEW r,
         NEW ids, next \notin {"release", "delete"}, Begins(w0, endpoint, next, e, r, ids, NoChecks)
  PROVE  ReturnsCheques /\ LinkedInv(w0)'
  <1>1. job'[w0] = [next |-> next, id |-> e, row |-> r, ids |-> ids, todo |-> NoChecks, sum |-> 0]
    BY SoloJob DEF Begins
  <1>2. job'[w0].next = next /\ \A c \in Checks : job'[w0].todo[c] = Absent
    BY <1>1 DEF NoChecks
  <1>3. LinkedJob(job[w0])'
    BY <1>2 DEF LinkedJob, LinkedKnown
  <1>4. QED
    BY <1>3 DEF LinkedInv

LEMMA LinkedExpenseRequests ==
  ASSUME TypeInv, NEW w0 \in Workers, LinkedInv(w0), NEW e \in Expenses, ExpenseRequest(w0, e)
  PROVE  ReturnsCheques /\ LinkedInv(w0)'
  <1>1. check' = check
    BY DEF ExpenseRequest, ConfirmLoad, UnconfirmLoad, SpendLoad, RemoveLoad, DestroyLoad,
           CreateWithChecks, UpdateLoad, Loads, tables
  <1>2. JobsTyped /\ TablesTyped /\ ReturnsCheques
    BY <1>1 DEF TypeInv, ReturnsCheques
  <1>3. CASE DestroyLoad(w0, e)
    <2> DEFINE next == IF SpentChecks(e) = {} THEN "delete" ELSE "release"
               todo == AllReturned(SpentChecks(e))
    <2>1. Begins(w0, "destroy", next, e, expense[e], None, todo)
      BY <1>3 DEF DestroyLoad
    <2>2. job'[w0] = [next |-> next, id |-> e, row |-> expense[e], ids |-> None,
                      todo |-> todo, sum |-> 0]
      BY <1>2, <2>1, SoloJob DEF Begins
    <2>3. job'[w0].next = next /\ job'[w0].id = e /\ job'[w0].todo = todo
      BY <2>2
    <2>4. next \in {"delete", "release"}
      OBVIOUS
    <2>5. ASSUME NEW c \in Checks
          PROVE  IF c \in SpentChecks(e)
                 THEN todo[c] \in CheckRow /\ todo[c] # Absent /\ todo[c].status # "SPENT"
                 ELSE todo[c] = Absent
      <3>1. CASE c \in SpentChecks(e)
        <4>1. check[c] \in CheckRow
          BY <1>2, <3>1 DEF SpentChecks, TablesTyped
        <4>2. todo[c] = Returned(check[c])
          BY <3>1 DEF AllReturned
        <4>3. Returned(check[c]) \in CheckRow /\ Returned(check[c]).status # "SPENT"
          BY <4>1 DEF Returned, CheckRow, CheckStatuses
        <4>4. QED
          BY <3>1, <4>2, <4>3, SentinelAssumption
      <3>2. CASE c \notin SpentChecks(e)
        BY <3>2 DEF AllReturned
      <3>3. QED
        BY <3>1, <3>2
    <2>6. next = "delete" => SpentChecks(e) = {}
      OBVIOUS
    <2> HIDE DEF next, todo
    <2>7. LinkedKnown(next, e, todo)
      BY <2>4, <2>5, <2>6 DEF LinkedKnown, Linked, SpentChecks
    <2>8. QED
      BY <1>1, <1>2, <2>3, <2>7 DEF LinkedInv, LinkedJob, LinkedKnown, Linked
  <1>4. CASE ~DestroyLoad(w0, e)
    <2>1. \E endpoint, r, ids : \E next \in {"deposits", "unpay", "read_checks", "read_linked", "edit"} :
            Begins(w0, endpoint, next, e, r, ids, NoChecks)
      <3>1. CASE ConfirmLoad(w0, e) \/ SpendLoad(w0, e) \/ RemoveLoad(w0, e)
        <4>1. \E endpoint, ids : \E next \in {"deposits", "read_checks", "read_linked"} :
                Loads(w0, endpoint, next, e, ids)
          BY <3>1, Zenon DEF ConfirmLoad, SpendLoad, RemoveLoad
        <4>2. QED
          BY <4>1, Zenon DEF Loads
      <3>2. CASE UnconfirmLoad(w0, e) \/ CreateWithChecks(w0, e) \/ UpdateLoad(w0, e)
        BY <3>2, Zenon DEF UnconfirmLoad, CreateWithChecks, UpdateLoad
      <3>3. QED
        BY <1>4, <3>1, <3>2 DEF ExpenseRequest
    <2>2. QED
      BY <1>2, <2>1, LinkedBegins
  <1>5. QED
    BY <1>3, <1>4

LEMMA LinkedOtherRequests ==
  ASSUME TypeInv, NEW w0, Workers = {w0}, LinkedInv(w0),
         \/ \E c \in Checks : CheckRequest(w0, c)
         \/ \E e \in Expenses : CreateExpense(e)
         \/ \E c \in Checks : CreateCheck(c)
         \/ \E t \in Transactions : DeleteTransaction(t)
         \/ AddCardTransaction \/ ListChecks \/ Tick \/ UNCHANGED vars \/ Crash(w0)
  PROVE  ReturnsCheques /\ LinkedInv(w0)'
  <1>1. JobsTyped /\ TablesTyped /\ w0 \in Workers
    BY DEF TypeInv
  <1>2. LinksStay => ReturnsCheques
    BY DEF LinksStay, ReturnsCheques
  <1>3. check' = check => LinksStay
    BY DEF LinksStay
  <1>4. CASE \/ \E e \in Expenses : CreateExpense(e)
             \/ \E t \in Transactions : DeleteTransaction(t)
             \/ AddCardTransaction \/ Tick \/ UNCHANGED vars
    BY <1>3, <1>4, LinkedStays DEF CreateExpense, DeleteTransaction, AddCardTransaction, Tick,
       vars, tables
  <1>5. CASE ListChecks
    BY <1>1, <1>5, SyncKeepsLinks, LinkedStays DEF ListChecks, Free
  <1>6. ASSUME NEW c \in Checks, CreateCheck(c)
        PROVE  ReturnsCheques /\ LinkedInv(w0)'
    <2>1. check[c] = Absent /\ \A d \in Checks \ {c} : check'[d] = check[d]
      BY <1>1, <1>6 DEF CreateCheck, TablesTyped
    <2>2. LinksStay
      BY <2>1 DEF LinksStay
    <2>3. QED
      BY <1>6, <2>2, LinkedStays DEF CreateCheck, Free
  <1>7. ASSUME NEW c \in Checks, CheckRequest(w0, c)
        PROVE  ReturnsCheques /\ LinkedInv(w0)'
    <2>1. ReturnsCheques
      BY <1>1, <1>2, <1>7, SyncKeepsLinks DEF CheckRequest
    <2>2. \E endpoint : \E next \in {"load_patched", "load_deleted"} :
            Begins(w0, endpoint, next, None, Absent, {c}, NoChecks)
      BY <1>7, Zenon DEF CheckRequest
    <2>3. QED
      BY <1>1, <2>1, <2>2, LinkedBegins
  <1>8. CASE Crash(w0)
    BY <1>1, <1>2, <1>3, <1>8, LinkedDone DEF Crash, tables
  <1>9. QED
    BY <1>4, <1>5, <1>6, <1>7, <1>8

LEMMA LinkedStatements ==
  ASSUME TypeInv, NEW w0 \in Workers, LinkedInv(w0), Statement(w0)
  PROVE  ReturnsCheques /\ LinkedInv(w0)'
  <1>1. JobsTyped /\ TablesTyped
    BY DEF TypeInv
  <1>2. check' = check => ReturnsCheques
    BY DEF ReturnsCheques
  <1>3. job[w0] # Idle
    BY DEF Statement, At, ReadDeposits, ReadWithdrawals, SavePaid,
           CreateWithdrawal, SaveUnpaid, DeleteWithdrawals, ReadChecks, ReadLinked, SaveChecks,
           Recalculate, SaveNet, SaveEdited, ReleaseChecks, DeleteExpense, LoadPatched,
           SavePatched, LoadDeleted, DeleteCheck
  <1>4. LinkedKnown(job[w0].next, job[w0].id, job[w0].todo)
    BY <1>3 DEF LinkedInv, LinkedJob
  <1>5. job[w0].next # "save_patched" =>
          \A c \in Checks : job[w0].todo[c] # Absent => Linked(job[w0].todo[c])
    BY <1>4 DEF LinkedKnown
  <1>6. job[w0].todo \in [Checks -> CheckRow \cup {Absent}]
    BY <1>1, <1>3 DEF JobsTyped, TypedJob, Job
  <1>7. CASE \/ ReadDeposits(w0) \/ ReadWithdrawals(w0) \/ SavePaid(w0) \/ CreateWithdrawal(w0)
             \/ SaveUnpaid(w0) \/ DeleteWithdrawals(w0) \/ Recalculate(w0) \/ SaveNet(w0)
             \/ SaveEdited(w0) \/ LoadDeleted(w0)
    <2>1. /\ check' = check
          /\ \/ Done(w0)
             \/ \E next, row, sum : /\ next \notin {"release", "delete"}
                                    /\ Moves(w0, next, row, job[w0].todo, sum)
      BY <1>1, <1>7, ChequesKept
    <2>2. PICK todo : todo = job[w0].todo
      OBVIOUS
    <2>3. job[w0].next # "save_patched"
      BY <1>7 DEF ReadDeposits, ReadWithdrawals, SavePaid, CreateWithdrawal, SaveUnpaid,
                  DeleteWithdrawals, Recalculate, SaveNet, SaveEdited, LoadDeleted, At
    <2>4. QED
      BY <1>1, <1>2, <1>5, <2>1, <2>2, <2>3, LinkedMoves, LinkedDone
  <1>8. CASE ReadChecks(w0)
    <2>1. check' = check /\ job[w0].next = "read_checks"
      BY <1>8 DEF ReadChecks, tables, At
    <2> DEFINE next == IF job[w0].ids = {} THEN "recalculate" ELSE "save_checks"
    <2>2. Done(w0) \/ Moves(w0, next, job[w0].row, Taken(w0), job[w0].sum)
      BY <1>1, <1>8, ReadChecksForm
    <2>3. Done(w0) \/ \A c \in job[w0].ids : check[c] # Absent
      BY <1>1, <1>8, ReadChecksForm DEF Spendable
    <2>4. next \notin {"release", "delete"}
      OBVIOUS
    <2>5. job[w0].id \in Expenses
      BY <1>1, <1>3, <2>1 DEF JobsTyped, TypedJob, CheckSteps
    <2>6. ASSUME NEW c \in Checks, \A d \in job[w0].ids : check[d] # Absent, Taken(w0)[c] # Absent
          PROVE  Linked(Taken(w0)[c])
      <3>1. c \in job[w0].ids /\ Taken(w0)[c] = SpentOn(job[w0].id, check[c])
        BY <2>6 DEF Taken
      <3>2. check[c] \in CheckRow
        BY <1>1, <2>6, <3>1 DEF TablesTyped
      <3>3. SpentOn(job[w0].id, check[c]).spent_on_expense = job[w0].id
        BY <3>2 DEF SpentOn, CheckRow
      <3>4. QED
        BY <2>5, <3>1, <3>3 DEF Linked
    <2> HIDE DEF next
    <2>7. QED
      BY <1>1, <1>2, <2>1, <2>2, <2>3, <2>4, <2>6, LinkedMoves, LinkedDone
  <1>9. CASE ReadLinked(w0)
    <2>1. check' = check
      BY <1>9 DEF ReadLinked, tables
    <2>2. PICK todo : todo = AllReturned(job[w0].ids)
      OBVIOUS
    <2>3. Done(w0) \/ (job[w0].ids \subseteq SpentChecks(job[w0].id)
                       /\ Moves(w0, "save_checks", job[w0].row, todo, job[w0].sum))
      BY <1>1, <1>9, <2>2, ReadLinkedForm
    <2>4. ASSUME NEW c \in Checks, job[w0].ids \subseteq SpentChecks(job[w0].id), todo[c] # Absent
          PROVE  Linked(todo[c])
      <3>1. c \in job[w0].ids /\ todo[c] = Returned(check[c])
        BY <2>2, <2>4 DEF AllReturned
      <3>2. check[c] \in CheckRow
        BY <1>1, <2>4, <3>1 DEF TablesTyped, SpentChecks
      <3>3. Returned(check[c]).status # "SPENT"
        BY <3>2 DEF Returned, CheckRow
      <3>4. QED
        BY <3>1, <3>3 DEF Linked
    <2>5. QED
      BY <1>1, <1>2, <2>1, <2>3, <2>4, LinkedMoves, LinkedDone
  <1>10. CASE SaveChecks(w0)
    <2>1. PICK c \in Checks : SaveCheck(w0, c, "recalculate")
      BY <1>10 DEF SaveChecks
    <2>2. job[w0].next = "save_checks"
      BY <1>10 DEF SaveChecks, At
    <2> DEFINE next == IF Todo(w0) = {c} THEN "recalculate" ELSE job[w0].next
               todo == [job[w0].todo EXCEPT ![c] = Absent]
    <2>3. /\ c \in Todo(w0)
          /\ \/ check' = check /\ Done(w0)
             \/ /\ check' = [check EXCEPT ![c] = job[w0].todo[c]]
                /\ Moves(w0, next, job[w0].row, todo, job[w0].sum)
      BY <1>1, <1>3, <2>1, SaveCheckForm
    <2>4. \A d \in Checks : todo[d] # Absent => Linked(todo[d])
      BY <1>5, <1>6, <2>2
    <2>5. next \notin {"release", "delete"}
      BY <2>2
    <2> HIDE DEF next, todo
    <2>6. CASE check' = [check EXCEPT ![c] = job[w0].todo[c]]
      <3>1. Linked(job[w0].todo[c])
        BY <1>5, <2>2, <2>3 DEF Todo
      <3>2. check'[c] = job[w0].todo[c] /\ \A d \in Checks \ {c} : check'[d] = check[d]
        BY <1>1, <2>6 DEF TablesTyped
      <3>3. ReturnsCheques
        BY <3>1, <3>2 DEF ReturnsCheques, Linked
      <3>4. QED
        BY <1>1, <2>3, <2>4, <2>5, <3>3, LinkedMoves, LinkedDone
    <2>7. CASE check' = check /\ Done(w0)
      BY <1>1, <1>2, <2>7, LinkedDone
    <2>8. QED
      BY <2>3, <2>6, <2>7
  <1>11. CASE ReleaseChecks(w0)
    <2>1. PICK c \in Checks : SaveCheck(w0, c, "delete")
      BY <1>11 DEF ReleaseChecks
    <2>2. job[w0].next = "release"
      BY <1>11 DEF ReleaseChecks, At
    <2> DEFINE next == IF Todo(w0) = {c} THEN "delete" ELSE job[w0].next
               todo == [job[w0].todo EXCEPT ![c] = Absent]
    <2>3. /\ c \in Todo(w0)
          /\ \/ check' = check /\ Done(w0)
             \/ /\ check' = [check EXCEPT ![c] = job[w0].todo[c]]
                /\ Moves(w0, next, job[w0].row, todo, job[w0].sum)
      BY <1>1, <1>3, <2>1, SaveCheckForm
    <2>4. todo[c] = Absent /\ \A d \in Checks \ {c} : todo[d] = job[w0].todo[d]
      BY <1>6
    <2>5. next \in {"release", "delete"} /\ (next = "delete" => \A d \in Checks : todo[d] = Absent)
      BY <2>2, <2>4 DEF Todo
    <2> HIDE DEF next, todo
    <2>6. CASE /\ check' = [check EXCEPT ![c] = job[w0].todo[c]]
               /\ Moves(w0, next, job[w0].row, todo, job[w0].sum)
      <3>1. job[w0].todo[c] # Absent /\ job[w0].todo[c].status # "SPENT"
        BY <1>4, <2>2, <2>3 DEF LinkedKnown, Todo
      <3>2. check'[c] = job[w0].todo[c] /\ \A d \in Checks \ {c} : check'[d] = check[d]
        BY <1>1, <2>6 DEF TablesTyped
      <3>3. ReturnsCheques
        BY <3>1, <3>2 DEF ReturnsCheques
      <3>4. job'[w0] = [next |-> next, id |-> job[w0].id, row |-> job[w0].row,
                        ids |-> job[w0].ids, todo |-> todo, sum |-> job[w0].sum]
        BY <1>1, <2>6, SoloJob
      <3>5. job'[w0].next = next /\ job'[w0].id = job[w0].id /\ job'[w0].todo = todo
        BY <3>4
      <3>6. \A d \in Checks : todo[d] # Absent => d # c /\ todo[d] = job[w0].todo[d]
        BY <2>4
      <3>7. \A d \in Checks : check'[d] # Absent /\ check'[d].status = "SPENT"
                               /\ check'[d].spent_on_expense = job[w0].id => todo[d] # Absent
        BY <1>4, <2>2, <2>4, <3>1, <3>2 DEF LinkedKnown
      <3>8. \A d \in Checks : todo[d] # Absent => Linked(todo[d]) /\ todo[d].status # "SPENT"
        BY <1>4, <2>2, <3>6 DEF LinkedKnown, Linked
      <3>9. LinkedJob(job[w0])'
        BY <2>5, <3>5, <3>7, <3>8 DEF LinkedJob, LinkedKnown, Linked
      <3>10. QED
        BY <3>3, <3>9 DEF LinkedInv
    <2>7. CASE check' = check /\ Done(w0)
      BY <1>1, <1>2, <2>7, LinkedDone
    <2>8. QED
      BY <2>3, <2>6, <2>7
  <1>12. CASE DeleteExpense(w0)
    <2>1. Done(w0) /\ job[w0].next = "delete"
          /\ check' = [c \in Checks |-> IF c \in SpentChecks(job[w0].id)
                         THEN [check[c] EXCEPT !.spent_on_expense = None] ELSE check[c]]
      BY <1>12, Zenon DEF DeleteExpense, At
    <2>2. ASSUME NEW c \in Checks, check[c] # Absent, check'[c].status = "SPENT"
          PROVE  check'[c] = check[c]
      <3>1. SUFFICES ASSUME c \in SpentChecks(job[w0].id)
                     PROVE  FALSE
        BY <2>1
      <3>2. check'[c] = [check[c] EXCEPT !.spent_on_expense = None] /\ check[c] \in CheckRow
        BY <1>1, <2>1, <3>1 DEF SpentChecks, TablesTyped
      <3>3. check[c].status = "SPENT"
        BY <2>2, <3>2 DEF CheckRow
      <3>4. QED
        BY <1>4, <2>1, <3>1, <3>3 DEF LinkedKnown, SpentChecks
    <2>3. ReturnsCheques
      BY <2>2 DEF ReturnsCheques
    <2>4. QED
      BY <1>1, <2>1, <2>3, LinkedDone
  <1>13. CASE LoadPatched(w0)
    <2>1. check' = check /\ job[w0].ids \in SUBSET Checks
      BY <1>1, <1>3, <1>13 DEF LoadPatched, tables, At, JobsTyped, TypedJob, CheckSteps
    <2>2. CASE Done(w0)
      BY <1>1, <1>2, <2>1, <2>2, LinkedDone
    <2>3. ASSUME NEW c \in job[w0].ids, check[c] # Absent, NEW r, PatchedCheck(c, r),
                 Moves(w0, "save_patched", job[w0].row, [job[w0].todo EXCEPT ![c] = r], job[w0].sum)
          PROVE  ReturnsCheques /\ LinkedInv(w0)'
      <3>1. PICK todo : todo = [job[w0].todo EXCEPT ![c] = r]
        OBVIOUS
      <3>2. Moves(w0, "save_patched", job[w0].row, todo, job[w0].sum)
        BY <2>3, <3>1
      <3>3. QED
        BY <1>1, <1>2, <2>1, <3>2, LinkedMoves
    <2>4. QED
      BY <1>1, <1>13, <2>2, <2>3, LoadPatchedForm
  <1>14. CASE SavePatched(w0)
    <2>1. PICK c \in Todo(w0) :
            check' = check \/ check' = [check EXCEPT ![c] = job[w0].todo[c]]
      BY <1>14 DEF SavePatched
    <2>2. At(w0, "save_patched") /\ \A d \in Checks \ {c} : check'[d] = check[d]
      BY <1>1, <1>14, <2>1 DEF SavePatched, TablesTyped
    <2>3. ReturnsCheques
      BY <2>2 DEF ReturnsCheques
    <2>4. QED
      BY <1>1, <1>14, <2>3, LinkedDone DEF SavePatched
  <1>15. CASE DeleteCheck(w0)
    <2>1. ReturnsCheques
      BY <1>15 DEF DeleteCheck, ReturnsCheques
    <2>2. QED
      BY <1>1, <1>15, <2>1, LinkedDone DEF DeleteCheck
  <1>16. QED
    BY <1>7, <1>8, <1>9, <1>10, <1>11, <1>12, <1>13, <1>14, <1>15 DEF Statement

LEMMA LinkedInductive ==
  ASSUME NEW w0, Workers = {w0}
  PROVE  TypeInv /\ LinkedInv(w0) /\ [Next]_vars => ReturnsCheques /\ LinkedInv(w0)'
  <1> SUFFICES ASSUME TypeInv, LinkedInv(w0), [Next]_vars
               PROVE  ReturnsCheques /\ LinkedInv(w0)'
    OBVIOUS
  <1>1. w0 \in Workers
    OBVIOUS
  <1>2. CASE Statement(w0)
    BY <1>1, <1>2, LinkedStatements
  <1>3. CASE \E e \in Expenses : ExpenseRequest(w0, e)
    BY <1>1, <1>3, LinkedExpenseRequests
  <1>4. CASE \/ \E c \in Checks : CheckRequest(w0, c)
             \/ \E e \in Expenses : CreateExpense(e)
             \/ \E c \in Checks : CreateCheck(c)
             \/ \E t \in Transactions : DeleteTransaction(t)
             \/ AddCardTransaction \/ ListChecks \/ Tick \/ UNCHANGED vars \/ Crash(w0)
    BY <1>1, <1>4, LinkedOtherRequests
  <1>5. QED
    BY <1>2, <1>3, <1>4 DEF Next

\* views.py:4946-4955: with one worker, killed between any two statements or not, a cheque that
\* loses its expense is not left marked SPENT, whichever of the endpoints clients use and
\* whatever statuses and links they enter, unless the client that edits the cheque says so.
THEOREM OneWorkerReturnsCheques ==
  ASSUME NEW w0, Workers = {w0}
  PROVE  Spec => ReturnedWhenUnlinked
  <1>1. TypeInv /\ LinkedInv(w0) /\ [Next]_vars => ReturnsCheques /\ LinkedInv(w0)'
    BY LinkedInductive
  <1>2. Init => LinkedInv(w0)
    BY DEF Init, LinkedInv, LinkedJob
  <1>3. QED
    BY <1>1, <1>2, TypeInitially, TypeInductive, PTL DEF Spec, ReturnedWhenUnlinked, ReturnsCheques

\* Saving new over old does not spend a cheque on another expense.
KeepsLink(old, new) ==
  new.spent_on_expense \in {old.spent_on_expense, None} \/ old.spent_on_expense = None

LinksKept ==
  \A c \in Checks : check[c] # Absent /\ check'[c] # Absent => KeepsLink(check[c], check'[c])

\* The handler spends the cheques it has yet to save on no other expense than they are.
SpendsOnce(todo) ==
  \A c \in Checks : todo[c] # Absent /\ check[c] # Absent => KeepsLink(check[c], todo[c])
SpendInv(w0) == job[w0] # Idle => SpendsOnce(job[w0].todo)

\* No link changes; only cheques that the handler does not hold are created.
SameLinks ==
  \A c \in Checks : check'[c] # Absent =>
    check[c] # Absent /\ check'[c].spent_on_expense = check[c].spent_on_expense

LEMMA SpendQuiet ==
  ASSUME JobsTyped, NEW w0 \in Workers, SpendInv(w0), SameLinks,
         \/ Done(w0) \/ job' = job
         \/ job[w0] # Idle /\ \E next, row, sum : Moves(w0, next, row, job[w0].todo, sum)
         \/ \E endpoint, next, e, row, ids : Begins(w0, endpoint, next, e, row, ids, NoChecks)
  PROVE  LinksKept /\ SpendInv(w0)'
  <1>1. LinksKept
    BY DEF SameLinks, LinksKept, KeepsLink
  <1>2. \/ job'[w0] = Idle \/ job'[w0].todo = NoChecks
        \/ job[w0] # Idle /\ job'[w0].todo = job[w0].todo
    <2>1. ASSUME NEW next, NEW row, NEW sum, Moves(w0, next, row, job[w0].todo, sum)
          PROVE  job'[w0].todo = job[w0].todo
      <3>1. job'[w0] = [next |-> next, id |-> job[w0].id, row |-> row, ids |-> job[w0].ids,
                        todo |-> job[w0].todo, sum |-> sum]
        <4>1. PICK todo : todo = job[w0].todo
          OBVIOUS
        <4>2. QED
          BY <2>1, <4>1, SoloJob
      <3>2. QED
        BY <3>1
    <2>2. ASSUME NEW endpoint, NEW next, NEW e, NEW row, NEW ids,
                 Begins(w0, endpoint, next, e, row, ids, NoChecks)
          PROVE  job'[w0].todo = NoChecks
      <3>1. job'[w0] = [next |-> next, id |-> e, row |-> row, ids |-> ids, todo |-> NoChecks,
                        sum |-> 0]
        BY <2>2, SoloJob DEF Begins
      <3>2. QED
        BY <3>1
    <2>3. QED
      BY <2>1, <2>2, SoloJob
  <1>3. SpendsOnce(NoChecks)'
    BY DEF SpendsOnce, NoChecks
  <1>4. QED
    BY <1>1, <1>2, <1>3 DEF SpendInv, SpendsOnce, SameLinks, KeepsLink

\* The handler takes up, or has yet to save, these cheques.
LEMMA SpendMoves ==
  ASSUME JobsTyped, NEW w0 \in Workers, LinksKept,
         NEW next, NEW row, NEW todo, NEW sum, Moves(w0, next, row, todo, sum),
         SpendsOnce(todo)'
  PROVE  LinksKept /\ SpendInv(w0)'
  <1>1. job'[w0] = [next |-> next, id |-> job[w0].id, row |-> row, ids |-> job[w0].ids,
                    todo |-> todo, sum |-> sum]
    BY SoloJob
  <1>2. job'[w0].todo = todo
    BY <1>1
  <1>3. QED
    BY <1>2 DEF SpendInv, SpendsOnce

LEMMA SpendDone ==
  ASSUME JobsTyped, NEW w0 \in Workers, LinksKept, Done(w0)
  PROVE  LinksKept /\ SpendInv(w0)'
  BY SoloJob DEF SpendInv

\* One of the cheques is saved.
LEMMA SpendSaves ==
  ASSUME TypeInv, NEW w0 \in Workers, SpendInv(w0), job[w0] # Idle,
         NEW c \in Checks, NEW last, SaveCheck(w0, c, last)
  PROVE  LinksKept /\ SpendInv(w0)'
  <1>1. JobsTyped /\ TablesTyped /\ SpendsOnce(job[w0].todo)
    BY DEF TypeInv, SpendInv
  <1>0. PICK next, todo : /\ next = IF Todo(w0) = {c} THEN last ELSE job[w0].next
                          /\ todo = [job[w0].todo EXCEPT ![c] = Absent]
    OBVIOUS
  <1>2. /\ c \in Todo(w0)
        /\ \/ check' = check /\ Done(w0)
           \/ /\ check' = [check EXCEPT ![c] = job[w0].todo[c]]
              /\ Moves(w0, next, job[w0].row, todo, job[w0].sum)
    BY <1>0, <1>1, SaveCheckForm
  <1>3. job[w0].todo \in [Checks -> CheckRow \cup {Absent}]
    BY <1>1 DEF JobsTyped, TypedJob, Job
  <1>4. todo[c] = Absent /\ \A d \in Checks \ {c} : todo[d] = job[w0].todo[d]
    BY <1>0, <1>3
  <1>5. CASE check' = check /\ Done(w0)
    <2>1. LinksKept
      BY <1>5 DEF LinksKept, KeepsLink
    <2>2. QED
      BY <1>1, <1>5, <2>1, SpendDone
  <1>6. CASE /\ check' = [check EXCEPT ![c] = job[w0].todo[c]]
             /\ Moves(w0, next, job[w0].row, todo, job[w0].sum)
    <2>1. check'[c] = job[w0].todo[c] /\ \A d \in Checks \ {c} : check'[d] = check[d]
      BY <1>1, <1>6 DEF TablesTyped
    <2>2. LinksKept
      BY <1>1, <1>2, <2>1 DEF LinksKept, KeepsLink, SpendsOnce, Todo
    <2>3. SpendsOnce(todo)'
      <3>1. \A d \in Checks : todo[d] # Absent /\ check'[d] # Absent => KeepsLink(check'[d], todo[d])
        BY <1>1, <1>4, <2>1 DEF SpendsOnce
      <3>2. QED
        BY <3>1 DEF SpendsOnce, KeepsLink
    <2>4. QED
      BY <1>1, <1>6, <2>2, <2>3, SpendMoves
  <1>7. QED
    BY <1>2, <1>5, <1>6

LEMMA SpendRequests ==
  ASSUME TypeInv, NEW w0 \in Workers, Workers = {w0}, SpendInv(w0),
         \/ \E e \in Expenses : ExpenseRequest(w0, e)
         \/ \E c \in Checks : CheckRequest(w0, c)
         \/ \E e \in Expenses : CreateExpense(e)
         \/ \E c \in Checks : CreateCheck(c)
         \/ \E t \in Transactions : DeleteTransaction(t)
         \/ AddCardTransaction \/ ListChecks \/ Tick \/ UNCHANGED vars \/ Crash(w0)
  PROVE  LinksKept /\ SpendInv(w0)'
  <1>1. JobsTyped /\ TablesTyped
    BY DEF TypeInv
  <1>2. check' = check => SameLinks
    BY DEF SameLinks
  <1>3. check' = Synced => SameLinks
    <2>1. SUFFICES ASSUME check' = Synced, NEW c \in Checks, check'[c] # Absent
                   PROVE  check[c] # Absent
                          /\ check'[c].spent_on_expense = check[c].spent_on_expense
      BY DEF SameLinks
    <2>2. check'[c] = IF check[c] # Absent /\ check[c].status = "PENDING" /\ check[c].due_date < today
                      THEN [check[c] EXCEPT !.status = "UNPAID"] ELSE check[c]
      BY <2>1 DEF Synced
    <2>3. CASE check[c] # Absent /\ check[c].status = "PENDING" /\ check[c].due_date < today
      BY <1>1, <2>2, <2>3 DEF TablesTyped, CheckRow
    <2>4. QED
      BY <2>1, <2>2, <2>3
  <1>4. CASE \/ \E e \in Expenses : CreateExpense(e)
             \/ \E t \in Transactions : DeleteTransaction(t)
             \/ AddCardTransaction \/ ListChecks \/ Tick \/ UNCHANGED vars \/ Crash(w0)
    BY <1>1, <1>2, <1>3, <1>4, SpendQuiet DEF CreateExpense, DeleteTransaction,
       AddCardTransaction, ListChecks, Tick, Crash, vars, tables
  <1>5. ASSUME NEW c \in Checks, CreateCheck(c)
        PROVE  LinksKept /\ SpendInv(w0)'
    <2>1. /\ check[c] = Absent /\ job' = job
          /\ job[w0] # Idle => c \notin Todo(w0)
          /\ \A d \in Checks \ {c} : check'[d] = check[d]
      BY <1>1, <1>5 DEF CreateCheck, TablesTyped
    <2>2. LinksKept
      BY <2>1 DEF LinksKept, KeepsLink
    <2>3. SpendInv(w0)'
      BY <2>1 DEF SpendInv, SpendsOnce, KeepsLink, Todo
    <2>4. QED
      BY <2>2, <2>3
  <1>6. ASSUME NEW c \in Checks, CheckRequest(w0, c)
        PROVE  LinksKept /\ SpendInv(w0)'
    <2>1. \E endpoint : \E next \in {"load_patched", "load_deleted"} :
            Begins(w0, endpoint, next, None, Absent, {c}, NoChecks)
      BY <1>6, Zenon DEF CheckRequest
    <2>2. \E endpoint, next, e, row, ids : Begins(w0, endpoint, next, e, row, ids, NoChecks)
      BY <2>1, Zenon
    <2>3. QED
      BY <1>1, <1>3, <1>6, <2>2, SpendQuiet DEF CheckRequest
  <1>7. ASSUME NEW e \in Expenses, ExpenseRequest(w0, e)
        PROVE  LinksKept /\ SpendInv(w0)'
    <2>1. check' = check
      BY <1>7 DEF ExpenseRequest, ConfirmLoad, UnconfirmLoad, SpendLoad, RemoveLoad, DestroyLoad,
             CreateWithChecks, UpdateLoad, Loads, tables
    <2>2. CASE DestroyLoad(w0, e)
      <3>1. PICK next, todo : /\ todo = AllReturned(SpentChecks(e))
                              /\ Begins(w0, "destroy", next, e, expense[e], None, todo)
        BY <2>2 DEF DestroyLoad
      <3>2. job'[w0] = [next |-> next, id |-> e, row |-> expense[e], ids |-> None,
                        todo |-> todo, sum |-> 0]
        BY <1>1, <3>1, SoloJob DEF Begins
      <3>3. job'[w0].todo = todo
        BY <3>2
      <3>4. ASSUME NEW c \in Checks, todo[c] # Absent
            PROVE  todo[c].spent_on_expense = None
        <4>1. c \in SpentChecks(e) /\ todo[c] = Returned(check[c])
          BY <3>1, <3>4 DEF AllReturned
        <4>2. check[c] \in CheckRow
          BY <1>1, <4>1 DEF SpentChecks, TablesTyped
        <4>3. QED
          BY <4>1, <4>2 DEF Returned, CheckRow
      <3>5. SpendInv(w0)'
        BY <3>3, <3>4 DEF SpendInv, SpendsOnce, KeepsLink
      <3>6. QED
        BY <2>1, <3>5 DEF LinksKept, KeepsLink
    <2>3. CASE ~DestroyLoad(w0, e)
      <3>1. \E endpoint, next, r, ids : Begins(w0, endpoint, next, e, r, ids, NoChecks)
        <4>1. CASE ConfirmLoad(w0, e) \/ SpendLoad(w0, e) \/ RemoveLoad(w0, e)
          BY <4>1, Zenon DEF ConfirmLoad, SpendLoad, RemoveLoad, Loads
        <4>2. CASE UnconfirmLoad(w0, e) \/ CreateWithChecks(w0, e) \/ UpdateLoad(w0, e)
          BY <4>2, Zenon DEF UnconfirmLoad, CreateWithChecks, UpdateLoad
        <4>3. QED
          BY <1>7, <2>3, <4>1, <4>2 DEF ExpenseRequest
      <3>2. \E endpoint, next, f, r, ids : Begins(w0, endpoint, next, f, r, ids, NoChecks)
        BY <3>1, Zenon
      <3>3. QED
        BY <1>1, <1>2, <2>1, <3>2, SpendQuiet
    <2>4. QED
      BY <2>2, <2>3
  <1>8. QED
    BY <1>4, <1>5, <1>6, <1>7

LEMMA SpendStatements ==
  ASSUME TypeInv, NEW w0 \in Workers, SpendInv(w0), LinkInputs = {}, Statement(w0)
  PROVE  LinksKept /\ SpendInv(w0)'
  <1>1. JobsTyped /\ TablesTyped
    BY DEF TypeInv
  <1>2. check' = check => SameLinks /\ LinksKept
    BY DEF SameLinks, LinksKept, KeepsLink
  <1>3. job[w0] # Idle
    BY DEF Statement, At, ReadDeposits, ReadWithdrawals, SavePaid,
           CreateWithdrawal, SaveUnpaid, DeleteWithdrawals, ReadChecks, ReadLinked, SaveChecks,
           Recalculate, SaveNet, SaveEdited, ReleaseChecks, DeleteExpense, LoadPatched,
           SavePatched, LoadDeleted, DeleteCheck
  <1>4. SpendsOnce(job[w0].todo) /\ job[w0].todo \in [Checks -> CheckRow \cup {Absent}]
    BY <1>1, <1>3 DEF SpendInv, JobsTyped, TypedJob, Job
  <1>5. CASE \/ ReadDeposits(w0) \/ ReadWithdrawals(w0) \/ SavePaid(w0) \/ CreateWithdrawal(w0)
             \/ SaveUnpaid(w0) \/ DeleteWithdrawals(w0) \/ Recalculate(w0) \/ SaveNet(w0)
             \/ SaveEdited(w0) \/ LoadDeleted(w0)
    <2>1. /\ check' = check
          /\ Done(w0) \/ \E next, row, sum : Moves(w0, next, row, job[w0].todo, sum)
      BY <1>1, <1>5, ChequesKept
    <2>2. QED
      BY <1>1, <1>2, <1>3, <2>1, SpendQuiet
  <1>6. CASE ReadChecks(w0)
    <2>1. check' = check /\ job[w0].next = "read_checks"
      BY <1>6 DEF ReadChecks, tables, At
    <2>2. PICK next, todo : /\ next = IF job[w0].ids = {} THEN "recalculate" ELSE "save_checks"
                            /\ todo = Taken(w0)
      OBVIOUS
    <2>3. Done(w0) \/ (/\ Spendable(job[w0].ids, job[w0].id)
                       /\ Moves(w0, next, job[w0].row, todo, job[w0].sum))
      BY <1>1, <1>6, <2>2, ReadChecksForm
    <2>4. ASSUME NEW c \in Checks, Spendable(job[w0].ids, job[w0].id), todo[c] # Absent
          PROVE  KeepsLink(check[c], todo[c])
      <3>1. c \in job[w0].ids /\ todo[c] = SpentOn(job[w0].id, check[c])
        BY <2>2, <2>4 DEF Taken
      <3>2. check[c] \in CheckRow /\ check[c].spent_on_expense \in {None, job[w0].id}
        BY <1>1, <2>4, <3>1 DEF TablesTyped, Spendable
      <3>3. todo[c].spent_on_expense = job[w0].id
        BY <3>1, <3>2 DEF SpentOn, CheckRow
      <3>4. QED
        BY <3>2, <3>3 DEF KeepsLink
    <2>5. Spendable(job[w0].ids, job[w0].id) => SpendsOnce(todo)'
      BY <2>1, <2>4 DEF SpendsOnce, KeepsLink
    <2>6. QED
      BY <1>1, <1>2, <2>1, <2>3, <2>5, SpendMoves, SpendDone
  <1>7. CASE ReadLinked(w0)
    <2>1. check' = check
      BY <1>7 DEF ReadLinked, tables
    <2>2. PICK todo : todo = AllReturned(job[w0].ids)
      OBVIOUS
    <2>3. Done(w0) \/ (job[w0].ids \subseteq SpentChecks(job[w0].id)
                       /\ Moves(w0, "save_checks", job[w0].row, todo, job[w0].sum))
      BY <1>1, <1>7, <2>2, ReadLinkedForm
    <2>4. ASSUME NEW c \in Checks, job[w0].ids \subseteq SpentChecks(job[w0].id), todo[c] # Absent
          PROVE  todo[c].spent_on_expense = None
      <3>1. c \in job[w0].ids /\ todo[c] = Returned(check[c])
        BY <2>2, <2>4 DEF AllReturned
      <3>2. check[c] \in CheckRow
        BY <1>1, <2>4, <3>1 DEF TablesTyped, SpentChecks
      <3>3. QED
        BY <3>1, <3>2 DEF Returned, CheckRow
    <2>5. job[w0].ids \subseteq SpentChecks(job[w0].id) => SpendsOnce(todo)'
      BY <2>4 DEF SpendsOnce, KeepsLink
    <2>6. QED
      BY <1>1, <1>2, <2>1, <2>3, <2>5, SpendMoves, SpendDone
  <1>8. CASE SaveChecks(w0) \/ ReleaseChecks(w0)
    BY <1>3, <1>8, SpendSaves DEF SaveChecks, ReleaseChecks
  <1>9. CASE DeleteExpense(w0)
    <2>1. Done(w0) /\ check' = [c \in Checks |-> IF c \in SpentChecks(job[w0].id)
                        THEN [check[c] EXCEPT !.spent_on_expense = None] ELSE check[c]]
      BY <1>9, Zenon DEF DeleteExpense
    <2>2. ASSUME NEW c \in Checks, check[c] # Absent
          PROVE  KeepsLink(check[c], check'[c])
      <3>1. CASE c \in SpentChecks(job[w0].id)
        <4>1. check[c] \in CheckRow /\ check'[c] = [check[c] EXCEPT !.spent_on_expense = None]
          BY <1>1, <2>1, <2>2, <3>1 DEF TablesTyped
        <4>2. check'[c].spent_on_expense = None
          BY <4>1 DEF CheckRow
        <4>3. QED
          BY <4>2 DEF KeepsLink
      <3>2. CASE c \notin SpentChecks(job[w0].id)
        BY <2>1, <3>2 DEF KeepsLink
      <3>3. QED
        BY <3>1, <3>2
    <2>3. LinksKept
      BY <2>2 DEF LinksKept
    <2>4. QED
      BY <1>1, <2>1, <2>3, SpendDone
  <1>10. CASE LoadPatched(w0)
    <2>1. check' = check /\ job[w0].ids \in SUBSET Checks
      BY <1>1, <1>3, <1>10 DEF LoadPatched, tables, At, JobsTyped, TypedJob, CheckSteps
    <2>2. CASE Done(w0)
      BY <1>1, <1>2, <2>1, <2>2, SpendDone
    <2>3. ASSUME NEW c \in job[w0].ids, check[c] # Absent, NEW r, PatchedCheck(c, r),
                 Moves(w0, "save_patched", job[w0].row, [job[w0].todo EXCEPT ![c] = r], job[w0].sum)
          PROVE  LinksKept /\ SpendInv(w0)'
      <3>1. PICK amount \in Amounts, status \in StatusInputs \cup {check[c].status} :
              r = [check[c] EXCEPT !.amount = amount, !.status = status,
                                   !.spent_on_expense = check[c].spent_on_expense]
        BY <2>3 DEF PatchedCheck
      <3>2. check[c] \in CheckRow /\ c \in Checks
        BY <1>1, <2>1, <2>3 DEF TablesTyped
      <3>3. r.spent_on_expense = check[c].spent_on_expense
        BY <3>1, <3>2 DEF CheckRow
      <3>4. PICK todo : todo = [job[w0].todo EXCEPT ![c] = r]
        OBVIOUS
      <3>5. Moves(w0, "save_patched", job[w0].row, todo, job[w0].sum)
        BY <2>3, <3>4
      <3>6. \A d \in Checks : todo[d] = IF d = c THEN r ELSE job[w0].todo[d]
        BY <1>4, <3>4
      <3>7. SpendsOnce(todo)'
        BY <1>4, <2>1, <3>3, <3>6 DEF SpendsOnce, KeepsLink
      <3>8. QED
        BY <1>1, <1>2, <2>1, <3>5, <3>7, SpendMoves
    <2>4. QED
      BY <1>1, <1>10, <2>2, <2>3, LoadPatchedForm
  <1>11. CASE SavePatched(w0)
    <2>1. PICK c \in Todo(w0) :
            check' = check \/ check' = [check EXCEPT ![c] = job[w0].todo[c]]
      BY <1>11 DEF SavePatched
    <2>2. LinksKept
      BY <1>1, <1>4, <2>1 DEF LinksKept, SpendsOnce, KeepsLink, Todo, TablesTyped
    <2>3. QED
      BY <1>1, <1>11, <2>2, SpendDone DEF SavePatched
  <1>12. CASE DeleteCheck(w0)
    <2>1. LinksKept
      BY <1>12 DEF DeleteCheck, LinksKept, KeepsLink
    <2>2. QED
      BY <1>1, <1>12, <2>1, SpendDone DEF DeleteCheck
  <1>13. QED
    BY <1>5, <1>6, <1>7, <1>8, <1>9, <1>10, <1>11, <1>12 DEF Statement

\* views.py:4889-4890: with one worker, killed or not, a cheque that is spent on one expense is
\* taken back before it is spent on another one, unless clients write links by hand.
THEOREM OneWorkerNeverRespends ==
  ASSUME NEW w0, Workers = {w0}, LinkInputs = {}
  PROVE  Spec => NeverRespent
  <1>1. TypeInv /\ SpendInv(w0) /\ [Next]_vars => LinksKept /\ SpendInv(w0)'
    <2> SUFFICES ASSUME TypeInv, SpendInv(w0), [Next]_vars
                 PROVE  LinksKept /\ SpendInv(w0)'
      OBVIOUS
    <2>1. w0 \in Workers
      OBVIOUS
    <2>2. CASE Statement(w0)
      BY <2>1, <2>2, SpendStatements
    <2>3. CASE ~Statement(w0)
      BY <2>1, <2>3, SpendRequests DEF Next
    <2>4. QED
      BY <2>2, <2>3
  <1>2. Init => SpendInv(w0)
    BY DEF Init, SpendInv
  <1>3. LinksKept => [\A c \in Checks : check[c] # Absent /\ check'[c] # Absent =>
                        check'[c].spent_on_expense \in {check[c].spent_on_expense, None}
                          \/ check[c].spent_on_expense = None]_vars
    BY DEF LinksKept, KeepsLink
  <1>4. QED
    BY <1>1, <1>2, <1>3, TypeInitially, TypeInductive, PTL DEF Spec, NeverRespent

-----------------------------------------------------------------------------
(* The amounts of the expenses, with one worker *)

\* What NetOfSpentChecks says of a row.
NetRow(r, spent) ==
  /\ r.amount = Net(r.initial_amount, spent) \/ (spent = 0 /\ r.amount = r.initial_amount)
  /\ r.has_spent_check <=> spent > 0
NetOf(e) == expense[e] # Absent => NetRow(expense[e], SpentChecksAmount(e))

\* The handler of expense e knows that e is stored, that the cheques it takes up belong to no
\* other expense, and that the instance which it saves next agrees with the cheques.
NetKnown(next, e, row, todo) ==
  /\ next \notin CheckSteps \cup {"edit"}
  /\ expense[e] # Absent
  /\ next \in {"deposits", "withdrawals", "pay", "unpay", "save_net"} =>
       NetRow(row, SpentChecksAmount(e))
  /\ \A c \in Checks : todo[c] # Absent =>
       /\ check[c] # Absent /\ check[c].spent_on_expense \in {None, e}
       /\ todo[c].spent_on_expense \in {None, e}
NetJob(j) == j # Idle => NetKnown(j.next, j.id, j.row, j.todo)

\* The handler has changed cheques of e, and not yet the amount of e.
Recalculating(j, e) ==
  /\ j # Idle /\ j.id = e
  /\ j.next \in {"save_checks", "recalculate", "save_net", "release", "delete"}

\* The foreign keys of the cheques.
LinksExist == \A c \in Checks : check[c] # Absent => LinkHolds(check[c].spent_on_expense)

NetInv(w0) ==
  /\ LinksExist
  /\ \A e \in Expenses : NetOf(e) \/ Recalculating(job[w0], e)
  /\ NetJob(job[w0])

\* Nothing changes cheques or amounts without the recalculation: clients neither edit an
\* expense, nor patch or delete a cheque, nor link one by hand, and no worker is killed.
RecalculatedAlways ==
  /\ Crashes = FALSE /\ LinkInputs = {}
  /\ Endpoints \cap {"update", "patch_check", "delete_check"} = {}

LEMMA SpentTyped ==
  TypeInv => \A e \in Expenses : /\ IsFiniteSet(SpentChecks(e))
                                 /\ SpentChecksAmount(e) \in Int
  BY AggregatesType DEF TypeInv

LEMMA SpentTypedNext ==
  TypeInv' => \A e \in Expenses : /\ IsFiniteSet(SpentChecks(e)')
                                  /\ SpentChecksAmount(e)' \in Int
  <1>1. TypeInv' => (\A e \in Expenses : /\ IsFiniteSet(SpentChecks(e))
                                         /\ SpentChecksAmount(e) \in Int)'
    BY SpentTyped, PTL
  <1>2. QED
    BY <1>1

LEMMA SpentAmountNext ==
  ASSUME NEW CONSTANT e
  PROVE  IsFiniteSet(SpentChecks(e)') =>
           SpentChecksAmount(e)'
             = Total(SpentChecks(e)', [c \in SpentChecks(e)' |-> check'[c].amount])
  <1>1. IsFiniteSet(SpentChecks(e)) =>
          SpentChecksAmount(e) = Total(SpentChecks(e), [c \in SpentChecks(e) |-> check[c].amount])
    BY SpentChecksAmountIs
  <1>2. (IsFiniteSet(SpentChecks(e)) =>
          SpentChecksAmount(e)
            = Total(SpentChecks(e), [c \in SpentChecks(e) |-> check[c].amount]))'
    BY <1>1, PTL
  <1>3. QED
    BY <1>2

\* The cheques of e, and their amounts, stay as they are.
SameSpent(e) ==
  /\ SpentChecks(e)' = SpentChecks(e)
  /\ \A c \in SpentChecks(e) : check'[c].amount = check[c].amount

LEMMA SameSpentAmount ==
  ASSUME NEW CONSTANT e \in Expenses, TypeInv, TypeInv', SameSpent(e)
  PROVE  SpentChecksAmount(e)' = SpentChecksAmount(e)
  <1> DEFINE S == SpentChecks(e)
             T == SpentChecks(e)'
             a == [c \in S |-> check[c].amount]
             b == [c \in T |-> check'[c].amount]
  <1>1. SpentChecksAmount(e) = Total(S, a) /\ SpentChecksAmount(e)' = Total(T, b)
    BY SpentTyped, SpentTypedNext, SpentChecksAmountIs, SpentAmountNext
  <1>2. T = S /\ \A c \in S : a[c] = b[c]
    BY DEF SameSpent
  <1>3. IsFiniteSet(S)
    BY SpentTyped
  <1> HIDE DEF S, T, a, b
  <1>4. Total(S, a) = Total(S, b)
    BY <1>2, <1>3, TotalAgrees
  <1>5. QED
    BY <1>1, <1>2, <1>4

\* The same for every expense.
LEMMA SameSpentAmounts ==
  ASSUME TypeInv, TypeInv', \A e \in Expenses : SameSpent(e)
  PROVE  \A e \in Expenses : SpentChecksAmount(e)' = SpentChecksAmount(e)
  <1>1. ASSUME NEW CONSTANT e \in Expenses
        PROVE  SpentChecksAmount(e)' = SpentChecksAmount(e)
    BY SameSpentAmount
  <1>2. QED
    BY <1>1

\* The steps that end a recalculation, or an expense.
RecalculationSteps == {"save_checks", "recalculate", "save_net", "release", "delete"}

\* The handler goes on, the tables of the expenses and of the cheques being as they were.
LEMMA NetMoves ==
  ASSUME TypeInv, TypeInv', NEW w0 \in Workers, NetInv(w0), UNCHANGED <<expense, check>>,
         NEW next, NEW row, NEW todo, NEW sum, Moves(w0, next, row, todo, sum),
         NetKnown(next, job[w0].id, row, todo), job[w0] # Idle,
         job[w0].next \in RecalculationSteps => next \in RecalculationSteps /\ job'[w0] # Idle
  PROVE  NetInv(w0)'
  <1>1. PICK e : e = job[w0].id
    OBVIOUS
  <1>2. job'[w0] = [next |-> next, id |-> e, row |-> row, ids |-> job[w0].ids,
                    todo |-> todo, sum |-> sum]
    BY <1>1, SoloJob DEF TypeInv
  <1>3. /\ job'[w0].next = next /\ job'[w0].id = e
        /\ job'[w0].row = row /\ job'[w0].todo = todo
    BY <1>2
  <1>4. e \in Expenses
    BY <1>1 DEF TypeInv, JobsTyped, TypedJob, NetInv, NetJob, NetKnown
  <1>5. \A f \in Expenses : SpentChecksAmount(f)' = SpentChecksAmount(f)
    BY SameSpentAmounts DEF SameSpent, SpentChecks
  <1>6. NetJob(job[w0])'
    <2>1. NetKnown(next, e, row, todo)
      BY <1>1
    <2>2. NetKnown(next, e, row, todo)'
      <3>1. NetRow(row, SpentChecksAmount(e)) => NetRow(row, SpentChecksAmount(e)')
        BY <1>4, <1>5
      <3>2. QED
        BY <2>1, <3>1 DEF NetKnown, NetRow
    <2>3. QED
      BY <1>3, <2>2 DEF NetJob, NetKnown, NetRow
  <1>7. LinksExist'
    BY DEF NetInv, LinksExist, LinkHolds
  <1>8. ASSUME NEW f \in Expenses
        PROVE  (NetOf(f) \/ Recalculating(job[w0], f))'
    <2>1. NetOf(f) => NetOf(f)'
      BY <1>5 DEF NetOf, NetRow
    <2>2. NetOf(f) \/ Recalculating(job[w0], f)
      BY DEF NetInv
    <2>3. QED
      BY <1>1, <1>3, <2>1, <2>2 DEF Recalculating, RecalculationSteps
  <1>9. QED
    BY <1>6, <1>7, <1>8 DEF NetInv

\* The handler ends, having recalculated what it had to.
LEMMA NetDone ==
  ASSUME TypeInv, TypeInv', NEW w0 \in Workers, NetInv(w0), UNCHANGED <<expense, check>>,
         job[w0] # Idle => job[w0].next \notin RecalculationSteps, job'[w0] = Idle
  PROVE  NetInv(w0)'
  <1>1. \A f \in Expenses : SpentChecksAmount(f)' = SpentChecksAmount(f)
    BY SameSpentAmounts DEF SameSpent, SpentChecks
  <1>2. LinksExist' /\ NetJob(job[w0])'
    BY DEF NetInv, LinksExist, LinkHolds, NetJob
  <1>3. ASSUME NEW f \in Expenses
        PROVE  NetOf(f)'
    <2>1. NetOf(f)
      BY DEF NetInv, Recalculating, RecalculationSteps
    <2>2. QED
      BY <1>1, <2>1 DEF NetOf, NetRow
  <1>4. QED
    BY <1>2, <1>3 DEF NetInv

\* The instance of e that the handler saves agrees with the cheques.
LEMMA NetSaves ==
  ASSUME TypeInv, TypeInv', NEW w0 \in Workers, NetInv(w0), job[w0] # Idle,
         job[w0].next \in {"pay", "unpay", "save_net"}, SaveExpense(w0),
         Done(w0) \/ \E next \in {"withdraw", "refund"} : Goto(w0, next)
  PROVE  NetInv(w0)'
  <1>1. PICK e, r : e = job[w0].id /\ r = job[w0].row
    OBVIOUS
  <1>2. JobsTyped /\ TablesTyped /\ e \in Expenses /\ r \in ExpenseRow /\ r # Absent
    BY <1>1, SentinelAssumption DEF TypeInv, JobsTyped, TypedJob, CheckSteps
  <1>3. /\ check' = check /\ expense'[e] = r
        /\ \A f \in Expenses \ {e} : expense'[f] = expense[f]
    BY <1>1, <1>2 DEF SaveExpense, TablesTyped
  <1>4. \A f \in Expenses : SpentChecksAmount(f)' = SpentChecksAmount(f)
    BY <1>3, SameSpentAmounts DEF SameSpent, SpentChecks
  <1>5. NetKnown(job[w0].next, e, r, job[w0].todo)
    BY <1>1 DEF NetInv, NetJob
  <1>6. LinksExist'
    BY <1>2, <1>3 DEF NetInv, LinksExist, LinkHolds, TablesTyped, CheckRow
  <1>7. ASSUME NEW f \in Expenses
        PROVE  NetOf(f)'
    <2>1. CASE f = e
      <3>1. NetRow(r, SpentChecksAmount(e))
        BY <1>5 DEF NetKnown
      <3>2. NetRow(expense'[e], SpentChecksAmount(e)')
        BY <1>2, <1>3, <1>4, <3>1
      <3>3. QED
        BY <2>1, <3>2 DEF NetOf, NetRow
    <2>2. CASE f # e
      <3>1. NetOf(f)
        BY <1>1, <2>2 DEF NetInv, Recalculating
      <3>2. QED
        BY <1>3, <1>4, <2>2, <3>1 DEF NetOf, NetRow
    <2>3. QED
      BY <2>1, <2>2
  <1>8. NetJob(job[w0])'
    <2>1. CASE Done(w0)
      BY <1>2, <2>1, SoloJob DEF NetJob
    <2>2. ASSUME NEW next \in {"withdraw", "refund"}, Goto(w0, next)
          PROVE  NetJob(job[w0])'
      <3>1. next \in ExpenseSteps
        BY DEF ExpenseSteps
      <3>2. /\ job'[w0].next = next /\ job'[w0].id = e
            /\ job'[w0].row = r /\ job'[w0].todo = job[w0].todo
        BY <1>1, <1>2, <2>2, <3>1, SoloGoto
      <3>3. \A c \in Checks : job[w0].todo[c] # Absent =>
              /\ check[c] # Absent /\ check[c].spent_on_expense \in {None, e}
              /\ job[w0].todo[c].spent_on_expense \in {None, e}
        BY <1>5 DEF NetKnown
      <3>4. QED
        BY <1>2, <1>3, <3>2, <3>3 DEF NetJob, NetKnown, CheckSteps
    <2>3. QED
      BY <2>1, <2>2
  <1>9. QED
    BY <1>6, <1>7, <1>8 DEF NetInv

\* One of the cheques of e is saved.
LEMMA NetSavesCheck ==
  ASSUME TypeInv, TypeInv', NEW w0 \in Workers, NetInv(w0), job[w0] # Idle,
         NEW c \in Checks, NEW last,
         \/ job[w0].next = "save_checks" /\ last = "recalculate"
         \/ job[w0].next = "release" /\ last = "delete",
         SaveCheck(w0, c, last)
  PROVE  NetInv(w0)'
  <1>1. PICK e, r, next, todo :
          /\ e = job[w0].id /\ r = job[w0].todo[c]
          /\ next = IF Todo(w0) = {c} THEN last ELSE job[w0].next
          /\ todo = [job[w0].todo EXCEPT ![c] = Absent]
    OBVIOUS
  <1>2. JobsTyped /\ TablesTyped /\ e \in Expenses /\ job[w0].row \in ExpenseRow
        /\ job[w0].todo \in [Checks -> CheckRow \cup {Absent}] /\ job[w0].sum \in Int
    BY <1>1 DEF TypeInv, JobsTyped, TypedJob, CheckSteps, Job
  <1>3. NetKnown(job[w0].next, e, job[w0].row, job[w0].todo)
    BY <1>1 DEF NetInv, NetJob
  <1>4. c \in Todo(w0) /\ r \in CheckRow /\ expense' = expense
    BY <1>1, <1>2, SaveCheckForm DEF Todo
  <1>5. /\ check[c] # Absent /\ check[c].spent_on_expense \in {None, e}
        /\ r.spent_on_expense \in {None, e} /\ expense[e] # Absent
    BY <1>1, <1>3, <1>4 DEF NetKnown, Todo
  <1>6. LinkHolds(r.spent_on_expense)
    BY <1>5 DEF LinkHolds
  <1>7. /\ check' = [check EXCEPT ![c] = r]
        /\ Moves(w0, next, job[w0].row, todo, job[w0].sum)
    BY <1>1, <1>2, <1>6, SaveCheckForm
  <1>8. check'[c] = r /\ r # Absent /\ \A d \in Checks \ {c} : check'[d] = check[d]
    BY <1>2, <1>4, <1>7, SentinelAssumption DEF TablesTyped
  <1>9. next \in {"save_checks", "recalculate", "release", "delete"}
    BY <1>1
  <1>10. todo \in [Checks -> CheckRow \cup {Absent}]
         /\ \A d \in Checks : todo[d] # Absent => d # c /\ todo[d] = job[w0].todo[d]
    BY <1>1, <1>2
  <1>11. /\ job'[w0].next = next /\ job'[w0].id = e /\ job'[w0].row = job[w0].row
         /\ job'[w0].todo = todo /\ job'[w0] # Idle
    <2> DEFINE j == [next |-> next, id |-> job[w0].id, row |-> job[w0].row,
                     ids |-> job[w0].ids, todo |-> todo, sum |-> job[w0].sum]
    <2>1. job'[w0] = j
      BY <1>2, <1>7, SoloJob
    <2>2. job[w0] \in Job
      BY <1>2 DEF JobsTyped, TypedJob
    <2>3. j \in Job
      BY <1>9, <1>10, <2>2 DEF Job
    <2>4. j.next = next /\ j.id = job[w0].id /\ j.row = job[w0].row /\ j.todo = todo
      OBVIOUS
    <2> HIDE DEF j
    <2>5. QED
      BY <1>1, <2>1, <2>3, <2>4, SentinelAssumption
  <1>12. LinksExist'
    BY <1>4, <1>6, <1>8 DEF NetInv, LinksExist, LinkHolds
  <1>13. \A d \in Checks : todo[d] # Absent =>
           /\ check'[d] # Absent /\ check'[d].spent_on_expense \in {None, e}
           /\ todo[d].spent_on_expense \in {None, e}
    BY <1>3, <1>8, <1>10 DEF NetKnown
  <1>14. NetJob(job[w0])'
    BY <1>4, <1>5, <1>9, <1>11, <1>13 DEF NetJob, NetKnown, CheckSteps
  <1>15. ASSUME NEW f \in Expenses
         PROVE  (NetOf(f) \/ Recalculating(job[w0], f))'
    <2>1. CASE f = e
      BY <1>9, <1>11, <2>1 DEF Recalculating
    <2>2. CASE f # e
      <3>1. NetOf(f)
        BY <1>1, <2>2 DEF NetInv, Recalculating
      <3>2. f # None
        BY LiquidityAssumption
      <3>3. SameSpent(f)
        BY <1>5, <1>8, <2>2, <3>2 DEF SameSpent, SpentChecks
      <3>4. SpentChecksAmount(f)' = SpentChecksAmount(f)
        BY <3>3, SameSpentAmount
      <3>5. QED
        BY <1>4, <3>1, <3>4 DEF NetOf, NetRow
    <2>3. QED
      BY <2>1, <2>2
  <1>16. QED
    BY <1>12, <1>14, <1>15 DEF NetInv

LEMMA NetStatements ==
  ASSUME TypeInv, TypeInv', NEW w0 \in Workers, NetInv(w0), Statement(w0)
  PROVE  NetInv(w0)'
  <1>1. JobsTyped /\ TablesTyped
    BY DEF TypeInv
  <1>2. job[w0] # Idle
    BY DEF Statement, At, ReadDeposits, ReadWithdrawals, SavePaid,
           CreateWithdrawal, SaveUnpaid, DeleteWithdrawals, ReadChecks, ReadLinked, SaveChecks,
           Recalculate, SaveNet, SaveEdited, ReleaseChecks, DeleteExpense, LoadPatched,
           SavePatched, LoadDeleted, DeleteCheck
  <1>3. PICK e, r : e = job[w0].id /\ r = job[w0].row
    OBVIOUS
  <1>4. NetKnown(job[w0].next, e, r, job[w0].todo)
    BY <1>2, <1>3 DEF NetInv, NetJob
  <1>5. e \in Expenses /\ r \in ExpenseRow
    BY <1>1, <1>2, <1>3, <1>4 DEF JobsTyped, TypedJob, NetKnown
  <1>6. SpentChecksAmount(e) \in Int
    BY <1>5, SpentTyped
  <1>7. Done(w0) => job'[w0] = Idle
    BY <1>1, SoloJob
  <1>8. PICK todo : todo = job[w0].todo
    OBVIOUS
  <1>9. CASE ReadDeposits(w0)
    <2>1. UNCHANGED <<expense, check>> /\ job[w0].next = "deposits"
      BY <1>9 DEF ReadDeposits, tables, At
    <2>2. PICK sum : Moves(w0, "withdrawals", r, todo, sum)
      BY <1>1, <1>3, <1>8, <1>9, ReadDepositsForm
    <2>3. NetKnown("withdrawals", job[w0].id, r, todo)
      BY <1>3, <1>4, <1>8, <2>1 DEF NetKnown, CheckSteps
    <2>4. QED
      BY <1>2, <2>1, <2>2, <2>3, NetMoves DEF RecalculationSteps
  <1>10. CASE ReadWithdrawals(w0)
    <2>1. UNCHANGED <<expense, check>> /\ job[w0].next = "withdrawals"
      BY <1>10 DEF ReadWithdrawals, tables, At
    <2>2. PICK row, sum : row = [r EXCEPT !.is_paid = TRUE] /\ sum = job[w0].sum
      OBVIOUS
    <2>3. Done(w0) \/ Moves(w0, "pay", row, todo, sum)
      BY <1>1, <1>3, <1>8, <1>10, <2>2, ReadWithdrawalsForm
    <2>4. /\ row.amount = r.amount /\ row.initial_amount = r.initial_amount
          /\ row.has_spent_check = r.has_spent_check
      BY <1>5, <2>2 DEF ExpenseRow
    <2>5. NetRow(r, SpentChecksAmount(e)) => NetRow(row, SpentChecksAmount(e))
      BY <2>4 DEF NetRow
    <2>6. NetKnown("pay", job[w0].id, row, todo)
      BY <1>3, <1>4, <1>8, <2>1, <2>5 DEF NetKnown, CheckSteps
    <2>7. CASE Done(w0)
      BY <1>7, <2>1, <2>7, NetDone DEF RecalculationSteps
    <2>8. QED
      BY <1>2, <2>1, <2>3, <2>6, <2>7, NetMoves DEF RecalculationSteps
  <1>11. CASE SavePaid(w0) \/ SaveUnpaid(w0) \/ SaveNet(w0)
    BY <1>2, <1>11, NetSaves DEF SavePaid, SaveUnpaid, SaveNet, At
  <1>12. CASE CreateWithdrawal(w0) \/ DeleteWithdrawals(w0)
    <2>1. /\ UNCHANGED <<expense, check>> /\ Done(w0)
          /\ job[w0].next \in {"withdraw", "refund"}
      BY <1>12 DEF CreateWithdrawal, DeleteWithdrawals, At
    <2>2. QED
      BY <1>7, <2>1, NetDone DEF RecalculationSteps
  <1>13. CASE ReadChecks(w0)
    <2>1. UNCHANGED <<expense, check>> /\ job[w0].next = "read_checks"
      BY <1>13 DEF ReadChecks, tables, At
    <2>2. PICK next, taken, sum :
            /\ next = IF job[w0].ids = {} THEN "recalculate" ELSE "save_checks"
            /\ taken = Taken(w0) /\ sum = job[w0].sum
      OBVIOUS
    <2>3. Done(w0) \/ (Spendable(job[w0].ids, job[w0].id) /\ Moves(w0, next, r, taken, sum))
      BY <1>1, <1>3, <1>13, <2>2, ReadChecksForm
    <2>4. ASSUME Spendable(job[w0].ids, e), NEW c \in Checks, taken[c] # Absent
          PROVE  /\ check[c] # Absent /\ check[c].spent_on_expense \in {None, e}
                 /\ taken[c].spent_on_expense \in {None, e}
      <3>1. c \in job[w0].ids /\ taken[c] = SpentOn(e, check[c])
        BY <1>3, <2>2, <2>4 DEF Taken
      <3>2. check[c] # Absent /\ check[c].spent_on_expense \in {None, e}
        BY <2>4, <3>1 DEF Spendable
      <3>3. check[c] \in CheckRow
        BY <1>1, <3>2 DEF TablesTyped
      <3>4. taken[c].spent_on_expense = e
        BY <3>1, <3>3 DEF SpentOn, CheckRow
      <3>5. QED
        BY <3>2, <3>4
    <2>5. next \in {"recalculate", "save_checks"}
      BY <2>2
    <2>6. Spendable(job[w0].ids, e) => NetKnown(next, job[w0].id, r, taken)
      BY <1>3, <1>4, <2>4, <2>5 DEF NetKnown, CheckSteps
    <2>7. CASE Done(w0)
      BY <1>7, <2>1, <2>7, NetDone DEF RecalculationSteps
    <2>8. CASE Moves(w0, next, r, taken, sum) /\ Spendable(job[w0].ids, e)
      BY <1>2, <2>1, <2>6, <2>8, NetMoves DEF RecalculationSteps
    <2>9. QED
      BY <1>3, <2>3, <2>7, <2>8
  <1>14. CASE ReadLinked(w0)
    <2>1. UNCHANGED <<expense, check>> /\ job[w0].next = "read_linked"
      BY <1>14 DEF ReadLinked, tables, At
    <2>2. PICK taken, sum : taken = AllReturned(job[w0].ids) /\ sum = job[w0].sum
      OBVIOUS
    <2>3. Done(w0) \/ (job[w0].ids \subseteq SpentChecks(e) /\ Moves(w0, "save_checks", r, taken, sum))
      BY <1>1, <1>3, <1>14, <2>2, ReadLinkedForm
    <2>4. ASSUME job[w0].ids \subseteq SpentChecks(e), NEW c \in Checks, taken[c] # Absent
          PROVE  /\ check[c] # Absent /\ check[c].spent_on_expense \in {None, e}
                 /\ taken[c].spent_on_expense \in {None, e}
      <3>1. c \in job[w0].ids /\ taken[c] = Returned(check[c])
        BY <2>2, <2>4 DEF AllReturned
      <3>2. check[c] # Absent /\ check[c].spent_on_expense = e
        BY <2>4, <3>1 DEF SpentChecks
      <3>3. check[c] \in CheckRow
        BY <1>1, <3>2 DEF TablesTyped
      <3>4. taken[c].spent_on_expense = None
        BY <3>1, <3>3 DEF Returned, CheckRow
      <3>5. QED
        BY <3>2, <3>4
    <2>5. job[w0].ids \subseteq SpentChecks(e) => NetKnown("save_checks", job[w0].id, r, taken)
      BY <1>3, <1>4, <2>4 DEF NetKnown, CheckSteps
    <2>6. CASE Done(w0)
      BY <1>7, <2>1, <2>6, NetDone DEF RecalculationSteps
    <2>7. CASE Moves(w0, "save_checks", r, taken, sum) /\ job[w0].ids \subseteq SpentChecks(e)
      BY <1>2, <2>1, <2>5, <2>7, NetMoves DEF RecalculationSteps
    <2>8. QED
      BY <2>3, <2>6, <2>7
  <1>15. CASE SaveChecks(w0) \/ ReleaseChecks(w0)
    BY <1>2, <1>15, NetSavesCheck DEF SaveChecks, ReleaseChecks, At
  <1>16. CASE Recalculate(w0)
    <2>1. UNCHANGED <<expense, check>> /\ job[w0].next = "recalculate"
      BY <1>16 DEF Recalculate, tables, At
    <2>2. PICK spent, row, sum : /\ spent = SpentChecksAmount(e) /\ row = Recalculated(r, spent)
                                 /\ sum = job[w0].sum
      OBVIOUS
    <2>3. Moves(w0, "save_net", row, todo, sum)
      BY <1>1, <1>3, <1>8, <1>16, <2>2, RecalculateForm
    <2>4. /\ row \in ExpenseRow /\ row.initial_amount = r.initial_amount
          /\ row.amount = Net(r.initial_amount, spent) /\ row.has_spent_check = (spent > 0)
      BY <1>5, <1>6, <2>2, RecalculatedFields
    <2>5. row.has_spent_check <=> spent > 0
      BY <2>4, Zenon
    <2>6. NetRow(row, SpentChecksAmount(e))
      BY <2>2, <2>4, <2>5 DEF NetRow
    <2>7. NetKnown("save_net", job[w0].id, row, todo)
      BY <1>3, <1>4, <1>8, <2>1, <2>6 DEF NetKnown, CheckSteps
    <2>8. job'[w0] # Idle
      <3> DEFINE j == [next |-> "save_net", id |-> job[w0].id, row |-> row,
                       ids |-> job[w0].ids, todo |-> todo, sum |-> sum]
      <3>1. job'[w0] = j
        BY <1>1, <2>3, SoloJob
      <3>2. job[w0] \in Job
        BY <1>1, <1>2 DEF JobsTyped, TypedJob
      <3>3. j \in Job
        BY <1>8, <2>2, <2>4, <3>2 DEF Job
      <3> HIDE DEF j
      <3>4. QED
        BY <3>1, <3>3, SentinelAssumption
    <2>9. QED
      BY <1>2, <2>1, <2>3, <2>7, <2>8, NetMoves DEF RecalculationSteps
  <1>17. CASE DeleteExpense(w0)
    <2>1. /\ expense' = [expense EXCEPT ![e] = Absent] /\ Done(w0)
          /\ check' = [c \in Checks |-> IF c \in SpentChecks(e)
                         THEN [check[c] EXCEPT !.spent_on_expense = None] ELSE check[c]]
      BY <1>3, <1>17, Zenon DEF DeleteExpense
    <2>2. expense'[e] = Absent /\ \A f \in Expenses \ {e} : expense'[f] = expense[f]
      BY <1>1, <1>5, <2>1 DEF TablesTyped
    <2>3. ASSUME NEW c \in Checks
          PROVE  IF c \in SpentChecks(e)
                 THEN check'[c] # Absent /\ check'[c].spent_on_expense = None
                 ELSE check'[c] = check[c]
      <3>1. CASE c \in SpentChecks(e)
        <4>1. check[c] \in CheckRow /\ check'[c] = [check[c] EXCEPT !.spent_on_expense = None]
          BY <1>1, <2>1, <3>1 DEF SpentChecks, TablesTyped
        <4>2. check'[c] \in CheckRow /\ check'[c].spent_on_expense = None
          BY <4>1 DEF CheckRow
        <4>3. QED
          BY <3>1, <4>2, SentinelAssumption
      <3>2. QED
        BY <2>1, <3>1
    <2>4. LinksExist'
      <3>1. SUFFICES ASSUME NEW c \in Checks, check'[c] # Absent, check'[c].spent_on_expense # None
                     PROVE  expense'[check'[c].spent_on_expense] # Absent
        BY DEF LinksExist, LinkHolds
      <3>2. c \notin SpentChecks(e) /\ check'[c] = check[c]
        BY <2>3, <3>1
      <3>3. PICK f : f = check[c].spent_on_expense
        OBVIOUS
      <3>4. f # e /\ f \in Expenses /\ expense[f] # Absent
        BY <1>1, <3>1, <3>2, <3>3 DEF SpentChecks, NetInv, LinksExist, LinkHolds, TablesTyped, CheckRow
      <3>5. QED
        BY <2>2, <3>2, <3>3, <3>4
    <2>5. ASSUME NEW f \in Expenses
          PROVE  NetOf(f)'
      <3>1. CASE f = e
        BY <2>2, <3>1 DEF NetOf
      <3>2. CASE f # e
        <4>1. NetOf(f)
          BY <1>3, <3>2 DEF NetInv, Recalculating
        <4>2. f # None
          BY LiquidityAssumption
        <4>3. SameSpent(f)
          BY <2>3, <3>2, <4>2 DEF SameSpent, SpentChecks
        <4>4. SpentChecksAmount(f)' = SpentChecksAmount(f)
          BY <4>3, SameSpentAmount
        <4>5. QED
          BY <2>2, <3>2, <4>1, <4>4 DEF NetOf, NetRow
      <3>3. QED
        BY <3>1, <3>2
    <2>6. NetJob(job[w0])'
      BY <1>7, <2>1 DEF NetJob
    <2>7. QED
      BY <2>4, <2>5, <2>6 DEF NetInv
  <1>18. ~(SaveEdited(w0) \/ LoadPatched(w0) \/ SavePatched(w0) \/ LoadDeleted(w0) \/ DeleteCheck(w0))
    BY <1>4 DEF SaveEdited, LoadPatched, SavePatched, LoadDeleted, DeleteCheck, At, NetKnown, CheckSteps
  <1>19. QED
    BY <1>9, <1>10, <1>11, <1>12, <1>13, <1>14, <1>15, <1>16, <1>17, <1>18 DEF Statement

\* A handler of a stored expense begins.
LEMMA NetBegins ==
  ASSUME TypeInv, TypeInv', NEW w0 \in Workers, NetInv(w0), UNCHANGED <<expense, check>>,
         NEW e, NEW endpoint, NEW next, NEW r, NEW ids, NEW todo,
         Begins(w0, endpoint, next, e, r, ids, todo), NetKnown(next, e, r, todo), e \in Expenses
  PROVE  NetInv(w0)'
  <1>1. job'[w0] = [next |-> next, id |-> e, row |-> r, ids |-> ids, todo |-> todo, sum |-> 0]
    BY SoloJob DEF TypeInv, Begins
  <1>2. /\ job'[w0].next = next /\ job'[w0].id = e
        /\ job'[w0].row = r /\ job'[w0].todo = todo
    BY <1>1
  <1>3. \A f \in Expenses : SpentChecksAmount(f)' = SpentChecksAmount(f)
    BY SameSpentAmounts DEF SameSpent, SpentChecks
  <1>4. NetJob(job[w0])'
    <2>1. NetRow(r, SpentChecksAmount(e)) => NetRow(r, SpentChecksAmount(e)')
      BY <1>3
    <2>2. QED
      BY <1>2, <2>1 DEF NetJob, NetKnown, NetRow
  <1>5. LinksExist'
    BY DEF NetInv, LinksExist, LinkHolds
  <1>6. ASSUME NEW f \in Expenses
        PROVE  NetOf(f)'
    <2>1. NetOf(f)
      BY DEF NetInv, Recalculating, Begins
    <2>2. QED
      BY <1>3, <2>1 DEF NetOf, NetRow
  <1>7. QED
    BY <1>4, <1>5, <1>6 DEF NetInv

\* The cheques keep their expenses and their amounts; the handler does not move.
LEMMA NetQuiet ==
  ASSUME TypeInv, TypeInv', NEW w0 \in Workers, NetInv(w0), expense' = expense, job' = job,
         \A e \in Expenses : SameSpent(e), LinksExist',
         \A c \in Checks : check[c] # Absent =>
           check'[c] # Absent /\ check'[c].spent_on_expense = check[c].spent_on_expense
  PROVE  NetInv(w0)'
  <1>1. \A f \in Expenses : SpentChecksAmount(f)' = SpentChecksAmount(f)
    BY SameSpentAmounts
  <1>2. NetJob(job[w0])'
    <2>1. SUFFICES ASSUME job[w0] # Idle
                   PROVE  NetKnown(job[w0].next, job[w0].id, job[w0].row, job[w0].todo)'
      BY DEF NetJob
    <2>2. PICK e, next, r, todo : /\ e = job[w0].id /\ next = job[w0].next
                                  /\ r = job[w0].row /\ todo = job[w0].todo
      OBVIOUS
    <2>3. NetKnown(next, e, r, todo)
      BY <2>1, <2>2 DEF NetInv, NetJob
    <2>4. e \in Expenses
      BY <2>1, <2>2, <2>3 DEF TypeInv, JobsTyped, TypedJob, NetKnown
    <2>5. NetRow(r, SpentChecksAmount(e)) => NetRow(r, SpentChecksAmount(e)')
      BY <1>1, <2>4
    <2>6. NetKnown(next, e, r, todo)'
      BY <2>1, <2>2, <2>3, <2>5 DEF NetKnown, NetRow
    <2>7. QED
      BY <2>2, <2>6
  <1>3. ASSUME NEW f \in Expenses
        PROVE  (NetOf(f) \/ Recalculating(job[w0], f))'
    <2>1. NetOf(f) => NetOf(f)'
      BY <1>1 DEF NetOf, NetRow
    <2>2. NetOf(f) \/ Recalculating(job[w0], f)
      BY DEF NetInv
    <2>3. QED
      BY <2>1, <2>2 DEF Recalculating
  <1>4. QED
    BY <1>2, <1>3 DEF NetInv

\* A cheque that belongs to no expense comes into the table; no handler holds it.
LEMMA NetCreatesCheck ==
  ASSUME TypeInv, TypeInv', NEW w0 \in Workers, NetInv(w0), LinkInputs = {},
         NEW c \in Checks, CreateCheck(c)
  PROVE  NetInv(w0)'
  <1>1. TablesTyped
    BY DEF TypeInv
  <1>2. /\ check[c] = Absent /\ expense' = expense /\ job' = job
        /\ job[w0] # Idle => c \notin Todo(w0)
        /\ \A d \in Checks \ {c} : check'[d] = check[d]
    BY <1>1 DEF CreateCheck, TablesTyped
  <1>3. check'[c].spent_on_expense = None
    <2>1. PICK amount \in Amounts, due_date \in 0..LastDay,
               status \in StatusInputs \cup {"PENDING"}, e \in LinkInputs \cup {None} :
            check' = [check EXCEPT ![c] = [amount |-> amount, due_date |-> due_date,
                                           status |-> status, spent_on_expense |-> e]]
      BY Zenon DEF CreateCheck
    <2>2. check'[c] = [amount |-> amount, due_date |-> due_date,
                       status |-> status, spent_on_expense |-> e]
      BY <1>1, <2>1 DEF TablesTyped
    <2>3. QED
      BY <2>2
  <1>4. ASSUME NEW e \in Expenses
        PROVE  SameSpent(e)
    <2>1. e # None
      BY LiquidityAssumption
    <2>2. SpentChecks(e)' = SpentChecks(e)
      BY <1>2, <1>3, <2>1 DEF SpentChecks
    <2>3. QED
      BY <1>2, <2>2 DEF SameSpent, SpentChecks
  <1>5. LinksExist'
    BY <1>2, <1>3 DEF NetInv, LinksExist, LinkHolds
  <1>6. \A d \in Checks : check[d] # Absent =>
          check'[d] # Absent /\ check'[d].spent_on_expense = check[d].spent_on_expense
    BY <1>2
  <1>7. QED
    BY <1>2, <1>4, <1>5, <1>6, NetQuiet

\* sync_overdue_checks() touches neither links nor amounts.
LEMMA SyncKeepsNet ==
  ASSUME TypeInv, LinksExist, expense' = expense, check' = Synced
  PROVE  /\ \A e \in Expenses : SameSpent(e)
         /\ LinksExist'
         /\ \A c \in Checks : check[c] # Absent =>
              check'[c] # Absent /\ check'[c].spent_on_expense = check[c].spent_on_expense
  <1>1. TablesTyped
    BY DEF TypeInv
  <1>2. ASSUME NEW c \in Checks
        PROVE  /\ check'[c] = Absent <=> check[c] = Absent
               /\ check[c] # Absent => /\ check'[c].spent_on_expense = check[c].spent_on_expense
                                       /\ check'[c].amount = check[c].amount
    <2>1. check'[c] = IF check[c] # Absent /\ check[c].status = "PENDING" /\ check[c].due_date < today
                      THEN [check[c] EXCEPT !.status = "UNPAID"] ELSE check[c]
      BY DEF Synced
    <2>2. CASE check[c] # Absent /\ check[c].status = "PENDING" /\ check[c].due_date < today
      <3>1. check[c] \in CheckRow /\ check'[c] = [check[c] EXCEPT !.status = "UNPAID"]
        BY <1>1, <2>1, <2>2 DEF TablesTyped
      <3>2. /\ check'[c] \in CheckRow
            /\ check'[c].spent_on_expense = check[c].spent_on_expense
            /\ check'[c].amount = check[c].amount
        BY <3>1 DEF CheckRow, CheckStatuses
      <3>3. QED
        BY <2>2, <3>2, SentinelAssumption
    <2>3. QED
      BY <2>1, <2>2
  <1>3. QED
    BY <1>2 DEF SameSpent, SpentChecks, LinksExist, LinkHolds

\* A new expense has its full amount, and no cheque is spent on it.
LEMMA NetNewExpense ==
  ASSUME TypeInv, TypeInv', NEW w0 \in Workers, NetInv(w0), NEW e \in Expenses,
         NEW category \in Categories, NEW amount \in Amounts, expense[e] = Absent,
         expense' = [expense EXCEPT ![e] = NewExpense(category, amount)], check' = check
  PROVE  /\ LinksExist' /\ NetOf(e)' /\ expense'[e] # Absent
         /\ \A f \in Expenses \ {e} : expense'[f] = expense[f]
         /\ \A f \in Expenses : SpentChecksAmount(f)' = SpentChecksAmount(f)
  <1>1. TablesTyped
    BY DEF TypeInv
  <1>2. PICK r : r = NewExpense(category, amount)
    OBVIOUS
  <1>3. /\ expense'[e] = r
        /\ \A f \in Expenses \ {e} : expense'[f] = expense[f]
    BY <1>1, <1>2 DEF TablesTyped
  <1>4. amount \in Int
    BY LiquidityAssumption
  <1>5. r \in ExpenseRow
    BY <1>2, <1>4 DEF NewExpense, ExpenseRow
  <1>6. /\ r.amount = amount /\ r.initial_amount = amount
        /\ r.has_spent_check = FALSE
    BY <1>2 DEF NewExpense
  <1>7. expense'[e] # Absent
    BY <1>3, <1>5, SentinelAssumption
  <1>8. LinksExist'
    BY <1>1, <1>3, <1>7 DEF NetInv, LinksExist, LinkHolds, TablesTyped, CheckRow
  <1>9. \A f \in Expenses : SpentChecksAmount(f)' = SpentChecksAmount(f)
    BY SameSpentAmounts DEF SameSpent, SpentChecks
  <1>10. SpentChecksAmount(e) = 0
    <2>1. SpentChecks(e) = {}
      <3>1. e # None
        BY LiquidityAssumption
      <3>2. QED
        BY <3>1 DEF SpentChecks, NetInv, LinksExist, LinkHolds
    <2>2. SpentChecksAmount(e) = Total({}, [c \in {} |-> check[c].amount])
      BY <2>1, SpentTyped, SpentChecksAmountIs
    <2>3. QED
      BY <2>2, TotalOfNothing
  <1>11. NetOf(e)'
    <2>1. NetRow(r, 0)
      BY <1>6 DEF NetRow
    <2>2. NetRow(expense'[e], SpentChecksAmount(e)')
      BY <1>3, <1>9, <1>10, <2>1
    <2>3. QED
      BY <2>2 DEF NetOf, NetRow
  <1>12. QED
    BY <1>3, <1>7, <1>8, <1>9, <1>11

LEMMA NetCreates ==
  ASSUME TypeInv, TypeInv', NEW w0 \in Workers, NetInv(w0), NEW e \in Expenses,
         CreateExpense(e) \/ CreateWithChecks(w0, e)
  PROVE  NetInv(w0)'
  <1>0. PICK category \in Categories, amount \in Amounts :
          \E r :
            /\ r = NewExpense(category, amount)
            /\ expense' = [expense EXCEPT ![e] = r]
            /\ \/ job' = job
               \/ \E endpoint, ids : Begins(w0, endpoint, "read_checks", e, r, ids, NoChecks)
    <2>1. CASE CreateExpense(e)
      BY <2>1, Zenon DEF CreateExpense
    <2>2. CASE CreateWithChecks(w0, e)
      BY <2>2, Zenon DEF CreateWithChecks
    <2>3. QED
      BY <2>1, <2>2
  <1>1. PICK r :
          /\ r = NewExpense(category, amount)
          /\ expense' = [expense EXCEPT ![e] = r]
          /\ \/ job' = job
             \/ \E endpoint, ids : Begins(w0, endpoint, "read_checks", e, r, ids, NoChecks)
    BY <1>0
  <1>2. check' = check /\ FreshExpense(e)
    BY DEF CreateExpense, CreateWithChecks
  <1>3. /\ LinksExist' /\ NetOf(e)' /\ expense'[e] # Absent
        /\ \A f \in Expenses \ {e} : expense'[f] = expense[f]
        /\ \A f \in Expenses : SpentChecksAmount(f)' = SpentChecksAmount(f)
    BY <1>1, <1>2, NetNewExpense DEF FreshExpense
  <1>4. ASSUME NEW f \in Expenses
        PROVE  NetOf(f) => NetOf(f)'
    BY <1>3 DEF NetOf, NetRow
  <1>5. CASE job' = job
    <2>1. NetJob(job[w0])'
      <3>1. SUFFICES ASSUME job[w0] # Idle
                     PROVE  NetKnown(job[w0].next, job[w0].id, job[w0].row, job[w0].todo)'
        BY <1>5 DEF NetJob
      <3>2. PICK f, next, row, todo : /\ f = job[w0].id /\ next = job[w0].next
                                      /\ row = job[w0].row /\ todo = job[w0].todo
        OBVIOUS
      <3>3. NetKnown(next, f, row, todo)
        BY <3>1, <3>2 DEF NetInv, NetJob
      <3>4. f \in Expenses /\ f # e
        BY <1>2, <3>1, <3>2, <3>3 DEF TypeInv, JobsTyped, TypedJob, NetKnown, FreshExpense
      <3>5. NetRow(row, SpentChecksAmount(f)) => NetRow(row, SpentChecksAmount(f)')
        BY <1>3, <3>4
      <3>6. NetKnown(next, f, row, todo)'
        BY <1>2, <1>3, <3>3, <3>4, <3>5 DEF NetKnown, NetRow
      <3>7. QED
        BY <1>5, <3>2, <3>6
    <2>2. ASSUME NEW f \in Expenses
          PROVE  (NetOf(f) \/ Recalculating(job[w0], f))'
      <3>1. NetOf(f) \/ Recalculating(job[w0], f)
        BY DEF NetInv
      <3>2. QED
        BY <1>4, <1>5, <3>1 DEF Recalculating
    <2>3. QED
      BY <1>3, <2>1, <2>2 DEF NetInv
  <1>6. ASSUME NEW endpoint, NEW ids, Begins(w0, endpoint, "read_checks", e, r, ids, NoChecks)
        PROVE  NetInv(w0)'
    <2>1. job'[w0] = [next |-> "read_checks", id |-> e, row |-> r, ids |-> ids,
                      todo |-> NoChecks, sum |-> 0]
      BY <1>6, SoloJob DEF TypeInv, Begins
    <2>2. /\ job'[w0].next = "read_checks" /\ job'[w0].id = e /\ job'[w0].todo = NoChecks
      BY <2>1
    <2>3. NetJob(job[w0])'
      BY <1>3, <2>2 DEF NetJob, NetKnown, NoChecks, CheckSteps
    <2>4. \A f \in Expenses : NetOf(f)'
      BY <1>4, <1>6 DEF NetInv, Recalculating, Begins
    <2>5. QED
      BY <1>3, <2>3, <2>4 DEF NetInv
  <1>7. QED
    BY <1>1, <1>5, <1>6

LEMMA NetLoads ==
  ASSUME TypeInv, TypeInv', NEW w0 \in Workers, NetInv(w0), NEW e \in Expenses,
         \/ ConfirmLoad(w0, e) \/ UnconfirmLoad(w0, e) \/ SpendLoad(w0, e)
         \/ RemoveLoad(w0, e) \/ DestroyLoad(w0, e)
  PROVE  NetInv(w0)'
  <1>1. TablesTyped
    BY DEF TypeInv
  <1>2. UNCHANGED <<expense, check>> /\ expense[e] # Absent /\ job[w0] = Idle
    BY DEF ConfirmLoad, UnconfirmLoad, SpendLoad, RemoveLoad, DestroyLoad, Loads, Begins, tables
  <1>3. NetRow(expense[e], SpentChecksAmount(e))
    BY <1>2 DEF NetInv, NetOf, Recalculating
  <1>4. \A c \in Checks : NoChecks[c] = Absent
    BY DEF NoChecks
  <1>5. CASE ConfirmLoad(w0, e)
    <2>1. Begins(w0, "confirm", "deposits", e, expense[e], None, NoChecks)
      BY <1>5 DEF ConfirmLoad, Loads
    <2>2. NetKnown("deposits", e, expense[e], NoChecks)
      BY <1>2, <1>3, <1>4 DEF NetKnown, CheckSteps
    <2>3. QED
      BY <1>2, <2>1, <2>2, NetBegins
  <1>6. CASE UnconfirmLoad(w0, e)
    <2>1. PICK r : r = [expense[e] EXCEPT !.is_paid = FALSE]
      OBVIOUS
    <2>2. Begins(w0, "unconfirm", "unpay", e, r, None, NoChecks)
      BY <1>6, <2>1 DEF UnconfirmLoad
    <2>3. expense[e] \in ExpenseRow
      BY <1>1, <1>2 DEF TablesTyped
    <2>4. /\ r.amount = expense[e].amount /\ r.initial_amount = expense[e].initial_amount
          /\ r.has_spent_check = expense[e].has_spent_check
      BY <2>1, <2>3 DEF ExpenseRow
    <2>5. NetRow(r, SpentChecksAmount(e))
      BY <1>3, <2>4 DEF NetRow
    <2>6. NetKnown("unpay", e, r, NoChecks)
      BY <1>2, <1>4, <2>5 DEF NetKnown, CheckSteps
    <2>7. QED
      BY <1>2, <2>2, <2>6, NetBegins
  <1>7. CASE SpendLoad(w0, e) \/ RemoveLoad(w0, e)
    <2>1. PICK endpoint, next, ids : /\ next \in {"read_checks", "read_linked"}
                                     /\ Begins(w0, endpoint, next, e, expense[e], ids, NoChecks)
      <3>1. CASE SpendLoad(w0, e)
        <4>1. \E ids : Begins(w0, "spend", "read_checks", e, expense[e], ids, NoChecks)
          BY <3>1, Zenon DEF SpendLoad, Loads
        <4>2. QED
          BY <4>1
      <3>2. CASE RemoveLoad(w0, e)
        <4>1. \E ids : Begins(w0, "remove", "read_linked", e, expense[e], ids, NoChecks)
          BY <3>2, Zenon DEF RemoveLoad, Loads
        <4>2. QED
          BY <4>1
      <3>3. QED
        BY <1>7, <3>1, <3>2
    <2>2. NetKnown(next, e, expense[e], NoChecks)
      BY <1>2, <1>4, <2>1 DEF NetKnown, CheckSteps
    <2>3. QED
      BY <1>2, <2>1, <2>2, NetBegins
  <1>8. CASE DestroyLoad(w0, e)
    <2>1. PICK next, todo : /\ next \in {"delete", "release"}
                            /\ todo = AllReturned(SpentChecks(e))
                            /\ Begins(w0, "destroy", next, e, expense[e], None, todo)
      BY <1>8 DEF DestroyLoad
    <2>2. ASSUME NEW c \in Checks, todo[c] # Absent
          PROVE  /\ check[c] # Absent /\ check[c].spent_on_expense \in {None, e}
                 /\ todo[c].spent_on_expense \in {None, e}
      <3>1. c \in SpentChecks(e) /\ todo[c] = Returned(check[c])
        BY <2>1, <2>2 DEF AllReturned
      <3>2. check[c] # Absent /\ check[c].spent_on_expense = e
        BY <3>1 DEF SpentChecks
      <3>3. check[c] \in CheckRow
        BY <1>1, <3>2 DEF TablesTyped
      <3>4. todo[c].spent_on_expense = None
        BY <3>1, <3>3 DEF Returned, CheckRow
      <3>5. QED
        BY <3>2, <3>4
    <2>3. NetKnown(next, e, expense[e], todo)
      BY <1>2, <2>1, <2>2 DEF NetKnown, CheckSteps
    <2>4. QED
      BY <1>2, <2>1, <2>3, NetBegins
  <1>9. QED
    BY <1>5, <1>6, <1>7, <1>8

LEMMA NetInductive ==
  ASSUME NEW w0, Workers = {w0}, RecalculatedAlways
  PROVE  TypeInv /\ TypeInv' /\ NetInv(w0) /\ [Next]_vars => NetInv(w0)'
  <1> SUFFICES ASSUME TypeInv, TypeInv', NetInv(w0), [Next]_vars
               PROVE  NetInv(w0)'
    OBVIOUS
  <1>1. w0 \in Workers
    OBVIOUS
  <1>2. CASE Statement(w0)
    BY <1>1, <1>2, NetStatements
  <1>3. ASSUME NEW e \in Expenses, ExpenseRequest(w0, e)
        PROVE  NetInv(w0)'
    <2>1. ~UpdateLoad(w0, e)
      BY DEF UpdateLoad, Begins, RecalculatedAlways
    <2>2. QED
      BY <1>1, <1>3, <2>1, NetLoads, NetCreates DEF ExpenseRequest
  <1>4. ASSUME NEW e \in Expenses, CreateExpense(e)
        PROVE  NetInv(w0)'
    BY <1>1, <1>4, NetCreates
  <1>5. ASSUME NEW c \in Checks, CreateCheck(c)
        PROVE  NetInv(w0)'
    BY <1>1, <1>5, NetCreatesCheck DEF RecalculatedAlways
  <1>6. CASE ListChecks
    BY <1>1, <1>6, SyncKeepsNet, NetQuiet DEF ListChecks, NetInv
  <1>7. CASE \/ \E t \in Transactions : DeleteTransaction(t)
             \/ AddCardTransaction \/ Tick \/ UNCHANGED vars
    <2>1. expense' = expense /\ check' = check /\ job' = job
      BY <1>7 DEF DeleteTransaction, AddCardTransaction, Tick, vars, tables
    <2>2. (\A e \in Expenses : SameSpent(e)) /\ LinksExist'
      BY <2>1 DEF SameSpent, SpentChecks, NetInv, LinksExist, LinkHolds
    <2>3. QED
      BY <1>1, <2>1, <2>2, NetQuiet
  <1>8. \A c \in Checks : ~CheckRequest(w0, c)
    BY DEF CheckRequest, Begins, RecalculatedAlways
  <1>9. ~Crash(w0)
    BY DEF Crash, RecalculatedAlways
  <1>10. QED
    BY <1>2, <1>3, <1>4, <1>5, <1>6, <1>7, <1>8, <1>9 DEF Next

\* models.py:1533: with one worker that is not killed, and as long as clients neither edit an
\* expense nor patch or delete a cheque nor link one by hand, the amount of every expense is
\* what its spent cheques leave of the initial amount whenever no handler is running.
THEOREM OneWorkerKeepsNetAmounts ==
  ASSUME NEW w0, Workers = {w0}, RecalculatedAlways
  PROVE  Spec => []NetOfSpentChecks
  <1>1. TypeInv /\ TypeInv' /\ NetInv(w0) /\ [Next]_vars => NetInv(w0)'
    BY NetInductive
  <1>2. NetInv(w0) => NetOfSpentChecks
    <2> SUFFICES ASSUME NetInv(w0), AtRest, NEW e \in Expenses, expense[e] # Absent
                 PROVE  NetRow(expense[e], SpentChecksAmount(e))
      BY DEF NetOfSpentChecks, NetRow
    <2>1. job[w0] = Idle
      BY DEF AtRest
    <2>2. QED
      BY <2>1 DEF NetInv, NetOf, Recalculating
  <1>3. Init => NetInv(w0)
    BY DEF Init, NetInv, LinksExist, NetOf, NetJob
  <1>4. QED
    BY <1>1, <1>2, <1>3, TypeInitially, TypeInductive, PTL DEF Spec
=============================================================================
