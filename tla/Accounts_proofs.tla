--------------------------- MODULE Accounts_proofs ---------------------------
(***************************************************************************)
(* For any users, names and workers: the columns of an account stay        *)
(* coherent, nobody comes to report to a deleted user and no deleted user  *)
(* comes back, but by a request that the deletion (or return) overtook.    *)
(***************************************************************************)
EXTENDS Accounts, TLAPS

\* A row that every handler can deal with.
Good(r) ==
  /\ r \in UserRow
  /\ r.is_deleted <=> r.original_username # None
  /\ r.username \in DeletedNames => r.is_deleted

\* w's request may name s as a superior: s is not deleted, or was deleted since.
Justified(w, s) == s \in Users /\ (Live(s) \/ <<w, s>> \in overtaken)

\* A row that w read says what the table says about the deletion of u, or was overtaken.
Agrees(w, u, r) == (Live(u) <=> ~r.is_deleted) \/ <<w, u>> \in overtaken

\* What w's request holds.  Saves and deletions need more of it than Coherent says of the
\* table: the row may be written long after it was read.
Sound(w, j) ==
  /\ j.id \in Users
  /\ j.next \in {"save", "set"} => \A s \in j.superiors : Justified(w, s)
  /\ j.next = "save" => Good(j.row) /\ Agrees(w, j.id, j.row)
  /\ j.next = "destroy" => j.row.username \in Names
  /\ j.next = "restore" => j.row.original_username \in Names

Tables ==
  /\ user = [u \in Users |-> user[u]]
  /\ superiors = [u \in Users |-> superiors[u]]
  /\ job = [w \in Workers |-> job[w]]

AccountsInv ==
  /\ Tables
  /\ \A u \in Users : Stored(u) => Good(user[u])
  /\ \A w \in Workers : job[w] # Idle => Sound(w, job[w])

-----------------------------------------------------------------------------
\* A request that writes no table keeps the invariant if what it then holds is sound.
LEMMA JobsOnly ==
  ASSUME AccountsInv, UNCHANGED <<user, superiors, overtaken>>, NEW w \in Workers, NEW j,
         j = Idle \/ Sound(w, j), job' = [job EXCEPT ![w] = j]
  PROVE  AccountsInv'
BY DEF AccountsInv, Tables, Sound, Good, Agrees, Justified, Live, Stored

\* What another request holds stays sound if the step changes the deletion of no user it
\* is about, or marks the request as overtaken.
LEMMA OtherSound ==
  ASSUME NEW v \in Workers, NEW j, Sound(v, j),
         \A x \in Users : /\ <<v, x>> \in overtaken => <<v, x>> \in overtaken'
                          /\ \/ Live(x)' <=> Live(x)
                             \/ <<v, x>> \in overtaken'
                             \/ x # j.id /\ (j.next \in {"save", "set"} => x \notin j.superiors)
  PROVE  Sound(v, j)'
<1>1. j.next \in {"save", "set"} => \A s \in j.superiors : Justified(v, s)'
  BY DEF Sound, Justified
<1>2. j.next = "save" => Agrees(v, j.id, j.row)'  BY DEF Sound, Agrees
<1> QED  BY <1>1, <1>2 DEF Sound, Good

\* So it is enough for a write to look at the rows of the table and at its own worker.
LEMMA WriteKeeps ==
  ASSUME AccountsInv, Tables', NEW w \in Workers, NEW S \in SUBSET Users, NEW g \in BOOLEAN,
         Overtake(w, S, g), \A x \in Users \ S : Live(x)' <=> Live(x),
         \A v \in Workers \ {w} : job'[v] = job[v],
         job'[w] = Idle \/ Sound(w, job[w])',
         \A u \in Users : Stored(u)' => Good(user[u])'
  PROVE  AccountsInv'
<1>1. ASSUME NEW v \in Workers \ {w}, job[v] # Idle PROVE Sound(v, job[v])'
  <2>1. Sound(v, job[v]) /\ job'[v] = job[v]  BY <1>1 DEF AccountsInv
  <2>2. \A x \in Users : <<v, x>> \in overtaken => <<v, x>> \in overtaken'
    BY DEF Overtake
  <2>3. \A x \in S : <<v, x>> \in overtaken'  BY <1>1 DEF Overtake
  <2> PICK j : j = job[v]  OBVIOUS
  <2>4. Sound(v, j)'  BY <2>1, <2>2, <2>3, OtherSound
  <2> QED  BY <2>1, <2>4 DEF Sound, Good, Agrees, Justified
<1> QED  BY <1>1 DEF AccountsInv

\* Reading a user for an edit: the row agrees with the table.
LEMMA LoadUserSound ==
  ASSUME AccountsInv, NEW w \in Workers, NEW u \in Users, NEW n \in NameInputs(u),
         NEW active \in BOOLEAN, Stored(u)
  PROVE  LET r == [user[u] EXCEPT !.username = n, !.is_active = active]
         IN  Good(r) /\ Agrees(w, u, r)
<1> DEFINE r1 == [user[u] EXCEPT !.username = n]
           r2 == [r1 EXCEPT !.is_active = active]
<1>1. Good(user[u])  BY DEF AccountsInv
<1>2. /\ r1 \in UserRow /\ r1.username = n
      /\ r1.original_username = user[u].original_username /\ r1.is_deleted = user[u].is_deleted
  BY <1>1 DEF Good, UserRow, NameInputs
<1>3. [user[u] EXCEPT !.username = n, !.is_active = active] = r2
  BY <1>1 DEF Good, UserRow
<1> HIDE DEF r1
<1>4. /\ r2 \in UserRow /\ r2.username = n
      /\ r2.original_username = user[u].original_username /\ r2.is_deleted = user[u].is_deleted
  BY <1>2 DEF UserRow
<1> HIDE DEF r2
<1>5. r2.username \in DeletedNames => r2.is_deleted
  BY <1>1, <1>4, AccountsAssumption DEF Good, NameInputs
<1>6. r2.is_deleted <=> r2.original_username # None
  BY <1>1, <1>4 DEF Good
<1>7. Agrees(w, u, r2)  BY <1>4 DEF Agrees, Live, Stored
<1> QED  BY <1>3, <1>4, <1>5, <1>6, <1>7 DEF Good

-----------------------------------------------------------------------------
LEMMA CreateUserKeeps ==
  ASSUME AccountsInv, NEW w \in Workers, NEW u \in Users, NEW n \in Names,
         NEW S \in SUBSET Users, CreateUser(w, u, n, S)
  PROVE  AccountsInv'
<1>1. /\ user' = [user EXCEPT ![u] = [username |-> n, original_username |-> None,
                                    is_active |-> TRUE, is_deleted |-> FALSE]]
      /\ job' = [job EXCEPT ![w] = [next |-> "set", id |-> u, superiors |-> S]]
      /\ overtaken' = overtaken /\ superiors' = superiors
      /\ \A s \in S : Live(s)
      /\ ~Held(u)
  BY DEF CreateUser
<1>2. Tables'  BY <1>1 DEF AccountsInv, Tables
<1>3. Live(u)' /\ Good(user[u])'
  <2>1. user'[u] = [username |-> n, original_username |-> None,
                    is_active |-> TRUE, is_deleted |-> FALSE]
    BY <1>1 DEF AccountsInv, Tables
  <2>2. Good(user'[u])  BY <2>1, AccountsAssumption DEF Good, UserRow
  <2>3. user'[u] # Absent  BY <2>2, AccountsAssumption DEF Good
  <2> QED  BY <2>1, <2>2, <2>3 DEF Live
<1>4. \A v \in Users \ {u} : user'[v] = user[v]
  BY <1>1 DEF AccountsInv, Tables
<1>5. \A s \in Users \ {u} : Live(s)' <=> Live(s)
  BY <1>4 DEF Live
<1>6. Sound(w, job[w])'
  <2>1. job'[w] = [next |-> "set", id |-> u, superiors |-> S]
    BY <1>1 DEF AccountsInv, Tables
  <2>2. \A s \in S : Live(s)'  BY <1>1, <1>3, <1>5
  <2>3. \A s \in S : Justified(w, s)'  BY <2>2 DEF Justified
  <2> QED  BY <2>1, <2>3 DEF Sound
<1>7. \A v \in Workers \ {w} : job'[v] = job[v]  BY <1>1 DEF AccountsInv, Tables
<1>8. ASSUME NEW v \in Workers \ {w}, job[v] # Idle PROVE Sound(v, job[v])'
  <2> PICK j : j = job[v]  OBVIOUS
  <2>1. Sound(v, j) /\ job'[v] = j  BY <1>7, <1>8 DEF AccountsInv
  <2>2. u # j.id /\ (j.next \in {"save", "set"} => u \notin j.superiors)
    BY <1>1, <1>8 DEF Held
  <2>3. Sound(v, j)'  BY <2>1, <2>2, <1>1, <1>5, OtherSound
  <2> QED  BY <2>1, <2>3 DEF Sound, Good, Agrees, Justified
<1>9. \A v \in Users : Stored(v)' => Good(user[v])'
  BY <1>3, <1>4 DEF AccountsInv, Stored, Good
<1> QED  BY <1>2, <1>6, <1>7, <1>8, <1>9 DEF AccountsInv

\* A save changes whether its user is deleted only if that has overtaken it.
LEMMA SaveUserKeeps ==
  ASSUME AccountsInv, NEW w \in Workers, SaveUser(w)
  PROVE  AccountsInv'
<1> PICK u, r, g : u = job[w].id /\ r = job[w].row /\ g = job[w].set  OBVIOUS
<1> DEFINE S == IF Live(u) <=> ~r.is_deleted THEN {} ELSE {u}
<1>1. /\ job[w] # Idle /\ job[w].next = "save"
      /\ user' = [user EXCEPT ![u] = r]
      /\ Overtake(w, S, g) /\ superiors' = superiors
      /\ job' = [job EXCEPT ![w] = IF g THEN [next |-> "set", id |-> u, superiors |-> job[w].superiors]
                                   ELSE Idle]
  BY DEF SaveUser, At, Done
<1>2. /\ u \in Users /\ Good(r) /\ Agrees(w, u, r)
      /\ \A s \in job[w].superiors : Justified(w, s)
  BY <1>1 DEF AccountsInv, Sound
<1>3. Tables'  BY <1>1, <1>2 DEF AccountsInv, Tables
<1>4. user'[u] = r /\ \A v \in Users \ {u} : user'[v] = user[v]
  BY <1>1, <1>2 DEF AccountsInv, Tables
<1>5. r # Absent  BY <1>2, AccountsAssumption DEF Good
<1>6. Live(u)' <=> ~r.is_deleted  BY <1>4, <1>5 DEF Live
<1>7. S \in SUBSET Users /\ \A x \in Users \ S : Live(x)' <=> Live(x)
  BY <1>2, <1>4, <1>6 DEF Live
<1>8. job'[w] = Idle \/ Sound(w, job[w])'
  <2>1. CASE ~g  BY <2>1, <1>1 DEF AccountsInv, Tables
  <2>2. CASE g
    <3>1. job'[w] = [next |-> "set", id |-> u, superiors |-> job[w].superiors]
      BY <2>2, <1>1 DEF AccountsInv, Tables
    <3>2. \A x \in Users : <<w, x>> \in overtaken => <<w, x>> \in overtaken'
      BY <2>2, <1>1 DEF Overtake
    <3>3. \A s \in job[w].superiors : Justified(w, s)'
      BY <1>2, <1>7, <3>2 DEF Justified, Agrees
    <3> QED  BY <1>2, <3>1, <3>3 DEF Sound
  <2> QED  BY <2>1, <2>2
<1>9. \A v \in Workers \ {w} : job'[v] = job[v]  BY <1>1 DEF AccountsInv, Tables
<1>10. \A v \in Users : Stored(v)' => Good(user[v])'
  BY <1>2, <1>4 DEF AccountsInv, Stored, Good
<1>11. PICK G \in BOOLEAN : Overtake(w, S, G)
  <2>1. Overtake(w, S, g) => Overtake(w, S, TRUE) \/ Overtake(w, S, FALSE)  BY DEF Overtake
  <2> QED  BY <2>1, <1>1
<1> HIDE DEF S
<1> QED  BY <1>3, <1>7, <1>8, <1>9, <1>10, <1>11, WriteKeeps

LEMMA SetSuperiorsKeeps ==
  ASSUME AccountsInv, NEW w \in Workers, SetSuperiors(w)
  PROVE  AccountsInv'
<1>1. /\ job[w] # Idle /\ job[w].next = "set"
      /\ superiors' = [superiors EXCEPT ![job[w].id] = job[w].superiors]
      /\ job' = [job EXCEPT ![w] = Idle]
      /\ Overtake(w, {}, FALSE) /\ user' = user
  BY DEF SetSuperiors, At, Done
<1>2. Tables'  BY <1>1 DEF AccountsInv, Tables
<1>3. job'[w] = Idle /\ \A v \in Workers \ {w} : job'[v] = job[v]
  BY <1>1 DEF AccountsInv, Tables
<1>4. \A u \in Users : (Stored(u)' => Good(user[u])') /\ (Live(u)' <=> Live(u))
  BY <1>1 DEF AccountsInv, Stored, Good, Live
<1> QED  BY <1>1, <1>2, <1>3, <1>4, WriteKeeps

\* A request that writes the row of one user and is marked as overtaking the others.
LEMMA RowKeeps ==
  ASSUME AccountsInv, NEW w \in Workers, NEW u \in Users, NEW r, r = Absent \/ Good(r),
         user' = [user EXCEPT ![u] = r],
         superiors' = superiors \/ superiors' = Cleared(u),
         Overtake(w, {u}, FALSE), job' = [job EXCEPT ![w] = Idle]
  PROVE  AccountsInv'
<1>1. Tables'  BY DEF AccountsInv, Tables, Cleared
<1>2. user'[u] = r /\ \A v \in Users \ {u} : user'[v] = user[v]
  BY DEF AccountsInv, Tables
<1>3. \A x \in Users \ {u} : Live(x)' <=> Live(x)  BY <1>2 DEF Live
<1>4. job'[w] = Idle /\ \A v \in Workers \ {w} : job'[v] = job[v]
  BY DEF AccountsInv, Tables
<1>5. \A v \in Users : Stored(v)' => Good(user[v])'
  BY <1>2 DEF AccountsInv, Stored, Good
<1> QED  BY <1>1, <1>3, <1>4, <1>5, WriteKeeps

LEMMA HardDeleteKeeps ==
  ASSUME AccountsInv, NEW w \in Workers, HardDelete(w)
  PROVE  AccountsInv'
<1> PICK u, r : u = job[w].id /\ r = Absent  OBVIOUS
<1>1. u \in Users  BY DEF HardDelete, At, AccountsInv, Sound
<1>2. /\ user' = [user EXCEPT ![u] = r] /\ superiors' = Cleared(u)
      /\ Overtake(w, {u}, FALSE) /\ job' = [job EXCEPT ![w] = Idle]
  BY DEF HardDelete, Done
<1> QED  BY <1>1, <1>2, RowKeeps

LEMMA SoftDeleteKeeps ==
  ASSUME AccountsInv, NEW w \in Workers, SoftDelete(w)
  PROVE  AccountsInv'
<1> PICK u, n : u = job[w].id /\ n = job[w].row.username  OBVIOUS
<1> DEFINE r == [username |-> DeletedName(u, n), original_username |-> n,
                 is_active |-> FALSE, is_deleted |-> TRUE]
<1>1. u \in Users /\ n \in Names  BY DEF SoftDelete, At, AccountsInv, Sound
<1>2. Good(r)
  BY <1>1, AccountsAssumption DEF Good, UserRow, DeletedNames, DeletedName
<1>3. /\ user' = [user EXCEPT ![u] = r] /\ superiors' = Cleared(u)
      /\ Overtake(w, {u}, FALSE) /\ job' = [job EXCEPT ![w] = Idle]
  BY DEF SoftDelete, Done
<1> HIDE DEF r
<1> QED  BY <1>1, <1>2, <1>3, RowKeeps

LEMMA RestoreKeeps ==
  ASSUME AccountsInv, NEW w \in Workers, Restore(w)
  PROVE  AccountsInv'
<1> PICK u, n : u = job[w].id /\ n = job[w].row.original_username  OBVIOUS
<1> DEFINE r == [username |-> n, original_username |-> None,
                 is_active |-> TRUE, is_deleted |-> FALSE]
<1>1. u \in Users /\ n \in Names  BY DEF Restore, At, AccountsInv, Sound
<1>2. Good(r)  BY <1>1, AccountsAssumption DEF Good, UserRow
<1>3. /\ user' = [user EXCEPT ![u] = r] /\ superiors' = superiors
      /\ Overtake(w, {u}, FALSE) /\ job' = [job EXCEPT ![w] = Idle]
  BY DEF Restore, Done
<1> HIDE DEF r
<1> QED  BY <1>1, <1>2, <1>3, RowKeeps

LEMMA LeaveKeeps ==
  ASSUME AccountsInv, NEW w \in Workers, Leave(w)
  PROVE  AccountsInv'
<1>1. /\ job' = [job EXCEPT ![w] = Idle] /\ Overtake(w, {}, FALSE)
      /\ user' = user /\ superiors' = superiors
  BY DEF Leave, Done, tables
<1>2. Tables'  BY <1>1 DEF AccountsInv, Tables
<1>3. job'[w] = Idle /\ \A v \in Workers \ {w} : job'[v] = job[v]
  BY <1>1 DEF AccountsInv, Tables
<1>4. \A u \in Users : (Stored(u)' => Good(user[u])') /\ (Live(u)' <=> Live(u))
  BY <1>1 DEF AccountsInv, Stored, Good, Live
<1> QED  BY <1>1, <1>2, <1>3, <1>4, WriteKeeps

-----------------------------------------------------------------------------
LEMMA AccountsInvHolds == Spec => []AccountsInv
<1>1. Init => AccountsInv
  BY DEF Init, AccountsInv, Tables, Stored
<1>2. AccountsInv /\ [Next]_vars => AccountsInv'
  <2> SUFFICES ASSUME AccountsInv, [Next]_vars PROVE AccountsInv'  OBVIOUS
  <2>1. CASE UNCHANGED <<user, superiors, job, overtaken>>
    BY <2>1 DEF AccountsInv, Tables, Stored, Good, Justified, Live, Sound, Agrees
  <2>2. ASSUME NEW w \in Workers, NEW u \in Users, NEW n \in NameInputs(u),
               NEW active \in BOOLEAN, NEW S \in Lists, LoadUser(w, u, n, active, S)
        PROVE  AccountsInv'
    <3> DEFINE j == [next |-> "save", id |-> u, superiors |-> S, set |-> TRUE,
                     row |-> [user[u] EXCEPT !.username = n, !.is_active = active]]
    <3>1. /\ Stored(u) /\ \A s \in S : Live(s)
          /\ job' = [job EXCEPT ![w] = j] /\ UNCHANGED <<user, superiors, overtaken>>
      BY <2>2 DEF LoadUser, Begin, tables
    <3>2. Good(j.row) /\ Agrees(w, u, j.row)  BY <3>1, LoadUserSound
    <3>3. \A s \in S : Justified(w, s)  BY <3>1 DEF Lists, Justified
    <3>4. j.id = u /\ j.next = "save" /\ j.superiors = S  OBVIOUS
    <3> HIDE DEF j
    <3>5. Sound(w, j)  BY <3>2, <3>3, <3>4 DEF Sound
    <3> QED  BY <3>1, <3>5, JobsOnly
  <2>3. ASSUME NEW w \in Workers, NEW u \in Users, LoadProfile(w, u) PROVE AccountsInv'
    <3> DEFINE j == [next |-> "save", id |-> u, superiors |-> {}, set |-> FALSE, row |-> user[u]]
    <3>1. /\ Live(u) /\ Stored(u)
          /\ job' = [job EXCEPT ![w] = j] /\ UNCHANGED <<user, superiors, overtaken>>
      BY <2>3 DEF LoadProfile, Authenticates, Begin, tables, Live, Stored
    <3>2. Sound(w, j)  BY <3>1 DEF Sound, Agrees, Live, AccountsInv
    <3> QED  BY <3>1, <3>2, JobsOnly
  <2>4. ASSUME NEW w \in Workers, NEW u \in Users, LoadDestroy(w, u) PROVE AccountsInv'
    <3> DEFINE j == [next |-> "destroy", id |-> u, row |-> user[u]]
    <3>1. /\ Live(u) /\ job' = [job EXCEPT ![w] = j] /\ UNCHANGED <<user, superiors, overtaken>>
      BY <2>4 DEF LoadDestroy, Begin, tables
    <3>2. user[u].username \in Names
      BY <3>1 DEF AccountsInv, Good, UserRow, Live, Stored
    <3>3. Sound(w, j)  BY <3>2 DEF Sound
    <3> QED  BY <3>1, <3>3, JobsOnly
  <2>5. ASSUME NEW w \in Workers, NEW u \in Users, LoadRestore(w, u) PROVE AccountsInv'
    <3> DEFINE j == [next |-> "restore", id |-> u, row |-> user[u]]
    <3>1. /\ Stored(u) /\ user[u].is_deleted
          /\ job' = [job EXCEPT ![w] = j] /\ UNCHANGED <<user, superiors, overtaken>>
      BY <2>5 DEF LoadRestore, Begin, tables
    <3>2. user[u].original_username \in Names
      BY <3>1 DEF AccountsInv, Good, UserRow
    <3>3. Sound(w, j)  BY <3>2 DEF Sound
    <3> QED  BY <3>1, <3>3, JobsOnly
  <2>6. ASSUME NEW w \in Workers, NEW u \in Users, NEW n \in Names, NEW S \in Lists,
               CreateUser(w, u, n, S)
        PROVE  AccountsInv'
    BY <2>6, CreateUserKeeps DEF Lists
  <2>7. ASSUME NEW w \in Workers, Step(w) PROVE AccountsInv'
    BY <2>7, <2>2, <2>3, <2>4, <2>5, <2>6, LeaveKeeps, SaveUserKeeps, SetSuperiorsKeeps,
       HardDeleteKeeps, SoftDeleteKeeps, RestoreKeeps
       DEF Step
  <2> QED  BY <2>1, <2>7 DEF Next, vars, Refer, tables
<1> QED  BY <1>1, <1>2, PTL DEF Spec

\* For any users, names and workers, every account is one that restore() and destroy()
\* can deal with, whichever stale row was saved last.
THEOREM CoherentHolds == Spec => []Coherent
<1>1. AccountsInv => Coherent  BY DEF AccountsInv, Coherent, Good
<1> QED  BY <1>1, AccountsInvHolds, PTL


\* A save moves its request on.
LEMMA SaveMoves ==
  ASSUME AccountsInv, NEW w \in Workers, SaveUser(w)
  PROVE  job'[w] # job[w]
<1>1. job[w] # Idle /\ job[w].next = "save"  BY DEF SaveUser, At
<1> PICK j : j = [next |-> "set", id |-> job[w].id, superiors |-> job[w].superiors]  OBVIOUS
<1>2. job'[w] = j \/ job'[w] = Idle  BY DEF SaveUser, Done, AccountsInv, Tables
<1>3. j.next = "set"  OBVIOUS
<1> QED  BY <1>1, <1>2, <1>3

\* Nobody comes to report to a deleted user but by a request that had named this superior
\* before the deletion, or that saves the superior's row as it was before the restoration.
THEOREM NoDeletedSuperiorHolds == Spec => NoDeletedSuperior
<1> DEFINE Late(u, s) ==
      \/ s \in superiors[u] /\ ~Live(s)
      \/ \E w \in Workers : Writes(w, "set", s) /\ job[w].id = u /\ s \in job[w].superiors
      \/ \E w \in Workers : Writes(w, "save", s) /\ job[w].id = s /\ job[w].row.is_deleted
<1>1. ASSUME AccountsInv, [Next]_vars, NEW u \in Users, NEW s \in Users,
             s \in superiors'[u], ~Live(s)'
      PROVE  Late(u, s)
  <2>1. CASE user' = user /\ superiors' = superiors  BY <1>1, <2>1 DEF Live
  <2>2. ASSUME NEW w \in Workers, NEW v \in Users, NEW n \in Names, NEW S \in Lists,
               CreateUser(w, v, n, S)
        PROVE  Late(u, s)
    <3>1. superiors' = superiors /\ user' = [user EXCEPT ![v] = user'[v]]
      BY <1>1, <2>2 DEF CreateUser, AccountsInv, Tables
    <3>2. user[v] = Absent  BY <2>2 DEF CreateUser, Stored
    <3>3. ~Live(s)
      <4>1. CASE s = v  BY <3>2, <4>1 DEF Live
      <4>2. CASE s # v
        <5>1. user'[s] = user[s]  BY <3>1, <4>2, <1>1 DEF AccountsInv, Tables
        <5> QED  BY <5>1, <1>1 DEF Live
      <4> QED  BY <4>1, <4>2
    <3> QED  BY <1>1, <3>1, <3>3
  <2>3. ASSUME NEW w \in Workers, SaveUser(w) PROVE Late(u, s)
    <3> PICK r : r = job[w].row  OBVIOUS
    <3>1. /\ job[w] # Idle /\ job[w].next = "save" /\ superiors' = superiors
          /\ user' = [user EXCEPT ![job[w].id] = r]
      BY <2>3 DEF SaveUser, At
    <3>2. Good(r) /\ Agrees(w, job[w].id, r)  BY <1>1, <3>1 DEF AccountsInv, Sound
    <3>3. CASE ~Live(s)  BY <1>1, <3>1, <3>3
    <3>4. CASE Live(s)
      <4>1. user'[s] # user[s]  BY <1>1, <3>4 DEF Live
      <4>2. job[w].id = s /\ user'[s] = r  BY <1>1, <3>1, <4>1 DEF AccountsInv, Tables
      <4>3. r.is_deleted  BY <1>1, <3>2, <4>2, AccountsAssumption DEF Live, Good
      <4>4. <<w, s>> \in overtaken  BY <3>2, <3>4, <4>2, <4>3 DEF Agrees
      <4>5. job'[w] # job[w]  BY <2>3, SaveMoves, <1>1
      <4> QED  BY <3>1, <4>2, <4>3, <4>4, <4>5 DEF Writes, At
    <3> QED  BY <3>3, <3>4
  <2>4. ASSUME NEW w \in Workers, SetSuperiors(w) PROVE Late(u, s)
    <3>1. /\ job[w] # Idle /\ job[w].next = "set" /\ user' = user
          /\ superiors' = [superiors EXCEPT ![job[w].id] = job[w].superiors]
          /\ job' = [job EXCEPT ![w] = Idle]
      BY <2>4 DEF SetSuperiors, At, Done
    <3>2. ~Live(s)  BY <1>1, <3>1 DEF Live
    <3>3. CASE job[w].id # u
      <4>1. superiors'[u] = superiors[u]  BY <1>1, <3>1, <3>3 DEF AccountsInv, Tables
      <4> QED  BY <1>1, <3>2, <4>1
    <3>4. CASE job[w].id = u
      <4>1. s \in job[w].superiors  BY <1>1, <3>1, <3>4 DEF AccountsInv, Tables
      <4>2. <<w, s>> \in overtaken
        BY <1>1, <3>1, <3>2, <4>1 DEF AccountsInv, Sound, Justified
      <4>3. job'[w] # job[w]  BY <1>1, <3>1 DEF AccountsInv, Tables
      <4> QED  BY <3>1, <3>4, <4>1, <4>2, <4>3 DEF Writes, At
    <3> QED  BY <3>3, <3>4
  <2>5. ASSUME NEW w \in Workers, NEW v \in Users, superiors' = Cleared(v),
               user' = [user EXCEPT ![v] = user'[v]]
        PROVE  Late(u, s)
    <3>1. s \in superiors[u] /\ s # v  BY <1>1, <2>5 DEF Cleared
    <3>2. user'[s] = user[s]  BY <1>1, <2>5, <3>1 DEF AccountsInv, Tables
    <3> QED  BY <1>1, <3>1, <3>2 DEF Live
  <2>6. ASSUME NEW w \in Workers, HardDelete(w) PROVE Late(u, s)
    <3>1. job[w].id \in Users  BY <1>1, <2>6 DEF HardDelete, At, AccountsInv, Sound
    <3>2. /\ superiors' = Cleared(job[w].id)
          /\ user' = [user EXCEPT ![job[w].id] = user'[job[w].id]]
      BY <1>1, <2>6, <3>1 DEF HardDelete, AccountsInv, Tables
    <3> QED  BY <2>5, <3>1, <3>2
  <2>7. ASSUME NEW w \in Workers, SoftDelete(w) PROVE Late(u, s)
    <3>1. job[w].id \in Users  BY <1>1, <2>7 DEF SoftDelete, At, AccountsInv, Sound
    <3>2. /\ superiors' = Cleared(job[w].id)
          /\ user' = [user EXCEPT ![job[w].id] = user'[job[w].id]]
      BY <1>1, <2>7, <3>1 DEF SoftDelete, AccountsInv, Tables
    <3> QED  BY <2>5, <3>1, <3>2
  <2>8. ASSUME NEW w \in Workers, Restore(w) PROVE Late(u, s)
    <3> PICK v, n : v = job[w].id /\ n = job[w].row.original_username  OBVIOUS
    <3> DEFINE r == [username |-> n, original_username |-> None,
                     is_active |-> TRUE, is_deleted |-> FALSE]
    <3>1. n \in Names /\ v \in Users  BY <1>1, <2>8 DEF Restore, At, AccountsInv, Sound
    <3>2. superiors' = superiors /\ user' = [user EXCEPT ![v] = r]
      BY <2>8 DEF Restore
    <3>3. r # Absent
      <4>1. r \in UserRow  BY <3>1 DEF UserRow
      <4> QED  BY <4>1, AccountsAssumption
    <3>4. ~r.is_deleted  OBVIOUS
    <3> HIDE DEF r
    <3>5. s # v  BY <1>1, <3>1, <3>2, <3>3, <3>4 DEF Live, AccountsInv, Tables
    <3>6. user'[s] = user[s]  BY <1>1, <3>2, <3>5 DEF AccountsInv, Tables
    <3> QED  BY <1>1, <3>2, <3>6 DEF Live
  <2>9. ASSUME NEW w \in Workers, Step(w) PROVE Late(u, s)
    BY <2>1, <2>2, <2>3, <2>4, <2>6, <2>7, <2>8, <2>9
       DEF Step, LoadUser, LoadProfile, LoadDestroy, LoadRestore, Leave, Begin, tables
  <2> QED  BY <1>1, <2>1, <2>9 DEF Next, vars, Refer
<1>2. AccountsInv /\ [Next]_vars
        => \A u, s \in Users : s \in superiors'[u] /\ ~Live(s)' => Late(u, s)
  BY <1>1
<1> QED  BY <1>2, AccountsInvHolds, PTL DEF Spec, NoDeletedSuperior

\* A deleted user comes back by restore() or a creation alone; a save that brings one
\* back had read it before the deletion.
THEOREM DeletedStaysHolds == Spec => DeletedStays
<1> DEFINE Allowed(u) ==
      \/ Restores(u)
      \/ user[u] = Absent /\ Creates(u)
      \/ \E w \in Workers : Writes(w, "save", u) /\ job[w].id = u
<1>1. ASSUME AccountsInv, [Next]_vars, NEW u \in Users, ~Live(u), Live(u)'
      PROVE  Allowed(u)
  <2>1. user'[u] # user[u]  BY <1>1 DEF Live
  <2>2. ASSUME NEW w \in Workers, NEW v \in Users, NEW n \in Names, NEW S \in Lists,
               CreateUser(w, v, n, S)
        PROVE  user[u] = Absent /\ Creates(u)
    <3> DEFINE j == [next |-> "set", id |-> v, superiors |-> S]
    <3>1. v = u  BY <1>1, <2>1, <2>2 DEF CreateUser, AccountsInv, Tables
    <3>2. job[w] = Idle /\ user[u] = Absent /\ job'[w] = j
      BY <1>1, <2>2, <3>1 DEF CreateUser, AccountsInv, Tables, Stored
    <3>3. j # Idle  BY AccountsAssumption DEF Lists
    <3>4. j.id = v  OBVIOUS
    <3> HIDE DEF j
    <3> QED  BY <3>1, <3>2, <3>3, <3>4 DEF Creates
  <2>3. ASSUME NEW w \in Workers, SaveUser(w) PROVE Writes(w, "save", u) /\ job[w].id = u
    <3> PICK r : r = job[w].row  OBVIOUS
    <3>1. /\ job[w] # Idle /\ job[w].next = "save"
          /\ user' = [user EXCEPT ![job[w].id] = r]
      BY <2>3 DEF SaveUser, At
    <3>2. job[w].id = u /\ user'[u] = r  BY <1>1, <2>1, <3>1 DEF AccountsInv, Tables
    <3>3. Agrees(w, u, r)  BY <1>1, <3>1, <3>2 DEF AccountsInv, Sound
    <3>4. <<w, u>> \in overtaken  BY <1>1, <3>2, <3>3 DEF Agrees, Live
    <3>5. job'[w] # job[w]  BY <1>1, <2>3, SaveMoves
    <3> QED  BY <3>1, <3>2, <3>4, <3>5 DEF Writes, At
  <2>4. ASSUME NEW w \in Workers, HardDelete(w) PROVE FALSE
    BY <1>1, <2>1, <2>4 DEF HardDelete, AccountsInv, Tables, Live
  <2>5. ASSUME NEW w \in Workers, SoftDelete(w) PROVE FALSE
    <3> PICK n : n = job[w].row.username  OBVIOUS
    <3> DEFINE r == [username |-> DeletedName(u, n), original_username |-> n,
                     is_active |-> FALSE, is_deleted |-> TRUE]
    <3>1. user'[u] = r  BY <1>1, <2>1, <2>5 DEF SoftDelete, AccountsInv, Tables
    <3>2. r.is_deleted  OBVIOUS
    <3> QED  BY <1>1, <3>1, <3>2 DEF Live
  <2>6. ASSUME NEW w \in Workers, Restore(w) PROVE Restores(u)
    <3>1. At(w, "restore") /\ job'[w] = Idle /\ job[w].id = u
      BY <1>1, <2>1, <2>6 DEF Restore, Done, AccountsInv, Tables
    <3> QED  BY <3>1 DEF Restores
  <2>7. ASSUME NEW w \in Workers, Step(w) PROVE Allowed(u)
    BY <2>1, <2>2, <2>3, <2>4, <2>5, <2>6, <2>7
       DEF Step, LoadUser, LoadProfile, LoadDestroy, LoadRestore, SetSuperiors, Leave, Begin, tables
  <2> QED  BY <1>1, <2>1, <2>7 DEF Next, vars, Refer
<1>2. AccountsInv /\ [Next]_vars => \A u \in Users : ~Live(u) /\ Live(u)' => Allowed(u)
  BY <1>1
<1> QED  BY <1>2, AccountsInvHolds, PTL DEF Spec, DeletedStays
=============================================================================
