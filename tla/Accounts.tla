------------------------------ MODULE Accounts ------------------------------
(***************************************************************************)
(* User accounts: creation and edits by an administrator, the users' own   *)
(* edits of their profile, deletion (soft if protected rows refer to the   *)
(* user) and restoration, and who is whose superior.                       *)
(*                                                                         *)
(* The administrator is another account than those modelled, as destroy()  *)
(* demands.  complete_profile and update_branch save every column of the   *)
(* user that authentication loaded, UserSerializer.update() every column   *)
(* of the instance; destroy and restore save the columns they change.  The *)
(* roles, names, branch and password are left out, no handler here decides *)
(* by them but who may call it.                                            *)
(***************************************************************************)
CONSTANTS
  Users, Names, Workers,  \* primary keys, the usernames clients enter, gunicorn workers
  Absent, Idle, None

VARIABLES
  user,       \* CustomUser rows
  superiors,  \* whom each user reports to (many to many)
  used,       \* users that a row with on_delete=PROTECT refers to
  job,        \* what each worker has read and is about to write
  overtaken   \* history: <<w, u>> if u was deleted or came back since w's request began

tables == <<user, superiors, used>>
vars == <<user, superiors, used, job, overtaken>>

\* "deleted_<timestamp>_<username>" of a user; the timestamps keep two deletions of one
\* name apart.
DeletedName(u, n) == [deleted |-> u, name |-> n]
DeletedNames == [deleted : Users, name : Names]

UserRow == [username : Names \cup DeletedNames, original_username : Names \cup {None},
            is_active : BOOLEAN, is_deleted : BOOLEAN]

\* A client enters no null and no name of a deleted user's form; what stands for a row
\* or a request that is not there is neither.
ASSUME AccountsAssumption ==
  /\ None \notin Names /\ Names \cap DeletedNames = {}
  /\ Absent \notin UserRow
  /\ Idle \notin [next : {"set"}, id : Users, superiors : SUBSET Users]

At(w, next) == job[w] # Idle /\ job[w].next = next
Begin(w, j) == job[w] = Idle /\ job' = [job EXCEPT ![w] = j] /\ UNCHANGED <<tables, overtaken>>
Done(w) == job' = [job EXCEPT ![w] = Idle]
Stored(u) == user[u] # Absent
Live(u) == user[u] # Absent /\ ~user[u].is_deleted
Taken(n, u) == \E v \in Users \ {u} : user[v] # Absent /\ user[v].username = n

\* A running request has read u and may still write by it.
Held(u) ==
  \E v \in Workers :
    job[v] # Idle /\ (job[v].id = u \/ (job[v].next \in {"save", "set"} /\ u \in job[v].superiors))

\* w's request ends (or, if it goes on, keeps its marks); it has deleted or brought back
\* the users S, which overtakes every other running request.
Overtake(w, S, goesOn) ==
  overtaken' = (overtaken \cup {v \in Workers \ {w} : job[v] # Idle} \X S)
               \ IF goesOn THEN {} ELSE {w} \X Users

-----------------------------------------------------------------------------
\* UserSerializer.create(): the user, then (in commits of their own) the superiors.
CreateUser(w, u, n, S) ==
  /\ job[w] = Idle /\ ~Stored(u) /\ ~Held(u)
  /\ ~Taken(n, u) /\ \A s \in S : Live(s)
  /\ user' = [user EXCEPT ![u] = [username |-> n, original_username |-> None,
                                  is_active |-> TRUE, is_deleted |-> FALSE]]
  /\ job' = [job EXCEPT ![w] = [next |-> "set", id |-> u, superiors |-> S]]
  /\ UNCHANGED <<superiors, used, overtaken>>

\* Slip: is_deleted is not among the serializer's read-only fields.
LoadUserWritable(w, u, n, active, S) ==
  /\ Stored(u) /\ ~Taken(n, u) /\ \A s \in S : Live(s)
  /\ Begin(w, [next |-> "save", id |-> u, superiors |-> S, set |-> TRUE,
               row |-> [user[u] EXCEPT !.username = n, !.is_active = active,
                                       !.is_deleted = FALSE]])

\* UserViewSet.update() of an account, deleted ones too with ?include_deleted=true: the
\* instance is read and the request validated, the uniqueness of the name and the
\* superiors (not deleted) by queries of their own.
LoadUser(w, u, n, active, S) ==
  /\ Stored(u) /\ ~Taken(n, u) /\ \A s \in S : Live(s)
  /\ Begin(w, [next |-> "save", id |-> u, superiors |-> S, set |-> TRUE,
               row |-> [user[u] EXCEPT !.username = n, !.is_active = active]])

\* authenticate(): a token is good while its user is active and not deleted.
Authenticates(u) == Stored(u) /\ user[u].is_active /\ ~user[u].is_deleted

\* complete_profile and update_branch: the row is that of the authentication.
LoadProfile(w, u) ==
  /\ Authenticates(u)
  /\ Begin(w, [next |-> "save", id |-> u, superiors |-> {}, set |-> FALSE, row |-> user[u]])

\* user.save(): all columns; a user deleted since is inserted again.
SaveUser(w) ==
  /\ At(w, "save") /\ ~Taken(job[w].row.username, job[w].id)
  /\ user' = [user EXCEPT ![job[w].id] = job[w].row]
  /\ Overtake(w, IF Live(job[w].id) <=> ~job[w].row.is_deleted THEN {} ELSE {job[w].id},
              job[w].set)
  /\ IF job[w].set
     THEN job' = [job EXCEPT ![w] =
                    [next |-> "set", id |-> job[w].id, superiors |-> job[w].superiors]]
     ELSE Done(w)
  /\ UNCHANGED <<superiors, used>>

\* superiors.set(); foreign keys refuse users that are gone.
SetSuperiors(w) ==
  /\ At(w, "set") /\ \A s \in job[w].superiors \cup {job[w].id} : Stored(s)
  /\ superiors' = [superiors EXCEPT ![job[w].id] = job[w].superiors]
  /\ Overtake(w, {}, FALSE) /\ Done(w)
  /\ UNCHANGED <<user, used>>

\* destroy(): a user that is already deleted is left alone.
LoadDestroy(w, u) ==
  /\ Live(u)
  /\ Begin(w, [next |-> "destroy", id |-> u, row |-> user[u]])

Cleared(u) == [v \in Users |-> IF v = u THEN {} ELSE superiors[v] \ {u}]

\* instance.delete(): nothing protects the user; its links go with it.
HardDelete(w) ==
  LET u == job[w].id IN
  /\ At(w, "destroy") /\ u \notin used
  /\ user' = [user EXCEPT ![u] = Absent]
  /\ superiors' = Cleared(u)
  /\ Overtake(w, {u}, FALSE) /\ Done(w)
  /\ UNCHANGED used

\* Slip: update_fields forgets original_username.
SoftDeleteNameless(w) ==
  LET u == job[w].id IN
  /\ At(w, "destroy") /\ u \in used /\ Stored(u)
  /\ user' = [user EXCEPT ![u].is_deleted = TRUE, ![u].is_active = FALSE,
                          ![u].username = DeletedName(u, job[w].row.username)]
  /\ superiors' = Cleared(u)
  /\ Overtake(w, {u}, FALSE) /\ Done(w)
  /\ UNCHANGED used

\* Slip: only the user's own superiors are cleared.
SoftDeleteLinked(w) ==
  LET u == job[w].id IN
  /\ At(w, "destroy") /\ u \in used /\ Stored(u)
  /\ user' = [user EXCEPT ![u] =
       [username |-> DeletedName(u, job[w].row.username),
        original_username |-> job[w].row.username, is_active |-> FALSE, is_deleted |-> TRUE]]
  /\ superiors' = [superiors EXCEPT ![u] = {}]
  /\ Overtake(w, {u}, FALSE) /\ Done(w)
  /\ UNCHANGED used

\* ProtectedError: the user is marked and renamed (update_fields), its links to and from
\* others are cleared, in one transaction.
SoftDelete(w) ==
  LET u == job[w].id IN
  /\ At(w, "destroy") /\ u \in used /\ Stored(u)
  /\ user' = [user EXCEPT ![u] =
       [username |-> DeletedName(u, job[w].row.username),
        original_username |-> job[w].row.username, is_active |-> FALSE, is_deleted |-> TRUE]]
  /\ superiors' = Cleared(u)
  /\ Overtake(w, {u}, FALSE) /\ Done(w)
  /\ UNCHANGED used

\* restore(): refused if another user has taken the name; then the columns it changes
\* are saved, and the unique username is checked again by the database.
LoadRestore(w, u) ==
  /\ Stored(u) /\ user[u].is_deleted /\ ~Taken(user[u].original_username, u)
  /\ Begin(w, [next |-> "restore", id |-> u, row |-> user[u]])
Restore(w) ==
  LET u == job[w].id IN
  /\ At(w, "restore") /\ Stored(u) /\ ~Taken(job[w].row.original_username, u)
  /\ user' = [user EXCEPT ![u] =
       [username |-> job[w].row.original_username, original_username |-> None,
        is_active |-> TRUE, is_deleted |-> FALSE]]
  /\ Overtake(w, {u}, FALSE) /\ Done(w)
  /\ UNCHANGED <<superiors, used>>

\* A request of the user creates a row whose on_delete protects the user.
Refer(u) ==
  /\ Live(u) /\ user[u].is_active
  /\ used' = used \cup {u}
  /\ UNCHANGED <<user, superiors, job, overtaken>>

\* A refused or failed request, or a killed worker.
Leave(w) == job[w] # Idle /\ Overtake(w, {}, FALSE) /\ Done(w) /\ UNCHANGED tables

Init ==
  /\ user = [u \in Users |-> Absent]
  /\ superiors = [u \in Users |-> {}]
  /\ used = {} /\ overtaken = {}
  /\ job = [w \in Workers |-> Idle]

\* The superiors a request sends: none or one.
Lists == {{}} \cup {{s} : s \in Users}

\* What an edit leaves or enters as the username.
NameInputs(u) == Names \cup IF Stored(u) THEN {user[u].username} ELSE {}

Step(w) ==
  \/ \E u \in Users, n \in Names, S \in Lists : CreateUser(w, u, n, S)
  \/ \E u \in Users : \E n \in NameInputs(u), active \in BOOLEAN, S \in Lists :
       LoadUser(w, u, n, active, S)
  \/ \E u \in Users : LoadProfile(w, u) \/ LoadDestroy(w, u) \/ LoadRestore(w, u)
  \/ SaveUser(w) \/ SetSuperiors(w) \/ HardDelete(w) \/ SoftDelete(w) \/ Restore(w)
  \/ Leave(w)
Next == (\E w \in Workers : Step(w)) \/ (\E u \in Users : Refer(u))

Spec == Init /\ [][Next]_vars

-----------------------------------------------------------------------------
\* Under every interleaving of stale saves a row stays one that its handlers can deal
\* with: exactly the deleted users have an original username, to which restore() can
\* return, and no live user bears the name of a deleted one.  (destroy and restore save
\* these columns together, everything else saves them from one snapshot.)
Coherent ==
  \A u \in Users : Stored(u) =>
    /\ user[u] \in UserRow
    /\ user[u].is_deleted <=> user[u].original_username # None
    /\ user[u].username \in DeletedNames => user[u].is_deleted

Restores(u) == \E w \in Workers : At(w, "restore") /\ job[w].id = u /\ job'[w] = Idle
Creates(u) == \E w \in Workers : job[w] = Idle /\ job'[w] # Idle /\ job'[w].id = u
\* A request that u's deletion or return has overtaken writes the next thing it holds.
Writes(w, next, u) == At(w, next) /\ job'[w] # job[w] /\ <<w, u>> \in overtaken

\* A deleted user comes back by restore() alone, and one that is purged by a creation
\* alone, unless a request that began before saves the row it had read
\* (complete_profile, update): no request that began afterwards brings the user back.
DeletedStays ==
  [][\A u \in Users : ~Live(u) /\ Live(u)' =>
       \/ Restores(u)
       \/ user[u] = Absent /\ Creates(u)
       \/ \E w \in Workers : Writes(w, "save", u) /\ job[w].id = u]_vars

\* Nobody comes to report to a deleted user but in two ways: a request that named this
\* superior and was running when the superior was deleted sets it, or a request that had
\* read the row of the superior while it was deleted saves it after the restoration,
\* which clears nobody's superiors.  What destroy() clears stays cleared otherwise.
NoDeletedSuperior ==
  [][\A u, s \in Users : s \in superiors'[u] /\ ~Live(s)' =>
       \/ s \in superiors[u] /\ ~Live(s)
       \/ \E w \in Workers : Writes(w, "set", s) /\ job[w].id = u /\ s \in job[w].superiors
       \/ \E w \in Workers : Writes(w, "save", s) /\ job[w].id = s /\ job[w].row.is_deleted]_vars
=============================================================================
