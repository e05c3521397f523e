----------------------------- MODULE Documents -----------------------------
(***************************************************************************)
(* What the approval workflows of damage registrations, branch transfers,  *)
(* waste reports, return requests and advance requests have in common.  A  *)
(* document is one row with child rows: its items and, for a waste report, *)
(* the users involved.  A review saves the row only; an edit replaces the  *)
(* children it was given as well, in the same transaction.  Keys are       *)
(* UUIDs, so the tables share one key space and the field kind of a row    *)
(* says which table it is in.                                              *)
(***************************************************************************)
EXTENDS RowStore, Hierarchy

CONSTANTS
  HoldersOf,    \* the users who hold each of the other roles
  Goods,        \* what the items of a document may be
  Named,        \* the users clients name as supervisors of a document
  InvolvedSets, \* the sets of involved users clients enter
  Kinds,        \* the workflows in use
  Endpoints,    \* the endpoints clients call
  MaxLog,       \* bound: no handler starts on a document with MaxLog entries
  None, Keep    \* "nothing" and "leave these children alone"

AllKinds == {"damage", "transfer", "waste", "return", "advance"}

ASSUME RolesAssumption ==
  HoldersOf \in [{"SALES_MANAGER", "WAREHOUSE", "STATISTICIAN", "EXECUTIVE_MANAGER",
                  "SUPERVISOR", "CASHIER", "ACCOUNTANT"} -> SUBSET Users]
ASSUME DocumentInputsAssumption ==
  /\ Named \subseteq Users
  /\ InvolvedSets \subseteq SUBSET Users
  /\ Kinds \subseteq AllKinds
  /\ Endpoints \subseteq {"review", "cancel", "update", "destroy"}
  /\ MaxLog \in Nat
  /\ None \notin Goods /\ Keep \notin Goods

VARIABLES
  parts,  \* parts[i]: the child rows of document i, or Absent
  edit,   \* edit[w]: the child rows the job of worker w replaces
  again   \* again[w]: the update that passed the view's test and loads again, or None

documentVars == <<storeVars, parts, edit, again>>

Parts   == [goods : Goods \cup {None}, involved : SUBSET Users]
Edits   == [goods : Goods \cup {Keep}, involved : InvolvedSets \cup {Keep}]
Retries == [user : Users, id : Ids, kind : AllKinds]
NoParts == [goods |-> None, involved |-> {}]
NoEdit  == [goods |-> Keep, involved |-> Keep]

\* "is_superuser or any role in codes or ADMIN", the test of most handlers.
Holds(u, codes) == u \in Admins \cup UNION {HoldersOf[c] : c \in codes}
HoldsFinance(u) == u \in Admins \cup FinanceManagers

\* Slip: children that were not sent are stored as they came.
MergedAsSent(p, e) == e

\* The children after an edit: those it was given replace the old ones.
Merged(p, e) ==
  [goods    |-> IF e.goods = Keep THEN p.goods ELSE e.goods,
   involved |-> IF e.involved = Keep THEN p.involved ELSE e.involved]

\* listed: the items the text of the entry spells out, if it does.
EntryOf(stage, u, outcome) ==
  [stage |-> stage, actor |-> u, outcome |-> outcome, listed |-> None]

-----------------------------------------------------------------------------
\* Document i is loaded by a free worker, for one endpoint of its workflow.
Handles(w, i, kind, endpoint) ==
  /\ endpoint \in Endpoints
  /\ job[w] = Idle /\ again[w] = None
  /\ row[i] # Absent /\ row[i].kind = kind
  /\ Len(log[i]) < MaxLog

\* INSERT of the document, its children and its first entry in one transaction.
CreateDocument(i, new, entry, goods, involved) ==
  /\ new.kind \in Kinds
  /\ Fresh(i) /\ \A w \in Workers : again[w] # None => again[w].id # i
  /\ row' = [row EXCEPT ![i] = new]
  /\ log' = [log EXCEPT ![i] = IF entry = NoEntry THEN <<>> ELSE <<entry>>]
  /\ parts' = [parts EXCEPT ![i] = [goods |-> goods, involved |-> involved]]
  /\ UNCHANGED <<job, edit, again>>

\* The handler will save the row, and no children.
Saves(w, i, new, entry) ==
  /\ Prepare(w, i, new, entry)
  /\ UNCHANGED <<parts, edit, again>>

\* The handler will save the row and replace the children it was given.
SavesEdit(w, i, new, entry, e) ==
  /\ Prepare(w, i, new, entry)
  /\ edit' = [edit EXCEPT ![w] = e]
  /\ again' = [again EXCEPT ![w] = None]
  /\ UNCHANGED parts

\* A decision: the stage notes its reviewer in the row and moves the status on.
Decides(w, u, i, stage, outcomes, logged) ==
  \E next \in outcomes :
    Saves(w, i, [row[i] EXCEPT !.reviewer = [@ EXCEPT ![stage] = u], !.status = next],
          IF logged THEN EntryOf(stage, u, next) ELSE NoEntry)

\* The view has loaded document i and found it editable; super().update() will
\* load it once more.
PassesTest(w, u, i) ==
  /\ again' = [again EXCEPT ![w] = [user |-> u, id |-> i, kind |-> row[i].kind]]
  /\ UNCHANGED <<storeVars, parts, edit>>

\* The document is gone or out of sight when it is loaded again: 404.
NotFoundAgain(w) ==
  /\ again' = [again EXCEPT ![w] = None]
  /\ UNCHANGED <<storeVars, parts, edit>>

DestroyDocument(w, i) == Saves(w, i, Absent, NoEntry)

\* The transaction commits.  A row that was deleted meanwhile comes back without
\* its history and without the children the edit does not bring.
CommitDocument(w) ==
  /\ Commit(w)
  /\ LET i == job[w].id IN
       parts' = [parts EXCEPT ![i] =
                   IF job[w].new = Absent THEN Absent
                   ELSE Merged(IF row[i] = Absent THEN NoParts ELSE @, edit[w])]
  /\ edit' = [edit EXCEPT ![w] = NoEdit]
  /\ UNCHANGED again

RollbackDocument(w) ==
  \/ Rollback(w) /\ edit' = [edit EXCEPT ![w] = NoEdit] /\ UNCHANGED <<parts, again>>
  \/ again[w] # None /\ NotFoundAgain(w)
=============================================================================
