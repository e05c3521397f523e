------------------------------ MODULE RowStore ------------------------------
(***************************************************************************)
(* What a Django handler does to one row and to its history table, under   *)
(* PostgreSQL's READ COMMITTED isolation and without select_for_update.    *)
(*                                                                         *)
(* A handler loads an instance (get_object), tests it, changes attributes  *)
(* of the instance and saves it.  instance.save() writes EVERY column of   *)
(* the snapshot it loaded, and @transaction.atomic makes the save and the  *)
(* insertion of the history entry one commit, but nothing keeps the row    *)
(* from changing between the load and the commit.  So a handler is two     *)
(* steps: Prepare (load, test, compute what will be written) and Commit    *)
(* (write the whole row, append the entry).  A worker killed in between    *)
(* rolls its transaction back.                                             *)
(***************************************************************************)
EXTENDS Naturals, Sequences

CONSTANTS
  Ids,      \* primary keys (UUIDs) of the rows of one table
  Workers,  \* gunicorn workers; each runs one request at a time
  Absent,   \* "no such row"
  Idle,     \* "this worker runs no handler"
  NoEntry   \* a save that appends nothing to the history table

VARIABLES
  row,  \* row[i]: the committed row, or Absent
  log,  \* log[i]: the history entries of row i, in order of insertion
  job   \* job[w]: what worker w is about to commit, or Idle

storeVars == <<row, log, job>>

\* The jobs of a table whose rows are in R and whose entries are in E.
JobsOver(R, E) ==
  [id : Ids, seen : R, new : R \cup {Absent}, entry : E \cup {NoEntry}]

StoreTypeOK(R, E) ==
  /\ row \in [Ids -> R \cup {Absent}]
  /\ log \in [Ids -> Seq(E)]
  /\ job \in [Workers -> JobsOver(R, E) \cup {Idle}]

StoreInit ==
  /\ row = [i \in Ids |-> Absent]
  /\ log = [i \in Ids |-> <<>>]
  /\ job = [w \in Workers |-> Idle]

\* uuid4() never returns a key that a row or a running handler still uses.
Fresh(i) == row[i] = Absent /\ \A w \in Workers : job[w] # Idle => job[w].id # i

\* INSERT of a new row and of its first entry, in one transaction.
Insert(i, new, entry) ==
  /\ Fresh(i)
  /\ row' = [row EXCEPT ![i] = new]
  /\ log' = [log EXCEPT ![i] = <<entry>>]
  /\ UNCHANGED job

\* A free worker has loaded row i; it will write new and append entry.
Prepare(w, i, new, entry) ==
  /\ job[w] = Idle
  /\ row[i] # Absent
  /\ job' = [job EXCEPT ![w] =
               [id |-> i, seen |-> row[i], new |-> new, entry |-> entry]]
  /\ UNCHANGED <<row, log>>

\* DELETE cascades to the history; a save overwrites the row whatever it has
\* become, and re-inserts it if it was deleted meanwhile.
Commit(w) ==
  /\ job[w] # Idle
  /\ LET j == job[w] IN
       /\ row' = [row EXCEPT ![j.id] = j.new]
       /\ log' = [log EXCEPT ![j.id] =
                    IF j.new = Absent THEN <<>>
                    ELSE IF j.entry = NoEntry THEN @ ELSE Append(@, j.entry)]
  /\ job' = [job EXCEPT ![w] = Idle]

\* The worker is killed or the client's request fails before the commit.
Rollback(w) ==
  /\ job[w] # Idle
  /\ job' = [job EXCEPT ![w] = Idle]
  /\ UNCHANGED <<row, log>>

\* The entries in the history of row i, and what a save with entry e adds to them.
History(i) == {log[i][k] : k \in 1..Len(log[i])}
Added(e) == IF e = NoEntry THEN {} ELSE {e}

\* The last entry in the history of row i.
LastEntry(i) == log[i][Len(log[i])]
=============================================================================
