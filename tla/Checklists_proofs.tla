-------------------------- MODULE Checklists_proofs --------------------------
(***************************************************************************)
(* For any checklists, tasks, workers and clocks: a reset that no request  *)
(* disturbs archives exactly what it found, and the drift of the loop      *)
(* never costs two nights in a row.                                        *)
(***************************************************************************)
EXTENDS Checklists, FiniteSetTheorems, SequenceTheorems, TLAPS

\* What the command holds between its first query and COMMIT.
Holds(Todos) ==
  [next : {"count"}, todo : Todos, rows : Snapshots, disturbed : BOOLEAN,
   found : SUBSET Checklists, left : SUBSET Checklists,
   counts : [Checklists -> 0 .. Cardinality(Tasks)]]
Held(k) == k \in Holds({k.todo}) /\ k.left \subseteq k.found

Types ==
  /\ task \in [Tasks -> TaskRow \cup {Unused, Gone}]
  /\ log = [c \in Checklists |-> log[c]]
  /\ job \in [Workers -> Job]
  /\ cron.next = "count" => Held(cron)

\* The completed tasks of a checklist, as a query would find them.
DoneOf(c) == {t \in Tasks : Stored(task, t) /\ task[t].checklist = c /\ task[t].is_completed}

\* What an undisturbed command holds is what the tables say: the rows, the completed
\* tasks of each checklist, and the counts taken so far.
Exact ==
  cron.next = "count" /\ ~cron.disturbed =>
    /\ \A t \in DOMAIN cron.rows : task[t] = cron.rows[t]
    /\ \A c \in cron.found : DoneOf(c) = Completed(ItemsOf(c))
    /\ \A c \in cron.found \ cron.left : cron.counts[c] = Cardinality(Completed(ItemsOf(c)))

ResetInv == Types /\ Exact

-----------------------------------------------------------------------------
LEMMA SnapshotOfTasks ==
  ASSUME Types, NEW S \in SUBSET Tasks, \A t \in S : Stored(task, t)
  PROVE  Read(S) \in Snapshots /\ DOMAIN Read(S) = S
<1>1. \A t \in S : task[t] \in TaskRow  BY DEF Types, Stored
<1>2. Read(S) \in [S -> TaskRow]  BY <1>1 DEF Read
<1> QED  BY <1>2 DEF Snapshots

LEMMA RowsOfSnapshot ==
  ASSUME NEW rows \in Snapshots
  PROVE  DOMAIN rows \in SUBSET Tasks /\ \A t \in DOMAIN rows : rows[t] \in TaskRow
BY DEF Snapshots

LEMMA CompletedOfSnapshot ==
  ASSUME NEW rows \in Snapshots
  PROVE  Cardinality(Completed(rows)) \in 0 .. Cardinality(Tasks)
<1>1. Completed(rows) \in SUBSET Tasks  BY RowsOfSnapshot DEF Completed
<1> QED  BY <1>1, RowsAssumption, FS_Subset, FS_CardinalityType

\* A request marks a running command, and does nothing else to it.
LEMMA Disturbed ==
  ASSUME Types, NEW S, Disturbing(S)
  PROVE  \/ cron' = cron /\ (cron.next = "count" => S = {})
         \/ cron'.next = "count" /\ cron'.disturbed /\ Held(cron')
<1>1. CASE cron.next = "count" /\ S # {}
  <2> DEFINE k == [cron EXCEPT !.disturbed = TRUE]
  <2>1. cron' = k  BY <1>1 DEF Disturbing
  <2>2. Held(cron)  BY <1>1 DEF Types
  <2>3. k \in Holds({cron.todo}) /\ k.todo = cron.todo /\ k.left = cron.left
        /\ k.found = cron.found /\ k.disturbed = TRUE
    BY <2>2 DEF Held, Holds
  <2> HIDE DEF k
  <2>4. Held(k) /\ k.next = "count" /\ k.disturbed  BY <2>2, <2>3 DEF Held, Holds
  <2> QED  BY <2>1, <2>4
<1>2. CASE ~(cron.next = "count" /\ S # {})  BY <1>2 DEF Disturbing
<1> QED  BY <1>1, <1>2

\* Rows inserted by a request do not disturb: none of them is completed.
LEMMA InsertKeepsExact ==
  ASSUME ResetInv, NEW new \in SUBSET Tasks, \A t \in new : Fresh(task, t),
         NEW c \in Checklists, cron' = cron,
         task' = [t \in Tasks |->
           IF t \in new THEN [checklist |-> c, is_completed |-> FALSE] ELSE task[t]]
  PROVE  Exact'
<1> SUFFICES ASSUME cron.next = "count", ~cron.disturbed PROVE Exact'
  BY DEF Exact
<1>1. /\ \A t \in DOMAIN cron.rows : task[t] = cron.rows[t]
      /\ \A d \in cron.found : DoneOf(d) = Completed(ItemsOf(d))
      /\ \A d \in cron.found \ cron.left : cron.counts[d] = Cardinality(Completed(ItemsOf(d)))
  BY DEF ResetInv, Exact
<1>2. cron.rows \in Snapshots  BY DEF ResetInv, Types, Held, Holds
<1>3. \A t \in DOMAIN cron.rows : t \in Tasks /\ t \notin new
  BY <1>1, <1>2, RowsOfSnapshot, RowsAssumption DEF Fresh
<1>4. \A t \in DOMAIN cron.rows : task'[t] = cron.rows[t]  BY <1>1, <1>3
<1>5. \A d : DoneOf(d)' = DoneOf(d)
  <2>1. \A t \in new : ~Stored(task, t) /\ ~task'[t].is_completed  BY DEF Fresh, Stored
  <2>2. \A t \in Tasks \ new : task'[t] = task[t]  OBVIOUS
  <2> QED  BY <2>1, <2>2 DEF DoneOf, Stored
<1>6. \A d : ItemsOf(d)' = ItemsOf(d)  BY DEF ItemsOf
<1>7. \A d : Completed(ItemsOf(d))' = Completed(ItemsOf(d))  BY <1>6 DEF Completed
<1> HIDE DEF Completed
<1> QED  BY <1>1, <1>4, <1>5, <1>7 DEF Exact


\* The rows of a checklist among those the command has read.
LEMMA ItemsTypes ==
  ASSUME Held(cron), NEW c \in Checklists
  PROVE  /\ ItemsOf(c) \in Snapshots
         /\ Completed(ItemsOf(c)) =
              {t \in DOMAIN cron.rows : cron.rows[t].checklist = c /\ cron.rows[t].is_completed}
<1>1. cron.rows \in Snapshots  BY DEF Held, Holds
<1>2. DOMAIN cron.rows \in SUBSET Tasks /\ \A t \in DOMAIN cron.rows : cron.rows[t] \in TaskRow
  BY <1>1, RowsOfSnapshot
<1> DEFINE D == {u \in DOMAIN cron.rows : cron.rows[u].checklist = c}
<1>3. ItemsOf(c) \in [D -> TaskRow]  BY <1>2 DEF ItemsOf
<1>4. ItemsOf(c) \in Snapshots  BY <1>2, <1>3 DEF Snapshots
<1>5. Completed(ItemsOf(c)) = {t \in D : cron.rows[t].is_completed}
  BY DEF Completed, ItemsOf
<1> QED  BY <1>4, <1>5

\* The command begins with what the tables say.
LEMMA LoadKeepsInv ==
  ASSUME ResetInv, Load
  PROVE  ResetInv'
<1> DEFINE found == OfFrequency(Head(cron.todo))
           S == TasksOf(found)
<1>1. found \in SUBSET Checklists  BY DEF OfFrequency
<1>2. S \in SUBSET Tasks /\ \A t \in S : Stored(task, t)  BY DEF TasksOf
<1>3. Read(S) \in Snapshots /\ DOMAIN Read(S) = S
  BY <1>2, SnapshotOfTasks DEF ResetInv
<1>4. cron' = [next |-> "count", todo |-> cron.todo, rows |-> Read(S), disturbed |-> FALSE,
               found |-> found, left |-> found, counts |-> [c \in Checklists |-> 0]]
  BY DEF Load
<1>5. task' = task /\ job' = job /\ log' = NoLog  BY DEF Load
<1>6. \A t \in S : Read(S)[t] = task[t]  BY DEF Read
<1> HIDE DEF found, S
<1>7. 0 \in 0 .. Cardinality(Tasks)
  BY RowsAssumption, FS_CardinalityType
<1>8. Held(cron')  BY <1>1, <1>3, <1>4, <1>7 DEF Held, Holds
<1>9. Types'  BY <1>5, <1>8 DEF ResetInv, Types, NoLog
<1>10. ASSUME NEW c \in found PROVE DoneOf(c)' = Completed(ItemsOf(c))'
  <2>1. Held(cron)' /\ c \in Checklists  BY <1>8, <1>1, <1>10
  <2>2. Completed(ItemsOf(c))' =
          {t \in DOMAIN cron'.rows : cron'.rows[t].checklist = c /\ cron'.rows[t].is_completed}
    <3>1. cron'.rows \in Snapshots  BY <1>3, <1>4
    <3> QED  BY DEF Completed, ItemsOf
  <2>3. @ = {t \in S : task[t].checklist = c /\ task[t].is_completed}
    BY <1>3, <1>4, <1>6
  <2>4. @ = {t \in Tasks : Stored(task, t) /\ task[t].checklist = c /\ task[t].is_completed}
    BY <1>10 DEF S, TasksOf
  <2> QED  BY <2>2, <2>3, <2>4, <1>5 DEF DoneOf, Stored
<1>11. \A t \in DOMAIN cron'.rows : task'[t] = cron'.rows[t]  BY <1>3, <1>4, <1>5, <1>6
<1>12. cron'.found = found /\ cron'.found \ cron'.left = {}  BY <1>4
<1>13. Exact'  BY <1>10, <1>11, <1>12 DEF Exact
<1> QED  BY <1>9, <1>13 DEF ResetInv


\* The number of completed tasks, a query of its own, is that of the rows read before.
LEMMA CountKeepsInv ==
  ASSUME ResetInv, NEW c \in Checklists, Count(c)
  PROVE  ResetInv'
<1> DEFINE n == Cardinality(Completed(Read(TasksOf({c}))))
           k == [cron EXCEPT !.left = @ \ {c}]
           l == [k EXCEPT !.counts[c] = n]
<1>1. Held(cron) /\ cron.next = "count" /\ c \in cron.left
  BY DEF ResetInv, Types, Count
<1>2. TasksOf({c}) \in SUBSET Tasks /\ \A t \in TasksOf({c}) : Stored(task, t)
  BY DEF TasksOf
<1>3. Read(TasksOf({c})) \in Snapshots /\ DOMAIN Read(TasksOf({c})) = TasksOf({c})
  BY <1>2, SnapshotOfTasks DEF ResetInv
<1>4. n \in 0 .. Cardinality(Tasks)  BY <1>3, CompletedOfSnapshot
<1>5. Completed(Read(TasksOf({c}))) = DoneOf(c)
  BY <1>3 DEF Completed, Read, TasksOf, DoneOf
<1>6. cron' = l /\ task' = task /\ job' = job /\ log' = log
  BY DEF Count, tables
<1>7. /\ k \in Holds({cron.todo}) /\ k.todo = cron.todo /\ k.left = cron.left \ {c}
      /\ k.found = cron.found /\ k.rows = cron.rows /\ k.counts = cron.counts
      /\ k.disturbed = cron.disturbed
  BY <1>1 DEF Held, Holds
<1> HIDE DEF n, k
<1>8. /\ l \in Holds({cron.todo}) /\ l.todo = cron.todo /\ l.left = cron.left \ {c}
      /\ l.found = cron.found /\ l.rows = cron.rows /\ l.disturbed = cron.disturbed
      /\ l.counts = [cron.counts EXCEPT ![c] = n]
  BY <1>4, <1>7 DEF Holds
<1> HIDE DEF l
<1>9. Held(cron')  BY <1>1, <1>6, <1>8 DEF Held
<1>10. Types'  BY <1>6, <1>9 DEF ResetInv, Types
<1>11. \A d : DoneOf(d)' = DoneOf(d) /\ ItemsOf(d)' = ItemsOf(d)
  BY <1>6, <1>8 DEF DoneOf, ItemsOf, Stored
<1>12. \A d : Completed(ItemsOf(d))' = Completed(ItemsOf(d))  BY <1>11 DEF Completed
<1>13. Exact'
  <2> SUFFICES ASSUME ~cron.disturbed PROVE Exact'  BY <1>6, <1>8 DEF Exact
  <2>1. /\ \A t \in DOMAIN cron.rows : task[t] = cron.rows[t]
        /\ \A d \in cron.found : DoneOf(d) = Completed(ItemsOf(d))
        /\ \A d \in cron.found \ cron.left : cron.counts[d] = Cardinality(Completed(ItemsOf(d)))
    BY <1>1 DEF ResetInv, Exact
  <2>2. n = Cardinality(Completed(ItemsOf(c)))
    BY <1>1, <1>5, <2>1 DEF Held, n
  <2>3. ASSUME NEW d \in cron.found \ (cron.left \ {c})
        PROVE  cron'.counts[d] = Cardinality(Completed(ItemsOf(d)))
    <3>1. d \in Checklists /\ cron.counts \in [Checklists -> 0 .. Cardinality(Tasks)]
      BY <1>1 DEF Held, Holds
    <3>2. cron'.counts[d] = IF d = c THEN n ELSE cron.counts[d]  BY <3>1, <1>6, <1>8
    <3> QED  BY <3>2, <2>1, <2>2, <2>3
  <2> HIDE DEF Completed
  <2> QED  BY <2>1, <2>3, <1>6, <1>8, <1>11, <1>12 DEF Exact
<1> QED  BY <1>10, <1>13 DEF ResetInv

\* A request that writes rows of S disturbs a running command, unless S is empty.
LEMMA RequestKeepsInv ==
  ASSUME ResetInv, NEW S, Request(S), S = {} => task' = task,
         task' \in [Tasks -> TaskRow \cup {Unused, Gone}], job' \in [Workers -> Job]
  PROVE  ResetInv'
<1>1. log' = log /\ Disturbing(S)  BY DEF Request
<1>2. CASE cron' = cron /\ (cron.next = "count" => S = {})
  <2>1. Types'  BY <1>1, <1>2 DEF ResetInv, Types
  <2>2. CASE cron.next = "count"
    <3>1. task' = task  BY <1>2, <2>2
    <3>2. \A d : DoneOf(d)' = DoneOf(d) /\ ItemsOf(d)' = ItemsOf(d)
      BY <3>1, <1>2 DEF DoneOf, ItemsOf, Stored
    <3>3. \A d : Completed(ItemsOf(d))' = Completed(ItemsOf(d))  BY <3>2 DEF Completed
    <3> HIDE DEF Completed
    <3>4. Exact'  BY <3>1, <3>2, <3>3, <1>2 DEF ResetInv, Exact
    <3> QED  BY <2>1, <3>4 DEF ResetInv
  <2>3. CASE cron.next # "count"  BY <2>1, <2>3, <1>2 DEF ResetInv, Exact
  <2> QED  BY <2>2, <2>3
<1>3. CASE cron'.next = "count" /\ cron'.disturbed /\ Held(cron')
  BY <1>1, <1>3 DEF ResetInv, Types, Exact
<1> QED  BY <1>1, <1>2, <1>3, Disturbed DEF ResetInv

\* A step after which no command runs.
LEMMA NoCommandKeepsInv ==
  ASSUME ResetInv, cron'.next # "count", log' = [c \in Checklists |-> log'[c]],
         task' \in [Tasks -> TaskRow \cup {Unused, Gone}], job' = job
  PROVE  ResetInv'
BY DEF ResetInv, Types, Exact

LEMMA CommitKeepsInv ==
  ASSUME ResetInv, Commit
  PROVE  ResetInv'
<1>1. Held(cron)  BY DEF Commit, ResetInv, Types
<1>2. /\ DOMAIN cron.rows \in SUBSET Tasks
      /\ \A t \in DOMAIN cron.rows : cron.rows[t] \in TaskRow
  BY <1>1, RowsOfSnapshot DEF Held, Holds
<1>3. \A t \in DOMAIN cron.rows : [cron.rows[t] EXCEPT !.is_completed = FALSE] \in TaskRow
  BY <1>2 DEF TaskRow
<1>4. Unticked(cron.rows) \in [Tasks -> TaskRow \cup {Unused, Gone}]
  BY <1>2, <1>3 DEF Unticked, ResetInv, Types
<1>5. cron'.next # "count"  BY DEF Commit, NextCommand
<1>6. log' = [c \in Checklists |-> log'[c]]  BY DEF Commit
<1> QED  BY <1>4, <1>5, <1>6, NoCommandKeepsInv DEF Commit


\* A request that only inserts tasks.
LEMMA InsertKeepsInv ==
  ASSUME ResetInv, NEW new \in SUBSET Tasks, \A t \in new : Fresh(task, t),
         NEW c \in Checklists, Request({}),
         task' = [t \in Tasks |->
           IF t \in new THEN [checklist |-> c, is_completed |-> FALSE] ELSE task[t]],
         job' \in [Workers -> Job]
  PROVE  ResetInv'
<1>1. cron' = cron /\ log' = log  BY DEF Request, Disturbing
<1>2. [checklist |-> c, is_completed |-> FALSE] \in TaskRow  BY DEF TaskRow
<1>3. task' \in [Tasks -> TaskRow \cup {Unused, Gone}]  BY <1>2 DEF ResetInv, Types
<1>4. Types'  BY <1>1, <1>3 DEF ResetInv, Types
<1>5. Exact'  BY <1>1, InsertKeepsExact
<1> QED  BY <1>4, <1>5 DEF ResetInv

LEMMA UserStepKeepsInv ==
  ASSUME ResetInv, UserStep
  PROVE  ResetInv'
<1>1. /\ task \in [Tasks -> TaskRow \cup {Unused, Gone}]
      /\ job \in [Workers -> Job]
      /\ Idle \in Job
  BY DEF ResetInv, Types, Job
<1>2. ASSUME NEW w \in Workers, NEW j \in Job, job' = [job EXCEPT ![w] = j]
      PROVE  job' \in [Workers -> Job]
  BY <1>1, <1>2
<1>3. ASSUME NEW t \in Tasks, Stored(task, t) PROVE task[t] \in TaskRow
  BY <1>1, <1>3 DEF Stored
<1>4. ASSUME NEW w \in Workers, NEW c \in Checklists, NEW f, CreateChecklist(w, c, f)
      PROVE  ResetInv'
  <2>1. [next |-> "add_tasks", id |-> c] \in Job  BY DEF Job
  <2>2. job' \in [Workers -> Job]  BY <2>1, <1>2, <1>4 DEF CreateChecklist
  <2> QED  BY <2>2, <1>1, <1>4, RequestKeepsInv DEF CreateChecklist
<1>5. ASSUME NEW w \in Workers, NEW t \in Tasks, AddTask(w, t)
      PROVE  ResetInv'
  <2>1. PICK c : c = job[w].id  OBVIOUS
  <2>2. c \in Checklists
    <3>1. job[w] \in Job /\ job[w] # Idle /\ job[w].next = "add_tasks"
      BY <1>1, <1>5 DEF AddTask, At
    <3> QED  BY <3>1, <2>1 DEF Job
  <2>3. task' = [u \in Tasks |->
          IF u \in {t} THEN [checklist |-> c, is_completed |-> FALSE] ELSE task[u]]
    BY <1>1, <1>5, <2>1 DEF AddTask
  <2>4. Request({}) /\ job' = job /\ Fresh(task, t)  BY <1>5 DEF AddTask
  <2> QED  BY <2>2, <2>3, <2>4, <1>1, InsertKeepsInv
<1>6. ASSUME NEW w \in Workers, NEW c \in Checklists, ReadChecklist(w, c)
      PROVE  ResetInv'
  <2>1. TasksOf({c}) \in SUBSET Tasks /\ \A t \in TasksOf({c}) : Stored(task, t)
    BY DEF TasksOf
  <2>2. Read(TasksOf({c})) \in Snapshots  BY <2>1, SnapshotOfTasks DEF ResetInv
  <2>3. [next |-> "save_checklist", id |-> c, rows |-> Read(TasksOf({c}))] \in Job
    BY <2>2 DEF Job
  <2>4. job' \in [Workers -> Job]  BY <2>3, <1>2, <1>6 DEF ReadChecklist
  <2> QED  BY <2>4, <1>1, <1>6, RequestKeepsInv DEF ReadChecklist
<1>7. ASSUME NEW w \in Workers, At(w, "save_checklist")
      PROVE  job[w].id \in Checklists /\ job[w].rows \in Snapshots
  <2>1. job[w] \in Job /\ job[w] # Idle /\ job[w].next = "save_checklist"
    BY <1>1, <1>7 DEF At
  <2> QED  BY <2>1 DEF Job
<1>8. ASSUME NEW w \in Workers, NEW f, NEW sent \in SUBSET Tasks, NEW new \in SUBSET Tasks,
             SaveChecklist(w, f, sent, new)
      PROVE  ResetInv'
  <2>1. PICK c, rows : c = job[w].id /\ rows = job[w].rows  OBVIOUS
  <2>2. c \in Checklists /\ rows \in Snapshots  BY <1>7, <1>8, <2>1 DEF SaveChecklist
  <2>3. /\ sent \subseteq DOMAIN rows /\ \A t \in new : Fresh(task, t)
        /\ task' = [t \in Tasks |->
             IF t \in new THEN [checklist |-> c, is_completed |-> FALSE]
             ELSE IF t \in sent THEN rows[t]
             ELSE IF t \in DOMAIN rows THEN Gone ELSE task[t]]
        /\ Request(DOMAIN rows)
    BY <1>8, <2>1 DEF SaveChecklist
  <2>4. job' \in [Workers -> Job]  BY <1>1, <1>2, <1>8 DEF SaveChecklist, Done
  <2>5. CASE DOMAIN rows = {}
    <3>1. task' = [t \in Tasks |->
            IF t \in new THEN [checklist |-> c, is_completed |-> FALSE] ELSE task[t]]
      BY <2>3, <2>5
    <3> QED  BY <3>1, <2>2, <2>3, <2>4, <2>5, InsertKeepsInv
  <2>6. CASE DOMAIN rows # {}
    <3>1. \A t \in DOMAIN rows : rows[t] \in TaskRow  BY <2>2, RowsOfSnapshot
    <3>2. [checklist |-> c, is_completed |-> FALSE] \in TaskRow  BY <2>2 DEF TaskRow
    <3>3. task' \in [Tasks -> TaskRow \cup {Unused, Gone}]  BY <3>1, <3>2, <2>3, <1>1
    <3> QED  BY <3>3, <2>3, <2>4, <2>6, RequestKeepsInv
  <2> QED  BY <2>5, <2>6
<1>9. ASSUME NEW w \in Workers, NEW f, SaveTitle(w, f)
      PROVE  ResetInv'
  <2>1. job' \in [Workers -> Job]  BY <1>1, <1>2, <1>9 DEF SaveTitle, Done
  <2> QED  BY <2>1, <1>1, <1>9, RequestKeepsInv DEF SaveTitle
<1>10. ASSUME NEW c \in Checklists, DestroyChecklist(c)
       PROVE  ResetInv'
  <2>1. task' \in [Tasks -> TaskRow \cup {Unused, Gone}]  BY <1>1, <1>10 DEF DestroyChecklist
  <2>2. Request({c}) /\ job' = job  BY <1>10 DEF DestroyChecklist
  <2> QED  BY <2>1, <2>2, <1>1, RequestKeepsInv
<1>11. ASSUME NEW w \in Workers, NEW t \in Tasks, ReadTask(w, t)
       PROVE  ResetInv'
  <2>1. task[t] \in TaskRow  BY <1>3, <1>11 DEF ReadTask
  <2>2. [next |-> "save_task", id |-> t, row |-> task[t]] \in Job  BY <2>1 DEF Job
  <2>3. job' \in [Workers -> Job]  BY <2>2, <1>2, <1>11 DEF ReadTask
  <2> QED  BY <2>3, <1>1, <1>11, RequestKeepsInv DEF ReadTask
<1>12. ASSUME NEW w \in Workers, NEW is_completed \in BOOLEAN, SaveTask(w, is_completed)
       PROVE  ResetInv'
  <2>1. PICK t, r : t = job[w].id /\ r = job[w].row  OBVIOUS
  <2>2. t \in Tasks /\ r \in TaskRow
    <3>1. job[w] \in Job /\ job[w] # Idle /\ job[w].next = "save_task"
      BY <1>1, <1>12 DEF SaveTask, At
    <3> QED  BY <3>1, <2>1 DEF Job
  <2>3. [r EXCEPT !.is_completed = is_completed] \in TaskRow  BY <2>2 DEF TaskRow
  <2>4. task' = [task EXCEPT ![t] = [r EXCEPT !.is_completed = is_completed]]
    BY <1>12, <2>1 DEF SaveTask
  <2>5. task' \in [Tasks -> TaskRow \cup {Unused, Gone}]
    <3> PICK q : q = [r EXCEPT !.is_completed = is_completed]  OBVIOUS
    <3>1. q \in TaskRow /\ task' = [task EXCEPT ![t] = q]  BY <2>3, <2>4
    <3> QED  BY <3>1, <2>2, <1>1
  <2>6. job' \in [Workers -> Job]  BY <1>1, <1>2, <1>12 DEF SaveTask, Done
  <2>7. Request({t})  BY <1>12, <2>1 DEF SaveTask
  <2> QED  BY <2>5, <2>6, <2>7, RequestKeepsInv
<1>13. ASSUME NEW t \in Tasks, DestroyTask(t)
       PROVE  ResetInv'
  <2>1. task' \in [Tasks -> TaskRow \cup {Unused, Gone}]  BY <1>1, <1>13 DEF DestroyTask
  <2>2. Request({t}) /\ job' = job  BY <1>13 DEF DestroyTask
  <2> QED  BY <2>1, <2>2, <1>1, RequestKeepsInv
<1>14. ASSUME NEW w \in Workers, Leave(w)
       PROVE  ResetInv'
  <2>1. job' \in [Workers -> Job]  BY <1>1, <1>2, <1>14 DEF Leave, Done
  <2> QED  BY <2>1, <1>1, <1>14, RequestKeepsInv DEF Leave
<1> QED
  BY <1>4, <1>5, <1>6, <1>8, <1>9, <1>10, <1>11, <1>12, <1>13, <1>14 DEF UserStep

-----------------------------------------------------------------------------
\* What an undisturbed command holds is what the tables say, at every moment of every run.
LEMMA ResetInvHolds == Spec => []ResetInv
<1>1. Init => ResetInv
  BY DEF Init, ResetInv, Types, Exact, NoLog, Awake, Job
<1>2. ResetInv /\ [Next]_vars => ResetInv'
  <2> SUFFICES ASSUME ResetInv, [Next]_vars PROVE ResetInv'  OBVIOUS
  <2> USE DEF NoLog
  <2>1. task \in [Tasks -> TaskRow \cup {Unused, Gone}] /\ log = [c \in Checklists |-> log[c]]
    BY DEF ResetInv, Types
  <2>2. CASE UNCHANGED <<task, log, cron, job>>
    <3>1. \A d : DoneOf(d)' = DoneOf(d) /\ ItemsOf(d)' = ItemsOf(d)
      BY <2>2 DEF DoneOf, ItemsOf, Stored
    <3>2. \A d : Completed(ItemsOf(d))' = Completed(ItemsOf(d))  BY <3>1 DEF Completed
    <3> HIDE DEF Completed
    <3> QED  BY <2>2, <3>1, <3>2 DEF ResetInv, Types, Exact
  <2>3. CASE cron'.next # "count" /\ job' = job /\ task' = task
             /\ (log' = log \/ log' = NoLog)
    <3>1. log' = [c \in Checklists |-> log'[c]]  BY <2>1, <2>3
    <3> QED  BY <2>1, <2>3, <3>1, NoCommandKeepsInv
  <2>4. CASE PassBy  BY <2>4, <2>2 DEF PassBy, tables
  <2>5. CASE Notice  BY <2>5, <2>3 DEF Notice, tables
  <2>6. CASE Finish  BY <2>6, <2>3 DEF Finish, Awake
  <2>7. CASE FindNone  BY <2>7, <2>3 DEF FindNone, NextCommand, tables
  <2>8. CASE Abort  BY <2>8, <2>3 DEF Abort, NextCommand, tables
  <2>9. CASE Fail  BY <2>9, <2>3 DEF Fail, NextCommand, tables
  <2>10. CASE Restart  BY <2>10, <2>3 DEF Restart, Awake
  <2>11. CASE UNCHANGED vars  BY <2>11, <2>2 DEF vars, tables
  <2> QED
    BY <2>4, <2>5, <2>6, <2>7, <2>8, <2>9, <2>10, <2>11, LoadKeepsInv, CountKeepsInv,
       CommitKeepsInv, UserStepKeepsInv DEF Next, Scheduler
<1> QED  BY <1>1, <1>2, PTL DEF Spec


-----------------------------------------------------------------------------
\* Logs appear at COMMIT and never else.
LEMMA OnlyCommitLogs ==
  ASSUME [Next]_vars, NewLogs # {}
  PROVE  Commit
<1>1. log' # log /\ log' # NoLog  BY DEF NewLogs, NoLog
<1>2. log' = log \/ log' = NoLog \/ Commit
  <2>1. Scheduler => log' = log \/ log' = NoLog \/ Commit
    BY DEF Scheduler, PassBy, Notice, Finish, FindNone, Load, Count, Abort, tables
  <2>2. Fail \/ Restart \/ UNCHANGED vars => log' = log \/ log' = NoLog
    BY DEF Fail, Restart, vars, tables
  <2>3. UserStep => log' = log
    BY DEF UserStep, CreateChecklist, AddTask, ReadChecklist, SaveChecklist, SaveTitle,
           DestroyChecklist, ReadTask, SaveTask, DestroyTask, Leave, Request
  <2> QED  BY <2>1, <2>2, <2>3 DEF Next
<1> QED  BY <1>1, <1>2

\* What COMMIT makes visible.
LEMMA CommitLogs ==
  ASSUME ResetInv, Commit
  PROVE  /\ Held(cron) /\ cron.left = {} /\ cron.next = "count"
         /\ \A c \in cron.found : log'[c] = Logged(c, cron.counts[c]) /\ log'[c] # Unused
         /\ NewLogs \subseteq cron.found
         /\ task' = Unticked(cron.rows)
<1>1. Held(cron) /\ cron.left = {} /\ cron.next = "count" /\ task' = Unticked(cron.rows)
  BY DEF ResetInv, Types, Commit
<1>2. cron.found \in SUBSET Checklists /\ cron.counts \in [Checklists -> 0 .. Cardinality(Tasks)]
  BY <1>1 DEF Held, Holds
<1>3. \A c \in Checklists :
        log'[c] = IF c \in cron.found THEN Logged(c, cron.counts[c]) ELSE log[c]
  BY DEF Commit
<1>4. ASSUME NEW c \in cron.found PROVE Logged(c, cron.counts[c]) \in LogRow
  <2>1. cron.counts[c] \in 0 .. Cardinality(Tasks) /\ c \in Checklists  BY <1>2, <1>4
  <2>2. ItemsOf(c) \in Snapshots  BY <1>1, <2>1, ItemsTypes
  <2> QED  BY <2>1, <2>2 DEF Logged, LogRow
<1>5. \A c \in cron.found : log'[c] = Logged(c, cron.counts[c]) /\ log'[c] # Unused
  BY <1>2, <1>3, <1>4, RowsAssumption
<1>6. NewLogs \subseteq cron.found  BY <1>3 DEF NewLogs
<1> QED  BY <1>1, <1>5, <1>6

\* An undisturbed reset archives the tasks as they stood, and the number of completed
\* ones, counted by queries of its own, is that of the archived items.
THEOREM SnapshotExactHolds == Spec => SnapshotExact
<1>1. ASSUME ResetInv, [Next]_vars, NewLogs # {}, ~cron.disturbed, NEW c \in cron.found
      PROVE  /\ \A t \in DOMAIN log'[c].items : log'[c].items[t] = task[t]
             /\ log'[c].completed_tasks = Cardinality(Completed(log'[c].items))
  <2>1. Commit  BY <1>1, OnlyCommitLogs
  <2>2. /\ cron.left = {} /\ cron.next = "count"
        /\ log'[c] = Logged(c, cron.counts[c])
    BY <1>1, <2>1, CommitLogs
  <2>3. log'[c].items = ItemsOf(c) /\ log'[c].completed_tasks = cron.counts[c]
    BY <2>2 DEF Logged
  <2>4. /\ \A t \in DOMAIN cron.rows : task[t] = cron.rows[t]
        /\ cron.counts[c] = Cardinality(Completed(ItemsOf(c)))
    BY <1>1, <2>2 DEF ResetInv, Exact
  <2>5. \A t \in DOMAIN ItemsOf(c) : ItemsOf(c)[t] = task[t]  BY <2>4 DEF ItemsOf
  <2> QED  BY <2>3, <2>4, <2>5
<1>2. ResetInv /\ [Next]_vars =>
        [NewLogs # {} /\ ~cron.disturbed =>
           \A c \in cron.found :
             /\ \A t \in DOMAIN log'[c].items : log'[c].items[t] = task[t]
             /\ log'[c].completed_tasks = Cardinality(Completed(log'[c].items))]_vars
  BY <1>1
<1> QED  BY <1>2, ResetInvHolds, PTL DEF Spec, SnapshotExact

-----------------------------------------------------------------------------
(* The commands of a night *)

LEMMA TwoAndOne ==
  ASSUME NEW a, NEW b, NEW c
  PROVE  <<a, b>> \o <<c>> = <<a, b, c>>
<1>a. PICK S, s, r, t : S = {a, b, c} /\ s = <<a, b>> /\ r = <<c>> /\ t = <<a, b, c>>  OBVIOUS
<1>1. s \in Seq(S) /\ Len(s) = 2 /\ s[1] = a /\ s[2] = b /\ r \in Seq(S) /\ Len(r) = 1 /\ r[1] = c
  BY <1>a
<1>2. t \in Seq(S) /\ Len(t) = 3 /\ t[1] = a /\ t[2] = b /\ t[3] = c  BY <1>a
<1>3. /\ s \o r \in Seq(S) /\ Len(s \o r) = Len(s) + Len(r)
      /\ \A i \in 1 .. Len(s) + Len(r) :
           (s \o r)[i] = IF i <= Len(s) THEN s[i] ELSE r[i - Len(s)]
  BY <1>1, ConcatProperties
<1>4. \A i \in 1 .. 3 : (s \o r)[i] = t[i]  BY <1>1, <1>2, <1>3
<1>5. s \o r = t  BY <1>1, <1>2, <1>3, <1>4, SeqEqual
<1> QED  BY <1>a, <1>5

LEMMA OneAndOne ==
  ASSUME NEW a, NEW b
  PROVE  <<a>> \o <<b>> = <<a, b>>
<1>a. PICK S, s, r, t : S = {a, b} /\ s = <<a>> /\ r = <<b>> /\ t = <<a, b>>  OBVIOUS
<1>1. s \in Seq(S) /\ Len(s) = 1 /\ s[1] = a /\ r \in Seq(S) /\ Len(r) = 1 /\ r[1] = b  BY <1>a
<1>2. t \in Seq(S) /\ Len(t) = 2 /\ t[1] = a /\ t[2] = b  BY <1>a
<1>3. /\ s \o r \in Seq(S) /\ Len(s \o r) = Len(s) + Len(r)
      /\ \A i \in 1 .. Len(s) + Len(r) :
           (s \o r)[i] = IF i <= Len(s) THEN s[i] ELSE r[i - Len(s)]
  BY <1>1, ConcatProperties
<1>4. \A i \in 1 .. 2 : (s \o r)[i] = t[i]  BY <1>1, <1>2, <1>3
<1>5. s \o r = t  BY <1>1, <1>2, <1>3, <1>4, SeqEqual
<1> QED  BY <1>a, <1>5

\* Whatever the day, the DAILY reset is the first command of the night.
LEMMA DailyFirst ==
  ASSUME NEW day
  PROVE  Due(day) \in Commands /\ Due(day) # <<>> /\ Head(Due(day)) = "DAILY"
<1> PICK d, w, m : d = "DAILY" /\ w = "WEEKLY" /\ m = "MONTHLY"  OBVIOUS
<1>1. /\ <<d>> \o <<>> = <<d>> /\ <<d>> \o <<w>> = <<d, w>> /\ <<d, w>> \o <<>> = <<d, w>>
      /\ <<d>> \o <<m>> = <<d, m>> /\ <<d, w>> \o <<m>> = <<d, w, m>>
  BY OneAndOne, TwoAndOne
<1>2. Due(day) = <<d>> \o (IF day \in Saturdays THEN <<w>> ELSE <<>>)
                       \o (IF day \in Lasts THEN <<m>> ELSE <<>>)
  BY DEF Due
<1>3. Due(day) \in {<<d>>, <<d, w>>, <<d, m>>, <<d, w, m>>}  BY <1>1, <1>2, Zenon
<1>4. Due(day) \in Commands  BY <1>3 DEF Commands
<1>5. Head(<<d>>) = d /\ Head(<<d, w>>) = d /\ Head(<<d, m>>) = d /\ Head(<<d, w, m>>) = d
  OBVIOUS
<1>6. <<d>> # <<>> /\ <<d, w>> # <<>> /\ <<d, m>> # <<>> /\ <<d, w, m>> # <<>>
  OBVIOUS
<1> QED  BY <1>3, <1>4, <1>5, <1>6

LEMMA CommandsLeft ==
  ASSUME NEW todo \in Commands
  PROVE  Tail(todo) \in Commands \cup {<<>>} /\ todo # <<>>
<1> PICK d, w, m : d = "DAILY" /\ w = "WEEKLY" /\ m = "MONTHLY"  OBVIOUS
<1>1. todo \in {<<d>>, <<w>>, <<m>>, <<w, m>>, <<d, w>>, <<d, m>>, <<d, w, m>>}  BY DEF Commands
<1>2. /\ Tail(<<d>>) = <<>> /\ Tail(<<w>>) = <<>> /\ Tail(<<m>>) = <<>>
      /\ Tail(<<w, m>>) = <<m>> /\ Tail(<<d, w>>) = <<w>> /\ Tail(<<d, m>>) = <<m>>
      /\ Tail(<<d, w, m>>) = <<w, m>>
  OBVIOUS
<1>3. /\ <<d>> # <<>> /\ <<w>> # <<>> /\ <<m>> # <<>> /\ <<w, m>> # <<>> /\ <<d, w>> # <<>>
      /\ <<d, m>> # <<>> /\ <<d, w, m>> # <<>>
  OBVIOUS
<1> QED  BY <1>1, <1>2, <1>3, Zenon DEF Commands

-----------------------------------------------------------------------------
(* The clock *)

LEMMA Carry ==
  ASSUME NEW p \in Nat, p > 0, NEW x \in 0 .. 2 * p - 1
  PROVE  IF x < p THEN x \div p = 0 /\ x % p = x ELSE x \div p = 1 /\ x % p = x - p
OBVIOUS

\* The clock n minutes later; it passes 23:00 at most once.
LEMMA ClockAfter ==
  ASSUME clock \in Clock, missed \in Nat, NEW n \in 0 .. 2, NEW phase \in 0 .. Phases - 1,
         After(n, phase)
  PROVE  /\ clock' \in Clock /\ missed' \in Nat
         /\ clock'.phase = phase
         /\ clock'.minute = IF clock.minute + n < Minutes THEN clock.minute + n
                            ELSE clock.minute + n - Minutes
         /\ IF clock.minute <= ResetMinute /\ ResetMinute < clock.minute + n
            THEN missed' = IF clock.done THEN 0 ELSE missed + 1
            ELSE missed' = missed
<1> USE DriftAssumption
<1>1. /\ clock.day \in 0 .. Days - 1 /\ clock.minute \in 0 .. Minutes - 1
      /\ clock.done \in BOOLEAN
  BY DEF Clock
<1>a. PICK minute, day, over, done :
      /\ minute = clock.minute + n
      /\ day = (clock.day + minute \div Minutes) % Days
      /\ over = (\E night \in {ResetMinute, Minutes + ResetMinute} :
                   clock.minute <= night /\ night < minute)
      /\ done = (clock.done /\ ~over)
  OBVIOUS
<1>2. /\ clock' = [day |-> day, minute |-> minute % Minutes, phase |-> phase, done |-> done]
      /\ missed' = IF ~over THEN missed ELSE IF clock.done THEN 0 ELSE missed + 1
  BY <1>a DEF After
<1>3. Minutes > 0 /\ minute \in 0 .. 2 * Minutes - 1  BY <1>1, <1>a
<1>4. IF minute < Minutes THEN minute \div Minutes = 0 /\ minute % Minutes = minute
      ELSE minute \div Minutes = 1 /\ minute % Minutes = minute - Minutes
  BY <1>3, Carry
<1>5. day \in 0 .. Days - 1
  <2> PICK x : x = clock.day + minute \div Minutes  OBVIOUS
  <2>1. x \in Nat /\ day = x % Days  BY <1>1, <1>4, <1>a
  <2> QED  BY <2>1
<1>6. over <=> clock.minute <= ResetMinute /\ ResetMinute < minute
  <2>1. ~(Minutes + ResetMinute < minute)  BY <1>1, <1>a
  <2> QED  BY <1>a, <2>1
<1>7. done \in BOOLEAN  BY <1>a
<1>8. minute % Minutes \in 0 .. Minutes - 1  BY <1>1, <1>3, <1>4
<1>9. clock' \in Clock  BY <1>2, <1>5, <1>7, <1>8 DEF Clock
<1>10. clock'.phase = phase /\ clock'.minute = minute % Minutes  BY <1>2
<1>11. minute = clock.minute + n  BY <1>a
<1>12. missed' \in Nat  BY <1>2
<1>13. IF clock.minute <= ResetMinute /\ ResetMinute < clock.minute + n
       THEN missed' = IF clock.done THEN 0 ELSE missed + 1
       ELSE missed' = missed
  <2>1. CASE over  BY <1>2, <1>6, <1>11, <2>1
  <2>2. CASE ~over  BY <1>2, <1>6, <1>11, <2>2
  <2> QED  BY <2>1, <2>2
<1>14. clock'.minute = IF clock.minute + n < Minutes THEN clock.minute + n
                       ELSE clock.minute + n - Minutes
  <2>1. CASE minute < Minutes  BY <1>1, <1>4, <1>10, <1>11, <2>1
  <2>2. CASE ~(minute < Minutes)  BY <1>1, <1>3, <1>4, <1>10, <1>11, <2>2
  <2> QED  BY <2>1, <2>2
<1> QED  BY <1>9, <1>10, <1>12, <1>13, <1>14

\* What a pass of the loop does to the clock.
LEMMA ClockAsleep ==
  ASSUME clock \in Clock, missed \in Nat, NEW drift \in 0 .. Phases, Asleep(drift)
  PROVE  \E n \in 1 .. 2, phase \in 0 .. Phases - 1 :
           /\ After(n, phase)
           /\ IF clock.phase + drift < Phases
              THEN n = 1 /\ phase = clock.phase + drift
              ELSE n = 2 /\ phase = clock.phase + drift - Phases
<1> USE DriftAssumption
<1>1. clock.phase \in 0 .. Phases - 1  BY DEF Clock
<1> PICK x : x = clock.phase + drift  OBVIOUS
<1>2. Phases \in Nat /\ Phases > 0 /\ x \in 0 .. 2 * Phases - 1  BY <1>1
<1>3. IF x < Phases THEN x \div Phases = 0 /\ x % Phases = x
      ELSE x \div Phases = 1 /\ x % Phases = x - Phases
  BY <1>2, Carry
<1>4. After(1 + x \div Phases, x % Phases)  BY DEF Asleep
<1>5. CASE x < Phases
  <2>1. After(1, x) /\ x \in 0 .. Phases - 1 /\ 1 \in 1 .. 2  BY <1>2, <1>3, <1>4, <1>5
  <2> QED  BY <2>1, <1>5, Zenon
<1>6. CASE ~(x < Phases)
  <2> PICK y : y = x - Phases  OBVIOUS
  <2>1. After(2, y) /\ y \in 0 .. Phases - 1 /\ 2 \in 1 .. 2  BY <1>2, <1>3, <1>4, <1>6
  <2>2. ~(clock.phase + drift < Phases) /\ y = clock.phase + drift - Phases  BY <1>1, <1>6
  <2> QED  BY <2>1, <2>2, Zenon
<1> QED  BY <1>5, <1>6

-----------------------------------------------------------------------------
(* Types *)

LEMMA CronTypes ==
  ASSUME TypeOK
  PROVE  /\ cron # Awake <=> cron.next # "read_clock"
         /\ cron.next \in {"read_clock", "load", "count"}
         /\ cron.next = "load" => cron.todo \in Commands \cup {<<>>}
         /\ cron.next = "count" => /\ cron.todo \in Commands
                                   /\ cron.todo # <<>>
                                   /\ cron.found \in SUBSET Checklists
<1>1. cron \in Cron  BY DEF TypeOK
<1>2. CASE cron = Awake  BY <1>2 DEF Awake
<1>3. CASE cron \in [next : {"load"}, todo : Commands \cup {<<>>}]
  <2> HIDE DEF Commands
  <2> QED  BY <1>3 DEF Awake
<1>4. CASE cron \in Holds(Commands)
  <2>1. cron.next = "count" /\ cron.todo \in Commands /\ cron.found \in SUBSET Checklists
    BY <1>4 DEF Holds
  <2>2. cron.todo # <<>>  BY <2>1, CommandsLeft
  <2> QED  BY <2>1, <2>2 DEF Awake
<1> QED  BY <1>1, <1>2, <1>3, <1>4 DEF Cron, Holds

\* The commands that are left, after one has ended or has been given up.
LEMMA NextCommandTyped ==
  ASSUME TypeOK, cron # Awake, cron.todo # <<>>, NextCommand
  PROVE  cron' \in Cron /\ cron' # Awake /\ cron'.next = "load"
<1>1. cron.todo \in Commands  BY CronTypes
<1>2. PICK rest : rest = Tail(cron.todo)  OBVIOUS
<1>3. rest \in Commands \cup {<<>>}  BY <1>1, <1>2, CommandsLeft
<1>4. cron' = [next |-> "load", todo |-> rest]  BY <1>2 DEF NextCommand
<1> QED  BY <1>3, <1>4 DEF Cron, Awake

\* A request marks a running command, and does nothing else to it.
LEMMA DisturbedTyped ==
  ASSUME TypeOK, NEW S, Disturbing(S)
  PROVE  /\ cron' \in Cron /\ cron'.next = cron.next
         /\ cron.next # "count" => cron' = cron
         /\ cron.next = "count" => cron'.todo = cron.todo /\ cron'.found = cron.found
<1>1. CASE cron.next = "count" /\ S # {}
  <2>1. cron \in Holds(Commands)  BY <1>1 DEF TypeOK, Cron, Awake, Holds
  <2>2. cron' = [cron EXCEPT !.disturbed = TRUE]  BY <1>1 DEF Disturbing
  <2>3. /\ cron' \in Holds(Commands) /\ cron'.next = "count"
        /\ cron'.todo = cron.todo /\ cron'.found = cron.found
    BY <2>1, <2>2 DEF Holds
  <2> QED  BY <1>1, <2>3 DEF Cron, Holds
<1>2. CASE ~(cron.next = "count" /\ S # {})
  BY <1>2 DEF Disturbing, TypeOK
<1> QED  BY <1>1, <1>2

\* The types that ResetInv leaves open.
Rest ==
  /\ checklist \in [Checklists -> ChecklistRow \cup {Unused, Gone}]
  /\ log \in [Checklists -> LogRow \cup {Unused}]
  /\ clock \in Clock /\ missed \in Nat /\ mishaps \in 0 .. MaxMishaps
  /\ cron \in Cron
  /\ cron # Awake => clock.minute = ResetMinute

\* Requests write checklists; the clock and the logs they leave alone.
LEMMA RequestTyped ==
  ASSUME TypeOK, NEW S, Request(S), mishaps' \in 0 .. MaxMishaps,
         checklist' \in [Checklists -> ChecklistRow \cup {Unused, Gone}]
  PROVE  Rest'
<1>1. cron' \in Cron /\ cron'.next = cron.next /\ (cron.next # "count" => cron' = cron)
  BY DisturbedTyped DEF Request
<1>2. cron' # Awake => cron # Awake  BY <1>1, CronTypes DEF Awake
<1> QED  BY <1>1, <1>2 DEF Request, Rest, TypeOK

LEMMA UserStepTyped ==
  ASSUME ResetInv, TypeOK, UserStep
  PROVE  Rest'
<1>1. /\ checklist \in [Checklists -> ChecklistRow \cup {Unused, Gone}]
      /\ mishaps \in 0 .. MaxMishaps /\ job \in [Workers -> Job]
  BY DEF TypeOK
<1>2. ASSUME NEW c \in Checklists, NEW f \in FrequencyInputs,
             checklist' = [checklist EXCEPT ![c] = [frequency |-> f]]
      PROVE  checklist' \in [Checklists -> ChecklistRow \cup {Unused, Gone}]
  BY <1>1, <1>2, DriftAssumption DEF ChecklistRow
<1>3. ASSUME NEW w \in Workers, At(w, "save_checklist")
      PROVE  job[w].id \in Checklists
  <2>1. job[w] \in Job /\ job[w] # Idle /\ job[w].next = "save_checklist"
    BY <1>1, <1>3 DEF At
  <2> QED  BY <2>1 DEF Job
<1>4. ASSUME NEW w \in Workers, NEW c \in Checklists, NEW f \in FrequencyInputs,
             CreateChecklist(w, c, f)
      PROVE  Rest'
  <2>1. checklist' \in [Checklists -> ChecklistRow \cup {Unused, Gone}]
    BY <1>2, <1>4 DEF CreateChecklist
  <2> QED  BY <1>1, <1>4, <2>1, RequestTyped DEF CreateChecklist
<1>5. ASSUME NEW w \in Workers, NEW f \in FrequencyInputs, NEW sent, NEW new,
             SaveChecklist(w, f, sent, new)
      PROVE  Rest'
  <2>1. checklist' \in [Checklists -> ChecklistRow \cup {Unused, Gone}]
    BY <1>2, <1>3, <1>5 DEF SaveChecklist
  <2> QED  BY <1>1, <1>5, <2>1, RequestTyped DEF SaveChecklist
<1>6. ASSUME NEW w \in Workers, NEW f \in FrequencyInputs, SaveTitle(w, f)
      PROVE  Rest'
  <2>1. checklist' \in [Checklists -> ChecklistRow \cup {Unused, Gone}]
    BY <1>2, <1>3, <1>6 DEF SaveTitle
  <2> QED  BY <1>1, <1>6, <2>1, RequestTyped DEF SaveTitle
<1>7. ASSUME NEW c \in Checklists, DestroyChecklist(c)
      PROVE  Rest'
  <2>1. checklist' \in [Checklists -> ChecklistRow \cup {Unused, Gone}]
    BY <1>1, <1>7 DEF DestroyChecklist
  <2>2. mishaps' \in 0 .. MaxMishaps  BY <1>1, <1>7, DriftAssumption DEF DestroyChecklist
  <2> QED  BY <1>7, <2>1, <2>2, RequestTyped DEF DestroyChecklist
<1>8. ASSUME NEW S, Request(S), UNCHANGED <<checklist, mishaps>>
      PROVE  Rest'
  <2>1. /\ checklist' \in [Checklists -> ChecklistRow \cup {Unused, Gone}]
        /\ mishaps' \in 0 .. MaxMishaps
    BY <1>1, <1>8
  <2> QED  BY <1>8, <2>1, RequestTyped
<1>9. ASSUME \/ \E w \in Workers, t \in Tasks : AddTask(w, t)
             \/ \E w \in Workers, c \in Checklists : ReadChecklist(w, c)
             \/ \E w \in Workers, t \in Tasks : ReadTask(w, t)
             \/ \E w \in Workers, is_completed \in BOOLEAN : SaveTask(w, is_completed)
             \/ \E t \in Tasks : DestroyTask(t)
             \/ \E w \in Workers : Leave(w)
      PROVE  Rest'
  BY <1>8, <1>9 DEF AddTask, ReadChecklist, ReadTask, SaveTask, DestroyTask, Leave
<1> QED  BY <1>4, <1>5, <1>6, <1>7, <1>9 DEF UserStep

\* What the loop and its commands write, apart from tasks.
LEMMA SchedulerTyped ==
  ASSUME ResetInv, ResetInv', TypeOK, Scheduler \/ Fail \/ Restart
  PROVE  Rest'
<1> USE DriftAssumption
<1>1. /\ checklist' = checklist
      /\ Rest
  BY DEF TypeOK, Rest, Scheduler, PassBy, Notice, Finish, FindNone, Load, Count, Commit, Abort,
         Fail, Restart, tables
<1>2. NoLog \in [Checklists -> LogRow \cup {Unused}]  BY DEF NoLog
<1>3. ASSUME NEW drift \in 0 .. Phases, Asleep(drift)
      PROVE  clock' \in Clock /\ missed' \in Nat
  <2>1. \E n \in 1 .. 2, phase \in 0 .. Phases - 1 : After(n, phase)
    BY <1>1, <1>3, ClockAsleep DEF Rest
  <2>2. \A n \in 1 .. 2 : n \in 0 .. 2  OBVIOUS
  <2> QED  BY <1>1, <2>1, <2>2, ClockAfter DEF Rest
<1>4. CASE PassBy
  <2>1. PICK drift \in 0 .. 1 : Asleep(drift)  BY <1>4 DEF PassBy
  <2>2. clock' \in Clock /\ missed' \in Nat  BY <1>3, <2>1
  <2>3. UNCHANGED <<log, mishaps, cron>> /\ cron = Awake  BY <1>4 DEF PassBy, tables
  <2> QED  BY <1>1, <2>2, <2>3 DEF Rest
<1>5. CASE Notice
  <2>1. PICK todo : todo = Due(clock.day)  OBVIOUS
  <2>2. todo \in Commands  BY <2>1, DailyFirst
  <2>3. cron' = [next |-> "load", todo |-> todo] /\ clock.minute = ResetMinute
    BY <1>5, <2>1 DEF Notice
  <2>4. cron' \in Cron  BY <2>2, <2>3 DEF Cron
  <2>5. UNCHANGED <<log, clock, missed, mishaps>>  BY <1>5 DEF Notice, tables
  <2> QED  BY <1>1, <2>3, <2>4, <2>5 DEF Rest
<1>6. CASE Finish
  <2>1. PICK drift \in 0 .. Slow : Asleep(drift)  BY <1>6 DEF Finish
  <2>2. clock' \in Clock /\ missed' \in Nat  BY <1>3, <2>1
  <2>3. UNCHANGED mishaps /\ cron' = Awake /\ log' = NoLog  BY <1>6 DEF Finish
  <2>4. cron' \in Cron  BY <2>3 DEF Cron
  <2> QED  BY <1>1, <1>2, <2>2, <2>3, <2>4 DEF Rest
<1>7. ASSUME cron # Awake, cron.todo # <<>>, NextCommand, log' \in [Checklists -> LogRow \cup {Unused}],
             mishaps' \in 0 .. MaxMishaps, missed' = missed, Succeed \/ clock' = clock
      PROVE  Rest'
  <2>1. cron' \in Cron  BY <1>7, NextCommandTyped
  <2>2. clock.minute = ResetMinute  BY <1>1, <1>7 DEF Rest
  <2>3. clock' \in Clock /\ clock'.minute = clock.minute
    <3> PICK d : d = (clock.done \/ Head(cron.todo) = "DAILY")  OBVIOUS
    <3>1. d \in BOOLEAN  OBVIOUS
    <3>2. clock' = clock \/ clock' = [clock EXCEPT !.done = d]  BY <1>7 DEF Succeed
    <3>3. clock \in Clock  BY <1>1 DEF Rest
    <3> QED  BY <3>1, <3>2, <3>3 DEF Clock
  <2> QED  BY <1>1, <1>7, <2>1, <2>2, <2>3 DEF Rest
<1>8. CASE FindNone
  BY <1>1, <1>7, <1>8, CronTypes DEF FindNone, Rest, tables
<1>9. CASE Load
  <2>1. cron'.next = "count" /\ cron'.todo = cron.todo /\ log' = NoLog
        /\ UNCHANGED <<clock, missed, mishaps>>
    BY <1>9 DEF Load
  <2>2. cron.todo \in Commands /\ clock.minute = ResetMinute
    BY <1>1, <1>9, CronTypes DEF Load, Rest
  <2>3. Held(cron)'  BY <2>1 DEF ResetInv, Types
  <2>4. cron' \in Cron  BY <2>1, <2>2, <2>3 DEF Held, Holds, Cron
  <2> QED  BY <1>1, <1>2, <2>1, <2>2, <2>4 DEF Rest
<1>10. ASSUME NEW c \in Checklists, Count(c)
       PROVE  Rest'
  <2>1. cron'.next = "count" /\ cron'.todo = cron.todo
        /\ UNCHANGED <<log, clock, missed, mishaps>>
    <3>1. cron \in Holds(Commands)  BY <1>10 DEF TypeOK, Cron, Awake, Holds, Count
    <3> PICK n : n = Cardinality(Completed(Read(TasksOf({c}))))  OBVIOUS
    <3>2. cron' = [cron EXCEPT !.left = @ \ {c}, !.counts[c] = n]  BY <1>10 DEF Count
    <3> QED  BY <1>10, <3>1, <3>2 DEF Holds, Count, tables
  <2>2. cron.todo \in Commands /\ clock.minute = ResetMinute
    BY <1>1, <1>10, CronTypes DEF Count, Rest
  <2>3. Held(cron)'  BY <2>1 DEF ResetInv, Types
  <2>4. cron' \in Cron  BY <2>1, <2>2, <2>3 DEF Held, Holds, Cron
  <2> QED  BY <1>1, <2>1, <2>2, <2>4 DEF Rest
<1>11. CASE Commit
  <2>1. cron # Awake /\ cron.todo # <<>>  BY <1>11, CronTypes DEF Commit
  <2>2. cron.found \in SUBSET Checklists /\ Held(cron)
    BY <1>11, CronTypes DEF Commit, ResetInv, Types
  <2>3. ASSUME NEW c \in cron.found PROVE Logged(c, cron.counts[c]) \in LogRow
    <3>1. cron.counts[c] \in 0 .. Cardinality(Tasks) /\ c \in Checklists
      BY <2>2 DEF Held, Holds
    <3>2. ItemsOf(c) \in Snapshots  BY <2>2, <3>1, ItemsTypes
    <3> QED  BY <3>1, <3>2 DEF Logged, LogRow
  <2>4. log' = [c \in Checklists |->
                 IF c \in cron.found THEN Logged(c, cron.counts[c]) ELSE log[c]]
    BY <1>11 DEF Commit
  <2>5. log' \in [Checklists -> LogRow \cup {Unused}]
    <3>1. \A c \in Checklists : log[c] \in LogRow \cup {Unused}  BY <1>1 DEF Rest
    <3> HIDE DEF LogRow
    <3> QED  BY <2>3, <2>4, <3>1
  <2> QED  BY <1>1, <1>7, <1>11, <2>1, <2>5 DEF Commit, Rest
<1>12. CASE Abort
  BY <1>1, <1>7, <1>12, CronTypes DEF Abort, Rest, tables
<1>13. CASE Fail
  <2>1. mishaps' \in 0 .. MaxMishaps  BY <1>1, <1>13 DEF Fail, Rest
  <2> QED  BY <1>1, <1>7, <1>13, <2>1 DEF Fail, Rest, tables
<1>14. CASE Restart
  <2>1. PICK n \in 0 .. 1, phase \in 0 .. Phases - 1 : After(n, phase)  BY <1>14 DEF Restart
  <2>2. clock' \in Clock /\ missed' \in Nat  BY <1>1, <2>1, ClockAfter DEF Rest
  <2>3. mishaps' \in 0 .. MaxMishaps  BY <1>1, <1>14 DEF Restart, Rest
  <2>4. cron' = Awake /\ log' = NoLog /\ cron' \in Cron  BY <1>14 DEF Restart, Cron
  <2> QED  BY <1>1, <1>2, <2>2, <2>3, <2>4 DEF Rest
<1> QED
  BY <1>4, <1>5, <1>6, <1>8, <1>9, <1>10, <1>11, <1>12, <1>13, <1>14 DEF Scheduler

LEMMA TypesInductive ==
  ASSUME ResetInv, ResetInv', TypeOK, [Next]_vars
  PROVE  TypeOK'
<1>1. Rest' /\ task' \in [Tasks -> TaskRow \cup {Unused, Gone}] /\ job' \in [Workers -> Job]
      => TypeOK'
  BY DEF Rest, TypeOK
<1>2. task' \in [Tasks -> TaskRow \cup {Unused, Gone}] /\ job' \in [Workers -> Job]
  BY DEF ResetInv, Types
<1>3. CASE UNCHANGED vars  BY <1>3 DEF vars, tables, TypeOK
<1> QED  BY <1>1, <1>2, <1>3, SchedulerTyped, UserStepTyped DEF Next

LEMMA TypesInitially == Init => TypeOK
BY DriftAssumption, RowsAssumption, FS_CardinalityType
   DEF Init, TypeOK, NoLog, Clock, Cron, Awake, Job

\* Whatever clock, calendar and number of users: rows, logs and snapshots have their types,
\* a count is at most the number of tasks, and commands run at 23:00 only.
THEOREM TypesHold == Spec => []TypeOK
<1>1. ResetInv /\ ResetInv' /\ TypeOK /\ [Next]_vars => TypeOK'  BY TypesInductive
<1> QED  BY <1>1, TypesInitially, ResetInvHolds, PTL DEF Spec

-----------------------------------------------------------------------------
(* Missed nights *)

\* For how many minutes the scheduler has not to look at the clock yet.
Ahead ==
  IF clock.minute < ResetMinute THEN ResetMinute - clock.minute
  ELSE ResetMinute + Minutes - clock.minute

\* The drift until then does not add up to a minute: 23:00 will be read.
OnTime == clock.phase + Ahead < Phases

\* The DAILY reset of this night has happened, or is to happen unless something goes wrong.
OnTrack ==
  \/ clock.done
  \/ /\ cron.todo # <<>> /\ Head(cron.todo) = "DAILY"
     /\ cron.next = "count" => \A c \in cron.found : Stored(checklist, c)

\* A night costs at most one reset by drift and one by each mishap; the drift that has cost
\* one leaves the scheduler on time for the next.
NightsInv ==
  /\ missed <= 1 + 2 * mishaps
  /\ cron = Awake /\ clock.minute # ResetMinute => missed <= 2 * mishaps \/ OnTime
  /\ cron # Awake => OnTrack \/ missed < 2 * mishaps

LEMMA NightsTypes ==
  ASSUME TypeOK
  PROVE  /\ clock \in Clock /\ clock.minute \in 0 .. Minutes - 1 /\ clock.phase \in 0 .. Phases - 1
         /\ missed \in Nat /\ mishaps \in Nat
BY DriftAssumption DEF TypeOK, Clock

\* What a mishap costs is allowed for.
LEMMA MishapKeepsNights ==
  ASSUME TypeOK, TypeOK', NightsInv, mishaps' = mishaps + 1, missed' <= missed + 1,
         missed' = missed \/ cron' = Awake
  PROVE  NightsInv'
<1>1. missed \in Nat /\ mishaps \in Nat /\ missed' \in Nat /\ missed <= 1 + 2 * mishaps
  BY NightsTypes DEF NightsInv, TypeOK
<1>2. missed' <= 2 * mishaps' /\ missed' <= 1 + 2 * mishaps'  BY <1>1
<1>3. missed' = missed => missed' < 2 * mishaps'  BY <1>1
<1> QED  BY <1>2, <1>3 DEF NightsInv

\* While the loop is on time it comes closer to 23:00 and stays on time; a night it skips
\* leaves it on time for the next.
LEMMA PassByKeepsNights ==
  ASSUME TypeOK, TypeOK', NightsInv, PassBy
  PROVE  NightsInv'
<1> USE DriftAssumption
<1>1. /\ clock \in Clock /\ clock.minute \in 0 .. Minutes - 1 /\ clock.phase \in 0 .. Phases - 1
      /\ missed \in Nat /\ mishaps \in Nat
  BY NightsTypes
<1>2. PICK drift \in 0 .. 1 : Asleep(drift)  BY DEF PassBy
<1>3. cron = Awake /\ clock.minute # ResetMinute /\ cron' = cron /\ mishaps' = mishaps
  BY DEF PassBy
<1>4. PICK n \in 1 .. 2, phase \in 0 .. Phases - 1 :
        /\ After(n, phase)
        /\ IF clock.phase + drift < Phases THEN n = 1 /\ phase = clock.phase + drift
           ELSE n = 2 /\ phase = clock.phase + drift - Phases
  <2>1. drift \in 0 .. Phases  BY <1>2
  <2> QED  BY <1>1, <1>2, <2>1, ClockAsleep
<1>5. /\ clock'.phase = phase
      /\ clock'.minute = IF clock.minute + n < Minutes THEN clock.minute + n
                         ELSE clock.minute + n - Minutes
      /\ IF clock.minute <= ResetMinute /\ ResetMinute < clock.minute + n
         THEN missed' = IF clock.done THEN 0 ELSE missed + 1
         ELSE missed' = missed
  <2>1. n \in 0 .. 2  OBVIOUS
  <2> QED  BY <1>1, <1>4, <2>1, ClockAfter
<1>6. missed <= 1 + 2 * mishaps /\ (missed <= 2 * mishaps \/ OnTime)
  BY <1>3 DEF NightsInv
<1>7. CASE OnTime
  <2>1. n = 1 /\ phase = clock.phase + drift  BY <1>1, <1>4, <1>7 DEF OnTime, Ahead
  <2>2. missed' = missed  BY <1>1, <1>3, <1>5, <2>1
  <2>3. clock'.minute # ResetMinute => OnTime'
    BY <1>1, <1>3, <1>5, <1>7, <2>1 DEF OnTime, Ahead
  <2> QED  BY <1>3, <1>6, <2>2, <2>3 DEF NightsInv
<1>8. CASE missed <= 2 * mishaps
  <2>1. CASE clock.minute <= ResetMinute /\ ResetMinute < clock.minute + n
    <3>1. n = 2 /\ clock.minute = ResetMinute - 1 /\ phase = clock.phase + drift - Phases
      BY <1>1, <1>3, <1>4, <2>1
    <3>2. phase = 0  BY <1>1, <1>4, <3>1
    <3>3. missed' <= missed + 1  BY <1>1, <1>5, <2>1
    <3>4. OnTime'  BY <1>1, <1>5, <3>1, <3>2 DEF OnTime, Ahead
    <3>5. missed' <= 1 + 2 * mishaps'  BY <1>1, <1>3, <1>5, <1>8, <3>3
    <3> QED  BY <1>3, <3>4, <3>5 DEF NightsInv
  <2>2. CASE ~(clock.minute <= ResetMinute /\ ResetMinute < clock.minute + n)
    <3>1. missed' = missed  BY <1>5, <2>2
    <3> QED  BY <1>1, <1>3, <1>8, <3>1 DEF NightsInv
  <2> QED  BY <2>1, <2>2
<1> QED  BY <1>6, <1>7, <1>8


\* A command that ends as it should resets the DAILY checklists, if it is the DAILY one.
LEMMA SucceedKeepsNights ==
  ASSUME TypeOK, NightsInv, cron # Awake, cron.todo # <<>>, NextCommand, Succeed,
         UNCHANGED <<missed, mishaps>>
  PROVE  NightsInv'
<1>1. cron' # Awake  BY NextCommandTyped
<1>2. clock \in Clock  BY NightsTypes
<1>3. clock'.done = (clock.done \/ Head(cron.todo) = "DAILY")  BY <1>2 DEF Succeed, Clock
<1>4. OnTrack => clock'.done  BY <1>3 DEF OnTrack
<1> QED  BY <1>1, <1>4 DEF NightsInv, OnTrack

\* The DAILY reset only aborts if one of its checklists was deleted: a mishap.
LEMMA AbortKeepsNights ==
  ASSUME TypeOK, NightsInv, Abort
  PROVE  NightsInv'
<1>1. cron # Awake /\ cron.todo # <<>> /\ NextCommand  BY CronTypes DEF Abort
<1>2. cron' # Awake  BY <1>1, NextCommandTyped
<1>3. OnTrack => clock.done  BY DEF OnTrack, Abort
<1>4. UNCHANGED <<clock, missed, mishaps>>  BY DEF Abort
<1> QED  BY <1>1, <1>2, <1>3, <1>4 DEF NightsInv, OnTrack

LEMMA FinishKeepsNights ==
  ASSUME TypeOK, TypeOK', NightsInv, Finish
  PROVE  NightsInv'
<1> USE DriftAssumption
<1>1. /\ clock \in Clock /\ clock.minute \in 0 .. Minutes - 1 /\ clock.phase \in 0 .. Phases - 1
      /\ missed \in Nat /\ mishaps \in Nat
  BY NightsTypes
<1>2. PICK drift \in 0 .. Slow : Asleep(drift)  BY DEF Finish
<1>3. cron' = Awake /\ mishaps' = mishaps /\ cron # Awake /\ cron.todo = <<>>
  BY CronTypes DEF Finish
<1>4. clock.minute = ResetMinute  BY <1>3 DEF TypeOK
<1>5. PICK n \in 1 .. 2, phase \in 0 .. Phases - 1 : After(n, phase)
  <2>1. drift \in 0 .. Phases  BY <1>2
  <2> QED  BY <1>1, <1>2, <2>1, ClockAsleep
<1>6. missed' = IF clock.done THEN 0 ELSE missed + 1
  <2>1. n \in 0 .. 2  OBVIOUS
  <2> QED  BY <1>1, <1>4, <1>5, <2>1, ClockAfter
<1>7. clock.done \/ missed < 2 * mishaps  BY <1>3 DEF NightsInv, OnTrack
<1>8. missed' <= 2 * mishaps'  BY <1>1, <1>3, <1>6, <1>7
<1>9. missed' <= 1 + 2 * mishaps'  BY <1>1, <1>3, <1>6, <1>8
<1> QED  BY <1>3, <1>8, <1>9 DEF NightsInv

LEMMA SchedulerKeepsNights ==
  ASSUME TypeOK, TypeOK', NightsInv, Scheduler \/ Fail \/ Restart
  PROVE  NightsInv'
<1>1. CASE Notice
  <2>1. PICK todo : todo = Due(clock.day)  OBVIOUS
  <2>2. cron' = [next |-> "load", todo |-> todo] /\ todo # <<>> /\ Head(todo) = "DAILY"
    BY <1>1, <2>1, DailyFirst DEF Notice
  <2>3. OnTrack' /\ cron' # Awake  BY <2>2 DEF OnTrack, Awake
  <2> QED  BY <1>1, <2>3 DEF NightsInv, Notice
<1>2. CASE FindNone
  BY <1>2, CronTypes, SucceedKeepsNights DEF FindNone
<1>3. CASE Commit
  BY <1>3, CronTypes, SucceedKeepsNights DEF Commit
<1>4. CASE Load
  <2>1. PICK found : found = OfFrequency(Head(cron.todo))  OBVIOUS
  <2>2. /\ cron'.todo = cron.todo /\ cron'.found = found /\ cron'.next = "count"
        /\ UNCHANGED <<checklist, clock, missed, mishaps>>
    BY <1>4, <2>1 DEF Load
  <2>3. \A c \in found : Stored(checklist, c)  BY <2>1 DEF OfFrequency
  <2>4. OnTrack => OnTrack'  BY <2>2, <2>3 DEF OnTrack, Stored
  <2>5. cron # Awake /\ cron' # Awake  BY <1>4, <2>2, CronTypes DEF Load, Awake
  <2> QED  BY <2>2, <2>4, <2>5 DEF NightsInv
<1>5. ASSUME NEW c \in Checklists, Count(c)
      PROVE  NightsInv'
  <2>1. /\ cron'.todo = cron.todo /\ cron'.found = cron.found /\ cron'.next = "count"
        /\ UNCHANGED <<checklist, clock, missed, mishaps>>
    <3>1. cron \in Holds(Commands)  BY <1>5 DEF TypeOK, Cron, Awake, Holds, Count
    <3> PICK n : n = Cardinality(Completed(Read(TasksOf({c}))))  OBVIOUS
    <3>2. cron' = [cron EXCEPT !.left = @ \ {c}, !.counts[c] = n]  BY <1>5 DEF Count
    <3> QED  BY <1>5, <3>1, <3>2 DEF Holds, Count, tables
  <2>2. cron.next = "count" /\ cron # Awake /\ cron' # Awake
    BY <1>5, <2>1, CronTypes DEF Count, Awake
  <2>3. OnTrack => OnTrack'  BY <2>1, <2>2 DEF OnTrack, Stored
  <2> QED  BY <2>1, <2>2, <2>3 DEF NightsInv
<1>6. CASE Fail
  <2>1. missed' <= missed + 1  BY <1>6, NightsTypes DEF Fail
  <2> QED  BY <1>6, <2>1, MishapKeepsNights DEF Fail
<1>7. CASE Restart
  <2>1. PICK n \in 0 .. 1, phase \in 0 .. Phases - 1 : After(n, phase)  BY <1>7 DEF Restart
  <2>2. n \in 0 .. 2  OBVIOUS
  <2>3. missed' = missed \/ missed' = 0 \/ missed' = missed + 1
    BY <2>1, <2>2, NightsTypes, ClockAfter, Zenon
  <2>4. missed' <= missed + 1  BY <2>3, NightsTypes
  <2> QED  BY <1>7, <2>4, MishapKeepsNights DEF Restart
<1> QED
  BY <1>1, <1>2, <1>3, <1>4, <1>5, <1>6, <1>7, PassByKeepsNights, FinishKeepsNights,
     AbortKeepsNights DEF Scheduler

\* A request that deletes no checklist takes none from a running reset.
LEMMA RequestKeepsNights ==
  ASSUME TypeOK, NightsInv, NEW S, Request(S), UNCHANGED mishaps,
         \A c \in Checklists : Stored(checklist, c) => Stored(checklist', c)
  PROVE  NightsInv'
<1>1. /\ cron'.next = cron.next /\ (cron.next # "count" => cron' = cron)
      /\ cron.next = "count" => cron'.todo = cron.todo /\ cron'.found = cron.found
  BY DisturbedTyped DEF Request
<1>2. UNCHANGED <<clock, missed>>  BY DEF Request
<1>3. cron' = Awake <=> cron = Awake  BY <1>1, CronTypes DEF Awake
<1>4. OnTrack => OnTrack'
  <2>1. CASE cron.next = "count"
    <3>1. cron.found \in SUBSET Checklists  BY <2>1, CronTypes
    <3> QED  BY <1>1, <1>2, <2>1, <3>1 DEF OnTrack
  <2>2. CASE cron.next # "count"  BY <1>1, <1>2, <2>2 DEF OnTrack
  <2> QED  BY <2>1, <2>2
<1>5. OnTime' <=> OnTime  BY <1>2 DEF OnTime, Ahead
<1> QED  BY <1>2, <1>3, <1>4, <1>5 DEF NightsInv

LEMMA UserStepKeepsNights ==
  ASSUME TypeOK, TypeOK', NightsInv, UserStep
  PROVE  NightsInv'
<1>1. checklist \in [Checklists -> ChecklistRow \cup {Unused, Gone}]  BY DEF TypeOK
<1>2. ASSUME NEW k, NEW f \in FrequencyInputs,
             checklist' = [checklist EXCEPT ![k] = [frequency |-> f]]
      PROVE  \A c \in Checklists : Stored(checklist, c) => Stored(checklist', c)
  <2>1. [frequency |-> f] \in ChecklistRow  BY DriftAssumption DEF ChecklistRow
  <2>2. [frequency |-> f] \notin {Unused, Gone}  BY <2>1, RowsAssumption
  <2> QED  BY <1>1, <1>2, <2>2 DEF Stored
<1>3. ASSUME NEW w \in Workers, NEW c \in Checklists, NEW f \in FrequencyInputs,
             CreateChecklist(w, c, f)
      PROVE  NightsInv'
  BY <1>2, <1>3, RequestKeepsNights DEF CreateChecklist
<1>4. ASSUME NEW w \in Workers, NEW f \in FrequencyInputs, NEW sent, NEW new,
             SaveChecklist(w, f, sent, new)
      PROVE  NightsInv'
  BY <1>2, <1>4, RequestKeepsNights DEF SaveChecklist
<1>5. ASSUME NEW w \in Workers, NEW f \in FrequencyInputs, SaveTitle(w, f)
      PROVE  NightsInv'
  BY <1>2, <1>5, RequestKeepsNights DEF SaveTitle
<1>6. ASSUME NEW c \in Checklists, DestroyChecklist(c)
      PROVE  NightsInv'
  <2>1. missed' = missed /\ mishaps' = mishaps + 1  BY <1>6 DEF DestroyChecklist, Request
  <2>2. missed' <= missed + 1  BY <2>1, NightsTypes
  <2> QED  BY <2>1, <2>2, MishapKeepsNights
<1>7. ASSUME NEW S, Request(S), UNCHANGED <<checklist, mishaps>>
      PROVE  NightsInv'
  BY <1>7, RequestKeepsNights
<1>8. ASSUME \/ \E w \in Workers, t \in Tasks : AddTask(w, t)
             \/ \E w \in Workers, c \in Checklists : ReadChecklist(w, c)
             \/ \E w \in Workers, t \in Tasks : ReadTask(w, t)
             \/ \E w \in Workers, is_completed \in BOOLEAN : SaveTask(w, is_completed)
             \/ \E t \in Tasks : DestroyTask(t)
             \/ \E w \in Workers : Leave(w)
      PROVE  NightsInv'
  BY <1>7, <1>8 DEF AddTask, ReadChecklist, ReadTask, SaveTask, DestroyTask, Leave
<1> QED  BY <1>3, <1>4, <1>5, <1>6, <1>8 DEF UserStep

LEMMA NightsInductive ==
  ASSUME TypeOK, TypeOK', NightsInv, [Next]_vars
  PROVE  NightsInv'
<1>1. CASE UNCHANGED vars
  BY <1>1 DEF vars, tables, NightsInv, OnTrack, OnTime, Ahead, Stored
<1> QED  BY <1>1, SchedulerKeepsNights, UserStepKeepsNights DEF Next

LEMMA NightsInitially == Init => NightsInv
BY DEF Init, NightsInv

\* Whatever the clock, the calendar and the drift of the loop: without a mishap never two
\* nights in a row are missed, and each mishap costs at most two more.
THEOREM NightsMissedHolds == Spec => []NightsMissed
<1>1. TypeOK /\ TypeOK' /\ NightsInv /\ [Next]_vars => NightsInv'  BY NightsInductive
<1>2. NightsInv => NightsMissed  BY DEF NightsInv, NightsMissed
<1> QED  BY <1>1, <1>2, NightsInitially, TypesHold, PTL DEF Spec
=============================================================================
