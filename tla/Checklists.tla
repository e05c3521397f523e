----------------------------- MODULE Checklists -----------------------------
(***************************************************************************)
(* Checklists with their tasks, and the scheduler that logs and unticks    *)
(* them every night, week and month.                                       *)
(*                                                                         *)
(* cron_runner.sh reads the clock, runs the commands that are due if the   *)
(* minute is 23:00, and sleeps 60 seconds: each pass takes a little more   *)
(* than a minute, so its readings drift through the minute and now and     *)
(* then one is skipped.  A reset is one transaction that reads all tasks   *)
(* first, counts the completed ones of each checklist by a query of its    *)
(* own, and saves every column of every task it read.                      *)
(*                                                                         *)
(* Left out: titles, notes, who completed a task and when (written with    *)
(* is_completed), whom a checklist is assigned to, the dates of a log.     *)
(***************************************************************************)
EXTENDS Integers, FiniteSets, Sequences

CONSTANTS
  Checklists, Tasks,     \* primary keys
  Workers,               \* gunicorn workers
  FrequencyInputs,       \* what clients enter as the frequency of a checklist
  Days,                  \* bound: the days of the calendar that repeats
  Saturdays, Lasts,      \* the Saturdays, and the 28ths of a month
  Minutes, ResetMinute,  \* a day has minutes 0 .. Minutes-1; 23:00 is ResetMinute
  Phases,                \* positions within a minute at which the clock is read
  Slow,                  \* how many of them the commands of a night may take
  MaxMishaps,            \* bound: events that may cost a night its reset
  Idle, Unused, Gone

Frequencies == {"DAILY", "WEEKLY", "MONTHLY"}

\* A pass of the loop takes 60 seconds and at most one phase more, which a whole day
\* does not add up to a minute (some milliseconds 1440 times); the commands of a night
\* take at most a minute.
ASSUME DriftAssumption ==
  /\ FrequencyInputs \subseteq Frequencies
  /\ {Days, Minutes, ResetMinute, Phases, Slow, MaxMishaps} \subseteq Nat
  /\ 1 <= Days /\ 2 <= ResetMinute /\ ResetMinute < Minutes
  /\ Minutes <= Phases /\ Slow <= Phases

VARIABLES
  checklist,  \* Checklist rows
  task,       \* Task rows
  log,        \* the ChecklistLog that the latest command made of each checklist, with its
              \* items; earlier ones never change and nothing but their list reads them
  clock,      \* what the scheduler would read, and whether this night is done
  missed,     \* for how many nights in a row the DAILY reset did not happen
  mishaps,
  cron,       \* where the scheduler or the command it runs is
  job         \* what each worker has read and is about to write

tables == <<checklist, task, log>>
scheduler == <<clock, missed, cron>>
vars == <<checklist, task, log, clock, missed, mishaps, cron, job>>

ChecklistRow == [frequency : Frequencies]
TaskRow == [checklist : Checklists, is_completed : BOOLEAN]
Snapshots == UNION {[S -> TaskRow] : S \in SUBSET Tasks}
LogRow == [completed_tasks : 0 .. Cardinality(Tasks), items : Snapshots]

\* What stands for a row that was never there is none; the tables are finite.
ASSUME RowsAssumption ==
  /\ IsFiniteSet(Tasks)
  /\ {Unused, Gone} \cap (ChecklistRow \cup TaskRow) = {} /\ Unused \notin LogRow

Clock == [day : 0 .. Days - 1, minute : 0 .. Minutes - 1, phase : 0 .. Phases - 1,
          done : BOOLEAN]
Awake == [next |-> "read_clock"]
Commands == {<<"DAILY">>, <<"WEEKLY">>, <<"MONTHLY">>, <<"WEEKLY", "MONTHLY">>,
             <<"DAILY", "WEEKLY">>, <<"DAILY", "MONTHLY">>,
             <<"DAILY", "WEEKLY", "MONTHLY">>}
Cron == {Awake}
  \cup [next : {"load"}, todo : Commands \cup {<<>>}]
  \cup [next : {"count"}, todo : Commands, rows : Snapshots, disturbed : BOOLEAN,
        found : SUBSET Checklists, left : SUBSET Checklists,
        counts : [Checklists -> 0 .. Cardinality(Tasks)]]

Job == {Idle}
  \cup [next : {"save_task"}, id : Tasks, row : TaskRow]
  \cup [next : {"add_tasks"}, id : Checklists]
  \cup [next : {"save_checklist"}, id : Checklists, rows : Snapshots]

-----------------------------------------------------------------------------
At(w, next) == job[w] # Idle /\ job[w].next = next
Done(w) == job' = [job EXCEPT ![w] = Idle]
Stored(table, key) == table[key] \notin {Unused, Gone}
TasksOf(C) == {t \in Tasks : Stored(task, t) /\ task[t].checklist \in C}
Read(S) == [t \in S |-> task[t]]
NoLog == [c \in Checklists |-> Unused]
Completed(rows) == {t \in DOMAIN rows : rows[t].is_completed}

\* uuid4() never returns a key again.
Fresh(table, key) == table[key] = Unused

\* Whether a reset is running that has read a row this request writes.
Disturbing(S) ==
  cron' = IF cron.next = "count" /\ S # {} THEN [cron EXCEPT !.disturbed = TRUE] ELSE cron
Request(S) == Disturbing(S) /\ UNCHANGED <<log, clock, missed>>

-----------------------------------------------------------------------------
\* The scheduler.

\* The clock n minutes later, at the given position within its minute; a night is over
\* once 23:00 has passed.
After(n, phase) ==
  LET minute == clock.minute + n
      over == \E night \in {ResetMinute, Minutes + ResetMinute} :
                clock.minute <= night /\ night < minute
  IN /\ clock' = [day |-> (clock.day + minute \div Minutes) % Days,
                  minute |-> minute % Minutes, phase |-> phase,
                  done |-> clock.done /\ ~over]
     /\ missed' = IF ~over THEN missed ELSE IF clock.done THEN 0 ELSE missed + 1

\* Slip: the loop sleeps two minutes.
AsleepTooLong(drift) == After(2 + (clock.phase + drift) \div Phases, (clock.phase + drift) % Phases)

\* sleep 60, and what the loop takes besides.
Asleep(drift) == After(1 + (clock.phase + drift) \div Phases, (clock.phase + drift) % Phases)

\* The commands that one reading of 23:00 starts, in this order.
Due(day) == <<"DAILY">>
            \o (IF day \in Saturdays THEN <<"WEEKLY">> ELSE <<>>)
            \o (IF day \in Lasts THEN <<"MONTHLY">> ELSE <<>>)

\* One pass of the loop at any other minute.
PassBy ==
  /\ cron = Awake /\ clock.minute # ResetMinute
  /\ \E drift \in 0 .. 1 : Asleep(drift)
  /\ UNCHANGED <<tables, mishaps, cron, job>>

\* Slip: the commands are started on every pass.
NoticeAlways ==
  /\ cron = Awake
  /\ cron' = [next |-> "load", todo |-> Due(clock.day)]
  /\ UNCHANGED <<tables, clock, missed, mishaps, job>>

\* The loop reads 23:00.
Notice ==
  /\ cron = Awake /\ clock.minute = ResetMinute
  /\ cron' = [next |-> "load", todo |-> Due(clock.day)]
  /\ UNCHANGED <<tables, clock, missed, mishaps, job>>

\* The commands of the night are over.
Finish ==
  /\ cron.next = "load" /\ cron.todo = <<>>
  /\ \E drift \in 0 .. Slow : Asleep(drift)
  /\ cron' = Awake
  /\ log' = NoLog
  /\ UNCHANGED <<checklist, task, mishaps, job>>

NextCommand == cron' = [next |-> "load", todo |-> Tail(cron.todo)]
Succeed == clock' = [clock EXCEPT !.done = @ \/ Head(cron.todo) = "DAILY"]

\* Slip: the command ignores its --frequency.
OfFrequencyFixed(f) ==
  {c \in Checklists : Stored(checklist, c) /\ checklist[c].frequency = "WEEKLY"}

\* Checklist.objects.filter(frequency=freq).
OfFrequency(f) == {c \in Checklists : Stored(checklist, c) /\ checklist[c].frequency = f}

\* handle(): nothing to reset.
FindNone ==
  /\ cron.next = "load" /\ cron.todo # <<>>
  /\ OfFrequency(Head(cron.todo)) = {}
  /\ NextCommand /\ Succeed
  /\ UNCHANGED <<tables, missed, mishaps, job>>

\* The checklists and the tasks prefetched with them.
Load ==
  /\ cron.next = "load" /\ cron.todo # <<>>
  /\ LET found == OfFrequency(Head(cron.todo)) IN
     /\ found # {}
     /\ cron' = [next |-> "count", todo |-> cron.todo, rows |-> Read(TasksOf(found)),
                 disturbed |-> FALSE, found |-> found, left |-> found,
                 counts |-> [c \in Checklists |-> 0]]
  /\ log' = NoLog
  /\ UNCHANGED <<checklist, task, clock, missed, mishaps, job>>

\* tasks.filter(is_completed=True).count(), a new query, for the log of one checklist.
Count(c) ==
  /\ cron.next = "count" /\ c \in cron.left
  /\ cron' = [cron EXCEPT !.left = @ \ {c},
       !.counts[c] = Cardinality(Completed(Read(TasksOf({c}))))]
  /\ UNCHANGED <<tables, clock, missed, mishaps, job>>

ItemsOf(c) == [t \in {u \in DOMAIN cron.rows : cron.rows[u].checklist = c} |-> cron.rows[t]]
Logged(c, count) == [completed_tasks |-> count, items |-> ItemsOf(c)]
Unticked(rows) == [t \in Tasks |->
  IF t \in DOMAIN rows THEN [rows[t] EXCEPT !.is_completed = FALSE] ELSE task[t]]

\* Slip: the completed tasks are counted after they have been reset.
CommitCountedLate ==
  /\ cron.next = "count" /\ cron.left = {}
  /\ \A c \in cron.found : Stored(checklist, c)
  /\ log' = [c \in Checklists |-> IF c \in cron.found THEN Logged(c, 0) ELSE log[c]]
  /\ task' = Unticked(cron.rows)
  /\ NextCommand /\ Succeed
  /\ UNCHANGED <<checklist, missed, mishaps, job>>

\* The logs with their items and the saved tasks become visible together, which is
\* transaction.atomic()'s doing and is taken for granted here; the rows saved are those
\* read at first, a task deleted since is inserted again.
Commit ==
  /\ cron.next = "count" /\ cron.left = {}
  /\ \A c \in cron.found : Stored(checklist, c)
  /\ log' = [c \in Checklists |->
       IF c \in cron.found THEN Logged(c, cron.counts[c]) ELSE log[c]]
  /\ task' = Unticked(cron.rows)
  /\ NextCommand /\ Succeed
  /\ UNCHANGED <<checklist, missed, mishaps, job>>

\* A checklist was deleted since it was read: the deferred foreign keys of its log and
\* its tasks fail at COMMIT, and the reset of all the others with them.
Abort ==
  /\ cron.next = "count" /\ cron.left = {}
  /\ \E c \in cron.found : ~Stored(checklist, c)
  /\ NextCommand
  /\ UNCHANGED <<tables, clock, missed, mishaps, job>>

\* The command fails or is killed; the loop goes on and does not try it again.
Fail ==
  /\ mishaps < MaxMishaps /\ mishaps' = mishaps + 1
  /\ cron # Awake /\ cron.todo # <<>>
  /\ NextCommand
  /\ UNCHANGED <<tables, clock, missed, job>>

\* The container is restarted (restart: always), within a minute or two; it may read
\* 23:00 a second time.
Restart ==
  /\ mishaps < MaxMishaps /\ mishaps' = mishaps + 1
  /\ \E n \in 0 .. 1, phase \in 0 .. Phases - 1 :
       /\ n = 0 => phase >= clock.phase
       /\ After(n, phase)
  /\ cron' = Awake
  /\ log' = NoLog
  /\ UNCHANGED <<checklist, task, job>>

Scheduler == PassBy \/ Notice \/ Finish \/ FindNone \/ Load
             \/ (\E c \in Checklists : Count(c)) \/ Commit \/ Abort

-----------------------------------------------------------------------------
\* The requests.

\* ChecklistSerializer.create(): the checklist first, its tasks one by one after it.
CreateChecklist(w, c, f) ==
  /\ job[w] = Idle /\ Fresh(checklist, c)
  /\ checklist' = [checklist EXCEPT ![c] = [frequency |-> f]]
  /\ job' = [job EXCEPT ![w] = [next |-> "add_tasks", id |-> c]]
  /\ Request({})
  /\ UNCHANGED <<task, mishaps>>
AddTask(w, t) ==
  /\ At(w, "add_tasks") /\ Fresh(task, t)
  /\ Stored(checklist, job[w].id)
  /\ task' = [task EXCEPT ![t] = [checklist |-> job[w].id, is_completed |-> FALSE]]
  /\ Request({})
  /\ UNCHANGED <<checklist, mishaps, job>>

\* ChecklistSerializer.update(): in one transaction the checklist is saved, its tasks
\* are read, those not sent are deleted, those sent are saved with all their columns,
\* new ones are inserted.
ReadChecklist(w, c) ==
  /\ job[w] = Idle /\ Stored(checklist, c)
  /\ job' = [job EXCEPT ![w] =
       [next |-> "save_checklist", id |-> c, rows |-> Read(TasksOf({c}))]]
  /\ Request({})
  /\ UNCHANGED <<checklist, task, mishaps>>
SaveChecklist(w, f, sent, new) ==
  /\ At(w, "save_checklist")
  /\ LET rows == job[w].rows IN
     /\ sent \subseteq DOMAIN rows /\ \A t \in new : Fresh(task, t)
     /\ checklist' = [checklist EXCEPT ![job[w].id] = [frequency |-> f]]
     /\ task' = [t \in Tasks |->
          IF t \in new THEN [checklist |-> job[w].id, is_completed |-> FALSE]
          ELSE IF t \in sent THEN rows[t]
          ELSE IF t \in DOMAIN rows THEN Gone ELSE task[t]]
     /\ Request(DOMAIN rows)
  /\ Done(w)
  /\ UNCHANGED mishaps
\* The same without "tasks" in the request.
SaveTitle(w, f) ==
  /\ At(w, "save_checklist")
  /\ checklist' = [checklist EXCEPT ![job[w].id] = [frequency |-> f]]
  /\ Done(w) /\ Request({})
  /\ UNCHANGED <<task, mishaps>>

\* ChecklistViewSet.destroy(): the tasks with it, the logs stay.
DestroyChecklist(c) ==
  /\ mishaps < MaxMishaps /\ mishaps' = mishaps + 1
  /\ Stored(checklist, c)
  /\ checklist' = [checklist EXCEPT ![c] = Gone]
  /\ task' = [t \in Tasks |-> IF t \in TasksOf({c}) THEN Gone ELSE task[t]]
  /\ Request({c})
  /\ UNCHANGED job

\* TaskViewSet.update(): the manager's save writes the row of the first get_object(),
\* the owner's that of the second; both write what they read before, is_completed too
\* unless the request sends it.  A task deleted since is inserted again.
ReadTask(w, t) ==
  /\ job[w] = Idle /\ Stored(task, t)
  /\ job' = [job EXCEPT ![w] = [next |-> "save_task", id |-> t, row |-> task[t]]]
  /\ Request({})
  /\ UNCHANGED <<checklist, task, mishaps>>
SaveTask(w, is_completed) ==
  /\ At(w, "save_task")
  /\ Stored(checklist, job[w].row.checklist)
  /\ task' = [task EXCEPT ![job[w].id] = [job[w].row EXCEPT !.is_completed = is_completed]]
  /\ Done(w) /\ Request({job[w].id})
  /\ UNCHANGED <<checklist, mishaps>>

DestroyTask(t) ==
  /\ Stored(task, t)
  /\ task' = [task EXCEPT ![t] = Gone]
  /\ Request({t})
  /\ UNCHANGED <<checklist, mishaps, job>>

\* A refused or failed request, or the end of a creation.
Leave(w) ==
  /\ job[w] # Idle
  /\ Done(w) /\ Request({})
  /\ UNCHANGED <<checklist, task, mishaps>>

UserStep ==
  \/ \E w \in Workers, c \in Checklists, f \in FrequencyInputs : CreateChecklist(w, c, f)
  \/ \E w \in Workers, t \in Tasks : AddTask(w, t)
  \/ \E w \in Workers, c \in Checklists : ReadChecklist(w, c)
  \/ \E w \in Workers, f \in FrequencyInputs, sent, new \in SUBSET Tasks :
       SaveChecklist(w, f, sent, new)
  \/ \E w \in Workers, f \in FrequencyInputs : SaveTitle(w, f)
  \/ \E c \in Checklists : DestroyChecklist(c)
  \/ \E w \in Workers, t \in Tasks : ReadTask(w, t)
  \/ \E w \in Workers, is_completed \in BOOLEAN : SaveTask(w, is_completed)
  \/ \E t \in Tasks : DestroyTask(t)
  \/ \E w \in Workers : Leave(w)

-----------------------------------------------------------------------------
Init ==
  /\ checklist = [c \in Checklists |-> Unused]
  /\ task = [t \in Tasks |-> Unused]
  /\ log = NoLog
  /\ clock = [day |-> 0, minute |-> 0, phase |-> 0, done |-> FALSE]
  /\ missed = 0 /\ mishaps = 0
  /\ cron = Awake
  /\ job = [w \in Workers |-> Idle]

Next == Scheduler \/ Fail \/ Restart \/ UserStep

\* The shell loop and the command it waits for keep running; nothing obliges users to
\* act, and nothing bounds what they do in between.
Spec == Init /\ [][Next]_vars /\ WF_vars(Scheduler)

-----------------------------------------------------------------------------
\* The columns of every row and what the handlers hold; a reset runs at 23:00 only, and
\* counts only what it has read.
TypeOK ==
  /\ checklist \in [Checklists -> ChecklistRow \cup {Unused, Gone}]
  /\ task \in [Tasks -> TaskRow \cup {Unused, Gone}]
  /\ log \in [Checklists -> LogRow \cup {Unused}]
  /\ clock \in Clock /\ missed \in Nat /\ mishaps \in 0 .. MaxMishaps
  /\ cron \in Cron
  /\ job \in [Workers -> Job]
  /\ cron # Awake => clock.minute = ResetMinute

NewLogs == {c \in Checklists : log'[c] \notin {log[c], Unused}}

\* If no request wrote what a running reset had read, its logs are exact: the items are
\* the tasks as they stood just before they were unticked, and the number of completed
\* ones, which comes from a query of its own, is that of the items.
SnapshotExact ==
  [][NewLogs # {} /\ ~cron.disturbed =>
       \A c \in cron.found :
         /\ \A t \in DOMAIN log'[c].items : log'[c].items[t] = task[t]
         /\ log'[c].completed_tasks = Cardinality(Completed(log'[c].items))]_vars

\* The readings of the clock drift (cron_runner.sh: sleep 60 and not "until the next
\* minute"), so that a night may be skipped, but never two in a row: only a failing
\* command, a restart or a checklist deleted under the reset can cost further nights.
NightsMissed == missed <= 1 + 2 * mishaps

\* Whatever users do, a task of a DAILY checklist does not stay ticked for ever: some
\* night finds it (or it is unticked, deleted, or its checklist no longer DAILY).
TickedDaily(t) ==
  Stored(task, t) /\ task[t].is_completed
  /\ Stored(checklist, task[t].checklist) /\ checklist[task[t].checklist].frequency = "DAILY"
DailyCleared == \A t \in Tasks : TickedDaily(t) ~> ~TickedDaily(t)
=============================================================================
