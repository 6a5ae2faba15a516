---------------------------- MODULE RadarProofs ----------------------------
(***************************************************************************)
(* Proofs about the radar for any tasks, any number of restarts and any    *)
(* faults: nothing is run or handed on twice, and no result is ahead of    *)
(* its record.  The inductive invariant is IInv: what the scheduler's      *)
(* place in its code says about the row of the task it is busy with, and   *)
(* what a row says about runs and results.                                 *)
(***************************************************************************)
EXTENDS Radar, SequenceFacts, TLAPS

\* Task t has a result on its way.
Announced(t) == In(t, sent) \/ In(t, dropped) \/ In(t, queue)

\* What is still to be done in this poll has not been begun.
BatchInv == \A t \in batch : row[t] = "new"

\* The row of the task in hand follows the scheduler's steps.
TaskInv ==
  /\ pc = "run" => task \in Supported /\ row[task] = "running" /\ runs[task] = 0
  /\ pc \in {"succeeded", "failed"} => task \in Supported /\ row[task] = "running"
  /\ pc = "push" => task \in Supported /\ row[task] = "finished" /\ ~ Announced(task)

RunsInv ==
  \A t \in Task : runs[t] <= 1 /\ (row[t] \in {"absent", "new"} => runs[t] = 0)

ResultsInv ==
  /\ \A t \in Task : Announced(t) => row[t] = "finished"
  /\ Distinct(sent) /\ Distinct(dropped) /\ Distinct(queue)
  /\ \A t \in Task : /\ ~ (In(t, sent) /\ In(t, dropped))
                     /\ ~ (In(t, sent) /\ In(t, queue))
                     /\ ~ (In(t, dropped) /\ In(t, queue))

\* The inductive invariant.
IInv == TypeOK /\ BatchInv /\ TaskInv /\ RunsInv /\ ResultsInv

-----------------------------------------------------------------------------
(* The inductive invariant *)

LEMMA InitIInv == Init => IInv
<1> SUFFICES ASSUME Init PROVE IInv
  OBVIOUS
<1> USE RadarAssumption
<1>1. TypeOK
  BY DEF Init, TypeOK, FreshProcess, Status, Settled
<1>2. BatchInv /\ TaskInv
  BY DEF Init, BatchInv, TaskInv, FreshProcess
<1>3. RunsInv
  BY DEF Init, RunsInv
<1>4. ResultsInv
  BY NothingIn DEF Init, ResultsInv, Announced, FreshProcess
<1> QED
  BY <1>1, <1>2, <1>3, <1>4 DEF IInv

\* Whatever ends the process keeps the invariant: the rows and what has been
\* handed on stay, and the results still queued are forgotten.
LEMMA DieIInv ==
  ASSUME IInv, Die, UNCHANGED <<row, world, conn, sent, dropped, runs>>
  PROVE  IInv'
<1> USE RadarAssumption
<1>1. /\ alive' = FALSE /\ pc' = "poll" /\ batch' = {} /\ task' = NoTask
      /\ queue' = <<>> /\ mpc' = "start"
      /\ UNCHANGED <<row, restarts, faulty, db, conn, sent, dropped, runs>>
  BY DEF Die, FreshProcess, world
<1>2. TypeOK'
  <2>1. queue' \in Seq(Supported)
    BY <1>1
  <2>2. TypeOK
    BY DEF IInv
  <2> QED
    BY <1>1, <2>1, <2>2 DEF TypeOK
<1>3. BatchInv' /\ TaskInv' /\ RunsInv'
  BY <1>1 DEF IInv, BatchInv, TaskInv, RunsInv
<1>4. ResultsInv'
  BY <1>1, NothingIn DEF IInv, ResultsInv, Announced
<1> QED
  BY <1>2, <1>3, <1>4 DEF IInv

\* A saved status keeps what the rows say about runs and results, if it only
\* settles a running task or marks a new one running.
LEMMA SaveIInv ==
  ASSUME IInv, NEW t \in Supported, NEW s, NEW saved, NEW refused,
         Save(t, s, saved, refused),
         \/ row[t] = "new" /\ s = "running"
         \/ row[t] = "running" /\ s \in Settled,
         UNCHANGED <<queue, sent, dropped, runs>>
  PROVE  /\ row' \in [Task -> Status]
         /\ \A u \in Task \ {t} : row'[u] = row[u]
         /\ RunsInv' /\ ResultsInv'
<1> USE RadarAssumption
<1>1. /\ row \in [Task -> Status] /\ runs \in [Task -> Nat] /\ t \in Task
      /\ row' = row \/ row' = [row EXCEPT ![t] = s]
  BY DEF IInv, TypeOK, Save
<1>2. /\ row' \in [Task -> Status]
      /\ \A u \in Task \ {t} : row'[u] = row[u]
      /\ row'[t] \in {row[t], s}
  BY <1>1 DEF Status, Settled
<1>3. \A u \in Task : /\ row'[u] \in {"absent", "new"} => row[u] \in {"absent", "new"}
                      /\ row[u] = "finished" => row'[u] = "finished"
  BY <1>1, <1>2 DEF Settled
<1>4. RunsInv'
  BY <1>3 DEF IInv, RunsInv
<1>5. ResultsInv'
  BY <1>3 DEF IInv, ResultsInv, Announced
<1> QED
  BY <1>2, <1>4, <1>5

LEMMA AddTaskIInv ==
  ASSUME IInv, NEW t \in Task, AddTask(t)
  PROVE  IInv'
<1> USE RadarAssumption
<1>1. /\ row \in [Task -> Status] /\ row[t] = "absent"
      /\ row' = [row EXCEPT ![t] = "new"]
      /\ UNCHANGED <<alive, restarts, faulty, db, pc, batch, task, queue, runs,
                     mpc, conn, sent, dropped>>
  BY DEF IInv, TypeOK, AddTask, world, listener
<1>2. TypeOK'
  BY <1>1 DEF IInv, TypeOK, Status
<1>3. \A u \in Task \ {t} : row'[u] = row[u]
  BY <1>1
<1>4. BatchInv'
  BY <1>1 DEF IInv, BatchInv
<1>5. TaskInv'
  BY <1>1, <1>3 DEF IInv, TaskInv, Announced
<1>6. RunsInv'
  BY <1>1 DEF IInv, RunsInv
<1>7. ResultsInv'
  BY <1>1, <1>3 DEF IInv, ResultsInv, Announced
<1> QED
  BY <1>2, <1>4, <1>5, <1>6, <1>7 DEF IInv

\* Steps that touch neither the table nor the scheduler nor a result.
LEMMA EnvironmentIInv ==
  ASSUME IInv, Restart \/ LoseConnection \/ Listen
  PROVE  IInv'
<1> USE RadarAssumption
<1>1. UNCHANGED <<scheduler, sent, dropped>>
  BY DEF Restart, LoseConnection, Listen
<1>2. TypeOK'
  <2>1. CASE Restart
    BY <2>1 DEF IInv, TypeOK, Restart, scheduler
  <2>2. CASE LoseConnection
    BY <2>2 DEF IInv, TypeOK, LoseConnection, scheduler, world
  <2>3. CASE Listen
    BY <2>3 DEF IInv, TypeOK, Listen, scheduler, world
  <2> QED
    BY <2>1, <2>2, <2>3
<1>3. BatchInv' /\ TaskInv' /\ RunsInv' /\ ResultsInv'
  BY <1>1 DEF IInv, BatchInv, TaskInv, RunsInv, ResultsInv, Announced, scheduler
<1> QED
  BY <1>2, <1>3 DEF IInv

\* Steps of the scheduler that only move it to a place where no task is in hand.
LEMMA IdleIInv ==
  ASSUME IInv, Poll \/ PollThrows \/ EndBatch \/ Wake
  PROVE  IInv'
<1> USE RadarAssumption
<1>1. /\ UNCHANGED <<row, alive, restarts, faulty, db, queue, runs, mpc, conn,
                     sent, dropped>>
      /\ pc' \in {"take", "dead", "sleep", "stopped", "poll"}
      /\ task' \in {task, NoTask}
      /\ \/ batch' = batch
         \/ batch' = {t \in Supported : row[t] = "new"}
  BY DEF Poll, PollThrows, EndBatch, Wake, world, listener
<1>2. TypeOK'
  BY <1>1 DEF IInv, TypeOK
<1>3. BatchInv' /\ TaskInv' /\ RunsInv' /\ ResultsInv'
  BY <1>1 DEF IInv, BatchInv, TaskInv, RunsInv, ResultsInv, Announced
<1> QED
  BY <1>2, <1>3 DEF IInv

LEMMA TakeIInv ==
  ASSUME IInv, NEW t \in Task, Take(t)
  PROVE  IInv'
<1> USE RadarAssumption
<1>1. /\ t \in batch /\ t \in Supported /\ t \in Task /\ row[t] = "new"
      /\ batch' = batch \ {t} /\ task' = t
      /\ Save(t, "running", "run", "take")
      /\ UNCHANGED <<alive, restarts, faulty, db, queue, runs, mpc, conn, sent,
                     dropped>>
      /\ row \in [Task -> Status]
  BY DEF IInv, TypeOK, BatchInv, Take, world, listener
<1>2. /\ row' \in [Task -> Status]
      /\ \A u \in Task \ {t} : row'[u] = row[u]
      /\ RunsInv' /\ ResultsInv'
  BY <1>1, SaveIInv
<1>3. pc' \in {"run", "take", "dead"} /\ (pc' = "run" => row'[t] = "running")
  BY <1>1 DEF Save
<1>4. TypeOK'
  BY <1>1, <1>2, <1>3 DEF IInv, TypeOK
<1>5. BatchInv'
  BY <1>1, <1>2 DEF IInv, TypeOK, BatchInv
<1>6. runs[t] = 0
  BY <1>1 DEF IInv, RunsInv
<1>7. TaskInv'
  BY <1>1, <1>3, <1>6 DEF TaskInv
<1> QED
  BY <1>2, <1>4, <1>5, <1>7 DEF IInv

LEMMA RunIInv ==
  ASSUME IInv, Run
  PROVE  IInv'
<1> USE RadarAssumption
<1>1. /\ task \in Supported /\ task \in Task /\ row[task] = "running" /\ runs[task] = 0
      /\ runs \in [Task -> Nat]
      /\ runs' = [runs EXCEPT ![task] = @ + 1]
      /\ UNCHANGED <<row, restarts, faulty, db, conn, sent, dropped>>
  BY DEF IInv, TypeOK, TaskInv, Run, world
<1>2. /\ runs' \in [Task -> Nat]
      /\ runs'[task] = 1
      /\ \A u \in Task \ {task} : runs'[u] = runs[u]
  BY <1>1
<1>3. RunsInv'
  BY <1>1, <1>2 DEF IInv, RunsInv
<1>4. CASE /\ pc' \in {"succeeded", "failed", "dead"}
           /\ UNCHANGED <<alive, batch, task, queue, mpc>>
  <2>1. TypeOK'
    BY <1>1, <1>2, <1>4 DEF IInv, TypeOK
  <2>2. BatchInv' /\ TaskInv' /\ ResultsInv'
    BY <1>1, <1>2, <1>4 DEF IInv, BatchInv, TaskInv, ResultsInv, Announced
  <2> QED
    BY <1>3, <2>1, <2>2 DEF IInv
<1>5. CASE Die
  <2>1. /\ alive' = FALSE /\ pc' = "poll" /\ batch' = {} /\ task' = NoTask
        /\ queue' = <<>> /\ mpc' = "start"
    BY <1>5 DEF Die, FreshProcess
  <2>2. TypeOK'
    <3>1. queue' \in Seq(Supported)
      BY <2>1
    <3> QED
      BY <1>1, <1>2, <2>1, <3>1 DEF IInv, TypeOK
  <2>3. BatchInv' /\ TaskInv'
    BY <1>1, <2>1 DEF IInv, BatchInv, TaskInv
  <2>4. ResultsInv'
    BY <1>1, <2>1, NothingIn DEF IInv, ResultsInv, Announced
  <2> QED
    BY <1>3, <2>2, <2>3, <2>4 DEF IInv
<1>6. \/ /\ pc' \in {"succeeded", "failed", "dead"}
         /\ UNCHANGED <<alive, batch, task, queue, mpc>>
      \/ Die
  BY DEF Run
<1> QED
  BY <1>4, <1>5, <1>6

\* Storing how a task ended: its row is settled, and it has no result yet.
LEMMA SettleIInv ==
  ASSUME IInv, Finish \/ Fail
  PROVE  IInv'
<1> USE RadarAssumption
<1>1. /\ task \in Supported /\ task \in Task /\ row[task] = "running"
      /\ UNCHANGED <<alive, restarts, faulty, db, batch, task, queue, runs, mpc,
                     conn, sent, dropped>>
      /\ row \in [Task -> Status]
      /\ \/ Save(task, "finished", "push", "take")
         \/ Save(task, "error", "take", "take")
  BY DEF IInv, TypeOK, TaskInv, Finish, Fail, world, listener
<1>2. /\ row' \in [Task -> Status]
      /\ \A u \in Task \ {task} : row'[u] = row[u]
      /\ RunsInv' /\ ResultsInv'
  BY <1>1, SaveIInv DEF Settled
<1>3. pc' \in {"push", "take", "dead"} /\ (pc' = "push" => row'[task] = "finished")
  BY <1>1 DEF Save
<1>4. TypeOK'
  BY <1>1, <1>2, <1>3 DEF IInv, TypeOK
<1>5. task \notin batch
  BY <1>1 DEF IInv, BatchInv
<1>6. BatchInv'
  BY <1>1, <1>2, <1>5 DEF IInv, TypeOK, BatchInv
<1>7. ~ Announced(task)
  BY <1>1 DEF IInv, ResultsInv
<1>8. TaskInv'
  BY <1>1, <1>3, <1>7 DEF TaskInv, Announced
<1> QED
  BY <1>2, <1>4, <1>6, <1>8 DEF IInv

LEMMA PushResultIInv ==
  ASSUME IInv, PushResult
  PROVE  IInv'
<1> USE RadarAssumption
<1>1. /\ task \in Supported /\ row[task] = "finished" /\ ~ Announced(task)
      /\ queue \in Seq(Supported)
      /\ queue' = Append(queue, task)
      /\ pc' = "take"
      /\ UNCHANGED <<row, alive, restarts, faulty, db, batch, task, runs, mpc,
                     conn, sent, dropped>>
  BY DEF IInv, TypeOK, TaskInv, PushResult, world, listener
<1>2. /\ queue' \in Seq(Supported)
      /\ \A t : In(t, queue') <=> In(t, queue) \/ t = task
      /\ Distinct(queue) /\ ~ In(task, queue) => Distinct(queue')
  BY <1>1, AppendNew
<1>3. TypeOK'
  BY <1>1, <1>2 DEF IInv, TypeOK
<1>4. BatchInv' /\ TaskInv' /\ RunsInv'
  BY <1>1 DEF IInv, BatchInv, TaskInv, RunsInv
<1>5. ResultsInv'
  BY <1>1, <1>2 DEF IInv, ResultsInv, Announced
<1> QED
  BY <1>3, <1>4, <1>5 DEF IInv

\* The first result moves from the queue to what was sent or to what was
\* dropped.
LEMMA SendResultIInv ==
  ASSUME IInv, SendResult
  PROVE  IInv'
<1> USE RadarAssumption
<1> DEFINE h == Head(queue)
<1>1. /\ queue \in Seq(Supported) /\ queue # <<>>
      /\ sent \in Seq(Supported) /\ dropped \in Seq(Supported)
      /\ queue' = Tail(queue)
      /\ \/ sent' = Append(sent, h) /\ dropped' = dropped
         \/ dropped' = Append(dropped, h) /\ sent' = sent
      /\ mpc' = "destroy"
      /\ UNCHANGED <<row, alive, restarts, faulty, db, pc, batch, task, runs, conn>>
  BY DEF IInv, TypeOK, SendResult, GiveToClient, world
<1>2. /\ h \in Supported /\ h \in Task
      /\ queue' \in Seq(Supported)
      /\ \A t : In(t, queue) <=> In(t, queue') \/ t = h
      /\ Distinct(queue) => Distinct(queue') /\ ~ In(h, queue')
  BY <1>1, DropHead
<1> HIDE DEF h
<1>3. /\ Append(sent, h) \in Seq(Supported)
      /\ \A t : In(t, Append(sent, h)) <=> In(t, sent) \/ t = h
      /\ Distinct(sent) /\ ~ In(h, sent) => Distinct(Append(sent, h))
  BY <1>1, <1>2, AppendNew
<1>4. /\ Append(dropped, h) \in Seq(Supported)
      /\ \A t : In(t, Append(dropped, h)) <=> In(t, dropped) \/ t = h
      /\ Distinct(dropped) /\ ~ In(h, dropped) => Distinct(Append(dropped, h))
  BY <1>1, <1>2, AppendNew
<1>5. TypeOK'
  BY <1>1, <1>2, <1>3, <1>4 DEF IInv, TypeOK
<1>6. \A t : Announced(t) <=> Announced(t)'
  BY <1>1, <1>2, <1>3, <1>4 DEF Announced
<1>7. BatchInv' /\ TaskInv' /\ RunsInv'
  BY <1>1, <1>6 DEF IInv, BatchInv, TaskInv, RunsInv
<1>8. In(h, queue) /\ ~ In(h, sent) /\ ~ In(h, dropped)
  BY <1>2 DEF IInv, ResultsInv
<1>9. ResultsInv'
  BY <1>1, <1>2, <1>3, <1>4, <1>6, <1>8 DEF IInv, ResultsInv
<1> QED
  BY <1>5, <1>7, <1>9 DEF IInv

LEMMA DestroyResultIInv ==
  ASSUME IInv, DestroyResult
  PROVE  IInv'
<1>1. CASE Die /\ UNCHANGED row
  BY <1>1, DieIInv DEF DestroyResult
<1>2. CASE mpc' = "drain" /\ UNCHANGED <<row, alive, pc, batch, task, queue>>
  <2>1. UNCHANGED <<row, alive, restarts, faulty, db, pc, batch, task, queue, conn,
                    sent, dropped, runs>> /\ mpc' = "drain"
    BY <1>2 DEF DestroyResult, world
  <2> QED
    BY <2>1 DEF IInv, TypeOK, BatchInv, TaskInv, RunsInv, ResultsInv, Announced
<1> QED
  BY <1>1, <1>2 DEF DestroyResult

LEMMA NextIInv == IInv /\ [Next]_vars => IInv'
<1> SUFFICES ASSUME IInv, [Next]_vars PROVE IInv'
  OBVIOUS
<1>1. ASSUME NEW t \in Task, AddTask(t) PROVE IInv'
  BY <1>1, AddTaskIInv
<1>2. CASE Kill \/ PollUnconnected \/ Leave
  BY <1>2, DieIInv DEF Kill, PollUnconnected, Leave
<1>3. CASE Restart \/ LoseConnection \/ Listen
  BY <1>3, EnvironmentIInv
<1>4. CASE Poll \/ PollThrows \/ EndBatch \/ Wake
  BY <1>4, IdleIInv
<1>5. ASSUME NEW t \in Task, Take(t) PROVE IInv'
  BY <1>5, TakeIInv
<1>6. CASE Run
  BY <1>6, RunIInv
<1>7. CASE Finish \/ Fail
  BY <1>7, SettleIInv
<1>8. CASE PushResult
  BY <1>8, PushResultIInv
<1>9. CASE SendResult
  BY <1>9, SendResultIInv
<1>10. CASE DestroyResult
  BY <1>10, DestroyResultIInv
<1>11. CASE UNCHANGED vars
  BY <1>11 DEF vars, IInv, TypeOK, BatchInv, TaskInv, RunsInv, ResultsInv, Announced
<1> QED
  BY <1>1, <1>2, <1>3, <1>4, <1>5, <1>6, <1>7, <1>8, <1>9, <1>10, <1>11
     DEF Next, Schedule, Main

-----------------------------------------------------------------------------
(* Theorems *)

\* The invariant holds in every state.
THEOREM Invariance == Spec => []IInv
<1>1. Init => IInv
  BY InitIInv
<1>2. IInv /\ [Next]_vars => IInv'
  BY NextIInv
<1> QED
  BY <1>1, <1>2, PTL DEF Spec

\* Every variable keeps its type; in particular nothing writes the statuses
\* none and scheduled to the table.
THEOREM TypeCorrect == Spec => []TypeOK
<1>1. IInv => TypeOK
  BY DEF IInv
<1> QED
  BY <1>1, Invariance, PTL

\* The scheduler never runs a task twice, however often it is killed between
\* marking, running, storing and pushing.
THEOREM RunAtMostOnce == Spec => []RunsOnce
<1>1. IInv => RunsOnce
  BY DEF IInv, RunsInv, RunsOnce
<1> QED
  BY <1>1, Invariance, PTL

\* A result that listen can see or has sent is stored with its task first.
THEOREM ResultsAreRecorded == Spec => []ResultRecorded
<1>1. IInv => ResultRecorded
  <2> SUFFICES ASSUME IInv, NEW t \in Results PROVE row[t] = "finished"
    BY DEF ResultRecorded
  <2>1. Announced(t)
    BY DEF Results, Announced, In
  <2>2. t \in Supported
    BY DEF IInv, TypeOK, Results
  <2> QED
    BY <2>1, <2>2, RadarAssumption DEF IInv, ResultsInv
<1> QED
  BY <1>1, Invariance, PTL

\* Between the scheduler's push and listen's send no result is doubled.
THEOREM ResultsHandedOnOnce == Spec => []ResultOnce
<1>1. IInv => ResultOnce
  <2> SUFFICES ASSUME IInv PROVE ResultOnce
    OBVIOUS
  <2>1. /\ sent \in Seq(Supported) /\ dropped \in Seq(Supported)
        /\ queue \in Seq(Supported)
        /\ \A t \in Supported : t \in Task
    BY RadarAssumption DEF IInv, TypeOK
  <2>2. /\ sent \o dropped \in Seq(Supported)
        /\ \A t : In(t, sent \o dropped) <=> In(t, sent) \/ In(t, dropped)
        /\ Distinct(sent \o dropped)
    BY <2>1, ConcatDistinct DEF IInv, ResultsInv
  <2>3. Distinct((sent \o dropped) \o queue)
    <3>1. /\ Distinct(queue)
          /\ \A t \in Supported : ~ (In(t, sent \o dropped) /\ In(t, queue))
      BY <2>1, <2>2 DEF IInv, ResultsInv
    <3> DEFINE first == sent \o dropped
    <3>2. first \in Seq(Supported) /\ Distinct(first)
      BY <2>2
    <3> HIDE DEF first
    <3> QED
      BY <2>1, <2>2, <3>1, <3>2, ConcatDistinct DEF first
  <2>4. (sent \o dropped) \o queue = sent \o dropped \o queue
    OBVIOUS
  <2> QED
    BY <2>3, <2>4 DEF ResultOnce, Distinct
<1> QED
  BY <1>1, Invariance, PTL

\* A row's status goes from new over running to finished or error, and never
\* back, through every refused save, exception and restart.
THEOREM StatusMovesForward == Spec => StatusPath
<1> DEFINE Path(t) ==
      row'[t] # row[t] =>
        <<row[t], row'[t]>> \in {<<"absent", "new">>, <<"new", "running">>,
                                 <<"running", "finished">>, <<"running", "error">>}
<1>1. IInv /\ [Next]_vars => [\A t \in Task : Path(t)]_vars
  <2> SUFFICES ASSUME IInv, [Next]_vars, NEW t \in Task PROVE Path(t)
    OBVIOUS
  <2> USE RadarAssumption
  <2>1. row \in [Task -> Status]
    BY DEF IInv, TypeOK
  <2>2. ASSUME NEW u \in Task, AddTask(u) PROVE Path(t)
    BY <2>1, <2>2 DEF AddTask
  <2>3. ASSUME NEW u \in Task, Take(u) PROVE Path(t)
    BY <2>1, <2>3 DEF Take, Save, IInv, BatchInv
  <2>4. CASE Finish \/ Fail
    BY <2>1, <2>4 DEF Finish, Fail, Save, IInv, TaskInv
  <2>5. ASSUME row' = row PROVE Path(t)
    BY <2>5
  <2>6. CASE Kill \/ Restart \/ LoseConnection \/ PollUnconnected \/ Leave
    BY <2>5, <2>6 DEF Kill, Restart, LoseConnection, PollUnconnected, Leave, scheduler
  <2>7. CASE Poll \/ PollThrows \/ Run \/ PushResult \/ EndBatch \/ Wake
    BY <2>5, <2>7 DEF Poll, PollThrows, Run, PushResult, EndBatch, Wake
  <2>8. CASE Listen \/ SendResult \/ DestroyResult \/ UNCHANGED vars
    BY <2>5, <2>8 DEF Listen, SendResult, DestroyResult, scheduler, vars
  <2> QED
    BY <2>2, <2>3, <2>4, <2>6, <2>7, <2>8 DEF Next, Schedule, Main
<1> QED
  BY <1>1, Invariance, PTL DEF Spec, StatusPath

\* A step takes nothing out of what was sent or dropped, and out of the queue
\* only what goes to one of the two, unless it is the process that ends.
LEMMA AnnouncedStays ==
  ASSUME IInv, [Next]_vars, NEW t \in Task, Announced(t)
  PROVE  Announced(t)' \/ ~ alive'
<1> USE RadarAssumption
<1>1. CASE UNCHANGED <<queue, sent, dropped>>
  BY <1>1 DEF Announced
<1>2. CASE PushResult
  <2>1. /\ queue \in Seq(Supported) /\ task \in Supported
        /\ queue' = Append(queue, task) /\ UNCHANGED <<sent, dropped>>
    BY <1>2 DEF IInv, TypeOK, TaskInv, PushResult, listener
  <2> QED
    BY <2>1, AppendNew DEF Announced
<1>3. CASE SendResult
  <2> DEFINE h == Head(queue)
  <2>1. /\ queue \in Seq(Supported) /\ queue # <<>>
        /\ sent \in Seq(Supported) /\ dropped \in Seq(Supported)
        /\ queue' = Tail(queue)
        /\ \/ sent' = Append(sent, h) /\ dropped' = dropped
           \/ dropped' = Append(dropped, h) /\ sent' = sent
    BY <1>3 DEF IInv, TypeOK, SendResult, GiveToClient
  <2>2. h \in Supported /\ (In(t, queue) <=> In(t, queue') \/ t = h)
    BY <2>1, DropHead
  <2> HIDE DEF h
  <2>3. /\ In(t, Append(sent, h)) <=> In(t, sent) \/ t = h
        /\ In(t, Append(dropped, h)) <=> In(t, dropped) \/ t = h
    BY <2>1, <2>2, AppendNew
  <2> QED
    BY <2>1, <2>2, <2>3 DEF Announced
<1>4. CASE Die
  BY <1>4 DEF Die
<1>5. CASE \/ \E u \in Task : AddTask(u) \/ Take(u)
           \/ Poll \/ PollThrows \/ Finish \/ Fail \/ EndBatch \/ Wake
  BY <1>1, <1>5 DEF AddTask, Take, Poll, PollThrows, Finish, Fail, EndBatch, Wake,
     listener
<1>6. CASE Restart \/ LoseConnection \/ Listen \/ UNCHANGED vars
  BY <1>1, <1>6 DEF Restart, LoseConnection, Listen, scheduler, vars
<1>7. CASE Kill \/ PollUnconnected \/ Leave
  BY <1>4, <1>7 DEF Kill, PollUnconnected, Leave
<1>8. CASE Run \/ DestroyResult
  BY <1>1, <1>4, <1>8 DEF Run, DestroyResult
<1> QED
  BY <1>2, <1>3, <1>5, <1>6, <1>7, <1>8 DEF Next, Schedule, Main

\* A task that runs in nobody's hands is in no batch and is not the task at hand:
\* no step takes it up, and no restart asks for it.
THEOREM AbandonedStayAbandoned == Spec => AbandonedForGood
<1>1. IInv /\ IInv' /\ [Next]_vars =>
        [\A t \in Task : Abandoned(t) => Abandoned(t)' /\ t \notin Results']_vars
  <2> SUFFICES ASSUME IInv, IInv', [Next]_vars, NEW t \in Task, Abandoned(t)
               PROVE  Abandoned(t)' /\ t \notin Results'
    OBVIOUS
  <2> USE RadarAssumption
  <2>1. row \in [Task -> Status] /\ row[t] = "running" /\ ~ InHand(t)
    BY DEF IInv, TypeOK, Abandoned
  <2>2. Abandoned(t)'
    <3>1. ASSUME NEW u \in Task, AddTask(u) PROVE Abandoned(t)'
      BY <2>1, <3>1 DEF AddTask, Abandoned, InHand
    <3>2. ASSUME NEW u \in Task, Take(u) PROVE Abandoned(t)'
      <4>1. row[u] = "new" /\ u # t /\ task' = u
        BY <2>1, <3>2 DEF Take, IInv, BatchInv
      <4>2. row'[t] = row[t]
        BY <2>1, <3>2, <4>1 DEF Take, Save
      <4> QED
        BY <2>1, <4>1, <4>2 DEF Abandoned, InHand
    <3>3. CASE Finish \/ Fail
      <4>1. task # t /\ task' = task
        BY <2>1, <3>3 DEF Finish, Fail, InHand
      <4>2. row'[t] = row[t]
        BY <2>1, <3>3, <4>1 DEF Finish, Fail, Save
      <4> QED
        BY <2>1, <4>1, <4>2 DEF Abandoned, InHand
    <3>4. CASE Die /\ UNCHANGED row
      BY <2>1, <3>4 DEF Die, FreshProcess, Abandoned, InHand
    <3>5. CASE Kill \/ PollUnconnected \/ Leave
      BY <3>4, <3>5 DEF Kill, PollUnconnected, Leave
    <3>6. CASE Run
      <4>1. task # t
        BY <2>1, <3>6 DEF Run, InHand
      <4> QED
        BY <2>1, <3>4, <3>6, <4>1 DEF Run, Abandoned, InHand
    <3>7. CASE Poll \/ PollThrows \/ PushResult \/ EndBatch \/ Wake
      BY <2>1, <3>7 DEF Poll, PollThrows, PushResult, EndBatch, Wake, Abandoned, InHand
    <3>8. CASE Restart \/ LoseConnection \/ Listen \/ SendResult \/ UNCHANGED vars
      BY <2>1, <3>8 DEF Restart, LoseConnection, Listen, SendResult, scheduler, vars,
         Abandoned, InHand
    <3>9. CASE DestroyResult
      BY <2>1, <3>4, <3>9 DEF DestroyResult, Abandoned, InHand
    <3> QED
      BY <3>1, <3>2, <3>3, <3>5, <3>6, <3>7, <3>8, <3>9 DEF Next, Schedule, Main
  <2>3. ~ Announced(t)'
    BY <2>2 DEF IInv, ResultsInv, Abandoned
  <2> QED
    BY <2>2, <2>3 DEF Results, Announced, In
<1> QED
  BY <1>1, Invariance, PTL DEF Spec, AbandonedForGood

\* A result is held from its record on, if the database does not fail: what is in hand
\* is pushed, what is pushed stays until it is popped, and what is popped is sent or
\* seen to be dropped, whatever fails.
THEOREM ResultsAreKept == Spec => ResultKept
<1>1. IInv /\ [Next]_vars =>
        [\A t \in Task :
           /\ Held(t) => Held(t)' \/ ~ alive'
           /\ row[t] # "finished" /\ row'[t] = "finished" => Held(t)' \/ faulty]_vars
  <2> SUFFICES ASSUME IInv, [Next]_vars, NEW t \in Task
               PROVE  /\ Held(t) => Held(t)' \/ ~ alive'
                      /\ row[t] # "finished" /\ row'[t] = "finished" =>
                           Held(t)' \/ faulty
    OBVIOUS
  <2> USE RadarAssumption
  <2> DEFINE Pushing == pc = "push" /\ task = t
  <2>1. /\ Held(t) <=> Pushing \/ Announced(t)
        /\ Held(t)' <=> Pushing' \/ Announced(t)'
    BY DEF Held, Results, Announced, In
  <2>2. ASSUME Pushing PROVE Held(t)' \/ ~ alive'
    <3>1. CASE PushResult
      <4>1. /\ queue \in Seq(Supported) /\ t \in Supported
            /\ queue' = Append(queue, t)
        BY <2>2, <3>1 DEF IInv, TypeOK, TaskInv, PushResult
      <4> QED
        BY <2>1, <4>1, AppendNew DEF Announced
    <3>2. CASE UNCHANGED <<pc, task>>
      BY <2>1, <2>2, <3>2
    <3>3. CASE Die
      BY <3>3 DEF Die
    <3>4. CASE \/ \E u \in Task : AddTask(u)
               \/ Restart \/ LoseConnection \/ Listen \/ SendResult \/ UNCHANGED vars
      BY <3>2, <3>4 DEF AddTask, Restart, LoseConnection, Listen, SendResult,
         scheduler, vars
    <3>5. CASE Kill \/ PollUnconnected \/ Leave \/ DestroyResult
      BY <3>2, <3>3, <3>5 DEF Kill, PollUnconnected, Leave, DestroyResult
    <3>6. CASE \/ \E u \in Task : Take(u)
               \/ Poll \/ PollThrows \/ Run \/ Finish \/ Fail \/ EndBatch \/ Wake
      BY <2>2, <3>6 DEF Take, Poll, PollThrows, Run, Finish, Fail, EndBatch, Wake
    <3> QED
      BY <3>1, <3>4, <3>5, <3>6 DEF Next, Schedule, Main
  <2>3. ASSUME row[t] # "finished", row'[t] = "finished"
        PROVE  Pushing' \/ faulty
    <3>1. row \in [Task -> Status]
      BY DEF IInv, TypeOK
    <3>2. CASE Finish
      <4>1. task = t /\ task' = task
        BY <2>3, <3>1, <3>2 DEF Finish, Save
      <4> QED
        BY <2>3, <3>2, <4>1 DEF Finish, Save
    <3>3. ASSUME row' = row PROVE FALSE
      BY <2>3, <3>3
    <3>4. ASSUME NEW u \in Task, AddTask(u) \/ Take(u) PROVE FALSE
      BY <2>3, <3>1, <3>4 DEF AddTask, Take, Save
    <3>5. CASE Fail
      BY <2>3, <3>1, <3>5 DEF Fail, Save
    <3>6. CASE Kill \/ Restart \/ LoseConnection \/ PollUnconnected \/ Leave
      BY <3>3, <3>6 DEF Kill, Restart, LoseConnection, PollUnconnected, Leave, scheduler
    <3>7. CASE Poll \/ PollThrows \/ Run \/ PushResult \/ EndBatch \/ Wake
      BY <3>3, <3>7 DEF Poll, PollThrows, Run, PushResult, EndBatch, Wake
    <3>8. CASE Listen \/ SendResult \/ DestroyResult \/ UNCHANGED vars
      BY <3>3, <3>8 DEF Listen, SendResult, DestroyResult, scheduler, vars
    <3> QED
      BY <3>2, <3>4, <3>5, <3>6, <3>7, <3>8 DEF Next, Schedule, Main
  <2> HIDE DEF Pushing
  <2> QED
    BY <2>1, <2>2, <2>3, AnnouncedStays
<1> QED
  BY <1>1, Invariance, PTL DEF Spec, ResultKept
=============================================================================
