------------------------------- MODULE Radar -------------------------------
(***************************************************************************)
(* The radar process (radar.cpp): scanner::scheduler's thread, which polls *)
(* the tasks table, runs what it finds and pushes the results, and the     *)
(* main thread in football_client::listen, which pops the results and      *)
(* sends them to the server.  The table outlives the process; everything   *)
(* else dies with it.                                                      *)
(*                                                                         *)
(* The queue between the two threads is used as the FIFO channel TsQueue   *)
(* is proved to be; `sent' is what was given to connection::send, the part *)
(* Connection.tla takes over.  Tasks are rows of the table, and a result   *)
(* is named by the task it comes from.  What a publisher may answer comes  *)
(* from Publisher.  One radar runs at a time.                              *)
(***************************************************************************)
EXTENDS Naturals, Sequences, FiniteSets

CONSTANTS Task,         \* the rows that may appear in tasks
          Supported,    \* those of type new_championship
          NoTask,
          Answer,       \* what get_new_championship may return: success or not,
                        \* and a name that is defined or not
          StartsConnected, \* may something have called mysql::server::connect
                           \* before the scheduler starts?  Some of BOOLEAN
          Faults,       \* may the database fail and the process be killed?  Some
                \* of BOOLEAN
          MaxRestart    \* bound: how often the process is started again

ASSUME RadarAssumption ==
  /\ Supported \subseteq Task
  /\ NoTask \notin Task
  /\ Answer \subseteq [success : BOOLEAN, defined : BOOLEAN]
  /\ StartsConnected \subseteq BOOLEAN
  /\ Faults \subseteq BOOLEAN
  /\ MaxRestart \in Nat

VARIABLES
  row,      \* tasks.status of each task
  alive,    \* is the process running?
  restarts, \* how often it has been started again
  faulty,   \* may something fail in this behaviour?
  db,       \* is mysql::server::connection set?
  pc,       \* where the scheduler's thread is
  batch,    \* the tasks of this poll it has not come to yet
  task,     \* the task it is busy with
  queue,    \* the results it has pushed
  mpc,      \* where the main thread is
  conn,     \* is_connected()
  sent,     \* history: results given to connection::send
  dropped,  \* history: results popped while there was no connection
  runs      \* history: how often each task's run() was called

vars == <<row, alive, restarts, faulty, db, pc, batch, task, queue, mpc, conn,
          sent, dropped, runs>>
world == <<restarts, faulty, db>>
scheduler == <<row, pc, batch, task, queue, runs>>
listener == <<mpc, conn, sent, dropped>>

Settled == {"finished", "error"}
Status == {"absent", "new", "running"} \cup Settled

\* The scheduler's thread starts first; listen has not been called yet.
FreshProcess ==
  [pc |-> "poll", batch |-> {}, task |-> NoTask, queue |-> <<>>, mpc |-> "start"]

Init ==
  /\ row = [t \in Task |-> "absent"]
  /\ alive = TRUE
  /\ restarts = 0
  /\ faulty \in Faults
  /\ db \in StartsConnected
  /\ pc = FreshProcess.pc
  /\ batch = FreshProcess.batch
  /\ task = FreshProcess.task
  /\ queue = FreshProcess.queue
  /\ mpc = FreshProcess.mpc
  /\ conn \in BOOLEAN
  /\ sent = <<>>
  /\ dropped = <<>>
  /\ runs = [t \in Task |-> 0]

\* The process is gone, and with it the result queue.
Die ==
  /\ alive' = FALSE
  /\ pc' = FreshProcess.pc
  /\ batch' = FreshProcess.batch
  /\ task' = FreshProcess.task
  /\ queue' = FreshProcess.queue
  /\ mpc' = FreshProcess.mpc

-----------------------------------------------------------------------------
(* Outside the process *)

\* Somebody saves a task with status new_task.
AddTask(t) ==
  /\ row[t] = "absent"
  /\ row' = [row EXCEPT ![t] = "new"]
  /\ UNCHANGED <<alive, world, pc, batch, task, queue, runs, listener>>

Kill ==
  /\ faulty
  /\ alive
  /\ Die
  /\ UNCHANGED <<row, world, conn, sent, dropped, runs>>

Restart ==
  /\ ~ alive
  /\ restarts < MaxRestart
  /\ restarts' = restarts + 1
  /\ alive' = TRUE
  /\ db' \in StartsConnected
  /\ conn' \in BOOLEAN
  /\ UNCHANGED <<faulty, scheduler, mpc, sent, dropped>>

\* The socket is closed after an error; listen does not connect again.
LoseConnection ==
  /\ faulty
  /\ alive /\ conn
  /\ conn' = FALSE
  /\ UNCHANGED <<scheduler, alive, world, mpc, sent, dropped>>

-----------------------------------------------------------------------------
(* The scheduler's thread *)

\* table::save of the task with status s.  It returns true and the thread is at
\* `saved'; or it returns false, the row written or not, since insert catches every
\* exception, also one for a lost answer, and reload may find nothing; or reload
\* throws, and the exception ends the thread.
Save(t, s, saved, refused) ==
  \/ row' = [row EXCEPT ![t] = s] /\ pc' = saved
  \/ faulty /\ row' \in {row, [row EXCEPT ![t] = s]} /\ pc' = refused
  \/ faulty /\ row' = [row EXCEPT ![t] = s] /\ pc' = "dead"

\* Mutant: the poll also picks up what an earlier process left running.
PollUnfinished ==
  /\ alive /\ pc = "poll" /\ db
  /\ batch' = {t \in Supported : row[t] \in {"new", "running"}}
  /\ pc' = "take"
  /\ UNCHANGED <<row, alive, world, task, queue, runs, listener>>

\* SELECT id, type FROM tasks WHERE status = new_task; a task object is built
\* for each row of a known type.
Poll ==
  /\ alive /\ pc = "poll" /\ db
  /\ batch' = {t \in Supported : row[t] = "new"}
  /\ pc' = "take"
  /\ UNCHANGED <<row, alive, world, task, queue, runs, listener>>

\* prepare_execute does not call connect(), so the connection is a null pointer
\* unless somebody else has: the process crashes.
PollUnconnected ==
  /\ alive /\ pc = "poll" /\ ~ db
  /\ Die
  /\ UNCHANGED <<row, world, conn, sent, dropped, runs>>

\* The database throws: the exception ends the thread and nobody is told.
PollThrows ==
  /\ faulty
  /\ alive /\ pc = "poll" /\ db
  /\ pc' = "dead"
  /\ UNCHANGED <<row, alive, world, batch, task, queue, runs, listener>>

\* Mutant: the task is marked scheduled, a status of the enumeration that
\* nothing else knows.
TakeAsScheduled(t) ==
  /\ alive /\ pc = "take" /\ t \in batch
  /\ batch' = batch \ {t}
  /\ task' = t
  /\ Save(t, "scheduled", "run", "take")
  /\ UNCHANGED <<alive, world, queue, runs, listener>>

\* The next task: mark it running, and go on only if that was saved.
Take(t) ==
  /\ alive /\ pc = "take" /\ t \in batch
  /\ batch' = batch \ {t}
  /\ task' = t
  /\ Save(t, "running", "run", "take")
  /\ UNCHANGED <<alive, world, queue, runs, listener>>

\* task->run() asks the task's publisher, whatever page that gets.  It may throw;
\* and an undefined name may as well be the end of the process.
Run ==
  /\ alive /\ pc = "run"
  /\ runs' = [runs EXCEPT ![task] = @ + 1]
  /\ \E answer \in Answer :
       \/ /\ \/ pc' = IF answer.success THEN "succeeded" ELSE "failed"
             \/ faulty /\ pc' = "dead"
          /\ UNCHANGED <<alive, batch, task, queue, mpc>>
       \/ ~ answer.defined /\ Die
  /\ UNCHANGED <<row, world, conn, sent, dropped>>

\* Mutant: what save returns is not looked at.
FinishUnchecked ==
  /\ alive /\ pc = "succeeded"
  /\ Save(task, "finished", "push", "push")
  /\ UNCHANGED <<alive, world, batch, task, queue, runs, listener>>

\* Mutant: what save returns is looked at the wrong way round.
FinishInverted ==
  /\ alive /\ pc = "succeeded"
  /\ Save(task, "finished", "take", "push")
  /\ UNCHANGED <<alive, world, batch, task, queue, runs, listener>>

\* Success: the result is stored with the task, and pushed only if that worked.
Finish ==
  /\ alive /\ pc = "succeeded"
  /\ Save(task, "finished", "push", "take")
  /\ UNCHANGED <<alive, world, batch, task, queue, runs, listener>>

PushResult ==
  /\ alive /\ pc = "push"
  /\ queue' = Append(queue, task)
  /\ pc' = "take"
  /\ UNCHANGED <<row, alive, world, batch, task, runs, listener>>

\* Mutant: a task that failed is put back for another try.
FailRetries ==
  /\ alive /\ pc = "failed"
  /\ Save(task, "new", "take", "take")
  /\ UNCHANGED <<alive, world, batch, task, queue, runs, listener>>

\* Mutant: a task that failed is left as it is.
FailForgets ==
  /\ alive /\ pc = "failed"
  /\ pc' = "take"
  /\ UNCHANGED <<row, alive, world, batch, task, queue, runs, listener>>

\* Failure: the message is stored with the task; what save returns is ignored.
Fail ==
  /\ alive /\ pc = "failed"
  /\ Save(task, "error", "take", "take")
  /\ UNCHANGED <<alive, world, batch, task, queue, runs, listener>>

\* The tasks of this poll are done: sleep.
EndBatch ==
  /\ alive /\ pc = "take" /\ batch = {}
  /\ pc' = "sleep"
  /\ task' = NoTask
  /\ UNCHANGED <<row, alive, world, batch, queue, runs, listener>>

\* cancel_thread is set by ~scheduler, once main() has returned from listen.
Cancelled == mpc = "leaving"

\* Mutant: the thread never looks at cancel_thread.
WakeForever ==
  /\ alive /\ pc = "sleep"
  /\ pc' = "poll"
  /\ UNCHANGED <<row, alive, world, batch, task, queue, runs, listener>>

Wake ==
  /\ alive /\ pc = "sleep"
  /\ pc' = IF Cancelled THEN "stopped" ELSE "poll"
  /\ UNCHANGED <<row, alive, world, batch, task, queue, runs, listener>>

-----------------------------------------------------------------------------
(* The main thread *)

\* listen() returns at once if there is no connection, and never otherwise.
Listen ==
  /\ alive /\ mpc = "start"
  /\ mpc' = IF conn THEN "drain" ELSE "leaving"
  /\ UNCHANGED <<scheduler, alive, world, conn, sent, dropped>>

\* client_interface::send drops what it is given when there is no connection.
GiveToClient(r) ==
  IF conn THEN sent' = Append(sent, r) /\ UNCHANGED dropped
          ELSE dropped' = Append(dropped, r) /\ UNCHANGED sent

\* Mutant: the result is read with front() and stays in the queue.
SendResultKeeps ==
  /\ alive /\ mpc = "drain" /\ queue # <<>>
  /\ Len(sent) <= Cardinality(Task)
  /\ GiveToClient(Head(queue))
  /\ mpc' = "destroy"
  /\ UNCHANGED <<scheduler, alive, world, conn>>

\* Mutant: the loop stops at count() > 1.
SendResultOffByOne ==
  /\ alive /\ mpc = "drain" /\ Len(queue) > 1
  /\ queue' = Tail(queue)
  /\ GiveToClient(Head(queue))
  /\ mpc' = "destroy"
  /\ UNCHANGED <<row, alive, world, pc, batch, task, runs, conn>>

\* A turn of listen's loop over the results.
SendResult ==
  /\ alive /\ mpc = "drain" /\ queue # <<>>
  /\ queue' = Tail(queue)
  /\ GiveToClient(Head(queue))
  /\ mpc' = "destroy"
  /\ UNCHANGED <<row, alive, world, pc, batch, task, runs, conn>>

\* util::New has made a second unique_ptr to the result just sent, and both
\* delete it.  What that does is undefined: the process crashes or goes on.
DestroyResult ==
  /\ alive /\ mpc = "destroy"
  /\ \/ /\ mpc' = "drain"
        /\ UNCHANGED <<row, alive, pc, batch, task, queue>>
     \/ /\ Die
        /\ UNCHANGED row
  /\ UNCHANGED <<world, conn, sent, dropped, runs>>

\* ~scheduler waits for its thread.  Either way the process ends: if the thread
\* died of an exception, get() throws it again out of the destructor.
Leave ==
  /\ alive /\ mpc = "leaving" /\ pc \in {"stopped", "dead"}
  /\ Die
  /\ UNCHANGED <<row, world, conn, sent, dropped, runs>>

-----------------------------------------------------------------------------

Schedule ==
  \/ Poll \/ PollUnconnected \/ PollThrows
  \/ \E t \in Task : Take(t)
  \/ Run \/ Finish \/ PushResult \/ Fail \/ EndBatch \/ Wake

Main == Listen \/ SendResult \/ DestroyResult \/ Leave

Next ==
  \/ \E t \in Task : AddTask(t)
  \/ Kill \/ Restart \/ LoseConnection
  \/ Schedule
  \/ Main

Spec == Init /\ [][Next]_vars

\* Both threads run whenever they can.  Nobody owes a task, a fault or a
\* restart.
FairSpec == Spec /\ WF_vars(Schedule) /\ WF_vars(Main)

-----------------------------------------------------------------------------
(* Properties *)

Results == {queue[i] : i \in DOMAIN queue} \cup {sent[i] : i \in DOMAIN sent}

\* The type of every variable.  The statuses none and scheduled never reach the
\* table.
TypeOK ==
  /\ row \in [Task -> Status]
  /\ alive \in BOOLEAN
  /\ restarts \in 0 .. MaxRestart
  /\ faulty \in Faults
  /\ db \in BOOLEAN
  /\ pc \in {"poll", "take", "run", "succeeded", "push", "failed", "sleep",
             "stopped", "dead"}
  /\ batch \subseteq Supported
  /\ task \in Supported \cup {NoTask}
  /\ queue \in Seq(Supported)
  /\ mpc \in {"start", "drain", "destroy", "leaving"}
  /\ conn \in BOOLEAN
  /\ sent \in Seq(Supported)
  /\ dropped \in Seq(Supported)
  /\ runs \in [Task -> Nat]

\* A task is run at most once, whatever fails and however often the process is
\* killed and started again.
RunsOnce == \A t \in Task : runs[t] <= 1

\* A result that has been pushed or sent belongs to a task the table says is
\* finished: the other processes never see a result without its record.
ResultRecorded == \A t \in Results : row[t] = "finished"

\* No result is handed on twice.
ResultOnce ==
  LET all == sent \o dropped \o queue IN
    \A i, j \in DOMAIN all : all[i] = all[j] => i = j

\* A task's status only moves forward, and settles once.
StatusPath ==
  [][\A t \in Task : row'[t] # row[t] =>
       <<row[t], row'[t]>> \in {<<"absent", "new">>, <<"new", "running">>,
                                <<"running", "finished">>, <<"running", "error">>}]_vars

\* A task that runs is in the thread's hands, or nobody's: its process or its thread
\* has died, or save() was false of `running', written or not, or of its last status.
InHand(t) == task = t /\ pc \in {"run", "succeeded", "failed"}
Abandoned(t) == row[t] = "running" /\ ~ InHand(t)

\* A task that is running and in nobody's hands stays so for ever: that is the price
\* of running none twice.  No poll, no other task and no restart settles it, takes
\* it up again or reports a result for it.
AbandonedForGood ==
  [][\A t \in Task : Abandoned(t) => Abandoned(t)' /\ t \notin Results']_vars

\* The result of t is about to be pushed, waits to be sent, or was handed on.
Held(t) ==
  \/ pc = "push" /\ task = t
  \/ t \in Results
  \/ \E i \in DOMAIN dropped : dropped[i] = t

\* A result that the thread is about to push stays somewhere until it was given to
\* the client: while it waits, only the end of the process loses it.  And without a
\* fault of the database a task is never recorded as finished but with such a result.
\* (With one, save() may be false of a record that was written, or throw.)
ResultKept ==
  [][\A t \in Task :
       /\ Held(t) => Held(t)' \/ ~ alive'
       /\ row[t] # "finished" /\ row'[t] = "finished" => Held(t)' \/ faulty]_vars

\* Unless something may fail, a new task is finished or in error some day, or
\* the process dies.
Settles ==
  \A t \in Supported :
    row[t] = "new" /\ ~ faulty ~> row[t] \in Settled \/ ~ alive

\* A result leaves the queue, unless the process dies.
ResultLeaves ==
  \A t \in Supported :
    t \in {queue[i] : i \in DOMAIN queue} ~>
      t \notin {queue[i] : i \in DOMAIN queue}

\* Once main() has returned from listen the process ends: the scheduler's
\* thread sees cancel_thread.
ShutsDown == mpc = "leaving" ~> ~ alive

\* The first task of a radar gets a result or an error.
FirstTaskSettles ==
  \A t \in Supported :
    row[t] = "new" ~> row[t] \in Settled \/ sent # <<>> \/ mpc = "leaving"
=============================================================================
