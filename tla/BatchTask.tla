----------------------------- MODULE BatchTask -----------------------------
(***************************************************************************)
(* BatchTask (src/batch.cpp): a thread that runs the jobs other threads    *)
(* queue with execute().  The queue is a LinuxQueue created without a      *)
(* mutex; its only consumer is the task's thread, Runner.  A client may    *)
(* wait for a WaitJob it queued; the owner deletes the task.               *)
(***************************************************************************)
EXTENDS LinuxQueue, SequencesExt

CONSTANTS
  Runner,    \* the task's thread
  Owner,     \* the client that deletes the task, once the others have finished
  WaitJobs,  \* the jobs whose client calls WaitJob::wait()
  Quit       \* the null job

Clients == Producers
Jobs == Messages \ {Quit}

ASSUME BatchTaskAssumption ==
  /\ Consumers = {Runner}
  /\ Owner \in Clients
  /\ Quit \in Messages
  /\ WaitJobs \subseteq Jobs

VARIABLES
  asked,    \* the jobs each client has passed to execute(), in order
  client,   \* where each client is: it is "calling" while put() runs
  posted,   \* the count of each WaitJob's semaphore
  running,  \* BatchTask::run() has not left its loop
  exited,   \* the task's thread has ended
  log       \* the jobs that have run, in order

batchVars == <<asked, client, posted, running, exited, log>>
allVars == <<vars, batchVars>>

-----------------------------------------------------------------------------
BatchInit ==
  /\ Init
  /\ asked = [c \in Clients |-> <<>>]
  /\ client = [c \in Clients |-> "ready"]
  /\ posted = [j \in WaitJobs |-> 0]
  /\ running = TRUE
  /\ exited = FALSE
  /\ log = <<>>

Fresh(j) == \A c \in Clients : j \notin ToSet(asked[c])

\* execute(j) begins its put(); every job is queued once.
Execute(c, j) ==
  /\ client[c] = "ready"
  /\ Fresh(j)
  /\ Put(c, j)
  /\ asked' = [asked EXCEPT ![c] = Append(@, j)]
  /\ client' = [client EXCEPT ![c] = "calling"]
  /\ UNCHANGED <<posted, running, exited, log>>

\* put() returned: a WaitJob is waited for, any other job is left to run.
Executed(c) ==
  /\ client[c] = "calling"
  /\ pc[c] = "idle"
  /\ client' = [client EXCEPT ![c] = IF Last(asked[c]) \in WaitJobs THEN "waiting" ELSE "ready"]
  /\ UNCHANGED <<vars, asked, posted, running, exited, log>>

\* WaitJob::wait()
WaitJob(c) ==
  /\ client[c] = "waiting"
  /\ posted[Last(asked[c])] > 0
  /\ posted' = [posted EXCEPT ![Last(asked[c])] = @ - 1]
  /\ client' = [client EXCEPT ![c] = "ready"]
  /\ UNCHANGED <<vars, asked, running, exited, log>>

\* ~BatchTask(): execute(0), thread->join(); the thread and the queue are freed.
Delete ==
  /\ \A c \in Clients : client[c] = "ready"
  /\ \A j \in Jobs : ~Fresh(j)
  /\ Put(Owner, Quit)
  /\ client' = [client EXCEPT ![Owner] = "quitting"]
  /\ UNCHANGED <<asked, posted, running, exited, log>>

\* Faulty: deletes the queue without joining the thread.
Join_Skipped ==
  /\ client[Owner] = "quitting"
  /\ pc[Owner] = "idle"
  /\ client' = [client EXCEPT ![Owner] = "deleted"]
  /\ UNCHANGED <<vars, asked, posted, running, exited, log>>

Join ==
  /\ client[Owner] = "quitting"
  /\ pc[Owner] = "idle"
  /\ exited
  /\ client' = [client EXCEPT ![Owner] = "deleted"]
  /\ UNCHANGED <<vars, asked, posted, running, exited, log>>

-----------------------------------------------------------------------------
(* The thread: BatchTask::run().                                           *)

\* Round the loop, the first time or after get() returned false.
RunGet ==
  /\ running
  /\ msg[Runner] = None
  /\ Get(Runner)
  /\ UNCHANGED batchVars

HasJob == running /\ pc[Runner] = "idle" /\ msg[Runner] # None

\* Faulty: does not signal a WaitJob.
RunJob_Silent ==
  /\ HasJob
  /\ msg[Runner] # Quit
  /\ log' = Append(log, msg[Runner])
  /\ msg' = [msg EXCEPT ![Runner] = None]
  /\ UNCHANGED <<ringVars, semVars, mutex, pc, next, puts, posted, asked, client, running, exited>>

\* job->run(); a WaitJob posts its semaphore.
RunJob ==
  /\ HasJob
  /\ msg[Runner] # Quit
  /\ log' = Append(log, msg[Runner])
  /\ posted' = [j \in WaitJobs |-> posted[j] + (IF j = msg[Runner] THEN 1 ELSE 0)]
  /\ msg' = [msg EXCEPT ![Runner] = None]
  /\ UNCHANGED <<ringVars, semVars, mutex, pc, next, puts, asked, client, running, exited>>

\* The null job ends the loop.
RunQuit ==
  /\ HasJob
  /\ msg[Runner] = Quit
  /\ running' = FALSE
  /\ UNCHANGED <<vars, asked, client, posted, exited, log>>

\* The thread leaves the list of threads and exits.
Exit ==
  /\ ~running
  /\ ~exited
  /\ exited' = TRUE
  /\ UNCHANGED <<vars, asked, client, posted, running, log>>

-----------------------------------------------------------------------------
Client(c) ==
  \/ \E j \in Jobs : Execute(c, j)
  \/ Executed(c) \/ WaitJob(c)
  \/ PutStep(c) /\ UNCHANGED batchVars
  \/ c = Owner /\ (Delete \/ Join)

Run ==
  \/ RunGet \/ RunJob \/ RunQuit \/ Exit
  \/ GetStep(Runner) /\ UNCHANGED batchVars

BatchNext == (\E c \in Clients : Client(c)) \/ Run

BatchSpec == BatchInit /\ [][BatchNext]_allVars

\* Every client goes on with its jobs and the owner does delete the task.
FairBatchSpec ==
  /\ BatchSpec
  /\ \A c \in Clients : SF_allVars(Client(c))
  /\ SF_allVars(Run)

-----------------------------------------------------------------------------
(* Properties.                                                             *)

\* No job runs twice, and those of one client run in the order it queued them.
RunsInOrder ==
  /\ \A i, k \in DOMAIN log : log[i] = log[k] => i = k
  /\ \A c \in Clients : \A i \in DOMAIN log, later \in DOMAIN asked[c] :
       log[i] = asked[c][later] =>
         \A earlier \in 1 .. later - 1 : \E k \in 1 .. i - 1 : log[k] = asked[c][earlier]

Deleted == client[Owner] = "deleted"

\* "waits for all tasks to complete" (unit-tests/batch.cpp:59): by the time the
\* destructor has joined the thread, every job has run and nobody is left
\* between the steps of put() or get(), so freeing the queue is safe.
DeleteCompletesJobs ==
  Deleted => /\ ToSet(log) = Jobs
             /\ \A t \in Threads : pc[t] = "idle"
             /\ exited

\* The jobs are done, in order and before the destructor returns: the two above
\* (batch.cpp:38).
JobsAreDone == RunsInOrder /\ DeleteCompletesJobs

\* The destructor returns, so every execute() and WaitJob::wait() before it did.
DeleteReturns == <>Deleted

\* The property of DeleteCompletesJobs for any number of threads that share the
\* task start() returns to all of them.
SharedTaskRunsAll == Deleted => ToSet(log) = Jobs
=============================================================================
