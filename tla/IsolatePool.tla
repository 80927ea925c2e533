---------------------------- MODULE IsolatePool ----------------------------
(***************************************************************************)
(* The pool of isolates of amber:pool, src/src/pool/mod.rs: worker threads *)
(* that own one runtime each, a stack of idle workers, and the calls of    *)
(* execute and destroy made by any number of threads at once.              *)
(*                                                                         *)
(* A call takes a worker out of the stack (or starts one), sends it the    *)
(* task, waits for the answer at most timeout_ms, and puts the worker      *)
(* back. The code of a task is its call: it may finish, fail, panic or     *)
(* never end. A sender is gone when neither the stack nor a call holds its *)
(* worker.                                                                 *)
(***************************************************************************)
EXTENDS Integers, Sequences, FiniteSets

CONSTANTS
  Client,       \* the threads that use the pool
  MinIsolates,  \* PoolConfig.min_isolates
  MaxIsolates,  \* PoolConfig.max_isolates
  MaxWorker,    \* bound on the workers ever started: they are 1..MaxWorker
  MaxCalls      \* bound on the calls of execute

ASSUME PoolAssumption ==
  /\ IsFiniteSet(Client)
  /\ MinIsolates \in Nat /\ MaxIsolates \in Nat /\ MaxWorker \in Nat /\ MaxCalls \in Nat
  /\ MinIsolates <= MaxWorker /\ MaxWorker > 0

Worker == 1..MaxWorker
Call == 1..MaxCalls

VARIABLES
  destroyed,  \* NativeIsolatePool.destroyed
  drained,    \* destroy has emptied the stack
  workers,    \* NativeIsolatePool.workers
  created,    \* metrics.total_created
  active,     \* metrics.active_tasks
  completed,  \* metrics.tasks_completed
  failed,     \* metrics.tasks_failed
  thread,     \* what each worker thread is doing
  shutdown,   \* WorkerThread.shutdown
  queue,      \* the tasks sent to each worker and not yet received
  task,       \* the task each worker runs, or 0
  pc,         \* where each client is in execute
  held,       \* the worker its call has taken, or 0
  call,       \* the number of its call
  reply,      \* the reply channel of each call: "none", "ok", "err" or "closed"
  result,     \* what its call will return
  calls       \* calls of execute so far

pool == <<destroyed, drained, workers>>
metrics == <<created, active, completed, failed>>
threads == <<thread, shutdown, queue, task, reply>>
clients == <<pc, held, call, result, calls>>
vars == <<pool, metrics, threads, clients>>

\* MinIsolates workers are started, and at least one.
Initial == IF MinIsolates = 0 THEN 1 ELSE MinIsolates

Init ==
  /\ destroyed = FALSE
  /\ drained = FALSE
  /\ workers = [n \in 1..Initial |-> n]
  /\ created = Initial
  /\ active = 0
  /\ completed = 0
  /\ failed = 0
  /\ thread = [w \in Worker |-> IF w <= Initial THEN "starting" ELSE "none"]
  /\ shutdown = [w \in Worker |-> FALSE]
  /\ queue = [w \in Worker |-> <<>>]
  /\ task = [w \in Worker |-> 0]
  /\ reply = [k \in Call |-> "none"]
  /\ pc = [c \in Client |-> "out"]
  /\ held = [c \in Client |-> 0]
  /\ call = [c \in Client |-> 0]
  /\ result = [c \in Client |-> "none"]
  /\ calls = 0

-----------------------------------------------------------------------------
(* execute *)

Goto(c, to) == pc' = [pc EXCEPT ![c] = to]

\* A call on a pool that is not destroyed is counted as active.
Execute(c) ==
  /\ pc[c] = "out"
  /\ ~destroyed
  /\ calls < MaxCalls
  /\ calls' = calls + 1
  /\ call' = [call EXCEPT ![c] = calls + 1]
  /\ active' = active + 1
  /\ Goto(c, "take")
  /\ UNCHANGED <<pool, created, completed, failed, threads, held, result>>

\* Mutant of Take: the worker is used and left in the stack.
TakeKeeps(c) ==
  /\ pc[c] = "take"
  /\ workers # <<>>
  /\ held' = [held EXCEPT ![c] = workers[Len(workers)]]
  /\ Goto(c, "send")
  /\ UNCHANGED <<pool, metrics, threads, call, result, calls>>

\* The worker put back last is taken first.
Take(c) ==
  /\ pc[c] = "take"
  /\ workers # <<>>
  /\ held' = [held EXCEPT ![c] = workers[Len(workers)]]
  /\ workers' = SubSeq(workers, 1, Len(workers) - 1)
  /\ Goto(c, "send")
  /\ UNCHANGED <<destroyed, drained, metrics, threads, call, result, calls>>

\* An empty stack: a worker is started, however many there are.
Spawn(c) ==
  /\ pc[c] = "take"
  /\ workers = <<>>
  /\ created < MaxWorker
  /\ created' = created + 1
  /\ thread' = [thread EXCEPT ![created + 1] = "starting"]
  /\ held' = [held EXCEPT ![c] = created + 1]
  /\ Goto(c, "send")
  /\ UNCHANGED <<pool, active, completed, failed, shutdown, queue, task, reply, call, result, calls>>

Send(c) ==
  /\ pc[c] = "send"
  /\ thread[held[c]] # "dead"
  /\ queue' = [queue EXCEPT ![held[c]] = Append(@, call[c])]
  /\ Goto(c, "wait")
  /\ UNCHANGED <<pool, metrics, thread, shutdown, task, reply, held, call, result, calls>>

\* The thread has ended: its receiver is gone.
SendFails(c) ==
  /\ pc[c] = "send"
  /\ thread[held[c]] = "dead"
  /\ result' = [result EXCEPT ![c] = "err"]
  /\ Goto(c, "recycle")
  /\ UNCHANGED <<pool, metrics, threads, held, call, calls>>

\* The answer arrives, or the thread ends without one.
Receive(c) ==
  /\ pc[c] = "wait"
  /\ reply[call[c]] # "none"
  /\ result' = [result EXCEPT ![c] = IF reply[call[c]] = "ok" THEN "ok" ELSE "err"]
  /\ Goto(c, "recycle")
  /\ UNCHANGED <<pool, metrics, threads, held, call, calls>>

\* Mutant of TimesOut: only tasks that were started time out.
TimesOutStarted(c) ==
  /\ pc[c] = "wait"
  /\ reply[call[c]] = "none"
  /\ task[held[c]] = call[c]
  /\ result' = [result EXCEPT ![c] = "err"]
  /\ Goto(c, "recycle")
  /\ UNCHANGED <<pool, metrics, threads, held, call, calls>>

\* timeout_ms passes without an answer; the task goes on.
TimesOut(c) ==
  /\ pc[c] = "wait"
  /\ reply[call[c]] = "none"
  /\ result' = [result EXCEPT ![c] = "err"]
  /\ Goto(c, "recycle")
  /\ UNCHANGED <<pool, metrics, threads, held, call, calls>>

\* The worker goes back to the stack, whatever it is doing, unless there are
\* max_isolates in it: then it is told to stop, and its sender goes.
Recycle(c) ==
  /\ pc[c] = "recycle"
  /\ IF Len(workers) < MaxIsolates
     THEN workers' = Append(workers, held[c]) /\ UNCHANGED shutdown
     ELSE shutdown' = [shutdown EXCEPT ![held[c]] = TRUE] /\ UNCHANGED workers
  /\ held' = [held EXCEPT ![c] = 0]
  /\ Goto(c, "leave")
  /\ UNCHANGED <<destroyed, drained, metrics, thread, queue, task, reply, call, result, calls>>

\* Mutant of Leave: the counter is decremented twice.
LeaveTwice(c) ==
  /\ pc[c] = "leave"
  /\ active' = active - 2
  /\ Goto(c, "count")
  /\ UNCHANGED <<pool, created, completed, failed, threads, held, call, result, calls>>

Leave(c) ==
  /\ pc[c] = "leave"
  /\ active' = active - 1
  /\ Goto(c, "count")
  /\ UNCHANGED <<pool, created, completed, failed, threads, held, call, result, calls>>

\* Mutant of Return: failed calls are not counted.
ReturnCountsOk(c) ==
  /\ pc[c] = "count"
  /\ completed' = IF result[c] = "ok" THEN completed + 1 ELSE completed
  /\ Goto(c, "out")
  /\ UNCHANGED <<pool, created, active, failed, threads, held, call, result, calls>>

Return(c) ==
  /\ pc[c] = "count"
  /\ IF result[c] = "ok"
     THEN completed' = completed + 1 /\ UNCHANGED failed
     ELSE failed' = failed + 1 /\ UNCHANGED completed
  /\ Goto(c, "out")
  /\ UNCHANGED <<pool, created, active, threads, held, call, result, calls>>

-----------------------------------------------------------------------------
(* destroy *)

\* No call starts from now on; calls that have started go on.
Destroy ==
  /\ ~destroyed
  /\ destroyed' = TRUE
  /\ UNCHANGED <<drained, workers, metrics, threads, clients>>

InStack(w) == \E n \in DOMAIN workers : workers[n] = w

Drain ==
  /\ destroyed /\ ~drained
  /\ drained' = TRUE
  /\ shutdown' = [w \in Worker |-> shutdown[w] \/ InStack(w)]
  /\ workers' = <<>>
  /\ UNCHANGED <<destroyed, metrics, thread, queue, task, reply, clients>>

\* The registry has let go of the pool; the last call that returns drops it with
\* the workers that were put back after the drain.
DropPool ==
  /\ drained
  /\ workers # <<>>
  /\ \A c \in Client : pc[c] = "out"
  /\ workers' = <<>>
  /\ UNCHANGED <<destroyed, drained, metrics, threads, clients>>

-----------------------------------------------------------------------------
(* The worker threads *)

\* The worker's sender is in the stack or held by a call.
HasSender(w) == InStack(w) \/ \E c \in Client : held[c] = w

\* The reply senders of a call go with the task.
Closed(tasks) ==
  [k \in Call |-> IF k \in tasks /\ reply[k] = "none" THEN "closed" ELSE reply[k]]

Tasks(w) == {queue[w][n] : n \in DOMAIN queue[w]} \cup {task[w]}

\* The thread ends; its receiver goes, and every task it still has.
Ends(w) ==
  /\ thread' = [thread EXCEPT ![w] = "dead"]
  /\ reply' = Closed(Tasks(w))
  /\ queue' = [queue EXCEPT ![w] = <<>>]
  /\ task' = [task EXCEPT ![w] = 0]
  /\ UNCHANGED <<pool, metrics, shutdown, clients>>

Start(w) ==
  /\ thread[w] = "starting"
  /\ thread' = [thread EXCEPT ![w] = "loop"]
  /\ UNCHANGED <<pool, metrics, shutdown, queue, task, reply, clients>>

\* MinimalRuntime::new fails.
StartFails(w) == thread[w] = "starting" /\ Ends(w)

\* The head of the loop: the flag is read, then the channel.
CheckShutdown(w) ==
  /\ thread[w] = "loop" /\ ~shutdown[w]
  /\ thread' = [thread EXCEPT ![w] = "recv"]
  /\ UNCHANGED <<pool, metrics, shutdown, queue, task, reply, clients>>

StopRequested(w) == thread[w] = "loop" /\ shutdown[w] /\ Ends(w)

ReceiveTask(w) ==
  /\ thread[w] = "recv"
  /\ queue[w] # <<>>
  /\ thread' = [thread EXCEPT ![w] = "busy"]
  /\ task' = [task EXCEPT ![w] = Head(queue[w])]
  /\ queue' = [queue EXCEPT ![w] = Tail(@)]
  /\ UNCHANGED <<pool, metrics, shutdown, reply, clients>>

\* recv_timeout returns after half a second and the loop starts again.
ReceiveTimesOut(w) ==
  /\ thread[w] = "recv" /\ queue[w] = <<>>
  /\ HasSender(w)
  /\ thread' = [thread EXCEPT ![w] = "loop"]
  /\ UNCHANGED <<pool, metrics, shutdown, queue, task, reply, clients>>

\* Mutant of Disconnected: the loop goes on without a sender.
DisconnectedGoesOn(w) ==
  /\ thread[w] = "recv" /\ queue[w] = <<>>
  /\ ~HasSender(w)
  /\ thread' = [thread EXCEPT ![w] = "loop"]
  /\ UNCHANGED <<pool, metrics, shutdown, queue, task, reply, clients>>

Disconnected(w) ==
  /\ thread[w] = "recv" /\ queue[w] = <<>>
  /\ ~HasSender(w)
  /\ Ends(w)

\* The answer of a call that has timed out goes nowhere.
Finish(w, answer) ==
  /\ thread[w] = "busy"
  /\ thread' = [thread EXCEPT ![w] = "loop"]
  /\ reply' = [reply EXCEPT ![task[w]] = answer]
  /\ task' = [task EXCEPT ![w] = 0]
  /\ UNCHANGED <<pool, metrics, shutdown, queue, clients>>

\* The task panics and takes the thread with it.
Panic(w) == thread[w] = "busy" /\ Ends(w)

-----------------------------------------------------------------------------

ClientStep(c) ==
  \/ Take(c) \/ Spawn(c) \/ Send(c) \/ SendFails(c) \/ Receive(c) \/ TimesOut(c)
  \/ Recycle(c) \/ Leave(c) \/ Return(c)

\* What a worker thread does by itself; a task may go on for ever.
WorkerStep(w) ==
  \/ Start(w) \/ CheckShutdown(w) \/ StopRequested(w) \/ ReceiveTask(w)
  \/ ReceiveTimesOut(w) \/ Disconnected(w)

TaskStep(w) == Panic(w) \/ StartFails(w) \/ \E answer \in {"ok", "err"} : Finish(w, answer)

Next ==
  \/ Destroy \/ Drain \/ DropPool
  \/ \E c \in Client : Execute(c) \/ ClientStep(c)
  \/ \E w \in Worker : WorkerStep(w) \/ TaskStep(w)

Spec == Init /\ [][Next]_vars

\* Threads are scheduled, timeouts pass, and destroy, once called, goes on.
\* Nothing makes a task end.
Fairness ==
  /\ WF_vars(Drain) /\ WF_vars(DropPool)
  /\ \A c \in Client : WF_vars(ClientStep(c))
  /\ \A w \in Worker : WF_vars(WorkerStep(w))

FairSpec == Spec /\ Fairness
-----------------------------------------------------------------------------
(* Properties *)

ActiveCalls == {c \in Client : pc[c] \in {"take", "send", "wait", "recycle", "leave"}}
OpenCalls == {c \in Client : pc[c] # "out"}

\* What each variable ranges over; the counter of active calls is any integer.
StateType ==
  /\ destroyed \in BOOLEAN /\ drained \in BOOLEAN
  /\ workers \in Seq(Worker)
  /\ created \in 0..MaxWorker /\ active \in Int /\ completed \in Nat /\ failed \in Nat
  /\ thread \in [Worker -> {"none", "starting", "loop", "recv", "busy", "dead"}]
  /\ shutdown \in [Worker -> BOOLEAN]
  /\ queue \in [Worker -> Seq(Call)]
  /\ task \in [Worker -> Call \cup {0}]
  /\ reply \in [Call -> {"none", "ok", "err", "closed"}]
  /\ pc \in [Client -> {"out", "take", "send", "wait", "recycle", "leave", "count"}]
  /\ held \in [Client -> Worker \cup {0}]
  /\ call \in [Client -> Call \cup {0}]
  /\ result \in [Client -> {"none", "ok", "err"}]
  /\ calls \in 0..MaxCalls

\* Every variable keeps its type, and the unsigned counter of active calls never
\* goes below zero.
TypeOK == StateType /\ active \in Nat

\* A worker is in the stack once, or held by one call, or nobody's: two calls
\* never share a worker, whatever timeouts, failed threads and destroy do.
Exclusive ==
  /\ \A m, n \in DOMAIN workers : workers[m] = workers[n] => m = n
  /\ \A c \in Client : held[c] # 0 => ~InStack(held[c])
  /\ \A c, d \in Client : held[c] # 0 /\ held[c] = held[d] => c = d

\* The stack never holds more than max_isolates workers, or those of the start.
StackBounded == Len(workers) <= MaxIsolates \/ Len(workers) <= Initial

\* The counters of stats() agree with the calls: every call is active, completed,
\* failed, or between the two updates.
MetricsAgree ==
  /\ active = Cardinality(ActiveCalls)
  /\ calls = completed + failed + Cardinality(OpenCalls)

\* Every call of execute returns, although its task may never end, its worker may
\* be busy with another call's task or dead, and the pool may be destroyed.
EveryCallReturns == \A c \in Client : pc[c] = "take" ~> pc[c] = "out"

\* After destroy every worker thread that does not run a task ends, those that
\* calls put back into the destroyed pool included.
DestroyedThreadsEnd ==
  \A w \in Worker :
    destroyed /\ thread[w] \in {"starting", "loop", "recv"}
      ~> thread[w] \in {"dead", "busy"}
=============================================================================
