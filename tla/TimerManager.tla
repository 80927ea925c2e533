---------------------------- MODULE TimerManager ----------------------------
(***************************************************************************)
(* The process-wide AsyncTimerManager (src/src/event_loop.rs): JavaScript  *)
(* threads send commands through a bounded channel to one worker thread,   *)
(* which keeps the scheduled timers (a map and a heap ordered by deadline) *)
(* and publishes the ids of due timers in the shared vector fired_timers.  *)
(* An atomic counter tells the JavaScript side how many timers are         *)
(* scheduled and a condition variable (EventLoopWaker) wakes it.           *)
(*                                                                         *)
(* A step is what one thread does between two points where another can see *)
(* it: the worker's loop is split at every decrement of the counter and at *)
(* the lock of fired_timers, a scheduling call between the moment it takes *)
(* its deadline and sequence number and the moment it sends.               *)
(***************************************************************************)
EXTENDS Integers, Sequences, FiniteSets, Functions

CONSTANTS
  Thread,            \* the threads that call the manager
  TimerId,           \* the timer ids they use (u64; 0 is refused by every call)
  Delay,             \* the delays they ask for, in ticks
  Repeat,            \* the repeat counts they ask for; 0 means "for ever"
  CommandQueueSize,  \* command_queue_size; 0 makes every scheduling call fail
  U32Max,            \* u32::MAX, the value of remaining that never decreases
  MaxTime,           \* bound on the clock
  MaxSequence,       \* bound on the scheduling calls made
  MaxFired,          \* bound on the ids a caller lets pile up in fired_timers
  Ops                \* the operations the threads of this instance call

ASSUME ManagerAssumption ==
  /\ TimerId \subseteq Nat \ {0}
  /\ Delay \subseteq Nat
  /\ Repeat \subseteq 0..U32Max
  /\ CommandQueueSize \in Nat
  /\ U32Max \in Nat \ {0}
  /\ MaxTime \in Nat
  /\ MaxSequence \in Nat
  /\ MaxFired \in Nat

VARIABLES
  now,       \* Instant::now()
  cmds,      \* the command channel
  rxOpen,    \* the worker still owns the receiving end of the channel
  nextSeq,   \* next_timer_sequence
  scheduled, \* scheduled_timers: a set of timers, at most one for each id
  heap,      \* timer_heap: a set of <<deadline, sequence, id>>
  count,     \* scheduled_timer_count
  fired,     \* fired_timers
  locked,    \* a thread holds fired_timers across several steps
  woken,     \* the flag of EventLoopWaker
  wpc,       \* where the worker is in its loop
  fireNow,   \* the parameter "now" of the running fire_due_timers
  batch,     \* the timers popped by the running fire_due_timers
  pc,        \* where each thread is in its call of the manager
  req,       \* the command a thread is about to send
  ack        \* the answer to a thread's command: "none", "pending", "done" or "dropped"

workerVars == <<scheduled, heap, count, wpc, fireNow, batch>>
clientVars == <<pc, req>>
vars == <<now, cmds, rxOpen, nextSeq, scheduled, heap, count, fired, locked,
          woken, wpc, fireNow, batch, pc, req, ack>>

\* A TimerEntry with its key; thread, the caller, is history and read only by properties.
Timer == [id : TimerId, deadline : Nat, delay : Nat, remaining : 1..U32Max,
          sequence : Nat \ {0}, thread : Thread]

NoTimer == [id |-> 0]

Command == [op : {"schedule"}, timer : Timer]
             \cup [op : {"cancel"}, id : TimerId]
             \cup [op : {"cancelAck"}, id : TimerId, thread : Thread]
             \cup [op : {"clear", "shutdown"}]
             \cup [op : {"clearAck", "shutdownAck"}, thread : Thread]

WorkerPc == {"loop", "select", "drain", "fire", "publish", "wake", "stopping", "stopped"}

ThreadPc == {"idle", "send", "cancelWait", "clearFired", "clearLock", "clearWait",
             "markWake", "shutdownWait", "shutdownClose", "waiting", "parked"}

Capacity == IF CommandQueueSize = 0 THEN 1 ELSE CommandQueueSize

Key(t) == <<t.deadline, t.sequence, t.id>>

\* The order of the heap: the lexicographic order of BTreeSet<(Instant, u64, u64)>.
Before(k, l) ==
  \/ k[1] < l[1]
  \/ k[1] = l[1] /\ k[2] < l[2]
  \/ k[1] = l[1] /\ k[2] = l[2] /\ k[3] < l[3]

\* Mutant of IsFirst: the heap is not ordered.
IsFirstUnordered(k) == k \in heap

IsFirst(k) == k \in heap /\ \A l \in heap \ {k} : Before(k, l)

-----------------------------------------------------------------------------

Init ==
  /\ now = 0
  /\ cmds = <<>>
  /\ rxOpen = TRUE
  /\ nextSeq = 1
  /\ scheduled = {}
  /\ heap = {}
  /\ count = 0
  /\ fired = <<>>
  /\ locked = FALSE
  /\ woken = FALSE
  /\ wpc = "loop"
  /\ fireNow = 0
  /\ batch = <<>>
  /\ pc = [c \in Thread |-> "idle"]
  /\ req = [c \in Thread |-> NoTimer]
  /\ ack = [c \in Thread |-> "none"]

Tick == now < MaxTime /\ now' = now + 1
        /\ UNCHANGED <<cmds, rxOpen, nextSeq, workerVars, fired, locked, woken, clientVars, ack>>

-----------------------------------------------------------------------------
(* The calling threads *)

CanSend == rxOpen /\ Len(cmds) < Capacity

\* cmd_tx.try_send: Err when the channel is full or closed.
TrySend(cmd) == cmds' = IF CanSend THEN Append(cmds, cmd) ELSE cmds

\* try_send_schedule_command: a queue size of zero stands for a full queue.
TrySendSchedule(cmd) ==
  cmds' = IF CommandQueueSize # 0 /\ CanSend THEN Append(cmds, cmd) ELSE cmds

Goto(c, to) == pc' = [pc EXCEPT ![c] = to]

\* try_schedule_timeout and try_schedule_interval up to the call of try_send:
\* the deadline is read and the sequence number taken before the send.
Begin(c, i, d, repeats) ==
  /\ pc[c] = "idle"
  /\ nextSeq <= MaxSequence
  /\ now + d <= MaxTime
  /\ req' = [req EXCEPT ![c] = [id |-> i, deadline |-> now + d, delay |-> d,
                                remaining |-> repeats, sequence |-> nextSeq, thread |-> c]]
  /\ nextSeq' = nextSeq + 1
  /\ Goto(c, "send")
  /\ UNCHANGED <<now, cmds, rxOpen, workerVars, fired, locked, woken, ack>>

ScheduleTimeout(c, i, d) == "timeout" \in Ops /\ Begin(c, i, d, 1)

\* The worker turns repeat_count 0 into u32::MAX when it handles the command.
ScheduleInterval(c, i, d, n) ==
  /\ "interval" \in Ops
  /\ d > 0
  /\ Begin(c, i, d, IF n = 0 THEN U32Max ELSE n)

Send(c) ==
  /\ pc[c] = "send"
  /\ TrySendSchedule([op |-> "schedule", timer |-> req[c]])
  /\ req' = [req EXCEPT ![c] = NoTimer]
  /\ Goto(c, "idle")
  /\ UNCHANGED <<now, rxOpen, nextSeq, workerVars, fired, locked, woken, ack>>

\* try_cancel and cancel
Cancel(c, i) ==
  /\ "cancel" \in Ops
  /\ pc[c] = "idle"
  /\ TrySendSchedule([op |-> "cancel", id |-> i])
  /\ UNCHANGED <<now, rxOpen, nextSeq, workerVars, fired, locked, woken, clientVars, ack>>

CancelWithAck(c, i) ==
  /\ "cancelAck" \in Ops
  /\ pc[c] = "idle"
  /\ CommandQueueSize # 0 /\ CanSend
  /\ TrySendSchedule([op |-> "cancelAck", id |-> i, thread |-> c])
  /\ ack' = [ack EXCEPT ![c] = "pending"]
  /\ req' = [req EXCEPT ![c] = [id |-> i]]
  /\ Goto(c, "cancelWait")
  /\ UNCHANGED <<now, rxOpen, nextSeq, workerVars, fired, locked, woken>>

\* The answer has come, or its sender was dropped and the call fails.
CancelAcked(c) ==
  /\ pc[c] = "cancelWait"
  /\ ack[c] \in {"done", "dropped"}
  /\ ack' = [ack EXCEPT ![c] = "none"]
  /\ req' = [req EXCEPT ![c] = NoTimer]
  /\ Goto(c, "idle")
  /\ UNCHANGED <<now, cmds, rxOpen, nextSeq, workerVars, fired, locked, woken>>

\* clear: the result of try_send is ignored, then fired_timers is emptied.
Clear(c) ==
  /\ "clear" \in Ops
  /\ pc[c] = "idle"
  /\ TrySend([op |-> "clear"])
  /\ Goto(c, "clearFired")
  /\ UNCHANGED <<now, rxOpen, nextSeq, workerVars, fired, locked, woken, req, ack>>

ClearFired(c) ==
  /\ pc[c] = "clearFired"
  /\ ~locked
  /\ fired' = <<>>
  /\ woken' = TRUE
  /\ Goto(c, "idle")
  /\ UNCHANGED <<now, cmds, rxOpen, nextSeq, workerVars, locked, req, ack>>

ClearFiredTimers(c) ==
  /\ "clearFired" \in Ops
  /\ pc[c] = "idle"
  /\ ~locked
  /\ fired' = <<>>
  /\ UNCHANGED <<now, cmds, rxOpen, nextSeq, workerVars, locked, woken, clientVars, ack>>

\* clear_with_ack, up to and including blocking_send, which waits for a place
\* in the channel and fails, dropping the answer's sender, when it is closed.
ClearWithAck(c) ==
  /\ "clearAck" \in Ops
  /\ pc[c] = "idle"
  /\ rxOpen => Len(cmds) < Capacity
  /\ TrySend([op |-> "clearAck", thread |-> c])
  /\ ack' = [ack EXCEPT ![c] = IF rxOpen THEN "pending" ELSE "dropped"]
  /\ Goto(c, "clearLock")
  /\ UNCHANGED <<now, rxOpen, nextSeq, workerVars, fired, locked, woken, req>>

\* The write guard of fired_timers taken here lives to the end of the function.
ClearLock(c) ==
  /\ pc[c] = "clearLock"
  /\ ~locked
  /\ locked' = TRUE
  /\ fired' = <<>>
  /\ Goto(c, "clearWait")
  /\ UNCHANGED <<now, cmds, rxOpen, nextSeq, workerVars, woken, req, ack>>

ClearAcked(c) ==
  /\ pc[c] = "clearWait"
  /\ ack[c] \in {"done", "dropped"}
  /\ ack' = [ack EXCEPT ![c] = "none"]
  /\ locked' = FALSE
  /\ woken' = TRUE
  /\ Goto(c, "idle")
  /\ UNCHANGED <<now, cmds, rxOpen, nextSeq, workerVars, fired, req>>

\* mark_timer_fired: pushes the id, releases the lock, then wakes.
MarkTimerFired(c, i) ==
  /\ "mark" \in Ops
  /\ pc[c] = "idle"
  /\ ~locked
  /\ Len(fired) < MaxFired
  /\ fired' = Append(fired, i)
  /\ Goto(c, "markWake")
  /\ UNCHANGED <<now, cmds, rxOpen, nextSeq, workerVars, locked, woken, req, ack>>

MarkWake(c) ==
  /\ pc[c] = "markWake"
  /\ woken' = TRUE
  /\ Goto(c, "idle")
  /\ UNCHANGED <<now, cmds, rxOpen, nextSeq, workerVars, fired, locked, req, ack>>

PollFiredTimers(c) ==
  /\ "poll" \in Ops
  /\ pc[c] = "idle"
  /\ ~locked
  /\ fired' = <<>>
  /\ UNCHANGED <<now, cmds, rxOpen, nextSeq, workerVars, locked, woken, clientVars, ack>>

\* The event loop waits only when has_fired_timers is false, and reads it first.
HasNoFiredTimers(c) ==
  /\ "wait" \in Ops
  /\ pc[c] = "idle"
  /\ ~locked
  /\ fired = <<>>
  /\ Goto(c, "waiting")
  /\ UNCHANGED <<now, cmds, rxOpen, nextSeq, workerVars, fired, locked, woken, req, ack>>

\* wait_timeout consumes the flag, or blocks on the condition variable.
WaitTimeout(c) ==
  /\ pc[c] = "waiting"
  /\ Goto(c, IF woken THEN "idle" ELSE "parked")
  /\ woken' = FALSE
  /\ UNCHANGED <<now, cmds, rxOpen, nextSeq, workerVars, fired, locked, req, ack>>

\* The wait ends by a notification or by its timeout; both clear the flag.
Unpark(c) ==
  /\ pc[c] = "parked"
  /\ Goto(c, "idle")
  /\ woken' = FALSE
  /\ UNCHANGED <<now, cmds, rxOpen, nextSeq, workerVars, fired, locked, req, ack>>

Shutdown(c) ==
  /\ "shutdown" \in Ops
  /\ pc[c] = "idle"
  /\ TrySend([op |-> "shutdown"])
  /\ woken' = TRUE
  /\ UNCHANGED <<now, rxOpen, nextSeq, workerVars, fired, locked, clientVars, ack>>

ShutdownWithAck(c) ==
  /\ "shutdownAck" \in Ops
  /\ pc[c] = "idle"
  /\ CanSend
  /\ TrySend([op |-> "shutdownAck", thread |-> c])
  /\ ack' = [ack EXCEPT ![c] = "pending"]
  /\ Goto(c, "shutdownWait")
  /\ UNCHANGED <<now, rxOpen, nextSeq, workerVars, fired, locked, woken, req>>

\* An answer leads to the wait for the channel to close; a dropped sender is an
\* error that is returned at once, without the wake.
ShutdownAcked(c) ==
  /\ pc[c] = "shutdownWait"
  /\ ack[c] \in {"done", "dropped"}
  /\ ack' = [ack EXCEPT ![c] = "none"]
  /\ Goto(c, IF ack[c] = "done" THEN "shutdownClose" ELSE "idle")
  /\ UNCHANGED <<now, cmds, rxOpen, nextSeq, workerVars, fired, locked, woken, req>>

\* Mutant of ShutdownClosed: returns without waiting for the channel to close.
ShutdownClosedEarly(c) ==
  /\ pc[c] = "shutdownClose"
  /\ woken' = TRUE
  /\ Goto(c, "idle")
  /\ UNCHANGED <<now, cmds, rxOpen, nextSeq, workerVars, fired, locked, req, ack>>

\* The loop "while !is_closed() yield", then the wake.
ShutdownClosed(c) ==
  /\ pc[c] = "shutdownClose"
  /\ ~rxOpen
  /\ woken' = TRUE
  /\ Goto(c, "idle")
  /\ UNCHANGED <<now, cmds, rxOpen, nextSeq, workerVars, fired, locked, req, ack>>

-----------------------------------------------------------------------------
(* The worker thread *)

\* Mutants of Arm: the replaced entry's key stays in the heap; a replacement is
\* counted as a new timer.
ArmKeepsOldKey(t) ==
  LET old == {u \in scheduled : u.id = t.id}
  IN /\ scheduled' = (scheduled \ old) \cup {t}
     /\ heap' = heap \cup {Key(t)}
     /\ count' = IF old = {} THEN count + 1 ELSE count

ArmAlwaysCounts(t) ==
  LET old == {u \in scheduled : u.id = t.id}
  IN /\ scheduled' = (scheduled \ old) \cup {t}
     /\ heap' = (heap \ {Key(u) : u \in old}) \cup {Key(t)}
     /\ count' = count + 1

\* ScheduleTimeout and ScheduleInterval: the new entry replaces the one with its id.
Arm(t) ==
  LET old == {u \in scheduled : u.id = t.id}
  IN /\ scheduled' = (scheduled \ old) \cup {t}
     /\ heap' = (heap \ {Key(u) : u \in old}) \cup {Key(t)}
     /\ count' = IF old = {} THEN count + 1 ELSE count

\* Mutants of Disarm: the counter is decremented for an unknown id; only a
\* repeating timer is removed.
DisarmUncounted(i) ==
  LET old == {u \in scheduled : u.id = i}
  IN /\ scheduled' = scheduled \ old
     /\ heap' = heap \ {Key(u) : u \in old}
     /\ count' = count - 1

DisarmRepeating(i) ==
  LET old == {u \in scheduled : u.id = i /\ u.remaining > 1}
  IN /\ scheduled' = scheduled \ old
     /\ heap' = heap \ {Key(u) : u \in old}
     /\ count' = IF old = {} THEN count ELSE count - 1

Disarm(i) ==
  LET old == {u \in scheduled : u.id = i}
  IN /\ scheduled' = scheduled \ old
     /\ heap' = heap \ {Key(u) : u \in old}
     /\ count' = IF old = {} THEN count ELSE count - 1

DisarmAll ==
  /\ scheduled' = {}
  /\ heap' = {}
  /\ count' = count - Cardinality(scheduled)

Answer(cmd) ==
  ack' = IF cmd.op \in {"cancelAck", "clearAck", "shutdownAck"}
         THEN [ack EXCEPT ![cmd.thread] = "done"] ELSE ack

\* handle_timer_command; its result FALSE, for a shutdown, ends the worker.
HandleCommand(cmd) ==
  /\ \/ cmd.op = "schedule" /\ Arm(cmd.timer)
     \/ cmd.op \in {"cancel", "cancelAck"} /\ Disarm(cmd.id)
     \/ cmd.op \in {"clear", "clearAck", "shutdown", "shutdownAck"} /\ DisarmAll
  /\ woken' = (woken \/ cmd.op \in {"clear", "clearAck", "shutdown", "shutdownAck"})
  /\ Answer(cmd)
  /\ wpc' = IF cmd.op \in {"shutdown", "shutdownAck"} THEN "stopping" ELSE "drain"

\* The top of the loop: fire what is due, or wait in select! (in recv alone
\* when there is no timer).
WorkerLoop ==
  /\ wpc = "loop"
  /\ LET due == \E k \in heap : k[1] <= now
     IN /\ wpc' = IF due THEN "fire" ELSE "select"
        /\ fireNow' = IF due THEN now ELSE fireNow
  /\ UNCHANGED <<now, cmds, rxOpen, nextSeq, scheduled, heap, count, fired, locked, woken,
                 batch, clientVars, ack>>

\* Mutant of SleepElapsed: the worker waits in recv alone although it has timers.
SleepForgotten ==
  /\ wpc = "select" /\ heap = {}
  /\ wpc' = "loop"
  /\ UNCHANGED <<now, cmds, rxOpen, nextSeq, scheduled, heap, count, fired, locked, woken,
                 fireNow, batch, clientVars, ack>>

\* The sleep of select! ends at the first deadline.
SleepElapsed ==
  /\ wpc = "select"
  /\ \E k \in heap : k[1] <= now
  /\ wpc' = "fire"
  /\ fireNow' = now
  /\ UNCHANGED <<now, cmds, rxOpen, nextSeq, scheduled, heap, count, fired, locked, woken,
                 batch, clientVars, ack>>

\* recv in select! and the try_recv loop that follows it.
ReceiveCommand ==
  /\ wpc \in {"select", "drain"}
  /\ cmds # <<>>
  /\ cmds' = Tail(cmds)
  /\ HandleCommand(Head(cmds))
  /\ UNCHANGED <<now, rxOpen, nextSeq, fired, locked, fireNow, batch, clientVars>>

Drained ==
  /\ wpc = "drain"
  /\ cmds = <<>>
  /\ wpc' = "loop"
  /\ UNCHANGED <<now, cmds, rxOpen, nextSeq, scheduled, heap, count, fired, locked, woken,
                 fireNow, batch, clientVars, ack>>

\* One turn of the while loop of fire_due_timers.
PopDue ==
  /\ wpc = "fire"
  /\ \E k \in heap :
       /\ IsFirst(k)
       /\ k[1] <= fireNow
       /\ heap' = heap \ {k}
       /\ IF \E t \in scheduled : t.id = k[3]
          THEN \E t \in scheduled :
                 /\ t.id = k[3]
                 /\ scheduled' = scheduled \ {t}
                 /\ batch' = Append(batch, t)
                 /\ count' = IF t.remaining > 1 THEN count ELSE count - 1
          ELSE UNCHANGED <<scheduled, batch, count>>
  /\ UNCHANGED <<now, cmds, rxOpen, nextSeq, fired, locked, woken, wpc, fireNow, clientVars, ack>>

\* The timers of the batch that fire again.
Repeating == {t \in Range(batch) : t.remaining > 1}

\* Mutant of Rearmed: an interval keeps its old deadline.
RearmedAtOnce(t, at) ==
  [t EXCEPT !.remaining = IF t.remaining = U32Max THEN U32Max ELSE t.remaining - 1]

Rearmed(t, at) ==
  [t EXCEPT !.deadline = at + t.delay,
            !.remaining = IF t.remaining = U32Max THEN U32Max ELSE t.remaining - 1]

\* When the for loop over to_reschedule, now at its end, read the clock for each
\* timer: one after another, since fire_due_timers was called.
Readings ==
  {at \in [Repeating -> fireNow..now] :
     \A m, n \in DOMAIN batch :
       m < n /\ batch[m] \in Repeating /\ batch[n] \in Repeating => at[batch[m]] <= at[batch[n]]}

\* The for loop over to_reschedule; the ids are published if there are any.
Reschedule ==
  /\ wpc = "fire"
  /\ \A k \in heap : k[1] > fireNow
  /\ \E at \in Readings :
       LET again == {Rearmed(t, at[t]) : t \in Repeating}
       IN /\ scheduled' = {u \in scheduled : \A t \in again : t.id # u.id} \cup again
          /\ heap' = heap \cup {Key(t) : t \in again}
  /\ wpc' = IF batch = <<>> THEN "loop" ELSE "publish"
  /\ UNCHANGED <<now, cmds, rxOpen, nextSeq, count, fired, locked, woken, fireNow, batch,
                 clientVars, ack>>

\* fired.extend(fired_ids) under the write lock of fired_timers.
Publish ==
  /\ wpc = "publish"
  /\ ~locked
  /\ fired' = fired \o [n \in DOMAIN batch |-> batch[n].id]
  /\ batch' = <<>>
  /\ wpc' = "wake"
  /\ UNCHANGED <<now, cmds, rxOpen, nextSeq, scheduled, heap, count, locked, woken, fireNow,
                 clientVars, ack>>

\* Mutant of WorkerWake: the publication does not wake the callers.
WorkerWakeForgotten ==
  /\ wpc = "wake"
  /\ wpc' = "loop"
  /\ UNCHANGED <<now, cmds, rxOpen, nextSeq, scheduled, heap, count, fired, locked, fireNow,
                 batch, clientVars, ack, woken>>

WorkerWake ==
  /\ wpc = "wake"
  /\ woken' = TRUE
  /\ wpc' = "loop"
  /\ UNCHANGED <<now, cmds, rxOpen, nextSeq, scheduled, heap, count, fired, locked, fireNow,
                 batch, clientVars, ack>>

\* Mutant of Stop: the answers still owed are never given up.
StopKeepsAnswers ==
  /\ wpc = "stopping"
  /\ wpc' = "stopped"
  /\ rxOpen' = FALSE
  /\ cmds' = <<>>
  /\ UNCHANGED <<now, nextSeq, scheduled, heap, count, fired, locked, woken, fireNow, batch,
                 clientVars, ack>>

\* The worker leaves its loop and drops the receiver with what it still holds:
\* the senders of the answers are dropped with it, which ends the waits.
Stop ==
  /\ wpc = "stopping"
  /\ wpc' = "stopped"
  /\ rxOpen' = FALSE
  /\ cmds' = <<>>
  /\ ack' = [c \in Thread |-> IF ack[c] = "pending" THEN "dropped" ELSE ack[c]]
  /\ UNCHANGED <<now, nextSeq, scheduled, heap, count, fired, locked, woken, fireNow, batch,
                 clientVars>>

-----------------------------------------------------------------------------

Call(c) ==
  \/ \E i \in TimerId, d \in Delay : ScheduleTimeout(c, i, d)
  \/ \E i \in TimerId, d \in Delay, n \in Repeat : ScheduleInterval(c, i, d, n)
  \/ \E i \in TimerId : Cancel(c, i) \/ CancelWithAck(c, i) \/ MarkTimerFired(c, i)
  \/ Clear(c) \/ ClearFiredTimers(c) \/ ClearWithAck(c)
  \/ PollFiredTimers(c) \/ HasNoFiredTimers(c)
  \/ Shutdown(c) \/ ShutdownWithAck(c)

\* The rest of a call, which the thread takes without being asked.
Return(c) ==
  \/ Send(c) \/ CancelAcked(c) \/ ClearFired(c) \/ ClearLock(c) \/ ClearAcked(c)
  \/ MarkWake(c) \/ WaitTimeout(c) \/ Unpark(c) \/ ShutdownAcked(c) \/ ShutdownClosed(c)

Worker ==
  \/ WorkerLoop \/ SleepElapsed \/ ReceiveCommand \/ Drained \/ PopDue \/ Reschedule
  \/ Publish \/ WorkerWake \/ Stop

Next == Tick \/ Worker \/ \E c \in Thread : Call(c) \/ Return(c)

Spec == Init /\ [][Next]_vars

\* The operating system runs every thread that can run, and time passes.
Fairness == WF_vars(Tick) /\ WF_vars(Worker) /\ \A c \in Thread : WF_vars(Return(c))

FairSpec == Spec /\ Fairness
-----------------------------------------------------------------------------
(* Properties *)

\* The timers accepted and not yet published, cancelled, replaced or cleared.
Queued == {cmds[n].timer : n \in {m \in DOMAIN cmds : cmds[m].op = "schedule"}}

Live == Queued \cup scheduled \cup Range(batch)

\* The type of every variable, the counter as any integer.
StateType ==
  /\ now \in Nat
  /\ cmds \in Seq(Command)
  /\ rxOpen \in BOOLEAN
  /\ nextSeq \in Nat \ {0}
  /\ scheduled \in SUBSET Timer
  /\ heap \in SUBSET (Nat \X Nat \X TimerId)
  /\ count \in Int
  /\ fired \in Seq(TimerId)
  /\ locked \in BOOLEAN
  /\ woken \in BOOLEAN
  /\ wpc \in WorkerPc
  /\ fireNow \in Nat
  /\ batch \in Seq(Timer)
  /\ pc \in [Thread -> ThreadPc]
  /\ req \in [Thread -> Timer \cup [id : TimerId \cup {0}]]
  /\ \A c \in Thread : pc[c] = "send" => req[c] \in Timer
  /\ ack \in [Thread -> {"none", "pending", "done", "dropped"}]

\* Every variable keeps its type, and scheduled_timer_count, an unsigned integer
\* that is only added to and subtracted from, never wraps below zero.
TypeOK == StateType /\ count \in Nat

\* The map and the heap of the worker stay two views of the same timers: no
\* replacement, cancellation, firing or re-arming leaves a stale heap key, a
\* timer without a key or two timers for one id.
HeapMatchesMap ==
  /\ heap = {Key(t) : t \in scheduled}
  /\ \A t, u \in scheduled : t.id = u.id => t = u

\* scheduled_timer_count, which the event loop reads to decide whether to wait,
\* counts the scheduled timers, and the repeating ones while they are out of
\* the map between fire_due_timers' pop and its re-insertion.
CountExact ==
  count = Cardinality(scheduled) + IF wpc = "fire" THEN Cardinality(Repeating) ELSE 0

\* A timer is popped only after every timer its thread requested earlier for the
\* same or an earlier deadline (the order the sequence number is kept for), even
\* when other threads' commands, replacements and re-armings come in between.
FiresInOrder ==
  [][\A r \in Range(batch') \ Range(batch) : \A u \in Live \ Range(batch) :
       u.thread = r.thread /\ u.sequence < r.sequence => u.deadline > r.deadline]_vars

\* Once cancel_with_ack is answered, nothing the calling thread scheduled under
\* that id can fire any more.
CancelAckFinal ==
  \A c \in Thread : pc[c] = "cancelWait" /\ ack[c] = "done"
     => \A t \in Live : ~(t.thread = c /\ t.id = req[c].id)

\* A thread blocked on the condition variable while ids wait in fired_timers has
\* a wake on its way (one caller: the flag is shared and consumed).
NoLostWakeup ==
  \A c \in Thread : pc[c] = "parked" /\ fired # <<>> => woken \/ wpc = "wake"

\* When shutdown_with_ack returns, the channel is closed, nothing is scheduled
\* and the counter the event loop waits on is zero for ever.
ShutdownFinal ==
  [][\A c \in Thread : pc[c] = "shutdownClose" /\ pc'[c] = "idle"
       => /\ ~rxOpen' /\ cmds' = <<>> /\ count' = 0 /\ Live' = {}]_vars

\* Every accepted one-shot timer is eventually fired, cancelled, replaced or
\* cleared, unless the callers keep the try_recv loop of the worker supplied for
\* ever: it handles commands as long as it finds one and looks at no deadline.
EveryTimeoutResolved ==
  \A s \in 1..MaxSequence :
    \/ <>[](wpc = "drain")
    \/ (\E t \in Live : t.sequence = s /\ t.remaining = 1) ~> (\A t \in Live : t.sequence # s)

\* Every call of the manager returns, whatever the worker was doing: an answer
\* arrives or its sender is dropped.
EveryCallReturns == \A c \in Thread : []<>(pc[c] = "idle")
=============================================================================
