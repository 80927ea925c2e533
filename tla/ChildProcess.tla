---------------------------- MODULE ChildProcess ----------------------------
(***************************************************************************)
(* Child processes: the jobs of exec, execFile and spawn, which run on     *)
(* host threads and come back through ASYNC_COMPLETED                      *)
(* (src/src/nodejs_core/child_process.rs), fork with its TCP channel, its  *)
(* reader and waiter threads and the forked child's own side               *)
(* (src/src/nodejs_core/child_process_fork.rs), and the part of the event  *)
(* loop (src/src/runtime_minimal.rs) that pumps both and decides whether   *)
(* they keep it running.                                                   *)
(*                                                                         *)
(* The queues and counters are process-wide, the callbacks and listeners   *)
(* belong to the thread of a runtime. A forked child is another process    *)
(* that runs the same code; one loop is modelled for it, with nothing but  *)
(* its channel to keep it. The listeners of a fork object are registered   *)
(* by the code that called fork. A handler of a fork event is called while *)
(* FORK_LISTENERS is borrowed and child.on() there panics, so a handler    *)
(* leaves forking to the code that runs after the pump.                    *)
(***************************************************************************)
EXTENDS Naturals, Sequences, FiniteSets

CONSTANTS
  Runtime,    \* the threads of the parent process that run an event loop
  MaxJobs,    \* bound on the jobs started
  MaxForks,   \* bound on the children forked
  MaxSends,   \* bound on the sends, and on the disconnects, of each fork object
  MaxFrames   \* bound on the messages each child sends

ASSUME ChildAssumption ==
  /\ Runtime # {}
  /\ MaxJobs \in Nat /\ MaxForks \in Nat /\ MaxSends \in Nat /\ MaxFrames \in Nat

Job == 1..MaxJobs
Fork == 1..MaxForks

VARIABLES
  nextJob,     \* ASYNC_JOB_SEQ
  inFlight,    \* ASYNC_IN_FLIGHT
  completed,   \* ASYNC_COMPLETED
  thread,      \* where the host thread of each job is
  callbacks,   \* ASYNC_CALLBACKS of each runtime
  ran,         \* history: the jobs whose callback has run
  nextFork,    \* FORK_SEQ
  alive,       \* FORK_ALIVE
  events,      \* FORK_EVENTS
  connected,   \* the forks FORK_CONNECTED says are connected
  writers,     \* the keys of FORK_WRITERS
  owner,       \* the runtime whose FORK_LISTENERS has the listeners of a fork
  waiter,      \* where run_parent_ipc of each fork is
  reader,      \* the forks whose reader thread is reading
  shut,        \* the forks whose socket the parent has shut down
  toParent,    \* frames on their way to the parent
  toChild,     \* frames on their way to the child
  child,       \* where the process of each fork is
  linked,      \* FORK_CHILD_CONNECTED of each child
  incoming,    \* FORK_CHILD_INCOMING of each child
  heard,       \* the children with a 'message' listener
  sent,        \* history: messages sent by each side, and disconnects, of each fork
  got,         \* history: the messages and exits each fork object has emitted
  at,          \* where each runtime is
  resume,      \* where it goes when its JavaScript returns
  batch,       \* what its pump has yet to deliver
  left,        \* the runtimes that have left the loop of execute_code
  lateJobs,    \* history: the jobs started after that
  lateForks    \* history: the children forked after that

jobVars == <<nextJob, inFlight, completed, thread, callbacks, ran>>
channelVars == <<reader, shut, toParent, toChild>>
childVars == <<child, linked, incoming, heard>>
parentVars == <<nextFork, alive, events, connected, writers, owner, waiter>>
leaveVars == <<left, lateJobs, lateForks>>
loopVars == <<at, resume, batch, leaveVars>>
vars == <<jobVars, channelVars, childVars, parentVars, loopVars, sent, got>>

Event(f, kind, n) == [fork |-> f, kind |-> kind, n |-> n]
JobDone(j) == [job |-> j]

Init ==
  /\ nextJob = 1 /\ inFlight = 0 /\ completed = <<>>
  /\ thread = [j \in Job |-> "none"]
  /\ callbacks = [r \in Runtime |-> {}]
  /\ ran = {}
  /\ nextFork = 1 /\ alive = 0 /\ events = <<>>
  /\ connected = {} /\ writers = {}
  /\ owner = [f \in Fork |-> CHOOSE r \in Runtime : TRUE]
  /\ waiter = [f \in Fork |-> "none"]
  /\ reader = {} /\ shut = {}
  /\ toParent = [f \in Fork |-> <<>>] /\ toChild = [f \in Fork |-> <<>>]
  /\ child = [f \in Fork |-> "none"]
  /\ linked = {} /\ heard = {}
  /\ incoming = [f \in Fork |-> <<>>]
  /\ sent = [f \in Fork |-> [parent |-> 0, child |-> 0, cuts |-> 0]]
  /\ got = [f \in Fork |-> <<>>]
  /\ at = [r \in Runtime |-> "js"]
  /\ resume = [r \in Runtime |-> "jobs"]
  /\ batch = [r \in Runtime |-> <<>>]
  /\ left = {} /\ lateJobs = {} /\ lateForks = {}

Goes(r, place) == at' = [at EXCEPT ![r] = place]

-----------------------------------------------------------------------------
(* exec, execFile and spawn *)

\* enqueue_async_job
StartJob(r) ==
  /\ at[r] = "js" /\ nextJob <= MaxJobs
  /\ nextJob' = nextJob + 1
  /\ callbacks' = [callbacks EXCEPT ![r] = @ \cup {nextJob}]
  /\ inFlight' = inFlight + 1
  /\ thread' = [thread EXCEPT ![nextJob] = "work"]
  /\ lateJobs' = IF r \in left THEN lateJobs \cup {nextJob} ELSE lateJobs
  /\ UNCHANGED <<completed, ran, channelVars, childVars, parentVars, at, resume, batch, left,
                 lateForks, sent, got>>

\* The process has exited, or could not be started: the output is queued.
PushJob(j) ==
  /\ thread[j] = "work"
  /\ completed' = Append(completed, JobDone(j))
  /\ thread' = [thread EXCEPT ![j] = "pushed"]
  /\ UNCHANGED <<nextJob, inFlight, callbacks, ran, channelVars, childVars, parentVars,
                 loopVars, sent, got>>

CountDown(j) ==
  /\ thread[j] = "pushed"
  /\ inFlight' = inFlight - 1
  /\ thread' = [thread EXCEPT ![j] = "done"]
  /\ UNCHANGED <<nextJob, completed, callbacks, ran, channelVars, childVars, parentVars,
                 loopVars, sent, got>>

-----------------------------------------------------------------------------
(* fork in the parent *)

\* cp_fork_callback until it waits for the child to connect
StartFork(r) ==
  /\ at[r] = "js" /\ resume[r] # "tasks" /\ nextFork <= MaxForks
  /\ nextFork' = nextFork + 1
  /\ alive' = alive + 1
  /\ connected' = connected \cup {nextFork}
  /\ owner' = [owner EXCEPT ![nextFork] = r]
  /\ waiter' = [waiter EXCEPT ![nextFork] = "accept"]
  /\ child' = [child EXCEPT ![nextFork] = "starting"]
  /\ lateForks' = IF r \in left THEN lateForks \cup {nextFork} ELSE lateForks
  /\ Goes(r, "fork")
  /\ UNCHANGED <<jobVars, channelVars, events, writers, linked, incoming, heard, sent, got,
                 resume, batch, left, lateJobs>>

\* accept_child_ipc: the child has connected, fork starts the threads and
\* returns the object.
Accept(r, f) ==
  /\ at[r] = "fork" /\ owner[f] = r /\ waiter[f] = "accept" /\ f \in linked
  /\ writers' = writers \cup {f}
  /\ waiter' = [waiter EXCEPT ![f] = "wait"]
  /\ reader' = reader \cup {f}
  /\ Goes(r, "js")
  /\ UNCHANGED <<jobVars, shut, toParent, toChild, childVars, nextFork, alive, events,
                 connected, owner, sent, got, resume, batch, leaveVars>>

\* No connection yet: fork looks at its deadline and at the child.
NotYet(r, f) ==
  /\ at[r] = "fork" /\ owner[f] = r /\ waiter[f] = "accept" /\ f \notin linked
  /\ Goes(r, "try")
  /\ UNCHANGED <<jobVars, channelVars, childVars, parentVars, resume, batch, leaveVars, sent, got>>

\* The child runs: fork sleeps 5 ms and accepts again.
Retry(r, f) ==
  /\ at[r] = "try" /\ owner[f] = r /\ waiter[f] = "accept" /\ child[f] # "exited"
  /\ Goes(r, "fork")
  /\ UNCHANGED <<jobVars, channelVars, childVars, parentVars, resume, batch, leaveVars, sent, got>>

\* push_exit up to the counter: what it does to the maps and the queue
PushExit(f) ==
  /\ connected' = connected \ {f}
  /\ writers' = writers \ {f}
  /\ events' = Append(events, Event(f, "exit", 0))

\* The child has exited: fork reports the exit itself. A child that connected
\* after the accept and has exited by now is not heard.
AcceptExited(r, f) ==
  /\ at[r] = "try" /\ owner[f] = r /\ waiter[f] = "accept" /\ child[f] = "exited"
  /\ PushExit(f)
  /\ alive' = alive - 1
  /\ waiter' = [waiter EXCEPT ![f] = "unheard"]
  /\ Goes(r, "js")
  /\ UNCHANGED <<jobVars, channelVars, childVars, nextFork, owner, sent, got, resume, batch,
                 leaveVars>>

\* Mutant of AcceptTimeout: the deadline is not looked at.
AcceptTimeoutNever(r, f) == at[r] = "gone" /\ f \in Fork /\ UNCHANGED vars

\* The child is killed and fork throws.
Throws(r, f) ==
  /\ owner[f] = r /\ waiter[f] = "accept"
  /\ alive' = alive - 1
  /\ waiter' = [waiter EXCEPT ![f] = "thrown"]
  /\ child' = [child EXCEPT ![f] = "exited"]
  /\ heard' = heard \ {f}
  /\ Goes(r, "js")
  /\ UNCHANGED <<jobVars, channelVars, linked, incoming, nextFork, events, connected, writers,
                 owner, sent, got, resume, batch, leaveVars>>

\* 15 s are over.
AcceptTimeout(r, f) == at[r] = "try" /\ Throws(r, f)

\* Another error of accept, of try_wait or of try_clone for the writer
AcceptFails(r, f) == at[r] \in {"fork", "try"} /\ Throws(r, f)

\* A fork object user code can hold
Holds(r, f) ==
  at[r] = "js" /\ owner[f] = r /\ waiter[f] \in {"wait", "pushed", "done", "unheard"}

\* child.send: false unless connected and the writer is there.
Send(r, f) ==
  /\ Holds(r, f) /\ sent[f].parent < MaxSends
  /\ f \in connected /\ f \in writers
  /\ toChild' = [toChild EXCEPT ![f] =
                   IF child[f] = "exited" THEN @ ELSE Append(@, sent[f].parent + 1)]
  /\ sent' = [sent EXCEPT ![f].parent = @ + 1]
  /\ UNCHANGED <<jobVars, reader, shut, toParent, childVars, parentVars, loopVars, got>>

\* child.disconnect: shuts the socket down if the writer is there, and queues a
\* 'disconnect' in any case.
Disconnect(r, f) ==
  /\ Holds(r, f) /\ sent[f].cuts < MaxSends
  /\ sent' = [sent EXCEPT ![f].cuts = @ + 1]
  /\ connected' = connected \ {f}
  /\ writers' = writers \ {f}
  /\ shut' = shut \cup ({f} \cap writers)
  /\ events' = Append(events, Event(f, "disconnect", 0))
  /\ UNCHANGED <<jobVars, reader, toParent, toChild, childVars, nextFork, alive, owner, waiter,
                 loopVars, got>>

\* The reader thread queues what it reads.
ReadFrame(f) ==
  /\ f \in reader /\ toParent[f] # <<>>
  /\ events' = Append(events, Event(f, "message", Head(toParent[f])))
  /\ toParent' = [toParent EXCEPT ![f] = Tail(@)]
  /\ UNCHANGED <<jobVars, reader, shut, toChild, childVars, nextFork, alive, connected, writers,
                 owner, waiter, loopVars, sent, got>>

\* Mutant of ReadEnd: a connection the child reset does not end the reader.
ReadEndIgnoresReset(f) ==
  /\ f \in reader /\ toParent[f] = <<>> /\ f \in shut
  /\ events' = Append(events, Event(f, "disconnect", 0))
  /\ reader' = reader \ {f}
  /\ UNCHANGED <<jobVars, shut, toParent, toChild, childVars, nextFork, alive, connected, writers,
                 owner, waiter, loopVars, sent, got>>

\* The reader thread finds the end of the stream.
ReadEnd(f) ==
  /\ f \in reader /\ toParent[f] = <<>> /\ (f \in shut \/ child[f] = "exited")
  /\ events' = Append(events, Event(f, "disconnect", 0))
  /\ reader' = reader \ {f}
  /\ UNCHANGED <<jobVars, shut, toParent, toChild, childVars, nextFork, alive, connected, writers,
                 owner, waiter, loopVars, sent, got>>

\* Mutant of Join: the exit is reported without waiting for the reader.
JoinAtOnce(f) ==
  /\ waiter[f] = "wait" /\ child[f] = "exited"
  /\ PushExit(f)
  /\ waiter' = [waiter EXCEPT ![f] = "pushed"]
  /\ UNCHANGED <<jobVars, channelVars, childVars, nextFork, alive, owner, loopVars, sent, got>>

\* run_parent_ipc: the child has exited and the reader thread has ended, which
\* both stay so; the exit is reported.
Join(f) ==
  /\ waiter[f] = "wait" /\ child[f] = "exited" /\ f \notin reader
  /\ PushExit(f)
  /\ waiter' = [waiter EXCEPT ![f] = "pushed"]
  /\ UNCHANGED <<jobVars, channelVars, childVars, nextFork, alive, owner, loopVars, sent, got>>

NotAlive(f) ==
  /\ waiter[f] = "pushed"
  /\ alive' = alive - 1
  /\ waiter' = [waiter EXCEPT ![f] = "done"]
  /\ UNCHANGED <<jobVars, channelVars, childVars, nextFork, events, connected, writers, owner,
                 loopVars, sent, got>>

-----------------------------------------------------------------------------
(* The event loop of a runtime *)

\* User code returns to the loop.
Return(r) ==
  /\ at[r] = "js"
  /\ Goes(r, IF batch[r] = <<>> THEN resume[r] ELSE "dispatch")
  /\ UNCHANGED <<jobVars, channelVars, childVars, parentVars, resume, batch, leaveVars, sent, got>>

\* pump_pending_child_process_jobs takes the jobs, delivers them and then does
\* the same for the events of forks.
Takes(r, items, next) ==
  /\ batch' = [batch EXCEPT ![r] = items]
  /\ resume' = [resume EXCEPT ![r] = next]
  /\ Goes(r, IF items = <<>> THEN next ELSE "dispatch")
  /\ UNCHANGED leaveVars

TakeJobs(r) ==
  /\ at[r] = "jobs"
  /\ Takes(r, completed, "forks")
  /\ completed' = <<>>
  /\ UNCHANGED <<nextJob, inFlight, thread, callbacks, ran, channelVars, childVars, parentVars,
                 sent, got>>

TakeEvents(r) ==
  /\ at[r] = "forks"
  /\ Takes(r, events, "tasks")
  /\ events' = <<>>
  /\ UNCHANGED <<jobVars, channelVars, childVars, nextFork, alive, connected, writers, owner,
                 waiter, sent, got>>

\* The next item of the batch; without a callback or a listener of this thread
\* it is dropped.
Delivered(r, mine) ==
  /\ batch' = [batch EXCEPT ![r] = Tail(@)]
  /\ Goes(r, IF mine THEN "js" ELSE IF Len(batch[r]) = 1 THEN resume[r] ELSE "dispatch")
  /\ UNCHANGED <<resume, leaveVars>>

DeliverJob(r) ==
  /\ at[r] = "dispatch" /\ resume[r] = "forks"
  /\ LET j == Head(batch[r]).job
     IN /\ Delivered(r, j \in callbacks[r])
        /\ ran' = IF j \in callbacks[r] THEN ran \cup {j} ELSE ran
        /\ callbacks' = [callbacks EXCEPT ![r] = @ \ {j}]
  /\ UNCHANGED <<nextJob, inFlight, completed, thread, channelVars, childVars, parentVars,
                 sent, got>>

DeliverEvent(r) ==
  /\ at[r] = "dispatch" /\ resume[r] = "tasks"
  /\ LET e == Head(batch[r])
         mine == owner[e.fork] = r
     IN /\ Delivered(r, mine)
        /\ got' = IF mine /\ e.kind # "disconnect"
                   THEN [got EXCEPT ![e.fork] = Append(@, e)] ELSE got
        /\ connected' = IF e.kind = "message" THEN connected ELSE connected \ {e.fork}
        /\ writers' = IF e.kind = "exit" THEN writers \ {e.fork} ELSE writers
  /\ UNCHANGED <<jobVars, channelVars, childVars, nextFork, alive, events, owner, waiter, sent>>

\* User code runs, with next to follow.
Runs(r, next) == Goes(r, "js") /\ resume' = [resume EXCEPT ![r] = next]

\* Between a pump and the next test: the handlers of the other pumps, and ticks,
\* microtasks, timers and immediates as far as they run there. What does not run
\* before the test runs after it.
Tasks(r) ==
  /\ at[r] = "tasks"
  /\ Runs(r, IF r \in left THEN "returned" ELSE "inFlight")
  /\ UNCHANGED <<jobVars, channelVars, childVars, parentVars, batch, leaveVars, sent, got>>

\* has_pending_child_process_work reads the jobs in flight, the live children,
\* the events and the finished jobs, one after another. With something pending
\* user code runs before the next pump.
Sees(r, pending, next) ==
  /\ IF pending THEN Runs(r, "jobs") ELSE Goes(r, next) /\ UNCHANGED resume
  /\ UNCHANGED <<jobVars, channelVars, childVars, parentVars, batch, leaveVars, sent, got>>

\* Mutant of CheckEvents: queued events do not keep the loop running.
CheckEventsSkipped(r) == at[r] = "events" /\ Sees(r, FALSE, "completed")

CheckInFlight(r) == at[r] = "inFlight" /\ Sees(r, inFlight > 0, "alive")
CheckAlive(r) == at[r] = "alive" /\ Sees(r, alive > 0, "events")
CheckEvents(r) == at[r] = "events" /\ Sees(r, events # <<>>, "completed")
CheckCompleted(r) == at[r] = "completed" /\ Sees(r, completed # <<>>, "leave")

\* Other work keeps the loop running.
Turn(r) == at[r] = "inFlight" /\ Sees(r, TRUE, "alive")

\* The loop is left. User code still runs: the final cleanup, with the microtasks
\* of handlers called since the last checkpoint, and the keep-alive loop of
\* `amber run` do not look at child processes any more.
Leave(r) ==
  /\ at[r] = "leave"
  /\ left' = left \cup {r}
  /\ Runs(r, "returned")
  /\ UNCHANGED <<jobVars, channelVars, childVars, parentVars, batch, lateJobs, lateForks,
                 sent, got>>

\* A script whose result is a promise waits up to 5 s for it and pumps.
Settle(r) ==
  /\ at[r] = "returned"
  /\ Goes(r, "jobs")
  /\ UNCHANGED <<jobVars, channelVars, childVars, parentVars, resume, batch, leaveVars, sent, got>>

-----------------------------------------------------------------------------
(* The forked process *)

\* install_fork_child_if_needed, before the script of the child
Connect(f) ==
  /\ child[f] = "starting"
  /\ linked' = linked \cup {f}
  /\ child' = [child EXCEPT ![f] = "js"]
  /\ UNCHANGED <<jobVars, channelVars, incoming, heard, parentVars, loopVars, sent, got>>

\* process.on('message')
Listen(f) ==
  /\ child[f] = "js" /\ f \notin heard
  /\ heard' = heard \cup {f}
  /\ UNCHANGED <<jobVars, channelVars, child, linked, incoming, parentVars, loopVars, sent, got>>

\* process.send: a frame is written while the child has not seen the end.
ChildSend(f) ==
  /\ child[f] = "js" /\ f \in linked /\ sent[f].child < MaxFrames
  /\ toParent' = [toParent EXCEPT ![f] = Append(@, sent[f].child + 1)]
  /\ sent' = [sent EXCEPT ![f].child = @ + 1]
  /\ UNCHANGED <<jobVars, reader, shut, toChild, childVars, parentVars, loopVars, got>>

\* The child's reader thread
ChildReads(f) ==
  /\ f \in linked /\ child[f] # "exited" /\ toChild[f] # <<>>
  /\ incoming' = [incoming EXCEPT ![f] = Append(@, Head(toChild[f]))]
  /\ toChild' = [toChild EXCEPT ![f] = Tail(@)]
  /\ UNCHANGED <<jobVars, reader, shut, toParent, child, linked, heard, parentVars, loopVars,
                 sent, got>>

\* Mutant of ChildReadsEnd: the child stays connected.
ChildReadsEndStays(f) ==
  /\ f \in linked /\ child[f] # "exited" /\ toChild[f] = <<>> /\ f \in shut
  /\ UNCHANGED vars

ChildReadsEnd(f) ==
  /\ f \in linked /\ child[f] # "exited" /\ toChild[f] = <<>> /\ f \in shut
  /\ linked' = linked \ {f}
  /\ UNCHANGED <<jobVars, channelVars, child, incoming, heard, parentVars, loopVars, sent, got>>

ChildReturns(f) ==
  /\ child[f] = "js"
  /\ child' = [child EXCEPT ![f] = "loop"]
  /\ UNCHANGED <<jobVars, channelVars, linked, incoming, heard, parentVars, loopVars, sent, got>>

\* pump_child_incoming finds frames and a listener; without one frames wait.
Hears(f) == f \in heard /\ incoming[f] # <<>>

\* The whole batch is handled by user code.
ChildHears(f) ==
  /\ child[f] \in {"loop", "wait"} /\ Hears(f)
  /\ incoming' = [incoming EXCEPT ![f] = <<>>]
  /\ child' = [child EXCEPT ![f] = "js"]
  /\ UNCHANGED <<jobVars, channelVars, linked, heard, parentVars, loopVars, sent, got>>

\* Connected, or with frames nobody hears, the child enters the wait loop.
ChildWaits(f) ==
  /\ child[f] = "loop" /\ ~Hears(f) /\ (f \in linked \/ incoming[f] # <<>>)
  /\ child' = [child EXCEPT ![f] = "wait"]
  /\ UNCHANGED <<jobVars, channelVars, linked, incoming, heard, parentVars, loopVars, sent, got>>

\* Nothing to hear for MAX_WAIT_ITERATIONS waits. The wait loop does not end
\* because the child is no longer connected.
ChildValve(f) ==
  /\ child[f] = "wait"
  /\ child' = [child EXCEPT ![f] = "loop"]
  /\ UNCHANGED <<jobVars, channelVars, linked, incoming, heard, parentVars, loopVars, sent, got>>

Exits(f) ==
  /\ child' = [child EXCEPT ![f] = "exited"]
  /\ toChild' = [toChild EXCEPT ![f] = <<>>]
  /\ incoming' = [incoming EXCEPT ![f] = <<>>]
  /\ heard' = heard \ {f}
  /\ UNCHANGED <<jobVars, reader, shut, toParent, linked, parentVars, loopVars, sent, got>>

\* The loop of the child ends when a test finds it unconnected and nothing waits.
ChildEnds(f) ==
  /\ child[f] = "loop" /\ f \notin linked /\ incoming[f] = <<>>
  /\ Exits(f)

\* process.exit, a crash or a signal, at any moment
ChildDies(f) == child[f] \in {"starting", "js", "loop", "wait"} /\ Exits(f)

-----------------------------------------------------------------------------

\* What the code of the parent and of the children decides to do
User ==
  \/ \E r \in Runtime : StartJob(r) \/ StartFork(r)
  \/ \E r \in Runtime, f \in Fork : Send(r, f) \/ Disconnect(r, f)
  \/ \E f \in Fork : Listen(f) \/ ChildSend(f) \/ ChildDies(f)

Loop(r) ==
  \/ Return(r) \/ TakeJobs(r) \/ TakeEvents(r) \/ DeliverJob(r) \/ DeliverEvent(r)
  \/ Tasks(r) \/ CheckInFlight(r) \/ CheckAlive(r) \/ CheckEvents(r) \/ CheckCompleted(r)
  \/ Leave(r)
  \/ \E f \in Fork : Accept(r, f) \/ NotYet(r, f) \/ Retry(r, f)
  \/ \E f \in Fork : AcceptExited(r, f) \/ AcceptTimeout(r, f)

Reader(f) == ReadFrame(f) \/ ReadEnd(f)
Waiter(f) == Join(f) \/ NotAlive(f)
ChildReader(f) == ChildReads(f) \/ ChildReadsEnd(f)
ChildLoop(f) ==
  ChildReturns(f) \/ ChildHears(f) \/ ChildWaits(f) \/ ChildValve(f) \/ ChildEnds(f)
Host(j) == PushJob(j) \/ CountDown(j)

Next ==
  \/ User
  \/ \E r \in Runtime : Loop(r) \/ Turn(r) \/ Settle(r) \/ \E f \in Fork : AcceptFails(r, f)
  \/ \E f \in Fork : Reader(f) \/ Waiter(f) \/ ChildReader(f) \/ Connect(f) \/ ChildLoop(f)
  \/ \E j \in Job : Host(j)

Spec == Init /\ [][Next]_vars

\* Every thread is scheduled, the JavaScript of the parent and of a connected child
\* returns, and the programs exec and spawn start come to an end. A forked child
\* need neither connect nor end. The deadline of fork passes while it polls, and a
\* wait of the child ends after MAX_WAIT_ITERATIONS.
FairSpec ==
  /\ Spec
  /\ \A r \in Runtime : WF_vars(Loop(r)) /\ \A f \in Fork : SF_vars(AcceptTimeout(r, f))
  /\ \A f \in Fork :
       /\ WF_vars(Reader(f)) /\ WF_vars(Waiter(f))
       /\ WF_vars(ChildReader(f)) /\ WF_vars(ChildLoop(f))
  /\ \A j \in Job : WF_vars(Host(j))

-----------------------------------------------------------------------------
(* Properties *)

Places == {"js", "fork", "try", "jobs", "forks", "dispatch", "tasks", "inFlight", "alive",
           "events", "completed", "leave", "returned"}
Resumes == {"jobs", "forks", "tasks", "inFlight", "returned"}

Working == {j \in Job : thread[j] \in {"work", "pushed"}}
Living == {f \in Fork : waiter[f] \in {"accept", "wait", "pushed"}}

Dones == {JobDone(j) : j \in Job}
Events == {Event(f, "message", n) : f \in Fork, n \in 1..MaxFrames}
          \cup {Event(f, kind, 0) : f \in Fork, kind \in {"disconnect", "exit"}}

\* Every variable keeps its type, and the two counters are exact: one for each
\* job that has not counted down and one for each fork not yet reported.
TypeOK ==
  /\ nextJob \in 1..(MaxJobs + 1) /\ nextFork \in 1..(MaxForks + 1)
  /\ inFlight = Cardinality(Working) /\ alive = Cardinality(Living)
  /\ completed \in Seq(Dones) /\ events \in Seq(Events)
  /\ thread \in [Job -> {"none", "work", "pushed", "done"}]
  /\ waiter \in [Fork -> {"none", "accept", "wait", "pushed", "done", "unheard",
                          "thrown"}]
  /\ child \in [Fork -> {"none", "starting", "js", "loop", "wait", "exited"}]
  /\ callbacks \in [Runtime -> SUBSET Job] /\ ran \subseteq Job
  /\ connected \subseteq Fork /\ writers \subseteq Fork
  /\ reader \subseteq Fork /\ shut \subseteq Fork /\ linked \subseteq Fork /\ heard \subseteq Fork
  /\ owner \in [Fork -> Runtime]
  /\ toParent \in [Fork -> Seq(1..MaxFrames)]
  /\ toChild \in [Fork -> Seq(1..MaxSends)] /\ incoming \in [Fork -> Seq(1..MaxSends)]
  /\ sent \in [Fork -> [parent : 0..MaxSends, child : 0..MaxFrames, cuts : 0..MaxSends]]
  /\ got \in [Fork -> Seq(Events)]
  /\ at \in [Runtime -> Places] /\ resume \in [Runtime -> Resumes]
  /\ batch \in [Runtime -> Seq(Dones) \cup Seq(Events)]
  /\ left \subseteq Runtime /\ lateJobs \subseteq Job /\ lateForks \subseteq Fork

\* The fork object has emitted 'exit'.
Ended(f) == \E n \in DOMAIN got[f] : got[f][n].kind = "exit"

\* The loop is left only when every job has called back and every fork object has
\* emitted its exit: no interleaving of the reads of has_pending_child_process_work
\* with a thread that queues a result and then counts down lets both be missed.
\* Nothing is pumped for jobs and children started by the user code that runs after
\* the loop was left; what was started before is not lost to them.
NoneLeftBehind ==
  \A r \in left :
    /\ callbacks[r] \subseteq lateJobs
    /\ \A f \in Fork \ lateForks :
         owner[f] = r /\ waiter[f] \notin {"none", "thrown"} => Ended(f)

\* 'exit' is "Fired once when the OS process exits", it comes last, and unless the
\* parent cut the channel with disconnect(), or fork found the child gone before
\* it accepted its connection, every message the child sent comes before it, in
\* order.
ExitAfterMessages ==
  \A f \in Fork : Ended(f) =>
    /\ \A n \in DOMAIN got[f] : got[f][n].kind = "exit" <=> n = Len(got[f])
    /\ f \notin shut /\ waiter[f] # "unheard" =>
         got[f] = Append([n \in 1..sent[f].child |-> Event(f, "message", n)], Event(f, "exit", 0))

\* Every exec, execFile and spawn called before the loop was left calls back.
JobCallsBack == \A j \in Job : thread[j] = "work" /\ j \notin lateJobs ~> j \in ran

\* A child that has exited is reported to its fork object, if fork returned one
\* before the loop was left.
ExitReported ==
  \A f \in Fork : child[f] = "exited" /\ f \notin lateForks ~> Ended(f) \/ waiter[f] = "thrown"

\* A child with a 'message' listener and nothing else to do ends when its parent
\* disconnects, so that parent and child do not keep each other running. It ends at
\* the next test if it is between two waits; if it waits, only after all
\* MAX_WAIT_ITERATIONS of 10 ms, more than an hour.
DisconnectEnds == \A f \in Fork : f \in shut /\ f \in heard ~> child[f] = "exited"
=============================================================================
