----------------------------- MODULE EventLoop -----------------------------
(***************************************************************************)
(* The JavaScript side of timers and the event loop of execute_code:       *)
(* src/src/nodejs_core/timers.rs (the registries TIMER_METADATA and        *)
(* TIMER_CALLBACKS shared by all threads, the ids each thread owns, its    *)
(* setImmediate queue), the nextTick queue of process.rs and the loop of   *)
(* MinimalRuntime::execute_code_unlocked in src/src/runtime_minimal.rs.    *)
(* Every thread runs one runtime. A script or a callback is any sequence   *)
(* of calls of the timer API.                                              *)
(*                                                                         *)
(* The timer manager appears as its callers see it: a bounded queue of     *)
(* commands, the armed timers, the ids on their way to fired_timers and    *)
(* fired_timers itself. Time is left out, so an armed timer may fire at    *)
(* any moment; TimerManager models deadlines and the worker in detail.     *)
(***************************************************************************)
EXTENDS Integers, Sequences, FiniteSets, Functions

CONSTANTS
  Thread,       \* the threads, each with its own runtime
  MaxTimer,     \* bound on the timers created: ids are 1..MaxTimer
  Delay,        \* the delays scripts ask for
  Capacity,     \* places in the manager's command channel
  Forever,      \* u64::MAX, the drain limit that never runs out
  DrainLimit,   \* timer_drain_limit_ms
  MaxCalls,     \* bound on the API calls of all scripts together
  MaxFires,     \* bound on the firings of repeating timers
  MaxRuns,      \* bound on the execute_code calls of a runtime
  Ops           \* the API calls the scripts of this instance make

ASSUME LoopAssumption ==
  /\ MaxTimer \in Nat /\ Delay \subseteq Nat /\ Capacity \in Nat \ {0}
  /\ Forever \in Nat /\ DrainLimit \in 0..Forever
  /\ \A d \in Delay : d < Forever
  /\ MaxCalls \in Nat /\ MaxFires \in Nat /\ MaxRuns \in Nat \ {0}

TimerId == 1..MaxTimer

VARIABLES
  meta,      \* TIMER_METADATA
  cb,        \* the ids with an entry in TIMER_CALLBACKS
  owned,     \* OWNED_TIMER_IDS of each thread
  nextId,    \* NEXT_TIMER_ID
  imm,       \* IMMEDIATE_CALLBACKS of each thread, a queue in the order of the ids
  ticks,     \* length of each thread's NEXT_TICK_QUEUE
  micro,     \* length of each isolate's microtask queue
  cmds,      \* the manager's command channel
  armed,     \* what the manager has scheduled for each id
  popped,    \* the ids fire_due_timers has popped and not yet published
  fired,     \* fired_timers
  pc,        \* where each thread is in execute_code
  run,       \* the JavaScript each thread is running
  batch,     \* the ids a thread has polled or drained and not yet treated
  remaining, \* remaining_timer_drain_ms of each thread
  calls, fires, runs,  \* what the bounds count
  home,      \* history: the thread and kind of call that created each timer
  cleared,   \* history: the ids given to clearTimeout and its kin
  ran        \* history: the one-shot timers whose callback was started

registry == <<meta, cb, owned>>
queues == <<imm, ticks, micro>>
manager == <<cmds, armed, popped, fired, fires>>
control == <<pc, run, batch, remaining, runs>>
history == <<home, cleared, ran>>
vars == <<registry, nextId, queues, manager, control, calls, history>>

NoMeta == [type |-> "none", delay |-> 0, unref |-> FALSE]

NoHome == [type |-> "none"]

Idle == [js |-> "none", id |-> 0]

\* The stations of the loop where queued callbacks are run until none is left,
\* each with its successor; the names say what is run and in which phase.
TickStation == {"tick0", "tick1", "tick2", "tick3", "tick4", "tickF"}
MicroStation == {"micro1", "micro2", "micro3", "micro4", "microLate", "microF"}
TimerStation == {"timers", "late"}
CheckStation == {"immediates", "immediatesF"}

After ==
  [tick0 |-> "top", tick1 |-> "micro1", micro1 |-> "work",
   tick2 |-> "micro2", micro2 |-> "poll", timers |-> "tick3",
   tick3 |-> "micro3", micro3 |-> "check", immediates |-> "tick4",
   tick4 |-> "micro4", micro4 |-> "exit", late |-> "microLate", microLate |-> "top",
   tickF |-> "microF", microF |-> "checkF", immediatesF |-> "exitF"]

Pc == DOMAIN After \cup {"script", "top", "work", "workQueued", "wait", "poll", "check", "exit",
                         "exitNone", "exitFired", "checkF", "exitF", "done", "dropping", "dropped"}

Init ==
  /\ meta = [i \in TimerId |-> NoMeta]
  /\ cb = {}
  /\ owned = [t \in Thread |-> {}]
  /\ nextId = 1
  /\ imm = [t \in Thread |-> {}]
  /\ ticks = [t \in Thread |-> 0]
  /\ micro = [t \in Thread |-> 0]
  /\ cmds = <<>>
  /\ armed = [i \in TimerId |-> "no"]
  /\ popped = <<>>
  /\ fired = <<>>
  /\ fires = 0
  /\ pc = [t \in Thread |-> "script"]
  /\ run = [t \in Thread |-> [js |-> "script", id |-> 0]]
  /\ batch = [t \in Thread |-> <<>>]
  /\ remaining = [t \in Thread |-> DrainLimit]
  /\ runs = [t \in Thread |-> 1]
  /\ calls = 0
  /\ home = [i \in TimerId |-> NoHome]
  /\ cleared = {}
  /\ ran = {}

-----------------------------------------------------------------------------
(* The manager, seen through try_send and its worker *)

TrySend(op, i) ==
  cmds' = IF Len(cmds) < Capacity THEN Append(cmds, [op |-> op, id |-> i]) ELSE cmds

\* has_scheduled_timers
HasScheduled == \E i \in TimerId : armed[i] # "no"

HandleCommand ==
  /\ cmds # <<>>
  /\ popped = <<>>
  /\ armed' = [armed EXCEPT ![Head(cmds).id] =
                 IF Head(cmds).op = "cancel" THEN "no" ELSE Head(cmds).op]
  /\ cmds' = Tail(cmds)
  /\ UNCHANGED <<registry, nextId, queues, popped, fired, fires, control, calls, history>>

\* A timer is due: a one-shot one is gone, a repeating one is armed again.
PopDue(i) ==
  /\ armed[i] # "no"
  /\ i \notin Range(popped)
  /\ armed[i] = "repeat" => fires < MaxFires
  /\ fires' = IF armed[i] = "repeat" THEN fires + 1 ELSE fires
  /\ armed' = [armed EXCEPT ![i] = IF @ = "repeat" THEN "repeat" ELSE "no"]
  /\ popped' = Append(popped, i)
  /\ UNCHANGED <<registry, nextId, queues, cmds, fired, control, calls, history>>

Publish ==
  /\ popped # <<>>
  /\ fired' = fired \o popped
  /\ popped' = <<>>
  /\ UNCHANGED <<registry, nextId, queues, cmds, armed, fires, control, calls, history>>

-----------------------------------------------------------------------------
(* The calls of scripts and callbacks *)

Calls(t, op) ==
  /\ op \in Ops
  /\ run[t].js # "none"
  /\ calls < MaxCalls
  /\ calls' = calls + 1
  /\ UNCHANGED control

Born(t, type) == [home EXCEPT ![nextId] = [thread |-> t, type |-> type]]

\* setTimeout and setInterval: id, ownership, metadata and callback first, then
\* the manager; when its channel is full, cleanup_scheduled_timer_state takes
\* them back and the call throws.
Create(t, type, d, op) ==
  LET i == nextId
  IN /\ nextId \in TimerId
     /\ nextId' = nextId + 1
     /\ TrySend(op, i)
     /\ IF Len(cmds) < Capacity
        THEN /\ home' = Born(t, type)
             /\ meta' = [meta EXCEPT ![i] = [type |-> type, delay |-> d, unref |-> FALSE]]
             /\ cb' = cb \cup {i}
             /\ owned' = [owned EXCEPT ![t] = @ \cup {i}]
        ELSE UNCHANGED <<registry, home>>
     /\ UNCHANGED <<queues, armed, popped, fired, fires, cleared, ran>>

SetTimeout(t, d) == d > 0 /\ Calls(t, "timeout") /\ Create(t, "timeout", d, "once")

\* setInterval(f, 0) becomes an interval of one millisecond.
SetInterval(t, d) ==
  Calls(t, "interval") /\ Create(t, "interval", IF d = 0 THEN 1 ELSE d, "repeat")

\* setTimeout(f, 0) goes to fired_timers at once (mark_timer_fired).
SetTimeoutZero(t) ==
  LET i == nextId
  IN /\ Calls(t, "timeout0")
     /\ nextId \in TimerId
     /\ nextId' = nextId + 1
     /\ home' = Born(t, "timeout")
     /\ meta' = [meta EXCEPT ![i] = [type |-> "timeout", delay |-> 0, unref |-> FALSE]]
     /\ cb' = cb \cup {i}
     /\ owned' = [owned EXCEPT ![t] = @ \cup {i}]
     /\ fired' = Append(fired, i)
     /\ UNCHANGED <<queues, cmds, armed, popped, fires, cleared, ran>>

SetImmediate(t) ==
  LET i == nextId
  IN /\ Calls(t, "immediate")
     /\ nextId \in TimerId
     /\ nextId' = nextId + 1
     /\ home' = Born(t, "immediate")
     /\ meta' = [meta EXCEPT ![i] = [type |-> "immediate", delay |-> 0, unref |-> FALSE]]
     /\ owned' = [owned EXCEPT ![t] = @ \cup {i}]
     /\ imm' = [imm EXCEPT ![t] = @ \cup {[id |-> i, deferred |-> FALSE]}]
     /\ UNCHANGED <<cb, ticks, micro, manager, cleared, ran>>

\* The timers a script has a handle of: those its own thread created.
Handles(t) == {i \in TimerId : home[i] # NoHome /\ home[i].thread = t}

\* Mutant of ClearTimer: the stored callback is kept.
ClearTimerKeepsCallback(t, i) ==
  /\ Calls(t, "clear")
  /\ i \in Handles(t)
  /\ owned' = [owned EXCEPT ![t] = @ \ {i}]
  /\ meta' = [meta EXCEPT ![i] = NoMeta]
  /\ TrySend("cancel", i)
  /\ imm' = [imm EXCEPT ![t] = {e \in @ : e.id # i}]
  /\ cleared' = cleared \cup {i}
  /\ UNCHANGED <<cb, nextId, ticks, micro, armed, popped, fired, fires, home, ran>>

\* clearTimeout, clearInterval and clearImmediate; the result of cancel is ignored.
ClearTimer(t, i) ==
  /\ Calls(t, "clear")
  /\ i \in Handles(t)
  /\ owned' = [owned EXCEPT ![t] = @ \ {i}]
  /\ meta' = [meta EXCEPT ![i] = NoMeta]
  /\ TrySend("cancel", i)
  /\ cb' = cb \ {i}
  /\ imm' = [imm EXCEPT ![t] = {e \in @ : e.id # i}]
  /\ cleared' = cleared \cup {i}
  /\ UNCHANGED <<nextId, ticks, micro, armed, popped, fired, fires, home, ran>>

\* timer.unref(), timer.ref(), unref(id) and ref(id)
SetUnref(t, i, unref) ==
  /\ Calls(t, "unref")
  /\ i \in Handles(t)
  /\ meta' = [meta EXCEPT ![i] = IF @ = NoMeta THEN @ ELSE [@ EXCEPT !.unref = unref]]
  /\ UNCHANGED <<cb, owned, nextId, queues, manager, history>>

\* timer.refresh(): whatever the timer's type, a one-shot timer is scheduled.
Refresh(t, i) ==
  /\ Calls(t, "refresh")
  /\ i \in Handles(t)
  /\ IF meta[i] = NoMeta THEN UNCHANGED cmds ELSE TrySend("once", i)
  /\ UNCHANGED <<registry, nextId, queues, armed, popped, fired, fires, history>>

\* timer.delay(d): the new delay is stored and, unless it is zero or the timer is
\* an immediate, a one-shot timer is scheduled, known or not.
SetDelay(t, i, d) ==
  /\ Calls(t, "delay")
  /\ i \in Handles(t)
  /\ meta' = [meta EXCEPT ![i] = IF @ = NoMeta THEN @ ELSE [@ EXCEPT !.delay = d]]
  /\ IF home[i].type # "immediate" /\ d > 0 THEN TrySend("once", i) ELSE UNCHANGED cmds
  /\ UNCHANGED <<cb, owned, nextId, queues, armed, popped, fired, fires, history>>

NextTick(t) ==
  /\ Calls(t, "tick")
  /\ ticks' = [ticks EXCEPT ![t] = @ + 1]
  /\ UNCHANGED <<registry, nextId, imm, micro, manager, history>>

QueueMicrotask(t) ==
  /\ Calls(t, "micro")
  /\ micro' = [micro EXCEPT ![t] = @ + 1]
  /\ UNCHANGED <<registry, nextId, imm, ticks, manager, history>>

-----------------------------------------------------------------------------
(* Running JavaScript *)

Start(t, js, i) == run' = [run EXCEPT ![t] = [js |-> js, id |-> i]]

Stop(t) == run' = [run EXCEPT ![t] = Idle]

Goto(t, to) == pc' = [pc EXCEPT ![t] = to]

\* remove_timer_metadata
Forget(t, i) ==
  /\ meta' = [meta EXCEPT ![i] = NoMeta]
  /\ owned' = [owned EXCEPT ![t] = @ \ {i}]

\* The script ends and the loop starts its drain limit, or execute_code returns
\* the script's error at once.
ScriptEnds(t) ==
  /\ run[t].js = "script"
  /\ Stop(t)
  /\ \/ Goto(t, "tick0") /\ remaining' = [remaining EXCEPT ![t] = DrainLimit]
     \/ Goto(t, "done") /\ UNCHANGED remaining
  /\ UNCHANGED <<registry, nextId, queues, manager, batch, runs, calls, history>>

\* A nextTick callback or a microtask returns.
QueuedEnds(t) ==
  /\ run[t].js \in {"tick", "micro"}
  /\ Stop(t)
  /\ UNCHANGED <<registry, nextId, queues, manager, pc, batch, remaining, runs, calls, history>>

\* The end of execute_timer_callback: an interval keeps its metadata.
TimerEnds(t) ==
  /\ run[t].js = "timer"
  /\ Stop(t)
  /\ IF meta[run[t].id].type \in {"none", "interval"}
     THEN UNCHANGED <<meta, owned>>
     ELSE Forget(t, run[t].id)
  /\ UNCHANGED <<cb, nextId, queues, manager, pc, batch, remaining, runs, calls, history>>

ImmediateEnds(t) ==
  /\ run[t].js = "immediate"
  /\ Stop(t)
  /\ Forget(t, run[t].id)
  /\ UNCHANGED <<cb, nextId, queues, manager, pc, batch, remaining, runs, calls, history>>

-----------------------------------------------------------------------------
(* The loop of execute_code *)

At(t, station) == pc[t] \in station /\ run[t].js = "none"


\* has_pending_drainable_timers
Drainable(t) ==
  \E i \in owned[t] : /\ meta[i].type \in {"timeout", "interval"}
                      /\ ~meta[i].unref
                      /\ meta[i].delay <= remaining[t]

\* has_pending_zero_delay_timers, asked only when the manager has timers
ZeroDelay(t) ==
  HasScheduled /\ \E i \in owned[t] : /\ meta[i].type \in {"timeout", "interval"}
                                      /\ meta[i].delay = 0

Queued(t) == ticks[t] > 0 \/ imm[t] # {}

\* The timers that both tests of the loop look at
HasTimers(t) == ZeroDelay(t) \/ Drainable(t)

\* Time passes: a finite drain limit runs out.
Elapse(t) ==
  /\ DrainLimit # Forever
  /\ remaining[t] > 0
  /\ remaining' = [remaining EXCEPT ![t] = @ - 1]
  /\ UNCHANGED <<registry, nextId, queues, manager, pc, run, batch, runs, calls, history>>

\* execute_next_tick_callbacks and perform_microtask_checkpoint run what is
\* queued, what the callbacks queue included.
RunTick(t) ==
  /\ At(t, TickStation)
  /\ ticks[t] > 0
  /\ ticks' = [ticks EXCEPT ![t] = @ - 1]
  /\ Start(t, "tick", 0)
  /\ UNCHANGED <<registry, nextId, imm, micro, manager, pc, batch, remaining, runs, calls, history>>

RunMicro(t) ==
  /\ At(t, MicroStation)
  /\ micro[t] > 0
  /\ micro' = [micro EXCEPT ![t] = @ - 1]
  /\ Start(t, "micro", 0)
  /\ UNCHANGED <<registry, nextId, imm, ticks, manager, pc, batch, remaining, runs, calls, history>>

\* A station with nothing left to run is left.
Advance(t) ==
  /\ \/ At(t, TickStation) /\ ticks[t] = 0
     \/ At(t, MicroStation) /\ micro[t] = 0
     \/ At(t, TimerStation) /\ batch[t] = <<>>
  /\ Goto(t, After[pc[t]])
  /\ UNCHANGED <<registry, nextId, queues, manager, run, batch, remaining, runs, calls, history>>

Deferred(queue, flag) == {[id |-> e.id, deferred |-> flag] : e \in queue}

\* Mutant of Top: deferred immediates stay deferred.
TopKeepsDeferred(t) ==
  /\ At(t, {"top"})
  /\ Goto(t, "tick1")
  /\ UNCHANGED <<registry, nextId, queues, manager, run, batch, remaining, runs, calls, history>>

Top(t) ==
  /\ At(t, {"top"})
  /\ imm' = [imm EXCEPT ![t] = Deferred(@, FALSE)]
  /\ Goto(t, "tick1")
  /\ UNCHANGED <<registry, nextId, ticks, micro, manager, run, batch, remaining, runs, calls, history>>

\* has_initial_pending_work, which decides whether to wait for the timers or to
\* leave the loop: the timers are looked at first, fired_timers and the queues after
\* them.
Work(t) ==
  /\ At(t, {"work"})
  /\ Goto(t, IF HasTimers(t) THEN "wait" ELSE "workQueued")
  /\ UNCHANGED <<registry, nextId, queues, manager, run, batch, remaining, runs, calls, history>>

WorkQueued(t) ==
  /\ At(t, {"workQueued"})
  /\ Goto(t, IF fired # <<>> \/ Queued(t) THEN "wait" ELSE "tickF")
  /\ UNCHANGED <<registry, nextId, queues, manager, run, batch, remaining, runs, calls, history>>

\* The inner loop waits as long as only drainable timers are pending, and leaves
\* when there is something to run or only timers that must not keep it.
LeaveWait(t) ==
  /\ At(t, {"wait"})
  /\ fired # <<>> \/ ZeroDelay(t) \/ Queued(t) \/ (~Drainable(t) /\ HasScheduled)
  /\ Goto(t, "tick2")
  /\ UNCHANGED <<registry, nextId, queues, manager, run, batch, remaining, runs, calls, history>>

\* MAX_WAIT_ITERATIONS waits without progress end the inner loop too.
WaitValve(t) ==
  /\ At(t, {"wait"})
  /\ Goto(t, "tick2")
  /\ UNCHANGED <<registry, nextId, queues, manager, run, batch, remaining, runs, calls, history>>

\* poll_fired_timers at the start of execute_fired_timers
Poll(t) ==
  /\ At(t, {"poll"})
  /\ batch' = [batch EXCEPT ![t] = fired]
  /\ fired' = <<>>
  /\ Goto(t, "timers")
  /\ UNCHANGED <<registry, nextId, queues, cmds, armed, popped, fires, run, remaining, runs, calls, history>>

Next1(t) == batch' = [batch EXCEPT ![t] = Tail(@)]

\* execute_fired_timers: the id of a timer without metadata is dropped with its callback.
DropInactive(t) ==
  /\ At(t, {"timers"}) /\ batch[t] # <<>>
  /\ meta[Head(batch[t])] = NoMeta
  /\ cb' = cb \ {Head(batch[t])}
  /\ Next1(t)
  /\ UNCHANGED <<meta, owned, nextId, queues, manager, pc, run, remaining, runs, calls, history>>

\* Mutant of HandBack: another thread's timer is dropped.
HandBackForgets(t) ==
  /\ At(t, {"timers"}) /\ batch[t] # <<>>
  /\ meta[Head(batch[t])] # NoMeta
  /\ Head(batch[t]) \notin owned[t]
  /\ Next1(t)
  /\ UNCHANGED <<registry, nextId, queues, manager, pc, run, remaining, runs, calls, history>>

\* Another thread's timer goes back to fired_timers.
HandBack(t) ==
  /\ At(t, {"timers"}) /\ batch[t] # <<>>
  /\ meta[Head(batch[t])] # NoMeta
  /\ Head(batch[t]) \notin owned[t]
  /\ fired' = Append(fired, Head(batch[t]))
  /\ Next1(t)
  /\ UNCHANGED <<registry, nextId, queues, cmds, armed, popped, fires, pc, run, remaining, runs, calls, history>>

\* A timer whose callback is gone is skipped, its metadata kept.
SkipTaken(t) ==
  /\ At(t, TimerStation) /\ batch[t] # <<>>
  /\ Head(batch[t]) \notin cb
  /\ pc[t] = "timers" => meta[Head(batch[t])] # NoMeta /\ Head(batch[t]) \in owned[t]
  /\ Next1(t)
  /\ UNCHANGED <<registry, nextId, queues, manager, pc, run, remaining, runs, calls, history>>

\* Mutant of ExecuteTimer: the callback of a one-shot timer stays stored.
ExecuteTimerKeepsCallback(t) ==
  LET i == Head(batch[t])
  IN /\ At(t, TimerStation) /\ batch[t] # <<>>
     /\ i \in cb
     /\ pc[t] = "timers" => meta[i] # NoMeta /\ i \in owned[t]
     /\ ran' = IF meta[i].type = "interval" THEN ran ELSE ran \cup {i}
     /\ Start(t, "timer", i)
     /\ Next1(t)
     /\ UNCHANGED <<registry, nextId, queues, manager, pc, remaining, runs, calls, home, cleared>>

\* execute_timer_callback up to the call: the callback of an interval is cloned,
\* any other is taken out. After the last test of the loop it is called for every
\* polled id, without the tests of execute_fired_timers.
ExecuteTimer(t) ==
  LET i == Head(batch[t])
  IN /\ At(t, TimerStation) /\ batch[t] # <<>>
     /\ i \in cb
     /\ pc[t] = "timers" => meta[i] # NoMeta /\ i \in owned[t]
     /\ cb' = IF meta[i].type = "interval" THEN cb ELSE cb \ {i}
     /\ ran' = IF meta[i].type = "interval" THEN ran ELSE ran \cup {i}
     /\ Start(t, "timer", i)
     /\ Next1(t)
     /\ UNCHANGED <<meta, owned, nextId, queues, manager, pc, remaining, runs, calls, home, cleared>>

\* The sequences that hold each member of a set once, and the ascending one.
Orders(S) == Bijection(1..Cardinality(S), S)

Ascending(S) == {s \in Orders(S) : \A m, n \in DOMAIN s : m < n => s[m] < s[n]}

\* execute_immediate_callbacks: drain_non_deferred; the final cleanup first makes
\* deferred callbacks eligible.
DrainImmediates(t) ==
  LET queue == IF pc[t] = "checkF" THEN Deferred(imm[t], FALSE) ELSE imm[t]
      ready == {e \in queue : ~e.deferred}
  IN /\ At(t, {"check", "checkF"})
     /\ \E order \in Ascending({e.id : e \in ready}) : batch' = [batch EXCEPT ![t] = order]
     /\ imm' = [imm EXCEPT ![t] = {e \in queue : e.deferred}]
     /\ Goto(t, IF pc[t] = "check" THEN "immediates" ELSE "immediatesF")
     /\ UNCHANGED <<registry, nextId, ticks, micro, manager, run, remaining, runs, calls, history>>

RunImmediate(t) ==
  /\ At(t, CheckStation) /\ batch[t] # <<>>
  /\ Start(t, "immediate", Head(batch[t]))
  /\ Next1(t)
  /\ UNCHANGED <<registry, nextId, queues, manager, pc, remaining, runs, calls, history>>

\* mark_immediate_callbacks_deferred after the last callback of the check phase
EndCheck(t) ==
  /\ At(t, CheckStation) /\ batch[t] = <<>>
  /\ imm' = [imm EXCEPT ![t] = Deferred(@, TRUE)]
  /\ Goto(t, After[pc[t]])
  /\ UNCHANGED <<registry, nextId, ticks, micro, manager, run, batch, remaining, runs, calls, history>>

\* The test at the end of an iteration reads has_fired_timers first: what is
\* published after that it does not see.
ExitLook(t) ==
  /\ At(t, {"exit"})
  /\ Goto(t, IF fired = <<>> THEN "exitNone" ELSE "exitFired")
  /\ UNCHANGED <<registry, nextId, queues, manager, run, batch, remaining, runs, calls, history>>

\* Mutant of Exit: pending timers are not asked for.
ExitIgnoresTimers(t) ==
  /\ At(t, {"exitNone", "exitFired"})
  /\ IF pc[t] = "exitNone"
     THEN Goto(t, IF Queued(t) THEN "top" ELSE "tickF") /\ UNCHANGED <<batch, fired>>
     ELSE Goto(t, "late") /\ batch' = [batch EXCEPT ![t] = fired] /\ fired' = <<>>
  /\ UNCHANGED <<registry, nextId, queues, cmds, armed, popped, fires, run, remaining, runs, calls, history>>

\* The rest of the test; if it saw fired timers, they are polled and executed
\* before the next iteration.
Exit(t) ==
  /\ At(t, {"exitNone", "exitFired"})
  /\ IF pc[t] = "exitNone"
     THEN /\ Goto(t, IF HasTimers(t) \/ Queued(t) THEN "top" ELSE "tickF")
          /\ UNCHANGED <<batch, fired>>
     ELSE Goto(t, "late") /\ batch' = [batch EXCEPT ![t] = fired] /\ fired' = <<>>
  /\ UNCHANGED <<registry, nextId, queues, cmds, armed, popped, fires, run, remaining, runs, calls, history>>

\* The final cleanup repeats until no tick and no immediate is pending.
ExitFinal(t) ==
  /\ At(t, {"exitF"})
  /\ Goto(t, IF Queued(t) THEN "tickF" ELSE "done")
  /\ UNCHANGED <<registry, nextId, queues, manager, run, batch, remaining, runs, calls, history>>

\* The next execute_code of the same runtime drops leftover immediates.
ExecuteAgain(t) ==
  /\ pc[t] = "done"
  /\ runs[t] < MaxRuns
  /\ runs' = [runs EXCEPT ![t] = @ + 1]
  /\ imm' = [imm EXCEPT ![t] = {}]
  /\ Goto(t, "script")
  /\ Start(t, "script", 0)
  /\ UNCHANGED <<registry, nextId, ticks, micro, manager, batch, remaining, calls, history>>

\* Drop of the runtime, cleanup_all_timers: all callbacks and the thread's
\* immediates first; then its own timers are cancelled, in the order of a hash
\* set, and at last their metadata goes. (The ids are taken before the cancels,
\* which no other thread can see.)
Cleanup(t) ==
  /\ "drop" \in Ops
  /\ pc[t] = "done"
  /\ cb' = {}
  /\ imm' = [imm EXCEPT ![t] = {}]
  /\ \E order \in Orders(owned[t]) : batch' = [batch EXCEPT ![t] = order]
  /\ Goto(t, "dropping")
  /\ UNCHANGED <<meta, owned, nextId, ticks, micro, manager, run, remaining, runs, calls, history>>

CancelOwned(t) ==
  /\ pc[t] = "dropping" /\ batch[t] # <<>>
  /\ TrySend("cancel", Head(batch[t]))
  /\ Next1(t)
  /\ UNCHANGED <<registry, nextId, queues, armed, popped, fired, fires, pc, run, remaining, runs,
                 calls, history>>

ForgetOwned(t) ==
  /\ pc[t] = "dropping" /\ batch[t] = <<>>
  /\ meta' = [i \in TimerId |-> IF i \in owned[t] THEN NoMeta ELSE meta[i]]
  /\ owned' = [owned EXCEPT ![t] = {}]
  /\ Goto(t, "dropped")
  /\ UNCHANGED <<cb, nextId, queues, manager, run, batch, remaining, runs, calls, history>>

-----------------------------------------------------------------------------

Script(t) ==
  \/ \E d \in Delay : SetTimeout(t, d) \/ SetInterval(t, d)
  \/ SetTimeoutZero(t) \/ SetImmediate(t) \/ NextTick(t) \/ QueueMicrotask(t)
  \/ \E i \in TimerId : ClearTimer(t, i) \/ Refresh(t, i)
  \/ \E i \in TimerId, unref \in BOOLEAN : SetUnref(t, i, unref)
  \/ \E i \in TimerId, d \in Delay : SetDelay(t, i, d)

Loop(t) ==
  \/ ScriptEnds(t) \/ QueuedEnds(t) \/ TimerEnds(t) \/ ImmediateEnds(t)
  \/ RunTick(t) \/ RunMicro(t) \/ Advance(t) \/ Top(t) \/ Work(t) \/ WorkQueued(t) \/ LeaveWait(t)
  \/ Poll(t) \/ DropInactive(t) \/ HandBack(t) \/ SkipTaken(t) \/ ExecuteTimer(t)
  \/ DrainImmediates(t) \/ RunImmediate(t) \/ EndCheck(t) \/ ExitLook(t) \/ Exit(t)
  \/ ExitFinal(t)

Lifetime(t) == ExecuteAgain(t) \/ Cleanup(t) \/ CancelOwned(t) \/ ForgetOwned(t)

Manager == HandleCommand \/ Publish \/ \E i \in TimerId : PopDue(i)

Next ==
  \/ Manager
  \/ \E t \in Thread : Script(t) \/ Loop(t) \/ WaitValve(t) \/ Elapse(t) \/ Lifetime(t)

Spec == Init /\ [][Next]_vars

\* The operating system runs every thread and the manager's worker, every armed
\* timer comes due, time passes, and MAX_WAIT_ITERATIONS ends a wait that nothing
\* else does. Scripts call nothing they need not.
Fairness ==
  /\ WF_vars(HandleCommand) /\ WF_vars(Publish)
  /\ \A i \in TimerId : WF_vars(PopDue(i))
  /\ \A t \in Thread : WF_vars(Loop(t)) /\ WF_vars(Elapse(t)) /\ WF_vars(WaitValve(t))

FairSpec == Spec /\ Fairness
-----------------------------------------------------------------------------
(* Properties *)

Homes == [thread : Thread, type : {"timeout", "interval", "immediate"}]

\* Every variable keeps its type and the command channel its capacity.
TypeOK ==
  /\ meta \in [TimerId -> [type : {"none", "timeout", "interval", "immediate"},
                           delay : Nat, unref : BOOLEAN]]
  /\ cb \subseteq TimerId /\ owned \in [Thread -> SUBSET TimerId]
  /\ nextId \in 1..(MaxTimer + 1)
  /\ imm \in [Thread -> SUBSET [id : TimerId, deferred : BOOLEAN]]
  /\ ticks \in [Thread -> Nat] /\ micro \in [Thread -> Nat]
  /\ cmds \in Seq([op : {"once", "repeat", "cancel"}, id : TimerId]) /\ Len(cmds) <= Capacity
  /\ armed \in [TimerId -> {"no", "once", "repeat"}]
  /\ popped \in Seq(TimerId) /\ fired \in Seq(TimerId)
  /\ pc \in [Thread -> Pc]
  /\ run \in [Thread -> [js : {"none", "script", "tick", "micro", "timer", "immediate"},
                         id : TimerId \cup {0}]]
  /\ batch \in [Thread -> Seq(TimerId)]
  /\ remaining \in [Thread -> 0..Forever] /\ runs \in [Thread -> Nat]
  /\ calls \in Nat /\ fires \in Nat
  /\ home \in [TimerId -> Homes \cup {NoHome}] /\ cleared \subseteq TimerId /\ ran \subseteq TimerId

\* t starts the callback of timer i in this step.
StartsTimer(t, i) == run[t].js = "none" /\ run'[t].js = "timer" /\ run'[t].id = i

\* "Fired-but-cleared IDs cannot run": once clearTimeout or clearInterval has
\* returned, the timer's callback is not started, whether its id is still in the
\* channel, armed, published or already polled into a thread's batch.
ClearedNeverRuns ==
  [][\A t \in Thread, i \in cleared : ~StartsTimer(t, i)]_vars

\* The callback of a setTimeout is started at most once, although its id can be
\* published several times (refresh, hand-backs, a cancel lost to a full channel).
OneShotRunsOnce ==
  [][\A t \in Thread, i \in ran : home[i].type = "timeout" => ~StartsTimer(t, i)]_vars

\* The places an id can be on its way from the registry to its callback.
Tracked(i) ==
  \/ armed[i] # "no" \/ i \in Range(popped) \/ i \in Range(fired)
  \/ \E n \in DOMAIN cmds : cmds[n] = [op |-> "once", id |-> i] \/ cmds[n] = [op |-> "repeat", id |-> i]
  \/ \E t \in Thread : i \in Range(batch[t])

\* A registered timer with a stored callback is never lost between the command
\* channel, the manager, fired_timers and the batches of the threads, even when
\* threads poll and hand back each other's timers.
RegisteredIsTracked ==
  \A t \in Thread : \A i \in owned[t] \cap cb : meta[i] # NoMeta => Tracked(i)

\* execute_code returns from the loop only when no ref'd timer of its thread that
\* its drain limit covers has a callback to run and its queues are empty.
ReturnsWhenDrained ==
  \A t \in Thread : pc[t] \in {"tickF", "microF", "checkF", "immediatesF", "exitF"} =>
    /\ ticks[t] = 0 /\ micro[t] = 0 /\ imm[t] = {}
    /\ DrainLimit = Forever =>
         \A i \in cb : home[i].thread = t => meta[i].unref

\* Every ref'd timeout eventually runs, or is cleared, unref'd, or its script fails.
TimeoutRuns ==
  \A t \in Thread, i \in TimerId :
    (pc[t] = "top" /\ i \in owned[t] /\ meta[i].type = "timeout" /\ ~meta[i].unref)
       ~> (i \in ran \cup cleared \/ meta[i].unref)

\* A queued immediate eventually runs or is cleared.
ImmediateRuns ==
  \A t \in Thread, i \in TimerId :
    (pc[t] = "top" /\ \E e \in imm[t] : e.id = i)
       ~> (run[t] = [js |-> "immediate", id |-> i] \/ i \in cleared)

=============================================================================
