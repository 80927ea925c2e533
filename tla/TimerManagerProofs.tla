------------------------- MODULE TimerManagerProofs -------------------------
(***************************************************************************)
(* What holds in every instance of TimerManager, for any number of         *)
(* threads, ids, delays and commands: the worker's data structures are     *)
(* consistent, cancels and shutdowns are final, timers fire in order, and  *)
(* the manager implements TimerService.                                    *)
(***************************************************************************)
EXTENDS TimerManagerRefinement, FiniteSetTheorems, SequenceTheorems, TLAPS

\* Why fire_due_timers may re-insert what it popped without looking: the batch
\* exists only while timers are fired, holds each id once and, until the
\* re-insertion, no id that is still scheduled.
BatchApart ==
  /\ wpc \notin {"fire", "publish"} => batch = <<>>
  /\ \A m, n \in DOMAIN batch : batch[m].id = batch[n].id => m = n
  /\ wpc = "fire" => \A n \in DOMAIN batch : \A t \in scheduled : t.id # batch[n].id

\* The inductive invariant of the worker.
WorkerInv ==
  /\ HeapMatchesMap
  /\ BatchApart
  /\ IsFiniteSet(scheduled)
  /\ CountExact

\* The worker's state changes only in the worker's own steps.
LEMMA CallersLeaveWorkerAlone ==
  ASSUME NEW c \in Thread, Call(c) \/ Return(c)
  PROVE  UNCHANGED workerVars
  BY DEF Call, Return, ScheduleTimeout, ScheduleInterval, Begin, Send, Cancel, CancelWithAck,
         CancelAcked, Clear, ClearFired, ClearFiredTimers, ClearWithAck, ClearLock, ClearAcked,
         MarkTimerFired, MarkWake, PollFiredTimers, HasNoFiredTimers, WaitTimeout, Unpark,
         Shutdown, ShutdownWithAck, ShutdownAcked, ShutdownClosed, workerVars

\* The commands in the channel carry what handle_timer_command reads from them.
LEMMA CommandFields ==
  ASSUME NEW cmd \in Command
  PROVE  /\ cmd.op = "schedule" => cmd.timer \in Timer
         /\ cmd.op \in {"cancel", "cancelAck"} => cmd.id \in TimerId
         /\ cmd.op \in {"cancelAck", "clearAck", "shutdownAck"} => cmd.thread \in Thread
  BY DEF Command

\* The empty sequence has every type of sequence.
LEMMA EmptySequence == \A S : <<>> \in Seq(S)
  OBVIOUS

\* A step of a calling thread keeps every variable's type.
LEMMA CallerType ==
  ASSUME StateType, NEW c \in Thread, Call(c) \/ Return(c)
  PROVE  StateType'
<1> USE ManagerAssumption
<1>0. UNCHANGED workerVars
  BY CallersLeaveWorkerAlone
<1>1. \A cmd \in Command : TrySend(cmd) => cmds' \in Seq(Command)
  BY DEF TrySend, StateType
<1>2. \A cmd \in Command : TrySendSchedule(cmd) => cmds' \in Seq(Command)
  BY DEF TrySendSchedule, StateType
<1>3. ASSUME NEW i \in TimerId, NEW d \in Delay, NEW r \in 1..U32Max, Begin(c, i, d, r)
      PROVE  StateType'
  <2>1. req'[c] \in Timer
    BY <1>3 DEF Begin, StateType, Timer
  <2> QED
    BY <1>0, <1>3, <2>1 DEF Begin, Goto, StateType, ThreadPc, workerVars
<1>4. CASE \E i \in TimerId, d \in Delay : ScheduleTimeout(c, i, d)
  BY <1>3, <1>4 DEF ScheduleTimeout
<1>5. CASE \E i \in TimerId, d \in Delay, n \in Repeat : ScheduleInterval(c, i, d, n)
  BY <1>3, <1>5 DEF ScheduleInterval
<1>6. CASE Send(c)
  <2>1. [op |-> "schedule", timer |-> req[c]] \in Command
    BY <1>6 DEF Send, StateType, Command
  <2> QED
    BY <1>0, <1>2, <1>6, <2>1 DEF Send, Goto, StateType, ThreadPc, workerVars, NoTimer
<1>7. ASSUME NEW i \in TimerId, Cancel(c, i) \/ CancelWithAck(c, i) \/ MarkTimerFired(c, i)
      PROVE  StateType'
  <2>1. [op |-> "cancel", id |-> i] \in Command
    BY DEF Command
  <2>2. [op |-> "cancelAck", id |-> i, thread |-> c] \in Command
    BY DEF Command
  <2>3. CASE Cancel(c, i)
    BY <1>0, <1>2, <2>1, <2>3 DEF Cancel, StateType, workerVars, clientVars
  <2>4. CASE CancelWithAck(c, i)
    BY <1>0, <1>2, <2>2, <2>4 DEF CancelWithAck, Goto, StateType, ThreadPc, workerVars
  <2>5. CASE MarkTimerFired(c, i)
    BY <1>0, <2>5 DEF MarkTimerFired, Goto, StateType, ThreadPc, workerVars
  <2> QED
    BY <1>7, <2>3, <2>4, <2>5
<1>8. CASE Clear(c) \/ ClearWithAck(c) \/ Shutdown(c) \/ ShutdownWithAck(c)
  <2>1. /\ [op |-> "clear"] \in Command
        /\ [op |-> "shutdown"] \in Command
        /\ [op |-> "clearAck", thread |-> c] \in Command
        /\ [op |-> "shutdownAck", thread |-> c] \in Command
    BY DEF Command
  <2> QED
    BY <1>0, <1>1, <1>8, <2>1
    DEF Clear, ClearWithAck, Shutdown, ShutdownWithAck, Goto, StateType, ThreadPc, workerVars,
        clientVars
<1>9. CASE CancelAcked(c)
  <2>1. req' \in [Thread -> Timer \cup [id : TimerId \cup {0}]]
    BY <1>9 DEF CancelAcked, StateType, NoTimer
  <2>2. \A a \in Thread : pc'[a] = "send" => pc[a] = "send" /\ req'[a] = req[a]
    BY <1>9 DEF CancelAcked, Goto, StateType
  <2> QED
    BY <1>0, <1>9, <2>1, <2>2 DEF CancelAcked, Goto, StateType, ThreadPc, workerVars
<1>13. CASE ShutdownAcked(c)
  BY <1>0, <1>13 DEF ShutdownAcked, Goto, StateType, ThreadPc, workerVars
<1>10. CASE ClearFired(c) \/ ClearFiredTimers(c) \/ PollFiredTimers(c)
  BY <1>0, <1>10, EmptySequence
  DEF ClearFired, ClearFiredTimers, PollFiredTimers, Goto, StateType, ThreadPc, workerVars,
      clientVars
<1>11. CASE ClearLock(c)
  BY <1>0, <1>11, EmptySequence DEF ClearLock, Goto, StateType, ThreadPc, workerVars
<1>14. CASE ClearAcked(c)
  BY <1>0, <1>14 DEF ClearAcked, Goto, StateType, ThreadPc, workerVars
<1>12. CASE MarkWake(c) \/ HasNoFiredTimers(c) \/ WaitTimeout(c) \/ Unpark(c)
            \/ ShutdownClosed(c)
  BY <1>0, <1>12
  DEF MarkWake, HasNoFiredTimers, WaitTimeout, Unpark, ShutdownClosed, Goto, StateType,
      ThreadPc, workerVars
<1> QED
  BY <1>4, <1>5, <1>6, <1>7, <1>8, <1>9, <1>10, <1>11, <1>12, <1>13, <1>14 DEF Call, Return

\* handle_timer_command keeps the types.
LEMMA ReceiveType ==
  ASSUME StateType, ReceiveCommand
  PROVE  StateType'
<1> USE ManagerAssumption
<1> DEFINE cmd == Head(cmds)
<1>1. cmd \in Command /\ cmds' \in Seq(Command)
  BY DEF ReceiveCommand, StateType
<1> HIDE DEF cmd
<1>2. HandleCommand(cmd)
  BY DEF ReceiveCommand, cmd
<1>3. ack' \in [Thread -> {"none", "pending", "done", "dropped"}]
  BY <1>1, <1>2, CommandFields DEF HandleCommand, Answer, StateType
<1>4. wpc' \in WorkerPc /\ woken' \in BOOLEAN
  BY <1>2 DEF HandleCommand, WorkerPc, StateType
<1>5. \A t \in Timer : Key(t) \in Nat \X Nat \X TimerId
  BY DEF Timer, Key
<1>6. scheduled' \in SUBSET Timer /\ heap' \in SUBSET (Nat \X Nat \X TimerId) /\ count' \in Int
  <2>1. CASE cmd.op = "schedule" /\ Arm(cmd.timer)
    BY <1>1, <1>5, <2>1, CommandFields, SMTT(30) DEF Arm, StateType
  <2>2. CASE Disarm(cmd.id)
    BY <2>2 DEF Disarm, StateType
  <2>3. CASE DisarmAll
    BY <2>3, FS_CardinalityType DEF DisarmAll, StateType
  <2> QED
    BY <1>2, <2>1, <2>2, <2>3 DEF HandleCommand
<1> QED
  BY <1>1, <1>3, <1>4, <1>6 DEF ReceiveCommand, StateType, clientVars

\* The worker's own steps keep the types.
LEMMA WorkerType ==
  ASSUME StateType, Worker
  PROVE  StateType'
<1> USE ManagerAssumption
<1>1. \A t \in Timer : Key(t) \in Nat \X Nat \X TimerId
  BY DEF Timer, Key
<1>2. CASE WorkerLoop \/ SleepElapsed \/ Drained \/ WorkerWake
  BY <1>2
  DEF WorkerLoop, SleepElapsed, Drained, WorkerWake, StateType, WorkerPc, clientVars
<1>3. CASE PopDue
  <2>1. \A t \in scheduled : Append(batch, t) \in Seq(Timer)
    BY DEF StateType
  <2>2. scheduled' \in SUBSET Timer /\ batch' \in Seq(Timer) /\ count' \in Int
    <3>1. CASE \E t \in scheduled : /\ scheduled' = scheduled \ {t}
                                    /\ batch' = Append(batch, t)
                                    /\ count' = IF t.remaining > 1 THEN count ELSE count - 1
      BY <2>1, <3>1 DEF StateType
    <3>2. CASE UNCHANGED <<scheduled, batch, count>>
      BY <3>2 DEF StateType
    <3> QED
      BY <1>3, <3>1, <3>2 DEF PopDue
  <2> QED
    BY <1>3, <2>2 DEF PopDue, StateType, clientVars
<1>4. CASE Reschedule
  <2>0. PICK at \in Readings :
          /\ \A u \in scheduled' : u \in scheduled \/ \E t \in Repeating : u = Rearmed(t, at[t])
          /\ heap' = heap \cup {Key(t) : t \in {Rearmed(t, at[t]) : t \in Repeating}}
    BY <1>4 DEF Reschedule
  <2>1. ASSUME NEW t \in Repeating PROVE Rearmed(t, at[t]) \in Timer
    <3>1. t \in Timer /\ t.remaining > 1
      BY DEF Repeating, Range, StateType
    <3>2. at[t] + t.delay \in Nat
      BY <3>1 DEF Timer, StateType, Readings
    <3>3. (IF t.remaining = U32Max THEN U32Max ELSE t.remaining - 1) \in 1..U32Max
      BY <3>1 DEF Timer
    <3> QED
      BY <3>1, <3>2, <3>3 DEF Rearmed, Timer
  <2>2. scheduled' \in SUBSET Timer /\ heap' \in SUBSET (Nat \X Nat \X TimerId)
    BY <1>1, <2>0, <2>1 DEF StateType
  <2> QED
    BY <1>4, <2>2 DEF Reschedule, StateType, WorkerPc, clientVars
<1>5. CASE Publish
  <2>1. ASSUME NEW n \in DOMAIN batch PROVE batch[n].id \in TimerId
    <3>1. batch[n] \in Timer
      BY ElementOfSeq, LenProperties DEF StateType
    <3> QED
      BY <3>1 DEF Timer
  <2>2. [n \in DOMAIN batch |-> batch[n].id] \in Seq(TimerId)
    <3>1. batch \in Seq(Timer) /\ Len(batch) \in Nat /\ DOMAIN batch = 1..Len(batch)
      BY DEF StateType
    <3> QED
      BY <2>1, <3>1, SeqDef
  <2> QED
    BY <1>5, <2>2, EmptySequence DEF Publish, StateType, WorkerPc, clientVars
<1>6. CASE Stop
  BY <1>6, EmptySequence DEF Stop, StateType, WorkerPc, clientVars
<1> QED
  BY <1>2, <1>3, <1>4, <1>5, <1>6, ReceiveType DEF Worker

\* No step of a thread or of the worker leaves the types.
LEMMA TypeStep == StateType /\ [Next]_vars => StateType'
<1>1. CASE Tick
  BY <1>1 DEF Tick, StateType, workerVars, clientVars
<1>2. CASE UNCHANGED vars
  BY <1>2 DEF vars, StateType
<1> QED
  BY <1>1, <1>2, CallerType, WorkerType DEF Next

\* Every variable keeps its type.
LEMMA StateTypeInvariant == Spec => []StateType
<1>1. Init => StateType
  <2> SUFFICES ASSUME Init PROVE StateType
    OBVIOUS
  <2>1. req \in [Thread -> Timer \cup [id : TimerId \cup {0}]]
    BY DEF Init, NoTimer
  <2>2. ack \in [Thread -> {"none", "pending", "done", "dropped"}] /\ pc \in [Thread -> ThreadPc]
    BY DEF Init, ThreadPc
  <2>3. \A c \in Thread : pc[c] # "send"
    BY DEF Init
  <2>4. cmds \in Seq(Command) /\ fired \in Seq(TimerId) /\ batch \in Seq(Timer)
    BY EmptySequence DEF Init
  <2>5. now \in Nat /\ nextSeq \in Nat \ {0} /\ count \in Int /\ fireNow \in Nat
    BY DEF Init
  <2>6. rxOpen \in BOOLEAN /\ locked \in BOOLEAN /\ woken \in BOOLEAN
    BY DEF Init
  <2>7. scheduled \in SUBSET Timer /\ heap \in SUBSET (Nat \X Nat \X TimerId)
    BY DEF Init
  <2>8. wpc \in WorkerPc
    BY DEF Init, WorkerPc
  <2> QED
    BY <2>1, <2>2, <2>3, <2>4, <2>5, <2>6, <2>7, <2>8 DEF StateType
<1> QED
  BY <1>1, TypeStep, PTL DEF Spec

-----------------------------------------------------------------------------
(* The worker's invariant, one lemma for each of its steps that changes it *)

\* A key names its timer: equal keys have equal ids.
LEMMA KeyId == \A t, u : Key(t) = Key(u) => t.id = u.id
  BY DEF Key

\* Inserting, replacing or removing the timers of one id keeps map and heap equal.
LEMMA ReplaceId ==
  ASSUME HeapMatchesMap, NEW i, NEW new,
         NEW old, old = {u \in scheduled : u.id = i},
         \A t \in new : t.id = i,
         \A t, u \in new : t = u,
         scheduled' = (scheduled \ old) \cup new,
         heap' = (heap \ {Key(u) : u \in old}) \cup {Key(t) : t \in new}
  PROVE  HeapMatchesMap'
<1>1. heap' = {Key(t) : t \in scheduled'}
  <2>1. ASSUME NEW t \in scheduled \ old PROVE Key(t) \in heap \ {Key(u) : u \in old}
    BY KeyId DEF HeapMatchesMap
  <2>2. ASSUME NEW k \in heap \ {Key(u) : u \in old}
        PROVE  \E t \in scheduled \ old : k = Key(t)
    BY DEF HeapMatchesMap
  <2> QED
    BY <2>1, <2>2 DEF Key
<1> QED
  BY <1>1 DEF HeapMatchesMap, Key

\* The timers with one id are none, or one.
LEMMA AtMostOne ==
  ASSUME HeapMatchesMap, IsFiniteSet(scheduled), NEW i,
         NEW old, old = {u \in scheduled : u.id = i}
  PROVE  /\ IsFiniteSet(scheduled \ old)
         /\ old = {} => Cardinality(scheduled \ old) = Cardinality(scheduled)
         /\ old # {} => Cardinality(scheduled \ old) = Cardinality(scheduled) - 1
<1>1. CASE old = {}
  BY <1>1
<1>2. CASE old # {}
  <2>1. PICK t \in scheduled : old = {t}
    BY <1>2 DEF HeapMatchesMap
  <2> QED
    BY <1>2, <2>1, FS_RemoveElement
<1> QED
  BY <1>1, <1>2

\* The repeating timers of the batch, outside the map only during the firing.
LEMMA NoRepeating == batch = <<>> => Repeating = {} /\ Cardinality(Repeating) = 0
  BY FS_EmptySet DEF Repeating, Range

\* The elements of a sequence are finitely many.
LEMMA RangeFinite ==
  ASSUME NEW S, NEW s \in Seq(S)
  PROVE  IsFiniteSet(Range(s))
<1>1. s \in [1..Len(s) -> Range(s)] /\ Len(s) \in Nat
  BY LenProperties DEF Range
<1>2. s \in Surjection(1..Len(s), Range(s))
  BY <1>1, LenProperties DEF Surjection, Range
<1>3. IsFiniteSet(1..Len(s))
  BY <1>1, FS_Interval
<1> QED
  BY <1>2, <1>3, FS_Surjection

\* The repeating timers of a batch are finitely many.
LEMMA RepeatingFinite == StateType => IsFiniteSet(Repeating) /\ Cardinality(Repeating) \in Nat
<1> SUFFICES ASSUME StateType PROVE IsFiniteSet(Repeating) /\ Cardinality(Repeating) \in Nat
  OBVIOUS
<1>1. IsFiniteSet(Range(batch))
  BY RangeFinite DEF StateType
<1>2. Repeating \in SUBSET Range(batch)
  BY DEF Repeating
<1> QED
  BY <1>1, <1>2, FS_Subset, FS_CardinalityType

\* handle_timer_command: a command is handled only while no batch exists.
LEMMA ReceiveKeepsWorkerInv ==
  ASSUME StateType, WorkerInv, ReceiveCommand
  PROVE  WorkerInv'
<1> DEFINE cmd == Head(cmds)
<1>1. /\ HandleCommand(cmd)
      /\ wpc \in {"select", "drain"} /\ batch = <<>> /\ batch' = <<>>
      /\ wpc' \in {"drain", "stopping"}
  BY DEF ReceiveCommand, HandleCommand, WorkerInv, BatchApart
<1> HIDE DEF cmd
<1>2. BatchApart'
  BY <1>1 DEF BatchApart
<1>3. count = Cardinality(scheduled) /\ count \in Nat
  BY <1>1, FS_CardinalityType DEF WorkerInv, CountExact
<1>4. CASE cmd.op = "schedule" /\ Arm(cmd.timer)
  <2>1. PICK t, old : /\ t = cmd.timer
                      /\ old = {u \in scheduled : u.id = t.id}
                      /\ scheduled' = (scheduled \ old) \cup {t}
                      /\ heap' = (heap \ {Key(u) : u \in old}) \cup {Key(t)}
                      /\ count' = IF old = {} THEN count + 1 ELSE count
    BY <1>4 DEF Arm
  <2>2. PICK new : new = {t} /\ {Key(t)} = {Key(u) : u \in new}
    OBVIOUS
  <2>3. HeapMatchesMap'
    <3>1. /\ HeapMatchesMap
          /\ \A u \in new : u.id = t.id
          /\ \A u, v \in new : u = v
          /\ scheduled' = (scheduled \ old) \cup new
          /\ heap' = (heap \ {Key(u) : u \in old}) \cup {Key(u) : u \in new}
      BY <2>1, <2>2 DEF WorkerInv
    <3>2. old = {u \in scheduled : u.id = t.id}
      BY <2>1
    <3> QED
      BY <3>1, <3>2, ReplaceId
  <2>4. t \notin scheduled \ old
    BY <2>1
  <2>5. /\ IsFiniteSet(scheduled \ old)
        /\ old = {} => Cardinality(scheduled \ old) = Cardinality(scheduled)
        /\ old # {} => Cardinality(scheduled \ old) = Cardinality(scheduled) - 1
    BY <2>1, AtMostOne DEF WorkerInv
  <2>6. /\ IsFiniteSet(scheduled')
        /\ Cardinality(scheduled') = Cardinality(scheduled \ old) + 1
    <3> DEFINE rest == scheduled \ old
    <3>1. IsFiniteSet(rest) /\ t \notin rest /\ scheduled' = rest \cup {t}
      BY <2>1, <2>4, <2>5
    <3> HIDE DEF rest
    <3>2. IsFiniteSet(rest \cup {t}) /\ Cardinality(rest \cup {t}) = Cardinality(rest) + 1
      BY <3>1, FS_AddElement
    <3> QED
      BY <3>1, <3>2 DEF rest
  <2>7. count' = Cardinality(scheduled')
    BY <1>3, <2>1, <2>5, <2>6
  <2> QED
    BY <1>1, <1>2, <2>3, <2>6, <2>7, FS_CardinalityType DEF WorkerInv, CountExact
<1>5. CASE Disarm(cmd.id)
  <2>1. PICK i, old : /\ i = cmd.id
                      /\ old = {u \in scheduled : u.id = i}
                      /\ scheduled' = scheduled \ old
                      /\ heap' = heap \ {Key(u) : u \in old}
                      /\ count' = IF old = {} THEN count ELSE count - 1
    BY <1>5 DEF Disarm
  <2>2. PICK new : new = {}
    OBVIOUS
  <2>3. HeapMatchesMap'
    <3>1. /\ HeapMatchesMap
          /\ \A u \in new : u.id = i
          /\ \A u, v \in new : u = v
          /\ scheduled' = (scheduled \ old) \cup new
          /\ heap' = (heap \ {Key(u) : u \in old}) \cup {Key(u) : u \in new}
      BY <2>1, <2>2 DEF WorkerInv
    <3>2. old = {u \in scheduled : u.id = i}
      BY <2>1
    <3> QED
      BY <3>1, <3>2, ReplaceId
  <2>4. /\ IsFiniteSet(scheduled \ old)
        /\ old = {} => Cardinality(scheduled \ old) = Cardinality(scheduled)
        /\ old # {} => Cardinality(scheduled \ old) = Cardinality(scheduled) - 1
    BY <2>1, AtMostOne DEF WorkerInv
  <2>5. IsFiniteSet(scheduled') /\ count' = Cardinality(scheduled')
    BY <1>3, <2>1, <2>4
  <2> QED
    BY <1>1, <1>2, <2>3, <2>5, FS_CardinalityType DEF WorkerInv, CountExact
<1>6. CASE DisarmAll
  <2>1. scheduled' = {} /\ heap' = {} /\ count' = 0
    BY <1>3, <1>6 DEF DisarmAll
  <2> QED
    BY <1>1, <1>2, <2>1, FS_EmptySet DEF WorkerInv, CountExact, HeapMatchesMap
<1> QED
  BY <1>1, <1>4, <1>5, <1>6 DEF HandleCommand

\* One turn of fire_due_timers moves a timer from map and heap to the batch.
LEMMA PopKeepsWorkerInv ==
  ASSUME StateType, WorkerInv, PopDue
  PROVE  WorkerInv'
<1>1. PICK k \in heap : /\ heap' = heap \ {k}
                        /\ IF \E t \in scheduled : t.id = k[3]
                           THEN \E t \in scheduled :
                                  /\ t.id = k[3]
                                  /\ scheduled' = scheduled \ {t}
                                  /\ batch' = Append(batch, t)
                                  /\ count' = IF t.remaining > 1 THEN count ELSE count - 1
                           ELSE UNCHANGED <<scheduled, batch, count>>
  BY DEF PopDue
<1>2. PICK t \in scheduled : /\ t.id = k[3]
                             /\ scheduled' = scheduled \ {t}
                             /\ batch' = Append(batch, t)
                             /\ count' = IF t.remaining > 1 THEN count ELSE count - 1
  BY <1>1 DEF WorkerInv, HeapMatchesMap, Key
<1>3. wpc = "fire" /\ wpc' = "fire"
  BY DEF PopDue
<1>4. k = Key(t)
  BY <1>1, <1>2 DEF WorkerInv, HeapMatchesMap, Key
<1>5. HeapMatchesMap'
  BY <1>1, <1>2, <1>4 DEF WorkerInv, HeapMatchesMap, Key
<1>6. /\ batch \in Seq(Timer) /\ t \in Timer /\ Len(batch') = Len(batch) + 1
      /\ DOMAIN batch' = 1..(Len(batch) + 1) /\ DOMAIN batch = 1..Len(batch)
      /\ batch'[Len(batch) + 1] = t
      /\ \A n \in 1..Len(batch) : batch'[n] = batch[n]
  BY <1>2 DEF StateType
<1>7. BatchApart'
  BY <1>2, <1>3, <1>6 DEF WorkerInv, BatchApart, HeapMatchesMap
<1>8. IsFiniteSet(scheduled') /\ Cardinality(scheduled') = Cardinality(scheduled) - 1
  BY <1>2, FS_RemoveElement DEF WorkerInv
<1>9. Range(batch') = Range(batch) \cup {t}
  BY <1>6 DEF Range
<1>10. t \notin Range(batch)
  BY <1>3, <1>6 DEF Range, WorkerInv, BatchApart
<1>11. t.remaining > 1 => Repeating' = Repeating \cup {t} /\ t \notin Repeating
  BY <1>9, <1>10 DEF Repeating
<1>12. ~(t.remaining > 1) => Repeating' = Repeating
  BY <1>9 DEF Repeating
<1>13. Cardinality(Repeating') = Cardinality(Repeating) + IF t.remaining > 1 THEN 1 ELSE 0
  BY <1>11, <1>12, RepeatingFinite, FS_AddElement
<1>14. Cardinality(scheduled) \in Nat /\ Cardinality(Repeating) \in Nat
  BY RepeatingFinite, FS_CardinalityType DEF WorkerInv
<1>15. count' = Cardinality(scheduled') + Cardinality(Repeating')
  BY <1>2, <1>3, <1>8, <1>13, <1>14 DEF WorkerInv, CountExact
<1> QED
  BY <1>3, <1>5, <1>7, <1>8, <1>15 DEF WorkerInv, CountExact

\* The re-insertion brings every repeating timer back under its own id.
LEMMA RescheduleKeepsWorkerInv ==
  ASSUME StateType, WorkerInv, Reschedule
  PROVE  WorkerInv'
<1>0. PICK at \in Readings :
        LET back == {Rearmed(t, at[t]) : t \in Repeating}
        IN /\ scheduled' = {u \in scheduled : \A t \in back : t.id # u.id} \cup back
           /\ heap' = heap \cup {Key(t) : t \in back}
  BY DEF Reschedule
<1> DEFINE again == {Rearmed(t, at[t]) : t \in Repeating}
<1>1. /\ wpc = "fire" /\ wpc' = (IF batch = <<>> THEN "loop" ELSE "publish") /\ count' = count
      /\ batch' = batch
      /\ scheduled' = {u \in scheduled : \A t \in again : t.id # u.id} \cup again
      /\ heap' = heap \cup {Key(t) : t \in again}
  BY <1>0 DEF Reschedule
<1>2. \A t \in Repeating : Rearmed(t, at[t]).id = t.id
  <2>1. \A t \in Repeating : t \in Timer
    BY LenProperties DEF Repeating, Range, StateType
  <2> QED
    BY <2>1 DEF Rearmed, Timer
<1>3. \A t, u \in Repeating : t.id = u.id => t = u
  BY DEF Repeating, Range, WorkerInv, BatchApart
<1>4. \A t \in Repeating, u \in scheduled : t.id # u.id
  BY <1>1 DEF Repeating, Range, WorkerInv, BatchApart
<1>5. \A t \in again, u \in scheduled : t.id # u.id
  BY <1>2, <1>4
<1>6. scheduled' = scheduled \cup again /\ scheduled \cap again = {}
  BY <1>1, <1>5
<1>7. \A t, u \in again : t.id = u.id => t = u
  BY <1>2, <1>3
<1>8. HeapMatchesMap'
  BY <1>1, <1>5, <1>6, <1>7 DEF WorkerInv, HeapMatchesMap
<1>9. ExistsBijection(Repeating, again)
  <2> DEFINE f == [t \in Repeating |-> Rearmed(t, at[t])]
  <2>1. f \in Bijection(Repeating, again)
    <3>1. f \in [Repeating -> again]
      OBVIOUS
    <3>2. \A t, u \in Repeating : f[t] = f[u] => t = u
      BY <1>2, <1>3
    <3>3. \A a \in again : \E t \in Repeating : f[t] = a
      OBVIOUS
    <3> QED
      BY <3>1, <3>2, <3>3 DEF Bijection, Injection, IsInjective, Surjection
  <2> QED
    BY <2>1 DEF ExistsBijection
<1>10. IsFiniteSet(again) /\ Cardinality(again) = Cardinality(Repeating)
  BY <1>9, RepeatingFinite, FS_Bijection
<1>11. /\ IsFiniteSet(scheduled')
       /\ Cardinality(scheduled') = Cardinality(scheduled) + Cardinality(again)
  <2>1. /\ IsFiniteSet(scheduled \cup again)
        /\ Cardinality(scheduled \cup again)
             = Cardinality(scheduled) + Cardinality(again) - Cardinality(scheduled \cap again)
    BY <1>10, FS_Union DEF WorkerInv
  <2>2. Cardinality(scheduled) \in Nat /\ Cardinality(again) \in Nat
    BY <1>10, FS_CardinalityType DEF WorkerInv
  <2>3. Cardinality(scheduled \cap again) = 0
    BY <1>6, FS_EmptySet, Zenon
  <2> HIDE DEF again
  <2> QED
    BY <1>6, <2>1, <2>2, <2>3
<1>12. BatchApart'
  BY <1>1 DEF WorkerInv, BatchApart
<1>13. CountExact'
  BY <1>1, <1>10, <1>11, FS_CardinalityType DEF WorkerInv, CountExact
<1> QED
  BY <1>8, <1>11, <1>12, <1>13 DEF WorkerInv

\* No step disturbs the agreement of map, heap and counter, the ones inside
\* fire_due_timers included.
LEMMA WorkerInvStep == StateType /\ WorkerInv /\ [Next]_vars => WorkerInv'
<1> SUFFICES ASSUME StateType, WorkerInv, [Next]_vars PROVE WorkerInv'
  OBVIOUS
<1>1. CASE UNCHANGED workerVars
  BY <1>1 DEF workerVars, WorkerInv, HeapMatchesMap, BatchApart, CountExact, Repeating, Range, Key
<1>2. CASE WorkerLoop \/ SleepElapsed \/ Drained \/ WorkerWake \/ Stop
  <2>1. /\ UNCHANGED <<scheduled, heap, count, batch>>
        /\ wpc \notin {"fire", "publish"} /\ wpc' # "publish"
    BY <1>2 DEF WorkerLoop, SleepElapsed, Drained, WorkerWake, Stop
  <2>2. batch = <<>> /\ batch' = <<>>
    BY <2>1 DEF WorkerInv, BatchApart
  <2>3. BatchApart'
    BY <2>1, <2>2 DEF WorkerInv, BatchApart
  <2>4. count = Cardinality(scheduled) /\ Cardinality(scheduled) \in Nat
    BY <2>1, FS_CardinalityType DEF WorkerInv, CountExact
  <2>5. Repeating' = {} /\ Cardinality(Repeating') = 0
    BY <2>2, FS_EmptySet DEF Repeating, Range
  <2>6. CountExact'
    BY <2>1, <2>4, <2>5 DEF CountExact
  <2> QED
    BY <2>1, <2>3, <2>6 DEF WorkerInv, HeapMatchesMap
<1>3. CASE Publish
  <2>1. UNCHANGED <<scheduled, heap, count>> /\ wpc = "publish" /\ wpc' = "wake" /\ batch' = <<>>
    BY <1>3 DEF Publish
  <2> QED
    BY <2>1 DEF WorkerInv, HeapMatchesMap, BatchApart, CountExact
<1>4. CASE Tick \/ UNCHANGED vars
  BY <1>1, <1>4 DEF Tick, vars, workerVars
<1> QED
  BY <1>1, <1>2, <1>3, <1>4, CallersLeaveWorkerAlone, ReceiveKeepsWorkerInv, PopKeepsWorkerInv,
     RescheduleKeepsWorkerInv DEF Next, Worker

\* The worker's invariant holds for every number of threads, ids, delays,
\* commands and ticks.
LEMMA WorkerInvariant == Spec => []WorkerInv
<1>1. Init => WorkerInv
  BY FS_EmptySet DEF Init, WorkerInv, HeapMatchesMap, BatchApart, CountExact
<1> QED
  BY <1>1, WorkerInvStep, StateTypeInvariant, PTL DEF Spec

\* Map and heap of the worker never disagree (handle_timer_command and
\* fire_due_timers update them separately).
THEOREM HeapAlwaysMatchesMap == Spec => []HeapMatchesMap
  BY WorkerInvariant, PTL DEF WorkerInv

\* The counter the event loop reads is exact at every step of the worker.
THEOREM CountAlwaysExact == Spec => []CountExact
  BY WorkerInvariant, PTL DEF WorkerInv

\* Type correctness; the counter, an AtomicU64, never wraps below zero.
THEOREM TypeCorrect == Spec => []TypeOK
<1>1. StateType /\ WorkerInv => TypeOK
  BY FS_CardinalityType, RepeatingFinite DEF WorkerInv, CountExact, TypeOK
<1> QED
  BY <1>1, StateTypeInvariant, WorkerInvariant, PTL

-----------------------------------------------------------------------------
(* Answers: cancel_with_ack, clear_with_ack and shutdown_with_ack *)

\* The commands that carry the sender of an answer.
AckOps == {"cancelAck", "clearAck", "shutdownAck"}

\* Where the thread of a command waits for its answer.
WaitsAt(op) == IF op = "cancelAck" THEN {"cancelWait"}
               ELSE IF op = "clearAck" THEN {"clearLock", "clearWait"} ELSE {"shutdownWait"}

\* The places in which a thread expects an answer.
Waits == {"cancelWait", "clearLock", "clearWait", "shutdownWait"}

\* The worker that has left its loop has dropped its timers and then the channel.
StopInv ==
  /\ rxOpen <=> wpc # "stopped"
  /\ wpc \in {"stopping", "stopped"} => scheduled = {}
  /\ wpc = "stopped" => cmds = <<>>

\* A command with an answer belongs to a thread that waits for it, a thread waits
\* for one answer at a time, and what it scheduled is ahead of its cancellation.
AnswerInv ==
  /\ \A m \in DOMAIN cmds : cmds[m].op \in AckOps =>
       /\ ack[cmds[m].thread] = "pending"
       /\ pc[cmds[m].thread] \in WaitsAt(cmds[m].op)
       /\ cmds[m].op = "cancelAck" => req[cmds[m].thread].id = cmds[m].id
  /\ \A m, n \in DOMAIN cmds :
       cmds[m].op \in AckOps /\ cmds[n].op \in AckOps /\ cmds[m].thread = cmds[n].thread => m = n
  /\ \A m, n \in DOMAIN cmds : m < n /\ cmds[m].op = "cancelAck" /\ cmds[n].op = "schedule"
       => cmds[n].timer.thread # cmds[m].thread
  /\ \A c \in Thread : pc[c] \notin Waits => ack[c] = "none"
  /\ \A c \in Thread : pc[c] = "send" => req[c].thread = c

\* Once the worker stops, no call adds a command and no step a timer.
LEMMA StopStep == StateType /\ WorkerInv /\ StopInv /\ [Next]_vars => StopInv'
<1> SUFFICES ASSUME StateType, WorkerInv, StopInv, [Next]_vars PROVE StopInv'
  OBVIOUS
<1>1. ASSUME NEW c \in Thread, Call(c) \/ Return(c) PROVE StopInv'
  <2>1. UNCHANGED workerVars
    BY <1>1, CallersLeaveWorkerAlone
  <2>2. rxOpen' = rxOpen /\ (~rxOpen => cmds' = cmds)
    BY <1>1 DEF Call, Return, ScheduleTimeout, ScheduleInterval, Begin, Send, Cancel, CancelWithAck,
         CancelAcked, Clear, ClearFired, ClearFiredTimers, ClearWithAck, ClearLock, ClearAcked,
         MarkTimerFired, MarkWake, PollFiredTimers, HasNoFiredTimers, WaitTimeout, Unpark,
         Shutdown, ShutdownWithAck, ShutdownAcked, ShutdownClosed, TrySend, TrySendSchedule, CanSend
  <2> QED
    BY <2>1, <2>2 DEF StopInv, workerVars
<1>2. CASE ReceiveCommand
  <2>1. wpc' = "drain" \/ (wpc' = "stopping" /\ DisarmAll)
    BY <1>2 DEF ReceiveCommand, HandleCommand
  <2> QED
    BY <1>2, <2>1 DEF ReceiveCommand, StopInv, DisarmAll
<1>3. CASE WorkerLoop \/ SleepElapsed \/ Drained \/ PopDue \/ Reschedule \/ Publish \/ WorkerWake
  BY <1>3 DEF WorkerLoop, SleepElapsed, Drained, PopDue, Reschedule, Publish, WorkerWake, StopInv
<1>4. CASE Stop
  BY <1>4 DEF Stop, StopInv
<1>5. CASE Tick \/ UNCHANGED vars
  BY <1>5 DEF Tick, vars, workerVars, StopInv
<1> QED
  BY <1>1, <1>2, <1>3, <1>4, <1>5 DEF Next, Worker

\* The channel after a send.
LEMMA AppendCommand ==
  ASSUME StateType, NEW cmd, cmds' = Append(cmds, cmd)
  PROVE  /\ DOMAIN cmds' = 1..(Len(cmds) + 1) /\ DOMAIN cmds = 1..Len(cmds) /\ Len(cmds) \in Nat
         /\ cmds'[Len(cmds) + 1] = cmd
         /\ \A n \in DOMAIN cmds : cmds'[n] = cmds[n]
  BY DEF StateType

\* The channel after a receive.
LEMMA TailCommands ==
  ASSUME StateType, cmds # <<>>, cmds' = Tail(cmds)
  PROVE  /\ Len(cmds) \in Nat \ {0} /\ DOMAIN cmds = 1..Len(cmds) /\ DOMAIN cmds' = 1..(Len(cmds) - 1)
         /\ Head(cmds) = cmds[1]
         /\ \A n \in DOMAIN cmds' : n + 1 \in DOMAIN cmds /\ cmds'[n] = cmds[n + 1]
  BY DEF StateType

\* A thread that expects no answer has no command with an answer in the channel.
LEMMA NothingPending ==
  ASSUME StateType, AnswerInv, NEW c \in Thread, ack[c] # "pending"
  PROVE  \A m \in DOMAIN cmds : cmds[m].op \in AckOps => cmds[m].thread \in Thread \ {c}
<1>1. \A m \in DOMAIN cmds : cmds[m] \in Command
  BY DEF StateType
<1> QED
  BY <1>1, CommandFields DEF AnswerInv, AckOps

\* Calls keep it: a caller sends one command and then waits or returns.
LEMMA CallerAnswer ==
  ASSUME StateType, AnswerInv, NEW c \in Thread, Call(c) \/ Return(c)
  PROVE  AnswerInv'
<1> USE DEF AckOps, Waits, WaitsAt
<1>0. \A m \in DOMAIN cmds : cmds[m] \in Command
  BY DEF StateType
<1>1. CASE /\ UNCHANGED <<cmds, ack, req>> /\ pc[c] \notin Waits \cup {"send"}
           /\ \E to : to \notin Waits \cup {"send"} /\ Goto(c, to)
  <2>1. \A m \in DOMAIN cmds : cmds[m].op \in AckOps => cmds[m].thread \in Thread \ {c}
    BY <1>1, NothingPending DEF AnswerInv
  <2> QED
    BY <1>1, <2>1 DEF Goto, AnswerInv, StateType
<1>2. CASE UNCHANGED <<cmds, ack, req, pc>>
  BY <1>2 DEF AnswerInv
<1>3. CASE ClearLock(c)
  BY <1>3, <1>0, CommandFields DEF ClearLock, Goto, AnswerInv, StateType
<1>4. ASSUME NEW i \in TimerId, NEW d \in Delay, NEW r, Begin(c, i, d, r)
      PROVE  AnswerInv'
  <2>1. \A m \in DOMAIN cmds : cmds[m].op \in AckOps => cmds[m].thread \in Thread \ {c}
    BY <1>4, NothingPending DEF AnswerInv, Begin
  <2>2. /\ UNCHANGED <<cmds, ack>> /\ pc[c] = "idle" /\ pc' = [pc EXCEPT ![c] = "send"]
        /\ req'[c].thread = c
        /\ \A b \in Thread \ {c} : req'[b] = req[b]
    BY <1>4 DEF Begin, Goto, StateType
  <2> QED
    BY <2>1, <2>2 DEF AnswerInv, StateType
<1>5. CASE CancelAcked(c) \/ ClearAcked(c) \/ ShutdownAcked(c)
  <2>1. \A m \in DOMAIN cmds : cmds[m].op \in AckOps => cmds[m].thread \in Thread \ {c}
    BY <1>5, NothingPending DEF AnswerInv, CancelAcked, ClearAcked, ShutdownAcked
  <2>2. /\ UNCHANGED cmds /\ ack' = [ack EXCEPT ![c] = "none"]
        /\ \E to \in {"idle", "shutdownClose"} : pc' = [pc EXCEPT ![c] = to]
        /\ \A b \in Thread \ {c} : req'[b] = req[b]
    BY <1>5 DEF CancelAcked, ClearAcked, ShutdownAcked, Goto, StateType
  <2> QED
    BY <2>1, <2>2 DEF AnswerInv, StateType
<1>6. ASSUME NEW cmd, cmd.op \notin AckOps, cmds' = Append(cmds, cmd), UNCHANGED ack, 
        \A b \in Thread \ {c} : req'[b] = req[b], 
        pc[c] \notin Waits, \E to : to \notin Waits \cup {"send"} /\ Goto(c, to),
        cmd.op = "schedule" => cmd.timer.thread = c
      PROVE AnswerInv'
  <2>1. \A m \in DOMAIN cmds : cmds[m].op \in AckOps => cmds[m].thread \in Thread \ {c}
    BY <1>6, NothingPending DEF AnswerInv
  <2>2. /\ DOMAIN cmds' = 1..(Len(cmds) + 1) /\ DOMAIN cmds = 1..Len(cmds) /\ Len(cmds) \in Nat
        /\ cmds'[Len(cmds) + 1] = cmd
        /\ \A n \in DOMAIN cmds : cmds'[n] = cmds[n]
    BY <1>6, AppendCommand
  <2> QED
    BY <1>6, <2>1, <2>2 DEF AnswerInv, StateType, Goto
<1>7. ASSUME NEW cmd, cmd.op \in AckOps, cmds' = Append(cmds, cmd), cmd.thread = c, 
        ack' = [ack EXCEPT ![c] = "pending"],
        \A b \in Thread \ {c} : req'[b] = req[b], 
        pc[c] \notin Waits \cup {"send"}, \E to \in WaitsAt(cmd.op) : Goto(c, to),
        cmd.op = "cancelAck" => req'[c].id = cmd.id
      PROVE AnswerInv'
  <2>1. \A m \in DOMAIN cmds : cmds[m].op \in AckOps => cmds[m].thread \in Thread \ {c}
    BY <1>7, NothingPending DEF AnswerInv
  <2>2. /\ DOMAIN cmds' = 1..(Len(cmds) + 1) /\ DOMAIN cmds = 1..Len(cmds) /\ Len(cmds) \in Nat
        /\ cmds'[Len(cmds) + 1] = cmd
        /\ \A n \in DOMAIN cmds : cmds'[n] = cmds[n]
    BY <1>7, AppendCommand
  <2> QED
    BY <1>7, <2>1, <2>2 DEF AnswerInv, StateType, Goto
<1>8. CASE Send(c)
  BY <1>1, <1>2, <1>6, <1>8, SMTT(30) DEF Send, TrySendSchedule, Goto, AnswerInv, StateType
<1>9. CASE \E i \in TimerId : Cancel(c, i)
  BY <1>2, <1>6, <1>9 DEF Cancel, TrySendSchedule, Goto, StateType, clientVars
<1>10. CASE Clear(c)
  BY <1>1, <1>6, <1>10 DEF Clear, TrySend, Goto
<1>11. CASE Shutdown(c)
  BY <1>2, <1>6, <1>11 DEF Shutdown, TrySend, Goto, StateType, clientVars
<1>12. ASSUME NEW i \in TimerId, CancelWithAck(c, i) PROVE AnswerInv'
  <2> DEFINE cmd == [op |-> "cancelAck", id |-> i, thread |-> c]
  <2>1. cmd.op = "cancelAck" /\ cmd.thread = c /\ cmd.id = i
    OBVIOUS
  <2>2. /\ cmds' = Append(cmds, cmd) /\ ack' = [ack EXCEPT ![c] = "pending"]
        /\ \A b \in Thread \ {c} : req'[b] = req[b]
        /\ req'[c].id = i /\ pc[c] = "idle" /\ Goto(c, "cancelWait")
    BY <1>12 DEF CancelWithAck, TrySendSchedule, StateType
  <2> HIDE DEF cmd
  <2> QED
    BY <1>7, <2>1, <2>2
<1>13. CASE ClearWithAck(c)
  <2> DEFINE cmd == [op |-> "clearAck", thread |-> c]
  <2>1. cmd.op = "clearAck" /\ cmd.thread = c
    OBVIOUS
  <2>2. pc[c] = "idle" /\ Goto(c, "clearLock") /\ req' = req
    BY <1>13 DEF ClearWithAck
  <2>3. CASE rxOpen
    <3>1. cmds' = Append(cmds, cmd) /\ ack' = [ack EXCEPT ![c] = "pending"]
      BY <1>13, <2>3 DEF ClearWithAck, TrySend, CanSend
    <3> HIDE DEF cmd
    <3> QED
      BY <1>7, <2>1, <2>2, <3>1
  <2>4. CASE ~rxOpen
    <3>1. cmds' = cmds /\ ack' = [ack EXCEPT ![c] = "dropped"]
      BY <1>13, <2>4 DEF ClearWithAck, TrySend, CanSend
    <3>2. \A m \in DOMAIN cmds : cmds[m].op \in AckOps => cmds[m].thread \in Thread \ {c}
      BY <2>2, NothingPending DEF AnswerInv
    <3> QED
      BY <2>2, <3>1, <3>2 DEF AnswerInv, StateType, Goto
  <2> QED
    BY <2>3, <2>4
<1>14. CASE ShutdownWithAck(c)
  <2> DEFINE cmd == [op |-> "shutdownAck", thread |-> c]
  <2>1. cmd.op = "shutdownAck" /\ cmd.thread = c
    OBVIOUS
  <2>2. /\ pc[c] = "idle" /\ Goto(c, "shutdownWait") /\ req' = req
        /\ cmds' = Append(cmds, cmd) /\ ack' = [ack EXCEPT ![c] = "pending"]
    BY <1>14 DEF ShutdownWithAck, TrySend
  <2> HIDE DEF cmd
  <2> QED
    BY <1>7, <2>1, <2>2
<1>15. CASE \/ ClearFired(c) \/ (\E i \in TimerId : MarkTimerFired(c, i)) \/ MarkWake(c)
            \/ HasNoFiredTimers(c) \/ WaitTimeout(c) \/ Unpark(c) \/ ShutdownClosed(c)
  BY <1>1, <1>15 DEF ClearFired, MarkTimerFired, MarkWake, HasNoFiredTimers, WaitTimeout, Unpark,
                     ShutdownClosed, Goto
<1>16. CASE ClearFiredTimers(c) \/ PollFiredTimers(c)
  BY <1>2, <1>16 DEF ClearFiredTimers, PollFiredTimers, clientVars
<1> QED
  BY <1>3, <1>4, <1>5, <1>8, <1>9, <1>10, <1>11, <1>12, <1>13, <1>14, <1>15, <1>16
  DEF Call, Return, ScheduleTimeout, ScheduleInterval

\* The worker answers the thread whose command it took, or all when it stops.
LEMMA AnswerStep == StateType /\ AnswerInv /\ [Next]_vars => AnswerInv'
<1> SUFFICES ASSUME StateType, AnswerInv, [Next]_vars PROVE AnswerInv'
  OBVIOUS
<1>1. CASE UNCHANGED <<cmds, ack, req, pc>>
  BY <1>1 DEF AnswerInv
<1>2. CASE ReceiveCommand
  <2>1. /\ Len(cmds) \in Nat \ {0} /\ DOMAIN cmds = 1..Len(cmds) /\ DOMAIN cmds' = 1..(Len(cmds) - 1)
        /\ Head(cmds) = cmds[1]
        /\ \A n \in DOMAIN cmds' : n + 1 \in DOMAIN cmds /\ cmds'[n] = cmds[n + 1]
    BY <1>2, TailCommands DEF ReceiveCommand
  <2>2. UNCHANGED <<pc, req>> /\ ack' = IF cmds[1].op \in AckOps
         THEN [ack EXCEPT ![cmds[1].thread] = "done"] ELSE ack
    BY <1>2, <2>1 DEF ReceiveCommand, HandleCommand, Answer, clientVars, AckOps
  <2>3. \A n \in DOMAIN cmds : cmds[n] \in Command
    BY DEF StateType
  <2>4. \A n \in DOMAIN cmds : cmds[n].op \in AckOps => cmds[n].thread \in Thread
    BY <2>3, CommandFields DEF AckOps
  <2>5. \A n \in DOMAIN cmds' : cmds'[n].op \in AckOps => ack'[cmds'[n].thread] = "pending"
    BY <2>1, <2>2, <2>4 DEF AnswerInv, StateType
  <2>6. \A c \in Thread : pc[c] \notin Waits => ack'[c] = "none"
    BY <2>1, <2>2, <2>4 DEF AnswerInv, StateType, Waits, WaitsAt, AckOps
  <2> QED
    BY <2>1, <2>2, <2>4, <2>5, <2>6 DEF AnswerInv
<1>3. CASE Stop
  BY <1>3 DEF Stop, AnswerInv, StateType, clientVars
<1>4. CASE \/ WorkerLoop \/ SleepElapsed \/ Drained \/ PopDue \/ Reschedule \/ Publish
           \/ WorkerWake \/ Tick \/ UNCHANGED vars
  BY <1>1, <1>4 DEF WorkerLoop, SleepElapsed, Drained, PopDue, Reschedule, Publish, WorkerWake,
    Tick, vars, clientVars
<1> QED
  BY <1>2, <1>3, <1>4, CallerAnswer DEF Next, Worker

-----------------------------------------------------------------------------
(* Timers that can still fire *)

\* What a command adds to the accepted timers.
LEMMA QueuedAppend ==
  ASSUME StateType, NEW cmd, cmds' = Append(cmds, cmd)
  PROVE  Queued' = Queued \cup (IF cmd.op = "schedule" THEN {cmd.timer} ELSE {})
<1>1. /\ DOMAIN cmds' = 1..(Len(cmds) + 1) /\ DOMAIN cmds = 1..Len(cmds) /\ Len(cmds) \in Nat
      /\ cmds'[Len(cmds) + 1] = cmd
      /\ \A n \in DOMAIN cmds : cmds'[n] = cmds[n]
  BY AppendCommand
<1> QED
  BY <1>1 DEF Queued

\* What its reception takes away.
LEMMA QueuedTail ==
  ASSUME StateType, cmds # <<>>, cmds' = Tail(cmds)
  PROVE  Queued = Queued' \cup (IF Head(cmds).op = "schedule" THEN {Head(cmds).timer} ELSE {})
<1>1. /\ Len(cmds) \in Nat \ {0} /\ DOMAIN cmds = 1..Len(cmds) /\ DOMAIN cmds' = 1..(Len(cmds) - 1)
      /\ Head(cmds) = cmds[1]
      /\ \A n \in DOMAIN cmds' : n + 1 \in DOMAIN cmds /\ cmds'[n] = cmds[n + 1]
  BY TailCommands
<1>2. \A n \in DOMAIN cmds : n = 1 \/ (n - 1 \in DOMAIN cmds' /\ cmds'[n - 1] = cmds[n])
  BY <1>1
<1>3. \A t \in Queued : t \in Queued' \/ (Head(cmds).op = "schedule" /\ t = Head(cmds).timer)
  BY <1>1, <1>2 DEF Queued
<1>4. \A t \in Queued' : t \in Queued
  BY <1>1 DEF Queued
<1>5. Head(cmds).op = "schedule" => Head(cmds).timer \in Queued
  BY <1>1 DEF Queued
<1> QED
  BY <1>3, <1>4, <1>5

\* A caller's step touches its own place, request and answer only.
LEMMA CallerFrame ==
  ASSUME StateType, NEW c \in Thread, Call(c) \/ Return(c)
  PROVE  /\ \A b \in Thread \ {c} : pc'[b] = pc[b] /\ req'[b] = req[b] /\ ack'[b] = ack[b]
         /\ pc'[c] = "cancelWait" => ack'[c] = "pending"
  BY DEF Call, Return, ScheduleTimeout, ScheduleInterval, Begin, Send, Cancel, CancelWithAck,
         CancelAcked, Clear, ClearFired, ClearFiredTimers, ClearWithAck, ClearLock, ClearAcked,
         MarkTimerFired, MarkWake, PollFiredTimers, HasNoFiredTimers, WaitTimeout, Unpark,
         Shutdown, ShutdownWithAck, ShutdownAcked, ShutdownClosed, Goto, clientVars, StateType

\* A call adds to the live timers only the one it was about to send.
LEMMA CallerLive ==
  ASSUME StateType, NEW c \in Thread, Call(c) \/ Return(c)
  PROVE  \/ Queued' = Queued /\ Live' = Live
         \/ /\ Send(c) /\ cmds' = Append(cmds, [op |-> "schedule", timer |-> req[c]])
            /\ Queued' = Queued \cup {req[c]} /\ Live' = Live \cup {req[c]}
<1>1. UNCHANGED <<scheduled, batch>>
  BY CallersLeaveWorkerAlone DEF workerVars
<1>2. CASE cmds' = cmds
  BY <1>1, <1>2 DEF Queued, Live, Range
<1>3. ASSUME NEW cmd, cmd.op # "schedule", cmds' = Append(cmds, cmd)
      PROVE  Queued' = Queued /\ Live' = Live
  BY <1>1, <1>3, QueuedAppend DEF Live, Range
<1>4. CASE Send(c) /\ cmds' # cmds
  <2> DEFINE cmd == [op |-> "schedule", timer |-> req[c]]
  <2>1. cmds' = Append(cmds, cmd) /\ cmd.op = "schedule" /\ cmd.timer = req[c]
    BY <1>4 DEF Send, TrySendSchedule
  <2> HIDE DEF cmd
  <2>2. Queued' = Queued \cup {req[c]}
    BY <2>1, QueuedAppend
  <2> QED
    BY <1>1, <1>4, <2>1, <2>2 DEF Live, Range, cmd
<1>5. CASE ~Send(c)
  BY <1>2, <1>3, <1>5
  DEF Call, Return, ScheduleTimeout, ScheduleInterval, Begin, Cancel, CancelWithAck,
      CancelAcked, Clear, ClearFired, ClearFiredTimers, ClearWithAck, ClearLock, ClearAcked,
      MarkTimerFired, MarkWake, PollFiredTimers, HasNoFiredTimers, WaitTimeout, Unpark,
      Shutdown, ShutdownWithAck, ShutdownAcked, ShutdownClosed, TrySend, TrySendSchedule
<1> QED
  BY <1>2, <1>4, <1>5

\* The elements of a sequence that has been extended.
LEMMA AppendRange ==
  ASSUME NEW S, NEW s \in Seq(S), NEW e
  PROVE  Range(Append(s, e)) = Range(s) \cup {e}
<1>1. /\ DOMAIN Append(s, e) = 1..(Len(s) + 1) /\ DOMAIN s = 1..Len(s) /\ Len(s) \in Nat
      /\ Append(s, e)[Len(s) + 1] = e
      /\ \A n \in DOMAIN s : Append(s, e)[n] = s[n]
  OBVIOUS
<1> QED
  BY <1>1 DEF Range

\* A re-armed timer keeps its identity.
LEMMA RearmedFields ==
  ASSUME StateType, NEW t \in Repeating, NEW at
  PROVE  /\ t \in Range(batch) /\ t \in Timer
         /\ Rearmed(t, at).id = t.id /\ Rearmed(t, at).thread = t.thread
         /\ Rearmed(t, at).sequence = t.sequence
<1>1. t \in Timer /\ t \in Range(batch)
  BY LenProperties DEF Repeating, Range, StateType
<1> QED
  BY <1>1 DEF Rearmed, Timer

\* The worker invents no timer.
LEMMA WorkerLive ==
  ASSUME StateType, Worker
  PROVE  \A t \in Live' : \E u \in Live :
           u.id = t.id /\ u.thread = t.thread /\ u.sequence = t.sequence
<1>1. CASE WorkerLoop \/ SleepElapsed \/ Drained \/ WorkerWake
  BY <1>1 DEF WorkerLoop, SleepElapsed, Drained, WorkerWake, Live, Queued, Range
<1>2. CASE ReceiveCommand
  <2>1. /\ cmds # <<>> /\ cmds' = Tail(cmds) /\ batch' = batch
        /\ scheduled' \subseteq
             scheduled \cup (IF Head(cmds).op = "schedule" THEN {Head(cmds).timer} ELSE {})
    BY <1>2 DEF ReceiveCommand, HandleCommand, Arm, Disarm, DisarmAll
  <2> QED
    BY <2>1, QueuedTail DEF Live, Range
<1>3. CASE PopDue
  <2>1. /\ cmds' = cmds /\ scheduled' \subseteq scheduled
        /\ batch' = batch \/ \E t \in scheduled : batch' = Append(batch, t)
    BY <1>3 DEF PopDue
  <2>2. \A t \in scheduled : batch' = Append(batch, t) => Range(batch') = Range(batch) \cup {t}
    BY AppendRange DEF StateType
  <2> QED
    BY <2>1, <2>2 DEF Live, Queued, Range
<1>4. CASE Reschedule
  <2>1. /\ cmds' = cmds /\ batch' = batch
        /\ \A u \in scheduled' : u \in scheduled \/ \E t \in Repeating : \E at : u = Rearmed(t, at)
    BY <1>4 DEF Reschedule
  <2> QED
    BY <2>1, RearmedFields DEF Live, Queued, Range
<1>5. CASE Publish
  <2>1. cmds' = cmds /\ scheduled' = scheduled /\ Range(batch') = {}
    BY <1>5 DEF Publish, Range
  <2> QED
    BY <2>1 DEF Live, Queued
<1>6. CASE Stop
  BY <1>6 DEF Stop, Live, Queued, Range
<1> QED
  BY <1>1, <1>2, <1>3, <1>4, <1>5, <1>6 DEF Worker

\* No step brings a timer back that its thread has cancelled with an answer: the
\* answer comes when the command is taken from the channel, after every earlier
\* command of that thread and while no batch exists.
LEMMA CancelStep ==
  ASSUME StateType, WorkerInv, StopInv, AnswerInv, CancelAckFinal, [Next]_vars
  PROVE  CancelAckFinal'
<1>1. ASSUME NEW c \in Thread, Call(c) \/ Return(c)
      PROVE  CancelAckFinal'
  <2>1. Live' = Live \/ (Live' = Live \cup {req[c]} /\ req[c].thread = c)
    BY <1>1, CallerLive DEF Send, AnswerInv
  <2>2. \A b \in Thread : b = c \/ b \in Thread \ {c}
    OBVIOUS
  <2> QED
    BY <1>1, <2>1, <2>2, CallerFrame DEF CancelAckFinal
<1>2. CASE Worker /\ ack' = ack
  <2>1. UNCHANGED <<pc, req>>
    BY <1>2 DEF Worker, WorkerLoop, SleepElapsed, ReceiveCommand, Drained, PopDue, Reschedule,
                Publish, WorkerWake, Stop, clientVars
  <2> QED
    BY <1>2, <2>1, WorkerLive DEF CancelAckFinal
<1>3. CASE ReceiveCommand /\ ack' # ack
  <2>1. /\ cmds # <<>> /\ cmds' = Tail(cmds) /\ batch = <<>> /\ UNCHANGED <<batch, pc, req>>
        /\ HandleCommand(Head(cmds))
    BY <1>3 DEF ReceiveCommand, clientVars, WorkerInv, BatchApart
  <2>2. PICK cmd : cmd = Head(cmds)
    OBVIOUS
  <2>3. cmd = cmds[1] /\ 1 \in DOMAIN cmds /\ cmd \in Command
    BY <2>1, <2>2 DEF StateType
  <2>4. cmd.op \in AckOps /\ ack' = [ack EXCEPT ![cmd.thread] = "done"]
    BY <1>3, <2>1, <2>2 DEF HandleCommand, Answer, AckOps
  <2>5. cmd.thread \in Thread /\ pc[cmd.thread] \in WaitsAt(cmd.op)
    BY <2>3, <2>4, CommandFields DEF AnswerInv, AckOps
  <2>6. \A b \in Thread \ {cmd.thread} : ack'[b] = ack[b]
    BY <2>4
  <2>7. \A b \in Thread \ {cmd.thread} : pc'[b] = "cancelWait" /\ ack'[b] = "done"
            => \A t \in Live' : ~(t.thread = b /\ t.id = req'[b].id)
    BY <1>3, <2>1, <2>6, WorkerLive DEF CancelAckFinal, Worker
  <2>8. ASSUME pc[cmd.thread] = "cancelWait", NEW t \in Live',
               t.thread = cmd.thread, t.id = req[cmd.thread].id
        PROVE  FALSE
    <3>1. cmd.op = "cancelAck" /\ cmd.id = req[cmd.thread].id
      BY <2>3, <2>4, <2>5, <2>8 DEF AnswerInv, AckOps, WaitsAt
    <3>2. scheduled' = {u \in scheduled : u.id # cmd.id}
      BY <2>1, <2>2, <3>1 DEF HandleCommand, Disarm
    <3>3. t \in Queued'
      BY <2>1, <2>8, <3>1, <3>2 DEF Live, Range
    <3>4. PICK n \in DOMAIN cmds' : cmds'[n].op = "schedule" /\ cmds'[n].timer = t
      BY <3>3 DEF Queued
    <3>5. n + 1 \in DOMAIN cmds /\ cmds[n + 1] = cmds'[n] /\ 1 < n + 1
      BY <2>1, <3>4, TailCommands
    <3> QED
      BY <2>3, <2>8, <3>1, <3>4, <3>5 DEF AnswerInv
  <2> QED
    BY <2>1, <2>7, <2>8 DEF CancelAckFinal
<1>4. CASE Stop
  <2>1. Live' = {}
    BY <1>4 DEF Stop, StopInv, WorkerInv, BatchApart, Live, Queued, Range
  <2> QED
    BY <2>1 DEF CancelAckFinal
<1>5. CASE Tick \/ UNCHANGED vars
  BY <1>5 DEF Tick, vars, workerVars, clientVars, CancelAckFinal, Live, Queued, Range
<1>6. Worker => ack' = ack \/ ReceiveCommand \/ Stop
  BY DEF Worker, WorkerLoop, SleepElapsed, Drained, PopDue, Reschedule, Publish, WorkerWake
<1> QED
  BY <1>1, <1>2, <1>3, <1>4, <1>5, <1>6 DEF Next

\* An acknowledged cancellation is final (cancel_with_ack and Command::Cancel of
\* handle_timer_command), whatever other threads send and however it races the
\* shutdown, which drops the senders of answers.
THEOREM CancelAckAlwaysFinal == Spec => []CancelAckFinal
<1> DEFINE Inv == StopInv /\ AnswerInv /\ CancelAckFinal
<1>1. Init => Inv
  BY DEF Init, StopInv, AnswerInv, CancelAckFinal, Waits
<1>2. StateType /\ WorkerInv /\ Inv /\ [Next]_vars => Inv'
  BY StopStep, AnswerStep, CancelStep
<1> QED
  BY <1>1, <1>2, StateTypeInvariant, WorkerInvariant, PTL DEF Spec

\* Nothing is left of a manager whose channel is closed.
LEMMA ClosedIsEmpty ==
  ASSUME StateType, WorkerInv, StopInv, ~rxOpen
  PROVE  cmds = <<>> /\ count = 0 /\ Live = {}
<1>1. wpc = "stopped" /\ scheduled = {} /\ cmds = <<>> /\ batch = <<>>
  BY DEF StopInv, WorkerInv, BatchApart
<1>2. Live = {}
  BY <1>1 DEF Live, Queued, Range
<1>3. count = 0
  BY <1>1, FS_EmptySet DEF WorkerInv, CountExact
<1> QED
  BY <1>1, <1>2, <1>3

\* When shutdown_with_ack returns the channel is closed, nothing is scheduled or
\* published later and the counter is zero.
THEOREM ShutdownIsFinal == Spec => ShutdownFinal
<1>1. Init => StopInv
  BY DEF Init, StopInv
<1>2. StateType /\ WorkerInv /\ StopInv /\ [Next]_vars =>
        [\A c \in Thread : pc[c] = "shutdownClose" /\ pc'[c] = "idle"
           => /\ ~rxOpen' /\ cmds' = <<>> /\ count' = 0 /\ Live' = {}]_vars
  <2> SUFFICES ASSUME StateType, WorkerInv, StopInv, [Next]_vars,
                      NEW c \in Thread, pc[c] = "shutdownClose", pc'[c] = "idle"
               PROVE  ~rxOpen' /\ cmds' = <<>> /\ count' = 0 /\ Live' = {}
    OBVIOUS
  <2>1. PICK b \in Thread : Call(b) \/ Return(b)
    BY DEF Next, Tick, Worker, WorkerLoop, SleepElapsed, ReceiveCommand, Drained, PopDue,
           Reschedule, Publish, WorkerWake, Stop, clientVars, vars
  <2>2. b = c
    BY <2>1, CallerFrame
  <2>3. ShutdownClosed(c)
    BY <2>1, <2>2
    DEF Call, Return, ScheduleTimeout, ScheduleInterval, Begin, Send, Cancel, CancelWithAck,
        CancelAcked, Clear, ClearFired, ClearFiredTimers, ClearWithAck, ClearLock, ClearAcked,
        MarkTimerFired, MarkWake, PollFiredTimers, HasNoFiredTimers, WaitTimeout, Unpark,
        Shutdown, ShutdownWithAck, ShutdownAcked, clientVars, Goto
  <2>4. ~rxOpen /\ UNCHANGED <<rxOpen, cmds, count, scheduled, batch>>
    BY <2>3 DEF ShutdownClosed, workerVars
  <2>5. cmds = <<>> /\ count = 0 /\ Live = {}
    BY <2>4, ClosedIsEmpty
  <2> QED
    BY <2>4, <2>5 DEF Live, Queued, Range
<1> QED
  BY <1>1, <1>2, StopStep, StateTypeInvariant, WorkerInvariant, PTL DEF Spec, ShutdownFinal

-----------------------------------------------------------------------------
(* The wake-up of a waiting caller *)

\* A caller on its way into wait_timeout counts as one that waits.
WakePending ==
  \A c \in Thread : pc[c] \in {"waiting", "parked"} /\ fired # <<>> => woken \/ wpc = "wake"

\* With one caller, as an event loop alone in its process is, the worker's
\* publication between has_fired_timers and wait_timeout is never slept through:
\* the flag of EventLoopWaker outlives it. With two callers one may consume the
\* other's flag, so the theorem needs its hypothesis.
THEOREM WakeupNeverLost ==
  ASSUME \A b, c \in Thread : b = c
  PROVE  Spec => []NoLostWakeup
<1>1. Init => WakePending
  BY DEF Init, WakePending
<1>2. StateType /\ WakePending /\ [Next]_vars => WakePending'
  <2> SUFFICES ASSUME StateType, WakePending, [Next]_vars PROVE WakePending'
    OBVIOUS
  <2>1. ASSUME NEW c \in Thread, Call(c) \/ Return(c) PROVE WakePending'
    <3>1. wpc' = wpc
      BY <2>1, CallersLeaveWorkerAlone DEF workerVars
    <3>2. \/ pc'[c] \notin {"waiting", "parked"}
          \/ fired' = <<>>
          \/ pc[c] = "waiting" /\ fired' = fired /\ ~woken
          \/ pc'[c] = pc[c] /\ fired' = fired /\ (woken => woken')
      BY <2>1
      DEF Call, Return, ScheduleTimeout, ScheduleInterval, Begin, Send, Cancel, CancelWithAck,
          CancelAcked, Clear, ClearFired, ClearFiredTimers, ClearWithAck, ClearLock, ClearAcked,
          MarkTimerFired, MarkWake, PollFiredTimers, HasNoFiredTimers, WaitTimeout, Unpark,
          Shutdown, ShutdownWithAck, ShutdownAcked, ShutdownClosed, clientVars, Goto, StateType
    <3> QED
      BY <3>1, <3>2 DEF WakePending
  <2>2. CASE Worker
    BY <2>2 DEF Worker, WorkerLoop, SleepElapsed, ReceiveCommand, HandleCommand, Drained, PopDue,
             Reschedule, Publish, WorkerWake, Stop, clientVars, WakePending, StateType
  <2>3. CASE Tick \/ UNCHANGED vars
    BY <2>3 DEF Tick, vars, workerVars, clientVars, WakePending
  <2> QED
    BY <2>1, <2>2, <2>3 DEF Next
<1>3. WakePending => NoLostWakeup
  BY DEF WakePending, NoLostWakeup
<1> QED
  BY <1>1, <1>2, <1>3, StateTypeInvariant, PTL DEF Spec

-----------------------------------------------------------------------------
(* The order in which timers fire, and the refinement of TimerService *)

\* t was requested before u as far as u's thread can tell, and is another timer.
Older(t, u) == t.sequence # u.sequence /\ (t.thread = u.thread => t.sequence < u.sequence)

\* Sequence numbers reach the worker in the order each thread took them.
SequenceInv ==
  /\ \A t \in Live : t.sequence < nextSeq
  /\ \A c \in Thread : pc[c] = "send" =>
       req[c].thread = c /\ req[c].sequence < nextSeq /\ \A t \in Live : Older(t, req[c])
  /\ \A b, c \in Thread :
       pc[b] = "send" /\ pc[c] = "send" /\ req[b].sequence = req[c].sequence => b = c
  /\ \A m, n \in DOMAIN cmds : m < n /\ cmds[m].op = "schedule" /\ cmds[n].op = "schedule"
       => Older(cmds[m].timer, cmds[n].timer)
  /\ \A m \in DOMAIN cmds : cmds[m].op = "schedule"
       => \A t \in scheduled \cup Range(batch) : Older(t, cmds[m].timer)

\* Live timers are timers.
LEMMA LiveTimer == StateType => Live \subseteq Timer
<1>1. StateType => \A m \in DOMAIN cmds : cmds[m] \in Command
  BY DEF StateType
<1>2. StateType => Queued \subseteq Timer
  BY <1>1, CommandFields DEF Queued
<1>3. StateType => Range(batch) \subseteq Timer
  BY DEF StateType, Range
<1> QED
  BY <1>2, <1>3 DEF Live, StateType

\* A call takes the next number and sends it before it takes another.
LEMMA CallerSequence ==
  ASSUME StateType, SequenceInv, NEW c \in Thread, Call(c) \/ Return(c)
  PROVE  SequenceInv'
<1>0. UNCHANGED <<scheduled, batch>>
  BY CallersLeaveWorkerAlone DEF workerVars
<1>1. \A b \in Thread \ {c} : pc'[b] = pc[b] /\ req'[b] = req[b]
  BY CallerFrame
<1>2. Live \subseteq Timer
  BY LiveTimer
<1>3. CASE Send(c) /\ cmds' = Append(cmds, [op |-> "schedule", timer |-> req[c]])
           /\ Live' = Live \cup {req[c]}
  <2> DEFINE cmd == [op |-> "schedule", timer |-> req[c]]
  <2>1. cmds' = Append(cmds, cmd) /\ cmd.op = "schedule" /\ cmd.timer = req[c]
    BY <1>3
  <2> HIDE DEF cmd
  <2>2. /\ DOMAIN cmds' = 1..(Len(cmds) + 1) /\ DOMAIN cmds = 1..Len(cmds) /\ Len(cmds) \in Nat
        /\ cmds'[Len(cmds) + 1] = cmd
        /\ \A n \in DOMAIN cmds : cmds'[n] = cmds[n]
    BY <2>1, AppendCommand
  <2>3. pc[c] = "send" /\ pc'[c] = "idle" /\ nextSeq' = nextSeq
    BY <1>3 DEF Send, Goto, StateType
  <2>4. \A m \in DOMAIN cmds : cmds[m].op = "schedule" => cmds[m].timer \in Live
    BY DEF Live, Queued
  <2>5. \A t \in Live' : t.sequence < nextSeq'
    BY <1>3, <2>3 DEF SequenceInv
  <2>6. \A b \in Thread : pc'[b] = "send" =>
       req'[b].thread = b /\ req'[b].sequence < nextSeq' /\ \A t \in Live' : Older(t, req'[b])
    BY <1>1, <1>3, <2>3 DEF SequenceInv, Older
  <2>7. \A m, n \in DOMAIN cmds' : m < n /\ cmds'[m].op = "schedule" /\ cmds'[n].op = "schedule"
       => Older(cmds'[m].timer, cmds'[n].timer)
    BY <2>1, <2>2, <2>3, <2>4 DEF SequenceInv
  <2>8. \A m \in DOMAIN cmds' : cmds'[m].op = "schedule"
       => \A t \in scheduled' \cup Range(batch)' : Older(t, cmds'[m].timer)
    <3>1. scheduled' \cup Range(batch)' = scheduled \cup Range(batch)
      BY <1>0 DEF Range
    <3>2. \A t \in scheduled \cup Range(batch) : Older(t, req[c])
      BY <2>3 DEF SequenceInv, Live
    <3> QED
      BY <2>1, <2>2, <3>1, <3>2 DEF SequenceInv
  <2> QED
    BY <1>1, <2>3, <2>5, <2>6, <2>7, <2>8 DEF SequenceInv, Older
<1>4. CASE Live' = Live
  <2>1. CASE pc'[c] # "send" /\ nextSeq' = nextSeq
    <3> DEFINE Same == \A m \in DOMAIN cmds' :
                         cmds'[m].op = "schedule" => m \in DOMAIN cmds /\ cmds'[m] = cmds[m]
    <3>1. Same
      <4>1. CASE cmds' = cmds
        BY <4>1
      <4>2. ASSUME NEW cmd, cmds' = Append(cmds, cmd), cmd.op # "schedule" 
            PROVE  Same
        BY <4>2, AppendCommand
      <4>3. CASE Send(c)
        <5>1. cmds' = cmds \/ cmds' = Append(cmds, [op |-> "schedule", timer |-> req[c]])
          BY <4>3 DEF Send, TrySendSchedule
        <5>2. CASE cmds' = Append(cmds, [op |-> "schedule", timer |-> req[c]])
          <6> DEFINE cmd == [op |-> "schedule", timer |-> req[c]]
          <6>1. cmds' = Append(cmds, cmd) /\ cmd.op = "schedule" /\ cmd.timer = req[c]
            BY <5>2
          <6> HIDE DEF cmd
          <6>2. req[c] \in Live
            BY <1>4, <6>1, QueuedAppend DEF Live
          <6> QED
            BY <4>3, <6>2 DEF Send, SequenceInv, Older
        <5> QED
          BY <4>1, <5>1, <5>2
      <4> QED
        BY <4>1, <4>2, <4>3
        DEF Call, Return, ScheduleTimeout, ScheduleInterval, Begin, Cancel, CancelWithAck,
            CancelAcked, Clear, ClearFired, ClearFiredTimers, ClearWithAck, ClearLock, ClearAcked,
            MarkTimerFired, MarkWake, PollFiredTimers, HasNoFiredTimers, WaitTimeout, Unpark,
            Shutdown, ShutdownWithAck, ShutdownAcked, ShutdownClosed, TrySend, TrySendSchedule
    <3> QED
      BY <1>0, <1>1, <1>4, <2>1, <3>1 DEF SequenceInv, Older, Range
  <2>2. ASSUME NEW i \in TimerId, NEW d \in Delay, NEW r, Begin(c, i, d, r) PROVE SequenceInv'
    <3>1. /\ nextSeq' = nextSeq + 1 /\ cmds' = cmds /\ nextSeq \in Nat
          /\ req'[c].sequence = nextSeq /\ req'[c].thread = c
      BY <2>2 DEF Begin, StateType
    <3>2. \A t \in Live : t.sequence \in Nat /\ t.sequence < nextSeq
      BY <1>2 DEF SequenceInv, Timer
    <3>3. \A b \in Thread : pc[b] = "send" => req[b].sequence \in Nat /\ req[b].sequence < nextSeq
      BY DEF SequenceInv, StateType, Timer
    <3> QED
      BY <1>0, <1>1, <1>4, <3>1, <3>2, <3>3 DEF SequenceInv, Older, Range
  <2>3. pc'[c] = "send" \/ nextSeq' # nextSeq
          => \E i \in TimerId, d \in Delay : \E r : Begin(c, i, d, r)
    BY DEF Call, Return, ScheduleTimeout, ScheduleInterval, Send, Cancel, CancelWithAck,
            CancelAcked, Clear, ClearFired, ClearFiredTimers, ClearWithAck, ClearLock, ClearAcked,
            MarkTimerFired, MarkWake, PollFiredTimers, HasNoFiredTimers, WaitTimeout, Unpark,
            Shutdown, ShutdownWithAck, ShutdownAcked, ShutdownClosed, Goto, clientVars, StateType
  <2> QED
    BY <2>1, <2>2, <2>3
<1> QED
  BY <1>3, <1>4, CallerLive

\* The worker takes the commands in the order of the channel.
LEMMA WorkerSequence ==
  ASSUME StateType, WorkerInv, SequenceInv, Worker
  PROVE  SequenceInv'
<1>1. UNCHANGED <<pc, req, nextSeq>>
  BY DEF Worker, WorkerLoop, SleepElapsed, ReceiveCommand, Drained, PopDue, Reschedule,
         Publish, WorkerWake, Stop, clientVars
<1>2. /\ \A t \in Live' : t.sequence < nextSeq'
      /\ \A c \in Thread : pc'[c] = "send" =>
           req'[c].thread = c /\ req'[c].sequence < nextSeq' /\ \A t \in Live' : Older(t, req'[c])
      /\ \A b, c \in Thread :
           pc'[b] = "send" /\ pc'[c] = "send" /\ req'[b].sequence = req'[c].sequence => b = c
  BY <1>1, WorkerLive DEF SequenceInv, Older
<1>3. CASE ReceiveCommand
  <2>1. /\ Len(cmds) \in Nat \ {0} /\ DOMAIN cmds = 1..Len(cmds) /\ DOMAIN cmds' = 1..(Len(cmds) - 1)
        /\ Head(cmds) = cmds[1]
        /\ \A n \in DOMAIN cmds' : n + 1 \in DOMAIN cmds /\ cmds'[n] = cmds[n + 1]
    BY <1>3, TailCommands DEF ReceiveCommand
  <2>2. \A t \in scheduled' : t \in scheduled \/ (cmds[1].op = "schedule" /\ t = cmds[1].timer)
    BY <1>3, <2>1 DEF ReceiveCommand, HandleCommand, Arm, Disarm, DisarmAll
  <2>3. batch' = batch
    BY <1>3 DEF ReceiveCommand
  <2> QED
    <3>1. \A m, n \in DOMAIN cmds' : m < n /\ cmds'[m].op = "schedule" /\ cmds'[n].op = "schedule"
            => Older(cmds'[m].timer, cmds'[n].timer)
      BY <2>1 DEF SequenceInv
    <3>2. ASSUME NEW n \in DOMAIN cmds', cmds'[n].op = "schedule",
                 NEW t \in (scheduled \cup Range(batch))'
          PROVE  Older(t, cmds'[n].timer)
      <4>1. n + 1 \in DOMAIN cmds /\ cmds'[n] = cmds[n + 1] /\ 1 \in DOMAIN cmds /\ 1 < n + 1
        BY <2>1, <3>2
      <4>2. t \in scheduled \cup Range(batch) \/ (cmds[1].op = "schedule" /\ t = cmds[1].timer)
        BY <2>2, <2>3, <3>2 DEF Range
      <4> QED
        BY <3>2, <4>1, <4>2 DEF SequenceInv
    <3> QED
      BY <1>2, <3>1, <3>2 DEF SequenceInv
<1>4. CASE Stop
  BY <1>2, <1>4 DEF Stop, SequenceInv
<1>5. CASE ~ReceiveCommand /\ ~Stop
  <2>1. cmds' = cmds
    BY <1>5 DEF Worker, WorkerLoop, SleepElapsed, Drained, PopDue, Reschedule, Publish, WorkerWake
  <2>2. \A t \in scheduled' \cup Range(batch)' : \E u \in scheduled \cup Range(batch) :
          u.thread = t.thread /\ u.sequence = t.sequence
    <3>1. CASE WorkerLoop \/ SleepElapsed \/ Drained \/ WorkerWake
      BY <3>1 DEF WorkerLoop, SleepElapsed, Drained, WorkerWake, Range
    <3>2. CASE PopDue
      <4>1. /\ scheduled' \subseteq scheduled
            /\ batch' = batch \/ \E t \in scheduled : batch' = Append(batch, t)
        BY <3>2 DEF PopDue
      <4>2. \A t \in scheduled : batch' = Append(batch, t) => Range(batch)' = Range(batch) \cup {t}
        BY AppendRange DEF StateType
      <4> QED
        BY <4>1, <4>2 DEF Range
    <3>3. CASE Reschedule
      <4>1. /\ batch' = batch
            /\ \A u \in scheduled' :
                 u \in scheduled \/ \E t \in Repeating : \E at : u = Rearmed(t, at)
        BY <3>3 DEF Reschedule
      <4> QED
        BY <4>1, RearmedFields DEF Range
    <3>4. CASE Publish
      <4>1. scheduled' = scheduled /\ Range(batch)' = {}
        BY <3>4 DEF Publish, Range
      <4> QED
        BY <4>1
    <3> QED
      BY <1>5, <3>1, <3>2, <3>3, <3>4 DEF Worker
  <2> QED
    BY <1>2, <2>1, <2>2 DEF SequenceInv, Older
<1> QED
  BY <1>3, <1>4, <1>5

\* The order of the sequence numbers holds for every instance.
LEMMA SequenceInvariant == Spec => []SequenceInv
<1>1. Init => SequenceInv
  BY DEF Init, SequenceInv, Live, Queued, Range
<1>2. StateType /\ WorkerInv /\ SequenceInv /\ [Next]_vars => SequenceInv'
  <2> SUFFICES ASSUME StateType, WorkerInv, SequenceInv, Tick \/ UNCHANGED vars PROVE SequenceInv'
    BY CallerSequence, WorkerSequence DEF Next
  <2> QED
    BY DEF Tick, vars, workerVars, clientVars, SequenceInv, Live, Queued, Range, Older
<1> QED
  BY <1>1, <1>2, StateTypeInvariant, WorkerInvariant, PTL DEF Spec

\* fire_due_timers pops a timer only after every timer of its thread that was
\* requested earlier for the same or an earlier deadline, the ones still in the
\* channel included.
THEOREM AlwaysFiresInOrder == Spec => FiresInOrder
<1>1. StateType /\ WorkerInv /\ SequenceInv /\ [Next]_vars =>
        [\A r \in Range(batch') \ Range(batch) : \A u \in Live \ Range(batch) :
           u.thread = r.thread /\ u.sequence < r.sequence => u.deadline > r.deadline]_vars
  <2> SUFFICES ASSUME StateType, WorkerInv, SequenceInv, [Next]_vars,
                      NEW r \in Range(batch') \ Range(batch), NEW u \in Live \ Range(batch),
                      u.thread = r.thread, u.sequence < r.sequence
               PROVE  u.deadline > r.deadline
    OBVIOUS
  <2>1. CASE batch' = batch \/ batch' = <<>>
    BY <2>1 DEF Range
  <2>2. CASE PopDue
    <3>1. PICK k \in heap :
            /\ IsFirst(k)
            /\ batch' = batch \/ \E t \in scheduled : t.id = k[3] /\ batch' = Append(batch, t)
      BY <2>2 DEF PopDue
    <3>2. PICK t \in scheduled : t.id = k[3] /\ batch' = Append(batch, t)
      BY <2>1, <3>1
    <3>3. r = t /\ r \in scheduled
      <4>1. Range(batch') = Range(batch) \cup {t}
        BY <3>2, AppendRange DEF StateType
      <4> QED
        BY <4>1
    <3>4. k = Key(r)
      BY <3>1, <3>2, <3>3 DEF WorkerInv, HeapMatchesMap, Key
    <3>5. u \notin Queued
      <4>1. SUFFICES ASSUME u \in Queued PROVE FALSE
        OBVIOUS
      <4>2. r.sequence \in Nat /\ u.sequence \in Nat
        BY <3>3, LiveTimer DEF Live, Timer
      <4>3. Older(r, u)
        BY <3>3, <4>1 DEF Queued, SequenceInv
      <4> QED
        BY <4>2, <4>3 DEF Older
    <3>6. u \in scheduled
      BY <3>5 DEF Live
    <3>7. Key(u) \in heap /\ Key(u) # k
      BY <3>4, <3>6, SMTT(30) DEF WorkerInv, HeapMatchesMap, Key, StateType, Timer
    <3>8. Before(k, Key(u))
      BY <3>1, <3>7 DEF IsFirst
    <3> QED
      BY <3>3, <3>4, <3>6, <3>8 DEF Before, Key, StateType, Timer
  <2>3. batch' = batch \/ batch' = <<>> \/ PopDue
    BY CallersLeaveWorkerAlone
    DEF Next, Tick, Worker, WorkerLoop, SleepElapsed, ReceiveCommand, Drained, Reschedule,
        Publish, WorkerWake, Stop, workerVars, vars
  <2> QED
    BY <2>1, <2>2, <2>3
<1> QED
  BY <1>1, SequenceInvariant, StateTypeInvariant, WorkerInvariant, PTL DEF Spec, FiresInOrder

-----------------------------------------------------------------------------
(* What fire_due_timers holds between its first pop and the publication *)

\* No two timers of the worker have one sequence number, except a timer of the
\* batch and what it was re-armed as.
UniqueSequence ==
  /\ \A t, u \in scheduled : t.sequence = u.sequence => t = u
  /\ \A m, n \in DOMAIN batch : batch[m].sequence = batch[n].sequence => m = n
  /\ wpc = "fire" => \A n \in DOMAIN batch, t \in scheduled : t.sequence # batch[n].sequence

\* The batch is sorted and due, and holds what comes before everything in the map.
BatchSorted ==
  /\ \A m, n \in DOMAIN batch : m < n => Service!InOrder(batch[m], batch[n])
  /\ wpc = "fire" => \A n \in DOMAIN batch, t \in scheduled : Service!InOrder(batch[n], t)
  /\ wpc \in {"fire", "publish"} =>
       fireNow <= now /\ \A n \in DOMAIN batch : batch[n].deadline <= fireNow

\* What the re-insertion has put in the map for the timers of the batch.
Reinserted == {t \in scheduled : \E b \in Range(batch) : b.sequence = t.sequence}

\* Until the publication the map holds, for the repeating timers of the batch,
\* what the service leaves of them, each at a moment since the firing began.
BatchRearmed ==
  wpc = "publish" =>
    /\ batch # <<>>
    /\ \E at \in [Range(batch) -> fireNow..now] :
         Reinserted = UNION {Service!Again(b, at[b]) : b \in Range(batch)}

\* The clauses that only the refinement needs.
FireInv == UniqueSequence /\ BatchSorted /\ BatchRearmed

\* The types the arguments about order use.
LEMMA FireTypes ==
  ASSUME StateType
  PROVE  /\ \A n \in DOMAIN batch : batch[n] \in Timer
         /\ \A t \in Timer : t.sequence \in Nat /\ t.deadline \in Nat /\ t.delay \in Nat
                               /\ t.id \in TimerId /\ t.remaining \in 1..U32Max
         /\ now \in Nat /\ fireNow \in Nat /\ U32Max \in Nat
         /\ batch \in Seq(Timer) /\ DOMAIN batch = 1..Len(batch) /\ Len(batch) \in Nat
<1>1. /\ \A n \in DOMAIN batch : batch[n] \in Timer
      /\ batch \in Seq(Timer) /\ DOMAIN batch = 1..Len(batch) /\ Len(batch) \in Nat
  BY DEF StateType
<1>2. \A t \in Timer : t.sequence \in Nat /\ t.deadline \in Nat /\ t.delay \in Nat
                         /\ t.id \in TimerId /\ t.remaining \in 1..U32Max
  BY DEF Timer
<1>3. now \in Nat /\ fireNow \in Nat /\ U32Max \in Nat
  BY ManagerAssumption DEF StateType
<1> QED
  BY <1>1, <1>2, <1>3

\* Commands are handled while there is no batch; a new timer has a new number.
LEMMA ReceiveFire ==
  ASSUME StateType, WorkerInv, SequenceInv, FireInv, ReceiveCommand
  PROVE  FireInv'
<1>1. batch = <<>> /\ batch' = <<>> /\ wpc' \in {"drain", "stopping"}
  BY DEF ReceiveCommand, HandleCommand, WorkerInv, BatchApart
<1>2. \A t, u \in scheduled' : t.sequence = u.sequence => t = u
  <2>1. Head(cmds) = cmds[1] /\ 1 \in DOMAIN cmds
    BY DEF ReceiveCommand, StateType
  <2>2. \A t \in scheduled' : t \in scheduled \/ (cmds[1].op = "schedule" /\ t = cmds[1].timer)
    BY <2>1 DEF ReceiveCommand, HandleCommand, Arm, Disarm, DisarmAll
  <2> QED
    BY <2>1, <2>2 DEF FireInv, UniqueSequence, SequenceInv, Older
<1> QED
  BY <1>1, <1>2 DEF FireInv, UniqueSequence, BatchSorted, BatchRearmed

\* The first key of the heap comes after the batch and before the rest.
LEMMA PopFire ==
  ASSUME StateType, WorkerInv, FireInv, PopDue
  PROVE  FireInv'
<1>1. PICK k \in heap : /\ IsFirst(k) /\ k[1] <= fireNow
                        /\ \/ \E t \in scheduled : /\ t.id = k[3]
                                                   /\ scheduled' = scheduled \ {t}
                                                   /\ batch' = Append(batch, t)
                           \/ ~(\E t \in scheduled : t.id = k[3]) /\ UNCHANGED <<scheduled, batch>>
  BY DEF PopDue
<1>2. PICK t \in scheduled : /\ t.id = k[3]
                             /\ scheduled' = scheduled \ {t} /\ batch' = Append(batch, t)
  BY <1>1 DEF WorkerInv, HeapMatchesMap, Key
<1>3. k = Key(t)
  BY <1>1, <1>2 DEF WorkerInv, HeapMatchesMap, Key
<1>4. /\ DOMAIN batch' = 1..(Len(batch) + 1) /\ DOMAIN batch = 1..Len(batch) /\ Len(batch) \in Nat
      /\ batch'[Len(batch) + 1] = t
      /\ \A n \in DOMAIN batch : batch'[n] = batch[n]
  BY <1>2 DEF StateType
<1>5. wpc = "fire" /\ wpc' = "fire" /\ UNCHANGED <<now, fireNow>>
  BY DEF PopDue
<1>6. UniqueSequence'
  BY <1>2, <1>4, <1>5 DEF FireInv, UniqueSequence
<1>7. ASSUME NEW u \in scheduled' PROVE Service!InOrder(t, u)
  <2>1. Key(u) \in heap /\ Key(u) # k
    BY <1>2, <1>3, <1>7 DEF WorkerInv, HeapMatchesMap, Key
  <2>2. Before(k, Key(u))
    BY <1>1, <2>1 DEF IsFirst
  <2>3. t.sequence # u.sequence
    BY <1>2, <1>7 DEF FireInv, UniqueSequence
  <2>4. u \in Timer /\ t \in Timer
    BY <1>2, <1>7 DEF StateType
  <2> QED
    BY <1>3, <2>2, <2>3, <2>4, FireTypes DEF Before, Key, Service!InOrder
<1>8. t.deadline <= fireNow
  BY <1>1, <1>3 DEF Key
<1>9. \A m, n \in DOMAIN batch' : m < n => Service!InOrder(batch'[m], batch'[n])
  BY <1>4, <1>5 DEF FireInv, BatchSorted
<1>10. \A n \in DOMAIN batch', u \in scheduled' : Service!InOrder(batch'[n], u)
  BY <1>2, <1>4, <1>5, <1>7 DEF FireInv, BatchSorted
<1>11. BatchSorted'
  BY <1>4, <1>5, <1>8, <1>9, <1>10 DEF FireInv, BatchSorted, Service!InOrder
<1> QED
  BY <1>5, <1>6, <1>11 DEF FireInv, BatchRearmed

\* The re-insertion changes nothing the service sees.
LEMMA RescheduleFire ==
  ASSUME StateType, WorkerInv, FireInv, Reschedule
  PROVE  /\ FireInv'
         /\ ServiceLive' = ServiceLive
<1>0. PICK at \in Readings :
        LET back == {Rearmed(t, at[t]) : t \in Repeating}
        IN scheduled' = {u \in scheduled : \A t \in back : t.id # u.id} \cup back
  BY DEF Reschedule
<1> DEFINE again == {Rearmed(t, at[t]) : t \in Repeating}
<1>1. /\ wpc = "fire" /\ wpc' = (IF batch = <<>> THEN "loop" ELSE "publish")
      /\ UNCHANGED <<batch, now, fireNow, cmds>>
      /\ scheduled' = {u \in scheduled : \A t \in again : t.id # u.id} \cup again
  BY <1>0 DEF Reschedule
<1>2. \A t \in Repeating : /\ t \in Range(batch)
                           /\ Rearmed(t, at[t]).id = t.id
                           /\ Rearmed(t, at[t]).sequence = t.sequence
  BY RearmedFields
<1>3. scheduled' = scheduled \cup again
  <2>1. \A t \in Repeating, u \in scheduled : t.id # u.id
    BY <1>1 DEF Repeating, Range, WorkerInv, BatchApart
  <2> QED
    BY <1>1, <1>2, <2>1
<1>4. \A t \in scheduled, b \in Range(batch) : b.sequence # t.sequence
  BY <1>1 DEF FireInv, UniqueSequence, Range
<1>5. \A s, t \in Range(batch) : s.sequence = t.sequence => s = t
  BY DEF FireInv, UniqueSequence, Range
<1>6. UniqueSequence'
  <2>1. \A t, u \in scheduled' : t.sequence = u.sequence => t = u
    BY <1>2, <1>3, <1>4, <1>5 DEF FireInv, UniqueSequence
  <2> QED
    BY <1>1, <2>1 DEF FireInv, UniqueSequence
<1>7. BatchSorted'
  BY <1>1 DEF FireInv, BatchSorted, Service!InOrder
<1>8. Reinserted' = again
  BY <1>1, <1>2, <1>3, <1>4 DEF Reinserted, Range
<1> DEFINE read == [b \in Range(batch) |-> IF b \in Repeating THEN at[b] ELSE now]
<1>9. read \in [Range(batch) -> fireNow..now]
  <2>1. now \in fireNow..now
    BY <1>1, FireTypes DEF FireInv, BatchSorted
  <2>2. \A b \in Repeating : at[b] \in fireNow..now
    BY DEF Readings
  <2> QED
    BY <2>1, <2>2
<1>12. again = UNION {Service!Again(b, read[b]) : b \in Range(batch)}
  <2>1. \A b \in Range(batch) : b.remaining \in 1..U32Max
    BY FireTypes DEF Range
  <2>2. \A b \in Range(batch) : b \in Repeating <=> b.remaining # 1
    BY <2>1, FireTypes DEF Repeating
  <2>3. ASSUME NEW b \in Repeating PROVE Service!Again(b, read[b]) = {Rearmed(b, at[b])}
    <3>1. b \in Range(batch) /\ b.remaining # 1
      BY <1>2, <2>2
    <3>2. read[b] = at[b]
      BY <3>1
    <3> QED
      BY <3>1, <3>2, Zenon DEF Rearmed, Service!Again
  <2>4. \A b \in Range(batch) \ Repeating : Service!Again(b, read[b]) = {}
    BY <2>2, Zenon DEF Service!Again
  <2>5. Repeating \subseteq Range(batch)
    BY DEF Repeating
  <2> HIDE DEF read
  <2> QED
    BY <2>3, <2>4, <2>5
<1>10. BatchRearmed'
  <2>1. Range(batch)' = Range(batch)
    BY <1>1 DEF Range
  <2>2. \E r \in [Range(batch) -> fireNow..now] :
          again = UNION {Service!Again(b, r[b]) : b \in Range(batch)}
    BY <1>9, <1>12
  <2> QED
    BY <1>1, <1>8, <2>1, <2>2 DEF BatchRearmed
<1>11. ServiceLive' = ServiceLive
  <2>1. Range(batch)' = Range(batch)
    BY <1>1 DEF Range
  <2>2. {t \in scheduled' : \A b \in Range(batch) : b.sequence # t.sequence}
          = {t \in scheduled : \A b \in Range(batch) : b.sequence # t.sequence}
    BY <1>2, <1>3, <1>4
  <2> QED
    BY <2>1, <2>2 DEF ServiceLive
<1> QED
  BY <1>6, <1>7, <1>10, <1>11 DEF FireInv

\* Every step keeps the clauses; the clock only moves the moment away.
LEMMA FireStep == StateType /\ WorkerInv /\ SequenceInv /\ FireInv /\ [Next]_vars => FireInv'
<1> SUFFICES ASSUME StateType, WorkerInv, SequenceInv, FireInv, [Next]_vars PROVE FireInv'
  OBVIOUS
<1>1. CASE UNCHANGED <<scheduled, batch, wpc, fireNow>> /\ now' \in Nat /\ now <= now'
  <2>1. BatchSorted'
    BY <1>1, FireTypes DEF FireInv, BatchSorted, Service!InOrder
  <2>2. BatchRearmed'
    <3>1. Range(batch)' = Range(batch) /\ Reinserted' = Reinserted
      BY <1>1 DEF Range, Reinserted
    <3>2. fireNow..now \subseteq fireNow'..now'
      BY <1>1, FireTypes
    <3>3. \A at \in [Range(batch) -> fireNow..now] : at \in [Range(batch) -> fireNow'..now']
      BY <3>2
    <3> QED
      BY <1>1, <3>1, <3>3 DEF FireInv, BatchRearmed
  <2> QED
    BY <1>1, <2>1, <2>2 DEF FireInv, UniqueSequence
<1>2. CASE WorkerLoop \/ SleepElapsed \/ Drained \/ WorkerWake \/ Stop
  <2>1. /\ UNCHANGED <<scheduled, batch, now>> /\ batch = <<>>
        /\ wpc' # "publish" /\ (wpc' = "fire" => fireNow' = now)
    BY <1>2 DEF WorkerLoop, SleepElapsed, Drained, WorkerWake, Stop, WorkerInv, BatchApart
  <2> QED
    BY <2>1, FireTypes DEF FireInv, UniqueSequence, BatchSorted, BatchRearmed
<1>3. CASE Publish
  <2>1. scheduled' = scheduled /\ batch' = <<>> /\ wpc' = "wake"
    BY <1>3 DEF Publish
  <2> QED
    BY <2>1 DEF FireInv, UniqueSequence, BatchSorted, BatchRearmed
<1>4. CASE Tick \/ UNCHANGED vars \/ \E c \in Thread : Call(c) \/ Return(c)
  <2>1. UNCHANGED <<scheduled, batch, wpc, fireNow>>
    BY <1>4, CallersLeaveWorkerAlone DEF Tick, vars, workerVars
  <2>2. now' = now \/ now' = now + 1
    BY <1>4, ZenonT(60)
    DEF Tick, vars, Call, Return, ScheduleTimeout, ScheduleInterval, Begin, Send, Cancel,
        CancelWithAck, CancelAcked, Clear, ClearFired, ClearFiredTimers, ClearWithAck, ClearLock,
        ClearAcked, MarkTimerFired, MarkWake, PollFiredTimers, HasNoFiredTimers, WaitTimeout,
        Unpark, Shutdown, ShutdownWithAck, ShutdownAcked, ShutdownClosed
  <2> QED
    BY <1>1, <2>1, <2>2, FireTypes
<1> QED
  BY <1>2, <1>3, <1>4, ReceiveFire, PopFire, RescheduleFire DEF Next, Worker

\* The clauses hold in every instance.
LEMMA FireInvariant == Spec => []FireInv
<1>1. Init => FireInv
  BY DEF Init, FireInv, UniqueSequence, BatchSorted, BatchRearmed
<1> QED
  BY <1>1, FireStep, SequenceInvariant, StateTypeInvariant, WorkerInvariant, PTL DEF Spec

-----------------------------------------------------------------------------
(* The refinement, one lemma for the callers and one for the worker *)

\* A step that changes nothing the service sees.
LEMMA ServiceStutter ==
  ASSUME UNCHANGED <<now, cmds, fired, ServiceLive, Marking, Status>>
  PROVE  [Service!ServiceNext]_(Service!serviceVars)
  BY DEF Service!serviceVars

\* A command sent is a request of the service: a timer in it has a number of its own.
LEMMA SendImplements ==
  ASSUME StateType, StopInv, SequenceInv, NEW c \in Thread, NEW cmd,
         rxOpen, cmds' = Append(cmds, cmd),
         cmd.op = "schedule" => pc[c] = "send" /\ cmd.timer = req[c],
         UNCHANGED <<now, fired, ServiceLive, Marking, Status>>
  PROVE  Service!Request
<1>1. Status # "stopped"
  BY DEF Status, StopInv
<1>2. Len(cmds) + 1 \in DOMAIN cmds' /\ cmds'[Len(cmds) + 1] = cmd
  BY AppendCommand
<1>3. ServiceLive \cup Service!Waiting \subseteq Live
  BY DEF ServiceLive, Service!Waiting, Live, Queued
<1>4. cmd.op = "schedule" => \A u \in ServiceLive \cup Service!Waiting :
        u.sequence # cmd.timer.sequence
  BY <1>3 DEF SequenceInv, Older
<1>5. \E n \in DOMAIN cmds' :
        /\ cmds' = Append(cmds, cmds'[n])
        /\ cmds'[n].op = "schedule" => \A u \in ServiceLive \cup Service!Waiting :
             u.sequence # cmds'[n].timer.sequence
  BY <1>2, <1>4
<1> QED
  BY <1>1, <1>5 DEF Service!Request

\* A call is a request, takes all, marks, returns from marking, or is nothing.
LEMMA CallerImplements ==
  ASSUME StateType, StopInv, SequenceInv, NEW c \in Thread, Call(c) \/ Return(c)
  PROVE  [Service!ServiceNext]_(Service!serviceVars)
<1>1. UNCHANGED <<ServiceLive, Status>>
  BY CallersLeaveWorkerAlone DEF workerVars, ServiceLive, Status, Range
<1>2. ASSUME pc[c] # "markWake", pc'[c] # "markWake" PROVE Marking' = Marking
  <2>1. \A b \in Thread : pc'[b] = "markWake" <=> pc[b] = "markWake"
    BY <1>2, CallerFrame
  <2> QED
    BY <2>1 DEF Marking
<1>3. ASSUME NEW cmd, rxOpen, cmds' = Append(cmds, cmd), UNCHANGED <<now, fired>>,
             pc[c] # "markWake", pc'[c] # "markWake",
             cmd.op = "schedule" => pc[c] = "send" /\ cmd.timer = req[c]
      PROVE  Service!ServiceNext
  BY <1>1, <1>2, <1>3, SendImplements DEF Service!ServiceNext
<1>4. CASE /\ pc[c] # "markWake" /\ pc'[c] # "markWake" /\ UNCHANGED <<now, cmds>>
           /\ fired' = fired \/ fired' = <<>>
  BY <1>1, <1>2, <1>4, ServiceStutter DEF Service!ServiceNext, Service!TakeAll
<1>5. CASE Send(c)
  <2> DEFINE cmd == [op |-> "schedule", timer |-> req[c]]
  <2>0. UNCHANGED <<now, fired>> /\ pc[c] = "send" /\ pc'[c] = "idle"
    BY <1>5 DEF Send, Goto, StateType
  <2>1. cmds' = cmds \/ (rxOpen /\ cmds' = Append(cmds, cmd))
    <3>1. cmds' = IF CommandQueueSize # 0 /\ CanSend THEN Append(cmds, cmd) ELSE cmds
      BY <1>5 DEF Send, TrySendSchedule
    <3>2. CanSend => rxOpen
      BY DEF CanSend
    <3> HIDE DEF cmd
    <3> QED
      BY <3>1, <3>2
  <2>2. cmd.timer = req[c]
    OBVIOUS
  <2> HIDE DEF cmd
  <2> QED
    BY <1>3, <1>4, <2>0, <2>1, <2>2
<1>6. CASE /\ \/ \E i \in TimerId : Cancel(c, i) \/ CancelWithAck(c, i)
              \/ Clear(c) \/ ClearWithAck(c) \/ Shutdown(c) \/ ShutdownWithAck(c)
  <2>1. /\ UNCHANGED <<now, fired>> /\ pc[c] = "idle" /\ pc'[c] # "markWake"
        /\ \/ cmds' = cmds
           \/ rxOpen /\ \E cmd : cmd.op # "schedule" /\ cmds' = Append(cmds, cmd)
    BY <1>6
    DEF Cancel, CancelWithAck, Clear, ClearWithAck, Shutdown, ShutdownWithAck, TrySend,
        TrySendSchedule, CanSend, Goto, StateType, clientVars
  <2> QED
    BY <1>3, <1>4, <2>1
<1>7. CASE \E i \in TimerId : MarkTimerFired(c, i)
  <2>1. PICK i \in TimerId : MarkTimerFired(c, i)
    BY <1>7
  <2>2. /\ pc[c] = "idle" /\ pc'[c] = "markWake" /\ UNCHANGED <<now, cmds>>
        /\ fired' = Append(fired, i)
    BY <2>1 DEF MarkTimerFired, Goto, StateType
  <2>3. c \in Marking' \ Marking /\ Marking' = Marking \cup {c}
    BY <2>2, CallerFrame DEF Marking
  <2> QED
    BY <1>1, <2>2, <2>3 DEF Service!ServiceNext, Service!Mark
<1>8. CASE MarkWake(c)
  <2>1. pc[c] = "markWake" /\ pc'[c] = "idle" /\ UNCHANGED <<now, cmds, fired>>
    BY <1>8 DEF MarkWake, Goto, StateType
  <2>2. c \in Marking /\ Marking' = Marking \ {c}
    BY <2>1, CallerFrame DEF Marking
  <2> QED
    BY <1>1, <2>1, <2>2 DEF Service!ServiceNext, Service!MarkReturns
<1>9. CASE \/ \E i \in TimerId, d \in Delay : ScheduleTimeout(c, i, d)
           \/ \E i \in TimerId, d \in Delay, n \in Repeat : ScheduleInterval(c, i, d, n)
           \/ ClearFiredTimers(c) \/ PollFiredTimers(c) \/ HasNoFiredTimers(c)
           \/ CancelAcked(c) \/ ClearFired(c) \/ ClearLock(c) \/ ClearAcked(c)
           \/ WaitTimeout(c) \/ Unpark(c) \/ ShutdownAcked(c) \/ ShutdownClosed(c)
  BY <1>4, <1>9
  DEF ScheduleTimeout, ScheduleInterval, Begin, CancelAcked, ClearFired, ClearFiredTimers,
      ClearLock, ClearAcked, PollFiredTimers, HasNoFiredTimers, WaitTimeout, Unpark,
      ShutdownAcked, ShutdownClosed, Goto, StateType, clientVars
<1> QED
  BY <1>5, <1>6, <1>7, <1>8, <1>9 DEF Call, Return

\* The extension of fired_timers is the publication of a group.
LEMMA PublishImplements ==
  ASSUME StateType, WorkerInv, FireInv, Publish
  PROVE  Service!PublishGroup
<1> DEFINE group == Range(batch)
<1>1. /\ wpc = "publish" /\ wpc' = "wake" /\ UNCHANGED <<now, scheduled, cmds, pc>>
      /\ batch' = <<>>
      /\ fired' = fired \o [n \in DOMAIN batch |-> batch[n].id]
  BY DEF Publish, clientVars
<1>2. PICK at \in [group -> fireNow..now] :
        Reinserted = UNION {Service!Again(b, at[b]) : b \in group}
  BY <1>1 DEF FireInv, BatchRearmed
<1>3. /\ \A b \in group : b.deadline <= fireNow /\ b.deadline \in Nat
      /\ fireNow \in Nat /\ now \in Nat /\ fireNow <= now
  BY <1>1, FireTypes DEF FireInv, BatchSorted, Range
<1>4. at \in [group -> 0..now] /\ \A t \in group : t.deadline <= at[t]
  <2>1. \A t \in group : at[t] \in 0..now /\ t.deadline <= at[t]
    BY <1>2, <1>3
  <2> QED
    BY <1>2, <2>1
<1>5. group \in SUBSET {t \in ServiceLive : t.deadline <= now}
  BY <1>3 DEF ServiceLive
<1>6. group # {}
  <2>1. batch # <<>> /\ batch \in Seq(Timer)
    BY <1>1, FireTypes DEF FireInv, BatchRearmed
  <2>2. 1 \in DOMAIN batch
    BY <2>1
  <2> QED
    BY <2>2 DEF Range
<1>7. Cardinality(group) = Len(batch) /\ batch \in [1..Len(batch) -> group]
  <2>1. batch \in [1..Len(batch) -> group] /\ Len(batch) \in Nat
    BY FireTypes DEF Range
  <2>2. batch \in Bijection(1..Len(batch), group)
    <3>1. \A m, n \in 1..Len(batch) : batch[m] = batch[n] => m = n
      BY FireTypes DEF FireInv, UniqueSequence
    <3>2. \A b \in group : \E n \in 1..Len(batch) : batch[n] = b
      BY FireTypes DEF Range
    <3> QED
      BY <2>1, <3>1, <3>2 DEF Bijection, Injection, IsInjective, Surjection
  <2>3. ExistsBijection(1..Len(batch), group)
    BY <2>2 DEF ExistsBijection
  <2> QED
    BY <2>1, <2>3, FS_CountingElements
<1>8. \E order \in [1..Cardinality(group) -> group] :
        /\ \A m, n \in DOMAIN order : m < n => Service!InOrder(order[m], order[n])
        /\ fired' = fired \o [n \in DOMAIN order |-> order[n].id]
  BY <1>1, <1>7 DEF FireInv, BatchSorted
<1>9. ServiceLive' = (ServiceLive \ group) \cup UNION {Service!Again(t, at[t]) : t \in group}
  <2>1. ServiceLive' = scheduled
    BY <1>1 DEF ServiceLive, Range
  <2>2. ServiceLive \ group = {t \in scheduled : \A b \in group : b.sequence # t.sequence}
    BY DEF ServiceLive
  <2>3. scheduled = {t \in scheduled : \A b \in group : b.sequence # t.sequence} \cup Reinserted
    BY DEF Reinserted
  <2> QED
    BY <1>2, <2>1, <2>2, <2>3
<1> HIDE DEF group
<1>10. \E a \in [group -> 0..now] :
         /\ \A t \in group : t.deadline <= a[t]
         /\ ServiceLive' = (ServiceLive \ group) \cup UNION {Service!Again(t, a[t]) : t \in group}
  BY <1>4, <1>9
<1>11. UNCHANGED <<now, cmds, Marking, Status>>
  BY <1>1 DEF Marking, Status
<1>12. \E g \in SUBSET {t \in ServiceLive : t.deadline <= now} :
         /\ g # {}
         /\ \E order \in [1..Cardinality(g) -> g] :
              /\ \A m, n \in DOMAIN order : m < n => Service!InOrder(order[m], order[n])
              /\ fired' = fired \o [n \in DOMAIN order |-> order[n].id]
         /\ \E a \in [g -> 0..now] :
              /\ \A t \in g : t.deadline <= a[t]
              /\ ServiceLive' = (ServiceLive \ g) \cup UNION {Service!Again(t, a[t]) : t \in g}
  <2> WITNESS group \in SUBSET {t \in ServiceLive : t.deadline <= now}
  <2> QED
    BY <1>6, <1>8, <1>10
<1>13. \A S : Service!Cardinality(S) = Cardinality(S)
  BY Zenon DEF Service!Cardinality, Cardinality
<1> QED
  BY <1>11, <1>12, <1>13 DEF Service!PublishGroup

\* A command handled is a request served: no batch exists at that moment.
LEMMA ReceiveImplements ==
  ASSUME StateType, WorkerInv, ReceiveCommand
  PROVE  Service!Serve
<1>1. PICK r : r = Head(cmds)
  OBVIOUS
<1>2. /\ wpc \in {"select", "drain"} /\ cmds # <<>> /\ cmds' = Tail(cmds)
      /\ batch = <<>> /\ batch' = <<>> /\ UNCHANGED <<now, fired, pc>> /\ HandleCommand(r)
  BY <1>1 DEF ReceiveCommand, WorkerInv, BatchApart, clientVars
<1>3. ServiceLive = scheduled /\ ServiceLive' = scheduled'
  BY <1>2 DEF ServiceLive, Range
<1>4. Status = "open" /\ Marking' = Marking
  BY <1>2 DEF Status, Marking
<1>5. Status' = IF r.op \in {"shutdown", "shutdownAck"} THEN "stopping" ELSE "open"
  BY <1>2 DEF HandleCommand, Status
<1>6. \/ /\ r.op = "schedule"
         /\ scheduled' = {t \in scheduled : t.id # r.timer.id} \cup {r.timer}
      \/ /\ r.op \in {"cancel", "cancelAck"}
         /\ scheduled' = {t \in scheduled : t.id # r.id}
      \/ /\ r.op \in {"clear", "clearAck", "shutdown", "shutdownAck"}
         /\ scheduled' = {}
  <2>1. CASE r.op = "schedule" /\ Arm(r.timer)
    BY <2>1 DEF Arm
  <2>2. CASE r.op \in {"cancel", "cancelAck"} /\ Disarm(r.id)
    BY <2>2 DEF Disarm
  <2>3. CASE r.op \in {"clear", "clearAck", "shutdown", "shutdownAck"} /\ DisarmAll
    BY <2>3 DEF DisarmAll
  <2> QED
    BY <1>2, <2>1, <2>2, <2>3 DEF HandleCommand
<1> QED
  BY <1>1, <1>2, <1>3, <1>4, <1>5, <1>6 DEF Service!Serve

\* A step of the worker serves a request, publishes a group, stops or is internal.
LEMMA WorkerImplements ==
  ASSUME StateType, WorkerInv, FireInv, Worker
  PROVE  [Service!ServiceNext]_(Service!serviceVars)
<1>1. CASE WorkerLoop \/ SleepElapsed \/ Drained \/ WorkerWake
  <2>1. /\ UNCHANGED <<now, fired, cmds, scheduled, batch, pc>>
        /\ wpc \notin {"stopping", "stopped"} /\ wpc' \notin {"stopping", "stopped"}
    BY <1>1 DEF WorkerLoop, SleepElapsed, Drained, WorkerWake, clientVars
  <2> QED
    BY <2>1, ServiceStutter DEF ServiceLive, Range, Marking, Status
<1>2. CASE ReceiveCommand
  BY <1>2, ReceiveImplements DEF Service!ServiceNext
<1>3. CASE PopDue
  <2>1. /\ wpc = "fire" /\ UNCHANGED <<now, fired, cmds, wpc, pc>>
        /\ \/ UNCHANGED <<scheduled, batch>>
           \/ \E t \in scheduled : scheduled' = scheduled \ {t} /\ batch' = Append(batch, t)
    BY <1>3 DEF PopDue, clientVars
  <2>2. \A t \in scheduled, b \in Range(batch) : b.sequence # t.sequence
    BY <2>1 DEF FireInv, UniqueSequence, Range
  <2>3. \A t, u \in scheduled : t.sequence = u.sequence => t = u
    BY DEF FireInv, UniqueSequence
  <2>4. ServiceLive = Range(batch) \cup scheduled
    BY <2>2 DEF ServiceLive
  <2>5. ASSUME NEW t \in scheduled, scheduled' = scheduled \ {t}, batch' = Append(batch, t)
        PROVE  ServiceLive' = ServiceLive
    <3>1. Range(batch') = Range(batch) \cup {t}
      BY <2>5, AppendRange DEF StateType
    <3>2. \A u \in scheduled', b \in Range(batch') : b.sequence # u.sequence
      BY <2>2, <2>3, <2>5, <3>1
    <3>3. ServiceLive' = Range(batch') \cup scheduled'
      BY <3>2 DEF ServiceLive
    <3> QED
      BY <2>4, <2>5, <3>1, <3>3
  <2>6. CASE UNCHANGED <<scheduled, batch>>
    BY <2>1, <2>6, ServiceStutter DEF ServiceLive, Range, Marking, Status
  <2>7. Marking' = Marking /\ Status' = Status
    BY <2>1 DEF Marking, Status
  <2> QED
    BY <2>1, <2>5, <2>6, <2>7, ServiceStutter
<1>4. CASE Reschedule
  <2>1. /\ UNCHANGED <<now, fired, cmds, pc>>
        /\ wpc \notin {"stopping", "stopped"} /\ wpc' \notin {"stopping", "stopped"}
    BY <1>4 DEF Reschedule, clientVars
  <2>2. Marking' = Marking /\ Status' = Status
    BY <2>1 DEF Marking, Status
  <2> QED
    BY <1>4, <2>1, <2>2, RescheduleFire, ServiceStutter
<1>5. CASE Publish
  BY <1>5, PublishImplements, Zenon DEF Service!ServiceNext
<1>6. CASE Stop
  <2>1. /\ UNCHANGED <<now, fired, scheduled, batch, pc>> /\ cmds' = <<>>
        /\ wpc = "stopping" /\ wpc' = "stopped"
    BY <1>6 DEF Stop, clientVars
  <2>2. /\ Status = "stopping" /\ Status' = "stopped"
        /\ ServiceLive' = ServiceLive /\ Marking' = Marking
    BY <2>1 DEF ServiceLive, Range, Marking, Status
  <2> QED
    BY <2>1, <2>2 DEF Service!ServiceNext, Service!Stopped
<1> QED
  BY <1>1, <1>2, <1>3, <1>4, <1>5, <1>6 DEF Worker

\* AsyncTimerManager implements TimerService for every number of threads, ids,
\* delays, repeat counts and places in the channel: commands take effect in the
\* order of the channel; no timer is published early, out of order in its group
\* or, one-shot, twice; none in force disappears but by a command or by being
\* published; and ids are published otherwise only by mark_timer_fired.
THEOREM ManagerImplementsService == Spec => ImplementsService
<1>1. Init => Service!ServiceInit /\ StopInv
  BY DEF Init, Service!ServiceInit, ServiceLive, Range, Marking, Status, StopInv
<1>2. StateType /\ WorkerInv /\ StopInv /\ SequenceInv /\ FireInv /\ [Next]_vars
        => [Service!ServiceNext]_(Service!serviceVars)
  <2> SUFFICES ASSUME StateType, WorkerInv, StopInv, SequenceInv, FireInv, Tick \/ UNCHANGED vars
               PROVE  [Service!ServiceNext]_(Service!serviceVars)
    BY CallerImplements, WorkerImplements DEF Next
  <2>1. UNCHANGED <<cmds, fired, ServiceLive, Marking, Status>>
    BY DEF Tick, vars, workerVars, clientVars, ServiceLive, Range, Marking, Status
  <2>2. now' = now \/ (now' = now + 1 /\ now \in Nat)
    BY DEF Tick, vars, StateType
  <2> QED
    BY <2>1, <2>2 DEF Service!ServiceNext, Service!PassTime, Service!serviceVars
<1>3. StateType /\ WorkerInv /\ StopInv /\ [Next]_vars => StopInv'
  BY StopStep
<1> QED
  BY <1>1, <1>2, <1>3, FireInvariant, SequenceInvariant, StateTypeInvariant, WorkerInvariant, PTL
  DEF Spec, ImplementsService, Service!ServiceSpec
=============================================================================
