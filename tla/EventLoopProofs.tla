-------------------------- MODULE EventLoopProofs --------------------------
(***************************************************************************)
(* What the timer registries and the event loop of execute_code keep to    *)
(* with any number of threads, timers, calls and executions: no cleared    *)
(* timer runs, a timeout runs once, a registered timer is not lost on its  *)
(* way, and the loop returns only when it is drained.                      *)
(***************************************************************************)
EXTENDS EventLoop, FiniteSetTheorems, SequenceTheorems, TLAPS

\* A timer that was created.
Created(i) == home[i] # NoHome

-----------------------------------------------------------------------------
(* The inductive invariant *)

\* Ids are given out once. What is registered of a timer belongs to the thread
\* and has the type it was created with, and an immediate has no entry in
\* TIMER_CALLBACKS.
RegistryInv ==
  /\ \A i \in TimerId : Created(i) => i < nextId
  /\ \A i \in TimerId : meta[i] = NoMeta \/ (Created(i) /\ meta[i].type = home[i].type)
  /\ \A t \in Thread : \A i \in owned[t] : Created(i) /\ home[i].thread = t
  /\ \A i \in cb : /\ Created(i) /\ home[i].type \in {"timeout", "interval"}
                   /\ meta[i].type = home[i].type /\ i \in owned[home[i].thread]

\* A callback that was cleared, or taken out to run, is not stored again.
CallbackInv ==
  \A i \in cleared \cup ran : Created(i) /\ i \notin cb

\* A thread runs JavaScript only where the loop calls it. The callback of a
\* timeout is out of TIMER_CALLBACKS while it runs.
RunsAt(t) ==
  /\ run[t].js = "script" <=> pc[t] = "script"
  /\ run[t].js = "tick" => pc[t] \in TickStation
  /\ run[t].js = "micro" => pc[t] \in MicroStation
  /\ run[t].js = "timer" =>
       /\ pc[t] \in TimerStation /\ run[t].id \in TimerId /\ Created(run[t].id)
       /\ run[t].id \in cb => home[run[t].id].type = "interval"
  /\ run[t].js = "immediate" =>
       /\ pc[t] \in CheckStation /\ run[t].id \in TimerId /\ Created(run[t].id)
       /\ home[run[t].id].type = "immediate"

RunInv == \A t \in Thread : RunsAt(t)

\* The setImmediate queues hold immediates.
QueueOf(t) == \A e \in imm[t] : Created(e.id) /\ home[e.id].type = "immediate"

ImmediateInv == \A t \in Thread : QueueOf(t)

\* A batch is empty where it is not being worked on, holds immediates in the
\* check phase, and timers whose callbacks are gone when the runtime is dropped.
BatchOf(t) ==
  /\ pc[t] \notin TimerStation \cup CheckStation \cup {"dropping"} => batch[t] = <<>>
  /\ pc[t] \in CheckStation =>
       \A n \in DOMAIN batch[t] : Created(batch[t][n]) /\ home[batch[t][n]].type = "immediate"
  /\ pc[t] = "dropping" =>
       owned[t] \cap cb = {} /\ \A n \in DOMAIN batch[t] : batch[t][n] \in owned[t]

BatchInv == \A t \in Thread : BatchOf(t)

\* A cancel on its way to the manager is for a timer without callback.
CancelInv ==
  \A n \in DOMAIN cmds : cmds[n].op = "cancel" => Created(cmds[n].id) /\ cmds[n].id \notin cb

LoopInv ==
  TypeOK /\ RegistryInv /\ CallbackInv /\ RunInv /\ ImmediateInv /\ BatchInv /\ CancelInv

\* refresh() and delay() schedule a one-shot timer under the id, which for an
\* interval replaces the repeating one; here no script calls them with intervals.
IntervalsKept == "interval" \in Ops => {"refresh", "delay"} \cap Ops = {}

\* An interval stays scheduled.
Repeating(i) == armed[i] = "repeat" \/ \E n \in DOMAIN cmds : cmds[n] = [op |-> "repeat", id |-> i]

\* A timeout with a callback is on its way.
TimeoutIsTracked == \A i \in cb : home[i].type = "timeout" => Tracked(i)

\* So is an interval, for good: no one-shot schedule for it is in the channel.
IntervalInv ==
  /\ \A i \in cb : home[i].type = "interval" => Repeating(i)
  /\ \A n \in DOMAIN cmds : cmds[n].op = "once" =>
       Created(cmds[n].id) /\ home[cmds[n].id].type # "interval"
  /\ \A i \in TimerId : Created(i) /\ home[i].type = "interval" => "interval" \in Ops

\* A drain limit that never runs out covers every delay.
LimitInv ==
  DrainLimit = Forever => /\ \A t \in Thread : remaining[t] = Forever
                          /\ \A i \in TimerId : meta[i].delay <= Forever

\* The stations after the loop, where execute_code cleans up.
Final == {"tickF", "microF", "checkF", "immediatesF", "exitF"}

\* Every callback of t that is stored is of an unref'd timer.
AllUnref(t) == \A i \in cb : home[i].thread = t => meta[i].unref

\* Where the loop decides whether to go on
Deciding == {"work", "workQueued", "exit", "exitNone", "exitFired"}

\* Where the loop decides, no microtask is left, and a timer it has not found is
\* not there when it looks at the queues; once it has decided to return nothing is
\* queued, nothing runs and nothing is called any more.
Drained(t) ==
  /\ pc[t] \in Deciding => micro[t] = 0
  /\ pc[t] = "workQueued" => (DrainLimit = Forever => AllUnref(t))
  /\ pc[t] \in Final =>
       /\ run[t].js = "none" /\ batch[t] = <<>>
       /\ ticks[t] = 0 /\ micro[t] = 0 /\ imm[t] = {}
       /\ DrainLimit = Forever => AllUnref(t)

DrainInv == LimitInv /\ \A t \in Thread : Drained(t)

-----------------------------------------------------------------------------
(* The stations of the loop *)

\* The stations and their successors.
LEMMA Successors ==
  /\ DOMAIN After = TickStation \cup MicroStation \cup TimerStation \cup CheckStation
  /\ After["tick0"] = "top" /\ After["tick1"] = "micro1" /\ After["micro1"] = "work"
  /\ After["tick2"] = "micro2" /\ After["micro2"] = "poll" /\ After["timers"] = "tick3"
  /\ After["tick3"] = "micro3" /\ After["micro3"] = "check" /\ After["immediates"] = "tick4"
  /\ After["tick4"] = "micro4" /\ After["micro4"] = "exit" /\ After["late"] = "microLate"
  /\ After["microLate"] = "top" /\ After["tickF"] = "microF" /\ After["microF"] = "checkF"
  /\ After["immediatesF"] = "exitF"
  BY DEF After, TickStation, MicroStation, TimerStation, CheckStation

\* What can be at a place of the loop.
LEMMA Places ==
  /\ \A p \in TickStation \cup MicroStation \cup TimerStation \cup CheckStation :
       p \in Pc /\ After[p] \in Pc
  /\ {"script", "top", "work", "workQueued", "wait", "poll", "check", "exit", "exitNone",
      "exitFired", "checkF", "exitF", "done", "dropping", "dropped"} \subseteq Pc
  BY Successors DEF Pc, TickStation, MicroStation, TimerStation, CheckStation

-----------------------------------------------------------------------------
(* Types *)

RegistryType ==
  /\ meta \in [TimerId -> [type : {"none", "timeout", "interval", "immediate"},
                           delay : Nat, unref : BOOLEAN]]
  /\ cb \subseteq TimerId /\ owned \in [Thread -> SUBSET TimerId]
  /\ nextId \in 1..(MaxTimer + 1)
  /\ home \in [TimerId -> Homes \cup {NoHome}] /\ cleared \subseteq TimerId /\ ran \subseteq TimerId

QueueType ==
  /\ imm \in [Thread -> SUBSET [id : TimerId, deferred : BOOLEAN]]
  /\ ticks \in [Thread -> Nat] /\ micro \in [Thread -> Nat] /\ calls \in Nat

ManagerType ==
  /\ cmds \in Seq([op : {"once", "repeat", "cancel"}, id : TimerId]) /\ Len(cmds) <= Capacity
  /\ armed \in [TimerId -> {"no", "once", "repeat"}]
  /\ popped \in Seq(TimerId) /\ fired \in Seq(TimerId) /\ fires \in Nat

ControlType ==
  /\ pc \in [Thread -> Pc]
  /\ run \in [Thread -> [js : {"none", "script", "tick", "micro", "timer", "immediate"},
                         id : TimerId \cup {0}]]
  /\ batch \in [Thread -> Seq(TimerId)]
  /\ remaining \in [Thread -> 0..Forever] /\ runs \in [Thread -> Nat]

\* TypeOK falls into these parts.
LEMMA TypeParts == TypeOK <=> RegistryType /\ QueueType /\ ManagerType /\ ControlType
  BY Zenon DEF TypeOK, RegistryType, QueueType, ManagerType, ControlType

\* What a call that makes a timer does to the registries.
Creates(t, type, d) ==
  /\ run[t].js # "none"
  /\ nextId \in TimerId /\ nextId' = nextId + 1
  /\ home' = Born(t, type)
  /\ meta' = [meta EXCEPT ![nextId] = [type |-> type, delay |-> d, unref |-> FALSE]]
  /\ cb' = IF type = "immediate" THEN cb ELSE cb \cup {nextId}
  /\ owned' = [owned EXCEPT ![t] = @ \cup {nextId}]
  /\ UNCHANGED <<cleared, ran>>

\* What ref, unref and delay do to them.
Adjusts(t, i) ==
  /\ run[t].js # "none" /\ i \in Handles(t) /\ meta[i] # NoMeta
  /\ \E d \in Delay \cup {meta[i].delay}, unref \in BOOLEAN :
       meta' = [meta EXCEPT ![i] = [type |-> meta[i].type, delay |-> d, unref |-> unref]]
  /\ UNCHANGED <<cb, owned, nextId, history>>

\* Every step is one of these for the registries.
LEMMA RegistryStep ==
  ASSUME TypeOK, [Next]_vars
  PROVE  \/ \E t \in Thread, type \in {"timeout", "interval", "immediate"},
               d \in Delay \cup {0, 1} :
              Creates(t, type, d) /\ (d = 1 => \E e \in Delay : e < Forever)
         \/ nextId \in TimerId /\ nextId' = nextId + 1 /\ UNCHANGED <<registry, history>>
         \/ \E t \in Thread, i \in TimerId : ClearTimer(t, i)
         \/ \E t \in Thread, i \in TimerId : Adjusts(t, i)
         \/ \E t \in Thread : TimerEnds(t) \/ ImmediateEnds(t) \/ ExecuteTimer(t) \/ ForgetOwned(t)
         \/ cb' \subseteq cb /\ UNCHANGED <<meta, owned, nextId, history>>
<1> DEFINE Shrinks == cb' \subseteq cb /\ UNCHANGED <<meta, owned, nextId, history>>
<1>1. CASE Manager \/ UNCHANGED vars
  BY <1>1 DEF Manager, HandleCommand, PopDue, Publish, vars, registry
<1>2. ASSUME NEW t \in Thread, Script(t)
      PROVE  \/ \E type \in {"timeout", "interval", "immediate"}, d \in Delay \cup {0, 1} :
                  Creates(t, type, d) /\ (d = 1 => \E e \in Delay : e < Forever)
             \/ nextId \in TimerId /\ nextId' = nextId + 1 /\ UNCHANGED <<registry, history>>
             \/ \E i \in TimerId : ClearTimer(t, i)
             \/ \E i \in TimerId : Adjusts(t, i)
             \/ Shrinks
  <2> DEFINE Makes == \E type \in {"timeout", "interval", "immediate"}, d \in Delay \cup {0, 1} :
                        Creates(t, type, d) /\ (d = 1 => \E e \in Delay : e < Forever)
             Refused == /\ nextId \in TimerId /\ nextId' = nextId + 1
                        /\ UNCHANGED <<registry, history>>
             M == [type : {"none", "timeout", "interval", "immediate"}, delay : Nat,
                   unref : BOOLEAN]
  <2>a. \A e \in Delay : e < Forever
    BY LoopAssumption
  <2>1. ASSUME NEW d \in Delay, SetTimeout(t, d)
        PROVE  Makes \/ Refused
    <3>1. Creates(t, "timeout", d) \/ Refused
      BY <2>1 DEF SetTimeout, Create, Creates, Calls, registry, history
    <3> QED
      BY <2>a, <3>1
  <2>2. ASSUME NEW d \in Delay, SetInterval(t, d)
        PROVE  Makes \/ Refused
    <3>1. Creates(t, "interval", IF d = 0 THEN 1 ELSE d) \/ Refused
      BY <2>2 DEF SetInterval, Create, Creates, Calls, registry, history
    <3> QED
      BY <2>a, <3>1
  <2>3. ASSUME SetTimeoutZero(t)
        PROVE  Makes
    <3>1. Creates(t, "timeout", 0)
      BY <2>3 DEF SetTimeoutZero, Creates, Calls
    <3> QED
      BY <3>1
  <2>4. ASSUME SetImmediate(t)
        PROVE  Makes
    <3>1. Creates(t, "immediate", 0)
      BY <2>4 DEF SetImmediate, Creates, Calls
    <3> QED
      BY <3>1
  <2>5. ASSUME NextTick(t) \/ QueueMicrotask(t) \/ \E i \in TimerId : Refresh(t, i)
        PROVE  Shrinks
    BY <2>5 DEF NextTick, QueueMicrotask, Refresh, registry
  <2>6. ASSUME NEW i \in TimerId, NEW unref \in BOOLEAN, SetUnref(t, i, unref)
        PROVE  Adjusts(t, i) \/ Shrinks
    <3>1. /\ meta \in [TimerId -> M] /\ meta[i] \in M
          /\ run[t].js # "none" /\ i \in Handles(t)
          /\ UNCHANGED <<cb, owned, nextId, history>>
          /\ meta' = [meta EXCEPT ![i] = IF meta[i] = NoMeta THEN meta[i]
                                         ELSE [meta[i] EXCEPT !.unref = unref]]
      BY <2>6 DEF SetUnref, Calls, TypeOK
    <3>2. CASE meta[i] = NoMeta
      BY <3>1, <3>2
    <3>3. CASE meta[i] # NoMeta
      <4>1. [meta[i] EXCEPT !.unref = unref]
              = [type |-> meta[i].type, delay |-> meta[i].delay, unref |-> unref]
        BY <3>1
      <4> QED
        BY <3>1, <3>3, <4>1 DEF Adjusts
    <3> QED
      BY <3>2, <3>3
  <2>7. ASSUME NEW i \in TimerId, NEW d \in Delay, SetDelay(t, i, d)
        PROVE  Adjusts(t, i) \/ Shrinks
    <3>1. /\ meta \in [TimerId -> M] /\ meta[i] \in M
          /\ run[t].js # "none" /\ i \in Handles(t)
          /\ UNCHANGED <<cb, owned, nextId, history>>
          /\ meta' = [meta EXCEPT ![i] = IF meta[i] = NoMeta THEN meta[i]
                                         ELSE [meta[i] EXCEPT !.delay = d]]
      BY <2>7 DEF SetDelay, Calls, TypeOK
    <3>2. CASE meta[i] = NoMeta
      BY <3>1, <3>2
    <3>3. CASE meta[i] # NoMeta
      <4>1. [meta[i] EXCEPT !.delay = d]
              = [type |-> meta[i].type, delay |-> d, unref |-> meta[i].unref]
        BY <3>1
      <4>2. meta[i].unref \in BOOLEAN
        BY <3>1
      <4> QED
        BY <3>1, <3>3, <4>1, <4>2 DEF Adjusts
    <3> QED
      BY <3>2, <3>3
  <2> HIDE DEF Makes, Refused
  <2>8. Makes \/ Refused \/ Shrinks \/ \E i \in TimerId : ClearTimer(t, i) \/ Adjusts(t, i)
    BY <1>2, <2>1, <2>2, <2>3, <2>4, <2>5, <2>6, <2>7 DEF Script
  <2> QED
    BY <2>8 DEF Makes, Refused
<1>3. ASSUME NEW t \in Thread,
             \/ ScriptEnds(t) \/ QueuedEnds(t)
             \/ RunTick(t) \/ RunMicro(t) \/ Advance(t) \/ Top(t) \/ Work(t) \/ WorkQueued(t)
             \/ ExitLook(t) \/ LeaveWait(t)
             \/ Poll(t) \/ DropInactive(t) \/ HandBack(t) \/ SkipTaken(t)
             \/ DrainImmediates(t) \/ RunImmediate(t) \/ EndCheck(t) \/ Exit(t) \/ ExitFinal(t)
             \/ WaitValve(t) \/ Elapse(t) \/ ExecuteAgain(t) \/ Cleanup(t) \/ CancelOwned(t)
      PROVE  Shrinks
  BY <1>3 DEF ScriptEnds, QueuedEnds, RunTick, RunMicro, Advance, Top, Work, WorkQueued, ExitLook,
              LeaveWait, Poll,
              DropInactive, HandBack, SkipTaken, DrainImmediates, RunImmediate, EndCheck, Exit,
              ExitFinal, WaitValve, Elapse, ExecuteAgain, Cleanup, CancelOwned, registry
<1> QED
  BY <1>1, <1>2, <1>3 DEF Next, Loop, Lifetime

\* Every step keeps the types of the registries.
LEMMA RegistryTyped ==
  ASSUME TypeOK, [Next]_vars
  PROVE  RegistryType'
<1> DEFINE M == [type : {"none", "timeout", "interval", "immediate"}, delay : Nat, unref : BOOLEAN]
<1>a. /\ meta \in [TimerId -> M] /\ cb \subseteq TimerId /\ owned \in [Thread -> SUBSET TimerId]
      /\ nextId \in 1..(MaxTimer + 1) /\ home \in [TimerId -> Homes \cup {NoHome}]
      /\ cleared \subseteq TimerId /\ ran \subseteq TimerId
  BY DEF TypeOK
<1>b. NoMeta \in M
  BY DEF NoMeta
<1>1. ASSUME NEW t \in Thread, NEW type \in {"timeout", "interval", "immediate"},
             NEW d \in Delay \cup {0, 1}, Creates(t, type, d)
      PROVE  RegistryType'
  <2>1. [type |-> type, delay |-> d, unref |-> FALSE] \in M
    BY LoopAssumption
  <2>2. [thread |-> t, type |-> type] \in Homes
    BY DEF Homes
  <2>3. meta' \in [TimerId -> M] /\ home' \in [TimerId -> Homes \cup {NoHome}]
    BY <1>1, <1>a, <2>1, <2>2 DEF Creates, Born
  <2>4. nextId' \in 1..(MaxTimer + 1)
    BY <1>1, <1>a, LoopAssumption DEF Creates, TimerId
  <2>5. cb' \subseteq TimerId /\ owned' \in [Thread -> SUBSET TimerId]
    BY <1>1, <1>a DEF Creates
  <2> QED
    BY <1>1, <1>a, <2>3, <2>4, <2>5 DEF RegistryType, Creates
<1>2. CASE nextId \in TimerId /\ nextId' = nextId + 1 /\ UNCHANGED <<registry, history>>
  <2>1. nextId' \in 1..(MaxTimer + 1)
    BY <1>2, LoopAssumption DEF TimerId
  <2> QED
    BY <1>2, <1>a, <2>1 DEF RegistryType, registry, history
<1>3. ASSUME NEW t \in Thread, NEW i \in TimerId, ClearTimer(t, i)
      PROVE  RegistryType'
  BY <1>3, <1>a, <1>b DEF ClearTimer, RegistryType
<1>4. ASSUME NEW t \in Thread, NEW i \in TimerId, Adjusts(t, i)
      PROVE  RegistryType'
  <2>1. PICK d \in Delay \cup {meta[i].delay}, unref \in BOOLEAN :
          meta' = [meta EXCEPT ![i] = [type |-> meta[i].type, delay |-> d, unref |-> unref]]
    BY <1>4 DEF Adjusts
  <2>2. [type |-> meta[i].type, delay |-> d, unref |-> unref] \in M
    BY <1>a, LoopAssumption
  <2> QED
    BY <1>4, <1>a, <2>1, <2>2 DEF Adjusts, RegistryType, history
<1>5. ASSUME NEW t \in Thread, TimerEnds(t) \/ ImmediateEnds(t)
      PROVE  RegistryType'
  BY <1>5, <1>a, <1>b DEF TimerEnds, ImmediateEnds, Forget, RegistryType, history
<1>6. ASSUME NEW t \in Thread, ExecuteTimer(t)
      PROVE  RegistryType'
  <2>1. batch[t] \in Seq(TimerId) /\ batch[t] # <<>>
    BY <1>6 DEF ExecuteTimer, TypeOK
  <2>2. Head(batch[t]) \in TimerId
    BY <2>1
  <2> QED
    BY <1>6, <1>a, <2>2 DEF ExecuteTimer, RegistryType
<1>7. ASSUME NEW t \in Thread, ForgetOwned(t)
      PROVE  RegistryType'
  BY <1>7, <1>a, <1>b DEF ForgetOwned, RegistryType, history
<1>8. CASE cb' \subseteq cb /\ UNCHANGED <<meta, owned, nextId, history>>
  BY <1>8, <1>a DEF RegistryType, history
<1> QED
  BY <1>1, <1>2, <1>3, <1>4, <1>5, <1>6, <1>7, <1>8, RegistryStep

\* try_send keeps the type of the channel and its capacity.
LEMMA SendTyped ==
  ASSUME TypeOK, NEW op \in {"once", "repeat", "cancel"}, NEW i \in TimerId, TrySend(op, i)
  PROVE  /\ cmds' \in Seq([op : {"once", "repeat", "cancel"}, id : TimerId])
         /\ Len(cmds') <= Capacity
<1>1. cmds \in Seq([op : {"once", "repeat", "cancel"}, id : TimerId]) /\ Len(cmds) <= Capacity
  BY DEF TypeOK
<1>2. [op |-> op, id |-> i] \in [op : {"once", "repeat", "cancel"}, id : TimerId]
  OBVIOUS
<1>3. /\ Append(cmds, [op |-> op, id |-> i])
           \in Seq([op : {"once", "repeat", "cancel"}, id : TimerId])
      /\ Len(Append(cmds, [op |-> op, id |-> i])) = Len(cmds) + 1 /\ Len(cmds) \in Nat
  BY <1>1, <1>2, AppendProperties, LenProperties
<1>4. CASE Len(cmds) < Capacity
  <2>1. cmds' = Append(cmds, [op |-> op, id |-> i])
    BY <1>4 DEF TrySend
  <2> QED
    BY <1>3, <1>4, <2>1, LoopAssumption
<1>5. CASE ~(Len(cmds) < Capacity)
  <2>1. cmds' = cmds
    BY <1>5 DEF TrySend
  <2> QED
    BY <1>1, <2>1
<1> QED
  BY <1>4, <1>5

\* Every step keeps the types of the manager.
LEMMA ManagerTyped ==
  ASSUME TypeOK, [Next]_vars
  PROVE  ManagerType'
<1> DEFINE C == [op : {"once", "repeat", "cancel"}, id : TimerId]
<1>a. ManagerType /\ Capacity \in Nat
  BY TypeParts, LoopAssumption
<1>1. CASE HandleCommand
  <2>1. Head(cmds) \in C /\ Tail(cmds) \in Seq(C) /\ Len(Tail(cmds)) = Len(cmds) - 1
    BY <1>1, <1>a, HeadTailProperties DEF HandleCommand, ManagerType
  <2>2. Head(cmds).id \in TimerId /\ Head(cmds).op \in {"once", "repeat", "cancel"}
    BY <2>1
  <2>3. armed' \in [TimerId -> {"no", "once", "repeat"}]
    BY <1>1, <1>a, <2>2 DEF HandleCommand, ManagerType
  <2>4. Len(cmds') <= Capacity
    BY <1>1, <1>a, <2>1 DEF HandleCommand, ManagerType
  <2> QED
    BY <1>1, <1>a, <2>1, <2>3, <2>4 DEF HandleCommand, ManagerType
<1>2. ASSUME NEW i \in TimerId, PopDue(i)
      PROVE  ManagerType'
  <2>1. popped' \in Seq(TimerId)
    BY <1>2, <1>a, AppendProperties DEF PopDue, ManagerType
  <2> QED
    BY <1>2, <1>a, <2>1 DEF PopDue, ManagerType
<1>3. CASE Publish
  <2>1. fired \o popped \in Seq(TimerId) /\ <<>> \in Seq(TimerId)
    BY <1>a, ConcatProperties DEF ManagerType
  <2> QED
    BY <1>3, <1>a, <2>1 DEF Publish, ManagerType
<1>4. ASSUME NEW t \in Thread, Script(t)
      PROVE  ManagerType'
  <2>1. ASSUME NEW op \in {"once", "repeat", "cancel"}, NEW i \in TimerId, TrySend(op, i),
               UNCHANGED <<armed, popped, fired, fires>>
        PROVE  ManagerType'
    BY <2>1, <1>a, SendTyped DEF ManagerType
  <2>2. ASSUME UNCHANGED <<cmds, armed, popped, fired, fires>>
        PROVE  ManagerType'
    BY <2>2, <1>a DEF ManagerType
  <2>3. CASE \E d \in Delay : SetTimeout(t, d) \/ SetInterval(t, d)
    BY <2>1, <2>3 DEF SetTimeout, SetInterval, Create
  <2>4. CASE SetTimeoutZero(t)
    <3>1. fired' \in Seq(TimerId)
      BY <2>4, <1>a, AppendProperties DEF SetTimeoutZero, ManagerType
    <3> QED
      BY <2>4, <1>a, <3>1 DEF SetTimeoutZero, ManagerType
  <2>5. CASE \E i \in TimerId : ClearTimer(t, i) \/ Refresh(t, i)
    BY <2>1, <2>2, <2>5 DEF ClearTimer, Refresh
  <2>6. CASE \E i \in TimerId, d \in Delay : SetDelay(t, i, d)
    BY <2>1, <2>2, <2>6 DEF SetDelay
  <2>7. CASE \/ SetImmediate(t) \/ NextTick(t) \/ QueueMicrotask(t)
             \/ \E i \in TimerId, unref \in BOOLEAN : SetUnref(t, i, unref)
    BY <2>2, <2>7 DEF SetImmediate, NextTick, QueueMicrotask, SetUnref, manager
  <2> QED
    BY <1>4, <2>3, <2>4, <2>5, <2>6, <2>7 DEF Script
<1>5. ASSUME NEW t \in Thread, Poll(t) \/ Exit(t)
      PROVE  ManagerType'
  <2>1. <<>> \in Seq(TimerId)
    OBVIOUS
  <2> QED
    BY <1>5, <1>a, <2>1 DEF Poll, Exit, ManagerType
<1>6. ASSUME NEW t \in Thread, HandBack(t)
      PROVE  ManagerType'
  <2>1. batch[t] \in Seq(TimerId) /\ batch[t] # <<>>
    BY <1>6 DEF HandBack, TypeOK
  <2>2. Head(batch[t]) \in TimerId
    BY <2>1
  <2>3. fired' \in Seq(TimerId)
    BY <1>6, <1>a, <2>2, AppendProperties DEF HandBack, ManagerType
  <2> QED
    BY <1>6, <1>a, <2>3 DEF HandBack, ManagerType
<1>7. ASSUME NEW t \in Thread, CancelOwned(t)
      PROVE  ManagerType'
  <2>1. batch[t] \in Seq(TimerId) /\ batch[t] # <<>>
    BY <1>7 DEF CancelOwned, TypeOK
  <2>2. Head(batch[t]) \in TimerId
    BY <2>1
  <2> QED
    BY <1>7, <1>a, <2>2, SendTyped DEF CancelOwned, ManagerType
<1>8. ASSUME NEW t \in Thread,
             \/ ScriptEnds(t) \/ QueuedEnds(t) \/ TimerEnds(t) \/ ImmediateEnds(t)
             \/ RunTick(t) \/ RunMicro(t) \/ Advance(t) \/ Top(t) \/ Work(t) \/ WorkQueued(t)
             \/ ExitLook(t) \/ LeaveWait(t)
             \/ DropInactive(t) \/ SkipTaken(t) \/ ExecuteTimer(t)
             \/ DrainImmediates(t) \/ RunImmediate(t) \/ EndCheck(t) \/ ExitFinal(t)
             \/ WaitValve(t) \/ Elapse(t) \/ ExecuteAgain(t) \/ Cleanup(t) \/ ForgetOwned(t)
      PROVE  ManagerType'
  <2>1. UNCHANGED manager
    BY <1>8 DEF ScriptEnds, QueuedEnds, TimerEnds, ImmediateEnds, RunTick, RunMicro, Advance, Top,
                Work, WorkQueued, ExitLook, LeaveWait, DropInactive, SkipTaken, ExecuteTimer,
                DrainImmediates,
                RunImmediate, EndCheck, ExitFinal, WaitValve, Elapse, ExecuteAgain, Cleanup,
                ForgetOwned
  <2> QED
    BY <1>a, <2>1 DEF ManagerType, manager
<1>9. CASE UNCHANGED vars
  BY <1>9, <1>a DEF vars, manager, ManagerType
<1> QED
  BY <1>1, <1>2, <1>3, <1>4, <1>5, <1>6, <1>7, <1>8, <1>9 DEF Next, Manager, Loop, Lifetime

\* An order of a set of ids is a sequence of them.
LEMMA OrderTyped ==
  ASSUME NEW S \in SUBSET TimerId, NEW order \in Orders(S)
  PROVE  order \in Seq(S) /\ order \in Seq(TimerId)
<1>1. order \in [1..Cardinality(S) -> S]
  BY DEF Orders, Bijection, Injection
<1>2. IsFiniteSet(TimerId)
  BY FS_Interval, LoopAssumption DEF TimerId
<1>3. Cardinality(S) \in Nat
  BY <1>2, FS_Subset, FS_CardinalityType
<1> QED
  BY <1>1, <1>3, SeqDef

\* The timer at the head of a batch is a timer.
LEMMA HeadTyped ==
  ASSUME TypeOK, NEW t \in Thread, batch[t] # <<>>
  PROVE  /\ batch[t] \in Seq(TimerId) /\ Head(batch[t]) \in TimerId
         /\ Tail(batch[t]) \in Seq(TimerId)
  BY HeadTailProperties DEF TypeOK

\* Every step keeps the types of the threads' queues.
LEMMA QueueTyped ==
  ASSUME TypeOK, [Next]_vars
  PROVE  QueueType'
<1> DEFINE I == [id : TimerId, deferred : BOOLEAN]
<1>a. QueueType
  BY TypeParts
<1>b. /\ imm \in [Thread -> SUBSET I] /\ ticks \in [Thread -> Nat] /\ micro \in [Thread -> Nat]
      /\ calls \in Nat
  BY <1>a DEF QueueType
<1>1. ASSUME NEW Q \in SUBSET I, NEW flag \in BOOLEAN
      PROVE  Deferred(Q, flag) \in SUBSET I
  BY DEF Deferred
<1>2. ASSUME UNCHANGED <<queues, calls>> PROVE QueueType'
  BY <1>2, <1>a DEF QueueType, queues
<1>3. CASE Manager \/ UNCHANGED vars
  BY <1>2, <1>3 DEF Manager, HandleCommand, PopDue, Publish, vars
<1>4. ASSUME NEW t \in Thread, Script(t)
      PROVE  QueueType'
  <2>1. ASSUME calls' = calls + 1, UNCHANGED queues PROVE QueueType'
    BY <2>1, <1>b DEF QueueType, queues
  <2>2. CASE \/ \E d \in Delay : SetTimeout(t, d) \/ SetInterval(t, d)
             \/ SetTimeoutZero(t) \/ \E i \in TimerId : Refresh(t, i)
             \/ \E i \in TimerId, unref \in BOOLEAN : SetUnref(t, i, unref)
             \/ \E i \in TimerId, d \in Delay : SetDelay(t, i, d)
    BY <2>1, <2>2 DEF SetTimeout, SetInterval, Create, SetTimeoutZero, Refresh, SetUnref, SetDelay,
                      Calls
  <2>3. CASE SetImmediate(t)
    <3>1. [id |-> nextId, deferred |-> FALSE] \in I
      BY <2>3 DEF SetImmediate
    <3>2. imm' \in [Thread -> SUBSET I]
      BY <2>3, <1>b, <3>1 DEF SetImmediate
    <3> QED
      BY <2>3, <1>b, <3>2 DEF SetImmediate, Calls, QueueType
  <2>4. CASE NextTick(t) \/ QueueMicrotask(t)
    BY <2>4, <1>b DEF NextTick, QueueMicrotask, Calls, QueueType
  <2>5. ASSUME NEW i \in TimerId, ClearTimer(t, i)
        PROVE  QueueType'
    <3>1. imm' \in [Thread -> SUBSET I]
      BY <2>5, <1>b DEF ClearTimer
    <3> QED
      BY <2>5, <1>b, <3>1 DEF ClearTimer, Calls, QueueType
  <2> QED
    BY <1>4, <2>2, <2>3, <2>4, <2>5 DEF Script
<1>5. ASSUME NEW t \in Thread, RunTick(t) \/ RunMicro(t)
      PROVE  QueueType'
  <2>1. ticks' \in [Thread -> Nat] /\ micro' \in [Thread -> Nat]
    BY <1>5, <1>b DEF RunTick, RunMicro
  <2> QED
    BY <1>5, <1>b, <2>1 DEF RunTick, RunMicro, QueueType
<1>6. ASSUME NEW t \in Thread, NEW Q \in SUBSET I, imm' = [imm EXCEPT ![t] = Q],
             UNCHANGED <<ticks, micro, calls>>
      PROVE  QueueType'
  BY <1>6, <1>b DEF QueueType
<1>7. ASSUME NEW t \in Thread, Top(t) \/ EndCheck(t)
      PROVE  QueueType'
  <2>1. \E flag \in BOOLEAN : imm' = [imm EXCEPT ![t] = Deferred(imm[t], flag)]
    BY <1>7 DEF Top, EndCheck
  <2>2. UNCHANGED <<ticks, micro, calls>>
    BY <1>7 DEF Top, EndCheck
  <2>3. imm[t] \in SUBSET I
    BY <1>b
  <2> HIDE DEF I
  <2> QED
    BY <1>1, <1>6, <2>1, <2>2, <2>3
<1>8. ASSUME NEW t \in Thread, DrainImmediates(t)
      PROVE  QueueType'
  <2> DEFINE Q == IF pc[t] = "checkF" THEN Deferred(imm[t], FALSE) ELSE imm[t]
             R == {e \in Q : e.deferred}
  <2>1. imm[t] \in SUBSET I
    BY <1>b
  <2>2. R \in SUBSET I
    BY <1>1, <2>1
  <2>3. imm' = [imm EXCEPT ![t] = R] /\ UNCHANGED <<ticks, micro, calls>>
    BY <1>8 DEF DrainImmediates
  <2> HIDE DEF R, I
  <2> QED
    BY <1>6, <2>2, <2>3
<1>9. ASSUME NEW t \in Thread, ExecuteAgain(t) \/ Cleanup(t)
      PROVE  QueueType'
  BY <1>6, <1>9 DEF ExecuteAgain, Cleanup
<1>10. ASSUME NEW t \in Thread,
             \/ ScriptEnds(t) \/ QueuedEnds(t) \/ TimerEnds(t) \/ ImmediateEnds(t)
             \/ Advance(t) \/ Work(t) \/ WorkQueued(t) \/ ExitLook(t) \/ LeaveWait(t)
             \/ Poll(t) \/ DropInactive(t) \/ HandBack(t) \/ SkipTaken(t) \/ ExecuteTimer(t)
             \/ RunImmediate(t) \/ Exit(t) \/ ExitFinal(t)
             \/ WaitValve(t) \/ Elapse(t) \/ CancelOwned(t) \/ ForgetOwned(t)
      PROVE  QueueType'
  BY <1>2, <1>10 DEF ScriptEnds, QueuedEnds, TimerEnds, ImmediateEnds, Advance, Work, WorkQueued,
                     ExitLook, LeaveWait,
                Poll, DropInactive, HandBack, SkipTaken, ExecuteTimer, RunImmediate, Exit,
                ExitFinal, WaitValve, Elapse, CancelOwned, ForgetOwned
<1> QED
  BY <1>3, <1>4, <1>5, <1>7, <1>8, <1>9, <1>10 DEF Next, Loop, Lifetime

\* Every step keeps the types of the threads' control.
LEMMA ControlTyped ==
  ASSUME TypeOK, [Next]_vars
  PROVE  ControlType'
<1> DEFINE R == [js : {"none", "script", "tick", "micro", "timer", "immediate"},
                 id : TimerId \cup {0}]
<1>a. ControlType
  BY TypeParts
<1>b. /\ pc \in [Thread -> Pc] /\ run \in [Thread -> R] /\ batch \in [Thread -> Seq(TimerId)]
      /\ remaining \in [Thread -> 0..Forever] /\ runs \in [Thread -> Nat]
  BY <1>a DEF ControlType
<1>c. Idle \in R /\ \A js \in {"script", "tick", "micro"} : [js |-> js, id |-> 0] \in R
  BY DEF Idle
<1>d. \A js \in {"timer", "immediate"}, i \in TimerId : [js |-> js, id |-> i] \in R
  OBVIOUS
<1>e. <<>> \in Seq(TimerId) /\ DrainLimit \in 0..Forever
  BY LoopAssumption
<1> DEFINE PcMoves(t) == \E p \in Pc : pc' = [pc EXCEPT ![t] = p]
           RunMoves(t) == \E r \in R : run' = [run EXCEPT ![t] = r]
           BatchMoves(t) == \E b \in Seq(TimerId) : batch' = [batch EXCEPT ![t] = b]
<1>1. ASSUME UNCHANGED control PROVE ControlType'
  BY <1>1, <1>a DEF ControlType, control
<1>2. CASE Manager \/ UNCHANGED vars \/ \E t \in Thread : Script(t)
  <2>1. UNCHANGED control
    BY <1>2 DEF Manager, HandleCommand, PopDue, Publish, vars, Script, SetTimeout, SetInterval,
                Create, SetTimeoutZero, SetImmediate, NextTick, QueueMicrotask, ClearTimer, Refresh,
                SetUnref, SetDelay, Calls
  <2> QED
    BY <1>1, <2>1
<1>3. ASSUME NEW t \in Thread, PcMoves(t) \/ UNCHANGED pc
      PROVE  pc' \in [Thread -> Pc]
  BY <1>3, <1>b
<1>4. ASSUME NEW t \in Thread, RunMoves(t) \/ UNCHANGED run
      PROVE  run' \in [Thread -> R]
  BY <1>4, <1>b
<1>5. ASSUME NEW t \in Thread, BatchMoves(t) \/ UNCHANGED batch
      PROVE  batch' \in [Thread -> Seq(TimerId)]
  BY <1>5, <1>b
<1>6. ASSUME NEW t \in Thread, PcMoves(t) \/ UNCHANGED pc, RunMoves(t) \/ UNCHANGED run,
             BatchMoves(t) \/ UNCHANGED batch,
             remaining' \in [Thread -> 0..Forever], runs' \in [Thread -> Nat]
      PROVE  ControlType'
  <2> HIDE DEF PcMoves, RunMoves, BatchMoves
  <2> QED
    BY <1>3, <1>4, <1>5, <1>6 DEF ControlType
<1>p. \A t \in Thread : pc[t] \in Pc
  BY <1>b
<1>7. ASSUME NEW t \in Thread, Loop(t) \/ WaitValve(t) \/ Lifetime(t)
      PROVE  (PcMoves(t) \/ UNCHANGED pc) /\ (RunMoves(t) \/ UNCHANGED run)
  <2>1. ASSUME NEW to \in Pc, Goto(t, to) PROVE PcMoves(t)
    BY <2>1 DEF Goto
  <2>2. ASSUME Stop(t) PROVE RunMoves(t)
    BY <2>2, <1>c DEF Stop
  <2>3. ASSUME NEW js \in {"script", "tick", "micro"}, Start(t, js, 0) PROVE RunMoves(t)
    BY <2>3, <1>c DEF Start
  <2>4. ASSUME NEW js \in {"timer", "immediate"}, NEW i \in TimerId, Start(t, js, i)
        PROVE  RunMoves(t)
    BY <2>4, <1>d DEF Start
  <2> HIDE DEF PcMoves, RunMoves
  <2>5. CASE ScriptEnds(t) \/ QueuedEnds(t) \/ TimerEnds(t) \/ ImmediateEnds(t)
    <3>1. "tick0" \in Pc /\ "done" \in Pc
      BY Places DEF TickStation
    <3> QED
      BY <2>1, <2>2, <2>5, <3>1 DEF ScriptEnds, QueuedEnds, TimerEnds, ImmediateEnds
  <2>6. CASE RunTick(t) \/ RunMicro(t)
    BY <2>3, <2>6 DEF RunTick, RunMicro
  <2>7. CASE Advance(t) \/ EndCheck(t)
    <3>1. After[pc[t]] \in Pc
      BY <2>7, Places DEF Advance, EndCheck, At
    <3> QED
      BY <2>1, <2>7, <3>1 DEF Advance, EndCheck
  <2>8. CASE \/ Top(t) \/ Work(t) \/ WorkQueued(t) \/ ExitLook(t) \/ LeaveWait(t)
             \/ WaitValve(t) \/ Poll(t)
             \/ DrainImmediates(t) \/ Exit(t) \/ ExitFinal(t)
             \/ Cleanup(t) \/ CancelOwned(t) \/ ForgetOwned(t)
    <3>1. {"tick1", "tick2", "tickF", "timers", "late", "immediates", "immediatesF"} \subseteq Pc
      BY Places DEF TickStation, TimerStation, CheckStation
    <3>2. {"wait", "top", "done", "dropping", "dropped", "workQueued", "exitNone", "exitFired"}
            \subseteq Pc
      BY Places
    <3> QED
      BY <2>1, <2>8, <3>1, <3>2
      DEF Top, Work, WorkQueued, ExitLook, LeaveWait, WaitValve, Poll, DrainImmediates, Exit,
          ExitFinal, Cleanup,
          CancelOwned, ForgetOwned
  <2>9. CASE DropInactive(t) \/ HandBack(t) \/ SkipTaken(t)
    BY <2>9 DEF DropInactive, HandBack, SkipTaken
  <2>10. CASE ExecuteTimer(t) \/ RunImmediate(t)
    <3>1. Head(batch[t]) \in TimerId
      BY <2>10, HeadTyped DEF ExecuteTimer, RunImmediate
    <3> QED
      BY <2>4, <2>10, <3>1 DEF ExecuteTimer, RunImmediate
  <2>11. CASE ExecuteAgain(t)
    BY <2>1, <2>3, <2>11, Places DEF ExecuteAgain
  <2> QED
    BY <1>7, <2>5, <2>6, <2>7, <2>8, <2>9, <2>10, <2>11 DEF Loop, Lifetime
<1>8. ASSUME NEW t \in Thread, Loop(t) \/ WaitValve(t) \/ Lifetime(t)
      PROVE  BatchMoves(t) \/ UNCHANGED batch
  <2>1. CASE \/ DropInactive(t) \/ HandBack(t) \/ SkipTaken(t) \/ ExecuteTimer(t)
             \/ RunImmediate(t) \/ CancelOwned(t)
    <3>1. batch[t] # <<>> /\ batch' = [batch EXCEPT ![t] = Tail(batch[t])]
      BY <2>1 DEF DropInactive, HandBack, SkipTaken, ExecuteTimer, RunImmediate, CancelOwned, Next1
    <3> QED
      BY <3>1, HeadTyped
  <2>2. CASE Poll(t) \/ Exit(t)
    <3>1. fired \in Seq(TimerId)
      BY DEF TypeOK
    <3> QED
      BY <2>2, <3>1 DEF Poll, Exit
  <2>3. CASE DrainImmediates(t)
    <3> DEFINE Q == IF pc[t] = "checkF" THEN Deferred(imm[t], FALSE) ELSE imm[t]
               S == {e.id : e \in {e \in Q : ~e.deferred}}
    <3>1. imm[t] \in SUBSET [id : TimerId, deferred : BOOLEAN]
      BY DEF TypeOK
    <3>2. S \in SUBSET TimerId
      BY <3>1 DEF Deferred
    <3>3. PICK order \in Ascending(S) : batch' = [batch EXCEPT ![t] = order]
      BY <2>3 DEF DrainImmediates
    <3> HIDE DEF S
    <3>4. order \in Orders(S)
      BY DEF Ascending
    <3>5. order \in Seq(TimerId)
      BY <3>2, <3>4, OrderTyped
    <3> QED
      BY <3>3, <3>5
  <2>4. CASE Cleanup(t)
    <3>1. PICK order \in Orders(owned[t]) : batch' = [batch EXCEPT ![t] = order]
      BY <2>4 DEF Cleanup
    <3>2. owned[t] \in SUBSET TimerId
      BY DEF TypeOK
    <3>3. order \in Seq(TimerId)
      BY <3>2, OrderTyped
    <3> QED
      BY <3>1, <3>3
  <2>5. CASE \/ ScriptEnds(t) \/ QueuedEnds(t) \/ TimerEnds(t) \/ ImmediateEnds(t)
             \/ RunTick(t) \/ RunMicro(t) \/ Advance(t) \/ Top(t) \/ Work(t) \/ WorkQueued(t)
             \/ ExitLook(t) \/ LeaveWait(t)
             \/ EndCheck(t) \/ ExitFinal(t) \/ WaitValve(t) \/ ExecuteAgain(t) \/ ForgetOwned(t)
    BY <2>5 DEF ScriptEnds, QueuedEnds, TimerEnds, ImmediateEnds, RunTick, RunMicro, Advance, Top,
                Work, WorkQueued, ExitLook, LeaveWait, EndCheck, ExitFinal, WaitValve,
                ExecuteAgain, ForgetOwned
  <2> HIDE DEF BatchMoves
  <2> QED
    BY <1>8, <2>1, <2>2, <2>3, <2>4, <2>5 DEF Loop, Lifetime
<1>9. ASSUME NEW t \in Thread, Loop(t) \/ WaitValve(t) \/ Lifetime(t)
      PROVE  remaining' \in [Thread -> 0..Forever] /\ runs' \in [Thread -> Nat]
  <2>1. CASE ScriptEnds(t)
    BY <2>1, <1>b, <1>e DEF ScriptEnds
  <2>2. CASE ExecuteAgain(t)
    BY <2>2, <1>b DEF ExecuteAgain
  <2>3. CASE \/ QueuedEnds(t) \/ TimerEnds(t) \/ ImmediateEnds(t)
             \/ RunTick(t) \/ RunMicro(t) \/ Advance(t) \/ Top(t) \/ Work(t) \/ WorkQueued(t)
             \/ ExitLook(t) \/ LeaveWait(t)
             \/ Poll(t) \/ DropInactive(t) \/ HandBack(t) \/ SkipTaken(t) \/ ExecuteTimer(t)
             \/ DrainImmediates(t) \/ RunImmediate(t) \/ EndCheck(t) \/ Exit(t) \/ ExitFinal(t)
             \/ WaitValve(t) \/ Cleanup(t) \/ CancelOwned(t) \/ ForgetOwned(t)
    BY <2>3, <1>b
    DEF QueuedEnds, TimerEnds, ImmediateEnds, RunTick, RunMicro, Advance, Top, Work, WorkQueued,
        ExitLook, LeaveWait,
        Poll, DropInactive, HandBack, SkipTaken, ExecuteTimer, DrainImmediates, RunImmediate,
        EndCheck, Exit, ExitFinal, WaitValve, Cleanup, CancelOwned, ForgetOwned
  <2> QED
    BY <1>9, <2>1, <2>2, <2>3 DEF Loop, Lifetime
<1>10. ASSUME NEW t \in Thread, Elapse(t)
      PROVE  ControlType'
  <2>1. remaining' \in [Thread -> 0..Forever]
    BY <1>10, <1>b, LoopAssumption DEF Elapse
  <2> QED
    BY <1>10, <1>b, <2>1 DEF Elapse, ControlType
<1> HIDE DEF PcMoves, RunMoves, BatchMoves
<1>11. ASSUME NEW t \in Thread, Loop(t) \/ WaitValve(t) \/ Lifetime(t)
      PROVE  ControlType'
  BY <1>6, <1>7, <1>8, <1>9, <1>11
<1> QED
  BY <1>2, <1>10, <1>11 DEF Next

\* Every step keeps the types.
LEMMA TypeStep ==
  ASSUME TypeOK, [Next]_vars
  PROVE  TypeOK'
<1>1. RegistryType' /\ QueueType' /\ ManagerType' /\ ControlType'
  BY RegistryTyped, QueueTyped, ManagerTyped, ControlTyped
<1> QED
  BY <1>1 DEF TypeOK, RegistryType, QueueType, ManagerType, ControlType

\* The registries and queues start empty.
LEMMA TypeInit == Init => TypeOK
<1> SUFFICES ASSUME Init PROVE TypeOK
  OBVIOUS
<1>1. RegistryType
  BY LoopAssumption DEF Init, RegistryType, NoMeta
<1>2. QueueType
  BY DEF Init, QueueType
<1>3. ManagerType
  BY LoopAssumption DEF Init, ManagerType
<1>4. ControlType
  BY LoopAssumption, Places DEF Init, ControlType
<1> QED
  BY <1>1, <1>2, <1>3, <1>4, TypeParts

\* The registries, the queues, the manager and the control of every thread keep
\* their types, and the command channel its capacity.
THEOREM LoopTypeCorrect == Spec => []TypeOK
  BY TypeInit, TypeStep, PTL DEF Spec

-----------------------------------------------------------------------------
(* Whose step it is *)

Acts(t) == Script(t) \/ Loop(t) \/ WaitValve(t) \/ Elapse(t) \/ Lifetime(t)

\* What a thread has to itself stays as it is.
Rests(t) ==
  /\ pc'[t] = pc[t] /\ run'[t] = run[t] /\ batch'[t] = batch[t] /\ remaining'[t] = remaining[t]
  /\ owned'[t] = owned[t] /\ imm'[t] = imm[t] /\ ticks'[t] = ticks[t] /\ micro'[t] = micro[t]

\* A thread's own state changes only in its own steps.
LEMMA ThreadStep ==
  ASSUME TypeOK, [Next]_vars, NEW u \in Thread
  PROVE  Acts(u) \/ Rests(u)
<1>a. /\ DOMAIN pc = Thread /\ DOMAIN run = Thread /\ DOMAIN batch = Thread
      /\ DOMAIN remaining = Thread /\ DOMAIN owned = Thread /\ DOMAIN imm = Thread
      /\ DOMAIN ticks = Thread /\ DOMAIN micro = Thread
  BY DEF TypeOK
<1>1. CASE Manager \/ UNCHANGED vars
  BY <1>1 DEF Manager, HandleCommand, PopDue, Publish, vars, registry, queues, control, Rests
<1>2. ASSUME NEW t \in Thread, t # u, Script(t)
      PROVE  Rests(u)
  BY <1>2, <1>a DEF Script, SetTimeout, SetInterval, Create, SetTimeoutZero, SetImmediate, NextTick,
           QueueMicrotask, ClearTimer, Refresh, SetUnref, SetDelay, Calls, control, queues,
           registry, Rests
<1>3. ASSUME NEW t \in Thread, t # u,
             \/ ScriptEnds(t) \/ QueuedEnds(t) \/ TimerEnds(t) \/ ImmediateEnds(t)
             \/ RunTick(t) \/ RunMicro(t) \/ Advance(t) \/ Top(t) \/ Work(t) \/ WorkQueued(t)
             \/ ExitLook(t) \/ LeaveWait(t)
      PROVE  Rests(u)
  BY <1>3, <1>a DEF ScriptEnds, QueuedEnds, TimerEnds, ImmediateEnds, RunTick, RunMicro, Advance,
           Top, Work, WorkQueued, ExitLook, LeaveWait, Goto, Start, Stop, Forget, queues,
           registry, Rests
<1>4. ASSUME NEW t \in Thread, t # u,
             \/ Poll(t) \/ DropInactive(t) \/ HandBack(t) \/ SkipTaken(t) \/ ExecuteTimer(t)
             \/ DrainImmediates(t) \/ RunImmediate(t) \/ EndCheck(t) \/ Exit(t) \/ ExitFinal(t)
      PROVE  Rests(u)
  BY <1>4, <1>a DEF Poll, DropInactive, HandBack, SkipTaken, ExecuteTimer, DrainImmediates,
           RunImmediate, EndCheck, Exit, ExitFinal, Next1, Goto, Start, queues, registry, Rests
<1>5. ASSUME NEW t \in Thread, t # u, WaitValve(t) \/ Elapse(t) \/ Lifetime(t)
      PROVE  Rests(u)
  BY <1>5, <1>a DEF WaitValve, Elapse, Lifetime, ExecuteAgain, Cleanup, CancelOwned, ForgetOwned,
           Goto, Start, Next1, queues, registry, Rests
<1> QED
  BY <1>1, <1>2, <1>3, <1>4, <1>5 DEF Next, Acts, Loop

-----------------------------------------------------------------------------
(* The registries *)

\* The birth of a timer is never revised, and a callback that is out of
\* TIMER_CALLBACKS stays out.
LEMMA BirthIsFinal ==
  ASSUME TypeOK, RegistryInv, [Next]_vars, NEW i \in TimerId, Created(i)
  PROVE  Created(i)' /\ home'[i] = home[i] /\ (i \notin cb => i \notin cb')
<1>1. i # nextId /\ home \in [TimerId -> Homes \cup {NoHome}]
  BY DEF RegistryInv, TypeOK, TimerId
<1>2. home'[i] = home[i] /\ (i \notin cb => i \notin cb')
  <2>1. ASSUME NEW t \in Thread, NEW type \in {"timeout", "interval", "immediate"},
               NEW d \in Delay \cup {0, 1}, Creates(t, type, d)
        PROVE  home'[i] = home[i] /\ (i \notin cb => i \notin cb')
    BY <1>1, <2>1 DEF Creates, Born
  <2>2. ASSUME NEW t \in Thread, NEW j \in TimerId, ClearTimer(t, j)
        PROVE  home'[i] = home[i] /\ (i \notin cb => i \notin cb')
    BY <2>2 DEF ClearTimer
  <2>3. ASSUME NEW t \in Thread,
               TimerEnds(t) \/ ImmediateEnds(t) \/ ExecuteTimer(t) \/ ForgetOwned(t)
        PROVE  home'[i] = home[i] /\ (i \notin cb => i \notin cb')
    BY <2>3 DEF TimerEnds, ImmediateEnds, ExecuteTimer, ForgetOwned, history
  <2> QED
    BY <2>1, <2>2, <2>3, RegistryStep DEF Adjusts, registry, history
<1> QED
  BY <1>2 DEF Created

\* Every step keeps the registries in order.
LEMMA RegistryKept ==
  ASSUME LoopInv, [Next]_vars
  PROVE  RegistryInv'
<1> DEFINE M == [type : {"none", "timeout", "interval", "immediate"}, delay : Nat, unref : BOOLEAN]
<1>a. /\ meta \in [TimerId -> M] /\ cb \subseteq TimerId /\ owned \in [Thread -> SUBSET TimerId]
      /\ nextId \in 1..(MaxTimer + 1) /\ home \in [TimerId -> Homes \cup {NoHome}]
  BY DEF LoopInv, TypeOK
<1>b. /\ \A i \in TimerId : Created(i) => i < nextId
      /\ \A i \in TimerId : meta[i] = NoMeta \/ (Created(i) /\ meta[i].type = home[i].type)
      /\ \A t \in Thread : \A i \in owned[t] : Created(i) /\ home[i].thread = t
      /\ \A i \in cb : /\ Created(i) /\ home[i].type \in {"timeout", "interval"}
                       /\ meta[i].type = home[i].type /\ i \in owned[home[i].thread]
  BY DEF LoopInv, RegistryInv
<1>c. NoMeta \in M /\ NoMeta.type = "none" /\ TimerId \subseteq Nat
  BY DEF NoMeta, TimerId
<1>1. ASSUME NEW t \in Thread, NEW type \in {"timeout", "interval", "immediate"},
             NEW d \in Delay \cup {0, 1}, Creates(t, type, d)
      PROVE  RegistryInv'
  <2> DEFINE k == nextId
  <2>1. /\ k \in TimerId /\ ~Created(k) /\ k \notin cb /\ \A u \in Thread : k \notin owned[u]
        /\ nextId' = nextId + 1
    BY <1>1, <1>b, <1>c DEF Creates
  <2>2. [thread |-> t, type |-> type] \in Homes /\ [thread |-> t, type |-> type] # NoHome
    BY DEF Homes, NoHome
  <2>3. /\ home'[k].thread = t /\ home'[k].type = type /\ home'[k] # NoHome
        /\ meta'[k].type = type /\ k \in owned'[t]
    BY <1>1, <1>a, <2>1, <2>2 DEF Creates, Born
  <2>4. \A i \in TimerId : i # k => home'[i] = home[i] /\ meta'[i] = meta[i]
    BY <1>1, <1>a DEF Creates, Born
  <2>5. \A u \in Thread : owned'[u] = IF u = t THEN owned[u] \cup {k} ELSE owned[u]
    BY <1>1, <1>a DEF Creates
  <2>6. cb' \subseteq cb \cup {k} /\ (type = "immediate" => cb' = cb)
    BY <1>1 DEF Creates
  <2>7. \A i \in TimerId : Created(i)' => i < nextId'
    BY <1>a, <1>b, <1>c, <2>1, <2>4 DEF Created
  <2>8. \A i \in TimerId : meta'[i] = NoMeta \/ (Created(i)' /\ meta'[i].type = home'[i].type)
    BY <1>b, <2>3, <2>4 DEF Created
  <2>9. \A u \in Thread : \A i \in owned'[u] : Created(i)' /\ home'[i].thread = u
    <3> SUFFICES ASSUME NEW u \in Thread, NEW i \in owned'[u]
                 PROVE  home'[i] # NoHome /\ home'[i].thread = u
      BY DEF Created
    <3>1. CASE i = k
      BY <2>1, <2>3, <2>5, <3>1
    <3>2. CASE i # k
      <4>1. i \in owned[u] /\ i \in TimerId
        BY <1>a, <2>5, <3>2
      <4> QED
        BY <1>b, <2>4, <3>2, <4>1 DEF Created
    <3> QED
      BY <3>1, <3>2
  <2>10. ASSUME NEW i \in cb'
         PROVE  /\ Created(i)' /\ home'[i].type \in {"timeout", "interval"}
                /\ meta'[i].type = home'[i].type /\ i \in owned'[home'[i].thread]
    <3>1. CASE i = k
      BY <2>1, <2>3, <2>6, <3>1 DEF Created
    <3>2. CASE i # k
      <4>1. i \in cb /\ i \in TimerId /\ home'[i] = home[i] /\ meta'[i] = meta[i]
        BY <1>a, <2>4, <2>6, <3>2
      <4>2. home[i].thread \in Thread
        BY <1>a, <1>b, <4>1 DEF Created, Homes
      <4> QED
        BY <1>b, <2>5, <4>1, <4>2, ZenonT(60) DEF Created
    <3> QED
      BY <3>1, <3>2
  <2> QED
    BY <2>7, <2>8, <2>9, <2>10 DEF RegistryInv
<1>2. CASE nextId \in TimerId /\ nextId' = nextId + 1 /\ UNCHANGED <<registry, history>>
  <2>1. \A i \in TimerId : Created(i)' => i < nextId'
    <3>1. nextId \in Nat /\ nextId' = nextId + 1 /\ \A i \in TimerId : i \in Nat
      BY <1>2, <1>c
    <3>2. \A i \in TimerId : Created(i)' => i < nextId
      BY <1>2, <1>b DEF Created, history
    <3> QED
      BY <3>1, <3>2
  <2> QED
    BY <1>2, <1>b, <2>1 DEF RegistryInv, Created, registry, history
<1>3. ASSUME NEW t \in Thread, NEW i \in TimerId, i \notin cb',
             meta' = [meta EXCEPT ![i] = NoMeta], owned' = [owned EXCEPT ![t] = @ \ {i}],
             cb' \subseteq cb, nextId' = nextId, home' = home
      PROVE  RegistryInv'
  <2>1. \A j \in TimerId : meta'[j] = IF j = i THEN NoMeta ELSE meta[j]
    BY <1>3, <1>a
  <2>2. \A u \in Thread : owned'[u] = IF u = t THEN owned[u] \ {i} ELSE owned[u]
    BY <1>3, <1>a
  <2>3. \A j \in cb : home[j].thread \in Thread
    BY <1>a, <1>b DEF Created, Homes
  <2>4. \A j \in cb' : /\ Created(j)' /\ home'[j].type \in {"timeout", "interval"}
                       /\ meta'[j].type = home'[j].type /\ j \in owned'[home'[j].thread]
    BY <1>3, <1>a, <1>b, <2>1, <2>2, <2>3 DEF Created
  <2>5. \A u \in Thread : \A j \in owned'[u] : Created(j)' /\ home'[j].thread = u
    BY <1>3, <1>b, <2>2 DEF Created
  <2>6. \A j \in TimerId : meta'[j] = NoMeta \/ (Created(j)' /\ meta'[j].type = home'[j].type)
    BY <1>3, <1>b, <2>1 DEF Created
  <2> QED
    BY <1>3, <1>b, <2>4, <2>5, <2>6 DEF RegistryInv, Created
<1>4. ASSUME NEW t \in Thread, NEW i \in TimerId, ClearTimer(t, i)
      PROVE  RegistryInv'
  BY <1>3, <1>4 DEF ClearTimer
<1>5. ASSUME NEW t \in Thread, NEW i \in TimerId, Adjusts(t, i)
      PROVE  RegistryInv'
  <2>1. PICK d \in Delay \cup {meta[i].delay}, unref \in BOOLEAN :
          meta' = [meta EXCEPT ![i] = [type |-> meta[i].type, delay |-> d, unref |-> unref]]
    BY <1>5 DEF Adjusts
  <2>2. /\ \A j \in TimerId : meta'[j].type = meta[j].type
        /\ \A j \in TimerId : j # i => meta'[j] = meta[j]
    BY <1>a, <2>1
  <2>3. UNCHANGED <<cb, owned, nextId, home>> /\ meta[i] # NoMeta
    BY <1>5 DEF Adjusts, history
  <2>4. \A j \in TimerId : meta'[j] = NoMeta \/ (Created(j)' /\ meta'[j].type = home'[j].type)
    BY <1>b, <2>2, <2>3 DEF Created
  <2> QED
    BY <1>a, <1>b, <2>2, <2>3, <2>4 DEF RegistryInv, Created
<1>6. ASSUME NEW t \in Thread, TimerEnds(t)
      PROVE  RegistryInv'
  <2> DEFINE i == run[t].id
  <2>1. i \in TimerId /\ (i \in cb => home[i].type = "interval")
    BY <1>6 DEF TimerEnds, LoopInv, RunInv, RunsAt
  <2>2. CASE meta[i].type \in {"none", "interval"}
    BY <1>6, <1>b, <2>2 DEF TimerEnds, RegistryInv, Created, history
  <2>3. CASE ~(meta[i].type \in {"none", "interval"})
    <3>1. i \notin cb
      BY <1>b, <2>1, <2>3
    <3> QED
      BY <1>3, <1>6, <2>1, <2>3, <3>1 DEF TimerEnds, Forget, history
  <2> QED
    BY <2>2, <2>3
<1>7. ASSUME NEW t \in Thread, ImmediateEnds(t)
      PROVE  RegistryInv'
  <2>1. run[t].id \in TimerId /\ home[run[t].id].type = "immediate"
    BY <1>7 DEF ImmediateEnds, LoopInv, RunInv, RunsAt
  <2>2. run[t].id \notin cb
    BY <1>b, <2>1
  <2> QED
    BY <1>3, <1>7, <2>1, <2>2 DEF ImmediateEnds, Forget, history
<1>8. ASSUME NEW t \in Thread, ForgetOwned(t)
      PROVE  RegistryInv'
  <2>1. owned[t] \cap cb = {}
    BY <1>8 DEF ForgetOwned, LoopInv, BatchInv, BatchOf
  <2>2. \A j \in TimerId : meta'[j] = IF j \in owned[t] THEN NoMeta ELSE meta[j]
    BY <1>8 DEF ForgetOwned
  <2>3. \A u \in Thread : owned'[u] = IF u = t THEN {} ELSE owned[u]
    BY <1>8, <1>a DEF ForgetOwned
  <2>4. UNCHANGED <<cb, nextId, home>>
    BY <1>8 DEF ForgetOwned, history
  <2>5. \A j \in cb : home[j].thread \in Thread
    BY <1>a, <1>b DEF Created, Homes
  <2>6. \A j \in cb' : /\ Created(j)' /\ home'[j].type \in {"timeout", "interval"}
                       /\ meta'[j].type = home'[j].type /\ j \in owned'[home'[j].thread]
    BY <1>a, <1>b, <2>1, <2>2, <2>3, <2>4, <2>5 DEF Created
  <2> QED
    BY <1>b, <2>2, <2>3, <2>4, <2>6 DEF RegistryInv, Created
<1>9. ASSUME cb' \subseteq cb, UNCHANGED <<meta, owned, nextId, home>>
      PROVE  RegistryInv'
  BY <1>9, <1>b DEF RegistryInv, Created
<1>10. ASSUME NEW t \in Thread, ExecuteTimer(t)
      PROVE  RegistryInv'
  BY <1>9, <1>10 DEF ExecuteTimer
<1> QED
  BY <1>1, <1>2, <1>4, <1>5, <1>6, <1>7, <1>8, <1>9, <1>10, RegistryStep DEF LoopInv, history

\* A timer that is cleared, or whose callback is taken out, has no callback any more.
LEMMA CallbackKept ==
  ASSUME LoopInv, [Next]_vars
  PROVE  CallbackInv'
<1>a. TypeOK /\ RegistryInv /\ CallbackInv
  BY DEF LoopInv
<1>b. cleared \cup ran \subseteq TimerId
  BY <1>a DEF TypeOK
<1>1. ASSUME UNCHANGED <<cleared, ran>>
      PROVE  CallbackInv'
  BY <1>1, <1>a, <1>b, BirthIsFinal DEF CallbackInv
<1>2. ASSUME NEW t \in Thread, NEW i \in TimerId, ClearTimer(t, i)
      PROVE  CallbackInv'
  <2>1. Created(i) /\ i \notin cb' /\ cleared' = cleared \cup {i} /\ ran' = ran
    BY <1>2 DEF ClearTimer, Handles, Created
  <2> QED
    BY <1>a, <1>b, <2>1, BirthIsFinal DEF CallbackInv
<1>3. ASSUME NEW t \in Thread, ExecuteTimer(t)
      PROVE  CallbackInv'
  <2> DEFINE i == Head(batch[t])
  <2>1. i \in TimerId
    BY <1>3, <1>a, HeadTyped DEF ExecuteTimer
  <2>2. CASE meta[i].type = "interval"
    BY <1>1, <1>3, <2>2 DEF ExecuteTimer
  <2>3. CASE meta[i].type # "interval"
    <3>1. i \in cb /\ i \notin cb' /\ ran' = ran \cup {i} /\ cleared' = cleared
      BY <1>3, <2>3 DEF ExecuteTimer
    <3>2. Created(i)
      BY <1>a, <3>1 DEF RegistryInv
    <3> QED
      BY <1>a, <1>b, <2>1, <3>1, <3>2, BirthIsFinal DEF CallbackInv
  <2> QED
    BY <2>2, <2>3
<1> QED
  BY <1>1, <1>2, <1>3, <1>a, RegistryStep
     DEF Creates, Adjusts, TimerEnds, ImmediateEnds, ForgetOwned, history

-----------------------------------------------------------------------------
(* The threads *)

\* Elsewhere than at the stations and in the script nothing runs.
LEMMA NothingRuns ==
  ASSUME LoopInv, NEW t \in Thread,
         pc[t] \notin TickStation \cup MicroStation \cup TimerStation \cup CheckStation \cup {"script"}
  PROVE  run[t].js = "none"
<1>1. run[t].js \in {"none", "script", "tick", "micro", "timer", "immediate"}
  BY DEF LoopInv, TypeOK
<1> QED
  BY <1>1 DEF LoopInv, RunInv, RunsAt

\* The place after a station is not the script.
LEMMA AfterStation ==
  ASSUME NEW p \in TickStation \cup MicroStation \cup TimerStation \cup CheckStation
  PROVE  /\ After[p] \notin TimerStation \cup CheckStation \cup {"script", "dropping", "wait", "done"}
         /\ p \notin {"script", "dropping", "done"}
  BY Successors DEF TickStation, MicroStation, TimerStation, CheckStation

\* Every step keeps a thread running JavaScript only where the loop calls it.
LEMMA RunKept ==
  ASSUME LoopInv, [Next]_vars
  PROVE  RunInv'
<1> SUFFICES ASSUME NEW u \in Thread PROVE RunsAt(u)'
  BY DEF RunInv
<1>a. TypeOK /\ RegistryInv /\ RunsAt(u) /\ BatchOf(u)
  BY DEF LoopInv, RunInv, BatchInv
<1>b. /\ pc \in [Thread -> Pc] /\ DOMAIN run = Thread
      /\ run[u] \in [js : {"none", "script", "tick", "micro", "timer", "immediate"},
                     id : TimerId \cup {0}]
  BY <1>a DEF TypeOK
<1>1. ASSUME pc'[u] = pc[u], run'[u] = run[u]
      PROVE  RunsAt(u)'
  <2>1. run[u].js \in {"timer", "immediate"} =>
          /\ run[u].id \in TimerId /\ Created(run[u].id)
          /\ home'[run[u].id] = home[run[u].id]
          /\ (run[u].id \notin cb => run[u].id \notin cb')
    <3> SUFFICES ASSUME run[u].js \in {"timer", "immediate"}
                 PROVE  /\ run[u].id \in TimerId /\ Created(run[u].id)
                        /\ home'[run[u].id] = home[run[u].id]
                        /\ (run[u].id \notin cb => run[u].id \notin cb')
      OBVIOUS
    <3>1. run[u].id \in TimerId /\ Created(run[u].id)
      BY <1>a DEF RunsAt
    <3> QED
      BY <1>a, <3>1, BirthIsFinal
  <2> QED
    BY <1>1, <1>a, <2>1 DEF RunsAt, Created
<1>2. ASSUME run'[u].js = "none", pc'[u] # "script"
      PROVE  RunsAt(u)'
  BY <1>2 DEF RunsAt
<1>3. CASE Script(u) \/ Elapse(u)
  <2>1. UNCHANGED <<pc, run>>
    BY <1>3 DEF Script, SetTimeout, SetInterval, SetTimeoutZero, SetImmediate, NextTick,
                QueueMicrotask, ClearTimer, Refresh, SetUnref, SetDelay, Calls, control, Elapse
  <2> QED
    BY <1>1, <2>1
<1>4. CASE ScriptEnds(u) \/ QueuedEnds(u) \/ TimerEnds(u) \/ ImmediateEnds(u)
  <2>1. run'[u].js = "none"
    BY <1>4, <1>b DEF ScriptEnds, QueuedEnds, TimerEnds, ImmediateEnds, Stop, Idle
  <2>2. pc'[u] # "script"
    BY <1>4, <1>a, <1>b DEF ScriptEnds, QueuedEnds, TimerEnds, ImmediateEnds, Goto, RunsAt
  <2> QED
    BY <1>2, <2>1, <2>2
<1>5. CASE Advance(u) \/ EndCheck(u)
  <2>1. run'[u].js = "none"
    BY <1>5 DEF Advance, EndCheck, At
  <2>2. pc'[u] = After[pc[u]]
    BY <1>5, <1>b DEF Advance, EndCheck, Goto
  <2>3. After[pc[u]] # "script"
    BY <1>5, AfterStation DEF Advance, EndCheck, At
  <2> QED
    BY <1>2, <2>1, <2>2, <2>3
<1>6. CASE \/ Top(u) \/ Work(u) \/ WorkQueued(u) \/ ExitLook(u) \/ LeaveWait(u)
           \/ WaitValve(u) \/ Poll(u)
           \/ DrainImmediates(u) \/ Exit(u) \/ ExitFinal(u)
  <2>1. run'[u].js = "none"
    BY <1>6 DEF Top, Work, WorkQueued, ExitLook, LeaveWait, WaitValve, Poll, DrainImmediates,
                Exit, ExitFinal, At
  <2>2. pc'[u] # "script"
    BY <1>6, <1>b DEF Top, Work, WorkQueued, ExitLook, LeaveWait, WaitValve, Poll,
                      DrainImmediates, Exit, ExitFinal, Goto
  <2> QED
    BY <1>2, <2>1, <2>2
<1>7. CASE DropInactive(u) \/ HandBack(u) \/ SkipTaken(u)
  BY <1>1, <1>7 DEF DropInactive, HandBack, SkipTaken
<1>8. CASE Cleanup(u) \/ CancelOwned(u) \/ ForgetOwned(u)
  <2>1. pc[u] \in {"done", "dropping"} /\ UNCHANGED run
    BY <1>8 DEF Cleanup, CancelOwned, ForgetOwned
  <2>2. run'[u].js = "none"
    BY <2>1, NothingRuns DEF TickStation, MicroStation, TimerStation, CheckStation
  <2>3. pc'[u] # "script"
    BY <1>8, <1>b DEF Cleanup, CancelOwned, ForgetOwned, Goto
  <2> QED
    BY <1>2, <2>2, <2>3
<1>9. CASE RunTick(u) \/ RunMicro(u) \/ ExecuteAgain(u)
  <2>1. \/ run'[u].js = "tick" /\ pc'[u] \in TickStation
        \/ run'[u].js = "micro" /\ pc'[u] \in MicroStation
        \/ run'[u].js = "script" /\ pc'[u] = "script"
    BY <1>9, <1>b DEF RunTick, RunMicro, ExecuteAgain, At, Start, Goto
  <2> QED
    BY <2>1 DEF RunsAt, TickStation, MicroStation
<1>10. CASE ExecuteTimer(u)
  <2> DEFINE i == Head(batch[u])
  <2>1. i \in TimerId
    BY <1>10, <1>a, HeadTyped DEF ExecuteTimer
  <2>2. /\ run'[u].js = "timer" /\ run'[u].id = i /\ pc'[u] \in TimerStation /\ i \in cb
        /\ home' = home /\ (i \in cb' => meta[i].type = "interval")
    BY <1>10, <1>b DEF ExecuteTimer, At, Start
  <2>3. home'[i] # NoHome /\ (i \in cb' => home'[i].type = "interval")
    <3>1. Created(i) /\ meta[i].type = home[i].type
      BY <1>a, <2>2 DEF RegistryInv
    <3> QED
      BY <2>2, <3>1 DEF Created
  <2>4. pc'[u] # "script"
    BY <2>2 DEF TimerStation
  <2>5. /\ run'[u].id \in TimerId /\ home'[run'[u].id] # NoHome
        /\ (run'[u].id \in cb' => home'[run'[u].id].type = "interval")
    BY <2>1, <2>2, <2>3
  <2> HIDE DEF i
  <2> QED
    BY <2>2, <2>4, <2>5 DEF RunsAt, Created
<1>11. CASE RunImmediate(u)
  <2> DEFINE i == Head(batch[u])
  <2>1. /\ run'[u].js = "immediate" /\ run'[u].id = i /\ pc'[u] \in CheckStation
        /\ pc[u] \in CheckStation /\ home' = home /\ batch[u] # <<>>
    BY <1>11, <1>b DEF RunImmediate, At, Start, history
  <2>2. i \in TimerId /\ batch[u] \in Seq(TimerId)
    BY <1>a, <2>1, HeadTyped
  <2>3. 1 \in DOMAIN batch[u] /\ i = batch[u][1]
    BY <2>1, <2>2
  <2>4. Created(i) /\ home[i].type = "immediate"
    BY <1>a, <2>1, <2>3 DEF BatchOf
  <2> QED
    BY <2>1, <2>2, <2>4 DEF RunsAt, Created, CheckStation
<1>12. CASE Rests(u)
  BY <1>1, <1>12 DEF Rests
<1> QED
  BY <1>3, <1>4, <1>5, <1>6, <1>7, <1>8, <1>9, <1>10, <1>11, <1>12, <1>a, ThreadStep
     DEF Acts, Loop, Lifetime

\* Every step keeps the setImmediate queues for immediates.
LEMMA ImmediateKept ==
  ASSUME LoopInv, [Next]_vars
  PROVE  ImmediateInv'
<1> SUFFICES ASSUME NEW u \in Thread PROVE QueueOf(u)'
  BY DEF ImmediateInv
<1>a. TypeOK /\ RegistryInv /\ QueueOf(u) /\ imm[u] \subseteq [id : TimerId, deferred : BOOLEAN]
  BY DEF LoopInv, ImmediateInv, TypeOK
<1>b. imm \in [Thread -> SUBSET [id : TimerId, deferred : BOOLEAN]]
  BY <1>a DEF TypeOK
<1>c. \A e \in imm[u] : /\ e.id \in TimerId
                        /\ Created(e.id)' /\ home'[e.id].type = "immediate"
  BY <1>a, BirthIsFinal DEF QueueOf
<1>1. ASSUME \A e \in imm'[u] : \E f \in imm[u] : f.id = e.id
      PROVE  QueueOf(u)'
  BY <1>1, <1>c DEF QueueOf
<1>2. CASE Rests(u)
  BY <1>1, <1>2 DEF Rests
<1>3. CASE SetImmediate(u)
  <2>1. /\ nextId \in TimerId /\ imm'[u] = imm[u] \cup {[id |-> nextId, deferred |-> FALSE]}
        /\ home' = [home EXCEPT ![nextId] = [thread |-> u, type |-> "immediate"]]
    BY <1>3, <1>b DEF SetImmediate, Born
  <2>2. home'[nextId] = [thread |-> u, type |-> "immediate"]
    BY <1>a, <2>1 DEF TypeOK
  <2>3. home'[nextId] # NoHome /\ home'[nextId].type = "immediate"
    BY <2>2 DEF NoHome
  <2> QED
    BY <1>c, <2>1, <2>3 DEF QueueOf, Created
<1>4. ASSUME NEW i \in TimerId, ClearTimer(u, i)
      PROVE  QueueOf(u)'
  BY <1>1, <1>4, <1>b DEF ClearTimer
<1>5. CASE Top(u) \/ EndCheck(u) \/ DrainImmediates(u) \/ ExecuteAgain(u) \/ Cleanup(u)
  BY <1>1, <1>5, <1>b DEF Top, EndCheck, DrainImmediates, Deferred, ExecuteAgain, Cleanup
<1>6. CASE \/ \E d \in Delay : SetTimeout(u, d) \/ SetInterval(u, d)
           \/ SetTimeoutZero(u) \/ NextTick(u) \/ QueueMicrotask(u)
           \/ \E i \in TimerId : Refresh(u, i)
           \/ \E i \in TimerId, unref \in BOOLEAN : SetUnref(u, i, unref)
           \/ \E i \in TimerId, d \in Delay : SetDelay(u, i, d)
  <2>1. imm' = imm
    BY <1>6 DEF SetTimeout, SetInterval, Create, SetTimeoutZero, NextTick, QueueMicrotask, Refresh,
                SetUnref, SetDelay, queues
  <2> QED
    BY <1>1, <2>1
<1>7. CASE \/ ScriptEnds(u) \/ QueuedEnds(u) \/ TimerEnds(u) \/ ImmediateEnds(u)
           \/ RunTick(u) \/ RunMicro(u) \/ Advance(u) \/ Work(u) \/ WorkQueued(u)
           \/ ExitLook(u) \/ LeaveWait(u)
           \/ Poll(u) \/ DropInactive(u) \/ HandBack(u) \/ SkipTaken(u) \/ ExecuteTimer(u)
           \/ RunImmediate(u) \/ Exit(u) \/ ExitFinal(u) \/ WaitValve(u) \/ Elapse(u)
           \/ CancelOwned(u) \/ ForgetOwned(u)
  <2>1. imm' = imm
    BY <1>7 DEF ScriptEnds, QueuedEnds, TimerEnds, ImmediateEnds, RunTick, RunMicro, Advance,
                Work, WorkQueued, ExitLook,
           LeaveWait, Poll, DropInactive, HandBack, SkipTaken, ExecuteTimer, RunImmediate, Exit,
           ExitFinal, WaitValve, Elapse, CancelOwned, ForgetOwned, queues
  <2> QED
    BY <1>1, <2>1
<1> QED
  BY <1>2, <1>3, <1>4, <1>5, <1>6, <1>7, <1>a, ThreadStep DEF Acts, Script, Loop, Lifetime

\* Every step keeps the batches of the threads in order.
LEMMA BatchKept ==
  ASSUME LoopInv, [Next]_vars
  PROVE  BatchInv'
<1> SUFFICES ASSUME NEW u \in Thread PROVE BatchOf(u)'
  BY DEF BatchInv
<1>a. TypeOK /\ RegistryInv /\ RunsAt(u) /\ QueueOf(u) /\ BatchOf(u)
  BY DEF LoopInv, RunInv, ImmediateInv, BatchInv
<1>b. /\ DOMAIN pc = Thread /\ batch \in [Thread -> Seq(TimerId)] /\ batch[u] \in Seq(TimerId)
      /\ owned[u] \subseteq TimerId
  BY <1>a DEF TypeOK
<1>c. \A n \in DOMAIN batch[u] : batch[u][n] \in TimerId
  BY <1>b
<1>d. /\ "dropping" \notin TickStation \cup MicroStation \cup TimerStation \cup CheckStation
      /\ TimerStation \cap CheckStation = {}
  BY DEF TickStation, MicroStation, TimerStation, CheckStation
<1>1. ASSUME pc'[u] = pc[u], DOMAIN batch'[u] \subseteq Nat,
             \A n \in DOMAIN batch'[u] : \E m \in DOMAIN batch[u] : batch'[u][n] = batch[u][m],
             batch[u] = <<>> => batch'[u] = <<>>, pc[u] = "dropping" => owned'[u] = owned[u]
      PROVE  BatchOf(u)'
  <2>1. \A i \in TimerId : Created(i) => home'[i] = home[i] /\ (i \notin cb => i \notin cb')
    BY <1>a, BirthIsFinal
  <2>2. ASSUME pc[u] \in CheckStation, NEW n \in DOMAIN batch'[u]
        PROVE  home'[batch'[u][n]] # NoHome /\ home'[batch'[u][n]].type = "immediate"
    <3>1. PICK m \in DOMAIN batch[u] : batch'[u][n] = batch[u][m]
      BY <1>1
    <3>2. Created(batch[u][m]) /\ home[batch[u][m]].type = "immediate"
      BY <1>a, <2>2 DEF BatchOf
    <3> QED
      BY <1>c, <2>1, <3>1, <3>2 DEF Created
  <2>3. ASSUME pc[u] = "dropping"
        PROVE  /\ owned'[u] \cap cb' = {}
               /\ \A n \in DOMAIN batch'[u] : batch'[u][n] \in owned'[u]
    <3>1. owned[u] \cap cb = {} /\ \A n \in DOMAIN batch[u] : batch[u][n] \in owned[u]
      BY <1>a, <2>3 DEF BatchOf
    <3>2. \A i \in owned[u] : i \in TimerId /\ Created(i)
      BY <1>a, <1>b DEF RegistryInv
    <3>3. owned'[u] = owned[u]
      BY <1>1, <2>3
    <3>4. owned[u] \cap cb' = {}
      BY <2>1, <3>1, <3>2
    <3> QED
      BY <1>1, <3>1, <3>3, <3>4
  <2>4. pc'[u] \notin TimerStation \cup CheckStation \cup {"dropping"} => batch'[u] = <<>>
    BY <1>1, <1>a DEF BatchOf
  <2> QED
    BY <1>1, <2>2, <2>3, <2>4 DEF BatchOf, Created
<1>2. ASSUME pc'[u] = pc[u], batch'[u] = batch[u], pc[u] = "dropping" => owned'[u] = owned[u]
      PROVE  BatchOf(u)'
  BY <1>1, <1>2, <1>b
<1>3. ASSUME pc'[u] = pc[u], batch'[u] = Tail(batch[u]), batch[u] # <<>>,
             pc[u] = "dropping" => owned'[u] = owned[u]
      PROVE  BatchOf(u)'
  <2>1. /\ Tail(batch[u]) \in Seq(TimerId) /\ Len(Tail(batch[u])) = Len(batch[u]) - 1
        /\ \A n \in 1..Len(Tail(batch[u])) : Tail(batch[u])[n] = batch[u][n + 1]
        /\ Len(batch[u]) \in Nat
    BY <1>3, <1>b, HeadTailProperties, LenProperties
  <2>2. /\ DOMAIN Tail(batch[u]) = 1..(Len(batch[u]) - 1)
        /\ DOMAIN batch[u] = 1..Len(batch[u])
    BY <1>b, <2>1, LenProperties
  <2>3. \A n \in 1..(Len(batch[u]) - 1) : n + 1 \in 1..Len(batch[u])
    BY <2>1
  <2>4. DOMAIN batch'[u] \subseteq Nat
    BY <1>3, <2>2
  <2>5. \A n \in DOMAIN batch'[u] : \E m \in DOMAIN batch[u] : batch'[u][n] = batch[u][m]
    BY <1>3, <2>1, <2>2, <2>3
  <2> QED
    BY <1>1, <1>3, <2>4, <2>5
<1>4. ASSUME batch'[u] = <<>>, pc'[u] # "dropping"
      PROVE  BatchOf(u)'
  BY <1>4 DEF BatchOf
<1>5. ASSUME pc'[u] \in TimerStation
      PROVE  BatchOf(u)'
  BY <1>5, <1>d DEF BatchOf
<1>6. CASE Script(u)
  <2>1. run[u].js # "none" /\ UNCHANGED <<pc, batch>>
    BY <1>6 DEF Script, SetTimeout, SetInterval, SetTimeoutZero, SetImmediate, NextTick,
                QueueMicrotask, ClearTimer, Refresh, SetUnref, SetDelay, Calls, control
  <2>2. pc[u] # "dropping"
    BY <2>1, <1>d, NothingRuns
  <2> QED
    BY <1>2, <2>1, <2>2
<1>7. CASE \/ QueuedEnds(u) \/ TimerEnds(u) \/ ImmediateEnds(u)
           \/ RunTick(u) \/ RunMicro(u) \/ Elapse(u)
  <2>1. UNCHANGED <<pc, batch>>
    BY <1>7 DEF QueuedEnds, TimerEnds, ImmediateEnds, RunTick, RunMicro, Elapse
  <2>2. run[u].js # "none" \/ At(u, TickStation) \/ At(u, MicroStation) \/ UNCHANGED owned
    BY <1>7 DEF QueuedEnds, TimerEnds, ImmediateEnds, RunTick, RunMicro, Elapse, registry
  <2>3. pc[u] = "dropping" => UNCHANGED owned
    BY <2>2, <1>d, NothingRuns DEF At
  <2> QED
    BY <1>2, <2>1, <2>3
<1>8. CASE \/ ScriptEnds(u) \/ Advance(u) \/ EndCheck(u)
           \/ Top(u) \/ Work(u) \/ WorkQueued(u) \/ ExitLook(u) \/ LeaveWait(u)
           \/ WaitValve(u) \/ ExitFinal(u)
           \/ ExecuteAgain(u) \/ ForgetOwned(u)
  <2>1. CASE ScriptEnds(u)
    <3>1. pc[u] = "script"
      BY <2>1, <1>a DEF ScriptEnds, RunsAt
    <3>2. batch[u] = <<>>
      BY <1>a, <3>1 DEF BatchOf, TimerStation, CheckStation, Deciding
    <3>3. batch'[u] = <<>> /\ pc'[u] # "dropping"
      BY <2>1, <1>b, <3>2 DEF ScriptEnds, Goto
    <3> QED
      BY <1>4, <3>3
  <2>2. CASE Advance(u) \/ EndCheck(u)
    <3>1. pc[u] \in TickStation \cup MicroStation \cup TimerStation \cup CheckStation
      BY <2>2 DEF Advance, EndCheck, At
    <3>2. batch[u] = <<>>
      BY <2>2, <1>a DEF Advance, EndCheck, At, BatchOf, TickStation, MicroStation, TimerStation,
                        CheckStation
    <3>3. batch'[u] = <<>> /\ pc'[u] = After[pc[u]]
      BY <2>2, <1>b, <3>2 DEF Advance, EndCheck, Goto
    <3>4. After[pc[u]] # "dropping"
      BY <3>1, AfterStation
    <3> QED
      BY <1>4, <3>3, <3>4
  <2>3. CASE \/ Top(u) \/ Work(u) \/ WorkQueued(u) \/ ExitLook(u) \/ LeaveWait(u)
             \/ WaitValve(u) \/ ExitFinal(u)
             \/ ExecuteAgain(u)
    <3>1. pc[u] \in Deciding \cup {"top", "wait", "exitF", "done"} /\ UNCHANGED batch
      BY <2>3 DEF Top, Work, WorkQueued, ExitLook, LeaveWait, WaitValve, ExitFinal, ExecuteAgain,
                  At, Deciding
    <3>2. batch[u] = <<>>
      BY <1>a, <3>1 DEF BatchOf, TimerStation, CheckStation, Deciding
    <3>3. pc'[u] # "dropping"
      BY <2>3, <1>b DEF Top, Work, WorkQueued, ExitLook, LeaveWait, WaitValve, ExitFinal,
                        ExecuteAgain, Goto
    <3> QED
      BY <1>4, <3>1, <3>2, <3>3
  <2>4. CASE ForgetOwned(u)
    BY <2>4, <1>4, <1>b DEF ForgetOwned, Goto
  <2> QED
    BY <1>8, <2>1, <2>2, <2>3, <2>4
<1>9. CASE Poll(u)
  BY <1>5, <1>9, <1>b DEF Poll, Goto, TimerStation
<1>10. CASE Exit(u)
  <2>1. pc[u] \in {"exitNone", "exitFired"}
    BY <1>10 DEF Exit, At
  <2>2. batch[u] = <<>>
    BY <1>a, <2>1 DEF BatchOf, TimerStation, CheckStation
  <2>3. CASE pc[u] = "exitNone"
    <3>1. pc'[u] \in {"tickF", "top"} /\ batch' = batch
      BY <1>10, <1>b, <2>3 DEF Exit, Goto
    <3> QED
      BY <1>4, <2>2, <3>1
  <2>4. CASE pc[u] # "exitNone"
    <3>1. pc'[u] = "late"
      BY <1>10, <1>b, <2>4 DEF Exit, Goto
    <3> QED
      BY <1>5, <3>1 DEF TimerStation
  <2> QED
    BY <2>3, <2>4
<1>11. CASE DropInactive(u) \/ HandBack(u) \/ SkipTaken(u) \/ ExecuteTimer(u)
  BY <1>5, <1>11 DEF DropInactive, HandBack, SkipTaken, ExecuteTimer, At, TimerStation
<1>12. CASE RunImmediate(u) \/ CancelOwned(u)
  BY <1>3, <1>12, <1>b DEF RunImmediate, CancelOwned, Next1, registry
<1>13. CASE DrainImmediates(u)
  <2> DEFINE Q == IF pc[u] = "checkF" THEN Deferred(imm[u], FALSE) ELSE imm[u]
             S == {e.id : e \in {e \in Q : ~e.deferred}}
  <2>1. \A i \in S : \E e \in imm[u] : i = e.id
    BY DEF Deferred
  <2>2. \A i \in S : Created(i) /\ home[i].type = "immediate"
    BY <1>a, <2>1 DEF QueueOf
  <2>3. S \in SUBSET TimerId
    <3>1. imm[u] \subseteq [id : TimerId, deferred : BOOLEAN]
      BY <1>a DEF TypeOK
    <3> HIDE DEF S
    <3> QED
      BY <2>1, <3>1
  <2>4. PICK order \in Ascending(S) : batch' = [batch EXCEPT ![u] = order]
    BY <1>13 DEF DrainImmediates
  <2>5. pc'[u] \in CheckStation /\ home' = home
    BY <1>13, <1>b DEF DrainImmediates, Goto, CheckStation, history
  <2> HIDE DEF S
  <2>6. order \in Orders(S)
    BY DEF Ascending
  <2>7. order \in Seq(S)
    BY <2>3, <2>6, OrderTyped
  <2>8. \A n \in DOMAIN order : order[n] \in S
    BY <2>7
  <2>9. batch'[u] = order
    BY <1>b, <2>4
  <2>10. \A n \in DOMAIN batch'[u] :
           home'[batch'[u][n]] # NoHome /\ home'[batch'[u][n]].type = "immediate"
    BY <2>2, <2>5, <2>8, <2>9 DEF Created
  <2> QED
    BY <1>d, <2>5, <2>10 DEF BatchOf, Created
<1>14. CASE Cleanup(u)
  <2>1. PICK order \in Orders(owned[u]) : batch' = [batch EXCEPT ![u] = order]
    BY <1>14 DEF Cleanup
  <2>2. order \in Seq(owned[u])
    BY <1>b, OrderTyped
  <2>3. \A n \in DOMAIN order : order[n] \in owned[u]
    BY <2>2
  <2>4. batch'[u] = order
    BY <1>b, <2>1
  <2>5. pc'[u] = "dropping" /\ owned' = owned /\ cb' = {}
    BY <1>14, <1>b DEF Cleanup, Goto
  <2> QED
    BY <1>d, <2>3, <2>4, <2>5 DEF BatchOf
<1>15. CASE Rests(u)
  BY <1>2, <1>15 DEF Rests
<1> QED
  BY <1>6, <1>7, <1>8, <1>9, <1>10, <1>11, <1>12, <1>13, <1>14, <1>15, <1>a, ThreadStep
     DEF Acts, Loop, Lifetime

-----------------------------------------------------------------------------
(* The command channel *)

\* The command is sent in this step.
Sends(op, i) ==
  /\ TrySend(op, i) /\ i \in TimerId
  /\ \/ /\ op = "cancel"
        /\ \E t \in Thread : \/ ClearTimer(t, i)
                             \/ CancelOwned(t) /\ batch[t] # <<>> /\ i = Head(batch[t])
     \/ /\ op = "repeat" /\ i = nextId
        /\ \E t \in Thread, d \in Delay : SetInterval(t, d)
     \/ /\ op = "once"
        /\ \E t \in Thread :
             \/ \E d \in Delay : SetTimeout(t, d) /\ i = nextId
             \/ Refresh(t, i) /\ meta[i] # NoMeta
             \/ \E d \in Delay : SetDelay(t, i, d) /\ home[i].type # "immediate"

\* The channel changes only by a command sent or by the first one being handled.
LEMMA ChannelStep ==
  ASSUME TypeOK, [Next]_vars
  PROVE  UNCHANGED cmds \/ HandleCommand
         \/ \E op \in {"once", "repeat", "cancel"}, i \in TimerId : Sends(op, i)
<1> DEFINE Sent == \E op \in {"once", "repeat", "cancel"}, i \in TimerId : Sends(op, i)
<1>1. ASSUME Manager \/ UNCHANGED vars
      PROVE  UNCHANGED cmds \/ HandleCommand
  BY <1>1 DEF Manager, PopDue, Publish, vars, manager
<1>2. ASSUME NEW t \in Thread, NEW d \in Delay, SetTimeout(t, d)
      PROVE  Sent
  <2>1. nextId \in TimerId /\ TrySend("once", nextId)
    BY <1>2 DEF SetTimeout, Create
  <2>2. Sends("once", nextId)
    BY <1>2, <2>1 DEF Sends
  <2> QED
    BY <2>1, <2>2
<1>3. ASSUME NEW t \in Thread, NEW d \in Delay, SetInterval(t, d)
      PROVE  Sent
  <2>1. nextId \in TimerId /\ TrySend("repeat", nextId)
    BY <1>3 DEF SetInterval, Create
  <2>2. Sends("repeat", nextId)
    BY <1>3, <2>1 DEF Sends
  <2> QED
    BY <2>1, <2>2
<1>4. ASSUME NEW t \in Thread, NEW i \in TimerId, ClearTimer(t, i)
      PROVE  Sent
  <2>1. TrySend("cancel", i)
    BY <1>4 DEF ClearTimer
  <2>2. \E u \in Thread : \/ ClearTimer(u, i)
                          \/ CancelOwned(u) /\ batch[u] # <<>> /\ i = Head(batch[u])
    BY <1>4, Zenon
  <2>3. Sends("cancel", i)
    BY <2>1, <2>2 DEF Sends
  <2> QED
    BY <2>3
<1>5. ASSUME NEW t \in Thread, NEW i \in TimerId, Refresh(t, i)
      PROVE  Sent \/ UNCHANGED cmds
  <2>1. CASE meta[i] # NoMeta
    <3>1. TrySend("once", i)
      BY <1>5, <2>1 DEF Refresh
    <3>2. Sends("once", i)
      BY <1>5, <2>1, <3>1 DEF Sends
    <3> QED
      BY <3>2
  <2> QED
    BY <1>5, <2>1 DEF Refresh
<1>6. ASSUME NEW t \in Thread, NEW i \in TimerId, NEW d \in Delay, SetDelay(t, i, d)
      PROVE  Sent \/ UNCHANGED cmds
  <2>1. CASE home[i].type # "immediate" /\ d > 0
    <3>1. TrySend("once", i)
      BY <1>6, <2>1 DEF SetDelay
    <3>2. Sends("once", i)
      BY <1>6, <2>1, <3>1 DEF Sends
    <3> QED
      BY <3>2
  <2> QED
    BY <1>6, <2>1 DEF SetDelay
<1>7. ASSUME NEW t \in Thread,
             \/ SetTimeoutZero(t) \/ SetImmediate(t) \/ NextTick(t) \/ QueueMicrotask(t)
             \/ \E i \in TimerId, unref \in BOOLEAN : SetUnref(t, i, unref)
      PROVE  UNCHANGED cmds
  BY <1>7 DEF SetTimeoutZero, SetImmediate, NextTick, QueueMicrotask, SetUnref, manager
<1>8. ASSUME NEW t \in Thread, CancelOwned(t)
      PROVE  Sent
  <2>1. batch[t] # <<>> /\ TrySend("cancel", Head(batch[t]))
    BY <1>8 DEF CancelOwned
  <2>2. Head(batch[t]) \in TimerId
    BY <2>1, HeadTyped
  <2>3. Sends("cancel", Head(batch[t]))
    BY <1>8, <2>1, <2>2 DEF Sends
  <2> QED
    BY <2>2, <2>3
<1>9. ASSUME NEW t \in Thread,
             \/ Loop(t) \/ WaitValve(t) \/ Elapse(t)
             \/ ExecuteAgain(t) \/ Cleanup(t) \/ ForgetOwned(t)
      PROVE  UNCHANGED cmds
  BY <1>9 DEF Loop, ScriptEnds, QueuedEnds, TimerEnds, ImmediateEnds, RunTick, RunMicro, Advance,
              Top, Work, WorkQueued, ExitLook, LeaveWait, Poll, DropInactive, HandBack, SkipTaken,
              ExecuteTimer,
              DrainImmediates, RunImmediate, EndCheck, Exit, ExitFinal, WaitValve, Elapse,
              ExecuteAgain, Cleanup, ForgetOwned, manager
<1> HIDE DEF Sent
<1>10. UNCHANGED cmds \/ HandleCommand \/ Sent
  BY <1>1, <1>2, <1>3, <1>4, <1>5, <1>6, <1>7, <1>8, <1>9 DEF Next, Script, Lifetime, Manager
<1> QED
  BY <1>10 DEF Sent

\* What is in the channel after a step was there before or is sent in the step.
LEMMA ChannelMembers ==
  ASSUME TypeOK, [Next]_vars, NEW n \in DOMAIN cmds'
  PROVE  \/ \E m \in DOMAIN cmds : cmds'[n] = cmds[m]
         \/ \E op \in {"once", "repeat", "cancel"}, i \in TimerId :
              cmds'[n] = [op |-> op, id |-> i] /\ Sends(op, i)
<1> DEFINE C == [op : {"once", "repeat", "cancel"}, id : TimerId]
<1>a. cmds \in Seq(C) /\ Len(cmds) \in Nat /\ DOMAIN cmds = 1..Len(cmds)
  BY LenProperties DEF TypeOK
<1>1. CASE UNCHANGED cmds
  BY <1>1
<1>2. CASE HandleCommand
  <2>1. cmds # <<>> /\ cmds' = Tail(cmds)
    BY <1>2 DEF HandleCommand
  <2>2. /\ Tail(cmds) \in Seq(C) /\ Len(Tail(cmds)) = Len(cmds) - 1
        /\ \A k \in 1..Len(Tail(cmds)) : Tail(cmds)[k] = cmds[k + 1]
    BY <1>a, <2>1, HeadTailProperties
  <2>3. n \in 1..(Len(cmds) - 1)
    BY <2>1, <2>2, LenProperties
  <2>4. n + 1 \in DOMAIN cmds /\ cmds'[n] = cmds[n + 1]
    BY <1>a, <2>1, <2>2, <2>3
  <2> QED
    BY <2>4
<1>3. ASSUME NEW op \in {"once", "repeat", "cancel"}, NEW i \in TimerId,
             Sends(op, i)
      PROVE  \/ \E m \in DOMAIN cmds : cmds'[n] = cmds[m]
             \/ cmds'[n] = [op |-> op, id |-> i] /\ Sends(op, i)
  <2> DEFINE c == [op |-> op, id |-> i]
  <2>1. c \in C /\ c.op = op /\ c.id = i
    OBVIOUS
  <2>2. TrySend(op, i)
    BY <1>3 DEF Sends
  <2>3. cmds' = cmds \/ cmds' = Append(cmds, c)
    BY <2>2 DEF TrySend
  <2> HIDE DEF c
  <2>4. CASE cmds' = Append(cmds, c)
    <3>1. /\ Append(cmds, c) \in Seq(C) /\ Len(Append(cmds, c)) = Len(cmds) + 1
          /\ \A k \in 1..Len(cmds) : Append(cmds, c)[k] = cmds[k]
          /\ Append(cmds, c)[Len(cmds) + 1] = c
      BY <1>a, <2>1, AppendProperties
    <3>2. n \in 1..(Len(cmds) + 1)
      BY <2>4, <3>1, LenProperties
    <3>3. CASE n \in 1..Len(cmds)
      BY <1>a, <2>4, <3>1, <3>3
    <3>4. CASE n = Len(cmds) + 1
      <4>1. cmds'[n] = c
        BY <2>4, <3>1, <3>4
      <4> QED
        BY <1>3, <4>1 DEF c
    <3> QED
      BY <1>a, <3>2, <3>3, <3>4
  <2> QED
    BY <2>3, <2>4
<1> QED
  BY <1>1, <1>2, <1>3, ChannelStep

\* Every step keeps the cancels for timers without callback.
LEMMA CancelKept ==
  ASSUME LoopInv, [Next]_vars
  PROVE  CancelInv'
<1>a. TypeOK /\ RegistryInv /\ BatchInv /\ CancelInv
  BY DEF LoopInv
<1> SUFFICES ASSUME NEW n \in DOMAIN cmds', cmds'[n].op = "cancel"
             PROVE  home'[cmds'[n].id] # NoHome /\ cmds'[n].id \notin cb'
  BY DEF CancelInv, Created
<1>1. ASSUME NEW m \in DOMAIN cmds, cmds'[n] = cmds[m]
      PROVE  home'[cmds'[n].id] # NoHome /\ cmds'[n].id \notin cb'
  <2>1. cmds[m].id \in TimerId
    <3>1. cmds \in Seq([op : {"once", "repeat", "cancel"}, id : TimerId])
      BY <1>a DEF TypeOK
    <3>2. cmds[m] \in [op : {"once", "repeat", "cancel"}, id : TimerId]
      BY <3>1, ElementOfSeq, LenProperties
    <3> QED
      BY <3>2
  <2>2. Created(cmds[m].id) /\ cmds[m].id \notin cb
    BY <1>1, <1>a DEF CancelInv
  <2>3. home'[cmds[m].id] = home[cmds[m].id] /\ cmds[m].id \notin cb'
    BY <1>a, <2>1, <2>2, BirthIsFinal
  <2> QED
    BY <1>1, <2>2, <2>3 DEF Created
<1>2. ASSUME NEW op \in {"once", "repeat", "cancel"}, NEW i \in TimerId,
             cmds'[n] = [op |-> op, id |-> i], Sends(op, i)
      PROVE  home'[i] # NoHome /\ i \notin cb'
  <2>1. PICK t \in Thread : \/ ClearTimer(t, i)
                            \/ CancelOwned(t) /\ batch[t] # <<>> /\ i = Head(batch[t])
    <3>1. op = "cancel"
      BY <1>2
    <3> QED
      BY <1>2, <3>1 DEF Sends
  <2>3. CASE ClearTimer(t, i)
    BY <2>3 DEF ClearTimer, Handles
  <2>4. CASE CancelOwned(t) /\ batch[t] # <<>> /\ i = Head(batch[t])
    <3>1. 1 \in DOMAIN batch[t] /\ i = batch[t][1]
      BY <1>a, <2>4, HeadTyped
    <3>2. i \in owned[t] /\ i \notin cb
      BY <1>a, <2>4, <3>1 DEF CancelOwned, BatchInv, BatchOf
    <3>3. Created(i)
      BY <1>a, <3>2 DEF RegistryInv
    <3> QED
      BY <2>4, <3>2, <3>3 DEF CancelOwned, Created, registry, history
  <2> QED
    BY <2>1, <2>3, <2>4
<1> QED
  BY <1>1, <1>2, <1>a, ChannelMembers

-----------------------------------------------------------------------------
(* No cleared timer runs, and a timeout runs once *)

\* The invariant holds at the start.
LEMMA LoopInit == Init => LoopInv
<1> SUFFICES ASSUME Init PROVE LoopInv
  OBVIOUS
<1>1. TypeOK
  BY TypeInit
<1>2. \A i \in TimerId : ~Created(i)
  BY DEF Init, Created
<1>3. RegistryInv
  BY <1>2 DEF Init, RegistryInv
<1>4. RunInv
  BY DEF Init, RunInv, RunsAt
<1>5. BatchInv
  BY DEF Init, BatchInv, BatchOf, CheckStation
<1>6. CallbackInv /\ ImmediateInv /\ CancelInv
  BY DEF Init, CallbackInv, ImmediateInv, QueueOf, CancelInv
<1> QED
  BY <1>1, <1>3, <1>4, <1>5, <1>6 DEF LoopInv

\* Every step keeps it.
LEMMA LoopStep ==
  ASSUME LoopInv, [Next]_vars
  PROVE  LoopInv'
<1>1. TypeOK' /\ RegistryInv' /\ CallbackInv'
  BY TypeStep, RegistryKept, CallbackKept DEF LoopInv
<1>2. RunInv' /\ ImmediateInv' /\ BatchInv' /\ CancelInv'
  BY RunKept, ImmediateKept, BatchKept, CancelKept
<1> QED
  BY <1>1, <1>2 DEF LoopInv

\* The registries, the channel and the threads' batches agree at all times.
THEOREM LoopInvariant == Spec => []LoopInv
  BY LoopInit, LoopStep, PTL DEF Spec

\* Only a stored callback is started.
LEMMA StartIsExecute ==
  ASSUME LoopInv, [Next]_vars, NEW t \in Thread, NEW i \in TimerId, StartsTimer(t, i)
  PROVE  i \in cb
<1>a. /\ TypeOK /\ run[t].js = "none" /\ run'[t].js = "timer" /\ run'[t].id = i
      /\ DOMAIN run = Thread
  BY DEF LoopInv, StartsTimer, TypeOK
<1>1. ~Rests(t)
  BY <1>a DEF Rests
<1>2. Acts(t)
  BY <1>1, <1>a, ThreadStep
<1>3. ~Script(t) /\ ~Elapse(t)
  BY <1>a DEF Script, SetTimeout, SetInterval, SetTimeoutZero, SetImmediate, NextTick,
              QueueMicrotask, ClearTimer, Refresh, SetUnref, SetDelay, Calls, control, Elapse
<1>4. ~WaitValve(t) /\ ~Lifetime(t)
  BY <1>a DEF WaitValve, Lifetime, ExecuteAgain, Start, Cleanup, CancelOwned, ForgetOwned
<1>5. ASSUME Loop(t) PROVE ExecuteTimer(t)
  <2>1. ~ScriptEnds(t) /\ ~QueuedEnds(t) /\ ~TimerEnds(t) /\ ~ImmediateEnds(t)
    BY <1>a DEF ScriptEnds, QueuedEnds, TimerEnds, ImmediateEnds
  <2>2. ~RunTick(t) /\ ~RunMicro(t) /\ ~RunImmediate(t)
    BY <1>a DEF RunTick, RunMicro, RunImmediate, Start
  <2>3. ~Advance(t) /\ ~Top(t) /\ ~Work(t) /\ ~WorkQueued(t) /\ ~ExitLook(t) /\ ~LeaveWait(t)
        /\ ~Poll(t) /\ ~EndCheck(t)
    BY <1>a DEF Advance, Top, Work, WorkQueued, ExitLook, LeaveWait, Poll, EndCheck
  <2>4. /\ ~DropInactive(t) /\ ~HandBack(t) /\ ~SkipTaken(t) /\ ~DrainImmediates(t)
        /\ ~Exit(t) /\ ~ExitFinal(t)
    BY <1>a DEF DropInactive, HandBack, SkipTaken, DrainImmediates, Exit, ExitFinal
  <2> QED
    BY <1>5, <2>1, <2>2, <2>3, <2>4 DEF Loop
<1>6. ExecuteTimer(t)
  BY <1>2, <1>3, <1>4, <1>5 DEF Acts
<1> QED
  BY <1>6, <1>a DEF ExecuteTimer, Start

\* "Fired-but-cleared IDs cannot run", whatever other threads poll, hand back or
\* lose to a full channel: a cleared timer has no callback, and clearing is final.
THEOREM ClearedIsFinal == Spec => ClearedNeverRuns
<1>1. ASSUME LoopInv, [Next]_vars
      PROVE  \A t \in Thread, i \in cleared : ~StartsTimer(t, i)
  <2>1. cleared \subseteq TimerId /\ \A i \in cleared : i \notin cb
    BY <1>1 DEF LoopInv, TypeOK, CallbackInv
  <2> QED
    BY <1>1, <2>1, StartIsExecute
<1> QED
  BY <1>1, LoopInvariant, PTL DEF Spec, ClearedNeverRuns

\* The callback of a setTimeout is started at most once, however often its id is
\* published: it is taken out of TIMER_CALLBACKS before it is called, for the type
\* that decides so, the one in TIMER_METADATA, is the type it was created with.
THEOREM TimeoutStartsOnce == Spec => OneShotRunsOnce
<1>1. ASSUME LoopInv, [Next]_vars
      PROVE  \A t \in Thread, i \in ran : home[i].type = "timeout" => ~StartsTimer(t, i)
  <2>1. ran \subseteq TimerId /\ \A i \in ran : i \notin cb
    BY <1>1 DEF LoopInv, TypeOK, CallbackInv
  <2> QED
    BY <1>1, <2>1, StartIsExecute
<1> QED
  BY <1>1, LoopInvariant, PTL DEF Spec, OneShotRunsOnce

-----------------------------------------------------------------------------
(* The loop returns only when it is drained *)

\* Every step keeps the delays within a drain limit that never runs out.
LEMMA LimitKept ==
  ASSUME LoopInv, LimitInv, [Next]_vars
  PROVE  LimitInv'
<1> SUFFICES ASSUME DrainLimit = Forever
             PROVE  /\ \A t \in Thread : remaining'[t] = Forever
                    /\ \A i \in TimerId : meta'[i].delay <= Forever
  BY DEF LimitInv
<1>a. /\ TypeOK /\ DOMAIN remaining = Thread /\ \A t \in Thread : remaining[t] = Forever
      /\ \A i \in TimerId : meta[i].delay <= Forever
      /\ Forever \in Nat /\ \A d \in Delay : d \in Nat /\ d < Forever
      /\ DOMAIN meta = TimerId
  BY LoopAssumption DEF LoopInv, LimitInv, TypeOK
<1>1. ASSUME NEW u \in Thread PROVE remaining'[u] = Forever
  <2>1. CASE Rests(u)
    BY <2>1, <1>a DEF Rests
  <2>2. CASE ScriptEnds(u)
    BY <2>2, <1>a DEF ScriptEnds
  <2>3. CASE Elapse(u)
    BY <2>3 DEF Elapse
  <2>4. CASE Script(u) \/ WaitValve(u) \/ Lifetime(u)
    <3>1. remaining' = remaining
      BY <2>4 DEF Script, SetTimeout, SetInterval, SetTimeoutZero, SetImmediate, NextTick,
                  QueueMicrotask, ClearTimer, Refresh, SetUnref, SetDelay, Calls, control,
                  WaitValve, Lifetime, ExecuteAgain, Cleanup, CancelOwned, ForgetOwned
    <3> QED
      BY <3>1, <1>a
  <2>5. CASE Loop(u) /\ ~ScriptEnds(u)
    <3>1. remaining' = remaining
      BY <2>5 DEF Loop, QueuedEnds, TimerEnds, ImmediateEnds, RunTick, RunMicro, Advance, Top,
                  Work, WorkQueued, ExitLook, LeaveWait, Poll, DropInactive, HandBack, SkipTaken,
                  ExecuteTimer,
                  DrainImmediates, RunImmediate, EndCheck, Exit, ExitFinal
    <3> QED
      BY <3>1, <1>a
  <2> QED
    BY <2>1, <2>2, <2>3, <2>4, <2>5, <1>a, ThreadStep DEF Acts
<1>2. \A i \in TimerId : meta'[i].delay <= Forever
  <2>a. NoMeta.delay <= Forever
    BY <1>a DEF NoMeta
  <2>1. ASSUME NEW t \in Thread, NEW type \in {"timeout", "interval", "immediate"},
               NEW d \in Delay \cup {0, 1}, Creates(t, type, d),
               d = 1 => \E e \in Delay : e < Forever
        PROVE  \A i \in TimerId : meta'[i].delay <= Forever
    <3>1. d <= Forever
      BY <1>a, <2>1
    <3>2. meta' = [meta EXCEPT ![nextId] = [type |-> type, delay |-> d, unref |-> FALSE]]
      BY <2>1 DEF Creates
    <3> QED
      BY <1>a, <3>1, <3>2
  <2>2. ASSUME NEW j \in TimerId, meta' = [meta EXCEPT ![j] = NoMeta]
        PROVE  \A i \in TimerId : meta'[i].delay <= Forever
    BY <1>a, <2>a, <2>2
  <2>3. ASSUME NEW t \in Thread, NEW j \in TimerId, Adjusts(t, j)
        PROVE  \A i \in TimerId : meta'[i].delay <= Forever
    <3>1. PICK d \in Delay \cup {meta[j].delay}, unref \in BOOLEAN :
            meta' = [meta EXCEPT ![j] = [type |-> meta[j].type, delay |-> d, unref |-> unref]]
      BY <2>3 DEF Adjusts
    <3>2. d <= Forever
      BY <1>a
    <3> QED
      BY <1>a, <3>1, <3>2
  <2>4. ASSUME NEW t \in Thread, TimerEnds(t) \/ ImmediateEnds(t) \/ ExecuteTimer(t)
        PROVE  \A i \in TimerId : meta'[i].delay <= Forever
    <3>1. UNCHANGED meta \/ meta' = [meta EXCEPT ![run[t].id] = NoMeta]
      BY <2>4 DEF TimerEnds, ImmediateEnds, ExecuteTimer, Forget
    <3>2. UNCHANGED meta \/ run[t].id \in TimerId
      BY <2>4 DEF TimerEnds, ImmediateEnds, ExecuteTimer, LoopInv, RunInv, RunsAt
    <3> QED
      BY <1>a, <2>2, <3>1, <3>2
  <2>5. ASSUME NEW t \in Thread, ForgetOwned(t)
        PROVE  \A i \in TimerId : meta'[i].delay <= Forever
    BY <1>a, <2>a, <2>5 DEF ForgetOwned
  <2>6. ASSUME UNCHANGED meta
        PROVE  \A i \in TimerId : meta'[i].delay <= Forever
    BY <1>a, <2>6
  <2> QED
    BY <1>a, <2>1, <2>2, <2>3, <2>4, <2>5, <2>6, RegistryStep DEF ClearTimer, registry
<1> QED
  BY <1>1, <1>2

\* Only the calls of a thread's own JavaScript make a timer of it keep the loop.
LEMMA UnrefKept ==
  ASSUME LoopInv, [Next]_vars, NEW u \in Thread, run[u].js = "none", AllUnref(u)
  PROVE  AllUnref(u)'
<1>a. /\ TypeOK /\ cb \subseteq TimerId /\ DOMAIN meta = TimerId
      /\ home \in [TimerId -> Homes \cup {NoHome}]
      /\ \A i \in cb : home[i].thread = u => meta[i].unref
  BY DEF LoopInv, TypeOK, AllUnref
<1>b. \A i \in cb : /\ meta[i].type = home[i].type /\ Created(i)
                    /\ home[i].type \in {"timeout", "interval"}
  BY DEF LoopInv, RegistryInv
<1>1. ASSUME cb' \subseteq cb, UNCHANGED <<meta, home>>
      PROVE  AllUnref(u)'
  BY <1>1, <1>a DEF AllUnref
<1>2. ASSUME NEW j \in TimerId, j \notin cb', cb' \subseteq cb,
             meta' = [meta EXCEPT ![j] = NoMeta], home' = home
      PROVE  AllUnref(u)'
  BY <1>2, <1>a DEF AllUnref
<1>3. ASSUME NEW t \in Thread, NEW type \in {"timeout", "interval", "immediate"},
             NEW d \in Delay \cup {0, 1}, Creates(t, type, d)
      PROVE  AllUnref(u)'
  <2>1. t # u
    BY <1>3 DEF Creates
  <2>2. /\ nextId \in TimerId /\ cb' \subseteq cb \cup {nextId}
        /\ home'[nextId].thread = t
        /\ \A i \in TimerId : i # nextId => meta'[i] = meta[i] /\ home'[i] = home[i]
    BY <1>3, <1>a DEF Creates, Born
  <2> QED
    BY <1>a, <2>1, <2>2 DEF AllUnref
<1>4. ASSUME NEW t \in Thread, NEW j \in TimerId, Adjusts(t, j)
      PROVE  AllUnref(u)'
  <2>1. t # u /\ home[j].thread = t /\ UNCHANGED <<cb, home>>
    BY <1>4 DEF Adjusts, Handles, history
  <2>2. \A i \in TimerId : i # j => meta'[i] = meta[i]
    BY <1>4, <1>a DEF Adjusts
  <2> QED
    BY <1>a, <2>1, <2>2 DEF AllUnref
<1>5. ASSUME NEW t \in Thread, TimerEnds(t)
      PROVE  AllUnref(u)'
  <2>1. CASE meta[run[t].id].type \in {"none", "interval"}
    BY <1>1, <1>5, <2>1 DEF TimerEnds, history
  <2>2. CASE ~(meta[run[t].id].type \in {"none", "interval"})
    <3>1. run[t].id \in TimerId /\ (run[t].id \in cb => home[run[t].id].type = "interval")
      BY <1>5 DEF TimerEnds, LoopInv, RunInv, RunsAt
    <3>2. run[t].id \notin cb
      BY <1>b, <2>2, <3>1
    <3> QED
      BY <1>2, <1>5, <2>2, <3>1, <3>2 DEF TimerEnds, Forget, history
  <2> QED
    BY <2>1, <2>2
<1>6. ASSUME NEW t \in Thread, ImmediateEnds(t)
      PROVE  AllUnref(u)'
  <2>1. run[t].id \in TimerId /\ home[run[t].id].type = "immediate"
    BY <1>6 DEF ImmediateEnds, LoopInv, RunInv, RunsAt
  <2>2. run[t].id \notin cb
    BY <1>b, <2>1
  <2> QED
    BY <1>2, <1>6, <2>1, <2>2 DEF ImmediateEnds, Forget, history
<1>7. ASSUME NEW t \in Thread, ForgetOwned(t)
      PROVE  AllUnref(u)'
  <2>1. owned[t] \cap cb = {}
    BY <1>7 DEF ForgetOwned, LoopInv, BatchInv, BatchOf
  <2>2. \A i \in cb : meta'[i] = meta[i]
    BY <1>7, <1>a, <2>1 DEF ForgetOwned
  <2>3. UNCHANGED <<cb, home>>
    BY <1>7 DEF ForgetOwned, history
  <2> QED
    BY <1>a, <2>2, <2>3 DEF AllUnref
<1>8. ASSUME NEW t \in Thread, ExecuteTimer(t)
      PROVE  AllUnref(u)'
  BY <1>1, <1>8 DEF ExecuteTimer
<1>9. ASSUME NEW t \in Thread, NEW j \in TimerId, ClearTimer(t, j)
      PROVE  AllUnref(u)'
  BY <1>2, <1>9 DEF ClearTimer
<1> QED
  BY <1>1, <1>3, <1>4, <1>5, <1>6, <1>7, <1>8, <1>9, <1>a, RegistryStep DEF registry, history

\* A loop that finds no timer has only unref'd callbacks.
LEMMA NoWorkLeft ==
  ASSUME LoopInv, LimitInv, NEW t \in Thread, ~HasTimers(t), DrainLimit = Forever
  PROVE  AllUnref(t)
<1> SUFFICES ASSUME NEW i \in cb, home[i].thread = t
             PROVE  meta[i].unref
  BY DEF AllUnref
<1>1. ~Drainable(t)
  BY DEF HasTimers
<1>2. i \in owned[t] /\ meta[i].type \in {"timeout", "interval"} /\ i \in TimerId
  BY DEF LoopInv, RegistryInv, TypeOK
<1>3. meta[i].delay <= remaining[t]
  BY <1>2 DEF LimitInv
<1> QED
  BY <1>1, <1>2, <1>3 DEF Drainable

\* Where the successors of the stations are.
LEMMA AfterFinal ==
  ASSUME NEW p \in TickStation \cup MicroStation \cup TimerStation \cup CheckStation
  PROVE  /\ After[p] \in Final => p \in Final
         /\ After[p] \in Deciding => p \in MicroStation
         /\ After[p] # "workQueued"
  BY Successors DEF TickStation, MicroStation, TimerStation, CheckStation, Final, Deciding

\* Every step keeps a thread that returns drained.
LEMMA DrainedKept ==
  ASSUME LoopInv, DrainInv, [Next]_vars, NEW u \in Thread
  PROVE  Drained(u)'
<1>a. TypeOK /\ Drained(u) /\ LimitInv
  BY DEF LoopInv, DrainInv
<1>b. /\ DOMAIN pc = Thread /\ DOMAIN ticks = Thread /\ DOMAIN micro = Thread
      /\ DOMAIN imm = Thread /\ DOMAIN run = Thread /\ DOMAIN batch = Thread
  BY <1>a DEF TypeOK
<1>c. /\ Deciding \cap Final = {} /\ Final \cap TimerStation = {} /\ "workQueued" \in Deciding
      /\ Deciding \cap (TickStation \cup MicroStation \cup TimerStation \cup CheckStation) = {}
      /\ "script" \notin Deciding
  BY DEF Final, TickStation, MicroStation, TimerStation, CheckStation, Deciding
<1>1. ASSUME pc'[u] \notin Final, pc'[u] \notin Deciding
      PROVE  Drained(u)'
  BY <1>1, <1>c DEF Drained
<1>2. ASSUME pc'[u] \in Final, run[u].js = "none", run'[u].js = "none", batch'[u] = <<>>,
             ticks'[u] = 0, micro'[u] = 0, imm'[u] = {}, DrainLimit = Forever => AllUnref(u)
      PROVE  Drained(u)'
  <2>1. DrainLimit = Forever => AllUnref(u)'
    BY <1>2, UnrefKept
  <2> QED
    BY <1>2, <1>c, <2>1 DEF Drained
<1>3. ASSUME pc'[u] = pc[u], run'[u] = run[u], batch'[u] = batch[u], ticks'[u] = ticks[u],
             micro'[u] = micro[u], imm'[u] = imm[u]
      PROVE  Drained(u)'
  <2>1. CASE pc[u] \in Final
    BY <1>2, <1>3, <1>a, <2>1 DEF Drained
  <2>2. CASE pc[u] \notin Final
    <3>1. pc[u] = "workQueued" => run[u].js = "none"
      BY <1>c, NothingRuns
    <3>2. pc[u] = "workQueued" /\ AllUnref(u) => AllUnref(u)'
      BY <3>1, UnrefKept
    <3> QED
      BY <1>3, <1>a, <2>2, <3>2 DEF Drained
  <2> QED
    BY <2>1, <2>2
<1>4. CASE Script(u)
  <2>1. run[u].js # "none" /\ pc' = pc
    BY <1>4 DEF Script, SetTimeout, SetInterval, SetTimeoutZero, SetImmediate, NextTick,
                QueueMicrotask, ClearTimer, Refresh, SetUnref, SetDelay, Calls, control
  <2>2. pc[u] \notin Final
    BY <1>a, <2>1 DEF Drained
  <2>3. pc[u] \notin Deciding
    BY <1>c, <2>1, NothingRuns
  <2> QED
    BY <1>1, <2>1, <2>2, <2>3
<1>5. CASE QueuedEnds(u) \/ TimerEnds(u) \/ ImmediateEnds(u)
  <2>1. run[u].js # "none" /\ pc' = pc
    BY <1>5 DEF QueuedEnds, TimerEnds, ImmediateEnds
  <2>2. pc[u] \notin Final
    BY <1>a, <2>1 DEF Drained
  <2>3. pc[u] \notin Deciding
    BY <1>c, <2>1, NothingRuns
  <2> QED
    BY <1>1, <2>1, <2>2, <2>3
<1>6. CASE \/ ScriptEnds(u) \/ Top(u) \/ LeaveWait(u) \/ WaitValve(u) \/ Poll(u)
           \/ ExecuteAgain(u) \/ Cleanup(u) \/ CancelOwned(u) \/ ForgetOwned(u)
  <2>1. pc'[u] \in {"tick0", "done", "tick1", "tick2", "timers", "script", "dropping", "dropped"}
    BY <1>6, <1>b DEF ScriptEnds, Top, LeaveWait, WaitValve, Poll, ExecuteAgain, Cleanup,
                      CancelOwned, ForgetOwned, Goto
  <2>2. pc'[u] \notin Final /\ pc'[u] \notin Deciding
    BY <2>1 DEF Final, Deciding
  <2> QED
    BY <1>1, <2>2
<1>7. CASE DropInactive(u) \/ HandBack(u) \/ SkipTaken(u) \/ ExecuteTimer(u)
  <2>1. pc'[u] \in TimerStation
    BY <1>7 DEF DropInactive, HandBack, SkipTaken, ExecuteTimer, At, TimerStation
  <2> QED
    BY <1>1, <1>c, <2>1
<1>8. CASE RunTick(u) \/ RunMicro(u) \/ RunImmediate(u)
  <2>1. /\ pc' = pc /\ pc[u] \in TickStation \cup MicroStation \cup CheckStation
        /\ ticks[u] > 0 \/ micro[u] > 0 \/ batch[u] # <<>>
    BY <1>8 DEF RunTick, RunMicro, RunImmediate, At
  <2>2. pc[u] \notin Final
    BY <1>a, <2>1 DEF Drained
  <2> QED
    BY <1>1, <1>c, <2>1, <2>2
<1>9. CASE Advance(u) \/ EndCheck(u)
  <2>1. /\ pc[u] \in TickStation \cup MicroStation \cup TimerStation \cup CheckStation
        /\ UNCHANGED <<ticks, micro, run, batch>> /\ run[u].js = "none"
    BY <1>9 DEF Advance, EndCheck, At, queues
  <2>2. pc'[u] = After[pc[u]]
    BY <1>9, <1>b DEF Advance, EndCheck, Goto
  <2>3. imm[u] = {} => imm'[u] = {}
    BY <1>9, <1>b DEF Advance, EndCheck, Deferred, queues
  <2>4. CASE pc'[u] \in Final
    <3>1. pc[u] \in Final
      BY <2>1, <2>2, <2>4, AfterFinal
    <3> QED
      BY <1>2, <1>a, <2>1, <2>3, <2>4, <3>1 DEF Drained
  <2>5. CASE pc'[u] \in Deciding
    <3>1. pc[u] \in MicroStation
      BY <2>1, <2>2, <2>5, AfterFinal
    <3>2. micro[u] = 0
      BY <1>9, <3>1 DEF Advance, EndCheck, At, TickStation, MicroStation, TimerStation, CheckStation
    <3> QED
      BY <1>c, <2>1, <2>2, <2>5, <3>2, AfterFinal DEF Drained
  <2> QED
    BY <1>1, <2>4, <2>5
<1>10. CASE Work(u) \/ WorkQueued(u) \/ ExitLook(u) \/ Exit(u)
  <2>1. /\ pc[u] \in Deciding /\ run[u].js = "none"
        /\ UNCHANGED <<ticks, micro, imm, run>>
    BY <1>10 DEF Work, WorkQueued, ExitLook, Exit, At, queues, Deciding
  <2>2. micro[u] = 0 /\ batch[u] = <<>>
    BY <1>a, <2>1 DEF Drained, LoopInv, BatchInv, BatchOf, TimerStation, CheckStation, Deciding
  <2>3. CASE pc'[u] = "tickF"
    <3>1. /\ batch' = batch /\ ~Queued(u)
          /\ pc[u] = "workQueued" \/ ~HasTimers(u)
      BY <1>10, <1>b, <2>3 DEF Work, WorkQueued, ExitLook, Exit, At, Goto
    <3>2. ticks[u] = 0 /\ imm[u] = {}
      BY <1>a, <3>1 DEF Queued, TypeOK
    <3>3. DrainLimit = Forever => AllUnref(u)
      BY <1>a, <3>1, NoWorkLeft DEF Drained
    <3> QED
      BY <1>2, <2>1, <2>2, <2>3, <3>1, <3>2, <3>3 DEF Final
  <2>4. CASE pc'[u] = "workQueued"
    <3>1. ~HasTimers(u)
      BY <1>10, <1>b, <2>4 DEF Work, WorkQueued, ExitLook, Exit, At, Goto
    <3>2. DrainLimit = Forever => AllUnref(u)'
      BY <1>a, <2>1, <3>1, NoWorkLeft, UnrefKept
    <3> QED
      BY <1>c, <2>1, <2>2, <2>4, <3>2 DEF Drained
  <2>5. CASE pc'[u] \in {"exitNone", "exitFired"}
    BY <1>c, <2>1, <2>2, <2>5 DEF Drained, Deciding, Final
  <2>6. CASE pc'[u] \in {"wait", "top", "late"}
    <3>1. pc'[u] \notin Final /\ pc'[u] \notin Deciding
      BY <2>6 DEF Final, Deciding
    <3> QED
      BY <1>1, <3>1
  <2>7. pc'[u] \in {"tickF", "workQueued", "exitNone", "exitFired", "wait", "top", "late"}
    BY <1>10, <1>b DEF Work, WorkQueued, ExitLook, Exit, Goto
  <2> QED
    BY <2>3, <2>4, <2>5, <2>6, <2>7
<1>11. CASE ExitFinal(u)
  <2>1. /\ pc[u] = "exitF" /\ run[u].js = "none"
        /\ UNCHANGED <<ticks, micro, imm, run, batch>>
    BY <1>11 DEF ExitFinal, At, queues
  <2>2. pc'[u] \in {"tickF", "done"}
    BY <1>11, <1>b DEF ExitFinal, Goto
  <2> QED
    BY <1>1, <1>2, <1>a, <2>1, <2>2 DEF Drained, Final
<1>12. CASE DrainImmediates(u)
  <2> DEFINE Q == IF pc[u] = "checkF" THEN Deferred(imm[u], FALSE) ELSE imm[u]
             S == {e.id : e \in {e \in Q : ~e.deferred}}
  <2>1. CASE pc[u] = "check"
    <3>1. pc'[u] = "immediates"
      BY <1>12, <1>b, <2>1 DEF DrainImmediates, Goto
    <3>2. pc'[u] \notin Final /\ pc'[u] \notin Deciding
      BY <3>1 DEF Final, Deciding
    <3> QED
      BY <1>1, <3>2
  <2>2. CASE pc[u] = "checkF"
    <3>1. /\ run[u].js = "none" /\ ticks[u] = 0 /\ micro[u] = 0 /\ imm[u] = {}
          /\ DrainLimit = Forever => AllUnref(u)
      BY <1>a, <2>2 DEF Drained, Final
    <3>2. Q = {} /\ S = {}
      BY <2>2, <3>1 DEF Deferred
    <3>3. PICK order \in Ascending(S) : batch' = [batch EXCEPT ![u] = order]
      BY <1>12 DEF DrainImmediates
    <3>4. order \in [1..Cardinality({}) -> {}]
      BY <3>2 DEF Ascending, Orders, Bijection, Injection
    <3>5. order = <<>>
      BY <3>4, FS_EmptySet
    <3>6. imm'[u] = {e \in Q : e.deferred} /\ pc'[u] = "immediatesF"
      BY <1>12, <1>b, <2>2 DEF DrainImmediates, Goto
    <3>7. imm'[u] = {} /\ batch'[u] = <<>>
      BY <1>b, <3>2, <3>3, <3>5, <3>6
    <3>8. UNCHANGED <<ticks, micro, run>>
      BY <1>12 DEF DrainImmediates
    <3> HIDE DEF Q, S
    <3> QED
      BY <1>2, <3>1, <3>6, <3>7, <3>8 DEF Final
  <2> QED
    BY <1>12, <2>1, <2>2 DEF DrainImmediates, At
<1>13. CASE Elapse(u)
  BY <1>3, <1>13 DEF Elapse, queues
<1>14. CASE Rests(u)
  BY <1>3, <1>14 DEF Rests
<1> QED
  BY <1>4, <1>5, <1>6, <1>7, <1>8, <1>9, <1>10, <1>11, <1>12, <1>13, <1>14, <1>a, ThreadStep
     DEF Acts, Loop, Lifetime

\* execute_code leaves its loop only when its thread has no tick, microtask or
\* immediate queued and, under an unlimited drain, no ref'd timer with a callback;
\* and so it stays until it returns, whatever the other threads do.
THEOREM LoopReturnsDrained == Spec => []ReturnsWhenDrained
<1>1. Init => DrainInv
  <2> SUFFICES ASSUME Init PROVE DrainInv
    OBVIOUS
  <2>1. LimitInv
    BY LoopAssumption DEF Init, LimitInv, NoMeta
  <2>2. \A t \in Thread : Drained(t)
    BY DEF Init, Drained, Final
  <2> QED
    BY <2>1, <2>2 DEF DrainInv
<1>2. LoopInv /\ DrainInv /\ [Next]_vars => DrainInv'
  BY LimitKept, DrainedKept DEF DrainInv
<1>3. DrainInv => ReturnsWhenDrained
  BY DEF DrainInv, Drained, ReturnsWhenDrained, AllUnref, Final
<1> QED
  BY <1>1, <1>2, <1>3, LoopInvariant, PTL DEF Spec

-----------------------------------------------------------------------------
(* A registered timer is not lost on its way *)

\* The armed timers and those on their way to fired_timers change only by the
\* manager's steps, fired_timers also by the threads that fill and poll it.
LEMMA PlacesStep ==
  ASSUME TypeOK, [Next]_vars
  PROVE  /\ \/ UNCHANGED <<armed, popped>>
            \/ HandleCommand \/ Publish \/ \E i \in TimerId : PopDue(i)
         /\ \/ UNCHANGED fired \/ Publish
            \/ \E t \in Thread : SetTimeoutZero(t) \/ Poll(t) \/ HandBack(t) \/ Exit(t)
<1>1. CASE Manager \/ UNCHANGED vars
  BY <1>1 DEF Manager, HandleCommand, PopDue, Publish, vars, manager
<1>2. ASSUME NEW t \in Thread, Script(t)
      PROVE  UNCHANGED <<armed, popped>> /\ (UNCHANGED fired \/ SetTimeoutZero(t))
  BY <1>2 DEF Script, SetTimeout, SetInterval, Create, SetTimeoutZero, SetImmediate, NextTick,
              QueueMicrotask, ClearTimer, Refresh, SetUnref, SetDelay, manager
<1>3. ASSUME NEW t \in Thread, Loop(t)
      PROVE  /\ UNCHANGED <<armed, popped>>
             /\ UNCHANGED fired \/ Poll(t) \/ HandBack(t) \/ Exit(t)
  BY <1>3 DEF Loop, ScriptEnds, QueuedEnds, TimerEnds, ImmediateEnds, RunTick, RunMicro, Advance,
              Top, Work, WorkQueued, ExitLook, LeaveWait, Poll, DropInactive, HandBack, SkipTaken,
              ExecuteTimer,
              DrainImmediates, RunImmediate, EndCheck, Exit, ExitFinal, manager
<1>4. ASSUME NEW t \in Thread, WaitValve(t) \/ Elapse(t) \/ Lifetime(t)
      PROVE  UNCHANGED <<armed, popped, fired>>
  BY <1>4 DEF WaitValve, Elapse, Lifetime, ExecuteAgain, Cleanup, CancelOwned, ForgetOwned, manager
<1> QED
  BY <1>1, <1>2, <1>3, <1>4 DEF Next

\* A command stays in the channel until it is handled.
LEMMA CommandStays ==
  ASSUME TypeOK, [Next]_vars, NEW n \in DOMAIN cmds
  PROVE  \/ \E m \in DOMAIN cmds' : cmds'[m] = cmds[n]
         \/ HandleCommand /\ cmds[n] = Head(cmds)
<1> DEFINE C == [op : {"once", "repeat", "cancel"}, id : TimerId]
<1>a. cmds \in Seq(C) /\ Len(cmds) \in Nat /\ DOMAIN cmds = 1..Len(cmds)
  BY LenProperties DEF TypeOK
<1>1. CASE UNCHANGED cmds
  BY <1>1
<1>2. CASE HandleCommand
  <2>1. cmds # <<>> /\ cmds' = Tail(cmds)
    BY <1>2 DEF HandleCommand
  <2>2. /\ Tail(cmds) \in Seq(C) /\ Len(Tail(cmds)) = Len(cmds) - 1 /\ Head(cmds) = cmds[1]
        /\ \A k \in 1..Len(Tail(cmds)) : Tail(cmds)[k] = cmds[k + 1]
    BY <1>a, <2>1, HeadTailProperties
  <2>3. CASE n = 1
    BY <1>2, <2>2, <2>3
  <2>4. CASE n # 1
    <3>1. n - 1 \in 1..Len(Tail(cmds)) /\ (n - 1) + 1 = n
      BY <1>a, <2>2, <2>4
    <3>2. Tail(cmds)[n - 1] = cmds[n]
      BY <2>2, <3>1
    <3>3. n - 1 \in DOMAIN cmds'
      BY <2>1, <2>2, <3>1, LenProperties
    <3> QED
      BY <2>1, <3>2, <3>3
  <2> QED
    BY <2>3, <2>4
<1>3. ASSUME NEW op \in {"once", "repeat", "cancel"}, NEW i \in TimerId, Sends(op, i)
      PROVE  \E m \in DOMAIN cmds' : cmds'[m] = cmds[n]
  <2> DEFINE c == [op |-> op, id |-> i]
  <2>1. cmds' = cmds \/ cmds' = Append(cmds, c)
    BY <1>3 DEF Sends, TrySend
  <2>2. c \in C
    OBVIOUS
  <2> HIDE DEF c
  <2>3. CASE cmds' = Append(cmds, c)
    <3>1. /\ Append(cmds, c) \in Seq(C) /\ Len(Append(cmds, c)) = Len(cmds) + 1
          /\ \A k \in 1..Len(cmds) : Append(cmds, c)[k] = cmds[k]
      BY <1>a, <2>2, AppendProperties
    <3>2. n \in DOMAIN cmds'
      BY <1>a, <2>3, <3>1, LenProperties
    <3> QED
      BY <1>a, <2>3, <3>1, <3>2
  <2> QED
    BY <2>1, <2>3
<1> QED
  BY <1>1, <1>2, <1>3, ChannelStep

\* The first command of the channel and what it may be.
LEMMA FirstCommand ==
  ASSUME TypeOK, HandleCommand
  PROVE  /\ 1 \in DOMAIN cmds /\ Head(cmds) = cmds[1]
         /\ Head(cmds) \in [op : {"once", "repeat", "cancel"}, id : TimerId]
         /\ \A i \in TimerId :
              armed'[i] = IF i # Head(cmds).id THEN armed[i]
                          ELSE IF Head(cmds).op = "cancel" THEN "no" ELSE Head(cmds).op
<1> DEFINE C == [op : {"once", "repeat", "cancel"}, id : TimerId]
<1>1. cmds \in Seq(C) /\ cmds # <<>> /\ DOMAIN armed = TimerId
  BY DEF TypeOK, HandleCommand
<1>2. 1 \in DOMAIN cmds /\ Head(cmds) = cmds[1] /\ Head(cmds) \in C
  <2> HIDE DEF C
  <2> QED
    BY <1>1
<1>3. armed' = [armed EXCEPT ![Head(cmds).id] =
                  IF Head(cmds).op = "cancel" THEN "no" ELSE Head(cmds).op]
  BY DEF HandleCommand
<1> QED
  BY <1>1, <1>2, <1>3

\* Every step keeps the one-shot schedules away from intervals.
LEMMA OnceKept ==
  ASSUME IntervalsKept, LoopInv, IntervalInv, [Next]_vars
  PROVE  /\ \A n \in DOMAIN cmds' : cmds'[n].op = "once" =>
              home'[cmds'[n].id] # NoHome /\ home'[cmds'[n].id].type # "interval"
         /\ \A i \in TimerId : Created(i)' /\ home'[i].type = "interval" => "interval" \in Ops
<1>a. TypeOK /\ RegistryInv /\ home \in [TimerId -> Homes \cup {NoHome}]
  BY DEF LoopInv, TypeOK
<1>b. /\ \A n \in DOMAIN cmds : cmds[n].op = "once" =>
           Created(cmds[n].id) /\ home[cmds[n].id].type # "interval"
      /\ \A i \in TimerId : Created(i) /\ home[i].type = "interval" => "interval" \in Ops
  BY DEF IntervalInv
<1>1. ASSUME NEW n \in DOMAIN cmds', cmds'[n].op = "once"
      PROVE  home'[cmds'[n].id] # NoHome /\ home'[cmds'[n].id].type # "interval"
  <2>1. ASSUME NEW m \in DOMAIN cmds, cmds'[n] = cmds[m]
        PROVE  home'[cmds'[n].id] # NoHome /\ home'[cmds'[n].id].type # "interval"
    <3>1. cmds \in Seq([op : {"once", "repeat", "cancel"}, id : TimerId])
      BY <1>a DEF TypeOK
    <3>2. cmds[m] \in [op : {"once", "repeat", "cancel"}, id : TimerId]
      BY <3>1, ElementOfSeq, LenProperties
    <3>3. cmds[m].id \in TimerId /\ Created(cmds[m].id) /\ home[cmds[m].id].type # "interval"
      BY <1>1, <1>b, <2>1, <3>2
    <3>4. home'[cmds[m].id] = home[cmds[m].id]
      BY <1>a, <3>3, BirthIsFinal
    <3> QED
      BY <2>1, <3>3, <3>4 DEF Created
  <2>2. ASSUME NEW op \in {"once", "repeat", "cancel"}, NEW i \in TimerId,
               cmds'[n] = [op |-> op, id |-> i], Sends(op, i)
        PROVE  home'[i] # NoHome /\ home'[i].type # "interval"
    <3>1. op = "once"
      BY <1>1, <2>2
    <3>2. PICK t \in Thread :
             \/ \E d \in Delay : SetTimeout(t, d) /\ i = nextId
             \/ Refresh(t, i) /\ meta[i] # NoMeta
             \/ \E d \in Delay : SetDelay(t, i, d) /\ home[i].type # "immediate"
      BY <2>2, <3>1 DEF Sends
    <3>3. ASSUME NEW d \in Delay, SetTimeout(t, d), i = nextId
          PROVE  home'[i] # NoHome /\ home'[i].type # "interval"
      <4>1. CASE Len(cmds) < Capacity
        <5>1. home' = [home EXCEPT ![i] = [thread |-> t, type |-> "timeout"]]
          BY <3>3, <4>1 DEF SetTimeout, Create, Born
        <5>2. home'[i] = [thread |-> t, type |-> "timeout"]
          BY <1>a, <5>1
        <5> QED
          BY <5>2 DEF NoHome
      <4>2. CASE ~(Len(cmds) < Capacity)
        <5>1. cmds' = cmds
          BY <3>3, <4>2 DEF SetTimeout, Create, TrySend
        <5>2. home'[cmds'[n].id] # NoHome /\ home'[cmds'[n].id].type # "interval"
          BY <2>1, <5>1
        <5> QED
          BY <2>2, <5>2
      <4> QED
        BY <4>1, <4>2
    <3>4. CASE \/ Refresh(t, i) /\ meta[i] # NoMeta
               \/ \E d \in Delay : SetDelay(t, i, d) /\ home[i].type # "immediate"
      <4>1. {"refresh", "delay"} \cap Ops # {} /\ i \in Handles(t) /\ home' = home
        BY <3>4 DEF Refresh, SetDelay, Calls, history
      <4>2. "interval" \notin Ops
        BY <4>1 DEF IntervalsKept
      <4>3. Created(i)
        BY <4>1 DEF Handles, Created
      <4> QED
        BY <1>b, <4>1, <4>2, <4>3 DEF Created
    <3> QED
      BY <3>2, <3>3, <3>4
  <2> QED
    BY <1>a, <2>1, <2>2, ChannelMembers
<1>2. ASSUME NEW i \in TimerId, home'[i] # NoHome, home'[i].type = "interval"
      PROVE  "interval" \in Ops
  <2>1. CASE Created(i)
    BY <1>2, <1>a, <1>b, <2>1, BirthIsFinal
  <2>2. CASE ~Created(i)
    <3>1. home' # home
      BY <1>2, <2>2 DEF Created
    <3>2. PICK t \in Thread : Script(t)
      BY <3>1, ZenonT(60)
      DEF Next, Manager, HandleCommand, PopDue, Publish, vars, Loop, ScriptEnds, QueuedEnds,
                  TimerEnds, ImmediateEnds, RunTick, RunMicro, Advance, Top, Work, WorkQueued,
                  ExitLook, LeaveWait, Poll,
                  DropInactive, HandBack, SkipTaken, ExecuteTimer, DrainImmediates, RunImmediate,
                  EndCheck, Exit, ExitFinal, WaitValve, Elapse, Lifetime, ExecuteAgain, Cleanup,
                  CancelOwned, ForgetOwned, history
    <3>3. \/ \E d \in Delay : SetTimeout(t, d) \/ SetInterval(t, d)
          \/ SetTimeoutZero(t) \/ SetImmediate(t)
      BY <3>1, <3>2 DEF Script, NextTick, QueueMicrotask, ClearTimer, Refresh, SetUnref, SetDelay,
                        history
    <3>4. ASSUME NEW type \in {"timeout", "immediate"}, home' = Born(t, type) \/ home' = home
          PROVE  FALSE
      <4>1. home' = Born(t, type)
        BY <3>1, <3>4
      <4>2. i = nextId \/ home'[i] = home[i]
        BY <1>a, <4>1 DEF Born
      <4>3. i = nextId
        BY <1>2, <2>2, <4>2 DEF Created
      <4>4. home'[i] = [thread |-> t, type |-> type]
        BY <1>a, <4>1, <4>3 DEF Born
      <4> QED
        BY <1>2, <4>4
    <3>5. PICK d \in Delay : SetInterval(t, d)
      BY <3>3, <3>4 DEF SetTimeout, Create, SetTimeoutZero, SetImmediate
    <3> QED
      BY <3>5 DEF SetInterval, Calls
  <2> QED
    BY <2>1, <2>2
<1> QED
  BY <1>1, <1>2 DEF Created

\* An interval with a callback stays scheduled.
LEMMA RepeatKept ==
  ASSUME LoopInv, IntervalInv, [Next]_vars, NEW i \in cb, home[i].type = "interval"
  PROVE  Repeating(i)'
<1>a. TypeOK /\ i \in TimerId /\ DOMAIN armed = TimerId /\ Repeating(i)
  BY DEF LoopInv, TypeOK, IntervalInv
<1>1. CASE HandleCommand
  <2>1. /\ 1 \in DOMAIN cmds /\ Head(cmds) = cmds[1]
        /\ Head(cmds) \in [op : {"once", "repeat", "cancel"}, id : TimerId]
        /\ armed'[i] = IF i # Head(cmds).id THEN armed[i]
                       ELSE IF Head(cmds).op = "cancel" THEN "no" ELSE Head(cmds).op
    BY <1>1, <1>a, FirstCommand
  <2>2. Head(cmds).id = i => Head(cmds).op # "cancel" /\ Head(cmds).op # "once"
    BY <2>1 DEF LoopInv, CancelInv, IntervalInv
  <2>3. CASE Head(cmds).id = i
    BY <2>1, <2>2, <2>3 DEF Repeating
  <2>4. CASE Head(cmds).id # i
    <3>1. CASE armed[i] = "repeat"
      BY <2>1, <2>4, <3>1 DEF Repeating
    <3>2. ASSUME NEW n \in DOMAIN cmds, cmds[n] = [op |-> "repeat", id |-> i]
          PROVE  Repeating(i)'
      <4>1. cmds[n] # Head(cmds)
        BY <2>4, <3>2
      <4>2. PICK m \in DOMAIN cmds' : cmds'[m] = cmds[n]
        BY <1>a, <4>1, CommandStays
      <4> QED
        BY <3>2, <4>2 DEF Repeating
    <3> QED
      BY <1>a, <3>1, <3>2 DEF Repeating
  <2> QED
    BY <2>3, <2>4
<1>2. CASE ~HandleCommand
  <2>1. armed[i] = "repeat" => armed'[i] = "repeat"
    <3>1. ASSUME NEW j \in TimerId, PopDue(j), armed[i] = "repeat" PROVE armed'[i] = "repeat"
      BY <3>1, <1>a DEF PopDue
    <3>2. ASSUME Publish PROVE armed' = armed
      BY <3>2 DEF Publish
    <3> QED
      BY <1>2, <1>a, <3>1, <3>2, PlacesStep
  <2>2. ASSUME NEW n \in DOMAIN cmds, cmds[n] = [op |-> "repeat", id |-> i]
        PROVE  Repeating(i)'
    <3>1. PICK m \in DOMAIN cmds' : cmds'[m] = cmds[n]
      BY <1>2, <1>a, CommandStays
    <3> QED
      BY <2>2, <3>1 DEF Repeating
  <2> QED
    BY <1>a, <2>1, <2>2 DEF Repeating
<1> QED
  BY <1>1, <1>2

\* The members of a sequence that is appended to, concatenated or shortened.
LEMMA Members ==
  ASSUME NEW S, NEW s \in Seq(S)
  PROVE  /\ \A e \in S : Range(Append(s, e)) = Range(s) \cup {e}
         /\ \A r \in Seq(S) : Range(s \o r) = Range(s) \cup Range(r)
         /\ s # <<>> => Range(s) = {Head(s)} \cup Range(Tail(s))
<1>1. ASSUME NEW e \in S PROVE Range(Append(s, e)) = Range(s) \cup {e}
  <2>1. /\ Append(s, e) \in Seq(S) /\ Len(Append(s, e)) = Len(s) + 1 /\ Len(s) \in Nat
        /\ \A n \in 1..Len(s) : Append(s, e)[n] = s[n]
        /\ Append(s, e)[Len(s) + 1] = e
    BY AppendProperties, LenProperties
  <2>2. DOMAIN Append(s, e) = 1..(Len(s) + 1) /\ DOMAIN s = 1..Len(s)
    BY <2>1, LenProperties
  <2>3. \A n \in 1..(Len(s) + 1) : n \in 1..Len(s) \/ n = Len(s) + 1
    BY <2>1
  <2>4. Len(s) + 1 \in 1..(Len(s) + 1) /\ 1..Len(s) \subseteq 1..(Len(s) + 1)
    BY <2>1
  <2> QED
    BY <2>1, <2>2, <2>3, <2>4 DEF Range
<1>2. ASSUME NEW r \in Seq(S) PROVE Range(s \o r) = Range(s) \cup Range(r)
  BY RangeConcatenation
<1>3. ASSUME s # <<>> PROVE Range(s) = {Head(s)} \cup Range(Tail(s))
  <2>1. /\ Tail(s) \in Seq(S) /\ Len(Tail(s)) = Len(s) - 1 /\ Len(s) \in Nat /\ Len(s) > 0
        /\ Head(s) = s[1] /\ \A n \in 1..Len(Tail(s)) : Tail(s)[n] = s[n + 1]
    BY <1>3, HeadTailProperties, LenProperties, EmptySeq
  <2>2. DOMAIN Tail(s) = 1..(Len(s) - 1) /\ DOMAIN s = 1..Len(s)
    BY <2>1, LenProperties
  <2>3. /\ 1 \in 1..Len(s) /\ \A n \in 1..(Len(s) - 1) : n + 1 \in 1..Len(s)
        /\ \A n \in 1..Len(s) : n = 1 \/ (n - 1 \in 1..(Len(s) - 1) /\ (n - 1) + 1 = n)
    BY <2>1
  <2>4. \A n \in 1..Len(s) : n = 1 \/ \E m \in 1..(Len(s) - 1) : s[n] = Tail(s)[m]
    BY <2>1, <2>3
  <2>5. \A m \in 1..(Len(s) - 1) : \E n \in 1..Len(s) : s[n] = Tail(s)[m]
    BY <2>1, <2>3
  <2>6. \A e \in Range(s) : e = Head(s) \/ e \in Range(Tail(s))
    <3> SUFFICES ASSUME NEW n \in 1..Len(s), s[n] # Head(s) PROVE s[n] \in Range(Tail(s))
      BY <2>2 DEF Range
    <3>1. PICK m \in 1..(Len(s) - 1) : s[n] = Tail(s)[m]
      BY <2>1, <2>4
    <3> QED
      BY <2>2, <3>1 DEF Range
  <2>7. \A e \in Range(Tail(s)) : e \in Range(s)
    BY <2>2, <2>5 DEF Range
  <2>8. Head(s) \in Range(s)
    BY <2>1, <2>2, <2>3 DEF Range
  <2> HIDE DEF Range
  <2> QED
    BY <2>6, <2>7, <2>8
<1> QED
  BY <1>1, <1>2, <1>3

\* A callback that is stored in this step is of a timer that is scheduled in it.
LEMMA NewCallback ==
  ASSUME TypeOK, [Next]_vars, NEW i \in cb', i \notin cb
  PROVE  /\ i = nextId /\ i \in TimerId
         /\ \E t \in Thread :
              \/ SetTimeoutZero(t)
              \/ Len(cmds) < Capacity /\ \E d \in Delay : SetTimeout(t, d) \/ SetInterval(t, d)
<1>1. PICK t \in Thread : Script(t)
  BY ZenonT(60) DEF Next, Manager, HandleCommand, PopDue, Publish, vars, Loop, ScriptEnds,
         QueuedEnds, TimerEnds, ImmediateEnds, RunTick, RunMicro, Advance, Top, Work, WorkQueued,
         ExitLook, LeaveWait, Poll,
         DropInactive, HandBack, SkipTaken, ExecuteTimer, DrainImmediates, RunImmediate,
         EndCheck, Exit, ExitFinal, WaitValve, Elapse, Lifetime, ExecuteAgain, Cleanup,
         CancelOwned, ForgetOwned, registry
<1>2. SetTimeoutZero(t) \/ \E d \in Delay : SetTimeout(t, d) \/ SetInterval(t, d)
  BY <1>1 DEF Script, SetImmediate, NextTick, QueueMicrotask, ClearTimer, Refresh, SetUnref,
              SetDelay, registry
<1>3. CASE SetTimeoutZero(t)
  BY <1>3 DEF SetTimeoutZero
<1>4. ASSUME NEW d \in Delay, SetTimeout(t, d) \/ SetInterval(t, d)
      PROVE  i = nextId /\ i \in TimerId /\ Len(cmds) < Capacity
  BY <1>4 DEF SetTimeout, SetInterval, Create, registry
<1> QED
  BY <1>2, <1>3, <1>4

\* A new timer is on its way, an interval for good.
LEMMA NewTracked ==
  ASSUME TypeOK, [Next]_vars, NEW i \in cb', i \notin cb
  PROVE  Tracked(i)' /\ (home'[i].type = "interval" => Repeating(i)')
<1> DEFINE C == [op : {"once", "repeat", "cancel"}, id : TimerId]
<1>a. /\ i = nextId /\ i \in TimerId /\ cmds \in Seq(C) /\ fired \in Seq(TimerId)
      /\ home \in [TimerId -> Homes \cup {NoHome}]
  BY NewCallback DEF TypeOK
<1>1. ASSUME NEW op \in {"once", "repeat"}, Len(cmds) < Capacity, TrySend(op, i)
      PROVE  \E n \in DOMAIN cmds' : cmds'[n] = [op |-> op, id |-> i]
  <2> DEFINE c == [op |-> op, id |-> i]
  <2>1. cmds' = Append(cmds, c) /\ c \in C
    BY <1>1, <1>a DEF TrySend
  <2> HIDE DEF c
  <2>2. /\ Append(cmds, c) \in Seq(C) /\ Len(Append(cmds, c)) = Len(cmds) + 1
        /\ Append(cmds, c)[Len(cmds) + 1] = c /\ Len(cmds) \in Nat
    BY <1>a, <2>1, AppendProperties, LenProperties
  <2>3. Len(cmds) + 1 \in DOMAIN cmds'
    BY <2>1, <2>2, LenProperties
  <2>4. \E n \in DOMAIN cmds' : cmds'[n] = c
    BY <2>1, <2>2, <2>3
  <2> QED
    BY <2>4 DEF c
<1>2. ASSUME NEW t \in Thread, SetTimeoutZero(t)
      PROVE  Tracked(i)' /\ (home'[i].type = "interval" => Repeating(i)')
  <2>1. fired' = Append(fired, i) /\ home' = [home EXCEPT ![i] = [thread |-> t, type |-> "timeout"]]
    BY <1>2, <1>a DEF SetTimeoutZero, Born
  <2>2. i \in Range(fired')
    BY <1>a, <2>1, Members
  <2>3. home'[i].type = "timeout"
    BY <1>a, <2>1
  <2> QED
    BY <2>2, <2>3 DEF Tracked
<1>3. ASSUME NEW t \in Thread, NEW d \in Delay, SetTimeout(t, d), Len(cmds) < Capacity
      PROVE  Tracked(i)' /\ (home'[i].type = "interval" => Repeating(i)')
  <2>1. TrySend("once", i) /\ home' = [home EXCEPT ![i] = [thread |-> t, type |-> "timeout"]]
    BY <1>3, <1>a DEF SetTimeout, Create, Born
  <2>2. \E n \in DOMAIN cmds' : cmds'[n] = [op |-> "once", id |-> i]
    BY <1>1, <1>3, <2>1
  <2>3. home'[i].type = "timeout"
    BY <1>a, <2>1
  <2> QED
    BY <2>2, <2>3 DEF Tracked
<1>4. ASSUME NEW t \in Thread, NEW d \in Delay, SetInterval(t, d), Len(cmds) < Capacity
      PROVE  Tracked(i)' /\ (home'[i].type = "interval" => Repeating(i)')
  <2>1. TrySend("repeat", i)
    BY <1>4, <1>a DEF SetInterval, Create
  <2>2. \E n \in DOMAIN cmds' : cmds'[n] = [op |-> "repeat", id |-> i]
    BY <1>1, <1>4, <2>1
  <2> QED
    BY <2>2 DEF Tracked, Repeating
<1> QED
  BY <1>2, <1>3, <1>4, NewCallback

\* What a step of a thread does to its batch.
LEMMA BatchStep ==
  ASSUME LoopInv, [Next]_vars, NEW u \in Thread, batch'[u] # batch[u]
  PROVE  \/ batch[u] = <<>>
         \/ /\ batch[u] # <<>> /\ batch'[u] = Tail(batch[u])
            /\ \/ DropInactive(u) \/ HandBack(u) \/ SkipTaken(u) \/ ExecuteTimer(u)
               \/ RunImmediate(u) \/ CancelOwned(u)
<1>a. TypeOK /\ DOMAIN batch = Thread /\ BatchOf(u)
  BY DEF LoopInv, TypeOK, BatchInv
<1>1. Acts(u)
  BY <1>a, ThreadStep DEF Rests
<1>2. CASE Poll(u) \/ Exit(u) \/ DrainImmediates(u) \/ Cleanup(u)
  <2>1. pc[u] \in {"poll", "exitNone", "exitFired", "check", "checkF", "done"}
    BY <1>2 DEF Poll, Exit, DrainImmediates, Cleanup, At
  <2> QED
    BY <1>a, <2>1 DEF BatchOf, TimerStation, CheckStation
<1>3. CASE \/ DropInactive(u) \/ HandBack(u) \/ SkipTaken(u) \/ ExecuteTimer(u)
           \/ RunImmediate(u) \/ CancelOwned(u)
  <2>1. batch[u] # <<>> /\ batch' = [batch EXCEPT ![u] = Tail(batch[u])]
    BY <1>3 DEF DropInactive, HandBack, SkipTaken, ExecuteTimer, RunImmediate, CancelOwned, Next1
  <2> QED
    BY <1>3, <1>a, <2>1
<1>4. CASE Script(u)
  BY <1>4 DEF Script, SetTimeout, SetInterval, SetTimeoutZero, SetImmediate, NextTick,
              QueueMicrotask, ClearTimer, Refresh, SetUnref, SetDelay, Calls, control
<1>5. CASE \/ ScriptEnds(u) \/ QueuedEnds(u) \/ TimerEnds(u) \/ ImmediateEnds(u)
           \/ RunTick(u) \/ RunMicro(u) \/ Advance(u) \/ Top(u) \/ Work(u) \/ WorkQueued(u)
           \/ ExitLook(u) \/ LeaveWait(u)
           \/ EndCheck(u) \/ ExitFinal(u) \/ WaitValve(u) \/ Elapse(u) \/ ExecuteAgain(u)
           \/ ForgetOwned(u)
  BY <1>5 DEF ScriptEnds, QueuedEnds, TimerEnds, ImmediateEnds, RunTick, RunMicro, Advance, Top,
              Work, WorkQueued, ExitLook, LeaveWait, EndCheck, ExitFinal, WaitValve, Elapse,
              ExecuteAgain, ForgetOwned
<1> QED
  BY <1>1, <1>2, <1>3, <1>4, <1>5 DEF Acts, Loop, Lifetime

\* A timeout that keeps its callback stays on its way.
LEMMA TrackedKept ==
  ASSUME LoopInv, [Next]_vars, NEW i \in cb, i \in cb', home[i].type = "timeout", Tracked(i)
  PROVE  Tracked(i)'
<1> DEFINE Named(c) == c = [op |-> "once", id |-> i] \/ c = [op |-> "repeat", id |-> i]
<1>a. /\ TypeOK /\ i \in TimerId /\ DOMAIN armed = TimerId /\ Tracked(i) /\ DOMAIN batch = Thread
      /\ popped \in Seq(TimerId) /\ fired \in Seq(TimerId) /\ batch \in [Thread -> Seq(TimerId)]
  BY DEF LoopInv, TypeOK
<1>b. meta[i].type = "timeout"
  BY DEF LoopInv, RegistryInv
<1>1. ASSUME armed[i] # "no" PROVE Tracked(i)'
  <2>1. CASE HandleCommand
    <3>1. /\ 1 \in DOMAIN cmds /\ Head(cmds) = cmds[1]
          /\ Head(cmds) \in [op : {"once", "repeat", "cancel"}, id : TimerId]
          /\ armed'[i] = IF i # Head(cmds).id THEN armed[i]
                         ELSE IF Head(cmds).op = "cancel" THEN "no" ELSE Head(cmds).op
      BY <2>1, <1>a, FirstCommand
    <3>2. Head(cmds).id = i => Head(cmds).op # "cancel"
      BY <3>1 DEF LoopInv, CancelInv
    <3>3. armed'[i] # "no"
      BY <1>1, <3>1, <3>2
    <3> QED
      BY <3>3 DEF Tracked
  <2>2. ASSUME NEW j \in TimerId, PopDue(j) PROVE Tracked(i)'
    <3>1. CASE j = i
      <4>1. i \in Range(popped')
        BY <2>2, <1>a, <3>1, Members DEF PopDue
      <4> QED
        BY <4>1 DEF Tracked
    <3>2. CASE j # i
      <4>1. armed'[i] = armed[i]
        BY <2>2, <1>a, <3>2 DEF PopDue
      <4> QED
        BY <1>1, <4>1 DEF Tracked
    <3> QED
      BY <3>1, <3>2
  <2>3. CASE armed' = armed
    BY <1>1, <2>3 DEF Tracked
  <2> QED
    BY <1>a, <2>1, <2>2, <2>3, PlacesStep DEF Publish
<1>2. ASSUME i \in Range(popped) PROVE Tracked(i)'
  <2>1. CASE HandleCommand
    BY <1>2, <2>1 DEF HandleCommand, Tracked
  <2>2. ASSUME NEW j \in TimerId, PopDue(j) PROVE Tracked(i)'
    <3>1. i \in Range(popped')
      BY <1>2, <1>a, <2>2, Members DEF PopDue
    <3> QED
      BY <3>1 DEF Tracked
  <2>3. CASE Publish
    <3>1. i \in Range(fired')
      BY <1>2, <1>a, <2>3, Members DEF Publish
    <3> QED
      BY <3>1 DEF Tracked
  <2>4. CASE popped' = popped
    BY <1>2, <2>4 DEF Tracked
  <2> QED
    BY <1>a, <2>1, <2>2, <2>3, <2>4, PlacesStep
<1>3. ASSUME i \in Range(fired) PROVE Tracked(i)'
  <2>1. CASE fired' = fired
    BY <1>3, <2>1 DEF Tracked
  <2>2. CASE Publish
    <3>1. i \in Range(fired')
      BY <1>3, <1>a, <2>2, Members DEF Publish
    <3> QED
      BY <3>1 DEF Tracked
  <2>3. ASSUME NEW t \in Thread, SetTimeoutZero(t) PROVE Tracked(i)'
    <3>1. i \in Range(fired')
      BY <1>3, <1>a, <2>3, Members DEF SetTimeoutZero
    <3> QED
      BY <3>1 DEF Tracked
  <2>4. ASSUME NEW t \in Thread, HandBack(t) PROVE Tracked(i)'
    <3>1. Head(batch[t]) \in TimerId /\ fired' = Append(fired, Head(batch[t]))
      BY <2>4, <1>a, HeadTyped DEF HandBack
    <3>2. i \in Range(fired')
      BY <1>3, <1>a, <3>1, Members
    <3> QED
      BY <3>2 DEF Tracked
  <2>5. ASSUME NEW t \in Thread, Poll(t) \/ Exit(t), fired' # fired PROVE Tracked(i)'
    <3>1. batch'[t] = fired
      BY <2>5, <1>a DEF Poll, Exit
    <3> QED
      BY <1>3, <3>1 DEF Tracked
  <2> QED
    BY <1>a, <2>1, <2>2, <2>3, <2>4, <2>5, PlacesStep
<1>4. ASSUME NEW n \in DOMAIN cmds, Named(cmds[n]) PROVE Tracked(i)'
  <2>1. ASSUME NEW m \in DOMAIN cmds', cmds'[m] = cmds[n] PROVE Tracked(i)'
    BY <1>4, <2>1 DEF Tracked
  <2>2. ASSUME HandleCommand, cmds[n] = Head(cmds) PROVE Tracked(i)'
    <3>1. armed'[i] = IF i # Head(cmds).id THEN armed[i]
                      ELSE IF Head(cmds).op = "cancel" THEN "no" ELSE Head(cmds).op
      BY <1>a, <2>2, FirstCommand
    <3>2. Head(cmds).id = i /\ Head(cmds).op \in {"once", "repeat"}
      BY <1>4, <2>2
    <3>3. armed'[i] # "no"
      BY <3>1, <3>2
    <3> QED
      BY <3>3 DEF Tracked
  <2> QED
    BY <1>a, <2>1, <2>2, CommandStays
<1>5. ASSUME NEW t \in Thread, i \in Range(batch[t]) PROVE Tracked(i)'
  <2>1. CASE batch'[t] = batch[t]
    BY <1>5, <2>1 DEF Tracked
  <2>2. CASE batch'[t] # batch[t]
    <3>1. batch[t] # <<>>
      BY <1>5 DEF Range
    <3>2. /\ batch'[t] = Tail(batch[t])
          /\ \/ DropInactive(t) \/ HandBack(t) \/ SkipTaken(t) \/ ExecuteTimer(t)
             \/ RunImmediate(t) \/ CancelOwned(t)
      BY <2>2, <3>1, BatchStep
    <3>3. i = Head(batch[t]) \/ i \in Range(batch'[t])
      BY <1>5, <1>a, <3>1, <3>2, Members
    <3>4. CASE i \in Range(batch'[t])
      BY <3>4 DEF Tracked
    <3>5. CASE i = Head(batch[t])
      <4>1. CASE DropInactive(t) \/ SkipTaken(t)
        BY <3>5, <4>1 DEF DropInactive, SkipTaken
      <4>2. CASE HandBack(t)
        <5>1. i \in Range(fired')
          BY <1>a, <3>5, <4>2, Members DEF HandBack
        <5> QED
          BY <5>1 DEF Tracked
      <4>3. CASE ExecuteTimer(t)
        BY <1>b, <3>5, <4>3 DEF ExecuteTimer
      <4>4. CASE RunImmediate(t) \/ CancelOwned(t)
        <5>1. 1 \in DOMAIN batch[t] /\ Head(batch[t]) = batch[t][1]
          BY <1>a, <3>1
        <5>2. BatchOf(t) /\ (pc[t] \in CheckStation \/ pc[t] = "dropping")
          BY <4>4 DEF RunImmediate, CancelOwned, At, LoopInv, BatchInv
        <5>3. home[i].type = "immediate" \/ i \notin cb
          BY <3>5, <5>1, <5>2 DEF BatchOf
        <5> QED
          BY <5>3
      <4> QED
        BY <3>2, <4>1, <4>2, <4>3, <4>4
    <3> QED
      BY <3>3, <3>4, <3>5
  <2> QED
    BY <2>1, <2>2
<1> HIDE DEF Named
<1> QED
  BY <1>1, <1>2, <1>3, <1>4, <1>5, <1>a DEF Tracked, Named

\* A timeout with a callback is always in the channel, armed, popped, in
\* fired_timers or in a batch, whatever is refreshed, delayed or handed back.
THEOREM TimeoutStaysTracked == Spec => []TimeoutIsTracked
<1>1. Init => TimeoutIsTracked
  BY DEF Init, TimeoutIsTracked
<1>2. LoopInv /\ TimeoutIsTracked /\ [Next]_vars => TimeoutIsTracked'
  <2> SUFFICES ASSUME LoopInv, TimeoutIsTracked, [Next]_vars,
                      NEW i \in cb', home'[i].type = "timeout"
               PROVE  Tracked(i)'
    BY DEF TimeoutIsTracked
  <2>a. TypeOK /\ RegistryInv /\ cb \subseteq TimerId /\ \A j \in cb : Created(j)
    BY DEF LoopInv, RegistryInv, TypeOK
  <2>1. CASE i \in cb
    <3>1. home'[i] = home[i]
      BY <2>a, <2>1, BirthIsFinal
    <3>2. Tracked(i)
      BY <2>1, <3>1 DEF TimeoutIsTracked
    <3> QED
      BY <2>1, <3>1, <3>2, TrackedKept
  <2>2. CASE i \notin cb
    BY <2>a, <2>2, NewTracked
  <2> QED
    BY <2>1, <2>2
<1> QED
  BY <1>1, <1>2, LoopInvariant, PTL DEF Spec

\* So is every timer with a callback, when no script asks for refresh() or delay()
\* of an interval.
THEOREM RegisteredStaysTracked ==
  ASSUME IntervalsKept
  PROVE  Spec => []RegisteredIsTracked
<1>1. Init => IntervalInv
  BY DEF Init, IntervalInv, Created
<1>2. LoopInv /\ IntervalInv /\ [Next]_vars => IntervalInv'
  <2> SUFFICES ASSUME LoopInv, IntervalInv, [Next]_vars PROVE IntervalInv'
    OBVIOUS
  <2>a. TypeOK /\ RegistryInv /\ cb \subseteq TimerId /\ \A i \in cb : Created(i)
    BY DEF LoopInv, RegistryInv, TypeOK
  <2>1. ASSUME NEW i \in cb', home'[i].type = "interval" PROVE Repeating(i)'
    <3>1. CASE i \in cb
      <4>1. home'[i] = home[i]
        BY <2>a, <3>1, BirthIsFinal
      <4> QED
        BY <2>1, <3>1, <4>1, RepeatKept
    <3>2. CASE i \notin cb
      BY <2>1, <2>a, <3>2, NewTracked
    <3> QED
      BY <3>1, <3>2
  <2> QED
    BY <2>1, OnceKept DEF IntervalInv, Created
<1>3. LoopInv /\ TimeoutIsTracked /\ IntervalInv => RegisteredIsTracked
  <2> SUFFICES ASSUME LoopInv, TimeoutIsTracked, IntervalInv, NEW i \in cb
               PROVE  Tracked(i)
    BY DEF RegisteredIsTracked
  <2>1. home[i].type \in {"timeout", "interval"}
    BY DEF LoopInv, RegistryInv
  <2>2. CASE home[i].type = "interval"
    BY <2>2 DEF IntervalInv, Repeating, Tracked
  <2> QED
    BY <2>1, <2>2 DEF TimeoutIsTracked
<1> QED
  BY <1>1, <1>2, <1>3, LoopInvariant, TimeoutStaysTracked, PTL DEF Spec
=============================================================================
