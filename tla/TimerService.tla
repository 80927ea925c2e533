---------------------------- MODULE TimerService ----------------------------
(***************************************************************************)
(* What AsyncTimerManager promises its callers, without its heap, counter, *)
(* locks, wakes and worker thread. Requests are served one at a time in    *)
(* the order they were accepted. A timer in force leaves by a request to   *)
(* cancel, replace or clear it, by the shutdown, or by being published:    *)
(* never early, in a group ordered by deadlines and, for equal deadlines,  *)
(* by requests; a repeating one is in force again a full delay later. No   *)
(* other id is published but by a caller's mark_timer_fired.               *)
(* TimerManagerRefinement shows that TimerManager implements it.           *)
(***************************************************************************)
EXTENDS Integers, Sequences, FiniteSets

CONSTANTS
  TimerId,  \* the ids of the timers
  U32Max    \* the value of remaining that means "for ever"

VARIABLES
  now,      \* the clock
  queue,    \* the requests accepted and not yet served
  live,     \* the timers in force
  fired,    \* the published ids no caller has taken yet
  marking,  \* the callers in mark_timer_fired that have pushed their id
  status    \* "open", "stopping" after a shutdown was served, "stopped"

serviceVars == <<now, queue, live, fired, marking, status>>

ServiceInit ==
  now = 0 /\ queue = <<>> /\ live = {} /\ fired = <<>> /\ marking = {} /\ status = "open"

PassTime == now' > now /\ UNCHANGED <<queue, live, fired, marking, status>>

\* The timers that wait in the queue
Waiting == {queue[n].timer : n \in {m \in DOMAIN queue : queue[m].op = "schedule"}}

\* A request is accepted; the sequence number of a new timer is in use by no other.
Request ==
  /\ status # "stopped"
  /\ \E n \in DOMAIN queue' :
       /\ queue' = Append(queue, queue'[n])
       /\ queue'[n].op = "schedule" =>
            \A u \in live \cup Waiting : u.sequence # queue'[n].timer.sequence
  /\ UNCHANGED <<now, live, fired, marking, status>>

\* The oldest request is served.
Serve ==
  /\ status = "open" /\ queue # <<>>
  /\ queue' = Tail(queue)
  /\ LET r == Head(queue)
     IN \/ /\ r.op = "schedule"
           /\ live' = {t \in live : t.id # r.timer.id} \cup {r.timer}
           /\ status' = status
        \/ /\ r.op \in {"cancel", "cancelAck"}
           /\ live' = {t \in live : t.id # r.id}
           /\ status' = status
        \/ /\ r.op \in {"clear", "clearAck", "shutdown", "shutdownAck"}
           /\ live' = {}
           /\ status' = IF r.op \in {"clear", "clearAck"} THEN status ELSE "stopping"
  /\ UNCHANGED <<now, fired, marking>>

\* The requests behind a shutdown are never served.
Stopped ==
  /\ status = "stopping" /\ status' = "stopped"
  /\ queue' = <<>>
  /\ UNCHANGED <<now, live, fired, marking>>

InOrder(t, u) == \/ t.deadline < u.deadline
                 \/ t.deadline = u.deadline /\ t.sequence < u.sequence

\* What is left of timer t when it was re-armed at time at.
Again(t, at) ==
  IF t.remaining = 1 THEN {}
  ELSE {[t EXCEPT !.deadline = at + t.delay,
                  !.remaining = IF t.remaining = U32Max THEN U32Max ELSE t.remaining - 1]}

\* Due timers are published; each repeating one was re-armed when it was due.
PublishGroup ==
  /\ \E group \in SUBSET {t \in live : t.deadline <= now} :
       /\ group # {}
       /\ \E order \in [1..Cardinality(group) -> group] :
            /\ \A m, n \in DOMAIN order : m < n => InOrder(order[m], order[n])
            /\ fired' = fired \o [n \in DOMAIN order |-> order[n].id]
       /\ \E at \in [group -> 0..now] :
            /\ \A t \in group : t.deadline <= at[t]
            /\ live' = (live \ group) \cup UNION {Again(t, at[t]) : t \in group}
  /\ UNCHANGED <<now, queue, marking, status>>

\* A caller takes or discards the published ids.
TakeAll == fired' = <<>> /\ UNCHANGED <<now, queue, live, marking, status>>

\* A caller publishes an id itself (mark_timer_fired), and returns.
Mark ==
  /\ \E c \in marking' \ marking : marking' = marking \cup {c}
  /\ \E i \in TimerId : fired' = Append(fired, i)
  /\ UNCHANGED <<now, queue, live, status>>

MarkReturns ==
  /\ \E c \in marking : marking' = marking \ {c}
  /\ UNCHANGED <<now, queue, live, fired, status>>

ServiceNext ==
  PassTime \/ Request \/ Serve \/ Stopped \/ PublishGroup \/ TakeAll \/ Mark \/ MarkReturns

ServiceSpec == ServiceInit /\ [][ServiceNext]_serviceVars
=============================================================================
