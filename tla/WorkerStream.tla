---------------------------- MODULE WorkerStream ----------------------------
(***************************************************************************)
(* What worker_threads promises the owner of a Worker object: the events   *)
(* of its thread ('message', 'error', 'exit') arrive in the order they     *)
(* were sent, none is lost or repeated, and the first 'exit' is the last   *)
(* event. Only terminate() cuts the stream: once it was called the owner   *)
(* sees 'exit' 0 and nothing that was on its way.                          *)
(***************************************************************************)
EXTENDS Naturals, Sequences

CONSTANTS
  Worker,  \* the workers
  Events   \* the events of a worker, those of kind "exit" included

VARIABLES
  queue,   \* events on their way to the owner
  got,     \* events the owner has seen
  closed,  \* the workers that have sent their exit, or were cut
  stopped  \* the workers whose object is dead: terminate() was called, or 'exit' seen

vars == <<queue, got, closed, stopped>>

Init ==
  /\ queue = [w \in Worker |-> <<>>]
  /\ got = [w \in Worker |-> <<>>]
  /\ closed = {} /\ stopped = {}

Ended(w) == \E n \in DOMAIN got[w] : got[w][n].kind = "exit"

\* The thread sends an event; an exit closes the stream.
Send(w, e) ==
  /\ w \notin closed
  /\ queue' = [queue EXCEPT ![w] = Append(@, e)]
  /\ closed' = IF e.kind = "exit" THEN closed \cup {w} ELSE closed
  /\ UNCHANGED <<got, stopped>>

\* The owner sees the oldest event.
Deliver(w) ==
  /\ w \notin stopped /\ queue[w] # <<>>
  /\ got' = [got EXCEPT ![w] = Append(@, Head(queue[w]))]
  /\ queue' = [queue EXCEPT ![w] = Tail(@)]
  /\ stopped' = IF Head(queue[w]).kind = "exit" THEN stopped \cup {w} ELSE stopped
  /\ UNCHANGED closed

\* The owner calls terminate().
Stop(w) ==
  /\ w \notin stopped
  /\ stopped' = stopped \cup {w}
  /\ UNCHANGED <<queue, got, closed>>

\* terminate() returns: what is on its way is discarded.
Cut(w, e) ==
  /\ w \in stopped /\ ~Ended(w)
  /\ e.kind = "exit" /\ e.n = 0
  /\ got' = [got EXCEPT ![w] = Append(@, e)]
  /\ queue' = [queue EXCEPT ![w] = <<>>]
  /\ closed' = closed \cup {w}
  /\ UNCHANGED stopped

Next ==
  \E w \in Worker : Deliver(w) \/ Stop(w) \/ \E e \in Events : Send(w, e) \/ Cut(w, e)

Spec == Init /\ [][Next]_vars
=============================================================================
