----------------------- MODULE TimerManagerRefinement -----------------------
(***************************************************************************)
(* TimerManager implements TimerService: the command channel is its queue, *)
(* and a timer is in force from the moment its command is handled until    *)
(* its id is published in fired_timers, so popping and re-arming are       *)
(* internal and the publication is the service's step.                     *)
(***************************************************************************)
EXTENDS TimerManager

\* A timer of the batch is re-armed before the batch is published: until then
\* the service still sees the popped one.
ServiceLive ==
  Range(batch) \cup {t \in scheduled : \A b \in Range(batch) : b.sequence # t.sequence}

Marking == {c \in Thread : pc[c] = "markWake"}

Status == IF wpc \in {"stopping", "stopped"} THEN wpc ELSE "open"

Service == INSTANCE TimerService
             WITH queue <- cmds, live <- ServiceLive, marking <- Marking, status <- Status

\* Whatever the interleaving of callers and worker, the manager behaves as the
\* service: commands take effect in the order they were sent and none is lost
\* before a shutdown; a timer in force disappears only when a cancel, a clear, a
\* replacement or a shutdown taken from the channel says so, or by being
\* published, which happens when it is due, in the order of its group, once for a
\* one-shot timer and again only a full delay later for a repeating one; and an
\* id is published without a timer only by a caller of mark_timer_fired.
ImplementsService == Service!ServiceSpec
=============================================================================
