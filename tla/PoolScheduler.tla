--------------------------- MODULE PoolScheduler ---------------------------
(***************************************************************************)
(* Which child the coordinator serves next, and when                       *)
(* (scripts/cwo_core/native_pool_scheduler.py and _next_lifecycle_child):  *)
(* earliest deadline first for the children that are due, then the first   *)
(* child with something to do, unless its callback could make a peer late. *)
(* Every callback and every step's overhead takes any time up to its       *)
(* certified maximum.  No pool-wide fault: NativePool is about those.      *)
(*                                                                         *)
(* Time is relative: next_deadline_ns of child c is now + Interval -       *)
(* since[c].                                                               *)
(***************************************************************************)
EXTENDS Integers, FiniteSets, ControlTurn

CONSTANTS
  N,          \* number of children; the ordinal of child c is c - 1
  Interval,   \* poll_interval_ms, in some unit of time
  Tolerance,  \* poll_lag_tolerance_ms
  Certified,  \* certified_callback_max_ms: callback -> duration
  Overhead,   \* certified_scheduler_overhead_ms
  Grain       \* durations are multiples of it, or the certified maximum (a bound)

Child == 1..N

Callbacks == {"arm", "send_input", "mark_dispatched", "check", "interrupt", "close", "finalize"}

\* scheduling_budget_proof: the formula that admits a pool of N workers.
Schedulable ==
  \A callback \in Callbacks : Certified[callback] + N * Certified["check"] + Overhead <= Interval

ASSUME SchedulerAssumption ==
  /\ N \in Nat \ {0}
  /\ Interval \in Nat \ {0}
  /\ Tolerance \in Nat
  /\ Certified \in [Callbacks -> Nat]
  /\ Overhead \in Nat
  /\ Grain \in Nat \ {0}
  /\ Schedulable

VARIABLES
  turn,     \* the control turn of each child
  since,    \* time since the last poll or archive request (while the child has
            \* a deadline), or since its submission; 0 before and after
  cursor,   \* scheduler_cursor, an ordinal
  late      \* the polls, "first" or "later", that raised maximum-poll-gap-exceeded

vars == <<turn, since, cursor, late>>

-----------------------------------------------------------------------------
\* Faulty variant of DeadlinePhases: finalization clears the deadline for good.
DeadlinePhasesStranding == {"waiting", "finalize-complete"} \cup InterruptPhases

\* The phases in which next_deadline_ns is set: the check that ends the polling
\* sets it too, and finalization clears it unless the archive is deferred.
DeadlinePhases == {"waiting", "finalize-complete", "waiting-close-complete"} \cup InterruptPhases

\* The child was submitted and not polled yet: its first gap is running.
SubmittedUnpolled == {"mark-dispatched", "check"}

Timed == {c \in Child : turn[c].phase \in DeadlinePhases}

Due == {c \in Timed : since[c] >= Interval}

\* The order of select_earliest_deadline and of the guard: the earlier deadline,
\* and from the cursor onwards among equal ones.
Rotation(c) == (c - 1 - cursor) % N

Before(c, d) == since[c] > since[d] \/ (since[c] = since[d] /\ Rotation(c) < Rotation(d))

First(S) == {c \in S : \A d \in S \ {c} : Before(c, d)}

\* The first child, in contract order, that is neither waiting nor terminal.
Proposed ==
  {c \in Child : /\ ~Terminal(turn[c]) /\ ~Waiting(turn[c])
                 /\ \A d \in Child : d < c => Terminal(turn[d]) \/ Waiting(turn[d])}

\* The position of c among the peers when they are served in that order.
Rank(peers, c) == 1 + Cardinality({d \in peers \ {c} : Before(d, c)})

\* Faulty variant of Endangered: the overhead of the step is forgotten.
EndangeredHasty(p) ==
  LET peers == Timed \ {p}
  IN {c \in peers : Interval - since[c] <= Certified[Callback(turn[p].phase)]
                                             + Rank(peers, c) * Certified["check"]}

\* peer_deadline_guard: the callback of the proposed child p and then the checks
\* of the peers up to one of them would reach its deadline.
Endangered(p) ==
  LET peers == Timed \ {p}
  IN {c \in peers : Interval - since[c] <= Certified[Callback(turn[p].phase)] + Overhead
                                             + Rank(peers, c) * Certified["check"]}

\* The child served for its deadline: the earliest when it is due, or the
\* earliest peer when the guard speaks up.
Preferred ==
  IF Due # {} THEN First(Timed)
  ELSE UNION {IF Endangered(p) = {} THEN {} ELSE First(Timed \ {p}) : p \in Proposed}

-----------------------------------------------------------------------------
\* Time passes for every child whose time is measured.
Elapsed(next, d) ==
  [c \in Child |-> IF next[c].phase \in DeadlinePhases \cup SubmittedUnpolled
                   THEN since[c] + d ELSE 0]

Durations(max) == {d \in 0..max : d % Grain = 0 \/ d = max}

\* One callback of child c, which takes d, and the rest of the step, which takes o.
Serve(c) ==
  LET t == IF Waiting(turn[c]) THEN ResumeTurn(turn[c]) ELSE turn[c]
      callback == Callback(t.phase)
  IN \E reply \in Replies(t.phase) \ {"fails"},
        d \in Durations(Certified[callback]), o \in Durations(Overhead) :
       LET next == [turn EXCEPT ![c] = StepTurn(t, reply)]
           restarts == \/ callback \in {"send_input", "check"}
                       \/ next[c].phase \in {"waiting-close-complete", "waiting-close-interrupt"}
       IN /\ turn' = next
          /\ since' = [Elapsed(next, d + o) EXCEPT ![c] = IF restarts THEN o ELSE @]
          /\ late' = IF callback = "check" /\ since[c] + d > Interval + Tolerance
                     THEN late \cup {IF turn[c].phase = "check" THEN "first" ELSE "later"}
                     ELSE late

\* Faulty variant of ServeDeadline: the cursor does not wrap.
ServeDeadlineUnwrapped ==
  \E c \in Preferred :
    /\ Serve(c)
    /\ cursor' = c

\* A due child, or one preferred by the guard; the cursor moves past it.
ServeDeadline ==
  \E c \in Preferred :
    /\ Serve(c)
    /\ cursor' = c % N

\* The proposed child.
ServeProposed ==
  \E c \in Proposed :
    /\ Preferred = {}
    /\ Serve(c)
    /\ UNCHANGED cursor

\* Nothing to do before the earliest deadline: run sleeps until then.
Sleep ==
  /\ Due = {} /\ Proposed = {} /\ Timed # {}
  /\ \E c \in First(Timed), o \in Durations(Overhead) :
       since' = Elapsed(turn, Interval - since[c] + o)
  /\ UNCHANGED <<turn, cursor, late>>

-----------------------------------------------------------------------------
Init ==
  /\ turn = [c \in Child |-> FreshTurn]
  /\ since = [c \in Child |-> 0]
  /\ cursor = 0
  /\ late = {}

\* A late poll faults the cohort; what follows is NativePool's.
Next ==
  /\ late = {}
  /\ \/ ServeDeadline
     \/ ServeProposed
     \/ Sleep

\* run() keeps stepping.
Spec == Init /\ [][Next]_vars /\ WF_vars(Next)

-----------------------------------------------------------------------------
(* Properties. *)

\* The turns, clocks and the cursor have their types; a turn never fails here.
SchedulerTypeOK ==
  /\ turn \in [Child -> Turn]
  /\ \A c \in Child : ~turn[c].errors /\ turn[c].final # "control-failed"
  /\ since \in [Child -> Nat]
  /\ cursor \in 0..(N - 1)
  /\ late \subseteq {"first", "later"}

\* The guard keeps its promise: after a callback that was served for no deadline,
\* every peer can still be checked before its own, those before it first.
PeersStayInTime ==
  [][ServeProposed =>
       \A p \in Proposed : \A c \in Timed \ {p} :
         since'[c] + Rank(Timed \ {p}, c) * Certified["check"] < Interval]_vars

\* The coordinator gives child c a callback that moves its turn or its deadline.
Served(c) == turn'[c] # turn[c] \/ since'[c] < since[c]

\* The archive of child c was deferred.
Deferred(c) == turn[c].phase \in {"waiting-close-complete", "waiting-close-interrupt"}

\* No child starves, nor does a peer of one whose archive keeps being deferred,
\* unless the archives of two peers are deferred for ever: they then alternate,
\* and the guard may prefer one of them each time the child is proposed.
\* (The fairness NativePool assumes.)
EveryChildServed ==
  \A c \in Child :
    \/ <>(Terminal(turn[c]) \/ late # {})
    \/ []<><<Served(c)>>_vars
    \/ \E d, e \in Child \ {c} : d # e /\ []<>Deferred(d) /\ []<>Deferred(e)

\* What the certified latencies are for: native_pool.py "Keep send-input ->
\* mark-dispatched -> first-check inside the poll budget", and the response bound
\* of references/native-supervision-pools.md, which releases three workers.  While
\* every callback and step stays within its certified time, no check ends later
\* than the gap that faults the cohort.
PollsInTime == late = {}
=============================================================================
