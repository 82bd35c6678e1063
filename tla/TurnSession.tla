---------------------------- MODULE TurnSession ----------------------------
(***************************************************************************)
(* One control turn with the worker session behind its adapter.  The turn  *)
(* is driven either by its own blocking loop (run) or step by step by an   *)
(* outer supervisor, which may also interrupt it at any point.  A callback *)
(* that raises may or may not have reached the worker.                     *)
(***************************************************************************)
EXTENDS Naturals, ControlTurn

CONSTANT MaxInterrupts   \* bound on the interrupt requests of the supervisor

ASSUME InterruptAssumption == MaxInterrupts \in Nat

VARIABLES
  turn,     \* the NativeControlTurn
  driver,   \* who drives it: "none" yet, "run", or an outer "supervisor"
  session,  \* the worker: "idle", "working" (it may act), "closed"
  sends,    \* send_input calls that may have reached the worker
  asked     \* interrupts requested before the turn was terminal

vars == <<turn, driver, session, sends, asked>>

-----------------------------------------------------------------------------
\* What the worker session may be after a callback.
SessionAfter(s, callback, reply) ==
  IF callback = "send_input" THEN
    IF reply = "fails" THEN {s, "working"} ELSE {"working"}
  ELSE IF callback = "close" THEN
    IF reply = "fails" THEN {s, "closed"} ELSE IF reply = "deferred" THEN {s} ELSE {"closed"}
  ELSE {s}

\* step(): at most one callback, never while waiting, none once terminal.
Step(reply) ==
  LET callback == Callback(turn.phase)
  IN /\ ~Terminal(turn) /\ ~Waiting(turn)
     /\ reply \in Replies(turn.phase)
     /\ turn' = StepTurn(turn, reply)
     /\ session' \in SessionAfter(session, callback, reply)
     /\ sends' = IF callback = "send_input" THEN sends + 1 ELSE sends
     /\ driver' \in IF driver = "none" THEN {"run", "supervisor"} ELSE {driver}
     /\ UNCHANGED asked

\* The first step finds the contract, the callbacks or the task invalid.
Reject ==
  /\ ~Started(turn)
  /\ turn' = RejectTurn(turn)
  /\ driver' \in {"run", "supervisor"}
  /\ UNCHANGED <<session, sends, asked>>

\* The wait is over: run slept, or the supervisor's deadline passed.
ResumeAfterWait ==
  /\ Waiting(turn)
  /\ turn' = ResumeTurn(turn)
  /\ UNCHANGED <<driver, session, sends, asked>>

\* run's sleep callback raised.
SleepFails ==
  /\ driver = "run" /\ Waiting(turn)
  /\ turn' = SleepFailed(turn)
  /\ UNCHANGED <<driver, session, sends, asked>>

\* request_interrupt, refused before the first step.
RequestInterrupt ==
  /\ driver = "supervisor" /\ Started(turn) /\ ~Terminal(turn)
  /\ asked < MaxInterrupts
  /\ turn' = InterruptTurn(turn)
  /\ asked' = asked + 1
  /\ UNCHANGED <<driver, session, sends>>

-----------------------------------------------------------------------------
Init ==
  /\ turn = FreshTurn
  /\ driver = "none"
  /\ session = "idle"
  /\ sends = 0
  /\ asked = 0

Advance == \/ \E reply \in Replies(turn.phase) : Step(reply)
           \/ ResumeAfterWait
           \/ SleepFails

Next == Advance \/ Reject \/ RequestInterrupt

\* The driver loops until the turn is terminal; an archive request the adapter
\* has started settles, so close is not answered "deferred" for ever.
CloseSettles == Callback(turn.phase) = "close" /\ (Step("ok") \/ Step("fails"))

Fairness == WF_vars(Advance) /\ SF_vars(CloseSettles)

Spec == Init /\ [][Next]_vars /\ Fairness

-----------------------------------------------------------------------------
\* The variables of the turn, its driver and its session have their types.
TurnTypeOK ==
  /\ turn \in Turn
  /\ driver \in {"none", "run", "supervisor"}
  /\ session \in {"idle", "working", "closed"}
  /\ sends \in Nat
  /\ asked \in 0..MaxInterrupts

\* A turn that reports "completed" or "closed" leaves no worker behind: its
\* close was acknowledged, whatever was interrupted, deferred or retried.  Only
\* "control-failed" may leave a session running.
StoppedWhenDone == turn.final \in {"completed", "closed"} => session = "closed"

\* An interrupt requested before the turn is terminal wins over a completion
\* already observed: the turn cannot end "completed" any more.
InterruptWins == asked > 0 => turn.final # "completed"

\* "Execute one immutable native control contract at most once": the task is
\* submitted at most once, and a completed turn submitted it and met no failed
\* callback.
SubmittedOnce ==
  /\ sends <= 1
  /\ turn.final = "completed" => sends = 1 /\ ~turn.errors

\* Nothing is submitted to the worker after an interrupt request, even one that
\* arrives between arming and submission.
NoLateSubmission == [][asked > 0 => sends' = sends]_vars

\* An interrupted turn ends: the driver's loop and a settling archive suffice.
InterruptSettles == asked > 0 ~> Terminal(turn)
=============================================================================
