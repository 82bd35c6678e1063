----------------------------- MODULE ControlTurn -----------------------------
(***************************************************************************)
(* The cooperative control turn of one native worker segment               *)
(* (scripts/cwo_core/native_control.py, class NativeControlTurn), as       *)
(* operators on a turn record: which adapter callback a step invokes, and  *)
(* the turn that each reply leads to.  TurnSession drives one turn;        *)
(* NativePool drives one per child.                                        *)
(***************************************************************************)

\* The phases that hold the turn until resume_after_wait.
WaitPhases == {"waiting", "waiting-close-complete", "waiting-close-interrupt"}

\* The phases that lead to a clean completion, and to a confirmed stop.
CompletePhases == {"finalize-complete", "waiting-close-complete", "close-complete"}

InterruptPhases == {"interrupt", "finalize-interrupt", "waiting-close-interrupt",
                    "close-interrupt", "finalize-close"}

DispatchPhases == {"start", "arm", "send-input", "mark-dispatched", "check"}

TurnPhase == DispatchPhases \cup CompletePhases \cup InterruptPhases
               \cup {"waiting", "finalize-control-failed", "terminal"}

TerminalState == {"completed", "closed", "control-failed"}

\* phase: _phase.  errors: whether _errors is nonempty.  final: the
\* terminal_state of the receipt, "none" before there is one.
Turn == [phase : TurnPhase, errors : BOOLEAN, final : TerminalState \cup {"none"}]

FreshTurn == [phase |-> "start", errors |-> FALSE, final |-> "none"]

Terminal(t) == t.phase = "terminal"
Waiting(t) == t.phase \in WaitPhases
Started(t) == t.phase # "start"

-----------------------------------------------------------------------------
\* The adapter callback a step invokes in each phase.  The first step binds
\* the task and arms at once, so no step begins in phase "arm".
Callback(phase) ==
  IF phase \in {"start", "arm"} THEN "arm"
  ELSE IF phase = "send-input" THEN "send_input"
  ELSE IF phase = "mark-dispatched" THEN "mark_dispatched"
  ELSE IF phase = "check" THEN "check"
  ELSE IF phase = "interrupt" THEN "interrupt"
  ELSE IF phase \in {"close-complete", "close-interrupt"} THEN "close"
  ELSE IF phase \in {"finalize-complete", "finalize-interrupt", "finalize-close",
                     "finalize-control-failed"} THEN "finalize"
  ELSE "none"

\* What a callback may answer.  Every callback may raise, or return a value
\* that is no acknowledgement, submission id or decision: "fails".  "warn" acts
\* as "continue" and "control-lost" as "interrupt".  "deferred" is the adapter's
\* close_wait_required.
Replies(phase) ==
  {"fails"} \cup
    (IF phase = "check" THEN {"continue", "complete", "interrupt"}
     ELSE IF phase \in {"finalize-complete", "close-complete", "finalize-interrupt",
                        "close-interrupt"} THEN {"ok", "deferred"}
     ELSE {"ok"})

\* Faulty variant of Successor: an interrupted worker is not closed.
SuccessorUnclosed(phase, reply) ==
  IF phase \in {"start", "arm"} THEN "send-input"
  ELSE IF phase = "send-input" THEN "mark-dispatched"
  ELSE IF phase = "mark-dispatched" THEN "check"
  ELSE IF phase = "check" THEN IF reply = "complete" THEN "finalize-complete" ELSE "interrupt"
  ELSE IF phase = "finalize-complete" THEN "close-complete"
  ELSE IF phase = "interrupt" THEN "finalize-interrupt"
  ELSE IF phase = "finalize-interrupt" THEN "finalize-close"
  ELSE "terminal"

\* The phase after an answered callback; "terminal" where step calls _finish.
Successor(phase, reply) ==
  IF phase \in {"start", "arm"} THEN "send-input"
  ELSE IF phase = "send-input" THEN "mark-dispatched"
  ELSE IF phase = "mark-dispatched" THEN "check"
  ELSE IF phase = "check" THEN
         IF reply = "continue" THEN "waiting"
         ELSE IF reply = "complete" THEN "finalize-complete"
         ELSE "interrupt"
  ELSE IF phase \in {"finalize-complete", "close-complete"} /\ reply = "deferred"
         THEN "waiting-close-complete"
  ELSE IF phase = "finalize-complete" THEN "close-complete"
  ELSE IF phase = "interrupt" THEN "finalize-interrupt"
  ELSE IF phase \in {"finalize-interrupt", "close-interrupt"} /\ reply = "deferred"
         THEN "waiting-close-interrupt"
  ELSE IF phase = "finalize-interrupt" THEN "close-interrupt"
  ELSE IF phase = "close-interrupt" THEN "finalize-close"
  ELSE "terminal"

\* Faulty variant of FinalState: the stop is reported under a state of its own.
FinalStateInterrupted(phase) ==
  IF phase = "close-complete" THEN "completed"
  ELSE IF phase = "finalize-close" THEN "interrupted"
  ELSE "control-failed"

\* The terminal state of the step that finishes the turn from each phase.
FinalState(phase) ==
  IF phase = "close-complete" THEN "completed"
  ELSE IF phase = "finalize-close" THEN "closed"
  ELSE "control-failed"

Finish(t, state) == [t EXCEPT !.phase = "terminal", !.final = state]

\* Faulty variant of StepTurn: a failed submission is tried again.
StepTurnRetrying(t, reply) ==
  IF reply = "fails" THEN
    IF t.phase = "send-input" THEN [t EXCEPT !.errors = TRUE]
    ELSE IF t.phase = "finalize-control-failed"
    THEN Finish([t EXCEPT !.errors = TRUE], "control-failed")
    ELSE [t EXCEPT !.errors = TRUE, !.phase = "finalize-control-failed"]
  ELSE IF Successor(t.phase, reply) = "terminal" THEN Finish(t, FinalState(t.phase))
  ELSE [t EXCEPT !.phase = Successor(t.phase, reply)]

\* One step: the callback of the current phase, and its reply.  A failed
\* callback leads to finalize-control-failed; when that fails too the turn
\* ends all the same.
StepTurn(t, reply) ==
  IF reply = "fails" THEN
    IF t.phase = "finalize-control-failed"
    THEN Finish([t EXCEPT !.errors = TRUE], "control-failed")
    ELSE [t EXCEPT !.errors = TRUE, !.phase = "finalize-control-failed"]
  ELSE IF Successor(t.phase, reply) = "terminal" THEN Finish(t, FinalState(t.phase))
  ELSE [t EXCEPT !.phase = Successor(t.phase, reply)]

\* _start rejects the contract, the callbacks or the task: no callback at all.
RejectTurn(t) == Finish([t EXCEPT !.errors = TRUE], "control-failed")

\* Faulty variant of ResumeTurn: a deferred archive is finalized again, not closed.
ResumeTurnRefinalizing(t) ==
  [t EXCEPT !.phase = IF @ = "waiting" THEN "check"
                      ELSE IF @ = "waiting-close-complete" THEN "finalize-complete"
                      ELSE "finalize-interrupt"]

\* resume_after_wait.
ResumeTurn(t) ==
  [t EXCEPT !.phase = IF @ = "waiting" THEN "check"
                      ELSE IF @ = "waiting-close-complete" THEN "close-complete"
                      ELSE "close-interrupt"]

\* Faulty variants of InterruptTurn: an observed completion, or a submission
\* that is due, is let through.
InterruptTurnAfterCompletion(t) ==
  IF Terminal(t) \/ t.phase \in CompletePhases THEN t ELSE [t EXCEPT !.phase = "interrupt"]

InterruptTurnAfterSubmission(t) ==
  IF Terminal(t) \/ t.phase = "send-input" THEN t ELSE [t EXCEPT !.phase = "interrupt"]

\* request_interrupt of a started turn: it takes precedence over every phase,
\* the pending report of a failed callback included.
InterruptTurn(t) == IF Terminal(t) THEN t ELSE [t EXCEPT !.phase = "interrupt"]

\* The sleep callback of run failed.
SleepFailed(t) == [t EXCEPT !.errors = TRUE, !.phase = "finalize-control-failed"]
=============================================================================
