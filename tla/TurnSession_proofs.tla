------------------------- MODULE TurnSession_proofs -------------------------
(***************************************************************************)
(* The safety properties of TurnSession hold for every bound on the number *)
(* of interrupts.  The invariant ties each phase to what has happened to   *)
(* the worker by then: which phases follow a submission, which precede it, *)
(* which one follows an acknowledged close, and which an interrupt leaves. *)
(***************************************************************************)
EXTENDS TurnSession, TLAPS

\* The phases reached only by an unfailed submission and no interrupt.
SubmittedPhases == {"mark-dispatched", "check", "waiting"} \cup CompletePhases

\* The phases an interrupted turn may be in.
InterruptedPhases == InterruptPhases \cup {"finalize-control-failed", "terminal"}

PhaseInv ==
  /\ turn.final = "none" <=> turn.phase # "terminal"
  /\ turn.phase \in {"start", "arm", "send-input"} => sends = 0 /\ ~turn.errors
  /\ turn.phase \in SubmittedPhases => sends = 1 /\ ~turn.errors
  /\ turn.phase = "finalize-close" => session = "closed"
  /\ asked > 0 => turn.phase \in InterruptedPhases

TurnInv == TurnTypeOK /\ PhaseInv /\ StoppedWhenDone /\ InterruptWins /\ SubmittedOnce

\* The phases of NativeControlTurn, listed.
LEMMA PhaseList ==
  TurnPhase = {"start", "arm", "send-input", "mark-dispatched", "check", "waiting",
               "finalize-complete", "waiting-close-complete", "close-complete",
               "interrupt", "finalize-interrupt", "waiting-close-interrupt",
               "close-interrupt", "finalize-close", "finalize-control-failed", "terminal"}
BY DEF TurnPhase, DispatchPhases, CompletePhases, InterruptPhases

\* A failed callback leaves the turn with an error, on its way to a
\* control-failed end or at it (_record_callback_failure).
LEMMA FailedStep ==
  ASSUME NEW t \in Turn
  PROVE  /\ StepTurn(t, "fails") \in Turn
         /\ StepTurn(t, "fails").errors
         /\ \/ /\ StepTurn(t, "fails").phase = "finalize-control-failed"
               /\ StepTurn(t, "fails").final = t.final
            \/ /\ StepTurn(t, "fails").phase = "terminal"
               /\ StepTurn(t, "fails").final = "control-failed"
<1>1. t = [phase |-> t.phase, errors |-> t.errors, final |-> t.final]
  BY DEF Turn
<1>2. /\ t.phase \in TurnPhase /\ t.errors \in BOOLEAN
      /\ t.final \in TerminalState \cup {"none"}
  BY DEF Turn
<1> QED
  BY <1>1, <1>2 DEF StepTurn, Finish, Turn, TurnPhase, TerminalState

\* What an answered callback makes of the turn: the successor phase, or the end.
LEMMA AnsweredStep ==
  ASSUME NEW t \in Turn, t.phase # "terminal", t.phase \notin WaitPhases,
         NEW reply \in Replies(t.phase), reply # "fails"
  PROVE  /\ StepTurn(t, reply) \in Turn
         /\ StepTurn(t, reply).errors = t.errors
         /\ StepTurn(t, reply).phase = Successor(t.phase, reply)
         /\ StepTurn(t, reply).final = IF Successor(t.phase, reply) = "terminal"
                                       THEN FinalState(t.phase) ELSE t.final
<1>1. /\ t.phase \in TurnPhase /\ t.errors \in BOOLEAN
      /\ t.final \in TerminalState \cup {"none"}
  BY DEF Turn
<1>2. Successor(t.phase, reply) \in TurnPhase
  BY <1>1, PhaseList DEF Successor
<1>3. FinalState(t.phase) \in TerminalState
  BY DEF FinalState, TerminalState
<1> QED
  BY <1>1, <1>2, <1>3 DEF StepTurn, Finish, Turn

\* Every step of the turn, its driver and its session preserves the invariant.
LEMMA TurnInvStep ==
  ASSUME InterruptAssumption, TurnInv, [Next]_vars
  PROVE  TurnInv'
<1> USE DEF TurnInv, TurnTypeOK
<1>1. ASSUME NEW reply \in Replies(turn.phase), Step(reply), reply = "fails"
      PROVE  TurnInv'
  <2>1. turn' = StepTurn(turn, "fails")
    BY <1>1 DEF Step
  <2>2. /\ turn' \in Turn /\ turn'.errors
        /\ \/ turn'.phase = "finalize-control-failed" /\ turn'.final = turn.final
           \/ turn'.phase = "terminal" /\ turn'.final = "control-failed"
    BY <2>1, FailedStep
  <2>3. turn.phase # "terminal" /\ turn.final = "none"
    BY <1>1 DEF Step, Terminal, PhaseInv
  <2>4. /\ session' \in {session, "working", "closed"}
        /\ sends' = IF turn.phase = "send-input" THEN sends + 1 ELSE sends
        /\ asked' = asked
        /\ driver' \in {"none", "run", "supervisor"}
    BY <1>1 DEF Step, SessionAfter, Callback
  <2>5. sends' \in Nat /\ sends' <= 1
    BY <2>4 DEF PhaseInv, SubmittedOnce
  <2>6. TurnTypeOK'
    BY <2>2, <2>4, <2>5
  <2>7. PhaseInv'
    BY <2>2, <2>3, <2>4 DEF PhaseInv, SubmittedPhases, InterruptedPhases, CompletePhases
  <2>8. StoppedWhenDone' /\ InterruptWins' /\ SubmittedOnce'
    BY <2>2, <2>3, <2>5 DEF StoppedWhenDone, InterruptWins, SubmittedOnce
  <2> QED
    BY <2>6, <2>7, <2>8
<1>2. ASSUME NEW reply \in Replies(turn.phase), Step(reply), reply # "fails"
      PROVE  TurnInv'
  <2>1. turn' = StepTurn(turn, reply) /\ turn.phase # "terminal" /\ turn.phase \notin WaitPhases
    BY <1>2 DEF Step, Terminal, Waiting
  <2>2. /\ turn' \in Turn /\ turn'.errors = turn.errors
        /\ turn'.phase = Successor(turn.phase, reply)
        /\ turn'.final = IF turn'.phase = "terminal" THEN FinalState(turn.phase) ELSE "none"
    BY <1>2, <2>1, AnsweredStep DEF PhaseInv
  <2>3. turn.phase \in TurnPhase
    BY DEF Turn
  <2>4. /\ session' = IF turn.phase = "send-input" THEN "working"
                      ELSE IF turn.phase \in {"close-complete", "close-interrupt"}
                              /\ reply # "deferred"
                           THEN "closed" ELSE session
        /\ sends' = IF turn.phase = "send-input" THEN sends + 1 ELSE sends
        /\ asked' = asked
        /\ driver' \in {"none", "run", "supervisor"}
    BY <1>2, <2>3, PhaseList DEF Step, SessionAfter, Callback
  <2>5. sends' \in Nat /\ sends' <= 1
    BY <2>4 DEF PhaseInv, SubmittedOnce
  <2>6. TurnTypeOK'
    BY <2>2, <2>4, <2>5
  <2>7. PhaseInv'
    <3>1. (turn.final = "none" <=> turn.phase # "terminal")'
      BY <2>2 DEF FinalState
    <3>2. (turn.phase \in {"start", "arm", "send-input"} => sends = 0 /\ ~turn.errors)'
      BY <2>1, <2>2, <2>3, <2>4, PhaseList DEF PhaseInv, Successor, WaitPhases
    <3>3. (turn.phase \in SubmittedPhases => sends = 1 /\ ~turn.errors)'
      <4>1. CASE turn.phase = "send-input"
        BY <4>1, <2>2, <2>4 DEF Successor, SubmittedPhases, CompletePhases, PhaseInv
      <4>2. CASE turn.phase \in SubmittedPhases
        BY <4>2, <2>2, <2>4 DEF SubmittedPhases, CompletePhases, PhaseInv
      <4>3. CASE turn.phase \notin SubmittedPhases \cup {"send-input"}
        <5>1. turn'.phase \notin SubmittedPhases
          BY <4>3, <2>1, <2>2, <2>3, PhaseList
          DEF SubmittedPhases, CompletePhases, Successor, WaitPhases
        <5> QED
          BY <5>1 DEF SubmittedPhases, CompletePhases
      <4> QED
        BY <4>1, <4>2, <4>3
    <3>4. (turn.phase = "finalize-close" => session = "closed")'
      BY <2>1, <2>2, <2>3, <2>4, PhaseList DEF Successor, WaitPhases
    <3>5. (asked > 0 => turn.phase \in InterruptedPhases)'
      BY <2>1, <2>2, <2>4 DEF PhaseInv, Successor, InterruptedPhases, InterruptPhases, WaitPhases
    <3> QED
      BY <3>1, <3>2, <3>3, <3>4, <3>5 DEF PhaseInv, SubmittedPhases, InterruptedPhases
  <2>8. StoppedWhenDone' /\ InterruptWins' /\ SubmittedOnce'
    BY <2>1, <2>2, <2>3, <2>4, <2>5, PhaseList
    DEF PhaseInv, Successor, FinalState, SubmittedPhases, InterruptedPhases,
        CompletePhases, InterruptPhases, WaitPhases, StoppedWhenDone, InterruptWins,
        SubmittedOnce
  <2> QED
    BY <2>6, <2>7, <2>8
<1>3. ASSUME Reject
      PROVE  TurnInv'
  <2>1. /\ turn' \in Turn /\ turn'.phase = "terminal" /\ turn'.final = "control-failed"
        /\ UNCHANGED <<session, sends, asked>> /\ driver' \in {"run", "supervisor"}
        /\ turn.phase = "start"
    BY <1>3 DEF Reject, RejectTurn, Finish, Turn, TurnPhase, TerminalState, Started
  <2> QED
    BY <2>1 DEF PhaseInv, StoppedWhenDone, InterruptWins, SubmittedOnce, SubmittedPhases,
                InterruptedPhases, CompletePhases
<1>4. ASSUME ResumeAfterWait
      PROVE  TurnInv'
  <2>1. /\ turn' \in Turn /\ turn'.errors = turn.errors /\ turn'.final = turn.final
        /\ UNCHANGED <<driver, session, sends, asked>>
        /\ \/ turn.phase = "waiting" /\ turn'.phase = "check"
           \/ turn.phase = "waiting-close-complete" /\ turn'.phase = "close-complete"
           \/ turn.phase = "waiting-close-interrupt" /\ turn'.phase = "close-interrupt"
    BY <1>4, PhaseList DEF ResumeAfterWait, ResumeTurn, Waiting, WaitPhases, Turn
  <2> QED
    BY <2>1 DEF PhaseInv, StoppedWhenDone, InterruptWins, SubmittedOnce, SubmittedPhases,
                InterruptedPhases, CompletePhases, InterruptPhases
<1>5. ASSUME SleepFails
      PROVE  TurnInv'
  <2>1. /\ turn' \in Turn /\ turn'.final = turn.final /\ turn'.phase = "finalize-control-failed"
        /\ UNCHANGED <<driver, session, sends, asked>>
        /\ turn.phase \in WaitPhases
    BY <1>5, PhaseList DEF SleepFails, SleepFailed, Waiting, Turn
  <2> QED
    BY <2>1 DEF PhaseInv, StoppedWhenDone, InterruptWins, SubmittedOnce, SubmittedPhases,
                InterruptedPhases, CompletePhases, WaitPhases
<1>6. ASSUME RequestInterrupt
      PROVE  TurnInv'
  <2>1. /\ turn' \in Turn /\ turn'.final = turn.final /\ turn'.phase = "interrupt"
        /\ UNCHANGED <<driver, session, sends>> /\ asked' = asked + 1 /\ asked < MaxInterrupts
        /\ turn.phase # "terminal"
    BY <1>6, PhaseList DEF RequestInterrupt, InterruptTurn, Terminal, Turn
  <2> QED
    BY <2>1, InterruptAssumption
    DEF PhaseInv, StoppedWhenDone, InterruptWins, SubmittedOnce, SubmittedPhases,
        InterruptedPhases, CompletePhases, InterruptPhases, InterruptAssumption
<1>7. CASE UNCHANGED vars
  BY <1>7 DEF vars, PhaseInv, StoppedWhenDone, InterruptWins, SubmittedOnce
<1> QED
  BY <1>1, <1>2, <1>3, <1>4, <1>5, <1>6, <1>7 DEF Next, Advance

\* The inductive invariant holds in every reachable state.
THEOREM TurnInvariant == Spec => []TurnInv
<1>1. Init => TurnInv
  BY InterruptAssumption, PhaseList
  DEF InterruptAssumption, Init, FreshTurn, TurnInv, TurnTypeOK, PhaseInv, Turn,
      TerminalState, StoppedWhenDone, InterruptWins, SubmittedOnce, SubmittedPhases,
      CompletePhases, InterruptedPhases
<1>2. TurnInv /\ [Next]_vars => TurnInv'
  BY InterruptAssumption, TurnInvStep
<1> QED
  BY <1>1, <1>2, PTL DEF Spec

\* The turn, its driver and its session always have their types.
THEOREM TurnTypes == Spec => []TurnTypeOK
BY TurnInvariant, PTL DEF TurnInv

\* A turn of NativeControlTurn that reports "completed" or "closed" has an
\* acknowledged close behind it, after any interrupts, deferrals and failures.
THEOREM TurnStopped == Spec => []StoppedWhenDone
BY TurnInvariant, PTL DEF TurnInv

\* request_interrupt of an unfinished turn excludes the "completed" end.
THEOREM TurnInterrupted == Spec => []InterruptWins
BY TurnInvariant, PTL DEF TurnInv

\* The task of a control contract is submitted at most once.
THEOREM TurnSubmittedOnce == Spec => []SubmittedOnce
BY TurnInvariant, PTL DEF TurnInv

\* No step of an interrupted turn submits its task.
THEOREM TurnNoLateSubmission == Spec => NoLateSubmission
<1>1. TurnInv /\ [Next]_vars => [asked > 0 => sends' = sends]_vars
  <2> SUFFICES ASSUME TurnInv, Next, asked > 0
               PROVE  sends' = sends
    BY DEF vars
  <2>1. turn.phase \in InterruptedPhases
    BY DEF TurnInv, PhaseInv
  <2>2. Callback(turn.phase) # "send_input"
    BY <2>1 DEF InterruptedPhases, InterruptPhases, Callback
  <2> QED
    BY <2>2 DEF Next, Advance, Step, Reject, ResumeAfterWait, SleepFails, RequestInterrupt
<1> QED
  BY <1>1, TurnInvariant, PTL DEF Spec, NoLateSubmission
=============================================================================
