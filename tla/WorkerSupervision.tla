-------------------------- MODULE WorkerSupervision --------------------------
(***************************************************************************)
(* The supervisor of one native worker (scripts/supervise_native_worker.py): *)
(* commands that read a state file, judge the worker's session log and     *)
(* workspace, append to the audit log, and write the file back.  Nothing   *)
(* compares the file with what was read, and a command may die between the *)
(* audit event and the write.                                              *)
(*                                                                         *)
(* A controller is a process with a control turn id of its own.  A command *)
(* the code refuses changes nothing, so it is not a step.  The retry paths *)
(* use scripts/cwo_core/native_retry.py.                                   *)
(***************************************************************************)
EXTENDS Naturals, FiniteSets

CONSTANTS
  Controller,  \* the controllers, each standing for its control turn id
  NoTurn,      \* control_turn_id = None
  MaxMishaps   \* bound on the commands that overlap with another or die half way

ASSUME SupervisionAssumption ==
  /\ NoTurn \notin Controller
  /\ MaxMishaps \in Nat

VARIABLES
  file,      \* the state file, or NoFile
  audit,     \* the stops, receipts and authorizations in the audit log
  command,   \* what each controller is executing
  log,       \* how far the worker's session log has come
  facts,     \* what it shows: "reserve" (a threshold is reached), "violation"
  drift,     \* the workspace differs from its baseline outside the scope
  grace,     \* the startup grace has not passed
  mishaps    \* the commands so far that began beside another, or died

vars == <<file, audit, command, log, facts, drift, grace, mishaps>>

-----------------------------------------------------------------------------
FinalStates == {"completed", "closed", "control-failed"}
MonitoredStates == {"running", "interrupt-pending", "interrupt-confirmed"}
FileStatus == {"created", "armed"} \cup MonitoredStates \cup FinalStates

\* "continue" stands for "warn" too.
Stops == {"interrupt", "control-lost"}
Decision == {"continue", "complete"} \cup Stops

ControlAction == {"interrupt-confirmed", "close-confirmed", "worker-completed", "control-failed"}

\* turn: control_turn_id.  dispatch: "none" before mark-dispatched, "armed" when
\* it found the monitor armed in time, "unarmed" otherwise.  late: whether
\* late_poll_count is positive.  reasons: only budget thresholds, a protected
\* boundary, or lost control.  session: whether session_disposition is
\* "quarantined".  audited: last_audited_decision.  eligible, authorized: the
\* recovery evidence.  control_action_required is TRUE exactly for a stop in a
\* state that is not final, so it is not kept.
StateFile ==
  [status : FileStatus, turn : Controller \cup {NoTurn}, decision : Decision,
   dispatch : {"none", "armed", "unarmed"}, late : BOOLEAN,
   reasons : {"none", "budget", "protected", "control", "authority"},
   session : {"accepted", "quarantined"}, receipts : SUBSET ControlAction,
   audited : Decision, eligible : {"none", "no", "yes"}, authorized : BOOLEAN]

NoFile == [status |-> "absent"]

\* The state start writes.
FreshState ==
  [status |-> "created", turn |-> NoTurn, decision |-> "continue", dispatch |-> "none",
   late |-> FALSE, reasons |-> "none", session |-> "accepted", receipts |-> {},
   audited |-> "continue", eligible |-> "none", authorized |-> FALSE]

\* The audit events kept: decisions other than "continue", control receipts and
\* the authorization of a retry.
AuditEvent == {"complete"} \cup Stops \cup ControlAction \cup {"retry-authorized"}

Operation == {"start", "arm", "mark-dispatched", "check", "assess-retry", "authorize-retry"}
               \cup ControlAction

Idle == [at |-> "idle"]

Command ==
  {Idle}
    \cup [at : {"read"}, op : Operation, seen : StateFile \cup {NoFile}]
    \cup [at : {"write"}, seen : StateFile \cup {NoFile}, next : StateFile]

-----------------------------------------------------------------------------
(* What a command makes of the state it read.  An outcome is the state to    *)
(* write and the audit events that come before it.                           *)

Outcome(next, events) == [next |-> next, events |-> events]

\* _set_control_lost, for a reason of authority or of control.
SetControlLost(s, reason) ==
  [s EXCEPT !.decision = "control-lost", !.status = "interrupt-pending",
            !.reasons = reason, !.session = "quarantined"]

\* A decision is audited when it is not the one audited last.
AuditedOutcome(s, next) ==
  IF next.decision = s.audited THEN Outcome(next, {})
  ELSE Outcome([next EXCEPT !.audited = next.decision], {next.decision} \cap AuditEvent)

Arm(s, c) == Outcome([s EXCEPT !.turn = c, !.status = "armed"], {})

\* mark_dispatched, in time or not.
MarkDispatched(s, c, inTime) ==
  IF s.turn = c /\ inTime
  THEN Outcome([s EXCEPT !.dispatch = "armed", !.status = "running"], {})
  ELSE Outcome([SetControlLost([s EXCEPT !.dispatch = "unarmed"], "control")
                  EXCEPT !.audited = "control-lost"], {"control-lost"})

\* The task has begun and no model is attested yet, which is excused at first.
AttestationPending == log = "boundary" /\ grace /\ "reserve" \notin facts

\* The activity or the commands in the log break the packet.
Violations == "violation" \in facts

\* The comparison with the baseline finds something outside the scope.
UnexpectedMutation == drift

\* hard_reasons is not empty.
HardReasons == Violations \/ UnexpectedMutation \/ (log = "boundary" /\ ~AttestationPending)

\* Faulty variant of Judged: completion comes before the hard reasons.
JudgedLeniently(s) ==
  IF log = "complete"
  THEN {[s EXCEPT !.decision = "complete", !.reasons = "none", !.session = v] :
          v \in {"accepted", "quarantined"}}
  ELSE IF HardReasons \/ "reserve" \in facts
  THEN {[s EXCEPT !.decision = "interrupt", !.status = "interrupt-pending",
                  !.reasons = IF HardReasons THEN "protected" ELSE "budget",
                  !.session = "quarantined"]}
  ELSE {[s EXCEPT !.decision = "continue", !.reasons = "none", !.session = v] :
          v \in {"accepted", "quarantined"}}

\* The decision on a session that has begun.  What is not stopped may still be
\* quarantined, by budget overruns that do not reach a threshold.
Judged(s) ==
  IF HardReasons
  THEN {[s EXCEPT !.decision = "interrupt", !.status = "interrupt-pending",
                  !.reasons = "protected", !.session = "quarantined"]}
  ELSE IF log = "complete"
  THEN {[s EXCEPT !.decision = "complete", !.reasons = "none", !.session = v] :
          v \in {"accepted", "quarantined"}}
  ELSE IF "reserve" \in facts
  THEN {[s EXCEPT !.decision = "interrupt", !.status = "interrupt-pending",
                  !.reasons = "budget", !.session = "quarantined"]}
  ELSE {[s EXCEPT !.decision = "continue", !.reasons = "none", !.session = v] :
          v \in {"accepted", "quarantined"}}

\* The session log, the packet or the baseline cannot be read, the log is shorter
\* than it was, or there was no dispatch.
TelemetryLost(s) == AuditedOutcome(s, SetControlLost(s, "control"))

\* The task has not begun yet: neither judged nor audited, and the state is put
\* back to "running".
AwaitingBoundary(s) ==
  Outcome([s EXCEPT !.decision = "continue", !.status = "running", !.reasons = "none"], {})

\* The part of check in its try block.
Polled(s) ==
  {TelemetryLost(s)}
    \cup IF s.dispatch = "none" THEN {}
         ELSE IF log # "empty" THEN {AuditedOutcome(s, n) : n \in Judged(s)}
         ELSE IF grace THEN {AwaitingBoundary(s)} ELSE {}

\* check: without valid authority, with another turn, or with its own.  The poll of
\* a dispatched worker may be late.
Checked(s, c) ==
  {Outcome(SetControlLost(s, "authority"), {})}
    \cup IF s.status \notin MonitoredStates THEN {}
         ELSE IF s.turn # c THEN {AuditedOutcome(s, SetControlLost(s, "control"))}
         ELSE UNION {Polled([s EXCEPT !.late = l]) : l \in {s.late, s.late \/ s.dispatch # "none"}}

\* Faulty variants of Finalized: the receipt is taken for the decision audited
\* last; it is not audited at all.
FinalizedAsDecision(s, action) ==
  Outcome([s EXCEPT !.receipts = @ \cup {action}, !.audited = action,
                    !.status = IF action = "worker-completed" THEN "completed" ELSE "closed"],
          {action})

FinalizedSilently(s, action) ==
  LET t == [s EXCEPT !.receipts = @ \cup {action}]
  IN Outcome(IF action = "interrupt-confirmed" THEN [t EXCEPT !.status = "interrupt-confirmed"]
             ELSE IF action = "close-confirmed" THEN [t EXCEPT !.status = "closed"]
             ELSE IF action = "worker-completed" THEN [t EXCEPT !.status = "completed"]
             ELSE [t EXCEPT !.status = "control-failed", !.decision = "control-lost",
                            !.session = "quarantined"], {})

\* finalize with a control action.
Finalized(s, action) ==
  LET t == [s EXCEPT !.receipts = @ \cup {action}]
  IN Outcome(IF action = "interrupt-confirmed" THEN [t EXCEPT !.status = "interrupt-confirmed"]
             ELSE IF action = "close-confirmed" THEN [t EXCEPT !.status = "closed"]
             ELSE IF action = "worker-completed" THEN [t EXCEPT !.status = "completed"]
             ELSE [t EXCEPT !.status = "control-failed", !.decision = "control-lost",
                            !.session = "quarantined"], {action})

\* Faulty variant of Eligible: any interrupt will do.
EligibleAnyReason(s, fits) ==
  IF s.decision = "interrupt" /\ s.dispatch = "armed" /\ ~s.late /\ fits THEN "yes" ELSE "no"

\* evaluate_retry_eligibility, on the workspace and semantic evidence supplied,
\* which fits or not.  No state has an attempt behind it: start refuses every
\* retry authorization in the end.
Eligible(s, fits) ==
  IF s.decision = "interrupt" /\ s.reasons = "budget" /\ s.dispatch = "armed" /\ ~s.late /\ fits
  THEN "yes" ELSE "no"

\* assess_retry stores what it finds; authorize_retry finds the same again.
Assessed(s) == {Outcome([s EXCEPT !.eligible = Eligible(s, fits)], {}) : fits \in BOOLEAN}

RetryAuthorized(s) == Outcome([s EXCEPT !.authorized = TRUE], {"retry-authorized"})

\* What the command may come to.
Outcomes(op, s, c) ==
  IF op = "start" THEN {Outcome(FreshState, {})}
  ELSE IF op = "arm" THEN {Arm(s, c)}
  ELSE IF op = "mark-dispatched" THEN {MarkDispatched(s, c, inTime) : inTime \in BOOLEAN}
  ELSE IF op = "check" THEN Checked(s, c)
  ELSE IF op \in ControlAction THEN {Finalized(s, op)}
  ELSE IF op = "assess-retry" THEN Assessed(s)
  ELSE {RetryAuthorized(s)}

-----------------------------------------------------------------------------
(* The commands. *)

\* Faulty variant of FinalizeAccepted: final states are finalized again.
FinalizeAcceptedAgain(action, s, c) ==
  /\ s.turn = c
  /\ action = "worker-completed" => s.decision = "complete"
  /\ action = "interrupt-confirmed" => s.decision \in Stops
  /\ action = "close-confirmed" => "interrupt-confirmed" \in s.receipts

\* finalize accepts the action.
FinalizeAccepted(action, s, c) ==
  /\ s.turn = c /\ s.status \notin FinalStates
  /\ action = "worker-completed" => s.decision = "complete"
  /\ action = "interrupt-confirmed" => s.decision \in Stops
  /\ action = "close-confirmed" => "interrupt-confirmed" \in s.receipts

\* _require_closed_for_retry and _require_native_retry_decision.
RetryConsidered(s, c) ==
  /\ s.turn = c /\ s.status = "closed" /\ s.decision = "interrupt"
  /\ {"interrupt-confirmed", "close-confirmed"} \subseteq s.receipts

\* The command is not refused on the state it reads.
Accepted(op, s, c) ==
  IF op = "start" THEN s = NoFile
  ELSE /\ s # NoFile
       /\ op = "arm" => s.status = "created"
       /\ op = "mark-dispatched" => s.status = "armed"
       /\ op = "check" => s.status \notin FinalStates
       /\ op \in ControlAction => FinalizeAccepted(op, s, c)
       /\ op = "assess-retry" => RetryConsidered(s, c)
       /\ op = "authorize-retry" =>
            RetryConsidered(s, c) /\ s.eligible = "yes" /\ Eligible(s, TRUE) = "yes"

\* _load_control_state, and the conditions on what it returns.
Read(c, op) ==
  /\ command[c] = Idle
  /\ LET alone == \A d \in Controller : command[d] = Idle
     IN IF alone THEN mishaps' = mishaps
        ELSE mishaps < MaxMishaps /\ mishaps' = mishaps + 1
  /\ Accepted(op, file, c)
  /\ command' = [command EXCEPT ![c] = [at |-> "read", op |-> op, seen |-> file]]
  /\ UNCHANGED <<file, audit, log, facts, drift, grace>>

\* The rest of the command up to the write: evidence is read, events are audited.
Perform(c) ==
  /\ command[c].at = "read"
  /\ \E o \in Outcomes(command[c].op, command[c].seen, c) :
       /\ audit' = audit \cup o.events
       /\ command' = [command EXCEPT ![c] = [at |-> "write", seen |-> @.seen, next |-> o.next]]
  /\ UNCHANGED <<file, log, facts, drift, grace, mishaps>>

\* _write_state: the file is replaced, whatever is in it by now.
Write(c) ==
  /\ command[c].at = "write"
  /\ file' = command[c].next
  /\ command' = [command EXCEPT ![c] = Idle]
  /\ UNCHANGED <<audit, log, facts, drift, grace, mishaps>>

\* The command dies before the write, or the write fails.  (One that ends before
\* its audit event has done nothing.)
Die(c) ==
  /\ command[c].at = "write" /\ mishaps < MaxMishaps
  /\ command' = [command EXCEPT ![c] = Idle]
  /\ mishaps' = mishaps + 1
  /\ UNCHANGED <<file, audit, log, facts, drift, grace>>

-----------------------------------------------------------------------------
(* The worker. *)

\* The task is sent once a controller has armed the supervisor.
TaskBegins ==
  /\ log = "empty" /\ file # NoFile /\ file.turn # NoTurn
  /\ log' = "boundary"
  /\ UNCHANGED <<file, audit, command, facts, drift, grace, mishaps>>

LogGrows ==
  /\ \/ log = "boundary" /\ log' = "attested"
     \/ log = "attested" /\ log' = "complete"
  /\ UNCHANGED <<file, audit, command, facts, drift, grace, mishaps>>

\* The worker uses up its budget, or breaks its packet.
WorkerActs(fact) ==
  /\ log \in {"boundary", "attested"} /\ fact \notin facts
  /\ facts' = facts \cup {fact}
  /\ UNCHANGED <<file, audit, command, log, drift, grace, mishaps>>

\* A file outside the scope is changed, or put back.
WorkspaceChanges ==
  /\ log # "empty"
  /\ drift' = ~drift
  /\ UNCHANGED <<file, audit, command, log, facts, grace, mishaps>>

GracePasses ==
  /\ grace /\ file # NoFile /\ file.dispatch # "none"
  /\ grace' = FALSE
  /\ UNCHANGED <<file, audit, command, log, facts, drift, mishaps>>

-----------------------------------------------------------------------------
Init ==
  /\ file = NoFile
  /\ audit = {}
  /\ command = [c \in Controller |-> Idle]
  /\ log = "empty"
  /\ facts = {}
  /\ drift = FALSE
  /\ grace = TRUE
  /\ mishaps = 0

Next ==
  \/ \E c \in Controller : \/ \E op \in Operation : Read(c, op)
                           \/ Perform(c)
                           \/ Write(c)
                           \/ Die(c)
  \/ TaskBegins
  \/ LogGrows
  \/ \E fact \in {"reserve", "violation"} : WorkerActs(fact)
  \/ WorkspaceChanges
  \/ GracePasses

Spec == Init /\ [][Next]_vars

-----------------------------------------------------------------------------
(* Properties. *)

\* The file, the commands under way and the worker have their types.
SupervisionTypeOK ==
  /\ file = NoFile \/ file \in StateFile
  /\ audit \subseteq AuditEvent
  /\ \A c \in Controller : command[c] \in Command
  /\ log \in {"empty", "boundary", "attested", "complete"}
  /\ facts \subseteq {"reserve", "violation"}
  /\ drift \in BOOLEAN /\ grace \in BOOLEAN
  /\ mishaps \in 0..MaxMishaps

\* The audit log comes first: whatever overlaps or dies, a stop or a completion
\* in the state file is in the audit log, and so is every receipt.  The one stop
\* that is not is the loss of authority, which check writes without an event.
TrailFirst ==
  file # NoFile =>
    /\ file.receipts \subseteq audit
    /\ file.decision \in {"complete"} \cup Stops =>
         \/ file.decision \in audit
         \/ file.reasons = "authority"
         \/ file.status = "control-failed"

\* A worker is reported completed only if its log says so and shows no violation.
CompletionEarned ==
  file.status = "completed" => log = "complete" /\ "violation" \notin facts

\* A retry is authorized only for a worker that reached its budget, under an
\* audited interrupt that was confirmed and closed; and, unless commands overlap
\* or die, never for a worker that was reported completed.
RetryEarned ==
  "retry-authorized" \in audit =>
    /\ "reserve" \in facts
    /\ {"interrupt", "interrupt-confirmed", "close-confirmed"} \subseteq audit
    /\ mishaps = 0 => "worker-completed" \notin audit

\* A final state stays final, except for a command that read the file before
\* ("finalized supervision state cannot be reopened").
FinalKept ==
  [][\A c \in Controller :
       command[c].at = "write" /\ command'[c] = Idle /\ file' # file
         /\ file.status \in FinalStates /\ command[c].seen = file =>
           file'.status = file.status /\ file'.decision = file.decision]_vars

\* "Control loss or unsafe mutation: interrupt, close, and quarantine the
\* attempt" (references/native-supervision.md): when control loss was audited,
\* the final state that the last command left is quarantined, not completed.
ControlLossQuarantined ==
  "control-lost" \in audit /\ file.status \in FinalStates
    /\ (\A c \in Controller : command[c] = Idle) =>
      file.status # "completed" /\ file.session = "quarantined"
=============================================================================
