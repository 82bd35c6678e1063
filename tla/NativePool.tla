----------------------------- MODULE NativePool -----------------------------
(***************************************************************************)
(* The coordinator of one native supervision pool                          *)
(* (scripts/cwo_core/native_pool.py, class NativePoolCoordinator): it      *)
(* drives the control turns of a fixed cohort one adapter callback per     *)
(* step, contains faults, and closes with a receipt.  Around it are the    *)
(* worker sessions, which may write at any time, the operator's control    *)
(* file, a lease registry and a workspace comparison that may fail, and    *)
(* the state file.                                                         *)
(*                                                                         *)
(* The coordinator's memory is one record, "pool"; each of its private     *)
(* methods is an operator from that record to the next, so that a step     *)
(* composes them in the order the code calls them.  Time is left out: a    *)
(* child with a deadline may be due at any moment (PoolScheduler is about  *)
(* the order in which deadlines are served).                               *)
(***************************************************************************)
EXTENDS Naturals, Sequences, FiniteSets, ControlTurn

\* What may go wrong outside the coordinator; see Evidence, Invoke and Crash.
FaultKind == {"callback", "task", "child", "pool", "control-loss", "evidence", "budget",
              "authority", "overrun", "gap", "clock", "compare", "lease", "mutation",
              "watermark", "capability", "request", "operator", "io"}

\* The pools under study.  Of each: its number of children, the read-only
\* children whose workspace check is deferred, whether the admitted launcher
\* (v2) hands over the acquired leases, whether completion_policy is
\* "best-effort", and the faults the world around it may inject.
CONSTANT Setups

ASSUME PoolAssumption ==
  \A k \in Setups :
    /\ k.children \in Nat \ {0}
    /\ k.fastPath \subseteq 1..k.children
    /\ k.admitted \in BOOLEAN
    /\ k.bestEffort \in BOOLEAN
    /\ k.faults \subseteq FaultKind

VARIABLES
  pool,      \* the coordinator's memory
  receipt,   \* the receipt, or NoReceipt
  disk,      \* the status in the state file
  crashed,   \* run raised, after _cleanup_on_crash
  session,   \* each child's worker: "idle", "working" (it may act), "closed"
  dirty,     \* the workspaces differ from their baseline
  request,   \* the control file: "absent", "pending", "consumed"
  asked      \* the operator called request_interrupt (once: a bound)

vars == <<pool, receipt, disk, crashed, session, dirty, request, asked>>

\* The contract of the pool at hand, which the coordinator never changes.  Its
\* children are numbered in contract order.
N == pool.setup.children
Child == 1..N
FastPath == pool.setup.fastPath
Admitted == pool.setup.admitted
BestEffort == pool.setup.bestEffort
Faults == pool.setup.faults

-----------------------------------------------------------------------------
Status == {"created", "admitting", "running", "draining", "partial-drain",
           "interrupt-pending", "completed", "closed", "control-failed"}

Runtime == {"active", "completed", "interrupted", "failed-ambiguous", "failed-contained"}

\* session_disposition and artifact_disposition together: "accepted" (both),
\* "unaccepted" (the session is accepted, the artifact is not), "rejected"
\* (quarantined and rejected).
Verdict == {"accepted", "unaccepted", "rejected"}

\* A lease as the coordinator remembers it.
HeldLease == {"none", "acquired", "held", "release-pending", "released"}

\* protected: _protected_fault.  classified, contained: the children with a
\* classified and with a contained fault.  admitted: _admission_order.
\* deadline: the children with a next_deadline_ns.  clean: the last workspace
\* evidence.  deferred: a fast-path check was skipped since the last one.
\* revoked: the fast path is invalidated.  compared: the terminal comparison
\* is done.
PoolMemory ==
  [setup : Setups, status : Status, turn : [Child -> Turn], deadline : SUBSET Child,
   lease : [Child -> HeldLease], runtime : [Child -> Runtime],
   verdict : [Child -> Verdict], admitted : Seq(Child), protected : BOOLEAN,
   controlFailed : BOOLEAN, classified : SUBSET Child, contained : SUBSET Child,
   clean : BOOLEAN, deferred : BOOLEAN, revoked : BOOLEAN, compared : BOOLEAN]

Receipt == [accepting : BOOLEAN, disposition : {"accepted", "partial", "quarantined", "rejected"},
            authorized : SUBSET Child]

NoReceipt == [accepting |-> FALSE, disposition |-> "none", authorized |-> {}]

AllTerminal(s) == \A c \in Child : Terminal(s.turn[c])

Pending(s, c) == ~Started(s.turn[c])

\* _rejected_children.
Rejected(s) == IF s.protected THEN Child ELSE s.contained

\* The children on the fast path now, and those removed from it.
FastChildren(s) == IF s.revoked THEN {} ELSE FastPath
RevokedChildren(s) == IF s.revoked THEN FastPath ELSE {}

-----------------------------------------------------------------------------
(* Faults. *)

\* The phases from which a protected fault requests no (second) interrupt.
StoppingPhases == InterruptPhases \cup {"finalize-control-failed"}

\* The phases from which a contained fault requests none.
ContainedStoppingPhases == {"interrupt", "finalize-interrupt", "close-interrupt", "finalize-close"}

\* Faulty variant of FaultTurn: a submission that is due is let through.
FaultTurnSubmitting(t) ==
  IF ~Started(t) THEN RejectTurn(t)
  ELSE IF t.phase \in StoppingPhases \cup {"send-input"} THEN t ELSE InterruptTurn(t)

\* A pool-wide fault ends the children that were never admitted and turns
\* every other one to its interrupt.
FaultTurn(t) ==
  IF ~Started(t) THEN RejectTurn(t)
  ELSE IF t.phase \in StoppingPhases THEN t ELSE InterruptTurn(t)

\* Faulty variant of EnterFault: completed children keep their verdict.
EnterFaultSparing(s, cf, affected) ==
  [s EXCEPT
     !.protected = TRUE,
     !.controlFailed = @ \/ cf,
     !.classified = @ \cup affected,
     !.runtime = [c \in Child |-> IF c \in affected THEN "failed-ambiguous"
                                  ELSE IF @[c] = "completed" THEN "completed"
                                  ELSE "interrupted"],
     !.verdict = [c \in Child |-> IF s.runtime[c] = "completed" THEN @[c] ELSE "rejected"],
     !.turn = [c \in Child |-> FaultTurn(@[c])]]

\* _enter_fault: control_failed = cf, affected_child_id in affected (at most one).
EnterFault(s, cf, affected) ==
  [s EXCEPT
     !.protected = TRUE,
     !.controlFailed = @ \/ cf,
     !.classified = @ \cup affected,
     !.runtime = [c \in Child |-> IF c \in affected THEN "failed-ambiguous"
                                  ELSE IF @[c] = "completed" THEN "completed"
                                  ELSE "interrupted"],
     !.verdict = [c \in Child |-> "rejected"],
     !.turn = [c \in Child |-> FaultTurn(@[c])]]

\* Faults of several children in contract order: the last one stays affected.
EnterFaults(s, cf, affected) ==
  LET last == CHOOSE c \in affected : \A d \in affected : d <= c
  IN IF affected = {} THEN s
     ELSE EnterFault(EnterFault(s, cf, affected \ {last}), cf, {last})

\* _record_contained_fault.
RecordContainedFault(s, c) ==
  [s EXCEPT
     !.contained = @ \cup {c},
     !.classified = @ \cup {c},
     !.runtime[c] = "failed-contained",
     !.verdict[c] = "rejected",
     !.turn[c] = IF @.phase \in ContainedStoppingPhases THEN @ ELSE InterruptTurn(@)]

\* A protected fault in a child's evidence: _try_contain_child_fault, and the
\* pool-wide fault when it declines.  kind "child" is an individual failure with
\* no pool-wide reason code; authorized: the recovery action was consumed.
ChildFault(s, c, kind, authorized) ==
  IF c \in s.classified THEN
    IF c \in s.contained THEN s ELSE EnterFault(s, FALSE, {c})
  ELSE IF ~(BestEffort /\ Admitted /\ kind = "child") THEN EnterFault(s, FALSE, {c})
  ELSE IF authorized THEN RecordContainedFault(s, c)
  ELSE EnterFault(s, FALSE, {c})

-----------------------------------------------------------------------------
(* One invocation of a child. *)

\* Faulty variant of UpdateProgress: the turn's terminal state is taken for the
\* runtime disposition.
UpdateProgressRaw(s, c, t) ==
  LET u == [s EXCEPT
              !.turn[c] = t,
              !.deadline = IF Terminal(t) \/ t.phase \in {"finalize-complete", "close-complete"}
                           THEN @ \ {c} ELSE @,
              !.runtime[c] = IF ~Terminal(t) \/ @ # "active" THEN @ ELSE t.final]
  IN IF t.final = "control-failed" THEN EnterFault(u, TRUE, {c}) ELSE u

\* _update_child_progress with the turn its step returned.
UpdateProgress(s, c, t) ==
  LET u == [s EXCEPT
              !.turn[c] = t,
              !.deadline = IF Terminal(t) \/ t.phase \in {"finalize-complete", "close-complete"}
                           THEN @ \ {c} ELSE @,
              !.runtime[c] = IF ~Terminal(t) \/ @ # "active" THEN @
                             ELSE IF t.final = "completed" THEN "completed"
                             ELSE IF t.final = "control-failed" THEN "failed-ambiguous"
                             ELSE "interrupted"]
  IN IF t.final = "control-failed" THEN EnterFault(u, TRUE, {c}) ELSE u

\* What read_child_evidence may return.  An adapter gives reasons exactly when
\* it reports a fault; "unreadable" is evidence _normalize_child_evidence or the
\* usage ledger refuses; budget: the aggregate allowance is exhausted.
Evidence ==
  {e \in [verdict : Verdict, budget : BOOLEAN,
          fault : {"none", "child", "pool", "control-loss", "unreadable"}] :
     /\ e.fault # "none" => e.verdict = "rejected"
     /\ e.fault = "unreadable" => ~e.budget /\ "evidence" \in Faults
     /\ e.budget => "budget" \in Faults
     /\ e.fault \in {"child", "pool", "control-loss"} => e.fault \in Faults}

QuietEvidence == [verdict |-> "rejected", budget |-> FALSE, fault |-> "none"]

\* _read_evidence.
ReadEvidence(s, c, e, authorized) ==
  LET s1 == IF c \in RevokedChildren(s) \cup Rejected(s) THEN s
            ELSE [s EXCEPT !.verdict[c] = e.verdict]
      s2 == IF e.budget THEN EnterFault(s1, FALSE, {}) ELSE s1
  IN IF e.fault = "unreadable" THEN EnterFault(s, TRUE, {c})
     ELSE IF e.fault = "control-loss" THEN EnterFault(s2, TRUE, {c})
     ELSE IF e.fault \in {"child", "pool"} THEN ChildFault(s2, c, e.fault, authorized)
     ELSE s2

\* _record_poll: the gap since the last poll may be too long, or negative.
\* The first poll admits the child and holds its lease.
RecordPoll(s, c, timing, holds) ==
  LET s1 == IF timing = "clock" THEN EnterFault(s, TRUE, {})
            ELSE IF timing = "gap" THEN EnterFault(s, FALSE, {})
            ELSE s
      s2 == [s1 EXCEPT !.deadline = @ \cup {c}]
      first == \A i \in 1..Len(s.admitted) : s.admitted[i] # c
      s3 == [s2 EXCEPT !.admitted = Append(@, c)]
  IN IF ~first THEN s2
     ELSE IF s.lease[c] = "none" THEN s3
     ELSE IF holds THEN [s3 EXCEPT !.lease[c] = "held"]
     ELSE EnterFault(s3, TRUE, {c})

\* _invalidate_read_only_fast_path, when a fast path is left.
Revoke(s) ==
  IF FastChildren(s) = {} THEN s
  ELSE [s EXCEPT !.verdict = [c \in Child |-> IF c \in FastPath THEN "rejected" ELSE @[c]],
                 !.revoked = TRUE, !.deferred = FALSE]

\* What compare_workspaces returns.
Comparisons == {IF dirty THEN "dirty" ELSE "clean"}
                 \cup (IF "compare" \in Faults THEN {"error"} ELSE {})

\* The comparison after a callback.
CompareAfter(s, result) ==
  IF result = "clean" THEN [s EXCEPT !.clean = TRUE, !.deferred = FALSE]
  ELSE IF result = "dirty" THEN EnterFault(Revoke([s EXCEPT !.clean = FALSE]), FALSE, {})
  ELSE EnterFault(Revoke(s), TRUE, {})

\* The callbacks before the first observation of the worker.
BeforeObservation == {"arm", "send_input", "mark_dispatched"}

\* What an invocation with this callback may meet: the evidence (and whether a
\* recovery action for it is consumed), the timing of a poll, the answer of the
\* lease registry, a callback longer than certified, the workspace comparison.
Observation(callback) ==
  [evidence : IF callback \in BeforeObservation THEN {QuietEvidence} ELSE Evidence,
   authorized : IF "authority" \in Faults THEN BOOLEAN ELSE {TRUE},
   timing : {"ok"} \cup (IF callback = "check" THEN {"gap", "clock"} \cap Faults ELSE {}),
   holds : IF callback = "check" /\ "lease" \in Faults THEN BOOLEAN ELSE {TRUE},
   overrun : IF "overrun" \in Faults THEN BOOLEAN ELSE {FALSE},
   result : Comparisons]

\* The turn is waiting for an archive request to settle.
Archiving(t) == t.phase \in {"waiting-close-complete", "waiting-close-interrupt"}

\* Faulty variant of ProgressPart: an archive request gets no deadline.
ProgressPartStranding(s, c, t) == UpdateProgress(s, c, t)

\* The parts of _invoke_child after its callback has led the turn to t, in the
\* order of the code: progress, evidence, poll, callback bound, comparison.
ProgressPart(s, c, t) ==
  LET u == UpdateProgress(s, c, t)
  IN IF Archiving(t) THEN [u EXCEPT !.deadline = @ \cup {c}] ELSE u

EvidencePart(s, c, callback, t, o) ==
  IF callback \in BeforeObservation \/ Archiving(t) THEN s
  ELSE ReadEvidence(s, c, o.evidence, o.authorized)

PollPart(s, c, callback, t, o) ==
  IF callback # "check" THEN s
  ELSE IF t.phase \in {"waiting", "finalize-complete", "interrupt"}
  THEN RecordPoll(s, c, o.timing, o.holds)
  ELSE EnterFault(s, TRUE, {})

ComparePart(s, c, callback, o) ==
  LET u == IF o.overrun THEN EnterFault(s, FALSE, {}) ELSE s
  IN IF callback \in BeforeObservation THEN u
     ELSE IF c \in FastChildren(u) THEN [u EXCEPT !.deferred = TRUE]
     ELSE CompareAfter(u, o.result)

\* Faulty variant of StatusAfter: control loss does not show in the status.
StatusAfterOptimistic(s) ==
  IF s.protected /\ ~AllTerminal(s) THEN "interrupt-pending"
  ELSE IF AllTerminal(s) THEN "completed"
  ELSE IF s.contained # {} THEN "partial-drain"
  ELSE IF Len(s.admitted) < N THEN "admitting"
  ELSE IF \E c \in Child : Terminal(s.turn[c]) THEN "draining"
  ELSE "running"

\* _status_after_action.
StatusAfter(s) ==
  IF s.protected /\ ~AllTerminal(s) THEN "interrupt-pending"
  ELSE IF AllTerminal(s) THEN IF s.controlFailed THEN "control-failed" ELSE "completed"
  ELSE IF s.contained # {} THEN "partial-drain"
  ELSE IF Len(s.admitted) < N THEN "admitting"
  ELSE IF \E c \in Child : Terminal(s.turn[c]) THEN "draining"
  ELSE "running"

Settled(s) == [s EXCEPT !.status = StatusAfter(s)]

-----------------------------------------------------------------------------
(* Leases, the receipt, and the abnormal ends. *)

Unreleased(s) == {c \in Child : s.lease[c] \notin {"none", "released"}}

Unparked(s) == {c \in Child : s.lease[c] \in {"acquired", "held"}}

\* Failures the lease registry may answer a set of calls with.
LeaseFailures(S) == IF "lease" \in Faults THEN SUBSET S ELSE {{}}

\* _mark_lease_release_pending for every child, failing for some.
ParkLeases(s, failing) ==
  EnterFaults([s EXCEPT !.lease = [c \in Child |-> IF c \in Unparked(s) \ failing
                                                   THEN "release-pending" ELSE @[c]]],
              TRUE, failing)

\* _compare_deferred_workspace_on_control_failure.
CompareOnFailure(s, result) ==
  IF ~s.deferred \/ s.compared THEN s
  ELSE IF result = "clean" THEN [s EXCEPT !.clean = TRUE, !.compared = TRUE]
  ELSE IF result = "dirty"
  THEN [EnterFault(Revoke([s EXCEPT !.clean = FALSE]), TRUE, {}) EXCEPT !.compared = TRUE]
  ELSE EnterFault(Revoke(s), TRUE, {})

\* The coordinator's part of _build_receipt.  A child's bead may be closed on
\* an admitted pool's word only (implementation_bead_close_authorized).
Accepting(s) ==
  /\ s.status = "closed"
  /\ ~s.protected /\ s.contained = {}
  /\ s.admitted = [i \in 1..N |-> i]
  /\ s.clean
  /\ \A c \in Child : /\ s.lease[c] = "released"
                      /\ s.runtime[c] = "completed"
                      /\ s.verdict[c] = "accepted"

Authorized(s) ==
  {c \in Child : /\ Admitted
                 /\ s.runtime[c] = "completed"
                 /\ s.verdict[c] = "accepted"
                 /\ s.turn[c].final = "completed" /\ ~s.turn[c].errors}

Disposition(s) ==
  IF Accepting(s) THEN "accepted"
  ELSE IF s.protected \/ s.controlFailed THEN "quarantined"
  ELSE IF \E c \in Child : s.verdict[c] = "accepted" THEN "partial"
  ELSE "rejected"

BuildReceipt(s) ==
  [accepting |-> Accepting(s), disposition |-> Disposition(s), authorized |-> Authorized(s)]

\* What validate_pool_receipt demands that the coordinator has not already
\* made sure of; _build_receipt raises when it fails.
ReceiptValid(s) ==
  /\ \A c \in Child : s.runtime[c] \in {"failed-contained", "failed-ambiguous", "interrupted"} =>
                        s.verdict[c] = "rejected"
  /\ (Admitted /\ Disposition(s) = "partial"
        /\ \E c \in Child : s.runtime[c] = "failed-contained") =>
       /\ \E c \in Child : s.runtime[c] = "completed"
       /\ \A c \in Child : s.runtime[c] \in {"completed", "failed-contained"}

\* _classify_crash and the rest of _cleanup_on_crash: every turn not yet
\* terminal is written off, leases are parked, and their release is refused
\* because the state is control-failed.
CleanupOnCrash(s, failing) ==
  LET s1 == [s EXCEPT
               !.status = "control-failed", !.protected = TRUE, !.controlFailed = TRUE,
               !.deadline = {},
               !.turn = [c \in Child |-> IF Terminal(@[c]) THEN @[c] ELSE RejectTurn(@[c])]]
      s2 == ParkLeases(s1, failing)
  IN EnterFaults(s2, TRUE, Unreleased(s2))

-----------------------------------------------------------------------------
(* The coordinator's steps. *)

\* A new state is persisted at the end of every step.
Persist(s) == pool' = s /\ disk' = s.status

Running == ~crashed /\ pool.status \notin {"closed", "control-failed"}

\* _step_once got past the control file.
Undisturbed == Running /\ request # "pending"

\* _contain_state_watermark_failure: the state file was changed or lost.
WatermarkFault ==
  /\ "watermark" \in Faults /\ Running
  /\ Persist(Settled(EnterFault(pool, FALSE, {})))
  /\ UNCHANGED <<receipt, crashed, session, dirty, request, asked>>

\* The capability receipt is no longer valid; not asked once a fault is protected.
CapabilityFault ==
  /\ "capability" \in Faults /\ Running
  /\ ~pool.protected
  /\ Persist(Settled(EnterFault(pool, FALSE, {})))
  /\ UNCHANGED <<receipt, crashed, session, dirty, request, asked>>

\* Faulty variant of ConsumeControlRequest: the request is taken, not acted on.
ConsumeControlRequestIdly ==
  /\ Running /\ request = "pending"
  /\ request' = "consumed"
  /\ UNCHANGED <<pool, disk, receipt, crashed, session, dirty, asked>>

\* _consume_control_request: valid or not, the file stops the cohort, once.
ConsumeControlRequest ==
  /\ Running /\ request = "pending"
  /\ Persist(Settled(EnterFault(pool, FALSE, {})))
  /\ request' = "consumed"
  /\ UNCHANGED <<receipt, crashed, session, dirty, asked>>

\* The first step; "admitting" stands for "capability-validated" too.
Begin ==
  /\ Undisturbed /\ pool.status = "created"
  /\ Persist(IF pool.clean THEN [pool EXCEPT !.status = "admitting"]
             ELSE Settled(EnterFault(pool, FALSE, {})))
  /\ UNCHANGED <<receipt, crashed, session, dirty, request, asked>>

\* acquire_many grants the whole set or none; the error names a child.
AcquireLeases ==
  /\ Undisturbed /\ pool.status \notin {"created", "completed"}
  /\ ~pool.protected /\ \A c \in Child : pool.lease[c] = "none"
  /\ \/ Persist(Settled([pool EXCEPT !.lease = [c \in Child |-> "acquired"]]))
     \/ /\ "lease" \in Faults
        /\ \E c \in Child : Persist(Settled(EnterFault(pool, FALSE, {c})))
  /\ UNCHANGED <<receipt, crashed, session, dirty, request, asked>>

\* The coordinator may run its children: it holds every lease, or is stopping.
Driving ==
  /\ Undisturbed /\ pool.status \notin {"created", "completed"}
  /\ pool.protected \/ \A c \in Child : pool.lease[c] # "none"

\* The first child, in contract order, that has something to do now.
Proposed(s) ==
  {c \in Child : /\ ~Terminal(s.turn[c]) /\ ~Waiting(s.turn[c])
                 /\ \A d \in Child : d < c => Terminal(s.turn[d]) \/ Waiting(s.turn[d])}

\* _next_lifecycle_child: a due child or one the peer guard prefers (either has
\* a deadline), or else the proposed one.
Selectable(s) == s.deadline \cup Proposed(s)

\* What the adapter may answer.
Answers(phase) == IF "callback" \in Faults THEN Replies(phase) ELSE Replies(phase) \ {"fails"}

\* The worker sessions a callback of child c may leave.
SessionsAfter(c, callback, reply) ==
  IF callback = "send_input" THEN
    {[session EXCEPT ![c] = "working"]} \cup (IF reply = "fails" THEN {session} ELSE {})
  ELSE IF callback = "close" /\ reply # "deferred" THEN
    {[session EXCEPT ![c] = "closed"]} \cup (IF reply = "fails" THEN {session} ELSE {})
  ELSE {session}

\* _invoke_child: one callback of child c, and all that follows it.
InvokeChild(c, reply) ==
  LET t == IF Waiting(pool.turn[c]) THEN ResumeTurn(pool.turn[c]) ELSE pool.turn[c]
      callback == Callback(t.phase)
  IN /\ Driving /\ c \in Selectable(pool)
     /\ reply \in Answers(t.phase)
     /\ \E o \in Observation(callback), next \in {StepTurn(t, reply)} :
        \E s1 \in {ProgressPart(pool, c, next)} :
        \E s2 \in {EvidencePart(s1, c, callback, next, o)} :
        \E s3 \in {PollPart(s2, c, callback, next, o)} :
        \E s4 \in {ComparePart(s3, c, callback, o)} : Persist(Settled(s4))
     /\ session' \in SessionsAfter(c, callback, reply)
     /\ UNCHANGED <<receipt, crashed, dirty, request, asked>>

\* The task does not match its contract: the turn ends without a callback.
RejectChild(c) ==
  /\ "task" \in Faults
  /\ Driving /\ c \in Proposed(pool) /\ Pending(pool, c)
  /\ Persist(Settled(UpdateProgress(pool, c, RejectTurn(pool.turn[c]))))
  /\ UNCHANGED <<receipt, crashed, session, dirty, request, asked>>

\* Nothing is left to drive: an interrupt arrived after the last child ended.
Settle ==
  /\ Driving /\ AllTerminal(pool)
  /\ Persist(Settled(pool))
  /\ UNCHANGED <<receipt, crashed, session, dirty, request, asked>>

\* The terminal comparison.  A dirty one is a fault, and counts as done.
CompareTerminal(result) ==
  LET s == IF result = "clean" THEN [pool EXCEPT !.clean = TRUE, !.compared = TRUE]
           ELSE IF result = "dirty"
           THEN [EnterFault(Revoke([pool EXCEPT !.clean = FALSE]), FALSE, {})
                   EXCEPT !.compared = TRUE]
           ELSE EnterFault(Revoke(pool), TRUE, {})
  IN /\ Undisturbed /\ pool.status = "completed" /\ ~pool.compared
     /\ result \in Comparisons
     /\ Persist(IF s.controlFailed THEN [s EXCEPT !.status = "control-failed"] ELSE s)
     /\ UNCHANGED <<receipt, crashed, session, dirty, request, asked>>

\* Faulty variant of ReleaseNext: leases go before the terminal comparison.
ReleaseNextEarly(failing) ==
  LET left == Unreleased(pool) \ failing
  IN /\ Undisturbed /\ pool.status = "completed"
     /\ Unreleased(pool) # {} /\ failing = {}
     /\ Persist([pool EXCEPT !.lease = [c \in Child |->
           IF c \in left /\ \A d \in left : c <= d THEN "released" ELSE @[c]]])
     /\ UNCHANGED <<receipt, crashed, session, dirty, request, asked>>

\* _release_next: the first lease whose release succeeds, if any; each failure
\* before it is a control failure.
ReleaseNext(failing) ==
  LET left == Unreleased(pool) \ failing
      s1 == EnterFaults(pool, TRUE, failing)
      s2 == [s1 EXCEPT !.lease = [c \in Child |->
                IF c \in left /\ \A d \in left : c <= d THEN "released" ELSE @[c]]]
  IN /\ Undisturbed /\ pool.status = "completed" /\ pool.compared
     /\ Unreleased(pool) # {}
     /\ failing \in LeaseFailures(Unreleased(pool))
     /\ \A f \in failing, c \in left : f < c
     /\ Persist(IF s2.controlFailed THEN [s2 EXCEPT !.status = "control-failed"] ELSE s2)
     /\ UNCHANGED <<receipt, crashed, session, dirty, request, asked>>

Close ==
  /\ Undisturbed /\ pool.status = "completed" /\ pool.compared
  /\ Unreleased(pool) = {}
  /\ Persist([pool EXCEPT !.status = "closed"])
  /\ UNCHANGED <<receipt, crashed, session, dirty, request, asked>>

\* The receipt of a closed pool.  "closed" is on disk before it is built, so
\* that workers and the operator may act in between.
IssueReceipt ==
  /\ ~crashed /\ pool.status = "closed" /\ receipt = NoReceipt
  /\ ReceiptValid(pool)
  /\ receipt' = BuildReceipt(pool)
  /\ UNCHANGED <<pool, disk, crashed, session, dirty, request, asked>>

\* _build_receipt raises: the closed state is rewritten as a crash.
ReceiptRefused ==
  /\ ~crashed /\ pool.status = "closed" /\ receipt = NoReceipt
  /\ ~ReceiptValid(pool)
  /\ crashed' = TRUE
  /\ Persist(CleanupOnCrash(pool, {}))
  /\ UNCHANGED <<receipt, session, dirty, request, asked>>

\* _finish_control_failed.  The status of the failure it follows is on disk
\* already.
FinishControlFailed(failing, result) ==
  LET s == ParkLeases(CompareOnFailure(pool, result), failing)
  IN /\ ~crashed /\ pool.status = "control-failed" /\ receipt = NoReceipt
     /\ failing \in LeaseFailures(Unparked(pool))
     /\ result \in Comparisons
     /\ Persist(s)
     /\ receipt' = BuildReceipt(s)
     /\ UNCHANGED <<crashed, session, dirty, request, asked>>

\* request_interrupt of the coordinator.
RequestInterrupt ==
  /\ "operator" \in Faults /\ ~asked /\ Running
  /\ Persist([EnterFault(pool, FALSE, {}) EXCEPT !.status = "interrupt-pending"])
  /\ asked' = TRUE
  /\ UNCHANGED <<receipt, crashed, session, dirty, request>>

\* A step raises: a state or decision that cannot be written, an evidence
\* callback with an unexpected exception, a failing sleep.  The crash state is
\* itself written, unless both attempts fail.
Crash(failing) ==
  /\ "io" \in Faults /\ ~crashed /\ receipt = NoReceipt
  /\ failing \in LeaseFailures(Unparked(pool))
  /\ crashed' = TRUE
  /\ pool' = CleanupOnCrash(pool, failing)
  /\ disk' \in {disk, "control-failed"}
  /\ UNCHANGED <<receipt, session, dirty, request, asked>>

-----------------------------------------------------------------------------
(* The world around it. *)

\* A worker changes something it does not own.
WorkerWrites ==
  /\ "mutation" \in Faults /\ ~dirty
  /\ \E c \in Child : session[c] = "working"
  /\ dirty' = TRUE
  /\ UNCHANGED <<pool, receipt, disk, crashed, session, request, asked>>

\* supervise_native_pool.py interrupt writes the control file.
WriteControlFile ==
  /\ "request" \in Faults /\ request = "absent"
  /\ request' = "pending"
  /\ UNCHANGED <<pool, receipt, disk, crashed, session, dirty, asked>>

-----------------------------------------------------------------------------
\* The constructor compares the workspaces once, and writes the first state.
Init ==
  \E k \in Setups : LET children == 1..k.children IN
    /\ dirty \in IF "mutation" \in k.faults THEN BOOLEAN ELSE {FALSE}
    /\ pool = [setup |-> k, status |-> "created",
               turn |-> [c \in children |-> FreshTurn], deadline |-> {},
               lease |-> [c \in children |-> IF k.admitted THEN "acquired" ELSE "none"],
               runtime |-> [c \in children |-> "active"],
               verdict |-> [c \in children |-> "rejected"],
               admitted |-> <<>>, protected |-> FALSE, controlFailed |-> FALSE,
               classified |-> {}, contained |-> {}, clean |-> ~dirty, deferred |-> FALSE,
               revoked |-> FALSE, compared |-> FALSE]
    /\ receipt = NoReceipt
    /\ disk = "created"
    /\ crashed = FALSE
    /\ session = [c \in children |-> "idle"]
    /\ request = "absent"
    /\ asked = FALSE

Invoke(c) == \E reply \in {"ok", "deferred", "continue", "complete", "interrupt", "fails"} :
               InvokeChild(c, reply)

Coordinator ==
  \/ ConsumeControlRequest
  \/ Begin
  \/ AcquireLeases
  \/ \E c \in Child : Invoke(c)
  \/ Settle
  \/ \E result \in Comparisons : CompareTerminal(result)
  \/ \E failing \in SUBSET Child : ReleaseNext(failing)
  \/ Close
  \/ IssueReceipt
  \/ ReceiptRefused
  \/ \E failing \in SUBSET Child, result \in Comparisons : FinishControlFailed(failing, result)

Next ==
  \/ Coordinator
  \/ WatermarkFault
  \/ CapabilityFault
  \/ \E c \in Child : RejectChild(c)
  \/ RequestInterrupt
  \/ \E failing \in SUBSET Child : Crash(failing)
  \/ WorkerWrites
  \/ WriteControlFile

Spec == Init /\ [][Next]_vars

\* The children of the pools under study.
AnyChild == UNION {1..k.children : k \in Setups}

\* The close of a child whose archive request has settled.
CloseSettles(c) ==
  /\ c \in Child
  /\ pool.turn[c].phase \in {"close-complete", "close-interrupt",
                             "waiting-close-complete", "waiting-close-interrupt"}
  /\ InvokeChild(c, "ok") \/ InvokeChild(c, "fails")

\* run() steps until the pool ends; a waiting child becomes due and is served
\* in the order of the deadlines; an archive request does not stay unsettled.
Fairness ==
  /\ WF_vars(Coordinator)
  /\ \A c \in AnyChild : WF_vars(Invoke(c)) /\ SF_vars(CloseSettles(c))

FairSpec == Spec /\ Fairness

-----------------------------------------------------------------------------
(* Properties. *)

Ended == crashed \/ receipt # NoReceipt

\* The coordinator's memory and the world around it have their types.
PoolTypeOK ==
  /\ pool \in PoolMemory
  /\ receipt \in Receipt \cup {NoReceipt}
  /\ disk \in Status
  /\ crashed \in BOOLEAN
  /\ session \in [Child -> {"idle", "working", "closed"}]
  /\ dirty \in BOOLEAN
  /\ request \in {"absent", "pending", "consumed"}
  /\ asked \in BOOLEAN

\* An accepting receipt is earned: every child's turn completed without a failed
\* callback, its session is closed, nothing was written outside its authority
\* (by a fast-path child either), and no interrupt was requested before.
AcceptanceEarned ==
  receipt.accepting =>
    /\ \A c \in Child : /\ pool.turn[c].final = "completed" /\ ~pool.turn[c].errors
                        /\ session[c] = "closed"
    /\ ~dirty /\ pool.compared
    /\ request # "consumed" /\ ~asked

\* A child whose bead may be closed ended cleanly, has no session left, was
\* never faulted, and shares its receipt with no workspace violation.
AuthorizationEarned ==
  \A c \in receipt.authorized :
    /\ session[c] = "closed" /\ pool.turn[c].final = "completed"
    /\ c \notin pool.classified /\ ~dirty

\* A state file that says "completed" or "closed" proves that no session of
\* the pool is running: cleanup_stale releases leases on its word.
DiskQuiescent ==
  disk \in {"completed", "closed"} => \A c \in Child : session[c] # "working"

\* After a pool-wide fault nothing is submitted to any child any more.
NoSubmissionAfterFault ==
  [][pool.protected => \A c \in Child : session'[c] = "working" => session[c] = "working"]_vars

\* A waiting child always has a deadline, else no step could ever select it
\* again; a terminal one has none, else it would be selected for ever.
NoStrandedChild ==
  \A c \in Child : /\ Waiting(pool.turn[c]) => c \in pool.deadline
                   /\ c \in pool.deadline => ~Terminal(pool.turn[c])

\* Children are admitted in contract order, each under its lease, and a lease
\* is released only after every turn has ended and the workspaces were compared.
LeaseDiscipline ==
  /\ \A i \in 1..Len(pool.admitted) : pool.admitted[i] = i
  /\ \A c \in Child : session[c] # "idle" => pool.lease[c] # "none"
  /\ \A c \in Child : pool.lease[c] = "released" => pool.compared /\ AllTerminal(pool)

\* A pool-wide fault brings the whole pool to its end, and a contained one its
\* child, whatever the other children, the workers and the operator do.
FaultSettles ==
  /\ pool.protected ~> Ended
  /\ \A c \in AnyChild : (c \in pool.contained) ~> (c \in Child /\ Terminal(pool.turn[c]))

\* "Leases remain held until terminal workspace comparison succeeds"
\* (references/native-supervision-pools.md).
LeasesHeldUntilCleanComparison ==
  \A c \in Child : pool.lease[c] = "released" => pool.clean

\* "An isolated child semantic failure may preserve an independently accepted
\* peer, but the pool receipt remains partial and nonaccepting" (the same
\* document): without a failing disk every pool that stops has its receipt.
IsolatedFailureReported == crashed => "io" \in Faults
=============================================================================
