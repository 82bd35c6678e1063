----------------------------- MODULE TurnDispatch -----------------------------
(***************************************************************************)
(* The dispatch of one turn of one thread by the live campaign: start_turn *)
(* and contain_ambiguous_turn_dispatch of the class AppServer              *)
(* (scripts/run_native_pool_live_canaries.py), the private dispatch record *)
(* they keep (native_turn_dispatch.py) and the allocation ledger they      *)
(* append to (native_live_allocation_ledger.py).                           *)
(*                                                                         *)
(* turn/start is written once.  When its outcome is uncertain the turn it  *)
(* may have started is looked for, interrupted and archived, and only an   *)
(* exact negative response may prove that there is none.  Any controller   *)
(* may die at any step; others attach to the same ledger directory once    *)
(* the first has left start_turn, and contain again from the record, each  *)
(* over a connection of its own.  The app-server is external: it may start *)
(* or reject the turn late, and answers, notifications and projections of  *)
(* the thread may be missing.                                              *)
(***************************************************************************)
EXTENDS Naturals

CONSTANTS
  Dispatcher,  \* the AppServer object that calls start_turn
  Recoverer,   \* AppServer objects that are attached later
  Nobody,      \* no controller
  MaxFaults,   \* bound on the writes that fail by themselves
  MaxCalls     \* bound on the later calls of containment that a controller makes

Controller == {Dispatcher} \cup Recoverer

ASSUME ControllerAssumption ==
  /\ Dispatcher \notin Recoverer
  /\ Nobody \notin Controller
  /\ MaxFaults \in Nat
  /\ MaxCalls \in Nat

VARIABLES
  request,   \* the turn/start request, as the app-server has it
  turn,      \* the turn
  response,  \* the response of the request on the dispatcher's connection
  ledger,    \* the allocation ledger and whether its audit log is ahead of it
  store,     \* the ledger store of each controller: its trusted head and the
             \* observer of a negative response that it knows
  record,    \* the durable dispatch record
  lock,      \* who holds the record's lock from one step to the next
  app,       \* the local variables of each controller
  faults,    \* writes that failed by themselves
  calls      \* later calls of containment each controller has made

vars == <<request, turn, response, ledger, store, record, lock, app, faults, calls>>

-----------------------------------------------------------------------------
(* The dispatch record. *)

Status == {"none", "prepared", "dispatching", "acknowledged", "failed-ambiguous",
           "failed-contained"}

Resolution == {"pending", "turn-bound", "verified-absent"}

\* Sets of turn ids are flags: the ledger lets a thread have one turn intent.
Record ==
  [status : Status, resolution : Resolution, discovered : BOOLEAN, attempted : BOOLEAN,
   failed : BOOLEAN, terminal : BOOLEAN, active : BOOLEAN, queried : BOOLEAN,
   absence : BOOLEAN, archived : BOOLEAN, epoch : Controller \cup {Nobody}]

NoRecord ==
  [status |-> "none", resolution |-> "pending", discovered |-> FALSE, attempted |-> FALSE,
   failed |-> FALSE, terminal |-> FALSE, active |-> FALSE, queried |-> FALSE,
   absence |-> FALSE, archived |-> FALSE, epoch |-> Nobody]

\* evolve_turn_dispatch_record with only a new status.
WithStatus(r, status) == [r EXCEPT !.status = status]

\* What is still missing on this record is the success audit.
AuditPending(r) ==
  /\ r.status = "failed-ambiguous" /\ r.archived /\ r.absence
  /\ ~r.active /\ ~r.failed /\ r.discovered = r.terminal
  /\ r.resolution # "pending"

-----------------------------------------------------------------------------
(* The allocation ledger. *)

EmptyLedger == [events |-> {}, evidence |-> NoRecord, ahead |-> FALSE]

ClosedStore == [open |-> FALSE, at |-> {}, observer |-> "none"]

\* _require_trusted_locked: the store is armed and its head is the one on disk.
Trusted(c) == store[c].open /\ store[c].at = ledger.events /\ ~ledger.ahead

\* _disarm also forgets the observers of a negative response.
Disarm(c) == store' = [store EXCEPT ![c] = ClosedStore]

Arm(c, events) == store' = [store EXCEPT ![c].open = TRUE, ![c].at = events]

With(event, evidence) ==
  [ledger EXCEPT !.events = @ \cup {event},
                 !.evidence = IF event = "containment-audited" THEN evidence ELSE @]

\* _append: the event goes to the audit log, then to the ledger, then the new
\* head is trusted.  A stale store, and any failure on the way, disarms it; a
\* failure between the two writes leaves the audit log ahead for good.
Append(c, event, evidence, ok) ==
  \/ /\ ok /\ Trusted(c)
     /\ ledger' = With(event, evidence)
     /\ Arm(c, ledger.events \cup {event})
     /\ UNCHANGED faults
  \/ /\ ~ok /\ ~Trusted(c)
     /\ Disarm(c)
     /\ UNCHANGED <<ledger, faults>>
  \/ /\ ~ok /\ Trusted(c) /\ faults < MaxFaults
     /\ ledger' \in {ledger, [ledger EXCEPT !.ahead = TRUE], With(event, evidence)}
     /\ Disarm(c)
     /\ faults' = faults + 1

\* record_lifecycle: an event that is already there is not written again.
RecordLifecycle(c, event, ok) ==
  \/ ok /\ Trusted(c) /\ event \in ledger.events /\ UNCHANGED <<ledger, store, faults>>
  \/ (event \notin ledger.events \/ ~Trusted(c)) /\ Append(c, event, NoRecord, ok)

DurableResolution ==
  IF "turn-bound" \in ledger.events THEN "turn-bound"
  ELSE IF "turn-absent" \in ledger.events THEN "verified-absent"
  ELSE "pending"

\* has_exact_containment_audit_for_dispatch, on a ledger that validates.
ExactAudit(candidate) ==
  /\ ~ledger.ahead
  /\ {"archive-observed", "containment-audited"} \subseteq ledger.events
  /\ ledger.evidence = candidate
  /\ candidate.resolution = DurableResolution

\* verify_ and consume_verified_contained_turn_dispatch: what is on disk is a
\* final record, its audit is in the ledger, and it is the record in question.
ExactlyVerified(r) ==
  /\ record = r /\ r.status = "failed-contained" /\ r.queried
  /\ ExactAudit(r)

\* A full validation arms the store, or disarms it when the ledger is invalid.
FullValidation(c) == IF ledger.ahead THEN Disarm(c) ELSE Arm(c, ledger.events)

-----------------------------------------------------------------------------
(* The local state of a controller. *)

FreshApp ==
  [pc |-> "detached",      \* what it does next
   cur |-> NoRecord,       \* the record in its memory
   scan |-> NoRecord,      \* what containment has found so far
   capability |-> FALSE,   \* it holds the capability of an exact negative response
   sweeping |-> FALSE,     \* containment was called by contain_started_threads
   contained |-> FALSE]    \* the outcome of containment until the audit

Set(c, a) == app' = [app EXCEPT ![c] = a]
Goto(c, point) == Set(c, [app[c] EXCEPT !.pc = point])

Idle == {"ended", "raised", "acknowledged"}

\* _persist_turn_dispatch_record: the record in memory is replaced, then the
\* file under the record's lock.  A write that fails raises, before the file
\* is replaced or after it.
Persist(c, r, next, raised) ==
  /\ lock \in {Nobody, c}
  /\ \/ record' = r /\ UNCHANGED faults /\ Set(c, [next EXCEPT !.cur = r])
     \/ /\ faults < MaxFaults /\ faults' = faults + 1
        /\ record' \in {record, r}
        /\ Set(c, [raised EXCEPT !.cur = r])

\* Where containment leads to: contain_started_threads, which swallows its
\* exceptions, goes on to its last summary.
Left(c, outcome) == IF app[c].sweeping THEN "summary" ELSE outcome

\* start_turn or containment is left; the local variables are lost.
Raised(c) == [FreshApp EXCEPT !.pc = Left(c, "raised"), !.cur = app[c].cur]
Ended(c) == [FreshApp EXCEPT !.pc = Left(c, "ended"), !.cur = app[c].cur]
At(c, point) == [app[c] EXCEPT !.pc = point]

Wire == <<request, turn, response>>

-----------------------------------------------------------------------------
(* start_turn. *)

TurnIntent(c) ==
  /\ app[c].pc = "intent"
  /\ \E ok \in BOOLEAN :
       /\ Append(c, "turn-intent", NoRecord, ok)
       /\ Goto(c, IF ok THEN "prepare" ELSE "raised")
  /\ UNCHANGED <<Wire, record, lock, calls>>

Prepare(c) ==
  /\ app[c].pc = "prepare"
  /\ Persist(c, WithStatus(NoRecord, "prepared"), At(c, "reserve"), Raised(c))
  /\ UNCHANGED <<Wire, ledger, store, lock, calls>>

\* Faulty variant of Reserve: the second write of the record is saved.
ReserveInMemory(c) ==
  /\ app[c].pc = "reserve"
  /\ Set(c, [app[c] EXCEPT !.pc = "observe", !.cur.status = "dispatching"])
  /\ UNCHANGED <<Wire, ledger, store, record, lock, faults, calls>>

\* The record says that the request may have been written before it is.
Reserve(c) ==
  /\ app[c].pc = "reserve"
  /\ Persist(c, WithStatus(app[c].cur, "dispatching"), At(c, "observe"), Raised(c))
  /\ UNCHANGED <<Wire, ledger, store, lock, calls>>

\* The observer of a negative response is known to the ledger store before the
\* request is written.
RegisterObserver(c) ==
  /\ app[c].pc = "observe"
  /\ IF Trusted(c) THEN /\ store' = [store EXCEPT ![c].observer = "pending"]
                        /\ Goto(c, "write")
                   ELSE Disarm(c) /\ Goto(c, "raised")
  /\ UNCHANGED <<Wire, ledger, record, lock, faults, calls>>

\* The app-server has exited, its reader has failed or its MCP guard does not
\* hold: start_turn raises while the request is not written.
Abandon(c) ==
  /\ app[c].pc \in {"intent", "prepare", "write"}
  /\ Set(c, Raised(c))
  /\ UNCHANGED <<Wire, ledger, store, record, lock, faults, calls>>

\* The only write of turn/start.  One that fails may have got through.
WriteRequest(c) ==
  /\ app[c].pc = "write"
  /\ \/ request' = "sent" /\ Goto(c, "wait")
     \/ request' \in {"none", "sent"} /\ Goto(c, "uncertain")
  /\ UNCHANGED <<turn, response, ledger, store, record, lock, faults, calls>>

\* Timeout, exit of the app-server, reader error.
WaitEnds(c) ==
  /\ app[c].pc = "wait"
  /\ Goto(c, "uncertain")
  /\ UNCHANGED <<Wire, ledger, store, record, lock, faults, calls>>

\* Only an error whose capability the stdout reader observed is kept as one.
TakeResponse(c) ==
  /\ app[c].pc = "wait" /\ response \in {"turn", "error", "unobserved", "invalid"}
  /\ Set(c, [app[c] EXCEPT !.pc = IF response = "turn" THEN "bind" ELSE "uncertain",
                           !.capability = response = "error"])
  /\ response' = "taken"
  /\ UNCHANGED <<request, turn, ledger, store, record, lock, faults, calls>>

Uncertain(c) ==
  /\ app[c].pc = "uncertain"
  /\ Persist(c, WithStatus(app[c].cur, "failed-ambiguous"), At(c, "contain"), Raised(c))
  /\ UNCHANGED <<Wire, ledger, store, lock, calls>>

BindTurn(c) ==
  /\ app[c].pc = "bind"
  /\ \E ok \in BOOLEAN :
       /\ Append(c, "turn-bound", NoRecord, ok)
       /\ Goto(c, IF ok THEN "acknowledge" ELSE "unbound")
  /\ UNCHANGED <<Wire, record, lock, calls>>

BindFailed(c) ==
  /\ app[c].pc = "unbound"
  /\ Persist(c, [app[c].cur EXCEPT !.status = "failed-ambiguous", !.discovered = TRUE],
             At(c, "contain"), Raised(c))
  /\ UNCHANGED <<Wire, ledger, store, lock, calls>>

Acknowledge(c) ==
  /\ app[c].pc = "acknowledge"
  /\ Persist(c, [app[c].cur EXCEPT !.status = "acknowledged", !.discovered = TRUE,
                                   !.resolution = "turn-bound"],
             At(c, "acknowledged"), Raised(c))
  /\ UNCHANGED <<Wire, ledger, store, lock, calls>>

-----------------------------------------------------------------------------
(* contain_ambiguous_turn_dispatch. *)

\* A direct call on a record that is already final (contain_started_threads and
\* start_turn, which Sweep and Uncertain are about, do not ask for that).
Resume(c) ==
  /\ app[c].pc \in Idle /\ app[c].cur.status = "failed-contained"
  /\ calls[c] < MaxCalls /\ calls' = [calls EXCEPT ![c] = @ + 1]
  /\ Goto(c, "contain")
  /\ UNCHANGED <<Wire, ledger, store, record, lock, faults>>

\* contain_started_threads: a record that is uncertain is contained.  Callers
\* that allow proofs of the same process have the ledger summarized before,
\* which validates it in full and so arms a store that was disarmed.
Sweep(c) ==
  /\ app[c].pc \in Idle
  /\ calls[c] < MaxCalls /\ calls' = [calls EXCEPT ![c] = @ + 1]
  /\ UNCHANGED store \/ FullValidation(c)
  /\ IF app[c].cur.status \in {"dispatching", "failed-ambiguous"}
     THEN Set(c, [At(c, "contain") EXCEPT !.sweeping = TRUE])
     ELSE Goto(c, "summary")
  /\ UNCHANGED <<Wire, ledger, record, lock, faults>>

\* However the containment went, the ledger is summarized at the end.
Summarize(c) ==
  /\ app[c].pc = "summary"
  /\ FullValidation(c)
  /\ Goto(c, "ended")
  /\ UNCHANGED <<Wire, ledger, record, lock, faults, calls>>

\* A final record is only believed when the ledger verifies it exactly;
\* otherwise it is demoted and contained again.
CheckFinal(c) ==
  /\ app[c].pc = "contain" /\ app[c].cur.status = "failed-contained"
  /\ FullValidation(c)
  /\ IF ExactlyVerified(app[c].cur)
     THEN Set(c, Ended(c)) /\ UNCHANGED <<record, faults>>
     ELSE Persist(c, WithStatus(app[c].cur, "failed-ambiguous"), app[c], Raised(c))
  /\ UNCHANGED <<Wire, ledger, lock, calls>>

\* The ledger's resolution of the intent is read before anything else is done:
\* a store that is not trusted raises here, as does a record that disagrees.
ReadResolution(c) ==
  LET bound == DurableResolution = "turn-bound"
      disagrees == app[c].cur.resolution \notin {"pending", DurableResolution}
      known == [app[c].cur EXCEPT !.resolution = DurableResolution,
                                  !.discovered = @ \/ bound,
                                  !.absence = FALSE, !.archived = FALSE]
  IN /\ app[c].pc = "contain" /\ app[c].cur.status \in {"dispatching", "failed-ambiguous"}
     /\ \/ ~Trusted(c) /\ Disarm(c) /\ Set(c, Raised(c))
        \/ /\ Trusted(c) /\ UNCHANGED store
           /\ IF disagrees THEN Set(c, Raised(c))
              ELSE IF AuditPending(app[c].cur) THEN Goto(c, "resume-audit")
              ELSE Set(c, [app[c] EXCEPT !.pc = "collect", !.scan = known])
     /\ UNCHANGED <<Wire, ledger, record, lock, faults, calls>>

\* A late response counts only on the connection the request was written to.
\* (Notifications are looked at here too; ReadThread has them, which comes
\* before the first use of what they show.)
Collect(c) ==
  LET late == IF c = Dispatcher THEN response ELSE "none"
  IN /\ app[c].pc = "collect"
     /\ Set(c, [app[c] EXCEPT !.pc = "read",
                              !.capability = @ \/ late = "error",
                              !.scan.discovered = @ \/ late = "turn"])
     /\ response' = IF late = "none" THEN response ELSE "taken"
     /\ UNCHANGED <<request, turn, ledger, store, record, lock, faults, calls>>

\* The durable absence of the turn, or the exact negative response.
AbsenceAuthorized(a) == a.capability \/ a.scan.resolution = "verified-absent"

\* What may end containment: a turn that was found, or an authorized absence.
Authoritative(a) == a.scan.discovered \/ AbsenceAuthorized(a)

\* turn/started notifications that arrived on this connection, if any.
Notified == IF turn = "none" THEN {FALSE} ELSE BOOLEAN

\* Faulty variant of Projected: a turn that is interrupted counts as terminal.
ProjectedAccepted(a, shown, notified, ok) ==
  [a.scan EXCEPT !.discovered = @ \/ notified \/ shown # "none",
                 !.terminal = @ \/ shown = "terminal" \/ a.scan.attempted,
                 !.active = FALSE,
                 !.failed = FALSE,
                 !.queried = @ \/ ok]

\* The scan after one thread/read that shows the turn like this (a query that
\* fails shows nothing) and a second look at the notifications.
Projected(a, shown, notified, ok) ==
  [a.scan EXCEPT !.discovered = @ \/ notified \/ shown # "none",
                 !.terminal = @ \/ shown = "terminal",
                 !.active = shown = "active",
                 !.failed = @ /\ ~(a.scan.terminal \/ shown = "terminal"),
                 !.queried = @ \/ ok]

\* Out of the loop, or round again when the deadline allows.
AfterPass(c, a, snapshot) ==
  \/ Set(c, [a EXCEPT !.pc = "settle"])
  \/ ~snapshot /\ Set(c, [a EXCEPT !.pc = "collect"])

ReadThread(c) ==
  /\ app[c].pc = "read"
  /\ \E ok \in BOOLEAN, shown \in {"none", turn}, notified \in Notified :
       LET scan == Projected(app[c], shown, notified, ok)
           a == [app[c] EXCEPT !.scan = scan]
           proved == scan.resolution = "verified-absent"
           snapshot == /\ ok /\ ~scan.active /\ ~scan.failed
                       /\ scan.discovered = scan.terminal
                       /\ Authoritative(a)
       IN /\ ~ok => shown = "none"
          /\ IF scan.discovered /\ ~scan.terminal
             THEN Set(c, [a EXCEPT !.pc = "interrupt"])
             ELSE AfterPass(c, [a EXCEPT !.scan.absence = snapshot /\ (scan.discovered \/ proved)],
                            snapshot)
  /\ UNCHANGED <<Wire, ledger, store, record, lock, faults, calls>>

\* The turn is treated as running until a projection shows it terminal.  The
\* interrupt may fail with or without an effect; accepted, it is recorded.
Interrupt(c) ==
  /\ app[c].pc = "interrupt"
  /\ turn' \in IF turn = "active" THEN {"active", "terminal"} ELSE {turn}
  /\ \E ok \in BOOLEAN :
       /\ \/ RecordLifecycle(c, "interrupt-observed", ok)
          \/ ~ok /\ UNCHANGED <<ledger, store, faults>>
       /\ AfterPass(c, [app[c] EXCEPT !.scan.attempted = TRUE, !.scan.failed = ~ok], FALSE)
  /\ UNCHANGED <<request, response, record, lock, calls>>

Complete(a) == a.scan.discovered = a.scan.terminal /\ ~a.scan.failed /\ ~a.scan.active

\* The loop is over and what was found is not enough.
NotContained(c) ==
  /\ app[c].pc = "settle" /\ ~(Complete(app[c]) /\ Authoritative(app[c]))
  /\ Set(c, [app[c] EXCEPT !.pc = "precursor", !.capability = FALSE])
  /\ UNCHANGED <<Wire, ledger, store, record, lock, faults, calls>>

\* The turn is known and terminal: it is bound, unless it already was.  A turn
\* whose absence was proved before is an error.
SettleBound(c) ==
  /\ app[c].pc = "settle" /\ Complete(app[c]) /\ app[c].scan.discovered
  /\ \E ok \in BOOLEAN :
       /\ \/ /\ app[c].scan.resolution # "pending"
             /\ ok = (app[c].scan.resolution = "turn-bound")
             /\ UNCHANGED <<ledger, store, faults>>
          \/ /\ app[c].scan.resolution = "pending"
             /\ Append(c, "turn-bound", NoRecord, ok)
       /\ Set(c, [app[c] EXCEPT !.pc = IF ok THEN "archive" ELSE "precursor",
                                !.capability = FALSE,
                                !.scan.absence = @ \/ ok,
                                !.scan.resolution = IF ok THEN "turn-bound" ELSE @])
  /\ UNCHANGED <<Wire, record, lock, calls>>

\* No turn was found and the exact negative response is at hand: the record
\* the proof refers to is persisted first.
SettleProof(c) ==
  LET dispatch == [NoRecord EXCEPT !.status = "failed-ambiguous", !.queried = app[c].scan.queried,
                                   !.epoch = c]
  IN /\ app[c].pc = "settle" /\ Complete(app[c]) /\ Authoritative(app[c])
     /\ ~app[c].scan.discovered /\ app[c].scan.resolution = "pending"
     /\ Persist(c, dispatch, At(c, "prove"), [At(c, "precursor") EXCEPT !.capability = FALSE])
     /\ UNCHANGED <<Wire, ledger, store, lock, calls>>

\* The ledger only accepts a proof about the record on disk, under the observer
\* it knows.  Either way the capability is used up.
ResolveAbsent(c) ==
  LET exact == store[c].observer = "observed" /\ record = app[c].cur
  IN /\ app[c].pc = "prove"
     /\ \E ok \in BOOLEAN :
          /\ \/ exact /\ Append(c, "turn-absent", NoRecord, ok)
             \/ /\ ~exact /\ ~ok
                /\ UNCHANGED store \/ Disarm(c)
                /\ UNCHANGED <<ledger, faults>>
          /\ Set(c, [app[c] EXCEPT !.pc = IF ok THEN "archive" ELSE "precursor",
                                   !.capability = FALSE,
                                   !.scan.absence = @ \/ ok,
                                   !.scan.resolution = IF ok THEN "verified-absent" ELSE @])
     /\ UNCHANGED <<Wire, record, lock, calls>>

\* The absence was proved before: the proof is read again.
SettleAbsent(c) ==
  /\ app[c].pc = "settle" /\ Complete(app[c]) /\ ~app[c].scan.discovered
  /\ app[c].scan.resolution = "verified-absent"
  /\ \/ /\ Trusted(c) /\ UNCHANGED store
        /\ Set(c, [app[c] EXCEPT !.pc = "archive", !.capability = FALSE, !.scan.absence = TRUE])
     \/ /\ ~Trusted(c) /\ Disarm(c)
        /\ Set(c, [app[c] EXCEPT !.pc = "precursor", !.capability = FALSE])
  /\ UNCHANGED <<Wire, ledger, record, lock, faults, calls>>

ArchiveThread(c) ==
  /\ app[c].pc = "archive"
  /\ \E ok \in BOOLEAN :
       /\ \/ RecordLifecycle(c, "archive-observed", ok)
          \/ ~ok /\ UNCHANGED <<ledger, store, faults>>
       /\ Set(c, [app[c] EXCEPT !.pc = "precursor", !.contained = ok, !.scan.archived = ok])
  /\ UNCHANGED <<Wire, record, lock, calls>>

\* Everything found is persisted as failed-ambiguous, whatever is on disk now.
PersistPrecursor(c) ==
  LET precursor == [app[c].scan EXCEPT !.status = "failed-ambiguous", !.epoch = c]
  IN /\ app[c].pc = "precursor"
     /\ Persist(c, precursor, IF app[c].contained THEN At(c, "audit") ELSE Ended(c), Raised(c))
     /\ UNCHANGED <<Wire, ledger, store, lock, calls>>

-----------------------------------------------------------------------------
(* persist_exact_audited_success, under the lock of the record. *)

\* The record on disk is another one: it is adopted, or demoted when it claims
\* to be final and is not verified.
AuditConflict(c) ==
  /\ app[c].pc \in {"audit", "resume-audit"} /\ lock = Nobody /\ record # app[c].cur
  /\ IF record.status = "failed-contained" /\ ~ExactlyVerified(record)
     THEN /\ Persist(c, WithStatus(record, "failed-ambiguous"), Ended(c), Raised(c))
          /\ FullValidation(c)
     ELSE /\ Set(c, [Ended(c) EXCEPT !.cur = record])
          /\ IF record.status = "failed-contained" THEN FullValidation(c) ELSE UNCHANGED store
          /\ UNCHANGED <<record, faults>>
  /\ UNCHANGED <<Wire, ledger, lock, calls>>

Candidate(c) == WithStatus(app[c].cur, "failed-contained")

\* record_containment_audit accepts a repetition of the same evidence only.
AuditAppend(c, ok) ==
  IF "containment-audited" \notin ledger.events \/ ~Trusted(c)
  THEN Append(c, "containment-audited", Candidate(c), ok)
  ELSE /\ ok = (ledger.evidence = Candidate(c))
       /\ IF ok THEN UNCHANGED store ELSE Disarm(c)
       /\ UNCHANGED <<ledger, faults>>

\* Faulty variant of Audit: a failed audit is taken for one that is there.
AuditAssumed(c) ==
  /\ app[c].pc = "audit" /\ lock = Nobody /\ record = app[c].cur
  /\ \E ok \in BOOLEAN : AuditAppend(c, ok)
  /\ Goto(c, "final") /\ lock' = c
  /\ UNCHANGED <<Wire, record, calls>>

Audit(c) ==
  /\ app[c].pc = "audit" /\ lock = Nobody /\ record = app[c].cur
  /\ \E ok \in BOOLEAN :
       /\ AuditAppend(c, ok)
       /\ IF ok THEN Goto(c, "final") /\ lock' = c
                ELSE Set(c, Ended(c)) /\ UNCHANGED lock
  /\ UNCHANGED <<Wire, record, calls>>

\* A later call only completes an audit that is already there.
ResumeAudit(c) ==
  /\ app[c].pc = "resume-audit" /\ lock = Nobody /\ record = app[c].cur
  /\ FullValidation(c)
  /\ IF ExactAudit(Candidate(c)) THEN Goto(c, "final") /\ lock' = c
                                 ELSE Set(c, Ended(c)) /\ UNCHANGED lock
  /\ UNCHANGED <<Wire, ledger, record, faults, calls>>

PersistFinal(c) ==
  /\ app[c].pc = "final"
  /\ Persist(c, Candidate(c), Ended(c), Raised(c))
  /\ lock' = Nobody
  /\ UNCHANGED <<Wire, ledger, store, calls>>

-----------------------------------------------------------------------------
(* Recovery, death, and the app-server (external). *)

\* attach_allocation_ledger with a fresh store: the ledger is validated in full
\* and the record is loaded.
Attach(c) ==
  /\ app[c].pc = "detached" /\ c # Dispatcher
  /\ app[Dispatcher].pc \in Idle \cup {"crashed"}
  /\ FullValidation(c)
  /\ Set(c, IF ledger.ahead THEN Raised(c) ELSE [Ended(c) EXCEPT !.cur = record])
  /\ UNCHANGED <<Wire, ledger, record, lock, faults, calls>>

Crash(c) ==
  /\ app[c].pc # "crashed"
  /\ Set(c, [FreshApp EXCEPT !.pc = "crashed"])
  /\ Disarm(c)
  /\ lock' = IF lock = c THEN Nobody ELSE lock
  /\ UNCHANGED <<Wire, ledger, record, faults, calls>>

\* The app-server handles the request at any time after it was written.
ServerHandles ==
  /\ request = "sent"
  /\ \/ request' = "started" /\ turn' = "active"
     \/ request' = "rejected" /\ UNCHANGED turn
  /\ UNCHANGED <<response, ledger, store, record, lock, app, faults, calls>>

TurnEnds ==
  /\ turn = "active" /\ turn' = "terminal"
  /\ UNCHANGED <<request, response, ledger, store, record, lock, app, faults, calls>>

\* Faulty variant of Deliver: any error in a response is an exact one.
DeliverInexact ==
  /\ response = "none" /\ request \in {"started", "rejected"}
  /\ app[Dispatcher].pc # "crashed"
  /\ \/ request = "started" /\ response' = "turn" /\ UNCHANGED store
     \/ /\ store[Dispatcher].observer = "pending" /\ response' = "error"
        /\ store' = [store EXCEPT ![Dispatcher].observer = "observed"]
  /\ UNCHANGED <<request, turn, ledger, record, lock, app, faults, calls>>

\* _read_stdout: an exact error of a request whose observer the ledger store
\* still knows is registered as observed before it can be taken.
Deliver ==
  LET observer == store[Dispatcher].observer
  IN /\ response = "none" /\ request \in {"started", "rejected"}
     /\ app[Dispatcher].pc # "crashed"
     /\ \/ response' = "invalid" /\ UNCHANGED store
        \/ request = "started" /\ response' = "turn" /\ UNCHANGED store
        \/ /\ request = "rejected" /\ observer = "pending" /\ response' = "error"
           /\ store' = [store EXCEPT ![Dispatcher].observer = "observed"]
        \/ request = "rejected" /\ observer # "pending" /\ response' = "unobserved" /\ UNCHANGED store
     /\ UNCHANGED <<request, turn, ledger, record, lock, app, faults, calls>>

-----------------------------------------------------------------------------
Init ==
  /\ request = "none" /\ turn = "none" /\ response = "none"
  /\ ledger = EmptyLedger
  /\ store = [c \in Controller |-> [ClosedStore EXCEPT !.open = c = Dispatcher]]
  /\ record = NoRecord
  /\ lock = Nobody
  /\ app = [c \in Controller |->
              IF c = Dispatcher THEN [FreshApp EXCEPT !.pc = "intent"] ELSE FreshApp]
  /\ faults = 0
  /\ calls = [c \in Controller |-> 0]

StartTurn(c) ==
  \/ TurnIntent(c) \/ Prepare(c) \/ Reserve(c) \/ RegisterObserver(c) \/ Abandon(c)
  \/ WriteRequest(c)
  \/ WaitEnds(c) \/ TakeResponse(c) \/ Uncertain(c) \/ BindTurn(c) \/ BindFailed(c)
  \/ Acknowledge(c)

Contain(c) ==
  \/ Resume(c) \/ Sweep(c) \/ Summarize(c)
  \/ CheckFinal(c) \/ ReadResolution(c) \/ Collect(c) \/ ReadThread(c)
  \/ Interrupt(c) \/ NotContained(c) \/ SettleBound(c) \/ SettleProof(c) \/ ResolveAbsent(c)
  \/ SettleAbsent(c) \/ ArchiveThread(c) \/ PersistPrecursor(c) \/ AuditConflict(c)
  \/ Audit(c) \/ ResumeAudit(c) \/ PersistFinal(c)

AppServer == ServerHandles \/ TurnEnds \/ Deliver

Next ==
  \/ \E c \in Controller : StartTurn(c) \/ Contain(c) \/ Attach(c) \/ Crash(c)
  \/ AppServer

Spec == Init /\ [][Next]_vars

-----------------------------------------------------------------------------
(* Properties. *)

\* A request that may have reached the app-server is on disk, in the ledger and
\* as a record that containment accepts: no death of a controller loses it.
WriteAhead ==
  request # "none" =>
    "turn-intent" \in ledger.events /\ record.status \notin {"none", "prepared"}

\* The ledger never says that there is no turn while one exists or may still
\* start, and never binds one that does not exist.
ResolutionTruthful ==
  /\ "turn-absent" \in ledger.events => request = "rejected"
  /\ "turn-bound" \in ledger.events => turn # "none"

\* A dispatch recorded as contained is over: its turn does not run and none can
\* start from it any more.
ContainedMeansStopped ==
  record.status = "failed-contained" => turn # "active" /\ request # "sent"

\* The durable record only says contained when the ledger holds the archive of
\* the thread and the audit of exactly this record.
ContainedIsAudited ==
  record.status = "failed-contained" =>
    "archive-observed" \in ledger.events /\ ledger.evidence = record
=============================================================================
