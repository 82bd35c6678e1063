--------------------------- MODULE PoolTransaction ---------------------------
(***************************************************************************)
(* The readiness-first transaction launcher                                *)
(* (scripts/cwo_core/native_pool_transaction.py).  Each launcher is one    *)
(* call of execute_native_pool_transaction: it moves through the states of *)
(* a hash-chained journal, starts prelude and worker sessions, runs the    *)
(* admitted pool and validates what it returned; three exception handlers  *)
(* contain what was started.  Launchers interleave at every journal append *)
(* and runtime callback.  They may share a journal, the one recovery       *)
(* opportunity of the campaign and the trusted session count; any of them  *)
(* may die, and an append may fail after its event is in the file.         *)
(***************************************************************************)
EXTENDS Naturals, FiniteSets

CONSTANTS
  Launcher,    \* calls of execute_native_pool_transaction
  Nobody,      \* no launcher: the opportunity ledger does not exist
  Transaction, \* transaction ids, each with a journal file of its own
  Plans,       \* for each launcher, the sealed plans it may be given
  MaxCrashes,  \* bound on the number of launchers that die
  LateAppends  \* whether an append may fail after it has written its event

Plan == [txn : Transaction, recovery : BOOLEAN, preludes : Nat, workers : Nat \ {0},
         before : Nat, fuse : Nat \ {0}]

\* A recovery plan has one prelude session and one worker.
ASSUME PlanAssumption ==
  /\ Nobody \notin Launcher
  /\ Plans \in [Launcher -> SUBSET Plan]
  /\ \A l \in Launcher : \A p \in Plans[l] : p.recovery => p.preludes = 1 /\ p.workers = 1
  /\ MaxCrashes \in Nat
  /\ LateAppends \in BOOLEAN

VARIABLES
  plan,      \* the plan of each launcher
  tx,        \* the local variables of each launcher
  journal,   \* the journal of each transaction id, as read() finds it
  owner,     \* whose event is in the campaign's opportunity ledger
  sessions,  \* sessions ever created, as <<launcher, ordinal>>
  open,      \* those that were not contained
  slipped    \* transactions with an exception after an event that was written:
             \* a late failure of append, or of reading the terminal event back

vars == <<plan, tx, journal, owner, sessions, open, slipped>>

-----------------------------------------------------------------------------
(* The journal. *)

TERMINAL_STATES == {"ACCEPTED", "CONTAINED", "DEFERRED"}

State == {"PREPARED", "RESERVED", "EVIDENCE_READY", "ALLOCATING", "ARMED",
          "RUNNING", "VALIDATING"} \cup TERMINAL_STATES

\* _STATE_TRANSITIONS; "none" is Python's None.
STATE_TRANSITIONS ==
  {<<"none", "PREPARED">>, <<"PREPARED", "RESERVED">>, <<"RESERVED", "EVIDENCE_READY">>,
   <<"EVIDENCE_READY", "ALLOCATING">>, <<"ALLOCATING", "EVIDENCE_READY">>,
   <<"EVIDENCE_READY", "ARMED">>, <<"ALLOCATING", "ARMED">>, <<"ARMED", "RUNNING">>,
   <<"RUNNING", "VALIDATING">>, <<"VALIDATING", "ACCEPTED">>}
    \cup ((State \ TERMINAL_STATES) \X {"CONTAINED"})
    \cup ({"PREPARED", "RESERVED", "EVIDENCE_READY", "ALLOCATING", "VALIDATING"} \X {"DEFERRED"})

EmptyJournal == [last |-> "none", readable |-> TRUE, intents |-> {}, failures |-> 0]

\* What read() demands of two consecutive events.
Follows(previous, state) ==
  \/ <<previous, state>> \in STATE_TRANSITIONS
  \/ previous = state /\ state \notin TERMINAL_STATES

\* append reads and validates the events before its own, not its own: an event
\* that does not follow is written and makes every later read() raise.
Recorded(j, event, ordinal) ==
  [last |-> event.state,
   readable |-> j.readable /\ Follows(j.last, event.state),
   intents |-> IF event.type = "allocation-intent" THEN j.intents \cup {ordinal} ELSE j.intents,
   failures |-> IF event.type = "infrastructure-failure" THEN j.failures + 1 ELSE j.failures]

Log(l) == journal[plan[l].txn]

-----------------------------------------------------------------------------
(* The local state of a launcher. *)

\* Points of the body of the try statement, named after what comes next.
AppendPoint == {"prepared", "reserved", "intent", "spent", "bound", "ready", "refreshed",
                "allocating", "armed", "running", "validating", "terminal"}
CallPoint == {"baseline", "prepare", "prelude", "claim", "start", "counted", "release",
              "worker", "refresh", "bind", "run", "returned", "validate", "observe", "report"}
HandlerPoint == {"contain", "note", "escalate", "close"}
EndPoint == {"done", "returned-item", "raised", "refused", "crashed"}

Sessions(p) == p.preludes + p.workers

\* The attempt noted for sessions without an acknowledgement: no real ordinal.
Unaccounted(p) == Sessions(p)

FreshLauncher ==
  [pc |-> "new", state |-> "none", seen |-> "none", ordinal |-> 0, attempts |-> {},
   error |-> "none", containment |-> "none", ran |-> FALSE, accepted |-> FALSE]

Set(l, r) == tx' = [tx EXCEPT ![l] = r]
Goto(l, point) == Set(l, [tx[l] EXCEPT !.pc = point])

\* Where an exception takes a launcher: containment first when anything was
\* started; the zero-session paths differ for protected errors.
Failed(r, error) ==
  [r EXCEPT !.error = error,
            !.seen = "none",
            !.pc = IF r.attempts # {} THEN "contain"
                   ELSE IF error = "protected" THEN "note"
                   ELSE "close"]

\* The exception classes the code at a point can raise: appends and reads of
\* the journal, an authority check, or an arbitrary runtime callback.
Raisable(point) ==
  IF point \in AppendPoint \cup {"report"} THEN {"other"}
  ELSE IF point \in {"prelude", "start", "worker"} THEN {"protected", "other"}
  ELSE {"protected", "item", "other"}

\* Any callback, check or append that raises without effect, an interrupt of
\* the process included; with an unreadable journal no append does anything else.
Raise(l, error) ==
  /\ tx[l].pc \in AppendPoint \cup CallPoint
  /\ error \in Raisable(tx[l].pc)
  /\ Set(l, Failed(tx[l], error))
  /\ slipped' = IF tx[l].pc = "report" THEN slipped \cup {plan[l].txn} ELSE slipped
  /\ UNCHANGED <<plan, journal, owner, sessions, open>>

-----------------------------------------------------------------------------
(* Journal appends. *)

\* The event a launcher writes at each of its appending points.
NoteType(r) == IF r.pc = "escalate" \/ r.error = "other" THEN "infrastructure-failure"
               ELSE IF r.error = "item" THEN "item-failure"
               ELSE "protected-stop"

StateAt ==
  [prepared |-> "PREPARED", reserved |-> "RESERVED", ready |-> "EVIDENCE_READY",
   refreshed |-> "EVIDENCE_READY", allocating |-> "ALLOCATING", armed |-> "ARMED",
   running |-> "RUNNING", validating |-> "VALIDATING"]

\* A session that was never attempted is deferred, any other is contained.
ClosingState(r) ==
  IF r.error \in {"item", "other"} /\ r.attempts = {} THEN "DEFERRED" ELSE "CONTAINED"

\* Faulty variant of Event: a failure is always noted as the first state.
EventRestarting(r) ==
  IF r.pc \in {"note", "escalate"} THEN [type |-> NoteType(r), state |-> "PREPARED"]
  ELSE IF r.pc = "intent" THEN [type |-> "allocation-intent", state |-> r.seen]
  ELSE IF r.pc \in {"spent", "bound"} THEN [type |-> r.pc, state |-> r.seen]
  ELSE IF r.pc = "terminal"
       THEN [type |-> "terminal", state |-> IF r.accepted THEN "ACCEPTED" ELSE "CONTAINED"]
  ELSE IF r.pc = "close" THEN [type |-> "terminal", state |-> ClosingState(r)]
  ELSE [type |-> "transition", state |-> StateAt[r.pc]]

Event(r) ==
  IF r.pc \in {"note", "escalate"}
  THEN [type |-> NoteType(r), state |-> IF r.state = "none" THEN "PREPARED" ELSE r.state]
  ELSE IF r.pc = "intent" THEN [type |-> "allocation-intent", state |-> r.seen]
  ELSE IF r.pc \in {"spent", "bound"} THEN [type |-> r.pc, state |-> r.seen]
  ELSE IF r.pc = "terminal"
       THEN [type |-> "terminal", state |-> IF r.accepted THEN "ACCEPTED" ELSE "CONTAINED"]
  ELSE IF r.pc = "close" THEN [type |-> "terminal", state |-> ClosingState(r)]
  ELSE [type |-> "transition", state |-> StateAt[r.pc]]

\* _launch_session writes its events at the journal's current state, which it
\* reads before append takes the lock.
ReadCurrentState(l) ==
  /\ tx[l].pc \in {"intent", "spent", "bound"} /\ tx[l].seen = "none"
  /\ Log(l).readable
  /\ Set(l, [tx[l] EXCEPT !.seen = IF Log(l).last = "none" THEN "RESERVED" ELSE Log(l).last])
  /\ UNCHANGED <<plan, journal, owner, sessions, open, slipped>>

\* append finds the events before its own valid and writes its own; the event
\* of _transition also has to follow the state the launcher remembers.
Write(l) ==
  LET event == Event(tx[l])
  IN /\ Log(l).readable
     /\ tx[l].pc \in {"intent", "spent", "bound"} => tx[l].seen # "none"
     /\ event.type \in {"transition", "terminal"} => <<tx[l].state, event.state>> \in STATE_TRANSITIONS
     /\ journal' = [journal EXCEPT ![plan[l].txn] = Recorded(@, event, tx[l].ordinal)]

AfterSession(p, k) ==
  IF k < p.preludes THEN "prelude"
  ELSE IF k = p.preludes THEN "release"
  ELSE IF k < Sessions(p) THEN "worker"
  ELSE "bind"

\* Faulty variant of NextPoint: a worker is started right after ALLOCATING.
NextPointUnlogged(l) ==
  [prepared |-> "reserved", reserved |-> "prepare",
   intent |-> IF plan[l].recovery /\ tx[l].ordinal = 0 THEN "claim" ELSE "start",
   spent |-> "bound", bound |-> "counted", ready |-> "worker", refreshed |-> "allocating",
   allocating |-> "start", armed |-> "running", running |-> "run",
   validating |-> "validate", terminal |-> "report"]

NextPoint(l) ==
  [prepared |-> "reserved", reserved |-> "prepare",
   intent |-> IF plan[l].recovery /\ tx[l].ordinal = 0 THEN "claim" ELSE "start",
   spent |-> "bound", bound |-> "counted", ready |-> "worker", refreshed |-> "allocating",
   allocating |-> "intent", armed |-> "running", running |-> "run",
   validating |-> "validate", terminal |-> "report"]

Moved(l) ==
  [tx[l] EXCEPT !.pc = NextPoint(l)[tx[l].pc],
                !.state = IF tx[l].pc \in {"intent", "spent", "bound"}
                          THEN @ ELSE Event(tx[l]).state,
                !.seen = "none"]

\* The spending fuse is read between PREPARED and RESERVED.  A plan is valid
\* only when its own counts leave it closed, by plan.fuse failures, so what
\* opens it here are failures another launcher noted in the same journal.
FuseClosed(l) == tx[l].pc = "reserved" => Log(l).failures < plan[l].fuse

AppendEvent(l) ==
  /\ tx[l].pc \in AppendPoint
  /\ FuseClosed(l)
  /\ Write(l)
  /\ Set(l, Moved(l))
  /\ UNCHANGED <<plan, owner, sessions, open, slipped>>

\* fsync or chmod fails, or the process is interrupted, after the event was
\* written: the launcher remembers the state before it.
AppendLate(l) ==
  /\ LateAppends
  /\ tx[l].pc \in AppendPoint
  /\ FuseClosed(l)
  /\ Write(l)
  /\ Set(l, Failed(tx[l], "other"))
  /\ slipped' = slipped \cup {plan[l].txn}
  /\ UNCHANGED <<plan, owner, sessions, open>>

-----------------------------------------------------------------------------
(* The body of the transaction. *)

\* Plan, runtime type and authority are checked, and the journal has to be
\* new; nothing is locked between this read and the first append.
Open(l) ==
  /\ tx[l].pc = "new"
  /\ \/ Log(l) = EmptyJournal /\ Goto(l, "baseline")
     \/ Goto(l, "refused")
  /\ UNCHANGED <<plan, journal, owner, sessions, open, slipped>>

\* trusted_session_count (external): the sessions ever created.
Observed == Cardinality(sessions)

\* The count the plan was sealed at is the one observed; Beads and the adapter
\* have not drifted (Raise stands for a drift).
Baseline(l) ==
  /\ tx[l].pc = "baseline"
  /\ Observed = plan[l].before
  /\ Goto(l, "prepared")
  /\ UNCHANGED <<plan, journal, owner, sessions, open, slipped>>

Expected(l) == plan[l].before + Cardinality(tx[l].attempts)

\* Faulty variant of Counted: only missing sessions are a mismatch.
CountedAtLeast(l) == Observed >= Expected(l)

\* _assert_trusted_session_count.
Counted(l) == Observed = Expected(l)

\* Sessions nobody accounts for are noted as attempts and stop the transaction.
CountMismatch(l) ==
  /\ tx[l].pc \in {"prepare", "counted", "release", "refresh", "bind", "returned", "validate"}
  /\ ~Counted(l)
  /\ LET unaccounted == IF Observed > Expected(l) THEN {Unaccounted(plan[l])} ELSE {}
     IN Set(l, Failed([tx[l] EXCEPT !.attempts = @ \cup unaccounted], "other"))
  /\ UNCHANGED <<plan, journal, owner, sessions, open, slipped>>

Prepare(l) ==
  /\ tx[l].pc = "prepare" /\ Counted(l)
  /\ Goto(l, AfterSession(plan[l], 0))
  /\ UNCHANGED <<plan, journal, owner, sessions, open, slipped>>

\* The authority is checked again before every prelude.
Prelude(l) ==
  /\ tx[l].pc = "prelude"
  /\ Goto(l, "intent")
  /\ UNCHANGED <<plan, journal, owner, sessions, open, slipped>>

\* Faulty variant of Claim: an existing ledger is taken for one's own.
ClaimAgain(l) ==
  /\ tx[l].pc = "claim"
  /\ owner' = IF owner = Nobody THEN l ELSE owner
  /\ \/ Goto(l, "start")
     \/ \E error \in {"protected", "other"} : Set(l, Failed(tx[l], error))
  /\ UNCHANGED <<plan, journal, sessions, open, slipped>>

\* The controller's intent is persisted, then the opportunity ledger is created
\* exclusively.  Whatever fails once the file exists, the opportunity is spent.
Claim(l) ==
  /\ tx[l].pc = "claim" /\ owner = Nobody
  /\ owner' = l
  /\ \/ Goto(l, "start")
     \/ \E error \in {"protected", "other"} : Set(l, Failed(tx[l], error))
  /\ UNCHANGED <<plan, journal, sessions, open, slipped>>

\* Faulty variant of Start: the attempt is noted when the starter returns.
StartUnnoted(l) ==
  /\ tx[l].pc = "start"
  /\ sessions' = sessions \cup {<<l, tx[l].ordinal>>}
  /\ open' = open \cup {<<l, tx[l].ordinal>>}
  /\ \/ Set(l, [tx[l] EXCEPT
                  !.attempts = @ \cup {tx[l].ordinal},
                  !.pc = IF plan[l].recovery /\ tx[l].ordinal = 0 THEN "spent" ELSE "bound"])
     \/ \E error \in {"protected", "other"} : Set(l, Failed(tx[l], error))
  /\ UNCHANGED <<plan, journal, owner, slipped>>

\* The attempt is noted, then the starter is called.  It may raise without a
\* session, lose the acknowledgement of one, or return one that does not match.
Start(l) ==
  LET noted == [tx[l] EXCEPT !.attempts = @ \cup {tx[l].ordinal}]
      created == <<l, tx[l].ordinal>>
  IN /\ tx[l].pc = "start"
     /\ \/ /\ sessions' = sessions \cup {created} /\ open' = open \cup {created}
           /\ \/ Set(l, [noted EXCEPT !.pc = IF plan[l].recovery /\ tx[l].ordinal = 0
                                             THEN "spent" ELSE "bound"])
              \/ \E error \in {"protected", "other"} : Set(l, Failed(noted, error))
        \/ /\ \E error \in {"protected", "other"} : Set(l, Failed(noted, error))
           /\ UNCHANGED <<sessions, open>>
     /\ UNCHANGED <<plan, journal, owner, slipped>>

\* The session is bound and counted: on to the next one, or past the last.
SessionCounted(l) ==
  /\ tx[l].pc = "counted" /\ Counted(l)
  /\ Set(l, [tx[l] EXCEPT !.ordinal = @ + 1,
                          !.pc = AfterSession(plan[l], tx[l].ordinal + 1)])
  /\ UNCHANGED <<plan, journal, owner, sessions, open, slipped>>

\* Release artifacts, readiness record and horizon, each refreshed once.
Release(l) ==
  /\ tx[l].pc = "release" /\ Counted(l)
  /\ Goto(l, "ready")
  /\ UNCHANGED <<plan, journal, owner, sessions, open, slipped>>

\* The authority, and whether the evidence lives long enough for the rest of
\* the start-up path, are checked before every worker.
Worker(l) ==
  /\ tx[l].pc = "worker"
  /\ \/ Goto(l, IF tx[l].state = "EVIDENCE_READY" THEN "allocating" ELSE "intent")
     \/ Goto(l, "refresh")
  /\ UNCHANGED <<plan, journal, owner, sessions, open, slipped>>

Refresh(l) ==
  /\ tx[l].pc = "refresh" /\ Counted(l)
  /\ Goto(l, IF tx[l].state = "ALLOCATING" THEN "refreshed" ELSE "allocating")
  /\ UNCHANGED <<plan, journal, owner, sessions, open, slipped>>

\* Binding horizon, refreshed once, the admitted launch and the final horizon.
Bind(l) ==
  /\ tx[l].pc = "bind" /\ Counted(l)
  /\ Goto(l, "armed")
  /\ UNCHANGED <<plan, journal, owner, sessions, open, slipped>>

\* The one productive effect; it may also raise after it began.
RunPool(l) ==
  LET begun == [tx[l] EXCEPT !.ran = TRUE]
  IN /\ tx[l].pc = "run"
     /\ \/ Set(l, [begun EXCEPT !.pc = "returned"])
        \/ \E error \in Raisable("run") : Set(l, Failed(begun, error))
     /\ UNCHANGED <<plan, journal, owner, sessions, open, slipped>>

Returned(l) ==
  /\ tx[l].pc = "returned" /\ Counted(l)
  /\ Goto(l, "validating")
  /\ UNCHANGED <<plan, journal, owner, sessions, open, slipped>>

Validate(l, accepted) ==
  /\ tx[l].pc = "validate" /\ Counted(l)
  /\ Set(l, [tx[l] EXCEPT !.accepted = accepted, !.pc = "observe"])
  /\ UNCHANGED <<plan, journal, owner, sessions, open, slipped>>

\* Authority and Bead projections are observed a last time; then the terminal
\* event is appended, and read back for the result.
Observe(l) ==
  /\ tx[l].pc = "observe"
  /\ Goto(l, "terminal")
  /\ UNCHANGED <<plan, journal, owner, sessions, open, slipped>>

Report(l) ==
  /\ tx[l].pc = "report" /\ Log(l).readable
  /\ Goto(l, "done")
  /\ UNCHANGED <<plan, journal, owner, sessions, open, slipped>>

-----------------------------------------------------------------------------
(* The exception handlers. *)

Own(l) == {s \in sessions : s[1] = l}

\* runtime.contain over the attempts: everything, or a part of it, or it raises.
Contain(l) ==
  /\ tx[l].pc = "contain"
  /\ \/ open' = open \ Own(l) /\ Set(l, [tx[l] EXCEPT !.containment = "complete", !.pc = "note"])
     \/ \E left \in SUBSET (open \cap Own(l)) :
          /\ open' = (open \ Own(l)) \cup left
          /\ Set(l, [tx[l] EXCEPT !.containment = "incomplete", !.pc = "note"])
  /\ UNCHANGED <<plan, journal, owner, sessions, slipped>>

\* What follows a note: an item failure that could not be contained is also an
\* infrastructure failure.
AfterNote(r) ==
  IF r.pc = "note" /\ r.error = "item" /\ r.containment = "incomplete"
  THEN [r EXCEPT !.pc = "escalate"]
  ELSE IF r.pc = "escalate" THEN [r EXCEPT !.pc = "close", !.error = "other"]
  ELSE [r EXCEPT !.pc = "close"]

Note(l) ==
  /\ tx[l].pc \in {"note", "escalate"}
  /\ Write(l)
  /\ Set(l, AfterNote(tx[l]))
  /\ UNCHANGED <<plan, owner, sessions, open, slipped>>

\* A contained item failure is returned as a result, any other error raised.
Exit(r) == IF r.error = "item" /\ r.attempts # {} THEN "returned-item" ELSE "raised"

Close(l) ==
  /\ tx[l].pc = "close"
  /\ Write(l)
  /\ Set(l, [tx[l] EXCEPT !.state = Event(tx[l]).state, !.pc = Exit(tx[l])])
  /\ UNCHANGED <<plan, owner, sessions, open, slipped>>

\* The remembered state has no way to the closing one: nothing is written.
CloseUnrecorded(l) ==
  /\ tx[l].pc = "close"
  /\ <<tx[l].state, ClosingState(tx[l])>> \notin STATE_TRANSITIONS
  /\ Goto(l, Exit(tx[l]))
  /\ UNCHANGED <<plan, journal, owner, sessions, open, slipped>>

\* An append of a handler fails, before its event is written or after it, and
\* nothing catches that.
HandlerFails(l) ==
  /\ tx[l].pc \in {"note", "escalate", "close"}
  /\ Goto(l, "raised")
  /\ \/ UNCHANGED <<journal, slipped>>
     \/ LateAppends /\ Write(l) /\ slipped' = slipped \cup {plan[l].txn}
  /\ UNCHANGED <<plan, owner, sessions, open>>

\* The launcher process dies; journal, ledger and sessions stay as they are.
Crash(l) ==
  /\ tx[l].pc \notin EndPoint
  /\ Cardinality({m \in Launcher : tx[m].pc = "crashed"}) < MaxCrashes
  /\ Goto(l, "crashed")
  /\ UNCHANGED <<plan, journal, owner, sessions, open, slipped>>

-----------------------------------------------------------------------------
Init ==
  /\ plan \in {f \in [Launcher -> UNION {Plans[l] : l \in Launcher}] :
                \A l \in Launcher : f[l] \in Plans[l]}
  /\ tx = [l \in Launcher |-> FreshLauncher]
  /\ journal = [t \in Transaction |-> EmptyJournal]
  /\ owner = Nobody
  /\ sessions = {}
  /\ open = {}
  /\ slipped = {}

Step(l) ==
  \/ Open(l)
  \/ Baseline(l)
  \/ ReadCurrentState(l)
  \/ AppendEvent(l)
  \/ CountMismatch(l)
  \/ Prepare(l)
  \/ Prelude(l)
  \/ Claim(l)
  \/ Start(l)
  \/ SessionCounted(l)
  \/ Release(l)
  \/ Worker(l)
  \/ Refresh(l)
  \/ Bind(l)
  \/ RunPool(l)
  \/ Returned(l)
  \/ \E accepted \in BOOLEAN : Validate(l, accepted)
  \/ Observe(l)
  \/ Report(l)
  \/ Contain(l)
  \/ Note(l)
  \/ Close(l)
  \/ CloseUnrecorded(l)

Fault(l) ==
  \/ \E error \in {"protected", "item", "other"} : Raise(l, error)
  \/ AppendLate(l)
  \/ HandlerFails(l)
  \/ Crash(l)

Next == \E l \in Launcher : Step(l) \/ Fault(l)

Spec == Init /\ [][Next]_vars

-----------------------------------------------------------------------------
(* Properties. *)

\* "Allocation intent before every session creation": whatever fails or dies,
\* a session that exists has its intent in the journal of its transaction.
IntentBeforeSession ==
  \A s \in sessions : s[2] \in journal[plan[s[1]].txn].intents

\* Two launchers that share a transaction or a campaign cannot both commit the
\* pool: of those whose plans were sealed at one session count, at most one
\* ever calls run_admitted_native_pool.
PoolRunsOnce ==
  \A l, m \in Launcher :
    tx[l].ran /\ tx[m].ran /\ plan[l].before = plan[m].before => l = m

\* A launcher that has ended by itself leaves no session behind unless its pool
\* was validated or its containment was reported as incomplete.
StopContains ==
  \A l \in Launcher :
    tx[l].pc \in {"raised", "returned-item", "refused"} /\ open \cap Own(l) # {} =>
      tx[l].containment = "incomplete"

\* A journal only becomes unreadable when two launchers share its id or an
\* exception followed an event that was written: in every other failure the
\* handlers themselves keep it valid.
JournalKept ==
  \A t \in Transaction :
    journal[t].readable \/ t \in slipped
      \/ \E l, m \in Launcher : l # m /\ plan[l].txn = t /\ plan[m].txn = t

\* The recovery opportunity of the campaign is a single-use grant: no session
\* of a recovery plan exists before its launcher's claim, and none of another's.
Opportunity == INSTANCE OneShot WITH
  Claimant <- Launcher,
  actors <- {l \in Launcher : plan[l].recovery /\ Own(l) # {}}

OpportunitySpentOnce == Opportunity!Spec
=============================================================================
