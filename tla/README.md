# A TLA+ verification of native supervision pools

Complex Work Orchestration splits a piece of work into children, gives each to a
native worker session, and supervises a fixed cohort of sessions from one
coordinator process.  The coordinator is the part where mistakes are expensive
and hard to test: it acts on workers it cannot stop atomically, through adapter
callbacks that may fail after they took effect, under poll deadlines, over a
lease registry that other processes write, and it ends with a receipt on whose
word beads are closed.  Around it stand a transaction launcher that journals every
session before it starts it, a dispatcher that must find out whether an
unanswered request started a turn, and a supervisor of single workers that keeps
its state in a file.  This directory models these parts in TLA+, checks them with
TLC and proves what matters most with TLAPS.

Paths below are relative to `src/`; `cwo_core/` stands for `scripts/cwo_core/`.

## 1. Inventory

| Component | State it keeps | Operations | Hard behaviour |
|---|---|---|---|
| Lease registry, `cwo_core/native_pool_leases.py` | one JSON file of leases per host | `acquire_many`, `release_uncommitted_many`, `hold`, `mark_release_pending`, `release`, `cleanup_stale` | several pools and the operator interleave; owners die while workers write; writes fail before or after they take effect; stale evidence |
| Admitted launcher, `cwo_core/native_pool_admitted.py` | the uncommitted lease set | acquire, build the coordinator, commit or hand back | failure between acquisition and transfer |
| Control turn, `cwo_core/native_control.py` | phase, errors, decisions of one worker segment | `step`, `resume_after_wait`, `request_interrupt`, `run` | a callback that raises after it took effect; an interrupt in any phase; deferred archives |
| Pool coordinator, `cwo_core/native_pool.py` | state, decision and control files; turns, leases, dispositions, faults | `step`, `run`, `request_interrupt`, crash cleanup, receipt | faults entered in the middle of an invocation; containment; control file races; crashes; deferred workspace checks |
| Scheduler, `cwo_core/native_pool_scheduler.py`, `native_pool_schedulability.py` | cursor, deadlines | earliest-deadline selection, peer guard, wait, admission formula | non-preemptive service, late polls, starvation |
| Usage ledger, in `native_pool_scheduler.py` | cumulative usage per child | `observe`, `reconcile` | replayed or reset totals |
| Operator commands, `scripts/supervise_native_pool.py` | none | write an interrupt request, clean stale leases | files read out of date |
| Pool transaction, `cwo_core/native_pool_transaction.py` | hash-chained journal, one-shot recovery file | `execute_native_pool_transaction` | crash between journal and action, exceptions after an effect, newness of an id checked outside the lock, trusted session count |
| Turn dispatch, `scripts/run_native_pool_live_canaries.py` (`AppServer`), `cwo_core/native_turn_dispatch.py` | durable dispatch record | `start_turn`, `contain_ambiguous_turn_dispatch`, attach | lost and late answers, a request that starts a turn after the timeout, a second controller on the same record |
| Allocation ledger, `cwo_core/native_live_allocation_ledger.py` | audit log and ledger, trusted head per store | audited append, resolve, containment audit | torn appends, stale heads, disarmed stores |
| Worker supervisor, `scripts/supervise_native_worker.py`, `cwo_core/native_retry.py` | state file of one worker, audit log | start, arm, mark-dispatched, check, finalize, assess and authorize retry | overlapping commands without compare-and-swap, death between audit and write, control loss |
| Recovery authority, activation ledger | process-local capabilities, private ledger | consume once | double spending |
| Admission, preflight, proportionality, configuration, contracts | none (pure) | validate, build, seal | none beyond data |
| Workspace monitor | baselines | `compare` | file system, modelled as three outcomes |
| Precommit, maintenance runtime | per-request state | one zero-tool request; a binding of the launcher | sequential |
| Routing, packets, returns, coach, audit, telemetry, site | files | text processing, logs | outside the concurrent core |

How they interact.  The launcher acquires the leases of the whole cohort and
builds the coordinator (or the coordinator acquires them in its first steps).
Each coordinator step handles the control file, then invokes at most one adapter
callback through one control turn, reads evidence, records the poll, compares the
workspaces and persists its state.  When every turn is terminal it compares the
workspaces, releases the leases one per step and builds the receipt.  On loss of
control it parks the leases as `release-pending`.  The operator reads persisted
states of dead owners and hands them to `cleanup_stale`.

What makes each correct:

* registry: two workers that may write never share a worktree or a target; a
  lease is released only on proof from its own pool and epoch; no lease regresses;
* turn: one submission, none after an interrupt; "completed" and "closed" leave no
  session; an interrupt wins over a completion and ends;
* coordinator: an accepting receipt and every authorization to close a bead is
  earned; a fault stops submissions and ends the pool; the persisted status tells
  the truth about sessions; no child is stranded;
* transaction: no session before its intent is journalled; the pool runs once; a
  launch that stops leaves no session open unless it says so; the recovery
  opportunity is spent at most once;
* turn dispatch: a request that may have been written is on disk first; absence and
  binding of a turn are true; "contained" means stopped and audited;
* worker supervisor: the audit log precedes the file; completed and retried attempts
  are earned; a final state stays final;
* scheduler: the guard never lets a callback carry a peer past its deadline; polls in
  time within the admitted bound (false for three workers, section 5); nobody starves.

The hazards, each at its line, are listed in `PROJECT.json`.

## 2. Modules

```
ControlTurn            the turn as a pure machine (operators only)
  +- TurnSession       one turn, its driver, its session  <- TurnSession_proofs
  +- NativePool        the coordinator of N turns         <- MCNativePool, NativePool_proofs
  +- PoolScheduler     N turns in time                    <- MCPoolScheduler, PoolScheduler_proofs
PoolLeases             the registry and its clients       <- MCPoolLeases, PoolLeases_proofs
OneShot                what a single-use grant promises
  ^- PoolTransaction   launchers, journals, sessions      <- MCPoolTransaction, PoolTransaction_proofs
TurnDispatch           one turn/start and its containment <- TurnDispatch_proofs
WorkerSupervision      commands on one state file         <- MCWorkerSupervision, WorkerSupervision_proofs
```

**PoolLeases.**  Each registry method runs under one exclusive `flock`, so each is
one atomic action: `AcquireMany`, `ReleaseUncommittedMany`, `Hold`,
`MarkReleasePending`, `Release`, `CleanupStale`.  A registry operation whose write
fails has its own action (`AcquireRefused`, `AcquireRollbackFailed`,
`ReleaseUncommittedFailed`); `_transition` has no rollback, so its failure after
the write is the transition followed by the client's control failure.
`Judgements` is the error of `owner_identity_is_live`: a dead owner never looks
alive (pid, start ticks and boot id are compared), a live one may look dead.
`Supplied` is what an operator may hand to the cleanup: any terminal state a pool
of that id ever persisted, or something that proves nothing.  The clients appear
as far as the registry sees them: a coordinator starts workers from its in-memory
leases without asking the registry again, and a crashed owner leaves its workers.

**ControlTurn.**  `StepTurn(t, reply)` is `NativeControlTurn.step`: `Callback`
names the adapter callback of a phase, `Replies` what it may answer, `Successor`
the next phase.  `RejectTurn`, `ResumeTurn`, `InterruptTurn` and `SleepFailed` are
the other entry points.  The module has no variables, and three modules share it.

**TurnSession.**  The turn with the worker session.  A callback that "fails" may or
may not have taken effect, so `send_input` may leave a session and `close` may
leave none.  `run` and an interrupting supervisor are alternative drivers.

**NativePool.**  The coordinator's memory is the record `pool`, and each private
method is an operator on it: `_enter_fault` is `EnterFault`, `_record_contained_fault`
is `RecordContainedFault`, `_update_child_progress` is `UpdateProgress`,
`_read_evidence` is `ReadEvidence`, `_record_poll` is `RecordPoll`, and so on.
`InvokeChild` composes them in the order of `_invoke_child` (progress, evidence,
poll, callback bound, comparison), then takes the new status and persists, in one
step.  A `Setup` fixes the number of
children, which are on the fast path, whether the launcher acquired the leases,
the completion policy and the faults the environment may inject; one run starts
from several setups.  The steps that end a
pool are split where the code writes the state file in between: `closed` or
`control-failed` is on disk before the receipt is built, so `IssueReceipt`,
`ReceiptRefused` and `FinishControlFailed` are actions of their own and a worker,
the operator or a crash may come between.  Time is left out: any child with a
deadline may be due.

**PoolScheduler.**  The same turns with time, in units of 25 ms: `since` counts from
the last poll (or submission), `Preferred` is the earliest due child or the one the
peer guard puts first, `Proposed` the first child in contract order with work.
Callbacks last up to their certified maximum and each step up to the certified
overhead, in steps of `Grain`.  It stops at the first late poll: what follows is the
coordinator's fault handling.

**PoolTransaction.**  Each launcher is one call of `execute_native_pool_transaction`,
and its `pc` stands at the next journal append or runtime callback, where others
interleave.  `AppendEvent` is `append` under its lock: it validates the events before
its own, not its own, so `Recorded` may make a journal unreadable.  `AppendLate` is an
append that raises after its write, `Raise` any callback that raises, `Failed` where
the three handlers take over (`Contain`, then the handler's notes and its terminal
event).  `sessions` are those ever created and `Observed` the trusted count of them;
what a launcher cannot account for is `CountMismatch`.  Readiness, horizons and
plan fields are data: their refusals are `Raise`.

**OneShot** is the abstract single-use grant; `PoolTransaction!Opportunity` instantiates
it with the owner of the recovery ledger and the recovery launchers that have a
session, and `OpportunitySpentOnce` says that the detailed specification implements it.

**TurnDispatch.**  The record, the ledger with its audit log (`ahead` when an append
was torn between the two), and the ledger store of each controller, which is armed
with a trusted head and disarms itself on any failure.  `StartTurn` collects the
steps of `start_turn`, `Contain` those of `contain_ambiguous_turn_dispatch` and
`persist_exact_audited_success`; `Persist` and `Append` are the two durable writes
and may fail before or after their effect.  The app-server is external: it handles
the request at any time after it was written, and projections and notifications
may be missing.  Turn ids are flags, as the ledger allows one turn intent per
thread.  Containment has three callers: `start_turn` itself, a direct call on a record
that is already final (`Resume`), and `contain_started_threads` (`Sweep`), which may
summarize the ledger before and always does at its end (`Summarize`).  A summary
validates the ledger in full and so re-arms a store that had disarmed itself;
`sweeping` tells how a containment that ends or raises goes on.

**WorkerSupervision.**  A command reads the file (`Read`, with the code's refusals as
`Accepted`), judges and audits (`Perform`) and replaces the file (`Write`), or dies
first (`Die`).  What the worker's session log and the workspace show is `log`, `facts`
and `drift`; `Judged` is the order of the reasons in `check`.  `mishaps` counts the
commands that began beside another or died, so that properties can tell what needs
an orderly use.

## 3. Runs

| Run | Instance | Shows |
|---|---|---|
| Leases | 3 pools (two epochs of one id), 4 leases, one of them read-only, nested targets, 1 crash | `TypeOK`, `ActiveLeasesDisjoint`, `WorkersDisjoint`, `EvidenceBound`, `LeaseNeverRegresses` |
| TurnSession | 1 turn, 2 interrupts, every failure | type, `StoppedWhenDone`, `InterruptWins`, `SubmittedOnce`, `NoLateSubmission`, `InterruptSettles` |
| PoolSafety | setups: 1 worker with leases acquired by the coordinator and every kind of fault; 2 admitted workers, the second on the fast path, best effort, faults that involve a peer | type, `AcceptanceEarned`, `AuthorizationEarned`, `DiskQuiescent`, `NoStrandedChild`, `LeaseDiscipline`, `NoSubmissionAfterFault` |
| PoolSettles | the pair with child faults and the control file, fairness | `FaultSettles` |
| SchedulerPair | 2 workers, certified latencies, 100 ms overhead, 100 ms grain | type, `PeersStayInTime`, `EveryChildServed` |
| TransactionLaunch | a recovery launch beside another of the same or another id, or a plain launch of two workers; every exception, late appends, 1 crash | `IntentBeforeSession`, `PoolRunsOnce`, `StopContains`, `JournalKept`, `OpportunitySpentOnce` (refinement) |
| TurnDispatch | a dispatcher and one later controller, 1 failing write, 1 further call of containment each (direct or from `contain_started_threads`), any crash | `WriteAhead`, `ResolutionTruthful`, `ContainedMeansStopped`, `ContainedIsAudited` |
| Supervision | 2 controllers, 1 mishap, every command | type, `TrailFirst`, `CompletionEarned`, `RetryEarned`, `FinalKept` |
| PoolEarlyRelease, PoolNoReceipt, SchedulerThree, SupervisionControlLoss | | the findings of section 5 |

Bounds, and why they are enough.

* `MaxCrashes` in Leases (owners that die).  One suffices for every pair of a dead
  owner and a live competitor.  The proofs have no bound.  Three pools on two pool
  ids are the least where evidence of the wrong epoch exists and a third party wants
  the place.
* `MaxInterrupts = 2`: a repeated interrupt; a third is a repetition of the second.
  The proofs have no bound.
* Two children in the pair of PoolSafety: a faulted child and its peer; order in the
  cohort matters (contract order, fast path), and both children play both parts.
  `asked` and `request` let the operator ask once and write one control file, as the
  code acts on the first only.  All kinds of fault together are checked with one
  child; the pair keeps those that involve a peer, failing comparisons in a setup of
  their own.
* Scheduler: a unit is 25 ms, so every certified latency is exact.  A duration is a
  multiple of `Grain` or the maximum: 0, 100, 200 ms and the maximum in SchedulerPair, and
  0 or the maximum in SchedulerThree, which is enough to be late.  SchedulerPair has two
  workers because three do not fit a run: with three, overheads always at their maximum
  and callbacks of no duration or the maximum, `EveryChildServed` was checked once outside
  the runs (440,296 states, no error).  What two workers cannot show, that no poll is
  late, is not claimed of them: SchedulerThree asks it of three.  `PeersStayInTime` is
  proved for any number.
* TransactionLaunch: two launchers are the least that share an id, a session count and
  the opportunity.  `Plans` gives each the plans it may be sealed with; a recovery plan
  has one prelude and one worker, the plain one two workers, so every loop of the
  launcher runs once and twice.  `MaxCrashes = 1`: a survivor beside a dead peer.  The
  proofs have none of these bounds.
* TurnDispatch: `MaxFaults = 1` (writes that fail by themselves), `MaxCalls = 1` (repeated
  containment), one recoverer.  A fault in either of the two writes of a containment, a
  crash, and a second controller from the record already combine; a second fault only
  stops earlier.
* Supervision: `MaxMishaps = 1`, two controllers, symmetric.  One overlap already lets
  two commands act on the same read, and one death leaves an event without a state.
  The proofs have no bound.

Deadlock checking is off where a run really ends: a closed pool, a terminal turn,
a registry with nothing left to do.

## 4. Fairness

* TurnSession: `WF(Advance)`, the driver's loop; `SF(CloseSettles)`, an archive
  request the adapter started settles.  Without the latter `close` may answer
  "deferred" for ever, and the code would wait for ever with it.
* NativePool: `WF(Coordinator)`, since `run` steps until the pool ends; `WF(Invoke(c))`,
  since no child starves, which is what `EveryChildServed` shows of the real
  selection with only `WF(Next)`; `SF(CloseSettles(c))` as above.  `EveryChildServed`
  exempts a child with two peers whose archives are both deferred for ever (the guard may
  then prefer one of them each time); `SF(CloseSettles)` rules that out.
* PoolScheduler: `WF(Next)` alone.
* PoolTransaction, TurnDispatch and WorkerSupervision: none.  Their processes may stop at
  any step, and what is checked of them is safety.

Workers, the operator, faults and crashes are never fair.

## 5. Findings

* **PoolEarlyRelease.**  `references/native-supervision-pools.md:573` says that leases
  remain held until the terminal workspace comparison succeeds.  The code sets
  `_terminal_comparison_complete` after a dirty comparison too, enters a fault
  without control loss, and releases every lease.
* **PoolNoReceipt.**  A check that interrupts one child, with evidence that is not
  quarantined and rejected, yields a receipt `validate_pool_receipt` refuses; the
  closed pool is rewritten as `control-failed` and has no receipt.  The document
  (lines 570-571) and `tests/test_native_pool.py:1433` promise a partial receipt.
* **SchedulerThree.**  In a pool of three whose callbacks and selections all stay within
  their certified times, the first check of the third child ends 2550 ms after its
  submission; more than 2500 ms (interval and tolerance) fault the cohort.  A submitted
  child has no deadline before its first poll.  When its check is proposed, the guard
  yields to the two peers, whose deadlines are near; their checks answer "interrupt", and
  as an interrupted child keeps its earlier deadline, both are interrupted, finalized and
  asked to archive first.  Each of these steps also costs its own selection, whereas the
  admitted demand counts the overhead once and one lifecycle callback; that the overhead
  is one per selection follows from how it is measured
  (`scripts/run_native_pool_live_canaries.py:9409-9429`).  The comment at
  `cwo_core/native_pool.py:1680` wants the first check inside the poll budget, and
  `references/native-supervision-pools.md:394-402` releases three workers with a
  "worst-case response bound" of 950 ms.
* **SupervisionControlLoss.**  `check` judges each poll from the evidence alone, so a
  control loss is forgotten by the next check with readable evidence, and the attempt
  can be finalized as completed with an accepted session.
  `references/native-supervision.md:206` says that it is interrupted, closed and
  quarantined.

Driving the repository's own test harness along the counterexamples of the first two
reproduces them; the last two were compared with the source by hand.

Remarks that no run reports:

* `_record_contained_fault` leaves out `finalize-control-failed` and
  `waiting-close-interrupt` from the phases in which it requests no second interrupt,
  unlike `_enter_fault`; the model keeps the difference
  (`ContainedStoppingPhases`), and no property depends on it.
* Scheduler, three workers: two deferred archives that fall due together make the answer
  to a due peer take 1000 ms, beyond the documented bound of 950 ms.  Two peers whose
  archives are deferred again and again can keep the third child from ever being
  submitted, since the guard prefers one of them whenever the third is proposed.  With
  two workers neither happens, and no poll is late even if the guard is never asked: the
  tolerance, not the guard, keeps those polls in time.
* Dispatch: when the ledger refuses to bind a turn that runs, its store has disarmed
  itself, and the containment called by `start_turn` begins with a read of that store: it
  raises that error instead of `AmbiguousTurnStartError`, and has not asked for an
  interrupt.  `contain_started_threads` without `allow_same_process_proofs` meets the same
  error in its first loop, and only its trailing summary re-arms the store; with
  `allow_same_process_proofs`, or on a second call, containment proceeds.
* Transaction: an append that raises after its write
  (`cwo_core/native_pool_transaction.py:1020`) leaves the launcher one event behind; the
  handler may then append an event that does not follow, after which the journal
  cannot be read any more.  `JournalKept` states exactly these exceptions.  A document
  says that a second infrastructure failure opens the fuse; the maximum in the code
  (line 493) is three.
* Dispatch: the record is written under its lock but not compared with what was read,
  so a stale controller may overwrite an audited final record with an older one; the
  resumption of a pending audit never creates an audit that is missing; an append torn
  between audit log and ledger makes every later full validation fail.
* Supervisor: the loss of authority is written without an audit event, and before
  `arm` it leaves a state that can be neither armed nor finalized; overlapping commands
  can reopen a final state; a change of the workspace that is put back is forgotten; a
  control loss followed by a budget interrupt is eligible for a retry.

## 6. Proofs

`PoolLeases_proofs` proves, for every set of pools, leases, worktrees, targets and
any number of crashes, that `Spec` implies `[]TypeOK`, `[]ActiveLeasesDisjoint`,
`[]WorkersDisjoint`, `[]EvidenceBound` and `LeaseNeverRegresses`.  The assumption is
`LeaseAssumption` (the constants are functions on their domains).  None of the
invariants is inductive alone.  `LeaseInv` adds `DispatchLeased` (what a pool that
may still start workers holds is active in the registry), `PublishedQuiescent`
(a pool that ever published "completed" or "closed" has no worker left and will
start none) and `WorkersLeased` (a lease with a worker is active).  The argument:
a worker's lease stays active because only a release or a cleanup on "completed"
or "closed" evidence of its own epoch ends it, and such evidence exists only when
the pool has no worker; active leases never collide; hence workers never do.
`CleanupEffect` and `TransitionActive` reduce cleanups and transitions to the few
facts the invariant needs; `GrantedDisjoint` is the acquisition.

`TurnSession_proofs` proves the four safety invariants and `NoLateSubmission` for any
number of interrupts.  `TurnInv` adds `PhaseInv`, which ties each phase to the number
of submissions, to pending interrupts and to the session (after a successful close
the session is closed, before the submission there is none).  `FailedStep` and
`AnsweredStep` describe a step of the machine once and for all.

`PoolTransaction_proofs` proves the four invariants of TransactionLaunch and the
refinement of `OneShot` for any launchers, transactions, plans and crashes, from
`PlanAssumption`.  `TransactionInv` adds, per launcher, `Noted` (while the body runs the
attempts it noted are the sessions it created, each after its intent), `Claimed` (a
recovery launcher owns the opportunity before its first session), `Stopped` and
`Followed` (a journal with one launcher and no late failure is in the state this
launcher remembers); and across launchers `BaselineInv` and `OneBegun`.  That the pool
runs once follows from the count, not from the journal: two launchers sealed at the
same count that both pass their baseline see each other's sessions, so at most one
counts right before it arms.

`WorkerSupervision_proofs` proves the five properties of Supervision for any controllers
and any number of mishaps.  `Good` says what a copy of the state owes to the audit log
and the worker's log, and `SupervisionInv` demands it of every copy: the file, what a
command read, and what it will write.  That is what makes it inductive although
anybody may replace the file with an old copy: what is audited stays audited, and
what a complete log shows no longer changes.  `Keeps` and `Orderly` carry the parts that
compare a command with the state it read.  `OutcomeSound` collects one lemma per
command.

`NativePool_proofs` proves every safety property of PoolSafety for every pool: any
number of children, fast path, launcher, completion policy and set of faults
(`PoolAssumption` only gives the fields of a setup their types).  The receipt
properties are about the end of a run, and what makes them true is spread over all
the steps before it, so none is inductive.  `PoolInv` adds:
  * `Core`: each turn has an outcome exactly when it is over, one with a failed
    callback is stopping; a turn that ended cleanly has closed its session, and one
    that left its session at work is recorded as a control failure; after a pool-wide
    fault every turn is stopping or over; only a completed turn has the runtime
    disposition "completed"; a deadline belongs to a running turn;
  * `Judged`: faulted children are rejected, until a crash, which builds no receipt
    (`_cleanup_on_crash` leaves the verdicts alone, so the clause must stop there);
  * `Served`, `InOrder`, `LeaseOK`: a child past its first poll was admitted, which is why
    the next admission is the next child in contract order, and a turn has its lease
    before it starts;
  * `ComparedOK`: what the terminal comparison found clean stays clean unless control was
    lost, because no session is at work then (`OverQuiet`), so `WorkerWrites` is disabled;
  * `StatusOK`, and that the state file has the status of the memory unless a crash
    state could not be written.

A step composes private methods and any of them may enter a fault, so the lemmas are
about memories and not about states.  `EnterFaultKeeps` is `_enter_fault`; `Calm` says how
a fault changes a memory, and composes.  `InvokeKeeps` follows `_invoke_child` part by
part; in the middle, between progress and the fault it calls for, `Core` holds with
that control failure still to be recorded (its parameter `cf`).  `ComparisonKeeps`,
`ParkEnded` and `FaultsEnded` serve the steps after the last turn, `WrittenOffSound` the
crash.  `NoSubmissionAfterFault` follows from `Protected`: no turn of a faulted pool is
before its submission.

`TurnDispatch_proofs` proves the four invariants of TurnDispatch for any number of
recovering controllers, failing writes and resumed containments, and that a final
record replaces exactly the audited one (`AuditedUnderLock`).  `DispatchInv` says of
every copy of the record, on disk, in a memory or in a scan, that it claims only what
is true (`Truthful`), and of every controller what its program point has established;
stale copies may then overwrite each other without harm, since what was true of a
turn (it exists, it ended, it was archived) stays true.

`PoolScheduler_proofs` proves, for any number of children and any latencies that
`Schedulable` admits: the types; that the selection never has two candidates and never
passes over a due deadline (`DueFirst`); and `PeersStayInTime`, the promise of the guard.
The last two need that every nonempty set of children has a first (`FirstExists`): the
rotation breaks every tie, so the order of deadlines is total.  The library's induction
theorems cannot be instantiated by the provers; `FirstExists` and `LastChild` use that a
nonempty set of naturals has a least element (`WFMin`) on the set of counterexamples
instead.  Nothing is proved of a whole service: that no poll is late is false for some
admitted pools (section 5).

Only model-checked: liveness (`InterruptSettles`, `FaultSettles`, `EveryChildServed`), which
is out of the prover's reach; and the four properties of section 5, which do not hold.

## 7. Not modelled

Formatting, sealing and hashing of artifacts; field validation; usage totals
(`budget` is a fault); contents of workspaces (clean, dirty, or an error); the
adapters behind the callbacks, which are external and may answer anything the
turn accepts; the app-server; the second loop of `contain_started_threads`, which reads,
interrupts, archives and audits the threads whose dispatch is not uncertain.  The
components with status `not_modelled` in
`PROJECT.json` say why.

The models cover the concurrent core, which is a small share of the repository's
lines.  The largest files are frozen campaign contracts and their validators
(`native_live_campaign_contracts.py`, most of `run_native_pool_live_canaries.py` and
`native_pool_contracts.py`), reports, routing tables and text tools: pure functions
over JSON or text, without shared state, whose statement in TLA+ would repeat them
line by line.

The usage ledger (`cwo_core/native_pool_scheduler.py:173-229`) is sequential, too: it
refuses a replayed observation and a decreasing total, and both refusals are faults
of NativePool.

## 8. Plan

1. An abstract lease table ("a place has at most one active owner") implemented by
   PoolLeases through a refinement mapping, and NativePool's leases mapped to it.
2. Recovery authority and the admission capability: single consumption, as further
   instances of `OneShot`.
3. A response bound that holds for every number of workers, counting the callbacks a due
   peer really runs (an interrupted one up to three in a row) and the overhead of each.
