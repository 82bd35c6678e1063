----------------------- MODULE PoolTransaction_proofs -----------------------
(***************************************************************************)
(* Proofs about PoolTransaction, for any number of launchers, plans,       *)
(* crashes and late appends.  TransactionInv is inductive; it says what    *)
(* each launcher knows at each of its points about its own sessions, its   *)
(* intents and the opportunity, how the journal of a transaction that only *)
(* one launcher has follows that launcher's memory, and how many sessions  *)
(* are neither of one launcher nor of another.                             *)
(***************************************************************************)
EXTENDS PoolTransaction, FiniteSetTheorems, TLAPS

Body == AppendPoint \cup CallPoint \cup {"new"}

Point == Body \cup HandlerPoint \cup EndPoint

\* The points after the baseline was found to be the one of the plan.
Past == (AppendPoint \cup CallPoint) \ {"baseline"}

\* The points between the last count before the pool runs and its run.
Armed == {"armed", "running", "run"}

Tx == [pc : Point, state : State \cup {"none"}, seen : State \cup {"none"}, ordinal : Nat,
       attempts : SUBSET Nat, error : {"none", "protected", "item", "other"},
       containment : {"none", "complete", "incomplete"}, ran : BOOLEAN, accepted : BOOLEAN]

Journal == [last : State \cup {"none"}, readable : BOOLEAN, intents : SUBSET Nat, failures : Nat]

\* The variables have their types.
TransactionTypes ==
  /\ plan \in [Launcher -> Plan]
  /\ tx \in [Launcher -> Tx]
  /\ journal \in [Transaction -> Journal]
  /\ owner \in Launcher \cup {Nobody}
  /\ sessions \in SUBSET (Launcher \X Nat) /\ IsFiniteSet(sessions)
  /\ open \in SUBSET sessions
  /\ slipped \in SUBSET Transaction

Created(l) == \E k \in Nat : <<l, k>> \in sessions

\* What a launcher knows of its sessions: in the body of the transaction the
\* attempts it noted are the sessions it created, each after its intent.
Noted(l) ==
  /\ tx[l].pc \in Body => \A k \in Nat : <<l, k>> \in sessions <=> k \in tx[l].attempts
  /\ tx[l].pc \in {"new", "baseline"} => tx[l].attempts = {}
  /\ tx[l].pc \in {"claim", "start"} => tx[l].ordinal \in Log(l).intents
  /\ \A k \in Nat : <<l, k>> \in sessions => k \in Log(l).intents
  /\ tx[l].pc \in Body /\ (tx[l].ordinal # 0 \/ tx[l].pc \in {"spent", "bound", "counted"}) =>
       tx[l].attempts # {}
  /\ tx[l].pc = "bind" => tx[l].ordinal # 0
  /\ tx[l].pc \in Armed \/ tx[l].ran => Created(l)

\* A launcher with a recovery plan has claimed the opportunity before its
\* first session is started.
Claimed(l) ==
  plan[l].recovery
    /\ (tx[l].ordinal # 0 \/ tx[l].pc \in {"start", "spent", "bound", "counted"} \/ Created(l)) =>
    owner = l

\* After containment what is left open was reported as such.
Stopped(l) ==
  tx[l].pc \in {"note", "escalate", "close", "raised", "returned-item", "refused"} =>
    \A k \in Nat : <<l, k>> \in open => tx[l].containment = "incomplete"

Sole(l) == \A m \in Launcher : plan[m].txn = plan[l].txn => m = l

\* The journal of a transaction with one launcher and no late failure is in the
\* state this launcher remembers.
Followed(l) ==
  Sole(l) /\ plan[l].txn \notin slipped =>
    /\ Log(l).readable
    /\ \/ Log(l).last = tx[l].state
       \/ tx[l].state = "none" /\ Log(l).last = "PREPARED" /\ tx[l].pc \notin Body
    /\ tx[l].pc \in (Body \cup HandlerPoint) \ {"report"} => tx[l].state \notin TERMINAL_STATES
    /\ tx[l].pc \in Body \ {"new", "baseline", "prepared"} => tx[l].state # "none"
    /\ tx[l].pc \in Body =>
         tx[l].seen = "none" \/ (tx[l].pc \in {"intent", "spent", "bound"} /\ tx[l].seen = tx[l].state)

LauncherInv(l) == Noted(l) /\ Claimed(l) /\ Stopped(l) /\ Followed(l)

Foreign(l, m) == {s \in sessions : s[1] # l /\ s[1] # m}

Counting(l) == tx[l].pc \in Past \/ tx[l].ran

\* What two launchers with one baseline did not create themselves was there
\* when both of them started.
BaselineInv ==
  \A l, m \in Launcher :
    Counting(l) /\ Counting(m) /\ plan[l].before = plan[m].before =>
      Cardinality(Foreign(l, m)) >= plan[l].before

Begun(l) == tx[l].pc \in Armed \/ tx[l].ran

OneBegun ==
  \A l, m \in Launcher : Begun(l) /\ Begun(m) /\ plan[l].before = plan[m].before => l = m

\* The journal of a transaction that no launcher has is never written.
UnusedReadable ==
  \A t \in Transaction : (\A l \in Launcher : plan[l].txn # t) => journal[t].readable

\* The inductive invariant.
TransactionInv ==
  /\ TransactionTypes
  /\ UnusedReadable
  /\ \A l \in Launcher : LauncherInv(l)
  /\ BaselineInv
  /\ OneBegun

-----------------------------------------------------------------------------
(* Types. *)

WritePoint == AppendPoint \cup {"note", "escalate", "close"}

\* What Event gives at each point: a state, unless a launched session's event
\* is written before the current state was read.
LEMMA EventShape ==
  ASSUME NEW r \in Tx, r.pc \in WritePoint,
         r.pc \in {"intent", "spent", "bound"} => r.seen # "none"
  PROVE  /\ Event(r).state \in State
         /\ r.pc \in {"intent", "spent", "bound"} => Event(r).state = r.seen
         /\ r.pc \in {"note", "escalate"} =>
              Event(r).state = IF r.state = "none" THEN "PREPARED" ELSE r.state
         /\ r.pc = "close" => Event(r).state = ClosingState(r)
         /\ r.pc = "intent" <=> Event(r).type = "allocation-intent"
         /\ r.pc \in AppendPoint \ {"intent", "spent", "bound"} \/ r.pc = "close" =>
              Event(r).type \in {"transition", "terminal"}
         /\ r.pc = "terminal" <=> (r.pc \in AppendPoint /\ Event(r).type = "terminal")
         /\ r.pc \in AppendPoint \ {"intent", "spent", "bound", "terminal"} =>
              Event(r).state \notin TERMINAL_STATES
<1>1. /\ r.state \in State \cup {"none"} /\ r.seen \in State \cup {"none"}
      /\ r.error \in {"none", "protected", "item", "other"}
  BY DEF Tx
<1>2. CASE r.pc \in {"note", "escalate"}
  BY <1>1, <1>2 DEF Event, NoteType, State, TERMINAL_STATES, AppendPoint
<1>3. CASE r.pc \in {"intent", "spent", "bound"}
  BY <1>1, <1>3 DEF Event, AppendPoint
<1>4. CASE r.pc \in {"terminal", "close"}
  BY <1>1, <1>4 DEF Event, ClosingState, State, TERMINAL_STATES, AppendPoint
<1>5. CASE r.pc \in {"prepared", "reserved", "ready", "refreshed", "allocating", "armed",
                     "running", "validating"}
  <2>1. StateAt[r.pc] \in State \ TERMINAL_STATES
    BY <1>5 DEF StateAt, State, TERMINAL_STATES
  <2>2. Event(r) = [type |-> "transition", state |-> StateAt[r.pc]]
    BY <1>5 DEF Event
  <2> QED
    BY <1>5, <2>1, <2>2 DEF AppendPoint
<1> QED
  BY <1>2, <1>3, <1>4, <1>5 DEF WritePoint, AppendPoint

\* An append changes the journal of its launcher only, and extends its intents.
LEMMA WriteShape ==
  ASSUME TransactionTypes, NEW l \in Launcher, tx[l].pc \in WritePoint, Write(l)
  PROVE  /\ journal' \in [Transaction -> Journal]
         /\ \A t \in Transaction : journal[t].intents \subseteq journal'[t].intents
         /\ \A t \in Transaction : t # plan[l].txn => journal'[t] = journal[t]
         /\ plan[l].txn \in Transaction
         /\ tx[l].pc = "intent" => tx[l].ordinal \in journal'[plan[l].txn].intents
         /\ journal'[plan[l].txn].last = Event(tx[l]).state
         /\ journal'[plan[l].txn].readable =
              (journal[plan[l].txn].readable /\ Follows(journal[plan[l].txn].last, Event(tx[l]).state))
<1> DEFINE t0 == plan[l].txn
           e == Event(tx[l])
           j == journal[t0]
<1>1. tx[l] \in Tx /\ t0 \in Transaction /\ tx[l].ordinal \in Nat /\ j \in Journal
  BY DEF TransactionTypes, Plan, Tx
<1>2. e.state \in State /\ (tx[l].pc = "intent" <=> e.type = "allocation-intent")
  BY <1>1, EventShape DEF Write
<1>3. journal' = [journal EXCEPT ![t0] = Recorded(j, e, tx[l].ordinal)]
  BY DEF Write
<1>4. /\ Recorded(j, e, tx[l].ordinal) \in Journal
      /\ j.intents \subseteq Recorded(j, e, tx[l].ordinal).intents
      /\ tx[l].pc = "intent" => tx[l].ordinal \in Recorded(j, e, tx[l].ordinal).intents
      /\ Recorded(j, e, tx[l].ordinal).last = e.state
      /\ Recorded(j, e, tx[l].ordinal).readable = (j.readable /\ Follows(j.last, e.state))
  <2>1. j.readable \in BOOLEAN /\ j.intents \subseteq Nat /\ j.failures \in Nat
    BY <1>1 DEF Journal
  <2>2. Follows(j.last, e.state) \in BOOLEAN
    BY DEF Follows
  <2> QED
    BY <1>1, <1>2, <2>1, <2>2 DEF Recorded, Journal
<1>5. journal \in [Transaction -> Journal]
  BY DEF TransactionTypes
<1>6. journal'[t0] = Recorded(j, e, tx[l].ordinal) /\ \A t \in Transaction : t # t0 => journal'[t] = journal[t]
  BY <1>1, <1>3, <1>5
<1> QED
  BY <1>1, <1>3, <1>4, <1>5, <1>6

\* Where an exception leads: containment when anything was noted, otherwise a
\* note or the end, and nothing else that matters is changed.
LEMMA FailedShape ==
  ASSUME NEW r \in Tx, NEW error \in {"protected", "item", "other"}
  PROVE  /\ Failed(r, error) \in Tx
         /\ Failed(r, error).pc \in {"contain", "note", "close"}
         /\ r.attempts # {} => Failed(r, error).pc = "contain"
         /\ Failed(r, error).attempts = r.attempts
         /\ Failed(r, error).ordinal = r.ordinal
         /\ Failed(r, error).state = r.state
         /\ Failed(r, error).ran = r.ran
         /\ Failed(r, error).containment = r.containment
<1>1. /\ r.state \in State \cup {"none"} /\ r.ordinal \in Nat /\ r.attempts \in SUBSET Nat
      /\ r.containment \in {"none", "complete", "incomplete"}
      /\ r.ran \in BOOLEAN /\ r.accepted \in BOOLEAN
  BY DEF Tx
<1> QED
  BY <1>1 DEF Failed, Tx, Point, HandlerPoint

\* One launcher moves: the others keep their local variables.
Moves(l) == \E r \in Tx : tx' = [tx EXCEPT ![l] = r]

\* Every step of a launcher moves it to a well-formed local state.
LEMMA StepMoves ==
  ASSUME TransactionTypes, NEW l \in Launcher, Step(l) \/ Fault(l)
  PROVE  Moves(l)
<1> DEFINE r == tx[l]
<1>0. /\ r \in Tx
      /\ r.pc \in Point /\ r.state \in State \cup {"none"} /\ r.seen \in State \cup {"none"}
      /\ r.ordinal \in Nat /\ r.attempts \in SUBSET Nat
      /\ r.error \in {"none", "protected", "item", "other"}
      /\ r.containment \in {"none", "complete", "incomplete"}
      /\ r.ran \in BOOLEAN /\ r.accepted \in BOOLEAN
      /\ plan[l].preludes \in Nat /\ plan[l].workers \in Nat
  BY DEF TransactionTypes, Tx, Plan
<1>1. ASSUME NEW point \in Point PROVE [r EXCEPT !.pc = point] \in Tx
  BY <1>0, <1>1 DEF Tx
<1>2. ASSUME NEW point \in Point, Goto(l, point) PROVE Moves(l)
  BY <1>1, <1>2 DEF Goto, Set, Moves
<1>3. AfterSession(plan[l], 0) \in Point /\ AfterSession(plan[l], r.ordinal + 1) \in Point
  BY <1>0 DEF AfterSession, Point, Body, AppendPoint, CallPoint
<1>4. CASE Open(l)
  BY <1>2, <1>4 DEF Open, Point, Body, CallPoint, EndPoint
<1>5. CASE Baseline(l)
  BY <1>2, <1>5 DEF Baseline, Point, Body, AppendPoint
<1>6. CASE ReadCurrentState(l)
  <2>1. Log(l).last \in State \cup {"none"}
    BY DEF TransactionTypes, Log, Journal, Plan
  <2>2. [r EXCEPT !.seen = IF Log(l).last = "none" THEN "RESERVED" ELSE Log(l).last] \in Tx
    BY <1>0, <2>1 DEF Tx, State
  <2> QED
    BY <1>6, <2>2 DEF ReadCurrentState, Set, Moves
<1>7. CASE AppendEvent(l)
  <2>1. r.pc \in AppendPoint /\ Write(l) /\ Set(l, Moved(l))
    BY <1>7 DEF AppendEvent
  <2>2. Event(r).state \in State
    BY <1>0, <2>1, EventShape DEF WritePoint, Write
  <2>3. NextPoint(l)[r.pc] \in Point
    BY <2>1 DEF NextPoint, AppendPoint, Point, Body, CallPoint
  <2>4. Moved(l) \in Tx
    BY <1>0, <2>2, <2>3 DEF Moved, Tx
  <2> QED
    BY <2>1, <2>4 DEF Set, Moves
<1>8. CASE CountMismatch(l)
  <2>1. PICK u \in SUBSET Nat : Set(l, Failed([r EXCEPT !.attempts = @ \cup u], "other"))
    <3>1. Unaccounted(plan[l]) \in Nat
      BY <1>0 DEF Unaccounted, Sessions
    <3> QED
      BY <1>8, <3>1 DEF CountMismatch
  <2>2. [r EXCEPT !.attempts = @ \cup u] \in Tx
    BY <1>0 DEF Tx
  <2> QED
    BY <2>1, <2>2, FailedShape DEF Set, Moves
<1>9. CASE Prepare(l)
  BY <1>2, <1>3, <1>9 DEF Prepare
<1>10. CASE Prelude(l)
  BY <1>2, <1>10 DEF Prelude, Point, Body, AppendPoint
<1>11. CASE Claim(l)
  BY <1>0, <1>2, <1>11, FailedShape DEF Claim, Set, Moves, Point, Body, CallPoint
<1>12. CASE Start(l)
  <2>1. [r EXCEPT !.attempts = @ \cup {r.ordinal}] \in Tx
    BY <1>0 DEF Tx
  <2>2. [[r EXCEPT !.attempts = @ \cup {r.ordinal}]
           EXCEPT !.pc = IF plan[l].recovery /\ r.ordinal = 0 THEN "spent" ELSE "bound"] \in Tx
    BY <1>0 DEF Tx, Point, Body, AppendPoint
  <2> QED
    BY <1>12, <2>1, <2>2, FailedShape DEF Start, Set, Moves
<1>13. CASE SessionCounted(l)
  <2>0. ASSUME NEW k \in Nat, NEW point \in Point
        PROVE  [r EXCEPT !.ordinal = k, !.pc = point] \in Tx
    BY <1>0, <2>0 DEF Tx
  <2>1. [r EXCEPT !.ordinal = @ + 1, !.pc = AfterSession(plan[l], r.ordinal + 1)] \in Tx
    <3>1. r.ordinal + 1 \in Nat
      BY <1>0
    <3> QED
      BY <1>3, <2>0, <3>1
  <2> QED
    BY <1>13, <2>1 DEF SessionCounted, Set, Moves
<1>14. CASE Release(l)
  BY <1>2, <1>14 DEF Release, Point, Body, AppendPoint
<1>15. CASE Worker(l)
  BY <1>2, <1>15 DEF Worker, Point, Body, AppendPoint, CallPoint
<1>16. CASE Refresh(l)
  BY <1>2, <1>16 DEF Refresh, Point, Body, AppendPoint
<1>17. CASE Bind(l)
  BY <1>2, <1>17 DEF Bind, Point, Body, AppendPoint
<1>18. CASE RunPool(l)
  <2>1. /\ [r EXCEPT !.ran = TRUE] \in Tx
        /\ [[r EXCEPT !.ran = TRUE] EXCEPT !.pc = "returned"] \in Tx
    BY <1>0 DEF Tx, Point, Body, CallPoint
  <2>2. Raisable("run") \subseteq {"protected", "item", "other"}
    BY DEF Raisable
  <2> QED
    BY <1>18, <2>1, <2>2, FailedShape DEF RunPool, Set, Moves
<1>19. CASE Returned(l)
  BY <1>2, <1>19 DEF Returned, Point, Body, AppendPoint
<1>20. CASE \E accepted \in BOOLEAN : Validate(l, accepted)
  <2>1. \A accepted \in BOOLEAN : [r EXCEPT !.accepted = accepted, !.pc = "observe"] \in Tx
    BY <1>0 DEF Tx, Point, Body, CallPoint
  <2> QED
    BY <1>20, <2>1 DEF Validate, Set, Moves
<1>21. CASE Observe(l)
  BY <1>2, <1>21 DEF Observe, Point, Body, AppendPoint
<1>22. CASE Report(l)
  BY <1>2, <1>22 DEF Report, Point, EndPoint
<1>23. CASE Contain(l)
  <2>1. \A c \in {"complete", "incomplete"} : [r EXCEPT !.containment = c, !.pc = "note"] \in Tx
    BY <1>0 DEF Tx, Point, HandlerPoint
  <2> QED
    BY <1>23, <2>1 DEF Contain, Set, Moves
<1>24. CASE Note(l)
  <2>1. AfterNote(r) \in Tx
    BY <1>0 DEF AfterNote, Tx, Point, HandlerPoint
  <2> QED
    BY <1>24, <2>1 DEF Note, Set, Moves
<1>25. CASE Close(l)
  <2>1. Event(r).state \in State
    BY <1>0, <1>25, EventShape DEF Close, WritePoint
  <2>2. Exit(r) \in Point
    BY DEF Exit, Point, EndPoint
  <2>3. [r EXCEPT !.state = Event(r).state, !.pc = Exit(r)] \in Tx
    BY <1>0, <2>1, <2>2 DEF Tx
  <2> QED
    BY <1>25, <2>3 DEF Close, Set, Moves
<1>26. CASE CloseUnrecorded(l)
  <2>1. Exit(r) \in Point
    BY DEF Exit, Point, EndPoint
  <2> QED
    BY <1>2, <1>26, <2>1 DEF CloseUnrecorded
<1>27. CASE \E error \in {"protected", "item", "other"} : Raise(l, error)
  BY <1>0, <1>27, FailedShape DEF Raise, Set, Moves
<1>28. CASE AppendLate(l)
  BY <1>0, <1>28, FailedShape DEF AppendLate, Set, Moves
<1>29. CASE HandlerFails(l)
  BY <1>2, <1>29 DEF HandlerFails, Point, EndPoint
<1>30. CASE Crash(l)
  BY <1>2, <1>30 DEF Crash, Point, EndPoint
<1> QED
  BY <1>4, <1>5, <1>6, <1>7, <1>8, <1>9, <1>10, <1>11, <1>12, <1>13, <1>14, <1>15, <1>16,
     <1>17, <1>18, <1>19, <1>20, <1>21, <1>22, <1>23, <1>24, <1>25, <1>26, <1>27, <1>28,
     <1>29, <1>30 DEF Step, Fault


\* What a step of one launcher leaves alone, or only extends.
Frame(l) ==
  /\ plan' = plan
  /\ \A m \in Launcher \ {l} : tx'[m] = tx[m]
  /\ sessions \subseteq sessions'
  /\ \A m \in Launcher \ {l} : \A k \in Nat :
       /\ <<m, k>> \in sessions' <=> <<m, k>> \in sessions
       /\ <<m, k>> \in open' <=> <<m, k>> \in open
  /\ \A t \in Transaction : journal[t].intents \subseteq journal'[t].intents
  /\ \A t \in Transaction : t # plan[l].txn =>
       journal'[t] = journal[t] /\ (t \in slipped' <=> t \in slipped)
  /\ owner' = owner \/ owner = Nobody

\* A step keeps the types and has the frame of its launcher.
LEMMA StepFrame ==
  ASSUME TransactionTypes, NEW l \in Launcher, Step(l) \/ Fault(l)
  PROVE  TransactionTypes' /\ Frame(l)
<1>1. /\ tx' \in [Launcher -> Tx]
      /\ \A m \in Launcher \ {l} : tx'[m] = tx[m]
  <2>1. PICK r \in Tx : tx' = [tx EXCEPT ![l] = r]
    BY StepMoves DEF Moves
  <2> QED
    BY <2>1 DEF TransactionTypes
<1>2. plan' = plan
  BY DEF Step, Fault, Open, Baseline, ReadCurrentState, AppendEvent, CountMismatch, Prepare,
     Prelude, Claim, Start, SessionCounted, Release, Worker, Refresh, Bind, RunPool, Returned,
     Validate, Observe, Report, Contain, Note, Close, CloseUnrecorded, Raise, AppendLate,
     HandlerFails, Crash
<1>3. /\ journal' \in [Transaction -> Journal]
      /\ \A t \in Transaction : journal[t].intents \subseteq journal'[t].intents
      /\ \A t \in Transaction : t # plan[l].txn => journal'[t] = journal[t]
  <2>1. CASE journal' = journal
    BY <2>1 DEF TransactionTypes
  <2>2. CASE Write(l) /\ tx[l].pc \in WritePoint
    BY <2>2, WriteShape
  <2> QED
    BY <2>1, <2>2 DEF Step, Fault, Open, Baseline, ReadCurrentState, AppendEvent, CountMismatch,
       Prepare, Prelude, Claim, Start, SessionCounted, Release, Worker, Refresh, Bind, RunPool,
       Returned, Validate, Observe, Report, Contain, Note, Close, CloseUnrecorded, Raise,
       AppendLate, HandlerFails, Crash, WritePoint
<1>4. owner' = owner \/ (owner = Nobody /\ owner' = l)
  BY DEF Step, Fault, Open, Baseline, ReadCurrentState, AppendEvent, CountMismatch, Prepare,
     Prelude, Claim, Start, SessionCounted, Release, Worker, Refresh, Bind, RunPool, Returned,
     Validate, Observe, Report, Contain, Note, Close, CloseUnrecorded, Raise, AppendLate,
     HandlerFails, Crash
<1>5. slipped' = slipped \/ slipped' = slipped \cup {plan[l].txn}
  BY DEF Step, Fault, Open, Baseline, ReadCurrentState, AppendEvent, CountMismatch, Prepare,
     Prelude, Claim, Start, SessionCounted, Release, Worker, Refresh, Bind, RunPool, Returned,
     Validate, Observe, Report, Contain, Note, Close, CloseUnrecorded, Raise, AppendLate,
     HandlerFails, Crash
<1>6. \/ sessions' = sessions /\ open' = open
      \/ Start(l)
      \/ Contain(l)
  BY DEF Step, Fault, Open, Baseline, ReadCurrentState, AppendEvent, CountMismatch, Prepare,
     Prelude, Claim, SessionCounted, Release, Worker, Refresh, Bind, RunPool, Returned,
     Validate, Observe, Report, Note, Close, CloseUnrecorded, Raise, AppendLate,
     HandlerFails, Crash
<1>7. /\ sessions \subseteq sessions'
      /\ sessions' \in SUBSET (Launcher \X Nat) /\ IsFiniteSet(sessions')
      /\ open' \in SUBSET sessions'
      /\ \A m \in Launcher \ {l} : \A k \in Nat :
           /\ <<m, k>> \in sessions' <=> <<m, k>> \in sessions
           /\ <<m, k>> \in open' <=> <<m, k>> \in open
  <2>1. CASE sessions' = sessions /\ open' = open
    BY <2>1 DEF TransactionTypes
  <2>2. CASE Start(l)
    <3>1. tx[l].ordinal \in Nat
      BY DEF TransactionTypes, Tx
    <3>2. CASE /\ sessions' = sessions \cup {<<l, tx[l].ordinal>>}
               /\ open' = open \cup {<<l, tx[l].ordinal>>}
      <4>1. IsFiniteSet(sessions')
        BY <3>2, FS_AddElement DEF TransactionTypes
      <4> QED
        BY <3>1, <3>2, <4>1 DEF TransactionTypes
    <3> QED
      BY <2>1, <2>2, <3>2 DEF Start
  <2>3. CASE Contain(l)
    <3>1. sessions' = sessions /\ open' \subseteq open
      BY <2>3 DEF Contain
    <3>2. \A s \in open : s[1] # l => s \in open'
      BY <2>3 DEF Contain, Own
    <3> QED
      BY <3>1, <3>2 DEF TransactionTypes
  <2> QED
    BY <1>6, <2>1, <2>2, <2>3
<1>8. plan[l].txn \in Transaction
  BY DEF TransactionTypes, Plan
<1>9. TransactionTypes'
  BY <1>1, <1>2, <1>3, <1>4, <1>5, <1>7, <1>8 DEF TransactionTypes
<1> QED
  BY <1>1, <1>2, <1>3, <1>4, <1>5, <1>7, <1>9 DEF Frame

-----------------------------------------------------------------------------
(* The launchers that do not move. *)

\* What is known of a launcher that does not move stays known: nobody else
\* touches its sessions, its intents or a transaction that is its own.
LEMMA OthersKept ==
  ASSUME PlanAssumption, TransactionTypes, NEW l \in Launcher, Frame(l),
         NEW m \in Launcher, m # l, LauncherInv(m)
  PROVE  LauncherInv(m)'
<1>1. /\ tx'[m] = tx[m] /\ plan' = plan
      /\ \A k \in Nat : /\ <<m, k>> \in sessions' <=> <<m, k>> \in sessions
                        /\ <<m, k>> \in open' <=> <<m, k>> \in open
      /\ Log(m).intents \subseteq Log(m)'.intents
      /\ owner' = owner \/ owner = Nobody
      /\ plan[m].txn \in Transaction
  BY DEF Frame, TransactionTypes, Plan, Log
<1>2. Created(m)' <=> Created(m)
  BY <1>1 DEF Created
<1>3. Noted(m)'
  BY <1>1, <1>2 DEF LauncherInv, Noted
<1>4. Claimed(m)'
  BY <1>1, <1>2 DEF LauncherInv, Claimed, PlanAssumption
<1>5. Stopped(m)'
  BY <1>1 DEF LauncherInv, Stopped
<1>6. Followed(m)'
  <2>1. Sole(m)' <=> Sole(m)
    BY <1>1 DEF Sole
  <2>2. Sole(m) => plan[l].txn # plan[m].txn
    BY DEF Sole
  <2>3. Sole(m) => Log(m)' = Log(m) /\ (plan[m].txn \in slipped' <=> plan[m].txn \in slipped)
    BY <1>1, <2>2 DEF Frame, Log
  <2> QED
    BY <1>1, <2>1, <2>3 DEF LauncherInv, Followed
<1> QED
  BY <1>3, <1>4, <1>5, <1>6 DEF LauncherInv


-----------------------------------------------------------------------------
(* The launcher that moves. *)

\* The sets of points, listed for the provers.
LEMMA Points ==
  /\ Body \cap {"contain", "note", "escalate", "close", "done", "returned-item", "raised",
                "refused", "crashed"} = {}
  /\ Past = Body \ {"new", "baseline"}
  /\ \A point \in Point : point \in Body \/ point \in HandlerPoint \/ point \in EndPoint
BY DEF Past, Body, AppendPoint, CallPoint, Point, HandlerPoint, EndPoint

\* What a launcher knows of its sessions survives a move that creates none,
\* given what led to the new point.
LEMMA QuietNoted ==
  ASSUME TransactionTypes, NEW l \in Launcher, Frame(l), Noted(l),
         sessions' = sessions, tx'[l].ordinal = tx[l].ordinal,
         tx'[l].pc \in Body => tx'[l].attempts = tx[l].attempts /\ tx[l].pc \in Body,
         tx'[l].pc \in {"new", "baseline"} => tx[l].pc \in {"new", "baseline"},
         tx'[l].pc \in {"claim", "start"} =>
           tx[l].pc \in {"claim", "start"} \/ tx[l].ordinal \in Log(l)'.intents,
         tx'[l].pc \in {"spent", "bound", "counted"} => tx[l].pc \in {"spent", "bound"},
         tx'[l].pc = "bind" => tx[l].ordinal # 0,
         tx'[l].pc \in Armed => tx[l].pc \in Armed \cup {"bind"},
         tx'[l].ran => tx[l].ran \/ tx[l].pc \in Armed
  PROVE  Noted(l)'
<1>1. /\ plan' = plan /\ plan[l].txn \in Transaction
      /\ Log(l).intents \subseteq Log(l)'.intents
      /\ Created(l)' <=> Created(l)
  BY DEF Frame, Log, Created, TransactionTypes, Plan
<1>2. tx[l].pc = "bind" => Created(l)
  <2>1. "bind" \in Body
    BY DEF Body, CallPoint
  <2>2. tx[l].attempts \subseteq Nat
    BY DEF TransactionTypes, Tx
  <2> QED
    BY <2>1, <2>2 DEF Noted, Created
<1>3. Log(l)'.intents = journal'[plan[l].txn].intents
  BY <1>1 DEF Log
<1>4. tx[l].pc \in {"spent", "bound"} => tx[l].pc \in Body
  BY DEF Body, AppendPoint
<1>5. tx'[l].pc \in Body => \A k \in Nat : <<l, k>> \in sessions' <=> k \in tx'[l].attempts
  BY DEF Noted
<1>6. tx'[l].pc \in {"new", "baseline"} => tx'[l].attempts = {}
  <2>1. {"new", "baseline"} \subseteq Body
    BY DEF Body, CallPoint
  <2> QED
    BY <2>1 DEF Noted
<1>7. /\ tx'[l].pc \in {"claim", "start"} => tx'[l].ordinal \in Log(l)'.intents
      /\ \A k \in Nat : <<l, k>> \in sessions' => k \in Log(l)'.intents
  BY <1>1 DEF Noted
<1>8. tx'[l].pc \in Body /\ (tx'[l].ordinal # 0 \/ tx'[l].pc \in {"spent", "bound", "counted"}) =>
        tx'[l].attempts # {}
  BY <1>4 DEF Noted
<1>9. /\ tx'[l].pc = "bind" => tx'[l].ordinal # 0
      /\ tx'[l].pc \in Armed \/ tx'[l].ran => Created(l)'
  BY <1>1, <1>2 DEF Noted
<1> QED
  BY <1>5, <1>6, <1>7, <1>8, <1>9 DEF Noted

\* Every move of a launcher keeps what it knows of its sessions.
LEMMA NotedKept ==
  ASSUME TransactionTypes, NEW l \in Launcher, Step(l) \/ Fault(l), Frame(l), Noted(l)
  PROVE  Noted(l)'
<1> DEFINE r == tx[l]
<1>0. /\ r \in Tx /\ r.pc \in Point /\ r.ordinal \in Nat /\ r.attempts \in SUBSET Nat
      /\ tx \in [Launcher -> Tx]
      /\ plan[l].preludes \in Nat /\ plan[l].workers \in Nat \ {0}
      /\ plan' = plan /\ plan[l].txn \in Transaction
  BY DEF TransactionTypes, Tx, Plan, Frame
<1>1. ASSUME NEW s \in Tx, Set(l, s) PROVE tx'[l] = s
  BY <1>0, <1>1 DEF Set
<1>2. ASSUME NEW point, Goto(l, point)
      PROVE  /\ tx'[l].pc = point /\ tx'[l].attempts = r.attempts
             /\ tx'[l].ordinal = r.ordinal /\ tx'[l].ran = r.ran
  BY <1>0, <1>2 DEF Goto, Set, Tx
<1>3. ASSUME NEW s \in Tx, NEW error \in {"protected", "item", "other"}, Set(l, Failed(s, error)),
             s.ordinal = r.ordinal, sessions' = sessions, s.ran => r.ran \/ r.pc \in Armed
      PROVE  Noted(l)'
  <2>1. tx'[l] = Failed(s, error) /\ tx'[l].pc \in {"contain", "note", "close"}
    BY <1>1, <1>3, FailedShape
  <2> QED
    BY <1>3, <2>1, FailedShape, QuietNoted DEF Body, AppendPoint, CallPoint, Armed
<1>4. CASE Open(l)
  BY <1>2, <1>4, QuietNoted DEF Open, Body, CallPoint, AppendPoint, Armed
<1>5. CASE Baseline(l)
  BY <1>2, <1>5, QuietNoted DEF Baseline, Body, CallPoint, AppendPoint, Armed
<1>6. CASE ReadCurrentState(l)
  <2>1. /\ tx'[l].pc = r.pc /\ tx'[l].attempts = r.attempts
        /\ tx'[l].ordinal = r.ordinal /\ tx'[l].ran = r.ran
    BY <1>0, <1>6 DEF ReadCurrentState, Set, Tx
  <2> QED
    BY <1>6, <2>1, QuietNoted DEF ReadCurrentState, Body, CallPoint, AppendPoint, Armed
<1>7. CASE AppendEvent(l)
  <2>1. r.pc \in AppendPoint /\ Write(l) /\ Set(l, Moved(l)) /\ sessions' = sessions
    BY <1>7 DEF AppendEvent
  <2>2. tx'[l].pc = NextPoint(l)[r.pc] /\ tx'[l].attempts = r.attempts
          /\ tx'[l].ordinal = r.ordinal /\ tx'[l].ran = r.ran
    BY <1>0, <2>1 DEF Set, Moved, Tx
  <2>3. r.pc = "intent" => r.ordinal \in Log(l)'.intents
    BY <1>0, <2>1, WriteShape DEF WritePoint, Log
  <2>4. /\ NextPoint(l)[r.pc] \in Body \ {"new", "baseline", "bind", "spent"}
        /\ NextPoint(l)[r.pc] \in {"claim", "start"} => r.pc = "intent"
        /\ NextPoint(l)[r.pc] \in {"bound", "counted"} => r.pc \in {"spent", "bound"}
        /\ NextPoint(l)[r.pc] \in Armed => r.pc \in Armed
    BY <2>1 DEF NextPoint, AppendPoint, Body, CallPoint, Armed
  <2>5. r.pc \in Body
    BY <2>1 DEF Body
  <2> QED
    BY <2>1, <2>2, <2>3, <2>4, <2>5, QuietNoted
<1>8. CASE CountMismatch(l)
  <2>1. PICK u \in SUBSET Nat : Set(l, Failed([r EXCEPT !.attempts = @ \cup u], "other"))
    <3>1. Unaccounted(plan[l]) \in Nat
      BY <1>0 DEF Unaccounted, Sessions
    <3> QED
      BY <1>8, <3>1 DEF CountMismatch
  <2>2. /\ [r EXCEPT !.attempts = @ \cup u] \in Tx
        /\ [r EXCEPT !.attempts = @ \cup u].ordinal = r.ordinal
        /\ [r EXCEPT !.attempts = @ \cup u].ran = r.ran
    BY <1>0 DEF Tx
  <2> QED
    BY <1>3, <1>8, <2>1, <2>2 DEF CountMismatch
<1>9. CASE Prepare(l)
  <2>1. AfterSession(plan[l], 0) \in {"prelude", "release"}
    BY <1>0 DEF AfterSession, Sessions
  <2> QED
    BY <1>2, <1>9, <2>1, QuietNoted DEF Prepare, Body, CallPoint, AppendPoint, Armed
<1>10. CASE Prelude(l)
  BY <1>2, <1>10, QuietNoted DEF Prelude, Body, CallPoint, AppendPoint, Armed
<1>11. CASE Claim(l)
  <2>1. CASE Goto(l, "start")
    BY <1>2, <1>11, <2>1, QuietNoted DEF Claim, Body, CallPoint, AppendPoint, Armed
  <2> QED
    BY <1>0, <1>3, <1>11, <2>1 DEF Claim
<1>12. CASE Start(l)
  <2> DEFINE noted == [r EXCEPT !.attempts = @ \cup {r.ordinal}]
  <2>1. noted \in Tx /\ noted.ordinal = r.ordinal /\ noted.ran = r.ran /\ noted.pc = r.pc
          /\ noted.attempts = r.attempts \cup {r.ordinal}
    BY <1>0 DEF Tx
  <2>2. r.pc = "start" /\ r.pc \in Body /\ r.ordinal \in Log(l).intents
    BY <1>12 DEF Start, Body, CallPoint, Noted
  <2>3. Log(l)' = Log(l)
    BY <1>0, <1>12 DEF Start, Log
  <2>4. CASE sessions' = sessions /\ \E error \in {"protected", "item", "other"} : Set(l, Failed(noted, error))
    BY <1>3, <2>1, <2>4
  <2>5. CASE sessions' = sessions \cup {<<l, r.ordinal>>}
    <3>1. \A k \in Nat : <<l, k>> \in sessions' <=> k \in noted.attempts
      BY <1>0, <2>1, <2>2, <2>5 DEF Noted
    <3>2. \A k \in Nat : <<l, k>> \in sessions' => k \in Log(l)'.intents
      BY <1>0, <2>2, <2>3, <2>5 DEF Noted
    <3>3. Created(l)'
      BY <1>0, <2>5 DEF Created
    <3>4. \/ /\ tx'[l].pc \in {"contain", "note", "close"}
          \/ /\ tx'[l].pc \in {"spent", "bound"}
             /\ tx'[l].attempts = noted.attempts
      <4>1. ASSUME NEW error \in {"protected", "item", "other"}, Set(l, Failed(noted, error))
            PROVE  tx'[l].pc \in {"contain", "note", "close"}
        BY <1>1, <2>1, <4>1, FailedShape
      <4>2. ASSUME NEW point \in {"spent", "bound"}, Set(l, [noted EXCEPT !.pc = point])
            PROVE  tx'[l].pc \in {"spent", "bound"} /\ tx'[l].attempts = noted.attempts
        BY <1>0, <2>1, <4>2 DEF Set, Tx
      <4> QED
        BY <1>12, <4>1, <4>2 DEF Start
    <3>5. noted.attempts # {}
      BY <2>1
    <3> QED
      BY <3>1, <3>2, <3>3, <3>4, <3>5 DEF Noted, Body, AppendPoint, CallPoint
  <2> QED
    BY <1>12, <2>4, <2>5 DEF Start
<1>13. CASE SessionCounted(l)
  <2> DEFINE k == r.ordinal + 1
  <2>1. /\ tx'[l].pc = AfterSession(plan[l], k) /\ tx'[l].attempts = r.attempts
        /\ tx'[l].ordinal = k /\ tx'[l].ran = r.ran
    BY <1>0, <1>13 DEF SessionCounted, Set, Tx
  <2>2. AfterSession(plan[l], k) \in {"prelude", "release", "worker", "bind"} /\ k # 0
    BY <1>0 DEF AfterSession
  <2>3. r.pc = "counted" /\ r.pc \in Body /\ sessions' = sessions /\ Log(l)' = Log(l)
    BY <1>0, <1>13 DEF SessionCounted, Body, CallPoint, Log
  <2>4. Created(l)' <=> Created(l)
    BY <2>3 DEF Created
  <2> QED
    BY <2>1, <2>2, <2>3, <2>4 DEF Noted, Armed, Body, CallPoint
<1>14. CASE Release(l)
  BY <1>2, <1>14, QuietNoted DEF Release, Body, CallPoint, AppendPoint, Armed
<1>15. CASE Worker(l)
  BY <1>2, <1>15, QuietNoted DEF Worker, Body, CallPoint, AppendPoint, Armed
<1>16. CASE Refresh(l)
  BY <1>2, <1>16, QuietNoted DEF Refresh, Body, CallPoint, AppendPoint, Armed
<1>17. CASE Bind(l)
  BY <1>2, <1>17, QuietNoted DEF Bind, Body, CallPoint, AppendPoint, Armed
<1>18. CASE RunPool(l)
  <2> DEFINE begun == [r EXCEPT !.ran = TRUE]
  <2>1. begun \in Tx /\ begun.ordinal = r.ordinal
    BY <1>0 DEF Tx
  <2>2. r.pc = "run" /\ r.pc \in Armed /\ sessions' = sessions
    BY <1>18 DEF RunPool, Armed
  <2>3. CASE Set(l, [begun EXCEPT !.pc = "returned"])
    <3>1. tx'[l].pc = "returned" /\ tx'[l].attempts = r.attempts /\ tx'[l].ordinal = r.ordinal
      BY <1>0, <2>3 DEF Set, Tx
    <3> QED
      BY <2>2, <3>1, QuietNoted DEF Body, CallPoint, AppendPoint, Armed
  <2>4. CASE \E error \in Raisable("run") : Set(l, Failed(begun, error))
    BY <1>3, <2>1, <2>2, <2>4 DEF Raisable
  <2> QED
    BY <1>18, <2>3, <2>4 DEF RunPool
<1>19. CASE Returned(l)
  BY <1>2, <1>19, QuietNoted DEF Returned, Body, CallPoint, AppendPoint, Armed
<1>20. CASE \E accepted \in BOOLEAN : Validate(l, accepted)
  <2>1. /\ tx'[l].pc = "observe" /\ tx'[l].attempts = r.attempts
        /\ tx'[l].ordinal = r.ordinal /\ tx'[l].ran = r.ran
    BY <1>0, <1>20 DEF Validate, Set, Tx
  <2> QED
    BY <1>20, <2>1, QuietNoted DEF Validate, Body, CallPoint, AppendPoint, Armed
<1>21. CASE Observe(l)
  BY <1>2, <1>21, QuietNoted DEF Observe, Body, CallPoint, AppendPoint, Armed
<1>22. CASE Report(l)
  BY <1>2, <1>22, QuietNoted DEF Report, Body, CallPoint, AppendPoint, Armed
<1>23. CASE Contain(l)
  <2>1. tx'[l].pc = "note" /\ tx'[l].ordinal = r.ordinal /\ tx'[l].ran = r.ran /\ sessions' = sessions
    <3>1. ASSUME NEW c, Set(l, [r EXCEPT !.containment = c, !.pc = "note"])
          PROVE  tx'[l].pc = "note" /\ tx'[l].ordinal = r.ordinal /\ tx'[l].ran = r.ran
      BY <1>0, <3>1 DEF Set, Tx
    <3> QED
      BY <1>23, <3>1 DEF Contain
  <2> QED
    BY <2>1, QuietNoted DEF Body, CallPoint, AppendPoint, Armed
<1>24. CASE Note(l)
  <2>1. tx'[l].pc \in {"escalate", "close"} /\ tx'[l].ordinal = r.ordinal /\ tx'[l].ran = r.ran
          /\ sessions' = sessions
    BY <1>0, <1>24 DEF Note, AfterNote, Set, Tx
  <2> QED
    BY <2>1, QuietNoted DEF Body, CallPoint, AppendPoint, Armed
<1>25. CASE Close(l)
  <2>1. tx'[l].pc \in {"returned-item", "raised"} /\ tx'[l].ordinal = r.ordinal
          /\ tx'[l].ran = r.ran /\ sessions' = sessions
    <3>1. ASSUME NEW st, NEW point, Set(l, [r EXCEPT !.state = st, !.pc = point])
          PROVE  tx'[l].pc = point /\ tx'[l].ordinal = r.ordinal /\ tx'[l].ran = r.ran
      BY <1>0, <3>1 DEF Set, Tx
    <3>2. Exit(r) \in {"returned-item", "raised"}
      BY DEF Exit
    <3> QED
      BY <1>25, <3>1, <3>2 DEF Close
  <2> QED
    BY <2>1, QuietNoted DEF Body, CallPoint, AppendPoint, Armed
<1>26. CASE CloseUnrecorded(l)
  BY <1>2, <1>26, QuietNoted DEF CloseUnrecorded, Exit, Body, CallPoint, AppendPoint, Armed
<1>27. CASE \E error \in {"protected", "item", "other"} : Raise(l, error)
  BY <1>0, <1>3, <1>27 DEF Raise
<1>28. CASE AppendLate(l)
  BY <1>0, <1>3, <1>28 DEF AppendLate
<1>29. CASE HandlerFails(l)
  BY <1>2, <1>29, QuietNoted DEF HandlerFails, Body, CallPoint, AppendPoint, Armed
<1>30. CASE Crash(l)
  BY <1>2, <1>30, QuietNoted DEF Crash, Body, CallPoint, AppendPoint, Armed
<1> QED
  BY <1>4, <1>5, <1>6, <1>7, <1>8, <1>9, <1>10, <1>11, <1>12, <1>13, <1>14, <1>15, <1>16,
     <1>17, <1>18, <1>19, <1>20, <1>21, <1>22, <1>23, <1>24, <1>25, <1>26, <1>27, <1>28,
     <1>29, <1>30 DEF Step, Fault

\* A launcher goes on in the body of the transaction, on its own.
Advance(l) ==
  /\ journal' = journal /\ sessions' = sessions /\ open' = open /\ slipped' = slipped
  /\ owner' = owner \/ owner' = l
  /\ tx[l].pc \in (CallPoint \ {"report"}) \cup {"intent", "spent", "bound"}
  /\ tx'[l].pc \in Body \ {"new", "baseline", "report"}
  /\ tx[l].pc = "baseline" => tx'[l].pc = "prepared" /\ Observed = plan[l].before
  /\ tx'[l].pc \in {"start", "spent", "bound", "counted"} => tx'[l].pc = tx[l].pc \/ owner' = l
  /\ tx'[l].pc \in Armed => tx[l].pc = "bind" /\ Counted(l)
  /\ tx'[l].state = tx[l].state
  /\ tx'[l].ordinal = tx[l].ordinal \/ tx[l].pc = "counted"
  /\ tx'[l].ran => tx[l].ran \/ tx[l].pc \in Armed
  /\ \/ tx[l].pc \in CallPoint /\ tx'[l].seen = tx[l].seen
     \/ /\ tx'[l].pc = tx[l].pc /\ tx[l].pc \in {"intent", "spent", "bound"}
        /\ tx'[l].seen = IF Log(l).last = "none" THEN "RESERVED" ELSE Log(l).last

\* A launcher meets an exception; it forgets an event only in a transaction
\* that is noted as slipped.
Stop(l) ==
  /\ sessions' = sessions /\ open' = open
  /\ owner' = owner \/ owner' = l
  /\ tx[l].pc \in AppendPoint \cup CallPoint
  /\ tx'[l].pc \in {"contain", "note", "close"}
  /\ tx[l].attempts # {} => tx'[l].pc = "contain"
  /\ tx'[l].state = tx[l].state /\ tx'[l].ordinal = tx[l].ordinal
  /\ tx'[l].ran => tx[l].ran \/ tx[l].pc \in Armed
  /\ \/ journal' = journal /\ slipped' = slipped /\ tx[l].pc # "report"
     \/ plan[l].txn \in slipped'

\* The kinds of step.
LEMMA Kinds ==
  ASSUME TransactionTypes, NEW l \in Launcher, Step(l) \/ Fault(l)
  PROVE  \/ Advance(l) \/ Stop(l) \/ Start(l) \/ AppendEvent(l)
         \/ Open(l) \/ Report(l) \/ Contain(l) \/ Note(l) \/ Close(l) \/ CloseUnrecorded(l)
         \/ HandlerFails(l) \/ Crash(l)
<1> DEFINE r == tx[l]
<1>0. /\ r \in Tx /\ tx \in [Launcher -> Tx] /\ r.attempts \in SUBSET Nat /\ r.ordinal \in Nat
      /\ plan[l].preludes \in Nat /\ plan[l].workers \in Nat \ {0}
  BY DEF TransactionTypes, Tx, Plan
<1>1. ASSUME NEW s \in Tx, Set(l, s) PROVE tx'[l] = s
  BY <1>0, <1>1 DEF Set
<1>2. ASSUME NEW point, Goto(l, point)
      PROVE  /\ tx'[l].pc = point /\ tx'[l].state = r.state /\ tx'[l].seen = r.seen
             /\ tx'[l].ordinal = r.ordinal /\ tx'[l].ran = r.ran
  BY <1>0, <1>2 DEF Goto, Set, Tx
<1>3. ASSUME NEW s \in Tx, NEW error \in {"protected", "item", "other"}, Set(l, Failed(s, error)),
             r.pc \in AppendPoint \cup CallPoint, r.attempts \subseteq s.attempts,
             s.ordinal = r.ordinal, s.state = r.state, s.ran => r.ran \/ r.pc \in Armed,
             sessions' = sessions, open' = open, owner' = owner \/ owner' = l,
             \/ journal' = journal /\ slipped' = slipped /\ r.pc # "report"
             \/ plan[l].txn \in slipped'
      PROVE  Stop(l)
  <2>1. Failed(s, error) \in Tx
    BY FailedShape
  <2>2. tx'[l] = Failed(s, error)
    BY <1>1, <1>3, <2>1
  <2>3. r.attempts # {} => s.attempts # {}
    BY <1>3
  <2> QED
    BY <1>3, <2>2, <2>3, FailedShape DEF Stop
<1>4. CASE Baseline(l)
  BY <1>2, <1>4 DEF Baseline, Advance, Body, AppendPoint, CallPoint, Armed
<1>5. CASE ReadCurrentState(l)
  <2>1. /\ tx'[l].pc = r.pc /\ tx'[l].state = r.state /\ tx'[l].ordinal = r.ordinal
        /\ tx'[l].ran = r.ran
        /\ tx'[l].seen = IF Log(l).last = "none" THEN "RESERVED" ELSE Log(l).last
    <3>1. ASSUME NEW st, Set(l, [r EXCEPT !.seen = st])
          PROVE  /\ tx'[l].pc = r.pc /\ tx'[l].state = r.state /\ tx'[l].ordinal = r.ordinal
                 /\ tx'[l].ran = r.ran /\ tx'[l].seen = st
      BY <1>0, <3>1 DEF Set, Tx
    <3> QED
      BY <1>5, <3>1 DEF ReadCurrentState
  <2> QED
    BY <1>5, <2>1 DEF ReadCurrentState, Advance, Body, AppendPoint, Armed
<1>6. CASE CountMismatch(l)
  <2>1. PICK u \in SUBSET Nat : Set(l, Failed([r EXCEPT !.attempts = @ \cup u], "other"))
    <3>1. Unaccounted(plan[l]) \in Nat
      BY <1>0 DEF Unaccounted, Sessions
    <3> QED
      BY <1>6, <3>1 DEF CountMismatch
  <2> DEFINE s == [r EXCEPT !.attempts = @ \cup u]
  <2>2. /\ s \in Tx /\ s.ordinal = r.ordinal /\ s.ran = r.ran /\ s.state = r.state
        /\ r.attempts \subseteq s.attempts
    BY <1>0 DEF Tx
  <2>3. /\ r.pc \in CallPoint /\ r.pc # "report"
        /\ sessions' = sessions /\ open' = open /\ owner' = owner
        /\ journal' = journal /\ slipped' = slipped
    BY <1>6 DEF CountMismatch, CallPoint
  <2> HIDE DEF s
  <2>4. Set(l, Failed(s, "other"))
    BY <2>1 DEF s
  <2> QED
    BY <1>3, <2>2, <2>3, <2>4
<1>7. CASE Prepare(l)
  <2>1. AfterSession(plan[l], 0) \in {"prelude", "release"}
    BY <1>0 DEF AfterSession, Sessions
  <2> QED
    BY <1>2, <1>7, <2>1 DEF Prepare, Advance, Body, CallPoint, Armed
<1>8. CASE Prelude(l)
  BY <1>2, <1>8 DEF Prelude, Advance, Body, AppendPoint, CallPoint, Armed
<1>9. CASE Claim(l)
  <2>1. /\ r.pc = "claim" /\ owner' = l /\ r.pc \in CallPoint
        /\ sessions' = sessions /\ open' = open /\ journal' = journal /\ slipped' = slipped
    BY <1>9 DEF Claim, CallPoint
  <2>2. CASE Goto(l, "start")
    BY <1>2, <2>1, <2>2 DEF Advance, Body, CallPoint, Armed
  <2>3. CASE \E error \in {"protected", "other"} : Set(l, Failed(r, error))
    BY <1>0, <1>3, <2>1, <2>3
  <2> QED
    BY <1>9, <2>2, <2>3 DEF Claim
<1>10. CASE SessionCounted(l)
  <2>1. /\ tx'[l].pc = AfterSession(plan[l], r.ordinal + 1) /\ tx'[l].state = r.state
        /\ tx'[l].seen = r.seen /\ tx'[l].ran = r.ran
    <3>1. ASSUME NEW k, NEW point, Set(l, [r EXCEPT !.ordinal = k, !.pc = point])
          PROVE  /\ tx'[l].pc = point /\ tx'[l].state = r.state
                 /\ tx'[l].seen = r.seen /\ tx'[l].ran = r.ran
      BY <1>0, <3>1 DEF Set, Tx
    <3> QED
      BY <1>10, <3>1 DEF SessionCounted
  <2>2. AfterSession(plan[l], r.ordinal + 1) \in {"prelude", "release", "worker", "bind"}
    BY DEF AfterSession
  <2> QED
    BY <1>10, <2>1, <2>2 DEF SessionCounted, Advance, Body, CallPoint, Armed
<1>11. CASE Release(l)
  BY <1>2, <1>11 DEF Release, Advance, Body, AppendPoint, CallPoint, Armed
<1>12. CASE Worker(l)
  BY <1>2, <1>12 DEF Worker, Advance, Body, AppendPoint, CallPoint, Armed
<1>13. CASE Refresh(l)
  BY <1>2, <1>13 DEF Refresh, Advance, Body, AppendPoint, CallPoint, Armed
<1>14. CASE Bind(l)
  BY <1>2, <1>14 DEF Bind, Advance, Body, AppendPoint, CallPoint, Armed
<1>15. CASE RunPool(l)
  <2> DEFINE begun == [r EXCEPT !.ran = TRUE]
  <2>1. /\ r.pc = "run" /\ r.pc \in CallPoint \cap Armed /\ owner' = owner
        /\ sessions' = sessions /\ open' = open /\ journal' = journal /\ slipped' = slipped
    BY <1>15 DEF RunPool, CallPoint, Armed
  <2>2. CASE Set(l, [begun EXCEPT !.pc = "returned"])
    <3>1. /\ tx'[l].pc = "returned" /\ tx'[l].state = r.state /\ tx'[l].seen = r.seen
          /\ tx'[l].ordinal = r.ordinal
      BY <1>0, <2>2 DEF Set, Tx
    <3> QED
      BY <2>1, <3>1 DEF Advance, Body, CallPoint, Armed
  <2>3. CASE \E error \in Raisable("run") : Set(l, Failed(begun, error))
    <3>1. /\ begun \in Tx /\ begun.ordinal = r.ordinal /\ begun.state = r.state
          /\ r.attempts \subseteq begun.attempts
      BY <1>0 DEF Tx
    <3>2. \E error \in {"protected", "item", "other"} : Set(l, Failed(begun, error))
      BY <2>3 DEF Raisable
    <3> HIDE DEF begun
    <3> QED
      BY <1>3, <2>1, <3>1, <3>2
  <2> QED
    BY <1>15, <2>2, <2>3 DEF RunPool
<1>16. CASE Returned(l)
  BY <1>2, <1>16 DEF Returned, Advance, Body, AppendPoint, CallPoint, Armed
<1>17. CASE \E accepted \in BOOLEAN : Validate(l, accepted)
  <2>1. /\ tx'[l].pc = "observe" /\ tx'[l].state = r.state /\ tx'[l].seen = r.seen
        /\ tx'[l].ordinal = r.ordinal /\ tx'[l].ran = r.ran
    <3>1. ASSUME NEW a, Set(l, [r EXCEPT !.accepted = a, !.pc = "observe"])
          PROVE  /\ tx'[l].pc = "observe" /\ tx'[l].state = r.state /\ tx'[l].seen = r.seen
                 /\ tx'[l].ordinal = r.ordinal /\ tx'[l].ran = r.ran
      BY <1>0, <3>1 DEF Set, Tx
    <3> QED
      BY <1>17, <3>1 DEF Validate
  <2> QED
    BY <1>17, <2>1 DEF Validate, Advance, Body, CallPoint, Armed
<1>18. CASE Observe(l)
  BY <1>2, <1>18 DEF Observe, Advance, Body, AppendPoint, CallPoint, Armed
<1>19. CASE \E error \in {"protected", "item", "other"} : Raise(l, error)
  <2>1. PICK error \in {"protected", "item", "other"} : Raise(l, error)
    BY <1>19
  <2>2. \/ slipped' = slipped /\ r.pc # "report"
        \/ plan[l].txn \in slipped'
    BY <2>1 DEF Raise
  <2> QED
    BY <1>0, <1>3, <2>1, <2>2 DEF Raise
<1>20. CASE AppendLate(l)
  <2>1. /\ r.pc \in AppendPoint /\ Set(l, Failed(r, "other")) /\ plan[l].txn \in slipped'
        /\ owner' = owner /\ sessions' = sessions /\ open' = open
    BY <1>20 DEF AppendLate
  <2> QED
    BY <1>0, <1>3, <2>1
<1> QED
  BY <1>4, <1>5, <1>6, <1>7, <1>8, <1>9, <1>10, <1>11, <1>12, <1>13, <1>14, <1>15, <1>16,
     <1>17, <1>18, <1>19, <1>20 DEF Step, Fault

\* What the steps at the beginning and at the end of a launch have in common.
LEMMA EndShape ==
  ASSUME TransactionTypes, NEW l \in Launcher,
         \/ Open(l) \/ Report(l) \/ Contain(l) \/ Note(l) \/ Close(l) \/ CloseUnrecorded(l)
         \/ HandlerFails(l) \/ Crash(l)
  PROVE  /\ sessions' = sessions /\ owner' = owner
         /\ tx'[l].ordinal = tx[l].ordinal /\ tx'[l].ran = tx[l].ran
         /\ tx'[l].seen = tx[l].seen
         /\ tx'[l].pc \in {"baseline", "refused", "done", "note", "escalate", "close",
                           "returned-item", "raised", "crashed"}
         /\ tx'[l].pc = "baseline" => tx[l].pc = "new"
         /\ \/ Contain(l)
            \/ open' = open /\ tx'[l].containment = tx[l].containment
         /\ tx'[l].pc \in {"refused", "note", "escalate", "close", "returned-item", "raised"} =>
              Contain(l) \/ tx[l].pc \in {"new", "note", "escalate", "close"}
         /\ tx'[l].pc \in HandlerPoint => tx[l].pc \in HandlerPoint
         /\ Close(l) \/ tx'[l].state = tx[l].state
<1> DEFINE r == tx[l]
<1>0. r \in Tx /\ tx \in [Launcher -> Tx]
  BY DEF TransactionTypes
<1>1. ASSUME NEW point, Goto(l, point)
      PROVE  /\ tx'[l].pc = point /\ tx'[l].state = r.state /\ tx'[l].seen = r.seen
             /\ tx'[l].ordinal = r.ordinal /\ tx'[l].ran = r.ran
             /\ tx'[l].containment = r.containment
  BY <1>0, <1>1 DEF Goto, Set, Tx
<1>2. Exit(r) \in {"returned-item", "raised"}
  BY DEF Exit
<1>3. CASE Open(l)
  BY <1>1, <1>3 DEF Open, HandlerPoint
<1>4. CASE Report(l)
  BY <1>1, <1>4 DEF Report, HandlerPoint
<1>5. CASE Contain(l)
  <2>1. ASSUME NEW c, Set(l, [r EXCEPT !.containment = c, !.pc = "note"])
        PROVE  /\ tx'[l].pc = "note" /\ tx'[l].state = r.state /\ tx'[l].seen = r.seen
               /\ tx'[l].ordinal = r.ordinal /\ tx'[l].ran = r.ran
    BY <1>0, <2>1 DEF Set, Tx
  <2>2. /\ tx'[l].pc = "note" /\ tx'[l].state = r.state /\ tx'[l].seen = r.seen
        /\ tx'[l].ordinal = r.ordinal /\ tx'[l].ran = r.ran
    BY <1>5, <2>1 DEF Contain
  <2>3. r.pc = "contain" /\ sessions' = sessions /\ owner' = owner
    BY <1>5 DEF Contain
  <2> QED
    BY <1>5, <2>2, <2>3 DEF HandlerPoint
<1>6. CASE Note(l)
  <2>1. /\ tx'[l].pc \in {"escalate", "close"} /\ tx'[l].state = r.state /\ tx'[l].seen = r.seen
        /\ tx'[l].ordinal = r.ordinal /\ tx'[l].ran = r.ran /\ tx'[l].containment = r.containment
    <3>1. ASSUME NEW point, NEW error, Set(l, [r EXCEPT !.pc = point, !.error = error])
          PROVE  /\ tx'[l].pc = point /\ tx'[l].state = r.state /\ tx'[l].seen = r.seen
                 /\ tx'[l].ordinal = r.ordinal /\ tx'[l].ran = r.ran
                 /\ tx'[l].containment = r.containment
      BY <1>0, <3>1 DEF Set, Tx
    <3>2. \/ Set(l, [r EXCEPT !.pc = "close", !.error = "other"])
          \/ Goto(l, "escalate")
          \/ Goto(l, "close")
      BY <1>6 DEF Note, AfterNote, Goto
    <3> QED
      BY <1>1, <3>1, <3>2
  <2> QED
    BY <1>6, <2>1 DEF Note, HandlerPoint
<1>7. CASE Close(l)
  <2>1. ASSUME NEW st, NEW point, Set(l, [r EXCEPT !.state = st, !.pc = point])
        PROVE  /\ tx'[l].pc = point /\ tx'[l].seen = r.seen
               /\ tx'[l].ordinal = r.ordinal /\ tx'[l].ran = r.ran
               /\ tx'[l].containment = r.containment
    BY <1>0, <2>1 DEF Set, Tx
  <2>2. /\ tx'[l].pc = Exit(r) /\ tx'[l].seen = r.seen
        /\ tx'[l].ordinal = r.ordinal /\ tx'[l].ran = r.ran
        /\ tx'[l].containment = r.containment
    BY <1>7, <2>1 DEF Close
  <2>3. r.pc = "close" /\ sessions' = sessions /\ owner' = owner /\ open' = open
    BY <1>7 DEF Close
  <2> QED
    BY <1>2, <1>7, <2>2, <2>3 DEF HandlerPoint
<1>8. CASE CloseUnrecorded(l)
  BY <1>1, <1>2, <1>8 DEF CloseUnrecorded, HandlerPoint
<1>9. CASE HandlerFails(l)
  BY <1>1, <1>9 DEF HandlerFails, HandlerPoint
<1>10. CASE Crash(l)
  BY <1>1, <1>10 DEF Crash, HandlerPoint
<1> QED
  BY <1>3, <1>4, <1>5, <1>6, <1>7, <1>8, <1>9, <1>10

\* What an append in the body leads to.
LEMMA AppendShape ==
  ASSUME TransactionTypes, NEW l \in Launcher, AppendEvent(l)
  PROVE  /\ sessions' = sessions /\ open' = open /\ owner' = owner /\ slipped' = slipped
         /\ tx[l].pc \in AppendPoint /\ tx[l].pc \in Body /\ Write(l)
         /\ tx'[l].pc \in Body \ {"new", "baseline", "prepared", "bind"}
         /\ tx'[l].pc \in {"start", "spent", "bound", "counted"} =>
              \/ tx[l].pc \in {"spent", "bound"}
              \/ tx[l].pc = "intent" /\ ~(plan[l].recovery /\ tx[l].ordinal = 0)
         /\ tx'[l].pc \in Armed => tx[l].pc \in Armed
         /\ tx'[l].pc = "report" <=> tx[l].pc = "terminal"
         /\ tx'[l].ordinal = tx[l].ordinal /\ tx'[l].ran = tx[l].ran
         /\ tx'[l].seen = "none"
         /\ tx'[l].state = IF tx[l].pc \in {"intent", "spent", "bound"}
                           THEN tx[l].state ELSE Event(tx[l]).state
<1> DEFINE r == tx[l]
<1>0. r \in Tx /\ tx \in [Launcher -> Tx]
  BY DEF TransactionTypes
<1>1. /\ r.pc \in AppendPoint /\ Write(l) /\ Set(l, Moved(l))
      /\ sessions' = sessions /\ open' = open /\ owner' = owner /\ slipped' = slipped
  BY DEF AppendEvent
<1>2. ASSUME NEW point, NEW st, Set(l, [r EXCEPT !.pc = point, !.state = st, !.seen = "none"])
      PROVE  /\ tx'[l].pc = point /\ tx'[l].state = st /\ tx'[l].seen = "none"
             /\ tx'[l].ordinal = r.ordinal /\ tx'[l].ran = r.ran
  BY <1>0, <1>2 DEF Set, Tx
<1>3. /\ tx'[l].pc = NextPoint(l)[r.pc]
      /\ tx'[l].state = IF r.pc \in {"intent", "spent", "bound"} THEN r.state ELSE Event(r).state
      /\ tx'[l].seen = "none" /\ tx'[l].ordinal = r.ordinal /\ tx'[l].ran = r.ran
  BY <1>1, <1>2 DEF Moved
<1>4. /\ NextPoint(l)[r.pc] \in Body \ {"new", "baseline", "prepared", "bind"}
      /\ NextPoint(l)[r.pc] \in {"start", "spent", "bound", "counted"} =>
           \/ r.pc \in {"spent", "bound"}
           \/ r.pc = "intent" /\ ~(plan[l].recovery /\ r.ordinal = 0)
      /\ NextPoint(l)[r.pc] \in Armed => r.pc \in Armed
      /\ NextPoint(l)[r.pc] = "report" <=> r.pc = "terminal"
  BY <1>1 DEF NextPoint, AppendPoint, Body, CallPoint, Armed
<1> QED
  BY <1>1, <1>3, <1>4 DEF Body

\* What the call of a session starter leads to: its attempt is noted, so an
\* exception leads to containment.
LEMMA StartShape ==
  ASSUME TransactionTypes, NEW l \in Launcher, Start(l)
  PROVE  /\ tx[l].pc = "start" /\ owner' = owner /\ slipped' = slipped /\ journal' = journal
         /\ tx'[l].pc \in {"contain", "spent", "bound"}
         /\ tx'[l].state = tx[l].state
         /\ tx'[l].ordinal = tx[l].ordinal /\ tx'[l].ran = tx[l].ran
         /\ tx'[l].pc \in Body => tx'[l].seen = tx[l].seen
         /\ sessions' = sessions \/ sessions' = sessions \cup {<<l, tx[l].ordinal>>}
<1> DEFINE r == tx[l]
           noted == [r EXCEPT !.attempts = @ \cup {r.ordinal}]
<1>0. r \in Tx /\ tx \in [Launcher -> Tx]
  BY DEF TransactionTypes
<1>1. /\ noted \in Tx /\ noted.ordinal = r.ordinal /\ noted.ran = r.ran /\ noted.state = r.state
      /\ noted.attempts # {}
  BY <1>0 DEF Tx
<1>2. ASSUME NEW error \in {"protected", "other"}, Set(l, Failed(noted, error))
      PROVE  /\ tx'[l].pc = "contain" /\ tx'[l].state = r.state
             /\ tx'[l].ordinal = r.ordinal /\ tx'[l].ran = r.ran
  <2>1. tx'[l] = Failed(noted, error)
    BY <1>0, <1>2 DEF Set
  <2> HIDE DEF noted
  <2> QED
    BY <1>1, <2>1, FailedShape
<1>3. ASSUME NEW point, Set(l, [noted EXCEPT !.pc = point])
      PROVE  /\ tx'[l].pc = point /\ tx'[l].state = r.state /\ tx'[l].seen = r.seen
             /\ tx'[l].ordinal = r.ordinal /\ tx'[l].ran = r.ran
  BY <1>0, <1>3 DEF Set, Tx
<1>4. "contain" \notin Body
  BY DEF Body, AppendPoint, CallPoint
<1> QED
  BY <1>2, <1>3, <1>4 DEF Start

\* Every move of a launcher keeps that a recovery plan's sessions come after
\* its claim.
LEMMA ClaimedKept ==
  ASSUME PlanAssumption, TransactionTypes, NEW l \in Launcher, Step(l) \/ Fault(l), Frame(l),
         Claimed(l)
  PROVE  Claimed(l)'
<1>1. plan' = plan /\ (owner' = owner \/ owner = Nobody) /\ Nobody # l
  BY DEF Frame, PlanAssumption
<1>2. sessions' = sessions => (Created(l)' <=> Created(l))
  BY DEF Created
<1>3. CASE Advance(l)
  BY <1>1, <1>2, <1>3 DEF Claimed, Advance
<1>4. CASE Stop(l)
  BY <1>1, <1>2, <1>4 DEF Claimed, Stop
<1>5. CASE Start(l)
  BY <1>1, <1>5, StartShape DEF Claimed
<1>6. CASE AppendEvent(l)
  BY <1>1, <1>2, <1>6, AppendShape DEF Claimed
<1>7. CASE \/ Open(l) \/ Report(l) \/ Contain(l) \/ Note(l) \/ Close(l) \/ CloseUnrecorded(l)
           \/ HandlerFails(l) \/ Crash(l)
  BY <1>1, <1>2, <1>7, EndShape DEF Claimed
<1> QED
  BY <1>3, <1>4, <1>5, <1>6, <1>7, Kinds

\* Every move of a launcher keeps that what is left open after containment was
\* reported.
LEMMA StoppedKept ==
  ASSUME TransactionTypes, NEW l \in Launcher, Step(l) \/ Fault(l), Noted(l), Stopped(l)
  PROVE  Stopped(l)'
<1> DEFINE After == {"note", "escalate", "close", "raised", "returned-item", "refused"}
<1>0. After \cap Body = {} /\ "contain" \notin After /\ {"spent", "bound"} \subseteq Body
  BY DEF Body, AppendPoint, CallPoint
<1>1. ASSUME tx[l].pc \in Body, tx[l].attempts = {}, NEW k \in Nat PROVE <<l, k>> \notin open
  BY <1>1 DEF Noted, TransactionTypes
<1>2. CASE Advance(l)
  BY <1>0, <1>2 DEF Stopped, Advance
<1>3. CASE Stop(l)
  BY <1>0, <1>1, <1>3 DEF Stopped, Stop, Body
<1>4. CASE Start(l)
  BY <1>0, <1>4, StartShape DEF Stopped
<1>5. CASE AppendEvent(l)
  BY <1>0, <1>5, AppendShape DEF Stopped
<1>6. CASE Contain(l)
  <2>1. CASE open' = open \ Own(l)
    <3>1. \A k \in Nat : <<l, k>> \notin open'
      BY <2>1 DEF Own, TransactionTypes
    <3> QED
      BY <3>1 DEF Stopped
  <2>2. CASE Set(l, [tx[l] EXCEPT !.containment = "incomplete", !.pc = "note"])
    <3>1. tx'[l].containment = "incomplete"
      BY <2>2 DEF Set, TransactionTypes, Tx
    <3> QED
      BY <3>1 DEF Stopped
  <2> QED
    BY <1>6, <2>1, <2>2 DEF Contain
<1>7. CASE /\ ~Contain(l)
           /\ \/ Open(l) \/ Report(l) \/ Note(l) \/ Close(l) \/ CloseUnrecorded(l)
              \/ HandlerFails(l) \/ Crash(l)
  <2>1. CASE tx[l].pc = "new"
    <3>1. \A k \in Nat : <<l, k>> \notin open
      BY <1>1, <2>1 DEF Noted, Body
    <3> QED
      BY <1>7, <3>1, EndShape DEF Stopped
  <2> QED
    BY <1>7, <2>1, EndShape DEF Stopped
<1> QED
  BY <1>2, <1>3, <1>4, <1>5, <1>6, <1>7, Kinds

\* An append of a transaction with one launcher follows what is in the file.
LEMMA WriteFollows ==
  ASSUME TransactionTypes, NEW l \in Launcher, Followed(l), Sole(l), plan[l].txn \notin slipped,
         tx[l].pc \in WritePoint, Write(l)
  PROVE  /\ journal'[plan[l].txn].readable
         /\ journal'[plan[l].txn].last = Event(tx[l]).state
         /\ Event(tx[l]).state \in State
<1> DEFINE r == tx[l]
           st == Event(r).state
<1>0. r \in Tx /\ (r.pc \in {"intent", "spent", "bound"} => r.seen # "none")
  BY DEF TransactionTypes, Write
<1>1. st \in State /\ journal'[plan[l].txn].last = st
  BY <1>0, EventShape, WriteShape
<1>2. /\ Log(l).readable
      /\ \/ Log(l).last = r.state
         \/ r.state = "none" /\ Log(l).last = "PREPARED" /\ r.pc \notin Body
      /\ r.pc \in (Body \cup HandlerPoint) \ {"report"} => r.state \notin TERMINAL_STATES
      /\ r.pc \in {"intent", "spent", "bound"} => r.seen = r.state
  <2>1. {"intent", "spent", "bound"} \subseteq Body
    BY DEF Body, AppendPoint
  <2> QED
    BY <1>0, <2>1 DEF Followed
<1>3. r.state \notin TERMINAL_STATES
  BY <1>2 DEF WritePoint, Body, AppendPoint, HandlerPoint
<1>4. "PREPARED" \notin TERMINAL_STATES /\ <<"none", "PREPARED">> \in STATE_TRANSITIONS
  BY DEF TERMINAL_STATES, STATE_TRANSITIONS
<1>5. ASSUME NEW s \in State PROVE <<"none", s>> \in STATE_TRANSITIONS => s = "PREPARED"
  BY <1>5 DEF STATE_TRANSITIONS, State, TERMINAL_STATES
<1>6. Follows(Log(l).last, st)
  <2>1. CASE r.pc \in {"intent", "spent", "bound"}
    <3>1. st = r.state /\ Log(l).last = r.state
      BY <1>0, <1>2, <2>1, EventShape DEF Body, AppendPoint
    <3> QED
      BY <1>3, <3>1 DEF Follows
  <2>2. CASE r.pc \in {"note", "escalate"}
    <3>1. st = IF r.state = "none" THEN "PREPARED" ELSE r.state
      BY <1>0, <2>2, EventShape
    <3> QED
      BY <1>2, <1>3, <1>4, <3>1 DEF Follows
  <2>3. CASE r.pc \in WritePoint \ {"intent", "spent", "bound", "note", "escalate"}
    <3>1. Event(r).type \in {"transition", "terminal"}
      BY <1>0, <2>3, EventShape DEF WritePoint
    <3>2. <<r.state, st>> \in STATE_TRANSITIONS
      BY <3>1 DEF Write
    <3>3. Log(l).last = r.state \/ (st = "PREPARED" /\ Log(l).last = "PREPARED")
      BY <1>1, <1>2, <1>5, <3>2
    <3> QED
      BY <1>4, <3>2, <3>3 DEF Follows
  <2> QED
    BY <2>1, <2>2, <2>3 DEF WritePoint
<1> QED
  BY <1>1, <1>2, <1>6, WriteShape DEF Log

\* Every move of a launcher keeps its memory and its journal together.
LEMMA FollowedKept ==
  ASSUME TransactionTypes, NEW l \in Launcher, Step(l) \/ Fault(l), Frame(l), Followed(l)
  PROVE  Followed(l)'
<1> DEFINE r == tx[l]
<1>0. /\ plan' = plan /\ (Sole(l)' <=> Sole(l)) /\ plan[l].txn \in Transaction
      /\ r \in Tx /\ r.state \in State \cup {"none"}
  BY DEF Frame, Sole, TransactionTypes, Plan, Tx
<1>1. journal' = journal => Log(l)' = Log(l)
  BY <1>0 DEF Log
<1>2. {"new", "baseline", "prepared", "report", "intent", "spent", "bound"} \subseteq Body
  BY DEF Body, AppendPoint, CallPoint
<1>3. /\ "none" \notin State
      /\ Body \cap {"contain", "note", "escalate", "close", "done", "returned-item", "raised",
                    "refused", "crashed"} = {}
  BY Points DEF State, TERMINAL_STATES
<1>4. CASE Advance(l)
  <2>1. r.pc \in Body \ {"report", "new"} /\ (r.pc \in {"new", "baseline", "prepared"} => r.pc = "baseline")
    BY <1>4 DEF Advance, Body, AppendPoint, CallPoint
  <2>2. r.pc \in CallPoint => r.pc \notin {"intent", "spent", "bound"}
    BY DEF CallPoint
  <2> SUFFICES ASSUME Sole(l), plan[l].txn \notin slipped PROVE Followed(l)'
    BY <1>0, <1>4 DEF Followed, Advance
  <2>3. /\ Log(l).readable /\ Log(l).last = r.state /\ r.state \notin TERMINAL_STATES
        /\ r.pc # "baseline" => r.state # "none"
        /\ r.seen = "none" \/ (r.pc \in {"intent", "spent", "bound"} /\ r.seen = r.state)
    BY <2>1 DEF Followed
  <2>4. tx'[l].seen = "none" \/ (tx'[l].pc \in {"intent", "spent", "bound"} /\ tx'[l].seen = tx'[l].state)
    BY <1>4, <2>1, <2>2, <2>3 DEF Advance
  <2> QED
    BY <1>0, <1>1, <1>4, <2>3, <2>4 DEF Followed, Advance
<1>5. CASE Stop(l)
  <2> SUFFICES ASSUME Sole(l), plan[l].txn \notin slipped' PROVE Followed(l)'
    BY <1>0 DEF Followed
  <2>1. journal' = journal /\ slipped' = slipped /\ r.pc \in Body \ {"report"}
    BY <1>5 DEF Stop, Body
  <2> QED
    BY <1>0, <1>1, <1>3, <1>5, <2>1 DEF Followed, Stop
<1>6. CASE Start(l)
  <2>1. "start" \in Body \ {"new", "baseline", "prepared", "report", "intent", "spent", "bound"}
    BY DEF Body, CallPoint
  <2>2. /\ r.pc = "start" /\ slipped' = slipped /\ Log(l)' = Log(l)
        /\ tx'[l].pc \in {"contain", "spent", "bound"} /\ tx'[l].state = r.state
        /\ tx'[l].pc \in Body => tx'[l].seen = r.seen
    BY <1>1, <1>6, StartShape
  <2> QED
    BY <1>0, <1>3, <2>1, <2>2 DEF Followed
<1>7. CASE AppendEvent(l)
  <2> SUFFICES ASSUME Sole(l), plan[l].txn \notin slipped PROVE Followed(l)'
    BY <1>0, <1>7, AppendShape DEF Followed
  <2>1. /\ r.pc \in AppendPoint /\ r.pc \in Body /\ r.pc \in WritePoint /\ Write(l)
        /\ (r.pc \in {"intent", "spent", "bound"} => r.seen # "none")
    BY <1>7, AppendShape DEF WritePoint, Write
  <2>2. /\ Log(l)'.readable /\ Log(l)'.last = Event(r).state /\ Event(r).state \in State
    BY <1>0, <2>1, WriteFollows DEF Log
  <2>3. r.pc \in {"intent", "spent", "bound"} => Event(r).state = r.state
    BY <1>0, <2>1, EventShape DEF Followed
  <2>4. tx'[l].state = Event(r).state /\ tx'[l].state # "none"
    BY <1>3, <1>7, <2>2, <2>3, AppendShape
  <2>5. r.pc # "terminal" => Event(r).state \notin TERMINAL_STATES
    <3>1. CASE r.pc \in {"intent", "spent", "bound"}
      BY <1>2, <2>1, <2>3, <3>1 DEF Followed
    <3> QED
      BY <1>0, <2>1, <3>1, EventShape
  <2>6. tx'[l].pc \in Body /\ tx'[l].seen = "none" /\ (tx'[l].pc = "report" <=> r.pc = "terminal")
    BY <1>7, AppendShape
  <2> QED
    BY <2>2, <2>4, <2>5, <2>6 DEF Followed
<1>8. CASE Note(l)
  <2> SUFFICES ASSUME Sole(l), plan[l].txn \notin slipped PROVE Followed(l)'
    BY <1>0, <1>8 DEF Followed, Note
  <2>1. r.pc \in {"note", "escalate"} /\ r.pc \in WritePoint /\ r.pc \in HandlerPoint /\ Write(l)
    BY <1>8 DEF Note, WritePoint, HandlerPoint
  <2>2. Log(l)'.readable /\ Log(l)'.last = Event(r).state
    BY <1>0, <2>1, WriteFollows DEF Log
  <2>3. Event(r).state = IF r.state = "none" THEN "PREPARED" ELSE r.state
    BY <1>0, <2>1, EventShape
  <2>4. tx'[l].state = r.state /\ tx'[l].pc \in {"note", "escalate", "close"}
    <3>1. ~Close(l) /\ ~Contain(l)
      BY <2>1 DEF Close, Contain
    <3>2. tx'[l].pc \in {"escalate", "close"}
      BY <1>8 DEF Note, AfterNote, Set, TransactionTypes, Tx
    <3> QED
      BY <1>8, <3>1, <3>2, EndShape
  <2>5. r.state \notin TERMINAL_STATES
    BY <1>3, <2>1 DEF Followed, Body, HandlerPoint
  <2> QED
    BY <1>3, <2>2, <2>3, <2>4, <2>5 DEF Followed
<1>9. CASE Close(l)
  <2> SUFFICES ASSUME Sole(l), plan[l].txn \notin slipped PROVE Followed(l)'
    BY <1>0, <1>9 DEF Followed, Close
  <2>1. r.pc = "close" /\ r.pc \in WritePoint /\ Write(l)
    BY <1>9 DEF Close, WritePoint
  <2>2. Log(l)'.readable /\ Log(l)'.last = Event(r).state
    BY <1>0, <2>1, WriteFollows DEF Log
  <2>3. tx'[l].state = Event(r).state /\ tx'[l].pc \in {"returned-item", "raised"}
    <3>1. ASSUME NEW st, NEW point, Set(l, [r EXCEPT !.state = st, !.pc = point])
          PROVE  tx'[l].pc = point /\ tx'[l].state = st
      BY <3>1 DEF Set, TransactionTypes, Tx
    <3>2. Exit(r) \in {"returned-item", "raised"}
      BY DEF Exit
    <3> QED
      BY <1>9, <3>1, <3>2 DEF Close
  <2>4. tx'[l].pc \notin Body /\ tx'[l].pc \notin HandlerPoint
    BY <1>3, <2>3 DEF HandlerPoint
  <2> QED
    BY <1>2, <2>2, <2>3, <2>4 DEF Followed
<1>10. CASE \/ Open(l) \/ Report(l) \/ Contain(l) \/ CloseUnrecorded(l) \/ HandlerFails(l) \/ Crash(l)
  <2> SUFFICES ASSUME Sole(l), plan[l].txn \notin slipped' PROVE Followed(l)'
    BY <1>0 DEF Followed
  <2>1. journal' = journal /\ slipped' = slipped
    BY <1>10 DEF Open, Report, Contain, CloseUnrecorded, HandlerFails, Crash
  <2>2. Close(l) \/ tx'[l].state = r.state
    BY <1>10, EndShape
  <2>3. tx'[l].state = r.state
    <3>1. CASE Close(l)
      <4>1. r.pc = "close"
        BY <3>1 DEF Close
      <4>2. CloseUnrecorded(l) \/ HandlerFails(l) \/ Crash(l)
        BY <1>10, <4>1 DEF Open, Report, Contain
      <4> QED
        BY <4>2 DEF CloseUnrecorded, HandlerFails, Crash, Goto, Set, TransactionTypes, Tx
    <3> QED
      BY <2>2, <3>1
  <2>4. /\ tx'[l].seen = r.seen
        /\ tx'[l].pc \in {"baseline", "refused", "done", "note", "escalate", "close",
                          "returned-item", "raised", "crashed"}
        /\ tx'[l].pc = "baseline" => r.pc = "new"
        /\ tx'[l].pc \in HandlerPoint => r.pc \in HandlerPoint
    BY <1>10, EndShape
  <2>5. r.pc \in HandlerPoint => r.pc # "report"
    BY DEF HandlerPoint
  <2>6. /\ "report" \notin {"baseline", "new"}
        /\ "new" \notin {"intent", "spent", "bound"}
    OBVIOUS
  <2>7. plan[l].txn \notin slipped /\ Log(l)' = Log(l)
    BY <1>1, <2>1
  <2>8. CASE tx'[l].pc = "baseline"
    <3>1. r.pc = "new" /\ r.pc \in Body \ {"report"}
      BY <1>2, <2>4, <2>8
    <3> QED
      BY <1>0, <2>3, <2>4, <2>7, <2>8, <3>1 DEF Followed
  <2>9. CASE tx'[l].pc # "baseline"
    <3>1. tx'[l].pc \notin Body
      BY <1>3, <2>4, <2>9
    <3> QED
      BY <1>0, <1>2, <2>3, <2>4, <2>5, <2>7, <3>1 DEF Followed
  <2> QED
    BY <2>8, <2>9
<1> QED
  BY <1>4, <1>5, <1>6, <1>7, <1>8, <1>9, <1>10, Kinds

-----------------------------------------------------------------------------
(* Counting sessions. *)

\* When a launcher begins to count, and when it is armed.
LEMMA CountingMoves ==
  ASSUME TransactionTypes, NEW l \in Launcher, Step(l) \/ Fault(l)
  PROVE  /\ Counting(l)' => \/ Counting(l)
                            \/ /\ tx[l].pc = "baseline" /\ Observed = plan[l].before
                               /\ sessions' = sessions
         /\ Begun(l)' => \/ Begun(l)
                         \/ tx[l].pc = "bind" /\ Counted(l) /\ sessions' = sessions
<1>0. /\ Past = Body \ {"new", "baseline"} /\ Armed \subseteq Past
      /\ (AppendPoint \cup CallPoint) \subseteq Past \cup {"baseline"}
      /\ AppendPoint \subseteq Past
      /\ {"start", "spent", "bound"} \subseteq Past
      /\ {"contain", "note", "close"} \cap Body = {}
      /\ {"spent", "bound", "contain"} \cap Armed = {}
      /\ {"baseline", "refused", "done", "note", "escalate", "close",
          "returned-item", "raised", "crashed"} \cap (Past \cup Armed) = {}
  BY DEF Past, Body, AppendPoint, CallPoint, Armed
<1>1. CASE Advance(l)
  <2>1. tx[l].pc \in Past \cup {"baseline"}
    BY <1>0, <1>1 DEF Advance
  <2>2. tx[l].pc = "baseline" => Observed = plan[l].before /\ sessions' = sessions
    BY <1>1 DEF Advance
  <2> QED
    BY <1>0, <1>1, <2>1, <2>2 DEF Advance, Counting, Begun
<1>2. CASE Stop(l)
  <2>1. tx'[l].pc \notin Past \cup Armed /\ (tx'[l].ran => tx[l].ran \/ tx[l].pc \in Armed)
    BY <1>0, <1>2 DEF Stop
  <2> QED
    BY <1>0, <2>1 DEF Counting, Begun
<1>3. CASE Start(l)
  BY <1>0, <1>3, StartShape DEF Counting, Begun
<1>4. CASE AppendEvent(l)
  BY <1>0, <1>4, AppendShape DEF Counting, Begun
<1>5. CASE \/ Open(l) \/ Report(l) \/ Contain(l) \/ Note(l) \/ Close(l) \/ CloseUnrecorded(l)
           \/ HandlerFails(l) \/ Crash(l)
  BY <1>0, <1>5, EndShape DEF Counting, Begun
<1> QED
  BY <1>1, <1>2, <1>3, <1>4, <1>5, Kinds

\* A launcher that begins to count has created nothing, and finds what the
\* others did not create themselves.
LEMMA BaselineKept ==
  ASSUME TransactionTypes, TransactionTypes', NEW l \in Launcher, Step(l) \/ Fault(l), Frame(l),
         Noted(l), BaselineInv
  PROVE  BaselineInv'
<1>1. /\ plan' = plan /\ sessions \subseteq sessions' /\ IsFiniteSet(sessions')
      /\ IsFiniteSet(sessions) /\ sessions \subseteq Launcher \X Nat
      /\ \A m \in Launcher : plan[m].before \in Nat
  BY DEF Frame, TransactionTypes, Plan
<1>2. SUFFICES ASSUME NEW m \in Launcher, NEW n \in Launcher, Counting(m)', Counting(n)',
                      plan[m].before = plan[n].before
               PROVE  Cardinality(Foreign(m, n)') >= plan[m].before
  BY <1>1 DEF BaselineInv
<1>3. \A q \in Launcher : q # l => (Counting(q)' <=> Counting(q))
  BY DEF Frame, Counting
<1>4. /\ IsFiniteSet(Foreign(m, n)') /\ Foreign(m, n) \subseteq Foreign(m, n)'
      /\ IsFiniteSet(Foreign(m, n))
      /\ Cardinality(Foreign(m, n)) \in Nat /\ Cardinality(Foreign(m, n)') \in Nat
      /\ Cardinality(Foreign(m, n)) <= Cardinality(Foreign(m, n)')
  <2>1. Foreign(m, n)' \in SUBSET sessions' /\ Foreign(m, n) \in SUBSET Foreign(m, n)'
    BY <1>1 DEF Foreign
  <2>2. IsFiniteSet(Foreign(m, n)')
    BY <1>1, <2>1, FS_Subset
  <2>3. IsFiniteSet(Foreign(m, n)) /\ Cardinality(Foreign(m, n)) <= Cardinality(Foreign(m, n)')
    BY <2>1, <2>2, FS_Subset
  <2> QED
    BY <2>1, <2>2, <2>3, FS_CardinalityType
<1>5. CASE Counting(m) /\ Counting(n)
  <2>1. Cardinality(Foreign(m, n)) >= plan[m].before
    BY <1>2, <1>5 DEF BaselineInv
  <2> QED
    BY <1>1, <1>4, <2>1
<1>6. CASE ~(Counting(m) /\ Counting(n))
  <2>1. /\ tx[l].pc = "baseline" /\ Observed = plan[l].before
        /\ ~Counting(l) /\ (m = l \/ n = l)
    BY <1>2, <1>3, <1>6, CountingMoves
  <2>2. \A s \in sessions : s[1] # l
    <3>1. "baseline" \in Body
      BY DEF Body, CallPoint
    <3> QED
      BY <1>1, <2>1, <3>1 DEF Noted
  <2>3. Cardinality(sessions) = plan[l].before
    BY <2>1 DEF Observed
  <2>4. CASE m = l /\ n = l
    <3>1. Foreign(m, n) = sessions
      BY <2>2, <2>4 DEF Foreign
    <3> QED
      BY <1>1, <1>4, <2>3, <2>4, <3>1
  <2>5. CASE m # n
    <3>1. PICK q \in {m, n} : q # l /\ Counting(q) /\ Foreign(m, n) = Foreign(q, q)
      BY <1>2, <1>3, <2>1, <2>2, <2>5 DEF Foreign
    <3>2. Cardinality(Foreign(q, q)) >= plan[q].before
      BY <3>1 DEF BaselineInv
    <3>3. plan[q].before = plan[m].before
      BY <1>2, <3>1
    <3> QED
      BY <1>1, <1>4, <3>1, <3>2, <3>3
  <2> QED
    BY <2>1, <2>4, <2>5
<1> QED
  BY <1>5, <1>6

\* Of two launchers with one baseline that both started sessions, none can
\* count what its plan expects.
LEMMA OneBegunKept ==
  ASSUME TransactionTypes, NEW l \in Launcher, Step(l) \/ Fault(l), Frame(l),
         \A m \in Launcher : Noted(m), BaselineInv, OneBegun
  PROVE  OneBegun'
<1>1. /\ plan' = plan /\ IsFiniteSet(sessions) /\ sessions \subseteq Launcher \X Nat
      /\ tx[l].attempts \subseteq Nat /\ plan[l].before \in Nat
  BY DEF Frame, TransactionTypes, Plan, Tx
<1>2. \A q \in Launcher : q # l => (Begun(q)' <=> Begun(q))
  BY DEF Frame, Begun
<1>3. ASSUME NEW n \in Launcher, n # l, Begun(n), plan[l].before = plan[n].before,
             tx[l].pc = "bind", Counted(l)
      PROVE  FALSE
  <2> DEFINE A == tx[l].attempts
             O == Own(l)
             F == Foreign(l, n)
  <2>1. Counting(l) /\ Counting(n)
    BY <1>3 DEF Counting, Begun, Past, Armed, AppendPoint, CallPoint
  <2>2. Cardinality(F) >= plan[l].before
    BY <1>3, <2>1 DEF BaselineInv
  <2>3. PICK k \in Nat : <<n, k>> \in sessions
    BY <1>3 DEF Noted, Begun, Created
  <2>4. \A j \in Nat : <<l, j>> \in sessions <=> j \in A
    BY <1>3 DEF Noted, Body, CallPoint
  <2>5. IsFiniteSet(O) /\ IsFiniteSet(F)
    <3>1. O \in SUBSET sessions /\ F \in SUBSET sessions
      BY DEF Own, Foreign
    <3> QED
      BY <1>1, <3>1, FS_Subset
  <2>6. IsFiniteSet(A) /\ Cardinality(A) <= Cardinality(O)
    <3> DEFINE f == [s \in O |-> s[2]]
    <3>1. \A s \in O : s[2] \in A
      BY <1>1, <2>4 DEF Own
    <3>2. \A j \in A : <<l, j>> \in O /\ f[<<l, j>>] = j
      BY <1>1, <2>4 DEF Own
    <3>3. f \in Surjection(O, A)
      BY <3>1, <3>2 DEF Surjection
    <3> HIDE DEF f
    <3> QED
      BY <2>5, <3>3, FS_Surjection
  <2>7. O \cap F = {} /\ <<n, k>> \notin O \cup F /\ (O \cup F) \cup {<<n, k>>} \in SUBSET sessions
    BY <1>3, <2>3 DEF Own, Foreign
  <2>8. Cardinality(O \cup F) = Cardinality(O) + Cardinality(F) /\ IsFiniteSet(O \cup F)
    <3>1. Cardinality(O) \in Nat /\ Cardinality(F) \in Nat
      BY <2>5, FS_CardinalityType
    <3>2. /\ IsFiniteSet(O \cup F)
          /\ Cardinality(O \cup F) = Cardinality(O) + Cardinality(F) - Cardinality(O \cap F)
      BY <2>5, FS_Union
    <3>3. Cardinality(O \cap F) = 0
      BY <2>7, FS_EmptySet
    <3> QED
      BY <3>1, <3>2, <3>3
  <2>9. Cardinality((O \cup F) \cup {<<n, k>>}) = Cardinality(O \cup F) + 1
    BY <2>7, <2>8, FS_AddElement
  <2>10. Cardinality((O \cup F) \cup {<<n, k>>}) <= Cardinality(sessions)
    BY <1>1, <2>7, FS_Subset
  <2>11. Cardinality(sessions) = plan[l].before + Cardinality(A)
    BY <1>3 DEF Counted, Observed, Expected
  <2>12. Cardinality(O) \in Nat /\ Cardinality(F) \in Nat /\ Cardinality(A) \in Nat
    BY <2>5, <2>6, FS_CardinalityType
  <2> HIDE DEF A, O, F
  <2> QED
    BY <1>1, <2>2, <2>6, <2>8, <2>9, <2>10, <2>11, <2>12
<1>4. SUFFICES ASSUME NEW m \in Launcher, NEW n \in Launcher, Begun(m)', Begun(n)',
                      plan[m].before = plan[n].before, m # n
               PROVE  FALSE
  BY <1>1 DEF OneBegun
<1>5. \/ Begun(m) /\ Begun(n)
      \/ m = l /\ Begun(n) /\ tx[l].pc = "bind" /\ Counted(l)
      \/ n = l /\ Begun(m) /\ tx[l].pc = "bind" /\ Counted(l)
  BY <1>2, <1>4, CountingMoves
<1> QED
  BY <1>3, <1>4, <1>5 DEF OneBegun

-----------------------------------------------------------------------------
(* The inductive invariant and what follows from it. *)

\* The initial states satisfy the invariant.
LEMMA InitTransaction == Init => TransactionInv
<1> SUFFICES ASSUME Init PROVE TransactionInv
  OBVIOUS
<1>1. plan \in [Launcher -> Plan]
  <2>1. plan \in [Launcher -> UNION {Plans[l] : l \in Launcher}] /\ \A l \in Launcher : plan[l] \in Plans[l]
    BY DEF Init
  <2>2. \A l \in Launcher : plan[l] \in Plan
    BY <2>1, PlanAssumption
  <2> QED
    BY <2>1, <2>2
<1>2. FreshLauncher \in Tx /\ EmptyJournal \in Journal
  BY DEF FreshLauncher, Tx, Point, Body, EmptyJournal, Journal
<1>3. \A l \in Launcher : tx[l] = FreshLauncher
  BY DEF Init
<1>4. TransactionTypes
  BY <1>1, <1>2, FS_EmptySet DEF Init, TransactionTypes
<1>5. UnusedReadable
  BY DEF Init, UnusedReadable, EmptyJournal
<1>6. FreshLauncher.pc = "new" /\ FreshLauncher.attempts = {} /\ FreshLauncher.ordinal = 0
        /\ FreshLauncher.ran = FALSE /\ FreshLauncher.state = "none" /\ FreshLauncher.seen = "none"
  BY DEF FreshLauncher
<1>7. ASSUME NEW l \in Launcher PROVE LauncherInv(l)
  <2>1. ~Created(l) /\ tx[l].pc = "new" /\ "new" \notin Armed
    BY <1>3, <1>6 DEF Init, Created, Armed
  <2>2. Noted(l)
    BY <1>3, <1>6, <2>1 DEF Init, Noted
  <2>3. Claimed(l) /\ Stopped(l)
    BY <1>3, <1>6, <2>1 DEF Claimed, Stopped
  <2>4. Log(l).readable /\ Log(l).last = "none"
    BY <1>1 DEF Init, Log, EmptyJournal, Plan
  <2>5. Followed(l)
    BY <1>3, <1>6, <2>1, <2>4 DEF Followed, TERMINAL_STATES
  <2> QED
    BY <2>2, <2>3, <2>5 DEF LauncherInv
<1>8. \A l \in Launcher : ~Counting(l) /\ ~Begun(l)
  BY <1>3, <1>6 DEF Counting, Begun, Past, Armed, AppendPoint, CallPoint
<1> QED
  BY <1>4, <1>5, <1>7, <1>8 DEF TransactionInv, BaselineInv, OneBegun

\* Every step keeps the invariant.
LEMMA StepTransaction == TransactionInv /\ [Next]_vars => TransactionInv'
<1> SUFFICES ASSUME TransactionInv, [Next]_vars PROVE TransactionInv'
  OBVIOUS
<1>1. CASE UNCHANGED vars
  <2>1. /\ plan' = plan /\ tx' = tx /\ journal' = journal /\ owner' = owner
        /\ sessions' = sessions /\ open' = open /\ slipped' = slipped
    BY <1>1 DEF vars
  <2>2. TransactionTypes' /\ UnusedReadable'
    BY <2>1 DEF TransactionInv, TransactionTypes, UnusedReadable
  <2>3. ASSUME NEW l \in Launcher PROVE LauncherInv(l)'
    <3>1. Noted(l)' /\ Claimed(l)' /\ Stopped(l)'
      BY <2>1 DEF TransactionInv, LauncherInv, Noted, Claimed, Stopped, Created, Log
    <3>2. Followed(l)'
      BY <2>1 DEF TransactionInv, LauncherInv, Followed, Sole, Log
    <3> QED
      BY <3>1, <3>2 DEF LauncherInv
  <2>4. BaselineInv' /\ OneBegun'
    BY <2>1 DEF TransactionInv, BaselineInv, OneBegun, Counting, Begun, Foreign
  <2> QED
    BY <2>2, <2>3, <2>4 DEF TransactionInv
<1>2. CASE Next
  <2>1. PICK l \in Launcher : Step(l) \/ Fault(l)
    BY <1>2 DEF Next
  <2>2. TransactionTypes /\ \A m \in Launcher : LauncherInv(m)
    BY DEF TransactionInv
  <2>3. TransactionTypes' /\ Frame(l)
    BY <2>1, <2>2, StepFrame
  <2>4. UnusedReadable'
    BY <2>3 DEF TransactionInv, UnusedReadable, Frame
  <2>5. LauncherInv(l)'
    BY <2>1, <2>2, <2>3, PlanAssumption, NotedKept, ClaimedKept, StoppedKept, FollowedKept
       DEF LauncherInv
  <2>6. \A m \in Launcher : m # l => LauncherInv(m)'
    BY <2>2, <2>3, PlanAssumption, OthersKept
  <2>7. \A m \in Launcher : Noted(m)
    BY <2>2 DEF LauncherInv
  <2>8. BaselineInv'
    BY <2>1, <2>2, <2>3, <2>7, BaselineKept DEF TransactionInv
  <2>9. OneBegun'
    BY <2>1, <2>2, <2>3, <2>7, OneBegunKept DEF TransactionInv
  <2> QED
    BY <2>3, <2>4, <2>5, <2>6, <2>8, <2>9 DEF TransactionInv
<1> QED
  BY <1>1, <1>2

\* The inductive invariant holds in every reachable state.
THEOREM TransactionInvariant == Spec => []TransactionInv
BY InitTransaction, StepTransaction, PTL DEF Spec

\* Every session that exists has its allocation intent in the journal of its
\* transaction, whatever failed, slipped or died in between.
THEOREM IntentsPrecedeSessions == Spec => []IntentBeforeSession
<1>1. TransactionInv => IntentBeforeSession
  <2> SUFFICES ASSUME TransactionInv, NEW s \in sessions
               PROVE  s[2] \in journal[plan[s[1]].txn].intents
    BY DEF IntentBeforeSession
  <2>1. s = <<s[1], s[2]>> /\ s[1] \in Launcher /\ s[2] \in Nat
    BY DEF TransactionInv, TransactionTypes
  <2> QED
    BY <2>1 DEF TransactionInv, LauncherInv, Noted, Log
<1> QED
  BY <1>1, TransactionInvariant, PTL

\* Of the launchers whose plans were sealed at one session count, at most one
\* ever runs the pool: the counts before and after every start exclude the other.
THEOREM PoolIsRunOnce == Spec => []PoolRunsOnce
<1>1. TransactionInv => PoolRunsOnce
  BY DEF TransactionInv, OneBegun, Begun, PoolRunsOnce
<1> QED
  BY <1>1, TransactionInvariant, PTL

\* A launcher that stopped leaves no session open without having reported an
\* incomplete containment.
THEOREM StopsContain == Spec => []StopContains
<1>1. TransactionInv => StopContains
  <2> SUFFICES ASSUME TransactionInv, NEW l \in Launcher, NEW s \in open \cap Own(l),
                      tx[l].pc \in {"raised", "returned-item", "refused"}
               PROVE  tx[l].containment = "incomplete"
    BY DEF StopContains
  <2>1. s = <<l, s[2]>> /\ s[2] \in Nat /\ s \in open
    BY DEF TransactionInv, TransactionTypes, Own
  <2>2. Stopped(l)
    BY DEF TransactionInv, LauncherInv
  <2> QED
    BY <2>1, <2>2 DEF Stopped
<1> QED
  BY <1>1, TransactionInvariant, PTL

\* The handlers keep the journal of a transaction with one launcher readable
\* unless an exception followed an event that was written.
THEOREM HandlersKeepJournal == Spec => []JournalKept
<1>1. TransactionInv => JournalKept
  <2> SUFFICES ASSUME TransactionInv, NEW t \in Transaction, t \notin slipped,
                      ~ \E l, m \in Launcher : l # m /\ plan[l].txn = t /\ plan[m].txn = t
               PROVE  journal[t].readable
    BY DEF JournalKept
  <2>1. CASE \A l \in Launcher : plan[l].txn # t
    BY <2>1 DEF TransactionInv, UnusedReadable
  <2>2. CASE \E l \in Launcher : plan[l].txn = t
    <3>1. PICK l \in Launcher : plan[l].txn = t
      BY <2>2
    <3>2. Sole(l)
      BY <3>1 DEF Sole
    <3>3. Followed(l)
      BY DEF TransactionInv, LauncherInv
    <3> QED
      BY <3>1, <3>2, <3>3 DEF Followed, Log
  <2> QED
    BY <2>1, <2>2
<1> QED
  BY <1>1, TransactionInvariant, PTL

-----------------------------------------------------------------------------
(* The opportunity ledger implements a single-use grant. *)

Actors == {l \in Launcher : plan[l].recovery /\ Own(l) # {}}

\* Only the owner of the opportunity has sessions of a recovery plan.
LEMMA OwnerActs == TransactionInv => \A l \in Actors : owner = l
<1> SUFFICES ASSUME TransactionInv, NEW l \in Actors PROVE owner = l
  OBVIOUS
<1>1. l \in Launcher /\ plan[l].recovery /\ Own(l) # {}
  BY DEF Actors
<1>2. PICK s \in sessions : s[1] = l
  BY <1>1 DEF Own
<1>3. s = <<l, s[2]>> /\ s[2] \in Nat
  BY <1>2 DEF TransactionInv, TransactionTypes
<1>4. Created(l)
  BY <1>2, <1>3 DEF Created
<1>5. Claimed(l)
  BY <1>1 DEF TransactionInv, LauncherInv
<1> QED
  BY <1>1, <1>4, <1>5 DEF Claimed

\* The same after a step.
LEMMA OwnerActsNext == TransactionInv' => (\A l \in Actors : owner = l)'
BY OwnerActs, PTL

\* A step of the launchers is a claim, an act of the owner or no step of the
\* grant.
LEMMA StepIsOneShot ==
  ASSUME TransactionInv, TransactionInv', [Next]_vars
  PROVE  [Opportunity!Next]_<<owner, Actors>>
<1>1. CASE UNCHANGED vars
  BY <1>1 DEF vars, Actors, Own
<1>2. CASE Next
  <2>1. PICK l \in Launcher : Step(l) \/ Fault(l)
    BY <1>2 DEF Next
  <2>2. TransactionTypes
    BY DEF TransactionInv
  <2>3. plan' = plan /\ sessions \subseteq sessions' /\ (owner' = owner \/ owner = Nobody)
    BY <2>1, <2>2, StepFrame DEF Frame
  <2>4. owner' = owner \/ (owner' = l /\ sessions' = sessions)
    <3>1. CASE Advance(l) \/ Stop(l)
      BY <3>1 DEF Advance, Stop
    <3>2. CASE Start(l)
      BY <2>2, <3>2, StartShape
    <3>3. CASE AppendEvent(l)
      BY <2>2, <3>3, AppendShape
    <3>4. CASE \/ Open(l) \/ Report(l) \/ Contain(l) \/ Note(l) \/ Close(l) \/ CloseUnrecorded(l)
               \/ HandlerFails(l) \/ Crash(l)
      BY <2>2, <3>4, EndShape
    <3> QED
      BY <2>1, <2>2, <3>1, <3>2, <3>3, <3>4, Kinds
  <2>5. Actors \subseteq Actors'
    BY <2>3 DEF Actors, Own
  <2>6. \A m \in Actors' : owner' = m
    BY OwnerActsNext
  <2>7. CASE owner' # owner
    <3>1. owner = Nobody /\ owner' = l /\ Actors' = Actors
      BY <2>3, <2>4, <2>7 DEF Actors, Own
    <3> QED
      BY <3>1 DEF Opportunity!Next, Opportunity!Claim, Actors
  <2>8. CASE owner' = owner /\ Actors' # Actors
    <3>1. PICK m \in Actors' : m \notin Actors
      BY <2>5, <2>8
    <3>2. m = owner /\ m \in Launcher /\ Actors' = {owner}
      BY <2>6, <2>8, <3>1 DEF Actors
    <3>3. owner # Nobody
      BY <3>2, PlanAssumption
    <3> QED
      BY <2>8, <3>2, <3>3 DEF Opportunity!Next, Opportunity!Act, Actors
  <2> QED
    BY <2>7, <2>8
<1> QED
  BY <1>1, <1>2

\* The launchers implement a single-use grant: the recovery opportunity is
\* claimed at most once, and sessions of a recovery plan are its owner's.
THEOREM OpportunityIsOneShot == Spec => OpportunitySpentOnce
<1>1. Init => Opportunity!Init
  <2>1. Init => Actors = {}
    BY DEF Init, Actors, Own
  <2> QED
    BY <2>1 DEF Init, Opportunity!Init, Actors
<1>2. TransactionInv /\ TransactionInv' /\ [Next]_vars =>
        [Opportunity!Next]_<<owner, {l \in Launcher : plan[l].recovery /\ Own(l) # {}}>>
  BY StepIsOneShot DEF Actors
<1> QED
  BY <1>1, <1>2, TransactionInvariant, PTL DEF Spec, OpportunitySpentOnce, Opportunity!Spec

=============================================================================
