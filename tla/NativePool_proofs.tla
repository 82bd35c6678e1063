-------------------------- MODULE NativePool_proofs --------------------------
(***************************************************************************)
(* The safety properties of NativePool hold of every pool: for any number  *)
(* of children, any fast path, either launcher and policy, and any of the  *)
(* faults that a setup may name.                                           *)
(*                                                                         *)
(* PoolInv is the inductive invariant.  A receipt is earned because of     *)
(* what the memory says at the end, and the memory is right at the end     *)
(* because every private method keeps turn, session, verdict, lease and    *)
(* fault in step (Core, Judged).  Between the steps the memory is Sound:   *)
(* waiting children have deadlines, admissions are in order, leases cover  *)
(* the sessions, and a comparison that was clean stays so because nobody   *)
(* is left at work.                                                        *)
(*                                                                         *)
(* A fault may come in the middle of a step, and several of them.  So the  *)
(* lemmas are about memories, not states: Kept is what a fault keeps,      *)
(* Advanced what a part of an invocation keeps, EndKept what a step after  *)
(* the last turn keeps; all three compose.                                 *)
(***************************************************************************)
EXTENDS NativePool, SequenceTheorems, WellFoundedInduction, TLAPS

(* Types, for a set C of children. *)

MemoryOf(C) ==
  [setup : Setups, status : Status, turn : [C -> Turn], deadline : SUBSET C,
   lease : [C -> HeldLease], runtime : [C -> Runtime],
   verdict : [C -> Verdict], admitted : Seq(C), protected : BOOLEAN,
   controlFailed : BOOLEAN, classified : SUBSET C, contained : SUBSET C,
   clean : BOOLEAN, deferred : BOOLEAN, revoked : BOOLEAN, compared : BOOLEAN]

SessionOf(C) == [C -> {"idle", "working", "closed"}]

-----------------------------------------------------------------------------
(* The inductive invariant.  Its parts are about a memory s, the sessions x of *)
(* the children C, and a turn t, so that they can be used of the memories in   *)
(* the middle of a step as well.                                               *)

\* A turn has an outcome exactly when it is over; one with a failed callback is
\* stopping, and does not complete.
TurnOK(t) ==
  /\ Terminal(t) <=> t.final # "none"
  /\ t.errors => t.phase \in StoppingPhases \cup {"terminal"}
  /\ t.final = "completed" => ~t.errors

\* The session of a child against its turn: nothing was submitted before the
\* turn gets there, a clean end has closed it, and a turn that leaves it behind
\* at work is a control failure cf.
SessionOK(t, w, cf) ==
  /\ t.phase \in {"start", "arm", "send-input"} => w = "idle"
  /\ t.final \in {"completed", "closed"} \/ t.phase = "finalize-close" => w = "closed"
  /\ Terminal(t) /\ w = "working" => cf

\* A pool-wide fault leaves no child that goes on.
Protected(C, s) ==
  /\ s.controlFailed => s.protected
  /\ s.protected => \A c \in C : s.turn[c].phase \in StoppingPhases \cup {"terminal"}
  /\ ~s.protected => s.classified \subseteq s.contained

\* What every memory satisfies, those in the middle of a step included.  There
\* cf is the control failure that is about to be recorded.
Core(C, s, x, cf) ==
  /\ s \in MemoryOf(C)
  /\ Protected(C, s)
  /\ \A c \in C :
       /\ TurnOK(s.turn[c])
       /\ SessionOK(s.turn[c], x[c], s.controlFailed \/ cf)
       /\ s.runtime[c] = "completed" => s.turn[c].final = "completed"
       /\ c \in s.deadline => ~Terminal(s.turn[c]) /\ Started(s.turn[c])

\* Faulted children are rejected (until a crash, which builds no receipt).
Judged(C, s) ==
  \A c \in C : s.protected \/ c \in s.contained => s.verdict[c] = "rejected"

\* The phases before the first poll of a child has ended.
EarlyPhases == DispatchPhases \cup {"finalize-control-failed"}

\* A waiting child has a deadline; without a pool-wide fault a child is past its
\* first poll only when it was admitted.
Served(s, c) ==
  /\ Waiting(s.turn[c]) => c \in s.deadline
  /\ ~s.protected /\ (c \in s.deadline \/ s.turn[c].phase \notin EarlyPhases) =>
       c <= Len(s.admitted)

Over(C, s) == \A c \in C : Terminal(s.turn[c])

Quiet(C, x) == \A c \in C : x[c] # "working"

InOrder(s) == \A i \in 1..Len(s.admitted) : s.admitted[i] = i

\* A lease is there before the turn starts and while the session is not idle,
\* and released after the end.
LeaseOK(C, s, x) ==
  \A c \in C : /\ s.turn[c].phase \notin {"start", "terminal"} \/ x[c] # "idle" =>
                    s.lease[c] # "none"
               /\ s.lease[c] = "released" => s.compared

\* The terminal comparison comes after the end.  What it finds clean stays so,
\* unless control was lost, and what it finds dirty is a fault.
ComparedOK(C, s, x, d) ==
  s.compared =>
    /\ Over(C, s)
    /\ ~s.protected => s.clean
    /\ s.clean /\ ~s.controlFailed => ~d /\ Quiet(C, x)

\* What a status on the way to the end stands for.
StatusOK(C, s) ==
  /\ s.status \in {"completed", "closed", "control-failed"} => Over(C, s)
  /\ s.status \in {"completed", "closed"} => ~s.controlFailed
  /\ s.status = "closed" => s.compared
  /\ s.status = "control-failed" => s.controlFailed

\* What holds of the memory s between the steps, its status apart.
Sound(C, s, x, d) ==
  /\ Core(C, s, x, FALSE)
  /\ \A c \in C : Served(s, c)
  /\ InOrder(s)
  /\ LeaseOK(C, s, x)
  /\ ComparedOK(C, s, x, d)

PoolInv ==
  /\ PoolTypeOK
  /\ Sound(Child, pool, session, dirty)
  /\ ~crashed => Judged(Child, pool)
  /\ StatusOK(Child, pool)
  /\ DiskQuiescent
  /\ IF crashed THEN pool.status = "control-failed" ELSE disk = pool.status
  /\ request = "consumed" \/ asked => pool.protected
  /\ receipt # NoReceipt =>
       /\ ~crashed /\ pool.status \in {"closed", "control-failed"}
       /\ receipt = BuildReceipt(pool)

-----------------------------------------------------------------------------
(* Turns. *)

\* The phases of a turn, listed.
LEMMA PhaseList ==
  TurnPhase = {"start", "arm", "send-input", "mark-dispatched", "check", "waiting",
               "finalize-complete", "waiting-close-complete", "close-complete",
               "interrupt", "finalize-interrupt", "waiting-close-interrupt",
               "close-interrupt", "finalize-close", "finalize-control-failed", "terminal"}
BY DEF TurnPhase, DispatchPhases, CompletePhases, InterruptPhases

\* The fields of a turn have their types.
LEMMA TurnFields ==
  ASSUME NEW t \in Turn
  PROVE  /\ t.phase \in TurnPhase /\ t.errors \in BOOLEAN
         /\ t.final \in {"completed", "closed", "control-failed", "none"}
         /\ t = [phase |-> t.phase, errors |-> t.errors, final |-> t.final]
BY DEF Turn, TerminalState

\* A turn that is written off.
LEMMA RejectedTurn ==
  ASSUME NEW t \in Turn, NEW u, u = RejectTurn(t)
  PROVE  u = [phase |-> "terminal", errors |-> TRUE, final |-> "control-failed"]
BY DEF Turn, RejectTurn, Finish

\* The turn u a fault leaves of t: a stopping or terminal one, still over if t
\* was, still to be stopped if t had started, and never made to wait.
Stopped(t, u) ==
  /\ u \in Turn /\ TurnOK(u)
  /\ Terminal(t) => u = t
  /\ Waiting(u) => Waiting(t)
  /\ ~Terminal(t) /\ Started(t) => ~Terminal(u) /\ Started(u)
  /\ u.phase \in StoppingPhases \cup {"terminal"}
  /\ t.final = "completed" <=> u.final = "completed"

\* FaultTurn stops the turn; one that never started ends.
LEMMA FaultTurnStops ==
  ASSUME NEW t \in Turn, TurnOK(t)
  PROVE  /\ Stopped(t, FaultTurn(t))
         /\ ~Started(t) => Terminal(FaultTurn(t))
         /\ \A w, cf : SessionOK(t, w, cf) => SessionOK(FaultTurn(t), w, cf)
<1>1. /\ t.phase \in TurnPhase /\ t.errors \in BOOLEAN
      /\ t.final \in {"completed", "closed", "control-failed", "none"}
      /\ t = [phase |-> t.phase, errors |-> t.errors, final |-> t.final]
  BY TurnFields
<1>2. CASE ~Started(t)
  <2>1. FaultTurn(t) = [phase |-> "terminal", errors |-> TRUE, final |-> "control-failed"]
    BY <1>1, <1>2 DEF FaultTurn, RejectTurn, Finish
  <2> QED
    BY <1>1, <1>2, <2>1, PhaseList DEF Stopped, Turn, TurnOK, SessionOK, Terminal, Waiting, Started,
       StoppingPhases, InterruptPhases, WaitPhases, TerminalState
<1>3. CASE Started(t) /\ (t.phase \in StoppingPhases \/ Terminal(t))
  <2>1. FaultTurn(t) = t
    BY <1>3 DEF FaultTurn, InterruptTurn
  <2> QED BY <1>3, <2>1 DEF Stopped, Terminal
<1>4. CASE Started(t) /\ t.phase \notin StoppingPhases /\ ~Terminal(t)
  <2>1. FaultTurn(t) = [phase |-> "interrupt", errors |-> t.errors, final |-> t.final]
    BY <1>1, <1>4 DEF FaultTurn, InterruptTurn
  <2> QED
    BY <1>1, <1>4, <2>1, PhaseList DEF Stopped, Turn, TurnOK, SessionOK, Terminal, Waiting, Started,
       StoppingPhases, InterruptPhases, WaitPhases, TerminalState
<1> QED BY <1>2, <1>3, <1>4

\* What RecordContainedFault makes of its child's turn.
ContainedTurn(t) == IF t.phase \in ContainedStoppingPhases THEN t ELSE InterruptTurn(t)

\* A contained fault stops the turn of its child.
LEMMA ContainedTurnStops ==
  ASSUME NEW t \in Turn, TurnOK(t)
  PROVE  /\ Stopped(t, ContainedTurn(t))
         /\ \A w, cf : SessionOK(t, w, cf) => SessionOK(ContainedTurn(t), w, cf)
<1>1. /\ t.phase \in TurnPhase /\ t.errors \in BOOLEAN
      /\ t.final \in {"completed", "closed", "control-failed", "none"}
      /\ t = [phase |-> t.phase, errors |-> t.errors, final |-> t.final]
  BY TurnFields
<1>2. CASE t.phase \in ContainedStoppingPhases \/ Terminal(t)
  <2>1. ContainedTurn(t) = t
    BY <1>2 DEF ContainedTurn, InterruptTurn
  <2>2. t.phase \in StoppingPhases \cup {"terminal"}
    BY <1>2 DEF ContainedStoppingPhases, StoppingPhases, InterruptPhases, Terminal
  <2> QED BY <2>1, <2>2 DEF Stopped
<1>3. CASE t.phase \notin ContainedStoppingPhases /\ ~Terminal(t)
  <2>1. ContainedTurn(t) = [phase |-> "interrupt", errors |-> t.errors, final |-> t.final]
    BY <1>1, <1>3 DEF ContainedTurn, InterruptTurn
  <2> QED
    BY <1>1, <1>3, <2>1, PhaseList DEF Stopped, Turn, TurnOK, SessionOK, Terminal, Waiting, Started,
       StoppingPhases, InterruptPhases, WaitPhases, TerminalState
<1> QED BY <1>2, <1>3

-----------------------------------------------------------------------------
(* Faults. *)

\* What a pool-wide fault makes of the memory, field by field.
LEMMA EnterFaultFields ==
  ASSUME NEW s \in MemoryOf(Child), NEW cf \in BOOLEAN, NEW a \in SUBSET Child
  PROVE  /\ EnterFault(s, cf, a).protected
         /\ EnterFault(s, cf, a).controlFailed = (s.controlFailed \/ cf)
         /\ EnterFault(s, cf, a).classified = s.classified \cup a
         /\ EnterFault(s, cf, a).runtime =
              [c \in Child |-> IF c \in a THEN "failed-ambiguous"
                               ELSE IF s.runtime[c] = "completed" THEN "completed"
                               ELSE "interrupted"]
         /\ EnterFault(s, cf, a).verdict = [c \in Child |-> "rejected"]
         /\ EnterFault(s, cf, a).turn = [c \in Child |-> FaultTurn(s.turn[c])]
         /\ EnterFault(s, cf, a).setup = s.setup
         /\ EnterFault(s, cf, a).status = s.status
         /\ EnterFault(s, cf, a).deadline = s.deadline
         /\ EnterFault(s, cf, a).lease = s.lease
         /\ EnterFault(s, cf, a).admitted = s.admitted
         /\ EnterFault(s, cf, a).contained = s.contained
         /\ EnterFault(s, cf, a).clean = s.clean
         /\ EnterFault(s, cf, a).deferred = s.deferred
         /\ EnterFault(s, cf, a).revoked = s.revoked
         /\ EnterFault(s, cf, a).compared = s.compared
BY DEF MemoryOf, EnterFault

\* A value with the fields of a memory, each of its type, is one.
LEMMA EnterFaultType ==
  ASSUME NEW s \in MemoryOf(Child), NEW cf \in BOOLEAN, NEW a \in SUBSET Child,
         \A c \in Child : FaultTurn(s.turn[c]) \in Turn
  PROVE  EnterFault(s, cf, a) \in MemoryOf(Child)
<1> DEFINE r == [c \in Child |-> IF c \in a THEN "failed-ambiguous"
                                 ELSE IF s.runtime[c] = "completed" THEN "completed"
                                 ELSE "interrupted"]
           v == [c \in Child |-> "rejected"]
           t == [c \in Child |-> FaultTurn(s.turn[c])]
           k == s.controlFailed \/ cf
<1>1. r \in [Child -> Runtime] /\ v \in [Child -> Verdict] /\ t \in [Child -> Turn]
  BY DEF Runtime, Verdict
<1>2. s.classified \cup a \in SUBSET Child /\ k \in BOOLEAN
  BY DEF MemoryOf
<1>3. EnterFault(s, cf, a) = [s EXCEPT !.protected = TRUE, !.controlFailed = k,
                     !.classified = s.classified \cup a, !.runtime = r, !.verdict = v, !.turn = t]
  BY DEF EnterFault, MemoryOf
<1> HIDE DEF r, v, t, k
<1> QED BY <1>1, <1>2, <1>3 DEF MemoryOf

\* How a fault of child c, or of the pool, changes the memory s to u.
Calm(C, s, u, c) ==
  /\ u.setup = s.setup /\ u.status = s.status /\ u.lease = s.lease
  /\ u.admitted = s.admitted /\ u.deadline = s.deadline /\ u.compared = s.compared
  /\ s.protected => u.protected
  /\ s.controlFailed => u.controlFailed
  /\ \A d \in C :
       /\ Terminal(s.turn[d]) => u.turn[d] = s.turn[d]
       /\ Waiting(u.turn[d]) => Waiting(s.turn[d])
       /\ ~Terminal(s.turn[d]) /\ Started(s.turn[d]) => ~Terminal(u.turn[d]) /\ Started(u.turn[d])
       /\ d # c => /\ u.protected \/ u.turn[d] = s.turn[d]
                   /\ ~Started(s.turn[d]) => u.turn[d].phase \in {"start", "terminal"}

\* Faults follow one another.
LEMMA CalmCompose ==
  ASSUME NEW C, NEW s, NEW u, NEW v, NEW c, Calm(C, s, u, c), Calm(C, u, v, c)
  PROVE  Calm(C, s, v, c)
<1>1. /\ v.setup = s.setup /\ v.status = s.status /\ v.lease = s.lease
      /\ v.admitted = s.admitted /\ v.deadline = s.deadline /\ v.compared = s.compared
      /\ s.protected => v.protected
      /\ s.controlFailed => v.controlFailed
  BY DEF Calm
<1>2. ASSUME NEW d \in C
      PROVE  /\ Terminal(s.turn[d]) => v.turn[d] = s.turn[d]
             /\ Waiting(v.turn[d]) => Waiting(s.turn[d])
             /\ ~Terminal(s.turn[d]) /\ Started(s.turn[d]) =>
                  ~Terminal(v.turn[d]) /\ Started(v.turn[d])
  BY DEF Calm
<1>3. ASSUME NEW d \in C, d # c
      PROVE  v.protected \/ v.turn[d] = s.turn[d]
  BY <1>3 DEF Calm
<1>4. ASSUME NEW d \in C, d # c, ~Started(s.turn[d])
      PROVE  v.turn[d].phase \in {"start", "terminal"}
  <2>1. u.turn[d].phase \in {"start", "terminal"}
    BY <1>4 DEF Calm
  <2> QED BY <1>4, <2>1 DEF Calm, Started, Terminal
<1> QED BY <1>1, <1>2, <1>3, <1>4 DEF Calm

\* A memory is unchanged by no fault.
LEMMA CalmRefl ==
  ASSUME NEW C, NEW s, NEW c
  PROVE  Calm(C, s, s, c)
BY DEF Calm, Started

\* The fields of a memory have their types.
LEMMA MemoryFields ==
  ASSUME NEW C, NEW s \in MemoryOf(C)
  PROVE  /\ s.setup \in Setups /\ s.status \in Status /\ s.turn \in [C -> Turn]
         /\ s.deadline \subseteq C /\ s.lease \in [C -> HeldLease]
         /\ s.runtime \in [C -> Runtime] /\ s.verdict \in [C -> Verdict]
         /\ s.admitted \in Seq(C) /\ s.protected \in BOOLEAN /\ s.controlFailed \in BOOLEAN
         /\ s.classified \subseteq C /\ s.contained \subseteq C /\ s.clean \in BOOLEAN
         /\ s.deferred \in BOOLEAN /\ s.revoked \in BOOLEAN /\ s.compared \in BOOLEAN
BY DEF MemoryOf

\* _enter_fault: it stops every child, rejects them all, and keeps what every
\* memory satisfies, once the control failure cf is recorded.
LEMMA EnterFaultKeeps ==
  ASSUME NEW s, NEW x, NEW cf \in BOOLEAN, NEW a \in SUBSET Child, NEW c,
         Core(Child, s, x, cf)
  PROVE  /\ Core(Child, EnterFault(s, cf, a), x, FALSE)
         /\ Judged(Child, EnterFault(s, cf, a))
         /\ Calm(Child, s, EnterFault(s, cf, a), c)
<1> DEFINE u == EnterFault(s, cf, a)
<1>1. s \in MemoryOf(Child) /\ s.turn \in [Child -> Turn] /\ s.runtime \in [Child -> Runtime]
  BY MemoryFields DEF Core
<1>2. ASSUME NEW d \in Child
      PROVE  /\ TurnOK(s.turn[d]) /\ s.turn[d] \in Turn
             /\ SessionOK(s.turn[d], x[d], s.controlFailed \/ cf)
             /\ s.runtime[d] = "completed" => s.turn[d].final = "completed"
             /\ d \in s.deadline => ~Terminal(s.turn[d]) /\ Started(s.turn[d])
  BY <1>1 DEF Core
<1>3. ASSUME NEW d \in Child
      PROVE  /\ Stopped(s.turn[d], FaultTurn(s.turn[d]))
             /\ ~Started(s.turn[d]) => Terminal(FaultTurn(s.turn[d]))
             /\ SessionOK(FaultTurn(s.turn[d]), x[d], s.controlFailed \/ cf)
  BY <1>2, FaultTurnStops
<1>4. u \in MemoryOf(Child)
  BY <1>1, <1>3, EnterFaultType DEF Stopped
<1>5. /\ u.protected /\ u.controlFailed = (s.controlFailed \/ cf)
      /\ u.runtime = [d \in Child |-> IF d \in a THEN "failed-ambiguous"
                                      ELSE IF s.runtime[d] = "completed" THEN "completed"
                                      ELSE "interrupted"]
      /\ u.verdict = [d \in Child |-> "rejected"]
      /\ u.turn = [d \in Child |-> FaultTurn(s.turn[d])]
      /\ u.setup = s.setup /\ u.status = s.status /\ u.deadline = s.deadline
      /\ u.lease = s.lease /\ u.admitted = s.admitted
      /\ u.clean = s.clean /\ u.compared = s.compared
  BY <1>1, EnterFaultFields
<1> HIDE DEF u
<1>6. Judged(Child, u)
  BY <1>5 DEF Judged
<1>7. Calm(Child, s, u, c)
  <2>1. ASSUME NEW d \in Child
        PROVE  /\ Terminal(s.turn[d]) => u.turn[d] = s.turn[d]
               /\ Waiting(u.turn[d]) => Waiting(s.turn[d])
               /\ ~Terminal(s.turn[d]) /\ Started(s.turn[d]) =>
                    ~Terminal(u.turn[d]) /\ Started(u.turn[d])
               /\ ~Started(s.turn[d]) => u.turn[d].phase \in {"start", "terminal"}
    BY <1>3, <1>5 DEF Stopped, Terminal
  <2> QED BY <1>5, <2>1 DEF Calm
<1>8. Protected(Child, u)
  BY <1>3, <1>5 DEF Protected, Stopped
<1>9. ASSUME NEW d \in Child
      PROVE  /\ TurnOK(u.turn[d])
             /\ SessionOK(u.turn[d], x[d], u.controlFailed \/ FALSE)
             /\ u.runtime[d] = "completed" => u.turn[d].final = "completed"
             /\ d \in u.deadline => ~Terminal(u.turn[d]) /\ Started(u.turn[d])
  <2>1. u.turn[d] = FaultTurn(s.turn[d])
    BY <1>5
  <2>2. u.runtime[d] = "completed" => s.runtime[d] = "completed"
    BY <1>5
  <2>3. TurnOK(u.turn[d]) /\ SessionOK(u.turn[d], x[d], u.controlFailed)
    BY <1>3, <1>5, <2>1 DEF Stopped
  <2>4. SessionOK(u.turn[d], x[d], u.controlFailed \/ FALSE)
    BY <2>3 DEF SessionOK
  <2>5. d \in u.deadline => ~Terminal(u.turn[d]) /\ Started(u.turn[d])
    BY <1>2, <1>3, <1>5, <2>1 DEF Stopped
  <2>6. u.runtime[d] = "completed" => u.turn[d].final = "completed"
    BY <1>2, <1>3, <2>1, <2>2 DEF Stopped
  <2> QED BY <2>3, <2>4, <2>5, <2>6
<1>10. Core(Child, u, x, FALSE)
  BY <1>4, <1>8, <1>9 DEF Core
<1> QED BY <1>5, <1>6, <1>7, <1>10 DEF u

\* It is recorded, and says nothing new of the workspaces.
LEMMA EnterFaultMarks ==
  ASSUME NEW s \in MemoryOf(Child), NEW cf \in BOOLEAN, NEW a \in SUBSET Child
  PROVE  /\ EnterFault(s, cf, a).protected
         /\ EnterFault(s, cf, a).controlFailed <=> (s.controlFailed \/ cf)
         /\ EnterFault(s, cf, a).clean <=> s.clean
BY DEF MemoryOf, EnterFault

\* A set of children has a last one, which EnterFaults leaves affected.
LEMMA LastChild ==
  ASSUME PoolAssumption, pool.setup \in Setups, NEW a \in SUBSET Child, a # {}
  PROVE  \E c \in a : \A d \in a : d <= c
<1>1. N \in Nat /\ Child = 1..N
  BY DEF PoolAssumption, N, Child
<1> DEFINE T == {k \in Nat : \E c \in a : k = N - c}
<1>2. T \subseteq Nat
  OBVIOUS
<1>3. T # {}
  <2>1. PICK c \in a : TRUE
    OBVIOUS
  <2>2. N - c \in Nat
    BY <1>1, <2>1
  <2> QED BY <2>1, <2>2
<1>4. IsWellFoundedOn(OpToRel(<, Nat), Nat)
  BY NatLessThanWellFounded
<1> HIDE DEF T
<1>5. PICK m \in T : \A k \in T : ~(<<k, m>> \in OpToRel(<, Nat))
  BY <1>2, <1>3, <1>4, WFMin
<1>6. \A k \in T : ~(k < m)
  BY <1>2, <1>5 DEF OpToRel
<1>7. PICK c \in a : m = N - c
  BY <1>5 DEF T
<1>8. ASSUME NEW d \in a PROVE d <= c
  <2>1. N - d \in T
    BY <1>1 DEF T
  <2> QED BY <1>1, <1>6, <1>7, <2>1
<1> QED BY <1>7, <1>8

\* The fault of several children, of which one is left affected.
LEMMA EnterFaultsKeeps ==
  ASSUME PoolAssumption, pool.setup \in Setups,
         NEW s, NEW x, NEW cf \in BOOLEAN, NEW a \in SUBSET Child, NEW c,
         Core(Child, s, x, FALSE)
  PROVE  /\ Core(Child, EnterFaults(s, cf, a), x, FALSE)
         /\ Judged(Child, s) => Judged(Child, EnterFaults(s, cf, a))
         /\ Calm(Child, s, EnterFaults(s, cf, a), c)
         /\ EnterFaults(s, cf, a).clean <=> s.clean
<1>1. CASE a = {}
  <2>1. EnterFaults(s, cf, a) = s
    BY <1>1 DEF EnterFaults
  <2> QED BY <2>1, CalmRefl
<1>2. CASE a # {}
  <2> DEFINE last == CHOOSE l \in a : \A d \in a : d <= l
             r == a \ {last}
             u == EnterFault(s, cf, r)
  <2>1. last \in a
    BY <1>2, LastChild
  <2>2. r \in SUBSET Child /\ {last} \in SUBSET Child
    BY <2>1
  <2>3. EnterFaults(s, cf, a) = EnterFault(u, cf, {last})
    BY <1>2 DEF EnterFaults
  <2>4. \A d \in Child : SessionOK(s.turn[d], x[d], s.controlFailed \/ cf)
    BY DEF Core, SessionOK
  <2>5. Core(Child, s, x, cf)
    BY <2>4 DEF Core
  <2> HIDE DEF last, r
  <2>6. Core(Child, u, x, FALSE) /\ Calm(Child, s, u, c)
    BY <2>2, <2>5, EnterFaultKeeps
  <2>11. s \in MemoryOf(Child)
    BY DEF Core
  <2>12. u.clean <=> s.clean
    BY <2>2, <2>11, EnterFaultMarks
  <2> HIDE DEF u
  <2>7. \A d \in Child : SessionOK(u.turn[d], x[d], u.controlFailed \/ cf)
    BY <2>6 DEF Core, SessionOK
  <2>8. Core(Child, u, x, cf)
    BY <2>6, <2>7 DEF Core
  <2>9. /\ Core(Child, EnterFault(u, cf, {last}), x, FALSE)
        /\ Judged(Child, EnterFault(u, cf, {last}))
        /\ Calm(Child, u, EnterFault(u, cf, {last}), c)
    BY <2>2, <2>8, EnterFaultKeeps
  <2>13. u \in MemoryOf(Child)
    BY <2>6 DEF Core
  <2>14. EnterFault(u, cf, {last}).clean <=> u.clean
    BY <2>2, <2>13, EnterFaultMarks
  <2>10. Calm(Child, s, EnterFault(u, cf, {last}), c)
    BY <2>6, <2>9, CalmCompose
  <2> QED BY <2>3, <2>6, <2>9, <2>10, <2>12, <2>14
<1> QED BY <1>1, <1>2

\* What the coordinator's private methods keep, from a memory s to u.
Kept(C, s, u, x, c) == Core(C, u, x, FALSE) /\ Judged(C, u) /\ Calm(C, s, u, c)

\* They follow one another.
LEMMA KeptCompose ==
  ASSUME NEW C, NEW s, NEW u, NEW v, NEW x, NEW c, Kept(C, s, u, x, c), Kept(C, u, v, x, c)
  PROVE  Kept(C, s, v, x, c)
BY CalmCompose DEF Kept

\* A method that does nothing keeps it all.
LEMMA KeptRefl ==
  ASSUME NEW C, NEW s, NEW x, NEW c, Core(C, s, x, FALSE), Judged(C, s)
  PROVE  Kept(C, s, s, x, c)
BY CalmRefl DEF Kept

\* _enter_fault, of a memory that needs no control failure to be recorded.
LEMMA FaultKept ==
  ASSUME NEW s, NEW x, NEW cf \in BOOLEAN, NEW a \in SUBSET Child, NEW c,
         Core(Child, s, x, FALSE)
  PROVE  Kept(Child, s, EnterFault(s, cf, a), x, c)
<1>1. \A d \in Child : SessionOK(s.turn[d], x[d], s.controlFailed \/ cf)
  BY DEF Core, SessionOK
<1>2. Core(Child, s, x, cf)
  BY <1>1 DEF Core
<1> QED BY <1>2, EnterFaultKeeps DEF Kept

\* The memory u differs from s in the verdicts and the workspace evidence only.
SameControl(s, u) ==
  /\ u.setup = s.setup /\ u.status = s.status /\ u.turn = s.turn /\ u.deadline = s.deadline
  /\ u.lease = s.lease /\ u.runtime = s.runtime /\ u.admitted = s.admitted
  /\ u.protected <=> s.protected
  /\ u.controlFailed <=> s.controlFailed
  /\ u.classified = s.classified /\ u.contained = s.contained
  /\ u.compared <=> s.compared

\* Such a change keeps everything but the judgement.
LEMMA SameControlKept ==
  ASSUME NEW C, NEW s, NEW u \in MemoryOf(C), NEW x, NEW c,
         Core(C, s, x, FALSE), SameControl(s, u), Judged(C, u)
  PROVE  Kept(C, s, u, x, c)
<1>1. s \in MemoryOf(C)
  BY DEF Core
<1>2. u.compared = s.compared /\ u.controlFailed = s.controlFailed
  BY <1>1, MemoryFields DEF SameControl
<1>3. Protected(C, u)
  BY DEF SameControl, Core, Protected
<1>4. ASSUME NEW d \in C
      PROVE  /\ TurnOK(u.turn[d])
             /\ SessionOK(u.turn[d], x[d], u.controlFailed \/ FALSE)
             /\ u.runtime[d] = "completed" => u.turn[d].final = "completed"
             /\ d \in u.deadline => ~Terminal(u.turn[d]) /\ Started(u.turn[d])
  BY <1>2 DEF Core, SameControl
<1>5. Core(C, u, x, FALSE)
  BY <1>3, <1>4 DEF Core
<1>6. Calm(C, s, u, c)
  BY <1>2 DEF Calm, SameControl, Started
<1> QED BY <1>5, <1>6 DEF Kept

\* What a contained fault makes of the memory, field by field.
LEMMA ContainedFields ==
  ASSUME NEW s \in MemoryOf(Child), NEW c \in Child
  PROVE  /\ RecordContainedFault(s, c).contained = s.contained \cup {c}
         /\ RecordContainedFault(s, c).classified = s.classified \cup {c}
         /\ RecordContainedFault(s, c).runtime = [s.runtime EXCEPT ![c] = "failed-contained"]
         /\ RecordContainedFault(s, c).verdict = [s.verdict EXCEPT ![c] = "rejected"]
         /\ RecordContainedFault(s, c).turn = [s.turn EXCEPT ![c] = ContainedTurn(s.turn[c])]
         /\ RecordContainedFault(s, c).setup = s.setup
         /\ RecordContainedFault(s, c).status = s.status
         /\ RecordContainedFault(s, c).deadline = s.deadline
         /\ RecordContainedFault(s, c).lease = s.lease
         /\ RecordContainedFault(s, c).admitted = s.admitted
         /\ RecordContainedFault(s, c).protected = s.protected
         /\ RecordContainedFault(s, c).controlFailed = s.controlFailed
         /\ RecordContainedFault(s, c).compared = s.compared
         /\ ContainedTurn(s.turn[c]) \in Turn => RecordContainedFault(s, c) \in MemoryOf(Child)
<1> DEFINE k == s.contained \cup {c}
           l == s.classified \cup {c}
           r == [s.runtime EXCEPT ![c] = "failed-contained"]
           v == [s.verdict EXCEPT ![c] = "rejected"]
           t == [s.turn EXCEPT ![c] = ContainedTurn(s.turn[c])]
<1>1. RecordContainedFault(s, c) =
        [s EXCEPT !.contained = k, !.classified = l, !.runtime = r, !.verdict = v, !.turn = t]
  BY DEF RecordContainedFault, MemoryOf, ContainedTurn
<1>2. /\ k \in SUBSET Child /\ l \in SUBSET Child
      /\ r \in [Child -> Runtime] /\ v \in [Child -> Verdict]
      /\ ContainedTurn(s.turn[c]) \in Turn => t \in [Child -> Turn]
  BY MemoryFields DEF Runtime, Verdict
<1> HIDE DEF k, l, r, v, t
<1>3. ContainedTurn(s.turn[c]) \in Turn => RecordContainedFault(s, c) \in MemoryOf(Child)
  BY <1>1, <1>2 DEF MemoryOf
<1> USE DEF k, l, r, v, t
<1> QED BY <1>1, <1>3 DEF MemoryOf

\* _record_contained_fault.
LEMMA ContainedKept ==
  ASSUME NEW s, NEW x, NEW c \in Child, Core(Child, s, x, FALSE), Judged(Child, s)
  PROVE  Kept(Child, s, RecordContainedFault(s, c), x, c)
<1> DEFINE u == RecordContainedFault(s, c)
           w == ContainedTurn(s.turn[c])
<1>1. /\ s \in MemoryOf(Child) /\ s.turn \in [Child -> Turn] /\ s.runtime \in [Child -> Runtime]
      /\ s.verdict \in [Child -> Verdict]
  BY MemoryFields DEF Core
<1>2. ASSUME NEW d \in Child
      PROVE  /\ TurnOK(s.turn[d]) /\ s.turn[d] \in Turn
             /\ SessionOK(s.turn[d], x[d], s.controlFailed \/ FALSE)
             /\ s.runtime[d] = "completed" => s.turn[d].final = "completed"
             /\ d \in s.deadline => ~Terminal(s.turn[d]) /\ Started(s.turn[d])
  BY <1>1 DEF Core
<1>3. Stopped(s.turn[c], w) /\ SessionOK(w, x[c], s.controlFailed \/ FALSE)
  BY <1>2, ContainedTurnStops
<1>4. /\ u \in MemoryOf(Child)
      /\ u.contained = s.contained \cup {c} /\ u.classified = s.classified \cup {c}
      /\ u.runtime = [s.runtime EXCEPT ![c] = "failed-contained"]
      /\ u.verdict = [s.verdict EXCEPT ![c] = "rejected"]
      /\ u.turn = [s.turn EXCEPT ![c] = w]
      /\ u.setup = s.setup /\ u.status = s.status /\ u.deadline = s.deadline
      /\ u.lease = s.lease /\ u.admitted = s.admitted /\ u.protected = s.protected
      /\ u.controlFailed = s.controlFailed /\ u.compared = s.compared
  BY <1>1, <1>3, ContainedFields DEF Stopped
<1> HIDE DEF u, w
<1>5. \A d \in Child : u.turn[d] = IF d = c THEN w ELSE s.turn[d]
  BY <1>1, <1>4
<1>6. Judged(Child, u)
  BY <1>1, <1>4 DEF Judged
<1>7. Calm(Child, s, u, c)
  <2>1. ASSUME NEW d \in Child
        PROVE  /\ Terminal(s.turn[d]) => u.turn[d] = s.turn[d]
               /\ Waiting(u.turn[d]) => Waiting(s.turn[d])
               /\ ~Terminal(s.turn[d]) /\ Started(s.turn[d]) =>
                    ~Terminal(u.turn[d]) /\ Started(u.turn[d])
               /\ d # c => /\ u.protected \/ u.turn[d] = s.turn[d]
                           /\ ~Started(s.turn[d]) => u.turn[d].phase \in {"start", "terminal"}
    <3>1. CASE d = c
      BY <1>3, <1>5, <3>1 DEF Stopped
    <3>2. CASE d # c
      BY <1>5, <3>2 DEF Started
    <3> QED BY <3>1, <3>2
  <2> QED BY <1>4, <2>1 DEF Calm
<1>8. Protected(Child, u)
  <2>1. s.protected => \A d \in Child : u.turn[d].phase \in StoppingPhases \cup {"terminal"}
    BY <1>3, <1>5 DEF Stopped, Core, Protected
  <2> QED BY <1>4, <2>1 DEF Protected, Core
<1>9. ASSUME NEW d \in Child
      PROVE  /\ TurnOK(u.turn[d])
             /\ SessionOK(u.turn[d], x[d], u.controlFailed \/ FALSE)
             /\ u.runtime[d] = "completed" => u.turn[d].final = "completed"
             /\ d \in u.deadline => ~Terminal(u.turn[d]) /\ Started(u.turn[d])
  <2>1. CASE d = c
    BY <1>1, <1>2, <1>3, <1>4, <1>5, <2>1 DEF Stopped
  <2>2. CASE d # c
    BY <1>1, <1>2, <1>4, <1>5, <2>2
  <2> QED BY <2>1, <2>2
<1>10. Core(Child, u, x, FALSE)
  BY <1>4, <1>8, <1>9 DEF Core
<1> QED BY <1>6, <1>7, <1>10 DEF Kept, u

\* _try_contain_child_fault, and the pool-wide fault when it declines.
LEMMA ChildFaultKept ==
  ASSUME NEW s, NEW x, NEW c \in Child, NEW kind, NEW authorized,
         Core(Child, s, x, FALSE), Judged(Child, s)
  PROVE  Kept(Child, s, ChildFault(s, c, kind, authorized), x, c)
<1>1. {c} \in SUBSET Child
  OBVIOUS
<1>2. Kept(Child, s, EnterFault(s, FALSE, {c}), x, c)
  BY <1>1, FaultKept
<1>3. Kept(Child, s, RecordContainedFault(s, c), x, c)
  BY ContainedKept
<1>4. Kept(Child, s, s, x, c)
  BY KeptRefl
<1> QED BY <1>2, <1>3, <1>4 DEF ChildFault

\* Removing the fast path rejects its children.
LEMMA RevokeKept ==
  ASSUME NEW s, NEW x, NEW c, Core(Child, s, x, FALSE), Judged(Child, s)
  PROVE  /\ Kept(Child, s, Revoke(s), x, c)
         /\ SameControl(s, Revoke(s))
         /\ Revoke(s).clean <=> s.clean
<1>1. s \in MemoryOf(Child)
  BY DEF Core
<1>2. CASE FastChildren(s) = {}
  <2>1. Revoke(s) = s
    BY <1>2 DEF Revoke
  <2> QED BY <2>1, KeptRefl DEF SameControl
<1>3. CASE FastChildren(s) # {}
  <2> DEFINE v == [d \in Child |-> IF d \in FastPath THEN "rejected" ELSE s.verdict[d]]
             u == [s EXCEPT !.verdict = v, !.revoked = TRUE, !.deferred = FALSE]
  <2>1. Revoke(s) = u
    BY <1>3 DEF Revoke
  <2>2. v \in [Child -> Verdict]
    BY <1>1, MemoryFields DEF Verdict
  <2>3. \A d \in Child : s.verdict[d] = "rejected" => v[d] = "rejected"
    OBVIOUS
  <2> HIDE DEF v
  <2>4. u \in MemoryOf(Child)
    BY <1>1, <2>2 DEF MemoryOf
  <2>5. SameControl(s, u) /\ u.verdict = v /\ (u.clean <=> s.clean)
    BY <1>1 DEF MemoryOf, SameControl
  <2> HIDE DEF u
  <2>6. Judged(Child, u)
    BY <2>3, <2>5 DEF Judged, SameControl
  <2> QED BY <2>1, <2>4, <2>5, <2>6, SameControlKept
<1> QED BY <1>2, <1>3

\* The workspace evidence is recorded.
LEMMA CleanKept ==
  ASSUME NEW s, NEW x, NEW c, NEW b \in BOOLEAN, Core(Child, s, x, FALSE), Judged(Child, s)
  PROVE  /\ Kept(Child, s, [s EXCEPT !.clean = b], x, c)
         /\ SameControl(s, [s EXCEPT !.clean = b])
         /\ [s EXCEPT !.clean = b].clean <=> b
         /\ Kept(Child, s, [s EXCEPT !.clean = TRUE, !.deferred = FALSE], x, c)
         /\ Kept(Child, s, [s EXCEPT !.deferred = TRUE], x, c)
<1>1. s \in MemoryOf(Child)
  BY DEF Core
<1>2. ASSUME NEW u, \/ u = [s EXCEPT !.clean = b]
                    \/ u = [s EXCEPT !.clean = TRUE, !.deferred = FALSE]
                    \/ u = [s EXCEPT !.deferred = TRUE]
      PROVE  SameControl(s, u) /\ Kept(Child, s, u, x, c)
  <2>1. u \in MemoryOf(Child) /\ SameControl(s, u) /\ u.verdict = s.verdict
    <3>1. CASE u = [s EXCEPT !.clean = b]
      BY <1>1, <3>1 DEF MemoryOf, SameControl
    <3>2. CASE u = [s EXCEPT !.clean = TRUE, !.deferred = FALSE]
      BY <1>1, <3>2 DEF MemoryOf, SameControl
    <3>3. CASE u = [s EXCEPT !.deferred = TRUE]
      BY <1>1, <3>3 DEF MemoryOf, SameControl
    <3> QED BY <1>2, <3>1, <3>2, <3>3
  <2>2. Judged(Child, u)
    BY <2>1 DEF Judged, SameControl
  <2> QED BY <2>1, <2>2, SameControlKept
<1>3. [s EXCEPT !.clean = b].clean <=> b
  BY <1>1 DEF MemoryOf
<1> QED BY <1>2, <1>3

\* The fault of a comparison that found a violation, or failed.
LEMMA RevokedFaultKept ==
  ASSUME NEW s, NEW x, NEW cf \in BOOLEAN, NEW c, Core(Child, s, x, FALSE), Judged(Child, s)
  PROVE  /\ Kept(Child, s, EnterFault(Revoke(s), cf, {}), x, c)
         /\ EnterFault(Revoke(s), cf, {}).protected
         /\ EnterFault(Revoke(s), cf, {}).controlFailed <=> s.controlFailed \/ cf
         /\ EnterFault(Revoke(s), cf, {}).clean <=> s.clean
<1> DEFINE r == Revoke(s)
<1>1. Kept(Child, s, r, x, c) /\ SameControl(s, r) /\ (r.clean <=> s.clean)
  BY RevokeKept
<1> HIDE DEF r
<1>2. Core(Child, r, x, FALSE) /\ r \in MemoryOf(Child) /\ {} \in SUBSET Child
  BY <1>1 DEF Kept, Core
<1>3. Kept(Child, r, EnterFault(r, cf, {}), x, c)
  BY <1>2, FaultKept
<1>4. /\ EnterFault(r, cf, {}).protected
      /\ EnterFault(r, cf, {}).controlFailed <=> r.controlFailed \/ cf
      /\ EnterFault(r, cf, {}).clean <=> r.clean
  BY <1>2, EnterFaultMarks
<1>5. Kept(Child, s, EnterFault(r, cf, {}), x, c)
  BY <1>1, <1>3, KeptCompose
<1> QED BY <1>1, <1>4, <1>5 DEF SameControl, r

\* The same, after the violation was recorded.
LEMMA DirtyFaultKept ==
  ASSUME NEW s, NEW x, NEW cf \in BOOLEAN, NEW c, Core(Child, s, x, FALSE), Judged(Child, s)
  PROVE  /\ Kept(Child, s, EnterFault(Revoke([s EXCEPT !.clean = FALSE]), cf, {}), x, c)
         /\ EnterFault(Revoke([s EXCEPT !.clean = FALSE]), cf, {}).protected
         /\ EnterFault(Revoke([s EXCEPT !.clean = FALSE]), cf, {}).controlFailed <=>
              s.controlFailed \/ cf
         /\ ~EnterFault(Revoke([s EXCEPT !.clean = FALSE]), cf, {}).clean
<1> DEFINE r == [s EXCEPT !.clean = FALSE]
<1>1. Kept(Child, s, r, x, c) /\ SameControl(s, r) /\ ~r.clean
  BY CleanKept
<1> HIDE DEF r
<1>2. Core(Child, r, x, FALSE) /\ Judged(Child, r)
  BY <1>1 DEF Kept
<1>3. /\ Kept(Child, r, EnterFault(Revoke(r), cf, {}), x, c)
      /\ EnterFault(Revoke(r), cf, {}).protected
      /\ EnterFault(Revoke(r), cf, {}).controlFailed <=> r.controlFailed \/ cf
      /\ EnterFault(Revoke(r), cf, {}).clean <=> r.clean
  BY <1>2, RevokedFaultKept
<1>4. Kept(Child, s, EnterFault(Revoke(r), cf, {}), x, c)
  BY <1>1, <1>3, KeptCompose
<1> QED BY <1>1, <1>3, <1>4 DEF SameControl, r

\* The comparison after a callback.
LEMMA CompareAfterKept ==
  ASSUME NEW s, NEW x, NEW c, NEW result, Core(Child, s, x, FALSE), Judged(Child, s)
  PROVE  Kept(Child, s, CompareAfter(s, result), x, c)
<1>1. Kept(Child, s, EnterFault(Revoke([s EXCEPT !.clean = FALSE]), FALSE, {}), x, c)
  BY DirtyFaultKept
<1>2. Kept(Child, s, EnterFault(Revoke(s), TRUE, {}), x, c)
  BY RevokedFaultKept
<1>3. Kept(Child, s, [s EXCEPT !.clean = TRUE, !.deferred = FALSE], x, c)
  BY CleanKept
<1> QED BY <1>1, <1>2, <1>3 DEF CompareAfter

\* The last part of _invoke_child.
LEMMA ComparePartKept ==
  ASSUME NEW s, NEW x, NEW c, NEW callback, NEW o, Core(Child, s, x, FALSE), Judged(Child, s)
  PROVE  Kept(Child, s, ComparePart(s, c, callback, o), x, c)
<1> DEFINE u == IF o.overrun THEN EnterFault(s, FALSE, {}) ELSE s
<1>1. Kept(Child, s, EnterFault(s, FALSE, {}), x, c)
  <2>1. {} \in SUBSET Child
    OBVIOUS
  <2> QED BY <2>1, FaultKept
<1>2. Kept(Child, s, u, x, c)
  BY <1>1, KeptRefl
<1>3. ComparePart(s, c, callback, o) = u \/ ComparePart(s, c, callback, o) = CompareAfter(u, o.result)
      \/ ComparePart(s, c, callback, o) = [u EXCEPT !.deferred = TRUE]
  BY DEF ComparePart
<1> HIDE DEF u
<1>4. Core(Child, u, x, FALSE) /\ Judged(Child, u)
  BY <1>2 DEF Kept
<1>5. Kept(Child, u, CompareAfter(u, o.result), x, c)
  BY <1>4, CompareAfterKept
<1>6. Kept(Child, u, [u EXCEPT !.deferred = TRUE], x, c)
  <2>1. TRUE \in BOOLEAN
    OBVIOUS
  <2> QED BY <1>4, <2>1, CleanKept
<1>7. Kept(Child, s, CompareAfter(u, o.result), x, c)
  BY <1>2, <1>5, KeptCompose
<1>8. Kept(Child, s, [u EXCEPT !.deferred = TRUE], x, c)
  BY <1>2, <1>6, KeptCompose
<1> QED BY <1>2, <1>3, <1>7, <1>8

\* _read_evidence.
LEMMA ReadEvidenceKept ==
  ASSUME NEW s, NEW x, NEW c \in Child, NEW e, e.verdict \in Verdict, NEW authorized,
         Core(Child, s, x, FALSE), Judged(Child, s)
  PROVE  Kept(Child, s, ReadEvidence(s, c, e, authorized), x, c)
<1> DEFINE s1 == IF c \in RevokedChildren(s) \cup Rejected(s) THEN s
                 ELSE [s EXCEPT !.verdict[c] = e.verdict]
           s2 == IF e.budget THEN EnterFault(s1, FALSE, {}) ELSE s1
<1>1. {} \in SUBSET Child /\ {c} \in SUBSET Child
  OBVIOUS
<1>2. Kept(Child, s, s1, x, c)
  <2>1. CASE c \in RevokedChildren(s) \cup Rejected(s)
    BY <2>1, KeptRefl
  <2>2. CASE c \notin RevokedChildren(s) \cup Rejected(s)
    <3> DEFINE v == [s.verdict EXCEPT ![c] = e.verdict]
               u == [s EXCEPT !.verdict = v]
    <3>1. s \in MemoryOf(Child) /\ s.verdict \in [Child -> Verdict]
      BY MemoryFields DEF Core
    <3>2. s1 = u
      BY <2>2, <3>1 DEF MemoryOf
    <3>3. v \in [Child -> Verdict] /\ \A d \in Child : d # c => v[d] = s.verdict[d]
      BY <3>1
    <3> HIDE DEF v
    <3>4. u \in MemoryOf(Child)
      BY <3>1, <3>3 DEF MemoryOf
    <3>5. SameControl(s, u) /\ u.verdict = v
      BY <3>1 DEF MemoryOf, SameControl
    <3> HIDE DEF u
    <3>6. ~s.protected /\ c \notin s.contained
      BY <2>2 DEF Rejected
    <3>7. Judged(Child, u)
      BY <3>3, <3>5, <3>6 DEF Judged, SameControl
    <3>8. Kept(Child, s, u, x, c)
      BY <3>4, <3>5, <3>7, SameControlKept
    <3> QED BY <3>2, <3>8
  <2> QED BY <2>1, <2>2
<1> HIDE DEF s1
<1>3. Core(Child, s1, x, FALSE) /\ Judged(Child, s1)
  BY <1>2 DEF Kept
<1>4. Kept(Child, s1, EnterFault(s1, FALSE, {}), x, c) /\ Kept(Child, s1, s1, x, c)
  BY <1>1, <1>3, FaultKept, KeptRefl
<1>5. Kept(Child, s1, s2, x, c)
  BY <1>4
<1>6. Kept(Child, s, s2, x, c)
  BY <1>2, <1>5, KeptCompose
<1>7. \/ ReadEvidence(s, c, e, authorized) = EnterFault(s, TRUE, {c})
      \/ ReadEvidence(s, c, e, authorized) = EnterFault(s2, TRUE, {c})
      \/ ReadEvidence(s, c, e, authorized) = ChildFault(s2, c, e.fault, authorized)
      \/ ReadEvidence(s, c, e, authorized) = s2
  BY DEF ReadEvidence, s1
<1> HIDE DEF s2
<1>8. Core(Child, s2, x, FALSE) /\ Judged(Child, s2)
  BY <1>6 DEF Kept
<1>9. Kept(Child, s, EnterFault(s, TRUE, {c}), x, c)
  BY <1>1, FaultKept
<1>10. Kept(Child, s2, EnterFault(s2, TRUE, {c}), x, c)
  BY <1>1, <1>8, FaultKept
<1>11. Kept(Child, s2, ChildFault(s2, c, e.fault, authorized), x, c)
  BY <1>8, ChildFaultKept
<1>12. /\ Kept(Child, s, EnterFault(s2, TRUE, {c}), x, c)
       /\ Kept(Child, s, ChildFault(s2, c, e.fault, authorized), x, c)
  BY <1>6, <1>10, <1>11, KeptCompose
<1> QED BY <1>6, <1>7, <1>9, <1>12

-----------------------------------------------------------------------------
(* One invocation of a child. *)

\* The turn that _invoke_child steps: a waiting one is resumed first.
Resumed(t) == IF Waiting(t) THEN ResumeTurn(t) ELSE t

\* Resuming keeps what is known of the turn and of its session.
LEMMA ResumedTurn ==
  ASSUME NEW t \in Turn, TurnOK(t), ~Terminal(t)
  PROVE  /\ Resumed(t) \in Turn /\ TurnOK(Resumed(t))
         /\ ~Terminal(Resumed(t)) /\ ~Waiting(Resumed(t))
         /\ t.phase \in StoppingPhases => Resumed(t).phase \in StoppingPhases
         /\ Resumed(t).phase = "check" => t.phase \in {"check", "waiting"}
         /\ Resumed(t).phase \in {"start", "arm", "send-input", "mark-dispatched",
                                  "finalize-control-failed"} => t = Resumed(t)
         /\ \A w, cf : SessionOK(t, w, cf) => SessionOK(Resumed(t), w, cf)
<1>1. /\ t.phase \in TurnPhase /\ t.errors \in BOOLEAN
      /\ t.final \in {"completed", "closed", "control-failed", "none"}
      /\ t = [phase |-> t.phase, errors |-> t.errors, final |-> t.final]
  BY TurnFields
<1>2. CASE ~Waiting(t)
  BY <1>2 DEF Resumed
<1>3. CASE Waiting(t)
  <2> DEFINE p == IF t.phase = "waiting" THEN "check"
                  ELSE IF t.phase = "waiting-close-complete" THEN "close-complete"
                  ELSE "close-interrupt"
  <2>1. Resumed(t) = [phase |-> p, errors |-> t.errors, final |-> t.final]
    BY <1>1, <1>3 DEF Resumed, ResumeTurn
  <2>2. t.phase \in {"waiting", "waiting-close-complete", "waiting-close-interrupt"}
    BY <1>3 DEF Waiting, WaitPhases
  <2> QED
    BY <1>1, <2>1, <2>2, PhaseList DEF Turn, TurnOK, SessionOK, Terminal, Waiting, Started,
       StoppingPhases, InterruptPhases, WaitPhases, TerminalState
<1> QED BY <1>2, <1>3

\* What the session of a child may be after a callback (SessionsAfter).
Reached(w, y, callback, reply) ==
  \/ y = w /\ ~(callback \in {"send_input", "close"} /\ reply = "ok")
  \/ callback = "send_input" /\ y = "working"
  \/ callback = "close" /\ y = "closed"

\* A failed callback.
LEMMA FailedStep ==
  ASSUME NEW t \in Turn, TurnOK(t), ~Terminal(t), ~Waiting(t)
  PROVE  \/ /\ StepTurn(t, "fails") =
                 [phase |-> "finalize-control-failed", errors |-> TRUE, final |-> "none"]
            /\ t.phase # "finalize-control-failed"
         \/ /\ StepTurn(t, "fails") =
                 [phase |-> "terminal", errors |-> TRUE, final |-> "control-failed"]
            /\ t.phase = "finalize-control-failed"
<1>1. /\ t.phase \in TurnPhase /\ t.errors \in BOOLEAN /\ t.final = "none"
      /\ t = [phase |-> t.phase, errors |-> t.errors, final |-> t.final]
  BY TurnFields DEF TurnOK
<1> QED BY <1>1 DEF StepTurn, Finish

\* An answered callback.
LEMMA AnsweredStep ==
  ASSUME NEW t \in Turn, TurnOK(t), ~Terminal(t), ~Waiting(t),
         NEW reply \in Replies(t.phase), reply # "fails"
  PROVE  StepTurn(t, reply) =
           [phase |-> Successor(t.phase, reply), errors |-> t.errors,
            final |-> IF Successor(t.phase, reply) = "terminal" THEN FinalState(t.phase)
                      ELSE "none"]
<1>1. /\ t.phase \in TurnPhase /\ t.errors \in BOOLEAN /\ t.final = "none"
      /\ t = [phase |-> t.phase, errors |-> t.errors, final |-> t.final]
  BY TurnFields DEF TurnOK
<1> QED BY <1>1 DEF StepTurn, Finish

\* What a step of the turn t leads to, n, whatever is replied.
Stepped(t, n) ==
  /\ n \in Turn /\ TurnOK(n) /\ Started(n)
  /\ t.phase \in StoppingPhases => n.phase \in StoppingPhases \cup {"terminal"}
  /\ t.phase = "check" =>
       n.phase \in {"waiting", "finalize-complete", "interrupt", "finalize-control-failed"}
  /\ t.phase \in {"start", "arm", "send-input", "mark-dispatched"} => n.phase \in EarlyPhases
  /\ t.phase = "finalize-control-failed" => n.final = "control-failed"
  /\ Waiting(n) => Archiving(n) \/ t.phase = "check"

\* StepTurn, with the session it leaves; a control-failed end may leave one that works.
LEMMA StepTurnStepped ==
  ASSUME NEW t \in Turn, TurnOK(t), ~Terminal(t), ~Waiting(t), NEW reply \in Replies(t.phase)
  PROVE  /\ Stepped(t, StepTurn(t, reply))
         /\ \A w, y, cf : /\ SessionOK(t, w, cf)
                          /\ Reached(w, y, Callback(t.phase), reply)
                          /\ StepTurn(t, reply).final = "control-failed" => cf
                          => SessionOK(StepTurn(t, reply), y, cf)
<1> DEFINE n == StepTurn(t, reply)
<1>1. /\ t.phase \in TurnPhase /\ t.errors \in BOOLEAN /\ t.final = "none"
      /\ t.errors => t.phase \in StoppingPhases
  BY TurnFields DEF TurnOK, Terminal
<1>2. CASE reply = "fails"
  <2>1. \/ n.phase = "finalize-control-failed" /\ n.final = "none"
           /\ t.phase # "finalize-control-failed"
        \/ n.phase = "terminal" /\ n.final = "control-failed"
           /\ t.phase = "finalize-control-failed"
    BY <1>2, FailedStep
  <2>2. n \in Turn /\ n.errors
    <3>1. \/ n = [phase |-> "finalize-control-failed", errors |-> TRUE, final |-> "none"]
          \/ n = [phase |-> "terminal", errors |-> TRUE, final |-> "control-failed"]
      BY <1>2, FailedStep
    <3> HIDE DEF n
    <3>2. /\ "finalize-control-failed" \in TurnPhase /\ "terminal" \in TurnPhase
          /\ "none" \in TerminalState \cup {"none"}
          /\ "control-failed" \in TerminalState \cup {"none"}
      BY DEF TurnPhase, TerminalState
    <3>3. /\ [phase |-> "finalize-control-failed", errors |-> TRUE, final |-> "none"] \in Turn
          /\ [phase |-> "terminal", errors |-> TRUE, final |-> "control-failed"] \in Turn
      BY <3>2 DEF Turn
    <3>4. n \in Turn
      BY <3>1, <3>3, Zenon
    <3>5. n.errors
      BY <3>1
    <3> QED BY <3>4, <3>5
  <2> HIDE DEF n
  <2>3. TurnOK(n) /\ Started(n) /\ ~Waiting(n)
    BY <2>1, <2>2 DEF TurnOK, Terminal, Started, Waiting, WaitPhases, StoppingPhases
  <2>4. Stepped(t, n)
    BY <2>1, <2>2, <2>3 DEF Stepped, Terminal, StoppingPhases, EarlyPhases
  <2>5. ASSUME NEW w, NEW y, NEW cf, n.final = "control-failed" => cf
        PROVE  SessionOK(n, y, cf)
    BY <2>1, <2>5 DEF SessionOK, Terminal
  <2> QED BY <2>4, <2>5 DEF n
<1>3. CASE reply # "fails"
  <2>1. /\ n.phase = Successor(t.phase, reply) /\ (n.errors <=> t.errors)
        /\ n.final = IF Successor(t.phase, reply) = "terminal" THEN FinalState(t.phase) ELSE "none"
    BY <1>3, AnsweredStep
  <2>2. Successor(t.phase, reply) \in TurnPhase
    BY <1>1, PhaseList DEF Successor
  <2>3. n \in Turn
    BY <1>1, <1>3, <2>2, AnsweredStep DEF Turn, TerminalState, FinalState
  <2> HIDE DEF n
  <2>4. t.phase \in {"start", "arm", "send-input", "mark-dispatched", "check",
               "finalize-complete", "close-complete",
               "interrupt", "finalize-interrupt",
               "close-interrupt", "finalize-close", "finalize-control-failed"}
    BY <1>1, PhaseList DEF Terminal, Waiting, WaitPhases
  <2>5. TurnOK(n) /\ Started(n)
    BY <1>1, <2>1, <2>4 DEF TurnOK, Terminal, Started, StoppingPhases,
       InterruptPhases, Successor, FinalState
  <2>6. Stepped(t, n)
    BY <1>1, <1>3, <2>1, <2>3, <2>4, <2>5 DEF Stepped, Waiting, WaitPhases, StoppingPhases,
       InterruptPhases, EarlyPhases, DispatchPhases, Successor, FinalState, Archiving, Replies
  <2>7. ASSUME NEW w, NEW y, NEW cf, SessionOK(t, w, cf),
               Reached(w, y, Callback(t.phase), reply), n.final = "control-failed" => cf
        PROVE  SessionOK(n, y, cf)
    <3>1. n.phase \in {"start", "arm", "send-input"} => y = "idle"
      BY <1>3, <2>1, <2>4, <2>7 DEF SessionOK, Reached, Callback, Successor
    <3>2. n.phase = "finalize-close" => y = "closed"
      BY <1>3, <2>1, <2>4, <2>7 DEF SessionOK, Reached, Callback, Successor, Replies
    <3>3. n.final \in {"completed", "closed"} => y = "closed"
      BY <1>3, <2>1, <2>4, <2>7 DEF SessionOK, Reached, Callback, Successor, FinalState, Replies
    <3>4. n.phase = "terminal" /\ y = "working" => cf
      BY <1>3, <2>1, <2>4, <2>7, <3>3 DEF FinalState
    <3> QED BY <3>1, <3>2, <3>3, <3>4 DEF SessionOK, Terminal
  <2> QED BY <2>6, <2>7 DEF n
<1> QED BY <1>2, <1>3

\* How an invocation of child c changes the memory s to u, for the other children.
Onward(C, s, u, c) ==
  /\ u.setup = s.setup /\ (u.compared <=> s.compared)
  /\ s.protected => u.protected
  /\ InOrder(s) => InOrder(u)
  /\ Len(s.admitted) <= Len(u.admitted)
  /\ \A d \in C :
       /\ s.lease[d] # "none" => u.lease[d] # "none"
       /\ u.lease[d] = "released" => s.lease[d] = "released"
       /\ d # c => /\ d \in u.deadline <=> d \in s.deadline
                   /\ Waiting(u.turn[d]) => Waiting(s.turn[d])
                   /\ u.protected \/ u.turn[d] = s.turn[d]
                   /\ Terminal(s.turn[d]) => u.turn[d] = s.turn[d]
                   /\ ~Started(s.turn[d]) => u.turn[d].phase \in {"start", "terminal"}

\* The parts of an invocation follow one another.
LEMMA OnwardCompose ==
  ASSUME NEW C, NEW s, NEW u, NEW v, NEW c, Onward(C, s, u, c), Onward(C, u, v, c),
         s.admitted \in Seq(C), u.admitted \in Seq(C), v.admitted \in Seq(C)
  PROVE  Onward(C, s, v, c)
<1>1. Len(s.admitted) \in Nat /\ Len(u.admitted) \in Nat /\ Len(v.admitted) \in Nat
  BY LenProperties
<1>2. /\ v.setup = s.setup /\ (v.compared <=> s.compared)
      /\ s.protected => v.protected
      /\ InOrder(s) => InOrder(v)
      /\ Len(s.admitted) <= Len(v.admitted)
  BY <1>1 DEF Onward
<1>3. ASSUME NEW d \in C
      PROVE  /\ s.lease[d] # "none" => v.lease[d] # "none"
             /\ v.lease[d] = "released" => s.lease[d] = "released"
  BY DEF Onward
<1>4. ASSUME NEW d \in C, d # c
      PROVE  /\ d \in v.deadline <=> d \in s.deadline
             /\ Waiting(v.turn[d]) => Waiting(s.turn[d])
             /\ v.protected \/ v.turn[d] = s.turn[d]
             /\ Terminal(s.turn[d]) => v.turn[d] = s.turn[d]
  BY <1>4 DEF Onward
<1>5. ASSUME NEW d \in C, d # c, ~Started(s.turn[d])
      PROVE  v.turn[d].phase \in {"start", "terminal"}
  <2>1. u.turn[d].phase \in {"start", "terminal"}
    BY <1>5 DEF Onward
  <2> QED BY <1>5, <2>1 DEF Onward, Started, Terminal
<1> QED BY <1>2, <1>3, <1>4, <1>5 DEF Onward

\* A fault is such a change.
LEMMA CalmOnward ==
  ASSUME NEW C, NEW s, NEW u, NEW c, Calm(C, s, u, c), s.admitted \in Seq(C)
  PROVE  Onward(C, s, u, c)
<1>1. Len(s.admitted) \in Nat
  BY LenProperties
<1>2. InOrder(s) => InOrder(u)
  BY DEF Calm, InOrder
<1> QED BY <1>1, <1>2 DEF Calm, Onward

\* _update_child_progress before it looks for a control failure.
Moved(s, c, t) ==
  [s EXCEPT
     !.turn[c] = t,
     !.deadline = IF Terminal(t) \/ t.phase \in {"finalize-complete", "close-complete"}
                  THEN @ \ {c} ELSE @,
     !.runtime[c] = IF ~Terminal(t) \/ @ # "active" THEN @
                    ELSE IF t.final = "completed" THEN "completed"
                    ELSE IF t.final = "control-failed" THEN "failed-ambiguous"
                    ELSE "interrupted"]

\* Its fields.
MovedShape(C, s, u, c, t) ==
  /\ u \in MemoryOf(C)
  /\ u.turn = [s.turn EXCEPT ![c] = t]
  /\ u.deadline = IF Terminal(t) \/ t.phase \in {"finalize-complete", "close-complete"}
                  THEN s.deadline \ {c} ELSE s.deadline
  /\ \A d \in C : u.runtime[d] = "completed" =>
       s.runtime[d] = "completed" \/ (d = c /\ t.final = "completed")
  /\ u.setup = s.setup /\ u.status = s.status /\ u.lease = s.lease /\ u.verdict = s.verdict
  /\ u.admitted = s.admitted /\ u.classified = s.classified /\ u.contained = s.contained
  /\ u.protected <=> s.protected
  /\ u.controlFailed <=> s.controlFailed
  /\ u.compared <=> s.compared

\* It has them.
LEMMA MovedFields ==
  ASSUME NEW s \in MemoryOf(Child), NEW c \in Child, NEW t \in Turn
  PROVE  MovedShape(Child, s, Moved(s, c, t), c, t)
<1> DEFINE a == [s.turn EXCEPT ![c] = t]
           b == IF Terminal(t) \/ t.phase \in {"finalize-complete", "close-complete"}
                THEN s.deadline \ {c} ELSE s.deadline
           k == IF ~Terminal(t) \/ s.runtime[c] # "active" THEN s.runtime[c]
                ELSE IF t.final = "completed" THEN "completed"
                ELSE IF t.final = "control-failed" THEN "failed-ambiguous"
                ELSE "interrupted"
           r == [s.runtime EXCEPT ![c] = k]
           u == [s EXCEPT !.turn = a, !.deadline = b, !.runtime = r]
<1>1. Moved(s, c, t) = u
  BY DEF Moved, MemoryOf
<1>2. s.runtime \in [Child -> Runtime] /\ s.turn \in [Child -> Turn] /\ s.deadline \subseteq Child
  BY MemoryFields
<1>3. k \in Runtime /\ (k = "completed" => s.runtime[c] = "completed" \/ t.final = "completed")
  BY <1>2 DEF Runtime
<1> HIDE DEF k
<1>4. /\ a \in [Child -> Turn] /\ b \in SUBSET Child /\ r \in [Child -> Runtime]
      /\ \A d \in Child : r[d] = "completed" =>
           s.runtime[d] = "completed" \/ (d = c /\ t.final = "completed")
  BY <1>2, <1>3
<1> HIDE DEF a, b, r
<1>5. u \in MemoryOf(Child)
  BY <1>4 DEF MemoryOf
<1>6. /\ u.turn = a /\ u.deadline = b /\ u.runtime = r
      /\ u.setup = s.setup /\ u.status = s.status
      /\ u.lease = s.lease /\ u.verdict = s.verdict /\ u.admitted = s.admitted
      /\ u.classified = s.classified /\ u.contained = s.contained
      /\ u.protected <=> s.protected
      /\ u.controlFailed <=> s.controlFailed
      /\ u.compared <=> s.compared
  BY DEF MemoryOf
<1> HIDE DEF u
<1> QED BY <1>1, <1>4, <1>5, <1>6 DEF MovedShape, a, b

\* The turn of child c is to move on to n, and its session to y[c].
Moving(C, s, x, y, c, n) ==
  /\ Core(C, s, x, FALSE) /\ Judged(C, s) /\ ~Terminal(s.turn[c])
  /\ n \in Turn /\ TurnOK(n) /\ Started(n)
  /\ s.protected => n.phase \in StoppingPhases \cup {"terminal"}
  /\ \A d \in C : d # c => y[d] = x[d]

\* The memory u in which it has.
Progressed(C, s, u, y, c, n, cf) ==
  /\ Core(C, u, y, cf) /\ Judged(C, u) /\ Onward(C, s, u, c)
  /\ u.turn[c] = n /\ u.admitted = s.admitted

\* It moves on.
LEMMA MovedKeeps ==
  ASSUME NEW s, NEW x, NEW y, NEW c \in Child, NEW n, NEW cf \in BOOLEAN,
         Moving(Child, s, x, y, c, n), SessionOK(n, y[c], s.controlFailed \/ cf)
  PROVE  Progressed(Child, s, Moved(s, c, n), y, c, n, cf)
<1> DEFINE u == Moved(s, c, n)
<1>0. /\ Core(Child, s, x, FALSE) /\ Judged(Child, s) /\ ~Terminal(s.turn[c])
      /\ n \in Turn /\ TurnOK(n) /\ Started(n)
      /\ s.protected => n.phase \in StoppingPhases \cup {"terminal"}
      /\ \A d \in Child : d # c => y[d] = x[d]
  BY DEF Moving
<1>1. /\ s \in MemoryOf(Child) /\ s.turn \in [Child -> Turn] /\ s.admitted \in Seq(Child)
  BY <1>0, MemoryFields DEF Core
<1>2. ASSUME NEW d \in Child
      PROVE  /\ TurnOK(s.turn[d]) /\ s.turn[d] \in Turn
             /\ SessionOK(s.turn[d], x[d], s.controlFailed \/ FALSE)
             /\ s.runtime[d] = "completed" => s.turn[d].final = "completed"
             /\ d \in s.deadline => ~Terminal(s.turn[d]) /\ Started(s.turn[d])
  BY <1>0, <1>1 DEF Core
<1>3. /\ u \in MemoryOf(Child) /\ u.turn = [s.turn EXCEPT ![c] = n]
      /\ u.deadline = IF Terminal(n) \/ n.phase \in {"finalize-complete", "close-complete"}
                      THEN s.deadline \ {c} ELSE s.deadline
      /\ \A d \in Child : u.runtime[d] = "completed" =>
           s.runtime[d] = "completed" \/ (d = c /\ n.final = "completed")
      /\ u.setup = s.setup /\ u.lease = s.lease /\ u.verdict = s.verdict
      /\ u.admitted = s.admitted /\ u.classified = s.classified /\ u.contained = s.contained
      /\ u.protected <=> s.protected
      /\ u.controlFailed <=> s.controlFailed
      /\ u.compared <=> s.compared
  <2>1. MovedShape(Child, s, u, c, n)
    BY <1>0, <1>1, MovedFields
  <2> HIDE DEF u
  <2> QED BY <2>1 DEF MovedShape
<1> HIDE DEF u
<1>4. \A d \in Child : u.turn[d] = IF d = c THEN n ELSE s.turn[d]
  BY <1>1, <1>3
<1>5. Judged(Child, u)
  BY <1>0, <1>3 DEF Judged
<1>6. Onward(Child, s, u, c)
  <2>1. Len(s.admitted) \in Nat
    BY <1>1, LenProperties
  <2>2. InOrder(s) => InOrder(u)
    BY <1>3 DEF InOrder
  <2> QED BY <1>3, <1>4, <2>1, <2>2 DEF Onward, Started
<1>7. Protected(Child, u)
  <2>1. u.protected => \A d \in Child : u.turn[d].phase \in StoppingPhases \cup {"terminal"}
    BY <1>0, <1>3, <1>4 DEF Core, Protected
  <2> QED BY <1>0, <1>3, <2>1 DEF Core, Protected
<1>8. ASSUME NEW d \in Child
      PROVE  /\ TurnOK(u.turn[d])
             /\ SessionOK(u.turn[d], y[d], u.controlFailed \/ cf)
             /\ u.runtime[d] = "completed" => u.turn[d].final = "completed"
             /\ d \in u.deadline => ~Terminal(u.turn[d]) /\ Started(u.turn[d])
  <2>1. CASE d = c
    <3>1. u.turn[d] = n
      BY <1>4, <2>1
    <3>2. SessionOK(n, y[c], u.controlFailed \/ cf)
      BY <1>3 DEF SessionOK
    <3>3. s.runtime[c] # "completed"
      BY <1>0, <1>2 DEF TurnOK
    <3>4. d \in u.deadline => ~Terminal(n)
      BY <1>3, <2>1
    <3> QED BY <1>0, <1>3, <2>1, <3>1, <3>2, <3>3, <3>4
  <2>2. CASE d # c
    <3>1. u.turn[d] = s.turn[d] /\ y[d] = x[d]
      BY <1>0, <1>4, <2>2
    <3>2. SessionOK(s.turn[d], x[d], u.controlFailed \/ cf)
      BY <1>2, <1>3 DEF SessionOK
    <3> QED BY <1>2, <1>3, <2>2, <3>1, <3>2
  <2> QED BY <2>1, <2>2
<1>9. Core(Child, u, y, cf)
  BY <1>3, <1>7, <1>8 DEF Core
<1> QED BY <1>3, <1>4, <1>5, <1>6, <1>9 DEF u, Progressed

\* _update_child_progress: a control-failed end is a fault of the pool.
LEMMA UpdateProgressKeeps ==
  ASSUME NEW s, NEW x, NEW y, NEW c \in Child, NEW n, Moving(Child, s, x, y, c, n),
         SessionOK(n, y[c], TRUE),
         n.final # "control-failed" => SessionOK(n, y[c], s.controlFailed)
  PROVE  /\ Progressed(Child, s, UpdateProgress(s, c, n), y, c, n, FALSE)
         /\ n.final = "control-failed" => UpdateProgress(s, c, n).protected
         /\ c \in UpdateProgress(s, c, n).deadline => c \in s.deadline
<1> DEFINE u == Moved(s, c, n)
<1>0. Core(Child, s, x, FALSE) /\ TurnOK(n) /\ n \in Turn
  BY DEF Moving
<1>1. s \in MemoryOf(Child) /\ {c} \in SUBSET Child /\ s.admitted \in Seq(Child)
  BY <1>0, MemoryFields DEF Core
<1>2. u.deadline \subseteq s.deadline
  <2>1. MovedShape(Child, s, u, c, n)
    BY <1>0, <1>1, MovedFields
  <2> HIDE DEF u
  <2> QED BY <2>1 DEF MovedShape
<1>3. CASE n.final = "control-failed"
  <2> DEFINE v == EnterFault(u, TRUE, {c})
  <2>1. UpdateProgress(s, c, n) = v
    BY <1>3 DEF UpdateProgress, Moved
  <2>2. SessionOK(n, y[c], s.controlFailed \/ TRUE)
    BY <1>3 DEF SessionOK
  <2>3. Progressed(Child, s, u, y, c, n, TRUE)
    BY <2>2, MovedKeeps
  <2> HIDE DEF u
  <2>4. Core(Child, v, y, FALSE) /\ Judged(Child, v) /\ Calm(Child, u, v, c)
    BY <1>1, <2>3, EnterFaultKeeps DEF Progressed
  <2>5. u \in MemoryOf(Child) /\ u.admitted \in Seq(Child)
    BY <2>3, MemoryFields DEF Core, Progressed
  <2>6. v.protected
    BY <1>1, <2>5, EnterFaultMarks
  <2> HIDE DEF v
  <2>7. v.admitted \in Seq(Child) /\ Onward(Child, u, v, c)
    BY <2>4, <2>5, CalmOnward, MemoryFields DEF Core
  <2>8. Onward(Child, s, v, c)
    BY <1>1, <2>3, <2>5, <2>7, OnwardCompose DEF Progressed
  <2>9. v.turn[c] = n
    BY <1>0, <1>3, <2>3, <2>4 DEF Calm, TurnOK, Progressed
  <2>10. v.deadline = u.deadline /\ v.admitted = s.admitted
    BY <2>3, <2>4 DEF Calm, Progressed
  <2> QED BY <1>2, <2>1, <2>4, <2>6, <2>8, <2>9, <2>10 DEF Progressed
<1>4. CASE n.final # "control-failed"
  <2>1. UpdateProgress(s, c, n) = u
    BY <1>4 DEF UpdateProgress, Moved
  <2>2. SessionOK(n, y[c], s.controlFailed \/ FALSE)
    BY <1>4 DEF SessionOK
  <2>3. Progressed(Child, s, u, y, c, n, FALSE)
    BY <2>2, MovedKeeps
  <2> HIDE DEF u
  <2> QED BY <1>2, <1>4, <2>1, <2>3
<1> QED BY <1>3, <1>4

\* The memory u differs from s in the deadlines, the admissions and the leases only.
SameTurns(s, u) ==
  /\ u.setup = s.setup /\ u.turn = s.turn /\ u.runtime = s.runtime /\ u.verdict = s.verdict
  /\ u.classified = s.classified /\ u.contained = s.contained
  /\ u.protected <=> s.protected
  /\ u.controlFailed <=> s.controlFailed
  /\ u.compared <=> s.compared

\* Such a change keeps the rest, when only a running child gets a deadline.
LEMMA SameTurnsKeeps ==
  ASSUME NEW C, NEW s, NEW u \in MemoryOf(C), NEW x, Core(C, s, x, FALSE),
         SameTurns(s, u),
         \A d \in u.deadline : ~Terminal(s.turn[d]) /\ Started(s.turn[d])
  PROVE  Core(C, u, x, FALSE) /\ (Judged(C, s) => Judged(C, u))
<1>1. Protected(C, u)
  BY DEF SameTurns, Core, Protected
<1>2. ASSUME NEW d \in C
      PROVE  /\ TurnOK(u.turn[d])
             /\ SessionOK(u.turn[d], x[d], u.controlFailed \/ FALSE)
             /\ u.runtime[d] = "completed" => u.turn[d].final = "completed"
             /\ d \in u.deadline => ~Terminal(u.turn[d]) /\ Started(u.turn[d])
  <2>1. SessionOK(s.turn[d], x[d], s.controlFailed \/ FALSE)
    BY DEF Core
  <2>2. SessionOK(u.turn[d], x[d], u.controlFailed \/ FALSE)
    BY <2>1 DEF SessionOK, SameTurns
  <2> QED BY <2>2 DEF Core, SameTurns
<1>3. Core(C, u, x, FALSE)
  BY <1>1, <1>2 DEF Core
<1>4. Judged(C, s) => Judged(C, u)
  BY DEF Judged, SameTurns
<1> QED BY <1>3, <1>4

\* A part of the invocation of c leads from s to u and lets no turn wait anew.
Advanced(C, s, u, x, c) ==
  /\ Core(C, u, x, FALSE) /\ Judged(C, u) /\ Onward(C, s, u, c)
  /\ Waiting(u.turn[c]) => Waiting(s.turn[c])

\* Such parts follow one another.
LEMMA AdvancedCompose ==
  ASSUME NEW C, NEW s, NEW u, NEW v, NEW x, NEW c, s \in MemoryOf(C),
         Advanced(C, s, u, x, c), Advanced(C, u, v, x, c)
  PROVE  Advanced(C, s, v, x, c)
<1>1. s.admitted \in Seq(C) /\ u.admitted \in Seq(C) /\ v.admitted \in Seq(C)
  BY MemoryFields DEF Advanced, Core
<1>2. Onward(C, s, v, c)
  BY <1>1, OnwardCompose DEF Advanced
<1> QED BY <1>2 DEF Advanced

\* What a private method keeps is such a part.
LEMMA KeptAdvanced ==
  ASSUME NEW C, NEW s \in MemoryOf(C), NEW u, NEW x, NEW c \in C, Kept(C, s, u, x, c)
  PROVE  Advanced(C, s, u, x, c) /\ u.deadline = s.deadline /\ u.admitted = s.admitted
<1>1. s.admitted \in Seq(C)
  BY MemoryFields
<1>2. Onward(C, s, u, c)
  BY <1>1, CalmOnward DEF Kept
<1> QED BY <1>2 DEF Kept, Advanced, Calm

\* The child c may be given a deadline.
Runs(s, c) == ~Terminal(s.turn[c]) /\ Started(s.turn[c])

\* A running child gets a deadline.
LEMMA DueKeeps ==
  ASSUME NEW s, NEW x, NEW c \in Child, Core(Child, s, x, FALSE), Judged(Child, s), Runs(s, c)
  PROVE  /\ Advanced(Child, s, [s EXCEPT !.deadline = @ \cup {c}], x, c)
         /\ c \in [s EXCEPT !.deadline = @ \cup {c}].deadline
         /\ SameTurns(s, [s EXCEPT !.deadline = @ \cup {c}])
         /\ [s EXCEPT !.deadline = @ \cup {c}].admitted = s.admitted
         /\ [s EXCEPT !.deadline = @ \cup {c}].lease = s.lease
<1> DEFINE u == [s EXCEPT !.deadline = @ \cup {c}]
<1>1. /\ s \in MemoryOf(Child) /\ s.admitted \in Seq(Child) /\ s.deadline \subseteq Child
  BY MemoryFields DEF Core
<1>2. u \in MemoryOf(Child)
  BY <1>1 DEF MemoryOf
<1>3. SameTurns(s, u) /\ u.deadline = s.deadline \cup {c} /\ u.admitted = s.admitted
      /\ u.lease = s.lease
  BY <1>1 DEF MemoryOf, SameTurns
<1> HIDE DEF u
<1>4. \A d \in u.deadline : ~Terminal(s.turn[d]) /\ Started(s.turn[d])
  BY <1>1, <1>3 DEF Core, Runs
<1>5. Core(Child, u, x, FALSE) /\ Judged(Child, u)
  BY <1>2, <1>3, <1>4, SameTurnsKeeps
<1>6. Onward(Child, s, u, c)
  <2>1. Len(s.admitted) \in Nat
    BY <1>1, LenProperties
  <2>2. InOrder(s) => InOrder(u)
    BY <1>3 DEF InOrder
  <2> QED BY <1>3, <2>1, <2>2 DEF Onward, SameTurns, Started
<1>7. Advanced(Child, s, u, x, c)
  BY <1>3, <1>5, <1>6 DEF Advanced, SameTurns
<1> QED BY <1>3, <1>7 DEF u

\* The next child in contract order is admitted.
LEMMA AdmitKeeps ==
  ASSUME NEW s, NEW x, NEW c \in Child, Core(Child, s, x, FALSE), Judged(Child, s),
         c = Len(s.admitted) + 1
  PROVE  /\ Advanced(Child, s, [s EXCEPT !.admitted = Append(@, c)], x, c)
         /\ SameTurns(s, [s EXCEPT !.admitted = Append(@, c)])
         /\ [s EXCEPT !.admitted = Append(@, c)].deadline = s.deadline
         /\ [s EXCEPT !.admitted = Append(@, c)].lease = s.lease
         /\ c <= Len([s EXCEPT !.admitted = Append(@, c)].admitted)
<1> DEFINE q == Append(s.admitted, c)
           u == [s EXCEPT !.admitted = q]
<1>1. s \in MemoryOf(Child) /\ s.admitted \in Seq(Child)
  BY MemoryFields DEF Core
<1>2. /\ q \in Seq(Child) /\ Len(q) = Len(s.admitted) + 1
      /\ \A i \in 1..Len(s.admitted) : q[i] = s.admitted[i]
      /\ q[Len(s.admitted) + 1] = c
  BY <1>1, AppendProperties
<1>3. [s EXCEPT !.admitted = Append(@, c)] = u
  BY <1>1 DEF MemoryOf
<1>4. Len(s.admitted) \in Nat
  BY <1>1, LenProperties
<1> HIDE DEF q
<1>5. u \in MemoryOf(Child)
  BY <1>1, <1>2 DEF MemoryOf
<1>6. SameTurns(s, u) /\ u.deadline = s.deadline /\ u.admitted = q /\ u.lease = s.lease
  BY <1>1 DEF MemoryOf, SameTurns
<1> HIDE DEF u
<1>7. s.deadline \subseteq Child
  BY <1>1, MemoryFields
<1>8. \A d \in u.deadline : ~Terminal(s.turn[d]) /\ Started(s.turn[d])
  BY <1>6, <1>7 DEF Core
<1>9. Core(Child, u, x, FALSE) /\ Judged(Child, u)
  BY <1>5, <1>6, <1>8, SameTurnsKeeps
<1>10. InOrder(s) => InOrder(u)
  <2>1. SUFFICES ASSUME InOrder(s), NEW i \in 1..Len(q) PROVE q[i] = i
    BY <1>6 DEF InOrder
  <2>2. CASE i \in 1..Len(s.admitted)
    BY <1>2, <2>1, <2>2 DEF InOrder
  <2>3. CASE i = Len(s.admitted) + 1
    BY <1>2, <2>3
  <2> QED BY <1>2, <1>4, <2>2, <2>3
<1>11. Onward(Child, s, u, c)
  BY <1>2, <1>4, <1>6, <1>10 DEF Onward, SameTurns, Started
<1>12. Advanced(Child, s, u, x, c)
  BY <1>6, <1>9, <1>11 DEF Advanced, SameTurns
<1>13. c <= Len(u.admitted)
  BY <1>2, <1>4, <1>6
<1> QED BY <1>3, <1>6, <1>12, <1>13

\* mark_held succeeds.
LEMMA HoldKeeps ==
  ASSUME NEW s, NEW x, NEW c \in Child, Core(Child, s, x, FALSE), Judged(Child, s)
  PROVE  /\ Advanced(Child, s, [s EXCEPT !.lease[c] = "held"], x, c)
         /\ SameTurns(s, [s EXCEPT !.lease[c] = "held"])
         /\ [s EXCEPT !.lease[c] = "held"].deadline = s.deadline
         /\ [s EXCEPT !.lease[c] = "held"].admitted = s.admitted
<1> DEFINE l == [s.lease EXCEPT ![c] = "held"]
           u == [s EXCEPT !.lease = l]
<1>1. s \in MemoryOf(Child) /\ s.admitted \in Seq(Child) /\ s.lease \in [Child -> HeldLease]
      /\ s.deadline \subseteq Child
  BY MemoryFields DEF Core
<1>2. [s EXCEPT !.lease[c] = "held"] = u
  BY <1>1 DEF MemoryOf
<1>3. /\ l \in [Child -> HeldLease]
      /\ \A d \in Child : /\ s.lease[d] # "none" => l[d] # "none"
                          /\ l[d] = "released" => s.lease[d] = "released"
  BY <1>1 DEF HeldLease
<1> HIDE DEF l
<1>4. u \in MemoryOf(Child)
  BY <1>1, <1>3 DEF MemoryOf
<1>5. SameTurns(s, u) /\ u.deadline = s.deadline /\ u.admitted = s.admitted /\ u.lease = l
  BY <1>1 DEF MemoryOf, SameTurns
<1> HIDE DEF u
<1>6. \A d \in u.deadline : ~Terminal(s.turn[d]) /\ Started(s.turn[d])
  BY <1>1, <1>5 DEF Core
<1>7. Core(Child, u, x, FALSE) /\ Judged(Child, u)
  BY <1>4, <1>5, <1>6, SameTurnsKeeps
<1>8. Onward(Child, s, u, c)
  <2>1. Len(s.admitted) \in Nat
    BY <1>1, LenProperties
  <2>2. InOrder(s) => InOrder(u)
    BY <1>5 DEF InOrder
  <2> QED BY <1>3, <1>5, <2>1, <2>2 DEF Onward, SameTurns, Started
<1>9. Advanced(Child, s, u, x, c)
  BY <1>5, <1>7, <1>8 DEF Advanced, SameTurns
<1> QED BY <1>2, <1>5, <1>9

\* _record_poll leaves the child with a deadline, and admitted.
Polled(C, s, u, x, c) ==
  Advanced(C, s, u, x, c) /\ c \in u.deadline /\ c <= Len(u.admitted)

\* The child polled is admitted already, or the next one in contract order.
LEMMA RecordPollKeeps ==
  ASSUME NEW s, NEW x, NEW c \in Child, NEW timing, NEW holds,
         Core(Child, s, x, FALSE), Judged(Child, s), Runs(s, c), InOrder(s),
         (\A i \in 1..Len(s.admitted) : s.admitted[i] # c) => c = Len(s.admitted) + 1
  PROVE  Polled(Child, s, RecordPoll(s, c, timing, holds), x, c)
<1> DEFINE s1 == IF timing = "clock" THEN EnterFault(s, TRUE, {})
                 ELSE IF timing = "gap" THEN EnterFault(s, FALSE, {})
                 ELSE s
           s2 == [s1 EXCEPT !.deadline = @ \cup {c}]
           first == \A i \in 1..Len(s.admitted) : s.admitted[i] # c
           s3 == [s2 EXCEPT !.admitted = Append(@, c)]
           s4 == [s3 EXCEPT !.lease[c] = "held"]
           s5 == EnterFault(s3, TRUE, {c})
<1>1. s \in MemoryOf(Child) /\ {} \in SUBSET Child /\ {c} \in SUBSET Child
  BY DEF Core
<1>2. \/ ~first /\ RecordPoll(s, c, timing, holds) = s2
      \/ first /\ RecordPoll(s, c, timing, holds) \in {s3, s4, s5}
  BY DEF RecordPoll
<1>3. Kept(Child, s, s1, x, c)
  <2>1. Kept(Child, s, EnterFault(s, TRUE, {}), x, c)
    BY <1>1, FaultKept
  <2>2. Kept(Child, s, EnterFault(s, FALSE, {}), x, c)
    BY <1>1, FaultKept
  <2>3. Kept(Child, s, s, x, c)
    BY KeptRefl
  <2> QED BY <2>1, <2>2, <2>3
<1> HIDE DEF s1
<1>4. /\ Advanced(Child, s, s1, x, c) /\ s1.admitted = s.admitted
      /\ Core(Child, s1, x, FALSE) /\ Judged(Child, s1) /\ Runs(s1, c)
  BY <1>1, <1>3, KeptAdvanced DEF Kept, Calm, Runs
<1>5. /\ Advanced(Child, s1, s2, x, c) /\ c \in s2.deadline /\ SameTurns(s1, s2)
      /\ s2.admitted = s1.admitted
  BY <1>4, DueKeeps
<1> HIDE DEF s2
<1>6. Core(Child, s2, x, FALSE) /\ Judged(Child, s2) /\ Advanced(Child, s, s2, x, c)
  BY <1>1, <1>4, <1>5, AdvancedCompose DEF Advanced
<1>7. CASE ~first
  <2>1. PICK i \in 1..Len(s.admitted) : s.admitted[i] = c
    BY <1>7
  <2>2. c <= Len(s2.admitted)
    BY <1>4, <1>5, <2>1 DEF InOrder
  <2> HIDE DEF first
  <2> QED BY <1>2, <1>5, <1>6, <1>7, <2>2 DEF Polled
<1>8. CASE first
  <2>1. c = Len(s2.admitted) + 1
    BY <1>4, <1>5, <1>8
  <2> HIDE DEF first
  <2>2. /\ Advanced(Child, s2, s3, x, c) /\ SameTurns(s2, s3) /\ s3.deadline = s2.deadline
        /\ c <= Len(s3.admitted)
    BY <1>6, <2>1, AdmitKeeps
  <2> HIDE DEF s3
  <2>3. /\ Core(Child, s3, x, FALSE) /\ Judged(Child, s3) /\ Advanced(Child, s, s3, x, c)
        /\ s3 \in MemoryOf(Child)
    BY <1>1, <1>6, <2>2, AdvancedCompose DEF Advanced, Core
  <2>4. Polled(Child, s, s3, x, c)
    BY <1>5, <2>2, <2>3 DEF Polled
  <2>5. /\ Advanced(Child, s3, s4, x, c) /\ s4.deadline = s3.deadline
        /\ s4.admitted = s3.admitted
    BY <2>3, HoldKeeps
  <2> HIDE DEF s4
  <2>6. Advanced(Child, s, s4, x, c)
    BY <1>1, <2>3, <2>5, AdvancedCompose
  <2>7. Polled(Child, s, s4, x, c)
    BY <2>4, <2>5, <2>6 DEF Polled
  <2>8. Kept(Child, s3, s5, x, c)
    BY <1>1, <2>3, FaultKept
  <2> HIDE DEF s5
  <2>9. /\ Advanced(Child, s3, s5, x, c) /\ s5.deadline = s3.deadline
        /\ s5.admitted = s3.admitted
    BY <2>3, <2>8, KeptAdvanced
  <2>10. Advanced(Child, s, s5, x, c)
    BY <1>1, <2>3, <2>9, AdvancedCompose
  <2>11. Polled(Child, s, s5, x, c)
    BY <2>4, <2>9, <2>10 DEF Polled
  <2> QED BY <1>2, <1>8, <2>4, <2>7, <2>11
<1> QED BY <1>7, <1>8

\* The evidence an invocation may meet has a verdict.
LEMMA ObservedVerdict ==
  ASSUME NEW callback, NEW o \in Observation(callback)
  PROVE  o.evidence.verdict \in Verdict
<1>1. o.evidence \in {QuietEvidence} \cup Evidence
  BY DEF Observation
<1>2. QuietEvidence.verdict \in Verdict
  BY DEF QuietEvidence, Verdict
<1>3. \A e \in Evidence : e.verdict \in Verdict
  BY DEF Evidence
<1> QED BY <1>1, <1>2, <1>3

\* The second part of _invoke_child.
LEMMA EvidencePartKept ==
  ASSUME NEW s, NEW x, NEW c \in Child, NEW callback, NEW t, NEW o \in Observation(callback),
         Core(Child, s, x, FALSE), Judged(Child, s)
  PROVE  Kept(Child, s, EvidencePart(s, c, callback, t, o), x, c)
<1>1. Kept(Child, s, s, x, c)
  BY KeptRefl
<1>2. o.evidence.verdict \in Verdict
  BY ObservedVerdict
<1>3. Kept(Child, s, ReadEvidence(s, c, o.evidence, o.authorized), x, c)
  BY <1>2, ReadEvidenceKept
<1> QED BY <1>1, <1>3 DEF EvidencePart

\* The third part: a check that leads to a decision is a poll, any other a fault.
PollOutcome(C, s, u, x, c, callback, t) ==
  /\ callback # "check" => u = s
  /\ callback = "check" /\ t.phase \in {"waiting", "finalize-complete", "interrupt"} =>
       Polled(C, s, u, x, c)
  /\ callback = "check" /\ t.phase \notin {"waiting", "finalize-complete", "interrupt"} =>
       Kept(C, s, u, x, c) /\ u.protected

\* It has such an outcome.
LEMMA PollPartKeeps ==
  ASSUME NEW s, NEW x, NEW c \in Child, NEW callback, NEW t, NEW o,
         Core(Child, s, x, FALSE), Judged(Child, s), InOrder(s),
         callback = "check" => Runs(s, c),
         callback = "check" /\ (\A i \in 1..Len(s.admitted) : s.admitted[i] # c) =>
           c = Len(s.admitted) + 1
  PROVE  PollOutcome(Child, s, PollPart(s, c, callback, t, o), x, c, callback, t)
<1>1. ASSUME callback # "check" PROVE PollPart(s, c, callback, t, o) = s
  BY <1>1 DEF PollPart
<1>2. ASSUME callback = "check", t.phase \in {"waiting", "finalize-complete", "interrupt"}
      PROVE  Polled(Child, s, PollPart(s, c, callback, t, o), x, c)
  <2>1. PollPart(s, c, callback, t, o) = RecordPoll(s, c, o.timing, o.holds)
    BY <1>2 DEF PollPart
  <2>2. Polled(Child, s, RecordPoll(s, c, o.timing, o.holds), x, c)
    BY <1>2, RecordPollKeeps
  <2> QED BY <2>1, <2>2
<1>3. ASSUME callback = "check", t.phase \notin {"waiting", "finalize-complete", "interrupt"}
      PROVE  /\ Kept(Child, s, PollPart(s, c, callback, t, o), x, c)
             /\ PollPart(s, c, callback, t, o).protected
  <2>1. PollPart(s, c, callback, t, o) = EnterFault(s, TRUE, {})
    BY <1>3 DEF PollPart
  <2>2. {} \in SUBSET Child /\ s \in MemoryOf(Child)
    BY DEF Core
  <2>3. Kept(Child, s, EnterFault(s, TRUE, {}), x, c)
    BY <2>2, FaultKept
  <2>4. EnterFault(s, TRUE, {}).protected
    BY <2>2, EnterFaultMarks
  <2> QED BY <2>1, <2>3, <2>4
<1> QED BY <1>1, <1>2, <1>3 DEF PollOutcome

\* The first part of _invoke_child.
LEMMA ProgressPartKeeps ==
  ASSUME NEW s, NEW x, NEW y, NEW c \in Child, NEW n, Moving(Child, s, x, y, c, n),
         SessionOK(n, y[c], TRUE),
         n.final # "control-failed" => SessionOK(n, y[c], s.controlFailed)
  PROVE  /\ Progressed(Child, s, ProgressPart(s, c, n), y, c, n, FALSE)
         /\ n.final = "control-failed" => ProgressPart(s, c, n).protected
         /\ Archiving(n) => c \in ProgressPart(s, c, n).deadline
         /\ c \in ProgressPart(s, c, n).deadline => c \in s.deadline \/ Archiving(n)
<1> DEFINE u == UpdateProgress(s, c, n)
           v == [u EXCEPT !.deadline = @ \cup {c}]
<1>1. /\ Progressed(Child, s, u, y, c, n, FALSE)
      /\ n.final = "control-failed" => u.protected
      /\ c \in u.deadline => c \in s.deadline
  BY UpdateProgressKeeps
<1>2. ProgressPart(s, c, n) = IF Archiving(n) THEN v ELSE u
  BY DEF ProgressPart
<1> HIDE DEF u
<1>3. CASE ~Archiving(n)
  BY <1>1, <1>2, <1>3
<1>4. CASE Archiving(n)
  <2>1. Core(Child, u, y, FALSE) /\ Judged(Child, u) /\ u.turn[c] = n
    BY <1>1 DEF Progressed
  <2>2. Runs(u, c)
    BY <1>4, <2>1 DEF Runs, Archiving, Terminal, Started
  <2>3. /\ Advanced(Child, u, v, y, c) /\ c \in v.deadline /\ SameTurns(u, v)
        /\ v.admitted = u.admitted
    BY <2>1, <2>2, DueKeeps
  <2> HIDE DEF v
  <2>4. s.admitted \in Seq(Child) /\ u.admitted \in Seq(Child) /\ v.admitted \in Seq(Child)
    BY <2>1, <2>3, MemoryFields DEF Core, Moving
  <2>5. Onward(Child, s, v, c)
    BY <1>1, <2>3, <2>4, OnwardCompose DEF Progressed, Advanced
  <2>6. Progressed(Child, s, v, y, c, n, FALSE)
    BY <1>1, <2>1, <2>3, <2>5 DEF Progressed, Advanced, SameTurns
  <2>7. n.final = "control-failed" => v.protected
    BY <1>1, <2>3 DEF SameTurns
  <2> QED BY <1>2, <1>4, <2>3, <2>6, <2>7
<1> QED BY <1>3, <1>4

\* A child that may be selected is one of the pool's and has not ended.
LEMMA SelectableRuns ==
  ASSUME PoolInv, NEW c \in Selectable(pool)
  PROVE  c \in Child /\ ~Terminal(pool.turn[c])
<1>1. Core(Child, pool, session, FALSE) /\ pool.deadline \subseteq Child
  BY MemoryFields DEF PoolInv, Sound, Core
<1> QED BY <1>1 DEF Selectable, Proposed, Core

\* The first poll of a child admits it in its turn: those before it have been
\* polled, for they wait or have ended.
LEMMA AdmissionInTurn ==
  ASSUME PoolAssumption, PoolInv, NEW c \in Selectable(pool), ~pool.protected,
         pool.turn[c].phase \in {"check", "waiting"},
         \A i \in 1..Len(pool.admitted) : pool.admitted[i] # c
  PROVE  c = Len(pool.admitted) + 1
<1>1. /\ Core(Child, pool, session, FALSE) /\ InOrder(pool)
      /\ \A d \in Child : Served(pool, d)
  BY DEF PoolInv, Sound
<1>2. pool.setup \in Setups /\ pool.admitted \in Seq(Child) /\ pool.deadline \subseteq Child
  BY <1>1, MemoryFields DEF Core
<1>3. N \in Nat /\ Child = 1..N /\ Len(pool.admitted) \in Nat /\ c \in Child
  BY <1>2, LenProperties, SelectableRuns DEF PoolAssumption, N, Child
<1>4. c > Len(pool.admitted)
  <2>1. SUFFICES ASSUME c \in 1..Len(pool.admitted) PROVE FALSE
    BY <1>3
  <2> QED BY <1>1, <2>1 DEF InOrder
<1>5. c \notin pool.deadline
  BY <1>1, <1>3, <1>4 DEF Served
<1>6. c \in Proposed(pool)
  BY <1>5 DEF Selectable
<1>7. CASE c = 1
  BY <1>3, <1>4, <1>7
<1>8. CASE c # 1
  <2>1. c - 1 \in Child /\ c - 1 < c
    BY <1>3, <1>8
  <2>2. Terminal(pool.turn[c - 1]) \/ Waiting(pool.turn[c - 1])
    BY <1>6, <2>1 DEF Proposed
  <2>3. pool.turn[c - 1].phase \notin EarlyPhases
    BY <2>2 DEF Terminal, Waiting, WaitPhases, EarlyPhases, DispatchPhases
  <2>4. c - 1 <= Len(pool.admitted)
    BY <1>1, <2>1, <2>3 DEF Served
  <2> QED BY <1>3, <1>4, <2>4
<1> QED BY <1>7, <1>8

\* The sessions after a callback of child c: only its own may have changed.
LEMMA SessionsReached ==
  ASSUME NEW c \in Child, NEW callback, NEW reply, NEW y \in SessionsAfter(c, callback, reply),
         session \in SessionOf(Child)
  PROVE  /\ y \in SessionOf(Child)
         /\ \A d \in Child : d # c => y[d] = session[d]
         /\ Reached(session[c], y[c], callback, reply)
<1>1. \/ /\ y = session
         /\ ~(callback \in {"send_input", "close"} /\ reply = "ok")
      \/ y = [session EXCEPT ![c] = "working"] /\ callback = "send_input"
      \/ y = [session EXCEPT ![c] = "closed"] /\ callback = "close"
  BY DEF SessionsAfter
<1> QED BY <1>1 DEF SessionOf, Reached

\* The memory u and the sessions y after an invocation of child c.
Invoked(C, s, u, y, c) ==
  Core(C, u, y, FALSE) /\ Judged(C, u) /\ Onward(C, s, u, c) /\ Served(u, c)

\* The values an invocation of child c goes through, each from the one before.
Parts(c, t, callback, reply, n, o, s1, s2, s3, s4) ==
  /\ t = Resumed(pool.turn[c]) /\ callback = Callback(t.phase) /\ n = StepTurn(t, reply)
  /\ s1 = ProgressPart(pool, c, n) /\ s2 = EvidencePart(s1, c, callback, n, o)
  /\ s3 = PollPart(s2, c, callback, n, o) /\ s4 = ComparePart(s3, c, callback, o)

\* _invoke_child, its parts in the order of the code.
LEMMA InvokeKeeps ==
  ASSUME PoolAssumption, PoolInv, ~crashed, NEW c \in Selectable(pool), NEW t, NEW callback,
         NEW reply \in Replies(t.phase), NEW n, NEW o \in Observation(callback),
         NEW y \in SessionsAfter(c, callback, reply), NEW s1, NEW s2, NEW s3, NEW s4,
         Parts(c, t, callback, reply, n, o, s1, s2, s3, s4)
  PROVE  Invoked(Child, pool, s4, y, c)
<1>t. t = Resumed(pool.turn[c])
  BY Zenon DEF Parts
<1>b. callback = Callback(t.phase)
  BY Zenon DEF Parts
<1>n. n = StepTurn(t, reply)
  BY Zenon DEF Parts
<1>s1. s1 = ProgressPart(pool, c, n)
  BY Zenon DEF Parts
<1>s2. s2 = EvidencePart(s1, c, callback, n, o)
  BY Zenon DEF Parts
<1>s3. s3 = PollPart(s2, c, callback, n, o)
  BY Zenon DEF Parts
<1>s4. s4 = ComparePart(s3, c, callback, o)
  BY Zenon DEF Parts
<1>1. /\ Core(Child, pool, session, FALSE) /\ Judged(Child, pool) /\ InOrder(pool)
      /\ Served(pool, c) /\ session \in SessionOf(Child)
      /\ c \in Child /\ ~Terminal(pool.turn[c])
  BY SelectableRuns DEF PoolInv, Sound, PoolTypeOK, SessionOf
<1>2. /\ pool \in MemoryOf(Child) /\ pool.turn[c] \in Turn /\ TurnOK(pool.turn[c])
      /\ SessionOK(pool.turn[c], session[c], pool.controlFailed \/ FALSE)
      /\ pool.protected => pool.turn[c].phase \in StoppingPhases
  BY <1>1, MemoryFields DEF Core, Protected, Terminal
<1>3. /\ t \in Turn /\ TurnOK(t) /\ ~Terminal(t) /\ ~Waiting(t)
      /\ pool.protected => t.phase \in StoppingPhases
      /\ t.phase = "check" => pool.turn[c].phase \in {"check", "waiting"}
      /\ t.phase \in {"start", "arm", "send-input", "mark-dispatched",
                      "finalize-control-failed"} => pool.turn[c] = t
  BY <1>t, <1>1, <1>2, ResumedTurn
<1>4. SessionOK(t, session[c], pool.controlFailed \/ FALSE)
  BY <1>t, <1>1, <1>2, ResumedTurn
<1>5. Stepped(t, n)
  BY <1>n, <1>3, StepTurnStepped
<1>6. /\ y \in SessionOf(Child)
      /\ \A d \in Child : d # c => y[d] = session[d]
      /\ Reached(session[c], y[c], callback, reply)
  BY <1>1, SessionsReached
<1>7. SessionOK(n, y[c], TRUE)
  <2>1. SessionOK(t, session[c], TRUE)
    BY <1>4 DEF SessionOK
  <2> QED BY <1>b, <1>n, <1>3, <1>6, <2>1, StepTurnStepped
<1>8. ASSUME n.final # "control-failed" PROVE SessionOK(n, y[c], pool.controlFailed)
  <2>1. SessionOK(t, session[c], pool.controlFailed)
    BY <1>4 DEF SessionOK
  <2> QED BY <1>b, <1>n, <1>3, <1>6, <1>8, <2>1, StepTurnStepped
<1>9. Moving(Child, pool, session, y, c, n)
  BY <1>1, <1>3, <1>5, <1>6 DEF Moving, Stepped
<1>10. /\ Progressed(Child, pool, s1, y, c, n, FALSE)
       /\ n.final = "control-failed" => s1.protected
       /\ Archiving(n) => c \in s1.deadline
       /\ c \in s1.deadline => c \in pool.deadline \/ Archiving(n)
  BY <1>s1, <1>1, <1>7, <1>8, <1>9, ProgressPartKeeps
<1>11. /\ Core(Child, s1, y, FALSE) /\ Judged(Child, s1) /\ s1 \in MemoryOf(Child)
       /\ s1.turn[c] = n /\ s1.admitted = pool.admitted /\ Onward(Child, pool, s1, c)
  BY <1>10 DEF Progressed, Core
<1>12. Kept(Child, s1, s2, y, c)
  BY <1>s2, <1>1, <1>11, EvidencePartKept
<1>13. /\ Advanced(Child, s1, s2, y, c) /\ s2.deadline = s1.deadline
       /\ s2.admitted = s1.admitted
  BY <1>1, <1>11, <1>12, KeptAdvanced
<1>14. /\ Core(Child, s2, y, FALSE) /\ Judged(Child, s2) /\ InOrder(s2) /\ s2 \in MemoryOf(Child)
  BY <1>1, <1>11, <1>13 DEF Advanced, Core, InOrder
<1>15. ASSUME callback = "check"
       PROVE  /\ t.phase = "check" /\ ~pool.protected
              /\ Runs(s2, c)
              /\ (\A i \in 1..Len(s2.admitted) : s2.admitted[i] # c) => c = Len(s2.admitted) + 1
  <2>1. t.phase = "check"
    BY <1>b, <1>15 DEF Callback
  <2>2. ~pool.protected
    BY <1>3, <2>1 DEF StoppingPhases, InterruptPhases
  <2>3. ~Terminal(n) /\ Started(n)
    BY <1>5, <2>1 DEF Stepped, Terminal
  <2>4. Runs(s2, c)
    <3>1. Calm(Child, s1, s2, c)
      BY <1>12 DEF Kept
    <3>2. Runs(s1, c)
      BY <1>11, <2>3 DEF Runs
    <3> QED BY <1>1, <3>1, <3>2 DEF Calm, Runs
  <2>5. pool.turn[c].phase \in {"check", "waiting"}
    BY <1>3, <2>1
  <2>6. (\A i \in 1..Len(pool.admitted) : pool.admitted[i] # c) => c = Len(pool.admitted) + 1
    BY <2>2, <2>5, AdmissionInTurn
  <2> QED BY <1>11, <1>13, <2>1, <2>2, <2>4, <2>6
<1>16. /\ callback # "check" => s3 = s2
       /\ callback = "check" /\ n.phase \in {"waiting", "finalize-complete", "interrupt"} =>
            Polled(Child, s2, s3, y, c)
       /\ callback = "check" /\ n.phase \notin {"waiting", "finalize-complete", "interrupt"} =>
            Kept(Child, s2, s3, y, c) /\ s3.protected
  <2>1. PollOutcome(Child, s2, s3, y, c, callback, n)
    BY <1>s3, <1>1, <1>14, <1>15, PollPartKeeps
  <2> QED BY <2>1 DEF PollOutcome
<1>17. /\ Advanced(Child, s2, s3, y, c)
       /\ c \in s2.deadline => c \in s3.deadline
  <2>1. CASE callback # "check"
    <3>1. Kept(Child, s2, s2, y, c)
      BY <1>14, KeptRefl
    <3>2. Advanced(Child, s2, s2, y, c)
      BY <1>1, <1>14, <3>1, KeptAdvanced
    <3> QED BY <1>16, <2>1, <3>2
  <2>2. CASE callback = "check" /\ n.phase \in {"waiting", "finalize-complete", "interrupt"}
    BY <1>16, <2>2 DEF Polled
  <2>3. CASE callback = "check" /\ n.phase \notin {"waiting", "finalize-complete", "interrupt"}
    <3>1. Kept(Child, s2, s3, y, c)
      BY <1>16, <2>3
    <3> QED BY <1>1, <1>14, <3>1, KeptAdvanced
  <2> QED BY <2>1, <2>2, <2>3
<1>18. Core(Child, s3, y, FALSE) /\ Judged(Child, s3) /\ s3 \in MemoryOf(Child)
  BY <1>17 DEF Advanced, Core
<1>19. Kept(Child, s3, s4, y, c)
  BY <1>s4, <1>18, ComparePartKept
<1>20. /\ Advanced(Child, s3, s4, y, c) /\ s4.deadline = s3.deadline
       /\ s4.admitted = s3.admitted
  BY <1>1, <1>18, <1>19, KeptAdvanced
<1>21. Advanced(Child, s1, s4, y, c)
  <2>1. Advanced(Child, s1, s3, y, c)
    BY <1>11, <1>13, <1>17, AdvancedCompose
  <2> QED BY <1>11, <1>20, <2>1, AdvancedCompose
<1>22. Core(Child, s4, y, FALSE) /\ Judged(Child, s4) /\ Onward(Child, pool, s4, c)
  <2>1. /\ pool.admitted \in Seq(Child) /\ s1.admitted \in Seq(Child)
        /\ s4.admitted \in Seq(Child)
    BY <1>2, <1>11, <1>21, MemoryFields DEF Advanced, Core
  <2>2. Onward(Child, pool, s4, c)
    BY <1>11, <1>21, <2>1, OnwardCompose DEF Advanced
  <2> QED BY <1>21, <2>2 DEF Advanced
<1>23. Waiting(s4.turn[c]) => c \in s4.deadline
  <2>1. SUFFICES ASSUME Waiting(s4.turn[c]) PROVE c \in s4.deadline
    OBVIOUS
  <2>2. Waiting(n)
    BY <1>11, <1>21, <2>1 DEF Advanced
  <2>3. CASE Archiving(n)
    BY <1>10, <1>13, <1>17, <1>20, <2>3
  <2>4. CASE t.phase = "check" /\ ~Archiving(n)
    <3>1. n.phase = "waiting" /\ callback = "check"
      BY <1>b, <2>2, <2>4 DEF Waiting, WaitPhases, Archiving, Callback
    <3> QED BY <1>16, <1>20, <3>1 DEF Polled
  <2> QED BY <1>5, <2>2, <2>3, <2>4 DEF Stepped
<1>24. ASSUME ~s4.protected, c \in s4.deadline \/ s4.turn[c].phase \notin EarlyPhases
       PROVE  c <= Len(s4.admitted)
  <2>1. ~s1.protected /\ ~s2.protected /\ ~s3.protected /\ ~pool.protected
    BY <1>11, <1>13, <1>17, <1>20, <1>24 DEF Advanced, Onward
  <2>2. CASE callback = "check"
    <3>1. Polled(Child, s2, s3, y, c)
      BY <1>16, <2>1, <2>2
    <3> QED BY <1>20, <3>1 DEF Polled
  <2>3. CASE t.phase \in {"start", "arm", "send-input", "mark-dispatched"}
    <3>1. callback \in BeforeObservation /\ callback # "check"
      BY <1>b, <2>3 DEF Callback, BeforeObservation
    <3>2. s2 = s1 /\ s3 = s2
      BY <1>s2, <1>16, <3>1 DEF EvidencePart
    <3>3. s4 = s3
      <4>1. {} \in SUBSET Child
        OBVIOUS
      <4>2. EnterFault(s3, FALSE, {}).protected
        BY <1>18, <4>1, EnterFaultMarks
      <4> QED BY <1>s4, <1>24, <3>1, <4>2 DEF ComparePart
    <3>4. n.phase \in EarlyPhases
      BY <1>5, <2>3 DEF Stepped
    <3>5. ~Archiving(n)
      BY <3>4 DEF Archiving, EarlyPhases, DispatchPhases
    <3>6. c \in pool.deadline
      BY <1>10, <1>11, <1>24, <3>2, <3>3, <3>4, <3>5
    <3> QED BY <1>1, <1>11, <2>1, <3>2, <3>3, <3>6 DEF Served
  <2>4. CASE t.phase = "finalize-control-failed"
    BY <1>5, <1>10, <2>1, <2>4 DEF Stepped
  <2>5. CASE t.phase \notin {"start", "arm", "send-input", "mark-dispatched",
                             "finalize-control-failed"} /\ callback # "check"
    <3>1. t.phase \notin EarlyPhases
      BY <1>b, <2>5 DEF EarlyPhases, DispatchPhases, Callback
    <3>2. pool.turn[c].phase \notin EarlyPhases
      BY <1>t, <3>1 DEF Resumed, Waiting, WaitPhases, EarlyPhases, DispatchPhases
    <3>3. c <= Len(pool.admitted)
      BY <1>1, <2>1, <3>2 DEF Served
    <3>4. Len(pool.admitted) <= Len(s4.admitted)
      BY <1>22 DEF Onward
    <3>5. Len(pool.admitted) \in Nat /\ Len(s4.admitted) \in Nat
      <4>1. pool.admitted \in Seq(Child) /\ s4.admitted \in Seq(Child)
        BY <1>2, <1>22, MemoryFields DEF Core
      <4> QED BY <4>1, LenProperties
    <3>6. c \in Int
      <4>1. pool.setup \in Setups
        BY <1>2, MemoryFields
      <4> QED BY <1>1, <4>1 DEF Child, N, PoolAssumption
    <3> QED BY <3>3, <3>4, <3>5, <3>6
  <2> QED BY <2>2, <2>3, <2>4, <2>5
<1> QED BY <1>22, <1>23, <1>24 DEF Invoked, Served

-----------------------------------------------------------------------------
(* Steps. *)

\* The children are numbered from one.
LEMMA Children ==
  ASSUME PoolAssumption, pool.setup \in Setups
  PROVE  N \in Nat /\ Child = 1..N /\ Child \subseteq Int /\ 0 \notin Child
BY DEF PoolAssumption, N, Child

\* The contract does not change, nor what depends on it.
LEMMA SetupKept ==
  ASSUME pool'.setup = pool.setup
  PROVE  Child' = Child /\ N' = N /\ Admitted' = Admitted
BY DEF Child, N, Admitted

\* A fault of the pool leaves a sound memory sound.
LEMMA CalmKeepsSound ==
  ASSUME NEW s, NEW u, NEW x, NEW d, Sound(Child, s, x, d), 0 \notin Child,
         Core(Child, u, x, FALSE), Calm(Child, s, u, 0), s.compared => (u.clean <=> s.clean)
  PROVE  Sound(Child, u, x, d)
<1>1. Core(Child, u, x, FALSE) /\ Calm(Child, s, u, 0)
  OBVIOUS
<1>2. ASSUME NEW c \in Child
      PROVE  /\ Terminal(s.turn[c]) => u.turn[c] = s.turn[c]
             /\ Waiting(u.turn[c]) => Waiting(s.turn[c])
             /\ u.protected \/ u.turn[c] = s.turn[c]
             /\ ~Started(s.turn[c]) => u.turn[c].phase \in {"start", "terminal"}
  <2>1. c # 0
    OBVIOUS
  <2> QED BY <1>1, <2>1 DEF Calm
<1>3. /\ u.lease = s.lease /\ u.admitted = s.admitted /\ u.deadline = s.deadline
      /\ u.compared <=> s.compared
      /\ s.protected => u.protected
      /\ s.controlFailed => u.controlFailed
  BY <1>1 DEF Calm
<1>4. ASSUME NEW c \in Child PROVE Served(u, c)
  BY <1>2, <1>3 DEF Served, Sound
<1>5. InOrder(u)
  BY <1>3 DEF InOrder, Sound
<1>6. LeaseOK(Child, u, x)
  <2>1. ASSUME NEW c \in Child, u.turn[c].phase \notin {"start", "terminal"}
        PROVE  s.turn[c].phase \notin {"start", "terminal"}
    BY <1>2, <2>1 DEF Started, Terminal
  <2> QED BY <1>3, <2>1 DEF LeaseOK, Sound
<1>7. ComparedOK(Child, u, x, d)
  <2>1. Over(Child, s) => Over(Child, u)
    BY <1>2 DEF Over
  <2> QED BY <1>3, <2>1 DEF ComparedOK, Sound
<1> QED BY <1>1, <1>4, <1>5, <1>6, <1>7 DEF Sound

\* The same, of a memory whose faulted children are rejected.
LEMMA CalmSound ==
  ASSUME NEW s, NEW u, NEW x, NEW d, Sound(Child, s, x, d), 0 \notin Child,
         Kept(Child, s, u, x, 0), s.compared => (u.clean <=> s.clean)
  PROVE  Sound(Child, u, x, d) /\ Judged(Child, u)
BY CalmKeepsSound DEF Kept

\* A sound memory whose turns have all ended without loss of control has left
\* no session at work.
LEMMA OverQuiet ==
  ASSUME NEW C, NEW s, NEW x, Core(C, s, x, FALSE), Over(C, s), ~s.controlFailed
  PROVE  Quiet(C, x)
BY DEF Core, Over, SessionOK, Quiet

\* _status_after_action says of a memory what the statuses stand for.
LEMMA SettledSound ==
  ASSUME NEW u, NEW x, NEW d, Sound(Child, u, x, d), Judged(Child, u)
  PROVE  /\ Sound(Child, Settled(u), x, d) /\ Judged(Child, Settled(u))
         /\ StatusOK(Child, Settled(u))
         /\ Settled(u).status \in Status
         /\ Settled(u).status \in {"completed", "closed"} => Quiet(Child, x)
         /\ Settled(u).setup = u.setup
         /\ Settled(u).protected <=> u.protected
<1> DEFINE v == Settled(u)
<1>1. u \in MemoryOf(Child) /\ u.deadline \subseteq Child
  BY MemoryFields DEF Sound, Core
<1>2. /\ StatusAfter(u) \in Status
      /\ StatusAfter(u) # "closed"
      /\ StatusAfter(u) = "completed" => Over(Child, u) /\ ~u.controlFailed
      /\ StatusAfter(u) = "control-failed" => Over(Child, u) /\ u.controlFailed
  BY DEF StatusAfter, Status, Over, AllTerminal
<1>3. v \in MemoryOf(Child)
  BY <1>1, <1>2 DEF MemoryOf, Settled
<1>4. /\ SameTurns(u, v) /\ v.deadline = u.deadline /\ v.lease = u.lease
      /\ v.admitted = u.admitted /\ (v.clean <=> u.clean) /\ v.status = StatusAfter(u)
  BY <1>1 DEF MemoryOf, Settled, SameTurns
<1> HIDE DEF v
<1>5. \A c \in v.deadline : ~Terminal(u.turn[c]) /\ Started(u.turn[c])
  BY <1>1, <1>4 DEF Core, Sound
<1>6. Core(Child, v, x, FALSE) /\ Judged(Child, v)
  BY <1>3, <1>4, <1>5, SameTurnsKeeps DEF Sound
<1>7. ASSUME NEW c \in Child PROVE Served(v, c)
  BY <1>4 DEF Served, Sound, SameTurns
<1>8. InOrder(v) /\ LeaseOK(Child, v, x) /\ ComparedOK(Child, v, x, d)
  BY <1>4 DEF InOrder, LeaseOK, ComparedOK, Over, Sound, SameTurns
<1>9. Sound(Child, v, x, d)
  BY <1>6, <1>7, <1>8 DEF Sound
<1>10. /\ v.status = "completed" => Over(Child, v) /\ ~v.controlFailed
       /\ v.status = "control-failed" => Over(Child, v) /\ v.controlFailed
       /\ v.status # "closed" /\ v.status \in Status
  BY <1>2, <1>4 DEF Over, SameTurns
<1>11. StatusOK(Child, v)
  BY <1>10 DEF StatusOK
<1>12. v.status \in {"completed", "closed"} => Quiet(Child, x)
  BY <1>6, <1>10, OverQuiet
<1> QED BY <1>4, <1>6, <1>9, <1>10, <1>11, <1>12 DEF v, SameTurns

\* A memory that a step may leave behind.
Ready(C, u, x, d) ==
  /\ Sound(C, u, x, d) /\ Judged(C, u) /\ StatusOK(C, u)
  /\ u.status \in {"completed", "closed"} => Quiet(C, x)

\* The receipt of the next state is built over the same children, and has its type.
LEMMA ReceiptKept ==
  ASSUME pool'.setup = pool.setup
  PROVE  /\ BuildReceipt(pool)' = BuildReceipt(pool')
         /\ (BuildReceipt(pool) \in Receipt)'
<1>1. Child' = Child /\ N' = N /\ Admitted' = Admitted
  BY SetupKept
<1>2. /\ Accepting(pool)' <=> Accepting(pool')
      /\ Accepting(pool)' \in BOOLEAN /\ Accepting(pool') \in BOOLEAN
  BY <1>1 DEF Accepting
<1>3. Disposition(pool)' = Disposition(pool')
  BY <1>1, <1>2 DEF Disposition
<1>4. Authorized(pool)' = Authorized(pool')
  BY <1>1 DEF Authorized
<1>5. BuildReceipt(pool)' = BuildReceipt(pool')
  BY <1>2, <1>3, <1>4 DEF BuildReceipt
<1>6. Disposition(pool)' \in {"accepted", "partial", "quarantined", "rejected"}
  BY DEF Disposition
<1>7. Authorized(pool)' \subseteq Child'
  BY DEF Authorized
<1>8. (BuildReceipt(pool) \in Receipt)'
  BY <1>2, <1>6, <1>7 DEF BuildReceipt, Receipt
<1> QED BY <1>5, <1>8

\* What a step must show of the memory, the state file and the world, in terms
\* of the children it started with.
LEMMA StepKeeps ==
  ASSUME pool'.setup = pool.setup,
         Sound(Child, pool', session', dirty'),
         crashed' \/ Judged(Child, pool'),
         StatusOK(Child, pool'),
         session' \in SessionOf(Child), disk' \in Status,
         crashed' \in BOOLEAN, dirty' \in BOOLEAN, asked' \in BOOLEAN,
         request' \in {"absent", "pending", "consumed"},
         disk' \in {"completed", "closed"} => Quiet(Child, session'),
         IF crashed' THEN pool'.status = "control-failed" ELSE disk' = pool'.status,
         request' = "consumed" \/ asked' => pool'.protected,
         \/ receipt' = NoReceipt
         \/ /\ ~crashed' /\ pool'.status \in {"closed", "control-failed"}
            /\ receipt' = BuildReceipt(pool')
  PROVE  PoolInv'
<1>1. Child' = Child
  BY SetupKept
<1>2. pool' \in MemoryOf(Child)
  BY DEF Sound, Core
<1>3. (pool \in PoolMemory)'
  BY <1>1, <1>2 DEF MemoryOf, PoolMemory
<1>8. /\ BuildReceipt(pool)' = BuildReceipt(pool')
      /\ (BuildReceipt(pool) \in Receipt)'
  BY ReceiptKept
<1>9. receipt' \in Receipt' \cup {NoReceipt}
  BY <1>8
<1>4. PoolTypeOK'
  BY <1>1, <1>3, <1>9 DEF PoolTypeOK, SessionOf
<1>5. DiskQuiescent'
  BY <1>1 DEF DiskQuiescent, Quiet
<1>6. Sound(Child, pool, session, dirty)' /\ StatusOK(Child, pool)'
  BY <1>1
<1>7. (~crashed => Judged(Child, pool))'
  BY <1>1
<1> QED BY <1>4, <1>5, <1>6, <1>7, <1>8 DEF PoolInv

\* A step of a running coordinator, which ends by writing its state.
LEMMA PersistKeeps ==
  ASSUME PoolInv, ~crashed, pool.status \notin {"closed", "control-failed"} \/ receipt = NoReceipt,
         NEW u, Persist(u), u.setup = pool.setup, Ready(Child, u, session', dirty),
         session' \in SessionOf(Child), asked' \in BOOLEAN,
         request' \in {"absent", "pending", "consumed"},
         request' = "consumed" \/ asked' => u.protected,
         UNCHANGED <<receipt, crashed, dirty>>
  PROVE  PoolInv'
<1>1. /\ pool' = u /\ disk' = u.status /\ receipt' = NoReceipt
      /\ crashed' = FALSE /\ crashed' = crashed /\ dirty' = dirty /\ dirty' \in BOOLEAN
  BY DEF PoolInv, PoolTypeOK, Persist
<1>2. u.status \in Status
  BY MemoryFields DEF Ready, Sound, Core
<1>3. /\ Sound(Child, pool', session', dirty') /\ Judged(Child, pool')
      /\ StatusOK(Child, pool')
      /\ disk' \in {"completed", "closed"} => Quiet(Child, session')
  BY <1>1 DEF Ready
<1> QED BY <1>1, <1>2, <1>3, StepKeeps

\* What a running coordinator starts from.
LEMMA RunningFacts ==
  ASSUME PoolAssumption, PoolInv
  PROVE  /\ pool \in MemoryOf(Child) /\ pool.setup \in Setups /\ 0 \notin Child
         /\ Core(Child, pool, session, FALSE)
         /\ session \in SessionOf(Child)
         /\ asked \in BOOLEAN /\ request \in {"absent", "pending", "consumed"}
         /\ {} \in SUBSET Child
<1>1. Core(Child, pool, session, FALSE) /\ pool \in MemoryOf(Child)
  BY DEF PoolInv, Sound, Core
<1>2. pool.setup \in Setups
  BY <1>1, MemoryFields
<1> QED BY <1>1, <1>2, Children DEF PoolInv, PoolTypeOK, SessionOf

\* A pool-wide fault of the memory at hand.
LEMMA PoolFault ==
  ASSUME PoolAssumption, PoolInv, NEW cf \in BOOLEAN, NEW a \in SUBSET Child
  PROVE  /\ Sound(Child, EnterFault(pool, cf, a), session, dirty)
         /\ Judged(Child, EnterFault(pool, cf, a))
         /\ EnterFault(pool, cf, a).setup = pool.setup
         /\ EnterFault(pool, cf, a).protected
<1> DEFINE u == EnterFault(pool, cf, a)
<1>1. /\ pool \in MemoryOf(Child) /\ 0 \notin Child /\ Core(Child, pool, session, FALSE)
      /\ Sound(Child, pool, session, dirty)
  BY RunningFacts DEF PoolInv
<1>2. Kept(Child, pool, u, session, 0)
  BY <1>1, FaultKept
<1>3. u.protected /\ (u.clean <=> pool.clean)
  BY <1>1, EnterFaultMarks
<1> HIDE DEF u
<1>4. Sound(Child, u, session, dirty) /\ Judged(Child, u)
  BY <1>1, <1>2, <1>3, CalmSound
<1>5. u.setup = pool.setup
  BY <1>2 DEF Kept, Calm
<1> QED BY <1>3, <1>4, <1>5 DEF u

\* A step that does nothing but enter such a fault and settle the status.
LEMMA FaultStep ==
  ASSUME PoolAssumption, PoolInv, Running, NEW cf \in BOOLEAN, NEW a \in SUBSET Child,
         Persist(Settled(EnterFault(pool, cf, a))),
         request' \in {"absent", "pending", "consumed"},
         UNCHANGED <<receipt, crashed, session, dirty, asked>>
  PROVE  PoolInv'
<1> DEFINE u == EnterFault(pool, cf, a)
           v == Settled(u)
<1>1. session \in SessionOf(Child) /\ asked \in BOOLEAN
  BY RunningFacts
<1>2. /\ Sound(Child, u, session, dirty) /\ Judged(Child, u)
      /\ u.setup = pool.setup /\ u.protected
  BY PoolFault
<1>3. Persist(v)
  OBVIOUS
<1> HIDE DEF u
<1>4. /\ Sound(Child, v, session, dirty) /\ Judged(Child, v) /\ StatusOK(Child, v)
      /\ v.status \in {"completed", "closed"} => Quiet(Child, session)
      /\ v.setup = u.setup /\ v.protected
  BY <1>2, SettledSound
<1> HIDE DEF v
<1>5. Ready(Child, v, session', dirty)
  BY <1>4 DEF Ready
<1>6. ~crashed /\ pool.status \notin {"closed", "control-failed"}
  BY DEF Running
<1> QED BY <1>1, <1>2, <1>3, <1>4, <1>5, <1>6, PersistKeeps

\* The steps that are such faults.
LEMMA FaultActions ==
  ASSUME PoolAssumption, PoolInv, WatermarkFault \/ CapabilityFault \/ ConsumeControlRequest
  PROVE  PoolInv'
<1>1. {} \in SUBSET Child /\ request \in {"absent", "pending", "consumed"}
  BY RunningFacts
<1>2. CASE WatermarkFault
  BY <1>1, <1>2, FaultStep DEF WatermarkFault
<1>3. CASE CapabilityFault
  BY <1>1, <1>3, FaultStep DEF CapabilityFault
<1>4. CASE ConsumeControlRequest
  BY <1>1, <1>4, FaultStep DEF ConsumeControlRequest
<1> QED BY <1>2, <1>3, <1>4

\* A step that sets the status.
LEMMA StatusSet ==
  ASSUME NEW u, NEW x, NEW d, NEW k \in Status, Sound(Child, u, x, d), Judged(Child, u)
  PROVE  /\ Sound(Child, [u EXCEPT !.status = k], x, d)
         /\ Judged(Child, [u EXCEPT !.status = k])
         /\ [u EXCEPT !.status = k].status = k
         /\ SameTurns(u, [u EXCEPT !.status = k])
<1> DEFINE v == [u EXCEPT !.status = k]
<1>1. u \in MemoryOf(Child) /\ u.deadline \subseteq Child
  BY MemoryFields DEF Sound, Core
<1>2. v \in MemoryOf(Child)
  BY <1>1 DEF MemoryOf
<1>3. /\ SameTurns(u, v) /\ v.deadline = u.deadline /\ v.lease = u.lease
      /\ v.admitted = u.admitted /\ (v.clean <=> u.clean) /\ v.status = k
  BY <1>1 DEF MemoryOf, SameTurns
<1> HIDE DEF v
<1>4. \A c \in v.deadline : ~Terminal(u.turn[c]) /\ Started(u.turn[c])
  BY <1>1, <1>3 DEF Core, Sound
<1>5. Core(Child, v, x, FALSE) /\ Judged(Child, v)
  BY <1>2, <1>3, <1>4, SameTurnsKeeps DEF Sound
<1>6. ASSUME NEW c \in Child PROVE Served(v, c)
  BY <1>3 DEF Served, Sound, SameTurns
<1>7. InOrder(v) /\ LeaseOK(Child, v, x) /\ ComparedOK(Child, v, x, d)
  BY <1>3 DEF InOrder, LeaseOK, ComparedOK, Over, Sound, SameTurns
<1>8. Sound(Child, v, x, d)
  BY <1>5, <1>6, <1>7 DEF Sound
<1> QED BY <1>3, <1>5, <1>8 DEF v

\* Leases are acquired, parked or released.
LEMMA LeaseSet ==
  ASSUME NEW u, NEW x, NEW d, NEW l \in [Child -> HeldLease], Sound(Child, u, x, d),
         \A c \in Child : /\ u.lease[c] # "none" => l[c] # "none"
                          /\ l[c] = "released" => u.lease[c] = "released" \/ u.compared
  PROVE  /\ Sound(Child, [u EXCEPT !.lease = l], x, d)
         /\ Judged(Child, u) => Judged(Child, [u EXCEPT !.lease = l])
         /\ [u EXCEPT !.lease = l].status = u.status
         /\ SameTurns(u, [u EXCEPT !.lease = l])
<1> DEFINE v == [u EXCEPT !.lease = l]
<1>1. u \in MemoryOf(Child) /\ u.deadline \subseteq Child
  BY MemoryFields DEF Sound, Core
<1>2. v \in MemoryOf(Child)
  BY <1>1 DEF MemoryOf
<1>3. /\ SameTurns(u, v) /\ v.deadline = u.deadline /\ v.lease = l
      /\ v.admitted = u.admitted /\ (v.clean <=> u.clean) /\ v.status = u.status
  BY <1>1 DEF MemoryOf, SameTurns
<1> HIDE DEF v
<1>4. \A c \in v.deadline : ~Terminal(u.turn[c]) /\ Started(u.turn[c])
  BY <1>1, <1>3 DEF Core, Sound
<1>5. Core(Child, v, x, FALSE) /\ (Judged(Child, u) => Judged(Child, v))
  BY <1>2, <1>3, <1>4, SameTurnsKeeps DEF Sound
<1>6. ASSUME NEW c \in Child PROVE Served(v, c)
  BY <1>3 DEF Served, Sound, SameTurns
<1>7. InOrder(v) /\ ComparedOK(Child, v, x, d)
  BY <1>3 DEF InOrder, ComparedOK, Over, Sound, SameTurns
<1>8. LeaseOK(Child, v, x)
  BY <1>3 DEF LeaseOK, Sound, SameTurns
<1>9. Sound(Child, v, x, d)
  BY <1>5, <1>6, <1>7, <1>8 DEF Sound
<1> QED BY <1>3, <1>5, <1>9 DEF v

\* The first step.
LEMMA BeginKeeps ==
  ASSUME PoolAssumption, PoolInv, Begin
  PROVE  PoolInv'
<1>1. /\ session \in SessionOf(Child) /\ asked \in BOOLEAN /\ {} \in SUBSET Child
      /\ request \in {"absent", "pending", "consumed"}
  BY RunningFacts
<1>2. /\ ~crashed /\ Running /\ pool.status = "created"
      /\ UNCHANGED <<receipt, crashed, session, dirty, request, asked>>
      /\ Persist(IF pool.clean THEN [pool EXCEPT !.status = "admitting"]
                 ELSE Settled(EnterFault(pool, FALSE, {})))
  BY DEF Begin, Undisturbed, Running
<1>3. CASE ~pool.clean
  BY <1>1, <1>2, <1>3, FaultStep
<1>4. CASE pool.clean
  <2> DEFINE v == [pool EXCEPT !.status = "admitting"]
  <2>1. Persist(v)
    BY <1>2, <1>4
  <2>2. "admitting" \in Status
    BY DEF Status
  <2>3. /\ Sound(Child, v, session, dirty) /\ Judged(Child, v) /\ v.status = "admitting"
        /\ SameTurns(pool, v)
    BY <1>2, <2>2, StatusSet DEF PoolInv
  <2> HIDE DEF v
  <2>4. Ready(Child, v, session', dirty)
    BY <1>2, <2>3 DEF Ready, StatusOK
  <2>5. v.setup = pool.setup /\ (request' = "consumed" \/ asked' => v.protected)
    BY <1>2, <2>3 DEF SameTurns, PoolInv
  <2> QED BY <1>1, <1>2, <2>1, <2>4, <2>5, PersistKeeps
<1> QED BY <1>3, <1>4

\* A memory that settles its status is one a step may leave behind.
LEMMA SettleStep ==
  ASSUME PoolAssumption, PoolInv, Running, NEW u, Persist(Settled(u)),
         Sound(Child, u, session', dirty), Judged(Child, u), u.setup = pool.setup,
         pool.protected => u.protected, session' \in SessionOf(Child),
         UNCHANGED <<receipt, crashed, dirty, request, asked>>
  PROVE  PoolInv'
<1> DEFINE v == Settled(u)
<1>1. asked \in BOOLEAN /\ request \in {"absent", "pending", "consumed"}
  BY RunningFacts
<1>2. Persist(v)
  OBVIOUS
<1>3. /\ Sound(Child, v, session', dirty) /\ Judged(Child, v) /\ StatusOK(Child, v)
      /\ v.status \in {"completed", "closed"} => Quiet(Child, session')
      /\ v.setup = u.setup /\ (v.protected <=> u.protected)
  BY SettledSound
<1> HIDE DEF v
<1>4. Ready(Child, v, session', dirty)
  BY <1>3 DEF Ready
<1>5. ~crashed /\ pool.status \notin {"closed", "control-failed"}
  BY DEF Running
<1>6. request' = "consumed" \/ asked' => v.protected
  BY <1>3 DEF PoolInv
<1> QED BY <1>1, <1>2, <1>3, <1>4, <1>5, <1>6, PersistKeeps

\* acquire_many, and its failure.
LEMMA AcquireKeeps ==
  ASSUME PoolAssumption, PoolInv, AcquireLeases
  PROVE  PoolInv'
<1>1. /\ session \in SessionOf(Child) /\ request \in {"absent", "pending", "consumed"}
      /\ ~crashed /\ Running
      /\ UNCHANGED <<receipt, crashed, session, dirty, request, asked>>
  BY RunningFacts DEF AcquireLeases, Undisturbed, Running
<1>2. CASE Persist(Settled([pool EXCEPT !.lease = [c \in Child |-> "acquired"]]))
  <2> DEFINE l == [c \in Child |-> "acquired"]
             u == [pool EXCEPT !.lease = l]
  <2>1. l \in [Child -> HeldLease] /\ \A c \in Child : l[c] # "none" /\ l[c] # "released"
    BY DEF HeldLease
  <2>2. Persist(Settled(u))
    BY <1>2
  <2> HIDE DEF l
  <2>3. Sound(Child, u, session, dirty) /\ Judged(Child, u) /\ SameTurns(pool, u)
    BY <1>1, <2>1, LeaseSet DEF PoolInv
  <2> HIDE DEF u
  <2> QED BY <1>1, <2>2, <2>3, SettleStep DEF SameTurns
<1>3. CASE \E c \in Child : Persist(Settled(EnterFault(pool, FALSE, {c})))
  <2>1. PICK c \in Child : Persist(Settled(EnterFault(pool, FALSE, {c})))
    BY <1>3
  <2>2. {c} \in SUBSET Child
    OBVIOUS
  <2> QED BY <1>1, <2>1, <2>2, FaultStep
<1> QED BY <1>2, <1>3 DEF AcquireLeases

\* Nothing is left to drive.
LEMMA SettleKeeps ==
  ASSUME PoolAssumption, PoolInv, Settle
  PROVE  PoolInv'
<1>1. /\ session \in SessionOf(Child) /\ Running /\ Persist(Settled(pool))
      /\ UNCHANGED <<receipt, crashed, session, dirty, request, asked>>
      /\ Sound(Child, pool, session, dirty) /\ Judged(Child, pool)
  BY RunningFacts DEF Settle, Driving, Undisturbed, PoolInv, Running
<1> QED BY <1>1, SettleStep

\* request_interrupt of the coordinator.
LEMMA RequestInterruptKeeps ==
  ASSUME PoolAssumption, PoolInv, RequestInterrupt
  PROVE  PoolInv'
<1> DEFINE u == EnterFault(pool, FALSE, {})
           v == [u EXCEPT !.status = "interrupt-pending"]
<1>1. /\ session \in SessionOf(Child) /\ request \in {"absent", "pending", "consumed"}
      /\ {} \in SUBSET Child
  BY RunningFacts
<1>2. /\ ~crashed /\ Running /\ Persist(v) /\ asked' = TRUE
      /\ UNCHANGED <<receipt, crashed, session, dirty, request>>
  BY DEF RequestInterrupt, Running
<1>3. /\ Sound(Child, u, session, dirty) /\ Judged(Child, u)
      /\ u.setup = pool.setup /\ u.protected
  BY <1>1, PoolFault
<1> HIDE DEF u
<1>4. "interrupt-pending" \in Status
  BY DEF Status
<1>5. /\ Sound(Child, v, session, dirty) /\ Judged(Child, v) /\ v.status = "interrupt-pending"
      /\ SameTurns(u, v)
  BY <1>3, <1>4, StatusSet
<1> HIDE DEF v
<1>6. Ready(Child, v, session', dirty)
  BY <1>2, <1>5 DEF Ready, StatusOK
<1>7. v.setup = pool.setup /\ v.protected
  BY <1>3, <1>5 DEF SameTurns
<1>8. pool.status \notin {"closed", "control-failed"}
  BY <1>2 DEF Running
<1> QED BY <1>1, <1>2, <1>6, <1>7, <1>8, PersistKeeps

\* A child that is driven has its lease.
LEMMA DrivenHasLease ==
  ASSUME PoolInv, Driving, NEW c \in Child, ~Terminal(pool.turn[c])
  PROVE  pool.lease[c] # "none"
<1>1. CASE ~pool.protected
  BY <1>1 DEF Driving
<1>2. CASE pool.protected
  <2>1. pool.turn[c].phase \in StoppingPhases
    BY <1>2 DEF PoolInv, Sound, Core, Protected, Terminal
  <2>2. pool.turn[c].phase \notin {"start", "terminal"}
    BY <2>1 DEF StoppingPhases, InterruptPhases
  <2> QED BY <2>2 DEF PoolInv, Sound, LeaseOK
<1> QED BY <1>1, <1>2

\* After an invocation the memory is sound, for every child.
LEMMA InvokedSound ==
  ASSUME PoolAssumption, PoolInv, Driving, NEW c \in Child, ~Terminal(pool.turn[c]),
         NEW u, NEW y, Invoked(Child, pool, u, y, c),
         \A d \in Child : d # c => y[d] = session[d]
  PROVE  Sound(Child, u, y, dirty) /\ Judged(Child, u)
<1>1. /\ Core(Child, u, y, FALSE) /\ Judged(Child, u) /\ Onward(Child, pool, u, c)
      /\ Served(u, c)
  BY DEF Invoked
<1>2. Sound(Child, pool, session, dirty)
  BY DEF PoolInv
<1>3. pool.lease[c] # "none"
  BY DrivenHasLease
<1>4. ~pool.compared
  BY <1>2 DEF Sound, ComparedOK, Over
<1>5. ComparedOK(Child, u, y, dirty)
  BY <1>1, <1>4 DEF Onward, ComparedOK
<1>6. InOrder(u)
  BY <1>1, <1>2 DEF Onward, Sound
<1>7. ASSUME NEW d \in Child PROVE Served(u, d)
  <2>1. CASE d = c
    BY <1>1, <2>1
  <2>2. CASE d # c
    <3>1. /\ d \in u.deadline <=> d \in pool.deadline
          /\ Waiting(u.turn[d]) => Waiting(pool.turn[d])
          /\ u.protected \/ u.turn[d] = pool.turn[d]
          /\ pool.protected => u.protected
          /\ Len(pool.admitted) <= Len(u.admitted)
      BY <1>1, <2>2 DEF Onward
    <3>2. Served(pool, d)
      BY <1>2 DEF Sound
    <3>3. Len(pool.admitted) \in Nat /\ Len(u.admitted) \in Nat /\ d \in Int
      <4>1. pool.admitted \in Seq(Child) /\ u.admitted \in Seq(Child) /\ pool.setup \in Setups
        BY <1>1, <1>2, MemoryFields DEF Sound, Core
      <4> QED BY <4>1, LenProperties, Children
    <3>4. Waiting(u.turn[d]) => d \in u.deadline
      BY <3>1, <3>2 DEF Served
    <3>5. ~u.protected /\ (d \in u.deadline \/ u.turn[d].phase \notin EarlyPhases) =>
            d <= Len(pool.admitted)
      BY <3>1, <3>2 DEF Served
    <3>6. ~u.protected /\ (d \in u.deadline \/ u.turn[d].phase \notin EarlyPhases) =>
            d <= Len(u.admitted)
      BY <3>1, <3>3, <3>5
    <3> QED BY <3>4, <3>6 DEF Served
  <2> QED BY <2>1, <2>2
<1>8. LeaseOK(Child, u, y)
  <2>1. ASSUME NEW d \in Child
        PROVE  /\ u.turn[d].phase \notin {"start", "terminal"} \/ y[d] # "idle" =>
                    u.lease[d] # "none"
               /\ u.lease[d] = "released" => u.compared
    <3>1. /\ pool.lease[d] # "none" => u.lease[d] # "none"
          /\ u.lease[d] = "released" => pool.lease[d] = "released"
          /\ u.compared <=> pool.compared
      BY <1>1 DEF Onward
    <3>2. /\ pool.turn[d].phase \notin {"start", "terminal"} \/ session[d] # "idle" =>
                pool.lease[d] # "none"
          /\ pool.lease[d] = "released" => pool.compared
      BY <1>2 DEF Sound, LeaseOK
    <3>3. CASE d = c
      BY <1>3, <3>1, <3>2, <3>3
    <3>4. CASE d # c
      <4>1. u.turn[d].phase \notin {"start", "terminal"} =>
              pool.turn[d].phase \notin {"start", "terminal"}
        BY <1>1, <3>4 DEF Onward, Started, Terminal
      <4> QED BY <3>1, <3>2, <3>4, <4>1
    <3> QED BY <3>3, <3>4
  <2> QED BY <2>1 DEF LeaseOK
<1> QED BY <1>1, <1>5, <1>6, <1>7, <1>8 DEF Sound

\* One callback of a child, and all that follows it.
LEMMA InvokeChildKeeps ==
  ASSUME PoolAssumption, PoolInv, NEW c \in Child, NEW reply, InvokeChild(c, reply)
  PROVE  PoolInv'
<1> DEFINE t == Resumed(pool.turn[c])
           callback == Callback(t.phase)
           n == StepTurn(t, reply)
           y == session'
<1>1. t = IF Waiting(pool.turn[c]) THEN ResumeTurn(pool.turn[c]) ELSE pool.turn[c]
  BY DEF Resumed
<1> HIDE DEF t
<1>2. /\ Driving /\ c \in Selectable(pool) /\ reply \in Answers(t.phase)
      /\ y \in SessionsAfter(c, callback, reply)
      /\ UNCHANGED <<receipt, crashed, dirty, request, asked>>
  BY <1>1, Zenon DEF InvokeChild
<1>3. PICK o \in Observation(callback) :
        \E s1 \in {ProgressPart(pool, c, n)} :
        \E s2 \in {EvidencePart(s1, c, callback, n, o)} :
        \E s3 \in {PollPart(s2, c, callback, n, o)} :
        \E s4 \in {ComparePart(s3, c, callback, o)} : Persist(Settled(s4))
  BY <1>1 DEF InvokeChild
<1> DEFINE s1 == ProgressPart(pool, c, n)
           s2 == EvidencePart(s1, c, callback, n, o)
           s3 == PollPart(s2, c, callback, n, o)
           s4 == ComparePart(s3, c, callback, o)
<1>4. Persist(Settled(s4))
  BY <1>3
<1>5. reply \in Replies(t.phase)
  BY <1>2 DEF Answers
<1>6. Running /\ ~crashed /\ ~Terminal(pool.turn[c]) /\ session \in SessionOf(Child)
  BY <1>2, SelectableRuns, RunningFacts DEF Driving, Undisturbed, Running
<1>7. Parts(c, t, callback, reply, n, o, s1, s2, s3, s4)
  BY DEF Parts, t
<1> HIDE DEF callback, n, y, s1, s2, s3, s4
<1>8. Invoked(Child, pool, s4, y, c)
  BY <1>2, <1>3, <1>5, <1>6, <1>7, InvokeKeeps
<1>9. y \in SessionOf(Child) /\ \A d \in Child : d # c => y[d] = session[d]
  BY <1>2, <1>6, SessionsReached
<1>10. Sound(Child, s4, y, dirty) /\ Judged(Child, s4)
  BY <1>2, <1>6, <1>8, <1>9, InvokedSound
<1>11. s4.setup = pool.setup /\ (pool.protected => s4.protected)
  BY <1>8 DEF Invoked, Onward
<1> USE DEF y
<1> QED BY <1>2, <1>4, <1>6, <1>9, <1>10, <1>11, SettleStep

\* The task does not match its contract.
LEMMA RejectChildKeeps ==
  ASSUME PoolAssumption, PoolInv, NEW c \in Child, RejectChild(c)
  PROVE  PoolInv'
<1> DEFINE t == pool.turn[c]
           n == RejectTurn(t)
           u == UpdateProgress(pool, c, n)
<1>1. /\ Driving /\ Running /\ ~crashed /\ c \in Proposed(pool) /\ ~Started(t)
      /\ Persist(Settled(u))
      /\ UNCHANGED <<receipt, crashed, session, dirty, request, asked>>
  BY DEF RejectChild, Driving, Undisturbed, Running, Pending
<1>2. /\ Core(Child, pool, session, FALSE) /\ Judged(Child, pool)
      /\ pool \in MemoryOf(Child) /\ session \in SessionOf(Child)
      /\ t \in Turn /\ SessionOK(t, session[c], pool.controlFailed \/ FALSE)
  <2>1. /\ Core(Child, pool, session, FALSE) /\ pool \in MemoryOf(Child)
        /\ session \in SessionOf(Child)
    BY RunningFacts
  <2>2. t \in Turn /\ SessionOK(t, session[c], pool.controlFailed \/ FALSE)
    BY <2>1, MemoryFields DEF Core
  <2> QED BY <1>1, <2>1, <2>2 DEF PoolInv
<1>3. ~Terminal(t) /\ session[c] = "idle"
  BY <1>1, <1>2 DEF Started, Terminal, SessionOK
<1>4. n = [phase |-> "terminal", errors |-> TRUE, final |-> "control-failed"]
  <2>1. n = RejectTurn(t)
    OBVIOUS
  <2> HIDE DEF n, t
  <2> QED BY <1>2, <2>1, RejectedTurn
<1>5. n.phase = "terminal" /\ n.errors /\ n.final = "control-failed"
  BY <1>4
<1>6. n \in Turn
  <2>1. "terminal" \in TurnPhase /\ "control-failed" \in TerminalState \cup {"none"}
    BY DEF TurnPhase, TerminalState
  <2> QED BY <1>4, <2>1 DEF Turn
<1> HIDE DEF n, u
<1>7. TurnOK(n) /\ Started(n) /\ Terminal(n) /\ ~Waiting(n)
  BY <1>5 DEF TurnOK, Started, Terminal, Waiting, WaitPhases
<1>8. Moving(Child, pool, session, session, c, n)
  BY <1>2, <1>3, <1>5, <1>6, <1>7 DEF Moving
<1>9. SessionOK(n, session[c], TRUE)
  BY <1>3, <1>5 DEF SessionOK, Terminal
<1>10. Progressed(Child, pool, u, session, c, n, FALSE) /\ u.protected
  BY <1>5, <1>8, <1>9, UpdateProgressKeeps DEF u
<1>11. Served(u, c)
  BY <1>7, <1>10 DEF Served, Progressed
<1>12. Invoked(Child, pool, u, session, c)
  BY <1>10, <1>11 DEF Invoked, Progressed
<1>13. Sound(Child, u, session, dirty) /\ Judged(Child, u)
  BY <1>1, <1>3, <1>12, InvokedSound
<1>14. u.setup = pool.setup
  BY <1>12 DEF Invoked, Onward
<1> QED BY <1>1, <1>2, <1>10, <1>13, <1>14, SettleStep

\* The status after a step of the ending pool: control-failed when control was lost.
Ending(u) == IF u.controlFailed THEN [u EXCEPT !.status = "control-failed"] ELSE u

\* Such a step.
LEMMA EndingStep ==
  ASSUME PoolAssumption, PoolInv, Undisturbed, NEW u, Persist(Ending(u)),
         Sound(Child, u, session, dirty), Judged(Child, u), u.setup = pool.setup,
         u.status = "completed", Over(Child, u), pool.protected => u.protected,
         UNCHANGED <<receipt, crashed, session, dirty, request, asked>>
  PROVE  PoolInv'
<1> DEFINE v == [u EXCEPT !.status = "control-failed"]
<1>1. /\ asked \in BOOLEAN /\ request \in {"absent", "pending", "consumed"}
      /\ session \in SessionOf(Child) /\ ~crashed
      /\ pool.status \notin {"closed", "control-failed"}
  BY RunningFacts DEF Undisturbed, Running
<1>2. request' = "consumed" \/ asked' => pool.protected
  BY DEF PoolInv
<1>3. CASE ~u.controlFailed
  <2>1. Persist(u)
    BY <1>3 DEF Ending
  <2>2. Quiet(Child, session)
    BY <1>3, OverQuiet DEF Sound
  <2>3. Ready(Child, u, session', dirty)
    BY <1>3, <2>2 DEF Ready, StatusOK
  <2> QED BY <1>1, <1>2, <2>1, <2>3, PersistKeeps
<1>4. CASE u.controlFailed
  <2>1. Persist(v)
    BY <1>4 DEF Ending
  <2>2. "control-failed" \in Status
    BY DEF Status
  <2>3. /\ Sound(Child, v, session, dirty) /\ Judged(Child, v) /\ v.status = "control-failed"
        /\ SameTurns(u, v)
    BY <2>2, StatusSet
  <2> HIDE DEF v
  <2>4. StatusOK(Child, v)
    BY <1>4, <2>3 DEF StatusOK, Over, SameTurns
  <2>5. Ready(Child, v, session', dirty)
    BY <2>3, <2>4 DEF Ready
  <2>6. v.setup = pool.setup /\ (request' = "consumed" \/ asked' => v.protected)
    BY <1>2, <2>3 DEF SameTurns
  <2> QED BY <1>1, <2>1, <2>5, <2>6, PersistKeeps
<1> QED BY <1>3, <1>4

\* The terminal comparison is done.
LEMMA ComparedSet ==
  ASSUME NEW u, NEW x, NEW d, Sound(Child, u, x, d), Judged(Child, u), Over(Child, u),
         u.protected \/ u.clean,
         u.clean /\ ~u.controlFailed => ~d /\ Quiet(Child, x)
  PROVE  /\ Sound(Child, [u EXCEPT !.compared = TRUE], x, d)
         /\ Judged(Child, [u EXCEPT !.compared = TRUE])
         /\ [u EXCEPT !.compared = TRUE].status = u.status
         /\ [u EXCEPT !.compared = TRUE].setup = u.setup
         /\ [u EXCEPT !.compared = TRUE].turn = u.turn
         /\ [u EXCEPT !.compared = TRUE].protected <=> u.protected
         /\ [u EXCEPT !.compared = TRUE].controlFailed <=> u.controlFailed
<1> DEFINE v == [u EXCEPT !.compared = TRUE]
<1>1. u \in MemoryOf(Child) /\ u.deadline \subseteq Child /\ Core(Child, u, x, FALSE)
  BY MemoryFields DEF Sound, Core
<1>2. v \in MemoryOf(Child)
  BY <1>1 DEF MemoryOf
<1>3. /\ v.setup = u.setup /\ v.turn = u.turn /\ v.runtime = u.runtime /\ v.verdict = u.verdict
      /\ v.classified = u.classified /\ v.contained = u.contained /\ v.status = u.status
      /\ v.deadline = u.deadline /\ v.lease = u.lease /\ v.admitted = u.admitted
      /\ v.protected <=> u.protected
      /\ v.controlFailed <=> u.controlFailed
      /\ v.clean <=> u.clean
      /\ v.compared
  BY <1>1 DEF MemoryOf
<1> HIDE DEF v
<1>4. Protected(Child, v)
  BY <1>1, <1>3 DEF Core, Protected
<1>5. ASSUME NEW c \in Child
      PROVE  /\ TurnOK(v.turn[c])
             /\ SessionOK(v.turn[c], x[c], v.controlFailed \/ FALSE)
             /\ v.runtime[c] = "completed" => v.turn[c].final = "completed"
             /\ c \in v.deadline => ~Terminal(v.turn[c]) /\ Started(v.turn[c])
  <2>1. SessionOK(u.turn[c], x[c], u.controlFailed \/ FALSE)
    BY <1>1 DEF Core
  <2>2. SessionOK(v.turn[c], x[c], v.controlFailed \/ FALSE)
    BY <1>3, <2>1 DEF SessionOK
  <2> QED BY <1>1, <1>3, <2>2 DEF Core
<1>6. Core(Child, v, x, FALSE)
  BY <1>2, <1>4, <1>5 DEF Core
<1>7. Judged(Child, v)
  BY <1>3 DEF Judged
<1>8. ASSUME NEW c \in Child PROVE Served(v, c)
  BY <1>3 DEF Served, Sound
<1>9. InOrder(v) /\ LeaseOK(Child, v, x)
  BY <1>3 DEF InOrder, LeaseOK, Sound
<1>10. ComparedOK(Child, v, x, d)
  BY <1>3 DEF ComparedOK, Over
<1>11. Sound(Child, v, x, d)
  BY <1>6, <1>8, <1>9, <1>10 DEF Sound
<1> QED BY <1>3, <1>7, <1>11 DEF v

\* The end of a memory s: u keeps what it says of the end, and is sound.
EndKept(C, s, u, x, d) ==
  /\ Sound(C, u, x, d) /\ Over(C, u)
  /\ Judged(C, s) => Judged(C, u)
  /\ u.status = s.status /\ u.setup = s.setup
  /\ s.protected => u.protected
  /\ s.controlFailed => u.controlFailed

\* The comparison of the workspaces once every turn has ended, with a dirty one
\* counted as done.
Compared(s, result, cf) ==
  IF result = "clean" THEN [s EXCEPT !.clean = TRUE, !.compared = TRUE]
  ELSE IF result = "dirty"
  THEN [EnterFault(Revoke([s EXCEPT !.clean = FALSE]), cf, {}) EXCEPT !.compared = TRUE]
  ELSE EnterFault(Revoke(s), TRUE, {})

\* Faults after the end keep it.
LEMMA FaultEnded ==
  ASSUME NEW s, NEW u, NEW x, NEW d, Sound(Child, s, x, d), Over(Child, s), 0 \notin Child,
         Core(Child, u, x, FALSE), Calm(Child, s, u, 0), Judged(Child, s) => Judged(Child, u),
         s.compared => (u.clean <=> s.clean)
  PROVE  EndKept(Child, s, u, x, d)
<1>1. Sound(Child, u, x, d)
  BY CalmKeepsSound
<1>2. Over(Child, u)
  BY DEF Calm, Over
<1> QED BY <1>1, <1>2 DEF EndKept, Calm

\* The end is kept from step to step.
LEMMA EndedCompose ==
  ASSUME NEW C, NEW s, NEW u, NEW v, NEW x, NEW d,
         EndKept(C, s, u, x, d), EndKept(C, u, v, x, d)
  PROVE  EndKept(C, s, v, x, d)
BY DEF EndKept

\* The comparison that is done keeps the end.
LEMMA ComparedEnded ==
  ASSUME NEW s, NEW u, NEW x, NEW d, EndKept(Child, s, u, x, d), Judged(Child, s),
         u.protected \/ u.clean,
         u.clean /\ ~u.controlFailed => ~d /\ Quiet(Child, x)
  PROVE  EndKept(Child, s, [u EXCEPT !.compared = TRUE], x, d)
<1> DEFINE v == [u EXCEPT !.compared = TRUE]
<1>1. Sound(Child, u, x, d) /\ Judged(Child, u) /\ Over(Child, u)
  BY DEF EndKept
<1>2. /\ Sound(Child, v, x, d) /\ Judged(Child, v)
      /\ v.status = u.status /\ v.setup = u.setup /\ v.turn = u.turn
      /\ v.protected <=> u.protected
      /\ v.controlFailed <=> u.controlFailed
  BY <1>1, ComparedSet
<1> HIDE DEF v
<1>3. Over(Child, v)
  BY <1>1, <1>2 DEF Over
<1>4. EndKept(Child, s, v, x, d)
  BY <1>2, <1>3 DEF EndKept
<1> QED BY <1>4 DEF v

\* The terminal comparison, whatever it finds.
LEMMA ComparisonKeeps ==
  ASSUME NEW s, NEW x, NEW cf \in BOOLEAN, NEW result \in Comparisons, 0 \notin Child,
         Sound(Child, s, x, dirty), Judged(Child, s), Over(Child, s), ~s.compared
  PROVE  EndKept(Child, s, Compared(s, result, cf), x, dirty)
<1>1. Core(Child, s, x, FALSE) /\ s \in MemoryOf(Child)
  BY DEF Sound, Core
<1>2. CASE result = "clean"
  <2> DEFINE u == [s EXCEPT !.clean = TRUE]
  <2>1. Kept(Child, s, u, x, 0) /\ SameControl(s, u) /\ u.clean
    BY <1>1, CleanKept
  <2>2. [u EXCEPT !.compared = TRUE] = [s EXCEPT !.clean = TRUE, !.compared = TRUE]
    BY <1>1 DEF MemoryOf
  <2>3. Compared(s, result, cf) = [u EXCEPT !.compared = TRUE]
    BY <1>2, <2>2 DEF Compared
  <2> HIDE DEF u
  <2>4. ~dirty
    BY <1>2 DEF Comparisons
  <2>5. EndKept(Child, s, u, x, dirty)
    BY <2>1, FaultEnded DEF Kept
  <2>6. ~u.controlFailed => Quiet(Child, x)
    BY <2>5, OverQuiet DEF EndKept, Sound
  <2>7. EndKept(Child, s, [u EXCEPT !.compared = TRUE], x, dirty)
    BY <2>1, <2>4, <2>5, <2>6, ComparedEnded
  <2> QED BY <2>3, <2>7
<1>3. CASE result = "dirty"
  <2> DEFINE u == EnterFault(Revoke([s EXCEPT !.clean = FALSE]), cf, {})
  <2>1. Kept(Child, s, u, x, 0) /\ u.protected /\ ~u.clean
    BY <1>1, DirtyFaultKept
  <2>3. Compared(s, result, cf) = [u EXCEPT !.compared = TRUE]
    BY <1>3 DEF Compared
  <2> HIDE DEF u
  <2>5. EndKept(Child, s, u, x, dirty)
    BY <2>1, FaultEnded DEF Kept
  <2>7. EndKept(Child, s, [u EXCEPT !.compared = TRUE], x, dirty)
    BY <2>1, <2>5, ComparedEnded
  <2> QED BY <2>3, <2>7
<1>4. CASE result # "clean" /\ result # "dirty"
  <2> DEFINE u == EnterFault(Revoke(s), TRUE, {})
  <2>1. Kept(Child, s, u, x, 0)
    BY <1>1, RevokedFaultKept
  <2>3. Compared(s, result, cf) = u
    BY <1>4 DEF Compared
  <2> HIDE DEF u
  <2>5. EndKept(Child, s, u, x, dirty)
    BY <2>1, FaultEnded DEF Kept
  <2> QED BY <2>3, <2>5
<1> QED BY <1>2, <1>3, <1>4

\* The step that compares the workspaces of the completed pool.
LEMMA CompareTerminalKeeps ==
  ASSUME PoolAssumption, PoolInv, NEW result, CompareTerminal(result)
  PROVE  PoolInv'
<1> DEFINE u == Compared(pool, result, FALSE)
<1>1. /\ Undisturbed /\ pool.status = "completed" /\ ~pool.compared
      /\ result \in Comparisons /\ Persist(Ending(u))
      /\ UNCHANGED <<receipt, crashed, session, dirty, request, asked>>
  BY DEF CompareTerminal, Compared, Ending
<1>2. /\ 0 \notin Child /\ Sound(Child, pool, session, dirty) /\ Judged(Child, pool)
      /\ Over(Child, pool)
  BY <1>1, RunningFacts DEF PoolInv, StatusOK, Undisturbed, Running
<1> HIDE DEF u
<1>3. EndKept(Child, pool, u, session, dirty)
  BY <1>1, <1>2, ComparisonKeeps DEF u
<1> QED BY <1>1, <1>2, <1>3, EndingStep DEF EndKept

\* The close of the pool.
LEMMA CloseKeeps ==
  ASSUME PoolAssumption, PoolInv, Close
  PROVE  PoolInv'
<1> DEFINE v == [pool EXCEPT !.status = "closed"]
<1>1. /\ ~crashed /\ pool.status = "completed" /\ pool.compared /\ Persist(v)
      /\ UNCHANGED <<receipt, crashed, session, dirty, request, asked>>
  BY DEF Close, Undisturbed, Running
<1>2. /\ session \in SessionOf(Child) /\ asked \in BOOLEAN
      /\ request \in {"absent", "pending", "consumed"}
      /\ Core(Child, pool, session, FALSE)
  BY RunningFacts
<1>3. /\ Sound(Child, pool, session, dirty) /\ Judged(Child, pool)
      /\ Over(Child, pool) /\ ~pool.controlFailed
  BY <1>1 DEF PoolInv, StatusOK
<1>4. Quiet(Child, session)
  BY <1>2, <1>3, OverQuiet
<1>5. "closed" \in Status
  BY DEF Status
<1>6. /\ Sound(Child, v, session, dirty) /\ Judged(Child, v) /\ v.status = "closed"
      /\ SameTurns(pool, v)
  BY <1>3, <1>5, StatusSet
<1> HIDE DEF v
<1>7. StatusOK(Child, v)
  BY <1>1, <1>3, <1>6 DEF StatusOK, Over, SameTurns
<1>8. Ready(Child, v, session', dirty)
  BY <1>1, <1>4, <1>6, <1>7 DEF Ready
<1>9. v.setup = pool.setup /\ (request' = "consumed" \/ asked' => v.protected)
  BY <1>1, <1>6 DEF SameTurns, PoolInv
<1> QED BY <1>1, <1>2, <1>8, <1>9, PersistKeeps

\* A change of the leases keeps the end.
LEMMA LeaseEnded ==
  ASSUME NEW u, NEW x, NEW d, NEW l \in [Child -> HeldLease], Sound(Child, u, x, d),
         Over(Child, u),
         \A c \in Child : /\ u.lease[c] # "none" => l[c] # "none"
                          /\ l[c] = "released" => u.lease[c] = "released" \/ u.compared
  PROVE  EndKept(Child, u, [u EXCEPT !.lease = l], x, d)
<1> DEFINE v == [u EXCEPT !.lease = l]
<1>1. /\ Sound(Child, v, x, d) /\ v.status = u.status /\ SameTurns(u, v)
      /\ Judged(Child, u) => Judged(Child, v)
  BY LeaseSet
<1> HIDE DEF v
<1>2. EndKept(Child, u, v, x, d)
  BY <1>1 DEF EndKept, SameTurns, Over
<1> QED BY <1>2 DEF v

\* Faults of several children after the end.
LEMMA FaultsEnded ==
  ASSUME PoolAssumption, pool.setup \in Setups, NEW s, NEW x, NEW d, NEW a \in SUBSET Child,
         Sound(Child, s, x, d), Over(Child, s)
  PROVE  EndKept(Child, s, EnterFaults(s, TRUE, a), x, d)
<1> DEFINE u == EnterFaults(s, TRUE, a)
<1>1. 0 \notin Child /\ Core(Child, s, x, FALSE)
  BY Children DEF Sound
<1>2. /\ Core(Child, u, x, FALSE) /\ Calm(Child, s, u, 0)
      /\ Judged(Child, s) => Judged(Child, u)
      /\ u.clean <=> s.clean
  BY <1>1, EnterFaultsKeeps
<1> HIDE DEF u
<1>3. EndKept(Child, s, u, x, d)
  BY <1>1, <1>2, FaultEnded
<1> QED BY <1>3 DEF u

\* The registry fails for children of the pool only.
LEMMA FailingChildren ==
  ASSUME NEW S \in SUBSET Child, NEW failing \in LeaseFailures(S)
  PROVE  failing \in SUBSET Child
BY DEF LeaseFailures

\* _mark_lease_release_pending for every child, after the end.
LEMMA ParkEnded ==
  ASSUME PoolAssumption, pool.setup \in Setups, NEW s, NEW x, NEW d,
         NEW failing \in SUBSET Child, Sound(Child, s, x, d), Over(Child, s)
  PROVE  EndKept(Child, s, ParkLeases(s, failing), x, d)
<1> DEFINE l == [c \in Child |-> IF c \in Unparked(s) \ failing
                                 THEN "release-pending" ELSE s.lease[c]]
           u == [s EXCEPT !.lease = l]
           v == EnterFaults(u, TRUE, failing)
<1>1. s.lease \in [Child -> HeldLease]
  BY MemoryFields DEF Sound, Core
<1>2. /\ l \in [Child -> HeldLease]
      /\ \A c \in Child : /\ s.lease[c] # "none" => l[c] # "none"
                          /\ l[c] = "released" => s.lease[c] = "released"
  BY <1>1 DEF HeldLease
<1>3. ParkLeases(s, failing) = v
  BY DEF ParkLeases
<1> HIDE DEF l, v
<1>4. EndKept(Child, s, u, x, d)
  BY <1>2, LeaseEnded
<1> HIDE DEF u
<1>5. EndKept(Child, u, v, x, d)
  BY <1>4, FaultsEnded DEF EndKept, v
<1> QED BY <1>3, <1>4, <1>5, EndedCompose

\* _release_next.
LEMMA ReleaseNextKeeps ==
  ASSUME PoolAssumption, PoolInv, NEW failing, ReleaseNext(failing)
  PROVE  PoolInv'
<1> DEFINE left == Unreleased(pool) \ failing
           s1 == EnterFaults(pool, TRUE, failing)
           l == [c \in Child |-> IF c \in left /\ \A d \in left : c <= d
                                 THEN "released" ELSE s1.lease[c]]
           s2 == [s1 EXCEPT !.lease = l]
<1>1. /\ Undisturbed /\ pool.status = "completed" /\ pool.compared
      /\ failing \in LeaseFailures(Unreleased(pool)) /\ Persist(Ending(s2))
      /\ UNCHANGED <<receipt, crashed, session, dirty, request, asked>>
  BY DEF ReleaseNext, Ending
<1>2. /\ Sound(Child, pool, session, dirty) /\ Judged(Child, pool) /\ Over(Child, pool)
      /\ pool.setup \in Setups
  BY <1>1, RunningFacts DEF PoolInv, StatusOK, Undisturbed, Running
<1>3. failing \in SUBSET Child
  BY <1>1, FailingChildren DEF Unreleased
<1>4. EndKept(Child, pool, s1, session, dirty)
  BY <1>2, <1>3, FaultsEnded
<1>5. s1.compared
  <2>1. Calm(Child, pool, s1, 0)
    BY <1>2, <1>3, EnterFaultsKeeps DEF Sound
  <2> QED BY <1>1, <2>1 DEF Calm
<1> HIDE DEF s1
<1>6. s1.lease \in [Child -> HeldLease]
  BY <1>4, MemoryFields DEF EndKept, Sound, Core
<1>7. /\ l \in [Child -> HeldLease]
      /\ \A c \in Child : s1.lease[c] # "none" => l[c] # "none"
  BY <1>6 DEF HeldLease
<1> HIDE DEF l
<1>8. EndKept(Child, s1, s2, session, dirty)
  BY <1>4, <1>5, <1>7, LeaseEnded DEF EndKept
<1> HIDE DEF s2
<1>9. EndKept(Child, pool, s2, session, dirty)
  BY <1>4, <1>8, EndedCompose
<1> QED BY <1>1, <1>2, <1>9, EndingStep DEF EndKept

-----------------------------------------------------------------------------
(* The receipt and the abnormal ends. *)

\* A step that leaves the coordinator's memory as it is.
LEMMA IdleStep ==
  ASSUME PoolInv, UNCHANGED <<pool, disk, crashed, session, asked>>,
         dirty' \in BOOLEAN, request' \in {"absent", "pending", "consumed"},
         request' = "consumed" => request = "consumed",
         Sound(Child, pool, session, dirty'),
         \/ receipt' = receipt
         \/ ~crashed /\ pool.status = "closed" /\ receipt' = BuildReceipt(pool)
  PROVE  PoolInv'
<1>1. /\ pool' = pool /\ disk' = disk /\ crashed' = crashed /\ session' = session
      /\ asked' = asked
  OBVIOUS
<1>2. /\ crashed' \/ Judged(Child, pool')
      /\ StatusOK(Child, pool') /\ Sound(Child, pool', session', dirty')
      /\ session' \in SessionOf(Child) /\ disk' \in Status
      /\ crashed' \in BOOLEAN /\ asked' \in BOOLEAN
      /\ disk' \in {"completed", "closed"} => Quiet(Child, session')
      /\ IF crashed' THEN pool'.status = "control-failed" ELSE disk' = pool'.status
  BY <1>1 DEF PoolInv, PoolTypeOK, SessionOf, DiskQuiescent, Quiet
<1>3. request' = "consumed" \/ asked' => pool'.protected
  BY <1>1 DEF PoolInv
<1>4. \/ receipt' = NoReceipt
      \/ /\ ~crashed' /\ pool'.status \in {"closed", "control-failed"}
         /\ receipt' = BuildReceipt(pool')
  BY <1>1 DEF PoolInv
<1> QED BY <1>1, <1>2, <1>3, <1>4, StepKeeps

\* The receipt of a closed pool.
LEMMA IssueReceiptKeeps ==
  ASSUME PoolInv, IssueReceipt
  PROVE  PoolInv'
BY IdleStep DEF IssueReceipt, PoolInv, PoolTypeOK

\* A worker writes: it is at work, so that no comparison has vouched for it.
LEMMA WorkerWritesKeeps ==
  ASSUME PoolInv, WorkerWrites
  PROVE  PoolInv'
<1>1. ~Quiet(Child, session)
  BY DEF WorkerWrites, Quiet
<1>2. Sound(Child, pool, session, dirty)
  BY DEF PoolInv
<1>3. ComparedOK(Child, pool, session, TRUE)
  BY <1>1, <1>2 DEF Sound, ComparedOK
<1>4. Sound(Child, pool, session, dirty')
  BY <1>2, <1>3 DEF Sound, WorkerWrites
<1> QED BY <1>4, IdleStep DEF WorkerWrites, PoolInv, PoolTypeOK

\* The operator writes the control file.
LEMMA WriteControlFileKeeps ==
  ASSUME PoolInv, WriteControlFile
  PROVE  PoolInv'
BY IdleStep DEF WriteControlFile, PoolInv, PoolTypeOK

\* Nothing happens.
LEMMA StutterKeeps ==
  ASSUME PoolInv, UNCHANGED vars
  PROVE  PoolInv'
BY IdleStep DEF vars, PoolInv, PoolTypeOK

\* _finish_control_failed.
LEMMA FinishControlFailedKeeps ==
  ASSUME PoolAssumption, PoolInv, NEW failing, NEW result, FinishControlFailed(failing, result)
  PROVE  PoolInv'
<1> DEFINE u == CompareOnFailure(pool, result)
           v == ParkLeases(u, failing)
<1>1. /\ ~crashed /\ pool.status = "control-failed" /\ receipt = NoReceipt
      /\ failing \in LeaseFailures(Unparked(pool)) /\ result \in Comparisons
      /\ pool' = v /\ disk' = v.status /\ receipt' = BuildReceipt(v)
      /\ UNCHANGED <<crashed, session, dirty, request, asked>>
  BY DEF FinishControlFailed, Persist
<1>2. /\ Sound(Child, pool, session, dirty) /\ Judged(Child, pool) /\ Over(Child, pool)
      /\ pool.controlFailed
      /\ request = "consumed" \/ asked => pool.protected
  BY <1>1 DEF PoolInv, StatusOK
<1>3. /\ 0 \notin Child /\ pool.setup \in Setups /\ session \in SessionOf(Child)
      /\ asked \in BOOLEAN /\ request \in {"absent", "pending", "consumed"}
  BY RunningFacts
<1>4. failing \in SUBSET Child
  BY <1>1, FailingChildren DEF Unparked
<1>5. EndKept(Child, pool, u, session, dirty)
  <2>1. CASE ~pool.deferred \/ pool.compared
    <3>1. u = pool
      BY <2>1 DEF CompareOnFailure
    <3> QED BY <1>2, <3>1 DEF EndKept
  <2>2. CASE pool.deferred /\ ~pool.compared
    <3>1. u = Compared(pool, result, TRUE)
      BY <2>2 DEF CompareOnFailure, Compared
    <3> HIDE DEF u
    <3> QED BY <1>1, <1>2, <1>3, <2>2, <3>1, ComparisonKeeps
  <2> QED BY <2>1, <2>2
<1> HIDE DEF u
<1>6. EndKept(Child, u, v, session, dirty)
  BY <1>3, <1>4, <1>5, ParkEnded DEF EndKept
<1> HIDE DEF v
<1>7. EndKept(Child, pool, v, session, dirty)
  BY <1>5, <1>6, EndedCompose
<1>8. /\ Sound(Child, v, session, dirty) /\ Judged(Child, v) /\ Over(Child, v)
      /\ v.status = "control-failed" /\ v.setup = pool.setup /\ v.controlFailed
      /\ request = "consumed" \/ asked => v.protected
  BY <1>1, <1>2, <1>7 DEF EndKept
<1>9. StatusOK(Child, v)
  BY <1>8 DEF StatusOK
<1>10. /\ crashed' = FALSE /\ dirty' \in BOOLEAN /\ disk' = "control-failed"
       /\ "control-failed" \in Status
  BY <1>1, <1>8 DEF PoolInv, PoolTypeOK, Status
<1> QED BY <1>1, <1>3, <1>8, <1>9, <1>10, StepKeeps

\* The memory with every turn written off, as _cleanup_on_crash does.
WrittenOff(s) ==
  [s EXCEPT !.status = "control-failed", !.protected = TRUE, !.controlFailed = TRUE,
            !.deadline = {},
            !.turn = [c \in Child |-> IF Terminal(@[c]) THEN @[c] ELSE RejectTurn(@[c])]]

\* A sound memory stays sound when every turn is written off.
LEMMA WrittenOffSound ==
  ASSUME NEW s, NEW x, NEW d, Sound(Child, s, x, d)
  PROVE  /\ Sound(Child, WrittenOff(s), x, d) /\ Over(Child, WrittenOff(s))
         /\ WrittenOff(s).status = "control-failed" /\ WrittenOff(s).setup = s.setup
         /\ WrittenOff(s).protected /\ WrittenOff(s).controlFailed
<1> DEFINE t == [c \in Child |-> IF Terminal(s.turn[c]) THEN s.turn[c] ELSE RejectTurn(s.turn[c])]
           u == WrittenOff(s)
<1>1. s \in MemoryOf(Child) /\ s.turn \in [Child -> Turn] /\ Core(Child, s, x, FALSE)
  BY MemoryFields DEF Sound, Core
<1>2. ASSUME NEW c \in Child
      PROVE  /\ t[c] \in Turn /\ TurnOK(t[c]) /\ Terminal(t[c]) /\ Started(t[c]) /\ ~Waiting(t[c])
             /\ SessionOK(t[c], x[c], TRUE)
             /\ s.runtime[c] = "completed" => t[c].final = "completed"
  <2>1. /\ s.turn[c] \in Turn /\ TurnOK(s.turn[c])
        /\ SessionOK(s.turn[c], x[c], s.controlFailed \/ FALSE)
        /\ s.runtime[c] = "completed" => s.turn[c].final = "completed"
    BY <1>1 DEF Core
  <2>2. CASE Terminal(s.turn[c])
    <3>1. t[c] = s.turn[c]
      BY <2>2
    <3> QED BY <2>1, <2>2, <3>1 DEF SessionOK, Terminal, Started, Waiting, WaitPhases
  <2>3. CASE ~Terminal(s.turn[c])
    <3>1. t[c] = RejectTurn(s.turn[c])
      BY <2>3
    <3> HIDE DEF t
    <3>2. t[c] = [phase |-> "terminal", errors |-> TRUE, final |-> "control-failed"]
      BY <2>1, <3>1, RejectedTurn
    <3>3. t[c].phase = "terminal" /\ t[c].errors /\ t[c].final = "control-failed"
      BY <3>2
    <3>4. "terminal" \in TurnPhase /\ "control-failed" \in TerminalState \cup {"none"}
      BY DEF TurnPhase, TerminalState
    <3>5. t[c] \in Turn
      BY <3>2, <3>4 DEF Turn
    <3>6. s.runtime[c] # "completed"
      BY <2>1, <2>3 DEF TurnOK
    <3> QED BY <3>3, <3>5, <3>6 DEF TurnOK, SessionOK, Terminal, Started, Waiting, WaitPhases
  <2> QED BY <2>2, <2>3
<1>3. t \in [Child -> Turn]
  BY <1>2
<1> HIDE DEF t
<1>4. u = [s EXCEPT !.status = "control-failed", !.protected = TRUE, !.controlFailed = TRUE,
                    !.deadline = {}, !.turn = t]
  BY <1>1 DEF WrittenOff, MemoryOf, t
<1>5. u \in MemoryOf(Child)
  BY <1>1, <1>3, <1>4 DEF MemoryOf, Status
<1>6. /\ u.status = "control-failed" /\ u.setup = s.setup /\ u.turn = t /\ u.deadline = {}
      /\ u.runtime = s.runtime /\ u.lease = s.lease /\ u.admitted = s.admitted
      /\ u.compared <=> s.compared
      /\ u.protected
      /\ u.controlFailed
  BY <1>1, <1>4 DEF MemoryOf
<1> HIDE DEF u
<1>7. Over(Child, u)
  BY <1>2, <1>6 DEF Over
<1>8. Protected(Child, u)
  BY <1>2, <1>6 DEF Protected, Terminal
<1>9. \A c \in Child : SessionOK(u.turn[c], x[c], u.controlFailed \/ FALSE)
  BY <1>2, <1>6
<1>10. Core(Child, u, x, FALSE)
  BY <1>2, <1>5, <1>6, <1>8, <1>9 DEF Core
<1>11. \A c \in Child : Served(u, c)
  BY <1>2, <1>6 DEF Served
<1>12. InOrder(u)
  BY <1>6 DEF InOrder, Sound
<1>13. LeaseOK(Child, u, x)
  BY <1>2, <1>6 DEF LeaseOK, Sound, Terminal
<1>14. ComparedOK(Child, u, x, d)
  BY <1>6, <1>7 DEF ComparedOK
<1> QED BY <1>6, <1>7, <1>10, <1>11, <1>12, <1>13, <1>14 DEF Sound, u

\* The whole of _cleanup_on_crash.
LEMMA CleanupKeeps ==
  ASSUME PoolAssumption, PoolInv, NEW failing \in SUBSET Child, NEW u,
         u = CleanupOnCrash(pool, failing)
  PROVE  /\ Sound(Child, u, session, dirty) /\ StatusOK(Child, u)
         /\ u.status = "control-failed" /\ u.setup = pool.setup /\ u.protected
<1> DEFINE s1 == WrittenOff(pool)
           s2 == ParkLeases(s1, failing)
           s3 == EnterFaults(s2, TRUE, Unreleased(s2))
<1>1. Sound(Child, pool, session, dirty) /\ pool.setup \in Setups
  BY RunningFacts DEF PoolInv
<1>2. u = s3
  BY DEF CleanupOnCrash, WrittenOff
<1>3. /\ Sound(Child, s1, session, dirty) /\ Over(Child, s1)
      /\ s1.status = "control-failed" /\ s1.setup = pool.setup
      /\ s1.protected /\ s1.controlFailed
  BY <1>1, WrittenOffSound
<1> HIDE DEF s1
<1>4. EndKept(Child, s1, s2, session, dirty)
  BY <1>1, <1>3, ParkEnded
<1> HIDE DEF s2
<1>5. Unreleased(s2) \in SUBSET Child
  BY DEF Unreleased
<1>6. EndKept(Child, s2, s3, session, dirty)
  BY <1>1, <1>4, <1>5, FaultsEnded DEF EndKept
<1> HIDE DEF s3
<1>7. EndKept(Child, s1, s3, session, dirty)
  BY <1>4, <1>6, EndedCompose
<1>8. /\ Sound(Child, u, session, dirty) /\ Over(Child, u) /\ u.status = "control-failed"
      /\ u.setup = pool.setup /\ u.protected /\ u.controlFailed
  BY <1>2, <1>3, <1>7 DEF EndKept
<1> QED BY <1>8 DEF StatusOK

\* A step that ends in _cleanup_on_crash.
LEMMA CrashStep ==
  ASSUME PoolAssumption, PoolInv, NEW failing \in SUBSET Child,
         pool' = CleanupOnCrash(pool, failing), disk' \in {disk, "control-failed"},
         crashed' = TRUE, receipt = NoReceipt,
         UNCHANGED <<receipt, session, dirty, request, asked>>
  PROVE  PoolInv'
<1>1. /\ Sound(Child, pool', session, dirty) /\ StatusOK(Child, pool')
      /\ pool'.status = "control-failed" /\ pool'.setup = pool.setup /\ pool'.protected
  BY CleanupKeeps
<1>2. /\ session \in SessionOf(Child) /\ dirty \in BOOLEAN /\ asked \in BOOLEAN
      /\ request \in {"absent", "pending", "consumed"} /\ disk' \in Status
      /\ disk' \in {"completed", "closed"} => Quiet(Child, session)
  BY DEF PoolInv, PoolTypeOK, SessionOf, DiskQuiescent, Quiet, Status
<1> QED BY <1>1, <1>2, StepKeeps

\* A step raises.
LEMMA CrashKeeps ==
  ASSUME PoolAssumption, PoolInv, NEW failing, Crash(failing)
  PROVE  PoolInv'
<1>1. failing \in SUBSET Child
  BY FailingChildren DEF Crash, Unparked
<1> QED BY <1>1, CrashStep DEF Crash

\* The receipt of a closed pool is refused.
LEMMA ReceiptRefusedKeeps ==
  ASSUME PoolAssumption, PoolInv, ReceiptRefused
  PROVE  PoolInv'
<1>1. {} \in SUBSET Child
  OBVIOUS
<1>2. /\ pool' = CleanupOnCrash(pool, {}) /\ disk' = pool'.status
      /\ crashed' = TRUE /\ receipt = NoReceipt
      /\ UNCHANGED <<receipt, session, dirty, request, asked>>
  BY DEF ReceiptRefused, Persist
<1>3. pool'.status = "control-failed"
  BY <1>1, <1>2, CleanupKeeps
<1> QED BY <1>1, <1>2, <1>3, CrashStep

-----------------------------------------------------------------------------
(* The theorems. *)

\* The constructor leaves a memory that satisfies the invariant.
LEMMA InitPool == ASSUME PoolAssumption, Init PROVE PoolInv
<1>1. PICK k \in Setups :
        /\ dirty \in IF "mutation" \in k.faults THEN BOOLEAN ELSE {FALSE}
        /\ pool = [setup |-> k, status |-> "created",
                   turn |-> [c \in 1..k.children |-> FreshTurn], deadline |-> {},
                   lease |-> [c \in 1..k.children |-> IF k.admitted THEN "acquired" ELSE "none"],
                   runtime |-> [c \in 1..k.children |-> "active"],
                   verdict |-> [c \in 1..k.children |-> "rejected"],
                   admitted |-> <<>>, protected |-> FALSE, controlFailed |-> FALSE,
                   classified |-> {}, contained |-> {}, clean |-> ~dirty, deferred |-> FALSE,
                   revoked |-> FALSE, compared |-> FALSE]
        /\ receipt = NoReceipt /\ disk = "created" /\ crashed = FALSE
        /\ session = [c \in 1..k.children |-> "idle"]
        /\ request = "absent" /\ asked = FALSE
  BY DEF Init
<1> DEFINE t == [c \in 1..k.children |-> FreshTurn]
           l == [c \in 1..k.children |-> IF k.admitted THEN "acquired" ELSE "none"]
           r == [c \in 1..k.children |-> "active"]
           v == [c \in 1..k.children |-> "rejected"]
<1>2. /\ pool.setup = k /\ pool.status = "created" /\ pool.turn = t /\ pool.deadline = {}
      /\ pool.lease = l /\ pool.runtime = r /\ pool.verdict = v /\ pool.admitted = <<>>
      /\ pool.protected = FALSE /\ pool.controlFailed = FALSE /\ pool.classified = {}
      /\ pool.contained = {} /\ pool.compared = FALSE
  BY <1>1
<1>3. Child = 1..k.children
  BY <1>2 DEF Child, N
<1>4. FreshTurn \in Turn /\ FreshTurn.phase = "start" /\ FreshTurn.final = "none"
      /\ FreshTurn.errors = FALSE
  BY DEF FreshTurn, Turn, TurnPhase, DispatchPhases, TerminalState
<1>5. dirty \in BOOLEAN
  BY <1>1
<1>6. /\ t \in [Child -> Turn] /\ l \in [Child -> HeldLease] /\ r \in [Child -> Runtime]
      /\ v \in [Child -> Verdict] /\ <<>> \in Seq(Child) /\ "created" \in Status
  BY <1>3, <1>4 DEF HeldLease, Runtime, Verdict, Status
<1>7. \A c \in Child : /\ t[c] = FreshTurn /\ r[c] = "active" /\ l[c] # "released"
                       /\ session[c] = "idle"
  BY <1>1, <1>3
<1>8. pool \in MemoryOf(Child)
  <2> HIDE DEF t, l, r, v
  <2>1. pool = [setup |-> k, status |-> "created", turn |-> t, deadline |-> {}, lease |-> l,
                runtime |-> r, verdict |-> v, admitted |-> <<>>, protected |-> FALSE,
                controlFailed |-> FALSE, classified |-> {}, contained |-> {},
                clean |-> ~dirty, deferred |-> FALSE, revoked |-> FALSE, compared |-> FALSE]
    BY <1>1 DEF t, l, r, v
  <2>2. (~dirty) \in BOOLEAN /\ {} \subseteq Child
    BY <1>5
  <2> QED BY <1>6, <2>1, <2>2 DEF MemoryOf
<1> HIDE DEF t, l, r, v
<1>9. PoolTypeOK
  <2>1. pool \in PoolMemory
    BY <1>8 DEF MemoryOf, PoolMemory
  <2>2. session \in [Child -> {"idle", "working", "closed"}]
    BY <1>1, <1>3
  <2> QED BY <1>1, <1>5, <1>6, <2>1, <2>2 DEF PoolTypeOK
<1>10. Protected(Child, pool)
  BY <1>2 DEF Protected
<1>11. ASSUME NEW c \in Child
       PROVE  /\ TurnOK(pool.turn[c])
              /\ SessionOK(pool.turn[c], session[c], pool.controlFailed \/ FALSE)
              /\ pool.runtime[c] = "completed" => pool.turn[c].final = "completed"
              /\ c \in pool.deadline => ~Terminal(pool.turn[c]) /\ Started(pool.turn[c])
              /\ Served(pool, c)
  BY <1>2, <1>4, <1>7 DEF TurnOK, SessionOK, Served, Terminal, Started, Waiting, WaitPhases,
     EarlyPhases, DispatchPhases
<1>12. Core(Child, pool, session, FALSE)
  BY <1>8, <1>10, <1>11 DEF Core
<1>13. InOrder(pool)
  BY <1>2 DEF InOrder
<1>14. LeaseOK(Child, pool, session) /\ ComparedOK(Child, pool, session, dirty)
  BY <1>2, <1>4, <1>7 DEF LeaseOK, ComparedOK
<1>15. Sound(Child, pool, session, dirty)
  BY <1>11, <1>12, <1>13, <1>14 DEF Sound
<1>16. Judged(Child, pool) /\ StatusOK(Child, pool)
  BY <1>2 DEF Judged, StatusOK
<1> QED BY <1>1, <1>2, <1>9, <1>15, <1>16 DEF PoolInv, DiskQuiescent

\* Every step keeps the invariant.
LEMMA StepPool == ASSUME PoolAssumption, PoolInv, [Next]_vars PROVE PoolInv'
<1>1. CASE Coordinator
  <2>1. ASSUME NEW c \in Child, Invoke(c) PROVE PoolInv'
    BY <2>1, InvokeChildKeeps DEF Invoke
  <2>2. ASSUME NEW result, CompareTerminal(result) PROVE PoolInv'
    BY <2>2, CompareTerminalKeeps
  <2>3. ASSUME NEW failing, ReleaseNext(failing) PROVE PoolInv'
    BY <2>3, ReleaseNextKeeps
  <2>4. ASSUME NEW failing, NEW result, FinishControlFailed(failing, result) PROVE PoolInv'
    BY <2>4, FinishControlFailedKeeps
  <2> QED BY <1>1, <2>1, <2>2, <2>3, <2>4, FaultActions, BeginKeeps, AcquireKeeps, SettleKeeps,
          CloseKeeps, IssueReceiptKeeps, ReceiptRefusedKeeps DEF Coordinator
<1>2. CASE WatermarkFault \/ CapabilityFault
  BY <1>2, FaultActions
<1>3. ASSUME NEW c \in Child, RejectChild(c) PROVE PoolInv'
  BY <1>3, RejectChildKeeps
<1>4. CASE RequestInterrupt
  BY <1>4, RequestInterruptKeeps
<1>5. ASSUME NEW failing, Crash(failing) PROVE PoolInv'
  BY <1>5, CrashKeeps
<1>6. CASE WorkerWrites \/ WriteControlFile
  BY <1>6, WorkerWritesKeeps, WriteControlFileKeeps
<1>7. CASE UNCHANGED vars
  BY <1>7, StutterKeeps
<1> QED BY <1>1, <1>2, <1>3, <1>4, <1>5, <1>6, <1>7 DEF Next

\* The memory of the coordinator, the state file, the sessions and the receipt
\* agree, in every pool: what each part of PoolInv says holds throughout.
THEOREM PoolInvariant == Spec => []PoolInv
<1>1. Init => PoolInv
  BY InitPool, PoolAssumption
<1>2. PoolInv /\ [Next]_vars => PoolInv'
  BY StepPool, PoolAssumption
<1> QED BY <1>1, <1>2, PTL DEF Spec

\* The coordinator's memory and the world around it keep their types.
THEOREM PoolTypes == Spec => []PoolTypeOK
<1>1. PoolInv => PoolTypeOK
  BY DEF PoolInv
<1> QED BY <1>1, PoolInvariant, PTL

\* The state file says "completed" or "closed" only while no worker of the pool
\* runs, so that cleanup_stale may release leases on its word.
THEOREM DiskIsQuiescent == Spec => []DiskQuiescent
<1>1. PoolInv => DiskQuiescent
  BY DEF PoolInv
<1> QED BY <1>1, PoolInvariant, PTL

\* A waiting child always has a deadline, and a terminal one has none.
THEOREM NobodyIsStranded == Spec => []NoStrandedChild
<1>1. PoolInv => NoStrandedChild
  BY DEF PoolInv, Sound, Core, Served, NoStrandedChild
<1> QED BY <1>1, PoolInvariant, PTL

\* Children are admitted in contract order, each under its lease, and a lease is
\* released only after every turn has ended and the workspaces were compared.
THEOREM LeasesAreKept == Spec => []LeaseDiscipline
<1>1. PoolInv => LeaseDiscipline
  <2> SUFFICES ASSUME PoolInv PROVE LeaseDiscipline
    OBVIOUS
  <2>1. Sound(Child, pool, session, dirty)
    BY DEF PoolInv
  <2>2. \A i \in 1..Len(pool.admitted) : pool.admitted[i] = i
    BY <2>1 DEF Sound, InOrder
  <2>3. \A c \in Child : session[c] # "idle" => pool.lease[c] # "none"
    BY <2>1 DEF Sound, LeaseOK
  <2>4. \A c \in Child : pool.lease[c] = "released" => pool.compared /\ AllTerminal(pool)
    BY <2>1 DEF Sound, LeaseOK, ComparedOK, Over, AllTerminal
  <2> QED BY <2>2, <2>3, <2>4 DEF LeaseDiscipline
<1> QED BY <1>1, PoolInvariant, PTL

\* The pool of a receipt that vouches for a child was closed without a fault of
\* the pool, and its workspaces are as they were found.
LEMMA VouchedPool ==
  ASSUME PoolInv, receipt # NoReceipt, ~pool.protected
  PROVE  /\ receipt = BuildReceipt(pool) /\ ~crashed /\ pool.compared
         /\ ~dirty
         /\ \A c \in Child : pool.turn[c].final = "completed" =>
                               session[c] = "closed" /\ ~pool.turn[c].errors
         /\ pool.classified \subseteq pool.contained
<1>1. /\ Sound(Child, pool, session, dirty) /\ StatusOK(Child, pool) /\ ~crashed
      /\ receipt = BuildReceipt(pool) /\ pool.status \in {"closed", "control-failed"}
  BY DEF PoolInv
<1>2. Protected(Child, pool) /\ Core(Child, pool, session, FALSE)
  BY <1>1 DEF Sound, Core
<1>3. ~pool.controlFailed /\ pool.status = "closed"
  BY <1>1, <1>2 DEF Protected, StatusOK
<1>4. pool.compared /\ ~dirty
  BY <1>1, <1>3 DEF StatusOK, Sound, ComparedOK
<1>5. \A c \in Child : pool.turn[c].final = "completed" =>
                         session[c] = "closed" /\ ~pool.turn[c].errors
  BY <1>2 DEF Core, TurnOK, SessionOK
<1> QED BY <1>1, <1>2, <1>4, <1>5 DEF Protected

\* _build_receipt accepts a pool only when every child's turn completed without
\* a failed callback and its session is closed, nothing was written outside its
\* authority, and no interrupt was requested before.
THEOREM AcceptanceIsEarned == Spec => []AcceptanceEarned
<1>1. PoolInv => AcceptanceEarned
  <2> SUFFICES ASSUME PoolInv, receipt.accepting PROVE AcceptanceEarned
    BY DEF AcceptanceEarned
  <2>1. receipt # NoReceipt
    BY DEF NoReceipt
  <2>2. Accepting(pool)
    BY <2>1 DEF PoolInv, BuildReceipt
  <2>3. ~pool.protected /\ \A c \in Child : pool.runtime[c] = "completed"
    BY <2>2 DEF Accepting
  <2>4. /\ pool.compared /\ ~dirty
        /\ \A c \in Child : pool.turn[c].final = "completed" =>
                              session[c] = "closed" /\ ~pool.turn[c].errors
    BY <2>1, <2>3, VouchedPool
  <2>5. \A c \in Child : pool.turn[c].final = "completed"
    BY <2>3 DEF PoolInv, Sound, Core
  <2>6. request # "consumed" /\ ~asked
    BY <2>3 DEF PoolInv
  <2> QED BY <2>4, <2>5, <2>6 DEF AcceptanceEarned
<1> QED BY <1>1, PoolInvariant, PTL

\* implementation_bead_close_authorized is said only of a child that ended
\* cleanly, has no session left, was never faulted, and shares its receipt with
\* no workspace violation.
THEOREM AuthorizationIsEarned == Spec => []AuthorizationEarned
<1>1. PoolInv => AuthorizationEarned
  <2> SUFFICES ASSUME PoolInv, NEW c \in receipt.authorized
               PROVE  /\ session[c] = "closed" /\ pool.turn[c].final = "completed"
                      /\ c \notin pool.classified /\ ~dirty
    BY DEF AuthorizationEarned
  <2>1. receipt # NoReceipt
    BY DEF NoReceipt
  <2>2. receipt = BuildReceipt(pool) /\ Judged(Child, pool)
    BY <2>1 DEF PoolInv
  <2>3. /\ c \in Child /\ pool.verdict[c] = "accepted" /\ pool.turn[c].final = "completed"
    BY <2>2 DEF BuildReceipt, Authorized
  <2>4. ~pool.protected /\ c \notin pool.contained
    BY <2>2, <2>3 DEF Judged
  <2> QED BY <2>1, <2>3, <2>4, VouchedPool
<1> QED BY <1>1, PoolInvariant, PTL

\* After a pool-wide fault a child has no submission left to make.
LEMMA NoSubmission ==
  ASSUME PoolInv, pool.protected, NEW c \in Child, NEW reply, InvokeChild(c, reply)
  PROVE  \A d \in Child : session'[d] = "working" => session[d] = "working"
<1> DEFINE t == Resumed(pool.turn[c])
<1>1. /\ t = IF Waiting(pool.turn[c]) THEN ResumeTurn(pool.turn[c]) ELSE pool.turn[c]
      /\ c \in Selectable(pool)
  BY SMTT(30) DEF Resumed, InvokeChild
<1> HIDE DEF t
<1>2. session' \in SessionsAfter(c, Callback(t.phase), reply)
  BY <1>1 DEF InvokeChild
<1>3. /\ pool.turn \in [Child -> Turn] /\ session \in SessionOf(Child)
      /\ pool.turn[c].phase \in StoppingPhases \cup {"terminal"} /\ TurnOK(pool.turn[c])
  BY MemoryFields DEF PoolInv, PoolTypeOK, SessionOf, Sound, Core, Protected
<1>4. ~Terminal(pool.turn[c])
  BY <1>1, SelectableRuns DEF PoolInv, Sound
<1>5. t.phase \in StoppingPhases
  BY <1>3, <1>4, ResumedTurn DEF Terminal, t
<1>6. Callback(t.phase) # "send_input"
  BY <1>5 DEF Callback, StoppingPhases, InterruptPhases
<1> QED BY <1>2, <1>3, <1>6, SessionsReached, SMTT(30) DEF Reached

\* Once the pool has entered a pool-wide fault, no step of anyone submits work to
\* a child: the fault turns every child that has not submitted away from it.
THEOREM NothingSubmittedAfterFault == Spec => NoSubmissionAfterFault
<1> DEFINE Quietly == pool.protected =>
                        \A c \in Child : session'[c] = "working" => session[c] = "working"
<1>1. PoolInv /\ [Next]_vars => [Quietly]_vars
  <2> SUFFICES ASSUME PoolInv, Next, pool.protected
               PROVE  \A c \in Child : session'[c] = "working" => session[c] = "working"
    OBVIOUS
  <2>1. CASE session' = session
    BY <2>1
  <2>2. CASE \E c \in Child : Invoke(c)
    BY <2>2, NoSubmission, SMTT(30) DEF Invoke
  <2>3. session' = session \/ \E c \in Child : Invoke(c)
    BY DEF Next, Coordinator, ConsumeControlRequest, Begin, AcquireLeases, Settle,
       CompareTerminal, ReleaseNext, Close, IssueReceipt, ReceiptRefused, FinishControlFailed,
       WatermarkFault, CapabilityFault, RejectChild, RequestInterrupt, Crash, WorkerWrites,
       WriteControlFile
  <2> QED BY <2>1, <2>2, <2>3
<1> QED BY <1>1, PoolInvariant, PTL DEF Spec, NoSubmissionAfterFault
=============================================================================
