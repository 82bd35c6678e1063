------------------------ MODULE PoolScheduler_proofs ------------------------
(***************************************************************************)
(* What holds of the scheduler for any number of children, any latencies   *)
(* the admission formula lets through and any tolerance: its types, that   *)
(* it never has two candidates, that a deadline that is due is never       *)
(* passed over, and that the guard keeps its promise.                      *)
(*                                                                         *)
(* The last two rest on one fact about the order of the deadlines:         *)
(* it is total on the children (the rotation breaks every tie), so that    *)
(* every nonempty set of them has a first (FirstExists).  It is proved by  *)
(* taking the least k such that the children 1..k of the set have none.    *)
(*                                                                         *)
(* That no poll is late (PollsInTime) does not follow from the admission   *)
(* formula: it fails in a pool of three.                                   *)
(***************************************************************************)
EXTENDS PoolScheduler, FiniteSetTheorems, WellFoundedInduction, TLAPS

(* Turns. *)

\* The phases from which a step of this model begins.
StepPhases == {"start", "arm", "send-input", "mark-dispatched", "check", "finalize-complete",
               "close-complete", "interrupt", "finalize-interrupt", "close-interrupt",
               "finalize-close"}

\* A turn of this model: no callback has failed.
Unfailed(t) ==
  /\ t \in Turn /\ ~t.errors /\ t.final # "control-failed"
  /\ t.phase # "finalize-control-failed"

\* The inductive invariant.
SchedulerInv == SchedulerTypeOK /\ \A c \in Child : Unfailed(turn[c])

\* The turn that Serve steps: a waiting one is resumed first.
Resumed(t) == IF Waiting(t) THEN ResumeTurn(t) ELSE t

\* The phases of a turn, listed.
LEMMA PhaseList ==
  TurnPhase = StepPhases \cup {"waiting", "waiting-close-complete", "waiting-close-interrupt",
                               "finalize-control-failed", "terminal"}
BY DEF TurnPhase, DispatchPhases, CompletePhases, InterruptPhases, StepPhases

\* Resuming leads to a phase with a callback.
LEMMA ResumedTurn ==
  ASSUME NEW t, Unfailed(t), ~Terminal(t), NEW u, u = Resumed(t)
  PROVE  Unfailed(u) /\ u.phase \in StepPhases /\ Callback(u.phase) \in Callbacks
<1>1. /\ t \in [phase : TurnPhase, errors : BOOLEAN, final : TerminalState \cup {"none"}]
      /\ ~t.errors /\ t.final # "control-failed"
      /\ t.phase # "finalize-control-failed" /\ t.phase # "terminal"
  BY DEF Unfailed, Turn, Terminal
<1>2. u.phase \in StepPhases /\ u.errors = t.errors /\ u.final = t.final /\ u \in Turn
  <2>1. CASE ~Waiting(t)
    BY <1>1, <2>1, PhaseList DEF Resumed, Waiting, WaitPhases, Turn
  <2>2. CASE Waiting(t)
    <3>1. u = ResumeTurn(t)
      BY <2>2 DEF Resumed
    <3> QED BY <1>1, <3>1, PhaseList DEF ResumeTurn, Turn, StepPhases
  <2> QED BY <2>1, <2>2
<1>3. Callback(u.phase) \in Callbacks
  BY <1>2 DEF StepPhases, Callback, Callbacks
<1> QED BY <1>1, <1>2, <1>3 DEF Unfailed, StepPhases

\* An answered callback leads to a turn without a failure.
LEMMA AnsweredTurn ==
  ASSUME NEW t, Unfailed(t), t.phase \in StepPhases,
         NEW reply \in Replies(t.phase) \ {"fails"}, NEW u, u = StepTurn(t, reply)
  PROVE  Unfailed(u)
<1>1. /\ t \in [phase : TurnPhase, errors : BOOLEAN, final : TerminalState \cup {"none"}]
      /\ ~t.errors /\ t.final # "control-failed"
  BY DEF Unfailed, Turn
<1> DEFINE n == Successor(t.phase, reply)
<1>2. n \in TurnPhase /\ n # "finalize-control-failed"
  BY PhaseList DEF Successor, StepPhases
<1>3. n = "terminal" => FinalState(t.phase) \in {"completed", "closed"}
  BY DEF Successor, StepPhases, FinalState, Replies
<1>4. CASE n = "terminal"
  <2>1. u = [t EXCEPT !.phase = "terminal", !.final = FinalState(t.phase)]
    BY <1>4 DEF StepTurn, Finish
  <2> HIDE DEF n
  <2> QED BY <1>1, <1>2, <1>3, <1>4, <2>1 DEF Unfailed, Turn, TerminalState
<1>5. CASE n # "terminal"
  <2>1. u = [t EXCEPT !.phase = n]
    BY <1>5 DEF StepTurn
  <2> HIDE DEF n
  <2> QED BY <1>1, <1>2, <2>1 DEF Unfailed, Turn
<1> QED BY <1>4, <1>5

-----------------------------------------------------------------------------
(* The order of the deadlines. *)

\* The children and their clocks are numbers.
LEMMA Clocks ==
  ASSUME SchedulerAssumption, SchedulerInv
  PROVE  /\ N \in Nat \ {0} /\ Child = 1..N /\ cursor \in 0..(N - 1)
         /\ since \in [Child -> Nat]
         /\ Timed \subseteq Child /\ Proposed \subseteq Child
BY DEF SchedulerAssumption, SchedulerInv, SchedulerTypeOK, Child, Timed, Proposed

\* The rotation tells any two children apart.
LEMMA RotationInjective ==
  ASSUME SchedulerAssumption, SchedulerInv, NEW c \in Child, NEW d \in Child
  PROVE  /\ Rotation(c) \in Nat
         /\ c # d => Rotation(c) # Rotation(d)
<1>1. N \in Nat \ {0} /\ Child = 1..N /\ cursor \in 0..(N - 1)
  BY Clocks
<1>2. c \in 1..N /\ d \in 1..N
  BY <1>1
<1>3. (c - 1 - cursor) % N \in Nat
  BY <1>1, <1>2
<1>4. c # d => (c - 1 - cursor) % N # (d - 1 - cursor) % N
  BY <1>1, <1>2
<1> QED BY <1>3, <1>4 DEF Rotation

\* The order is total, transitive and never goes both ways.
LEMMA BeforeIsOrder ==
  ASSUME SchedulerAssumption, SchedulerInv, NEW a \in Child, NEW b \in Child, NEW c \in Child
  PROVE  /\ a # b => Before(a, b) \/ Before(b, a)
         /\ ~(Before(a, b) /\ Before(b, a))
         /\ Before(a, b) /\ Before(b, c) => Before(a, c)
<1>1. /\ Rotation(a) \in Nat /\ Rotation(b) \in Nat /\ Rotation(c) \in Nat
      /\ a # b => Rotation(a) # Rotation(b)
  BY RotationInjective
<1>2. since[a] \in Nat /\ since[b] \in Nat /\ since[c] \in Nat
  BY Clocks
<1> QED BY <1>1, <1>2 DEF Before

\* Every nonempty set of children has a first.
LEMMA FirstExists ==
  ASSUME SchedulerAssumption, SchedulerInv, NEW S \in SUBSET Child, S # {}
  PROVE  First(S) # {}
<1>1. N \in Nat \ {0} /\ Child = 1..N
  BY Clocks
<1> DEFINE Part(k) == S \cap (1..k)
           T == {k \in Nat : Part(k) # {} /\ First(Part(k)) = {}}
<1>2. Part(N) = S
  BY <1>1
<1> SUFFICES ASSUME First(S) = {} PROVE FALSE
  OBVIOUS
<1>3. T \subseteq Nat /\ N \in T
  BY <1>1, <1>2
<1>4. IsWellFoundedOn(OpToRel(<, Nat), Nat)
  BY NatLessThanWellFounded
<1>5. PICK m \in T : \A k \in T : ~(<<k, m>> \in OpToRel(<, Nat))
  <2> HIDE DEF T
  <2> QED BY <1>3, <1>4, WFMin
<1>6. m \in Nat /\ \A k \in T : ~(k < m)
  <2> HIDE DEF T
  <2> QED BY <1>3, <1>5 DEF OpToRel
<1>7. Part(m) # {} /\ First(Part(m)) = {}
  BY <1>5
<1>8. m # 0
  <2>1. Part(0) = {}
    OBVIOUS
  <2> QED BY <1>7, <2>1
<1>9. m - 1 \in Nat /\ m - 1 < m /\ m - 1 \notin T
  BY <1>6, <1>8
<1>10. Part(m - 1) = {} \/ First(Part(m - 1)) # {}
  BY <1>9
<1>11. Part(m) = Part(m - 1) \/ (m \in S /\ Part(m) = Part(m - 1) \cup {m} /\ m \notin Part(m - 1))
  <2>1. 1..m = (1..(m - 1)) \cup {m} /\ m \notin 1..(m - 1)
    BY <1>6, <1>8
  <2> QED BY <2>1
<1>12. m \in S /\ Part(m) = Part(m - 1) \cup {m} /\ m \notin Part(m - 1)
  BY <1>7, <1>10, <1>11
<1>13. Part(m - 1) \subseteq Child /\ m \in Child
  BY <1>12
<1> HIDE DEF Part, T
<1>14. CASE Part(m - 1) = {}
  <2>1. m \in First(Part(m))
    BY <1>12, <1>14 DEF First
  <2> QED BY <1>7, <2>1
<1>15. CASE First(Part(m - 1)) # {}
  <2>1. PICK b \in Part(m - 1) : \A d \in Part(m - 1) \ {b} : Before(b, d)
    BY <1>15 DEF First
  <2>2. b \in Child /\ b # m
    BY <1>12, <1>13, <2>1
  <2>3. CASE Before(b, m)
    <3>1. b \in First(Part(m))
      BY <1>12, <2>1, <2>3 DEF First
    <3> QED BY <1>7, <3>1
  <2>4. CASE Before(m, b)
    <3>1. ASSUME NEW d \in Part(m - 1) PROVE Before(m, d)
      <4>1. d \in Child /\ (d = b \/ Before(b, d))
        BY <1>13, <2>1
      <4> QED BY <1>13, <2>2, <2>4, <4>1, BeforeIsOrder
    <3>2. m \in First(Part(m))
      BY <1>12, <3>1 DEF First
    <3> QED BY <1>7, <3>2
  <2> QED BY <1>13, <2>2, <2>3, <2>4, BeforeIsOrder
<1> QED BY <1>10, <1>14, <1>15

\* A set of children has no two firsts.
LEMMA FirstUnique ==
  ASSUME SchedulerAssumption, SchedulerInv, NEW S \in SUBSET Child,
         NEW c \in First(S), NEW d \in First(S)
  PROVE  c = d
<1>1. c \in Child /\ d \in Child /\ c \in S /\ d \in S
  BY DEF First
<1>2. c # d => Before(c, d) /\ Before(d, c)
  BY <1>1 DEF First
<1> QED BY <1>1, <1>2, BeforeIsOrder

-----------------------------------------------------------------------------
(* The steps. *)

\* The child of a step has not ended.
LEMMA ServedRuns ==
  ASSUME SchedulerInv, NEW c \in Preferred \cup Proposed
  PROVE  c \in Child /\ ~Terminal(turn[c])
<1>1. Preferred \subseteq Timed
  BY DEF Preferred, First
<1>2. ASSUME c \in Timed PROVE c \in Child /\ ~Terminal(turn[c])
  BY <1>2 DEF Timed, DeadlinePhases, InterruptPhases, Terminal
<1> QED BY <1>1, <1>2 DEF Proposed

\* A duration is one.
LEMMA DurationType ==
  ASSUME NEW max \in Nat, NEW d \in Durations(max)
  PROVE  d \in Nat /\ d <= max
BY DEF Durations

\* What a step of child c does, with the callback and the turn it led to.
ServedWith(c, b, u, d, o) ==
  /\ b \in Callbacks /\ Unfailed(u)
  /\ d \in Nat /\ d <= Certified[b] /\ o \in Nat /\ o <= Overhead
  /\ turn' = [turn EXCEPT ![c] = u]
  /\ since' \in [Child -> Nat]
  /\ \A e \in Child \ {c} :
       since'[e] = IF turn[e].phase \in DeadlinePhases \cup SubmittedUnpolled
                   THEN since[e] + d + o ELSE 0
  /\ since'[c] = IF \/ b \in {"send_input", "check"}
                    \/ u.phase \in {"waiting-close-complete", "waiting-close-interrupt"}
                 THEN o
                 ELSE IF u.phase \in DeadlinePhases \cup SubmittedUnpolled
                 THEN since[c] + d + o ELSE 0
  /\ late' \in {late, late \cup {"first"}, late \cup {"later"}}
  /\ b # "check" \/ since[c] + d <= Interval + Tolerance => late' = late

\* One callback of child c.
LEMMA ServeShape ==
  ASSUME SchedulerAssumption, SchedulerInv, NEW c \in Preferred \cup Proposed, Serve(c)
  PROVE  \E reply \in Replies(Resumed(turn[c]).phase) \ {"fails"}, d \in Nat, o \in Nat :
           ServedWith(c, Callback(Resumed(turn[c]).phase), StepTurn(Resumed(turn[c]), reply), d, o)
<1> DEFINE t == Resumed(turn[c])
           b == Callback(t.phase)
<1>1. c \in Child /\ ~Terminal(turn[c])
  BY ServedRuns
<1>2. Unfailed(turn[c]) /\ turn \in [Child -> Turn] /\ since \in [Child -> Nat]
  BY <1>1 DEF SchedulerInv, SchedulerTypeOK
<1>3. Unfailed(t) /\ t.phase \in StepPhases /\ b \in Callbacks
  BY <1>1, <1>2, ResumedTurn
<1>4. Certified[b] \in Nat /\ Overhead \in Nat
  BY <1>3 DEF SchedulerAssumption
<1>5. t = IF Waiting(turn[c]) THEN ResumeTurn(turn[c]) ELSE turn[c]
  BY DEF Resumed
<1>6. PICK reply \in Replies(t.phase) \ {"fails"},
           d \in Durations(Certified[b]), o \in Durations(Overhead) :
        LET next == [turn EXCEPT ![c] = StepTurn(t, reply)]
            restarts == \/ b \in {"send_input", "check"}
                        \/ next[c].phase \in {"waiting-close-complete", "waiting-close-interrupt"}
        IN /\ turn' = next
           /\ since' = [Elapsed(next, d + o) EXCEPT ![c] = IF restarts THEN o ELSE @]
           /\ late' = IF b = "check" /\ since[c] + d > Interval + Tolerance
                      THEN late \cup {IF turn[c].phase = "check" THEN "first" ELSE "later"}
                      ELSE late
  BY <1>5 DEF Serve
<1> DEFINE u == StepTurn(t, reply)
           next == [turn EXCEPT ![c] = u]
           el == Elapsed(next, d + o)
           restarts == \/ b \in {"send_input", "check"}
                       \/ next[c].phase \in {"waiting-close-complete", "waiting-close-interrupt"}
<1>7. d \in Nat /\ d <= Certified[b] /\ o \in Nat /\ o <= Overhead
  BY <1>4, <1>6, DurationType
<1>8. Unfailed(u)
  BY <1>3, <1>6, AnsweredTurn
<1>9. /\ turn' = next /\ since' = [el EXCEPT ![c] = IF restarts THEN o ELSE el[c]]
      /\ late' \in {late, late \cup {"first"}, late \cup {"later"}}
  BY <1>6
<1>14. b # "check" \/ since[c] + d <= Interval + Tolerance => late' = late
  <2>1. since[c] \in Nat /\ Interval \in Nat /\ Tolerance \in Nat
    BY <1>1, <1>2 DEF SchedulerAssumption
  <2> QED BY <1>6, <1>7, <2>1
<1> HIDE DEF u, t, b
<1>10. el \in [Child -> Nat]
  BY <1>2, <1>7 DEF Elapsed
<1>11. \A e \in Child \ {c} :
         el[e] = IF turn[e].phase \in DeadlinePhases \cup SubmittedUnpolled
                 THEN since[e] + d + o ELSE 0
  BY <1>2, <1>7 DEF Elapsed
<1>15. /\ next[c] = u
       /\ el[c] = IF u.phase \in DeadlinePhases \cup SubmittedUnpolled
                  THEN since[c] + d + o ELSE 0
  BY <1>1, <1>2, <1>7 DEF Elapsed
<1>16. restarts <=> \/ b \in {"send_input", "check"}
                    \/ u.phase \in {"waiting-close-complete", "waiting-close-interrupt"}
  BY <1>15
<1> HIDE DEF el, restarts
<1>12. /\ since' \in [Child -> Nat] /\ \A e \in Child \ {c} : since'[e] = el[e]
       /\ since'[c] = IF restarts THEN o ELSE el[c]
  BY <1>1, <1>7, <1>9, <1>10
<1>13. ServedWith(c, b, u, d, o)
  BY <1>3, <1>7, <1>8, <1>9, <1>11, <1>12, <1>14, <1>15, <1>16 DEF ServedWith
<1> USE DEF t, b, u
<1> QED BY <1>6, <1>7, <1>13

\* Serving a child keeps the invariant, when the cursor stays in its range.
LEMMA ServeKeeps ==
  ASSUME SchedulerAssumption, SchedulerInv, NEW c \in Preferred \cup Proposed, Serve(c),
         cursor' \in 0..(N - 1)
  PROVE  SchedulerInv'
<1>1. c \in Child
  BY ServedRuns
<1>2. PICK u, d, o : ServedWith(c, Callback(Resumed(turn[c]).phase), u, d, o)
  BY ServeShape, Zenon
<1>3. /\ turn' = [turn EXCEPT ![c] = u] /\ Unfailed(u) /\ since' \in [Child -> Nat]
      /\ late' \in {late, late \cup {"first"}, late \cup {"later"}}
  BY <1>2 DEF ServedWith
<1>4. turn \in [Child -> Turn] /\ \A e \in Child : Unfailed(turn[e])
  BY DEF SchedulerInv, SchedulerTypeOK
<1>5. turn' \in [Child -> Turn] /\ \A e \in Child : Unfailed(turn'[e])
  BY <1>1, <1>3, <1>4 DEF Unfailed
<1>6. late' \subseteq {"first", "later"}
  BY <1>3 DEF SchedulerInv, SchedulerTypeOK
<1>7. \A e \in Child : ~turn'[e].errors /\ turn'[e].final # "control-failed"
  BY <1>5 DEF Unfailed
<1> QED BY <1>3, <1>5, <1>6, <1>7 DEF SchedulerInv, SchedulerTypeOK

\* run sleeps until the earliest deadline.
LEMMA SleepShape ==
  ASSUME SchedulerAssumption, SchedulerInv, Sleep
  PROVE  /\ since' \in [Child -> Nat] /\ UNCHANGED <<turn, cursor, late>>
         /\ \E c \in First(Timed), o \in Nat :
              /\ o <= Overhead /\ since[c] < Interval
              /\ \A e \in Child : turn[e].phase \in DeadlinePhases \cup SubmittedUnpolled =>
                                    since'[e] = since[e] + (Interval - since[c]) + o
<1>1. /\ since \in [Child -> Nat] /\ Interval \in Nat /\ Overhead \in Nat
      /\ Timed \subseteq Child /\ Due = {}
  BY Clocks DEF SchedulerAssumption, Sleep
<1>2. PICK c \in First(Timed), o \in Durations(Overhead) :
        since' = Elapsed(turn, Interval - since[c] + o)
  BY DEF Sleep
<1>3. o \in Nat /\ o <= Overhead
  BY <1>1, <1>2, DurationType
<1>4. c \in Timed /\ c \in Child /\ since[c] < Interval
  BY <1>1, <1>2 DEF First, Due
<1>5. since' \in [Child -> Nat]
  BY <1>1, <1>2, <1>3, <1>4 DEF Elapsed
<1>6. ASSUME NEW e \in Child, turn[e].phase \in DeadlinePhases \cup SubmittedUnpolled
      PROVE  since'[e] = since[e] + (Interval - since[c]) + o
  BY <1>1, <1>2, <1>3, <1>4, <1>6 DEF Elapsed
<1> QED BY <1>2, <1>3, <1>4, <1>5, <1>6 DEF Sleep

\* The invariant holds at first.
LEMMA InitScheduler == ASSUME SchedulerAssumption, Init PROVE SchedulerInv
<1>1. Unfailed(FreshTurn)
  BY DEF Unfailed, FreshTurn, Turn, TurnPhase, DispatchPhases, TerminalState
<1>2. \A c \in Child : turn[c] = FreshTurn
  BY DEF Init
<1>3. turn \in [Child -> Turn] /\ since \in [Child -> Nat]
  BY <1>1 DEF Init, Unfailed
<1>4. cursor \in 0..(N - 1) /\ late \subseteq {"first", "later"}
  BY DEF Init, SchedulerAssumption
<1> QED BY <1>1, <1>2, <1>3, <1>4 DEF SchedulerInv, SchedulerTypeOK, Unfailed

\* Every step keeps it.
LEMMA StepScheduler == ASSUME SchedulerAssumption, SchedulerInv, [Next]_vars PROVE SchedulerInv'
<1>1. CASE ServeDeadline
  <2>1. PICK c \in Preferred : Serve(c) /\ cursor' = c % N
    BY <1>1 DEF ServeDeadline
  <2>2. c \in 1..N /\ N \in Nat \ {0}
    BY ServedRuns, Clocks
  <2>3. cursor' \in 0..(N - 1)
    BY <2>1, <2>2
  <2> QED BY <2>1, <2>3, ServeKeeps
<1>2. CASE ServeProposed
  <2>1. PICK c \in Proposed : Serve(c) /\ cursor' = cursor
    BY <1>2 DEF ServeProposed
  <2> QED BY <2>1, ServeKeeps, Clocks
<1>3. CASE Sleep
  BY <1>3, SleepShape DEF SchedulerInv, SchedulerTypeOK
<1>4. CASE UNCHANGED vars
  BY <1>4 DEF vars, SchedulerInv, SchedulerTypeOK
<1> QED BY <1>1, <1>2, <1>3, <1>4 DEF Next

\* No callback fails in this model, and its clocks and cursor keep their types.
THEOREM SchedulerInvariant == Spec => []SchedulerInv
<1>1. Init => SchedulerInv
  BY InitScheduler, SchedulerAssumption
<1>2. SchedulerInv /\ [Next]_vars => SchedulerInv'
  BY StepScheduler, SchedulerAssumption
<1> QED BY <1>1, <1>2, PTL DEF Spec

\* The turns, the clocks and the cursor keep their types; the cursor wraps.
THEOREM SchedulerTypes == Spec => []SchedulerTypeOK
<1>1. SchedulerInv => SchedulerTypeOK
  BY DEF SchedulerInv
<1> QED BY <1>1, SchedulerInvariant, PTL

-----------------------------------------------------------------------------
(* The selection. *)

\* _next_lifecycle_child never has two candidates, and when a deadline is due it
\* picks the child whose deadline has passed for longest.
DueFirst ==
  /\ \A c, d \in Preferred : c = d
  /\ \A c, d \in Proposed : c = d
  /\ Due # {} => \E c \in Preferred : c \in Due /\ \A d \in Timed : since[d] <= since[c]

\* At most one child is proposed.
LEMMA ProposedUnique ==
  ASSUME SchedulerAssumption, NEW c \in Proposed, NEW d \in Proposed
  PROVE  c = d
BY DEF SchedulerAssumption, Proposed, Child

\* The selection is deterministic, and passes over no due deadline.
THEOREM DeadlinesComeFirst == Spec => []DueFirst
<1>1. SchedulerInv => DueFirst
  <2> SUFFICES ASSUME SchedulerInv PROVE DueFirst
    OBVIOUS
  <2>1. /\ Timed \in SUBSET Child /\ \A p \in Child : Timed \ {p} \in SUBSET Child
        /\ since \in [Child -> Nat] /\ Interval \in Nat /\ Proposed \subseteq Child
    BY Clocks, SchedulerAssumption DEF SchedulerAssumption
  <2>2. \A c, d \in Proposed : c = d
    BY ProposedUnique, SchedulerAssumption
  <2>3. ASSUME NEW c \in Preferred, NEW d \in Preferred PROVE c = d
    <3>1. CASE Due # {}
      <4>1. c \in First(Timed) /\ d \in First(Timed)
        BY <3>1 DEF Preferred
      <4> QED BY <2>1, <4>1, FirstUnique, SchedulerAssumption
    <3>2. CASE Due = {}
      <4>1. PICK p \in Proposed, q \in Proposed : c \in First(Timed \ {p}) /\ d \in First(Timed \ {q})
        BY <3>2 DEF Preferred
      <4>2. p = q
        BY <2>2
      <4> QED BY <2>1, <4>1, <4>2, FirstUnique, SchedulerAssumption
    <3> QED BY <3>1, <3>2
  <2>4. ASSUME Due # {}
        PROVE  \E c \in Preferred : c \in Due /\ \A d \in Timed : since[d] <= since[c]
    <3>1. Timed # {}
      BY <2>4 DEF Due
    <3>2. PICK c \in First(Timed) : TRUE
      BY <2>1, <3>1, FirstExists, SchedulerAssumption
    <3>3. c \in Timed /\ \A d \in Timed : since[d] <= since[c]
      <4>1. c \in Timed /\ \A d \in Timed \ {c} : Before(c, d)
        BY <3>2 DEF First
      <4>2. ASSUME NEW d \in Timed PROVE since[d] <= since[c]
        BY <2>1, <4>1 DEF Before
      <4> QED BY <4>1, <4>2
    <3>4. PICK d \in Timed : since[d] >= Interval
      BY <2>4 DEF Due
    <3>5. c \in Due
      BY <2>1, <3>3, <3>4 DEF Due
    <3>6. c \in Preferred
      BY <2>4, <3>2 DEF Preferred
    <3> QED BY <3>3, <3>5, <3>6
  <2> QED BY <2>2, <2>3, <2>4 DEF DueFirst
<1> QED BY <1>1, SchedulerInvariant, PTL

\* The position of a child among others is a positive number.
LEMMA RankType ==
  ASSUME SchedulerAssumption, SchedulerInv, NEW S \in SUBSET Child, NEW c
  PROVE  Rank(S, c) \in Nat
<1> DEFINE R == {d \in S \ {c} : Before(d, c)}
<1>1. Child = 1..N /\ N \in Int
  BY Clocks
<1>2. IsFiniteSet(Child)
  BY <1>1, FS_Interval
<1>3. R \in SUBSET Child
  OBVIOUS
<1> HIDE DEF R
<1>4. Cardinality(R) \in Nat
  BY <1>2, <1>3, FS_Subset, FS_CardinalityType
<1> QED BY <1>4 DEF Rank, R

\* peer_deadline_guard: a callback that is served for no deadline leaves every
\* peer time for its check, and for those of the peers before it.
LEMMA GuardHolds ==
  ASSUME SchedulerAssumption, SchedulerInv, ServeProposed, NEW p \in Proposed,
         NEW c \in Timed \ {p}
  PROVE  since'[c] + Rank(Timed \ {p}, c) * Certified["check"] < Interval
<1>1. /\ Timed \in SUBSET Child /\ Timed \ {p} \in SUBSET Child /\ p \in Child /\ c \in Child
      /\ since \in [Child -> Nat]
  BY Clocks
<1>2. PICK q \in Proposed : Preferred = {} /\ Serve(q)
  BY DEF ServeProposed
<1>3. Serve(p) /\ Preferred = {}
  BY <1>2, ProposedUnique
<1>4. Due = {}
  <2>1. Timed # {}
    OBVIOUS
  <2>2. First(Timed) # {}
    BY <1>1, <2>1, FirstExists
  <2> QED BY <1>3, <2>2 DEF Preferred
<1>5. Endangered(p) = {}
  <2> SUFFICES ASSUME Endangered(p) # {} PROVE FALSE
    OBVIOUS
  <2>1. Timed \ {p} # {}
    OBVIOUS
  <2>2. First(Timed \ {p}) # {}
    BY <1>1, <2>1, FirstExists
  <2>3. First(Timed \ {p}) \subseteq Preferred
    BY <1>4 DEF Preferred
  <2> QED BY <1>3, <2>2, <2>3
<1>6. ~Waiting(turn[p]) /\ Resumed(turn[p]) = turn[p]
  BY DEF Proposed, Resumed
<1> DEFINE b == Callback(turn[p].phase)
           r == Rank(Timed \ {p}, c)
<1>7. PICK u, d, o : ServedWith(p, b, u, d, o)
  <2>1. PICK reply, d, o : ServedWith(p, b, StepTurn(Resumed(turn[p]), reply), d, o)
    BY <1>3, <1>6, ServeShape
  <2> QED BY <2>1
<1>8. /\ b \in Callbacks /\ d \in Nat /\ d <= Certified[b] /\ o \in Nat /\ o <= Overhead
      /\ since'[c] = since[c] + d + o
  BY <1>1, <1>7 DEF ServedWith, Timed
<1>9. ~(Interval - since[c] <= Certified[b] + Overhead + r * Certified["check"])
  BY <1>5 DEF Endangered
<1>10. r \in Nat
  BY <1>1, RankType
<1>11. /\ Certified[b] \in Nat /\ Certified["check"] \in Nat /\ Overhead \in Nat /\ Interval \in Nat
       /\ since[c] \in Nat
  BY <1>1, <1>8 DEF SchedulerAssumption, Callbacks
<1> HIDE DEF b, r
<1>12. r * Certified["check"] \in Nat
  BY <1>10, <1>11
<1>13. since'[c] + r * Certified["check"] < Interval
  BY <1>8, <1>9, <1>11, <1>12
<1> QED BY <1>13 DEF r

\* The guard keeps its promise in every pool: after a callback that was served
\* for no deadline every peer can still be checked before its own.
THEOREM GuardKeepsPeersInTime == Spec => PeersStayInTime
<1> DEFINE Kept == ServeProposed =>
                     \A p \in Proposed : \A c \in Timed \ {p} :
                       since'[c] + Rank(Timed \ {p}, c) * Certified["check"] < Interval
<1>1. SchedulerInv /\ [Next]_vars => [Kept]_vars
  BY GuardHolds, SchedulerAssumption
<1> QED BY <1>1, SchedulerInvariant, PTL DEF Spec, PeersStayInTime
=============================================================================
