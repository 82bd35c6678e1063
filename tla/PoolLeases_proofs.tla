-------------------------- MODULE PoolLeases_proofs --------------------------
(***************************************************************************)
(* Proofs about the lease registry, for every set of pools, leases,        *)
(* worktrees and target paths: the registry never holds two colliding      *)
(* active leases, workers never share what a lease protects, releases are  *)
(* backed by terminal evidence, and no lease regresses.                    *)
(***************************************************************************)
EXTENDS PoolLeases, TLAPS

-----------------------------------------------------------------------------
(* The inductive strengthening. *)

\* A coordinator that may dispatch still has its whole lease set active.
DispatchLeased ==
  \A l \in Lease : phase[PoolOf[l]] \in {"leased", "running"} =>
                     registry[l] \in ACTIVE_LEASE_STATES

\* A completed or closed state, once persisted, means the pool is past
\* dispatching and none of its sessions is left.
PublishedQuiescent ==
  \A st \in published : st.status \in {"completed", "closed"} =>
    /\ phase[st.pool] \in {"completed", "closed", "control-failed"}
    /\ \A l \in working : PoolOf[l] # st.pool

\* Sessions run only under active leases of running or control-failed pools.
WorkersLeased ==
  \A l \in working :
    /\ registry[l] \in ACTIVE_LEASE_STATES
    /\ phase[PoolOf[l]] \in {"running", "control-failed"}

LeaseInv ==
  /\ TypeOK
  /\ ActiveLeasesDisjoint
  /\ DispatchLeased
  /\ PublishedQuiescent
  /\ WorkersLeased

-----------------------------------------------------------------------------
(* Lemmas about the operators. *)

\* The collision test of acquire_many does not depend on the order in which
\* two leases are staged.
LEMMA CollidesSymmetric ==
  ASSUME NEW l, NEW m, Collides(l, m)
  PROVE  Collides(m, l)
BY DEF Collides, SameRoot, ReadOnlySiblings, PathsOverlap

\* Reclassifying dead owners' leases neither frees nor adds an active lease.
LEMMA ReclassifiedActive ==
  ASSUME TypeOK, NEW judged
  PROVE  /\ Reclassified(judged) \in [Lease -> LeaseState]
         /\ Active(Reclassified(judged)) = Active(registry)
         /\ \A l \in Lease : Reclassified(judged)[l] \in {"absent", "released"} =>
                               Reclassified(judged)[l] = registry[l]
         /\ \A l \in Lease : registry[l] \in {"absent", "released", "release-pending"} =>
                               Reclassified(judged)[l] = registry[l]
BY DEF TypeOK, Reclassified, Active, ACTIVE_LEASE_STATES, LeaseState,
       ORPHAN_RECLASSIFICATION_STATES

\* Granting an acquirable set to a registry of disjoint active leases keeps
\* them disjoint.
LEMMA GrantedDisjoint ==
  ASSUME ActiveLeasesDisjoint, TypeOK, NEW judged, NEW p,
         Acquirable(LeasesOf(p), Reclassified(judged))
  PROVE  LET g == Granted(LeasesOf(p), Reclassified(judged))
         IN  \A l, m \in Active(g) : l # m => ~Collides(l, m)
<1> DEFINE staged == Reclassified(judged)
           g == Granted(LeasesOf(p), staged)
<1>1. SUFFICES ASSUME NEW l \in Active(g), NEW m \in Active(g), l # m, Collides(l, m)
               PROVE  FALSE
  OBVIOUS
<1>2. l \in Lease /\ m \in Lease
  BY DEF Active
<1>3. \A k \in Active(g) : k \in LeasesOf(p) \/ k \in Active(staged)
  BY DEF Active, Granted
<1>4. CASE l \in LeasesOf(p)
  <2>1. m \in Active(staged) \cup (LeasesOf(p) \ {l})
    BY <1>1, <1>3
  <2>2. ~Collides(m, l)
    BY <2>1, <1>4 DEF Acquirable
  <2> QED BY <2>2, <1>1, CollidesSymmetric
<1>5. CASE m \in LeasesOf(p)
  <2>1. l \in Active(staged) \cup (LeasesOf(p) \ {m})
    BY <1>1, <1>3
  <2> QED BY <2>1, <1>5, <1>1 DEF Acquirable
<1>6. CASE l \in Active(staged) /\ m \in Active(staged)
  BY <1>6, <1>1, ReclassifiedActive DEF ActiveLeasesDisjoint
<1> QED BY <1>1, <1>3, <1>4, <1>5, <1>6

\* A transition of one lease never makes an inactive lease active.
LEMMA TransitionActive ==
  ASSUME TypeOK, NEW l \in Lease, NEW target \in {"held", "release-pending", "released"},
         NEW state \in PoolState \cup {NoState}, Transition(l, target, state)
  PROVE  /\ registry' \in [Lease -> LeaseState]
         /\ evidence' \in [Lease -> PoolState \cup {NoState}]
         /\ Active(registry') \subseteq Active(registry)
         /\ \A m \in Lease : m # l => registry'[m] = registry[m]
         /\ registry'[l] = target
         /\ registry[l] \in {"acquired", "held", "orphaned-active", "release-pending", "released"}
BY DEF TypeOK, Transition, CanTransition, LEASE_TRANSITIONS, LeaseState,
       ACTIVE_LEASE_STATES, IDEMPOTENT_LEASE_STATES, Active

\* What a stale cleanup does to one lease: nothing, or one legal move that is
\* "released" only on completed or closed evidence of the lease's own pool.
LEMMA CleanupEffect ==
  ASSUME LeaseAssumption, TypeOK, NEW judged \in Judgements, NEW supplied \in Supplied,
         CleanupStale(judged, supplied), NEW l \in Lease
  PROVE  \/ registry'[l] = registry[l] /\ evidence'[l] = evidence[l]
         \/ /\ registry[l] \in {"acquired", "held"}
            /\ registry'[l] = "orphaned-active" /\ evidence'[l] = NoState
         \/ /\ registry[l] \in ACTIVE_LEASE_STATES
            /\ registry'[l] = "release-pending" /\ registry[l] # "release-pending"
            /\ evidence'[l] = [pool |-> PoolOf[l], status |-> "control-failed"]
         \/ /\ registry[l] \in ACTIVE_LEASE_STATES
            /\ registry'[l] = "released"
            /\ evidence'[l] \in published
            /\ evidence'[l].pool = PoolOf[l] /\ evidence'[l].status \in {"completed", "closed"}
<1> DEFINE st == EvidenceFor(l, supplied)
           target == StaleTarget(st)
<1>1. PoolOf[l] \in Pool /\ PoolId[PoolOf[l]] \in {PoolId[p] : p \in Pool}
  BY DEF LeaseAssumption
<1>2. supplied[PoolId[PoolOf[l]]] \in published \cup {NoState}
  BY <1>1 DEF Supplied
<1>3. st = NoState \/ (st \in published /\ st.pool = PoolOf[l])
  BY <1>2 DEF EvidenceFor
<1>4. st \in published => st \in PoolState
  BY DEF TypeOK
<1>5. CASE l \notin StaleChanged(judged, supplied)
  BY <1>5 DEF CleanupStale
<1>6. CASE l \in StaleChanged(judged, supplied)
  <2>1. /\ registry[l] \in ACTIVE_LEASE_STATES
        /\ target = "orphaned-active" => registry[l] \in {"acquired", "held"}
        /\ registry[l] # target
    BY <1>6 DEF StaleChanged, TypeOK, LeaseState, ORPHAN_RECLASSIFICATION_STATES
  <2>2. /\ registry'[l] = target
        /\ evidence'[l] = IF target = "orphaned-active" THEN NoState ELSE st
    BY <1>6 DEF CleanupStale
  <2>3. CASE st = NoState
    BY <2>1, <2>2, <2>3 DEF StaleTarget, NoState
  <2>4. CASE st \in published /\ st.pool = PoolOf[l]
    BY <2>1, <2>2, <2>4, <1>4 DEF StaleTarget, PoolState, Status
  <2> QED BY <1>3, <2>3, <2>4
<1> QED BY <1>5, <1>6

-----------------------------------------------------------------------------
(* Invariance. *)

\* Each step of the registry or of a client preserves the strengthening.
LEMMA LeaseInvStep ==
  ASSUME LeaseAssumption, LeaseInv, [Next]_vars
  PROVE  LeaseInv'
<1> USE DEF LeaseInv
<1> DEFINE AcquireEffect(p, judged) ==
             /\ phase[p] = "new" /\ Acquirable(LeasesOf(p), Reclassified(judged))
             /\ registry' = Granted(LeasesOf(p), Reclassified(judged))
             /\ UNCHANGED <<evidence, live, working, published>>
<1>1. ASSUME NEW p \in Pool, NEW judged \in Judgements, AcquireEffect(p, judged),
             \/ phase' = [phase EXCEPT ![p] = "leased"] /\ owned' = owned \cup {p}
             \/ phase' = [phase EXCEPT ![p] = "refused"] /\ owned' = owned
      PROVE  LeaseInv'
  <2>1. \A l \in Active(registry) : l \in Active(registry')
    BY <1>1, ReclassifiedActive DEF Granted, Active, ACTIVE_LEASE_STATES
  <2>2. \A l \in LeasesOf(p) : registry'[l] = "acquired" /\ registry[l] = "absent"
    BY <1>1, ReclassifiedActive DEF Granted, LeasesOf, Acquirable
  <2>3. ActiveLeasesDisjoint'
    BY <1>1, GrantedDisjoint DEF ActiveLeasesDisjoint, Active
  <2>4. TypeOK'
    BY <1>1, ReclassifiedActive DEF TypeOK, Granted, LeaseState, ACTIVE_LEASE_STATES, Phase
  <2>5. DispatchLeased'
    BY <1>1, <2>1, <2>2 DEF DispatchLeased, TypeOK, Active, LeasesOf, ACTIVE_LEASE_STATES, LeaseAssumption
  <2>6. WorkersLeased'
    BY <1>1, <2>1, <2>2 DEF WorkersLeased, TypeOK, Active, LeaseAssumption
  <2>7. PublishedQuiescent'
    BY <1>1 DEF PublishedQuiescent, TypeOK, PoolState
  <2> QED BY <2>3, <2>4, <2>5, <2>6, <2>7
<1>2. ASSUME NEW p \in Pool, NEW judged \in Judgements, AcquireMany(p, judged)
      PROVE  LeaseInv'
  BY <1>1, <1>2 DEF AcquireMany
<1>3. ASSUME NEW p \in Pool, NEW judged \in Judgements, AcquireRollbackFailed(p, judged)
      PROVE  LeaseInv'
  BY <1>1, <1>3 DEF AcquireRollbackFailed
<1>4. ASSUME NEW p \in Pool, AcquireRefused(p) \/ CrashOwner(p) \/ ReleaseUncommittedFailed(p)
      PROVE  LeaseInv'
  BY <1>4 DEF AcquireRefused, CrashOwner, ReleaseUncommittedFailed, TypeOK, Phase, PoolState,
     ActiveLeasesDisjoint, Active, DispatchLeased, PublishedQuiescent, WorkersLeased, LeaseAssumption
<1>5. ASSUME NEW p \in Pool, Commit(p)
      PROVE  LeaseInv'
  BY <1>5 DEF Commit, TypeOK, Phase, PoolState,
     ActiveLeasesDisjoint, Active, DispatchLeased, PublishedQuiescent, WorkersLeased, LeaseAssumption
<1>6. ASSUME NEW p \in Pool, ReleaseUncommittedMany(p)
      PROVE  LeaseInv'
  <2>1. TypeOK'
    BY <1>6 DEF ReleaseUncommittedMany, TypeOK, LeaseState, Phase
  <2>2. Active(registry') \subseteq Active(registry)
    BY <1>6 DEF ReleaseUncommittedMany, Active, ACTIVE_LEASE_STATES
  <2>3. ActiveLeasesDisjoint'
    BY <2>2 DEF ActiveLeasesDisjoint, Active
  <2>4. DispatchLeased' /\ WorkersLeased' /\ PublishedQuiescent'
    BY <1>6 DEF ReleaseUncommittedMany, DispatchLeased, WorkersLeased, PublishedQuiescent, TypeOK,
       PoolState, LeaseAssumption
  <2> QED BY <2>1, <2>3, <2>4
<1>7. ASSUME NEW p \in Pool, Complete(p)
      PROVE  LeaseInv'
  <2>1. TypeOK'
    BY <1>7 DEF Complete, TypeOK, Phase, PoolState, Status
  <2>2. ActiveLeasesDisjoint' /\ DispatchLeased' /\ WorkersLeased'
    BY <1>7 DEF Complete, TypeOK, ActiveLeasesDisjoint, Active, DispatchLeased, WorkersLeased,
       LeasesOf, LeaseAssumption
  <2>3. PublishedQuiescent'
    BY <1>7 DEF Complete, TypeOK, PublishedQuiescent, PoolState, LeasesOf
  <2> QED BY <2>1, <2>2, <2>3
<1>8. ASSUME NEW p \in Pool, ControlFail(p)
      PROVE  LeaseInv'
  <2>1. TypeOK'
    BY <1>8 DEF ControlFail, TypeOK, Phase, PoolState, Status
  <2>2. ActiveLeasesDisjoint' /\ DispatchLeased' /\ WorkersLeased'
    BY <1>8 DEF ControlFail, TypeOK, ActiveLeasesDisjoint, Active, DispatchLeased, WorkersLeased,
       LeaseAssumption
  <2>3. PublishedQuiescent'
    BY <1>8 DEF ControlFail, TypeOK, PublishedQuiescent, PoolState
  <2> QED BY <2>1, <2>2, <2>3
<1>9. ASSUME NEW p \in Pool, Close(p)
      PROVE  LeaseInv'
  <2>1. TypeOK'
    BY <1>9 DEF Close, TypeOK, Phase, PoolState, Status
  <2>2. ActiveLeasesDisjoint' /\ DispatchLeased' /\ WorkersLeased'
    BY <1>9 DEF Close, TypeOK, ActiveLeasesDisjoint, Active, DispatchLeased, WorkersLeased,
       LeaseAssumption
  <2>3. \A l \in working : PoolOf[l] # p
    BY <1>9 DEF Close, WorkersLeased, TypeOK
  <2>4. PublishedQuiescent'
    BY <1>9, <2>3 DEF Close, TypeOK, PublishedQuiescent, PoolState
  <2> QED BY <2>1, <2>2, <2>4
<1>10. ASSUME NEW l \in Lease, Hold(l)
       PROVE  LeaseInv'
  <2>1. Transition(l, "held", NoState)
    BY <1>10 DEF Hold
  <2>2. TypeOK' /\ Active(registry') \subseteq Active(registry)
    BY <1>10, <2>1, TransitionActive DEF Hold, TypeOK
  <2>3. registry'[l] = "held" /\ \A m \in Lease : m # l => registry'[m] = registry[m]
    BY <2>1, TransitionActive
  <2>4. ActiveLeasesDisjoint'
    BY <2>2 DEF ActiveLeasesDisjoint, Active
  <2>5. DispatchLeased' /\ WorkersLeased' /\ PublishedQuiescent'
    BY <1>10, <2>3 DEF Hold, DispatchLeased, WorkersLeased, PublishedQuiescent, TypeOK, ACTIVE_LEASE_STATES
  <2> QED BY <2>2, <2>4, <2>5
<1>11. ASSUME NEW l \in Lease, MarkReleasePending(l)
       PROVE  LeaseInv'
  <2> DEFINE st == [pool |-> PoolOf[l], status |-> "control-failed"]
  <2>1. Transition(l, "release-pending", st) /\ st \in PoolState
    BY <1>11 DEF MarkReleasePending, PoolState, Status, LeaseAssumption
  <2>2. TypeOK' /\ Active(registry') \subseteq Active(registry)
    BY <1>11, <2>1, TransitionActive DEF MarkReleasePending, TypeOK
  <2>3. registry'[l] = "release-pending" /\ \A m \in Lease : m # l => registry'[m] = registry[m]
    BY <2>1, TransitionActive
  <2>4. ActiveLeasesDisjoint'
    BY <2>2 DEF ActiveLeasesDisjoint, Active
  <2>5. DispatchLeased' /\ WorkersLeased' /\ PublishedQuiescent'
    BY <1>11, <2>3 DEF MarkReleasePending, DispatchLeased, WorkersLeased, PublishedQuiescent, TypeOK,
       ACTIVE_LEASE_STATES
  <2> QED BY <2>2, <2>4, <2>5
<1>12. ASSUME NEW l \in Lease, Release(l)
       PROVE  LeaseInv'
  <2> DEFINE st == [pool |-> PoolOf[l], status |-> phase[PoolOf[l]]]
  <2>1. Transition(l, "released", st) /\ st \in PoolState
    BY <1>12 DEF Release, PoolState, Status, LeaseAssumption
  <2>2. TypeOK' /\ Active(registry') \subseteq Active(registry)
    BY <1>12, <2>1, TransitionActive DEF Release, TypeOK
  <2>3. \A m \in Lease : m # l => registry'[m] = registry[m]
    BY <2>1, TransitionActive
  <2>4. ActiveLeasesDisjoint'
    BY <2>2 DEF ActiveLeasesDisjoint, Active
  <2>5. l \notin working /\ phase[PoolOf[l]] \notin {"leased", "running"}
    BY <1>12 DEF Release, WorkersLeased
  <2>6. DispatchLeased' /\ WorkersLeased' /\ PublishedQuiescent'
    BY <1>12, <2>3, <2>5 DEF Release, DispatchLeased, WorkersLeased, PublishedQuiescent, TypeOK
  <2> QED BY <2>2, <2>4, <2>6
<1>13. ASSUME NEW l \in Lease, StartWorker(l)
       PROVE  LeaseInv'
  BY <1>13 DEF StartWorker, TypeOK, ActiveLeasesDisjoint, Active, DispatchLeased,
     PublishedQuiescent, WorkersLeased
<1>14. ASSUME NEW l \in Lease, StopWorker(l)
       PROVE  LeaseInv'
  BY <1>14 DEF StopWorker, TypeOK, ActiveLeasesDisjoint, Active, DispatchLeased,
     PublishedQuiescent, WorkersLeased
<1>15. ASSUME NEW judged \in Judgements, NEW supplied \in Supplied, CleanupStale(judged, supplied)
       PROVE  LeaseInv'
  <2>1. \A l \in Lease :
          /\ registry'[l] \in LeaseState
          /\ evidence'[l] \in PoolState \cup {NoState}
          /\ registry'[l] \in ACTIVE_LEASE_STATES => registry[l] \in ACTIVE_LEASE_STATES
          /\ registry[l] \in ACTIVE_LEASE_STATES =>
               \/ registry'[l] \in ACTIVE_LEASE_STATES
               \/ \E st \in published : st.pool = PoolOf[l] /\ st.status \in {"completed", "closed"}
    <3>1. SUFFICES ASSUME NEW l \in Lease
                   PROVE  /\ registry'[l] \in LeaseState
                          /\ evidence'[l] \in PoolState \cup {NoState}
                          /\ registry'[l] \in ACTIVE_LEASE_STATES => registry[l] \in ACTIVE_LEASE_STATES
                          /\ registry[l] \in ACTIVE_LEASE_STATES =>
                               \/ registry'[l] \in ACTIVE_LEASE_STATES
                               \/ \E st \in published : st.pool = PoolOf[l] /\ st.status \in {"completed", "closed"}
      OBVIOUS
    <3>2. [pool |-> PoolOf[l], status |-> "control-failed"] \in PoolState
      BY DEF PoolState, Status, LeaseAssumption
    <3> QED BY <1>15, <3>2, CleanupEffect DEF TypeOK, LeaseState, ACTIVE_LEASE_STATES
  <2>2. registry' \in [Lease -> LeaseState] /\ evidence' \in [Lease -> PoolState \cup {NoState}]
    BY <2>1, <1>15 DEF CleanupStale
  <2>3. TypeOK'
    BY <2>2, <1>15 DEF CleanupStale, TypeOK
  <2>4. ActiveLeasesDisjoint'
    BY <2>1 DEF ActiveLeasesDisjoint, Active
  <2>5. \A l \in Lease : l \in working \/ phase[PoolOf[l]] \in {"leased", "running"} =>
          (registry[l] \in ACTIVE_LEASE_STATES => registry'[l] \in ACTIVE_LEASE_STATES)
    BY <2>1 DEF PublishedQuiescent
  <2>6. DispatchLeased' /\ WorkersLeased' /\ PublishedQuiescent'
    BY <1>15, <2>5 DEF CleanupStale, DispatchLeased, WorkersLeased, PublishedQuiescent, TypeOK
  <2> QED BY <2>3, <2>4, <2>6
<1>16. ASSUME UNCHANGED vars
       PROVE  LeaseInv'
  BY <1>16 DEF vars, TypeOK, ActiveLeasesDisjoint, Active, DispatchLeased, PublishedQuiescent, WorkersLeased
<1> QED
  BY <1>2, <1>3, <1>4, <1>5, <1>6, <1>7, <1>8, <1>9, <1>10, <1>11, <1>12, <1>13, <1>14, <1>15, <1>16
  DEF Next

-----------------------------------------------------------------------------
(* The theorems. *)

\* The strengthening holds throughout every behaviour of the registry.
THEOREM LeaseInvariant == Spec => []LeaseInv
<1>1. Init => LeaseInv
  <2>1. SUFFICES ASSUME Init PROVE LeaseInv
    OBVIOUS
  <2>2. TypeOK
    BY <2>1 DEF Init, TypeOK, LeaseState, Phase
  <2>3. ActiveLeasesDisjoint
    BY <2>1 DEF Init, ActiveLeasesDisjoint, Active, ACTIVE_LEASE_STATES
  <2>4. DispatchLeased /\ PublishedQuiescent /\ WorkersLeased
    BY <2>1, LeaseAssumption
    DEF Init, DispatchLeased, PublishedQuiescent, WorkersLeased, LeaseAssumption
  <2> QED BY <2>2, <2>3, <2>4 DEF LeaseInv
<1>2. LeaseInv /\ [Next]_vars => LeaseInv'
  BY LeaseInvStep, LeaseAssumption
<1> QED BY <1>1, <1>2, PTL DEF Spec

\* The registry, the pool states and their clients always have their types.
THEOREM LeaseTypes == Spec => []TypeOK
<1>1. LeaseInv => TypeOK
  BY DEF LeaseInv
<1> QED BY <1>1, LeaseInvariant, PTL

\* acquire_many's exclusion: for any pools, leases and paths, no interleaving
\* of registry calls, crashes and failed writes leaves two colliding leases active.
THEOREM ActiveExclusion == Spec => []ActiveLeasesDisjoint
<1>1. LeaseInv => ActiveLeasesDisjoint
  BY DEF LeaseInv
<1> QED BY <1>1, LeaseInvariant, PTL

\* The lease protocol protects the workspace: two sessions that may write at
\* the same time never collide, whatever happened to their owners.
THEOREM WorkerExclusion == Spec => []WorkersDisjoint
<1>1. LeaseInv => WorkersDisjoint
  BY DEF LeaseInv, WorkersDisjoint, ActiveLeasesDisjoint, WorkersLeased, Active, TypeOK
<1> QED BY <1>1, LeaseInvariant, PTL

\* Evidence discipline: whatever moved a lease to released, the close loop or
\* a stale cleanup, recorded a completed or closed state of that lease's own
\* pool and epoch, and parked leases record a control failure of it.
THEOREM ReleaseEvidence == Spec => []EvidenceBound
<1> DEFINE I == LeaseInv /\ EvidenceBound
<1>1. Init => EvidenceBound
  BY DEF Init, EvidenceBound
<1>2. LeaseInv /\ EvidenceBound /\ [Next]_vars => EvidenceBound'
  <2> SUFFICES ASSUME LeaseInv, EvidenceBound, [Next]_vars PROVE EvidenceBound'
    OBVIOUS
  <2> USE LeaseAssumption
  <2>t. TypeOK
    BY DEF LeaseInv
  <2>1. ASSUME NEW p \in Pool, NEW judged \in Judgements,
               AcquireMany(p, judged) \/ AcquireRollbackFailed(p, judged)
        PROVE  EvidenceBound'
    <3>1. /\ registry' = Granted(LeasesOf(p), Reclassified(judged)) /\ evidence' = evidence
          /\ Acquirable(LeasesOf(p), Reclassified(judged))
      BY <2>1 DEF AcquireMany, AcquireRollbackFailed
    <3>2. \A l \in LeasesOf(p) : registry[l] = "absent"
      BY <3>1, <2>t, ReclassifiedActive DEF Acquirable, LeasesOf
    <3>3. \A l \in Lease : registry'[l] = registry[l]
              \/ (registry'[l] \in {"acquired", "orphaned-active"}
                  /\ registry[l] \in {"absent", "acquired", "held"})
      BY <3>1, <3>2 DEF Granted, Reclassified, ORPHAN_RECLASSIFICATION_STATES, LeasesOf
    <3> QED BY <3>1, <3>3 DEF EvidenceBound
  <2>2. ASSUME NEW p \in Pool, ReleaseUncommittedMany(p)
        PROVE  EvidenceBound'
    <3>1. \A l \in Lease : registry'[l] = registry[l]
              \/ (registry'[l] = "absent" /\ registry[l] = "acquired")
      BY <2>2 DEF ReleaseUncommittedMany, LeasesOf
    <3> QED BY <3>1, <2>2 DEF EvidenceBound, ReleaseUncommittedMany
  <2>3. ASSUME NEW l \in Lease, NEW target \in {"held", "release-pending", "released"},
               NEW st \in PoolState \cup {NoState}, Transition(l, target, st),
               target = "held" => st = NoState,
               target = "release-pending" => st = [pool |-> PoolOf[l], status |-> "control-failed"],
               target = "released" => st.pool = PoolOf[l] /\ st.status \in {"completed", "closed"}
        PROVE  EvidenceBound'
    <3>1. /\ registry'[l] = target
          /\ \A m \in Lease : m # l => registry'[m] = registry[m]
      BY <2>3, <2>t, TransitionActive
    <3>2. \A m \in Lease : m # l => evidence'[m] = evidence[m]
      BY <2>3, <2>t DEF Transition, TypeOK
    <3>3. evidence'[l] = IF registry[l] = target THEN evidence[l] ELSE st
      BY <2>3, <2>t DEF Transition, TypeOK
    <3> QED BY <2>3, <3>1, <3>2, <3>3 DEF EvidenceBound
  <2>4. ASSUME NEW l \in Lease, Hold(l) PROVE EvidenceBound'
    BY <2>4, <2>3 DEF Hold
  <2>5. ASSUME NEW l \in Lease, MarkReleasePending(l) PROVE EvidenceBound'
    <3>1. [pool |-> PoolOf[l], status |-> "control-failed"] \in PoolState
      BY DEF PoolState, Status, LeaseAssumption
    <3> QED BY <2>5, <2>3, <3>1 DEF MarkReleasePending
  <2>6. ASSUME NEW l \in Lease, Release(l) PROVE EvidenceBound'
    <3> DEFINE st == [pool |-> PoolOf[l], status |-> phase[PoolOf[l]]]
    <3>1. st \in PoolState /\ Transition(l, "released", st)
          /\ st.pool = PoolOf[l] /\ st.status \in {"completed", "closed"}
      BY <2>6 DEF Release, PoolState, Status, LeaseAssumption
    <3> QED BY <3>1, <2>3
  <2>7. ASSUME NEW judged \in Judgements, NEW supplied \in Supplied, CleanupStale(judged, supplied)
        PROVE  EvidenceBound'
    <3>1. SUFFICES ASSUME NEW l \in Lease
          PROVE /\ registry'[l] = "released" =>
                     evidence'[l].pool = PoolOf[l] /\ evidence'[l].status \in {"completed", "closed"}
                /\ registry'[l] = "release-pending" =>
                     evidence'[l].pool = PoolOf[l] /\ evidence'[l].status = "control-failed"
                /\ registry'[l] \in {"acquired", "held", "orphaned-active", "absent"} =>
                     evidence'[l] = NoState
      BY DEF EvidenceBound
    <3>2. CASE registry'[l] = registry[l] /\ evidence'[l] = evidence[l]
      BY <3>2 DEF EvidenceBound
    <3>3. CASE registry'[l] = "orphaned-active" /\ evidence'[l] = NoState
      BY <3>3
    <3>4. CASE registry'[l] = "release-pending"
               /\ evidence'[l] = [pool |-> PoolOf[l], status |-> "control-failed"]
      BY <3>4
    <3>5. CASE registry'[l] = "released" /\ evidence'[l].pool = PoolOf[l]
               /\ evidence'[l].status \in {"completed", "closed"}
      BY <3>5
    <3> QED BY <2>7, <2>t, CleanupEffect, <3>2, <3>3, <3>4, <3>5
  <2>8. ASSUME UNCHANGED <<registry, evidence>> PROVE EvidenceBound'
    BY <2>8 DEF EvidenceBound
  <2>9. ASSUME NEW p \in Pool,
               \/ AcquireRefused(p) \/ Commit(p) \/ ReleaseUncommittedFailed(p)
               \/ Complete(p) \/ ControlFail(p) \/ Close(p) \/ CrashOwner(p)
        PROVE  EvidenceBound'
    BY <2>9, <2>8 DEF AcquireRefused, Commit, ReleaseUncommittedFailed, Complete, ControlFail,
       Close, CrashOwner
  <2>10. ASSUME NEW l \in Lease, StartWorker(l) \/ StopWorker(l)
         PROVE  EvidenceBound'
    BY <2>10, <2>8 DEF StartWorker, StopWorker
  <2>11. ASSUME UNCHANGED vars PROVE EvidenceBound'
    BY <2>11, <2>8 DEF vars
  <2> QED BY <2>1, <2>2, <2>4, <2>5, <2>6, <2>7, <2>9, <2>10, <2>11 DEF Next
<1> QED BY <1>1, <1>2, LeaseInvariant, PTL DEF Spec

\* No interleaving moves a lease backwards, and a lease id disappears only
\* while its launch is still uncommitted and none of its sessions exists.
THEOREM NoRegression == Spec => LeaseNeverRegresses
<1> DEFINE Step(l) ==
       /\ registry[l] = "released" => registry'[l] = "released"
       /\ registry[l] = "release-pending" => registry'[l] \in {"release-pending", "released"}
       /\ registry[l] = "orphaned-active" => registry'[l] \notin {"acquired", "held", "absent"}
       /\ registry[l] # "absent" /\ registry'[l] = "absent" =>
            registry[l] = "acquired" /\ phase[PoolOf[l]] = "leased" /\ l \notin working
<1>1. LeaseInv /\ [Next]_vars => [\A l \in Lease : Step(l)]_vars
  <2> SUFFICES ASSUME LeaseInv, Next, NEW l \in Lease PROVE Step(l)
    BY DEF vars
  <2> USE LeaseAssumption
  <2>t. TypeOK /\ WorkersLeased
    BY DEF LeaseInv
  <2>1. ASSUME NEW p \in Pool, NEW judged \in Judgements,
               AcquireMany(p, judged) \/ AcquireRollbackFailed(p, judged)
        PROVE  Step(l)
    <3>1. /\ registry' = Granted(LeasesOf(p), Reclassified(judged))
          /\ Acquirable(LeasesOf(p), Reclassified(judged))
      BY <2>1 DEF AcquireMany, AcquireRollbackFailed
    <3>2. l \in LeasesOf(p) => registry[l] = "absent"
      BY <3>1, <2>t, ReclassifiedActive DEF Acquirable, LeasesOf
    <3> QED BY <3>1, <3>2 DEF Granted, Reclassified, ORPHAN_RECLASSIFICATION_STATES
  <2>2. ASSUME NEW p \in Pool, ReleaseUncommittedMany(p)
        PROVE  Step(l)
    BY <2>2, <2>t DEF ReleaseUncommittedMany, LeasesOf, WorkersLeased
  <2>3. ASSUME NEW k \in Lease, Hold(k) PROVE Step(l)
    BY <2>3, <2>t DEF Hold, Transition, CanTransition, LEASE_TRANSITIONS, IDEMPOTENT_LEASE_STATES, TypeOK
  <2>4. ASSUME NEW k \in Lease, MarkReleasePending(k) PROVE Step(l)
    BY <2>4, <2>t DEF MarkReleasePending, Transition, CanTransition, LEASE_TRANSITIONS,
       IDEMPOTENT_LEASE_STATES, TypeOK
  <2>5. ASSUME NEW k \in Lease, Release(k) PROVE Step(l)
    BY <2>5, <2>t DEF Release, Transition, CanTransition, LEASE_TRANSITIONS, IDEMPOTENT_LEASE_STATES, TypeOK
  <2>6. ASSUME NEW judged \in Judgements, NEW supplied \in Supplied, CleanupStale(judged, supplied)
        PROVE  Step(l)
    BY <2>6, <2>t, CleanupEffect DEF ACTIVE_LEASE_STATES
  <2>7. ASSUME NEW p \in Pool,
               \/ AcquireRefused(p) \/ Commit(p) \/ ReleaseUncommittedFailed(p)
               \/ Complete(p) \/ ControlFail(p) \/ Close(p) \/ CrashOwner(p)
        PROVE  Step(l)
    BY <2>7 DEF AcquireRefused, Commit, ReleaseUncommittedFailed, Complete, ControlFail, Close, CrashOwner
  <2>8. ASSUME NEW k \in Lease, StartWorker(k) \/ StopWorker(k)
        PROVE  Step(l)
    BY <2>8 DEF StartWorker, StopWorker
  <2> QED BY <2>1, <2>2, <2>3, <2>4, <2>5, <2>6, <2>7, <2>8 DEF Next
<1> QED BY <1>1, LeaseInvariant, PTL DEF Spec, LeaseNeverRegresses
=============================================================================
