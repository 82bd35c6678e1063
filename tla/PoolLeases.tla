------------------------------ MODULE PoolLeases ------------------------------
(***************************************************************************)
(* The worktree and integration-target lease registry shared by every      *)
(* native pool on a host (scripts/cwo_core/native_pool_leases.py), with    *)
(* its clients: the coordinators that acquire, hold, park and release      *)
(* leases, the admitted launcher that may hand an uncommitted set back,    *)
(* and the operator's stale-lease cleanup.  Each registry method runs      *)
(* under one exclusive flock, so it is one atomic action; what interleaves *)
(* is whole method calls of different processes, owner crashes, workers    *)
(* that outlive their owner, and registry writes that fail.                *)
(***************************************************************************)
EXTENDS Naturals, Sequences, FiniteSets

CONSTANTS
  Pool,       \* pool contracts: one (pool_id, pool_epoch) and one owner process each
  Lease,      \* lease ids; each contract names one per child
  PoolOf,     \* the contract a lease belongs to
  PoolId,     \* the pool_id of a contract: epochs of one pool share it
  Worktree,   \* worktree_identity of a lease
  Root,       \* integration_root_identity of a contract
  Targets,    \* target_paths of a lease: a set of paths, each a sequence of parts
  MaxCrashes  \* bound on the number of owner processes that die

ASSUME LeaseAssumption ==
  /\ PoolOf \in [Lease -> Pool]
  /\ DOMAIN PoolId = Pool
  /\ DOMAIN Worktree = Lease
  /\ DOMAIN Root = Pool
  /\ DOMAIN Targets = Lease
  /\ MaxCrashes \in Nat

VARIABLES
  registry,   \* lifecycle_state of each lease id, or "absent"
  evidence,   \* terminal_evidence_sha256: the pool state it hashes, or NoState
  phase,      \* what each coordinator believes about its pool
  owned,      \* contracts whose coordinator holds its lease set in memory
  live,       \* contracts whose owner process is alive
  working,    \* leases whose worker session may still write
  published   \* terminal pool states ever persisted

vars == <<registry, evidence, phase, owned, live, working, published>>

-----------------------------------------------------------------------------
(* The lifecycle table. *)

ACTIVE_LEASE_STATES == {"acquired", "held", "release-pending", "orphaned-active"}

LeaseState == ACTIVE_LEASE_STATES \cup {"released", "absent"}

LEASE_TRANSITIONS ==
  ({"acquired"} \X {"held", "release-pending", "released"})
    \cup ({"held", "orphaned-active"} \X {"release-pending", "released"})
    \cup ({"release-pending"} \X {"released"})

IDEMPOTENT_LEASE_STATES == {"release-pending", "released"}

ORPHAN_RECLASSIFICATION_STATES == {"acquired", "held"}

\* The terminal statuses of a persisted pool state.
Status == {"completed", "closed", "control-failed"}

\* No terminal pool state: a null hash, or evidence that proves nothing.
NoState == [pool |-> "none", status |-> "none"]

PoolState == [pool : Pool, status : Status]

Phase == {"new", "leased", "refused", "running", "completed", "closed",
          "control-failed", "aborted"}

LeasesOf(p) == {l \in Lease : PoolOf[l] = p}

-----------------------------------------------------------------------------
(* Collision rules of acquire_many. *)

PathPrefix(p, q) == Len(p) <= Len(q) /\ SubSeq(q, 1, Len(p)) = p

PathsOverlap(S, T) == \E p \in S, q \in T : PathPrefix(p, q) \/ PathPrefix(q, p)

SameRoot(l, m) == Root[PoolOf[l]] = Root[PoolOf[m]]

ReadOnlySiblings(l, m) == PoolOf[l] = PoolOf[m] /\ Targets[l] = {} /\ Targets[m] = {}

Collides(l, m) ==
  \/ Worktree[l] = Worktree[m] /\ ~ReadOnlySiblings(l, m)
  \/ SameRoot(l, m) /\ PathsOverlap(Targets[l], Targets[m])

Active(reg) == {l \in Lease : reg[l] \in ACTIVE_LEASE_STATES}

\* owner_identity_is_live compares pid, start ticks and boot id, so a dead
\* owner is never taken for a live one; any /proc error makes a live owner
\* look dead.  "judged" is the set of owners one call finds alive; it looks
\* at the owners of active leases only.
Judgements == SUBSET {p \in live : \E l \in Active(registry) : PoolOf[l] = p}

\* The reclassification pass of acquire_many over its staged copy.
Reclassified(judged) ==
  [l \in Lease |->
     IF PoolOf[l] \notin judged /\ registry[l] \in ORPHAN_RECLASSIFICATION_STATES
     THEN "orphaned-active"
     ELSE registry[l]]

\* Faulty variant of Acquirable: parked and orphaned leases do not block.
AcquirableOverParked(req, staged) ==
  \A l \in req :
    /\ staged[l] = "absent"
    /\ \A m \in Active(staged) \cup (req \ {l}) :
         staged[m] \in {"release-pending", "orphaned-active"} \/ ~Collides(m, l)

\* No requested id is present in any state, and none collides with an active
\* lease of the staged copy, the siblings staged before it included.
Acquirable(req, staged) ==
  \A l \in req :
    /\ staged[l] = "absent"
    /\ \A m \in Active(staged) \cup (req \ {l}) : ~Collides(m, l)

Granted(req, staged) == [l \in Lease |-> IF l \in req THEN "acquired" ELSE staged[l]]

-----------------------------------------------------------------------------
(* Acquisition, and handing an uncommitted set back. *)

\* acquire_many(contract): one all-or-none write of the whole lease set.
AcquireMany(p, judged) ==
  LET staged == Reclassified(judged)
  IN /\ p \in live /\ phase[p] = "new"
     /\ Acquirable(LeasesOf(p), staged)
     /\ registry' = Granted(LeasesOf(p), staged)
     /\ phase' = [phase EXCEPT ![p] = "leased"]
     /\ owned' = owned \cup {p}
     /\ UNCHANGED <<evidence, live, working, published>>

\* A collision, or a failed write whose rollback restores the exact bytes: the
\* registry, the reclassifications staged by this call included, is untouched.
AcquireRefused(p) ==
  /\ p \in live /\ phase[p] = "new"
  /\ phase' = [phase EXCEPT ![p] = "refused"]
  /\ UNCHANGED <<registry, evidence, owned, live, working, published>>

\* The write replaced the file and then failed, and so did the rollback: the
\* caller sees "lease-registry-rollback-failed" and holds nothing.
AcquireRollbackFailed(p, judged) ==
  LET staged == Reclassified(judged)
  IN /\ p \in live /\ phase[p] = "new"
     /\ Acquirable(LeasesOf(p), staged)
     /\ registry' = Granted(LeasesOf(p), staged)
     /\ phase' = [phase EXCEPT ![p] = "refused"]
     /\ UNCHANGED <<evidence, owned, live, working, published>>

\* The launcher transfers lease ownership to the coordinator it has built.  A
\* coordinator that acquires its own leases does so within one step.
Commit(p) ==
  /\ p \in live /\ phase[p] = "leased"
  /\ phase' = [phase EXCEPT ![p] = "running"]
  /\ UNCHANGED <<registry, evidence, owned, live, working, published>>

\* release_uncommitted_many: removes exactly the set this launch acquired.
ReleaseUncommittedMany(p) ==
  /\ p \in live /\ phase[p] = "leased"
  /\ \A l \in LeasesOf(p) : registry[l] = "acquired"
  /\ registry' = [l \in Lease |-> IF PoolOf[l] = p THEN "absent" ELSE registry[l]]
  /\ phase' = [phase EXCEPT ![p] = "aborted"]
  /\ owned' = owned \ {p}
  /\ UNCHANGED <<evidence, live, working, published>>

\* An entry drifted, or the write failed and was rolled back: the launch ends
\* with "precommit-lease-containment-failed" and its leases stay active.
ReleaseUncommittedFailed(p) ==
  /\ p \in live /\ phase[p] = "leased"
  /\ phase' = [phase EXCEPT ![p] = "aborted"]
  /\ owned' = owned \ {p}
  /\ UNCHANGED <<registry, evidence, live, working, published>>

-----------------------------------------------------------------------------
(* Transitions of one lease.  _transition writes without a rollback: when    *)
(* the write fails after replacing the file the lease has moved although the *)
(* caller sees an error, and the coordinator then takes its control-failure  *)
(* path (ControlFail below).                                                 *)

CanTransition(l, target) ==
  \/ <<registry[l], target>> \in LEASE_TRANSITIONS
  \/ registry[l] = target /\ target \in IDEMPOTENT_LEASE_STATES

\* An idempotent repeat returns the stored lease; its evidence is not rewritten.
Transition(l, target, state) ==
  /\ CanTransition(l, target)
  /\ registry' = [registry EXCEPT ![l] = target]
  /\ evidence' = IF registry[l] = target
                 THEN evidence
                 ELSE [evidence EXCEPT ![l] = state]

\* The first poll of a child holds its lease.
Hold(l) ==
  LET p == PoolOf[l]
  IN /\ p \in live /\ phase[p] = "running" /\ p \in owned
     /\ Transition(l, "held", NoState)
     /\ UNCHANGED <<phase, owned, live, working, published>>

\* Control failure and crash cleanup park every lease not yet released.
MarkReleasePending(l) ==
  LET p == PoolOf[l]
  IN /\ p \in live /\ phase[p] = "control-failed" /\ p \in owned
     /\ registry[l] # "released"
     /\ Transition(l, "release-pending", [pool |-> p, status |-> "control-failed"])
     /\ UNCHANGED <<phase, owned, live, working, published>>

\* release is called with the coordinator's current state, by the close loop
\* and by crash cleanup, and demands that its status is completed or closed.
Release(l) ==
  LET p == PoolOf[l]
  IN /\ p \in live /\ phase[p] \in {"completed", "control-failed"} /\ p \in owned
     /\ phase[p] \in {"completed", "closed"}
     /\ Transition(l, "released", [pool |-> p, status |-> phase[p]])
     /\ UNCHANGED <<phase, owned, live, working, published>>

-----------------------------------------------------------------------------
(* cleanup_stale: the operator supplies at most one state file per pool_id,  *)
(* read before the lock is taken and possibly out of date: any terminal   *)
(* state the pool ever persisted, or NoState, which stands for a file that is *)
(* missing, invalid or not terminal: the code treats the three alike.  Files  *)
(* of pools without an active lease are not looked at.                        *)

Supplied ==
  LET lookedAt == {state \in published :
                     \E l \in Active(registry) : PoolId[PoolOf[l]] = PoolId[state.pool]}
  IN {f \in [{PoolId[p] : p \in Pool} -> lookedAt \cup {NoState}] :
        \A i \in DOMAIN f : f[i] = NoState \/ PoolId[f[i].pool] = i}

\* Faulty variant of EvidenceFor: the pool epoch is not compared.
EvidenceForAnyEpoch(l, supplied) == supplied[PoolId[PoolOf[l]]]

\* Missing or invalid evidence, or evidence of another epoch, proves nothing.
EvidenceFor(l, supplied) ==
  LET state == supplied[PoolId[PoolOf[l]]]
  IN IF state.pool = PoolOf[l] THEN state ELSE NoState

\* Faulty variants of StaleTarget: any terminal state releases; the pool's
\* status is stored as the lease's.
StaleTargetTrusting(state) ==
  IF state.status \in Status THEN "released" ELSE "orphaned-active"

StaleTargetStatus(state) ==
  IF state.status \in Status THEN state.status ELSE "orphaned-active"

StaleTarget(state) ==
  IF state.status \in {"completed", "closed"} THEN "released"
  ELSE IF state.status = "control-failed" THEN "release-pending"
  ELSE "orphaned-active"

\* Faulty variant of StaleChanged: a lease in any state may be orphaned.
StaleChangedUnguarded(judged, supplied) ==
  {l \in Lease :
     /\ registry[l] \notin {"released", "absent"}
     /\ PoolOf[l] \notin judged
     /\ registry[l] # StaleTarget(EvidenceFor(l, supplied))}

\* Leases the pass rewrites: not released, owner found dead, and a real change.
StaleChanged(judged, supplied) ==
  {l \in Lease :
     /\ registry[l] \notin {"released", "absent"}
     /\ PoolOf[l] \notin judged
     /\ LET target == StaleTarget(EvidenceFor(l, supplied))
        IN /\ target = "orphaned-active" => registry[l] \in ORPHAN_RECLASSIFICATION_STATES
           /\ registry[l] # target}

CleanupStale(judged, supplied) ==
  LET changed == StaleChanged(judged, supplied)
      state(l) == EvidenceFor(l, supplied)
      target(l) == StaleTarget(state(l))
  IN /\ changed # {}
     /\ registry' = [l \in Lease |-> IF l \in changed THEN target(l) ELSE registry[l]]
     /\ evidence' = [l \in Lease |->
                       IF l \in changed
                       THEN IF target(l) = "orphaned-active" THEN NoState ELSE state(l)
                       ELSE evidence[l]]
     /\ UNCHANGED <<phase, owned, live, working, published>>

-----------------------------------------------------------------------------
(* The clients, as far as the registry sees them. *)

\* send_input to a child: the coordinator consults only its in-memory leases.
StartWorker(l) ==
  LET p == PoolOf[l]
  IN /\ p \in live /\ phase[p] = "running" /\ p \in owned
     /\ working' = working \cup {l}
     /\ UNCHANGED <<registry, evidence, phase, owned, live, published>>

\* A worker session ends, whether or not its owner is still there to see it.
StopWorker(l) ==
  /\ l \in working
  /\ working' = working \ {l}
  /\ UNCHANGED <<registry, evidence, phase, owned, live, published>>

\* The coordinator persists "completed" once every child turn is terminal
\* without control loss: every session it started has been closed.
Complete(p) ==
  /\ p \in live /\ phase[p] \in {"running", "refused"}
  /\ working \cap LeasesOf(p) = {}
  /\ phase' = [phase EXCEPT ![p] = "completed"]
  /\ published' = published \cup {[pool |-> p, status |-> "completed"]}
  /\ UNCHANGED <<registry, evidence, owned, live, working>>

\* Control loss, a failed release included: sessions may still be running.  A
\* coordinator that crashes over its receipt overwrites a closed state too.
ControlFail(p) ==
  /\ p \in live /\ phase[p] \in {"running", "refused", "completed", "closed"}
  /\ phase' = [phase EXCEPT ![p] = "control-failed"]
  /\ published' = published \cup {[pool |-> p, status |-> "control-failed"]}
  /\ UNCHANGED <<registry, evidence, owned, live, working>>

\* "closed" is persisted after the last lease of the set is released.
Close(p) ==
  /\ p \in live /\ phase[p] = "completed"
  /\ p \in owned => \A l \in LeasesOf(p) : registry[l] = "released"
  /\ phase' = [phase EXCEPT ![p] = "closed"]
  /\ published' = published \cup {[pool |-> p, status |-> "closed"]}
  /\ UNCHANGED <<registry, evidence, owned, live, working>>

\* The owner process dies; its worker sessions do not.
CrashOwner(p) ==
  /\ p \in live /\ Cardinality(Pool \ live) < MaxCrashes
  /\ live' = live \ {p}
  /\ UNCHANGED <<registry, evidence, phase, owned, working, published>>

-----------------------------------------------------------------------------
Init ==
  /\ registry = [l \in Lease |-> "absent"]
  /\ evidence = [l \in Lease |-> NoState]
  /\ phase = [p \in Pool |-> "new"]
  /\ owned = {}
  /\ live = Pool
  /\ working = {}
  /\ published = {}

Next ==
  \/ \E p \in Pool, judged \in Judgements :
       \/ AcquireMany(p, judged)
       \/ AcquireRollbackFailed(p, judged)
  \/ \E p \in Pool :
       \/ AcquireRefused(p)
       \/ Commit(p)
       \/ ReleaseUncommittedMany(p)
       \/ ReleaseUncommittedFailed(p)
       \/ Complete(p)
       \/ ControlFail(p)
       \/ Close(p)
       \/ CrashOwner(p)
  \/ \E l \in Lease :
       \/ Hold(l)
       \/ MarkReleasePending(l)
       \/ StartWorker(l)
       \/ StopWorker(l)
       \/ Release(l)
  \/ \E judged \in Judgements, supplied \in Supplied : CleanupStale(judged, supplied)

Spec == Init /\ [][Next]_vars

-----------------------------------------------------------------------------
(* Properties. *)

\* Every variable ranges over the values the registry and the pool states have.
TypeOK ==
  /\ registry \in [Lease -> LeaseState]
  /\ evidence \in [Lease -> PoolState \cup {NoState}]
  /\ phase \in [Pool -> Phase]
  /\ owned \subseteq Pool
  /\ live \subseteq Pool
  /\ working \subseteq Lease
  /\ published \subseteq PoolState

\* acquire_many's collision rules hold of the whole registry at all times: no
\* sequence of acquisitions, reclassifications, failed writes and cleanups
\* leaves two active leases on one worktree or on overlapping targets.
ActiveLeasesDisjoint ==
  \A l, m \in Active(registry) : l # m => ~Collides(l, m)

\* What the registry is for: two worker sessions that may write at the same
\* time never share a worktree or an integration target, even after their
\* owner crashed, was misjudged dead, or its leases were cleaned up.
WorkersDisjoint ==
  \A l, m \in working : l # m => ~Collides(l, m)

\* A released lease carries the hash of a completed or closed state of its own
\* pool and epoch, a release-pending one that of a terminal state of it, and
\* an active unparked lease carries none.
EvidenceBound ==
  \A l \in Lease :
    /\ registry[l] = "released" =>
         evidence[l].pool = PoolOf[l] /\ evidence[l].status \in {"completed", "closed"}
    /\ registry[l] = "release-pending" =>
         evidence[l].pool = PoolOf[l] /\ evidence[l].status = "control-failed"
    /\ registry[l] \in {"acquired", "held", "orphaned-active", "absent"} => evidence[l] = NoState

\* No step regresses a lease: released is final, release-pending only becomes
\* released, orphaned-active never returns to its owner, and a lease id leaves
\* the registry only from "acquired", before its pool dispatched anything.
LeaseNeverRegresses ==
  [][\A l \in Lease :
       /\ registry[l] = "released" => registry'[l] = "released"
       /\ registry[l] = "release-pending" => registry'[l] \in {"release-pending", "released"}
       /\ registry[l] = "orphaned-active" => registry'[l] \notin {"acquired", "held", "absent"}
       /\ registry[l] # "absent" /\ registry'[l] = "absent" =>
            registry[l] = "acquired" /\ phase[PoolOf[l]] = "leased" /\ l \notin working]_vars
=============================================================================
