-------------------------- MODULE MCPoolTransaction --------------------------
(***************************************************************************)
(* Launch: a recovery launch beside another of the same transaction id,    *)
(* one of another id, or a plain launch of two workers.                    *)
(***************************************************************************)
EXTENDS PoolTransaction, TLC

CONSTANTS l1, l2, t1, t2

RecoveryPlan(t) ==
  [txn |-> t, recovery |-> TRUE, preludes |-> 1, workers |-> 1, before |-> 0, fuse |-> 1]
PlainPlan(t) ==
  [txn |-> t, recovery |-> FALSE, preludes |-> 0, workers |-> 2, before |-> 0, fuse |-> 3]

LaunchPlans == (l1 :> {RecoveryPlan(t1)})
                 @@ (l2 :> {RecoveryPlan(t1), RecoveryPlan(t2), PlainPlan(t2)})
=============================================================================
