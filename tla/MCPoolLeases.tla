---------------------------- MODULE MCPoolLeases ----------------------------
(***************************************************************************)
(* A small instance of PoolLeases: pool a writes in one worktree and reads *)
(* another; pool b has a target below a's; pool c, a later epoch of a's    *)
(* pool_id, writes in the worktree a reads and to a target of b.           *)
(***************************************************************************)
EXTENDS PoolLeases, TLC

CONSTANTS a, b, c, a1, a2, b1, c1

MCPool == {a, b, c}
MCLease == {a1, a2, b1, c1}
MCPoolId == (a :> "id1") @@ (b :> "id2") @@ (c :> "id1")
MCPoolOf == (a1 :> a) @@ (a2 :> a) @@ (b1 :> b) @@ (c1 :> c)
MCWorktree == (a1 :> "w1") @@ (a2 :> "w2") @@ (b1 :> "w3") @@ (c1 :> "w2")
MCTargets == (a1 :> {<<"src">>}) @@ (a2 :> {}) @@ (b1 :> {<<"src", "lib">>, <<"docs">>})
             @@ (c1 :> {<<"docs">>})
MCRoot == [p \in Pool |-> "root"]
=============================================================================
