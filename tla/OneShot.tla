------------------------------- MODULE OneShot -------------------------------
(***************************************************************************)
(* What a single-use grant promises: somebody may claim it once, and only  *)
(* the claimant ever acts on it.  A claim is never undone, and whether the *)
(* claimant acts at all is left open: a crash after the claim loses it.    *)
(***************************************************************************)
CONSTANTS
  Claimant,  \* who may claim the grant
  Nobody     \* nobody claimed it: not a claimant

VARIABLES
  owner,   \* who claimed the grant
  actors   \* who has acted on it

Init == owner = Nobody /\ actors = {}

Claim(c) == owner = Nobody /\ owner' = c /\ actors' = actors

Act == owner # Nobody /\ actors' = {owner} /\ owner' = owner

Next == (\E c \in Claimant : Claim(c)) \/ Act

Spec == Init /\ [][Next]_<<owner, actors>>
=============================================================================
