----------------------------- MODULE MCWriters -----------------------------
(***************************************************************************)
(* Two people, either of whom may come to own the relay; contact lists of  *)
(* one that name the other, name nobody in the same second, and name him   *)
(* again.                                                                  *)
(***************************************************************************)
EXTENDS Writers, TLC

CONSTANTS ann, bob, n1, n2

MCPubkey == {ann, bob}
MCContacts ==
    { [id |-> 2, author |-> ann, created_at |-> 1, follows |-> {bob}],
      [id |-> 1, author |-> ann, created_at |-> 1, follows |-> {}],
      [id |-> 3, author |-> ann, created_at |-> 2, follows |-> {bob}] }
\* The environment takes over the ownership and narrows the policy.
MCDeployments == { [owner |-> bob, policy |-> "inbox"] }
Codes == Permutations({n1, n2})
=============================================================================
