------------------------------ MODULE MCGroups ------------------------------
(***************************************************************************)
(* An owner, two people, the top-level group and one more.                 *)
(***************************************************************************)
EXTENDS Groups, TLC

CONSTANTS owner, ann, bob, top, club, c1, c2

MCPubkey == {owner, ann, bob}
MCGroup == {top, club}
MCCode == {c1, c2}
Ann == {ann}
Bob == {bob}
Nobody == {}
Codes == Permutations(MCCode)
=============================================================================
