------------------------------- MODULE MCRoom -------------------------------
(***************************************************************************)
(* The owner and a friend, two sockets, a message of the friend's, and one *)
(* that the owner left in a group of the same name on another relay.       *)
(***************************************************************************)
EXTENDS Room, TLC

CONSTANTS owner, ann, c1, c2

MCPubkey == {owner, ann}
MCConn == {c1, c2}
Talk == [id |-> 1, author |-> ann, created_at |-> 3]
Elsewhere == [id |-> 2, author |-> owner, created_at |-> 2]
MCMessage == {Talk, Elsewhere}
MCImported == {Elsewhere}
=============================================================================
