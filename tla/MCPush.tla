------------------------------- MODULE MCPush -------------------------------
(***************************************************************************)
(* Push.cfg: two members with three devices between them, a third who      *)
(* posts.  PushLive.cfg: one member who changes from one device to another,*)
(* and one live feed socket that shares the alarm.                         *)
(***************************************************************************)
EXTENDS Push, TLC

MCPubkey == {"ann", "bob", "cat"}
MCSubscriber == {<<"ann", 1>>, <<"bob", 1>>, <<"bob", 2>>, <<"ann", 3>>}
MCTrigger == {<<"message", "cat">>, <<"voice", "bob">>}
AnnsDevices == {<<"ann", 1>>, <<"ann", 2>>}
CatsTrigger == {<<"message", "cat">>, <<"voice", "cat">>}
MCSlot == {1}
NoSlot == {}
=============================================================================
