----------------------------- MODULE MCBackfill -----------------------------
(***************************************************************************)
(* Two other relays with the owner's history and this relay itself, which  *)
(* sorts after them.                                                       *)
(***************************************************************************)
EXTENDS Backfill, TLC

CONSTANTS owner, stranger, relay, first, second

MCPubkey == {owner, stranger, relay}

Note == [id |-> 1, pubkey |-> owner, kind |-> 1, created_at |-> 2, d |-> "",
         p |-> {}, e |-> {}, a |-> {}, expiration |-> NoExpiration]

\* Two versions of the owner's profile, a stranger's note that a relay which
\* ignores the filter sends along, of the same second as the owner's own, and
\* a note with a tag that is no list, of the same second as the newer profile.
Profile    == [Note EXCEPT !.id = 2, !.kind = 0, !.created_at = 3]
OldProfile == [Profile EXCEPT !.id = 3, !.created_at = 1]
Intruder   == [Note EXCEPT !.id = 4, !.pubkey = stranger]
Garbled    == [Note EXCEPT !.id = 5, !.created_at = 3]

MCEvent == {Note, Profile, OldProfile, Intruder, Garbled}
MCHistory == 1 :> {Note, Intruder, OldProfile} @@ 2 :> {Profile, Garbled} @@ 3 :> {}
MCMalformed == {Garbled}

\* The first relay sends two events at a time, the second, by its own cap, one.
MCPageSize == 1 :> 2 @@ 2 :> 1 @@ 3 :> 2
MCDeletable == {Note}
MCUrl == 1 .. 3
MCWriteRelays == 1 .. 3
Both == {first, second}
One == {first}
=============================================================================
