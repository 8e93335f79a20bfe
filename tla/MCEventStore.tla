---------------------------- MODULE MCEventStore ----------------------------
(***************************************************************************)
(* A small relay for TLC: an owner, a friend, the one-time key that signs  *)
(* gift wraps, and the relay's own key.                                    *)
(***************************************************************************)
EXTENDS EventStore, TLC

CONSTANTS owner, friend, onetime, relay

MCPubkey == {owner, friend, onetime, relay}

Blank == [id |-> 0, pubkey |-> owner, kind |-> 1, created_at |-> 1, d |-> "",
          h |-> "", p |-> {}, e |-> {}, a |-> {}, expiration |-> NoExpiration]

Note == [Blank EXCEPT !.id = 1]

\* Two versions of an article, of one second: the lower id wins.
Article == [Blank EXCEPT !.id = 2, !.kind = 30023, !.d = "x"]
Draft   == [Article EXCEPT !.id = 3]

Deletion == [Blank EXCEPT !.id = 5, !.kind = 5, !.e = {1, 4, 6},
                          !.a = {[kind |-> 30023, pubkey |-> owner, d |-> "x"]}]

\* Mail for the owner: one letter that expires, one parcel that does not.
Letter == [Blank EXCEPT !.id = 6, !.pubkey = onetime, !.kind = 1059,
                        !.p = {owner}, !.expiration = 2]
Parcel == [Letter EXCEPT !.id = 7, !.created_at = 2, !.expiration = NoExpiration]

\* The relay's own member list.
Members == [Blank EXCEPT !.id = 8, !.pubkey = relay, !.kind = 39002, !.d = "_"]

\* Mail the owner signed to herself, which backfill may bring as well.
Memo == [Parcel EXCEPT !.id = 9, !.pubkey = owner]

\* The owner's message in the top-level group.
Chat == [Note EXCEPT !.kind = 9, !.h = "_"]

\* A friend's member list, taken for this relay's own by an older deploy, which
\* is not the owner's to delete.
Foreign == [Members EXCEPT !.id = 4, !.pubkey = friend]

MCEvent == {Chat, Article, Draft, Deletion, Letter, Parcel, Members, Memo, Foreign}
MCHistory == {Chat, Article, Deletion, Memo}
MCMisfiled == {Foreign}
MCModerated == {1}
MCVanishRequest ==
    {[pubkey |-> owner, created_at |-> 1], [pubkey |-> owner, created_at |-> 2],
     [pubkey |-> onetime, created_at |-> 2]}

\* Fewer events, for the runs that need no more: liveness, and deletions met
\* by backfill.
LiveEvent == {Note, Deletion, Letter, Parcel}
NoteOnly == {Note}
ArticleEvent == {Article, Draft, Deletion}
DraftOnly == {Draft}
ArticleId == {Article.id}
=============================================================================
