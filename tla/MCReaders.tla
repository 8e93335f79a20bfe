----------------------------- MODULE MCReaders -----------------------------
(***************************************************************************)
(* An owner, a friend, two groups, and an event of every kind the gates    *)
(* tell apart.                                                             *)
(***************************************************************************)
EXTENDS Readers, TLC

CONSTANTS owner, ann, c1, live

MCPubkey == {owner, ann}
Home == "_"
Club == "club"

Blank == [id |-> 0, pubkey |-> owner, kind |-> 1, created_at |-> 1,
          h |-> <<>>, d |-> "", p |-> <<>>, expiration |-> NoExpiration]
Note   == [Blank EXCEPT !.id = 1, !.pubkey = ann, !.p = <<owner>>]
\* Two rows for one filter: it names both of those the filter asks for.
Letter == [Blank EXCEPT !.id = 2, !.kind = GiftWrap, !.pubkey = ann, !.p = <<owner, ann>>, !.created_at = 2]
Chat   == [Blank EXCEPT !.id = 3, !.kind = 9, !.pubkey = ann, !.h = <<Home>>, !.p = <<owner, owner>>,
                         !.expiration = 1]
Invite == [Blank EXCEPT !.id = 4, !.kind = CreateInvite, !.h = <<Club>>, !.created_at = 2]
Members == [Blank EXCEPT !.id = 5, !.kind = 39002, !.d = Club]
\* An invite of another relay's group, brought in by backfill.
Stray  == [Blank EXCEPT !.id = 6, !.kind = CreateInvite, !.h = <<"abroad">>]

MCEvent == {Note, Letter, Chat, Invite, Members, Stray}
MCFrame ==
    { {[kinds |-> {1, 9}]},
      {[authors |-> {owner, ann}, limit |-> 1]},
      {[p |-> {owner, ann}]},
      {[kinds |-> {CreateInvite}, h |-> {Club}], [ids |-> {2, 4, 5, 6}]},
      {[kinds |-> {GiftWrap}]} }

\* A friend in one group after another, asking for events by their ids.
ManyGroups == {"a", "b", "c", "d", "e", "f", "g", "h", "i", "j", "k", "l"}
ById == { {[ids |-> 1 .. 85]} }
OneEvent == {Note}
=============================================================================
