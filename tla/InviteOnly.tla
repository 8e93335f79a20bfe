----------------------------- MODULE InviteOnly -----------------------------
(***************************************************************************)
(* What a closed group promises of its door: the owner lets in and puts    *)
(* out whom he likes; anyone else enters by using up an invitation that    *)
(* was still good; and an invitation that is used, withdrawn or lapsed     *)
(* never becomes good again.                                               *)
(***************************************************************************)
CONSTANTS Owner, Place, Guest, Token

VARIABLES
    inside,     \* who is in, as <<place, guest>>
    live,       \* the invitations that still let somebody in
    dead,       \* the ones that no longer do
    actor       \* whose doing the last step was

Init ==
    /\ inside = {}
    /\ live = {}
    /\ dead = {}
    /\ actor = Owner

Moderate ==
    /\ actor' = Owner
    /\ inside' \in SUBSET (Place \X Guest)
    /\ UNCHANGED <<live, dead>>

Issue(token) ==
    /\ actor' = Owner
    /\ token \notin live \union dead
    /\ live' = live \union {token}
    /\ UNCHANGED <<inside, dead>>

Withdraw(token) ==
    /\ actor' = Owner
    /\ live' = live \ {token}
    /\ dead' = dead \union {token}
    /\ UNCHANGED inside

Lapse(tokens) ==
    /\ tokens \subseteq live
    /\ live' = live \ tokens
    /\ dead' = dead \union tokens
    /\ UNCHANGED <<inside, actor>>

Enter(guest, token) ==
    /\ actor' = guest
    /\ token \in live
    /\ live' = live \ {token}
    /\ dead' = dead \union {token}
    /\ \E place \in Place : inside' = inside \union {<<place, guest>>}

Next ==
    \/ Moderate
    \/ \E token \in Token : Issue(token) \/ Withdraw(token)
    \/ \E tokens \in SUBSET Token : Lapse(tokens)
    \/ \E guest \in Guest, token \in Token : Enter(guest, token)

Spec == Init /\ [][Next]_<<inside, live, dead, actor>>
=============================================================================
