--------------------------- MODULE EventLifecycle ---------------------------
(***************************************************************************)
(* What the event table promises, whatever code path touches it: an event  *)
(* is held, gone or neither.  Held events give way only to a newer version *)
(* of themselves; an event that is gone is refused for good, unless the    *)
(* owner restores it; only what is kept for a time may be dropped and      *)
(* forgotten.                                                              *)
(***************************************************************************)
CONSTANTS
    Event,
    Newer,      \* the pairs <<y, x>> in which y is the newer version of x
    OwnState,   \* what the relay writes itself, and never refuses itself
    Perishable, \* what may be dropped without a trace
    Legacy      \* what was held before anything was promised

VARIABLES held, gone

Init ==
    /\ held = Legacy
    /\ gone = {}

Superseded(y) == { x \in held : <<y, x>> \in Newer }

\* y comes in, unless it is gone or no longer the newest version, and takes
\* with it the versions it replaces.  It may be a deletion: what else leaves
\* is gone.
Accept(y) ==
    /\ y \notin held
    /\ y \notin gone \/ y \in OwnState
    /\ \A x \in held : <<x, y>> \notin Newer
    /\ y \in held'
    /\ held' \subseteq (held \ Superseded(y)) \union {y}
    /\ gone' = gone \union ((held \ Superseded(y)) \ held')

\* Some events leave: all but the perishable are gone.
Withdraw ==
    /\ held' \subseteq held
    /\ gone \subseteq gone'
    /\ gone' \ gone \subseteq held \ held'
    /\ (held \ held') \ Perishable \subseteq gone'

\* The owner bars an event, held or not.
Bar(x) ==
    /\ held' = held \ {x}
    /\ gone' = gone \union {x}

\* The owner lifts the bar; the event has to be sent again to be held.
Restore(x) ==
    /\ held' = held
    /\ gone' = gone \ {x}

Next ==
    \/ \E y \in Event : Accept(y)
    \/ Withdraw
    \/ \E x \in Event : Bar(x) \/ Restore(x)

Spec == Init /\ [][Next]_<<held, gone>>
=============================================================================
