----------------------------- MODULE MCCounters -----------------------------
(***************************************************************************)
(* A relay upgraded from a version that filed every event naming a group,  *)
(* and other people's group metadata, in the group partition.              *)
(***************************************************************************)
EXTENDS Counters

CONSTANTS top, other

Note(hour, h) == [hour |-> hour, metadata |-> FALSE, public |-> FALSE, own |-> FALSE, h |-> h, d |-> NoGroup]
Document(hour, public, own, d) ==
    [hour |-> hour, metadata |-> TRUE, public |-> public, own |-> own, h |-> << >>, d |-> d]

\* A message of the top-level group that also names another, one of a group
\* the relay does not host, the group's own document, and a roster somebody
\* else signed, which names no group.
MCOld == { [event |-> Note(0, <<top, other>>), ingested |-> NoHour],
           [event |-> Note(1, <<other>>), ingested |-> 1],
           [event |-> Document(0, TRUE, TRUE, top), ingested |-> 0],
           [event |-> Document(0, FALSE, FALSE, NoGroup), ingested |-> 0] }
MCArriving == { Note(1, <<other, top>>), Note(2, <<top>>) }
MCEvent == { o.event : o \in MCOld } \union MCArriving
=============================================================================
