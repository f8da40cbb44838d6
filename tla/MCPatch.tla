------------------------------- MODULE MCPatch -------------------------------
(***************************************************************************)
(* Files for Patch: messages with and without I-CNT, with room to spare    *)
(* (padded) and without.                                                   *)
(***************************************************************************)
EXTENDS Patch, SequencesExt

M(size, icnt, rest) == [size |-> size, icnt |-> icnt, rest |-> rest]

\* The bytes of messages one after the other.
Bytes(messages) ==
    LET row == FlattenSeq([k \in DOMAIN messages |->
                  [i \in 1 .. messages[k].size |-> [of |-> messages[k], nth |-> i - 1]]])
    IN  [b \in 0 .. Len(row) - 1 |-> row[b + 1]]

MCFiles == { Bytes(<<M(2, 1, 1), M(3, 2, 1), Idle, M(2, NoIcnt, 2)>>),
             \* the last without its timestamp, which the encoder writes
             Bytes(<<M(2, 1, 1), M(2, 1, 2), M(3, 2, 2)>>) }
MCIcntBytes == [v \in {0, 1, 2} |-> IF v = 2 THEN 2 ELSE 1]
=============================================================================
