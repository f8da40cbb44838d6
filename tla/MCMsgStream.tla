---------------------------- MODULE MCMsgStream ----------------------------
(***************************************************************************)
(* Instances of MsgStream for TLC: all files of up to MaxMsgs messages of  *)
(* one to MaxLen bytes from two sources, whole or cut by the end of the    *)
(* file, read through buffers both smaller and larger than a message.      *)
(***************************************************************************)
EXTENDS MsgStream, Sequences

CONSTANTS MaxMsgs, MaxLen

Kinds == [len : 1 .. MaxLen, src : {0, 1}, bad : BOOLEAN]

\* An undecodable message is never passed: one, of one kind, at the end.
Layouts == { m \in UNION { [1 .. n -> Kinds] : n \in 0 .. MaxMsgs } :
                \A i \in DOMAIN m : m[i].bad => i = Len(m) /\ m[i].src = 0 }

\* Offset of the i-th message of a layout.
OffsetIn(m, i) ==
    LET off[k \in 1 .. i] == IF k = 1 THEN 0 ELSE off[k - 1] + m[k - 1].len
    IN  off[i]

FileOf(m, cut) ==
    LET n == Len(m)
        at(s) == CHOOSE i \in 1 .. n : OffsetIn(m, i) = s
        S == { OffsetIn(m, i) : i \in 1 .. n }
    IN  [size   |-> OffsetIn(m, n + 1) - cut,
         starts |-> S,
         len    |-> [s \in S |-> m[at(s)].len],
         src    |-> [s \in S |-> m[at(s)].src],
         bad    |-> { s \in S : m[at(s)].bad }]

MCFiles == { FileOf(m, 0) : m \in Layouts }
             \cup { FileOf(m, 1) : m \in { l \in Layouts :
                        Len(l) > 0 /\ l[Len(l)].len > 1 /\ ~l[Len(l)].bad } }

MCFilters == {-1, 0}
MCBufsizes == 1 .. 5
=============================================================================
