------------------------------- MODULE Playback -------------------------------
(***************************************************************************)
(* What nexusrv-replay promises (README.md: "Replay the control-flow by    *)
(* decoding the NexusRV Trace"): it shows the execution itself.            *)
(*                                                                         *)
(* `been' is the execution: the places the hart was at, by the number of   *)
(* half words retired.  `shown' of them have been accounted for, and the   *)
(* replay stands at `ip' (Nowhere: it does not know).  In code it has (it  *)
(* Sees), it shows every half word; elsewhere it may skip some, and does   *)
(* not claim more than it knows.  Where messages were lost (torn), it      *)
(* gives up until it knows better.                                         *)
(***************************************************************************)
EXTENDS Integers, Sequences

CONSTANTS Sees(_), Nowhere

VARIABLES been, shown, ip, torn

view == <<been, shown, ip, torn>>

Init == shown = 0 /\ ip = Nowhere

\* The hart goes on; the trace is replayed afterwards.
Record == /\ Len(been') >= Len(been)
          /\ \A k \in 1 .. Len(been) : been[k] \subseteq been'[k]
          /\ UNCHANGED <<shown, ip>>

\* The replay stands where the hart was.
Standing == ip' = Nowhere \/ ip' \in been[shown' + 1]

\* Code is followed half word by half word, in the places the hart was at.
FollowTo(n) == /\ ip # Nowhere /\ Sees(ip)
               /\ n >= shown
               /\ \A k \in 0 .. n - shown - 1 : ip + k \in been[shown + k + 1]

Follow == FollowTo(shown') /\ Standing

\* Without code, what is not known is passed over.
Skip == /\ ip = Nowhere \/ ~Sees(ip)
        /\ shown' >= shown
        /\ Standing

\* Where messages were lost (torn), the replay no longer knows.
Lose == /\ \E n \in torn : FollowTo(n) /\ shown' >= n
        /\ ip' = Nowhere

Next == Record \/ (UNCHANGED <<been, torn>> /\ (Follow \/ Skip \/ Lose))

Spec == Init /\ [][Next]_view
=============================================================================
