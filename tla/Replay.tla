-------------------------------- MODULE Replay --------------------------------
(***************************************************************************)
(* util/replay.cpp, replay(): the loop that follows the program along the  *)
(* trace.  `dec' is the trace decoder, `lastip' the place replay stands at *)
(* (Nowhere when it is not known) and `status' tells how the loop has      *)
(* ended.  One step is one iteration; `odd' flips with each, so that one   *)
(* which leaves everything as it was is a step too.  First the hart of     *)
(* TracedHart writes a trace, then it is replayed.                         *)
(*                                                                         *)
(* `insts', the blocks fetched so far, is the constant function of all     *)
(* blocks: memory does not change, so it does not matter when a block is   *)
(* fetched.                                                                *)
(***************************************************************************)
EXTENDS TracedHart

CONSTANTS Nowhere

VARIABLES recording, dec, lastip, status, odd

vars == <<hartVars, recording, dec, lastip, status, odd>>

Nothing == [begin |-> 0, icnt |-> 0, bits |-> << >>, kind |-> "End", sync |-> FALSE, addr |-> 0]

Init == /\ HartInit
        /\ recording = TRUE
        /\ dec = [trace |-> <<Nothing>>, synced |-> FALSE, stack |-> << >>]
        /\ lastip = Nowhere /\ status = "running" /\ odd = FALSE

Record == /\ recording /\ Len(trace) < MaxSegments
          /\ HartNext
          /\ UNCHANGED <<recording, dec, lastip, status, odd>>

\* The trace is complete, up to its last message or to the bound:
\* nexusrv_trace_decoder_init on its file.
Open == /\ recording
        /\ from = Len(been) - 1 \/ Len(been) >= MaxIcnt \/ Len(trace) = MaxSegments
        /\ recording' = FALSE
        /\ dec' = [dec EXCEPT !.trace = Append(trace, [Nothing EXCEPT !.begin = from])]
        /\ UNCHANGED <<hartVars, lastip, status, odd>>

Running == ~recording /\ status = "running"
Iteration == UNCHANGED <<hartVars, recording>> /\ odd' = ~odd
Ends(how) == status' = how /\ UNCHANGED lastip
GoesOn(ip) == lastip' = ip /\ UNCHANGED status

-----------------------------------------------------------------------------
\* Not synchronized: look for a SYNC; a failure is fatal.
SyncReset == /\ Running /\ ~dec.synced
             /\ LET r == sync_reset(dec)
                IN  /\ dec' = r.d
                    /\ IF r.rc = "ok" THEN GoesOn(r.value) ELSE Ends("sync_failed")
             /\ Iteration

\* The block replay stands at.
insts == [va \in Mapped |-> fetch(va)]
Block == IF lastip \in Mapped THEN insts[lastip] ELSE NoBlock
Result == retire(Block, dec, quirk)

\* mutant: the place is kept when the target of a branch is unknown
HandleEventStays(d, event, ip) ==
    CASE event \in {"Direct", "DirectSync"} -> [r |-> next_tnt(d), ip |-> ip]
      [] event \in {"Indirect", "IndirectSync", "Trap"} ->
             [r |-> next_indirect(d), ip |-> next_indirect(d).value]
      [] event = "Sync" -> [r |-> next_sync(d), ip |-> next_sync(d).value]
      [] event \in {"Stop", "Error"} -> [r |-> next_end(d, event), ip |-> Nowhere]
      [] event = "None" -> [r |-> Answer(d, "ok", 0, "None", 0), ip |-> ip]
\* handle_event: the event is taken, and says where to go on.  There may be none.
HandleEvent(d, event, ip) ==
    CASE event \in {"Direct", "DirectSync"} -> [r |-> next_tnt(d), ip |-> Nowhere]
      [] event \in {"Indirect", "IndirectSync", "Trap"} ->
             [r |-> next_indirect(d), ip |-> next_indirect(d).value]
      [] event = "Sync" -> [r |-> next_sync(d), ip |-> next_sync(d).value]
      [] event \in {"Stop", "Error"} -> [r |-> next_end(d, event), ip |-> Nowhere]
      [] event = "None" -> [r |-> Answer(d, "ok", 0, "None", 0), ip |-> ip]

Handle(d, event, ip) ==
    LET h == HandleEvent(d, event, ip)
    IN  /\ dec' = h.r.d
        /\ IF h.r.rc = "ok" THEN GoesOn(h.ip) ELSE Ends(h.r.rc)

\* mutant: a message that is not supported ends the loop too
HandleErrorGivesUp(d, rc) == dec' = d /\ Ends(IF rc = "unsupported" THEN "done" ELSE rc)
\* handle_error: the end of the trace ends the loop, an unsupported message is
\* taken and the loop goes on, anything else is fatal.
HandleError(d, rc) ==
    CASE rc = "eof" -> dec' = d /\ Ends("done")
      [] rc = "unsupported" -> dec' = take_unsupported(d) /\ GoesOn(lastip)
      [] OTHER -> dec' = d /\ Ends(rc)

Blocked == Running /\ dec.synced /\ Block # NoBlock

RetireBlock == /\ Blocked
               /\ LET r == Result
                  IN  r.out = "ok" /\ dec' = r.d /\ GoesOn(r.ip)
               /\ Iteration

\* An event is thrown (asserted).  The line printed for it has the instruction it
\* comes in front of (disasm1): one that capstone cannot decode is fatal.
RetireEvent == /\ Blocked
               /\ LET r == Result
                  IN  /\ r.out = "event"
                      /\ IF r.event = "None" THEN dec' = r.d /\ Ends("aborted")
                         ELSE IF Undecodable(r.ip) THEN dec' = r.d /\ Ends("undecodable")
                         ELSE Handle(r.d, r.event, r.ip)
               /\ Iteration

RetireFails == /\ Blocked
               /\ LET r == Result
                  IN  r.out = "failed" /\ HandleError(r.d, r.rc)
               /\ Iteration

\* No code at hand: retire all up to the next event.
RetireBlind ==
    /\ Running /\ dec.synced /\ Block = NoBlock
    /\ LET r == try_retire(dec, Front(dec).icnt + 1)
           ip == IF lastip = Nowhere THEN Nowhere ELSE lastip + r.n
       IN  IF r.rc = "ok" THEN Handle(r.d, r.event, ip) ELSE HandleError(r.d, r.rc)
    /\ Iteration

Steps == SyncReset \/ RetireBlock \/ RetireEvent \/ RetireFails \/ RetireBlind

Ended == /\ ~recording /\ status # "running"
         /\ UNCHANGED vars

Next == Record \/ Open \/ Steps \/ Ended

Spec == Init /\ [][Next]_vars

-----------------------------------------------------------------------------
(***************************************************************************)
(* Properties.                                                             *)
(***************************************************************************)
Shown == Front(dec).begin

\* Where the encoder reported that it had lost messages.
Torn == { trace[k].begin + trace[k].icnt : k \in { j \in DOMAIN trace : trace[j].kind = "Error" } }

Abstract == INSTANCE Playback WITH
                been <- been, shown <- Shown, ip <- lastip, torn <- Torn,
                Sees <- LAMBDA a : a \in Mapped /\ insts[a] # NoBlock

\* Replay shows the execution: every block it prints was executed at that point,
\* half word by half word, and where it claims to stand the hart was.
ShowsExecution == Abstract!Spec

\* Replay is not misled: in a trace of the program it replays, an event it needs
\* is there (inst.cpp:34-55, 74-88, 124-134).
NeverMisled == status \in {"running", "done", "sync_failed"}

\* At the end of the trace everything traced has been shown, up to the last
\* message (replay.cpp:234-236); what is left has no event behind it.
AllShown == status = "done" => Shown + Front(dec).icnt = from

\* An iteration takes something off the trace, a segment or a part of the first one.
Left(s) == s.icnt + Len(s.bits) + IF s.sync THEN 1 ELSE 0
Advances == \/ Len(dec'.trace) < Len(dec.trace)
            \/ /\ Len(dec'.trace) = Len(dec.trace)
               /\ Left(Front(dec')) < Left(Front(dec))

\* Every iteration of the loop does, so replay does not go round in circles at an
\* event or a message it cannot use (replay.cpp:142-349), but at a message without
\* event where it has no code.
GoesRound == Front(dec).kind = "Quiet" /\ Ready(dec) /\ Block = NoBlock
MakesProgress == [][~recording => Advances \/ status' # "running" \/ GoesRound]_vars

\* Where replay claims to stand, the hart was after as many instructions
\* (contrib/p550/README.md:36-39: the returns an encoder covers are replayed).
StandsWhereHartWas == ~recording /\ lastip # Nowhere => lastip \in been[Shown + 1]
=============================================================================
