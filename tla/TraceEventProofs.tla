-------------------------- MODULE TraceEventProofs --------------------------
(***************************************************************************)
(* Proofs that no assertion of the trace decoder fails and that every      *)
(* event it reports can be taken, for every stream a conforming encoder    *)
(* sends and every caller that takes the events it is told of.             *)
(***************************************************************************)
EXTENDS TraceConservationProofs

(***************************************************************************)
(* The hypothesis.  Branches and messages with TNT bits stay within the    *)
(* limits of check_msg: one that does not is handed to the caller, and     *)
(* what belongs to it (its repeat count, the bits behind an I-CNT          *)
(* ResourceFull) would be missing.                                         *)
(***************************************************************************)
InLimits == \A m \in Msgs : is_branch(m) \/ CarriesBits(m) => check_msg(m)

Conforming == WellFormed /\ Disciplined /\ ~TornEnd /\ InLimits

(***************************************************************************)
(* The inductive invariant.                                                *)
(***************************************************************************)
Live == pc # "idle" \/ Alive

Eventful(m) == is_branch(m) \/ is_sync(m) \/ is_stop(m)
IcntFull(m) == is_res(m) /\ m.code = 0

\* What the encoder rules say of a message by itself.
Regular(m) == /\ m.tcode \notin {"Idle", "ICT"}
              /\ is_res(m) => \/ m.code = 0 /\ m.icnt <= MSG_ICNT_MAX
                              \/ m.code \in {1, 2} /\ BitsOf(m) > 0
                              \/ m.code \in {8, 9} /\ QuirkSifive /\ m.icnt > 0

\* A rewound message was the last one to arrive.
AheadOK == \/ ahead = << >>
           \/ \E m \in Msgs : /\ ahead = <<m>> /\ Regular(m) /\ prev = m.tcode
                              /\ m.tcode # "RepeatBranch"
                              /\ IcntFull(m) => owing

\* Behind a branch that may be repeated one message is looked at, so that no
\* RepeatBranch and no Ownership is left to be buffered.
BranchOK == /\ pc = "lookahead" => ahead = << >> /\ prev = msg.tcode
            /\ Live /\ ahead = << >> /\ pc # "lookahead" => prev \notin Branches \ Syncs
            /\ synced /\ Live /\ ahead # << >> /\ ahead[1].tcode = "Ownership" =>
                  pc = "owner" \/ (msg_present /\ LooksAhead(msg) /\ is_indir_branch(msg))

\* What may be buffered.
MsgOK == /\ msg_present => /\ Regular(msg)
                           /\ is_branch(msg) /\ is_sync(msg) => msg.hrepeat = 0
         /\ Sound /\ msg_present => Eventful(msg) \/ is_error(msg) \/ is_res(msg)
         /\ ~synced /\ Live => /\ pc \notin {"lookahead", "got"} => ~msg_present
                               /\ pc = "got" => LooksAhead(msg) \/ ahead = << >>
         /\ pc = "error" => is_error(msg)

\* A message reported as unsupported is given back to the stream, and refused
\* again when it is fetched again.
AsideKept == pc = "idle" /\ ret.rc = "unsupported" =>
                ~msg_present /\ ahead # << >> /\ ~check_msg(ahead[1])

StreamOK == AheadOK /\ BranchOK /\ MsgOK /\ AsideKept

\* The last accumulated element has no TNT bits.
Loose == res_hists # << >> /\ res_hists[Len(res_hists)].hist = << >>

\* TNT bits follow a loose element before the next event does.
LooseOK ==
    /\ Sound /\ Loose => \/ msg_present /\ (is_error(msg) \/ CarriesBits(msg))
                         \/ owing /\ (msg_present => ~Eventful(msg))
    /\ Sound /\ ~msg_present /\ ahead # << >> =>
          (pc = "idle" /\ ret.rc = "unsupported") \/ res_hists = << >>
    /\ Sound /\ consumed_tnts # 0 /\ res_tnts = 0 => res_hists = << >>

\* Nothing is left in front of the event.
Clear == AvailableIcnt = 0 /\ AvailableTnts = 0

\* Where the accumulated elements are known.
PlaceOK == /\ Sound /\ msg_present /\ is_res(msg) =>
                 /\ pc = "got" /\ op \in {"try_retire", "next_tnt"} /\ ahead = << >>
                 /\ IcntFull(msg) => owing
           /\ pc = "owner" => res_hists = << >>
           /\ pc = "sync" => /\ synced /\ res_hists = << >> /\ Clear
                             /\ msg.tcode = "ProgTraceSync"

\* An element has TNT bits, or no HIST.
ElementsOK == \A i \in 1 .. Len(res_hists) :
                 res_hists[i].hist = << >> \/ hist_bits(res_hists[i].hist) > 0

ResOK == LooseOK /\ PlaceOK /\ ElementsOK

\* next_tnt will not get to an event of another kind.
Waits == AvailableIcnt > 0 \/ (msg_present /\ msg.tcode \in DirectBranches)

Ready(f) == /\ f \in {"next_indirect", "next_sync", "next_stop"}
                  => Clear
            /\ f = "next_tnt" => Waits \/ AvailableTnts # 0

\* What was reported stays true until it is taken.
EventOK == Sound =>
    /\ pc = "idle" /\ ret.op = "try_retire" /\ ret.rc \notin {"unsupported", "retry"}
          => \A f \in Takes(ret.event) : Ready(f)
    /\ pc \in {"loop", "fetch", "lookahead", "got"} => Ready(op)
    /\ pc \in {"fetch", "lookahead", "got"} /\ op = "next_tnt" => Waits
    /\ pc = "idle" /\ ret.op = "next_tnt" /\ ret.rc \in {"unsupported", "retry"} => Waits

-----------------------------------------------------------------------------

(***************************************************************************)
(* Messages.                                                               *)
(***************************************************************************)
\* Two messages that differ at most in address, time and repeat count.
LEMMA SameKind ==
  ASSUME NEW m, NEW k, k.tcode = m.tcode, k.code = m.code, k.icnt = m.icnt, k.hist = m.hist
  PROVE  /\ BitsOf(k) = BitsOf(m) /\ IcntOf(k) = IcntOf(m)
         /\ Regular(k) <=> Regular(m)
         /\ CarriesBits(k) <=> CarriesBits(m)
         /\ Eventful(k) <=> Eventful(m)
         /\ IcntFull(k) <=> IcntFull(m)
         /\ LooksAhead(k) <=> LooksAhead(m)
         /\ is_branch(k) <=> is_branch(m)
         /\ is_indir_branch(k) <=> is_indir_branch(m)
         /\ is_sync(k) <=> is_sync(m)
         /\ is_res(k) <=> is_res(m)
         /\ is_error(k) <=> is_error(m)
         /\ is_stop(k) <=> is_stop(m)
  <1>1. /\ is_branch(k) <=> is_branch(m)
        /\ is_indir_branch(k) <=> is_indir_branch(m)
        /\ is_sync(k) <=> is_sync(m)
        /\ is_res(k) <=> is_res(m)
        /\ is_error(k) <=> is_error(m)
        /\ is_stop(k) <=> is_stop(m)
    BY DEF is_branch, is_indir_branch, is_sync, is_res, is_error, is_stop
  <1>2. BitsOf(k) = BitsOf(m) /\ IcntOf(k) = IcntOf(m)
    BY <1>1 DEF BitsOf, IcntOf, has_hist, has_icnt
  <1> QED
    BY <1>1, <1>2 DEF Regular, CarriesBits, Eventful, IcntFull, LooksAhead

\* What check_msg accepts.
LEMMA Supported ==
  ASSUME NEW m
  PROVE  /\ m.tcode \in {"Error", "RepeatBranch", "Ownership"} => check_msg(m)
         /\ check_msg(m) => m.tcode \notin {"Vendor", "DataAcquisition"}
  BY DEF check_msg, known, is_data_acq, has_icnt, has_hist, is_res, is_stop, Branches,
         DirectBranches, IndirectBranches, HistBranches

\* Every supported regular message is of one of these kinds.
LEMMA Kept ==
  ASSUME NEW m \in Msgs, check_msg(m), Regular(m), m.tcode \notin {"RepeatBranch", "Ownership"}
  PROVE  Eventful(m) \/ is_error(m) \/ is_res(m)
  <1>1. m.tcode \in Tcodes
    BY DecoderAssumption DEF Messages
  <1> QED
    BY <1>1, Supported DEF Regular, Tcodes, Eventful, is_branch, is_sync, is_stop, is_error, is_res,
                           Syncs

\* What the encoder rules say of a message that arrives.
LEMMA Arrival ==
  ASSUME WellFormed, NEW m \in Msgs, Arrives(m)
  PROVE  /\ Regular(m) /\ prev' = m.tcode
         /\ IcntFull(m) => owing'
         /\ m.tcode = "RepeatBranch" => prev \in Branches \ Syncs
         /\ m.tcode = "Ownership" => prev \in IndirectBranches /\ (prev \notin Syncs \/ pc = "owner")
         /\ owing /\ Eventful(m) => CarriesBits(m)
         /\ owing /\ ~CarriesBits(m) /\ ~is_error(m) => owing'
  <1>1. EncoderRules(m) /\ prev' = m.tcode
    BY DEF Arrives
  <1>2. /\ IcntFull(m) => owing'
        /\ owing /\ ~CarriesBits(m) /\ ~is_error(m) => owing'
    BY DEF Arrives, IcntFull
  <1> QED
    BY <1>1, <1>2 DEF EncoderRules, Regular, Eventful

\* IndirectBranches that are no syncs are branches that are none.
LEMMA IndirectAreBranches == IndirectBranches \subseteq Branches
  BY DEF Branches

\* Where a message read with fetch_msg comes from, and where it goes.
Comes(m) ==
    /\ pc = "fetch" /\ ~msg_present /\ m \in Msgs
    /\ Regular(m) /\ prev' = m.tcode /\ m.tcode # "RepeatBranch"
    /\ IcntFull(m) => owing'
    /\ synced => m.tcode # "Ownership"
    /\ ahead = << >> => /\ owing /\ Eventful(m) => CarriesBits(m)
                        /\ owing /\ ~CarriesBits(m) /\ ~is_error(m) => owing'

Goes(m) ==
    /\ msg'.tcode = m.tcode /\ msg'.code = m.code /\ msg'.icnt = m.icnt /\ msg'.hist = m.hist
    /\ ~LooksAhead(m) => msg'.hrepeat = m.hrepeat
    /\ msg_present' = check_msg(m)
    /\ UNCHANGED <<synced, op, aborted, resVars, consumedVars>>
    /\ \/ /\ check_msg(m) /\ ahead' = << >> /\ ret' = ret
          /\ pc' = IF LooksAhead(m) THEN "lookahead" ELSE "got"
       \/ /\ ~check_msg(m) /\ ahead' = <<m>> /\ ret'.op = op /\ ret'.rc = "unsupported"
          /\ pc' = "idle"

\* A message read in fetch_msg is one that may come, and is buffered or handed
\* to the caller.
LEMMA Fetched ==
  ASSUME Conforming, StreamOK, FetchNew
  PROVE  \E m \in Msgs : Comes(m) /\ Goes(m)
  <1> USE DEF Return, Fail, Goto
  <1>1. PICK m \in Msgs :
           /\ TakeMsg(m)
           /\ msg' = IF LooksAhead(m) THEN [m EXCEPT !.hrepeat = 0] ELSE m
           /\ msg_present' = check_msg(m)
           /\ IF check_msg(m)
                 THEN /\ ahead' = << >>
                      /\ pc' = IF LooksAhead(m) THEN "lookahead" ELSE "got"
                      /\ UNCHANGED <<ret, aborted>>
                 ELSE /\ ahead' = <<m>>
                      /\ pc' = "idle" /\ ret' = [op |-> op, rc |-> "unsupported"] /\ aborted' = aborted
    BY DEF FetchNew
  <1>2. pc = "fetch" /\ ~msg_present /\ UNCHANGED <<synced, op, resVars, consumedVars>>
    BY DEF FetchNew, untouched, stateVars
  <1>3. Goes(m)
    <2>1. /\ msg'.tcode = m.tcode /\ msg'.code = m.code /\ msg'.icnt = m.icnt /\ msg'.hist = m.hist
          /\ ~LooksAhead(m) => msg'.hrepeat = m.hrepeat
      BY <1>1, MsgsFit DEF FitMessages, Messages
    <2>2. ~check_msg(m) => ret'.op = op /\ ret'.rc = "unsupported"
      BY <1>1
    <2> QED
      BY <1>1, <1>2, <2>1, <2>2 DEF Goes
  <1>4. CASE ahead = << >>
    <2>1. Arrives(m) /\ WellFormed
      BY <1>1, <1>4 DEF TakeMsg, Conforming
    <2>2. prev \notin Branches \ Syncs
      BY <1>2, <1>4 DEF StreamOK, BranchOK, Live
    <2>3. Comes(m)
      BY <1>2, <2>1, <2>2, Arrival, IndirectAreBranches DEF Comes
    <2> QED
      BY <1>3, <2>3
  <1>5. CASE ahead # << >>
    <2>1. m = ahead[1] /\ UNCHANGED <<prev, owing>>
      BY <1>1, <1>5 DEF TakeMsg
    <2>2. PICK k \in Msgs : /\ ahead = <<k>> /\ Regular(k) /\ prev = k.tcode
                            /\ k.tcode # "RepeatBranch" /\ (IcntFull(k) => owing)
      BY <1>5 DEF StreamOK, AheadOK
    <2>3. m = k
      BY <2>1, <2>2
    <2>4. synced => m.tcode # "Ownership"
      BY <1>2, <1>5, <2>1 DEF StreamOK, BranchOK, Live
    <2>5. Comes(m)
      BY <1>2, <1>5, <2>1, <2>2, <2>3, <2>4 DEF Comes
    <2> QED
      BY <1>3, <2>5
  <1> QED
    BY <1>4, <1>5

\* The message read behind a branch.
LEMMA LookedAt ==
  ASSUME Conforming, IInv, StreamOK, LookAhead
  PROVE  /\ pc = "lookahead" /\ pc' = "got" /\ msg_present /\ msg_present' /\ LooksAhead(msg)
         /\ UNCHANGED <<synced, op, ret, aborted, resVars, consumedVars>>
         /\ msg'.tcode = msg.tcode /\ msg'.code = msg.code /\ msg'.icnt = msg.icnt
         /\ msg'.hist = msg.hist
         /\ \E m \in Msgs :
              /\ Regular(m) /\ prev' = m.tcode /\ (IcntFull(m) => owing')
              /\ m.tcode = "Ownership" => is_indir_branch(msg)
              /\ ahead' = IF m.tcode = "RepeatBranch" THEN << >> ELSE <<m>>
  <1>1. /\ pc = "lookahead" /\ pc' = "got" /\ msg_present' = msg_present
        /\ UNCHANGED <<synced, op, ret, aborted, resVars, consumedVars>>
    BY DEF LookAhead, Goto, untouched, stateVars
  <1>2. msg_present /\ LooksAhead(msg) /\ msg \in FitMessages
    BY <1>1 DEF IInv, ControlOK, DataOK
  <1>3. ahead = << >> /\ prev = msg.tcode
    BY <1>1 DEF StreamOK, BranchOK
  <1>4. PICK m \in Msgs :
           /\ TakeMsg(m)
           /\ ahead' = IF m.tcode = "RepeatBranch" THEN << >> ELSE <<m>>
           /\ msg' = IF m.tcode = "RepeatBranch" THEN [msg EXCEPT !.hrepeat = m.hrepeat] ELSE msg
    BY DEF LookAhead
  <1>5. Arrives(m) /\ WellFormed
    BY <1>3, <1>4 DEF TakeMsg, Conforming
  <1>6. /\ Regular(m) /\ prev' = m.tcode /\ (IcntFull(m) => owing')
        /\ m.tcode = "Ownership" => prev \in IndirectBranches
    BY <1>5, Arrival
  <1>7. m.tcode = "Ownership" => is_indir_branch(msg)
    BY <1>3, <1>6 DEF is_indir_branch
  <1>8. /\ msg'.tcode = msg.tcode /\ msg'.code = msg.code /\ msg'.icnt = msg.icnt
        /\ msg'.hist = msg.hist
    BY <1>2, <1>4 DEF FitMessages, Messages
  <1> QED
    BY <1>1, <1>2, <1>4, <1>6, <1>7, <1>8

-----------------------------------------------------------------------------
(***************************************************************************)
(* The assertions.                                                         *)
(***************************************************************************)
\* The counters of TNT bits do not wrap, and tell which elements are left.
LEMMA BitsLeft ==
  ASSUME IInv, TntOwed, TntsFit, ElementsOK, Sound, msg_present => Counted
  PROVE  /\ AvailableTnts \in Nat
         /\ AvailableTnts = 0 =>
               res_tnts = 0 /\ consumed_tnts = IF msg_present THEN BitsOf(msg) ELSE 0
         /\ AvailableTnts # 0 /\ res_tnts = 0 => msg_present /\ consumed_tnts < BitsOf(msg)
         /\ res_tnts = 0 => \A i \in 1 .. Len(res_hists) : res_hists[i].hist = << >>
         /\ res_tnts # 0 => /\ res_hists # << >>
                            /\ hist_bits(res_hists[1].hist) <= res_tnts
                            /\ consumed_tnts # 0 => consumed_tnts < hist_bits(res_hists[1].hist)
  <1> DEFINE b == IF msg_present THEN BitsOf(msg) ELSE 0
  <1>0. res_tnts \in Nat /\ consumed_tnts \in Nat /\ UINT32_MAX \in Nat
    BY DecoderAssumption DEF IInv, TntOK
  <1>1. b \in Nat /\ MsgTnts \in Nat /\ b <= MsgTnts
    <2>1. BitsOf(msg) \in Nat /\ BitsOf(msg) * Executions(msg) \in Nat
          /\ BitsOf(msg) <= BitsOf(msg) * Executions(msg)
      BY MessageTnts DEF IInv, DataOK
    <2>2. Counted => msg_present
      BY DEF Counted
    <2> QED
      BY <2>1, <2>2 DEF MsgTnts
  <1>2. Len(owedTnts) + consumed_tnts = res_tnts + MsgTnts /\ PartUsed
    BY DEF TntOwed
  <1>3. res_tnts + MsgTnts <= UINT32_MAX
    BY <1>2 DEF TntsFit
  <1>4. res_tnts + b \in 0 .. UINT32_MAX
    <2> HIDE DEF b
    <2> QED
      BY <1>0, <1>1, <1>3
  <1>5. AvailableTnts = res_tnts + b - consumed_tnts
    <2>1. Wrap(res_tnts + b) = res_tnts + b
      <3> HIDE DEF b
      <3> QED
        BY <1>0, <1>4, WrapRange
    <2>2. AvailableTnts = Wrap(res_tnts + b) - consumed_tnts
      BY Zenon DEF AvailableTnts
    <2> HIDE DEF b
    <2> QED
      BY <1>0, <1>1, <1>4, <2>1, <2>2
  <1>6. PICK P : Offsets(P)
    BY DEF TntOwed
  <1>7. ASSUME NEW i \in 1 .. Len(res_hists)
        PROVE  ElementTnts(res_hists[i]) <= res_tnts /\ hist_bits(res_hists[i].hist) <= res_tnts
    <2>1. /\ Len(res_hists) \in Nat /\ ElementTnts(res_hists[i]) \in Nat
          /\ hist_bits(res_hists[i].hist) \in Nat
          /\ hist_bits(res_hists[i].hist) <= ElementTnts(res_hists[i])
      BY Elements
    <2>2. i - 1 \in 0 .. Len(res_hists) /\ i \in 0 .. Len(res_hists)
      BY <2>1
    <2>3. P[i - 1] \in Nat /\ P[i] = P[i - 1] + ElementTnts(res_hists[i]) /\ P[i] <= res_tnts
      BY <1>6, <2>2 DEF Offsets
    <2> QED
      BY <1>0, <2>1, <2>3
  <1>8. res_tnts = 0 => \A i \in 1 .. Len(res_hists) : res_hists[i].hist = << >>
    BY <1>7, Elements DEF ElementsOK
  <1>9. ASSUME res_tnts # 0
        PROVE  /\ res_hists # << >>
               /\ hist_bits(res_hists[1].hist) <= res_tnts
               /\ consumed_tnts # 0 => consumed_tnts < hist_bits(res_hists[1].hist)
    <2>1. res_hists # << >>
      <3>1. res_hists = << >> => Len(res_hists) = 0
        OBVIOUS
      <3> QED
        BY <1>6, <1>9, <3>1 DEF Offsets
    <2> QED
      BY <1>2, <1>7, <1>9, <2>1, Elements DEF PartUsed
  <1>10. consumed_tnts <= res_tnts + b /\ (consumed_tnts = res_tnts + b => res_tnts = 0)
    <2>1. CASE res_tnts # 0
      <3>1. consumed_tnts < res_tnts
        <4>1. hist_bits(res_hists[1].hist) \in Nat
          BY <1>9, <2>1, Elements
        <4> QED
          BY <1>0, <1>9, <2>1, <4>1
      <3> HIDE DEF b
      <3> QED
        BY <1>0, <1>1, <3>1
    <2>2. CASE res_tnts = 0
      <3>1. consumed_tnts # 0 => consumed_tnts <= b
        <4>1. Counted => msg_present
          BY DEF Counted
        <4> QED
          BY <1>2, <2>2, <4>1 DEF PartUsed
      <3> HIDE DEF b
      <3> QED
        BY <1>0, <1>1, <2>2, <3>1
    <2> QED
      BY <2>1, <2>2
  <1>11. /\ AvailableTnts \in Nat
         /\ AvailableTnts = 0 => res_tnts = 0 /\ consumed_tnts = b
         /\ AvailableTnts # 0 /\ res_tnts = 0 => b # 0 /\ consumed_tnts < b
    <2> HIDE DEF b
    <2> QED
      BY <1>0, <1>1, <1>5, <1>10
  <1> QED
    BY <1>8, <1>9, <1>11

\* Nothing accumulated is left in front of an event.
LEMMA NothingLeft ==
  ASSUME IInv, TntOwed, TntsFit, ResOK, Sound, Counted, Eventful(msg), AvailableTnts = 0
  PROVE  res_hists = << >>
  <1> SUFFICES ASSUME res_hists # << >> PROVE FALSE
    OBVIOUS
  <1>1. /\ res_tnts = 0 /\ consumed_tnts = BitsOf(msg)
        /\ \A i \in 1 .. Len(res_hists) : res_hists[i].hist = << >>
    BY BitsLeft DEF ResOK, Counted
  <1>2. Len(res_hists) \in 1 .. Len(res_hists)
    BY Elements
  <1>3. Loose
    BY <1>1, <1>2 DEF Loose
  <1>4. consumed_tnts = 0
    BY <1>1 DEF ResOK, LooseOK
  <1>5. ~is_error(msg) /\ ~is_res(msg)
    BY DEF Counted, Eventful, is_error, is_res, is_branch, is_sync, is_stop, Branches, DirectBranches,
           IndirectBranches, HistBranches, Syncs
  <1>6. CarriesBits(msg)
    BY <1>3, <1>5 DEF ResOK, LooseOK, Counted
  <1> QED
    BY <1>1, <1>4, <1>5, <1>6 DEF CarriesBits

\* Where the functions look at the buffered message no assertion fails.
LEMMA NoAssert ==
  ASSUME IInv, TntOwed, TntsFit, StreamOK, ResOK, Sound,
         pc \in {"loop", "sync", "drain"} \/ (pc = "got" /\ op \notin {"try_retire", "next_tnt"})
  PROVE  /\ msg_present => Counted
         /\ ResAssert = "none" /\ IcntAssert = "none" /\ TntsAssert = "none"
         /\ msg_present => EventAssert = "none"
         /\ msg_present /\ Eventful(msg) /\ Clear => RetireAssert = "none"
  <1>1. msg_present => ~is_res(msg)
    BY DEF ResOK, PlaceOK
  <1>2. msg_present => Counted
    BY <1>1 DEF Counted
  <1>3. ResAssert = "none"
    BY <1>1 DEF ResAssert
  <1>4. pc # "idle"
    OBVIOUS
  <1>5. IcntAssert = "none"
    BY <1>3, <1>4, PossibleAborts
  <1>6. /\ AvailableTnts \in Nat
        /\ AvailableTnts = 0 =>
              res_tnts = 0 /\ consumed_tnts = IF msg_present THEN BitsOf(msg) ELSE 0
    BY <1>2, BitsLeft DEF ResOK
  <1>7. TntsAssert = "none"
    BY <1>3, <1>6 DEF TntsAssert
  <1>8. msg_present => EventAssert = "none"
    BY <1>6, <1>7 DEF EventAssert
  <1>9. ASSUME msg_present, Eventful(msg), Clear PROVE RetireAssert = "none"
    <2>1. AvailableIcnt = 0 /\ AvailableTnts = 0
      BY <1>9 DEF Clear
    <2>2. res_hists = << >>
      BY <1>2, <1>9, <2>1, NothingLeft
    <2>3. consumed_tnts = BitsOf(msg)
      BY <1>6, <1>9, <2>1
    <2>4. RetireAssert \in {"none", "retire_res_hists", "retire_tnts", "retire_hrepeat"}
      BY <1>3, <1>4, <1>9, <2>1, PossibleAborts
    <2>5. ~(is_branch(msg) /\ is_sync(msg) /\ msg.hrepeat # 0)
      BY <1>9 DEF StreamOK, MsgOK
    <2>6. RetireAssert \notin {"retire_res_hists", "retire_tnts", "retire_hrepeat"}
      BY <2>2, <2>3, <2>5 DEF RetireAssert
    <2> QED
      BY <2>4, <2>6
  <1> QED
    BY <1>2, <1>3, <1>5, <1>7, <1>8, <1>9

\* What the caller asks for is there.
LEMMA NoRefusal ==
  ASSUME IInv, TntOwed, TntsFit, StreamOK, ResOK, Sound, msg_present, Eventful(msg), Clear,
         pc = "sync" \/ (pc = "got" /\ op \notin {"try_retire", "next_tnt"}), NEW pending, pending
  PROVE  Refusal(pending) = "none"
  <1>1. IcntAssert = "none" /\ TntsAssert = "none" /\ RetireAssert = "none"
    BY NoAssert
  <1>2. AvailableIcnt = 0 /\ AvailableTnts = 0
    BY DEF Clear
  <1> QED
    BY <1>1, <1>2 DEF Refusal

Inv == /\ IInv /\ DInv /\ DrainOK /\ TntOwed /\ TntsFit
       /\ StreamOK /\ ResOK /\ EventOK
       /\ AssertionsHold /\ EventsCanBeTaken

\* The events taken at a message.
LEMMA TakesEvents ==
  ASSUME Inv
  PROVE  /\ TakesIndirect => Sound /\ msg_present /\ Refusal(is_indir_branch(msg)) = "none"
         /\ (pc = "got" /\ op = "next_sync") \/ pc = "sync" =>
               /\ Sound /\ msg_present /\ is_sync(msg) /\ Clear
               /\ is_branch(msg) => /\ pc = "got" /\ op = "next_sync"
                                    /\ Refusal(is_sync(msg) /\ ~is_branch(msg)) = "mismatch"
               /\ ~is_branch(msg) => Refusal(is_sync(msg) /\ ~is_branch(msg)) = "none"
         /\ pc = "got" /\ op = "next_stop" =>
               Sound /\ msg_present /\ Refusal(is_stop(msg)) = "none"
         /\ pc = "got" /\ op = "next_error" => is_error(msg)
  <1>0. IInv /\ TntOwed /\ TntsFit /\ StreamOK /\ ResOK
    BY DEF Inv
  <1>1. ASSUME pc = "got", op \in {"next_indirect", "next_sync", "next_stop", "next_error"}
        PROVE  Sound /\ msg_present /\ Held(op) /\ (op # "next_error" => Clear)
    <2>1. Sound /\ msg_present
      BY <1>1, <1>0 DEF IInv, ControlOK, Sound
    <2>2. Held(op)
      BY <1>1 DEF Inv, DInv, Heeds
    <2>3. Ready(op)
      BY <1>1, <2>1 DEF Inv, EventOK
    <2> QED
      BY <1>1, <2>1, <2>2, <2>3 DEF Ready
  <1>2. CASE TakesIndirect
    <2>1. pc = "got" /\ op = "next_indirect" /\ is_indir_branch(msg)
      BY <1>1, <1>2 DEF TakesIndirect, Held
    <2>2. Eventful(msg)
      BY <2>1, BranchKinds DEF Eventful
    <2> QED
      BY <1>0, <1>1, <2>1, <2>2, NoRefusal
  <1>3. CASE pc = "got" /\ op = "next_sync"
    <2>1. is_sync(msg) /\ Clear
      BY <1>1, <1>3 DEF Held
    <2>2. Eventful(msg)
      BY <2>1 DEF Eventful
    <2>3. ~is_branch(msg) => Refusal(is_sync(msg) /\ ~is_branch(msg)) = "none"
      BY <1>0, <1>1, <1>3, <2>1, <2>2, NoRefusal
    <2>4. IcntAssert = "none" /\ TntsAssert = "none" /\ AvailableIcnt = 0 /\ AvailableTnts = 0
      BY <1>0, <1>1, <1>3, <2>1, NoAssert DEF Clear
    <2>5. is_branch(msg) => Refusal(is_sync(msg) /\ ~is_branch(msg)) = "mismatch"
      BY <2>4 DEF Refusal
    <2> QED
      BY <1>1, <1>3, <2>1, <2>3, <2>5 DEF TakesIndirect
  <1>4. CASE pc = "sync"
    <2>1. /\ Sound /\ Clear /\ msg_present /\ is_sync(msg) /\ ~is_branch(msg)
      BY <1>0, <1>4, BranchKinds DEF ResOK, PlaceOK, IInv, ControlOK, Sound
    <2>2. Eventful(msg)
      BY <2>1 DEF Eventful
    <2>3. Refusal(is_sync(msg) /\ ~is_branch(msg)) = "none"
      BY <1>0, <1>4, <2>1, <2>2, NoRefusal
    <2> QED
      BY <1>4, <2>1, <2>3 DEF TakesIndirect
  <1>5. CASE pc = "got" /\ op = "next_stop"
    <2>1. is_stop(msg)
      BY <1>1, <1>5 DEF Held
    <2>2. Eventful(msg)
      BY <2>1 DEF Eventful
    <2> QED
      BY <1>0, <1>1, <1>5, <2>1, <2>2, NoRefusal DEF TakesIndirect
  <1>6. pc = "got" /\ op = "next_error" => is_error(msg)
    BY <1>1 DEF Held
  <1> QED
    BY <1>2, <1>3, <1>4, <1>5, <1>6

\* next_sync takes the sync it was called for,
LEMMA SyncTaken ==
  ASSUME Inv, NextSync, ~is_branch(msg)
  PROVE  Sound /\ msg_present /\ is_sync(msg) /\ Refusal(is_sync(msg) /\ ~is_branch(msg)) = "none"
  BY TakesEvents DEF NextSync

\* or leaves a branch as it is.
LEMMA SyncDeclined ==
  ASSUME Inv, NextSync, is_branch(msg)
  PROVE  /\ Sound /\ synced /\ pc = "got" /\ op = "next_sync" /\ msg_present /\ Clear
         /\ is_sync(msg) /\ ~is_res(msg) /\ pc' = "idle" /\ aborted' = aborted
         /\ ret' = [op |-> "next_sync", rc |-> "mismatch"]
         /\ UNCHANGED <<msg, msg_present, consumedVars, stateVars, timestamp, resVars, op, arg, more,
                        streamVars, historyVars>>
  <1>1. /\ Sound /\ pc = "got" /\ op = "next_sync" /\ msg_present /\ Clear /\ is_sync(msg)
        /\ Refusal(is_sync(msg) /\ ~is_branch(msg)) = "mismatch"
    BY TakesEvents DEF NextSync
  <1>2. ~is_res(msg) /\ synced
    BY <1>1, BranchKinds DEF Sound
  <1>3. Refuse("mismatch")
    BY <1>1 DEF NextSync
  <1>4. /\ pc' = "idle" /\ aborted' = aborted /\ ret' = [op |-> op, rc |-> "mismatch"]
        /\ UNCHANGED <<msg, msg_present, consumedVars, stateVars, timestamp>>
    BY <1>3 DEF Refuse, Fail, Return
  <1> QED
    BY <1>1, <1>2, <1>4 DEF NextSync

\* No step fails an assertion, or refuses an event that was reported, except
\* for the sync of a branch.
LEMMA NoAbort == Conforming /\ Inv /\ [Next]_vars => AssertionsHold' /\ EventsCanBeTaken'
  <1> SUFFICES ASSUME Conforming, Inv, [Next]_vars PROVE AssertionsHold' /\ EventsCanBeTaken'
    OBVIOUS
  <1> USE DEF Return, Fail, Abort, Goto
  <1>0. /\ IInv /\ DInv /\ DrainOK /\ TntOwed /\ TntsFit /\ StreamOK /\ ResOK /\ EventOK
        /\ aborted = "none"
    BY DEF Inv, AssertionsHold
  <1>u. aborted' = aborted /\ (pc' # "idle" \/ ret'.rc # "mismatch") => AssertionsHold' /\ EventsCanBeTaken'
    BY <1>0 DEF AssertionsHold, EventsCanBeTaken
  <1>1. ASSUME NEW f, NEW n, Call(f, n) PROVE AssertionsHold' /\ EventsCanBeTaken'
    <2>1. /\ aborted' = aborted
          /\ pc' # "idle" \/ ret' = [op |-> f, rc |-> IF synced THEN "synced" ELSE "not_synced"]
      BY <1>1 DEF Call
    <2>2. pc' # "idle" \/ ret'.rc # "mismatch"
      BY <2>1
    <2> QED
      BY <1>u, <2>1, <2>2
  <1>2. CASE TakeUnsupported
    <2>1. aborted' = aborted /\ (ret' = [ret EXCEPT !.rc = "retry"] \/ ret' = [ret EXCEPT !.rc = "eof"])
          /\ ret.rc = "unsupported"
      BY <1>2 DEF TakeUnsupported
    <2>2. ret'.rc # "mismatch"
      <3>1. CASE ret' = [ret EXCEPT !.rc = "retry"]
        BY <2>1, <3>1
      <3>2. CASE ret' = [ret EXCEPT !.rc = "eof"]
        BY <2>1, <3>2
      <3> QED
        BY <2>1, <3>1, <3>2
    <2> QED
      BY <1>u, <2>1, <2>2
  <1>3. CASE StackCalls \/ Stopped \/ UNCHANGED vars
    <2>1. UNCHANGED <<res_icnt, res_tnts, consumed_icnt, consumed_tnts, msg, msg_present, pc, ret, aborted>>
      BY <1>3 DEF StackCalls, PushCall, PopRet, Stopped, vars, resVars, consumedVars
    <2>2. AvailableIcnt' = AvailableIcnt /\ AvailableTnts' = AvailableTnts
      BY <2>1 DEF AvailableIcnt, AvailableTnts
    <2> QED
      BY <1>0, <2>1, <2>2 DEF Inv, AssertionsHold, EventsCanBeTaken
  <1>4. CASE Fetches
    BY <1>4, <1>u DEF Fetches, FetchExisting, FetchNew, LookAhead, LookAheadEnd, FetchEnd, FetchError
  <1>5. CASE PullKeeps \/ PullRes
    BY <1>5, <1>u DEF PullKeeps, PullRes
  <1>6. CASE PullFails
    <2>1. PullError # "mismatch"
      BY DEF PullError
    <2> QED
      BY <1>6, <1>u, <2>1 DEF PullFails
  <1>7. CASE pc = "loop"
    <2>0. Sound
      BY <1>0, <1>7 DEF DrainOK, IInv, ControlOK, Sound
    <2>1. /\ ResAssert = "none" /\ IcntAssert = "none" /\ TntsAssert = "none"
          /\ msg_present => EventAssert = "none"
          /\ msg_present /\ Eventful(msg) /\ Clear => RetireAssert = "none"
      BY <1>0, <1>7, <2>0, NoAssert
    <2>2. /\ \A n \in Nat : n <= AvailableIcnt => ConsumeAssert(n) = "none"
          /\ AvailableIcnt \in Nat /\ arg \in Nat /\ (~more => msg_present)
      BY <1>0, <1>7, <2>1, PossibleAborts, Available DEF IInv, DataOK, ControlOK
    <2>3. CASE RetireSome
      <3>1. ConsumeAssert(arg) = "none"
        BY <2>2, <2>3 DEF RetireSome
      <3> QED
        BY <1>u, <2>3, <3>1 DEF RetireSome, RetireReturns
    <2>4. CASE RetirePulls
      BY <1>u, <2>1, <2>4 DEF RetirePulls
    <2>5. CASE RetireAll
      <3>1. ConsumeAssert(AvailableIcnt) = "none" /\ EventAssert = "none"
        BY <2>1, <2>2, <2>5 DEF RetireAll
      <3> QED
        BY <1>u, <2>5, <3>1 DEF RetireAll, RetireReturns
    <2>6. CASE TntSeeks
      BY <1>u, <2>1, <2>6 DEF TntSeeks
    <2>7. CASE TntFromBranch
      <3>1. op = "next_tnt" /\ AvailableTnts = 0 /\ msg_present
        BY <2>2, <2>7 DEF TntFromBranch, Branching
      <3>2. Waits
        BY <1>0, <1>7, <2>0, <3>1 DEF EventOK, Ready
      <3>3. CASE AvailableIcnt = 0
        <4>1. msg.tcode \in DirectBranches /\ Eventful(msg) /\ Clear
          BY <3>1, <3>2, <3>3, BranchKinds DEF Waits, Eventful, Clear
        <4>2. RetireAssert = "none"
          BY <2>1, <3>1, <4>1
        <4> QED
          BY <1>u, <2>7, <3>3, <4>1, <4>2 DEF TntFromBranch
      <3>4. CASE AvailableIcnt # 0
        <4>1. AvailableIcnt > 0
          BY <2>2, <3>4
        <4>2. aborted' = aborted /\ ret' = [op |-> op, rc |-> "ok", tnt |-> 0]
          BY <2>1, <2>7, <3>4, <4>1 DEF TntFromBranch
        <4> QED
          BY <1>u, <4>2
      <3> QED
        BY <3>3, <3>4
    <2> QED
      BY <1>7, <1>1, <1>2, <1>3, <1>4, <1>5, <1>6, <2>3, <2>4, <2>5, <2>6, <2>7
      DEF Next, Calls, Steps, DrainEmpty, TntFromMsg, TntFromElement, Drained, NextIndirect, TakesIndirect,
          Owner, OwnerEnd, SyncSkip, SyncFound, NextSync, NextStop, ErrorDrops, ErrorDrains, ErrorRetires
  <1>8. CASE pc = "drain"
    <2>0. Sound /\ op = "next_tnt" /\ AvailableTnts # 0
      BY <1>0, <1>8 DEF DrainOK, IInv, ControlOK, Sound
    <2>1. msg_present => Counted
      BY <1>0, <1>8, <2>0, NoAssert
    <2>2. /\ res_tnts = 0 => msg_present /\ consumed_tnts < BitsOf(msg)
          /\ res_tnts # 0 => /\ res_hists # << >>
                             /\ hist_bits(res_hists[1].hist) <= res_tnts
                             /\ consumed_tnts # 0 => consumed_tnts < hist_bits(res_hists[1].hist)
      BY <1>0, <2>0, <2>1, BitsLeft DEF ResOK
    <2>3. consumed_tnts \in Nat /\ res_tnts \in Nat /\ BitsOf(msg) \in Nat
      BY <1>0, MessageTnts, DecoderAssumption DEF IInv, TntOK, DataOK
    <2>4. CASE DrainEmpty
      BY <1>u, <2>4 DEF DrainEmpty
    <2>5. CASE TntFromMsg
      <3>1. ~(~msg_present \/ BitsOf(msg) <= consumed_tnts)
        BY <2>2, <2>3, <2>5 DEF TntFromMsg
      <3> QED
        BY <1>u, <2>5, <3>1 DEF TntFromMsg, Deliver
    <2>6. CASE TntFromElement
      <3>1. res_tnts # 0 /\ res_hists # << >> /\ res_hists[1].hist # << >>
        BY <2>2, <2>6 DEF TntFromElement, Drained, EmptyInFront
      <3>2. 1 \in 1 .. Len(res_hists) /\ hist_bits(res_hists[1].hist) \in Nat
        BY <1>0, <3>1, Elements
      <3>3. hist_bits(res_hists[1].hist) > 0
        BY <1>0, <3>1, <3>2 DEF ResOK, ElementsOK
      <3>4. ~(\/ res_hists = << >>
              \/ hist_bits(res_hists[1].hist) <= consumed_tnts
              \/ /\ hist_bits(res_hists[1].hist) = consumed_tnts + 1
                 /\ res_tnts < hist_bits(res_hists[1].hist))
        BY <2>2, <2>3, <3>1, <3>2, <3>3
      <3>5. aborted' = aborted /\ ret' = [op |-> op, rc |-> "ok", tnt |-> TntAt(res_hists[1].hist, consumed_tnts)]
        BY <2>6, <3>4 DEF TntFromElement, Deliver
      <3> QED
        BY <1>u, <3>5
    <2> QED
      BY <1>8, <1>1, <1>2, <1>3, <1>4, <1>5, <1>6, <2>4, <2>5, <2>6
      DEF Next, Calls, Steps, RetireSome, RetirePulls, RetireAll, Retiring, TntSeeks, TntFromBranch,
          Branching, NextIndirect, TakesIndirect, Owner, OwnerEnd, SyncSkip, SyncFound, NextSync,
          NextStop, ErrorDrops, ErrorDrains, ErrorRetires
  <1>9. CASE NextIndirect
    <2>1. Refusal(is_indir_branch(msg)) = "none"
      BY <1>9, TakesEvents DEF NextIndirect
    <2>2. aborted' = aborted /\ ret'.rc = "ok"
      BY <1>9, <2>1 DEF NextIndirect
    <2> QED
      BY <1>u, <2>2
  <1>10. CASE NextSync
    <2>1. CASE ~is_branch(msg)
      <3>1. aborted' = aborted /\ ret'.rc = "ok"
        BY <1>10, <2>1, SyncTaken DEF NextSync
      <3> QED
        BY <1>u, <3>1
    <2>2. CASE is_branch(msg)
      <3>1. /\ msg_present /\ Clear /\ is_sync(msg) /\ aborted' = aborted /\ ret'.op = "next_sync"
            /\ UNCHANGED <<res_icnt, res_tnts, consumed_icnt, consumed_tnts, msg, msg_present>>
        BY <1>10, <2>2, SyncDeclined DEF resVars, consumedVars
      <3>2. AvailableIcnt' = AvailableIcnt /\ AvailableTnts' = AvailableTnts
        BY <3>1 DEF AvailableIcnt, AvailableTnts
      <3> QED
        BY <1>0, <2>2, <3>1, <3>2 DEF AssertionsHold, EventsCanBeTaken, Clear
    <2> QED
      BY <2>1, <2>2
  <1>11. CASE NextStop
    <2>1. Refusal(is_stop(msg)) = "none"
      BY <1>11, TakesEvents DEF NextStop
    <2>2. aborted' = aborted /\ ret'.rc = "ok"
      BY <1>11, <2>1 DEF NextStop
    <2> QED
      BY <1>u, <2>2
  <1>12. CASE Owner \/ OwnerEnd
    <2>1. pc = "owner" /\ aborted' = aborted /\ \E b : ret' = [ret EXCEPT !.ownership = b]
      BY <1>12 DEF Owner, OwnerEnd
    <2>2. PICK b : ret' = [ret EXCEPT !.ownership = b]
      BY <2>1
    <2>3. ret'.rc = ret.rc /\ ret.rc = "ok"
      BY <1>0, <2>1, <2>2 DEF DInv, OpOK
    <2> QED
      BY <1>u, <2>1, <2>3
  <1>13. CASE SyncSkip \/ SyncFound \/ ErrorDrains \/ ErrorRetires
    BY <1>13, <1>u DEF SyncSkip, SyncFound, ErrorDrains, ErrorRetires
  <1>14. CASE ErrorDrops
    <2>1. is_error(msg)
      BY <1>14, TakesEvents DEF ErrorDrops
    <2> QED
      BY <1>14, <1>u, <2>1 DEF ErrorDrops
  <1> QED
    BY <1>1, <1>2, <1>3, <1>4, <1>5, <1>6, <1>7, <1>8, <1>9, <1>10, <1>11, <1>12, <1>13, <1>14
    DEF Next, Calls, Steps, RetireSome, RetirePulls, RetireAll, Retiring, TntSeeks, TntFromBranch,
        Branching, DrainEmpty, TntFromMsg, TntFromElement, Drained

-----------------------------------------------------------------------------
(***************************************************************************)
(* The step of StreamOK.                                                   *)
(***************************************************************************)
\* Steps that leave stream and message alone.
StreamFrame ==
    /\ UNCHANGED <<ahead, prev, owing, msg, msg_present, synced>>
    /\ pc \notin {"lookahead", "owner"} /\ pc' # "lookahead"
    /\ Live /\ (Sound' => Sound)
    /\ synced \/ (pc # "got" /\ pc' # "got")
    /\ pc' = "error" => is_error(msg)
    /\ pc' = "idle" /\ ret'.rc = "unsupported" => pc = "idle" /\ ret.rc = "unsupported"

\* Steps that end the decoding.
StreamEnd ==
    /\ UNCHANGED <<ahead, prev, owing, msg, msg_present>>
    /\ pc' = "idle" /\ ~Alive' /\ ret'.rc # "unsupported"

\* Both keep StreamOK.
LEMMA StreamKept ==
  ASSUME StreamOK, StreamFrame \/ StreamEnd
  PROVE  StreamOK'
  <1>1. CASE StreamFrame
    <2>1. AheadOK'
      BY <1>1 DEF StreamOK, AheadOK, StreamFrame
    <2>2. BranchOK'
      BY <1>1 DEF StreamOK, BranchOK, StreamFrame
    <2>3. MsgOK'
      BY <1>1 DEF StreamOK, MsgOK, StreamFrame
    <2>4. AsideKept'
      BY <1>1 DEF StreamOK, AsideKept, StreamFrame
    <2> QED
      BY <2>1, <2>2, <2>3, <2>4 DEF StreamOK
  <1>2. CASE StreamEnd
    <2>0. ~Live' /\ ~Sound'
      BY <1>2 DEF StreamEnd, Live, Sound
    <2>1. AheadOK'
      BY <1>2 DEF StreamOK, AheadOK, StreamEnd
    <2>2. BranchOK'
      BY <1>2, <2>0 DEF BranchOK, StreamEnd
    <2>3. MsgOK'
      BY <1>2, <2>0 DEF StreamOK, MsgOK, StreamEnd
    <2>4. AsideKept'
      BY <1>2 DEF AsideKept, StreamEnd
    <2> QED
      BY <2>1, <2>2, <2>3, <2>4 DEF StreamOK
  <1> QED
    BY <1>1, <1>2

\* A fetched message.
LEMMA StreamFetchNew ==
  ASSUME Conforming, IInv, StreamOK, FetchNew
  PROVE  StreamOK'
  <1>1. PICK m \in Msgs : Comes(m) /\ Goes(m)
    BY Fetched
  <1>2. /\ BitsOf(msg') = BitsOf(m)
        /\ Regular(msg') <=> Regular(m)
        /\ Eventful(msg') <=> Eventful(m)
        /\ LooksAhead(msg') <=> LooksAhead(m)
        /\ is_branch(msg') <=> is_branch(m)
        /\ is_sync(msg') <=> is_sync(m)
        /\ is_res(msg') <=> is_res(m)
        /\ is_error(msg') <=> is_error(m)
    BY <1>1, SameKind DEF Goes
  <1>3. AheadOK'
    BY <1>1 DEF AheadOK, Comes, Goes
  <1>4. BranchOK'
    <2>1. pc' = "lookahead" => ahead' = << >> /\ prev' = msg'.tcode
      BY <1>1 DEF Comes, Goes
    <2>2. ahead' = << >> /\ pc' # "lookahead" => prev' \notin Branches \ Syncs
      BY <1>1 DEF Comes, Goes, LooksAhead, is_branch, is_sync
    <2>3. synced' /\ ahead' # << >> => ahead'[1].tcode # "Ownership"
      BY <1>1 DEF Comes, Goes
    <2> QED
      BY <2>1, <2>2, <2>3 DEF BranchOK
  <1>5. MsgOK'
    <2>1. msg_present' => Regular(msg')
      BY <1>1, <1>2 DEF Comes
    <2>2. is_branch(msg') /\ is_sync(msg') => msg'.hrepeat = 0
      <3>1. is_branch(m) => m.hrepeat = 0
        BY DecoderAssumption
      <3> QED
        BY <1>1, <1>2, <3>1 DEF Goes, LooksAhead
    <2>3. Sound' /\ msg_present' => Eventful(msg') \/ is_error(msg') \/ is_res(msg')
      <3>1. Sound' /\ msg_present' => synced /\ check_msg(m)
        BY <1>1 DEF Goes, Sound
      <3> QED
        BY <1>1, <1>2, <3>1, Kept DEF Comes
    <2>4. /\ pc' \notin {"lookahead", "got"} => ~msg_present'
          /\ pc' = "got" => LooksAhead(msg') \/ ahead' = << >>
          /\ pc' # "error"
      BY <1>1 DEF Goes
    <2> QED
      BY <2>1, <2>2, <2>3, <2>4 DEF MsgOK
  <1>6. AsideKept'
    <2>1. pc' = "idle" => ~check_msg(m) /\ ahead' = <<m>>
      BY <1>1 DEF Goes
    <2>2. ~check_msg(m) => ~msg_present'
      BY <1>1 DEF Goes
    <2>3. ahead' = <<m>> => ahead' # << >> /\ ahead'[1] = m
      OBVIOUS
    <2> QED
      BY <2>1, <2>2, <2>3, Zenon DEF AsideKept
  <1> QED
    BY <1>3, <1>4, <1>5, <1>6 DEF StreamOK

\* The message behind a branch.
LEMMA StreamLookAhead ==
  ASSUME Conforming, IInv, StreamOK, LookAhead
  PROVE  StreamOK'
  <1>1. /\ pc = "lookahead" /\ pc' = "got" /\ msg_present /\ msg_present' /\ LooksAhead(msg)
        /\ UNCHANGED <<synced, op, ret, aborted>>
        /\ msg'.tcode = msg.tcode /\ msg'.code = msg.code /\ msg'.icnt = msg.icnt
        /\ msg'.hist = msg.hist
    BY LookedAt
  <1>2. PICK m \in Msgs :
           /\ Regular(m) /\ prev' = m.tcode /\ (IcntFull(m) => owing')
           /\ m.tcode = "Ownership" => is_indir_branch(msg)
           /\ ahead' = IF m.tcode = "RepeatBranch" THEN << >> ELSE <<m>>
    BY LookedAt
  <1>3. /\ Regular(msg') <=> Regular(msg)
        /\ Eventful(msg') <=> Eventful(msg)
        /\ LooksAhead(msg') <=> LooksAhead(msg)
        /\ is_indir_branch(msg') <=> is_indir_branch(msg)
    BY <1>1, SameKind
  <1>4. AheadOK'
    BY <1>2 DEF AheadOK
  <1>5. BranchOK'
    <2>1. ahead' = << >> => prev' \notin Branches \ Syncs
      <3>1. "RepeatBranch" \notin Branches
        BY DEF Branches, DirectBranches, IndirectBranches, HistBranches
      <3> QED
        BY <1>2, <3>1
    <2>2. ahead' # << >> /\ ahead'[1].tcode = "Ownership" =>
             msg_present' /\ LooksAhead(msg') /\ is_indir_branch(msg')
      BY <1>1, <1>2, <1>3
    <2> QED
      BY <1>1, <2>1, <2>2 DEF BranchOK
  <1>6. MsgOK'
    <2>1. Regular(msg')
      BY <1>1, <1>3 DEF StreamOK, MsgOK
    <2>2. ~is_sync(msg') /\ Eventful(msg') /\ LooksAhead(msg')
      BY <1>1, <1>3 DEF LooksAhead, Eventful
    <2> QED
      BY <1>1, <2>1, <2>2 DEF MsgOK
  <1>7. AsideKept'
    BY <1>1 DEF AsideKept
  <1> QED
    BY <1>4, <1>5, <1>6, <1>7 DEF StreamOK

\* A message is retired.
LEMMA StreamRetires ==
  ASSUME IInv, StreamOK, NEW m \in FitMessages, NEW fa, Retires(m, fa),
         UNCHANGED <<ahead, prev, owing, synced>>, pc # "lookahead",
         pc' \in {"idle", "owner"}, ret'.rc = "ok",
         is_indir_branch(msg) => pc' = "owner", pc # "owner"
  PROVE  StreamOK'
  <1>1. /\ m.tcode = msg.tcode /\ m.code = msg.code /\ m.icnt = msg.icnt /\ m.hist = msg.hist
        /\ msg' = MsgRetired(m) /\ msg_present' = StaysBuffered(m)
        /\ Sound /\ msg_present /\ ~is_res(msg)
    BY RetiringMessage DEF Retires, RetireMsg, Counted
  <1>2. /\ is_branch(m) /\ is_sync(m) => msg'.tcode = "ProgTraceSync"
        /\ is_branch(m) /\ ~is_sync(m) => /\ msg'.tcode = m.tcode /\ msg'.code = m.code
                                          /\ msg'.icnt = m.icnt /\ msg'.hist = m.hist
    BY <1>1, RetiredFields
  <1>3. Live /\ synced
    BY <1>1 DEF Live, Sound
  <1>4. AheadOK'
    BY DEF StreamOK, AheadOK
  <1>5. BranchOK'
    <2>1. ahead = << >> => prev \notin Branches \ Syncs
      BY <1>3 DEF StreamOK, BranchOK
    <2>2. ahead # << >> /\ ahead[1].tcode = "Ownership" => is_indir_branch(msg)
      BY <1>3 DEF StreamOK, BranchOK
    <2> QED
      BY <2>1, <2>2 DEF BranchOK
  <1>6. MsgOK'
    <2>1. CASE is_branch(m) /\ is_sync(m)
      <3>1. Regular(msg') /\ Eventful(msg') /\ ~is_branch(msg')
        BY <1>2, <2>1, BranchKinds DEF Regular, Eventful, is_res
      <3> QED
        BY <1>3, <3>1 DEF MsgOK
    <2>2. CASE is_branch(m) /\ ~is_sync(m)
      <3>1. msg'.tcode = msg.tcode /\ msg'.code = msg.code /\ msg'.icnt = msg.icnt /\ msg'.hist = msg.hist
        BY <1>1, <1>2, <2>2
      <3>2. Regular(msg)
        BY <1>1 DEF StreamOK, MsgOK
      <3>3. is_branch(msg) /\ ~is_sync(msg)
        BY <1>1, <2>2 DEF is_branch, is_sync
      <3>4. Regular(msg') /\ Eventful(msg') /\ ~is_sync(msg')
        BY <3>1, <3>2, <3>3, SameKind DEF Eventful
      <3> QED
        BY <1>3, <3>4 DEF MsgOK
    <2>3. CASE ~is_branch(m)
      <3>1. ~msg_present'
        BY <1>1, <2>3 DEF StaysBuffered
      <3> QED
        BY <1>3, <3>1 DEF MsgOK
    <2> QED
      BY <2>1, <2>2, <2>3
  <1>7. AsideKept'
    BY DEF AsideKept
  <1> QED
    BY <1>4, <1>5, <1>6, <1>7 DEF StreamOK

\* A message that is not looked behind leaves the buffer, or decoding stops with it.
LEMMA StreamDrops ==
  ASSUME StreamOK, UNCHANGED <<ahead, prev, owing>>, ~msg_present', Live,
         pc \notin {"lookahead", "owner"}, pc' \notin {"lookahead", "got", "error"},
         pc' = "idle" => ret'.rc = "ok",
         synced' => synced /\ ~LooksAhead(msg)
  PROVE  StreamOK'
  <1>1. AheadOK'
    BY DEF StreamOK, AheadOK
  <1>2. BranchOK'
    BY DEF StreamOK, BranchOK
  <1>3. MsgOK'
    BY DEF MsgOK
  <1>4. AsideKept'
    BY DEF AsideKept
  <1> QED
    BY <1>1, <1>2, <1>3, <1>4 DEF StreamOK

\* The message behind a taken indirect branch.
LEMMA StreamOwner ==
  ASSUME Conforming, IInv, DInv, StreamOK, Owner
  PROVE  StreamOK'
  <1> USE DEF Return
  <1>1. /\ pc = "owner" /\ pc' = "idle" /\ UNCHANGED <<msg, msg_present, synced, aborted>>
        /\ ret.rc = "ok"
    BY DEF Owner, untouched, stateVars, DInv, OpOK
  <1>2. PICK m \in Msgs : /\ TakeMsg(m)
                          /\ ahead' = IF m.tcode = "Ownership" THEN << >> ELSE <<m>>
                          /\ ret' = [ret EXCEPT !.ownership = m.tcode = "Ownership"]
    BY DEF Owner
  <1>3. ret'.rc = "ok"
    BY <1>1, <1>2
  <1>4. Live /\ (Sound' => Sound)
    BY <1>1 DEF Live, Sound
  <1>5. /\ Regular(m) /\ prev' = m.tcode /\ m.tcode # "RepeatBranch"
        /\ IcntFull(m) => owing'
    <2>1. CASE ahead = << >>
      <3>1. Arrives(m) /\ WellFormed
        BY <1>2, <2>1 DEF TakeMsg, Conforming
      <3>2. prev \notin Branches \ Syncs
        BY <1>1, <1>4, <2>1 DEF StreamOK, BranchOK
      <3> QED
        BY <3>1, <3>2, Arrival
    <2>2. CASE ahead # << >>
      <3>1. m = ahead[1] /\ UNCHANGED <<prev, owing>>
        BY <1>2, <2>2 DEF TakeMsg
      <3> QED
        BY <2>2, <3>1 DEF StreamOK, AheadOK
    <2> QED
      BY <2>1, <2>2
  <1>6. AheadOK'
    BY <1>2, <1>5 DEF AheadOK
  <1>7. BranchOK'
    <2>1. "Ownership" \notin Branches
      BY DEF Branches, DirectBranches, IndirectBranches, HistBranches
    <2>2. ahead' = << >> => prev' \notin Branches
      BY <1>2, <1>5, <2>1
    <2>3. ahead' # << >> => ahead'[1].tcode # "Ownership"
      BY <1>2
    <2> QED
      BY <1>1, <2>2, <2>3 DEF BranchOK
  <1>8. MsgOK'
    BY <1>1, <1>4 DEF StreamOK, MsgOK
  <1>9. AsideKept'
    BY <1>3 DEF AsideKept
  <1> QED
    BY <1>6, <1>7, <1>8, <1>9 DEF StreamOK

\* The caller takes the message it was told of.
LEMMA StreamTakeUnsupported ==
  ASSUME Conforming, StreamOK, TakeUnsupported
  PROVE  /\ StreamOK' /\ ahead # << >> /\ ahead' = << >> /\ UNCHANGED <<owing, aborted>>
         /\ ret'.rc = "retry" /\ ret'.op = ret.op /\ ~msg_present
  <1>1. /\ pc = "idle" /\ pc' = "idle" /\ ret.rc = "unsupported"
        /\ UNCHANGED <<msg, msg_present, synced, aborted>> /\ aborted = "none"
    BY DEF TakeUnsupported, stateVars
  <1>2. ~msg_present /\ ahead # << >> /\ ~check_msg(ahead[1])
    BY <1>1 DEF StreamOK, AsideKept
  <1>3. /\ \E m \in Msgs : TakeMsg(m)
        /\ ahead' = << >> /\ ret' = [ret EXCEPT !.rc = "retry"]
    BY <1>2 DEF TakeUnsupported, AtEnd
  <1>4. UNCHANGED <<prev, owing>>
    BY <1>2, <1>3 DEF TakeMsg
  <1>5. ret'.rc = "retry" /\ ret'.op = ret.op
    BY <1>1, <1>3
  <1>6. Live /\ Live' /\ (Sound' => Sound)
    BY <1>1, <1>5 DEF Live, Alive, Sound
  <1>7. PICK k \in Msgs : ahead = <<k>> /\ prev = k.tcode
    BY <1>2 DEF StreamOK, AheadOK
  <1>8. prev' \notin Branches
    <2>1. ~check_msg(k)
      BY <1>2, <1>7
    <2> QED
      BY <1>4, <1>7, <2>1 DEF Conforming, InLimits, is_branch
  <1>9. AheadOK' /\ AsideKept'
    BY <1>3, <1>5 DEF AheadOK, AsideKept
  <1>10. BranchOK'
    BY <1>1, <1>3, <1>8 DEF BranchOK
  <1>11. MsgOK'
    BY <1>1, <1>2, <1>6 DEF StreamOK, MsgOK
  <1> QED
    BY <1>1, <1>2, <1>3, <1>4, <1>5, <1>9, <1>10, <1>11 DEF StreamOK

\* A ResourceFull of a regular stream is refused only for good.
LEMMA PullEnds ==
  ASSUME IInv, StreamOK, PullFails
  PROVE  StreamEnd
  <1>1. /\ UNCHANGED <<ahead, prev, owing, msg, msg_present>> /\ pc' = "idle" /\ is_res(msg)
        /\ pc = "got"
        /\ ret'.rc \in {PullError, "no_mem"} /\ ret'.rc # "none"
    BY DEF PullFails, Pulling, streamVars, Fail, Return
  <1>2. Regular(msg) /\ msg.icnt \in Nat
    BY <1>1, DecoderAssumption DEF StreamOK, MsgOK, IInv, ControlOK, DataOK, FitMessages, Messages
  <1>3. has_icnt(msg) \/ has_hist(msg) \/ SifiveRepeat(msg)
    BY <1>1, <1>2 DEF Regular, has_icnt, has_hist, SifiveRepeat
  <1>4. PullError \in {"hist_overflow", "icnt_overflow", "none"}
    BY <1>3 DEF PullError
  <1> QED
    BY <1>1, <1>4 DEF StreamEnd, Alive

\* next_tnt at a message returns a bit, if it neither aborts nor refuses.
LEMMA TntBranchReturns ==
  ASSUME IInv, TntFromBranch, aborted' = "none", EventsCanBeTaken'
  PROVE  pc = "loop" /\ pc' = "idle" /\ op = "next_tnt" /\ ret'.op = "next_tnt" /\ ret'.rc = "ok"
  <1> USE DEF Return, Fail, Abort
  <1>1. pc = "loop" /\ op = "next_tnt" /\ TntsAssert = "none"
    BY DEF TntFromBranch, Branching
  <1>2. CASE AvailableIcnt = 0 /\ msg.tcode \in DirectBranches /\ RetireAssert = "none"
    BY <1>1, <1>2 DEF TntFromBranch
  <1>3. CASE ~(AvailableIcnt = 0 /\ msg.tcode \in DirectBranches /\ RetireAssert = "none")
    <2>1. /\ CASE IcntAssert # "none" -> Abort(IcntAssert)
               [] AvailableIcnt > 0 -> Return([op |-> op, rc |-> "ok", tnt |-> 0])
               [] AvailableIcnt = 0 /\ msg.tcode \notin DirectBranches -> Fail("mismatch")
               [] OTHER -> Abort(RetireAssert)
      BY <1>3 DEF TntFromBranch
    <2>2. AvailableIcnt \in Nat
      BY <1>1, Available
    <2>3. IcntAssert = "none"
      BY <1>1, PossibleAborts DEF TntsAssert
    <2>4. CASE AvailableIcnt > 0
      BY <1>1, <2>1, <2>3, <2>4
    <2>5. CASE AvailableIcnt = 0 /\ msg.tcode \notin DirectBranches
      <3>1. pc' = "idle" /\ ret'.rc = "mismatch" /\ ret'.op = "next_tnt"
        BY <1>1, <2>1, <2>3, <2>5
      <3> QED
        BY <3>1 DEF EventsCanBeTaken
    <2>6. CASE AvailableIcnt = 0 /\ msg.tcode \in DirectBranches
      <3>1. RetireAssert # "none" /\ aborted' = RetireAssert
        BY <1>3, <2>1, <2>3, <2>6
      <3> QED
        BY <3>1
    <2> QED
      BY <2>2, <2>4, <2>5, <2>6
  <1> QED
    BY <1>2, <1>3

\* Every step keeps StreamOK.
LEMMA StreamStep == Conforming /\ Inv /\ [Next]_vars => StreamOK'
  <1> SUFFICES ASSUME Conforming, Inv, [Next]_vars PROVE StreamOK'
    OBVIOUS
  <1> USE DEF Return, Fail, Abort, Goto
  <1>0. /\ IInv /\ DInv /\ StreamOK /\ DataOK /\ ControlOK /\ OpOK
        /\ aborted' = "none" /\ EventsCanBeTaken /\ EventsCanBeTaken'
    BY NoAbort DEF Inv, IInv, DInv, AssertionsHold
  <1>1. ASSUME NEW f, NEW n, Call(f, n) PROVE StreamOK'
    <2>1. /\ UNCHANGED <<ahead, prev, owing, msg, msg_present, synced>>
          /\ pc = "idle" /\ pc' \in {"idle", "loop", "fetch"} /\ Alive
          /\ pc' = "idle" => ret'.rc # "unsupported"
      BY <1>1 DEF Call, stateVars, streamVars
    <2>2. StreamFrame
      BY <2>1 DEF StreamFrame, Live, Sound
    <2> QED
      BY <1>0, <2>2, StreamKept
  <1>2. CASE TakeUnsupported
    BY <1>0, <1>2, StreamTakeUnsupported
  <1>3. CASE Stopped \/ UNCHANGED vars \/ StackCalls
    <2>1. UNCHANGED <<ahead, prev, owing, msg, msg_present, synced, pc, ret, aborted>>
      BY <1>3 DEF Stopped, StackCalls, PushCall, PopRet, vars, stateVars, streamVars
    <2>2. /\ Live' <=> Live
          /\ Sound' <=> Sound
      BY <2>1 DEF Live, Sound, Alive
    <2> QED
      BY <1>0, <2>1, <2>2 DEF StreamOK, AheadOK, BranchOK, MsgOK, AsideKept
  <1>4. CASE FetchExisting
    <2>1. /\ UNCHANGED <<ahead, prev, owing, msg, msg_present, synced>>
          /\ pc = "fetch" /\ pc' = "got" /\ msg_present
      BY <1>4 DEF FetchExisting, untouched, stateVars, streamVars
    <2>2. synced
      BY <1>0, <2>1 DEF StreamOK, MsgOK, Live
    <2>3. StreamFrame
      BY <2>1, <2>2 DEF StreamFrame, Live, Sound
    <2> QED
      BY <1>0, <2>3, StreamKept
  <1>5. CASE FetchNew
    BY <1>0, <1>5, StreamFetchNew
  <1>6. CASE LookAhead
    BY <1>0, <1>6, StreamLookAhead
  <1>7. CASE LookAheadEnd \/ OwnerEnd
    BY <1>7 DEF LookAheadEnd, OwnerEnd, AtEnd, Conforming
  <1>8. CASE FetchEnd \/ FetchError
    <2>1. StreamEnd
      BY <1>8 DEF FetchEnd, FetchError, AtEnd, streamVars, StreamEnd, Alive
    <2> QED
      BY <1>0, <2>1, StreamKept
  <1>9. CASE PullKeeps
    <2>1. /\ UNCHANGED <<ahead, prev, owing, msg, msg_present, synced>>
          /\ pc = "got" /\ pc' = "loop" /\ synced
      BY <1>0, <1>9 DEF PullKeeps, Pulling, stateVars, streamVars, ControlOK
    <2>2. StreamFrame
      BY <2>1 DEF StreamFrame, Live, Sound
    <2> QED
      BY <1>0, <2>2, StreamKept
  <1>10. CASE PullFails
    BY <1>0, <1>10, PullEnds, StreamKept
  <1>11. CASE PullRes
    <2>1. /\ UNCHANGED <<ahead, prev, owing, synced>> /\ pc = "got" /\ pc' = "loop" /\ is_res(msg)
          /\ ~msg_present' /\ synced
      BY <1>0, <1>11 DEF PullRes, Pulling, stateVars, streamVars, ControlOK
    <2>2. ~LooksAhead(msg) /\ Live
      BY <2>1, BranchKinds DEF LooksAhead, Live
    <2> QED
      BY <1>0, <2>1, <2>2, StreamDrops
  <1>12. CASE RetireSome \/ RetirePulls \/ RetireAll
    <2>1. /\ UNCHANGED <<ahead, prev, owing, msg, msg_present, synced>>
          /\ pc = "loop" /\ pc' \in {"idle", "fetch"}
          /\ pc' = "idle" => ret' = ret \/ ret'.rc = "ok"
      BY <1>12 DEF RetireSome, RetirePulls, RetireAll, Retiring, RetireReturns, untouched, stateVars, streamVars
    <2>2. pc' = "idle" => ret'.rc = "ok"
      <3>1. CASE RetireSome
        BY <1>0, <3>1 DEF RetireSome, RetireReturns
      <3>2. CASE RetirePulls
        BY <1>0, <3>2 DEF RetirePulls
      <3>3. CASE RetireAll
        BY <1>0, <3>3 DEF RetireAll, RetireReturns
      <3> QED
        BY <1>12, <3>1, <3>2, <3>3
    <2>3. StreamFrame
      BY <2>1, <2>2 DEF StreamFrame, Live, Sound
    <2> QED
      BY <1>0, <2>3, StreamKept
  <1>13. CASE TntSeeks \/ DrainEmpty
    <2>1. /\ UNCHANGED <<ahead, prev, owing, msg, msg_present, synced>>
          /\ pc \in {"loop", "drain"} /\ pc' \in {"fetch", "drain"}
      BY <1>0, <1>13 DEF TntSeeks, Branching, DrainEmpty, untouched, stateVars, streamVars
    <2>2. StreamFrame
      BY <2>1 DEF StreamFrame, Live, Sound
    <2> QED
      BY <1>0, <2>2, StreamKept
  <1>14. CASE TntFromMsg \/ TntFromElement
    <2>1. /\ UNCHANGED <<ahead, prev, owing, msg, msg_present, synced>>
          /\ pc = "drain" /\ pc' = "idle"
      BY <1>14 DEF TntFromMsg, TntFromElement, Drained, Deliver, stateVars, streamVars
    <2>2. ret'.rc = "ok"
      BY <1>0, <1>14 DEF TntFromMsg, TntFromElement, Deliver
    <2>3. StreamFrame
      BY <2>1, <2>2 DEF StreamFrame, Live, Sound
    <2> QED
      BY <1>0, <2>3, StreamKept
  <1>15. CASE TntFromBranch
    <2>0. /\ UNCHANGED <<ahead, prev, owing, synced>> /\ pc = "loop" /\ msg_present /\ op = "next_tnt"
          /\ synced
      BY <1>0, <1>15 DEF TntFromBranch, Branching, streamVars, ControlOK
    <2>1. CASE AvailableIcnt = 0 /\ msg.tcode \in DirectBranches /\ RetireAssert = "none"
      <3>1. RetireMsg(msg, full_addr) /\ pc' = "idle" /\ ret'.rc = "ok" /\ UNCHANGED <<resVars, historyVars>>
        BY <1>15, <2>1 DEF TntFromBranch
      <3>2. ~is_indir_branch(msg) /\ ~is_res(msg)
        BY <2>1, BranchKinds
      <3>3. Retires(msg, full_addr)
        BY <2>0, <2>1, <3>1, <3>2 DEF Retires, Sound, Counted
      <3> QED
        BY <1>0, <2>0, <3>1, <3>2, <3>3, StreamRetires DEF DataOK
    <2>2. CASE ~(AvailableIcnt = 0 /\ msg.tcode \in DirectBranches /\ RetireAssert = "none")
      <3>1. UNCHANGED <<msg, msg_present>> /\ pc' = "idle" /\ ret'.rc = "ok"
        BY <1>0, <1>15, <2>2, TntBranchReturns DEF TntFromBranch
      <3>2. StreamFrame
        BY <2>0, <3>1 DEF StreamFrame, Live, Sound
      <3> QED
        BY <1>0, <3>2, StreamKept
    <2> QED
      BY <2>1, <2>2
  <1>16. CASE NextIndirect
    <2>1. Sound /\ msg_present /\ Refusal(is_indir_branch(msg)) = "none"
      BY <1>16, TakesEvents DEF NextIndirect
    <2>2. is_indir_branch(msg) /\ RetireAssert = "none" /\ ~is_res(msg)
      <3>1. is_indir_branch(msg) \in BOOLEAN
        BY DEF is_indir_branch
      <3> QED
        BY <2>1, <3>1, RefusalNone
    <2>3. PICK fa : /\ fa = IF is_sync(msg) THEN msg.xaddr ELSE XorSet(full_addr, msg.xaddr)
                    /\ RetireMsg(AddressUsed(msg), fa)
      BY <1>16, <2>1 DEF NextIndirect
    <2>4. /\ pc = "got" /\ pc' = "owner" /\ ret'.rc = "ok" /\ UNCHANGED <<synced, resVars, historyVars, ahead, prev, owing>>
      BY <1>16, <2>1 DEF NextIndirect, TakesIndirect, streamVars
    <2>5. AddressUsed(msg) \in FitMessages
      BY <1>0 DEF AddressUsed, DataOK, FitMessages, Messages
    <2>6. Retires(AddressUsed(msg), fa)
      BY <2>1, <2>2, <2>3, <2>4 DEF Retires, Counted
    <2> QED
      BY <1>0, <2>4, <2>5, <2>6, StreamRetires
  <1>17. CASE Owner
    BY <1>0, <1>17, StreamOwner
  <1>18. CASE NextSync
    <2>1. CASE is_branch(msg)
      <3>1. StreamFrame
        BY <1>18, <2>1, SyncDeclined DEF StreamFrame, Live, Sound, streamVars, stateVars
      <3> QED
        BY <1>0, <3>1, StreamKept
    <2>2. CASE ~is_branch(msg)
      <3>1. Sound /\ msg_present /\ Refusal(is_sync(msg) /\ ~is_branch(msg)) = "none"
        BY <1>18, <2>2, SyncTaken DEF NextSync
      <3>2. is_sync(msg) /\ ~is_branch(msg) /\ RetireAssert = "none" /\ ~is_res(msg)
        BY <3>1, RefusalNone DEF is_sync, is_branch
      <3>3. /\ RetireMsg(msg, full_addr) /\ ret'.rc = "ok" /\ pc \in {"got", "sync"} /\ pc' = "idle"
            /\ UNCHANGED <<synced, resVars, historyVars, ahead, prev, owing>>
        BY <1>18, <3>1 DEF NextSync, streamVars
      <3>4. ~msg_present' /\ ~LooksAhead(msg) /\ synced /\ Live
        BY <3>1, <3>2, <3>3 DEF RetireMsg, StaysBuffered, LooksAhead, Sound, Live
      <3> QED
        BY <1>0, <3>3, <3>4, StreamDrops
    <2> QED
      BY <2>1, <2>2
  <1>19. CASE NextStop
    <2>1. Sound /\ msg_present /\ Refusal(is_stop(msg)) = "none"
      BY <1>19, TakesEvents DEF NextStop
    <2>2. is_stop(msg)
      BY <2>1, RefusalNone DEF is_stop
    <2>3. /\ RetireMsg(msg, full_addr) /\ ret'.rc = "ok" /\ pc = "got" /\ pc' = "idle" /\ synced' = FALSE
          /\ UNCHANGED <<ahead, prev, owing>>
      BY <1>19, <2>1 DEF NextStop, streamVars
    <2>4. ~is_branch(msg)
      BY <2>2 DEF is_stop, is_branch, Branches, DirectBranches, IndirectBranches, HistBranches
    <2>5. ~msg_present' /\ Live
      BY <2>3, <2>4 DEF RetireMsg, StaysBuffered, Live
    <2> QED
      BY <1>0, <2>3, <2>5, StreamDrops
  <1>20. CASE ErrorRetires
    <2>1. /\ RetireMsg(msg, full_addr) /\ ret'.rc = "ok" /\ pc = "error" /\ pc' = "idle" /\ synced' = FALSE
          /\ UNCHANGED <<ahead, prev, owing>>
      BY <1>20 DEF ErrorRetires, streamVars
    <2>2. is_error(msg)
      BY <1>0, <2>1 DEF StreamOK, MsgOK
    <2>3. ~is_branch(msg)
      BY <2>2 DEF is_error, is_branch, Branches, DirectBranches, IndirectBranches, HistBranches
    <2>4. ~msg_present' /\ Live
      BY <2>1, <2>3 DEF RetireMsg, StaysBuffered, Live
    <2> QED
      BY <1>0, <2>1, <2>4, StreamDrops
  <1>21. CASE ErrorDrops
    <2>1. is_error(msg) /\ pc = "got" /\ op = "next_error"
      BY <1>21, TakesEvents DEF ErrorDrops
    <2>2. /\ UNCHANGED <<ahead, prev, owing, msg, msg_present, synced>> /\ pc' = "error" /\ synced
      BY <1>0, <1>21, <2>1 DEF ErrorDrops, stateVars, streamVars, ControlOK
    <2>3. StreamFrame
      BY <2>1, <2>2 DEF StreamFrame, Live, Sound
    <2> QED
      BY <1>0, <2>3, StreamKept
  <1>22. CASE ErrorDrains
    <2>1. /\ UNCHANGED <<ahead, prev, owing, msg, msg_present, synced>> /\ pc = "error" /\ pc' = "error"
      BY <1>22 DEF ErrorDrains, stateVars, streamVars
    <2>2. is_error(msg)
      BY <1>0, <2>1 DEF StreamOK, MsgOK
    <2>3. StreamFrame
      BY <2>1, <2>2 DEF StreamFrame, Live, Sound
    <2> QED
      BY <1>0, <2>3, StreamKept
  <1>23. CASE SyncSkip
    <2>1. /\ UNCHANGED <<ahead, prev, owing, synced>> /\ pc = "got" /\ pc' = "fetch" /\ ~msg_present'
          /\ ~synced
      BY <1>0, <1>23 DEF SyncSkip, untouched, stateVars, streamVars, ControlOK
    <2>2. Live
      BY <2>1 DEF Live
    <2> QED
      BY <1>0, <2>1, <2>2, StreamDrops
  <1>24. CASE SyncFound
    <2>1. /\ UNCHANGED <<ahead, prev, msg_present>> /\ pc = "got" /\ pc' = "sync" /\ ~synced /\ synced'
          /\ is_sync(msg) /\ msg' = [msg EXCEPT !.tcode = "ProgTraceSync", !.icnt = 0]
      BY <1>0, <1>24 DEF SyncFound, stateVars, ControlOK
    <2>2. ahead = << >> /\ prev \notin Branches \ Syncs
      BY <1>0, <2>1 DEF StreamOK, MsgOK, BranchOK, Live, LooksAhead
    <2>3. msg'.tcode = "ProgTraceSync"
      BY <1>0, <2>1 DEF DataOK, FitMessages, Messages
    <2>4. Regular(msg') /\ Eventful(msg') /\ ~is_branch(msg')
      BY <2>3, BranchKinds DEF Regular, Eventful, is_res
    <2>5. AheadOK' /\ AsideKept'
      BY <2>1, <2>2 DEF AheadOK, AsideKept
    <2>6. BranchOK'
      BY <2>1, <2>2 DEF BranchOK
    <2>7. MsgOK'
      BY <2>1, <2>4 DEF MsgOK
    <2> QED
      BY <2>5, <2>6, <2>7 DEF StreamOK
  <1> QED
    BY <1>1, <1>2, <1>3, <1>4, <1>5, <1>6, <1>7, <1>8, <1>9, <1>10, <1>11, <1>12, <1>13, <1>14, <1>15,
       <1>16, <1>17, <1>18, <1>19, <1>20, <1>21, <1>22, <1>23, <1>24
    DEF Next, Calls, Steps, Fetches

-----------------------------------------------------------------------------
(***************************************************************************)
(* The step of ResOK.                                                      *)
(***************************************************************************)
\* Steps that leave the elements and the message alone.
ResFrame ==
    /\ UNCHANGED <<res_hists, res_tnts, consumed_tnts, msg, msg_present, ahead, owing>>
    /\ Sound' => Sound
    /\ pc = "got" => ~is_res(msg)
    /\ pc' \notin {"owner", "sync"}
    /\ pc # "idle" \/ ret.rc # "unsupported"

\* Steps behind which decoding is not under way.
ResUnsound == ~Sound' /\ pc' \notin {"owner", "sync"} /\ ElementsOK'

\* Steps behind which nothing is accumulated.
ResEmpty == res_hists' = << >> /\ pc' # "sync" /\ (msg_present' => ~is_res(msg'))

\* All of them keep ResOK.
LEMMA ResKept ==
  ASSUME ResOK, ResFrame \/ ResUnsound \/ ResEmpty
  PROVE  ResOK'
  <1>1. CASE ResFrame
    <2>1. LooseOK'
      BY <1>1 DEF ResOK, LooseOK, ResFrame, Loose
    <2>2. PlaceOK'
      BY <1>1 DEF ResOK, PlaceOK, ResFrame
    <2>3. ElementsOK'
      BY <1>1 DEF ResOK, ElementsOK, ResFrame
    <2> QED
      BY <2>1, <2>2, <2>3 DEF ResOK
  <1>2. CASE ResUnsound
    BY <1>2 DEF ResOK, LooseOK, PlaceOK, ResUnsound
  <1>3. CASE ResEmpty
    <2>1. ~Loose'
      BY <1>3 DEF ResEmpty, Loose
    <2>2. ElementsOK'
      <3>1. Len(res_hists') = 0
        BY <1>3 DEF ResEmpty
      <3> QED
        BY <3>1 DEF ElementsOK
    <2>3. LooseOK' /\ PlaceOK'
      BY <1>3, <2>1 DEF LooseOK, PlaceOK, ResEmpty
    <2> QED
      BY <2>2, <2>3 DEF ResOK
  <1> QED
    BY <1>1, <1>2, <1>3

\* A message that is fetched while decoding is under way.
LEMMA ResFetchNew ==
  ASSUME Conforming, IInv, DInv, StreamOK, ResOK, FetchNew
  PROVE  ResOK'
  <1>1. PICK m \in Msgs : Comes(m) /\ Goes(m)
    BY Fetched
  <1>2. /\ CarriesBits(msg') <=> CarriesBits(m)
        /\ Eventful(msg') <=> Eventful(m)
        /\ IcntFull(msg') <=> IcntFull(m)
        /\ is_res(msg') <=> is_res(m)
        /\ is_error(msg') <=> is_error(m)
    BY <1>1, SameKind DEF Goes
  <1>3. /\ pc = "fetch" /\ ~msg_present /\ UNCHANGED <<res_hists, res_tnts, consumed_tnts, synced, op>>
        /\ pc' \in {"idle", "lookahead", "got"}
    BY <1>1 DEF Comes, Goes, resVars, consumedVars
  <1>4. ElementsOK'
    BY <1>3 DEF ResOK, ElementsOK
  <1>5. CASE ~Sound'
    BY <1>3, <1>4, <1>5, ResKept DEF ResUnsound
  <1>6. CASE Sound'
    <2>1. Sound /\ synced
      BY <1>3, <1>6 DEF Sound
    <2>2. Loose' => Loose /\ owing /\ ahead = << >>
      BY <1>3, <2>1 DEF ResOK, LooseOK, Loose
    <2>3. msg_present' <=> check_msg(m)
      BY <1>1 DEF Goes
    <2>4. Loose' => \/ msg_present' /\ (is_error(msg') \/ CarriesBits(msg'))
                    \/ owing' /\ (msg_present' => ~Eventful(msg'))
      <3>1. Loose' => (Eventful(m) => CarriesBits(m)) /\ (~CarriesBits(m) /\ ~is_error(m) => owing')
        BY <1>1, <2>2 DEF Comes
      <3>2. CarriesBits(m) \/ is_error(m) => check_msg(m)
        BY Supported DEF Conforming, InLimits, is_error
      <3> QED
        BY <1>2, <2>3, <3>1, <3>2
    <2>5. ~msg_present' => pc' = "idle" /\ ret'.rc = "unsupported"
      BY <1>1, <2>3 DEF Goes
    <2>6. LooseOK'
      BY <1>3, <2>1, <2>4, <2>5 DEF ResOK, LooseOK
    <2>7. op \in {"try_retire", "next_tnt"}
      BY <1>3, <2>1 DEF DInv, OpOK, Heeds, Held, Functions, IInv, ControlOK
    <2>8. msg_present' /\ is_res(msg') => pc' = "got" /\ ahead' = << >> /\ (IcntFull(msg') => owing')
      <3>1. is_res(m) => ~LooksAhead(m)
        BY BranchKinds DEF LooksAhead
      <3>2. is_res(m) /\ check_msg(m) => pc' = "got" /\ ahead' = << >>
        BY <1>1, <3>1 DEF Goes
      <3> QED
        BY <1>1, <1>2, <2>3, <3>2 DEF Comes
    <2>9. PlaceOK'
      BY <1>3, <2>7, <2>8 DEF PlaceOK
    <2> QED
      BY <1>4, <2>6, <2>9 DEF ResOK
  <1> QED
    BY <1>5, <1>6

\* The message behind a branch.
LEMMA ResLookAhead ==
  ASSUME Conforming, IInv, StreamOK, ResOK, LookAhead
  PROVE  ResOK'
  <1>1. /\ pc = "lookahead" /\ pc' = "got" /\ msg_present /\ msg_present' /\ LooksAhead(msg)
        /\ UNCHANGED <<synced, res_hists, res_tnts, consumed_tnts>>
        /\ msg'.tcode = msg.tcode /\ msg'.code = msg.code /\ msg'.icnt = msg.icnt
        /\ msg'.hist = msg.hist
    BY LookedAt DEF resVars, consumedVars
  <1>2. /\ CarriesBits(msg') <=> CarriesBits(msg)
        /\ is_res(msg') <=> is_res(msg)
        /\ is_error(msg') <=> is_error(msg)
    BY <1>1, SameKind
  <1>3. Eventful(msg) /\ ~is_res(msg)
    BY <1>1, BranchKinds DEF LooksAhead, Eventful
  <1>4. Sound' => Sound
    BY <1>1 DEF Sound
  <1>5. LooseOK'
    BY <1>1, <1>2, <1>3, <1>4 DEF ResOK, LooseOK, Loose
  <1>6. PlaceOK'
    BY <1>1, <1>2, <1>3 DEF PlaceOK
  <1>7. ElementsOK'
    BY <1>1 DEF ResOK, ElementsOK
  <1> QED
    BY <1>5, <1>6, <1>7 DEF ResOK

\* A ResourceFull is accumulated.
LEMMA ResPullRes ==
  ASSUME Conforming, IInv, StreamOK, ResOK, TntOwed', PullRes
  PROVE  ResOK'
  <1>1. /\ pc = "got" /\ pc' = "loop" /\ is_res(msg) /\ ~msg_present' /\ msg_present /\ synced /\ synced'
        /\ UNCHANGED <<ahead, owing, consumed_tnts>>
    BY DEF PullRes, Pulling, Goto, IInv, ControlOK, stateVars, streamVars, consumedVars
  <1>2. Sound /\ Sound'
    BY <1>1 DEF Sound
  <1>3. ahead = << >> /\ (IcntFull(msg) => owing) /\ Regular(msg)
    BY <1>1, <1>2 DEF ResOK, PlaceOK, StreamOK, MsgOK
  <1>4. PICK h, n : /\ h = ElementHist(msg)
                    /\ res_hists' = Append(res_hists, [hist |-> h, repeat |-> n, ts |-> msg.ts])
    BY DEF PullRes
  <1>5. (h = << >> /\ IcntFull(msg)) \/ (h # << >> /\ hist_bits(h) > 0)
    <2>0. msg.icnt \in Nat
      BY DecoderAssumption DEF IInv, DataOK, FitMessages, Messages
    <2>1. CASE msg.code = 0
      <3>1. ~has_hist(msg) /\ ~SifiveRepeat(msg)
        BY <1>1, <2>1 DEF has_hist, is_res, is_stop, HistBranches, SifiveRepeat
      <3> QED
        BY <1>1, <1>4, <2>1, <3>1 DEF ElementHist, IcntFull
    <2>2. CASE msg.code \in {1, 2} /\ BitsOf(msg) > 0
      <3>1. has_hist(msg)
        BY <1>1, <2>2 DEF has_hist
      <3>2. h = msg.hist /\ hist_bits(h) > 0
        <4>1. h = msg.hist
          BY <1>4, <2>2, <3>1 DEF ElementHist, SifiveRepeat
        <4>2. BitsOf(msg) = hist_bits(msg.hist)
          BY <3>1, Zenon DEF BitsOf
        <4> QED
          BY <2>2, <4>1, <4>2
      <3> QED
        BY <3>2 DEF hist_bits
    <2>3. CASE msg.code \in {8, 9} /\ QuirkSifive /\ msg.icnt > 0
      <3>1. ~has_hist(msg) /\ SifiveRepeat(msg)
        BY <1>1, <2>0, <2>3 DEF has_hist, is_res, is_stop, HistBranches, SifiveRepeat
      <3>2. h = <<1, 0>> \/ h = <<1, 1>>
        BY <1>4, <3>1 DEF ElementHist
      <3> QED
        BY <3>2 DEF hist_bits
    <2> QED
      BY <1>1, <1>3, <2>1, <2>2, <2>3 DEF Regular
  <1>6. /\ res_hists \in Seq(FitElements) /\ Len(res_hists) \in Nat
        /\ Len(res_hists') = Len(res_hists) + 1
        /\ \A i \in 1 .. Len(res_hists) : res_hists'[i] = res_hists[i]
        /\ res_hists'[Len(res_hists')].hist = h
    BY <1>4 DEF IInv, DataOK
  <1>7. LooseOK'
    <2>1. Loose' => owing'
      BY <1>1, <1>3, <1>5, <1>6 DEF Loose
    <2>2. consumed_tnts' # 0 => res_tnts' # 0
      BY <1>1, <1>2 DEF TntOwed, PartUsed, Counted
    <2> QED
      BY <1>1, <1>3, <2>1, <2>2 DEF LooseOK
  <1>8. PlaceOK'
    BY <1>1 DEF PlaceOK
  <1>9. ElementsOK'
    <2> SUFFICES ASSUME NEW i \in 1 .. Len(res_hists')
                 PROVE  res_hists'[i].hist = << >> \/ hist_bits(res_hists'[i].hist) > 0
      BY DEF ElementsOK
    <2>1. CASE i \in 1 .. Len(res_hists)
      BY <1>6, <2>1 DEF ResOK, ElementsOK
    <2>2. CASE i = Len(res_hists')
      BY <1>5, <1>6, <2>2
    <2> QED
      BY <1>6, <2>1, <2>2
  <1> QED
    BY <1>7, <1>8, <1>9 DEF ResOK

\* The first element is dropped, or executed once.
LEMMA ResFront ==
  ASSUME IInv, ResOK, Sound, pc = "drain", pc' \in {"drain", "idle"}, res_hists # << >>,
         UNCHANGED <<msg, msg_present, ahead, owing>>,
         \/ res_hists' = Tail(res_hists)
         \/ \E e \in FitElements : /\ e.hist = res_hists[1].hist
                                   /\ res_hists' = <<e>> \o Tail(res_hists),
         consumed_tnts' = 0 \/ UNCHANGED <<consumed_tnts, res_tnts>>
  PROVE  ResOK'
  <1>1. res_hists \in Seq(FitElements) /\ Len(res_hists) \in Nat /\ Len(res_hists) >= 1
    BY DEF IInv, DataOK
  <1>2. /\ Tail(res_hists) \in Seq(FitElements) /\ Len(Tail(res_hists)) = Len(res_hists) - 1
        /\ \A i \in 1 .. Len(res_hists) - 1 : Tail(res_hists)[i] = res_hists[i + 1]
    BY <1>1
  <1>3. PICK d \in {0, 1} :
           /\ res_hists' \in Seq(FitElements) /\ Len(res_hists') = Len(res_hists) - d
           /\ \A i \in 1 .. Len(res_hists') : res_hists'[i].hist = res_hists[i + d].hist
    <2>1. CASE res_hists' = Tail(res_hists)
      BY <1>1, <1>2, <2>1
    <2>2. CASE \E e \in FitElements : /\ e.hist = res_hists[1].hist
                                      /\ res_hists' = <<e>> \o Tail(res_hists)
      <3>1. PICK e \in FitElements : /\ e.hist = res_hists[1].hist
                                     /\ res_hists' = <<e>> \o Tail(res_hists)
        BY <2>2
      <3>t. PICK t \in Seq(FitElements) :
               /\ res_hists' = <<e>> \o t /\ Len(t) = Len(res_hists) - 1
               /\ \A i \in 1 .. Len(res_hists) - 1 : t[i] = res_hists[i + 1]
        BY <1>2, <3>1
      <3>s. <<e>> \in Seq(FitElements) /\ Len(<<e>>) = 1 /\ <<e>>[1] = e
        OBVIOUS
      <3>2. res_hists' \in Seq(FitElements) /\ Len(res_hists') = Len(res_hists)
        BY <1>1, <3>t, <3>s, ConcatProperties
      <3>3. ASSUME NEW i \in 1 .. Len(res_hists') PROVE res_hists'[i].hist = res_hists[i + 0].hist
        <4>1. CASE i = 1
          BY <3>1, <3>t, <3>s, <4>1
        <4>2. CASE i > 1
          <5>1. res_hists'[i] = t[i - 1]
            BY <1>1, <3>t, <3>s, <3>2, <4>2
          <5>2. i - 1 \in 1 .. Len(res_hists) - 1 /\ (i - 1) + 1 = i /\ i + 0 = i
            BY <1>1, <3>2, <4>2
          <5>3. t[i - 1] = res_hists[i]
            BY <3>t, <5>2
          <5> QED
            BY <5>1, <5>2, <5>3
        <4> QED
          BY <4>1, <4>2
      <3> QED
        BY <1>1, <3>2, <3>3
    <2> QED
      BY <2>1, <2>2
  <1>4. Loose' => Loose
    <2> SUFFICES ASSUME Loose' PROVE Loose
      OBVIOUS
    <2>1. res_hists' # << >> /\ res_hists'[Len(res_hists')].hist = << >>
      BY DEF Loose
    <2>2. Len(res_hists') >= 1
      BY <1>3, <2>1
    <2>3. res_hists'[Len(res_hists')].hist = res_hists[Len(res_hists)].hist
      BY <1>1, <1>3, <2>2
    <2> QED
      BY <2>1, <2>3 DEF Loose
  <1>5. ElementsOK'
    <2> SUFFICES ASSUME NEW i \in 1 .. Len(res_hists')
                 PROVE  res_hists'[i].hist = << >> \/ hist_bits(res_hists'[i].hist) > 0
      BY DEF ElementsOK
    <2>1. i + d \in 1 .. Len(res_hists) /\ res_hists'[i].hist = res_hists[i + d].hist
      BY <1>1, <1>3
    <2> QED
      BY <2>1 DEF ResOK, ElementsOK
  <1>6. /\ msg_present \/ ahead = << >>
        /\ consumed_tnts # 0 => res_tnts # 0
        /\ ~(msg_present /\ is_res(msg))
    BY DEF ResOK, LooseOK, PlaceOK
  <1>7. LooseOK'
    BY <1>4, <1>6 DEF ResOK, LooseOK
  <1>8. PlaceOK'
    BY <1>6 DEF PlaceOK
  <1> QED
    BY <1>5, <1>7, <1>8 DEF ResOK

\* A TNT bit is taken from an element.
LEMMA ResTntFromElement ==
  ASSUME IInv, ResOK, Sound, TntFromElement, aborted' = "none"
  PROVE  ResOK'
  <1> USE DEF Return, Abort
  <1>1. /\ pc = "drain" /\ pc' = "idle" /\ res_tnts # 0
        /\ UNCHANGED <<msg, msg_present, ahead, owing, synced>>
        /\ res_hists # << >> /\ ret'.rc = "ok"
    BY DEF TntFromElement, Drained, Deliver, streamVars, stateVars
  <1>2. PICK e : /\ e = res_hists[1]
                 /\ \/ UNCHANGED <<res_hists, res_tnts>>
                    \/ consumed_tnts' = 0 /\ res_hists' = ElementUsed(e)
    BY DEF TntFromElement, Deliver
  <1>3. CASE UNCHANGED <<res_hists, res_tnts>>
    <2>1. LooseOK'
      BY <1>1, <1>3 DEF ResOK, LooseOK, Loose
    <2>2. PlaceOK' /\ ElementsOK'
      BY <1>1, <1>3 DEF ResOK, PlaceOK, ElementsOK
    <2> QED
      BY <2>1, <2>2 DEF ResOK
  <1>4. CASE consumed_tnts' = 0 /\ res_hists' = ElementUsed(e)
    <2>1. e \in FitElements /\ e.repeat \in 1 .. UINT32_MAX /\ e.ts \in Nat
      BY <1>1, <1>2, Elements DEF FitElements, Element
    <2>2. CASE e.repeat = 1
      BY <1>1, <1>4, <2>2, ResFront DEF ElementUsed
    <2>3. CASE e.repeat # 1
      <3>1. PICK k : k = [e EXCEPT !.repeat = e.repeat - 1, !.ts = Spent(e.ts)]
        OBVIOUS
      <3>2. res_hists' = <<k>> \o Tail(res_hists)
        BY <1>4, <2>3, <3>1 DEF ElementUsed
      <3>3. Spent(e.ts) \in Nat /\ e.repeat - 1 \in 1 .. UINT32_MAX
        BY <2>1, <2>3, DecoderAssumption DEF Spent
      <3>4. k \in FitElements /\ k.hist = e.hist
        BY <2>1, <3>1, <3>3 DEF FitElements, Element
      <3> QED
        BY <1>1, <1>2, <1>4, <3>2, <3>4, ResFront
    <2> QED
      BY <2>2, <2>3
  <1> QED
    BY <1>2, <1>3, <1>4

\* A TNT bit is taken from the message: nothing is accumulated in front of it.
LEMMA ResTntFromMsg ==
  ASSUME IInv, TntOwed, TntsFit, ResOK, Sound, TntFromMsg
  PROVE  ResOK'
  <1>1. /\ pc = "drain" /\ pc' = "idle" /\ res_tnts = 0 /\ ~EmptyInFront
        /\ UNCHANGED <<msg, msg_present, res_hists>>
    BY DEF TntFromMsg, Drained, Deliver, Return, Abort, resVars
  <1>2. msg_present => ~is_res(msg)
    BY <1>1 DEF ResOK, PlaceOK
  <1>3. \A i \in 1 .. Len(res_hists) : res_hists[i].hist = << >>
    BY <1>1, <1>2, BitsLeft DEF ResOK, Counted
  <1>4. res_hists = << >>
    BY <1>1, <1>3, Elements DEF EmptyInFront
  <1>5. ResEmpty
    BY <1>1, <1>2, <1>4 DEF ResEmpty
  <1> QED
    BY <1>5, ResKept

\* Messages are retired with nothing accumulated.
LEMMA ResRetires ==
  ASSUME IInv, ResOK, NEW m \in FitMessages, NEW fa, Retires(m, fa), pc' # "sync"
  PROVE  ResOK'
  <1>1. res_hists' = << >>
    BY DEF Retires, RetireAssert, resVars
  <1>2. msg_present' => ~is_res(msg')
    <2>1. Counted' <=> StaysBuffered(m)
      BY RetiringMessage
    <2>2. msg_present' = StaysBuffered(m)
      BY DEF Retires, RetireMsg
    <2> QED
      BY <2>1, <2>2 DEF Counted
  <1>3. ResEmpty
    BY <1>1, <1>2 DEF ResEmpty
  <1> QED
    BY <1>3, ResKept

\* Decoding starts at a sync.
LEMMA ResSyncFound ==
  ASSUME IInv, SyncFound
  PROVE  ResOK'
  <1>1. /\ res_hists' = << >> /\ res_icnt' = 0 /\ res_tnts' = 0 /\ consumed_icnt' = 0 /\ consumed_tnts' = 0
        /\ synced' /\ msg' = [msg EXCEPT !.tcode = "ProgTraceSync", !.icnt = 0] /\ pc' = "sync"
    BY DEF SyncFound, Goto
  <1>2. msg'.tcode = "ProgTraceSync" /\ msg'.icnt = 0
    BY <1>1 DEF IInv, DataOK, FitMessages, Messages
  <1>3. IcntOf(msg') = 0
    BY <1>2 DEF IcntOf
  <1>4. BitsOf(msg') = 0
    BY <1>2 DEF BitsOf, has_hist, is_res, is_stop, HistBranches
  <1>5. Wrap(0) = 0
    BY WrapRange, DecoderAssumption
  <1>6. AvailableIcnt' = 0
    <2>1. AvailableIcnt' = Wrap(res_icnt' + 0) - consumed_icnt'
      BY <1>3 DEF AvailableIcnt
    <2> QED
      BY <1>1, <1>5, <2>1
  <1>7. AvailableTnts' = 0
    <2>1. AvailableTnts' = Wrap(res_tnts' + 0) - consumed_tnts'
      BY <1>4 DEF AvailableTnts
    <2> QED
      BY <1>1, <1>5, <2>1
  <1>8. ~is_res(msg') /\ ~Loose' /\ ElementsOK'
    <2>1. Len(res_hists') = 0
      BY <1>1
    <2> QED
      BY <1>1, <1>2, <2>1 DEF is_res, Loose, ElementsOK
  <1> QED
    BY <1>1, <1>2, <1>6, <1>7, <1>8 DEF ResOK, LooseOK, PlaceOK, Clear

\* Every step keeps ResOK.
LEMMA ResStep == Conforming /\ Inv /\ TntOwed' /\ [Next]_vars => ResOK'
  <1> SUFFICES ASSUME Conforming, Inv, TntOwed', [Next]_vars PROVE ResOK'
    OBVIOUS
  <1> USE DEF Return, Fail, Abort, Goto
  <1>0. /\ IInv /\ DInv /\ StreamOK /\ ResOK /\ TntOwed /\ TntsFit /\ DataOK /\ ControlOK /\ OpOK
        /\ aborted' = "none" /\ EventsCanBeTaken /\ EventsCanBeTaken'
    BY NoAbort DEF Inv, IInv, DInv, AssertionsHold
  <1>e. res_hists' = res_hists => ElementsOK'
    BY <1>0 DEF ResOK, ElementsOK
  <1>1. ASSUME NEW f, NEW n, Call(f, n) PROVE ResOK'
    <2>1. /\ UNCHANGED <<res_hists, res_tnts, consumed_tnts, msg, msg_present, ahead, owing, synced>>
          /\ pc = "idle" /\ pc' \in {"idle", "loop", "fetch"} /\ Alive /\ MayCall(f)
      BY <1>1 DEF Call, stateVars, streamVars, resVars, consumedVars
    <2>2. ret.rc # "unsupported"
      BY <2>1 DEF MayCall, Conforming
    <2>3. ResFrame
      BY <2>1, <2>2 DEF ResFrame, Sound
    <2> QED
      BY <1>0, <2>3, ResKept
  <1>2. CASE TakeUnsupported
    <2>1. /\ ahead' = << >> /\ ~msg_present /\ UNCHANGED <<owing, aborted>> /\ ret'.rc = "retry"
      BY <1>0, <1>2, StreamTakeUnsupported
    <2>2. /\ UNCHANGED <<res_hists, res_tnts, consumed_tnts, msg, msg_present, synced, pc>>
          /\ pc = "idle" /\ aborted = "none" /\ ret.rc = "unsupported"
      BY <1>2 DEF TakeUnsupported, stateVars, resVars, consumedVars
    <2>3. Sound' => Sound
      BY <2>1, <2>2 DEF Sound, Alive
    <2>4. LooseOK'
      BY <1>0, <2>1, <2>2, <2>3 DEF ResOK, LooseOK, Loose
    <2>5. PlaceOK'
      BY <2>1, <2>2 DEF PlaceOK
    <2> QED
      BY <1>e, <2>2, <2>4, <2>5 DEF ResOK
  <1>3. CASE Stopped \/ UNCHANGED vars \/ StackCalls
    <2>1. UNCHANGED <<res_hists, res_icnt, res_tnts, consumed_icnt, consumed_tnts, ahead, owing, msg,
                      msg_present, synced, pc, op, ret, aborted>>
      BY <1>3 DEF Stopped, StackCalls, PushCall, PopRet, vars, stateVars, streamVars, resVars, consumedVars
    <2>2. /\ Sound' <=> Sound
          /\ Loose' <=> Loose
          /\ Clear' <=> Clear
      BY <2>1 DEF Sound, Alive, Loose, Clear, AvailableIcnt, AvailableTnts
    <2>3. LooseOK' /\ PlaceOK'
      BY <1>0, <2>1, <2>2 DEF ResOK, LooseOK, PlaceOK
    <2> QED
      BY <1>e, <2>1, <2>3 DEF ResOK
  <1>4. CASE FetchExisting \/ PullKeeps \/ TntSeeks
    <2>1. /\ UNCHANGED <<res_hists, res_tnts, consumed_tnts, msg, msg_present, ahead, owing, synced>>
          /\ pc \in {"fetch", "got", "loop"} /\ (pc = "got" => ~is_res(msg))
          /\ pc' \in {"got", "loop", "fetch", "drain"}
      BY <1>0, <1>4 DEF FetchExisting, PullKeeps, Pulling, TntSeeks, Branching, untouched, stateVars, streamVars,
                  resVars, consumedVars
    <2>2. ResFrame
      BY <2>1 DEF ResFrame, Sound
    <2> QED
      BY <1>0, <2>2, ResKept
  <1>5. CASE FetchNew
    BY <1>0, <1>5, ResFetchNew
  <1>6. CASE LookAhead
    BY <1>0, <1>6, ResLookAhead
  <1>7. CASE LookAheadEnd \/ OwnerEnd
    BY <1>7 DEF LookAheadEnd, OwnerEnd, AtEnd, Conforming
  <1>8. CASE FetchEnd \/ FetchError \/ PullFails
    <2>1. res_hists' = res_hists /\ pc' = "idle"
      BY <1>8 DEF FetchEnd, FetchError, PullFails, untouched, resVars
    <2>2. ~Sound'
      <3>1. CASE FetchEnd \/ FetchError
        BY <3>1 DEF FetchEnd, FetchError, Sound, Alive
      <3>2. CASE PullFails
        BY <1>0, <3>2, PullEnds DEF StreamEnd, Sound
      <3> QED
        BY <1>8, <3>1, <3>2
    <2>3. ResUnsound
      BY <1>e, <2>1, <2>2 DEF ResUnsound
    <2> QED
      BY <1>0, <2>3, ResKept
  <1>9. CASE PullRes
    BY <1>0, <1>9, ResPullRes
  <1>10. CASE RetireSome \/ RetirePulls \/ RetireAll
    <2>1. /\ UNCHANGED <<res_hists, res_tnts, consumed_tnts, msg, msg_present, ahead, owing, synced>>
          /\ pc = "loop" /\ pc' \in {"idle", "fetch"}
      BY <1>10 DEF RetireSome, RetirePulls, RetireAll, Retiring, RetireReturns, untouched, stateVars,
                   streamVars, resVars, consumedVars
    <2>2. ResFrame
      BY <2>1 DEF ResFrame, Sound
    <2> QED
      BY <1>0, <2>2, ResKept
  <1>11. CASE pc = "drain" /\ (DrainEmpty \/ TntFromMsg \/ TntFromElement)
    <2>0. Sound
      BY <1>0, <1>11 DEF OpOK, ControlOK, Sound
    <2>1. CASE DrainEmpty
      <3>1. /\ UNCHANGED <<msg, msg_present, ahead, owing, consumed_tnts, res_tnts>>
            /\ pc' = "drain" /\ res_hists # << >> /\ res_hists' = Tail(res_hists)
        BY <2>1 DEF DrainEmpty, EmptyInFront, streamVars, consumedVars
      <3> QED
        BY <1>0, <1>11, <2>0, <3>1, ResFront
    <2>2. CASE TntFromMsg
      BY <1>0, <2>0, <2>2, ResTntFromMsg
    <2>3. CASE TntFromElement
      BY <1>0, <2>0, <2>3, ResTntFromElement
    <2> QED
      BY <1>11, <2>1, <2>2, <2>3
  <1>12. CASE TntFromBranch
    <2>0. /\ UNCHANGED <<ahead, owing, synced, res_hists, res_tnts>> /\ pc = "loop" /\ msg_present
          /\ synced /\ pc' = "idle"
      BY <1>0, <1>12 DEF TntFromBranch, Branching, streamVars, resVars, ControlOK
    <2>1. CASE AvailableIcnt = 0 /\ msg.tcode \in DirectBranches /\ RetireAssert = "none"
      <3>1. RetireMsg(msg, full_addr) /\ UNCHANGED <<resVars, historyVars>>
        BY <1>12, <2>1 DEF TntFromBranch
      <3>2. ~is_res(msg)
        BY <2>1, BranchKinds
      <3>3. Retires(msg, full_addr)
        BY <2>0, <2>1, <3>1, <3>2 DEF Retires, Sound, Counted
      <3> QED
        BY <1>0, <2>0, <3>3, ResRetires DEF DataOK
    <2>2. CASE ~(AvailableIcnt = 0 /\ msg.tcode \in DirectBranches /\ RetireAssert = "none")
      <3>1. UNCHANGED <<msg, msg_present, consumed_tnts>>
        BY <1>12, <2>2 DEF TntFromBranch, consumedVars
      <3>2. ResFrame
        BY <2>0, <3>1 DEF ResFrame, Sound
      <3> QED
        BY <1>0, <3>2, ResKept
    <2> QED
      BY <2>1, <2>2
  <1>13. CASE NextIndirect
    <2>1. Sound /\ msg_present /\ Refusal(is_indir_branch(msg)) = "none"
      BY <1>13, TakesEvents DEF NextIndirect
    <2>2. is_indir_branch(msg) /\ RetireAssert = "none" /\ ~is_res(msg)
      <3>1. is_indir_branch(msg) \in BOOLEAN
        BY DEF is_indir_branch
      <3> QED
        BY <2>1, <3>1, RefusalNone
    <2>3. PICK fa : /\ fa = IF is_sync(msg) THEN msg.xaddr ELSE XorSet(full_addr, msg.xaddr)
                    /\ RetireMsg(AddressUsed(msg), fa)
      BY <1>13, <2>1 DEF NextIndirect
    <2>4. /\ pc = "got" /\ pc' = "owner" /\ UNCHANGED <<resVars, historyVars>>
      BY <1>13, <2>1 DEF NextIndirect, TakesIndirect
    <2>5. AddressUsed(msg) \in FitMessages
      BY <1>0 DEF AddressUsed, DataOK, FitMessages, Messages
    <2>6. Retires(AddressUsed(msg), fa)
      BY <2>1, <2>2, <2>3, <2>4 DEF Retires, Counted
    <2> QED
      BY <1>0, <2>4, <2>5, <2>6, ResRetires
  <1>14. CASE NextSync
    <2>1. CASE is_branch(msg)
      <3>1. ResFrame
        BY <1>14, <2>1, SyncDeclined DEF ResFrame, Sound, streamVars, stateVars, resVars, consumedVars
      <3> QED
        BY <1>0, <3>1, ResKept
    <2>2. CASE ~is_branch(msg)
      <3>1. Sound /\ msg_present /\ Refusal(is_sync(msg) /\ ~is_branch(msg)) = "none"
        BY <1>14, <2>2, SyncTaken DEF NextSync
      <3>2. is_sync(msg) /\ ~is_branch(msg) /\ RetireAssert = "none" /\ ~is_res(msg)
        BY <3>1, RefusalNone DEF is_sync, is_branch
      <3>3. /\ RetireMsg(msg, full_addr) /\ pc' = "idle" /\ UNCHANGED res_hists
        BY <1>14, <3>1 DEF NextSync, resVars
      <3>4. ~msg_present' /\ res_hists = << >>
        BY <3>1, <3>2, <3>3 DEF RetireMsg, StaysBuffered, RetireAssert
      <3>5. ResEmpty
        BY <3>3, <3>4 DEF ResEmpty
      <3> QED
        BY <1>0, <3>5, ResKept
    <2> QED
      BY <2>1, <2>2
  <1>15. CASE NextStop \/ ErrorRetires
    <2>1. NextStop => Refusal(is_stop(msg)) = "none"
      BY TakesEvents DEF NextStop
    <2>2. res_hists' = res_hists /\ pc' = "idle" /\ synced' = FALSE
      BY <1>15, <2>1 DEF NextStop, ErrorRetires, resVars
    <2>3. ResUnsound
      BY <1>e, <2>2 DEF ResUnsound, Sound
    <2> QED
      BY <1>0, <2>3, ResKept
  <1>16. CASE ErrorDrops \/ SyncSkip
    <2>1. ErrorDrops => is_error(msg)
      BY TakesEvents DEF ErrorDrops
    <2>2. res_hists' = res_hists /\ pc' \in {"error", "fetch"} /\ (pc' = "fetch" => ~synced')
      BY <1>0, <1>16, <2>1 DEF ErrorDrops, SyncSkip, untouched, resVars, stateVars, ControlOK
    <2>3. ResUnsound
      BY <1>e, <2>2 DEF ResUnsound, Sound
    <2> QED
      BY <1>0, <2>3, ResKept
  <1>17. CASE ErrorDrains
    <2>1. pc' = "error" /\ res_hists' = Tail(res_hists) /\ res_hists # << >> /\ res_hists \in Seq(FitElements)
      BY <1>0, <1>17 DEF ErrorDrains, DataOK
    <2>2. ElementsOK'
      <3> SUFFICES ASSUME NEW i \in 1 .. Len(res_hists')
                   PROVE  res_hists'[i].hist = << >> \/ hist_bits(res_hists'[i].hist) > 0
        BY DEF ElementsOK
      <3>1. i + 1 \in 1 .. Len(res_hists) /\ res_hists'[i] = res_hists[i + 1]
        BY <2>1
      <3> QED
        BY <1>0, <3>1 DEF ResOK, ElementsOK
    <2>3. ResUnsound
      BY <2>1, <2>2 DEF ResUnsound, Sound
    <2> QED
      BY <1>0, <2>3, ResKept
  <1>18. CASE SyncFound
    BY <1>0, <1>18, ResSyncFound
  <1>19. CASE Owner
    <2>1. /\ pc = "owner" /\ pc' = "idle" /\ UNCHANGED <<msg, msg_present, synced, res_hists>>
      BY <1>19 DEF Owner, untouched, stateVars, resVars
    <2>2. synced => ~(msg_present /\ is_res(msg))
      BY <1>0, <2>1 DEF ResOK, PlaceOK, Sound
    <2>3. res_hists = << >>
      BY <1>0, <2>1 DEF ResOK, PlaceOK
    <2>4. ResEmpty \/ ResUnsound
      BY <1>e, <2>1, <2>2, <2>3 DEF ResEmpty, ResUnsound, Sound
    <2> QED
      BY <1>0, <2>4, ResKept
  <1> QED
    BY <1>1, <1>2, <1>3, <1>4, <1>5, <1>6, <1>7, <1>8, <1>9, <1>10, <1>11, <1>12, <1>13, <1>14, <1>15,
       <1>16, <1>17, <1>18, <1>19
    DEF Next, Calls, Steps, Fetches, DrainEmpty, TntFromMsg, TntFromElement, Drained

-----------------------------------------------------------------------------
(***************************************************************************)
(* The step of EventOK.                                                    *)
(***************************************************************************)
\* The instructions that are left.
IcntLeft == /\ AvailableIcnt = res_icnt + (IF msg_present THEN IcntOf(msg) ELSE 0) - consumed_icnt
            /\ AvailableIcnt \in Nat
            /\ AvailableIcnt = 0 => res_icnt = 0
            /\ ~msg_present => AvailableIcnt = res_icnt

\* They are a number as long as decoding is under way.
LEMMA IcntLeftOver == IInv /\ Live => IcntLeft
  <1> SUFFICES ASSUME IInv, Live PROVE IcntLeft
    OBVIOUS
  <1>1. /\ AvailableIcnt = res_icnt + (IF msg_present THEN IcntOf(msg) ELSE 0) - consumed_icnt
        /\ AvailableIcnt \in 0 .. UINT32_MAX
        /\ AvailableIcnt = 0 => res_icnt = 0
        /\ ~msg_present => AvailableIcnt = res_icnt
    BY Available DEF Live
  <1> QED
    BY <1>1, DecoderAssumption DEF IcntLeft

\* And so they are after a step.
LEMMA IcntLeftNext == IInv' /\ Live' => IcntLeft'
  BY IcntLeftOver, PTL

\* Steps behind which no event is pending.
EventQuiet ==
    \/ ~Sound'
    \/ pc' \in {"drain", "sync", "owner", "error"}
    \/ pc' = "idle" /\ ret'.op \in Functions \ {"try_retire"} /\ ret'.rc \notin {"unsupported", "retry"}

\* Steps that leave alone what is pending, on the way of one function.
EventFrame ==
    /\ UNCHANGED <<res_icnt, res_tnts, consumed_icnt, consumed_tnts, msg_present, op>>
    /\ msg'.tcode = msg.tcode /\ msg'.code = msg.code /\ msg'.icnt = msg.icnt /\ msg'.hist = msg.hist
    /\ Sound
    /\ pc \in {"loop", "fetch", "lookahead", "got"} /\ pc' \in {"loop", "fetch", "lookahead", "got"}
    /\ pc = "loop" /\ op = "next_tnt" => AvailableTnts = 0

\* What is left depends on the counters and the message.
LEMMA SameLeft ==
  ASSUME UNCHANGED <<res_icnt, res_tnts, consumed_icnt, consumed_tnts, msg_present>>,
         msg'.tcode = msg.tcode, msg'.code = msg.code, msg'.icnt = msg.icnt, msg'.hist = msg.hist
  PROVE  /\ AvailableIcnt' = AvailableIcnt /\ AvailableTnts' = AvailableTnts
         /\ Clear' <=> Clear
         /\ Waits' <=> Waits
         /\ \A f : Ready(f)' <=> Ready(f)
  <1>1. IcntOf(msg') = IcntOf(msg) /\ BitsOf(msg') = BitsOf(msg)
    BY SameKind
  <1>2. AvailableIcnt' = AvailableIcnt /\ AvailableTnts' = AvailableTnts
    BY <1>1 DEF AvailableIcnt, AvailableTnts
  <1>3. (Clear' <=> Clear) /\ (Waits' <=> Waits)
    BY <1>2 DEF Clear, Waits
  <1> QED
    BY <1>2, <1>3 DEF Ready

\* Both keep EventOK.
LEMMA EventKept ==
  ASSUME EventOK, EventQuiet \/ EventFrame
  PROVE  EventOK'
  <1>1. CASE EventQuiet
    BY <1>1 DEF EventQuiet, EventOK
  <1>2. CASE EventFrame
    <2>1. (Waits' <=> Waits) /\ (Ready(op)' <=> Ready(op))
      BY <1>2, SameLeft DEF EventFrame
    <2>2. Ready(op) /\ (op = "next_tnt" => Waits)
      BY <1>2 DEF EventFrame, EventOK, Ready
    <2> QED
      BY <1>2, <2>1, <2>2 DEF EventFrame, EventOK
  <1> QED
    BY <1>1, <1>2

\* The caller asks for what was reported.
LEMMA EventCall ==
  ASSUME Conforming, IInv, DInv, EventOK, EventsCanBeTaken, NEW f, NEW n, Call(f, n)
  PROVE  EventOK'
  <1> USE DEF Return, Goto
  <1>1. /\ pc = "idle" /\ Alive /\ MayCall(f) /\ op' = f
        /\ UNCHANGED <<res_icnt, res_tnts, consumed_icnt, consumed_tnts, msg, msg_present, synced>>
    BY DEF Call, resVars, consumedVars, stateVars
  <1> SUFFICES ASSUME Sound' PROVE EventOK'
    BY DEF EventOK
  <1>2. synced /\ Sound
    BY <1>1 DEF Sound
  <1>3. \A g : Ready(g)' <=> Ready(g)
    BY <1>1, SameLeft
  <1>4. Ready(f)
    <2>1. CASE ret.rc = "retry"
      <3>1. f = ret.op /\ f \in {"sync_reset", "try_retire", "next_tnt"}
        BY <1>1, <2>1 DEF MayCall, Conforming, DInv, Heeds
      <3>2. f = "next_tnt" => Waits
        BY <1>1, <1>2, <2>1, <3>1 DEF EventOK
      <3> QED
        BY <3>1, <3>2 DEF Ready
    <2>2. CASE ret.rc # "retry" /\ ret.op = "try_retire"
      <3>1. f \in Takes(ret.event) /\ ret.rc # "unsupported"
        BY <1>1, <1>2, <2>2 DEF MayCall, Conforming, SyncRefused
      <3> QED
        BY <1>1, <1>2, <2>2, <3>1 DEF EventOK
    <2>3. CASE SyncRefused
      <3>1. f \in TakesBranch
        BY <1>1, <2>3 DEF MayCall, Conforming, SyncRefused
      <3>2. msg_present /\ is_branch(msg) /\ AvailableIcnt = 0 /\ AvailableTnts = 0
        BY <1>1, <2>3 DEF EventsCanBeTaken, SyncRefused
      <3>3. f = "next_indirect" \/ (f = "next_tnt" /\ msg.tcode \in DirectBranches)
        <4>1. CASE is_indir_branch(msg)
          BY <3>1, <4>1 DEF TakesBranch
        <4>2. CASE ~is_indir_branch(msg)
          <5>1. msg.tcode \in DirectBranches
            BY <3>2, <4>2 DEF is_branch, is_indir_branch, Branches
          <5> QED
            BY <3>1, <4>2, <5>1 DEF TakesBranch
        <4> QED
          BY <4>1, <4>2
      <3> QED
        BY <3>2, <3>3 DEF Ready, Clear, Waits
    <2>4. CASE ret.rc # "retry" /\ ret.op # "try_retire" /\ ~SyncRefused
      <3>1. f = "try_retire"
        BY <1>1, <1>2, <2>4 DEF MayCall, Conforming
      <3> QED
        BY <3>1 DEF Ready
    <2> QED
      BY <2>1, <2>2, <2>3, <2>4
  <1>5. \/ pc' = "idle" /\ f = "sync_reset" /\ ret'.op = f
        \/ pc' \in {"loop", "fetch"} /\ (f = "next_tnt" => pc' = "loop")
    <2>1. synced = TRUE
      BY <1>2 DEF IInv, DataOK
    <2>2. CASE f = "sync_reset"
      <3>1. synced = (f = "sync_reset")
        BY <2>1, <2>2, Zenon
      <3>2. pc' = "idle" /\ ret' = [op |-> f, rc |-> IF synced THEN "synced" ELSE "not_synced"]
        BY <3>1 DEF Call
      <3> QED
        BY <2>2, <3>2
    <2>3. CASE f # "sync_reset"
      BY <2>1, <2>3 DEF Call
    <2> QED
      BY <2>2, <2>3
  <1> QED
    BY <1>1, <1>3, <1>4, <1>5 DEF EventOK

\* A message is fetched for try_retire or next_tnt.
LEMMA EventFetchNew ==
  ASSUME Conforming, IInv, IInv', DInv, StreamOK, EventOK, FetchNew
  PROVE  EventOK'
  <1> SUFFICES ASSUME Sound' PROVE EventOK'
    BY DEF EventOK
  <1>1. PICK m \in Msgs : Comes(m) /\ Goes(m)
    BY Fetched
  <1>2. /\ pc = "fetch" /\ ~msg_present /\ UNCHANGED <<res_icnt, synced, op>>
        /\ pc' \in {"idle", "lookahead", "got"}
        /\ pc' = "idle" => ret'.rc = "unsupported" /\ ret'.op = op
    BY <1>1 DEF Comes, Goes, resVars, consumedVars
  <1>3. Sound /\ synced
    BY <1>2 DEF Sound
  <1>4. op \in {"try_retire", "next_tnt"}
    BY <1>2, <1>3 DEF DInv, OpOK, Heeds, Held, Functions, IInv, ControlOK
  <1>5. op = "next_tnt" => Waits'
    <2> SUFFICES ASSUME op = "next_tnt" PROVE Waits'
      OBVIOUS
    <2>1. AvailableIcnt > 0
      BY <1>2, <1>3 DEF EventOK, Waits
    <2>2. res_icnt' # 0
      BY <1>2, <2>1, IcntLeftOver DEF IcntLeft, Live
    <2>3. AvailableIcnt' \in Nat /\ AvailableIcnt' # 0
      BY <2>2, IcntLeftNext DEF IcntLeft, Live, Sound
    <2> QED
      BY <2>3 DEF Waits
  <1> QED
    BY <1>2, <1>4, <1>5 DEF EventOK, Ready

\* The instructions of a ResourceFull are still available when it is accumulated.
LEMMA EventPullRes ==
  ASSUME IInv, IInv', EventOK, PullRes
  PROVE  EventOK'
  <1>1. /\ pc = "got" /\ pc' = "loop" /\ op' = op /\ op \in {"try_retire", "next_tnt"}
        /\ is_res(msg) /\ msg_present /\ ~msg_present' /\ synced /\ consumed_icnt' = consumed_icnt
        /\ PullError = "none" /\ res_icnt' = IcntPulled
    BY DEF PullRes, Pulling, Goto, IInv, ControlOK, consumedVars
  <1>2. Sound
    BY <1>1 DEF Sound
  <1>3. res_icnt' = Wrap(res_icnt + IcntOf(msg))
    <2>1. CASE has_icnt(msg)
      BY <1>1, <2>1 DEF IcntPulled, IcntOf
    <2>2. CASE ~has_icnt(msg)
      <3>1. res_icnt' = res_icnt /\ IcntOf(msg) = 0
        BY <1>1, <2>2 DEF IcntPulled, IcntOf
      <3>2. Wrap(res_icnt) = res_icnt /\ res_icnt + 0 = res_icnt
        BY WrapRange, DecoderAssumption DEF IInv, IcntOK
      <3> QED
        BY <3>1, <3>2
    <2> QED
      BY <2>1, <2>2
  <1>4. consumed_icnt = 0
    BY <1>1 DEF IInv, IcntOK
  <1>5. AvailableIcnt = Wrap(res_icnt + IcntOf(msg)) - 0
    BY <1>1, <1>4 DEF AvailableIcnt
  <1>6. AvailableIcnt' = res_icnt' /\ AvailableIcnt' \in Nat
    BY <1>1, IcntLeftNext DEF IcntLeft, Live
  <1>7. AvailableIcnt' = AvailableIcnt
    BY <1>3, <1>5, <1>6
  <1>8. op = "next_tnt" => Waits'
    <2>1. op = "next_tnt" => Waits
      BY <1>1, <1>2 DEF EventOK
    <2>2. Waits => AvailableIcnt > 0
      BY <1>1, BranchKinds DEF Waits
    <2> QED
      BY <1>7, <2>1, <2>2 DEF Waits
  <1> QED
    BY <1>1, <1>8 DEF EventOK, Ready

\* What is left when n instructions are retired.
LEMMA EventConsume ==
  ASSUME IInv, IInv', pc = "loop", Live', NEW n \in Nat, n <= AvailableIcnt, ConsumeIcnt(n),
         UNCHANGED <<msg, msg_present, res_tnts, consumed_tnts>>
  PROVE  AvailableIcnt' = AvailableIcnt - n /\ AvailableTnts' = AvailableTnts
  <1>1. /\ AvailableIcnt = res_icnt + (IF msg_present THEN IcntOf(msg) ELSE 0) - consumed_icnt
        /\ AvailableIcnt \in Nat
    BY IcntLeftOver DEF IcntLeft, Live
  <1>2. AvailableIcnt' = res_icnt' + (IF msg_present THEN IcntOf(msg) ELSE 0) - consumed_icnt'
    BY IcntLeftNext DEF IcntLeft
  <1>3. res_icnt \in Nat /\ consumed_icnt \in Nat /\ IcntOf(msg) \in Nat
    <2>1. res_icnt \in Nat /\ consumed_icnt \in Nat
      BY DEF IInv, IcntOK
    <2>2. msg \in FitMessages
      BY DEF IInv, DataOK
    <2>3. IcntOf(msg) \in 0 .. UINT32_MAX
      BY <2>2, Counts
    <2>4. IcntOf(msg) \in Nat
      BY <2>3
    <2> QED
      BY <2>1, <2>4
  <1>4. PICK b \in Nat : b = IF msg_present THEN IcntOf(msg) ELSE 0
    BY <1>3
  <1>5. AvailableIcnt' = AvailableIcnt - n
    <2>1. AvailableIcnt = res_icnt + b - consumed_icnt /\ AvailableIcnt' = res_icnt' + b - consumed_icnt'
      BY <1>1, <1>2, <1>4
    <2>2. CASE res_icnt >= n
      BY <1>3, <2>1, <2>2 DEF ConsumeIcnt
    <2>3. CASE ~(res_icnt >= n)
      BY <1>3, <2>1, <2>3 DEF ConsumeIcnt
    <2> QED
      BY <2>2, <2>3
  <1>6. AvailableTnts' = AvailableTnts
    BY DEF AvailableTnts
  <1> QED
    BY <1>5, <1>6

\* The event that is reported with all instructions retired can be taken.
LEMMA EventReported ==
  ASSUME Eventful(msg) \/ is_error(msg), msg_present', msg' = msg, AvailableIcnt' = 0,
         AvailableTnts' = AvailableTnts, NEW f \in Takes(EventOf(msg))
  PROVE  Ready(f)'
  <1>1. \/ EventOf(msg) = "Error"
        \/ EventOf(msg) = "Direct" /\ AvailableTnts # 0
        \/ EventOf(msg) \in {"Trap", "Indirect", "IndirectSync", "Sync", "Stop"} /\ AvailableTnts = 0
        \/ EventOf(msg) = "Direct" /\ msg.tcode \in DirectBranches
        \/ EventOf(msg) = "DirectSync" /\ msg.tcode \in DirectBranches /\ AvailableTnts = 0
    <2>1. is_branch(msg) /\ ~is_indir_branch(msg) => msg.tcode \in DirectBranches
      BY DEF is_branch, is_indir_branch, Branches
    <2>2. CASE is_error(msg)
      <3>1. ~is_branch(msg) /\ ~is_indir_branch(msg) /\ ~is_sync(msg) /\ ~is_stop(msg)
        BY <2>2 DEF is_error, is_branch, is_indir_branch, is_sync, is_stop, Branches, DirectBranches,
                    IndirectBranches, HistBranches, Syncs
      <3> QED
        BY <2>2, <3>1 DEF EventOf
    <2>3. CASE ~is_error(msg) /\ AvailableTnts # 0
      BY <2>3 DEF EventOf
    <2>4. CASE ~is_error(msg) /\ AvailableTnts = 0 /\ is_branch(msg)
      <3>1. ~is_stop(msg)
        BY <2>4 DEF is_branch, is_stop, Branches, DirectBranches, IndirectBranches, HistBranches
      <3>2. CASE is_indir_branch(msg)
        BY <2>4, <3>1, <3>2 DEF EventOf
      <3>3. CASE ~is_indir_branch(msg)
        BY <2>1, <2>4, <3>1, <3>3 DEF EventOf
      <3> QED
        BY <3>2, <3>3
    <2>5. CASE ~is_error(msg) /\ AvailableTnts = 0 /\ ~is_branch(msg)
      <3>1. ~is_indir_branch(msg) /\ (is_sync(msg) \/ is_stop(msg))
        BY <2>5, BranchKinds DEF Eventful
      <3>2. ~(is_sync(msg) /\ is_stop(msg))
        BY DEF is_sync, is_stop, Syncs
      <3> QED
        BY <2>5, <3>1, <3>2 DEF EventOf
    <2> QED
      BY <2>2, <2>3, <2>4, <2>5
  <1>2. PICK e : e = EventOf(msg) /\ f \in Takes(e)
    OBVIOUS
  <1>3. CASE e = "Error"
    BY <1>2, <1>3 DEF Takes, Ready
  <1>4. CASE e = "Direct" /\ (AvailableTnts # 0 \/ msg.tcode \in DirectBranches)
    BY <1>2, <1>4 DEF Takes, Ready, Waits
  <1>6. CASE e = "DirectSync" /\ msg.tcode \in DirectBranches /\ AvailableTnts = 0
    BY <1>2, <1>6 DEF Takes, Ready, Waits, Clear
  <1>5. CASE e \in {"Trap", "Indirect", "IndirectSync", "Sync", "Stop"} /\ AvailableTnts = 0
    <2>1. Clear'
      BY <1>5 DEF Clear
    <2>2. f # "next_tnt"
      BY <1>2, <1>5 DEF Takes
    <2> QED
      BY <2>1, <2>2 DEF Ready
  <1> QED
    BY <1>1, <1>2, <1>3, <1>4, <1>5, <1>6

\* Every step keeps EventOK.
LEMMA EventStep == Conforming /\ Inv /\ IInv' /\ [Next]_vars => EventOK'
  <1> SUFFICES ASSUME Conforming, Inv, IInv', [Next]_vars PROVE EventOK'
    OBVIOUS
  <1> USE DEF Return, Fail, Abort, Goto
  <1>0. /\ IInv /\ DInv /\ StreamOK /\ ResOK /\ EventOK /\ DataOK /\ ControlOK /\ OpOK
        /\ aborted' = "none" /\ EventsCanBeTaken /\ EventsCanBeTaken'
    BY NoAbort DEF Inv, IInv, DInv, AssertionsHold
  <1>s. ASSUME Sound' PROVE synced'
    BY <1>s DEF Sound
  <1>1. ASSUME NEW f, NEW n, Call(f, n) PROVE EventOK'
    BY <1>0, <1>1, EventCall
  <1>2. CASE TakeUnsupported
    <2>1. ret'.rc = "retry" /\ ret'.op = ret.op
      BY <1>0, <1>2, StreamTakeUnsupported
    <2>2. /\ UNCHANGED <<res_icnt, res_tnts, consumed_icnt, consumed_tnts, msg, msg_present, synced, pc, aborted>>
          /\ pc = "idle" /\ aborted = "none" /\ ret.rc = "unsupported"
      BY <1>2 DEF TakeUnsupported, stateVars, resVars, consumedVars
    <2>3. Sound' => Sound
      BY <2>2 DEF Sound, Alive
    <2>4. Waits' <=> Waits
      BY <2>2, SameLeft
    <2> QED
      BY <1>0, <2>1, <2>2, <2>3, <2>4 DEF EventOK
  <1>3. CASE Stopped \/ UNCHANGED vars \/ StackCalls
    <2>1. UNCHANGED <<res_icnt, res_tnts, consumed_icnt, consumed_tnts, msg, msg_present, synced, pc, op, ret,
                      aborted>>
      BY <1>3 DEF Stopped, StackCalls, PushCall, PopRet, vars, stateVars, resVars, consumedVars
    <2>2. /\ Waits' <=> Waits
          /\ \A f : Ready(f)' <=> Ready(f)
      BY <2>1, SameLeft
    <2>3. Sound' <=> Sound
      BY <2>1 DEF Sound, Alive
    <2> QED
      BY <1>0, <2>1, <2>2, <2>3 DEF EventOK
  <1>4. CASE FetchExisting \/ PullKeeps
    <2>1. /\ UNCHANGED <<res_icnt, res_tnts, consumed_icnt, consumed_tnts, msg, msg_present, synced, op>>
          /\ pc \in {"fetch", "got"} /\ pc' \in {"got", "loop"}
      BY <1>4 DEF FetchExisting, PullKeeps, Pulling, untouched, stateVars, resVars, consumedVars
    <2>2. CASE Sound'
      BY <1>0, <2>1, <2>2, EventKept DEF EventFrame, Sound
    <2>3. CASE ~Sound'
      BY <2>3 DEF EventOK
    <2> QED
      BY <2>2, <2>3
  <1>5. CASE FetchNew
    BY <1>0, <1>5, EventFetchNew
  <1>6. CASE LookAhead
    <2>1. /\ pc = "lookahead" /\ pc' = "got" /\ UNCHANGED <<synced, op, msg_present>>
          /\ msg'.tcode = msg.tcode /\ msg'.code = msg.code /\ msg'.icnt = msg.icnt /\ msg'.hist = msg.hist
          /\ UNCHANGED <<res_icnt, res_tnts, consumed_icnt, consumed_tnts>>
      <3>1. msg_present' = msg_present
        BY <1>6 DEF LookAhead
      <3> QED
        BY <1>0, <1>6, <3>1, LookedAt DEF resVars, consumedVars
    <2>2. CASE Sound'
      BY <1>0, <2>1, <2>2, EventKept DEF EventFrame, Sound
    <2>3. CASE ~Sound'
      BY <2>3 DEF EventOK
    <2> QED
      BY <2>2, <2>3
  <1>7. CASE LookAheadEnd \/ OwnerEnd
    BY <1>7 DEF LookAheadEnd, OwnerEnd, AtEnd, Conforming
  <1>8. CASE FetchEnd \/ FetchError \/ PullFails
    <2>1. StreamEnd
      BY <1>0, <1>8, PullEnds DEF FetchEnd, FetchError, AtEnd, streamVars, StreamEnd, Alive
    <2> QED
      BY <2>1 DEF EventOK, StreamEnd, Sound
  <1>9. CASE PullRes
    BY <1>0, <1>9, EventPullRes
  <1>10. CASE RetireSome
    <2>1. /\ pc = "loop" /\ arg < AvailableIcnt /\ arg \in Nat
          /\ UNCHANGED <<msg, msg_present, res_tnts, consumed_tnts>>
      BY <1>0, <1>10 DEF RetireSome, Retiring, DataOK
    <2>2. ConsumeIcnt(arg) /\ pc' = "idle" /\ ret' = [op |-> op, rc |-> "ok", event |-> "None"]
      BY <1>0, <1>10 DEF RetireSome, RetireReturns
    <2>3. Live' /\ AvailableIcnt \in Nat
      BY <1>0, <2>1, <2>2, IcntLeftOver DEF Live, Alive, IcntLeft
    <2>4. AvailableIcnt' = AvailableIcnt - arg
      BY <1>0, <2>1, <2>2, <2>3, EventConsume
    <2>5. Waits'
      BY <2>1, <2>3, <2>4 DEF Waits
    <2>6. \A f \in Takes("None") : Ready(f)'
      BY <2>5 DEF Takes, Ready
    <2> QED
      BY <2>2, <2>6 DEF EventOK
  <1>11. CASE RetirePulls
    <2>1. pc' = "fetch" /\ op' = op /\ op = "try_retire"
      BY <1>0, <1>11 DEF RetirePulls, Retiring, untouched
    <2> QED
      BY <2>1 DEF EventOK, Ready
  <1>12. CASE RetireAll
    <2>1. /\ pc = "loop" /\ ~more /\ UNCHANGED <<msg, msg_present, res_tnts, consumed_tnts, synced>>
          /\ op = "try_retire"
      BY <1>12 DEF RetireAll, Retiring, stateVars
    <2>2. /\ ConsumeIcnt(AvailableIcnt) /\ pc' = "idle"
          /\ ret' = [op |-> op, rc |-> "ok", event |-> EventOf(msg)]
      BY <1>0, <1>12 DEF RetireAll, RetireReturns
    <2>3. Live' /\ AvailableIcnt \in Nat
      BY <1>0, <2>1, <2>2, IcntLeftOver DEF Live, Alive, IcntLeft
    <2>4. AvailableIcnt' = 0 /\ AvailableTnts' = AvailableTnts
      BY <1>0, <2>1, <2>2, <2>3, EventConsume
    <2>5. msg_present /\ Sound
      BY <1>0, <2>1 DEF ControlOK, Sound
    <2>6. Eventful(msg) \/ is_error(msg)
      BY <1>0, <2>1, <2>5 DEF StreamOK, MsgOK, ResOK, PlaceOK
    <2>7. \A f \in Takes(EventOf(msg)) : Ready(f)'
      BY <2>1, <2>4, <2>5, <2>6, EventReported
    <2>8. ret'.event = EventOf(msg) /\ ret'.op = "try_retire" /\ ret'.rc = "ok"
      BY <2>1, <2>2
    <2> QED
      BY <2>2, <2>7, <2>8 DEF EventOK
  <1>13. CASE TntSeeks
    <2>1. /\ UNCHANGED <<res_icnt, res_tnts, consumed_icnt, consumed_tnts, msg, msg_present, synced, op>>
          /\ pc = "loop" /\ pc' = IF AvailableTnts # 0 THEN "drain" ELSE "fetch"
      BY <1>0, <1>13 DEF TntSeeks, Branching, untouched, stateVars, resVars, consumedVars
    <2>2. CASE AvailableTnts # 0 \/ ~Sound'
      BY <1>0, <2>1, <2>2, EventKept DEF EventQuiet
    <2>3. CASE AvailableTnts = 0 /\ Sound'
      BY <1>0, <2>1, <2>3, EventKept DEF EventFrame, Sound
    <2> QED
      BY <2>2, <2>3
  <1>14. CASE DrainEmpty \/ NextIndirect \/ SyncFound \/ ErrorDrops \/ ErrorDrains
    <2>1. (NextIndirect => Refusal(is_indir_branch(msg)) = "none") /\ (ErrorDrops => is_error(msg))
      BY TakesEvents DEF NextIndirect, ErrorDrops
    <2>2. pc' \in {"drain", "sync", "owner", "error"}
      BY <1>14, <2>1 DEF DrainEmpty, NextIndirect, SyncFound, ErrorDrops, ErrorDrains
    <2> QED
      BY <1>0, <2>2, EventKept DEF EventQuiet
  <1>15. CASE SyncSkip \/ NextStop \/ ErrorRetires
    <2>1. NextStop => Refusal(is_stop(msg)) = "none"
      BY TakesEvents DEF NextStop
    <2>2. ~synced'
      BY <1>0, <1>15, <2>1 DEF SyncSkip, NextStop, ErrorRetires, untouched, stateVars, ControlOK
    <2> QED
      BY <1>s, <2>2 DEF EventOK
  <1>16. CASE TntFromMsg \/ TntFromElement
    <2>1. pc = "drain" /\ pc' = "idle" /\ ret'.op = op /\ ret'.rc = "ok"
      BY <1>0, <1>16 DEF TntFromMsg, TntFromElement, Drained, Deliver
    <2>2. ret'.op = "next_tnt"
      BY <1>0, <2>1 DEF OpOK
    <2> QED
      BY <1>0, <2>1, <2>2, EventKept DEF EventQuiet, Functions
  <1>17. CASE TntFromBranch
    <2>1. pc = "loop" /\ pc' = "idle" /\ op = "next_tnt"
      BY <1>17 DEF TntFromBranch, Branching
    <2>2. ret'.op = "next_tnt" /\ ret'.rc \notin {"unsupported", "retry"}
      BY <1>0, <1>17, TntBranchReturns
    <2> QED
      BY <1>0, <2>1, <2>2, EventKept DEF EventQuiet, Functions
  <1>18. CASE Owner
    <2>1. pc = "owner" /\ pc' = "idle" /\ \E b : ret' = [ret EXCEPT !.ownership = b]
      BY <1>18 DEF Owner
    <2>2. ret'.op = "next_indirect" /\ ret'.rc = "ok"
      BY <1>0, <2>1 DEF OpOK
    <2> QED
      BY <1>0, <2>1, <2>2, EventKept DEF EventQuiet, Functions
  <1>19. CASE NextSync
    <2>1. op \in {"next_sync", "sync_reset"}
      BY <1>0, <1>19 DEF NextSync, OpOK
    <2>2. pc' = "idle" /\ ret'.op = op /\ ret'.rc \in {"ok", "mismatch"}
      <3>1. CASE is_branch(msg)
        BY <1>19, <3>1, SyncDeclined
      <3>2. CASE ~is_branch(msg)
        BY <1>19, <3>2, SyncTaken DEF NextSync
      <3> QED
        BY <3>1, <3>2
    <2> QED
      BY <1>0, <2>1, <2>2, EventKept DEF EventQuiet, Functions
  <1> QED
    BY <1>1, <1>2, <1>3, <1>4, <1>5, <1>6, <1>7, <1>8, <1>9, <1>10, <1>11, <1>12, <1>13, <1>14, <1>15,
       <1>16, <1>17, <1>18, <1>19
    DEF Next, Calls, Steps, Fetches

-----------------------------------------------------------------------------
(***************************************************************************)
(* The theorems.                                                           *)
(***************************************************************************)
\* The invariant holds throughout, while the pending TNT bits fit the counter.
LEMMA AlwaysInv == Conforming /\ Spec /\ []TntsFit => []Inv
  <1> SUFFICES ASSUME Conforming PROVE Spec /\ []TntsFit => []Inv
    OBVIOUS
  <1>0. ~TornEnd /\ Disciplined
    BY DEF Conforming
  <1> DEFINE Own == StreamOK /\ ResOK /\ EventOK /\ AssertionsHold /\ EventsCanBeTaken
             Given == IInv /\ DInv /\ DrainOK /\ TntOwed /\ TntsFit
  <1>1. Init => Own
    <2> SUFFICES ASSUME Init PROVE Own
      OBVIOUS
    <2>1. ret.op = "none" /\ ret.rc = "ok" /\ aborted = "none" /\ ~synced /\ pc = "idle" /\ ~msg_present
          /\ ahead = << >> /\ prev = "none" /\ res_hists = << >> /\ Len(res_hists) = 0
      BY DEF Init
    <2>2. StreamOK
      BY <2>1 DEF StreamOK, AheadOK, BranchOK, MsgOK, AsideKept, Branches, DirectBranches, IndirectBranches,
                  HistBranches, Sound
    <2>3. ResOK /\ EventOK
      BY <2>1 DEF ResOK, LooseOK, PlaceOK, ElementsOK, EventOK, Sound
    <2> QED
      BY <2>1, <2>2, <2>3 DEF AssertionsHold, EventsCanBeTaken
  <1>2. Given /\ Own /\ [Next]_vars /\ Given' => Own'
    <2>1. Given /\ Own => Inv
      BY DEF Inv
    <2> QED
      BY <2>1, NoAbort, StreamStep, ResStep, EventStep
  <1>3. Spec /\ []TntsFit => []Given
    BY <1>0, AlwaysDInv, AlwaysTntOwed, PTL
  <1>4. Given /\ Own => Inv
    BY DEF Inv
  <1> HIDE DEF Own, Given
  <1> QED
    BY <1>1, <1>2, <1>3, <1>4, PTL DEF Spec

\* For every conforming stream within the limits of check_msg, every failure and
\* every caller that takes the events it is told of, and as long as less than
\* 2^32 TNT bits are pending: no assert() of trace-decoder.c fails.
THEOREM ConformingNeverAborts == Conforming /\ Spec /\ []TntsFit => []AssertionsHold
  <1>1. Inv => AssertionsHold
    BY DEF Inv
  <1> QED
    BY <1>1, AlwaysInv, PTL

\* For the same streams, failures and callers, which may try every function the
\* header names for the event nexusrv_trace_try_retire reported: the only call
\* that returns -nexus_trace_mismatch is next_sync at a branch with sync, and
\* the branch is then left to be taken by next_tnt or next_indirect.
THEOREM ConformingEventsTaken == Conforming /\ Spec /\ []TntsFit => []EventsCanBeTaken
  <1>1. Inv => EventsCanBeTaken
    BY DEF Inv
  <1> QED
    BY <1>1, AlwaysInv, PTL
=============================================================================
