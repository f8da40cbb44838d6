----------------------- MODULE TraceConservationProofs -----------------------
(***************************************************************************)
(* Proofs about TraceDecoder for every set of messages, every stream,      *)
(* every caller and every width of the counters.  First its types and the  *)
(* assertions on instruction counts, then that it loses and invents        *)
(* nothing: instructions, addresses, times and TNT bits of the messages    *)
(* read come out once, and TNT bits in their order.                        *)
(***************************************************************************)
EXTENDS TraceDecoder, SequenceTheorems, TLAPS

-----------------------------------------------------------------------------
(***************************************************************************)
(* Arithmetic.                                                             *)
(***************************************************************************)
\* Reduction modulo 2^32 yields a 32 bit number, and keeps those it is given.
LEMMA WrapRange ==
  ASSUME NEW n \in Nat
  PROVE  /\ Wrap(n) \in 0 .. UINT32_MAX
         /\ n <= UINT32_MAX => Wrap(n) = n
  BY DecoderAssumption DEF Wrap

\* Time stays a natural number.
LEMMA LaterInNat ==
  ASSUME NEW t \in Nat, NEW d \in Nat
  PROVE  Later(t, d) \in Nat /\ Spent(d) \in Nat
  <1>1. \A a, b \in Nat : XorBit(a, b, 1) \in Nat
    BY DEF XorBit
  <1>2. \A a, b \in Nat : XorBit(a, b, 2) \in Nat
    BY DEF XorBit
  <1>3. Xor(t, d) \in Nat
    BY <1>1, <1>2 DEF Xor
  <1> QED
    BY <1>3 DEF Later, Spent

-----------------------------------------------------------------------------
(***************************************************************************)
(* The inductive invariant, in three parts.                                *)
(***************************************************************************)
Fits(h) == Len(h) <= HIST_BITS
FitMessages == { m \in Messages : Fits(m.hist) }
FitElements == { e \in Element : Fits(e.hist) }

Places == {"idle", "loop", "fetch", "lookahead", "got", "drain", "sync", "error", "owner"}

\* The data have their types, and a message is there where one is used.
DataOK == /\ msg_present \in BOOLEAN /\ synced \in BOOLEAN /\ more \in BOOLEAN
          /\ msg \in FitMessages
          /\ res_hists \in Seq(FitElements)
          /\ full_addr \in SUBSET (0 .. WordBits - 1)
          /\ timestamp \in Nat
          /\ callstack \in Seq(CallSites) /\ Len(callstack) <= MaxStack
          /\ pc \in Places /\ arg \in Nat

\* Where a call is: only a branch is looked behind, messages are only skipped while not synchronized, and
\* everything but sync_reset runs synchronized.
ControlOK == /\ pc \in {"lookahead", "got", "sync", "error"} => msg_present
             /\ pc = "lookahead" => LooksAhead(msg) /\ msg.hrepeat = 0
             /\ pc = "loop" /\ ~more => msg_present
             /\ pc \in {"fetch", "lookahead", "got"} => more
             /\ pc \in {"fetch", "lookahead", "got"} /\ op = "sync_reset" => ~synced
             /\ pc # "idle" /\ op # "sync_reset" => synced

\* Instructions: those of the buffered message are consumed only when no
\* accumulated ones are left, never more than it has, and with the room kept
\* in res_icnt no sum overflows.
IcntOK == /\ res_icnt \in 0 .. UINT32_MAX /\ consumed_icnt \in 0 .. UINT32_MAX
          /\ msg_present /\ has_icnt(msg) => msg.icnt <= MSG_ICNT_MAX
          /\ consumed_icnt # 0 => /\ msg_present /\ ~is_res(msg)
                                  /\ res_icnt = 0
                                  /\ consumed_icnt <= IcntOf(msg)
          /\ IcntOverflow(res_icnt) => pc = "idle" /\ ~Alive
          /\ ~synced => res_icnt = 0 /\ consumed_icnt = 0
          /\ pc = "error" => res_icnt = 0 /\ consumed_icnt = 0

TntOK == res_tnts \in 0 .. UINT32_MAX /\ consumed_tnts \in 0 .. HIST_BITS - 1

IInv == DataOK /\ ControlOK /\ IcntOK /\ TntOK /\ IcntAssertionsHold

-----------------------------------------------------------------------------
(***************************************************************************)
(* What the helpers return.                                                *)
(***************************************************************************)
\* Messages of a stream are messages the decoder can hold.
LEMMA MsgsFit == \A m \in Msgs : m \in FitMessages /\ [m EXCEPT !.hrepeat = 0] \in FitMessages
  <1> SUFFICES ASSUME NEW m \in Msgs
               PROVE  m \in FitMessages /\ [m EXCEPT !.hrepeat = 0] \in FitMessages
    OBVIOUS
  <1>1. m \in Messages /\ Len(m.hist) <= HIST_BITS /\ UINT32_MAX \in Nat
    BY DecoderAssumption
  <1>2. m.hist \in Seq({0, 1}) /\ Len(m.hist) \in Nat
    BY <1>1 DEF Messages
  <1>3. Fits(m.hist)
    BY <1>1, <1>2 DEF Fits
  <1>4. 0 \in 0 .. UINT32_MAX
    BY <1>1
  <1>5. /\ [m EXCEPT !.hrepeat = 0] \in Messages
        /\ [m EXCEPT !.hrepeat = 0].hist = m.hist
    BY <1>1, <1>4 DEF Messages
  <1> QED
    BY <1>1, <1>3, <1>5 DEF FitMessages

\* Counting bits and instructions.
LEMMA Counts ==
  ASSUME NEW m \in FitMessages
  PROVE  /\ BitsOf(m) \in 0 .. HIST_BITS - 1
         /\ hist_bits(m.hist) \in 0 .. HIST_BITS - 1
         /\ IcntOf(m) \in 0 .. UINT32_MAX
         /\ IcntOf(m) = IF has_icnt(m) THEN m.icnt ELSE 0
  <1>1. m.hist \in Seq({0, 1}) /\ Len(m.hist) \in Nat /\ Len(m.hist) <= HIST_BITS
    BY DEF FitMessages, Fits, Messages
  <1>2. hist_bits(m.hist) \in 0 .. HIST_BITS - 1
    BY <1>1, DecoderAssumption DEF hist_bits
  <1>3. m.icnt \in 0 .. UINT32_MAX
    BY DEF FitMessages, Messages
  <1> QED
    BY <1>2, <1>3, DecoderAssumption DEF BitsOf, IcntOf

\* Without a refused message in the buffer nothing overflows: the count that is
\* available is what has been accumulated and buffered, less what is consumed.
LEMMA Available ==
  ASSUME IInv, pc # "idle" \/ Alive
  PROVE  /\ AvailableIcnt = res_icnt + (IF msg_present THEN IcntOf(msg) ELSE 0) - consumed_icnt
         /\ AvailableIcnt \in 0 .. UINT32_MAX
         /\ res_icnt # 0 => consumed_icnt = 0
         /\ ~msg_present => AvailableIcnt = res_icnt
         /\ AvailableIcnt = 0 => res_icnt = 0
         /\ AvailableIcnt = 0 /\ msg_present => consumed_icnt = IcntOf(msg)
         /\ res_icnt <= UINT32_MAX - MSG_ICNT_MAX
  <1> DEFINE have == IF msg_present THEN IcntOf(msg) ELSE 0
  <1>1. res_icnt \in Nat /\ res_icnt <= UINT32_MAX - MSG_ICNT_MAX /\ consumed_icnt \in Nat
    BY DecoderAssumption DEF IInv, IcntOK, IcntOverflow
  <1>2. have \in Nat /\ have <= MSG_ICNT_MAX
    BY Counts, DecoderAssumption DEF IInv, DataOK, IcntOK
  <1>3. Wrap(res_icnt + have) = res_icnt + have
    BY <1>1, <1>2, WrapRange, DecoderAssumption
  <1>4. consumed_icnt # 0 => msg_present /\ res_icnt = 0 /\ consumed_icnt <= have
    BY DEF IInv, IcntOK
  <1> QED
    BY <1>1, <1>2, <1>3, <1>4, DecoderAssumption DEF AvailableIcnt

\* A retired message stays a message, and its I-CNT in range.
LEMMA RetiredFits ==
  ASSUME NEW m \in FitMessages
  PROVE  /\ MsgRetired(m) \in FitMessages
         /\ MsgRetired(m).icnt \in {0, m.icnt}
         /\ has_icnt(MsgRetired(m)) => has_icnt(m)
  <1>1. m \in Messages /\ Fits(m.hist)
    BY DEF FitMessages
  <1>2. CASE is_branch(m) /\ is_sync(m)
    <2>1. MsgRetired(m) = [m EXCEPT !.tcode = "ProgTraceSync", !.icnt = 0, !.hist = << >>]
      BY <1>2 DEF MsgRetired
    <2>2. has_icnt(m)
      BY <1>2 DEF has_icnt, is_branch
    <2>3. /\ "ProgTraceSync" \in Tcodes /\ 0 \in 0 .. UINT32_MAX
          /\ << >> \in Seq({0, 1}) /\ Fits(<< >>)
      BY DecoderAssumption DEF Tcodes, Fits
    <2>4. MsgRetired(m) \in Messages /\ MsgRetired(m).hist = << >> /\ MsgRetired(m).icnt = 0
      BY <1>1, <2>1, <2>3 DEF Messages
    <2> QED
      BY <2>2, <2>3, <2>4 DEF FitMessages
  <1>3. CASE is_sync(m) /\ ~is_branch(m)
    BY <1>1, <1>3 DEF MsgRetired, FitMessages
  <1>4. CASE ~is_sync(m)
    <2> DEFINE h == IF is_branch(m) /\ m.hrepeat # 0 THEN m.hrepeat - 1 ELSE m.hrepeat
    <2>1. MsgRetired(m) = [m EXCEPT !.ts = Spent(m.ts), !.hrepeat = h]
      BY <1>4 DEF MsgRetired
    <2>2. Spent(m.ts) \in Nat /\ h \in 0 .. UINT32_MAX
      <3>1. m.ts \in Nat /\ m.hrepeat \in 0 .. UINT32_MAX /\ UINT32_MAX \in Nat
        BY <1>1, DecoderAssumption DEF Messages
      <3>2. Spent(m.ts) \in Nat
        BY <3>1, LaterInNat
      <3> QED
        BY <3>1, <3>2
    <2> HIDE DEF h
    <2>3. MsgRetired(m) \in FitMessages
      BY <1>1, <2>1, <2>2 DEF FitMessages, Messages, Fits
    <2> QED
      BY <1>1, <2>1, <2>3 DEF Messages, has_icnt, is_res
  <1> QED
    BY <1>2, <1>3, <1>4

\* Retiring the buffered message, which is or stems from msg.
LEMMA RetireKeepsData ==
  ASSUME IInv, NEW m \in FitMessages, NEW fa \in SUBSET (0 .. WordBits - 1),
         RetireMsg(m, fa)
  PROVE  /\ msg_present' \in BOOLEAN
         /\ msg' \in FitMessages
         /\ full_addr' \in SUBSET (0 .. WordBits - 1)
         /\ timestamp' \in Nat
         /\ callstack' \in Seq(CallSites) /\ Len(callstack') <= MaxStack
  <1>1. msg' \in FitMessages
    BY RetiredFits DEF RetireMsg
  <1>2. msg_present' \in BOOLEAN
    BY DEF RetireMsg, StaysBuffered
  <1>3. m.ts \in Nat /\ m.xaddr \in SUBSET (0 .. WordBits - 1)
    BY DEF FitMessages, Messages
  <1>4. timestamp' \in Nat
    BY <1>3, LaterInNat DEF RetireMsg, IInv, DataOK
  <1>5. full_addr' \in SUBSET (0 .. WordBits - 1)
    BY <1>3 DEF RetireMsg
  <1>6. callstack' \in Seq(CallSites) /\ Len(callstack') <= MaxStack
    BY DecoderAssumption DEF RetireMsg, IInv, DataOK
  <1> QED
    BY <1>1, <1>2, <1>4, <1>5, <1>6

\* The element a ResourceFull message becomes.
LEMMA PulledElement ==
  ASSUME NEW m \in FitMessages
  PROVE  /\ [hist |-> ElementHist(m), repeat |-> ElementRepeat(m), ts |-> m.ts] \in FitElements
         /\ hist_bits(ElementHist(m)) \in Nat /\ ElementRepeat(m) \in Nat
  <1>0. UINT32_MAX \in Nat /\ UINT32_MAX > 0 /\ HIST_BITS \in Nat /\ HIST_BITS >= 2
    BY DecoderAssumption
  <1>1. /\ m.hist \in Seq({0, 1}) /\ Fits(m.hist) /\ m.ts \in Nat
        /\ m.hrepeat \in 0 .. UINT32_MAX /\ m.icnt \in 0 .. UINT32_MAX
    BY DEF FitMessages, Messages
  <1>2. ElementRepeat(m) \in 1 .. UINT32_MAX
    BY <1>0, <1>1 DEF ElementRepeat, SifiveRepeat
  <1>3. ElementHist(m) \in Seq({0, 1}) /\ Fits(ElementHist(m))
    <2>1. << >> \in Seq({0, 1}) /\ Fits(<< >>)
      BY <1>0 DEF Fits
    <2>2. <<1, 0>> \in Seq({0, 1}) /\ Fits(<<1, 0>>)
      BY <1>0 DEF Fits
    <2>3. <<1, 1>> \in Seq({0, 1}) /\ Fits(<<1, 1>>)
      BY <1>0 DEF Fits
    <2>4. ElementHist(m) \in {m.hist, << >>, <<1, 0>>, <<1, 1>>}
      BY DEF ElementHist
    <2> QED
      BY <1>1, <2>1, <2>2, <2>3, <2>4
  <1>4. hist_bits(ElementHist(m)) \in Nat
    BY <1>3 DEF hist_bits
  <1> HIDE DEF ElementHist, ElementRepeat
  <1>5. [hist |-> ElementHist(m), repeat |-> ElementRepeat(m), ts |-> m.ts] \in Element
    BY <1>1, <1>2, <1>3 DEF Element
  <1> QED
    BY <1>2, <1>3, <1>4, <1>5 DEF FitElements

\* The first accumulated element, and what is left when it is used.
LEMMA FirstElement ==
  ASSUME IInv, res_hists # << >>
  PROVE  /\ res_hists[1] \in FitElements
         /\ res_hists[1].ts \in Nat
         /\ hist_bits(res_hists[1].hist) \in 0 .. HIST_BITS - 1
         /\ Tail(res_hists) \in Seq(FitElements)
         /\ ElementUsed(res_hists[1]) \in Seq(FitElements)
  <1> DEFINE e == res_hists[1]
             e2 == [e EXCEPT !.repeat = e.repeat - 1, !.ts = Spent(e.ts)]
  <1>0. UINT32_MAX \in Nat /\ HIST_BITS \in Nat /\ HIST_BITS >= 2
    BY DecoderAssumption
  <1>1. res_hists \in Seq(FitElements)
    BY DEF IInv, DataOK
  <1>2. e \in FitElements /\ Tail(res_hists) \in Seq(FitElements)
    BY <1>1
  <1>3. /\ e.ts \in Nat /\ e.repeat \in 1 .. UINT32_MAX /\ e.hist \in Seq({0, 1})
        /\ Fits(e.hist) /\ e \in Element
    BY <1>2 DEF FitElements, Element
  <1>4. hist_bits(e.hist) \in 0 .. HIST_BITS - 1
    BY <1>0, <1>3 DEF hist_bits, Fits
  <1>5. ASSUME e.repeat # 1 PROVE e2 \in FitElements
    <2>0. Spent(e.ts) \in Nat
      BY <1>3, LaterInNat
    <2>1. e.repeat - 1 \in 1 .. UINT32_MAX /\ Spent(e.ts) \in Nat
      BY <1>0, <1>3, <1>5, <2>0
    <2>2. e2 \in Element /\ e2.hist = e.hist
      BY <1>3, <2>1 DEF Element
    <2> QED
      BY <1>3, <2>2 DEF FitElements
  <1>6. ElementUsed(e) \in Seq(FitElements)
    <2>1. CASE e.repeat = 1
      BY <1>2, <2>1 DEF ElementUsed
    <2>2. CASE e.repeat # 1
      <3>1. ElementUsed(e) = <<e2>> \o Tail(res_hists)
        BY <2>2 DEF ElementUsed
      <3>2. e2 \in FitElements
        BY <2>2, <1>5
      <3> HIDE DEF e2
      <3>3. <<e2>> \in Seq(FitElements)
        BY <3>2
      <3> QED
        BY <1>2, <3>1, <3>3, ConcatProperties
    <2> QED
      BY <2>1, <2>2
  <1> QED
    BY <1>2, <1>3, <1>4, <1>6

-----------------------------------------------------------------------------
(***************************************************************************)
(* Every step keeps the types of the data.                                 *)
(***************************************************************************)
LEMMA DataStep == IInv /\ [Next]_vars => DataOK'
  <1> SUFFICES ASSUME IInv, [Next]_vars PROVE DataOK'
    OBVIOUS
  <1> USE DEF Return, Fail, Abort, Goto, Places
  <1>0. DataOK
    BY DEF IInv
  <1>1. ASSUME NEW f, NEW n \in Nat, Call(f, n) PROVE DataOK'
    <2>1. Least(n, INT32_MAX) \in Nat
      BY DecoderAssumption DEF Least
    <2>2. pc' \in Places
      BY <1>1 DEF Call
    <2> QED
      BY <1>0, <1>1, <2>1, <2>2 DEF Call, DataOK, stateVars, resVars
  <1>2. CASE TakeUnsupported
    <2>1. timestamp' \in Nat
      <3>1. ASSUME NEW m \in Msgs, timestamp' = Later(timestamp, m.ts) PROVE timestamp' \in Nat
        BY <1>0, <3>1, LaterInNat, MsgsFit DEF DataOK, FitMessages, Messages
      <3> QED
        BY <1>0, <1>2, <3>1 DEF TakeUnsupported, DataOK
    <2> QED
      BY <1>0, <1>2, <2>1 DEF TakeUnsupported, DataOK, stateVars, resVars
  <1>3. ASSUME NEW a \in CallSites, PushCall(a) PROVE DataOK'
    <2>1. callstack' \in Seq(CallSites) /\ Len(callstack') <= MaxStack
      BY <1>0, <1>3, DecoderAssumption DEF PushCall, Stack!PushOn, DataOK
    <2> QED
      BY <1>0, <1>3, <2>1 DEF PushCall, DataOK, resVars
  <1>4. CASE PopRet
    <2>1. callstack \in Seq(CallSites) /\ callstack # << >> /\ Len(callstack) <= MaxStack
          /\ callstack' = SubSeq(callstack, 1, Len(callstack) - 1) /\ Len(callstack) \in Nat
      BY <1>0, <1>4 DEF PopRet, Stack!PopOff, DataOK
    <2>2. callstack' \in Seq(CallSites) /\ Len(callstack') <= MaxStack
      BY <2>1, DecoderAssumption, SubSeqProperties
    <2> QED
      BY <1>0, <1>4, <2>2 DEF PopRet, DataOK, resVars
  <1>5. CASE FetchExisting
    BY <1>0, <1>5 DEF FetchExisting, DataOK, untouched, stateVars, resVars
  <1>6. CASE FetchNew
    <2>1. PICK m \in Msgs : /\ msg' = IF LooksAhead(m) THEN [m EXCEPT !.hrepeat = 0] ELSE m
                            /\ msg_present' = check_msg(m)
                            /\ pc' \in {"lookahead", "got", "idle"}
      BY <1>6 DEF FetchNew
    <2>2. msg' \in FitMessages
      BY <2>1, MsgsFit
    <2>3. msg_present' \in BOOLEAN
      BY <2>1 DEF check_msg
    <2> QED
      BY <1>0, <1>6, <2>1, <2>2, <2>3 DEF FetchNew, DataOK, untouched, stateVars, resVars
  <1>7. CASE LookAhead \/ LookAheadEnd
    <2>1. PICK h \in 0 .. UINT32_MAX : msg' \in {msg, [msg EXCEPT !.hrepeat = h]}
      <3>1. CASE LookAhead
        <4>1. PICK m \in Msgs : msg' = IF m.tcode = "RepeatBranch"
                                         THEN [msg EXCEPT !.hrepeat = m.hrepeat] ELSE msg
          BY <3>1 DEF LookAhead
        <4>2. m.hrepeat \in 0 .. UINT32_MAX
          BY MsgsFit DEF FitMessages, Messages
        <4> QED
          BY <4>1, <4>2
      <3> QED
        BY <1>7, <3>1 DEF LookAheadEnd
    <2>2. [msg EXCEPT !.hrepeat = h] \in FitMessages
      BY <1>0 DEF DataOK, FitMessages, Messages, Fits
    <2>3. msg' \in FitMessages /\ pc' = "got"
      BY <1>0, <1>7, <2>1, <2>2 DEF LookAhead, LookAheadEnd, DataOK
    <2>4. UNCHANGED <<msg_present, untouched>>
      BY <1>7 DEF LookAhead, LookAheadEnd
    <2> QED
      BY <1>0, <2>3, <2>4 DEF DataOK, untouched, stateVars, resVars
  <1>8. CASE FetchEnd \/ FetchError
    BY <1>0, <1>8 DEF FetchEnd, FetchError, DataOK, untouched, stateVars, resVars
  <1>9. CASE PullKeeps \/ PullFails
    BY <1>0, <1>9 DEF PullKeeps, PullFails, DataOK, stateVars, resVars
  <1>10. CASE PullRes
    <2> DEFINE e == [hist |-> ElementHist(msg), repeat |-> ElementRepeat(msg), ts |-> msg.ts]
    <2>1. e \in FitElements /\ res_hists' = Append(res_hists, e)
      BY <1>0, <1>10, PulledElement DEF PullRes, DataOK
    <2> HIDE DEF e
    <2>2. res_hists' \in Seq(FitElements)
      BY <1>0, <2>1 DEF DataOK
    <2> QED
      BY <1>0, <1>10, <2>2 DEF PullRes, DataOK, stateVars
  <1>11. CASE RetireSome \/ RetireAll
    <2>1. pc' = "idle"
      BY <1>11 DEF RetireSome, RetireAll, RetireReturns
    <2> QED
      BY <1>0, <1>11, <2>1 DEF RetireSome, RetireAll, DataOK, stateVars
  <1>12. CASE RetirePulls \/ TntSeeks
    BY <1>0, <1>12 DEF RetirePulls, TntSeeks, DataOK, untouched, stateVars, resVars
  <1>13. CASE DrainEmpty \/ ErrorDrains
    <2>1. res_hists # << >> /\ timestamp' = Later(timestamp, res_hists[1].ts)
          /\ res_hists' = Tail(res_hists) /\ pc' \in Places
      BY <1>13 DEF DrainEmpty, ErrorDrains, EmptyInFront
    <2>2. res_hists' \in Seq(FitElements) /\ timestamp' \in Nat
      BY <1>0, <2>1, FirstElement, LaterInNat DEF DataOK
    <2> QED
      BY <1>0, <1>13, <2>1, <2>2 DEF DrainEmpty, ErrorDrains, DataOK, stateVars
  <1>14. CASE TntFromMsg
    <2>1. pc' = "idle"
      BY <1>14 DEF TntFromMsg, Deliver
    <2> QED
      BY <1>0, <1>14, <2>1 DEF TntFromMsg, DataOK, stateVars, resVars
  <1>15. CASE TntFromElement
    <2>1. pc' = "idle"
      BY <1>15 DEF TntFromElement, Deliver
    <2>2. \/ UNCHANGED <<res_hists, timestamp>>
          \/ /\ res_hists # << >>
             /\ timestamp' = Later(timestamp, res_hists[1].ts)
             /\ res_hists' = ElementUsed(res_hists[1])
      BY <1>15 DEF TntFromElement
    <2>3. res_hists' \in Seq(FitElements) /\ timestamp' \in Nat
      BY <1>0, <2>2, FirstElement, LaterInNat DEF DataOK
    <2> QED
      BY <1>0, <1>15, <2>1, <2>3 DEF TntFromElement, DataOK, stateVars
  <1>16. CASE TntFromBranch
    <2>1. pc' = "idle"
      BY <1>16 DEF TntFromBranch
    <2>2. CASE RetireMsg(msg, full_addr)
      <3>1. msg \in FitMessages /\ full_addr \in SUBSET (0 .. WordBits - 1)
        BY <1>0 DEF DataOK
      <3> QED
        BY <1>0, <1>16, <2>1, <2>2, <3>1, RetireKeepsData DEF TntFromBranch, DataOK, resVars
    <2>3. CASE UNCHANGED <<msg, msg_present, consumedVars, full_addr, callstack, timestamp>>
      BY <1>0, <1>16, <2>1, <2>3 DEF TntFromBranch, DataOK, resVars
    <2> QED
      BY <1>16, <2>2, <2>3 DEF TntFromBranch
  <1>17. CASE NextIndirect
    <2> DEFINE fa == IF is_sync(msg) THEN msg.xaddr ELSE XorSet(full_addr, msg.xaddr)
    <2>1. pc' \in {"idle", "owner"}
      BY <1>17 DEF NextIndirect, Refuse
    <2>2. CASE RetireMsg(AddressUsed(msg), fa) /\ synced' = synced
      <3>1. AddressUsed(msg) \in FitMessages
        <4>1. [msg EXCEPT !.xaddr = {}] \in FitMessages
          BY <1>0 DEF DataOK, FitMessages, Messages, Fits
        <4> QED
          BY <1>0, <4>1 DEF AddressUsed, DataOK
      <3>2. fa \in SUBSET (0 .. WordBits - 1)
        BY <1>0 DEF DataOK, FitMessages, Messages, XorSet
      <3> HIDE DEF fa
      <3> QED
        BY <1>0, <1>17, <2>1, <2>2, <3>1, <3>2, RetireKeepsData DEF NextIndirect, DataOK, resVars
    <2>3. CASE UNCHANGED <<msg, msg_present, consumedVars, stateVars, timestamp>>
      BY <1>0, <1>17, <2>1, <2>3 DEF NextIndirect, DataOK, resVars, stateVars
    <2> QED
      BY <1>17, <2>2, <2>3 DEF NextIndirect, Refuse
  <1>18. CASE Owner \/ OwnerEnd
    BY <1>0, <1>18 DEF Owner, OwnerEnd, DataOK, untouched, stateVars, resVars
  <1>19. CASE SyncSkip
    BY <1>0, <1>19 DEF SyncSkip, DataOK, untouched, stateVars, resVars
  <1>20. CASE SyncFound
    <2>1. /\ "ProgTraceSync" \in Tcodes /\ 0 \in 0 .. UINT32_MAX
          /\ << >> \in Seq(FitElements)
      BY DecoderAssumption DEF Tcodes
    <2>2. msg \in Messages /\ Fits(msg.hist)
      BY <1>0 DEF DataOK, FitMessages
    <2>3. msg' \in Messages /\ msg'.hist = msg.hist
      BY <1>20, <2>1, <2>2 DEF SyncFound, Messages
    <2>4. msg' \in FitMessages
      BY <2>2, <2>3 DEF FitMessages
    <2> QED
      BY <1>0, <1>20, <2>1, <2>4 DEF SyncFound, DataOK
  <1>21. CASE NextSync \/ NextStop \/ ErrorRetires
    <2>1. pc' = "idle"
      BY <1>21 DEF NextSync, NextStop, ErrorRetires, Refuse
    <2>2. CASE RetireMsg(msg, full_addr) /\ synced' \in BOOLEAN
      <3>1. msg \in FitMessages /\ full_addr \in SUBSET (0 .. WordBits - 1)
        BY <1>0 DEF DataOK
      <3> QED
        BY <1>0, <1>21, <2>1, <2>2, <3>1, RetireKeepsData
        DEF NextSync, NextStop, ErrorRetires, DataOK, resVars
    <2>3. CASE UNCHANGED <<msg, msg_present, consumedVars, stateVars, timestamp>>
      BY <1>0, <1>21, <2>1, <2>3 DEF NextSync, NextStop, ErrorRetires, DataOK, resVars, stateVars
    <2> QED
      BY <1>0, <1>21, <2>2, <2>3 DEF NextSync, NextStop, ErrorRetires, Refuse, DataOK
  <1>22. CASE ErrorDrops
    BY <1>0, <1>22 DEF ErrorDrops, DataOK, stateVars
  <1>23. CASE Stopped \/ UNCHANGED vars
    BY <1>0, <1>23 DEF Stopped, vars, DataOK, stateVars, resVars
  <1>24. Requests \subseteq Nat /\ 0 \in Nat
    BY DecoderAssumption
  <1> QED
    BY <1>1, <1>2, <1>3, <1>4, <1>5, <1>6, <1>7, <1>8, <1>9, <1>10, <1>11, <1>12, <1>13,
       <1>14, <1>15, <1>16, <1>17, <1>18, <1>19, <1>20, <1>21, <1>22, <1>23, <1>24
    DEF Next, Calls, StackCalls, Steps, Fetches

-----------------------------------------------------------------------------
(***************************************************************************)
(* Every step keeps what is known of the call in progress.                 *)
(***************************************************************************)
LEMMA ControlStep == IInv /\ [Next]_vars => ControlOK'
  <1> SUFFICES ASSUME IInv, [Next]_vars PROVE ControlOK'
    OBVIOUS
  <1> USE DEF Return, Fail, Abort, Goto
  <1>0. DataOK /\ ControlOK
    BY DEF IInv
  <1>1. ASSUME NEW f, NEW n \in Nat, Call(f, n) PROVE ControlOK'
    <2>1. op' = f /\ more' = TRUE /\ synced' = synced /\ synced \in BOOLEAN
      BY <1>0, <1>1 DEF Call, stateVars, DataOK
    <2>2. \/ pc' = "idle"
          \/ pc' \in {"loop", "fetch"} /\ synced # (f = "sync_reset")
      BY <1>1 DEF Call
    <2> QED
      BY <2>1, <2>2 DEF ControlOK
  <1>2. CASE TakeUnsupported
    BY <1>0, <1>2 DEF TakeUnsupported, ControlOK
  <1>3. ASSUME NEW a \in CallSites, PushCall(a) PROVE ControlOK'
    BY <1>0, <1>3 DEF PushCall, ControlOK
  <1>4. CASE PopRet
    BY <1>0, <1>4 DEF PopRet, ControlOK
  <1>5. CASE FetchExisting
    BY <1>0, <1>5 DEF FetchExisting, ControlOK, untouched, stateVars
  <1>6. CASE FetchNew
    <2>1. UNCHANGED <<synced, op, more>> /\ pc = "fetch"
      BY <1>6 DEF FetchNew, untouched, stateVars
    <2>2. \/ pc' \in {"lookahead", "got"} /\ msg_present'
          \/ pc' = "idle"
      BY <1>6 DEF FetchNew
    <2>3. pc' = "lookahead" => LooksAhead(msg') /\ msg'.hrepeat = 0
      <3>1. PICK m \in Msgs : /\ msg' = IF LooksAhead(m) THEN [m EXCEPT !.hrepeat = 0] ELSE m
                              /\ pc' = "lookahead" => LooksAhead(m)
        BY <1>6 DEF FetchNew
      <3>2. msg'.tcode = m.tcode /\ (LooksAhead(m) => msg'.hrepeat = 0)
        BY <3>1, MsgsFit DEF FitMessages, Messages
      <3> QED
        BY <3>1, <3>2 DEF LooksAhead, is_branch, is_sync
    <2> QED
      BY <1>0, <2>1, <2>2, <2>3 DEF ControlOK
  <1>7. CASE LookAhead \/ LookAheadEnd
    BY <1>0, <1>7 DEF LookAhead, LookAheadEnd, ControlOK, untouched, stateVars
  <1>8. CASE FetchEnd \/ FetchError
    BY <1>0, <1>8 DEF FetchEnd, FetchError, ControlOK
  <1>9. CASE PullKeeps \/ PullFails
    BY <1>0, <1>9 DEF PullKeeps, PullFails, Pulling, ControlOK, stateVars
  <1>10. CASE PullRes
    BY <1>0, <1>10 DEF PullRes, Pulling, ControlOK, stateVars
  <1>11. CASE RetireSome \/ RetireAll
    <2>1. pc' = "idle"
      BY <1>11 DEF RetireSome, RetireAll, RetireReturns
    <2> QED
      BY <1>0, <1>11, <2>1 DEF ControlOK
  <1>12. CASE RetirePulls \/ TntSeeks
    <2>1. /\ pc' \in {"idle", "fetch", "drain"} /\ op # "sync_reset" /\ pc = "loop"
          /\ pc' = "fetch" => more
      BY <1>12 DEF RetirePulls, TntSeeks, Retiring, Branching
    <2> QED
      BY <1>0, <1>12, <2>1 DEF RetirePulls, TntSeeks, ControlOK, untouched, stateVars
  <1>13. CASE DrainEmpty \/ ErrorDrains
    BY <1>0, <1>13 DEF DrainEmpty, ErrorDrains, ControlOK, stateVars
  <1>14. CASE TntFromMsg \/ TntFromElement \/ TntFromBranch
    <2>1. pc' = "idle"
      BY <1>14 DEF TntFromMsg, TntFromElement, TntFromBranch, Deliver
    <2> QED
      BY <2>1 DEF ControlOK
  <1>15. CASE NextIndirect
    <2>1. pc' \in {"idle", "owner"} /\ synced' = synced /\ op' = op /\ op = "next_indirect" /\ pc = "got"
      BY <1>15 DEF NextIndirect, Refuse, TakesIndirect, stateVars
    <2> QED
      BY <1>0, <2>1 DEF ControlOK
  <1>16. CASE Owner \/ OwnerEnd
    BY <1>0, <1>16 DEF Owner, OwnerEnd, ControlOK
  <1>17. CASE SyncSkip
    BY <1>0, <1>17 DEF SyncSkip, ControlOK, untouched, stateVars
  <1>18. CASE SyncFound
    BY <1>0, <1>18 DEF SyncFound, ControlOK
  <1>19. CASE NextSync \/ NextStop \/ ErrorRetires
    <2>1. pc' = "idle"
      BY <1>19 DEF NextSync, NextStop, ErrorRetires, Refuse
    <2> QED
      BY <2>1 DEF ControlOK
  <1>20. CASE ErrorDrops
    BY <1>0, <1>20 DEF ErrorDrops, ControlOK, stateVars
  <1>21. CASE Stopped \/ UNCHANGED vars
    BY <1>0, <1>21 DEF Stopped, vars, ControlOK, stateVars
  <1>22. Requests \subseteq Nat /\ 0 \in Nat
    BY DecoderAssumption
  <1> QED
    BY <1>1, <1>2, <1>3, <1>4, <1>5, <1>6, <1>7, <1>8, <1>9, <1>10, <1>11, <1>12, <1>13,
       <1>14, <1>15, <1>16, <1>17, <1>18, <1>19, <1>20, <1>21, <1>22
    DEF Next, Calls, StackCalls, Steps, Fetches

(***************************************************************************)
(* Every step keeps the counters of TNT bits in 32 bits.                   *)
(***************************************************************************)
LEMMA TntStep == IInv /\ [Next]_vars => TntOK'
  <1> SUFFICES ASSUME IInv, [Next]_vars PROVE TntOK'
    OBVIOUS
  <1>0. DataOK /\ TntOK /\ UINT32_MAX \in Nat /\ HIST_BITS \in 2 .. UINT32_MAX
    BY DecoderAssumption DEF IInv
  <1>1. CASE UNCHANGED <<res_tnts, consumed_tnts>>
    BY <1>0, <1>1 DEF TntOK
  <1>2. CASE PullRes
    <2> DEFINE n == ElementRepeat(msg)
               b == hist_bits(ElementHist(msg))
    <2>1. n \in Nat /\ b \in Nat
      BY <1>0, PulledElement DEF DataOK
    <2>2. res_tnts' = Wrap(res_tnts + Wrap(n * b)) /\ consumed_tnts' = consumed_tnts
      BY <1>2 DEF PullRes, consumedVars
    <2> HIDE DEF n, b
    <2>3. n * b \in Nat
      BY <2>1
    <2>4. Wrap(n * b) \in Nat
      BY <1>0, <2>3, WrapRange
    <2>5. res_tnts' \in 0 .. UINT32_MAX
      BY <1>0, <2>2, <2>4, WrapRange DEF TntOK
    <2> QED
      BY <1>0, <2>2, <2>5 DEF TntOK
  <1>3. CASE TntFromMsg
    <2>1. /\ res_tnts' = res_tnts
          /\ \/ consumed_tnts' = consumed_tnts
             \/ consumed_tnts < BitsOf(msg) /\ consumed_tnts' = consumed_tnts + 1
      <3>1. BitsOf(msg) \in Nat /\ consumed_tnts \in Nat
        BY <1>0, Counts DEF DataOK, TntOK
      <3> QED
        BY <1>3, <3>1 DEF TntFromMsg, resVars
    <2>2. BitsOf(msg) \in 0 .. HIST_BITS - 1
      BY <1>0, Counts DEF DataOK
    <2> QED
      BY <1>0, <2>1, <2>2 DEF TntOK
  <1>4. CASE TntFromElement
    <2> DEFINE b == hist_bits(res_hists[1].hist)
    <2>1. res_hists # << >> => b \in 0 .. HIST_BITS - 1
      BY FirstElement
    <2>2. \/ UNCHANGED <<res_tnts, consumed_tnts>>
          \/ /\ res_hists # << >> /\ ~(b <= consumed_tnts) /\ b # consumed_tnts + 1
             /\ consumed_tnts' = consumed_tnts + 1 /\ res_tnts' = res_tnts
          \/ /\ res_hists # << >> /\ b = consumed_tnts + 1 /\ ~(res_tnts < b)
             /\ consumed_tnts' = 0 /\ res_tnts' = res_tnts - b
      BY <1>4 DEF TntFromElement
    <2> HIDE DEF b
    <2> QED
      BY <1>0, <2>1, <2>2 DEF TntOK
  <1>5. CASE res_tnts' = res_tnts /\ consumed_tnts' = 0
    BY <1>0, <1>5 DEF TntOK
  <1>6. CASE res_tnts' = 0 /\ consumed_tnts' = 0
    BY <1>0, <1>6 DEF TntOK
  <1>7. TntFromBranch \/ NextIndirect \/ NextSync \/ NextStop \/ ErrorRetires
          => res_tnts' = res_tnts /\ consumed_tnts' \in {0, consumed_tnts}
    BY DEF TntFromBranch, NextIndirect, NextSync, NextStop, ErrorRetires, Refuse, RetireMsg,
           resVars, consumedVars
  <1>8. SyncFound \/ ErrorDrops
          => \/ res_tnts' = 0 /\ consumed_tnts' = 0
             \/ UNCHANGED <<res_tnts, consumed_tnts>>
    BY DEF SyncFound, ErrorDrops, consumedVars
  <1>9. Calls \/ StackCalls \/ Fetches \/ Stopped => UNCHANGED <<res_tnts, consumed_tnts>>
    BY DEF Calls, StackCalls, Fetches, Stopped, Call, TakeUnsupported, PushCall, PopRet,
           FetchExisting, FetchNew, LookAhead, LookAheadEnd, FetchEnd, FetchError,
           untouched, resVars, consumedVars, vars
  <1>10. PullKeeps \/ PullFails \/ RetireSome \/ RetirePulls \/ RetireAll \/ TntSeeks
           \/ DrainEmpty \/ Owner \/ OwnerEnd \/ SyncSkip \/ ErrorDrains
           => UNCHANGED <<res_tnts, consumed_tnts>>
    BY DEF PullKeeps, PullFails, RetireSome, RetirePulls, RetireAll, TntSeeks, DrainEmpty,
           Owner, OwnerEnd, SyncSkip, ErrorDrains, untouched, resVars, consumedVars
  <1>11. UNCHANGED vars => UNCHANGED <<res_tnts, consumed_tnts>>
    BY DEF vars, resVars, consumedVars
  <1> QED
    BY <1>1, <1>2, <1>3, <1>4, <1>5, <1>6, <1>7, <1>8, <1>9, <1>10, <1>11 DEF Next, Steps

-----------------------------------------------------------------------------
(***************************************************************************)
(* Every step keeps the invariant of the instruction counters, and runs    *)
(* into none of the assertions about them.                                 *)
(***************************************************************************)
\* The message is retired only when its instructions are, and then nothing is
\* left of them.
LEMMA RetireIcnt ==
  ASSUME IInv, NEW m \in FitMessages, NEW fa, RetireMsg(m, fa),
         m.icnt = msg.icnt, has_icnt(m) <=> has_icnt(msg), msg_present,
         res_icnt = 0, res_icnt' = res_icnt, pc' # "error"
  PROVE  IcntOK'
  <1>1. consumed_icnt' = 0 /\ res_icnt' = 0 /\ msg' = MsgRetired(m)
    BY DEF RetireMsg
  <1>2. has_icnt(msg') => msg'.icnt <= MSG_ICNT_MAX
    BY <1>1, RetiredFits, DecoderAssumption DEF IInv, IcntOK
  <1> QED
    BY <1>1, <1>2, DecoderAssumption DEF IcntOK, IcntOverflow

\* Instructions are consumed in front of a message, or from it.
LEMMA ConsumeStep ==
  ASSUME IInv, pc # "idle", synced, NEW n \in Nat, n <= AvailableIcnt,
         ResAssert = "none", ConsumeIcnt(n),
         UNCHANGED <<msg, msg_present, synced>>, pc' = "idle"
  PROVE  IcntOK'
  <1>1. /\ AvailableIcnt = res_icnt + (IF msg_present THEN IcntOf(msg) ELSE 0) - consumed_icnt
        /\ AvailableIcnt \in 0 .. UINT32_MAX
        /\ res_icnt # 0 => consumed_icnt = 0
        /\ ~msg_present => AvailableIcnt = res_icnt
        /\ res_icnt <= UINT32_MAX - MSG_ICNT_MAX
    BY Available
  <1>2. /\ UINT32_MAX \in Nat /\ MSG_ICNT_MAX \in Nat
        /\ res_icnt \in Nat /\ consumed_icnt \in Nat /\ IcntOf(msg) \in 0 .. UINT32_MAX
    BY Counts, DecoderAssumption DEF IInv, IcntOK, DataOK
  <1>3. CASE res_icnt >= n
    <2>1. res_icnt' = res_icnt - n /\ consumed_icnt' = consumed_icnt
      BY <1>3 DEF ConsumeIcnt
    <2>2. consumed_icnt # 0 => res_icnt' = 0
      BY <1>1, <1>2, <1>3, <2>1
    <2>3. res_icnt' \in 0 .. UINT32_MAX /\ res_icnt' <= UINT32_MAX - MSG_ICNT_MAX
      BY <1>1, <1>2, <1>3, <2>1
    <2> QED
      BY <1>2, <2>1, <2>2, <2>3 DEF IInv, IcntOK, IcntOverflow
  <1>4. CASE ~(res_icnt >= n)
    <2>1. res_icnt' = 0 /\ consumed_icnt' = consumed_icnt + (n - res_icnt)
      BY <1>4 DEF ConsumeIcnt
    <2>2. msg_present /\ ~is_res(msg)
      BY <1>1, <1>2, <1>4 DEF ResAssert
    <2>3. consumed_icnt' \in 0 .. UINT32_MAX /\ consumed_icnt' <= IcntOf(msg)
      BY <1>1, <1>2, <1>4, <2>1, <2>2
    <2>4. IcntOf(msg') = IcntOf(msg) /\ ~is_res(msg') /\ msg_present'
      BY <2>2
    <2> QED
      BY <1>2, <2>1, <2>2, <2>3, <2>4 DEF IInv, IcntOK, IcntOverflow
  <1> QED
    BY <1>3, <1>4

\* Neither counter nor message changes, nor does the call end in an overflow.
LEMMA IcntFrame ==
  ASSUME IInv, UNCHANGED <<msg, msg_present, res_icnt, consumed_icnt, synced>>,
         pc' = "error" => pc = "error",
         pc # "idle" \/ Alive \/ (pc' = "idle" /\ (Alive' => Alive))
  PROVE  IcntOK'
  BY DEF IInv, IcntOK

\* Which assertions can fail at all.
LEMMA PossibleAborts ==
  ASSUME IInv, pc # "idle"
  PROVE  /\ ResAssert \in {"none", "available_res"}
         /\ IcntAssert = ResAssert
         /\ TntsAssert \in {"none", "available_tnts", "available_res"}
         /\ \A n \in Nat : n <= AvailableIcnt => ConsumeAssert(n) = ResAssert
         /\ msg_present /\ ResAssert = "none" /\ AvailableIcnt = 0
              => RetireAssert \in {"none", "retire_res_hists", "retire_tnts", "retire_hrepeat"}
  <1>1. /\ AvailableIcnt \in 0 .. UINT32_MAX
        /\ res_icnt # 0 => consumed_icnt = 0
        /\ ~msg_present => AvailableIcnt = res_icnt
        /\ AvailableIcnt = 0 => res_icnt = 0
        /\ AvailableIcnt = 0 /\ msg_present => consumed_icnt = IcntOf(msg)
    BY Available
  <1>2. ResAssert \in {"none", "available_res"} /\ (ResAssert = "none" /\ msg_present => ~is_res(msg))
    BY DEF ResAssert
  <1>3. UINT32_MAX \in Nat /\ res_icnt \in Nat /\ consumed_icnt \in Nat
    BY DecoderAssumption DEF IInv, IcntOK
  <1>4. IcntAssert = ResAssert
    BY <1>1, <1>2, <1>3 DEF IcntAssert
  <1>5. TntsAssert \in {"none", "available_tnts", "available_res"}
    BY <1>2 DEF TntsAssert
  <1>6. ASSUME NEW n \in Nat, n <= AvailableIcnt PROVE ConsumeAssert(n) = ResAssert
    <2>1. ~(res_icnt # 0 /\ consumed_icnt # 0)
      BY <1>1
    <2>2. ~(res_icnt < n /\ ~msg_present)
      BY <1>1, <1>3, <1>6
    <2> QED
      BY <1>4, <2>1, <2>2 DEF ConsumeAssert
  <1>7. ASSUME msg_present, ResAssert = "none", AvailableIcnt = 0
        PROVE  RetireAssert \in {"none", "retire_res_hists", "retire_tnts", "retire_hrepeat"}
    BY <1>1, <1>2, <1>7 DEF RetireAssert
  <1> QED
    BY <1>2, <1>4, <1>5, <1>6, <1>7

\* An event is taken only when it comes next.
LEMMA Taken ==
  ASSUME IInv, pc # "idle", msg_present, NEW pending \in BOOLEAN
  PROVE  /\ Refusal(pending) \in {"none", "mismatch", "available_res", "available_tnts",
                                 "retire_res_hists", "retire_tnts", "retire_hrepeat"}
         /\ Refusal(pending) = "none" => res_icnt = 0
  <1>1. /\ ResAssert \in {"none", "available_res"}
        /\ IcntAssert = ResAssert
        /\ TntsAssert \in {"none", "available_tnts", "available_res"}
        /\ ResAssert = "none" /\ AvailableIcnt = 0
              => RetireAssert \in {"none", "retire_res_hists", "retire_tnts", "retire_hrepeat"}
    BY PossibleAborts
  <1>2. AvailableIcnt = 0 => res_icnt = 0
    BY Available
  <1>3. CASE IcntAssert # "none"
    BY <1>1, <1>3 DEF Refusal
  <1>4. CASE IcntAssert = "none" /\ AvailableIcnt # 0
    BY <1>1, <1>4 DEF Refusal
  <1>5. CASE IcntAssert = "none" /\ AvailableIcnt = 0 /\ TntsAssert # "none"
    BY <1>1, <1>2, <1>5 DEF Refusal
  <1>6. CASE IcntAssert = "none" /\ AvailableIcnt = 0 /\ TntsAssert = "none"
    <2>1. Refusal(pending) \in {"mismatch", RetireAssert}
      BY <1>6 DEF Refusal
    <2> QED
      BY <1>1, <1>2, <1>6, <2>1
  <1> QED
    BY <1>3, <1>4, <1>5, <1>6

\* Every step keeps IcntOK, and fails no assertion about I-CNT.
LEMMA IcntStep == IInv /\ [Next]_vars => IcntOK' /\ IcntAssertionsHold'
  <1> SUFFICES ASSUME IInv, [Next]_vars PROVE IcntOK' /\ IcntAssertionsHold'
    OBVIOUS
  <1> USE DEF Return, Fail, Abort, Goto
  <1> DEFINE Good == IcntOK' /\ IcntAssertionsHold'
             Still == UNCHANGED <<msg, msg_present, res_icnt, consumed_icnt, synced>>
  <1>0. DataOK /\ ControlOK /\ IcntOK /\ IcntAssertionsHold
    BY DEF IInv
  <1>1. ASSUME Calls \/ StackCalls PROVE Good
    <2>1. /\ Still /\ aborted' = aborted
          /\ Alive
          /\ pc' # "error"
      BY <1>1 DEF Calls, StackCalls, Call, TakeUnsupported, PushCall, PopRet, Alive,
                  resVars, consumedVars, stateVars
    <2> QED
      BY <1>0, <2>1, IcntFrame DEF IcntAssertionsHold
  <1>2. ASSUME FetchExisting \/ FetchEnd \/ FetchError \/ PullKeeps \/ DrainEmpty \/ ErrorDrains
               \/ Owner \/ OwnerEnd
        PROVE Good
    <2>1. Still /\ aborted' = aborted /\ pc # "idle" /\ (pc' = "error" => pc = "error")
      BY <1>2 DEF FetchExisting, FetchEnd, FetchError, PullKeeps, DrainEmpty, ErrorDrains,
                  Owner, OwnerEnd, Pulling, untouched, resVars, consumedVars, stateVars
    <2> QED
      BY <1>0, <2>1, IcntFrame DEF IcntAssertionsHold
  <1>3. CASE RetirePulls \/ TntSeeks
    <2>1. Still /\ pc # "idle" /\ pc' # "error"
      BY <1>3 DEF RetirePulls, TntSeeks, Retiring, Branching, untouched, resVars, consumedVars,
                  stateVars
    <2>2. aborted' \in {aborted, IcntAssert, TntsAssert}
      BY <1>3 DEF RetirePulls, TntSeeks
    <2>3. IcntAssert \in {"none", "available_res"}
          /\ TntsAssert \in {"none", "available_tnts", "available_res"}
      BY <2>1, PossibleAborts
    <2> QED
      BY <1>0, <2>1, <2>2, <2>3, IcntFrame DEF IcntAssertionsHold
  <1>4. CASE TntFromMsg \/ TntFromElement
    <2>1. Still /\ pc # "idle" /\ pc' = "idle"
          /\ aborted' \in {aborted, "tnt_msg", "tnt_element"}
      BY <1>4 DEF TntFromMsg, TntFromElement, Drained, Deliver, resVars, stateVars
    <2> QED
      BY <1>0, <2>1, IcntFrame DEF IcntAssertionsHold
  <1>5. CASE FetchNew
    <2>1. PICK m \in Msgs : /\ msg' = IF LooksAhead(m) THEN [m EXCEPT !.hrepeat = 0] ELSE m
                            /\ msg_present' = check_msg(m)
                            /\ pc' # "error"
      BY <1>5 DEF FetchNew
    <2>2. UNCHANGED <<res_icnt, consumed_icnt, synced, aborted>> /\ ~msg_present /\ pc = "fetch"
      BY <1>5 DEF FetchNew, untouched, resVars, consumedVars, stateVars
    <2>3. consumed_icnt' = 0 /\ ~IcntOverflow(res_icnt')
      BY <1>0, <2>2 DEF IcntOK, IcntOverflow
    <2>4. m \in FitMessages
      BY MsgsFit
    <2>5. msg'.tcode = m.tcode /\ msg'.code = m.code /\ msg'.icnt = m.icnt
      BY <2>1, <2>4 DEF FitMessages, Messages
    <2>6. has_icnt(msg') => has_icnt(m)
      BY <2>5 DEF has_icnt, is_res
    <2>7. msg_present' /\ has_icnt(msg') => msg'.icnt <= MSG_ICNT_MAX
      BY <2>1, <2>5, <2>6 DEF check_msg
    <2> QED
      BY <1>0, <2>1, <2>2, <2>3, <2>7 DEF IcntOK, IcntAssertionsHold
  <1>6. CASE LookAhead \/ LookAheadEnd
    <2>1. /\ UNCHANGED <<msg_present, res_icnt, consumed_icnt, synced, aborted>>
          /\ pc = "lookahead" /\ pc' = "got"
      BY <1>6 DEF LookAhead, LookAheadEnd, untouched, resVars, consumedVars, stateVars
    <2>2. PICK h : msg' \in {msg, [msg EXCEPT !.hrepeat = h]}
      BY <1>6 DEF LookAhead, LookAheadEnd
    <2>3. msg'.tcode = msg.tcode /\ msg'.code = msg.code /\ msg'.icnt = msg.icnt
      BY <1>0, <2>2 DEF DataOK, FitMessages, Messages
    <2>4. /\ has_icnt(msg') <=> has_icnt(msg)
          /\ is_res(msg') <=> is_res(msg)
      BY <2>3 DEF has_icnt, is_res
    <2>5. IcntOf(msg') = IcntOf(msg)
      BY <2>3, <2>4 DEF IcntOf
    <2> QED
      BY <1>0, <2>1, <2>3, <2>4, <2>5 DEF IcntOK, IcntAssertionsHold
  <1>7. CASE SyncSkip
    <2>1. ~synced /\ synced' = synced /\ UNCHANGED <<res_icnt, consumed_icnt, aborted>>
          /\ ~msg_present' /\ pc = "got" /\ pc' = "fetch"
      BY <1>0, <1>7 DEF SyncSkip, ControlOK, untouched, resVars, consumedVars, stateVars
    <2> QED
      BY <1>0, <2>1 DEF IcntOK, IcntAssertionsHold
  <1>8. CASE PullFails
    <2>1. /\ UNCHANGED <<msg, msg_present, consumed_icnt, synced, aborted>>
          /\ res_icnt' = IcntPulled /\ is_res(msg) /\ pc = "got" /\ pc' = "idle"
          /\ op # "sync_reset"
      BY <1>8 DEF PullFails, Pulling, consumedVars, stateVars
    <2>2. consumed_icnt = 0 /\ synced
      BY <1>0, <2>1 DEF IcntOK, ControlOK
    <2>3. /\ msg.icnt \in 0 .. UINT32_MAX /\ res_icnt \in 0 .. UINT32_MAX /\ UINT32_MAX \in Nat
          /\ ~IcntOverflow(res_icnt)
      BY <1>0, <2>1, DecoderAssumption DEF DataOK, FitMessages, Messages, IcntOK, IcntOverflow
    <2>4. res_icnt' \in 0 .. UINT32_MAX
      BY <2>1, <2>3, WrapRange DEF IcntPulled
    <2>5. IcntOverflow(res_icnt') => ~Alive'
      <3>1. SUFFICES ASSUME IcntOverflow(res_icnt') PROVE ret'.rc \in {"icnt_overflow", "hist_overflow"}
        BY DEF Alive
      <3>2. has_icnt(msg) /\ PullError # "hist_overflow" /\ res_icnt' = Wrap(res_icnt + msg.icnt)
        BY <2>1, <2>3, <3>1 DEF IcntPulled
      <3>3. PullError = "icnt_overflow"
        BY <3>1, <3>2 DEF PullError
      <3> QED
        BY <1>8, <3>3 DEF PullFails
    <2> QED
      BY <1>0, <2>1, <2>2, <2>4, <2>5 DEF IcntOK, IcntAssertionsHold
  <1>9. CASE PullRes
    <2>1. /\ UNCHANGED <<msg, consumed_icnt, synced, aborted>> /\ ~msg_present'
          /\ res_icnt' = IcntPulled /\ is_res(msg) /\ pc = "got" /\ pc' = "loop"
          /\ op # "sync_reset" /\ PullError = "none"
      BY <1>9 DEF PullRes, Pulling, consumedVars, stateVars
    <2>2. consumed_icnt = 0 /\ synced
      BY <1>0, <2>1 DEF IcntOK, ControlOK
    <2>3. /\ msg.icnt \in 0 .. UINT32_MAX /\ res_icnt \in 0 .. UINT32_MAX /\ UINT32_MAX \in Nat
          /\ ~IcntOverflow(res_icnt)
      BY <1>0, <2>1, DecoderAssumption DEF DataOK, FitMessages, Messages, IcntOK, IcntOverflow
    <2>4. res_icnt' \in 0 .. UINT32_MAX
      BY <2>1, <2>3, WrapRange DEF IcntPulled
    <2>5. ~IcntOverflow(res_icnt')
      BY <2>1, <2>3 DEF IcntPulled, PullError
    <2> QED
      BY <1>0, <2>1, <2>2, <2>4, <2>5 DEF IcntOK, IcntAssertionsHold
  <1>10. CASE RetireSome \/ RetireAll
    <2>1. /\ UNCHANGED <<msg, msg_present, synced>> /\ pc = "loop" /\ op = "try_retire"
          /\ pc' = "idle"
      BY <1>10 DEF RetireSome, RetireAll, RetireReturns, Retiring, stateVars
    <2>2. synced
      BY <1>0, <2>1 DEF ControlOK
    <2>3. AvailableIcnt \in Nat
      BY <2>1, Available, DecoderAssumption
    <2>4. PICK n \in Nat : /\ n <= AvailableIcnt
                           /\ \/ UNCHANGED <<res_icnt, consumed_icnt>>
                                 /\ aborted' \in {ConsumeAssert(n), EventAssert}
                              \/ ConsumeIcnt(n) /\ aborted' = aborted /\ ConsumeAssert(n) = "none"
      <3>1. CASE RetireSome
        BY <1>0, <2>3, <3>1 DEF RetireSome, RetireReturns, DataOK
      <3>2. CASE RetireAll
        BY <1>0, <2>3, <3>2 DEF RetireAll, RetireReturns, DataOK
      <3> QED
        BY <1>10, <3>1, <3>2
    <2>5. /\ ConsumeAssert(n) = ResAssert /\ ResAssert \in {"none", "available_res"}
          /\ TntsAssert \in {"none", "available_tnts", "available_res"}
      BY <2>1, <2>4, PossibleAborts
    <2>6. EventAssert \in {"none", "event_hist", "available_tnts", "available_res"}
      BY <2>5 DEF EventAssert
    <2>7. IcntAssertionsHold'
      BY <1>0, <2>4, <2>5, <2>6 DEF IcntAssertionsHold
    <2>8. CASE UNCHANGED <<res_icnt, consumed_icnt>>
      BY <2>1, <2>7, <2>8, IcntFrame
    <2>9. CASE ConsumeIcnt(n) /\ ConsumeAssert(n) = "none"
      BY <2>1, <2>2, <2>4, <2>5, <2>7, <2>9, ConsumeStep
    <2> QED
      BY <2>4, <2>8, <2>9
  <1>11. CASE TntFromBranch
    <2>1. /\ UNCHANGED <<res_icnt, synced>> /\ pc = "loop" /\ pc' = "idle" /\ ~more
          /\ TntsAssert = "none"
      BY <1>11 DEF TntFromBranch, Branching, resVars
    <2>2. msg_present /\ ResAssert = "none"
      BY <1>0, <2>1 DEF ControlOK, TntsAssert
    <2>3. /\ IcntAssert = "none"
          /\ AvailableIcnt = 0
               => RetireAssert \in {"none", "retire_res_hists", "retire_tnts", "retire_hrepeat"}
          /\ AvailableIcnt = 0 => res_icnt = 0
          /\ AvailableIcnt \in Nat
      BY <2>1, <2>2, PossibleAborts, Available, DecoderAssumption
    <2>4. CASE AvailableIcnt = 0 /\ RetireMsg(msg, full_addr) /\ aborted' = aborted
      BY <1>0, <2>1, <2>2, <2>3, <2>4, RetireIcnt DEF DataOK, IcntAssertionsHold
    <2>5. CASE /\ UNCHANGED <<msg, msg_present, consumedVars>>
               /\ aborted' \in {aborted} \cup (IF AvailableIcnt = 0 THEN {RetireAssert} ELSE {})
      <3>1. Still
        BY <2>1, <2>5 DEF consumedVars
      <3> QED
        BY <1>0, <2>1, <2>3, <2>5, <3>1, IcntFrame DEF IcntAssertionsHold
    <2>6. \/ AvailableIcnt = 0 /\ RetireMsg(msg, full_addr) /\ aborted' = aborted
          \/ /\ UNCHANGED <<msg, msg_present, consumedVars>>
             /\ aborted' \in {aborted} \cup (IF AvailableIcnt = 0 THEN {RetireAssert} ELSE {})
      BY <1>11, <2>3 DEF TntFromBranch
    <2> QED
      BY <2>4, <2>5, <2>6
  <1>12. CASE NextIndirect
    <2> DEFINE why == Refusal(is_indir_branch(msg))
               fa == IF is_sync(msg) THEN msg.xaddr ELSE XorSet(full_addr, msg.xaddr)
    <2>1. UNCHANGED <<res_icnt, synced>> /\ pc = "got" /\ pc' # "error" /\ msg_present
      BY <1>0, <1>12 DEF NextIndirect, TakesIndirect, Refuse, resVars, stateVars, ControlOK
    <2>2. /\ why \in {"none", "mismatch", "available_res", "available_tnts",
                      "retire_res_hists", "retire_tnts", "retire_hrepeat"}
          /\ why = "none" => res_icnt = 0
      <3>1. is_indir_branch(msg) \in BOOLEAN
        BY DEF is_indir_branch
      <3> QED
        BY <2>1, <3>1, Taken
    <2>3. \/ why = "none" /\ RetireMsg(AddressUsed(msg), fa) /\ aborted' = aborted
          \/ /\ UNCHANGED <<msg, msg_present, consumedVars>>
             /\ aborted' \in {aborted, why}
      BY <1>12 DEF NextIndirect, Refuse
    <2> HIDE DEF why, fa
    <2>4. CASE why = "none" /\ RetireMsg(AddressUsed(msg), fa) /\ aborted' = aborted
      <3>1. /\ AddressUsed(msg) \in FitMessages /\ AddressUsed(msg).icnt = msg.icnt
            /\ AddressUsed(msg).tcode = msg.tcode /\ AddressUsed(msg).code = msg.code
        <4>1. msg \in Messages /\ Fits(msg.hist) /\ {} \in SUBSET (0 .. WordBits - 1)
          BY <1>0 DEF DataOK, FitMessages
        <4>2. /\ [msg EXCEPT !.xaddr = {}] \in Messages
              /\ [msg EXCEPT !.xaddr = {}].hist = msg.hist
              /\ [msg EXCEPT !.xaddr = {}].icnt = msg.icnt
              /\ [msg EXCEPT !.xaddr = {}].tcode = msg.tcode
              /\ [msg EXCEPT !.xaddr = {}].code = msg.code
          BY <4>1 DEF Messages
        <4> QED
          BY <4>1, <4>2 DEF AddressUsed, FitMessages
      <3>2. has_icnt(AddressUsed(msg)) <=> has_icnt(msg)
        BY <3>1 DEF has_icnt, is_res
      <3> QED
        BY <1>0, <2>1, <2>2, <2>4, <3>1, <3>2, RetireIcnt DEF IcntAssertionsHold
    <2>5. CASE /\ UNCHANGED <<msg, msg_present, consumedVars>>
               /\ aborted' \in {aborted, why}
      <3>1. Still
        BY <2>1, <2>5 DEF consumedVars
      <3> QED
        BY <1>0, <2>1, <2>2, <2>5, <3>1, IcntFrame DEF IcntAssertionsHold
    <2> QED
      BY <2>3, <2>4, <2>5
  <1>13. CASE NextSync \/ NextStop
    <2>1. /\ res_icnt' = res_icnt /\ pc \in {"got", "sync"} /\ pc' = "idle" /\ msg_present
      BY <1>0, <1>13 DEF NextSync, NextStop, Refuse, resVars, ControlOK
    <2>2. PICK pending \in BOOLEAN :
             \/ /\ Refusal(pending) = "none" /\ RetireMsg(msg, full_addr) /\ aborted' = aborted
             \/ /\ UNCHANGED <<msg, msg_present, consumedVars, stateVars>>
                /\ aborted' \in {aborted, Refusal(pending)}
      BY <1>13 DEF NextSync, NextStop, Refuse, is_stop, is_sync, is_branch
    <2>3. /\ Refusal(pending) \in {"none", "mismatch", "available_res", "available_tnts",
                      "retire_res_hists", "retire_tnts", "retire_hrepeat"}
          /\ Refusal(pending) = "none" => res_icnt = 0
      BY <2>1, Taken
    <2>4. CASE Refusal(pending) = "none" /\ RetireMsg(msg, full_addr) /\ aborted' = aborted
      BY <1>0, <2>1, <2>3, <2>4, RetireIcnt DEF DataOK, IcntAssertionsHold
    <2>5. CASE /\ UNCHANGED <<msg, msg_present, consumedVars, stateVars>>
               /\ aborted' \in {aborted, Refusal(pending)}
      <3>1. Still
        BY <2>1, <2>5 DEF consumedVars, stateVars
      <3> QED
        BY <1>0, <2>1, <2>3, <2>5, <3>1, IcntFrame DEF IcntAssertionsHold
    <2> QED
      BY <2>2, <2>4, <2>5
  <1>14. CASE ErrorRetires
    <2>1. /\ res_icnt' = res_icnt /\ pc = "error" /\ pc' = "idle" /\ msg_present
          /\ RetireMsg(msg, full_addr) /\ aborted' = aborted
      BY <1>0, <1>14 DEF ErrorRetires, resVars, ControlOK
    <2>2. res_icnt = 0
      BY <1>0, <2>1 DEF IcntOK
    <2> QED
      BY <1>0, <2>1, <2>2, RetireIcnt DEF DataOK, IcntAssertionsHold
  <1>15. CASE SyncFound
    <2>1. /\ res_icnt' = 0 /\ consumed_icnt' = 0 /\ pc' = "sync" /\ aborted' = aborted
          /\ msg' = [msg EXCEPT !.tcode = "ProgTraceSync", !.icnt = 0]
      BY <1>15 DEF SyncFound
    <2>2. msg'.icnt = 0
      BY <1>0, <2>1 DEF DataOK, FitMessages, Messages
    <2> QED
      BY <1>0, <2>1, <2>2, DecoderAssumption DEF IcntOK, IcntOverflow, IcntAssertionsHold
  <1>16. CASE ErrorDrops
    <2>1. /\ UNCHANGED <<msg, msg_present, synced, aborted>> /\ pc = "got"
          /\ \/ res_icnt' = 0 /\ consumed_icnt' = 0
             \/ UNCHANGED <<res_icnt, consumed_icnt>> /\ pc' = "idle"
      BY <1>16 DEF ErrorDrops, consumedVars, stateVars
    <2> QED
      BY <1>0, <2>1, IcntFrame, DecoderAssumption DEF IcntOK, IcntOverflow, IcntAssertionsHold
  <1>17. CASE Stopped \/ UNCHANGED vars
    <2>1. Still /\ UNCHANGED <<pc, aborted, ret>>
      BY <1>17 DEF Stopped, vars, resVars, consumedVars, stateVars
    <2> QED
      BY <1>0, <2>1 DEF IcntOK, IcntAssertionsHold, Alive
  <1> QED
    BY <1>1, <1>2, <1>3, <1>4, <1>5, <1>6, <1>7, <1>8, <1>9, <1>10, <1>11, <1>12, <1>13,
       <1>14, <1>15, <1>16, <1>17 DEF Next, Steps, Fetches

-----------------------------------------------------------------------------
\* The initial state satisfies the invariant.
LEMMA InitIInv == Init => IInv
  <1> SUFFICES ASSUME Init PROVE IInv
    OBVIOUS
  <1>1. NoMsg \in FitMessages
    <2>1. "Vendor" \in Tcodes /\ 0 \in 0 .. UINT32_MAX /\ << >> \in Seq({0, 1})
          /\ {} \in SUBSET (0 .. WordBits - 1) /\ Fits(<< >>)
      BY DecoderAssumption DEF Tcodes, Fits
    <2>2. NoMsg \in Messages /\ NoMsg.hist = << >>
      BY <2>1 DEF NoMsg, Messages
    <2> QED
      BY <2>1, <2>2 DEF FitMessages
  <1>2. DataOK
    <2>1. << >> \in Seq(FitElements) /\ << >> \in Seq(CallSites) /\ Len(<< >>) <= MaxStack
      BY DecoderAssumption
    <2> QED
      BY <1>1, <2>1 DEF Init, DataOK, Places
  <1>3. ControlOK
    BY DEF Init, ControlOK
  <1>4. IcntOK /\ TntOK
    BY DecoderAssumption DEF Init, IcntOK, TntOK, IcntOverflow
  <1> QED
    BY <1>2, <1>3, <1>4 DEF Init, IInv, IcntAssertionsHold

\* The invariant holds throughout.
LEMMA AlwaysIInv == Spec => []IInv
  <1>1. IInv /\ [Next]_vars => IInv'
    BY DataStep, ControlStep, IcntStep, TntStep DEF IInv
  <1> QED
    BY <1>1, InitIInv, PTL DEF Spec

\* For every stream, whether or not an encoder would send it, and every caller,
\* whether or not it heeds the events: the fields of the trace decoder keep
\* their types, the instruction and TNT counters their 32 bits.
THEOREM TraceDecoderTypeOK == Spec => []TypeOK
  <1>1. IInv => TypeOK
    <2> SUFFICES ASSUME IInv PROVE TypeOK
      OBVIOUS
    <2>1. FitElements \subseteq Element /\ FitMessages \subseteq Messages
      BY DEF FitElements, FitMessages
    <2>2. res_hists \in Seq(Element)
      BY <2>1 DEF IInv, DataOK
    <2> QED
      BY <2>1, <2>2 DEF IInv, DataOK, IcntOK, TntOK, TypeOK
  <1> QED
    BY <1>1, AlwaysIInv, PTL

\* For every stream and every caller the assertions about I-CNT hold
\* (trace-decoder.c:165, 170-177, 236-243): the room of MSG_ICNT_MAX that
\* pull_msg leaves in res_icnt is enough, and the accumulated and the consumed
\* instructions are never both in use.
THEOREM TraceDecoderIcntAssertions == Spec => []IcntAssertionsHold
  <1>1. IInv => IcntAssertionsHold
    BY DEF IInv
  <1> QED
    BY <1>1, AlwaysIInv, PTL

-----------------------------------------------------------------------------
(***************************************************************************)
(* Decoding is under way (Sound) from a SYNC on, until the call that drops *)
(* everything at an Error or a failure that ends it.  A message counts     *)
(* once it is buffered, the number of its repetitions is known, and it is  *)
(* not a ResourceFull, which counts when it is accumulated.                *)
(***************************************************************************)
Sound == synced /\ (pc # "idle" \/ Alive) /\ pc # "error"

Counted == msg_present /\ ~is_res(msg) /\ pc # "lookahead"

(***************************************************************************)
(* The kinds of steps, by what they do to the things that are owed.        *)
(***************************************************************************)
\* Nothing that counts changes.
Quiet == /\ Sound
         /\ UNCHANGED <<resVars, consumedVars, full_addr, timestamp, historyVars>>
         /\ Counted' <=> Counted
         /\ Counted => msg' = msg

\* The caller hands the time of an unsupported message back.
Hands(m) == /\ Sound /\ pc = "idle" /\ Alive /\ ret.rc = "unsupported"
            /\ UNCHANGED <<msg, resVars, consumedVars, full_addr, owedIcnt, owedTnts>>
            /\ Counted' <=> Counted
            /\ timestamp' = Later(timestamp, m.ts)
            /\ due' = [due EXCEPT !.time = Later(due.time, m.ts)]

\* Message m, to be executed k times, begins to count.
Counting(m, k) ==
    /\ Sound /\ ~Counted /\ Counted'
    /\ UNCHANGED <<resVars, consumedVars, full_addr, timestamp>>
    /\ Owe(m, k)
    /\ msg' = m \/ \E h : msg' = [m EXCEPT !.hrepeat = h]
    /\ k = 1 \/ \E r \in Msgs : k = r.hrepeat + 1
    /\ TornEnd \/ Executions(msg') = k

\* A ResourceFull is accumulated.
Accumulating == Sound /\ PullRes /\ ~Counted /\ ~Counted'

\* n instructions are retired.
Consuming(n) ==
    /\ Sound /\ ConsumeIcnt(n)
    /\ UNCHANGED <<msg, res_hists, res_tnts, consumed_tnts, full_addr, timestamp, owedTnts, due>>
    /\ Counted' <=> Counted

\* An element without TNT bits is dropped from res_hists.
Draining == /\ Sound /\ DrainEmpty
            /\ Counted' <=> Counted

\* A TNT bit is delivered, from the message or from an element.
MsgDelivers == /\ Sound /\ TntFromMsg /\ aborted' = "none"
               /\ Counted' <=> Counted
ElementDelivers == /\ Sound /\ TntFromElement /\ aborted' = "none"
                   /\ Counted' <=> Counted

\* The buffered message is retired; m is the message, or the message with its
\* address used up.
Retires(m, fa) ==
    /\ Sound /\ Counted /\ RetireAssert = "none" /\ RetireMsg(m, fa)
    /\ UNCHANGED <<resVars, historyVars>>
    /\ pc' # "lookahead"
    /\ \/ /\ is_indir_branch(msg) /\ m = AddressUsed(msg)
          /\ fa = IF is_sync(msg) THEN msg.xaddr ELSE XorSet(full_addr, msg.xaddr)
       \/ /\ msg.tcode \in DirectBranches \cup {"ProgTraceSync"} /\ m = msg
          /\ fa = full_addr

\* Decoding starts over at a SYNC.
Restarting == SyncFound /\ Counted'

Kinds == \/ Quiet \/ Accumulating \/ Draining \/ MsgDelivers \/ ElementDelivers
         \/ Restarting
         \/ \E m \in Msgs : Hands(m)
         \/ \E m \in FitMessages, k \in Nat : Counting(m, k)
         \/ \E n \in Nat : n <= AvailableIcnt /\ Consuming(n)
         \/ \E m \in FitMessages, fa \in SUBSET (0 .. WordBits - 1) : Retires(m, fa)

\* An event is taken only when it is pending and nothing is left in front of it.
LEMMA RefusalNone ==
  ASSUME NEW pending \in BOOLEAN, Refusal(pending) = "none", msg_present
  PROVE  pending /\ RetireAssert = "none" /\ ~is_res(msg)
  <1>1. IcntAssert = "none"
    BY DEF Refusal
  <1>2. ResAssert = "none"
    BY <1>1 DEF IcntAssert
  <1>3. ~is_res(msg)
    BY <1>2 DEF ResAssert
  <1>4. AvailableIcnt = 0
    BY <1>1 DEF Refusal
  <1>5. TntsAssert = "none"
    BY <1>1, <1>4 DEF Refusal
  <1>6. AvailableTnts = 0 /\ pending
    BY <1>1, <1>4, <1>5 DEF Refusal
  <1> QED
    BY <1>1, <1>3, <1>4, <1>5, <1>6 DEF Refusal

\* Every step after which decoding is under way is of one of the kinds.
LEMMA StepIsOfAKind == IInv /\ [Next]_vars /\ Sound' => Kinds
  <1> SUFFICES ASSUME IInv, [Next]_vars, Sound' PROVE Kinds
    OBVIOUS
  <1> USE DEF Return, Fail, Abort, Goto
  <1>0. DataOK /\ ControlOK /\ IcntOK
    BY DEF IInv
  <1>1. ASSUME NEW f, NEW n \in Nat, Call(f, n) PROVE Quiet
    BY <1>1 DEF Call, Quiet, Sound, Counted, resVars, consumedVars, stateVars, historyVars
  <1>2. CASE TakeUnsupported
    <2>1. UNCHANGED <<msg, msg_present, resVars, consumedVars, stateVars, pc, aborted,
                      owedIcnt, owedTnts>> /\ Alive /\ pc = "idle" /\ ret.rc = "unsupported"
      BY <1>2 DEF TakeUnsupported, Alive
    <2>2. Sound /\ (Counted' <=> Counted)
      BY <2>1 DEF Sound, Counted, stateVars
    <2>3. CASE \E m \in Msgs : /\ timestamp' = Later(timestamp, m.ts)
                               /\ due' = [due EXCEPT !.time = Later(due.time, m.ts)]
      BY <2>1, <2>2, <2>3 DEF Kinds, Hands, stateVars
    <2>4. CASE ret' = [ret EXCEPT !.rc = "eof"]
      <3>1. Alive'
        BY <2>1 DEF Sound
      <3> QED
        BY <1>2, <2>3, <2>4, <3>1 DEF TakeUnsupported, Alive
    <2> QED
      BY <1>2, <2>3, <2>4 DEF TakeUnsupported
  <1>3. CASE StackCalls
    BY <1>3 DEF StackCalls, PushCall, PopRet, Kinds, Quiet, Sound, Counted, resVars,
                consumedVars, historyVars
  <1>4. CASE FetchExisting
    BY <1>4 DEF FetchExisting, Kinds, Quiet, Sound, Counted, untouched, resVars, consumedVars,
                stateVars, historyVars
  <1>5. CASE FetchNew
    <2>1. PICK m \in Msgs :
             /\ msg' = IF LooksAhead(m) THEN [m EXCEPT !.hrepeat = 0] ELSE m
             /\ msg_present' = check_msg(m)
             /\ IF check_msg(m)
                  THEN /\ pc' = IF LooksAhead(m) THEN "lookahead" ELSE "got"
                       /\ IF LooksAhead(m) \/ is_res(m) THEN UNCHANGED historyVars ELSE Owe(m, 1)
                  ELSE UNCHANGED historyVars
      BY <1>5 DEF FetchNew
    <2>2. UNCHANGED <<resVars, consumedVars, stateVars, timestamp>> /\ pc = "fetch" /\ ~msg_present
      BY <1>5 DEF FetchNew, untouched
    <2>3. Sound /\ ~Counted
      BY <2>2 DEF Sound, Counted, stateVars
    <2>4. CASE check_msg(m) /\ ~LooksAhead(m) /\ ~is_res(m)
      <3>1. Counted' /\ msg' = m /\ Owe(m, 1)
        BY <2>1, <2>4 DEF Counted
      <3>2. Executions(msg') = 1
        BY <2>4, <3>1 DEF Executions, LooksAhead
      <3>3. Counting(m, 1) /\ m \in FitMessages
        BY <2>2, <2>3, <3>1, <3>2, MsgsFit DEF Counting, stateVars
      <3> QED
        BY <3>3 DEF Kinds
    <2>5. CASE ~(check_msg(m) /\ ~LooksAhead(m) /\ ~is_res(m))
      <3>1. ~Counted'
        BY <2>1, <2>5 DEF Counted
      <3>2. UNCHANGED historyVars
        BY <2>1, <2>5
      <3> QED
        BY <2>2, <2>3, <3>1, <3>2 DEF Kinds, Quiet, stateVars
    <2> QED
      BY <2>4, <2>5
  <1>6. CASE LookAhead \/ LookAheadEnd
    <2>1. UNCHANGED <<msg_present, resVars, consumedVars, stateVars, timestamp>>
          /\ pc = "lookahead" /\ pc' = "got"
      BY <1>6 DEF LookAhead, LookAheadEnd, untouched
    <2>2. msg_present /\ LooksAhead(msg) /\ msg \in FitMessages /\ ~is_res(msg)
      <3>1. LooksAhead(msg) => ~is_res(msg)
        BY DEF LooksAhead, is_branch, is_res, Branches, DirectBranches, IndirectBranches, HistBranches
      <3> QED
        BY <1>0, <2>1, <3>1 DEF ControlOK, DataOK
    <2>3. PICK k \in Nat :
             /\ Owe(msg, k)
             /\ msg' = msg \/ \E h : msg' = [msg EXCEPT !.hrepeat = h]
             /\ k = 1 \/ \E r \in Msgs : k = r.hrepeat + 1
             /\ TornEnd \/ msg'.hrepeat + 1 = k
      <3>1. CASE LookAhead
        <4>1. PICK m \in Msgs :
                 /\ msg' = IF m.tcode = "RepeatBranch"
                              THEN [msg EXCEPT !.hrepeat = m.hrepeat] ELSE msg
                 /\ Owe(msg, IF m.tcode = "RepeatBranch" THEN m.hrepeat + 1 ELSE 1)
          BY <3>1 DEF LookAhead
        <4>2. m.hrepeat \in Nat
          BY MsgsFit, DecoderAssumption DEF FitMessages, Messages
        <4>3. CASE m.tcode = "RepeatBranch"
          <5>1. msg' = [msg EXCEPT !.hrepeat = m.hrepeat] /\ Owe(msg, m.hrepeat + 1)
            BY <4>1, <4>3
          <5>2. msg'.hrepeat = m.hrepeat
            BY <2>2, <5>1 DEF FitMessages, Messages
          <5> DEFINE k == m.hrepeat + 1
          <5>3. k \in Nat /\ msg'.hrepeat + 1 = k
            BY <4>2, <5>2
          <5>4. Owe(msg, k)
            BY <5>1
          <5>5. \E h : msg' = [msg EXCEPT !.hrepeat = h]
            BY <5>1, Zenon
          <5>6. \E r \in Msgs : k = r.hrepeat + 1
            BY Zenon
          <5> HIDE DEF k
          <5> QED
            BY <5>3, <5>4, <5>5, <5>6, Zenon
        <4>4. CASE m.tcode # "RepeatBranch"
          <5>1. msg' = msg /\ Owe(msg, 1)
            BY <4>1, <4>4
          <5>2. msg.hrepeat = 0
            BY <1>0, <2>1 DEF ControlOK
          <5> QED
            BY <5>1, <5>2
        <4> QED
          BY <4>3, <4>4
      <3>2. CASE LookAheadEnd
        <4>1. TornEnd
          BY <2>1, <3>2 DEF LookAheadEnd, AtEnd
        <4> QED
          BY <3>2, <4>1 DEF LookAheadEnd
      <3> QED
        BY <1>6, <3>1, <3>2
    <2>4. msg'.tcode = msg.tcode
      BY <2>2, <2>3 DEF FitMessages, Messages
    <2>5. ~Counted /\ Counted' /\ Sound
      BY <2>1, <2>2, <2>4 DEF Counted, Sound, stateVars, is_res
    <2>6. TornEnd \/ Executions(msg') = k
      BY <2>2, <2>3, <2>4 DEF Executions, LooksAhead, is_branch, is_sync
    <2>7. Counting(msg, k)
      BY <2>1, <2>3, <2>5, <2>6 DEF Counting, stateVars
    <2> QED
      BY <2>2, <2>7 DEF Kinds
  <1>7. CASE FetchEnd \/ FetchError
    BY <1>7 DEF FetchEnd, FetchError, Sound, Alive
  <1>8. CASE PullKeeps
    BY <1>8 DEF PullKeeps, Pulling, Kinds, Quiet, Sound, Counted, resVars, consumedVars,
                stateVars, historyVars
  <1>9. CASE PullFails
    <2>1. /\ UNCHANGED <<msg, msg_present, res_hists, res_tnts, consumedVars, stateVars,
                         timestamp, historyVars>>
          /\ res_icnt' = IcntPulled /\ pc = "got" /\ pc' = "idle" /\ is_res(msg)
      BY <1>9 DEF PullFails, Pulling
    <2>2. PullError = "unsupported"
      BY <1>9, <2>1 DEF PullFails, PullError, Sound, Alive
    <2>3. ~has_icnt(msg)
      BY <2>2 DEF PullError
    <2>4. res_icnt' = res_icnt
      BY <2>1, <2>3 DEF IcntPulled
    <2> QED
      BY <2>1, <2>4 DEF Kinds, Quiet, Sound, Counted, resVars, stateVars
  <1>10. CASE PullRes
    BY <1>10 DEF PullRes, Pulling, Kinds, Accumulating, Sound, Counted, stateVars
  <1>11. CASE RetireSome \/ RetireAll
    <2>1. /\ UNCHANGED <<msg, msg_present, res_hists, res_tnts, consumed_tnts, stateVars,
                         timestamp, owedTnts, due>>
          /\ pc = "loop" /\ pc' = "idle"
      BY <1>11 DEF RetireSome, RetireAll, Retiring, RetireReturns
    <2>2. AvailableIcnt \in Nat /\ arg \in Nat
      BY <1>0, <2>1, Available, DecoderAssumption DEF DataOK
    <2>3. PICK n \in Nat : n <= AvailableIcnt /\ ConsumeIcnt(n)
      <3>1. aborted' = "none"
        BY <2>1 DEF Sound, Alive
      <3>2. CASE RetireSome
        BY <2>2, <3>1, <3>2 DEF RetireSome, RetireReturns
      <3>3. CASE RetireAll
        BY <2>2, <3>1, <3>3 DEF RetireAll, RetireReturns
      <3> QED
        BY <1>11, <3>2, <3>3
    <2>4. Consuming(n)
      BY <2>1, <2>3 DEF Consuming, Sound, Counted, stateVars
    <2> QED
      BY <2>3, <2>4 DEF Kinds
  <1>12. CASE RetirePulls \/ TntSeeks
    <2>1. /\ UNCHANGED <<msg, msg_present, resVars, consumedVars, stateVars, timestamp, historyVars>>
          /\ pc = "loop" /\ pc' # "lookahead"
      BY <1>12 DEF RetirePulls, TntSeeks, Retiring, Branching, untouched
    <2> QED
      BY <2>1 DEF Kinds, Quiet, Sound, Counted, stateVars
  <1>13. CASE DrainEmpty
    BY <1>13 DEF DrainEmpty, Kinds, Draining, Sound, Counted, stateVars
  <1>14. CASE TntFromMsg \/ TntFromElement
    <2>1. UNCHANGED <<msg, msg_present, stateVars>> /\ pc = "drain" /\ pc' = "idle"
      BY <1>14 DEF TntFromMsg, TntFromElement, Drained, Deliver
    <2>2. Sound /\ (Counted' <=> Counted) /\ aborted' = "none"
      BY <2>1 DEF Sound, Counted, Alive, stateVars
    <2> QED
      BY <1>14, <2>2 DEF Kinds, MsgDelivers, ElementDelivers
  <1>15. CASE TntFromBranch
    <2>1. /\ Branching /\ TntsAssert = "none" /\ ~more
          /\ UNCHANGED <<resVars, synced, historyVars>> /\ pc = "loop" /\ pc' = "idle"
      BY <1>15 DEF TntFromBranch, Branching
    <2>2. Sound /\ Counted
      BY <1>0, <2>1 DEF Sound, Counted, ControlOK, TntsAssert, ResAssert
    <2>3. CASE /\ RetireMsg(msg, full_addr) /\ msg.tcode \in DirectBranches
               /\ RetireAssert = "none"
      <3>1. Retires(msg, full_addr)
        BY <2>1, <2>2, <2>3 DEF Retires
      <3> QED
        BY <1>0, <3>1 DEF Kinds, DataOK
    <2>4. CASE UNCHANGED <<msg, msg_present, consumedVars, full_addr, callstack, timestamp>>
      BY <2>1, <2>2, <2>4 DEF Kinds, Quiet, Counted
    <2> QED
      BY <1>15, <2>3, <2>4 DEF TntFromBranch
  <1>16. CASE NextIndirect
    <2> DEFINE why == Refusal(is_indir_branch(msg))
               fa == IF is_sync(msg) THEN msg.xaddr ELSE XorSet(full_addr, msg.xaddr)
    <2>1. UNCHANGED <<resVars, historyVars>> /\ pc = "got" /\ pc' \in {"idle", "owner"} /\ msg_present
          /\ synced' = synced
      BY <1>0, <1>16 DEF NextIndirect, TakesIndirect, Refuse, ControlOK, stateVars
    <2>2. CASE why = "none" /\ RetireMsg(AddressUsed(msg), fa)
      <3>1. is_indir_branch(msg) /\ RetireAssert = "none" /\ ~is_res(msg)
        <4>1. is_indir_branch(msg) \in BOOLEAN /\ why = "none"
          BY <2>2 DEF is_indir_branch
        <4> QED
          BY <2>1, <4>1, RefusalNone
      <3>2. Retires(AddressUsed(msg), fa)
        BY <2>1, <2>2, <3>1 DEF Retires, Sound, Counted
      <3>3. AddressUsed(msg) \in FitMessages /\ fa \in SUBSET (0 .. WordBits - 1)
        <4>1. [msg EXCEPT !.xaddr = {}] \in FitMessages
          BY <1>0 DEF DataOK, FitMessages, Messages, Fits
        <4> QED
          BY <1>0, <4>1 DEF AddressUsed, DataOK, FitMessages, Messages, XorSet
      <3> HIDE DEF fa
      <3> QED
        BY <3>2, <3>3 DEF Kinds
    <2>3. CASE UNCHANGED <<msg, msg_present, consumedVars, stateVars, timestamp>>
      BY <2>1, <2>3 DEF Kinds, Quiet, Sound, Counted, stateVars
    <2> QED
      BY <1>16, <2>2, <2>3 DEF NextIndirect, Refuse
  <1>17. CASE Owner \/ OwnerEnd
    <2>1. /\ UNCHANGED <<msg, msg_present, resVars, consumedVars, stateVars, timestamp, historyVars>>
          /\ pc = "owner" /\ pc' = "idle"
      BY <1>17 DEF Owner, OwnerEnd, untouched
    <2> QED
      BY <2>1 DEF Kinds, Quiet, Sound, Counted, stateVars
  <1>18. CASE SyncSkip
    BY <1>0, <1>18 DEF SyncSkip, ControlOK, Sound, untouched, stateVars
  <1>19. CASE SyncFound
    <2>1. msg_present' /\ pc' = "sync" /\ msg'.tcode = "ProgTraceSync"
      BY <1>0, <1>19 DEF SyncFound, ControlOK, DataOK, FitMessages, Messages
    <2> QED
      BY <1>19, <2>1 DEF Kinds, Restarting, Counted, is_res
  <1>20. CASE NextSync
    <2> DEFINE why == Refusal(is_sync(msg) /\ ~is_branch(msg))
    <2>1. UNCHANGED <<resVars, historyVars, synced>> /\ pc \in {"got", "sync"} /\ pc' = "idle" /\ msg_present
      BY <1>0, <1>20 DEF NextSync, Refuse, ControlOK, stateVars
    <2>2. CASE why = "none" /\ RetireMsg(msg, full_addr)
      <3>1. is_sync(msg) /\ ~is_branch(msg) /\ RetireAssert = "none" /\ ~is_res(msg)
        BY <2>1, <2>2, RefusalNone DEF is_sync, is_branch
      <3>2. msg.tcode = "ProgTraceSync"
        BY <3>1 DEF is_sync, is_branch, Syncs, Branches, DirectBranches, IndirectBranches, HistBranches
      <3>3. Retires(msg, full_addr)
        BY <2>1, <2>2, <3>1, <3>2 DEF Retires, Sound, Counted
      <3> QED
        BY <1>0, <3>3 DEF Kinds, DataOK
    <2>3. CASE UNCHANGED <<msg, msg_present, consumedVars, stateVars, timestamp>>
      BY <2>1, <2>3 DEF Kinds, Quiet, Sound, Counted, stateVars
    <2> QED
      BY <1>20, <2>2, <2>3 DEF NextSync, Refuse
  <1>21. CASE NextStop
    <2>1. UNCHANGED <<resVars, historyVars>> /\ pc = "got" /\ pc' = "idle"
      BY <1>21 DEF NextStop, Refuse
    <2>2. UNCHANGED <<msg, msg_present, consumedVars, stateVars, timestamp>>
      BY <1>21 DEF NextStop, Refuse, Sound
    <2> QED
      BY <2>1, <2>2 DEF Kinds, Quiet, Sound, Counted, stateVars
  <1>22. CASE ErrorDrops
    <2>1. pc' # "error"
      BY DEF Sound
    <2> QED
      BY <1>22, <2>1 DEF ErrorDrops, Kinds, Quiet, Sound, Counted, resVars, consumedVars,
                  stateVars, historyVars
  <1>23. CASE ErrorDrains \/ ErrorRetires
    BY <1>23 DEF ErrorDrains, ErrorRetires, Sound
  <1>24. CASE Stopped \/ UNCHANGED vars
    <2>1. UNCHANGED vars
      BY <1>24 DEF Stopped
    <2>2. UNCHANGED <<msg, msg_present, resVars, consumedVars, full_addr, synced, timestamp,
                      pc, ret, aborted, historyVars>>
      BY <2>1 DEF vars, stateVars
    <2> QED
      BY <2>2 DEF Kinds, Quiet, Sound, Counted, Alive
  <1>25. Requests \subseteq Nat /\ 0 \in Nat
    BY DecoderAssumption
  <1> QED
    BY <1>1, <1>2, <1>3, <1>4, <1>5, <1>6, <1>7, <1>8, <1>9, <1>10, <1>11, <1>12, <1>13,
       <1>14, <1>15, <1>16, <1>17, <1>18, <1>19, <1>20, <1>21, <1>22, <1>23, <1>24, <1>25
    DEF Next, Calls, Steps, Fetches, Kinds

-----------------------------------------------------------------------------
(***************************************************************************)
(* What becomes of the fields of a message.                                *)
(***************************************************************************)
\* When it begins to count only HREPEAT changes.
LEMMA CountedFields ==
  ASSUME NEW m \in FitMessages, NEW k, Counting(m, k)
  PROVE  /\ msg'.tcode = m.tcode /\ msg'.code = m.code /\ msg'.icnt = m.icnt
         /\ msg'.hist = m.hist /\ msg'.xaddr = m.xaddr /\ msg'.ts = m.ts
  BY DEF Counting, FitMessages, Messages

\* When it is retired a branch with sync becomes a sync, and a repeated one
\* keeps everything but its time and the number of repetitions.
LEMMA RetiredFields ==
  ASSUME NEW m \in FitMessages
  PROVE  /\ MsgRetired(m).xaddr = m.xaddr /\ MsgRetired(m).code = m.code
         /\ is_branch(m) /\ is_sync(m) =>
               /\ MsgRetired(m).tcode = "ProgTraceSync" /\ MsgRetired(m).icnt = 0
               /\ MsgRetired(m).hist = << >> /\ MsgRetired(m).ts = m.ts
         /\ ~is_sync(m) =>
               /\ MsgRetired(m).tcode = m.tcode /\ MsgRetired(m).icnt = m.icnt
               /\ MsgRetired(m).hist = m.hist /\ MsgRetired(m).ts = Spent(m.ts)
               /\ is_branch(m) /\ m.hrepeat # 0 => MsgRetired(m).hrepeat = m.hrepeat - 1
  <1>1. CASE is_branch(m) /\ is_sync(m)
    <2>1. MsgRetired(m) = [m EXCEPT !.tcode = "ProgTraceSync", !.icnt = 0, !.hist = << >>]
      BY <1>1 DEF MsgRetired
    <2> QED
      BY <1>1, <2>1 DEF FitMessages, Messages
  <1>2. CASE is_sync(m) /\ ~is_branch(m)
    BY <1>2 DEF MsgRetired
  <1>3. CASE ~is_sync(m)
    <2> DEFINE h == IF is_branch(m) /\ m.hrepeat # 0 THEN m.hrepeat - 1 ELSE m.hrepeat
    <2>1. MsgRetired(m) = [m EXCEPT !.ts = Spent(m.ts), !.hrepeat = h]
      BY <1>3 DEF MsgRetired
    <2>2. is_branch(m) /\ m.hrepeat # 0 => h = m.hrepeat - 1
      OBVIOUS
    <2> HIDE DEF h
    <2> QED
      BY <1>3, <2>1, <2>2 DEF FitMessages, Messages
  <1> QED
    BY <1>1, <1>2, <1>3

\* Kinds of branches.
LEMMA BranchKinds ==
  ASSUME NEW m
  PROVE  /\ is_indir_branch(m) => is_branch(m) /\ m.tcode \notin DirectBranches
         /\ m.tcode \in DirectBranches => is_branch(m) /\ ~is_indir_branch(m)
         /\ m.tcode = "ProgTraceSync" => is_sync(m) /\ ~is_branch(m) /\ ~is_indir_branch(m)
         /\ is_res(m) => ~is_branch(m) /\ ~is_sync(m)
  BY DEF is_indir_branch, is_branch, is_sync, is_res, DirectBranches, Branches,
         IndirectBranches, HistBranches, Syncs

\* Which message is retired: its address may have been used up.
LEMMA RetiringMessage ==
  ASSUME IInv, NEW m \in FitMessages, NEW fa, Retires(m, fa)
  PROVE  /\ m.tcode = msg.tcode /\ m.code = msg.code /\ m.icnt = msg.icnt /\ m.hist = msg.hist
         /\ m.ts = msg.ts /\ m.hrepeat = msg.hrepeat
         /\ m.xaddr = IF is_indir_branch(msg) /\ ~is_sync(msg) THEN {} ELSE msg.xaddr
         /\ Counted' <=> StaysBuffered(m)
         /\ ~StaysBuffered(m) => msg_present' = FALSE
  <1>1. /\ m.tcode = msg.tcode /\ m.code = msg.code /\ m.icnt = msg.icnt /\ m.hist = msg.hist
        /\ m.ts = msg.ts /\ m.hrepeat = msg.hrepeat
        /\ m.xaddr = IF is_indir_branch(msg) /\ ~is_sync(msg) THEN {} ELSE msg.xaddr
    <2>1. msg \in FitMessages
      BY DEF IInv, DataOK
    <2> QED
      BY <2>1, BranchKinds DEF Retires, AddressUsed, FitMessages, Messages
  <1>2. msg_present' = StaysBuffered(m) /\ msg' = MsgRetired(m) /\ pc' # "lookahead"
    BY DEF Retires, RetireMsg
  <1>3. StaysBuffered(m) => is_branch(m)
    BY DEF StaysBuffered
  <1>4. StaysBuffered(m) => ~is_res(msg')
    BY <1>2, <1>3, RetiredFields, BranchKinds DEF is_res
  <1> QED
    BY <1>1, <1>2, <1>4 DEF Counted, StaysBuffered

-----------------------------------------------------------------------------
(***************************************************************************)
(* Addresses.  A U-ADDR is pending until its indirect branch is retired    *)
(* for the first time; a sync replaces the address.                        *)
(***************************************************************************)
DueOK == Sound => due \in [time : Nat, addr : SUBSET (0 .. WordBits - 1)]

AddrOwed == Sound =>
    due.addr = IF Counted /\ is_sync(msg) THEN msg.xaddr
               ELSE IF Counted /\ is_indir_branch(msg) THEN XorSet(full_addr, msg.xaddr)
               ELSE full_addr

\* A step keeps what is due a value of its type.
LEMMA DueStep == IInv /\ DueOK /\ Kinds => DueOK'
  <1> SUFFICES ASSUME IInv, DueOK, Kinds PROVE DueOK'
    OBVIOUS
  <1> DEFINE Dues == [time : Nat, addr : SUBSET (0 .. WordBits - 1)]
  <1>0. Sound => due \in Dues
    BY DEF DueOK
  <1>1. ASSUME NEW m \in FitMessages, Sound
        PROVE  /\ m.ts \in Nat /\ m.xaddr \in SUBSET (0 .. WordBits - 1)
               /\ Later(due.time, m.ts) \in Nat
               /\ XorSet(due.addr, m.xaddr) \in SUBSET (0 .. WordBits - 1)
    <2>1. m.ts \in Nat /\ m.xaddr \in SUBSET (0 .. WordBits - 1)
      BY DEF FitMessages, Messages
    <2> QED
      BY <1>0, <1>1, <2>1, LaterInNat DEF XorSet
  <1>2. CASE Sound /\ due' = due
    BY <1>0, <1>2 DEF DueOK
  <1>3. ASSUME NEW m \in FitMessages, Sound, due' = [due EXCEPT !.time = Later(due.time, m.ts)]
        PROVE  DueOK'
    BY <1>0, <1>1, <1>3 DEF DueOK
  <1>4. ASSUME NEW m \in FitMessages, NEW k \in Nat, Counting(m, k) PROVE DueOK'
    BY <1>0, <1>1, <1>4 DEF DueOK, Counting, Owe
  <1>5. CASE Accumulating
    BY <1>3, <1>5 DEF Accumulating, PullRes, IInv, DataOK
  <1>6. CASE Restarting
    BY <1>6 DEF Restarting, SyncFound, IInv, DataOK, FitMessages, Messages, DueOK
  <1>7. ASSUME NEW m \in Msgs, Hands(m) PROVE DueOK'
    BY <1>3, <1>7, MsgsFit DEF Hands
  <1>8. Quiet \/ Draining \/ MsgDelivers \/ ElementDelivers \/ (\E n \in Nat : Consuming(n))
          \/ (\E m \in FitMessages, fa \in SUBSET (0 .. WordBits - 1) : Retires(m, fa))
        => Sound /\ due' = due
    BY DEF Quiet, Draining, DrainEmpty, MsgDelivers, TntFromMsg, ElementDelivers, TntFromElement,
           Consuming, Retires, historyVars
  <1> QED
    BY <1>2, <1>4, <1>5, <1>6, <1>7, <1>8 DEF Kinds

\* Every step keeps the address that is owed.
LEMMA AddrStep == IInv /\ DueOK /\ AddrOwed /\ Kinds => AddrOwed'
  <1> SUFFICES ASSUME IInv, DueOK, AddrOwed, Kinds PROVE AddrOwed'
    OBVIOUS
  <1>0. Sound => due \in [time : Nat, addr : SUBSET (0 .. WordBits - 1)]
    BY DEF DueOK
  <1>1. CASE Quiet
    BY <1>1 DEF Quiet, AddrOwed, historyVars
  <1>2. CASE \/ Draining \/ MsgDelivers \/ ElementDelivers
             \/ \E m \in Msgs : Hands(m)
             \/ \E n \in Nat : Consuming(n)
    <2>1. Sound /\ UNCHANGED <<msg, full_addr>> /\ (Counted' <=> Counted)
      BY <1>2 DEF Draining, DrainEmpty, MsgDelivers, TntFromMsg, ElementDelivers,
                  TntFromElement, Hands, Consuming, stateVars
    <2>2. due'.addr = due.addr
      <3>1. CASE \E m \in Msgs : Hands(m)
        BY <1>0, <2>1, <3>1 DEF Hands
      <3> QED
        BY <1>2, <3>1 DEF Draining, DrainEmpty, MsgDelivers, TntFromMsg, ElementDelivers,
                  TntFromElement, Consuming, historyVars
    <2> QED
      BY <2>1, <2>2 DEF AddrOwed
  <1>3. CASE Accumulating
    BY <1>0, <1>3 DEF Accumulating, PullRes, AddrOwed, stateVars
  <1>4. ASSUME NEW m \in FitMessages, NEW k \in Nat, Counting(m, k) PROVE AddrOwed'
    <2>1. due.addr = full_addr /\ full_addr' = full_addr /\ Counted'
      BY <1>4 DEF Counting, AddrOwed
    <2>2. due'.addr = IF is_sync(m) THEN m.xaddr
                      ELSE IF is_indir_branch(m) THEN XorSet(due.addr, m.xaddr) ELSE due.addr
      BY <1>4 DEF Counting, Owe
    <2>3. msg'.tcode = m.tcode /\ msg'.xaddr = m.xaddr
      BY <1>4, CountedFields
    <2> QED
      BY <2>1, <2>2, <2>3 DEF AddrOwed, is_sync, is_indir_branch
  <1>5. ASSUME NEW m \in FitMessages, NEW fa \in SUBSET (0 .. WordBits - 1), Retires(m, fa)
        PROVE  AddrOwed'
    <2>1. /\ Sound /\ Counted /\ due' = due /\ msg' = MsgRetired(m)
          /\ full_addr' = IF is_sync(m) /\ ~is_branch(m) THEN m.xaddr ELSE fa
      BY <1>5 DEF Retires, RetireMsg, historyVars
    <2>2. /\ m.tcode = msg.tcode
          /\ m.xaddr = IF is_indir_branch(msg) /\ ~is_sync(msg) THEN {} ELSE msg.xaddr
          /\ Counted' <=> StaysBuffered(m)
      BY <1>5, RetiringMessage
    <2>3. msg'.xaddr = m.xaddr
      BY <2>1, RetiredFields
    <2>4. CASE is_branch(m) /\ is_sync(m)
      <3>1. msg'.tcode = "ProgTraceSync" /\ Counted'
        BY <2>1, <2>2, <2>4, RetiredFields DEF StaysBuffered
      <3>2. is_sync(msg') /\ is_sync(msg)
        BY <2>2, <2>4, <3>1, BranchKinds DEF is_sync
      <3> QED
        BY <2>1, <2>2, <2>3, <3>1, <3>2 DEF AddrOwed
    <2>5. CASE is_branch(m) /\ ~is_sync(m)
      <3>1. msg'.tcode = m.tcode
        BY <2>1, <2>5, RetiredFields
      <3>2. /\ ~is_sync(msg) /\ ~is_sync(msg') /\ is_branch(msg)
            /\ is_indir_branch(msg') <=> is_indir_branch(msg)
        BY <2>2, <2>5, <3>1 DEF is_sync, is_branch, is_indir_branch
      <3>3. full_addr' = IF is_indir_branch(msg) THEN XorSet(full_addr, msg.xaddr) ELSE full_addr
        BY <1>5, <2>1, <2>5, <3>2, BranchKinds DEF Retires
      <3>4. XorSet(full_addr', {}) = full_addr'
        BY DEF XorSet
      <3> QED
        BY <2>1, <2>2, <2>3, <3>2, <3>3, <3>4 DEF AddrOwed
    <2>6. CASE ~is_branch(m)
      <3>1. msg.tcode = "ProgTraceSync" /\ ~Counted'
        BY <1>5, <2>2, <2>6, BranchKinds DEF Retires, StaysBuffered, is_branch
      <3>2. is_sync(msg) /\ is_sync(m) /\ ~is_indir_branch(msg)
        BY <2>2, <3>1, BranchKinds DEF is_sync
      <3> QED
        BY <2>1, <2>2, <2>6, <3>1, <3>2 DEF AddrOwed
    <2> QED
      BY <2>4, <2>5, <2>6
  <1>6. CASE Restarting
    <2>1. msg'.tcode = "ProgTraceSync" /\ msg'.xaddr = msg.xaddr /\ due'.addr = msg.xaddr
      BY <1>6 DEF Restarting, SyncFound, IInv, DataOK, FitMessages, Messages
    <2> QED
      BY <1>6, <2>1, BranchKinds DEF Restarting, AddrOwed
  <1> QED
    BY <1>1, <1>2, <1>3, <1>4, <1>5, <1>6 DEF Kinds

\* For every stream, every caller and every failure, even for callers that
\* ignore the events and streams that end behind a branch: each U-ADDR is
\* applied exactly once, however often its branch is repeated, so with nothing
\* pending the decoder's address is the encoder's (trace-decoder.c:421-437).
THEOREM AddressAlwaysConserved == Spec => []AddressConserved
  <1> DEFINE Inv == IInv /\ DueOK /\ AddrOwed
  <1>1. Init => Inv
    <2> SUFFICES ASSUME Init PROVE Inv
      OBVIOUS
    <2>1. ~Sound
      BY DEF Init, Sound
    <2> QED
      BY <2>1, InitIInv DEF DueOK, AddrOwed
  <1>2. Inv /\ [Next]_vars => Inv'
    <2> SUFFICES ASSUME Inv, [Next]_vars PROVE Inv'
      OBVIOUS
    <2>1. IInv'
      BY DataStep, ControlStep, IcntStep, TntStep DEF IInv
    <2>2. CASE Sound'
      BY <2>1, <2>2, StepIsOfAKind, DueStep, AddrStep
    <2>3. CASE ~Sound'
      BY <2>1, <2>3 DEF DueOK, AddrOwed
    <2> QED
      BY <2>2, <2>3
  <1>3. Inv => AddressConserved
    BY DEF AddrOwed, AddressConserved, Between, Sound, Counted
  <1> QED
    BY <1>1, <1>2, <1>3, PTL DEF Spec

-----------------------------------------------------------------------------
(***************************************************************************)
(* A disciplined caller.  It calls next_error, next_indirect, next_sync    *)
(* and next_stop only when their message is buffered (Held), and so never  *)
(* runs into a ResourceFull that was not accumulated: one stays buffered   *)
(* only when pull_msg does not know its code (ResHeld).                    *)
(***************************************************************************)
Events == {"None", "Direct", "DirectSync", "Indirect", "IndirectSync", "Trap", "Sync", "Stop",
           "Error"}

\* Which function is at each place.
OpOK == /\ pc # "idle" => op \in Functions
        /\ pc = "loop" => op \in {"try_retire", "next_tnt"}
        /\ pc = "drain" => op = "next_tnt"
        /\ pc = "sync" => op = "sync_reset"
        /\ pc = "error" => op = "next_error"
        /\ pc = "owner" => ret.op = "next_indirect" /\ ret.rc = "ok"

Held(f) == /\ f = "next_error" => msg_present /\ is_error(msg)
           /\ f = "next_indirect" => msg_present /\ is_indir_branch(msg)
           /\ f = "next_sync" => msg_present /\ is_sync(msg)
           /\ f = "next_stop" => msg_present /\ is_stop(msg)

Heeds == /\ pc \in {"fetch", "lookahead", "got"} => Held(op)
         /\ Between /\ ret.op = "try_retire" /\ ret.rc \notin {"unsupported", "retry"}
               => ret.event \in Events /\ \A f \in Takes(ret.event) : Held(f)
         /\ Between /\ ret.op = "next_sync" /\ ret.rc = "mismatch" => msg_present
         /\ ret.rc \in {"unsupported", "retry"}
               => ret.op \in {"sync_reset", "try_retire", "next_tnt"}

ResHeld == Sound /\ msg_present /\ is_res(msg)
             => pc = "got" \/ (~has_icnt(msg) /\ ~has_hist(msg))

DInv == OpOK /\ Heeds /\ ResHeld

\* The event reported tells which message is buffered.
LEMMA EventTells ==
  ASSUME msg_present
  PROVE  EventOf(msg) \in Events /\ \A f \in Takes(EventOf(msg)) : Held(f)
  <1> DEFINE e == EventOf(msg)
  <1>1. \/ e = "Error" /\ is_error(msg)
        \/ e \in {"None", "Direct"}
        \/ e = "DirectSync" /\ is_sync(msg)
        \/ e \in {"Trap", "Indirect"} /\ is_indir_branch(msg)
        \/ e = "IndirectSync" /\ is_indir_branch(msg) /\ is_sync(msg)
        \/ e = "Sync" /\ is_sync(msg)
        \/ e = "Stop" /\ is_stop(msg)
    BY DEF EventOf
  <1> HIDE DEF e
  <1>2. e \in Events
    BY <1>1 DEF Events
  <1>3. \A f \in Takes(e) : Held(f)
    BY <1>1 DEF Takes, Held
  <1> QED
    BY <1>2, <1>3 DEF e

\* A caller that takes the events it is told of keeps DInv.
LEMMA DisciplineStep == Disciplined /\ IInv /\ DInv /\ [Next]_vars => DInv'
  <1> SUFFICES ASSUME Disciplined, IInv, DInv, [Next]_vars PROVE DInv'
    OBVIOUS
  <1> USE DEF Return, Fail, Abort, Goto
  <1>0. DataOK /\ ControlOK /\ OpOK /\ Heeds /\ ResHeld
    BY DEF IInv, DInv
  <1> DEFINE Same == UNCHANGED <<msg, msg_present, synced>>
  <1>1. ASSUME NEW f \in Functions, NEW n \in Nat, Call(f, n) PROVE DInv'
    <2>1. Same /\ op' = f /\ pc = "idle" /\ Alive /\ MayCall(f) /\ aborted' = aborted
      BY <1>1 DEF Call, stateVars
    <2>2. \/ pc' = "idle" /\ ret'.op = f /\ ret'.rc \in {"synced", "not_synced"}
                /\ (f = "try_retire" => ~synced)
          \/ pc' = "loop" /\ f \in {"try_retire", "next_tnt"} /\ ret' = ret
          \/ pc' = "fetch" /\ f \notin {"try_retire", "next_tnt"} /\ ret' = ret
                /\ (f # "sync_reset" => synced)
      BY <1>0, <1>1 DEF Call, DataOK
    <2>3. pc' = "fetch" => Held(f)
      <3>1. SUFFICES ASSUME f \in {"next_error", "next_indirect", "next_sync", "next_stop"}, synced
                     PROVE  Held(f)
        BY <2>2 DEF Held
      <3>2. ret.rc # "retry"
        BY <1>0, <2>1, <3>1 DEF MayCall, Heeds
      <3>3. CASE SyncRefused
        <4>1. f \in TakesBranch
          BY <2>1, <3>1, <3>2, <3>3 DEF MayCall
        <4>2. f = "next_indirect" /\ is_indir_branch(msg)
          BY <3>1, <4>1 DEF TakesBranch
        <4>3. msg_present
          BY <1>0, <2>1, <3>1, <3>3 DEF Heeds, Between, SyncRefused
        <4> QED
          BY <4>2, <4>3 DEF Held
      <3>4. CASE ~SyncRefused
        <4>1. ret.op = "try_retire" /\ f \in Takes(ret.event) /\ ret.rc # "unsupported"
          BY <2>1, <3>1, <3>2, <3>4 DEF MayCall
        <4> QED
          BY <1>0, <2>1, <3>1, <3>2, <4>1 DEF Heeds, Between
      <3> QED
        BY <3>3, <3>4
    <2>4. pc' = "fetch" => Held(f)'
      BY <2>1, <2>3 DEF Held
    <2>5. Heeds'
      <3>1. CASE pc' = "idle"
        BY <2>1, <2>2, <3>1 DEF Heeds, Between
      <3>2. CASE pc' = "loop"
        BY <1>0, <2>2, <3>2 DEF Heeds, Between
      <3>3. CASE pc' = "fetch"
        BY <1>0, <2>1, <2>2, <2>4, <3>3 DEF Heeds, Between
      <3> QED
        BY <2>2, <3>1, <3>2, <3>3
    <2>6. OpOK'
      BY <2>1, <2>2 DEF OpOK
    <2>7. ResHeld'
      BY <1>0, <2>1 DEF ResHeld, Sound
    <2> QED
      BY <2>5, <2>6, <2>7 DEF DInv
  <1>2. CASE TakeUnsupported
    <2>1. Same /\ pc' = pc /\ pc = "idle" /\ aborted' = aborted /\ Alive /\ ret.rc = "unsupported"
      BY <1>2 DEF TakeUnsupported, Alive, stateVars
    <2>2. ret' = [ret EXCEPT !.rc = "retry"] \/ ret' = [ret EXCEPT !.rc = "eof"]
      BY <1>2 DEF TakeUnsupported
    <2>3. ret'.op = ret.op /\ ret'.rc \in {"retry", "eof"}
      <3>1. CASE ret' = [ret EXCEPT !.rc = "retry"]
        BY <3>1
      <3>2. CASE ret' = [ret EXCEPT !.rc = "eof"]
        BY <3>2
      <3> QED
        BY <2>2, <3>1, <3>2
    <2>4. Heeds'
      BY <1>0, <2>1, <2>3 DEF Heeds, Between, Alive
    <2> QED
      BY <1>0, <2>1, <2>4 DEF OpOK, ResHeld, Sound, DInv
  <1>3. CASE StackCalls
    <2>1. Same /\ UNCHANGED <<op, pc, ret, aborted>>
      BY <1>3 DEF StackCalls, PushCall, PopRet
    <2> QED
      BY <1>0, <2>1 DEF OpOK, Heeds, Held, Between, Alive, ResHeld, Sound, DInv
  <1>4. CASE FetchExisting
    <2>1. Same /\ UNCHANGED <<op, ret, aborted>> /\ pc = "fetch" /\ pc' = "got"
      BY <1>4 DEF FetchExisting, untouched, stateVars
    <2> QED
      BY <1>0, <2>1 DEF OpOK, Heeds, Held, Between, ResHeld, Sound, DInv
  <1>5. CASE FetchNew
    <2>1. PICK m \in Msgs :
             /\ msg' = IF LooksAhead(m) THEN [m EXCEPT !.hrepeat = 0] ELSE m
             /\ msg_present' = check_msg(m)
             /\ \/ pc' = (IF LooksAhead(m) THEN "lookahead" ELSE "got")
                \/ pc' = "idle" /\ ~check_msg(m) /\ ret' = [op |-> op, rc |-> "unsupported"]
      BY <1>5 DEF FetchNew
    <2>2. pc = "fetch" /\ ~msg_present /\ UNCHANGED <<op, synced, aborted>>
      BY <1>5 DEF FetchNew, untouched, stateVars
    <2>3. op \notin {"next_error", "next_indirect", "next_sync", "next_stop"}
      BY <1>0, <2>2 DEF Heeds, Held
    <2>4. Held(op)'
      BY <2>2, <2>3 DEF Held
    <2>5. pc' = "idle" => op \in {"sync_reset", "try_retire", "next_tnt"}
      BY <1>0, <2>2, <2>3 DEF OpOK, Functions
    <2>7. is_res(msg') => ~LooksAhead(m)
      <3>1. msg'.tcode = m.tcode
        BY <2>1, MsgsFit DEF FitMessages, Messages
      <3> QED
        BY <3>1, BranchKinds DEF LooksAhead, is_res
    <2>6. OpOK' /\ ResHeld'
      BY <1>0, <2>1, <2>2, <2>7 DEF OpOK, ResHeld
    <2>8. Heeds'
      <3>1. CASE pc' = "idle"
        <4>1. ret' = [op |-> op, rc |-> "unsupported"]
          BY <2>1, <3>1
        <4> QED
          BY <2>5, <3>1, <4>1 DEF Heeds
      <3>2. CASE pc' # "idle"
        <4>1. ret' = ret
          BY <1>5, <2>1, <3>2 DEF FetchNew
        <4> QED
          BY <1>0, <2>4, <3>2, <4>1 DEF Heeds, Between
      <3> QED
        BY <3>1, <3>2
    <2> QED
      BY <2>6, <2>8 DEF DInv
  <1>6. CASE LookAhead \/ LookAheadEnd
    <2>1. pc = "lookahead" /\ pc' = "got" /\ UNCHANGED <<op, ret, aborted, synced, msg_present>>
          /\ (msg' = msg \/ \E h : msg' = [msg EXCEPT !.hrepeat = h])
      BY <1>6 DEF LookAhead, LookAheadEnd, untouched, stateVars
    <2>2. msg'.tcode = msg.tcode
      BY <1>0, <2>1 DEF DataOK, FitMessages, Messages
    <2>3. Held(op)'
      BY <1>0, <2>1, <2>2 DEF Heeds, Held, is_error, is_indir_branch, is_sync, is_branch, is_stop
    <2> QED
      BY <1>0, <2>1, <2>3 DEF OpOK, Heeds, Between, ResHeld, DInv
  <1>e. ASSUME pc' = "idle", Same,
               \/ ret' = ret /\ (aborted' # "none" \/ pc = "owner")
               \/ ret'.op = op /\ ret'.rc \notin {"unsupported", "retry"}
                    /\ (op # "try_retire" \/ ~Alive')
                    /\ (op = "next_sync" /\ ret'.rc = "mismatch" => msg_present),
               pc \notin {"idle", "error"}, pc = "got" => ~Alive' \/ ~is_res(msg)
        PROVE  DInv'
    <2>1. Heeds'
      BY <1>0, <1>e DEF Heeds, Between, OpOK, Alive
    <2>2. ResHeld'
      BY <1>0, <1>e DEF ResHeld, Sound
    <2> QED
      BY <1>e, <2>1, <2>2 DEF OpOK, DInv
  <1>7. CASE FetchEnd \/ FetchError
    BY <1>7, <1>e DEF FetchEnd, FetchError, Alive, untouched, stateVars
  <1>8. CASE PullKeeps
    <2>1. Same /\ UNCHANGED <<op, ret>> /\ pc = "got" /\ pc' = "loop"
          /\ op \in {"try_retire", "next_tnt"} /\ ~is_res(msg)
      BY <1>8 DEF PullKeeps, Pulling, stateVars
    <2> QED
      BY <1>0, <2>1 DEF OpOK, Functions, Heeds, Between, ResHeld, DInv
  <1>9. CASE PullFails
    <2>1. Same /\ pc = "got" /\ pc' = "idle" /\ op \in {"try_retire", "next_tnt"}
          /\ \E r : ret' = [op |-> op, rc |-> r] /\ r \in {PullError, "no_mem"}
      BY <1>9 DEF PullFails, Pulling, stateVars
    <2>2. PICK r : ret' = [op |-> op, rc |-> r] /\ r \in {PullError, "no_mem"}
      BY <2>1
    <2>3. ret'.op = op /\ ret'.rc = r
      BY <2>2
    <2>4. CASE r = "unsupported"
      <3>1. PullError = "unsupported"
        BY <2>2, <2>4
      <3>2. ~has_icnt(msg) /\ ~has_hist(msg)
        BY <3>1 DEF PullError
      <3> QED
        BY <2>1, <2>3, <2>4, <3>2 DEF OpOK, Heeds, ResHeld, DInv
    <2>5. CASE r # "unsupported"
      <3>1. r \in {"hist_overflow", "icnt_overflow", "no_mem", "none"}
        BY <2>2, <2>5 DEF PullError
      <3>2. r # "none"
        BY <1>9, <2>2 DEF PullFails
      <3> QED
        BY <2>1, <2>3, <3>1, <3>2, <1>e DEF Alive
    <2> QED
      BY <2>4, <2>5
  <1>10. CASE PullRes
    <2>1. /\ UNCHANGED <<op, ret, synced>> /\ pc = "got" /\ pc' = "loop" /\ ~msg_present'
          /\ op \in {"try_retire", "next_tnt"}
      BY <1>10 DEF PullRes, Pulling, stateVars
    <2> QED
      BY <1>0, <2>1 DEF OpOK, Functions, Heeds, Between, ResHeld, DInv
  <1>11. CASE RetireSome \/ RetireAll
    <2>1. Same /\ op' = op /\ pc = "loop" /\ pc' = "idle" /\ op = "try_retire"
      BY <1>11 DEF RetireSome, RetireAll, Retiring, RetireReturns, stateVars
    <2>2. OpOK' /\ ResHeld'
      BY <1>0, <2>1 DEF OpOK, ResHeld, Sound
    <2>3. CASE ret' = ret /\ aborted' # "none"
      BY <1>e, <2>1, <2>3
    <2>4. CASE RetireSome /\ ret' = [op |-> op, rc |-> "ok", event |-> "None"]
      <3>1. ret'.rc = "ok" /\ ret'.event = "None"
        BY <2>4
      <3>2. \A f \in Takes("None") : Held(f)'
        BY DEF Takes, Held
      <3>3. Heeds'
        BY <2>1, <3>1, <3>2 DEF Heeds, Events
      <3> QED
        BY <2>2, <3>3 DEF DInv
    <2>5. CASE RetireAll /\ ret' = [op |-> op, rc |-> "ok", event |-> EventOf(msg)]
      <3>1. ret'.rc = "ok" /\ ret'.event = EventOf(msg)
        BY <2>5
      <3>2. msg_present
        BY <1>0, <2>1, <2>5 DEF RetireAll, ControlOK
      <3>3. EventOf(msg) \in Events /\ \A f \in Takes(EventOf(msg)) : Held(f)
        BY <3>2, EventTells
      <3>4. \A f : Held(f)' <=> Held(f)
        BY <2>1 DEF Held
      <3>5. Heeds'
        BY <2>1, <3>1, <3>3, <3>4 DEF Heeds
      <3> QED
        BY <2>2, <3>5 DEF DInv
    <2>6. \/ ret' = ret /\ aborted' # "none"
          \/ RetireSome /\ ret' = [op |-> op, rc |-> "ok", event |-> "None"]
          \/ RetireAll /\ ret' = [op |-> op, rc |-> "ok", event |-> EventOf(msg)]
      BY <1>11 DEF RetireSome, RetireAll, RetireReturns
    <2> QED
      BY <2>3, <2>4, <2>5, <2>6
  <1>12. CASE RetirePulls \/ TntSeeks
    <2>1. Same /\ op' = op /\ pc = "loop" /\ op \in {"try_retire", "next_tnt"} /\ ret' = ret
          /\ \/ pc' = "idle" /\ aborted' # "none"
             \/ pc' = "fetch"
             \/ pc' = "drain" /\ op = "next_tnt"
      BY <1>12 DEF RetirePulls, TntSeeks, Retiring, Branching, untouched, stateVars
    <2>2. CASE pc' = "idle" /\ aborted' # "none"
      BY <1>e, <2>1, <2>2
    <2>3. CASE pc' # "idle"
      <3>1. Held(op)'
        BY <2>1 DEF Held
      <3> QED
        BY <1>0, <2>1, <2>3, <3>1 DEF OpOK, Heeds, Between, ResHeld, Sound, DInv
    <2> QED
      BY <2>1, <2>2, <2>3
  <1>13. CASE DrainEmpty
    <2>1. Same /\ UNCHANGED <<op, pc, ret>> /\ pc = "drain"
      BY <1>13 DEF DrainEmpty, stateVars
    <2> QED
      BY <1>0, <2>1 DEF OpOK, Heeds, Between, ResHeld, Sound, DInv
  <1>14. CASE TntFromMsg \/ TntFromElement
    <2>1. Same /\ pc = "drain" /\ pc' = "idle"
      BY <1>14 DEF TntFromMsg, TntFromElement, Drained, Deliver, stateVars
    <2>2. \/ ret' = ret /\ aborted' # "none"
          \/ ret'.op = op /\ ret'.rc = "ok"
      BY <1>14 DEF TntFromMsg, TntFromElement, Deliver
    <2> QED
      BY <1>0, <1>e, <2>1, <2>2 DEF OpOK
  <1>r. ASSUME NEW m \in FitMessages, NEW fa, RetireMsg(m, fa), pc' \in {"idle", "owner"},
               ret'.op = op, ret'.rc = "ok", op # "try_retire", op' = op, op \in Functions,
               pc' = "owner" => op = "next_indirect"
        PROVE  DInv'
    <2>1. msg_present' => ~is_res(msg')
      <3>1. msg' = MsgRetired(m) /\ msg_present' = StaysBuffered(m)
        BY <1>r DEF RetireMsg
      <3>2. StaysBuffered(m) => is_branch(m)
        BY DEF StaysBuffered
      <3> QED
        BY <3>1, <3>2, RetiredFields, BranchKinds DEF is_res
    <2> QED
      BY <1>r, <2>1 DEF OpOK, Heeds, ResHeld, DInv
  <1>15. CASE TntFromBranch
    <2>1. pc = "loop" /\ pc' = "idle" /\ op = "next_tnt" /\ UNCHANGED <<op, synced>>
      BY <1>15 DEF TntFromBranch, Branching
    <2>0. AvailableIcnt \in Nat
      BY <2>1, Available, DecoderAssumption
    <2>2. \/ RetireMsg(msg, full_addr) /\ ret'.op = op /\ ret'.rc = "ok"
          \/ UNCHANGED <<msg, msg_present>> /\ ret'.op = op /\ ret'.rc \in {"ok", "mismatch"}
          \/ UNCHANGED <<msg, msg_present>> /\ ret' = ret /\ aborted' # "none"
      BY <1>15, <2>0 DEF TntFromBranch
    <2>3. CASE RetireMsg(msg, full_addr) /\ ret'.op = op /\ ret'.rc = "ok"
      BY <1>0, <1>r, <2>1, <2>3 DEF DataOK, Functions
    <2>4. CASE UNCHANGED <<msg, msg_present>> /\ ret'.op = op /\ ret'.rc \in {"ok", "mismatch"}
      BY <1>e, <2>1, <2>4
    <2>5. CASE UNCHANGED <<msg, msg_present>> /\ ret' = ret /\ aborted' # "none"
      BY <1>e, <2>1, <2>5
    <2> QED
      BY <2>2, <2>3, <2>4, <2>5
  <1>16. CASE NextIndirect
    <2>1. pc = "got" /\ op = "next_indirect" /\ op' = op /\ synced' = synced /\ ~is_res(msg)
      <3>1. Held(op) /\ op = "next_indirect"
        BY <1>0, <1>16 DEF NextIndirect, TakesIndirect, Heeds
      <3>2. ~is_res(msg)
        BY <3>1, BranchKinds DEF Held
      <3> QED
        BY <1>16, <3>2 DEF NextIndirect, TakesIndirect, Refuse, stateVars
    <2> DEFINE fa == IF is_sync(msg) THEN msg.xaddr ELSE XorSet(full_addr, msg.xaddr)
    <2>2. \/ RetireMsg(AddressUsed(msg), fa) /\ ret'.op = op /\ ret'.rc = "ok" /\ pc' = "owner"
          \/ /\ UNCHANGED <<msg, msg_present>> /\ pc' = "idle"
             /\ \/ ret' = ret /\ aborted' # "none"
                \/ ret'.op = op /\ ret'.rc = "mismatch"
      BY <1>16 DEF NextIndirect, Refuse
    <2> HIDE DEF fa
    <2>3. AddressUsed(msg) \in FitMessages
      <3>1. [msg EXCEPT !.xaddr = {}] \in FitMessages
        BY <1>0 DEF DataOK, FitMessages, Messages, Fits
      <3> QED
        BY <1>0, <3>1 DEF AddressUsed, DataOK
    <2>4. CASE RetireMsg(AddressUsed(msg), fa) /\ ret'.op = op /\ ret'.rc = "ok" /\ pc' = "owner"
      BY <1>r, <2>1, <2>3, <2>4 DEF Functions
    <2>5. CASE /\ UNCHANGED <<msg, msg_present>> /\ pc' = "idle"
               /\ \/ ret' = ret /\ aborted' # "none"
                  \/ ret'.op = op /\ ret'.rc = "mismatch"
      BY <1>e, <2>1, <2>5
    <2> QED
      BY <2>2, <2>4, <2>5
  <1>17. CASE Owner \/ OwnerEnd
    <2>1. Same /\ pc = "owner" /\ pc' = "idle" /\ ret.op = "next_indirect" /\ ret.rc = "ok"
      BY <1>0, <1>17 DEF Owner, OwnerEnd, untouched, stateVars, OpOK
    <2>2. \E b \in BOOLEAN : ret' = [ret EXCEPT !.ownership = b]
      BY <1>17 DEF Owner, OwnerEnd
    <2>3. ret'.op = ret.op /\ ret'.rc = ret.rc
      BY <2>2
    <2> QED
      BY <1>0, <2>1, <2>3 DEF OpOK, Heeds, ResHeld, Sound, DInv
  <1>18. CASE SyncSkip
    <2>1. pc = "got" /\ pc' = "fetch" /\ op = "sync_reset" /\ op' = op /\ ret' = ret /\ ~msg_present'
      BY <1>18 DEF SyncSkip, untouched
    <2> QED
      BY <1>0, <2>1 DEF OpOK, Heeds, Held, Between, ResHeld, Functions, DInv
  <1>19. CASE SyncFound
    <2>1. pc' = "sync" /\ op = "sync_reset" /\ op' = op /\ ret' = ret /\ msg'.tcode = "ProgTraceSync"
      BY <1>0, <1>19 DEF SyncFound, DataOK, FitMessages, Messages
    <2> QED
      BY <1>0, <2>1 DEF OpOK, Heeds, Between, ResHeld, Functions, is_res, DInv
  <1>20. CASE NextSync
    <2>1. /\ pc \in {"got", "sync"} /\ pc' = "idle" /\ op \in {"next_sync", "sync_reset"} /\ op' = op
          /\ synced' = synced /\ (pc = "got" => ~is_res(msg)) /\ (op = "next_sync" => msg_present)
      <3>1. pc = "got" => Held(op) /\ op = "next_sync"
        BY <1>0, <1>20 DEF NextSync, Heeds
      <3>2. pc = "got" => ~is_res(msg)
        BY <3>1, BranchKinds DEF Held
      <3>3. pc = "sync" => op = "sync_reset"
        BY <1>0 DEF OpOK
      <3>4. op = "next_sync" => msg_present
        BY <1>20, <3>1, <3>3 DEF NextSync, Held
      <3> QED
        BY <1>20, <3>1, <3>2, <3>3, <3>4 DEF NextSync, Refuse, stateVars
    <2>2. \/ RetireMsg(msg, full_addr) /\ ret'.op = op /\ ret'.rc = "ok"
          \/ /\ UNCHANGED <<msg, msg_present>>
             /\ \/ ret' = ret /\ aborted' # "none"
                \/ ret'.op = op /\ ret'.rc = "mismatch"
      BY <1>20 DEF NextSync, Refuse
    <2>3. CASE RetireMsg(msg, full_addr) /\ ret'.op = op /\ ret'.rc = "ok"
      BY <1>0, <1>r, <2>1, <2>3 DEF DataOK, Functions
    <2>4. CASE /\ UNCHANGED <<msg, msg_present>>
               /\ \/ ret' = ret /\ aborted' # "none"
                  \/ ret'.op = op /\ ret'.rc = "mismatch"
      BY <1>e, <2>1, <2>4
    <2> QED
      BY <2>2, <2>3, <2>4
  <1>21. CASE NextStop
    <2>1. /\ pc = "got" /\ pc' = "idle" /\ op = "next_stop" /\ op' = op /\ ~is_res(msg)
      <3>1. Held(op) /\ op = "next_stop"
        BY <1>0, <1>21 DEF NextStop, Heeds
      <3> QED
        BY <1>21, <3>1 DEF NextStop, Refuse, Held, is_stop, is_res
    <2>2. \/ RetireMsg(msg, full_addr) /\ ret'.op = op /\ ret'.rc = "ok"
          \/ /\ UNCHANGED <<msg, msg_present, synced>>
             /\ \/ ret' = ret /\ aborted' # "none"
                \/ ret'.op = op /\ ret'.rc = "mismatch"
      BY <1>21 DEF NextStop, Refuse, stateVars
    <2>3. CASE RetireMsg(msg, full_addr) /\ ret'.op = op /\ ret'.rc = "ok"
      BY <1>0, <1>r, <2>1, <2>3 DEF DataOK, Functions
    <2>4. CASE /\ UNCHANGED <<msg, msg_present, synced>>
               /\ \/ ret' = ret /\ aborted' # "none"
                  \/ ret'.op = op /\ ret'.rc = "mismatch"
      BY <1>e, <2>1, <2>4
    <2> QED
      BY <2>2, <2>3, <2>4
  <1>22. CASE ErrorDrops
    <2>1. pc = "got" /\ op = "next_error" /\ is_error(msg)
      BY <1>0, <1>22 DEF ErrorDrops, Heeds, Held
    <2>2. pc' = "error" /\ op' = op /\ ret' = ret /\ Same
      BY <1>22, <2>1 DEF ErrorDrops, stateVars
    <2> QED
      BY <1>0, <2>1, <2>2 DEF OpOK, Heeds, Between, ResHeld, Sound, DInv
  <1>23. CASE ErrorDrains
    <2>1. pc = "error" /\ pc' = "error" /\ op' = op /\ ret' = ret /\ Same
      BY <1>23 DEF ErrorDrains, stateVars
    <2> QED
      BY <1>0, <2>1 DEF OpOK, Heeds, Between, ResHeld, Sound, DInv
  <1>24. CASE ErrorRetires
    <2>1. /\ pc = "error" /\ pc' = "idle" /\ op = "next_error" /\ op' = op
          /\ RetireMsg(msg, full_addr) /\ ret'.op = op /\ ret'.rc = "ok"
      BY <1>0, <1>24 DEF ErrorRetires, OpOK
    <2> QED
      BY <1>0, <1>r, <2>1 DEF DataOK, Functions
  <1>25. CASE Stopped \/ UNCHANGED vars
    <2>1. UNCHANGED vars
      BY <1>25 DEF Stopped
    <2>2. Same /\ UNCHANGED <<op, pc, ret, aborted>>
      BY <2>1 DEF vars, stateVars
    <2> QED
      BY <1>0, <2>2 DEF OpOK, Heeds, Held, Between, Alive, ResHeld, Sound, DInv
  <1>26. Requests \subseteq Nat /\ 0 \in Nat /\ "try_retire" \in Functions
    BY DecoderAssumption DEF Functions
  <1> QED
    BY <1>1, <1>2, <1>3, <1>4, <1>5, <1>6, <1>7, <1>8, <1>9, <1>10, <1>11, <1>12, <1>13,
       <1>14, <1>15, <1>16, <1>17, <1>18, <1>19, <1>20, <1>21, <1>22, <1>23, <1>24, <1>25, <1>26
    DEF Next, Calls, Steps, Fetches

\* For a disciplined caller the invariant of the discipline always holds.
LEMMA AlwaysDInv == Disciplined /\ Spec => [](IInv /\ DInv)
  <1> SUFFICES ASSUME Disciplined PROVE Spec => [](IInv /\ DInv)
    OBVIOUS
  <1>1. Init => IInv /\ DInv
    <2> SUFFICES ASSUME Init PROVE IInv /\ DInv
      OBVIOUS
    <2>1. ret.op = "none" /\ ret.rc = "ok"
      BY DEF Init
    <2>2. OpOK /\ Heeds /\ ResHeld
      BY <2>1 DEF Init, OpOK, Heeds, ResHeld
    <2> QED
      BY <2>2, InitIInv DEF DInv
  <1>2. IInv /\ DInv /\ [Next]_vars => (IInv /\ DInv)'
    BY DataStep, ControlStep, IcntStep, TntStep, DisciplineStep DEF IInv
  <1> QED
    BY <1>1, <1>2, PTL DEF Spec

-----------------------------------------------------------------------------
(***************************************************************************)
(* Instructions.                                                           *)
(***************************************************************************)
IcntOwed == Sound =>
    owedIcnt = res_icnt - consumed_icnt
                 + (IF Counted THEN IcntOf(msg) * Executions(msg) ELSE 0)

\* How a product shrinks by one execution.
LEMMA OneLess ==
  ASSUME NEW a \in Nat, NEW h \in Nat
  PROVE  a * (h + 1) - a = a * h /\ a * 1 = a /\ a * h \in Nat /\ 0 * h = 0
  OBVIOUS

\* Executing a message once leaves its other repetitions.
LEMMA ExecutionsLeft ==
  ASSUME IInv, NEW m \in FitMessages, NEW fa, Retires(m, fa)
  PROVE  /\ Counted' /\ ~is_sync(msg) =>
               /\ msg.hrepeat \in Nat /\ Executions(msg) = msg.hrepeat + 1
               /\ Executions(msg') = msg.hrepeat
               /\ msg'.tcode = msg.tcode /\ msg'.code = msg.code
               /\ msg'.icnt = msg.icnt /\ msg'.hist = msg.hist
         /\ Counted' /\ is_sync(msg) => msg'.tcode = "ProgTraceSync" /\ msg'.icnt = 0
                                          /\ Executions(msg') = 1
         /\ ~Counted' \/ is_sync(msg) => Executions(msg) = 1
  <1>1. /\ m.tcode = msg.tcode /\ m.code = msg.code /\ m.icnt = msg.icnt /\ m.hist = msg.hist
        /\ m.hrepeat = msg.hrepeat
        /\ Counted' <=> StaysBuffered(m)
    BY RetiringMessage
  <1>2. msg' = MsgRetired(m) /\ m.hrepeat \in Nat
    BY DecoderAssumption DEF Retires, RetireMsg, FitMessages, Messages
  <1>3. (is_branch(m) <=> is_branch(msg)) /\ (is_sync(m) <=> is_sync(msg))
    BY <1>1 DEF is_branch, is_sync
  <1>4. ASSUME Counted', ~is_sync(msg)
        PROVE  /\ msg.hrepeat \in Nat /\ Executions(msg) = msg.hrepeat + 1
               /\ Executions(msg') = msg.hrepeat
               /\ msg'.tcode = msg.tcode /\ msg'.code = msg.code
               /\ msg'.icnt = msg.icnt /\ msg'.hist = msg.hist
    <2>1. is_branch(m) /\ ~is_sync(m) /\ m.hrepeat # 0
      BY <1>1, <1>3, <1>4 DEF StaysBuffered
    <2>2. /\ msg'.tcode = msg.tcode /\ msg'.code = msg.code /\ msg'.icnt = msg.icnt
          /\ msg'.hist = msg.hist /\ msg'.hrepeat = msg.hrepeat - 1
      BY <1>1, <1>2, <2>1, RetiredFields
    <2>3. is_branch(msg') /\ ~is_sync(msg')
      BY <1>1, <2>1, <2>2 DEF is_branch, is_sync
    <2> QED
      BY <1>1, <1>2, <1>3, <2>1, <2>2, <2>3 DEF Executions
  <1>5. ASSUME Counted', is_sync(msg)
        PROVE  msg'.tcode = "ProgTraceSync" /\ msg'.icnt = 0 /\ Executions(msg') = 1
    <2>1. is_branch(m) /\ is_sync(m)
      BY <1>1, <1>3, <1>5 DEF StaysBuffered
    <2>2. msg'.tcode = "ProgTraceSync" /\ msg'.icnt = 0
      BY <1>2, <2>1, RetiredFields
    <2> QED
      BY <2>2, BranchKinds DEF Executions
  <1>6. ~Counted' \/ is_sync(msg) => Executions(msg) = 1
    BY <1>1, <1>2, <1>3 DEF StaysBuffered, Executions
  <1> QED
    BY <1>4, <1>5, <1>6

\* Every step keeps the instructions that are owed.
LEMMA IcntOwedStep == ~TornEnd /\ IInv /\ IcntOwed /\ Kinds => IcntOwed'
  <1> SUFFICES ASSUME ~TornEnd, IInv, IcntOwed, Kinds, Sound' PROVE IcntOwed'
    BY DEF IcntOwed
  <1>0. /\ res_icnt \in Nat /\ consumed_icnt \in Nat /\ msg \in FitMessages
        /\ UINT32_MAX \in Nat /\ MSG_ICNT_MAX \in Nat
    BY DecoderAssumption DEF IInv, IcntOK, DataOK
  <1>1. IcntOf(msg) \in Nat /\ Executions(msg) \in Nat
    BY <1>0, Counts DEF Executions, FitMessages, Messages
  <1>2. CASE \/ Quiet \/ Draining \/ MsgDelivers \/ ElementDelivers
             \/ \E m \in Msgs : Hands(m)
    <2>1. /\ Sound /\ UNCHANGED <<res_icnt, consumed_icnt, owedIcnt>> /\ (Counted' <=> Counted)
          /\ Counted => msg' = msg
      BY <1>2 DEF Quiet, Draining, DrainEmpty, MsgDelivers, TntFromMsg, ElementDelivers,
                  TntFromElement, Hands, resVars, consumedVars, historyVars
    <2> QED
      BY <2>1 DEF IcntOwed
  <1>3. ASSUME NEW n \in Nat, Consuming(n) PROVE IcntOwed'
    <2>1. /\ Sound /\ msg' = msg /\ (Counted' <=> Counted) /\ owedIcnt' = owedIcnt - n
          /\ res_icnt' = (IF res_icnt >= n THEN res_icnt - n ELSE 0)
          /\ consumed_icnt' = (IF res_icnt >= n THEN consumed_icnt
                                                ELSE consumed_icnt + (n - res_icnt))
      BY <1>3 DEF Consuming, ConsumeIcnt
    <2> DEFINE held == IF Counted THEN IcntOf(msg) * Executions(msg) ELSE 0
    <2>2. held' = held /\ held \in Int
      BY <1>1, <2>1
    <2>3. owedIcnt = res_icnt - consumed_icnt + held
      BY <2>1 DEF IcntOwed
    <2> HIDE DEF held
    <2>4. owedIcnt' = res_icnt' - consumed_icnt' + held'
      BY <1>0, <2>1, <2>2, <2>3
    <2> QED
      BY <2>4 DEF IcntOwed, held
  <1>4. ASSUME NEW m \in FitMessages, NEW k \in Nat, Counting(m, k) PROVE IcntOwed'
    <2>1. /\ owedIcnt = res_icnt - consumed_icnt /\ Counted'
          /\ UNCHANGED <<res_icnt, consumed_icnt>>
          /\ owedIcnt' = owedIcnt + IcntOf(m) * k /\ Executions(msg') = k
      BY <1>0, <1>4 DEF Counting, Owe, IcntOwed, resVars, consumedVars
    <2>2. IcntOf(msg') = IcntOf(m)
      BY <1>4, CountedFields DEF IcntOf, has_icnt, is_res
    <2> QED
      BY <2>1, <2>2 DEF IcntOwed
  <1>5. CASE Accumulating
    <2>1. /\ owedIcnt = res_icnt - consumed_icnt /\ consumed_icnt' = consumed_icnt
          /\ ~Counted' /\ res_icnt' = IcntPulled /\ owedIcnt' = owedIcnt + IcntOf(msg)
          /\ PullError = "none" /\ msg_present /\ pc # "idle"
      BY <1>0, <1>5 DEF Accumulating, PullRes, Pulling, IcntOwed, consumedVars, IInv, ControlOK
    <2>2. res_icnt <= UINT32_MAX - MSG_ICNT_MAX
      BY <2>1, Available
    <2>3. has_icnt(msg) => msg.icnt \in Nat /\ msg.icnt <= MSG_ICNT_MAX
      BY <1>0, <2>1 DEF IInv, IcntOK, FitMessages, Messages
    <2>4. IcntPulled = res_icnt + IcntOf(msg)
      <3>1. CASE has_icnt(msg)
        BY <1>0, <2>1, <2>2, <2>3, <3>1, WrapRange DEF IcntPulled, IcntOf
      <3>2. CASE ~has_icnt(msg)
        BY <1>0, <3>2 DEF IcntPulled, IcntOf
      <3> QED
        BY <3>1, <3>2
    <2> QED
      BY <1>0, <1>1, <2>1, <2>4 DEF IcntOwed
  <1>6. ASSUME NEW m \in FitMessages, NEW fa \in SUBSET (0 .. WordBits - 1), Retires(m, fa)
        PROVE  IcntOwed'
    <2>1. /\ res_icnt = 0 /\ res_icnt' = 0 /\ consumed_icnt = IcntOf(msg) /\ consumed_icnt' = 0
          /\ owedIcnt' = owedIcnt
          /\ owedIcnt = res_icnt - consumed_icnt + IcntOf(msg) * Executions(msg)
      <3>1. RetireAssert = "none"
        BY <1>6 DEF Retires
      <3>2. res_icnt = 0 /\ consumed_icnt = IcntOf(msg)
        BY <3>1 DEF RetireAssert
      <3> QED
        BY <1>6, <3>2 DEF Retires, RetireMsg, IcntOwed, resVars, historyVars
    <2>2. CASE Counted' /\ ~is_sync(msg)
      <3>1. msg.hrepeat \in Nat /\ Executions(msg) = msg.hrepeat + 1 /\ Executions(msg') = msg.hrepeat
        BY <1>6, <2>2, ExecutionsLeft
      <3>2. IcntOf(msg') = IcntOf(msg)
        BY <1>6, <2>2, ExecutionsLeft DEF IcntOf, has_icnt, is_res
      <3>3. IcntOf(msg) * (msg.hrepeat + 1) - IcntOf(msg) = IcntOf(msg) * msg.hrepeat
            /\ IcntOf(msg) * (msg.hrepeat + 1) \in Nat
        BY <1>1, <3>1, OneLess
      <3> QED
        BY <1>1, <2>1, <2>2, <3>1, <3>2, <3>3 DEF IcntOwed
    <2>3. CASE Counted' /\ is_sync(msg)
      <3>1. Executions(msg) = 1 /\ Executions(msg') = 1 /\ msg'.icnt = 0
        BY <1>6, <2>3, ExecutionsLeft
      <3>2. IcntOf(msg') = 0
        BY <3>1 DEF IcntOf
      <3> QED
        BY <1>1, <2>1, <2>3, <3>1, <3>2 DEF IcntOwed
    <2>4. CASE ~Counted'
      <3>1. Executions(msg) = 1
        BY <1>6, <2>4, ExecutionsLeft
      <3> QED
        BY <1>1, <2>1, <2>4, <3>1 DEF IcntOwed
    <2> QED
      BY <2>2, <2>3, <2>4
  <1>7. CASE Restarting
    <2>1. /\ res_icnt' = 0 /\ consumed_icnt' = 0 /\ owedIcnt' = 0
          /\ msg'.icnt = 0 /\ msg'.tcode = "ProgTraceSync"
      BY <1>0, <1>7 DEF Restarting, SyncFound, FitMessages, Messages
    <2>2. IcntOf(msg') = 0 /\ Executions(msg') = 1
      BY <2>1, BranchKinds DEF IcntOf, Executions
    <2> QED
      BY <2>1, <2>2 DEF IcntOwed
  <1> QED
    BY <1>2, <1>3, <1>4, <1>5, <1>6, <1>7 DEF Kinds

\* For every stream that does not end right behind a branch, whether or not an
\* encoder would send it, every failure and every caller that takes the events
\* it is told of: each instruction a message accounts for is retired exactly
\* once, repetitions and accumulated ResourceFull messages included.
THEOREM IcntAlwaysConserved == ~TornEnd /\ Disciplined /\ Spec => []IcntConserved
  <1> SUFFICES ASSUME ~TornEnd, Disciplined PROVE Spec => []IcntConserved
    OBVIOUS
  <1>1. Init => IcntOwed
    BY DEF Init, IcntOwed, Sound
  <1>2. IInv /\ IcntOwed /\ [Next]_vars => IcntOwed'
    <2>1. ~Sound' => IcntOwed'
      BY DEF IcntOwed
    <2> QED
      BY <2>1, StepIsOfAKind, IcntOwedStep
  <1>3. IInv /\ DInv /\ IcntOwed => IcntConserved
    <2> SUFFICES ASSUME IInv, DInv, IcntOwed, Between PROVE IcntConserved
      BY DEF IcntConserved
    <2>1. Sound /\ pc = "idle"
      BY DEF Between, Sound
    <2>2. msg_present /\ ~Counted => ~has_icnt(msg) /\ is_res(msg)
      BY <2>1 DEF DInv, ResHeld, Counted
    <2>3. is_res(msg) => Executions(msg) = 1
      BY BranchKinds DEF Executions
    <2>4. msg_present /\ ~Counted => IcntOf(msg) * Executions(msg) = 0
      BY <2>2, <2>3 DEF IcntOf
    <2>5. Counted => msg_present
      BY DEF Counted
    <2> QED
      BY <2>1, <2>4, <2>5 DEF IcntOwed, IcntConserved
  <1> QED
    BY <1>1, <1>2, <1>3, AlwaysDInv, PTL DEF Spec

-----------------------------------------------------------------------------
(***************************************************************************)
(* Time.  T[i] is the time when the first i accumulated elements are used  *)
(* up; the message behind them reaches the time that is due.               *)
(***************************************************************************)
Times(T) ==
    /\ T \in [0 .. Len(res_hists) -> Nat]
    /\ T[0] = timestamp
    /\ \A i \in 1 .. Len(res_hists) : T[i] = Later(T[i - 1], res_hists[i].ts)
    /\ due.time = IF ~Counted THEN T[Len(res_hists)]
                  ELSE IF is_sync(msg) THEN msg.ts
                  ELSE Later(T[Len(res_hists)], msg.ts)

TimeOwed == Sound => \E T : Times(T)

\* A message that is handed to the caller is not buffered, and no other is but a
\* ResourceFull.
AsideOK == /\ pc = "owner" => ret.rc = "ok"
           /\ pc = "idle" /\ Alive /\ ret.rc = "unsupported" => ~Counted

\* Without repetitions in the stream there are none in the decoder.
OnceOK == msg.hrepeat = 0 /\ \A i \in 1 .. Len(res_hists) : res_hists[i].repeat = 1

\* SiFive times are exclusive-ored, others are added; the order does not matter,
\* and a SiFive delta that is used up changes nothing.
LEMMA LaterLaws ==
  ASSUME NEW t \in Nat, NEW a \in Nat, NEW b \in Nat
  PROVE  /\ Later(Later(t, a), b) = Later(Later(t, b), a)
         /\ QuirkSifive => Later(Later(t, a), 0) = Later(t, a)
  <1> DEFINE X(x, y) == ((x + y) % 2) + (((x \div 2) + (y \div 2)) % 2) * 2
  <1>1. \A x, y \in Nat : Xor(x, y) = X(x, y)
    BY DEF Xor, XorBit
  <1>2. \A x, y \in Nat : X(x, y) \in Nat
    OBVIOUS
  <1>3. X(X(t, a), b) = X(X(t, b), a)
    OBVIOUS
  <1>4. X(X(t, a), 0) = X(t, a)
    OBVIOUS
  <1> HIDE DEF X
  <1>5. /\ Xor(Xor(t, a), b) = X(X(t, a), b)
        /\ Xor(Xor(t, b), a) = X(X(t, b), a)
        /\ Xor(Xor(t, a), 0) = X(X(t, a), 0)
        /\ Xor(t, a) = X(t, a)
    BY <1>1, <1>2
  <1>6. CASE QuirkSifive
    BY <1>3, <1>4, <1>5, <1>6 DEF Later
  <1>7. CASE ~QuirkSifive
    BY <1>7 DEF Later
  <1> QED
    BY <1>6, <1>7

\* No step gives a message to the caller while another one counts.
LEMMA AsideStep == IInv /\ AsideOK /\ [Next]_vars => AsideOK'
  <1> SUFFICES ASSUME IInv, AsideOK, [Next]_vars PROVE AsideOK'
    OBVIOUS
  <1> USE DEF Return, Fail, Abort, Goto
  <1>0. DataOK /\ ControlOK
    BY DEF IInv
  <1> DEFINE Calm == /\ pc' = "owner" => ret'.rc = "ok"
                     /\ pc' = "idle" => ret'.rc # "unsupported" \/ aborted' # "none"
  <1>1. Calm => AsideOK'
    BY DEF AsideOK, Alive
  <1>2. ASSUME NEW f, NEW n, Call(f, n) PROVE Calm
    BY <1>2 DEF Call
  <1>3. CASE TakeUnsupported
    <2>1. pc' = "idle" /\ (ret' = [ret EXCEPT !.rc = "retry"] \/ ret' = [ret EXCEPT !.rc = "eof"])
      BY <1>3 DEF TakeUnsupported
    <2>2. ret'.rc # "unsupported"
      <3>1. CASE ret' = [ret EXCEPT !.rc = "retry"] /\ ret.rc = "unsupported"
        BY <3>1
      <3>2. CASE ret' = [ret EXCEPT !.rc = "eof"] /\ ret.rc = "unsupported"
        BY <3>2
      <3> QED
        BY <1>3, <2>1, <3>1, <3>2 DEF TakeUnsupported
    <2> QED
      BY <1>1, <2>1, <2>2
  <1>4. CASE StackCalls \/ Stopped \/ UNCHANGED vars
    <2>1. UNCHANGED <<msg, msg_present, pc, ret, aborted>>
      BY <1>4 DEF StackCalls, PushCall, PopRet, Stopped, vars
    <2> QED
      BY <2>1 DEF AsideOK, Alive, Counted
  <1>5. CASE FetchNew
    <2>1. PICK m \in Msgs :
             /\ msg_present' = check_msg(m)
             /\ \/ pc' \in {"lookahead", "got"}
                \/ pc' = "idle" /\ ~check_msg(m)
      BY <1>5 DEF FetchNew
    <2> QED
      BY <2>1 DEF AsideOK, Counted
  <1>6. CASE PullFails
    <2>1. is_res(msg') /\ pc' = "idle"
      BY <1>6 DEF PullFails
    <2> QED
      BY <2>1 DEF AsideOK, Counted
  <1>7. CASE FetchExisting \/ LookAhead \/ LookAheadEnd \/ PullKeeps \/ PullRes \/ DrainEmpty
             \/ SyncSkip \/ SyncFound \/ ErrorDrains
    BY <1>1, <1>7 DEF FetchExisting, LookAhead, LookAheadEnd, PullKeeps, PullRes, DrainEmpty, SyncSkip,
                SyncFound, ErrorDrains
  <1>8. CASE FetchEnd \/ FetchError \/ ErrorDrops \/ ErrorRetires
    BY <1>1, <1>8 DEF FetchEnd, FetchError, ErrorDrops, ErrorRetires
  <1>9. CASE RetireSome \/ RetireAll \/ RetirePulls \/ TntSeeks
    BY <1>1, <1>9 DEF RetireSome, RetireAll, RetireReturns, RetirePulls, TntSeeks
  <1>10. CASE TntFromMsg \/ TntFromElement
    BY <1>1, <1>10 DEF TntFromMsg, TntFromElement, Deliver
  <1>11. CASE TntFromBranch
    <2>1. AvailableIcnt \in 0 .. UINT32_MAX
      BY <1>11, Available DEF TntFromBranch, Branching
    <2>2. AvailableIcnt \in Nat
      BY <2>1, DecoderAssumption
    <2> QED
      BY <1>1, <1>11, <2>2 DEF TntFromBranch, IcntAssert, ResAssert
  <1>12. CASE NextIndirect \/ NextSync \/ NextStop
    BY <1>1, <1>12 DEF NextIndirect, NextSync, NextStop, Refuse
  <1>13. CASE Owner \/ OwnerEnd
    <2>1. pc = "owner" /\ pc' = "idle" /\ \E b \in BOOLEAN : ret' = [ret EXCEPT !.ownership = b]
      BY <1>13 DEF Owner, OwnerEnd
    <2>2. ret.rc = "ok"
      BY <2>1 DEF AsideOK
    <2>3. ret'.rc = "ok"
      BY <2>1, <2>2
    <2> QED
      BY <1>1, <2>1, <2>3
  <1> HIDE DEF Calm
  <1> QED
    BY <1>1, <1>2, <1>3, <1>4, <1>5, <1>6, <1>7, <1>8, <1>9, <1>10, <1>11, <1>12, <1>13
    DEF Next, Calls, Steps, Fetches

\* With neither repetitions nor RepeatBranch in the stream nothing is repeated.
LEMMA OnceStep ==
  ~QuirkSifive /\ ~TornEnd /\ (\A m \in Msgs : m.hrepeat = 0) /\ IInv /\ OnceOK /\ [Next]_vars
  => OnceOK'
  <1> SUFFICES ASSUME ~QuirkSifive, ~TornEnd, \A m \in Msgs : m.hrepeat = 0, IInv, OnceOK, [Next]_vars
               PROVE  OnceOK'
    OBVIOUS
  <1>0. /\ msg \in FitMessages /\ res_hists \in Seq(FitElements) /\ msg.hrepeat = 0
        /\ \A i \in 1 .. Len(res_hists) : res_hists[i].repeat = 1
    BY DEF IInv, DataOK, OnceOK
  <1> DEFINE Once(s) == \A i \in 1 .. Len(s) : s[i].repeat = 1
  <1>1. msg'.hrepeat = 0 /\ Once(res_hists)' => OnceOK'
    BY DEF OnceOK
  <1>2. res_hists # << >> => Once(Tail(res_hists)) /\ res_hists[1].repeat = 1
    BY <1>0
  <1>3. Once(<< >>)
    OBVIOUS
  <1>4. ASSUME NEW m \in FitMessages, NEW fa, RetireMsg(m, fa), m.hrepeat = 0
        PROVE  msg'.hrepeat = 0
    <2>1. MsgRetired(m).hrepeat = 0
      <3>1. CASE is_branch(m) /\ is_sync(m)
        <4>1. MsgRetired(m) = [m EXCEPT !.tcode = "ProgTraceSync", !.icnt = 0, !.hist = << >>]
          BY <3>1 DEF MsgRetired
        <4> QED
          BY <1>4, <4>1 DEF FitMessages, Messages
      <3>2. CASE ~is_branch(m) /\ is_sync(m)
        BY <1>4, <3>2 DEF MsgRetired
      <3>3. CASE ~is_sync(m)
        <4>1. MsgRetired(m) = [m EXCEPT !.ts = Spent(m.ts), !.hrepeat = 0]
          BY <1>4, <3>3 DEF MsgRetired
        <4> QED
          BY <4>1 DEF FitMessages, Messages
      <3> QED
        BY <3>1, <3>2, <3>3
    <2> QED
      BY <1>4, <2>1 DEF RetireMsg
  <1>5. CASE UNCHANGED <<msg, res_hists>>
    BY <1>0, <1>1, <1>5
  <1>6. CASE FetchNew
    <2>1. PICK m \in Msgs : msg' = IF LooksAhead(m) THEN [m EXCEPT !.hrepeat = 0] ELSE m
      BY <1>6 DEF FetchNew
    <2>2. msg'.hrepeat = 0
      BY <2>1, MsgsFit DEF FitMessages, Messages
    <2>3. res_hists' = res_hists
      BY <1>6 DEF FetchNew, untouched, resVars
    <2> QED
      BY <1>0, <1>1, <2>2, <2>3
  <1>7. CASE LookAhead
    <2>1. PICK m \in Msgs : msg' = IF m.tcode = "RepeatBranch"
                               THEN [msg EXCEPT !.hrepeat = m.hrepeat] ELSE msg
      BY <1>7 DEF LookAhead
    <2>2. msg'.hrepeat = 0
      BY <1>0, <2>1, MsgsFit DEF FitMessages, Messages
    <2>3. res_hists' = res_hists
      BY <1>7 DEF LookAhead, untouched, resVars
    <2> QED
      BY <1>0, <1>1, <2>2, <2>3
  <1>8. CASE LookAheadEnd
    BY <1>8 DEF LookAheadEnd, AtEnd
  <1>9. CASE PullRes
    <2>1. ElementRepeat(msg) = 1
      BY <1>0 DEF ElementRepeat, SifiveRepeat
    <2> DEFINE e == [hist |-> ElementHist(msg), repeat |-> ElementRepeat(msg), ts |-> msg.ts]
    <2>2. res_hists' = Append(res_hists, e) /\ msg' = msg
      BY <1>9 DEF PullRes
    <2>3. e.repeat = 1 /\ e \in FitElements
      BY <1>0, <2>1, PulledElement
    <2> HIDE DEF e
    <2> QED
      BY <1>0, <1>1, <2>2, <2>3
  <1>10. CASE DrainEmpty \/ ErrorDrains
    BY <1>0, <1>1, <1>2, <1>10 DEF DrainEmpty, EmptyInFront, ErrorDrains
  <1>11. CASE TntFromElement
    <2>1. msg' = msg /\ (res_hists' = res_hists \/ (res_hists # << >> /\ res_hists' = ElementUsed(res_hists[1])))
      BY <1>11 DEF TntFromElement
    <2>2. res_hists # << >> => ElementUsed(res_hists[1]) = Tail(res_hists)
      BY <1>2 DEF ElementUsed
    <2> QED
      BY <1>0, <1>1, <1>2, <2>1, <2>2
  <1>12. CASE TntFromBranch \/ NextSync \/ NextStop \/ ErrorRetires
    <2>1. res_hists' = res_hists /\ (msg' = msg \/ RetireMsg(msg, full_addr))
      BY <1>12 DEF TntFromBranch, NextSync, NextStop, ErrorRetires, Refuse, resVars
    <2> QED
      BY <1>0, <1>1, <1>4, <2>1
  <1>13. CASE NextIndirect
    <2>1. res_hists' = res_hists /\ (msg' = msg \/ \E fa : RetireMsg(AddressUsed(msg), fa))
      BY <1>13 DEF NextIndirect, Refuse, resVars
    <2>2. AddressUsed(msg) \in FitMessages /\ AddressUsed(msg).hrepeat = 0
      BY <1>0 DEF AddressUsed, FitMessages, Messages, Fits
    <2> QED
      BY <1>0, <1>1, <1>4, <2>1, <2>2
  <1>14. CASE SyncFound
    <2>1. res_hists' = << >> /\ msg'.hrepeat = 0
      BY <1>0, <1>14 DEF SyncFound, FitMessages, Messages
    <2> QED
      BY <1>1, <2>1
  <1>15. ASSUME NEW f, NEW n, Call(f, n) PROVE UNCHANGED <<msg, res_hists>>
    BY <1>15 DEF Call, resVars
  <1>16. \/ TakeUnsupported \/ StackCalls \/ Stopped \/ UNCHANGED vars \/ FetchExisting \/ FetchEnd
         \/ FetchError \/ PullKeeps \/ PullFails \/ RetireSome \/ RetireAll \/ RetirePulls
         \/ TntSeeks \/ TntFromMsg \/ Owner \/ OwnerEnd \/ SyncSkip \/ ErrorDrops
         => UNCHANGED <<msg, res_hists>>
    BY DEF TakeUnsupported, StackCalls, PushCall, PopRet, Stopped, vars, FetchExisting, FetchEnd,
           FetchError, PullKeeps, PullFails, RetireSome, RetireAll, RetirePulls, TntSeeks,
           TntFromMsg, Owner, OwnerEnd, SyncSkip, ErrorDrops, untouched, resVars
  <1> QED
    BY <1>5, <1>6, <1>7, <1>8, <1>9, <1>10, <1>11, <1>12, <1>13, <1>14, <1>15, <1>16
    DEF Next, Calls, Steps, Fetches

\* The hypotheses under which the time of a message counts once: SiFive deltas
\* are used up by the first execution; otherwise nothing may be repeated.
Single == QuirkSifive \/ OnceOK

\* The accumulated elements in front lead to the same time when the first of
\* them is used.
LEMMA FrontUsed ==
  ASSUME IInv, NEW T, Times(T), res_hists # << >>, timestamp' = T[1],
         UNCHANGED <<msg, due>>, Counted' <=> Counted,
         \/ res_hists' = Tail(res_hists)
         \/ QuirkSifive /\ res_hists' = ElementUsed(res_hists[1])
  PROVE  \E S : Times(S)'
  <1>0. res_hists \in Seq(FitElements) /\ Len(res_hists) \in Nat /\ Len(res_hists) > 0
    BY DEF IInv, DataOK
  <1> DEFINE n == Len(res_hists)
             e == res_hists[1]
             e2 == [e EXCEPT !.repeat = e.repeat - 1, !.ts = Spent(e.ts)]
  <1>1. /\ T \in [0 .. n -> Nat] /\ T[0] = timestamp
        /\ \A i \in 1 .. n : T[i] = Later(T[i - 1], res_hists[i].ts)
        /\ due.time = IF ~Counted THEN T[n] ELSE IF is_sync(msg) THEN msg.ts ELSE Later(T[n], msg.ts)
    BY DEF Times
  <1>2. CASE res_hists' = Tail(res_hists)
    <2>s. PICK S : S = [i \in 0 .. n - 1 |-> T[i + 1]]
      OBVIOUS
    <2>1. Len(res_hists') = n - 1 /\ \A i \in 1 .. n - 1 : res_hists'[i] = res_hists[i + 1]
      BY <1>0, <1>2
    <2>2. S \in [0 .. n - 1 -> Nat] /\ S[0] = T[1] /\ S[n - 1] = T[n]
      BY <1>0, <1>1, <2>s
    <2>3. \A i \in 1 .. n - 1 : S[i] = Later(S[i - 1], res_hists[i + 1].ts)
      BY <1>0, <1>1, <2>s
    <2>4. Times(S)'
      BY <1>0, <1>1, <2>1, <2>2, <2>3 DEF Times
    <2> QED
      BY <2>4
  <1>3. CASE QuirkSifive /\ res_hists' = ElementUsed(e) /\ e.repeat # 1
    <2>s. PICK S : S = [i \in 0 .. n |-> IF i = 0 THEN T[1] ELSE T[i]]
      OBVIOUS
    <2>0. e \in FitElements /\ Tail(res_hists) \in Seq(FitElements) /\ e.ts \in Nat
      BY FirstElement
    <2>1. /\ Len(res_hists') = n /\ res_hists'[1].ts = 0
          /\ \A i \in 2 .. n : res_hists'[i] = res_hists[i]
      <3>1. e2.ts = 0
        BY <1>3, <2>0 DEF FitElements, Element, Spent
      <3>2. res_hists' = <<e2>> \o Tail(res_hists)
        BY <1>3 DEF ElementUsed
      <3> HIDE DEF e2
      <3>3. Len(<<e2>>) = 1 /\ <<e2>>[1] = e2
        OBVIOUS
      <3> QED
        BY <1>0, <2>0, <3>1, <3>2, <3>3
    <2>2. S \in [0 .. n -> Nat] /\ S[0] = T[1] /\ (\A i \in 1 .. n : S[i] = T[i])
      BY <1>0, <1>1, <2>s
    <2>3. T[1] = Later(T[1], 0)
      <3>1. T[1] = Later(T[0], e.ts) /\ T[0] \in Nat
        BY <1>0, <1>1
      <3> QED
        BY <1>3, <2>0, <3>1, LaterLaws
    <2>4. \A i \in 1 .. n : S[i] = Later(S[i - 1], res_hists'[i].ts)
      <3>1. S[1] = Later(S[0], res_hists'[1].ts)
        BY <1>0, <2>1, <2>2, <2>3
      <3>2. \A i \in 2 .. n : S[i] = Later(S[i - 1], res_hists'[i].ts)
        BY <1>0, <1>1, <2>1, <2>2
      <3> QED
        BY <1>0, <3>1, <3>2
    <2>5. S[n] = T[n]
      BY <1>0, <2>2
    <2>6. Times(S)'
      BY <1>0, <1>1, <2>1, <2>2, <2>4, <2>5 DEF Times
    <2> QED
      BY <2>6
  <1> QED
    BY <1>2, <1>3 DEF ElementUsed

\* Every step keeps the time that is due.
LEMMA TimeStep == IInv /\ DueOK /\ AsideOK /\ Single /\ TimeOwed /\ Kinds => TimeOwed'
  <1> SUFFICES ASSUME IInv, DueOK, AsideOK, Single, TimeOwed, Kinds PROVE \E S : Times(S)'
    BY DEF TimeOwed
  <1> DEFINE n == Len(res_hists)
  <1>0. /\ msg \in FitMessages /\ res_hists \in Seq(FitElements) /\ n \in Nat /\ timestamp \in Nat
        /\ msg.ts \in Nat
    BY DEF IInv, DataOK, FitMessages, Messages
  <1>1. ASSUME NEW T, Times(T)
        PROVE  /\ T \in [0 .. n -> Nat] /\ T[0] = timestamp
               /\ \A i \in 1 .. n : T[i] = Later(T[i - 1], res_hists[i].ts)
               /\ due.time = IF ~Counted THEN T[n] ELSE IF is_sync(msg) THEN msg.ts
                                              ELSE Later(T[n], msg.ts)
               /\ T[n] \in Nat
    BY <1>0, <1>1 DEF Times
  <1>2. CASE Quiet \/ MsgDelivers \/ \E k \in Nat : Consuming(k)
    <2>1. /\ Sound /\ UNCHANGED <<res_hists, timestamp, due>> /\ (Counted' <=> Counted)
          /\ Counted => msg' = msg
      BY <1>2 DEF Quiet, MsgDelivers, TntFromMsg, Consuming, resVars, historyVars
    <2>2. PICK T : Times(T)
      BY <2>1 DEF TimeOwed
    <2>3. Times(T)'
      BY <2>1, <2>2 DEF Times
    <2> QED
      BY <2>3
  <1>3. ASSUME NEW m \in Msgs, Hands(m) PROVE \E S : Times(S)'
    <2>1. /\ Sound /\ ~Counted /\ ~Counted' /\ res_hists' = res_hists
          /\ timestamp' = Later(timestamp, m.ts) /\ due'.time = Later(due.time, m.ts)
      BY <1>3 DEF Hands, AsideOK, DueOK, resVars
    <2>2. PICK T : Times(T)
      BY <2>1 DEF TimeOwed
    <2>3. m.ts \in Nat /\ \A i \in 1 .. n : res_hists[i].ts \in Nat
      <3>1. \A i \in 1 .. n : res_hists[i] \in FitElements
        BY <1>0
      <3> QED
        BY <3>1, MsgsFit DEF FitMessages, Messages, FitElements, Element
    <2>s. PICK S : S = [i \in 0 .. n |-> Later(T[i], m.ts)]
      OBVIOUS
    <2>4. S \in [0 .. n -> Nat] /\ S[0] = timestamp' /\ S[n] = due'.time
      <3>1. \A i \in 0 .. n : T[i] \in Nat
        BY <1>1, <2>2
      <3>2. \A i \in 0 .. n : Later(T[i], m.ts) \in Nat
        BY <2>3, <3>1, LaterInNat
      <3>3. T[0] = timestamp /\ T[n] = due.time
        BY <1>1, <2>1, <2>2
      <3> QED
        BY <1>0, <2>1, <2>s, <3>2, <3>3
    <2>5. ASSUME NEW i \in 1 .. n PROVE S[i] = Later(S[i - 1], res_hists[i].ts)
      <3>1. /\ i - 1 \in 0 .. n /\ i \in 0 .. n /\ T[i - 1] \in Nat
            /\ T[i] = Later(T[i - 1], res_hists[i].ts) /\ res_hists[i].ts \in Nat
        <4>1. n \in Nat
          BY <1>0
        <4>2. i - 1 \in 0 .. n /\ i \in 0 .. n
          BY <4>1
        <4>3. T[i - 1] \in Nat /\ T[i] = Later(T[i - 1], res_hists[i].ts)
          BY <1>1, <2>2, <4>2
        <4> QED
          BY <2>3, <4>2, <4>3
      <3>2. Later(Later(T[i - 1], res_hists[i].ts), m.ts) = Later(Later(T[i - 1], m.ts), res_hists[i].ts)
        BY <2>3, <3>1, LaterLaws
      <3> QED
        BY <2>s, <3>1, <3>2
    <2>6. Times(S)'
      BY <2>1, <2>4, <2>5 DEF Times
    <2> QED
      BY <2>6
  <1>4. ASSUME NEW m \in FitMessages, NEW k \in Nat, Counting(m, k) PROVE \E S : Times(S)'
    <2>1. /\ Sound /\ ~Counted /\ Counted' /\ UNCHANGED <<res_hists, timestamp>>
          /\ due'.time = IF is_sync(m) THEN m.ts ELSE Later(due.time, m.ts)
      BY <1>4 DEF Counting, Owe, resVars
    <2>2. PICK T : Times(T)
      BY <2>1 DEF TimeOwed
    <2>3. msg'.ts = m.ts /\ (is_sync(msg') <=> is_sync(m))
      BY <1>4, CountedFields DEF is_sync
    <2>4. Times(T)'
      BY <1>1, <2>1, <2>2, <2>3 DEF Times
    <2> QED
      BY <2>4
  <1>5. CASE Accumulating
    <2> DEFINE e == [hist |-> ElementHist(msg), repeat |-> ElementRepeat(msg), ts |-> msg.ts]
    <2>1. /\ Sound /\ ~Counted /\ ~Counted' /\ res_hists' = Append(res_hists, e)
          /\ timestamp' = timestamp /\ due'.time = Later(due.time, msg.ts)
      BY <1>5 DEF Accumulating, PullRes, DueOK
    <2>2. PICK T : Times(T)
      BY <2>1 DEF TimeOwed
    <2>3. e.ts = msg.ts /\ e \in FitElements
      BY <1>0, PulledElement
    <2> HIDE DEF e
    <2>s. PICK S : S = [i \in 0 .. n + 1 |-> IF i = n + 1 THEN Later(T[n], msg.ts) ELSE T[i]]
      OBVIOUS
    <2>4. /\ Len(res_hists') = n + 1 /\ res_hists'[n + 1] = e
          /\ \A i \in 1 .. n : res_hists'[i] = res_hists[i]
      BY <1>0, <2>1, <2>3
    <2>5. Later(T[n], msg.ts) \in Nat
      BY <1>0, <1>1, <2>2, LaterInNat
    <2>6. /\ S \in [0 .. n + 1 -> Nat] /\ S[n + 1] = Later(T[n], msg.ts)
          /\ \A i \in 0 .. n : S[i] = T[i]
      BY <1>0, <1>1, <2>2, <2>5, <2>s
    <2>7. S[0] = timestamp' /\ S[n + 1] = due'.time
      BY <1>0, <1>1, <2>1, <2>2, <2>6
    <2>8. \A i \in 1 .. n + 1 : S[i] = Later(S[i - 1], res_hists'[i].ts)
      <3>1. ASSUME NEW i \in 1 .. n PROVE S[i] = Later(S[i - 1], res_hists'[i].ts)
        <4>1. i - 1 \in 0 .. n /\ i \in 0 .. n
          BY <1>0
        <4>2. T[i] = Later(T[i - 1], res_hists[i].ts)
          BY <1>1, <2>2
        <4> QED
          BY <2>4, <2>6, <4>1, <4>2
      <3>2. S[n + 1] = Later(S[(n + 1) - 1], res_hists'[n + 1].ts)
        BY <1>0, <2>3, <2>4, <2>6
      <3>3. \A i \in 1 .. n + 1 : i = n + 1 \/ i \in 1 .. n
        BY <1>0
      <3> QED
        BY <3>1, <3>2, <3>3
    <2>9. Times(S)'
      BY <2>1, <2>4, <2>6, <2>7, <2>8 DEF Times
    <2> QED
      BY <2>9
  <1>6. CASE Draining
    <2>1. /\ Sound /\ res_hists # << >> /\ timestamp' = Later(timestamp, res_hists[1].ts)
          /\ res_hists' = Tail(res_hists) /\ UNCHANGED <<msg, due>> /\ (Counted' <=> Counted)
      BY <1>6 DEF Draining, DrainEmpty, EmptyInFront, historyVars
    <2>2. PICK T : Times(T)
      BY <2>1 DEF TimeOwed
    <2>3. timestamp' = T[1]
      BY <1>0, <1>1, <2>1, <2>2
    <2> QED
      BY <2>1, <2>2, <2>3, FrontUsed
  <1>7. CASE ElementDelivers
    <2>1. /\ Sound /\ res_hists # << >> /\ UNCHANGED <<msg, due>> /\ (Counted' <=> Counted)
          /\ \/ UNCHANGED <<res_hists, timestamp>>
             \/ /\ timestamp' = Later(timestamp, res_hists[1].ts)
                /\ res_hists' = ElementUsed(res_hists[1])
      BY <1>7 DEF ElementDelivers, TntFromElement, Abort
    <2>2. PICK T : Times(T)
      BY <2>1 DEF TimeOwed
    <2>3. CASE UNCHANGED <<res_hists, timestamp>>
      <3>1. Times(T)'
        BY <2>1, <2>2, <2>3 DEF Times
      <3> QED
        BY <3>1
    <2>4. CASE /\ timestamp' = Later(timestamp, res_hists[1].ts)
               /\ res_hists' = ElementUsed(res_hists[1])
      <3>1. timestamp' = T[1]
        BY <1>0, <1>1, <2>1, <2>2, <2>4
      <3>2. QuirkSifive \/ res_hists' = Tail(res_hists)
        BY <1>0, <2>1, <2>4 DEF Single, OnceOK, ElementUsed
      <3> QED
        BY <2>1, <2>2, <2>4, <3>1, <3>2, FrontUsed
    <2> QED
      BY <2>1, <2>3, <2>4
  <1>8. ASSUME NEW m \in FitMessages, NEW fa \in SUBSET (0 .. WordBits - 1), Retires(m, fa)
        PROVE  \E S : Times(S)'
    <2>1. /\ Sound /\ Counted /\ res_hists = << >> /\ res_hists' = << >> /\ due' = due
          /\ msg' = MsgRetired(m)
          /\ timestamp' = IF is_sync(m) THEN m.ts ELSE Later(timestamp, m.ts)
      <3>1. RetireAssert = "none"
        BY <1>8 DEF Retires
      <3>2. res_hists = << >>
        BY <3>1 DEF RetireAssert
      <3> QED
        BY <1>8, <3>2 DEF Retires, RetireMsg, resVars, historyVars
    <2>2. PICK T : Times(T)
      BY <2>1 DEF TimeOwed
    <2>3. /\ m.tcode = msg.tcode /\ m.ts = msg.ts /\ m.hrepeat = msg.hrepeat
          /\ Counted' <=> StaysBuffered(m)
      BY <1>8, RetiringMessage
    <2>4. (is_sync(m) <=> is_sync(msg)) /\ (is_branch(m) <=> is_branch(msg))
      BY <2>3 DEF is_sync, is_branch
    <2>5. due.time = timestamp' /\ timestamp' \in Nat
      BY <1>0, <1>1, <2>1, <2>2, <2>3, <2>4, LaterInNat
    <2>6. Counted' => IF is_sync(msg') THEN msg'.ts = timestamp' ELSE Later(timestamp', msg'.ts) = timestamp'
      <3>1. CASE is_branch(m) /\ is_sync(m)
        <4>1. msg'.ts = m.ts /\ msg'.tcode = "ProgTraceSync"
          BY <2>1, <3>1, RetiredFields
        <4> QED
          BY <2>1, <3>1, <4>1, BranchKinds
      <3>2. CASE is_branch(m) /\ ~is_sync(m) /\ m.hrepeat # 0
        <4>1. QuirkSifive
          BY <2>3, <3>2 DEF Single, OnceOK
        <4>2. msg'.ts = 0 /\ msg'.tcode = m.tcode
          BY <2>1, <3>2, <4>1, RetiredFields DEF Spent
        <4>3. ~is_sync(msg')
          BY <3>2, <4>2 DEF is_sync
        <4>4. timestamp' = Later(timestamp, msg.ts)
          BY <2>1, <2>3, <3>2
        <4> QED
          BY <1>0, <4>1, <4>2, <4>3, <4>4, LaterLaws
      <3> QED
        BY <2>3, <3>1, <3>2 DEF StaysBuffered
    <2>s. PICK S : S = [i \in 0 .. 0 |-> timestamp']
      OBVIOUS
    <2>7. S \in [0 .. 0 -> Nat] /\ S[0] = timestamp'
      BY <2>5, <2>s
    <2>8. Times(S)'
      BY <2>1, <2>5, <2>6, <2>7 DEF Times
    <2> QED
      BY <2>8
  <1>9. CASE Restarting
    <2>1. /\ res_hists' = << >> /\ timestamp' = timestamp /\ due'.time = msg.ts /\ Counted'
          /\ msg'.ts = msg.ts /\ msg'.tcode = "ProgTraceSync"
      BY <1>0, <1>9 DEF Restarting, SyncFound, FitMessages, Messages
    <2>s. PICK S : S = [i \in 0 .. 0 |-> timestamp']
      OBVIOUS
    <2>2. S \in [0 .. 0 -> Nat] /\ S[0] = timestamp' /\ is_sync(msg')
      BY <1>0, <2>1, <2>s, BranchKinds
    <2>3. Times(S)'
      BY <2>1, <2>2 DEF Times
    <2> QED
      BY <2>3
  <1> QED
    BY <1>2, <1>3, <1>4, <1>5, <1>6, <1>7, <1>8, <1>9 DEF Kinds

\* For every stream, caller and failure the time of each message counts exactly
\* once when a SiFive decoder exclusive-ors it; a decoder that adds needs a
\* stream without repetitions, because it adds the delta in each of them
\* (trace-decoder.c:92-99), though the header wants it divided among them.
THEOREM TimeAlwaysConserved ==
  (QuirkSifive \/ (~TornEnd /\ \A m \in Msgs : m.hrepeat = 0)) /\ Spec => []TimeConserved
  <1> SUFFICES ASSUME QuirkSifive \/ (~TornEnd /\ \A m \in Msgs : m.hrepeat = 0)
               PROVE  Spec => []TimeConserved
    OBVIOUS
  <1> DEFINE Inv == IInv /\ DueOK /\ AsideOK /\ Single /\ TimeOwed
  <1>1. Init => Inv
    <2> SUFFICES ASSUME Init PROVE Inv
      OBVIOUS
    <2>1. ~Sound
      BY DEF Init, Sound
    <2>2. AsideOK
      BY DEF Init, AsideOK
    <2>3. OnceOK
      BY DEF Init, OnceOK, NoMsg
    <2> QED
      BY <2>1, <2>2, <2>3, InitIInv DEF DueOK, TimeOwed, Single
  <1>2. Inv /\ [Next]_vars => Inv'
    <2> SUFFICES ASSUME Inv, [Next]_vars PROVE Inv'
      OBVIOUS
    <2>1. IInv'
      BY DataStep, ControlStep, IcntStep, TntStep DEF IInv
    <2>2. AsideOK'
      BY AsideStep
    <2>3. Single'
      BY OnceStep DEF Single
    <2>4. CASE Sound'
      BY <2>1, <2>2, <2>3, <2>4, StepIsOfAKind, DueStep, TimeStep
    <2>5. CASE ~Sound'
      BY <2>1, <2>2, <2>3, <2>5 DEF DueOK, TimeOwed
    <2> QED
      BY <2>4, <2>5
  <1>3. Inv => TimeConserved
    <2> SUFFICES ASSUME Inv, Between, ~msg_present, res_hists = << >> PROVE timestamp = due.time
      BY DEF TimeConserved
    <2>1. Sound /\ ~Counted
      BY DEF Between, Sound, Counted
    <2>2. PICK T : Times(T)
      BY <2>1 DEF TimeOwed
    <2> QED
      BY <2>1, <2>2 DEF Times
  <1> QED
    BY <1>1, <1>2, <1>3, PTL DEF Spec

-----------------------------------------------------------------------------
(***************************************************************************)
(* TNT bits: those of the buffered message with its repetitions, and of    *)
(* accumulated ResourceFull messages, whose elements are executed `repeat' *)
(* times.                                                                  *)
(***************************************************************************)

(***************************************************************************)
(* Repeating a sequence of bits.                                           *)
(***************************************************************************)
\* Division with remainder.
LEMMA DivMod ==
  ASSUME NEW x \in Nat, NEW L \in Nat, L # 0
  PROVE  x % L \in 0 .. L - 1 /\ x \div L \in Int /\ x = L * (x \div L) + (x % L)
  OBVIOUS

\* Only 0 is a multiple of L between -L and L.
LEMMA SmallMultiple ==
  ASSUME NEW q \in Int, NEW L \in Nat, NEW r \in Int, -L < r, r < L, L * q = r
  PROVE  r = 0
  OBVIOUS

\* The remainder is periodic.
LEMMA ModPeriod ==
  ASSUME NEW x \in Nat, NEW L \in Nat, L # 0
  PROVE  (x + L) % L = x % L /\ (x < L => x % L = x)
  <1> DEFINE y == x + L
             q == x \div L
             r == x % L
             p == y \div L
             s == y % L
  <1>1. q \in Int /\ r \in 0 .. L - 1 /\ x = L * q + r
    BY DivMod
  <1>2. p \in Int /\ s \in 0 .. L - 1 /\ x + L = L * p + s
    BY DivMod
  <1>0. x < L => r = x
    OBVIOUS
  <1> HIDE DEF q, r, p, s
  <1>3. L * (q + 1 - p) = s - r
    BY <1>1, <1>2
  <1>4. q + 1 - p \in Int /\ s - r \in Int /\ -L < s - r /\ s - r < L
    BY <1>1, <1>2
  <1>5. s - r = 0
    BY <1>3, <1>4, SmallMultiple
  <1> QED
    BY <1>0, <1>1, <1>2, <1>5 DEF r, s

\* A product is not smaller than its factors, and grows by one of them.
LEMMA Products ==
  ASSUME NEW b \in Nat, NEW k \in Nat
  PROVE  /\ b * k \in Nat /\ b * (k + 1) = b * k + b /\ b * 1 = b /\ 0 * k = 0 /\ k * b = b * k
         /\ k # 0 => b <= b * k
  <1>1. b * k \in Nat /\ b * (k + 1) = b * k + b /\ b * 1 = b /\ 0 * k = 0 /\ k * b = b * k
    OBVIOUS
  <1>2. ASSUME k # 0 PROVE b <= b * k
    <2>1. k - 1 \in Nat /\ b * ((k - 1) + 1) = b * (k - 1) + b
      BY <1>2
    <2>2. b * (k - 1) \in Nat /\ (k - 1) + 1 = k
      BY <2>1
    <2> QED
      BY <2>1, <2>2
  <1> QED
    BY <1>1, <1>2

\* k copies of the TNT bits of h stand in F behind place p.
Runs(F, p, h, k) ==
    \A a \in 1 .. hist_bits(h) * k :
        F[p + a] = IF a <= hist_bits(h) THEN h[a + 1] ELSE F[p + a - hist_bits(h)]

\* The bits of a HIST, with its repetitions.
LEMMA RepeatedBits ==
  ASSUME NEW h \in Seq({0, 1}), NEW k \in Nat
  PROVE  /\ hist_bits(h) \in Nat
         /\ Repeated(TntsIn(h), k) \in Seq({0, 1})
         /\ Len(Repeated(TntsIn(h), k)) = hist_bits(h) * k
         /\ Runs(Repeated(TntsIn(h), k), 0, h, k)
  <1> DEFINE t == TntsIn(h)
             L == Len(t)
             R == Repeated(t, k)
  <1>1. t \in Seq({0, 1}) /\ L = hist_bits(h) /\ L \in Nat /\ \A a \in 1 .. L : t[a] = h[a + 1]
    BY DEF TntsIn, hist_bits
  <1>2. L * k \in Nat
    BY <1>1, Products
  <1>3. R = [i \in 1 .. L * k |-> t[((i - 1) % L) + 1]]
    BY DEF Repeated
  <1>4. L = 0 => L * k = 0
    BY Products
  <1>5. ASSUME NEW i \in 1 .. L * k
        PROVE  /\ ((i - 1) % L) + 1 \in 1 .. L
               /\ i <= L => ((i - 1) % L) + 1 = i
               /\ i > L => i - L \in 1 .. L * k /\ (i - 1) % L = ((i - L) - 1) % L
    <2>1. L # 0 /\ i - 1 \in Nat /\ i \in Nat
      BY <1>2, <1>4
    <2>2. (i - 1) % L \in 0 .. L - 1
      BY <1>1, <2>1, DivMod
    <2>3. i - 1 < L => (i - 1) % L = i - 1
      BY <1>1, <2>1, ModPeriod
    <2>4. ASSUME i > L PROVE i - L \in 1 .. L * k /\ (i - 1) % L = ((i - L) - 1) % L
      <3>1. i - L \in 1 .. L * k /\ (i - L) - 1 \in Nat /\ ((i - L) - 1) + L = i - 1
        BY <1>1, <1>2, <2>1, <2>4
      <3> QED
        BY <1>1, <2>1, <3>1, ModPeriod
    <2> DEFINE r == (i - 1) % L
    <2>5. r \in 0 .. L - 1 /\ (i - 1 < L => r = i - 1)
      BY <2>2, <2>3
    <2> HIDE DEF r
    <2>6. r + 1 \in 1 .. L /\ (i <= L => r + 1 = i)
      BY <1>1, <2>1, <2>5
    <2> QED
      BY <2>4, <2>6 DEF r
  <1>6. \A i \in 1 .. L * k : R[i] = t[((i - 1) % L) + 1]
    BY <1>3
  <1>7. \A i \in 1 .. L * k : R[i] \in {0, 1}
    BY <1>1, <1>5, <1>6
  <1>8. R \in Seq({0, 1}) /\ Len(R) = L * k
    <2>1. R \in [1 .. L * k -> {0, 1}]
      BY <1>3, <1>7
    <2> QED
      BY <1>2, <2>1
  <1>9. \A a \in 1 .. L * k : R[a] = IF a <= L THEN h[a + 1] ELSE R[a - L]
    <2> SUFFICES ASSUME NEW a \in 1 .. L * k
                 PROVE  R[a] = IF a <= L THEN h[a + 1] ELSE R[a - L]
      OBVIOUS
    <2>1. CASE a <= L
      BY <1>1, <1>2, <1>5, <1>6, <2>1
    <2>2. CASE ~(a <= L)
      <3>1. a > L
        BY <1>1, <1>2, <2>2
      <3>2. a - L \in 1 .. L * k /\ (a - 1) % L = ((a - L) - 1) % L
        BY <1>5, <3>1
      <3> QED
        BY <1>6, <2>2, <3>2
    <2> QED
      BY <2>1, <2>2
  <1> HIDE DEF R, L, t
  <1>10. \A a \in 1 .. hist_bits(h) * k : 0 + a = a /\ 0 + a - hist_bits(h) = a - hist_bits(h)
    BY <1>1, <1>2
  <1>11. Runs(R, 0, h, k)
    BY <1>1, <1>9, <1>10 DEF Runs
  <1> QED
    BY <1>1, <1>8, <1>11 DEF R, L, t

\* Bits in front of place p are not disturbed by bits put behind it.
LEMMA RunsKept ==
  ASSUME NEW F, NEW G, NEW p \in Nat, NEW q \in Nat, NEW h \in Seq({0, 1}), NEW k \in Nat,
         \A x \in Nat : x <= p => G[x] = F[x],
         Runs(F, q, h, k), q + hist_bits(h) * k <= p
  PROVE  Runs(G, q, h, k)
  <1> DEFINE b == hist_bits(h)
             N == b * k
  <1>0. b \in Nat /\ N \in Nat
    <2>1. b \in Nat
      BY DEF hist_bits
    <2> QED
      BY <2>1, Products
  <1>1. \A a \in 1 .. N : F[q + a] = IF a <= b THEN h[a + 1] ELSE F[q + a - b]
    BY DEF Runs
  <1>2. q + N <= p
    OBVIOUS
  <1> HIDE DEF b, N
  <1>3. ASSUME NEW a \in 1 .. N
        PROVE  G[q + a] = F[q + a] /\ (~(a <= b) => G[q + a - b] = F[q + a - b])
    BY <1>0, <1>2
  <1>4. \A a \in 1 .. N : G[q + a] = IF a <= b THEN h[a + 1] ELSE G[q + a - b]
    BY <1>1, <1>3
  <1> QED
    BY <1>4 DEF Runs, b, N

\* Bits put behind place p.
LEMMA RunsBehind ==
  ASSUME NEW R, NEW G, NEW p \in Nat, NEW h \in Seq({0, 1}), NEW k \in Nat,
         \A x \in Nat : x > p => G[x] = R[x - p], Runs(R, 0, h, k)
  PROVE  Runs(G, p, h, k)
  <1> DEFINE b == hist_bits(h)
             N == b * k
  <1>0. b \in Nat /\ N \in Nat
    <2>1. b \in Nat
      BY DEF hist_bits
    <2> QED
      BY <2>1, Products
  <1>1. \A a \in 1 .. N : R[0 + a] = IF a <= b THEN h[a + 1] ELSE R[0 + a - b]
    BY DEF Runs
  <1> HIDE DEF b, N
  <1>2. ASSUME NEW a \in 1 .. N
        PROVE  G[p + a] = R[0 + a] /\ (~(a <= b) => G[p + a - b] = R[0 + a - b])
    <2>1. /\ p + a \in Nat /\ p + a > p /\ (p + a) - p = a /\ 0 + a = a
          /\ ~(a <= b) => /\ p + a - b \in Nat /\ p + a - b > p
                          /\ (p + a - b) - p = a - b /\ 0 + a - b = a - b
      BY <1>0
    <2>2. G[p + a] = R[(p + a) - p]
      BY <2>1
    <2>3. ~(a <= b) => G[p + a - b] = R[(p + a - b) - p]
      BY <2>1
    <2> QED
      BY <2>1, <2>2, <2>3
  <1>3. \A a \in 1 .. N : G[p + a] = IF a <= b THEN h[a + 1] ELSE G[p + a - b]
    BY <1>1, <1>2
  <1> QED
    BY <1>3 DEF Runs, b, N

\* Dropping the first d bits moves those behind them.
LEMMA RunsMoved ==
  ASSUME NEW F, NEW G, NEW d \in Nat, NEW p \in Nat, NEW h \in Seq({0, 1}), NEW k \in Nat,
         \A x \in Nat : G[x] = F[x + d], Runs(F, p, h, k), d <= p
  PROVE  Runs(G, p - d, h, k)
  <1> DEFINE b == hist_bits(h)
             N == b * k
  <1>0. b \in Nat /\ N \in Nat
    <2>1. b \in Nat
      BY DEF hist_bits
    <2> QED
      BY <2>1, Products
  <1>1. \A a \in 1 .. N : F[p + a] = IF a <= b THEN h[a + 1] ELSE F[p + a - b]
    BY DEF Runs
  <1> HIDE DEF b, N
  <1>2. ASSUME NEW a \in 1 .. N
        PROVE  G[(p - d) + a] = F[p + a] /\ (~(a <= b) => G[(p - d) + a - b] = F[p + a - b])
    <2>1. /\ (p - d) + a \in Nat /\ ((p - d) + a) + d = p + a
          /\ ~(a <= b) => (p - d) + a - b \in Nat /\ ((p - d) + a - b) + d = p + a - b
      BY <1>0
    <2> QED
      BY <2>1
  <1>3. \A a \in 1 .. N : G[(p - d) + a] = IF a <= b THEN h[a + 1] ELSE G[(p - d) + a - b]
    BY <1>1, <1>2
  <1> QED
    BY <1>3 DEF Runs, b, N

\* Dropping one of k + 1 copies leaves k.
LEMMA RunsAgain ==
  ASSUME NEW F, NEW G, NEW h \in Seq({0, 1}), NEW k \in Nat,
         \A x \in Nat : G[x] = F[x + hist_bits(h)], Runs(F, 0, h, k + 1)
  PROVE  Runs(G, 0, h, k)
  <1> DEFINE b == hist_bits(h)
             N == b * k
  <1>0. b \in Nat /\ N \in Nat /\ b * (k + 1) = N + b
    <2>1. b \in Nat
      BY DEF hist_bits
    <2> QED
      BY <2>1, Products
  <1>1. \A a \in 1 .. N + b : F[0 + a] = IF a <= b THEN h[a + 1] ELSE F[0 + a - b]
    BY <1>0 DEF Runs
  <1>2. \A x \in Nat : G[x] = F[x + b]
    OBVIOUS
  <1> HIDE DEF b, N
  <1>3. \A a \in 1 .. N + b : F[a] = IF a <= b THEN h[a + 1] ELSE F[a - b]
    <2>1. \A a \in 1 .. N + b : 0 + a = a /\ 0 + a - b = a - b
      BY <1>0
    <2> QED
      BY <1>1, <2>1
  <1>4. ASSUME NEW a \in 1 .. N
        PROVE  G[0 + a] = IF a <= b THEN h[a + 1] ELSE G[0 + a - b]
    <2>1. a \in Nat /\ 0 + a = a /\ a + b \in 1 .. N + b /\ ~(a + b <= b) /\ (a + b) - b = a
          /\ a \in 1 .. N + b
      BY <1>0
    <2>2. G[a] = F[a + b]
      BY <1>2, <2>1
    <2>3. F[a + b] = F[a]
      BY <1>3, <2>1
    <2>4. CASE a <= b
      BY <1>3, <2>1, <2>2, <2>3, <2>4
    <2>5. CASE ~(a <= b)
      <3>1. a - b \in Nat /\ (a - b) + b = a /\ 0 + a - b = a - b
        BY <1>0, <2>1, <2>5
      <3>2. G[a - b] = F[a]
        BY <1>2, <3>1
      <3> QED
        BY <2>1, <2>2, <2>3, <2>5, <3>1, <3>2
    <2> QED
      BY <2>4, <2>5
  <1> QED
    BY <1>4 DEF Runs, b, N

\* A sequence with its first d bits dropped.
LEMMA Moved ==
  ASSUME NEW F, NEW d
  PROVE  \E G : \A x \in Nat : G[x] = F[x + d]
  <1> DEFINE H == [x \in Nat |-> F[x + d]]
  <1>1. \A x \in Nat : H[x] = F[x + d]
    OBVIOUS
  <1> HIDE DEF H
  <1> QED
    BY <1>1

-----------------------------------------------------------------------------
(***************************************************************************)
(* The invariant.  F holds the bits promised and not used up, the          *)
(* consumed_tnts ones already delivered of the front included; element i   *)
(* of res_hists stands behind place P[i - 1], the message behind them all. *)
(***************************************************************************)
MsgTnts == IF Counted THEN BitsOf(msg) * Executions(msg) ELSE 0

ElementTnts(e) == hist_bits(e.hist) * e.repeat

Offsets(P) == /\ P \in [0 .. Len(res_hists) -> Nat]
              /\ P[0] = 0 /\ P[Len(res_hists)] = res_tnts
              /\ \A i \in 1 .. Len(res_hists) :
                    P[i] = P[i - 1] + ElementTnts(res_hists[i]) /\ P[i] <= res_tnts
              /\ \A i, j \in 0 .. Len(res_hists) : i <= j => P[i] <= P[j]

Promised(P, F) ==
    /\ \A i \in 1 .. Len(res_hists) : Runs(F, P[i - 1], res_hists[i].hist, res_hists[i].repeat)
    /\ Counted /\ has_hist(msg) => Runs(F, res_tnts, msg.hist, Executions(msg))
    /\ \A j \in 1 .. Len(owedTnts) : owedTnts[j] = F[j + consumed_tnts]

\* Bits are consumed of the first element, or of the message when no element
\* has bits.
PartUsed == consumed_tnts # 0 =>
    \/ res_tnts # 0 /\ res_hists # << >> /\ consumed_tnts < hist_bits(res_hists[1].hist)
    \/ res_tnts = 0 /\ Counted /\ consumed_tnts <= BitsOf(msg)

TntOwed == Sound =>
    /\ owedTnts \in Seq({0, 1})
    /\ Len(owedTnts) + consumed_tnts = res_tnts + MsgTnts
    /\ PartUsed
    /\ \E P, F : Offsets(P) /\ Promised(P, F)

\* Not more TNT bits are pending than the 32 bit counter holds.
TntsFit == Len(owedTnts) + consumed_tnts <= UINT32_MAX

\* Where TNT bits are looked for some are available.
DrainOK == /\ pc = "loop" => op \in {"try_retire", "next_tnt"}
           /\ pc = "drain" => op = "next_tnt" /\ TntsAssert = "none" /\ AvailableTnts # 0

\* The step of that invariant.
LEMMA DrainStep == IInv /\ DrainOK /\ [Next]_vars => DrainOK'
  <1> SUFFICES ASSUME IInv, DrainOK, [Next]_vars PROVE DrainOK'
    OBVIOUS
  <1> USE DEF Return, Fail, Abort, Goto
  <1>1. CASE pc' \notin {"loop", "drain"}
    BY <1>1 DEF DrainOK
  <1>2. ASSUME NEW f, NEW n, Call(f, n) PROVE DrainOK'
    BY <1>2 DEF Call, DrainOK
  <1>3. CASE PullKeeps \/ PullRes
    BY <1>3 DEF PullKeeps, PullRes, Pulling, DrainOK
  <1>4. CASE TntSeeks
    <2>1. CASE TntsAssert = "none" /\ AvailableTnts # 0
      BY <1>4, <2>1 DEF TntSeeks, Branching, untouched, resVars, consumedVars, DrainOK, TntsAssert,
                        ResAssert, AvailableTnts
    <2> QED
      BY <1>1, <1>4, <2>1 DEF TntSeeks
  <1>5. CASE DrainEmpty
    BY <1>5 DEF DrainEmpty, consumedVars, DrainOK, TntsAssert, ResAssert, AvailableTnts
  <1>6. CASE Stopped \/ UNCHANGED vars
    <2>1. UNCHANGED <<op, pc, msg, msg_present, res_tnts, consumed_tnts>>
      BY <1>6 DEF Stopped, vars, resVars, consumedVars
    <2> QED
      BY <2>1 DEF DrainOK, TntsAssert, ResAssert, AvailableTnts
  <1>7. CASE StackCalls \/ TakeUnsupported
    BY <1>1, <1>7 DEF StackCalls, PushCall, PopRet, TakeUnsupported
  <1>8. CASE Fetches
    BY <1>1, <1>8 DEF Fetches, FetchExisting, FetchNew, LookAhead, LookAheadEnd, FetchEnd, FetchError
  <1>9. CASE PullFails \/ RetireSome \/ RetirePulls \/ RetireAll \/ TntFromMsg \/ TntFromElement
             \/ TntFromBranch
    BY <1>1, <1>9 DEF PullFails, RetireSome, RetirePulls, RetireAll, RetireReturns, TntFromMsg,
                      TntFromElement, TntFromBranch, Deliver
  <1>10. CASE NextIndirect \/ Owner \/ OwnerEnd \/ SyncSkip \/ SyncFound \/ NextSync \/ NextStop
              \/ ErrorDrops \/ ErrorDrains \/ ErrorRetires
    BY <1>1, <1>10 DEF NextIndirect, Owner, OwnerEnd, SyncSkip, SyncFound, NextSync, NextStop, Refuse,
                       ErrorDrops, ErrorDrains, ErrorRetires
  <1> QED
    BY <1>2, <1>3, <1>4, <1>5, <1>6, <1>7, <1>8, <1>9, <1>10 DEF Next, Calls, Steps

-----------------------------------------------------------------------------
(***************************************************************************)
(* What the steps do to the promised bits.                                 *)
(***************************************************************************)
\* What is known of an accumulated element.
LEMMA Elements ==
  ASSUME IInv
  PROVE  /\ Len(res_hists) \in Nat
         /\ res_hists # << >> => 1 \in 1 .. Len(res_hists)
         /\ \A i \in 1 .. Len(res_hists) :
               /\ res_hists[i] \in FitElements
               /\ res_hists[i].hist \in Seq({0, 1}) /\ res_hists[i].repeat \in Nat
               /\ res_hists[i].repeat # 0
               /\ hist_bits(res_hists[i].hist) \in Nat /\ ElementTnts(res_hists[i]) \in Nat
               /\ hist_bits(res_hists[i].hist) <= ElementTnts(res_hists[i])
  <1>1. res_hists \in Seq(FitElements)
    BY DEF IInv, DataOK
  <1>2. ASSUME NEW i \in 1 .. Len(res_hists)
        PROVE  /\ res_hists[i] \in FitElements
               /\ res_hists[i].hist \in Seq({0, 1}) /\ res_hists[i].repeat \in Nat
               /\ res_hists[i].repeat # 0
               /\ hist_bits(res_hists[i].hist) \in Nat /\ ElementTnts(res_hists[i]) \in Nat
               /\ hist_bits(res_hists[i].hist) <= ElementTnts(res_hists[i])
    <2>1. res_hists[i] \in FitElements
      BY <1>1
    <2>2. res_hists[i].hist \in Seq({0, 1}) /\ res_hists[i].repeat \in 1 .. UINT32_MAX
      BY <2>1 DEF FitElements, Element
    <2>3. res_hists[i].repeat \in Nat /\ res_hists[i].repeat # 0
      BY <2>2, DecoderAssumption
    <2>4. hist_bits(res_hists[i].hist) \in Nat
      BY <2>2 DEF hist_bits
    <2> QED
      BY <2>1, <2>2, <2>3, <2>4, Products DEF ElementTnts
  <1> QED
    BY <1>1, <1>2

\* Executions and bits are counted in natural numbers.
LEMMA MessageTnts ==
  ASSUME NEW m \in FitMessages
  PROVE  /\ m.hist \in Seq({0, 1}) /\ hist_bits(m.hist) \in Nat /\ BitsOf(m) \in Nat
         /\ Executions(m) \in Nat /\ Executions(m) # 0
         /\ BitsOf(m) * Executions(m) \in Nat /\ BitsOf(m) <= BitsOf(m) * Executions(m)
  <1>1. m.hist \in Seq({0, 1}) /\ m.hrepeat \in Nat
    BY DecoderAssumption DEF FitMessages, Messages
  <1>2. hist_bits(m.hist) \in Nat /\ BitsOf(m) \in Nat
    BY <1>1 DEF hist_bits, BitsOf
  <1>3. Executions(m) \in Nat /\ Executions(m) # 0
    BY <1>1 DEF Executions
  <1> QED
    BY <1>1, <1>2, <1>3, Products

\* Steps that leave the bits alone.
LEMMA TntsKept ==
  ASSUME TntOwed, Sound, UNCHANGED <<res_hists, res_tnts, consumed_tnts, owedTnts>>,
         Counted' <=> Counted, Counted => msg' = msg
  PROVE  TntOwed'
  <1>1. MsgTnts' = MsgTnts
    BY DEF MsgTnts
  <1>2. PICK P, F : Offsets(P) /\ Promised(P, F)
    BY DEF TntOwed
  <1>3. Offsets(P)' /\ Promised(P, F)'
    BY <1>2 DEF Offsets, Promised
  <1>4. PartUsed'
    BY DEF TntOwed, PartUsed
  <1> QED
    BY <1>1, <1>3, <1>4 DEF TntOwed

\* The bits of h, k times, are promised behind those promised before.
LEMMA BitsPromised ==
  ASSUME IInv, TntOwed, Sound, ~Counted, NEW h \in Seq({0, 1}), NEW k \in Nat,
         owedTnts' = owedTnts \o Repeated(TntsIn(h), k), consumed_tnts' = consumed_tnts
  PROVE  /\ owedTnts' \in Seq({0, 1})
         /\ Len(owedTnts') = Len(owedTnts) + hist_bits(h) * k
         /\ hist_bits(h) * k \in Nat
         /\ \E P, G : /\ Offsets(P)
                      /\ \A i \in 1 .. Len(res_hists) :
                            Runs(G, P[i - 1], res_hists[i].hist, res_hists[i].repeat)
                      /\ Runs(G, res_tnts, h, k)
                      /\ \A j \in 1 .. Len(owedTnts') : owedTnts'[j] = G[j + consumed_tnts']
  <1> DEFINE R == Repeated(TntsIn(h), k)
             n == Len(res_hists)
             c == consumed_tnts
  <1>0. /\ R \in Seq({0, 1}) /\ Len(R) = hist_bits(h) * k /\ Runs(R, 0, h, k) /\ Len(R) \in Nat
        /\ hist_bits(h) \in Nat
    BY RepeatedBits
  <1>1. /\ owedTnts \in Seq({0, 1}) /\ Len(owedTnts) + c = res_tnts
        /\ res_tnts \in Nat /\ c \in Nat /\ Len(owedTnts) \in Nat
    <2>1. /\ owedTnts \in Seq({0, 1}) /\ Len(owedTnts) + c = res_tnts + 0
      BY DEF TntOwed, MsgTnts
    <2>2. res_tnts \in Nat /\ c \in Nat
      BY DecoderAssumption DEF IInv, TntOK
    <2> QED
      BY <2>1, <2>2
  <1>2. PICK P, F : Offsets(P) /\ Promised(P, F)
    BY DEF TntOwed
  <1> HIDE DEF R
  <1>3. PICK G : \A x \in Nat : G[x] = IF x <= res_tnts THEN F[x] ELSE R[x - res_tnts]
    <2> DEFINE H == [x \in Nat |-> IF x <= res_tnts THEN F[x] ELSE R[x - res_tnts]]
    <2>1. \A x \in Nat : H[x] = IF x <= res_tnts THEN F[x] ELSE R[x - res_tnts]
      OBVIOUS
    <2> HIDE DEF H
    <2> QED
      BY <2>1
  <1>4. owedTnts' = owedTnts \o R
    BY DEF R
  <1>5. /\ owedTnts' \in Seq({0, 1}) /\ Len(owedTnts') = Len(owedTnts) + Len(R)
        /\ \A j \in 1 .. Len(owedTnts) + Len(R) :
              owedTnts'[j] = IF j <= Len(owedTnts) THEN owedTnts[j] ELSE R[j - Len(owedTnts)]
    BY <1>0, <1>1, <1>4
  <1>6. ASSUME NEW i \in 1 .. n PROVE Runs(G, P[i - 1], res_hists[i].hist, res_hists[i].repeat)
    <2>1. /\ P[i - 1] \in Nat /\ P[i] = P[i - 1] + ElementTnts(res_hists[i]) /\ P[i] <= res_tnts
          /\ Runs(F, P[i - 1], res_hists[i].hist, res_hists[i].repeat)
      <3>1. i - 1 \in 0 .. n
        BY Elements
      <3> QED
        BY <1>2, <3>1 DEF Offsets, Promised
    <2>2. res_hists[i].hist \in Seq({0, 1}) /\ res_hists[i].repeat \in Nat
      BY Elements
    <2> DEFINE hi == res_hists[i].hist
               ki == res_hists[i].repeat
    <2>3. P[i - 1] + hist_bits(hi) * ki <= res_tnts
      BY <2>1 DEF ElementTnts
    <2>4. \A x \in Nat : x <= res_tnts => G[x] = F[x]
      BY <1>3
    <2> QED
      BY <1>1, <2>1, <2>2, <2>3, <2>4, RunsKept
  <1>7. Runs(G, res_tnts, h, k)
    <2>1. \A x \in Nat : x > res_tnts => G[x] = R[x - res_tnts]
      BY <1>1, <1>3
    <2> QED
      BY <1>0, <1>1, <2>1, RunsBehind
  <1>8. ASSUME NEW j \in 1 .. Len(owedTnts') PROVE owedTnts'[j] = G[j + c]
    <2>1. j \in Nat /\ j + c \in Nat /\ (j <= Len(owedTnts) <=> j + c <= res_tnts)
          /\ (j + c) - res_tnts = j - Len(owedTnts)
      <3>1. j \in 1 .. Len(owedTnts) + Len(R)
        BY <1>5
      <3>2. Len(R) \in Nat
        BY <1>0
      <3> DEFINE l == Len(owedTnts)
      <3>3. l \in Nat /\ c \in Nat /\ l + c = res_tnts /\ j \in 1 .. l + Len(R)
        BY <1>1, <3>1
      <3> HIDE DEF l, c
      <3>4. j \in Nat /\ j + c \in Nat /\ (j <= l <=> j + c <= res_tnts) /\ (j + c) - res_tnts = j - l
        BY <3>2, <3>3
      <3> QED
        BY <3>4 DEF l, c
    <2>2. CASE j <= Len(owedTnts)
      <3>1. owedTnts[j] = F[j + c]
        BY <1>1, <1>2, <2>1, <2>2 DEF Promised
      <3> QED
        BY <1>0, <1>3, <1>5, <2>1, <2>2, <3>1
    <2>3. CASE ~(j <= Len(owedTnts))
      BY <1>0, <1>3, <1>5, <2>1, <2>3
    <2> QED
      BY <2>2, <2>3
  <1>9. \A j \in 1 .. Len(owedTnts') : owedTnts'[j] = G[j + consumed_tnts']
    BY <1>8
  <1>10. \E Q, H : /\ Offsets(Q)
                   /\ \A i \in 1 .. Len(res_hists) :
                         Runs(H, Q[i - 1], res_hists[i].hist, res_hists[i].repeat)
                   /\ Runs(H, res_tnts, h, k)
                   /\ \A j \in 1 .. Len(owedTnts') : owedTnts'[j] = H[j + consumed_tnts']
    BY <1>2, <1>6, <1>7, <1>9, Zenon
  <1> QED
    BY <1>0, <1>5, <1>10

\* A message begins to count.
LEMMA TntsCounting ==
  ASSUME ~TornEnd, IInv, TntOwed, NEW m \in FitMessages, NEW k \in Nat, Counting(m, k)
  PROVE  TntOwed'
  <1>1. /\ Sound /\ synced /\ ~Counted /\ Counted' /\ UNCHANGED <<res_hists, res_tnts, consumed_tnts>>
        /\ Executions(msg') = k
        /\ owedTnts' = IF has_hist(m) /\ synced
                          THEN owedTnts \o Repeated(TntsIn(m.hist), k) ELSE owedTnts
    BY DEF Counting, Owe, resVars, consumedVars, Sound
  <1>2. /\ msg'.hist = m.hist /\ (has_hist(msg') <=> has_hist(m))
        /\ BitsOf(msg') = BitsOf(m) /\ MsgTnts' = BitsOf(m) * k
    <2>1. msg'.tcode = m.tcode /\ msg'.code = m.code /\ msg'.hist = m.hist
      BY CountedFields
    <2>2. has_hist(msg') <=> has_hist(m)
      BY <2>1 DEF has_hist, is_res, is_stop
    <2>3. BitsOf(msg') = BitsOf(m)
      BY <2>1, <2>2 DEF BitsOf
    <2> QED
      BY <1>1, <2>1, <2>2, <2>3 DEF MsgTnts
  <1>3. PartUsed'
    BY <1>1 DEF TntOwed, PartUsed
  <1>4. m.hist \in Seq({0, 1})
    BY MessageTnts
  <1>5. Len(owedTnts) + consumed_tnts = res_tnts + 0 /\ owedTnts \in Seq({0, 1}) /\ consumed_tnts \in Nat
        /\ res_tnts \in Nat
    BY <1>1, DecoderAssumption DEF TntOwed, MsgTnts, IInv, TntOK
  <1>6. CASE has_hist(m)
    <2>1. owedTnts' = owedTnts \o Repeated(TntsIn(m.hist), k)
      BY <1>1, <1>6
    <2>2. /\ owedTnts' \in Seq({0, 1}) /\ hist_bits(m.hist) * k \in Nat
          /\ Len(owedTnts') = Len(owedTnts) + hist_bits(m.hist) * k
      BY <1>1, <1>4, <2>1, BitsPromised
    <2>3. PICK P, G : /\ Offsets(P)
                      /\ \A i \in 1 .. Len(res_hists) :
                            Runs(G, P[i - 1], res_hists[i].hist, res_hists[i].repeat)
                      /\ Runs(G, res_tnts, m.hist, k)
                      /\ \A j \in 1 .. Len(owedTnts') : owedTnts'[j] = G[j + consumed_tnts']
      BY <1>1, <1>4, <2>1, BitsPromised
    <2>4. Offsets(P)' /\ Promised(P, G)'
      BY <1>1, <1>2, <2>3 DEF Offsets, Promised
    <2>5. MsgTnts' = hist_bits(m.hist) * k
      BY <1>2, <1>6 DEF BitsOf
    <2>6. Len(owedTnts') + consumed_tnts' = res_tnts' + MsgTnts'
      BY <1>1, <1>5, <2>2, <2>5
    <2> QED
      BY <1>3, <2>2, <2>4, <2>6 DEF TntOwed
  <1>7. CASE ~has_hist(m)
    <2>1. owedTnts' = owedTnts /\ MsgTnts' = 0
      BY <1>1, <1>2, <1>7, Products DEF BitsOf
    <2>2. PICK P, F : Offsets(P) /\ Promised(P, F)
      BY <1>1 DEF TntOwed
    <2>3. Offsets(P)' /\ Promised(P, F)'
      BY <1>1, <1>2, <1>7, <2>1, <2>2 DEF Offsets, Promised
    <2> QED
      BY <1>1, <1>3, <1>5, <2>1, <2>3 DEF TntOwed
  <1> QED
    BY <1>6, <1>7

\* A ResourceFull is accumulated.
LEMMA TntsAccumulating ==
  ASSUME IInv, TntOwed, TntsFit', Accumulating
  PROVE  TntOwed'
  <1> DEFINE h == ElementHist(msg)
             k == ElementRepeat(msg)
             e == [hist |-> h, repeat |-> k, ts |-> msg.ts]
             n == Len(res_hists)
             N == hist_bits(h) * k
  <1>1. /\ Sound /\ ~Counted /\ ~Counted' /\ consumed_tnts' = consumed_tnts
        /\ res_hists' = Append(res_hists, e)
        /\ res_tnts' = Wrap(res_tnts + Wrap(k * hist_bits(h)))
        /\ owedTnts' = owedTnts \o Repeated(TntsIn(h), k)
    BY DEF Accumulating, PullRes, consumedVars
  <1>2. /\ h \in Seq({0, 1}) /\ k \in Nat /\ hist_bits(h) \in Nat
        /\ e \in FitElements /\ e.hist = h /\ e.repeat = k
    <2>1. msg \in FitMessages
      BY DEF IInv, DataOK
    <2>2. e \in FitElements /\ hist_bits(h) \in Nat /\ k \in Nat
      BY <2>1, PulledElement
    <2>3. e.hist = h /\ e.repeat = k
      OBVIOUS
    <2>4. e.hist \in Seq({0, 1})
      BY <2>2 DEF FitElements, Element
    <2> QED
      BY <2>2, <2>3, <2>4
  <1> HIDE DEF h, k, e
  <1>3. owedTnts' \in Seq({0, 1}) /\ N \in Nat /\ Len(owedTnts') = Len(owedTnts) + N
    BY <1>1, <1>2, BitsPromised
  <1>m. k * hist_bits(h) = N
    BY <1>2, Products
  <1>4. PICK P, G : /\ Offsets(P)
                    /\ \A i \in 1 .. Len(res_hists) :
                          Runs(G, P[i - 1], res_hists[i].hist, res_hists[i].repeat)
                    /\ Runs(G, res_tnts, h, k)
                    /\ \A j \in 1 .. Len(owedTnts') : owedTnts'[j] = G[j + consumed_tnts']
    BY <1>1, <1>2, BitsPromised
  <1> HIDE DEF N
  <1>5. Len(owedTnts) + consumed_tnts = res_tnts + 0 /\ owedTnts \in Seq({0, 1}) /\ consumed_tnts \in Nat
        /\ res_tnts \in Nat /\ UINT32_MAX \in Nat /\ PartUsed
    BY <1>1, DecoderAssumption DEF TntOwed, MsgTnts, IInv, TntOK
  <1>6. res_tnts' = res_tnts + N
    <2>1. Len(owedTnts) \in Nat
      BY <1>5
    <2>2. res_tnts + N <= UINT32_MAX
      BY <1>1, <1>3, <1>5, <2>1 DEF TntsFit
    <2>3. Wrap(N) = N
      BY <1>3, <1>5, <2>2, WrapRange
    <2>4. Wrap(res_tnts + N) = res_tnts + N
      BY <1>3, <1>5, <2>2, WrapRange
    <2> QED
      BY <1>1, <1>m, <2>3, <2>4
  <1>7. /\ n \in Nat /\ Len(res_hists') = n + 1 /\ res_hists'[n + 1] = e
        /\ \A i \in 1 .. n : res_hists'[i] = res_hists[i]
    BY <1>1, <1>2 DEF IInv, DataOK
  <1>8. /\ P \in [0 .. n -> Nat] /\ P[0] = 0 /\ P[n] = res_tnts
        /\ \A i \in 1 .. n : P[i] = P[i - 1] + ElementTnts(res_hists[i]) /\ P[i] <= res_tnts
        /\ \A i, j \in 0 .. n : i <= j => P[i] <= P[j]
    BY <1>4 DEF Offsets
  <1> HIDE DEF n
  <1>9. PICK Q : /\ Q \in [0 .. n + 1 -> Nat] /\ Q[n + 1] = res_tnts + N
                 /\ \A i \in 0 .. n : Q[i] = P[i]
    <2> DEFINE S == [i \in 0 .. n + 1 |-> IF i = n + 1 THEN res_tnts + N ELSE P[i]]
    <2>1. S \in [0 .. n + 1 -> Nat] /\ S[n + 1] = res_tnts + N
      BY <1>3, <1>5, <1>7, <1>8
    <2>2. \A i \in 0 .. n : S[i] = P[i]
      BY <1>7
    <2> HIDE DEF S
    <2> QED
      BY <2>1, <2>2
  <1>10. \A i \in 1 .. n + 1 : i = n + 1 \/ i \in 1 .. n
    BY <1>7
  <1>11. Q[0] = 0 /\ Q[n] = res_tnts /\ n + 1 - 1 = n
    BY <1>7, <1>8, <1>9
  <1>12. ASSUME NEW i \in 1 .. n + 1
         PROVE  /\ Q[i] = Q[i - 1] + ElementTnts(res_hists'[i]) /\ Q[i] <= res_tnts'
                /\ Runs(G, Q[i - 1], res_hists'[i].hist, res_hists'[i].repeat)
    <2>1. CASE i = n + 1
      <3>1. ElementTnts(res_hists'[i]) = N
        BY <1>2, <1>7, <2>1 DEF ElementTnts, N
      <3>2. i - 1 = n
        BY <1>7, <2>1
      <3>3. Runs(G, Q[i - 1], res_hists'[i].hist, res_hists'[i].repeat)
        BY <1>2, <1>4, <1>7, <1>11, <2>1, <3>2
      <3>4. Q[i] = res_tnts + N /\ Q[i - 1] = res_tnts
        BY <1>9, <1>11, <2>1, <3>2
      <3> QED
        BY <1>3, <1>5, <1>6, <3>1, <3>3, <3>4
    <2>2. CASE i \in 1 .. n
      <3>1. i - 1 \in 0 .. n /\ i \in 0 .. n
        BY <1>7, <2>2
      <3>2. Q[i - 1] = P[i - 1] /\ Q[i] = P[i] /\ res_hists'[i] = res_hists[i]
        BY <1>7, <1>9, <2>2, <3>1
      <3>3. P[i] = P[i - 1] + ElementTnts(res_hists[i]) /\ P[i] <= res_tnts /\ P[i] \in Nat
        BY <1>8, <2>2, <3>1
      <3>4. Runs(G, P[i - 1], res_hists[i].hist, res_hists[i].repeat)
        BY <1>4, <2>2 DEF n
      <3> QED
        BY <1>3, <1>5, <1>6, <3>2, <3>3, <3>4
    <2> QED
      BY <1>10, <2>1, <2>2
  <1>o. ASSUME NEW i \in 0 .. n + 1, NEW j \in 0 .. n + 1, i <= j PROVE Q[i] <= Q[j]
    <2>1. n \in 0 .. n /\ (j = n + 1 \/ j \in 0 .. n) /\ (i = n + 1 \/ i \in 0 .. n)
          /\ (i = n + 1 => j = n + 1)
      BY <1>7, <1>o
    <2>2. i \in 0 .. n => P[i] \in Nat /\ P[i] <= res_tnts
      BY <1>7, <1>8, <2>1
    <2>3. CASE j = n + 1
      BY <1>3, <1>5, <1>9, <2>1, <2>2, <2>3
    <2>4. CASE j \in 0 .. n
      BY <1>7, <1>8, <1>9, <1>o, <2>1, <2>4
    <2> QED
      BY <2>1, <2>3, <2>4
  <1>13. Offsets(Q)'
    BY <1>6, <1>7, <1>9, <1>11, <1>12, <1>o DEF Offsets
  <1>14. Promised(Q, G)'
    BY <1>1, <1>4, <1>7, <1>12 DEF Promised
  <1>15. MsgTnts' = 0
    BY <1>1 DEF MsgTnts
  <1>16. PartUsed'
    <2>1. SUFFICES ASSUME consumed_tnts # 0
                   PROVE  /\ res_tnts' # 0 /\ res_hists' # << >>
                          /\ consumed_tnts < hist_bits(res_hists'[1].hist)
      BY <1>1 DEF PartUsed
    <2>2. res_tnts # 0 /\ res_hists # << >> /\ consumed_tnts < hist_bits(res_hists[1].hist)
      BY <1>1, <1>5, <2>1 DEF PartUsed
    <2>3. 1 \in 1 .. n
      BY <2>2, Elements DEF n
    <2>4. res_hists'[1] = res_hists[1] /\ res_hists' # << >>
      BY <1>7, <2>3
    <2> QED
      BY <1>3, <1>5, <1>6, <2>2, <2>4
  <1>17. Len(owedTnts') + consumed_tnts' = res_tnts' + MsgTnts'
    <2>1. Len(owedTnts) \in Nat
      BY <1>5
    <2>2. consumed_tnts' = consumed_tnts
      BY <1>1
    <2> QED
      BY <1>3, <1>5, <1>6, <1>15, <2>1, <2>2
  <1> QED
    BY <1>3, <1>13, <1>14, <1>16, <1>17 DEF TntOwed

\* The first d bits are dropped with the first element, or with one of its
\* executions.
Dropping(F, G, d) ==
    /\ res_hists # << >>
    /\ \A x \in Nat : G[x] = F[x + d]
    /\ res_tnts' = res_tnts - d
    /\ \/ res_hists' = Tail(res_hists) /\ d = ElementTnts(res_hists[1])
       \/ res_hists' = ElementUsed(res_hists[1]) /\ d = hist_bits(res_hists[1].hist)

\* What is left then.
LEMMA FrontDropped ==
  ASSUME IInv, NEW P, NEW F, Offsets(P), Promised(P, F),
         NEW d \in Nat, NEW G, Dropping(F, G, d)
  PROVE  /\ d <= res_tnts
         /\ \E Q : /\ Offsets(Q)'
                   /\ \A i \in 1 .. Len(res_hists') :
                         Runs(G, Q[i - 1], res_hists'[i].hist, res_hists'[i].repeat)
  <1> DEFINE n == Len(res_hists)
             e == res_hists[1]
             e2 == [e EXCEPT !.repeat = e.repeat - 1, !.ts = Spent(e.ts)]
  <1>0. /\ res_hists \in Seq(FitElements) /\ n \in Nat /\ n > 0 /\ 1 \in 1 .. n /\ 1 \in 0 .. n
        /\ 1 - 1 = 0
    <2>1. res_hists \in Seq(FitElements) /\ n \in Nat /\ 1 \in 1 .. n
      BY Elements DEF IInv, DataOK, Dropping
    <2> QED
      BY <2>1
  <1>1. /\ e \in FitElements /\ e.hist \in Seq({0, 1}) /\ e.repeat \in Nat /\ e.repeat # 0
        /\ hist_bits(e.hist) \in Nat /\ ElementTnts(e) \in Nat
        /\ hist_bits(e.hist) <= ElementTnts(e)
    BY <1>0, Elements
  <1>2. /\ P \in [0 .. n -> Nat] /\ P[0] = 0 /\ P[n] = res_tnts /\ P[1] = ElementTnts(e)
        /\ \A i \in 1 .. n : P[i] = P[i - 1] + ElementTnts(res_hists[i]) /\ P[i] <= res_tnts
        /\ \A i, j \in 0 .. n : i <= j => P[i] <= P[j]
    <2>1. /\ P \in [0 .. n -> Nat] /\ P[0] = 0 /\ P[n] = res_tnts
          /\ \A i \in 1 .. n : P[i] = P[i - 1] + ElementTnts(res_hists[i]) /\ P[i] <= res_tnts
          /\ \A i, j \in 0 .. n : i <= j => P[i] <= P[j]
      BY DEF Offsets
    <2>2. P[1] = 0 + ElementTnts(e)
      BY <1>0, <2>1
    <2> QED
      BY <1>1, <2>1, <2>2
  <1>3. \A i \in 1 .. n : Runs(F, P[i - 1], res_hists[i].hist, res_hists[i].repeat)
    BY DEF Promised
  <1>4. d \in Nat /\ d <= P[1] /\ P[1] <= res_tnts /\ res_tnts \in Nat /\ P[1] \in Nat
    <2>1. n \in 0 .. n
      BY <1>0
    <2>2. res_tnts \in Nat /\ P[1] \in Nat
      BY <1>0, <1>2, <2>1
    <2>3. d = ElementTnts(e) \/ d = hist_bits(e.hist)
      BY DEF Dropping
    <2>4. P[1] <= res_tnts
      BY <1>0, <1>2
    <2> QED
      BY <1>1, <1>2, <2>2, <2>3, <2>4
  <1>s. \A x \in Nat : G[x] = F[x + d]
    BY DEF Dropping
  <1>t. res_tnts' = res_tnts - d
    BY DEF Dropping
  <1>5. \A i \in 1 .. n : P[i] \in Nat /\ d <= P[i] /\ P[i] - d \in Nat
    <2> SUFFICES ASSUME NEW i \in 1 .. n PROVE P[i] \in Nat /\ d <= P[i] /\ P[i] - d \in Nat
      OBVIOUS
    <2>1. i \in 0 .. n /\ 1 <= i
      BY <1>0
    <2>2. P[1] <= P[i] /\ P[i] \in Nat
      BY <1>0, <1>2, <2>1
    <2> QED
      BY <1>4, <2>2
  <1>6. ASSUME NEW i \in 1 .. n, i # 1
        PROVE  /\ i - 1 \in 1 .. n
               /\ Runs(G, P[i - 1] - d, res_hists[i].hist, res_hists[i].repeat)
               /\ P[i] - d = (P[i - 1] - d) + ElementTnts(res_hists[i])
    <2>1. i - 1 \in 1 .. n
      BY <1>0, <1>6
    <2>2. P[i - 1] \in Nat /\ d <= P[i - 1] /\ P[i] = P[i - 1] + ElementTnts(res_hists[i])
      BY <1>2, <1>5, <2>1
    <2>3. /\ res_hists[i].hist \in Seq({0, 1}) /\ res_hists[i].repeat \in Nat
          /\ ElementTnts(res_hists[i]) \in Nat
      BY Elements
    <2>4. Runs(G, P[i - 1] - d, res_hists[i].hist, res_hists[i].repeat)
      BY <1>s, <1>3, <1>4, <2>2, <2>3, RunsMoved
    <2>5. P[i] - d = (P[i - 1] - d) + ElementTnts(res_hists[i])
      BY <1>4, <2>2, <2>3
    <2> QED
      BY <2>1, <2>4, <2>5
  <1>7. CASE res_hists' = Tail(res_hists) /\ d = ElementTnts(e)
    <2>1. Len(res_hists') = n - 1 /\ \A i \in 1 .. n - 1 : res_hists'[i] = res_hists[i + 1]
      BY <1>0, <1>7
    <2>2. PICK Q : Q \in [0 .. n - 1 -> Nat] /\ \A i \in 0 .. n - 1 : Q[i] = P[i + 1] - d
      <3> DEFINE S == [i \in 0 .. n - 1 |-> P[i + 1] - d]
      <3>1. \A i \in 0 .. n - 1 : i + 1 \in 1 .. n
        BY <1>0
      <3>2. S \in [0 .. n - 1 -> Nat]
        BY <1>5, <3>1
      <3>3. \A i \in 0 .. n - 1 : S[i] = P[i + 1] - d
        OBVIOUS
      <3> HIDE DEF S
      <3> QED
        BY <3>2, <3>3
    <2>3. /\ 0 \in 0 .. n - 1 /\ n - 1 \in 0 .. n - 1 /\ (n - 1) + 1 = n /\ 0 + 1 = 1
      BY <1>0
    <2>4. Q[0] = 0 /\ Q[n - 1] = res_tnts'
      <3>1. Q[0] = P[1] - d /\ Q[n - 1] = P[n] - d
        BY <2>2, <2>3
      <3>2. P[1] = d
        BY <1>2, <1>7
      <3> QED
        BY <1>2, <1>4, <1>t, <3>1, <3>2
    <2>5. ASSUME NEW i \in 1 .. n - 1
          PROVE  /\ Q[i] = Q[i - 1] + ElementTnts(res_hists'[i]) /\ Q[i] <= res_tnts'
                 /\ Runs(G, Q[i - 1], res_hists'[i].hist, res_hists'[i].repeat)
      <3>1. /\ i + 1 \in 1 .. n /\ i + 1 # 1 /\ (i + 1) - 1 = i /\ i - 1 \in 0 .. n - 1
            /\ i \in 0 .. n - 1 /\ (i - 1) + 1 = i /\ i \in 1 .. n
        BY <1>0
      <3>2. Q[i] = P[i + 1] - d /\ Q[i - 1] = P[i] - d /\ res_hists'[i] = res_hists[i + 1]
        BY <2>1, <2>2, <3>1
      <3>3. /\ Runs(G, P[i] - d, res_hists[i + 1].hist, res_hists[i + 1].repeat)
            /\ P[i + 1] - d = (P[i] - d) + ElementTnts(res_hists[i + 1])
        <4>1. /\ Runs(G, P[(i + 1) - 1] - d, res_hists[i + 1].hist, res_hists[i + 1].repeat)
              /\ P[i + 1] - d = (P[(i + 1) - 1] - d) + ElementTnts(res_hists[i + 1])
          BY <1>6, <3>1
        <4> QED
          BY <3>1, <4>1
      <3>4. P[i + 1] <= res_tnts /\ P[i + 1] \in Nat
        BY <1>2, <1>5, <3>1
      <3>5. Q[i] <= res_tnts'
        BY <1>t, <1>4, <3>2, <3>4
      <3> QED
        BY <3>2, <3>3, <3>5
    <2>6. ASSUME NEW i \in 0 .. n - 1, NEW j \in 0 .. n - 1, i <= j PROVE Q[i] <= Q[j]
      <3>1. /\ i + 1 \in 0 .. n /\ j + 1 \in 0 .. n /\ i + 1 <= j + 1
            /\ i + 1 \in 1 .. n /\ j + 1 \in 1 .. n
        BY <1>0, <2>6
      <3>2. P[i + 1] <= P[j + 1] /\ P[i + 1] \in Nat /\ P[j + 1] \in Nat
        BY <1>2, <1>5, <3>1
      <3>3. Q[i] = P[i + 1] - d /\ Q[j] = P[j + 1] - d
        BY <2>2
      <3> QED
        BY <1>4, <3>2, <3>3
    <2>7. Offsets(Q)'
      BY <2>1, <2>2, <2>4, <2>5, <2>6 DEF Offsets
    <2> QED
      BY <1>4, <2>1, <2>5, <2>7
  <1>8. CASE res_hists' = ElementUsed(e) /\ d = hist_bits(e.hist) /\ e.repeat # 1
    <2>1. /\ Len(res_hists') = n /\ res_hists'[1].hist = e.hist
          /\ res_hists'[1].repeat = e.repeat - 1
          /\ \A i \in 1 .. n : i # 1 => res_hists'[i] = res_hists[i]
      <3>1. e2.hist = e.hist /\ e2.repeat = e.repeat - 1
        BY <1>1 DEF FitElements, Element
      <3>2. res_hists' = <<e2>> \o Tail(res_hists)
        BY <1>8 DEF ElementUsed
      <3> HIDE DEF e2
      <3>3. Len(<<e2>>) = 1 /\ <<e2>>[1] = e2 /\ Tail(res_hists) \in Seq(FitElements)
            /\ Len(Tail(res_hists)) = n - 1
            /\ \A i \in 1 .. n - 1 : Tail(res_hists)[i] = res_hists[i + 1]
        BY <1>0
      <3>4. Len(res_hists') = n
        BY <1>0, <3>2, <3>3
      <3>5. res_hists'[1] = e2
        BY <1>0, <3>2, <3>3
      <3>6. \A i \in 1 .. n : i # 1 => res_hists'[i] = res_hists[i]
        BY <1>0, <3>2, <3>3
      <3> QED
        BY <3>1, <3>4, <3>5, <3>6
    <2>2. PICK Q : Q \in [0 .. n -> Nat] /\ Q[0] = 0 /\ \A i \in 1 .. n : Q[i] = P[i] - d
      <3> DEFINE S == [i \in 0 .. n |-> IF i = 0 THEN 0 ELSE P[i] - d]
      <3>1. \A i \in 0 .. n : i = 0 \/ i \in 1 .. n
        BY <1>0
      <3>2. S \in [0 .. n -> Nat]
        BY <1>5, <3>1
      <3>3. S[0] = 0 /\ \A i \in 1 .. n : S[i] = P[i] - d
        BY <1>0
      <3> HIDE DEF S
      <3> QED
        BY <3>2, <3>3
    <2>3. /\ e.repeat - 1 \in Nat /\ (e.repeat - 1) + 1 = e.repeat
          /\ ElementTnts(e) = hist_bits(e.hist) * (e.repeat - 1) + hist_bits(e.hist)
          /\ hist_bits(e.hist) * (e.repeat - 1) \in Nat
      <3> DEFINE r == e.repeat
      <3>0. r \in Nat /\ r # 0
        BY <1>1
      <3> HIDE DEF r
      <3>1. r - 1 \in Nat /\ (r - 1) + 1 = r
        BY <3>0
      <3> USE DEF r
      <3>2. /\ hist_bits(e.hist) * ((e.repeat - 1) + 1)
                 = hist_bits(e.hist) * (e.repeat - 1) + hist_bits(e.hist)
            /\ hist_bits(e.hist) * (e.repeat - 1) \in Nat
        BY <1>1, <3>1, Products
      <3> QED
        BY <3>1, <3>2 DEF ElementTnts
    <2>4. /\ Q[1] = 0 + ElementTnts(res_hists'[1])
          /\ Runs(G, 0, res_hists'[1].hist, res_hists'[1].repeat)
      <3>1. ElementTnts(res_hists'[1]) = hist_bits(e.hist) * (e.repeat - 1)
        BY <2>1 DEF ElementTnts
      <3>2. Q[1] = P[1] - hist_bits(e.hist)
        BY <1>0, <1>8, <2>2
      <3>3. Q[1] = 0 + ElementTnts(res_hists'[1])
        BY <1>1, <1>2, <2>3, <3>1, <3>2
      <3>4. Runs(F, 0, e.hist, (e.repeat - 1) + 1)
        BY <1>0, <1>2, <1>3, <2>3
      <3>5. Runs(G, 0, e.hist, e.repeat - 1)
        BY <1>s, <1>1, <1>8, <2>3, <3>4, RunsAgain
      <3> QED
        BY <2>1, <3>3, <3>5
    <2>5. ASSUME NEW i \in 1 .. n
          PROVE  /\ Q[i] = Q[i - 1] + ElementTnts(res_hists'[i]) /\ Q[i] <= res_tnts'
                 /\ Runs(G, Q[i - 1], res_hists'[i].hist, res_hists'[i].repeat)
      <3>1. Q[i] = P[i] - d /\ P[i] \in Nat /\ P[i] <= res_tnts
        BY <1>2, <1>5, <2>2
      <3>2. Q[i] <= res_tnts'
        BY <1>t, <1>4, <3>1
      <3>3. CASE i = 1
        BY <1>0, <2>2, <2>4, <3>2, <3>3
      <3>4. CASE i # 1
        <4>1. /\ i - 1 \in 1 .. n
              /\ Runs(G, P[i - 1] - d, res_hists[i].hist, res_hists[i].repeat)
              /\ P[i] - d = (P[i - 1] - d) + ElementTnts(res_hists[i])
          BY <1>6, <3>4
        <4>2. Q[i - 1] = P[i - 1] - d /\ res_hists'[i] = res_hists[i]
          BY <2>1, <2>2, <3>4, <4>1
        <4> QED
          BY <3>1, <3>2, <4>1, <4>2
      <3> QED
        BY <3>3, <3>4
    <2>6. ASSUME NEW i \in 0 .. n, NEW j \in 0 .. n, i <= j PROVE Q[i] <= Q[j]
      <3>1. (i = 0 \/ i \in 1 .. n) /\ (j = 0 \/ j \in 1 .. n) /\ (j = 0 => i = 0)
        BY <1>0, <2>6
      <3>2. Q[j] \in Nat
        BY <2>2
      <3>3. CASE i = 0
        BY <2>2, <3>2, <3>3
      <3>4. CASE i \in 1 .. n /\ j \in 1 .. n
        <4>1. P[i] <= P[j] /\ P[i] \in Nat /\ P[j] \in Nat
          BY <1>2, <1>5, <2>6, <3>4
        <4>2. Q[i] = P[i] - d /\ Q[j] = P[j] - d
          BY <2>2, <3>4
        <4> QED
          BY <1>4, <4>1, <4>2
      <3> QED
        BY <3>1, <3>3, <3>4
    <2>7. Q[n] = res_tnts'
      <3>1. n \in 1 .. n
        BY <1>0
      <3> QED
        BY <1>t, <1>2, <2>2, <3>1
    <2>8. Offsets(Q)'
      BY <2>1, <2>2, <2>5, <2>6, <2>7 DEF Offsets
    <2> QED
      BY <1>4, <2>1, <2>5, <2>8
  <1>9. CASE res_hists' = ElementUsed(e) /\ d = hist_bits(e.hist) /\ e.repeat = 1
    <2>1. res_hists' = Tail(res_hists)
      BY <1>9 DEF ElementUsed
    <2>2. d = ElementTnts(e)
      BY <1>1, <1>9, Products DEF ElementTnts
    <2> QED
      BY <1>7, <2>1, <2>2
  <1> QED
    BY <1>7, <1>8, <1>9 DEF Dropping

\* The promise that is left.
LEMMA PromiseDropped ==
  ASSUME IInv, NEW P, NEW F, Offsets(P), Promised(P, F),
         NEW d \in Nat, NEW G, Dropping(F, G, d), msg' = msg, Counted' <=> Counted,
         \A j \in 1 .. Len(owedTnts') : owedTnts'[j] = G[j + consumed_tnts']
  PROVE  \E Q, H : Offsets(Q)' /\ Promised(Q, H)'
  <1>1. d <= res_tnts
    BY FrontDropped
  <1>2. PICK Q : /\ Offsets(Q)'
                 /\ \A i \in 1 .. Len(res_hists') :
                       Runs(G, Q[i - 1], res_hists'[i].hist, res_hists'[i].repeat)
    BY FrontDropped
  <1>3. ASSUME Counted, has_hist(msg) PROVE Runs(G, res_tnts', msg.hist, Executions(msg))
    <2>1. Runs(F, res_tnts, msg.hist, Executions(msg))
      BY <1>3 DEF Promised
    <2>2. /\ msg.hist \in Seq({0, 1}) /\ Executions(msg) \in Nat /\ res_tnts \in Nat
      BY MessageTnts, DecoderAssumption DEF IInv, DataOK, TntOK
    <2>3. (\A x \in Nat : G[x] = F[x + d]) /\ res_tnts' = res_tnts - d
      BY DEF Dropping
    <2>4. Runs(G, res_tnts - d, msg.hist, Executions(msg))
      BY <1>1, <2>1, <2>2, <2>3, RunsMoved
    <2> QED
      BY <2>3, <2>4
  <1>4. Promised(Q, G)'
    BY <1>2, <1>3 DEF Promised
  <1> QED
    BY <1>2, <1>4

\* The next bit of a run.
LEMMA RunFirst ==
  ASSUME NEW F, NEW h \in Seq({0, 1}), NEW k \in Nat, k # 0, Runs(F, 0, h, k),
         NEW c \in Nat, c < hist_bits(h)
  PROVE  F[1 + c] = h[c + 2]
  <1> DEFINE b == hist_bits(h)
             N == b * k
  <1>0. b \in Nat
    BY DEF hist_bits
  <1>1. N \in Nat /\ b <= N
    BY <1>0, Products
  <1>2. c < b
    OBVIOUS
  <1> HIDE DEF b, N
  <1>3. 1 + c \in 1 .. N /\ 1 + c <= b /\ 0 + (1 + c) = 1 + c /\ (1 + c) + 1 = c + 2
    BY <1>0, <1>1, <1>2
  <1>4. \A a \in 1 .. N : F[0 + a] = IF a <= b THEN h[a + 1] ELSE F[0 + a - b]
    BY DEF Runs, b, N
  <1> QED
    BY <1>3, <1>4

\* An element without bits is dropped.
LEMMA TntsDraining ==
  ASSUME IInv, TntOwed, Draining
  PROVE  TntOwed'
  <1>1. /\ Sound /\ res_hists # << >> /\ res_hists[1].hist = << >> /\ res_hists' = Tail(res_hists)
        /\ UNCHANGED <<msg, res_tnts, consumed_tnts, owedTnts>> /\ (Counted' <=> Counted)
    BY DEF Draining, DrainEmpty, EmptyInFront, consumedVars, historyVars
  <1>2. PICK P, F : Offsets(P) /\ Promised(P, F)
    BY <1>1 DEF TntOwed
  <1>3. PICK G : \A x \in Nat : G[x] = F[x + 0]
    BY Moved
  <1>4. hist_bits(res_hists[1].hist) = 0 /\ ElementTnts(res_hists[1]) = 0
    <2>1. hist_bits(res_hists[1].hist) = 0
      BY <1>1 DEF hist_bits
    <2>2. res_hists[1].repeat \in Nat
      BY <1>1, Elements
    <2> QED
      BY <2>1, <2>2, Products DEF ElementTnts
  <1>5. /\ res_tnts \in Nat /\ consumed_tnts \in Nat /\ owedTnts \in Seq({0, 1})
        /\ Len(owedTnts) + consumed_tnts = res_tnts + MsgTnts /\ PartUsed
    BY <1>1, DecoderAssumption DEF TntOwed, IInv, TntOK
  <1>6. Dropping(F, G, 0)
    BY <1>1, <1>3, <1>4, <1>5 DEF Dropping
  <1>7. \A j \in 1 .. Len(owedTnts') : owedTnts'[j] = G[j + consumed_tnts']
    <2> SUFFICES ASSUME NEW j \in 1 .. Len(owedTnts) PROVE owedTnts[j] = G[j + consumed_tnts]
      BY <1>1
    <2>1. j + consumed_tnts \in Nat /\ (j + consumed_tnts) + 0 = j + consumed_tnts
      BY <1>5
    <2>2. owedTnts[j] = F[j + consumed_tnts]
      BY <1>2 DEF Promised
    <2> QED
      BY <1>3, <2>1, <2>2
  <1>8. \E Q, H : Offsets(Q)' /\ Promised(Q, H)'
    <2>1. 0 \in Nat
      OBVIOUS
    <2> QED
      BY <1>1, <1>2, <1>6, <1>7, <2>1, PromiseDropped
  <1>9. PartUsed'
    <2>1. consumed_tnts # 0 => res_tnts = 0 /\ Counted /\ consumed_tnts <= BitsOf(msg)
      BY <1>4, <1>5 DEF PartUsed
    <2> QED
      BY <1>1, <2>1 DEF PartUsed
  <1>10. MsgTnts' = MsgTnts
    BY <1>1 DEF MsgTnts
  <1> QED
    BY <1>1, <1>5, <1>8, <1>9, <1>10 DEF TntOwed

\* Where bits are delivered from.
LEMMA FromMsg ==
  ASSUME IInv, DrainOK, MsgDelivers
  PROVE  /\ Sound /\ Counted /\ has_hist(msg) /\ res_tnts = 0 /\ consumed_tnts < BitsOf(msg)
         /\ BitsOf(msg) = hist_bits(msg.hist)
         /\ UNCHANGED <<msg, res_hists, res_tnts>> /\ consumed_tnts' = consumed_tnts + 1
         /\ owedTnts' = (IF owedTnts = << >> THEN << >> ELSE Tail(owedTnts))
         /\ ret'.tnt = msg.hist[consumed_tnts + 2]
  <1>1. /\ Sound /\ pc = "drain" /\ TntFromMsg /\ aborted' = "none"
    BY DEF MsgDelivers, TntFromMsg, Drained
  <1>2. /\ res_tnts = 0 /\ msg_present /\ ~(BitsOf(msg) <= consumed_tnts)
        /\ UNCHANGED <<msg, res_hists, res_tnts>> /\ consumed_tnts' = consumed_tnts + 1
        /\ Deliver(TntAt(msg.hist, consumed_tnts))
    BY <1>1 DEF TntFromMsg, Abort, resVars
  <1>3. ~is_res(msg)
    BY <1>1, <1>2 DEF DrainOK, TntsAssert, ResAssert
  <1>4. BitsOf(msg) \in Nat /\ consumed_tnts \in Nat
    BY MessageTnts, DecoderAssumption DEF IInv, DataOK, TntOK
  <1>5. has_hist(msg) /\ BitsOf(msg) = hist_bits(msg.hist)
    BY <1>2, <1>4 DEF BitsOf
  <1>6. ret'.tnt = msg.hist[consumed_tnts + 2]
    BY <1>2 DEF Deliver, Return, TntAt
  <1> QED
    BY <1>1, <1>2, <1>3, <1>4, <1>5, <1>6 DEF Counted, Deliver

\* The same for a bit of the first element.
LEMMA FromElement ==
  ASSUME IInv, ElementDelivers
  PROVE  /\ Sound /\ res_hists # << >> /\ consumed_tnts < hist_bits(res_hists[1].hist)
         /\ msg' = msg /\ (Counted' <=> Counted) /\ res_tnts # 0
         /\ \/ /\ hist_bits(res_hists[1].hist) # consumed_tnts + 1
               /\ consumed_tnts' = consumed_tnts + 1 /\ UNCHANGED <<res_hists, res_tnts>>
            \/ /\ hist_bits(res_hists[1].hist) = consumed_tnts + 1
               /\ consumed_tnts' = 0 /\ res_tnts' = res_tnts - hist_bits(res_hists[1].hist)
               /\ res_hists' = ElementUsed(res_hists[1])
         /\ owedTnts' = (IF owedTnts = << >> THEN << >> ELSE Tail(owedTnts))
         /\ ret'.tnt = res_hists[1].hist[consumed_tnts + 2]
  <1>1. /\ Sound /\ TntFromElement /\ aborted' = "none" /\ (Counted' <=> Counted)
    BY DEF ElementDelivers
  <1> DEFINE e == res_hists[1]
             b == hist_bits(e.hist)
  <1>2. /\ res_tnts # 0 /\ res_hists # << >> /\ ~(b <= consumed_tnts)
        /\ msg' = msg
        /\ Deliver(TntAt(e.hist, consumed_tnts))
        /\ \/ /\ b # consumed_tnts + 1
              /\ consumed_tnts' = consumed_tnts + 1 /\ UNCHANGED <<res_hists, res_tnts>>
           \/ /\ b = consumed_tnts + 1
              /\ consumed_tnts' = 0 /\ res_tnts' = res_tnts - b
              /\ res_hists' = ElementUsed(e)
    BY <1>1 DEF TntFromElement, Abort
  <1>3. b \in Nat /\ consumed_tnts \in Nat
    BY <1>2, Elements, DecoderAssumption DEF IInv, TntOK
  <1>4. ret'.tnt = e.hist[consumed_tnts + 2]
    BY <1>2 DEF Deliver, Return, TntAt
  <1> HIDE DEF b, e
  <1>5. consumed_tnts < b
    BY <1>2, <1>3
  <1> USE DEF b, e
  <1> QED
    BY <1>1, <1>2, <1>4, <1>5 DEF Deliver

\* The bit delivered is the first one owed.
LEMMA FirstOwed ==
  ASSUME IInv, DrainOK, TntOwed, MsgDelivers \/ ElementDelivers
  PROVE  owedTnts \in Seq({0, 1}) /\ owedTnts # << >> /\ ret'.tnt = owedTnts[1]
  <1>0. Sound
    BY DEF MsgDelivers, ElementDelivers
  <1>1. /\ res_tnts \in Nat /\ consumed_tnts \in Nat /\ owedTnts \in Seq({0, 1})
        /\ Len(owedTnts) + consumed_tnts = res_tnts + MsgTnts /\ MsgTnts \in Nat
        /\ Len(owedTnts) \in Nat
    <2>1. MsgTnts \in Nat
      BY MessageTnts DEF MsgTnts, IInv, DataOK
    <2> QED
      BY <1>0, <2>1, DecoderAssumption DEF TntOwed, IInv, TntOK
  <1>2. PICK P, F : Offsets(P) /\ Promised(P, F)
    BY <1>0 DEF TntOwed
  <1>3. Len(owedTnts) # 0 => owedTnts # << >> /\ owedTnts[1] = F[1 + consumed_tnts]
    <2> SUFFICES ASSUME Len(owedTnts) # 0
                 PROVE  owedTnts # << >> /\ owedTnts[1] = F[1 + consumed_tnts]
      OBVIOUS
    <2>1. 1 \in 1 .. Len(owedTnts)
      BY <1>1
    <2> QED
      BY <1>2, <2>1 DEF Promised
  <1>4. CASE MsgDelivers
    <2>1. /\ Counted /\ has_hist(msg) /\ res_tnts = 0 /\ consumed_tnts < BitsOf(msg)
          /\ BitsOf(msg) = hist_bits(msg.hist) /\ ret'.tnt = msg.hist[consumed_tnts + 2]
      BY <1>4, FromMsg
    <2>2. /\ msg.hist \in Seq({0, 1}) /\ Executions(msg) \in Nat /\ Executions(msg) # 0
          /\ BitsOf(msg) \in Nat /\ BitsOf(msg) <= BitsOf(msg) * Executions(msg)
      BY MessageTnts DEF IInv, DataOK
    <2>3. MsgTnts = BitsOf(msg) * Executions(msg)
      BY <2>1 DEF MsgTnts
    <2>4. BitsOf(msg) <= MsgTnts
      BY <2>2, <2>3
    <2>5. Len(owedTnts) # 0
      BY <1>1, <2>1, <2>2, <2>4
    <2>6. Runs(F, 0, msg.hist, Executions(msg))
      BY <1>2, <2>1 DEF Promised
    <2>7. F[1 + consumed_tnts] = msg.hist[consumed_tnts + 2]
      BY <1>1, <2>1, <2>2, <2>6, RunFirst
    <2> QED
      BY <1>1, <1>3, <2>1, <2>5, <2>7
  <1>5. CASE ElementDelivers
    <2> DEFINE e == res_hists[1]
    <2>1. /\ res_hists # << >> /\ consumed_tnts < hist_bits(e.hist)
          /\ ret'.tnt = e.hist[consumed_tnts + 2]
      BY <1>5, FromElement
    <2>2. /\ 1 \in 1 .. Len(res_hists) /\ e.hist \in Seq({0, 1}) /\ e.repeat \in Nat /\ e.repeat # 0
          /\ hist_bits(e.hist) \in Nat /\ ElementTnts(e) \in Nat /\ hist_bits(e.hist) <= ElementTnts(e)
      BY <2>1, Elements
    <2>3. P[0] = 0 /\ P[1] = P[1 - 1] + ElementTnts(e) /\ P[1] <= res_tnts
      BY <1>2, <2>2 DEF Offsets
    <2>4. P[1 - 1] = 0
      BY <2>3
    <2>5. ElementTnts(e) <= res_tnts
      BY <2>2, <2>3, <2>4
    <2>6. Len(owedTnts) # 0
      BY <1>1, <2>1, <2>2, <2>5
    <2>7. Runs(F, P[1 - 1], e.hist, e.repeat)
      BY <1>2, <2>2 DEF Promised
    <2>8. F[1 + consumed_tnts] = e.hist[consumed_tnts + 2]
      BY <1>1, <2>1, <2>2, <2>4, <2>7, RunFirst
    <2> QED
      BY <1>1, <1>3, <2>1, <2>6, <2>8
  <1> QED
    BY <1>4, <1>5

\* A delivered bit leaves the front of the bits owed.
LEMMA OneDelivered ==
  ASSUME IInv, DrainOK, TntOwed, MsgDelivers \/ ElementDelivers
  PROVE  /\ owedTnts' \in Seq({0, 1}) /\ Len(owedTnts') = Len(owedTnts) - 1
         /\ Len(owedTnts) \in Nat
         /\ \A j \in 1 .. Len(owedTnts') : j + 1 \in 1 .. Len(owedTnts) /\ owedTnts'[j] = owedTnts[j + 1]
  <1>1. owedTnts \in Seq({0, 1}) /\ owedTnts # << >>
    BY FirstOwed
  <1>2. owedTnts' = Tail(owedTnts)
    BY <1>1, FromMsg, FromElement
  <1> QED
    BY <1>1, <1>2

\* A bit of the buffered message is delivered.
LEMMA TntsMsgDelivers ==
  ASSUME IInv, DrainOK, TntOwed, MsgDelivers
  PROVE  TntOwed'
  <1>1. /\ Sound /\ Counted /\ res_tnts = 0 /\ consumed_tnts < BitsOf(msg)
        /\ UNCHANGED <<msg, res_hists, res_tnts>> /\ consumed_tnts' = consumed_tnts + 1
    BY FromMsg
  <1>2. Counted' <=> Counted
    BY DEF MsgDelivers
  <1>3. /\ owedTnts' \in Seq({0, 1}) /\ Len(owedTnts') = Len(owedTnts) - 1 /\ Len(owedTnts) \in Nat
        /\ \A j \in 1 .. Len(owedTnts') : j + 1 \in 1 .. Len(owedTnts) /\ owedTnts'[j] = owedTnts[j + 1]
    BY OneDelivered
  <1>4. /\ consumed_tnts \in Nat /\ res_tnts \in Nat /\ BitsOf(msg) \in Nat /\ MsgTnts \in Nat
        /\ Len(owedTnts) + consumed_tnts = res_tnts + MsgTnts
    BY <1>1, MessageTnts, DecoderAssumption DEF TntOwed, MsgTnts, IInv, DataOK, TntOK
  <1>5. PICK P, F : Offsets(P) /\ Promised(P, F)
    BY <1>1 DEF TntOwed
  <1>6. ASSUME NEW j \in 1 .. Len(owedTnts') PROVE owedTnts'[j] = F[j + consumed_tnts']
    <2>1. owedTnts'[j] = owedTnts[j + 1] /\ owedTnts[j + 1] = F[(j + 1) + consumed_tnts]
      BY <1>3, <1>5 DEF Promised
    <2>2. (j + 1) + consumed_tnts = j + consumed_tnts'
      BY <1>1, <1>4
    <2> QED
      BY <2>1, <2>2
  <1>7. Offsets(P)'
    BY <1>1, <1>5 DEF Offsets
  <1>8. Promised(P, F)'
    BY <1>1, <1>2, <1>5, <1>6 DEF Promised
  <1>9. PartUsed'
    BY <1>1, <1>2, <1>4 DEF PartUsed
  <1>10. MsgTnts' = MsgTnts
    BY <1>1, <1>2 DEF MsgTnts
  <1>11. Len(owedTnts') + consumed_tnts' = res_tnts' + MsgTnts'
    <2>1. Len(owedTnts') = Len(owedTnts) - 1 /\ Len(owedTnts) \in Nat
      BY <1>3
    <2>2. consumed_tnts' = consumed_tnts + 1 /\ res_tnts' = res_tnts
      BY <1>1
    <2> QED
      BY <1>4, <1>10, <2>1, <2>2
  <1> QED
    BY <1>3, <1>7, <1>8, <1>9, <1>11 DEF TntOwed

\* A bit of the first element is delivered.
LEMMA TntsElementDelivers ==
  ASSUME IInv, DrainOK, TntOwed, ElementDelivers
  PROVE  TntOwed'
  <1> DEFINE e == res_hists[1]
             b == hist_bits(e.hist)
  <1>1. /\ Sound /\ res_hists # << >> /\ consumed_tnts < b /\ res_tnts # 0
        /\ msg' = msg /\ (Counted' <=> Counted)
    BY FromElement
  <1>2. \/ /\ b # consumed_tnts + 1
           /\ consumed_tnts' = consumed_tnts + 1 /\ UNCHANGED <<res_hists, res_tnts>>
        \/ /\ b = consumed_tnts + 1
           /\ consumed_tnts' = 0 /\ res_tnts' = res_tnts - b /\ res_hists' = ElementUsed(e)
    BY FromElement
  <1>3. /\ owedTnts' \in Seq({0, 1}) /\ Len(owedTnts') = Len(owedTnts) - 1 /\ Len(owedTnts) \in Nat
        /\ \A j \in 1 .. Len(owedTnts') : j + 1 \in 1 .. Len(owedTnts) /\ owedTnts'[j] = owedTnts[j + 1]
    BY OneDelivered
  <1>4. /\ consumed_tnts \in Nat /\ res_tnts \in Nat /\ MsgTnts \in Nat /\ b \in Nat
        /\ Len(owedTnts) + consumed_tnts = res_tnts + MsgTnts
    <2>1. MsgTnts \in Nat
      BY MessageTnts DEF MsgTnts, IInv, DataOK
    <2> QED
      BY <1>1, <2>1, Elements, DecoderAssumption DEF TntOwed, IInv, TntOK
  <1>5. PICK P, F : Offsets(P) /\ Promised(P, F)
    BY <1>1 DEF TntOwed
  <1>6. \A j \in 1 .. Len(owedTnts') : owedTnts'[j] = F[(j + 1) + consumed_tnts] /\ j \in Nat
    BY <1>3, <1>5 DEF Promised
  <1>7. MsgTnts' = MsgTnts
    BY <1>1 DEF MsgTnts
  <1> HIDE DEF b
  <1>8. CASE /\ b # consumed_tnts + 1
             /\ consumed_tnts' = consumed_tnts + 1 /\ UNCHANGED <<res_hists, res_tnts>>
    <2>1. \A j \in 1 .. Len(owedTnts') : owedTnts'[j] = F[j + consumed_tnts']
      <3>1. \A j \in Nat : (j + 1) + consumed_tnts = j + consumed_tnts'
        BY <1>4, <1>8
      <3> QED
        BY <1>6, <3>1
    <2>2. Offsets(P)'
      BY <1>5, <1>8 DEF Offsets
    <2>3. Promised(P, F)'
      BY <1>1, <1>5, <1>8, <2>1 DEF Promised
    <2>4. consumed_tnts' < b
      BY <1>1, <1>4, <1>8
    <2>5. PartUsed'
      <3>1. /\ res_hists' # << >> /\ res_tnts' # 0
            /\ consumed_tnts' < hist_bits(res_hists'[1].hist)
        BY <1>1, <1>8, <2>4 DEF b
      <3> QED
        BY <3>1 DEF PartUsed
    <2>6. Len(owedTnts') + consumed_tnts' = res_tnts' + MsgTnts'
      <3>1. Len(owedTnts') = Len(owedTnts) - 1 /\ Len(owedTnts) \in Nat
        BY <1>3
      <3> QED
        BY <1>4, <1>7, <1>8, <3>1
    <2> QED
      BY <1>3, <2>2, <2>3, <2>5, <2>6 DEF TntOwed
  <1>9. CASE /\ b = consumed_tnts + 1
             /\ consumed_tnts' = 0 /\ res_tnts' = res_tnts - b /\ res_hists' = ElementUsed(e)
    <2>1. PICK G : \A x \in Nat : G[x] = F[x + b]
      BY Moved
    <2>2. Dropping(F, G, b)
      BY <1>1, <1>9, <2>1 DEF Dropping, b
    <2>3. \A j \in 1 .. Len(owedTnts') : owedTnts'[j] = G[j + consumed_tnts']
      <3>1. \A j \in Nat : j + consumed_tnts' = j /\ (j + 1) + consumed_tnts = j + b
        BY <1>4, <1>9
      <3> QED
        BY <1>6, <2>1, <3>1
    <2>4. \E Q, H : Offsets(Q)' /\ Promised(Q, H)'
      BY <1>1, <1>4, <1>5, <2>2, <2>3, PromiseDropped
    <2>5. Len(owedTnts') + consumed_tnts' = res_tnts' + MsgTnts'
      <3>1. Len(owedTnts') = Len(owedTnts) - 1 /\ Len(owedTnts) \in Nat
        BY <1>3
      <3> QED
        BY <1>4, <1>7, <1>9, <3>1
    <2>6. PartUsed'
      BY <1>9 DEF PartUsed
    <2> QED
      BY <1>3, <2>4, <2>5, <2>6 DEF TntOwed
  <1> QED
    BY <1>2, <1>8, <1>9

\* Nothing is accumulated.
LEMMA NoOffsets ==
  ASSUME res_hists' = << >>, res_tnts' = 0
  PROVE  \E P : Offsets(P)'
  <1> DEFINE S == [i \in 0 .. 0 |-> 0]
  <1>1. S \in [0 .. 0 -> Nat] /\ S[0] = 0
    OBVIOUS
  <1> HIDE DEF S
  <1>2. Len(res_hists') = 0
    OBVIOUS
  <1>3. Offsets(S)'
    BY <1>1, <1>2 DEF Offsets
  <1> QED
    BY <1>3

\* The buffered message is retired.
LEMMA TntsRetiring ==
  ASSUME IInv, TntOwed, NEW m \in FitMessages, NEW fa, Retires(m, fa)
  PROVE  TntOwed'
  <1> DEFINE b == BitsOf(msg)
  <1>1. /\ Sound /\ Counted /\ res_hists = << >> /\ res_hists' = << >> /\ res_tnts' = res_tnts
        /\ consumed_tnts = b /\ consumed_tnts' = 0 /\ owedTnts' = owedTnts
    <2>1. RetireAssert = "none"
      BY DEF Retires
    <2>2. res_hists = << >> /\ consumed_tnts = b
      BY <2>1 DEF RetireAssert
    <2> QED
      BY <2>2 DEF Retires, RetireMsg, resVars, historyVars
  <1>2. PICK P, F : Offsets(P) /\ Promised(P, F)
    BY <1>1 DEF TntOwed
  <1>3. res_tnts = 0
    BY <1>1, <1>2 DEF Offsets
  <1>4. /\ b \in Nat /\ Executions(msg) \in Nat /\ msg.hist \in Seq({0, 1})
        /\ owedTnts \in Seq({0, 1}) /\ MsgTnts \in Nat
        /\ Len(owedTnts) + b = MsgTnts /\ MsgTnts = b * Executions(msg)
        /\ Len(owedTnts) \in Nat
    <2>1. b \in Nat /\ Executions(msg) \in Nat /\ b * Executions(msg) \in Nat /\ msg.hist \in Seq({0, 1})
      BY MessageTnts DEF IInv, DataOK
    <2>2. MsgTnts = b * Executions(msg)
      BY <1>1 DEF MsgTnts
    <2>3. owedTnts \in Seq({0, 1}) /\ Len(owedTnts) + b = 0 + MsgTnts /\ MsgTnts \in Nat
      BY <1>1, <1>3, <2>1, <2>2 DEF TntOwed
    <2> HIDE DEF b
    <2>4. Len(owedTnts) + b = MsgTnts
      BY <2>3
    <2> QED
      BY <2>1, <2>2, <2>3, <2>4
  <1>5. PartUsed'
    BY <1>1 DEF PartUsed
  <1>6. PICK Q : Offsets(Q)'
    BY <1>1, <1>3, NoOffsets
  <1>7. CASE Counted' /\ ~is_sync(msg)
    <2>1. /\ msg.hrepeat \in Nat /\ Executions(msg) = msg.hrepeat + 1
          /\ Executions(msg') = msg.hrepeat
          /\ msg'.tcode = msg.tcode /\ msg'.code = msg.code /\ msg'.hist = msg.hist
      BY <1>7, ExecutionsLeft
    <2>2. (has_hist(msg') <=> has_hist(msg)) /\ BitsOf(msg') = b
      BY <2>1 DEF has_hist, is_res, is_stop, BitsOf
    <2>3. MsgTnts' = b * msg.hrepeat
      BY <1>7, <2>1, <2>2 DEF MsgTnts
    <2>4. b * msg.hrepeat \in Nat /\ MsgTnts = b * msg.hrepeat + b
      BY <1>4, <2>1, Products
    <2>5. Len(owedTnts) = MsgTnts'
      <3>1. MsgTnts' \in Nat /\ MsgTnts = MsgTnts' + b
        BY <2>3, <2>4
      <3>2. b \in Nat /\ Len(owedTnts) \in Nat /\ Len(owedTnts) + b = MsgTnts
        BY <1>4
      <3> HIDE DEF b
      <3> QED
        BY <3>1, <3>2
    <2>6. PICK G : \A x \in Nat : G[x] = F[x + b]
      BY Moved
    <2>7. ASSUME has_hist(msg) PROVE Runs(G, 0, msg.hist, msg.hrepeat)
      <3>1. b = hist_bits(msg.hist)
        BY <2>7 DEF BitsOf
      <3>2. Runs(F, 0, msg.hist, msg.hrepeat + 1)
        BY <1>1, <1>2, <1>3, <2>1, <2>7 DEF Promised
      <3> QED
        BY <1>4, <2>1, <2>6, <3>1, <3>2, RunsAgain
    <2>8. ASSUME NEW j \in 1 .. Len(owedTnts) PROVE owedTnts[j] = G[j + 0]
      <3>1. owedTnts[j] = F[j + b] /\ j \in Nat /\ j + 0 = j
        BY <1>1, <1>2, <1>4 DEF Promised
      <3> QED
        BY <2>6, <3>1
    <2>9. Promised(Q, G)'
      BY <1>1, <1>3, <2>1, <2>2, <2>7, <2>8 DEF Promised
    <2>10. Len(owedTnts') + consumed_tnts' = res_tnts' + MsgTnts'
      <3> DEFINE N == MsgTnts'
      <3>1. N \in Nat /\ Len(owedTnts') = N
        BY <1>1, <2>3, <2>4, <2>5
      <3> HIDE DEF N
      <3>2. Len(owedTnts') + consumed_tnts' = res_tnts' + N
        BY <1>1, <1>3, <3>1
      <3> QED
        BY <3>2 DEF N
    <2> QED
      BY <1>1, <1>4, <1>5, <1>6, <2>9, <2>10 DEF TntOwed
  <1>8. CASE ~Counted' \/ is_sync(msg)
    <2>1. Executions(msg) = 1
      BY <1>8, ExecutionsLeft
    <2>2. Len(owedTnts) = 0
      <3>1. MsgTnts = b
        BY <1>4, <2>1, Products
      <3>2. b \in Nat /\ Len(owedTnts) \in Nat /\ Len(owedTnts) + b = MsgTnts
        BY <1>4
      <3> HIDE DEF b
      <3> QED
        BY <3>1, <3>2
    <2>3. MsgTnts' = 0 /\ (Counted' => ~has_hist(msg'))
      <3>1. CASE ~Counted'
        BY <3>1 DEF MsgTnts
      <3>2. CASE Counted' /\ is_sync(msg)
        <4>1. msg'.tcode = "ProgTraceSync" /\ Executions(msg') = 1
          BY <3>2, ExecutionsLeft
        <4>2. ~has_hist(msg')
          BY <4>1 DEF has_hist, is_res, is_stop, HistBranches
        <4> QED
          BY <4>1, <4>2 DEF MsgTnts, BitsOf
      <3> QED
        BY <1>8, <3>1, <3>2
    <2>4. Promised(Q, F)'
      BY <1>1, <2>2, <2>3 DEF Promised
    <2>5. Len(owedTnts') + consumed_tnts' = res_tnts' + MsgTnts'
      BY <1>1, <1>3, <2>2, <2>3
    <2> QED
      BY <1>1, <1>4, <1>5, <1>6, <2>4, <2>5 DEF TntOwed
  <1> QED
    BY <1>7, <1>8

\* Decoding starts over.
LEMMA TntsRestarting ==
  ASSUME IInv, Restarting
  PROVE  TntOwed'
  <1>1. /\ res_hists' = << >> /\ res_tnts' = 0 /\ consumed_tnts' = 0 /\ owedTnts' = << >>
        /\ msg'.tcode = "ProgTraceSync"
    BY DEF Restarting, SyncFound, IInv, DataOK, FitMessages, Messages
  <1>2. ~has_hist(msg') /\ MsgTnts' = 0
    <2>1. ~has_hist(msg') /\ Executions(msg') = 1
      BY <1>1, BranchKinds DEF has_hist, is_res, is_stop, HistBranches, Executions
    <2> QED
      BY <2>1 DEF MsgTnts, BitsOf
  <1>3. PICK Q : Offsets(Q)'
    BY <1>1, NoOffsets
  <1>4. Promised(Q, Q)'
    BY <1>1, <1>2 DEF Promised
  <1>5. PartUsed'
    BY <1>1 DEF PartUsed
  <1> QED
    BY <1>1, <1>2, <1>3, <1>4, <1>5 DEF TntOwed

\* Every step keeps the promise.
LEMMA TntOwedStep == ~TornEnd /\ IInv /\ DrainOK /\ TntOwed /\ TntsFit' /\ Kinds => TntOwed'
  <1> SUFFICES ASSUME ~TornEnd, IInv, DrainOK, TntOwed, TntsFit', Kinds PROVE TntOwed'
    OBVIOUS
  <1>1. CASE Quiet \/ (\E m \in Msgs : Hands(m)) \/ (\E n \in Nat : Consuming(n))
    <2>1. /\ Sound /\ UNCHANGED <<res_hists, res_tnts, consumed_tnts, owedTnts>>
          /\ (Counted' <=> Counted) /\ (Counted => msg' = msg)
      BY <1>1 DEF Quiet, Hands, Consuming, resVars, consumedVars, historyVars
    <2> QED
      BY <2>1, TntsKept
  <1> QED
    BY <1>1, TntsCounting, TntsAccumulating, TntsDraining, TntsMsgDelivers, TntsElementDelivers,
       TntsRetiring, TntsRestarting DEF Kinds

-----------------------------------------------------------------------------
(***************************************************************************)
(* The theorems.                                                           *)
(***************************************************************************)
\* While the pending TNT bits fit the counter, the promise is kept.
LEMMA AlwaysTntOwed == ~TornEnd /\ Spec /\ []TntsFit => [](IInv /\ DrainOK /\ TntOwed)
  <1> SUFFICES ASSUME ~TornEnd PROVE Spec /\ []TntsFit => [](IInv /\ DrainOK /\ TntOwed)
    OBVIOUS
  <1>1. Init => DrainOK /\ TntOwed
    BY DEF Init, DrainOK, TntOwed, Sound
  <1>2. IInv /\ DrainOK /\ TntOwed /\ [Next]_vars /\ TntsFit' => DrainOK' /\ TntOwed'
    <2>1. ~Sound' => TntOwed'
      BY DEF TntOwed
    <2> QED
      BY <2>1, DrainStep, StepIsOfAKind, TntOwedStep
  <1> QED
    BY <1>1, <1>2, AlwaysIInv, PTL DEF Spec

\* For every stream that does not end right behind a branch, every failure and
\* every caller that takes the events it is told of, and as long as less than
\* 2^32 TNT bits are pending: res_tnts, consumed_tnts and the buffered message
\* hold exactly the bits that were promised and not delivered.
THEOREM TntsAlwaysConserved ==
    ~TornEnd /\ Disciplined /\ Spec /\ []TntsFit => []TntsConserved
  <1> SUFFICES ASSUME ~TornEnd, Disciplined PROVE Spec /\ []TntsFit => []TntsConserved
    OBVIOUS
  <1>1. IInv /\ DInv /\ TntOwed => TntsConserved
    <2> SUFFICES ASSUME IInv, DInv, TntOwed, Between PROVE TntsConserved
      BY DEF TntsConserved
    <2>1. Sound /\ pc = "idle"
      BY DEF Between, Sound
    <2>2. msg_present /\ ~Counted => ~has_hist(msg) /\ is_res(msg)
      BY <2>1 DEF DInv, ResHeld, Counted
    <2>3. is_res(msg) => Executions(msg) = 1
      BY BranchKinds DEF Executions
    <2>4. msg_present /\ ~Counted => BitsOf(msg) * Executions(msg) = 0
      BY <2>2, <2>3 DEF BitsOf
    <2>5. Counted => msg_present
      BY DEF Counted
    <2>6. MsgTnts = IF msg_present THEN BitsOf(msg) * Executions(msg) ELSE 0
      BY <2>4, <2>5 DEF MsgTnts
    <2>7. MsgTnts \in Nat
      BY MessageTnts DEF MsgTnts, IInv, DataOK
    <2>8. /\ consumed_tnts \in Nat /\ res_tnts \in Nat /\ Len(owedTnts) \in Nat
          /\ Len(owedTnts) + consumed_tnts = res_tnts + MsgTnts
      BY <2>1, DecoderAssumption DEF TntOwed, IInv, TntOK
    <2>9. Len(owedTnts) = res_tnts - consumed_tnts + MsgTnts
      BY <2>7, <2>8
    <2> QED
      BY <2>6, <2>9 DEF TntsConserved
  <1> QED
    BY <1>1, AlwaysDInv, AlwaysTntOwed, PTL

\* For every stream that does not end right behind a branch, every failure and
\* every caller, also one that ignores the events, and as long as less than
\* 2^32 TNT bits are pending: next_tnt delivers the bits in the order of the
\* stream, and none that no message promised.
THEOREM TntsAlwaysInOrder == ~TornEnd /\ Spec /\ []TntsFit => TntsInOrder
  <1> SUFFICES ASSUME ~TornEnd PROVE Spec /\ []TntsFit => TntsInOrder
    OBVIOUS
  <1> DEFINE A == pc = "drain" /\ pc' = "idle" /\ aborted' = "none"
                     => owedTnts # << >> /\ ret'.tnt = owedTnts[1]
  <1>1. IInv /\ DrainOK /\ TntOwed /\ [Next]_vars => [A]_vars
    <2> SUFFICES ASSUME IInv, DrainOK, TntOwed, Next, pc = "drain", pc' = "idle", aborted' = "none"
                 PROVE  owedTnts # << >> /\ ret'.tnt = owedTnts[1]
      OBVIOUS
    <2>1. op = "next_tnt" /\ Sound
      BY DEF DrainOK, IInv, ControlOK, Sound
    <2>2. TntFromMsg \/ TntFromElement
      <3>1. ~Calls /\ ~StackCalls /\ ~Stopped
        BY DEF Calls, Call, TakeUnsupported, StackCalls, PushCall, PopRet, Stopped
      <3>2. ~Fetches
        BY DEF Fetches, FetchExisting, FetchNew, LookAhead, LookAheadEnd, FetchEnd, FetchError
      <3>3. ~DrainEmpty /\ ~(PullKeeps \/ PullFails \/ PullRes) /\ ~(RetireSome \/ RetirePulls \/ RetireAll)
            /\ ~TntSeeks /\ ~TntFromBranch
        BY DEF DrainEmpty, Goto, PullKeeps, PullFails, PullRes, Pulling, RetireSome, RetirePulls,
               RetireAll, Retiring, TntSeeks, TntFromBranch, Branching
      <3>4. ~(NextIndirect \/ Owner \/ OwnerEnd \/ SyncSkip \/ SyncFound \/ NextSync \/ NextStop)
            /\ ~(ErrorDrops \/ ErrorDrains \/ ErrorRetires)
        BY DEF NextIndirect, TakesIndirect, Owner, OwnerEnd, SyncSkip, SyncFound, NextSync, NextStop,
               ErrorDrops, ErrorDrains, ErrorRetires
      <3> QED
        BY <3>1, <3>2, <3>3, <3>4 DEF Next, Steps
    <2>3. UNCHANGED <<msg, msg_present>>
      BY <2>2 DEF TntFromMsg, TntFromElement
    <2>4. Counted' <=> Counted
      BY <2>3 DEF Counted
    <2>5. MsgDelivers \/ ElementDelivers
      BY <2>1, <2>2, <2>4 DEF MsgDelivers, ElementDelivers
    <2> QED
      BY <2>5, FirstOwed
  <1>2. TntsInOrder <=> [][A]_vars
    BY DEF TntsInOrder
  <1> QED
    BY <1>1, <1>2, AlwaysTntOwed, PTL DEF Spec
=============================================================================
