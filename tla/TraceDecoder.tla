----------------------------- MODULE TraceDecoder -----------------------------
(***************************************************************************)
(* lib/trace-decoder.c: the trace decoder turns the messages of one source *)
(* into retired instructions and branch events.  ResourceFull messages are *)
(* gathered in res_icnt, res_tnts and res_hists; any other message is      *)
(* buffered in msg until its instructions and TNT bits are consumed and    *)
(* its event is taken by a call of the matching next_x function.           *)
(*                                                                         *)
(* A call of the API is a sequence of steps: `op' is the function, `pc'    *)
(* the place in it, and no other call starts before it has returned.  The  *)
(* message decoder below is the cursor of MsgCursor: TakeMsg is one call   *)
(* of nexusrv_msg_decoder_next, and a rewound message waits in `ahead'.    *)
(* Messages are chosen when they are read, so every stream is considered.  *)
(*                                                                         *)
(* The history variables owedIcnt, owedTnts and due say what the messages  *)
(* read since the last SYNC promise: instructions not yet retired, TNT     *)
(* bits not yet delivered, and the time and the address that are reached   *)
(* when all of them are retired.                                           *)
(***************************************************************************)
EXTENDS NexusMsg, FiniteSets

CONSTANTS
    Msgs,                        \* messages the streams are made of
    MaxMsgs,                     \* bound on the length of a stream
    MSG_ICNT_MAX,                \* the limits of trace-decoder.c:14-15 and
    MSG_HREPEAT_MAX,             \*   the C types, scaled down by the
    UINT32_MAX, INT32_MAX,       \*   instances
    HIST_BITS,                   \* width of HIST: 32 in the code
    AddrBits, WordBits,          \* hw_cfg->addr_bits; 64 in the code
    QuirkSifive,                 \* hw_cfg->quirk_sifive
    Requests,                    \* arguments of try_retire
    CallSites, MaxStack,         \* arguments of push_call; hw_cfg->max_stack
    WellFormed,                  \* the stream obeys the encoder rules below
    TornEnd,                     \* a stream may end right behind a branch
    Faults,                      \* reads and allocations may fail
    Disciplined                  \* the caller takes the events reported

\* What nexusrv_msg_decode can put into the structure (msg-types.h:102-152).
Messages == [tcode : Tcodes, code : Nat,
             icnt : 0 .. UINT32_MAX,
             hist : Seq({0, 1}), hrepeat : 0 .. UINT32_MAX,
             xaddr : SUBSET (0 .. WordBits - 1), ts : Nat]

ASSUME DecoderAssumption ==
    /\ MaxMsgs \in Nat
    /\ INT32_MAX \in Nat /\ UINT32_MAX \in Nat \ {0}
    /\ MSG_ICNT_MAX \in Nat /\ MSG_HREPEAT_MAX \in 0 .. UINT32_MAX
    /\ MSG_ICNT_MAX <= UINT32_MAX - MSG_ICNT_MAX
    /\ AddrBits \in Nat \ {0} /\ WordBits \in Nat \ {0}
    /\ HIST_BITS \in 2 .. UINT32_MAX
    /\ Requests \subseteq 0 .. UINT32_MAX
    /\ {QuirkSifive, WellFormed, TornEnd, Faults, Disciplined} \subseteq BOOLEAN
    /\ MaxStack \in Nat
    /\ Msgs \subseteq Messages
    /\ \A m \in Msgs : /\ Len(m.hist) <= HIST_BITS
                       /\ is_branch(m) => m.hrepeat = 0

VARIABLES
    msg, msg_present,                          \* nexusrv_trace_decoder
    res_hists, res_icnt, res_tnts,
    consumed_icnt, consumed_tnts,
    synced, full_addr, timestamp, callstack,
    ahead, left, prev, owing,                  \* the message stream
    op, pc, arg, more,                         \* the call in progress
    ret, aborted,                              \* how the last one ended
    owedIcnt, owedTnts, due               \* history

streamVars == <<ahead, left, prev, owing>>
historyVars == <<owedIcnt, owedTnts, due>>
resVars == <<res_hists, res_icnt, res_tnts>>
consumedVars == <<consumed_icnt, consumed_tnts>>
stateVars == <<synced, full_addr, callstack>>
vars == <<msg, msg_present, resVars, consumedVars, stateVars, timestamp,
          streamVars, op, pc, arg, more, ret, aborted, historyVars>>

NoMsg == [tcode |-> "Vendor", code |-> 0, icnt |-> 0, hist |-> << >>,
          hrepeat |-> 0, xaddr |-> {}, ts |-> 0]

\* nexusrv_trace_decoder_init on a fresh message decoder.
Init == /\ msg = NoMsg /\ msg_present = FALSE
        /\ res_hists = << >> /\ res_icnt = 0 /\ res_tnts = 0
        /\ consumed_icnt = 0 /\ consumed_tnts = 0
        /\ synced = FALSE /\ full_addr = {} /\ timestamp = 0 /\ callstack = << >>
        /\ ahead = << >> /\ left = MaxMsgs /\ prev = "none" /\ owing = FALSE
        /\ op = "none" /\ pc = "idle" /\ arg = 0 /\ more = FALSE
        /\ ret = [op |-> "none", rc |-> "ok"] /\ aborted = "none"
        /\ owedIcnt = 0 /\ owedTnts = << >> /\ due = [time |-> 0, addr |-> {}]

Least(a, b) == IF a < b THEN a ELSE b

Wrap(n) == n % (UINT32_MAX + 1)

\* How a call ends: with a result, or in a failed assert().
Return(r) == pc' = "idle" /\ ret' = r /\ aborted' = aborted
Fail(rc) == Return([op |-> op, rc |-> rc])
Abort(why) == pc' = "idle" /\ ret' = ret /\ aborted' = why
Goto(place) == pc' = place /\ UNCHANGED <<ret, aborted>>

-----------------------------------------------------------------------------
(***************************************************************************)
(* The message stream.  Rules a conforming encoder obeys (WellFormed):     *)
(* RepeatBranch and Ownership follow the branch they belong to, nothing is *)
(* sent that the decoder has no event for, a HIST field carries TNT bits,  *)
(* and (owing) an I-CNT ResourceFull is followed by TNT bits or an Error   *)
(* before the next event.                                                  *)
(***************************************************************************)
CarriesBits(m) == BitsOf(m) > 0 \/ (is_res(m) /\ m.code \in {8, 9})

EncoderRules(m) ==
    /\ m.tcode = "RepeatBranch" => prev \in Branches \ Syncs
    /\ m.tcode = "Ownership" => /\ prev \in IndirectBranches
                                /\ prev \notin Syncs \/ pc = "owner"
    /\ m.tcode \notin {"Idle", "ICT"}
    /\ is_res(m) => \/ m.code = 0 /\ m.icnt <= MSG_ICNT_MAX
                    \/ m.code \in {1, 2} /\ BitsOf(m) > 0
                    \/ m.code \in {8, 9} /\ QuirkSifive /\ m.icnt > 0
    /\ owing /\ (is_branch(m) \/ is_sync(m) \/ is_stop(m)) => CarriesBits(m)

\* A stream that does not end behind a branch is closed by a Stop or an Error
\* when its bound is reached there.
Closing(m) == /\ ~TornEnd
              /\ pc \in {"lookahead", "owner"}
              /\ is_stop(m) \/ is_error(m)

Arrives(m) == /\ left > 0 \/ Closing(m)
              /\ WellFormed => EncoderRules(m)
              /\ left' = IF left > 0 THEN left - 1 ELSE 0
              /\ prev' = m.tcode
              /\ owing' = IF is_res(m) /\ m.code = 0 THEN TRUE
                          ELSE owing /\ ~CarriesBits(m) /\ ~is_error(m)

\* nexusrv_msg_decoder_next returns m, or the end of the stream.
TakeMsg(m) == IF ahead # << >> THEN m = ahead[1] /\ UNCHANGED <<left, prev, owing>>
                               ELSE Arrives(m)
AtEnd == /\ ahead = << >>
         /\ pc \in {"lookahead", "owner"} => TornEnd
         /\ left' = 0
         /\ UNCHANGED <<ahead, prev, owing>>

-----------------------------------------------------------------------------
(***************************************************************************)
(* nexusrv_trace_retire_timestamp: SiFive timestamps are exclusive-ored    *)
(* once (two bits suffice to tell that from an addition), others are added *)
(* each time.                                                              *)
(***************************************************************************)
XorBit(a, b, i) == ((a \div i + b \div i) % 2) * i
Xor(a, b) == XorBit(a, b, 1) + XorBit(a, b, 2)

SpentNever(delta) == delta   \* mutant: a SiFive delta counts in every repetition
Later(t, delta) == IF QuirkSifive THEN Xor(t, delta) ELSE t + delta
Spent(delta) == IF QuirkSifive THEN 0 ELSE delta

\* Addresses are sets of bits.
XorSet(a, b) == (a \ b) \cup (b \ a)

\* What is still to be consumed (available_icnt, available_tnts), and the
\* assertions on the way.
AvailableIcnt == Wrap(res_icnt + (IF msg_present THEN IcntOf(msg) ELSE 0)) - consumed_icnt
AvailableTnts == Wrap(res_tnts + (IF msg_present THEN BitsOf(msg) ELSE 0)) - consumed_tnts

ResAssert == IF msg_present /\ is_res(msg) THEN "available_res" ELSE "none"
IcntAssert == IF ResAssert = "none" /\ AvailableIcnt < 0 THEN "available_icnt" ELSE ResAssert
TntsAssert == IF ResAssert = "none" /\ AvailableTnts < 0 THEN "available_tnts" ELSE ResAssert

\* history: message m is read, to be executed reps times.
Repeated(bits, n) == [i \in 1 .. Len(bits) * n |-> bits[((i - 1) % Len(bits)) + 1]]
TntsIn(h) == IF h = << >> THEN << >> ELSE Tail(h)

Owe(m, reps) ==
    /\ owedIcnt' = owedIcnt + IcntOf(m) * reps
    /\ owedTnts' = IF has_hist(m) /\ synced
                      THEN owedTnts \o Repeated(TntsIn(m.hist), reps) ELSE owedTnts
    /\ due' = IF is_sync(m) THEN [time |-> m.ts, addr |-> m.xaddr]
              ELSE [time |-> Later(due.time, m.ts),
                    addr |-> IF is_indir_branch(m) THEN XorSet(due.addr, m.xaddr) ELSE due.addr]

-----------------------------------------------------------------------------
(***************************************************************************)
(* The caller.  A disciplined one synchronizes first, retires, and takes   *)
(* each event by one of the functions trace-decoder.h:29-50 names for it;  *)
(* when next_sync refuses the sync of a branch it takes the branch.  After *)
(* an unsupported message it takes that message itself and calls again.    *)
(* Any caller stops at the end of the trace and after a hard error         *)
(* (trace-decoder.h:52-81).                                                *)
(***************************************************************************)
Takes(event) ==
    CASE event = "None" -> {"try_retire", "next_tnt"}
      [] event = "Direct" -> {"next_tnt"}
      [] event = "DirectSync" -> {"next_tnt", "next_sync"}
      [] event \in {"Indirect", "Trap"} -> {"next_indirect"}
      [] event = "IndirectSync" -> {"next_indirect", "next_sync"}
      [] event = "Sync" -> {"next_sync"}
      [] event = "Stop" -> {"next_stop"}
      [] event = "Error" -> {"next_error"}

Alive == /\ aborted = "none"
         /\ ret.rc \in {"ok", "synced", "not_synced", "mismatch", "unsupported", "retry"}

\* The sync of a branch was refused; the caller was told which branch it is.
SyncRefused == ret.op = "next_sync" /\ ret.rc = "mismatch"
TakesBranch == IF is_indir_branch(msg) THEN {"next_indirect"} ELSE {"next_tnt"}

MayCall(f) ==
    \/ ~Disciplined
    \/ /\ Disciplined /\ ret.rc # "unsupported"
       /\ f \in IF ret.rc = "retry" THEN {ret.op}
                ELSE IF SyncRefused THEN TakesBranch
                ELSE IF ~synced THEN {"sync_reset"}
                ELSE IF ret.op = "try_retire" THEN Takes(ret.event)
                ELSE {"try_retire"}

Functions == {"sync_reset", "try_retire", "next_tnt", "next_indirect",
              "next_sync", "next_error", "next_stop"}

\* Entry of the API functions: sync_reset does nothing when synchronized, the
\* others refuse when not.
Call(f, n) ==
    /\ pc = "idle" /\ Alive /\ MayCall(f)
    /\ op' = f /\ arg' = Least(n, INT32_MAX) /\ more' = TRUE
    /\ IF synced = (f = "sync_reset")
          THEN Return([op |-> f, rc |-> IF synced THEN "synced" ELSE "not_synced"])
          ELSE Goto(IF f \in {"try_retire", "next_tnt"} THEN "loop" ELSE "fetch")
    /\ UNCHANGED <<msg, msg_present, resVars, consumedVars, stateVars, timestamp,
                   streamVars, historyVars>>

\* The caller takes an unsupported message (nexusrv_msg_decoder_next) and
\* hands its timestamp back (nexusrv_trace_add_timestamp).
TakeUnsupported ==
    /\ pc = "idle" /\ aborted = "none" /\ ret.rc = "unsupported"
    /\ \/ \E m \in Msgs : /\ TakeMsg(m)
                          /\ ahead' = << >>
                          /\ timestamp' = Later(timestamp, m.ts)
                          /\ due' = [due EXCEPT !.time = Later(due.time, m.ts)]
                          /\ ret' = [ret EXCEPT !.rc = "retry"]
       \/ /\ AtEnd
          /\ ret' = [ret EXCEPT !.rc = "eof"]
          /\ UNCHANGED <<timestamp, due>>
    /\ UNCHANGED <<msg, msg_present, resVars, consumedVars, stateVars,
                   op, pc, arg, more, aborted, owedIcnt, owedTnts>>

\* push_call and pop_ret; the stack is the one ReturnStack implements.
Stack == INSTANCE BoundedStack WITH
             Addr <- CallSites, limit <- MaxStack, stack <- callstack, answer <- ret

PushCall(a) == /\ pc = "idle" /\ Alive
               /\ callstack' = Stack!PushOn(callstack, a)
               /\ UNCHANGED <<msg, msg_present, resVars, consumedVars, synced, full_addr,
                              timestamp, streamVars, op, pc, arg, more, ret, aborted,
                              historyVars>>

PopRet == /\ pc = "idle" /\ Alive
          /\ callstack # << >>
          /\ callstack' = Stack!PopOff(callstack)
          /\ UNCHANGED <<msg, msg_present, resVars, consumedVars, synced, full_addr,
                         timestamp, streamVars, op, pc, arg, more, ret, aborted,
                         historyVars>>

-----------------------------------------------------------------------------
(***************************************************************************)
(* nexusrv_trace_fetch_msg.                                                *)
(***************************************************************************)
check_msg(m) == /\ known(m)
                /\ ~is_data_acq(m)
                /\ has_icnt(m) => m.icnt <= MSG_ICNT_MAX
                /\ has_hist(m) => m.hist # << >> /\ m.hrepeat <= MSG_HREPEAT_MAX

LooksAhead(m) == is_branch(m) /\ ~is_sync(m)

untouched == <<resVars, consumedVars, stateVars, timestamp, op, arg, more>>

FetchExisting == /\ pc = "fetch" /\ msg_present
                 /\ Goto("got")
                 /\ UNCHANGED <<msg, msg_present, untouched, streamVars, historyVars>>

FetchNew == /\ pc = "fetch" /\ ~msg_present
            /\ \E m \in Msgs :
                 /\ TakeMsg(m)
                 /\ msg' = IF LooksAhead(m) THEN [m EXCEPT !.hrepeat = 0] ELSE m
                 /\ msg_present' = check_msg(m)
                 /\ IF check_msg(m)
                      THEN /\ ahead' = << >>
                           /\ Goto(IF LooksAhead(m) THEN "lookahead" ELSE "got")
                           /\ IF LooksAhead(m) \/ is_res(m)
                                 THEN UNCHANGED historyVars ELSE Owe(m, 1)
                      ELSE /\ ahead' = <<m>>
                           /\ Fail("unsupported")
                           /\ UNCHANGED historyVars
            /\ UNCHANGED untouched

\* The next message tells whether the branch is repeated; any other message is
\* rewound.
LookAhead == /\ pc = "lookahead"
             /\ \E m \in Msgs :
                  /\ TakeMsg(m)
                  /\ ahead' = IF m.tcode = "RepeatBranch" THEN << >> ELSE <<m>>
                  /\ msg' = IF m.tcode = "RepeatBranch"
                               THEN [msg EXCEPT !.hrepeat = m.hrepeat] ELSE msg
                  /\ Owe(msg, IF m.tcode = "RepeatBranch" THEN m.hrepeat + 1 ELSE 1)
             /\ Goto("got")
             /\ UNCHANGED <<msg_present, untouched>>

\* At the end of the stream msg2 is not written, or holds the last message of
\* another source; it is examined all the same.
LookAheadEnd == /\ pc = "lookahead"
                /\ AtEnd
                /\ \E h \in 0 .. UINT32_MAX : msg' = [msg EXCEPT !.hrepeat = h]
                /\ Owe(msg, 1)
                /\ Goto("got")
                /\ UNCHANGED <<msg_present, untouched>>

FetchEnd == /\ pc = "fetch" /\ ~msg_present
            /\ AtEnd
            /\ Fail("eof")
            /\ UNCHANGED <<msg, msg_present, untouched, historyVars>>

\* A failed read, in the fetch or behind a branch already buffered.
FetchError == /\ Faults
              /\ pc \in {"fetch", "lookahead", "owner"}
              /\ pc = "fetch" => ~msg_present
              /\ ahead = << >>
              /\ Fail("stream_error")
              /\ UNCHANGED <<msg, msg_present, untouched, streamVars, historyVars>>

-----------------------------------------------------------------------------
(***************************************************************************)
(* nexusrv_trace_pull_msg, behind the fetch.                               *)
(***************************************************************************)
Pulling == pc = "got" /\ op \in {"try_retire", "next_tnt"}

\* The message is not a ResourceFull: it stays buffered.
PullKeeps == /\ Pulling /\ ~is_res(msg)
             /\ more' = FALSE
             /\ Goto("loop")
             /\ UNCHANGED <<msg, msg_present, resVars, consumedVars, stateVars, timestamp,
                            op, arg, streamVars, historyVars>>

SifiveRepeat(m) == QuirkSifive /\ m.code \in {8, 9} /\ m.icnt # 0

ElementHist(m) == CASE has_hist(m) -> m.hist
                    [] SifiveRepeat(m) -> IF m.code = 8 THEN <<1, 0>> ELSE <<1, 1>>
                    [] OTHER -> << >>

ElementRepeat(m) == CASE has_hist(m) /\ m.hrepeat # 0 -> m.hrepeat
                      [] SifiveRepeat(m) -> m.icnt
                      [] OTHER -> 1

IcntOverflowLate(n) == n > UINT32_MAX   \* mutant: no room is left for the next message
IcntOverflow(n) == n > UINT32_MAX - MSG_ICNT_MAX

PullError == CASE Len(res_hists) >= MSG_ICNT_MAX -> "hist_overflow"
               [] has_icnt(msg) /\ IcntOverflow(Wrap(res_icnt + msg.icnt)) -> "icnt_overflow"
               [] ~has_icnt(msg) /\ ~has_hist(msg) /\ ~SifiveRepeat(msg) -> "unsupported"
               [] OTHER -> "none"

IcntPulled == IF has_icnt(msg) /\ PullError # "hist_overflow"
                 THEN Wrap(res_icnt + msg.icnt) ELSE res_icnt

\* The ResourceFull is refused; it stays buffered.
PullFails == /\ Pulling /\ is_res(msg)
             /\ res_icnt' = IcntPulled
             /\ \/ PullError # "none" /\ Fail(PullError)
                \/ PullError = "none" /\ Faults /\ Fail("no_mem")
             /\ UNCHANGED <<msg, msg_present, res_hists, res_tnts, consumedVars, stateVars,
                            timestamp, op, arg, more, streamVars, historyVars>>

\* The ResourceFull is accumulated and consumed.
PullRes == /\ Pulling /\ is_res(msg) /\ PullError = "none"
           /\ res_icnt' = IcntPulled
           /\ LET h == ElementHist(msg)
                  n == ElementRepeat(msg)
              IN  /\ res_hists' = Append(res_hists, [hist |-> h, repeat |-> n, ts |-> msg.ts])
                  /\ res_tnts' = Wrap(res_tnts + Wrap(n * hist_bits(h)))
                  /\ owedTnts' = owedTnts \o Repeated(TntsIn(h), n)
           /\ owedIcnt' = owedIcnt + IcntOf(msg)
           /\ due' = [due EXCEPT !.time = Later(due.time, msg.ts)]
           /\ msg_present' = FALSE
           /\ Goto("loop")
           /\ UNCHANGED <<msg, consumedVars, stateVars, timestamp, op, arg, more, streamVars>>

-----------------------------------------------------------------------------
(***************************************************************************)
(* nexusrv_trace_retire_msg: its assertions, then its effect on the        *)
(* buffered message m, given the address fa tracked so far.                *)
(***************************************************************************)
RetireAssert == CASE ~msg_present \/ is_res(msg) -> "retire_msg"
                  [] res_icnt # 0 -> "retire_res_icnt"
                  [] res_hists # << >> -> "retire_res_hists"
                  [] consumed_icnt # IcntOf(msg) -> "retire_icnt"
                  [] consumed_tnts # BitsOf(msg) -> "retire_tnts"
                  [] is_branch(msg) /\ is_sync(msg) /\ msg.hrepeat # 0 -> "retire_hrepeat"
                  [] OTHER -> "none"

\* A branch with sync is downgraded to the plain sync it carries, a repeated
\* branch is executed again, anything else leaves the buffer.
MsgRetired(m) == IF is_branch(m) /\ is_sync(m)
                    THEN [m EXCEPT !.tcode = "ProgTraceSync", !.icnt = 0, !.hist = << >>]
                 ELSE IF is_sync(m) THEN m
                 ELSE [m EXCEPT !.ts = Spent(m.ts),
                                !.hrepeat = IF is_branch(m) /\ m.hrepeat # 0
                                               THEN m.hrepeat - 1 ELSE m.hrepeat]

\* mutant: RepeatBranch is ignored
StaysBufferedOnce(m) == is_branch(m) /\ is_sync(m)
StaysBuffered(m) == is_branch(m) /\ (is_sync(m) \/ m.hrepeat # 0)

\* mutant: the consumed counters survive the message
RetireMsgKeepsConsumed(m, fa) ==
    /\ msg' = MsgRetired(m)
    /\ msg_present' = StaysBuffered(m)
    /\ UNCHANGED consumedVars
    /\ timestamp' = IF is_sync(m) THEN m.ts ELSE Later(timestamp, m.ts)
    /\ full_addr' = IF is_sync(m) /\ ~is_branch(m) THEN m.xaddr ELSE fa
    /\ callstack' = IF is_sync(m) /\ ~is_branch(m) THEN << >> ELSE callstack
RetireMsg(m, fa) ==
    /\ msg' = MsgRetired(m)
    /\ msg_present' = StaysBuffered(m)
    /\ consumed_icnt' = 0 /\ consumed_tnts' = 0
    /\ timestamp' = IF is_sync(m) THEN m.ts ELSE Later(timestamp, m.ts)
    /\ full_addr' = IF is_sync(m) /\ ~is_branch(m) THEN m.xaddr ELSE fa
    /\ callstack' = IF is_sync(m) /\ ~is_branch(m) THEN << >> ELSE callstack

-----------------------------------------------------------------------------
(***************************************************************************)
(* nexusrv_trace_try_retire: the loop, with the pulls in between.          *)
(***************************************************************************)
Retiring == pc = "loop" /\ op = "try_retire"

\* mutant: res_icnt underflows
ConsumeIcntUnsplit(n) ==
    /\ res_icnt' = res_icnt - n
    /\ owedIcnt' = owedIcnt - n
    /\ UNCHANGED consumed_icnt
ConsumeIcnt(n) ==
    /\ res_icnt' = IF res_icnt >= n THEN res_icnt - n ELSE 0
    /\ consumed_icnt' = IF res_icnt >= n THEN consumed_icnt
                                         ELSE consumed_icnt + (n - res_icnt)
    /\ owedIcnt' = owedIcnt - n

ConsumeAssert(n) == CASE IcntAssert # "none" -> IcntAssert
                      [] res_icnt # 0 /\ consumed_icnt # 0 -> "consume_icnt"
                      [] res_icnt < n /\ ~msg_present -> "consume_msg"
                      [] OTHER -> "none"

\* mutants: indirect branches are reported as direct ones; Stop has no event
EventOfAnyBranch(m) ==
    CASE is_error(m) -> "Error"
      [] ~is_error(m) /\ (AvailableTnts # 0 \/ is_branch(m)) -> "Direct"
      [] is_sync(m) /\ ~is_branch(m) /\ AvailableTnts = 0 -> "Sync"
      [] is_stop(m) /\ AvailableTnts = 0 -> "Stop"
      [] OTHER -> "None"
EventOfNoStop(m) ==
    CASE is_error(m) -> "Error"
      [] ~is_error(m) /\ AvailableTnts # 0 -> "Direct"
      [] is_branch(m) /\ AvailableTnts = 0 ->
            IF is_indir_branch(m) THEN "Indirect" ELSE "Direct"
      [] is_sync(m) /\ ~is_branch(m) /\ AvailableTnts = 0 -> "Sync"
      [] OTHER -> "None"

\* The event reported when all instructions in front of it are retired.
EventOf(m) ==
    CASE is_error(m) -> "Error"
      [] ~is_error(m) /\ AvailableTnts # 0 -> "Direct"
      [] is_indir_branch(m) /\ AvailableTnts = 0 ->
            IF m.code # 0 THEN "Trap" ELSE IF is_sync(m) THEN "IndirectSync" ELSE "Indirect"
      [] is_branch(m) /\ ~is_indir_branch(m) /\ AvailableTnts = 0 ->
            IF is_sync(m) THEN "DirectSync" ELSE "Direct"
      [] is_sync(m) /\ ~is_branch(m) /\ AvailableTnts = 0 -> "Sync"
      [] is_stop(m) /\ AvailableTnts = 0 -> "Stop"
      [] OTHER -> "None"

\* The assertions met while the event is determined.
EventAssert == IF is_error(msg) THEN "none"
               ELSE IF AvailableTnts = 0 /\ has_hist(msg) /\ consumed_tnts # BitsOf(msg)
                       THEN "event_hist"
               ELSE TntsAssert

\* Retire n instructions and return them with an event.
RetireReturns(n, event, failed) ==
    IF failed # "none"
       THEN /\ Abort(failed)
            /\ UNCHANGED <<res_icnt, consumed_icnt, owedIcnt>>
       ELSE /\ ConsumeIcnt(n)
            /\ Return([op |-> op, rc |-> "ok", event |-> event])

\* More instructions are available than asked for.
RetireSome == /\ Retiring
              /\ arg < AvailableIcnt
              /\ RetireReturns(arg, "None", ConsumeAssert(arg))
              /\ UNCHANGED <<msg, msg_present, res_hists, res_tnts, consumed_tnts, stateVars,
                             timestamp, op, arg, more, streamVars, owedTnts, due>>

\* Not enough: pull the next message.  A buffered ResourceFull fails the
\* assertion of available_icnt before anything else.
RetirePulls == /\ Retiring
               /\ arg >= AvailableIcnt /\ more
               /\ IF IcntAssert # "none" THEN Abort(IcntAssert) ELSE Goto("fetch")
               /\ UNCHANGED <<msg, msg_present, untouched, streamVars, historyVars>>

\* Stopped at a message: retire what there is and report the event.
RetireAll == /\ Retiring
             /\ arg >= AvailableIcnt /\ ~more
             /\ RetireReturns(AvailableIcnt, EventOf(msg),
                     IF ConsumeAssert(AvailableIcnt) # "none"
                        THEN ConsumeAssert(AvailableIcnt) ELSE EventAssert)
             /\ UNCHANGED <<msg, msg_present, res_hists, res_tnts, consumed_tnts, stateVars,
                            timestamp, op, arg, more, streamVars, owedTnts, due>>

-----------------------------------------------------------------------------
(***************************************************************************)
(* nexusrv_trace_next_tnt and nexusrv_trace_consume_tnt.                   *)
(***************************************************************************)
Branching == pc = "loop" /\ op = "next_tnt"

TntSeeks == /\ Branching
            /\ TntsAssert # "none" \/ AvailableTnts # 0 \/ more
            /\ IF TntsAssert # "none" THEN Abort(TntsAssert)
               ELSE Goto(IF AvailableTnts # 0 THEN "drain" ELSE "fetch")
            /\ UNCHANGED <<msg, msg_present, untouched, streamVars, historyVars>>

EmptyInFrontIgnored == FALSE   \* mutant: elements without TNT bits are not drained
\* Elements of I-CNT ResourceFull messages only carry time.
EmptyInFront == res_hists # << >> /\ res_hists[1].hist = << >>

\* mutant: the time of a drained element is lost
DrainEmptyUntimed == /\ pc = "drain" /\ EmptyInFront
                     /\ res_hists' = Tail(res_hists)
                     /\ Goto("drain")
                     /\ UNCHANGED <<msg, msg_present, res_icnt, res_tnts, consumedVars,
                                    stateVars, timestamp, op, arg, more, streamVars,
                                    historyVars>>
DrainEmpty == /\ pc = "drain" /\ EmptyInFront
              /\ timestamp' = Later(timestamp, res_hists[1].ts)
              /\ res_hists' = Tail(res_hists)
              /\ Goto("drain")
              /\ UNCHANGED <<msg, msg_present, res_icnt, res_tnts, consumedVars, stateVars,
                             op, arg, more, streamVars, historyVars>>

Drained == pc = "drain" /\ ~EmptyInFront

TntAtLsbFirst(h, used) == h[Len(h) - used]   \* mutant
\* The TNT bit behind the stop bit and the `used' bits already delivered.
TntAt(h, used) == h[used + 2]

\* A TNT bit is returned; history: it is no longer owed.
Deliver(bit) == /\ Return([op |-> op, rc |-> "ok", tnt |-> bit])
                /\ owedTnts' = IF owedTnts = << >> THEN << >> ELSE Tail(owedTnts)

\* ... from the buffered message, which is not retired,
TntFromMsg == /\ Drained /\ res_tnts = 0
              /\ IF ~msg_present \/ BitsOf(msg) <= consumed_tnts
                    THEN /\ Abort("tnt_msg")
                         /\ UNCHANGED <<consumed_tnts, owedTnts>>
                    ELSE /\ Deliver(TntAt(msg.hist, consumed_tnts))
                         /\ consumed_tnts' = consumed_tnts + 1
              /\ UNCHANGED <<msg, msg_present, resVars, consumed_icnt, stateVars, timestamp,
                             op, arg, more, streamVars, owedIcnt, due>>

\* ... or from the oldest accumulated HIST, which is executed `repeat' times.
ElementUsed(e) == IF e.repeat = 1 THEN Tail(res_hists)
                  ELSE <<[e EXCEPT !.repeat = e.repeat - 1, !.ts = Spent(e.ts)]>>
                           \o Tail(res_hists)

TntFromElement ==
    /\ Drained /\ res_tnts # 0
    /\ IF \/ res_hists = << >>
          \/ hist_bits(res_hists[1].hist) <= consumed_tnts
          \/ /\ hist_bits(res_hists[1].hist) = consumed_tnts + 1
             /\ res_tnts < hist_bits(res_hists[1].hist)
          THEN /\ Abort("tnt_element")
               /\ UNCHANGED <<res_hists, res_tnts, consumed_tnts, timestamp, owedTnts>>
          ELSE LET e == res_hists[1]
                   bits == hist_bits(e.hist)
               IN  /\ Deliver(TntAt(e.hist, consumed_tnts))
                   /\ IF bits # consumed_tnts + 1
                         THEN /\ consumed_tnts' = consumed_tnts + 1
                              /\ UNCHANGED <<res_hists, res_tnts, timestamp>>
                         ELSE /\ consumed_tnts' = 0
                              /\ timestamp' = Later(timestamp, e.ts)
                              /\ res_tnts' = res_tnts - bits
                              /\ res_hists' = ElementUsed(e)
    /\ UNCHANGED <<msg, msg_present, res_icnt, consumed_icnt, stateVars, op, arg, more,
                   streamVars, owedIcnt, due>>

\* No TNT bits: in front of the pending message the branch is not taken, at a
\* direct branch it is taken and the message retired.
TntFromBranch ==
    /\ Branching /\ TntsAssert = "none" /\ AvailableTnts = 0 /\ ~more
    /\ IF AvailableIcnt = 0 /\ msg.tcode \in DirectBranches /\ RetireAssert = "none"
          THEN /\ RetireMsg(msg, full_addr)
               /\ Return([op |-> op, rc |-> "ok", tnt |-> 1])
          ELSE /\ CASE IcntAssert # "none" -> Abort(IcntAssert)
                    [] AvailableIcnt > 0 -> Return([op |-> op, rc |-> "ok", tnt |-> 0])
                    [] AvailableIcnt = 0 /\ msg.tcode \notin DirectBranches -> Fail("mismatch")
                    [] OTHER -> Abort(RetireAssert)
               /\ UNCHANGED <<msg, msg_present, consumedVars, full_addr, callstack, timestamp>>
    /\ UNCHANGED <<resVars, synced, op, arg, more, streamVars, historyVars>>

-----------------------------------------------------------------------------
(***************************************************************************)
(* The events at the buffered message.  Each function first insists that   *)
(* nothing in front of the message is left; a mismatch leaves everything   *)
(* as it is.                                                               *)
(***************************************************************************)
\* An event of kind `pending' is refused: why, or "none" when it is there.
Refusal(pending) ==
    CASE IcntAssert # "none" -> IcntAssert
      [] IcntAssert = "none" /\ AvailableIcnt # 0 -> "mismatch"
      [] IcntAssert = "none" /\ AvailableIcnt = 0 /\ TntsAssert # "none" -> TntsAssert
      [] IcntAssert = "none" /\ TntsAssert = "none" /\ AvailableIcnt = 0
            /\ (AvailableTnts # 0 \/ ~pending) -> "mismatch"
      [] OTHER -> RetireAssert

Refuse(why) == /\ IF why = "mismatch" THEN Fail("mismatch") ELSE Abort(why)
               /\ UNCHANGED <<msg, msg_present, consumedVars, stateVars, timestamp>>

\* A shift by one, and the extension of the sign.
ShiftLeft(a) == { b + 1 : b \in a } \cap 0 .. WordBits - 1
extend_addr_bits(a) == IF AddrBits < WordBits /\ AddrBits - 1 \in a
                          THEN a \cup AddrBits .. WordBits - 1 ELSE a

AddressKept(m) == m   \* mutant: U-ADDR is applied in every repetition
\* U-ADDR is applied once.
AddressUsed(m) == IF is_sync(m) THEN m ELSE [m EXCEPT !.xaddr = {}]

TakesIndirect == pc = "got" /\ op = "next_indirect"

NextIndirect ==
    /\ TakesIndirect
    /\ LET why == Refusal(is_indir_branch(msg))
           fa  == IF is_sync(msg) THEN msg.xaddr ELSE XorSet(full_addr, msg.xaddr)
       IN  IF why # "none" THEN Refuse(why)
           ELSE /\ RetireMsg(AddressUsed(msg), fa)
                /\ synced' = synced
                /\ pc' = "owner" /\ aborted' = aborted
                /\ ret' = [op |-> op, rc |-> "ok",
                           target |-> extend_addr_bits(ShiftLeft(fa)),
                           interrupt |-> msg.code \in {1, 3},
                           exception |-> msg.code \in {1, 2},
                           ownership |-> FALSE]
    /\ UNCHANGED <<resVars, op, arg, more, streamVars, historyVars>>

\* The message behind an indirect branch may be its OWNERSHIP.
Owner == /\ pc = "owner"
         /\ \E m \in Msgs :
              /\ TakeMsg(m)
              /\ ahead' = IF m.tcode = "Ownership" THEN << >> ELSE <<m>>
              /\ Return([ret EXCEPT !.ownership = m.tcode = "Ownership"])
         /\ UNCHANGED <<msg, msg_present, untouched, historyVars>>

\* As in LookAheadEnd, msg2 is examined at the end of the stream.
OwnerEnd == /\ pc = "owner"
            /\ AtEnd
            /\ \E b \in BOOLEAN : Return([ret EXCEPT !.ownership = b])
            /\ UNCHANGED <<msg, msg_present, untouched, historyVars>>

(***************************************************************************)
(* nexusrv_trace_sync_reset skips to a sync, drops what was accumulated    *)
(* and goes on as nexusrv_trace_next_sync.                                 *)
(***************************************************************************)
SyncSkip == /\ pc = "got" /\ op = "sync_reset" /\ ~is_sync(msg)
            /\ msg_present' = FALSE
            /\ Goto("fetch")
            /\ UNCHANGED <<msg, untouched, streamVars, historyVars>>

SyncFound == /\ pc = "got" /\ op = "sync_reset" /\ is_sync(msg)
             /\ res_hists' = << >> /\ res_tnts' = 0 /\ res_icnt' = 0
             /\ consumed_tnts' = 0 /\ consumed_icnt' = 0
             /\ synced' = TRUE
             /\ msg' = [msg EXCEPT !.tcode = "ProgTraceSync", !.icnt = 0]
             /\ owedIcnt' = 0 /\ owedTnts' = << >> /\ due' = [time |-> msg.ts, addr |-> msg.xaddr]
             /\ owing' = FALSE
             /\ Goto("sync")
             /\ UNCHANGED <<msg_present, full_addr, callstack, timestamp, op, arg, more,
                            ahead, left, prev>>

NextSync ==
    /\ \/ pc = "got" /\ op = "next_sync"
       \/ pc = "sync"
    /\ LET why == Refusal(is_sync(msg) /\ ~is_branch(msg))
       IN  IF why # "none" THEN Refuse(why)
           ELSE /\ RetireMsg(msg, full_addr)
                /\ synced' = synced
                /\ Return([op |-> op, rc |-> "ok",
                           addr |-> extend_addr_bits(ShiftLeft(msg.xaddr))])
    /\ UNCHANGED <<resVars, op, arg, more, streamVars, historyVars>>

NextStop ==
    /\ pc = "got" /\ op = "next_stop"
    /\ LET why == Refusal(is_stop(msg))
       IN  IF why # "none" THEN Refuse(why)
           ELSE /\ RetireMsg(msg, full_addr)
                /\ synced' = FALSE
                /\ Return([op |-> op, rc |-> "ok"])
    /\ UNCHANGED <<resVars, op, arg, more, streamVars, historyVars>>

(***************************************************************************)
(* nexusrv_trace_next_error: what was accumulated is lost, except its time.*)
(***************************************************************************)
ErrorDrops == /\ pc = "got" /\ op = "next_error"
              /\ IF is_error(msg)
                    THEN /\ res_icnt' = 0 /\ res_tnts' = 0
                         /\ consumed_icnt' = 0 /\ consumed_tnts' = 0
                         /\ owedIcnt' = 0 /\ owedTnts' = << >>
                         /\ Goto("error")
                    ELSE /\ Fail("mismatch")
                         /\ UNCHANGED <<res_icnt, res_tnts, consumedVars, owedIcnt, owedTnts>>
              /\ UNCHANGED <<msg, msg_present, res_hists, stateVars, timestamp, op, arg, more,
                             streamVars, due>>

ErrorDrains == /\ pc = "error" /\ res_hists # << >>
               /\ timestamp' = Later(timestamp, res_hists[1].ts)
               /\ res_hists' = Tail(res_hists)
               /\ Goto("error")
               /\ UNCHANGED <<msg, msg_present, res_icnt, res_tnts, consumedVars, stateVars,
                              op, arg, more, streamVars, historyVars>>

ErrorRetires == /\ pc = "error" /\ res_hists = << >>
                /\ RetireMsg(msg, full_addr)
                /\ synced' = FALSE
                /\ Return([op |-> op, rc |-> "ok"])
                /\ UNCHANGED <<resVars, op, arg, more, streamVars, historyVars>>

-----------------------------------------------------------------------------
\* The trace is over, or decoding has been given up.
Stopped == /\ pc = "idle" /\ ~Alive
           /\ UNCHANGED vars

Calls == \/ \E n \in Requests : Call("try_retire", n)
         \/ \E f \in Functions \ {"try_retire"} : Call(f, 0)
         \/ TakeUnsupported

StackCalls == (\E a \in CallSites : PushCall(a)) \/ PopRet

Fetches == \/ FetchExisting \/ FetchNew \/ LookAhead \/ LookAheadEnd
           \/ FetchEnd \/ FetchError

Steps == \/ Fetches
         \/ PullKeeps \/ PullFails \/ PullRes
         \/ RetireSome \/ RetirePulls \/ RetireAll
         \/ TntSeeks \/ DrainEmpty \/ TntFromMsg \/ TntFromElement \/ TntFromBranch
         \/ NextIndirect \/ Owner \/ OwnerEnd
         \/ SyncSkip \/ SyncFound \/ NextSync
         \/ NextStop
         \/ ErrorDrops \/ ErrorDrains \/ ErrorRetires

Next == Calls \/ StackCalls \/ Steps \/ Stopped

Spec == Init /\ [][Next]_vars

\* A call runs to its end, and the caller goes on as long as the trace does.
FairSpec == Spec /\ WF_vars(Steps) /\ WF_vars(Calls)

-----------------------------------------------------------------------------
(***************************************************************************)
(* Properties.                                                             *)
(***************************************************************************)
Element == [hist : Seq({0, 1}), repeat : 1 .. UINT32_MAX, ts : Nat]

\* The fields keep their C types: I-CNT and TNT counters stay in 32 bits, and
\* consumed_tnts, of 8 bits only (trace-decoder.h:187), below the bits of a HIST.
TypeOK == /\ msg_present \in BOOLEAN
          /\ msg \in Messages
          /\ res_hists \in Seq(Element)
          /\ {res_icnt, res_tnts, consumed_icnt} \subseteq 0 .. UINT32_MAX
          /\ consumed_tnts \in 0 .. HIST_BITS - 1
          /\ synced \in BOOLEAN
          /\ full_addr \subseteq 0 .. WordBits - 1
          /\ timestamp \in Nat
          /\ callstack \in Seq(CallSites) /\ Len(callstack) <= MaxStack

\* How often the buffered message is still to be executed.
Executions(m) == IF is_branch(m) /\ ~is_sync(m) THEN m.hrepeat + 1 ELSE 1

Between == pc = "idle" /\ Alive /\ synced

\* No assert() of trace-decoder.c fails.
AssertionsHold == aborted = "none"

\* Whatever the stream and whatever the caller, even one that ignores the
\* events, misuses the next_x functions or goes on after a mismatch: the
\* assertions about I-CNT hold (trace-decoder.c:165, 170-177, 236-243).  Less
\* than 2^32 instructions are ever pending, and either res_icnt or
\* consumed_icnt is 0.
IcntAssertionsHold == aborted \notin {"available_icnt", "consume_icnt", "consume_msg",
                                      "retire_msg", "retire_res_icnt", "retire_icnt"}

\* A caller that takes the events try_retire reports by the functions the
\* header names for them gets -nexus_trace_mismatch (trace-decoder.h:82-85) in
\* one case only: next_sync refuses the sync of a branch (trace-decoder.c:466).
\* The branch is then still there with nothing in front of it, and next_tnt or
\* next_indirect, called next, takes it.
EventsCanBeTaken ==
    pc = "idle" /\ ret.rc = "mismatch" =>
        /\ ret.op = "next_sync"
        /\ msg_present /\ is_branch(msg) /\ is_sync(msg)
        /\ AvailableIcnt = 0 /\ AvailableTnts = 0

\* Every instruction a message accounts for is retired exactly once: what the
\* messages read so far promise and the caller was not told is what res_icnt,
\* consumed_icnt and the buffered message still hold, repetitions included
\* (consume_icnt, pull_msg, retire_msg).
IcntConserved == Between =>
    owedIcnt = res_icnt - consumed_icnt
                 + IF msg_present THEN IcntOf(msg) * Executions(msg) ELSE 0

\* The same for TNT bits, over ResourceFull messages with repetition, partly
\* used elements and repeated messages.
TntsConserved == Between =>
    Len(owedTnts) = res_tnts - consumed_tnts
                      + IF msg_present THEN BitsOf(msg) * Executions(msg) ELSE 0

\* and next_tnt delivers them in the order of the stream, most significant bit
\* first (trace-decoder.c:113-155).
TntsInOrder ==
    [][pc = "drain" /\ pc' = "idle" /\ aborted' = "none"
           => owedTnts # << >> /\ ret'.tnt = owedTnts[1]]_vars

\* The time of every message counts once: with nothing pending the decoder's
\* clock shows the time of the last message ("For Messages with hrepeat,
\* effectively it'll be retired (hrepeat + 1) times, and the delta time is
\* divided by (hrepeat + 1)", trace-decoder.h:222-224).  With exclusive-ored
\* timestamps that is so whichever way the message is used up, with added ones
\* as long as nothing is repeated: a repeated delta is added each time
\* (trace-decoder.c:91-100).
TimeConserved == Between /\ ~msg_present /\ res_hists = << >> => timestamp = due.time

\* Every U-ADDR is applied exactly once, also when its branch is repeated, so
\* with nothing pending the tracked address is the one the encoder had.
AddressConserved == Between /\ ~msg_present => full_addr = due.addr

\* A disciplined caller works through every trace to its end, or to the limit on
\* accumulated ResourceFull messages (trace-decoder.h:70-81): no call loops and
\* no event comes back for ever.
TraceIsConsumed == <>(ret.rc \in {"eof", "hist_overflow", "icnt_overflow"})
=============================================================================
