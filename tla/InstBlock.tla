------------------------------ MODULE InstBlock ------------------------------
(***************************************************************************)
(* util/inst.cpp and inst-helper.h: the program in memory is cut into      *)
(* blocks of sequential instructions, and a block is retired against the   *)
(* trace.  Addresses and sizes count half words, as I-CNT does.            *)
(*                                                                         *)
(* The trace decoder is seen from its caller.  Its state is a record       *)
(*   trace   what is still to come, as segments: a segment is a message    *)
(*           with an event together with the ResourceFull messages in      *)
(*           front of it, and holds the instructions (icnt), TNT bits      *)
(*           (bits), event (kind, sync) and address (addr) not yet taken;  *)
(*           begin is history: the I-CNT the hart had reached              *)
(*   synced, stack                                                         *)
(* That instructions and bits of ResourceFull messages come out once and   *)
(* in order is what TraceDecoder checks; the calls below are its calls.    *)
(***************************************************************************)
EXTENDS Integers, Sequences, FiniteSets, FiniteSetsExt

CONSTANTS
    Program,          \* address -> instruction [id, size, rd, rs, to]
    Mapped,           \* the addresses the memory images hold
    MaxStack          \* hw_cfg->max_stack

Ids == {"op", "bitmanip", "branch", "jal", "jalr", "c_j", "c_jr", "c_jal",
        "c_jalr", "xret", "ecall"}

\* Instructions do not overlap, no image ends inside an instruction, and a direct
\* jump or branch has one target.
ASSUME ProgramAssumption ==
    /\ MaxStack \in Nat
    /\ DOMAIN Program \subseteq Nat /\ Mapped \subseteq Nat
    /\ \A a \in DOMAIN Program :
          LET i == Program[a]
              halves == a .. a + i.size - 1
          IN  /\ i.id \in Ids /\ i.size \in {1, 2}
              /\ halves \cap DOMAIN Program = {a}
              /\ halves \subseteq Mapped \/ halves \cap Mapped = {}
              /\ i.id \in {"branch", "jal", "c_j", "c_jal"} => \E t \in i.to : i.to = {t}

-----------------------------------------------------------------------------
(***************************************************************************)
(* Classification of instructions.                                         *)
(***************************************************************************)
link_reg(r) == r \in {1, 5}

jal_types(rd) == IF link_reg(rd) THEN "Direct_Call" ELSE "Direct_Jump"

jalr_types(rd, rs) ==
    CASE link_reg(rd) /\ (~link_reg(rs) \/ rd = rs) -> "Indirect_Call"
      [] link_reg(rd) /\ link_reg(rs) /\ rd # rs -> "Coroutine_Swap"
      [] ~link_reg(rd) /\ link_reg(rs) -> "Function_Return"
      [] OTHER -> "Indirect_Jump"

cjr_types(rs) == IF link_reg(rs) THEN "Function_Return" ELSE "Indirect_Jump"
cjalr_types(rs) == IF rs = 5 THEN "Coroutine_Swap" ELSE "Indirect_Call"

\* What fetch makes of an instruction; one that capstone cannot decode is
\* skipped like any other that does not end a block.
itype(i) == CASE i.id = "branch" -> "Cond_Branch"
              [] i.id = "xret" -> "Iret"
              [] i.id = "ecall" -> "Exception"
              [] i.id = "jal" -> jal_types(i.rd)
              [] i.id = "jalr" -> jalr_types(i.rd, i.rs)
              [] i.id = "c_j" -> "Direct_Jump"
              [] i.id = "c_jr" -> cjr_types(i.rs)
              [] i.id = "c_jal" -> "Direct_Call"
              [] i.id = "c_jalr" -> cjalr_types(i.rs)
              [] OTHER -> "None"

\* disasm1, unlike fetch, insists on decoding what it is given.
Undecodable(va) == va \in Mapped \cap DOMAIN Program /\ Program[va].id = "bitmanip"

NoBlock == [addr |-> 0, icnt |-> 0, itype |-> "None", size |-> 0, to |-> {}]

\* The instructions that can end a block entered at va: nothing but mapped
\* memory lies in between.
Enders(va) == { e \in DOMAIN Program : /\ e >= va
                                       /\ itype(Program[e]) # "None"
                                       /\ va .. e \subseteq Mapped }

\* rv_inst_block::fetch.
fetch(va) ==
    IF Enders(va) = {} THEN NoBlock
    ELSE LET e == Min(Enders(va))
             i == Program[e]
         IN  [addr |-> va, icnt |-> e + i.size - va, itype |-> itype(i),
              size |-> i.size, to |-> i.to]

-----------------------------------------------------------------------------
(***************************************************************************)
(* The calls of the trace decoder.  A call returns the decoder d it        *)
(* leaves, rc, and n instructions, an event, a TNT bit or an address.      *)
(***************************************************************************)
Front(d) == Head(d.trace)
WithFront(d, s) == [d EXCEPT !.trace = <<s>> \o Tail(d.trace)]

Answer(d, rc, n, event, value) ==
    [d |-> d, rc |-> rc, n |-> n, event |-> event, value |-> value]
Refused(d, rc) == Answer(d, rc, 0, "None", 0)

\* No message with an event behind what is left of the segment.
Exhausted(d) == Front(d).kind \in {"End", "Unknown"}
WhyExhausted(d) == IF Front(d).kind = "End" THEN "eof" ELSE "unsupported"

\* Everything in front of the event has been consumed.
Ready(d) == Front(d).icnt = 0 /\ Front(d).bits = << >>

EventOf(s) == CASE s.kind = "Error" -> "Error"
                [] s.kind # "Error" /\ s.bits # << >> -> "Direct"
                [] s.kind = "Indirect" /\ s.bits = << >> ->
                       IF s.sync THEN "IndirectSync" ELSE "Indirect"
                [] s.kind = "Direct" /\ s.bits = << >> ->
                       IF s.sync THEN "DirectSync" ELSE "Direct"
                [] s.kind = "Quiet" /\ s.bits = << >> -> "None"
                [] OTHER -> s.kind

Consumed(s, n) == [s EXCEPT !.icnt = @ - n, !.begin = @ + n]

try_retire(d, n) ==
    LET s == Front(d)
    IN  IF n < s.icnt THEN Answer(WithFront(d, Consumed(s, n)), "ok", n, "None", 0)
        ELSE IF Exhausted(d) THEN Refused(d, WhyExhausted(d))
        ELSE Answer(WithFront(d, Consumed(s, s.icnt)), "ok", s.icnt, EventOf(s), 0)

\* nexusrv_trace_retire_msg: a branch with sync leaves the sync behind.
Taken(d) == IF Front(d).sync
               THEN WithFront(d, [Front(d) EXCEPT !.kind = "Sync", !.sync = FALSE])
               ELSE [d EXCEPT !.trace = Tail(@)]

next_tnt(d) ==
    LET s == Front(d)
    IN  CASE s.bits # << >> ->
               Answer(WithFront(d, [s EXCEPT !.bits = Tail(@)]), "ok", 0, "None", Head(s.bits))
          [] s.bits = << >> /\ Exhausted(d) -> Refused(d, WhyExhausted(d))
          [] s.bits = << >> /\ ~Exhausted(d) /\ s.icnt > 0 -> Answer(d, "ok", 0, "None", 0)
          [] Ready(d) /\ s.kind = "Direct" -> Answer(Taken(d), "ok", 0, "None", 1)
          [] OTHER -> Refused(d, "mismatch")

next_indirect(d) ==
    IF Ready(d) /\ Front(d).kind \in {"Indirect", "Trap"}
       THEN Answer(Taken(d), "ok", 0, "None", Front(d).addr)
       ELSE Refused(d, "mismatch")

next_sync(d) ==
    IF Ready(d) /\ Front(d).kind = "Sync"
       THEN Answer([Taken(d) EXCEPT !.stack = << >>], "ok", 0, "None", Front(d).addr)
       ELSE Refused(d, "mismatch")

\* mutant: the message with the event is not retired
next_end_left(d, kind) ==
    IF Front(d).kind = kind /\ (kind = "Error" \/ Ready(d))
       THEN Answer([d EXCEPT !.synced = FALSE], "ok", 0, "None", 0)
       ELSE Refused(d, "mismatch")
\* next_stop and next_error: the decoder is no longer synchronized.  An Error
\* discards what is in front of it.
next_end(d, kind) ==
    IF Front(d).kind = kind /\ (kind = "Error" \/ Ready(d))
       THEN Answer([Taken(d) EXCEPT !.synced = FALSE], "ok", 0, "None", 0)
       ELSE Refused(d, "mismatch")

\* sync_reset skips to a sync, whatever kind of message carries it.
Skippable(s) == ~s.sync /\ s.kind \notin {"Sync", "End", "Unknown"}
Reached(d) == Min({ k \in 1 .. Len(d.trace) : ~Skippable(d.trace[k]) })

sync_reset(d) ==
    LET s == d.trace[Reached(d)]
        rest == SubSeq(d.trace, Reached(d), Len(d.trace))
    IN  IF s.kind = "End" THEN Refused([d EXCEPT !.trace = rest], "eof")
        ELSE IF s.kind = "Unknown" THEN Refused([d EXCEPT !.trace = rest], "unsupported")
        ELSE Answer([trace |-> Tail(rest), synced |-> TRUE, stack |-> << >>],
                    "ok", 0, "None", s.addr)

\* The caller takes an unsupported message; what was pulled in front of it is
\* kept.
take_unsupported(d) ==
    LET s == Front(d)
        t == d.trace[2]
    IN  [d EXCEPT !.trace =
           <<[t EXCEPT !.begin = s.begin, !.icnt = @ + s.icnt, !.bits = s.bits \o @]>>
               \o SubSeq(@, 3, Len(@))]

\* A call that does not fit is not pushed; nobody looks at the result.
push_call(d, a) == IF Len(d.stack) < MaxStack THEN [d EXCEPT !.stack = Append(@, a)] ELSE d
pop_ret(d) == IF d.stack = << >> THEN Refused(d, "retstack_empty")
              ELSE Answer([d EXCEPT !.stack = SubSeq(@, 1, Len(@) - 1)],
                          "ok", 0, "None", d.stack[Len(d.stack)])

-----------------------------------------------------------------------------
(***************************************************************************)
(* retire: the block is retired and the hart goes on at ip, an event is    *)
(* thrown at ip (rv_inst_exc_event), or it fails (rv_inst_exc_failed).     *)
(***************************************************************************)
Retires(d, ip) == [out |-> "ok", d |-> d, ip |-> ip, event |-> "None", rc |-> "ok"]
Throws(d, ip, event) == [out |-> "event", d |-> d, ip |-> ip, event |-> event, rc |-> "ok"]
Fails(d, rc) == [out |-> "failed", d |-> d, ip |-> 0, event |-> "None", rc |-> rc]

Behind(b) == b.addr + b.icnt
Target(b) == CHOOSE t \in b.to : TRUE

\* An event that may come at any instruction.
AnyTime == {"Trap", "DirectSync", "IndirectSync", "Sync", "Error"}

\* check_exc: why the block is not retired as a whole, if it is not.
Exceptional(b, r) == r.rc # "ok" \/ r.n < b.icnt
check_exc(b, r) == CASE r.rc # "ok" -> Fails(r.d, r.rc)
                     [] r.rc = "ok" /\ r.event \in AnyTime ->
                            Throws(r.d, b.addr + r.n, r.event)
                     [] OTHER -> Fails(r.d, "mismatch")

retire_dir_jmp(b, d) ==
    LET r == try_retire(d, b.icnt)
    IN  IF Exceptional(b, r) THEN check_exc(b, r) ELSE Retires(r.d, Target(b))

retire_dir_call(b, d) ==
    LET j == retire_dir_jmp(b, d)
    IN  IF j.out = "ok" THEN [j EXCEPT !.d = push_call(@, Behind(b))] ELSE j

\* mutant: an Error right behind the branch goes unnoticed
retire_cond_branch_error(b, d) ==
    LET r == try_retire(d, b.icnt)
        t == next_tnt(r.d)
    IN  IF Exceptional(b, r) THEN check_exc(b, r)
        ELSE IF t.rc # "ok" THEN Fails(t.d, t.rc)
        ELSE Retires(t.d, IF t.value = 1 THEN Target(b) ELSE Behind(b))
retire_cond_branch(b, d) ==
    LET r == try_retire(d, b.icnt)
        t == next_tnt(r.d)
    IN  IF Exceptional(b, r) THEN check_exc(b, r)
        ELSE IF r.event = "Error" THEN Throws(r.d, Behind(b), "Error")
        ELSE IF t.rc # "ok" THEN Fails(t.d, t.rc)
        ELSE Retires(t.d, IF t.value = 1 THEN Target(b) ELSE Behind(b))

\* indir_jmp, and iret
retire_indir_jmp(b, d) ==
    LET r == try_retire(d, b.icnt)
        i == next_indirect(r.d)
    IN  IF Exceptional(b, r) THEN check_exc(b, r)
        ELSE IF r.event # "Indirect" THEN Fails(r.d, "mismatch")
        ELSE IF i.rc # "ok" THEN Fails(i.d, i.rc)
        ELSE Retires(i.d, i.value)

retire_indir_call(b, d) ==
    LET j == retire_indir_jmp(b, d)
    IN  IF j.out = "ok" THEN [j EXCEPT !.d = push_call(@, Behind(b))] ELSE j

\* An explicit return drops its callsite too, if there is one.
retire_ret(b, d) ==
    LET r == try_retire(d, b.icnt)
        p == pop_ret(r.d)
        i == next_indirect(p.d)
    IN  IF Exceptional(b, r) THEN check_exc(b, r)
        ELSE IF r.event = "Error" THEN Throws(r.d, Behind(b), "Error")
        ELSE IF r.event = "Indirect"
                THEN IF i.rc # "ok" THEN Fails(i.d, i.rc) ELSE Retires(i.d, i.value)
        ELSE IF p.rc # "ok" THEN Fails(p.d, p.rc)
        ELSE Retires(p.d, p.value)

retire_co_swap(b, d, quirk_sifive) ==
    LET j == retire_ret(b, d)
    IN  IF quirk_sifive THEN retire_indir_call(b, d)
        ELSE IF j.out = "ok" THEN [j EXCEPT !.d = push_call(@, Behind(b))] ELSE j

\* An ecall or ebreak is not retired: it traps.
retire_int(b, d) ==
    LET n == b.icnt - b.size
        r == try_retire(d, n)
        i == next_indirect(r.d)
    IN  IF r.rc # "ok" THEN Fails(r.d, r.rc)
        ELSE IF r.n < n THEN Throws(r.d, b.addr + r.n, r.event)
        ELSE IF r.event # "Trap" THEN Fails(r.d, "mismatch")
        ELSE IF i.rc # "ok" THEN Fails(i.d, i.rc)
        ELSE Retires(i.d, i.value)

retire(b, d, quirk_sifive) ==
    CASE b.itype = "Direct_Jump" -> retire_dir_jmp(b, d)
      [] b.itype = "Direct_Call" -> retire_dir_call(b, d)
      [] b.itype = "Cond_Branch" -> retire_cond_branch(b, d)
      [] b.itype \in {"Indirect_Jump", "Iret"} -> retire_indir_jmp(b, d)
      [] b.itype = "Indirect_Call" -> retire_indir_call(b, d)
      [] b.itype = "Function_Return" -> retire_ret(b, d)
      [] b.itype = "Coroutine_Swap" -> retire_co_swap(b, d, quirk_sifive)
      [] b.itype = "Exception" -> retire_int(b, d)
=============================================================================
