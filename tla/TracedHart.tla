------------------------------ MODULE TracedHart ------------------------------
(***************************************************************************)
(* The environment of replay (external: a RISC-V hart and its Nexus trace  *)
(* encoder).  The hart executes Program; the encoder reports what cannot   *)
(* be told from the program: taken branches one by one (BTM) or as TNT     *)
(* bits (HTM), the targets of indirect jumps and traps, and SYNCs.  A      *)
(* return is not reported while the calls counted exceed the returns       *)
(* (implicit return by simple counting, contrib/p550/README.md:6).         *)
(*                                                                         *)
(* `been' is what a replay should show: been[k + 1] is the set of places   *)
(* the hart was at after k half words had been retired (more than one when *)
(* it trapped there).                                                      *)
(***************************************************************************)
EXTENDS InstBlock

CONSTANTS
    Starts, Handler,       \* where execution may start, and traps go
    Modes,                 \* subset of {"BTM", "HTM"}
    Quirks,                \* values of hw_cfg->quirk_sifive
    MaxIcnt, MaxSegments,  \* bounds on an execution
    MaxNest,               \* bound on nested calls
    Depths,                \* where the encoder's counter of calls may saturate
    Lifted                 \* restrictions of Copes that are lifted

Restrictions == {"jump", "not taken", "ecall", "undecodable", "stop", "unknown", "quiet"}

\* The link register makes a jal, c.jal, jalr or c.jalr a call.
Links(i) == (i.id \in {"jal", "jalr"} /\ i.rd \in {1, 5}) \/ i.id \in {"c_jal", "c_jalr"}
LinkOf(i) == IF i.id \in {"c_jal", "c_jalr"} THEN 1 ELSE i.rd

\* Execution does not run off the program.
ASSUME HartAssumption ==
    /\ Starts \subseteq DOMAIN Program /\ Handler \in DOMAIN Program
    /\ Modes \subseteq {"BTM", "HTM"} /\ Quirks \subseteq BOOLEAN
    /\ {MaxIcnt, MaxSegments, MaxNest} \cup Depths \subseteq Nat
    /\ Lifted \subseteq Restrictions
    /\ \A a \in DOMAIN Program :
          LET i == Program[a]
          IN  /\ i.to \subseteq DOMAIN Program
              /\ i.id \in {"op", "bitmanip", "branch"} \/ Links(i) => a + i.size \in DOMAIN Program

VARIABLES
    mode, quirk, depth,        \* the configuration
    pc, calls, been,           \* the hart
    count,                     \* calls the encoder counts
    tracing,                   \* "on", or "lost" or "off" until the next SYNC
    from, icnt, bits,          \* since the last message
    fallen,                    \* a branch was not taken right now, in BTM
    trace                      \* the segments written

hartVars == <<mode, quirk, depth, pc, calls, been, count, tracing, from, icnt, bits, fallen, trace>>

HartInit == /\ mode \in Modes /\ quirk \in Quirks /\ depth \in Depths
            /\ pc \in Starts /\ calls = << >> /\ been = <<{pc}>>
            /\ count = 0 /\ tracing = "on"
            /\ from = 0 /\ icnt = 0 /\ bits = << >> /\ fallen = FALSE
            /\ trace = << >>

Insn == Program[pc]
InImage == pc \in Mapped

-----------------------------------------------------------------------------
(***************************************************************************)
(* Messages.  A message m is a kind, a sync flag and an address; `Silence' *)
(* is none.                                                                *)
(***************************************************************************)
Message(kind, sync, addr) == [kind |-> kind, sync |-> sync, addr |-> addr]
Silence == Message("None", FALSE, 0)

\* n instructions and the bits b are pending, and message m is sent.
Encodes(n, b, m) ==
    IF tracing # "on" \/ m = Silence
       THEN /\ icnt' = IF tracing = "on" THEN n ELSE icnt
            /\ bits' = IF tracing = "on" THEN b ELSE bits
            /\ UNCHANGED <<from, trace>>
       ELSE /\ trace' = Append(trace, [begin |-> from, icnt |-> n, bits |-> b,
                                       kind |-> m.kind, sync |-> m.sync, addr |-> m.addr])
            /\ icnt' = 0 /\ bits' = << >> /\ from' = Len(been') - 1

\* An instruction is retired and the hart goes on at `to'.
Retired(to) ==
    /\ Len(been) + Insn.size <= MaxIcnt + 1
    /\ pc' = to
    /\ been' = been \o [k \in 1 .. Insn.size |-> {IF k < Insn.size THEN pc + k ELSE to}]

\* The encoder's counter, which a sync resets.
Counts(n, m) == count' = IF m.sync \/ tracing # "on" THEN 0
                         ELSE IF n > depth THEN depth ELSE n

Pushed(s) == Append(s, pc + Insn.size)
Popped(s) == IF s = << >> THEN s ELSE SubSeq(s, 1, Len(s) - 1)
ReturnsTo == IF calls = << >> THEN Insn.to ELSE {calls[Len(calls)]}

-----------------------------------------------------------------------------
(***************************************************************************)
(* Where replay copes with an event; Lifted gives the restrictions up.     *)
(*   jump       an IndirectBranchSync at an indirect jump is refused       *)
(*              (inst.cpp:124), at a return it needs a callsite            *)
(*   not taken  in BTM nothing may follow a branch not taken at once       *)
(*              (trace-decoder.c:385)                                      *)
(*   ecall      in front of an ecall only its trap is accepted             *)
(*              (inst.cpp:238)                                             *)
(*   undecodable  an event in front of an instruction capstone does not    *)
(*              know is fatal (inst.cpp:270)                               *)
(*   stop       a Stop is accepted only outside the images (inst.cpp:41)   *)
(*   unknown    behind an I-CNT ResourceFull in BTM, an unsupported        *)
(*              message makes replay retire a block twice                  *)
(*   quiet      a message that is no event, such as an idle one, stays     *)
(*              buffered (trace-decoder.c:359-363): no function takes it,  *)
(*              and a block cannot be retired past it (inst.cpp:34-55)     *)
(***************************************************************************)
Copes(restriction, harmless) == harmless \/ restriction \in Lifted

CopesAtOnce == Copes("not taken", ~fallen)
CopesShowing(a) == Copes("undecodable", ~Undecodable(a))
CopesHere == Copes("ecall", ~InImage \/ Insn.id # "ecall") /\ CopesShowing(pc)

-----------------------------------------------------------------------------
Plain == /\ Insn.id \in {"op", "bitmanip"}
         /\ Retired(pc + Insn.size)
         /\ Encodes(icnt + Insn.size, bits, Silence)
         /\ fallen' = FALSE
         /\ UNCHANGED <<calls, count, tracing>>

\* In HTM every branch is a TNT bit.
Branch(taken) ==
    /\ Insn.id = "branch"
    /\ \E to \in Insn.to, sync \in BOOLEAN :
         LET m == IF mode = "BTM" /\ taken THEN Message("Direct", sync, to) ELSE Silence
             b == IF mode = "HTM" THEN Append(bits, IF taken THEN 1 ELSE 0) ELSE bits
         IN  /\ sync => m # Silence
             /\ Retired(IF taken THEN to ELSE pc + Insn.size)
             /\ Encodes(icnt + Insn.size, b, m)
             /\ Counts(count, m)
    /\ fallen' = (mode = "BTM" /\ ~taken /\ InImage)
    /\ UNCHANGED <<calls, tracing>>

Direct == /\ Insn.id \in {"jal", "c_j", "c_jal"}
          /\ Links(Insn) => Len(calls) < MaxNest
          /\ \E to \in Insn.to : Retired(to)
          /\ Encodes(icnt + Insn.size, bits, Silence)
          /\ calls' = IF Links(Insn) THEN Pushed(calls) ELSE calls
          /\ Counts(IF Links(Insn) THEN count + 1 ELSE count, Silence)
          /\ fallen' = FALSE
          /\ UNCHANGED tracing

\* The hints of the jalr instruction: a return, a call, both or neither.
Returns(i) == i.id \in {"jalr", "c_jr", "c_jalr"} /\ i.rs \in {1, 5}
                 /\ ~(Links(i) /\ LinkOf(i) = i.rs)

\* A return the counter covers is silent.  A SiFive encoder takes a jump that
\* returns and calls for a call.
Implicit == Returns(Insn) /\ count > 0 /\ ~(quirk /\ Links(Insn))

Indirect ==
    /\ Insn.id \in {"jalr", "c_jr", "c_jalr", "xret"}
    /\ Links(Insn) => /\ Len(calls) < MaxNest
                      /\ quirk /\ Returns(Insn) => calls = << >>
    /\ \E to \in IF Returns(Insn) THEN ReturnsTo ELSE Insn.to, sync \in BOOLEAN :
         LET m == IF Implicit /\ ~sync THEN Silence ELSE Message("Indirect", sync, to)
             pop == Returns(Insn) /\ ~(quirk /\ Links(Insn)) /\ count > 0
         IN  /\ sync => Copes("jump", ~InImage \/ Implicit)
             /\ Retired(to)
             /\ Encodes(icnt + Insn.size, bits, m)
             /\ Counts(count - (IF pop THEN 1 ELSE 0) + (IF Links(Insn) THEN 1 ELSE 0), m)
    /\ calls' = LET s == IF Returns(Insn) THEN Popped(calls) ELSE calls
                IN  IF Links(Insn) THEN Pushed(s) ELSE s
    /\ fallen' = FALSE
    /\ UNCHANGED tracing

\* An ecall, or an interrupt in front of any instruction.
Trap == /\ Insn.id # "ecall" => CopesAtOnce /\ CopesShowing(pc) /\ pc # Handler
        /\ Len(been) <= MaxIcnt
        /\ \E sync \in BOOLEAN :
             /\ pc' = Handler
             /\ been' = [been EXCEPT ![Len(been)] = @ \cup {Handler}]
             /\ Encodes(icnt, bits, Message("Trap", sync, Handler))
             /\ Counts(count, Message("Trap", sync, Handler))
        /\ fallen' = FALSE
        /\ UNCHANGED <<calls, tracing>>

Sync == /\ tracing = "on" => CopesAtOnce /\ CopesHere
        /\ tracing' = "on" /\ count' = 0
        /\ trace' = Append(trace,
               [begin |-> IF tracing = "on" THEN from ELSE Len(been) - 1,
                icnt |-> icnt, bits |-> bits, kind |-> "Sync", sync |-> FALSE, addr |-> pc])
        /\ icnt' = 0 /\ bits' = << >> /\ from' = Len(been) - 1
        /\ fallen' = FALSE
        /\ UNCHANGED <<pc, calls, been>>

Stop == /\ tracing = "on" /\ CopesAtOnce /\ CopesHere
        /\ Copes("stop", ~InImage)
        /\ been' = been /\ fallen' = FALSE
        /\ Encodes(icnt, bits, Message("Stop", FALSE, 0))
        /\ tracing' = "off" /\ count' = 0
        /\ UNCHANGED <<pc, calls>>

\* Messages are lost: all that is pending, or nothing of it when ResourceFull
\* messages have been sent just before.
Overflow == /\ tracing = "on" /\ CopesHere
            /\ been' = been /\ fallen' = FALSE
            /\ \E sent \in BOOLEAN :
                 /\ sent \/ \A a \in been[from + 1] : CopesShowing(a)
                 /\ Encodes(IF sent THEN icnt ELSE 0, IF sent THEN bits ELSE << >>,
                            Message("Error", FALSE, 0))
            /\ tracing' = "lost" /\ count' = 0
            /\ UNCHANGED <<pc, calls>>

\* A message of the kind given, in front of the pending instructions or behind
\* ResourceFull messages for them (sent).
Inserts(kind, sent) ==
    /\ tracing = "on"
    /\ trace' = Append(trace,
           [begin |-> from, icnt |-> IF sent THEN icnt ELSE 0,
            bits |-> IF sent THEN bits ELSE << >>,
            kind |-> kind, sync |-> FALSE, addr |-> 0])
    /\ icnt' = IF sent THEN 0 ELSE icnt
    /\ bits' = IF sent THEN << >> ELSE bits
    /\ from' = IF sent THEN Len(been) - 1 ELSE from
    /\ UNCHANGED <<pc, calls, been, count, tracing, fallen>>

\* A message the decoder does not support.
Unknown == \E sent \in BOOLEAN :
              Inserts("Unknown", sent) /\ (sent => Copes("unknown", mode = "HTM"))

\* One it does, without event: Idle, InCircuitTrace, a RepeatBranch or Ownership
\* that belongs to no branch.
Quiet == /\ CopesAtOnce
         /\ \E sent \in BOOLEAN :
              /\ Inserts("Quiet", sent)
              /\ Copes("quiet", IF sent THEN ~InImage ELSE been[from + 1] \cap Mapped = {})

HartNext == /\ \/ Plain \/ (\E taken \in BOOLEAN : Branch(taken)) \/ Direct \/ Indirect
               \/ Trap \/ Sync \/ Stop \/ Overflow \/ Unknown \/ Quiet
            /\ UNCHANGED <<mode, quirk, depth>>
=============================================================================
