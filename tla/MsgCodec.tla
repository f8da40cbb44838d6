------------------------------ MODULE MsgCodec ------------------------------
(***************************************************************************)
(* lib/msg-encoder.c and lib/msg-decoder.c:90-328: one message is packed   *)
(* into bytes and unpacked again.  A byte carries MDO_BITS of data and a   *)
(* mark, mseo: 0 the field goes on, 1 it ends, 3 the message ends.  Fields *)
(* of fixed width are packed next to each other; one of variable width is  *)
(* as long as its value and closes the byte it ends in.                    *)
(*                                                                         *)
(* A value is the set of its bits and a message a function from the names  *)
(* of its fields to values.  Encoder and decoder are both a list of steps, *)
(* one per macro of the source (PACK_..., UNPACK_..., CONSUME_BYTES), in   *)
(* the order of the switch statements, each done by one action.  The bytes *)
(* decoded are the ones just encoded, cut anywhere, or any bytes.          *)
(***************************************************************************)
EXTENDS Integers, Sequences, FiniteSets

CONSTANTS Inputs,       \* what the codec is given, see IsInput
          MDO_BITS,     \* 6 in the code
          WordBits,     \* uint64_t
          HalfBits      \* uint32_t

VARIABLES hwcfg, msg, limit,           \* arguments of nexusrv_msg_encode
          buffer,                      \* the bytes
          phase,                       \* encode, encoded, decode or done
          todo,                        \* steps left
          bit_offset,                  \* of the packed data, or in the field
          size,                        \* bytes produced
          rc,                          \* how the call ended
          given, taken, consumed_bytes, eom, got   \* nexusrv_msg_decode

vars == <<hwcfg, msg, limit, buffer, phase, todo, bit_offset, size, rc,
          given, taken, consumed_bytes, eom, got>>
decoderVars == <<given, taken, consumed_bytes, eom, got>>

-----------------------------------------------------------------------------
(***************************************************************************)
(* The messages of msg-types.h, by the number in their TCODE field.        *)
(***************************************************************************)
Bits(n) == { b \in 0 .. 5 : (n \div 2 ^ b) % 2 = 1 }

TCODE == [Ownership |-> Bits(2), DirectBranch |-> Bits(3), IndirectBranch |-> Bits(4),
          DataAcquisition |-> Bits(7), Error |-> Bits(8), ProgTraceSync |-> Bits(9),
          DirectBranchSync |-> Bits(11), IndirectBranchSync |-> Bits(12),
          ResourceFull |-> Bits(27), IndirectBranchHist |-> Bits(28),
          IndirectBranchHistSync |-> Bits(29), RepeatBranch |-> Bits(30),
          ProgTraceCorrelation |-> Bits(33), ICT |-> Bits(34), Idle |-> Bits(63)]

is_sync(t) == t \in {TCODE.ProgTraceSync, TCODE.DirectBranchSync,
                     TCODE.IndirectBranchSync, TCODE.IndirectBranchHistSync}
is_indir_branch(t) == t \in {TCODE.IndirectBranch, TCODE.IndirectBranchSync,
                             TCODE.IndirectBranchHist, TCODE.IndirectBranchHistSync}
IsCommon(t) == is_sync(t) \/ is_indir_branch(t) \/ t = TCODE.DirectBranch
has_xaddr(t) == is_sync(t) \/ is_indir_branch(t)
has_hist(t) == t \in {TCODE.IndirectBranchHist, TCODE.IndirectBranchHistSync}

known(m) == CASE m.tcode = TCODE.ProgTraceCorrelation -> m.cdf \in {Bits(0), Bits(1)}
              [] m.tcode = TCODE.ICT -> m.cksrc \in {Bits(0), Bits(1)}
              [] OTHER -> \E t \in DOMAIN TCODE : TCODE[t] = m.tcode

\* Widths of the fixed fields, and of what a variable field is stored in.
FixedBits == [tcode |-> 6, etype |-> 4, rcode |-> 4, evcode |-> 4, cdf |-> 2, sync |-> 4,
              btype |-> 2, fmt |-> 2, prv |-> 2, v |-> 1, cksrc |-> 4, ckdf |-> 2]
StoredBits == [icnt |-> HalfBits, ecode |-> HalfBits, rdata |-> HalfBits,
               hist |-> HalfBits, hrepeat |-> HalfBits, idtag |-> 3,
               timestamp |-> WordBits, context |-> WordBits, xaddr |-> WordBits,
               dqdata |-> WordBits, ckdata0 |-> WordBits, ckdata1 |-> WordBits]

Fields == DOMAIN FixedBits \cup DOMAIN StoredBits \cup {"src"}

FixedWidth(f) == IF f = "src" THEN hwcfg.src_bits ELSE FixedBits[f]
StoredWidth(f) == IF f \in DOMAIN StoredBits THEN StoredBits[f] ELSE FixedWidth(f)

Byte == [mseo : 0 .. 3, mdo : SUBSET (0 .. MDO_BITS - 1)]

\* A message to encode into a buffer with some content, or bytes to decode.
IsInput(x) == /\ x.hwcfg \in [src_bits : Nat, ts_bits : Nat, VAO : BOOLEAN]
              /\ x.msg \in [Fields -> SUBSET (0 .. WordBits - 1)]
              /\ x.limit \in Nat
              /\ x.buffer \in [0 .. x.limit - 1 -> Byte]
              /\ x.phase \in {"encode", "encoded"}

ASSUME CodecAssumption == /\ MDO_BITS \in Nat \ {0}
                          /\ WordBits \in Nat \ {0} /\ HalfBits \in 1 .. WordBits
                          /\ \A x \in Inputs : IsInput(x)

-----------------------------------------------------------------------------
(***************************************************************************)
(* The steps of nexusrv_msg_encode and of nexusrv_msg_decode.              *)
(***************************************************************************)
Fixed(f) == [do |-> "fixed", f |-> f]
Var(f) == [do |-> "var", f |-> f]
Req(f) == [do |-> "req", f |-> f]
Vao(f) == [do |-> "vao", f |-> f]
Unsupported == [do |-> "unsupported"]   \* return -nexus_msg_unsupported
Consume == [do |-> "consume"]           \* CONSUME_BYTES
Skip == [do |-> "skip"]                 \* while (!eom) CONSUME_BYTES
IdleEnds == [do |-> "idle"]
Time == [do |-> "time"]                 \* finished_common

If(cond, steps) == IF cond THEN steps ELSE << >>

Xaddr == IF hwcfg.VAO THEN Vao("xaddr") ELSE Req("xaddr")

EncodeTime(m) == IF hwcfg.ts_bits = 0 THEN << >>
                 ELSE IF is_sync(m.tcode) THEN <<Req("timestamp")>>
                 ELSE <<Var("timestamp")>>

EncodeRes(code) ==
    CASE code = Bits(0) -> <<Req("icnt")>>
      [] code = Bits(1) -> <<Req("hist")>>
      [] code = Bits(2) -> <<Req("hist"), Req("hrepeat")>>
      [] OTHER -> <<Var("rdata")>>

EncodeIct(m) == <<Fixed("cksrc"), Fixed("ckdf"), Req("ckdata0")>>
                   \o IF m.ckdf \in {Bits(0), Bits(1)} THEN <<Req("ckdata1")>>
                                                      ELSE <<Unsupported>>

EncodeBody(m) ==
    CASE IsCommon(m.tcode) ->
            If(is_sync(m.tcode), <<Fixed("sync")>>)
              \o If(is_indir_branch(m.tcode), <<Fixed("btype")>>)
              \o <<Req("icnt")>>
              \o If(has_xaddr(m.tcode), <<Xaddr>>)
              \o If(has_hist(m.tcode), <<Req("hist")>>)
      [] m.tcode = TCODE.Ownership ->
            <<Fixed("fmt"), Fixed("prv"), Fixed("v"), Var("context")>>
      [] m.tcode = TCODE.Error -> <<Fixed("etype"), Var("ecode")>>
      [] m.tcode = TCODE.ResourceFull -> <<Fixed("rcode")>> \o EncodeRes(m.rcode)
      [] m.tcode = TCODE.RepeatBranch -> <<Req("hrepeat")>>
      [] m.tcode = TCODE.ProgTraceCorrelation ->
            <<Fixed("evcode"), Fixed("cdf"), Req("icnt")>>
              \o If(m.cdf = Bits(1), <<Req("hist")>>)
      [] m.tcode = TCODE.ICT -> EncodeIct(m)
      [] OTHER -> <<Unsupported>>

EncodeSteps(m) ==
    IF ~known(m) THEN <<Unsupported>>
    ELSE <<Fixed("tcode")>>
           \o If(m.tcode # TCODE.Idle,
                 If(hwcfg.src_bits > 0, <<Fixed("src")>>) \o EncodeBody(m) \o EncodeTime(m))

\* What follows in nexusrv_msg_decode when the field f has been read as m[f].
DecodeBody(t) ==
    CASE IsCommon(t) ->
            If(is_sync(t), <<Fixed("sync")>>)
              \o If(is_indir_branch(t), <<Fixed("btype")>>)
              \o <<Req("icnt")>>
              \o If(has_xaddr(t), <<Consume, Xaddr>>)
              \o If(has_hist(t), <<Consume, Req("hist")>>)
              \o <<Time>>
      [] t = TCODE.Ownership ->
            <<Fixed("fmt"), Fixed("prv"), Fixed("v"), Var("context"), Time>>
      [] t = TCODE.Error -> <<Fixed("etype"), Var("ecode"), Time>>
      [] t = TCODE.DataAcquisition -> <<Req("idtag"), Consume, Req("dqdata"), Time>>
      [] t = TCODE.ResourceFull -> <<Fixed("rcode")>>
      [] t = TCODE.RepeatBranch -> <<Req("hrepeat"), Time>>
      [] t = TCODE.ProgTraceCorrelation -> <<Fixed("evcode"), Fixed("cdf"), Req("icnt")>>
      [] t = TCODE.ICT -> <<Fixed("cksrc"), Fixed("ckdf"), Req("ckdata0")>>
      [] OTHER -> <<Skip>>

DecodeRes(code) ==
    CASE code = Bits(0) -> <<Req("icnt"), Time>>
      [] code = Bits(1) -> <<Req("hist"), Time>>
      [] code = Bits(2) -> <<Req("hist"), Consume, Req("hrepeat"), Time>>
      [] OTHER -> <<Var("rdata"), Time>>

DecodeMore(f, m) ==
    CASE f = "tcode" -> IF m.tcode = TCODE.Idle THEN <<IdleEnds>>
                        ELSE If(hwcfg.src_bits > 0, <<Fixed("src")>>) \o DecodeBody(m.tcode)
      [] f = "rcode" -> DecodeRes(m.rcode)
      [] f = "icnt" /\ m.tcode = TCODE.ProgTraceCorrelation ->
            If(m.cdf = Bits(1), <<Consume, Req("hist")>>) \o <<Time>>
      [] f = "ckdata0" -> If(m.ckdf # Bits(0), <<Consume, Req("ckdata1")>>) \o <<Time>>
      [] OTHER -> << >>

\* mutant: the counters of an earlier message survive
ResetKeeps(f, m) == {}
\* The fields set to 0 before a variable field is read.
Reset(f, m) ==
    CASE f = "tcode" /\ m.tcode # TCODE.Idle ->
            {"src"} \cup (IF IsCommon(m.tcode) THEN {"hrepeat"} ELSE {})
                    \cup (IF m.tcode = TCODE.ProgTraceCorrelation
                             THEN {"icnt", "hist", "hrepeat"} ELSE {})
      [] f = "rcode" /\ m.rcode \in {Bits(0), Bits(1), Bits(2)} -> {"icnt", "hist", "hrepeat"}
      [] OTHER -> {}

-----------------------------------------------------------------------------
(***************************************************************************)
(* nexusrv_msg_encode.                                                     *)
(***************************************************************************)
Init == \E x \in Inputs :
          /\ hwcfg = x.hwcfg /\ msg = x.msg /\ limit = x.limit
          /\ buffer = x.buffer /\ phase = x.phase
          /\ todo = IF x.phase = "encode" THEN EncodeSteps(x.msg) ELSE << >>
          /\ bit_offset = 0 /\ size = 0 /\ rc = "none"
          /\ given = 0 /\ taken = 0 /\ consumed_bytes = 0 /\ eom = FALSE /\ got = << >>

Return(code) == phase' = "done" /\ rc' = code

\* Bits of a value: 64 - clz.
BitLength(v) == IF v = {} THEN 0 ELSE 1 + CHOOSE b \in v : \A c \in v : c <= b

\* mutant: no bit is kept for the sign
VaoBitsUnsigned(v, off) ==
    LET bytes == (off + BitLength(v) + MDO_BITS - 1) \div MDO_BITS
        bits  == bytes * MDO_BITS - off
    IN  IF bits > WordBits THEN WordBits ELSE bits
\* PACK_XADDR_VAO: enough bits for the sign, up to the end of a byte.
VaoBits(v, off) ==
    LET least == IF BitLength(v) < WordBits THEN BitLength(v) + 1
                 ELSE 1 + BitLength((0 .. WordBits - 1) \ v)
        bytes == (off + least + MDO_BITS - 1) \div MDO_BITS
        bits  == bytes * MDO_BITS - off
    IN  IF bits > WordBits THEN WordBits ELSE bits

PackWidth(step) ==
    CASE step.do = "fixed" -> FixedWidth(step.f)
      [] step.do = "var" -> BitLength(msg[step.f])
      [] step.do = "req" -> IF msg[step.f] = {} THEN 1 ELSE BitLength(msg[step.f])
      [] step.do = "vao" -> VaoBits(msg[step.f], bit_offset)

\* pack_bits: the n low bits of v.  A byte is begun by the field that starts
\* it, and the ones that follow are or-ed into it.
Packed(v, n) ==
    [i \in DOMAIN buffer |->
        IF n = 0 \/ i \notin bit_offset \div MDO_BITS .. (bit_offset + n - 1) \div MDO_BITS
            THEN buffer[i]
        ELSE LET bits  == { (bit_offset + b) % MDO_BITS :
                              b \in { c \in v \cap 0 .. n - 1 : (bit_offset + c) \div MDO_BITS = i } }
                 begun == i * MDO_BITS < bit_offset
             IN  [mseo |-> IF begun THEN buffer[i].mseo ELSE 0,
                  mdo  |-> IF begun THEN buffer[i].mdo \cup bits ELSE bits]]

\* END_FIELD: off is rounded up to a byte and the byte before it is marked.
Bytes(off) == (off + MDO_BITS - 1) \div MDO_BITS
Marked(buf, off, mseo) == [buf EXCEPT ![Bytes(off) - 1].mseo = mseo]

\* mutant: one bit more than the buffer has is accepted
HasRoomFor(n) == bit_offset + n <= limit * MDO_BITS + 1
HasRoom(n) == bit_offset + n <= limit * MDO_BITS

Packs(kind) == phase = "encode" /\ todo # << >> /\ todo[1].do \in kind

PackTruncates ==
    /\ Packs({"fixed", "var", "req", "vao"})
    /\ ~HasRoom(PackWidth(todo[1]))
    /\ Return("stream_truncate")
    /\ UNCHANGED <<hwcfg, msg, limit, buffer, todo, bit_offset, size, decoderVars>>

PackFixed ==
    /\ Packs({"fixed"})
    /\ LET n == PackWidth(todo[1])
       IN  /\ HasRoom(n)
           /\ buffer' = Packed(msg[todo[1].f], n)
           /\ bit_offset' = bit_offset + n
    /\ todo' = Tail(todo)
    /\ UNCHANGED <<hwcfg, msg, limit, phase, size, rc, decoderVars>>

PackVar ==
    /\ Packs({"var", "req", "vao"})
    /\ LET n == PackWidth(todo[1])
       IN  /\ HasRoom(n)
           /\ buffer' = Marked(Packed(msg[todo[1].f], n), bit_offset + n, 1)
           /\ bit_offset' = Bytes(bit_offset + n) * MDO_BITS
    /\ todo' = Tail(todo)
    /\ UNCHANGED <<hwcfg, msg, limit, phase, size, rc, decoderVars>>

PackUnsupported ==
    /\ Packs({"unsupported"})
    /\ Return("msg_unsupported")
    /\ UNCHANGED <<hwcfg, msg, limit, buffer, todo, bit_offset, size, decoderVars>>

EncodeEnds ==
    /\ phase = "encode" /\ todo = << >>
    /\ buffer' = Marked(buffer, bit_offset, 3)
    /\ size' = Bytes(bit_offset)
    /\ bit_offset' = size' * MDO_BITS
    /\ phase' = "encoded"
    /\ UNCHANGED <<hwcfg, msg, limit, todo, rc, decoderVars>>

-----------------------------------------------------------------------------
(***************************************************************************)
(* nexusrv_msg_decode of the first n bytes.                                *)
(***************************************************************************)
inputs == <<hwcfg, msg, limit, buffer, size>>

CallDecode(n) ==
    /\ phase = "encoded"
    /\ phase' = "decode"
    /\ given' = n /\ taken' = 0 /\ consumed_bytes' = 0 /\ eom' = FALSE
    /\ got' = [f \in {"timestamp"} |-> {}]
    /\ todo' = <<Consume, Fixed("tcode")>>
    /\ bit_offset' = 0
    /\ UNCHANGED <<inputs, rc>>

Does(kind) == phase = "decode" /\ todo # << >> /\ todo[1].do \in kind

Ends(code) == /\ Return(code)
              /\ UNCHANGED <<inputs, todo, bit_offset, decoderVars>>

\* consume_bytes: the bytes of the next field, up to the first mark.
MarksLeft == { i \in taken .. given - 1 : buffer[i].mseo # 0 }
FirstMark == CHOOSE i \in MarksLeft : \A j \in MarksLeft : i <= j

\* mutant: bytes that end within a field are a field that is missing
ConsumeFailsAtEnd == CASE eom \/ MarksLeft = {} -> "missing_field"
                       [] ~eom /\ MarksLeft # {} /\ buffer[FirstMark].mseo = 2 -> "bad_mseo"
                       [] OTHER -> "none"
ConsumeFails == CASE eom -> "missing_field"
                  [] ~eom /\ MarksLeft = {} -> "stream_truncate"
                  [] ~eom /\ MarksLeft # {} /\ buffer[FirstMark].mseo = 2 -> "bad_mseo"
                  [] OTHER -> "none"

Consumes == /\ consumed_bytes' = FirstMark + 1 - taken
            /\ taken' = FirstMark + 1
            /\ eom' = (buffer[FirstMark].mseo = 3)
            /\ bit_offset' = 0
            /\ UNCHANGED <<inputs, phase, rc, given, got>>

ConsumeBytes ==
    /\ Does({"consume"})
    /\ IF ConsumeFails # "none" THEN Ends(ConsumeFails)
       ELSE Consumes /\ todo' = Tail(todo)

\* mutant: the rest of the message is left
SkipNothing ==
    /\ Does({"skip"})
    /\ todo' = Tail(todo)
    /\ UNCHANGED <<inputs, phase, rc, bit_offset, decoderVars>>
SkipBytes ==
    /\ Does({"skip"})
    /\ IF eom THEN /\ todo' = Tail(todo)
                   /\ UNCHANGED <<inputs, phase, rc, bit_offset, decoderVars>>
       ELSE IF ConsumeFails # "none" THEN Ends(ConsumeFails)
       ELSE Consumes /\ todo' = todo

BitsLeft == consumed_bytes * MDO_BITS - bit_offset

\* unpack_bits: n bits of the field, the low 64 of them.
Unpacked(n) ==
    { b \in 0 .. n - 1 :
        /\ b < WordBits
        /\ (bit_offset + b) % MDO_BITS
              \in buffer[taken - consumed_bytes + (bit_offset + b) \div MDO_BITS].mdo }

\* UNPACK_XADDR_VAO: the highest bit read is the sign.
SignExtended(v, n) == IF n < WordBits /\ n - 1 \in v THEN v \cup n .. WordBits - 1 ELSE v

\* The field f is read from n bits, and what follows from it.
Unpack(f, v, n) ==
    LET m == [x \in DOMAIN got \cup {f} |->
                 IF x = f THEN v \cap 0 .. StoredWidth(f) - 1 ELSE got[x]]
        z == Reset(f, m)
    IN  /\ got' = [x \in DOMAIN m \cup z |-> IF x \in z THEN {} ELSE m[x]]
        /\ bit_offset' = bit_offset + n
        /\ todo' = Tail(todo) \o DecodeMore(f, m)
        /\ UNCHANGED <<inputs, phase, rc, given, taken, consumed_bytes, eom>>

UnpackFixed ==
    /\ Does({"fixed"})
    /\ LET f == todo[1].f
           n == FixedWidth(f)
       IN  IF BitsLeft < n THEN Ends("missing_field") ELSE Unpack(f, Unpacked(n), n)

UnpackVar ==
    /\ Does({"var", "req", "vao"})
    /\ LET f == todo[1].f
           v == Unpacked(BitsLeft)
       IN  IF BitsLeft = 0 /\ todo[1].do # "var" THEN Ends("missing_field")
           ELSE Unpack(f, IF todo[1].do = "vao" THEN SignExtended(v, BitsLeft) ELSE v, BitsLeft)

UnpackTime ==
    /\ Does({"time"})
    /\ IF hwcfg.ts_bits > 0 /\ eom
          THEN Ends(IF is_sync(got.tcode) THEN "missing_field" ELSE "ok")
          ELSE /\ todo' = <<Skip>> \o If(hwcfg.ts_bits > 0, <<Req("timestamp")>>)
               /\ UNCHANGED <<inputs, phase, rc, bit_offset, decoderVars>>

DecodeIdle == Does({"idle"}) /\ Ends(IF eom THEN "ok" ELSE "msg_invalid")

DecodeEnds == phase = "decode" /\ todo = << >> /\ Ends("ok")

Finished == phase = "done" /\ UNCHANGED vars

Next == \/ PackTruncates \/ PackFixed \/ PackVar \/ PackUnsupported \/ EncodeEnds
        \/ \E n \in 0 .. limit : CallDecode(n)
        \/ ConsumeBytes \/ SkipBytes \/ UnpackFixed \/ UnpackVar \/ UnpackTime
        \/ DecodeIdle \/ DecodeEnds
        \/ Finished

Spec == Init /\ [][Next]_vars

(***************************************************************************)
(* nexusrv_sync_forward and nexusrv_sync_backward: 0 for truncated.        *)
(***************************************************************************)
sync_forward(n) ==
    LET ends == { i \in 0 .. n - 1 : buffer[i].mseo = 3 }
    IN  IF ends = {} THEN 0 ELSE 1 + CHOOSE i \in ends : \A j \in ends : i <= j
sync_backward(n) ==
    LET ends == { i \in 0 .. n - 1 : buffer[i].mseo = 3 }
    IN  IF ends = {} THEN 0 ELSE 1 + CHOOSE i \in ends : \A j \in ends : j <= i

-----------------------------------------------------------------------------
(***************************************************************************)
(* Properties.                                                             *)
(***************************************************************************)
\* Positions stay within the bytes the caller handed over, on both sides
\* (msg-encoder.c:38-44, msg-decoder.c:108-157).
TypeOK == /\ buffer \in [0 .. limit - 1 -> Byte]
          /\ size \in 0 .. limit
          /\ phase = "encode" => bit_offset \in 0 .. limit * MDO_BITS
          /\ phase = "decode" => /\ given \in 0 .. limit
                                 /\ taken \in 0 .. given
                                 /\ consumed_bytes \in 0 .. taken
                                 /\ bit_offset \in 0 .. consumed_bytes * MDO_BITS
          /\ \A f \in DOMAIN got : got[f] \subseteq 0 .. StoredWidth(f) - 1

\* Messages as the fields of the stream can hold them.  An ICT with CKDF 0 has
\* no CKDATA1, though nexusrv_msg_encode writes one.
Representable ==
  \A x \in Inputs : x.phase = "encode" /\ known(x.msg) =>
    /\ \A f \in Fields : x.msg[f] \subseteq
          0 .. (IF f \in DOMAIN StoredBits THEN StoredBits[f]
                ELSE IF f = "src" THEN x.hwcfg.src_bits ELSE FixedBits[f]) - 1
    /\ x.msg.tcode = TCODE.ICT /\ x.msg.ckdf = Bits(0) => x.msg.ckdata1 = {}

Decoded == phase = "done" /\ size > 0

\* The fields encoded.  An ICT with CKDF 0 has one CKDATA, though two are sent.
Written == { EncodeSteps(msg)[i].f : i \in DOMAIN EncodeSteps(msg) }
              \ (IF msg.tcode = TCODE.ICT /\ msg.ckdf = Bits(0) THEN {"ckdata1"} ELSE {})

\* What was encoded is decoded: every field, in as many bytes, whatever follows
\* in the buffer ("effectively a Nexus Message serializer/de-serializer",
\* README.md:12).
RoundTrip == Decoded /\ given >= size =>
    /\ rc = "ok" /\ taken = size
    /\ \A f \in Written : f \in DOMAIN got /\ got[f] = msg[f]

\* A message cut anywhere asks for more bytes and is never taken for another
\* one: what nexusrv_msg_decoder_next relies on to refill its buffer
\* (msg-decoder.c:362-369).
PrefixTruncates == Decoded /\ given < size => rc = "stream_truncate"

\* Whatever the bytes, a message decoded ends at the first byte marked as an
\* end of message: decoding and synchronizing (nexusrv_sync_forward, _backward)
\* agree on where messages begin.
EndsAtMark == phase = "done" /\ rc = "ok" =>
    taken = sync_forward(given) /\ taken = sync_backward(taken)

\* Whatever the bytes, the fields the trace decoder reads of a message
\* (trace-decoder.c:44-56, 63-90, 195-224) were set by decoding this one: the
\* structure is reused and never cleared.
FieldsAreFresh == phase = "done" /\ rc = "ok" =>
    LET t == got.tcode
        res == t = TCODE.ResourceFull
        stop == t = TCODE.ProgTraceCorrelation
    IN  /\ t # TCODE.Idle => "src" \in DOMAIN got
        /\ IsCommon(t) \/ stop \/ (res /\ got.rcode = {}) => "icnt" \in DOMAIN got
        /\ res /\ got.rcode \notin {Bits(0), Bits(1), Bits(2)} => "rdata" \in DOMAIN got
        /\ has_xaddr(t) => "xaddr" \in DOMAIN got
        /\ \/ has_hist(t)
           \/ stop /\ got.cdf = Bits(1)
           \/ res /\ got.rcode \in {Bits(1), Bits(2)}
              => {"hist", "hrepeat"} \subseteq DOMAIN got
        /\ IsCommon(t) \/ t = TCODE.RepeatBranch => "hrepeat" \in DOMAIN got
=============================================================================
