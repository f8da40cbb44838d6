--------------------------- MODULE MsgCodecProofs ---------------------------
(***************************************************************************)
(* Proofs about MsgCodec for every width of a byte and of the words, every *)
(* configuration, message and content of the buffer.                       *)
(***************************************************************************)
EXTENDS MsgCodec, SequenceTheorems, WellFoundedInduction, TLAPS

(***************************************************************************)
(* The inductive invariant.                                                *)
(***************************************************************************)
FixedFields == DOMAIN FixedBits \cup {"src"}

Step == { Fixed(f) : f \in FixedFields } \cup { Var(f) : f \in DOMAIN StoredBits }
          \cup { Req(f) : f \in DOMAIN StoredBits } \cup { Vao(f) : f \in DOMAIN StoredBits }
          \cup {Unsupported, Consume, Skip, IdleEnds, Time}

Reads(s) == s.do \in {"fixed", "var", "req", "vao"}

\* The arguments of the calls.
ArgsOK == /\ hwcfg \in [src_bits : Nat, ts_bits : Nat, VAO : BOOLEAN]
          /\ msg \in [Fields -> SUBSET (0 .. WordBits - 1)]
          /\ limit \in Nat

ControlOK == /\ phase \in {"encode", "encoded", "decode", "done"}
             /\ todo \in Seq(Step)
             /\ phase # "done" => rc = "none"

\* The steps of a message with TCODE t at which a list ends: what follows
\* depends on the value read, or skips the rest of the message.
Closing(s, t) == \/ s \in {Time, Skip, IdleEnds, Fixed("tcode")}
                 \/ s = Fixed("rcode") /\ t = TCODE.ResourceFull
                 \/ s = Req("icnt") /\ t = TCODE.ProgTraceCorrelation
                 \/ s = Req("ckdata0") /\ t = TCODE.ICT
Plain(t) == { s \in Step : \/ s = Consume
                           \/ /\ Reads(s) /\ s.f \notin {"tcode", "rcode", "ckdata0"}
                              /\ s.f = "icnt" => t # TCODE.ProgTraceCorrelation }

\* A list of steps that ends with one of these, and has no other.
Closes(L, t) == /\ L # << >> /\ Closing(L[Len(L)], t)
                /\ \A i \in 1 .. Len(L) - 1 : L[i] \in Plain(t)

\* The steps left lead to the end of the message.
Shape == phase = "decode" =>
            \/ todo = <<Skip, Req("timestamp")>>
            \/ eom /\ todo \in {<< >>, <<Req("timestamp")>>}
            \/ Closes(todo, got.tcode)

Reading == phase = "decode" \/ rc = "ok"

\* The bytes taken hold the mark of an end where they end, if anywhere.
MarkOK == Reading => /\ given \in 0 .. limit /\ taken \in 0 .. given /\ eom \in BOOLEAN
                     /\ eom => taken > 0
                     /\ \A i \in 0 .. taken - 1 : buffer[i].mseo = 3 <=> eom /\ i = taken - 1
                     /\ rc = "ok" => eom

\* The field f is read by one of the steps.
Pending(L, f) == \E i \in 1 .. Len(L) : Reads(L[i]) /\ L[i].f = f

\* What is known of a message must be set in the structure.
Needs(g, f) ==
    LET t == g.tcode
        stop == t = TCODE.ProgTraceCorrelation
        res == t = TCODE.ResourceFull
        code == res /\ "rcode" \in DOMAIN g
    IN  \/ f = "src" /\ t # TCODE.Idle
        \/ f = "icnt" /\ (IsCommon(t) \/ stop \/ (code /\ g.rcode = Bits(0)))
        \/ f = "rcode" /\ res
        \/ f = "rdata" /\ code /\ g.rcode \notin {Bits(0), Bits(1), Bits(2)}
        \/ f = "xaddr" /\ has_xaddr(t)
        \/ f = "hist" /\ (has_hist(t) \/ stop \/ (code /\ g.rcode \in {Bits(1), Bits(2)}))
        \/ f = "hrepeat" /\ \/ IsCommon(t) \/ stop \/ t = TCODE.RepeatBranch
                            \/ code /\ g.rcode \in {Bits(1), Bits(2)}

\* It is set, or will be before the message ends.
Fresh ==
    Reading =>
        \/ "tcode" \notin DOMAIN got /\ DOMAIN got = {"timestamp"} /\ phase = "decode"
           /\ todo \in {<<Consume, Fixed("tcode")>>, <<Fixed("tcode")>>}
        \/ /\ "tcode" \in DOMAIN got
           /\ ~Pending(todo, "tcode") \/ rc = "ok"
           /\ \A f \in Fields :
                 Needs(got, f) => f \in DOMAIN got \/ (phase = "decode" /\ Pending(todo, f))

IInv == ArgsOK /\ TypeOK /\ ControlOK /\ Shape /\ MarkOK /\ Fresh

-----------------------------------------------------------------------------
(***************************************************************************)
(* Numbers and bits.                                                       *)
(***************************************************************************)
\* A set of naturals has a least element.
LEMMA LeastNat ==
  ASSUME NEW S, S \subseteq Nat, S # {}
  PROVE  \E x \in S : \A y \in S : x <= y
  <1> DEFINE R == OpToRel(<, Nat)
  <1>1. IsWellFoundedOn(R, Nat)
    BY NatLessThanWellFounded
  <1>2. \A x, y \in Nat : y < x => <<y, x>> \in R
    BY DEF OpToRel
  <1> HIDE DEF R
  <1>3. PICK x \in S : \A y \in S : ~(<<y, x>> \in R)
    BY <1>1, WFMin
  <1>4. \A y \in S : ~(y < x)
    BY <1>2, <1>3, Zenon
  <1> QED
    BY <1>4

\* The width of a value is at most that of the word it is in.
LEMMA BitLengthOK ==
  ASSUME NEW w \in Nat, NEW v \in SUBSET (0 .. w - 1)
  PROVE  BitLength(v) \in 0 .. w
  <1>1. CASE v = {}
    BY <1>1 DEF BitLength
  <1>2. CASE v # {}
    <2> DEFINE S == { w - b : b \in v }
    <2>1. S \subseteq Nat /\ S # {}
      <3>1. \A b \in v : w - b \in Nat
        OBVIOUS
      <3>2. PICK b \in v : TRUE
        BY <1>2
      <3>3. w - b \in S
        OBVIOUS
      <3> QED
        BY <3>1, <3>3
    <2>2. PICK x \in S : \A y \in S : x <= y
      BY <2>1, LeastNat
    <2>3. PICK b \in v : x = w - b
      BY <2>2
    <2>4. \A c \in v : c <= b
      <3> TAKE c \in v
      <3>1. x <= w - c
        BY <2>2
      <3> QED
        BY <2>3, <3>1
    <2> DEFINE top == CHOOSE d \in v : \A c \in v : c <= d
    <2>5. top \in v
      BY <2>4
    <2>6. BitLength(v) = 1 + top
      BY <1>2 DEF BitLength
    <2> HIDE DEF top
    <2> QED
      BY <2>5, <2>6
  <1> QED
    BY <1>1, <1>2

\* Rounding up to multiples of M.
LEMMA RoundUp ==
  ASSUME NEW M \in Nat, M # 0, NEW off \in Nat, NEW n \in Nat, off <= n * M
  PROVE  /\ (off + M - 1) \div M \in 0 .. n
         /\ off <= ((off + M - 1) \div M) * M
         /\ (off + M - 1) \div M = 0 => off = 0
  <1>1. (off + M - 1) \div M \in Nat /\ (off + M - 1) \div M <= n
    OBVIOUS
  <1>2. off <= ((off + M - 1) \div M) * M
    OBVIOUS
  <1> QED
    BY <1>1, <1>2

\* A product grows with its factor.
LEMMA Grows ==
  ASSUME NEW M \in Nat, NEW a \in Nat, NEW b \in Nat, a <= b
  PROVE  a * M \in Nat /\ a * M <= b * M
  OBVIOUS

\* Rounding up to bytes.
LEMMA BytesOK ==
  ASSUME NEW off \in Nat, NEW n \in Nat, off <= n * MDO_BITS
  PROVE  /\ Bytes(off) \in 0 .. n
         /\ Bytes(off) * MDO_BITS \in Nat
         /\ off <= Bytes(off) * MDO_BITS /\ Bytes(off) * MDO_BITS <= n * MDO_BITS
  <1>1. MDO_BITS \in Nat /\ MDO_BITS # 0
    BY CodecAssumption
  <1>2. Bytes(off) \in 0 .. n /\ off <= Bytes(off) * MDO_BITS
    BY <1>1, RoundUp DEF Bytes
  <1>3. Bytes(off) * MDO_BITS \in Nat /\ Bytes(off) * MDO_BITS <= n * MDO_BITS
    BY <1>1, <1>2, Grows
  <1> QED
    BY <1>2, <1>3

\* The powers of two up to the sixth bit.
LEMMA Powers == 2 ^ 0 = 1 /\ 2 ^ 1 = 2 /\ 2 ^ 2 = 4 /\ 2 ^ 3 = 8 /\ 2 ^ 4 = 16 /\ 2 ^ 5 = 32
  OBVIOUS

\* The bits of a number.
LEMMA BitsOf ==
  ASSUME NEW n \in Nat
  PROVE  /\ 0 \in Bits(n) <=> n % 2 = 1
         /\ 1 \in Bits(n) <=> (n \div 2) % 2 = 1
         /\ 2 \in Bits(n) <=> (n \div 4) % 2 = 1
         /\ 3 \in Bits(n) <=> (n \div 8) % 2 = 1
         /\ 4 \in Bits(n) <=> (n \div 16) % 2 = 1
         /\ 5 \in Bits(n) <=> (n \div 32) % 2 = 1
  BY Powers DEF Bits

\* Numbers of six bits differ in one of them.
LEMMA BitsDiffer == \A i, j \in 0 .. 63 : Bits(i) = Bits(j) => i = j
  BY BitsOf

\* No bit of 0 is set.
LEMMA BitsOfZero == Bits(0) = {}
  <1>1. \A b \in 0 .. 5 : b \notin Bits(0)
    <2> TAKE b \in 0 .. 5
    <2>1. b \in {0, 1, 2, 3, 4, 5}
      OBVIOUS
    <2> QED
      BY <2>1, BitsOf
  <1>2. Bits(0) \subseteq 0 .. 5
    BY DEF Bits
  <1> QED
    BY <1>1, <1>2

\* The TCODEs by their numbers.
LEMMA Tcodes ==
  /\ TCODE.Ownership = Bits(2) /\ TCODE.DirectBranch = Bits(3)
  /\ TCODE.IndirectBranch = Bits(4) /\ TCODE.DataAcquisition = Bits(7)
  /\ TCODE.Error = Bits(8) /\ TCODE.ProgTraceSync = Bits(9)
  /\ TCODE.DirectBranchSync = Bits(11) /\ TCODE.IndirectBranchSync = Bits(12)
  /\ TCODE.ResourceFull = Bits(27) /\ TCODE.IndirectBranchHist = Bits(28)
  /\ TCODE.IndirectBranchHistSync = Bits(29) /\ TCODE.RepeatBranch = Bits(30)
  /\ TCODE.ProgTraceCorrelation = Bits(33) /\ TCODE.ICT = Bits(34) /\ TCODE.Idle = Bits(63)
  BY DEF TCODE

\* The TCODEs of the other arms of a switch are different ones.
LEMMA TcodesDiffer ==
  LET arms == {TCODE.Ownership, TCODE.Error, TCODE.DataAcquisition, TCODE.ResourceFull,
               TCODE.RepeatBranch, TCODE.ProgTraceCorrelation, TCODE.ICT, TCODE.Idle}
  IN  /\ \A t \in arms : ~IsCommon(t) /\ ~is_sync(t) /\ ~has_xaddr(t) /\ ~has_hist(t)
      /\ TCODE.Ownership \notin arms \ {TCODE.Ownership}
      /\ TCODE.Error # TCODE.Ownership
      /\ TCODE.DataAcquisition \notin {TCODE.Ownership, TCODE.Error}
      /\ TCODE.ResourceFull \notin {TCODE.Ownership, TCODE.Error, TCODE.DataAcquisition}
      /\ TCODE.RepeatBranch \notin {TCODE.Ownership, TCODE.Error, TCODE.DataAcquisition,
                                    TCODE.ResourceFull}
      /\ TCODE.ProgTraceCorrelation \notin {TCODE.Ownership, TCODE.Error, TCODE.DataAcquisition,
                                            TCODE.ResourceFull, TCODE.RepeatBranch}
      /\ TCODE.ICT \notin {TCODE.Ownership, TCODE.Error, TCODE.DataAcquisition,
                           TCODE.ResourceFull, TCODE.RepeatBranch, TCODE.ProgTraceCorrelation}
      /\ TCODE.Idle \notin {TCODE.Ownership, TCODE.Error, TCODE.DataAcquisition,
                            TCODE.ResourceFull, TCODE.RepeatBranch,
                            TCODE.ProgTraceCorrelation, TCODE.ICT}
  BY Tcodes, BitsDiffer DEF IsCommon, is_sync, is_indir_branch, has_xaddr, has_hist

-----------------------------------------------------------------------------
(***************************************************************************)
(* Steps and their widths.                                                 *)
(***************************************************************************)
\* A step by what it does, and the field it is about.
LEMMA StepKinds ==
  ASSUME NEW s \in Step
  PROVE  /\ s.do \in {"fixed", "var", "req", "vao", "unsupported", "consume", "skip", "idle",
                      "time"}
         /\ s.do = "fixed" => s.f \in FixedFields /\ s = Fixed(s.f)
         /\ s.do = "var" => s.f \in DOMAIN StoredBits /\ s = Var(s.f)
         /\ s.do = "req" => s.f \in DOMAIN StoredBits /\ s = Req(s.f)
         /\ s.do = "vao" => s.f \in DOMAIN StoredBits /\ s = Vao(s.f)
         /\ s.do = "unsupported" => s = Unsupported
         /\ s.do = "consume" => s = Consume
         /\ s.do = "skip" => s = Skip
         /\ s.do = "idle" => s = IdleEnds
         /\ s.do = "time" => s = Time
         /\ Reads(s) => s.f \in Fields
  <1>1. CASE \E f \in FixedFields : s = Fixed(f)
    BY <1>1 DEF Fixed, Reads, FixedFields, Fields
  <1>2. CASE \E f \in DOMAIN StoredBits : s = Var(f) \/ s = Req(f) \/ s = Vao(f)
    BY <1>2 DEF Var, Req, Vao, Reads, Fields
  <1>3. CASE s \in {Unsupported, Consume, Skip, IdleEnds, Time}
    BY <1>3 DEF Unsupported, Consume, Skip, IdleEnds, Time, Reads
  <1> QED
    BY <1>1, <1>2, <1>3 DEF Step

\* Widths are numbers.
LEMMA Widths ==
  ASSUME ArgsOK
  PROVE  /\ \A f \in FixedFields : FixedWidth(f) \in Nat
         /\ \A f \in Fields : StoredWidth(f) \in Nat
  <1>1. \A f \in FixedFields : FixedWidth(f) \in Nat
    BY DEF ArgsOK, FixedFields, FixedWidth, FixedBits
  <1>2. \A f \in DOMAIN StoredBits : StoredBits[f] \in Nat
    BY CodecAssumption DEF StoredBits
  <1> QED
    BY <1>1, <1>2 DEF Fields, FixedFields, StoredWidth

\* The width a sign needs up to the end of a byte.
LEMMA VaoBitsOK ==
  ASSUME NEW v \in SUBSET (0 .. WordBits - 1), NEW off \in Nat
  PROVE  VaoBits(v, off) \in Nat
  <1> DEFINE least == IF BitLength(v) < WordBits THEN BitLength(v) + 1
                      ELSE 1 + BitLength((0 .. WordBits - 1) \ v)
             bytes == (off + least + MDO_BITS - 1) \div MDO_BITS
  <1>1. WordBits \in Nat /\ MDO_BITS \in Nat /\ MDO_BITS # 0
    BY CodecAssumption
  <1>2. BitLength(v) \in Nat /\ BitLength((0 .. WordBits - 1) \ v) \in Nat
    BY <1>1, BitLengthOK
  <1>3. least \in Nat
    BY <1>1, <1>2
  <1> HIDE DEF least
  <1>4. off + least \in Nat /\ off + least <= (off + least) * MDO_BITS
    BY <1>1, <1>3
  <1>5. bytes \in Nat /\ off + least <= bytes * MDO_BITS
    BY <1>1, <1>4, RoundUp
  <1>6. bytes * MDO_BITS \in Nat
    BY <1>1, <1>5
  <1>7. VaoBits(v, off) = IF bytes * MDO_BITS - off > WordBits THEN WordBits
                                                              ELSE bytes * MDO_BITS - off
    BY DEF VaoBits, least, bytes
  <1> HIDE DEF bytes
  <1> QED
    BY <1>1, <1>3, <1>5, <1>6, <1>7

\* The number of bits a step packs is a number.
LEMMA PackWidthOK ==
  ASSUME ArgsOK, NEW s \in Step, Reads(s), bit_offset \in Nat
  PROVE  PackWidth(s) \in Nat
  <1>1. s.f \in Fields
    BY StepKinds
  <1>2. msg[s.f] \in SUBSET (0 .. WordBits - 1) /\ WordBits \in Nat
    BY <1>1, CodecAssumption DEF ArgsOK
  <1>3. BitLength(msg[s.f]) \in Nat
    BY <1>2, BitLengthOK
  <1>4. VaoBits(msg[s.f], bit_offset) \in Nat
    BY <1>2, VaoBitsOK
  <1>5. s.do = "fixed" => FixedWidth(s.f) \in Nat
    BY StepKinds, Widths
  <1> QED
    BY <1>3, <1>4, <1>5 DEF PackWidth, Reads

\* A field packed into the buffer leaves a buffer.
LEMMA PackedOK ==
  ASSUME ArgsOK, buffer \in [0 .. limit - 1 -> Byte], bit_offset \in Nat,
         NEW v \in SUBSET (0 .. WordBits - 1), NEW n \in Nat
  PROVE  Packed(v, n) \in [0 .. limit - 1 -> Byte]
  <1>1. MDO_BITS \in Nat /\ MDO_BITS # 0 /\ WordBits \in Nat
    BY CodecAssumption
  <1>2. ASSUME NEW i \in 0 .. limit - 1 PROVE Packed(v, n)[i] \in Byte
    <2> DEFINE bits == { (bit_offset + b) % MDO_BITS :
                           b \in { c \in v \cap 0 .. n - 1 : (bit_offset + c) \div MDO_BITS = i } }
    <2>1. \A b \in Nat : (bit_offset + b) % MDO_BITS \in 0 .. MDO_BITS - 1
      BY <1>1
    <2>2. bits \subseteq 0 .. MDO_BITS - 1
      <3>1. \A b \in v : b \in Nat
        BY <1>1
      <3> QED
        BY <2>1, <3>1
    <2> HIDE DEF bits
    <2>3. buffer[i] \in Byte /\ buffer[i].mseo \in 0 .. 3
          /\ buffer[i].mdo \subseteq 0 .. MDO_BITS - 1
      BY DEF Byte
    <2>4. \/ Packed(v, n)[i] = buffer[i]
          \/ Packed(v, n)[i] = [mseo |-> buffer[i].mseo, mdo |-> buffer[i].mdo \cup bits]
          \/ Packed(v, n)[i] = [mseo |-> 0, mdo |-> bits]
      BY DEF Packed, bits
    <2> QED
      BY <2>2, <2>3, <2>4 DEF Byte
  <1>3. Packed(v, n) = [i \in 0 .. limit - 1 |-> Packed(v, n)[i]]
    BY DEF Packed
  <1> QED
    BY <1>2, <1>3

\* A byte marked in the buffer leaves a buffer.
LEMMA MarkedOK ==
  ASSUME NEW b \in [0 .. limit - 1 -> Byte], NEW off, NEW mark \in 0 .. 3
  PROVE  Marked(b, off, mark) \in [0 .. limit - 1 -> Byte]
  BY DEF Marked, Byte

-----------------------------------------------------------------------------
(***************************************************************************)
(* Lists of steps.                                                         *)
(***************************************************************************)
\* A list of one step.
LEMMA SeqOne ==
  ASSUME NEW S, NEW L \in Seq(S), Len(L) = 1
  PROVE  L = <<L[1]>> /\ Tail(L) = << >>
  <1>1. L = <<L[1]>>
    OBVIOUS
  <1>2. L # << >>
    OBVIOUS
  <1>3. Tail(L) \in Seq(S) /\ Len(Tail(L)) = 0
    BY <1>2
  <1> QED
    BY <1>1, <1>3, EmptySeq

\* Lists of up to three steps put together.
LEMMA SmallConcat ==
  ASSUME NEW a, NEW b, NEW c
  PROVE  /\ <<a, b>> \o <<c>> = <<a, b, c>> /\ << >> \o <<c>> = <<c>>
         /\ <<a>> \o << >> = <<a>> /\ <<a>> \o <<b>> = <<a, b>>
  <1> DEFINE S == {a, b, c}
             L == <<a, b>> \o <<c>>
             M == <<a, b, c>>
  <1>1. <<a, b>> \in Seq(S) /\ <<c>> \in Seq(S) /\ M \in Seq(S) /\ Len(M) = 3
    OBVIOUS
  <1>2. L \in Seq(S) /\ Len(L) = 3
    BY <1>1
  <1>3. L[1] = a /\ L[2] = b /\ L[3] = c /\ M[1] = a /\ M[2] = b /\ M[3] = c
    BY <1>1
  <1>4. \A i \in 1 .. 3 : L[i] = M[i]
    BY <1>3
  <1>5. L = M
    <2> HIDE DEF L, M
    <2> QED
      BY <1>1, <1>2, <1>4, SeqEqual
  <1>6. <<a>> \o <<b>> = <<a, b>>
    <2> DEFINE K == <<a>> \o <<b>>
               N == <<a, b>>
    <2>1. K \in Seq(S) /\ N \in Seq(S) /\ Len(K) = 2 /\ Len(N) = 2
      OBVIOUS
    <2>2. K[1] = a /\ K[2] = b /\ N[1] = a /\ N[2] = b
      OBVIOUS
    <2>3. \A i \in 1 .. 2 : K[i] = N[i]
      BY <2>2
    <2> HIDE DEF K, N
    <2>4. K = N
      BY <2>1, <2>3, SeqEqual
    <2> QED
      BY <2>4 DEF K, N
  <1>7. <<a>> \in Seq(S)
    OBVIOUS
  <1> QED
    BY <1>1, <1>5, <1>6, <1>7, ConcatEmptySeq

\* The last step of a longer list is the last of its tail.
LEMMA SeqMore ==
  ASSUME NEW S, NEW L \in Seq(S), Len(L) > 1
  PROVE  Tail(L) # << >> /\ Tail(L)[Len(Tail(L))] = L[Len(L)]
  <1>1. Tail(L) # << >>
    OBVIOUS
  <1>2. Len(Tail(L)) = Len(L) - 1 /\ Len(L) \in Nat
        /\ \A i \in 1 .. Len(L) - 1 : Tail(L)[i] = L[i + 1]
    OBVIOUS
  <1>3. Len(L) - 1 \in 1 .. Len(L) - 1 /\ (Len(L) - 1) + 1 = Len(L)
    BY <1>2
  <1> QED
    BY <1>1, <1>2, <1>3

\* The steps of the lists below.
LEMMA Members ==
  /\ \A f \in FixedFields : Fixed(f) \in Step
  /\ \A f \in DOMAIN StoredBits : Var(f) \in Step /\ Req(f) \in Step /\ Vao(f) \in Step
  /\ {Unsupported, Consume, Skip, IdleEnds, Time} \subseteq Step
  /\ {"tcode", "src", "etype", "rcode", "evcode", "cdf", "sync", "btype", "fmt", "prv", "v",
      "cksrc", "ckdf"} \subseteq FixedFields
  /\ {"icnt", "ecode", "rdata", "hist", "hrepeat", "idtag", "timestamp", "context", "xaddr",
      "dqdata", "ckdata0", "ckdata1"} \subseteq DOMAIN StoredBits
  BY DEF Step, FixedFields, FixedBits, StoredBits

\* What nexusrv_msg_encode does with the fields of a message.
LEMMA EncodeLists ==
  ASSUME NEW m PROVE EncodeBody(m) \in Seq(Step) /\ EncodeTime(m) \in Seq(Step)
  <1>1. Xaddr \in Step
    BY Members DEF Xaddr
  <1>2. EncodeTime(m) \in Seq(Step)
    BY Members DEF EncodeTime
  <1>3. \A code : EncodeRes(code) \in Seq(Step)
    BY Members DEF EncodeRes
  <1>4. EncodeIct(m) \in Seq(Step)
    BY Members DEF EncodeIct
  <1>5. \A c, L : L \in Seq(Step) => If(c, L) \in Seq(Step)
    BY DEF If
  <1>6. EncodeBody(m) \in Seq(Step)
    <2>1. <<Fixed("sync")>> \in Seq(Step) /\ <<Fixed("btype")>> \in Seq(Step)
          /\ <<Req("icnt")>> \in Seq(Step) /\ <<Xaddr>> \in Seq(Step)
          /\ <<Req("hist")>> \in Seq(Step)
      BY <1>1, Members
    <2>2. /\ If(is_sync(m.tcode), <<Fixed("sync")>>) \in Seq(Step)
          /\ If(is_indir_branch(m.tcode), <<Fixed("btype")>>) \in Seq(Step)
          /\ If(has_xaddr(m.tcode), <<Xaddr>>) \in Seq(Step)
          /\ If(has_hist(m.tcode), <<Req("hist")>>) \in Seq(Step)
          /\ If(m.cdf = Bits(1), <<Req("hist")>>) \in Seq(Step)
      BY <1>5, <2>1
    <2> QED
      BY <1>1, <1>3, <1>4, <2>1, <2>2, Members DEF EncodeBody
  <1> QED
    BY <1>2, <1>6

\* What nexusrv_msg_encode does is a list of steps.
LEMMA EncodeIsList ==
  ASSUME NEW m PROVE EncodeSteps(m) \in Seq(Step)
  <1>1. EncodeTime(m) \in Seq(Step) /\ EncodeBody(m) \in Seq(Step)
    BY EncodeLists
  <1>2. \A c, L : L \in Seq(Step) => If(c, L) \in Seq(Step)
    BY DEF If
  <1>3. If(hwcfg.src_bits > 0, <<Fixed("src")>>) \in Seq(Step)
    BY Members DEF If
  <1> DEFINE L == If(hwcfg.src_bits > 0, <<Fixed("src")>>) \o EncodeBody(m) \o EncodeTime(m)
  <1>4. L \in Seq(Step)
    BY <1>1, <1>3
  <1>5. EncodeSteps(m) = IF ~known(m) THEN <<Unsupported>>
                         ELSE <<Fixed("tcode")>> \o If(m.tcode # TCODE.Idle, L)
    BY DEF EncodeSteps
  <1> HIDE DEF L
  <1>6. If(m.tcode # TCODE.Idle, L) \in Seq(Step)
    BY <1>2, <1>4
  <1> QED
    BY <1>5, <1>6, Members

\* Plain steps and one that closes.
LEMMA ClosesAppend ==
  ASSUME NEW t, NEW A \in Seq(Plain(t)), NEW c \in Step, Closing(c, t)
  PROVE  A \o <<c>> \in Seq(Step) /\ Closes(A \o <<c>>, t)
  <1>1. A \in Seq(Step)
    BY DEF Plain
  <1>2. Len(A \o <<c>>) = Len(A) + 1 /\ (A \o <<c>>)[Len(A) + 1] = c
        /\ \A i \in 1 .. Len(A) : (A \o <<c>>)[i] = A[i]
    BY <1>1
  <1> QED
    BY <1>1, <1>2 DEF Closes

\* The steps that close a list are no plain ones.
LEMMA Disjoint ==
  ASSUME NEW t, NEW s \in Step, Closing(s, t)
  PROVE  s \notin Plain(t)
  <1>1. CASE s \in {Time, Skip, IdleEnds}
    BY <1>1 DEF Plain, Reads, Time, Skip, IdleEnds, Consume
  <1>2. CASE s \in {Fixed("tcode"), Fixed("rcode"), Req("ckdata0")}
    BY <1>2 DEF Plain, Fixed, Req, Consume
  <1>3. CASE s = Req("icnt") /\ t = TCODE.ProgTraceCorrelation
    BY <1>3 DEF Plain, Req, Consume
  <1> QED
    BY <1>1, <1>2, <1>3 DEF Closing

\* Such a list closes also when its first plain step is done.
LEMMA ClosesTail ==
  ASSUME NEW t, NEW L \in Seq(Step), Closes(L, t), ~Closing(L[1], t)
  PROVE  L[1] \in Plain(t) /\ Tail(L) \in Seq(Step) /\ Closes(Tail(L), t)
  <1>1. Len(L) > 1
    BY DEF Closes
  <1>2. /\ Tail(L) \in Seq(Step) /\ Len(Tail(L)) = Len(L) - 1
        /\ \A i \in 1 .. Len(L) - 1 : Tail(L)[i] = L[i + 1]
    BY <1>1
  <1>3. L[1] \in Plain(t)
    BY <1>1 DEF Closes
  <1>4. Tail(L) # << >> /\ Closing(Tail(L)[Len(Tail(L))], t)
    <2>1. Tail(L) # << >> /\ Tail(L)[Len(Tail(L))] = L[Len(L)]
      BY <1>1, SeqMore
    <2> QED
      BY <2>1 DEF Closes
  <1>5. \A i \in 1 .. Len(Tail(L)) - 1 : Tail(L)[i] \in Plain(t)
    <2> TAKE i \in 1 .. Len(Tail(L)) - 1
    <2>1. i \in 1 .. Len(L) - 1 /\ i + 1 \in 1 .. Len(L) - 1
      BY <1>1, <1>2
    <2> QED
      BY <1>2, <2>1 DEF Closes
  <1> QED
    BY <1>2, <1>3, <1>4, <1>5 DEF Closes

\* A list that closes with its first step has no other step.
LEMMA ClosesFirst ==
  ASSUME NEW t, NEW L \in Seq(Step), Closes(L, t), Closing(L[1], t)
  PROVE  Len(L) = 1 /\ L = <<L[1]>> /\ Tail(L) = << >>
  <1>1. Len(L) \in Nat /\ L[1] \in Step
    BY DEF Closes
  <1>2. L[1] \notin Plain(t)
    BY <1>1, Disjoint
  <1>3. Len(L) # 0 /\ ~(Len(L) > 1)
    BY <1>1, <1>2 DEF Closes
  <1>4. Len(L) = 1
    <2>1. \A n \in Nat : n # 0 /\ ~(n > 1) => n = 1
      OBVIOUS
    <2> QED
      BY <1>1, <1>3, <2>1
  <1> QED
    BY <1>4, SeqOne

\* Which fields a list reads.
LEMMA PendingConcat ==
  ASSUME NEW A \in Seq(Step), NEW B \in Seq(Step), NEW f
  PROVE  Pending(A \o B, f) <=> Pending(A, f) \/ Pending(B, f)
  <1>1. Len(A \o B) = Len(A) + Len(B) /\ Len(A) \in Nat /\ Len(B) \in Nat
        /\ (\A i \in 1 .. Len(A) : (A \o B)[i] = A[i])
        /\ (\A i \in 1 .. Len(B) : (A \o B)[Len(A) + i] = B[i])
        /\ (\A i \in Len(A) + 1 .. Len(A) + Len(B) : (A \o B)[i] = B[i - Len(A)])
    OBVIOUS
  <1>2. Pending(A, f) => Pending(A \o B, f)
    BY <1>1 DEF Pending
  <1>3. ASSUME Pending(B, f) PROVE Pending(A \o B, f)
    <2>1. PICK i \in 1 .. Len(B) : Reads(B[i]) /\ B[i].f = f
      BY <1>3 DEF Pending
    <2>2. Len(A) + i \in 1 .. Len(A \o B) /\ (A \o B)[Len(A) + i] = B[i]
      BY <1>1
    <2> QED
      BY <2>1, <2>2 DEF Pending
  <1>4. ASSUME Pending(A \o B, f) PROVE Pending(A, f) \/ Pending(B, f)
    <2>1. PICK i \in 1 .. Len(A \o B) : Reads((A \o B)[i]) /\ (A \o B)[i].f = f
      BY <1>4 DEF Pending
    <2>2. CASE i <= Len(A)
      BY <1>1, <2>1, <2>2 DEF Pending
    <2>3. CASE i > Len(A)
      <3>1. i - Len(A) \in 1 .. Len(B) /\ (A \o B)[i] = B[i - Len(A)]
        BY <1>1, <2>3
      <3> QED
        BY <2>1, <3>1 DEF Pending
    <2> QED
      BY <1>1, <2>2, <2>3
  <1> QED
    BY <1>2, <1>3, <1>4

\* A step that is done reads its own field.
LEMMA PendingTail ==
  ASSUME NEW L \in Seq(Step), L # << >>, NEW f
  PROVE  /\ Pending(Tail(L), f) => Pending(L, f)
         /\ Pending(L, f) => Pending(Tail(L), f) \/ (Reads(L[1]) /\ L[1].f = f)
  <1>1. /\ Len(L) \in Nat /\ Len(L) > 0 /\ Len(Tail(L)) = Len(L) - 1
        /\ \A i \in 1 .. Len(L) - 1 : Tail(L)[i] = L[i + 1]
    OBVIOUS
  <1>2. Pending(Tail(L), f) => Pending(L, f)
    BY <1>1 DEF Pending
  <1>3. ASSUME Pending(L, f), ~(Reads(L[1]) /\ L[1].f = f) PROVE Pending(Tail(L), f)
    <2>1. PICK i \in 1 .. Len(L) : Reads(L[i]) /\ L[i].f = f
      BY <1>3 DEF Pending
    <2>2. i - 1 \in 1 .. Len(L) - 1 /\ Tail(L)[i - 1] = L[i]
      BY <1>1, <1>3, <2>1
    <2> QED
      BY <1>1, <2>1, <2>2 DEF Pending
  <1> QED
    BY <1>2, <1>3

\* The fields of a single step, and of none.
LEMMA PendingOne ==
  ASSUME NEW s, NEW f
  PROVE  /\ Pending(<<s>>, f) <=> Reads(s) /\ s.f = f
         /\ ~Pending(<< >>, f)
  BY DEF Pending

-----------------------------------------------------------------------------
(***************************************************************************)
(* The lists of nexusrv_msg_decode: they close, and read what is needed.   *)
(***************************************************************************)
\* Fields read without more to follow from them.
LEMMA PlainSteps ==
  ASSUME NEW t
  PROVE  /\ Consume \in Plain(t)
         /\ \A f \in FixedFields \ {"tcode", "rcode"} : Fixed(f) \in Plain(t)
         /\ \A f \in DOMAIN StoredBits \ {"icnt", "ckdata0"} :
               Var(f) \in Plain(t) /\ Req(f) \in Plain(t) /\ Vao(f) \in Plain(t)
         /\ t # TCODE.ProgTraceCorrelation => Req("icnt") \in Plain(t)
  <1>1. Consume \in Plain(t)
    BY Members DEF Plain
  <1>2. ASSUME NEW f \in FixedFields \ {"tcode", "rcode"} PROVE Fixed(f) \in Plain(t)
    <2>1. Fixed(f) \in Step /\ Reads(Fixed(f)) /\ Fixed(f).f = f
      BY Members DEF Reads, Fixed
    <2>2. f \notin {"icnt", "ckdata0"}
      BY DEF FixedFields, FixedBits
    <2> QED
      BY <2>1, <2>2 DEF Plain
  <1>3. ASSUME NEW f \in DOMAIN StoredBits \ {"icnt", "ckdata0"}
        PROVE  Var(f) \in Plain(t) /\ Req(f) \in Plain(t) /\ Vao(f) \in Plain(t)
    <2>1. f \notin {"tcode", "rcode"}
      BY DEF StoredBits
    <2> QED
      BY <2>1, Members DEF Plain, Reads, Var, Req, Vao
  <1>4. t # TCODE.ProgTraceCorrelation => Req("icnt") \in Plain(t)
    BY Members DEF Plain, Reads, Req
  <1> QED
    BY <1>1, <1>2, <1>3, <1>4

\* The fields named in a list of at most five steps.
LEMMA ReadsOf ==
  /\ \A f : /\ Reads(Fixed(f)) /\ Fixed(f).f = f /\ Reads(Var(f)) /\ Var(f).f = f
            /\ Reads(Req(f)) /\ Req(f).f = f /\ Reads(Vao(f)) /\ Vao(f).f = f
  /\ \A s \in {Unsupported, Consume, Skip, IdleEnds, Time} : ~Reads(s)
  BY DEF Reads, Fixed, Var, Req, Vao, Unsupported, Consume, Skip, IdleEnds, Time

\* The list of a common message.
LEMMA CommonBody ==
  ASSUME NEW t, IsCommon(t)
  PROVE  /\ DecodeBody(t) \in Seq(Step) /\ Closes(DecodeBody(t), t)
         /\ ~Pending(DecodeBody(t), "tcode") /\ Pending(DecodeBody(t), "icnt")
         /\ has_xaddr(t) => Pending(DecodeBody(t), "xaddr")
         /\ has_hist(t) => Pending(DecodeBody(t), "hist")
  <1> DEFINE A == If(is_sync(t), <<Fixed("sync")>>)
             B == If(is_indir_branch(t), <<Fixed("btype")>>)
             C == <<Req("icnt")>>
             D == If(has_xaddr(t), <<Consume, Xaddr>>)
             E == If(has_hist(t), <<Consume, Req("hist")>>)
             F == A \o B \o C \o D \o E
  <1>1. t # TCODE.ProgTraceCorrelation
    BY TcodesDiffer
  <1>2. DecodeBody(t) = F \o <<Time>>
    BY TcodesDiffer DEF DecodeBody
  <1>3. /\ A \in Seq(Plain(t)) /\ B \in Seq(Plain(t)) /\ C \in Seq(Plain(t))
        /\ D \in Seq(Plain(t)) /\ E \in Seq(Plain(t))
    BY <1>1, PlainSteps, Members DEF If, Xaddr
  <1>4. /\ ~Pending(A, "tcode") /\ ~Pending(B, "tcode") /\ ~Pending(C, "tcode")
        /\ ~Pending(D, "tcode") /\ ~Pending(E, "tcode")
        /\ Pending(C, "icnt")
        /\ has_xaddr(t) => Pending(D, "xaddr")
        /\ has_hist(t) => Pending(E, "hist")
        /\ ~Pending(<<Time>>, "tcode")
    BY ReadsOf DEF Pending, If, Xaddr
  <1> HIDE DEF A, B, C, D, E
  <1>5. F \in Seq(Plain(t)) /\ Time \in Step /\ Closing(Time, t)
    BY <1>3, Members DEF Closing
  <1>6. /\ A \in Seq(Step) /\ B \in Seq(Step) /\ C \in Seq(Step) /\ D \in Seq(Step)
        /\ E \in Seq(Step) /\ <<Time>> \in Seq(Step)
    BY <1>3, Members DEF Plain
  <1>7. \A f : Pending(F \o <<Time>>, f) <=>
                  \/ Pending(A, f) \/ Pending(B, f) \/ Pending(C, f) \/ Pending(D, f)
                  \/ Pending(E, f) \/ Pending(<<Time>>, f)
    <2> DEFINE G == A \o B
               H == G \o C
               I == H \o D
    <2>1. \A f : Pending(G, f) <=> Pending(A, f) \/ Pending(B, f)
      BY <1>6, PendingConcat
    <2>2. G \in Seq(Step)
      BY <1>6
    <2> HIDE DEF G
    <2>3. \A f : Pending(H, f) <=> Pending(G, f) \/ Pending(C, f)
      BY <1>6, <2>2, PendingConcat
    <2>4. H \in Seq(Step)
      BY <1>6, <2>2
    <2> HIDE DEF H
    <2>5. \A f : Pending(I, f) <=> Pending(H, f) \/ Pending(D, f)
      BY <1>6, <2>4, PendingConcat
    <2>6. I \in Seq(Step)
      BY <1>6, <2>4
    <2> HIDE DEF I
    <2>7. F = I \o E
      BY DEF G, H, I
    <2>8. \A f : Pending(F, f) <=> Pending(I, f) \/ Pending(E, f)
      BY <1>6, <2>6, <2>7, PendingConcat
    <2>9. F \in Seq(Step)
      BY <1>6, <2>6, <2>7
    <2> HIDE DEF F
    <2>10. \A f : Pending(F \o <<Time>>, f) <=> Pending(F, f) \/ Pending(<<Time>>, f)
      BY <1>6, <2>9, PendingConcat
    <2> QED
      BY <2>1, <2>3, <2>5, <2>8, <2>10
  <1> HIDE DEF F
  <1> QED
    BY <1>2, <1>4, <1>5, <1>7, ClosesAppend

\* A list that closes, does not read the TCODE again, and reads the fields fs.
ListOK(L, t, fs) == /\ L \in Seq(Step) /\ Closes(L, t)
                    /\ ~Pending(L, "tcode")
                    /\ \A f \in fs : Pending(L, f)

\* Lists of one to five steps.
LEMMA ShortLists ==
  ASSUME NEW t, NEW c \in Step, Closing(c, t)
  PROVE  /\ Closes(<<c>>, t)
         /\ \A x \in Plain(t) : Closes(<<x, c>>, t)
         /\ \A x, y \in Plain(t) : Closes(<<x, y, c>>, t)
         /\ \A x, y, z \in Plain(t) : Closes(<<x, y, z, c>>, t)
         /\ \A x, y, z, u \in Plain(t) : Closes(<<x, y, z, u, c>>, t)
  BY DEF Closes

\* The TCODE is read by no plain step.
LEMMA NoTcode ==
  ASSUME NEW t, NEW L \in Seq(Step), Closes(L, t),
         ~Reads(L[Len(L)]) \/ L[Len(L)].f # "tcode"
  PROVE  ~Pending(L, "tcode")
  <1>1. \A s \in Plain(t) : ~Reads(s) \/ s.f # "tcode"
    BY ReadsOf DEF Plain
  <1>2. \A i \in 1 .. Len(L) : i = Len(L) \/ i \in 1 .. Len(L) - 1
    OBVIOUS
  <1> QED
    BY <1>1, <1>2 DEF Pending, Closes

\* Lists in a row.
LEMMA ShortOK ==
  ASSUME NEW t, NEW c \in Step, Closing(c, t), ~Reads(c) \/ c.f # "tcode"
  PROVE  /\ ListOK(<<c>>, t, {})
         /\ \A x \in Plain(t) : ListOK(<<x, c>>, t, {})
         /\ \A x, y \in Plain(t) : ListOK(<<x, y, c>>, t, {})
         /\ \A x, y, z \in Plain(t) : ListOK(<<x, y, z, c>>, t, {})
         /\ \A x, y, z, u \in Plain(t) : ListOK(<<x, y, z, u, c>>, t, {})
  <1>1. Plain(t) \subseteq Step
    BY DEF Plain
  <1>2. ListOK(<<c>>, t, {})
    <2>1. <<c>> \in Seq(Step) /\ Len(<<c>>) = 1 /\ <<c>>[1] = c
      OBVIOUS
    <2> QED
      BY <2>1, NoTcode, ShortLists DEF ListOK
  <1>3. ASSUME NEW x \in Plain(t) PROVE ListOK(<<x, c>>, t, {})
    <2>1. <<x, c>> \in Seq(Step) /\ Len(<<x, c>>) = 2 /\ <<x, c>>[2] = c
      BY <1>1
    <2> QED
      BY <2>1, NoTcode, ShortLists DEF ListOK
  <1>4. ASSUME NEW x \in Plain(t), NEW y \in Plain(t) PROVE ListOK(<<x, y, c>>, t, {})
    <2>1. <<x, y, c>> \in Seq(Step) /\ Len(<<x, y, c>>) = 3 /\ <<x, y, c>>[3] = c
      BY <1>1
    <2> QED
      BY <2>1, NoTcode, ShortLists DEF ListOK
  <1>5. ASSUME NEW x \in Plain(t), NEW y \in Plain(t), NEW z \in Plain(t)
        PROVE  ListOK(<<x, y, z, c>>, t, {})
    <2>1. <<x, y, z, c>> \in Seq(Step) /\ Len(<<x, y, z, c>>) = 4 /\ <<x, y, z, c>>[4] = c
      BY <1>1
    <2> QED
      BY <2>1, NoTcode, ShortLists DEF ListOK
  <1>6. ASSUME NEW x \in Plain(t), NEW y \in Plain(t), NEW z \in Plain(t), NEW u \in Plain(t)
        PROVE  ListOK(<<x, y, z, u, c>>, t, {})
    <2>1. /\ <<x, y, z, u, c>> \in Seq(Step) /\ Len(<<x, y, z, u, c>>) = 5
          /\ <<x, y, z, u, c>>[5] = c
      BY <1>1
    <2> QED
      BY <2>1, NoTcode, ShortLists DEF ListOK
  <1> QED
    BY <1>2, <1>3, <1>4, <1>5, <1>6

\* The lists of the other messages.
LEMMA OtherBodies ==
  /\ ListOK(DecodeBody(TCODE.Ownership), TCODE.Ownership, {})
  /\ ListOK(DecodeBody(TCODE.Error), TCODE.Error, {})
  /\ ListOK(DecodeBody(TCODE.DataAcquisition), TCODE.DataAcquisition, {})
  /\ ListOK(DecodeBody(TCODE.ResourceFull), TCODE.ResourceFull, {"rcode"})
  /\ ListOK(DecodeBody(TCODE.RepeatBranch), TCODE.RepeatBranch, {"hrepeat"})
  /\ ListOK(DecodeBody(TCODE.ProgTraceCorrelation), TCODE.ProgTraceCorrelation, {"icnt"})
  /\ ListOK(DecodeBody(TCODE.ICT), TCODE.ICT, {})
  <1>1. ListOK(DecodeBody(TCODE.Ownership), TCODE.Ownership, {})
    <2>1. DecodeBody(TCODE.Ownership) =
             <<Fixed("fmt"), Fixed("prv"), Fixed("v"), Var("context"), Time>>
      BY TcodesDiffer DEF DecodeBody
    <2>2. Time \in Step /\ Closing(Time, TCODE.Ownership)
          /\ (~Reads(Time) \/ Time.f # "tcode")
      BY Members, ReadsOf DEF Closing
    <2>3. Fixed("fmt") \in Plain(TCODE.Ownership) /\ Fixed("prv") \in Plain(TCODE.Ownership)
          /\ Fixed("v") \in Plain(TCODE.Ownership) /\ Var("context") \in Plain(TCODE.Ownership)
      BY Members, PlainSteps
    <2>5. ListOK(DecodeBody(TCODE.Ownership), TCODE.Ownership, {})
      BY <2>1, <2>2, <2>3, ShortOK
    <2> QED
      BY <2>5 DEF ListOK
  <1>2. ListOK(DecodeBody(TCODE.Error), TCODE.Error, {})
    <2>1. DecodeBody(TCODE.Error) =
             <<Fixed("etype"), Var("ecode"), Time>>
      BY TcodesDiffer DEF DecodeBody
    <2>2. Time \in Step /\ Closing(Time, TCODE.Error)
          /\ (~Reads(Time) \/ Time.f # "tcode")
      BY Members, ReadsOf DEF Closing
    <2>3. Fixed("etype") \in Plain(TCODE.Error) /\ Var("ecode") \in Plain(TCODE.Error)
      BY Members, PlainSteps
    <2>5. ListOK(DecodeBody(TCODE.Error), TCODE.Error, {})
      BY <2>1, <2>2, <2>3, ShortOK
    <2> QED
      BY <2>5 DEF ListOK
  <1>3. ListOK(DecodeBody(TCODE.DataAcquisition), TCODE.DataAcquisition, {})
    <2>1. DecodeBody(TCODE.DataAcquisition) =
             <<Req("idtag"), Consume, Req("dqdata"), Time>>
      BY TcodesDiffer DEF DecodeBody
    <2>2. Time \in Step /\ Closing(Time, TCODE.DataAcquisition)
          /\ (~Reads(Time) \/ Time.f # "tcode")
      BY Members, ReadsOf DEF Closing
    <2>3. Req("idtag") \in Plain(TCODE.DataAcquisition) /\ Consume \in Plain(TCODE.DataAcquisition)
          /\ Req("dqdata") \in Plain(TCODE.DataAcquisition)
      BY Members, PlainSteps
    <2>5. ListOK(DecodeBody(TCODE.DataAcquisition), TCODE.DataAcquisition, {})
      BY <2>1, <2>2, <2>3, ShortOK
    <2> QED
      BY <2>5 DEF ListOK
  <1>4. ListOK(DecodeBody(TCODE.ResourceFull), TCODE.ResourceFull, {"rcode"})
    <2>1. DecodeBody(TCODE.ResourceFull) =
             <<Fixed("rcode")>>
      BY TcodesDiffer DEF DecodeBody
    <2>2. Fixed("rcode") \in Step /\ Closing(Fixed("rcode"), TCODE.ResourceFull)
          /\ (~Reads(Fixed("rcode")) \/ Fixed("rcode").f # "tcode")
      BY Members, ReadsOf DEF Closing
    <2>4. Pending(DecodeBody(TCODE.ResourceFull), "rcode")
      BY <2>1, ReadsOf DEF Pending
    <2>5. ListOK(DecodeBody(TCODE.ResourceFull), TCODE.ResourceFull, {})
      BY <2>1, <2>2, ShortOK
    <2> QED
      BY <2>4, <2>5 DEF ListOK
  <1>5. ListOK(DecodeBody(TCODE.RepeatBranch), TCODE.RepeatBranch, {"hrepeat"})
    <2>1. DecodeBody(TCODE.RepeatBranch) =
             <<Req("hrepeat"), Time>>
      BY TcodesDiffer DEF DecodeBody
    <2>2. Time \in Step /\ Closing(Time, TCODE.RepeatBranch)
          /\ (~Reads(Time) \/ Time.f # "tcode")
      BY Members, ReadsOf DEF Closing
    <2>3. Req("hrepeat") \in Plain(TCODE.RepeatBranch)
      BY Members, PlainSteps
    <2>4. Pending(DecodeBody(TCODE.RepeatBranch), "hrepeat")
      BY <2>1, ReadsOf DEF Pending
    <2>5. ListOK(DecodeBody(TCODE.RepeatBranch), TCODE.RepeatBranch, {})
      BY <2>1, <2>2, <2>3, ShortOK
    <2> QED
      BY <2>4, <2>5 DEF ListOK
  <1>6. ListOK(DecodeBody(TCODE.ProgTraceCorrelation), TCODE.ProgTraceCorrelation, {"icnt"})
    <2>1. DecodeBody(TCODE.ProgTraceCorrelation) =
             <<Fixed("evcode"), Fixed("cdf"), Req("icnt")>>
      BY TcodesDiffer DEF DecodeBody
    <2>2. Req("icnt") \in Step /\ Closing(Req("icnt"), TCODE.ProgTraceCorrelation)
          /\ (~Reads(Req("icnt")) \/ Req("icnt").f # "tcode")
      BY Members, ReadsOf DEF Closing
    <2>3. Fixed("evcode") \in Plain(TCODE.ProgTraceCorrelation) /\ Fixed("cdf") \in Plain(TCODE.ProgTraceCorrelation)
      BY Members, PlainSteps
    <2>4. Pending(DecodeBody(TCODE.ProgTraceCorrelation), "icnt")
      BY <2>1, ReadsOf DEF Pending
    <2>5. ListOK(DecodeBody(TCODE.ProgTraceCorrelation), TCODE.ProgTraceCorrelation, {})
      BY <2>1, <2>2, <2>3, ShortOK
    <2> QED
      BY <2>4, <2>5 DEF ListOK
  <1>7. ListOK(DecodeBody(TCODE.ICT), TCODE.ICT, {})
    <2>1. DecodeBody(TCODE.ICT) =
             <<Fixed("cksrc"), Fixed("ckdf"), Req("ckdata0")>>
      BY TcodesDiffer DEF DecodeBody
    <2>2. Req("ckdata0") \in Step /\ Closing(Req("ckdata0"), TCODE.ICT)
          /\ (~Reads(Req("ckdata0")) \/ Req("ckdata0").f # "tcode")
      BY Members, ReadsOf DEF Closing
    <2>3. Fixed("cksrc") \in Plain(TCODE.ICT) /\ Fixed("ckdf") \in Plain(TCODE.ICT)
      BY Members, PlainSteps
    <2>5. ListOK(DecodeBody(TCODE.ICT), TCODE.ICT, {})
      BY <2>1, <2>2, <2>3, ShortOK
    <2> QED
      BY <2>5 DEF ListOK
  <1> QED
    BY <1>1, <1>2, <1>3, <1>4, <1>5, <1>6, <1>7

\* What a message needs of its body.
LEMMA BodyOK ==
  ASSUME NEW t
  PROVE  /\ DecodeBody(t) \in Seq(Step) /\ Closes(DecodeBody(t), t)
         /\ ~Pending(DecodeBody(t), "tcode")
         /\ IsCommon(t) => Pending(DecodeBody(t), "icnt")
         /\ has_xaddr(t) => Pending(DecodeBody(t), "xaddr")
         /\ has_hist(t) => Pending(DecodeBody(t), "hist")
         /\ t = TCODE.ResourceFull => Pending(DecodeBody(t), "rcode")
         /\ t = TCODE.RepeatBranch => Pending(DecodeBody(t), "hrepeat")
  <1> DEFINE arms == {TCODE.Ownership, TCODE.Error, TCODE.DataAcquisition, TCODE.ResourceFull,
                      TCODE.RepeatBranch, TCODE.ProgTraceCorrelation, TCODE.ICT}
  <1>1. CASE IsCommon(t)
    <2>1. t \notin {TCODE.ResourceFull, TCODE.RepeatBranch}
      BY <1>1, TcodesDiffer
    <2> QED
      BY <1>1, <2>1, CommonBody
  <1>2. CASE t \in arms
    <2>1. ~IsCommon(t) /\ ~has_xaddr(t) /\ ~has_hist(t)
      BY <1>2, TcodesDiffer
    <2> QED
      BY <1>2, <2>1, OtherBodies, TcodesDiffer DEF ListOK
  <1>3. CASE ~IsCommon(t) /\ t \notin arms
    <2>1. DecodeBody(t) = <<Skip>>
      BY <1>3 DEF DecodeBody
    <2>2. Skip \in Step /\ Closing(Skip, t) /\ ~Reads(Skip)
      BY Members, ReadsOf DEF Closing
    <2>3. ListOK(<<Skip>>, t, {})
      BY <2>2, ShortOK
    <2>4. ~has_xaddr(t) /\ ~has_hist(t)
      BY <1>3 DEF IsCommon, has_xaddr, has_hist, is_indir_branch
    <2> QED
      BY <1>3, <2>1, <2>3, <2>4 DEF ListOK
  <1> QED
    BY <1>1, <1>2, <1>3

\* The fields of a ResourceFull, by its code.
LEMMA ResListOK ==
  ASSUME NEW code
  PROVE  /\ ListOK(DecodeRes(code), TCODE.ResourceFull, {})
         /\ code \notin {Bits(0), Bits(1), Bits(2)} => Pending(DecodeRes(code), "rdata")
  <1> DEFINE t == TCODE.ResourceFull
  <1>1. Time \in Step /\ Closing(Time, t) /\ ~Reads(Time)
    BY Members, ReadsOf DEF Closing
  <1>2. /\ Req("icnt") \in Plain(t) /\ Req("hist") \in Plain(t) /\ Req("hrepeat") \in Plain(t)
        /\ Var("rdata") \in Plain(t) /\ Consume \in Plain(t)
    BY Members, PlainSteps, TcodesDiffer
  <1> HIDE DEF t
  <1>3. /\ ListOK(<<Req("icnt"), Time>>, t, {}) /\ ListOK(<<Req("hist"), Time>>, t, {})
        /\ ListOK(<<Req("hist"), Consume, Req("hrepeat"), Time>>, t, {})
        /\ ListOK(<<Var("rdata"), Time>>, t, {})
    BY <1>1, <1>2, ShortOK
  <1>4. Pending(<<Var("rdata"), Time>>, "rdata")
    BY ReadsOf DEF Pending
  <1>5. CASE code \in {Bits(0), Bits(1), Bits(2)}
    <2>1. DecodeRes(code) \in {<<Req("icnt"), Time>>, <<Req("hist"), Time>>,
                               <<Req("hist"), Consume, Req("hrepeat"), Time>>}
      BY <1>5, BitsDiffer DEF DecodeRes
    <2> QED
      BY <1>3, <1>5, <2>1 DEF t
  <1>6. CASE code \notin {Bits(0), Bits(1), Bits(2)}
    <2>1. DecodeRes(code) = <<Var("rdata"), Time>>
      BY <1>6 DEF DecodeRes
    <2> QED
      BY <1>3, <1>4, <2>1 DEF t
  <1> QED
    BY <1>5, <1>6

\* What follows a field closes the list, where the field did.
LEMMA MoreCloses ==
  ASSUME NEW m, NEW s \in Step, Reads(s), Closing(s, m.tcode)
  PROVE  ListOK(DecodeMore(s.f, m), m.tcode, {})
  <1> DEFINE t == m.tcode
  <1>1. /\ Time \in Step /\ Closing(Time, t) /\ ~Reads(Time)
        /\ IdleEnds \in Step /\ Closing(IdleEnds, t) /\ ~Reads(IdleEnds)
    BY Members, ReadsOf DEF Closing
  <1>2. \/ s.f = "tcode"
        \/ s.f = "rcode" /\ t = TCODE.ResourceFull
        \/ s.f = "icnt" /\ t = TCODE.ProgTraceCorrelation
        \/ s.f = "ckdata0" /\ t = TCODE.ICT
    BY ReadsOf DEF Closing
  <1>3. CASE s.f = "tcode" /\ t = TCODE.Idle
    <2>1. DecodeMore(s.f, m) = <<IdleEnds>>
      BY <1>3 DEF DecodeMore
    <2> QED
      BY <1>1, <2>1, ShortOK
  <1>4. CASE s.f = "tcode" /\ t # TCODE.Idle
    <2> DEFINE A == If(hwcfg.src_bits > 0, <<Fixed("src")>>)
    <2>1. DecodeMore(s.f, m) = A \o DecodeBody(t)
      BY <1>4 DEF DecodeMore
    <2>2. Fixed("src") \in Plain(t)
      BY Members, PlainSteps
    <2>3. CASE A = << >>
      <3>1. DecodeMore(s.f, m) = DecodeBody(t)
        BY <2>1, <2>3, BodyOK, ConcatEmptySeq
      <3> QED
        BY <3>1, BodyOK DEF ListOK
    <2>4. CASE A = <<Fixed("src")>>
      <3> DEFINE B == DecodeBody(t)
                 L == <<Fixed("src")>> \o B
      <3>1. B \in Seq(Step) /\ Closes(B, t) /\ ~Pending(B, "tcode") /\ Fixed("src") \in Step
        BY BodyOK, Members
      <3> HIDE DEF B
      <3>2. /\ L \in Seq(Step) /\ Len(L) = Len(B) + 1 /\ L[1] = Fixed("src")
            /\ Len(B) \in Nat /\ Len(B) > 0
            /\ \A i \in 1 .. Len(B) : L[i + 1] = B[i]
        BY <3>1 DEF Closes
      <3>3. L # << >> /\ Closing(L[Len(L)], t)
        BY <3>1, <3>2 DEF Closes
      <3>4. \A i \in 1 .. Len(L) - 1 : L[i] \in Plain(t)
        <4> TAKE i \in 1 .. Len(L) - 1
        <4>1. CASE i = 1
          BY <2>2, <3>2, <4>1
        <4>2. CASE i # 1
          <5>1. i - 1 \in 1 .. Len(B) - 1 /\ (i - 1) + 1 = i
            BY <3>2, <4>2
          <5>2. L[i] = B[i - 1]
            BY <3>2, <5>1
          <5> QED
            BY <3>1, <5>1, <5>2 DEF Closes
        <4> QED
          BY <4>1, <4>2
      <3>5. ~Pending(<<Fixed("src")>>, "tcode")
        BY ReadsOf, PendingOne
      <3>6. ~Pending(L, "tcode")
        <4>1. <<Fixed("src")>> \in Seq(Step)
          BY <3>1
        <4> QED
          BY <3>1, <3>5, <4>1, PendingConcat
      <3> QED
        BY <2>1, <2>4, <3>2, <3>3, <3>4, <3>6 DEF ListOK, Closes, B
    <2> QED
      BY <2>3, <2>4 DEF If
  <1>5. CASE s.f = "rcode" /\ t = TCODE.ResourceFull
    <2>1. DecodeMore(s.f, m) = DecodeRes(m.rcode)
      BY <1>5 DEF DecodeMore
    <2> QED
      BY <1>5, <2>1, ResListOK
  <1>6. CASE s.f = "icnt" /\ t = TCODE.ProgTraceCorrelation
    <2>1. Req("hist") \in Plain(t) /\ Consume \in Plain(t)
      BY Members, PlainSteps
    <2>2. ListOK(<<Consume, Req("hist"), Time>>, t, {}) /\ ListOK(<<Time>>, t, {})
      BY <1>1, <2>1, ShortOK
    <2>3. DecodeMore(s.f, m) = If(m.cdf = Bits(1), <<Consume, Req("hist")>>) \o <<Time>>
      BY <1>6 DEF DecodeMore
    <2>4. DecodeMore(s.f, m) \in {<<Consume, Req("hist"), Time>>, <<Time>>}
      BY <2>3, SmallConcat DEF If
    <2> QED
      BY <2>2, <2>4
  <1>7. CASE s.f = "ckdata0" /\ t = TCODE.ICT
    <2>1. Req("ckdata1") \in Plain(t) /\ Consume \in Plain(t)
      BY Members, PlainSteps
    <2>2. ListOK(<<Consume, Req("ckdata1"), Time>>, t, {}) /\ ListOK(<<Time>>, t, {})
      BY <1>1, <2>1, ShortOK
    <2>3. DecodeMore(s.f, m) = If(m.ckdf # Bits(0), <<Consume, Req("ckdata1")>>) \o <<Time>>
      BY <1>7 DEF DecodeMore
    <2>4. DecodeMore(s.f, m) \in {<<Consume, Req("ckdata1"), Time>>, <<Time>>}
      BY <2>3, SmallConcat DEF If
    <2> QED
      BY <2>2, <2>4
  <1> QED
    BY <1>2, <1>3, <1>4, <1>5, <1>6, <1>7

\* Nothing follows a plain field.
LEMMA MoreOfPlain ==
  ASSUME NEW m, NEW s \in Plain(m.tcode), Reads(s)
  PROVE  DecodeMore(s.f, m) = << >>
  <1>1. s.f \notin {"tcode", "rcode", "ckdata0"}
        /\ ~(s.f = "icnt" /\ m.tcode = TCODE.ProgTraceCorrelation)
    BY ReadsOf DEF Plain
  <1> QED
    BY <1>1 DEF DecodeMore

-----------------------------------------------------------------------------
(***************************************************************************)
(* The steps of the encoder.                                               *)
(***************************************************************************)
\* The widths of bytes and words.
LEMMA Constants == MDO_BITS \in Nat /\ MDO_BITS # 0 /\ WordBits \in Nat
  BY CodecAssumption

\* The arguments of a call stay what they are.
LEMMA ArgsStay == ArgsOK /\ UNCHANGED <<hwcfg, msg, limit>> => ArgsOK'
  BY DEF ArgsOK

\* The fields already read stay what they are.
LEMMA WidthsStay ==
  ASSUME UNCHANGED <<hwcfg, got>>, \A f \in DOMAIN got : got[f] \subseteq 0 .. StoredWidth(f) - 1
  PROVE  \A f \in DOMAIN got' : got'[f] \subseteq 0 .. StoredWidth(f)' - 1
  BY DEF StoredWidth, FixedWidth

\* A call that fails is over.
LEMMA FailureStep ==
  ASSUME IInv, NEW code, code # "ok", Return(code),
         UNCHANGED <<hwcfg, msg, limit, buffer, size, todo, got>>
  PROVE  IInv'
  <1>1. ArgsOK' /\ ControlOK'
    BY ArgsStay DEF IInv, ControlOK, Return
  <1>2. TypeOK'
    BY WidthsStay DEF IInv, TypeOK, Return
  <1>3. Shape' /\ MarkOK' /\ Fresh'
    BY DEF Shape, MarkOK, Fresh, Reading, Return
  <1> QED
    BY <1>1, <1>2, <1>3 DEF IInv

\* The steps of nexusrv_msg_encode preserve the invariant.
LEMMA EncodeStep ==
  ASSUME IInv, PackTruncates \/ PackFixed \/ PackVar \/ PackUnsupported \/ EncodeEnds
  PROVE  IInv'
  <1>1. CASE PackTruncates
    BY <1>1, FailureStep DEF PackTruncates, decoderVars
  <1>2. CASE PackUnsupported
    BY <1>2, FailureStep DEF PackUnsupported, decoderVars
  <1>3. /\ ArgsOK /\ buffer \in [0 .. limit - 1 -> Byte] /\ limit \in Nat
        /\ todo \in Seq(Step)
        /\ phase = "encode" => bit_offset \in Nat /\ bit_offset <= limit * MDO_BITS
    <2>1. limit \in Nat /\ limit * MDO_BITS \in Nat
      BY Constants DEF IInv, ArgsOK
    <2> QED
      BY <2>1 DEF IInv, TypeOK, ControlOK
  <1>4. ASSUME PackFixed \/ PackVar PROVE IInv'
    <2> DEFINE s == todo[1]
               n == PackWidth(todo[1])
    <2>1. phase = "encode" /\ todo # << >> /\ s \in Step /\ Reads(s)
      BY <1>3, <1>4 DEF PackFixed, PackVar, Packs, Reads
    <2>2. n \in Nat /\ bit_offset + n <= limit * MDO_BITS /\ bit_offset \in Nat
      BY <1>3, <1>4, <2>1, PackWidthOK DEF PackFixed, PackVar, HasRoom
    <2>3. msg[s.f] \in SUBSET (0 .. WordBits - 1)
      BY <1>3, <2>1, StepKinds DEF ArgsOK
    <2>4. Packed(msg[s.f], n) \in [0 .. limit - 1 -> Byte]
      BY <1>3, <2>2, <2>3, PackedOK
    <2> HIDE DEF n
    <2>5. Marked(Packed(msg[s.f], n), bit_offset + n, 1) \in [0 .. limit - 1 -> Byte]
      BY <2>4, MarkedOK
    <2>6. buffer' \in [0 .. limit - 1 -> Byte]
      BY <1>4, <2>4, <2>5 DEF PackFixed, PackVar, n
    <2>7. Bytes(bit_offset + n) * MDO_BITS \in Nat
          /\ Bytes(bit_offset + n) * MDO_BITS <= limit * MDO_BITS
      <3>1. bit_offset + n \in Nat
        BY <2>2
      <3> QED
        BY <1>3, <2>2, <3>1, BytesOK
    <2>8. limit * MDO_BITS \in Nat
      BY <1>3, Constants
    <2>9. bit_offset' \in 0 .. limit * MDO_BITS
      BY <1>4, <2>2, <2>7, <2>8 DEF PackFixed, PackVar, n
    <2>10. /\ UNCHANGED <<hwcfg, msg, limit, phase, size, rc, got>>
           /\ todo' = Tail(todo)
      BY <1>4 DEF PackFixed, PackVar, decoderVars
    <2>11. ArgsOK' /\ ControlOK'
      BY <1>3, <2>1, <2>10, ArgsStay DEF IInv, ControlOK
    <2>12. TypeOK'
      BY <2>1, <2>6, <2>9, <2>10, WidthsStay DEF IInv, TypeOK
    <2>13. Shape' /\ MarkOK' /\ Fresh'
      BY <2>1, <2>10 DEF IInv, ControlOK, Shape, MarkOK, Fresh, Reading
    <2> QED
      BY <2>11, <2>12, <2>13 DEF IInv
  <1>5. CASE EncodeEnds
    <2>1. Marked(buffer, bit_offset, 3) \in [0 .. limit - 1 -> Byte]
      <3>1. buffer \in [0 .. limit - 1 -> Byte] /\ 3 \in 0 .. 3
        BY <1>3
      <3> QED
        BY <3>1, MarkedOK
    <2>2. Bytes(bit_offset) \in 0 .. limit
      BY <1>3, <1>5, BytesOK DEF EncodeEnds
    <2>3. UNCHANGED <<hwcfg, msg, limit, todo, rc, got>> /\ phase = "encode"
          /\ phase' = "encoded" /\ size' = Bytes(bit_offset)
          /\ buffer' = Marked(buffer, bit_offset, 3)
      BY <1>5 DEF EncodeEnds, decoderVars
    <2>4. ArgsOK' /\ ControlOK'
      BY <2>3, ArgsStay DEF IInv, ControlOK
    <2>5. TypeOK'
      BY <2>1, <2>2, <2>3, WidthsStay DEF IInv, TypeOK
    <2>6. Shape' /\ MarkOK' /\ Fresh'
      BY <2>3 DEF IInv, ControlOK, Shape, MarkOK, Fresh, Reading
    <2> QED
      BY <2>4, <2>5, <2>6 DEF IInv
  <1> QED
    BY <1>1, <1>2, <1>4, <1>5

-----------------------------------------------------------------------------
(***************************************************************************)
(* The steps of the decoder.                                               *)
(***************************************************************************)
\* What holds while a message is decoded.
LEMMA Facts ==
  ASSUME IInv, phase = "decode"
  PROVE  /\ limit \in Nat /\ given \in Nat /\ given <= limit
         /\ taken \in Nat /\ taken <= given /\ consumed_bytes \in Nat /\ consumed_bytes <= taken
         /\ bit_offset \in Nat /\ bit_offset <= consumed_bytes * MDO_BITS
         /\ consumed_bytes * MDO_BITS \in Nat /\ eom \in BOOLEAN
         /\ rc = "none" /\ todo \in Seq(Step)
  <1>1. limit \in Nat /\ given \in 0 .. limit /\ taken \in 0 .. given
        /\ consumed_bytes \in 0 .. taken /\ bit_offset \in 0 .. consumed_bytes * MDO_BITS
        /\ eom \in BOOLEAN /\ rc = "none" /\ todo \in Seq(Step)
    BY DEF IInv, ArgsOK, TypeOK, MarkOK, ControlOK, Reading
  <1>2. consumed_bytes \in Nat
    BY <1>1
  <1>3. consumed_bytes * MDO_BITS \in Nat
    BY <1>2, Constants
  <1> QED
    BY <1>1, <1>3

\* The first mark behind the bytes taken.
LEMMA MarkFound ==
  ASSUME IInv, phase = "decode", MarksLeft # {}
  PROVE  /\ FirstMark \in Nat /\ taken <= FirstMark /\ FirstMark < given
         /\ buffer[FirstMark].mseo # 0
         /\ \A i \in taken .. FirstMark - 1 : buffer[i].mseo = 0
  <1>1. MarksLeft \subseteq Nat
    BY Facts DEF MarksLeft
  <1>2. \E x \in MarksLeft : \A y \in MarksLeft : x <= y
    BY <1>1, LeastNat
  <1>3. FirstMark \in MarksLeft /\ \A y \in MarksLeft : FirstMark <= y
    BY <1>2 DEF FirstMark
  <1>4. FirstMark \in taken .. given - 1 /\ buffer[FirstMark].mseo # 0
    BY <1>3 DEF MarksLeft
  <1>5. ASSUME NEW i \in taken .. FirstMark - 1 PROVE buffer[i].mseo = 0
    <2>1. i \in taken .. given - 1 /\ ~(FirstMark <= i)
      BY <1>4, Facts
    <2>2. i \notin MarksLeft
      BY <1>3, <2>1
    <2> QED
      BY <2>1, <2>2 DEF MarksLeft
  <1> QED
    BY <1>4, <1>5, Facts

\* The bytes of a field are consumed.
LEMMA ConsumesStep ==
  ASSUME IInv, phase = "decode", ~eom, ConsumeFails = "none", Consumes
  PROVE  /\ ArgsOK' /\ TypeOK' /\ MarkOK'
         /\ UNCHANGED <<hwcfg, got, phase, rc>>
  <1>1. MarksLeft # {} /\ buffer[FirstMark].mseo # 2
    BY DEF ConsumeFails
  <1>2. /\ FirstMark \in Nat /\ taken <= FirstMark /\ FirstMark < given
        /\ buffer[FirstMark].mseo # 0
        /\ \A i \in taken .. FirstMark - 1 : buffer[i].mseo = 0
    BY <1>1, MarkFound
  <1>3. /\ taken' = FirstMark + 1 /\ consumed_bytes' = FirstMark + 1 - taken
        /\ eom' = (buffer[FirstMark].mseo = 3) /\ bit_offset' = 0
        /\ UNCHANGED <<hwcfg, msg, limit, buffer, size, phase, rc, given, got>>
    BY DEF Consumes, inputs
  <1>4. taken' \in Nat /\ taken' <= given /\ consumed_bytes' \in Nat /\ consumed_bytes' <= taken'
    BY <1>2, <1>3, Facts
  <1>5. consumed_bytes' * MDO_BITS \in Nat
    <2>1. \A a, b \in Nat : a * b \in Nat
      OBVIOUS
    <2> QED
      BY <1>4, <2>1, Constants, Zenon
  <1>6. TypeOK'
    <2>1. given' \in 0 .. limit' /\ taken' \in 0 .. given' /\ consumed_bytes' \in 0 .. taken'
          /\ bit_offset' \in 0 .. consumed_bytes' * MDO_BITS
      BY <1>3, <1>4, <1>5, Facts
    <2> QED
      BY <1>3, <2>1, WidthsStay DEF IInv, TypeOK
  <1>7. MarkOK'
    <2>1. \A i \in 0 .. taken - 1 : buffer[i].mseo # 3
      BY DEF IInv, MarkOK, Reading
    <2>2. ASSUME NEW i \in 0 .. taken' - 1
          PROVE  buffer[i].mseo = 3 <=> eom' /\ i = taken' - 1
      <3>1. i \in 0 .. taken - 1 \/ i \in taken .. FirstMark - 1 \/ i = FirstMark
        BY <1>2, <1>3, Facts
      <3>2. CASE i \in 0 .. taken - 1
        <4>1. i # taken' - 1
          BY <1>2, <1>3, <3>2, Facts
        <4> QED
          BY <2>1, <3>2, <4>1
      <3>3. CASE i \in taken .. FirstMark - 1
        <4>1. i # taken' - 1 /\ buffer[i].mseo = 0
          BY <1>2, <1>3, <3>3, Facts
        <4> QED
          BY <4>1
      <3>4. CASE i = FirstMark
        <4>1. i = taken' - 1
          BY <1>2, <1>3, <3>4
        <4>2. eom' <=> buffer[i].mseo = 3
          BY <1>3, <3>4, Zenon
        <4> QED
          BY <4>1, <4>2, Zenon
      <3> QED
        BY <3>1, <3>2, <3>3, <3>4
    <2>3. eom' \in BOOLEAN /\ taken' > 0 /\ given' \in 0 .. limit' /\ taken' \in 0 .. given'
      BY <1>2, <1>3, <1>4, Facts
    <2>4. rc' # "ok"
      BY <1>3, Facts
    <2> QED
      BY <1>3, <2>2, <2>3, <2>4 DEF MarkOK
  <1> QED
    BY <1>3, <1>6, <1>7, ArgsStay DEF IInv

\* The first step is done and nothing was read.
LEMMA FreshTail ==
  ASSUME IInv, phase = "decode", todo # << >>, ~Reads(todo[1]),
         todo' = Tail(todo), UNCHANGED <<got, phase, rc>>,
         todo[1] = Consume \/ "tcode" \in DOMAIN got
  PROVE  Fresh'
  <1>1. CASE "tcode" \notin DOMAIN got
    <2>1. DOMAIN got = {"timestamp"} /\ todo \in {<<Consume, Fixed("tcode")>>, <<Fixed("tcode")>>}
      BY <1>1 DEF IInv, Fresh, Reading
    <2>2. todo = <<Consume, Fixed("tcode")>>
      BY <2>1, ReadsOf
    <2>3. Tail(todo) = <<Fixed("tcode")>>
      BY <2>2
    <2> QED
      BY <1>1, <2>1, <2>3 DEF Fresh
  <1>2. CASE "tcode" \in DOMAIN got
    <2>1. \A f \in Fields :
             Needs(got, f) => f \in DOMAIN got \/ (phase = "decode" /\ Pending(todo, f))
      BY <1>2 DEF IInv, Fresh, Reading
    <2>2. ~Pending(todo, "tcode")
      BY <1>2, Facts DEF IInv, Fresh, Reading
    <2>3. \A f : Pending(Tail(todo), f) <=> Pending(todo, f)
      BY Facts, PendingTail
    <2> QED
      BY <1>2, <2>1, <2>2, <2>3 DEF Fresh
  <1> QED
    BY <1>1, <1>2

\* nexusrv_msg_decode is called.
LEMMA CallStep ==
  ASSUME IInv, NEW n \in 0 .. limit, CallDecode(n)
  PROVE  IInv'
  <1>1. /\ phase = "encoded" /\ phase' = "decode" /\ given' = n /\ taken' = 0
        /\ consumed_bytes' = 0 /\ eom' = FALSE /\ got' = [f \in {"timestamp"} |-> {}]
        /\ todo' = <<Consume, Fixed("tcode")>> /\ bit_offset' = 0
        /\ UNCHANGED <<hwcfg, msg, limit, buffer, size, rc>>
    BY DEF CallDecode, inputs
  <1>2. rc' = "none" /\ limit \in Nat
    BY <1>1 DEF IInv, ControlOK, ArgsOK
  <1>3. ArgsOK' /\ ControlOK'
    <2>1. todo' \in Seq(Step)
      BY <1>1, Members
    <2> QED
      BY <1>1, <1>2, <2>1, ArgsStay DEF IInv, ControlOK
  <1>4. TypeOK'
    <2>1. 0 * MDO_BITS = 0
      BY Constants
    <2>2. 0 .. consumed_bytes' * MDO_BITS = 0 .. 0
      BY <1>1, <2>1
    <2> QED
      BY <1>1, <1>2, <2>2 DEF IInv, TypeOK
  <1>5. Shape'
    <2>1. Fixed("tcode") \in Step /\ Closing(Fixed("tcode"), got'.tcode)
          /\ Consume \in Plain(got'.tcode)
      BY Members, PlainSteps DEF Closing
    <2>2. Closes(<<Consume, Fixed("tcode")>>, got'.tcode)
      BY <2>1, ShortLists
    <2> QED
      BY <1>1, <2>2 DEF Shape
  <1>6. MarkOK'
    <2>1. \A i \in 0 .. taken' - 1 : FALSE
      BY <1>1
    <2>2. given' \in 0 .. limit' /\ taken' \in 0 .. given'
      BY <1>1, <1>2
    <2>3. eom' \in BOOLEAN /\ ~eom' /\ rc' # "ok"
      BY <1>1, <1>2
    <2> QED
      BY <2>1, <2>2, <2>3, Zenon DEF MarkOK
  <1>7. Fresh'
    <2>1. DOMAIN got' = {"timestamp"}
      BY <1>1
    <2> QED
      BY <1>1, <2>1 DEF Fresh
  <1> QED
    BY <1>3, <1>4, <1>5, <1>6, <1>7 DEF IInv

\* CONSUME_BYTES preserves the invariant.
LEMMA ConsumeStep == IInv /\ ConsumeBytes => IInv'
  <1> SUFFICES ASSUME IInv, ConsumeBytes PROVE IInv'
    OBVIOUS
  <1>1. phase = "decode" /\ todo # << >> /\ todo[1].do = "consume"
    BY DEF ConsumeBytes, Does
  <1>2. CASE ConsumeFails # "none"
    <2>1. ConsumeFails # "ok"
      BY DEF ConsumeFails
    <2>2. Return(ConsumeFails) /\ UNCHANGED <<hwcfg, msg, limit, buffer, size, todo, got>>
      BY <1>2 DEF ConsumeBytes, Ends, inputs, decoderVars
    <2> QED
      BY <2>1, <2>2, FailureStep
  <1>3. CASE ConsumeFails = "none"
    <2>1. Consumes /\ todo' = Tail(todo)
      BY <1>3 DEF ConsumeBytes
    <2>2. ~eom
      BY <1>3 DEF ConsumeFails
    <2>3. ArgsOK' /\ TypeOK' /\ MarkOK' /\ UNCHANGED <<hwcfg, got, phase, rc>>
      BY <1>1, <1>3, <2>1, <2>2, ConsumesStep
    <2>4. todo \in Seq(Step) /\ todo[1] \in Step /\ todo[1] = Consume /\ ~Reads(todo[1])
      BY <1>1, Facts, StepKinds, ReadsOf
    <2>5. Closes(todo, got.tcode)
      <3>1. todo # <<Skip, Req("timestamp")>>
        BY <2>4 DEF Skip, Consume
      <3> QED
        BY <1>1, <2>2, <3>1 DEF IInv, Shape
    <2>6. ~Closing(todo[1], got.tcode)
      BY <2>4 DEF Closing, Time, Skip, IdleEnds, Fixed, Req, Consume
    <2>7. Tail(todo) \in Seq(Step) /\ Closes(Tail(todo), got.tcode)
      BY <2>4, <2>5, <2>6, ClosesTail
    <2>8. Shape'
      BY <2>1, <2>3, <2>7 DEF Shape
    <2>9. ControlOK'
      BY <2>1, <2>3, <2>7 DEF IInv, ControlOK
    <2>10. Fresh'
      BY <1>1, <2>1, <2>3, <2>4, FreshTail
    <2> QED
      BY <2>3, <2>8, <2>9, <2>10 DEF IInv
  <1> QED
    BY <1>2, <1>3

\* Skipping the rest of a message preserves the invariant.
LEMMA SkipStep == IInv /\ SkipBytes => IInv'
  <1> SUFFICES ASSUME IInv, SkipBytes PROVE IInv'
    OBVIOUS
  <1>1. phase = "decode" /\ todo # << >> /\ todo[1].do = "skip"
    BY DEF SkipBytes, Does
  <1>2. todo \in Seq(Step) /\ todo[1] \in Step /\ todo[1] = Skip /\ ~Reads(todo[1])
    BY <1>1, Facts, StepKinds, ReadsOf
  <1>3. "tcode" \in DOMAIN got
    <2>1. todo \notin {<<Consume, Fixed("tcode")>>, <<Fixed("tcode")>>}
      BY <1>2 DEF Skip, Consume, Fixed
    <2> QED
      BY <1>1, <2>1 DEF IInv, Fresh, Reading
  <1>4. CASE eom
    <2>1. todo' = Tail(todo) /\ UNCHANGED <<hwcfg, msg, limit, buffer, size, phase, rc,
                                            bit_offset, given, taken, consumed_bytes, eom, got>>
      BY <1>4 DEF SkipBytes, inputs, decoderVars
    <2>2. Tail(todo) \in {<< >>, <<Req("timestamp")>>}
      <3>1. CASE todo = <<Skip, Req("timestamp")>>
        BY <3>1
      <3>2. CASE todo \in {<< >>, <<Req("timestamp")>>}
        BY <1>1, <1>2, <3>2 DEF Skip, Req
      <3>3. CASE Closes(todo, got.tcode)
        <4>1. Closing(todo[1], got.tcode)
          BY <1>2 DEF Closing
        <4> QED
          BY <1>2, <3>3, <4>1, ClosesFirst
      <3> QED
        BY <1>1, <3>1, <3>2, <3>3 DEF IInv, Shape
    <2>3. ArgsOK' /\ MarkOK' /\ TypeOK'
      BY <2>1, ArgsStay, WidthsStay DEF IInv, MarkOK, Reading, TypeOK
    <2>4. ControlOK'
      BY <1>1, <1>2, <2>1 DEF IInv, ControlOK
    <2>5. Shape'
      BY <1>4, <2>1, <2>2 DEF Shape
    <2>6. Fresh'
      BY <1>1, <1>2, <1>3, <2>1, FreshTail
    <2> QED
      BY <2>3, <2>4, <2>5, <2>6 DEF IInv
  <1>5. CASE ~eom /\ ConsumeFails # "none"
    <2>1. ConsumeFails # "ok"
      BY DEF ConsumeFails
    <2>2. Return(ConsumeFails) /\ UNCHANGED <<hwcfg, msg, limit, buffer, size, todo, got>>
      BY <1>5 DEF SkipBytes, Ends, inputs, decoderVars
    <2> QED
      BY <2>1, <2>2, FailureStep
  <1>6. CASE ~eom /\ ConsumeFails = "none"
    <2>1. Consumes /\ todo' = todo
      BY <1>6 DEF SkipBytes
    <2>2. ArgsOK' /\ TypeOK' /\ MarkOK' /\ UNCHANGED <<hwcfg, got, phase, rc>>
      BY <1>1, <1>6, <2>1, ConsumesStep
    <2>3. ControlOK' /\ Fresh'
      BY <1>1, <2>1, <2>2 DEF IInv, ControlOK, Fresh, Reading
    <2>4. Shape'
      BY <1>1, <1>6, <2>1, <2>2 DEF IInv, Shape
    <2> QED
      BY <2>2, <2>3, <2>4 DEF IInv
  <1> QED
    BY <1>4, <1>5, <1>6

\* A field is read: the list goes on to its end.
LEMMA UnpackShape ==
  ASSUME IInv, phase = "decode", todo # << >>, NEW m, Reads(todo[1]),
         todo[1].f # "tcode" => m.tcode = got.tcode
  PROVE  LET L == Tail(todo) \o DecodeMore(todo[1].f, m)
         IN  /\ L \in Seq(Step)
             /\ (eom /\ L = << >>) \/ Closes(L, m.tcode)
             /\ DecodeMore(todo[1].f, m) \in Seq(Step)
             /\ ~Pending(DecodeMore(todo[1].f, m), "tcode")
             /\ todo[1].f = "tcode" => L = DecodeMore(todo[1].f, m)
  <1> DEFINE s == todo[1]
             D == DecodeMore(todo[1].f, m)
             L == Tail(todo) \o DecodeMore(todo[1].f, m)
  <1>1. todo \in Seq(Step) /\ s \in Step
    BY Facts
  <1>2. CASE todo = <<Skip, Req("timestamp")>>
    BY <1>2, ReadsOf
  <1>3. CASE eom /\ todo \in {<< >>, <<Req("timestamp")>>}
    <2>1. todo = <<Req("timestamp")>> /\ s.f = "timestamp" /\ Tail(todo) = << >>
      <3>1. todo = <<Req("timestamp")>>
        BY <1>3
      <3>2. Len(todo) = 1 /\ s.f = "timestamp"
        BY <3>1, ReadsOf
      <3> QED
        BY <1>1, <3>1, <3>2, SeqOne
    <2>2. D = << >>
      BY <2>1 DEF DecodeMore
    <2>3. L = << >> /\ << >> \in Seq(Step)
      BY <2>1, <2>2, ConcatEmptySeq, EmptySeq
    <2> QED
      BY <1>3, <2>1, <2>2, <2>3, PendingOne
  <1>4. CASE Closes(todo, got.tcode) /\ Closing(s, got.tcode)
    <2>1. Tail(todo) = << >>
      BY <1>1, <1>4, ClosesFirst
    <2>2. Closing(s, m.tcode)
      <3>1. CASE s.f = "tcode"
        BY <1>1, <1>4, <3>1, ReadsOf DEF Closing
      <3>2. CASE s.f # "tcode"
        BY <1>4, <3>2
      <3> QED
        BY <3>1, <3>2
    <2>3. ListOK(D, m.tcode, {})
      BY <1>1, <2>2, MoreCloses
    <2> HIDE DEF D
    <2>4. L = D
      BY <2>1, <2>3, ConcatEmptySeq DEF ListOK, D
    <2> QED
      BY <2>3, <2>4 DEF ListOK, D
  <1>5. CASE Closes(todo, got.tcode) /\ ~Closing(s, got.tcode)
    <2>1. s \in Plain(got.tcode) /\ Tail(todo) \in Seq(Step) /\ Closes(Tail(todo), got.tcode)
      BY <1>1, <1>5, ClosesTail
    <2>2. s.f # "tcode"
      BY <2>1, ReadsOf DEF Plain
    <2>3. D = << >>
      BY <2>1, <2>2, MoreOfPlain
    <2>4. L = Tail(todo)
      BY <2>1, <2>3, ConcatEmptySeq
    <2>5. m.tcode = got.tcode /\ << >> \in Seq(Step) /\ ~Pending(<< >>, "tcode")
      BY <2>2, EmptySeq, PendingOne
    <2> HIDE DEF D, L
    <2>6. L \in Seq(Step) /\ Closes(L, m.tcode) /\ D \in Seq(Step) /\ ~Pending(D, "tcode")
      BY <2>1, <2>3, <2>4, <2>5
    <2> QED
      BY <2>2, <2>6 DEF D, L
  <1> QED
    BY <1>2, <1>3, <1>4, <1>5 DEF IInv, Shape

\* A field is read: what is needed is set or will be read.
LEMMA UnpackFresh ==
  ASSUME IInv, phase = "decode", todo # << >>, Reads(todo[1]),
         NEW v, NEW n, Unpack(todo[1].f, v, n)
  PROVE  Fresh'
  <1> DEFINE f == todo[1].f
             m == [x \in DOMAIN got \cup {f} |->
                      IF x = f THEN v \cap 0 .. StoredWidth(f) - 1 ELSE got[x]]
             z == Reset(f, m)
             D == DecodeMore(f, m)
  <1>1. /\ got' = [x \in DOMAIN m \cup z |-> IF x \in z THEN {} ELSE m[x]]
        /\ todo' = Tail(todo) \o D
        /\ UNCHANGED <<phase, rc>>
    BY DEF Unpack
  <1>2. DOMAIN m = DOMAIN got \cup {f} /\ \A x \in DOMAIN got \ {f} : m[x] = got[x]
    OBVIOUS
  <1>3. todo \in Seq(Step) /\ Tail(todo) \in Seq(Step) /\ rc = "none"
    BY Facts
  <1>4. /\ {"tcode", "rcode"} \cap z = {}
        /\ f = "tcode" /\ m.tcode # TCODE.Idle => "src" \in z
        /\ f = "tcode" /\ IsCommon(m.tcode) => "hrepeat" \in z
        /\ f = "tcode" /\ m.tcode = TCODE.ProgTraceCorrelation => {"icnt", "hist", "hrepeat"} \subseteq z
        /\ f = "rcode" /\ m.rcode \in {Bits(0), Bits(1), Bits(2)} => {"icnt", "hist", "hrepeat"} \subseteq z
    BY TcodesDiffer DEF Reset
  <1> HIDE DEF m, z
  <1>5. DOMAIN got' = DOMAIN got \cup {f} \cup z
        /\ \A x \in DOMAIN m \ z : got'[x] = m[x]
    BY <1>1, <1>2
  <1>6. CASE f = "tcode"
    <2>1. todo = <<Fixed("tcode")>> /\ DOMAIN got = {"timestamp"}
      <3>1. Pending(todo, "tcode")
        <4>1. Len(todo) > 0 /\ 1 \in 1 .. Len(todo)
          BY <1>3
        <4> QED
          BY <1>6, <4>1 DEF Pending
      <3> QED
        BY <1>3, <3>1, ReadsOf DEF IInv, Fresh, Reading
    <2> DEFINE t == m.tcode
    <2>2. got'.tcode = t /\ "tcode" \in DOMAIN got' /\ "rcode" \notin DOMAIN got'
      BY <1>2, <1>4, <1>5, <1>6, <2>1
    <2>3. todo' = D /\ ~Pending(D, "tcode") /\ D \in Seq(Step)
      BY <1>1, <1>6, UnpackShape
    <2>4. t # TCODE.Idle => \A g : Pending(DecodeBody(t), g) => Pending(D, g)
      <3>1. CASE t = TCODE.Idle
        BY <3>1
      <3>2. CASE t # TCODE.Idle
        <4>1. D = If(hwcfg.src_bits > 0, <<Fixed("src")>>) \o DecodeBody(t)
          BY <1>6, <3>2 DEF DecodeMore
        <4>2. If(hwcfg.src_bits > 0, <<Fixed("src")>>) \in Seq(Step) /\ DecodeBody(t) \in Seq(Step)
          BY Members, BodyOK DEF If
        <4> QED
          BY <4>1, <4>2, PendingConcat
      <3> QED
        BY <3>1, <3>2
    <2>5. ASSUME NEW g \in Fields, Needs(got', g)
          PROVE  g \in DOMAIN got' \/ Pending(D, g)
      <3>1. \/ g = "src" /\ t # TCODE.Idle
            \/ g = "icnt" /\ IsCommon(t)
            \/ g \in {"icnt", "hist", "hrepeat"} /\ t = TCODE.ProgTraceCorrelation
            \/ g = "rcode" /\ t = TCODE.ResourceFull
            \/ g = "xaddr" /\ has_xaddr(t)
            \/ g = "hist" /\ has_hist(t)
            \/ g = "hrepeat" /\ IsCommon(t)
            \/ g = "hrepeat" /\ t = TCODE.RepeatBranch
        BY <2>2, <2>5 DEF Needs
      <3>2. IsCommon(t) \/ has_xaddr(t) \/ has_hist(t) \/ t = TCODE.ResourceFull
              \/ t = TCODE.RepeatBranch => t # TCODE.Idle
        BY TcodesDiffer
      <3> HIDE DEF t, D
      <3> QED
        BY <1>4, <1>5, <1>6, <2>4, <3>1, <3>2, BodyOK DEF t
    <2> QED
      BY <1>1, <2>2, <2>3, <2>5, <1>3 DEF Fresh
  <1>7. CASE f # "tcode"
    <2>1. "tcode" \in DOMAIN got
      <3>1. todo[1] # Consume /\ todo[1] # Fixed("tcode")
        BY <1>7, ReadsOf
      <3>2. todo \notin {<<Consume, Fixed("tcode")>>, <<Fixed("tcode")>>}
        BY <3>1
      <3> QED
        BY <3>2 DEF IInv, Fresh, Reading
    <2>2. ~Pending(todo, "tcode")
          /\ \A g \in Fields : Needs(got, g) => g \in DOMAIN got \/ Pending(todo, g)
      BY <1>3, <2>1 DEF IInv, Fresh, Reading
    <2>3. got'.tcode = got.tcode /\ m.tcode = got.tcode /\ "tcode" \in DOMAIN got'
      BY <1>2, <1>4, <1>5, <1>7, <2>1
    <2>4. D \in Seq(Step) /\ ~Pending(D, "tcode")
      BY <1>7, <2>3, UnpackShape
    <2>5. \A g : Pending(todo', g) <=> Pending(Tail(todo), g) \/ Pending(D, g)
      BY <1>1, <1>3, <2>4, PendingConcat
    <2>6. \A g : /\ Pending(Tail(todo), g) => Pending(todo, g)
                 /\ Pending(todo, g) => Pending(Tail(todo), g) \/ g = f
      BY <1>3, PendingTail
    <2>7. ~Pending(todo', "tcode")
      BY <2>2, <2>4, <2>5, <2>6
    <2>8. ASSUME NEW g \in Fields, Needs(got', g), f # "rcode"
          PROVE  g \in DOMAIN got' \/ Pending(todo', g)
      <3>1. "rcode" \in DOMAIN got' <=> "rcode" \in DOMAIN got
        BY <1>4, <1>5, <2>8
      <3>2. "rcode" \in DOMAIN got => got'.rcode = got.rcode
        BY <1>2, <1>4, <1>5, <2>8
      <3>3. Needs(got, g)
        BY <2>3, <2>8, <3>1, <3>2 DEF Needs
      <3> QED
        BY <1>5, <2>2, <2>5, <2>6, <3>3
    <2>9. ASSUME NEW g \in Fields, Needs(got', g), f = "rcode"
          PROVE  g \in DOMAIN got' \/ Pending(todo', g)
      <3>1. got'.rcode = m.rcode /\ "rcode" \in DOMAIN got'
        BY <1>2, <1>4, <1>5, <2>9
      <3>2. D = DecodeRes(m.rcode)
        BY <2>9 DEF DecodeMore
      <3>3. \/ g \in {"icnt", "hist", "hrepeat"} /\ m.rcode \in {Bits(0), Bits(1), Bits(2)}
            \/ g = "rdata" /\ m.rcode \notin {Bits(0), Bits(1), Bits(2)}
            \/ Needs(got, g)
        BY <2>3, <2>9, <3>1 DEF Needs
      <3>4. CASE g \in {"icnt", "hist", "hrepeat"} /\ m.rcode \in {Bits(0), Bits(1), Bits(2)}
        BY <1>4, <1>5, <2>9, <3>4
      <3>5. CASE g = "rdata" /\ m.rcode \notin {Bits(0), Bits(1), Bits(2)}
        BY <2>5, <3>2, <3>5, ResListOK
      <3>6. CASE Needs(got, g)
        BY <1>5, <2>2, <2>5, <2>6, <3>6
      <3> QED
        BY <3>3, <3>4, <3>5, <3>6
    <2> QED
      BY <1>1, <2>3, <2>7, <2>8, <2>9 DEF Fresh
  <1> QED
    BY <1>6, <1>7

\* A field is read from n bits of those left.
LEMMA UnpackStep ==
  ASSUME IInv, phase = "decode", todo # << >>, Reads(todo[1]),
         NEW v, NEW n \in Nat, n <= BitsLeft, Unpack(todo[1].f, v, n)
  PROVE  IInv'
  <1> DEFINE f == todo[1].f
             m == [x \in DOMAIN got \cup {f} |->
                      IF x = f THEN v \cap 0 .. StoredWidth(f) - 1 ELSE got[x]]
             z == Reset(f, m)
  <1>1. /\ got' = [x \in DOMAIN m \cup z |-> IF x \in z THEN {} ELSE m[x]]
        /\ bit_offset' = bit_offset + n
        /\ todo' = Tail(todo) \o DecodeMore(f, m)
        /\ UNCHANGED <<hwcfg, msg, limit, buffer, size, phase, rc, given, taken, consumed_bytes, eom>>
    BY DEF Unpack, inputs
  <1>2. Fresh'
    BY UnpackFresh
  <1>3. "tcode" \notin z
    BY DEF Reset
  <1>4. "tcode" \in DOMAIN got \/ f = "tcode"
    <2>1. CASE todo \in {<<Consume, Fixed("tcode")>>, <<Fixed("tcode")>>}
      BY <2>1, ReadsOf
    <2>2. CASE todo \notin {<<Consume, Fixed("tcode")>>, <<Fixed("tcode")>>}
      BY <2>2 DEF IInv, Fresh, Reading
    <2> QED
      BY <2>1, <2>2
  <1>5. f # "tcode" => m.tcode = got.tcode
    BY <1>4
  <1>6. got'.tcode = m.tcode
    <2>1. "tcode" \in DOMAIN m
      BY <1>4
    <2> HIDE DEF m, z
    <2> QED
      BY <1>1, <1>3, <2>1
  <1>7. \A x \in DOMAIN got' : got'[x] \subseteq 0 .. StoredWidth(x) - 1
    <2>1. \A x \in DOMAIN m : m[x] \subseteq 0 .. StoredWidth(x) - 1
      BY DEF IInv, TypeOK
    <2> HIDE DEF m, z
    <2> QED
      BY <1>1, <2>1
  <1> HIDE DEF m, z
  <1>8. todo' \in Seq(Step) /\ ((eom /\ todo' = << >>) \/ Closes(todo', got'.tcode))
    BY <1>1, <1>5, <1>6, UnpackShape
  <1>9. ArgsOK' /\ ControlOK' /\ Shape' /\ MarkOK'
    BY <1>1, <1>8, ArgsStay DEF IInv, ControlOK, Shape, MarkOK, Reading
  <1>10. TypeOK'
    <2>1. \A x : StoredWidth(x)' = StoredWidth(x)
      BY <1>1 DEF StoredWidth, FixedWidth
    <2>2. \A x \in DOMAIN got' : got'[x] \subseteq 0 .. StoredWidth(x)' - 1
      BY <1>7, <2>1
    <2>3. bit_offset' \in 0 .. consumed_bytes * MDO_BITS
      BY <1>1, Facts DEF BitsLeft
    <2> QED
      BY <1>1, <2>2, <2>3 DEF IInv, TypeOK
  <1> QED
    BY <1>2, <1>9, <1>10 DEF IInv

\* Reading a field preserves the invariant.
LEMMA FieldStep == IInv /\ (UnpackFixed \/ UnpackVar) => IInv'
  <1> SUFFICES ASSUME IInv, UnpackFixed \/ UnpackVar PROVE IInv'
    OBVIOUS
  <1>1. phase = "decode" /\ todo # << >> /\ Reads(todo[1])
    BY DEF UnpackFixed, UnpackVar, Does, Reads
  <1>2. ASSUME Ends("missing_field") PROVE IInv'
    BY <1>2, FailureStep DEF Ends, inputs, decoderVars
  <1>3. BitsLeft \in Nat
    BY <1>1, Facts DEF BitsLeft
  <1>4. CASE UnpackFixed
    <2>1. FixedWidth(todo[1].f) \in Nat
      <3>1. todo[1] \in Step /\ todo[1].do = "fixed"
        BY <1>1, <1>4, Facts DEF UnpackFixed, Does
      <3> QED
        BY <3>1, StepKinds, Widths DEF IInv
    <2>2. \/ Ends("missing_field")
          \/ /\ ~(BitsLeft < FixedWidth(todo[1].f))
             /\ Unpack(todo[1].f, Unpacked(FixedWidth(todo[1].f)), FixedWidth(todo[1].f))
      BY <1>4 DEF UnpackFixed
    <2>3. ~(BitsLeft < FixedWidth(todo[1].f)) => FixedWidth(todo[1].f) <= BitsLeft
      BY <1>3, <2>1
    <2> QED
      BY <1>1, <1>2, <2>1, <2>2, <2>3, UnpackStep
  <1>5. CASE UnpackVar
    <2>1. Ends("missing_field") \/ \E v : Unpack(todo[1].f, v, BitsLeft)
      BY <1>5 DEF UnpackVar
    <2>2. BitsLeft <= BitsLeft
      BY <1>3
    <2> QED
      BY <1>1, <1>2, <1>3, <2>1, <2>2, UnpackStep
  <1> QED
    BY <1>4, <1>5

\* Decoding has succeeded: nothing is left to be read.
LEMMA SuccessStep ==
  ASSUME IInv, phase = "decode", eom, Ends("ok"), "tcode" \in DOMAIN got,
         \A f : ~Pending(todo, f)
  PROVE  IInv'
  <1>1. /\ phase' = "done" /\ rc' = "ok"
        /\ UNCHANGED <<hwcfg, msg, limit, buffer, size, todo, bit_offset, given, taken,
                       consumed_bytes, eom, got>>
    BY DEF Ends, Return, inputs, decoderVars
  <1>2. ArgsOK' /\ ControlOK' /\ Shape'
    BY <1>1, ArgsStay DEF IInv, ControlOK, Shape
  <1>3. TypeOK'
    BY <1>1, WidthsStay DEF IInv, TypeOK
  <1>4. MarkOK'
    BY <1>1 DEF IInv, MarkOK, Reading
  <1>5. \A f \in Fields : Needs(got, f) => f \in DOMAIN got
    BY DEF IInv, Fresh, Reading
  <1>6. Fresh'
    BY <1>1, <1>5 DEF Fresh
  <1> QED
    BY <1>2, <1>3, <1>4, <1>6 DEF IInv

\* A list whose only step reads nothing.
LEMMA LastStep ==
  ASSUME IInv, phase = "decode", todo # << >>, todo[1] \in {Time, IdleEnds}
  PROVE  todo = <<todo[1]>> /\ Tail(todo) = << >> /\ "tcode" \in DOMAIN got
         /\ \A f : ~Pending(todo, f)
  <1>1. todo \in Seq(Step) /\ todo[1] \in Step /\ ~Reads(todo[1])
    BY Facts, ReadsOf, Members
  <1>2. /\ todo # <<Skip, Req("timestamp")>> /\ todo # <<Req("timestamp")>>
        /\ todo \notin {<<Consume, Fixed("tcode")>>, <<Fixed("tcode")>>}
    BY DEF Time, IdleEnds, Skip, Req, Consume, Fixed
  <1>3. Closes(todo, got.tcode)
    BY <1>2 DEF IInv, Shape
  <1>4. Closing(todo[1], got.tcode)
    BY DEF Closing
  <1>5. todo = <<todo[1]>> /\ Tail(todo) = << >>
    BY <1>1, <1>3, <1>4, ClosesFirst
  <1>6. \A f : ~Pending(<<todo[1]>>, f)
    BY <1>1, PendingOne
  <1>7. \A f : ~Pending(todo, f)
    BY <1>5, <1>6
  <1>8. "tcode" \in DOMAIN got
    BY <1>2 DEF IInv, Fresh, Reading
  <1> QED
    BY <1>5, <1>7, <1>8

\* The step to the time stamp preserves the invariant.
LEMMA TimeStep == IInv /\ UnpackTime => IInv'
  <1> SUFFICES ASSUME IInv, UnpackTime PROVE IInv'
    OBVIOUS
  <1>1. phase = "decode" /\ todo # << >> /\ todo[1].do = "time"
    BY DEF UnpackTime, Does
  <1>2. todo[1] = Time
    BY <1>1, Facts, StepKinds
  <1>3. "tcode" \in DOMAIN got /\ \A f : ~Pending(todo, f)
    BY <1>1, <1>2, LastStep
  <1>4. CASE hwcfg.ts_bits > 0 /\ eom
    <2>1. Ends("missing_field") \/ Ends("ok")
      BY <1>4 DEF UnpackTime
    <2>2. CASE Ends("missing_field")
      BY <2>2, FailureStep DEF Ends, inputs, decoderVars
    <2>3. CASE Ends("ok")
      BY <1>1, <1>3, <1>4, <2>3, SuccessStep
    <2> QED
      BY <2>1, <2>2, <2>3
  <1>5. CASE ~(hwcfg.ts_bits > 0 /\ eom)
    <2>1. /\ todo' = <<Skip>> \o If(hwcfg.ts_bits > 0, <<Req("timestamp")>>)
          /\ UNCHANGED <<hwcfg, msg, limit, buffer, size, phase, rc, bit_offset, given, taken,
                         consumed_bytes, eom, got>>
      BY <1>5 DEF UnpackTime, inputs, decoderVars
    <2>2. todo' \in {<<Skip>>, <<Skip, Req("timestamp")>>}
      BY <2>1, SmallConcat DEF If
    <2>3. Closes(<<Skip>>, got.tcode)
      BY Members, ShortLists DEF Closing
    <2>4. Shape'
      BY <2>1, <2>2, <2>3 DEF Shape
    <2>5. ArgsOK' /\ ControlOK' /\ MarkOK'
      <3>1. Skip \in Step /\ Req("timestamp") \in Step
        BY Members
      <3>2. <<Skip>> \in Seq(Step) /\ <<Skip, Req("timestamp")>> \in Seq(Step)
        BY <3>1
      <3>3. todo' \in Seq(Step)
        BY <2>2, <3>2
      <3> QED
        BY <2>1, <3>3, ArgsStay DEF IInv, ControlOK, MarkOK, Reading
    <2>6. TypeOK'
      BY <2>1, WidthsStay DEF IInv, TypeOK
    <2>7. \A f \in Fields : Needs(got, f) => f \in DOMAIN got
      BY <1>1, <1>3 DEF IInv, Fresh, Reading
    <2>8. ~Pending(todo', "tcode")
      BY <2>2, ReadsOf DEF Pending
    <2>9. Fresh'
      BY <1>3, <2>1, <2>7, <2>8 DEF Fresh
    <2> QED
      BY <2>4, <2>5, <2>6, <2>9 DEF IInv
  <1> QED
    BY <1>4, <1>5

\* The end of a message preserves the invariant.
LEMMA EndStep == IInv /\ (DecodeIdle \/ DecodeEnds) => IInv'
  <1> SUFFICES ASSUME IInv, DecodeIdle \/ DecodeEnds PROVE IInv'
    OBVIOUS
  <1>1. CASE DecodeIdle
    <2>1. phase = "decode" /\ todo # << >> /\ todo[1].do = "idle"
      BY <1>1 DEF DecodeIdle, Does
    <2>2. todo[1] = IdleEnds
      BY <2>1, Facts, StepKinds
    <2>3. "tcode" \in DOMAIN got /\ \A f : ~Pending(todo, f)
      BY <2>1, <2>2, LastStep
    <2>4. CASE eom
      BY <1>1, <2>1, <2>3, <2>4, SuccessStep DEF DecodeIdle
    <2>5. CASE ~eom
      BY <1>1, <2>5, FailureStep DEF DecodeIdle, Ends, inputs, decoderVars
    <2> QED
      BY <2>4, <2>5
  <1>2. CASE DecodeEnds
    <2>1. phase = "decode" /\ todo = << >> /\ Ends("ok")
      BY <1>2 DEF DecodeEnds
    <2>2. \A f : ~Pending(todo, f)
      BY <2>1, PendingOne
    <2>3. eom
      BY <2>1 DEF IInv, Shape, Closes
    <2>4. "tcode" \in DOMAIN got
      BY <2>1 DEF IInv, Fresh, Reading
    <2> QED
      BY <2>1, <2>2, <2>3, <2>4, SuccessStep
  <1> QED
    BY <1>1, <1>2

-----------------------------------------------------------------------------
(***************************************************************************)
(* The theorems.                                                           *)
(***************************************************************************)
\* The invariant holds initially.
LEMMA InitIInv == Init => IInv
  <1> SUFFICES ASSUME Init PROVE IInv
    OBVIOUS
  <1>1. PICK x \in Inputs :
          /\ hwcfg = x.hwcfg /\ msg = x.msg /\ limit = x.limit
          /\ buffer = x.buffer /\ phase = x.phase
          /\ todo = IF x.phase = "encode" THEN EncodeSteps(x.msg) ELSE << >>
          /\ bit_offset = 0 /\ size = 0 /\ rc = "none" /\ got = << >>
    BY DEF Init
  <1>2. IsInput(x)
    BY CodecAssumption
  <1>3. ArgsOK /\ buffer \in [0 .. limit - 1 -> Byte] /\ phase \in {"encode", "encoded"}
    BY <1>1, <1>2 DEF IsInput, ArgsOK
  <1>4. ControlOK
    <2>1. todo \in Seq(Step)
      BY <1>1, EncodeIsList, EmptySeq
    <2> QED
      BY <1>1, <1>3, <2>1 DEF ControlOK
  <1>5. TypeOK
    <2>1. limit * MDO_BITS \in Nat /\ limit \in Nat
      BY <1>3, Constants DEF ArgsOK
    <2>2. 0 \in 0 .. limit /\ 0 \in 0 .. limit * MDO_BITS
      BY <2>1
    <2>3. DOMAIN << >> = {}
      OBVIOUS
    <2> QED
      BY <1>1, <1>3, <2>2, <2>3 DEF TypeOK
  <1> QED
    BY <1>1, <1>3, <1>4, <1>5 DEF IInv, Shape, MarkOK, Fresh, Reading

\* Every step preserves the invariant.
LEMMA NextIInv == IInv /\ [Next]_vars => IInv'
  <1> SUFFICES ASSUME IInv, [Next]_vars PROVE IInv'
    OBVIOUS
  <1>1. CASE UNCHANGED vars
    <2>1. UNCHANGED <<hwcfg, msg, limit, buffer, phase, todo, bit_offset, size, rc,
                      given, taken, consumed_bytes, eom, got>>
      BY <1>1 DEF vars
    <2>2. ArgsOK' /\ ControlOK' /\ MarkOK' /\ Fresh'
      BY <2>1 DEF IInv, ArgsOK, ControlOK, MarkOK, Fresh, Reading
    <2>3. TypeOK'
      BY <2>1, WidthsStay DEF IInv, TypeOK
    <2>4. Shape'
      BY <2>1 DEF IInv, Shape
    <2> QED
      BY <2>2, <2>3, <2>4 DEF IInv
  <1>2. CASE PackTruncates \/ PackFixed \/ PackVar \/ PackUnsupported \/ EncodeEnds
    BY <1>2, EncodeStep
  <1>3. CASE \E n \in 0 .. limit : CallDecode(n)
    BY <1>3, CallStep
  <1> QED
    BY <1>1, <1>2, <1>3, ConsumeStep, SkipStep, FieldStep, TimeStep, EndStep DEF Next, Finished

\* The invariant holds always.
LEMMA AlwaysIInv == Spec => []IInv
  BY InitIInv, NextIInv, PTL DEF Spec

\* For every width, configuration, message and content of the buffer: the
\* positions of nexusrv_msg_encode and nexusrv_msg_decode stay within the bytes
\* handed over, and no field holds more bits than its type.
THEOREM CodecStaysInBuffer == Spec => []TypeOK
  <1>1. IInv => TypeOK
    BY DEF IInv
  <1> QED
    BY <1>1, AlwaysIInv, PTL

\* For every content of the buffer: a message that nexusrv_msg_decode accepts
\* ends at the first byte marked as the end of a message, so decoding and
\* nexusrv_sync_forward and _backward agree on where messages begin.
THEOREM DecodingEndsAtMark == Spec => []EndsAtMark
  <1>1. IInv => EndsAtMark
    <2> SUFFICES ASSUME IInv, phase = "done", rc = "ok"
                 PROVE  taken = sync_forward(given) /\ taken = sync_backward(taken)
      BY DEF EndsAtMark
    <2>1. /\ limit \in Nat /\ given \in Nat /\ taken \in Nat /\ taken <= given /\ taken > 0
          /\ \A i \in 0 .. taken - 1 : buffer[i].mseo = 3 <=> i = taken - 1
      <3>1. /\ limit \in Nat /\ given \in 0 .. limit /\ taken \in 0 .. given /\ eom
            /\ taken > 0
            /\ \A i \in 0 .. taken - 1 : buffer[i].mseo = 3 <=> eom /\ i = taken - 1
        BY DEF IInv, ArgsOK, MarkOK, Reading
      <3> QED
        BY <3>1
    <2>2. taken = sync_forward(given)
      <3> DEFINE ends == { i \in 0 .. given - 1 : buffer[i].mseo = 3 }
                 c == CHOOSE i \in ends : \A j \in ends : i <= j
      <3>1. taken - 1 \in ends
        BY <2>1
      <3>2. \A j \in ends : taken - 1 <= j
        <4> TAKE j \in ends
        <4>1. j \in Nat /\ buffer[j].mseo = 3
          BY <2>1
        <4>2. j < taken - 1 => j \in 0 .. taken - 1 /\ j # taken - 1
          BY <2>1, <4>1
        <4>3. ~(j < taken - 1)
          BY <2>1, <4>1, <4>2
        <4> QED
          BY <2>1, <4>1, <4>3
      <3>3. \A i \in ends : i \in Nat
        BY <2>1
      <3>4. c \in ends /\ \A j \in ends : c <= j
        BY <3>1, <3>2
      <3>5. sync_forward(given) = 1 + c
        BY <3>1 DEF sync_forward
      <3> HIDE DEF c, ends
      <3> QED
        BY <2>1, <3>1, <3>2, <3>3, <3>4, <3>5
    <2>3. taken = sync_backward(taken)
      <3> DEFINE ends == { i \in 0 .. taken - 1 : buffer[i].mseo = 3 }
                 c == CHOOSE i \in ends : \A j \in ends : j <= i
      <3>1. ends = {taken - 1}
        BY <2>1
      <3>2. c = taken - 1
        BY <2>1, <3>1
      <3>3. sync_backward(taken) = 1 + c
        BY <3>1 DEF sync_backward
      <3> HIDE DEF c
      <3> QED
        BY <2>1, <3>2, <3>3
    <2> QED
      BY <2>2, <2>3
  <1> QED
    BY <1>1, AlwaysIInv, PTL

\* For every content of the buffer: the fields the trace decoder reads of a
\* message were set by decoding this one, although nexusrv_msg_decode never
\* clears the structure it fills.
THEOREM DecodedFieldsAreFresh == Spec => []FieldsAreFresh
  <1>1. IInv => FieldsAreFresh
    <2> SUFFICES ASSUME IInv, phase = "done", rc = "ok" PROVE FieldsAreFresh
      BY DEF FieldsAreFresh
    <2>1. \A f \in Fields : Needs(got, f) => f \in DOMAIN got
      BY DEF IInv, Fresh, Reading
    <2>2. {"src", "icnt", "rcode", "rdata", "xaddr", "hist", "hrepeat"} \subseteq Fields
      BY DEF Fields, FixedBits, StoredBits
    <2>3. \A f \in {"src", "icnt", "rcode", "rdata", "xaddr", "hist", "hrepeat"} :
             Needs(got, f) => f \in DOMAIN got
      BY <2>1, <2>2
    <2>4. got.tcode = TCODE.ResourceFull => "rcode" \in DOMAIN got
      BY <2>3 DEF Needs
    <2> QED
      BY <2>3, <2>4, BitsOfZero DEF FieldsAreFresh, Needs
  <1> QED
    BY <1>1, AlwaysIInv, PTL

-----------------------------------------------------------------------------
(***************************************************************************)
(* Encoding and decoding are inverse.                                      *)
(***************************************************************************)
\* What Representable says, of the message in hand.
FitsStream == /\ known(msg)
              /\ \A f \in Fields : msg[f] \subseteq 0 .. StoredWidth(f) - 1
              /\ msg.tcode = TCODE.ICT /\ msg.ckdf = Bits(0) => msg.ckdata1 = {}

\* The steps that encode the message, and where they put its bits: step i is at
\* the bits off[i] .. off[i + 1] - 1 of the buffer, its value in front.
Plan == EncodeSteps(msg)

\* How many bits step s writes at bit p, without the rounding at the end of its byte.
WidthAt(s, p) ==
    CASE s.do = "fixed" -> FixedWidth(s.f)
      [] s.do = "var" -> BitLength(msg[s.f])
      [] s.do = "req" -> IF msg[s.f] = {} THEN 1 ELSE BitLength(msg[s.f])
      [] s.do = "vao" -> VaoBits(msg[s.f], p)

\* Bit p of a buffer, counted over its bytes.
BitOf(buf, p) == p % MDO_BITS \in buf[p \div MDO_BITS].mdo

\* The steps lie one behind the other.
Ascends(off, n) == /\ off \in [Nat -> Nat] /\ off[1] = 0
                   /\ \A i \in 1 .. n : \A k \in 1 .. i : off[k] <= off[i + 1]

\* The buffer holds the value of step i, and zeros behind it.
Holds(off, i) == \A b \in Nat : off[i] + b < off[i + 1] =>
                    (BitOf(buffer, off[i] + b) <=> /\ b < WidthAt(Plan[i], off[i])
                                                   /\ b \in msg[Plan[i].f])

\* A step ends a byte: one of variable width, and the last.
Varies(i) == Plan[i].do # "fixed"
Closed(i) == Varies(i) \/ i = Len(Plan)

\* Where the bits of a step end, rounded up to a byte when it closes one.
EndOf(off, i, closed) == LET e == off[i] + WidthAt(Plan[i], off[i])
                         IN  IF closed THEN Bytes(e) * MDO_BITS ELSE e

\* n steps have been encoded.
Laid(off, n) ==
    /\ Ascends(off, n) /\ bit_offset = off[n + 1]
    /\ \A i \in 1 .. n : /\ Reads(Plan[i]) /\ Holds(off, i)
                         /\ off[i + 1] = EndOf(off, i, Varies(i))
    /\ \A q \in 0 .. Bytes(bit_offset) - 1 :
          buffer[q].mseo = IF \E i \in 1 .. n : Varies(i) /\ off[i + 1] = (q + 1) * MDO_BITS
                              THEN 1 ELSE 0
    /\ \A p \in Nat : bit_offset <= p /\ p < Bytes(bit_offset) * MDO_BITS => ~BitOf(buffer, p)

-----------------------------------------------------------------------------
(***************************************************************************)
(* Bits and bytes.                                                         *)
(***************************************************************************)
\* Quotient and rest.
LEMMA DivMod ==
  ASSUME NEW M \in Nat, M # 0, NEW p \in Nat
  PROVE  /\ p \div M \in Nat /\ p % M \in 0 .. M - 1
         /\ p = (p \div M) * M + (p % M)
  <1>1. p \div M \in Nat
    OBVIOUS
  <1>2. p % M \in 0 .. M - 1
    OBVIOUS
  <1>3. p % M = p - M * (p \div M)
    OBVIOUS
  <1> DEFINE d == p \div M
             r == p % M
  <1>4. d \in Nat /\ r \in Nat /\ r = p - M * d
    BY <1>1, <1>2, <1>3
  <1> HIDE DEF d, r
  <1>5. M * d = d * M /\ d * M \in Nat
    BY <1>4
  <1>6. p = d * M + r
    BY <1>4, <1>5
  <1> QED
    BY <1>1, <1>2, <1>6 DEF d, r

\* They are unique.
LEMMA DivUnique ==
  ASSUME NEW M \in Nat, M # 0, NEW q \in Nat, NEW r \in 0 .. M - 1
  PROVE  (q * M + r) \div M = q /\ (q * M + r) % M = r
  <1> DEFINE p == q * M + r
             d == p \div M
             s == p % M
  <1>1. p \in Nat
    OBVIOUS
  <1>2. d \in Nat /\ s \in 0 .. M - 1 /\ p = d * M + s
    BY <1>1, DivMod
  <1> HIDE DEF d, s
  <1>3. CASE d < q
    <2>1. d + 1 <= q
      BY <1>2, <1>3
    <2>2. (d + 1) * M <= q * M
      BY <1>2, <2>1, Grows
    <2>3. d * M + M <= q * M
      BY <1>2, <2>2
    <2> QED
      BY <1>2, <2>3
  <1>4. CASE q < d
    <2>1. q + 1 <= d
      BY <1>2, <1>4
    <2>2. (q + 1) * M <= d * M
      BY <1>2, <2>1, Grows
    <2>3. q * M + M <= d * M
      BY <1>2, <2>2
    <2> QED
      BY <1>2, <2>3
  <1>5. CASE q = d
    BY <1>2, <1>5 DEF d, s
  <1> QED
    BY <1>2, <1>3, <1>4, <1>5

\* Whole bytes compare as their numbers do.
LEMMA Cancel ==
  ASSUME NEW M \in Nat, M # 0, NEW a \in Nat, NEW b \in Nat
  PROVE  /\ a * M \in Nat /\ b * M \in Nat
         /\ a * M = b * M <=> a = b
         /\ a * M < b * M <=> a < b
         /\ a * M <= b * M <=> a <= b
  <1>1. a * M \in Nat /\ b * M \in Nat
    OBVIOUS
  <1>2. ASSUME NEW c \in Nat, NEW d \in Nat, c < d PROVE c * M < d * M
    <2>1. (c + 1) * M <= d * M
      BY <1>2, Grows
    <2>2. (c + 1) * M = c * M + M
      OBVIOUS
    <2> QED
      BY <2>1, <2>2
  <1> QED
    BY <1>1, <1>2

\* A byte lies below the end of the bits when it is begun.
LEMMA Begun ==
  ASSUME NEW q \in Nat, NEW e \in Nat
  PROVE  /\ Bytes(e) \in Nat /\ e <= Bytes(e) * MDO_BITS
         /\ q < Bytes(e) <=> q * MDO_BITS < e
         /\ Bytes(q * MDO_BITS) = q
  <1> DEFINE M == MDO_BITS
  <1>1. M \in Nat /\ M # 0
    BY Constants
  <1> HIDE DEF M
  <1>2. ASSUME NEW x \in Nat
        PROVE  /\ Bytes(x) \in Nat /\ x <= Bytes(x) * M
               /\ Bytes(x) * M < x + M
    <2> DEFINE d == (x + M - 1) \div M
    <2>1. x + M - 1 \in Nat
      BY <1>1
    <2>2. d \in Nat /\ (x + M - 1) % M \in 0 .. M - 1
          /\ x + M - 1 = d * M + ((x + M - 1) % M)
      BY <1>1, <2>1, DivMod
    <2>3. Bytes(x) = d
      BY DEF Bytes, M
    <2> HIDE DEF d
    <2>4. d * M \in Nat
      BY <1>1, <2>2
    <2>5. x <= d * M /\ d * M < x + M
      <3> DEFINE r == (x + M - 1) % M
      <3>1. x + M - 1 = d * M + r /\ r \in 0 .. M - 1
        BY <2>2
      <3> HIDE DEF r
      <3> QED
        BY <1>1, <2>2, <2>4, <3>1
    <2> QED
      BY <2>2, <2>3, <2>5
  <1>3. q < Bytes(e) <=> q * M < e
    <2>1. Bytes(e) \in Nat /\ e <= Bytes(e) * M /\ Bytes(e) * M < e + M /\ Bytes(e) * M \in Nat
      BY <1>1, <1>2
    <2>2. q * M \in Nat
      BY <1>1
    <2>3. CASE q < Bytes(e)
      <3>1. (q + 1) * M <= Bytes(e) * M
        BY <1>1, <2>1, <2>3, Cancel
      <3>2. (q + 1) * M = q * M + M
        BY <1>1
      <3> QED
        BY <1>1, <2>1, <2>2, <2>3, <3>1, <3>2
    <2>4. CASE ~(q < Bytes(e))
      <3>1. Bytes(e) * M <= q * M
        BY <1>1, <2>1, <2>4, Cancel
      <3> QED
        BY <2>1, <2>2, <2>4, <3>1
    <2> QED
      BY <2>3, <2>4
  <1>4. Bytes(q * M) = q
    <2> DEFINE B == Bytes(q * M)
    <2>1. q * M \in Nat
      BY <1>1
    <2>2. B \in Nat /\ q * M <= B * M /\ B * M < q * M + M
      BY <1>2, <2>1
    <2> HIDE DEF B
    <2>3. q <= B
      BY <1>1, <2>2, Cancel
    <2>4. q * M + M = (q + 1) * M
      BY <1>1
    <2>5. B < q + 1
      BY <1>1, <2>2, <2>4, Cancel
    <2> QED
      BY <2>2, <2>3, <2>5 DEF B
  <1> QED
    BY <1>2, <1>3, <1>4 DEF M

\* The byte a bit is in.
LEMMA ByteOf ==
  ASSUME NEW p \in Nat, NEW q \in Nat
  PROVE  /\ p \div MDO_BITS \in Nat /\ p % MDO_BITS \in 0 .. MDO_BITS - 1
         /\ p = (p \div MDO_BITS) * MDO_BITS + (p % MDO_BITS)
         /\ p < q * MDO_BITS <=> p \div MDO_BITS < q
  <1> DEFINE M == MDO_BITS
             d == p \div M
             r == p % M
  <1>1. M \in Nat /\ M # 0
    BY Constants
  <1>2. d \in Nat /\ r \in 0 .. M - 1 /\ p = d * M + r
    BY <1>1, DivMod
  <1> HIDE DEF M, d, r
  <1>3. d * M \in Nat /\ q * M \in Nat
    BY <1>1, <1>2
  <1>4. CASE d < q
    <2>1. (d + 1) * M <= q * M
      BY <1>1, <1>2, <1>4, Cancel
    <2>2. (d + 1) * M = d * M + M
      BY <1>1, <1>2
    <2>3. p < d * M + M
      BY <1>1, <1>2, <1>3
    <2>4. p < q * M
      BY <1>1, <1>2, <1>3, <2>1, <2>2, <2>3
    <2> QED
      BY <1>2, <1>4, <2>4 DEF M, d, r
  <1>5. CASE ~(d < q)
    <2>1. q * M <= d * M
      BY <1>1, <1>2, <1>5, Cancel
    <2>2. ~(p < q * M)
      BY <1>1, <1>2, <1>3, <2>1
    <2> QED
      BY <1>2, <1>5, <2>2 DEF M, d, r
  <1> QED
    BY <1>4, <1>5

\* pack_bits puts the n low bits of v behind those already there.
LEMMA PackedBits ==
  ASSUME ArgsOK, buffer \in [0 .. limit - 1 -> Byte], bit_offset \in Nat,
         NEW v \in SUBSET (0 .. WordBits - 1), NEW n \in Nat,
         bit_offset + n <= limit * MDO_BITS,
         \A p \in Nat : bit_offset <= p /\ p < Bytes(bit_offset) * MDO_BITS => ~BitOf(buffer, p)
  PROVE  /\ Bytes(bit_offset + n) \in 0 .. limit
         /\ \A q \in 0 .. Bytes(bit_offset + n) - 1 :
               /\ q \in 0 .. limit - 1
               /\ Packed(v, n)[q].mseo = IF q < Bytes(bit_offset) THEN buffer[q].mseo ELSE 0
         /\ \A p \in Nat : p < Bytes(bit_offset + n) * MDO_BITS =>
               (BitOf(Packed(v, n), p) <=> \/ p < bit_offset /\ BitOf(buffer, p)
                                           \/ /\ bit_offset <= p /\ p - bit_offset < n
                                              /\ p - bit_offset \in v)
  <1> DEFINE M == MDO_BITS
             e == bit_offset + n
             bits(i) == { (bit_offset + b) % MDO_BITS :
                           b \in { c \in v \cap 0 .. n - 1 : (bit_offset + c) \div MDO_BITS = i } }
             lo == bit_offset \div MDO_BITS
             hi == (bit_offset + n - 1) \div MDO_BITS
  <1>1. M \in Nat /\ M # 0 /\ limit \in Nat /\ e \in Nat /\ WordBits \in Nat
    BY Constants DEF ArgsOK
  <1>2. Bytes(e) \in 0 .. limit
    BY <1>1, BytesOK
  <1>3. ASSUME NEW q \in 0 .. Bytes(e) - 1
        PROVE  /\ q \in Nat /\ q \in 0 .. limit - 1
               /\ q * M \in Nat /\ q * M < e
               /\ q * M < bit_offset <=> q < Bytes(bit_offset)
    <2>1. q \in Nat /\ q \in 0 .. limit - 1 /\ q < Bytes(e)
      BY <1>1, <1>2
    <2> QED
      BY <1>1, <2>1, Begun, Cancel
  <1>4. ASSUME NEW q \in 0 .. Bytes(e) - 1
        PROVE  \/ /\ Packed(v, n)[q] = buffer[q]
                  /\ n = 0 \/ q < lo
               \/ /\ n # 0 /\ lo <= q /\ q * M < bit_offset
                  /\ Packed(v, n)[q].mseo = buffer[q].mseo
                  /\ Packed(v, n)[q].mdo = buffer[q].mdo \cup bits(q)
               \/ /\ n # 0 /\ lo <= q /\ ~(q * M < bit_offset)
                  /\ Packed(v, n)[q].mseo = 0
                  /\ Packed(v, n)[q].mdo = bits(q)
    <2>1. q \in DOMAIN buffer /\ q \in Nat /\ q * M < e
      BY <1>3
    <2>2. lo \in Nat
      BY ByteOf
    <2>3. n # 0 => hi \in Nat /\ q <= hi
      <3> SUFFICES ASSUME n # 0 PROVE hi \in Nat /\ q <= hi
        OBVIOUS
      <3>1. bit_offset + n - 1 \in Nat /\ ~(bit_offset + n - 1 < q * M) /\ q * M \in Nat
        BY <1>1, <1>3, <2>1
      <3>2. hi \in Nat /\ ~(hi < q)
        BY <2>1, <3>1, ByteOf
      <3> QED
        BY <2>1, <3>2
    <2> DEFINE in == q \in lo .. hi
    <2>4. n # 0 => (in <=> lo <= q)
      BY <2>1, <2>2, <2>3
    <2>5. Packed(v, n)[q] =
            IF n = 0 \/ ~in THEN buffer[q]
            ELSE [mseo |-> IF q * M < bit_offset THEN buffer[q].mseo ELSE 0,
                  mdo  |-> IF q * M < bit_offset THEN buffer[q].mdo \cup bits(q) ELSE bits(q)]
      BY <2>1 DEF Packed
    <2>6. ~(lo <= q) => q < lo
      BY <2>1, <2>2
    <2> HIDE DEF in, lo, hi, bits, M
    <2> QED
      BY <2>4, <2>5, <2>6
  <1>5. ASSUME NEW q \in 0 .. Bytes(e) - 1
        PROVE  /\ q \in 0 .. limit - 1
               /\ Packed(v, n)[q].mseo = IF q < Bytes(bit_offset) THEN buffer[q].mseo ELSE 0
    <2>1. q < lo => q * M < bit_offset
      <3>1. q \in Nat /\ (bit_offset < q * M <=> lo < q) /\ lo \in Nat
            /\ bit_offset = lo * M + (bit_offset % M) /\ bit_offset % M \in Nat
        <4>1. q \in Nat
          BY <1>3
        <4>2. /\ bit_offset \div MDO_BITS \in Nat /\ bit_offset % MDO_BITS \in 0 .. MDO_BITS - 1
              /\ bit_offset = (bit_offset \div MDO_BITS) * MDO_BITS + (bit_offset % MDO_BITS)
              /\ bit_offset < q * MDO_BITS <=> bit_offset \div MDO_BITS < q
          BY <4>1, ByteOf
        <4> DEFINE s == bit_offset % MDO_BITS
        <4>3. s \in 0 .. MDO_BITS - 1
          BY <4>2
        <4> HIDE DEF s
        <4>4. s \in Nat
          BY <1>1, <4>3
        <4> QED
          BY <4>1, <4>2, <4>4 DEF s
      <3> HIDE DEF lo
      <3>2. q < lo => q * M < lo * M
        BY <1>1, <3>1, Cancel
      <3>3. lo * M \in Nat /\ q * M \in Nat /\ lo * M <= bit_offset
        BY <1>1, <3>1
      <3> QED
        BY <3>1, <3>2, <3>3
    <2>2. n = 0 => q * M < bit_offset
      BY <1>3
    <2> HIDE DEF lo, M, bits
    <2> QED
      BY <1>3, <1>4, <2>1, <2>2
  <1>6. ASSUME NEW p \in Nat, p < Bytes(e) * M
        PROVE  BitOf(Packed(v, n), p) <=> \/ p < bit_offset /\ BitOf(buffer, p)
                                          \/ /\ bit_offset <= p /\ p - bit_offset < n
                                             /\ p - bit_offset \in v
    <2> DEFINE q == p \div M
               r == p % M
    <2>1. q \in 0 .. Bytes(e) - 1 /\ q \in Nat /\ r \in 0 .. M - 1 /\ p = q * M + r
      <3>1. q \in Nat /\ r \in 0 .. M - 1 /\ p = q * M + r /\ q < Bytes(e)
        <4> DEFINE B == Bytes(e)
        <4>1. B \in Nat /\ p < B * MDO_BITS
          BY <1>1, <1>2, <1>6
        <4> HIDE DEF B
        <4>2. /\ p \div MDO_BITS \in Nat /\ p % MDO_BITS \in 0 .. MDO_BITS - 1
              /\ p = (p \div MDO_BITS) * MDO_BITS + (p % MDO_BITS)
              /\ p < B * MDO_BITS <=> p \div MDO_BITS < B
          BY <4>1, ByteOf
        <4> QED
          BY <4>1, <4>2 DEF B
      <3> QED
        BY <1>2, <3>1
    <2>2. r \in bits(q) <=> bit_offset <= p /\ p - bit_offset < n /\ p - bit_offset \in v
      <3>1. r \in bits(q) <=> \E c \in v : /\ c < n /\ c \in Nat
                                           /\ (bit_offset + c) \div M = q
                                           /\ (bit_offset + c) % M = r
        <4>1. \A c \in v : c \in Nat
          BY <1>1
        <4>2. \A c \in v : c \in 0 .. n - 1 <=> c < n
          BY <4>1
        <4> QED
          BY <4>1, <4>2
      <3>2. ASSUME NEW c \in v, c \in Nat
            PROVE  (bit_offset + c) \div M = q /\ (bit_offset + c) % M = r <=> bit_offset + c = p
        <4>1. bit_offset + c \in Nat
          BY <3>2
        <4>2. bit_offset + c = ((bit_offset + c) \div M) * M + ((bit_offset + c) % M)
          BY <4>1, ByteOf
        <4>3. (bit_offset + c) \div M = q /\ (bit_offset + c) % M = r => bit_offset + c = p
          BY <2>1, <4>2
        <4> QED
          BY <4>3
      <3> HIDE DEF q, r, bits
      <3>3. \A c \in v : c \in Nat
        BY <1>1
      <3>4. r \in bits(q) <=> \E c \in v : c < n /\ bit_offset + c = p
        BY <3>1, <3>2, <3>3
      <3> QED
        BY <3>3, <3>4
    <2>3. /\ BitOf(Packed(v, n), p) <=> r \in Packed(v, n)[q].mdo
          /\ BitOf(buffer, p) <=> r \in buffer[q].mdo
      BY DEF BitOf
    <2>4. (n = 0 \/ q < lo) /\ ~(p < bit_offset) => n = 0 /\ ~BitOf(buffer, p)
      <3>1. n = 0 /\ ~(p < bit_offset) => ~BitOf(buffer, p)
        BY <1>1, <1>6
      <3>2. q < lo => p < bit_offset
        <4>1. lo \in Nat /\ bit_offset % M \in 0 .. M - 1 /\ bit_offset = lo * M + (bit_offset % M)
          BY ByteOf
        <4>2. q < lo => p < lo * M
          BY <4>1, ByteOf
        <4> DEFINE s == bit_offset % M
        <4> HIDE DEF lo, q, s
        <4>3. lo * M \in Nat /\ s \in Nat /\ bit_offset = lo * M + s
          BY <1>1, <4>1 DEF s
        <4> QED
          BY <4>2, <4>3
      <3> QED
        BY <3>1, <3>2
    <2>5. q * M < bit_offset /\ ~(p < bit_offset) => ~BitOf(buffer, p)
      <3>1. q * M < bit_offset => q < Bytes(bit_offset)
        BY <1>3, <2>1
      <3>2. q < Bytes(bit_offset) => p < Bytes(bit_offset) * M
        BY Begun, ByteOf
      <3> QED
        BY <3>1, <3>2
    <2>6. ~(q * M < bit_offset) => ~(p < bit_offset)
      <3> HIDE DEF q, r
      <3>1. q * M \in Nat /\ r \in Nat /\ p = q * M + r
        BY <1>1, <2>1
      <3> QED
        BY <3>1
    <2>7. p < bit_offset => ~(bit_offset <= p)
      OBVIOUS
    <2> HIDE DEF q, r, bits, lo, M
    <2>8. CASE Packed(v, n)[q] = buffer[q] /\ (n = 0 \/ q < lo)
      <3>1. bit_offset <= p => n = 0
        BY <2>4, <2>7, <2>8
      <3>2. n = 0 => ~(p - bit_offset < n /\ bit_offset <= p)
        OBVIOUS
      <3> QED
        BY <2>3, <2>4, <2>8, <3>1, <3>2
    <2>9. CASE q * M < bit_offset /\ Packed(v, n)[q].mdo = buffer[q].mdo \cup bits(q)
      BY <2>2, <2>3, <2>5, <2>7, <2>9
    <2>10. CASE ~(q * M < bit_offset) /\ Packed(v, n)[q].mdo = bits(q)
      BY <2>2, <2>3, <2>6, <2>7, <2>10
    <2> QED
      BY <1>4, <2>1, <2>8, <2>9, <2>10
  <1> QED
    BY <1>2, <1>5, <1>6

-----------------------------------------------------------------------------
(***************************************************************************)
(* Encoding.                                                               *)
(***************************************************************************)
\* While the arguments stay, the plan does.
LEMMA PlanStays ==
  ASSUME UNCHANGED <<hwcfg, msg>>
  PROVE  /\ Plan' = Plan /\ (FitsStream' <=> FitsStream)
         /\ \A s, p : WidthAt(s, p)' = WidthAt(s, p)
         /\ \A f : FixedWidth(f)' = FixedWidth(f) /\ StoredWidth(f)' = StoredWidth(f)
  <1>1. \A f : FixedWidth(f)' = FixedWidth(f)
    BY DEF FixedWidth
  <1>2. \A f : StoredWidth(f)' = StoredWidth(f)
    BY <1>1 DEF StoredWidth
  <1>3. \A s, p : WidthAt(s, p)' = WidthAt(s, p)
    BY <1>1 DEF WidthAt
  <1>4. Plan' = Plan
    <2>1. Xaddr' = Xaddr
      BY DEF Xaddr
    <2>2. EncodeTime(msg)' = EncodeTime(msg)
      BY DEF EncodeTime
    <2>3. EncodeBody(msg)' = EncodeBody(msg)
      BY <2>1 DEF EncodeBody
    <2> QED
      BY <2>2, <2>3 DEF Plan, EncodeSteps
  <1>5. FitsStream' <=> FitsStream
    BY <1>2 DEF FitsStream
  <1> QED
    BY <1>1, <1>2, <1>3, <1>4, <1>5

\* Widths of steps are numbers.
LEMMA WidthAtOK ==
  ASSUME ArgsOK, NEW s \in Step, Reads(s), NEW p \in Nat
  PROVE  WidthAt(s, p) \in Nat
  <1>1. \A v \in SUBSET (0 .. WordBits - 1) : BitLength(v) \in Nat
    <2> SUFFICES ASSUME NEW v \in SUBSET (0 .. WordBits - 1) PROVE BitLength(v) \in Nat
      OBVIOUS
    <2>1. BitLength(v) \in 0 .. WordBits
      BY Constants, BitLengthOK
    <2> QED
      BY <2>1
  <1>2. s.f \in Fields /\ (s.do = "fixed" => s.f \in FixedFields)
    BY StepKinds
  <1>3. msg[s.f] \in SUBSET (0 .. WordBits - 1)
    BY <1>2 DEF ArgsOK
  <1> QED
    BY <1>1, <1>2, <1>3, Widths, VaoBitsOK DEF WidthAt, Reads

\* A mark does not touch the data.
LEMMA MarkedBits ==
  ASSUME NEW buf \in [0 .. limit - 1 -> Byte], NEW k, NEW mark
  PROVE  LET new == [buf EXCEPT ![k].mseo = mark]
         IN  /\ \A q \in 0 .. limit - 1 : /\ new[q].mdo = buf[q].mdo
                                          /\ new[q].mseo = IF q = k THEN mark ELSE buf[q].mseo
  <1> SUFFICES ASSUME NEW q \in 0 .. limit - 1
               PROVE  LET new == [buf EXCEPT ![k].mseo = mark]
                      IN  /\ new[q].mdo = buf[q].mdo
                          /\ new[q].mseo = IF q = k THEN mark ELSE buf[q].mseo
    OBVIOUS
  <1>1. buf[q] \in Byte
    OBVIOUS
  <1> QED
    BY <1>1 DEF Byte

\* The next step has been added, up to the bit e.
Extended(new, off, n, e) == /\ new \in [Nat -> Nat] /\ new[n + 2] = e
                            /\ \A i \in 1 .. n + 1 : new[i] = off[i]

\* What was laid stays where it is when the next step is packed behind it.
LEMMA PackStep ==
  ASSUME IInv, phase = "encode", NEW off, NEW n \in Nat, Laid(off, n),
         todo # << >>, todo[1] = Plan[n + 1], PackFixed \/ PackVar,
         NEW new, Extended(new, off, n, bit_offset')
  PROVE  Laid(new, n + 1)'
  <1> DEFINE s == todo[1]
             v == msg[s.f]
             w == PackWidth(s)
             e == bit_offset + w
             M == MDO_BITS
             B == Bytes(bit_offset)
             C == Bytes(e)
             P == Packed(v, w)
  <1>1. /\ ArgsOK /\ buffer \in [0 .. limit - 1 -> Byte] /\ bit_offset \in Nat /\ s \in Step
        /\ M \in Nat /\ M # 0
    BY Constants DEF IInv, TypeOK, ControlOK
  <1>2. Reads(s) /\ e <= limit * M /\ (s.do # "fixed" <=> PackVar)
    BY DEF PackFixed, PackVar, Packs, HasRoom, Reads
  <1>3. /\ s.f \in Fields /\ v \in SUBSET (0 .. WordBits - 1) /\ w \in Nat /\ e \in Nat
        /\ w = WidthAt(Plan[n + 1], bit_offset)
    <2>1. s.f \in Fields
      BY <1>1, <1>2, StepKinds
    <2>2. v \in SUBSET (0 .. WordBits - 1)
      BY <1>1, <2>1 DEF ArgsOK
    <2>3. w \in Nat
      BY <1>1, <1>2, PackWidthOK
    <2>4. w = WidthAt(Plan[n + 1], bit_offset)
      BY <1>2 DEF PackWidth, WidthAt, Reads
    <2> QED
      BY <1>1, <2>1, <2>2, <2>3, <2>4
  <1>4. /\ UNCHANGED <<hwcfg, msg, limit>>
        /\ buffer' = IF s.do = "fixed" THEN P ELSE [P EXCEPT ![C - 1].mseo = 1]
        /\ bit_offset' = IF s.do = "fixed" THEN e ELSE C * M
    BY <1>2 DEF PackFixed, PackVar, Marked, Packs
  <1>5. /\ Plan' = Plan /\ \A t, p : WidthAt(t, p)' = WidthAt(t, p)
    BY <1>4, PlanStays
  <1>6. /\ C \in 0 .. limit
        /\ \A q \in 0 .. C - 1 : /\ q \in 0 .. limit - 1
                                 /\ P[q].mseo = IF q < B THEN buffer[q].mseo ELSE 0
        /\ \A p \in Nat : p < C * M =>
              (BitOf(P, p) <=> \/ p < bit_offset /\ BitOf(buffer, p)
                               \/ /\ bit_offset <= p /\ p - bit_offset < w
                                  /\ p - bit_offset \in v)
    BY <1>1, <1>2, <1>3, PackedBits DEF Laid
  <1>7. P \in [0 .. limit - 1 -> Byte]
    BY <1>1, <1>3, PackedOK
  <1>8. limit \in Nat /\ C \in Nat /\ B \in Nat
    BY <1>1, <1>6, Begun DEF ArgsOK
  <1>9. /\ \A q \in 0 .. limit - 1 : buffer'[q].mdo = P[q].mdo
        /\ \A q \in 0 .. C - 1 : buffer'[q].mseo = IF s.do # "fixed" /\ q = C - 1 THEN 1 ELSE P[q].mseo
    <2> HIDE DEF P, C, s
    <2>1. CASE s.do = "fixed"
      BY <1>4, <2>1
    <2>2. CASE s.do # "fixed"
      BY <1>4, <1>6, <1>7, <2>2, MarkedBits
    <2> QED
      BY <2>1, <2>2
  <1> HIDE DEF P, M, B, C, e, w, v, s
  \* The data.
  <1>10. ASSUME NEW p \in Nat, p < C * M
         PROVE  BitOf(buffer', p) <=> \/ p < bit_offset /\ BitOf(buffer, p)
                                      \/ /\ bit_offset <= p /\ p - bit_offset < w
                                         /\ p - bit_offset \in v
    <2>1. p \div M \in Nat /\ p \div M < C
      BY <1>8, <1>10, ByteOf DEF M
    <2>2. p \div M \in 0 .. limit - 1
      BY <1>6, <1>8, <2>1
    <2>3. BitOf(buffer', p) <=> BitOf(P, p)
      BY <1>9, <2>2 DEF BitOf, M
    <2> QED
      BY <1>6, <1>10, <2>3
  <1>11. /\ e <= C * M /\ Bytes(C * M) = C /\ C * M \in Nat
         /\ bit_offset <= e /\ bit_offset' \in Nat /\ e <= bit_offset' /\ bit_offset' <= C * M
         /\ Bytes(bit_offset') = C
    <2>1. e <= C * M /\ Bytes(C * M) = C /\ C * M \in Nat
      <3>1. e \in Nat /\ C \in Nat
        BY <1>3, <1>8
      <3>2. Bytes(e) \in Nat /\ e <= Bytes(e) * MDO_BITS
        BY <3>1, Begun
      <3>3. Bytes(C * MDO_BITS) = C
        BY <3>1, Begun
      <3>4. C * M \in Nat
        BY <1>1, <3>1
      <3> QED
        BY <3>2, <3>3, <3>4 DEF M, C
    <2>2. bit_offset <= e
      BY <1>1, <1>3 DEF e
    <2> QED
      BY <1>1, <1>3, <1>4, <2>1, <2>2 DEF C
  \* The offsets.
  <1>12. /\ off \in [Nat -> Nat] /\ off[1] = 0 /\ off[n + 1] = bit_offset
         /\ \A i \in 1 .. n : \A k \in 1 .. i : off[k] <= off[i + 1]
         /\ \A i \in 1 .. n : /\ Reads(Plan[i]) /\ Holds(off, i)
                              /\ off[i + 1] = EndOf(off, i, Varies(i))
         /\ \A q \in 0 .. B - 1 :
               buffer[q].mseo = IF \E i \in 1 .. n : Varies(i) /\ off[i + 1] = (q + 1) * M
                                   THEN 1 ELSE 0
    BY DEF Laid, Ascends, B, M
  <1>13. /\ new \in [Nat -> Nat] /\ new[n + 2] = bit_offset'
         /\ \A i \in 1 .. n + 1 : new[i] = off[i]
    BY DEF Extended
  <1>14. \A k \in 1 .. n + 1 : off[k] \in Nat /\ off[k] <= bit_offset
    <2> SUFFICES ASSUME NEW k \in 1 .. n + 1 PROVE off[k] \in Nat /\ off[k] <= bit_offset
      OBVIOUS
    <2>1. off[k] \in Nat
      BY <1>12
    <2>2. CASE k = n + 1
      BY <1>1, <1>12, <2>1, <2>2
    <2>3. CASE k # n + 1
      <3>1. n \in 1 .. n /\ k \in 1 .. n
        BY <2>3
      <3> QED
        BY <1>12, <2>1, <3>1
    <2> QED
      BY <2>2, <2>3
  <1>15. Ascends(new, n + 1)
    <2>1. ASSUME NEW i \in 1 .. n + 1, NEW k \in 1 .. i
          PROVE  new[k] <= new[i + 1]
      <3>1. CASE i = n + 1
        <4>1. k \in 1 .. n + 1 /\ i + 1 = n + 2
          BY <3>1
        <4>2. off[k] <= bit_offset /\ bit_offset <= bit_offset' /\ off[k] \in Nat
          BY <1>1, <1>3, <1>11, <1>14, <4>1
        <4>3. new[k] = off[k] /\ new[i + 1] = bit_offset'
          BY <1>13, <4>1
        <4>4. off[k] <= bit_offset'
          BY <1>1, <1>11, <4>2
        <4> QED
          BY <4>3, <4>4
      <3>2. CASE i # n + 1
        <4>1. i \in 1 .. n /\ k \in 1 .. n + 1 /\ i + 1 \in 1 .. n + 1
          BY <3>2
        <4> QED
          BY <1>12, <1>13, <4>1
      <3> QED
        BY <3>1, <3>2
    <2>2. 1 \in 1 .. n + 1
      OBVIOUS
    <2>3. new[1] = 0
      BY <1>12, <1>13, <2>2
    <2> QED
      BY <1>13, <2>1, <2>3 DEF Ascends
  <1>16. ASSUME NEW i \in 1 .. n + 1
         PROVE  /\ Reads(Plan'[i]) /\ Holds(new, i)'
                /\ new[i + 1] = EndOf(new, i, Varies(i))'
    <2>1. CASE i = n + 1
      <3>1. new[i] = bit_offset /\ new[i + 1] = bit_offset' /\ Plan'[i] = s
        BY <1>5, <1>12, <1>13, <2>1 DEF s
      <3>2. Holds(new, i)'
        <4> SUFFICES ASSUME NEW b \in Nat, bit_offset + b < bit_offset'
                     PROVE  BitOf(buffer', bit_offset + b) <=> b < w /\ b \in v
          BY <1>3, <1>4, <1>5, <2>1, <3>1 DEF Holds, v, s
        <4>1. /\ bit_offset + b \in Nat /\ bit_offset + b < C * M /\ ~(bit_offset + b < bit_offset)
              /\ bit_offset <= bit_offset + b /\ (bit_offset + b) - bit_offset = b
          BY <1>1, <1>11
        <4> QED
          BY <1>10, <4>1
      <3>3. new[i + 1] = EndOf(new, i, Varies(i))'
        BY <1>3, <1>4, <1>5, <2>1, <3>1 DEF EndOf, Varies, s, e, C, M
      <3> QED
        BY <1>2, <3>1, <3>2, <3>3
    <2>2. CASE i # n + 1
      <3>1. i \in 1 .. n /\ i \in 1 .. n + 1 /\ i + 1 \in 1 .. n + 1
        BY <2>2
      <3>2. new[i] = off[i] /\ new[i + 1] = off[i + 1] /\ off[i] \in Nat /\ off[i + 1] \in Nat
            /\ off[i + 1] <= bit_offset
        BY <1>12, <1>13, <1>14, <3>1
      <3>3. Reads(Plan[i]) /\ Holds(off, i) /\ off[i + 1] = EndOf(off, i, Varies(i))
        BY <1>12, <3>1
      <3>4. Holds(new, i)'
        <4> SUFFICES ASSUME NEW b \in Nat, off[i] + b < off[i + 1]
                     PROVE  BitOf(buffer', off[i] + b) <=> BitOf(buffer, off[i] + b)
          BY <1>4, <1>5, <3>2, <3>3 DEF Holds
        <4>1. /\ off[i] + b \in Nat /\ off[i] + b < C * M /\ off[i] + b < bit_offset
              /\ ~(bit_offset <= off[i] + b)
          <5> DEFINE x == off[i]
                     y == off[i + 1]
                     z == C * M
          <5>1. x \in Nat /\ y \in Nat /\ z \in Nat /\ x + b < y /\ y <= bit_offset
            BY <1>11, <3>2
          <5>2. bit_offset <= z
            BY <1>1, <1>3, <1>11
          <5> HIDE DEF x, y, z
          <5>3. x + b \in Nat /\ x + b < z /\ x + b < bit_offset /\ ~(bit_offset <= x + b)
            BY <1>1, <5>1, <5>2
          <5> QED
            BY <5>3 DEF x, y, z
        <4> QED
          BY <1>10, <4>1
      <3>5. new[i + 1] = EndOf(new, i, Varies(i))'
        BY <1>5, <3>2, <3>3 DEF EndOf, Varies
      <3> QED
        BY <1>5, <3>3, <3>4, <3>5
    <2> QED
      BY <2>1, <2>2
  \* The marks.
  <1>17. ASSUME NEW q \in 0 .. C - 1
         PROVE  buffer'[q].mseo =
                  IF \E i \in 1 .. n + 1 : Varies(i)' /\ new[i + 1] = (q + 1) * M THEN 1 ELSE 0
    <2>1. \A i : Varies(i)' <=> Varies(i)
      BY <1>5 DEF Varies
    <2>2. q \in Nat /\ (q + 1) * M \in Nat /\ (q + 1) * M = q * M + M /\ q * M \in Nat
      BY <1>1, <1>8
    <2>3. s.do # "fixed" <=> Varies(n + 1)
      BY DEF Varies, s
    <2>4. Varies(n + 1) => (new[(n + 1) + 1] = (q + 1) * M <=> q = C - 1)
      <3> SUFFICES ASSUME Varies(n + 1)
                   PROVE  C * M = (q + 1) * M <=> q = C - 1
        <4>1. (n + 1) + 1 = n + 2
          OBVIOUS
        <4> QED
          BY <1>4, <1>13, <2>3, <4>1
      <3>1. C * M = (q + 1) * M <=> C = q + 1
        BY <1>1, <1>8, <2>2, Cancel
      <3> QED
        BY <1>8, <2>2, <3>1
    <2>5. \A i \in 1 .. n : new[i + 1] = off[i + 1] /\ off[i + 1] \in Nat /\ off[i + 1] <= bit_offset
      <3> SUFFICES ASSUME NEW i \in 1 .. n
                   PROVE  new[i + 1] = off[i + 1] /\ off[i + 1] \in Nat /\ off[i + 1] <= bit_offset
        OBVIOUS
      <3>1. i + 1 \in 1 .. n + 1
        OBVIOUS
      <3> QED
        BY <1>13, <1>14, <3>1
    <2>6. (\E i \in 1 .. n + 1 : Varies(i)' /\ new[i + 1] = (q + 1) * M)
             <=> \/ Varies(n + 1) /\ q = C - 1
                 \/ \E i \in 1 .. n : Varies(i) /\ off[i + 1] = (q + 1) * M
      <3>1. \A i \in 1 .. n + 1 : i = n + 1 \/ i \in 1 .. n
        OBVIOUS
      <3>2. n + 1 \in 1 .. n + 1 /\ \A i \in 1 .. n : i \in 1 .. n + 1
        OBVIOUS
      <3> QED
        BY <2>1, <2>4, <2>5, <3>1, <3>2
    <2>7. ~(q < B) => ~\E i \in 1 .. n : Varies(i) /\ off[i + 1] = (q + 1) * M
      <3>1. ~(q < B) => ~(q * M < bit_offset)
        BY <1>1, <2>2, Begun DEF B, M
      <3> QED
        BY <1>1, <2>2, <2>5, <3>1
    <2>8. q < B => q \in 0 .. B - 1
      BY <1>8, <2>2
    <2> QED
      BY <1>6, <1>9, <1>12, <2>3, <2>6, <2>7, <2>8
  \* The rest of the last byte.
  <1>18. ASSUME NEW p \in Nat, bit_offset' <= p, p < C * M
         PROVE  ~BitOf(buffer', p)
    <2>1. ~(p < bit_offset) /\ ~(p - bit_offset < w)
      BY <1>1, <1>3, <1>11, <1>18 DEF e
    <2> QED
      BY <1>10, <1>18, <2>1
  <1>19. /\ Ascends(new, n + 1) /\ bit_offset' = new[(n + 1) + 1]
         /\ \A i \in 1 .. n + 1 : /\ Reads(Plan'[i]) /\ Holds(new, i)'
                                  /\ new[i + 1] = EndOf(new, i, Varies(i))'
         /\ \A q \in 0 .. Bytes(bit_offset') - 1 :
               buffer'[q].mseo =
                 IF \E i \in 1 .. n + 1 : Varies(i)' /\ new[i + 1] = (q + 1) * MDO_BITS
                    THEN 1 ELSE 0
         /\ \A p \in Nat : bit_offset' <= p /\ p < Bytes(bit_offset') * MDO_BITS
               => ~BitOf(buffer', p)
    <2>1. bit_offset' = new[(n + 1) + 1]
      <3>1. (n + 1) + 1 = n + 2
        OBVIOUS
      <3> QED
        BY <1>13, <3>1
    <2>2. \A i \in 1 .. n + 1 : /\ Reads(Plan'[i]) /\ Holds(new, i)'
                                /\ new[i + 1] = EndOf(new, i, Varies(i))'
      BY <1>16
    <2>3. \A q \in 0 .. Bytes(bit_offset') - 1 :
             buffer'[q].mseo =
               IF \E i \in 1 .. n + 1 : Varies(i)' /\ new[i + 1] = (q + 1) * MDO_BITS
                  THEN 1 ELSE 0
      BY <1>11, <1>17 DEF M
    <2>4. \A p \in Nat : bit_offset' <= p /\ p < Bytes(bit_offset') * MDO_BITS
             => ~BitOf(buffer', p)
      BY <1>11, <1>18 DEF M
    <2> QED
      BY <1>15, <2>1, <2>2, <2>3, <2>4
  <1> QED
    BY <1>19 DEF Laid, Ascends

\* The message is complete: step i is at the bits off[i] .. off[i + 1] - 1, and
\* the bytes are marked where a step that ends a byte ends.
Encoded(off) ==
    /\ Plan # << >> /\ Ascends(off, Len(Plan)) /\ off[Len(Plan) + 1] = size * MDO_BITS
    /\ \A i \in 1 .. Len(Plan) : /\ Reads(Plan[i]) /\ Holds(off, i)
                                 /\ off[i + 1] = EndOf(off, i, Closed(i))
    /\ \A q \in 0 .. size - 1 :
          buffer[q].mseo =
             IF q = size - 1 THEN 3
             ELSE IF \E i \in 1 .. Len(Plan) : Closed(i) /\ off[i + 1] = (q + 1) * MDO_BITS
             THEN 1 ELSE 0

\* While a message is encoded, the steps left are the rest of the plan.
Encoding == /\ size = 0 /\ (known(msg) => FitsStream)
            /\ \E n \in Nat : /\ Len(Plan) = n + Len(todo)
                              /\ \A i \in 1 .. Len(todo) : todo[i] = Plan[n + i]
                              /\ \E off : Laid(off, n)

\* A list without steps.
LEMMA EmptyList == Len(<< >>) = 0
  OBVIOUS

\* The plan is a list of steps, none of which is missing.
LEMMA PlanIsList == /\ Plan \in Seq(Step) /\ Plan # << >>
                    /\ Len(Plan) \in Nat /\ Len(Plan) # 0
                    /\ \A k \in 1 .. Len(Plan) : Plan[k] \in Step
  <1>1. Plan \in Seq(Step)
    BY EncodeIsList DEF Plan
  <1>2. Len(Plan) # 0
    <2>1. CASE ~known(msg)
      <3>1. Plan = <<Unsupported>>
        BY <2>1 DEF Plan, EncodeSteps
      <3> QED
        BY <3>1
    <2>2. CASE known(msg)
      <3> DEFINE A == If(hwcfg.src_bits > 0, <<Fixed("src")>>) \o EncodeBody(msg) \o EncodeTime(msg)
                 L == If(msg.tcode # TCODE.Idle, A)
      <3>1. Plan = <<Fixed("tcode")>> \o L
        BY <2>2 DEF Plan, EncodeSteps
      <3>2. L \in Seq(Step) /\ Fixed("tcode") \in Step
        BY EncodeLists, Members DEF If
      <3> HIDE DEF L
      <3>3. Len(Plan) = 1 + Len(L) /\ Len(L) \in Nat
        BY <3>1, <3>2
      <3> QED
        BY <3>3
    <2> QED
      BY <2>1, <2>2
  <1>3. Plan # << >>
    BY <1>2, Zenon, EmptyList
  <1>4. Len(Plan) \in Nat /\ \A k \in 1 .. Len(Plan) : Plan[k] \in Step
    <2> DEFINE P == Plan
    <2> HIDE DEF P
    <2>1. P \in Seq(Step) => Len(P) \in Nat /\ \A k \in 1 .. Len(P) : P[k] \in Step
      OBVIOUS
    <2> QED
      BY <1>1, <2>1 DEF P
  <1> QED
    BY <1>1, <1>2, <1>3, <1>4

\* The last byte is marked and the message is complete.
LEMMA LastByteMarked ==
  ASSUME IInv, NEW off, NEW n \in Nat, n # 0, n = Len(Plan), Laid(off, n), EncodeEnds,
         NEW m \in Nat, n = m + 1,
         NEW new, Extended(new, off, m, size' * MDO_BITS)
  PROVE  Encoded(new)'
  <1> DEFINE M == MDO_BITS
             S == Bytes(bit_offset)
  <1>1. /\ ArgsOK /\ buffer \in [0 .. limit - 1 -> Byte] /\ bit_offset \in Nat
        /\ bit_offset <= limit * M /\ M \in Nat /\ M # 0 /\ limit \in Nat
    <2>1. bit_offset \in 0 .. limit * MDO_BITS /\ ArgsOK /\ buffer \in [0 .. limit - 1 -> Byte]
          /\ limit \in Nat
      BY DEF IInv, TypeOK, EncodeEnds, ArgsOK
    <2> QED
      BY <2>1, Constants
  <1>2. /\ S \in 0 .. limit /\ S \in Nat /\ bit_offset <= S * M /\ S * M \in Nat
        /\ \A q \in Nat : q < S <=> q * M < bit_offset
    BY <1>1, BytesOK, Begun
  <1>3. /\ UNCHANGED <<hwcfg, msg, limit>>
        /\ buffer' = [buffer EXCEPT ![S - 1].mseo = 3] /\ size' = S
    BY DEF EncodeEnds, Marked
  <1>4. /\ Plan' = Plan /\ \A t, p : WidthAt(t, p)' = WidthAt(t, p)
    BY <1>3, PlanStays
  <1>5. /\ \A q \in 0 .. limit - 1 : /\ buffer'[q].mdo = buffer[q].mdo
                                     /\ buffer'[q].mseo = IF q = S - 1 THEN 3 ELSE buffer[q].mseo
    BY <1>1, <1>3, MarkedBits
  <1> HIDE DEF S, M
  <1>6. ASSUME NEW p \in Nat, p < S * M
        PROVE  BitOf(buffer', p) <=> BitOf(buffer, p)
    <2>1. p \div M \in Nat /\ p \div M < S
      BY <1>2, <1>6, ByteOf DEF M
    <2>2. p \div M \in 0 .. limit - 1
      BY <1>1, <1>2, <2>1
    <2> QED
      BY <1>5, <2>2 DEF BitOf, M
  <1>7. /\ off \in [Nat -> Nat] /\ off[1] = 0 /\ off[n + 1] = bit_offset
        /\ \A i \in 1 .. n : \A k \in 1 .. i : off[k] <= off[i + 1]
        /\ \A i \in 1 .. n : /\ Reads(Plan[i]) /\ Holds(off, i)
                             /\ off[i + 1] = EndOf(off, i, Varies(i))
        /\ \A q \in 0 .. S - 1 :
              buffer[q].mseo = IF \E i \in 1 .. n : Varies(i) /\ off[i + 1] = (q + 1) * M
                                  THEN 1 ELSE 0
        /\ \A p \in Nat : bit_offset <= p /\ p < S * M => ~BitOf(buffer, p)
    BY DEF Laid, Ascends, S, M
  <1>8. /\ new \in [Nat -> Nat] /\ new[n + 1] = S * M
        /\ \A i \in 1 .. n : new[i] = off[i]
    <2>1. m + 2 = n + 1 /\ m + 1 = n
      OBVIOUS
    <2> QED
      BY <1>3, <2>1 DEF Extended, M
  <1>9. \A k \in 1 .. n : off[k] \in Nat /\ off[k] <= bit_offset
    <2> SUFFICES ASSUME NEW k \in 1 .. n PROVE off[k] \in Nat /\ off[k] <= bit_offset
      OBVIOUS
    <2>1. n \in 1 .. n /\ k \in Nat
      OBVIOUS
    <2> QED
      BY <1>7, <2>1
  <1>10. Ascends(new, n)
    <2>1. ASSUME NEW i \in 1 .. n, NEW k \in 1 .. i
          PROVE  new[k] <= new[i + 1]
      <3>0. k \in 1 .. n
        OBVIOUS
      <3>1. CASE i = n
        <4>1. off[k] <= bit_offset /\ off[k] \in Nat /\ new[k] = off[k] /\ new[i + 1] = S * M
          BY <1>8, <1>9, <3>0, <3>1
        <4>2. off[k] <= S * M
          BY <1>1, <1>2, <4>1
        <4> QED
          BY <4>1, <4>2
      <3>2. CASE i # n
        <4>1. i + 1 \in 1 .. n
          BY <3>2
        <4> QED
          BY <1>7, <1>8, <3>0, <4>1
      <3> QED
        BY <3>1, <3>2
    <2>2. 1 \in 1 .. n
      OBVIOUS
    <2>3. new[1] = 0
      BY <1>7, <1>8, <2>2
    <2> QED
      BY <1>8, <2>1, <2>3 DEF Ascends
  <1>11. \A i : (Closed(i)' <=> Closed(i)) /\ (Closed(i) <=> Varies(i) \/ i = n)
    BY <1>4 DEF Closed, Varies
  <1>12. ASSUME NEW i \in 1 .. n
         PROVE  /\ Reads(Plan'[i]) /\ Holds(new, i)'
                /\ new[i + 1] = EndOf(new, i, Closed(i))'
    <2>0. Reads(Plan[i]) /\ Holds(off, i) /\ off[i + 1] = EndOf(off, i, Varies(i))
          /\ new[i] = off[i] /\ off[i] \in Nat /\ off[i + 1] \in Nat
      BY <1>7, <1>8
    <2> DEFINE x == off[i]
               y == off[i + 1]
               w == WidthAt(Plan[i], x)
               z == new[i + 1]
    <2>1. w \in Nat
      <3>1. Plan[i] \in Step
        BY PlanIsList
      <3> QED
        BY <1>1, <2>0, <3>1, WidthAtOK
    <2>2. x + w <= y
      <3>1. x + w \in Nat
        BY <2>0, <2>1
      <3>2. x + w <= Bytes(x + w) * MDO_BITS
        BY <3>1, Begun
      <3> QED
        BY <2>0, <3>1, <3>2 DEF EndOf
    <2>3. CASE i = n
      <3>1. y = bit_offset /\ z = S * M
        BY <1>7, <1>8, <2>3
      <3>2. Holds(new, i)'
        <4> SUFFICES ASSUME NEW b \in Nat, x + b < S * M
                     PROVE  BitOf(buffer', x + b) <=> b < w /\ b \in msg[Plan[i].f]
          BY <1>3, <1>4, <2>0, <3>1 DEF Holds
        <4>1. x + b \in Nat
          BY <2>0
        <4>2. BitOf(buffer', x + b) <=> BitOf(buffer, x + b)
          BY <1>6, <4>1
        <4>3. CASE x + b < y
          BY <2>0, <4>2, <4>3 DEF Holds
        <4>4. CASE ~(x + b < y)
          <5>1. ~(b < w) /\ bit_offset <= x + b
            <6> HIDE DEF x, y, w
            <6>1. x \in Nat /\ y \in Nat
              BY <2>0 DEF x, y
            <6> QED
              BY <2>1, <2>2, <3>1, <4>4, <6>1
          <5>2. ~BitOf(buffer, x + b)
            BY <1>7, <4>1, <5>1
          <5> QED
            BY <4>2, <5>1, <5>2
        <4> QED
          BY <4>3, <4>4
      <3>3. z = Bytes(x + w) * MDO_BITS
        <4>1. CASE Varies(i)
          <5>1. y = Bytes(x + w) * MDO_BITS
            BY <2>0, <4>1 DEF EndOf
          <5>2. x + w \in Nat
            BY <2>0, <2>1
          <5>3. Bytes(x + w) \in Nat
            BY <5>2, Begun
          <5>4. Bytes(Bytes(x + w) * MDO_BITS) = Bytes(x + w)
            BY <5>3, Begun
          <5> QED
            BY <3>1, <5>1, <5>4 DEF S, M
        <4>2. CASE ~Varies(i)
          <5>1. y = x + w
            BY <2>0, <4>2 DEF EndOf
          <5> QED
            BY <3>1, <5>1 DEF S, M
        <4> QED
          BY <4>1, <4>2
      <3>4. new[i + 1] = EndOf(new, i, Closed(i))'
        BY <1>4, <1>11, <2>0, <2>3, <3>3 DEF EndOf
      <3> QED
        BY <1>4, <2>0, <3>2, <3>4
    <2>4. CASE i # n
      <3>1. i + 1 \in 1 .. n
        BY <2>4
      <3>2. z = y /\ y <= bit_offset
        BY <1>8, <1>9, <3>1
      <3>3. Holds(new, i)'
        <4> SUFFICES ASSUME NEW b \in Nat, x + b < y
                     PROVE  BitOf(buffer', x + b) <=> BitOf(buffer, x + b)
          BY <1>3, <1>4, <2>0, <3>2 DEF Holds
        <4>1. x + b \in Nat /\ x + b < S * M
          <5> DEFINE u == S * M
          <5> HIDE DEF x, y, u
          <5>1. x \in Nat /\ y \in Nat /\ u \in Nat /\ bit_offset <= u
            BY <1>2, <2>0 DEF x, y, u
          <5>2. x + b \in Nat /\ x + b < u
            BY <1>1, <3>2, <5>1
          <5> QED
            BY <5>2 DEF u
        <4> QED
          BY <1>6, <4>1
      <3>4. new[i + 1] = EndOf(new, i, Closed(i))'
        BY <1>4, <1>11, <2>0, <2>4, <3>2 DEF EndOf
      <3> QED
        BY <1>4, <2>0, <3>3, <3>4
    <2> QED
      BY <2>3, <2>4
  <1>13. ASSUME NEW q \in 0 .. S - 1
         PROVE  buffer'[q].mseo =
                  IF q = S - 1 THEN 3
                  ELSE IF \E i \in 1 .. n : Closed(i)' /\ new[i + 1] = (q + 1) * M THEN 1 ELSE 0
    <2>1. q \in 0 .. limit - 1 /\ q \in Nat /\ q + 1 \in Nat
      BY <1>1, <1>2
    <2>2. CASE q = S - 1
      BY <1>5, <2>1, <2>2
    <2>3. CASE q # S - 1
      <3>1. q + 1 < S
        BY <1>2, <2>1, <2>3
      <3>2. (q + 1) * M < bit_offset /\ (q + 1) * M \in Nat
        BY <1>1, <1>2, <2>1, <3>1
      <3>3. S * M # (q + 1) * M
        BY <1>1, <1>2, <2>1, <3>1, Cancel
      <3>4. bit_offset # (q + 1) * M
        BY <1>1, <3>2
      <3>5. ASSUME NEW i \in 1 .. n
            PROVE  Closed(i)' /\ new[i + 1] = (q + 1) * M <=> Varies(i) /\ off[i + 1] = (q + 1) * M
        <4>1. CASE i = n
          BY <1>7, <1>8, <3>3, <3>4, <4>1
        <4>2. CASE i # n
          <5>1. i + 1 \in 1 .. n
            BY <4>2
          <5> QED
            BY <1>8, <1>11, <4>2, <5>1
        <4> QED
          BY <4>1, <4>2
      <3>6. buffer'[q].mseo = buffer[q].mseo
        BY <1>5, <2>1, <2>3
      <3> QED
        BY <1>7, <2>3, <3>5, <3>6
    <2> QED
      BY <2>2, <2>3
  <1>14. /\ Plan' # << >> /\ Len(Plan') = n /\ new[n + 1] = size' * MDO_BITS
    BY <1>3, <1>4, <1>8, PlanIsList DEF M
  <1>15. \A q \in 0 .. size' - 1 :
          buffer'[q].mseo =
             IF q = size' - 1 THEN 3
             ELSE IF \E i \in 1 .. n : Closed(i)' /\ new[i + 1] = (q + 1) * MDO_BITS
             THEN 1 ELSE 0
    BY <1>3, <1>13 DEF M
  <1>16. \A i \in 1 .. n : /\ Reads(Plan'[i]) /\ Holds(new, i)'
                           /\ new[i + 1] = EndOf(new, i, Closed(i))'
    BY <1>12
  <1> QED
    BY <1>10, <1>14, <1>15, <1>16 DEF Encoded, Ascends

\* A list to begin with.
LEMMA EncodingBegins == Representable /\ Init /\ phase = "encode" => Encoding
  <1> SUFFICES ASSUME Representable, Init, phase = "encode" PROVE Encoding
    OBVIOUS
  <1>1. PICK x \in Inputs :
          /\ hwcfg = x.hwcfg /\ msg = x.msg /\ limit = x.limit
          /\ buffer = x.buffer /\ phase = x.phase
          /\ todo = IF x.phase = "encode" THEN EncodeSteps(x.msg) ELSE << >>
          /\ bit_offset = 0 /\ size = 0
    BY DEF Init
  <1>2. known(msg) => FitsStream
    <2> SUFFICES ASSUME known(msg) PROVE FitsStream
      OBVIOUS
    <2>1. /\ \A f \in Fields : x.msg[f] \subseteq
                0 .. (IF f \in DOMAIN StoredBits THEN StoredBits[f]
                      ELSE IF f = "src" THEN x.hwcfg.src_bits ELSE FixedBits[f]) - 1
          /\ x.msg.tcode = TCODE.ICT /\ x.msg.ckdf = Bits(0) => x.msg.ckdata1 = {}
      BY <1>1 DEF Representable
    <2>2. \A f : StoredWidth(f) = IF f \in DOMAIN StoredBits THEN StoredBits[f]
                                  ELSE IF f = "src" THEN x.hwcfg.src_bits ELSE FixedBits[f]
      BY <1>1 DEF StoredWidth, FixedWidth
    <2> QED
      BY <1>1, <2>1, <2>2 DEF FitsStream
  <1>3. todo = Plan
    BY <1>1 DEF Plan
  <1> DEFINE off == [i \in Nat |-> 0]
  <1>4. Bytes(bit_offset) = 0
    <2>1. Bytes(0 * MDO_BITS) = 0 /\ 0 * MDO_BITS = 0
      BY Begun, Constants
    <2> QED
      BY <1>1, <2>1
  <1>5. Laid(off, 0)
    <2>1. 0 * MDO_BITS = 0
      BY Constants
    <2> QED
      BY <1>1, <1>4, <2>1 DEF Laid, Ascends
  <1>6. \A i \in 1 .. Len(todo) : todo[i] = Plan[0 + i]
    BY <1>3
  <1>7. Len(Plan) = 0 + Len(todo)
    BY <1>3, PlanIsList
  <1> QED
    BY <1>1, <1>2, <1>5, <1>6, <1>7 DEF Encoding

\* One step more.
LEMMA EncodingGoesOn ==
  ASSUME IInv, phase = "encode", Encoding, PackFixed \/ PackVar
  PROVE  Encoding'
  <1>1. /\ todo # << >> /\ todo \in Seq(Step) /\ todo' = Tail(todo)
        /\ UNCHANGED <<hwcfg, msg, size>>
    BY DEF PackFixed, PackVar, Packs, IInv, ControlOK
  <1>2. PICK n \in Nat : /\ Len(Plan) = n + Len(todo)
                         /\ \A i \in 1 .. Len(todo) : todo[i] = Plan[n + i]
                         /\ \E off : Laid(off, n)
    BY DEF Encoding
  <1>3. PICK off : Laid(off, n)
    BY <1>2
  <1>4. Plan' = Plan /\ (FitsStream' <=> FitsStream) /\ (known(msg)' <=> known(msg))
    BY <1>1, PlanStays DEF known
  <1>5. Len(todo) \in Nat /\ Len(todo) # 0
        /\ Len(todo') = Len(todo) - 1 /\ \A i \in 1 .. Len(todo) - 1 : todo'[i] = todo[i + 1]
    BY <1>1
  <1>6. bit_offset' \in Nat
    <2>1. IInv'
      BY EncodeStep
    <2>2. phase' = "encode"
      BY DEF PackFixed, PackVar, Packs
    <2>3. bit_offset' \in 0 .. limit' * MDO_BITS
      BY <2>1, <2>2 DEF IInv, TypeOK
    <2> QED
      BY <2>3
  <1>7. off \in [Nat -> Nat]
    BY <1>3 DEF Laid, Ascends
  <1>8. PICK new : Extended(new, off, n, bit_offset')
    <2> DEFINE x == [i \in Nat |-> IF i = n + 2 THEN bit_offset' ELSE off[i]]
    <2>1. x \in [Nat -> Nat]
      BY <1>6, <1>7
    <2>2. n + 2 \in Nat /\ \A i \in 1 .. n + 1 : i \in Nat /\ i # n + 2
      OBVIOUS
    <2>3. Extended(x, off, n, bit_offset')
      BY <2>1, <2>2 DEF Extended
    <2> QED
      BY <2>3
  <1>9. 1 \in 1 .. Len(todo)
    BY <1>5
  <1>10. todo[1] = Plan[n + 1]
    BY <1>2, <1>9
  <1>11. Laid(new, n + 1)'
    BY <1>1, <1>3, <1>8, <1>10, PackStep
  <1>12. Len(Plan') = (n + 1) + Len(todo') /\ n + 1 \in Nat
    <2> DEFINE a == Len(Plan)
               b == Len(todo)
    <2>1. a = n + b /\ b \in Nat
      BY <1>2, <1>5
    <2>2. Len(Plan') = a /\ Len(todo') = b - 1
      BY <1>4, <1>5
    <2> HIDE DEF a, b
    <2> QED
      BY <2>1, <2>2
  <1>13. ASSUME NEW i \in 1 .. Len(todo') PROVE todo'[i] = Plan'[(n + 1) + i]
    <2>1. i \in 1 .. Len(todo) - 1 /\ i + 1 \in 1 .. Len(todo) /\ n + (i + 1) = (n + 1) + i
      BY <1>5
    <2> QED
      BY <1>2, <1>4, <1>5, <2>1
  <1>14. size' = 0 /\ (known(msg)' => FitsStream')
    BY <1>1, <1>4 DEF Encoding
  <1> QED
    BY <1>11, <1>12, <1>13, <1>14 DEF Encoding

\* The message is complete.
LEMMA EncodingEnds ==
  ASSUME IInv, phase = "encode", Encoding, EncodeEnds
  PROVE  FitsStream' /\ (\E off : Encoded(off))'
  <1>1. todo = << >> /\ UNCHANGED <<hwcfg, msg>>
    BY DEF EncodeEnds
  <1>2. PICK n \in Nat : /\ Len(Plan) = n + Len(todo) /\ \E off : Laid(off, n)
    BY DEF Encoding
  <1>3. n = Len(Plan) /\ n # 0 /\ n - 1 \in Nat /\ n = (n - 1) + 1
    <2>1. Len(todo) = 0
      BY <1>1, EmptyList
    <2>2. Len(Plan) \in Nat /\ Len(Plan) # 0
      BY PlanIsList
    <2> HIDE DEF Plan
    <2> QED
      BY <1>2, <2>1, <2>2
  <1>4. PICK off : Laid(off, n)
    BY <1>2
  <1>5. Plan' = Plan /\ (FitsStream' <=> FitsStream)
    BY <1>1, PlanStays
  <1>6. FitsStream
    <2>1. Reads(Plan[1])
      <3>1. 1 \in 1 .. n
        BY <1>3
      <3> QED
        BY <1>4, <3>1 DEF Laid
    <2>2. known(msg)
      <3> SUFFICES ASSUME ~known(msg) PROVE FALSE
        OBVIOUS
      <3>1. Plan[1] = Unsupported
        BY DEF Plan, EncodeSteps
      <3> QED
        BY <2>1, <3>1 DEF Reads, Unsupported
    <2> QED
      BY <2>2 DEF Encoding
  <1> DEFINE m == n - 1
             e == size' * MDO_BITS
  <1>7. e \in Nat
    <2>1. IInv'
      BY EncodeStep
    <2>2. size' \in Nat
      BY <2>1 DEF IInv, TypeOK, ArgsOK
    <2>3. \A a, b \in Nat : a * b \in Nat
      OBVIOUS
    <2> QED
      BY <2>2, <2>3, Constants
  <1>8. off \in [Nat -> Nat] /\ m \in Nat /\ n = m + 1
    BY <1>3, <1>4 DEF Laid, Ascends
  <1> HIDE DEF m, e
  <1>9. PICK new : Extended(new, off, m, e)
    <2> DEFINE x == [i \in Nat |-> IF i = m + 2 THEN e ELSE off[i]]
    <2>1. x \in [Nat -> Nat]
      BY <1>7, <1>8
    <2>2. m + 2 \in Nat /\ \A i \in 1 .. m + 1 : i \in Nat /\ i # m + 2
      BY <1>8
    <2>3. Extended(x, off, m, e)
      BY <2>1, <2>2 DEF Extended
    <2> QED
      BY <2>3
  <1>10. Encoded(new)'
    BY <1>3, <1>4, <1>8, <1>9, LastByteMarked DEF e
  <1> QED
    BY <1>5, <1>6, <1>10

-----------------------------------------------------------------------------
(***************************************************************************)
(* Reading what was written.                                               *)
(***************************************************************************)
\* Bits counted from a whole byte.
LEMMA Shift ==
  ASSUME NEW M \in Nat, M # 0, NEW a \in Nat, NEW p \in Nat
  PROVE  (a * M + p) \div M = a + (p \div M) /\ (a * M + p) % M = p % M
  <1> DEFINE d == p \div M
             r == p % M
  <1>1. d \in Nat /\ r \in 0 .. M - 1 /\ p = d * M + r
    BY DivMod
  <1> HIDE DEF d, r
  <1>2. a * M + p = (a + d) * M + r
    <2>1. (a + d) * M = a * M + d * M
      BY <1>1
    <2>2. a * M \in Nat /\ d * M \in Nat
      BY <1>1
    <2> QED
      BY <1>1, <2>1, <2>2
  <1>3. a + d \in Nat
    BY <1>1
  <1>4. ((a + d) * M + r) \div M = a + d /\ ((a + d) * M + r) % M = r
    BY <1>1, <1>3, DivUnique
  <1> QED
    BY <1>2, <1>4 DEF d, r

\* The bits of a value are below its length.
LEMMA BitLengthIs ==
  ASSUME NEW w \in Nat, NEW v \in SUBSET (0 .. w - 1)
  PROVE  /\ BitLength(v) \in Nat /\ BitLength(v) <= w
         /\ \A b \in v : b \in Nat /\ b < BitLength(v)
  <1>1. BitLength(v) \in 0 .. w
    BY BitLengthOK
  <1>2. CASE v = {}
    BY <1>1, <1>2
  <1>3. CASE v # {}
    <2> DEFINE S == { w - b : b \in v }
    <2>1. S \subseteq Nat /\ S # {}
      <3>1. \A b \in v : w - b \in Nat
        OBVIOUS
      <3>2. PICK b \in v : TRUE
        BY <1>3
      <3>3. w - b \in S
        OBVIOUS
      <3> QED
        BY <3>1, <3>3
    <2>2. PICK x \in S : \A y \in S : x <= y
      BY <2>1, LeastNat
    <2>3. PICK b \in v : x = w - b
      OBVIOUS
    <2>4. \A c \in v : c <= b
      <3> TAKE c \in v
      <3>1. w - c \in S
        OBVIOUS
      <3>2. w - b <= w - c
        BY <2>2, <2>3, <3>1
      <3> QED
        BY <3>2
    <2> DEFINE m == CHOOSE e \in v : \A c \in v : c <= e
    <2>5. m \in v /\ \A c \in v : c <= m
      BY <2>4
    <2>6. BitLength(v) = 1 + m
      BY <1>3 DEF BitLength
    <2> HIDE DEF m
    <2> QED
      BY <1>1, <2>5, <2>6
  <1> QED
    BY <1>2, <1>3

\* A value with its sign, in bits up to the end of a byte.
LEMMA VaoBack ==
  ASSUME NEW v \in SUBSET (0 .. WordBits - 1), NEW p \in Nat, NEW n \in Nat,
         p + n = Bytes(p + VaoBits(v, p)) * MDO_BITS
  PROVE  /\ n # 0
         /\ SignExtended({ b \in v : b < n /\ b < VaoBits(v, p) }, n) = v
  <1> DEFINE M == MDO_BITS
             l == BitLength(v)
             comp == (0 .. WordBits - 1) \ v
             lc == BitLength(comp)
             least == IF l < WordBits THEN l + 1 ELSE 1 + lc
             bytes == (p + least + MDO_BITS - 1) \div MDO_BITS
             bits == bytes * MDO_BITS - p
             w == VaoBits(v, p)
             r == { b \in v : b < n /\ b < w }
  <1>1. M \in Nat /\ M # 0 /\ WordBits \in Nat /\ WordBits # 0
    BY CodecAssumption, Constants
  <1>2. /\ l \in Nat /\ l <= WordBits /\ \A b \in v : b \in Nat /\ b < l
        /\ lc \in Nat /\ lc <= WordBits /\ \A b \in comp : b \in Nat /\ b < lc
    BY <1>1, BitLengthIs
  <1>3. least \in Nat /\ least # 0
    BY <1>1, <1>2
  <1>4. bytes = Bytes(p + least)
    BY DEF Bytes
  <1>5. w = IF bits > WordBits THEN WordBits ELSE bits
    BY DEF VaoBits
  <1> HIDE DEF w, least
  <1>6. p + least \in Nat
    BY <1>3
  <1>7. bytes \in Nat /\ p + least <= bytes * MDO_BITS
    BY <1>4, <1>6, Begun
  <1> HIDE DEF bytes
  <1>8. bytes * MDO_BITS \in Nat /\ Bytes(bytes * MDO_BITS) = bytes
    BY <1>1, <1>7, Begun
  <1>9. bits \in Nat /\ least <= bits /\ p + bits = bytes * MDO_BITS
    BY <1>3, <1>7, <1>8
  <1> HIDE DEF bits
  <1>10. n # 0
    <2>1. w \in Nat /\ w # 0
      BY <1>1, <1>3, <1>5, <1>9
    <2>2. p + w \in Nat
      BY <2>1
    <2>3. p + w <= Bytes(p + w) * MDO_BITS
      BY <2>2, Begun
    <2>4. p + w <= p + n
      BY <2>3 DEF w
    <2> QED
      BY <2>1, <2>4
  <1>11. CASE n < WordBits
    <2>1. ~(bits > WordBits)
      <3> SUFFICES ASSUME bits > WordBits PROVE FALSE
        OBVIOUS
      <3>1. w = WordBits
        BY <1>5
      <3>2. p + WordBits \in Nat
        BY <1>1
      <3>3. p + WordBits <= Bytes(p + WordBits) * MDO_BITS
        BY <3>2, Begun
      <3>4. p + WordBits <= p + n
        BY <3>1, <3>3 DEF w
      <3> QED
        BY <1>1, <1>11, <3>4
    <2>2. w = bits
      BY <1>5, <2>1
    <2>3. n = bits
      <3>1. p + w = bytes * MDO_BITS
        BY <1>9, <2>2
      <3>2. p + n = bytes * MDO_BITS
        BY <1>8, <3>1 DEF w
      <3> QED
        BY <1>9, <3>2
    <2>4. \A b \in v : b < w <=> b < n
      BY <2>2, <2>3
    <2>5. CASE l < WordBits
      <3>1. l + 1 <= n
        BY <1>9, <2>3, <2>5 DEF least
      <3>2. \A b \in v : b < n /\ b # n - 1
        BY <1>2, <3>1
      <3>3. r = v /\ n - 1 \notin v
        BY <2>4, <3>2
      <3> QED
        BY <1>10, <3>3 DEF SignExtended, w
    <2>6. CASE ~(l < WordBits)
      <3>1. 1 + lc <= n
        BY <1>9, <2>3, <2>6 DEF least
      <3>2. ASSUME NEW b \in (n - 1) .. WordBits - 1
            PROVE  b \in v
        <4>1. b \in 0 .. WordBits - 1 /\ ~(b < lc)
          BY <1>1, <1>2, <1>10, <3>1, <3>2
        <4> QED
          BY <1>2, <4>1
      <3>3. n - 1 \in r
        <4>1. n - 1 \in v
          BY <1>1, <1>10, <1>11, <3>2
        <4> QED
          BY <2>2, <2>3, <4>1
      <3>4. r \cup n .. WordBits - 1 = v
        <4>1. \A b \in n .. WordBits - 1 : b \in v
          BY <1>1, <3>2
        <4>2. \A b \in v : b \in r \/ b \in n .. WordBits - 1
          <5> TAKE b \in v
          <5>1. b \in 0 .. WordBits - 1
            OBVIOUS
          <5>2. b < n \/ b \in n .. WordBits - 1
            BY <1>1, <5>1
          <5> QED
            BY <2>4, <5>2
        <4> QED
          BY <4>1, <4>2
      <3> QED
        BY <1>11, <3>3, <3>4 DEF SignExtended, w
    <2> QED
      BY <2>5, <2>6
  <1>12. CASE ~(n < WordBits)
    <2>1. w = WordBits \/ (w = bits /\ bits \in Nat /\ ~(bits > WordBits))
      BY <1>5, <1>9
    <2>2. WordBits <= w
      <3> SUFFICES ASSUME w = bits PROVE WordBits <= bits
        BY <1>1, <2>1
      <3>1. p + w = bytes * MDO_BITS
        BY <1>9
      <3>2. p + n = bytes * MDO_BITS
        BY <1>8, <3>1 DEF w
      <3> QED
        BY <1>1, <1>9, <1>12, <3>2
    <2>3. w \in Nat
      BY <1>1, <2>1
    <2>4. \A b \in v : b < n /\ b < w
      <3> TAKE b \in v
      <3>1. b \in Nat /\ b < WordBits
        BY <1>1
      <3> QED
        BY <1>1, <1>12, <2>2, <2>3, <3>1
    <2> QED
      BY <1>10, <1>12, <2>4 DEF SignExtended, w
  <1> QED
    BY <1>11, <1>12

\* Where the decoder is: between two fields that end a byte, or in front of step
\* j, with the bytes taken up to the end of the first step that ends one.
Between(off, j) == taken * MDO_BITS = off[j]
Reaches(off, j, k) == /\ k \in j .. Len(Plan) /\ Closed(k) /\ \A i \in j .. k - 1 : ~Closed(i)
                      /\ taken * MDO_BITS = off[k + 1]
Inside(off, j) == /\ (taken - consumed_bytes) * MDO_BITS + bit_offset = off[j]
                  /\ \E k : Reaches(off, j, k)

\* The facts about a message that is complete, in one place.
LEMMA EncodedFacts ==
  ASSUME ArgsOK, NEW off, Encoded(off)
  PROVE  /\ Len(Plan) \in Nat /\ Len(Plan) # 0
         /\ \A i \in 1 .. Len(Plan) + 1 : off[i] \in Nat
         /\ \A i, k \in 1 .. Len(Plan) + 1 : i <= k => off[i] <= off[k]
         /\ \A i \in 1 .. Len(Plan) :
              /\ Plan[i] \in Step /\ Reads(Plan[i]) /\ Plan[i].f \in Fields
              /\ WidthAt(Plan[i], off[i]) \in Nat
              /\ off[i] + WidthAt(Plan[i], off[i]) <= off[i + 1]
              /\ ~Closed(i) => off[i] + WidthAt(Plan[i], off[i]) = off[i + 1]
              /\ Closed(i) => off[i + 1] = Bytes(off[i] + WidthAt(Plan[i], off[i])) * MDO_BITS
  <1> DEFINE n == Len(Plan)
  <1>1. n \in Nat /\ n # 0 /\ \A k \in 1 .. n : Plan[k] \in Step
    BY PlanIsList
  <1>2. /\ off \in [Nat -> Nat]
        /\ \A i \in 1 .. n : \A k \in 1 .. i : off[k] <= off[i + 1]
        /\ \A i \in 1 .. n : Reads(Plan[i]) /\ off[i + 1] = EndOf(off, i, Closed(i))
    BY DEF Encoded, Ascends
  <1> HIDE DEF n
  <1>3. \A i \in 1 .. n + 1 : off[i] \in Nat
    BY <1>2
  <1>4. ASSUME NEW i \in 1 .. n + 1, NEW k \in 1 .. n + 1, i <= k
        PROVE  off[i] <= off[k]
    <2>1. CASE i = k
      BY <1>3, <2>1
    <2>2. CASE i # k
      <3>1. k - 1 \in 1 .. n /\ i \in 1 .. k - 1 /\ (k - 1) + 1 = k
        BY <1>1, <1>4, <2>2
      <3> QED
        BY <1>2, <3>1
    <2> QED
      BY <2>1, <2>2
  <1>5. ASSUME NEW i \in 1 .. n
        PROVE  /\ Plan[i] \in Step /\ Reads(Plan[i]) /\ Plan[i].f \in Fields
               /\ WidthAt(Plan[i], off[i]) \in Nat
               /\ off[i] + WidthAt(Plan[i], off[i]) <= off[i + 1]
               /\ ~Closed(i) => off[i] + WidthAt(Plan[i], off[i]) = off[i + 1]
               /\ Closed(i) => off[i + 1] = Bytes(off[i] + WidthAt(Plan[i], off[i])) * MDO_BITS
    <2>1. Plan[i] \in Step /\ Reads(Plan[i]) /\ off[i] \in Nat
      BY <1>1, <1>2
    <2>2. Plan[i].f \in Fields
      BY <2>1, StepKinds
    <2> DEFINE w == WidthAt(Plan[i], off[i])
               e == off[i] + w
    <2>3. w \in Nat
      BY <2>1, WidthAtOK
    <2>4. e \in Nat
      BY <2>1, <2>3
    <2>5. off[i + 1] = IF Closed(i) THEN Bytes(e) * MDO_BITS ELSE e
      BY <1>2 DEF EndOf
    <2> HIDE DEF e
    <2>6. e <= Bytes(e) * MDO_BITS
      BY <2>4, Begun
    <2>7. e <= off[i + 1]
      BY <2>4, <2>5, <2>6
    <2> QED
      BY <2>1, <2>2, <2>3, <2>5, <2>7 DEF e
  <1> QED
    BY <1>1, <1>3, <1>4, <1>5 DEF n

\* The bytes of the next field end where the next step that ends a byte does.
LEMMA NextMark ==
  ASSUME IInv, phase = "decode", NEW off, Encoded(off), taken <= size, size \in Nat,
         NEW j \in 1 .. Len(Plan), NEW k \in j .. Len(Plan),
         Closed(k), \A i \in j .. k - 1 : ~Closed(i),
         Between(off, j), off[j] # off[k + 1]
  PROVE  /\ MarksLeft = {} => given < size
         /\ MarksLeft # {} => /\ (FirstMark + 1) * MDO_BITS = off[k + 1]
                              /\ FirstMark + 1 <= size
                              /\ buffer[FirstMark].mseo # 2
                              /\ buffer[FirstMark].mseo = 3 <=> FirstMark + 1 = size
  <1> DEFINE M == MDO_BITS
             n == Len(Plan)
             mark(q) == \E i \in 1 .. n : Closed(i) /\ off[i + 1] = (q + 1) * MDO_BITS
  <1>1. n \in Nat /\ M \in Nat /\ M # 0 /\ taken \in Nat /\ given \in Nat
    BY EncodedFacts, Constants, Facts DEF IInv
  <1>2. /\ \A i \in 1 .. n + 1 : off[i] \in Nat
        /\ \A i, l \in 1 .. n + 1 : i <= l => off[i] <= off[l]
    BY EncodedFacts DEF IInv
  <1>3. j \in 1 .. n /\ k \in 1 .. n /\ j <= k /\ j \in Nat /\ k \in Nat /\ k + 1 \in 1 .. n + 1
        /\ j \in 1 .. n + 1 /\ n + 1 \in 1 .. n + 1 /\ j <= k + 1 /\ k + 1 <= n + 1
    BY <1>1
  <1>4. taken * M = off[j] /\ off[n + 1] = size * M
    BY DEF Between, Encoded
  <1>5. PICK t \in Nat : off[k + 1] = t * M
    <2>1. off[k + 1] = Bytes(off[k] + WidthAt(Plan[k], off[k])) * MDO_BITS
          /\ WidthAt(Plan[k], off[k]) \in Nat
      BY <1>3, EncodedFacts DEF IInv
    <2>2. off[k] \in Nat
      BY <1>1, <1>2, <1>3
    <2>3. off[k] + WidthAt(Plan[k], off[k]) \in Nat
      BY <2>1, <2>2
    <2>4. Bytes(off[k] + WidthAt(Plan[k], off[k])) \in Nat
      BY <2>3, Begun
    <2> QED
      BY <2>1, <2>4
  <1>6. taken < t /\ t <= size
    <2>1. off[j] <= off[k + 1] /\ off[k + 1] <= off[n + 1] /\ off[j] \in Nat /\ off[k + 1] \in Nat
      BY <1>2, <1>3
    <2>2. taken <= t /\ t <= size
      BY <1>1, <1>4, <1>5, <2>1, Cancel
    <2>3. taken # t
      BY <1>4, <1>5
    <2> QED
      BY <1>1, <2>2, <2>3
  <1> HIDE DEF M, n, mark
  <1>7. \A q \in 0 .. size - 1 : buffer[q].mseo = IF q = size - 1 THEN 3 ELSE IF mark(q) THEN 1 ELSE 0
    BY DEF Encoded, mark, n
  <1>8. mark(t - 1)
    <2>1. (t - 1) + 1 = t
      BY <1>1, <1>6
    <2> QED
      BY <1>3, <1>5, <2>1 DEF mark, n, M
  <1>9. ASSUME NEW q \in taken .. t - 2 PROVE ~mark(q)
    <2> SUFFICES ASSUME NEW i \in 1 .. n, Closed(i), off[i + 1] = (q + 1) * M PROVE FALSE
      BY DEF mark, M
    <2>1. q \in Nat /\ taken < q + 1 /\ q + 1 < t /\ q + 1 \in Nat
      BY <1>1, <1>6
    <2>2. /\ taken * M < (q + 1) * M /\ (q + 1) * M < t * M
          /\ taken * M \in Nat /\ (q + 1) * M \in Nat /\ t * M \in Nat
      BY <1>1, <2>1, Cancel
    <2>3. off[j] < off[i + 1] /\ off[i + 1] < off[k + 1]
      BY <1>4, <1>5, <2>2
    <2>4. i + 1 \in 1 .. n + 1 /\ i \in Nat
      BY <1>1
    <2>5. CASE i < j
      <3>1. off[i + 1] <= off[j]
        BY <1>2, <1>3, <2>4, <2>5
      <3> QED
        BY <1>2, <1>3, <2>3, <2>4, <3>1
    <2>6. CASE k <= i
      <3>1. off[k + 1] <= off[i + 1]
        BY <1>2, <1>3, <2>4, <2>6
      <3> QED
        BY <1>2, <1>3, <2>3, <2>4, <3>1
    <2>7. CASE ~(i < j) /\ ~(k <= i)
      <3>1. i \in j .. k - 1
        BY <1>3, <2>4, <2>7
      <3> QED
        BY <3>1
    <2> QED
      BY <2>5, <2>6, <2>7
  <1>10. /\ t - 1 \in 0 .. size - 1 /\ t - 1 \in Nat
         /\ buffer[t - 1].mseo = IF t = size THEN 3 ELSE 1
    <2>1. t - 1 \in 0 .. size - 1 /\ t - 1 \in Nat
      BY <1>1, <1>6
    <2>2. t - 1 = size - 1 <=> t = size
      BY <1>6
    <2> QED
      BY <1>7, <1>8, <2>1, <2>2
  <1>11. ASSUME NEW q \in taken .. t - 2 PROVE buffer[q].mseo = 0
    <2>1. q \in 0 .. size - 1 /\ q # size - 1
      BY <1>1, <1>6
    <2> QED
      BY <1>7, <1>9, <2>1
  <1>12. CASE MarksLeft = {}
    <2>1. ~(t <= given)
      <3> SUFFICES ASSUME t <= given PROVE FALSE
        OBVIOUS
      <3>1. t - 1 \in taken .. given - 1
        BY <1>1, <1>6
      <3>2. t - 1 \in MarksLeft
        BY <1>10, <3>1 DEF MarksLeft
      <3> QED
        BY <1>12, <3>2
    <2> QED
      BY <1>1, <1>6, <1>12, <2>1
  <1>13. CASE MarksLeft # {}
    <2>1. /\ FirstMark \in Nat /\ taken <= FirstMark /\ FirstMark < given
          /\ buffer[FirstMark].mseo # 0
          /\ \A i \in taken .. FirstMark - 1 : buffer[i].mseo = 0
      BY <1>13, MarkFound
    <2> DEFINE m == FirstMark
    <2> HIDE DEF m
    <2>2. ~(m < t - 1)
      <3> SUFFICES ASSUME m < t - 1 PROVE FALSE
        OBVIOUS
      <3>1. m \in taken .. t - 2
        BY <1>1, <1>6, <2>1 DEF m
      <3> QED
        BY <1>11, <2>1, <3>1 DEF m
    <2>3. ~(t - 1 < m)
      <3> SUFFICES ASSUME t - 1 < m PROVE FALSE
        OBVIOUS
      <3>1. t - 1 \in taken .. m - 1
        BY <1>1, <1>6, <2>1 DEF m
      <3>2. buffer[t - 1].mseo = 0
        BY <2>1, <3>1 DEF m
      <3> QED
        BY <1>10, <3>2
    <2>4. m = t - 1 /\ m + 1 = t
      BY <1>10, <2>1, <2>2, <2>3 DEF m
    <2>5. /\ (m + 1) * MDO_BITS = off[k + 1] /\ m + 1 <= size
          /\ buffer[m].mseo # 2 /\ (buffer[m].mseo = 3 <=> m + 1 = size)
      BY <1>5, <1>6, <1>10, <2>4 DEF M
    <2> QED
      BY <1>13, <2>5 DEF m
  <1> QED
    BY <1>12, <1>13

\* unpack_bits reads what pack_bits wrote.
LEMMA UnpackedIs ==
  ASSUME IInv, phase = "decode", NEW off, Encoded(off), NEW j \in 1 .. Len(Plan),
         (taken - consumed_bytes) * MDO_BITS + bit_offset = off[j],
         NEW n \in Nat, off[j] + n <= off[j + 1]
  PROVE  Unpacked(n) = { b \in msg[Plan[j].f] : b < n /\ b < WidthAt(Plan[j], off[j]) }
  <1> DEFINE a == taken - consumed_bytes
             f == Plan[j].f
             w == WidthAt(Plan[j], off[j])
             B(b) == (bit_offset + b) % MDO_BITS
                        \in buffer[a + (bit_offset + b) \div MDO_BITS].mdo
  <1>1. a \in Nat /\ bit_offset \in Nat /\ MDO_BITS \in Nat /\ MDO_BITS # 0
    BY Facts, Constants
  <1>2. /\ off[j] \in Nat /\ off[j + 1] \in Nat /\ f \in Fields /\ w \in Nat
        /\ msg[f] \in SUBSET (0 .. WordBits - 1) /\ WordBits \in Nat
    <2>1. /\ \A i \in 1 .. Len(Plan) + 1 : off[i] \in Nat
          /\ Len(Plan) \in Nat /\ f \in Fields /\ w \in Nat
      BY EncodedFacts DEF IInv
    <2>2. j \in 1 .. Len(Plan) + 1 /\ j + 1 \in 1 .. Len(Plan) + 1
      BY <2>1
    <2> QED
      BY <2>1, <2>2, Constants DEF IInv, ArgsOK
  <1>3. \A b \in Nat : off[j] + b < off[j + 1] =>
                (BitOf(buffer, off[j] + b) <=> b < w /\ b \in msg[f])
    BY DEF Encoded, Holds
  <1>4. ASSUME NEW b \in Nat PROVE BitOf(buffer, off[j] + b) <=> B(b)
    <2> DEFINE p == bit_offset + b
    <2>1. p \in Nat
      BY <1>1
    <2>2. a * MDO_BITS \in Nat
      BY <1>1
    <2>3. off[j] + b = a * MDO_BITS + p
      BY <1>1, <1>2, <2>2
    <2> HIDE DEF p, a
    <2>4. (a * MDO_BITS + p) \div MDO_BITS = a + (p \div MDO_BITS)
          /\ (a * MDO_BITS + p) % MDO_BITS = p % MDO_BITS
      BY <1>1, <2>1, Shift
    <2> QED
      BY <2>3, <2>4 DEF BitOf, p
  <1>5. Unpacked(n) = { b \in 0 .. n - 1 : b < WordBits /\ B(b) }
    BY DEF Unpacked
  <1> HIDE DEF B, f, w
  <1>6. ASSUME NEW b \in 0 .. n - 1
        PROVE  b < WordBits /\ B(b) <=> b < w /\ b \in msg[f]
    <2>1. b \in Nat /\ off[j] + b < off[j + 1]
      BY <1>2
    <2>2. B(b) <=> b < w /\ b \in msg[f]
      BY <1>3, <1>4, <2>1
    <2>3. b \in msg[f] => b < WordBits
      BY <1>2
    <2> QED
      BY <2>2, <2>3
  <1>7. \A b \in msg[f] : b \in Nat /\ (b < n <=> b \in 0 .. n - 1)
    BY <1>2
  <1> DEFINE V == { b \in msg[f] : b < n /\ b < w }
  <1>8. \A b : b \in Unpacked(n) <=> b \in V
    BY <1>5, <1>6, <1>7
  <1>9. Unpacked(n) = V
    <2> HIDE DEF V
    <2>1. Unpacked(n) \subseteq V /\ V \subseteq Unpacked(n)
      BY <1>8
    <2> QED
      BY <2>1
  <1> QED
    BY <1>9 DEF f, w

\* The names of the two kinds of fields differ.
LEMMA FieldKinds == \A f \in FixedFields : f \notin DOMAIN StoredBits
  BY DEF FixedFields, FixedBits, StoredBits

\* A field of fixed width is read as it was written.
LEMMA FixedBack ==
  ASSUME IInv, phase = "decode", FitsStream, NEW off, Encoded(off), NEW j \in 1 .. Len(Plan),
         Inside(off, j), Plan[j].do = "fixed"
  PROVE  LET f == Plan[j].f
             n == FixedWidth(f)
         IN  /\ n \in Nat /\ ~(BitsLeft < n)
             /\ Unpacked(n) \cap 0 .. StoredWidth(f) - 1 = msg[f]
             /\ ~Closed(j) => (taken - consumed_bytes) * MDO_BITS + (bit_offset + n) = off[j + 1]
             /\ ~Closed(j) => \E k : Reaches(off, j + 1, k)
             /\ Closed(j) => taken * MDO_BITS = off[j + 1]
  <1> DEFINE f == Plan[j].f
             n == FixedWidth(f)
             M == MDO_BITS
             a == taken - consumed_bytes
  <1>1. /\ a \in Nat /\ bit_offset \in Nat /\ M \in Nat /\ M # 0 /\ consumed_bytes \in Nat
        /\ taken = a + consumed_bytes
    BY Facts, Constants
  <1>2. /\ Len(Plan) \in Nat /\ \A i \in 1 .. Len(Plan) + 1 : off[i] \in Nat
        /\ \A i, k \in 1 .. Len(Plan) + 1 : i <= k => off[i] <= off[k]
        /\ Plan[j] \in Step
        /\ WidthAt(Plan[j], off[j]) \in Nat
        /\ off[j] + WidthAt(Plan[j], off[j]) <= off[j + 1]
        /\ ~Closed(j) => off[j] + WidthAt(Plan[j], off[j]) = off[j + 1]
    BY EncodedFacts DEF IInv
  <1>3. WidthAt(Plan[j], off[j]) = n
    BY DEF WidthAt
  <1>4. f \in FixedFields /\ f \in Fields
    <2>1. f \in FixedFields
      BY <1>2, StepKinds
    <2> QED
      BY <2>1 DEF FixedFields, Fields
  <1>5. StoredWidth(f) = n
    BY <1>4, FieldKinds DEF StoredWidth
  <1>6. PICK k : Reaches(off, j, k)
    BY DEF Inside
  <1>7. k \in j .. Len(Plan) /\ Closed(k) /\ (\A i \in j .. k - 1 : ~Closed(i))
        /\ taken * M = off[k + 1]
    BY <1>6 DEF Reaches
  <1>8. /\ off[j] \in Nat /\ off[j + 1] \in Nat /\ off[k + 1] \in Nat /\ off[j + 1] <= off[k + 1]
        /\ k \in Nat /\ j \in Nat
    <2>1. j \in 1 .. Len(Plan) + 1 /\ j + 1 \in 1 .. Len(Plan) + 1 /\ k + 1 \in 1 .. Len(Plan) + 1
          /\ j + 1 <= k + 1 /\ k \in Nat /\ j \in Nat
      BY <1>2, <1>7
    <2> QED
      BY <1>2, <2>1
  <1>9. off[j] = a * M + bit_offset /\ a * M \in Nat /\ consumed_bytes * M \in Nat
        /\ taken * M = a * M + consumed_bytes * M
    <2>1. a * M \in Nat /\ consumed_bytes * M \in Nat
      BY <1>1
    <2>2. (a + consumed_bytes) * M = a * M + consumed_bytes * M
      BY <1>1
    <2> QED
      BY <1>1, <2>1, <2>2 DEF Inside
  <1>10. BitsLeft = consumed_bytes * M - bit_offset
    BY DEF BitsLeft
  <1>11. Unpacked(n) = { b \in msg[f] : b < n /\ b < n }
    <2>1. n \in Nat /\ off[j] + n <= off[j + 1]
      BY <1>2, <1>3
    <2> QED
      BY <1>3, <2>1, UnpackedIs DEF Inside
  <1> HIDE DEF n, f, a, M
  <1>12. n \in Nat /\ ~(BitsLeft < n)
    BY <1>1, <1>2, <1>3, <1>7, <1>8, <1>9, <1>10
  <1>13. Unpacked(n) \cap 0 .. StoredWidth(f) - 1 = msg[f]
    <2>1. msg[f] \subseteq 0 .. n - 1
      BY <1>4, <1>5 DEF FitsStream
    <2>2. \A b \in msg[f] : b < n /\ b \in 0 .. n - 1
      BY <1>12, <2>1
    <2>3. Unpacked(n) = msg[f]
      BY <1>11, <2>2
    <2> QED
      BY <1>5, <2>1, <2>3
  <1>14. ASSUME ~Closed(j)
         PROVE  a * M + (bit_offset + n) = off[j + 1] /\ \E l : Reaches(off, j + 1, l)
    <2>1. a * M + (bit_offset + n) = off[j + 1]
      BY <1>1, <1>2, <1>3, <1>9, <1>12, <1>14
    <2>2. k # j
      BY <1>7, <1>14
    <2>3. k \in j + 1 .. Len(Plan) /\ \A i \in j + 1 .. k - 1 : i \in j .. k - 1
      BY <1>7, <1>8, <2>2
    <2> QED
      BY <1>7, <2>1, <2>3 DEF Reaches, M
  <1>15. ASSUME Closed(j) PROVE taken * M = off[j + 1]
    <2>1. k = j
      <3>1. j \in j .. k - 1 \/ k = j
        BY <1>7, <1>8
      <3> QED
        BY <1>7, <1>15, <3>1
    <2> QED
      BY <1>7, <2>1
  <1> QED
    BY <1>12, <1>13, <1>14, <1>15 DEF n, f, a, M

\* A step that ends a byte ends the bytes taken.
LEMMA ReachesItself ==
  ASSUME NEW off, NEW j \in Nat, Closed(j), Len(Plan) \in Nat, NEW k, Reaches(off, j, k)
  PROVE  k = j /\ taken * MDO_BITS = off[j + 1]
  <1>1. k \in j .. Len(Plan) /\ (\A i \in j .. k - 1 : ~Closed(i)) /\ taken * MDO_BITS = off[k + 1]
    BY DEF Reaches
  <1>2. j \in j .. k - 1 \/ k = j
    BY <1>1
  <1> QED
    BY <1>1, <1>2

\* So is a field of variable width, which has the bytes taken for itself.
LEMMA VarBack ==
  ASSUME IInv, phase = "decode", FitsStream, NEW off, Encoded(off), NEW j \in 1 .. Len(Plan),
         Inside(off, j), Plan[j].do \in {"var", "req", "vao"}
  PROVE  LET f == Plan[j].f
             v == Unpacked(BitsLeft)
         IN  /\ BitsLeft \in Nat /\ (Plan[j].do # "var" => BitsLeft # 0)
             /\ (IF Plan[j].do = "vao" THEN SignExtended(v, BitsLeft) ELSE v)
                   \cap 0 .. StoredWidth(f) - 1 = msg[f]
             /\ taken * MDO_BITS = off[j + 1]
  <1> DEFINE f == Plan[j].f
             n == BitsLeft
             M == MDO_BITS
             a == taken - consumed_bytes
             w == WidthAt(Plan[j], off[j])
             v == msg[f]
  <1>1. /\ a \in Nat /\ bit_offset \in Nat /\ M \in Nat /\ M # 0 /\ consumed_bytes \in Nat
        /\ taken = a + consumed_bytes /\ bit_offset <= consumed_bytes * M
    BY Facts, Constants
  <1>2. Closed(j)
    BY DEF Closed, Varies
  <1>3. /\ Len(Plan) \in Nat /\ off[j] \in Nat /\ off[j + 1] \in Nat
        /\ Plan[j] \in Step /\ f \in Fields /\ w \in Nat
        /\ off[j] + w <= off[j + 1] /\ off[j + 1] = Bytes(off[j] + w) * MDO_BITS
    <2>1. /\ Len(Plan) \in Nat /\ \A i \in 1 .. Len(Plan) + 1 : off[i] \in Nat
          /\ Plan[j] \in Step /\ f \in Fields /\ w \in Nat
          /\ off[j] + w <= off[j + 1] /\ off[j + 1] = Bytes(off[j] + w) * MDO_BITS
      BY <1>2, EncodedFacts DEF IInv
    <2>2. j \in 1 .. Len(Plan) + 1 /\ j + 1 \in 1 .. Len(Plan) + 1
      BY <2>1
    <2> QED
      BY <2>1, <2>2
  <1>4. taken * M = off[j + 1]
    <2>1. PICK k : Reaches(off, j, k)
      BY DEF Inside
    <2>2. j \in Nat
      OBVIOUS
    <2> QED
      BY <1>2, <1>3, <2>1, <2>2, ReachesItself
  <1>5. n = consumed_bytes * M - bit_offset
    BY DEF BitsLeft
  <1>6. off[j] = a * M + bit_offset /\ a * M \in Nat /\ consumed_bytes * M \in Nat
        /\ taken * M = a * M + consumed_bytes * M
    <2>1. a * M \in Nat /\ consumed_bytes * M \in Nat
      BY <1>1
    <2>2. (a + consumed_bytes) * M = a * M + consumed_bytes * M
      BY <1>1
    <2> QED
      BY <1>1, <2>1, <2>2 DEF Inside
  <1>7. n \in Nat /\ off[j] + n = off[j + 1]
    <2> HIDE DEF n, a, M
    <2> QED
      BY <1>1, <1>3, <1>4, <1>5, <1>6
  <1>8. Unpacked(n) = { b \in v : b < n /\ b < w }
    <2>1. off[j] + n <= off[j + 1]
      BY <1>3, <1>7
    <2> QED
      BY <1>7, <2>1, UnpackedIs DEF Inside
  <1>9. v \in SUBSET (0 .. WordBits - 1) /\ WordBits \in Nat /\ v \subseteq 0 .. StoredWidth(f) - 1
    BY <1>3, Constants DEF IInv, ArgsOK, FitsStream
  <1>10. w <= n
    <2> HIDE DEF w, n
    <2> QED
      BY <1>3, <1>7
  <1>11. CASE Plan[j].do = "vao"
    <2>1. w = VaoBits(v, off[j])
      BY <1>11 DEF WidthAt
    <2>2. off[j] + n = Bytes(off[j] + VaoBits(v, off[j])) * MDO_BITS
      BY <1>3, <1>7, <2>1
    <2> HIDE DEF n, v, w
    <2>3. n # 0 /\ SignExtended({ b \in v : b < n /\ b < VaoBits(v, off[j]) }, n) = v
      BY <1>3, <1>7, <1>9, <2>2, VaoBack
    <2>4. SignExtended(Unpacked(n), n) = v
      BY <1>8, <2>1, <2>3
    <2>5. v \cap 0 .. StoredWidth(f) - 1 = v
      BY <1>9
    <2> QED
      BY <1>4, <1>7, <1>11, <2>3, <2>4, <2>5 DEF n, v, f, M
  <1>12. CASE Plan[j].do \in {"var", "req"}
    <2>1. BitLength(v) \in Nat /\ \A b \in v : b \in Nat /\ b < BitLength(v)
      BY <1>9, BitLengthIs
    <2>2. \/ w = BitLength(v)
          \/ w = 1 /\ v = {}
      BY <1>12 DEF WidthAt
    <2>3. Plan[j].do = "req" => w # 0
      <3>1. CASE v = {}
        BY <3>1 DEF WidthAt
      <3>2. CASE v # {}
        <4>1. PICK b \in v : TRUE
          BY <3>2
        <4>2. BitLength(v) # 0
          BY <2>1, <4>1
        <4> QED
          BY <3>2, <4>2 DEF WidthAt
      <3> QED
        BY <3>1, <3>2
    <2> HIDE DEF n, v, w
    <2>4. \A b \in v : b < n /\ b < w
      BY <1>3, <1>7, <1>10, <2>1, <2>2
    <2>5. Unpacked(n) = v
      BY <1>8, <2>4
    <2>6. v \cap 0 .. StoredWidth(f) - 1 = v
      BY <1>9
    <2>7. Plan[j].do = "req" => n # 0
      BY <1>3, <1>7, <1>10, <2>3
    <2> QED
      BY <1>4, <1>7, <1>12, <2>5, <2>6, <2>7 DEF n, v, f, M
  <1> QED
    BY <1>11, <1>12

-----------------------------------------------------------------------------
(***************************************************************************)
(* The lists of the decoder follow those of the encoder.                   *)
(***************************************************************************)
Varying(s) == s.do # "fixed"
\* The steps a decoder may skip: the timestamp, and the CKDATA1 of an ICT with
\* CKDF 0.
TrailStep(s) == \/ s.f = "timestamp"
                \/ /\ s.f = "ckdata1" /\ s.do = "req"
                   /\ msg.tcode = TCODE.ICT /\ msg.ckdf = Bits(0)

\* Step i of the list L is for the step h[i] of the encoder's list P: it reads
\* what that wrote, and bytes are consumed after the steps that end one.  L may
\* end with a field from which more follows.
StepFits(L, P, h, i) ==
    \/ /\ Reads(L[i]) /\ h[i] \in 1 .. Len(P) /\ L[i] = P[h[i]] /\ ~TrailStep(L[i])
       /\ i < Len(L) => h[i + 1] = h[i] + 1 /\ (Reads(L[i + 1]) <=> ~Varying(L[i]))
    \/ /\ L[i] = Consume /\ i < Len(L) /\ h[i + 1] = h[i]
       /\ L[i + 1].do \in {"req", "vao"} \/ L[i + 1] = Fixed("tcode")
    \/ /\ L[i] = Time /\ i = Len(L) /\ h[i] > 1
       /\ \A k \in h[i] .. Len(P) : TrailStep(P[k])

\* From step a of P on, and up to step m.
Follows(L, P, a, m) ==
    /\ L \in Seq(Step) /\ L # << >>
    /\ \E h \in [1 .. Len(L) -> Nat] :
          /\ h[1] = a
          /\ \A i \in 1 .. Len(L) : h[i] <= m /\ StepFits(L, P, h, i)

\* The first step of such a list.
LEMMA FollowsFirst ==
  ASSUME NEW L, NEW P, NEW a, NEW m, Follows(L, P, a, m)
  PROVE  /\ a \in Nat /\ a <= m
         /\ \/ /\ Reads(L[1]) /\ a \in 1 .. Len(P) /\ L[1] = P[a] /\ ~TrailStep(L[1])
               /\ Len(L) > 1 => /\ Follows(Tail(L), P, a + 1, m)
                                /\ Reads(Tail(L)[1]) <=> ~Varying(L[1])
            \/ /\ L[1] = Consume /\ Len(L) > 1 /\ Follows(Tail(L), P, a, m)
               /\ Tail(L)[1].do \in {"req", "vao"} \/ Tail(L)[1] = Fixed("tcode")
            \/ /\ L = <<Time>> /\ a > 1 /\ \A k \in a .. Len(P) : TrailStep(P[k])
  <1>1. L \in Seq(Step) /\ L # << >>
    BY DEF Follows
  <1>2. PICK h \in [1 .. Len(L) -> Nat] :
          h[1] = a /\ \A i \in 1 .. Len(L) : h[i] <= m /\ StepFits(L, P, h, i)
    BY DEF Follows
  <1>3. Len(L) \in Nat /\ Len(L) # 0 /\ 1 \in 1 .. Len(L)
    BY <1>1
  <1>4. a \in Nat /\ a <= m /\ StepFits(L, P, h, 1)
    BY <1>2, <1>3
  <1>5. ASSUME Len(L) > 1 PROVE Follows(Tail(L), P, h[2], m) /\ Tail(L)[1] = L[2]
    <2>1. /\ Tail(L) \in Seq(Step) /\ Len(Tail(L)) = Len(L) - 1 /\ Tail(L) # << >>
          /\ \A i \in 1 .. Len(L) - 1 : Tail(L)[i] = L[i + 1]
      BY <1>1, <1>3, <1>5
    <2> DEFINE g == [i \in 1 .. Len(L) - 1 |-> h[i + 1]]
    <2>2. g \in [1 .. Len(Tail(L)) -> Nat] /\ \A i \in 1 .. Len(L) - 1 : g[i] = h[i + 1]
      <3>1. \A i \in 1 .. Len(L) - 1 : i + 1 \in 1 .. Len(L)
        BY <1>3
      <3> QED
        BY <2>1, <3>1
    <2>3. g[1] = h[2] /\ Tail(L)[1] = L[2]
      <3>1. 1 \in 1 .. Len(L) - 1 /\ 1 + 1 = 2
        BY <1>3, <1>5
      <3> QED
        BY <2>1, <2>2, <3>1
    <2> HIDE DEF g
    <2>4. ASSUME NEW i \in 1 .. Len(Tail(L))
          PROVE  g[i] <= m /\ StepFits(Tail(L), P, g, i)
      <3>1. i + 1 \in 1 .. Len(L) /\ i \in 1 .. Len(L) - 1 /\ i \in Nat
        BY <1>3, <2>1
      <3>2. Tail(L)[i] = L[i + 1] /\ g[i] = h[i + 1] /\ h[i + 1] <= m
        BY <1>2, <2>1, <2>2, <3>1
      <3>3. StepFits(L, P, h, i + 1)
        BY <1>2, <3>1
      <3>4. i < Len(L) - 1 <=> i + 1 < Len(L)
        BY <1>3, <3>1
      <3>5. i + 1 < Len(L) => Tail(L)[i + 1] = L[(i + 1) + 1] /\ g[i + 1] = h[(i + 1) + 1]
        <4> SUFFICES ASSUME i + 1 < Len(L)
                     PROVE  Tail(L)[i + 1] = L[(i + 1) + 1] /\ g[i + 1] = h[(i + 1) + 1]
          OBVIOUS
        <4>1. i + 1 \in 1 .. Len(L) - 1
          BY <1>3, <3>1
        <4> QED
          BY <2>1, <2>2, <4>1
      <3>6. i = Len(L) - 1 <=> i + 1 = Len(L)
        BY <1>3, <3>1
      <3> QED
        BY <2>1, <3>2, <3>3, <3>4, <3>5, <3>6 DEF StepFits
    <2> QED
      BY <2>1, <2>2, <2>3, <2>4 DEF Follows
  <1>6. 1 + 1 = 2 /\ (1 = Len(L) => L = <<L[1]>>)
    BY <1>1, SeqOne
  <1>7. CASE /\ Reads(L[1]) /\ h[1] \in 1 .. Len(P) /\ L[1] = P[h[1]] /\ ~TrailStep(L[1])
             /\ 1 < Len(L) => h[2] = h[1] + 1 /\ (Reads(L[2]) <=> ~Varying(L[1]))
    <2>1. Len(L) > 1 => 1 < Len(L)
      OBVIOUS
    <2> QED
      BY <1>2, <1>4, <1>5, <1>7, <2>1
  <1>8. CASE /\ L[1] = Consume /\ 1 < Len(L) /\ h[2] = h[1]
             /\ L[2].do \in {"req", "vao"} \/ L[2] = Fixed("tcode")
    <2>1. Len(L) > 1
      BY <1>8
    <2> QED
      BY <1>2, <1>4, <1>5, <1>8, <2>1
  <1>9. CASE /\ L[1] = Time /\ 1 = Len(L) /\ h[1] > 1
             /\ \A k \in h[1] .. Len(P) : TrailStep(P[k])
    BY <1>2, <1>4, <1>6, <1>9
  <1>10. 1 < Len(L) => L[1 + 1] = L[2] /\ h[1 + 1] = h[2]
    BY <1>6
  <1> QED
    BY <1>4, <1>6, <1>7, <1>8, <1>9 DEF StepFits

\* Steps behind those of P that are not read.
LEMMA FollowsRight ==
  ASSUME NEW L, NEW P \in Seq(Step), NEW a, NEW m, Follows(L, P, a, m),
         NEW T \in Seq(Step), \A k \in 1 .. Len(T) : TrailStep(T[k])
  PROVE  Follows(L, P \o T, a, m)
  <1>1. PICK h \in [1 .. Len(L) -> Nat] :
          h[1] = a /\ \A i \in 1 .. Len(L) : h[i] <= m /\ StepFits(L, P, h, i)
    BY DEF Follows
  <1>2. /\ Len(P \o T) = Len(P) + Len(T) /\ Len(P) \in Nat /\ Len(T) \in Nat
        /\ \A k \in 1 .. Len(P) : (P \o T)[k] = P[k]
        /\ \A k \in 1 .. Len(P) + Len(T) : ~(k <= Len(P)) =>
              k - Len(P) \in 1 .. Len(T) /\ (P \o T)[k] = T[k - Len(P)]
    BY ConcatProperties
  <1>3. ASSUME NEW i \in 1 .. Len(L) PROVE StepFits(L, P \o T, h, i)
    <2>1. StepFits(L, P, h, i) /\ h[i] \in Nat
      BY <1>1
    <2>2. h[i] \in 1 .. Len(P) => h[i] \in 1 .. Len(P \o T) /\ (P \o T)[h[i]] = P[h[i]]
      BY <1>2
    <2>3. ASSUME h[i] > 1, \A k \in h[i] .. Len(P) : TrailStep(P[k]), NEW k \in h[i] .. Len(P \o T)
          PROVE  TrailStep((P \o T)[k])
      <3>1. CASE k <= Len(P)
        <4>1. k \in 1 .. Len(P) /\ k \in h[i] .. Len(P)
          BY <1>2, <2>1, <2>3, <3>1
        <4> QED
          BY <1>2, <2>3, <4>1
      <3>2. CASE ~(k <= Len(P))
        <4>1. k \in 1 .. Len(P) + Len(T)
          BY <1>2, <2>1, <2>3
        <4> QED
          BY <1>2, <3>2, <4>1
      <3> QED
        BY <3>1, <3>2
    <2> QED
      BY <2>1, <2>2, <2>3 DEF StepFits
  <1> QED
    BY <1>1, <1>3 DEF Follows

\* Steps in front of them.
LEMMA FollowsShift ==
  ASSUME NEW L, NEW P \in Seq(Step), NEW a, NEW m \in Nat, Follows(L, P, a, m),
         NEW H \in Seq(Step)
  PROVE  Follows(L, H \o P, Len(H) + a, Len(H) + m)
  <1>1. PICK h \in [1 .. Len(L) -> Nat] :
          h[1] = a /\ \A i \in 1 .. Len(L) : h[i] <= m /\ StepFits(L, P, h, i)
    BY DEF Follows
  <1>2. /\ Len(H \o P) = Len(H) + Len(P) /\ Len(P) \in Nat /\ Len(H) \in Nat
        /\ \A k \in 1 .. Len(P) : (H \o P)[Len(H) + k] = P[k]
    BY ConcatProperties
  <1> DEFINE d == Len(H)
             g == [i \in 1 .. Len(L) |-> d + h[i]]
  <1>3. \A i \in 1 .. Len(L) : h[i] \in Nat /\ g[i] = d + h[i]
    OBVIOUS
  <1>4. g \in [1 .. Len(L) -> Nat]
    BY <1>2
  <1> HIDE DEF g, d
  <1>5. L \in Seq(Step) /\ L # << >> /\ Len(L) \in Nat /\ 1 \in 1 .. Len(L)
    <2>1. L \in Seq(Step) /\ L # << >>
      BY DEF Follows
    <2> QED
      BY <2>1
  <1>6. d \in Nat
    BY <1>2 DEF d
  <1>7. ASSUME NEW i \in 1 .. Len(L) PROVE g[i] <= d + m /\ StepFits(L, H \o P, g, i)
    <2>1. StepFits(L, P, h, i) /\ h[i] \in Nat /\ g[i] = d + h[i] /\ h[i] <= m
      BY <1>1, <1>3
    <2>2. h[i] \in 1 .. Len(P) => g[i] \in 1 .. Len(H \o P) /\ (H \o P)[g[i]] = P[h[i]]
      BY <1>2, <2>1 DEF d
    <2>3. i < Len(L) => /\ h[i + 1] = h[i] + 1 => g[i + 1] = g[i] + 1
                        /\ h[i + 1] = h[i] => g[i + 1] = g[i]
      <3> SUFFICES ASSUME i < Len(L)
                   PROVE  /\ h[i + 1] = h[i] + 1 => g[i + 1] = g[i] + 1
                          /\ h[i + 1] = h[i] => g[i + 1] = g[i]
        OBVIOUS
      <3>1. i + 1 \in 1 .. Len(L)
        BY <1>5
      <3>2. g[i + 1] = d + h[i + 1]
        BY <1>3, <3>1
      <3> QED
        BY <1>6, <2>1, <3>2
    <2>4. h[i] > 1 => g[i] > 1
      BY <1>6, <2>1
    <2>5. ASSUME h[i] > 1, \A k \in h[i] .. Len(P) : TrailStep(P[k]), NEW k \in g[i] .. Len(H \o P)
          PROVE  TrailStep((H \o P)[k])
      <3>1. k - d \in 1 .. Len(P) /\ k - d \in h[i] .. Len(P) /\ d + (k - d) = k
        BY <1>2, <1>6, <2>1, <2>5 DEF d
      <3> QED
        BY <1>2, <2>5, <3>1 DEF d
    <2>6. g[i] <= d + m
      BY <1>6, <2>1
    <2> QED
      BY <2>1, <2>2, <2>3, <2>4, <2>5, <2>6 DEF StepFits
  <1>8. g[1] = d + a
    BY <1>1, <1>3, <1>5
  <1> QED
    BY <1>4, <1>5, <1>7, <1>8 DEF Follows, d

\* A field of fixed width in front of both.
LEMMA FollowsFixed ==
  ASSUME NEW L, NEW P \in Seq(Step), NEW m \in Nat, Follows(L, P, 1, m), Reads(L[1]),
         NEW f \in FixedFields
  PROVE  /\ Follows(<<Fixed(f)>> \o L, <<Fixed(f)>> \o P, 1, m + 1)
         /\ Reads((<<Fixed(f)>> \o L)[1])
  <1> DEFINE x == Fixed(f)
             K == <<x>> \o L
             Q == <<x>> \o P
  <1>1. /\ x \in Step /\ Reads(x) /\ ~Varying(x) /\ ~TrailStep(x)
    <2>1. x.f = f /\ x.do = "fixed" /\ f \notin {"timestamp", "ckdata1"}
      BY DEF Fixed, FixedFields, FixedBits
    <2> QED
      BY <2>1, Members, ReadsOf DEF Varying, TrailStep
  <1> HIDE DEF x
  <1>2. PICK h \in [1 .. Len(L) -> Nat] :
          h[1] = 1 /\ \A i \in 1 .. Len(L) : h[i] <= m /\ StepFits(L, P, h, i)
    BY DEF Follows
  <1>3. L \in Seq(Step) /\ L # << >> /\ Len(L) \in Nat /\ 1 \in 1 .. Len(L) /\ Len(L) # 0
    <2>1. L \in Seq(Step) /\ L # << >>
      BY DEF Follows
    <2> QED
      BY <2>1
  <1>4. /\ K \in Seq(Step) /\ Len(K) = 1 + Len(L) /\ K[1] = x
        /\ \A i \in 1 .. Len(L) : K[i + 1] = L[i]
        /\ Q \in Seq(Step) /\ Len(Q) = 1 + Len(P) /\ Q[1] = x /\ Len(P) \in Nat
        /\ \A i \in 1 .. Len(P) : Q[i + 1] = P[i]
    <2>1. <<x>> \in Seq(Step) /\ Len(<<x>>) = 1 /\ <<x>>[1] = x
      BY <1>1
    <2>2. \A M \in Seq(Step) : /\ <<x>> \o M \in Seq(Step) /\ Len(<<x>> \o M) = 1 + Len(M)
                               /\ (<<x>> \o M)[1] = x /\ Len(M) \in Nat
                               /\ \A i \in 1 .. Len(M) : (<<x>> \o M)[i + 1] = M[i]
      BY <1>1
    <2> QED
      BY <1>3, <2>2
  <1> DEFINE g == [i \in 1 .. Len(K) |-> IF i = 1 THEN 1 ELSE h[i - 1] + 1]
  <1>5. \A i \in 1 .. Len(L) : h[i] \in Nat /\ g[i + 1] = h[i] + 1
    <2>1. \A i \in 1 .. Len(L) : i + 1 \in 1 .. Len(K) /\ i + 1 # 1 /\ (i + 1) - 1 = i
      BY <1>3, <1>4
    <2> QED
      BY <2>1
  <1>6. g \in [1 .. Len(K) -> Nat] /\ g[1] = 1
    <2>1. \A i \in 1 .. Len(K) : i = 1 \/ i - 1 \in 1 .. Len(L)
      BY <1>3, <1>4
    <2>2. 1 \in 1 .. Len(K)
      BY <1>3, <1>4
    <2> QED
      BY <2>1, <2>2
  <1> HIDE DEF g, K, Q
  <1>7. ASSUME NEW i \in 1 .. Len(K) PROVE g[i] <= m + 1 /\ StepFits(K, Q, g, i)
    <2>1. CASE i = 1
      <3>1. g[1 + 1] = 2 /\ K[1 + 1] = L[1]
        BY <1>2, <1>3, <1>4, <1>5
      <3>2. 1 \in 1 .. Len(Q) /\ 1 + 1 = 2
        BY <1>4
      <3>3. 1 <= m + 1
        OBVIOUS
      <3>4. Reads(K[1]) /\ K[1] = Q[g[1]] /\ ~TrailStep(K[1]) /\ ~Varying(K[1])
            /\ g[1] \in 1 .. Len(Q) /\ Reads(K[1 + 1]) /\ g[1 + 1] = g[1] + 1
        BY <1>1, <1>4, <1>6, <3>1, <3>2
      <3> QED
        BY <1>6, <2>1, <3>3, <3>4 DEF StepFits
    <2>2. CASE i # 1
      <3> DEFINE l == i - 1
      <3>1. l \in 1 .. Len(L) /\ i = l + 1 /\ l \in Nat
        BY <1>3, <1>4, <2>2
      <3> HIDE DEF l
      <3>2. K[i] = L[l] /\ g[i] = h[l] + 1 /\ h[l] \in Nat /\ h[l] <= m /\ StepFits(L, P, h, l)
        BY <1>2, <1>4, <1>5, <3>1
      <3>3. h[l] \in 1 .. Len(P) => g[i] \in 1 .. Len(Q) /\ Q[g[i]] = P[h[l]]
        BY <1>4, <3>2
      <3>4. (i < Len(K) <=> l < Len(L)) /\ (i = Len(K) <=> l = Len(L))
        BY <1>3, <1>4, <3>1
      <3>5. l < Len(L) => K[i + 1] = L[l + 1] /\ g[i + 1] = h[l + 1] + 1
        <4> SUFFICES ASSUME l < Len(L)
                     PROVE  K[i + 1] = L[l + 1] /\ g[i + 1] = h[l + 1] + 1
          OBVIOUS
        <4>1. l + 1 \in 1 .. Len(L) /\ i + 1 = (l + 1) + 1
          BY <1>3, <3>1
        <4> QED
          BY <1>4, <1>5, <4>1
      <3>6. h[l] > 1 => g[i] > 1
        BY <3>2
      <3>7. ASSUME h[l] > 1, \A k \in h[l] .. Len(P) : TrailStep(P[k]), NEW k \in g[i] .. Len(Q)
            PROVE  TrailStep(Q[k])
        <4>1. k - 1 \in 1 .. Len(P) /\ k - 1 \in h[l] .. Len(P) /\ (k - 1) + 1 = k
          BY <1>4, <3>2, <3>7
        <4> QED
          BY <1>4, <3>7, <4>1
      <3>8. g[i] <= m + 1
        BY <3>2
      <3>9. l < Len(L) => (h[l + 1] = h[l] + 1 => g[i + 1] = g[i] + 1)
                          /\ (h[l + 1] = h[l] => g[i + 1] = g[i])
        BY <3>2, <3>5
      <3> QED
        BY <3>2, <3>3, <3>4, <3>5, <3>6, <3>7, <3>8, <3>9 DEF StepFits
    <2> QED
      BY <2>1, <2>2
  <1>8. K # << >>
    <2>1. Len(K) # 0
      BY <1>3, <1>4
    <2> QED
      BY <2>1
  <1> QED
    BY <1>1, <1>4, <1>6, <1>7, <1>8 DEF Follows, K, Q, x

\* One step more in front of a list, for the step before or for none.
LEMMA FollowsCons ==
  ASSUME NEW L, NEW P, NEW a \in Nat, NEW b \in Nat, NEW m \in Nat, Follows(L, P, b, m),
         NEW x \in Step, a <= m,
         \/ /\ Reads(x) /\ a \in 1 .. Len(P) /\ x = P[a] /\ ~TrailStep(x)
            /\ b = a + 1 /\ (Reads(L[1]) <=> ~Varying(x))
         \/ x = Consume /\ b = a /\ L[1].do \in {"req", "vao"}
  PROVE  Follows(<<x>> \o L, P, a, m)
  <1> DEFINE K == <<x>> \o L
  <1>1. PICK h \in [1 .. Len(L) -> Nat] :
          h[1] = b /\ \A i \in 1 .. Len(L) : h[i] <= m /\ StepFits(L, P, h, i)
    BY DEF Follows
  <1>2. L \in Seq(Step) /\ L # << >> /\ Len(L) \in Nat /\ 1 \in 1 .. Len(L) /\ Len(L) # 0
    <2>1. L \in Seq(Step) /\ L # << >>
      BY DEF Follows
    <2> QED
      BY <2>1
  <1>3. /\ K \in Seq(Step) /\ Len(K) = 1 + Len(L) /\ K[1] = x
        /\ \A i \in 1 .. Len(L) : K[i + 1] = L[i]
    <2>1. <<x>> \in Seq(Step) /\ Len(<<x>>) = 1 /\ <<x>>[1] = x
      OBVIOUS
    <2>2. \A M \in Seq(Step) : /\ <<x>> \o M \in Seq(Step) /\ Len(<<x>> \o M) = 1 + Len(M)
                               /\ (<<x>> \o M)[1] = x
                               /\ \A i \in 1 .. Len(M) : (<<x>> \o M)[i + 1] = M[i]
      OBVIOUS
    <2> QED
      BY <1>2, <2>2
  <1> DEFINE g == [i \in 1 .. Len(K) |-> IF i = 1 THEN a ELSE h[i - 1]]
  <1>4. \A i \in 1 .. Len(L) : h[i] \in Nat /\ g[i + 1] = h[i]
    <2>1. \A i \in 1 .. Len(L) : i + 1 \in 1 .. Len(K) /\ i + 1 # 1 /\ (i + 1) - 1 = i
      BY <1>2, <1>3
    <2> QED
      BY <2>1
  <1>5. g \in [1 .. Len(K) -> Nat] /\ g[1] = a
    <2>1. \A i \in 1 .. Len(K) : i = 1 \/ i - 1 \in 1 .. Len(L)
      BY <1>2, <1>3
    <2>2. 1 \in 1 .. Len(K)
      BY <1>2, <1>3
    <2> QED
      BY <2>1, <2>2
  <1> HIDE DEF g, K
  <1>6. ASSUME NEW i \in 1 .. Len(K) PROVE g[i] <= m /\ StepFits(K, P, g, i)
    <2>1. CASE i = 1
      <3>1. g[1 + 1] = b /\ K[1 + 1] = L[1] /\ 1 < Len(K)
        BY <1>1, <1>2, <1>3, <1>4
      <3> QED
        BY <1>3, <1>5, <2>1, <3>1 DEF StepFits
    <2>2. CASE i # 1
      <3> DEFINE l == i - 1
      <3>1. l \in 1 .. Len(L) /\ i = l + 1 /\ l \in Nat
        BY <1>2, <1>3, <2>2
      <3> HIDE DEF l
      <3>2. K[i] = L[l] /\ g[i] = h[l] /\ h[l] \in Nat /\ h[l] <= m /\ StepFits(L, P, h, l)
        BY <1>1, <1>3, <1>4, <3>1
      <3>3. (i < Len(K) <=> l < Len(L)) /\ (i = Len(K) <=> l = Len(L))
        BY <1>2, <1>3, <3>1
      <3>4. l < Len(L) => K[i + 1] = L[l + 1] /\ g[i + 1] = h[l + 1]
        <4> SUFFICES ASSUME l < Len(L)
                     PROVE  K[i + 1] = L[l + 1] /\ g[i + 1] = h[l + 1]
          OBVIOUS
        <4>1. l + 1 \in 1 .. Len(L) /\ i + 1 = (l + 1) + 1
          BY <1>2, <3>1
        <4> QED
          BY <1>3, <1>4, <4>1
      <3> QED
        BY <3>2, <3>3, <3>4 DEF StepFits
    <2> QED
      BY <2>1, <2>2
  <1>7. K # << >>
    <2>1. Len(K) # 0
      BY <1>2, <1>3
    <2> QED
      BY <2>1
  <1> QED
    BY <1>3, <1>5, <1>6, <1>7 DEF Follows, K

\* Lists of one step.
LEMMA FollowsOne ==
  ASSUME NEW P, NEW a \in Nat, NEW m \in Nat, a <= m, NEW x \in Step,
         \/ Reads(x) /\ a \in 1 .. Len(P) /\ x = P[a] /\ ~TrailStep(x)
         \/ x = Time /\ a > 1 /\ \A k \in a .. Len(P) : TrailStep(P[k])
  PROVE  Follows(<<x>>, P, a, m)
  <1> DEFINE L == <<x>>
             h == [i \in 1 .. 1 |-> a]
  <1>1. L \in Seq(Step) /\ L # << >> /\ Len(L) = 1 /\ L[1] = x
    OBVIOUS
  <1>2. h \in [1 .. 1 -> Nat] /\ h[1] = a
    OBVIOUS
  <1> HIDE DEF L, h
  <1>3. \A i \in 1 .. Len(L) : i = 1
    BY <1>1
  <1>4. ~(1 < Len(L))
    BY <1>1
  <1>5. \A i \in 1 .. Len(L) : h[i] <= m /\ StepFits(L, P, h, i)
    BY <1>1, <1>2, <1>3, <1>4 DEF StepFits
  <1> QED
    BY <1>1, <1>2, <1>5 DEF Follows, L

\* Lists written out.
LEMMA Written2 == ASSUME NEW a, NEW b PROVE <<a>> \o <<b>> = <<a, b>>
  BY SmallConcat

\* A step in front of two steps.
LEMMA Written3 ==
  ASSUME NEW a, NEW b, NEW c
  PROVE  <<a>> \o <<b, c>> = <<a, b, c>>
  <1> DEFINE S == {a, b, c}
             K == <<a>> \o <<b, c>>
             N == <<a, b, c>>
  <1>1. K \in Seq(S) /\ N \in Seq(S) /\ Len(K) = 3 /\ Len(N) = 3
    OBVIOUS
  <1>2. K[1] = N[1] /\ K[2] = N[2] /\ K[3] = N[3]
    OBVIOUS
  <1>3. \A i \in 1 .. 3 : K[i] = N[i]
    BY <1>2
  <1> HIDE DEF K, N
  <1>4. K = N
    BY <1>1, <1>3, SeqEqual
  <1> QED
    BY <1>4 DEF K, N

\* A step in front of three steps.
LEMMA Written4 ==
  ASSUME NEW a, NEW b, NEW c, NEW d
  PROVE  <<a>> \o <<b, c, d>> = <<a, b, c, d>>
  <1> DEFINE S == {a, b, c, d}
             K == <<a>> \o <<b, c, d>>
             N == <<a, b, c, d>>
  <1>1. K \in Seq(S) /\ N \in Seq(S) /\ Len(K) = 4 /\ Len(N) = 4
    OBVIOUS
  <1>2. K[1] = N[1] /\ K[2] = N[2] /\ K[3] = N[3] /\ K[4] = N[4]
    OBVIOUS
  <1>3. \A i \in 1 .. 4 : K[i] = N[i]
    BY <1>2
  <1> HIDE DEF K, N
  <1>4. K = N
    BY <1>1, <1>3, SeqEqual
  <1> QED
    BY <1>4 DEF K, N

\* The first step of a list.
LEMMA HeadOf ==
  ASSUME NEW x \in Step, NEW M \in Seq(Step)
  PROVE  /\ <<x>> \o M \in Seq(Step) /\ (<<x>> \o M)[1] = x /\ Len(<<x>> \o M) = 1 + Len(M)
         /\ \A i \in 1 .. Len(M) : (<<x>> \o M)[i + 1] = M[i]
  OBVIOUS

\* A field of fixed width that may be there in front of both.
LEMMA FollowsIf ==
  ASSUME NEW Q, NEW R \in Seq(Step), Follows(Q, R, 1, Len(R) + 1), Reads(Q[1]),
         Varying(R[Len(R)]), Len(R) # 0, NEW c, NEW f \in FixedFields
  PROVE  LET A == If(c, <<Fixed(f)>>)
         IN  /\ A \o R \in Seq(Step)
             /\ Follows(A \o Q, A \o R, 1, Len(A \o R) + 1) /\ Reads((A \o Q)[1])
             /\ Varying((A \o R)[Len(A \o R)]) /\ Len(A \o R) # 0
  <1> DEFINE A == If(c, <<Fixed(f)>>)
  <1>1. Q \in Seq(Step) /\ Fixed(f) \in Step /\ Len(R) \in Nat
    BY Members DEF Follows
  <1>2. CASE ~c
    <2>1. A \o Q = Q /\ A \o R = R
      BY <1>1, <1>2, ConcatEmptySeq DEF If
    <2> QED
      BY <2>1
  <1>3. CASE c
    <2> DEFINE x == <<Fixed(f)>>
    <2>1. A = x
      BY <1>3 DEF If
    <2>2. x \o R \in Seq(Step) /\ Len(x \o R) = 1 + Len(R) /\ (x \o R)[Len(R) + 1] = R[Len(R)]
      <3>1. Len(R) \in 1 .. Len(R)
        BY <1>1
      <3> QED
        BY <1>1, <3>1, HeadOf
    <2>3. Follows(x \o Q, x \o R, 1, (Len(R) + 1) + 1) /\ Reads((x \o Q)[1])
      BY <1>1, FollowsFixed
    <2>4. Len(x \o R) + 1 = (Len(R) + 1) + 1 /\ Len(x \o R) = Len(R) + 1 /\ Len(x \o R) # 0
      BY <1>1, <2>2
    <2> QED
      BY <2>1, <2>2, <2>3, <2>4
  <1> QED
    BY <1>2, <1>3

\* A field that ends a byte and is read.
Ending(s) == s \in Step /\ Reads(s) /\ Varying(s) /\ ~TrailStep(s)

\* The last field that is read.
LEMMA FollowsLast ==
  ASSUME NEW P, Len(P) \in Nat, NEW a \in 1 .. Len(P), NEW m \in Nat, a < m,
         NEW v, Ending(v), v = P[a],
         \A k \in a + 1 .. Len(P) : TrailStep(P[k])
  PROVE  Follows(<<v>> \o <<Time>>, P, a, m)
  <1>1. Time \in Step /\ ~Reads(Time) /\ <<Time>>[1] = Time
    BY Members, ReadsOf
  <1>2. a \in Nat /\ a + 1 \in Nat /\ a + 1 <= m /\ a + 1 > 1 /\ a <= m
    OBVIOUS
  <1>3. Follows(<<Time>>, P, a + 1, m)
    BY <1>1, <1>2, FollowsOne
  <1>4. v \in Step /\ Reads(v) /\ Varying(v) /\ ~TrailStep(v)
    BY DEF Ending
  <1>5. a \in 1 .. Len(P) /\ (Reads(<<Time>>[1]) <=> ~Varying(v))
    BY <1>1, <1>4
  <1> QED
    BY <1>2, <1>3, <1>4, <1>5, FollowsCons

\* One before others.
LEMMA FollowsMore ==
  ASSUME NEW P, Len(P) \in Nat, NEW a \in 1 .. Len(P), NEW m \in Nat, a <= m,
         NEW L, Follows(L, P, a + 1, m), L[1].do \in {"req", "vao"},
         NEW v, Ending(v), v = P[a]
  PROVE  Follows(<<v>> \o (<<Consume>> \o L), P, a, m)
  <1>1. Consume \in Step /\ ~Reads(Consume)
    BY Members, ReadsOf
  <1>2. a \in Nat /\ a + 1 \in Nat /\ a + 1 <= m /\ L \in Seq(Step)
    <2>1. a + 1 <= m
      BY FollowsFirst
    <2> QED
      BY <2>1 DEF Follows
  <1> DEFINE K == <<Consume>> \o L
  <1>3. Follows(K, P, a + 1, m)
    BY <1>1, <1>2, FollowsCons
  <1>4. K[1] = Consume
    BY <1>1, <1>2, HeadOf
  <1> HIDE DEF K
  <1>5. v \in Step /\ Reads(v) /\ Varying(v) /\ ~TrailStep(v)
    BY DEF Ending
  <1>6. a \in 1 .. Len(P) /\ (Reads(K[1]) <=> ~Varying(v))
    BY <1>1, <1>4, <1>5
  <1>7. Follows(<<v>> \o K, P, a, m)
    BY <1>2, <1>3, <1>5, <1>6, FollowsCons
  <1> QED
    BY <1>7 DEF K

\* The fields of variable width that are always read.
LEMMA EndingFields ==
  /\ \A f \in DOMAIN StoredBits \ {"timestamp", "ckdata1"} :
        Ending(Req(f)) /\ Ending(Var(f)) /\ Ending(Vao(f))
  /\ ~(msg.tcode = TCODE.ICT /\ msg.ckdf = Bits(0)) => Ending(Req("ckdata1"))
  /\ Ending(Xaddr) /\ Xaddr.do \in {"req", "vao"}
  /\ \A f : Req(f).do = "req"
  <1>1. \A f : /\ Req(f).f = f /\ Var(f).f = f /\ Vao(f).f = f
               /\ Req(f).do = "req" /\ Var(f).do = "var" /\ Vao(f).do = "vao"
    BY DEF Req, Var, Vao
  <1>2. \A f \in DOMAIN StoredBits : Req(f) \in Step /\ Var(f) \in Step /\ Vao(f) \in Step
    BY Members
  <1>3. \A f \in DOMAIN StoredBits \ {"timestamp", "ckdata1"} :
           Ending(Req(f)) /\ Ending(Var(f)) /\ Ending(Vao(f))
    BY <1>1, <1>2 DEF Ending, Reads, Varying, TrailStep
  <1>4. ~(msg.tcode = TCODE.ICT /\ msg.ckdf = Bits(0)) => Ending(Req("ckdata1"))
    BY <1>1, <1>2, Members DEF Ending, Reads, Varying, TrailStep
  <1>5. "xaddr" \in DOMAIN StoredBits \ {"timestamp", "ckdata1"}
    BY Members
  <1> QED
    BY <1>1, <1>3, <1>4, <1>5 DEF Xaddr

\* Lists put together in another order.
LEMMA Associates ==
  \A s, t, u \in Seq(Step) : (s \o t) \o u = s \o (t \o u)
  BY ConcatAssociative

\* Concatenation, with the operators of the lists kept closed to the provers.
Cat(s, t) == s \o t
\* A list of steps.
Listed(s) == s \in Seq(Step)

\* Lists of steps are appended in any grouping.
LEMMA CatAssoc ==
  \A s, t, u : Listed(s) /\ Listed(t) /\ Listed(u) =>
     Listed(Cat(s, t)) /\ Cat(Cat(s, t), u) = Cat(s, Cat(t, u))
  BY Associates DEF Cat, Listed

\* The groupings in which EncodeSteps and the lists of the decoder are written.
LEMMA Regroup ==
  ASSUME NEW A, NEW B, NEW C, Listed(A), Listed(B), Listed(C)
  PROVE  /\ \A X, H : Listed(X) /\ Listed(H) =>
              Cat(Cat(Cat(Cat(A, B), C), X), H) = Cat(A, Cat(B, Cat(C, Cat(X, H))))
         /\ \A D, E, F : Listed(D) /\ Listed(E) /\ Listed(F) =>
              Cat(Cat(Cat(Cat(Cat(A, B), C), D), E), F)
                 = Cat(A, Cat(B, Cat(C, Cat(D, Cat(E, F)))))
  BY CatAssoc

\* The list of a common message.
LEMMA CommonFollows ==
  ASSUME IsCommon(msg.tcode)
  PROVE  LET L == DecodeBody(msg.tcode)
             P == EncodeBody(msg)
         IN  Follows(L, P, 1, Len(P) + 1) /\ Reads(L[1]) /\ Varying(P[Len(P)]) /\ Len(P) # 0
  <1> DEFINE t == msg.tcode
             A == If(is_sync(t), <<Fixed("sync")>>)
             B == If(is_indir_branch(t), <<Fixed("btype")>>)
             C == <<Req("icnt")>>
             D == If(has_xaddr(t), <<Consume, Xaddr>>)
             E == If(has_hist(t), <<Consume, Req("hist")>>)
             F == <<Time>>
             X == If(has_xaddr(t), <<Xaddr>>)
             H == If(has_hist(t), <<Req("hist")>>)
             Q == C \o (D \o (E \o F))
             R == C \o (X \o H)
  <1>1. DecodeBody(t) = A \o B \o C \o D \o E \o F
    BY TcodesDiffer DEF DecodeBody
  <1>2. EncodeBody(msg) = A \o B \o C \o X \o H
    BY TcodesDiffer DEF EncodeBody
  <1>3. /\ Ending(Req("icnt")) /\ Ending(Req("hist")) /\ Ending(Xaddr)
        /\ Xaddr.do \in {"req", "vao"} /\ Req("hist").do = "req"
    BY EndingFields, Members
  <1>4. /\ Req("icnt") \in Step /\ Req("hist") \in Step /\ Xaddr \in Step /\ Consume \in Step
        /\ Time \in Step
    BY <1>3, Members DEF Ending
  <1>5. /\ A \in Seq(Step) /\ B \in Seq(Step) /\ C \in Seq(Step) /\ D \in Seq(Step)
        /\ E \in Seq(Step) /\ F \in Seq(Step) /\ X \in Seq(Step) /\ H \in Seq(Step)
    BY <1>4, Members DEF If
  <1>6. has_hist(t) => has_xaddr(t)
    BY DEF has_hist, has_xaddr, is_indir_branch
  <1> DEFINE S0 == <<Req("hist")>> \o <<Time>>
             S1 == <<Xaddr>> \o <<Time>>
             S2 == <<Xaddr>> \o (<<Consume>> \o S0)
             S3 == <<Req("icnt")>> \o <<Time>>
  <1>7. /\ S0 \in Seq(Step) /\ S0[1] = Req("hist") /\ S1 \in Seq(Step) /\ S1[1] = Xaddr
        /\ S2 \in Seq(Step) /\ S2[1] = Xaddr
        /\ S3 \in Seq(Step) /\ S3[1] = Req("icnt")
        /\ (<<Req("icnt")>> \o (<<Consume>> \o S1))[1] = Req("icnt")
        /\ (<<Req("icnt")>> \o (<<Consume>> \o S2))[1] = Req("icnt")
    <2>1. S0 \in Seq(Step) /\ S0[1] = Req("hist") /\ S1 \in Seq(Step) /\ S1[1] = Xaddr
          /\ S3 \in Seq(Step) /\ S3[1] = Req("icnt")
      BY <1>4, <1>5, HeadOf
    <2> HIDE DEF S0, S1, S3
    <2>2. <<Consume>> \o S0 \in Seq(Step) /\ <<Consume>> \o S1 \in Seq(Step)
      BY <1>4, <2>1, HeadOf
    <2>3. S2 \in Seq(Step) /\ S2[1] = Xaddr
      BY <1>4, <2>2, HeadOf
    <2> HIDE DEF S2
    <2>4. <<Consume>> \o S2 \in Seq(Step)
      BY <1>4, <2>3, HeadOf
    <2> QED
      BY <1>4, <2>1, <2>2, <2>3, <2>4, HeadOf
  <1>8. Follows(Q, R, 1, Len(R) + 1) /\ Reads(Q[1]) /\ Varying(R[Len(R)]) /\ Len(R) # 0
        /\ R \in Seq(Step)
    <2> HIDE DEF S0, S1, S2, S3, A, B
    <2>1. CASE ~has_xaddr(t)
      <3>1. D = << >> /\ E = << >> /\ X = << >> /\ H = << >>
        BY <1>6, <2>1 DEF If
      <3>2. Q = S3 /\ R = <<Req("icnt")>>
        BY <1>5, <3>1, ConcatEmptySeq DEF S3
      <3> HIDE DEF Q, R, C, D, E, F, X, H
      <3>3. Len(R) = 1 /\ R[1] = Req("icnt") /\ R \in Seq(Step)
        BY <1>4, <3>2
      <3>4. Follows(S3, R, 1, 2)
        <4>1. 1 \in 1 .. Len(R) /\ 1 < 2 /\ Len(R) \in Nat /\ \A k \in 1 + 1 .. Len(R) : FALSE
          BY <3>3
        <4> QED
          BY <1>3, <3>3, <4>1, FollowsLast DEF S3
      <3> QED
        BY <1>3, <1>7, <3>2, <3>3, <3>4 DEF Ending
    <2>2. CASE has_xaddr(t) /\ ~has_hist(t)
      <3>1. D = <<Consume, Xaddr>> /\ E = << >> /\ X = <<Xaddr>> /\ H = << >>
        BY <2>2 DEF If
      <3>2. <<Consume, Xaddr>> = <<Consume>> \o <<Xaddr>> /\ <<Xaddr>> \in Seq(Step)
            /\ <<Consume>> \in Seq(Step)
        BY <1>4, Written2
      <3>3. <<Consume, Xaddr>> \o F = <<Consume>> \o S1
        BY <1>5, <3>2, ConcatAssociative DEF S1
      <3>4. Q = <<Req("icnt")>> \o (<<Consume>> \o S1)
        BY <1>5, <3>1, <3>3, ConcatEmptySeq
      <3>5. R = <<Req("icnt"), Xaddr>>
        <4>1. X \o H = <<Xaddr>>
          BY <1>5, <3>1, ConcatEmptySeq
        <4> QED
          BY <4>1, Written2
      <3> HIDE DEF Q, R, C, D, E, F, X, H
      <3>6. Len(R) = 2 /\ R[1] = Req("icnt") /\ R[2] = Xaddr /\ R \in Seq(Step)
        BY <1>4, <3>5
      <3>7. Follows(S1, R, 2, 3)
        <4>1. 2 \in 1 .. Len(R) /\ 2 < 3 /\ Len(R) \in Nat /\ \A k \in 2 + 1 .. Len(R) : FALSE
          BY <3>6
        <4> QED
          BY <1>3, <3>6, <4>1, FollowsLast DEF S1
      <3>8. Follows(Q, R, 1, 3)
        <4>1. 1 \in 1 .. Len(R) /\ 1 <= 3 /\ Len(R) \in Nat /\ 1 + 1 = 2
          BY <3>6
        <4> QED
          BY <1>3, <1>7, <3>4, <3>6, <3>7, <4>1, FollowsMore
      <3> QED
        BY <1>3, <1>7, <3>4, <3>6, <3>8 DEF Ending
    <2>3. CASE has_xaddr(t) /\ has_hist(t)
      <3>1. /\ D = <<Consume, Xaddr>> /\ E = <<Consume, Req("hist")>>
            /\ X = <<Xaddr>> /\ H = <<Req("hist")>>
        BY <2>3 DEF If
      <3>2. /\ <<Consume, Xaddr>> = <<Consume>> \o <<Xaddr>> /\ <<Xaddr>> \in Seq(Step)
            /\ <<Consume, Req("hist")>> = <<Consume>> \o <<Req("hist")>>
            /\ <<Req("hist")>> \in Seq(Step) /\ <<Consume>> \in Seq(Step)
        BY <1>4, Written2
      <3>3. E \o F = <<Consume>> \o S0
        <4>1. E \o F = (<<Consume>> \o <<Req("hist")>>) \o <<Time>>
          BY <3>1, <3>2
        <4>2. <<Time>> \in Seq(Step)
          BY <1>4
        <4> QED
          BY <3>2, <4>1, <4>2, Associates DEF S0
      <3>4. <<Consume>> \o S0 \in Seq(Step)
        BY <1>4, <1>7, HeadOf
      <3>5. D \o (E \o F) = <<Consume>> \o S2
        <4> HIDE DEF S0
        <4>1. D \o (E \o F) = (<<Consume>> \o <<Xaddr>>) \o (<<Consume>> \o S0)
          BY <3>1, <3>2, <3>3
        <4> QED
          BY <3>2, <3>4, <4>1, Associates DEF S2
      <3>6. Q = <<Req("icnt")>> \o (<<Consume>> \o S2)
        BY <3>5
      <3>7. R = <<Req("icnt"), Xaddr, Req("hist")>>
        BY <3>1, Written2, Written3
      <3> HIDE DEF Q, R, C, D, E, F, X, H
      <3>8. Len(R) = 3 /\ R[1] = Req("icnt") /\ R[2] = Xaddr /\ R[3] = Req("hist")
            /\ R \in Seq(Step)
        BY <1>4, <3>7
      <3>9. Follows(S0, R, 3, 4)
        <4>1. 3 \in 1 .. Len(R) /\ 3 < 4 /\ Len(R) \in Nat /\ \A k \in 3 + 1 .. Len(R) : FALSE
          BY <3>8
        <4> QED
          BY <1>3, <3>8, <4>1, FollowsLast DEF S0
      <3>10. Follows(S2, R, 2, 4)
        <4>1. 2 \in 1 .. Len(R) /\ 2 <= 4 /\ Len(R) \in Nat /\ 2 + 1 = 3
          BY <3>8
        <4> QED
          BY <1>3, <1>7, <3>8, <3>9, <4>1, FollowsMore DEF S2
      <3>11. Follows(Q, R, 1, 4)
        <4>1. 1 \in 1 .. Len(R) /\ 1 <= 4 /\ Len(R) \in Nat /\ 1 + 1 = 2
          BY <3>8
        <4> QED
          BY <1>3, <1>7, <3>6, <3>8, <3>10, <4>1, FollowsMore
      <3> QED
        BY <1>3, <1>7, <3>6, <3>8, <3>11 DEF Ending
    <2> QED
      BY <2>1, <2>2, <2>3
  <1>9. /\ A \o B \o C \o D \o E \o F = A \o (B \o Q)
        /\ A \o B \o C \o X \o H = A \o (B \o R)
    <2> HIDE DEF A, B, C, D, E, F, X, H
    <2>1. /\ Cat(Cat(Cat(Cat(Cat(A, B), C), D), E), F) = Cat(A, Cat(B, Cat(C, Cat(D, Cat(E, F)))))
          /\ Cat(Cat(Cat(Cat(A, B), C), X), H) = Cat(A, Cat(B, Cat(C, Cat(X, H))))
      <3>1. /\ Listed(A) /\ Listed(B) /\ Listed(C) /\ Listed(D) /\ Listed(E) /\ Listed(F)
            /\ Listed(X) /\ Listed(H)
        BY <1>5 DEF Listed
      <3> QED
        BY <3>1, Regroup
    <2> QED
      BY <2>1 DEF Cat
  <1> HIDE DEF Q, R
  <1>10. /\ Follows(B \o Q, B \o R, 1, Len(B \o R) + 1) /\ Reads((B \o Q)[1])
         /\ Varying((B \o R)[Len(B \o R)]) /\ Len(B \o R) # 0 /\ B \o R \in Seq(Step)
    BY <1>8, Members, FollowsIf
  <1>11. /\ Follows(A \o (B \o Q), A \o (B \o R), 1, Len(A \o (B \o R)) + 1)
         /\ Reads((A \o (B \o Q))[1])
         /\ Varying((A \o (B \o R))[Len(A \o (B \o R))]) /\ Len(A \o (B \o R)) # 0
    <2> DEFINE Q1 == B \o Q
               R1 == B \o R
    <2> HIDE DEF Q1, R1, B
    <2>1. /\ Follows(Q1, R1, 1, Len(R1) + 1) /\ Reads(Q1[1])
          /\ Varying(R1[Len(R1)]) /\ Len(R1) # 0 /\ R1 \in Seq(Step)
      BY <1>10 DEF Q1, R1
    <2>2. /\ Follows(A \o Q1, A \o R1, 1, Len(A \o R1) + 1)
          /\ Reads((A \o Q1)[1])
          /\ Varying((A \o R1)[Len(A \o R1)]) /\ Len(A \o R1) # 0
      BY <2>1, Members, FollowsIf
    <2> QED
      BY <2>2 DEF Q1, R1
  <1> QED
    BY <1>1, <1>2, <1>9, <1>11

\* A list of the decoder for the whole list of the encoder.
Begins(L, P) == /\ P \in Seq(Step) /\ Follows(L, P, 1, Len(P) + 1) /\ Reads(L[1])
                /\ Varying(P[Len(P)]) /\ Len(P) # 0

\* The lists that follow from a field read on the way.
Continues(P, i) ==
    /\ P[i].f # "timestamp"
    /\ Closing(P[i], msg.tcode) /\ P[i].f # "tcode" =>
          LET D == DecodeMore(P[i].f, msg)
          IN  Follows(D, P, i + 1, Len(P) + 1) /\ (Reads(D[1]) <=> ~Varying(P[i]))

\* What is to show of each kind of message: the body the decoder reads is the one the encoder writes.
BodyFits == /\ Begins(DecodeBody(msg.tcode), EncodeBody(msg))
            /\ \A i \in 1 .. Len(EncodeBody(msg)) : Continues(EncodeBody(msg), i)

\* The fields by name.
LEMMA Named ==
  /\ \A f : /\ Fixed(f).f = f /\ Req(f).f = f /\ Var(f).f = f /\ Vao(f).f = f
            /\ ~Varying(Fixed(f)) /\ Varying(Req(f)) /\ Varying(Var(f)) /\ Varying(Vao(f))
  /\ Xaddr.f = "xaddr" /\ Varying(Xaddr)
  BY DEF Fixed, Req, Var, Vao, Varying, Xaddr

\* Which fields close a list.
LEMMA ClosingNames ==
  ASSUME NEW s, Reads(s), NEW t, Closing(s, t)
  PROVE  \/ s.f = "tcode"
         \/ s.f = "rcode" /\ t = TCODE.ResourceFull
         \/ s.f = "icnt" /\ t = TCODE.ProgTraceCorrelation
         \/ s.f = "ckdata0" /\ t = TCODE.ICT
  BY ReadsOf, Named DEF Closing

\* Outside ResourceFull, ProgTraceCorrelation and ICT only the TCODE and the time have steps that
\* depend on them (msg-decoder.c:146-299).
LEMMA SimpleContinues ==
  ASSUME NEW P, NEW i, Reads(P[i]), P[i].f # "timestamp",
         msg.tcode \notin {TCODE.ResourceFull, TCODE.ProgTraceCorrelation, TCODE.ICT}
  PROVE  Continues(P, i)
  BY ClosingNames DEF Continues

\* A list with all its fields but those of the timestamp.
Untimed(L) == L \in Seq(Step) /\ \A i \in 1 .. Len(L) : Reads(L[i]) /\ L[i].f # "timestamp"

\* Two lists without the time, one behind the other, have no time.
LEMMA UntimedConcat ==
  \A A, B : Untimed(A) /\ Untimed(B) => Untimed(A \o B)
  <1> SUFFICES ASSUME NEW A, NEW B, Untimed(A), Untimed(B) PROVE Untimed(A \o B)
    OBVIOUS
  <1>1. A \in Seq(Step) /\ B \in Seq(Step)
    BY DEF Untimed
  <1>2. /\ A \o B \in Seq(Step) /\ Len(A \o B) = Len(A) + Len(B)
        /\ Len(A) \in Nat /\ Len(B) \in Nat
        /\ (\A i \in 1 .. Len(A) : (A \o B)[i] = A[i])
        /\ (\A i \in Len(A) + 1 .. Len(A) + Len(B) : (A \o B)[i] = B[i - Len(A)])
    BY <1>1
  <1>3. \A i \in 1 .. Len(A \o B) : \/ i \in 1 .. Len(A)
                                    \/ /\ i \in Len(A) + 1 .. Len(A) + Len(B)
                                       /\ i - Len(A) \in 1 .. Len(B)
    BY <1>2
  <1> QED
    BY <1>2, <1>3 DEF Untimed

\* The lists of single macros other than that of the time have no time.
LEMMA UntimedOne ==
  /\ \A f \in FixedFields : Untimed(<<Fixed(f)>>)
  /\ \A f \in DOMAIN StoredBits \ {"timestamp"} :
        Untimed(<<Req(f)>>) /\ Untimed(<<Var(f)>>) /\ Untimed(<<Vao(f)>>)
  /\ Untimed(<<Xaddr>>) /\ Untimed(<< >>)
  /\ \A c, L : Untimed(L) => Untimed(If(c, L))
  <1>1. \A s \in Step : Reads(s) /\ s.f # "timestamp" => Untimed(<<s>>)
    BY DEF Untimed
  <1>2. \A f \in FixedFields : f # "timestamp"
    BY FieldKinds, Members
  <1>3. Untimed(<< >>)
    BY DEF Untimed
  <1>4. Xaddr \in Step /\ Reads(Xaddr)
    BY EndingFields DEF Ending
  <1> QED
    BY <1>1, <1>2, <1>3, <1>4, Members, Named, ReadsOf DEF If

\* Common messages.
LEMMA CommonFits == IsCommon(msg.tcode) => BodyFits
  <1> SUFFICES ASSUME IsCommon(msg.tcode) PROVE BodyFits
    OBVIOUS
  <1> DEFINE t == msg.tcode
             A == If(is_sync(t), <<Fixed("sync")>>)
             B == If(is_indir_branch(t), <<Fixed("btype")>>)
             C == <<Req("icnt")>>
             X == If(has_xaddr(t), <<Xaddr>>)
             H == If(has_hist(t), <<Req("hist")>>)
  <1>1. EncodeBody(msg) = A \o B \o C \o X \o H
    BY TcodesDiffer DEF EncodeBody
  <1>2. Untimed(A) /\ Untimed(B) /\ Untimed(C) /\ Untimed(X) /\ Untimed(H)
    BY UntimedOne, Members
  <1> HIDE DEF A, B, C, X, H
  <1>3. Untimed(A \o B)
    BY <1>2, UntimedConcat
  <1>4. Untimed((A \o B) \o C)
    BY <1>2, <1>3, UntimedConcat
  <1>5. Untimed(((A \o B) \o C) \o X)
    BY <1>2, <1>4, UntimedConcat
  <1>6. Untimed((((A \o B) \o C) \o X) \o H)
    BY <1>2, <1>5, UntimedConcat
  <1>7. Untimed(EncodeBody(msg))
    BY <1>1, <1>6
  <1>8. t \notin {TCODE.ResourceFull, TCODE.ProgTraceCorrelation, TCODE.ICT}
    BY TcodesDiffer
  <1>9. \A i \in 1 .. Len(EncodeBody(msg)) : Continues(EncodeBody(msg), i)
    BY <1>7, <1>8, SimpleContinues DEF Untimed
  <1> QED
    BY <1>7, <1>9, CommonFollows DEF BodyFits, Begins, Untimed

\* Messages with a single list.
LEMMA FinalField ==
  ASSUME NEW v, Ending(v)
  PROVE  Follows(<<v, Time>>, <<v>>, 1, 2) /\ Reads(<<v, Time>>[1]) /\ <<v>> \in Seq(Step)
  <1> DEFINE P == <<v>>
  <1>1. Len(P) = 1 /\ P[1] = v /\ P \in Seq(Step) /\ <<v, Time>>[1] = v
    BY DEF Ending
  <1> HIDE DEF P
  <1>2. 1 \in 1 .. Len(P) /\ Len(P) \in Nat /\ \A k \in 1 + 1 .. Len(P) : FALSE
    BY <1>1
  <1>3. Follows(<<v>> \o <<Time>>, P, 1, 2)
    BY <1>1, <1>2, FollowsLast
  <1>4. <<v>> \o <<Time>> = <<v, Time>>
    BY Written2
  <1> QED
    BY <1>1, <1>3, <1>4 DEF Ending, P

\* RepeatBranch is read as it is written: HREPEAT, then the time.
LEMMA RepeatFits == msg.tcode = TCODE.RepeatBranch => BodyFits
  <1> SUFFICES ASSUME msg.tcode = TCODE.RepeatBranch PROVE BodyFits
    OBVIOUS
  <1> DEFINE P == <<Req("hrepeat")>>
             L == <<Req("hrepeat"), Time>>
  <1>1. EncodeBody(msg) = P /\ DecodeBody(msg.tcode) = L
    BY TcodesDiffer DEF EncodeBody, DecodeBody
  <1>2. Ending(Req("hrepeat")) /\ Req("hrepeat").f # "timestamp"
    BY EndingFields, Members, Named
  <1>3. Len(P) = 1 /\ P[1] = Req("hrepeat")
    OBVIOUS
  <1>4. Follows(L, P, 1, 2) /\ Reads(L[1]) /\ P \in Seq(Step)
    BY <1>2, FinalField
  <1> HIDE DEF P, L
  <1>5. msg.tcode \notin {TCODE.ResourceFull, TCODE.ProgTraceCorrelation, TCODE.ICT}
    BY TcodesDiffer
  <1>6. \A i \in 1 .. Len(P) : i = 1
    BY <1>3
  <1>7. \A i \in 1 .. Len(P) : Continues(P, i)
    BY <1>2, <1>3, <1>5, <1>6, SimpleContinues DEF Ending
  <1> QED
    BY <1>1, <1>2, <1>3, <1>4, <1>7 DEF BodyFits, Begins, Ending

\* Error is read as it is written: ETYPE and ECODE, then the time.
LEMMA ErrorFits == msg.tcode = TCODE.Error => BodyFits
  <1> SUFFICES ASSUME msg.tcode = TCODE.Error PROVE BodyFits
    OBVIOUS
  <1> DEFINE P == <<Fixed("etype"), Var("ecode")>>
             L == <<Fixed("etype"), Var("ecode"), Time>>
  <1>1. EncodeBody(msg) = P /\ DecodeBody(msg.tcode) = L
    BY TcodesDiffer DEF EncodeBody, DecodeBody
  <1>2. Ending(Var("ecode")) /\ Fixed("etype") \in Step
    BY EndingFields, Members
  <1>3. Follows(<<Var("ecode"), Time>>, <<Var("ecode")>>, 1, 2)
        /\ Reads(<<Var("ecode"), Time>>[1]) /\ <<Var("ecode")>> \in Seq(Step)
    BY <1>2, FinalField
  <1>4. /\ <<Fixed("etype")>> \o <<Var("ecode"), Time>> = L
        /\ <<Fixed("etype")>> \o <<Var("ecode")>> = P
    BY Written2, Written3
  <1>5. Follows(L, P, 1, 3) /\ Reads(L[1])
    <2> HIDE DEF P, L
    <2>1. 2 + 1 = 3
      OBVIOUS
    <2> QED
      BY <1>3, <1>4, <2>1, Members, FollowsFixed
  <1>6. Len(P) = 2 /\ P[1] = Fixed("etype") /\ P[2] = Var("ecode") /\ P \in Seq(Step)
    BY <1>2 DEF Ending
  <1> HIDE DEF P, L
  <1>7. msg.tcode \notin {TCODE.ResourceFull, TCODE.ProgTraceCorrelation, TCODE.ICT}
    BY TcodesDiffer
  <1>8. \A i \in 1 .. Len(P) : i = 1 \/ i = 2
    BY <1>6
  <1>9. \A i \in 1 .. Len(P) : Reads(P[i]) /\ P[i].f # "timestamp"
    BY <1>6, <1>8, Named, ReadsOf
  <1>10. \A i \in 1 .. Len(P) : Continues(P, i)
    BY <1>7, <1>9, SimpleContinues
  <1> QED
    BY <1>1, <1>2, <1>5, <1>6, <1>10 DEF BodyFits, Begins, Ending

\* A step in front of four steps.
LEMMA Written5 ==
  ASSUME NEW a, NEW b, NEW c, NEW d, NEW e
  PROVE  <<a>> \o <<b, c, d, e>> = <<a, b, c, d, e>>
  <1> DEFINE S == {a, b, c, d, e}
             K == <<a>> \o <<b, c, d, e>>
             N == <<a, b, c, d, e>>
  <1>1. K \in Seq(S) /\ N \in Seq(S) /\ Len(K) = 5 /\ Len(N) = 5
    OBVIOUS
  <1>2. K[1] = N[1] /\ K[2] = N[2] /\ K[3] = N[3] /\ K[4] = N[4] /\ K[5] = N[5]
    OBVIOUS
  <1>3. \A i \in 1 .. 5 : K[i] = N[i]
    BY <1>2
  <1> HIDE DEF K, N
  <1>4. K = N
    BY <1>1, <1>3, SeqEqual
  <1> QED
    BY <1>4 DEF K, N

\* Ownership is read as it is written: FORMAT, PRV, V and CONTEXT, then the time.
LEMMA OwnershipFits == msg.tcode = TCODE.Ownership => BodyFits
  <1> SUFFICES ASSUME msg.tcode = TCODE.Ownership PROVE BodyFits
    OBVIOUS
  <1> DEFINE x == Fixed("fmt")
             y == Fixed("prv")
             z == Fixed("v")
             u == Var("context")
             P == <<x, y, z, u>>
             L == <<x, y, z, u, Time>>
  <1>1. EncodeBody(msg) = P /\ DecodeBody(msg.tcode) = L
    BY TcodesDiffer DEF EncodeBody, DecodeBody
  <1>2. Ending(u) /\ x \in Step /\ y \in Step /\ z \in Step
    BY EndingFields, Members
  <1>3. Reads(x) /\ Reads(y) /\ Reads(z) /\ Reads(u) /\ x.f # "timestamp" /\ y.f # "timestamp"
        /\ z.f # "timestamp" /\ u.f # "timestamp"
    BY Named, ReadsOf
  <1>4. Follows(<<u, Time>>, <<u>>, 1, 2) /\ Reads(<<u, Time>>[1]) /\ <<u>> \in Seq(Step)
    BY <1>2, FinalField
  <1>5. Follows(<<z, u, Time>>, <<z, u>>, 1, 3) /\ Reads(<<z, u, Time>>[1])
        /\ <<z, u>> \in Seq(Step)
    <2>1. <<z>> \o <<u, Time>> = <<z, u, Time>> /\ <<z>> \o <<u>> = <<z, u>> /\ 2 + 1 = 3
      BY Written2, Written3
    <2>2. <<z, u>> \in Seq(Step)
      BY <1>2 DEF Ending
    <2> HIDE DEF u
    <2> QED
      BY <1>4, <2>1, <2>2, Members, FollowsFixed
  <1>6. Follows(<<y, z, u, Time>>, <<y, z, u>>, 1, 4) /\ Reads(<<y, z, u, Time>>[1])
        /\ <<y, z, u>> \in Seq(Step)
    <2>1. <<y>> \o <<z, u, Time>> = <<y, z, u, Time>> /\ <<y>> \o <<z, u>> = <<y, z, u>>
          /\ 3 + 1 = 4
      BY Written3, Written4
    <2>2. <<y, z, u>> \in Seq(Step)
      BY <1>2 DEF Ending
    <2> HIDE DEF u, z
    <2> QED
      BY <1>5, <2>1, <2>2, Members, FollowsFixed
  <1>7. Follows(L, P, 1, 5) /\ Reads(L[1])
    <2>1. <<x>> \o <<y, z, u, Time>> = <<x, y, z, u, Time>> /\ <<x>> \o <<y, z, u>> = <<x, y, z, u>>
          /\ 4 + 1 = 5
      BY Written4, Written5
    <2> HIDE DEF u, z, y
    <2> QED
      BY <1>6, <2>1, Members, FollowsFixed
  <1>8. Len(P) = 4 /\ P[1] = x /\ P[2] = y /\ P[3] = z /\ P[4] = u /\ P \in Seq(Step)
    BY <1>2 DEF Ending
  <1> HIDE DEF P, L, x, y, z, u
  <1>9. msg.tcode \notin {TCODE.ResourceFull, TCODE.ProgTraceCorrelation, TCODE.ICT}
    BY TcodesDiffer
  <1>10. \A i \in 1 .. Len(P) : i = 1 \/ i = 2 \/ i = 3 \/ i = 4
    BY <1>8
  <1>11. \A i \in 1 .. Len(P) : Reads(P[i]) /\ P[i].f # "timestamp"
    BY <1>3, <1>8, <1>10
  <1>12. \A i \in 1 .. Len(P) : Continues(P, i)
    BY <1>9, <1>11, SimpleContinues
  <1> QED
    BY <1>1, <1>2, <1>7, <1>8, <1>12 DEF BodyFits, Begins, Ending

\* A ResourceFull with one field, and with two.
LEMMA OneResFits ==
  ASSUME msg.tcode = TCODE.ResourceFull, NEW v, Ending(v), v.f \notin {"timestamp", "rcode"},
         EncodeRes(msg.rcode) = <<v>>, DecodeRes(msg.rcode) = <<v, Time>>
  PROVE  BodyFits
  <1> DEFINE x == Fixed("rcode")
             P == <<x, v>>
             L == <<x>>
             D == <<v, Time>>
  <1>1. EncodeBody(msg) = P /\ DecodeBody(msg.tcode) = L
    BY TcodesDiffer, Written2 DEF EncodeBody, DecodeBody
  <1>2. /\ x \in Step /\ Reads(x) /\ ~Varying(x) /\ x.f = "rcode" /\ ~TrailStep(x)
        /\ v \in Step /\ Reads(v) /\ Varying(v)
    BY Members, Named, ReadsOf DEF Ending, TrailStep
  <1>3. Len(P) = 2 /\ P[1] = x /\ P[2] = v /\ P \in Seq(Step) /\ L[1] = x /\ D[1] = v
    BY <1>2
  <1>4. DecodeMore("rcode", msg) = D
    BY DEF DecodeMore
  <1> HIDE DEF x
  <1>5. Follows(L, P, 1, 3)
    <2>1. 1 \in 1 .. Len(P) /\ 1 <= 3
      BY <1>3
    <2> HIDE DEF P
    <2> QED
      BY <1>2, <1>3, <2>1, FollowsOne
  <1>6. Follows(D, P, 2, 3)
    <2>1. 2 \in 1 .. Len(P) /\ 2 < 3 /\ Len(P) \in Nat /\ \A k \in 2 + 1 .. Len(P) : FALSE
      BY <1>3
    <2> HIDE DEF P
    <2>2. Follows(<<v>> \o <<Time>>, P, 2, 3)
      BY <1>3, <2>1, FollowsLast
    <2> QED
      BY <2>2, Written2
  <1> HIDE DEF P, L, D
  <1>7. Continues(P, 1)
    BY <1>2, <1>3, <1>4, <1>6 DEF Continues
  <1>8. Continues(P, 2)
    <2>1. ~(Closing(v, msg.tcode) /\ v.f # "tcode")
      BY <1>2, ClosingNames, TcodesDiffer
    <2> QED
      BY <1>3, <2>1 DEF Continues
  <1>9. \A i \in 1 .. Len(P) : Continues(P, i)
    <2>1. \A i \in 1 .. Len(P) : i = 1 \/ i = 2
      BY <1>3
    <2> QED
      BY <1>7, <1>8, <2>1
  <1> QED
    BY <1>1, <1>2, <1>3, <1>5, <1>9 DEF BodyFits, Begins

\* A ResourceFull with two fields behind its code: the decoder consumes the byte between them.
LEMMA TwoResFits ==
  ASSUME msg.tcode = TCODE.ResourceFull,
         NEW v, Ending(v), v.f \notin {"timestamp", "rcode"},
         NEW u, Ending(u), u.f \notin {"timestamp", "rcode"}, u.do = "req",
         EncodeRes(msg.rcode) = <<v, u>>, DecodeRes(msg.rcode) = <<v, Consume, u, Time>>
  PROVE  BodyFits
  <1> DEFINE x == Fixed("rcode")
             P == <<x, v, u>>
             L == <<x>>
             D == <<v, Consume, u, Time>>
  <1>1. EncodeBody(msg) = P /\ DecodeBody(msg.tcode) = L
    BY TcodesDiffer, Written3 DEF EncodeBody, DecodeBody
  <1>2. /\ x \in Step /\ Reads(x) /\ ~Varying(x) /\ x.f = "rcode" /\ ~TrailStep(x)
        /\ v \in Step /\ Reads(v) /\ Varying(v) /\ u \in Step /\ Reads(u) /\ Varying(u)
    BY Members, Named, ReadsOf DEF Ending, TrailStep
  <1>3. Len(P) = 3 /\ P[1] = x /\ P[2] = v /\ P[3] = u /\ P \in Seq(Step) /\ L[1] = x /\ D[1] = v
    BY <1>2
  <1>4. DecodeMore("rcode", msg) = D
    BY DEF DecodeMore
  <1> HIDE DEF x
  <1>5. Follows(L, P, 1, 4)
    <2>1. 1 \in 1 .. Len(P) /\ 1 <= 4
      BY <1>3
    <2> HIDE DEF P
    <2> QED
      BY <1>2, <1>3, <2>1, FollowsOne
  <1>6. Follows(D, P, 2, 4)
    <2> DEFINE S == <<u>> \o <<Time>>
    <2>1. 3 \in 1 .. Len(P) /\ 3 < 4 /\ Len(P) \in Nat /\ (\A k \in 3 + 1 .. Len(P) : FALSE)
          /\ 2 \in 1 .. Len(P) /\ 2 <= 4 /\ 2 + 1 = 3
      BY <1>3
    <2>2. S = <<u, Time>> /\ S[1] = u
      BY Written2
    <2>3. D = <<v>> \o (<<Consume>> \o S)
      <3>1. <<Consume>> \o <<u, Time>> = <<Consume, u, Time>>
            /\ <<v>> \o <<Consume, u, Time>> = D
        BY Written3, Written4
      <3> QED
        BY <2>2, <3>1
    <2> HIDE DEF P, S, D
    <2>4. Follows(S, P, 3, 4)
      BY <1>3, <2>1, FollowsLast DEF S
    <2>5. S[1].do \in {"req", "vao"}
      BY <2>2
    <2> QED
      BY <1>3, <2>1, <2>3, <2>4, <2>5, FollowsMore
  <1> HIDE DEF P, L, D
  <1>7. Continues(P, 1)
    BY <1>2, <1>3, <1>4, <1>6 DEF Continues
  <1>8. Continues(P, 2) /\ Continues(P, 3)
    <2>1. ~(Closing(v, msg.tcode) /\ v.f # "tcode") /\ ~(Closing(u, msg.tcode) /\ u.f # "tcode")
      BY <1>2, ClosingNames, TcodesDiffer
    <2> QED
      BY <1>3, <2>1 DEF Continues
  <1>9. \A i \in 1 .. Len(P) : Continues(P, i)
    <2>1. \A i \in 1 .. Len(P) : i = 1 \/ i = 2 \/ i = 3
      BY <1>3
    <2> QED
      BY <1>7, <1>8, <2>1
  <1> QED
    BY <1>1, <1>2, <1>3, <1>5, <1>9 DEF BodyFits, Begins

\* ResourceFull is read as it is written, for each of its codes.
LEMMA ResourceFits == msg.tcode = TCODE.ResourceFull => BodyFits
  <1> SUFFICES ASSUME msg.tcode = TCODE.ResourceFull PROVE BodyFits
    OBVIOUS
  <1> DEFINE code == msg.rcode
  <1>1. /\ Ending(Req("icnt")) /\ Ending(Req("hist")) /\ Ending(Req("hrepeat"))
        /\ Ending(Var("rdata"))
    BY EndingFields, Members
  <1>2. /\ Req("icnt").f = "icnt" /\ Req("hist").f = "hist" /\ Req("hrepeat").f = "hrepeat"
        /\ Var("rdata").f = "rdata" /\ Req("hrepeat").do = "req"
    BY Named, EndingFields
  <1>3. Bits(0) # Bits(1) /\ Bits(0) # Bits(2) /\ Bits(1) # Bits(2)
    BY BitsDiffer
  <1>4. CASE code = Bits(0)
    <2>1. EncodeRes(code) = <<Req("icnt")>> /\ DecodeRes(code) = <<Req("icnt"), Time>>
      BY <1>3, <1>4 DEF EncodeRes, DecodeRes
    <2> QED
      BY <1>1, <1>2, <2>1, OneResFits
  <1>5. CASE code = Bits(1)
    <2>1. EncodeRes(code) = <<Req("hist")>> /\ DecodeRes(code) = <<Req("hist"), Time>>
      BY <1>3, <1>5 DEF EncodeRes, DecodeRes
    <2> QED
      BY <1>1, <1>2, <2>1, OneResFits
  <1>6. CASE code = Bits(2)
    <2>1. /\ EncodeRes(code) = <<Req("hist"), Req("hrepeat")>>
          /\ DecodeRes(code) = <<Req("hist"), Consume, Req("hrepeat"), Time>>
      BY <1>3, <1>6 DEF EncodeRes, DecodeRes
    <2> QED
      BY <1>1, <1>2, <2>1, TwoResFits
  <1>7. CASE code \notin {Bits(0), Bits(1), Bits(2)}
    <2>1. EncodeRes(code) = <<Var("rdata")>> /\ DecodeRes(code) = <<Var("rdata"), Time>>
      BY <1>7 DEF EncodeRes, DecodeRes
    <2> QED
      BY <1>1, <1>2, <2>1, OneResFits
  <1> QED
    BY <1>4, <1>5, <1>6, <1>7

\* Two fields of fixed width and one that closes the list.
LEMMA ThreeFollow ==
  ASSUME NEW f \in FixedFields, NEW g \in FixedFields, NEW v, Ending(v),
         NEW R \in Seq(Step), R # << >>, R[1] = v
  PROVE  LET P == <<Fixed(f)>> \o (<<Fixed(g)>> \o R)
             L == <<Fixed(f), Fixed(g), v>>
         IN  Follows(L, P, 1, Len(P) + 1) /\ Reads(L[1]) /\ P \in Seq(Step)
  <1> DEFINE x == Fixed(f)
             y == Fixed(g)
             Q == <<y>> \o R
             P == <<x>> \o Q
             m == Len(R) + 1
  <1>1. v \in Step /\ Reads(v) /\ ~TrailStep(v) /\ x \in Step /\ y \in Step
    BY Members DEF Ending
  <1>2. Len(R) \in Nat /\ Len(R) # 0 /\ 1 \in 1 .. Len(R) /\ 1 <= m /\ m \in Nat
    OBVIOUS
  <1>3. Q \in Seq(Step) /\ Len(Q) = 1 + Len(R)
    BY <1>1, HeadOf
  <1>4. Follows(<<v>>, R, 1, m)
    <2> HIDE DEF m
    <2> QED
      BY <1>1, <1>2, FollowsOne
  <1>5. Follows(<<y>> \o <<v>>, Q, 1, m + 1) /\ Reads((<<y>> \o <<v>>)[1])
    <2> HIDE DEF m
    <2>1. <<v>>[1] = v
      OBVIOUS
    <2> QED
      BY <1>1, <1>2, <1>4, <2>1, FollowsFixed
  <1>6. Follows(<<x>> \o (<<y>> \o <<v>>), P, 1, (m + 1) + 1)
        /\ Reads((<<x>> \o (<<y>> \o <<v>>))[1])
    <2> HIDE DEF m, Q
    <2>1. m + 1 \in Nat
      BY <1>2
    <2> QED
      BY <1>3, <1>5, <2>1, FollowsFixed
  <1>7. <<x>> \o (<<y>> \o <<v>>) = <<x, y, v>>
    BY Written2, Written3
  <1>8. P \in Seq(Step) /\ Len(P) = 1 + Len(Q)
    <2> HIDE DEF Q
    <2> QED
      BY <1>1, <1>3, HeadOf
  <1> HIDE DEF P, Q
  <1>9. Len(P) + 1 = (m + 1) + 1
    BY <1>2, <1>3, <1>8
  <1> QED
    BY <1>6, <1>7, <1>8, <1>9 DEF P, Q

\* Two fields of fixed width, one that closes the list and what it calls for.
LEMMA ThreeFits ==
  ASSUME NEW f \in FixedFields \ {"tcode", "rcode"}, NEW g \in FixedFields \ {"tcode", "rcode"},
         NEW v, Ending(v), v.f # "timestamp",
         NEW R \in Seq(Step), R \in {<<v>>} \cup { <<v, u>> : u \in Step },
         EncodeBody(msg) = <<Fixed(f), Fixed(g)>> \o R,
         DecodeBody(msg.tcode) = <<Fixed(f), Fixed(g), v>>,
         Len(R) = 2 => Varying(R[2]) /\ R[2].f \notin {"timestamp", "icnt", "ckdata0"}
                       /\ R[2].f \notin {"rcode", "tcode"} /\ Reads(R[2]),
         LET D == DecodeMore(v.f, msg)
         IN  Follows(D, EncodeBody(msg), 4, Len(R) + 3) /\ ~Reads(D[1])
  PROVE  BodyFits
  <1> DEFINE x == Fixed(f)
             y == Fixed(g)
             P == <<x>> \o (<<y>> \o R)
             L == <<x, y, v>>
             n == Len(R)
  <1>1. /\ x \in Step /\ y \in Step /\ Reads(x) /\ Reads(y) /\ x.f = f /\ y.f = g
        /\ Reads(v) /\ Varying(v) /\ v \in Step
    BY Members, Named, ReadsOf DEF Ending
  <1>2. f \notin {"timestamp", "icnt", "ckdata0"} /\ g \notin {"timestamp", "icnt", "ckdata0"}
    BY FieldKinds, Members
  <1>3. R # << >> /\ R[1] = v /\ n \in {1, 2} /\ n \in Nat
    <2>1. CASE R = <<v>>
      BY <2>1
    <2>2. CASE \E u \in Step : R = <<v, u>>
      BY <2>2
    <2> QED
      BY <2>1, <2>2
  <1>4. Follows(L, P, 1, Len(P) + 1) /\ Reads(L[1]) /\ P \in Seq(Step)
    BY <1>3, ThreeFollow
  <1>5. EncodeBody(msg) = P
    <2>1. <<x, y>> = <<x>> \o <<y>> /\ <<x>> \in Seq(Step) /\ <<y>> \in Seq(Step)
      BY <1>1, Written2
    <2> HIDE DEF x, y
    <2>2. (<<x>> \o <<y>>) \o R = <<x>> \o (<<y>> \o R)
      BY <2>1, Associates
    <2> QED
      BY <2>1, <2>2 DEF x, y
  <1>6. /\ Len(P) = n + 2 /\ P[1] = x /\ P[2] = y /\ P[3] = v
        /\ n = 2 => P[4] = R[2]
    <2> DEFINE Q == <<y>> \o R
    <2>1. Q \in Seq(Step) /\ Len(Q) = 1 + n /\ Q[1] = y /\ \A i \in 1 .. n : Q[i + 1] = R[i]
      BY <1>1, HeadOf
    <2> HIDE DEF Q, x, y
    <2>2. Len(P) = 1 + Len(Q) /\ P[1] = x /\ \A i \in 1 .. Len(Q) : P[i + 1] = Q[i]
      BY <1>1, <2>1, HeadOf DEF Q
    <2>3. 1 \in 1 .. Len(Q) /\ 2 \in 1 .. Len(Q) /\ 1 + 1 = 2 /\ 2 + 1 = 3 /\ 3 + 1 = 4
          /\ 1 \in 1 .. n /\ (n = 2 => 2 \in 1 .. n /\ 3 \in 1 .. Len(Q))
      BY <1>3, <2>1
    <2>4. P[2] = Q[1] /\ P[3] = Q[2] /\ Q[2] = R[1] /\ (n = 2 => P[4] = Q[3] /\ Q[3] = R[2])
      BY <2>1, <2>2, <2>3
    <2> QED
      BY <1>3, <2>1, <2>2, <2>4
  <1> HIDE DEF P, L, x, y
  <1>7. \A i \in 1 .. Len(P) : i = 1 \/ i = 2 \/ i = 3 \/ (i = 4 /\ n = 2)
    <2>1. \A N \in {1, 2} : \A i \in 1 .. N + 2 : i = 1 \/ i = 2 \/ i = 3 \/ (i = 4 /\ N = 2)
      OBVIOUS
    <2> HIDE DEF n
    <2> QED
      BY <1>3, <1>6, <2>1
  <1>8. Continues(P, 1) /\ Continues(P, 2)
    <2>1. ~(Closing(x, msg.tcode)) /\ ~(Closing(y, msg.tcode))
      BY <1>1, <1>2, ClosingNames
    <2> QED
      BY <1>1, <1>2, <1>6, <2>1 DEF Continues
  <1>9. Continues(P, 3)
    <2>1. Len(P) + 1 = n + 3 /\ 3 + 1 = 4
      BY <1>3, <1>6
    <2> QED
      BY <1>1, <1>5, <1>6, <2>1 DEF Continues
  <1>10. n = 2 => Continues(P, 4)
    <2> SUFFICES ASSUME n = 2 PROVE Continues(P, 4)
      OBVIOUS
    <2>1. ~Closing(P[4], msg.tcode)
      BY <1>6, ClosingNames
    <2> QED
      BY <1>6, <2>1 DEF Continues
  <1>11. \A i \in 1 .. Len(P) : Continues(P, i)
    BY <1>7, <1>8, <1>9, <1>10
  <1>12. Varying(P[Len(P)]) /\ Len(P) # 0
    <2>1. CASE n = 1
      BY <1>1, <1>6, <2>1
    <2>2. CASE n = 2
      BY <1>6, <2>2
    <2> QED
      BY <1>3, <2>1, <2>2
  <1>13. Begins(L, P)
    BY <1>4, <1>12 DEF Begins
  <1>14. DecodeBody(msg.tcode) = L
    BY DEF L, x, y
  <1> QED
    BY <1>5, <1>11, <1>13, <1>14 DEF BodyFits

\* What may follow it.
LEMMA MoreFollows ==
  ASSUME NEW P \in Seq(Step), Len(P) \in {3, 4}
  PROVE  /\ Len(P) = 3 \/ TrailStep(P[4]) => Follows(<<Time>>, P, 4, Len(P) + 1)
         /\ Len(P) = 4 /\ Ending(P[4]) /\ P[4].do = "req" =>
               Follows(<<Consume, P[4], Time>>, P, 4, 5)
         /\ ~Reads(<<Time>>[1]) /\ ~Reads(<<Consume, P[4], Time>>[1])
  <1>1. Time \in Step /\ Consume \in Step /\ ~Reads(Time) /\ ~Reads(Consume)
    BY Members, ReadsOf
  <1>2. ASSUME Len(P) = 3 \/ TrailStep(P[4]) PROVE Follows(<<Time>>, P, 4, Len(P) + 1)
    <2>1. \A N \in {3, 4} : /\ \A k \in 4 .. N : k = 4 /\ N # 3
                            /\ 4 <= N + 1 /\ N + 1 \in Nat
      OBVIOUS
    <2>2. /\ \A k \in 4 .. Len(P) : k = 4 /\ Len(P) # 3
          /\ 4 <= Len(P) + 1 /\ Len(P) + 1 \in Nat /\ 4 > 1
      <3> DEFINE N == Len(P)
      <3>1. N \in {3, 4} /\ (N = 3 \/ TrailStep(P[4]))
        BY <1>2
      <3> HIDE DEF N
      <3>2. /\ \A k \in 4 .. N : k = 4 /\ N # 3
            /\ 4 <= N + 1 /\ N + 1 \in Nat /\ 4 > 1
        BY <2>1, <3>1
      <3> QED
        BY <3>2 DEF N
    <2> QED
      BY <1>1, <1>2, <2>1, <2>2, FollowsOne
  <1>3. ASSUME Len(P) = 4, Ending(P[4]), P[4].do = "req"
        PROVE  Follows(<<Consume, P[4], Time>>, P, 4, 5)
    <2> DEFINE u == P[4]
               S == <<u>> \o <<Time>>
    <2>1. 4 \in 1 .. Len(P) /\ 4 < 5 /\ \A k \in 4 + 1 .. Len(P) : FALSE
      BY <1>3
    <2>2. Follows(S, P, 4, 5)
      <3>1. Len(P) \in Nat
        OBVIOUS
      <3> QED
        BY <1>3, <2>1, <3>1, FollowsLast
    <2>3. S = <<u, Time>> /\ S[1] = u
      BY Written2
    <2>4. S[1].do \in {"req", "vao"}
      BY <1>3, <2>3
    <2> HIDE DEF S
    <2>5. Follows(<<Consume>> \o S, P, 4, 5)
      BY <1>1, <2>2, <2>4, FollowsCons
    <2>6. <<Consume>> \o S = <<Consume, u, Time>>
      BY <2>3, Written3
    <2> QED
      BY <2>5, <2>6
  <1>4. <<Time>>[1] = Time /\ <<Consume, P[4], Time>>[1] = Consume
    OBVIOUS
  <1> QED
    BY <1>1, <1>2, <1>3, <1>4

\* A list of four steps.
LEMMA AppendedFour ==
  ASSUME NEW a, NEW b, NEW c, NEW d
  PROVE  <<a, b, c>> \o <<d>> = <<a, b, c, d>> /\ <<a, b>> \o <<c, d>> = <<a, b, c, d>>
  <1> DEFINE S == {a, b, c, d}
             J == <<a, b, c>> \o <<d>>
             K == <<a, b>> \o <<c, d>>
             N == <<a, b, c, d>>
  <1>1. /\ J \in Seq(S) /\ K \in Seq(S) /\ N \in Seq(S)
        /\ Len(J) = 4 /\ Len(K) = 4 /\ Len(N) = 4
    OBVIOUS
  <1>2. /\ J[1] = N[1] /\ J[2] = N[2] /\ J[3] = N[3] /\ J[4] = N[4]
        /\ K[1] = N[1] /\ K[2] = N[2] /\ K[3] = N[3] /\ K[4] = N[4]
    OBVIOUS
  <1>3. \A i \in 1 .. 4 : J[i] = N[i] /\ K[i] = N[i]
    BY <1>2
  <1> HIDE DEF J, K, N
  <1>4. J = N /\ K = N
    BY <1>1, <1>3, SeqEqual
  <1> QED
    BY <1>4 DEF J, K, N

\* Two steps and a third.
LEMMA AppendedThree ==
  ASSUME NEW a, NEW b, NEW c PROVE <<a, b>> \o <<c>> = <<a, b, c>>
  <1> DEFINE S == {a, b, c}
             K == <<a, b>> \o <<c>>
             N == <<a, b, c>>
  <1>1. K \in Seq(S) /\ N \in Seq(S) /\ Len(K) = 3 /\ Len(N) = 3
    OBVIOUS
  <1>2. K[1] = N[1] /\ K[2] = N[2] /\ K[3] = N[3]
    OBVIOUS
  <1>3. \A i \in 1 .. 3 : K[i] = N[i]
    BY <1>2
  <1> HIDE DEF K, N
  <1>4. K = N
    BY <1>1, <1>3, SeqEqual
  <1> QED
    BY <1>4 DEF K, N

\* ProgTraceCorrelation is read as it is written, with or without a HIST (CDF of 1 or 0).
LEMMA CorrelationFits == msg.tcode = TCODE.ProgTraceCorrelation => BodyFits
  <1> SUFFICES ASSUME msg.tcode = TCODE.ProgTraceCorrelation PROVE BodyFits
    OBVIOUS
  <1> DEFINE v == Req("icnt")
             u == Req("hist")
             R == <<v>> \o If(msg.cdf = Bits(1), <<u>>)
             P == EncodeBody(msg)
             D == DecodeMore("icnt", msg)
  <1>1. /\ P = <<Fixed("evcode"), Fixed("cdf"), v>> \o If(msg.cdf = Bits(1), <<u>>)
        /\ DecodeBody(msg.tcode) = <<Fixed("evcode"), Fixed("cdf"), v>>
    BY TcodesDiffer DEF EncodeBody, DecodeBody
  <1>2. /\ Ending(v) /\ Ending(u) /\ v.f = "icnt" /\ u.f = "hist" /\ u.do = "req" /\ v.do = "req"
        /\ Fixed("evcode") \in Step /\ Fixed("cdf") \in Step /\ v \in Step /\ u \in Step
    BY EndingFields, Members, Named DEF Ending
  <1>3. D = If(msg.cdf = Bits(1), <<Consume, u>>) \o <<Time>>
    BY DEF DecodeMore
  <1>4. /\ "evcode" \in FixedFields \ {"tcode", "rcode"}
        /\ "cdf" \in FixedFields \ {"tcode", "rcode"}
    BY Members
  <1>5. CASE msg.cdf = Bits(1)
    <2>1. R = <<v, u>> /\ D = <<Consume, u, Time>>
      BY <1>3, <1>5, Written2, SmallConcat DEF If
    <2>2. P = <<Fixed("evcode"), Fixed("cdf"), v, u>>
          /\ P = <<Fixed("evcode"), Fixed("cdf")>> \o R
      <3>1. <<Fixed("evcode"), Fixed("cdf"), v>> \o <<u>> = <<Fixed("evcode"), Fixed("cdf"), v, u>>
            /\ <<Fixed("evcode"), Fixed("cdf")>> \o <<v, u>> = <<Fixed("evcode"), Fixed("cdf"), v, u>>
        BY AppendedFour
      <3> QED
        BY <1>1, <1>5, <2>1, <3>1 DEF If
    <2>3. P \in Seq(Step) /\ Len(P) = 4 /\ P[4] = u /\ R \in Seq(Step) /\ Len(R) = 2 /\ R[2] = u
      <3> DEFINE K == <<Fixed("evcode"), Fixed("cdf"), v, u>>
                 N == <<v, u>>
      <3> HIDE DEF u, v
      <3>1. K \in Seq(Step) /\ Len(K) = 4 /\ K[4] = u
        BY <1>2
      <3>2. N \in Seq(Step) /\ Len(N) = 2 /\ N[2] = u
        BY <1>2
      <3>3. P = K /\ R = N
        BY <2>1, <2>2
      <3> HIDE DEF P, R, K, N
      <3> QED
        BY <3>1, <3>2, <3>3
    <2> HIDE DEF P, R, D, u, v
    <2>4. Follows(D, P, 4, 5) /\ ~Reads(D[1])
      BY <1>2, <2>1, <2>3, MoreFollows
    <2>5. Len(R) + 3 = 5 /\ Varying(R[2]) /\ Reads(R[2]) /\ R[2].f = "hist"
      BY <1>2, <2>3 DEF Ending
    <2> QED
      BY <1>1, <1>2, <1>4, <2>1, <2>2, <2>3, <2>4, <2>5, ThreeFits DEF P, D
  <1>6. CASE msg.cdf # Bits(1)
    <2>1. R = <<v>> /\ D = <<Time>>
      BY <1>3, <1>6, SmallConcat DEF If
    <2>2. P = <<Fixed("evcode"), Fixed("cdf"), v>>
          /\ P = <<Fixed("evcode"), Fixed("cdf")>> \o R
      <3>1. <<Fixed("evcode"), Fixed("cdf")>> \o <<v>> = <<Fixed("evcode"), Fixed("cdf"), v>>
        BY AppendedThree
      <3>2. <<Fixed("evcode"), Fixed("cdf"), v>> \in Seq(Step)
        BY <1>2
      <3>3. <<Fixed("evcode"), Fixed("cdf"), v>> \o << >> = <<Fixed("evcode"), Fixed("cdf"), v>>
        BY <3>2, ConcatEmptySeq
      <3> QED
        BY <1>1, <1>6, <2>1, <3>1, <3>3 DEF If
    <2>3. P \in Seq(Step) /\ Len(P) = 3 /\ R \in Seq(Step) /\ Len(R) = 1
      <3> DEFINE K == <<Fixed("evcode"), Fixed("cdf"), v>>
                 N == <<v>>
      <3> HIDE DEF u, v
      <3>1. K \in Seq(Step) /\ Len(K) = 3
        BY <1>2
      <3>2. N \in Seq(Step) /\ Len(N) = 1
        BY <1>2
      <3>3. P = K /\ R = N
        BY <2>1, <2>2
      <3> HIDE DEF P, R, K, N
      <3> QED
        BY <3>1, <3>2, <3>3
    <2> HIDE DEF P, R, D, u, v
    <2>4. Follows(D, P, 4, 4) /\ ~Reads(D[1])
      <3>1. Len(P) \in {3, 4} /\ 3 + 1 = 4
        BY <2>3
      <3>2. Follows(<<Time>>, P, 4, Len(P) + 1) /\ ~Reads(<<Time>>[1])
        BY <2>3, <3>1, MoreFollows
      <3> QED
        BY <2>1, <2>3, <3>1, <3>2
    <2>5. Len(R) + 3 = 4 /\ Len(R) # 2
      BY <2>3
    <2> QED
      BY <1>1, <1>2, <1>4, <2>1, <2>2, <2>3, <2>4, <2>5, ThreeFits DEF P, D
  <1> QED
    BY <1>5, <1>6

\* ICT is read as it is written, with one word of data or two; a second word that was not written
\* is not read.
LEMMA IctFits ==
  ASSUME msg.tcode = TCODE.ICT, \A i \in 1 .. Len(EncodeBody(msg)) : Reads(EncodeBody(msg)[i])
  PROVE  BodyFits
  <1> DEFINE x == Fixed("cksrc")
             y == Fixed("ckdf")
             v == Req("ckdata0")
             u == Req("ckdata1")
             R == <<v, u>>
             P == EncodeBody(msg)
             D == DecodeMore("ckdata0", msg)
  <1>1. /\ v.f = "ckdata0" /\ u.f = "ckdata1" /\ u.do = "req" /\ v.do = "req" /\ Ending(v)
        /\ Reads(v) /\ Reads(u) /\ Varying(u) /\ x \in Step /\ y \in Step /\ v \in Step /\ u \in Step
        /\ Unsupported \in Step /\ ~Reads(Unsupported)
    BY EndingFields, Members, Named, ReadsOf
  <1>2. /\ "cksrc" \in FixedFields \ {"tcode", "rcode"}
        /\ "ckdf" \in FixedFields \ {"tcode", "rcode"}
    BY Members
  <1>3. P = <<x, y, v>> \o (IF msg.ckdf \in {Bits(0), Bits(1)} THEN <<u>> ELSE <<Unsupported>>)
        /\ DecodeBody(msg.tcode) = <<x, y, v>>
    BY TcodesDiffer DEF EncodeBody, DecodeBody, EncodeIct
  <1>4. msg.ckdf \in {Bits(0), Bits(1)}
    <2> SUFFICES ASSUME msg.ckdf \notin {Bits(0), Bits(1)} PROVE FALSE
      OBVIOUS
    <2>1. P = <<x, y, v, Unsupported>>
      BY <1>3, AppendedFour
    <2>2. Len(P) = 4 /\ P[4] = Unsupported
      BY <1>1, <2>1
    <2>3. 4 \in 1 .. Len(P)
      BY <2>2
    <2> QED
      BY <1>1, <2>2, <2>3
  <1>5. P = <<x, y, v, u>> /\ P = <<x, y>> \o R
    BY <1>3, <1>4, AppendedFour
  <1>6. P \in Seq(Step) /\ Len(P) = 4 /\ P[4] = u /\ R \in Seq(Step) /\ Len(R) = 2 /\ R[2] = u
    BY <1>1, <1>5
  <1>7. D = If(msg.ckdf # Bits(0), <<Consume, u>>) \o <<Time>>
    BY DEF DecodeMore
  <1>8. Follows(D, P, 4, 5) /\ ~Reads(D[1])
    <2>1. CASE msg.ckdf = Bits(0)
      <3>1. D = <<Time>>
        BY <1>7, <2>1, SmallConcat DEF If
      <3>2. TrailStep(u)
        BY <1>1, <2>1 DEF TrailStep
      <3> HIDE DEF P, D, u
      <3>3. Len(P) \in {3, 4} /\ TrailStep(P[4]) /\ 4 + 1 = 5
        BY <1>6, <3>2
      <3>4. Follows(<<Time>>, P, 4, Len(P) + 1) /\ ~Reads(<<Time>>[1])
        BY <1>6, <3>3, MoreFollows
      <3> QED
        BY <1>6, <3>1, <3>3, <3>4
    <2>2. CASE msg.ckdf # Bits(0)
      <3>1. D = <<Consume, u, Time>>
        BY <1>7, <2>2, SmallConcat DEF If
      <3>2. Ending(u)
        BY <2>2, EndingFields
      <3> HIDE DEF P, D, u
      <3> QED
        BY <1>1, <1>6, <3>1, <3>2, MoreFollows
    <2> QED
      BY <2>1, <2>2
  <1>9. Len(R) + 3 = 5 /\ Varying(R[2]) /\ Reads(R[2]) /\ R[2].f = "ckdata1"
    BY <1>1, <1>6
  <1>10. R \in { <<v, s>> : s \in Step }
    BY <1>1
  <1> HIDE DEF P, D, R, u, v
  <1> QED
    BY <1>1, <1>2, <1>3, <1>5, <1>6, <1>8, <1>9, <1>10, ThreeFits DEF P, D, R

\* The body of every message that can be encoded.
LEMMA BodiesFit ==
  ASSUME known(msg), msg.tcode # TCODE.Idle,
         \A i \in 1 .. Len(EncodeBody(msg)) : Reads(EncodeBody(msg)[i])
  PROVE  BodyFits
  <1> DEFINE arms == {TCODE.Ownership, TCODE.Error, TCODE.ResourceFull, TCODE.RepeatBranch,
                      TCODE.ProgTraceCorrelation, TCODE.ICT}
  <1>1. CASE msg.tcode \in arms
    BY <1>1, ErrorFits, OwnershipFits, ResourceFits, RepeatFits, CorrelationFits, IctFits
  <1>2. CASE IsCommon(msg.tcode)
    BY <1>2, CommonFits
  <1>3. CASE msg.tcode \notin arms /\ ~IsCommon(msg.tcode)
    <2>1. EncodeBody(msg) = <<Unsupported>>
      BY <1>3 DEF EncodeBody
    <2>2. Len(<<Unsupported>>) = 1 /\ <<Unsupported>>[1] = Unsupported /\ 1 \in 1 .. 1
      OBVIOUS
    <2>3. ~Reads(Unsupported)
      BY ReadsOf
    <2>4. Reads(<<Unsupported>>[1])
      BY <2>1, <2>2
    <2> QED
      BY <2>2, <2>3, <2>4
  <1> QED
    BY <1>1, <1>2, <1>3

\* Fields in front of a list that goes on.
LEMMA ContinuesShift ==
  ASSUME NEW P \in Seq(Step), \A i \in 1 .. Len(P) : Continues(P, i), NEW f \in FixedFields,
         f # "rcode"
  PROVE  LET Q == <<Fixed(f)>> \o P
         IN  /\ Q \in Seq(Step) /\ Len(Q) = 1 + Len(P) /\ Q[1] = Fixed(f)
             /\ \A i \in 1 .. Len(P) : Q[i + 1] = P[i]
             /\ \A i \in 1 .. Len(Q) : Continues(Q, i)
  <1> DEFINE x == Fixed(f)
             H == <<x>>
             Q == H \o P
  <1>1. x \in Step /\ Reads(x) /\ x.f = f /\ f \notin {"timestamp", "icnt", "ckdata0"}
    BY Members, Named, ReadsOf, FieldKinds
  <1> HIDE DEF x
  <1>2. /\ Q \in Seq(Step) /\ Len(Q) = 1 + Len(P) /\ Q[1] = x
        /\ \A i \in 1 .. Len(P) : Q[i + 1] = P[i]
    BY <1>1, HeadOf
  <1>3. H \in Seq(Step) /\ Len(H) = 1 /\ Len(P) \in Nat
    BY <1>1
  <1> HIDE DEF H
  <1>4. Continues(Q, 1)
    <2>1. ~Closing(x, msg.tcode) \/ x.f = "tcode"
      BY <1>1, ClosingNames
    <2> HIDE DEF Q
    <2> QED
      BY <1>1, <1>2, <2>1 DEF Continues
  <1>5. ASSUME NEW i \in 1 .. Len(P) PROVE Continues(Q, i + 1)
    <2>1. Q[i + 1] = P[i] /\ Continues(P, i) /\ i \in Nat /\ i + 1 \in Nat
      BY <1>2
    <2> DEFINE D == DecodeMore(P[i].f, msg)
    <2> HIDE DEF D
    <2>2. ASSUME Closing(P[i], msg.tcode) /\ P[i].f # "tcode"
          PROVE  Follows(D, Q, (i + 1) + 1, Len(Q) + 1) /\ (Reads(D[1]) <=> ~Varying(P[i]))
      <3>1. Follows(D, P, i + 1, Len(P) + 1) /\ (Reads(D[1]) <=> ~Varying(P[i]))
        BY <2>1, <2>2 DEF Continues, D
      <3>2. Len(P) + 1 \in Nat
        BY <1>3
      <3>3. Follows(D, Q, Len(H) + (i + 1), Len(H) + (Len(P) + 1))
        BY <1>3, <2>1, <3>1, <3>2, FollowsShift
      <3>4. Len(H) + (i + 1) = (i + 1) + 1 /\ Len(H) + (Len(P) + 1) = Len(Q) + 1
        BY <1>2, <1>3, <2>1
      <3> HIDE DEF Q
      <3> QED
        BY <3>1, <3>3, <3>4
    <2> HIDE DEF Q
    <2> QED
      BY <2>1, <2>2 DEF Continues, D
  <1>6. ASSUME NEW i \in 1 .. Len(Q) PROVE Continues(Q, i)
    <2>1. i = 1 \/ (i - 1 \in 1 .. Len(P) /\ (i - 1) + 1 = i)
      BY <1>2, <1>3
    <2> HIDE DEF Q
    <2>2. CASE i = 1
      BY <1>4, <2>2
    <2>3. CASE i - 1 \in 1 .. Len(P) /\ (i - 1) + 1 = i
      <3> DEFINE k == i - 1
      <3>1. k \in 1 .. Len(P) /\ k + 1 = i
        BY <2>3
      <3> HIDE DEF k
      <3>2. Continues(Q, k + 1)
        BY <1>5, <3>1
      <3> QED
        BY <3>1, <3>2
    <2> QED
      BY <2>1, <2>2, <2>3
  <1> QED
    BY <1>2, <1>6 DEF x, H

\* The last step that is read for certain.
LastRead == IF hwcfg.ts_bits > 0 THEN Len(Plan) ELSE Len(Plan) + 1

\* What the decoder does after field j is read.
GoesOn(j) == LET D == DecodeMore(Plan[j].f, msg)
             IN  Follows(D, Plan, j + 1, LastRead) /\ (Reads(D[1]) <=> ~Varying(Plan[j]))

\* The plan up to the timestamp.
LEMMA PlanParts ==
  ASSUME ArgsOK, known(msg), msg.tcode # TCODE.Idle
  PROVE  LET A == If(hwcfg.src_bits > 0, <<Fixed("src")>>)
         IN  /\ Plan = (<<Fixed("tcode")>> \o (A \o EncodeBody(msg))) \o EncodeTime(msg)
             /\ DecodeMore("tcode", msg) = A \o DecodeBody(msg.tcode)
             /\ A \in Seq(Step) /\ A \o EncodeBody(msg) \in Seq(Step)
  <1> DEFINE A == If(hwcfg.src_bits > 0, <<Fixed("src")>>)
             B == EncodeBody(msg)
             T == EncodeTime(msg)
             X == <<Fixed("tcode")>>
             AB == A \o B
  <1>1. Plan = X \o (AB \o T)
    BY DEF Plan, EncodeSteps, If
  <1>2. A \in Seq(Step) /\ B \in Seq(Step) /\ T \in Seq(Step) /\ X \in Seq(Step)
    BY EncodeLists, Members DEF If
  <1> HIDE DEF A, B, T, X
  <1>3. AB \in Seq(Step)
    BY <1>2
  <1> HIDE DEF AB
  <1>4. (X \o AB) \o T = X \o (AB \o T)
    BY <1>2, <1>3, Associates
  <1>5. DecodeMore("tcode", msg) = A \o DecodeBody(msg.tcode)
    BY DEF DecodeMore, A
  <1> QED
    BY <1>1, <1>2, <1>3, <1>4, <1>5 DEF A, B, T, X, AB

\* All but its last step, which is the timestamp.
LEMMA TimeParts ==
  /\ EncodeTime(msg) \in Seq(Step) /\ Len(EncodeTime(msg)) = IF hwcfg.ts_bits = 0 THEN 0 ELSE 1
  /\ hwcfg.ts_bits = 0 => EncodeTime(msg) = << >>
  /\ hwcfg.ts_bits # 0 =>
        EncodeTime(msg)[1] = IF is_sync(msg.tcode) THEN Req("timestamp") ELSE Var("timestamp")
  /\ \A k \in 1 .. Len(EncodeTime(msg)) : TrailStep(EncodeTime(msg)[k]) /\ k = 1
  <1>1. /\ Req("timestamp") \in Step /\ Var("timestamp") \in Step
        /\ TrailStep(Req("timestamp")) /\ TrailStep(Var("timestamp"))
    BY Members, Named DEF TrailStep
  <1> DEFINE s == IF is_sync(msg.tcode) THEN Req("timestamp") ELSE Var("timestamp")
             T == EncodeTime(msg)
  <1>2. s \in Step /\ TrailStep(s)
    BY <1>1
  <1>3. T = IF hwcfg.ts_bits = 0 THEN << >> ELSE <<s>>
    BY DEF EncodeTime
  <1> HIDE DEF s, T
  <1>4. CASE hwcfg.ts_bits = 0
    <2>1. T = << >>
      BY <1>3, <1>4
    <2> QED
      BY <1>4, <2>1 DEF T
  <1>5. CASE hwcfg.ts_bits # 0
    <2>1. T = <<s>>
      BY <1>3, <1>5
    <2>2. T \in Seq(Step) /\ Len(T) = 1 /\ T[1] = s /\ \A k \in 1 .. Len(T) : k = 1
      BY <1>2, <2>1
    <2> QED
      BY <1>2, <1>5, <2>2 DEF T, s
  <1> QED
    BY <1>4, <1>5

\* The plan without its timestamp.
LEMMA FrontFits ==
  ASSUME ArgsOK, known(msg), msg.tcode # TCODE.Idle,
         \A i \in 1 .. Len(EncodeBody(msg)) : Reads(EncodeBody(msg)[i])
  PROVE  LET R == If(hwcfg.src_bits > 0, <<Fixed("src")>>) \o EncodeBody(msg)
             Q == <<Fixed("tcode")>> \o R
         IN  /\ R \in Seq(Step) /\ Q \in Seq(Step) /\ Len(Q) > 1 /\ Q[1] = Fixed("tcode")
             /\ \A i \in 1 .. Len(Q) : Continues(Q, i)
             /\ Varying(Q[Len(Q)])
             /\ LET D == DecodeMore("tcode", msg)
                IN  Follows(D, Q, 2, Len(Q) + 1) /\ Reads(D[1])
  <1> DEFINE A == If(hwcfg.src_bits > 0, <<Fixed("src")>>)
             B == EncodeBody(msg)
             R == A \o B
             Q == <<Fixed("tcode")>> \o R
             D == DecodeMore("tcode", msg)
  <1>1. BodyFits
    BY BodiesFit
  <1>2. /\ B \in Seq(Step) /\ Follows(DecodeBody(msg.tcode), B, 1, Len(B) + 1)
        /\ Reads(DecodeBody(msg.tcode)[1]) /\ Varying(B[Len(B)]) /\ Len(B) # 0
        /\ \A i \in 1 .. Len(B) : Continues(B, i)
    BY <1>1 DEF BodyFits, Begins
  <1>3. D = A \o DecodeBody(msg.tcode)
    BY PlanParts
  <1>4. "src" \in FixedFields /\ "tcode" \in FixedFields
    BY Members
  <1>5. /\ R \in Seq(Step) /\ Follows(D, R, 1, Len(R) + 1) /\ Reads(D[1])
        /\ Varying(R[Len(R)]) /\ Len(R) # 0
    <2> DEFINE E == DecodeBody(msg.tcode)
    <2> HIDE DEF B, E
    <2>1. Follows(E, B, 1, Len(B) + 1) /\ Reads(E[1]) /\ B \in Seq(Step)
          /\ Varying(B[Len(B)]) /\ Len(B) # 0
      BY <1>2 DEF E
    <2>2. /\ A \o B \in Seq(Step) /\ Follows(A \o E, A \o B, 1, Len(A \o B) + 1)
          /\ Reads((A \o E)[1]) /\ Varying((A \o B)[Len(A \o B)]) /\ Len(A \o B) # 0
      BY <1>4, <2>1, FollowsIf
    <2>3. D = A \o E
      BY <1>3 DEF E
    <2> HIDE DEF A, D
    <2> QED
      BY <2>2, <2>3
  <1>6. \A i \in 1 .. Len(R) : Continues(R, i)
    <2> HIDE DEF B
    <2>1. CASE hwcfg.src_bits > 0
      <3>1. R = <<Fixed("src")>> \o B
        BY <2>1 DEF If
      <3> QED
        BY <1>2, <1>4, <3>1, ContinuesShift
    <2>2. CASE ~(hwcfg.src_bits > 0)
      <3>1. R = B
        BY <1>2, <2>2, ConcatEmptySeq DEF If
      <3> QED
        BY <1>2, <3>1
    <2> QED
      BY <2>1, <2>2
  <1> HIDE DEF R, D, A, B
  <1>7. /\ Q \in Seq(Step) /\ Len(Q) = 1 + Len(R) /\ Q[1] = Fixed("tcode")
        /\ \A i \in 1 .. Len(R) : Q[i + 1] = R[i]
        /\ \A i \in 1 .. Len(Q) : Continues(Q, i)
    BY <1>4, <1>5, <1>6, ContinuesShift
  <1>8. Len(R) \in Nat /\ Len(R) \in 1 .. Len(R)
    BY <1>5
  <1>9. Follows(D, Q, 2, Len(Q) + 1)
    <2> DEFINE X == <<Fixed("tcode")>>
    <2>1. X \in Seq(Step) /\ Len(X) = 1
      BY <1>4, Members
    <2> HIDE DEF X
    <2>2. Follows(D, X \o R, Len(X) + 1, Len(X) + (Len(R) + 1))
      <3>1. Len(R) + 1 \in Nat
        BY <1>8
      <3> QED
        BY <1>5, <2>1, <3>1, FollowsShift
    <2>3. Q = X \o R
      BY DEF X
    <2>4. Len(X) + 1 = 2 /\ Len(X) + (Len(R) + 1) = Len(Q) + 1
      BY <1>7, <1>8, <2>1
    <2> HIDE DEF Q
    <2> QED
      BY <2>2, <2>3, <2>4
  <1>10. Len(Q) > 1 /\ Q[Len(Q)] = R[Len(R)]
    <2> HIDE DEF Q
    <2>1. Len(Q) = Len(R) + 1
      BY <1>7, <1>8
    <2> QED
      BY <1>5, <1>7, <1>8, <2>1
  <1> HIDE DEF Q
  <1>11. Varying(Q[Len(Q)])
    BY <1>5, <1>10
  <1> QED
    BY <1>5, <1>7, <1>9, <1>10, <1>11 DEF Q, R, D, A, B

\* The steps of two lists in a row.
LEMMA ConcatParts ==
  ASSUME NEW P \in Seq(Step), NEW T \in Seq(Step)
  PROVE  /\ Len(P \o T) = Len(P) + Len(T) /\ Len(P) \in Nat /\ Len(T) \in Nat
         /\ \A k \in 1 .. Len(P) : (P \o T)[k] = P[k]
         /\ \A k \in 1 .. Len(P) + Len(T) : ~(k <= Len(P)) =>
               k - Len(P) \in 1 .. Len(T) /\ (P \o T)[k] = T[k - Len(P)]
  BY ConcatProperties

\* Every message the encoder knows: the decoder's list follows the plan of the encoder, with its
\* bytes ending at the same steps.
LEMMA PlanFits ==
  ASSUME ArgsOK, known(msg), msg.tcode # TCODE.Idle, \A i \in 1 .. Len(Plan) : Reads(Plan[i])
  PROVE  /\ Plan[1] = Fixed("tcode") /\ Len(Plan) > 1
         /\ LET D == DecodeMore("tcode", msg)
            IN  Follows(D, Plan, 2, LastRead) /\ Reads(D[1])
         /\ \A j \in 1 .. Len(Plan) :
               /\ Closing(Plan[j], msg.tcode) /\ Plan[j].f # "tcode" => GoesOn(j)
               /\ Closed(j) <=> Varying(Plan[j])
               /\ Plan[j].f = "timestamp" => hwcfg.ts_bits > 0 /\ j = Len(Plan)
         /\ hwcfg.ts_bits > 0 =>
               Plan[Len(Plan)] = IF is_sync(msg.tcode) THEN Req("timestamp") ELSE Var("timestamp")
  <1> DEFINE R == If(hwcfg.src_bits > 0, <<Fixed("src")>>) \o EncodeBody(msg)
             Q == <<Fixed("tcode")>> \o R
             T == EncodeTime(msg)
             D == DecodeMore("tcode", msg)
  <1>1. Plan = Q \o T /\ R \in Seq(Step)
    BY PlanParts
  <1>2. /\ T \in Seq(Step) /\ Len(T) = IF hwcfg.ts_bits = 0 THEN 0 ELSE 1
        /\ hwcfg.ts_bits = 0 => T = << >>
        /\ hwcfg.ts_bits # 0 =>
              T[1] = IF is_sync(msg.tcode) THEN Req("timestamp") ELSE Var("timestamp")
        /\ \A k \in 1 .. Len(T) : TrailStep(T[k]) /\ k = 1
    BY TimeParts
  <1>3. hwcfg.ts_bits \in Nat
    BY DEF ArgsOK
  <1> HIDE DEF T
  <1>4. Q \in Seq(Step) /\ EncodeBody(msg) \in Seq(Step)
    <2>1. Fixed("tcode") \in Step
      BY Members
    <2> HIDE DEF R
    <2>2. Q \in Seq(Step)
      BY <1>1, <2>1, HeadOf
    <2> QED
      BY <2>2, EncodeLists
  <1>5. /\ Len(Plan) = Len(Q) + Len(T) /\ Len(Q) \in Nat /\ Len(T) \in Nat
        /\ \A i \in 1 .. Len(Q) : Plan[i] = Q[i]
        /\ \A i \in 1 .. Len(Plan) : ~(i <= Len(Q)) =>
              i - Len(Q) \in 1 .. Len(T) /\ Plan[i] = T[i - Len(Q)]
    <2> HIDE DEF Q
    <2>1. /\ Len(Q \o T) = Len(Q) + Len(T) /\ Len(Q) \in Nat /\ Len(T) \in Nat
          /\ \A k \in 1 .. Len(Q) : (Q \o T)[k] = Q[k]
          /\ \A k \in 1 .. Len(Q) + Len(T) : ~(k <= Len(Q)) =>
                k - Len(Q) \in 1 .. Len(T) /\ (Q \o T)[k] = T[k - Len(Q)]
      BY <1>2, <1>4, ConcatParts
    <2> DEFINE K == Q \o T
    <2> HIDE DEF K
    <2>2. Plan = K
      BY <1>1 DEF K
    <2> QED
      BY <2>1, <2>2 DEF K
  <1>6. \A i \in 1 .. Len(EncodeBody(msg)) : Reads(EncodeBody(msg)[i])
    <2> DEFINE A == If(hwcfg.src_bits > 0, <<Fixed("src")>>)
               B == EncodeBody(msg)
    <2>1. A \in Seq(Step) /\ Len(A) \in Nat
      BY Members DEF If
    <2>2. B \in Seq(Step) /\ R = A \o B
      BY <1>4
    <2> HIDE DEF A, B, R
    <2>3. Len(R) = Len(A) + Len(B) /\ \A i \in 1 .. Len(B) : R[Len(A) + i] = B[i]
      BY <2>1, <2>2, ConcatProperties
    <2>4. Len(Q) = 1 + Len(R) /\ \A i \in 1 .. Len(R) : Q[i + 1] = R[i]
      BY <1>1, Members, HeadOf
    <2> HIDE DEF Q
    <2>5. ASSUME NEW i \in 1 .. Len(B) PROVE Reads(B[i])
      <3>1. Len(B) \in Nat /\ Len(A) + i \in 1 .. Len(R) /\ (Len(A) + i) + 1 \in 1 .. Len(Q)
        BY <2>1, <2>2, <2>3, <2>4
      <3>2. (Len(A) + i) + 1 \in 1 .. Len(Plan)
        BY <1>5, <3>1
      <3>3. Plan[(Len(A) + i) + 1] = B[i]
        BY <1>5, <2>3, <2>4, <3>1
      <3> QED
        BY <3>2, <3>3
    <2> QED
      BY <2>5 DEF B
  <1>7. /\ Len(Q) > 1 /\ Q[1] = Fixed("tcode")
        /\ \A i \in 1 .. Len(Q) : Continues(Q, i)
        /\ Varying(Q[Len(Q)])
        /\ Follows(D, Q, 2, Len(Q) + 1) /\ Reads(D[1])
    BY <1>6, FrontFits
  <1> HIDE DEF Q, D
  <1>8. LastRead = Len(Q) + 1
    BY <1>2, <1>3, <1>5 DEF LastRead
  <1>9. \A L, a : Follows(L, Q, a, Len(Q) + 1) => Follows(L, Plan, a, LastRead)
    BY <1>1, <1>2, <1>4, <1>8, FollowsRight
  <1>10. Plan[1] = Fixed("tcode") /\ Len(Plan) > 1
    <2>1. 1 \in 1 .. Len(Q)
      BY <1>5, <1>7
    <2> QED
      BY <1>5, <1>7, <2>1
  <1>11. Varying(Plan[Len(Plan)])
    <2>1. CASE hwcfg.ts_bits = 0
      <3>1. Len(Plan) = Len(Q) /\ Len(Q) \in 1 .. Len(Q)
        BY <1>2, <1>5, <1>7, <2>1
      <3> QED
        BY <1>5, <1>7, <3>1
    <2>2. CASE hwcfg.ts_bits # 0
      <3>1. Len(Plan) \in 1 .. Len(Plan) /\ ~(Len(Plan) <= Len(Q)) /\ Len(Plan) - Len(Q) = 1
        BY <1>2, <1>5, <1>7, <2>2
      <3>2. Plan[Len(Plan)] = T[1]
        BY <1>5, <3>1
      <3> QED
        BY <1>2, <2>2, <3>2, Named
    <2> QED
      BY <2>1, <2>2
  <1>12. ASSUME NEW j \in 1 .. Len(Plan), Closing(Plan[j], msg.tcode), Plan[j].f # "tcode"
         PROVE  GoesOn(j)
    <2>1. j <= Len(Q)
      <3> SUFFICES ASSUME ~(j <= Len(Q)) PROVE FALSE
        OBVIOUS
      <3>1. Plan[j] = T[1] /\ 1 \in 1 .. Len(T)
        BY <1>2, <1>5
      <3>2. hwcfg.ts_bits # 0
        BY <1>2, <3>1
      <3>3. Plan[j].f = "timestamp" /\ Reads(Plan[j])
        BY <1>2, <3>1, <3>2, Named, ReadsOf
      <3> QED
        BY <1>12, <3>3, ClosingNames
    <2>2. j \in 1 .. Len(Q)
      BY <1>5, <2>1
    <2>3. Plan[j] = Q[j] /\ Continues(Q, j)
      BY <1>5, <1>7, <2>2
    <2> QED
      BY <1>9, <1>12, <2>3 DEF Continues, GoesOn
  <1>13. ASSUME NEW j \in 1 .. Len(Plan), Plan[j].f = "timestamp"
         PROVE  hwcfg.ts_bits > 0 /\ j = Len(Plan)
    <2>1. ~(j <= Len(Q))
      <3> SUFFICES ASSUME j <= Len(Q) PROVE FALSE
        OBVIOUS
      <3>1. j \in 1 .. Len(Q)
        BY <1>5
      <3>2. Plan[j] = Q[j] /\ Continues(Q, j)
        BY <1>5, <1>7, <3>1
      <3> QED
        BY <1>13, <3>2 DEF Continues
    <2> QED
      BY <1>2, <1>3, <1>5, <2>1
  <1>14. hwcfg.ts_bits > 0 =>
            Plan[Len(Plan)] = IF is_sync(msg.tcode) THEN Req("timestamp") ELSE Var("timestamp")
    <2> SUFFICES ASSUME hwcfg.ts_bits > 0
                 PROVE  Plan[Len(Plan)] = IF is_sync(msg.tcode) THEN Req("timestamp")
                                                               ELSE Var("timestamp")
      OBVIOUS
    <2>1. hwcfg.ts_bits # 0
      OBVIOUS
    <2>2. Len(Plan) \in 1 .. Len(Plan) /\ ~(Len(Plan) <= Len(Q)) /\ Len(Plan) - Len(Q) = 1
      BY <1>2, <1>5, <2>1
    <2> QED
      BY <1>2, <1>5, <2>1, <2>2
  <1>15. ASSUME NEW j \in 1 .. Len(Plan) PROVE Closed(j) <=> Varying(Plan[j])
    BY <1>11 DEF Closed, Varies, Varying
  <1> QED
    BY <1>7, <1>9, <1>10, <1>12, <1>13, <1>14, <1>15 DEF D

(***************************************************************************)
(* Decoding: what is taken, what is left and what has been read.           *)
(***************************************************************************)
\* The decoder is in front of step j of a message that is complete, and has what
\* the steps before wrote.
ReadTo(off, j) ==
    /\ FitsStream /\ Encoded(off) /\ j \in 1 .. Len(Plan) + 1
    /\ taken <= size /\ (eom <=> taken = size) /\ "timestamp" \in DOMAIN got
    /\ \A i \in 1 .. j - 1 : \/ TrailStep(Plan[i])
                             \/ Plan[i].f \in DOMAIN got /\ got[Plan[i].f] = msg[Plan[i].f]

\* In front of the TCODE.
AtTcode(off, j) ==
    /\ j = 1
    /\ \/ todo = <<Consume, Fixed("tcode")>> /\ Between(off, j)
       \/ todo = <<Fixed("tcode")>> /\ Inside(off, j)

\* The fields before one of fixed width are of fixed width.
AtField(off, j) ==
    /\ msg.tcode # TCODE.Idle /\ j > 1
    /\ Follows(todo, Plan, j, LastRead)
    /\ Reads(todo[1]) => Inside(off, j)
    /\ ~Reads(todo[1]) => Between(off, j)
    /\ todo[1].do = "fixed" => \A i \in 1 .. j - 1 : ~Varying(Plan[i])

\* Behind the TCODE of an idle message, which is over.
AtIdle(off, j) ==
    msg.tcode = TCODE.Idle /\ todo = <<IdleEnds>> /\ j = Len(Plan) + 1 /\ Between(off, j)

\* Only steps are left that the decoder may skip, and the last bytes taken are
\* those of one.
LastGroup(off, j) == /\ bit_offset = 0 /\ consumed_bytes > 0 /\ j > 2
                     /\ TrailStep(Plan[j - 1])
                     /\ (taken - consumed_bytes) * MDO_BITS = off[j - 1]

\* Behind the fields, with steps left that may find the end of the message.
AtRest(off, j) ==
    /\ msg.tcode # TCODE.Idle /\ j > 1 /\ Between(off, j)
    /\ \A k \in j .. Len(Plan) : TrailStep(Plan[k])
    /\ \/ hwcfg.ts_bits = 0 /\ todo = <<Skip>>
       \/ /\ hwcfg.ts_bits > 0 /\ todo = <<Skip, Req("timestamp")>>
          /\ eom => LastGroup(off, j)
       \/ hwcfg.ts_bits > 0 /\ todo = <<Req("timestamp")>> /\ eom /\ LastGroup(off, j)

\* A message with a time has it read.
TimeRead == \A i \in 1 .. Len(Plan) :
               Plan[i].f = "timestamp" => got["timestamp"] = msg["timestamp"]

\* All is read.
AtEnd(j) == /\ eom /\ todo = << >> /\ TimeRead
            /\ \A k \in j .. Len(Plan) : TrailStep(Plan[k])

\* The decoder of a complete message is at one of these places.
Decoding == \E off, j : /\ ReadTo(off, j)
                        /\ \/ /\ got["timestamp"] = {}
                              /\ \/ AtTcode(off, j) \/ AtField(off, j)
                                 \/ AtIdle(off, j) \/ AtRest(off, j)
                           \/ AtEnd(j)

\* How decoding ends.
Result ==
    \/ rc = "stream_truncate" /\ given \in Nat /\ given < size
    \/ /\ rc = "ok" /\ taken = size /\ size <= given /\ TimeRead
       /\ "timestamp" \in DOMAIN got
       /\ \A i \in 1 .. Len(Plan) : \/ TrailStep(Plan[i])
                                    \/ /\ Plan[i].f \in DOMAIN got
                                       /\ got[Plan[i].f] = msg[Plan[i].f]

-----------------------------------------------------------------------------
\* The sign takes at least one bit.
LEMMA VaoPositive ==
  ASSUME NEW v \in SUBSET (0 .. WordBits - 1), NEW off \in Nat
  PROVE  VaoBits(v, off) # 0
  <1> DEFINE least == IF BitLength(v) < WordBits THEN BitLength(v) + 1
                      ELSE 1 + BitLength((0 .. WordBits - 1) \ v)
             bytes == (off + least + MDO_BITS - 1) \div MDO_BITS
  <1>1. WordBits \in Nat /\ WordBits # 0 /\ MDO_BITS \in Nat /\ MDO_BITS # 0
    BY CodecAssumption
  <1>2. BitLength(v) \in Nat /\ BitLength((0 .. WordBits - 1) \ v) \in Nat
    BY <1>1, BitLengthOK
  <1>3. least \in Nat /\ least # 0
    BY <1>1, <1>2
  <1> HIDE DEF least
  <1>4. off + least \in Nat /\ bytes = Bytes(off + least)
    BY <1>3 DEF Bytes
  <1>5. bytes \in Nat /\ off + least <= bytes * MDO_BITS
    BY <1>4, Begun
  <1>6. bytes * MDO_BITS \in Nat
    BY <1>1, <1>5
  <1>7. VaoBits(v, off) = IF bytes * MDO_BITS - off > WordBits THEN WordBits
                                                              ELSE bytes * MDO_BITS - off
    BY DEF VaoBits, least, bytes
  <1> HIDE DEF bytes
  <1> QED
    BY <1>1, <1>3, <1>5, <1>6, <1>7

\* A field that is always there has bits, and a value has when it is not 0.
LEMMA StepPositive ==
  ASSUME ArgsOK, NEW s \in Step, Reads(s), NEW p \in Nat
  PROVE  /\ s.do \in {"req", "vao"} \/ s = Fixed("tcode") => WidthAt(s, p) # 0
         /\ s.do = "var" /\ WidthAt(s, p) = 0 => msg[s.f] = {}
  <1>1. msg[s.f] \in SUBSET (0 .. WordBits - 1)
    BY StepKinds DEF ArgsOK
  <1>2. ASSUME msg[s.f] # {} PROVE BitLength(msg[s.f]) # 0
    <2>1. PICK b \in msg[s.f] : TRUE
      BY <1>2
    <2>2. BitLength(msg[s.f]) \in Nat /\ b \in Nat /\ b < BitLength(msg[s.f])
      BY <1>1, <2>1, BitLengthIs, Constants
    <2> QED
      BY <2>2
  <1>3. CASE s.do = "req"
    BY <1>2, <1>3 DEF WidthAt, Fixed
  <1>4. CASE s.do = "vao"
    BY <1>1, <1>4, VaoPositive DEF WidthAt, Fixed
  <1>5. CASE s.do = "var"
    BY <1>2, <1>5 DEF WidthAt, Fixed
  <1>6. CASE s.do = "fixed"
    BY <1>6 DEF WidthAt, Fixed, FixedWidth, FixedBits
  <1> QED
    BY <1>3, <1>4, <1>5, <1>6 DEF Reads

\* A step that ends a byte follows every step.
LEMMA FirstClosed ==
  ASSUME Len(Plan) \in Nat, NEW j \in 1 .. Len(Plan)
  PROVE  \E k \in j .. Len(Plan) : Closed(k) /\ \A i \in j .. k - 1 : ~Closed(i)
  <1> DEFINE n == Len(Plan)
             S == { k \in j .. n : Closed(k) }
  <1>1. S \subseteq Nat /\ S # {}
    <2>1. n \in j .. n /\ Closed(n)
      BY DEF Closed
    <2> QED
      BY <2>1
  <1>2. PICK k \in S : \A y \in S : k <= y
    BY <1>1, LeastNat
  <1>3. ASSUME NEW i \in j .. k - 1 PROVE ~Closed(i)
    <2>1. i \in j .. n /\ ~(k <= i)
      BY <1>2
    <2> QED
      BY <1>2, <2>1
  <1> QED
    BY <1>2, <1>3

\* The bytes of the next field are consumed, or there are too few.
LEMMA ConsumeGoes ==
  ASSUME IInv, phase = "decode", size \in Nat, NEW off, NEW j \in 1 .. Len(Plan),
         ReadTo(off, j), Between(off, j), off[j] # off[j + 1]
  PROVE  /\ ~eom
         /\ ConsumeFails # "none" => ConsumeFails = "stream_truncate" /\ given < size
         /\ ConsumeFails = "none" /\ Consumes =>
               \E k : /\ k \in j .. Len(Plan) /\ Closed(k) /\ \A i \in j .. k - 1 : ~Closed(i)
                      /\ taken' * MDO_BITS = off[k + 1]
                      /\ (taken' - consumed_bytes') * MDO_BITS + bit_offset' = off[j]
                      /\ taken' <= size /\ (eom' <=> taken' = size)
                      /\ taken' \in Nat /\ consumed_bytes' \in Nat /\ consumed_bytes' > 0
                      /\ (taken' - consumed_bytes') * MDO_BITS = off[j]
  <1> DEFINE n == Len(Plan)
  <1>1. /\ n \in Nat /\ \A i \in 1 .. n + 1 : off[i] \in Nat
        /\ \A i, k \in 1 .. n + 1 : i <= k => off[i] <= off[k]
    BY EncodedFacts DEF IInv, ReadTo
  <1>2. PICK k \in j .. n : Closed(k) /\ \A i \in j .. k - 1 : ~Closed(i)
    BY <1>1, FirstClosed
  <1>3. j \in 1 .. n + 1 /\ j + 1 \in 1 .. n + 1 /\ k + 1 \in 1 .. n + 1 /\ n + 1 \in 1 .. n + 1
        /\ j <= j + 1 /\ j + 1 <= k + 1 /\ k + 1 <= n + 1 /\ j \in Nat /\ k \in Nat
    BY <1>1
  <1>4. off[j] # off[k + 1] /\ off[j] # off[n + 1]
    <2>1. off[j] <= off[j + 1] /\ off[j + 1] <= off[k + 1] /\ off[k + 1] <= off[n + 1]
      BY <1>1, <1>3
    <2> QED
      BY <1>1, <1>3, <2>1
  <1>5. ~eom
    BY <1>4 DEF ReadTo, Encoded, Between
  <1>6. /\ MarksLeft = {} => given < size
        /\ MarksLeft # {} => /\ (FirstMark + 1) * MDO_BITS = off[k + 1]
                             /\ FirstMark + 1 <= size
                             /\ buffer[FirstMark].mseo # 2
                             /\ buffer[FirstMark].mseo = 3 <=> FirstMark + 1 = size
    <2>1. Encoded(off) /\ taken <= size
      BY DEF ReadTo
    <2>2. Closed(k) /\ \A i \in j .. k - 1 : ~Closed(i)
      BY <1>2
    <2> HIDE DEF n
    <2> QED
      BY <1>2, <1>4, <2>1, <2>2, NextMark DEF n
  <1>7. ConsumeFails = IF MarksLeft = {} THEN "stream_truncate" ELSE "none"
    BY <1>5, <1>6, Zenon DEF ConsumeFails
  <1>8. ASSUME ConsumeFails = "none", Consumes
        PROVE  /\ taken' * MDO_BITS = off[k + 1]
               /\ (taken' - consumed_bytes') * MDO_BITS + bit_offset' = off[j]
               /\ taken' <= size /\ (eom' <=> taken' = size)
               /\ taken' \in Nat /\ consumed_bytes' \in Nat /\ consumed_bytes' > 0
               /\ (taken' - consumed_bytes') * MDO_BITS = off[j]
    <2>1. MarksLeft # {}
      BY <1>7, <1>8
    <2> DEFINE m == FirstMark
    <2>2. m \in Nat /\ taken <= m /\ taken \in Nat
      BY <2>1, MarkFound, Facts
    <2>3. /\ consumed_bytes' = m + 1 - taken /\ taken' = m + 1
          /\ eom' = (buffer[m].mseo = 3) /\ bit_offset' = 0
      BY <1>8 DEF Consumes
    <2>4. /\ (m + 1) * MDO_BITS = off[k + 1] /\ m + 1 <= size
          /\ buffer[m].mseo = 3 <=> m + 1 = size
      BY <1>6, <2>1
    <2>5. taken * MDO_BITS = off[j] /\ off[j] \in Nat
      BY <1>1, <1>3 DEF Between
    <2> HIDE DEF m
    <2>6. taken' - consumed_bytes' = taken
      BY <2>2, <2>3
    <2>7. consumed_bytes' \in Nat /\ consumed_bytes' > 0 /\ taken' \in Nat
      BY <2>2, <2>3
    <2>8. (taken' - consumed_bytes') * MDO_BITS = off[j]
      BY <2>5, <2>6
    <2>9. (taken' - consumed_bytes') * MDO_BITS + bit_offset' = off[j]
      BY <2>3, <2>5, <2>8
    <2> QED
      BY <2>3, <2>4, <2>7, <2>8, <2>9
  <1>9. ConsumeFails # "none" => ConsumeFails = "stream_truncate" /\ given < size
    BY <1>6, <1>7
  <1> HIDE DEF n
  <1> QED
    BY <1>2, <1>5, <1>8, <1>9 DEF n

\* What depends on the message alone stays while it is decoded.
LEMMA InputsStay ==
  ASSUME UNCHANGED inputs
  PROVE  /\ Plan' = Plan /\ LastRead' = LastRead /\ (FitsStream' <=> FitsStream)
         /\ \A off : Encoded(off)' <=> Encoded(off)
         /\ \A s : TrailStep(s)' <=> TrailStep(s)
         /\ \A i : Closed(i)' <=> Closed(i)
         /\ UNCHANGED <<hwcfg, msg, limit, buffer, size>>
  <1>1. UNCHANGED <<hwcfg, msg, limit, buffer, size>>
    BY DEF inputs
  <1>2. Plan' = Plan /\ (FitsStream' <=> FitsStream)
        /\ \A s, p : WidthAt(s, p)' = WidthAt(s, p)
    BY <1>1, PlanStays
  <1>3. LastRead' = LastRead
    BY <1>1, <1>2 DEF LastRead
  <1>4. \A s : TrailStep(s)' <=> TrailStep(s)
    BY <1>1 DEF TrailStep
  <1>5. \A i : Closed(i)' <=> Closed(i)
    BY <1>2 DEF Closed, Varies
  <1>6. ASSUME NEW off PROVE Encoded(off)' <=> Encoded(off)
    <2>1. Ascends(off, Len(Plan))' <=> Ascends(off, Len(Plan))
      BY <1>2 DEF Ascends
    <2>2. \A i : WidthAt(Plan[i], off[i])' = WidthAt(Plan[i], off[i])
      BY <1>2
    <2>3. \A i : Holds(off, i)' <=> Holds(off, i)
      BY <1>1, <1>2, <2>2 DEF Holds, BitOf
    <2>4. \A i : EndOf(off, i, Closed(i))' = EndOf(off, i, Closed(i))
      BY <1>5, <2>2 DEF EndOf, Bytes
    <2> QED
      BY <1>1, <1>2, <1>5, <2>1, <2>3, <2>4, Zenon DEF Encoded, Reads
  <1> QED
    BY <1>1, <1>2, <1>3, <1>4, <1>5, <1>6

\* So do the lists that follow it.
LEMMA FollowsStays ==
  ASSUME UNCHANGED inputs, NEW j, Follows(todo', Plan, j, LastRead)
  PROVE  Follows(todo, Plan, j, LastRead)'
  <1>1. Plan' = Plan /\ LastRead' = LastRead /\ (\A s : TrailStep(s)' <=> TrailStep(s))
    BY InputsStay
  <1>2. msg' = msg
    BY DEF inputs
  <1>3. PICK h \in [1 .. Len(todo') -> Nat] :
           /\ h[1] = j
           /\ \A i \in 1 .. Len(todo') : h[i] <= LastRead /\ StepFits(todo', Plan, h, i)
    BY DEF Follows
  <1>4. ASSUME NEW i \in 1 .. Len(todo') PROVE StepFits(todo, Plan, h, i)'
    <2>1. StepFits(todo', Plan, h, i)
      BY <1>3
    <2> QED
      BY <1>1, <1>2, <2>1 DEF StepFits, Reads, Varying, TrailStep
  <1>5. todo' \in Seq(Step) /\ todo' # << >>
    BY DEF Follows
  <1> QED
    BY <1>1, <1>3, <1>4, <1>5 DEF Follows

\* The decoder has got to step k.
LEMMA ReadToStep ==
  ASSUME UNCHANGED inputs, NEW off, NEW j, NEW k, ReadTo(off, j), k \in 1 .. Len(Plan) + 1,
         taken' <= size, eom' <=> taken' = size, "timestamp" \in DOMAIN got',
         \A i \in 1 .. k - 1 : \/ TrailStep(Plan[i])
                               \/ Plan[i].f \in DOMAIN got' /\ got'[Plan[i].f] = msg[Plan[i].f]
  PROVE  ReadTo(off, k)'
  <1>1. /\ Plan' = Plan /\ FitsStream' /\ Encoded(off)' /\ msg' = msg /\ size' = size
        /\ \A s : TrailStep(s)' <=> TrailStep(s)
    BY InputsStay DEF ReadTo
  <1>2. \A i \in 1 .. k - 1 : TrailStep(Plan[i])' <=> TrailStep(Plan[i])
    BY <1>1 DEF TrailStep
  <1> QED
    BY <1>1, <1>2 DEF ReadTo

\* What holds of the positions, again.
LEMMA PositionsStay ==
  ASSUME UNCHANGED inputs, NEW off, NEW j
  PROVE  /\ Between(off, j)' <=> taken' * MDO_BITS = off[j]
         /\ \A k : k \in j .. Len(Plan) /\ Closed(k) /\ (\A i \in j .. k - 1 : ~Closed(i))
                   /\ taken' * MDO_BITS = off[k + 1]
                   /\ (taken' - consumed_bytes') * MDO_BITS + bit_offset' = off[j]
                      => Inside(off, j)'
  <1>1. Plan' = Plan /\ \A i : Closed(i)' <=> Closed(i)
    BY InputsStay
  <1> QED
    BY <1>1 DEF Between, Inside, Reaches

\* Bytes that are missing are asked for.
LEMMA Truncated ==
  ASSUME IInv, phase = "decode", Ends("stream_truncate"), given < size
  PROVE  phase' = "done" /\ Result'
  <1>1. given' = given /\ size' = size /\ rc' = "stream_truncate" /\ phase' = "done"
    BY DEF Ends, Return, inputs, decoderVars
  <1> QED
    BY <1>1, Facts DEF Result

\* CONSUME_BYTES in front of a field that is there.
LEMMA ConsumesTo ==
  ASSUME IInv, phase = "decode", size \in Nat, NEW off, NEW j \in 1 .. Len(Plan),
         ReadTo(off, j), Between(off, j), ConsumeBytes,
         Plan[j].do \in {"req", "vao"} \/ Plan[j] = Fixed("tcode")
  PROVE  \/ phase' = "done" /\ Result'
         \/ /\ phase' = "decode" /\ todo' = Tail(todo) /\ got' = got /\ UNCHANGED inputs
            /\ ReadTo(off, j)' /\ Inside(off, j)'
  <1>1. off[j] # off[j + 1]
    <2>1. /\ Plan[j] \in Step /\ Reads(Plan[j]) /\ WidthAt(Plan[j], off[j]) \in Nat
          /\ off[j] + WidthAt(Plan[j], off[j]) <= off[j + 1]
          /\ off[j] \in Nat /\ off[j + 1] \in Nat
      <3>1. Len(Plan) \in Nat /\ j \in 1 .. Len(Plan) + 1 /\ j + 1 \in 1 .. Len(Plan) + 1
        BY EncodedFacts DEF IInv, ReadTo
      <3> QED
        BY <3>1, EncodedFacts DEF IInv, ReadTo
    <2>2. WidthAt(Plan[j], off[j]) # 0
      BY <2>1, StepPositive DEF IInv
    <2> QED
      BY <2>1, <2>2
  <1>2. CASE ConsumeFails # "none"
    <2>1. ConsumeFails = "stream_truncate" /\ given < size
      BY <1>1, <1>2, ConsumeGoes
    <2>2. Ends("stream_truncate")
      BY <1>2, <2>1 DEF ConsumeBytes
    <2> QED
      BY <2>1, <2>2, Truncated
  <1>3. CASE ConsumeFails = "none"
    <2>1. Consumes /\ todo' = Tail(todo)
      BY <1>3 DEF ConsumeBytes
    <2>2. UNCHANGED inputs /\ got' = got /\ phase' = "decode"
      BY <2>1 DEF Consumes
    <2>3. PICK k : /\ k \in j .. Len(Plan) /\ Closed(k) /\ \A i \in j .. k - 1 : ~Closed(i)
                   /\ taken' * MDO_BITS = off[k + 1]
                   /\ (taken' - consumed_bytes') * MDO_BITS + bit_offset' = off[j]
                   /\ taken' <= size /\ (eom' <=> taken' = size)
      BY <1>1, <1>3, <2>1, ConsumeGoes
    <2>4. Inside(off, j)'
      BY <2>2, <2>3, PositionsStay
    <2>5. ReadTo(off, j)'
      <3>1. /\ j \in 1 .. Len(Plan) + 1 /\ "timestamp" \in DOMAIN got'
            /\ \A i \in 1 .. j - 1 : \/ TrailStep(Plan[i])
                                     \/ Plan[i].f \in DOMAIN got' /\ got'[Plan[i].f] = msg[Plan[i].f]
        BY <2>2 DEF ReadTo
      <3> QED
        BY <2>2, <2>3, <3>1, ReadToStep
    <2> QED
      BY <2>1, <2>2, <2>4, <2>5
  <1> QED
    BY <1>2, <1>3

\* The first step of each list.
LEMMA Firsts ==
  ASSUME NEW off, NEW j
  PROVE  /\ AtTcode(off, j) => todo[1] \in {Consume, Fixed("tcode")}
         /\ AtIdle(off, j) => todo[1] = IdleEnds
         /\ AtRest(off, j) => todo[1] \in {Skip, Req("timestamp")}
         /\ AtEnd(j) => todo = << >>
  BY DEF AtTcode, AtIdle, AtRest, AtEnd

\* What the steps do.
LEMMA DoNames ==
  /\ Consume.do = "consume" /\ IdleEnds.do = "idle" /\ Skip.do = "skip" /\ Time.do = "time"
  /\ \A f : Fixed(f).do = "fixed" /\ Req(f).do = "req" /\ Var(f).do = "var" /\ Vao(f).do = "vao"
  BY DEF Consume, IdleEnds, Skip, Time, Fixed, Req, Var, Vao

\* When the decoder is at a field, the TCODE has been read.
LEMMA TcodeRead ==
  ASSUME IInv, phase = "decode", NEW off, NEW j, ReadTo(off, j), AtField(off, j) \/ AtRest(off, j)
  PROVE  /\ "tcode" \in DOMAIN got /\ got["tcode"] = msg["tcode"]
         /\ ~Pending(todo, "tcode")
  <1>1. Plan[1] = Fixed("tcode")
    <2>1. known(msg) /\ msg.tcode # TCODE.Idle
      BY DEF ReadTo, FitsStream, AtField, AtRest
    <2> QED
      BY <2>1, EncodedFacts, PlanFits DEF IInv, ReadTo
  <1>2. 1 \in 1 .. j - 1
    <2>1. j \in Int /\ j > 1
      BY EncodedFacts DEF IInv, ReadTo, AtField, AtRest
    <2> QED
      BY <2>1
  <1>3. ~TrailStep(Plan[1]) /\ Plan[1].f = "tcode"
    BY <1>1, Named DEF TrailStep, Fixed
  <1>4. "tcode" \in DOMAIN got /\ got["tcode"] = msg["tcode"]
    BY <1>2, <1>3 DEF ReadTo
  <1>5. rc # "ok"
    BY Facts
  <1> QED
    BY <1>4, <1>5 DEF IInv, Fresh, Reading

\* The plan of a message that is not Idle.
LEMMA PlanHere ==
  ASSUME IInv, NEW off, NEW j, ReadTo(off, j), msg.tcode # TCODE.Idle
  PROVE  /\ Plan[1] = Fixed("tcode") /\ Len(Plan) > 1
         /\ LET D == DecodeMore("tcode", msg)
            IN  Follows(D, Plan, 2, LastRead) /\ Reads(D[1])
         /\ \A i \in 1 .. Len(Plan) :
               /\ Closing(Plan[i], msg.tcode) /\ Plan[i].f # "tcode" => GoesOn(i)
               /\ Closed(i) <=> Varying(Plan[i])
               /\ Plan[i].f = "timestamp" => hwcfg.ts_bits > 0 /\ i = Len(Plan)
         /\ hwcfg.ts_bits > 0 =>
               Plan[Len(Plan)] = IF is_sync(msg.tcode) THEN Req("timestamp") ELSE Var("timestamp")
  <1>1. known(msg) /\ \A i \in 1 .. Len(Plan) : Reads(Plan[i])
    BY DEF ReadTo, FitsStream, Encoded
  <1> QED
    BY <1>1, PlanFits DEF IInv

\* CONSUME_BYTES.
LEMMA ConsumeDecodes ==
  ASSUME IInv, phase = "decode", size \in Nat, Decoding, ConsumeBytes
  PROVE  (phase' = "decode" /\ Decoding') \/ (phase' = "done" /\ Result')
  <1>1. PICK off, j : /\ ReadTo(off, j)
                      /\ \/ /\ got["timestamp"] = {}
                            /\ \/ AtTcode(off, j) \/ AtField(off, j)
                               \/ AtIdle(off, j) \/ AtRest(off, j)
                         \/ AtEnd(j)
    BY DEF Decoding
  <1>2. todo # << >> /\ todo[1].do = "consume"
    BY DEF ConsumeBytes, Does
  <1>3. CASE AtTcode(off, j)
    <2>1. todo = <<Consume, Fixed("tcode")>> /\ Between(off, j) /\ j = 1
      BY <1>2, <1>3, DoNames DEF AtTcode
    <2>2. Plan[1] = Fixed("tcode") /\ 1 \in 1 .. Len(Plan)
      <3>1. Plan[1] = Fixed("tcode")
        <4>1. known(msg)
          BY <1>1 DEF ReadTo, FitsStream
        <4>2. CASE msg.tcode = TCODE.Idle
          <5>1. Plan = <<Fixed("tcode")>> \o << >>
            BY <4>1, <4>2 DEF Plan, EncodeSteps, If
          <5> QED
            BY <5>1
        <4>3. CASE msg.tcode # TCODE.Idle
          BY <1>1, <4>3, PlanHere
        <4> QED
          BY <4>2, <4>3
      <3>2. Len(Plan) \in Nat /\ Len(Plan) # 0
        BY PlanIsList
      <3> QED
        BY <3>1, <3>2
    <2>3. \/ phase' = "done" /\ Result'
          \/ /\ phase' = "decode" /\ todo' = Tail(todo) /\ got' = got /\ UNCHANGED inputs
             /\ ReadTo(off, j)' /\ Inside(off, j)'
      BY <1>1, <2>1, <2>2, ConsumesTo
    <2>4. Tail(todo) = <<Fixed("tcode")>>
      BY <2>1
    <2>5. got["timestamp"] = {}
      BY <1>1, <1>2 DEF AtEnd
    <2> QED
      BY <2>1, <2>3, <2>4, <2>5 DEF Decoding, AtTcode
  <1>4. CASE AtField(off, j)
    <2>1. Follows(todo, Plan, j, LastRead) /\ msg.tcode # TCODE.Idle /\ j > 1
      BY <1>4 DEF AtField
    <2>2. /\ todo[1] = Consume /\ Len(todo) > 1 /\ Follows(Tail(todo), Plan, j, LastRead)
          /\ Tail(todo)[1].do \in {"req", "vao"} \/ Tail(todo)[1] = Fixed("tcode")
      <3>1. ~Reads(todo[1]) /\ todo # <<Time>>
        <4>1. todo[1].do # "time"
          BY <1>2
        <4> QED
          BY <1>2, <4>1 DEF Reads, Time
      <3> QED
        BY <2>1, <3>1, FollowsFirst, Zenon
    <2>3. Reads(Tail(todo)[1])
      <3> DEFINE s == Tail(todo)[1]
      <3>1. s.do \in {"req", "vao"} \/ s = Fixed("tcode")
        BY <2>2
      <3>2. Fixed("tcode").do = "fixed"
        BY DEF Fixed
      <3> HIDE DEF s
      <3>3. Reads(s)
        BY <3>1, <3>2 DEF Reads
      <3> QED
        BY <3>3 DEF s
    <2>4. j \in 1 .. Len(Plan) /\ Tail(todo)[1] = Plan[j]
      <3> DEFINE L == Tail(todo)
      <3>1. ~Reads(Consume) /\ ~Reads(<<Time>>[1])
        BY DEF Reads, Consume, Time
      <3>2. Follows(L, Plan, j, LastRead) /\ Reads(L[1])
        BY <2>2, <2>3
      <3> HIDE DEF L
      <3>3. j \in 1 .. Len(Plan) /\ L[1] = Plan[j]
        BY <3>1, <3>2, FollowsFirst, Zenon
      <3> QED
        BY <3>3 DEF L
    <2>5. Tail(todo)[1] # Fixed("tcode")
      <3> SUFFICES ASSUME Tail(todo)[1] = Fixed("tcode") PROVE FALSE
        OBVIOUS
      <3>1. todo \in Seq(Step) /\ Len(todo) > 1
        BY <2>1, <2>2 DEF Follows
      <3>2. Tail(todo)[1] = todo[2] /\ 2 \in 1 .. Len(todo)
        BY <3>1
      <3>3. Pending(todo, "tcode")
        BY <2>3, <3>2, Named DEF Pending
      <3> QED
        BY <1>1, <1>4, <3>3, TcodeRead
    <2>6. Between(off, j)
      BY <1>4, <1>2 DEF AtField, Reads
    <2>7. \/ phase' = "done" /\ Result'
          \/ /\ phase' = "decode" /\ todo' = Tail(todo) /\ got' = got /\ UNCHANGED inputs
             /\ ReadTo(off, j)' /\ Inside(off, j)'
      BY <1>1, <2>2, <2>4, <2>5, <2>6, ConsumesTo
    <2>8. CASE phase' = "done" /\ Result'
      BY <2>8
    <2>9. CASE /\ phase' = "decode" /\ todo' = Tail(todo) /\ got' = got /\ UNCHANGED inputs
               /\ ReadTo(off, j)' /\ Inside(off, j)'
      <3>1. Follows(todo, Plan, j, LastRead)'
        BY <2>2, <2>9, FollowsStays
      <3>2. msg' = msg /\ got'["timestamp"] = {}
        BY <1>1, <1>2, <2>9 DEF AtEnd, inputs
      <3>3. todo'[1].do # "fixed" /\ Reads(todo'[1])
        BY <2>2, <2>3, <2>5, <2>9
      <3>4. AtField(off, j)'
        BY <2>1, <2>9, <3>1, <3>2, <3>3 DEF AtField, Reads
      <3> QED
        BY <2>9, <3>2, <3>4 DEF Decoding
    <2> QED
      BY <2>7, <2>8, <2>9
  <1>5. CASE AtIdle(off, j) \/ AtRest(off, j) \/ AtEnd(j)
    BY <1>2, <1>5, Firsts, DoNames
  <1> QED
    BY <1>1, <1>3, <1>4, <1>5

\* A timestamp for which no bytes are left is 0, and not that of a message with
\* SYNC, whose timestamp is always sent.
LEMMA NoTime ==
  ASSUME IInv, NEW off, NEW j \in 1 .. Len(Plan), ReadTo(off, j), msg.tcode # TCODE.Idle,
         hwcfg.ts_bits > 0, eom, Between(off, j)
  PROVE  ~is_sync(msg.tcode) /\ msg["timestamp"] = {}
  <1> DEFINE n == Len(Plan)
             s == Plan[n]
             w == WidthAt(s, off[n])
  <1>1. /\ n \in Nat /\ n # 0 /\ \A i \in 1 .. n + 1 : off[i] \in Nat
        /\ \A i, k \in 1 .. n + 1 : i <= k => off[i] <= off[k]
    BY EncodedFacts DEF IInv, ReadTo
  <1>2. j \in 1 .. n + 1 /\ n \in 1 .. n + 1 /\ n + 1 \in 1 .. n + 1 /\ j <= n /\ n \in 1 .. n
    BY <1>1
  <1>3. s \in Step /\ Reads(s) /\ w \in Nat /\ off[n] + w <= off[n + 1]
    BY <1>2, EncodedFacts DEF IInv, ReadTo
  <1>4. off[j] = off[n + 1]
    BY DEF ReadTo, Encoded, Between
  <1>5. off[j] <= off[n] /\ off[j] \in Nat /\ off[n] \in Nat /\ off[n + 1] \in Nat
    BY <1>1, <1>2
  <1>6. s = IF is_sync(msg.tcode) THEN Req("timestamp") ELSE Var("timestamp")
    BY PlanHere
  <1> HIDE DEF w, n
  <1>7. w = 0
    BY <1>3, <1>4, <1>5
  <1>8. s.do \notin {"req", "vao"} /\ (s.do = "var" => msg[s.f] = {})
    BY <1>3, <1>5, <1>7, StepPositive DEF IInv, w
  <1>9. ~is_sync(msg.tcode) /\ s.do = "var" /\ s.f = "timestamp"
    BY <1>6, <1>8, DoNames, Named
  <1> QED
    BY <1>8, <1>9

\* A message is accepted when all of it has been taken and read.
LEMMA Accepted ==
  ASSUME IInv, phase = "decode", NEW off, NEW j, ReadTo(off, j), eom, Ends("ok"), TimeRead,
         \A k \in j .. Len(Plan) : TrailStep(Plan[k])
  PROVE  phase' = "done" /\ Result'
  <1>1. /\ UNCHANGED inputs /\ given' = given /\ taken' = taken /\ got' = got
        /\ rc' = "ok" /\ phase' = "done"
    BY DEF Ends, Return, decoderVars
  <1>2. /\ Plan' = Plan /\ msg' = msg /\ size' = size /\ \A s : TrailStep(s)' <=> TrailStep(s)
    BY <1>1, InputsStay
  <1>3. \A i \in 1 .. Len(Plan) : TrailStep(Plan[i])' <=> TrailStep(Plan[i])
    BY <1>2 DEF TrailStep
  <1>4. taken = size /\ size <= given
    BY Facts DEF ReadTo
  <1>5. \A i \in 1 .. Len(Plan) : \/ TrailStep(Plan[i])
                                  \/ Plan[i].f \in DOMAIN got /\ got[Plan[i].f] = msg[Plan[i].f]
    <2> SUFFICES ASSUME NEW i \in 1 .. Len(Plan), ~TrailStep(Plan[i])
                 PROVE  Plan[i].f \in DOMAIN got /\ got[Plan[i].f] = msg[Plan[i].f]
      OBVIOUS
    <2>1. Len(Plan) \in Nat /\ j \in 1 .. Len(Plan) + 1
      BY EncodedFacts DEF IInv, ReadTo
    <2>2. i \in j .. Len(Plan) \/ i \in 1 .. j - 1
      BY <2>1
    <2> QED
      BY <2>2 DEF ReadTo
  <1>6. TimeRead'
    BY <1>1, <1>2 DEF TimeRead
  <1>7. "timestamp" \in DOMAIN got
    BY DEF ReadTo
  <1> QED
    BY <1>1, <1>2, <1>3, <1>4, <1>5, <1>6, <1>7 DEF Result

\* finished_common.
LEMMA TimeDecodes ==
  ASSUME IInv, phase = "decode", size \in Nat, Decoding, UnpackTime
  PROVE  (phase' = "decode" /\ Decoding') \/ (phase' = "done" /\ Result')
  <1>1. PICK off, j : /\ ReadTo(off, j)
                      /\ \/ /\ got["timestamp"] = {}
                            /\ \/ AtTcode(off, j) \/ AtField(off, j)
                               \/ AtIdle(off, j) \/ AtRest(off, j)
                         \/ AtEnd(j)
    BY DEF Decoding
  <1>2. todo # << >> /\ todo[1].do = "time"
    BY DEF UnpackTime, Does
  <1>3. AtField(off, j) /\ got["timestamp"] = {}
    <2>1. ~AtTcode(off, j) /\ ~AtIdle(off, j) /\ ~AtRest(off, j) /\ ~AtEnd(j)
      BY <1>2, Firsts, DoNames
    <2> QED
      BY <1>1, <2>1
  <1>4. /\ msg.tcode # TCODE.Idle /\ j > 1 /\ Follows(todo, Plan, j, LastRead)
        /\ Between(off, j)
    BY <1>2, <1>3 DEF AtField, Reads
  <1>5. j <= LastRead /\ \A k \in j .. Len(Plan) : TrailStep(Plan[k])
    <2>1. ~Reads(todo[1]) /\ todo[1] # Consume
      BY <1>2 DEF Reads, Consume
    <2> QED
      BY <1>4, <2>1, FollowsFirst, Zenon
  <1>6. hwcfg.ts_bits \in Nat /\ j \in 1 .. Len(Plan) + 1 /\ Len(Plan) \in Nat
    BY <1>1, EncodedFacts DEF IInv, ArgsOK, ReadTo
  <1>7. CASE hwcfg.ts_bits > 0 /\ eom
    <2>1. j \in 1 .. Len(Plan)
      BY <1>5, <1>6, <1>7 DEF LastRead
    <2>2. ~is_sync(msg.tcode) /\ msg["timestamp"] = {}
      BY <1>1, <1>4, <1>7, <2>1, NoTime
    <2>3. got["tcode"] = msg["tcode"]
      BY <1>1, <1>3, TcodeRead
    <2>4. Ends("ok")
      BY <1>7, <2>2, <2>3 DEF UnpackTime
    <2>5. TimeRead
      BY <1>3, <2>2 DEF TimeRead
    <2> QED
      BY <1>1, <1>5, <1>7, <2>4, <2>5, Accepted
  <1>8. CASE ~(hwcfg.ts_bits > 0 /\ eom)
    <2>1. /\ todo' = <<Skip>> \o If(hwcfg.ts_bits > 0, <<Req("timestamp")>>)
          /\ UNCHANGED <<inputs, phase, rc, bit_offset, decoderVars>>
      BY <1>8 DEF UnpackTime
    <2>2. /\ UNCHANGED inputs /\ phase' = "decode" /\ got' = got /\ taken' = taken /\ eom' = eom
          /\ UNCHANGED <<hwcfg, msg, size>>
      BY <2>1 DEF decoderVars, inputs
    <2>3. ReadTo(off, j)'
      <3>1. /\ taken' <= size /\ (eom' <=> taken' = size) /\ "timestamp" \in DOMAIN got'
            /\ \A i \in 1 .. j - 1 : \/ TrailStep(Plan[i])
                                     \/ Plan[i].f \in DOMAIN got' /\ got'[Plan[i].f] = msg[Plan[i].f]
        BY <1>1, <2>2 DEF ReadTo
      <3> QED
        BY <1>1, <1>6, <2>2, <3>1, ReadToStep
    <2>4. Between(off, j)'
      BY <1>4, <2>2 DEF Between
    <2>5. (\A k \in j .. Len(Plan) : TrailStep(Plan[k]))'
      <3>1. Plan' = Plan
        BY <2>2, InputsStay
      <3> QED
        BY <1>5, <2>2, <3>1 DEF TrailStep
    <2>6. \/ hwcfg.ts_bits = 0 /\ todo' = <<Skip>>
          \/ hwcfg.ts_bits > 0 /\ todo' = <<Skip, Req("timestamp")>> /\ ~eom
      <3>1. <<Skip>> \o << >> = <<Skip>> /\ <<Skip>> \o <<Req("timestamp")>> = <<Skip, Req("timestamp")>>
        BY SmallConcat
      <3>2. CASE hwcfg.ts_bits > 0
        BY <1>8, <2>1, <3>1, <3>2, Zenon DEF If
      <3>3. CASE ~(hwcfg.ts_bits > 0)
        <4>1. hwcfg.ts_bits = 0
          BY <1>6, <3>3
        <4>2. todo' = <<Skip>>
          BY <2>1, <3>1, <3>3, Zenon DEF If
        <4> QED
          BY <4>1, <4>2
      <3> QED
        BY <3>2, <3>3
    <2>7. AtRest(off, j)'
      BY <1>4, <2>2, <2>4, <2>5, <2>6 DEF AtRest
    <2> QED
      BY <1>3, <2>2, <2>3, <2>7 DEF Decoding
  <1> QED
    BY <1>7, <1>8

\* The end of an Idle message.
LEMMA IdleDecodes ==
  ASSUME IInv, phase = "decode", size \in Nat, Decoding, DecodeIdle
  PROVE  phase' = "done" /\ Result'
  <1>1. PICK off, j : /\ ReadTo(off, j)
                      /\ \/ /\ got["timestamp"] = {}
                            /\ \/ AtTcode(off, j) \/ AtField(off, j)
                               \/ AtIdle(off, j) \/ AtRest(off, j)
                         \/ AtEnd(j)
    BY DEF Decoding
  <1>2. todo # << >> /\ todo[1].do = "idle"
    BY DEF DecodeIdle, Does
  <1>3. AtIdle(off, j)
    <2>1. ~AtTcode(off, j) /\ ~AtRest(off, j) /\ ~AtEnd(j)
      BY <1>2, Firsts, DoNames
    <2>2. ~AtField(off, j)
      <3> SUFFICES ASSUME AtField(off, j) PROVE FALSE
        OBVIOUS
      <3>1. Follows(todo, Plan, j, LastRead)
        BY DEF AtField
      <3>2. ~Reads(todo[1]) /\ todo[1] # Consume /\ todo # <<Time>>
        BY <1>2 DEF Reads, Consume, Time
      <3> QED
        BY <3>1, <3>2, FollowsFirst, Zenon
    <2> QED
      BY <1>1, <2>1, <2>2
  <1>4. Plan = <<Fixed("tcode")>>
    <2>1. known(msg) /\ msg.tcode = TCODE.Idle
      BY <1>1, <1>3 DEF ReadTo, FitsStream, AtIdle
    <2>2. Plan = <<Fixed("tcode")>> \o << >>
      BY <2>1 DEF Plan, EncodeSteps, If
    <2> QED
      BY <2>2
  <1>5. eom
    <2>1. taken * MDO_BITS = size * MDO_BITS
      BY <1>1, <1>3 DEF ReadTo, AtIdle, Between, Encoded
    <2>2. taken \in Nat
      BY Facts
    <2>3. taken = size
      BY <2>1, <2>2, Cancel, Constants
    <2> QED
      BY <1>1, <2>3 DEF ReadTo
  <1>6. Ends("ok")
    BY <1>5 DEF DecodeIdle
  <1>7. TimeRead
    BY <1>4, Named DEF TimeRead
  <1>8. \A k \in j .. Len(Plan) : TrailStep(Plan[k])
    <2>1. j = Len(Plan) + 1 /\ Len(Plan) = 1
      BY <1>3, <1>4 DEF AtIdle
    <2> QED
      BY <2>1
  <1> QED
    BY <1>1, <1>5, <1>6, <1>7, <1>8, Accepted

\* The end of the others.
LEMMA EndDecodes ==
  ASSUME IInv, phase = "decode", size \in Nat, Decoding, DecodeEnds
  PROVE  phase' = "done" /\ Result'
  <1>1. PICK off, j : /\ ReadTo(off, j)
                      /\ \/ /\ got["timestamp"] = {}
                            /\ \/ AtTcode(off, j) \/ AtField(off, j)
                               \/ AtIdle(off, j) \/ AtRest(off, j)
                         \/ AtEnd(j)
    BY DEF Decoding
  <1>2. todo = << >> /\ Ends("ok")
    BY DEF DecodeEnds
  <1>3. AtEnd(j)
    <2>1. ~AtTcode(off, j) /\ ~AtIdle(off, j) /\ ~AtRest(off, j)
      BY <1>2 DEF AtTcode, AtIdle, AtRest
    <2>2. ~AtField(off, j)
      BY <1>2 DEF AtField, Follows
    <2> QED
      BY <1>1, <2>1, <2>2
  <1> QED
    BY <1>1, <1>2, <1>3, Accepted DEF AtEnd

\* nexusrv_msg_decode is called.
LEMMA CallDecodes ==
  ASSUME IInv, size \in Nat, size > 0, FitsStream, NEW off, Encoded(off), NEW n \in 0 .. limit,
         CallDecode(n)
  PROVE  phase' = "decode" /\ Decoding'
  <1>1. /\ UNCHANGED inputs /\ phase' = "decode" /\ taken' = 0 /\ eom' = FALSE
        /\ got' = [f \in {"timestamp"} |-> {}] /\ todo' = <<Consume, Fixed("tcode")>>
    BY DEF CallDecode
  <1>2. /\ Plan' = Plan /\ FitsStream' /\ Encoded(off)' /\ size' = size
    BY <1>1, InputsStay
  <1>3. Len(Plan) \in Nat /\ off[1] = 0
    BY EncodedFacts DEF IInv, Encoded, Ascends
  <1>4. ReadTo(off, 1)'
    <2>1. 1 \in 1 .. Len(Plan) + 1 /\ \A i : i \notin 1 .. 1 - 1
      BY <1>3
    <2>2. taken' <= size' /\ (eom' <=> taken' = size') /\ "timestamp" \in DOMAIN got'
      BY <1>1, <1>2
    <2> QED
      BY <1>2, <2>1, <2>2 DEF ReadTo
  <1>5. AtTcode(off, 1)'
    <2>1. taken' * MDO_BITS = off[1]
      BY <1>1, <1>3, Constants
    <2> QED
      BY <1>1, <2>1 DEF AtTcode, Between
  <1>6. got'["timestamp"] = {}
    BY <1>1
  <1> QED
    BY <1>1, <1>4, <1>5, <1>6 DEF Decoding

\* Steps that may be skipped end a byte.
LEMMA TrailVaries ==
  ASSUME NEW s \in Step, TrailStep(s)
  PROVE  Varying(s)
  <1>1. SUFFICES ASSUME s.do = "fixed" PROVE FALSE
    BY DEF Varying
  <1>2. s.f \in FixedFields
    BY <1>1, StepKinds
  <1>3. "timestamp" \in DOMAIN StoredBits /\ "ckdata1" \in DOMAIN StoredBits
    BY Members
  <1> QED
    BY <1>2, <1>3, FieldKinds DEF TrailStep

\* While bytes are left, a step that is left has some.
LEMMA BytesLeft ==
  ASSUME IInv, phase = "decode", size \in Nat, NEW off, NEW j, ReadTo(off, j), AtRest(off, j), ~eom
  PROVE  j \in 1 .. Len(Plan) /\ off[j] # off[j + 1] /\ Closed(j)
  <1> DEFINE n == Len(Plan)
  <1>1. /\ n \in Nat /\ n # 0 /\ \A i \in 1 .. n + 1 : off[i] \in Nat
        /\ \A i, k \in 1 .. n + 1 : i <= k => off[i] <= off[k]
        /\ j \in 1 .. n + 1
    BY EncodedFacts DEF IInv, ReadTo
  <1>2. off[j] # off[n + 1]
    <2>1. taken # size /\ taken \in Nat
      BY Facts DEF ReadTo
    <2>2. taken * MDO_BITS # size * MDO_BITS
      BY <2>1, Cancel, Constants
    <2> QED
      BY <2>2 DEF ReadTo, Encoded, AtRest, Between
  <1>3. j \in 1 .. n
    <2>1. j # n + 1
      BY <1>2
    <2> QED
      BY <1>1, <2>1
  <1>4. /\ Plan[j] \in Step /\ Reads(Plan[j]) /\ WidthAt(Plan[j], off[j]) \in Nat
        /\ off[j] + WidthAt(Plan[j], off[j]) <= off[j + 1] /\ off[j] \in Nat /\ off[j + 1] \in Nat
    <2>1. j \in 1 .. n + 1 /\ j + 1 \in 1 .. n + 1
      BY <1>1, <1>3
    <2> QED
      BY <1>1, <1>3, <2>1, EncodedFacts DEF IInv, ReadTo
  <1>5. TrailStep(Plan[j])
    BY <1>3 DEF AtRest
  <1>6. msg.tcode # TCODE.Idle
    BY DEF AtRest
  <1>7. Closed(j)
    BY <1>4, <1>5, TrailVaries DEF Closed, Varies, Varying
  <1>8. CASE j = n
    BY <1>2, <1>3, <1>7, <1>8
  <1>9. CASE j # n
    <2>1. Plan[j].do = "req"
      <3>1. Plan[j].f # "timestamp"
        BY <1>3, <1>6, <1>9, PlanHere
      <3> QED
        BY <1>5, <3>1 DEF TrailStep
    <2>2. WidthAt(Plan[j], off[j]) # 0
      BY <1>4, <2>1, StepPositive DEF IInv
    <2> DEFINE w == WidthAt(Plan[j], off[j])
    <2>3. w \in Nat /\ w # 0 /\ off[j] + w <= off[j + 1] /\ off[j] \in Nat /\ off[j + 1] \in Nat
      BY <1>4, <2>2
    <2> HIDE DEF w
    <2>4. off[j] # off[j + 1]
      BY <2>3
    <2> QED
      BY <1>3, <1>7, <2>4
  <1> QED
    BY <1>8, <1>9

\* Bytes that may be skipped are.
LEMMA RestGoesOn ==
  ASSUME IInv, phase = "decode", size \in Nat, NEW off, NEW j, ReadTo(off, j), AtRest(off, j),
         got["timestamp"] = {}, todo # << >>, todo[1].do = "skip", ~eom, SkipBytes
  PROVE  (phase' = "decode" /\ Decoding') \/ (phase' = "done" /\ Result')
  <1>1. j \in 1 .. Len(Plan) /\ off[j] # off[j + 1] /\ Closed(j) /\ Len(Plan) \in Nat
        /\ j + 1 \in 1 .. Len(Plan) + 1
    <2>1. Len(Plan) \in Nat
      BY EncodedFacts DEF IInv, ReadTo
    <2>2. j \in 1 .. Len(Plan) /\ off[j] # off[j + 1] /\ Closed(j)
      BY BytesLeft
    <2> QED
      BY <2>1, <2>2
  <1>2. Between(off, j) /\ msg.tcode # TCODE.Idle /\ j > 1
        /\ \A k \in j .. Len(Plan) : TrailStep(Plan[k])
    BY DEF AtRest
  <1>3. CASE ConsumeFails # "none"
    <2>1. ConsumeFails = "stream_truncate" /\ given < size
      BY <1>1, <1>2, <1>3, ConsumeGoes
    <2>2. Ends("stream_truncate")
      BY <1>3, <2>1 DEF SkipBytes
    <2> QED
      BY <2>1, <2>2, Truncated
  <1>4. CASE ConsumeFails = "none"
    <2>1. Consumes /\ todo' = todo
      BY <1>4 DEF SkipBytes
    <2>2. UNCHANGED inputs /\ got' = got /\ phase' = "decode" /\ UNCHANGED <<hwcfg, msg, size>>
          /\ bit_offset' = 0
      BY <2>1 DEF Consumes, inputs
    <2>3. PICK k : /\ k \in j .. Len(Plan) /\ Closed(k) /\ \A i \in j .. k - 1 : ~Closed(i)
                   /\ taken' * MDO_BITS = off[k + 1]
                   /\ taken' <= size /\ (eom' <=> taken' = size)
                   /\ consumed_bytes' > 0 /\ (taken' - consumed_bytes') * MDO_BITS = off[j]
      BY <1>1, <1>2, <1>4, <2>1, ConsumeGoes
    <2>4. k = j
      <3>1. k = j \/ j \in j .. k - 1
        BY <1>1, <2>3
      <3> QED
        BY <1>1, <2>3, <3>1
    <2>5. TrailStep(Plan[j]) /\ j + 1 > 2 /\ (j + 1) - 1 = j
      BY <1>1, <1>2
    <2>6. ReadTo(off, j + 1)'
      <3>1. "timestamp" \in DOMAIN got'
            /\ \A i \in 1 .. j - 1 : \/ TrailStep(Plan[i])
                                     \/ Plan[i].f \in DOMAIN got' /\ got'[Plan[i].f] = msg[Plan[i].f]
        BY <2>2 DEF ReadTo
      <3>2. \A i \in 1 .. (j + 1) - 1 : i \in 1 .. j - 1 \/ i = j
        BY <1>1
      <3>3. \A i \in 1 .. (j + 1) - 1 :
               \/ TrailStep(Plan[i])
               \/ Plan[i].f \in DOMAIN got' /\ got'[Plan[i].f] = msg[Plan[i].f]
        BY <2>5, <3>1, <3>2
      <3> QED
        BY <1>1, <2>2, <2>3, <3>1, <3>3, ReadToStep
    <2>7. Plan' = Plan /\ \A s : TrailStep(s)' <=> TrailStep(s)
      BY <2>2, InputsStay
    <2>8. Between(off, j + 1)'
      BY <2>3, <2>4 DEF Between
    <2>9. LastGroup(off, j + 1)'
      <3>1. TrailStep(Plan[(j + 1) - 1])'
        BY <2>2, <2>5, <2>7 DEF TrailStep
      <3> QED
        BY <2>2, <2>3, <2>5, <3>1 DEF LastGroup
    <2>10. (\A l \in j + 1 .. Len(Plan) : TrailStep(Plan[l]))'
      <3>1. \A l \in j + 1 .. Len(Plan) : l \in j .. Len(Plan)
        BY <1>1
      <3> QED
        BY <1>2, <2>2, <2>7, <3>1 DEF TrailStep
    <2>11. \/ hwcfg.ts_bits = 0 /\ todo' = <<Skip>>
           \/ hwcfg.ts_bits > 0 /\ todo' = <<Skip, Req("timestamp")>>
      BY <2>1, DoNames DEF AtRest
    <2>12. AtRest(off, j + 1)'
      <3>1. j + 1 > 1
        BY <1>1
      <3> QED
        BY <1>2, <2>2, <2>8, <2>9, <2>10, <2>11, <3>1 DEF AtRest
    <2>13. got'["timestamp"] = {}
      BY <2>2
    <2> QED
      BY <2>2, <2>6, <2>12, <2>13 DEF Decoding
  <1> QED
    BY <1>3, <1>4

\* while (!eom) CONSUME_BYTES.
LEMMA SkipDecodes ==
  ASSUME IInv, phase = "decode", size \in Nat, Decoding, SkipBytes
  PROVE  (phase' = "decode" /\ Decoding') \/ (phase' = "done" /\ Result')
  <1>1. PICK off, j : /\ ReadTo(off, j)
                      /\ \/ /\ got["timestamp"] = {}
                            /\ \/ AtTcode(off, j) \/ AtField(off, j)
                               \/ AtIdle(off, j) \/ AtRest(off, j)
                         \/ AtEnd(j)
    BY DEF Decoding
  <1>2. todo # << >> /\ todo[1].do = "skip"
    BY DEF SkipBytes, Does
  <1>3. AtRest(off, j) /\ got["timestamp"] = {}
    <2>1. ~AtTcode(off, j) /\ ~AtIdle(off, j) /\ ~AtEnd(j)
      BY <1>2, Firsts, DoNames
    <2>2. ~AtField(off, j)
      <3> SUFFICES ASSUME AtField(off, j) PROVE FALSE
        OBVIOUS
      <3>1. Follows(todo, Plan, j, LastRead)
        BY DEF AtField
      <3>2. ~Reads(todo[1]) /\ todo[1] # Consume /\ todo # <<Time>>
        BY <1>2 DEF Reads, Consume, Time
      <3> QED
        BY <3>1, <3>2, FollowsFirst, Zenon
    <2> QED
      BY <1>1, <2>1, <2>2
  <1>4. CASE ~eom
    BY <1>1, <1>2, <1>3, <1>4, RestGoesOn
  <1>5. CASE eom
    <2>1. todo' = Tail(todo) /\ UNCHANGED <<inputs, phase, rc, bit_offset, decoderVars>>
      BY <1>5 DEF SkipBytes
    <2>2. /\ UNCHANGED inputs /\ phase' = "decode" /\ UNCHANGED <<hwcfg, msg, size, got, taken>>
          /\ UNCHANGED <<eom, bit_offset, consumed_bytes>>
      BY <2>1 DEF decoderVars, inputs
    <2>3. /\ Plan' = Plan /\ \A s : TrailStep(s)' <=> TrailStep(s)
      BY <2>2, InputsStay
    <2>4. ReadTo(off, j)'
      <3>1. /\ taken' <= size /\ (eom' <=> taken' = size) /\ "timestamp" \in DOMAIN got'
            /\ \A i \in 1 .. j - 1 : \/ TrailStep(Plan[i])
                                     \/ Plan[i].f \in DOMAIN got' /\ got'[Plan[i].f] = msg[Plan[i].f]
            /\ j \in 1 .. Len(Plan) + 1
        BY <1>1, <2>2 DEF ReadTo
      <3> QED
        BY <1>1, <2>2, <3>1, ReadToStep
    <2>5. /\ msg.tcode # TCODE.Idle /\ j > 1 /\ Between(off, j)
          /\ \A k \in j .. Len(Plan) : TrailStep(Plan[k])
      BY <1>3 DEF AtRest
    <2>6. (\A k \in j .. Len(Plan) : TrailStep(Plan[k]))'
      BY <2>2, <2>3, <2>5 DEF TrailStep
    <2>7. CASE hwcfg.ts_bits = 0 /\ todo = <<Skip>>
      <3>1. todo' = << >>
        BY <2>1, <2>7
      <3>2. TimeRead'
        <4>1. \A i \in 1 .. Len(Plan) : Plan[i].f # "timestamp"
          BY <1>1, <2>5, <2>7, PlanHere
        <4> QED
          BY <2>3, <4>1 DEF TimeRead
      <3>3. AtEnd(j)'
        BY <1>5, <2>2, <2>6, <3>1, <3>2 DEF AtEnd
      <3> QED
        BY <2>2, <2>4, <3>3 DEF Decoding
    <2>8. CASE hwcfg.ts_bits > 0 /\ todo = <<Skip, Req("timestamp")>>
      <3>1. todo' = <<Req("timestamp")>>
        BY <2>1, <2>8
      <3>2. LastGroup(off, j)
        <4>1. todo[1] = Skip
          BY <2>8
        <4>2. todo # <<Req("timestamp")>>
          BY <1>2, DoNames
        <4>3. todo # <<Skip>>
          BY <2>8
        <4> QED
          BY <1>3, <1>5, <4>2, <4>3 DEF AtRest
      <3>3. LastGroup(off, j)'
        BY <2>2, <2>3, <3>2 DEF LastGroup, TrailStep
      <3>4. Between(off, j)'
        BY <2>2, <2>5 DEF Between
      <3>5. AtRest(off, j)'
        BY <1>5, <2>2, <2>5, <2>6, <2>8, <3>1, <3>3, <3>4 DEF AtRest
      <3> QED
        BY <1>3, <2>2, <2>4, <3>5 DEF Decoding
    <2>9. todo # <<Req("timestamp")>>
      BY <1>2, DoNames
    <2> QED
      BY <1>3, <2>7, <2>8, <2>9 DEF AtRest
  <1> QED
    BY <1>4, <1>5

\* The parts of a plan, with the fields e and f in front of its body.
Joined(P, A, B, T) == P = (<<Fixed("tcode")>> \o (A \o B)) \o T
\* The body of a plan begins with the fields e and f, of fixed width.
SecondOf(P, e, f) ==
    \E A, B, T \in Seq(Step) :
       /\ A = << >> \/ A = <<Fixed("src")>>
       /\ Len(B) >= 2 /\ B[1] = Fixed(e) /\ B[2] = Fixed(f) /\ Joined(P, A, B, T)

\* The second field of a body comes before every other one but the first.
LEMMA SecondBefore ==
  ASSUME NEW P, NEW e, NEW f, SecondOf(P, e, f),
         NEW j \in 1 .. Len(P), P[j].f \notin {"tcode", "src", e, f}
  PROVE  \E i \in 1 .. j - 1 : P[i] = Fixed(f)
  <1>0. PICK A, B, T \in Seq(Step) :
           /\ A = << >> \/ A = <<Fixed("src")>>
           /\ Len(B) >= 2 /\ B[1] = Fixed(e) /\ B[2] = Fixed(f) /\ Joined(P, A, B, T)
    BY DEF SecondOf
  <1> DEFINE a == Len(A)
             R == A \o B
             Q == <<Fixed("tcode")>> \o R
  <1>1. /\ a \in {0, 1} /\ \A k \in 1 .. a : A[k] = Fixed("src")
    <2>1. CASE A = << >>
      BY <2>1
    <2>2. CASE A = <<Fixed("src")>>
      BY <2>2
    <2> QED
      BY <1>0, <2>1, <2>2
  <1>2. /\ R \in Seq(Step) /\ Len(R) = a + Len(B) /\ Len(B) \in Nat
        /\ \A k \in 1 .. a : R[k] = A[k]
        /\ \A k \in 1 .. a + Len(B) : ~(k <= a) => R[k] = B[k - a]
    <2>1. R \in Seq(Step)
      OBVIOUS
    <2> QED
      BY <2>1, ConcatParts
  <1> HIDE DEF R, a
  <1>3. /\ Q \in Seq(Step) /\ Len(Q) = 1 + Len(R) /\ Q[1] = Fixed("tcode")
        /\ \A k \in 1 .. Len(R) : Q[k + 1] = R[k]
    <2>1. Fixed("tcode") \in Step
      BY Members
    <2> QED
      BY <1>2, <2>1, HeadOf
  <1> HIDE DEF Q
  <1>4. /\ \A k \in 1 .. Len(Q) : P[k] = Q[k]
        /\ Len(P) = Len(Q) + Len(T) /\ Len(Q) \in Nat /\ Len(T) \in Nat
    <2>1. P = Q \o T
      BY <1>0 DEF Q, R, Joined
    <2>2. /\ Len(Q \o T) = Len(Q) + Len(T) /\ Len(Q) \in Nat /\ Len(T) \in Nat
          /\ \A k \in 1 .. Len(Q) : (Q \o T)[k] = Q[k]
      BY <1>3, ConcatParts
    <2> QED
      BY <2>1, <2>2, Zenon
  <1>5. R[a + 1] = Fixed(e) /\ R[a + 2] = Fixed(f) /\ a + 1 \in 1 .. Len(R) /\ a + 2 \in 1 .. Len(R)
    <2>1. a + 1 \in 1 .. a + Len(B) /\ a + 2 \in 1 .. a + Len(B) /\ ~(a + 1 <= a) /\ ~(a + 2 <= a)
          /\ (a + 1) - a = 1 /\ (a + 2) - a = 2
      BY <1>0, <1>1, <1>2
    <2> QED
      BY <1>0, <1>2, <2>1
  <1>6. P[a + 3] = Fixed(f) /\ P[a + 2] = Fixed(e) /\ P[1] = Fixed("tcode")
    <2>1. (a + 1) + 1 = a + 2 /\ (a + 2) + 1 = a + 3
      BY <1>1
    <2>2. Q[a + 2] = Fixed(e) /\ Q[a + 3] = Fixed(f)
      BY <1>3, <1>5, <2>1
    <2>3. a + 2 \in 1 .. Len(Q) /\ a + 3 \in 1 .. Len(Q) /\ 1 \in 1 .. Len(Q)
      BY <1>1, <1>2, <1>3, <1>5
    <2> QED
      BY <1>3, <1>4, <2>2, <2>3
  <1>7. a = 1 => P[2] = Fixed("src")
    <2> SUFFICES ASSUME a = 1 PROVE P[2] = Fixed("src")
      OBVIOUS
    <2>1. 1 \in 1 .. a /\ 1 \in 1 .. Len(R) /\ 1 + 1 = 2 /\ 2 \in 1 .. Len(Q)
      BY <1>2, <1>3
    <2>2. R[1] = Fixed("src") /\ Q[2] = R[1]
      BY <1>1, <1>2, <1>3, <2>1
    <2> QED
      BY <1>4, <2>1, <2>2
  <1>8. \A x : Fixed(x).f = x
    BY Named
  <1>9. ~(j <= a + 3)
    <2> SUFFICES ASSUME j <= a + 3 PROVE FALSE
      OBVIOUS
    <2>1. j = 1 \/ (a = 1 /\ j = 2) \/ j = a + 2 \/ j = a + 3
      BY <1>1, <1>4
    <2> QED
      BY <1>6, <1>7, <1>8, <2>1
  <1>10. a + 3 \in 1 .. j - 1
    BY <1>1, <1>4, <1>9
  <1> QED
    BY <1>6, <1>10

\* CDF and CKDF are read before the fields after which they are asked for.
LEMMA FlagsBefore ==
  ASSUME ArgsOK, known(msg), NEW j \in 1 .. Len(Plan)
  PROVE  /\ msg.tcode = TCODE.ProgTraceCorrelation /\ Plan[j].f = "icnt" =>
              \E i \in 1 .. j - 1 : Plan[i] = Fixed("cdf")
         /\ msg.tcode = TCODE.ICT /\ Plan[j].f = "ckdata0" =>
              \E i \in 1 .. j - 1 : Plan[i] = Fixed("ckdf")
  <1> DEFINE A == If(hwcfg.src_bits > 0, <<Fixed("src")>>)
             T == EncodeTime(msg)
             B == EncodeBody(msg)
  <1>1. A = << >> \/ A = <<Fixed("src")>>
    BY DEF If
  <1>2. A \in Seq(Step) /\ T \in Seq(Step) /\ B \in Seq(Step)
    <2>1. <<Fixed("src")>> \in Seq(Step) /\ << >> \in Seq(Step)
      BY Members
    <2> QED
      BY <1>1, <2>1, EncodeLists
  <1>3. ASSUME msg.tcode = TCODE.ProgTraceCorrelation
        PROVE  /\ Len(B) >= 2 /\ B[1] = Fixed("evcode") /\ B[2] = Fixed("cdf")
               /\ msg.tcode # TCODE.Idle
    <2>1. B = <<Fixed("evcode"), Fixed("cdf"), Req("icnt")>> \o If(msg.cdf = Bits(1), <<Req("hist")>>)
      BY <1>3, TcodesDiffer DEF EncodeBody
    <2>2. <<Req("hist")>> \in Seq(Step) /\ << >> \in Seq(Step)
          /\ <<Fixed("evcode"), Fixed("cdf"), Req("icnt")>> \in Seq(Step)
      BY Members
    <2> DEFINE F == <<Fixed("evcode"), Fixed("cdf"), Req("icnt")>>
               G == If(msg.cdf = Bits(1), <<Req("hist")>>)
    <2>3. F \in Seq(Step) /\ G \in Seq(Step)
      BY <2>2 DEF If
    <2>4. Len(F) = 3 /\ F[1] = Fixed("evcode") /\ F[2] = Fixed("cdf") /\ B = F \o G
      BY <2>1
    <2> HIDE DEF F, G, B
    <2>5. Len(B) = 3 + Len(G) /\ Len(G) \in Nat /\ B[1] = F[1] /\ B[2] = F[2]
      <3>1. /\ Len(F \o G) = Len(F) + Len(G) /\ Len(G) \in Nat
            /\ \A k \in 1 .. Len(F) : (F \o G)[k] = F[k]
        BY <2>3, ConcatParts
      <3>2. 1 \in 1 .. Len(F) /\ 2 \in 1 .. Len(F)
        BY <2>4
      <3> QED
        BY <2>4, <2>4, <3>1, <3>2
    <2> QED
      BY <1>3, <2>4, <2>5, TcodesDiffer
  <1>4. ASSUME msg.tcode = TCODE.ICT
        PROVE  /\ Len(B) >= 2 /\ B[1] = Fixed("cksrc") /\ B[2] = Fixed("ckdf")
               /\ msg.tcode # TCODE.Idle
    <2> DEFINE F == <<Fixed("cksrc"), Fixed("ckdf"), Req("ckdata0")>>
               G == IF msg.ckdf \in {Bits(0), Bits(1)} THEN <<Req("ckdata1")>> ELSE <<Unsupported>>
    <2>1. B = F \o G
      BY <1>4, TcodesDiffer DEF EncodeBody, EncodeIct
    <2>2. <<Req("ckdata1")>> \in Seq(Step) /\ <<Unsupported>> \in Seq(Step)
          /\ <<Fixed("cksrc"), Fixed("ckdf"), Req("ckdata0")>> \in Seq(Step)
      BY Members
    <2>3. F \in Seq(Step) /\ G \in Seq(Step)
      BY <2>2
    <2>4. Len(F) = 3 /\ F[1] = Fixed("cksrc") /\ F[2] = Fixed("ckdf")
      OBVIOUS
    <2> HIDE DEF F, G, B
    <2>5. Len(B) = 3 + Len(G) /\ Len(G) \in Nat /\ B[1] = F[1] /\ B[2] = F[2]
      <3>1. /\ Len(F \o G) = Len(F) + Len(G) /\ Len(G) \in Nat
            /\ \A k \in 1 .. Len(F) : (F \o G)[k] = F[k]
        BY <2>3, ConcatParts
      <3>2. 1 \in 1 .. Len(F) /\ 2 \in 1 .. Len(F)
        BY <2>4
      <3> QED
        BY <2>1, <2>4, <3>1, <3>2
    <2> QED
      BY <1>4, <2>4, <2>5, TcodesDiffer
  <1>5. msg.tcode # TCODE.Idle => Plan = (<<Fixed("tcode")>> \o (A \o B)) \o T
    BY PlanParts
  <1> HIDE DEF A, B, T, Plan
  <1>6. ASSUME msg.tcode = TCODE.ProgTraceCorrelation, Plan[j].f = "icnt"
        PROVE  \E i \in 1 .. j - 1 : Plan[i] = Fixed("cdf")
    <2>1. SecondOf(Plan, "evcode", "cdf")
      BY <1>1, <1>2, <1>3, <1>5, <1>6, Zenon DEF SecondOf, Joined
    <2> QED
      BY <2>1, <1>6, SecondBefore
  <1>7. ASSUME msg.tcode = TCODE.ICT, Plan[j].f = "ckdata0"
        PROVE  \E i \in 1 .. j - 1 : Plan[i] = Fixed("ckdf")
    <2>1. SecondOf(Plan, "cksrc", "ckdf")
      BY <1>1, <1>2, <1>4, <1>5, <1>7, Zenon DEF SecondOf, Joined
    <2> QED
      BY <2>1, <1>7, SecondBefore
  <1> QED
    BY <1>6, <1>7

\* The message m has what was read up to step j.
Has(m, j) == \A i \in 1 .. j : \/ TrailStep(Plan[i])
                               \/ Plan[i].f \in DOMAIN m /\ m[Plan[i].f] = msg[Plan[i].f]

\* What follows a field follows from the message that was encoded.
LEMMA MoreSame ==
  ASSUME IInv, NEW off, NEW j \in 1 .. Len(Plan), ReadTo(off, j), ~TrailStep(Plan[j]),
         NEW m, Has(m, j), m["tcode"] = msg["tcode"],
         Closing(Plan[j], msg.tcode), Plan[j].f # "tcode"
  PROVE  DecodeMore(Plan[j].f, m) = DecodeMore(Plan[j].f, msg)
  <1>1. known(msg) /\ Reads(Plan[j]) /\ j \in 1 .. j
    BY DEF ReadTo, FitsStream, Encoded
  <1>2. ASSUME NEW x, x \notin {"timestamp", "ckdata1"}, \E i \in 1 .. j - 1 : Plan[i] = Fixed(x)
        PROVE  m[x] = msg[x]
    <2>1. PICK i \in 1 .. j - 1 : Plan[i] = Fixed(x)
      BY <1>2
    <2>2. i \in 1 .. j /\ Plan[i].f = x
      BY <2>1, Named
    <2> QED
      BY <1>2, <2>2 DEF Has, TrailStep
  <1>3. CASE Plan[j].f = "rcode" /\ msg.tcode = TCODE.ResourceFull
    <2>1. m["rcode"] = msg["rcode"]
      BY <1>1, <1>3 DEF Has
    <2> QED
      BY <1>3, <2>1 DEF DecodeMore
  <1>4. CASE Plan[j].f = "icnt" /\ msg.tcode = TCODE.ProgTraceCorrelation
    <2>1. m["cdf"] = msg["cdf"]
      BY <1>1, <1>2, <1>4, FlagsBefore DEF IInv
    <2> QED
      BY <1>4, <2>1 DEF DecodeMore
  <1>5. CASE Plan[j].f = "ckdata0" /\ msg.tcode = TCODE.ICT
    <2>1. m["ckdf"] = msg["ckdf"]
      BY <1>1, <1>2, <1>5, FlagsBefore DEF IInv
    <2> QED
      BY <1>5, <2>1 DEF DecodeMore
  <1> QED
    BY <1>1, <1>3, <1>4, <1>5, ClosingNames

\* The first step of the list is that of the plan.
LEMMA HeadIs ==
  ASSUME NEW off, NEW j, AtField(off, j), Reads(todo[1])
  PROVE  /\ j \in 1 .. Len(Plan) /\ todo[1] = Plan[j] /\ ~TrailStep(Plan[j])
         /\ Len(todo) > 1 => /\ Follows(Tail(todo), Plan, j + 1, LastRead)
                             /\ Reads(Tail(todo)[1]) <=> ~Varying(Plan[j])
  <1>1. Follows(todo, Plan, j, LastRead)
    BY DEF AtField
  <1>2. todo[1] # Consume /\ todo # <<Time>>
    <2>1. ~Reads(Consume) /\ ~Reads(<<Time>>[1])
      BY DEF Reads, Consume, Time
    <2> QED
      BY <2>1
  <1>3. /\ j \in 1 .. Len(Plan) /\ todo[1] = Plan[j] /\ ~TrailStep(todo[1])
        /\ Len(todo) > 1 => /\ Follows(Tail(todo), Plan, j + 1, LastRead)
                            /\ Reads(Tail(todo)[1]) <=> ~Varying(todo[1])
    <2> DEFINE P == Plan
               e == LastRead
    <2> HIDE DEF P, e
    <2>1. Follows(todo, P, j, e)
      BY <1>1 DEF P, e
    <2>2. /\ j \in 1 .. Len(P) /\ todo[1] = P[j] /\ ~TrailStep(todo[1])
          /\ Len(todo) > 1 => /\ Follows(Tail(todo), P, j + 1, e)
                              /\ Reads(Tail(todo)[1]) <=> ~Varying(todo[1])
      <3> DEFINE t == todo
      <3> HIDE DEF t
      <3>1. Follows(t, P, j, e) /\ t[1] # Consume /\ t # <<Time>>
        BY <1>2, <2>1 DEF t
      <3>2. \/ /\ Reads(t[1]) /\ j \in 1 .. Len(P) /\ t[1] = P[j] /\ ~TrailStep(t[1])
               /\ Len(t) > 1 => /\ Follows(Tail(t), P, j + 1, e)
                                /\ Reads(Tail(t)[1]) <=> ~Varying(t[1])
            \/ /\ t[1] = Consume /\ Len(t) > 1 /\ Follows(Tail(t), P, j, e)
               /\ Tail(t)[1].do \in {"req", "vao"} \/ Tail(t)[1] = Fixed("tcode")
            \/ /\ t = <<Time>> /\ j > 1 /\ \A k \in j .. Len(P) : TrailStep(P[k])
        BY <3>1, FollowsFirst
      <3> QED
        BY <3>1, <3>2, Zenon DEF t
    <2> QED
      BY <2>2 DEF P, e
  <1> QED
    BY <1>3

\* The list goes on with the step behind the one that was read.
LEMMA NextList ==
  ASSUME IInv, phase = "decode", NEW off, NEW j, ReadTo(off, j), AtField(off, j), Reads(todo[1]),
         NEW m, Has(m, j), m["tcode"] = msg["tcode"]
  PROVE  LET L == Tail(todo) \o DecodeMore(todo[1].f, m)
         IN  Follows(L, Plan, j + 1, LastRead) /\ (Reads(L[1]) <=> ~Varying(Plan[j]))
  <1> DEFINE D == DecodeMore(todo[1].f, m)
             L == Tail(todo) \o D
  <1>1. /\ j \in 1 .. Len(Plan) /\ todo[1] = Plan[j] /\ ~TrailStep(Plan[j])
        /\ Len(todo) > 1 => /\ Follows(Tail(todo), Plan, j + 1, LastRead)
                            /\ Reads(Tail(todo)[1]) <=> ~Varying(Plan[j])
    BY HeadIs
  <1>2. todo \in Seq(Step) /\ todo # << >> /\ msg.tcode # TCODE.Idle
    BY DEF AtField, Follows
  <1>3. got["tcode"] = msg["tcode"] /\ ~Pending(todo, "tcode")
    BY TcodeRead
  <1>4. todo[1].f # "tcode"
    <2>1. 1 \in 1 .. Len(todo)
      BY <1>2
    <2> QED
      BY <1>3, <2>1 DEF Pending
  <1>5. Closes(todo, msg.tcode)
    <2>1. todo # <<Skip, Req("timestamp")>> /\ todo # << >> /\ todo # <<Req("timestamp")>>
      <3>1. <<Skip, Req("timestamp")>>[1] = Skip /\ ~Reads(Skip)
            /\ <<Req("timestamp")>>[1].f = "timestamp"
        BY Named DEF Reads, Skip
      <3>2. todo[1].f # "timestamp"
        BY <1>1 DEF TrailStep
      <3> QED
        BY <1>2, <3>1, <3>2
    <2> QED
      BY <1>3, <2>1 DEF IInv, Shape
  <1>6. CASE Closing(todo[1], msg.tcode)
    <2>1. Len(todo) = 1 /\ Tail(todo) = << >>
      BY <1>2, <1>5, <1>6, ClosesFirst
    <2>2. D = DecodeMore(Plan[j].f, msg)
      BY <1>1, <1>4, <1>6, MoreSame
    <2>3. GoesOn(j)
      BY <1>1, <1>2, <1>4, <1>6, PlanHere
    <2>4. D \in Seq(Step)
      BY <2>2, <2>3 DEF GoesOn, Follows
    <2> HIDE DEF D
    <2>5. L = D
      <3>1. \A s \in Seq(Step) : << >> \o s = s
        OBVIOUS
      <3> QED
        BY <2>1, <2>4, <3>1, Zenon
    <2> HIDE DEF L
    <2>6. Follows(L, Plan, j + 1, LastRead) /\ (Reads(L[1]) <=> ~Varying(Plan[j]))
      BY <2>2, <2>3, <2>5 DEF GoesOn
    <2> QED
      BY <2>6 DEF L, D
  <1>7. CASE ~Closing(todo[1], msg.tcode)
    <2>1. todo[1] \in Plain(msg.tcode) /\ Tail(todo) \in Seq(Step) /\ Closes(Tail(todo), msg.tcode)
      BY <1>2, <1>5, <1>7, ClosesTail
    <2>2. Len(todo) > 1
      <3>1. Tail(todo) # << >>
        BY <2>1 DEF Closes
      <3> QED
        BY <1>2, <3>1
    <2>3. D = << >>
      <3>1. m.tcode = msg.tcode
        OBVIOUS
      <3>2. todo[1] \in Plain(m.tcode)
        BY <2>1, <3>1
      <3> QED
        BY <3>2, MoreOfPlain
    <2> HIDE DEF D
    <2>4. L = Tail(todo)
      BY <2>1, <2>3
    <2> HIDE DEF L
    <2>5. Follows(L, Plan, j + 1, LastRead) /\ (Reads(L[1]) <=> ~Varying(Plan[j]))
      BY <1>1, <2>2, <2>4
    <2> QED
      BY <2>5 DEF L, D
  <1> QED
    BY <1>6, <1>7

\* Fields that were read are not set to 0 with the one that is.
LEMMA ResetMisses ==
  ASSUME IInv, phase = "decode", NEW off, NEW j, ReadTo(off, j), AtField(off, j), Reads(todo[1]),
         NEW m, NEW i \in 1 .. j, ~TrailStep(Plan[i])
  PROVE  Plan[i].f \notin Reset(todo[1].f, m)
  <1>1. /\ j \in 1 .. Len(Plan) /\ todo[1] = Plan[j] /\ ~TrailStep(Plan[j])
    BY HeadIs
  <1>2. todo \in Seq(Step) /\ todo # << >> /\ 1 \in 1 .. Len(todo)
    BY DEF AtField, Follows
  <1>3. todo[1].f # "tcode"
    BY <1>2, TcodeRead DEF Pending
  <1>4. CASE todo[1].f # "rcode"
    BY <1>3, <1>4 DEF Reset
  <1>5. CASE todo[1].f = "rcode"
    <2>1. todo[1] \in Step
      BY <1>2
    <2>2. "rcode" \notin DOMAIN StoredBits
      BY FieldKinds, Members
    <2>3. todo[1].do = "fixed"
      BY <1>5, <2>1, <2>2, StepKinds DEF Reads
    <2>4. Plan[i].do = "fixed"
      <3>1. i = j \/ i \in 1 .. j - 1
        BY <1>1
      <3> QED
        BY <1>1, <2>3, <3>1 DEF AtField, Varying
    <2>5. Plan[i].f \in FixedFields
      <3>1. i \in 1 .. Len(Plan)
        BY <1>1
      <3> QED
        BY <2>4, <3>1, PlanIsList, StepKinds
    <2>6. Plan[i].f \notin {"icnt", "hist", "hrepeat"}
      BY <2>5, FieldKinds, Members
    <2> QED
      BY <1>3, <1>5, <2>6 DEF Reset
  <1> QED
    BY <1>4, <1>5

\* A field is read as it was written, and the decoder is at the next one.
LEMMA FieldRead ==
  ASSUME IInv, phase = "decode", size \in Nat, NEW off, NEW j, ReadTo(off, j),
         AtField(off, j), Reads(todo[1]), got["timestamp"] = {},
         NEW v, NEW n, Unpack(todo[1].f, v, n),
         v \cap 0 .. StoredWidth(todo[1].f) - 1 = msg[todo[1].f],
         Varying(Plan[j]) => taken * MDO_BITS = off[j + 1],
         ~Varying(Plan[j]) =>
            /\ (taken - consumed_bytes) * MDO_BITS + (bit_offset + n) = off[j + 1]
            /\ \E k : Reaches(off, j + 1, k)
  PROVE  phase' = "decode" /\ Decoding'
  <1> DEFINE f == todo[1].f
             m == [x \in DOMAIN got \cup {f} |->
                     IF x = f THEN v \cap 0 .. StoredWidth(f) - 1 ELSE got[x]]
             z == Reset(f, m)
             L == Tail(todo) \o DecodeMore(f, m)
  <1>1. /\ j \in 1 .. Len(Plan) /\ todo[1] = Plan[j] /\ ~TrailStep(Plan[j])
    BY HeadIs
  <1>2. /\ got' = [x \in DOMAIN m \cup z |-> IF x \in z THEN {} ELSE m[x]]
        /\ bit_offset' = bit_offset + n /\ todo' = L
        /\ UNCHANGED <<inputs, phase, rc, given, taken, consumed_bytes, eom>>
    BY DEF Unpack
  <1>3. UNCHANGED inputs /\ phase' = "decode" /\ UNCHANGED <<hwcfg, msg, size>>
        /\ UNCHANGED <<taken, consumed_bytes, eom>>
    BY <1>2 DEF inputs
  <1>4. todo \in Seq(Step) /\ 1 \in 1 .. Len(todo)
    BY DEF AtField, Follows
  <1>5. "tcode" \in DOMAIN got /\ got["tcode"] = msg["tcode"] /\ f # "tcode"
    BY <1>4, TcodeRead DEF Pending
  <1>6. m["tcode"] = msg["tcode"]
    BY <1>5
  <1>7. Has(m, j)
    <2> SUFFICES ASSUME NEW i \in 1 .. j, ~TrailStep(Plan[i])
                 PROVE  Plan[i].f \in DOMAIN m /\ m[Plan[i].f] = msg[Plan[i].f]
      BY DEF Has
    <2>1. CASE Plan[i].f = f
      BY <2>1
    <2>2. CASE Plan[i].f # f
      <3>1. i \in 1 .. j - 1
        BY <1>1, <2>2
      <3>2. Plan[i].f \in DOMAIN got /\ got[Plan[i].f] = msg[Plan[i].f]
        BY <3>1 DEF ReadTo
      <3> QED
        BY <2>2, <3>2
    <2> QED
      BY <2>1, <2>2
  <1>8. Follows(L, Plan, j + 1, LastRead) /\ (Reads(L[1]) <=> ~Varying(Plan[j]))
    BY <1>6, <1>7, NextList
  <1>9. \A i \in 1 .. j : ~TrailStep(Plan[i]) => Plan[i].f \notin z
    BY ResetMisses
  <1>10. f # "timestamp" /\ "timestamp" \in DOMAIN got
    BY <1>1 DEF TrailStep, ReadTo
  <1>11. "timestamp" \in DOMAIN got' /\ got'["timestamp"] = {}
    <2>1. "timestamp" \in DOMAIN m /\ m["timestamp"] = {}
      BY <1>10
    <2> HIDE DEF m, z
    <2> QED
      BY <1>2, <2>1
  <1> HIDE DEF m, z, L
  <1>12. \A i \in 1 .. j : ~TrailStep(Plan[i]) =>
            Plan[i].f \in DOMAIN got' /\ got'[Plan[i].f] = msg[Plan[i].f]
    BY <1>2, <1>7, <1>9 DEF Has
  <1>13. Len(Plan) \in Nat /\ j \in Nat /\ j + 1 \in 1 .. Len(Plan) + 1 /\ (j + 1) - 1 = j
    BY <1>1, PlanIsList
  <1>14. ReadTo(off, j + 1)'
    <2>1. taken' <= size /\ (eom' <=> taken' = size)
      BY <1>3 DEF ReadTo
    <2>2. \A i \in 1 .. (j + 1) - 1 : \/ TrailStep(Plan[i])
                                      \/ Plan[i].f \in DOMAIN got' /\ got'[Plan[i].f] = msg[Plan[i].f]
      BY <1>12, <1>13
    <2> QED
      BY <1>3, <1>11, <1>13, <2>1, <2>2, ReadToStep
  <1>15. Plan' = Plan
    BY <1>3, InputsStay
  <1>16. Follows(todo, Plan, j + 1, LastRead)'
    BY <1>2, <1>3, <1>8, FollowsStays
  <1>18. Reads(todo'[1]) <=> ~Varying(Plan[j])
    BY <1>2, <1>8
  <1>19. ASSUME ~Varying(Plan[j]) PROVE Inside(off, j + 1)'
    <2>1. PICK k : Reaches(off, j + 1, k)
      BY <1>19
    <2>2. /\ k \in j + 1 .. Len(Plan) /\ Closed(k) /\ \A i \in j + 1 .. k - 1 : ~Closed(i)
          /\ taken' * MDO_BITS = off[k + 1]
      BY <1>3, <2>1 DEF Reaches
    <2>3. (taken' - consumed_bytes') * MDO_BITS + bit_offset' = off[j + 1]
      BY <1>2, <1>3, <1>19
    <2> QED
      BY <1>3, <2>2, <2>3, PositionsStay
  <1>20. ASSUME Varying(Plan[j]) PROVE Between(off, j + 1)'
    BY <1>3, <1>20, PositionsStay
  <1>21. ASSUME todo'[1].do = "fixed" PROVE (\A i \in 1 .. (j + 1) - 1 : ~Varying(Plan[i]))'
    <2>1. ~Varying(Plan[j])
      BY <1>18, <1>21 DEF Reads
    <2>2. \A i \in 1 .. j - 1 : ~Varying(Plan[i])
      BY <1>1, <2>1 DEF AtField, Varying
    <2>3. \A i \in 1 .. (j + 1) - 1 : i = j \/ i \in 1 .. j - 1
      BY <1>13
    <2> QED
      BY <1>15, <2>1, <2>2, <2>3 DEF Varying
  <1>22. AtField(off, j + 1)'
    <2>1. msg'.tcode # TCODE.Idle /\ j + 1 > 1
      BY <1>3, <1>13 DEF AtField
    <2>2. (Reads(todo[1]) => Inside(off, j + 1))' /\ (~Reads(todo[1]) => Between(off, j + 1))'
      BY <1>18, <1>19, <1>20 DEF Reads
    <2> QED
      BY <1>16, <1>21, <2>1, <2>2 DEF AtField
  <1> QED
    BY <1>3, <1>11, <1>14, <1>22 DEF Decoding

\* The plan of an Idle message.
LEMMA IdlePlan ==
  known(msg) /\ msg.tcode = TCODE.Idle => Plan = <<Fixed("tcode")>>
  <1> SUFFICES ASSUME known(msg), msg.tcode = TCODE.Idle PROVE Plan = <<Fixed("tcode")>>
    OBVIOUS
  <1>1. Plan = <<Fixed("tcode")>> \o << >>
    BY DEF Plan, EncodeSteps, If
  <1> QED
    BY <1>1

\* The TCODE is read.
LEMMA TcodeDecodes ==
  ASSUME IInv, phase = "decode", size \in Nat, NEW off, NEW j, ReadTo(off, j),
         AtTcode(off, j), todo = <<Fixed("tcode")>>, got["timestamp"] = {}, UnpackFixed
  PROVE  phase' = "decode" /\ Decoding'
  <1> DEFINE n == FixedWidth("tcode")
             v == Unpacked(n)
             m == [x \in DOMAIN got \cup {"tcode"} |->
                     IF x = "tcode" THEN v \cap 0 .. StoredWidth("tcode") - 1 ELSE got[x]]
             z == Reset("tcode", m)
             D == DecodeMore("tcode", m)
  <1>1. j = 1 /\ Inside(off, 1) /\ FitsStream /\ Encoded(off) /\ known(msg)
    <2>1. todo # <<Consume, Fixed("tcode")>>
      OBVIOUS
    <2> QED
      BY <2>1 DEF AtTcode, ReadTo, FitsStream
  <1>2. /\ Plan[1] = Fixed("tcode") /\ Len(Plan) \in Nat /\ 1 \in 1 .. Len(Plan)
        /\ Fixed("tcode").f = "tcode" /\ Fixed("tcode").do = "fixed"
    <2>1. Plan[1] = Fixed("tcode")
      BY <1>1, IdlePlan, PlanHere
    <2>2. Len(Plan) \in Nat /\ Len(Plan) # 0
      BY PlanIsList
    <2> QED
      BY <2>1, <2>2 DEF Fixed
  <1>3. /\ n \in Nat /\ ~(BitsLeft < n)
        /\ v \cap 0 .. StoredWidth("tcode") - 1 = msg["tcode"]
        /\ ~Closed(1) => (taken - consumed_bytes) * MDO_BITS + (bit_offset + n) = off[2]
        /\ ~Closed(1) => \E k : Reaches(off, 2, k)
        /\ Closed(1) => taken * MDO_BITS = off[2]
    <2>1. Plan[1].do = "fixed" /\ Plan[1].f = "tcode" /\ 1 + 1 = 2
      BY <1>2
    <2> QED
      BY <1>1, <1>2, <2>1, FixedBack
  <1>4. Unpack("tcode", v, n)
    <2>1. todo[1].f = "tcode"
      BY <1>2
    <2> QED
      BY <1>3, <2>1 DEF UnpackFixed
  <1>5. /\ got' = [x \in DOMAIN m \cup z |-> IF x \in z THEN {} ELSE m[x]]
        /\ bit_offset' = bit_offset + n /\ todo' = Tail(todo) \o D
        /\ UNCHANGED <<inputs, phase, rc, given, taken, consumed_bytes, eom>>
    BY <1>4 DEF Unpack
  <1>6. UNCHANGED inputs /\ phase' = "decode" /\ UNCHANGED <<hwcfg, msg, size>>
        /\ UNCHANGED <<taken, consumed_bytes, eom>>
    BY <1>5 DEF inputs
  <1>7. m["tcode"] = msg["tcode"] /\ "tcode" \in DOMAIN m
    BY <1>3
  <1>8. "timestamp" \in DOMAIN m /\ m["timestamp"] = {}
    BY DEF ReadTo
  <1>9. "tcode" \notin z
    BY DEF Reset
  <1>10. D = DecodeMore("tcode", msg)
    BY <1>7 DEF DecodeMore
  <1> HIDE DEF m, z, D, v, n
  <1>11. /\ "tcode" \in DOMAIN got' /\ got'["tcode"] = msg["tcode"]
         /\ "timestamp" \in DOMAIN got' /\ got'["timestamp"] = {}
    BY <1>5, <1>7, <1>8, <1>9
  <1>12. D \in Seq(Step) => todo' = D
    <2>1. \A s \in Seq(Step) : << >> \o s = s
      OBVIOUS
    <2>2. Tail(todo) = << >>
      OBVIOUS
    <2> QED
      BY <1>5, <2>1, <2>2
  <1>13. ReadTo(off, 2)'
    <2>1. taken' <= size /\ (eom' <=> taken' = size)
      BY <1>6 DEF ReadTo
    <2>2. \A i \in 1 .. 2 - 1 : Plan[i].f \in DOMAIN got' /\ got'[Plan[i].f] = msg[Plan[i].f]
      BY <1>2, <1>11
    <2>3. 2 \in 1 .. Len(Plan) + 1
      BY <1>2
    <2> QED
      BY <1>6, <1>11, <2>1, <2>2, <2>3, ReadToStep
  <1>14. Plan' = Plan
    BY <1>6, InputsStay
  <1>15. CASE msg.tcode = TCODE.Idle
    <2>1. D = <<IdleEnds>>
      BY <1>10, <1>15 DEF DecodeMore
    <2>2. Plan = <<Fixed("tcode")>>
      BY <1>1, <1>15, IdlePlan
    <2>3. Len(Plan) = 1 /\ Closed(1)
      BY <2>2 DEF Closed
    <2>4. todo' = <<IdleEnds>>
      <3>1. <<IdleEnds>> \in Seq(Step)
        BY Members
      <3> QED
        BY <1>12, <2>1, <3>1
    <2>5. Between(off, 2)'
      BY <1>3, <1>6, <2>3 DEF Between
    <2>6. AtIdle(off, 2)'
      BY <1>6, <1>14, <1>15, <2>3, <2>4, <2>5 DEF AtIdle
    <2> QED
      BY <1>6, <1>11, <1>13, <2>6 DEF Decoding
  <1>16. CASE msg.tcode # TCODE.Idle
    <2>1. Follows(D, Plan, 2, LastRead) /\ Reads(D[1])
      BY <1>1, <1>10, <1>16, PlanHere
    <2>2. todo' = D
      BY <1>12, <2>1 DEF Follows
    <2>3. Follows(todo, Plan, 2, LastRead)'
      BY <1>6, <2>1, <2>2, FollowsStays
    <2>4. ~Closed(1) /\ ~Varying(Plan[1])
      <3>1. Closed(1) <=> Varying(Plan[1])
        BY <1>1, <1>2, <1>16, PlanHere
      <3> QED
        BY <1>2, <3>1 DEF Varying
    <2>5. Inside(off, 2)'
      <3>1. PICK k : Reaches(off, 2, k)
        BY <1>3, <2>4
      <3>2. /\ k \in 2 .. Len(Plan) /\ Closed(k) /\ \A i \in 2 .. k - 1 : ~Closed(i)
            /\ taken' * MDO_BITS = off[k + 1]
        BY <1>6, <3>1 DEF Reaches
      <3>3. (taken' - consumed_bytes') * MDO_BITS + bit_offset' = off[2]
        BY <1>3, <1>5, <1>6, <2>4
      <3> QED
        BY <1>6, <3>2, <3>3, PositionsStay
    <2>6. (\A i \in 1 .. 2 - 1 : ~Varying(Plan[i]))'
      BY <1>14, <2>4 DEF Varying
    <2>7. AtField(off, 2)'
      BY <1>6, <1>16, <2>1, <2>2, <2>3, <2>5, <2>6 DEF AtField, Reads
    <2> QED
      BY <1>6, <1>11, <1>13, <2>7 DEF Decoding
  <1> QED
    BY <1>15, <1>16

\* UNPACK_... of a field of fixed width.
LEMMA FixedDecodes ==
  ASSUME IInv, phase = "decode", size \in Nat, Decoding, UnpackFixed
  PROVE  phase' = "decode" /\ Decoding'
  <1>1. PICK off, j : /\ ReadTo(off, j)
                      /\ \/ /\ got["timestamp"] = {}
                            /\ \/ AtTcode(off, j) \/ AtField(off, j)
                               \/ AtIdle(off, j) \/ AtRest(off, j)
                         \/ AtEnd(j)
    BY DEF Decoding
  <1>2. todo # << >> /\ todo[1].do = "fixed"
    BY DEF UnpackFixed, Does
  <1>3. ~AtIdle(off, j) /\ ~AtRest(off, j) /\ ~AtEnd(j) /\ got["timestamp"] = {}
    BY <1>1, <1>2, Firsts, DoNames
  <1>4. CASE AtTcode(off, j)
    <2>1. todo = <<Fixed("tcode")>>
      BY <1>2, <1>4, DoNames DEF AtTcode
    <2> QED
      BY <1>1, <1>3, <1>4, <2>1, TcodeDecodes
  <1>5. CASE AtField(off, j)
    <2> DEFINE f == todo[1].f
               n == FixedWidth(f)
    <2>1. Reads(todo[1])
      BY <1>2 DEF Reads
    <2>2. j \in 1 .. Len(Plan) /\ todo[1] = Plan[j]
      BY <1>5, <2>1, HeadIs
    <2>3. Inside(off, j) /\ msg.tcode # TCODE.Idle
      BY <1>5, <2>1 DEF AtField
    <2>4. ~Closed(j) /\ ~Varying(Plan[j])
      <3>1. Closed(j) <=> Varying(Plan[j])
        BY <1>1, <2>2, <2>3, PlanHere
      <3> QED
        BY <1>2, <2>2, <3>1 DEF Varying
    <2>5. /\ n \in Nat /\ ~(BitsLeft < n)
          /\ Unpacked(n) \cap 0 .. StoredWidth(f) - 1 = msg[f]
          /\ (taken - consumed_bytes) * MDO_BITS + (bit_offset + n) = off[j + 1]
          /\ \E k : Reaches(off, j + 1, k)
      <3>1. FitsStream /\ Encoded(off) /\ Plan[j].do = "fixed"
        BY <1>1, <1>2, <2>2 DEF ReadTo
      <3> QED
        BY <2>2, <2>3, <2>4, <3>1, FixedBack
    <2>6. Unpack(f, Unpacked(n), n)
      BY <2>5 DEF UnpackFixed
    <2> QED
      BY <1>1, <1>3, <1>5, <2>1, <2>4, <2>5, <2>6, FieldRead
  <1> QED
    BY <1>1, <1>3, <1>4, <1>5

\* The timestamp is read from the last bytes that were skipped.
LEMMA StampDecodes ==
  ASSUME IInv, phase = "decode", size \in Nat, NEW off, NEW j, ReadTo(off, j),
         AtRest(off, j), todo = <<Req("timestamp")>>, UnpackVar
  PROVE  phase' = "decode" /\ Decoding'
  <1> DEFINE f == "timestamp"
             v == Unpacked(BitsLeft)
             w == v \cap 0 .. StoredWidth(f) - 1
             m == [x \in DOMAIN got \cup {f} |-> IF x = f THEN w ELSE got[x]]
  <1>1. /\ hwcfg.ts_bits > 0 /\ eom /\ LastGroup(off, j) /\ msg.tcode # TCODE.Idle /\ j > 1
        /\ Between(off, j) /\ \A k \in j .. Len(Plan) : TrailStep(Plan[k])
    <2>1. todo # <<Skip>> /\ todo # <<Skip, Req("timestamp")>>
      <3>1. Req("timestamp") # Skip
        BY DEF Req, Skip
      <3> QED
        BY <3>1
    <2> QED
      BY <2>1 DEF AtRest
  <1>2. /\ bit_offset = 0 /\ consumed_bytes > 0 /\ j > 2 /\ TrailStep(Plan[j - 1])
        /\ (taken - consumed_bytes) * MDO_BITS = off[j - 1]
    BY <1>1 DEF LastGroup
  <1>3. /\ Len(Plan) \in Nat /\ j \in 1 .. Len(Plan) + 1 /\ j - 1 \in 1 .. Len(Plan) /\ (j - 1) + 1 = j
        /\ Plan[j - 1] \in Step /\ Reads(Plan[j - 1]) /\ off[j - 1] \in Nat
    <2>1. Len(Plan) \in Nat /\ j \in 1 .. Len(Plan) + 1
      BY EncodedFacts DEF IInv, ReadTo
    <2>2. j - 1 \in 1 .. Len(Plan) /\ (j - 1) + 1 = j /\ j - 1 \in 1 .. Len(Plan) + 1
      BY <1>2, <2>1
    <2> QED
      BY <2>1, <2>2, EncodedFacts DEF IInv, ReadTo
  <1>4. Varying(Plan[j - 1]) /\ Closed(j - 1)
    BY <1>2, <1>3, TrailVaries DEF Closed, Varies, Varying
  <1>5. Inside(off, j - 1)
    <2>1. (taken - consumed_bytes) * MDO_BITS + bit_offset = off[j - 1]
      BY <1>2, <1>3
    <2>2. Reaches(off, j - 1, j - 1)
      <3>1. j - 1 \in j - 1 .. Len(Plan) /\ \A i : i \notin j - 1 .. (j - 1) - 1
        BY <1>3
      <3>2. taken * MDO_BITS = off[(j - 1) + 1]
        BY <1>1, <1>3 DEF Between
      <3> QED
        BY <1>4, <3>1, <3>2 DEF Reaches
    <2> QED
      BY <2>1, <2>2 DEF Inside
  <1>6. Plan[j - 1].do \in {"var", "req"} /\ Plan[j - 1].f \in {"timestamp", "ckdata1"}
    <2>1. CASE Plan[j - 1].f = "timestamp"
      <3>1. Plan[j - 1] \in {Req("timestamp"), Var("timestamp")}
        BY <1>1, <1>3, <2>1, PlanHere
      <3> QED
        BY <2>1, <3>1, DoNames
    <2>2. CASE Plan[j - 1].f # "timestamp"
      BY <1>2, <2>2 DEF TrailStep
    <2> QED
      BY <2>1, <2>2
  <1>7. /\ BitsLeft \in Nat
        /\ v \cap 0 .. StoredWidth(Plan[j - 1].f) - 1 = msg[Plan[j - 1].f]
    <2> DEFINE i == j - 1
    <2>1. /\ i \in 1 .. Len(Plan) /\ Inside(off, i) /\ Plan[i].do \in {"var", "req", "vao"}
          /\ Plan[i].do # "vao" /\ FitsStream /\ Encoded(off)
      BY <1>3, <1>5, <1>6 DEF ReadTo
    <2> HIDE DEF i
    <2>2. /\ BitsLeft \in Nat
          /\ v \cap 0 .. StoredWidth(Plan[i].f) - 1 = msg[Plan[i].f]
      BY <2>1, VarBack
    <2> QED
      BY <2>2 DEF i
  <1>8. BitsLeft # 0
    <2>1. consumed_bytes \in Nat /\ consumed_bytes # 0
      BY <1>2, Facts
    <2>2. \A a, b \in Nat : a # 0 /\ b # 0 => a * b - 0 # 0
      OBVIOUS
    <2>3. consumed_bytes * MDO_BITS - 0 # 0
      BY <2>1, <2>2, Constants
    <2> QED
      BY <1>2, <2>3 DEF BitsLeft
  <1>9. w = msg["timestamp"]
    <2>1. CASE Plan[j - 1].f = "timestamp"
      BY <1>7, <2>1
    <2>2. CASE Plan[j - 1].f = "ckdata1"
      <3>1. msg.tcode = TCODE.ICT /\ msg.ckdf = Bits(0)
        BY <1>2, <2>2 DEF TrailStep
      <3>2. msg["ckdata1"] = {}
        BY <3>1 DEF ReadTo, FitsStream
      <3>3. StoredWidth("ckdata1") = StoredWidth("timestamp")
        BY DEF StoredWidth, StoredBits
      <3>4. w = {}
        BY <1>7, <2>2, <3>2, <3>3
      <3>5. j \in 1 .. Len(Plan)
        <4>1. j - 1 # Len(Plan)
          <5>1. Plan[Len(Plan)].f = "timestamp"
            BY <1>1, PlanHere, Named
          <5> QED
            BY <2>2, <5>1
        <4> QED
          BY <1>3, <4>1
      <3>6. msg["timestamp"] = {}
        BY <1>1, <3>5, NoTime
      <3> QED
        BY <3>4, <3>6
    <2> QED
      BY <1>6, <2>1, <2>2
  <1>10. Unpack(f, v, BitsLeft)
    <2>1. todo[1].f = f /\ todo[1].do = "req"
      BY DoNames, Named
    <2> QED
      BY <1>8, <2>1 DEF UnpackVar
  <1>11. Reset(f, m) = {} /\ DecodeMore(f, m) = << >>
    BY DEF Reset, DecodeMore
  <1>12. /\ got' = [x \in DOMAIN m |-> m[x]] /\ todo' = << >>
         /\ UNCHANGED <<inputs, phase, rc, given, taken, consumed_bytes, eom>>
    <2>1. /\ got' = [x \in DOMAIN m \cup Reset(f, m) |-> IF x \in Reset(f, m) THEN {} ELSE m[x]]
          /\ todo' = Tail(todo) \o DecodeMore(f, m)
          /\ UNCHANGED <<inputs, phase, rc, given, taken, consumed_bytes, eom>>
      BY <1>10 DEF Unpack
    <2>2. Tail(todo) = << >> /\ << >> \o << >> = << >>
      OBVIOUS
    <2> QED
      BY <1>11, <2>1, <2>2
  <1>13. UNCHANGED inputs /\ phase' = "decode" /\ UNCHANGED <<hwcfg, msg, size>>
        /\ UNCHANGED <<taken, consumed_bytes, eom>>
    BY <1>12 DEF inputs
  <1>14. /\ "timestamp" \in DOMAIN got' /\ got'["timestamp"] = msg["timestamp"]
         /\ \A x \in DOMAIN got : x # f => x \in DOMAIN got' /\ got'[x] = got[x]
    BY <1>9, <1>12
  <1> HIDE DEF m, w, v
  <1>15. ReadTo(off, j)'
    <2>1. taken' <= size /\ (eom' <=> taken' = size)
      BY <1>13 DEF ReadTo
    <2>2. ASSUME NEW i \in 1 .. j - 1
          PROVE  \/ TrailStep(Plan[i])
                 \/ Plan[i].f \in DOMAIN got' /\ got'[Plan[i].f] = msg[Plan[i].f]
      <3>1. CASE TrailStep(Plan[i])
        BY <3>1
      <3>2. CASE ~TrailStep(Plan[i])
        <4>1. Plan[i].f \in DOMAIN got /\ got[Plan[i].f] = msg[Plan[i].f] /\ Plan[i].f # f
          BY <3>2 DEF ReadTo, TrailStep
        <4> QED
          BY <1>14, <4>1
      <3> QED
        BY <3>1, <3>2
    <2> QED
      BY <1>3, <1>13, <1>14, <2>1, <2>2, ReadToStep
  <1>16. AtEnd(j)'
    <2>1. Plan' = Plan /\ \A s : TrailStep(s)' <=> TrailStep(s)
      BY <1>13, InputsStay
    <2>2. TimeRead'
      BY <1>13, <1>14 DEF TimeRead
    <2>3. (\A k \in j .. Len(Plan) : TrailStep(Plan[k]))'
      BY <1>1, <1>13, <2>1 DEF TrailStep
    <2> QED
      BY <1>1, <1>12, <1>13, <2>2, <2>3 DEF AtEnd
  <1> QED
    BY <1>13, <1>15, <1>16 DEF Decoding

\* UNPACK_... of a field of variable width.
LEMMA VarDecodes ==
  ASSUME IInv, phase = "decode", size \in Nat, Decoding, UnpackVar
  PROVE  phase' = "decode" /\ Decoding'
  <1>1. PICK off, j : /\ ReadTo(off, j)
                      /\ \/ /\ got["timestamp"] = {}
                            /\ \/ AtTcode(off, j) \/ AtField(off, j)
                               \/ AtIdle(off, j) \/ AtRest(off, j)
                         \/ AtEnd(j)
    BY DEF Decoding
  <1>2. todo # << >> /\ todo[1].do \in {"var", "req", "vao"}
    BY DEF UnpackVar, Does
  <1>3. ~AtIdle(off, j) /\ ~AtTcode(off, j) /\ ~AtEnd(j) /\ got["timestamp"] = {}
    BY <1>1, <1>2, Firsts, DoNames
  <1>4. CASE AtRest(off, j)
    <2>1. todo = <<Req("timestamp")>>
      <3>1. Skip.do = "skip"
        BY DoNames
      <3> QED
        BY <1>2, <1>4, <3>1 DEF AtRest
    <2> QED
      BY <1>1, <1>4, <2>1, StampDecodes
  <1>5. CASE AtField(off, j)
    <2> DEFINE f == todo[1].f
               u == Unpacked(BitsLeft)
               v == IF todo[1].do = "vao" THEN SignExtended(u, BitsLeft) ELSE u
    <2>1. Reads(todo[1])
      BY <1>2 DEF Reads
    <2>2. j \in 1 .. Len(Plan) /\ todo[1] = Plan[j]
      BY <1>5, <2>1, HeadIs
    <2>3. Inside(off, j)
      BY <1>5, <2>1 DEF AtField
    <2>4. /\ BitsLeft \in Nat /\ (todo[1].do # "var" => BitsLeft # 0)
          /\ v \cap 0 .. StoredWidth(f) - 1 = msg[f]
          /\ taken * MDO_BITS = off[j + 1]
      <3>1. FitsStream /\ Encoded(off) /\ Plan[j].do \in {"var", "req", "vao"}
        BY <1>1, <1>2, <2>2 DEF ReadTo
      <3> QED
        BY <2>2, <2>3, <3>1, VarBack
    <2>5. Unpack(f, v, BitsLeft)
      BY <2>4 DEF UnpackVar
    <2>6. Varying(Plan[j])
      BY <1>2, <2>2 DEF Varying
    <2> QED
      BY <1>1, <1>3, <1>5, <2>1, <2>4, <2>5, <2>6, FieldRead
  <1> QED
    BY <1>1, <1>3, <1>4, <1>5

-----------------------------------------------------------------------------
(***************************************************************************)
(* From one end to the other.                                              *)
(***************************************************************************)
\* Where the message is, from the first step of the encoder to the last of the
\* decoder.
Carried == /\ phase = "encode" => Encoding
           /\ phase = "encoded" /\ size > 0 => FitsStream /\ \E off : Encoded(off)
           /\ phase = "decode" /\ size > 0 => Decoding
           /\ phase = "done" /\ size > 0 => Result

\* Nothing of it changes by itself.
LEMMA EncodingStays == Encoding /\ UNCHANGED vars => Encoding'
  <1> SUFFICES ASSUME Encoding, UNCHANGED vars PROVE Encoding'
    OBVIOUS
  <1>1. UNCHANGED <<hwcfg, msg, buffer, todo, bit_offset, size>>
    BY DEF vars
  <1>2. /\ Plan' = Plan /\ (FitsStream' <=> FitsStream) /\ (known(msg)' <=> known(msg))
        /\ \A s, p : WidthAt(s, p)' = WidthAt(s, p)
    BY <1>1, PlanStays DEF known
  <1>3. PICK n \in Nat : /\ Len(Plan) = n + Len(todo)
                         /\ \A i \in 1 .. Len(todo) : todo[i] = Plan[n + i]
                         /\ \E off : Laid(off, n)
    BY DEF Encoding
  <1>4. PICK off : Laid(off, n)
    BY <1>3
  <1>5. Laid(off, n)'
    <2>1. \A i : WidthAt(Plan[i], off[i])' = WidthAt(Plan[i], off[i])
      BY <1>2
    <2>2. \A i : Holds(off, i)' <=> Holds(off, i)
      BY <1>1, <1>2, <2>1 DEF Holds, BitOf
    <2>3. \A i : Varies(i)' <=> Varies(i)
      BY <1>2 DEF Varies
    <2>4. \A i : EndOf(off, i, Varies(i))' = EndOf(off, i, Varies(i))
      BY <2>1, <2>3 DEF EndOf, Bytes
    <2>5. Ascends(off, n)' <=> Ascends(off, n)
      BY DEF Ascends
    <2>6. \A p : BitOf(buffer, p)' <=> BitOf(buffer, p)
      BY <1>1 DEF BitOf
    <2>7. Bytes(bit_offset)' = Bytes(bit_offset)
      BY <1>1 DEF Bytes
    <2> QED
      BY <1>1, <1>2, <1>4, <2>2, <2>3, <2>4, <2>5, <2>6, <2>7, Zenon DEF Laid, Reads
  <1> QED
    BY <1>1, <1>2, <1>3, <1>5 DEF Encoding

\* A step that changes nothing keeps what is known of a message being decoded.
LEMMA DecodingStays == Decoding /\ UNCHANGED vars => Decoding'
  <1> SUFFICES ASSUME Decoding, UNCHANGED vars PROVE Decoding'
    OBVIOUS
  <1>1. /\ UNCHANGED inputs /\ UNCHANGED <<hwcfg, msg, size, todo, bit_offset>>
        /\ UNCHANGED <<given, taken, consumed_bytes, eom, got>>
    BY DEF vars, inputs
  <1>2. /\ Plan' = Plan /\ LastRead' = LastRead
        /\ \A s : TrailStep(s)' <=> TrailStep(s)
        /\ \A i : Closed(i)' <=> Closed(i)
    BY <1>1, InputsStay
  <1>3. PICK off, j : /\ ReadTo(off, j)
                      /\ \/ /\ got["timestamp"] = {}
                            /\ \/ AtTcode(off, j) \/ AtField(off, j)
                               \/ AtIdle(off, j) \/ AtRest(off, j)
                         \/ AtEnd(j)
    BY DEF Decoding
  <1>4. ReadTo(off, j)'
    <2>1. /\ j \in 1 .. Len(Plan) + 1
          /\ taken' <= size /\ (eom' <=> taken' = size) /\ "timestamp" \in DOMAIN got'
          /\ \A i \in 1 .. j - 1 : \/ TrailStep(Plan[i])
                                   \/ Plan[i].f \in DOMAIN got' /\ got'[Plan[i].f] = msg[Plan[i].f]
      BY <1>1, <1>3 DEF ReadTo
    <2> QED
      BY <1>1, <1>3, <2>1, ReadToStep
  <1>5. (Between(off, j)' <=> Between(off, j)) /\ (Inside(off, j)' <=> Inside(off, j))
    BY <1>1, <1>2 DEF Between, Inside, Reaches
  <1>6. \A k : TrailStep(Plan[k])' <=> TrailStep(Plan[k])
    BY <1>1, <1>2 DEF TrailStep
  <1>7. AtTcode(off, j) => AtTcode(off, j)'
    BY <1>1, <1>5 DEF AtTcode
  <1>8. AtField(off, j) => AtField(off, j)'
    <2> SUFFICES ASSUME AtField(off, j) PROVE AtField(off, j)'
      OBVIOUS
    <2>1. Follows(todo, Plan, j, LastRead)'
      BY <1>1, FollowsStays DEF AtField
    <2> QED
      BY <1>1, <1>2, <1>5, <2>1 DEF AtField, Reads, Varying
  <1>9. AtIdle(off, j) => AtIdle(off, j)'
    BY <1>1, <1>2, <1>5 DEF AtIdle
  <1>10. AtRest(off, j) => AtRest(off, j)'
    <2>1. LastGroup(off, j) => LastGroup(off, j)'
      BY <1>1, <1>6 DEF LastGroup
    <2> QED
      BY <1>1, <1>2, <1>5, <1>6, <2>1 DEF AtRest
  <1>11. AtEnd(j) => AtEnd(j)'
    BY <1>1, <1>2, <1>6 DEF AtEnd, TimeRead
  <1> QED
    BY <1>1, <1>3, <1>4, <1>7, <1>8, <1>9, <1>10, <1>11 DEF Decoding

\* A step that changes nothing keeps what is known of the result.
LEMMA ResultStays == Result /\ UNCHANGED vars => Result'
  <1> SUFFICES ASSUME Result, UNCHANGED vars PROVE Result'
    OBVIOUS
  <1>1. /\ UNCHANGED inputs /\ UNCHANGED <<hwcfg, msg, size, rc>>
        /\ UNCHANGED <<given, taken, consumed_bytes, eom, got>>
    BY DEF vars, inputs
  <1>2. Plan' = Plan /\ \A s : TrailStep(s)' <=> TrailStep(s)
    BY <1>1, InputsStay
  <1>3. \A k : TrailStep(Plan[k])' <=> TrailStep(Plan[k])
    BY <1>1, <1>2 DEF TrailStep
  <1> QED
    BY <1>1, <1>2, <1>3 DEF Result, TimeRead

\* Calls that change nothing of the message.
LEMMA DecodeKeeps ==
  ASSUME \/ ConsumeBytes \/ SkipBytes \/ UnpackFixed \/ UnpackVar \/ UnpackTime
         \/ DecodeIdle \/ DecodeEnds
  PROVE  phase = "decode" /\ phase' \in {"decode", "done"} /\ size' = size
  <1>1. ASSUME NEW code, Ends(code), phase = "decode"
        PROVE  phase' \in {"decode", "done"} /\ size' = size
    BY <1>1 DEF Ends, Return, inputs
  <1>2. ASSUME Consumes, phase = "decode"
        PROVE  phase' \in {"decode", "done"} /\ size' = size
    BY <1>2 DEF Consumes, inputs
  <1>3. ASSUME NEW f, NEW v, NEW n, Unpack(f, v, n), phase = "decode"
        PROVE  phase' \in {"decode", "done"} /\ size' = size
    BY <1>3 DEF Unpack, inputs
  <1>4. CASE ConsumeBytes
    BY <1>1, <1>2, <1>4 DEF ConsumeBytes, Does
  <1>5. CASE SkipBytes
    BY <1>1, <1>2, <1>5 DEF SkipBytes, Does, inputs
  <1>6. CASE UnpackFixed
    BY <1>1, <1>3, <1>6 DEF UnpackFixed, Does
  <1>7. CASE UnpackVar
    <2>1. phase = "decode"
      BY <1>7 DEF UnpackVar, Does
    <2>2. Ends("missing_field") \/ \E f, v, n : Unpack(f, v, n)
      BY <1>7 DEF UnpackVar
    <2> QED
      BY <1>1, <1>3, <2>1, <2>2
  <1>8. CASE UnpackTime
    BY <1>1, <1>8 DEF UnpackTime, Does, inputs
  <1>9. CASE DecodeIdle
    BY <1>1, <1>9 DEF DecodeIdle, Does
  <1>10. CASE DecodeEnds
    BY <1>1, <1>10 DEF DecodeEnds
  <1> QED
    BY <1>4, <1>5, <1>6, <1>7, <1>8, <1>9, <1>10

\* A message is carried from its beginning.
LEMMA CarriedInit == Representable /\ Init => Carried
  <1> SUFFICES ASSUME Representable, Init PROVE Carried
    OBVIOUS
  <1>1. size = 0 /\ phase \in {"encode", "encoded"}
    BY CodecAssumption DEF Init, IsInput
  <1>2. phase = "encode" => Encoding
    BY EncodingBegins
  <1> QED
    BY <1>1, <1>2 DEF Carried

\* The calls of the encoder carry it on.
LEMMA CarriedEncode ==
  ASSUME IInv, Carried, PackTruncates \/ PackFixed \/ PackVar \/ PackUnsupported \/ EncodeEnds
  PROVE  Carried'
  <1>1. phase = "encode"
    BY DEF PackTruncates, PackFixed, PackVar, PackUnsupported, EncodeEnds, Packs
  <1>2. Encoding /\ size = 0
    BY <1>1 DEF Carried, Encoding
  <1>3. CASE PackTruncates \/ PackUnsupported
    BY <1>2, <1>3 DEF PackTruncates, PackUnsupported, Return, Carried
  <1>4. CASE PackFixed \/ PackVar
    <2>1. Encoding'
      BY <1>1, <1>2, <1>4, EncodingGoesOn
    <2>2. phase' = "encode"
      BY <1>1, <1>4 DEF PackFixed, PackVar
    <2> QED
      BY <2>1, <2>2 DEF Carried
  <1>5. CASE EncodeEnds
    <2>1. FitsStream' /\ (\E off : Encoded(off))'
      BY <1>1, <1>2, <1>5, EncodingEnds
    <2>2. phase' = "encoded"
      BY <1>5 DEF EncodeEnds
    <2> QED
      BY <2>1, <2>2 DEF Carried
  <1> QED
    BY <1>3, <1>4, <1>5

\* So do those of the decoder.
LEMMA CarriedDecode ==
  ASSUME IInv, Carried,
         \/ ConsumeBytes \/ SkipBytes \/ UnpackFixed \/ UnpackVar \/ UnpackTime
         \/ DecodeIdle \/ DecodeEnds
  PROVE  Carried'
  <1>1. phase = "decode" /\ phase' \in {"decode", "done"} /\ size' = size
    BY DecodeKeeps
  <1>2. size \in Nat
    BY DEF IInv, ArgsOK, TypeOK
  <1>3. CASE ~(size > 0)
    BY <1>1, <1>3 DEF Carried
  <1>4. CASE size > 0
    <2>1. Decoding
      BY <1>1, <1>4 DEF Carried
    <2>2. (phase' = "decode" /\ Decoding') \/ (phase' = "done" /\ Result')
      <3>1. CASE ConsumeBytes
        BY <1>1, <1>2, <2>1, <3>1, ConsumeDecodes
      <3>2. CASE SkipBytes
        BY <1>1, <1>2, <2>1, <3>2, SkipDecodes
      <3>3. CASE UnpackFixed
        BY <1>1, <1>2, <2>1, <3>3, FixedDecodes
      <3>4. CASE UnpackVar
        BY <1>1, <1>2, <2>1, <3>4, VarDecodes
      <3>5. CASE UnpackTime
        BY <1>1, <1>2, <2>1, <3>5, TimeDecodes
      <3>6. CASE DecodeIdle
        BY <1>1, <1>2, <2>1, <3>6, IdleDecodes
      <3>7. CASE DecodeEnds
        BY <1>1, <1>2, <2>1, <3>7, EndDecodes
      <3> QED
        BY <3>1, <3>2, <3>3, <3>4, <3>5, <3>6, <3>7
    <2> QED
      BY <2>2 DEF Carried
  <1> QED
    BY <1>3, <1>4

\* Every step does.
LEMMA CarriedNext == IInv /\ Carried /\ [Next]_vars => Carried'
  <1> SUFFICES ASSUME IInv, Carried, [Next]_vars PROVE Carried'
    OBVIOUS
  <1>1. CASE UNCHANGED vars
    <2>1. phase' = phase /\ size' = size
      BY <1>1 DEF vars
    <2>2. (\E off : Encoded(off)) /\ FitsStream => (\E off : Encoded(off))' /\ FitsStream'
      <3>1. UNCHANGED inputs
        BY <1>1 DEF vars, inputs
      <3> QED
        BY <3>1, InputsStay
    <2> QED
      BY <1>1, <2>1, <2>2, EncodingStays, DecodingStays, ResultStays DEF Carried
  <1>2. CASE \E n \in 0 .. limit : CallDecode(n)
    <2>1. PICK n \in 0 .. limit : CallDecode(n)
      BY <1>2
    <2>2. phase = "encoded" /\ phase' = "decode" /\ size' = size
      BY <2>1 DEF CallDecode, inputs
    <2>3. size \in Nat
      BY DEF IInv, ArgsOK, TypeOK
    <2>4. ASSUME size > 0 PROVE Decoding'
      <3>1. PICK off : FitsStream /\ Encoded(off)
        BY <2>2, <2>4 DEF Carried
      <3> QED
        BY <2>1, <2>3, <2>4, <3>1, CallDecodes
    <2> QED
      BY <2>2, <2>4 DEF Carried
  <1> QED
    BY <1>1, <1>2, CarriedEncode, CarriedDecode DEF Next, Finished

\* What it holds at the end of decoding.
LEMMA ResultMeans ==
  ASSUME IInv, Carried
  PROVE  RoundTrip /\ PrefixTruncates
  <1> SUFFICES ASSUME Decoded PROVE RoundTrip /\ PrefixTruncates
    BY DEF RoundTrip, PrefixTruncates
  <1>1. Result
    BY DEF Decoded, Carried
  <1>2. size \in Nat
    BY DEF IInv, ArgsOK, TypeOK
  <1>3. CASE rc = "stream_truncate" /\ given \in Nat /\ given < size
    <2>1. ~(given >= size)
      <3>1. \A a, b \in Nat : a < b => ~(a >= b)
        OBVIOUS
      <3> QED
        BY <1>2, <1>3, <3>1
    <2> QED
      BY <1>3, <2>1 DEF RoundTrip, PrefixTruncates
  <1>4. CASE rc = "ok"
    <2>1. /\ taken = size /\ size <= given /\ TimeRead /\ "timestamp" \in DOMAIN got
          /\ \A i \in 1 .. Len(Plan) : \/ TrailStep(Plan[i])
                                       \/ Plan[i].f \in DOMAIN got /\ got[Plan[i].f] = msg[Plan[i].f]
      BY <1>1, <1>4 DEF Result
    <2>2. given \in Nat
      BY <1>2, <1>4 DEF IInv, MarkOK, Reading, ArgsOK
    <2>3. ASSUME NEW f \in Written PROVE f \in DOMAIN got /\ got[f] = msg[f]
      <3>1. PICK i \in 1 .. Len(Plan) : Plan[i].f = f
        <4>1. DOMAIN Plan = 1 .. Len(Plan)
          BY PlanIsList
        <4> QED
          BY <2>3, <4>1 DEF Written, Plan
      <3>2. ~(f = "ckdata1" /\ msg.tcode = TCODE.ICT /\ msg.ckdf = Bits(0))
        BY <2>3 DEF Written
      <3>3. CASE f = "timestamp"
        BY <2>1, <3>1, <3>3 DEF TimeRead
      <3>4. CASE f # "timestamp"
        <4>1. ~TrailStep(Plan[i])
          BY <3>1, <3>2, <3>4 DEF TrailStep
        <4> QED
          BY <2>1, <3>1, <4>1
      <3> QED
        BY <3>3, <3>4
    <2> QED
      BY <1>2, <1>4, <2>1, <2>2, <2>3 DEF RoundTrip, PrefixTruncates
  <1> QED
    BY <1>1, <1>3, <1>4 DEF Result

\* For every width, configuration and content of the buffer, and every message
\* whose fields fit their widths in the stream: nexusrv_msg_decode returns each
\* field that nexusrv_msg_encode was given, from as many bytes, whatever follows
\* them.
THEOREM EncodedIsDecoded ==
  ASSUME Representable PROVE Spec => []RoundTrip
  <1>1. Init => IInv /\ Carried
    BY InitIInv, CarriedInit
  <1>2. IInv /\ Carried /\ [Next]_vars => IInv' /\ Carried'
    BY NextIInv, CarriedNext
  <1>3. IInv /\ Carried => RoundTrip
    BY ResultMeans
  <1> QED
    BY <1>1, <1>2, <1>3, PTL DEF Spec

\* Of the same messages: cut anywhere, they are found to be truncated, and are
\* never taken for another message.
THEOREM CutMessagesTruncate ==
  ASSUME Representable PROVE Spec => []PrefixTruncates
  <1>1. Init => IInv /\ Carried
    BY InitIInv, CarriedInit
  <1>2. IInv /\ Carried /\ [Next]_vars => IInv' /\ Carried'
    BY NextIInv, CarriedNext
  <1>3. IInv /\ Carried => PrefixTruncates
    BY ResultMeans
  <1> QED
    BY <1>1, <1>2, <1>3, PTL DEF Spec
=============================================================================
