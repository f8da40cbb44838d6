----------------------------- MODULE MCMsgCodec -----------------------------
(***************************************************************************)
(* An instance of MsgCodec for TLC: bytes of six bits as in the code,      *)
(* words of eight bits, so that a variable field ends before, at and       *)
(* behind the end of a byte.                                               *)
(***************************************************************************)
EXTENDS MsgCodec

Zero == [f \in Fields |-> {}]
Values == {{}, 1 .. 6}
Signs == {{}, {0}, {5}, 5 .. 7, {7}, 0 .. 7}

\* Messages of kind t with the given values of some fields.
With(t, fields, values) ==
    { [f \in Fields |-> IF f = "tcode" THEN TCODE[t] ELSE IF f \in fields THEN g[f] ELSE {}] :
        g \in [fields -> values] }

Commons ==
    UNION { { [m EXCEPT !.sync = {1}, !.btype = {0}, !.src = {1}, !.xaddr = x] :
                m \in With(t, {"icnt", "timestamp"}
                                \cup (IF has_hist(TCODE[t]) THEN {"hist"} ELSE {}), Values),
                x \in IF has_xaddr(TCODE[t]) THEN Signs ELSE {{}} } :
            t \in { u \in DOMAIN TCODE : IsCommon(TCODE[u]) } }

Resources(c, fields) == { [m EXCEPT !.rcode = Bits(c)] :
                            m \in With("ResourceFull", fields \cup {"timestamp"}, Values) }

Others == With("Idle", {}, {})
    \cup With("Ownership", {"fmt", "v", "timestamp"}, {{}, {0}})
    \cup { [m EXCEPT !.prv = {0, 1}] : m \in With("Ownership", {"context", "timestamp"}, Values) }
    \cup { [m EXCEPT !.etype = {2}, !.src = {0}] :
            m \in With("Error", {"ecode", "timestamp"}, Values) }
    \cup With("DataAcquisition", {"idtag"}, {{0}})
    \cup Resources(0, {"icnt"}) \cup Resources(1, {"hist"})
    \cup Resources(2, {"hist", "hrepeat"}) \cup Resources(8, {"rdata"})
    \cup With("RepeatBranch", {"hrepeat", "timestamp"}, Values)
    \cup UNION { { [m EXCEPT !.cdf = Bits(c), !.evcode = {0, 3}] :
                    m \in With("ProgTraceCorrelation", {"icnt", "hist", "timestamp"}, Values) } :
                 c \in 0 .. 2 }
    \cup UNION { { [m EXCEPT !.ckdf = Bits(c)] :
                    m \in With("ICT", {"cksrc", "ckdata0", "timestamp"}
                                        \cup (IF c = 1 THEN {"ckdata1"} ELSE {}), {{}, {0, 6}}) } :
                 c \in 0 .. 2 }
    \cup { [Zero EXCEPT !.tcode = Bits(56)] }

\* Without the field in the stream, SRC and TIMESTAMP cannot be told.
Fit(h, m) == [m EXCEPT !.src = IF h.src_bits = 0 THEN {} ELSE @,
                       !.timestamp = IF h.ts_bits = 0 THEN {} ELSE @]

Hwcfgs == { [src_bits |-> 0, ts_bits |-> 0, VAO |-> FALSE],
            [src_bits |-> 0, ts_bits |-> 40, VAO |-> TRUE],
            [src_bits |-> 2, ts_bits |-> 40, VAO |-> TRUE],
            [src_bits |-> 3, ts_bits |-> 40, VAO |-> FALSE] }

\* What the buffer holds before: ended messages everywhere.
Stale(n) == [i \in 0 .. n - 1 |-> [mseo |-> 3, mdo |-> 0 .. MDO_BITS - 1]]

Encodes == { [hwcfg |-> h, msg |-> Fit(h, m), limit |-> n, buffer |-> Stale(n),
              phase |-> "encode"] : h \in Hwcfgs, m \in Commons \cup Others, n \in {3, 10} }

\* Any bytes: a first one with any TCODE, then up to three more.
RawBytes == [mseo : 0 .. 3, mdo : {{}, {0}, {4}}] \X [mseo : 0 .. 3, mdo : {{}, {0}}]
              \X [mseo : {0, 3}, mdo : {{}}]
Raws == { [hwcfg |-> h, msg |-> Zero, limit |-> 4, phase |-> "encoded",
           buffer |-> [i \in 0 .. 3 |-> IF i = 0 THEN [mseo |-> s, mdo |-> t] ELSE r[i]]] :
            h \in { g \in Hwcfgs : g.src_bits \in {0, 2} /\ (g.VAO <=> g.src_bits = 2) },
            s \in {0, 3},
            t \in { TCODE[u] : u \in DOMAIN TCODE } \cup {Bits(56)},
            r \in RawBytes }

MCInputs == Encodes \cup Raws

\* What the theorems on encoding and decoding ask of the messages.
ASSUME MCRepresentable == Representable
=============================================================================
