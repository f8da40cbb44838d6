----------------------------- MODULE ReplayProofs -----------------------------
(***************************************************************************)
(* Proofs about Replay for every program, every execution of it and every  *)
(* choice of the memory that is mapped.                                    *)
(***************************************************************************)
EXTENDS Replay, SequenceTheorems, WellFoundedInduction, TLAPS

-----------------------------------------------------------------------------
(***************************************************************************)
(* Types.                                                                  *)
(***************************************************************************)
Kinds == {"Direct", "Indirect", "Trap", "Sync", "Stop", "Error", "Unknown", "Quiet",
          "End"}

Segment == [begin : Nat, icnt : Nat, bits : Seq({0, 1}), kind : Kinds,
            sync : BOOLEAN, addr : Nat]

Decoder == [trace : Seq(Segment), synced : BOOLEAN, stack : Seq(Nat)]

EndOf(s) == s.begin + s.icnt

\* An unsupported message has no instructions on its own: what it cuts in two
\* goes on behind it.
Joined(t) == \A k \in 1 .. Len(t) - 1 : t[k].kind = "Unknown" => EndOf(t[k]) = t[k + 1].begin

\* What the decoder has in front of it: segments, and the end of the trace, which
\* the hart reached with f half words retired.
Good(d, f) == /\ d \in Decoder
              /\ d.trace # << >>
              /\ \A k \in 1 .. Len(d.trace) : d.trace[k].kind = "End" <=> k = Len(d.trace)
              /\ Joined(d.trace)
              /\ EndOf(d.trace[Len(d.trace)]) = f

\* What is written of the trace, and what is pending.
HartOK == /\ mode \in {"BTM", "HTM"} /\ quirk \in BOOLEAN /\ depth \in Nat
          /\ pc \in DOMAIN Program /\ calls \in Seq(DOMAIN Program)
          /\ been \in Seq(SUBSET Nat) /\ Len(been) > 0
          /\ count \in Nat /\ tracing \in {"on", "lost", "off"}
          /\ from \in Nat /\ icnt \in Nat /\ bits \in Seq({0, 1}) /\ fallen \in BOOLEAN
          /\ trace \in Seq(Segment)

Pending == IF tracing = "on" THEN from + icnt = Len(been) - 1
                             ELSE icnt = 0 /\ bits = << >>

TraceOK == /\ \A k \in 1 .. Len(trace) : trace[k].kind # "End"
           /\ Joined(trace)
           /\ trace # << >> /\ trace[Len(trace)].kind = "Unknown"
                 => EndOf(trace[Len(trace)]) = from /\ tracing = "on"

ReplayOK == /\ recording \in BOOLEAN
            /\ dec \in Decoder
            /\ recording => status = "running"
            /\ ~recording => Good(dec, from)
            /\ status = "done" => Len(dec.trace) = 1

IInv == HartOK /\ Pending /\ TraceOK /\ ReplayOK

-----------------------------------------------------------------------------
(***************************************************************************)
(* Sequences.                                                              *)
(***************************************************************************)
\* The first element is exchanged.
LEMMA Exchanged ==
  ASSUME NEW S, NEW t \in Seq(S), t # << >>, NEW s \in S
  PROVE  /\ <<s>> \o Tail(t) \in Seq(S)
         /\ Len(<<s>> \o Tail(t)) = Len(t)
         /\ \A k \in 1 .. Len(t) : (<<s>> \o Tail(t))[k] = IF k = 1 THEN s ELSE t[k]
         /\ Head(<<s>> \o Tail(t)) = s
         /\ Tail(<<s>> \o Tail(t)) = Tail(t)
  <1>1. Tail(t) \in Seq(S) /\ Len(Tail(t)) = Len(t) - 1 /\ Len(t) \in Nat \ {0}
    OBVIOUS
  <1>2. \A k \in 1 .. Len(t) - 1 : Tail(t)[k] = t[k + 1]
    OBVIOUS
  <1>3. /\ <<s>> \o Tail(t) \in Seq(S)
        /\ Len(<<s>> \o Tail(t)) = Len(t)
    BY <1>1
  <1>4. \A k \in 1 .. Len(t) : (<<s>> \o Tail(t))[k] = IF k = 1 THEN s ELSE t[k]
    <2>1. ASSUME NEW k \in 2 .. Len(t)
          PROVE  (<<s>> \o Tail(t))[k] = Tail(t)[k - 1]
      BY <1>1
    <2>2. (<<s>> \o Tail(t))[1] = s
      BY <1>1
    <2>3. ASSUME NEW k \in 2 .. Len(t)
          PROVE  Tail(t)[k - 1] = t[k]
      <3>1. k - 1 \in 1 .. Len(t) - 1 /\ (k - 1) + 1 = k
        BY <1>1
      <3> QED
        BY <1>2, <3>1
    <2> QED
      BY <1>1, <2>1, <2>2, <2>3
  <1>5. Head(<<s>> \o Tail(t)) = s
    BY <1>3, <1>4, <1>1
  <1>6. Tail(<<s>> \o Tail(t)) = Tail(t)
    <2> DEFINE u == <<s>> \o Tail(t)
    <2>1. Tail(u) \in Seq(S) /\ Len(Tail(u)) = Len(t) - 1
      BY <1>3, <1>1
    <2>2. \A k \in 1 .. Len(t) - 1 : Tail(u)[k] = u[k + 1] /\ u[k + 1] = t[k + 1]
      BY <1>3, <1>4, <1>1
    <2> HIDE DEF u
    <2> QED
      BY <2>1, <2>2, <1>1, <1>2, SeqEqual
  <1> QED
    BY <1>3, <1>4, <1>5, <1>6

\* The first element is dropped.
LEMMA Dropped ==
  ASSUME NEW S, NEW t \in Seq(S), t # << >>
  PROVE  /\ Tail(t) \in Seq(S) /\ Len(Tail(t)) = Len(t) - 1 /\ Len(t) \in Nat \ {0}
         /\ \A k \in 1 .. Len(t) - 1 : Tail(t)[k] = t[k + 1]
         /\ Head(t) = t[1]
  OBVIOUS

\* A set of naturals has a least element.
LEMMA LeastNat ==
  ASSUME NEW S, S \subseteq Nat, S # {}
  PROVE  \E x \in S : \A y \in S : x <= y
  <1> DEFINE R == OpToRel(<, Nat)
  <1>1. IsWellFoundedOn(R, Nat)
    BY NatLessThanWellFounded
  <1>2. \A x, y \in Nat : y < x => <<y, x>> \in R
    BY DEF OpToRel
  <1> HIDE DEF R
  <1>3. PICK x \in S : \A y \in S : ~(<<y, x>> \in R)
    BY <1>1, WFMin
  <1>4. \A y \in S : ~(y < x)
    BY <1>2, <1>3, Zenon
  <1> QED
    BY <1>4

\* Min is what its name says.
LEMMA MinOK ==
  ASSUME NEW S, S \subseteq Nat, S # {}
  PROVE  Min(S) \in S /\ \A y \in S : Min(S) <= y
  BY LeastNat DEF Min

-----------------------------------------------------------------------------
(***************************************************************************)
(* The hart and its encoder.                                               *)
(***************************************************************************)
\* A message with an event.
Report(m) == /\ m.kind \in Kinds \ {"Unknown", "End"}
             /\ m.sync \in BOOLEAN
             /\ m.addr \in Nat

HartInv == HartOK /\ Pending /\ TraceOK

\* The segment that is appended does not come behind a gap.
LEMMA Appended ==
  ASSUME HartInv, NEW s \in Segment, s.kind # "End",
         trace # << >> /\ trace[Len(trace)].kind = "Unknown" => s.begin = from,
         trace' = Append(trace, s),
         s.kind = "Unknown" => EndOf(s) = from' /\ tracing' = "on"
  PROVE  trace' \in Seq(Segment) /\ TraceOK'
  <1>1. /\ trace' \in Seq(Segment) /\ Len(trace') = Len(trace) + 1 /\ Len(trace) \in Nat
        /\ \A k \in 1 .. Len(trace) : trace'[k] = trace[k]
        /\ trace'[Len(trace) + 1] = s
        /\ trace' # << >>
    BY DEF HartInv, HartOK
  <1>2. \A k \in 1 .. Len(trace') : trace'[k].kind # "End"
    BY <1>1 DEF HartInv, TraceOK
  <1>3. Joined(trace')
    <2> SUFFICES ASSUME NEW k \in 1 .. Len(trace') - 1, trace'[k].kind = "Unknown"
                 PROVE  EndOf(trace'[k]) = trace'[k + 1].begin
      BY DEF Joined
    <2>1. CASE k = Len(trace)
      <3>1. trace # << >>
        BY <2>1, <1>1
      <3> QED
        BY <2>1, <1>1, <3>1 DEF HartInv, TraceOK
    <2>2. CASE k # Len(trace)
      BY <2>2, <1>1 DEF HartInv, TraceOK, Joined
    <2> QED
      BY <2>1, <2>2
  <1> QED
    BY <1>1, <1>2, <1>3 DEF TraceOK

\* The encoder keeps its books when it encodes n half words and the bits b.
LEMMA EncodesOK ==
  ASSUME HartInv, NEW n \in Nat, NEW b \in Seq({0, 1}), NEW m,
         m = Silence \/ Report(m),
         been' \in Seq(SUBSET Nat), Len(been') > 0, Encodes(n, b, m)
  PROVE  /\ from' \in Nat /\ icnt' \in Nat /\ bits' \in Seq({0, 1}) /\ trace' \in Seq(Segment)
         /\ tracing' = tracing => TraceOK'
         /\ m # Silence /\ tracing = "on" => TraceOK' /\ icnt' = 0 /\ bits' = << >>
         /\ tracing = "on" =>
              IF m = Silence THEN from' = from /\ icnt' = n ELSE from' = Len(been') - 1 /\ icnt' = 0
         /\ tracing # "on" => icnt' = 0 /\ bits' = << >>
  <1>1. CASE tracing # "on" \/ m = Silence
    <2>1. UNCHANGED <<from, trace>>
      BY <1>1 DEF Encodes
    <2>2. tracing' = tracing => TraceOK'
      BY <2>1 DEF HartInv, TraceOK
    <2> QED
      BY <1>1, <2>1, <2>2 DEF Encodes, HartInv, HartOK, Pending
  <1>2. CASE ~(tracing # "on" \/ m = Silence)
    <2> DEFINE s == [begin |-> from, icnt |-> n, bits |-> b,
                     kind |-> m.kind, sync |-> m.sync, addr |-> m.addr]
    <2>1. s \in Segment /\ s.kind \notin {"Unknown", "End"} /\ s.begin = from
      BY <1>2 DEF Segment, HartInv, HartOK, Report
    <2>2. trace' = Append(trace, s) /\ icnt' = 0 /\ bits' = << >> /\ from' = Len(been') - 1
      BY <1>2 DEF Encodes
    <2> HIDE DEF s
    <2>3. trace' \in Seq(Segment) /\ TraceOK'
      BY <2>1, <2>2, Appended
    <2>4. from' \in Nat
      BY <2>2
    <2> QED
      BY <1>2, <2>2, <2>3, <2>4
  <1> QED
    BY <1>1, <1>2

\* Retiring an instruction leads to a place in the program.
LEMMA RetiredOK ==
  ASSUME HartInv, NEW to \in DOMAIN Program, Retired(to)
  PROVE  /\ been' \in Seq(SUBSET Nat) /\ Len(been') = Len(been) + Insn.size
         /\ Insn.size \in 1 .. 2 /\ pc' \in DOMAIN Program
  <1> DEFINE f == [k \in 1 .. Insn.size |-> {IF k < Insn.size THEN pc + k ELSE to}]
  <1>1. Insn.size \in 1 .. 2 /\ pc \in Nat /\ to \in Nat
    BY ProgramAssumption DEF HartInv, HartOK, Insn
  <1>2. f \in Seq(SUBSET Nat) /\ Len(f) = Insn.size
    <2>1. \A k \in 1 .. Insn.size : f[k] \in SUBSET Nat
      BY <1>1
    <2>2. f \in [1 .. Insn.size -> SUBSET Nat]
      BY <2>1
    <2> QED
      BY <1>1, <2>2
  <1>3. been' = been \o f
    BY DEF Retired
  <1> HIDE DEF f
  <1>4. been \in Seq(SUBSET Nat)
    BY DEF HartInv, HartOK
  <1>5. been' \in Seq(SUBSET Nat) /\ Len(been') = Len(been) + Insn.size
    BY <1>2, <1>3, <1>4
  <1>6. pc' = to
    BY DEF Retired
  <1> QED
    BY <1>1, <1>5, <1>6

\* A call that is pushed and one that is popped leave places of the program.
LEMMA CallsOK ==
  ASSUME HartInv
  PROVE  /\ Links(Insn) => \A s \in Seq(DOMAIN Program) : Pushed(s) \in Seq(DOMAIN Program)
         /\ Popped(calls) \in Seq(DOMAIN Program)
         /\ ReturnsTo \subseteq DOMAIN Program
         /\ Insn.to \subseteq DOMAIN Program
  <1>1. pc \in DOMAIN Program /\ calls \in Seq(DOMAIN Program)
    BY DEF HartInv, HartOK
  <1>2. /\ Insn.to \subseteq DOMAIN Program
        /\ Links(Insn) => pc + Insn.size \in DOMAIN Program
    BY <1>1, HartAssumption DEF Insn
  <1>3. Links(Insn) => \A s \in Seq(DOMAIN Program) : Pushed(s) \in Seq(DOMAIN Program)
    BY <1>2 DEF Pushed
  <1>4. Popped(calls) \in Seq(DOMAIN Program)
    <2>1. CASE calls # << >>
      <3>1. Len(calls) \in Nat \ {0}
        BY <1>1, <2>1
      <3> QED
        BY <1>1, <2>1, <3>1, SubSeqProperties DEF Popped
    <2> QED
      BY <1>1, <2>1 DEF Popped
  <1>5. ReturnsTo \subseteq DOMAIN Program
    <2>1. calls # << >> => calls[Len(calls)] \in DOMAIN Program
      BY <1>1
    <2> QED
      BY <1>2, <2>1, Zenon DEF ReturnsTo
  <1> QED
    BY <1>2, <1>3, <1>4, <1>5

\* Counting keeps the counter a natural number.
LEMMA CountsOK ==
  ASSUME HartInv, NEW n \in Nat, NEW m, Counts(n, m)
  PROVE  count' \in Nat
  BY DEF Counts, HartInv, HartOK

\* A step of the hart keeps the books of the encoder.
LEMMA HartStep ==
  ASSUME HartInv, HartNext
  PROVE  HartInv'
  <1>1. /\ pc \in DOMAIN Program /\ calls \in Seq(DOMAIN Program) /\ count \in Nat
        /\ from \in Nat /\ icnt \in Nat /\ bits \in Seq({0, 1})
        /\ been \in Seq(SUBSET Nat) /\ Len(been) \in Nat \ {0}
        /\ tracing \in {"on", "lost", "off"} /\ trace \in Seq(Segment)
    BY DEF HartInv, HartOK
  <1>2. mode' \in {"BTM", "HTM"} /\ quirk' \in BOOLEAN /\ depth' \in Nat
    BY DEF HartNext, HartInv, HartOK
  <1>3. pc \in Nat /\ Handler \in Nat /\ Handler \in DOMAIN Program
    BY <1>1, ProgramAssumption, HartAssumption
  <1>4. Insn.size \in 1 .. 2 /\ Insn.id \in Ids
    BY <1>1, ProgramAssumption DEF Insn
  <1>5. /\ Insn.to \subseteq DOMAIN Program
        /\ Insn.id \in {"op", "bitmanip", "branch"} => pc + Insn.size \in DOMAIN Program
    BY <1>1, HartAssumption DEF Insn
  <1> DEFINE Kept == /\ calls' \in Seq(DOMAIN Program) /\ count' \in Nat /\ fallen' \in BOOLEAN
  <1> HIDE DEF Kept
  \* An instruction is retired, and maybe a message sent.
  <1>6. ASSUME NEW to \in DOMAIN Program, Retired(to), NEW b \in Seq({0, 1}), NEW m,
               m = Silence \/ Report(m),
               Encodes(icnt + Insn.size, b, m), tracing' = tracing, Kept
        PROVE  HartInv'
    <2>1. /\ been' \in Seq(SUBSET Nat) /\ Len(been') = Len(been) + Insn.size
          /\ pc' \in DOMAIN Program
      BY <1>6, RetiredOK
    <2>2. icnt + Insn.size \in Nat
      BY <1>1, <1>4
    <2>3. /\ from' \in Nat /\ icnt' \in Nat /\ bits' \in Seq({0, 1}) /\ trace' \in Seq(Segment)
          /\ TraceOK'
          /\ tracing = "on" =>
               IF m = Silence THEN from' = from /\ icnt' = icnt + Insn.size
                              ELSE from' = Len(been') - 1 /\ icnt' = 0
          /\ tracing # "on" => icnt' = 0 /\ bits' = << >>
      BY <1>1, <1>4, <1>6, <2>1, <2>2, EncodesOK
    <2>4. Pending'
      <3>1. CASE tracing = "on"
        <4>1. from + icnt = Len(been) - 1
          BY <3>1 DEF Pending, HartInv
        <4>2. CASE m = Silence
          <5>1. from' = from /\ icnt' = icnt + Insn.size
            BY <2>3, <3>1, <4>2
          <5>2. Insn.size \in Nat /\ Len(been) \in Nat /\ from \in Nat /\ icnt \in Nat
            BY <1>1, <1>4
          <5>3. from + (icnt + Insn.size) = (Len(been) + Insn.size) - 1
            BY <4>1, <5>2
          <5> QED
            BY <1>6, <2>1, <3>1, <5>1, <5>3 DEF Pending
        <4>3. CASE m # Silence
          <5>1. from' = Len(been') - 1 /\ icnt' = 0
            BY <2>3, <3>1, <4>3
          <5> QED
            BY <1>1, <1>4, <1>6, <2>1, <3>1, <5>1 DEF Pending
        <4> QED
          BY <4>2, <4>3
      <3>2. CASE tracing # "on"
        BY <1>6, <2>3, <3>2 DEF Pending
      <3> QED
        BY <3>1, <3>2
    <2>5. HartOK'
      <3>1. Len(been') > 0 /\ tracing' \in {"on", "lost", "off"}
        BY <1>1, <1>4, <1>6, <2>1
      <3> QED
        BY <1>2, <1>6, <2>1, <2>3, <3>1 DEF HartOK, Kept
    <2> QED
      BY <2>3, <2>4, <2>5 DEF HartInv
  \* Nothing is retired, and a message sent.
  <1>7. ASSUME NEW n \in Nat, NEW b \in Seq({0, 1}), NEW m,
               Report(m),
               m # Silence, Encodes(n, b, m),
               tracing' = tracing \/ (tracing = "on" /\ tracing' \in {"lost", "off"}),
               been' \in Seq(SUBSET Nat), Len(been') = Len(been), pc' \in DOMAIN Program, Kept
        PROVE  HartInv'
    <2>1. /\ from' \in Nat /\ icnt' \in Nat /\ bits' \in Seq({0, 1}) /\ trace' \in Seq(Segment)
          /\ TraceOK'
          /\ tracing = "on" => from' = Len(been') - 1 /\ icnt' = 0 /\ bits' = << >>
          /\ tracing # "on" => icnt' = 0 /\ bits' = << >>
      BY <1>1, <1>7, EncodesOK
    <2>2. Pending'
      BY <1>1, <1>7, <2>1 DEF Pending, HartInv
    <2>3. HartOK'
      BY <1>1, <1>2, <1>7, <2>1 DEF HartOK, Kept
    <2> QED
      BY <2>1, <2>2, <2>3 DEF HartInv
  <1>8. CASE Plain
    <2>1. pc + Insn.size \in DOMAIN Program
      BY <1>5, <1>8 DEF Plain
    <2>2. Kept
      BY <1>1, <1>8 DEF Plain, Kept
    <2> QED
      BY <1>1, <1>6, <1>8, <2>1, <2>2 DEF Plain
  <1>9. ASSUME NEW taken \in BOOLEAN, Branch(taken)
        PROVE  HartInv'
    <2>1. PICK to \in Insn.to, sync \in BOOLEAN :
            LET m == IF mode = "BTM" /\ taken THEN Message("Direct", sync, to) ELSE Silence
                b == IF mode = "HTM" THEN Append(bits, IF taken THEN 1 ELSE 0) ELSE bits
            IN  /\ Retired(IF taken THEN to ELSE pc + Insn.size)
                /\ Encodes(icnt + Insn.size, b, m)
                /\ Counts(count, m)
      BY <1>9 DEF Branch
    <2> DEFINE m == IF mode = "BTM" /\ taken THEN Message("Direct", sync, to) ELSE Silence
               b == IF mode = "HTM" THEN Append(bits, IF taken THEN 1 ELSE 0) ELSE bits
               t == IF taken THEN to ELSE pc + Insn.size
    <2>2. t \in DOMAIN Program /\ to \in Nat
      BY <1>5, <1>9, ProgramAssumption DEF Branch
    <2>3. b \in Seq({0, 1})
      BY <1>1
    <2>4. m = Silence \/ Report(m)
      BY <2>2 DEF Message, Kinds, Report
    <2>5. Retired(t) /\ Encodes(icnt + Insn.size, b, m) /\ Counts(count, m)
      BY <2>1
    <2> HIDE DEF m, b, t
    <2>6. Kept
      BY <1>1, <1>9, <2>5, CountsOK DEF Branch, Kept
    <2> QED
      BY <1>6, <1>9, <2>2, <2>3, <2>4, <2>5, <2>6 DEF Branch
  <1>10. CASE Direct
    <2>1. PICK to \in Insn.to : Retired(to)
      BY <1>10 DEF Direct
    <2>2. to \in DOMAIN Program
      BY <1>5
    <2>3. Kept
      <3>1. count' \in Nat
        <4>1. (IF Links(Insn) THEN count + 1 ELSE count) \in Nat
          BY <1>1
        <4> QED
          BY <1>10, <4>1, CountsOK DEF Direct
      <3> QED
        BY <1>1, <1>10, <3>1, CallsOK DEF Direct, Kept
    <2> QED
      BY <1>1, <1>6, <1>10, <2>1, <2>2, <2>3 DEF Direct
  <1>11. CASE Indirect
    <2> DEFINE n == count - (IF Returns(Insn) /\ ~(quirk /\ Links(Insn)) /\ count > 0 THEN 1 ELSE 0)
                      + (IF Links(Insn) THEN 1 ELSE 0)
    <2>1. PICK to \in IF Returns(Insn) THEN ReturnsTo ELSE Insn.to, sync \in BOOLEAN :
            LET m == IF Implicit /\ ~sync THEN Silence ELSE Message("Indirect", sync, to)
            IN  /\ Retired(to)
                /\ Encodes(icnt + Insn.size, bits, m)
                /\ Counts(n, m)
      BY <1>11 DEF Indirect
    <2> DEFINE m == IF Implicit /\ ~sync THEN Silence ELSE Message("Indirect", sync, to)
    <2>2. to \in DOMAIN Program /\ to \in Nat
      BY <1>5, CallsOK, ProgramAssumption
    <2>3. m = Silence \/ Report(m)
      BY <2>2 DEF Message, Kinds, Report
    <2>4. n \in Nat
      BY <1>1
    <2>5. Retired(to) /\ Encodes(icnt + Insn.size, bits, m) /\ Counts(n, m)
      BY <2>1
    <2> HIDE DEF m, n
    <2>6. calls' \in Seq(DOMAIN Program)
      BY <1>1, <1>11, CallsOK DEF Indirect
    <2>7. Kept
      BY <1>11, <2>4, <2>5, <2>6, CountsOK DEF Indirect, Kept
    <2> QED
      BY <1>1, <1>6, <1>11, <2>2, <2>3, <2>5, <2>7 DEF Indirect
  <1>12. CASE Trap
    <2>1. PICK sync \in BOOLEAN :
            /\ pc' = Handler
            /\ been' = [been EXCEPT ![Len(been)] = @ \cup {Handler}]
            /\ Encodes(icnt, bits, Message("Trap", sync, Handler))
            /\ Counts(count, Message("Trap", sync, Handler))
      BY <1>12 DEF Trap
    <2> DEFINE m == Message("Trap", sync, Handler)
    <2>2. m # Silence /\ Report(m)
      BY <1>3 DEF Message, Silence, Kinds, Report
    <2>3. been' \in Seq(SUBSET Nat) /\ Len(been') = Len(been)
      <3>1. been[Len(been)] \cup {Handler} \in SUBSET Nat
        BY <1>1, <1>3
      <3> QED
        BY <1>1, <2>1, <3>1
    <2> HIDE DEF m
    <2>4. Kept
      BY <1>1, <1>12, <2>1, CountsOK DEF Trap, Kept
    <2>5. Encodes(icnt, bits, m) /\ tracing' = tracing /\ pc' \in DOMAIN Program
      BY <1>3, <1>12, <2>1 DEF Trap, m
    <2> QED
      BY <1>1, <1>7, <2>2, <2>3, <2>4, <2>5
  <1>13. CASE Sync
    <2> DEFINE s == [begin |-> IF tracing = "on" THEN from ELSE Len(been) - 1,
                     icnt |-> icnt, bits |-> bits, kind |-> "Sync", sync |-> FALSE, addr |-> pc]
    <2>1. s \in Segment /\ s.kind \notin {"Unknown", "End"}
      BY <1>1, <1>3 DEF Segment, Kinds
    <2>2. trace # << >> /\ trace[Len(trace)].kind = "Unknown" => s.begin = from
      BY DEF HartInv, TraceOK
    <2>3. trace' = Append(trace, s)
      BY <1>13 DEF Sync
    <2> HIDE DEF s
    <2>4. trace' \in Seq(Segment) /\ TraceOK'
      BY <2>1, <2>2, <2>3, Appended
    <2>5. /\ tracing' = "on" /\ count' = 0 /\ icnt' = 0 /\ bits' = << >>
          /\ from' = Len(been) - 1 /\ fallen' = FALSE
          /\ pc' = pc /\ calls' = calls /\ been' = been
      BY <1>13 DEF Sync
    <2>6. Pending'
      BY <1>1, <2>5 DEF Pending
    <2>7. HartOK'
      <3>1. from' \in Nat /\ icnt' \in Nat /\ bits' \in Seq({0, 1}) /\ count' \in Nat
        BY <1>1, <2>5
      <3>2. been' \in Seq(SUBSET Nat) /\ Len(been') > 0
        BY <1>1, <2>5
      <3>3. fallen' \in BOOLEAN /\ tracing' \in {"on", "lost", "off"}
        BY <2>5
      <3> QED
        BY <1>1, <1>2, <2>4, <2>5, <3>1, <3>2, <3>3 DEF HartOK
    <2> QED
      BY <2>4, <2>6, <2>7 DEF HartInv
  <1>14. CASE Stop
    <2> DEFINE m == Message("Stop", FALSE, 0)
    <2>1. m # Silence /\ Report(m)
      BY DEF Message, Silence, Kinds, Report
    <2> HIDE DEF m
    <2>2. Kept
      BY <1>1, <1>14 DEF Stop, Kept
    <2> QED
      BY <1>1, <1>7, <1>14, <2>1, <2>2 DEF Stop, m
  <1>15. CASE Overflow
    <2> DEFINE m == Message("Error", FALSE, 0)
    <2>1. m # Silence /\ Report(m)
      BY DEF Message, Silence, Kinds, Report
    <2>2. PICK sent \in BOOLEAN :
            Encodes(IF sent THEN icnt ELSE 0, IF sent THEN bits ELSE << >>, m)
      BY <1>15 DEF Overflow
    <2> HIDE DEF m
    <2>3. /\ (IF sent THEN icnt ELSE 0) \in Nat
          /\ (IF sent THEN bits ELSE << >>) \in Seq({0, 1})
      BY <1>1
    <2>4. Kept
      BY <1>1, <1>15 DEF Overflow, Kept
    <2> QED
      BY <1>1, <1>7, <1>15, <2>1, <2>2, <2>3, <2>4 DEF Overflow
  <1>16. ASSUME NEW kind \in {"Unknown", "Quiet"}, NEW sent \in BOOLEAN, Inserts(kind, sent)
         PROVE  HartInv'
    <2>1. /\ trace' = Append(trace,
                 [begin |-> from, icnt |-> IF sent THEN icnt ELSE 0,
                  bits |-> IF sent THEN bits ELSE << >>,
                  kind |-> kind, sync |-> FALSE, addr |-> 0])
          /\ icnt' = (IF sent THEN 0 ELSE icnt)
          /\ bits' = (IF sent THEN << >> ELSE bits)
          /\ from' = (IF sent THEN Len(been) - 1 ELSE from)
      BY <1>16 DEF Inserts
    <2> DEFINE s == [begin |-> from, icnt |-> IF sent THEN icnt ELSE 0,
                    bits |-> IF sent THEN bits ELSE << >>,
                    kind |-> kind, sync |-> FALSE, addr |-> 0]
    <2>2. s \in Segment /\ s.kind # "End" /\ s.begin = from
      BY <1>1, <1>3 DEF Segment, Kinds
    <2>3. EndOf(s) = from' /\ tracing' = "on"
      <3>1. tracing = "on" /\ tracing' = tracing /\ from + icnt = Len(been) - 1
        BY <1>16 DEF HartInv, Pending, Inserts
      <3>2. s.begin = from /\ s.icnt = IF sent THEN icnt ELSE 0
        OBVIOUS
      <3> HIDE DEF s
      <3> QED
        BY <1>1, <2>1, <3>1, <3>2 DEF EndOf
    <2>4. trace' = Append(trace, s)
      BY <2>1
    <2> HIDE DEF s
    <2>5. trace' \in Seq(Segment) /\ TraceOK'
      BY <2>2, <2>3, <2>4, Appended
    <2>6. Pending'
      BY <1>1, <1>16, <2>1 DEF HartInv, Pending, Inserts
    <2>7. HartOK'
      BY <1>1, <1>2, <1>16, <2>1, <2>5 DEF HartOK, Inserts, HartInv
    <2> QED
      BY <2>5, <2>6, <2>7 DEF HartInv
  <1>17. CASE Unknown \/ Quiet
    BY <1>16, <1>17 DEF Unknown, Quiet
  <1> QED
    BY <1>8, <1>9, <1>10, <1>11, <1>12, <1>13, <1>14, <1>15, <1>17 DEF HartNext

-----------------------------------------------------------------------------
(***************************************************************************)
(* The calls of the trace decoder.                                         *)
(***************************************************************************)
\* Decoder e has no more, or less, to come than d.
NoMore(d, e) == \/ Len(e.trace) < Len(d.trace)
                \/ Len(e.trace) = Len(d.trace) /\ Left(Front(e)) <= Left(Front(d))
Less(d, e) == \/ Len(e.trace) < Len(d.trace)
              \/ Len(e.trace) = Len(d.trace) /\ Left(Front(e)) < Left(Front(d))

\* There is always a segment in front.
LEMMA FrontOK ==
  ASSUME NEW f, NEW d, Good(d, f)
  PROVE  /\ Front(d) = d.trace[1] /\ Front(d) \in Segment /\ Left(Front(d)) \in Nat
         /\ Len(d.trace) \in Nat \ {0} /\ d.trace \in Seq(Segment)
         /\ Front(d).kind = "End" <=> Len(d.trace) = 1
         /\ Front(d).kind = "End" => EndOf(Front(d)) = f
  <1>1. d.trace \in Seq(Segment) /\ d.trace # << >>
    BY DEF Good, Decoder
  <1>2. /\ Front(d) = d.trace[1] /\ Front(d) \in Segment /\ Len(d.trace) \in Nat \ {0}
    BY <1>1 DEF Front
  <1>3. Left(Front(d)) \in Nat
    BY <1>2 DEF Left, Segment
  <1>4. /\ Front(d).kind = "End" <=> Len(d.trace) = 1
        /\ Front(d).kind = "End" => EndOf(Front(d)) = f
    <2>1. 1 \in 1 .. Len(d.trace)
      BY <1>2
    <2>2. d.trace[1].kind = "End" <=> 1 = Len(d.trace)
      BY <2>1 DEF Good
    <2> QED
      BY <1>2, <2>2 DEF Good
  <1> QED
    BY <1>1, <1>2, <1>3, <1>4

\* Less than no more is less.
LEMMA LessStill ==
  ASSUME NEW f, NEW c, NEW d, NEW e, Good(c, f), Good(d, f), Good(e, f)
  PROVE  /\ NoMore(c, c) /\ (Less(c, d) => NoMore(c, d))
         /\ NoMore(c, d) /\ Less(d, e) => Less(c, e)
         /\ NoMore(c, d) /\ NoMore(d, e) => NoMore(c, e)
         /\ Less(c, d) /\ NoMore(d, e) => Less(c, e)
  <1>1. /\ Left(Front(c)) \in Nat /\ Left(Front(d)) \in Nat /\ Left(Front(e)) \in Nat
        /\ Len(c.trace) \in Nat /\ Len(d.trace) \in Nat /\ Len(e.trace) \in Nat
    BY FrontOK
  <1> QED
    BY <1>1 DEF Less, NoMore

\* The segment in front is exchanged for what is left of it.
LEMMA FrontExchanged ==
  ASSUME NEW f, NEW d, Good(d, f), NEW s \in Segment, EndOf(s) = EndOf(Front(d)),
         \/ s.kind = Front(d).kind
         \/ {s.kind, Front(d).kind} \cap {"End", "Unknown"} = {}
  PROVE  /\ Good(WithFront(d, s), f)
         /\ Front(WithFront(d, s)) = s
         /\ Len(WithFront(d, s).trace) = Len(d.trace)
         /\ Tail(WithFront(d, s).trace) = Tail(d.trace)
         /\ WithFront(d, s).stack = d.stack /\ WithFront(d, s).synced = d.synced
  <1> DEFINE t == d.trace
             u == <<s>> \o Tail(t)
             e == WithFront(d, s)
  <1>1. t \in Seq(Segment) /\ t # << >> /\ Len(t) \in Nat \ {0} /\ Front(d) = t[1] /\ d \in Decoder
    BY FrontOK DEF Good
  <1>2. /\ u \in Seq(Segment) /\ Len(u) = Len(t)
        /\ \A k \in 1 .. Len(t) : u[k] = IF k = 1 THEN s ELSE t[k]
        /\ Head(u) = s /\ Tail(u) = Tail(t)
    BY <1>1, Exchanged
  <1>3. /\ e = [d EXCEPT !.trace = u]
        /\ e.trace = u /\ e \in Decoder /\ e.stack = d.stack /\ e.synced = d.synced
    BY <1>1, <1>2 DEF Decoder, WithFront
  <1>4. u # << >>
    BY <1>1, <1>2
  <1> HIDE DEF u, e
  <1>5. \A k \in 1 .. Len(u) : u[k].kind = "End" <=> k = Len(u)
    <2>1. \A k \in 1 .. Len(t) : t[k].kind = "End" <=> k = Len(t)
      BY DEF Good
    <2>2. s.kind = "End" <=> t[1].kind = "End"
      BY <1>1
    <2> QED
      BY <1>1, <1>2, <2>1, <2>2
  <1>6. Joined(u)
    <2> SUFFICES ASSUME NEW k \in 1 .. Len(u) - 1, u[k].kind = "Unknown"
                 PROVE  EndOf(u[k]) = u[k + 1].begin
      BY DEF Joined
    <2>1. Joined(t)
      BY DEF Good
    <2>2. k \in 1 .. Len(t) /\ k + 1 \in 1 .. Len(t) /\ k + 1 # 1
      BY <1>1, <1>2
    <2>3. u[k + 1] = t[k + 1]
      BY <1>2, <2>2
    <2>4. t[k].kind = "Unknown" /\ EndOf(u[k]) = EndOf(t[k])
      <3>1. CASE k = 1
        <4>1. u[k] = s
          BY <1>2, <2>2, <3>1
        <4>2. s.kind = Front(d).kind
          BY <4>1
        <4> QED
          BY <1>1, <3>1, <4>1, <4>2
      <3>2. CASE k # 1
        BY <1>2, <2>2, <3>2
      <3> QED
        BY <3>1, <3>2
    <2> QED
      BY <1>2, <2>1, <2>3, <2>4 DEF Joined
  <1>7. EndOf(u[Len(u)]) = f
    <2>1. EndOf(t[Len(t)]) = f
      BY DEF Good
    <2> QED
      BY <1>1, <1>2, <2>1
  <1>8. Good(e, f)
    BY <1>3, <1>4, <1>5, <1>6, <1>7 DEF Good
  <1> QED
    BY <1>2, <1>3, <1>8 DEF Front, e

\* The segment in front is dropped.
LEMMA FrontDropped ==
  ASSUME NEW f, NEW d, Good(d, f), Front(d).kind # "End"
  PROVE  LET e == [d EXCEPT !.trace = Tail(@)]
         IN  Good(e, f) /\ Len(e.trace) = Len(d.trace) - 1
  <1> DEFINE t == d.trace
             u == Tail(t)
             e == [d EXCEPT !.trace = Tail(@)]
  <1>1. t \in Seq(Segment) /\ t # << >> /\ Len(t) \in Nat /\ Len(t) > 1 /\ d \in Decoder
    BY FrontOK DEF Good
  <1>2. /\ u \in Seq(Segment) /\ Len(u) = Len(t) - 1
        /\ \A k \in 1 .. Len(t) - 1 : u[k] = t[k + 1]
    BY <1>1, Dropped
  <1>3. e.trace = u /\ e \in Decoder
    BY <1>1, <1>2 DEF Decoder
  <1> HIDE DEF u, e
  <1>4. u # << >>
    BY <1>1, <1>2
  <1>5. \A k \in 1 .. Len(u) : u[k].kind = "End" <=> k = Len(u)
    <2>1. \A k \in 1 .. Len(t) : t[k].kind = "End" <=> k = Len(t)
      BY DEF Good
    <2> QED
      BY <1>1, <1>2, <2>1
  <1>6. Joined(u)
    <2> SUFFICES ASSUME NEW k \in 1 .. Len(u) - 1, u[k].kind = "Unknown"
                 PROVE  EndOf(u[k]) = u[k + 1].begin
      BY DEF Joined
    <2>1. Joined(t)
      BY DEF Good
    <2>2. k + 1 \in 1 .. Len(t) - 1 /\ u[k + 1] = t[(k + 1) + 1] /\ u[k] = t[k + 1]
      BY <1>1, <1>2
    <2> QED
      BY <2>1, <2>2 DEF Joined
  <1>7. EndOf(u[Len(u)]) = f
    <2>1. EndOf(t[Len(t)]) = f
      BY DEF Good
    <2>2. u[Len(u)] = t[Len(t)]
      BY <1>1, <1>2
    <2> QED
      BY <2>1, <2>2
  <1>8. Good(e, f)
    BY <1>3, <1>4, <1>5, <1>6, <1>7 DEF Good
  <1> QED
    BY <1>2, <1>3, <1>8 DEF e

\* The return stack and the synchronization do not matter here.
LEMMA OthersChanged ==
  ASSUME NEW f, NEW d, Good(d, f), NEW e, e \in Decoder, e.trace = d.trace
  PROVE  Good(e, f) /\ NoMore(d, e) /\ Front(e) = Front(d)
  <1>1. Good(e, f) /\ Front(e) = Front(d)
    BY DEF Good, Front
  <1> QED
    BY <1>1, FrontOK DEF NoMore

\* A message that is taken leaves less.
LEMMA TakenOK ==
  ASSUME NEW f, NEW d, Good(d, f), Front(d).kind \notin {"End", "Unknown"}
  PROVE  Good(Taken(d), f) /\ Less(d, Taken(d))
  <1>1. Front(d) \in Segment /\ Len(d.trace) \in Nat
    BY FrontOK
  <1>2. CASE Front(d).sync
    <2> DEFINE s == [Front(d) EXCEPT !.kind = "Sync", !.sync = FALSE]
    <2>1. /\ s \in Segment /\ EndOf(s) = EndOf(Front(d)) /\ s.kind = "Sync"
          /\ s.icnt = Front(d).icnt /\ s.bits = Front(d).bits /\ s.sync = FALSE
      BY <1>1 DEF Segment, Kinds, EndOf
    <2>2. Taken(d) = WithFront(d, s)
      BY <1>2 DEF Taken
    <2> HIDE DEF s
    <2>3. Left(s) < Left(Front(d))
      <3>1. s.icnt \in Nat /\ s.bits \in Seq({0, 1})
        BY <2>1 DEF Segment
      <3>2. Len(s.bits) \in Nat
        BY <3>1
      <3> QED
        BY <1>2, <2>1, <3>1, <3>2 DEF Left
    <2> QED
      BY <2>1, <2>2, <2>3, FrontExchanged DEF Less
  <1>3. CASE ~Front(d).sync
    BY <1>1, <1>3, FrontDropped DEF Taken, Less
  <1> QED
    BY <1>2, <1>3

\* The unsupported message in front and the segment behind it become one.
LEMMA UnsupportedTaken ==
  ASSUME NEW f, NEW d, Good(d, f), Front(d).kind = "Unknown"
  PROVE  /\ Good(take_unsupported(d), f)
         /\ Len(take_unsupported(d).trace) = Len(d.trace) - 1
  <1> DEFINE t == d.trace
             w == [t[2] EXCEPT !.begin = t[1].begin, !.icnt = @ + t[1].icnt,
                               !.bits = t[1].bits \o @]
             r == SubSeq(t, 3, Len(t))
             u == <<w>> \o r
             e == take_unsupported(d)
  <1>1. /\ t \in Seq(Segment) /\ t # << >> /\ Len(t) \in Nat /\ Len(t) > 1
        /\ Front(d) = t[1] /\ d \in Decoder
    BY FrontOK DEF Good
  <1>2. t[1] \in Segment /\ t[2] \in Segment
    BY <1>1
  <1>3. EndOf(t[1]) = t[2].begin
    <2>1. Joined(t) /\ 1 \in 1 .. Len(t) - 1 /\ 1 + 1 = 2
      BY <1>1 DEF Good
    <2> QED
      BY <1>1, <2>1 DEF Joined
  <1>4. w \in Segment /\ w.kind = t[2].kind /\ EndOf(w) = EndOf(t[2])
    <2>1. t[1].bits \o t[2].bits \in Seq({0, 1})
      BY <1>2 DEF Segment
    <2>2. /\ t[2].icnt + t[1].icnt \in Nat
          /\ t[1].begin + (t[2].icnt + t[1].icnt) = t[2].begin + t[2].icnt
      <3>1. /\ t[1].begin \in Nat /\ t[1].icnt \in Nat
            /\ t[2].begin \in Nat /\ t[2].icnt \in Nat
        BY <1>2 DEF Segment
      <3>2. t[1].begin + t[1].icnt = t[2].begin
        BY <1>3 DEF EndOf
      <3> QED
        BY <3>1, <3>2
    <2>3. w \in Segment
      BY <1>2, <2>1, <2>2 DEF Segment
    <2>4. w.kind = t[2].kind /\ w.begin = t[1].begin /\ w.icnt = t[2].icnt + t[1].icnt
      BY <1>2 DEF Segment
    <2> QED
      BY <2>2, <2>3, <2>4 DEF EndOf
  <1> HIDE DEF w
  <1>5. /\ r \in Seq(Segment) /\ Len(r) = Len(t) - 2
        /\ \A k \in 1 .. Len(t) - 2 : r[k] = t[k + 2]
    <2>1. /\ SubSeq(t, 3, Len(t)) \in Seq(Segment)
          /\ Len(SubSeq(t, 3, Len(t))) = IF 3 <= Len(t) THEN Len(t) - 3 + 1 ELSE 0
          /\ \A i \in 1 .. Len(t) - 3 + 1 : SubSeq(t, 3, Len(t))[i] = t[3 + i - 1]
      BY <1>1, SubSeqProperties
    <2> HIDE DEF r
    <2>2. Len(r) = Len(t) - 2
      BY <1>1, <2>1 DEF r
    <2>3. ASSUME NEW k \in 1 .. Len(t) - 2
          PROVE  r[k] = t[k + 2]
      BY <1>1, <2>1 DEF r
    <2> QED
      BY <2>1, <2>2, <2>3 DEF r
  <1>6. e = [d EXCEPT !.trace = u]
    BY <1>1 DEF take_unsupported, w
  <1> HIDE DEF r
  <1>7. /\ u \in Seq(Segment) /\ Len(u) = Len(t) - 1 /\ u[1] = w
        /\ \A k \in 2 .. Len(t) - 1 : u[k] = t[k + 1]
    <2>1. u \in Seq(Segment) /\ Len(u) = Len(t) - 1 /\ u[1] = w
      BY <1>1, <1>4, <1>5
    <2>2. ASSUME NEW k \in 2 .. Len(t) - 1
          PROVE  u[k] = t[k + 1]
      <3>1. u[k] = r[k - 1] /\ k - 1 \in 1 .. Len(t) - 2
        BY <1>1, <1>4, <1>5
      <3>2. r[k - 1] = t[(k - 1) + 2] /\ (k - 1) + 2 = k + 1
        BY <1>5, <3>1
      <3> QED
        BY <3>1, <3>2
    <2> QED
      BY <2>1, <2>2
  <1> HIDE DEF u
  <1>8. e.trace = u /\ e \in Decoder /\ u # << >>
    <2>1. u # << >>
      BY <1>1, <1>7
    <2> QED
      BY <1>1, <1>6, <1>7, <2>1 DEF Decoder
  <1> HIDE DEF e
  <1>9. \A k \in 1 .. Len(u) : u[k].kind = "End" <=> k = Len(u)
    <2>1. \A k \in 1 .. Len(t) : t[k].kind = "End" <=> k = Len(t)
      BY DEF Good
    <2> QED
      BY <1>1, <1>4, <1>7, <2>1
  <1>10. Joined(u)
    <2> SUFFICES ASSUME NEW k \in 1 .. Len(u) - 1, u[k].kind = "Unknown"
                 PROVE  EndOf(u[k]) = u[k + 1].begin
      BY DEF Joined
    <2>1. Joined(t)
      BY DEF Good
    <2>2. u[k + 1] = t[k + 2] /\ t[k + 1].kind = "Unknown" /\ EndOf(u[k]) = EndOf(t[k + 1])
      BY <1>1, <1>4, <1>7
    <2>3. k + 1 \in 1 .. Len(t) - 1 /\ (k + 1) + 1 = k + 2
      BY <1>1, <1>7
    <2> QED
      BY <2>1, <2>2, <2>3 DEF Joined
  <1>11. EndOf(u[Len(u)]) = f
    <2>1. EndOf(t[Len(t)]) = f
      BY DEF Good
    <2> QED
      BY <1>1, <1>4, <1>7, <2>1
  <1>12. Good(e, f)
    BY <1>8, <1>9, <1>10, <1>11 DEF Good
  <1> QED
    BY <1>7, <1>8, <1>12 DEF e

\* Answer r of try_retire on d for n half words: it passes n at most, and stops
\* short only at an event.
Passes(r, d, n, f) ==
    /\ Good(r.d, f) /\ NoMore(d, r.d)
    /\ r.d.stack = d.stack /\ r.d.synced = d.synced
    /\ r.rc \in {"ok", "eof", "unsupported"}
    /\ r.rc # "ok" => r.d = d /\ Exhausted(d) /\ r.rc = WhyExhausted(d)
    /\ r.rc = "ok" => /\ r.n \in 0 .. n
                      /\ r.n > 0 => Less(d, r.d)
                      /\ Front(r.d).kind = Front(d).kind
                      /\ Front(r.d).bits = Front(d).bits
                      /\ \/ r.event = "None" /\ r.n = n /\ Front(r.d).icnt > 0
                         \/ /\ r.event = EventOf(Front(r.d)) /\ ~Exhausted(r.d)
                            /\ Front(r.d).icnt = 0

LEMMA TryRetireOK ==
  ASSUME NEW f, NEW d, Good(d, f), NEW n \in Nat
  PROVE  Passes(try_retire(d, n), d, n, f)
  <1> DEFINE r == try_retire(d, n)
             s == Front(d)
  <1>1. s \in Segment /\ s.icnt \in Nat /\ s.begin \in Nat /\ Len(s.bits) \in Nat
    BY FrontOK DEF Segment
  <1>2. ASSUME NEW k \in 0 .. s.icnt
        PROVE  LET e == WithFront(d, Consumed(s, k))
               IN  /\ Good(e, f) /\ NoMore(d, e) /\ (k > 0 => Less(d, e))
                   /\ e.stack = d.stack /\ e.synced = d.synced
                   /\ Front(e) = Consumed(s, k)
    <2> DEFINE c == Consumed(s, k)
    <2>1. /\ c \in Segment /\ c.kind = s.kind /\ EndOf(c) = EndOf(s)
          /\ c.icnt = s.icnt - k /\ c.bits = s.bits /\ c.sync = s.sync
      <3>1. s.icnt - k \in Nat /\ s.begin + k \in Nat
        BY <1>1
      <3>2. /\ c.kind = s.kind /\ c.icnt = s.icnt - k /\ c.begin = s.begin + k
            /\ c.bits = s.bits /\ c.sync = s.sync /\ c \in Segment
        BY <1>1, <3>1 DEF Consumed, Segment
      <3> HIDE DEF c, s
      <3> QED
        BY <1>1, <3>2 DEF EndOf
    <2> HIDE DEF c
    <2>2. Left(c) <= Left(s) /\ (k > 0 => Left(c) < Left(s))
      BY <1>1, <2>1 DEF Left
    <2>3. /\ Good(WithFront(d, c), f) /\ Front(WithFront(d, c)) = c
          /\ Len(WithFront(d, c).trace) = Len(d.trace)
          /\ WithFront(d, c).stack = d.stack /\ WithFront(d, c).synced = d.synced
      BY <2>1, FrontExchanged
    <2> QED
      BY <2>2, <2>3 DEF NoMore, Less, c
  <1>3. CASE n < s.icnt
    <2>1. n \in 0 .. s.icnt
      BY <1>1, <1>3
    <2>2. r = Answer(WithFront(d, Consumed(s, n)), "ok", n, "None", 0)
      BY <1>3 DEF try_retire
    <2>3. r.d = WithFront(d, Consumed(s, n)) /\ r.rc = "ok" /\ r.n = n /\ r.event = "None"
      BY <2>2 DEF Answer
    <2>4. Consumed(s, n).icnt > 0 /\ Consumed(s, n).kind = s.kind /\ Consumed(s, n).bits = s.bits
      BY <1>1, <1>3 DEF Consumed, Segment
    <2> HIDE DEF r, s
    <2> QED
      BY <1>2, <2>1, <2>3, <2>4 DEF r, s, Passes
  <1>4. CASE ~(n < s.icnt) /\ Exhausted(d)
    <2>1. r = Refused(d, WhyExhausted(d))
      BY <1>4 DEF try_retire
    <2>2. r.d = d /\ r.rc = WhyExhausted(d) /\ r.rc \in {"eof", "unsupported"}
      BY <2>1 DEF Refused, Answer, WhyExhausted
    <2>3. NoMore(d, d)
      BY LessStill
    <2> HIDE DEF r, s
    <2> QED
      BY <1>4, <2>2, <2>3 DEF r, Passes
  <1>5. CASE ~(n < s.icnt) /\ ~Exhausted(d)
    <2>1. s.icnt \in 0 .. s.icnt /\ s.icnt \in 0 .. n
      BY <1>1, <1>5
    <2>2. r = Answer(WithFront(d, Consumed(s, s.icnt)), "ok", s.icnt, EventOf(s), 0)
      BY <1>5 DEF try_retire
    <2>3. /\ r.d = WithFront(d, Consumed(s, s.icnt)) /\ r.rc = "ok" /\ r.n = s.icnt
          /\ r.event = EventOf(s)
      BY <2>2 DEF Answer
    <2>4. /\ Consumed(s, s.icnt).icnt = 0 /\ Consumed(s, s.icnt).kind = s.kind
          /\ Consumed(s, s.icnt).bits = s.bits /\ Consumed(s, s.icnt).sync = s.sync
      BY <1>1 DEF Consumed, Segment
    <2>5. EventOf(Consumed(s, s.icnt)) = EventOf(s)
      BY <2>4 DEF EventOf
    <2> HIDE DEF r, s
    <2>6. Front(r.d) = Consumed(s, s.icnt)
      BY <1>2, <2>1, <2>3
    <2>7. ~Exhausted(r.d)
      BY <1>5, <2>4, <2>6 DEF Exhausted, s
    <2> QED
      BY <1>2, <2>1, <2>3, <2>4, <2>5, <2>6, <2>7 DEF r, s, Passes
  <1> QED
    BY <1>3, <1>4, <1>5

\* next_tnt takes a bit or a message, unless there is no bit for the branch.
LEMMA NextTntOK ==
  ASSUME NEW f, NEW d, Good(d, f)
  PROVE  LET r == next_tnt(d)
         IN  /\ Good(r.d, f) /\ NoMore(d, r.d)
             /\ r.rc # "ok" => r.d = d
             /\ r.rc = "ok" /\ Front(d).icnt = 0 => Less(d, r.d)
             /\ r.rc \in {"ok", "mismatch"} \/ (Exhausted(d) /\ r.rc = WhyExhausted(d))
  <1> DEFINE r == next_tnt(d)
             s == Front(d)
  <1>1. s \in Segment /\ s.icnt \in Nat /\ s.begin \in Nat /\ s.bits \in Seq({0, 1})
    BY FrontOK DEF Segment
  <1>2. CASE s.bits # << >>
    <2> DEFINE c == [s EXCEPT !.bits = Tail(@)]
    <2>1. Tail(s.bits) \in Seq({0, 1}) /\ Len(Tail(s.bits)) = Len(s.bits) - 1 /\ Len(s.bits) \in Nat
      BY <1>1, <1>2
    <2>2. /\ c \in Segment /\ c.kind = s.kind /\ c.begin = s.begin /\ c.icnt = s.icnt
          /\ c.sync = s.sync /\ c.bits = Tail(s.bits)
      BY <1>1, <2>1 DEF Segment
    <2>3. r = Answer(WithFront(d, c), "ok", 0, "None", Head(s.bits))
      BY <1>1, <1>2 DEF next_tnt, Ready, Exhausted
    <2> HIDE DEF c
    <2>4. Left(c) < Left(s) /\ EndOf(c) = EndOf(s)
      BY <1>1, <2>1, <2>2 DEF Left, EndOf
    <2>5. r.d = WithFront(d, c) /\ r.rc = "ok"
      BY <2>3 DEF Answer
    <2> HIDE DEF r
    <2>6. Good(r.d, f) /\ Less(d, r.d)
      BY <2>2, <2>4, <2>5, FrontExchanged DEF Less
    <2> QED
      BY <2>5, <2>6, LessStill DEF r
  <1>3. CASE s.bits = << >> /\ Exhausted(d)
    <2>1. r = Refused(d, WhyExhausted(d))
      BY <1>1, <1>3 DEF next_tnt, Ready, Exhausted
    <2>2. r.d = d /\ r.rc = WhyExhausted(d) /\ r.rc # "ok"
      BY <2>1 DEF Refused, Answer, WhyExhausted
    <2> HIDE DEF r
    <2> QED
      BY <1>3, <2>2, LessStill DEF r
  <1>4. CASE s.bits = << >> /\ ~Exhausted(d) /\ s.icnt > 0
    <2>1. r = Answer(d, "ok", 0, "None", 0)
      BY <1>1, <1>4 DEF next_tnt, Ready, Exhausted
    <2>2. r.d = d /\ r.rc = "ok"
      BY <2>1 DEF Answer
    <2> HIDE DEF r
    <2> QED
      BY <1>4, <2>2, LessStill DEF r
  <1>5. CASE s.bits = << >> /\ ~Exhausted(d) /\ s.icnt = 0 /\ s.kind = "Direct"
    <2>1. r = Answer(Taken(d), "ok", 0, "None", 1)
      BY <1>5 DEF next_tnt, Ready
    <2>2. r.d = Taken(d) /\ r.rc = "ok"
      BY <2>1 DEF Answer
    <2>3. Good(r.d, f) /\ Less(d, r.d)
      BY <1>5, <2>2, TakenOK
    <2> HIDE DEF r
    <2> QED
      BY <2>2, <2>3, LessStill DEF r
  <1>6. CASE s.bits = << >> /\ ~Exhausted(d) /\ s.icnt = 0 /\ s.kind # "Direct"
    <2>1. r = Refused(d, "mismatch")
      BY <1>6 DEF next_tnt, Ready
    <2>2. r.d = d /\ r.rc = "mismatch"
      BY <2>1 DEF Refused, Answer
    <2> HIDE DEF r
    <2> QED
      BY <2>2, LessStill DEF r
  <1> QED
    BY <1>1, <1>2, <1>3, <1>4, <1>5, <1>6

\* The calls that take the message in front, or refuse.
LEMMA NextMsgOK ==
  ASSUME NEW f, NEW d, Good(d, f), NEW kind \in {"Stop", "Error"}, NEW r,
         r \in {next_indirect(d), next_sync(d), next_end(d, kind)}
  PROVE  /\ Good(r.d, f) /\ NoMore(d, r.d)
         /\ r.rc # "ok" => r.d = d /\ r.rc = "mismatch"
         /\ r.rc = "ok" => Less(d, r.d)
  <1>1. CASE r = Refused(d, "mismatch")
    <2>1. r.d = d /\ r.rc = "mismatch"
      BY <1>1 DEF Refused, Answer
    <2> QED
      BY <2>1, LessStill
  <1>2. CASE r # Refused(d, "mismatch")
    <2>1. /\ r.rc = "ok" /\ Front(d).kind \notin {"End", "Unknown"}
          /\ r.d \in {Taken(d), [Taken(d) EXCEPT !.stack = << >>], [Taken(d) EXCEPT !.synced = FALSE]}
      <3>1. CASE r = next_indirect(d)
        BY <1>2, <3>1 DEF next_indirect, Answer
      <3>2. CASE r = next_sync(d)
        BY <1>2, <3>2 DEF next_sync, Answer
      <3>3. CASE r = next_end(d, kind)
        BY <1>2, <3>3 DEF next_end, Answer
      <3> QED
        BY <3>1, <3>2, <3>3
    <2>2. Good(Taken(d), f) /\ Less(d, Taken(d))
      BY <2>1, TakenOK
    <2>3. r.d \in Decoder /\ r.d.trace = Taken(d).trace
      <3>1. Taken(d) \in Decoder /\ << >> \in Seq(Nat)
        BY <2>2 DEF Good
      <3> QED
        BY <2>1, <3>1 DEF Decoder
    <2>4. Good(r.d, f) /\ NoMore(Taken(d), r.d)
      BY <2>2, <2>3, OthersChanged
    <2>5. Less(d, r.d)
      BY <2>2, <2>4, LessStill
    <2> QED
      BY <2>1, <2>4, <2>5, LessStill
  <1> QED
    BY <1>1, <1>2

\* The return stack does not hold back the trace.
LEMMA StackOK ==
  ASSUME NEW f, NEW d, Good(d, f)
  PROVE  /\ \A a \in Nat : Good(push_call(d, a), f) /\ NoMore(d, push_call(d, a))
         /\ Good(pop_ret(d).d, f) /\ NoMore(d, pop_ret(d).d)
         /\ Front(pop_ret(d).d) = Front(d)
         /\ pop_ret(d).rc \in {"ok", "retstack_empty"}
  <1>1. d \in Decoder
    BY DEF Good
  <1>2. ASSUME NEW a \in Nat
        PROVE  push_call(d, a) \in Decoder /\ push_call(d, a).trace = d.trace
    <2>1. Append(d.stack, a) \in Seq(Nat)
      BY <1>1 DEF Decoder
    <2> QED
      BY <1>1, <2>1 DEF push_call, Decoder
  <1>3. pop_ret(d).d \in Decoder /\ pop_ret(d).d.trace = d.trace
    <2>1. CASE d.stack = << >>
      BY <1>1, <2>1 DEF pop_ret, Refused, Answer
    <2>2. CASE d.stack # << >>
      <3>1. d.stack \in Seq(Nat) /\ Len(d.stack) \in Nat \ {0}
        BY <1>1, <2>2 DEF Decoder
      <3>2. SubSeq(d.stack, 1, Len(d.stack) - 1) \in Seq(Nat)
        BY <3>1, SubSeqProperties
      <3> QED
        BY <1>1, <2>2, <3>2 DEF pop_ret, Answer, Decoder
    <2> QED
      BY <2>1, <2>2
  <1>4. pop_ret(d).rc \in {"ok", "retstack_empty"}
    BY DEF pop_ret, Refused, Answer
  <1> QED
    BY <1>2, <1>3, <1>4, OthersChanged

-----------------------------------------------------------------------------
(***************************************************************************)
(* Blocks.                                                                 *)
(***************************************************************************)
ITypes == {"Cond_Branch", "Iret", "Exception", "Direct_Jump", "Direct_Call", "Indirect_Jump",
           "Indirect_Call", "Function_Return", "Coroutine_Swap"}

\* A block that is retired.
IsBlock(b) == /\ b.addr \in Nat /\ b.icnt \in Nat \ {0} /\ b.size \in 1 .. b.icnt
              /\ b.itype \in ITypes

\* What fetch finds is a block.
LEMMA FetchOK ==
  ASSUME NEW va \in Mapped, fetch(va) # NoBlock
  PROVE  IsBlock(fetch(va))
  <1> DEFINE e == Min(Enders(va))
             i == Program[e]
  <1>1. Enders(va) # {} /\ Enders(va) \subseteq Nat
    BY ProgramAssumption DEF fetch, Enders
  <1>2. e \in Enders(va)
    BY <1>1, MinOK
  <1> HIDE DEF e
  <1>3. /\ e \in DOMAIN Program /\ e \in Nat /\ va \in Nat /\ e >= va
        /\ i.size \in 1 .. 2 /\ itype(i) # "None"
    BY <1>2, ProgramAssumption DEF Enders
  <1>4. fetch(va) = [addr |-> va, icnt |-> e + i.size - va, itype |-> itype(i),
                     size |-> i.size, to |-> i.to]
    BY <1>1 DEF fetch, e
  <1>5. itype(i) \in ITypes
    <2> HIDE DEF i
    <2> QED
      BY <1>3 DEF itype, ITypes, jal_types, jalr_types, cjr_types, cjalr_types
  <1> HIDE DEF i
  <1>6. e + i.size - va \in Nat \ {0} /\ i.size \in 1 .. (e + i.size - va)
    BY <1>3
  <1> QED
    BY <1>3, <1>4, <1>5, <1>6 DEF IsBlock

\* What may come of retiring a block: less is to come, an event is in front, or a
\* failure says what is in front.
Sane(x, d, f) ==
    /\ Good(x.d, f) /\ NoMore(d, x.d) /\ x.out \in {"ok", "event", "failed"}
    /\ x.out = "ok" => Less(d, x.d)
    /\ x.out = "event" => /\ x.event = EventOf(Front(x.d)) /\ Front(x.d).icnt = 0
                          /\ ~Exhausted(x.d)
    /\ x.out = "failed" => /\ x.rc \in {"eof", "unsupported", "mismatch", "retstack_empty"}
                           /\ x.rc = "eof" => Front(x.d).kind = "End"
                           /\ x.rc = "unsupported" => Front(x.d).kind = "Unknown"

\* A failure that is not the end of what can be decoded, or that is it.
LEMMA FailsSane ==
  ASSUME NEW f, NEW d, Good(d, f), NEW e, Good(e, f), NoMore(d, e), NEW rc,
         rc \in {"mismatch", "retstack_empty"} \/ (Exhausted(e) /\ rc = WhyExhausted(e))
  PROVE  Sane(Fails(e, rc), d, f)
  <1>1. /\ rc = "eof" => Front(e).kind = "End"
        /\ rc = "unsupported" => Front(e).kind = "Unknown"
        /\ rc \in {"eof", "unsupported", "mismatch", "retstack_empty"}
    BY DEF Exhausted, WhyExhausted
  <1>2. Fails(e, rc).d = e /\ Fails(e, rc).out = "failed" /\ Fails(e, rc).rc = rc
    BY DEF Fails
  <1> QED
    BY <1>1, <1>2 DEF Sane

\* check_exc, for a block that is not retired as a whole.
LEMMA CheckExcSane ==
  ASSUME NEW f, NEW d, Good(d, f), NEW b, IsBlock(b), Exceptional(b, try_retire(d, b.icnt))
  PROVE  Sane(check_exc(b, try_retire(d, b.icnt)), d, f)
  <1> DEFINE r == try_retire(d, b.icnt)
  <1>1. b.icnt \in Nat
    BY DEF IsBlock
  <1>0. Passes(r, d, b.icnt, f)
    BY <1>1, TryRetireOK
  <1>2. /\ Good(r.d, f) /\ NoMore(d, r.d)
        /\ r.rc # "ok" => r.d = d /\ Exhausted(d) /\ r.rc = WhyExhausted(d)
        /\ r.rc = "ok" => /\ r.n \in 0 .. b.icnt
                          /\ \/ r.event = "None" /\ r.n = b.icnt /\ Front(r.d).icnt > 0
                             \/ /\ r.event = EventOf(Front(r.d)) /\ ~Exhausted(r.d)
                                /\ Front(r.d).icnt = 0
    BY <1>0 DEF Passes
  <1> HIDE DEF r
  <1>3. CASE r.rc # "ok"
    BY <1>2, <1>3, FailsSane DEF check_exc, r
  <1>4. CASE r.rc = "ok" /\ r.event \in AnyTime
    <2>1. r.n < b.icnt
      BY <1>4 DEF Exceptional, r
    <2>2. check_exc(b, r) = Throws(r.d, b.addr + r.n, r.event)
      BY <1>4 DEF check_exc
    <2>3. r.event = EventOf(Front(r.d)) /\ ~Exhausted(r.d) /\ Front(r.d).icnt = 0
      BY <1>1, <1>2, <1>4, <2>1
    <2> QED
      BY <1>2, <2>2, <2>3 DEF Sane, Throws, r
  <1>5. CASE r.rc = "ok" /\ r.event \notin AnyTime
    <2>1. check_exc(b, r) = Fails(r.d, "mismatch")
      BY <1>5 DEF check_exc
    <2> QED
      BY <1>2, <2>1, FailsSane DEF r
  <1> QED
    BY <1>3, <1>4, <1>5

\* A block that is retired as a whole leaves less.
LEMMA WholeBlock ==
  ASSUME NEW f, NEW d, Good(d, f), NEW b, IsBlock(b), ~Exceptional(b, try_retire(d, b.icnt))
  PROVE  LET r == try_retire(d, b.icnt)
         IN  /\ Good(r.d, f) /\ Less(d, r.d) /\ NoMore(d, r.d)
             /\ r.event = "Error" =>
                   r.event = EventOf(Front(r.d)) /\ ~Exhausted(r.d) /\ Front(r.d).icnt = 0
  <1> DEFINE r == try_retire(d, b.icnt)
  <1>1. b.icnt \in Nat /\ b.icnt > 0
    BY DEF IsBlock
  <1>0. Passes(r, d, b.icnt, f)
    BY <1>1, TryRetireOK
  <1>2. /\ Good(r.d, f)
        /\ r.rc = "ok" => /\ r.n \in 0 .. b.icnt
                          /\ r.n > 0 => Less(d, r.d)
                          /\ \/ r.event = "None" /\ r.n = b.icnt /\ Front(r.d).icnt > 0
                             \/ /\ r.event = EventOf(Front(r.d)) /\ ~Exhausted(r.d)
                                /\ Front(r.d).icnt = 0
    BY <1>0 DEF Passes
  <1>3. r.rc = "ok" /\ ~(r.n < b.icnt)
    BY DEF Exceptional
  <1> HIDE DEF r
  <1>4. Less(d, r.d)
    BY <1>1, <1>2, <1>3
  <1> QED
    BY <1>2, <1>3, <1>4, LessStill DEF r

\* Every way to retire a block.
LEMMA DirJmpSane ==
  ASSUME NEW f, NEW d, Good(d, f), NEW b, IsBlock(b)
  PROVE  Sane(retire_dir_jmp(b, d), d, f)
  <1>1. CASE Exceptional(b, try_retire(d, b.icnt))
    BY <1>1, CheckExcSane DEF retire_dir_jmp
  <1>2. CASE ~Exceptional(b, try_retire(d, b.icnt))
    <2>1. retire_dir_jmp(b, d) = Retires(try_retire(d, b.icnt).d, Target(b))
      BY <1>2 DEF retire_dir_jmp
    <2> QED
      BY <1>2, <2>1, WholeBlock DEF Sane, Retires
  <1> QED
    BY <1>1, <1>2

LEMMA CondBranchSane ==
  ASSUME NEW f, NEW d, Good(d, f), NEW b, IsBlock(b)
  PROVE  Sane(retire_cond_branch(b, d), d, f)
  <1> DEFINE r == try_retire(d, b.icnt)
             t == next_tnt(r.d)
  <1>1. CASE Exceptional(b, r)
    BY <1>1, CheckExcSane DEF retire_cond_branch
  <1>2. CASE ~Exceptional(b, r)
    <2>1. /\ Good(r.d, f) /\ Less(d, r.d) /\ NoMore(d, r.d)
          /\ r.event = "Error" =>
                r.event = EventOf(Front(r.d)) /\ ~Exhausted(r.d) /\ Front(r.d).icnt = 0
      BY <1>2, WholeBlock
    <2>2. /\ Good(t.d, f) /\ NoMore(r.d, t.d) /\ (t.rc # "ok" => t.d = r.d)
          /\ t.rc \in {"ok", "mismatch"} \/ (Exhausted(r.d) /\ t.rc = WhyExhausted(r.d))
      BY <2>1, NextTntOK
    <2>3. retire_cond_branch(b, d) =
            IF r.event = "Error" THEN Throws(r.d, Behind(b), "Error")
            ELSE IF t.rc # "ok" THEN Fails(t.d, t.rc)
            ELSE Retires(t.d, IF t.value = 1 THEN Target(b) ELSE Behind(b))
      BY <1>2 DEF retire_cond_branch
    <2> HIDE DEF r, t
    <2>4. Less(d, t.d) /\ NoMore(d, t.d)
      BY <2>1, <2>2, LessStill
    <2>5. CASE r.event = "Error"
      BY <2>1, <2>3, <2>5 DEF Sane, Throws
    <2>6. CASE r.event # "Error" /\ t.rc # "ok"
      BY <2>2, <2>3, <2>4, <2>6, FailsSane
    <2>7. CASE r.event # "Error" /\ t.rc = "ok"
      BY <2>2, <2>3, <2>4, <2>7 DEF Sane, Retires
    <2> QED
      BY <2>5, <2>6, <2>7
  <1> QED
    BY <1>1, <1>2

LEMMA IndirJmpSane ==
  ASSUME NEW f, NEW d, Good(d, f), NEW b, IsBlock(b)
  PROVE  Sane(retire_indir_jmp(b, d), d, f)
  <1> DEFINE r == try_retire(d, b.icnt)
             i == next_indirect(r.d)
  <1>1. CASE Exceptional(b, r)
    BY <1>1, CheckExcSane DEF retire_indir_jmp
  <1>2. CASE ~Exceptional(b, r)
    <2>1. /\ Good(r.d, f) /\ Less(d, r.d) /\ NoMore(d, r.d)
      BY <1>2, WholeBlock
    <2>2. Good(i.d, f) /\ NoMore(r.d, i.d) /\ (i.rc # "ok" => i.d = r.d /\ i.rc = "mismatch")
      BY <2>1, NextMsgOK
    <2>3. retire_indir_jmp(b, d) =
            IF r.event # "Indirect" THEN Fails(r.d, "mismatch")
            ELSE IF i.rc # "ok" THEN Fails(i.d, i.rc)
            ELSE Retires(i.d, i.value)
      BY <1>2 DEF retire_indir_jmp
    <2> HIDE DEF r, i
    <2>4. Less(d, i.d) /\ NoMore(d, i.d)
      BY <2>1, <2>2, LessStill
    <2>5. CASE r.event # "Indirect"
      BY <2>1, <2>3, <2>5, FailsSane
    <2>6. CASE r.event = "Indirect" /\ i.rc # "ok"
      BY <2>2, <2>3, <2>4, <2>6, FailsSane
    <2>7. CASE r.event = "Indirect" /\ i.rc = "ok"
      BY <2>2, <2>3, <2>4, <2>7 DEF Sane, Retires
    <2> QED
      BY <2>5, <2>6, <2>7
  <1> QED
    BY <1>1, <1>2

LEMMA RetSane ==
  ASSUME NEW f, NEW d, Good(d, f), NEW b, IsBlock(b)
  PROVE  Sane(retire_ret(b, d), d, f)
  <1> DEFINE r == try_retire(d, b.icnt)
             p == pop_ret(r.d)
             i == next_indirect(p.d)
  <1>1. CASE Exceptional(b, r)
    BY <1>1, CheckExcSane DEF retire_ret
  <1>2. CASE ~Exceptional(b, r)
    <2>1. /\ Good(r.d, f) /\ Less(d, r.d) /\ NoMore(d, r.d)
          /\ r.event = "Error" =>
                r.event = EventOf(Front(r.d)) /\ ~Exhausted(r.d) /\ Front(r.d).icnt = 0
      BY <1>2, WholeBlock
    <2>2. Good(p.d, f) /\ NoMore(r.d, p.d) /\ p.rc \in {"ok", "retstack_empty"}
      BY <2>1, StackOK
    <2>3. Good(i.d, f) /\ NoMore(p.d, i.d) /\ (i.rc # "ok" => i.d = p.d /\ i.rc = "mismatch")
      BY <2>2, NextMsgOK
    <2>4. retire_ret(b, d) =
            IF r.event = "Error" THEN Throws(r.d, Behind(b), "Error")
            ELSE IF r.event = "Indirect"
                    THEN IF i.rc # "ok" THEN Fails(i.d, i.rc) ELSE Retires(i.d, i.value)
            ELSE IF p.rc # "ok" THEN Fails(p.d, p.rc)
            ELSE Retires(p.d, p.value)
      BY <1>2 DEF retire_ret
    <2> HIDE DEF r, p, i
    <2>5. Less(d, p.d) /\ NoMore(d, p.d) /\ Less(d, i.d) /\ NoMore(d, i.d)
      <3>1. Less(d, p.d) /\ NoMore(d, p.d)
        BY <2>1, <2>2, LessStill
      <3> QED
        BY <2>1, <2>2, <2>3, <3>1, LessStill
    <2>6. CASE r.event = "Error"
      BY <2>1, <2>4, <2>6 DEF Sane, Throws
    <2>7. CASE r.event = "Indirect" /\ i.rc # "ok"
      BY <2>3, <2>4, <2>5, <2>7, FailsSane
    <2>8. CASE r.event = "Indirect" /\ i.rc = "ok"
      BY <2>3, <2>4, <2>5, <2>8 DEF Sane, Retires
    <2>9. CASE r.event \notin {"Error", "Indirect"} /\ p.rc # "ok"
      BY <2>2, <2>4, <2>5, <2>9, FailsSane
    <2>10. CASE r.event \notin {"Error", "Indirect"} /\ p.rc = "ok"
      BY <2>2, <2>4, <2>5, <2>10 DEF Sane, Retires
    <2> QED
      BY <2>6, <2>7, <2>8, <2>9, <2>10
  <1> QED
    BY <1>1, <1>2

LEMMA IntSane ==
  ASSUME NEW f, NEW d, Good(d, f), NEW b, IsBlock(b)
  PROVE  Sane(retire_int(b, d), d, f)
  <1> DEFINE n == b.icnt - b.size
             r == try_retire(d, n)
             i == next_indirect(r.d)
  <1>1. n \in Nat
    BY DEF IsBlock
  <1>0. Passes(r, d, n, f)
    BY <1>1, TryRetireOK
  <1>2. /\ Good(r.d, f) /\ NoMore(d, r.d)
        /\ r.rc # "ok" => r.d = d /\ Exhausted(d) /\ r.rc = WhyExhausted(d)
        /\ r.rc = "ok" => /\ r.n \in 0 .. n
                          /\ \/ r.event = "None" /\ r.n = n /\ Front(r.d).icnt > 0
                             \/ /\ r.event = EventOf(Front(r.d)) /\ ~Exhausted(r.d)
                                /\ Front(r.d).icnt = 0
    BY <1>0 DEF Passes
  <1>3. /\ Good(i.d, f) /\ NoMore(r.d, i.d) /\ (i.rc # "ok" => i.d = r.d /\ i.rc = "mismatch")
        /\ i.rc = "ok" => Less(r.d, i.d)
    BY <1>2, NextMsgOK
  <1>4. retire_int(b, d) =
          IF r.rc # "ok" THEN Fails(r.d, r.rc)
          ELSE IF r.n < n THEN Throws(r.d, b.addr + r.n, r.event)
          ELSE IF r.event # "Trap" THEN Fails(r.d, "mismatch")
          ELSE IF i.rc # "ok" THEN Fails(i.d, i.rc)
          ELSE Retires(i.d, i.value)
    BY DEF retire_int
  <1> HIDE DEF n, r, i
  <1>5. NoMore(d, i.d) /\ (i.rc = "ok" => Less(d, i.d))
    BY <1>2, <1>3, LessStill
  <1>6. CASE r.rc # "ok"
    BY <1>2, <1>4, <1>6, FailsSane
  <1>7. CASE r.rc = "ok" /\ r.n < n
    <2>1. r.event = EventOf(Front(r.d)) /\ ~Exhausted(r.d) /\ Front(r.d).icnt = 0
      BY <1>1, <1>2, <1>7
    <2> QED
      BY <1>2, <1>4, <1>7, <2>1 DEF Sane, Throws
  <1>8. CASE r.rc = "ok" /\ ~(r.n < n) /\ r.event # "Trap"
    BY <1>2, <1>4, <1>8, FailsSane
  <1>9. CASE r.rc = "ok" /\ ~(r.n < n) /\ r.event = "Trap" /\ i.rc # "ok"
    BY <1>3, <1>4, <1>5, <1>9, FailsSane
  <1>10. CASE r.rc = "ok" /\ ~(r.n < n) /\ r.event = "Trap" /\ i.rc = "ok"
    BY <1>3, <1>4, <1>5, <1>10 DEF Sane, Retires
  <1> QED
    BY <1>6, <1>7, <1>8, <1>9, <1>10

\* A call is pushed when its block has been retired.
LEMMA PushedSane ==
  ASSUME NEW f, NEW d, Good(d, f), NEW x, Sane(x, d, f), NEW a \in Nat,
         x = [out |-> x.out, d |-> x.d, ip |-> x.ip, event |-> x.event, rc |-> x.rc]
  PROVE  Sane(IF x.out = "ok" THEN [x EXCEPT !.d = push_call(@, a)] ELSE x, d, f)
  <1>1. CASE x.out = "ok"
    <2> DEFINE y == [x EXCEPT !.d = push_call(@, a)]
    <2>1. y.d = push_call(x.d, a) /\ y.out = "ok"
      BY <1>1
    <2>2. Good(x.d, f) /\ Less(d, x.d)
      BY <1>1 DEF Sane
    <2>3. Good(push_call(x.d, a), f) /\ NoMore(x.d, push_call(x.d, a))
      BY <2>2, StackOK
    <2>4. Less(d, push_call(x.d, a)) /\ NoMore(d, push_call(x.d, a))
      BY <2>2, <2>3, LessStill
    <2> HIDE DEF y
    <2>5. Sane(y, d, f)
      BY <2>1, <2>3, <2>4 DEF Sane
    <2> QED
      BY <1>1, <2>5 DEF y
  <1>2. CASE x.out # "ok"
    BY <1>2
  <1> QED
    BY <1>1, <1>2

LEMMA RetireSane ==
  ASSUME NEW f, NEW d, Good(d, f), NEW b, IsBlock(b), NEW q \in BOOLEAN
  PROVE  Sane(retire(b, d, q), d, f)
  <1>1. Behind(b) \in Nat
    BY DEF IsBlock, Behind
  <1> DEFINE IsResult(x) ==
               x = [out |-> x.out, d |-> x.d, ip |-> x.ip, event |-> x.event, rc |-> x.rc]
  <1>2. /\ IsResult(retire_dir_jmp(b, d)) /\ IsResult(retire_indir_jmp(b, d))
        /\ IsResult(retire_ret(b, d))
    <2>1. /\ \A e, ip, event : IsResult(Throws(e, ip, event))
          /\ \A e, ip : IsResult(Retires(e, ip))
          /\ \A e, rc : IsResult(Fails(e, rc))
      BY DEF Throws, Retires, Fails
    <2>2. \A r : IsResult(check_exc(b, r))
      BY <2>1, Zenon DEF check_exc
    <2> HIDE DEF IsResult
    <2>3. IsResult(retire_dir_jmp(b, d))
      BY <2>1, <2>2, Zenon DEF retire_dir_jmp
    <2>4. IsResult(retire_indir_jmp(b, d))
      BY <2>1, <2>2, Zenon DEF retire_indir_jmp
    <2>5. IsResult(retire_ret(b, d))
      BY <2>1, <2>2, Zenon DEF retire_ret
    <2> QED
      BY <2>3, <2>4, <2>5
  <1>3. Sane(retire_dir_call(b, d), d, f)
    BY <1>1, <1>2, DirJmpSane, PushedSane DEF retire_dir_call
  <1>4. Sane(retire_indir_call(b, d), d, f)
    BY <1>1, <1>2, IndirJmpSane, PushedSane DEF retire_indir_call
  <1>5. Sane(retire_co_swap(b, d, q), d, f)
    BY <1>1, <1>2, <1>4, RetSane, PushedSane DEF retire_co_swap
  <1> QED
    BY <1>3, <1>4, <1>5, DirJmpSane, CondBranchSane, IndirJmpSane, RetSane, IntSane
       DEF retire, IsBlock, ITypes

-----------------------------------------------------------------------------
(***************************************************************************)
(* The loop.                                                               *)
(***************************************************************************)
\* Segments in front are dropped.
LEMMA SuffixOK ==
  ASSUME NEW f, NEW d, Good(d, f), NEW k \in 1 .. Len(d.trace)
  PROVE  LET e == [d EXCEPT !.trace = SubSeq(@, k, Len(@))]
         IN  /\ Good(e, f) /\ Len(e.trace) = Len(d.trace) - k + 1
             /\ Front(e) = d.trace[k]
  <1> DEFINE t == d.trace
             u == SubSeq(t, k, Len(t))
             e == [d EXCEPT !.trace = SubSeq(@, k, Len(@))]
  <1>1. t \in Seq(Segment) /\ Len(t) \in Nat \ {0} /\ d \in Decoder /\ k <= Len(t) /\ k \in Nat \ {0}
    BY FrontOK DEF Good
  <1>2. /\ u \in Seq(Segment) /\ Len(u) = Len(t) - k + 1
        /\ \A i \in 1 .. Len(t) - k + 1 : u[i] = t[k + i - 1]
    <2>1. /\ u \in Seq(Segment)
          /\ Len(u) = IF k <= Len(t) THEN Len(t) - k + 1 ELSE 0
          /\ \A i \in 1 .. Len(t) - k + 1 : u[i] = t[k + i - 1]
      BY <1>1, SubSeqProperties
    <2> HIDE DEF u
    <2> QED
      BY <1>1, <2>1
  <1>3. e.trace = u /\ e \in Decoder
    BY <1>1, <1>2 DEF Decoder
  <1> HIDE DEF u, e
  <1>4. u # << >>
    BY <1>1, <1>2
  <1>5. \A i \in 1 .. Len(u) : u[i].kind = "End" <=> i = Len(u)
    <2>1. \A i \in 1 .. Len(t) : t[i].kind = "End" <=> i = Len(t)
      BY DEF Good
    <2>2. ASSUME NEW i \in 1 .. Len(u)
          PROVE  u[i] = t[k + i - 1] /\ k + i - 1 \in 1 .. Len(t)
                 /\ (k + i - 1 = Len(t) <=> i = Len(u))
      BY <1>1, <1>2
    <2> QED
      BY <2>1, <2>2
  <1>6. Joined(u)
    <2> SUFFICES ASSUME NEW i \in 1 .. Len(u) - 1, u[i].kind = "Unknown"
                 PROVE  EndOf(u[i]) = u[i + 1].begin
      BY DEF Joined
    <2>1. Joined(t)
      BY DEF Good
    <2>2. /\ k + i - 1 \in 1 .. Len(t) - 1 /\ u[i] = t[k + i - 1]
          /\ u[i + 1] = t[k + (i + 1) - 1] /\ k + (i + 1) - 1 = (k + i - 1) + 1
      BY <1>1, <1>2
    <2> QED
      BY <2>1, <2>2 DEF Joined
  <1>7. EndOf(u[Len(u)]) = f
    <2>1. EndOf(t[Len(t)]) = f
      BY DEF Good
    <2>2. u[Len(u)] = t[Len(t)]
      <3>1. Len(u) \in 1 .. Len(t) - k + 1 /\ k + Len(u) - 1 = Len(t)
        BY <1>1, <1>2
      <3> QED
        BY <1>2, <3>1
    <2> QED
      BY <2>1, <2>2
  <1>8. Good(e, f)
    BY <1>3, <1>4, <1>5, <1>6, <1>7 DEF Good
  <1>9. u[1] = t[k]
    <2>1. 1 \in 1 .. Len(t) - k + 1 /\ k + 1 - 1 = k
      BY <1>1
    <2> QED
      BY <1>2, <2>1
  <1>10. Front(e) = e.trace[1]
    BY <1>8, FrontOK
  <1> QED
    BY <1>2, <1>3, <1>8, <1>9, <1>10 DEF e

\* sync_reset drops the segments in front of a sync, and the sync.
LEMMA SyncResetOK ==
  ASSUME NEW f, NEW d, Good(d, f)
  PROVE  LET r == sync_reset(d)
         IN  Good(r.d, f) /\ (r.rc = "ok" => Len(r.d.trace) < Len(d.trace))
  <1> DEFINE S == { j \in 1 .. Len(d.trace) : ~Skippable(d.trace[j]) }
             k == Reached(d)
             r == sync_reset(d)
             rest == SubSeq(d.trace, k, Len(d.trace))
             e == [d EXCEPT !.trace = SubSeq(@, k, Len(@))]
  <1>1. Len(d.trace) \in Nat \ {0} /\ d \in Decoder
    BY FrontOK DEF Good
  <1>2. Len(d.trace) \in S
    <2>1. Len(d.trace) \in 1 .. Len(d.trace)
      BY <1>1
    <2>2. d.trace[Len(d.trace)].kind = "End"
      BY <2>1 DEF Good
    <2> QED
      BY <2>1, <2>2 DEF Skippable
  <1>3. k \in 1 .. Len(d.trace)
    <2>1. S \subseteq Nat /\ S # {}
      BY <1>1, <1>2
    <2>2. Min(S) \in S
      BY <2>1, MinOK
    <2>3. k = Min(S)
      BY DEF Reached
    <2> QED
      BY <2>2, <2>3
  <1> HIDE DEF k
  <1>4. Good(e, f) /\ Len(e.trace) = Len(d.trace) - k + 1 /\ Front(e) = d.trace[k]
    BY <1>3, SuffixOK
  <1>5. e.trace = rest
    BY <1>1 DEF Decoder
  <1>6. CASE d.trace[k].kind \in {"End", "Unknown"}
    <2>1. r.d = e /\ r.rc # "ok"
      BY <1>5, <1>6 DEF sync_reset, Refused, Answer, k
    <2> HIDE DEF r, e
    <2> QED
      BY <1>4, <2>1 DEF r
  <1>7. CASE d.trace[k].kind \notin {"End", "Unknown"}
    <2>1. r.d = [trace |-> Tail(rest), synced |-> TRUE, stack |-> << >>]
      BY <1>7 DEF sync_reset, Answer, k
    <2> DEFINE c == [e EXCEPT !.trace = Tail(@)]
    <2>2. Good(c, f) /\ Len(c.trace) = Len(e.trace) - 1
      BY <1>4, <1>7, FrontDropped
    <2>3. e \in Decoder
      BY <1>4 DEF Good
    <2>4. c.trace = Tail(rest) /\ c.trace \in Seq(Segment)
      BY <1>5, <2>2, <2>3, FrontOK DEF Decoder
    <2>5. r.d.trace = c.trace /\ r.d \in Decoder
      <3>1. << >> \in Seq(Nat)
        OBVIOUS
      <3> HIDE DEF c, rest
      <3> QED
        BY <2>1, <2>4, <3>1 DEF Decoder
    <2> HIDE DEF r, e, c
    <2>6. Good(r.d, f)
      BY <2>2, <2>5, OthersChanged
    <2>7. Len(r.d.trace) < Len(d.trace)
      BY <1>1, <1>3, <1>4, <2>2, <2>5
    <2> QED
      BY <2>6, <2>7 DEF r
  <1> QED
    BY <1>6, <1>7

\* An event that is handled leaves less, or ends the loop; none changes nothing.
LEMMA HandleOK ==
  ASSUME NEW f, NEW d, Good(d, f), Front(d).icnt = 0, ~Exhausted(d), NEW ip,
         Handle(d, EventOf(Front(d)), ip)
  PROVE  /\ Good(dec', f)
         /\ \/ Less(d, dec') /\ status' = status
            \/ status' = "mismatch"
            \/ dec' = d /\ status' = status /\ Front(d).kind = "Quiet" /\ Ready(d)
  <1> DEFINE event == EventOf(Front(d))
             h == HandleEvent(d, event, ip)
  <1>1. Front(d) \in Segment /\ Front(d).kind \in Kinds \ {"End", "Unknown"}
    BY FrontOK DEF Segment, Exhausted
  <1>2. \/ event \in {"Error", "Direct", "DirectSync", "Indirect", "IndirectSync", "Trap", "Sync", "Stop"}
        \/ event = "None" /\ Front(d).kind = "Quiet" /\ Front(d).bits = << >>
    BY <1>1 DEF EventOf, Kinds
  <1> HIDE DEF event
  <1>6. CASE event = "None"
    <2>1. h.r = Answer(d, "ok", 0, "None", 0)
      BY <1>6 DEF HandleEvent
    <2>2. h.r.d = d /\ h.r.rc = "ok"
      BY <2>1 DEF Answer
    <2>3. dec' = h.r.d /\ IF h.r.rc = "ok" THEN GoesOn(h.ip) ELSE Ends(h.r.rc)
      BY DEF Handle, event
    <2> HIDE DEF h
    <2> QED
      BY <1>2, <1>6, <2>2, <2>3 DEF GoesOn, Ready
  <1> SUFFICES ASSUME event # "None"
               PROVE  /\ Good(dec', f)
                      /\ \/ Less(d, dec') /\ status' = status
                         \/ status' = "mismatch"
    BY <1>6
  <1>3. h.r = next_tnt(d) \/ \E kind \in {"Stop", "Error"} :
                                h.r \in {next_indirect(d), next_sync(d), next_end(d, kind)}
    <2>1. CASE event \in {"Direct", "DirectSync"}
      BY <2>1 DEF HandleEvent
    <2>2. CASE event \in {"Indirect", "IndirectSync", "Trap"}
      BY <2>2 DEF HandleEvent
    <2>3. CASE event = "Sync"
      BY <2>3 DEF HandleEvent
    <2>4. CASE event \in {"Stop", "Error"}
      BY <2>4 DEF HandleEvent
    <2> QED
      BY <1>2, <2>1, <2>2, <2>3, <2>4
  <1>4. dec' = h.r.d /\ IF h.r.rc = "ok" THEN GoesOn(h.ip) ELSE Ends(h.r.rc)
    BY DEF Handle, event
  <1> HIDE DEF h
  <1>5. Good(h.r.d, f) /\ IF h.r.rc = "ok" THEN Less(d, h.r.d) ELSE h.r.rc = "mismatch"
    BY <1>3, NextTntOK, NextMsgOK
  <1> QED
    BY <1>4, <1>5 DEF GoesOn, Ends

\* A failure ends the loop, at the end of the trace when it is done, or leaves
\* less.
LEMMA HandleErrorOK ==
  ASSUME NEW f, NEW d, Good(d, f), NEW rc,
         rc = "eof" => Front(d).kind = "End",
         rc = "unsupported" => Front(d).kind = "Unknown",
         HandleError(d, rc), rc \notin {"running", "done"}
  PROVE  /\ Good(dec', f)
         /\ \/ Less(d, dec') /\ status' = status
            \/ status' # "running"
         /\ status' = "done" => status = "done" \/ Len(dec'.trace) = 1
  <1>1. CASE rc = "eof"
    BY <1>1, FrontOK DEF HandleError, Ends
  <1>2. CASE rc = "unsupported"
    <2>1. dec' = take_unsupported(d) /\ status' = status
      BY <1>2 DEF HandleError, GoesOn
    <2>2. Good(dec', f) /\ Len(dec'.trace) = Len(d.trace) - 1
      BY <1>2, <2>1, UnsupportedTaken
    <2>3. Len(d.trace) \in Nat
      BY FrontOK
    <2>4. Less(d, dec')
      BY <2>2, <2>3 DEF Less
    <2> QED
      BY <2>1, <2>2, <2>4
  <1>3. CASE rc \notin {"eof", "unsupported"}
    BY <1>3 DEF HandleError, Ends
  <1> QED
    BY <1>1, <1>2, <1>3

\* What a step of the loop leaves of the trace.
LEMMA StepsOK ==
  ASSUME IInv, Steps
  PROVE  /\ Good(dec', from) /\ UNCHANGED <<hartVars, recording>> /\ ~recording
         /\ status' = "done" => Len(dec'.trace) = 1
         /\ Advances \/ status' # "running" \/ GoesRound
  <1>0. ASSUME Less(dec, dec')
        PROVE  Advances
    BY <1>0 DEF Less, Advances
  <1>1. ~recording /\ status = "running" /\ Good(dec, from) /\ quirk \in BOOLEAN
    BY DEF Steps, SyncReset, RetireBlock, RetireEvent, RetireFails, RetireBlind, Blocked, Running,
           IInv, ReplayOK, HartOK
  <1>2. UNCHANGED <<hartVars, recording>>
    BY DEF Steps, SyncReset, RetireBlock, RetireEvent, RetireFails, RetireBlind, Iteration
  <1>3. CASE SyncReset
    <2>1. dec' = sync_reset(dec).d
      BY <1>3 DEF SyncReset
    <2>2. IF sync_reset(dec).rc = "ok" THEN status' = status ELSE status' = "sync_failed"
      BY <1>3 DEF SyncReset, GoesOn, Ends
    <2>3. /\ Good(dec', from)
          /\ sync_reset(dec).rc = "ok" => Len(dec'.trace) < Len(dec.trace)
      BY <1>1, <2>1, SyncResetOK
    <2> QED
      BY <1>1, <1>2, <2>2, <2>3 DEF Advances
  <1>4. ASSUME Blocked
        PROVE  Sane(Result, dec, from)
    <2>1. lastip \in Mapped /\ Block = fetch(lastip) /\ Block # NoBlock
      BY <1>4 DEF Blocked, Block, insts
    <2>2. IsBlock(Block)
      BY <2>1, FetchOK
    <2> QED
      BY <1>1, <2>2, RetireSane DEF Result
  <1>5. CASE RetireBlock
    <2>1. dec' = Result.d /\ Result.out = "ok" /\ status' = status
      BY <1>5 DEF RetireBlock, GoesOn
    <2>2. Good(dec', from) /\ Less(dec, dec')
      BY <1>4, <1>5, <2>1 DEF RetireBlock, Sane
    <2> QED
      BY <1>0, <1>1, <1>2, <2>1, <2>2
  <1>6. CASE RetireEvent
    <2> DEFINE r == Result
    <2>1. /\ Good(r.d, from) /\ NoMore(dec, r.d)
          /\ r.event = EventOf(Front(r.d)) /\ Front(r.d).icnt = 0 /\ ~Exhausted(r.d)
      BY <1>4, <1>6 DEF RetireEvent, Sane
    <2>2. \/ dec' = r.d /\ status' \in {"aborted", "undecodable"}
          \/ r.event # "None" /\ Handle(r.d, r.event, r.ip)
      BY <1>6 DEF RetireEvent, Ends
    <2> HIDE DEF r
    <2>3. CASE dec' = r.d /\ status' \in {"aborted", "undecodable"}
      BY <1>1, <1>2, <2>1, <2>3
    <2>4. CASE r.event # "None" /\ Handle(r.d, r.event, r.ip)
      <3>0. ~(Front(r.d).kind = "Quiet" /\ Ready(r.d))
        BY <2>1, <2>4 DEF EventOf, Ready
      <3>1. Good(dec', from) /\ (\/ Less(r.d, dec') /\ status' = status
                                 \/ status' = "mismatch")
        BY <2>1, <2>4, <3>0, HandleOK
      <3> QED
        BY <1>0, <1>1, <1>2, <2>1, <3>1, LessStill
    <2> QED
      BY <2>2, <2>3, <2>4
  <1>7. CASE RetireFails
    <2> DEFINE r == Result
    <2>1. /\ Good(r.d, from) /\ NoMore(dec, r.d)
          /\ r.rc = "eof" => Front(r.d).kind = "End"
          /\ r.rc = "unsupported" => Front(r.d).kind = "Unknown"
      BY <1>4, <1>7 DEF RetireFails, Sane
    <2>2. HandleError(r.d, r.rc)
      BY <1>7 DEF RetireFails
    <2>3. r.rc \notin {"running", "done"}
      BY <1>4, <1>7 DEF RetireFails, Sane
    <2> HIDE DEF r
    <2>4. /\ Good(dec', from)
          /\ \/ Less(r.d, dec') /\ status' = status
             \/ status' # "running"
          /\ status' = "done" => status = "done" \/ Len(dec'.trace) = 1
      BY <2>1, <2>2, <2>3, HandleErrorOK
    <2> QED
      BY <1>0, <1>1, <1>2, <2>1, <2>4, LessStill
  <1>8. CASE RetireBlind
    <2> DEFINE n == Front(dec).icnt + 1
               r == try_retire(dec, n)
    <2>1. Front(dec).icnt \in Nat /\ n \in Nat
      BY <1>1, FrontOK DEF Segment
    <2>2. Passes(r, dec, n, from)
      BY <1>1, <2>1, TryRetireOK
    <2>3. r.rc = "ok" => r.n < n
      <3>1. CASE Exhausted(dec)
        BY <2>1, <3>1 DEF try_retire, Refused, Answer, WhyExhausted
      <3>2. CASE ~Exhausted(dec)
        BY <2>1, <3>2 DEF try_retire, Answer
      <3> QED
        BY <3>1, <3>2
    <2>7. r.rc = "ok" => r.n = Front(dec).icnt
      <3>1. CASE Exhausted(dec)
        BY <2>1, <3>1 DEF try_retire, Refused, Answer, WhyExhausted
      <3>2. CASE ~Exhausted(dec)
        BY <2>1, <3>2 DEF try_retire, Answer
      <3> QED
        BY <3>1, <3>2
    <2>4. \E ip : IF r.rc = "ok" THEN Handle(r.d, r.event, ip) ELSE HandleError(r.d, r.rc)
      BY <1>8 DEF RetireBlind
    <2> HIDE DEF n, r
    <2>5. CASE r.rc = "ok"
      <3>1. PICK ip : Handle(r.d, r.event, ip)
        BY <2>4, <2>5
      <3>2. /\ Good(r.d, from) /\ NoMore(dec, r.d)
            /\ r.event = EventOf(Front(r.d)) /\ Front(r.d).icnt = 0 /\ ~Exhausted(r.d)
        BY <2>1, <2>2, <2>3, <2>5 DEF Passes
      <3>3. /\ Good(dec', from)
            /\ \/ Less(r.d, dec') /\ status' = status
               \/ status' = "mismatch"
               \/ /\ dec' = r.d /\ status' = status
                  /\ Front(r.d).kind = "Quiet" /\ Ready(r.d)
        BY <3>1, <3>2, HandleOK
      <3>4. CASE Less(r.d, dec') \/ status' = "mismatch"
        BY <1>0, <1>1, <1>2, <3>2, <3>3, <3>4, LessStill
      \* There is no event.  The instructions in front are gone, if there were any.
      <3>5. CASE /\ dec' = r.d /\ status' = status
                 /\ Front(r.d).kind = "Quiet" /\ Ready(r.d)
        <4>1. Block = NoBlock
          BY <1>8 DEF RetireBlind
        <4>2. CASE Front(dec).icnt = 0
          <5>1. Front(dec).kind = "Quiet" /\ Front(dec).bits = << >>
            BY <2>2, <2>5, <3>5 DEF Passes, Ready
          <5> QED
            BY <1>1, <1>2, <3>3, <3>5, <4>1, <4>2, <5>1 DEF GoesRound, Ready
        <4>3. CASE Front(dec).icnt # 0
          <5>1. Less(dec, r.d)
            BY <2>1, <2>2, <2>5, <2>7, <4>3 DEF Passes
          <5> QED
            BY <1>0, <1>1, <1>2, <3>3, <3>5, <5>1
        <4> QED
          BY <4>2, <4>3
      <3> QED
        BY <3>3, <3>4, <3>5
    <2>6. CASE r.rc # "ok"
      <3>1. HandleError(r.d, r.rc)
        BY <2>4, <2>6
      <3>2. /\ Good(r.d, from) /\ NoMore(dec, r.d)
            /\ r.rc = "eof" => Front(r.d).kind = "End"
            /\ r.rc = "unsupported" => Front(r.d).kind = "Unknown"
            /\ r.rc \notin {"running", "done"}
        BY <2>2, <2>6 DEF Passes, Exhausted, WhyExhausted
      <3>3. /\ Good(dec', from)
            /\ \/ Less(r.d, dec') /\ status' = status
               \/ status' # "running"
            /\ status' = "done" => status = "done" \/ Len(dec'.trace) = 1
        BY <3>1, <3>2, HandleErrorOK
      <3> QED
        BY <1>0, <1>1, <1>2, <3>2, <3>3, LessStill
    <2> QED
      BY <2>5, <2>6
  <1> QED
    BY <1>3, <1>5, <1>6, <1>7, <1>8 DEF Steps

\* The segment that ends a trace.
LEMMA NothingOK == Nothing \in Segment /\ Nothing.kind = "End" /\ Nothing.icnt = 0
  BY EmptySeq DEF Nothing, Segment, Kinds

\* The initial state.
LEMMA ReplayInit ==
  ASSUME Init
  PROVE  IInv
  <1>1. pc \in DOMAIN Program /\ pc \in Nat
    BY ProgramAssumption, HartAssumption DEF Init, HartInit
  <1>2. been \in Seq(SUBSET Nat) /\ Len(been) = 1
    BY <1>1 DEF Init, HartInit
  <1>3. HartOK
    <2>1. mode \in {"BTM", "HTM"} /\ quirk \in BOOLEAN /\ depth \in Nat
      BY HartAssumption DEF Init, HartInit
    <2>2. /\ calls = << >> /\ bits = << >> /\ trace = << >> /\ fallen = FALSE /\ tracing = "on"
          /\ count = 0 /\ from = 0 /\ icnt = 0
      BY DEF Init, HartInit
    <2>3. calls \in Seq(DOMAIN Program) /\ bits \in Seq({0, 1}) /\ trace \in Seq(Segment)
      BY <2>2, EmptySeq
    <2>4. count \in Nat /\ from \in Nat /\ icnt \in Nat /\ Len(been) > 0
      BY <1>2, <2>2
    <2>5. fallen \in BOOLEAN /\ tracing \in {"on", "lost", "off"}
      BY <2>2
    <2> QED
      BY <1>1, <1>2, <2>1, <2>3, <2>4, <2>5 DEF HartOK
  <1>4. Pending
    BY <1>2 DEF Pending, Init, HartInit
  <1>5. TraceOK
    BY DEF TraceOK, Joined, Init, HartInit
  <1>6. ReplayOK
    <2>1. <<Nothing>> \in Seq(Segment) /\ << >> \in Seq(Nat)
      BY NothingOK
    <2>2. dec = [trace |-> <<Nothing>>, synced |-> FALSE, stack |-> << >>]
      BY DEF Init
    <2>3. dec \in Decoder
      BY <2>1, <2>2 DEF Decoder
    <2> QED
      BY <2>3 DEF ReplayOK, Init
  <1> QED
    BY <1>3, <1>4, <1>5, <1>6 DEF IInv

\* The trace that replay opens ends where its last message was sent.
LEMMA OpenOK ==
  ASSUME IInv, Open
  PROVE  Good(dec', from)
  <1> DEFINE s == [Nothing EXCEPT !.begin = from]
             t == Append(trace, s)
  <1>1. from \in Nat /\ trace \in Seq(Segment) /\ recording
    BY DEF IInv, HartOK, Open
  <1>2. s \in Segment /\ s.kind = "End" /\ EndOf(s) = from
    <2>1. Nothing \in Segment /\ Nothing.kind = "End" /\ Nothing.icnt = 0
      BY NothingOK
    <2>2. s \in Segment /\ s.kind = "End" /\ s.icnt = 0 /\ s.begin = from
      BY <1>1, <2>1 DEF Segment
    <2> HIDE DEF s
    <2> QED
      BY <1>1, <2>2 DEF EndOf
  <1>3. s.begin = from
    BY NothingOK DEF Segment
  <1> HIDE DEF s
  <1>4. /\ t \in Seq(Segment) /\ Len(t) = Len(trace) + 1 /\ Len(trace) \in Nat
        /\ \A k \in 1 .. Len(trace) : t[k] = trace[k]
        /\ t[Len(trace) + 1] = s /\ t # << >>
    BY <1>1, <1>2
  <1>5. dec' = [dec EXCEPT !.trace = t]
    BY DEF Open, s
  <1> HIDE DEF t
  <1>6. dec' \in Decoder /\ dec'.trace = t
    <2>1. dec \in Decoder
      BY <1>1 DEF IInv, ReplayOK
    <2> QED
      BY <1>4, <1>5, <2>1 DEF Decoder
  <1>7. \A k \in 1 .. Len(t) : t[k].kind = "End" <=> k = Len(t)
    BY <1>2, <1>4 DEF IInv, TraceOK
  <1>8. Joined(t)
    <2> SUFFICES ASSUME NEW k \in 1 .. Len(t) - 1, t[k].kind = "Unknown"
                 PROVE  EndOf(t[k]) = t[k + 1].begin
      BY DEF Joined
    <2>1. CASE k = Len(trace)
      <3>1. trace # << >>
        BY <2>1, <1>4
      <3> QED
        BY <2>1, <1>3, <1>4, <3>1 DEF IInv, TraceOK
    <2>2. CASE k # Len(trace)
      BY <2>2, <1>4 DEF IInv, TraceOK, Joined
    <2> QED
      BY <2>1, <2>2
  <1>9. EndOf(t[Len(t)]) = from
    BY <1>2, <1>4
  <1> QED
    BY <1>4, <1>6, <1>7, <1>8, <1>9 DEF Good

\* Every step keeps the invariant.
LEMMA ReplayStep ==
  ASSUME IInv, [Next]_vars
  PROVE  IInv'
  <1>1. CASE Record
    <2>1. HartInv'
      BY <1>1, HartStep DEF Record, IInv, HartInv
    <2>2. ReplayOK'
      BY <1>1 DEF Record, IInv, ReplayOK
    <2> QED
      BY <2>1, <2>2 DEF IInv, HartInv
  <1>2. ASSUME UNCHANGED hartVars
        PROVE  HartOK' /\ Pending' /\ TraceOK' /\ from' = from
    BY <1>2 DEF hartVars, IInv, HartOK, Pending, TraceOK
  <1>3. CASE Open
    <2>1. Good(dec', from)
      BY <1>3, OpenOK
    <2>2. ReplayOK'
      BY <1>2, <1>3, <2>1 DEF Open, IInv, ReplayOK, Good
    <2> QED
      BY <1>2, <1>3, <2>2 DEF Open, IInv
  <1>4. CASE Steps
    <2>1. /\ Good(dec', from) /\ UNCHANGED <<hartVars, recording>> /\ ~recording
          /\ status' = "done" => Len(dec'.trace) = 1
      BY <1>4, StepsOK
    <2>2. ReplayOK'
      BY <1>2, <2>1 DEF IInv, ReplayOK, Good
    <2> QED
      BY <1>2, <2>1, <2>2 DEF IInv
  <1>5. CASE UNCHANGED vars
    BY <1>2, <1>5 DEF vars, IInv, ReplayOK
  <1> QED
    BY <1>1, <1>3, <1>4, <1>5 DEF Next, Ended

-----------------------------------------------------------------------------
(***************************************************************************)
(* Theorems.                                                               *)
(***************************************************************************)
LEMMA ReplayInvariant == Spec => []IInv
  BY ReplayInit, ReplayStep, PTL DEF Spec

\* When replay reports the end of the trace, it has accounted for everything up to
\* the last message: whatever it took, skipped or merged on the way, it is at the
\* end, and no half word of the trace is lost (replay.cpp:234-236).
THEOREM EverythingShown == Spec => []AllShown
  <1>1. ASSUME IInv PROVE AllShown
    <2> SUFFICES ASSUME status = "done"
                 PROVE  Shown + Front(dec).icnt = from
      BY DEF AllShown
    <2>1. ~recording /\ Good(dec, from) /\ Len(dec.trace) = 1
      BY <1>1 DEF IInv, ReplayOK
    <2> QED
      BY <2>1, FrontOK DEF EndOf, Shown
  <1> QED
    BY <1>1, ReplayInvariant, PTL

\* There is one place where an iteration of the loop can leave the trace as it was:
\* in front of a message without event, with no instruction or bit before it and no
\* code at hand (replay.cpp:234-327, trace-decoder.c:359-363).  Everywhere else
\* replay takes something off or ends; it never goes round at an event, a message
\* it does not support, or where it has code.
THEOREM LoopAdvances == Spec => MakesProgress
  <1>1. ASSUME IInv, [Next]_vars
        PROVE  [~recording => Advances \/ status' # "running" \/ GoesRound]_vars
    <2>1. CASE Steps
      BY <1>1, <2>1, StepsOK
    <2>2. CASE Record \/ Open
      BY <2>2 DEF Record, Open
    <2>3. CASE Ended
      BY <2>3 DEF Ended
    <2>4. CASE UNCHANGED vars
      BY <2>4
    <2> QED
      BY <1>1, <2>1, <2>2, <2>3, <2>4 DEF Next
  <1> QED
    BY <1>1, ReplayInvariant, PTL DEF Spec, MakesProgress
=============================================================================
