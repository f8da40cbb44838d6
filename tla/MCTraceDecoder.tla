---------------------------- MODULE MCTraceDecoder ----------------------------
(***************************************************************************)
(* Instances of TraceDecoder for TLC: the messages of branch trace (BTM),  *)
(* of history trace (HTM) and of the SiFive encoder.                       *)
(***************************************************************************)
EXTENDS TraceDecoder

CONSTANTS c1

M(tcode, code, icnt, hist, hrepeat, xaddr, ts) ==
    [tcode |-> tcode, code |-> code, icnt |-> icnt, hist |-> hist,
     hrepeat |-> hrepeat, xaddr |-> xaddr, ts |-> ts]

Sync       == M("ProgTraceSync", 0, 1, << >>, 0, {1}, 2)
Stop       == M("ProgTraceCorrelation", 0, 1, << >>, 0, {}, 1)
StopHist   == M("ProgTraceCorrelation", 1, 1, <<1, 0>>, 0, {}, 1)
Error      == M("Error", 0, 0, << >>, 0, {}, 1)
Repeat     == M("RepeatBranch", 0, 0, << >>, 1, {}, 0)
Ownership  == M("Ownership", 0, 0, << >>, 0, {}, 0)
Vendor     == M("Vendor", 0, 0, << >>, 0, {}, 1)
Idle       == M("Idle", 0, 0, << >>, 0, {}, 0)
Direct     == M("DirectBranch", 0, 2, << >>, 0, {}, 1)
DirectSync == M("DirectBranchSync", 0, 1, << >>, 0, {0}, 3)
Indirect   == M("IndirectBranch", 0, 1, << >>, 0, {0, 2}, 1)
Trap       == M("IndirectBranch", 1, 0, << >>, 0, {0}, 0)
IndirSync  == M("IndirectBranchSync", 0, 1, << >>, 0, {2}, 3)
Hist       == M("IndirectBranchHist", 0, 1, <<1, 1, 0>>, 0, {0}, 1)
HistEmpty  == M("IndirectBranchHist", 0, 2, <<1>>, 0, {1}, 2)
HistSync   == M("IndirectBranchHistSync", 0, 1, <<1, 1>>, 0, {2}, 3)
FullIcnt   == M("ResourceFull", 0, 3, << >>, 0, {}, 1)
FullHist   == M("ResourceFull", 1, 0, <<1, 0, 1>>, 0, {}, 1)
FullRepeat == M("ResourceFull", 2, 0, <<1, 1>>, 2, {}, 2)
Sifive8    == M("ResourceFull", 8, 2, << >>, 0, {}, 3)
Sifive9    == M("ResourceFull", 9, 3, << >>, 0, {}, 1)

FullOther  == M("ResourceFull", 3, 1, << >>, 0, {}, 1)

\* A branch that can be repeated adds no time here: without quirk_sifive the code
\* adds a delta once per repetition, the header (trace-decoder.h:222-224) once.
Untimed(m) == [m EXCEPT !.ts = 0]

Plain == {Sync, Stop, StopHist, Error, Repeat, Ownership, Vendor, DirectSync, IndirSync,
          Trap, HistSync, FullIcnt, FullHist}
           \cup {Untimed(m) : m \in {Direct, Indirect, HistEmpty}}
HTMSifive == {Sync, StopHist, Error, Repeat, Hist, HistSync, FullIcnt, FullHist,
              FullRepeat, Sifive8, Sifive9}
Anything == {Sync, Stop, Error, Repeat, Idle, Vendor, Direct, HistSync, Hist,
             FullIcnt, FullHist, FullOther}

\* for the violation run
IcntThenEvent == {Sync, FullIcnt, Indirect, Stop}
=============================================================================
