------------------------------ MODULE NexusMsg ------------------------------
(***************************************************************************)
(* include/libnexus-rv/msg-types.h: decoded messages and what the trace    *)
(* decoder asks of them.  A message is a record                            *)
(*   tcode    its kind                                                     *)
(*   code     RCODE of a ResourceFull, CDF of a ProgTraceCorrelation,      *)
(*            CKSRC of an ICT, B-TYPE of an indirect branch                *)
(*   icnt     I-CNT, or RDATA (they share the storage)                     *)
(*   hist     HIST, as its binary digits from the most significant one on: *)
(*            << >> is 0, <<1>> is 1, <<1, 0>> is 2                        *)
(*   hrepeat  HREPEAT                                                      *)
(*   xaddr    F-ADDR or the U-ADDR to exclusive-or, as the set of its bits *)
(*   ts       TIMESTAMP                                                    *)
(***************************************************************************)
EXTENDS Integers, Sequences

DirectBranches == {"DirectBranch", "DirectBranchSync"}
HistBranches == {"IndirectBranchHist", "IndirectBranchHistSync"}
IndirectBranches == {"IndirectBranch", "IndirectBranchSync"} \cup HistBranches
Branches == DirectBranches \cup IndirectBranches
Syncs == {"ProgTraceSync", "DirectBranchSync", "IndirectBranchSync",
          "IndirectBranchHistSync"}

\* Vendor stands for every tcode the library does not name.
Tcodes == Branches \cup {"ProgTraceSync", "ProgTraceCorrelation", "Error",
             "ResourceFull", "RepeatBranch", "Ownership", "ICT",
             "DataAcquisition", "Idle", "Vendor"}

known(m) == CASE m.tcode = "ProgTraceCorrelation" -> m.code < 2
              [] m.tcode = "ICT" -> m.code < 2
              [] OTHER -> m.tcode # "Vendor"

is_branch(m) == m.tcode \in Branches
is_indir_branch(m) == m.tcode \in IndirectBranches
is_sync(m) == m.tcode \in Syncs
is_res(m) == m.tcode = "ResourceFull"
is_error(m) == m.tcode = "Error"
is_stop(m) == m.tcode = "ProgTraceCorrelation"
is_data_acq(m) == m.tcode = "DataAcquisition"

has_icnt(m) == \/ is_res(m) /\ m.code = 0
               \/ m.tcode \in Branches \cup {"ProgTraceSync", "ProgTraceCorrelation"}

has_hist(m) == \/ is_res(m) /\ m.code \in {1, 2}
               \/ is_stop(m) /\ m.code = 1
               \/ m.tcode \in HistBranches

\* The stop bit in front of the TNT bits is not counted.
hist_bits(h) == IF h = << >> THEN 0 ELSE Len(h) - 1

\* The bits and instructions one execution of the message stands for.
BitsOf(m) == IF has_hist(m) THEN hist_bits(m.hist) ELSE 0
IcntOf(m) == IF has_icnt(m) THEN m.icnt ELSE 0
=============================================================================
