----------------------------- MODULE MCRvTrigger -----------------------------
(***************************************************************************)
(* Names for RvTrigger: a function, a number, and a name that stands for   *)
(* nothing.  kstrtoul (s, base, res) of the kernel returns 0 for a number, *)
(* and -EINVAL for anything else: as an address, a place far from any      *)
(* code.                                                                   *)
(***************************************************************************)
EXTENDS RvTrigger

EINVAL == 2

MCParams == { <<"number", "f">>, <<"f">>, <<"nothing", "f">>, <<"number", "f", "nothing">> }
SymbolsOnly == { <<"f">>, <<"f", "f">> }
MCParsed == [n \in {"f", "number", "nothing"} |-> IF n = "number" THEN 0 ELSE EINVAL]
MCSymbol == [n \in {"f", "number", "nothing"} |-> IF n = "f" THEN 3 ELSE 0]
=============================================================================
