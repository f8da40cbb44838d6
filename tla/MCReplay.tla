------------------------------- MODULE MCReplay -------------------------------
(***************************************************************************)
(* A program with every kind of block for Replay.  0 .. 20 is in the       *)
(* images, 21 .. 24 is not.                                                *)
(***************************************************************************)
EXTENDS Replay

I(id, size, rd, rs, to) == [id |-> id, size |-> size, rd |-> rd, rs |-> rs, to |-> to]

MCProgram ==
    [a \in {0, 2, 3, 5, 6, 8, 9, 10, 11, 13, 15, 17, 18, 19, 21, 22, 23} |->
       CASE a = 0 -> I("op", 2, 0, 0, {})
         [] a = 2 -> I("branch", 1, 0, 0, {6})
         [] a = 3 -> I("jal", 2, 1, 0, {8})              \* call
         [] a = 5 -> I("c_j", 1, 0, 0, {15})
         [] a = 6 -> I("jalr", 2, 0, 6, {10, 13, 21})    \* jump
         [] a = 8 -> I("bitmanip", 1, 0, 0, {})
         [] a = 9 -> I("c_jr", 1, 0, 1, {2})             \* return
         [] a = 10 -> I("op", 1, 0, 0, {})
         [] a = 11 -> I("ecall", 2, 0, 0, {})
         [] a = 13 -> I("jalr", 2, 1, 1, {8, 17})        \* call
         [] a = 15 -> I("jalr", 2, 1, 5, {8})            \* return and call
         [] a = 17 -> I("c_jal", 1, 0, 0, {9})           \* call
         [] a = 18 -> I("c_jr", 1, 0, 5, {2})            \* return
         [] a = 19 -> I("xret", 2, 0, 0, {2, 11})        \* trap handler
         [] a = 21 -> I("op", 1, 0, 0, {})
         [] a = 22 -> I("branch", 1, 0, 0, {21})
         [] a = 23 -> I("jalr", 2, 0, 6, {2, 13})]       \* jump

MCMapped == 0 .. 20
MCStarts == {0, 3, 5, 6, 10, 13}
=============================================================================
