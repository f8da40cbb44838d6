---------------------------- MODULE BoundedStack ----------------------------
(***************************************************************************)
(* What the return stack of the trace decoder promises to its caller: a    *)
(* LIFO stack of call sites that never holds more than `limit' of them. A  *)
(* push on a full stack is ignored (the newest call site is dropped), and  *)
(* a push may fail for lack of memory, in which case nothing changes.      *)
(***************************************************************************)
EXTENDS Naturals, Sequences

CONSTANT Addr      \* call sites

VARIABLES stack,   \* the call sites, oldest first
          limit,   \* bound on the depth (hw_cfg->max_stack), never changed
          answer   \* result of the last operation

\* The stack after a push of a, and after a pop.
PushOn(s, a) == IF Len(s) = limit THEN s ELSE Append(s, a)
PopOff(s)    == SubSeq(s, 1, Len(s) - 1)

Init == /\ limit \in Nat
        /\ stack = << >>
        /\ answer = [rc |-> "ok"]

Push(a) == /\ stack' = PushOn(stack, a)
           /\ answer' = [rc |-> "ok"]

PushFails == /\ Len(stack) # limit
             /\ stack' = stack
             /\ answer' = [rc |-> "no_mem"]

Pop == /\ stack # << >>
       /\ stack' = PopOff(stack)
       /\ answer' = [rc |-> "ok", addr |-> stack[Len(stack)]]

PopEmpty == /\ stack = << >>
            /\ stack' = stack
            /\ answer' = [rc |-> "retstack_empty"]

Clear == /\ stack' = << >>
         /\ answer' = [rc |-> "ok"]

Next == /\ limit' = limit
        /\ \/ \E a \in Addr : Push(a)
           \/ PushFails
           \/ Pop
           \/ PopEmpty
           \/ Clear

Spec == Init /\ [][Next]_<<stack, limit, answer>>
=============================================================================
