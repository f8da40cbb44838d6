---------------------------- MODULE ReturnStack ----------------------------
(***************************************************************************)
(* include/libnexus-rv/return-stack.h: the return stack of the trace       *)
(* decoder.  `entries' is a heap array of `size' cells that is doubled on  *)
(* demand up to `max'; `used' counts the call sites kept and `end' is the  *)
(* index of the next cell to write.                                        *)
(***************************************************************************)
EXTENDS Naturals, Sequences, FiniteSets

CONSTANTS Addr,      \* call sites
          Maxes,     \* values of hw_cfg->max_stack considered
          Default,   \* NEXUS_RV_RETSTACK_DEFAULT: cells allocated at first
          Junk       \* content of a cell that was never written

ASSUME RetStackAssumption == /\ Maxes \subseteq Nat
                             /\ Default \in Nat \ {0}
                             /\ Junk \notin Addr

VARIABLES entries, size, max, used, end,   \* the C structure
          answer                           \* return code and *addr

vars == <<entries, size, max, used, end, answer>>

Ok == [rc |-> "ok"]

(***************************************************************************)
(* nexusrv_retstack_init, when malloc succeeds (when it fails there is no  *)
(* stack and nexusrv_trace_decoder_init fails with it).                    *)
(***************************************************************************)
Init == /\ max \in Maxes
        /\ size = (IF max > Default THEN Default ELSE max)
        /\ entries = [i \in 0 .. size - 1 |-> Junk]
        /\ used = 0
        /\ end = 0
        /\ answer = Ok

(***************************************************************************)
(* nexusrv_retstack_may_enlarge: the array needs to grow, and the size it  *)
(* grows to.  realloc keeps the cells it has.                              *)
(***************************************************************************)
MustEnlarge == size # max /\ used = size

\* Mutant of EnlargedSize: the doubling is not capped at max.
EnlargedSizeUncapped == size * 2

EnlargedSize == IF size * 2 > max THEN max ELSE size * 2

\* Mutant of Grow: calloc + free in place of realloc.
GrowFresh(e, n) == [i \in 0 .. n - 1 |-> Junk]

Grow(e, n) == [i \in 0 .. n - 1 |-> IF i \in DOMAIN e THEN e[i] ELSE Junk]

(***************************************************************************)
(* Writing one entry (return-stack.h:80-84), in an array of n cells.       *)
(***************************************************************************)
Store(e, n, a) ==
    LET at == IF end = n THEN 0 ELSE end
    IN  /\ entries' = [e EXCEPT ![at] = a]
        /\ end' = at + 1
        /\ used' = IF used < n THEN used + 1 ELSE used

\* A push on a full stack: nothing is stored.
PushFull(a) == /\ used = max
               /\ answer' = Ok
               /\ UNCHANGED <<entries, size, max, used, end>>

\* A push that finds a free cell.
PushRoom(a) == /\ used # max
               /\ ~MustEnlarge
               /\ Store(entries, size, a)
               /\ answer' = Ok
               /\ UNCHANGED <<size, max>>

\* A push that makes the array grow first.
PushGrow(a) == /\ used # max
               /\ MustEnlarge
               /\ size' = EnlargedSize
               /\ Store(Grow(entries, EnlargedSize), EnlargedSize, a)
               /\ answer' = Ok
               /\ UNCHANGED max

\* A push whose realloc fails: an error is returned, nothing is stored.
PushNoMem(a) == /\ used # max
                /\ MustEnlarge
                /\ answer' = [rc |-> "no_mem"]
                /\ UNCHANGED <<entries, size, max, used, end>>

(***************************************************************************)
(* nexusrv_retstack_pop.                                                   *)
(***************************************************************************)
PopEmpty == /\ used = 0
            /\ answer' = [rc |-> "retstack_empty"]
            /\ UNCHANGED <<entries, size, max, used, end>>

Pop == /\ used # 0
       /\ answer' = [rc |-> "ok", addr |-> entries[end - 1]]
       /\ used' = used - 1
       /\ end' = IF end - 1 = 0 /\ used - 1 # 0 THEN size ELSE end - 1
       /\ UNCHANGED <<entries, size, max>>

(***************************************************************************)
(* nexusrv_retstack_clear: a SYNC message makes the decoder forget what    *)
(* it knows of the callers.                                                *)
(***************************************************************************)
\* Mutant of Clear: only the count is reset.
ClearUsedOnly == /\ used' = 0
                 /\ end' = end
                 /\ answer' = Ok
                 /\ UNCHANGED <<entries, size, max>>

Clear == /\ used' = 0
         /\ end' = 0
         /\ answer' = Ok
         /\ UNCHANGED <<entries, size, max>>

Next == \/ \E a \in Addr : \/ PushFull(a)
                           \/ PushRoom(a)
                           \/ PushGrow(a)
                           \/ PushNoMem(a)
        \/ Pop
        \/ PopEmpty
        \/ Clear

Spec == Init /\ [][Next]_vars

-----------------------------------------------------------------------------
(***************************************************************************)
(* Properties.                                                             *)
(***************************************************************************)

\* The fields stay in their types; the array has `size' cells, never more
\* than max_stack, and `used' never exceeds it (return-stack.h:17-23).
TypeOK == /\ max \in Maxes
          /\ size \in 0 .. max
          /\ used \in 0 .. size
          /\ end \in 0 .. size
          /\ entries \in [0 .. size - 1 -> Addr \cup {Junk}]
          /\ answer \in [rc : {"ok", "no_mem", "retstack_empty"}]
                          \cup [rc : {"ok"}, addr : Addr]

\* In whatever state the next call finds the stack, the assertions it runs
\* into hold: assert(used == end) when the array may have to grow
\* (return-stack.h:58), assert(end) when an entry is popped (92).
AssertionsHold == /\ used # max /\ size # max => used = end
                  /\ used # 0 => end # 0

\* The array implements a bounded LIFO stack: growing, wrapping and clearing
\* are invisible, and a pop yields the call site of the matching push
\* (return-stack.h:50-98).
Kept == [i \in 1 .. used |-> entries[i - 1]]

Abstract == INSTANCE BoundedStack WITH limit <- max, stack <- Kept

ImplementsBoundedStack == Abstract!Spec
=============================================================================
