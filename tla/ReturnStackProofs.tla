------------------------- MODULE ReturnStackProofs -------------------------
(***************************************************************************)
(* Proofs about ReturnStack for every limit, every number of initial cells *)
(* and every set of call sites.                                            *)
(***************************************************************************)
EXTENDS ReturnStack, SequenceTheorems, TLAPS

(***************************************************************************)
(* The inductive invariant.  A pop never runs below the first cell and a   *)
(* push never past the last one, so `end' and `used' agree and the array   *)
(* is never used as a ring; the cells below `end' have been written.       *)
(***************************************************************************)
IInv == /\ TypeOK
        /\ end = used
        /\ \A i \in 0 .. used - 1 : entries[i] \in Addr
        /\ size = max \/ size > 0

\* The initial state satisfies the invariant.
LEMMA InitIInv == Init => IInv
  <1> USE RetStackAssumption
  <1> SUFFICES ASSUME Init PROVE IInv
    OBVIOUS
  <1>1. max \in Nat /\ size \in 0 .. max /\ (size = max \/ size > 0)
    BY DEF Init
  <1>2. entries \in [0 .. size - 1 -> Addr \cup {Junk}]
    BY DEF Init
  <1> QED
    BY <1>1, <1>2 DEF Init, IInv, TypeOK, Ok

\* Storing one entry in an array e of n cells that has room for it.
LEMMA StoreKeeps ==
  ASSUME IInv,
         NEW n \in Nat, n <= max, used < n,
         NEW e \in [0 .. n - 1 -> Addr \cup {Junk}],
         \A i \in 0 .. used - 1 : e[i] \in Addr,
         NEW a \in Addr,
         Store(e, n, a)
  PROVE  /\ used' = used + 1 /\ end' = used'
         /\ entries' = [e EXCEPT ![used] = a]
         /\ entries' \in [0 .. n - 1 -> Addr \cup {Junk}]
         /\ \A i \in 0 .. used' - 1 : entries'[i] \in Addr
  <1>1. end # n /\ end = used /\ used \in Nat
    BY RetStackAssumption DEF IInv, TypeOK
  <1>2. used' = used + 1 /\ end' = used' /\ entries' = [e EXCEPT ![used] = a]
    BY <1>1 DEF Store
  <1>3. used \in 0 .. n - 1
    BY <1>1
  <1> QED
    BY <1>1, <1>2, <1>3

\* What the array grows to is larger than it was and fits the limit.
LEMMA Enlarged ==
  ASSUME IInv, MustEnlarge
  PROVE  /\ EnlargedSize \in Nat /\ EnlargedSize <= max
         /\ used < EnlargedSize
         /\ Grow(entries, EnlargedSize) \in [0 .. EnlargedSize - 1 -> Addr \cup {Junk}]
         /\ \A i \in 0 .. used - 1 : Grow(entries, EnlargedSize)[i] = entries[i]
  <1>1. max \in Nat /\ size \in Nat /\ size < max /\ size > 0 /\ used = size
    BY RetStackAssumption DEF IInv, TypeOK, MustEnlarge
  <1>2. EnlargedSize \in Nat /\ EnlargedSize <= max /\ used < EnlargedSize
    BY <1>1 DEF EnlargedSize
  <1>3. entries \in [0 .. size - 1 -> Addr \cup {Junk}]
    BY DEF IInv, TypeOK
  <1>4. Grow(entries, EnlargedSize) \in [0 .. EnlargedSize - 1 -> Addr \cup {Junk}]
    BY <1>1, <1>2, <1>3 DEF Grow
  <1>5. \A i \in 0 .. used - 1 : Grow(entries, EnlargedSize)[i] = entries[i]
    BY <1>1, <1>2, <1>3 DEF Grow
  <1> QED
    BY <1>2, <1>4, <1>5

\* Every operation keeps the invariant.
LEMMA NextIInv == IInv /\ [Next]_vars => IInv'
  <1> USE RetStackAssumption
  <1> SUFFICES ASSUME IInv, [Next]_vars PROVE IInv'
    OBVIOUS
  <1>1. ASSUME NEW a \in Addr, PushFull(a) PROVE IInv'
    BY <1>1 DEF PushFull, IInv, TypeOK, Ok
  <1>2. ASSUME NEW a \in Addr, PushRoom(a) PROVE IInv'
    <2>1. size \in Nat /\ size <= max /\ used < size
      BY <1>2 DEF PushRoom, MustEnlarge, IInv, TypeOK
    <2>2. entries \in [0 .. size - 1 -> Addr \cup {Junk}] /\ \A i \in 0 .. used - 1 : entries[i] \in Addr
      BY DEF IInv, TypeOK
    <2>3. /\ used' = used + 1 /\ end' = used'
          /\ entries' \in [0 .. size - 1 -> Addr \cup {Junk}]
          /\ \A i \in 0 .. used' - 1 : entries'[i] \in Addr
      BY <1>2, <2>1, <2>2, StoreKeeps DEF PushRoom
    <2>4. max' = max /\ size' = size /\ answer' = [rc |-> "ok"]
      BY <1>2 DEF PushRoom, Ok
    <2> QED
      BY <2>1, <2>3, <2>4 DEF IInv, TypeOK
  <1>3. ASSUME NEW a \in Addr, PushGrow(a) PROVE IInv'
    <2> DEFINE n == EnlargedSize
               e == Grow(entries, n)
    <2>1. /\ n \in Nat /\ n <= max /\ used < n
          /\ e \in [0 .. n - 1 -> Addr \cup {Junk}]
          /\ \A i \in 0 .. used - 1 : e[i] \in Addr
      BY <1>3, Enlarged DEF PushGrow, IInv
    <2>2. max' = max /\ size' = n /\ answer' = [rc |-> "ok"] /\ Store(e, n, a)
      BY <1>3 DEF PushGrow, Ok
    <2> HIDE DEF n, e
    <2>3. /\ used' = used + 1 /\ end' = used'
          /\ entries' \in [0 .. n - 1 -> Addr \cup {Junk}]
          /\ \A i \in 0 .. used' - 1 : entries'[i] \in Addr
      BY <2>1, <2>2, StoreKeeps
    <2> QED
      BY <2>1, <2>2, <2>3 DEF IInv, TypeOK
  <1>4. ASSUME NEW a \in Addr, PushNoMem(a) PROVE IInv'
    BY <1>4 DEF PushNoMem, IInv, TypeOK
  <1>5. CASE Pop
    <2>1. max \in Nat /\ used \in Nat /\ used > 0 /\ end = used
      BY <1>5 DEF Pop, IInv, TypeOK
    <2>2. used' = used - 1 /\ end' = used'
      BY <1>5, <2>1 DEF Pop
    <2>3. answer' = [rc |-> "ok", addr |-> entries[used - 1]] /\ entries[used - 1] \in Addr
      BY <1>5, <2>1 DEF Pop, IInv
    <2> QED
      BY <1>5, <2>1, <2>2, <2>3 DEF Pop, IInv, TypeOK
  <1>6. CASE PopEmpty
    BY <1>6 DEF PopEmpty, IInv, TypeOK
  <1>7. CASE Clear
    BY <1>7 DEF Clear, IInv, TypeOK, Ok
  <1>8. CASE UNCHANGED vars
    BY <1>8 DEF vars, IInv, TypeOK
  <1> QED
    BY <1>1, <1>2, <1>3, <1>4, <1>5, <1>6, <1>7, <1>8 DEF Next

\* The invariant holds throughout.
LEMMA AlwaysIInv == Spec => []IInv
  BY InitIInv, NextIInv, PTL DEF Spec

\* Whatever the limit, the fields of the return stack stay in their ranges: no
\* cell outside of the allocated array is ever used (return-stack.h:55-98).
THEOREM ReturnStackTypeOK == Spec => []TypeOK
  <1>1. IInv => TypeOK
    BY DEF IInv
  <1> QED
    BY <1>1, AlwaysIInv, PTL

\* The assertions of return-stack.h:58 and 92 never fail.
THEOREM ReturnStackAssertions == Spec => []AssertionsHold
  <1>1. IInv => AssertionsHold
    BY DEF IInv, AssertionsHold
  <1> QED
    BY <1>1, AlwaysIInv, PTL

(***************************************************************************)
(* Refinement.                                                             *)
(***************************************************************************)
\* The first n cells of an array, as a sequence.
LEMMA CellsAreSeq ==
  ASSUME NEW n \in Nat, NEW e, \A i \in 0 .. n - 1 : e[i] \in Addr
  PROVE  LET s == [i \in 1 .. n |-> e[i - 1]]
         IN  s \in Seq(Addr) /\ Len(s) = n
  <1> DEFINE s == [i \in 1 .. n |-> e[i - 1]]
  <1>1. s \in [1 .. n -> Addr] /\ DOMAIN s = 1 .. n
    OBVIOUS
  <1> QED
    BY <1>1

\* Kept is a sequence of length `used', before and after a step.
LEMMA KeptIsSeq ==
  ASSUME IInv
  PROVE  Kept \in Seq(Addr) /\ Len(Kept) = used
  <1>1. used \in Nat /\ \A i \in 0 .. used - 1 : entries[i] \in Addr
    BY RetStackAssumption DEF IInv, TypeOK
  <1> QED
    BY <1>1, CellsAreSeq DEF Kept

\* The same for the next state.
LEMMA KeptIsSeqNext ==
  ASSUME IInv'
  PROVE  Kept' \in Seq(Addr) /\ Len(Kept') = used'
  <1>0. max' \in Maxes /\ size' \in 0 .. max' /\ used' \in 0 .. size'
    BY DEF IInv, TypeOK
  <1>1. max' \in Nat
    BY <1>0, RetStackAssumption
  <1>2. used' \in Nat
    BY <1>0, <1>1
  <1>3. \A i \in 0 .. used' - 1 : entries'[i] \in Addr
    BY DEF IInv
  <1> QED
    BY <1>2, <1>3, CellsAreSeq DEF Kept

\* A push into an array that agrees with the old one on the used cells appends.
LEMMA PushAppends ==
  ASSUME IInv, IInv', NEW a \in Addr, used' = used + 1,
         \A i \in 0 .. used - 1 : entries'[i] = entries[i],
         entries'[used] = a
  PROVE  Kept' = Append(Kept, a)
  <1>1. used \in Nat
    BY RetStackAssumption DEF IInv, TypeOK
  <1>2. Kept \in Seq(Addr) /\ Len(Kept) = used
    BY KeptIsSeq
  <1>3. Kept' \in Seq(Addr) /\ Len(Kept') = used + 1
    BY KeptIsSeqNext
  <1>4. /\ Append(Kept, a) \in Seq(Addr) /\ Len(Append(Kept, a)) = used + 1
        /\ \A i \in 1 .. used : Append(Kept, a)[i] = Kept[i]
        /\ Append(Kept, a)[used + 1] = a
    BY <1>1, <1>2
  <1>5. \A i \in 1 .. used + 1 : Kept'[i] = entries'[i - 1]
    BY <1>1 DEF Kept
  <1>6. \A i \in 1 .. used : Kept[i] = entries[i - 1]
    BY <1>1 DEF Kept
  <1>7. \A i \in 1 .. used + 1 : Kept'[i] = Append(Kept, a)[i]
    BY <1>1, <1>4, <1>5, <1>6
  <1> QED
    BY <1>3, <1>4, <1>7, SeqEqual

\* A pop removes the last element.
LEMMA PopShortens ==
  ASSUME IInv, IInv', used # 0, used' = used - 1, entries' = entries
  PROVE  /\ Kept' = SubSeq(Kept, 1, Len(Kept) - 1)
         /\ Kept # << >>
         /\ Kept[Len(Kept)] = entries[used - 1]
  <1>1. used \in Nat \ {0}
    BY RetStackAssumption DEF IInv, TypeOK
  <1>2. Kept \in Seq(Addr) /\ Len(Kept) = used
    BY KeptIsSeq
  <1>3. Kept' \in Seq(Addr) /\ Len(Kept') = used - 1
    BY KeptIsSeqNext
  <1>4. \A i \in 1 .. used : Kept[i] = entries[i - 1]
    BY <1>1 DEF Kept
  <1>5. \A i \in 1 .. used - 1 : Kept'[i] = entries[i - 1]
    BY <1>1 DEF Kept
  <1> DEFINE shorter == SubSeq(Kept, 1, used - 1)
  <1>6. /\ shorter \in Seq(Addr) /\ Len(shorter) = used - 1
        /\ \A i \in 1 .. used - 1 : shorter[i] = Kept[i]
    BY <1>1, <1>2, SubSeqProperties
  <1> HIDE DEF shorter
  <1>7. ASSUME NEW i \in 1 .. used - 1
        PROVE  Kept'[i] = shorter[i]
    <2>1. i \in 1 .. used
      BY <1>1
    <2>2. Kept[i] = entries[i - 1]
      BY <1>4, <2>1
    <2> QED
      BY <1>5, <1>6, <2>2
  <1>8. Kept' = shorter
    BY <1>3, <1>6, <1>7, SeqEqual
  <1> QED
    BY <1>1, <1>2, <1>4, <1>8 DEF shorter

\* Every step of the array is a step of the bounded stack, or leaves it alone.
LEMMA StepRefines ==
  ASSUME IInv, IInv', [Next]_vars
  PROVE  [Abstract!Next]_<<Kept, max, answer>>
  <1> USE RetStackAssumption
  <1>0. Kept \in Seq(Addr) /\ Len(Kept) = used /\ used \in Nat /\ max \in Nat
    BY KeptIsSeq DEF IInv, TypeOK
  <1>1. ASSUME NEW a \in Addr, PushFull(a) PROVE Abstract!Next
    <2>1. Kept' = Kept /\ max' = max /\ answer' = [rc |-> "ok"] /\ used = max
      BY <1>1 DEF PushFull, Kept, Ok
    <2> QED
      BY <1>0, <2>1 DEF Abstract!Next, Abstract!Push, Abstract!PushOn
  <1>2. ASSUME NEW a \in Addr, PushRoom(a) PROVE Abstract!Next
    <2>1. size \in Nat /\ size <= max /\ used < size
      BY <1>2 DEF PushRoom, MustEnlarge, IInv, TypeOK
    <2>2. entries \in [0 .. size - 1 -> Addr \cup {Junk}] /\ \A i \in 0 .. used - 1 : entries[i] \in Addr
      BY DEF IInv, TypeOK
    <2>3. used' = used + 1 /\ entries' = [entries EXCEPT ![used] = a]
      BY <1>2, <2>1, <2>2, StoreKeeps DEF PushRoom
    <2>4. Kept' = Append(Kept, a)
      BY <1>0, <2>1, <2>2, <2>3, PushAppends
    <2>5. max' = max /\ answer' = [rc |-> "ok"] /\ used # max
      BY <1>2 DEF PushRoom, Ok
    <2> QED
      BY <1>0, <2>4, <2>5 DEF Abstract!Next, Abstract!Push, Abstract!PushOn
  <1>3. ASSUME NEW a \in Addr, PushGrow(a) PROVE Abstract!Next
    <2> DEFINE n == EnlargedSize
               e == Grow(entries, n)
    <2>1. /\ n \in Nat /\ n <= max /\ used < n
          /\ e \in [0 .. n - 1 -> Addr \cup {Junk}]
          /\ \A i \in 0 .. used - 1 : e[i] = entries[i]
      BY <1>3, Enlarged DEF PushGrow
    <2>2. \A i \in 0 .. used - 1 : e[i] \in Addr
      BY <2>1 DEF IInv
    <2>3. /\ max' = max /\ answer' = [rc |-> "ok"] /\ used # max
          /\ Store(e, n, a)
      BY <1>3 DEF PushGrow, Ok
    <2> HIDE DEF n, e
    <2>4. used' = used + 1 /\ entries' = [e EXCEPT ![used] = a]
      BY <2>1, <2>2, <2>3, StoreKeeps
    <2>5. Kept' = Append(Kept, a)
      BY <1>0, <2>1, <2>4, PushAppends
    <2> QED
      BY <1>0, <2>3, <2>5 DEF Abstract!Next, Abstract!Push, Abstract!PushOn
  <1>4. ASSUME NEW a \in Addr, PushNoMem(a) PROVE Abstract!Next
    <2>1. Kept' = Kept /\ max' = max /\ answer' = [rc |-> "no_mem"] /\ used # max
      BY <1>4 DEF PushNoMem, Kept
    <2> QED
      BY <1>0, <2>1 DEF Abstract!Next, Abstract!PushFails
  <1>5. CASE Pop
    <2>1. /\ used # 0 /\ used' = used - 1 /\ entries' = entries /\ max' = max
          /\ answer' = [rc |-> "ok", addr |-> entries[used - 1]]
      BY <1>5 DEF Pop, IInv
    <2>2. /\ Kept' = SubSeq(Kept, 1, Len(Kept) - 1) /\ Kept # << >>
          /\ Kept[Len(Kept)] = entries[used - 1]
      BY <2>1, PopShortens
    <2> QED
      BY <2>1, <2>2 DEF Abstract!Next, Abstract!Pop, Abstract!PopOff
  <1>6. CASE PopEmpty
    <2>1. Kept' = Kept /\ max' = max /\ answer' = [rc |-> "retstack_empty"] /\ Kept = << >>
      BY <1>0, <1>6 DEF PopEmpty, Kept
    <2> QED
      BY <2>1 DEF Abstract!Next, Abstract!PopEmpty
  <1>7. CASE Clear
    <2>1. used' = 0 /\ max' = max /\ answer' = [rc |-> "ok"]
      BY <1>7 DEF Clear, Ok
    <2>2. Kept' = << >>
      BY <2>1, KeptIsSeqNext
    <2> QED
      BY <2>1, <2>2 DEF Abstract!Next, Abstract!Clear
  <1>8. CASE UNCHANGED vars
    BY <1>8 DEF vars, Kept
  <1> QED
    BY <1>1, <1>2, <1>3, <1>4, <1>5, <1>6, <1>7, <1>8 DEF Next

\* The array implements the bounded stack for every limit and every initial
\* size: growing and clearing are invisible to the caller, a pop yields the call
\* site of the matching push (return-stack.h:50-98).
THEOREM ReturnStackRefinement == Spec => ImplementsBoundedStack
  <1>1. Init => Abstract!Init
    <2> SUFFICES ASSUME Init PROVE Abstract!Init
      OBVIOUS
    <2>1. IInv
      BY InitIInv
    <2>2. Kept = << >>
      BY <2>1, KeptIsSeq DEF Init
    <2> QED
      BY <2>2, RetStackAssumption DEF Init, Ok, Abstract!Init
  <1>2. IInv /\ IInv' /\ [Next]_vars => [Abstract!Next]_<<Kept, max, answer>>
    BY StepRefines
  <1> QED
    BY <1>1, <1>2, AlwaysIInv, PTL DEF Spec, ImplementsBoundedStack, Abstract!Spec
=============================================================================
