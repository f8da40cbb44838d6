-------------------------- MODULE MsgStreamProofs --------------------------
(***************************************************************************)
(* Proofs about MsgStream for every set of files, every buffer size and    *)
(* every filter, with or without short reads and read errors.              *)
(***************************************************************************)
EXTENDS MsgStream, TLAPS

(***************************************************************************)
(* The inductive invariant.                                                *)
(***************************************************************************)
\* The cursor stands at a message or at the end of the file, and the
\* descriptor is not past the end.
Aligned == /\ fdpos <= file.size
           /\ Position \in file.starts \cup {file.size}

\* pos == bufsz is the mark left by a read that found nothing.
EofMark == pos = bufsz => /\ filled = bufsz
                          /\ lastmsg_len = 0
                          /\ reliable => fdpos = file.size

\* A buffer that is neither full nor empty was cut by the end of the file.
ShortAtEnd == reliable => fdpos = file.size \/ filled = bufsz \/ filled = 0

\* The buffer is refilled when its unread tail reaches its end, or when it is
\* empty.
ReadStart == pc = "read" => /\ lastmsg_len = 0
                            /\ pos < bufsz
                            /\ filled = bufsz \/ (filled = 0 /\ pos = 0)

\* The message returned last lies before pos, or it ended the buffer that was
\* given up, whose bytes are all still there.
LastKept ==
    pc = "idle" /\ lastmsg_len # 0 =>
        /\ pos # 0 => pos >= lastmsg_len
        /\ pos = 0 => /\ filled = 0
                      /\ nread >= bufsz
                      /\ \A i \in 0 .. bufsz - 1 : buffer[i] = (nread - bufsz) + i
        /\ Offset \in file.starts
        /\ out = [rc |-> "msg", at |-> Offset]

IInv == /\ TypeOK
        /\ BufferMirrorsFile
        /\ Aligned
        /\ EofMark
        /\ ShortAtEnd
        /\ ReadStart
        /\ LastKept

\* The initial state satisfies the invariant.
LEMMA InitIInv == Init => IInv
  <1> SUFFICES ASSUME Init PROVE IInv
    OBVIOUS
  <1>1. Cursor!IsFile(file) /\ bufsz \in Bufsizes /\ bufsz \in Nat \ {0}
        /\ src_filter \in Filters
    BY StreamAssumption DEF Init
  <1>2. TypeOK
    <2>1. buffer \in [0 .. bufsz - 1 -> Nat \cup {-1}]
      BY <1>1 DEF Init
    <2>2. out \in Results
      BY DEF Init, Results
    <2> QED
      BY <1>1, <2>1, <2>2 DEF Init, TypeOK
  <1>3. file.size \in Nat /\ 0 \in file.starts \cup {file.size}
    BY <1>1 DEF Cursor!IsFile
  <1>4. Aligned /\ BufferMirrorsFile
    BY <1>1, <1>3 DEF Init, Aligned, Position, BufferMirrorsFile
  <1> QED
    BY <1>1, <1>2, <1>4 DEF Init, IInv, EofMark, ShortAtEnd, ReadStart, LastKept

\* The arithmetic facts of the invariant, used by every step below.
LEMMA Numbers ==
  ASSUME TypeOK
  PROVE  /\ bufsz \in Nat /\ bufsz > 0 /\ fdpos \in Nat /\ nread \in Nat
         /\ filled \in Nat /\ filled <= bufsz /\ pos \in Nat /\ pos <= filled
         /\ lastmsg_len \in Nat /\ lastmsg_len <= bufsz
         /\ file.size \in Nat
  BY StreamAssumption DEF TypeOK, Cursor!IsFile

\* A message of the file: its length is positive, and what follows it is a
\* message or the end of the file unless the file ends within it.
LEMMA MessageInFile ==
  ASSUME Cursor!IsFile(file), NEW s \in file.starts
  PROVE  /\ s \in Nat /\ s < file.size
         /\ file.len[s] \in Nat /\ file.len[s] > 0
         /\ s + file.len[s] <= file.size =>
                s + file.len[s] \in file.starts \cup {file.size}
  BY DEF Cursor!IsFile

\* What nexusrv_msg_decode finds when bytes are left: it is called at the first
\* byte of a message and sees nothing but bytes of that message, so it is never
\* misled; its answer depends on the message and on how much of it is there.
LEMMA DecodeIsFaithful ==
  ASSUME IInv, pos # filled
  PROVE  /\ pos < bufsz /\ Position = nread + pos
         /\ Position \in file.starts /\ Position \in Nat
         /\ file.len[Position] \in Nat /\ file.len[Position] > 0
         /\ nread + filled = fdpos /\ fdpos <= file.size
         /\ Decode = IF filled - pos < file.len[Position] THEN [rc |-> "stream_truncate"]
                     ELSE IF Position \in file.bad THEN [rc |-> "msg_invalid"]
                     ELSE [rc |-> "msg", at |-> Position]
  <1>1. pos < filled /\ pos < bufsz /\ Position = nread + pos
    BY Numbers DEF IInv, Position
  <1>2. fdpos = nread + filled /\ (\A i \in 0 .. filled - 1 : buffer[i] = nread + i)
    BY <1>1, Numbers DEF IInv, BufferMirrorsFile
  <1>3. Position < file.size /\ Position \in file.starts /\ fdpos <= file.size
    BY <1>1, <1>2, Numbers DEF IInv, Aligned
  <1>4. file.len[Position] \in Nat /\ file.len[Position] > 0 /\ Position \in Nat
    BY <1>3, MessageInFile DEF IInv, TypeOK
  <1>5. buffer[pos] = Position
    BY <1>1, <1>2, Numbers DEF IInv
  <1>6. \A i \in 0 .. (filled - pos) - 1 : buffer[pos + i] = Position + i
    <2> TAKE i \in 0 .. (filled - pos) - 1
    <2>1. pos + i \in 0 .. filled - 1
      BY <1>1, Numbers DEF IInv
    <2> QED
      BY <1>1, <1>2, <2>1, Numbers DEF IInv
  <1>7. ~ \E i \in 0 .. (filled - pos) - 1 :
            i < file.len[Position] /\ buffer[pos + i] # Position + i
    BY <1>6
  <1>8. Decode = IF filled - pos < file.len[Position] THEN [rc |-> "stream_truncate"]
                 ELSE IF Position \in file.bad THEN [rc |-> "msg_invalid"]
                 ELSE [rc |-> "msg", at |-> Position]
    BY <1>3, <1>5, <1>7 DEF Decode
  <1> QED
    BY <1>1, <1>2, <1>3, <1>4, <1>8

(***************************************************************************)
(* Every step keeps the invariant.                                         *)
(***************************************************************************)
\* Beginning a call.
LEMMA CallNextKeeps == IInv /\ CallNext => IInv'
  <1> SUFFICES ASSUME IInv, CallNext PROVE IInv'
    OBVIOUS
  <1>1. /\ UNCHANGED <<file, bufsz, src_filter, fdpos, buffer, nread, filled, pos,
                       lastmsg_len, reliable, out>>
        /\ pc' = "try"
    BY DEF CallNext, fixed
  <1>2. TypeOK' /\ BufferMirrorsFile'
    BY <1>1 DEF IInv, TypeOK, BufferMirrorsFile
  <1>3. Aligned' /\ EofMark' /\ ShortAtEnd'
    BY <1>1 DEF IInv, Aligned, Position, EofMark, ShortAtEnd
  <1> QED
    BY <1>1, <1>2, <1>3 DEF IInv, ReadStart, LastKept

\* A call that ends without a message, the buffer as it was.
LEMMA ReturnKeeps ==
  ASSUME IInv, NEW r \in Results, pc' = "idle", out' = r, lastmsg_len' = 0,
         UNCHANGED <<file, bufsz, src_filter, fdpos, buffer, nread, filled, pos, reliable>>
  PROVE  IInv'
  <1>1. TypeOK' /\ BufferMirrorsFile'
    BY Numbers DEF IInv, TypeOK, BufferMirrorsFile
  <1>2. Aligned' /\ EofMark' /\ ShortAtEnd'
    BY DEF IInv, Aligned, Position, EofMark, ShortAtEnd
  <1> QED
    BY <1>1, <1>2 DEF IInv, ReadStart, LastKept

\* Going on to read_buffer.
LEMMA GoToReadKeeps ==
  ASSUME IInv, pc' = "read", lastmsg_len' = 0,
         pos < bufsz, filled = bufsz \/ (filled = 0 /\ pos = 0),
         UNCHANGED <<file, bufsz, src_filter, fdpos, buffer, nread, filled, pos,
                     reliable, out>>
  PROVE  IInv'
  <1>1. TypeOK' /\ BufferMirrorsFile'
    BY Numbers DEF IInv, TypeOK, BufferMirrorsFile
  <1>2. Aligned' /\ EofMark' /\ ShortAtEnd'
    BY DEF IInv, Aligned, Position, EofMark, ShortAtEnd
  <1> QED
    BY <1>1, <1>2 DEF IInv, ReadStart, LastKept

\* A message is decoded: pos moves to the message behind it, in this buffer or
\* at the start of the next.
LEMMA DecodeMoves ==
  ASSUME IInv, TryDecode
  PROVE  LET s == Position
             n == file.len[Position]
         IN  /\ s \in file.starts /\ s \notin file.bad /\ n \in Nat /\ n > 0
             /\ s \in Nat /\ s + n <= fdpos /\ fdpos <= file.size
             /\ s = nread + pos /\ pos + n <= filled
             /\ Decode = [rc |-> "msg", at |-> s]
             /\ lastmsg_len' = n
             /\ Advance(n)
             /\ Position' = s + n
             /\ \/ PassesFilter(s) /\ pc' = "idle" /\ out' = [rc |-> "msg", at |-> s]
                \/ ~PassesFilter(s) /\ pc' = "try" /\ out' = out
             /\ UNCHANGED <<file, bufsz, src_filter, fdpos, buffer, reliable>>
  <1> DEFINE s == Position
             n == file.len[Position]
  <1>1. pos # filled /\ Decode.rc = "msg" /\ pc = "try"
    BY DEF TryDecode
  <1>2. /\ pos < bufsz /\ s = nread + pos /\ s \in file.starts /\ s \in Nat
        /\ n \in Nat /\ n > 0 /\ nread + filled = fdpos /\ fdpos <= file.size
    BY <1>1, DecodeIsFaithful
  <1>3. ~(filled - pos < n) /\ s \notin file.bad /\ Decode = [rc |-> "msg", at |-> s]
    BY <1>1, DecodeIsFaithful
  <1>4. pos + n <= filled /\ s + n <= fdpos
    BY <1>2, <1>3, Numbers DEF IInv
  <1>5. Decode.at = s
    BY <1>3
  <1>6. /\ Advance(n) /\ lastmsg_len' = n
        /\ IF PassesFilter(s) THEN Return(Decode) ELSE UNCHANGED <<pc, out>>
        /\ UNCHANGED <<file, bufsz, src_filter, fdpos, buffer, reliable>>
    BY <1>5 DEF TryDecode, fixed
  <1>7. \/ PassesFilter(s) /\ pc' = "idle" /\ out' = [rc |-> "msg", at |-> s]
        \/ ~PassesFilter(s) /\ pc' = "try" /\ out' = out
    BY <1>1, <1>3, <1>6 DEF Return
  <1>8. Position' = s + n
    <2>1. bufsz' = bufsz /\ bufsz \in Nat /\ bufsz > 0 /\ pos + n <= bufsz
      BY <1>2, <1>4, <1>6, Numbers DEF IInv
    <2>2. CASE pos + n = bufsz
      BY <1>2, <1>6, <2>1, <2>2, Numbers DEF IInv, Advance, Position
    <2>3. CASE pos + n # bufsz
      BY <1>2, <1>6, <2>1, <2>3, Numbers DEF IInv, Advance, Position
    <2> QED
      BY <2>2, <2>3
  <1> QED
    BY <1>2, <1>3, <1>4, <1>6, <1>7, <1>8

\* Decoding a message, returned or skipped.
LEMMA TryDecodeKeeps == IInv /\ TryDecode => IInv'
  <1> SUFFICES ASSUME IInv, TryDecode PROVE IInv'
    OBVIOUS
  <1> DEFINE s == Position
             n == file.len[Position]
  <1>1. /\ s \in file.starts /\ n \in Nat /\ n > 0 /\ s \in Nat
        /\ s + n <= fdpos /\ fdpos <= file.size
        /\ s = nread + pos /\ pos + n <= filled
        /\ lastmsg_len' = n /\ Advance(n) /\ Position' = s + n
        /\ pc' = "idle" => out' = [rc |-> "msg", at |-> s]
        /\ pc' \in {"idle", "try"} /\ out' \in {out, [rc |-> "msg", at |-> s]}
        /\ UNCHANGED <<file, bufsz, src_filter, fdpos, buffer, reliable>>
    BY DecodeMoves
  <1>2. /\ bufsz \in Nat /\ bufsz > 0 /\ filled \in Nat /\ filled <= bufsz
        /\ pos \in Nat /\ nread \in Nat /\ fdpos \in Nat /\ pos < bufsz /\ file.size \in Nat
    BY <1>1, Numbers DEF IInv
  <1>3. fdpos = nread + filled /\ (\A i \in 0 .. filled - 1 : buffer[i] = nread + i)
    BY <1>2 DEF IInv, BufferMirrorsFile
  <1> HIDE DEF s, n
  <1>4. \/ /\ pos + n = bufsz /\ filled = bufsz
           /\ pos' = 0 /\ filled' = 0 /\ nread' = nread + bufsz
        \/ /\ pos + n < bufsz
           /\ pos' = pos + n /\ filled' = filled /\ nread' = nread
    BY <1>1, <1>2 DEF Advance
  <1>5. TypeOK'
    <2>1. nread' \in Nat /\ filled' \in 0 .. bufsz /\ pos' \in 0 .. filled' /\ n \in 0 .. bufsz
      BY <1>1, <1>2, <1>4
    <2>2. out' \in Results
      BY <1>1 DEF IInv, TypeOK, Results
    <2> QED
      BY <1>1, <2>1, <2>2 DEF IInv, TypeOK
  <1>6. BufferMirrorsFile'
    BY <1>1, <1>2, <1>3, <1>4 DEF BufferMirrorsFile
  <1>7. Aligned'
    <2>1. s + n \in file.starts \cup {file.size}
      BY <1>1, <1>2, MessageInFile DEF IInv, TypeOK, n, s
    <2> QED
      BY <1>1, <2>1 DEF Aligned
  <1>8. EofMark' /\ ShortAtEnd' /\ ReadStart'
    BY <1>1, <1>2, <1>4 DEF IInv, EofMark, ShortAtEnd, ReadStart
  <1>9. LastKept'
    <2>1. Offset' = s
      BY <1>1 DEF Offset
    <2>2. pos' # 0 => pos' >= n
      BY <1>1, <1>2, <1>4
    <2>3. pos' = 0 => /\ filled' = 0 /\ nread' >= bufsz
                      /\ \A i \in 0 .. bufsz - 1 : buffer[i] = (nread' - bufsz) + i
      BY <1>1, <1>2, <1>3, <1>4
    <2> QED
      BY <1>1, <2>1, <2>2, <2>3 DEF LastKept
  <1> QED
    BY <1>5, <1>6, <1>7, <1>8, <1>9 DEF IInv

\* read_buffer moves the unread tail to the front of the buffer and appends the
\* n bytes read: the buffer again holds the file from the cursor on.
LEMMA RefilledMirrors ==
  ASSUME IInv, pc = "read", NEW n \in Nat, n <= Available
  PROVE  /\ Carry \in Nat /\ Carry + n <= bufsz /\ fdpos + n <= file.size
         /\ fdpos + n = (nread + pos) + (Carry + n)
         /\ Refilled(n) \in [0 .. bufsz - 1 -> Nat \cup {-1}]
         /\ \A i \in 0 .. (Carry + n) - 1 : Refilled(n)[i] = (nread + pos) + i
         /\ Position = nread + pos
         /\ Carry = 0 => filled = 0 /\ pos = 0
  <1>1. /\ bufsz \in Nat /\ bufsz > 0 /\ filled \in Nat /\ filled <= bufsz
        /\ pos \in Nat /\ pos <= filled /\ nread \in Nat /\ fdpos \in Nat
        /\ file.size \in Nat
    BY Numbers DEF IInv
  <1>2. pos < bufsz /\ (filled = bufsz \/ (filled = 0 /\ pos = 0))
    BY DEF IInv, ReadStart
  <1>3. /\ fdpos = nread + filled /\ fdpos <= file.size
        /\ \A i \in 0 .. filled - 1 : buffer[i] = nread + i
    BY <1>1, <1>2 DEF IInv, BufferMirrorsFile, Aligned
  <1>4. Carry \in Nat /\ Carry = filled - pos /\ (Carry = 0 => filled = 0 /\ pos = 0)
    BY <1>1, <1>2 DEF Carry
  <1>5. n <= bufsz - Carry /\ n <= file.size - fdpos
    BY <1>1, <1>3, <1>4 DEF Available, Least
  <1>6. Carry + n <= bufsz /\ fdpos + n <= file.size /\ fdpos + n = (nread + pos) + (Carry + n)
    BY <1>1, <1>3, <1>4, <1>5
  <1>7. buffer \in [0 .. bufsz - 1 -> Nat \cup {-1}]
    BY DEF IInv, TypeOK
  <1>8. ASSUME NEW i \in 0 .. bufsz - 1
        PROVE  /\ Refilled(n)[i] \in Nat \cup {-1}
               /\ i < Carry + n => Refilled(n)[i] = (nread + pos) + i
    <2>1. Refilled(n)[i] = IF i < Carry THEN buffer[bufsz - Carry + i]
                           ELSE IF i < Carry + n THEN fdpos + (i - Carry)
                           ELSE buffer[i]
      BY <1>8 DEF Refilled
    <2>2. CASE i < Carry
      <3>1. filled = bufsz /\ bufsz - Carry + i = pos + i /\ pos + i \in 0 .. filled - 1
        BY <1>1, <1>2, <1>4, <2>2
      <3> QED
        BY <1>1, <1>3, <2>1, <2>2, <3>1
    <2>3. CASE i >= Carry /\ i < Carry + n
      BY <1>1, <1>3, <1>4, <2>1, <2>3
    <2>4. CASE i >= Carry + n
      BY <1>1, <1>4, <1>7, <2>1, <2>4
    <2> QED
      BY <1>1, <1>4, <2>2, <2>3, <2>4
  <1>9. Refilled(n) \in [0 .. bufsz - 1 -> Nat \cup {-1}]
    BY <1>8 DEF Refilled
  <1>10. \A i \in 0 .. (Carry + n) - 1 : Refilled(n)[i] = (nread + pos) + i
    BY <1>1, <1>4, <1>6, <1>8
  <1> QED
    BY <1>1, <1>2, <1>4, <1>6, <1>9, <1>10 DEF Position

\* The amounts read() may deliver; nothing only at the end of the file.
LEMMA Amounts ==
  ASSUME IInv, pc = "read", NEW n \in ReadAmounts
  PROVE  /\ n \in Nat /\ n <= Available
         /\ n = 0 => Available = 0
         /\ n = Available => n = bufsz - Carry \/ fdpos + n = file.size
  <1>1. /\ bufsz \in Nat /\ bufsz > 0 /\ filled \in Nat /\ filled <= bufsz
        /\ pos \in Nat /\ pos <= filled /\ fdpos \in Nat /\ file.size \in Nat
        /\ fdpos <= file.size
    BY Numbers DEF IInv, Aligned
  <1>2. Available \in Nat
        /\ (Available = bufsz - Carry \/ Available = file.size - fdpos)
    BY <1>1 DEF Available, Least, Carry
  <1>3. n \in Least(1, Available) .. Available \/ n = Available
    BY DEF ReadAmounts
  <1> QED
    BY <1>1, <1>2, <1>3 DEF Least, Carry

\* A read, of whatever amount.
LEMMA ReadKeeps ==
  ASSUME IInv, NEW n, Read(n)
  PROVE  /\ IInv'
         /\ Position' = Position
         /\ pc' = "idle" => reliable' = reliable /\ (reliable => Position = file.size)
  <1>1. /\ pc = "read" /\ n \in ReadAmounts
        /\ buffer' = Refilled(n) /\ fdpos' = fdpos + n /\ nread' = nread + pos
        /\ AfterRead(Carry + n) /\ reliable' = (reliable /\ n = Available)
        /\ UNCHANGED <<file, bufsz, src_filter, lastmsg_len>>
    BY DEF Read, fixed
  <1>2. /\ n \in Nat /\ n <= Available
        /\ n = 0 => Available = 0
        /\ n = Available => n = bufsz - Carry \/ fdpos + n = file.size
    BY <1>1, Amounts
  <1>3. /\ Carry \in Nat /\ Carry + n <= bufsz /\ fdpos + n <= file.size
        /\ fdpos + n = (nread + pos) + (Carry + n)
        /\ Refilled(n) \in [0 .. bufsz - 1 -> Nat \cup {-1}]
        /\ \A i \in 0 .. (Carry + n) - 1 : Refilled(n)[i] = (nread + pos) + i
        /\ Position = nread + pos
        /\ Carry = 0 => filled = 0 /\ pos = 0
    BY <1>1, <1>2, RefilledMirrors
  <1>4. /\ bufsz \in Nat /\ bufsz > 0 /\ pos \in Nat /\ nread \in Nat /\ fdpos \in Nat
        /\ file.size \in Nat /\ lastmsg_len = 0 /\ reliable \in BOOLEAN
    BY <1>1, Numbers DEF IInv, ReadStart, TypeOK
  <1>5. Position \in file.starts \cup {file.size}
    BY DEF IInv, Aligned
  <1>6. CASE Carry + n > 0
    <2>1. pos' = 0 /\ filled' = Carry + n /\ pc' = "try" /\ out' = out
      BY <1>1, <1>6 DEF AfterRead
    <2>2. TypeOK'
      <3>1. nread' \in Nat /\ filled' \in 0 .. bufsz' /\ pos' \in 0 .. filled' /\ fdpos' \in Nat
        BY <1>1, <1>2, <1>3, <1>4, <2>1
      <3>2. reliable' \in BOOLEAN
        BY <1>1
      <3> QED
        BY <1>1, <1>3, <2>1, <3>1, <3>2 DEF IInv, TypeOK
    <2>3. Position' = Position
      BY <1>1, <1>3, <1>4, <2>1 DEF Position
    <2>4. BufferMirrorsFile'
      BY <1>1, <1>2, <1>3, <1>4, <2>1 DEF BufferMirrorsFile
    <2>5. Aligned'
      BY <1>1, <1>3, <1>5, <2>3 DEF Aligned
    <2>6. ShortAtEnd'
      <3>1. n = bufsz - Carry => filled' = bufsz
        BY <1>2, <1>3, <1>4, <2>1
      <3> QED
        BY <1>1, <1>2, <3>1 DEF ShortAtEnd
    <2>7. EofMark' /\ ReadStart' /\ LastKept'
      BY <1>1, <1>4, <2>1 DEF EofMark, ReadStart, LastKept
    <2> QED
      BY <2>1, <2>2, <2>3, <2>4, <2>5, <2>6, <2>7 DEF IInv
  <1>7. CASE Carry + n = 0
    <2>1. n = 0 /\ Carry = 0 /\ filled = 0 /\ pos = 0 /\ Available = 0
      BY <1>7, <1>2, <1>3
    <2>2. fdpos = file.size /\ reliable' = reliable /\ Position = file.size
      BY <1>1, <1>2, <1>3, <1>4, <2>1
    <2>3. pos' = bufsz /\ filled' = bufsz /\ pc' = "idle" /\ out' = [rc |-> "eof"]
      BY <1>1, <1>7, <2>1 DEF AfterRead, Return
    <2>4. nread' = nread /\ fdpos' = fdpos /\ nread = fdpos
      BY <1>1, <1>3, <1>4, <2>1
    <2>5. TypeOK'
      <3>1. nread' \in Nat /\ filled' \in 0 .. bufsz' /\ pos' \in 0 .. filled' /\ fdpos' \in Nat
        BY <1>1, <1>4, <2>3, <2>4
      <3>2. out' \in Results
        BY <2>3 DEF Results
      <3> QED
        BY <1>1, <1>3, <2>2, <2>3, <3>1, <3>2 DEF IInv, TypeOK
    <2>6. Position' = Position
      BY <1>1, <1>3, <1>4, <2>1, <2>3, <2>4 DEF Position
    <2>7. BufferMirrorsFile' /\ Aligned'
      BY <1>1, <1>3, <1>5, <2>1, <2>3, <2>4, <2>6 DEF BufferMirrorsFile, Aligned
    <2>8. EofMark' /\ ShortAtEnd' /\ ReadStart' /\ LastKept'
      BY <1>1, <1>4, <2>2, <2>3, <2>4 DEF EofMark, ShortAtEnd, ReadStart, LastKept
    <2> QED
      BY <2>2, <2>5, <2>6, <2>7, <2>8 DEF IInv
  <1> QED
    BY <1>3, <1>2, <1>6, <1>7

\* A failed read: the tail is kept and the next call tries again.
LEMMA ReadFailsKeeps == IInv /\ ReadFails => IInv' /\ Position' = Position
  <1> SUFFICES ASSUME IInv, ReadFails PROVE IInv' /\ Position' = Position
    OBVIOUS
  <1>1. /\ pc = "read" /\ buffer' = Refilled(0) /\ nread' = nread + pos
        /\ pos' = 0 /\ filled' = Carry /\ pc' = "idle"
        /\ out' = [rc |-> "stream_read_failed"] /\ reliable' = FALSE
        /\ UNCHANGED <<file, bufsz, src_filter, fdpos, lastmsg_len>>
    BY DEF ReadFails, Return, fixed
  <1>2. /\ bufsz \in Nat /\ bufsz > 0 /\ pos \in Nat /\ nread \in Nat /\ fdpos \in Nat
        /\ filled \in Nat /\ pos <= filled /\ filled <= bufsz
        /\ file.size \in Nat /\ lastmsg_len = 0 /\ fdpos <= file.size
    BY <1>1, Numbers DEF IInv, ReadStart, Aligned
  <1>3. 0 <= Available
    BY <1>2 DEF Available, Least, Carry
  <1>4. /\ Carry \in Nat /\ Carry + 0 <= bufsz
        /\ fdpos + 0 = (nread + pos) + (Carry + 0)
        /\ Refilled(0) \in [0 .. bufsz - 1 -> Nat \cup {-1}]
        /\ \A i \in 0 .. (Carry + 0) - 1 : Refilled(0)[i] = (nread + pos) + i
        /\ Position = nread + pos
    BY <1>1, <1>3, RefilledMirrors
  <1>5. TypeOK'
    <2>1. nread' \in Nat /\ filled' \in 0 .. bufsz' /\ pos' \in 0 .. filled'
      BY <1>1, <1>2, <1>4
    <2>2. out' \in Results
      BY <1>1 DEF Results
    <2> QED
      BY <1>1, <1>4, <2>1, <2>2 DEF IInv, TypeOK
  <1>6. Position' = Position
    BY <1>1, <1>2, <1>4 DEF Position
  <1>7. BufferMirrorsFile'
    BY <1>1, <1>2, <1>4 DEF BufferMirrorsFile
  <1>8. Aligned'
    BY <1>1, <1>6 DEF IInv, Aligned
  <1>9. EofMark' /\ ShortAtEnd' /\ ReadStart' /\ LastKept'
    BY <1>1, <1>2 DEF EofMark, ShortAtEnd, ReadStart, LastKept
  <1> QED
    BY <1>5, <1>6, <1>7, <1>8, <1>9 DEF IInv

\* Rewinding moves back to the first byte of the message returned last.
LEMMA RewindKeeps == IInv /\ Rewind => IInv' /\ Position' = Offset
  <1> SUFFICES ASSUME IInv, Rewind PROVE IInv' /\ Position' = Offset
    OBVIOUS
  <1>1. /\ pc = "idle" /\ lastmsg_len # 0 /\ TakeBack /\ lastmsg_len' = 0
        /\ UNCHANGED <<file, bufsz, src_filter, fdpos, buffer, pc, reliable, out>>
    BY DEF Rewind, fixed
  <1>2. /\ bufsz \in Nat /\ bufsz > 0 /\ pos \in Nat /\ nread \in Nat /\ fdpos \in Nat
        /\ filled \in Nat /\ pos <= filled /\ filled <= bufsz
        /\ lastmsg_len \in Nat /\ lastmsg_len <= bufsz /\ lastmsg_len > 0
    BY <1>1, Numbers DEF IInv
  <1>3. /\ pos # 0 => pos >= lastmsg_len
        /\ pos = 0 => /\ filled = 0 /\ nread >= bufsz
                      /\ \A i \in 0 .. bufsz - 1 : buffer[i] = (nread - bufsz) + i
        /\ Offset \in file.starts
    BY <1>1 DEF IInv, LastKept
  <1>4. pos # bufsz /\ Position = nread + pos
    BY <1>1, <1>2 DEF IInv, EofMark, Position
  <1>5. /\ fdpos = nread + filled /\ fdpos <= file.size
        /\ \A i \in 0 .. filled - 1 : buffer[i] = nread + i
    BY <1>4 DEF IInv, BufferMirrorsFile, Aligned
  <1>6. \/ /\ pos = 0 /\ pos' = bufsz - lastmsg_len
           /\ filled' = bufsz /\ nread' = nread - bufsz
        \/ /\ pos # 0 /\ pos' = pos - lastmsg_len
           /\ filled' = filled /\ nread' = nread
    BY <1>1 DEF TakeBack
  <1>7. /\ nread' \in Nat /\ filled' \in 0 .. bufsz /\ pos' \in 0 .. filled'
        /\ pos' # bufsz /\ fdpos = nread' + filled'
        /\ nread' + pos' = (nread + pos) - lastmsg_len
    BY <1>2, <1>3, <1>4, <1>5, <1>6
  <1>8. TypeOK'
    <2>1. filled' \in 0 .. bufsz' /\ lastmsg_len' \in 0 .. bufsz'
      BY <1>1, <1>2, <1>7
    <2> QED
      BY <1>1, <1>7, <2>1 DEF IInv, TypeOK
  <1>9. Position' = Offset
    BY <1>1, <1>4, <1>7 DEF Position, Offset
  <1>10. BufferMirrorsFile'
    BY <1>1, <1>2, <1>3, <1>5, <1>6, <1>7 DEF BufferMirrorsFile
  <1>11. Aligned'
    BY <1>1, <1>3, <1>5, <1>9 DEF Aligned
  <1>12. EofMark' /\ ReadStart' /\ LastKept'
    BY <1>1, <1>7 DEF EofMark, ReadStart, LastKept
  <1>13. ShortAtEnd'
    BY <1>1, <1>6 DEF IInv, ShortAtEnd
  <1> QED
    BY <1>8, <1>9, <1>10, <1>11, <1>12, <1>13 DEF IInv

\* Every step keeps the invariant.
LEMMA NextIInv == IInv /\ [Next]_vars => IInv'
  <1> SUFFICES ASSUME IInv, [Next]_vars PROVE IInv'
    OBVIOUS
  <1>1. CASE CallNext
    BY <1>1, CallNextKeeps
  <1>2. CASE Rewind
    BY <1>2, RewindKeeps
  <1>3. CASE TryEof
    <2>1. [rc |-> "eof"] \in Results
      BY DEF Results
    <2> QED
      BY <1>3, <2>1, ReturnKeeps DEF TryEof, Return, fixed
  <1>4. CASE TryEmpty
    <2>1. pos < bufsz
      BY <1>4, Numbers DEF IInv, TryEmpty
    <2> QED
      BY <1>4, <2>1, GoToReadKeeps DEF TryEmpty, fixed
  <1>5. CASE TryDecode
    BY <1>5, TryDecodeKeeps
  <1>6. CASE TryCarry
    <2>1. pos < bufsz /\ filled = bufsz
      BY <1>6, DecodeIsFaithful DEF TryCarry, NeedsMore
    <2> QED
      BY <1>6, <2>1, GoToReadKeeps DEF TryCarry, fixed
  <1>7. CASE TryTooSmall
    <2>1. [rc |-> "buffer_too_small"] \in Results
      BY DEF Results
    <2> QED
      BY <1>7, <2>1, ReturnKeeps DEF TryTooSmall, Return, fixed
  <1>8. CASE TryError
    <2>1. Decode \in {[rc |-> "stream_truncate"], [rc |-> "msg_invalid"],
                      [rc |-> "msg", at |-> Position]} /\ Position \in Nat
      BY <1>8, DecodeIsFaithful DEF TryError
    <2>2. Decode \in Results
      BY <2>1 DEF Results
    <2> QED
      BY <1>8, <2>2, ReturnKeeps DEF TryError, Return, fixed
  <1>9. CASE \E n \in 0 .. bufsz : Read(n)
    BY <1>9, ReadKeeps
  <1>10. CASE ReadFails
    BY <1>10, ReadFailsKeeps
  <1>11. CASE UNCHANGED vars
    BY <1>11 DEF vars, IInv, TypeOK, BufferMirrorsFile, Aligned, Position, EofMark,
                 ShortAtEnd, ReadStart, LastKept, Offset
  <1> QED
    BY <1>1, <1>2, <1>3, <1>4, <1>5, <1>6, <1>7, <1>8, <1>9, <1>10, <1>11 DEF Next, Step

\* The invariant holds throughout.
LEMMA AlwaysIInv == Spec => []IInv
  BY InitIInv, NextIInv, PTL DEF Spec

\* The positions stay within the buffer, for every file, buffer size and filter
\* (msg-decoder.h:39-50).
THEOREM PositionsInBuffer == Spec => []TypeOK
  <1>1. IInv => TypeOK
    BY DEF IInv
  <1> QED
    BY <1>1, AlwaysIInv, PTL

\* The buffer always holds the bytes of the file from nread on, through every
\* refill, reset and rewind (msg-decoder.c:348-354, 369-378, 405-411).
THEOREM BufferAlwaysMirrorsFile == Spec => []BufferMirrorsFile
  <1>1. IInv => BufferMirrorsFile
    BY DEF IInv
  <1> QED
    BY <1>1, AlwaysIInv, PTL

\* The assertions of lastmsg and rewind_last cannot fail
\* (msg-decoder.c:392, 404-407).
THEOREM StreamAssertionsHold == Spec => []AssertionsHold
  <1>1. IInv => AssertionsHold
    <2> SUFFICES ASSUME IInv PROVE AssertionsHold
      OBVIOUS
    <2> QED
      BY DEF IInv, LastKept, AssertionsHold
  <1> QED
    BY <1>1, AlwaysIInv, PTL

\* nexusrv_msg_decoder_lastmsg points at the bytes of the message returned last,
\* also when it ended at the end of the buffer (msg-decoder.c:387-397).
THEOREM LastMsgAlwaysInBuffer == Spec => []LastMsgIsInBuffer
  <1>1. IInv => LastMsgIsInBuffer
    <2> SUFFICES ASSUME IInv, pc = "idle", lastmsg_len # 0
                 PROVE  /\ LastMsg \in 0 .. bufsz - lastmsg_len
                        /\ \A i \in 0 .. lastmsg_len - 1 : buffer[LastMsg + i] = Offset + i
                        /\ out = [rc |-> "msg", at |-> Offset]
      BY DEF LastMsgIsInBuffer
    <2>1. /\ pos # 0 => pos >= lastmsg_len
          /\ pos = 0 => /\ filled = 0 /\ nread >= bufsz
                        /\ \A i \in 0 .. bufsz - 1 : buffer[i] = (nread - bufsz) + i
          /\ out = [rc |-> "msg", at |-> Offset]
      BY DEF IInv, LastKept
    <2>2. /\ bufsz \in Nat /\ bufsz > 0 /\ pos \in Nat /\ nread \in Nat
          /\ filled \in Nat /\ pos <= filled /\ filled <= bufsz
          /\ lastmsg_len \in Nat /\ lastmsg_len <= bufsz
      BY Numbers DEF IInv
    <2>3. pos # bufsz /\ Offset = (nread + pos) - lastmsg_len
      BY DEF IInv, EofMark, Position, Offset
    <2>4. \A i \in 0 .. filled - 1 : buffer[i] = nread + i
      BY <2>3 DEF IInv, BufferMirrorsFile
    <2>5. CASE pos = 0
      <3>1. LastMsg = bufsz - lastmsg_len
        BY <2>5 DEF LastMsg
      <3>2. \A i \in 0 .. lastmsg_len - 1 : LastMsg + i \in 0 .. bufsz - 1
        BY <2>2, <3>1
      <3> QED
        BY <2>1, <2>2, <2>3, <2>5, <3>1, <3>2
    <2>6. CASE pos # 0
      <3>1. LastMsg = pos - lastmsg_len
        BY <2>6 DEF LastMsg
      <3>2. \A i \in 0 .. lastmsg_len - 1 : LastMsg + i \in 0 .. filled - 1
        BY <2>1, <2>2, <2>6, <3>1
      <3> QED
        BY <2>1, <2>2, <2>3, <2>4, <2>6, <3>1, <3>2
    <2> QED
      BY <2>5, <2>6
  <1> QED
    BY <1>1, AlwaysIInv, PTL

(***************************************************************************)
(* The refinement of MsgCursor.                                            *)
(***************************************************************************)
\* The message a rewind of the cursor returns to.
CursorLast == IF pc = "idle" /\ lastmsg_len # 0 THEN Offset ELSE None

\* What the cursor sees of the decoder.
cursorView == <<file, src_filter, bufsz, Position, CursorLast, pc # "idle", reliable, out>>

\* A call that ends without a message leaves the cursor where it was.
LEMMA ReturnFails ==
  ASSUME pc # "idle", NEW code, pc' = "idle", out' = [rc |-> code], lastmsg_len' = 0,
         Position' = Position, UNCHANGED <<file, bufsz, src_filter>>
  PROVE  Cursor!Fail(code)
  BY DEF Cursor!Fail

\* Every step of the decoder is a step of the cursor or invisible to it.
LEMMA StepRefines ==
  ASSUME IInv, [Next]_vars PROVE [Cursor!Next]_cursorView
  <1> USE DEF cursorView, CursorLast
  <1>1. CASE CallNext
    <2>1. /\ pc = "idle" /\ pc' = "try"
          /\ UNCHANGED <<file, bufsz, src_filter, nread, pos, reliable, out>>
      BY <1>1 DEF CallNext, fixed
    <2>2. Position' = Position
      BY <2>1 DEF Position
    <2> QED
      BY <2>1, <2>2 DEF Cursor!Next, Cursor!Begin
  <1>2. CASE Rewind
    <2>1. /\ pc = "idle" /\ lastmsg_len # 0 /\ lastmsg_len' = 0 /\ pc' = "idle"
          /\ UNCHANGED <<file, bufsz, src_filter, reliable, out>>
      BY <1>2 DEF Rewind, fixed
    <2>2. Position' = Offset
      BY <1>2, RewindKeeps
    <2>3. Offset # None
      <3>1. Offset \in file.starts
        BY <2>1 DEF IInv, LastKept
      <3>2. Offset \in Nat
        BY <3>1, MessageInFile DEF IInv, TypeOK
      <3> QED
        BY <3>2, StreamAssumption
    <2> QED
      BY <2>1, <2>2, <2>3 DEF Cursor!Next, Cursor!Rewind
  <1>3. CASE TryEof
    <2>1. /\ pc = "try" /\ pc' = "idle" /\ out' = [rc |-> "eof"] /\ lastmsg_len' = 0
          /\ pos = filled /\ pos # 0
          /\ UNCHANGED <<file, bufsz, src_filter, nread, pos, reliable>>
      BY <1>3 DEF TryEof, Return, fixed
    <2>2. Position' = Position
      BY <2>1 DEF Position
    <2>3. reliable => Position = file.size
      <3>1. CASE pos = bufsz
        <4>1. nread = fdpos /\ Position = nread + 0
          BY <3>1 DEF IInv, BufferMirrorsFile, Position
        <4> QED
          BY <3>1, <4>1, Numbers DEF IInv, EofMark
      <3>2. CASE pos # bufsz
        <4>1. fdpos = nread + filled /\ Position = nread + pos
          BY <3>2 DEF IInv, BufferMirrorsFile, Position
        <4> QED
          BY <2>1, <3>2, <4>1 DEF IInv, ShortAtEnd
      <3> QED
        BY <3>1, <3>2
    <2>4. Cursor!Fail("eof")
      BY <2>1, <2>2, ReturnFails
    <2> QED
      BY <2>1, <2>3, <2>4 DEF Cursor!Next, Cursor!Eof
  <1>4. CASE TryEmpty \/ TryCarry
    <2>1. /\ pc = "try" /\ pc' = "read"
          /\ UNCHANGED <<file, bufsz, src_filter, nread, pos, reliable, out>>
      BY <1>4 DEF TryEmpty, TryCarry, fixed
    <2>2. Position' = Position
      BY <2>1 DEF Position
    <2> QED
      BY <2>1, <2>2
  <1>5. CASE TryDecode
    <2> DEFINE s == Position
               n == file.len[Position]
    <2>1. /\ s \in file.starts /\ s \notin file.bad /\ s \in Nat /\ n \in Nat
          /\ s + n <= fdpos /\ fdpos <= file.size
          /\ lastmsg_len' = n /\ n > 0 /\ Position' = s + n
          /\ \/ PassesFilter(s) /\ pc' = "idle" /\ out' = [rc |-> "msg", at |-> s]
             \/ ~PassesFilter(s) /\ pc' = "try" /\ out' = out
          /\ UNCHANGED <<file, bufsz, src_filter, reliable>>
      BY <1>5, DecodeMoves
    <2>2. pc = "try" /\ fdpos \in Nat /\ file.size \in Nat
      BY <1>5, Numbers DEF TryDecode, IInv
    <2>3. Cursor!Decodable(file, s)
      BY <2>1, <2>2 DEF Cursor!Decodable, Cursor!Whole
    <2>4. PassesFilter(s) <=> Cursor!Wanted(file, s, src_filter)
      BY DEF PassesFilter, Cursor!Wanted
    <2>5. CASE PassesFilter(s) /\ pc' = "idle" /\ out' = [rc |-> "msg", at |-> s]
      <3>1. CursorLast' = s
        BY <2>1, <2>5 DEF Offset
      <3> QED
        BY <2>1, <2>2, <2>3, <2>4, <2>5, <3>1 DEF Cursor!Next, Cursor!Deliver
    <2>6. CASE ~PassesFilter(s) /\ pc' = "try" /\ out' = out
      BY <2>1, <2>2, <2>3, <2>4, <2>6 DEF Cursor!Next, Cursor!Skip
    <2> QED
      BY <2>1, <2>5, <2>6
  <1>6. CASE TryTooSmall
    <2>1. /\ pc = "try" /\ pc' = "idle" /\ lastmsg_len' = 0 /\ pos # filled /\ pos = 0
          /\ out' = [rc |-> "buffer_too_small"] /\ NeedsMore
          /\ UNCHANGED <<file, bufsz, src_filter, nread, pos, reliable>>
      BY <1>6 DEF TryTooSmall, Return, fixed
    <2>2. Position' = Position
      BY <2>1 DEF Position
    <2>3. Position \in file.starts /\ filled - pos < file.len[Position] /\ filled = bufsz
      BY <2>1, DecodeIsFaithful DEF NeedsMore
    <2>4. file.len[Position] > bufsz
      BY <2>1, <2>3, DecodeIsFaithful, Numbers DEF IInv
    <2>5. Cursor!Fail("buffer_too_small")
      BY <2>1, <2>2, ReturnFails
    <2> QED
      BY <2>1, <2>3, <2>4, <2>5 DEF Cursor!Next, Cursor!TooSmall
  <1>7. CASE TryError
    <2>1. /\ pc = "try" /\ pc' = "idle" /\ lastmsg_len' = 0 /\ pos # filled
          /\ out' = Decode /\ Decode.rc # "msg" /\ ~NeedsMore
          /\ UNCHANGED <<file, bufsz, src_filter, nread, pos, reliable>>
      BY <1>7 DEF TryError, Return, fixed
    <2>2. Position' = Position
      BY <2>1 DEF Position
    <2>3. /\ Position = nread + pos /\ nread + filled = fdpos
          /\ Position \in file.starts /\ Position \in Nat
          /\ file.len[Position] \in Nat
          /\ Decode = IF filled - pos < file.len[Position] THEN [rc |-> "stream_truncate"]
                      ELSE IF Position \in file.bad THEN [rc |-> "msg_invalid"]
                      ELSE [rc |-> "msg", at |-> Position]
      BY <2>1, DecodeIsFaithful
    <2>4. CASE filled - pos < file.len[Position]
      <3>1. out' = [rc |-> "stream_truncate"]
        BY <2>1, <2>3, <2>4
      <3>2. filled # bufsz
        BY <2>1, <2>3, <2>4 DEF NeedsMore
      <3>3. /\ nread \in Nat /\ pos \in Nat /\ filled \in Nat /\ pos <= filled
            /\ filled # 0
        BY <2>1, Numbers DEF IInv
      <3>4. reliable => fdpos = file.size
        BY <3>2, <3>3 DEF IInv, ShortAtEnd
      <3>5. Position + file.len[Position] > file.size \/ ~reliable
        BY <2>3, <2>4, <3>3, <3>4
      <3>6. Cursor!Fail("stream_truncate")
        BY <2>1, <2>2, <3>1, ReturnFails
      <3> QED
        BY <2>1, <2>3, <3>5, <3>6 DEF Cursor!Next, Cursor!Truncated
    <2>5. CASE ~(filled - pos < file.len[Position])
      <3>1. Position \in file.bad /\ out' = [rc |-> "msg_invalid"]
        BY <2>1, <2>3, <2>5
      <3>2. Cursor!Fail("msg_invalid")
        BY <2>1, <2>2, <3>1, ReturnFails
      <3> QED
        BY <2>1, <3>1, <3>2 DEF Cursor!Next, Cursor!Undecodable
    <2> QED
      BY <2>4, <2>5
  <1>8. CASE \E n \in 0 .. bufsz : Read(n)
    <2>1. PICK n \in 0 .. bufsz : Read(n)
      BY <1>8
    <2>2. /\ pc = "read" /\ AfterRead(Carry + n)
          /\ reliable' = (reliable /\ n = Available)
          /\ UNCHANGED <<file, bufsz, src_filter, lastmsg_len>>
      BY <2>1 DEF Read, fixed
    <2>3. /\ Position' = Position /\ lastmsg_len = 0
          /\ pc' = "idle" => reliable' = reliable /\ (reliable => Position = file.size)
      BY <2>1, <2>2, ReadKeeps DEF IInv, ReadStart
    <2>4. \/ pc' = "try" /\ out' = out
          \/ pc' = "idle" /\ out' = [rc |-> "eof"]
      BY <2>2 DEF AfterRead, Return
    <2>5. CASE pc' = "try" /\ out' = out
      <3>1. reliable' = reliable \/ reliable' = FALSE
        BY <2>2 DEF IInv, TypeOK
      <3>2. CASE reliable' = reliable
        BY <2>2, <2>3, <2>5, <3>2
      <3>3. CASE reliable' = FALSE
        BY <2>2, <2>3, <2>5, <3>3 DEF Cursor!Next, Cursor!ShortRead
      <3> QED
        BY <3>1, <3>2, <3>3
    <2>6. CASE pc' = "idle" /\ out' = [rc |-> "eof"]
      <3>1. Cursor!Fail("eof")
        BY <2>2, <2>3, <2>6, ReturnFails
      <3> QED
        BY <2>3, <2>6, <3>1 DEF Cursor!Next, Cursor!Eof
    <2> QED
      BY <2>4, <2>5, <2>6
  <1>9. CASE ReadFails
    <2>1. /\ pc = "read" /\ pc' = "idle" /\ reliable' = FALSE
          /\ out' = [rc |-> "stream_read_failed"]
          /\ UNCHANGED <<file, bufsz, src_filter, lastmsg_len>>
      BY <1>9 DEF ReadFails, Return, fixed
    <2>2. Position' = Position /\ lastmsg_len' = 0
      BY <1>9, <2>1, ReadFailsKeeps DEF IInv, ReadStart
    <2>3. Cursor!Fail("stream_read_failed")
      BY <2>1, <2>2, ReturnFails
    <2> QED
      BY <2>1, <2>3 DEF Cursor!Next, Cursor!ReadFailed
  <1>10. CASE UNCHANGED vars
    BY <1>10 DEF vars, Position, Offset
  <1> QED
    BY <1>1, <1>2, <1>3, <1>4, <1>5, <1>6, <1>7, <1>8, <1>9, <1>10 DEF Next, Step

\* The buffered decoder implements the cursor over the messages of the file for
\* every file, buffer size and filter: whatever read() delivers, no message is
\* lost, repeated or misread, and a rewind returns to the message delivered last
\* (msg-decoder.h:163-182, 197-204).
THEOREM StreamRefinesCursor == Spec => ImplementsCursor
  <1>1. Init => Cursor!Init
    <2> SUFFICES ASSUME Init PROVE Cursor!Init
      OBVIOUS
    <2>1. file \in Files /\ bufsz \in Bufsizes /\ src_filter \in Filters
      BY DEF Init
    <2>2. Cursor!IsFile(file) /\ bufsz \in Nat \ {0} /\ src_filter \in Int
      BY <2>1, StreamAssumption
    <2>3. Position = 0
      BY <2>2 DEF Init, Position
    <2> QED
      BY <2>2, <2>3 DEF Init, Cursor!Init
  <1>2. IInv /\ [Next]_vars => [Cursor!Next]_cursorView
    BY StepRefines
  <1> QED
    BY <1>1, <1>2, AlwaysIInv, PTL
       DEF Spec, ImplementsCursor, Cursor!Spec, Cursor!cursorVars, cursorView, CursorLast
=============================================================================
