------------------------------ MODULE MsgStream ------------------------------
(***************************************************************************)
(* lib/msg-decoder.c:330-413 and lib/misc.c: the message decoder reads a   *)
(* trace file through a caller supplied buffer, refills it when a message  *)
(* is cut by its end, filters by source, and can be rewound by one message.*)
(*                                                                         *)
(* A byte is represented by its offset in the file, so a cell of `buffer'  *)
(* says which byte it holds.  The codec is abstracted to what it needs to  *)
(* see: nexusrv_msg_decode consumes the message at its first byte when all *)
(* its bytes are there and asks for more otherwise.                        *)
(***************************************************************************)
EXTENDS Integers, FiniteSets

CONSTANTS Files,       \* trace files considered (records of MsgCursor)
          Bufsizes,    \* sizes of the caller's buffer
          Filters,     \* values of src_filter, negative for no filter
          ShortReads,  \* the descriptor may be a pipe: read() may return less
          ReadErrors,  \* read() may fail
          None

VARIABLES file,                                  \* what fd refers to
          fdpos,                                 \* its file position
          bufsz, src_filter, buffer,             \* nexusrv_msg_decoder:
          nread, filled, pos, lastmsg_len,       \*   the C structure
          pc,                                    \* where next() is
          reliable,                              \* history: see MsgCursor
          out                                    \* result of the last next()

vars == <<file, fdpos, bufsz, src_filter, buffer, nread, filled, pos,
          lastmsg_len, pc, reliable, out>>

fixed == <<file, bufsz, src_filter>>

\* nexusrv_msg_decoder_offset (msg-decoder.h:156-161), and the position it
\* is computed from.
Position == nread + IF pos # bufsz THEN pos ELSE 0
Offset == Position - lastmsg_len

Cursor == INSTANCE MsgCursor WITH
              filter <- src_filter,
              capacity <- bufsz,
              cur <- Position,
              last <- IF pc = "idle" /\ lastmsg_len # 0 THEN Offset ELSE None,
              pending <- pc # "idle"

ASSUME StreamAssumption == /\ \A f \in Files : Cursor!IsFile(f)
                           /\ Bufsizes \subseteq Nat \ {0}
                           /\ Filters \subseteq Int
                           /\ ShortReads \in BOOLEAN
                           /\ ReadErrors \in BOOLEAN
                           /\ None \notin Int

-----------------------------------------------------------------------------
(***************************************************************************)
(* nexusrv_msg_decoder_init: the structure is zeroed.  The buffer is the   *)
(* caller's; -1 is a byte that is not of the file.                         *)
(***************************************************************************)
Init == /\ file \in Files
        /\ bufsz \in Bufsizes
        /\ src_filter \in Filters
        /\ buffer = [i \in 0 .. bufsz - 1 |-> -1]
        /\ fdpos = 0 /\ nread = 0 /\ filled = 0 /\ pos = 0 /\ lastmsg_len = 0
        /\ pc = "idle"
        /\ reliable = TRUE
        /\ out = [rc |-> "none"]

(***************************************************************************)
(* nexusrv_msg_decode on the bytes from pos on, limited by filled.         *)
(***************************************************************************)
Decode ==
    LET s == buffer[pos]
        n == filled - pos
    IN  IF s \notin file.starts
            THEN [rc |-> "garbage"]
        ELSE IF \E i \in 0 .. n - 1 : i < file.len[s] /\ buffer[pos + i] # s + i
            THEN [rc |-> "garbage"]
        ELSE IF n < file.len[s]
            THEN [rc |-> "stream_truncate"]
        ELSE IF s \in file.bad
            THEN [rc |-> "msg_invalid"]
        ELSE [rc |-> "msg", at |-> s]

\* nexusrv_msg_decoder_next is called.
CallNext == /\ pc = "idle"
            /\ pc' = "try"
            /\ UNCHANGED <<fixed, fdpos, buffer, nread, filled, pos,
                           lastmsg_len, reliable, out>>

\* next() returns.
Return(result) == pc' = "idle" /\ out' = result

\* All that was read has been consumed (330-340).
TryEof == /\ pc = "try"
          /\ pos = filled /\ pos # 0
          /\ lastmsg_len' = 0
          /\ Return([rc |-> "eof"])
          /\ UNCHANGED <<fixed, fdpos, buffer, nread, filled, pos, reliable>>

\* The buffer is empty (341).
TryEmpty == /\ pc = "try"
            /\ pos = filled /\ pos = 0
            /\ lastmsg_len' = 0
            /\ pc' = "read"
            /\ UNCHANGED <<fixed, fdpos, buffer, nread, filled, pos, reliable, out>>

\* Mutant of Advance: reaching the end of the buffer is not noticed.
AdvanceWithoutReset(n) == pos' = pos + n /\ UNCHANGED <<filled, nread>>

\* Mutant of Advance: the number of filled bytes survives the reset.
AdvanceKeepsFilled(n) == IF pos + n = bufsz
                            THEN pos' = 0 /\ filled' = filled /\ nread' = nread + (pos + n)
                            ELSE pos' = pos + n /\ UNCHANGED <<filled, nread>>

\* pos moves over n bytes; at the end of the buffer the decoder starts over
\* with an empty one (349-354).
Advance(n) == IF pos + n = bufsz
                 THEN pos' = 0 /\ filled' = 0 /\ nread' = nread + (pos + n)
                 ELSE pos' = pos + n /\ UNCHANGED <<filled, nread>>

PassesFilter(s) == src_filter < 0 \/ src_filter = file.src[s]

\* A message is decoded (348-361): returned, or skipped by the filter.
TryDecode == /\ pc = "try"
             /\ pos # filled
             /\ Decode.rc = "msg"
             /\ LET s == Decode.at
                IN  /\ Advance(file.len[s])
                    /\ lastmsg_len' = file.len[s]
                    /\ IF PassesFilter(s) THEN Return(Decode)
                                          ELSE UNCHANGED <<pc, out>>
             /\ UNCHANGED <<fixed, fdpos, buffer, reliable>>

\* The message is cut by the end of a full buffer (363-369).
NeedsMore == Decode.rc = "stream_truncate" /\ filled = bufsz

TryCarry == /\ pc = "try"
            /\ pos # filled
            /\ NeedsMore /\ pos # 0
            /\ lastmsg_len' = 0
            /\ pc' = "read"
            /\ UNCHANGED <<fixed, fdpos, buffer, nread, filled, pos, reliable, out>>

TryTooSmall == /\ pc = "try"
               /\ pos # filled
               /\ NeedsMore /\ pos = 0
               /\ lastmsg_len' = 0
               /\ Return([rc |-> "buffer_too_small"])
               /\ UNCHANGED <<fixed, fdpos, buffer, nread, filled, pos, reliable>>

TryError == /\ pc = "try"
            /\ pos # filled
            /\ Decode.rc # "msg" /\ ~NeedsMore
            /\ lastmsg_len' = 0
            /\ Return(Decode)
            /\ UNCHANGED <<fixed, fdpos, buffer, nread, filled, pos, reliable>>

(***************************************************************************)
(* read_buffer (369-384): the unread tail moves to the front of the        *)
(* buffer, then read_all fills the rest.  read_all (misc.c:12-27) stops at *)
(* the first read() that returns less than it was asked for: from a        *)
(* regular file that is the end of the file, from a pipe any amount.       *)
(***************************************************************************)
Carry == filled - pos

Least(a, b) == IF a < b THEN a ELSE b

Available == Least(bufsz - Carry, file.size - fdpos)

ReadAmounts == IF ShortReads THEN Least(1, Available) .. Available
                             ELSE {Available}

\* Mutant of Refilled: the tail is not moved to the front.
RefilledInPlace(n) ==
    [i \in 0 .. bufsz - 1 |->
        IF i >= Carry /\ i < Carry + n THEN fdpos + (i - Carry) ELSE buffer[i]]

\* The buffer after memmove and a read of n bytes.
Refilled(n) ==
    [i \in 0 .. bufsz - 1 |->
        IF i < Carry THEN buffer[bufsz - Carry + i]
        ELSE IF i < Carry + n THEN fdpos + (i - Carry)
        ELSE buffer[i]]

\* Mutant of AfterRead: the loop is entered again although nothing was read.
AfterReadAgain(total) == /\ pos' = 0 /\ filled' = total
                         /\ pc' = "try" /\ out' = out

\* Decode again, or give up at the end of the file with pos == filled == bufsz.
AfterRead(total) == IF total > 0
                       THEN /\ pos' = 0 /\ filled' = total
                            /\ pc' = "try" /\ out' = out
                       ELSE /\ pos' = bufsz /\ filled' = bufsz
                            /\ Return([rc |-> "eof"])

Read(n) == /\ pc = "read"
           /\ n \in ReadAmounts
           /\ buffer' = Refilled(n)
           /\ fdpos' = fdpos + n
           /\ nread' = nread + pos
           /\ AfterRead(Carry + n)
           /\ reliable' = (reliable /\ n = Available)
           /\ UNCHANGED <<fixed, lastmsg_len>>

ReadFails == /\ pc = "read"
             /\ ReadErrors
             /\ bufsz - Carry > 0
             /\ buffer' = Refilled(0)
             /\ nread' = nread + pos
             /\ pos' = 0
             /\ filled' = Carry
             /\ Return([rc |-> "stream_read_failed"])
             /\ reliable' = FALSE
             /\ UNCHANGED <<fixed, fdpos, lastmsg_len>>

(***************************************************************************)
(* nexusrv_msg_decoder_rewind_last (399-413).  When the last message ended *)
(* at the end of the buffer, the buffer that was given up is taken back.   *)
(***************************************************************************)
\* Mutant of TakeBack: the given up buffer is not taken back.
TakeBackInBuffer == pos' = pos - lastmsg_len /\ UNCHANGED <<filled, nread>>

TakeBack == IF pos = 0
               THEN /\ pos' = bufsz - lastmsg_len
                    /\ filled' = bufsz
                    /\ nread' = nread - bufsz
               ELSE /\ pos' = pos - lastmsg_len
                    /\ UNCHANGED <<filled, nread>>

Rewind == /\ pc = "idle"
          /\ lastmsg_len # 0
          /\ TakeBack
          /\ lastmsg_len' = 0
          /\ UNCHANGED <<fixed, fdpos, buffer, pc, reliable, out>>

(***************************************************************************)
(* nexusrv_msg_decoder_lastmsg (387-397): the index in buffer of the first *)
(* byte of the last message; NULL when lastmsg_len is 0.                   *)
(***************************************************************************)
\* Mutant of LastMsg: the end of the message is taken to be pos.
LastMsgBeforePos == pos - lastmsg_len

LastMsg == IF pos # 0 THEN pos - lastmsg_len ELSE bufsz - lastmsg_len

\* The steps of a call in progress.
Step == \/ TryEof \/ TryEmpty \/ TryDecode \/ TryCarry
        \/ TryTooSmall \/ TryError
        \/ \E n \in 0 .. bufsz : Read(n)
        \/ ReadFails

Next == CallNext \/ Rewind \/ Step

\* A call runs to its end: nothing in the library can preempt it for good.
Spec == Init /\ [][Next]_vars /\ WF_vars(Step)

-----------------------------------------------------------------------------
(***************************************************************************)
(* Properties.                                                             *)
(***************************************************************************)
Results == [rc : {"none", "eof", "stream_truncate", "msg_invalid",
                  "buffer_too_small", "stream_read_failed", "garbage"}]
             \cup [rc : {"msg"}, at : Nat]

\* The positions stay within the buffer (msg-decoder.h:39-50).
TypeOK == /\ Cursor!IsFile(file)
          /\ bufsz \in Bufsizes
          /\ src_filter \in Filters
          /\ buffer \in [0 .. bufsz - 1 -> Nat \cup {-1}]
          /\ fdpos \in Nat
          /\ nread \in Nat
          /\ filled \in 0 .. bufsz
          /\ pos \in 0 .. filled
          /\ lastmsg_len \in 0 .. bufsz
          /\ pc \in {"idle", "try", "read"}
          /\ reliable \in BOOLEAN
          /\ out \in Results

\* The first `filled' bytes of the buffer are the bytes of the file from nread
\* on and the descriptor stands right behind them, through every refill, reset
\* and rewind (msg-decoder.c:348-354, 369-378, 405-411); at the end of the file
\* the marker pos == filled == bufsz stands for an empty buffer.
BufferMirrorsFile ==
    IF pos = bufsz THEN nread = fdpos
                   ELSE /\ fdpos = nread + filled
                        /\ \A i \in 0 .. filled - 1 : buffer[i] = nread + i

\* Between calls nexusrv_msg_decoder_lastmsg points at the bytes of the message
\* returned last, also when it ended at the end of the buffer, and
\* nexusrv_msg_decoder_offset is its offset in the file.
LastMsgIsInBuffer ==
    pc = "idle" /\ lastmsg_len # 0 =>
        /\ LastMsg \in 0 .. bufsz - lastmsg_len
        /\ \A i \in 0 .. lastmsg_len - 1 : buffer[LastMsg + i] = Offset + i
        /\ out = [rc |-> "msg", at |-> Offset]

\* The assertions of lastmsg and rewind_last (msg-decoder.c:392, 404-407) hold
\* whenever they can be called.
AssertionsHold ==
    pc = "idle" /\ lastmsg_len # 0 =>
        /\ pos = 0 \/ pos >= lastmsg_len
        /\ pos = 0 => filled = 0 /\ nread >= bufsz

\* The buffered decoder is a cursor over the messages of the file: none is
\* lost, repeated or misread, whatever the size of the buffer
\* (msg-decoder.h:163-182, 197-204).
ImplementsCursor == Cursor!Spec

\* Every call of next returns: refilling and skipping by source come to an end
\* ("No need to fear for infinite recursion", msg-decoder.c:380).
CallsReturn == pc # "idle" ~> pc = "idle"
=============================================================================
