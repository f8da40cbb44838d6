------------------------------ MODULE MsgCursor ------------------------------
(***************************************************************************)
(* What the message decoder promises to its caller: a cursor over the      *)
(* messages of a trace file.  A call in progress passes the messages of    *)
(* other sources one by one and then delivers the message at the cursor,   *)
(* the end of the file, or an error.  Buffers, refills and byte positions  *)
(* inside a buffer do not appear.                                          *)
(*                                                                         *)
(* A file is a record: `size' bytes, the offsets `starts' at which its     *)
(* messages begin, the length and the source of each, and the set `bad' of *)
(* those that cannot be decoded.  The last message may be cut short by the *)
(* end of the file.                                                        *)
(***************************************************************************)
EXTENDS Integers

CONSTANT None      \* no message

VARIABLES file,      \* the trace file, never changed
          filter,    \* the source asked for, negative for all
          capacity,  \* the longest message the caller's buffer can hold
          cur,       \* file offset of the next message
          last,      \* offset of the message a rewind would return to
          pending,   \* a call of next is in progress
          reliable,  \* every read so far delivered all it could
          out        \* result of the last call

cursorVars == <<file, filter, capacity, cur, last, pending, reliable, out>>

IsFile(f) ==
    /\ f.size \in Nat
    /\ f.starts \subseteq 0 .. f.size - 1
    /\ f.len \in [f.starts -> Nat \ {0}]
    /\ f.src \in [f.starts -> Nat]
    /\ f.bad \subseteq f.starts
    /\ 0 \in f.starts \cup {f.size}
    /\ \A s \in f.starts : \/ s + f.len[s] \in f.starts \cup {f.size}
                           \/ s + f.len[s] > f.size

\* The whole message at s is in the file, and it can be decoded.
Whole(f, s) == s \in f.starts /\ s + f.len[s] <= f.size
Decodable(f, s) == Whole(f, s) /\ s \notin f.bad

Wanted(f, s, src) == src < 0 \/ f.src[s] = src

Init == /\ IsFile(file)
        /\ filter \in Int
        /\ capacity \in Nat \ {0}
        /\ cur = 0
        /\ last = None
        /\ pending = FALSE
        /\ reliable = TRUE
        /\ out = [rc |-> "none"]

Begin == /\ ~pending
         /\ pending' = TRUE
         /\ last' = None
         /\ UNCHANGED <<file, filter, capacity, cur, reliable, out>>

\* A message of another source is passed over.
Skip == /\ pending
        /\ Decodable(file, cur)
        /\ ~Wanted(file, cur, filter)
        /\ cur' = cur + file.len[cur]
        /\ UNCHANGED <<file, filter, capacity, last, pending, reliable, out>>

Deliver == /\ pending
           /\ Decodable(file, cur)
           /\ Wanted(file, cur, filter)
           /\ cur' = cur + file.len[cur]
           /\ last' = cur
           /\ pending' = FALSE
           /\ out' = [rc |-> "msg", at |-> cur]
           /\ UNCHANGED <<file, filter, capacity, reliable>>

\* The call ends without a message: the cursor stays.
Fail(rc) == /\ pending
            /\ pending' = FALSE
            /\ out' = [rc |-> rc]
            /\ UNCHANGED <<file, filter, capacity, cur, last>>

\* The end of the file, or what an unreliable descriptor made look like it.
Eof == /\ Fail("eof")
       /\ cur = file.size \/ ~reliable
       /\ UNCHANGED reliable

Truncated == /\ Fail("stream_truncate")
             /\ cur \in file.starts
             /\ cur + file.len[cur] > file.size \/ ~reliable
             /\ UNCHANGED reliable

Undecodable == /\ Fail("msg_invalid")
               /\ cur \in file.bad
               /\ UNCHANGED reliable

TooSmall == /\ Fail("buffer_too_small")
            /\ cur \in file.starts
            /\ file.len[cur] > capacity
            /\ UNCHANGED reliable

ReadFailed == Fail("stream_read_failed") /\ reliable' = FALSE

\* A read delivered fewer bytes than the file still had.
ShortRead == /\ pending
             /\ reliable' = FALSE
             /\ UNCHANGED <<file, filter, capacity, cur, last, pending, out>>

Rewind == /\ ~pending
          /\ last # None
          /\ cur' = last
          /\ last' = None
          /\ UNCHANGED <<file, filter, capacity, pending, reliable, out>>

Next == \/ Begin \/ Skip \/ Deliver
        \/ Eof \/ Truncated \/ Undecodable \/ TooSmall \/ ReadFailed
        \/ ShortRead
        \/ Rewind

Spec == Init /\ [][Next]_cursorVars
=============================================================================
