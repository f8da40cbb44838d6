-------------------------------- MODULE Patch --------------------------------
(***************************************************************************)
(* util/patch.c: a message stream is edited in place by a list of          *)
(* commands: seek=, next, show, icnt=.  The message decoder is the cursor  *)
(* of MsgCursor: it hands out the messages in the order of the file from   *)
(* where it was initialized, and counts offsets from there.                *)
(*                                                                         *)
(* A file is a row of bytes, each the nth byte of a message.  A message is *)
(* known by the bytes it takes (size), its I-CNT (NoIcnt: no such field)   *)
(* and the bytes that encoding the other fields takes (rest).              *)
(***************************************************************************)
EXTENDS Integers

CONSTANTS
    Files,              \* the files to edit
    OpenAt,             \* offsets given with the file name (open_seek_file)
    NoIcnt, Values,     \* values of icnt=
    IcntBytes           \* the bytes an I-CNT takes

Message == [size : Nat \ {0}, icnt : Nat \cup {NoIcnt}, rest : Nat \ {0}]
Byte == { b \in [of : Message, nth : Nat] : b.nth < b.of.size }

\* The last byte of a message is marked as such (MSEO).
EndMark(b) == b.nth = b.of.size - 1
Start(f, b) == b - f[b].nth

\* A message starts at o with all its bytes.
Whole(f, o) == /\ o \in DOMAIN f /\ f[o].nth = 0
               /\ \A i \in 0 .. f[o].of.size - 1 :
                    o + i \in DOMAIN f /\ f[o + i] = [of |-> f[o].of, nth |-> i]

\* The byte at b is one of a whole message.
InWhole(f, b) == Whole(f, Start(f, b)) /\ f[Start(f, b)].of = f[b].of

IsFile(f) == /\ \E n \in DOMAIN f : DOMAIN f = 0 .. n
             /\ \A b \in DOMAIN f : f[b] \in Byte /\ InWhole(f, b)

ASSUME PatchAssumption ==
    /\ Values \subseteq Nat /\ NoIcnt \notin Values
    /\ IcntBytes \in [Values -> Nat]
    /\ \A f \in Files : IsFile(f) /\ \A o \in OpenAt : Whole(f, o)

VARIABLES
    file,               \* the file
    fileoff,            \* as in patch()
    base, at, buffered, \* the decoder: where it was initialized, where it is,
                        \* and what it has read of the file
    status,             \* "running", or how the tool has ended
    origin, edits,      \* history: the file as it was, the I-CNTs set, by offset,
    shown, cut,         \* what was shown last, the bytes a short write was to set,
    told, astray        \* see below

tool == <<file, fileoff, base, at, buffered, status>>
history == <<origin, edits, shown, cut, told, astray>>
vars == <<tool, history>>

\* history: the decoder is told where in the file it stands when the file is
\* opened at its start, and by seek=; an edit without that goes astray.
Init == /\ file \in Files /\ fileoff = 0
        /\ base \in OpenAt /\ at = base /\ buffered = file
        /\ status = "running"
        /\ origin = file /\ edits = << >> /\ shown = << >> /\ cut = {}
        /\ told = (base = 0) /\ astray = FALSE

-----------------------------------------------------------------------------
AtEnd == at \notin DOMAIN buffered

\* Bytes up to a last one that are not those of one message decode as anything.
Torn(f, o) == { m \in [size : { n + 1 : n \in DOMAIN f }, icnt : Values \cup {NoIcnt},
                       rest : { n + 1 : n \in DOMAIN f }] :
                  /\ o + m.size - 1 \in DOMAIN f /\ EndMark(f[o + m.size - 1])
                  /\ \A i \in 0 .. m.size - 2 : ~EndMark(f[o + i]) }

\* What nexusrv_msg_decoder_next may return at o.
Decoded(f, o) == IF Whole(f, o) THEN {f[o].of} ELSE Torn(f, o)

\* nexusrv_msg_decoder_offset
cur_off == at - base

\* mutant: the decoder is told where to go on and keeps its buffer
ReinitBuffered(o, f) == /\ fileoff' = o /\ base' = o /\ at' = o /\ UNCHANGED buffered
\* lseek and nexusrv_msg_decoder_init: the decoder reads the file anew.
Reinit(o, f) == /\ fileoff' = o /\ base' = o /\ at' = o /\ buffered' = f

Running == status = "running" /\ UNCHANGED status

\* seek=: to the start of a message, or to the end of the file.
SeekTo(o) == /\ Running
             /\ o \in DOMAIN file => file[o].nth = 0
             /\ Reinit(o, file)
             /\ told' = TRUE
             /\ UNCHANGED <<file, origin, edits, shown, cut, astray>>

\* A command other than seek= reads a message.
Read(m) == status = "running" /\ ~AtEnd /\ m \in Decoded(buffered, at)

\* next: no new start for the decoder.
NextMsg == /\ Running
           /\ \E m \in Decoded(buffered, at) : Read(m) /\ at' = at + m.size
           /\ UNCHANGED <<file, fileoff, base, buffered, history>>

\* show: the decoder starts again at the message shown.
ShowMsg == /\ Running
           /\ \E m \in Decoded(buffered, at) :
                Read(m) /\ shown' = [off |-> cur_off + fileoff, msg |-> m]
           /\ Reinit(cur_off + fileoff, file)
           /\ UNCHANGED <<file, origin, edits, cut, told, astray>>

Idle == [size |-> 1, icnt |-> NoIcnt, rest |-> 1]

Encoded(m, v) == [m EXCEPT !.icnt = v, !.size = m.rest + IcntBytes[v]]

\* mutant: the bytes behind the message are those of the old one
FilledNot(m, v) == [i \in 0 .. m.size - 1 |->
                      [of |-> IF i < Encoded(m, v).size THEN Encoded(m, v) ELSE m, nth |-> i]]
\* The message with another I-CNT in the bytes of the old one: what is left over
\* stays 0xff, which is idle.
Filled(m, v) == [i \in 0 .. m.size - 1 |->
                   IF i < Encoded(m, v).size THEN [of |-> Encoded(m, v), nth |-> i]
                                             ELSE [of |-> Idle, nth |-> 0]]

\* pwrite of the first n of the bytes, at o.
Written(f, o, bytes, n) == [b \in DOMAIN f |-> IF b \in o .. o + n - 1 THEN bytes[b - o] ELSE f[b]]

\* There is a field to set, and room for it.
Fits(m, v) == m.icnt # NoIcnt /\ Encoded(m, v).size <= m.size

EditOf(o, v) == [x \in DOMAIN edits \cup {o} |-> IF x = o THEN v ELSE edits[x]]

\* mutant: the offset within the decoder is left out
SetIcntAtFileoff(v) ==
    /\ Running
    /\ \E m \in Decoded(buffered, at) :
         /\ Read(m) /\ Fits(m, v)
         /\ file' = Written(file, fileoff, Filled(m, v), m.size)
    /\ Reinit(fileoff, file')
    /\ edits' = EditOf(at, v) /\ astray' = (astray \/ ~told)
    /\ UNCHANGED <<origin, shown, cut, told>>
\* icnt=: the bytes of the message are written in the file.
SetIcnt(v) == /\ Running
              /\ \E m \in Decoded(buffered, at) :
                   /\ Read(m) /\ Fits(m, v)
                   /\ file' = Written(file, cur_off + fileoff, Filled(m, v), m.size)
              /\ Reinit(cur_off + fileoff, file')
              /\ edits' = EditOf(at, v) /\ astray' = (astray \/ ~told)
              /\ UNCHANGED <<origin, shown, cut, told>>

\* pwrite writes some of the bytes; that is fatal.
ShortWrite(v) ==
    /\ status' = "short write"
    /\ \E m \in Decoded(buffered, at) :
         /\ Read(m) /\ Fits(m, v)
         /\ \E n \in 0 .. m.size - 1 :
              file' = Written(file, cur_off + fileoff, Filled(m, v), n)
         /\ cut' = at .. at + m.size - 1
    /\ astray' = (astray \/ ~told)
    /\ UNCHANGED <<fileoff, base, at, buffered, origin, edits, shown, told>>

\* The tool exits: no message left, no field to set, no room for it.
Stops(how) == /\ status = "running" /\ status' = how
              /\ UNCHANGED <<file, fileoff, base, at, buffered, history>>
EofOnRead == AtEnd /\ Stops("eof")
NoField == (\E m \in Decoded(buffered, at) : Read(m) /\ m.icnt = NoIcnt) /\ Stops("no icnt")
NoRoom(v) == /\ \E m \in Decoded(buffered, at) :
                  Read(m) /\ m.icnt # NoIcnt /\ Encoded(m, v).size > m.size
             /\ Stops("truncated")
\* Bytes that do not decode, a command that is not known, or a call of the system
\* that returns an error.
Fatal == Stops("error")

Exited == status # "running" /\ UNCHANGED vars

End(f) == { b + 1 : b \in DOMAIN f } \ DOMAIN f

Next == \/ \E o \in DOMAIN file \cup End(file) : SeekTo(o)
        \/ NextMsg \/ ShowMsg
        \/ \E v \in Values : SetIcnt(v) \/ ShortWrite(v) \/ NoRoom(v)
        \/ EofOnRead \/ NoField \/ Fatal \/ Exited

Spec == Init /\ [][Next]_vars

-----------------------------------------------------------------------------
(***************************************************************************)
(* Properties.                                                             *)
(***************************************************************************)
\* The file keeps its length and ends with the end of a message, whatever was
\* written to it.  However often messages are edited it stays a row of whole
\* messages; after a short write (patch.c:88-89) all are whole except the one
\* that was being written.  Edits that went astray may leave pieces.
FramingKept ==
    /\ DOMAIN file = DOMAIN origin
    /\ \A b \in DOMAIN file : b + 1 \notin DOMAIN file => EndMark(file[b])
    /\ ~astray => \A b \in DOMAIN file \ cut : InWhole(file, b)

\* An edit changes the message that was read and no other, through any chain of
\* seek=, next and show (patch.c:70, 85, 92): each edited message is in its place
\* with its new I-CNT, unless it was cut short, and every byte of the others is
\* what it was.
EditsInPlace ==
    /\ \A o \in DOMAIN edits \ cut : Whole(file, o) /\ file[o].of.icnt = edits[o]
    /\ \A b \in DOMAIN file \ cut :
         Start(origin, b) \notin DOMAIN edits => file[b] = origin[b]

\* So it is when the file was opened at its start, and when it was opened at an
\* offset and a seek= came before the first edit.
EditsLand == ~astray => EditsInPlace

\* What is shown is in the file, at the offset shown, edits included
\* (patch.c:71-74, 92-98), under the same condition.
ShownIsCurrent == [][shown' # shown /\ told => shown'.off \in DOMAIN file
                           /\ shown'.msg \in Decoded(file, shown'.off)]_vars
=============================================================================
