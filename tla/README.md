# A TLA+ verification of libnexus-rv

libnexus-rv decodes the Nexus trace that RISC-V trace encoders write: a byte
stream of messages that say how many instructions were retired, which branches
were taken (TNT bits) and where indirect branches went. This directory holds
the TLA+ model of the library, of the replay tool built on it and of two smaller
tools, the TLC runs that check it on small instances and the proofs TLAPS checks
for instances of every size.

Paths below are relative to the repository (`lib/trace-decoder.c`);
`PROJECT.json` maps every definition of a module to the lines it models.

## The system

| component | state | operations |
|---|---|---|
| message codec (`lib/msg-encoder.c`, `lib/msg-decoder.c:90-328`) | none; a bit offset and the bytes of the current field during a call | `nexusrv_msg_encode`, `nexusrv_msg_decode`, `nexusrv_sync_forward`, `nexusrv_sync_backward` |
| message stream (`lib/msg-decoder.c:330-412`, `msg-decoder.h`, `lib/misc.c`) | buffer, `pos`, `filled`, `nread`, `lastmsg_len`, the descriptor's position | `nexusrv_msg_decoder_next`, `_rewind_last`, `_lastmsg`, `_offset` |
| trace decoder (`lib/trace-decoder.c`) | one buffered message, the accumulated `res_icnt`, `res_tnts`, `res_hists`, what of them is consumed, address, time, return stack | `sync_reset`, `try_retire`, `next_tnt`, `next_indirect`, `next_sync`, `next_stop`, `next_error`, `push_call`, `pop_ret` |
| HIST array (`lib/hist-array.cpp`) | a deque of HIST elements | push, front, pop, clear |
| return stack (`return-stack.h`) | a growing array used as a stack of at most `max` callsites | init, push, pop, clear |
| message types (`msg-types.h`) | none | predicates on messages |
| hardware configuration (`lib/msg-decoder.c:12-88`) | `nexusrv_hw_cfg` | parse a string |
| text form (`lib/msg-printer.c`, `lib/msg-reader.c`, `util/dump.c`, `util/assemble.c`) | none | print and read messages |
| replay (`util/replay.cpp`, `util/inst.cpp`) | the place it stands at, the blocks fetched so far | `fetch` and `retire` of a block, one per kind; the loop of `replay()` |
| patch (`util/patch.c`) | the file, two offsets, the stream decoder | `seek=`, `next`, `show`, `icnt=` |
| split (`util/split.c`) | output files | copy the messages of each source |
| memory images (`util/vm.cpp`, `util/objfile.cpp`, `util/sym.cpp`, `util/linux.cpp`) | maps of address ranges | look up code and symbols |
| trigger module (`contrib/p550/rvtrigger`) | resolved addresses, a buffer per CPU shared with the firmware, the firmware's triggers | init, exit, the hotplug callbacks of a CPU |

Interaction is by plain calls: replay calls the trace decoder, which calls the
message stream (`nexusrv_msg_decoder_next`, and `rewind_last` to give a message
back), which reads the descriptor and calls the codec. The kernel module is
called back by the hotplug core and calls the firmware. There are no threads.
What is hard is the state that lives between the calls:

* The stream decoder keeps half a message at the end of its buffer, moves it to
  the front, refills, resets the buffer when a message ends at its end, and
  still has to be able to take the last message back.
* One message of the trace is consumed by many calls: its instructions in
  portions of the caller's choice, its TNT bits one by one, its event last, and
  all of that `hrepeat + 1` times. ResourceFull messages accumulate in front of
  it and have to be consumed first. A branch needs a look-ahead of one message.
* Three functions of the caller are expected in an order that the stream
  prescribes; the caller learns it from the event `try_retire` reports.
* Reads may be short or fail, the trace may end anywhere, allocations may fail,
  messages may be unsupported; the decoder is expected to go on afterwards.
* Replay knows what the hart did from two sources, the program and the trace, and
  decides from the program which of the trace's events it needs next. Encoder and
  replay each keep a count of open calls, and they have to agree.
* Every call to the firmware may be refused, in the middle of setting up one CPU
  or of taking it down, and what was done before has to be undone.

`PROJECT.json` lists these as hazards, each with its line and the properties
that would notice it going wrong.

What makes each component correct:

* codec: what is encoded is decoded; a cut message asks for more bytes; decoding
  and resynchronizing agree on where messages end; no stale field is read.
* message stream: its results are those of a cursor that walks over the
  messages of the file, for every buffer size, with rewinds and filters.
* trace decoder: instructions, TNT bits, time and addresses of the messages
  come out exactly once and in order; events can be taken; no assertion fails;
  the trace is consumed.
* return stack: a stack of bounded size, however the array grows.
* replay: what it shows is the execution the trace was made of, all of it, it finds
  the events it needs in a trace of the program it has, and it comes to an end (but
  at a message without event, see `MakesProgress`).
* patch: an edit changes the message that was read and nothing else.
* trigger module: the firmware never holds freed memory; CPUs that are up have
  their triggers, CPUs that are not have none that fires.

## Modules

**`BoundedStack`, `ReturnStack`, `MCReturnStack`, `ReturnStackProofs`.**
`BoundedStack` is what the return stack promises: a sequence of at most `Max`
addresses; a push on a full stack is ignored, a push may fail for want of
memory, a pop of an empty stack says so. `ReturnStack` is the structure of
`return-stack.h`: `entries` with `size` cells, `used`, `end`, one action per
outcome of push (`PushFull`, `PushRoom`, `PushGrow`, `PushNoMem`), of pop, and
clear. New cells hold `Junk`, so reading one would show. The refinement maps the
`used` cells in front of `end` to the sequence.

**`MsgCursor`, `MsgStream`, `MCMsgStream`, `MsgStreamProofs`.** A file is the set of offsets where
messages start, with lengths, sources and the ones that do not decode; decoding
at an offset inside the bytes at hand gives the message, asks for more or fails,
which is what `MsgCodec` shows of the codec. `MsgCursor` is the promise: a
position that steps over messages and back. `MsgStream` is
`nexusrv_msg_decoder_next` with its `try_again` loop, one action per branch: end
of file, empty buffer, decode (and skip by filter), carry and refill, too small
a buffer, undecodable bytes; `Read` and `ReadFails` are `read_all`. The content
of the buffer is the file offset of every byte, so a byte moved to a wrong place
shows. `Rewind` and `LastMsg` are the other operations.

**`MsgCodec`, `MCMsgCodec`, `MsgCodecProofs`.** A byte is a mark (`mseo`) and a set of bits
(`mdo`); a field is the set of its bits. `nexusrv_msg_encode` and
`nexusrv_msg_decode` are lists of steps, one per macro of the source (`PACK_…`,
`UNPACK_…`, `CONSUME_BYTES`) in the order of the switch statements;
`EncodeSteps`, `DecodeBody` and `DecodeMore` give the lists, and one action does
each kind of step. The decoder is called on every prefix of the buffer.
`Representable` is what makes a message one the fields of the stream can hold.

**`NexusMsg`, `TraceDecoder`, `MCTraceDecoder`, `TraceConservationProofs`, `TraceEventProofs`.**
`NexusMsg` has the messages and predicates of `msg-types.h`. `TraceDecoder` has
the fields of `struct nexusrv_trace_decoder` under their names. A call is a
sequence of steps (`op` is the function, `pc` the place in it: `fetch`,
`lookahead`, `got`, `loop`, `drain`, `sync`, `error`, `owner`), because each may
read a message and each read may fail. `assert()` is an abort that sets
`aborted`. The message stream is a cursor whose messages are chosen when they
are read, so every stream over the given messages is explored; a message given
back waits in `ahead`. `res_hists` is a sequence: the HIST array.

Constants select who is at the two ends. `WellFormed` restricts the stream to
what an encoder sends (`EncoderRules`, external: a repeat count or ownership
follows its branch, an I-CNT ResourceFull is followed by TNT bits or an error).
`Disciplined` restricts the caller to one that takes the events `try_retire`
reports by the functions the header names for them (`Takes`), `next_sync` for the
sync of a branch included, and takes the branch when that is refused; otherwise
any function may be called at any time. `Faults` lets reads and allocations fail. `TornEnd` lets the stream end
right behind a branch. History variables `owedIcnt`, `owedTnts` and `due` state
what the messages read so far promise.

**`InstBlock`, `TracedHart`, `Playback`, `Replay`, `MCReplay`, `ReplayProofs`.** `InstBlock` is
`util/inst.cpp`: `itype` classifies an instruction with the functions of
`inst-helper.h`, `fetch` cuts the block that starts at an address, and
`retire_…` retires a block against the trace with one of three outcomes: it is
retired and the hart goes on somewhere, an event is thrown
(`rv_inst_exc_event`), or it fails (`rv_inst_exc_failed`). The trace decoder is
seen from its caller here, as functions on a record; what `TraceDecoder` checks
(instructions, bits and events come out once and in order) allows a segment of
the trace to stand for a message and the ResourceFull messages in front of it.
`Replay` is the loop of `replay()`, an iteration per step: `SyncReset`,
`RetireBlock`, `RetireEvent`, `RetireFails`, and `RetireBlind` where no code is
known. `TracedHart` is external: a hart that executes a program and an encoder
that writes the trace of it, in branch (BTM) or history (HTM) mode, with implicit
returns by counting (`contrib/p550/README.md:6`), traps, SYNCs, stops, lost and
unsupported messages, and messages that are no event at all (`Quiet`: Idle, ICT, a
RepeatBranch or Ownership that belongs to no branch). `try_retire` reports None for
the last kind and no call retires it; an iteration of the loop may then leave all as
it was, which the variable `odd`, flipped in every iteration, makes a step of its
own. `Copes` names the traces that the code is known not to cope
with; the constant `Lifted` lets them in again, and each then violates
`NeverMisled` or `ShowsExecution`. Messages without event are let in where replay has
no code, where it stays for ever (`GoesRound`, which `MakesProgress` excepts); of the
others ("quiet") the code does not cope with. `Playback` is what replay promises: half word
by half word it shows places the hart was at, in their order; where it has no
code it may skip, and where messages were lost it gives up until the next SYNC.
`Replay` implements it with the number of half words shown and the place it
stands at.

**`RvTrigger`, `MCRvTrigger`, `RvTriggerProofs`.** The kernel module, one step per firmware call, each
of which may be refused. `Alloc` to `Read` are `rvtrigger_cpu_online`, `Disable`,
`Uninstall` and `Release` are `rvtrigger_cpu_offline`, `Releases` is
`__rvtrigger_cpu_release` at the end of both. The hotplug core (external) loads
the module CPU by CPU, undoes that when one fails, takes CPUs up and down, and
removes the module. Triggers somebody else left in the firmware exist from the
start. `Parsed` is what the kernel's `kstrtoul` returns, 0 or an error: a name
becomes the address `EINVAL`, and a number is stored through the NULL the module
passes (`LoadFaults`), after which the module is stuck. `lost`, `uncleared` and
`unstopped` are history: which firmware refusals excuse a leak or a trigger.

**`Patch`, `MCPatch`, `PatchProofs`.** The commands of `nexusrv-patch` on a file of
bytes, each the nth byte of a message. `icnt=` writes bytes, so that an edit at a wrong
place, or cut short (`ShortWrite`), leaves pieces of messages, which may decode as
anything that ends at the next end mark (`Torn`). The stream decoder is the cursor of
`MsgCursor`, with the content it has read ahead in `buffered`, so reading something
stale would show. `OpenAt` are the offsets given with the file name; the history
`told` says whether the decoder knows where it stands (the file was opened at 0, or
a seek= came), `astray` whether an edit was made without that.

## Runs

| run | what it checks |
|---|---|
| `ReturnStack` | the assertions, and that the array implements `BoundedStack`, for maxima 0, 1, 2, 3 and 5 with two initial cells: never allocated, never grown, grown to a size that is no power of two, grown twice |
| `MsgStream` | `BufferMirrorsFile` (every byte in the buffer is the byte of the file its position says), `LastMsgIsInBuffer`, the assertions, that the decoder implements `MsgCursor`, and that every call returns |
| `MsgCodec` | `RoundTrip`, `PrefixTruncates`, `EndsAtMark`, `FieldsAreFresh` |
| `TraceDecoderPlain` | branch and history trace with additive time, branches that can be repeated adding none: `EventsCanBeTaken` (no call is refused but `next_sync` on the sync of a branch, and the branch can be taken then), `IcntConserved`, `AddressConserved`, `TimeConserved`, the assertions, and `TraceIsConsumed` |
| `TraceDecoderSifive` | history trace with the SiFive codes: `TntsConserved`, `TntsInOrder`, `TimeConserved` (exclusive-or), the assertions |
| `TraceDecoderAny` | any stream, any caller, failing reads and allocations: `TypeOK` and `IcntAssertionsHold`, which need nothing of either end |
| `Replay` | every trace of a small program that `Copes` admits is replayed: `ShowsExecution` (replay implements `Playback`), `NeverMisled` (no event is missing or refused), `AllShown` (nothing traced is left out), `MakesProgress` (every iteration takes something off the trace, but at a message without event where replay has no code) |
| `RvTrigger` | `FirmwareMemoryIsLive`, `MemoryIsAccountedFor` (a leak only where the firmware kept the memory), `UpMeansTriggered`, `DownMeansSilent`, and `LoadEnds` |
| `Patch` | `FramingKept`, `EditsLand`, `ShownIsCurrent`, for files opened at 0 and at their second message, with short writes |

Three runs show where the code departs from what its own documentation or
assertions say; `PROJECT.json` quotes the lines under `findings`.

| run | what it shows |
|---|---|
| `ViolationUndrained` | an I-CNT ResourceFull followed by an event without TNT bits leaves an empty element in `res_hists`, and taking the event aborts |
| `ReplayDeep` | two nested calls with a return stack and an encoder counter of one: the stack kept the outer callsite, the encoder is silent about the inner return, and replay stands where the hart never was |
| `ViolationSymbols` | the trigger module loaded with names: the triggers are at `-EINVAL`, not at the functions |

### Bounds

* Trace streams have up to four (`TraceDecoderAny`), five (`TraceDecoderPlain`) or
  six messages (`TraceDecoderSifive`) of 11 to 16 kinds. Five allow a SYNC,
  two ResourceFull messages, a branch with its repeat count, and what follows.
  `UINT32_MAX` is 15 or 31 and `MSG_ICNT_MAX` 3: two messages fit and five do
  not, so the overflow checks are reached. `HIST_BITS` is 3, addresses have 3
  bits that are extended to 4. Requests of 1, 2 and 15 retire less than, as much
  as and more than one message.
* Files have up to three messages of one to three bytes; buffers of one to five
  bytes are smaller than, equal to and larger than one message and never hold
  three of the longest. Two sources and a filter for one of them.
* Codec words have 8 bits and 7 for the 32 bit fields against 6 bits per byte,
  so fields end before, at and behind the end of a byte; four configurations
  shift every field (SRC of 0, 2 and 3 bits, with and without time and VAO).
  Buffers of 3 and 10 bytes make messages fail to fit and fit, and hold all ones
  marked as ended messages before, which any bit not written would show. The
  bytes decoded without having been encoded are all combinations of marks over
  four bytes behind every TCODE.
* The program of `Replay` has every kind of block, compressed and not, code
  outside the images, an instruction capstone does not know, and a trap handler.
  Executions have up to five half words and four segments (`MaxIcnt`,
  `MaxSegments`): enough for a call, its return and what follows, with a trap, a
  SYNC or a loss anywhere in between. Two nested calls, a stack of two, encoder
  counters that saturate at one and at two. `ReplayDeep` takes seven half words
  for two calls and a return.
* `RvTrigger` has two CPUs (the last one online cannot go), two triggers, two
  buffers (so a leak makes a later allocation fail), and lists of addresses that
  names and numbers that use all triggers, leave one free, fault, or ask for too many
  (all names resolve to the same address, which is what the code does).
* Files of `Patch` are opened at 0 and at 2 and have messages without an I-CNT, idle bytes, messages with room
  to spare and without, and one whose re-encoding takes more bytes than it has.

### Fairness

`CallsReturn` assumes that the steps of a call are taken (weak fairness of its
own actions): there is one thread and `read` returns. Short reads and read
errors may happen any number of times. `TraceIsConsumed` assumes that a call
runs to its end and that the caller makes another call while the trace goes on,
which is replay's loop (`util/replay.cpp:142-349`). `LoadEnds` assumes that a
callback runs to its end and that the hotplug core finishes what it has begun
(setting up or removing the module on all CPUs); nobody is assumed to take CPUs up
or down, or to load the module. `MakesProgress` needs no fairness: it bounds the
loop by what is left of the trace.

## Proofs

TLAPS checks the following for every value of the constants, under the named
assumptions of the modules (`RetStackAssumption`, `StreamAssumption`,
`CodecAssumption`, `DecoderAssumption`, `ProgramAssumption`, `HartAssumption`,
`TriggerAssumption`, `PatchAssumption`), which TLC evaluates
on every run. They say what kind of thing a constant is (a file is a row of
messages, a message has a TCODE and fields in their ranges, a program has
instructions that do not overlap, direct jumps have one target and execution does
not run off its end) and, for the trace decoder, `2 * MSG_ICNT_MAX <= UINT32_MAX`. Each inductive invariant was an
invariant of TLC runs on the same instances before it was proved.

| module | theorem | property | hypotheses besides `Spec` |
|---|---|---|---|
| `ReturnStackProofs` | `ReturnStackTypeOK`, `ReturnStackAssertions`, `ReturnStackRefinement` | `TypeOK`, `AssertionsHold`, `ImplementsBoundedStack` | none |
| `MsgStreamProofs` | `PositionsInBuffer`, `BufferAlwaysMirrorsFile`, `StreamAssertionsHold`, `LastMsgAlwaysInBuffer`, `StreamRefinesCursor` | `TypeOK`, `BufferMirrorsFile`, `AssertionsHold`, `LastMsgIsInBuffer`, `ImplementsCursor` | none |
| `MsgCodecProofs` | `CodecStaysInBuffer`, `DecodingEndsAtMark`, `DecodedFieldsAreFresh` | `TypeOK`, `EndsAtMark`, `FieldsAreFresh` | none |
| | `EncodedIsDecoded`, `CutMessagesTruncate` | `RoundTrip`, `PrefixTruncates` | `Representable` |
| `TraceConservationProofs` | `TraceDecoderTypeOK`, `TraceDecoderIcntAssertions` | `TypeOK`, `IcntAssertionsHold` | none: any stream, any caller, any failure |
| | `AddressAlwaysConserved` | `AddressConserved` | none |
| | `IcntAlwaysConserved` | `IcntConserved` | `~TornEnd`, `Disciplined` |
| | `TimeAlwaysConserved` | `TimeConserved` | `QuirkSifive`, or `~TornEnd` and no repeat counts |
| | `TntsAlwaysConserved` | `TntsConserved` | `~TornEnd`, `Disciplined`, `[]TntsFit` |
| | `TntsAlwaysInOrder` | `TntsInOrder` | `~TornEnd`, `[]TntsFit` |
| `TraceEventProofs` | `ConformingNeverAborts`, `ConformingEventsTaken` | `AssertionsHold`, `EventsCanBeTaken` | `Conforming`, `[]TntsFit` |
| `RvTriggerProofs` | `TriggerTypes`, `FirmwareMemoryAlwaysLive`, `MemoryAlwaysAccountedFor`, `UpAlwaysTriggered`, `DownAlwaysSilent` | `TypeOK`, `FirmwareMemoryIsLive`, `MemoryIsAccountedFor`, `UpMeansTriggered`, `DownMeansSilent` | none |
| `ReplayProofs` | `EverythingShown`, `LoopAdvances` | `AllShown`, `MakesProgress` | none |
| `PatchProofs` | `FramingAlwaysKept`, `EditsAlwaysLand`, `ShownAlwaysCurrent` | `FramingKept`, `EditsLand`, `ShownIsCurrent` | none |

**Return stack.** For every maximum, initial capacity and set of addresses.
`TypeOK` alone is not inductive: a push at `end = size` must be known to go
through an enlargement. The invariant adds that `end = used`, that the used cells
hold addresses and that the array is either at its maximum or not empty.
`end = used` also shows that the ring arithmetic of push and pop never wraps. The
refinement follows step by step from `PushAppends` and `PopShortens`.

**Message stream.** For every file, buffer size and filter, with or without short
reads and read errors. Added to `TypeOK` and `BufferMirrorsFile`:

* `Aligned`: the cursor stands at a message or at the end of the file. The code
  knows nothing of it; a carry or a reset that was off by one would break it.
* `EofMark`: `pos == bufsz` means that a read found nothing, never that a message
  ended there. This is what the reset of the buffer behind a message that ends it
  (`msg-decoder.c:351-354`) is for.
* `ShortAtEnd`: where `read` is reliable, a buffer that is neither full nor empty
  was cut by the end of the file, so a message cut there is cut for good.
* `ReadStart`: a refill begins with the unread tail at the end of a full buffer,
  or with an empty one.
* `LastKept`: the message returned last lies before `pos`, or ended the buffer
  that was given up and whose bytes are all still there, so that `lastmsg` and
  `rewind_last` find it.

`StreamRefinesCursor` maps each branch of the `try_again` loop to a step of
`MsgCursor` or to a stutter; the safety part is all there is to prove, because
`MsgCursor` states no fairness (that a call returns is `CallsReturn`, a run's).

**Message codec.** For every number of bits per byte, width of the words,
configuration, message and content of the buffer, the bytes an encoder never
writes included. The invariant is about the steps that are left to do:

* `Shape`: they end with the one step from which more follows (a TCODE, a code,
  the I-CNT of a ProgTraceCorrelation, CKDATA0, the time) and have no other such
  step, or the end of the message has been reached. So no way through the switch
  statements gets past the end of a message or stops short of it.
* `MarkOK`: among the bytes taken the last one alone may carry the end mark, and
  `eom` says whether it does.
* `Fresh`: every field the message needs, by its TCODE and code, is set or is read
  by one of the steps left.

`MoreCloses` and `BodyOK` show that the lists of the switch statements have this
shape and read these fields, from the fact that the TCODEs are different numbers
(`BitsDiffer`). Positions inside the buffer follow from the room checks of the
macros and from rounding (`BytesOK`).

**Message codec: encoding and decoding are inverse.** For every message that is
`Representable`: no field has more bits than it is sent with, and an ICT with CKDF
0 has no CKDATA1, although the encoder writes one (noted below). TLC evaluates this
on the instance (`MCMsgCodec`). The invariant `Carried` says by phase what holds of
the buffer:

* `Encoding`, `Encoded(off)`: step i of the plan put its bits at `off[i]` up to
  `off[i + 1]`, its value in front and zeros behind (`Holds`); a byte has a mark
  exactly where a step of variable width ends, and the end mark is on the last one
  alone. Every kind of step reads one byte that is perhaps partly filled, and has
  to leave the bits and marks in front of it (`Laid`).
* `Decoding`: the steps left to the decoder `Follow` the plan from step j, the bits
  it looks at begin where step j put its own, and each field of a step in front of j
  is the message's. `PlanFits` shows, kind of message by kind of message, that the
  list of the decoder follows the list of the encoder, which the two switch
  statements have to agree on without sharing a line. The decoder may go past a
  second CKDATA that was sent for nothing, and past a time of 0 (`TrailStep`).
* `Result`: the message is complete and all its fields are there, or bytes are
  missing and the answer is that it is truncated.

A prefix ends before the end mark, because the mark is on the last byte alone; so a
decoder that would look at a field which is not there finds no byte to take.

**Trace decoder: types and I-CNT.** For every stream, every caller (including one
that ignores events or calls functions out of order) and every failure of reads
and allocations. `IInv` is the conjunction of

* `DataOK`: messages and elements have at most `HIST_BITS` digits;
* `ControlOK`: what each place in a call knows (a message is present behind
  `got` and at `lookahead`; outside `sync_reset` the decoder is synchronized);
* `IcntOK`: a partly consumed message is not a ResourceFull, `res_icnt` is 0
  then, and `consumed_icnt` is at most the message's I-CNT; `res_icnt` has room
  for one more message unless the last call reported an overflow;
* `TntOK`: `consumed_tnts` is below `HIST_BITS`, so its 8 bits suffice;
* `IcntAssertionsHold` itself.

`DataStep`, `ControlStep`, `TntStep` and `IcntStep` prove each conjunct
preserved from all of them, action by action.

**Trace decoder: conservation.** What is owed is compared with what the decoder
holds while decoding is under way (`Sound`) for the message that counts
(`Counted`: buffered, its repetitions known, not a ResourceFull). The lemma that
every step is one of `Kinds` (nothing changes, a message begins to count, a
ResourceFull is accumulated, instructions are consumed, an empty element is
dropped, a bit is delivered, the message is retired, decoding restarts) reads the
actions once; the theorems about addresses, instructions, time and TNT bits then
look at the kinds only.

* Addresses (`DueOK`, `AddrOwed`): a U-ADDR is pending until its indirect branch
  is retired for the first time. No hypothesis is needed.
* Instructions (`IcntOwed`): `Disciplined` is needed because a caller that asks
  `next_error` at the wrong time leaves a ResourceFull buffered without being
  accumulated; `DInv` (`OpOK`, `Heeds`, `ResHeld`) shows that a caller that heeds
  events never gets there. `~TornEnd` is needed because at the end of the stream
  the repeat count is taken from a message nobody wrote.
* Time (`Times`): there is a row of times, one per accumulated element, that leads
  from the current time to the one that is due. A delta that is added is added
  again in every repetition (`trace-decoder.c:92-99`), so repetitions are left out
  there; exclusive-or deltas are used up by the first execution.
* TNT bits: `owedTnts` is the part not yet delivered of a row of bits in which
  every element of `res_hists` and the message have their place (`Offsets`,
  `Promised`), `repeat` copies each (`Runs`); `PartUsed` says where the bits
  already delivered of the first one are. `TntsFit`, that less than 2^32 bits are
  pending, is a hypothesis on the behaviour: no check of the code ensures it (see
  the repeat counts of codes 8 and 9 below).

**Trace decoder: assertions and events.** `Conforming` is a stream within the
encoder's rules, a caller that takes the events it is told of, no end right behind
a branch, and `InLimits`: branches and messages with TNT bits are such that
`check_msg` accepts them. Reads and allocations may fail. `InLimits` is needed
because a message `check_msg` refuses is handed to the caller, and what belongs
to it (a repeat count, the bits behind an I-CNT ResourceFull) then meets a
decoder that does not expect it. On top of all the invariants above:

* `StreamOK`: what the look-ahead leaves. A message given back was the last to
  arrive and is no RepeatBranch; an Ownership waits only for its indirect branch;
  what is buffered has an event, is an error or a ResourceFull.
* `ResOK`: an element without TNT bits at the end of `res_hists` (`Loose`) means
  that the encoder still owes TNT bits or that the message with them is buffered.
  This is what keeps `res_hists` empty when the message's event comes up, and
  what `ViolationUndrained` shows to be necessary.
* `EventOK`: what `try_retire` reported stays true until the caller takes it:
  nothing is left in front of the event, also across calls that fail or report an
  unsupported message in between.

`StreamStep`, `ResStep` and `EventStep` preserve them; `NoAbort` shows that no
step from such a state sets `aborted`.

**Replay.** For every program and execution, whatever the encoder reports, with the
restrictions of `Copes` or without them. `Good` says of the decoder's segments that
only the last one is the end of the trace, that a segment with an unsupported message
ends where the next one begins (`Joined`: nothing of the trace lies in between), and
that the last one ends at `from`, the number of half words the encoder had reported.
`TraceOK` and `Pending` say the same of the trace while the hart writes it. Each call
of the decoder keeps `Good` and leaves no more than there was (`NoMore`), and each way
to retire a block that succeeds leaves less (`Less`), by the length of the trace and
then by what is `Left` of the segment in front (`Sane`). A failure says what is in
front: the end, or an unsupported message, and taking that leaves less too. An event
that is thrown or found is one that can be taken, or there is none and the segment in
front is `Quiet` (`HandleOK`); where the loop has a block that ends it, and where it
has none and instructions were in front, these are gone. What remains is `GoesRound`,
which `MakesProgress` names and the run `Replay` reaches. Hence
`LoopAdvances`, and at the end of the trace, where the last segment alone is left,
`EverythingShown`.

**Trigger module.** For any number of CPUs, buffers and triggers and whatever the
firmware refuses: `Control` (a CPU in `rvtrigger_cpu_online` is not up yet, one in
`_offline` still is), `Memory` (a buffer belongs to one CPU, and the firmware's
pointer of one CPU is never another's buffer, which is what makes freeing it
safe), `Triggers` (what is installed and enabled at each step of a callback, and
which refusals excuse what).

**Patch.** For every file, every offset it is opened at, every list of commands and
every short write. `Kept`: the file keeps its length and its last byte ends a message,
even when an edit goes astray, because what is written ends no later than the message
read (`fileoff <= base`) and itself ends with an end mark. `Placed`: while the tool
runs the decoder has read the file as it is, and once told where it stands
`base = fileoff`, so `cur_off + fileoff` is the offset of the message shown. `InPlace`,
while no edit has gone astray: bytes outside an edit cut short are those of whole
messages (`InWhole`), edited messages are there with their new I-CNT, and all others
are as they were. The row of messages is kept because two whole messages that share a
byte are the same (`Apart`), and the bytes written are a message and idle bytes, as
many as the message replaced had (`FilledFacts`, `WriteKeepsRow`).

**Checked by TLC only.** Liveness under fairness (`CallsReturn`,
`TraceIsConsumed`, `LoadEnds`) is out of the prover's reach. `NeverMisled` and
`ShowsExecution` compare what replay does with the execution the trace was made of,
which was recorded before: an invariant for them has to keep the whole history of the
hart and its encoder (the calls open and the calls counted at every instruction), and
to follow the program through all the instructions of a block at once. They stay with
the run. What a recursive definition computes is an induction over data, which the
provers cannot instantiate; the proofs get by with least elements (`LeastNat`, from the
library's well-founded order of the naturals).

## Noted while modelling

Not the subject of a run; each is outside the streams or callers of the passing
runs, as stated.

* Without `quirk_sifive`, a repeated branch adds its time delta in every
  repetition (`trace-decoder.c:98`); the header says it is divided
  (`trace-decoder.h:222-224`). The branches of `TraceDecoderPlain` that can be
  repeated carry no time; with one, `TimeConserved` fails.
* `next_sync` refuses the sync of a branch (`trace-decoder.c:466`), which the header
  says it retrieves, discarding the branch (`trace-decoder.h:36-39`, `43-47`). The
  caller of `TraceDecoderPlain` tries it, and `EventsCanBeTaken` names the refusal.
* `sync_reset` turns an IndirectBranchSync into a ProgTraceSync
  (`trace-decoder.c:297`); an OWNERSHIP behind it has no event, is never retired,
  and `try_retire` then retires nothing (`trace-decoder.c:363`). Idle, ICT and a
  RepeatBranch without a branch stay buffered the same way. `EncoderRules` excludes
  them in the runs of the trace decoder that need events. Replay has no case for the
  event None (`replay.cpp:234-327`): where it has no code it goes round for ever,
  although it is to replay the trace (`README.md:51`); in front of an ecall None is
  thrown (`inst.cpp:236`) and its assertion fails (`replay.cpp:179`), which the
  status `aborted` stands for when `Lifted` has "quiet".
* `next_indirect`, `next_sync` and `next_stop` abort on a buffered ResourceFull
  (`trace-decoder.c:161`) where the header promises a mismatch
  (`trace-decoder.h:82-85`). A caller that takes reported events never gets there.
* The repeat count of SiFive codes 8 and 9 is not bounded: the product with the
  number of bits, and `res_tnts`, wrap at 32 bits (`trace-decoder.c:228`). The
  instance's counts fit.
* A ResourceFull of a code `pull_msg` does not know is reported as unsupported
  but stays buffered (`trace-decoder.c:224`); after the caller has consumed a
  message, as the header advises (`trace-decoder.h:67-69`), the retry aborts in
  `available_icnt` (`trace-decoder.c:161`).
* At the end of the stream `next_indirect` examines a message that was not read
  (`trace-decoder.c:442-445`) and may report an OWNERSHIP nobody sent; the
  look-ahead for a repeat count does the same (`trace-decoder.c:79-90`).
* `read_all` stops at a short read (`lib/misc.c:23`), so from a pipe the end of the
  trace is reported where a short read ended between two messages; the header
  says "if no more Message to decode" (`msg-decoder.h:170`). `MsgCursor` has
  `ShortRead` for it.
* The header gives other values for the P550 (`msg-decoder.h:59-60`) than the
  code (`msg-decoder.c:18-19`).
* Replay and legal traces, each a restriction of `Copes`: a SYNC carried by the
  branch message of an indirect jump is refused (`inst.cpp:124`), a Stop anywhere
  in known code as well (`inst.cpp:41-49`); in branch mode a trap, SYNC or Stop
  directly behind a branch that was not taken is a mismatch
  (`trace-decoder.c:385`); in front of an ecall only its trap is accepted
  (`inst.cpp:237`); an event in front of an instruction capstone cannot decode
  ends replay (`inst.cpp:270-272`), although `fetch` ignores such instructions
  (`inst.cpp:290`); in branch mode an unsupported message behind an I-CNT
  ResourceFull may make a block retire twice.
* When nothing follows a Stop or an Error, or the message sought for is an
  unsupported one, `sync_reset` fails and replay exits with an error
  (`replay.cpp:150-153`): status `sync_failed`, which `NeverMisled` allows.
* `nexusrv-patch file:offset` counts from 0 (`patch.c:50`) although the file is read
  from the offset (`util/misc.c:50-64`): without a seek= an edit lands that many bytes
  in front of the message read. The run reaches it, with files opened at their second
  message; `EditsLand` and `FramingKept` except what follows (`astray`), and
  `EditsInPlace`, the part of `EditsLand` without that exception, fails.
* A `pwrite` that fails half way leaves a part of the edit (`patch.c:85-89`) and is
  fatal. The message being written is damaged then (`cut`); no other is, because what
  is written has the length and the end mark of the old message.
* When TRIG_READ is refused the CPU is given up with its triggers enabled
  (`rvtrace-trigger.c:182-186`), which is why `DownMeansSilent` excepts it. Likewise
  `UpMeansTriggered` excepts a CPU whose old triggers the firmware refused to
  uninstall (`uncleared`): the module's then have other indices than ENABLE uses.
* `kstrtoul(addrs[i], NULL, 0)` (`rvtrace-trigger.c:246`) returns 0 or an error and
  stores the number through its third argument. Names resolve to `-EINVAL`
  (`ViolationSymbols`); a number is stored through NULL, and insmod faults
  (`LoadFaults`). So the other properties of `RvTrigger` are about triggers at the
  addresses the module computed, whatever they are.
* After a failed read in the middle of a message the next call reports a
  truncated message although the file goes on (`msg-decoder.c:363`).
* An ICT with CKDF 0 is encoded with a CKDATA1 (`msg-encoder.c:201`) the decoder
  does not expect; when the time is 0 it is taken for the time. `MsgCodec` has
  CKDATA1 = 0 there, as the text form leaves it.
* An Idle message leaves `src` as it was (`msg-decoder.c:206-211`), and the filter
  of `nexusrv_msg_decoder_next` reads it (`msg-decoder.c:357`).

## Not modelled

The hardware configuration parser, the text form of messages, options and
logging are formatting. Memory images and symbols look up files through libbfd,
/proc and core dumps; replay sees them as the set `Mapped`. Scripts and kernel
patches set up one board. `split` is a loop that copies each message from
`nexusrv_msg_decoder_lastmsg` to the file of its source; `LastMsgIsInBuffer` is
what it needs. Replay's output (symbols, times, indentation) is left out.

## Plan

1. Replay: `NeverMisled` and `ShowsExecution`, from an invariant with the history of
   the hart's steps, for stacks that hold every open call (`MaxNest <= MaxStack`).
