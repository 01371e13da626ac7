---------------------------- MODULE Iec104Framing ----------------------------
(***************************************************************************)
(* How iec_library.c cuts the TCP byte stream into APDUs: bufreadcb and    *)
(* iecsock_buffer_read over a bufferevent of libevent 1.4 (external), which *)
(* calls bufreadcb after a read that leaves at least the low watermark in  *)
(* its input buffer.  The peer writes well-formed frames only; TCP hands   *)
(* their bytes over in order, in pieces of any size.                       *)
(*                                                                         *)
(* bufreadcb loops over the input buffer; each iteration is an action here *)
(* and reading is TRUE while it runs, which keeps libevent from reading.   *)
(***************************************************************************)
EXTENDS Integers, Sequences

CONSTANTS
    Header,     \* bytes of struct iechdr: start, length, control field (6)
    Lengths     \* Lengths[f]: bytes of the f-th frame after its header

ASSUME FramingAssumption ==
    Header \in Nat \ {0, 1} /\ Lengths \in Seq(Nat)

VARIABLES
    written,    \* frames the peer has written
    socket,     \* bytes written and not read by libevent
    input,      \* bufev->input: bytes read and not taken by the link
    low,        \* bufev->wm_read.low
    reading,    \* bufreadcb is running
    buf, left,  \* fields of struct iecsock; s->len is Len(buf)
    got,        \* history: what iecsock_frame_recv was given, call by call
    ended       \* "iec 104 packet is not standard" has ended the process

vars == <<written, socket, input, low, reading, buf, left, got, ended>>

-----------------------------------------------------------------------------
\* The bytes of the f-th frame: each is known by its frame and its place in it.
Size(f)  == Header + Lengths[f]
Bytes(f) == [i \in 1..Size(f) |-> <<f, i>>]

Least(a, b)   == IF a < b THEN a ELSE b
First(s, n)   == SubSeq(s, 1, n)
Without(s, n) == SubSeq(s, n + 1, Len(s))

Init ==
    /\ written = 0 /\ socket = <<>> /\ input = <<>>
    /\ low = Header /\ reading = FALSE
    /\ buf = <<>> /\ left = 0 /\ got = <<>> /\ ended = FALSE

\* The peer writes its next frame.
Write ==
    /\ written < Len(Lengths)
    /\ written' = written + 1
    /\ socket' = socket \o Bytes(written + 1)
    /\ UNCHANGED <<input, low, reading, buf, left, got, ended>>

\* bufferevent_readcb: n more bytes; bufreadcb runs if the watermark is reached.
Arrive(n) ==
    /\ ~reading /\ ~ended
    /\ input' = input \o First(socket, n)
    /\ socket' = Without(socket, n)
    /\ reading' = (Len(input') >= low)
    /\ UNCHANGED <<written, low, buf, left, got, ended>>

\* The frame in buf is complete: iecsock_frame_recv, then wait for a header.
FrameRecv(frame) ==
    /\ got' = Append(got, frame)
    /\ buf' = <<>> /\ left' = 0 /\ low' = Header

\* Some bytes of the frame are still missing.
KeepReading(frame, missing, mark) ==
    /\ buf' = frame /\ left' = missing /\ low' = mark
    /\ UNCHANGED got

\* h->length - IEC104_CTRL_LEN.
BodyLength(byte) == Lengths[byte[1]]

\* An iteration of bufreadcb that starts a frame: sizeof(struct iechdr) bytes.
ReadHeader ==
    /\ reading /\ left = 0 /\ Len(input) >= Header
    /\ LET body == BodyLength(input[1]) IN
       IF body = 0 THEN FrameRecv(First(input, Header))
       ELSE KeepReading(First(input, Header), body, body)
    /\ input' = Without(input, Header)
    /\ UNCHANGED <<written, socket, reading, ended>>

\* The same iteration with less than a header in the input buffer.
ShortHeader ==
    /\ reading /\ left = 0 /\ input # <<>> /\ Len(input) < Header
    /\ ended' = TRUE /\ reading' = FALSE
    /\ UNCHANGED <<written, socket, input, low, buf, left, got>>

\* Where the body of the frame goes; the mutant forgets s->len.
BodyOverHeader(body) == body
WithBody(body) == buf \o body

\* An iteration that goes on with a frame; the watermark stays where it was.
ReadBody ==
    /\ reading /\ left > 0 /\ input # <<>>
    /\ LET n == Least(left, Len(input))
           frame == WithBody(First(input, n))
       IN  /\ IF n = left THEN FrameRecv(frame) ELSE KeepReading(frame, left - n, low)
           /\ input' = Without(input, n)
    /\ UNCHANGED <<written, socket, reading, ended>>

\* bufreadcb has emptied the input buffer.
Return ==
    /\ reading /\ input = <<>>
    /\ reading' = FALSE
    /\ UNCHANGED <<written, socket, input, low, buf, left, got, ended>>

Callback == ReadHeader \/ ShortHeader \/ ReadBody \/ Return

Next == Write \/ Callback \/ \E n \in 1..Len(socket) : Arrive(n)

Spec == Init /\ [][Next]_vars

-----------------------------------------------------------------------------
(* Properties. *)

Byte == (1..Len(Lengths)) \X (Nat \ {0})

\* The variables keep their types.
TypeOK ==
    /\ written \in 0..Len(Lengths)
    /\ socket \in Seq(Byte) /\ input \in Seq(Byte) /\ buf \in Seq(Byte)
    /\ low \in Nat \ {0} /\ left \in Nat
    /\ reading \in BOOLEAN /\ ended \in BOOLEAN
    /\ got \in Seq(Seq(Byte))

\* A byte is followed by those of its frame, and these by the next frame.
InSequence(s) ==
    \A i, j \in 1..Len(s) : i <= j =>
        LET f == s[i][1]
            k == s[i][2] + (j - i)
        IN  /\ k <= Size(f) => s[j] = <<f, k>>
            /\ k = Size(f) + 1 => s[j] = <<f + 1, 1>>

\* s is the bytes of all the frames after the first n, as far as the last one.
Remains(s, n, last) ==
    \/ s = <<>> /\ n = last
    \/ /\ s # <<>>
       /\ s[1] = <<n + 1, 1>> /\ s[Len(s)] = <<last, Size(last)>>
       /\ InSequence(s)

\* FramesWhole: however the stream is cut, iecsock_frame_recv is given the frames
\* the peer wrote, whole, in order and none twice (iecsock_buffer_read), and every
\* byte written is in a frame handed over, in the buffer of the frame being read,
\* or waits in libevent or in the socket, in that order.
FramesWhole ==
    /\ \A i \in 1..Len(got) : got[i] = Bytes(i)
    /\ Remains(buf \o input \o socket, Len(got), written)
=============================================================================
