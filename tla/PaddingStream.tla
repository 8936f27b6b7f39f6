--------------------------- MODULE PaddingStream ---------------------------
(***************************************************************************)
(* One direction of a padded NaiveProxy carrier stream                     *)
(* (transport/np_carrier/padding_reader_writer.go): paddingWriter.Write on *)
(* one side, an ordered byte pipe (an HTTP/2 stream), paddingReader.Read   *)
(* on the other.  The first FirstPaddings frames carry a header and        *)
(* padding; everything after them is passed through unframed, so the two   *)
(* sides must change over at the same byte.                                *)
(***************************************************************************)
EXTENDS Integers, Sequences, FiniteSets

CONSTANTS
  FirstPaddings,
  MaxOriginalPayloadSize,
  MaxPaddingSize,
  MaxBytes,       \* bound: bytes written in a behaviour
  MaxEmptyFrames, \* bound: empty frames a foreign peer sends
  ReadSizes       \* lengths of the buffers passed to Read

VARIABLES
  taken,            \* payload bytes put on the pipe so far
  pending,          \* bytes of the current Write not yet on the pipe
  writerCount,      \* paddingWriter.count
  writer,           \* "open" or "closed"
  emptyFrames,      \* empty frames sent so far
  wire,             \* what is in the pipe
  link,             \* "up" or "cut"
  reading,          \* where paddingReader stands
  readerCount,      \* paddingReader.count
  payloadRemaining,
  paddingRemaining,
  held,             \* bytes in the caller's buffer, Read not returned yet
  received          \* bytes Read has returned

wvars == <<taken, pending, writerCount, writer, emptyFrames>>
rvars == <<reading, readerCount, payloadRemaining, paddingRemaining, held,
           received>>
vars == <<taken, pending, writerCount, writer, emptyFrames, wire, link,
          reading, readerCount, payloadRemaining, paddingRemaining, held,
          received>>

Bytes(from, to) == [i \in 1 .. (to - from + 1) |-> from + i - 1]

(* The pipe holds payload bytes, zeros of padding and frame headers; the   *)
(* three bytes of a header are read together.                              *)
Header(size, pad) == [kind |-> "header", size |-> size, pad |-> pad]
Byte(id) == [kind |-> "byte", id |-> id]
Zero == [kind |-> "zero"]

(* What a byte of the pipe is to a reader that takes it for payload.       *)
Content(item) == IF item.kind = "byte" THEN item.id ELSE 0

Contents(items) == [i \in 1 .. Len(items) |-> Content(items[i])]

PayloadItems(from, to) == [i \in 1 .. (to - from + 1) |-> Byte(from + i - 1)]

Padding(n) == [i \in 1 .. n |-> Zero]

MinOf(a, b) == IF a <= b THEN a ELSE b

TypeOK ==
  /\ taken \in 0 .. MaxBytes /\ pending \in 0 .. MaxBytes
  /\ writerCount \in Nat /\ readerCount \in 0 .. FirstPaddings
  /\ writer \in {"open", "closed"}
  /\ emptyFrames \in 0 .. MaxEmptyFrames
  /\ link \in {"up", "cut"}
  /\ reading \in {"header", "payload", "padding", "ended", "failed"}
  /\ payloadRemaining \in 0 .. MaxOriginalPayloadSize
  /\ paddingRemaining \in 0 .. MaxPaddingSize
  /\ held \in Seq(0 .. MaxBytes) /\ received \in Seq(0 .. MaxBytes)

Init ==
  /\ taken = 0 /\ pending = 0 /\ writerCount = 0 /\ writer = "open"
  /\ emptyFrames = 0
  /\ wire = <<>> /\ link = "up"
  /\ reading = "header" /\ readerCount = 0
  /\ payloadRemaining = 0 /\ paddingRemaining = 0
  /\ held = <<>> /\ received = <<>>

----------------------------------------------------------------------------
(* paddingWriter.                                                          *)

PutOnPipe(items) == wire' = IF link = "cut" THEN wire ELSE wire \o items

(* Write is called with n bytes.                                           *)
CallWrite(n) ==
  /\ writer = "open" /\ pending = 0
  /\ n \in 1 .. (MaxBytes - taken)
  /\ pending' = n
  /\ UNCHANGED <<taken, writerCount, writer, emptyFrames, wire, link, rvars>>

(* Mutated form: Write counts calls instead of frames.                     *)
WriteFramePerCall ==
  /\ pending > 0 /\ writerCount < FirstPaddings
  /\ LET size == MinOf(pending, MaxOriginalPayloadSize)
     IN  /\ \E pad \in 0 .. MaxPaddingSize :
              PutOnPipe(<<Header(size, pad)>>
                        \o PayloadItems(taken + 1, taken + size)
                        \o Padding(pad))
         /\ taken' = taken + size
         /\ pending' = pending - size
         /\ writerCount' = IF pending = size THEN writerCount + 1
                                             ELSE writerCount
  /\ UNCHANGED <<writer, emptyFrames, link, rvars>>

(* One turn of the loop of Write: a padded frame.                          *)
WriteFrame ==
  /\ pending > 0 /\ writerCount < FirstPaddings
  /\ LET size == MinOf(pending, MaxOriginalPayloadSize)
     IN  /\ \E pad \in 0 .. MaxPaddingSize :
              PutOnPipe(<<Header(size, pad)>>
                        \o PayloadItems(taken + 1, taken + size)
                        \o Padding(pad))
         /\ taken' = taken + size
         /\ pending' = pending - size
  /\ writerCount' = writerCount + 1
  /\ UNCHANGED <<writer, emptyFrames, link, rvars>>

(* The rest of a Write, or a whole one, after the padded frames.           *)
WriteRaw ==
  /\ pending > 0 /\ writerCount >= FirstPaddings
  /\ PutOnPipe(PayloadItems(taken + 1, taken + pending))
  /\ taken' = taken + pending
  /\ pending' = 0
  /\ UNCHANGED <<writerCount, writer, emptyFrames, link, rvars>>

(* A peer that is not paddingWriter sends a frame of padding only.         *)
SendEmptyFrame ==
  /\ writer = "open" /\ pending = 0 /\ writerCount < FirstPaddings
  /\ emptyFrames < MaxEmptyFrames
  /\ emptyFrames' = emptyFrames + 1
  /\ \E pad \in 0 .. MaxPaddingSize :
       PutOnPipe(<<Header(0, pad)>> \o Padding(pad))
  /\ writerCount' = writerCount + 1
  /\ UNCHANGED <<taken, pending, writer, link, rvars>>

(* CloseWrite, called once Write has returned.                             *)
CloseWrite ==
  /\ writer = "open" /\ pending = 0
  /\ writer' = "closed"
  /\ UNCHANGED <<taken, pending, writerCount, emptyFrames, wire, link, rvars>>

(* The HTTP/2 stream breaks; a suffix of what is in flight is lost.        *)
Cut ==
  /\ link = "up"
  /\ link' = "cut"
  /\ \E k \in 0 .. Len(wire) : wire' = SubSeq(wire, 1, k)
  /\ UNCHANGED <<wvars, rvars>>

----------------------------------------------------------------------------
(* paddingReader.                                                          *)

Return(items) == received' = received \o items

(* Read after the padded frames: the pipe's bytes as they are.             *)
ReadRaw ==
  /\ reading = "header" /\ readerCount >= FirstPaddings /\ wire # <<>>
  /\ \E size \in ReadSizes : \E n \in 1 .. MinOf(size, Len(wire)) :
       /\ Return(Contents(SubSeq(wire, 1, n)))
       /\ wire' = SubSeq(wire, n + 1, Len(wire))
  /\ UNCHANGED <<reading, readerCount, payloadRemaining, paddingRemaining,
                 held, wvars, link>>

(* A frame header; an empty frame goes on to its padding.                  *)
ReadHeader ==
  /\ reading = "header" /\ readerCount < FirstPaddings /\ wire # <<>>
  /\ wire[1].kind = "header"
  /\ payloadRemaining' = wire[1].size
  /\ paddingRemaining' = wire[1].pad
  /\ reading' = IF wire[1].size = 0 THEN "padding" ELSE "payload"
  /\ wire' = Tail(wire)
  /\ UNCHANGED <<readerCount, held, received, wvars, link>>

(* The pipe gives n of the bytes asked for.  Read returns them at once,    *)
(* unless they end the payload: then the padding comes first.              *)
ReadPayload ==
  /\ reading = "payload" /\ wire # <<>>
  /\ \E size \in ReadSizes :
       \E n \in 1 .. MinOf(MinOf(size, payloadRemaining), Len(wire)) :
         LET data == Contents(SubSeq(wire, 1, n))
         IN  /\ payloadRemaining' = payloadRemaining - n
             /\ wire' = SubSeq(wire, n + 1, Len(wire))
             /\ IF n < payloadRemaining
                  THEN Return(data) /\ UNCHANGED <<held, reading>>
                  ELSE /\ held' = data
                       /\ reading' = "padding"
                       /\ UNCHANGED received
  /\ UNCHANGED <<readerCount, paddingRemaining, wvars, link>>

(* discardPadding drops what padding there is.                             *)
DiscardPadding ==
  /\ reading = "padding" /\ paddingRemaining > 0 /\ wire # <<>>
  /\ paddingRemaining' = paddingRemaining - 1
  /\ wire' = Tail(wire)
  /\ UNCHANGED <<reading, readerCount, payloadRemaining, held, received,
                 wvars, link>>

(* Mutated form: frames without payload are not counted.                   *)
FinishPayloadFrame ==
  /\ reading = "padding" /\ paddingRemaining = 0
  /\ readerCount' = IF held = <<>> THEN readerCount ELSE readerCount + 1
  /\ Return(held)
  /\ held' = <<>>
  /\ reading' = "header"
  /\ UNCHANGED <<payloadRemaining, paddingRemaining, wire, wvars, link>>

(* Mutated form: the frame is counted by Read and by discardPadding.       *)
FinishFrameTwice ==
  /\ reading = "padding" /\ paddingRemaining = 0
  /\ readerCount' = readerCount + 2
  /\ Return(held)
  /\ held' = <<>>
  /\ reading' = "header"
  /\ UNCHANGED <<payloadRemaining, paddingRemaining, wire, wvars, link>>

(* discardPadding is through: the frame is counted and Read returns.       *)
FinishFrame ==
  /\ reading = "padding" /\ paddingRemaining = 0
  /\ readerCount' = readerCount + 1
  /\ Return(held)
  /\ held' = <<>>
  /\ reading' = "header"
  /\ UNCHANGED <<payloadRemaining, paddingRemaining, wire, wvars, link>>

(* The pipe ends.  At a frame boundary or behind the frames Read returns   *)
(* io.EOF; inside a frame it returns ErrUnexpectedEOF, with the bytes that *)
(* were already in the caller's buffer.  A broken stream may also end in   *)
(* an error of its own, or inside a header.                                *)
ReadEnd ==
  /\ wire = <<>> /\ (writer = "closed" \/ link = "cut")
  /\ \/ /\ reading = "header"
        /\ \/ reading' = "ended"
           \/ link = "cut" /\ reading' = "failed"
     \/ /\ reading = "payload" \/ (reading = "padding" /\ paddingRemaining > 0)
        /\ reading' = "failed"
  /\ Return(held)
  /\ held' = <<>>
  /\ UNCHANGED <<readerCount, payloadRemaining, paddingRemaining, wire, wvars,
                 link>>

----------------------------------------------------------------------------

Write ==
  \/ \E n \in 1 .. MaxBytes : CallWrite(n)
  \/ WriteFrame
  \/ WriteRaw
  \/ SendEmptyFrame
  \/ CloseWrite

ReadStep ==
  \/ ReadRaw
  \/ ReadHeader
  \/ ReadPayload
  \/ DiscardPadding
  \/ FinishFrame
  \/ ReadEnd

Next == Write \/ Cut \/ ReadStep

(* The reading goroutine runs whenever the pipe has something for it.      *)
Spec == Init /\ [][Next]_vars /\ WF_vars(ReadStep)

----------------------------------------------------------------------------
(* Properties.                                                             *)

StreamLink == IF link = "up" THEN "up" ELSE "faulty"

StreamReader ==
  IF reading \in {"ended", "failed"} THEN reading ELSE "open"

(* The frames the reader has counted, the one it is in and those still in  *)
(* the pipe are the frames the writer has counted, so that both sides stop *)
(* framing at the same byte.                                               *)
FramesInStep ==
  link = "up" =>
    writerCount =
      readerCount + (IF reading \in {"payload", "padding"} THEN 1 ELSE 0)
        + Cardinality({i \in 1 .. Len(wire) : wire[i].kind = "header"})

============================================================================
