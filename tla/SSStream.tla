------------------------------ MODULE SSStream ------------------------------
(***************************************************************************)
(* One direction of a Shadowsocks 2022 carrier connection                  *)
(* (transport/ss_carrier/conn.go): ReadFrom on the writing side, the       *)
(* sealed chunks on the TCP connection, Read or WriteTo on the reading     *)
(* side.  isClient tells which side writes: the request stream starts with *)
(* writeClientFirstPayload and readClientFirstPayload, the response stream *)
(* with writeServerFirstPayload and readServerFirstPayload.                *)
(*                                                                         *)
(* A chunk on the wire is sealed with the writer's nonce.  It opens only   *)
(* if the reader asks for as many bytes as were sealed and its nonce is    *)
(* the same, so a framing or nonce slip shows as a failed decryption.      *)
(***************************************************************************)
EXTENDS Integers, Sequences

CONSTANTS
  MaxBytes,        \* bound: bytes read from the source in a behaviour
  MaxChunkSize,    \* 65535 in the code; lengths are kept modulo this + 1
  AddrSize,        \* SOCKSLikeAddrSizeInBytes(accessAddr)
  LenFieldSize,
  FixedHeaderSize,
  MaxPaddingLen,
  ReadSizes        \* lengths of the buffers passed to Read

ASSUME SizeAssumption ==
  /\ MaxBytes \in Nat
  /\ {MaxChunkSize, AddrSize, LenFieldSize, FixedHeaderSize, MaxPaddingLen}
       \subseteq Nat \ {0}
  /\ ReadSizes \subseteq Nat \ {0}
  /\ AddrSize + LenFieldSize + MaxPaddingLen <= MaxChunkSize
  /\ FixedHeaderSize <= MaxChunkSize

VARIABLES
  isClient,             \* TRUE: the request stream; FALSE: the response stream
  taken,                \* bytes read from the source so far
  writer,               \* "open"; "aborted" after an error of the source
                        \* before the first payload; "closed" after CloseWrite
  hasWriteFirstPayload,
  nonceWriter,
  wire,                 \* sealed chunks written and not yet read
  link,                 \* "up", or the fault: "fragmented", "tampered", "cut"
  reading,              \* where the reading side stands
  expect,               \* length announced by the last length field
  nonceReader,
  readerBuf,
  received              \* bytes handed to the caller of Read or WriteTo

wvars == <<taken, writer, hasWriteFirstPayload, nonceWriter>>
rvars == <<reading, expect, nonceReader, readerBuf, received>>
vars == <<isClient, taken, writer, hasWriteFirstPayload, nonceWriter, wire,
          link, reading, expect, nonceReader, readerBuf, received>>

Bytes(from, to) == [i \in 1 .. (to - from + 1) |-> from + i - 1]

MinOf(a, b) == IF a <= b THEN a ELSE b

Forged == -1              \* in place of a nonce: the tag does not verify

(* A sealed chunk: its nonce, the size of its plaintext and, for the kind  *)
(* of chunk that has them, the length field, the padding and the payload.  *)
(* The size is at most what a length field can announce.                   *)
Chunks ==
  [nonce: Nat \cup {Forged}, size: 0 .. MaxChunkSize, len: 0 .. MaxChunkSize,
   pad: Nat, data: Seq(1 .. MaxBytes)]

Readings == {"fixedHeader", "firstPayload", "length", "payload", "ended",
             "failed"}

TypeOK ==
  /\ isClient \in BOOLEAN
  /\ taken \in 0 .. MaxBytes
  /\ writer \in {"open", "aborted", "closed"}
  /\ hasWriteFirstPayload \in BOOLEAN
  /\ nonceWriter \in Nat
  /\ wire \in Seq(Chunks)
  /\ link \in {"up", "fragmented", "tampered", "cut"}
  /\ reading \in Readings
  /\ expect \in 0 .. MaxChunkSize
  /\ nonceReader \in Nat
  /\ readerBuf \in Seq(1 .. MaxBytes)
  /\ received \in Seq(1 .. MaxBytes)

Init ==
  /\ isClient \in BOOLEAN
  /\ taken = 0
  /\ writer = "open"
  /\ hasWriteFirstPayload = FALSE
  /\ nonceWriter = 0
  /\ wire = <<>>
  /\ link = "up"
  /\ reading = "fixedHeader"
  /\ expect = 0
  /\ nonceReader = 0
  /\ readerBuf = <<>>
  /\ received = <<>>

----------------------------------------------------------------------------
(* The writing side.                                                       *)

(* A length field holds 16 bits in the code; a greater length is truncated.*)
LengthField(n) == n % (MaxChunkSize + 1)

Chunk(nonce, size, len, pad, data) ==
  [nonce |-> nonce, size |-> size, len |-> len, pad |-> pad, data |-> data]

(* What is written is lost once the connection has been cut.               *)
PutOnWire(chunks) == wire' = IF link = "cut" THEN wire ELSE wire \o chunks

(* Mutated form: no room is left for what precedes a request's payload.    *)
MaxFirstPayloadAlone == MaxChunkSize

(* In a request it shares a chunk with the address and a length field.     *)
MaxFirstPayloadSize ==
  IF isClient THEN MaxChunkSize - AddrSize - LenFieldSize ELSE MaxChunkSize

(* writeClientFirstPayload: padding if and only if there is no payload.    *)
WriteClientFirstPayload(data) ==
  \E pad \in IF data = <<>> THEN 1 .. MaxPaddingLen ELSE {0} :
    LET varHeaderLen == AddrSize + LenFieldSize + pad + Len(data)
    IN  PutOnWire(<<Chunk(0, FixedHeaderSize, LengthField(varHeaderLen),
                          0, <<>>),
                    Chunk(1, varHeaderLen, 0, pad, data)>>)

WriteServerFirstPayload(data) ==
  PutOnWire(<<Chunk(0, FixedHeaderSize, LengthField(Len(data)), 0, <<>>),
              Chunk(1, Len(data), 0, 0, data)>>)

(* The first read of ReadFrom returns n bytes; n = 0 when the source ends  *)
(* without any, or Write is called with nothing.  The AEAD and its nonce   *)
(* are set up here.                                                        *)
WriteFirstPayload(n) ==
  /\ writer = "open" /\ ~ hasWriteFirstPayload
  /\ n <= MaxFirstPayloadSize
  /\ LET data == Bytes(taken + 1, taken + n)
     IN  IF isClient THEN WriteClientFirstPayload(data)
                     ELSE WriteServerFirstPayload(data)
  /\ hasWriteFirstPayload' = TRUE
  /\ taken' = taken + n
  /\ nonceWriter' = 2
  /\ UNCHANGED <<writer, link, rvars>>

(* Mutated form: a chunk's nonce is taken for both of its parts.           *)
WriteChunkSameNonce(n) ==
  /\ writer = "open" /\ hasWriteFirstPayload
  /\ n \in 1 .. MaxChunkSize
  /\ PutOnWire(<<Chunk(nonceWriter, LenFieldSize, LengthField(n), 0, <<>>),
                 Chunk(nonceWriter, n, 0, 0, Bytes(taken + 1, taken + n))>>)
  /\ taken' = taken + n
  /\ nonceWriter' = nonceWriter + 1
  /\ UNCHANGED <<writer, hasWriteFirstPayload, link, rvars>>

(* A later read of ReadFrom returns n > 0 bytes, alone or with an error;   *)
(* they are sealed as a length chunk and a payload chunk.                  *)
WriteChunk(n) ==
  /\ writer = "open" /\ hasWriteFirstPayload
  /\ n \in 1 .. MaxChunkSize
  /\ PutOnWire(<<Chunk(nonceWriter, LenFieldSize, LengthField(n), 0, <<>>),
                 Chunk(nonceWriter + 1, n, 0, 0,
                       Bytes(taken + 1, taken + n))>>)
  /\ taken' = taken + n
  /\ nonceWriter' = nonceWriter + 2
  /\ UNCHANGED <<writer, hasWriteFirstPayload, link, rvars>>

(* ReadFrom returns the source's error before anything was written.        *)
SourceFails ==
  /\ writer = "open" /\ ~ hasWriteFirstPayload
  /\ writer' = "aborted"
  /\ hasWriteFirstPayload' = TRUE
  /\ UNCHANGED <<taken, nonceWriter, wire, link, rvars>>

(* ReadFrom has returned, after the end of the source or an error of it,   *)
(* and the relay calls CloseWrite.                                         *)
CloseWrite ==
  /\ writer = "aborted" \/ (writer = "open" /\ hasWriteFirstPayload)
  /\ writer' = "closed"
  /\ UNCHANGED <<taken, hasWriteFirstPayload, nonceWriter, wire, link, rvars>>

----------------------------------------------------------------------------
(* The network.                                                            *)

(* The first segment ends inside the salt and fixed-length header.         *)
Fragment ==
  /\ link = "up" /\ reading = "fixedHeader"
  /\ link' = "fragmented"
  /\ UNCHANGED <<wvars, wire, rvars>>

(* A chunk in flight is altered, dropped or exchanged with its successor.  *)
Tamper ==
  /\ link = "up"
  /\ link' = "tampered"
  /\ \E i \in 1 .. Len(wire) :
       \/ wire' = [wire EXCEPT ![i].nonce = Forged]
       \/ wire' = SubSeq(wire, 1, i - 1) \o SubSeq(wire, i + 1, Len(wire))
       \/ /\ i < Len(wire)
          /\ wire' = [wire EXCEPT ![i] = wire[i + 1], ![i + 1] = wire[i]]
  /\ UNCHANGED <<wvars, rvars>>

(* The connection breaks: a suffix of what is in flight is lost.           *)
Cut ==
  /\ link # "cut"
  /\ link' = "cut"
  /\ \E k \in 0 .. Len(wire) : wire' = SubSeq(wire, 1, k)
  /\ UNCHANGED <<wvars, rvars>>

----------------------------------------------------------------------------
(* The reading side.                                                       *)

(* decryptInPlace of the next size bytes.                                  *)
Opens(size) ==
  /\ wire[1].size = size
  /\ wire[1].nonce = nonceReader

(* Mutated form: one byte is lost between the caller's part and the rest.  *)
CopyDroppingByte(data, n) ==
  /\ received' = received \o SubSeq(data, 1, n)
  /\ readerBuf' = SubSeq(data, n + 2, Len(data))

(* copyReadPayload: n bytes fit the caller's buffer, the rest is kept.     *)
CopyReadPayload(data, n) ==
  /\ received' = received \o SubSeq(data, 1, n)
  /\ readerBuf' = SubSeq(data, n + 1, Len(data))

(* The bytes a caller can take of data: as many as the buffer of Read      *)
(* holds, or all of them with WriteTo.                                     *)
TakenByCaller(data) ==
  {Len(data)} \cup {MinOf(size, Len(data)) : size \in ReadSizes}

(* ReadOnceExpectFull of the salt and the fixed-length header, then        *)
(* validateFixedHeaderAndReturnLen.  One read call that returns less fails.*)
ReadFixedHeader ==
  /\ reading = "fixedHeader" /\ wire # <<>>
  /\ \/ /\ link = "fragmented" /\ reading' = "failed"
        /\ UNCHANGED <<expect, nonceReader, wire>>
     \/ /\ link # "fragmented" /\ Opens(FixedHeaderSize)
        /\ reading' = "firstPayload"
        /\ expect' = wire[1].len
        /\ nonceReader' = nonceReader + 1
        /\ wire' = Tail(wire)
  /\ UNCHANGED <<readerBuf, received, wvars, link>>

(* readClientFirstPayload: the padding is dropped and the payload kept for *)
(* the first Read.                                                         *)
KeepFirstPayload(chunk) ==
  /\ readerBuf' = chunk.data
  /\ UNCHANGED received

(* The request is refused without payload and without padding.             *)
FirstPayloadAccepted ==
  /\ Opens(expect)
  /\ isClient => wire[1].pad + Len(wire[1].data) > 0

(* The chunk behind the fixed-length header: the variable-length header of *)
(* a request, or the first payload of a response.                          *)
ReadFirstPayload ==
  /\ reading = "firstPayload" /\ wire # <<>>
  /\ FirstPayloadAccepted
  /\ IF isClient
       THEN KeepFirstPayload(wire[1])
       ELSE \E n \in TakenByCaller(wire[1].data) :
              CopyReadPayload(wire[1].data, n)
  /\ reading' = "length"
  /\ nonceReader' = nonceReader + 1
  /\ wire' = Tail(wire)
  /\ UNCHANGED <<expect, wvars, link>>

(* readOrWriteTo while bytes are buffered.                                 *)
ReadBuffered ==
  /\ reading = "length" /\ readerBuf # <<>>
  /\ \E n \in TakenByCaller(readerBuf) : CopyReadPayload(readerBuf, n)
  /\ UNCHANGED <<reading, expect, nonceReader, wire, wvars, link>>

(* readOrWriteTo reads a length chunk.                                     *)
ReadLength ==
  /\ reading = "length" /\ readerBuf = <<>> /\ wire # <<>>
  /\ Opens(LenFieldSize)
  /\ expect' = wire[1].len
  /\ reading' = "payload"
  /\ nonceReader' = nonceReader + 1
  /\ wire' = Tail(wire)
  /\ UNCHANGED <<readerBuf, received, wvars, link>>

(* copyReadPayloadEncrypted.                                               *)
ReadPayload ==
  /\ reading = "payload" /\ wire # <<>>
  /\ Opens(expect)
  /\ \E n \in TakenByCaller(wire[1].data) : CopyReadPayload(wire[1].data, n)
  /\ reading' = "length"
  /\ nonceReader' = nonceReader + 1
  /\ wire' = Tail(wire)
  /\ UNCHANGED <<expect, wvars, link>>

NextChunkAccepted ==
  CASE reading = "fixedHeader" -> Opens(FixedHeaderSize)
    [] reading = "firstPayload" -> FirstPayloadAccepted
    [] reading = "length" -> Opens(LenFieldSize)
    [] OTHER -> Opens(expect)

(* decryptInPlace, or a check behind it, fails.                            *)
RejectChunk ==
  /\ reading \notin {"ended", "failed"} /\ wire # <<>>
  /\ reading = "length" => readerBuf = <<>>
  /\ reading = "fixedHeader" => link # "fragmented"
  /\ ~ NextChunkAccepted
  /\ reading' = "failed"
  /\ UNCHANGED <<expect, nonceReader, readerBuf, received, wire, wvars, link>>

RequestHeaderPending == isClient /\ reading \in {"fixedHeader", "firstPayload"}

(* The TCP connection reports its end.  After a FIN or a break between two *)
(* chunks the read returns io.EOF, which WriteTo takes for the end of the  *)
(* stream; a break inside a chunk, or any end before readClientFirstPayload*)
(* is through, is an error.                                                *)
ReadEnd ==
  /\ reading \notin {"ended", "failed"}
  /\ wire = <<>> /\ readerBuf = <<>>
  /\ writer = "closed" \/ link = "cut"
  /\ \/ reading' = "ended" /\ ~ RequestHeaderPending
     \/ reading' = "failed" /\ (link = "cut" \/ RequestHeaderPending)
  /\ UNCHANGED <<expect, nonceReader, readerBuf, received, wire, wvars, link>>

----------------------------------------------------------------------------

Write ==
  /\ \/ \E n \in 0 .. (MaxBytes - taken) : WriteFirstPayload(n)
     \/ \E n \in 1 .. (MaxBytes - taken) : WriteChunk(n)
     \/ SourceFails
     \/ CloseWrite
  /\ UNCHANGED isClient

Network == (Fragment \/ Tamper \/ Cut) /\ UNCHANGED isClient

ReadStep ==
  /\ \/ ReadFixedHeader
     \/ ReadFirstPayload
     \/ ReadBuffered
     \/ ReadLength
     \/ ReadPayload
     \/ RejectChunk
     \/ ReadEnd
  /\ UNCHANGED isClient

Next == Write \/ Network \/ ReadStep

(* The reading goroutine runs whenever its TCP connection has something    *)
(* for it.                                                                 *)
Spec == Init /\ [][Next]_vars /\ WF_vars(ReadStep)

----------------------------------------------------------------------------
(* Properties.                                                             *)

(* A stream that is written no first payload breaks like a fault.          *)
StreamLink ==
  IF link = "up" /\ (nonceWriter > 0 \/ writer = "open")
    THEN "up" ELSE "faulty"

StreamReader ==
  IF reading \in {"ended", "failed"} THEN reading ELSE "open"

StreamWriter == IF writer = "closed" THEN "closed" ELSE "open"

(* Without a fault the nonces of the chunks in flight continue the         *)
(* reader's nonce, and every length field announces the size of the chunk  *)
(* that follows it.                                                        *)
ChunksInStep ==
  link = "up" /\ reading # "failed" =>
    /\ \A i \in 1 .. Len(wire) : wire[i].nonce = nonceReader + i - 1
    /\ hasWriteFirstPayload => nonceWriter = nonceReader + Len(wire)
    /\ \A i \in 2 .. Len(wire) :
         wire[i].nonce % 2 = 1 => wire[i].size = wire[i - 1].len

============================================================================
