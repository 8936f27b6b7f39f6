--------------------------- MODULE CarriersProofs ---------------------------
(***************************************************************************)
(* Proofs, for any lengths, chunk sizes, paddings and buffers, that both   *)
(* carriers with a framing of their own keep writer and reader in step,    *)
(* and that a step of theirs is one of the byte stream they promise to be  *)
(* (ByteStream), whatever the network does.                                *)
(***************************************************************************)
EXTENDS Carriers, FiniteSetTheorems, SequenceTheorems, WellFoundedInduction,
        TLAPS

(* The sequence s continues a stream of bytes after its first k.           *)
Continues(s, k) == \A i \in 1 .. Len(s) : s[i] = k + i

----------------------------------------------------------------------------
(* Shadowsocks.                                                            *)

(* ReadFrom counts two nonces for every payload, from the first one on.    *)
SealingInv ==
  /\ ~ hasWriteFirstPayload =>
       nonceWriter = 0 /\ writer = "open" /\ wire = <<>>
  /\ hasWriteFirstPayload /\ nonceWriter = 0 => writer # "open"
  /\ nonceWriter % 2 = 0

(* The nonce says which chunk the reading side waits for.                  *)
OpeningInv ==
  /\ reading = "fixedHeader" => nonceReader = 0
  /\ reading = "firstPayload" => nonceReader = 1
  /\ reading = "length" => nonceReader >= 2 /\ nonceReader % 2 = 0
  /\ reading = "payload" => nonceReader >= 2 /\ nonceReader % 2 = 1
  /\ reading # "length" => readerBuf = <<>>

(* What the chunk with its nonce is, as long as nobody has touched it.     *)
WellSealed(i) ==
  /\ wire[i].nonce = nonceReader + i - 1
  /\ wire[i].nonce = 0 => wire[i].size = FixedHeaderSize
  /\ wire[i].nonce > 0 /\ wire[i].nonce % 2 = 0 => wire[i].size = LenFieldSize
  /\ i > 1 /\ wire[i].nonce % 2 = 1 => wire[i].size = wire[i - 1].len
  /\ isClient /\ wire[i].nonce = 1 => wire[i].pad + Len(wire[i].data) > 0

IntactInv ==
  link = "up" =>
    /\ nonceWriter = nonceReader + Len(wire)
    /\ \A i \in 1 .. Len(wire) : WellSealed(i)
    /\ reading \in {"firstPayload", "payload"} /\ wire # <<>> =>
         wire[1].size = expect

(* start tells how many bytes were sealed before each nonce.  A chunk that *)
(* is not forged has the bytes of its nonce, wherever it was moved, and    *)
(* the reader has opened those of the nonces before its own.               *)
SealedAt(start) ==
  /\ \A m, n \in 0 .. nonceWriter : m <= n => start[m] <= start[n]
  /\ start[nonceWriter] = taken
  /\ \A i \in 1 .. Len(wire) : wire[i].nonce # Forged =>
       /\ wire[i].nonce < nonceWriter
       /\ Len(wire[i].data) = start[wire[i].nonce + 1] - start[wire[i].nonce]
       /\ Continues(wire[i].data, start[wire[i].nonce])
       /\ wire[i].nonce % 2 = 0 => wire[i].data = <<>>
  /\ nonceReader <= nonceWriter
  /\ Len(received) + Len(readerBuf) = start[nonceReader]

BytesInv ==
  /\ Continues(received, 0)
  /\ Continues(readerBuf, Len(received))
  /\ \E start \in [0 .. nonceWriter -> 0 .. taken] : SealedAt(start)

SealedInv ==
  /\ TypeOK
  /\ SealingInv
  /\ OpeningInv
  /\ IntactInv
  /\ BytesInv

----------------------------------------------------------------------------
(* Pieces of a stream.                                                     *)

(* Nothing is a piece of any stream.                                       *)
LEMMA EmptyContinues == \A k : Continues(<<>>, k)
BY DEF Continues

(* What ReadFrom takes from the source continues what it took before.      *)
LEMMA BytesContinue ==
  ASSUME NEW a \in Nat, NEW n \in Nat, a + n <= MaxBytes
  PROVE  /\ Bytes(a + 1, a + n) \in Seq(1 .. MaxBytes)
         /\ Len(Bytes(a + 1, a + n)) = n
         /\ Continues(Bytes(a + 1, a + n), a)
<1>1. MaxBytes \in Nat
  BY SizeAssumption
<1>2. Bytes(a + 1, a + n) = [i \in 1 .. n |-> a + i]
  <2>1. (a + n) - (a + 1) + 1 = n /\ \A i \in 1 .. n : a + 1 + i - 1 = a + i
    OBVIOUS
  <2> QED
    BY <2>1 DEF Bytes
<1>3. \A i \in 1 .. n : a + i \in 1 .. MaxBytes
  BY <1>1
<1>4. [i \in 1 .. n |-> a + i] \in Seq(1 .. MaxBytes)
  BY <1>3, IsASeq
<1>5. Len([i \in 1 .. n |-> a + i]) = n
  BY <1>4, LenProperties
<1> QED
  BY <1>2, <1>4, <1>5 DEF Continues

(* Two consecutive pieces are one (received grows).                        *)
LEMMA ConcatContinues ==
  ASSUME NEW S, NEW s \in Seq(S), NEW t \in Seq(S), NEW k \in Nat
  PROVE  /\ s \o t \in Seq(S)
         /\ Len(s \o t) = Len(s) + Len(t)
         /\ Continues(s, k) /\ Continues(t, k + Len(s)) =>
              Continues(s \o t, k)
<1> DEFINE u == s \o t
<1>1. /\ u \in Seq(S) /\ Len(u) = Len(s) + Len(t)
      /\ \A i \in 1 .. Len(s) + Len(t) :
           u[i] = IF i <= Len(s) THEN s[i] ELSE t[i - Len(s)]
  BY ConcatProperties
<1>2. ASSUME Continues(s, k), Continues(t, k + Len(s)) PROVE Continues(u, k)
  <2> SUFFICES ASSUME NEW i \in 1 .. Len(u) PROVE u[i] = k + i
    BY DEF Continues
  <2> HIDE DEF u
  <2>1. Len(s) \in Nat /\ Len(t) \in Nat
    BY LenProperties
  <2>2. CASE i <= Len(s)
    BY <1>1, <1>2, <2>1, <2>2 DEF Continues
  <2>3. CASE ~ i <= Len(s)
    <3>1. i - Len(s) \in 1 .. Len(t) /\ u[i] = t[i - Len(s)]
      BY <1>1, <2>1, <2>3
    <3>2. t[i - Len(s)] = (k + Len(s)) + (i - Len(s))
      BY <1>2, <3>1 DEF Continues
    <3> QED
      BY <2>1, <3>1, <3>2
  <2> QED
    BY <2>2, <2>3
<1> QED
  BY <1>1, <1>2

(* What is left of the wire at either end.                                 *)
LEMMA PartOfWire ==
  ASSUME NEW S, NEW s \in Seq(S), NEW n \in 0 .. Len(s)
  PROVE  /\ SubSeq(s, 1, n) \in Seq(S) /\ Len(SubSeq(s, 1, n)) = n
         /\ \A i \in 1 .. n : SubSeq(s, 1, n)[i] = s[i]
         /\ SubSeq(s, n + 1, Len(s)) \in Seq(S)
         /\ Len(SubSeq(s, n + 1, Len(s))) = Len(s) - n
         /\ \A i \in 1 .. Len(s) - n : SubSeq(s, n + 1, Len(s))[i] = s[n + i]
<1>1. Len(s) \in Nat
  BY LenProperties
<1>2. /\ SubSeq(s, 1, n) \in Seq(S) /\ Len(SubSeq(s, 1, n)) = n
      /\ \A i \in 1 .. n : SubSeq(s, 1, n)[i] = s[i]
  <2>1. \A i \in 1 .. n : s[i] \in S
    BY <1>1, ElementOfSeq
  <2> QED
    BY <1>1, <2>1, SubSeqProperties
<1>3. /\ SubSeq(s, n + 1, Len(s)) \in Seq(S)
      /\ Len(SubSeq(s, n + 1, Len(s))) = Len(s) - n
      /\ \A i \in 1 .. Len(s) - n : SubSeq(s, n + 1, Len(s))[i] = s[n + i]
  <2>1. \A i \in n + 1 .. Len(s) : s[i] \in S
    BY <1>1, ElementOfSeq
  <2> QED
    BY <1>1, <2>1, SubSeqProperties
<1> QED
  BY <1>2, <1>3

(* The caller's part of a chunk, and the rest of it (copyReadPayload).     *)
LEMMA SplitContinues ==
  ASSUME NEW S, NEW s \in Seq(S), NEW n \in 0 .. Len(s), NEW k \in Nat
  PROVE  /\ SubSeq(s, 1, n) \in Seq(S) /\ Len(SubSeq(s, 1, n)) = n
         /\ SubSeq(s, n + 1, Len(s)) \in Seq(S)
         /\ Len(SubSeq(s, n + 1, Len(s))) = Len(s) - n
         /\ Continues(s, k) => /\ Continues(SubSeq(s, 1, n), k)
                               /\ Continues(SubSeq(s, n + 1, Len(s)), k + n)
<1> DEFINE front == SubSeq(s, 1, n)
           rest == SubSeq(s, n + 1, Len(s))
<1>1. Len(s) \in Nat
  BY LenProperties
<1>2. /\ front \in Seq(S) /\ Len(front) = n
      /\ \A i \in 1 .. n : front[i] = s[i]
  BY PartOfWire
<1>3. /\ rest \in Seq(S) /\ Len(rest) = Len(s) - n
      /\ \A i \in 1 .. Len(s) - n : rest[i] = s[n + i]
  BY PartOfWire
<1> HIDE DEF front, rest
<1>4. ASSUME Continues(s, k)
      PROVE  Continues(front, k) /\ Continues(rest, k + n)
  <2>1. \A i \in 1 .. n : i \in 1 .. Len(s)
    BY <1>1
  <2>2. \A i \in 1 .. Len(s) - n : n + i \in 1 .. Len(s)
    BY <1>1
  <2>3. Continues(front, k)
    BY <1>1, <1>2, <1>4, <2>1 DEF Continues
  <2>4. \A i \in 1 .. Len(s) - n : rest[i] = k + n + i
    <3> SUFFICES ASSUME NEW i \in 1 .. Len(s) - n
                 PROVE  rest[i] = k + n + i
      OBVIOUS
    <3>1. rest[i] = s[n + i] /\ s[n + i] = k + (n + i)
      BY <1>3, <1>4, <2>2 DEF Continues
    <3> QED
      BY <1>1, <3>1
  <2> QED
    BY <1>3, <2>3, <2>4 DEF Continues
<1> QED
  BY <1>2, <1>3, <1>4 DEF front, rest

(* Two sequences of one length that continue the same stream at the same   *)
(* place are the same.                                                     *)
LEMMA ContinuesIsBytes ==
  ASSUME NEW S, NEW s \in Seq(S), Continues(s, 0)
  PROVE  s = Bytes(1, Len(s))
<1>1. Len(s) \in Nat /\ s = [i \in 1 .. Len(s) |-> s[i]]
  BY LenProperties
<1> QED
  BY <1>1 DEF Continues, Bytes

----------------------------------------------------------------------------
(* Shadowsocks, the writing side.                                          *)

(* What both parts of ReadFrom do: n bytes are sealed as two chunks, the   *)
(* first of which announces the size of the second.                        *)
Seals(head, body, n) ==
  /\ writer = "open"
  /\ head \in Chunks /\ body \in Chunks
  /\ head.nonce = nonceWriter /\ body.nonce = nonceWriter + 1
  /\ head.size = IF nonceWriter = 0 THEN FixedHeaderSize ELSE LenFieldSize
  /\ body.size = head.len
  /\ head.data = <<>> /\ body.data = Bytes(taken + 1, taken + n)
  /\ isClient /\ nonceWriter = 0 => body.pad + n > 0
  /\ wire' = IF link = "cut" THEN wire ELSE wire \o <<head, body>>
  /\ taken' = taken + n
  /\ nonceWriter' = nonceWriter + 2
  /\ hasWriteFirstPayload' = TRUE
  /\ UNCHANGED <<writer, link, rvars, isClient>>

(* A length that is at most MaxChunkSize fits in its field.                *)
LEMMA LengthFits ==
  ASSUME NEW n \in 0 .. MaxChunkSize
  PROVE  LengthField(n) = n
<1>1. MaxChunkSize \in Nat
  BY SizeAssumption
<1> QED
  BY <1>1 DEF LengthField

(* writeClientFirstPayload and writeServerFirstPayload seal two chunks.    *)
LEMMA FirstPayloadSeals ==
  ASSUME SealedInv, NEW n \in 0 .. (MaxBytes - taken), WriteFirstPayload(n),
         UNCHANGED isClient
  PROVE  \E head, body : Seals(head, body, n)
<1>1. /\ MaxBytes \in Nat /\ MaxChunkSize \in Nat /\ taken \in 0 .. MaxBytes
      /\ AddrSize \in Nat /\ LenFieldSize \in Nat /\ FixedHeaderSize \in Nat
      /\ MaxPaddingLen \in Nat
      /\ AddrSize + LenFieldSize + MaxPaddingLen <= MaxChunkSize
      /\ FixedHeaderSize \in 0 .. MaxChunkSize
      /\ nonceWriter = 0 /\ isClient \in BOOLEAN
  BY SizeAssumption DEF SealedInv, TypeOK, SealingInv, WriteFirstPayload
<1> DEFINE data == Bytes(taken + 1, taken + n)
<1>2. /\ data \in Seq(1 .. MaxBytes) /\ Len(data) = n
      /\ <<>> \in Seq(1 .. MaxBytes)
  <2>1. taken \in Nat /\ n \in Nat /\ taken + n <= MaxBytes
    BY <1>1
  <2>2. <<>> \in Seq(1 .. MaxBytes)
    OBVIOUS
  <2> QED
    BY <2>1, <2>2, BytesContinue
<1>3. data = <<>> <=> n = 0
  BY <1>1, <1>2, EmptySeq
<1> HIDE DEF data
<1>4. CASE isClient
  <2>1. PICK pad \in IF data = <<>> THEN 1 .. MaxPaddingLen ELSE {0} :
          LET len == AddrSize + LenFieldSize + pad + Len(data)
          IN  PutOnWire(<<Chunk(0, FixedHeaderSize, LengthField(len), 0, <<>>),
                          Chunk(1, len, 0, pad, data)>>)
    BY <1>4 DEF WriteFirstPayload, WriteClientFirstPayload, data
  <2> DEFINE len == AddrSize + LenFieldSize + pad + n
             head == Chunk(0, FixedHeaderSize, len, 0, <<>>)
             body == Chunk(1, len, 0, pad, data)
  <2>2. pad \in Nat /\ len \in 0 .. MaxChunkSize /\ pad + n > 0
    BY <1>1, <1>3, <1>4 DEF WriteFirstPayload, MaxFirstPayloadSize
  <2>3. wire' = IF link = "cut" THEN wire ELSE wire \o <<head, body>>
    BY <1>2, <2>1, <2>2, LengthFits DEF PutOnWire
  <2>4. /\ head \in Chunks /\ head.nonce = 0 /\ head.size = FixedHeaderSize
        /\ head.len = len /\ head.data = <<>>
    BY <1>1, <1>2, <2>2 DEF Chunk, Chunks
  <2>5. /\ body \in Chunks /\ body.nonce = 1 /\ body.size = len
        /\ body.pad = pad /\ body.data = data
    BY <1>1, <1>2, <2>2 DEF Chunk, Chunks
  <2> HIDE DEF head, body, len
  <2>6. Seals(head, body, n)
    BY <1>1, <2>2, <2>3, <2>4, <2>5 DEF Seals, WriteFirstPayload, data
  <2> QED
    BY <2>6
<1>5. CASE ~ isClient
  <2> DEFINE head == Chunk(0, FixedHeaderSize, n, 0, <<>>)
             body == Chunk(1, n, 0, 0, data)
  <2>1. n \in 0 .. MaxChunkSize
    BY <1>1, <1>5 DEF WriteFirstPayload, MaxFirstPayloadSize
  <2>2. wire' = IF link = "cut" THEN wire ELSE wire \o <<head, body>>
    BY <1>2, <1>5, <2>1, LengthFits
    DEF WriteFirstPayload, WriteServerFirstPayload, PutOnWire, data
  <2>3. /\ head \in Chunks /\ head.nonce = 0 /\ head.size = FixedHeaderSize
        /\ head.len = n /\ head.data = <<>>
    BY <1>1, <1>2, <2>1 DEF Chunk, Chunks
  <2>4. /\ body \in Chunks /\ body.nonce = 1 /\ body.size = n
        /\ body.data = data
    BY <1>1, <1>2, <2>1 DEF Chunk, Chunks
  <2> HIDE DEF head, body
  <2>5. Seals(head, body, n)
    BY <1>1, <1>5, <2>2, <2>3, <2>4 DEF Seals, WriteFirstPayload, data
  <2> QED
    BY <2>5
<1> QED
  BY <1>1, <1>4, <1>5

(* A later read of ReadFrom seals two chunks.                              *)
LEMMA ChunkSeals ==
  ASSUME SealedInv, NEW n \in 1 .. (MaxBytes - taken), WriteChunk(n),
         UNCHANGED isClient
  PROVE  \E head, body : Seals(head, body, n)
<1>1. /\ MaxBytes \in Nat /\ MaxChunkSize \in Nat /\ taken \in 0 .. MaxBytes
      /\ LenFieldSize \in Nat /\ nonceWriter \in Nat \ {0}
      /\ n \in 0 .. MaxChunkSize /\ LenFieldSize \in 0 .. MaxChunkSize
  BY SMTT(60), SizeAssumption DEF SealedInv, TypeOK, SealingInv, WriteChunk
<1> DEFINE data == Bytes(taken + 1, taken + n)
           head == Chunk(nonceWriter, LenFieldSize, n, 0, <<>>)
           body == Chunk(nonceWriter + 1, n, 0, 0, data)
<1>2. /\ data \in Seq(1 .. MaxBytes) /\ Len(data) = n
      /\ <<>> \in Seq(1 .. MaxBytes)
  <2>1. taken \in Nat /\ n \in Nat /\ taken + n <= MaxBytes
    BY <1>1
  <2>2. <<>> \in Seq(1 .. MaxBytes)
    OBVIOUS
  <2> QED
    BY <2>1, <2>2, BytesContinue
<1>3. wire' = IF link = "cut" THEN wire ELSE wire \o <<head, body>>
  BY <1>1, LengthFits DEF WriteChunk, PutOnWire
<1> HIDE DEF data
<1>4. /\ head \in Chunks /\ head.nonce = nonceWriter
      /\ head.size = LenFieldSize /\ head.len = n /\ head.data = <<>>
  BY <1>1, <1>2 DEF Chunk, Chunks
<1>5. /\ body \in Chunks /\ body.nonce = nonceWriter + 1 /\ body.size = n
      /\ body.data = data
  BY <1>1, <1>2 DEF Chunk, Chunks
<1> HIDE DEF head, body
<1>6. Seals(head, body, n)
  BY <1>1, <1>3, <1>4, <1>5 DEF Seals, WriteChunk, data
<1> QED
  BY <1>6

(* What is written goes behind what is in flight.                          *)
LEMMA TwoMore ==
  ASSUME NEW S, NEW s \in Seq(S), NEW a \in S, NEW b \in S
  PROVE  /\ s \o <<a, b>> \in Seq(S) /\ Len(s) \in Nat
         /\ Len(s \o <<a, b>>) = Len(s) + 2
         /\ \A i \in 1 .. Len(s) : (s \o <<a, b>>)[i] = s[i]
         /\ (s \o <<a, b>>)[Len(s) + 1] = a
         /\ (s \o <<a, b>>)[Len(s) + 2] = b
<1> DEFINE t == <<a, b>>
<1>1. t \in Seq(S) /\ Len(t) = 2 /\ t[1] = a /\ t[2] = b
  OBVIOUS
<1> HIDE DEF t
<1>2. /\ s \o t \in Seq(S) /\ Len(s \o t) = Len(s) + Len(t)
      /\ \A i \in 1 .. Len(s) + Len(t) :
           (s \o t)[i] = IF i <= Len(s) THEN s[i] ELSE t[i - Len(s)]
  BY <1>1, ConcatProperties
<1>3. Len(s) \in Nat
  BY LenProperties
<1> DEFINE u == s \o t
<1> HIDE DEF u
<1>4. /\ Len(u) = Len(s) + 2 /\ \A i \in 1 .. Len(s) : u[i] = s[i]
      /\ u[Len(s) + 1] = a /\ u[Len(s) + 2] = b
  BY <1>1, <1>2, <1>3 DEF u
<1> QED
  BY <1>2, <1>3, <1>4 DEF t, u

(* Two chunks that are sealed continue those in flight.                    *)
LEMMA SealsIntact ==
  ASSUME SealedInv, NEW n \in 0 .. (MaxBytes - taken), NEW head, NEW body,
         Seals(head, body, n)
  PROVE  IntactInv'
<1> SUFFICES ASSUME link = "up"
             PROVE  /\ nonceWriter' = nonceReader' + Len(wire')
                    /\ \A i \in 1 .. Len(wire') : WellSealed(i)'
                    /\ reading' \in {"firstPayload", "payload"}
                       /\ wire' # <<>> => wire'[1].size = expect'
  BY DEF IntactInv, Seals
<1>0. PICK L \in Nat : L = Len(wire)
  BY LenProperties DEF SealedInv, TypeOK
<1>1. /\ wire \in Seq(Chunks) /\ head \in Chunks /\ body \in Chunks
      /\ wire' = wire \o <<head, body>>
  BY DEF SealedInv, TypeOK, Seals
<1>2. /\ L \in Nat /\ Len(wire') = L + 2
      /\ \A i \in 1 .. L : wire'[i] = wire[i]
      /\ wire'[L + 1] = head /\ wire'[L + 2] = body
  BY <1>0, <1>1, TwoMore
<1>3. /\ nonceWriter \in Nat /\ nonceReader \in Nat /\ isClient \in BOOLEAN
      /\ nonceWriter = nonceReader + L /\ nonceWriter % 2 = 0
      /\ \A i \in 1 .. L : WellSealed(i)
      /\ reading \in {"firstPayload", "payload"} /\ wire # <<>> =>
           wire[1].size = expect
  BY <1>0 DEF SealedInv, TypeOK, IntactInv, SealingInv
<1>4. nonceReader' = nonceReader /\ nonceWriter' = nonceWriter + 2
  BY DEF Seals, rvars
<1>5. ASSUME NEW i \in 1 .. L PROVE WellSealed(i)'
  <2>1. wire'[i] = wire[i] /\ (i > 1 => wire'[i - 1] = wire[i - 1])
    BY <1>2, <1>5
  <2> QED
    BY <1>3, <1>4, <1>5, <2>1 DEF WellSealed, Seals
<1>6. WellSealed(L + 1)'
  <2>1. /\ head.nonce = nonceWriter
        /\ head.size = IF nonceWriter = 0 THEN FixedHeaderSize
                                          ELSE LenFieldSize
    BY DEF Seals
  <2>2. nonceWriter = nonceReader' + (L + 1) - 1
    BY <1>2, <1>3, <1>4
  <2>3. nonceWriter % 2 # 1 /\ nonceWriter # 1
    BY <1>3
  <2>4. wire'[L + 1].nonce = nonceWriter /\ wire'[L + 1].size = head.size
    BY <1>2, <2>1
  <2> QED
    BY <1>3, <2>1, <2>2, <2>3, <2>4 DEF WellSealed
<1>7. WellSealed(L + 2)'
  <2>1. /\ body.nonce = nonceWriter + 1
        /\ nonceWriter + 1 = nonceReader' + (L + 2) - 1
    <3>1. body.nonce = nonceWriter + 1
      BY DEF Seals
    <3> QED
      BY SMTT(60), <1>2, <1>3, <1>4, <3>1
  <2>2. (nonceWriter + 1) % 2 # 0 /\ nonceWriter + 1 # 0
    BY <1>3
  <2>3. (L + 2) - 1 = L + 1 /\ body.size = wire'[L + 1].len
    BY <1>2 DEF Seals
  <2>4. isClient /\ body.nonce = 1 => body.pad + Len(body.data) > 0
    <3>1. Len(body.data) = n
      <4>1. taken \in Nat /\ n \in Nat /\ taken + n <= MaxBytes
        BY SizeAssumption DEF SealedInv, TypeOK
      <4> QED
        BY <4>1, BytesContinue DEF Seals
    <3>2. isClient /\ nonceWriter = 0 => body.pad + n > 0
      BY DEF Seals
    <3> QED
      BY <1>3, <2>1, <3>1, <3>2
  <2>5. isClient' = isClient
    BY DEF Seals
  <2> QED
    BY <1>2, <1>3, <2>1, <2>2, <2>3, <2>4, <2>5 DEF WellSealed
<1>8. \A i \in 1 .. Len(wire') : i \in 1 .. L \/ i = L + 1 \/ i = L + 2
  BY <1>2
<1>9. ASSUME reading \in {"firstPayload", "payload"}
      PROVE  wire'[1].size = expect
  <2>1. nonceReader % 2 = 1
    BY <1>9 DEF SealedInv, OpeningInv
  <2>2. L >= 1
    BY <1>2, <1>3, <2>1
  <2>3. wire # <<>> /\ wire'[1] = wire[1]
    BY <1>0, <1>1, <1>2, <2>2
  <2> QED
    BY <1>3, <1>9, <2>3
<1>10. reading' = reading /\ expect' = expect
  BY DEF Seals, rvars
<1>11. nonceWriter' = nonceReader' + Len(wire')
  BY <1>2, <1>3, <1>4
<1> QED
  BY <1>5, <1>6, <1>7, <1>8, <1>9, <1>10, <1>11

(* The bytes of the two chunks are those behind all that were sealed.      *)
LEMMA SealsBytes ==
  ASSUME SealedInv, NEW n \in 0 .. (MaxBytes - taken), NEW head, NEW body,
         Seals(head, body, n)
  PROVE  BytesInv'
<1>1. /\ taken \in Nat /\ n \in Nat /\ taken + n <= MaxBytes
      /\ nonceWriter \in Nat /\ nonceReader \in Nat /\ wire \in Seq(Chunks)
      /\ head \in Chunks /\ body \in Chunks /\ nonceWriter % 2 = 0
  <2>1. /\ taken \in 0 .. MaxBytes /\ nonceWriter \in Nat
        /\ nonceReader \in Nat /\ wire \in Seq(Chunks)
    BY DEF SealedInv, TypeOK
  <2>2. taken \in Nat /\ n \in Nat /\ taken + n <= MaxBytes
    BY <2>1, SizeAssumption
  <2>3. nonceWriter % 2 = 0
    BY DEF SealedInv, SealingInv
  <2>4. head \in Chunks /\ body \in Chunks
    BY DEF Seals
  <2> QED
    BY <2>1, <2>2, <2>3, <2>4
<1>2. PICK start \in [0 .. nonceWriter -> 0 .. taken] : SealedAt(start)
  BY DEF SealedInv, BytesInv
<1>0. PICK start2 :
        start2 = [m \in 0 .. nonceWriter + 2 |->
                    IF m <= nonceWriter THEN start[m]
                    ELSE IF m = nonceWriter + 1 THEN taken ELSE taken + n]
  OBVIOUS
<1>3. /\ start2 \in [0 .. nonceWriter + 2 -> 0 .. taken + n]
      /\ \A m \in 0 .. nonceWriter : start2[m] = start[m]
      /\ start2[nonceWriter] = taken /\ start2[nonceWriter + 1] = taken
      /\ start2[nonceWriter + 2] = taken + n
  <2>1. start[nonceWriter] = taken
    BY <1>2 DEF SealedAt
  <2>2. \A m \in 0 .. nonceWriter : start[m] \in 0 .. taken + n
    BY <1>1, <1>2
  <2>3. \A m \in 0 .. nonceWriter : m \in 0 .. nonceWriter + 2
    BY <1>1
  <2>4. {nonceWriter, nonceWriter + 1, nonceWriter + 2}
          \subseteq 0 .. nonceWriter + 2
    BY <1>1
  <2>5. start2 \in [0 .. nonceWriter + 2 -> 0 .. taken + n]
    BY <1>0, <1>1, <2>2
  <2> QED
    BY <1>0, <1>1, <2>1, <2>3, <2>4, <2>5
<1>4. /\ nonceWriter' = nonceWriter + 2 /\ taken' = taken + n
      /\ UNCHANGED <<nonceReader, received, readerBuf>>
  BY DEF Seals, rvars
<1>5. \A m, k \in 0 .. nonceWriter' : m <= k => start2[m] <= start2[k]
  <2>1. \A m \in 0 .. nonceWriter : start[m] \in 0 .. taken
    BY <1>2
  <2>2. \A m \in 0 .. nonceWriter' :
          m \in 0 .. nonceWriter \/ m = nonceWriter + 1 \/ m = nonceWriter + 2
    BY <1>1, <1>4
  <2>3. \A m, k \in 0 .. nonceWriter : m <= k => start[m] <= start[k]
    BY <1>2 DEF SealedAt
  <2> SUFFICES ASSUME NEW m \in 0 .. nonceWriter', NEW k \in 0 .. nonceWriter',
                      m <= k
               PROVE  start2[m] <= start2[k]
    OBVIOUS
  <2>4. CASE k \in 0 .. nonceWriter
    <3>1. m \in 0 .. nonceWriter
      BY <1>1, <2>4
    <3> QED
      BY <1>3, <2>3, <2>4, <3>1
  <2>5. CASE k = nonceWriter + 1 \/ k = nonceWriter + 2
    <3>1. start2[k] \in {taken, taken + n}
      BY <1>3, <2>5
    <3>2. m \in 0 .. nonceWriter => start2[m] \in 0 .. taken
      BY <1>3, <2>1
    <3>3. m = nonceWriter + 1 => start2[m] = taken
      BY <1>3
    <3>4. m = nonceWriter + 2 => k = nonceWriter + 2
      BY <1>1, <2>5
    <3> QED
      BY <1>1, <2>2, <3>1, <3>2, <3>3, <3>4
  <2> QED
    BY <2>2, <2>4, <2>5
<1> DEFINE Sealed(c) ==
             c.nonce # Forged =>
               /\ c.nonce < nonceWriter'
               /\ Len(c.data) = start2[c.nonce + 1] - start2[c.nonce]
               /\ Continues(c.data, start2[c.nonce])
               /\ c.nonce % 2 = 0 => c.data = <<>>
<1>6. ASSUME NEW i \in 1 .. Len(wire) PROVE Sealed(wire[i])
  <2>1. wire[i] \in Chunks
    BY <1>1, <1>6, ElementOfSeq
  <2>2. wire[i].nonce \in Nat \cup {Forged}
    BY <2>1 DEF Chunks
  <2>3. wire[i].nonce # Forged =>
          wire[i].nonce \in 0 .. nonceWriter
          /\ wire[i].nonce + 1 \in 0 .. nonceWriter
    <3>1. wire[i].nonce # Forged => wire[i].nonce < nonceWriter
      BY <1>2, <1>6 DEF SealedAt
    <3>2. \A m \in Nat : m < nonceWriter =>
            m \in 0 .. nonceWriter /\ m + 1 \in 0 .. nonceWriter
      BY <1>1
    <3> QED
      BY <2>2, <3>1, <3>2
  <2>4. wire[i].nonce # Forged =>
          /\ start2[wire[i].nonce] = start[wire[i].nonce]
          /\ start2[wire[i].nonce + 1] = start[wire[i].nonce + 1]
    BY <1>3, <2>3
  <2>5. wire[i].nonce # Forged =>
          /\ wire[i].nonce < nonceWriter
          /\ Len(wire[i].data)
               = start[wire[i].nonce + 1] - start[wire[i].nonce]
          /\ Continues(wire[i].data, start[wire[i].nonce])
          /\ wire[i].nonce % 2 = 0 => wire[i].data = <<>>
    BY <1>2, <1>6 DEF SealedAt
  <2>6. wire[i].nonce # Forged => wire[i].nonce < nonceWriter'
    <3> SUFFICES ASSUME wire[i].nonce # Forged
                 PROVE  wire[i].nonce < nonceWriter'
      OBVIOUS
    <3>1. wire[i].nonce \in Nat /\ wire[i].nonce < nonceWriter
      BY <2>2, <2>5
    <3> QED
      BY <1>1, <1>4, <3>1
  <2> QED
    BY <2>4, <2>5, <2>6
<1>7. Sealed(head)
  <2>1. head.nonce = nonceWriter /\ head.data = <<>>
    BY DEF Seals
  <2>2. Len(head.data) = 0 /\ Continues(head.data, start2[head.nonce])
    BY <2>1, EmptyContinues
  <2> QED
    BY <1>1, <1>3, <1>4, <2>1, <2>2
<1>8. Sealed(body)
  <2>1. body.nonce = nonceWriter + 1 /\ body.data = Bytes(taken + 1, taken + n)
    BY DEF Seals
  <2>2. Len(body.data) = n /\ Continues(body.data, taken)
    BY <1>1, <2>1, BytesContinue
  <2>3. body.nonce % 2 # 0 /\ body.nonce + 1 = nonceWriter + 2
        /\ body.nonce < nonceWriter'
    BY <1>1, <1>4, <2>1
  <2> QED
    BY <1>1, <1>3, <2>1, <2>2, <2>3
<1>9. ASSUME NEW i \in 1 .. Len(wire') PROVE Sealed(wire'[i])
  <2>1. CASE link = "cut"
    BY <1>6, <1>9, <2>1 DEF Seals
  <2>2. CASE link # "cut"
    <3>1. /\ Len(wire) \in Nat /\ Len(wire') = Len(wire) + 2
          /\ \A j \in 1 .. Len(wire) : wire'[j] = wire[j]
          /\ wire'[Len(wire) + 1] = head /\ wire'[Len(wire) + 2] = body
      BY <1>1, <2>2, TwoMore DEF Seals
    <3>2. i \in 1 .. Len(wire) \/ i = Len(wire) + 1 \/ i = Len(wire) + 2
      BY <1>9, <3>1
    <3> HIDE DEF Sealed
    <3> QED
      BY <1>6, <1>7, <1>8, <3>1, <3>2
  <2> QED
    BY <2>1, <2>2
<1>10. nonceReader' <= nonceWriter'
       /\ Len(received') + Len(readerBuf') = start2[nonceReader']
  <2>1. /\ nonceReader <= nonceWriter
        /\ Len(received) + Len(readerBuf) = start[nonceReader]
    BY <1>2 DEF SealedAt
  <2>2. nonceReader \in 0 .. nonceWriter
    BY <1>1, <2>1
  <2>3. start2[nonceReader] = start[nonceReader]
    BY <1>3, <2>2
  <2> QED
    BY <1>1, <1>4, <2>1, <2>3
<1>11. SealedAt(start2)'
  <2>1. start2[nonceWriter'] = taken'
    BY <1>3, <1>4
  <2> QED
    BY <1>5, <1>9, <1>10, <2>1 DEF SealedAt
<1>12. Continues(received', 0) /\ Continues(readerBuf', Len(received'))
  BY <1>4 DEF SealedInv, BytesInv
<1>13. start2 \in [0 .. nonceWriter' -> 0 .. taken']
  BY <1>3, <1>4
<1> QED
  BY <1>11, <1>12, <1>13 DEF BytesInv

(* A payload that is sealed leaves everything as it should be.             *)
LEMMA SealsPreserves ==
  ASSUME SealedInv, NEW n \in 0 .. (MaxBytes - taken), NEW head, NEW body,
         Seals(head, body, n)
  PROVE  SealedInv'
<1>1. TypeOK'
  <2>1. wire' \in Seq(Chunks)
    BY TwoMore DEF SealedInv, TypeOK, Seals
  <2>2. taken' \in 0 .. MaxBytes
    BY SizeAssumption DEF SealedInv, TypeOK, Seals
  <2> QED
    BY <2>1, <2>2 DEF SealedInv, TypeOK, Seals, rvars
<1>2. SealingInv'
  BY DEF SealedInv, TypeOK, SealingInv, Seals
<1>3. OpeningInv'
  BY DEF SealedInv, OpeningInv, Seals, rvars
<1> QED
  BY <1>1, <1>2, <1>3, SealsIntact, SealsBytes DEF SealedInv

----------------------------------------------------------------------------
(* Shadowsocks, the network and the reading side.                          *)

(* Whatever happens to chunks in flight, an unforged chunk is still one    *)
(* that was sealed (Tamper, Cut).                                          *)
LEMMA FewerChunks ==
  ASSUME SealedInv,
         UNCHANGED <<taken, nonceWriter, nonceReader, received, readerBuf>>,
         \A i \in 1 .. Len(wire') :
           \/ wire'[i].nonce = Forged
           \/ \E j \in 1 .. Len(wire) : wire'[i] = wire[j]
  PROVE  BytesInv'
<1>1. PICK start \in [0 .. nonceWriter -> 0 .. taken] : SealedAt(start)
  BY DEF SealedInv, BytesInv
<1>2. SealedAt(start)'
  BY <1>1 DEF SealedAt
<1> QED
  BY <1>1, <1>2 DEF SealedInv, BytesInv

(* One chunk is taken from the wire.                                       *)
LEMMA TailOfWire ==
  ASSUME NEW S, NEW s \in Seq(S), s # <<>>
  PROVE  /\ s[1] \in S /\ Tail(s) \in Seq(S)
         /\ Len(s) \in Nat /\ Len(s) >= 1 /\ Len(Tail(s)) = Len(s) - 1
         /\ \A i \in 1 .. Len(Tail(s)) : Tail(s)[i] = s[i + 1]
<1>1. /\ Tail(s) \in Seq(S) /\ Len(Tail(s)) = Len(s) - 1
      /\ \A i \in 1 .. Len(Tail(s)) : Tail(s)[i] = s[i + 1]
  BY HeadTailProperties
<1>2. Len(s) \in Nat /\ Len(s) >= 1
  BY LenProperties, EmptySeq
<1>3. s[1] \in S
  BY <1>2, ElementOfSeq
<1> QED
  BY <1>1, <1>2, <1>3

(* A caller that has room takes at least one byte, and none too many.      *)
LEMMA TakenFacts ==
  ASSUME NEW S, NEW data \in Seq(S), NEW n \in TakenByCaller(data)
  PROVE  n \in 0 .. Len(data) /\ (data # <<>> => n >= 1)
<1>1. Len(data) \in Nat /\ (data # <<>> => Len(data) >= 1)
  BY LenProperties, EmptySeq
<1>2. ReadSizes \subseteq Nat \ {0}
  BY SizeAssumption
<1> QED
  BY <1>1, <1>2 DEF TakenByCaller, MinOf

(* copyReadPayload hands on the front of the bytes and keeps the rest.     *)
LEMMA CopyFacts ==
  ASSUME received \in Seq(1 .. MaxBytes), NEW data \in Seq(1 .. MaxBytes),
         NEW n \in 0 .. Len(data), CopyReadPayload(data, n)
  PROVE  /\ received' \in Seq(1 .. MaxBytes)
         /\ readerBuf' \in Seq(1 .. MaxBytes)
         /\ Len(received') = Len(received) + n
         /\ Len(received') + Len(readerBuf') = Len(received) + Len(data)
         /\ Continues(received, 0) /\ Continues(data, Len(received)) =>
              /\ Continues(received', 0)
              /\ Continues(readerBuf', Len(received'))
<1> DEFINE front == SubSeq(data, 1, n)
           rest == SubSeq(data, n + 1, Len(data))
<1>1. Len(received) \in Nat /\ Len(data) \in Nat
  BY LenProperties
<1>2. /\ front \in Seq(1 .. MaxBytes) /\ Len(front) = n
      /\ rest \in Seq(1 .. MaxBytes) /\ Len(rest) = Len(data) - n
      /\ Continues(data, Len(received)) =>
           /\ Continues(front, Len(received))
           /\ Continues(rest, Len(received) + n)
  BY <1>1, SplitContinues
<1>3. received' = received \o front /\ readerBuf' = rest
  BY DEF CopyReadPayload
<1> HIDE DEF front, rest
<1>4. /\ received \o front \in Seq(1 .. MaxBytes)
      /\ Len(received \o front) = Len(received) + Len(front)
      /\ Continues(received, 0) /\ Continues(front, 0 + Len(received)) =>
           Continues(received \o front, 0)
  <2>1. 0 \in Nat
    OBVIOUS
  <2> QED
    BY <1>2, <2>1, ConcatContinues
<1>5. 0 + Len(received) = Len(received)
  BY <1>1
<1>6. Len(received') = Len(received) + n /\ Len(readerBuf') = Len(data) - n
  BY <1>2, <1>3, <1>4
<1>7. Len(received') + Len(readerBuf') = Len(received) + Len(data)
  BY <1>1, <1>6
<1> QED
  BY <1>2, <1>3, <1>4, <1>5, <1>6, <1>7

(* What every step has in common that opens the chunk in front.            *)
OpensChunk ==
  /\ wire # <<>> /\ wire[1].nonce = nonceReader /\ readerBuf = <<>>
  /\ nonceReader' = nonceReader + 1
  /\ wire' = Tail(wire)
  /\ UNCHANGED <<wvars, link, isClient>>
  /\ received' \in Seq(1 .. MaxBytes) /\ readerBuf' \in Seq(1 .. MaxBytes)
  /\ Len(received') + Len(readerBuf') = Len(received) + Len(wire[1].data)
  /\ Continues(received, 0) /\ Continues(wire[1].data, Len(received)) =>
       Continues(received', 0) /\ Continues(readerBuf', Len(received'))

(* The bytes of the chunk that is opened are those the reader waits for.   *)
LEMMA OpensBytes ==
  ASSUME SealedInv, OpensChunk
  PROVE  BytesInv'
<1>1. /\ wire \in Seq(Chunks) /\ wire # <<>>
      /\ received \in Seq(1 .. MaxBytes)
      /\ nonceReader \in Nat /\ nonceWriter \in Nat /\ taken \in Nat
  BY DEF SealedInv, TypeOK, OpensChunk
<1>2. PICK start \in [0 .. nonceWriter -> 0 .. taken] : SealedAt(start)
  BY DEF SealedInv, BytesInv
<1>3. /\ Tail(wire) \in Seq(Chunks) /\ Len(wire) \in Nat /\ Len(wire) >= 1
      /\ Len(Tail(wire)) = Len(wire) - 1
      /\ \A i \in 1 .. Len(Tail(wire)) : Tail(wire)[i] = wire[i + 1]
  BY <1>1, TailOfWire
<1>4. wire[1].nonce = nonceReader /\ nonceReader # Forged
  BY <1>1 DEF OpensChunk, Forged
<1>5. /\ nonceReader < nonceWriter
      /\ Len(wire[1].data) = start[nonceReader + 1] - start[nonceReader]
      /\ Continues(wire[1].data, start[nonceReader])
  BY <1>2, <1>3, <1>4 DEF SealedAt
<1>6. Len(received) = start[nonceReader]
  <2>1. Len(received) + Len(readerBuf) = start[nonceReader]
    BY <1>2 DEF SealedAt
  <2>2. Len(readerBuf) = 0
    BY DEF OpensChunk
  <2> QED
    BY <1>1, <2>1, <2>2, LenProperties
<1>7. /\ start[nonceReader] \in Nat /\ start[nonceReader + 1] \in Nat
  BY <1>1, <1>2, <1>5
<1>8. Len(received') + Len(readerBuf') = start[nonceReader']
  BY <1>5, <1>6, <1>7 DEF OpensChunk
<1>9. UNCHANGED <<taken, nonceWriter>> /\ nonceReader' <= nonceWriter'
  BY <1>1, <1>5 DEF OpensChunk, wvars
<1>10. ASSUME NEW i \in 1 .. Len(wire')
       PROVE  i + 1 \in 1 .. Len(wire) /\ wire'[i] = wire[i + 1]
  BY <1>3, <1>10 DEF OpensChunk
<1>11. SealedAt(start)'
  BY <1>2, <1>8, <1>9, <1>10 DEF SealedAt
<1>12. Continues(received', 0) /\ Continues(readerBuf', Len(received'))
  BY <1>5, <1>6 DEF OpensChunk, SealedInv, BytesInv
<1> QED
  BY <1>2, <1>9, <1>11, <1>12 DEF BytesInv

(* Behind the chunk that is opened the others are as they were sealed.     *)
LEMMA OpensIntact ==
  ASSUME SealedInv, OpensChunk, link = "up"
  PROVE  /\ nonceWriter' = nonceReader' + Len(wire')
         /\ \A i \in 1 .. Len(wire') : WellSealed(i)'
<1>1. /\ wire \in Seq(Chunks) /\ wire # <<>>
      /\ nonceReader \in Nat /\ nonceWriter \in Nat
      /\ nonceWriter = nonceReader + Len(wire)
      /\ \A i \in 1 .. Len(wire) : WellSealed(i)
  BY DEF SealedInv, TypeOK, OpensChunk, IntactInv
<1>2. /\ Len(wire) \in Nat /\ Len(Tail(wire)) = Len(wire) - 1
      /\ \A i \in 1 .. Len(Tail(wire)) : Tail(wire)[i] = wire[i + 1]
  BY <1>1, TailOfWire
<1>3. nonceWriter' = nonceReader' + Len(wire')
  BY <1>1, <1>2 DEF OpensChunk, wvars
<1>4. ASSUME NEW i \in 1 .. Len(wire') PROVE WellSealed(i)'
  <2>1. /\ i + 1 \in 1 .. Len(wire) /\ wire'[i] = wire[i + 1]
        /\ i > 1 => wire'[i - 1] = wire[i]
    <3>1. i > 1 => i - 1 \in 1 .. Len(Tail(wire)) /\ (i - 1) + 1 = i
      BY <1>2, <1>4 DEF OpensChunk
    <3> QED
      BY <1>2, <1>4, <3>1 DEF OpensChunk
  <2>2. WellSealed(i + 1)
    BY <1>1, <2>1
  <2>3. nonceReader + (i + 1) - 1 = nonceReader' + i - 1 /\ (i + 1) - 1 = i
    BY <1>1 DEF OpensChunk
  <2>4. i + 1 > 1 /\ isClient' = isClient
    BY DEF OpensChunk
  <2> QED
    BY <2>1, <2>2, <2>3, <2>4 DEF WellSealed
<1> QED
  BY <1>3, <1>4

(* The chunk in front, as long as nobody has touched the connection, is    *)
(* the one the reading side expects.                                       *)
LEMMA FrontIsAccepted ==
  ASSUME SealedInv, link = "up", wire # <<>>,
         reading \notin {"ended", "failed"}
  PROVE  NextChunkAccepted
<1>1. /\ wire \in Seq(Chunks) /\ nonceReader \in Nat
      /\ \A i \in 1 .. Len(wire) : WellSealed(i)
      /\ reading \in {"firstPayload", "payload"} => wire[1].size = expect
      /\ reading \in Readings
  BY DEF SealedInv, TypeOK, IntactInv
<1>2. Len(wire) \in Nat /\ Len(wire) >= 1
  BY <1>1, TailOfWire
<1>3. wire[1].nonce = nonceReader /\ WellSealed(1)
  <2>1. WellSealed(1)
    BY <1>1, <1>2
  <2>2. nonceReader + 1 - 1 = nonceReader
    BY <1>1
  <2> QED
    BY <2>1, <2>2 DEF WellSealed
<1>4. CASE reading = "fixedHeader"
  BY <1>3, <1>4 DEF SealedInv, OpeningInv, WellSealed, NextChunkAccepted, Opens
<1>5. CASE reading = "firstPayload"
  BY <1>1, <1>3, <1>5
  DEF SealedInv, OpeningInv, WellSealed, NextChunkAccepted,
      FirstPayloadAccepted, Opens
<1>6. CASE reading = "length"
  <2>1. nonceReader >= 2 /\ nonceReader % 2 = 0
    BY <1>6 DEF SealedInv, OpeningInv
  <2>2. nonceReader > 0
    BY <1>1, <2>1
  <2> QED
    BY <1>3, <1>6, <2>1, <2>2 DEF WellSealed, NextChunkAccepted, Opens
<1>7. CASE reading = "payload"
  BY <1>1, <1>3, <1>7 DEF NextChunkAccepted, Opens
<1> QED
  BY <1>1, <1>4, <1>5, <1>6, <1>7 DEF Readings

(* SourceFails and CloseWrite put nothing on the wire.                     *)
LEMMA WriterStopsPreserves ==
  ASSUME SealedInv, SourceFails \/ CloseWrite, UNCHANGED isClient
  PROVE  SealedInv'
<1>1. /\ UNCHANGED <<isClient, taken, nonceWriter, wire, link, rvars>>
      /\ nonceWriter \in Nat
  BY DEF SourceFails, CloseWrite, SealedInv, TypeOK
<1>2. TypeOK'
  BY <1>1 DEF SealedInv, TypeOK, SourceFails, CloseWrite, rvars
<1>3. SealingInv'
  BY <1>1 DEF SealedInv, SealingInv, SourceFails, CloseWrite
<1>4. OpeningInv'
  BY <1>1 DEF SealedInv, OpeningInv, rvars
<1>5. IntactInv'
  <2>1. UNCHANGED <<isClient, nonceWriter, wire, link, nonceReader, reading,
                    expect>>
    BY <1>1 DEF rvars
  <2> QED
    BY <2>1 DEF SealedInv, IntactInv, WellSealed
<1>6. BytesInv'
  BY <1>1, FewerChunks DEF rvars
<1> QED
  BY <1>2, <1>3, <1>4, <1>5, <1>6 DEF SealedInv

(* The network changes nothing but chunks in flight, and forges them or    *)
(* leaves them as they were sealed.                                        *)
LEMMA NetworkPreserves ==
  ASSUME SealedInv, Network
  PROVE  SealedInv'
<1>1. /\ wire \in Seq(Chunks) /\ Len(wire) \in Nat
      /\ UNCHANGED <<wvars, rvars, isClient>>
      /\ link' \in {"fragmented", "tampered", "cut"}
  BY LenProperties DEF Network, Fragment, Tamper, Cut, SealedInv, TypeOK
<1> DEFINE Old(c) == c.nonce = Forged \/ \E j \in 1 .. Len(wire) : c = wire[j]
<1>2. /\ wire' \in Seq(Chunks)
      /\ \A i \in 1 .. Len(wire') : Old(wire'[i])
      /\ wire = <<>> => wire' = <<>>
  <2>1. CASE wire' = wire
    BY <1>1, <2>1
  <2>2. CASE \E i \in 1 .. Len(wire) :
               wire' = [wire EXCEPT ![i].nonce = Forged]
    <3>1. PICK i \in 1 .. Len(wire) : wire' = [wire EXCEPT ![i].nonce = Forged]
      BY <2>2
    <3>2. wire[i] \in Chunks
      BY <1>1, ElementOfSeq
    <3>3. PICK c : c = [wire[i] EXCEPT !.nonce = Forged]
      OBVIOUS
    <3>4. c \in Chunks /\ c.nonce = Forged
      BY <3>2, <3>3 DEF Chunks
    <3>5. wire' = [wire EXCEPT ![i] = c]
      BY <3>1, <3>3
    <3>6. /\ wire' \in Seq(Chunks) /\ Len(wire') = Len(wire)
          /\ \A j \in 1 .. Len(wire) :
               wire'[j] = IF j = i THEN c ELSE wire[j]
      BY <1>1, <3>4, <3>5, ExceptSeq
    <3>7. wire # <<>>
      BY <1>1, EmptySeq
    <3> QED
      BY <3>4, <3>6, <3>7
  <2>3. CASE \E i \in 1 .. Len(wire) :
               wire' = SubSeq(wire, 1, i - 1) \o SubSeq(wire, i + 1, Len(wire))
    <3>1. PICK i \in 1 .. Len(wire) :
            wire' = SubSeq(wire, 1, i - 1) \o SubSeq(wire, i + 1, Len(wire))
      BY <2>3
    <3>2. PICK front, rest : /\ front = SubSeq(wire, 1, i - 1)
                             /\ rest = SubSeq(wire, i + 1, Len(wire))
      OBVIOUS
    <3>3. /\ front \in Seq(Chunks) /\ Len(front) = i - 1
          /\ \A j \in 1 .. i - 1 : front[j] = wire[j]
      BY <1>1, <3>2, PartOfWire
    <3>4. /\ rest \in Seq(Chunks) /\ Len(rest) = Len(wire) - i
          /\ \A j \in 1 .. Len(wire) - i : rest[j] = wire[i + j]
      BY <1>1, <3>2, PartOfWire
    <3> DEFINE both == front \o rest
    <3>8. wire' = both
      BY <3>1, <3>2
    <3>9. /\ both \in Seq(Chunks) /\ Len(both) = Len(front) + Len(rest)
          /\ \A j \in 1 .. Len(front) + Len(rest) :
               both[j] = IF j <= Len(front) THEN front[j]
                                            ELSE rest[j - Len(front)]
      BY <3>3, <3>4, ConcatProperties
    <3> HIDE DEF both
    <3>5. /\ wire' \in Seq(Chunks) /\ Len(wire') = Len(front) + Len(rest)
          /\ \A j \in 1 .. Len(front) + Len(rest) :
               wire'[j] = IF j <= Len(front) THEN front[j]
                                             ELSE rest[j - Len(front)]
      BY <3>8, <3>9
    <3>6. ASSUME NEW j \in 1 .. Len(wire')
          PROVE  \E k \in 1 .. Len(wire) : wire'[j] = wire[k]
      <4>1. CASE j <= i - 1
        <5>1. j \in 1 .. i - 1 /\ j \in 1 .. Len(wire)
          BY <1>1, <3>6, <4>1
        <5> QED
          BY <3>3, <3>5, <3>6, <4>1, <5>1
      <4>2. CASE ~ j <= i - 1
        <5>1. /\ j - (i - 1) \in 1 .. Len(wire) - i
              /\ i + (j - (i - 1)) \in 1 .. Len(wire)
          BY <1>1, <3>3, <3>4, <3>5, <3>6, <4>2
        <5>2. wire'[j] = rest[j - (i - 1)]
          BY <3>3, <3>5, <3>6, <4>2
        <5> QED
          BY <3>4, <5>1, <5>2
      <4> QED
        BY <4>1, <4>2
    <3>7. wire # <<>>
      BY <1>1, EmptySeq
    <3> QED
      BY <3>5, <3>6, <3>7
  <2>4. CASE \E i \in 1 .. Len(wire) :
               /\ i < Len(wire)
               /\ wire' = [wire EXCEPT ![i] = wire[i + 1], ![i + 1] = wire[i]]
    <3>1. PICK i \in 1 .. Len(wire) :
            /\ i < Len(wire)
            /\ wire' = [wire EXCEPT ![i] = wire[i + 1], ![i + 1] = wire[i]]
      BY <2>4
    <3>2. PICK one : one = [wire EXCEPT ![i] = wire[i + 1]]
      OBVIOUS
    <3>3. i + 1 \in 1 .. Len(wire)
      BY <1>1, <3>1
    <3>4. wire[i] \in Chunks /\ wire[i + 1] \in Chunks
      BY <1>1, <3>3, ElementOfSeq
    <3>5. /\ one \in Seq(Chunks) /\ Len(one) = Len(wire)
          /\ \A j \in 1 .. Len(wire) :
               one[j] = IF j = i THEN wire[i + 1] ELSE wire[j]
      BY <1>1, <3>2, <3>4, ExceptSeq
    <3>6. wire' = [one EXCEPT ![i + 1] = wire[i]]
      BY <3>1, <3>2
    <3>7. /\ wire' \in Seq(Chunks) /\ Len(wire') = Len(one)
          /\ \A j \in 1 .. Len(one) :
               wire'[j] = IF j = i + 1 THEN wire[i] ELSE one[j]
      BY <3>3, <3>4, <3>5, <3>6, ExceptSeq
    <3>8. ASSUME NEW j \in 1 .. Len(wire')
          PROVE  \E k \in 1 .. Len(wire) : wire'[j] = wire[k]
      <4>1. wire'[j] \in {wire[i], wire[i + 1], wire[j]}
        BY <3>5, <3>7, <3>8
      <4>2. j \in 1 .. Len(wire)
        BY <3>5, <3>7, <3>8
      <4> QED
        BY <3>3, <4>1, <4>2
    <3>9. wire # <<>>
      BY <1>1, EmptySeq
    <3> QED
      BY <3>7, <3>8, <3>9
  <2>5. CASE \E k \in 0 .. Len(wire) : wire' = SubSeq(wire, 1, k)
    <3>1. PICK k \in 0 .. Len(wire) : wire' = SubSeq(wire, 1, k)
      BY <2>5
    <3>2. /\ wire' \in Seq(Chunks) /\ Len(wire') = k
          /\ \A j \in 1 .. k : wire'[j] = wire[j]
      BY <1>1, <3>1, PartOfWire
    <3>3. \A j \in 1 .. k : j \in 1 .. Len(wire)
      BY <1>1
    <3>4. wire = <<>> => k = 0
      BY <1>1
    <3>5. k = 0 => wire' = <<>>
      BY <3>2, EmptySeq
    <3> QED
      BY <3>2, <3>3, <3>4, <3>5
  <2> QED
    BY <2>1, <2>2, <2>3, <2>4, <2>5 DEF Network, Fragment, Tamper, Cut
<1>3. TypeOK'
  BY <1>1, <1>2 DEF SealedInv, TypeOK, wvars, rvars
<1>4. SealingInv'
  BY <1>1, <1>2 DEF SealedInv, SealingInv, wvars
<1>5. OpeningInv'
  BY <1>1 DEF SealedInv, OpeningInv, rvars
<1>6. IntactInv'
  BY <1>1 DEF IntactInv
<1>7. BytesInv'
  BY <1>1, <1>2, FewerChunks DEF wvars, rvars
<1> QED
  BY <1>3, <1>4, <1>5, <1>6, <1>7 DEF SealedInv

(* What is handed on when a chunk is opened is its data (KeepFirstPayload, *)
(* copyReadPayload, copyReadPayloadEncrypted) or nothing (ReadLength).     *)
LEMMA ReadsChunk ==
  ASSUME SealedInv, UNCHANGED isClient,
         ReadFixedHeader \/ ReadFirstPayload \/ ReadLength \/ ReadPayload,
         reading' # "failed"
  PROVE  OpensChunk /\ Len(received') >= Len(received)
<1>1. /\ wire \in Seq(Chunks) /\ received \in Seq(1 .. MaxBytes)
      /\ isClient \in BOOLEAN
  BY DEF SealedInv, TypeOK
<1>2. /\ wire # <<>> /\ wire[1].nonce = nonceReader /\ readerBuf = <<>>
      /\ nonceReader' = nonceReader + 1 /\ wire' = Tail(wire)
      /\ UNCHANGED <<wvars, link, isClient>>
  BY DEF ReadFixedHeader, ReadFirstPayload, ReadLength, ReadPayload, Opens,
         FirstPayloadAccepted, SealedInv, OpeningInv
<1>3. wire[1] \in Chunks
  BY <1>1, <1>2, TailOfWire
<1> DEFINE data == wire[1].data
<1>4. data \in Seq(1 .. MaxBytes) /\ Len(data) \in Nat
  BY <1>3, LenProperties DEF Chunks
<1>5. Len(received) \in Nat /\ Len(readerBuf) = 0
  BY <1>1, <1>2, LenProperties, EmptySeq
<1> DEFINE Passes ==
      /\ received' \in Seq(1 .. MaxBytes) /\ readerBuf' \in Seq(1 .. MaxBytes)
      /\ Len(received') + Len(readerBuf') = Len(received) + Len(data)
      /\ Continues(received, 0) /\ Continues(data, Len(received)) =>
           Continues(received', 0) /\ Continues(readerBuf', Len(received'))
      /\ Len(received') >= Len(received)
<1>6. CASE ReadFixedHeader \/ ReadLength
  <2>1. readerBuf' = <<>> /\ received' = received
    BY <1>2, <1>6 DEF ReadFixedHeader, ReadLength
  <2>2. data = <<>>
    <3>1. nonceReader # Forged /\ nonceReader % 2 = 0
      <4>1. nonceReader \in Nat /\ 0 % 2 = 0
        BY DEF SealedInv, TypeOK
      <4>2. nonceReader = 0 \/ nonceReader % 2 = 0
        BY <1>6 DEF SealedInv, OpeningInv, ReadFixedHeader, ReadLength
      <4> QED
        BY <4>1, <4>2 DEF Forged
    <3>2. 1 \in 1 .. Len(wire)
      BY <1>1, <1>2, TailOfWire
    <3> QED
      BY <1>2, <3>1, <3>2 DEF SealedInv, BytesInv, SealedAt
  <2>3. Passes
    BY <1>1, <1>4, <1>5, <2>1, <2>2, EmptyContinues
  <2> QED
    BY <1>2, <2>3 DEF OpensChunk
<1>7. CASE ReadFirstPayload /\ isClient
  <2>1. readerBuf' = data /\ received' = received
    BY <1>7 DEF ReadFirstPayload, KeepFirstPayload
  <2>2. Passes
    BY <1>1, <1>4, <2>1
  <2> QED
    BY <1>2, <2>2 DEF OpensChunk
<1>8. CASE (ReadFirstPayload /\ ~ isClient) \/ ReadPayload
  <2>1. PICK n \in TakenByCaller(data) : CopyReadPayload(data, n)
    BY <1>8 DEF ReadFirstPayload, ReadPayload
  <2>2. n \in 0 .. Len(data) /\ (data # <<>> => n >= 1)
    BY <1>4, TakenFacts
  <2> HIDE DEF data
  <2>3. /\ received' \in Seq(1 .. MaxBytes)
        /\ readerBuf' \in Seq(1 .. MaxBytes)
        /\ Len(received') = Len(received) + n
        /\ Len(received') + Len(readerBuf') = Len(received) + Len(data)
        /\ Continues(received, 0) /\ Continues(data, Len(received)) =>
             Continues(received', 0) /\ Continues(readerBuf', Len(received'))
    BY <1>1, <1>4, <2>1, <2>2, CopyFacts
  <2>4. Passes
    BY <1>5, <2>2, <2>3
  <2> QED
    BY <1>2, <2>4 DEF OpensChunk, data
<1> QED
  BY <1>1, <1>6, <1>7, <1>8

(* Opening a chunk leaves everything as it should be.                      *)
LEMMA ReadsChunkPreserves ==
  ASSUME SealedInv, UNCHANGED isClient,
         ReadFixedHeader \/ ReadFirstPayload \/ ReadLength \/ ReadPayload,
         reading' # "failed"
  PROVE  SealedInv'
<1>1. OpensChunk
  BY ReadsChunk
<1>2. /\ wire \in Seq(Chunks) /\ wire # <<>> /\ nonceReader \in Nat
      /\ reading \in Readings
  BY <1>1 DEF SealedInv, TypeOK, OpensChunk
<1>3. /\ wire[1] \in Chunks /\ Tail(wire) \in Seq(Chunks)
      /\ Len(wire) \in Nat /\ Len(Tail(wire)) = Len(wire) - 1
      /\ \A i \in 1 .. Len(Tail(wire)) : Tail(wire)[i] = wire[i + 1]
  BY <1>2, TailOfWire
<1>4. TypeOK'
  <2>1. /\ reading' \in Readings /\ expect' \in 0 .. MaxChunkSize
    <3>1. wire[1].len \in 0 .. MaxChunkSize
      BY <1>3 DEF Chunks
    <3> QED
      BY <3>1 DEF ReadFixedHeader, ReadFirstPayload, ReadLength, ReadPayload,
                  Readings, SealedInv, TypeOK
  <2>2. nonceReader' \in Nat
    BY <1>1, <1>2 DEF OpensChunk
  <2> QED
    BY <1>1, <1>3, <2>1, <2>2 DEF SealedInv, TypeOK, OpensChunk, wvars
<1>5. SealingInv'
  BY <1>1, <1>2 DEF SealedInv, SealingInv, OpensChunk, wvars
<1>6. OpeningInv'
  <2>1. nonceReader' = nonceReader + 1
    BY <1>1 DEF OpensChunk
  <2>2. CASE ReadFixedHeader
    <3>1. /\ reading' = "firstPayload" /\ readerBuf' = <<>>
          /\ nonceReader = 0
      BY <2>2 DEF ReadFixedHeader, SealedInv, OpeningInv
    <3> QED
      BY <2>1, <3>1 DEF OpeningInv
  <2>3. CASE ReadFirstPayload
    <3>1. reading' = "length" /\ nonceReader = 1
      BY <2>3 DEF ReadFirstPayload, SealedInv, OpeningInv
    <3> QED
      BY <2>1, <3>1 DEF OpeningInv
  <2>4. CASE ReadLength
    <3>1. /\ reading' = "payload" /\ readerBuf' = <<>>
          /\ nonceReader >= 2 /\ nonceReader % 2 = 0
      BY <2>4 DEF ReadLength, SealedInv, OpeningInv
    <3>2. nonceReader' >= 2 /\ nonceReader' % 2 = 1
      BY <1>2, <2>1, <3>1
    <3> QED
      BY <3>1, <3>2 DEF OpeningInv
  <2>5. CASE ReadPayload
    <3>1. /\ reading' = "length" /\ nonceReader >= 2 /\ nonceReader % 2 = 1
      BY <2>5 DEF ReadPayload, SealedInv, OpeningInv
    <3>2. nonceReader' >= 2 /\ nonceReader' % 2 = 0
      BY <1>2, <2>1, <3>1
    <3> QED
      BY <3>1, <3>2 DEF OpeningInv
  <2> QED
    BY <2>2, <2>3, <2>4, <2>5
<1>7. IntactInv'
  <2> SUFFICES ASSUME link = "up", reading' \in {"firstPayload", "payload"},
                      wire' # <<>>
               PROVE  wire'[1].size = expect'
    BY <1>1, OpensIntact DEF IntactInv, OpensChunk
  <2>1. expect' = wire[1].len /\ nonceReader % 2 = 0 /\ wire' = Tail(wire)
    BY <1>1 DEF ReadFixedHeader, ReadFirstPayload, ReadLength, ReadPayload,
                SealedInv, OpeningInv, OpensChunk
  <2>2. 2 \in 1 .. Len(wire) /\ wire'[1] = wire[2]
    <3>1. Len(Tail(wire)) >= 1
      BY <1>3, <2>1, EmptySeq, LenProperties
    <3>2. 1 \in 1 .. Len(Tail(wire)) /\ 1 + 1 = 2 /\ Len(wire) >= 2
      BY <1>3, <3>1
    <3> QED
      BY <1>3, <2>1, <3>2
  <2>3. WellSealed(2)
    BY <2>2 DEF SealedInv, IntactInv
  <2>4. wire[2].nonce % 2 = 1 /\ 2 - 1 = 1 /\ 2 > 1
    <3>1. wire[2].nonce = nonceReader + 2 - 1
      BY <2>3 DEF WellSealed
    <3>2. (nonceReader + 2 - 1) % 2 = 1
      BY <1>2, <2>1
    <3> QED
      BY <3>1, <3>2
  <2>5. wire[2].size = wire[2 - 1].len
    BY <2>3, <2>4 DEF WellSealed
  <2> QED
    BY <2>1, <2>2, <2>4, <2>5
<1>8. BytesInv'
  BY <1>1, OpensBytes
<1> QED
  BY <1>4, <1>5, <1>6, <1>7, <1>8 DEF SealedInv

(* readOrWriteTo hands on bytes that are buffered.                         *)
LEMMA ReadBufferedPreserves ==
  ASSUME SealedInv, ReadBuffered, UNCHANGED isClient
  PROVE  SealedInv' /\ Len(received') > Len(received)
<1>1. /\ readerBuf \in Seq(1 .. MaxBytes) /\ received \in Seq(1 .. MaxBytes)
      /\ readerBuf # <<>>
      /\ UNCHANGED <<reading, expect, nonceReader, wire, wvars, link>>
  BY DEF SealedInv, TypeOK, ReadBuffered
<1>2. PICK n \in TakenByCaller(readerBuf) : CopyReadPayload(readerBuf, n)
  BY DEF ReadBuffered
<1>3. n \in 0 .. Len(readerBuf) /\ n >= 1
  BY <1>1, TakenFacts
<1>4. /\ received' \in Seq(1 .. MaxBytes) /\ readerBuf' \in Seq(1 .. MaxBytes)
      /\ Len(received') = Len(received) + n
      /\ Len(received') + Len(readerBuf') = Len(received) + Len(readerBuf)
      /\ Continues(received, 0) /\ Continues(readerBuf, Len(received)) =>
           Continues(received', 0) /\ Continues(readerBuf', Len(received'))
  BY <1>1, <1>2, <1>3, CopyFacts
<1>5. Len(received') > Len(received)
  BY <1>1, <1>3, <1>4, LenProperties
<1>6. TypeOK'
  BY <1>1, <1>4 DEF SealedInv, TypeOK, wvars
<1>7. SealingInv' /\ OpeningInv'
  BY <1>1 DEF SealedInv, SealingInv, OpeningInv, ReadBuffered, wvars
<1>8. IntactInv'
  <2>1. UNCHANGED <<isClient, nonceWriter, wire, link, nonceReader, reading,
                    expect>>
    BY <1>1 DEF wvars
  <2> QED
    BY <2>1 DEF SealedInv, IntactInv, WellSealed
<1>9. BytesInv'
  <2>1. PICK start \in [0 .. nonceWriter -> 0 .. taken] : SealedAt(start)
    BY DEF SealedInv, BytesInv
  <2>2. UNCHANGED <<taken, nonceWriter, wire, nonceReader>>
    BY <1>1 DEF wvars
  <2>3. SealedAt(start)'
    BY <1>4, <2>1, <2>2 DEF SealedAt
  <2> QED
    BY <1>4, <2>1, <2>2, <2>3 DEF SealedInv, BytesInv
<1> QED
  BY <1>5, <1>6, <1>7, <1>8, <1>9 DEF SealedInv

(* A read that ends or fails leaves the wire and the bytes alone.          *)
LEMMA ReaderStopsPreserves ==
  ASSUME SealedInv, UNCHANGED isClient,
         RejectChunk \/ ReadEnd \/ (ReadFixedHeader /\ reading' = "failed")
  PROVE  SealedInv' /\ UNCHANGED received /\ reading' \in {"ended", "failed"}
<1>1. /\ UNCHANGED <<isClient, expect, nonceReader, readerBuf, received, wire,
                     wvars, link>>
      /\ readerBuf = <<>> /\ reading' \in {"ended", "failed"}
  BY DEF RejectChunk, ReadEnd, ReadFixedHeader, SealedInv, OpeningInv
<1>2. TypeOK'
  BY <1>1 DEF SealedInv, TypeOK, Readings, wvars
<1>3. SealingInv'
  BY <1>1 DEF SealedInv, SealingInv, wvars
<1>4. OpeningInv'
  BY <1>1 DEF SealedInv, OpeningInv
<1>5. IntactInv'
  <2>1. UNCHANGED <<isClient, nonceWriter, wire, link, nonceReader>>
        /\ reading' \notin {"firstPayload", "payload"}
    BY <1>1 DEF wvars
  <2> QED
    BY <2>1 DEF SealedInv, IntactInv, WellSealed
<1>6. BytesInv'
  BY <1>1, FewerChunks DEF wvars
<1> QED
  BY <1>1, <1>2, <1>3, <1>4, <1>5, <1>6 DEF SealedInv

(* Every step of a Shadowsocks stream keeps the invariant.                 *)
LEMMA SealedStep ==
  ASSUME SealedInv, [Next]_vars
  PROVE  SealedInv'
<1>1. CASE UNCHANGED vars
  <2>1. TypeOK' /\ SealingInv' /\ OpeningInv'
    BY <1>1 DEF SealedInv, TypeOK, SealingInv, OpeningInv, vars
  <2>2. IntactInv'
    BY <1>1 DEF SealedInv, IntactInv, WellSealed, vars
  <2>3. BytesInv'
    BY <1>1, FewerChunks DEF vars
  <2> QED
    BY <2>1, <2>2, <2>3 DEF SealedInv
<1>2. CASE Write
  <2>1. CASE \E n \in 0 .. (MaxBytes - taken) : WriteFirstPayload(n)
    BY <1>2, <2>1, FirstPayloadSeals, SealsPreserves DEF Write
  <2>2. CASE \E n \in 1 .. (MaxBytes - taken) : WriteChunk(n)
    <3>1. PICK n \in 1 .. (MaxBytes - taken) : WriteChunk(n)
      BY <2>2
    <3>2. n \in 0 .. (MaxBytes - taken)
      BY <3>1
    <3> QED
      BY <1>2, <3>1, <3>2, ChunkSeals, SealsPreserves DEF Write
  <2>3. CASE SourceFails \/ CloseWrite
    BY <1>2, <2>3, WriterStopsPreserves DEF Write
  <2> QED
    BY <1>2, <2>1, <2>2, <2>3 DEF Write
<1>3. CASE Network
  BY <1>3, NetworkPreserves
<1>4. CASE ReadStep
  <2>1. UNCHANGED isClient
    BY <1>4 DEF ReadStep
  <2>2. CASE ReadBuffered
    BY <2>1, <2>2, ReadBufferedPreserves
  <2>3. CASE RejectChunk \/ ReadEnd
    BY <2>1, <2>3, ReaderStopsPreserves
  <2>4. CASE ReadFixedHeader \/ ReadFirstPayload \/ ReadLength \/ ReadPayload
    <3>1. CASE reading' = "failed"
      <4>1. ReadFixedHeader
        BY <2>4, <3>1 DEF ReadFirstPayload, ReadLength, ReadPayload
      <4> QED
        BY <2>1, <3>1, <4>1, ReaderStopsPreserves
    <3>2. CASE reading' # "failed"
      BY <2>1, <2>4, <3>2, ReadsChunkPreserves
    <3> QED
      BY <3>1, <3>2
  <2> QED
    BY <1>4, <2>2, <2>3, <2>4 DEF ReadStep
<1> QED
  BY <1>1, <1>2, <1>3, <1>4 DEF Next

(* Before the first payload nothing is sealed and nothing is expected.     *)
LEMMA SealedStart ==
  ASSUME Init
  PROVE  SealedInv
<1>1. MaxBytes \in Nat /\ 0 \in 0 .. MaxChunkSize /\ 0 % 2 = 0
  BY SizeAssumption
<1>2. <<>> \in Seq(Chunks) /\ <<>> \in Seq(1 .. MaxBytes) /\ Len(<<>>) = 0
  OBVIOUS
<1>3. TypeOK
  <2>1. 0 \in Nat /\ 0 \in 0 .. MaxBytes
    BY <1>1
  <2> QED
    BY <1>1, <1>2, <2>1 DEF Init, TypeOK, Readings
<1>4. SealingInv /\ OpeningInv
  BY <1>1 DEF Init, SealingInv, OpeningInv
<1>5. IntactInv
  BY <1>2 DEF Init, IntactInv
<1>6. BytesInv
  <2>1. PICK start : start = [m \in 0 .. 0 |-> 0]
    OBVIOUS
  <2>2. start \in [0 .. nonceWriter -> 0 .. taken] /\ start[0] = 0
    BY <2>1 DEF Init
  <2>3. \A m \in 0 .. 0 : m = 0
    OBVIOUS
  <2>4. SealedAt(start)
    BY <1>2, <2>2, <2>3 DEF Init, SealedAt
  <2> QED
    BY <1>2, <2>2, <2>4, EmptyContinues DEF Init, BytesInv
<1> QED
  BY <1>3, <1>4, <1>5, <1>6 DEF SealedInv

(* The invariant contains the property the runs check.                     *)
LEMMA SealedInStep ==
  ASSUME SealedInv
  PROVE  ChunksInStep
<1>1. ASSUME link = "up" PROVE \A i \in 1 .. Len(wire) : WellSealed(i)
  BY <1>1 DEF SealedInv, IntactInv
<1>2. Len(wire) \in Nat
  BY LenProperties DEF SealedInv, TypeOK
<1>3. \A i \in 2 .. Len(wire) : i \in 1 .. Len(wire) /\ i > 1
  BY <1>2
<1> QED
  BY <1>1, <1>3 DEF SealedInv, IntactInv, WellSealed, ChunksInStep

----------------------------------------------------------------------------
(* A byte stream.                                                          *)

(* The carrier, seen as the byte stream of the relay.                      *)
CarrierWriter == IF padded THEN writer ELSE StreamWriter

CarrierLink == IF padded THEN Padded!StreamLink ELSE StreamLink

CarrierReader == IF padded THEN Padded!StreamReader ELSE StreamReader

(* More bytes of the source are a step of the writer.                      *)
LEMMA SendStep ==
  ASSUME taken \in Nat, taken' \in taken + 1 .. MaxBytes,
         CarrierWriter = "open",
         UNCHANGED <<received, CarrierWriter, CarrierLink, CarrierReader>>
  PROVE  Stream!Send
<1>1. MaxBytes \in Nat
  BY SizeAssumption
<1>2. Len(Bytes(1, taken)) = taken
  <2>1. Len(Bytes(0 + 1, 0 + taken)) = taken
    <3>1. 0 \in Nat /\ 0 + taken <= MaxBytes
      BY <1>1
    <3> QED
      BY <3>1, BytesContinue
  <2>2. 0 + 1 = 1 /\ 0 + taken = taken
    OBVIOUS
  <2> QED
    BY <2>1, <2>2
<1>3. Bytes(1, taken') = Stream!Bytes(1, taken')
  BY DEF Bytes, Stream!Bytes
<1>4. taken' \in (Len(Bytes(1, taken)) + 1) .. MaxBytes
  BY <1>2
<1>5. \E n \in (Len(Bytes(1, taken)) + 1) .. MaxBytes :
        Bytes(1, taken') = Stream!Bytes(1, n)
  BY <1>3, <1>4
<1> QED
  BY <1>5 DEF Stream!Send, CarrierWriter, CarrierLink, CarrierReader

(* What continues the stream from its start is a prefix of what was sent.  *)
LEMMA PrefixOfSent ==
  ASSUME NEW t \in 0 .. MaxBytes, NEW S, NEW s \in Seq(S), Continues(s, 0),
         Len(s) <= t
  PROVE  s = SubSeq(Bytes(1, t), 1, Len(s)) /\ Len(Bytes(1, t)) = t
<1>1. MaxBytes \in Nat /\ Len(s) \in Nat /\ t \in Nat
  BY SizeAssumption, LenProperties
<1> DEFINE all == Bytes(1, t)
<1>2. all \in Seq(1 .. MaxBytes) /\ Len(all) = t /\ Continues(all, 0)
  <2>1. /\ Bytes(0 + 1, 0 + t) \in Seq(1 .. MaxBytes)
        /\ Len(Bytes(0 + 1, 0 + t)) = t /\ Continues(Bytes(0 + 1, 0 + t), 0)
    <3>1. 0 \in Nat /\ 0 + t <= MaxBytes
      BY <1>1
    <3> QED
      BY <1>1, <3>1, BytesContinue
  <2>2. 0 + 1 = 1 /\ 0 + t = t
    BY <1>1
  <2> QED
    BY <2>1, <2>2
<1> HIDE DEF all
<1> DEFINE front == SubSeq(all, 1, Len(s))
<1>3. /\ front \in Seq(1 .. MaxBytes) /\ Len(front) = Len(s)
      /\ Continues(front, 0)
  <2>1. Len(s) \in 0 .. Len(all) /\ 0 \in Nat
    BY <1>1, <1>2
  <2> QED
    BY <1>2, <2>1, SplitContinues
<1> HIDE DEF front
<1>4. s = Bytes(1, Len(s)) /\ front = Bytes(1, Len(front))
  BY <1>3, ContinuesIsBytes
<1>5. s = front
  BY <1>3, <1>4
<1> QED
  BY <1>2, <1>5 DEF all, front

(* Bytes that are handed on are a step of the reader, if there are any.    *)
LEMMA DeliverStep ==
  ASSUME taken \in 0 .. MaxBytes, NEW S, received \in Seq(S),
         received' \in Seq(S), Continues(received, 0), Continues(received', 0),
         Len(received) <= Len(received'), Len(received') <= taken,
         CarrierReader = "open",
         UNCHANGED <<taken, CarrierWriter, CarrierLink, CarrierReader>>
  PROVE  [Stream!Next]_Stream!vars
<1>1. Len(received) \in Nat /\ Len(received') \in Nat
  BY LenProperties
<1>2. /\ received' = SubSeq(Bytes(1, taken), 1, Len(received'))
      /\ Len(Bytes(1, taken)) = taken
  BY PrefixOfSent
<1>3. CASE Len(received) = Len(received')
  <2>1. received' = received
    <3>1. received = Bytes(1, Len(received))
      BY ContinuesIsBytes
    <3>2. received' = Bytes(1, Len(received'))
      BY ContinuesIsBytes
    <3> QED
      BY <1>3, <3>1, <3>2
  <2>2. UNCHANGED Stream!vars
    BY <2>1 DEF Stream!vars, CarrierWriter, CarrierLink, CarrierReader
  <2> QED
    BY <2>2
<1>4. CASE Len(received) # Len(received')
  <2>1. Len(received') \in (Len(received) + 1) .. Len(Bytes(1, taken))
    BY <1>1, <1>2, <1>4
  <2>2. \E n \in (Len(received) + 1) .. Len(Bytes(1, taken)) :
          received' = SubSeq(Bytes(1, taken), 1, n)
    BY <1>2, <2>1
  <2>3. Stream!Deliver
    BY <2>2 DEF Stream!Deliver, CarrierWriter, CarrierLink, CarrierReader
  <2> QED
    BY <2>3 DEF Stream!Next
<1> QED
  BY <1>3, <1>4

(* The end of a stream, or its failure, is a step of the reader.           *)
LEMMA EndStep ==
  ASSUME taken \in 0 .. MaxBytes, NEW S, received \in Seq(S),
         received' \in Seq(S), Continues(received', 0),
         Len(received) <= Len(received'), Len(received') <= taken,
         CarrierReader = "open", CarrierReader' \in {"ended", "failed"},
         \/ CarrierLink = "faulty"
         \/ /\ CarrierWriter = "closed" /\ CarrierReader' = "ended"
            /\ Len(received') = taken,
         UNCHANGED <<taken, CarrierWriter, CarrierLink>>
  PROVE  Stream!End
<1>1. Len(received) \in Nat /\ Len(received') \in Nat
  BY LenProperties
<1>2. /\ received' = SubSeq(Bytes(1, taken), 1, Len(received'))
      /\ Len(Bytes(1, taken)) = taken
  BY PrefixOfSent
<1>3. received' = Bytes(1, Len(received'))
  BY ContinuesIsBytes
<1>4. Len(received') \in Len(received) .. Len(Bytes(1, taken))
  <2>1. Len(received') \in Len(received) .. taken
    BY <1>1
  <2> QED
    BY <1>2, <2>1
<1>5. \E n \in Len(received) .. Len(Bytes(1, taken)) :
        received' = SubSeq(Bytes(1, taken), 1, n)
  BY <1>2, <1>4
<1>6. CASE CarrierLink = "faulty"
  BY <1>5, <1>6 DEF Stream!End, CarrierWriter, CarrierLink, CarrierReader
<1>7. CASE /\ CarrierWriter = "closed" /\ CarrierReader' = "ended"
           /\ Len(received') = taken
  <2>1. received' = Bytes(1, taken)
    BY <1>3, <1>7
  <2> QED
    BY <1>7, <2>1 DEF Stream!End, CarrierWriter, CarrierLink, CarrierReader
<1> QED
  BY <1>6, <1>7

(* What has been handed on is the beginning of what was written.           *)
HandedOn ==
  /\ received \in Seq(0 .. MaxBytes) /\ Len(received) \in Nat
  /\ Continues(received, 0) /\ Len(received) <= taken

(* What a Shadowsocks stream has handed on was read from the source.       *)
LEMMA SealedBytes == SealedInv => HandedOn
<1> SUFFICES ASSUME SealedInv PROVE HandedOn
  OBVIOUS
<1>1. /\ received \in Seq(1 .. MaxBytes) /\ Len(received) \in Nat
      /\ Len(readerBuf) \in Nat /\ taken \in Nat
      /\ nonceReader \in Nat /\ nonceWriter \in Nat
  BY LenProperties DEF SealedInv, TypeOK
<1>2. PICK start \in [0 .. nonceWriter -> 0 .. taken] : SealedAt(start)
  BY DEF SealedInv, BytesInv
<1>3. /\ nonceReader <= nonceWriter
      /\ Len(received) + Len(readerBuf) = start[nonceReader]
  BY <1>2 DEF SealedAt
<1>4. start[nonceReader] \in 0 .. taken
  BY <1>1, <1>2, <1>3
<1>5. Len(received) <= taken
  BY <1>1, <1>3, <1>4
<1>6. received \in Seq(0 .. MaxBytes)
  <2>1. /\ received = [i \in 1 .. Len(received) |-> received[i]]
        /\ \A i \in 1 .. Len(received) : received[i] \in 1 .. MaxBytes
    BY <1>1, LenProperties, ElementOfSeq
  <2>2. 1 .. MaxBytes \subseteq 0 .. MaxBytes
    BY SizeAssumption
  <2>3. \A i \in 1 .. Len(received) : received[i] \in 0 .. MaxBytes
    BY <2>1, <2>2
  <2>4. [i \in 1 .. Len(received) |-> received[i]] \in Seq(0 .. MaxBytes)
    BY <1>1, <2>3, IsASeq
  <2> QED
    BY <2>1, <2>4
<1> QED
  BY <1>1, <1>5, <1>6 DEF SealedInv, BytesInv, HandedOn

(* Between two chunks that nobody has touched, all that was sealed has     *)
(* been opened, and with an empty buffer it has been handed on.            *)
LEMMA AllOpened ==
  ASSUME SealedInv, link = "up", wire = <<>>, readerBuf = <<>>
  PROVE  nonceWriter = nonceReader /\ Len(received) = taken
<1>1. /\ Len(received) \in Nat /\ nonceReader \in Nat /\ nonceWriter \in Nat
  BY LenProperties DEF SealedInv, TypeOK
<1>2. PICK start \in [0 .. nonceWriter -> 0 .. taken] : SealedAt(start)
  BY DEF SealedInv, BytesInv
<1>3. /\ start[nonceWriter] = taken
      /\ Len(received) + Len(readerBuf) = start[nonceReader]
  BY <1>2 DEF SealedAt
<1>4. nonceWriter = nonceReader
  <2>1. nonceWriter = nonceReader + Len(wire) /\ Len(wire) = 0
    BY DEF SealedInv, IntactInv
  <2> QED
    BY <1>1, <2>1
<1>5. Len(readerBuf) = 0
  OBVIOUS
<1> QED
  BY <1>1, <1>3, <1>4, <1>5

(* ReadFrom, CloseWrite and the network, seen by the relay.                *)
LEMMA SealedWriteImplements ==
  ASSUME SealedInv, ~ padded, UNCHANGED padded, Write \/ Network
  PROVE  [Stream!Next]_Stream!vars
<1>1. UNCHANGED <<received, CarrierReader>>
  BY DEF Write, WriteFirstPayload, WriteChunk, SourceFails, CloseWrite,
         Network, Fragment, Tamper, Cut, rvars, CarrierReader, StreamReader
<1>2. taken \in 0 .. MaxBytes /\ MaxBytes \in Nat /\ nonceWriter \in Nat
  BY SizeAssumption DEF SealedInv, TypeOK
<1>3. ASSUME NEW n \in 0 .. (MaxBytes - taken), NEW head, NEW body,
             Seals(head, body, n)
      PROVE  [Stream!Next]_Stream!vars
  <2>1. /\ writer = "open" /\ UNCHANGED <<writer, link>>
        /\ taken' = taken + n /\ nonceWriter' = nonceWriter + 2
    BY <1>3 DEF Seals
  <2>2. CarrierWriter = "open" /\ UNCHANGED <<CarrierWriter, CarrierLink>>
    BY <1>2, <2>1
    DEF CarrierWriter, CarrierLink, StreamWriter, StreamLink
  <2>3. CASE n = 0
    <3>1. taken' = taken
      BY <1>2, <2>1, <2>3
    <3>2. UNCHANGED Stream!vars
      BY <1>1, <2>2, <3>1
      DEF Stream!vars, CarrierWriter, CarrierLink, CarrierReader
    <3> QED
      BY <3>2
  <2>4. CASE n # 0
    <3>1. taken \in Nat /\ taken' \in taken + 1 .. MaxBytes
      BY <1>2, <1>3, <2>1, <2>4
    <3>2. Stream!Send
      BY <1>1, <2>2, <3>1, SendStep
    <3> QED
      BY <3>2 DEF Stream!Next
  <2> QED
    BY <2>3, <2>4
<1>4. CASE Write /\ \E n \in 0 .. (MaxBytes - taken) : WriteFirstPayload(n)
  BY <1>3, <1>4, FirstPayloadSeals DEF Write
<1>5. CASE Write /\ \E n \in 1 .. (MaxBytes - taken) : WriteChunk(n)
  <2>1. PICK n \in 1 .. (MaxBytes - taken) : WriteChunk(n)
    BY <1>5
  <2>2. n \in 0 .. (MaxBytes - taken) /\ UNCHANGED isClient
    BY <1>5, <2>1 DEF Write
  <2> QED
    BY <1>3, <2>1, <2>2, ChunkSeals
<1>6. CASE Write /\ SourceFails
  <2>1. /\ writer = "open" /\ writer' = "aborted" /\ nonceWriter = 0
        /\ UNCHANGED <<taken, nonceWriter, link>>
    BY <1>6 DEF SourceFails, SealedInv, SealingInv
  <2>2. UNCHANGED <<taken, CarrierWriter>>
    BY <2>1 DEF CarrierWriter, StreamWriter
  <2>3. CarrierLink' = "faulty" /\ CarrierLink \in {"up", "faulty"}
    BY <2>1 DEF CarrierLink, StreamLink
  <2>4. Stream!Fault \/ UNCHANGED Stream!vars
    BY <1>1, <2>2, <2>3
    DEF Stream!Fault, Stream!vars, CarrierWriter, CarrierLink, CarrierReader
  <2> QED
    BY <2>4 DEF Stream!Next
<1>7. CASE Write /\ CloseWrite
  <2>1. /\ writer \in {"open", "aborted"} /\ writer' = "closed"
        /\ writer = "open" => hasWriteFirstPayload
        /\ UNCHANGED <<taken, nonceWriter, link>>
    BY <1>7 DEF CloseWrite
  <2>2. writer = "open" => nonceWriter > 0
    BY <1>2, <2>1 DEF SealedInv, SealingInv
  <2>3. CarrierWriter = "open" /\ CarrierWriter' = "closed"
        /\ UNCHANGED <<taken, CarrierLink>>
    BY <2>1, <2>2 DEF CarrierWriter, CarrierLink, StreamWriter, StreamLink
  <2>4. Stream!CloseWriter
    BY <1>1, <2>3
    DEF Stream!CloseWriter, CarrierWriter, CarrierLink, CarrierReader
  <2> QED
    BY <2>4 DEF Stream!Next
<1>8. CASE Network
  <2>1. /\ link' # "up"
        /\ UNCHANGED <<taken, writer, nonceWriter>>
    BY <1>8 DEF Network, Fragment, Tamper, Cut, wvars
  <2>2. UNCHANGED <<taken, CarrierWriter>>
    BY <2>1 DEF CarrierWriter, StreamWriter
  <2>3. CarrierLink' = "faulty" /\ CarrierLink \in {"up", "faulty"}
    BY <2>1 DEF CarrierLink, StreamLink
  <2>4. Stream!Fault \/ UNCHANGED Stream!vars
    BY <1>1, <2>2, <2>3
    DEF Stream!Fault, Stream!vars, CarrierWriter, CarrierLink, CarrierReader
  <2> QED
    BY <2>4 DEF Stream!Next
<1> QED
  BY <1>4, <1>5, <1>6, <1>7, <1>8 DEF Write

(* Read and WriteTo, seen by the relay.                                    *)
LEMMA SealedReadImplements ==
  ASSUME SealedInv, ~ padded, UNCHANGED padded, ReadStep
  PROVE  [Stream!Next]_Stream!vars
<1>1. /\ UNCHANGED <<isClient, taken, writer, nonceWriter, link>>
      /\ reading \notin {"ended", "failed"}
  BY DEF ReadStep, ReadFixedHeader, ReadFirstPayload, ReadBuffered, ReadLength,
         ReadPayload, RejectChunk, ReadEnd, wvars
<1>2. UNCHANGED <<taken, CarrierWriter, CarrierLink>> /\ CarrierReader = "open"
  BY <1>1
  DEF CarrierWriter, CarrierLink, CarrierReader, StreamWriter, StreamLink,
      StreamReader
<1>3. SealedInv'
  BY SealedStep DEF Next
<1>4. /\ taken \in 0 .. MaxBytes /\ nonceReader \in Nat
      /\ received \in Seq(0 .. MaxBytes) /\ Len(received) \in Nat
      /\ Continues(received, 0) /\ Len(received) <= taken
  BY SealedBytes DEF HandedOn, SealedInv, TypeOK
<1>5. /\ received' \in Seq(0 .. MaxBytes) /\ Len(received') \in Nat
      /\ Continues(received', 0) /\ Len(received') <= taken'
  <2>1. HandedOn'
    BY <1>3, SealedBytes, PTL
  <2> QED
    BY <2>1 DEF HandedOn
<1>6. ASSUME Len(received) <= Len(received'),
             reading' \notin {"ended", "failed"}
      PROVE  [Stream!Next]_Stream!vars
  <2>1. UNCHANGED CarrierReader
    BY <1>1, <1>6 DEF CarrierReader, StreamReader
  <2> QED
    BY <1>1, <1>2, <1>4, <1>5, <1>6, <2>1, DeliverStep
<1>7. CASE ReadBuffered
  <2>1. Len(received') > Len(received) /\ reading' = reading
    BY <1>1, <1>7, ReadBufferedPreserves DEF ReadBuffered
  <2>2. Len(received) <= Len(received')
    BY <1>4, <1>5, <2>1
  <2> QED
    BY <1>1, <1>6, <2>1, <2>2
<1>8. CASE /\ ReadFixedHeader \/ ReadFirstPayload \/ ReadLength \/ ReadPayload
           /\ reading' # "failed"
  <2>1. Len(received) <= Len(received')
    BY <1>1, <1>4, <1>5, <1>8, ReadsChunk
  <2>2. reading' \notin {"ended", "failed"}
    BY <1>8 DEF ReadFixedHeader, ReadFirstPayload, ReadLength, ReadPayload
  <2> QED
    BY <1>6, <2>1, <2>2
<1>9. CASE \/ RejectChunk \/ ReadEnd
           \/ ReadFixedHeader /\ reading' = "failed"
  <2>1. received' = received /\ reading' \in {"ended", "failed"}
    BY <1>1, <1>9, ReaderStopsPreserves
  <2>2. Len(received) <= Len(received') /\ Len(received') <= taken
    BY <1>4, <2>1
  <2>3. CarrierReader' \in {"ended", "failed"}
        /\ (reading' = "ended" => CarrierReader' = "ended")
    BY <2>1 DEF CarrierReader, StreamReader
  <2>4. \/ CarrierLink = "faulty"
        \/ /\ CarrierWriter = "closed" /\ CarrierReader' = "ended"
           /\ Len(received') = taken
    <3>1. link # "up" => CarrierLink = "faulty"
      BY DEF CarrierLink, StreamLink
    <3>2. CASE RejectChunk
      <4>1. link # "up"
        BY <1>1, <3>2, FrontIsAccepted DEF RejectChunk
      <4> QED
        BY <3>1, <4>1
    <3>3. CASE ReadFixedHeader /\ reading' = "failed"
      <4>1. link # "up"
        BY <3>3 DEF ReadFixedHeader
      <4> QED
        BY <3>1, <4>1
    <3>4. CASE ReadEnd /\ link = "up"
      <4>1. /\ wire = <<>> /\ readerBuf = <<>> /\ writer = "closed"
            /\ reading' # "ended" => RequestHeaderPending
        BY <3>4 DEF ReadEnd
      <4>2. CASE reading' = "ended"
        <5>1. Len(received') = taken /\ CarrierReader' = "ended"
          BY <2>1, <2>3, <3>4, <4>1, <4>2, AllOpened
        <5>2. CarrierWriter = "closed"
          BY <4>1 DEF CarrierWriter, StreamWriter
        <5> QED
          BY <5>1, <5>2
      <4>3. CASE reading' # "ended"
        <5>1. nonceReader \in {0, 1}
          BY <4>1, <4>3 DEF RequestHeaderPending, SealedInv, OpeningInv
        <5>2. nonceWriter % 2 = 0 /\ nonceWriter = nonceReader
          BY <3>4, <4>1, AllOpened DEF SealedInv, SealingInv
        <5>3. nonceWriter = 0
          BY <5>1, <5>2
        <5> QED
          BY <4>1, <5>3 DEF CarrierLink, StreamLink
      <4> QED
        BY <4>2, <4>3
    <3> QED
      BY <1>9, <3>1, <3>2, <3>3, <3>4
  <2>5. Stream!End
    BY <1>2, <1>4, <1>5, <2>2, <2>3, <2>4, EndStep
  <2> QED
    BY <2>5 DEF Stream!Next
<1>10. ReadFirstPayload \/ ReadLength \/ ReadPayload => reading' # "failed"
  BY DEF ReadFirstPayload, ReadLength, ReadPayload
<1> QED
  BY <1>7, <1>8, <1>9, <1>10 DEF ReadStep

----------------------------------------------------------------------------
(* Padded NaiveProxy: what a reader makes of the pipe.                     *)

(* What an element of the pipe can be.                                     *)
Items ==
  [kind : {"header"}, size : 0 .. MaxOriginalPayloadSize,
   pad : 0 .. MaxPaddingSize]
    \cup [kind : {"byte"}, id : 1 .. MaxBytes] \cup {Padded!Zero}

(* Where a reader is: the headers it has met, what is left of the frame it *)
(* is in, and the bytes it has taken from the pipe.                        *)
State(frames, payload, padding, bytes) ==
  [frames |-> frames, payload |-> payload, padding |-> padding,
   bytes |-> bytes]

States(max) ==
  [frames : 0 .. FirstPaddings, payload : 0 .. MaxOriginalPayloadSize,
   padding : 0 .. MaxPaddingSize, bytes : 0 .. max]

(* What is left of a payload after n of its bytes; behind the frames there *)
(* is never any left.                                                      *)
Left(payload, n) == IF payload = 0 THEN 0 ELSE payload - n

(* What paddingReader takes for payload at s: n bytes of a frame, or as    *)
(* they are behind the frames.                                             *)
AtBytes(s, n) ==
  \/ s.payload > 0 /\ n <= s.payload
  \/ s.payload = 0 /\ s.padding = 0 /\ s.frames = FirstPaddings

(* The reader gets the next element at s and is at t behind it.            *)
Parses(s, item, t) ==
  \/ /\ item.kind = "header"
     /\ s.frames < FirstPaddings /\ s.payload = 0 /\ s.padding = 0
     /\ t = State(s.frames + 1, item.size, item.pad, s.bytes)
  \/ /\ item.kind = "byte" /\ item.id = s.bytes + 1
     /\ AtBytes(s, 1)
     /\ t = State(s.frames, Left(s.payload, 1), s.padding, s.bytes + 1)
  \/ /\ item.kind = "zero"
     /\ s.payload = 0 /\ s.padding > 0
     /\ t = State(s.frames, 0, s.padding - 1, s.bytes)

(* So it gets from s to t through all of the items.                        *)
RunsTo(s, items, t, max) ==
  \E st \in [1 .. Len(items) + 1 -> States(max)] :
    /\ st[1] = s /\ st[Len(items) + 1] = t
    /\ \A i \in 1 .. Len(items) : Parses(st[i], items[i], st[i + 1])

(* A run is between states, and through nothing it goes nowhere.           *)
LEMMA RunEnds ==
  ASSUME NEW max, NEW s, NEW t, NEW items \in Seq(Items),
         RunsTo(s, items, t, max)
  PROVE  s \in States(max) /\ t \in States(max) /\ (items = <<>> => s = t)
<1>1. PICK L \in Nat : L = Len(items)
  BY LenProperties
<1>2. PICK st \in [1 .. L + 1 -> States(max)] : st[1] = s /\ st[L + 1] = t
  BY <1>1 DEF RunsTo
<1>3. 1 \in 1 .. L + 1 /\ L + 1 \in 1 .. L + 1
  OBVIOUS
<1>4. items = <<>> => L = 0
  BY <1>1
<1> QED
  BY <1>2, <1>3, <1>4

(* The bound on the bytes may be raised.                                   *)
LEMMA RunWithin ==
  ASSUME NEW max \in Nat, NEW more \in Nat, max <= more, NEW s, NEW t,
         NEW items \in Seq(Items), RunsTo(s, items, t, max)
  PROVE  RunsTo(s, items, t, more)
<1>1. States(max) \subseteq States(more)
  BY DEF States
<1> QED
  BY <1>1 DEF RunsTo

(* Nothing on the pipe.                                                    *)
LEMMA EmptyRun ==
  ASSUME NEW max, NEW s \in States(max)
  PROVE  RunsTo(s, <<>>, s, max)
<1>1. PICK st : st = [i \in 1 .. 1 |-> s]
  OBVIOUS
<1>2. st \in [1 .. 1 -> States(max)] /\ st[1] = s
  BY <1>1
<1>3. Len(<<>>) = 0
  OBVIOUS
<1> QED
  BY <1>2, <1>3 DEF RunsTo

(* One element.                                                            *)
LEMMA SingleRun ==
  ASSUME NEW max, NEW s \in States(max), NEW t \in States(max), NEW item,
         Parses(s, item, t)
  PROVE  RunsTo(s, <<item>>, t, max)
<1>1. PICK st : st = [i \in 1 .. 2 |-> IF i = 1 THEN s ELSE t]
  OBVIOUS
<1>2. st \in [1 .. 2 -> States(max)] /\ st[1] = s /\ st[2] = t
  BY <1>1
<1>3. PICK one : one = <<item>>
  OBVIOUS
<1>4. Len(one) = 1 /\ one[1] = item
  BY <1>3
<1>5. \A i \in 1 .. Len(one) : i = 1 /\ i + 1 = 2
  BY <1>4
<1>6. RunsTo(s, one, t, max)
  BY <1>2, <1>4, <1>5 DEF RunsTo
<1> QED
  BY <1>3, <1>6

(* What is written goes behind what is in the pipe.                        *)
LEMMA ConcatRuns ==
  ASSUME NEW max, NEW r, NEW s, NEW t,
         NEW a \in Seq(Items), NEW b \in Seq(Items),
         RunsTo(r, a, s, max), RunsTo(s, b, t, max)
  PROVE  a \o b \in Seq(Items) /\ RunsTo(r, a \o b, t, max)
<1>1. PICK A \in Nat, B \in Nat : A = Len(a) /\ B = Len(b)
  BY LenProperties
<1>2. PICK both : both = a \o b
  OBVIOUS
<1>3. /\ both \in Seq(Items) /\ Len(both) = A + B
      /\ \A i \in 1 .. A + B :
           both[i] = IF i <= A THEN a[i] ELSE b[i - A]
  BY <1>1, <1>2, ConcatProperties
<1>4. PICK sa \in [1 .. A + 1 -> States(max)] :
        /\ sa[1] = r /\ sa[A + 1] = s
        /\ \A i \in 1 .. A : Parses(sa[i], a[i], sa[i + 1])
  BY <1>1 DEF RunsTo
<1>5. PICK sb \in [1 .. B + 1 -> States(max)] :
        /\ sb[1] = s /\ sb[B + 1] = t
        /\ \A i \in 1 .. B : Parses(sb[i], b[i], sb[i + 1])
  BY <1>1 DEF RunsTo
<1>6. PICK st : st = [i \in 1 .. A + B + 1 |->
                        IF i <= A THEN sa[i] ELSE sb[i - A]]
  OBVIOUS
<1>7. \A i \in 1 .. A + B + 1 :
        st[i] = IF i <= A THEN sa[i] ELSE sb[i - A]
  BY <1>6
<1>8. st \in [1 .. A + B + 1 -> States(max)]
  <2>1. \A i \in 1 .. A + B + 1 :
          IF i <= A THEN i \in 1 .. A + 1 ELSE i - A \in 1 .. B + 1
    OBVIOUS
  <2>2. \A i \in 1 .. A + B + 1 :
          (IF i <= A THEN sa[i] ELSE sb[i - A]) \in States(max)
    BY <1>4, <1>5, <2>1
  <2> QED
    BY <1>6, <2>2
<1>9. st[1] = r /\ st[A + B + 1] = t
  <2>1. 1 \in 1 .. A + B + 1 /\ A + B + 1 \in 1 .. A + B + 1
    OBVIOUS
  <2>2. ~ (A + B + 1 <= A) /\ A + B + 1 - A = B + 1
    OBVIOUS
  <2>3. st[A + B + 1] = t
    BY <1>5, <1>7, <2>1, <2>2
  <2>4. CASE A = 0
    <3>1. ~ (1 <= A) /\ 1 - A = 1 /\ A + 1 = 1
      BY <2>4
    <3>2. st[1] = sb[1] /\ r = s
      BY <1>4, <1>7, <2>1, <3>1
    <3> QED
      BY <1>5, <2>3, <3>2
  <2>5. CASE A # 0
    <3>1. 1 <= A
      BY <2>5
    <3> QED
      BY <1>4, <1>7, <2>1, <2>3, <3>1
  <2> QED
    BY <2>4, <2>5
<1>10. ASSUME NEW i \in 1 .. A + B
       PROVE  Parses(st[i], both[i], st[i + 1])
  <2>1. i \in 1 .. A + B + 1 /\ i + 1 \in 1 .. A + B + 1
    OBVIOUS
  <2>2. CASE i + 1 <= A
    <3>1. i \in 1 .. A /\ i <= A
      BY <2>2
    <3> QED
      BY <1>3, <1>4, <1>7, <2>1, <2>2, <3>1
  <2>3. CASE i = A
    <3>1. i \in 1 .. A /\ i <= A /\ ~ (i + 1 <= A) /\ (i + 1) - A = 1
      BY <2>3
    <3>2. st[i] = sa[i] /\ st[i + 1] = sb[1] /\ both[i] = a[i]
      BY <1>3, <1>7, <2>1, <3>1
    <3>3. sb[1] = sa[i + 1]
      BY <1>4, <1>5, <2>3
    <3> QED
      BY <1>4, <3>1, <3>2, <3>3
  <2>4. CASE i > A
    <3>1. /\ ~ (i <= A) /\ ~ (i + 1 <= A) /\ i - A \in 1 .. B
          /\ (i + 1) - A = (i - A) + 1
      BY <2>4
    <3>2. st[i] = sb[i - A] /\ st[i + 1] = sb[(i - A) + 1]
          /\ both[i] = b[i - A]
      BY <1>3, <1>7, <2>1, <3>1
    <3> QED
      BY <1>5, <3>1, <3>2
  <2> QED
    BY <2>2, <2>3, <2>4
<1>11. RunsTo(r, both, t, max)
  BY <1>3, <1>8, <1>9, <1>10 DEF RunsTo
<1> QED
  BY <1>2, <1>3, <1>11

(* The reader takes the front of the pipe.                                 *)
LEMMA DropRun ==
  ASSUME NEW max, NEW s, NEW t, NEW items \in Seq(Items),
         NEW n \in 0 .. Len(items),
         NEW st \in [1 .. Len(items) + 1 -> States(max)],
         st[Len(items) + 1] = t,
         \A i \in 1 .. Len(items) : Parses(st[i], items[i], st[i + 1])
  PROVE  /\ SubSeq(items, n + 1, Len(items)) \in Seq(Items)
         /\ RunsTo(st[n + 1], SubSeq(items, n + 1, Len(items)), t, max)
<1>1. PICK L \in Nat : L = Len(items)
  BY LenProperties
<1>2. PICK rest : rest = SubSeq(items, n + 1, Len(items))
  OBVIOUS
<1>3. /\ rest \in Seq(Items) /\ Len(rest) = L - n /\ n \in 0 .. L
      /\ \A i \in 1 .. L - n : rest[i] = items[n + i]
  BY <1>1, <1>2, PartOfWire
<1>4. PICK sr : sr = [i \in 1 .. (L - n) + 1 |-> st[n + i]]
  OBVIOUS
<1>5. sr \in [1 .. (L - n) + 1 -> States(max)]
  <2>1. \A i \in 1 .. (L - n) + 1 : n + i \in 1 .. L + 1
    BY <1>3
  <2> QED
    BY <1>1, <1>4, <2>1
<1>6. sr[1] = st[n + 1] /\ sr[(L - n) + 1] = t
  <2>1. /\ 1 \in 1 .. (L - n) + 1 /\ (L - n) + 1 \in 1 .. (L - n) + 1
        /\ n + ((L - n) + 1) = L + 1
    BY <1>3
  <2> QED
    BY <1>1, <1>4, <2>1
<1>7. ASSUME NEW i \in 1 .. L - n
      PROVE  Parses(sr[i], rest[i], sr[i + 1])
  <2>1. /\ i \in 1 .. (L - n) + 1 /\ i + 1 \in 1 .. (L - n) + 1
        /\ n + i \in 1 .. L /\ n + (i + 1) = (n + i) + 1
    BY <1>3
  <2>2. sr[i] = st[n + i] /\ sr[i + 1] = st[(n + i) + 1]
    BY <1>4, <2>1
  <2> QED
    BY <1>1, <1>3, <2>1, <2>2
<1>8. RunsTo(st[n + 1], rest, t, max)
  BY <1>3, <1>5, <1>6, <1>7 DEF RunsTo
<1> QED
  BY <1>2, <1>3, <1>8

(* A suffix of the pipe is lost (Cut).                                     *)
LEMMA CutRun ==
  ASSUME NEW max, NEW s, NEW t, NEW items \in Seq(Items),
         NEW n \in 0 .. Len(items), RunsTo(s, items, t, max)
  PROVE  /\ SubSeq(items, 1, n) \in Seq(Items)
         /\ \E u : RunsTo(s, SubSeq(items, 1, n), u, max)
<1>1. PICK L \in Nat : L = Len(items)
  BY LenProperties
<1>2. PICK front : front = SubSeq(items, 1, n)
  OBVIOUS
<1>3. /\ front \in Seq(Items) /\ Len(front) = n /\ n \in 0 .. L
      /\ \A i \in 1 .. n : front[i] = items[i]
  BY <1>1, <1>2, PartOfWire
<1>4. PICK st \in [1 .. L + 1 -> States(max)] :
        /\ st[1] = s
        /\ \A i \in 1 .. L : Parses(st[i], items[i], st[i + 1])
  BY <1>1 DEF RunsTo
<1>5. PICK sf : sf = [i \in 1 .. n + 1 |-> st[i]]
  OBVIOUS
<1>6. sf \in [1 .. n + 1 -> States(max)] /\ sf[1] = s
  <2>1. 1 \in 1 .. n + 1 /\ \A i \in 1 .. n + 1 : i \in 1 .. L + 1
    BY <1>3
  <2> QED
    BY <1>4, <1>5, <2>1
<1>7. ASSUME NEW i \in 1 .. n PROVE Parses(sf[i], front[i], sf[i + 1])
  <2>1. i \in 1 .. n + 1 /\ i + 1 \in 1 .. n + 1 /\ i \in 1 .. L
    BY <1>3
  <2>2. sf[i] = st[i] /\ sf[i + 1] = st[i + 1]
    BY <1>5, <2>1
  <2> QED
    BY <1>3, <1>4, <2>1, <2>2
<1>8. RunsTo(s, front, sf[n + 1], max)
  BY <1>3, <1>6, <1>7 DEF RunsTo
<1> QED
  BY <1>2, <1>3, <1>8

(* Every non-empty set of natural numbers has a least element.             *)
LEMMA LeastNumber ==
  ASSUME NEW T \in SUBSET Nat, T # {}
  PROVE  \E x \in T : \A y \in T : x <= y
<1> DEFINE Less == OpToRel(<, Nat)
<1>1. ASSUME NEW x \in Nat, NEW y \in Nat, <<y, x>> \notin Less
      PROVE  x <= y
  <2>1. y < x => <<y, x>> \in Less
    BY DEF OpToRel
  <2> HIDE DEF Less
  <2> QED
    BY <1>1, <2>1
<1>2. IsWellFoundedOn(Less, Nat)
  BY NatLessThanWellFounded
<1> HIDE DEF Less
<1>3. PICK x \in T : \A y \in T : ~ (<<y, x>> \in Less)
  BY <1>2, WFMin
<1> QED
  BY <1>1, <1>3

(* The payload that is put on the pipe, in a frame or behind the frames.   *)
LEMMA PayloadRun ==
  ASSUME NEW max \in 0 .. MaxBytes, NEW f \in 0 .. FirstPaddings,
         NEW p \in 0 .. MaxOriginalPayloadSize, NEW q \in 0 .. MaxPaddingSize,
         NEW b \in Nat, NEW n \in Nat, b + n <= max,
         (p > 0 /\ n <= p) \/ (p = 0 /\ q = 0 /\ f = FirstPaddings)
  PROVE  /\ Padded!PayloadItems(b + 1, b + n) \in Seq(Items)
         /\ RunsTo(State(f, p, q, b), Padded!PayloadItems(b + 1, b + n),
                   State(f, Left(p, n), q, b + n), max)
<1>0. /\ MaxBytes \in Nat /\ FirstPaddings \in Nat /\ MaxPaddingSize \in Nat
      /\ MaxOriginalPayloadSize \in Nat /\ max \in Nat /\ f \in Nat
      /\ p \in Nat /\ q \in Nat /\ max <= MaxBytes
  BY SizeAssumption, PaddingAssumption
<1>1. PICK items : items = [i \in 1 .. n |-> Padded!Byte(b + i)]
  OBVIOUS
<1>2. Padded!PayloadItems(b + 1, b + n) = items
  <2>1. (b + n) - (b + 1) + 1 = n /\ \A i \in 1 .. n : b + 1 + i - 1 = b + i
    OBVIOUS
  <2> QED
    BY <1>1, <2>1 DEF Padded!PayloadItems
<1>3. \A i \in 1 .. n : /\ items[i] \in Items
                        /\ items[i].kind = "byte" /\ items[i].id = b + i
  <2>1. \A i \in 1 .. n : b + i \in 1 .. MaxBytes
    BY <1>0
  <2> QED
    BY <1>1, <2>1 DEF Padded!Byte, Items
<1>4. items \in Seq(Items) /\ Len(items) = n
  <2>1. [i \in 1 .. n |-> Padded!Byte(b + i)] \in Seq(Items)
    <3>1. \A i \in 1 .. n : Padded!Byte(b + i) \in Items
      BY <1>1, <1>3
    <3> QED
      BY <3>1, IsASeq
  <2>2. DOMAIN items = 1 .. n
    BY <1>1
  <2>3. items \in Seq(Items)
    BY <1>1, <2>1
  <2> QED
    BY <2>2, <2>3, LenProperties
<1>5. PICK st : st = [i \in 1 .. n + 1 |->
                        State(f, Left(p, i - 1), q, b + (i - 1))]
  OBVIOUS
<1>6. \A i \in 1 .. n + 1 :
        st[i] = State(f, Left(p, i - 1), q, b + (i - 1))
  BY <1>5
<1>7. st \in [1 .. n + 1 -> States(max)]
  <2>1. \A i \in 1 .. n + 1 : Left(p, i - 1) \in 0 .. MaxOriginalPayloadSize
    BY <1>0 DEF Left
  <2>2. \A i \in 1 .. n + 1 : b + (i - 1) \in 0 .. max
    BY <1>0
  <2>3. \A i \in 1 .. n + 1 :
          State(f, Left(p, i - 1), q, b + (i - 1)) \in States(max)
    BY <2>1, <2>2 DEF State, States
  <2> QED
    BY <1>5, <2>3
<1>8. st[1] = State(f, p, q, b) /\ st[n + 1] = State(f, Left(p, n), q, b + n)
  <2>1. /\ 1 \in 1 .. n + 1 /\ n + 1 \in 1 .. n + 1
        /\ 1 - 1 = 0 /\ (n + 1) - 1 = n /\ b + 0 = b
    OBVIOUS
  <2>2. Left(p, 0) = p
    BY <1>0 DEF Left
  <2> QED
    BY <1>6, <2>1, <2>2
<1>9. ASSUME NEW i \in 1 .. n PROVE Parses(st[i], items[i], st[i + 1])
  <2>1. /\ i \in 1 .. n + 1 /\ i + 1 \in 1 .. n + 1 /\ (i + 1) - 1 = i
        /\ i - 1 \in Nat
    OBVIOUS
  <2>2. /\ st[i] = State(f, Left(p, i - 1), q, b + (i - 1))
        /\ st[i + 1] = State(f, Left(p, i), q, b + i)
    BY <1>6, <2>1
  <2>3. AtBytes(st[i], 1)
    <3>1. CASE p > 0
      <4>1. Left(p, i - 1) > 0 /\ 1 <= Left(p, i - 1)
        BY <1>0, <3>1 DEF Left
      <4> QED
        BY <2>2, <4>1 DEF AtBytes, State
    <3>2. CASE p = 0
      <4>1. Left(p, i - 1) = 0 /\ q = 0 /\ f = FirstPaddings
        BY <3>2 DEF Left
      <4> QED
        BY <2>2, <4>1 DEF AtBytes, State
    <3> QED
      BY <1>0, <3>1, <3>2
  <2>4. Left(p, i) = Left(Left(p, i - 1), 1)
    BY <1>0, <2>1 DEF Left
  <2>5. b + i = (b + (i - 1)) + 1
    OBVIOUS
  <2>6. st[i + 1] = State(st[i].frames, Left(st[i].payload, 1), st[i].padding,
                          st[i].bytes + 1)
    BY <2>2, <2>4, <2>5 DEF State
  <2>7. items[i].id = st[i].bytes + 1
    BY <1>3, <2>2, <2>5 DEF State
  <2> QED
    BY <1>3, <2>3, <2>6, <2>7 DEF Parses
<1>10. RunsTo(State(f, p, q, b), items, State(f, Left(p, n), q, b + n), max)
  BY <1>4, <1>7, <1>8, <1>9 DEF RunsTo
<1> QED
  BY <1>2, <1>4, <1>10

(* The padding that is put on the pipe.                                    *)
LEMMA PaddingRun ==
  ASSUME NEW max \in Nat, NEW f \in 0 .. FirstPaddings,
         NEW n \in 0 .. MaxPaddingSize, NEW b \in 0 .. max
  PROVE  /\ Padded!Padding(n) \in Seq(Items)
         /\ RunsTo(State(f, 0, n, b), Padded!Padding(n), State(f, 0, 0, b),
                   max)
<1>0. /\ FirstPaddings \in Nat /\ MaxPaddingSize \in Nat /\ n \in Nat
      /\ MaxOriginalPayloadSize \in Nat /\ n <= MaxPaddingSize
  BY PaddingAssumption
<1>1. PICK items : items = Padded!Padding(n)
  OBVIOUS
<1>2. /\ items \in Seq(Items) /\ Len(items) = n
      /\ \A i \in 1 .. n : items[i].kind = "zero"
  <2>1. Padded!Zero \in Items /\ Padded!Zero.kind = "zero"
    BY DEF Items, Padded!Zero
  <2>2. items = [i \in 1 .. n |-> Padded!Zero]
    BY <1>1 DEF Padded!Padding
  <2>3. [i \in 1 .. n |-> Padded!Zero] \in Seq(Items)
    BY <1>0, <2>1, IsASeq
  <2>4. items \in Seq(Items) /\ DOMAIN items = 1 .. n
    BY <2>2, <2>3
  <2> QED
    BY <1>0, <2>1, <2>2, <2>4, LenProperties
<1>3. PICK st : st = [i \in 1 .. n + 1 |-> State(f, 0, n - (i - 1), b)]
  OBVIOUS
<1>4. \A i \in 1 .. n + 1 : st[i] = State(f, 0, n - (i - 1), b)
  BY <1>3
<1>5. st \in [1 .. n + 1 -> States(max)]
  <2>1. \A i \in 1 .. n + 1 : n - (i - 1) \in 0 .. MaxPaddingSize
    BY <1>0
  <2>2. \A i \in 1 .. n + 1 : State(f, 0, n - (i - 1), b) \in States(max)
    BY <1>0, <2>1 DEF State, States
  <2> QED
    BY <1>3, <2>2
<1>6. st[1] = State(f, 0, n, b) /\ st[n + 1] = State(f, 0, 0, b)
  <2>1. /\ 1 \in 1 .. n + 1 /\ n + 1 \in 1 .. n + 1
        /\ n - (1 - 1) = n /\ n - ((n + 1) - 1) = 0
    BY <1>0
  <2> QED
    BY <1>4, <2>1
<1>7. ASSUME NEW i \in 1 .. n PROVE Parses(st[i], items[i], st[i + 1])
  <2>1. /\ i \in 1 .. n + 1 /\ i + 1 \in 1 .. n + 1
        /\ n - ((i + 1) - 1) = (n - (i - 1)) - 1 /\ n - (i - 1) > 0
    BY <1>0
  <2>2. /\ st[i] = State(f, 0, n - (i - 1), b)
        /\ st[i + 1] = State(f, 0, (n - (i - 1)) - 1, b)
    BY <1>4, <2>1
  <2> QED
    BY <1>2, <2>1, <2>2 DEF Parses, State
<1>8. RunsTo(State(f, 0, n, b), items, State(f, 0, 0, b), max)
  BY <1>2, <1>5, <1>6, <1>7 DEF RunsTo
<1> QED
  BY <1>1, <1>2, <1>8

(* paddingReader takes n bytes of a payload, or of what follows the frames.*)
LEMMA BytesRun ==
  ASSUME NEW max \in Nat, NEW s, NEW t, NEW items \in Seq(Items),
         NEW n \in 0 .. Len(items), RunsTo(s, items, t, max), AtBytes(s, n)
  PROVE  /\ \A i \in 1 .. n : Padded!Content(items[i]) = s.bytes + i
         /\ s.bytes + n <= max
         /\ RunsTo(State(s.frames, Left(s.payload, n), s.padding, s.bytes + n),
                   SubSeq(items, n + 1, Len(items)), t, max)
<1>0. /\ FirstPaddings \in Nat /\ MaxPaddingSize \in Nat
      /\ MaxOriginalPayloadSize \in Nat
  BY PaddingAssumption
<1>1. PICK L \in Nat : L = Len(items)
  BY LenProperties
<1>2. PICK st \in [1 .. L + 1 -> States(max)] :
        /\ st[1] = s /\ st[L + 1] = t
        /\ \A i \in 1 .. L : Parses(st[i], items[i], st[i + 1])
  BY <1>1 DEF RunsTo
<1>3. s \in States(max)
  BY <1>2
<1>4. PICK f \in Nat, p \in Nat, q \in Nat, b \in Nat : s = State(f, p, q, b)
  <2>1. /\ s.frames \in Nat /\ s.payload \in Nat /\ s.padding \in Nat
        /\ s.bytes \in Nat
        /\ s = State(s.frames, s.payload, s.padding, s.bytes)
    BY <1>0, <1>3 DEF State, States
  <2> QED
    BY <2>1
<1>5. /\ s.frames = f /\ s.payload = p /\ s.padding = q /\ s.bytes = b
      /\ (p > 0 /\ n <= p) \/ (p = 0 /\ q = 0 /\ f = FirstPaddings)
  BY <1>4 DEF AtBytes, State
<1> DEFINE After(i) == State(f, Left(p, i), q, b + i)
           Wrong == {i \in 0 .. n : st[i + 1] # After(i)}
<1>6. ASSUME NEW i \in 0 .. n, i < n, st[i + 1] = After(i)
      PROVE  /\ st[(i + 1) + 1] = After(i + 1)
             /\ Padded!Content(items[i + 1]) = b + (i + 1)
  <2>1. i + 1 \in 1 .. L
    BY <1>1, <1>6
  <2>2. Parses(st[i + 1], items[i + 1], st[(i + 1) + 1])
    BY <1>2, <2>1
  <2>3. st[i + 1].frames = f /\ st[i + 1].payload = Left(p, i)
        /\ st[i + 1].padding = q /\ st[i + 1].bytes = b + i
    BY <1>6 DEF State
  <2>4. p > 0 => Left(p, i) > 0
    BY <1>5, <1>6 DEF Left
  <2>5. p = 0 => Left(p, i) = 0
    BY DEF Left
  <2>6. /\ items[i + 1].kind = "byte" /\ items[i + 1].id = (b + i) + 1
        /\ st[(i + 1) + 1] = State(f, Left(Left(p, i), 1), q, (b + i) + 1)
    BY <1>0, <1>5, <2>2, <2>3, <2>4, <2>5 DEF Parses
  <2>7. Left(Left(p, i), 1) = Left(p, i + 1)
    BY <1>5, <1>6 DEF Left
  <2>8. (b + i) + 1 = b + (i + 1)
    OBVIOUS
  <2> QED
    BY <2>6, <2>7, <2>8 DEF Padded!Content
<1>7. Wrong = {}
  <2> SUFFICES ASSUME Wrong # {} PROVE FALSE
    OBVIOUS
  <2>1. Wrong \in SUBSET Nat
    OBVIOUS
  <2>2. PICK i \in Wrong : \A j \in Wrong : i <= j
    BY <2>1, LeastNumber
  <2>3. i # 0
    <3>1. Left(p, 0) = p /\ b + 0 = b /\ 0 + 1 = 1
      BY DEF Left
    <3>2. st[0 + 1] = After(0)
      BY <1>2, <1>4, <3>1
    <3> QED
      BY <3>2
  <2>4. i - 1 \in 0 .. n /\ i - 1 < n /\ (i - 1) + 1 = i /\ ~ (i <= i - 1)
    BY <2>3
  <2>5. st[(i - 1) + 1] = After(i - 1)
    BY <2>2, <2>4
  <2>6. st[((i - 1) + 1) + 1] = After((i - 1) + 1)
    BY <1>6, <2>4, <2>5
  <2> QED
    BY <2>4, <2>6
<1>8. \A i \in 0 .. n : st[i + 1] = After(i)
  BY <1>7
<1> HIDE DEF After, Wrong
<1>9. ASSUME NEW i \in 1 .. n PROVE Padded!Content(items[i]) = b + i
  <2>1. i - 1 \in 0 .. n /\ i - 1 < n /\ (i - 1) + 1 = i
    OBVIOUS
  <2> QED
    BY <1>6, <1>8, <2>1
<1>10. n \in 0 .. n /\ n \in Nat /\ n + 1 \in 1 .. L + 1
  BY <1>1
<1>11. st[n + 1] = State(f, Left(p, n), q, b + n)
  BY <1>8, <1>10 DEF After
<1>12. b + n <= max
  <2>1. State(f, Left(p, n), q, b + n) \in States(max)
    BY <1>2, <1>10, <1>11
  <2> QED
    BY <2>1 DEF State, States
<1>13. RunsTo(st[n + 1], SubSeq(items, n + 1, Len(items)), t, max)
  BY <1>1, <1>2, DropRun
<1> QED
  BY <1>5, <1>9, <1>11, <1>12, <1>13

(* A header, or a zero of padding.                                         *)
LEMMA FirstRun ==
  ASSUME NEW max \in Nat, NEW s, NEW t, NEW items \in Seq(Items),
         items # <<>>, RunsTo(s, items, t, max)
  PROVE  /\ Tail(items) \in Seq(Items) /\ items[1] \in Items
         /\ \E r \in States(max) : /\ Parses(s, items[1], r)
                                   /\ RunsTo(r, Tail(items), t, max)
<1>1. PICK L \in Nat : L = Len(items)
  BY LenProperties
<1>2. /\ Tail(items) \in Seq(Items) /\ items[1] \in Items /\ L >= 1
      /\ Len(Tail(items)) = L - 1
      /\ \A i \in 1 .. L - 1 : Tail(items)[i] = items[i + 1]
  BY <1>1, TailOfWire
<1>3. PICK st \in [1 .. L + 1 -> States(max)] :
        /\ st[1] = s /\ st[L + 1] = t
        /\ \A i \in 1 .. L : Parses(st[i], items[i], st[i + 1])
  BY <1>1 DEF RunsTo
<1>4. PICK rest : rest = Tail(items)
  OBVIOUS
<1>5. PICK sr : sr = [i \in 1 .. (L - 1) + 1 |-> st[i + 1]]
  OBVIOUS
<1>6. sr \in [1 .. (L - 1) + 1 -> States(max)] /\ sr[(L - 1) + 1] = t
      /\ sr[1] = st[2]
  <2>1. /\ \A i \in 1 .. (L - 1) + 1 : i + 1 \in 1 .. L + 1
        /\ (L - 1) + 1 \in 1 .. (L - 1) + 1 /\ ((L - 1) + 1) + 1 = L + 1
        /\ 1 \in 1 .. (L - 1) + 1 /\ 1 + 1 = 2
    BY <1>2
  <2> QED
    BY <1>3, <1>5, <2>1
<1>7. ASSUME NEW i \in 1 .. L - 1 PROVE Parses(sr[i], rest[i], sr[i + 1])
  <2>1. /\ i \in 1 .. (L - 1) + 1 /\ i + 1 \in 1 .. (L - 1) + 1
        /\ i + 1 \in 1 .. L
    BY <1>2
  <2>2. sr[i] = st[i + 1] /\ sr[i + 1] = st[(i + 1) + 1]
        /\ rest[i] = items[i + 1]
    BY <1>2, <1>4, <1>5, <2>1
  <2> QED
    BY <1>3, <2>1, <2>2
<1>8. RunsTo(st[2], rest, t, max)
  BY <1>2, <1>4, <1>6, <1>7 DEF RunsTo
<1>9. st[2] \in States(max) /\ Parses(s, items[1], st[2])
  <2>1. 1 \in 1 .. L /\ 1 + 1 = 2 /\ 2 \in 1 .. L + 1
    BY <1>2
  <2> QED
    BY <1>3, <2>1
<1> QED
  BY <1>2, <1>4, <1>8, <1>9

(* The places of the headers in the pipe.                                  *)
HeadersIn(items) == {i \in 1 .. Len(items) : items[i].kind = "header"}

(* A run passes through as many headers as it adds to the frames.          *)
LEMMA HeadersCounted ==
  ASSUME NEW max \in Nat, NEW s, NEW t, NEW items \in Seq(Items),
         RunsTo(s, items, t, max)
  PROVE  t.frames = s.frames + Cardinality(HeadersIn(items))
<1>0. FirstPaddings \in Nat
  BY PaddingAssumption
<1>1. PICK L \in Nat : L = Len(items)
  BY LenProperties
<1>2. PICK st \in [1 .. L + 1 -> States(max)] :
        /\ st[1] = s /\ st[L + 1] = t
        /\ \A i \in 1 .. L : Parses(st[i], items[i], st[i + 1])
  BY <1>1 DEF RunsTo
<1> DEFINE Headers(n) == {i \in 1 .. n : items[i].kind = "header"}
           Right(n) == /\ IsFiniteSet(Headers(n))
                       /\ Cardinality(Headers(n)) \in Nat
                       /\ st[n + 1].frames = s.frames + Cardinality(Headers(n))
           Wrong == {n \in 0 .. L : ~ Right(n)}
<1>3. \A i \in 1 .. L + 1 : st[i].frames \in Nat
  BY <1>0, <1>2 DEF States
<1>4. Right(0)
  <2>1. Headers(0) = {} /\ 0 + 1 = 1 /\ 1 \in 1 .. L + 1
    OBVIOUS
  <2>2. st[1].frames = s.frames + 0
    BY <1>2, <1>3, <2>1
  <2> QED
    BY <2>1, <2>2, FS_EmptySet
<1>5. ASSUME NEW n \in 1 .. L, Right(n - 1) PROVE Right(n)
  <2>1. n - 1 \in 0 .. L /\ (n - 1) + 1 = n /\ n \in 1 .. L + 1
        /\ n + 1 \in 1 .. L + 1
    OBVIOUS
  <2>2. Parses(st[n], items[n], st[n + 1])
    BY <1>2
  <2>3. \A i : i \in 1 .. n <=> (i \in 1 .. n - 1 \/ i = n)
    OBVIOUS
  <2>4. n \notin Headers(n - 1)
    OBVIOUS
  <2>5. s.frames \in Nat
    <3>1. 1 \in 1 .. L + 1
      OBVIOUS
    <3> QED
      BY <1>2, <1>3, <3>1
  <2>6. CASE items[n].kind = "header"
    <3>1. Headers(n) = Headers(n - 1) \cup {n}
      BY <2>3, <2>6
    <3>2. st[n + 1].frames = st[n].frames + 1
      BY <2>2, <2>6 DEF Parses, State
    <3>3. PICK before, all : before = Headers(n - 1) /\ all = Headers(n)
      OBVIOUS
    <3>4. /\ IsFiniteSet(before) /\ n \notin before
          /\ Cardinality(before) \in Nat
          /\ st[n].frames = s.frames + Cardinality(before)
      BY <1>5, <2>1, <3>3
    <3>5. all = before \cup {n}
      BY <3>1, <3>3
    <3>6. IsFiniteSet(all) /\ Cardinality(all) = Cardinality(before) + 1
      BY <3>4, <3>5, FS_AddElement
    <3> HIDE DEF Headers
    <3> QED
      BY <2>5, <3>2, <3>3, <3>4, <3>6
  <2>7. CASE items[n].kind # "header"
    <3>1. Headers(n) = Headers(n - 1)
      BY <2>3, <2>7
    <3>2. st[n + 1].frames = st[n].frames
      BY <2>2, <2>7 DEF Parses, State
    <3> HIDE DEF Headers
    <3> QED
      BY <1>5, <2>1, <3>1, <3>2
  <2> QED
    BY <2>6, <2>7
<1> HIDE DEF Right
<1>6. Wrong = {}
  <2> SUFFICES ASSUME Wrong # {} PROVE FALSE
    OBVIOUS
  <2>1. PICK n \in Wrong : \A m \in Wrong : n <= m
    <3>1. Wrong \in SUBSET Nat
      OBVIOUS
    <3> QED
      BY <3>1, LeastNumber
  <2>2. n # 0 /\ n \in 0 .. L
    BY <1>4
  <2>3. n \in 1 .. L /\ n - 1 \in 0 .. L /\ ~ (n <= n - 1)
    BY <2>2
  <2>4. Right(n - 1)
    BY <2>1, <2>3
  <2>5. Right(n)
    BY <1>5, <2>3, <2>4
  <2> QED
    BY <2>5
<1>7. Right(L)
  BY <1>6
<1>8. Headers(L) = HeadersIn(items)
  BY <1>1 DEF HeadersIn
<1> HIDE DEF Headers
<1> QED
  BY <1>2, <1>7, <1>8 DEF Right

----------------------------------------------------------------------------
(* Padded NaiveProxy: the invariant.                                       *)

(* Frames the reader has counted, and the one it is in.                    *)
ReaderFrames ==
  readerCount + (IF reading \in {"payload", "padding"} THEN 1 ELSE 0)

ReaderState ==
  State(ReaderFrames, payloadRemaining, paddingRemaining,
        Len(received) + Len(held))

WriterState == State(writerCount, 0, 0, taken)

(* paddingWriter.                                                          *)
PaddingWriterInv ==
  /\ taken + pending <= MaxBytes
  /\ pending > 0 => writer = "open"
  /\ writerCount <= FirstPaddings

(* paddingReader.                                                          *)
PaddingReaderInv ==
  /\ reading = "payload" => payloadRemaining > 0
  /\ reading \in {"header", "ended", "padding"} => payloadRemaining = 0
  /\ reading \in {"header", "ended"} => paddingRemaining = 0
  /\ reading # "padding" => held = <<>>
  /\ reading \in {"payload", "padding"} => readerCount < FirstPaddings
  /\ reading = "failed" => link = "cut"

HeldInv ==
  /\ Continues(received, 0)
  /\ Continues(held, Len(received))
  /\ Len(received) + Len(held) <= taken

(* What is in the pipe takes the reader from where it is to where the      *)
(* writer is, or, when the rest of it is lost, some way there.             *)
PipeInv ==
  reading # "failed" =>
    \E t : RunsTo(ReaderState, wire, t, taken)
           /\ (link = "up" => t = WriterState)

PaddedInv ==
  /\ Padded!TypeOK
  /\ wire \in Seq(Items)
  /\ PaddingWriterInv
  /\ PaddingReaderInv
  /\ HeldInv
  /\ PipeInv

(* The numbers of the invariant.                                           *)
LEMMA PaddedNumbers ==
  ASSUME PaddedInv
  PROVE  /\ MaxBytes \in Nat /\ FirstPaddings \in Nat /\ MaxPaddingSize \in Nat
         /\ MaxOriginalPayloadSize \in Nat /\ MaxOriginalPayloadSize > 0
         /\ taken \in Nat /\ taken <= MaxBytes /\ pending \in Nat
         /\ writerCount \in 0 .. FirstPaddings /\ readerCount \in Nat
         /\ readerCount <= FirstPaddings
         /\ payloadRemaining \in Nat /\ paddingRemaining \in Nat
         /\ held \in Seq(0 .. MaxBytes) /\ received \in Seq(0 .. MaxBytes)
         /\ Len(held) \in Nat /\ Len(received) \in Nat
         /\ Len(received) + Len(held) <= taken
BY SizeAssumption, PaddingAssumption, LenProperties
DEF PaddedInv, Padded!TypeOK, PaddingWriterInv, HeldInv

(* What is put on the pipe takes the writer to where it is now.            *)
LEMMA PutRuns ==
  ASSUME PaddedInv, NEW items \in Seq(Items), Padded!PutOnPipe(items),
         taken' \in Nat, taken <= taken', UNCHANGED <<link, Padded!rvars>>,
         RunsTo(WriterState, items, WriterState', taken')
  PROVE  wire' \in Seq(Items) /\ HeldInv' /\ PipeInv'
<1>1. /\ wire \in Seq(Items) /\ taken \in Nat
      /\ Len(received) + Len(held) <= taken
      /\ Len(received) \in Nat /\ Len(held) \in Nat
  BY PaddedNumbers DEF PaddedInv
<1>2. UNCHANGED <<reading, readerCount, payloadRemaining, paddingRemaining,
                  held, received, link>>
  BY DEF Padded!rvars
<1>3. HeldInv'
  <2>1. Len(received) + Len(held) <= taken'
    BY <1>1
  <2> QED
    BY <1>2, <2>1 DEF PaddedInv, HeldInv
<1>4. wire' = IF link = "cut" THEN wire ELSE wire \o items
  BY DEF Padded!PutOnPipe
<1>5. wire' \in Seq(Items)
  <2>1. wire \o items \in Seq(Items)
    BY <1>1, ConcatProperties
  <2> QED
    BY <1>1, <1>4, <2>1
<1>6. ASSUME reading # "failed"
      PROVE  \E t : RunsTo(ReaderState, wire', t, taken')
                    /\ (link = "up" => t = WriterState')
  <2>1. PICK t : RunsTo(ReaderState, wire, t, taken)
                 /\ (link = "up" => t = WriterState)
    BY <1>6 DEF PaddedInv, PipeInv
  <2>2. RunsTo(ReaderState, wire, t, taken')
    BY <1>1, <2>1, RunWithin
  <2>3. CASE link = "up"
    <3>1. RunsTo(ReaderState, wire, WriterState, taken')
      BY <2>1, <2>2, <2>3
    <3>2. RunsTo(ReaderState, wire \o items, WriterState', taken')
      BY <1>1, <3>1, ConcatRuns
    <3>3. wire' = wire \o items
      BY <1>4, <2>3
    <3> QED
      BY <3>2, <3>3
  <2>4. CASE link # "up"
    <3>1. wire' = wire
      BY <1>4, <2>4 DEF PaddedInv, Padded!TypeOK
    <3> QED
      BY <2>2, <2>4, <3>1
  <2> QED
    BY <2>3, <2>4
<1>7. ReaderState' = ReaderState
  BY <1>2 DEF ReaderState, ReaderFrames
<1>8. PipeInv'
  BY <1>2, <1>6, <1>7 DEF PipeInv
<1> QED
  BY <1>3, <1>5, <1>8

(* One turn of the loop of Write.                                          *)
LEMMA WriteFramePreserves ==
  ASSUME PaddedInv, Padded!WriteFrame
  PROVE  /\ PaddedInv' /\ writer = "open" /\ taken' \in taken + 1 .. MaxBytes
         /\ UNCHANGED <<received, reading, writer, link>>
<1>1. /\ MaxBytes \in Nat /\ FirstPaddings \in Nat /\ MaxPaddingSize \in Nat
      /\ MaxOriginalPayloadSize \in Nat /\ MaxOriginalPayloadSize > 0
      /\ taken \in Nat /\ taken <= MaxBytes /\ pending \in Nat
      /\ writerCount \in 0 .. FirstPaddings /\ taken + pending <= MaxBytes
  BY PaddedNumbers DEF PaddedInv, PaddingWriterInv
<1>2. /\ pending > 0 /\ writerCount < FirstPaddings
      /\ writerCount' = writerCount + 1
      /\ UNCHANGED <<writer, emptyFrames, link, Padded!rvars>>
  BY DEF Padded!WriteFrame
<1>3. PICK size : size = Padded!MinOf(pending, MaxOriginalPayloadSize)
  OBVIOUS
<1>4. PICK pad \in 0 .. MaxPaddingSize :
        Padded!PutOnPipe((<<Padded!Header(size, pad)>>
                          \o Padded!PayloadItems(taken + 1, taken + size))
                         \o Padded!Padding(pad))
  BY <1>3 DEF Padded!WriteFrame
<1>5. taken' = taken + size /\ pending' = pending - size
  BY <1>3 DEF Padded!WriteFrame
<1>6. /\ size \in Nat /\ size > 0 /\ size <= pending
      /\ size <= MaxOriginalPayloadSize
  BY <1>1, <1>2, <1>3 DEF Padded!MinOf
<1>7. taken' \in Nat /\ taken' <= MaxBytes /\ taken < taken'
      /\ taken' \in 0 .. MaxBytes
  BY <1>1, <1>5, <1>6
<1>8. PICK head, mid, after :
        /\ head = <<Padded!Header(size, pad)>>
        /\ mid = Padded!PayloadItems(taken + 1, taken + size)
        /\ after = Padded!Padding(pad)
  OBVIOUS
<1> DEFINE full == State(writerCount + 1, size, pad, taken)
           done == State(writerCount + 1, 0, pad, taken + size)
<1>9. head \in Seq(Items) /\ RunsTo(WriterState, head, full, taken')
  <2>1. Padded!Header(size, pad) \in Items
    BY <1>1, <1>6 DEF Items, Padded!Header
  <2>2. WriterState \in States(taken') /\ full \in States(taken')
    BY <1>1, <1>2, <1>6, <1>7 DEF WriterState, State, States
  <2>3. Parses(WriterState, Padded!Header(size, pad), full)
    BY <1>2 DEF Parses, WriterState, State, Padded!Header
  <2> HIDE DEF full
  <2> QED
    BY <1>8, <2>1, <2>2, <2>3, SingleRun
<1>10. mid \in Seq(Items) /\ RunsTo(full, mid, done, taken')
  <2>1. /\ writerCount + 1 \in 0 .. FirstPaddings
        /\ size \in 0 .. MaxOriginalPayloadSize /\ taken + size <= taken'
        /\ size > 0 /\ size <= size
    BY <1>1, <1>2, <1>5, <1>6, <1>7
  <2>2. Left(size, size) = 0
    BY <1>6 DEF Left
  <2>3. RunsTo(full, mid, State(writerCount + 1, Left(size, size), pad,
                                taken + size), taken')
        /\ mid \in Seq(Items)
    BY <1>1, <1>6, <1>7, <1>8, <2>1, PayloadRun
  <2> QED
    BY <2>2, <2>3
<1>11. after \in Seq(Items) /\ RunsTo(done, after, WriterState', taken')
  <2>1. WriterState' = State(writerCount + 1, 0, 0, taken + size)
    BY <1>2, <1>5 DEF WriterState
  <2>2. writerCount + 1 \in 0 .. FirstPaddings /\ taken + size \in 0 .. taken'
    BY <1>1, <1>2, <1>5, <1>7
  <2> QED
    BY <1>7, <1>8, <2>1, <2>2, PaddingRun
<1> HIDE DEF full, done
<1>12. PICK items : items = (head \o mid) \o after
  OBVIOUS
<1>13. items \in Seq(Items) /\ RunsTo(WriterState, items, WriterState', taken')
  <2>1. head \o mid \in Seq(Items) /\ RunsTo(WriterState, head \o mid, done,
                                             taken')
    BY <1>9, <1>10, ConcatRuns
  <2> QED
    BY <1>11, <1>12, <2>1, ConcatRuns
<1>14. wire' \in Seq(Items) /\ HeldInv' /\ PipeInv'
  <2>1. taken <= taken'
    BY <1>1, <1>7
  <2>2. Padded!PutOnPipe(items)
    BY <1>4, <1>8, <1>12
  <2> QED
    BY <1>2, <1>7, <1>13, <2>1, <2>2, PutRuns
<1>15. Padded!TypeOK'
  <2>1. pending' \in 0 .. MaxBytes /\ writerCount' \in Nat
    BY <1>1, <1>2, <1>5, <1>6
  <2> QED
    BY <1>2, <1>7, <2>1 DEF PaddedInv, Padded!TypeOK, Padded!rvars
<1>16. PaddingWriterInv'
  <2>1. taken' + pending' <= MaxBytes
    BY <1>1, <1>5, <1>6
  <2>2. writer = "open"
    BY <1>2 DEF PaddedInv, PaddingWriterInv
  <2>3. writerCount' <= FirstPaddings
    BY <1>1, <1>2
  <2> QED
    BY <1>2, <2>1, <2>2, <2>3 DEF PaddingWriterInv
<1>17. PaddingReaderInv'
  BY <1>2 DEF PaddedInv, PaddingReaderInv, Padded!rvars
<1>18. writer = "open" /\ taken' \in taken + 1 .. MaxBytes
  <2>1. writer = "open"
    BY <1>2 DEF PaddedInv, PaddingWriterInv
  <2> QED
    BY <1>1, <1>7, <2>1
<1> QED
  BY <1>2, <1>14, <1>15, <1>16, <1>17, <1>18 DEF PaddedInv, Padded!rvars

(* The bytes behind the frames.                                            *)
LEMMA WriteRawPreserves ==
  ASSUME PaddedInv, Padded!WriteRaw
  PROVE  /\ PaddedInv' /\ writer = "open" /\ taken' \in taken + 1 .. MaxBytes
         /\ UNCHANGED <<received, reading, writer, link>>
<1>1. /\ MaxBytes \in Nat /\ FirstPaddings \in Nat /\ MaxPaddingSize \in Nat
      /\ MaxOriginalPayloadSize \in Nat
      /\ taken \in Nat /\ taken <= MaxBytes /\ pending \in Nat
      /\ writerCount \in 0 .. FirstPaddings /\ taken + pending <= MaxBytes
  BY PaddedNumbers DEF PaddedInv, PaddingWriterInv
<1>2. /\ pending > 0 /\ writerCount >= FirstPaddings
      /\ taken' = taken + pending /\ pending' = 0
      /\ Padded!PutOnPipe(Padded!PayloadItems(taken + 1, taken + pending))
      /\ UNCHANGED <<writerCount, writer, emptyFrames, link, Padded!rvars>>
  BY DEF Padded!WriteRaw
<1>3. taken' \in Nat /\ taken' \in 0 .. MaxBytes /\ taken < taken'
      /\ writerCount = FirstPaddings /\ taken + pending <= taken'
  BY <1>1, <1>2
<1>4. PICK items : items = Padded!PayloadItems(taken + 1, taken + pending)
  OBVIOUS
<1>5. items \in Seq(Items) /\ RunsTo(WriterState, items, WriterState', taken')
  <2>1. /\ 0 \in 0 .. MaxOriginalPayloadSize /\ 0 \in 0 .. MaxPaddingSize
        /\ Left(0, pending) = 0
    BY <1>1 DEF Left
  <2>2. /\ items \in Seq(Items)
        /\ RunsTo(State(writerCount, 0, 0, taken), items,
                  State(writerCount, Left(0, pending), 0, taken + pending),
                  taken')
    BY <1>1, <1>3, <1>4, <2>1, PayloadRun
  <2> QED
    BY <1>2, <2>1, <2>2 DEF WriterState
<1>6. wire' \in Seq(Items) /\ HeldInv' /\ PipeInv'
  <2>1. taken <= taken'
    BY <1>1, <1>3
  <2> QED
    BY <1>2, <1>3, <1>4, <1>5, <2>1, PutRuns
<1>7. Padded!TypeOK'
  BY <1>1, <1>2, <1>3 DEF PaddedInv, Padded!TypeOK, Padded!rvars
<1>8. PaddingWriterInv'
  BY <1>1, <1>2, <1>3 DEF PaddedInv, PaddingWriterInv
<1>9. PaddingReaderInv'
  BY <1>2 DEF PaddedInv, PaddingReaderInv, Padded!rvars
<1>10. writer = "open" /\ taken' \in taken + 1 .. MaxBytes
  <2>1. writer = "open"
    BY <1>2 DEF PaddedInv, PaddingWriterInv
  <2> QED
    BY <1>1, <1>3, <2>1
<1> QED
  BY <1>2, <1>6, <1>7, <1>8, <1>9, <1>10 DEF PaddedInv, Padded!rvars

(* An empty frame of a foreign peer.                                       *)
LEMMA SendEmptyFramePreserves ==
  ASSUME PaddedInv, Padded!SendEmptyFrame
  PROVE  PaddedInv' /\ UNCHANGED <<taken, received, reading, writer, link>>
<1>1. /\ FirstPaddings \in Nat /\ MaxPaddingSize \in Nat
      /\ MaxOriginalPayloadSize \in Nat /\ taken \in Nat
      /\ writerCount \in 0 .. FirstPaddings
  BY PaddedNumbers
<1>2. /\ writerCount < FirstPaddings /\ writerCount' = writerCount + 1
      /\ emptyFrames < MaxEmptyFrames /\ emptyFrames' = emptyFrames + 1
      /\ UNCHANGED <<taken, pending, writer, link, Padded!rvars>>
  BY DEF Padded!SendEmptyFrame
<1>3. PICK pad \in 0 .. MaxPaddingSize :
        Padded!PutOnPipe(<<Padded!Header(0, pad)>> \o Padded!Padding(pad))
  BY DEF Padded!SendEmptyFrame
<1>4. PICK head, after : /\ head = <<Padded!Header(0, pad)>>
                         /\ after = Padded!Padding(pad)
  OBVIOUS
<1> DEFINE full == State(writerCount + 1, 0, pad, taken)
<1>5. head \in Seq(Items) /\ RunsTo(WriterState, head, full, taken')
  <2>1. Padded!Header(0, pad) \in Items
    BY <1>1 DEF Items, Padded!Header
  <2>2. WriterState \in States(taken') /\ full \in States(taken')
    BY <1>1, <1>2 DEF WriterState, State, States
  <2>3. Parses(WriterState, Padded!Header(0, pad), full)
    BY <1>2 DEF Parses, WriterState, State, Padded!Header
  <2> HIDE DEF full
  <2> QED
    BY <1>4, <2>1, <2>2, <2>3, SingleRun
<1>6. after \in Seq(Items) /\ RunsTo(full, after, WriterState', taken')
  <2>1. WriterState' = State(writerCount + 1, 0, 0, taken)
    BY <1>2 DEF WriterState
  <2>2. writerCount + 1 \in 0 .. FirstPaddings /\ taken \in 0 .. taken'
        /\ taken' \in Nat
    BY <1>1, <1>2
  <2> QED
    BY <1>4, <2>1, <2>2, PaddingRun
<1> HIDE DEF full
<1>7. PICK items : items = head \o after
  OBVIOUS
<1>8. items \in Seq(Items) /\ RunsTo(WriterState, items, WriterState', taken')
  BY <1>5, <1>6, <1>7, ConcatRuns
<1>9. wire' \in Seq(Items) /\ HeldInv' /\ PipeInv'
  <2>1. taken' \in Nat /\ taken <= taken' /\ Padded!PutOnPipe(items)
    BY <1>1, <1>2, <1>3, <1>4, <1>7
  <2> QED
    BY <1>2, <1>8, <2>1, PutRuns
<1>10. Padded!TypeOK'
  <2>1. emptyFrames' \in 0 .. MaxEmptyFrames /\ writerCount' \in Nat
    BY <1>1, <1>2, PaddingAssumption DEF PaddedInv, Padded!TypeOK
  <2> QED
    BY <1>2, <2>1 DEF PaddedInv, Padded!TypeOK, Padded!rvars
<1>11. PaddingWriterInv'
  BY <1>1, <1>2 DEF PaddedInv, PaddingWriterInv
<1>12. PaddingReaderInv'
  BY <1>2 DEF PaddedInv, PaddingReaderInv, Padded!rvars
<1> QED
  BY <1>2, <1>9, <1>10, <1>11, <1>12 DEF PaddedInv, Padded!rvars

(* Write is called, or CloseWrite.                                         *)
LEMMA CallsPreserve ==
  ASSUME PaddedInv,
         (\E n \in 1 .. MaxBytes : Padded!CallWrite(n)) \/ Padded!CloseWrite
  PROVE  /\ PaddedInv' /\ UNCHANGED <<taken, received, reading, link>>
         /\ UNCHANGED writer \/ (writer = "open" /\ writer' = "closed")
<1>1. MaxBytes \in Nat /\ taken \in Nat /\ pending \in Nat
  BY PaddedNumbers
<1>2. /\ UNCHANGED <<taken, writerCount, emptyFrames, wire, link,
                     Padded!rvars>>
      /\ \/ /\ writer = "open" /\ UNCHANGED writer
            /\ pending' \in 1 .. (MaxBytes - taken)
         \/ /\ writer = "open" /\ writer' = "closed"
            /\ pending = 0 /\ UNCHANGED pending
  BY DEF Padded!CallWrite, Padded!CloseWrite
<1>3. Padded!TypeOK'
  <2>1. pending' \in 0 .. MaxBytes /\ writer' \in {"open", "closed"}
    BY <1>1, <1>2 DEF PaddedInv, Padded!TypeOK
  <2> QED
    BY <1>2, <2>1 DEF PaddedInv, Padded!TypeOK, Padded!rvars
<1>4. PaddingWriterInv'
  <2>1. \/ pending' = pending
        \/ writer' = "open" /\ taken + pending' <= MaxBytes
    BY <1>1, <1>2
  <2>2. writer' = "closed" => pending' = 0
    BY <1>2
  <2>3. pending' > 0 => writer' = "open"
    BY <1>1, <1>2, <2>2 DEF PaddedInv, PaddingWriterInv
  <2> QED
    BY <1>1, <1>2, <2>1, <2>3 DEF PaddedInv, PaddingWriterInv
<1>5. PaddingReaderInv' /\ HeldInv'
  BY <1>2 DEF PaddedInv, PaddingReaderInv, HeldInv, Padded!rvars
<1>6. PipeInv'
  <2>1. ReaderState' = ReaderState /\ WriterState' = WriterState
    BY <1>2 DEF ReaderState, ReaderFrames, WriterState, Padded!rvars
  <2>2. UNCHANGED <<reading, wire, taken, link>>
    BY <1>2 DEF Padded!rvars
  <2> QED
    BY <2>1, <2>2 DEF PaddedInv, PipeInv
<1> QED
  BY <1>2, <1>3, <1>4, <1>5, <1>6 DEF PaddedInv, Padded!rvars

(* The HTTP/2 stream breaks.                                               *)
LEMMA PaddedCutPreserves ==
  ASSUME PaddedInv, Padded!Cut
  PROVE  /\ PaddedInv' /\ link = "up" /\ link' = "cut"
         /\ UNCHANGED <<taken, received, reading, writer>>
<1>1. /\ link = "up" /\ link' = "cut"
      /\ UNCHANGED <<Padded!wvars, Padded!rvars>>
      /\ wire \in Seq(Items)
  BY DEF Padded!Cut, PaddedInv
<1>2. PICK k \in 0 .. Len(wire) : wire' = SubSeq(wire, 1, k)
  BY DEF Padded!Cut
<1>3. wire' \in Seq(Items)
  BY <1>1, <1>2, PartOfWire
<1>4. Padded!TypeOK' /\ PaddingWriterInv' /\ PaddingReaderInv' /\ HeldInv'
  BY <1>1 DEF PaddedInv, Padded!TypeOK, PaddingWriterInv, PaddingReaderInv,
              HeldInv, Padded!wvars, Padded!rvars
<1>5. PipeInv'
  <2>1. ReaderState' = ReaderState /\ UNCHANGED <<reading, taken>>
    BY <1>1 DEF ReaderState, ReaderFrames, Padded!rvars, Padded!wvars
  <2>2. ASSUME reading # "failed"
        PROVE  \E u : RunsTo(ReaderState, wire', u, taken)
    <3>1. PICK t : RunsTo(ReaderState, wire, t, taken)
      BY <2>2 DEF PaddedInv, PipeInv
    <3> QED
      BY <1>1, <1>2, <3>1, CutRun
  <2> QED
    BY <1>1, <2>1, <2>2 DEF PipeInv
<1> QED
  BY <1>1, <1>3, <1>4, <1>5 DEF PaddedInv, Padded!wvars, Padded!rvars

(* Where the reader is on the pipe, in States.                             *)
LEMMA ReaderRuns ==
  ASSUME PaddedInv, reading # "failed"
  PROVE  /\ ReaderState.frames = ReaderFrames
         /\ ReaderState.payload = payloadRemaining
         /\ ReaderState.padding = paddingRemaining
         /\ ReaderState.bytes = Len(received) + Len(held)
         /\ \E t : RunsTo(ReaderState, wire, t, taken)
                   /\ (link = "up" => t = WriterState)
BY DEF PaddedInv, PipeInv, ReaderState, State

(* n bytes are taken from the pipe as payload.                             *)
LEMMA TakesBytes ==
  ASSUME PaddedInv, reading # "failed", held = <<>>, NEW n \in 1 .. Len(wire),
         AtBytes(ReaderState, n)
  PROVE  LET data == Padded!Contents(SubSeq(wire, 1, n))
             rest == SubSeq(wire, n + 1, Len(wire))
         IN  /\ data \in Seq(0 .. MaxBytes) /\ Len(data) = n
             /\ Continues(data, Len(received)) /\ Len(received) + n <= taken
             /\ rest \in Seq(Items)
             /\ \E t : /\ RunsTo(State(ReaderFrames, Left(payloadRemaining, n),
                                       paddingRemaining, Len(received) + n),
                                 rest, t, taken)
                       /\ link = "up" => t = WriterState
<1>1. /\ MaxBytes \in Nat /\ taken \in Nat /\ taken <= MaxBytes
      /\ Len(received) \in Nat /\ wire \in Seq(Items) /\ Len(wire) \in Nat
  BY PaddedNumbers, LenProperties DEF PaddedInv
<1>2. PICK t : RunsTo(ReaderState, wire, t, taken)
               /\ (link = "up" => t = WriterState)
  BY ReaderRuns
<1>3. /\ ReaderState.frames = ReaderFrames
      /\ ReaderState.payload = payloadRemaining
      /\ ReaderState.padding = paddingRemaining
      /\ ReaderState.bytes = Len(received)
  <2>1. Len(held) = 0
    OBVIOUS
  <2> QED
    BY <1>1, <2>1, ReaderRuns
<1>4. n \in 0 .. Len(wire)
  BY <1>1
<1>5. PICK rest : rest = SubSeq(wire, n + 1, Len(wire))
  OBVIOUS
<1>6. /\ \A i \in 1 .. n : Padded!Content(wire[i]) = Len(received) + i
      /\ Len(received) + n <= taken
      /\ RunsTo(State(ReaderFrames, Left(payloadRemaining, n),
                      paddingRemaining, Len(received) + n),
                rest, t, taken)
  <2>1. /\ \A i \in 1 .. n : Padded!Content(wire[i]) = ReaderState.bytes + i
        /\ ReaderState.bytes + n <= taken
        /\ RunsTo(State(ReaderState.frames, Left(ReaderState.payload, n),
                        ReaderState.padding, ReaderState.bytes + n),
                  rest, t, taken)
    BY <1>1, <1>2, <1>4, <1>5, BytesRun
  <2> QED
    BY <1>3, <2>1
<1>7. PICK front : front = SubSeq(wire, 1, n)
  OBVIOUS
<1>8. /\ front \in Seq(Items) /\ Len(front) = n
      /\ \A i \in 1 .. n : front[i] = wire[i]
      /\ rest \in Seq(Items)
  BY <1>1, <1>4, <1>5, <1>7, PartOfWire
<1>9. PICK data : data = [i \in 1 .. n |-> Padded!Content(front[i])]
  OBVIOUS
<1>10. Padded!Contents(SubSeq(wire, 1, n)) = data
  BY <1>7, <1>8, <1>9 DEF Padded!Contents
<1>11. \A i \in 1 .. n : Padded!Content(front[i]) = Len(received) + i
  BY <1>6, <1>8
<1>12. \A i \in 1 .. n : Padded!Content(front[i]) \in 0 .. MaxBytes
  <2>1. \A i \in 1 .. n : Len(received) + i \in 0 .. MaxBytes
    BY <1>1, <1>6
  <2> QED
    BY <1>11, <2>1
<1>13. data \in Seq(0 .. MaxBytes) /\ Len(data) = n
  <2>1. n \in Nat
    BY <1>1
  <2>2. [i \in 1 .. n |-> Padded!Content(front[i])] \in Seq(0 .. MaxBytes)
    BY <1>12, <2>1, IsASeq
  <2>3. data \in Seq(0 .. MaxBytes) /\ DOMAIN data = 1 .. n
    BY <1>9, <2>2
  <2> QED
    BY <2>1, <2>3, LenProperties
<1>14. Continues(data, Len(received))
  BY <1>9, <1>11, <1>13 DEF Continues
<1> QED
  BY <1>2, <1>5, <1>6, <1>8, <1>10, <1>13, <1>14

(* What Read returns is added to what it has returned.                     *)
LEMMA ReturnFacts ==
  ASSUME received \in Seq(0 .. MaxBytes), NEW data \in Seq(0 .. MaxBytes),
         Padded!Return(data), Continues(received, 0),
         Continues(data, Len(received))
  PROVE  /\ received' \in Seq(0 .. MaxBytes) /\ Continues(received', 0)
         /\ Len(received') = Len(received) + Len(data)
<1>1. received' = received \o data
  BY DEF Padded!Return
<1>2. 0 \in Nat /\ Len(received) \in Nat /\ 0 + Len(received) = Len(received)
  BY LenProperties
<1>3. /\ received \o data \in Seq(0 .. MaxBytes)
      /\ Len(received \o data) = Len(received) + Len(data)
      /\ Continues(received \o data, 0)
  BY <1>2, ConcatContinues
<1> QED
  BY <1>1, <1>3

(* Read behind the padded frames.                                          *)
LEMMA ReadRawPreserves ==
  ASSUME PaddedInv, Padded!ReadRaw
  PROVE  /\ PaddedInv' /\ Len(received) <= Len(received')
         /\ UNCHANGED <<reading, taken, writer, link>>
<1>1. /\ FirstPaddings \in Nat /\ readerCount = FirstPaddings
      /\ received \in Seq(0 .. MaxBytes) /\ Len(received) \in Nat
      /\ wire \in Seq(Items) /\ Len(wire) \in Nat /\ taken \in Nat
  BY PaddedNumbers, LenProperties DEF PaddedInv, Padded!ReadRaw
<1>2. /\ reading = "header" /\ held = <<>>
      /\ payloadRemaining = 0 /\ paddingRemaining = 0
      /\ UNCHANGED <<reading, readerCount, payloadRemaining, paddingRemaining,
                     held, Padded!wvars, link>>
  BY DEF PaddedInv, PaddingReaderInv, Padded!ReadRaw
<1>0. PICK size \in PaddedReadSizes :
        \E n \in 1 .. Padded!MinOf(size, Len(wire)) :
          /\ Padded!Return(Padded!Contents(SubSeq(wire, 1, n)))
          /\ wire' = SubSeq(wire, n + 1, Len(wire))
  BY DEF Padded!ReadRaw
<1>3. PICK n \in 1 .. Padded!MinOf(size, Len(wire)) :
        /\ Padded!Return(Padded!Contents(SubSeq(wire, 1, n)))
        /\ wire' = SubSeq(wire, n + 1, Len(wire))
  BY <1>0
<1>4. n \in 1 .. Len(wire)
  BY <1>1, <1>3, PaddingAssumption DEF Padded!MinOf
<1>5. AtBytes(ReaderState, n) /\ ReaderFrames = FirstPaddings
  <2>1. ReaderFrames = FirstPaddings
    BY <1>1, <1>2 DEF ReaderFrames
  <2> QED
    BY <1>2, <2>1, ReaderRuns DEF AtBytes
<1>6. PICK data : data = Padded!Contents(SubSeq(wire, 1, n))
  OBVIOUS
<1>7. /\ data \in Seq(0 .. MaxBytes) /\ Len(data) = n
      /\ Continues(data, Len(received)) /\ Len(received) + n <= taken
      /\ wire' \in Seq(Items)
  BY <1>2, <1>3, <1>4, <1>5, <1>6, TakesBytes
<1>8. PICK t : /\ RunsTo(State(ReaderFrames, Left(payloadRemaining, n),
                               paddingRemaining, Len(received) + n),
                         wire', t, taken)
               /\ link = "up" => t = WriterState
  BY <1>2, <1>3, <1>4, <1>5, TakesBytes
<1>9. /\ received' \in Seq(0 .. MaxBytes) /\ Continues(received', 0)
      /\ Len(received') = Len(received) + n
  BY <1>1, <1>3, <1>6, <1>7, ReturnFacts DEF PaddedInv, HeldInv
<1>10. HeldInv'
  <2>1. held' = <<>> /\ Len(<<>>) = 0 /\ Len(received) + n + 0 <= taken
    BY <1>1, <1>2, <1>4, <1>7
  <2>2. /\ Continues(held', Len(received'))
        /\ Len(received') + Len(held') <= taken
    BY <1>9, <2>1, EmptyContinues
  <2> QED
    BY <1>2, <1>9, <2>2 DEF HeldInv, Padded!wvars
<1>11. PipeInv'
  <2>1. Left(payloadRemaining, n) = 0
    BY <1>2 DEF Left
  <2>2. ReaderState' = State(ReaderFrames, 0, paddingRemaining,
                             Len(received) + n)
    <3>1. ReaderFrames' = ReaderFrames
      BY <1>2 DEF ReaderFrames
    <3>2. Len(held') = 0 /\ Len(received) + n + 0 = Len(received) + n
      BY <1>1, <1>2, <1>4
    <3>3. Len(received') + Len(held') = Len(received) + n
      BY <1>9, <3>2
    <3> QED
      BY <1>2, <3>1, <3>3 DEF ReaderState
  <2>3. WriterState' = WriterState /\ taken' = taken /\ link' = link
    BY <1>2 DEF WriterState, Padded!wvars
  <2> QED
    BY <1>8, <2>1, <2>2, <2>3 DEF PipeInv
<1>12. Padded!TypeOK'
  BY <1>2, <1>9 DEF PaddedInv, Padded!TypeOK, Padded!wvars
<1>13. PaddingWriterInv' /\ PaddingReaderInv'
  BY <1>2 DEF PaddedInv, PaddingWriterInv, PaddingReaderInv, Padded!wvars
<1>14. Len(received) <= Len(received')
  BY <1>1, <1>4, <1>9
<1> QED
  BY <1>2, <1>7, <1>10, <1>11, <1>12, <1>13, <1>14 DEF PaddedInv, Padded!wvars

(* A frame header.                                                         *)
LEMMA ReadHeaderPreserves ==
  ASSUME PaddedInv, Padded!ReadHeader
  PROVE  /\ PaddedInv' /\ UNCHANGED <<received, taken, writer, link>>
         /\ reading = "header" /\ reading' \in {"payload", "padding"}
<1>1. /\ MaxOriginalPayloadSize \in Nat /\ MaxPaddingSize \in Nat
      /\ readerCount \in Nat /\ taken \in Nat /\ wire \in Seq(Items)
  BY PaddedNumbers DEF PaddedInv
<1>2. /\ reading = "header" /\ held = <<>> /\ readerCount < FirstPaddings
      /\ wire # <<>> /\ wire[1].kind = "header"
      /\ payloadRemaining' = wire[1].size /\ paddingRemaining' = wire[1].pad
      /\ reading' = IF wire[1].size = 0 THEN "padding" ELSE "payload"
      /\ wire' = Tail(wire)
      /\ UNCHANGED <<readerCount, held, received, Padded!wvars, link>>
  BY DEF PaddedInv, PaddingReaderInv, Padded!ReadHeader
<1>3. PICK t : RunsTo(ReaderState, wire, t, taken)
               /\ (link = "up" => t = WriterState)
  BY <1>2, ReaderRuns
<1>4. PICK r : /\ Parses(ReaderState, wire[1], r)
               /\ RunsTo(r, Tail(wire), t, taken)
  BY <1>1, <1>2, <1>3, FirstRun
<1>5. Tail(wire) \in Seq(Items) /\ wire[1] \in Items
  BY <1>1, <1>2, TailOfWire
<1>6. /\ wire[1].size \in 0 .. MaxOriginalPayloadSize
      /\ wire[1].pad \in 0 .. MaxPaddingSize
  BY <1>2, <1>5 DEF Items, Padded!Zero
<1>7. r = State(readerCount + 1, wire[1].size, wire[1].pad,
                Len(received) + Len(held))
  <2>1. r = State(ReaderState.frames + 1, wire[1].size, wire[1].pad,
                  ReaderState.bytes)
    BY <1>2, <1>4 DEF Parses
  <2>2. ReaderState.frames = readerCount
    BY <1>1, <1>2, ReaderRuns DEF ReaderFrames
  <2> QED
    BY <1>2, <2>1, <2>2, ReaderRuns
<1>8. ReaderState' = r
  <2>1. ReaderFrames' = readerCount + 1
    BY <1>2 DEF ReaderFrames
  <2> QED
    BY <1>2, <1>7, <2>1 DEF ReaderState
<1>9. PipeInv'
  <2>1. WriterState' = WriterState /\ taken' = taken /\ link' = link
    BY <1>2 DEF WriterState, Padded!wvars
  <2> QED
    BY <1>2, <1>3, <1>4, <1>8, <2>1 DEF PipeInv
<1>10. PaddingReaderInv'
  <2>1. wire[1].size = 0 \/ wire[1].size > 0
    BY <1>1, <1>6
  <2> QED
    BY <1>2, <2>1 DEF PaddingReaderInv
<1>11. Padded!TypeOK'
  BY <1>2, <1>6 DEF PaddedInv, Padded!TypeOK, Padded!wvars
<1>12. PaddingWriterInv' /\ HeldInv'
  BY <1>2 DEF PaddedInv, PaddingWriterInv, HeldInv, Padded!wvars
<1> QED
  BY <1>2, <1>5, <1>9, <1>10, <1>11, <1>12 DEF PaddedInv, Padded!wvars

(* Bytes of a payload, returned at once or kept until the padding is gone. *)
LEMMA ReadPayloadPreserves ==
  ASSUME PaddedInv, Padded!ReadPayload
  PROVE  /\ PaddedInv' /\ Len(received) <= Len(received')
         /\ UNCHANGED <<taken, writer, link>>
         /\ reading = "payload" /\ reading' \in {"payload", "padding"}
<1>1. /\ received \in Seq(0 .. MaxBytes) /\ Len(received) \in Nat
      /\ wire \in Seq(Items) /\ Len(wire) \in Nat /\ taken \in Nat
      /\ payloadRemaining \in Nat /\ readerCount \in Nat
      /\ MaxOriginalPayloadSize \in Nat
      /\ payloadRemaining <= MaxOriginalPayloadSize
  BY PaddedNumbers, LenProperties DEF PaddedInv, Padded!TypeOK
<1>2. /\ reading = "payload" /\ held = <<>> /\ payloadRemaining > 0
      /\ readerCount < FirstPaddings
      /\ UNCHANGED <<readerCount, paddingRemaining, Padded!wvars, link>>
  BY DEF PaddedInv, PaddingReaderInv, Padded!ReadPayload
<1> DEFINE Takes(n) ==
             /\ payloadRemaining' = payloadRemaining - n
             /\ wire' = SubSeq(wire, n + 1, Len(wire))
             /\ IF n < payloadRemaining
                  THEN /\ Padded!Return(Padded!Contents(SubSeq(wire, 1, n)))
                       /\ UNCHANGED <<held, reading>>
                  ELSE /\ held' = Padded!Contents(SubSeq(wire, 1, n))
                       /\ reading' = "padding"
                       /\ UNCHANGED received
<1>0. PICK size \in PaddedReadSizes :
        \E n \in 1 .. Padded!MinOf(Padded!MinOf(size, payloadRemaining),
                                   Len(wire)) : Takes(n)
  BY DEF Padded!ReadPayload
<1>3. PICK n \in 1 .. Padded!MinOf(Padded!MinOf(size, payloadRemaining),
                                  Len(wire)) : Takes(n)
  BY <1>0
<1>4. n \in 1 .. Len(wire) /\ n <= payloadRemaining
  BY <1>1, <1>3, PaddingAssumption DEF Padded!MinOf
<1>5. AtBytes(ReaderState, n)
  BY <1>2, <1>4, ReaderRuns DEF AtBytes
<1>6. PICK data : data = Padded!Contents(SubSeq(wire, 1, n))
  OBVIOUS
<1>7. /\ data \in Seq(0 .. MaxBytes) /\ Len(data) = n
      /\ Continues(data, Len(received)) /\ Len(received) + n <= taken
      /\ wire' \in Seq(Items)
  BY <1>2, <1>3, <1>4, <1>5, <1>6, TakesBytes
<1>8. PICK t : /\ RunsTo(State(ReaderFrames, Left(payloadRemaining, n),
                               paddingRemaining, Len(received) + n),
                         wire', t, taken)
               /\ link = "up" => t = WriterState
  BY <1>2, <1>3, <1>4, <1>5, TakesBytes
<1>9. \/ /\ Padded!Return(data) /\ held' = <<>> /\ reading' = "payload"
         /\ n < payloadRemaining
      \/ /\ held' = data /\ reading' = "padding" /\ received' = received
         /\ n = payloadRemaining
  BY <1>1, <1>2, <1>3, <1>4, <1>6
<1>10. /\ received' \in Seq(0 .. MaxBytes) /\ Continues(received', 0)
       /\ held' \in Seq(0 .. MaxBytes) /\ Continues(held', Len(received'))
       /\ Len(received') + Len(held') = Len(received) + n
       /\ Len(received) <= Len(received')
  <2>1. CASE Padded!Return(data) /\ held' = <<>>
    <3>1. /\ received' \in Seq(0 .. MaxBytes) /\ Continues(received', 0)
          /\ Len(received') = Len(received) + n
      BY <1>1, <1>7, <2>1, ReturnFacts DEF PaddedInv, HeldInv
    <3>2. /\ Len(held') = 0 /\ held' \in Seq(0 .. MaxBytes)
          /\ Continues(held', Len(received'))
      BY <2>1, EmptyContinues
    <3>3. Len(received) + n \in Nat /\ Len(received) <= Len(received) + n
      BY <1>1, <1>4
    <3> QED
      BY <3>1, <3>2, <3>3
  <2>2. CASE held' = data /\ received' = received
    <3>1. Continues(received, 0)
      BY DEF PaddedInv, HeldInv
    <3>2. Len(held') = n /\ Len(received') = Len(received)
      BY <1>7, <2>2
    <3>3. Len(received) <= Len(received)
      BY <1>1
    <3> QED
      BY <1>1, <1>7, <2>2, <3>1, <3>2, <3>3
  <2> QED
    BY <1>9, <2>1, <2>2
<1>11. HeldInv'
  BY <1>2, <1>7, <1>10 DEF HeldInv, Padded!wvars
<1>12. ReaderState' = State(ReaderFrames, Left(payloadRemaining, n),
                            paddingRemaining, Len(received) + n)
  <2>1. ReaderFrames' = ReaderFrames
    BY <1>2, <1>9 DEF ReaderFrames
  <2>2. payloadRemaining' = Left(payloadRemaining, n)
    BY <1>1, <1>2, <1>3 DEF Left
  <2> QED
    BY <1>2, <1>10, <2>1, <2>2 DEF ReaderState
<1>13. PipeInv'
  <2>1. WriterState' = WriterState /\ taken' = taken /\ link' = link
    BY <1>2 DEF WriterState, Padded!wvars
  <2> QED
    BY <1>8, <1>12, <2>1 DEF PipeInv
<1>14. PaddingReaderInv'
  <2>1. n < payloadRemaining => payloadRemaining' > 0
    BY <1>1, <1>3, <1>4
  <2>2. n = payloadRemaining => payloadRemaining' = 0
    BY <1>1, <1>3
  <2> QED
    BY <1>2, <1>9, <2>1, <2>2 DEF PaddingReaderInv
<1>15. Padded!TypeOK'
  <2>1. payloadRemaining' \in 0 .. MaxOriginalPayloadSize
    BY <1>1, <1>3, <1>4
  <2>2. reading' \in {"payload", "padding"}
    BY <1>9
  <2> QED
    BY <1>2, <1>10, <2>1, <2>2 DEF PaddedInv, Padded!TypeOK, Padded!wvars
<1>16. PaddingWriterInv'
  BY <1>2 DEF PaddedInv, PaddingWriterInv, Padded!wvars
<1> QED
  BY <1>2, <1>7, <1>9, <1>10, <1>11, <1>13, <1>14, <1>15, <1>16
  DEF PaddedInv, Padded!wvars

(* A zero of padding is dropped.                                           *)
LEMMA DiscardPaddingPreserves ==
  ASSUME PaddedInv, Padded!DiscardPadding
  PROVE  PaddedInv' /\ UNCHANGED <<received, reading, taken, writer, link>>
<1>1. /\ MaxPaddingSize \in Nat /\ taken \in Nat /\ wire \in Seq(Items)
      /\ paddingRemaining \in 0 .. MaxPaddingSize
  BY PaddedNumbers DEF PaddedInv, Padded!TypeOK
<1>2. /\ reading = "padding" /\ paddingRemaining > 0 /\ wire # <<>>
      /\ payloadRemaining = 0
      /\ paddingRemaining' = paddingRemaining - 1 /\ wire' = Tail(wire)
      /\ UNCHANGED <<reading, readerCount, payloadRemaining, held, received,
                     Padded!wvars, link>>
  BY DEF PaddedInv, PaddingReaderInv, Padded!DiscardPadding
<1>3. PICK t : RunsTo(ReaderState, wire, t, taken)
               /\ (link = "up" => t = WriterState)
  BY <1>2, ReaderRuns
<1>4. PICK r : /\ Parses(ReaderState, wire[1], r)
               /\ RunsTo(r, Tail(wire), t, taken)
  BY <1>1, <1>2, <1>3, FirstRun
<1>5. Tail(wire) \in Seq(Items)
  BY <1>1, <1>2, TailOfWire
<1>6. r = State(ReaderFrames, 0, paddingRemaining - 1,
                Len(received) + Len(held))
  <2>1. ~ (paddingRemaining = 0) /\ ~ (0 > 0)
    BY <1>1, <1>2
  <2>2. r = State(ReaderState.frames, 0, ReaderState.padding - 1,
                  ReaderState.bytes)
    BY <1>2, <1>4, <2>1, ReaderRuns DEF Parses, AtBytes
  <2> QED
    BY <1>2, <2>2, ReaderRuns
<1>7. ReaderState' = r
  BY <1>2, <1>6 DEF ReaderState, ReaderFrames
<1>8. PipeInv'
  <2>1. WriterState' = WriterState /\ taken' = taken /\ link' = link
    BY <1>2 DEF WriterState, Padded!wvars
  <2> QED
    BY <1>2, <1>3, <1>4, <1>7, <2>1 DEF PipeInv
<1>9. Padded!TypeOK'
  <2>1. paddingRemaining' \in 0 .. MaxPaddingSize
    BY <1>1, <1>2
  <2> QED
    BY <1>2, <2>1 DEF PaddedInv, Padded!TypeOK, Padded!wvars
<1>10. PaddingWriterInv' /\ PaddingReaderInv' /\ HeldInv'
  BY <1>2 DEF PaddedInv, PaddingWriterInv, PaddingReaderInv, HeldInv,
              Padded!wvars
<1> QED
  BY <1>2, <1>5, <1>8, <1>9, <1>10 DEF PaddedInv, Padded!wvars

(* A frame is counted and its last bytes are returned.                     *)
LEMMA FinishFramePreserves ==
  ASSUME PaddedInv, Padded!FinishFrame
  PROVE  /\ PaddedInv' /\ Len(received) <= Len(received')
         /\ UNCHANGED <<taken, writer, link>>
         /\ reading = "padding" /\ reading' = "header"
<1>1. /\ FirstPaddings \in Nat /\ readerCount \in Nat /\ taken \in Nat
      /\ received \in Seq(0 .. MaxBytes) /\ held \in Seq(0 .. MaxBytes)
      /\ Len(received) \in Nat /\ Len(held) \in Nat
      /\ Len(received) + Len(held) <= taken
  BY PaddedNumbers
<1>2. /\ reading = "padding" /\ paddingRemaining = 0 /\ payloadRemaining = 0
      /\ readerCount < FirstPaddings /\ readerCount' = readerCount + 1
      /\ Padded!Return(held) /\ held' = <<>> /\ reading' = "header"
      /\ UNCHANGED <<payloadRemaining, paddingRemaining, wire, Padded!wvars,
                     link>>
  BY DEF PaddedInv, PaddingReaderInv, Padded!FinishFrame
<1>3. /\ received' \in Seq(0 .. MaxBytes) /\ Continues(received', 0)
      /\ Len(received') = Len(received) + Len(held)
  BY <1>1, <1>2, ReturnFacts DEF PaddedInv, HeldInv
<1>4. Len(held') = 0 /\ Continues(held', Len(received'))
  BY <1>2, EmptyContinues
<1>5. Len(received') + Len(held') = Len(received) + Len(held)
  BY <1>1, <1>3, <1>4
<1>6. HeldInv'
  BY <1>1, <1>2, <1>3, <1>4, <1>5 DEF HeldInv, Padded!wvars
<1>7. ReaderState' = ReaderState
  <2>1. ReaderFrames' = ReaderFrames
    BY <1>1, <1>2 DEF ReaderFrames
  <2> QED
    BY <1>2, <1>5, <2>1 DEF ReaderState
<1>8. PipeInv'
  <2>1. WriterState' = WriterState
        /\ UNCHANGED <<wire, taken, link>>
    BY <1>2 DEF WriterState, Padded!wvars
  <2> QED
    BY <1>2, <1>7, <2>1 DEF PaddedInv, PipeInv
<1>9. Padded!TypeOK'
  <2>1. readerCount' \in 0 .. FirstPaddings /\ held' \in Seq(0 .. MaxBytes)
    BY <1>1, <1>2
  <2> QED
    BY <1>2, <1>3, <2>1 DEF PaddedInv, Padded!TypeOK, Padded!wvars
<1>10. PaddingWriterInv' /\ PaddingReaderInv'
  BY <1>2 DEF PaddedInv, PaddingWriterInv, PaddingReaderInv, Padded!wvars
<1>11. Len(received) <= Len(received')
  BY <1>1, <1>3
<1> QED
  BY <1>2, <1>6, <1>8, <1>9, <1>10, <1>11 DEF PaddedInv, Padded!wvars

(* The end of the pipe: on a stream that did not break it comes at a frame *)
(* boundary, and after the last byte.                                      *)
LEMMA PaddedEndPreserves ==
  ASSUME PaddedInv, Padded!ReadEnd
  PROVE  /\ PaddedInv' /\ Len(received) <= Len(received')
         /\ UNCHANGED <<taken, writer, link>>
         /\ reading \notin {"ended", "failed"}
         /\ reading' \in {"ended", "failed"}
         /\ link = "up" => /\ writer = "closed" /\ reading' = "ended"
                           /\ Len(received') = taken
<1>1. /\ readerCount \in Nat /\ taken \in Nat /\ payloadRemaining \in Nat
      /\ received \in Seq(0 .. MaxBytes) /\ held \in Seq(0 .. MaxBytes)
      /\ Len(received) \in Nat /\ Len(held) \in Nat
      /\ Len(received) + Len(held) <= taken
      /\ writerCount \in Nat
  BY PaddedNumbers
<1>2. /\ wire = <<>> /\ (writer = "closed" \/ link = "cut")
      /\ reading \in {"header", "payload", "padding"}
      /\ reading' \in {"ended", "failed"}
      /\ reading = "header" => reading' = "ended" \/ link = "cut"
      /\ reading # "header" => reading' = "failed"
      /\ reading = "padding" => paddingRemaining > 0
      /\ reading = "payload" => payloadRemaining > 0
      /\ Padded!Return(held) /\ held' = <<>>
      /\ UNCHANGED <<readerCount, payloadRemaining, paddingRemaining, wire,
                     Padded!wvars, link>>
  BY DEF PaddedInv, PaddingReaderInv, Padded!ReadEnd
<1>3. /\ received' \in Seq(0 .. MaxBytes) /\ Continues(received', 0)
      /\ Len(received') = Len(received) + Len(held)
  BY <1>1, <1>2, ReturnFacts DEF PaddedInv, HeldInv
<1>4. Len(held') = 0 /\ Continues(held', Len(received'))
  BY <1>2, EmptyContinues
<1>5. Len(received') + Len(held') = Len(received) + Len(held)
  BY <1>1, <1>3, <1>4
<1>6. HeldInv'
  BY <1>1, <1>2, <1>3, <1>4, <1>5 DEF HeldInv, Padded!wvars
<1>7. PICK t : RunsTo(ReaderState, wire, t, taken)
               /\ (link = "up" => t = WriterState)
  BY <1>2, ReaderRuns
<1>8. ReaderState = t
  BY <1>2, <1>7, RunEnds DEF PaddedInv
<1>9. ASSUME link = "up"
      PROVE  /\ writer = "closed" /\ reading = "header" /\ reading' = "ended"
             /\ Len(received') = taken
  <2>1. ReaderState = State(writerCount, 0, 0, taken)
    BY <1>7, <1>8, <1>9 DEF WriterState
  <2>2. /\ payloadRemaining = 0 /\ paddingRemaining = 0
        /\ Len(received) + Len(held) = taken
    BY <2>1 DEF ReaderState, State
  <2>3. ~ (0 > 0)
    OBVIOUS
  <2> QED
    BY <1>2, <1>3, <1>9, <2>2, <2>3
<1>10. ASSUME reading = "header" PROVE ReaderState' = ReaderState
  <2>1. ReaderFrames' = ReaderFrames
    BY <1>2, <1>10 DEF ReaderFrames
  <2> QED
    BY <1>2, <1>5, <2>1 DEF ReaderState
<1>11. PipeInv'
  <2>1. WriterState' = WriterState /\ UNCHANGED <<wire, taken, link>>
    BY <1>2 DEF WriterState, Padded!wvars
  <2>2. reading' # "failed" => reading = "header"
    BY <1>2
  <2> QED
    BY <1>7, <1>10, <2>1, <2>2 DEF PipeInv
<1>12. Padded!TypeOK'
  <2>1. held' \in Seq(0 .. MaxBytes)
    BY <1>2
  <2> QED
    BY <1>2, <1>3, <2>1 DEF PaddedInv, Padded!TypeOK, Padded!wvars
<1>13. PaddingReaderInv'
  <2>1. reading' = "failed" => link' = "cut"
    BY <1>2, <1>9 DEF PaddedInv, Padded!TypeOK
  <2>2. reading' = "ended" => reading = "header"
    BY <1>2
  <2> QED
    BY <1>2, <2>1, <2>2 DEF PaddedInv, PaddingReaderInv
<1>14. PaddingWriterInv'
  BY <1>2 DEF PaddedInv, PaddingWriterInv, Padded!wvars
<1>15. Len(received) <= Len(received')
  BY <1>1, <1>3
<1> QED
  BY <1>2, <1>6, <1>9, <1>11, <1>12, <1>13, <1>14, <1>15
  DEF PaddedInv, Padded!wvars

(* Every step of a padded stream keeps the invariant.                      *)
LEMMA PaddedStep ==
  ASSUME PaddedInv, [Padded!Next]_Padded!vars
  PROVE  PaddedInv'
<1>1. CASE UNCHANGED Padded!vars
  <2>1. UNCHANGED <<taken, pending, writerCount, writer, emptyFrames, wire,
                    link, reading, readerCount, payloadRemaining,
                    paddingRemaining, held, received>>
    BY <1>1 DEF Padded!vars
  <2>2. Padded!TypeOK' /\ PaddingWriterInv' /\ PaddingReaderInv' /\ HeldInv'
    BY <2>1 DEF PaddedInv, Padded!TypeOK, PaddingWriterInv, PaddingReaderInv,
                HeldInv
  <2>3. ReaderState' = ReaderState /\ WriterState' = WriterState
    BY <2>1 DEF ReaderState, ReaderFrames, WriterState
  <2>4. PipeInv'
    BY <2>1, <2>3 DEF PaddedInv, PipeInv
  <2> QED
    BY <2>1, <2>2, <2>4 DEF PaddedInv
<1>2. CASE Padded!Write
  BY <1>2, CallsPreserve, WriteFramePreserves, WriteRawPreserves,
     SendEmptyFramePreserves
  DEF Padded!Write
<1>3. CASE Padded!Cut
  BY <1>3, PaddedCutPreserves
<1>4. CASE Padded!ReadStep
  BY <1>4, ReadRawPreserves, ReadHeaderPreserves, ReadPayloadPreserves,
     DiscardPaddingPreserves, FinishFramePreserves, PaddedEndPreserves
  DEF Padded!ReadStep
<1> QED
  BY <1>1, <1>2, <1>3, <1>4 DEF Padded!Next

(* On an empty pipe the reader is where the writer is.                     *)
LEMMA PaddedStart ==
  ASSUME Padded!Init
  PROVE  PaddedInv
<1>1. /\ MaxBytes \in Nat /\ FirstPaddings \in Nat /\ MaxPaddingSize \in Nat
      /\ MaxOriginalPayloadSize \in Nat /\ MaxEmptyFrames \in Nat
  BY SizeAssumption, PaddingAssumption
<1>2. <<>> \in Seq(0 .. MaxBytes) /\ <<>> \in Seq(Items) /\ Len(<<>>) = 0
  OBVIOUS
<1>3. Padded!TypeOK /\ wire \in Seq(Items)
  <2>1. 0 \in Nat /\ 0 \in 0 .. MaxBytes /\ 0 \in 0 .. FirstPaddings
        /\ 0 \in 0 .. MaxEmptyFrames /\ 0 \in 0 .. MaxOriginalPayloadSize
        /\ 0 \in 0 .. MaxPaddingSize
    BY <1>1
  <2> QED
    BY <1>2, <2>1 DEF Padded!Init, Padded!TypeOK
<1>4. PaddingWriterInv /\ PaddingReaderInv
  BY <1>1 DEF Padded!Init, PaddingWriterInv, PaddingReaderInv
<1>5. HeldInv
  BY <1>2, EmptyContinues DEF Padded!Init, HeldInv
<1>6. PipeInv
  <2>1. ReaderState = State(0, 0, 0, 0) /\ WriterState = State(0, 0, 0, 0)
    BY <1>2 DEF Padded!Init, ReaderState, ReaderFrames, WriterState
  <2>2. State(0, 0, 0, 0) \in States(0)
    BY <1>1 DEF State, States
  <2>3. RunsTo(State(0, 0, 0, 0), <<>>, State(0, 0, 0, 0), 0)
    BY <2>2, EmptyRun
  <2> QED
    BY <2>1, <2>3 DEF Padded!Init, PipeInv
<1> QED
  BY <1>3, <1>4, <1>5, <1>6 DEF PaddedInv

(* PaddingStream counts with the Cardinality of its own instance.          *)
LEMMA SameCardinality == \A S : Padded!Cardinality(S) = Cardinality(S)
BY DEF Padded!Cardinality, Cardinality

(* The headers in the pipe are what the reader has yet to count.           *)
LEMMA PaddedInStep ==
  ASSUME PaddedInv
  PROVE  Padded!FramesInStep
<1>1. ASSUME link = "up"
      PROVE  writerCount = ReaderFrames + Cardinality(HeadersIn(wire))
  <2>1. reading # "failed" /\ wire \in Seq(Items)
    BY <1>1 DEF PaddedInv, PaddingReaderInv
  <2>2. RunsTo(ReaderState, wire, WriterState, taken)
    BY <1>1, <2>1, ReaderRuns
  <2>3. WriterState.frames = ReaderState.frames + Cardinality(HeadersIn(wire))
    BY <2>1, <2>2, HeadersCounted, PaddedNumbers
  <2>4. WriterState.frames = writerCount
    BY DEF WriterState, State
  <2> QED
    BY <2>1, <2>3, <2>4, ReaderRuns
<1>2. ASSUME link = "up"
      PROVE  writerCount = ReaderFrames + Padded!Cardinality(HeadersIn(wire))
  BY <1>1, <1>2, SameCardinality
<1> QED
  BY <1>2 DEF Padded!FramesInStep, ReaderFrames, HeadersIn

(* Write, CloseWrite and a break, seen by the relay.                       *)
LEMMA PaddedWriteImplements ==
  ASSUME PaddedInv, padded, UNCHANGED padded, Padded!Write \/ Padded!Cut
  PROVE  [Stream!Next]_Stream!vars
<1>1. taken \in Nat
  BY PaddedNumbers
<1>2. CASE Padded!WriteFrame \/ Padded!WriteRaw
  <2>1. /\ writer = "open" /\ taken' \in taken + 1 .. MaxBytes
        /\ UNCHANGED <<received, reading, writer, link>>
    BY <1>2, WriteFramePreserves, WriteRawPreserves
  <2>2. /\ CarrierWriter = "open"
        /\ UNCHANGED <<received, CarrierWriter, CarrierLink, CarrierReader>>
    BY <2>1 DEF CarrierWriter, CarrierLink, CarrierReader, Padded!StreamLink,
                Padded!StreamReader
  <2>3. Stream!Send
    BY <1>1, <2>1, <2>2, SendStep
  <2> QED
    BY <2>3 DEF Stream!Next
<1>3. CASE \/ \E n \in 1 .. MaxBytes : Padded!CallWrite(n)
           \/ Padded!CloseWrite \/ Padded!SendEmptyFrame
  <2>1. /\ UNCHANGED <<taken, received, reading, link>>
        /\ UNCHANGED writer \/ (writer = "open" /\ writer' = "closed")
    BY <1>3, CallsPreserve, SendEmptyFramePreserves
  <2>2. /\ UNCHANGED <<taken, received, CarrierLink, CarrierReader>>
        /\ \/ UNCHANGED CarrierWriter
           \/ CarrierWriter = "open" /\ CarrierWriter' = "closed"
    BY <2>1 DEF CarrierWriter, CarrierLink, CarrierReader, Padded!StreamLink,
                Padded!StreamReader
  <2>3. Stream!CloseWriter \/ UNCHANGED Stream!vars
    BY <2>2 DEF Stream!CloseWriter, Stream!vars, CarrierWriter, CarrierLink,
                CarrierReader
  <2> QED
    BY <2>3 DEF Stream!Next
<1>4. CASE Padded!Cut
  <2>1. /\ link = "up" /\ link' = "cut"
        /\ UNCHANGED <<taken, received, reading, writer>>
    BY <1>4, PaddedCutPreserves
  <2>2. /\ CarrierLink = "up" /\ CarrierLink' = "faulty"
        /\ UNCHANGED <<taken, received, CarrierWriter, CarrierReader>>
    BY <2>1 DEF CarrierWriter, CarrierLink, CarrierReader, Padded!StreamLink,
                Padded!StreamReader
  <2>3. Stream!Fault
    BY <2>2 DEF Stream!Fault, CarrierWriter, CarrierLink, CarrierReader
  <2> QED
    BY <2>3 DEF Stream!Next
<1> QED
  BY <1>2, <1>3, <1>4 DEF Padded!Write

(* What a padded stream has handed on was written.                         *)
LEMMA PaddedBytes == PaddedInv => HandedOn
<1> SUFFICES ASSUME PaddedInv PROVE HandedOn
  OBVIOUS
<1>1. /\ received \in Seq(0 .. MaxBytes) /\ Len(received) \in Nat
      /\ Len(held) \in Nat /\ Len(received) + Len(held) <= taken
      /\ taken \in Nat
  BY PaddedNumbers
<1>2. Len(received) <= taken
  BY <1>1
<1> QED
  BY <1>1, <1>2 DEF HandedOn, PaddedInv, HeldInv

(* Read, seen by the relay.                                                *)
LEMMA PaddedReadImplements ==
  ASSUME PaddedInv, padded, UNCHANGED padded, Padded!ReadStep
  PROVE  [Stream!Next]_Stream!vars
<1>1. PaddedInv'
  BY PaddedStep DEF Padded!Next
<1>2. HandedOn /\ HandedOn'
  <2>1. HandedOn
    BY PaddedBytes
  <2>2. HandedOn'
    BY <1>1, PaddedBytes, PTL
  <2> QED
    BY <2>1, <2>2
<1>3. taken \in 0 .. MaxBytes
  BY DEF PaddedInv, Padded!TypeOK
<1>4. CASE Padded!ReadEnd
  <2>1. /\ Len(received) <= Len(received')
        /\ UNCHANGED <<taken, writer, link>>
        /\ reading \notin {"ended", "failed"}
        /\ reading' \in {"ended", "failed"}
        /\ link = "up" => /\ writer = "closed" /\ reading' = "ended"
                          /\ Len(received') = taken
    BY <1>4, PaddedEndPreserves
  <2>2. /\ UNCHANGED <<taken, CarrierWriter, CarrierLink>>
        /\ CarrierReader = "open" /\ CarrierReader' = reading'
        /\ link # "up" => CarrierLink = "faulty"
        /\ CarrierWriter = writer
    BY <2>1 DEF CarrierWriter, CarrierLink, CarrierReader, Padded!StreamLink,
                Padded!StreamReader
  <2>3. Stream!End
    BY <1>2, <1>3, <2>1, <2>2, EndStep DEF HandedOn
  <2> QED
    BY <2>3 DEF Stream!Next
<1>5. CASE ~ Padded!ReadEnd
  <2>1. /\ Len(received) <= Len(received')
        /\ UNCHANGED <<taken, writer, link>>
        /\ reading \notin {"ended", "failed"}
        /\ reading' \notin {"ended", "failed"}
    <3>1. CASE Padded!ReadRaw
      BY <3>1, ReadRawPreserves DEF Padded!ReadRaw
    <3>2. CASE Padded!ReadHeader
      <4>1. Len(received) <= Len(received)
        BY <1>2 DEF HandedOn
      <4> QED
        BY <3>2, <4>1, ReadHeaderPreserves
    <3>3. CASE Padded!ReadPayload
      BY <3>3, ReadPayloadPreserves
    <3>4. CASE Padded!DiscardPadding
      <4>1. Len(received) <= Len(received)
        BY <1>2 DEF HandedOn
      <4> QED
        BY <3>4, <4>1, DiscardPaddingPreserves DEF Padded!DiscardPadding
    <3>5. CASE Padded!FinishFrame
      BY <3>5, FinishFramePreserves
    <3> QED
      BY <1>5, <3>1, <3>2, <3>3, <3>4, <3>5 DEF Padded!ReadStep
  <2>2. /\ UNCHANGED <<taken, CarrierWriter, CarrierLink, CarrierReader>>
        /\ CarrierReader = "open"
    BY <2>1 DEF CarrierWriter, CarrierLink, CarrierReader, Padded!StreamLink,
                Padded!StreamReader
  <2> QED
    BY <1>2, <1>3, <2>1, <2>2, DeliverStep DEF HandedOn
<1> QED
  BY <1>4, <1>5

----------------------------------------------------------------------------
(* Both carriers.                                                          *)

CarrierInv ==
  /\ padded \in BOOLEAN
  /\ IF padded THEN PaddedInv ELSE SealedInv

(* A step of a carrier is a step of one of the two streams.                *)
LEMMA CarrierSteps ==
  ASSUME [CarrierNext]_carrierVars
  PROVE  /\ UNCHANGED padded
         /\ padded => [Padded!Next]_Padded!vars
         /\ ~ padded => [Next]_vars
BY DEF CarrierNext, CarrierReads, carrierVars, paddedVars, vars, Next,
       Padded!Next, Padded!vars

(* Every carrier keeps its invariant, whatever the network does.           *)
THEOREM CarrierInvariant == CarrierSpec => []CarrierInv
<1>1. CarrierInit => CarrierInv
  BY SealedStart, PaddedStart DEF CarrierInit, CarrierInv
<1>2. CarrierInv /\ [CarrierNext]_carrierVars => CarrierInv'
  <2> SUFFICES ASSUME CarrierInv, [CarrierNext]_carrierVars
               PROVE  CarrierInv'
    OBVIOUS
  <2>1. UNCHANGED padded
    BY CarrierSteps
  <2>2. CASE padded
    BY <2>1, <2>2, CarrierSteps, PaddedStep DEF CarrierInv
  <2>3. CASE ~ padded
    BY <2>1, <2>3, CarrierSteps, SealedStep DEF CarrierInv
  <2> QED
    BY <2>2, <2>3
<1> QED
  BY <1>1, <1>2, PTL DEF CarrierSpec

(* conn.ReadFrom leaves room for the address in the first chunk of a       *)
(* request, so no chunk outgrows its length field and none is announced    *)
(* with a truncated length; frames and their counts keep to their limits.  *)
THEOREM CarrierTypeCorrect == CarrierSpec => []CarrierTypeOK
<1>1. CarrierInv => CarrierTypeOK
  BY DEF CarrierInv, CarrierTypeOK, PaddedInv, SealedInv
<1> QED
  BY <1>1, CarrierInvariant, PTL

(* The nonces and lengths of Shadowsocks and the padded frames of          *)
(* NaiveProxy are counted alike on both sides.                             *)
THEOREM FramingStaysInStep == CarrierSpec => []FramingInStep
<1>1. CarrierInv => FramingInStep
  BY SealedInStep, PaddedInStep DEF CarrierInv, FramingInStep
<1> QED
  BY <1>1, CarrierInvariant, PTL

(* Each step of conn (ReadFrom, Read, WriteTo) and of paddingWriter and    *)
(* paddingReader, and each fault of the network, is a step of the byte     *)
(* stream that the relay relies on.                                        *)
THEOREM CarriesByteStream == CarrierSpec => Stream!Safety
<1>1. CarrierInit => Stream!Init
  <2> SUFFICES ASSUME CarrierInit PROVE Stream!Init
    OBVIOUS
  <2>1. Bytes(1, 0) = <<>>
    <3>1. <<>> \in Seq(Nat) /\ Len(<<>>) = 0
      OBVIOUS
    <3> QED
      BY <3>1, EmptyContinues, ContinuesIsBytes
  <2>2. /\ taken = 0 /\ received = <<>> /\ writer = "open" /\ link = "up"
        /\ reading \in {"header", "fixedHeader"} /\ padded \in BOOLEAN
    BY DEF CarrierInit, Init, Padded!Init
  <2> QED
    BY <2>1, <2>2 DEF Stream!Init, StreamWriter, StreamLink, StreamReader,
                      Padded!StreamLink, Padded!StreamReader
<1>2. CarrierInv /\ [CarrierNext]_carrierVars => [Stream!Next]_Stream!vars
  <2> SUFFICES ASSUME CarrierInv, [CarrierNext]_carrierVars
               PROVE  [Stream!Next]_Stream!vars
    OBVIOUS
  <2>1. CASE UNCHANGED carrierVars
    <3>1. UNCHANGED <<taken, writer, nonceWriter, link, reading, received,
                      padded>>
      BY <2>1 DEF carrierVars, vars
    <3>2. UNCHANGED Stream!vars
      BY <3>1 DEF Stream!vars, StreamWriter, StreamLink, StreamReader,
                  Padded!StreamLink, Padded!StreamReader
    <3> QED
      BY <3>2
  <2>2. CASE CarrierNext /\ padded
    <3>1. PaddedInv /\ UNCHANGED padded
      BY <2>2, CarrierSteps DEF CarrierInv
    <3>2. Padded!Write \/ Padded!Cut \/ Padded!ReadStep
      BY <2>2 DEF CarrierNext, CarrierReads
    <3> QED
      BY <2>2, <3>1, <3>2, PaddedWriteImplements, PaddedReadImplements
  <2>3. CASE CarrierNext /\ ~ padded
    <3>1. SealedInv /\ UNCHANGED padded
      BY <2>3, CarrierSteps DEF CarrierInv
    <3>2. Write \/ Network \/ ReadStep
      BY <2>3 DEF CarrierNext, CarrierReads
    <3> QED
      BY <2>3, <3>1, <3>2, SealedWriteImplements, SealedReadImplements
  <2> QED
    BY <2>1, <2>2, <2>3
<1> QED
  BY <1>1, <1>2, CarrierInvariant, PTL DEF CarrierSpec, Stream!Safety

=============================================================================
