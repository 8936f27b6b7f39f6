--------------------------- MODULE TLSDemuxProofs ---------------------------
(***************************************************************************)
(* Proofs, for any number of connections and buffers and any length of the *)
(* hash, that the loop over single bytes recognises the hash, that nothing *)
(* is dialled without the password and that no connection is served the    *)
(* bytes of another.                                                       *)
(***************************************************************************)
EXTENDS TLSDemux, TLAPS

(* The loop of HasPasswordHash: i is within what was received, and wasCR   *)
(* tells of the last byte.                                                 *)
PeekInv ==
  \A c \in Conns :
    /\ pc[c] = "start" => pos[c] = 0 /\ ~ wasCR[c]
    /\ pc[c] = "peek" =>
         /\ pos[c] <= Len(input[c])
         /\ wasCR[c] <=> pos[c] > 0 /\ input[c][pos[c]] = "CR"

(* serve holds a buffer from its start to its end, or until the connection *)
(* is handed over; no other serve goroutine holds it.                      *)
BuffersInv ==
  \A c \in Conns :
    /\ pc[c] \in {"peek", "trojan", "push"} => buf[c] # NoBuffer
    /\ pc[c] = "naive" => buf[c] = NoBuffer
    /\ \A d \in Conns \ {c} : buf[c] # NoBuffer => buf[c] # buf[d]

(* Once something was read into it, the buffer of a connection has its own *)
(* bytes, and what the HTTP server is going to read is a copy of them.     *)
HasReadIntoBuffer(c) ==
  \/ pc[c] = "peek" /\ pos[c] > 0
  \/ pc[c] = "push" /\ input[c] # <<>>
  \/ pc[c] \in {"trojan", "dial", "forwarding"} /\ buf[c] # NoBuffer

ContentInv ==
  \A c \in Conns :
    /\ HasReadIntoBuffer(c) => content[buf[c]] = c
    /\ preload[c] \in {NoPreload, [buffer |-> NoBuffer, bytes |-> c]}

IInv ==
  /\ TypeOK
  /\ PeekInv
  /\ BuffersInv
  /\ ContentInv
  /\ TrojanIffHash
  /\ OnlySiteWithoutPassword
  /\ ServedItsOwnBytes

----------------------------------------------------------------------------
(* The loop.                                                               *)

(* One turn of HasPasswordHash: the loop is left with the right answer, or *)
(* it has seen one byte more, inside the hash or the first one behind it.  *)
LEMMA PeekByteOutcome ==
  ASSUME IInv, NEW c \in Conns, PeekByte(c)
  PROVE  \/ Leave(c, "push") /\ ~ StartsWithHashAndCRLF(input[c])
         \/ Leave(c, "trojan") /\ StartsWithHashAndCRLF(input[c])
         \/ /\ pos[c] <= HashLen
            /\ pos' = [pos EXCEPT ![c] = pos[c] + 1]
            /\ wasCR' = [wasCR EXCEPT ![c] = input[c][pos[c] + 1] = "CR"]
            /\ UNCHANGED pc
<1> DEFINE b == input[c][pos[c] + 1]
           starts == StartsWithHashAndCRLF(input[c])
<1>1. /\ pos[c] \in 0 .. (HashLen + 1) /\ HashLen \in Nat /\ HashLen > 0
      /\ Len(input[c]) \in Nat /\ pos[c] < Len(input[c])
      /\ wasCR[c] \in BOOLEAN
      /\ wasCR[c] <=> pos[c] > 0 /\ input[c][pos[c]] = "CR"
  BY DemuxAssumption DEF PeekByte, IInv, TypeOK, PeekInv
<1>2. CASE pos[c] <= HashLen /\ wasCR[c] /\ b = "LF"
  <2>1. ~ starts
    <3>1. starts => input[c][pos[c] + 1] # "LF"
      BY <1>1, <1>2 DEF StartsWithHashAndCRLF
    <3> QED
      BY <3>1, <1>2
  <2>2. Leave(c, "push")
    BY <1>2 DEF PeekByte, InHashOrCR
  <2> QED
    BY <2>1, <2>2
<1>3. CASE pos[c] <= HashLen /\ ~ (wasCR[c] /\ b = "LF")
  <2>1. /\ pos' = [pos EXCEPT ![c] = pos[c] + 1]
        /\ wasCR' = [wasCR EXCEPT ![c] = b = "CR"]
        /\ UNCHANGED pc
    BY <1>1, <1>3 DEF PeekByte, InHashOrCR, LastPos
  <2> QED
    BY <2>1, <1>3
<1>4. CASE pos[c] = HashLen + 1 /\ wasCR[c] /\ b = "LF"
  <2>1. starts <=> HashMatches(c)
    BY <1>1, <1>4 DEF StartsWithHashAndCRLF, HashMatches
  <2>2. Leave(c, IF HashMatches(c) THEN "trojan" ELSE "push")
    BY <1>1, <1>4 DEF PeekByte, InHashOrCR
  <2> QED
    BY <2>1, <2>2
<1>5. CASE pos[c] = HashLen + 1 /\ ~ (wasCR[c] /\ b = "LF")
  <2>1. ~ starts
    <3>1. starts => /\ input[c][HashLen + 1] = "CR"
                    /\ input[c][HashLen + 2] = "LF"
      BY DEF StartsWithHashAndCRLF
    <3>2. HashLen + 2 = pos[c] + 1
      BY <1>1, <1>5
    <3> QED
      BY <3>1, <3>2, <1>1, <1>5
  <2>2. Leave(c, "push")
    BY <1>1, <1>5 DEF PeekByte, InHashOrCR, LastPos
  <2> QED
    BY <2>1, <2>2
<1> QED
  BY <1>1, <1>2, <1>3, <1>4, <1>5

(* What has ended before the CRLF does not start with the hash and it.     *)
LEMMA TooShort ==
  ASSUME IInv, NEW c \in Conns, PeekFails(c)
  PROVE  ~ StartsWithHashAndCRLF(input[c])
BY DemuxAssumption DEF PeekFails, IInv, TypeOK, StartsWithHashAndCRLF

(* A connection may read its own bytes.                                    *)
LEMMA ReadsOwn ==
  ASSUME got \in [Conns -> SUBSET Conns], ServedItsOwnBytes,
         NEW c \in Conns, got' \in {got, [got EXCEPT ![c] = got[c] \cup {c}]}
  PROVE  got' \in [Conns -> SUBSET Conns] /\ ServedItsOwnBytes'
<1>1. CASE got' = got
  BY <1>1 DEF ServedItsOwnBytes
<1>2. CASE got' = [got EXCEPT ![c] = got[c] \cup {c}]
  <2>1. got[c] \cup {c} \in SUBSET Conns /\ got[c] \cup {c} \subseteq {c}
    BY DEF ServedItsOwnBytes
  <2> DEFINE g == got[c] \cup {c}
  <2>2. got' = [got EXCEPT ![c] = g] /\ g \in SUBSET Conns /\ g \subseteq {c}
    BY <1>2, <2>1
  <2> HIDE DEF g
  <2> QED
    BY <2>2 DEF ServedItsOwnBytes
<1> QED
  BY <1>1, <1>2

----------------------------------------------------------------------------
(* The steps.                                                              *)

(* The peer sends a byte, which nothing has looked at yet.                 *)
LEMMA ReceivePreserves ==
  ASSUME IInv, NEW c \in Conns, NEW b \in ByteKinds, Receive(c, b)
  PROVE  IInv'
<1> USE DEF Receive, peekVars, portVars, poolVars, IInv, TypeOK
<1>1. TypeOK'
  BY DemuxAssumption DEF PCs, NoPreload
<1>2. PeekInv'
  BY DEF PeekInv
<1>3. BuffersInv'
  BY DEF BuffersInv
<1>4. ContentInv'
  BY DEF ContentInv, HasReadIntoBuffer, BuffersInv
<1>5. TrojanIffHash'
  BY DEF TrojanIffHash
<1>6. OnlySiteWithoutPassword'
  BY DEF OnlySiteWithoutPassword
<1>7. ServedItsOwnBytes'
  BY DEF ServedItsOwnBytes
<1> QED
  BY <1>1, <1>2, <1>3, <1>4, <1>5, <1>6, <1>7

(* The context of the server ends.                                         *)
LEMMA ShutdownPreserves ==
  ASSUME IInv, Shutdown
  PROVE  IInv'
<1> USE DEF Shutdown, peekVars, portVars, poolVars, IInv, TypeOK
<1>1. TypeOK'
  BY DemuxAssumption DEF PCs, NoPreload
<1>2. PeekInv'
  BY DEF PeekInv
<1>3. BuffersInv'
  BY DEF BuffersInv
<1>4. ContentInv'
  BY DEF ContentInv, HasReadIntoBuffer, BuffersInv
<1>5. TrojanIffHash'
  BY DEF TrojanIffHash
<1>6. OnlySiteWithoutPassword'
  BY DEF OnlySiteWithoutPassword
<1>7. ServedItsOwnBytes'
  BY DEF ServedItsOwnBytes
<1> QED
  BY <1>1, <1>2, <1>3, <1>4, <1>5, <1>6, <1>7

(* http.Server.Serve returns.                                              *)
LEMMA AcceptEndsPreserves ==
  ASSUME IInv, AcceptEnds
  PROVE  IInv'
<1> USE DEF AcceptEnds, peekVars, portVars, poolVars, IInv, TypeOK
<1>1. TypeOK'
  BY DemuxAssumption DEF PCs, NoPreload
<1>2. PeekInv'
  BY DEF PeekInv
<1>3. BuffersInv'
  BY DEF BuffersInv
<1>4. ContentInv'
  BY DEF ContentInv, HasReadIntoBuffer, BuffersInv
<1>5. TrojanIffHash'
  BY DEF TrojanIffHash
<1>6. OnlySiteWithoutPassword'
  BY DEF OnlySiteWithoutPassword
<1>7. ServedItsOwnBytes'
  BY DEF ServedItsOwnBytes
<1> QED
  BY <1>1, <1>2, <1>3, <1>4, <1>5, <1>6, <1>7

(* serve gets a buffer that no other connection holds.                     *)
LEMMA StartServePreserves ==
  ASSUME IInv, NEW c \in Conns, StartServe(c)
  PROVE  IInv'
<1> USE DEF StartServe, Goto, peekVars, portVars, poolVars, IInv, TypeOK
<1>1. TypeOK'
  BY DemuxAssumption DEF PCs, NoPreload
<1>2. PeekInv'
  BY DEF PeekInv
<1>3. BuffersInv'
  <2>1. PICK b \in Buffers : /\ \A d \in Conns : buf[d] # b
                            /\ buf' = [buf EXCEPT ![c] = b]
    OBVIOUS
  <2>2. b # NoBuffer
    BY DemuxAssumption
  <2> QED
    BY <2>1, <2>2 DEF BuffersInv
<1>4. ContentInv'
  BY DEF PeekInv, ContentInv, HasReadIntoBuffer, BuffersInv
<1>5. TrojanIffHash'
  BY DEF TrojanIffHash
<1>6. OnlySiteWithoutPassword'
  BY DEF OnlySiteWithoutPassword
<1>7. ServedItsOwnBytes'
  BY DEF ServedItsOwnBytes
<1> QED
  BY <1>1, <1>2, <1>3, <1>4, <1>5, <1>6, <1>7

(* The loop turns once: it goes on, or is left with the right answer.      *)
LEMMA PeekBytePreserves ==
  ASSUME IInv, NEW c \in Conns, PeekByte(c)
  PROVE  IInv'
<1>1. /\ pc[c] = "peek" /\ pos[c] < Len(input[c])
      /\ content' = [content EXCEPT ![buf[c]] = c]
      /\ UNCHANGED <<input, portVars, buf, preload, got, told>>
  BY DEF PeekByte
<1>2. buf[c] \in Buffers
  BY <1>1 DEF IInv, TypeOK, BuffersInv
<1> USE <1>1, <1>2 DEF IInv, TypeOK, portVars
<1>3. ASSUME NEW next \in {"push", "trojan"}, Leave(c, next),
             next = "trojan" <=> StartsWithHashAndCRLF(input[c])
      PROVE  IInv'
  <2> USE <1>3 DEF Leave, Goto
  <2>1. TypeOK'
    BY DemuxAssumption DEF PCs
  <2>2. PeekInv' /\ BuffersInv'
    BY DEF PeekInv, BuffersInv
  <2>3. ContentInv'
    BY DEF ContentInv, HasReadIntoBuffer, BuffersInv
  <2>4. TrojanIffHash' /\ OnlySiteWithoutPassword' /\ ServedItsOwnBytes'
    BY DEF TrojanIffHash, OnlySiteWithoutPassword, ServedItsOwnBytes
  <2> QED
    BY <2>1, <2>2, <2>3, <2>4
<1>4. CASE /\ pos[c] <= HashLen
           /\ pos' = [pos EXCEPT ![c] = pos[c] + 1]
           /\ wasCR' = [wasCR EXCEPT ![c] = input[c][pos[c] + 1] = "CR"]
           /\ UNCHANGED pc
  <2> USE <1>4
  <2>1. TypeOK'
    BY DemuxAssumption
  <2>2. PeekInv'
    <3>1. pos'[c] = pos[c] + 1 /\ pos[c] \in Nat /\ Len(input[c]) \in Nat
      OBVIOUS
    <3>2. wasCR'[c] <=> input[c][pos'[c]] = "CR"
      BY <3>1
    <3>3. \A d \in Conns \ {c} : pos'[d] = pos[d] /\ wasCR'[d] = wasCR[d]
      OBVIOUS
    <3> QED
      BY <3>1, <3>2, <3>3 DEF PeekInv
  <2>3. ContentInv' /\ BuffersInv'
    BY DEF ContentInv, HasReadIntoBuffer, BuffersInv
  <2>4. TrojanIffHash' /\ OnlySiteWithoutPassword' /\ ServedItsOwnBytes'
    BY DEF TrojanIffHash, OnlySiteWithoutPassword, ServedItsOwnBytes
  <2> QED
    BY <2>1, <2>2, <2>3, <2>4
<1> QED
  BY <1>3, <1>4, PeekByteOutcome

(* The peer has ended its bytes, or the connection has failed.             *)
LEMMA PeekFailsPreserves ==
  ASSUME IInv, NEW c \in Conns, PeekFails(c)
  PROVE  IInv'
<1>1. /\ pc[c] = "peek" /\ pos[c] = Len(input[c])
      /\ UNCHANGED <<input, portVars, content, preload, got, told>>
      /\ \/ Leave(c, "push") /\ UNCHANGED buf
         \/ Leave(c, "closed") /\ PutBuffer(c)
  BY DEF PeekFails
<1>2. PICK next \in {"push", "closed"} :
        /\ Leave(c, next)
        /\ buf' = [buf EXCEPT ![c] = IF next = "push" THEN buf[c]
                                     ELSE NoBuffer]
  BY <1>1 DEF PutBuffer, IInv, TypeOK
<1> USE <1>1, <1>2 DEF IInv, TypeOK, portVars, Leave, Goto
<1>3. TypeOK'
  <2>1. next \in PCs
    BY DEF PCs
  <2>2. buf' \in [Conns -> Buffers \cup {NoBuffer}]
    OBVIOUS
  <2> QED
    BY <2>1, <2>2, DemuxAssumption
<1>4. PeekInv' /\ BuffersInv'
  BY DEF PeekInv, BuffersInv
<1>5. ContentInv'
  <2>1. \A d \in Conns : buf'[d] # NoBuffer => buf'[d] = buf[d]
    OBVIOUS
  <2>2. input[c] # <<>> => pos[c] > 0
    OBVIOUS
  <2>3. \A d \in Conns \ {c} : pc'[d] = pc[d] /\ pos'[d] = pos[d]
    OBVIOUS
  <2>4. next = "push" => buf'[c] = buf[c] /\ buf[c] # NoBuffer
    BY DEF BuffersInv
  <2>5. pc'[c] = next
    OBVIOUS
  <2> QED
    BY <2>1, <2>2, <2>3, <2>4, <2>5
    DEF ContentInv, HasReadIntoBuffer, BuffersInv
<1>6. TrojanIffHash' /\ OnlySiteWithoutPassword' /\ ServedItsOwnBytes'
  BY TooShort
  DEF TrojanIffHash, OnlySiteWithoutPassword, ServedItsOwnBytes
<1> QED
  BY <1>3, <1>4, <1>5, <1>6

(* ServeAuthenticated reads on in the buffer of its own connection.        *)
LEMMA ServeTrojanPreserves ==
  ASSUME IInv, NEW c \in Conns, ServeTrojan(c)
  PROVE  IInv'
<1> USE DEF ServeTrojan, Forward, Goto, Reads, peekVars, portVars, poolVars,
            IInv, TypeOK
<1>0. PICK next \in {"dial", "closed"} :
        /\ pc' = [pc EXCEPT ![c] = next]
        /\ buf' = [buf EXCEPT ![c] = IF next = "closed" THEN NoBuffer
                                     ELSE buf[c]]
        /\ got' = [got EXCEPT ![c] = got[c] \cup {c}]
        /\ buf[c] \in Buffers
  <2>1. buf[c] # NoBuffer /\ content[buf[c]] = c
    BY DEF ContentInv, HasReadIntoBuffer, BuffersInv
  <2>2. got' = [got EXCEPT ![c] = got[c] \cup {c}] /\ buf[c] \in Buffers
    BY <2>1
  <2>3. pc' = [pc EXCEPT ![c] = "dial"] \/ pc' = [pc EXCEPT ![c] = "closed"]
    OBVIOUS
  <2>4. pc'[c] = "dial" \/ pc'[c] = "closed"
    BY <2>3
  <2> QED
    BY <2>2, <2>3, <2>4
<1>1. TypeOK'
  <2>1. next \in PCs
    BY DEF PCs
  <2>2. buf' \in [Conns -> Buffers \cup {NoBuffer}]
    BY <1>0
  <2>3. got' \in [Conns -> SUBSET Conns]
    BY <1>0, ReadsOwn
  <2> QED
    BY <1>0, <2>1, <2>2, <2>3
<1>2. PeekInv'
  BY <1>0 DEF PeekInv
<1>3. BuffersInv'
  BY <1>0 DEF BuffersInv
<1>4. ContentInv'
  BY <1>0 DEF ContentInv, HasReadIntoBuffer, BuffersInv
<1>5. TrojanIffHash'
  BY <1>0 DEF TrojanIffHash
<1>6. OnlySiteWithoutPassword'
  BY <1>0 DEF TrojanIffHash, OnlySiteWithoutPassword
<1>7. ServedItsOwnBytes'
  BY <1>0, ReadsOwn
<1> QED
  BY <1>1, <1>2, <1>3, <1>4, <1>5, <1>6, <1>7

(* The target is dialled.                                                  *)
LEMMA DialledPreserves ==
  ASSUME IInv, NEW c \in Conns, Dialled(c)
  PROVE  IInv'
<1> USE DEF Dialled, Goto, peekVars, portVars, poolVars, IInv, TypeOK
<1>1. TypeOK'
  BY DemuxAssumption DEF PCs, NoPreload
<1>2. PeekInv'
  BY DEF PeekInv
<1>3. BuffersInv'
  BY DEF BuffersInv
<1>4. ContentInv'
  BY DEF ContentInv, HasReadIntoBuffer, BuffersInv
<1>5. TrojanIffHash'
  BY DEF TrojanIffHash
<1>6. OnlySiteWithoutPassword'
  BY DEF OnlySiteWithoutPassword
<1>7. ServedItsOwnBytes'
  BY DEF ServedItsOwnBytes
<1> QED
  BY <1>1, <1>2, <1>3, <1>4, <1>5, <1>6, <1>7

(* Pipe has read the rest of the buffer, which serve still held.           *)
LEMMA ForwardingEndsPreserves ==
  ASSUME IInv, NEW c \in Conns, ForwardingEnds(c)
  PROVE  IInv'
<1> USE DEF ForwardingEnds, Goto, PutBuffer, Reads, peekVars, portVars,
            poolVars, IInv, TypeOK
<1>0. /\ pc' = [pc EXCEPT ![c] = "closed"]
      /\ buf' = [buf EXCEPT ![c] = NoBuffer]
      /\ \/ got' = [got EXCEPT ![c] = got[c] \cup {c}]
         \/ got' = got
  BY DEF ContentInv, HasReadIntoBuffer
<1>1. TypeOK'
  BY <1>0, ReadsOwn DEF PCs
<1>2. PeekInv'
  BY <1>0 DEF PeekInv
<1>3. BuffersInv'
  BY <1>0 DEF BuffersInv
<1>4. ContentInv'
  BY <1>0 DEF ContentInv, HasReadIntoBuffer, BuffersInv
<1>5. TrojanIffHash'
  BY <1>0 DEF TrojanIffHash
<1>6. OnlySiteWithoutPassword'
  BY <1>0 DEF OnlySiteWithoutPassword
<1>7. ServedItsOwnBytes'
  BY <1>0, ReadsOwn
<1> QED
  BY <1>1, <1>2, <1>3, <1>4, <1>5, <1>6, <1>7

(* The HTTP server gets a copy, and the buffer goes back to the pool.      *)
LEMMA HandOverPreserves ==
  ASSUME IInv, NEW c \in Conns, HandOver(c)
  PROVE  IInv'
<1> USE DEF HandOver, Goto, PutBuffer, UnreadBytes, peekVars, portVars,
            poolVars, IInv, TypeOK
<1>0. /\ buf' = [buf EXCEPT ![c] = NoBuffer]
      /\ UnreadBytes(c) \in {NoPreload, [buffer |-> NoBuffer, bytes |-> c]}
      /\ preload' = [preload EXCEPT ![c] = UnreadBytes(c)]
  <2>1. input[c] # <<>> => content[buf[c]] = c
    BY DEF ContentInv, HasReadIntoBuffer
  <2>2. UnreadBytes(c) \in {NoPreload, [buffer |-> NoBuffer, bytes |-> c]}
    BY <2>1
  <2> QED
    BY <2>2
<1> HIDE DEF UnreadBytes
<1>1. TypeOK'
  BY <1>0 DEF PCs, NoPreload
<1>2. PeekInv'
  BY DEF PeekInv
<1>3. BuffersInv'
  BY DEF BuffersInv
<1>4. ContentInv'
  BY <1>0 DEF ContentInv, HasReadIntoBuffer, BuffersInv
<1>5. TrojanIffHash'
  BY DEF TrojanIffHash
<1>6. OnlySiteWithoutPassword'
  BY DEF OnlySiteWithoutPassword
<1>7. ServedItsOwnBytes'
  BY DEF ServedItsOwnBytes
<1> QED
  BY <1>1, <1>2, <1>3, <1>4, <1>5, <1>6, <1>7

(* The listener is closed: Push gives up.                                  *)
LEMMA PushGivesUpPreserves ==
  ASSUME IInv, NEW c \in Conns, PushGivesUp(c)
  PROVE  IInv'
<1> USE DEF PushGivesUp, Goto, PutBuffer, peekVars, portVars, poolVars, IInv,
            TypeOK
<1>1. TypeOK'
  BY DemuxAssumption DEF PCs, NoPreload
<1>2. PeekInv'
  BY DEF PeekInv
<1>3. BuffersInv'
  BY DEF BuffersInv
<1>4. ContentInv'
  BY DEF ContentInv, HasReadIntoBuffer, BuffersInv
<1>5. TrojanIffHash'
  BY DEF TrojanIffHash
<1>6. OnlySiteWithoutPassword'
  BY DEF OnlySiteWithoutPassword
<1>7. ServedItsOwnBytes'
  BY DEF ServedItsOwnBytes
<1> QED
  BY <1>1, <1>2, <1>3, <1>4, <1>5, <1>6, <1>7

(* The HTTP server reads the copy of the peeked bytes.                     *)
LEMMA ReadPreloadedPreserves ==
  ASSUME IInv, NEW c \in Conns, ReadPreloaded(c)
  PROVE  IInv'
<1> USE DEF ReadPreloaded, Reads, peekVars, portVars, poolVars, IInv, TypeOK
<1>0. /\ preload' = [preload EXCEPT ![c] = NoPreload]
      /\ got' = [got EXCEPT ![c] = got[c] \cup {c}]
  <2>1. preload[c] = [buffer |-> NoBuffer, bytes |-> c]
    BY DEF ContentInv, HasReadIntoBuffer
  <2> QED
    BY <2>1
<1>1. TypeOK'
  BY <1>0, ReadsOwn DEF NoPreload
<1>2. PeekInv'
  BY DEF PeekInv
<1>3. BuffersInv'
  BY DEF BuffersInv
<1>4. ContentInv'
  BY DEF ContentInv, HasReadIntoBuffer, BuffersInv
<1>5. TrojanIffHash'
  BY DEF TrojanIffHash
<1>6. OnlySiteWithoutPassword'
  BY DEF OnlySiteWithoutPassword
<1>7. ServedItsOwnBytes'
  BY <1>0, ReadsOwn
<1> QED
  BY <1>1, <1>2, <1>3, <1>4, <1>5, <1>6, <1>7

(* A request is answered, or forwarded with the right credentials only.    *)
LEMMA HandlePreserves ==
  ASSUME IInv, NEW c \in Conns, NEW r \in Requests,
         Handle(c, r)
  PROVE  IInv'
<1> USE DEF Handle, IsForSite, BasicAuthEqual, Forward, Goto, peekVars,
            portVars, poolVars, IInv, TypeOK
<1>1. TypeOK'
  BY DemuxAssumption DEF PCs, NoPreload
<1>2. PeekInv'
  BY DEF PeekInv
<1>3. BuffersInv'
  BY DEF BuffersInv
<1>4. ContentInv'
  <2>1. buf[c] = NoBuffer
    BY DEF BuffersInv
  <2>2. pc'[c] \in {"naive", "dial", "closed"}
    OBVIOUS
  <2>3. \A d \in Conns \ {c} : pc'[d] = pc[d]
    OBVIOUS
  <2>4. UNCHANGED <<pos, input, buf, content, preload>>
    OBVIOUS
  <2>5. \A d \in Conns : HasReadIntoBuffer(d)' => HasReadIntoBuffer(d)
    BY ONLY <2>1, <2>2, <2>3, <2>4 DEF HasReadIntoBuffer
  <2> QED
    BY <2>4, <2>5 DEF ContentInv
<1>5. TrojanIffHash'
  BY DEF TrojanIffHash
<1>6. OnlySiteWithoutPassword'
  BY DEF OnlySiteWithoutPassword
<1>7. ServedItsOwnBytes'
  BY DEF ServedItsOwnBytes
<1> QED
  BY <1>1, <1>2, <1>3, <1>4, <1>5, <1>6, <1>7

----------------------------------------------------------------------------
(* The theorems.                                                           *)

(* Nothing was accepted yet.                                               *)
LEMMA InitIInv == Init => IInv
<1> SUFFICES ASSUME Init PROVE IInv
  OBVIOUS
<1> USE DEF Init
<1>1. TypeOK
  <2>1. /\ input \in [Conns -> Seq(ByteKinds)]
        /\ told \in [Conns -> SUBSET {"wrong", "right"}]
    OBVIOUS
  <2>2. pos \in [Conns -> 0 .. (HashLen + 1)]
    BY DemuxAssumption
  <2>3. preload \in [Conns -> [buffer: Buffers \cup {NoBuffer},
                               bytes: Conns \cup {NoConn}]]
    BY DEF NoPreload
  <2> QED
    BY <2>1, <2>2, <2>3 DEF TypeOK, PCs
<1>2. PeekInv /\ BuffersInv /\ ContentInv
  BY DEF PeekInv, BuffersInv, ContentInv, HasReadIntoBuffer
<1>3. TrojanIffHash /\ OnlySiteWithoutPassword /\ ServedItsOwnBytes
  BY DEF TrojanIffHash, OnlySiteWithoutPassword, ServedItsOwnBytes
<1> QED
  BY <1>1, <1>2, <1>3 DEF IInv

(* The inductive invariant: what the loop has seen, and who holds which    *)
(* buffer.                                                                 *)
LEMMA IInvInvariant == Spec => []IInv
<1>1. IInv /\ [Next]_vars => IInv'
  <2> SUFFICES ASSUME IInv, [Next]_vars PROVE IInv'
    OBVIOUS
  <2>1. CASE UNCHANGED vars
    BY <2>1 DEF vars, peekVars, portVars, poolVars, IInv, TypeOK, PeekInv,
                BuffersInv, ContentInv, HasReadIntoBuffer, TrojanIffHash,
                OnlySiteWithoutPassword, ServedItsOwnBytes
  <2>2. ASSUME NEW c \in Conns, Serve(c)
        PROVE  IInv'
    BY <2>2, StartServePreserves, PeekBytePreserves, ServeTrojanPreserves,
       DialledPreserves, HandOverPreserves, PushGivesUpPreserves,
       ReadPreloadedPreserves
    DEF Serve
  <2>3. ASSUME NEW c \in Conns,
               \/ \E b \in ByteKinds : Receive(c, b)
               \/ PeekFails(c)
               \/ \E r \in Requests : Handle(c, r)
               \/ ForwardingEnds(c)
        PROVE  IInv'
    BY <2>3, ReceivePreserves, PeekFailsPreserves, HandlePreserves,
       ForwardingEndsPreserves
  <2>4. CASE Shutdown \/ AcceptEnds
    BY <2>4, ShutdownPreserves, AcceptEndsPreserves
  <2> QED
    BY <2>1, <2>2, <2>3, <2>4 DEF Next
<1> QED
  BY <1>1, InitIInv, PTL DEF Spec

(* The shared port keeps its connections and buffers in the states that    *)
(* serve of tr_np_carrier knows.                                           *)
THEOREM TypeCorrect == Spec => []TypeOK
<1>1. IInv => TypeOK
  BY DEF IInv
<1> QED
  BY <1>1, IInvInvariant, PTL

(* HasPasswordHash recognises the hash and CRLF, for any length of it and  *)
(* whatever the bytes are and however they arrive.                         *)
THEOREM HashIsRecognised == Spec => []TrojanIffHash
<1>1. IInv => TrojanIffHash
  BY DEF IInv
<1> QED
  BY <1>1, IInvInvariant, PTL

(* Neither ServeAuthenticated nor handle of the NaiveProxy server dials a  *)
(* target without the password, or answers otherwise than as a web site.   *)
THEOREM NothingWithoutPassword == Spec => []OnlySiteWithoutPassword
<1>1. IInv => OnlySiteWithoutPassword
  BY DEF IInv
<1> QED
  BY <1>1, IInvInvariant, PTL

(* The buffers of the pool never carry bytes from one connection to        *)
(* another, although they are reused while the HTTP server still reads.    *)
THEOREM BytesStayWithTheirConnection == Spec => []ServedItsOwnBytes
<1>1. IInv => ServedItsOwnBytes
  BY DEF IInv
<1> QED
  BY <1>1, IInvInvariant, PTL

=============================================================================
