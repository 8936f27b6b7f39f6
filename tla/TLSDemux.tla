------------------------------ MODULE TLSDemux ------------------------------
(***************************************************************************)
(* The TLS port that the Trojan and the NaiveProxy carrier share           *)
(* (transport/tr_np_carrier/server.go): HasPasswordHash of the Trojan      *)
(* server peeks at the first bytes of a connection; a Trojan connection is *)
(* served at once, any other is pushed to the NaiveProxy HTTP server       *)
(* through a ConnListener (util/netutil/listener.go), which may be closed  *)
(* meanwhile.                                                              *)
(*                                                                         *)
(* Peeking reads into a buffer from a pool that goes back when serve       *)
(* returns, while the HTTP server still has to read what was peeked.       *)
(*                                                                         *)
(* A byte is the byte of the password hash that belongs at its position    *)
(* ("hash"), another byte ("other"), CR or LF.  In a buffer only whose     *)
(* bytes it holds matters.                                                 *)
(***************************************************************************)
EXTENDS Integers, Sequences, FiniteSetsExt

CONSTANTS
  Conns,      \* accepted TLS connections
  Buffers,    \* buffers of the pool
  NoConn, NoBuffer,
  HashLen,    \* 56 in the code
  MaxBytes    \* bound: bytes the peers send, all together

ASSUME DemuxAssumption ==
  /\ HashLen \in Nat \ {0} /\ MaxBytes \in Nat
  /\ NoConn \notin Conns /\ NoBuffer \notin Buffers

ByteKinds == {"hash", "other", "CR", "LF"}

(* What an HTTP request says; Proxy-Authorization is absent or of another  *)
(* scheme, or Basic in any case with the token or another one.             *)
Requests ==
  [http2: BOOLEAN, connect: BOOLEAN, addrOk: BOOLEAN,
   auth: {"not basic", "basic token", "BASIC token", "basic wrong"}]

VARIABLES
  input,      \* per connection: the bytes received so far
  pc,         \* per connection: where its serve goroutine stands
  pos,        \* the loop variable i of HasPasswordHash, from 0
  wasCR,
  ctxDone,    \* the context of the server, and of the ConnListener
  accepting,  \* http.Server.Serve is in its Accept loop
  buf,        \* per connection: the buffer its serve goroutine holds
  content,    \* per buffer: the connection whose bytes were read into it
  preload,    \* per connection: what is read before the TLS connection, a
              \* buffer or a copy of bytes of a connection
  got,        \* per connection: whose bytes its servers have read as its own
  told        \* per connection: whether the credentials were right when it was
              \* answered anything else than the web site

peekVars == <<input, pos, wasCR>>
poolVars == <<buf, content, preload, got>>
portVars == <<ctxDone, accepting>>
vars == <<peekVars, pc, portVars, poolVars, told>>

(* peek: in HasPasswordHash.  trojan: in ServeAuthenticated.  push: in     *)
(* ConnListener.Push.  naive: taken over by the HTTP server.  dial and     *)
(* forwarding: in ForwardTCP.                                              *)
PCs == {"start", "peek", "trojan", "dial", "forwarding", "push", "naive",
        "closed"}

NoPreload == [buffer |-> NoBuffer, bytes |-> NoConn]

TypeOK ==
  /\ input \in [Conns -> Seq(ByteKinds)]
  /\ pc \in [Conns -> PCs]
  /\ pos \in [Conns -> 0 .. (HashLen + 1)]
  /\ wasCR \in [Conns -> BOOLEAN]
  /\ ctxDone \in BOOLEAN /\ accepting \in BOOLEAN
  /\ buf \in [Conns -> Buffers \cup {NoBuffer}]
  /\ content \in [Buffers -> Conns \cup {NoConn}]
  /\ preload \in [Conns -> [buffer: Buffers \cup {NoBuffer},
                            bytes: Conns \cup {NoConn}]]
  /\ got \in [Conns -> SUBSET Conns]
  /\ told \in [Conns -> SUBSET {"wrong", "right"}]

Init ==
  /\ input = [c \in Conns |-> <<>>]
  /\ pc = [c \in Conns |-> "start"]
  /\ pos = [c \in Conns |-> 0]
  /\ wasCR = [c \in Conns |-> FALSE]
  /\ ctxDone = FALSE /\ accepting = TRUE
  /\ buf = [c \in Conns |-> NoBuffer]
  /\ content = [b \in Buffers |-> NoConn]
  /\ preload = [c \in Conns |-> NoPreload]
  /\ got = [c \in Conns |-> {}]
  /\ told = [c \in Conns |-> {}]

----------------------------------------------------------------------------
(* The peers and the shutdown (external).                                  *)

BytesSent == FoldSet(LAMBDA c, n : n + Len(input[c]), 0, Conns)

Receive(c, b) ==
  /\ BytesSent < MaxBytes /\ pc[c] = "peek"
  /\ input' = [input EXCEPT ![c] = Append(@, b)]
  /\ UNCHANGED <<pos, wasCR, pc, portVars, poolVars, told>>

Shutdown ==
  /\ ~ ctxDone
  /\ ctxDone' = TRUE
  /\ UNCHANGED <<peekVars, pc, accepting, poolVars, told>>

----------------------------------------------------------------------------
(* HasPasswordHash.                                                        *)

Goto(c, next) == pc' = [pc EXCEPT ![c] = next]

(* pool.Get and NewBufioReader.                                            *)
StartServe(c) ==
  /\ pc[c] = "start"
  /\ \E b \in Buffers : /\ \A d \in Conns : buf[d] # b
                        /\ buf' = [buf EXCEPT ![c] = b]
  /\ Goto(c, "peek")
  /\ UNCHANGED <<peekVars, portVars, content, preload, got, told>>

(* serve returns: the deferred pool.Put.                                   *)
PutBuffer(c) == buf' = [buf EXCEPT ![c] = NoBuffer]

(* A server reads bytes of connection d as those of c.                     *)
Reads(c, d) == got' = [got EXCEPT ![c] = @ \cup {d}]

HashMatches(c) == \A i \in 1 .. HashLen : input[c][i] = "hash"

(* HasPasswordHash returns; its variables are gone.                        *)
Leave(c, next) ==
  /\ Goto(c, next)
  /\ pos' = [pos EXCEPT ![c] = 0] /\ wasCR' = [wasCR EXCEPT ![c] = FALSE]

(* Mutated form: the byte behind the hash is not looked at for CR.         *)
InsideHash(c) == pos[c] < HashLen

(* i <= hashLen: the bytes of the hash and the first one behind it.        *)
InHashOrCR(c) == pos[c] <= HashLen

LastPos == HashLen + 1

(* One turn of the loop: false at a CRLF too early, the comparison at the  *)
(* CRLF behind the hash, false when there is none.                         *)
PeekByte(c) ==
  /\ pc[c] = "peek" /\ pos[c] < Len(input[c])
  /\ LET b == input[c][pos[c] + 1]
         cr == IF InHashOrCR(c) THEN b = "CR" ELSE wasCR[c]
     IN  IF InHashOrCR(c) /\ wasCR[c] /\ b = "LF" THEN Leave(c, "push")
         ELSE IF cr /\ b = "LF"
           THEN Leave(c, IF HashMatches(c) THEN "trojan" ELSE "push")
         ELSE IF pos[c] = LastPos THEN Leave(c, "push")
         ELSE /\ pos' = [pos EXCEPT ![c] = @ + 1]
              /\ wasCR' = [wasCR EXCEPT ![c] = cr]
              /\ UNCHANGED pc
  /\ content' = [content EXCEPT ![buf[c]] = c]
  /\ UNCHANGED <<input, portVars, buf, preload, got, told>>

(* Peek meets the end of what the peer sends: EOF counts as another        *)
(* protocol, an error closes.                                              *)
PeekFails(c) ==
  /\ pc[c] = "peek" /\ pos[c] = Len(input[c])
  /\ \/ Leave(c, "push") /\ UNCHANGED buf
     \/ Leave(c, "closed") /\ PutBuffer(c)
  /\ UNCHANGED <<input, portVars, content, preload, got, told>>

----------------------------------------------------------------------------
(* Serving the connection.                                                 *)

(* ForwardTCP of the request: not after the shutdown.                      *)
Forward(c) == Goto(c, IF ctxDone THEN "closed" ELSE "dial")

(* ServeAuthenticated: the request read behind the hash is a well-formed   *)
(* CONNECT, or the connection is closed.  The unread bytes of the buffer   *)
(* are forwarded first; serve keeps the buffer until the forwarding ends.  *)
ServeTrojan(c) ==
  /\ pc[c] = "trojan"
  /\ \/ Forward(c) \/ Goto(c, "closed")
  /\ Reads(c, content[buf[c]])
  /\ buf' = [buf EXCEPT ![c] = IF pc'[c] = "closed" THEN NoBuffer ELSE @]
  /\ UNCHANGED <<peekVars, portVars, content, preload, told>>

(* DialTCP and Pipe.                                                       *)
Dialled(c) ==
  /\ pc[c] = "dial"
  /\ Goto(c, "forwarding")
  /\ UNCHANGED <<peekVars, portVars, poolVars, told>>

(* Pipe has read what was left to read of a buffer.                        *)
ForwardingEnds(c) ==
  /\ pc[c] \in {"dial", "forwarding"}
  /\ Goto(c, "closed")
  /\ PutBuffer(c)
  /\ IF buf[c] # NoBuffer /\ pc[c] = "forwarding"
       THEN Reads(c, content[buf[c]]) ELSE UNCHANGED got
  /\ UNCHANGED <<peekVars, portVars, content, preload, told>>

(* Mutated form: the unread bytes are not cloned.                          *)
UnreadBytesAliased(c) ==
  IF input[c] = <<>> THEN NoPreload
  ELSE [buffer |-> buf[c], bytes |-> NoConn]

(* A copy of the bytes that were read into the buffer, if any.             *)
UnreadBytes(c) ==
  IF input[c] = <<>> THEN NoPreload
  ELSE [buffer |-> NoBuffer, bytes |-> content[buf[c]]]

(* ConnListener: the channel has no buffer, so that a connection is handed *)
(* over when Push and Accept meet.                                         *)
HandOver(c) ==
  /\ pc[c] = "push" /\ accepting
  /\ Goto(c, "naive")
  /\ preload' = [preload EXCEPT ![c] = UnreadBytes(c)]
  /\ PutBuffer(c)
  /\ UNCHANGED <<peekVars, portVars, content, got, told>>

(* Mutated form: Push waits for Accept only.                               *)
PushNeverGivesUp(c) == FALSE /\ UNCHANGED vars

PushGivesUp(c) ==
  /\ pc[c] = "push" /\ ctxDone
  /\ Goto(c, "closed")
  /\ PutBuffer(c)
  /\ UNCHANGED <<peekVars, portVars, content, preload, got, told>>

AcceptEnds ==
  /\ accepting /\ ctxDone
  /\ accepting' = FALSE
  /\ UNCHANGED <<peekVars, pc, ctxDone, poolVars, told>>

(* net/http (external) reads what was peeked before the TLS connection.    *)
ReadPreloaded(c) ==
  /\ pc[c] = "naive" /\ preload[c] # NoPreload
  /\ LET p == preload[c]
     IN  Reads(c, IF p.buffer = NoBuffer THEN p.bytes ELSE content[p.buffer])
  /\ preload' = [preload EXCEPT ![c] = NoPreload]
  /\ UNCHANGED <<peekVars, portVars, pc, buf, content, told>>

(* basicAuthEqual.                                                         *)
BasicAuthEqual(header) == header \in {"basic token", "BASIC token"}

(* Mutated form: a request that only lacks the credentials passes.         *)
IsForSiteUnlessConnect(r) == ~ r.http2 \/ ~ r.connect

IsForSite(r) == ~ r.http2 \/ ~ r.connect \/ ~ BasicAuthEqual(r.auth)

(* handle of the NaiveProxy server: the site, 400 for a bad address, or OK *)
(* (NaiveClient has its padding) before the target is dialled, and then    *)
(* ForwardTCP unless the flush fails.  From then on c stands for this      *)
(* request's stream; the other streams of its connection are not followed. *)
Handle(c, r) ==
  /\ pc[c] = "naive" /\ preload[c] = NoPreload
  /\ told' = [told EXCEPT ![c] =
       IF IsForSite(r) THEN @
       ELSE @ \cup {IF r.auth \in {"basic token", "BASIC token"} THEN "right"
                                                               ELSE "wrong"}]
  /\ \/ (IsForSite(r) \/ ~ r.addrOk) /\ UNCHANGED pc
     \/ ~ IsForSite(r) /\ r.addrOk /\ (Forward(c) \/ Goto(c, "closed"))
  /\ UNCHANGED <<peekVars, portVars, poolVars>>

----------------------------------------------------------------------------

Serve(c) ==
  \/ StartServe(c) \/ PeekByte(c)
  \/ ServeTrojan(c) \/ Dialled(c)
  \/ HandOver(c) \/ PushGivesUp(c) \/ ReadPreloaded(c)

Next ==
  \/ \E c \in Conns :
       \/ \E b \in ByteKinds : Receive(c, b)
       \/ PeekFails(c)
       \/ Serve(c)
       \/ \E r \in Requests : Handle(c, r)
       \/ ForwardingEnds(c)
  \/ Shutdown
  \/ AcceptEnds

(* Goroutines run when they can.  A peer need not send anything.           *)
Spec ==
  /\ Init /\ [][Next]_vars
  /\ \A c \in Conns : WF_vars(Serve(c))
  /\ WF_vars(AcceptEnds)

----------------------------------------------------------------------------
(* Properties.                                                             *)

StartsWithHashAndCRLF(bytes) ==
  /\ Len(bytes) >= HashLen + 2
  /\ \A i \in 1 .. HashLen : bytes[i] = "hash"
  /\ bytes[HashLen + 1] = "CR" /\ bytes[HashLen + 2] = "LF"

(* The loop over single bytes decides by the whole header: a connection is *)
(* Trojan exactly if it starts with the hash and CRLF, however its bytes   *)
(* arrive and wherever else CR and LF occur.                               *)
TrojanIffHash ==
  \A c \in Conns :
    /\ pc[c] = "trojan" => StartsWithHashAndCRLF(input[c])
    /\ pc[c] \in {"push", "naive"} => ~ StartsWithHashAndCRLF(input[c])

(* Whoever has neither sent the hash nor a CONNECT with the token sees a   *)
(* web site and nothing else: no target is dialled for it and no other     *)
(* answer tells it that there is a proxy, whichever of the two servers the *)
(* first bytes have led it to.                                             *)
OnlySiteWithoutPassword ==
  \A c \in Conns :
    /\ "wrong" \notin told[c]
    /\ pc[c] \in {"dial", "forwarding"} =>
         StartsWithHashAndCRLF(input[c]) \/ "right" \in told[c]

(* No server reads the bytes of another connection as those of its own,    *)
(* though the buffer they were peeked into is reused meanwhile ("so it     *)
(* gets a copy of the peeked bytes").                                      *)
ServedItsOwnBytes == \A c \in Conns : got[c] \subseteq {c}

(* A connection that is not Trojan gets to the HTTP server or is closed,   *)
(* even if the listener closes at that moment: none is stuck in Push.      *)
PushedIsServedOrClosed ==
  \A c \in Conns : (pc[c] = "push") ~> (pc[c] \in {"naive", "closed"})

============================================================================
