--------------------------- MODULE InboundProofs ---------------------------
(***************************************************************************)
(* Proofs, for any number of bytes, any room in flight and any hosts and   *)
(* credentials, that a client is forwarded only as it has negotiated, and  *)
(* that neither side of a forwarded connection reads an end before all     *)
(* bytes of the other.                                                     *)
(***************************************************************************)
EXTENDS Inbound, SequenceTheorems, TLAPS

(* Where the negotiation and the forwarding are, seen from each other.     *)
StageInv ==
  /\ phase = "negotiate" => stage # "forward"
  /\ stage # "forward" => /\ phase \in {"negotiate", "closed"}
                          /\ preload = <<>>
                          /\ \A p \in Sides : copier[p] = "idle"
  /\ stage \notin {"address", "auth", "reply"} => buffered = <<>>
  /\ phase \in {"negotiate", "dial"} =>
       \A p \in Sides : ~ eof[p] /\ ~ sawEnd[p] /\ copier[p] = "idle"

(* The protocol decides which stages follow, and who reads the source.     *)
ProtocolInv ==
  /\ protocol = "unknown" <=> stage = "firstByte"
  /\ stage \in {"hello", "authRequest", "connectionRequest"} =>
       protocol = "socks"
  /\ stage \in {"request", "address", "auth"} =>
       protocol \in {"connect", "plain"}
  /\ stage = "reply" => protocol # "carrier"
  /\ phase = "negotiate" /\ protocol # "socks" => replied = None
  /\ loop # "idle" => protocol = "plain"
  /\ ~ Tunnel => sending["src"] \in {"open", "closed"} /\ ~ sawEnd["src"]

(* What has been established when the stage is reached.                    *)
Entitled == IsEmpty(authInfo) \/ presented = authInfo

TargetAsRequested ==
  /\ protocol # "plain" => request.port = "good"
  /\ target.port = IF request.port = "none" THEN "default" ELSE "named"
  /\ CASE request.name = "v6" -> target.type = "IPv6"
       [] request.name = "v4" /\ ~ request.bracket -> target.type = "IPv4"
       [] request.name \in {"domain", "junk"} -> target.type = "Domain"
       [] OTHER -> TRUE

NegotiatedInv ==
  /\ stage \in {"connectionRequest", "reply"} => Entitled
  /\ stage = "address" => request \in Hosts
  /\ stage \in {"auth", "reply"} => TargetAsRequested

(* The sequence s continues a stream of bytes after its first k.           *)
Continues(s, k) == \A i \in 1 .. Len(s) : s[i] = k + i

(* The way of the bytes of q: read by the other side, on the way to it,    *)
(* held by the server since it read them before forwarding, or not yet     *)
(* read.  What is on the way to a side that is gone is lost.               *)
Passed(q) == Len(got[Other(q)]) + Len(outbound[Other(q)])

Held(q) == IF q = "src" THEN Len(preload) + Len(buffered) ELSE 0

FlowInv(q) ==
  /\ Continues(got[Other(q)], 0)
  /\ Continues(outbound[Other(q)], Len(got[Other(q)]))
  /\ Passed(q) + Held(q) + Len(inbound[q]) <= sent[q]
  /\ ~ Deaf(Other(q)) =>
       /\ q = "src" => /\ Continues(preload, Passed(q))
                       /\ Continues(buffered, Passed(q) + Len(preload))
       /\ Continues(inbound[q], Passed(q) + Held(q))
       /\ sending[q] # "reset" =>
            Passed(q) + Held(q) + Len(inbound[q]) = sent[q]

(* A copier is done only at the end of the side it reads, unless the side  *)
(* it writes to is gone, and only then does that side see an end.          *)
Drained(q) == Ended(q) /\ Held(q) = 0 /\ inbound[q] = <<>>

EndInv(q) ==
  /\ eof[Other(q)] => copier[q] \in {"idle", "done"}
  /\ copier[q] = "done" /\ NoReset => Drained(q) \/ Deaf(Other(q))
  /\ sawEnd[Other(q)] /\ NoReset /\ copier[q] # "idle" =>
       /\ copier[q] = "done" /\ Drained(q)
       /\ outbound[Other(q)] = <<>> /\ ~ Deaf(Other(q))

IInv ==
  /\ InboundTypeOK
  /\ StageInv
  /\ ProtocolInv
  /\ NegotiatedInv
  /\ \A q \in Sides : FlowInv(q)
  /\ \A q \in Sides : EndInv(q)

----------------------------------------------------------------------------
(* Pieces of a stream.                                                     *)

(* Nothing is a piece of any stream.                                       *)
LEMMA EmptyContinues == \A k : Continues(<<>>, k)
BY DEF Continues

(* A side that sends one more byte continues its stream (PeerSend).        *)
LEMMA AppendContinues ==
  ASSUME NEW S, NEW s \in Seq(S), NEW k \in Nat, k + Len(s) + 1 \in S,
         Continues(s, k)
  PROVE  /\ Append(s, k + Len(s) + 1) \in Seq(S)
         /\ Len(Append(s, k + Len(s) + 1)) = Len(s) + 1
         /\ Continues(Append(s, k + Len(s) + 1), k)
<1> DEFINE t == Append(s, k + Len(s) + 1)
<1>1. /\ t \in Seq(S) /\ Len(t) = Len(s) + 1
      /\ \A i \in 1 .. Len(s) : t[i] = s[i]
      /\ t[Len(s) + 1] = k + Len(s) + 1
  BY AppendProperties
<1>2. Len(s) \in Nat
  BY LenProperties
<1> HIDE DEF t
<1>3. \A i \in 1 .. Len(t) : i \in 1 .. Len(s) \/ i = Len(s) + 1
  BY <1>1, <1>2
<1>4. Continues(t, k)
  BY <1>1, <1>2, <1>3 DEF Continues
<1> QED
  BY <1>1, <1>4 DEF t

(* Two consecutive pieces are one (the write of a copier).                 *)
LEMMA ConcatContinues ==
  ASSUME NEW S, NEW s \in Seq(S), NEW t \in Seq(S), NEW k \in Nat,
         Continues(s, k), Continues(t, k + Len(s))
  PROVE  /\ s \o t \in Seq(S)
         /\ Len(s \o t) = Len(s) + Len(t)
         /\ Continues(s \o t, k)
<1> DEFINE u == s \o t
<1>1. /\ u \in Seq(S) /\ Len(u) = Len(s) + Len(t)
      /\ \A i \in 1 .. Len(s) + Len(t) :
           u[i] = IF i <= Len(s) THEN s[i] ELSE t[i - Len(s)]
  BY ConcatProperties
<1>2. Continues(u, k)
  <2> SUFFICES ASSUME NEW i \in 1 .. Len(u) PROVE u[i] = k + i
    BY DEF Continues
  <2> HIDE DEF u
  <2> QED
    BY <1>1, LenProperties DEF Continues
<1> QED
  BY <1>1, <1>2

(* What is read from the front of a piece, and what stays (Copy, Read).    *)
LEMMA SplitContinues ==
  ASSUME NEW S, NEW s \in Seq(S), NEW n \in 0 .. Len(s), NEW k \in Nat
  PROVE  /\ SubSeq(s, 1, n) \in Seq(S) /\ Len(SubSeq(s, 1, n)) = n
         /\ SubSeq(s, n + 1, Len(s)) \in Seq(S)
         /\ Len(SubSeq(s, n + 1, Len(s))) = Len(s) - n
         /\ Continues(s, k) => /\ Continues(SubSeq(s, 1, n), k)
                               /\ Continues(SubSeq(s, n + 1, Len(s)), k + n)
<1> DEFINE front == SubSeq(s, 1, n)
           rest == SubSeq(s, n + 1, Len(s))
<1>1. Len(s) \in Nat
  BY LenProperties
<1>2. /\ front \in Seq(S) /\ Len(front) = n
      /\ \A i \in 1 .. n : front[i] = s[i]
  <2>1. \A i \in 1 .. n : s[i] \in S
    BY <1>1, ElementOfSeq
  <2> QED
    BY <1>1, <2>1, SubSeqProperties
<1>3. /\ rest \in Seq(S) /\ Len(rest) = Len(s) - n
      /\ \A i \in 1 .. Len(s) - n : rest[i] = s[n + i]
  <2>1. \A i \in n + 1 .. Len(s) : s[i] \in S
    BY <1>1, ElementOfSeq
  <2> QED
    BY <1>1, <2>1, SubSeqProperties
<1> HIDE DEF front, rest
<1>4. ASSUME Continues(s, k)
      PROVE  Continues(front, k) /\ Continues(rest, k + n)
  <2>1. \A i \in 1 .. n : i \in 1 .. Len(s)
    BY <1>1
  <2>2. \A i \in 1 .. Len(s) - n : n + i \in 1 .. Len(s)
    BY <1>1
  <2>3. Continues(front, k)
    BY <1>1, <1>2, <1>4, <2>1 DEF Continues
  <2>4. \A i \in 1 .. Len(s) - n : rest[i] = k + n + i
    <3> SUFFICES ASSUME NEW i \in 1 .. Len(s) - n
                 PROVE  rest[i] = k + n + i
      OBVIOUS
    <3>1. rest[i] = s[n + i] /\ s[n + i] = k + (n + i)
      BY <1>3, <1>4, <2>2 DEF Continues
    <3> QED
      BY <1>1, <3>1
  <2> QED
    BY <1>3, <2>3, <2>4 DEF Continues
<1> QED
  BY <1>2, <1>3, <1>4 DEF front, rest

(* A side reads the first byte that is on the way to it (PeerRead).        *)
LEMMA TailContinues ==
  ASSUME NEW S, NEW s \in Seq(S), s # <<>>, NEW k \in Nat
  PROVE  /\ Head(s) \in S /\ Tail(s) \in Seq(S)
         /\ Len(s) >= 1 /\ Len(Tail(s)) = Len(s) - 1
         /\ Continues(s, k) => Head(s) = k + 1 /\ Continues(Tail(s), k + 1)
<1>1. /\ Head(s) \in S /\ Tail(s) \in Seq(S) /\ Len(Tail(s)) = Len(s) - 1
      /\ \A i \in 1 .. Len(Tail(s)) : Tail(s)[i] = s[i + 1]
  BY HeadTailProperties
<1>2. Head(s) = s[1] /\ Len(s) \in Nat /\ Len(s) >= 1
  BY LenProperties, EmptySeq
<1> QED
  BY <1>1, <1>2 DEF Continues

(* The first n bytes of a stream.                                          *)
LEMMA FirstBytes ==
  ASSUME NEW n \in Nat, NEW m \in Nat, n <= m
  PROVE  /\ Bytes(1, n) \in Seq(1 .. m) /\ Len(Bytes(1, n)) = n
         /\ Continues(Bytes(1, n), 0)
<1>1. Bytes(1, n) = [i \in 1 .. n |-> i]
  BY DEF Bytes
<1>2. \A i \in 1 .. n : i \in 1 .. m
  OBVIOUS
<1>3. Bytes(1, n) \in Seq(1 .. m)
  BY <1>1, <1>2, IsASeq
<1>4. Len(Bytes(1, n)) = n
  BY <1>1, <1>3, LenProperties
<1> QED
  BY <1>1, <1>3, <1>4 DEF Continues

(* A piece that continues nothing is the first bytes of the stream.        *)
LEMMA ContinuesNothing ==
  ASSUME NEW S, NEW s \in Seq(S), Continues(s, 0)
  PROVE  s = Bytes(1, Len(s))
<1>1. Len(s) \in Nat /\ s = [i \in 1 .. Len(s) |-> s[i]]
  BY LenProperties
<1> QED
  BY <1>1 DEF Continues, Bytes

----------------------------------------------------------------------------
(* The steps, as far as the connection and its bytes are concerned.        *)

ReadAhead(n) ==
  /\ phase = "negotiate" /\ stage = "request"
  /\ n \in 0 .. Len(inbound["src"])
  /\ buffered' = SubSeq(inbound["src"], 1, n)
  /\ inbound' = [inbound EXCEPT !["src"] =
                   SubSeq(inbound["src"], n + 1, Len(inbound["src"]))]
  /\ UNCHANGED <<setup, phase, cancelled, headerSent, peerVars, preload,
                 outbound, eof, copier>>

LoopPeerStep ==
  /\ loop # "idle"
  /\ PeerSend("src") \/ PeerRead("src")

LoopCloses ==
  /\ loop # "idle"
  /\ \/ EndLoopHaving(<<>>)
     \/ outbound["src"] # <<>> /\ EndLoopHaving(<<Head(outbound["src"])>>)

(* Every step of the negotiation leaves the connection alone, or closes    *)
(* it, or reads a request, or calls ForwardTCP.                            *)
LEMMA NegotiateSteps ==
  ASSUME Negotiate, InboundTypeOK
  PROVE  \/ UNCHANGED <<vars, buffered>>
         \/ phase = "negotiate" /\ CloseClient /\ buffered' = buffered
         \/ \E n \in Nat : ReadAhead(n)
         \/ CallForwardTCP /\ UNCHANGED <<setup, loop>>
         \/ /\ CallForwardTCP /\ protocol = "plain"
            /\ setup' = [setup EXCEPT !.srcHalfClose = FALSE]
<1>1. CASE NegotiationFails
  BY <1>1 DEF NegotiationFails, Reject
<1>2. CASE ServeFirstByte
  BY <1>2 DEF ServeFirstByte, Step, Reject
<1>3. CASE \E methods \in SUBSET {"noAuth", "usernamePassword"} :
             ClientHello(methods)
  BY <1>3 DEF ClientHello, Step, Reject
<1>4. CASE \E creds \in Credentials : ClientAuthentication(creds)
  BY <1>4 DEF ClientAuthentication, Step, Reject
<1>5. CASE \E host \in Hosts : ClientConnection(host)
  BY <1>5 DEF ClientConnection, Step, Reject
<1>6. CASE \E host \in Hosts, creds \in Credentials \cup {NoCredentials},
             n \in 0 .. MaxBytes : ReadRequest(host, creds, n)
  <2>1. PICK host \in Hosts, creds \in Credentials \cup {NoCredentials},
             n \in 0 .. MaxBytes : ReadRequest(host, creds, n)
    BY <1>6
  <2>2. Len(inbound["src"]) \in Nat
    BY LenProperties DEF InboundTypeOK, TypeOK, Sides
  <2>3. /\ n \in Nat
        /\ n <= Len(inbound["src"]) => n \in 0 .. Len(inbound["src"])
    BY <2>2, RelayAssumption
  <2>4. CASE Step("request", "address")
    BY <2>1, <2>3, <2>4 DEF ReadRequest, Step, Reject, ReadAhead
  <2>5. CASE ~ Step("request", "address")
    BY <2>1, <2>5 DEF ReadRequest, Reject
  <2> QED
    BY <2>4, <2>5
<1>7. CASE ResolveTarget
  BY <1>7 DEF ResolveTarget, Step, Reject
<1>8. CASE CheckProxyAuthorization
  BY <1>8 DEF CheckProxyAuthorization, Step, Reject
<1>9. CASE ServeConnect
  BY <1>9 DEF ServeConnect
<1>10. CASE ServePlain
  BY <1>10 DEF ServePlain
<1> QED
  BY <1>1, <1>2, <1>3, <1>4, <1>5, <1>6, <1>7, <1>8, <1>9, <1>10 DEF Negotiate

(* The loop of plain requests leaves the connection alone, or is the side  *)
(* of the pipe that writes, reads or closes.                               *)
LEMMA LoopSteps ==
  ASSUME LoopStep
  PROVE  /\ UNCHANGED negotiationVars
         /\ UNCHANGED vars \/ LoopPeerStep \/ LoopCloses
<1>1. CASE WriteRequest
  BY <1>1 DEF WriteRequest, LoopGoes, LoopPeerStep, negotiationVars
<1>2. CASE WriteRequestFails
  BY <1>2 DEF WriteRequestFails, EndLoop, LoopCloses, EndLoopHaving,
     negotiationVars
<1>3. CASE ReadResponse
  BY <1>3 DEF ReadResponse, LoopGoes, LoopPeerStep, negotiationVars
<1>4. CASE ReadBody
  BY <1>4 DEF ReadBody, LoopGoes, LoopPeerStep, negotiationVars
<1>5. CASE CloseAfterResponse
  BY <1>5 DEF CloseAfterResponse, LoopCloses, EndLoopHaving, negotiationVars
<1>6. CASE WriteResponseFails
  BY <1>6 DEF WriteResponseFails, EndLoop, LoopCloses, EndLoopHaving,
     negotiationVars
<1>7. CASE ReadResponseEnds
  BY <1>7 DEF ReadResponseEnds, EndLoop, LoopCloses, EndLoopHaving,
     negotiationVars
<1>8. CASE NextRequest
  <2>1. CASE LoopGoes("next", "write")
    BY <1>8, <2>1 DEF NextRequest, LoopGoes, EndLoop, EndLoopHaving
  <2>2. CASE loop = "next" /\ EndLoop
    BY <2>2 DEF EndLoop, LoopCloses, EndLoopHaving, negotiationVars
  <2> QED
    BY <1>8, <2>1, <2>2 DEF NextRequest, LoopGoes
<1> QED
  BY <1>1, <1>2, <1>3, <1>4, <1>5, <1>6, <1>7, <1>8 DEF LoopStep

----------------------------------------------------------------------------
(* Type correctness.                                                       *)

(* There are two sides, each the other of the other.                       *)
LEMMA SidesFacts ==
  /\ "src" \in Sides /\ "dst" \in Sides
  /\ \A p \in Sides : Other(p) \in Sides /\ Other(p) # p /\ Other(Other(p)) = p
  /\ \A p, q \in Sides : q = p \/ q = Other(p)
BY DEF Sides, Other

(* readRequest: the bufio.Reader splits what has come in.                  *)
LEMMA ReadAheadTypes ==
  ASSUME TypeOK, NEW n \in Nat, ReadAhead(n)
  PROVE  TypeOK' /\ buffered' \in Seq(1 .. MaxBytes)
<1>1. inbound["src"] \in Seq(1 .. MaxBytes)
  BY SidesFacts DEF TypeOK
<1>2. n \in 0 .. Len(inbound["src"])
  BY DEF ReadAhead
<1>3. /\ SubSeq(inbound["src"], 1, n) \in Seq(1 .. MaxBytes)
      /\ SubSeq(inbound["src"], n + 1, Len(inbound["src"]))
           \in Seq(1 .. MaxBytes)
  BY <1>1, <1>2, SplitContinues
<1>4. inbound' \in [Sides -> Seq(1 .. MaxBytes)]
  BY <1>3 DEF TypeOK, ReadAhead
<1> QED
  BY <1>3, <1>4 DEF TypeOK, ReadAhead, peerVars

(* connHandler closes a connection whose handler has returned.             *)
LEMMA CloseClientTypes ==
  ASSUME TypeOK, CloseClient
  PROVE  TypeOK'
BY DEF TypeOK, CloseClient, peerVars

(* ForwardTCP is given the buffered bytes as preloaded ones.               *)
LEMMA CallForwardTCPTypes ==
  ASSUME TypeOK, buffered \in Seq(1 .. MaxBytes), CallForwardTCP,
         setup' \in {setup, [setup EXCEPT !.srcHalfClose = FALSE]}
  PROVE  TypeOK' /\ buffered' \in Seq(1 .. MaxBytes)
<1>1. setup' \in AllSetups
  BY DEF TypeOK, AllSetups
<1>2. buffered' \in Seq(1 .. MaxBytes)
  BY EmptySeq DEF CallForwardTCP
<1> QED
  BY <1>1, <1>2 DEF TypeOK, CallForwardTCP, Step, peerVars

(* A side sends within its bound and reads what is on the way to it.       *)
LEMMA PeerStepTypes ==
  ASSUME TypeOK, NEW p \in Sides,
         PeerSend(p) \/ PeerFinish(p) \/ PeerReset(p) \/ PeerRead(p)
           \/ PeerSeesEnd(p)
  PROVE  TypeOK'
<1> USE RelayAssumption
<1>1. CASE PeerSend(p)
  <2>1. sent[p] \in 0 .. MaxBytes /\ sent[p] < MaxBytes
    BY <1>1 DEF TypeOK, PeerSend
  <2>2. sent[p] + 1 \in 1 .. MaxBytes
    BY <2>1
  <2>3. Append(inbound[p], sent[p] + 1) \in Seq(1 .. MaxBytes)
    BY <2>2, AppendProperties DEF TypeOK
  <2>4. inbound' \in [Sides -> Seq(1 .. MaxBytes)]
    BY <1>1, <2>3 DEF TypeOK, PeerSend
  <2>5. sent' \in [Sides -> 0 .. MaxBytes]
    BY <1>1, <2>2 DEF TypeOK, PeerSend
  <2> QED
    BY <1>1, <2>4, <2>5 DEF TypeOK, PeerSend
<1>2. CASE PeerFinish(p)
  BY <1>2 DEF TypeOK, PeerFinish
<1>3. CASE PeerReset(p)
  <2>1. /\ inbound' \in [Sides -> Seq(1 .. MaxBytes)]
        /\ outbound' \in [Sides -> Seq(1 .. MaxBytes)]
    BY <1>3, EmptySeq DEF TypeOK, PeerReset
  <2>2. \A r \in Sides : Len(outbound'[r]) <= Capacity
    BY <1>3 DEF TypeOK, PeerReset
  <2>3. sending' \in [Sides -> {"open", "finished", "closed", "reset"}]
    BY <1>3 DEF TypeOK, PeerReset
  <2> QED
    BY <1>3, <2>1, <2>2, <2>3 DEF TypeOK, PeerReset
<1>4. CASE PeerRead(p)
  <2> DEFINE s == outbound[p]
  <2>1. s \in Seq(1 .. MaxBytes) /\ s # <<>> /\ Len(s) <= Capacity
    BY <1>4 DEF TypeOK, PeerRead
  <2>2. /\ Head(s) \in 1 .. MaxBytes /\ Tail(s) \in Seq(1 .. MaxBytes)
        /\ Len(Tail(s)) = Len(s) - 1 /\ Len(s) >= 1
    BY <2>1, TailContinues, 0 \in Nat
  <2>3. Len(Tail(s)) <= Capacity
    BY <2>1, <2>2
  <2>4. Append(got[p], Head(s)) \in Seq(1 .. MaxBytes)
    BY <2>2, AppendProperties DEF TypeOK
  <2>5. /\ outbound' \in [Sides -> Seq(1 .. MaxBytes)]
        /\ \A r \in Sides : Len(outbound'[r]) <= Capacity
    BY <1>4, <2>2, <2>3 DEF TypeOK, PeerRead
  <2>6. got' \in [Sides -> Seq(1 .. MaxBytes)]
    BY <1>4, <2>4 DEF TypeOK, PeerRead
  <2> QED
    BY <1>4, <2>5, <2>6 DEF TypeOK, PeerRead
<1>5. CASE PeerSeesEnd(p)
  BY <1>5 DEF TypeOK, PeerSeesEnd
<1> QED
  BY <1>1, <1>2, <1>3, <1>4, <1>5

(* A copier moves between the two sides no more than there is room for.    *)
LEMMA CopierTypes ==
  ASSUME TypeOK, NEW p \in Sides, CopierStep(p)
  PROVE  TypeOK'
<1> USE RelayAssumption
<1>1. ASSUME NEW n \in 1 .. MaxBytes, Copy(p, n) PROVE TypeOK'
  <2> DEFINE s == Readable(p)
             front == SubSeq(s, 1, n)
             rest == SubSeq(s, n + 1, Len(s))
             q == Other(p)
  <2>1. s \in Seq(1 .. MaxBytes) /\ n \in 0 .. Len(s) /\ q \in Sides
    <3>1. s \in Seq(1 .. MaxBytes)
      BY DEF TypeOK, Readable
    <3>2. Len(s) \in Nat
      BY <3>1, LenProperties
    <3>3. n \in 1 .. Len(s)
      BY <1>1 DEF Copy
    <3> QED
      BY <3>1, <3>2, <3>3, SidesFacts
  <2>2. /\ front \in Seq(1 .. MaxBytes) /\ Len(front) = n
        /\ rest \in Seq(1 .. MaxBytes)
    BY <2>1, SplitContinues
  <2> HIDE DEF s
  <2>3. /\ outbound[q] \o front \in Seq(1 .. MaxBytes)
        /\ Len(outbound[q] \o front) = Len(outbound[q]) + n
    BY <2>1, <2>2, ConcatProperties DEF TypeOK
  <2>4. /\ outbound' = [outbound EXCEPT ![q] = outbound[q] \o front]
        /\ Len(outbound[q]) + n <= Capacity
    BY <1>1 DEF Copy, s
  <2>5. /\ preload' \in {rest, preload}
        /\ inbound' \in {inbound, [inbound EXCEPT ![p] = rest]}
    BY <1>1 DEF Copy, s
  <2> HIDE DEF front, rest, q
  <2>6. /\ outbound' \in [Sides -> Seq(1 .. MaxBytes)]
        /\ \A r \in Sides : Len(outbound'[r]) <= Capacity
    BY <2>1, <2>3, <2>4 DEF TypeOK
  <2>7. /\ preload' \in Seq(1 .. MaxBytes)
        /\ inbound' \in [Sides -> Seq(1 .. MaxBytes)]
    BY <2>2, <2>5 DEF TypeOK
  <2>8. headerSent' \in BOOLEAN
    BY <1>1 DEF Copy, TypeOK
  <2> QED
    BY <1>1, <2>6, <2>7, <2>8 DEF TypeOK, Copy, peerVars
<1>2. eof \in [Sides -> BOOLEAN] /\ CloseWriteTo(Other(p)) =>
        eof' \in [Sides -> BOOLEAN]
  BY DEF CloseWriteTo
<1>3. CASE CopyEnds(p)
  BY <1>2, <1>3 DEF TypeOK, CopyEnds, peerVars
<1>4. CASE CopyFails(p)
  <2>1. /\ preload' \in Seq(1 .. MaxBytes)
        /\ inbound' \in [Sides -> Seq(1 .. MaxBytes)]
    <3>1. <<>> \in Seq(1 .. MaxBytes)
      BY EmptySeq
    <3>2. /\ preload' \in {<<>>, preload}
          /\ inbound' \in {inbound, [inbound EXCEPT ![p] = <<>>]}
      BY <1>4 DEF CopyFails
    <3> QED
      BY <3>1, <3>2 DEF TypeOK
  <2> QED
    BY <1>2, <1>4, <2>1 DEF TypeOK, CopyFails, peerVars
<1> QED
  BY <1>1, <1>3, <1>4 DEF CopierStep

(* The loop that closes its end of the pipe takes back what the copier has *)
(* not read of its request.                                                *)
LEMMA LoopClosesTypes ==
  ASSUME TypeOK, buffered \in Seq(1 .. MaxBytes), FlowInv("src"), LoopCloses
  PROVE  TypeOK'
<1> USE RelayAssumption, SidesFacts
<1>1. PICK read \in Seq(1 .. MaxBytes) : EndLoopHaving(read)
  <2>1. <<>> \in Seq(1 .. MaxBytes)
    BY EmptySeq
  <2>2. ASSUME outbound["src"] # <<>>
        PROVE  <<Head(outbound["src"])>> \in Seq(1 .. MaxBytes)
    <3>1. outbound["src"] \in Seq(1 .. MaxBytes)
      BY DEF TypeOK
    <3>2. Head(outbound["src"]) \in 1 .. MaxBytes
      BY <2>2, <3>1, HeadTailProperties
    <3> QED
      BY <3>2
  <2> QED
    BY <2>1, <2>2 DEF LoopCloses
<1>2. got["src"] \o read \in Seq(1 .. MaxBytes)
  BY ConcatProperties DEF TypeOK
<1>3. got' \in [Sides -> Seq(1 .. MaxBytes)]
  BY <1>1, <1>2 DEF TypeOK, EndLoopHaving
<1>4. sent["src"] - Len(inbound["src"]) \in 0 .. MaxBytes
  <2>1. /\ Len(inbound["src"]) \in Nat /\ Len(preload) \in Nat
        /\ Len(got["dst"]) \in Nat /\ Len(outbound["dst"]) \in Nat
        /\ Len(buffered) \in Nat
    BY LenProperties DEF TypeOK
  <2> QED
    BY <2>1 DEF FlowInv, TypeOK, Passed, Held, Other
<1>5. sent' \in [Sides -> 0 .. MaxBytes]
  BY <1>1, <1>4 DEF TypeOK, EndLoopHaving
<1>6. /\ inbound' \in [Sides -> Seq(1 .. MaxBytes)]
      /\ outbound' \in [Sides -> Seq(1 .. MaxBytes)]
  BY <1>1, EmptySeq DEF TypeOK, EndLoopHaving
<1>7. \A r \in Sides : Len(outbound'[r]) <= Capacity
  BY <1>1 DEF TypeOK, EndLoopHaving
<1> QED
  BY <1>1, <1>3, <1>5, <1>6, <1>7 DEF TypeOK, EndLoopHaving

(* The variables of the negotiation and of the loop.                       *)
NegotiationTypeOK ==
  /\ authInfo \in AuthInfos
  /\ protocol \in Protocols /\ stage \in Stages
  /\ request \in Hosts \cup {NoHost}
  /\ presented \in Credentials \cup {NoCredentials}
  /\ target \in [type: {None, "IPv4", "IPv6", "Domain"},
                 port: {None, "default", "named"}]
  /\ replied \in Replies
  /\ client \in {"open", "gone"} /\ loop \in LoopStates

(* ToSocketAddr and ReadAddressWithType return an address, or none with an *)
(* error.                                                                  *)
LEMMA AddressTypes ==
  ASSUME NEW host, NEW requirePort
  PROVE  /\ ToSocketAddr(host, requirePort)
              \in [type: {None, "IPv4", "IPv6", "Domain"},
                   port: {None, "default", "named"}]
         /\ ReadAddressWithType(host)
              \in [type: {None, "IPv4", "IPv6", "Domain"},
                   port: {None, "default", "named"}]
         /\ NoAddress \in [type: {None, "IPv4", "IPv6", "Domain"},
                           port: {None, "default", "named"}]
<1> DEFINE Addresses == [type: {None, "IPv4", "IPv6", "Domain"},
                         port: {None, "default", "named"}]
<1>1. NoAddress \in Addresses
  BY DEF NoAddress
<1>2. ASSUME NEW h, NEW port \in {"default", "named"}
      PROVE  ToAddr(h, port) \in Addresses
  BY DEF ToAddr
<1> HIDE DEF Addresses
<1>3. SplitHostPort(host) \in Addresses
  BY <1>1, <1>2 DEF SplitHostPort
<1>4. ToSocketAddr(host, requirePort) \in Addresses
  BY <1>1, <1>2, <1>3 DEF ToSocketAddr
<1>5. ReadAddressWithType(host) \in Addresses
  BY <1>2 DEF ReadAddressWithType
<1> QED
  BY <1>1, <1>4, <1>5 DEF Addresses

(* Each handler of the negotiation moves to a stage, with a reply, an      *)
(* address and credentials of the right kind.                              *)
LEMMA NegotiateTypes ==
  ASSUME NegotiationTypeOK, Negotiate
  PROVE  NegotiationTypeOK'
<1>1. ASSUME NEW reply \in Replies, Reject(reply)
      PROVE  NegotiationTypeOK'
  BY <1>1 DEF NegotiationTypeOK, Reject, plainVars
<1>2. /\ None \in Replies /\ replied \in Replies
      /\ {"noAcceptableMethods", "authFailure", "commandNotSupported", "400",
          "407", "noAuth", "usernamePassword", "authSuccess", "succeeded",
          "200"} \subseteq Replies
  BY DEF Replies, NegotiationTypeOK
<1>3. CASE NegotiationFails
  BY <1>1, <1>2, <1>3 DEF NegotiationFails
<1>4. CASE ServeFirstByte
  BY <1>1, <1>2, <1>4
  DEF ServeFirstByte, Step, NegotiationTypeOK, Protocols, Stages, plainVars
<1>5. ASSUME NEW methods, ClientHello(methods) PROVE NegotiationTypeOK'
  BY <1>1, <1>2, <1>5
  DEF ClientHello, Step, NegotiationTypeOK, Stages, plainVars
<1>6. ASSUME NEW creds \in Credentials, ClientAuthentication(creds)
      PROVE  NegotiationTypeOK'
  BY <1>1, <1>2, <1>6
  DEF ClientAuthentication, Step, NegotiationTypeOK, Stages, plainVars
<1>7. ASSUME NEW host \in Hosts, ClientConnection(host)
      PROVE  NegotiationTypeOK'
  BY <1>1, <1>2, <1>7, AddressTypes
  DEF ClientConnection, Step, NegotiationTypeOK, Stages, plainVars
<1>8. ASSUME NEW host \in Hosts,
             NEW creds \in Credentials \cup {NoCredentials}, NEW n,
             ReadRequest(host, creds, n)
      PROVE  NegotiationTypeOK'
  <2>1. CASE Reject(None)
    BY <1>1, <1>2, <2>1
  <2>2. CASE ~ Reject(None)
    <3>1. /\ stage' = "address" /\ request' = host /\ presented' = creds
          /\ UNCHANGED <<authInfo, protocol, target, replied, plainVars>>
      BY <1>8, <2>2 DEF ReadRequest, Step
    <3> QED
      BY <3>1 DEF NegotiationTypeOK, Stages, plainVars
  <2> QED
    BY <2>1, <2>2
<1>9. CASE ResolveTarget
  <2> DEFINE addr == ToSocketAddr(request, protocol = "connect")
  <2>1. addr \in [type: {None, "IPv4", "IPv6", "Domain"},
                  port: {None, "default", "named"}]
    BY AddressTypes
  <2>2. \/ Reject("400")
        \/ /\ target' = addr /\ stage' = "auth"
           /\ UNCHANGED <<authInfo, protocol, request, presented, replied,
                          plainVars>>
    BY <1>9 DEF ResolveTarget, Step
  <2> HIDE DEF addr
  <2> QED
    BY <1>1, <1>2, <2>1, <2>2 DEF NegotiationTypeOK, Stages, plainVars
<1>10. CASE CheckProxyAuthorization
  BY <1>1, <1>2, <1>10
  DEF CheckProxyAuthorization, Step, NegotiationTypeOK, Stages, plainVars
<1>11. ASSUME CallForwardTCP, replied' \in Replies, loop' \in LoopStates
       PROVE  NegotiationTypeOK'
  BY <1>11, AddressTypes DEF CallForwardTCP, Step, NegotiationTypeOK, Stages
<1>12. CASE ServeConnect
  BY <1>2, <1>11, <1>12 DEF ServeConnect, NegotiationTypeOK
<1>13. CASE ServePlain
  BY <1>2, <1>11, <1>13 DEF ServePlain, LoopStates
<1> QED
  BY <1>3, <1>4, <1>5, <1>6, <1>7, <1>8, <1>9, <1>10, <1>12, <1>13
  DEF Negotiate

(* The loop of plain requests touches no variable of the negotiation.      *)
LEMMA LoopTypes ==
  ASSUME NegotiationTypeOK, LoopStep
  PROVE  NegotiationTypeOK'
<1>1. loop' \in LoopStates /\ client' = client
  BY DEF NegotiationTypeOK, LoopStep, WriteRequest, WriteRequestFails,
     ReadResponse, ReadBody, CloseAfterResponse, WriteResponseFails,
     ReadResponseEnds, NextRequest, LoopGoes, EndLoop, EndLoopHaving,
     LoopStates
<1> QED
  BY <1>1, LoopSteps DEF NegotiationTypeOK, negotiationVars

(* A copier moves the bytes; the variables of the negotiation stay.        *)
LEMMA RelayTypes ==
  ASSUME TypeOK, RelayStep
  PROVE  TypeOK'
<1>1. CASE Cancel
  BY <1>1 DEF Cancel, TypeOK, peerVars
<1>2. CASE GiveUp
  BY <1>2 DEF GiveUp, TypeOK, peerVars
<1>3. CASE StartPipe
  BY <1>3 DEF StartPipe, TypeOK, peerVars, AllSetups
<1>4. CASE CloseBoth
  BY <1>4 DEF CloseBoth, TypeOK, peerVars
<1>5. CASE PeerStep("src") \/ PeerStep("dst")
  BY <1>5, SidesFacts, PeerStepTypes DEF PeerStep
<1>6. CASE \E p \in Sides : CopierStep(p)
  BY <1>6, CopierTypes
<1> QED
  BY <1>1, <1>2, <1>3, <1>4, <1>5, <1>6 DEF RelayStep

(* Every step keeps the types.                                             *)
LEMMA TypePreserved ==
  ASSUME InboundTypeOK, FlowInv("src"), [InboundNext]_inboundVars
  PROVE  InboundTypeOK'
<1>1. InboundTypeOK <=> /\ TypeOK /\ NegotiationTypeOK
                        /\ buffered \in Seq(1 .. MaxBytes)
  BY DEF InboundTypeOK, NegotiationTypeOK
<1>2. InboundTypeOK' <=> /\ TypeOK' /\ NegotiationTypeOK'
                         /\ buffered' \in Seq(1 .. MaxBytes)
  BY DEF InboundTypeOK, NegotiationTypeOK
<1>3. ASSUME UNCHANGED vars PROVE TypeOK'
  BY <1>1, <1>3 DEF TypeOK, vars, peerVars
<1>4. ASSUME UNCHANGED <<negotiationVars, plainVars>> PROVE NegotiationTypeOK'
  BY <1>1, <1>4 DEF NegotiationTypeOK, negotiationVars, plainVars
<1>5. CASE Negotiate
  <2>1. NegotiationTypeOK'
    BY <1>1, <1>5, NegotiateTypes
  <2>2. TypeOK' /\ buffered' \in Seq(1 .. MaxBytes)
    BY <1>1, <1>3, <1>5, NegotiateSteps, CloseClientTypes, ReadAheadTypes,
       CallForwardTCPTypes
  <2> QED
    BY <1>2, <2>1, <2>2
<1>6. CASE LoopStep
  <2>1. TypeOK'
    BY <1>1, <1>3, <1>6, LoopSteps, LoopClosesTypes, PeerStepTypes, SidesFacts
    DEF LoopPeerStep
  <2>2. NegotiationTypeOK'
    BY <1>1, <1>6, LoopTypes
  <2>3. buffered' = buffered
    BY <1>6, LoopSteps DEF negotiationVars
  <2> QED
    BY <1>1, <1>2, <2>1, <2>2, <2>3
<1>7. CASE ClientLeaves
  BY <1>1, <1>2, <1>3, <1>7
  DEF ClientLeaves, NegotiationTypeOK, negotiationVars
<1>8. CASE RelayStep
  <2>1. UNCHANGED <<negotiationVars, plainVars>>
    BY <1>8 DEF RelayStep
  <2> QED
    BY <1>1, <1>2, <1>4, <1>8, <2>1, RelayTypes DEF negotiationVars
<1>9. CASE UNCHANGED inboundVars
  BY <1>1, <1>2, <1>3, <1>4, <1>9 DEF inboundVars, negotiationVars
<1> QED
  BY <1>5, <1>6, <1>7, <1>8, <1>9 DEF InboundNext

----------------------------------------------------------------------------
(* The way of the bytes.                                                   *)

(* The byte sequences and their lengths.                                   *)
LEMMA Lengths ==
  ASSUME InboundTypeOK
  PROVE  /\ \A p \in Sides :
              /\ got[p] \in Seq(1 .. MaxBytes) /\ Len(got[p]) \in Nat
              /\ outbound[p] \in Seq(1 .. MaxBytes) /\ Len(outbound[p]) \in Nat
              /\ inbound[p] \in Seq(1 .. MaxBytes) /\ Len(inbound[p]) \in Nat
              /\ sent[p] \in 0 .. MaxBytes
         /\ preload \in Seq(1 .. MaxBytes) /\ Len(preload) \in Nat
         /\ buffered \in Seq(1 .. MaxBytes) /\ Len(buffered) \in Nat
BY LenProperties DEF InboundTypeOK, TypeOK

(* What has passed, and what is held, is a number of bytes.                *)
LEMMA HeldIsNat ==
  ASSUME InboundTypeOK, NEW q \in Sides
  PROVE  Passed(q) \in Nat /\ Held(q) \in Nat
<1>1. Other(q) \in Sides
  BY SidesFacts
<1>2. Passed(q) \in Nat
  <2> DEFINE read == Len(got[Other(q)])
             sentOn == Len(outbound[Other(q)])
  <2>1. read \in Nat /\ sentOn \in Nat
    BY <1>1, Lengths
  <2> HIDE DEF read, sentOn
  <2>2. read + sentOn \in Nat
    BY <2>1
  <2> QED
    BY <2>2 DEF Passed, read, sentOn
<1>3. Len(preload) + Len(buffered) \in Nat
  BY Lengths
<1> QED
  BY <1>2, <1>3 DEF Held

(* Steps that do not touch the bytes of a direction.                       *)
LEMMA FlowFrame ==
  ASSUME NEW q \in Sides, FlowInv(q),
         got'[Other(q)] = got[Other(q)],
         outbound'[Other(q)] = outbound[Other(q)],
         sent'[q] = sent[q], inbound'[q] = inbound[q],
         q = "src" => preload' = preload /\ buffered' = buffered,
         Deaf(Other(q)) => Deaf(Other(q))',
         sending[q] = "reset" => sending'[q] = "reset"
  PROVE  FlowInv(q)'
<1>1. Passed(q)' = Passed(q) /\ Held(q)' = Held(q)
  BY DEF Passed, Held
<1> QED
  BY <1>1 DEF FlowInv, Continues

(* readRequest takes the next bytes of the source, and in order.           *)
LEMMA FlowReadAhead ==
  ASSUME InboundTypeOK, StageInv, NEW q \in Sides, FlowInv(q),
         NEW n \in Nat, ReadAhead(n)
  PROVE  FlowInv(q)'
<1>1. /\ n \in 0 .. Len(inbound["src"]) /\ buffered = <<>>
      /\ buffered' = SubSeq(inbound["src"], 1, n)
      /\ inbound' = [inbound EXCEPT !["src"] =
                       SubSeq(inbound["src"], n + 1, Len(inbound["src"]))]
      /\ UNCHANGED <<sent, sending, got, preload, outbound>>
  BY DEF ReadAhead, StageInv, peerVars
<1>2. CASE q = "dst"
  <2>1. inbound'[q] = inbound[q]
    BY <1>1, <1>2 DEF InboundTypeOK, TypeOK
  <2> QED
    BY <1>1, <1>2, <2>1, FlowFrame DEF Deaf
<1>3. CASE q = "src"
  <2> DEFINE s == inbound["src"]
             k == Passed(q) + Held(q)
  <2>1. /\ s \in Seq(1 .. MaxBytes) /\ k \in Nat /\ Len(s) \in Nat
        /\ Len(preload) \in Nat /\ Passed(q) \in Nat
    BY <1>3, Lengths, HeldIsNat, SidesFacts
  <2>2. /\ Len(SubSeq(s, 1, n)) = n
        /\ Len(SubSeq(s, n + 1, Len(s))) = Len(s) - n
        /\ Continues(s, k) => /\ Continues(SubSeq(s, 1, n), k)
                              /\ Continues(SubSeq(s, n + 1, Len(s)), k + n)
    BY <1>1, <2>1, SplitContinues
  <2>3. Len(buffered) = 0
    BY <1>1
  <2>4. k = Passed(q) + Len(preload)
    BY <1>3, <2>1, <2>3 DEF Held
  <2>5. /\ buffered' = SubSeq(s, 1, n)
        /\ inbound'[q] = SubSeq(s, n + 1, Len(s))
    BY <1>1, <1>3 DEF InboundTypeOK, TypeOK, Sides
  <2>6. Passed(q)' = Passed(q) /\ Held(q)' = Len(preload) + n
    BY <1>1, <1>3, <2>2, <2>5 DEF Passed, Held
  <2>7. /\ Passed(q)' + Held(q)' = k + n
        /\ Passed(q)' + Held(q)' + Len(inbound'[q]) = k + Len(s)
    <3>1. n \in 0 .. Len(s) /\ Len(inbound'[q]) = Len(s) - n
      BY <1>1, <2>2, <2>5
    <3>2. Passed(q)' + Held(q)' = Passed(q) + (Len(preload) + n)
      BY <2>6
    <3> HIDE DEF s, k
    <3> QED
      BY <2>1, <2>4, <3>1, <3>2
  <2>8. /\ Continues(got[Other(q)], 0)
        /\ Continues(outbound[Other(q)], Len(got[Other(q)]))
        /\ k + Len(s) <= sent[q]
        /\ ~ Deaf(Other(q)) =>
             /\ Continues(preload, Passed(q)) /\ Continues(s, k)
             /\ sending[q] # "reset" => k + Len(s) = sent[q]
    BY <1>3 DEF FlowInv
  <2> HIDE DEF s, k
  <2>9. ~ Deaf(Other(q)) =>
          /\ Continues(preload', Passed(q)')
          /\ Continues(buffered', Passed(q)' + Len(preload'))
          /\ Continues(inbound'[q], Passed(q)' + Held(q)')
    BY <1>1, <2>2, <2>4, <2>5, <2>6, <2>7, <2>8 DEF Continues
  <2> QED
    BY <1>1, <2>7, <2>8, <2>9 DEF FlowInv, Deaf, Continues
<1> QED
  BY <1>2, <1>3 DEF Sides

(* The preloaded bytes are those that were buffered (ServeConnect).        *)
LEMMA FlowCallForwardTCP ==
  ASSUME InboundTypeOK, StageInv, NEW q \in Sides, FlowInv(q), CallForwardTCP
  PROVE  FlowInv(q)'
<1>1. /\ preload = <<>> /\ preload' = buffered /\ buffered' = <<>>
      /\ UNCHANGED <<inbound, sent, sending, got, outbound>>
  BY DEF CallForwardTCP, Step, StageInv, peerVars
<1>2. CASE q = "dst"
  BY <1>1, <1>2, FlowFrame DEF Deaf
<1>3. CASE q = "src"
  <2>1. /\ Len(preload) = 0 /\ Len(buffered') = 0 /\ Len(buffered) \in Nat
        /\ Passed(q) \in Nat
    BY <1>1, Lengths, HeldIsNat
  <2>2. /\ Passed(q)' = Passed(q) /\ Held(q)' = Held(q)
        /\ Passed(q)' + Len(preload) = Passed(q)
    BY <1>1, <1>3, <2>1 DEF Passed, Held
  <2>3. ~ Deaf(Other(q)) => Continues(buffered, Passed(q))
    BY <1>3, <2>1, <2>2 DEF FlowInv
  <2>4. ~ Deaf(Other(q)) => /\ Continues(preload', Passed(q)')
                            /\ Continues(buffered', Passed(q)' + Len(preload'))
    BY <1>1, <2>2, <2>3, EmptyContinues DEF Continues
  <2> QED
    BY <1>1, <2>2, <2>4 DEF FlowInv, Deaf, Continues
<1> QED
  BY <1>2, <1>3 DEF Sides

(* A side sends the next byte of its stream.                               *)
LEMMA FlowPeerSend ==
  ASSUME InboundTypeOK, NEW q \in Sides, FlowInv(q), PeerSend(q),
         buffered' = buffered
  PROVE  FlowInv(q)'
<1> DEFINE s == inbound[q]
           k == Passed(q) + Held(q)
           x == sent[q] + 1
<1>1. /\ s \in Seq(1 .. MaxBytes) /\ k \in Nat /\ Len(s) \in Nat
      /\ sent[q] \in 0 .. MaxBytes /\ MaxBytes \in Nat
  BY Lengths, HeldIsNat, RelayAssumption
<1>2. /\ sending[q] = "open" /\ x \in 1 .. MaxBytes
      /\ sent'[q] = x /\ inbound'[q] = Append(s, x)
      /\ UNCHANGED <<got, outbound, sending, preload>>
  BY <1>1 DEF PeerSend, InboundTypeOK, TypeOK
<1>3. Len(Append(s, x)) = Len(s) + 1
  BY <1>1, <1>2, AppendProperties
<1>4. /\ Passed(q)' = Passed(q) /\ Held(q)' = Held(q)
      /\ Deaf(Other(q))' = Deaf(Other(q))
  BY <1>2 DEF Passed, Held, Deaf
<1>5. /\ Continues(got[Other(q)], 0)
      /\ Continues(outbound[Other(q)], Len(got[Other(q)]))
      /\ k + Len(s) <= sent[q]
      /\ ~ Deaf(Other(q)) =>
           /\ q = "src" => /\ Continues(preload, Passed(q))
                           /\ Continues(buffered, Passed(q) + Len(preload))
           /\ Continues(s, k)
           /\ k + Len(s) = sent[q]
  BY <1>2 DEF FlowInv
<1>6. ASSUME ~ Deaf(Other(q)) PROVE Continues(Append(s, x), k)
  <2>1. x = k + Len(s) + 1
    BY <1>1, <1>5, <1>6
  <2> QED
    BY <1>1, <1>2, <1>5, <1>6, <2>1, AppendContinues
<1> HIDE DEF s, k, x
<1>7. k + (Len(s) + 1) <= x /\ (k + Len(s) = sent[q] => k + (Len(s) + 1) = x)
  BY <1>1, <1>5 DEF x
<1> QED
  BY <1>2, <1>3, <1>4, <1>5, <1>6, <1>7 DEF FlowInv, Continues, k

(* A reset loses the last bytes of a side and what is on the way to it.    *)
LEMMA FlowPeerReset ==
  ASSUME InboundTypeOK, NEW q \in Sides, FlowInv(q),
         PeerReset(q) \/ PeerReset(Other(q)), buffered' = buffered
  PROVE  FlowInv(q)'
<1>1. /\ Other(q) \in Sides /\ Other(q) # q /\ Other(Other(q)) = q
  BY SidesFacts
<1>2. Passed(q) \in Nat /\ Held(q) \in Nat /\ Len(inbound[q]) \in Nat
  BY HeldIsNat, Lengths
<1>3. /\ sending \in [Sides -> {"open", "finished", "closed", "reset"}]
      /\ inbound \in [Sides -> Seq(1 .. MaxBytes)]
      /\ outbound \in [Sides -> Seq(1 .. MaxBytes)]
      /\ sent[q] \in Nat
  BY DEF InboundTypeOK, TypeOK
<1>4. CASE PeerReset(q)
  <2>1. /\ inbound'[q] = <<>> /\ sending'[q] = "reset"
        /\ sending'[Other(q)] = sending[Other(q)]
        /\ outbound'[Other(q)] = outbound[Other(q)]
        /\ UNCHANGED <<got, sent, preload>>
    BY <1>1, <1>3, <1>4 DEF PeerReset
  <2>2. /\ Passed(q)' = Passed(q) /\ Held(q)' = Held(q)
        /\ Deaf(Other(q))' = Deaf(Other(q)) /\ Len(inbound'[q]) = 0
    BY <2>1 DEF Passed, Held, Deaf
  <2>3. Passed(q) + Held(q) + 0 <= sent[q]
    <3>1. Passed(q) + Held(q) + Len(inbound[q]) <= sent[q]
      BY DEF FlowInv
    <3> DEFINE b == Len(inbound[q])
    <3> HIDE DEF b
    <3>2. b \in Nat /\ Passed(q) + Held(q) + b <= sent[q]
      BY <1>2, <3>1 DEF b
    <3> QED
      BY <1>2, <1>3, <3>2
  <2> QED
    BY <2>1, <2>2, <2>3 DEF FlowInv, Continues
<1>5. CASE PeerReset(Other(q))
  <2>1. /\ outbound'[Other(q)] = <<>> /\ sending'[Other(q)] = "reset"
        /\ inbound'[q] = inbound[q]
        /\ UNCHANGED <<got, sent, preload>>
    BY <1>1, <1>3, <1>5 DEF PeerReset
  <2> DEFINE a == Len(got[Other(q)])
             b == Len(outbound[Other(q)])
             c == Len(inbound[q])
  <2>2. /\ a \in Nat /\ b \in Nat /\ c \in Nat
        /\ a + b + Held(q) + c <= sent[q]
    BY <1>1, Lengths DEF FlowInv, Passed
  <2> HIDE DEF a, b, c
  <2>3. a + 0 + Held(q) + c <= sent[q]
    BY <1>2, <1>3, <2>2
  <2>4. Passed(q)' = a + 0 /\ Held(q)' = Held(q) /\ Deaf(Other(q))'
    BY <2>1 DEF Passed, Held, Deaf, a
  <2> QED
    BY <2>1, <2>3, <2>4 DEF FlowInv, Continues, c
<1> QED
  BY <1>4, <1>5

(* A side reads the next byte of the other.                                *)
LEMMA FlowPeerRead ==
  ASSUME InboundTypeOK, NEW q \in Sides, FlowInv(q), PeerRead(Other(q)),
         buffered' = buffered
  PROVE  FlowInv(q)'
<1> DEFINE p == Other(q)
           s == outbound[p]
           g == got[p]
<1>1. /\ p \in Sides /\ s \in Seq(1 .. MaxBytes) /\ g \in Seq(1 .. MaxBytes)
      /\ Len(s) \in Nat /\ Len(g) \in Nat
  BY SidesFacts, Lengths
<1>2. /\ s # <<>>
      /\ got'[p] = Append(g, Head(s)) /\ outbound'[p] = Tail(s)
      /\ UNCHANGED <<sent, sending, inbound, preload>>
  BY <1>1 DEF PeerRead, InboundTypeOK, TypeOK
<1>3. Continues(g, 0) /\ Continues(s, Len(g))
  BY DEF FlowInv
<1> HIDE DEF p, s, g
<1>4. /\ Head(s) \in 1 .. MaxBytes /\ Head(s) = Len(g) + 1
      /\ Len(s) >= 1 /\ Len(Tail(s)) = Len(s) - 1
      /\ Continues(Tail(s), Len(g) + 1)
  BY <1>1, <1>2, <1>3, TailContinues
<1>5. /\ Head(s) = 0 + Len(g) + 1 /\ 0 \in Nat
  BY <1>1, <1>4
<1>6. /\ Len(Append(g, Head(s))) = Len(g) + 1
      /\ Continues(Append(g, Head(s)), 0)
  BY <1>1, <1>3, <1>4, <1>5, AppendContinues
<1>7. Len(got'[p]) + Len(outbound'[p]) = Len(g) + Len(s)
  BY <1>1, <1>2, <1>4, <1>6
<1>8. Passed(q)' = Passed(q) /\ Held(q)' = Held(q)
  BY <1>2, <1>7 DEF Passed, Held, p, g, s
<1>9. /\ Continues(got'[p], 0) /\ Continues(outbound'[p], Len(got'[p]))
  BY <1>2, <1>4, <1>6
<1> QED
  BY <1>2, <1>8, <1>9 DEF FlowInv, Continues, Deaf, p

(* A copier hands on the bytes that were read early first.                 *)
LEMMA FlowCopy ==
  ASSUME InboundTypeOK, StageInv, NEW q \in Sides, FlowInv(q),
         NEW n \in 1 .. MaxBytes, Copy(q, n), buffered' = buffered
  PROVE  FlowInv(q)'
<1> DEFINE p == Other(q)
           s == Readable(q)
           front == SubSeq(s, 1, n)
           rest == SubSeq(s, n + 1, Len(s))
           a == Len(got[p])
           b == Len(outbound[p])
           k == a + b
<1>1. /\ p \in Sides /\ p # q /\ Other(p) = q
      /\ q = "src" \/ p = "src"
  BY SidesFacts DEF Sides, Other
<1>2. s \in Seq(1 .. MaxBytes) /\ Len(s) \in Nat
  BY Lengths DEF Readable
<1>3. /\ n \in 0 .. Len(s) /\ n \in 1 .. Len(s) /\ ~ Deaf(p)
      /\ outbound'[p] = outbound[p] \o front
      /\ preload' = IF FromPreload(q) THEN rest ELSE preload
      /\ inbound'[q] = IF FromPreload(q) THEN inbound[q] ELSE rest
      /\ UNCHANGED <<got, sent, sending>>
  <2>1. n \in 1 .. Len(s) /\ ~ Deaf(p)
    BY DEF Copy
  <2>2. outbound'[p] = outbound[p] \o front
    BY <1>1 DEF Copy, InboundTypeOK, TypeOK
  <2>3. preload' = IF FromPreload(q) THEN rest ELSE preload
    BY DEF Copy
  <2>4. inbound'[q] = IF FromPreload(q) THEN inbound[q] ELSE rest
    BY DEF Copy, InboundTypeOK, TypeOK
  <2>5. UNCHANGED <<got, sent, sending>>
    BY DEF Copy, peerVars
  <2>6. n \in 0 .. Len(s)
    BY <1>2, <2>1
  <2> QED
    BY <2>1, <2>2, <2>3, <2>4, <2>5, <2>6
<1>4. a \in Nat /\ b \in Nat /\ outbound[p] \in Seq(1 .. MaxBytes)
  BY <1>1, Lengths
<1>5. Passed(q) = k /\ k \in Nat /\ Held(q) \in Nat
  BY HeldIsNat DEF Passed
<1>6. buffered = <<>> /\ Len(buffered) = 0
  <2>1. copier[q] # "idle"
    BY DEF Copy
  <2> QED
    BY <2>1 DEF StageInv
<1>7. /\ front \in Seq(1 .. MaxBytes) /\ Len(front) = n
      /\ rest \in Seq(1 .. MaxBytes) /\ Len(rest) = Len(s) - n
      /\ Continues(s, k) => Continues(front, k) /\ Continues(rest, k + n)
  BY <1>2, <1>3, <1>5, SplitContinues
<1>8. Continues(s, k)
  <2>1. CASE FromPreload(q)
    BY <1>3, <1>5, <2>1 DEF FromPreload, Readable, FlowInv
  <2>2. CASE ~ FromPreload(q)
    <3>1. Held(q) = 0
      BY <1>6, <2>2 DEF FromPreload, Held
    <3>2. k + Held(q) = k
      BY <1>5, <3>1
    <3> QED
      BY <1>3, <1>5, <2>2, <3>2 DEF Readable, FlowInv
  <2> QED
    BY <2>1, <2>2
<1>9. /\ Continues(got[p], 0) /\ Continues(outbound[p], a)
      /\ k + Held(q) + Len(inbound[q]) <= sent[q]
      /\ Continues(inbound[q], k + Held(q))
      /\ sending[q] # "reset" => k + Held(q) + Len(inbound[q]) = sent[q]
  BY <1>3, <1>5 DEF FlowInv
<1>10. buffered' = <<>>
  BY <1>6
<1> HIDE DEF p, s, front, rest, k
<1>11. /\ Len(outbound'[p]) = b + n
       /\ Continues(outbound'[p], a)
  <2>1. Continues(front, a + b)
    BY <1>7, <1>8 DEF k
  <2> DEFINE o == outbound[p]
  <2>2. /\ o \in Seq(1 .. MaxBytes) /\ Continues(o, a) /\ b = Len(o)
        /\ outbound'[p] = o \o front /\ a \in Nat
    BY <1>3, <1>4, <1>9
  <2> HIDE DEF a, b, o
  <2> QED
    BY <1>7, <2>1, <2>2, ConcatContinues
<1>12. Passed(q)' = k + n
  <2>1. Passed(q)' = a + (b + n)
    BY <1>3, <1>11 DEF Passed, p
  <2> HIDE DEF a, b
  <2> QED
    BY <1>3, <1>4, <1>5, <2>1 DEF k
<1>13. /\ Passed(q)' + Held(q)' + Len(inbound'[q])
            = k + Held(q) + Len(inbound[q])
       /\ Continues(inbound'[q], Passed(q)' + Held(q)')
       /\ q = "src" => Continues(preload', Passed(q)')
  <2>1. CASE FromPreload(q)
    <3>1. Held(q) = Len(s) /\ Held(q)' = Len(s) - n
      BY <1>2, <1>3, <1>6, <1>7, <2>1 DEF FromPreload, Held, s, Readable
    <3>2. inbound'[q] = inbound[q] /\ preload' = rest
      BY <1>3, <2>1
    <3>3. Passed(q)' + Held(q)' = k + Held(q)
      BY <1>2, <1>3, <1>5, <1>12, <3>1
    <3> QED
      BY <1>7, <1>8, <1>9, <1>12, <3>2, <3>3 DEF Continues
  <2>2. CASE ~ FromPreload(q)
    <3>1. Held(q) = 0 /\ Held(q)' = 0 /\ (q = "src" => preload' = <<>>)
      BY <1>3, <1>6, <1>10, <2>2 DEF FromPreload, Held
    <3>2. inbound'[q] = rest /\ inbound[q] = s
      BY <1>3, <2>2 DEF s, Readable
    <3>3. Passed(q)' + Held(q)' = k + n
      BY <1>3, <1>5, <1>12, <3>1
    <3>4. k + n + (Len(s) - n) = k + 0 + Len(s)
      BY <1>2, <1>3, <1>5
    <3> QED
      BY <1>7, <1>8, <3>1, <3>2, <3>3, <3>4 DEF Continues
  <2> QED
    BY <2>1, <2>2
<1> QED
  BY <1>3, <1>9, <1>10, <1>11, <1>13 DEF FlowInv, Continues, p

(* Bytes that cannot be handed on, because the other side is gone, are     *)
(* dropped.                                                                *)
LEMMA FlowCopyFails ==
  ASSUME InboundTypeOK, NEW q \in Sides, FlowInv(q), CopyFails(q),
         buffered' = buffered
  PROVE  FlowInv(q)'
<1>1. UNCHANGED <<got, sent, sending, outbound>>
  BY DEF CopyFails, peerVars
<1>2. CASE preload' = preload /\ inbound' = inbound
  BY <1>1, <1>2, FlowFrame DEF Deaf
<1>3. CASE ~ (preload' = preload /\ inbound' = inbound)
  <2>1. /\ Deaf(Other(q)) /\ Deaf(Other(q))'
        /\ preload' = IF FromPreload(q) THEN <<>> ELSE preload
        /\ inbound'[q] = IF FromPreload(q) THEN inbound[q] ELSE <<>>
    BY <1>1, <1>3 DEF CopyFails, InboundTypeOK, TypeOK, Deaf
  <2> DEFINE b == Len(buffered)
             c == Len(inbound[q])
             d == Len(preload)
             e == Len(inbound'[q])
  <2>2. /\ b \in Nat /\ c \in Nat /\ d \in Nat /\ Passed(q) \in Nat
        /\ sent[q] \in Nat
    BY Lengths, HeldIsNat DEF InboundTypeOK, TypeOK
  <2>3. e \in {0, c} /\ Len(preload') \in {0, d}
    BY <2>1
  <2>4. Passed(q)' = Passed(q)
    BY <1>1 DEF Passed
  <2>5. Passed(q) + Held(q) + c <= sent[q]
    BY DEF FlowInv
  <2>6. /\ Held(q) = IF q = "src" THEN d + b ELSE 0
        /\ Held(q)' = IF q = "src" THEN Len(preload') + b ELSE 0
    BY DEF Held
  <2> DEFINE f == Len(preload')
  <2> HIDE DEF b, c, d, e, f
  <2>7. Passed(q) + (IF q = "src" THEN f + b ELSE 0) + e <= sent[q]
    BY <2>2, <2>3, <2>5, <2>6 DEF f
  <2>8. Passed(q)' + Held(q)' + Len(inbound'[q]) <= sent'[q]
    BY <1>1, <2>4, <2>6, <2>7 DEF e, f
  <2> QED
    BY <1>1, <2>1, <2>8 DEF FlowInv, Continues
<1> QED
  BY <1>2, <1>3

(* The end of the pipe that the loop holds takes back what was not read of *)
(* its request, and with it goes what it has not read.                     *)
LEMMA FlowLoopCloses ==
  ASSUME InboundTypeOK, ProtocolInv, NEW q \in Sides, FlowInv(q), LoopCloses,
         buffered' = buffered
  PROVE  FlowInv(q)'
<1>1. /\ sending' = [sending EXCEPT !["src"] = "closed"]
      /\ sent' = [sent EXCEPT !["src"] = sent["src"] - Len(inbound["src"])]
      /\ inbound' = [inbound EXCEPT !["src"] = <<>>]
      /\ outbound' = [outbound EXCEPT !["src"] = <<>>]
      /\ UNCHANGED preload
      /\ sending["src"] # "reset"
  BY DEF LoopCloses, EndLoopHaving, ProtocolInv, Tunnel
<1>2. CASE q = "src"
  <2>1. /\ Other(q) = "dst" /\ "src" \in Sides /\ "dst" \in Sides
    BY <1>2 DEF Other, Sides
  <2>2. /\ got'["dst"] = got["dst"] /\ outbound'["dst"] = outbound["dst"]
        /\ sending'["dst"] = sending["dst"]
        /\ inbound'[q] = <<>> /\ Len(inbound'[q]) = 0
        /\ sent'[q] = sent[q] - Len(inbound[q])
    BY <1>1, <1>2, <2>1 DEF InboundTypeOK, TypeOK, LoopCloses, EndLoopHaving
  <2>3. /\ Passed(q)' = Passed(q) /\ Held(q)' = Held(q)
        /\ Deaf(Other(q))' = Deaf(Other(q))
    BY <1>1, <2>1, <2>2 DEF Passed, Held, Deaf
  <2> DEFINE c == Len(inbound[q])
             h == Passed(q) + Held(q)
  <2>4. /\ c \in Nat /\ h \in Nat /\ sent[q] \in Nat
        /\ h + c <= sent[q]
        /\ ~ Deaf(Other(q)) => h + c = sent[q]
    BY <1>1, <1>2, Lengths, HeldIsNat DEF FlowInv, InboundTypeOK, TypeOK
  <2>5. sent'[q] = sent[q] - c
    BY <2>2
  <2> HIDE DEF c, h
  <2>6. h + 0 <= sent'[q] /\ (~ Deaf(Other(q)) => h + 0 = sent'[q])
    BY <2>4, <2>5
  <2> QED
    BY <1>1, <2>1, <2>2, <2>3, <2>6 DEF FlowInv, Continues, h
<1>3. CASE q = "dst"
  <2> DEFINE g == got["src"]
             s == outbound["src"]
             c == Len(inbound[q])
  <2>1. /\ Other(q) = "src" /\ "src" \in Sides /\ "dst" \in Sides
    BY <1>3 DEF Other, Sides
  <2>2. /\ g \in Seq(1 .. MaxBytes) /\ Len(g) \in Nat
        /\ s \in Seq(1 .. MaxBytes) /\ Len(s) \in Nat
        /\ c \in Nat /\ sent[q] \in Nat
    BY <2>1, Lengths DEF InboundTypeOK, TypeOK
  <2>3. /\ outbound'["src"] = <<>> /\ sending'["src"] = "closed"
        /\ inbound'[q] = inbound[q] /\ sent'[q] = sent[q]
    BY <1>1, <1>3, <2>1 DEF InboundTypeOK, TypeOK
  <2>4. /\ Continues(g, 0) /\ Continues(s, Len(g)) /\ Held(q) = 0
        /\ Len(g) + Len(s) + Held(q) + c <= sent[q]
    BY <1>3, <2>1 DEF FlowInv, Passed, Held
  <2>5. \/ got'["src"] = g \o <<>>
        \/ s # <<>> /\ got'["src"] = g \o <<Head(s)>>
    BY <2>1 DEF LoopCloses, EndLoopHaving, InboundTypeOK, TypeOK
  <2>6. Deaf("src")' /\ Held(q)' = 0
    BY <1>3, <2>3 DEF Deaf, Held
  <2>7. Passed(q)' = Len(got'["src"]) + 0
    BY <2>1, <2>3 DEF Passed
  <2> HIDE DEF g, s, c
  <2>8. CASE got'["src"] = g \o <<>>
    <3>1. got'["src"] = g
      BY <2>2, <2>8, ConcatEmptySeq
    <3>2. Len(g) + 0 + 0 + c <= sent[q]
      BY <2>2, <2>4
    <3> QED
      BY <2>1, <2>3, <2>4, <2>6, <2>7, <3>1, <3>2 DEF FlowInv, Continues, c
  <2>9. CASE s # <<>> /\ got'["src"] = g \o <<Head(s)>>
    <3>1. Head(s) \in 1 .. MaxBytes /\ Len(s) >= 1 /\ Head(s) = Len(g) + 1
      BY <2>2, <2>4, <2>9, TailContinues
    <3> DEFINE t == <<Head(s)>>
    <3>2. /\ t \in Seq(1 .. MaxBytes) /\ Len(t) = 1 /\ Continues(t, 0 + Len(g))
      BY <2>2, <3>1 DEF Continues
    <3> HIDE DEF t
    <3>3. Len(g \o t) = Len(g) + 1 /\ Continues(g \o t, 0)
      <4>1. 0 \in Nat
        OBVIOUS
      <4> QED
        BY <2>2, <2>4, <3>2, <4>1, ConcatContinues
    <3>4. got'["src"] = g \o t
      BY <2>9 DEF t
    <3>5. Len(g) + 1 + 0 + c <= sent[q]
      BY <2>2, <2>4, <3>1
    <3>6. Len(got'["src"]) + 0 = Len(g) + 1
      BY <2>2, <3>3, <3>4
    <3>7. Passed(q)' + Held(q)' + c <= sent[q]
      BY <2>6, <2>7, <3>5, <3>6
    <3>8. Continues(got'["src"], 0)
      BY <3>3, <3>4
    <3> QED
      BY <2>1, <2>3, <2>6, <3>7, <3>8 DEF FlowInv, Continues, c
  <2> QED
    BY <2>5, <2>8, <2>9
<1> QED
  BY <1>2, <1>3 DEF Sides

(* Whatever a side does, both directions stay in order.                    *)
LEMMA FlowPeerStep ==
  ASSUME InboundTypeOK, NEW q \in Sides, FlowInv(q),
         NEW r \in Sides, PeerStep(r), buffered' = buffered
  PROVE  FlowInv(q)'
<1>1. /\ r = q \/ r = Other(q)
      /\ Other(q) \in Sides /\ Other(q) # q
  BY SidesFacts
<1>2. /\ sent \in [Sides -> 0 .. MaxBytes]
      /\ inbound \in [Sides -> Seq(1 .. MaxBytes)]
      /\ outbound \in [Sides -> Seq(1 .. MaxBytes)]
      /\ got \in [Sides -> Seq(1 .. MaxBytes)]
      /\ sending \in [Sides -> {"open", "finished", "closed", "reset"}]
  BY DEF InboundTypeOK, TypeOK
<1>3. CASE PeerSend(r)
  <2>1. CASE r = q
    BY <1>3, <2>1, FlowPeerSend
  <2>2. CASE r = Other(q)
    BY <1>1, <1>2, <1>3, <2>2, FlowFrame DEF PeerSend, Deaf
  <2> QED
    BY <1>1, <2>1, <2>2
<1>4. CASE PeerFinish(r)
  <2>1. /\ UNCHANGED <<sent, inbound, outbound, got, preload>>
        /\ sending[r] = "open" /\ sending' = [sending EXCEPT ![r] = "finished"]
    BY <1>4 DEF PeerFinish
  <2>2. /\ Deaf(Other(q)) => Deaf(Other(q))'
        /\ sending[q] = "reset" => sending'[q] = "reset"
    BY <1>1, <1>2, <2>1 DEF Deaf
  <2> QED
    BY <2>1, <2>2, FlowFrame
<1>5. CASE PeerReset(r)
  BY <1>1, <1>5, FlowPeerReset
<1>6. CASE PeerRead(r)
  <2>1. CASE r = Other(q)
    BY <1>6, <2>1, FlowPeerRead
  <2>2. CASE r = q
    BY <1>1, <1>2, <1>6, <2>2, FlowFrame DEF PeerRead, Deaf
  <2> QED
    BY <1>1, <2>1, <2>2
<1>7. CASE PeerSeesEnd(r)
  BY <1>7, FlowFrame DEF PeerSeesEnd, Deaf
<1> QED
  BY <1>3, <1>4, <1>5, <1>6, <1>7 DEF PeerStep

(* Whatever a copier of Pipe does, both directions stay in order.          *)
LEMMA FlowCopierStep ==
  ASSUME InboundTypeOK, StageInv, NEW q \in Sides, FlowInv(q),
         NEW r \in Sides, CopierStep(r), buffered' = buffered
  PROVE  FlowInv(q)'
<1>1. /\ r = q \/ r = Other(q)
      /\ Other(q) \in Sides /\ Other(q) # q /\ Other(Other(q)) = q
      /\ r # q => (q = "src" => r # "src")
  BY SidesFacts
<1>2. /\ inbound \in [Sides -> Seq(1 .. MaxBytes)]
      /\ outbound \in [Sides -> Seq(1 .. MaxBytes)]
  BY DEF InboundTypeOK, TypeOK
<1>3. ASSUME NEW n \in 1 .. MaxBytes, Copy(r, n) PROVE FlowInv(q)'
  <2>1. CASE r = q
    BY <1>3, <2>1, FlowCopy
  <2>2. CASE r = Other(q)
    <3>1. /\ UNCHANGED <<got, sent, sending>>
          /\ outbound'[Other(q)] = outbound[Other(q)]
          /\ inbound'[q] = inbound[q]
      BY <1>1, <1>2, <1>3, <2>2 DEF Copy, peerVars
    <3>2. q = "src" => preload' = preload
      BY <1>1, <1>3, <2>2 DEF Copy, FromPreload
    <3> QED
      BY <3>1, <3>2, FlowFrame DEF Deaf
  <2> QED
    BY <1>1, <2>1, <2>2
<1>4. CASE CopyEnds(r)
  BY <1>4, FlowFrame DEF CopyEnds, peerVars, Deaf
<1>5. CASE CopyFails(r)
  <2>1. CASE r = q
    BY <1>5, <2>1, FlowCopyFails
  <2>2. CASE r = Other(q)
    <3>1. /\ UNCHANGED <<got, sent, sending, outbound>>
          /\ inbound'[q] = inbound[q]
      BY <1>1, <1>2, <1>5, <2>2 DEF CopyFails, peerVars
    <3>2. q = "src" => preload' = preload
      BY <1>1, <1>5, <2>2 DEF CopyFails, FromPreload
    <3> QED
      BY <3>1, <3>2, FlowFrame DEF Deaf
  <2> QED
    BY <1>1, <2>1, <2>2
<1> QED
  BY <1>3, <1>4, <1>5 DEF CopierStep

(* Every step keeps both directions in order.                              *)
LEMMA FlowPreserved ==
  ASSUME InboundTypeOK, StageInv, ProtocolInv, [InboundNext]_inboundVars,
         NEW q \in Sides, FlowInv(q)
  PROVE  FlowInv(q)'
<1>1. ASSUME UNCHANGED <<vars, buffered>> PROVE FlowInv(q)'
  BY <1>1, FlowFrame DEF vars, peerVars, Deaf
<1>2. CASE Negotiate
  <2>1. CASE CloseClient /\ buffered' = buffered
    BY <2>1, FlowFrame DEF CloseClient, peerVars, Deaf
  <2> QED
    BY <1>1, <1>2, <2>1, NegotiateSteps, FlowReadAhead, FlowCallForwardTCP
<1>3. CASE LoopStep
  <2>1. buffered' = buffered
    BY <1>3, LoopSteps DEF negotiationVars
  <2>2. CASE LoopPeerStep
    BY <2>1, <2>2, FlowPeerStep, SidesFacts DEF LoopPeerStep, PeerStep
  <2> QED
    BY <1>1, <1>3, <2>1, <2>2, LoopSteps, FlowLoopCloses
<1>4. CASE ClientLeaves
  BY <1>1, <1>4 DEF ClientLeaves, negotiationVars
<1>5. CASE RelayStep
  <2>1. buffered' = buffered
    BY <1>5 DEF RelayStep, negotiationVars
  <2>2. CASE Cancel \/ GiveUp \/ StartPipe \/ CloseBoth
    BY <2>1, <2>2, FlowFrame
    DEF Cancel, GiveUp, StartPipe, CloseBoth, peerVars, Deaf
  <2> QED
    BY <1>5, <2>1, <2>2, FlowPeerStep, FlowCopierStep, SidesFacts DEF RelayStep
<1>6. CASE UNCHANGED inboundVars
  BY <1>1, <1>6 DEF inboundVars, negotiationVars
<1> QED
  BY <1>2, <1>3, <1>4, <1>5, <1>6 DEF InboundNext

----------------------------------------------------------------------------
(* The negotiation.                                                        *)

NegotiationInv == StageInv /\ ProtocolInv /\ NegotiatedInv

(* The handlers of the negotiation one by one.                             *)
LEMMA RejectKeeps ==
  ASSUME NegotiationInv, NEW reply, phase = "negotiate", Reject(reply)
  PROVE  NegotiationInv'
BY DEF NegotiationInv, StageInv, ProtocolInv, NegotiatedInv, Entitled,
   TargetAsRequested, Reject, CloseClient, Tunnel, plainVars, peerVars

(* http_socks: the first byte chooses the protocol.                        *)
LEMMA ServeFirstByteKeeps ==
  ASSUME NegotiationInv, ServeFirstByte
  PROVE  NegotiationInv'
<1>1. CASE Reject(None)
  BY <1>1, RejectKeeps DEF ServeFirstByte, Step
<1>2. CASE ~ Reject(None)
  <2>1. /\ phase = "negotiate" /\ stage = "firstByte"
        /\ \/ protocol' = "socks" /\ stage' = "hello"
           \/ protocol' \in {"connect", "plain"} /\ stage' = "request"
        /\ UNCHANGED <<authInfo, request, target, presented, replied, buffered,
                       loop, vars>>
    BY <1>2 DEF ServeFirstByte, Step, plainVars
  <2>2. protocol = "unknown" /\ replied = None
    BY <2>1 DEF NegotiationInv, ProtocolInv
  <2> QED
    BY <2>1, <2>2
    DEF NegotiationInv, StageInv, ProtocolInv, NegotiatedInv, Tunnel, vars,
        peerVars
<1> QED
  BY <1>1, <1>2

(* socks: without credentials to check the request follows at once.        *)
LEMMA ClientHelloKeeps ==
  ASSUME NegotiationInv, NEW methods, ClientHello(methods)
  PROVE  NegotiationInv'
<1>1. CASE phase = "negotiate" /\ \E reply : Reject(reply)
  BY <1>1, RejectKeeps
<1>2. CASE ~ (phase = "negotiate" /\ \E reply : Reject(reply))
  <2>1. /\ phase = "negotiate" /\ stage = "hello"
        /\ \/ stage' = "connectionRequest" /\ IsEmpty(authInfo)
           \/ stage' = "authRequest"
        /\ UNCHANGED <<authInfo, protocol, request, target, presented,
                       buffered, loop, vars>>
    BY <1>2 DEF ClientHello, Step, plainVars
  <2>2. protocol = "socks"
    BY <2>1 DEF NegotiationInv, ProtocolInv
  <2> QED
    BY <2>1, <2>2
    DEF NegotiationInv, StageInv, ProtocolInv, NegotiatedInv, Entitled,
        Tunnel, vars, peerVars
<1> QED
  BY <1>1, <1>2

(* Two records of credentials of which neither part differs are the same.  *)
LEMMA EqualCredentials ==
  ASSUME InboundTypeOK, NEW creds \in Credentials \cup {NoCredentials},
         ~ NotEqual(authInfo, creds)
  PROVE  creds = authInfo
<1>1. \A c \in Credentials \cup {NoCredentials} :
        c = [username |-> c.username, password |-> c.password]
  BY InboundAssumption DEF Credential, NoCredentials
<1>2. authInfo = [username |-> authInfo.username,
                  password |-> authInfo.password]
  BY InboundAssumption DEF Credential, InboundTypeOK
<1> QED
  BY <1>1, <1>2 DEF NotEqual

(* socks: only the configured credentials lead to the request.             *)
LEMMA ClientAuthenticationKeeps ==
  ASSUME InboundTypeOK, NegotiationInv, NEW creds \in Credentials,
         ClientAuthentication(creds)
  PROVE  NegotiationInv'
<1>1. CASE phase = "negotiate" /\ \E reply : Reject(reply)
  BY <1>1, RejectKeeps
<1>2. CASE ~ (phase = "negotiate" /\ \E reply : Reject(reply))
  <2>1. /\ phase = "negotiate" /\ stage = "authRequest"
        /\ stage' = "connectionRequest"
        /\ ~ NotEqual(authInfo, creds) /\ presented' = creds
        /\ UNCHANGED <<authInfo, protocol, request, target, buffered, loop,
                       vars>>
    BY <1>2 DEF ClientAuthentication, Step, plainVars
  <2>2. creds = authInfo
    BY <2>1, EqualCredentials
  <2>3. protocol = "socks"
    BY <2>1 DEF NegotiationInv, ProtocolInv
  <2> QED
    BY <2>1, <2>2, <2>3
    DEF NegotiationInv, StageInv, ProtocolInv, NegotiatedInv, Entitled,
        Tunnel, vars, peerVars
<1> QED
  BY <1>1, <1>2

(* A SOCKS request names its target with its type.                         *)
LEMMA SocksTarget ==
  ASSUME NEW host \in AllHosts, host.port = "good",
         request' = host, target' = ReadAddressWithType(host),
         protocol' = "socks"
  PROVE  TargetAsRequested'
<1>1. ~ Unbracketed(host).bracket /\ Unbracketed(host).name = host.name
  BY DEF Unbracketed, AllHosts
<1>2. /\ target'.port = "named"
      /\ target'.type = IF host.name \notin {"v4", "v6"} THEN "Domain"
                        ELSE IF host.name = "v4" THEN "IPv4" ELSE "IPv6"
  BY <1>1 DEF ReadAddressWithType, ToAddr
<1> QED
  BY <1>2 DEF TargetAsRequested

(* socks: the target is the one of the request.                            *)
LEMMA ClientConnectionKeeps ==
  ASSUME NegotiationInv, NEW host \in Hosts, ClientConnection(host)
  PROVE  NegotiationInv'
<1>1. CASE phase = "negotiate" /\ \E reply : Reject(reply)
  BY <1>1, RejectKeeps
<1>2. CASE ~ (phase = "negotiate" /\ \E reply : Reject(reply))
  <2>1. /\ phase = "negotiate" /\ stage = "connectionRequest"
        /\ stage' = "reply"
        /\ host.port = "good"
        /\ request' = host /\ target' = ReadAddressWithType(host)
        /\ UNCHANGED <<authInfo, protocol, presented, replied, buffered, loop,
                       vars>>
    BY <1>2 DEF ClientConnection, Step, plainVars
  <2>2. protocol = "socks"
    BY <2>1 DEF NegotiationInv, ProtocolInv
  <2>3. TargetAsRequested'
    BY <2>1, <2>2, SocksTarget, InboundAssumption
  <2>4. Entitled'
    BY <2>1 DEF NegotiationInv, NegotiatedInv, Entitled
  <2> QED
    BY <2>1, <2>2, <2>3, <2>4
    DEF NegotiationInv, StageInv, ProtocolInv, NegotiatedInv, Tunnel, vars,
        peerVars
<1> QED
  BY <1>1, <1>2

(* http: the request names a host.                                         *)
LEMMA ReadRequestKeeps ==
  ASSUME NegotiationInv, NEW host \in Hosts, NEW creds, NEW n,
         ReadRequest(host, creds, n)
  PROVE  NegotiationInv'
<1>1. CASE phase = "negotiate" /\ Reject(None)
  BY <1>1, RejectKeeps
<1>2. CASE ~ (phase = "negotiate" /\ Reject(None))
  <2>1. /\ phase = "negotiate" /\ stage = "request" /\ stage' = "address"
        /\ request' = host
        /\ UNCHANGED <<authInfo, protocol, target, replied, loop, phase, eof,
                       sawEnd, copier, sending, preload>>
    BY <1>2 DEF ReadRequest, Step, plainVars, peerVars
  <2>2. protocol \in {"connect", "plain"}
    BY <2>1 DEF NegotiationInv, ProtocolInv
  <2> QED
    BY <2>1, <2>2
    DEF NegotiationInv, StageInv, ProtocolInv, NegotiatedInv, Tunnel
<1> QED
  BY <1>1, <1>2

(* ToSocketAddr, with a port where it is required, returns the address     *)
(* that was asked for.                                                     *)
LEMMA ResolvedTarget ==
  ASSUME NEW host \in AllHosts, NEW requirePort,
         requirePort <=> protocol = "connect",
         ToSocketAddr(host, requirePort) # NoAddress,
         protocol' \in {"connect", "plain"}, protocol' = protocol,
         request' = host, target' = ToSocketAddr(host, requirePort)
  PROVE  TargetAsRequested'
<1>1. /\ host.name \in {"domain", "v4", "v6", "junk", "empty"}
      /\ host.bracket \in BOOLEAN /\ host.port \in {"none", "bad", "good"}
  BY DEF AllHosts
<1>2. /\ ~ Unbracketed(host).bracket /\ Unbracketed(host).name = host.name
  BY DEF Unbracketed, AllHosts
<1>3. ASSUME NEW port
      PROVE  /\ ToAddr(host, port).port = port
             /\ ToAddr(host, port).type =
                  IF host.bracket \/ host.name \notin {"v4", "v6"}
                    THEN "Domain"
                  ELSE IF host.name = "v4" THEN "IPv4" ELSE "IPv6"
             /\ ToAddr(Unbracketed(host), port).port = port
             /\ ToAddr(Unbracketed(host), port).type =
                  IF host.name \notin {"v4", "v6"} THEN "Domain"
                  ELSE IF host.name = "v4" THEN "IPv4" ELSE "IPv6"
  BY <1>2 DEF ToAddr
<1>4. ~ NoName(host)
  BY DEF ToSocketAddr
<1>5. CASE ~ requirePort /\ ~ HasColon(host)
  <2>1. target' = ToAddr(host, "default") /\ host.port = "none"
        /\ host.name # "v6" /\ protocol' = "plain"
    BY <1>4, <1>5 DEF ToSocketAddr, HasColon
  <2> QED
    BY <1>1, <1>3, <2>1 DEF TargetAsRequested
<1>6. CASE /\ ~ requirePort /\ HasColon(host)
           /\ host.bracket /\ host.port = "none"
  <2>1. target' = ToAddr(Unbracketed(host), "default") /\ protocol' = "plain"
    BY <1>4, <1>6 DEF ToSocketAddr
  <2> QED
    BY <1>1, <1>3, <1>6, <2>1 DEF TargetAsRequested
<1>7. CASE /\ ~ (~ requirePort /\ ~ HasColon(host))
           /\ ~ (/\ ~ requirePort /\ HasColon(host)
                 /\ host.bracket /\ host.port = "none")
  <2>1. target' = SplitHostPort(host) /\ SplitHostPort(host) # NoAddress
    BY <1>4, <1>7 DEF ToSocketAddr
  <2>2. target' = ToAddr(Unbracketed(host), "named") /\ host.port = "good"
    BY <1>1, <2>1 DEF SplitHostPort
  <2> QED
    BY <1>1, <1>3, <2>2 DEF TargetAsRequested
<1> QED
  BY <1>5, <1>6, <1>7

(* http: the target is what ToSocketAddr makes of the host.                *)
LEMMA ResolveTargetKeeps ==
  ASSUME NegotiationInv, ResolveTarget
  PROVE  NegotiationInv'
<1>1. CASE phase = "negotiate" /\ Reject("400")
  BY <1>1, RejectKeeps
<1>2. CASE ~ (phase = "negotiate" /\ Reject("400"))
  <2> DEFINE addr == ToSocketAddr(request, protocol = "connect")
  <2>1. /\ phase = "negotiate" /\ stage = "address" /\ stage' = "auth"
        /\ addr # NoAddress /\ target' = addr
        /\ UNCHANGED <<authInfo, protocol, request, presented, replied,
                       buffered, loop, vars>>
    BY <1>2 DEF ResolveTarget, Step, plainVars
  <2>2. protocol \in {"connect", "plain"} /\ request \in AllHosts
    BY <2>1, InboundAssumption DEF NegotiationInv, ProtocolInv, NegotiatedInv
  <2>3. TargetAsRequested'
    <3> DEFINE required == protocol = "connect"
    <3>1. required <=> protocol = "connect"
      OBVIOUS
    <3>2. addr = ToSocketAddr(request, required)
      OBVIOUS
    <3> HIDE DEF required, addr
    <3> QED
      BY <2>1, <2>2, <3>1, <3>2, ResolvedTarget
  <2> HIDE DEF addr
  <2> QED
    BY <2>1, <2>2, <2>3
    DEF NegotiationInv, StageInv, ProtocolInv, NegotiatedInv, Tunnel, vars,
        peerVars
<1> QED
  BY <1>1, <1>2

(* http: only the configured credentials lead to the reply.                *)
LEMMA CheckProxyAuthorizationKeeps ==
  ASSUME InboundTypeOK, NegotiationInv, CheckProxyAuthorization
  PROVE  NegotiationInv'
<1>1. CASE phase = "negotiate" /\ Reject("407")
  BY <1>1, RejectKeeps
<1>2. CASE ~ (phase = "negotiate" /\ Reject("407"))
  <2>1. /\ phase = "negotiate" /\ stage = "auth" /\ stage' = "reply"
        /\ Authorized
        /\ UNCHANGED <<authInfo, protocol, request, target, presented, replied,
                       buffered, loop, vars>>
    BY <1>2 DEF CheckProxyAuthorization, Step, plainVars
  <2>2. protocol \in {"connect", "plain"} /\ TargetAsRequested
    BY <2>1 DEF NegotiationInv, ProtocolInv, NegotiatedInv
  <2>3. TargetAsRequested'
    BY <2>1, <2>2 DEF TargetAsRequested
  <2>4. Entitled
    BY <2>1, EqualCredentials DEF Authorized, Entitled, InboundTypeOK
  <2>5. Entitled'
    BY <2>1, <2>4 DEF Entitled
  <2> QED
    BY <2>1, <2>2, <2>3, <2>5
    DEF NegotiationInv, StageInv, ProtocolInv, NegotiatedInv, Tunnel, vars,
        peerVars
<1> QED
  BY <1>1, <1>2

(* The negotiation ends where the forwarding begins.                       *)
LEMMA CallForwardTCPKeeps ==
  ASSUME NegotiationInv, CallForwardTCP,
         loop' = loop \/ protocol = "plain"
  PROVE  NegotiationInv'
<1>1. /\ phase = "negotiate" /\ stage = "reply" /\ stage' = "forward"
      /\ phase' = "dial" /\ preload' = buffered /\ buffered' = <<>>
      /\ UNCHANGED <<authInfo, protocol, eof, sending, sawEnd, copier>>
  BY DEF CallForwardTCP, Step, peerVars
<1> QED
  BY <1>1 DEF NegotiationInv, StageInv, ProtocolInv, NegotiatedInv, Tunnel

(* Every handler keeps what the negotiation has established.               *)
LEMMA NegotiateKeeps ==
  ASSUME InboundTypeOK, NegotiationInv, Negotiate
  PROVE  NegotiationInv'
<1>1. CASE NegotiationFails
  BY <1>1, RejectKeeps DEF NegotiationFails
<1>2. CASE ServeConnect \/ ServePlain
  BY <1>2, CallForwardTCPKeeps DEF ServeConnect, ServePlain
<1> QED
  BY <1>1, <1>2, ServeFirstByteKeeps, ClientHelloKeeps,
     ClientAuthenticationKeeps, ClientConnectionKeeps, ReadRequestKeeps,
     ResolveTargetKeeps, CheckProxyAuthorizationKeeps DEF Negotiate

(* Once the negotiation is over its variables stay.                        *)
LEMMA NegotiatedFrame ==
  ASSUME NegotiatedInv, UNCHANGED negotiationVars
  PROVE  NegotiatedInv'
BY DEF NegotiatedInv, Entitled, TargetAsRequested, negotiationVars

(* The loop of plain requests runs after the negotiation.                  *)
LEMMA LoopKeeps ==
  ASSUME InboundTypeOK, NegotiationInv, LoopStep
  PROVE  NegotiationInv'
<1>1. UNCHANGED negotiationVars
  BY LoopSteps
<1>2. NegotiatedInv'
  BY <1>1, NegotiatedFrame DEF NegotiationInv
<1>3. loop # "idle"
  BY DEF LoopStep, WriteRequest, WriteRequestFails, ReadResponse, ReadBody,
     CloseAfterResponse, WriteResponseFails, ReadResponseEnds, NextRequest,
     LoopGoes
<1>4. protocol = "plain"
  BY <1>3 DEF NegotiationInv, ProtocolInv
<1>5. UNCHANGED <<phase, preload, eof, sawEnd, copier>>
  BY LoopSteps DEF LoopPeerStep, LoopCloses, PeerSend, PeerRead, EndLoopHaving,
     vars, peerVars
<1>6. sending'["src"] \in {sending["src"], "closed"}
  BY LoopSteps DEF LoopPeerStep, LoopCloses, PeerSend, PeerRead, EndLoopHaving,
     vars, peerVars, InboundTypeOK, TypeOK, Sides
<1> QED
  BY <1>1, <1>2, <1>4, <1>5, <1>6
  DEF NegotiationInv, StageInv, ProtocolInv, Tunnel, negotiationVars

(* So does the relay, and only a tunnelling client is shown its ends.      *)
LEMMA RelayKeeps ==
  ASSUME InboundTypeOK, NegotiationInv, RelayStep
  PROVE  NegotiationInv'
<1>1. UNCHANGED negotiationVars /\ UNCHANGED loop
  BY DEF RelayStep, plainVars
<1>2. NegotiatedInv'
  BY <1>1, NegotiatedFrame DEF NegotiationInv
<1>3. ASSUME UNCHANGED <<phase, preload, eof, copier>>,
             Tunnel \/ sending'["src"] = sending["src"],
             Tunnel \/ sawEnd'["src"] = sawEnd["src"],
             sawEnd' = sawEnd \/ \E p \in Sides : eof[p]
      PROVE  NegotiationInv'
  BY <1>1, <1>2, <1>3
  DEF NegotiationInv, StageInv, ProtocolInv, Tunnel, negotiationVars
<1>4. ASSUME NEW p \in Sides, PeerStep(p), Tunnel \/ p = "dst"
      PROVE  NegotiationInv'
  BY <1>3, <1>4
  DEF PeerStep, PeerSend, PeerFinish, PeerReset, PeerRead, PeerSeesEnd,
      InboundTypeOK, TypeOK, Sides
<1>5. ASSUME NEW p \in Sides, CopierStep(p)
      PROVE  NegotiationInv'
  <2>1. /\ copier[p] = "copying"
        /\ UNCHANGED <<phase, sending, sawEnd>>
    BY <1>5 DEF CopierStep, Copy, CopyEnds, CopyFails, peerVars
  <2>2. stage = "forward" /\ phase \notin {"negotiate", "dial"}
    BY <2>1 DEF NegotiationInv, StageInv
  <2> QED
    BY <1>1, <1>2, <2>1, <2>2
    DEF NegotiationInv, StageInv, ProtocolInv, Tunnel, negotiationVars
<1>6. CASE Cancel
  BY <1>3, <1>6 DEF Cancel, peerVars
<1>7. CASE GiveUp \/ StartPipe \/ CloseBoth
  <2>1. /\ phase' \in {"pipe", "closed"} /\ phase \in {"dial", "pipe"}
        /\ UNCHANGED <<preload, sending, sawEnd>>
    BY <1>7 DEF GiveUp, StartPipe, CloseBoth, peerVars
  <2>2. stage = "forward"
    BY <2>1 DEF NegotiationInv, StageInv
  <2> QED
    BY <1>1, <1>2, <2>1, <2>2
    DEF NegotiationInv, StageInv, ProtocolInv, Tunnel, negotiationVars
<1> QED
  BY <1>4, <1>5, <1>6, <1>7, SidesFacts DEF RelayStep

(* Every step keeps what the negotiation has established.                  *)
LEMMA NegotiationPreserved ==
  ASSUME InboundTypeOK, NegotiationInv, [InboundNext]_inboundVars
  PROVE  NegotiationInv'
<1>1. CASE ClientLeaves \/ UNCHANGED inboundVars
  BY <1>1
  DEF NegotiationInv, StageInv, ProtocolInv, NegotiatedInv, Entitled,
      TargetAsRequested, Tunnel, ClientLeaves, inboundVars, vars, peerVars,
      negotiationVars, plainVars
<1> QED
  BY <1>1, NegotiateKeeps, LoopKeeps, RelayKeeps DEF InboundNext

----------------------------------------------------------------------------
(* The ends.                                                               *)

(* Steps after which the copier that reads q, what there is to read of q,  *)
(* and what the other side has seen of it are as before.                   *)
LEMMA EndFrame ==
  ASSUME NEW q \in Sides, EndInv(q),
         NoReset' => NoReset,
         copier'[q] = copier[q],
         eof'[Other(q)] => eof[Other(q)] \/ copier[q] \in {"idle", "done"},
         sawEnd'[Other(q)] = sawEnd[Other(q)],
         NoReset' /\ copier[q] = "done" /\ Drained(q) => Drained(q)',
         NoReset' /\ Deaf(Other(q)) => Deaf(Other(q))',
         NoReset' /\ sawEnd[Other(q)] /\ copier[q] = "done" =>
           /\ outbound[Other(q)] = <<>> => outbound'[Other(q)] = <<>>
           /\ Deaf(Other(q))' => Deaf(Other(q))
  PROVE  EndInv(q)'
BY DEF EndInv

(* Nothing is claimed of an end before the copier has started.             *)
LEMMA EndIdle ==
  ASSUME NEW q \in Sides, copier'[q] = "idle"
  PROVE  EndInv(q)'
BY DEF EndInv

(* What is held of a side is its preloaded and buffered bytes.             *)
LEMMA NothingHeld ==
  ASSUME InboundTypeOK, NEW q \in Sides
  PROVE  Held(q) = 0 <=> (q = "src" => preload = <<>> /\ buffered = <<>>)
<1> DEFINE a == Len(preload)
           b == Len(buffered)
<1>1. a \in Nat /\ b \in Nat /\ (a = 0 <=> preload = <<>>)
      /\ (b = 0 <=> buffered = <<>>)
  BY Lengths, EmptySeq
<1>2. Held(q) = IF q = "src" THEN a + b ELSE 0
  BY DEF Held
<1> HIDE DEF a, b
<1> QED
  BY <1>1, <1>2

(* A side that has finished sends no more, and one sees an end only when   *)
(* the copier towards it is done.                                          *)
LEMMA EndPeerStep ==
  ASSUME InboundTypeOK, NEW q \in Sides, EndInv(q),
         NEW r \in Sides, PeerStep(r), buffered' = buffered
  PROVE  EndInv(q)'
<1>1. /\ r = q \/ r = Other(q)
      /\ Other(q) \in Sides /\ Other(q) # q
  BY SidesFacts
<1>2. /\ inbound \in [Sides -> Seq(1 .. MaxBytes)]
      /\ outbound \in [Sides -> Seq(1 .. MaxBytes)]
      /\ sending \in [Sides -> {"open", "finished", "closed", "reset"}]
      /\ sawEnd \in [Sides -> BOOLEAN]
  BY DEF InboundTypeOK, TypeOK
<1>3. UNCHANGED <<copier, eof, preload>>
  BY DEF PeerStep, PeerSend, PeerFinish, PeerReset, PeerRead, PeerSeesEnd
<1>4. Held(q)' = Held(q)
  BY <1>3 DEF Held
<1>5. CASE PeerSend(r)
  <2>1. /\ UNCHANGED <<sending, sawEnd, outbound>>
        /\ sending[r] = "open"
        /\ r # q => inbound'[q] = inbound[q]
    BY <1>1, <1>2, <1>5 DEF PeerSend
  <2> QED
    BY <1>3, <1>4, <2>1, EndFrame DEF NoReset, Drained, Ended, Deaf
<1>6. CASE PeerFinish(r)
  <2>1. /\ UNCHANGED <<sawEnd, outbound, inbound>>
        /\ sending[r] = "open" /\ sending'[r] = "finished"
        /\ \A p \in Sides \ {r} : sending'[p] = sending[p]
    BY <1>2, <1>6 DEF PeerFinish
  <2>2. NoReset' => NoReset
    BY <2>1 DEF NoReset
  <2>3. Drained(q) => Drained(q)'
    BY <1>4, <2>1 DEF Drained, Ended
  <2>4. Deaf(Other(q))' <=> Deaf(Other(q))
    BY <1>1, <2>1 DEF Deaf
  <2> QED
    BY <1>3, <2>1, <2>2, <2>3, <2>4, EndFrame
<1>7. CASE PeerReset(r)
  <2>1. sending'[r] = "reset" /\ UNCHANGED sawEnd
    BY <1>2, <1>7 DEF PeerReset
  <2>2. ~ NoReset'
    BY <2>1 DEF NoReset
  <2> QED
    BY <1>3, <2>1, <2>2, EndFrame
<1>8. CASE PeerRead(r)
  <2>1. /\ UNCHANGED <<sending, sawEnd, inbound>>
        /\ outbound[r] # <<>>
        /\ \A p \in Sides \ {r} : outbound'[p] = outbound[p]
    BY <1>2, <1>8 DEF PeerRead
  <2> QED
    BY <1>1, <1>3, <1>4, <2>1, EndFrame DEF NoReset, Drained, Ended, Deaf
<1>9. CASE PeerSeesEnd(r)
  <2>1. /\ UNCHANGED <<sending, inbound, outbound>>
        /\ eof[r] /\ outbound[r] = <<>> /\ ~ Deaf(r)
        /\ \A p \in Sides \ {r} : sawEnd'[p] = sawEnd[p]
    BY <1>2, <1>9 DEF PeerSeesEnd
  <2>2. CASE r = q
    BY <1>1, <1>3, <1>4, <2>1, <2>2, EndFrame
    DEF NoReset, Drained, Ended, Deaf
  <2>3. CASE r = Other(q)
    <3>1. /\ NoReset' <=> NoReset
          /\ Drained(q)' <=> Drained(q)
          /\ Deaf(Other(q))' <=> Deaf(Other(q))
      BY <1>4, <2>1 DEF NoReset, Drained, Ended, Deaf
    <3> QED
      BY <1>3, <2>1, <2>3, <3>1 DEF EndInv
  <2> QED
    BY <1>1, <2>2, <2>3
<1> QED
  BY <1>5, <1>6, <1>7, <1>8, <1>9 DEF PeerStep

(* Closing one's own writing does not end the reading.                     *)
LEMMA CloseWriteToOther ==
  ASSUME InboundTypeOK, NEW q \in Sides, CloseWriteTo(q)
  PROVE  eof'[Other(q)] = eof[Other(q)]
BY SidesFacts DEF CloseWriteTo, InboundTypeOK, TypeOK

(* A copier is done when it has copied everything, or is of no use.        *)
LEMMA EndCopierStep ==
  ASSUME InboundTypeOK, StageInv, NEW q \in Sides, EndInv(q),
         NEW r \in Sides, CopierStep(r), buffered' = buffered
  PROVE  EndInv(q)'
<1>1. /\ r = q \/ r = Other(q)
      /\ Other(q) \in Sides /\ Other(q) # q /\ Other(Other(q)) = q
      /\ r # q => (q = "src" => r # "src")
  BY SidesFacts
<1>2. /\ inbound \in [Sides -> Seq(1 .. MaxBytes)]
      /\ outbound \in [Sides -> Seq(1 .. MaxBytes)]
      /\ copier \in [Sides -> {"idle", "copying", "done"}]
      /\ copier[r] = "copying"
  BY DEF InboundTypeOK, TypeOK, CopierStep, Copy, CopyEnds, CopyFails
<1>3. /\ UNCHANGED <<sending, sawEnd>>
      /\ NoReset' <=> NoReset
      /\ Deaf(Other(q))' <=> Deaf(Other(q))
  <2>1. UNCHANGED <<sending, sawEnd>>
    BY DEF CopierStep, Copy, CopyEnds, CopyFails, peerVars
  <2> QED
    BY <2>1 DEF NoReset, Deaf
<1>4. CASE r = Other(q)
  <2>1. /\ copier'[q] = copier[q]
        /\ inbound'[q] = inbound[q]
        /\ outbound'[Other(q)] = outbound[Other(q)]
    BY <1>1, <1>2, <1>4 DEF CopierStep, Copy, CopyEnds, CopyFails
  <2>2. q = "src" => preload' = preload
    BY <1>1, <1>4 DEF CopierStep, Copy, CopyEnds, CopyFails, FromPreload
  <2>3. eof'[Other(q)] = eof[Other(q)]
    BY <1>1, <1>4, CloseWriteToOther DEF CopierStep, Copy, CopyEnds, CopyFails
  <2>4. Drained(q)' <=> Drained(q)
    BY <1>3, <2>1, <2>2 DEF Drained, Ended, Held
  <2> QED
    BY <1>3, <2>1, <2>3, <2>4, EndFrame
<1>5. CASE r = q
  <2>1. ASSUME NEW n \in 1 .. MaxBytes, Copy(q, n) PROVE EndInv(q)'
    BY <1>2, <1>3, <1>5, <2>1, EndFrame DEF Copy
  <2>2. ~ (sawEnd'[Other(q)] /\ NoReset')
    BY <1>2, <1>3, <1>5 DEF EndInv
  <2>3. ASSUME copier' = [copier EXCEPT ![q] = "done"],
               NoReset => Drained(q)' \/ Deaf(Other(q))'
        PROVE  EndInv(q)'
    BY <1>2, <1>3, <2>2, <2>3 DEF EndInv
  <2>4. CASE CopyEnds(q)
    <3>1. /\ Readable(q) = <<>> /\ Ended(q) /\ Ended(q)'
          /\ UNCHANGED <<preload, inbound>>
      BY <1>3, <2>4 DEF CopyEnds, Ended
    <3>2. /\ inbound[q] = <<>>
          /\ q = "src" => preload = <<>>
      BY <3>1 DEF Readable, FromPreload
    <3>3. buffered = <<>>
      BY <1>2, <1>5 DEF StageInv
    <3>4. Held(q) = 0 /\ Held(q)' = Held(q)
      BY <3>1, <3>2, <3>3, NothingHeld DEF Held
    <3> QED
      BY <2>3, <2>4, <3>1, <3>2, <3>4 DEF CopyEnds, Drained
  <2>5. CASE CopyFails(q)
    BY <1>3, <2>3, <2>5 DEF CopyFails, NoReset
  <2> QED
    BY <1>5, <2>1, <2>4, <2>5 DEF CopierStep
<1> QED
  BY <1>1, <1>4, <1>5

(* The loop closes its end of the pipe, which nobody shows an end.         *)
LEMMA EndLoopCloses ==
  ASSUME InboundTypeOK, ProtocolInv, NEW q \in Sides, EndInv(q), LoopCloses,
         buffered' = buffered
  PROVE  EndInv(q)'
<1>1. /\ sending'["src"] = "closed" /\ sending["src"] # "reset"
      /\ sending'["dst"] = sending["dst"]
      /\ inbound'["src"] = <<>> /\ inbound'["dst"] = inbound["dst"]
      /\ outbound'["dst"] = outbound["dst"]
      /\ ~ sawEnd["src"]
      /\ UNCHANGED <<preload, eof, sawEnd, copier>>
  BY DEF LoopCloses, EndLoopHaving, ProtocolInv, Tunnel, InboundTypeOK, TypeOK,
     Sides
<1>2. /\ Other("src") = "dst" /\ Other("dst") = "src"
      /\ q = "src" \/ q = "dst"
  BY DEF Other, Sides
<1>3. NoReset' => NoReset
  BY <1>1 DEF NoReset, Sides
<1>4. Drained(q) => Drained(q)'
  BY <1>1, <1>2 DEF Drained, Ended, Held
<1>5. Deaf(Other(q)) => Deaf(Other(q))'
  BY <1>1, <1>2 DEF Deaf
<1>6. sawEnd[Other(q)] => /\ outbound'[Other(q)] = outbound[Other(q)]
                          /\ Deaf(Other(q))' => Deaf(Other(q))
  BY <1>1, <1>2 DEF Deaf
<1> QED
  BY <1>1, <1>3, <1>4, <1>5, <1>6, EndFrame

(* Every step keeps what is known of the ends.                             *)
LEMMA EndPreserved ==
  ASSUME InboundTypeOK, StageInv, ProtocolInv, [InboundNext]_inboundVars,
         NEW q \in Sides, EndInv(q)
  PROVE  EndInv(q)'
<1>1. ASSUME UNCHANGED <<vars, buffered>> PROVE EndInv(q)'
  BY <1>1, EndFrame
  DEF vars, peerVars, NoReset, Drained, Ended, Held, Deaf
<1>2. phase \in {"negotiate", "dial"} =>
        copier[q] = "idle" /\ ~ eof[Other(q)] /\ ~ sawEnd[Other(q)]
  BY SidesFacts DEF StageInv
<1>3. CASE Negotiate
  <2>1. ASSUME phase = "negotiate", copier' = copier PROVE EndInv(q)'
    BY <1>2, <2>1, EndIdle
  <2> QED
    BY <1>1, <1>3, <2>1, NegotiateSteps
    DEF CloseClient, ReadAhead, CallForwardTCP, Step
<1>4. CASE LoopStep
  <2>1. buffered' = buffered
    BY <1>4, LoopSteps DEF negotiationVars
  <2>2. CASE LoopPeerStep
    BY <2>1, <2>2, EndPeerStep, SidesFacts DEF LoopPeerStep, PeerStep
  <2> QED
    BY <1>1, <1>4, <2>1, <2>2, LoopSteps, EndLoopCloses
<1>5. CASE ClientLeaves
  BY <1>1, <1>5 DEF ClientLeaves, negotiationVars
<1>6. CASE RelayStep
  <2>1. buffered' = buffered
    BY <1>6 DEF RelayStep, negotiationVars
  <2>2. CASE Cancel
    BY <2>1, <2>2, EndFrame
    DEF Cancel, peerVars, NoReset, Drained, Ended, Held, Deaf
  <2>3. CASE GiveUp
    BY <1>2, <2>3, EndIdle DEF GiveUp
  <2>4. CASE StartPipe
    BY <1>2, <2>4 DEF StartPipe, peerVars, EndInv
  <2>5. CASE CloseBoth
    BY <2>1, <2>5, EndFrame, SidesFacts
    DEF CloseBoth, peerVars, NoReset, Drained, Ended, Held, Deaf
  <2> QED
    BY <1>6, <2>1, <2>2, <2>3, <2>4, <2>5, EndPeerStep, EndCopierStep,
       SidesFacts DEF RelayStep
<1>7. CASE UNCHANGED inboundVars
  BY <1>1, <1>7 DEF inboundVars, negotiationVars
<1> QED
  BY <1>3, <1>4, <1>5, <1>6, <1>7 DEF InboundNext

----------------------------------------------------------------------------
(* The theorems.                                                           *)

(* A connection is accepted, or a carrier hands one over.                  *)
LEMMA InitEstablishes ==
  ASSUME InboundInit
  PROVE  IInv
<1> USE RelayAssumption, InboundAssumption
<1>1. PICK n \in 0 .. Preloaded :
        /\ InitAfterReading(n)
        /\ \/ /\ protocol = "carrier" /\ stage = "forward" /\ phase = "dial"
           \/ /\ protocol = "unknown" /\ stage = "firstByte"
              /\ phase = "negotiate" /\ n = 0
  BY DEF InboundInit
<1>2. n \in Nat /\ MaxBytes \in Nat /\ n <= MaxBytes
  OBVIOUS
<1>3. /\ preload \in Seq(1 .. MaxBytes) /\ Len(preload) = n
      /\ Continues(preload, 0)
      /\ n = 0 => preload = <<>>
  <2>1. preload = Bytes(1, n)
    BY <1>1 DEF InitAfterReading
  <2>2. n = 0 => Bytes(1, n) = <<>>
    BY <1>2, FirstBytes, EmptySeq
  <2> QED
    BY <1>2, <2>1, <2>2, FirstBytes
<1>4. /\ request = NoHost /\ target = NoAddress /\ presented = NoCredentials
      /\ replied = None /\ buffered = <<>>
      /\ client = "open" /\ loop = "idle"
      /\ authInfo \in AuthInfos
      /\ protocol = "unknown" => authInfo \in AuthInfos
  BY DEF InboundInit
<1>5. /\ setup \in AllSetups
      /\ cancelled = FALSE /\ headerSent = FALSE
      /\ sent = [p \in Sides |-> IF p = "src" THEN n ELSE 0]
      /\ sending = [p \in Sides |-> "open"]
      /\ inbound = [p \in Sides |-> <<>>]
      /\ outbound = [p \in Sides |-> <<>>]
      /\ eof = [p \in Sides |-> FALSE]
      /\ got = [p \in Sides |-> <<>>]
      /\ sawEnd = [p \in Sides |-> FALSE]
      /\ copier = [p \in Sides |-> "idle"]
  BY <1>1 DEF InitAfterReading
<1>6. /\ <<>> \in Seq(1 .. MaxBytes) /\ Len(<<>>) = 0
  BY EmptySeq
<1>7. TypeOK
  <2>1. sent \in [Sides -> 0 .. MaxBytes]
    BY <1>2, <1>5
  <2>2. phase \in {"negotiate", "dial", "pipe", "closed"}
    BY <1>1
  <2>3. \A p \in Sides : Len(outbound[p]) <= Capacity
    BY <1>5, <1>6
  <2> QED
    BY <1>3, <1>5, <1>6, <2>1, <2>2, <2>3 DEF TypeOK
<1>8. InboundTypeOK
  BY <1>1, <1>4, <1>6, <1>7, AddressTypes
  DEF InboundTypeOK, Protocols, Stages, Replies, LoopStates
<1>9. StageInv
  BY <1>1, <1>3, <1>4, <1>5 DEF StageInv
<1>10. ProtocolInv
  BY <1>1, <1>4, <1>5, SidesFacts DEF ProtocolInv, Tunnel
<1>11. NegotiatedInv
  BY <1>1 DEF NegotiatedInv
<1>12. ASSUME NEW q \in Sides PROVE FlowInv(q)
  <2>1. /\ Other(q) \in Sides
        /\ got[Other(q)] = <<>> /\ outbound[Other(q)] = <<>>
        /\ inbound[q] = <<>>
        /\ sent[q] = IF q = "src" THEN n ELSE 0
    BY <1>5, <1>12, SidesFacts
  <2>2. Passed(q) = 0
    BY <1>6, <2>1 DEF Passed
  <2>3. Held(q) = sent[q]
    BY <1>2, <1>3, <1>4, <1>6, <2>1 DEF Held
  <2>4. sent[q] \in Nat
    BY <1>2, <2>1
  <2> QED
    BY <1>3, <1>4, <1>6, <2>1, <2>2, <2>3, <2>4, EmptyContinues DEF FlowInv
<1>13. ASSUME NEW q \in Sides PROVE EndInv(q)
  BY <1>5, <1>13 DEF EndInv
<1> QED
  BY <1>8, <1>9, <1>10, <1>11, <1>12, <1>13 DEF IInv

(* IInv is an invariant of the connection from its first byte.             *)
LEMMA IInvInvariant == InboundSpec => []IInv
<1>1. ASSUME IInv, [InboundNext]_inboundVars PROVE IInv'
  <2>1. /\ InboundTypeOK /\ NegotiationInv
        /\ \A q \in Sides : FlowInv(q) /\ EndInv(q)
    BY <1>1 DEF IInv, NegotiationInv
  <2>2. InboundTypeOK'
    BY <1>1, <2>1, TypePreserved, SidesFacts
  <2>3. NegotiationInv'
    BY <1>1, <2>1, NegotiationPreserved
  <2>4. \A q \in Sides : FlowInv(q)' /\ EndInv(q)'
    BY <1>1, <2>1, FlowPreserved, EndPreserved DEF NegotiationInv
  <2> QED
    BY <2>2, <2>3, <2>4 DEF IInv, NegotiationInv
<1> QED
  BY <1>1, InitEstablishes, PTL DEF InboundSpec

(* The connection and its negotiation keep their types, for any bounds:    *)
(* the copiers never put more in flight than there is room for.            *)
THEOREM TypeCorrect == InboundSpec => []InboundTypeOK
<1>1. IInv => InboundTypeOK
  BY DEF IInv
<1> QED
  BY <1>1, IInvInvariant, PTL

(* Pipe and the loop of plain requests: each side reads the other's bytes  *)
(* in order, none twice and none left out, whatever was read before the    *)
(* forwarding, and an end only after the last of them.                     *)
THEOREM NoEndBeforeLastByte == InboundSpec => []EndAfterAllBytes
<1>1. ASSUME IInv PROVE EndAfterAllBytes
  <2> SUFFICES ASSUME NEW p \in Sides
               PROVE  /\ got[p] = Bytes(1, Len(got[p]))
                      /\ Len(got[p]) <= sent[Other(p)]
                      /\ sawEnd[p] /\ NoReset /\ copier[Other(p)] # "idle" =>
                           /\ Ended(Other(p))
                           /\ Len(got[p]) = sent[Other(p)]
    BY DEF EndAfterAllBytes
  <2> DEFINE q == Other(p)
             a == Len(got[p])
             b == Len(outbound[p])
             c == Len(inbound[q])
  <2>1. q \in Sides /\ Other(q) = p
    BY SidesFacts
  <2>2. InboundTypeOK /\ FlowInv(q) /\ EndInv(q)
    BY <1>1, <2>1 DEF IInv
  <2>3. /\ a \in Nat /\ b \in Nat /\ c \in Nat /\ Held(q) \in Nat
        /\ sent[q] \in Nat /\ got[p] \in Seq(1 .. MaxBytes)
    BY <2>1, <2>2, Lengths, HeldIsNat DEF InboundTypeOK, TypeOK
  <2>4. /\ Continues(got[p], 0)
        /\ a + b + Held(q) + c <= sent[q]
        /\ ~ Deaf(p) /\ sending[q] # "reset" => a + b + Held(q) + c = sent[q]
    BY <2>1, <2>2 DEF FlowInv, Passed
  <2>5. got[p] = Bytes(1, Len(got[p]))
    BY <2>3, <2>4, ContinuesNothing
  <2>6. ASSUME sawEnd[p], NoReset, copier[q] # "idle"
        PROVE  /\ Ended(q) /\ Held(q) = 0 /\ inbound[q] = <<>>
               /\ outbound[p] = <<>> /\ ~ Deaf(p) /\ sending[q] # "reset"
    BY <2>1, <2>2, <2>6 DEF EndInv, Drained, NoReset
  <2>7. ASSUME sawEnd[p], NoReset, copier[q] # "idle"
        PROVE  b = 0 /\ c = 0
    BY <2>6, <2>7, EmptySeq
  <2> HIDE DEF a, b, c, q
  <2>8. /\ a <= sent[q]
        /\ sawEnd[p] /\ NoReset /\ copier[q] # "idle" =>
             Ended(q) /\ a = sent[q]
    BY <2>3, <2>4, <2>6, <2>7
  <2> QED
    BY <2>5, <2>8 DEF a, q
<1> QED
  BY <1>1, IInvInvariant, PTL

(* ForwardTCP is called for a client only behind the reply, the            *)
(* credentials and the address of its protocol, for any spelling of any    *)
(* target and whatever it presents (ServeConnect, ServePlain).             *)
THEOREM OnlyNegotiatedIsForwarded == InboundSpec => ForwardedAsNegotiated
<1> DEFINE Right ==
       /\ replied' = CASE protocol = "socks" -> "succeeded"
                      [] protocol = "connect" -> "200"
                      [] protocol = "plain" -> None
       /\ ~ IsEmpty(authInfo) => presented = authInfo
       /\ protocol # "plain" => request.port = "good"
       /\ target.port = IF request.port = "none" THEN "default" ELSE "named"
       /\ CASE request.name = "v6" -> target.type = "IPv6"
            [] request.name = "v4" /\ ~ request.bracket
                 -> target.type = "IPv4"
            [] request.name \in {"domain", "junk"} -> target.type = "Domain"
            [] OTHER -> TRUE
<1>1. ASSUME IInv, InboundNext, phase = "negotiate", phase' = "dial"
      PROVE  Right
  <2>1. ServeConnect \/ ServePlain
    <3>1. CASE Negotiate
      <4>1. ASSUME NEW reply, Reject(reply) PROVE FALSE
        BY <1>1, <4>1 DEF Reject, CloseClient
      <4>2. ASSUME UNCHANGED vars PROVE FALSE
        BY <1>1, <4>2 DEF vars
      <4> QED
        BY <1>1, <3>1, <4>1, <4>2
        DEF Negotiate, NegotiationFails, ServeFirstByte, ClientHello,
            ClientAuthentication, ClientConnection, ReadRequest, ResolveTarget,
            CheckProxyAuthorization
    <3>2. CASE LoopStep
      BY <1>1, <3>2, LoopSteps
      DEF LoopPeerStep, LoopCloses, PeerSend, PeerRead, EndLoopHaving, vars
    <3>3. CASE ClientLeaves
      BY <1>1, <3>3 DEF ClientLeaves, vars
    <3>4. CASE RelayStep
      BY <1>1, <3>4
      DEF RelayStep, Cancel, GiveUp, StartPipe, CloseBoth, PeerStep, PeerSend,
          PeerFinish, PeerReset, PeerRead, PeerSeesEnd, CopierStep, Copy,
          CopyEnds, CopyFails
    <3> QED
      BY <1>1, <3>1, <3>2, <3>3, <3>4 DEF InboundNext
  <2>2. stage = "reply"
    BY <2>1 DEF ServeConnect, ServePlain, CallForwardTCP, Step
  <2>3. Entitled /\ TargetAsRequested
    BY <1>1, <2>2 DEF IInv, NegotiatedInv
  <2>4. replied' = CASE protocol = "socks" -> "succeeded"
                     [] protocol = "connect" -> "200"
                     [] protocol = "plain" -> None
    BY <1>1, <2>1 DEF ServeConnect, ServePlain, IInv, ProtocolInv
  <2> QED
    BY <2>3, <2>4 DEF Entitled, TargetAsRequested
<1> HIDE DEF Right
<1>2. IInv /\ [InboundNext]_inboundVars =>
        [phase = "negotiate" /\ phase' = "dial" => Right]_inboundVars
  BY <1>1 DEF inboundVars, vars
<1>3. InboundSpec => [][phase = "negotiate" /\ phase' = "dial"
                          => Right]_inboundVars
  BY <1>2, IInvInvariant, PTL DEF InboundSpec
<1> QED
  BY <1>3 DEF ForwardedAsNegotiated, Right

=============================================================================
