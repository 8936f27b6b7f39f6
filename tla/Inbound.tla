------------------------------ MODULE Inbound ------------------------------
(***************************************************************************)
(* A connection from its first byte: the HTTP and SOCKS server on one port *)
(* (transport/http_socks/server.go), the SOCKS5 negotiation                *)
(* (transport/socks/server.go), the HTTP proxy (transport/http/server.go), *)
(* the address of the target (transport/socket_addr.go), and then Relay.   *)
(* A connection accepted by a carrier's server enters at Relay.            *)
(*                                                                         *)
(* After CONNECT, in SOCKS or HTTP, Relay's source is the client.  For any *)
(* other HTTP method it is one end of a net.Pipe whose other end is held   *)
(* by a loop that writes a request of the client to it, reads the response *)
(* from it and writes that to the client; a byte stands for a request, and *)
(* for a response or a part of one.                                        *)
(***************************************************************************)
EXTENDS Relay

CONSTANTS
  CarrierSetups,                \* those of a carrier's server
  AuthInfos,                    \* the configured usernames and passwords
  Credentials,                  \* those a client presents
  Hosts                         \* the targets a client names

None == "none"

Credential == [username: STRING, password: STRING]

(* A target as it is spelled: in brackets or not, with what port.  "junk"  *)
(* is not an address but has colons.                                       *)
AllHosts ==
  [name: {"domain", "v4", "v6", "junk", "empty"}, bracket: BOOLEAN,
   port: {"none", "bad", "good"}]

ASSUME InboundAssumption ==
  /\ CarrierSetups \subseteq Setups
  /\ AuthInfos # {} /\ AuthInfos \subseteq Credential
  /\ Credentials \subseteq Credential
  /\ Hosts \subseteq AllHosts

(* What is not known yet, or no longer needed.                             *)
NoHost == [name |-> None, bracket |-> FALSE, port |-> None]
NoCredentials == [username |-> None, password |-> None]
NoAddress == [type |-> None, port |-> None]

Protocols == {"carrier", "unknown", "socks", "connect", "plain"}

Replies ==
  {None, "noAuth", "usernamePassword", "noAcceptableMethods", "authSuccess",
   "authFailure", "commandNotSupported", "succeeded", "400", "407", "200"}

Stages ==
  {"firstByte", "hello", "authRequest", "connectionRequest", "request",
   "address", "auth", "reply", "forward"}

LoopStates ==
  {"idle", "write", "writing", "head", "body", "next", "ended"}

VARIABLES
  authInfo,   \* Server.authInfo
  protocol,   \* what the client speaks
  stage,      \* the next step of the negotiation
  request,    \* the host it named, if known
  target,     \* its address, until ForwardTCP is called with it
  presented,  \* the credentials it presented
  replied,    \* the last reply of the negotiation
  buffered,   \* its bytes in the bufio.Reader, beyond the request
  client,     \* of a plain request: "open" or "gone"
  loop        \* of a plain request: the goroutine at the other end of the pipe

negotiationVars ==
  <<authInfo, protocol, stage, request, target, presented, replied, buffered>>
plainVars == <<client, loop>>
inboundVars == <<vars, negotiationVars, plainVars>>

InboundTypeOK ==
  /\ TypeOK
  /\ authInfo \in AuthInfos
  /\ protocol \in Protocols /\ stage \in Stages
  /\ request \in Hosts \cup {NoHost}
  /\ presented \in Credentials \cup {NoCredentials}
  /\ target \in [type: {None, "IPv4", "IPv6", "Domain"},
                 port: {None, "default", "named"}]
  /\ replied \in Replies
  /\ buffered \in Seq(1 .. MaxBytes)
  /\ client \in {"open", "gone"} /\ loop \in LoopStates

(* A carrier's server calls ForwardTCP at once, with what it has read.     *)
InboundInit ==
  /\ \/ /\ protocol = "carrier" /\ stage = "forward" /\ phase = "dial"
        /\ authInfo = CHOOSE a \in AuthInfos : TRUE
        /\ \E n \in 0 .. Preloaded : InitAfterReading(n)
        /\ setup \in CarrierSetups
     \/ /\ protocol = "unknown" /\ stage = "firstByte" /\ phase = "negotiate"
        /\ authInfo \in AuthInfos
        /\ InitAfterReading(0) /\ setup.srcHalfClose
  /\ request = NoHost /\ target = NoAddress /\ presented = NoCredentials
  /\ replied = None
  /\ buffered = <<>>
  /\ client = "open" /\ loop = "idle"

----------------------------------------------------------------------------
(* The address of the target.                                              *)

(* netip.ParseAddr decides between an address and a domain.                *)
ToAddr(host, port) ==
  [type |-> IF host.bracket \/ host.name \notin {"v4", "v6"} THEN "Domain"
            ELSE IF host.name = "v4" THEN "IPv4" ELSE "IPv6",
   port |-> port]

Unbracketed(host) == [host EXCEPT !.bracket = FALSE]

(* The address of a SOCKS request comes with its type.                     *)
ReadAddressWithType(host) == ToAddr(Unbracketed(host), "named")

HasColon(host) == host.name \in {"v6", "junk"} \/ host.port # "none"

(* net.SplitHostPort: a name with colons needs brackets, a port is a must. *)
SplitHostPort(host) ==
  IF host.port = "none" \/ (host.name \in {"v6", "junk"} /\ ~ host.bracket)
    THEN NoAddress
  ELSE IF host.port = "bad" THEN NoAddress
  ELSE ToAddr(Unbracketed(host), "named")

(* There is nothing before the port; an empty pair of brackets is a name.  *)
NoName(host) == host.name = "empty" /\ ~ host.bracket

ToSocketAddr(host, requirePort) ==
  CASE NoName(host) -> NoAddress
    [] ~ NoName(host) /\ ~ requirePort /\ ~ HasColon(host)
         -> ToAddr(host, "default")
    [] ~ NoName(host) /\ ~ requirePort /\ HasColon(host)
       /\ host.bracket /\ host.port = "none"
         -> ToAddr(Unbracketed(host), "default")
    [] OTHER -> SplitHostPort(host)

----------------------------------------------------------------------------
(* Negotiation.                                                            *)

IsEmpty(info) == info.username = "" /\ info.password = ""

(* Mutated form: one of the two comparisons is enough.                     *)
NotEqualBoth(info, creds) ==
  info.username # creds.username /\ info.password # creds.password

NotEqual(info, creds) ==
  info.username # creds.username \/ info.password # creds.password

(* The handler has returned and connHandler closes the connection.         *)
CloseClient ==
  /\ phase' = "closed"
  /\ eof' = [eof EXCEPT !["src"] = TRUE]
  /\ UNCHANGED <<setup, cancelled, headerSent, peerVars, preload, inbound,
                 outbound, copier>>

Reject(reply) ==
  /\ replied' = reply
  /\ CloseClient
  /\ UNCHANGED <<authInfo, protocol, stage, request, target, presented,
                 buffered, plainVars>>

(* A reading or writing call fails because the client has ended.           *)
NegotiationFails ==
  /\ phase = "negotiate"
  /\ sending["src"] # "open" \/ client = "gone"
  /\ Reject(replied)

Step(from, to) ==
  /\ phase = "negotiate" /\ stage = from
  /\ stage' = to

ServeFirstByte ==
  \/ /\ Step("firstByte", "hello") /\ protocol' = "socks"
     /\ UNCHANGED <<authInfo, request, target, presented, replied, buffered,
                    plainVars, vars>>
  \/ /\ Step("firstByte", "request") /\ protocol' \in {"connect", "plain"}
     /\ UNCHANGED <<authInfo, request, target, presented, replied, buffered,
                    plainVars, vars>>
  \/ /\ phase = "negotiate" /\ stage = "firstByte"      \* none, or SOCKS4
     /\ Reject(None)

ClientHello(methods) ==
  \/ /\ IsEmpty(authInfo) /\ "noAuth" \in methods
     /\ Step("hello", "connectionRequest")
     /\ replied' = "noAuth"
     /\ UNCHANGED <<authInfo, protocol, request, target, presented, buffered,
                    plainVars, vars>>
  \/ /\ ~ IsEmpty(authInfo) /\ "usernamePassword" \in methods
     /\ Step("hello", "authRequest")
     /\ replied' = "usernamePassword"
     /\ UNCHANGED <<authInfo, protocol, request, target, presented, buffered,
                    plainVars, vars>>
  \/ /\ phase = "negotiate" /\ stage = "hello"
     /\ (IF IsEmpty(authInfo) THEN "noAuth" ELSE "usernamePassword")
          \notin methods
     /\ Reject("noAcceptableMethods")

(* The version of the authentication request may be wrong.                 *)
ClientAuthentication(creds) ==
  \/ /\ Step("authRequest", "connectionRequest")
     /\ ~ NotEqual(authInfo, creds)
     /\ presented' = creds /\ replied' = "authSuccess"
     /\ UNCHANGED <<authInfo, protocol, request, target, buffered, plainVars,
                    vars>>
  \/ /\ phase = "negotiate" /\ stage = "authRequest"
     /\ \/ NotEqual(authInfo, creds) /\ Reject("authFailure")
        \/ Reject(replied)

(* A version, a command, an address type and the address: any string is a  *)
(* domain, and there is always a port.                                     *)
ClientConnection(host) ==
  \/ /\ Step("connectionRequest", "reply")
     /\ host.port = "good"
     /\ request' = host
     /\ target' = ReadAddressWithType(host)
     /\ UNCHANGED <<authInfo, protocol, presented, replied, buffered,
                    plainVars, vars>>
  \/ /\ phase = "negotiate" /\ stage = "connectionRequest"
     /\ Reject("commandNotSupported") \/ Reject(replied)

(* readRequest; the bufio.Reader may have read n bytes beyond it.          *)
ReadRequest(host, creds, n) ==
  \/ /\ Step("request", "address")
     /\ request' = host /\ presented' = creds
     /\ n <= Len(inbound["src"])
     /\ buffered' = SubSeq(inbound["src"], 1, n)
     /\ inbound' = [inbound EXCEPT !["src"] = SubSeq(@, n + 1, Len(@))]
     /\ UNCHANGED <<authInfo, protocol, target, replied, plainVars, setup,
                    phase, cancelled, headerSent, peerVars, preload,
                    outbound, eof, copier>>
  \/ /\ phase = "negotiate" /\ stage = "request"        \* malformed
     /\ Reject(None)

ResolveTarget ==
  LET addr == ToSocketAddr(request, protocol = "connect")
  IN  \/ /\ Step("address", "auth")
         /\ addr # NoAddress
         /\ target' = addr
         /\ UNCHANGED <<authInfo, protocol, request, presented, replied,
                        buffered, plainVars, vars>>
      \/ /\ phase = "negotiate" /\ stage = "address" /\ addr = NoAddress
         /\ Reject("400")

Authorized ==
  IsEmpty(authInfo) \/ ~ NotEqual(authInfo, presented)

CheckProxyAuthorization ==
  \/ /\ Step("auth", "reply") /\ Authorized
     /\ UNCHANGED <<authInfo, protocol, request, target, presented, replied,
                    buffered, plainVars, vars>>
  \/ /\ phase = "negotiate" /\ stage = "auth" /\ ~ Authorized
     /\ Reject("407")

(* Mutated form: the bytes in the bufio.Reader are forgotten.              *)
ForwardWithoutBuffered ==
  /\ Step("reply", "forward")
  /\ phase' = "dial"
  /\ preload' = <<>> /\ buffered' = <<>>
  /\ request' = NoHost /\ target' = NoAddress /\ presented' = NoCredentials
  /\ UNCHANGED <<authInfo, protocol, client, cancelled, headerSent, peerVars,
                 inbound, outbound, eof, copier>>

CallForwardTCP ==
  /\ Step("reply", "forward")
  /\ phase' = "dial"
  /\ preload' = buffered /\ buffered' = <<>>
  /\ request' = NoHost /\ target' = NoAddress /\ presented' = NoCredentials
  /\ UNCHANGED <<authInfo, protocol, client, cancelled, headerSent, peerVars,
                 inbound, outbound, eof, copier>>

(* Success is reported before the target is dialled.                       *)
ServeConnect ==
  /\ protocol \in {"socks", "connect"}
  /\ CallForwardTCP
  /\ replied' = IF protocol = "socks" THEN "succeeded" ELSE "200"
  /\ UNCHANGED <<setup, loop>>

(* The source of ForwardTCP is a net.Pipe.                                 *)
ServePlain ==
  /\ protocol = "plain"
  /\ CallForwardTCP
  /\ setup' = [setup EXCEPT !.srcHalfClose = FALSE]
  /\ loop' = "write"
  /\ UNCHANGED replied

Negotiate ==
  \/ NegotiationFails
  \/ ServeFirstByte
  \/ \E methods \in SUBSET {"noAuth", "usernamePassword"} :
       ClientHello(methods)
  \/ \E creds \in Credentials : ClientAuthentication(creds)
  \/ \E host \in Hosts : ClientConnection(host)
  \/ \E host \in Hosts, creds \in Credentials \cup {NoCredentials}, n \in 0 .. MaxBytes :
       ReadRequest(host, creds, n)
  \/ ResolveTarget
  \/ CheckProxyAuthorization
  \/ ServeConnect
  \/ ServePlain

----------------------------------------------------------------------------
(* The loop that relays plain requests.                                    *)

LoopGoes(from, to) ==
  /\ loop = from /\ loop' = to
  /\ UNCHANGED <<negotiationVars, client>>

Running == loop \in {"write", "writing", "head", "body", "next"}

(* Mutated form: relayConn stays open.                                     *)
EndLoopOpen(read) ==
  /\ Running
  /\ loop' = "ended"
  /\ got' = [got EXCEPT !["src"] = @ \o read]
  /\ outbound' = [outbound EXCEPT !["src"] = <<>>]
  /\ UNCHANGED <<setup, phase, cancelled, headerSent, sent, sending, preload,
                 inbound, eof, sawEnd, copier, negotiationVars, client>>

(* relayConn.Close(); a request the copier has not read whole is not sent. *)
EndLoopHaving(read) ==
  /\ Running
  /\ loop' = "ended"
  /\ got' = [got EXCEPT !["src"] = @ \o read]
  /\ sent' = [sent EXCEPT !["src"] = @ - Len(inbound["src"])]
  /\ sending' = [sending EXCEPT !["src"] = "closed"]
  /\ inbound' = [inbound EXCEPT !["src"] = <<>>]
  /\ outbound' = [outbound EXCEPT !["src"] = <<>>]
  /\ UNCHANGED <<setup, phase, cancelled, headerSent, preload, eof,
                 sawEnd, copier, negotiationVars, client>>

EndLoop == EndLoopHaving(<<>>)

(* req.Write blocks until the copier has read the request.                 *)
WriteRequest ==
  \/ /\ LoopGoes("write", "writing")
     /\ ~ eof["src"] /\ PeerSend("src")
  \/ /\ LoopGoes("writing", "head")
     /\ inbound["src"] = <<>>
     /\ UNCHANGED vars

(* The other end of the pipe is closed, or the client leaves before it has *)
(* sent the whole request.                                                 *)
WriteRequestFails ==
  /\ loop \in {"write", "writing"}
  /\ eof["src"] \/ client = "gone"
  /\ EndLoop

(* A response is complete, or its end is the end of the connection.        *)
ReadResponse ==
  /\ LoopGoes("head", "next") \/ LoopGoes("head", "body")
  /\ PeerRead("src")

ReadBody == LoopGoes("body", "body") /\ PeerRead("src")

(* The complete response, or its request, said that nothing follows it.    *)
CloseAfterResponse ==
  /\ loop = "head" /\ outbound["src"] # <<>>
  /\ EndLoopHaving(<<Head(outbound["src"])>>)

WriteResponseFails ==
  /\ loop \in {"head", "body"} /\ outbound["src"] # <<>>
  /\ client = "gone" \/ phase = "closed"
  /\ EndLoop

(* The end of the pipe is the end of a body, or an unexpected one.         *)
ReadResponseEnds ==
  /\ loop \in {"head", "body"}
  /\ eof["src"] /\ outbound["src"] = <<>>
  /\ EndLoop

(* readRequest; connHandler closes the client after ForwardTCP.            *)
NextRequest ==
  \/ /\ LoopGoes("next", "write")
     /\ client = "open" /\ phase # "closed" /\ sent["src"] < MaxBytes
     /\ UNCHANGED vars
  \/ /\ loop = "next" /\ (client = "gone" \/ phase = "closed")
     /\ EndLoop

LoopStep ==
  \/ WriteRequest
  \/ WriteRequestFails
  \/ ReadResponse
  \/ ReadBody
  \/ CloseAfterResponse
  \/ WriteResponseFails
  \/ ReadResponseEnds
  \/ NextRequest

----------------------------------------------------------------------------

(* The client of a plain request (external) closes its connection.         *)
ClientLeaves ==
  /\ protocol = "plain" /\ client = "open"
  /\ client' = "gone"
  /\ UNCHANGED <<vars, negotiationVars, loop>>

(* Relay's source is the client itself.                                    *)
Tunnel == protocol \in {"carrier", "socks", "connect"}

RelayStep ==
  /\ \/ Cancel \/ GiveUp \/ StartPipe \/ CloseBoth
     \/ Tunnel /\ PeerStep("src")
     \/ PeerStep("dst")
     \/ \E p \in Sides : CopierStep(p)
  /\ UNCHANGED <<negotiationVars, plainVars>>

InboundNext ==
  \/ Negotiate
  \/ LoopStep
  \/ ClientLeaves
  \/ RelayStep

(* Goroutines run when they can, and a side reads what it is sent.  Nobody *)
(* need send anything or end, and a client is not timed out; if it ends,   *)
(* the reads of the negotiation fail.                                      *)
InboundFairness ==
  LET Alone(A) == A /\ UNCHANGED <<negotiationVars, plainVars>>
  IN  /\ WF_inboundVars(NegotiationFails)
      /\ WF_inboundVars(ResolveTarget \/ CheckProxyAuthorization
                          \/ ServeConnect \/ ServePlain)
      /\ WF_inboundVars(Alone(GiveUp \/ StartPipe))
      /\ WF_inboundVars(Alone(CloseBoth))
      /\ \A p \in Sides :
           /\ WF_inboundVars(Alone(CopierStep(p)))
           /\ WF_inboundVars(Alone(p = "dst" \/ Tunnel) /\ PeerRead(p))
           /\ WF_inboundVars(Alone(p = "dst" \/ Tunnel) /\ PeerSeesEnd(p))
      /\ WF_inboundVars(LoopStep /\ (loop = "next" => loop' = "ended"))

InboundSpec == InboundInit /\ [][InboundNext]_inboundVars /\ InboundFairness

----------------------------------------------------------------------------
(* Properties.                                                             *)

(* A client is forwarded only after the reply of its protocol that says so *)
(* (none for a plain request), only with the configured credentials if     *)
(* there are any, whichever way it took through the negotiation, and to    *)
(* the target it named: with the port it gave, which CONNECT must give,    *)
(* and as an address exactly if it named one.                              *)
ForwardedAsNegotiated ==
  [][phase = "negotiate" /\ phase' = "dial" =>
       /\ replied' = CASE protocol = "socks" -> "succeeded"
                      [] protocol = "connect" -> "200"
                      [] protocol = "plain" -> None
       /\ ~ IsEmpty(authInfo) => presented = authInfo
       /\ protocol # "plain" => request.port = "good"
       /\ target.port = IF request.port = "none" THEN "default" ELSE "named"
       /\ CASE request.name = "v6" -> target.type = "IPv6"
            [] request.name = "v4" /\ ~ request.bracket
                 -> target.type = "IPv4"
            [] request.name \in {"domain", "junk"} -> target.type = "Domain"
            [] OTHER -> TRUE]_inboundVars

(* Bytes a tunnelling client sends, before or after the negotiation is     *)
(* over, reach the target, and the target's bytes reach the client; a      *)
(* plain request reaches the target.  What a target sends to a plain       *)
(* request must be a response, so the loop may leave it unread.            *)
NegotiatedBytesReachOtherSide ==
  \A p \in Sides : \A n \in 1 .. MaxBytes :
    (phase = "pipe" /\ sent[p] >= n /\ (Tunnel \/ p = "src"))
      ~> (Len(got[Other(p)]) >= n \/ ~ NoReset \/ loop = "ended")

(* A client that leaves between two plain requests ends the forwarding     *)
(* towards the target, and the loop never outlives the forwarding.         *)
LoopEnds ==
  /\ (loop = "next" /\ client = "gone")
       ~> (phase = "closed" \/ eof["dst"] \/ ~ NoReset)
  /\ (Running /\ phase = "closed") ~> (loop = "ended")

(* "A tunnel is closed when a tunnel intermediary detects that either side *)
(* has closed its connection: the intermediary MUST attempt to send any    *)
(* outstanding data [...], close both connections" (the comment in         *)
(* Server.Serve): a response that lasts until the target closes is ended   *)
(* when the target has closed.                                             *)
ResponseEndsWithTarget ==
  (loop = "body" /\ phase = "pipe" /\ sending["dst"] = "finished")
    ~> (phase = "closed")

============================================================================
