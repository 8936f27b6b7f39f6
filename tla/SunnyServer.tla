---------------------------- MODULE SunnyServer ----------------------------
(***************************************************************************)
(* One QUIC connection of the SunnyQUIC server (transport/sq_carrier/      *)
(* server_quic_conn.go): the authentication timeout, the loop that accepts *)
(* streams and one goroutine per stream.  The peer is arbitrary: it opens  *)
(* any streams in any order, as early data or later, and may go away.      *)
(***************************************************************************)
EXTENDS Integers

CONSTANTS
  Streams,
  Kinds      \* what the peer may send on a stream

(* What the peer sends on a stream: the authentication command with the    *)
(* right hash, with a wrong or truncated one; the connect command with a   *)
(* good or a malformed address; another command; or nothing at all.        *)
StreamKinds ==
  {"auth", "badAuth", "connect", "badConnect", "unknown", "silent"}

ASSUME KindsAssumption == Kinds \subseteq StreamKinds

VARIABLES
  quicConn,   \* "open" or "closed": quicConn.Context()
  ctxDone,    \* serverQUICConn.ctx is done
  authDone,   \* the channel authDone is closed
  handshake,  \* HandshakeComplete() is closed
  timer,      \* handleAuthTimeout: "running" or "ended"
  accepting,  \* handleStreams is in its loop
  stream      \* per stream: what it carries and where its goroutine stands

serverVars ==
  <<quicConn, ctxDone, authDone, handshake, timer, accepting, stream>>

StreamPCs ==
  {"unopened", "arrived", "command", "auth", "waitAuth", "waitHandshake",
   "address", "dial", "forwarding", "done"}

ServerTypeOK ==
  /\ quicConn \in {"open", "closed"}
  /\ {ctxDone, authDone, handshake, accepting} \subseteq BOOLEAN
  /\ timer \in {"running", "ended"}
  /\ stream \in [Streams -> [pc: StreamPCs, kind: StreamKinds]]

ServerInit ==
  /\ quicConn = "open" /\ ctxDone = FALSE
  /\ authDone = FALSE /\ handshake = FALSE
  /\ timer = "running" /\ accepting = TRUE
  /\ stream = [s \in Streams |-> [pc |-> "unopened", kind |-> "silent"]]

----------------------------------------------------------------------------

At(s, pc) == stream[s].pc = pc

Kind(s) == stream[s].kind

Goto(s, pc) == stream' = [stream EXCEPT ![s].pc = pc]

(* Mutated form: the connection is closed but its context is not cancelled.*)
CloseQUICOnly == quicConn' = "closed" /\ UNCHANGED ctxDone

(* serverQUICConn.close.                                                   *)
Close == quicConn' = "closed" /\ ctxDone' = TRUE

----------------------------------------------------------------------------
(* The peer, the network and the listener (external).                      *)

PeerOpens(s, k) ==
  /\ At(s, "unopened") /\ quicConn = "open"
  /\ stream' = [stream EXCEPT ![s] = [pc |-> "arrived", kind |-> k]]
  /\ UNCHANGED <<quicConn, ctxDone, authDone, handshake, timer, accepting>>

HandshakeCompletes ==
  /\ ~ handshake /\ quicConn = "open"
  /\ handshake' = TRUE
  /\ UNCHANGED <<quicConn, ctxDone, authDone, timer, accepting, stream>>

(* The peer closes the connection, or it times out.                        *)
ConnectionEnds ==
  /\ quicConn = "open"
  /\ quicConn' = "closed"
  /\ UNCHANGED <<ctxDone, authDone, handshake, timer, accepting, stream>>

(* The listener's context is cancelled.                                    *)
Shutdown ==
  /\ ~ ctxDone
  /\ ctxDone' = TRUE
  /\ UNCHANGED <<quicConn, authDone, handshake, timer, accepting, stream>>

----------------------------------------------------------------------------
(* handleAuthTimeout.  The timer is created on entry to the select, so the *)
(* first event to happen is the one that is taken.                         *)

AuthTimeout ==
  /\ timer = "running" /\ ~ ctxDone /\ ~ authDone
  /\ timer' = "ended"
  /\ Close
  /\ UNCHANGED <<authDone, handshake, accepting, stream>>

(* Mutated form: the timer stops as soon as a stream was accepted.         *)
TimerStopsOnStream ==
  /\ timer = "running"
  /\ ctxDone \/ authDone \/ \E s \in Streams : At(s, "command")
  /\ timer' = "ended"
  /\ UNCHANGED <<quicConn, ctxDone, authDone, handshake, accepting, stream>>

TimerNotNeeded ==
  /\ timer = "running" /\ (ctxDone \/ authDone)
  /\ timer' = "ended"
  /\ UNCHANGED <<quicConn, ctxDone, authDone, handshake, accepting, stream>>

----------------------------------------------------------------------------
(* handleStreams and handleStream.                                         *)

AcceptStream(s) ==
  /\ accepting /\ At(s, "arrived") /\ quicConn = "open" /\ ~ ctxDone
  /\ Goto(s, "command")
  /\ UNCHANGED <<quicConn, ctxDone, authDone, handshake, timer, accepting>>

AcceptFails ==
  /\ accepting /\ (quicConn = "closed" \/ ctxDone)
  /\ accepting' = FALSE
  /\ UNCHANGED <<quicConn, ctxDone, authDone, handshake, timer, stream>>

(* The command byte: a silent stream gives none before the connection is   *)
(* closed.                                                                 *)
ReadCommand(s) ==
  /\ At(s, "command")
  /\ \/ quicConn = "closed" /\ Goto(s, "done")
     \/ Kind(s) \in {"auth", "badAuth"} /\ Goto(s, "auth")
     \/ Kind(s) \in {"connect", "badConnect"} /\ Goto(s, "waitAuth")
     \/ Kind(s) = "unknown" /\ Goto(s, "done")
  /\ UNCHANGED <<quicConn, ctxDone, authDone, handshake, timer, accepting>>

(* handleAuthCommand accepts the hash; authOnce makes a second one harmless.*)
AcceptAuth(s) ==
  /\ At(s, "auth") /\ Kind(s) = "auth"
  /\ authDone' = TRUE
  /\ Goto(s, "done")
  /\ UNCHANGED <<quicConn, ctxDone, handshake, timer, accepting>>

(* handleAuthCommand fails: a wrong hash, or the stream or the connection  *)
(* ended before all of it was read.                                        *)
RejectAuth(s) ==
  /\ At(s, "auth") /\ (Kind(s) = "badAuth" \/ quicConn = "closed")
  /\ Close
  /\ Goto(s, "done")
  /\ UNCHANGED <<authDone, handshake, timer, accepting>>

(* The first select of waitForAuthAndHandshake.                            *)
WaitForAuth(s) ==
  /\ At(s, "waitAuth")
  /\ \/ ctxDone /\ Goto(s, "done")
     \/ authDone /\ Goto(s, "waitHandshake")
  /\ UNCHANGED <<quicConn, ctxDone, authDone, handshake, timer, accepting>>

(* Mutated form: early data is not held back.                              *)
SkipHandshake(s) ==
  /\ At(s, "waitHandshake")
  /\ Goto(s, IF quicConn = "closed" THEN "done" ELSE "address")
  /\ UNCHANGED <<quicConn, ctxDone, authDone, handshake, timer, accepting>>

(* The second select of waitForAuthAndHandshake.                           *)
WaitForHandshake(s) ==
  /\ At(s, "waitHandshake")
  /\ \/ quicConn = "closed" /\ Goto(s, "done")
     \/ handshake /\ Goto(s, "address")
  /\ UNCHANGED <<quicConn, ctxDone, authDone, handshake, timer, accepting>>

(* handleTCPConnectCommand reads the address, ForwardTCP looks at ctx.     *)
ReadAddress(s) ==
  /\ At(s, "address")
  /\ IF Kind(s) = "badConnect" \/ quicConn = "closed" \/ ctxDone
       THEN Goto(s, "done")
       ELSE Goto(s, "dial")
  /\ UNCHANGED <<quicConn, ctxDone, authDone, handshake, timer, accepting>>

(* DialTCP returns; it fails at the latest when ctx is done.               *)
DialTarget(s) ==
  /\ At(s, "dial")
  /\ \/ Goto(s, "forwarding")
     \/ Goto(s, "done")
  /\ UNCHANGED <<quicConn, ctxDone, authDone, handshake, timer, accepting>>

(* Pipe returns; the stream is closed.                                     *)
ForwardingEnds(s) ==
  /\ At(s, "forwarding")
  /\ Goto(s, "done")
  /\ UNCHANGED <<quicConn, ctxDone, authDone, handshake, timer, accepting>>

HandleStream(s) ==
  \/ ReadCommand(s)
  \/ AcceptAuth(s)
  \/ RejectAuth(s)
  \/ WaitForAuth(s)
  \/ WaitForHandshake(s)
  \/ ReadAddress(s)
  \/ DialTarget(s)

ServerNext ==
  \/ \E s \in Streams, k \in Kinds : PeerOpens(s, k)
  \/ HandshakeCompletes
  \/ ConnectionEnds
  \/ Shutdown
  \/ AuthTimeout
  \/ TimerNotNeeded
  \/ AcceptFails
  \/ \E s \in Streams :
       AcceptStream(s) \/ HandleStream(s) \/ ForwardingEnds(s)

(* Goroutines run when they can, the timer fires, and QUIC completes its   *)
(* handshake or gives the connection up.                                   *)
Fairness ==
  /\ WF_serverVars(AuthTimeout)
  /\ WF_serverVars(TimerNotNeeded)
  /\ WF_serverVars(AcceptFails)
  /\ WF_serverVars(HandshakeCompletes \/ (~ handshake /\ ConnectionEnds))
  /\ \A s \in Streams :
       WF_serverVars(AcceptStream(s)) /\ WF_serverVars(HandleStream(s))

ServerSpec == ServerInit /\ [][ServerNext]_serverVars /\ Fairness

----------------------------------------------------------------------------
(* Properties.                                                             *)

(* No target is dialed for a peer that has not authenticated, nor on early *)
(* data, which can be replayed, before the handshake is complete, in       *)
(* whatever order the streams arrive.                                      *)
DialOnlyAuthenticated ==
  \A s \in Streams :
    stream[s].pc \in {"dial", "forwarding"} => authDone /\ handshake

(* Every connect request that was accepted is refused or forwarded: none   *)
(* waits forever for an authentication that never comes or on a connection *)
(* that is gone.                                                           *)
RequestsResolved ==
  \A s \in Streams :
    (stream[s].pc = "waitAuth") ~> (stream[s].pc \in {"forwarding", "done"})

(* A connection is authenticated or closed: a silent peer does not keep    *)
(* one open.                                                               *)
UnauthenticatedIsClosed == <>(authDone \/ quicConn = "closed" \/ ctxDone)

============================================================================
