---------------------------- MODULE SunnyClient ----------------------------
(***************************************************************************)
(* The SunnyQUIC client (transport/sq_carrier/client.go): concurrent       *)
(* DialTCP calls that share one cached QUIC connection, which the first of *)
(* them dials with 0-RTT and authenticates.                                *)
(*                                                                         *)
(* The QUIC connection is external.  Until its handshake completes, data   *)
(* is sent as early data; the server accepts all of it or rejects all of   *)
(* it.  After a rejection what was sent is gone, and opening a stream      *)
(* fails with Err0RTTRejected until NextConnection was called.             *)
(***************************************************************************)
EXTENDS Integers, FiniteSets

CONSTANTS
  Callers,      \* DialTCP calls
  MaxConns,     \* bound: QUIC connections dialed in a behaviour
  MaxStreams    \* streams the server lets a connection have

ASSUME SunnyClientAssumption ==
  /\ MaxConns \in Nat \ {0} /\ MaxStreams \in Nat \ {0}
  /\ IsFiniteSet(Callers) /\ "free" \notin Callers

Conns == 1 .. MaxConns
None == 0

VARIABLES
  lock,       \* quicConnMutex: its holder, or "free"
  quicConn,   \* the cached connection, or None
  dialed,     \* connections dialed so far
  conn,       \* per connection: its state, see ConnStates
  caller      \* per call: where it stands and what it has seen

vars == <<lock, quicConn, dialed, conn, caller>>

(* alive: Context() is not done.  handshake: HandshakeComplete() is        *)
(* closed, having accepted or rejected the early data.  reset: there was a *)
(* rejection and NextConnection was not called yet.  auth: what became of  *)
(* the authentication command.  streams: proxied streams opened.           *)
ConnStates ==
  [alive: BOOLEAN, handshake: {"pending", "accepted", "rejected"},
   reset: BOOLEAN, auth: {"unsent", "early", "sent", "lost"},
   streams: 0 .. MaxStreams]

PCs == {"idle", "lock", "check", "dial", "sample", "sendAuth", "handshake",
        "nextConnection", "resendAuth", "abort", "stream", "open", "failed"}

CallerStates ==
  [pc: PCs, conn: Conns \cup {None}, cancelled: BOOLEAN,
   sentAs0RTT: BOOLEAN, rtt0Rejected: BOOLEAN]

TypeOK ==
  /\ lock \in Callers \cup {"free"}
  /\ quicConn \in Conns \cup {None}
  /\ dialed \in 0 .. MaxConns
  /\ conn \in [Conns -> ConnStates]
  /\ caller \in [Callers -> CallerStates]

NewCaller ==
  [pc |-> "idle", conn |-> None, cancelled |-> FALSE, sentAs0RTT |-> FALSE,
   rtt0Rejected |-> FALSE]

Init ==
  /\ lock = "free" /\ quicConn = None /\ dialed = 0
  /\ conn = [c \in Conns |->
               [alive |-> FALSE, handshake |-> "pending", reset |-> FALSE,
                auth |-> "unsent", streams |-> 0]]
  /\ caller = [k \in Callers |-> NewCaller]

----------------------------------------------------------------------------

At(k, pc) == caller[k].pc = pc

ConnOf(k) == conn[caller[k].conn]

Goto(k, pc) == caller' = [caller EXCEPT ![k].pc = pc]

(* getQUICConn returns: the deferred Unlock.  The local variables of       *)
(* authenticate are gone, and nothing behind it looks at the context.      *)
Unlock(k, pc, c) ==
  /\ lock' = "free"
  /\ caller' = [caller EXCEPT ![k] = [NewCaller EXCEPT !.pc = pc, !.conn = c]]

----------------------------------------------------------------------------
(* The QUIC connection and the contexts of the calls (external).           *)

(* Early data is delivered or discarded when the handshake completes; a    *)
(* connection that was resumed may have its early data rejected.           *)
HandshakeCompletes(c, outcome) ==
  /\ conn[c].alive /\ conn[c].handshake = "pending"
  /\ conn' = [conn EXCEPT
       ![c].handshake = outcome,
       ![c].reset = (outcome = "rejected"),
       ![c].auth = CASE @ # "early" -> @
                     [] outcome = "accepted" -> "sent"
                     [] OTHER -> "lost"]
  /\ UNCHANGED <<lock, quicConn, dialed, caller>>

ConnDies(c) ==
  /\ conn[c].alive
  /\ conn' = [conn EXCEPT ![c].alive = FALSE]
  /\ UNCHANGED <<lock, quicConn, dialed, caller>>

(* A context that was done before shows in the first step that looks at it.*)
CancelCall(k) ==
  /\ ~ caller[k].cancelled /\ caller[k].pc \in {"handshake", "nextConnection"}
  /\ caller' = [caller EXCEPT ![k].cancelled = TRUE]
  /\ UNCHANGED <<lock, quicConn, dialed, conn>>

StreamEnds(k) ==
  /\ At(k, "open") /\ caller[k].conn # None
  /\ conn' = [conn EXCEPT ![caller[k].conn].streams = @ - 1]
  /\ caller' = [caller EXCEPT ![k].conn = None]
  /\ UNCHANGED <<lock, quicConn, dialed>>

----------------------------------------------------------------------------
(* getQUICConn.                                                            *)

Call(k) ==
  /\ At(k, "idle")
  /\ Goto(k, "lock")
  /\ UNCHANGED <<lock, quicConn, dialed, conn>>

Lock(k) ==
  /\ At(k, "lock") /\ lock = "free"
  /\ lock' = k
  /\ Goto(k, "check")
  /\ UNCHANGED <<quicConn, dialed, conn>>

CachedIsLive == quicConn # None /\ conn[quicConn].alive

UseCached(k) ==
  /\ At(k, "check") /\ CachedIsLive
  /\ Unlock(k, "stream", quicConn)
  /\ UNCHANGED <<quicConn, dialed, conn>>

DropCached(k) ==
  /\ At(k, "check") /\ ~ CachedIsLive
  /\ quicConn' = None
  /\ Goto(k, "dial")
  /\ UNCHANGED <<lock, dialed, conn>>

(* DialQUICEarly returns as soon as early data can be sent, or when the    *)
(* handshake of a connection that is not resumed is complete.              *)
DialQUICEarly(k) ==
  /\ At(k, "dial") /\ dialed < MaxConns
  /\ dialed' = dialed + 1
  /\ \E h \in {"pending", "accepted"} :
       conn' = [conn EXCEPT ![dialed + 1].alive = TRUE,
                            ![dialed + 1].handshake = h]
  /\ caller' = [caller EXCEPT ![k].pc = "sample", ![k].conn = dialed + 1]
  /\ UNCHANGED <<lock, quicConn>>

DialFails(k) ==
  /\ At(k, "dial")
  /\ Unlock(k, "failed", None)
  /\ UNCHANGED <<quicConn, dialed, conn>>

----------------------------------------------------------------------------
(* authenticate.                                                           *)

(* The first select.                                                       *)
SampleHandshake(k) ==
  /\ At(k, "sample")
  /\ caller' = [caller EXCEPT
       ![k].pc = "sendAuth",
       ![k].sentAs0RTT = (ConnOf(k).handshake = "pending")]
  /\ UNCHANGED <<lock, quicConn, dialed, conn>>

(* sendAuthenticationCommand: the fate of what it writes depends on what   *)
(* the connection is by now.                                               *)
AuthSent(c) ==
  conn' = [conn EXCEPT
    ![c].auth = IF conn[c].handshake = "pending" THEN "early" ELSE "sent"]

SendAuth(k) ==
  /\ At(k, "sendAuth")
  /\ \/ /\ ConnOf(k).alive /\ ~ ConnOf(k).reset
        /\ AuthSent(caller[k].conn)
        /\ Goto(k, "handshake")
     \/ /\ ConnOf(k).alive /\ ConnOf(k).reset
        /\ caller' = [caller EXCEPT ![k].pc = "handshake",
                                    ![k].rtt0Rejected = TRUE]
        /\ UNCHANGED conn
     \/ ~ ConnOf(k).alive /\ Goto(k, "abort") /\ UNCHANGED conn
  /\ UNCHANGED <<lock, quicConn, dialed>>

(* Mutated form: only a rejection that sending met is taken for one.       *)
RejectionMet(k) == caller[k].rtt0Rejected

(* The condition behind the second select.                                 *)
EarlyDataRejected(k) ==
  \/ caller[k].rtt0Rejected
  \/ caller[k].sentAs0RTT /\ ConnOf(k).handshake # "accepted"

(* authenticate and getQUICConn return nil: the connection is cached.      *)
CacheConn(k) ==
  /\ quicConn' = caller[k].conn
  /\ Unlock(k, "stream", caller[k].conn)

(* Mutated form: the end of the connection is not waited for.              *)
WaitHandshakeOnly(k) ==
  /\ At(k, "handshake")
  /\ \/ ConnOf(k).handshake # "pending" /\ ~ EarlyDataRejected(k)
          /\ CacheConn(k)
     \/ ConnOf(k).handshake # "pending" /\ EarlyDataRejected(k)
          /\ Goto(k, "nextConnection") /\ UNCHANGED <<lock, quicConn>>
     \/ caller[k].cancelled
          /\ Goto(k, "abort") /\ UNCHANGED <<lock, quicConn>>
  /\ UNCHANGED <<dialed, conn>>

(* The second select, which takes any case that is ready, and the decision *)
(* to send the command again.                                              *)
WaitHandshake(k) ==
  /\ At(k, "handshake")
  /\ \/ ConnOf(k).handshake # "pending" /\ ~ EarlyDataRejected(k)
          /\ CacheConn(k)
     \/ ConnOf(k).handshake # "pending" /\ EarlyDataRejected(k)
          /\ Goto(k, "nextConnection") /\ UNCHANGED <<lock, quicConn>>
     \/ (caller[k].cancelled \/ ~ ConnOf(k).alive)
          /\ Goto(k, "abort") /\ UNCHANGED <<lock, quicConn>>
  /\ UNCHANGED <<dialed, conn>>

NextConnection(k) ==
  /\ At(k, "nextConnection")
  /\ \/ /\ ConnOf(k).alive
        /\ conn' = [conn EXCEPT ![caller[k].conn].reset = FALSE]
        /\ Goto(k, "resendAuth")
     \/ (caller[k].cancelled \/ ~ ConnOf(k).alive)
          /\ Goto(k, "abort") /\ UNCHANGED conn
  /\ UNCHANGED <<lock, quicConn, dialed>>

ResendAuth(k) ==
  /\ At(k, "resendAuth")
  /\ \/ /\ ConnOf(k).alive
        /\ AuthSent(caller[k].conn)
        /\ CacheConn(k)
     \/ /\ ~ ConnOf(k).alive
        /\ Goto(k, "abort")
        /\ UNCHANGED <<lock, quicConn, conn>>
  /\ UNCHANGED dialed

(* Mutated form: a connection that failed to authenticate stays open.      *)
AbortLeavingOpen(k) ==
  /\ At(k, "abort")
  /\ Unlock(k, "failed", None)
  /\ UNCHANGED <<quicConn, dialed, conn>>

(* getQUICConn after an error of authenticate.                             *)
Abort(k) ==
  /\ At(k, "abort")
  /\ conn' = [conn EXCEPT ![caller[k].conn].alive = FALSE]
  /\ Unlock(k, "failed", None)
  /\ UNCHANGED <<quicConn, dialed>>

----------------------------------------------------------------------------
(* The rest of DialTCP.                                                    *)

(* OpenStream and sendTCPConnectCommand.                                   *)
OpenStream(k) ==
  /\ At(k, "stream") /\ ConnOf(k).alive
  /\ ConnOf(k).streams < MaxStreams
  /\ conn' = [conn EXCEPT ![caller[k].conn].streams = @ + 1]
  /\ Goto(k, "open")
  /\ UNCHANGED <<lock, quicConn, dialed>>

(* OpenStream does not wait for a free stream.                             *)
OpenStreamFails(k) ==
  /\ At(k, "stream") /\ (~ ConnOf(k).alive \/ ConnOf(k).streams = MaxStreams)
  /\ Goto(k, "failed")
  /\ UNCHANGED <<lock, quicConn, dialed, conn>>

----------------------------------------------------------------------------

DialTCP(k) ==
  \/ Lock(k)
  \/ UseCached(k)
  \/ DropCached(k)
  \/ DialQUICEarly(k)
  \/ DialFails(k)
  \/ SampleHandshake(k)
  \/ SendAuth(k)
  \/ WaitHandshake(k)
  \/ NextConnection(k)
  \/ ResendAuth(k)
  \/ Abort(k)
  \/ OpenStream(k)
  \/ OpenStreamFails(k)

HandshakeStep(c) ==
  \E outcome \in {"accepted", "rejected"} : HandshakeCompletes(c, outcome)

Next ==
  \/ \E k \in Callers : Call(k) \/ CancelCall(k) \/ DialTCP(k) \/ StreamEnds(k)
  \/ \E c \in Conns : HandshakeStep(c) \/ ConnDies(c)

(* Goroutines run when they can, and QUIC ends every handshake: it         *)
(* completes or times out.                                                 *)
Fairness ==
  /\ \A k \in Callers : WF_vars(DialTCP(k))
  /\ \A c \in Conns :
       WF_vars(HandshakeStep(c)
                 \/ (conn[c].handshake = "pending" /\ ConnDies(c)))

Spec == Init /\ [][Next]_vars /\ Fairness

----------------------------------------------------------------------------
(* Properties.                                                             *)

(* A connection is handed to callers only once the authentication command  *)
(* is on its way to the server past the handshake, whether the early data  *)
(* was accepted, rejected before it was sent or rejected behind it: else   *)
(* the server would drop every request on it after its timeout.            *)
HandedOutAuthenticated ==
  /\ quicConn # None =>
       conn[quicConn].handshake # "pending" /\ conn[quicConn].auth = "sent"
  /\ \A k \in Callers : At(k, "stream") => ConnOf(k).auth = "sent"

(* However calls interleave, all live requests share one connection: a     *)
(* second one is dialed only when the first is gone, and none that failed  *)
(* is left open.                                                           *)
OneLiveConn == Cardinality({c \in Conns : conn[c].alive}) <= 1

(* Every DialTCP call returns, with a stream or with an error, even when   *)
(* the connection it waits for dies: quicConnMutex is never kept.          *)
EveryCallReturns ==
  \A k \in Callers : At(k, "lock") ~> (At(k, "open") \/ At(k, "failed"))

============================================================================
