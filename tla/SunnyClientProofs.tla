-------------------------- MODULE SunnyClientProofs --------------------------
(***************************************************************************)
(* Proofs, for any number of calls, connections and streams, that calls    *)
(* share one live connection and get it only authenticated, and that the   *)
(* streams of a connection are those of its calls.                         *)
(***************************************************************************)
EXTENDS SunnyClient, FiniteSetTheorems, TLAPS

(* From DialQUICEarly to the end of authenticate.                          *)
Authenticating ==
  {"sample", "sendAuth", "handshake", "nextConnection", "resendAuth", "abort"}

(* From Lock to Unlock in getQUICConn.                                     *)
Holding == {"check", "dial"} \cup Authenticating

Makes(k, c) == caller[k].pc \in Authenticating /\ caller[k].conn = c

(* A call between Lock and Unlock is the holder of quicConnMutex.          *)
MutexInv == \A k \in Callers : caller[k].pc \in Holding => lock = k

(* Connections are dialled in order; one that is not has no history.       *)
UndialedIsFresh ==
  \A c \in Conns : c > dialed =>
    /\ ~ conn[c].alive /\ conn[c].handshake = "pending"
    /\ conn[c].auth = "unsent" /\ ~ conn[c].reset

(* A connection is made only while none is cached.                         *)
NoneCachedWhileMaking ==
  \A k \in Callers :
    /\ caller[k].pc \in {"dial"} \cup Authenticating => quicConn = None
    /\ caller[k].pc \in Authenticating =>
         caller[k].conn \in Conns /\ caller[k].conn <= dialed

(* Whatever is alive is cached or is being made.                           *)
LiveIsKnown ==
  \A c \in Conns :
    conn[c].alive => c = quicConn \/ \E k \in Callers : Makes(k, c)

(* What authenticate knows of its connection at each of its steps.  In     *)
(* sendAuth a rejection that came before shows as reset.  Behind it, the   *)
(* command is on its way as early data or past the handshake, unless the   *)
(* early data was rejected, which rtt0Rejected or sentAs0RTT remember.     *)
AuthenticateInv ==
  \A k \in Callers :
    /\ caller[k].pc \in {"sample", "sendAuth"} =>
         (ConnOf(k).handshake = "rejected" => ConnOf(k).reset)
    /\ caller[k].pc \in {"sendAuth", "handshake"} =>
         (~ caller[k].sentAs0RTT => ConnOf(k).handshake # "pending")
    /\ caller[k].pc = "handshake" /\ ~ caller[k].rtt0Rejected =>
         /\ ConnOf(k).handshake = "pending" => ConnOf(k).auth = "early"
         /\ ConnOf(k).handshake = "accepted" => ConnOf(k).auth = "sent"
         /\ ConnOf(k).handshake = "rejected" => caller[k].sentAs0RTT
    /\ caller[k].pc \in {"nextConnection", "resendAuth"} =>
         ConnOf(k).handshake # "pending"

(* What was handed out is past its handshake, so that its authentication   *)
(* can no longer be lost with the early data.                              *)
HandedOut(c) == conn[c].handshake # "pending" /\ conn[c].auth = "sent"

HandedOutInv ==
  /\ quicConn # None => HandedOut(quicConn)
  /\ \A k \in Callers : caller[k].pc = "stream" =>
       caller[k].conn \in Conns /\ HandedOut(caller[k].conn)

(* The streams of a connection are those that calls have opened on it and  *)
(* not yet ended.                                                          *)
StreamsOn(c) ==
  {k \in Callers : caller[k].pc = "open" /\ caller[k].conn = c}

StreamsInv == \A c \in Conns : conn[c].streams = Cardinality(StreamsOn(c))

IInv ==
  /\ TypeOK
  /\ MutexInv
  /\ UndialedIsFresh
  /\ NoneCachedWhileMaking
  /\ LiveIsKnown
  /\ AuthenticateInv
  /\ HandedOutInv
  /\ StreamsInv

(* What an action that opens and ends no stream leaves as it was.          *)
NoStreamMoves ==
  /\ \A k \in Callers :
       /\ (caller[k].pc = "open") = (caller'[k].pc = "open")
       /\ caller[k].pc = "open" => caller'[k].conn = caller[k].conn
  /\ \A c \in Conns : conn'[c].streams = conn[c].streams

(* Such an action keeps the streams of every connection accounted for.     *)
LEMMA StreamsKept ==
  ASSUME StreamsInv, NoStreamMoves
  PROVE  StreamsInv'
<1>1. \A c \in Conns : StreamsOn(c)' = StreamsOn(c)
  BY DEF NoStreamMoves, StreamsOn
<1> QED
  BY <1>1 DEF StreamsInv, NoStreamMoves

(* The streams of a connection are finitely many, as the calls are.        *)
LEMMA StreamsOnFinite ==
  ASSUME NEW c \in Conns
  PROVE  /\ IsFiniteSet(StreamsOn(c))
         /\ Cardinality(StreamsOn(c)) \in Nat
         /\ Cardinality(StreamsOn(c)) = 0 => StreamsOn(c) = {}
<1>1. StreamsOn(c) \in SUBSET Callers
  BY DEF StreamsOn
<1> QED
  BY <1>1, FS_Subset, FS_CardinalityType, FS_EmptySet, SunnyClientAssumption

(* Only the holder of quicConnMutex is between Lock and Unlock.            *)
LEMMA OneHolder ==
  ASSUME IInv, NEW j \in Callers, NEW k \in Callers,
         caller[j].pc \in Holding, caller[k].pc \in Holding
  PROVE  j = k
BY DEF IInv, MutexInv

(* The connection a call authenticates is one that was dialled, and no     *)
(* other call is making one.                                               *)
LEMMA Authenticates ==
  ASSUME IInv, NEW k \in Callers, caller[k].pc \in Authenticating
  PROVE  /\ caller[k].conn \in Conns /\ caller[k].conn <= dialed
         /\ quicConn = None /\ lock = k
         /\ conn[caller[k].conn] \in ConnStates
         /\ \A j \in Callers \ {k} : caller[j].pc \notin Holding
BY DEF IInv, TypeOK, NoneCachedWhileMaking, MutexInv, Holding, Authenticating

----------------------------------------------------------------------------
(* The QUIC connection and the contexts.                                   *)

(* The handshake completes, and tells what became of the early data.       *)
LEMMA HandshakePreserves ==
  ASSUME IInv, NEW c \in Conns, NEW outcome \in {"accepted", "rejected"},
         HandshakeCompletes(c, outcome)
  PROVE  IInv'
<1> USE DEF HandshakeCompletes, IInv, TypeOK, ConnStates, CallerStates
<1>1. TypeOK'
  <2> DEFINE reset == outcome = "rejected"
             auth == CASE conn[c].auth # "early" -> conn[c].auth
                       [] outcome = "accepted" -> "sent"
                       [] OTHER -> "lost"
  <2>1. auth \in {"unsent", "early", "sent", "lost"}
    OBVIOUS
  <2>2. reset \in BOOLEAN
    OBVIOUS
  <2>3. conn' = [conn EXCEPT ![c].handshake = outcome, ![c].reset = reset,
                             ![c].auth = auth]
    OBVIOUS
  <2> HIDE DEF auth, reset
  <2>4. conn'[c] = [conn[c] EXCEPT !.handshake = outcome, !.reset = reset,
                                   !.auth = auth]
    BY <2>3
  <2>5. conn'[c] \in ConnStates
    <3>1. conn[c] \in ConnStates
      OBVIOUS
    <3> QED
      BY <2>1, <2>2, <2>4, <3>1
  <2>6. conn' = [d \in Conns |-> IF d = c THEN conn'[c] ELSE conn[d]]
    BY <2>3
  <2> QED
    BY <2>5, <2>6
<1>2. MutexInv' /\ NoneCachedWhileMaking'
  BY DEF MutexInv, NoneCachedWhileMaking
<1>3. UndialedIsFresh'
  BY DEF UndialedIsFresh
<1>4. LiveIsKnown'
  BY DEF LiveIsKnown, Makes
<1>5. AuthenticateInv'
  BY DEF AuthenticateInv, NoneCachedWhileMaking, Authenticating, ConnOf
<1>6. HandedOutInv'
  BY DEF HandedOutInv, HandedOut, Conns, None
<1>7. StreamsInv'
  BY StreamsKept DEF NoStreamMoves
<1> QED
  BY <1>1, <1>2, <1>3, <1>4, <1>5, <1>6, <1>7

(* The server or the network ends a connection, at any step of a call.     *)
LEMMA ConnDiesPreserves ==
  ASSUME IInv, NEW c \in Conns, ConnDies(c)
  PROVE  IInv'
<1> USE DEF ConnDies, IInv, TypeOK, ConnStates, CallerStates
<1>1. TypeOK'
  BY ZenonT(60)
<1>2. MutexInv' /\ NoneCachedWhileMaking'
  BY DEF MutexInv, NoneCachedWhileMaking
<1>3. UndialedIsFresh'
  BY DEF UndialedIsFresh
<1>4. LiveIsKnown'
  BY DEF LiveIsKnown, Makes
<1>5. AuthenticateInv'
  BY DEF AuthenticateInv, NoneCachedWhileMaking, Authenticating, ConnOf
<1>6. HandedOutInv'
  BY DEF HandedOutInv, HandedOut, Conns, None
<1>7. StreamsInv'
  BY StreamsKept DEF NoStreamMoves
<1> QED
  BY <1>1, <1>2, <1>3, <1>4, <1>5, <1>6, <1>7

----------------------------------------------------------------------------
(* The calls.  Each leaves the connections it does not make as they are.   *)

(* A context is cancelled: nothing but that is remembered.                 *)
LEMMA CancelCallPreserves ==
  ASSUME IInv, NEW k \in Callers, CancelCall(k)
  PROVE  IInv'
<1> USE DEF CancelCall, At,
            IInv, TypeOK, ConnStates, CallerStates
<1>1. TypeOK'
  BY DEF PCs, None, NoneCachedWhileMaking, Authenticating, ConnOf
<1>2. MutexInv'
  BY SunnyClientAssumption DEF MutexInv, Holding, Authenticating
<1>3. UndialedIsFresh'
  BY DEF UndialedIsFresh, NoneCachedWhileMaking, Authenticating
<1>4. NoneCachedWhileMaking'
  BY OneHolder DEF NoneCachedWhileMaking, Holding, Authenticating
<1>5. LiveIsKnown'
  BY OneHolder
  DEF LiveIsKnown, Makes, NoneCachedWhileMaking, Holding, Authenticating
<1>6. AuthenticateInv'
  BY OneHolder
  DEF AuthenticateInv, NoneCachedWhileMaking, Holding, Authenticating, ConnOf
<1>7. HandedOutInv'
  BY OneHolder
  DEF HandedOutInv, HandedOut, AuthenticateInv, NoneCachedWhileMaking,
      UndialedIsFresh, Authenticating, Conns, None, ConnOf
<1>8. StreamsInv'
  BY StreamsKept DEF NoStreamMoves, Authenticating
<1> QED
  BY <1>1, <1>2, <1>3, <1>4, <1>5, <1>6, <1>7, <1>8

(* A call asks for the lock.                                               *)
LEMMA CallPreserves ==
  ASSUME IInv, NEW k \in Callers, Call(k)
  PROVE  IInv'
<1> USE DEF Call, At, Goto,
            IInv, TypeOK, ConnStates, CallerStates
<1>1. TypeOK'
  BY DEF PCs, None, NoneCachedWhileMaking, Authenticating, ConnOf
<1>2. MutexInv'
  BY SunnyClientAssumption DEF MutexInv, Holding, Authenticating
<1>3. UndialedIsFresh'
  BY DEF UndialedIsFresh, NoneCachedWhileMaking, Authenticating
<1>4. NoneCachedWhileMaking'
  BY OneHolder DEF NoneCachedWhileMaking, Holding, Authenticating
<1>5. LiveIsKnown'
  BY OneHolder
  DEF LiveIsKnown, Makes, NoneCachedWhileMaking, Holding, Authenticating
<1>6. AuthenticateInv'
  BY OneHolder
  DEF AuthenticateInv, NoneCachedWhileMaking, Holding, Authenticating, ConnOf
<1>7. HandedOutInv'
  BY OneHolder
  DEF HandedOutInv, HandedOut, AuthenticateInv, NoneCachedWhileMaking,
      UndialedIsFresh, Authenticating, Conns, None, ConnOf
<1>8. StreamsInv'
  BY StreamsKept DEF NoStreamMoves, Authenticating
<1> QED
  BY <1>1, <1>2, <1>3, <1>4, <1>5, <1>6, <1>7, <1>8

(* quicConnMutex is taken only when no call holds it.                      *)
LEMMA LockPreserves ==
  ASSUME IInv, NEW k \in Callers, Lock(k)
  PROVE  IInv'
<1> USE DEF Lock, At, Goto,
            IInv, TypeOK, ConnStates, CallerStates
<1>1. TypeOK'
  BY DEF PCs, None, NoneCachedWhileMaking, Authenticating, ConnOf
<1>2. MutexInv'
  BY SunnyClientAssumption DEF MutexInv, Holding, Authenticating
<1>3. UndialedIsFresh'
  BY DEF UndialedIsFresh, NoneCachedWhileMaking, Authenticating
<1>4. NoneCachedWhileMaking'
  BY OneHolder DEF NoneCachedWhileMaking, Holding, Authenticating
<1>5. LiveIsKnown'
  BY OneHolder
  DEF LiveIsKnown, Makes, NoneCachedWhileMaking, Holding, Authenticating
<1>6. AuthenticateInv'
  BY OneHolder
  DEF AuthenticateInv, NoneCachedWhileMaking, Holding, Authenticating, ConnOf
<1>7. HandedOutInv'
  BY OneHolder
  DEF HandedOutInv, HandedOut, AuthenticateInv, NoneCachedWhileMaking,
      UndialedIsFresh, Authenticating, Conns, None, ConnOf
<1>8. StreamsInv'
  BY StreamsKept DEF NoStreamMoves, Authenticating
<1> QED
  BY <1>1, <1>2, <1>3, <1>4, <1>5, <1>6, <1>7, <1>8

(* The cached connection was handed out before.                            *)
LEMMA UseCachedPreserves ==
  ASSUME IInv, NEW k \in Callers, UseCached(k)
  PROVE  IInv'
<1> USE DEF UseCached, At, CachedIsLive, Unlock, NewCaller,
            IInv, TypeOK, ConnStates, CallerStates
<1>1. TypeOK'
  BY DEF PCs, None, NoneCachedWhileMaking, Authenticating, ConnOf
<1>2. MutexInv'
  BY SunnyClientAssumption DEF MutexInv, Holding, Authenticating
<1>3. UndialedIsFresh'
  BY DEF UndialedIsFresh, NoneCachedWhileMaking, Authenticating
<1>4. NoneCachedWhileMaking'
  BY OneHolder DEF NoneCachedWhileMaking, Holding, Authenticating
<1>5. LiveIsKnown'
  BY OneHolder
  DEF LiveIsKnown, Makes, NoneCachedWhileMaking, Holding, Authenticating
<1>6. AuthenticateInv'
  BY OneHolder
  DEF AuthenticateInv, NoneCachedWhileMaking, Holding, Authenticating, ConnOf
<1>7. HandedOutInv'
  BY OneHolder
  DEF HandedOutInv, HandedOut, AuthenticateInv, NoneCachedWhileMaking,
      UndialedIsFresh, Authenticating, Conns, None, ConnOf
<1>8. StreamsInv'
  BY StreamsKept DEF NoStreamMoves, Authenticating
<1> QED
  BY <1>1, <1>2, <1>3, <1>4, <1>5, <1>6, <1>7, <1>8

(* The cached connection is dead, and none is being made: none is alive.   *)
LEMMA DropCachedPreserves ==
  ASSUME IInv, NEW k \in Callers, DropCached(k)
  PROVE  IInv'
<1> USE DEF DropCached, At, CachedIsLive, Goto,
            IInv, TypeOK, ConnStates, CallerStates
<1>1. TypeOK'
  BY DEF PCs, None, NoneCachedWhileMaking, Authenticating, ConnOf
<1>2. MutexInv'
  BY SunnyClientAssumption DEF MutexInv, Holding, Authenticating
<1>3. UndialedIsFresh'
  BY DEF UndialedIsFresh, NoneCachedWhileMaking, Authenticating
<1>4. NoneCachedWhileMaking'
  BY OneHolder DEF NoneCachedWhileMaking, Holding, Authenticating
<1>5. LiveIsKnown'
  BY OneHolder
  DEF LiveIsKnown, Makes, NoneCachedWhileMaking, Holding, Authenticating
<1>6. AuthenticateInv'
  BY OneHolder
  DEF AuthenticateInv, NoneCachedWhileMaking, Holding, Authenticating, ConnOf
<1>7. HandedOutInv'
  BY OneHolder
  DEF HandedOutInv, HandedOut, AuthenticateInv, NoneCachedWhileMaking,
      UndialedIsFresh, Authenticating, Conns, None, ConnOf
<1>8. StreamsInv'
  BY StreamsKept DEF NoStreamMoves, Authenticating
<1> QED
  BY <1>1, <1>2, <1>3, <1>4, <1>5, <1>6, <1>7, <1>8

(* The new connection is the only one alive.                               *)
LEMMA DialQUICEarlyPreserves ==
  ASSUME IInv, NEW k \in Callers, DialQUICEarly(k)
  PROVE  IInv'
<1> USE DEF DialQUICEarly, At, IInv, TypeOK, ConnStates, CallerStates
<1>1. PICK h \in {"pending", "accepted"} :
        conn' = [conn EXCEPT ![dialed + 1].alive = TRUE,
                             ![dialed + 1].handshake = h]
  OBVIOUS
<1>2. /\ dialed \in 0 .. MaxConns /\ dialed' = dialed + 1
      /\ dialed' \in Conns /\ dialed' \in 0 .. MaxConns
  BY SunnyClientAssumption DEF Conns
<1>3. caller' = [caller EXCEPT ![k].pc = "sample", ![k].conn = dialed']
  BY <1>2
<1>4. /\ \A c \in Conns \ {dialed'} : conn'[c] = conn[c]
      /\ conn'[dialed'] = [conn[dialed'] EXCEPT !.alive = TRUE,
                                               !.handshake = h]
  BY <1>1, <1>2
<1>5. quicConn = None /\ \A c \in Conns : ~ conn[c].alive
  BY OneHolder DEF LiveIsKnown, Makes, NoneCachedWhileMaking, Holding,
                   Authenticating, Conns, None
<1>6. conn' \in [Conns -> ConnStates]
  <2>1. conn[dialed'] \in ConnStates
    BY <1>2
  <2>2. conn'[dialed'] \in ConnStates
    BY <1>4, <2>1
  <2>3. conn' = [c \in Conns |-> IF c = dialed' THEN conn'[dialed']
                                                ELSE conn[c]]
    BY <1>1, <1>2
  <2> QED
    BY <2>2, <2>3
<1>7. caller' \in [Callers -> CallerStates]
  <2>1. caller[k] \in CallerStates
    OBVIOUS
  <2>2. [caller[k] EXCEPT !.pc = "sample", !.conn = dialed'] \in CallerStates
    BY <1>2, <2>1 DEF PCs
  <2>3. caller' = [caller EXCEPT ![k] =
                     [caller[k] EXCEPT !.pc = "sample", !.conn = dialed']]
    BY <1>3
  <2> QED
    BY <2>2, <2>3
<1>8. TypeOK'
  BY <1>2, <1>6, <1>7
<1>9. MutexInv'
  BY SunnyClientAssumption DEF MutexInv, Holding, Authenticating
<1>10. UndialedIsFresh'
  <2> SUFFICES ASSUME NEW c \in Conns, c > dialed'
               PROVE  /\ ~ conn'[c].alive /\ conn'[c].handshake = "pending"
                      /\ conn'[c].auth = "unsent" /\ ~ conn'[c].reset
    BY DEF UndialedIsFresh
  <2>1. c # dialed' /\ c > dialed
    BY <1>2 DEF Conns
  <2> QED
    BY <2>1, <1>4 DEF UndialedIsFresh
<1>11. NoneCachedWhileMaking'
  BY <1>2, <1>3, <1>5, OneHolder
  DEF NoneCachedWhileMaking, Holding, Authenticating
<1>12. LiveIsKnown'
  BY <1>2, <1>3, <1>4, <1>5 DEF LiveIsKnown, Makes, Authenticating
<1>13. AuthenticateInv'
  <2>1. \A j \in Callers \ {k} :
          caller'[j] = caller[j] /\ caller[j].pc \notin Authenticating
    BY OneHolder DEF Holding
  <2>2. caller'[k].pc = "sample" /\ ConnOf(k)'.handshake # "rejected"
    BY <1>2, <1>3, <1>4 DEF ConnOf
  <2> QED
    BY <2>1, <2>2 DEF AuthenticateInv, Authenticating
<1>14. HandedOutInv'
  <2>1. \A c \in Conns : HandedOut(c) => c # dialed'
    BY <1>2 DEF UndialedIsFresh, HandedOut
  <2>2. \A c \in Conns : HandedOut(c) => HandedOut(c)'
    BY <2>1, <1>4 DEF HandedOut
  <2> QED
    BY <2>2, <1>3, <1>5 DEF HandedOutInv
<1>15. StreamsInv'
  BY <1>4, <1>2, StreamsKept DEF NoStreamMoves
<1> QED
  BY <1>8, <1>9, <1>10, <1>11, <1>12, <1>13, <1>14, <1>15

(* Nothing was made.                                                       *)
LEMMA DialFailsPreserves ==
  ASSUME IInv, NEW k \in Callers, DialFails(k)
  PROVE  IInv'
<1> USE DEF DialFails, At, Unlock, NewCaller,
            IInv, TypeOK, ConnStates, CallerStates
<1>1. TypeOK'
  BY DEF PCs, None, NoneCachedWhileMaking, Authenticating, ConnOf
<1>2. MutexInv'
  BY SunnyClientAssumption DEF MutexInv, Holding, Authenticating
<1>3. UndialedIsFresh'
  BY DEF UndialedIsFresh, NoneCachedWhileMaking, Authenticating
<1>4. NoneCachedWhileMaking'
  BY OneHolder DEF NoneCachedWhileMaking, Holding, Authenticating
<1>5. LiveIsKnown'
  BY OneHolder
  DEF LiveIsKnown, Makes, NoneCachedWhileMaking, Holding, Authenticating
<1>6. AuthenticateInv'
  BY OneHolder
  DEF AuthenticateInv, NoneCachedWhileMaking, Holding, Authenticating, ConnOf
<1>7. HandedOutInv'
  BY OneHolder
  DEF HandedOutInv, HandedOut, AuthenticateInv, NoneCachedWhileMaking,
      UndialedIsFresh, Authenticating, Conns, None, ConnOf
<1>8. StreamsInv'
  BY StreamsKept DEF NoStreamMoves, Authenticating
<1> QED
  BY <1>1, <1>2, <1>3, <1>4, <1>5, <1>6, <1>7, <1>8

(* sentAs0RTT remembers that the handshake was pending.                    *)
LEMMA SampleHandshakePreserves ==
  ASSUME IInv, NEW k \in Callers, SampleHandshake(k)
  PROVE  IInv'
<1> USE DEF SampleHandshake, At,
            IInv, TypeOK, ConnStates, CallerStates
<1>1. TypeOK'
  <2> DEFINE pending == ConnOf(k).handshake = "pending"
  <2>1. pending \in BOOLEAN
    OBVIOUS
  <2>2. caller' = [caller EXCEPT ![k].pc = "sendAuth",
                                 ![k].sentAs0RTT = pending]
    OBVIOUS
  <2> HIDE DEF pending
  <2>3. [caller[k] EXCEPT !.pc = "sendAuth", !.sentAs0RTT = pending]
          \in CallerStates
    <3>1. caller[k] \in CallerStates
      OBVIOUS
    <3> QED
      BY <2>1, <3>1 DEF PCs
  <2>4. caller' = [caller EXCEPT ![k] =
          [caller[k] EXCEPT !.pc = "sendAuth", !.sentAs0RTT = pending]]
    BY <2>2
  <2> QED
    BY <2>3, <2>4
<1>2. MutexInv'
  BY SunnyClientAssumption DEF MutexInv, Holding, Authenticating
<1>3. UndialedIsFresh'
  BY DEF UndialedIsFresh, NoneCachedWhileMaking, Authenticating
<1>4. NoneCachedWhileMaking'
  BY OneHolder DEF NoneCachedWhileMaking, Holding, Authenticating
<1>5. LiveIsKnown'
  BY OneHolder
  DEF LiveIsKnown, Makes, NoneCachedWhileMaking, Holding, Authenticating
<1>6. AuthenticateInv'
  BY OneHolder
  DEF AuthenticateInv, NoneCachedWhileMaking, Holding, Authenticating, ConnOf
<1>7. HandedOutInv'
  BY OneHolder
  DEF HandedOutInv, HandedOut, AuthenticateInv, NoneCachedWhileMaking,
      UndialedIsFresh, Authenticating, Conns, None, ConnOf
<1>8. StreamsInv'
  BY StreamsKept DEF NoStreamMoves, Authenticating
<1> QED
  BY <1>1, <1>2, <1>3, <1>4, <1>5, <1>6, <1>7, <1>8

(* authenticate returns nil for a connection that may be handed out: it is *)
(* cached and becomes the one that is shared.                              *)
LEMMA CachePreserves ==
  ASSUME IInv, NEW k \in Callers, NEW c \in Conns,
         caller[k].pc \in Authenticating, c = caller[k].conn,
         CacheConn(k), dialed' = dialed,
         conn' \in [Conns -> ConnStates],
         \A d \in Conns \ {c} : conn'[d] = conn[d],
         conn'[c].streams = conn[c].streams,
         HandedOut(c)'
  PROVE  IInv'
<1> USE DEF CacheConn, Unlock, NewCaller, IInv, TypeOK
<1>1. /\ c <= dialed /\ quicConn = None /\ quicConn' = c /\ lock' = "free"
      /\ \A j \in Callers \ {k} : /\ caller'[j] = caller[j]
                                  /\ caller[j].pc \notin Holding
      /\ caller'[k].pc = "stream" /\ caller'[k].conn = c
  BY Authenticates DEF CallerStates
<1>2. TypeOK'
  BY <1>1 DEF CallerStates, PCs
<1>3. MutexInv'
  BY <1>1 DEF MutexInv, Holding, Authenticating
<1>4. UndialedIsFresh'
  BY <1>1 DEF UndialedIsFresh, Conns
<1>5. NoneCachedWhileMaking'
  BY <1>1 DEF NoneCachedWhileMaking, Holding, Authenticating
<1>6. LiveIsKnown'
  BY <1>1 DEF LiveIsKnown, Makes, Holding, Conns, None
<1>7. AuthenticateInv'
  <2>1. \A j \in Callers \ {k} : caller'[j].pc \notin Authenticating
    BY <1>1 DEF Holding
  <2> QED
    BY <1>1, <2>1 DEF AuthenticateInv, Authenticating
<1>8. HandedOutInv'
  <2>1. \A d \in Conns : HandedOut(d) => HandedOut(d)'
    BY DEF HandedOut
  <2> QED
    BY <1>1, <2>1 DEF HandedOutInv
<1>9. StreamsInv'
  BY <1>1, StreamsKept DEF NoStreamMoves, Authenticating
<1> QED
  BY <1>2, <1>3, <1>4, <1>5, <1>6, <1>7, <1>8, <1>9

(* The command is sent, or the rejection or the end was met.               *)
LEMMA SendAuthPreserves ==
  ASSUME IInv, NEW k \in Callers, SendAuth(k)
  PROVE  IInv'
<1> USE DEF SendAuth, At, Goto, IInv, TypeOK
<1> DEFINE c == caller[k].conn
<1>1. /\ caller[k].pc \in Authenticating
      /\ c \in Conns /\ c <= dialed /\ quicConn = None
      /\ conn[c] \in ConnStates
      /\ \A j \in Callers \ {k} : /\ caller'[j] = caller[j]
                                  /\ caller[j].pc \notin Holding
  BY Authenticates DEF CallerStates, Authenticating
<1>2. /\ caller'[k].pc \in Authenticating /\ caller'[k].conn = c
      /\ caller'[k].sentAs0RTT = caller[k].sentAs0RTT
      /\ caller' \in [Callers -> CallerStates]
  BY DEF CallerStates, PCs, Authenticating
<1>3. /\ conn' \in [Conns -> ConnStates]
      /\ \A d \in Conns \ {c} : conn'[d] = conn[d]
      /\ conn'[c].streams = conn[c].streams /\ conn'[c].reset = conn[c].reset
      /\ conn'[c].alive = conn[c].alive
      /\ conn'[c].handshake = conn[c].handshake
      /\ HandedOut(c) => conn'[c].auth = "sent"
  BY <1>1 DEF AuthSent, ConnStates, HandedOut
<1>4. TypeOK'
  BY <1>2, <1>3
<1>5. MutexInv'
  BY <1>1, Authenticates DEF MutexInv, Holding
<1>6. UndialedIsFresh'
  BY <1>1, <1>3 DEF UndialedIsFresh, Conns
<1>7. NoneCachedWhileMaking'
  BY <1>1, <1>2 DEF NoneCachedWhileMaking, Holding
<1>8. LiveIsKnown'
  BY <1>1, <1>2, <1>3 DEF LiveIsKnown, Makes
<1>9. AuthenticateInv'
  <2>1. \A j \in Callers \ {k} : caller'[j].pc \notin Authenticating
    BY <1>1 DEF Holding
  <2>2. CASE caller'[k].pc = "handshake"
    BY <1>1, <1>2, <1>3, <2>1, <2>2
    DEF AuthenticateInv, AuthSent, ConnOf, ConnStates, CallerStates,
        Authenticating
  <2>3. CASE caller'[k].pc # "handshake"
    BY <1>1, <2>1, <2>3 DEF AuthenticateInv, Authenticating, CallerStates
  <2> QED
    BY <2>2, <2>3
<1>10. HandedOutInv'
  <2>1. \A d \in Conns : HandedOut(d) => HandedOut(d)'
    BY <1>1, <1>3 DEF HandedOut
  <2> QED
    BY <1>1, <1>2, <2>1 DEF HandedOutInv, Authenticating
<1>11. StreamsInv'
  BY <1>1, <1>2, <1>3, StreamsKept DEF NoStreamMoves, Authenticating
<1> QED
  BY <1>4, <1>5, <1>6, <1>7, <1>8, <1>9, <1>10, <1>11

(* The connection is cached only if its early data was not rejected.       *)
LEMMA WaitHandshakePreserves ==
  ASSUME IInv, NEW k \in Callers, WaitHandshake(k)
  PROVE  IInv'
<1> USE DEF WaitHandshake, At, Goto
<1>0. PICK c \in Conns : c = caller[k].conn
  BY Authenticates DEF Authenticating
<1>1. /\ caller[k].pc \in Authenticating
      /\ c <= dialed /\ quicConn = None
      /\ conn[c] \in ConnStates
      /\ \A j \in Callers \ {k} : caller[j].pc \notin Holding
  BY <1>0, Authenticates DEF Authenticating
<1>2. CASE ConnOf(k).handshake # "pending" /\ ~ EarlyDataRejected(k)
             /\ CacheConn(k)
  <2>1. /\ ConnOf(k) = conn[c] /\ conn' = conn /\ dialed' = dialed
        /\ conn' \in [Conns -> ConnStates]
    BY <1>0 DEF ConnOf, IInv, TypeOK
  <2>2. conn[c].handshake = "accepted" /\ conn[c].auth = "sent"
    BY <1>1, <1>2, <2>1
    DEF EarlyDataRejected, ConnStates, IInv, AuthenticateInv
  <2>3. HandedOut(c)'
    BY <2>1, <2>2 DEF HandedOut
  <2> QED
    BY <1>0, <1>1, <1>2, <2>1, <2>3, CachePreserves
<1>3. ASSUME NEW pc \in {"nextConnection", "abort"}, Goto(k, pc),
             UNCHANGED <<lock, quicConn, dialed, conn>>,
             pc = "nextConnection" => ConnOf(k).handshake # "pending"
      PROVE  IInv'
  <2> USE <1>3 DEF IInv, TypeOK, CallerStates
  <2>1. /\ caller'[k].pc = pc /\ pc \in Authenticating
        /\ caller'[k].conn = c
        /\ \A j \in Callers \ {k} : caller'[j] = caller[j]
    BY <1>0 DEF Authenticating
  <2>2. TypeOK'
    BY DEF PCs
  <2>3. MutexInv' /\ NoneCachedWhileMaking'
    BY <1>0, <1>1, <2>1, Authenticates
    DEF MutexInv, NoneCachedWhileMaking, Holding
  <2>4. UndialedIsFresh' /\ LiveIsKnown'
    BY <1>0, <1>1, <2>1 DEF UndialedIsFresh, LiveIsKnown, Makes
  <2>5. AuthenticateInv'
    BY <1>0, <1>1, <2>1 DEF AuthenticateInv, Holding, Authenticating, ConnOf
  <2>6. HandedOutInv' /\ StreamsInv'
    BY <2>1, <1>1, StreamsKept
    DEF HandedOutInv, HandedOut, NoStreamMoves, Authenticating
  <2> QED
    BY <2>2, <2>3, <2>4, <2>5, <2>6
<1> QED
  BY <1>2, <1>3

(* The rejection is taken note of.                                         *)
LEMMA NextConnectionPreserves ==
  ASSUME IInv, NEW k \in Callers, NextConnection(k)
  PROVE  IInv'
<1> USE DEF NextConnection, At, Goto, IInv, TypeOK
<1> DEFINE c == caller[k].conn
<1>1. /\ caller[k].pc \in Authenticating
      /\ c \in Conns /\ c <= dialed /\ quicConn = None
      /\ conn[c] \in ConnStates
      /\ \A j \in Callers \ {k} : /\ caller'[j] = caller[j]
                                  /\ caller[j].pc \notin Holding
  BY Authenticates DEF CallerStates, Authenticating
<1>2. /\ caller'[k].pc \in {"resendAuth", "abort"} /\ caller'[k].conn = c
      /\ caller' \in [Callers -> CallerStates]
  BY DEF CallerStates, PCs
<1>3. /\ conn' \in [Conns -> ConnStates]
      /\ \A d \in Conns \ {c} : conn'[d] = conn[d]
      /\ conn'[c].streams = conn[c].streams /\ conn'[c].auth = conn[c].auth
      /\ conn'[c].alive = conn[c].alive
      /\ conn'[c].handshake = conn[c].handshake
  <2>1. CASE conn' = [conn EXCEPT ![c].reset = FALSE]
    BY <1>1, <2>1 DEF ConnStates
  <2>2. CASE UNCHANGED conn
    BY <1>1, <2>2
  <2> QED
    BY <2>1, <2>2
<1>4. TypeOK'
  BY <1>2, <1>3
<1>5. MutexInv'
  BY <1>1, Authenticates DEF MutexInv, Holding
<1>6. UndialedIsFresh'
  BY <1>1, <1>3 DEF UndialedIsFresh, Conns
<1>7. NoneCachedWhileMaking'
  BY <1>1, <1>2 DEF NoneCachedWhileMaking, Holding
<1>8. LiveIsKnown'
  BY <1>1, <1>2, <1>3 DEF LiveIsKnown, Makes, Authenticating
<1>9. AuthenticateInv'
  <2>1. \A j \in Callers \ {k} : caller'[j].pc \notin Authenticating
    BY <1>1 DEF Holding
  <2>2. conn[c].handshake # "pending"
    BY DEF AuthenticateInv, ConnOf
  <2>3. ConnOf(k)'.handshake # "pending"
    BY <1>2, <1>3, <2>2 DEF ConnOf
  <2> QED
    BY <1>2, <2>1, <2>3 DEF AuthenticateInv, Authenticating
<1>10. HandedOutInv'
  <2>1. \A d \in Conns : HandedOut(d) => HandedOut(d)'
    BY <1>3 DEF HandedOut
  <2> QED
    BY <1>1, <1>2, <2>1 DEF HandedOutInv
<1>11. StreamsInv'
  BY <1>1, <1>2, <1>3, StreamsKept DEF NoStreamMoves, Authenticating
<1> QED
  BY <1>4, <1>5, <1>6, <1>7, <1>8, <1>9, <1>10, <1>11

(* The command is sent again, now past the handshake.                      *)
LEMMA ResendAuthPreserves ==
  ASSUME IInv, NEW k \in Callers, ResendAuth(k)
  PROVE  IInv'
<1> USE DEF ResendAuth, At, Goto
<1>0. PICK c \in Conns : c = caller[k].conn
  BY Authenticates DEF Authenticating
<1>1. /\ caller[k].pc \in Authenticating
      /\ c <= dialed /\ quicConn = None
      /\ conn[c] \in ConnStates
      /\ \A j \in Callers \ {k} : caller[j].pc \notin Holding
  BY <1>0, Authenticates DEF Authenticating
<1>2. CASE AuthSent(caller[k].conn) /\ CacheConn(k)
  <2>1. conn[c].handshake # "pending"
    BY <1>0 DEF IInv, AuthenticateInv, ConnOf
  <2>2. conn' = [conn EXCEPT ![c].auth = "sent"]
    BY <1>0, <1>2, <2>1 DEF AuthSent
  <2>3. conn' \in [Conns -> ConnStates]
    BY <1>1, <2>2 DEF IInv, TypeOK, ConnStates
  <2>4. /\ conn'[c].handshake = conn[c].handshake /\ conn'[c].auth = "sent"
        /\ conn'[c].streams = conn[c].streams
        /\ \A d \in Conns \ {c} : conn'[d] = conn[d]
        /\ dialed' = dialed
    BY <1>1, <2>2 DEF IInv, TypeOK, ConnStates
  <2>5. HandedOut(c)'
    BY <2>1, <2>4 DEF HandedOut
  <2> QED
    BY <1>0, <1>1, <1>2, <2>3, <2>4, <2>5, CachePreserves
<1>3. CASE Goto(k, "abort") /\ UNCHANGED <<lock, quicConn, conn>>
  <2> USE <1>3 DEF IInv, TypeOK, CallerStates
  <2>1. /\ caller'[k].pc = "abort" /\ caller'[k].conn = c
        /\ \A j \in Callers \ {k} : caller'[j] = caller[j]
    BY <1>0
  <2>2. TypeOK'
    BY DEF PCs
  <2>3. MutexInv' /\ NoneCachedWhileMaking'
    BY <1>0, <1>1, <2>1, Authenticates
    DEF MutexInv, NoneCachedWhileMaking, Holding, Authenticating
  <2>4. UndialedIsFresh' /\ LiveIsKnown'
    BY <1>0, <1>1, <2>1 DEF UndialedIsFresh, LiveIsKnown, Makes, Authenticating
  <2>5. AuthenticateInv'
    BY <1>0, <1>1, <2>1 DEF AuthenticateInv, Holding, Authenticating, ConnOf
  <2>6. HandedOutInv' /\ StreamsInv'
    BY <2>1, <1>1, StreamsKept
    DEF HandedOutInv, HandedOut, NoStreamMoves, Authenticating
  <2> QED
    BY <2>2, <2>3, <2>4, <2>5, <2>6
<1> QED
  BY <1>2, <1>3

(* A connection that could not be authenticated is closed.                 *)
LEMMA AbortPreserves ==
  ASSUME IInv, NEW k \in Callers, Abort(k)
  PROVE  IInv'
<1> USE DEF Abort, At, Unlock, NewCaller,
            IInv, TypeOK, ConnStates, CallerStates
<1>1. TypeOK'
  <2>1. caller[k].conn \in Conns
    BY DEF NoneCachedWhileMaking, Authenticating
  <2>2. conn' \in [Conns -> ConnStates]
    BY <2>1
  <2>3. caller' \in [Callers -> CallerStates]
    BY DEF PCs
  <2> QED
    BY <2>2, <2>3
<1>2. MutexInv'
  BY SunnyClientAssumption DEF MutexInv, Holding, Authenticating
<1>3. UndialedIsFresh'
  BY DEF UndialedIsFresh, NoneCachedWhileMaking, Authenticating
<1>4. NoneCachedWhileMaking'
  BY OneHolder DEF NoneCachedWhileMaking, Holding, Authenticating
<1>5. LiveIsKnown'
  BY OneHolder
  DEF LiveIsKnown, Makes, NoneCachedWhileMaking, Holding, Authenticating
<1>6. AuthenticateInv'
  BY OneHolder
  DEF AuthenticateInv, NoneCachedWhileMaking, Holding, Authenticating, ConnOf
<1>7. HandedOutInv'
  BY OneHolder
  DEF HandedOutInv, HandedOut, AuthenticateInv, NoneCachedWhileMaking,
      UndialedIsFresh, Authenticating, Conns, None, ConnOf
<1>8. StreamsInv'
  BY StreamsKept DEF NoStreamMoves, Authenticating
<1> QED
  BY <1>1, <1>2, <1>3, <1>4, <1>5, <1>6, <1>7, <1>8

(* The call has no stream.                                                 *)
LEMMA OpenStreamFailsPreserves ==
  ASSUME IInv, NEW k \in Callers, OpenStreamFails(k)
  PROVE  IInv'
<1> USE DEF OpenStreamFails, At, Goto,
            IInv, TypeOK, ConnStates, CallerStates
<1>1. TypeOK'
  BY DEF PCs, None, NoneCachedWhileMaking, Authenticating, ConnOf
<1>2. MutexInv'
  BY SunnyClientAssumption DEF MutexInv, Holding, Authenticating
<1>3. UndialedIsFresh'
  BY DEF UndialedIsFresh, NoneCachedWhileMaking, Authenticating
<1>4. NoneCachedWhileMaking'
  BY OneHolder DEF NoneCachedWhileMaking, Holding, Authenticating
<1>5. LiveIsKnown'
  BY OneHolder
  DEF LiveIsKnown, Makes, NoneCachedWhileMaking, Holding, Authenticating
<1>6. AuthenticateInv'
  BY OneHolder
  DEF AuthenticateInv, NoneCachedWhileMaking, Holding, Authenticating, ConnOf
<1>7. HandedOutInv'
  BY OneHolder
  DEF HandedOutInv, HandedOut, AuthenticateInv, NoneCachedWhileMaking,
      UndialedIsFresh, Authenticating, Conns, None, ConnOf
<1>8. StreamsInv'
  BY StreamsKept DEF NoStreamMoves, Authenticating
<1> QED
  BY <1>1, <1>2, <1>3, <1>4, <1>5, <1>6, <1>7, <1>8

(* A call opens a stream: one more on its connection.                      *)
LEMMA OpenStreamPreserves ==
  ASSUME IInv, NEW k \in Callers, OpenStream(k)
  PROVE  IInv'
<1> USE DEF OpenStream, At, Goto, IInv, TypeOK
<1>0. PICK c \in Conns : c = caller[k].conn
  BY DEF HandedOutInv
<1>1. /\ caller'[k].pc = "open" /\ caller'[k].conn = c
      /\ \A j \in Callers \ {k} : caller'[j] = caller[j]
      /\ caller' \in [Callers -> CallerStates]
  BY <1>0 DEF CallerStates, PCs
<1>2. conn[c].streams \in 0 .. MaxStreams /\ conn[c].streams < MaxStreams
  BY <1>0 DEF ConnStates, ConnOf
<1>3. conn' = [conn EXCEPT ![c].streams = conn[c].streams + 1]
  BY <1>0
<1>4. conn[c].streams + 1 \in 0 .. MaxStreams
  BY <1>2, SunnyClientAssumption
<1>5. /\ conn' \in [Conns -> ConnStates]
      /\ \A d \in Conns \ {c} : conn'[d] = conn[d]
      /\ conn'[c].streams = conn[c].streams + 1
      /\ conn'[c].alive = conn[c].alive /\ conn'[c].auth = conn[c].auth
      /\ conn'[c].handshake = conn[c].handshake
      /\ conn'[c].reset = conn[c].reset
  BY <1>3, <1>4 DEF ConnStates
<1>6. TypeOK'
  BY <1>1, <1>5
<1>7. MutexInv' /\ NoneCachedWhileMaking'
  BY <1>1 DEF MutexInv, NoneCachedWhileMaking, Holding, Authenticating
<1>8. UndialedIsFresh' /\ LiveIsKnown'
  BY <1>1, <1>5 DEF UndialedIsFresh, LiveIsKnown, Makes, Authenticating
<1>9. AuthenticateInv'
  BY <1>1, <1>5
  DEF AuthenticateInv, NoneCachedWhileMaking, Authenticating, ConnOf
<1>10. HandedOutInv'
  BY SMTT(60), <1>1, <1>5 DEF HandedOutInv, HandedOut, Conns, None
<1>11. StreamsInv'
  <2>1. StreamsOn(c)' = StreamsOn(c) \cup {k} /\ k \notin StreamsOn(c)
    BY <1>1 DEF StreamsOn
  <2>2. Cardinality(StreamsOn(c)') = Cardinality(StreamsOn(c)) + 1
    BY <2>1, StreamsOnFinite, FS_AddElement
  <2>3. \A d \in Conns \ {c} : StreamsOn(d)' = StreamsOn(d)
    BY <1>1 DEF StreamsOn
  <2>4. conn[c].streams = Cardinality(StreamsOn(c))
    BY DEF StreamsInv
  <2>5. conn'[c].streams = Cardinality(StreamsOn(c)')
    BY <1>5, <2>2, <2>4
  <2>6. \A d \in Conns \ {c} : conn'[d].streams = Cardinality(StreamsOn(d)')
    BY <1>5, <2>3 DEF StreamsInv
  <2> QED
    BY <2>5, <2>6 DEF StreamsInv
<1> QED
  BY <1>6, <1>7, <1>8, <1>9, <1>10, <1>11

(* A stream ends: one less on its connection, which had one.               *)
LEMMA StreamEndsPreserves ==
  ASSUME IInv, NEW k \in Callers, StreamEnds(k)
  PROVE  IInv'
<1> USE DEF StreamEnds, At, IInv, TypeOK
<1>0. PICK c \in Conns : c = caller[k].conn
  BY DEF CallerStates
<1>1. /\ caller'[k].pc = "open" /\ caller'[k].conn = None
      /\ \A j \in Callers \ {k} : caller'[j] = caller[j]
      /\ caller' \in [Callers -> CallerStates]
  BY DEF CallerStates, PCs
<1>2. /\ StreamsOn(c)' = StreamsOn(c) \ {k} /\ k \in StreamsOn(c)
      /\ \A d \in Conns \ {c} : StreamsOn(d)' = StreamsOn(d)
  BY <1>0, <1>1 DEF StreamsOn, Conns, None
<1>3. Cardinality(StreamsOn(c)') = Cardinality(StreamsOn(c)) - 1
  BY <1>2, StreamsOnFinite, FS_RemoveElement
<1>4. conn[c].streams \in 0 .. MaxStreams /\ conn[c].streams # 0
  <2>1. Cardinality(StreamsOn(c)) # 0
    BY <1>2, StreamsOnFinite
  <2> QED
    BY <2>1 DEF StreamsInv, ConnStates
<1>5. conn' = [conn EXCEPT ![c].streams = conn[c].streams - 1]
  BY <1>0
<1>6. conn[c].streams - 1 \in 0 .. MaxStreams
  BY <1>4, SunnyClientAssumption
<1>7. /\ conn' \in [Conns -> ConnStates]
      /\ \A d \in Conns \ {c} : conn'[d] = conn[d]
      /\ conn'[c].streams = conn[c].streams - 1
      /\ conn'[c].alive = conn[c].alive /\ conn'[c].auth = conn[c].auth
      /\ conn'[c].handshake = conn[c].handshake
      /\ conn'[c].reset = conn[c].reset
  BY <1>5, <1>6 DEF ConnStates
<1>8. TypeOK'
  BY <1>1, <1>7
<1>9. MutexInv' /\ NoneCachedWhileMaking'
  BY <1>1 DEF MutexInv, NoneCachedWhileMaking, Holding, Authenticating
<1>10. UndialedIsFresh' /\ LiveIsKnown'
  BY <1>1, <1>7 DEF UndialedIsFresh, LiveIsKnown, Makes, Authenticating
<1>11. AuthenticateInv'
  BY <1>1, <1>7
  DEF AuthenticateInv, NoneCachedWhileMaking, Authenticating, ConnOf
<1>12. HandedOutInv'
  BY <1>1, <1>7 DEF HandedOutInv, HandedOut, Conns, None
<1>13. StreamsInv'
  BY <1>2, <1>3, <1>7 DEF StreamsInv
<1> QED
  BY <1>8, <1>9, <1>10, <1>11, <1>12, <1>13

----------------------------------------------------------------------------
(* The theorems.                                                           *)

(* Nothing was dialled, so nothing is cached, alive or open.               *)
LEMMA InitIInv == Init => IInv
<1> SUFFICES ASSUME Init PROVE IInv
  OBVIOUS
<1> USE DEF Init, NewCaller
<1>1. TypeOK
  BY SunnyClientAssumption DEF TypeOK, ConnStates, CallerStates, PCs
<1>2. MutexInv /\ UndialedIsFresh /\ NoneCachedWhileMaking /\ LiveIsKnown
  BY DEF MutexInv, UndialedIsFresh, NoneCachedWhileMaking, LiveIsKnown,
         Holding, Authenticating
<1>3. AuthenticateInv /\ HandedOutInv
  BY DEF AuthenticateInv, HandedOutInv
<1>4. StreamsInv
  <2>1. \A c \in Conns : StreamsOn(c) = {}
    BY DEF StreamsOn
  <2> QED
    BY <2>1, FS_EmptySet DEF StreamsInv
<1> QED
  BY <1>1, <1>2, <1>3, <1>4 DEF IInv

(* The inductive invariant.                                                *)
LEMMA IInvInvariant == Spec => []IInv
<1>1. ASSUME IInv, NEW k \in Callers,
             Call(k) \/ CancelCall(k) \/ DialTCP(k) \/ StreamEnds(k)
      PROVE  IInv'
  BY <1>1, CallPreserves, CancelCallPreserves, StreamEndsPreserves,
     LockPreserves, UseCachedPreserves, DropCachedPreserves,
     DialQUICEarlyPreserves, DialFailsPreserves, SampleHandshakePreserves,
     SendAuthPreserves, WaitHandshakePreserves, NextConnectionPreserves,
     ResendAuthPreserves, AbortPreserves, OpenStreamPreserves,
     OpenStreamFailsPreserves
  DEF DialTCP
<1>2. ASSUME IInv, NEW c \in Conns, HandshakeStep(c) \/ ConnDies(c)
      PROVE  IInv'
  BY <1>2, HandshakePreserves, ConnDiesPreserves DEF HandshakeStep
<1>3. ASSUME IInv, UNCHANGED vars
      PROVE  IInv'
  BY <1>3
  DEF vars, IInv, TypeOK, MutexInv, UndialedIsFresh, NoneCachedWhileMaking,
      LiveIsKnown, Makes, AuthenticateInv, ConnOf, HandedOutInv, HandedOut,
      StreamsInv, StreamsOn
<1>4. IInv /\ [Next]_vars => IInv'
  BY <1>1, <1>2, <1>3 DEF Next
<1> QED
  BY <1>4, InitIInv, PTL DEF Spec

(* No counter of sq_carrier/client.go leaves its range: in particular the  *)
(* streams of a connection never exceed what the server allows, and no     *)
(* stream is given back twice.                                             *)
THEOREM TypeCorrect == Spec => []TypeOK
<1>1. IInv => TypeOK
  BY DEF IInv
<1> QED
  BY <1>1, IInvInvariant, PTL

(* getQUICConn hands a connection out only once its authentication command *)
(* can no longer be lost with rejected early data, however the calls, the  *)
(* handshakes and the ends of connections interleave.                      *)
THEOREM OnlyAuthenticatedIsHandedOut == Spec => []HandedOutAuthenticated
<1>1. IInv => HandedOutAuthenticated
  BY DEF IInv, HandedOutInv, HandedOut, HandedOutAuthenticated, At, ConnOf
<1> QED
  BY <1>1, IInvInvariant, PTL

(* quicConnMutex and the cache keep any number of concurrent DialTCP calls *)
(* on one live connection; one that failed to authenticate is closed.      *)
THEOREM ConnectionIsShared == Spec => []OneLiveConn
<1>1. ASSUME IInv PROVE OneLiveConn
  <2> DEFINE Live == {c \in Conns : conn[c].alive}
  <2>1. \A c, d \in Live : c = d
    BY <1>1, OneHolder
    DEF IInv, LiveIsKnown, Makes, NoneCachedWhileMaking, Holding, Conns, None
  <2>2. Live = {} \/ \E c \in Live : Live = {c}
    BY <2>1
  <2> HIDE DEF Live
  <2>3. CASE Live = {}
    BY <2>3, FS_EmptySet DEF Live, OneLiveConn
  <2>4. ASSUME NEW c \in Live, Live = {c}
        PROVE  OneLiveConn
    <3>1. Cardinality(Live) = 1
      BY <2>4, FS_Singleton
    <3> QED
      BY <3>1 DEF Live, OneLiveConn
  <2> QED
    BY <2>2, <2>3, <2>4
<1> QED
  BY <1>1, IInvInvariant, PTL

(* OpenStream and the end of a stream: a connection carries exactly the    *)
(* streams of calls that have opened one on it and not ended it.           *)
THEOREM StreamsAreThoseOfCalls == Spec => []StreamsInv
<1>1. IInv => StreamsInv
  BY DEF IInv
<1> QED
  BY <1>1, IInvInvariant, PTL

==============================================================================
