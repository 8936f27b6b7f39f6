---------------------------- MODULE NaiveClient ----------------------------
(***************************************************************************)
(* The NaiveProxy client (transport/np_carrier/client.go): concurrent      *)
(* DialTCP calls that share a cached HTTP/2 connection.  A call reserves a *)
(* request slot on it and sends a CONNECT request; once a response on the  *)
(* connection has shown that the server supports padding, later calls use  *)
(* "Fast Open": they return before the response, with padding switched on. *)
(*                                                                         *)
(* The HTTP/2 connection, net/http's ClientConn, is external.  Every       *)
(* connection may reach another server: one that supports padding or not.  *)
(***************************************************************************)
EXTENDS Integers, FiniteSets

CONSTANTS
  Callers,     \* DialTCP calls
  MaxConns,    \* bound: connections dialed in a behaviour
  MaxStreams   \* concurrent streams the server allows on a connection

ASSUME NaiveClientAssumption ==
  /\ MaxConns \in Nat \ {0} /\ MaxStreams \in Nat \ {0}
  /\ IsFiniteSet(Callers) /\ "free" \notin Callers

Conns == 1 .. MaxConns
None == 0

VARIABLES
  lock,        \* clientConnMutex: its holder, or "free"
  clientConn,  \* the cached connection, or None
  dialed,      \* connections dialed so far
  conn,        \* per connection: its state, see ConnStates
  replaced,    \* history: connections dropped from the cache while alive
  caller       \* per call: where it stands

vars == <<lock, clientConn, dialed, conn, replaced, caller>>

(* slots: requests reserved or running.  padding: what clientConn.padding  *)
(* holds.  serverPads: what the server at the other end does.              *)
ConnStates ==
  [alive: BOOLEAN, slots: 0 .. MaxStreams, padding: BOOLEAN,
   serverPads: BOOLEAN]

(* setup: between DialTLS and the end of getConn.  request: getConn has    *)
(* returned.  connect: in RoundTrip.  fast: Fast Open has returned, its    *)
(* goroutine is in RoundTrip.  closing: such a tunnel was closed.  tunnel: *)
(* the response is there.  broken: it will not come, reads fail.           *)
PCs == {"idle", "lock", "check", "dial", "setup", "request", "connect",
        "fast", "closing", "tunnel", "broken", "closed", "failed"}

TypeOK ==
  /\ lock \in Callers \cup {"free"}
  /\ clientConn \in Conns \cup {None}
  /\ dialed \in 0 .. MaxConns
  /\ conn \in [Conns -> ConnStates]
  /\ replaced \subseteq Conns
  /\ caller \in [Callers -> [pc: PCs, conn: Conns \cup {None},
                             padded: BOOLEAN]]

Init ==
  /\ lock = "free" /\ clientConn = None /\ dialed = 0 /\ replaced = {}
  /\ conn = [c \in Conns |-> [alive |-> FALSE, slots |-> 0,
                              padding |-> FALSE, serverPads |-> FALSE]]
  /\ caller = [k \in Callers |->
                 [pc |-> "idle", conn |-> None, padded |-> FALSE]]

----------------------------------------------------------------------------

At(k, pc) == caller[k].pc = pc

ConnOf(k) == conn[caller[k].conn]

Goto(k, pc) == caller' = [caller EXCEPT ![k].pc = pc]

(* The deferred Unlock of getConn.                                         *)
Unlock(k, pc, c) ==
  /\ lock' = "free"
  /\ caller' = [caller EXCEPT ![k].pc = pc, ![k].conn = c]

(* The request on connection c is over.                                    *)
FreeSlot(c) == conn' = [conn EXCEPT ![c].slots = @ - 1]

ConnDies(c) ==
  /\ conn[c].alive
  /\ conn' = [conn EXCEPT ![c].alive = FALSE]
  /\ UNCHANGED <<lock, clientConn, dialed, replaced, caller>>

----------------------------------------------------------------------------
(* getConn.                                                                *)

Call(k) ==
  /\ At(k, "idle")
  /\ Goto(k, "lock")
  /\ UNCHANGED <<lock, clientConn, dialed, conn, replaced>>

Lock(k) ==
  /\ At(k, "lock") /\ lock = "free"
  /\ lock' = k
  /\ Goto(k, "check")
  /\ UNCHANGED <<clientConn, dialed, conn, replaced>>

(* ClientConn.Reserve.                                                     *)
CanReserve(c) == conn[c].alive /\ conn[c].slots < MaxStreams

CachedCanReserve == clientConn # None /\ CanReserve(clientConn)

ReserveCached(k) ==
  /\ At(k, "check") /\ CachedCanReserve
  /\ conn' = [conn EXCEPT ![clientConn].slots = @ + 1]
  /\ Unlock(k, "request", clientConn)
  /\ UNCHANGED <<clientConn, dialed, replaced>>

DropCached(k) ==
  /\ At(k, "check") /\ ~ CachedCanReserve
  /\ replaced' = {c \in Conns :
       c \in replaced \/ (c = clientConn /\ conn[c].alive)}
  /\ clientConn' = None
  /\ Goto(k, "dial")
  /\ UNCHANGED <<lock, dialed, conn>>

DialTLS(k) ==
  /\ At(k, "dial") /\ dialed < MaxConns
  /\ dialed' = dialed + 1
  /\ \E pads \in BOOLEAN :
       conn' = [conn EXCEPT ![dialed + 1].alive = TRUE,
                            ![dialed + 1].serverPads = pads]
  /\ caller' = [caller EXCEPT ![k].pc = "setup", ![k].conn = dialed + 1]
  /\ UNCHANGED <<lock, clientConn, replaced>>

(* Mutated form: an error path forgets to unlock.                          *)
DialFailsLocked(k) ==
  /\ At(k, "dial")
  /\ Goto(k, "failed")
  /\ UNCHANGED <<lock, clientConn, dialed, conn, replaced>>

DialFails(k) ==
  /\ At(k, "dial")
  /\ Unlock(k, "failed", None)
  /\ UNCHANGED <<clientConn, dialed, conn, replaced>>

(* Mutated form: what one server supports is kept for the next connection. *)
SetUpKeepingPadding(k) ==
  /\ At(k, "setup") /\ CanReserve(caller[k].conn)
  /\ conn' = [conn EXCEPT
       ![caller[k].conn].slots = @ + 1,
       ![caller[k].conn].padding = \E c \in Conns : conn[c].padding]
  /\ clientConn' = caller[k].conn
  /\ Unlock(k, "request", caller[k].conn)
  /\ UNCHANGED <<dialed, replaced>>

(* The handshake, the check for HTTP/2, NewClientConn and Reserve succeed. *)
SetUp(k) ==
  /\ At(k, "setup") /\ CanReserve(caller[k].conn)
  /\ conn' = [conn EXCEPT ![caller[k].conn].slots = @ + 1]
  /\ clientConn' = caller[k].conn
  /\ Unlock(k, "request", caller[k].conn)
  /\ UNCHANGED <<dialed, replaced>>

(* Mutated form: an error path forgets to close the connection.            *)
SetUpFailsOpen(k) ==
  /\ At(k, "setup")
  /\ Unlock(k, "failed", None)
  /\ UNCHANGED <<clientConn, dialed, conn, replaced>>

(* One of them fails: each error path closes the connection.               *)
SetUpFails(k) ==
  /\ At(k, "setup")
  /\ conn' = [conn EXCEPT ![caller[k].conn].alive = FALSE]
  /\ Unlock(k, "failed", None)
  /\ UNCHANGED <<clientConn, dialed, replaced>>

----------------------------------------------------------------------------
(* DialTCP, connect and fastOpen.                                          *)

SendRequest(k) ==
  /\ At(k, "request")
  /\ caller' = [caller EXCEPT
       ![k].pc = IF ConnOf(k).padding THEN "fast" ELSE "connect",
       ![k].padded = ConnOf(k).padding]
  /\ UNCHANGED <<lock, clientConn, dialed, conn, replaced>>

(* connect gets its OK response: the padding capability is stored for the  *)
(* connection, and a tunnel that is not fast uses what its response says.  *)
Respond(k) ==
  /\ At(k, "connect") \/ At(k, "fast")
  /\ ConnOf(k).alive
  /\ conn' = [conn EXCEPT ![caller[k].conn].padding = ConnOf(k).serverPads]
  /\ caller' = [caller EXCEPT
       ![k].pc = "tunnel",
       ![k].padded = IF At(k, "connect") THEN ConnOf(k).serverPads ELSE @]
  /\ UNCHANGED <<lock, clientConn, dialed, replaced>>

(* RoundTrip returns an error or another status.  Nothing limits the wait  *)
(* for a server that lives and does not answer: ResponseHeaderTimeout only *)
(* starts when the body is written, and that of CONNECT is a pipe which    *)
(* stays open.                                                             *)
RequestFails(k) ==
  /\ At(k, "connect") \/ At(k, "fast")
  /\ FreeSlot(caller[k].conn)
  /\ Goto(k, IF At(k, "connect") THEN "failed" ELSE "broken")
  /\ UNCHANGED <<lock, clientConn, dialed, replaced>>

(* The connection has died: RoundTrip returns its error.                   *)
ConnectionLost(k) ==
  /\ At(k, "connect") \/ At(k, "fast")
  /\ ~ ConnOf(k).alive
  /\ RequestFails(k)

(* Close of a tunnel without a response cancels its request.               *)
CloseEarly(k) ==
  /\ At(k, "fast")
  /\ Goto(k, "closing")
  /\ UNCHANGED <<lock, clientConn, dialed, conn, replaced>>

(* Mutated form: the cancelled request keeps its slot.                     *)
CancelKeepingSlot(k) ==
  /\ At(k, "closing")
  /\ Goto(k, "closed")
  /\ UNCHANGED <<lock, clientConn, dialed, conn, replaced>>

(* RoundTrip returns because its context was cancelled.                    *)
RequestCancelled(k) ==
  /\ At(k, "closing")
  /\ FreeSlot(caller[k].conn)
  /\ Goto(k, "closed")
  /\ UNCHANGED <<lock, clientConn, dialed, replaced>>

(* The tunnel ends: the relay closes it.                                   *)
CloseTunnel(k) ==
  /\ At(k, "tunnel")
  /\ FreeSlot(caller[k].conn)
  /\ Goto(k, "closed")
  /\ UNCHANGED <<lock, clientConn, dialed, replaced>>

CloseBroken(k) ==
  /\ At(k, "broken")
  /\ Goto(k, "closed")
  /\ UNCHANGED <<lock, clientConn, dialed, conn, replaced>>

----------------------------------------------------------------------------

(* What a call does without an answer from its server.                     *)
DialTCP(k) ==
  \/ Lock(k)
  \/ ReserveCached(k)
  \/ DropCached(k)
  \/ DialTLS(k)
  \/ DialFails(k)
  \/ SetUp(k)
  \/ SetUpFails(k)
  \/ SendRequest(k)
  \/ ConnectionLost(k)
  \/ RequestCancelled(k)

Next ==
  \/ \E k \in Callers :
       \/ Call(k) \/ DialTCP(k) \/ Respond(k) \/ RequestFails(k)
       \/ CloseEarly(k) \/ CloseTunnel(k) \/ CloseBroken(k)
  \/ \E c \in Conns : ConnDies(c)

(* Goroutines run when they can; dialing and the handshake have timeouts   *)
(* (dialerTimeout), and a connection that has died ends its requests.      *)
(* Nothing makes a server answer.                                          *)
Spec == Init /\ [][Next]_vars /\ \A k \in Callers : WF_vars(DialTCP(k))

----------------------------------------------------------------------------
(* Properties.                                                             *)

(* A tunnel is padded exactly if the server of its connection pads, also   *)
(* when it was opened before its response, and also after the client was   *)
(* connected to a server of the other sort before.                         *)
PaddingAgrees ==
  \A k \in Callers :
    caller[k].pc \in {"fast", "tunnel"} =>
      caller[k].padded = ConnOf(k).serverPads

(* client.go:160: every slot that getConn reserves is used up or given     *)
(* back.  The slots taken on a connection are those of calls that will     *)
(* still end, so that a connection does not fill up with requests that no  *)
(* longer exist.                                                           *)
SlotsAccountedFor ==
  \A c \in Conns :
    conn[c].slots =
      Cardinality({k \in Callers :
        /\ caller[k].conn = c
        /\ caller[k].pc \in {"request", "connect", "fast", "closing",
                             "tunnel"}})

(* A live connection is the cached one, is being set up, or was dropped    *)
(* because all its slots were taken; no failed call leaves one behind.     *)
NoConnLeftBehind ==
  \A c \in Conns :
    conn[c].alive =>
      \/ c = clientConn
      \/ c \in replaced
      \/ \E k \in Callers : At(k, "setup") /\ caller[k].conn = c

(* Between the call of DialTCP and its return.                             *)
InDialTCP(k) ==
  caller[k].pc \in {"lock", "check", "dial", "setup", "request", "connect"}

(* Every DialTCP call returns, or its request is out on a connection that  *)
(* lives, to a server that does not answer it: no call waits for ever for  *)
(* clientConnMutex or for a connection that has died under it.             *)
EveryCallReturns ==
  \A k \in Callers :
    InDialTCP(k)
      ~> (~ InDialTCP(k) \/ (At(k, "connect") /\ ConnOf(k).alive))

============================================================================
