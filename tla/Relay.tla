------------------------------- MODULE Relay -------------------------------
(***************************************************************************)
(* One forwarded connection: transport.ForwardTCP (transport/server.go)    *)
(* and ioutil.Pipe (util/ioutil/util.go) between a source, the program     *)
(* that asked for the connection, and a target.  Two copiers run           *)
(* concurrently, one per direction; each ends with a CloseWrite towards    *)
(* the side it wrote to, and both sides are closed when both have ended.   *)
(*                                                                         *)
(* CloseWrite does nothing on a side without half-close: a net.Pipe, or    *)
(* the server side of a NaiveProxy stream.  With deferredHeader the target *)
(* is reached through a carrier whose connection header travels with the   *)
(* first payload (ss_carrier and tr_carrier), so the target does not exist *)
(* before the source's first byte or its end has been copied.              *)
(***************************************************************************)
EXTENDS Integers, Sequences

CONSTANTS
  Setups,                       \* the kinds of connections forwarded
  MaxBytes,                     \* bound: bytes each side sends
  Preloaded,                    \* bound: source bytes read before forwarding
  Capacity                      \* bytes in flight from the relay to a side

(* Per connection: CloseWrite has an effect on the source and on the       *)
(* target; the carrier's header waits for the first payload.               *)
AllSetups ==
  [srcHalfClose: BOOLEAN, dstHalfClose: BOOLEAN, deferredHeader: BOOLEAN]

ASSUME RelayAssumption ==
  /\ Setups \subseteq AllSetups
  /\ MaxBytes \in Nat /\ Preloaded \in 0 .. MaxBytes
  /\ Capacity \in Nat \ {0}

Sides == {"src", "dst"}

Other(p) == IF p = "src" THEN "dst" ELSE "src"

VARIABLES
  setup,      \* the kind of this connection
  phase,      \* ("negotiate", then) "dial", then "pipe", then "closed"
  cancelled,  \* the context of the connection is done
  headerSent, \* the carrier has announced the target
  sent,       \* per side: bytes it has sent
  sending,    \* per side: "open", "finished" (FIN), "closed" or "reset"
  preload,    \* bytesReadPreloadConn.preloadBs of the source
  inbound,    \* per side: its bytes not yet copied
  outbound,   \* per side: bytes written to it and not yet read by it
  eof,        \* per side: the relay has closed its own writing to it
  got,        \* per side: the bytes it has read
  sawEnd,     \* per side: it has read the end of the other's bytes
  copier      \* per side: the copier that reads from it

peerVars == <<sent, sending, got, sawEnd>>
vars == <<setup, phase, cancelled, headerSent, sent, sending, preload, inbound,
          outbound, eof, got, sawEnd, copier>>

Bytes(from, to) == [i \in 1 .. (to - from + 1) |-> from + i - 1]

TypeOK ==
  /\ setup \in AllSetups
  /\ phase \in {"negotiate", "dial", "pipe", "closed"}
  /\ cancelled \in BOOLEAN /\ headerSent \in BOOLEAN
  /\ sent \in [Sides -> 0 .. MaxBytes]
  /\ sending \in [Sides -> {"open", "finished", "closed", "reset"}]
  /\ preload \in Seq(1 .. MaxBytes)
  /\ inbound \in [Sides -> Seq(1 .. MaxBytes)]
  /\ outbound \in [Sides -> Seq(1 .. MaxBytes)]
  /\ \A p \in Sides : Len(outbound[p]) <= Capacity
  /\ got \in [Sides -> Seq(1 .. MaxBytes)]
  /\ eof \in [Sides -> BOOLEAN] /\ sawEnd \in [Sides -> BOOLEAN]
  /\ copier \in [Sides -> {"idle", "copying", "done"}]

(* Forwarding begins after n bytes of the source have been read.           *)
InitAfterReading(n) ==
  /\ setup \in Setups
  /\ cancelled = FALSE /\ headerSent = FALSE
  /\ sent = [p \in Sides |-> IF p = "src" THEN n ELSE 0]
  /\ sending = [p \in Sides |-> "open"]
  /\ preload = Bytes(1, n)
  /\ inbound = [p \in Sides |-> <<>>]
  /\ outbound = [p \in Sides |-> <<>>]
  /\ eof = [p \in Sides |-> FALSE]
  /\ got = [p \in Sides |-> <<>>]
  /\ sawEnd = [p \in Sides |-> FALSE]
  /\ copier = [p \in Sides |-> "idle"]

----------------------------------------------------------------------------
(* ForwardTCP.                                                             *)

(* Nothing looks at the context once the pipe runs.                        *)
Cancel ==
  /\ phase \in {"negotiate", "dial"} /\ ~ cancelled
  /\ cancelled' = TRUE
  /\ UNCHANGED <<setup, phase, headerSent, peerVars, preload, inbound,
                 outbound, eof, copier>>

(* The context is done, or DialTCP fails: only the source is closed, there *)
(* is no target.                                                           *)
GiveUp ==
  /\ phase = "dial"
  /\ phase' = "closed"
  /\ eof' = [eof EXCEPT !["src"] = TRUE]
  /\ UNCHANGED <<setup, cancelled, headerSent, peerVars, preload, inbound,
                 outbound, copier>>

(* DialTCP succeeds and Pipe starts its copiers.                           *)
StartPipe ==
  /\ phase = "dial" /\ ~ cancelled
  /\ phase' = "pipe"
  /\ headerSent' = ~ setup.deferredHeader
  /\ copier' = [p \in Sides |-> "copying"]
  /\ UNCHANGED <<setup, cancelled, peerVars, preload, inbound, outbound,
                 eof>>

----------------------------------------------------------------------------
(* The two sides (external): they send, finish, reset and read.            *)

NoReset == \A p \in Sides : sending[p] # "reset"

(* Its bytes end in a FIN; a closed side does not read any more either.    *)
Ended(p) == sending[p] \in {"finished", "closed"}

Deaf(p) == sending[p] \in {"closed", "reset"}

Present(p) == p = "src" \/ headerSent

PeerSend(p) ==
  /\ Present(p) /\ sending[p] = "open" /\ sent[p] < MaxBytes
  /\ sent' = [sent EXCEPT ![p] = @ + 1]
  /\ inbound' = [inbound EXCEPT ![p] = Append(@, sent[p] + 1)]
  /\ UNCHANGED <<setup, phase, cancelled, headerSent, sending, preload,
                 outbound, eof, got, sawEnd, copier>>

PeerFinish(p) ==
  /\ Present(p) /\ sending[p] = "open"
  /\ sending' = [sending EXCEPT ![p] = "finished"]
  /\ UNCHANGED <<setup, phase, cancelled, headerSent, sent, preload, inbound,
                 outbound, eof, got, sawEnd, copier>>

(* A reset loses what the side has sent and not yet been read.             *)
PeerReset(p) ==
  /\ Present(p) /\ sending[p] # "reset"
  /\ sending' = [sending EXCEPT ![p] = "reset"]
  /\ inbound' = [inbound EXCEPT ![p] = <<>>]
  /\ outbound' = [outbound EXCEPT ![p] = <<>>]
  /\ UNCHANGED <<setup, phase, cancelled, headerSent, sent, preload, eof,
                 got, sawEnd, copier>>

PeerRead(p) ==
  /\ outbound[p] # <<>>
  /\ got' = [got EXCEPT ![p] = Append(@, Head(outbound[p]))]
  /\ outbound' = [outbound EXCEPT ![p] = Tail(@)]
  /\ UNCHANGED <<setup, phase, cancelled, headerSent, sent, sending, preload,
                 inbound, eof, sawEnd, copier>>

PeerSeesEnd(p) ==
  /\ eof[p] /\ outbound[p] = <<>> /\ ~ sawEnd[p] /\ ~ Deaf(p)
  /\ sawEnd' = [sawEnd EXCEPT ![p] = TRUE]
  /\ UNCHANGED <<setup, phase, cancelled, headerSent, sent, sending, preload,
                 inbound, outbound, eof, got, copier>>

----------------------------------------------------------------------------
(* Pipe: the copier that reads from p and writes to Other(p).              *)

HalfClose(p) ==
  IF p = "src" THEN setup.srcHalfClose ELSE setup.dstHalfClose

(* ioutil.CloseWrite.                                                      *)
CloseWriteTo(q) ==
  eof' = IF HalfClose(q) THEN [eof EXCEPT ![q] = TRUE] ELSE eof

(* bytesReadPreloadConn reads the preloaded bytes first.                   *)
FromPreload(p) == p = "src" /\ preload # <<>>

Readable(p) == IF FromPreload(p) THEN preload ELSE inbound[p]

(* A read of n bytes and the write of them; the first one carries the      *)
(* header.                                                                 *)
Copy(p, n) ==
  LET q == Other(p)
      rest == SubSeq(Readable(p), n + 1, Len(Readable(p)))
  IN  /\ copier[p] = "copying" /\ ~ Deaf(q)
      /\ n \in 1 .. Len(Readable(p))
      /\ Len(outbound[q]) + n <= Capacity
      /\ outbound' = [outbound EXCEPT ![q] = @ \o SubSeq(Readable(p), 1, n)]
      /\ preload' = IF FromPreload(p) THEN rest ELSE preload
      /\ inbound' = IF FromPreload(p) THEN inbound
                                      ELSE [inbound EXCEPT ![p] = rest]
      /\ headerSent' = (headerSent \/ p = "src")
      /\ UNCHANGED <<setup, phase, cancelled, peerVars, eof, copier>>

(* Mutated form: the copier ends without CloseWrite.                       *)
CopyEndsSilently(p) ==
  /\ copier[p] = "copying" /\ Readable(p) = <<>> /\ Ended(p)
  /\ copier' = [copier EXCEPT ![p] = "done"]
  /\ headerSent' = (headerSent \/ p = "src")
  /\ UNCHANGED <<setup, phase, cancelled, peerVars, preload, inbound,
                 outbound, eof>>

(* The end of p: io.Copy returns nil.  A deferred header goes out without  *)
(* a payload.                                                              *)
CopyEnds(p) ==
  /\ copier[p] = "copying" /\ Readable(p) = <<>> /\ Ended(p)
  /\ copier' = [copier EXCEPT ![p] = "done"]
  /\ CloseWriteTo(Other(p))
  /\ headerSent' = (headerSent \/ p = "src")
  /\ UNCHANGED <<setup, phase, cancelled, peerVars, preload, inbound,
                 outbound>>

(* Reading from p fails, or writing to Other(p), and then what was read is *)
(* lost: io.Copy returns an error.                                         *)
CopyFails(p) ==
  /\ copier[p] = "copying"
  /\ \/ /\ sending[p] = "reset" /\ Readable(p) = <<>>
        /\ UNCHANGED <<preload, inbound>>
     \/ /\ Deaf(Other(p)) /\ Readable(p) # <<>>
        /\ preload' = IF FromPreload(p) THEN <<>> ELSE preload
        /\ inbound' = IF FromPreload(p) THEN inbound
                                        ELSE [inbound EXCEPT ![p] = <<>>]
  /\ copier' = [copier EXCEPT ![p] = "done"]
  /\ CloseWriteTo(Other(p))
  /\ UNCHANGED <<setup, phase, cancelled, headerSent, peerVars, outbound>>

(* Mutated form: a copier that failed does not report to done.             *)
CloseAfterSuccess ==
  /\ phase = "pipe" /\ \A p \in Sides : copier[p] = "done"
  /\ NoReset
  /\ phase' = "closed"
  /\ eof' = [p \in Sides |-> TRUE]
  /\ UNCHANGED <<setup, cancelled, headerSent, peerVars, preload, inbound,
                 outbound, copier>>

(* Mutated form: Pipe waits for one copier only.                           *)
CloseAfterFirst ==
  /\ phase = "pipe" /\ \E p \in Sides : copier[p] = "done"
  /\ phase' = "closed"
  /\ eof' = [p \in Sides |-> TRUE]
  /\ UNCHANGED <<setup, cancelled, headerSent, peerVars, preload, inbound,
                 outbound, copier>>

(* Pipe has received from done twice and closes both sides.                *)
CloseBoth ==
  /\ phase = "pipe" /\ \A p \in Sides : copier[p] = "done"
  /\ phase' = "closed"
  /\ eof' = [p \in Sides |-> TRUE]
  /\ UNCHANGED <<setup, cancelled, headerSent, peerVars, preload, inbound,
                 outbound, copier>>

----------------------------------------------------------------------------

PeerStep(p) ==
  PeerSend(p) \/ PeerFinish(p) \/ PeerReset(p) \/ PeerRead(p) \/ PeerSeesEnd(p)

CopierStep(p) ==
  (\E n \in 1 .. MaxBytes : Copy(p, n)) \/ CopyEnds(p) \/ CopyFails(p)

----------------------------------------------------------------------------
(* Properties.                                                             *)

(* Every side reads a prefix of what the other has sent, the preloaded     *)
(* bytes first, and it reads the end only after all of it: one direction   *)
(* ending never cuts the other one off.                                    *)
EndAfterAllBytes ==
  \A p \in Sides :
    LET q == Other(p)
    IN  /\ got[p] = Bytes(1, Len(got[p])) /\ Len(got[p]) <= sent[q]
        /\ sawEnd[p] /\ NoReset /\ copier[q] # "idle"
             => Ended(q) /\ Len(got[p]) = sent[q]

(* Once a forwarding was started and both sides have finished or reset,    *)
(* both connections are closed: none is leaked by a copier that waits.     *)
FinishedIsClosed ==
  (phase = "pipe" /\ \A p \in Sides : sending[p] # "open")
    ~> (phase = "closed")

(* The end of either side reaches the other, if that one can be half       *)
(* closed, although it keeps its own direction open.                       *)
EndReachesOtherSide ==
  \A p \in Sides :
    (phase = "pipe" /\ sending[p] = "finished" /\ HalfClose(Other(p)))
      ~> (sawEnd[Other(p)] \/ ~ NoReset)

============================================================================
