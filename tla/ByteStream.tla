----------------------------- MODULE ByteStream -----------------------------
(***************************************************************************)
(* What one direction of a carrier connection promises to the relay that   *)
(* uses it: the bytes written arrive in order, none lost, none repeated    *)
(* and none invented; the reader sees the end of the stream only after the *)
(* last byte; and it is disturbed only by a fault of the network below.    *)
(* Bytes are named by their position in the stream.                        *)
(***************************************************************************)
EXTENDS Integers, Sequences

CONSTANT MaxBytes        \* bound: bytes written in a behaviour

VARIABLES
  sent,      \* the bytes the writer has accepted
  received,  \* the bytes the reader has handed on
  writer,    \* "open", or "closed" once nothing more is written
  link,      \* "up", or "faulty" once the network has failed the stream
  reader     \* "open", "ended" after a clean end, "failed" after an error

vars == <<sent, received, writer, link, reader>>

(* The bytes at the positions from..to of the stream.                      *)
Bytes(from, to) == [i \in 1 .. (to - from + 1) |-> from + i - 1]

Init ==
  /\ sent = <<>>
  /\ received = <<>>
  /\ writer = "open"
  /\ link = "up"
  /\ reader = "open"

Send ==
  /\ writer = "open"
  /\ \E n \in (Len(sent) + 1) .. MaxBytes : sent' = Bytes(1, n)
  /\ UNCHANGED <<received, writer, link, reader>>

CloseWriter ==
  /\ writer = "open"
  /\ writer' = "closed"
  /\ UNCHANGED <<sent, received, link, reader>>

Fault ==
  /\ link = "up"
  /\ link' = "faulty"
  /\ UNCHANGED <<sent, received, writer, reader>>

Deliver ==
  /\ reader = "open"
  /\ \E n \in (Len(received) + 1) .. Len(sent) : received' = SubSeq(sent, 1, n)
  /\ UNCHANGED <<sent, writer, link, reader>>

(* A reader may return its last bytes together with the end or the error.  *)
End ==
  /\ reader = "open"
  /\ \/ writer = "closed" /\ received' = sent /\ reader' = "ended"
     \/ /\ link = "faulty" /\ reader' \in {"ended", "failed"}
        /\ \E n \in Len(received) .. Len(sent) : received' = SubSeq(sent, 1, n)
  /\ UNCHANGED <<sent, writer, link>>

Next == Send \/ CloseWriter \/ Fault \/ Deliver \/ End

Safety == Init /\ [][Next]_vars

(* On a network without a fault the reader keeps up with the writer and    *)
(* sees its end.                                                           *)
Spec == Safety /\ WF_vars(link = "up" /\ (Deliver \/ End))

============================================================================
