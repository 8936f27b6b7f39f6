------------------------------ MODULE Carriers ------------------------------
(***************************************************************************)
(* The carriers with a framing of their own, Shadowsocks 2022 (SSStream)   *)
(* and padded NaiveProxy (PaddingStream), each of which the relay uses as  *)
(* the byte stream it promises to be (ByteStream).  The two share the      *)
(* variables of a stream (taken, writer, wire, link, reading, received);   *)
(* padded tells which of them a behaviour is about.                        *)
(***************************************************************************)
EXTENDS SSStream

CONSTANTS
  FirstPaddings,
  MaxOriginalPayloadSize,
  MaxPaddingSize,
  MaxEmptyFrames,   \* bound: empty frames a foreign peer sends
  PaddedReadSizes   \* lengths of the buffers passed to paddingReader.Read

ASSUME PaddingAssumption ==
  /\ {FirstPaddings, MaxPaddingSize, MaxEmptyFrames} \subseteq Nat
  /\ MaxOriginalPayloadSize \in Nat \ {0}
  /\ PaddedReadSizes \subseteq Nat \ {0}

VARIABLES
  padded,           \* TRUE: a padded NaiveProxy stream; FALSE: Shadowsocks
  pending, writerCount, emptyFrames, readerCount, payloadRemaining,
  paddingRemaining, held                          \* as in PaddingStream

Padded == INSTANCE PaddingStream WITH ReadSizes <- PaddedReadSizes

paddedVars == <<pending, writerCount, emptyFrames, readerCount,
                payloadRemaining, paddingRemaining, held>>
sealedVars == <<isClient, hasWriteFirstPayload, nonceWriter, expect,
                nonceReader, readerBuf>>
carrierVars == <<vars, padded, paddedVars>>

(* The variables of the carrier a behaviour is not about keep a value.     *)
CarrierInit ==
  \/ /\ padded = FALSE /\ Init
     /\ pending = 0 /\ writerCount = 0 /\ emptyFrames = 0 /\ readerCount = 0
     /\ payloadRemaining = 0 /\ paddingRemaining = 0 /\ held = <<>>
  \/ /\ padded = TRUE /\ Padded!Init
     /\ isClient = FALSE /\ hasWriteFirstPayload = FALSE /\ nonceWriter = 0
     /\ expect = 0 /\ nonceReader = 0 /\ readerBuf = <<>>

CarrierReads ==
  \/ ~ padded /\ ReadStep /\ UNCHANGED <<padded, paddedVars>>
  \/ padded /\ Padded!ReadStep /\ UNCHANGED <<padded, sealedVars>>

CarrierNext ==
  \/ CarrierReads
  \/ ~ padded /\ (Write \/ Network) /\ UNCHANGED <<padded, paddedVars>>
  \/ padded /\ (Padded!Write \/ Padded!Cut) /\ UNCHANGED <<padded, sealedVars>>

(* The reading goroutine runs whenever there is something for it.          *)
CarrierSpec ==
  CarrierInit /\ [][CarrierNext]_carrierVars /\ WF_carrierVars(CarrierReads)

----------------------------------------------------------------------------
(* conn.ReadFrom seals no chunk whose size its length field, of 16 bits,   *)
(* could not announce, although a request's first payload shares its chunk *)
(* with an address and padding: no announced length is ever truncated.     *)
(* paddingReader.Read finds no payload or padding beyond what the writer's *)
(* frames hold, and counts no frame beyond those that are padded.          *)
CarrierTypeOK == IF padded THEN Padded!TypeOK ELSE TypeOK

(* Writer and reader stay in step without a word about it on the wire: the *)
(* nonces and length fields of Shadowsocks, the number of padded frames of *)
(* NaiveProxy, after which both sides stop framing at the same byte.       *)
FramingInStep == IF padded THEN Padded!FramesInStep ELSE ChunksInStep

Stream == INSTANCE ByteStream WITH
  sent <- Bytes(1, taken),
  writer <- IF padded THEN writer ELSE StreamWriter,
  link <- IF padded THEN Padded!StreamLink ELSE StreamLink,
  reader <- IF padded THEN Padded!StreamReader ELSE StreamReader

(* Each carrier implements a byte stream: whatever sizes the source and    *)
(* the callers use and whatever the padding, even if chunks are dropped,   *)
(* exchanged or altered, what is handed on is a prefix of what was written *)
(* and, without a fault, all of it, then the end.                          *)
ImplementsByteStream == Stream!Spec
=============================================================================
