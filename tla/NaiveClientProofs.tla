------------------------- MODULE NaiveClientProofs -------------------------
(***************************************************************************)
(* Proofs, for any number of calls, connections and slots, that padding    *)
(* agrees with the server, that every request slot is accounted for and    *)
(* that no connection is left behind.                                      *)
(***************************************************************************)
EXTENDS NaiveClient, FiniteSetTheorems, TLAPS

(* From Lock to Unlock in getConn.                                         *)
Holding == {"check", "dial", "setup"}

(* From Reserve to the end of the request: the call has a slot.            *)
HasSlot == {"request", "connect", "fast", "closing", "tunnel"}

(* A call between Lock and Unlock is the holder of clientConnMutex; it     *)
(* makes a connection only while none is cached.                           *)
MutexInv ==
  \A k \in Callers :
    /\ caller[k].pc \in Holding => lock = k
    /\ caller[k].pc \in {"dial", "setup"} => clientConn = None

(* Connections are dialed in order, and calls have those that were dialed. *)
DialedInv ==
  /\ clientConn <= dialed
  /\ \A k \in Callers :
       caller[k].pc \in {"setup"} \cup HasSlot =>
         caller[k].conn \in Conns /\ caller[k].conn <= dialed

(* The padding capability is stored only for a server that pads.           *)
PaddingKnown ==
  \A c \in Conns :
    conn[c].padding => conn[c].serverPads /\ c <= dialed

(* The calls that have a slot of a connection.                             *)
SlotsOn(c) == {k \in Callers : caller[k].conn = c /\ caller[k].pc \in HasSlot}

IInv ==
  /\ TypeOK
  /\ MutexInv
  /\ DialedInv
  /\ PaddingKnown
  /\ PaddingAgrees
  /\ SlotsAccountedFor
  /\ NoConnLeftBehind

----------------------------------------------------------------------------
(* Lemmas about slots, the mutex and the types of what one call changes.   *)

CallerStates == [pc: PCs, conn: Conns \cup {None}, padded: BOOLEAN]

(* A call that moves with a proper state leaves all of them with one.      *)
LEMMA CallerMoves ==
  ASSUME caller \in [Callers -> CallerStates], NEW k \in Callers,
         NEW pc \in PCs, NEW c \in Conns \cup {None}, NEW padded \in BOOLEAN
  PROVE  /\ [caller EXCEPT ![k].pc = pc, ![k].padded = padded]
              \in [Callers -> CallerStates]
         /\ [caller EXCEPT ![k].pc = pc, ![k].conn = c]
              \in [Callers -> CallerStates]
<1>1. caller[k] \in CallerStates
  OBVIOUS
<1>2. /\ [caller[k] EXCEPT !.pc = pc, !.padded = padded] \in CallerStates
      /\ [caller[k] EXCEPT !.pc = pc, !.conn = c] \in CallerStates
  BY <1>1 DEF CallerStates
<1> HIDE DEF CallerStates
<1> QED
  BY <1>2

(* So does a connection whose padding is learnt, or that is dialed.        *)
LEMMA ConnLearns ==
  ASSUME conn \in [Conns -> ConnStates], NEW c \in Conns, NEW p \in BOOLEAN
  PROVE  /\ [conn EXCEPT ![c].padding = p] \in [Conns -> ConnStates]
         /\ [conn EXCEPT ![c].alive = TRUE, ![c].serverPads = p]
              \in [Conns -> ConnStates]
<1>1. conn[c] \in ConnStates
  OBVIOUS
<1>2. /\ [conn[c] EXCEPT !.padding = p] \in ConnStates
      /\ [conn[c] EXCEPT !.alive = TRUE, !.serverPads = p] \in ConnStates
  BY <1>1 DEF ConnStates
<1> HIDE DEF ConnStates
<1> QED
  BY <1>2

(* The calls with a slot are finitely many, as the calls are.              *)
LEMMA SlotsOnFinite ==
  ASSUME NEW c \in Conns
  PROVE  IsFiniteSet(SlotsOn(c))
<1>1. SlotsOn(c) \in SUBSET Callers
  BY DEF SlotsOn
<1> QED
  BY <1>1, FS_Subset, NaiveClientAssumption

(* SlotsAccountedFor counts the calls of SlotsOn.                          *)
LEMMA SlotsCounted ==
  SlotsAccountedFor
    <=> \A c \in Conns : conn[c].slots = Cardinality(SlotsOn(c))
BY DEF SlotsAccountedFor, SlotsOn, HasSlot

(* The count holds in the next state by what that state has.               *)
LEMMA SlotsCountedNext ==
  ASSUME \A c \in Conns : conn'[c].slots = Cardinality(SlotsOn(c)')
  PROVE  SlotsAccountedFor'
BY DEF SlotsAccountedFor, SlotsOn, HasSlot

(* A step by which no call gets or loses a slot.                           *)
NoSlotMoves ==
  /\ \A k \in Callers :
       /\ (caller[k].pc \in HasSlot) = (caller'[k].pc \in HasSlot)
       /\ caller[k].pc \in HasSlot => caller'[k].conn = caller[k].conn
  /\ \A c \in Conns : conn'[c].slots = conn[c].slots

(* Such a step keeps the slots of every connection accounted for.          *)
LEMMA SlotsKept ==
  ASSUME SlotsAccountedFor, NoSlotMoves
  PROVE  SlotsAccountedFor'
<1>1. \A c \in Conns : SlotsOn(c)' = SlotsOn(c)
  BY DEF NoSlotMoves, SlotsOn
<1> QED
  BY <1>1, SlotsCounted, SlotsCountedNext DEF NoSlotMoves

(* Reserve: one call more has a slot, and one slot more is taken.          *)
LEMMA SlotTaken ==
  ASSUME SlotsAccountedFor, NEW k \in Callers, NEW c \in Conns,
         caller[k].pc \notin HasSlot,
         caller'[k].pc \in HasSlot, caller'[k].conn = c,
         \A j \in Callers \ {k} : caller'[j] = caller[j],
         conn'[c].slots = conn[c].slots + 1,
         \A d \in Conns \ {c} : conn'[d].slots = conn[d].slots
  PROVE  SlotsAccountedFor'
<1>1. SlotsOn(c)' = SlotsOn(c) \cup {k} /\ k \notin SlotsOn(c)
  BY DEF SlotsOn
<1>2. Cardinality(SlotsOn(c)') = Cardinality(SlotsOn(c)) + 1
  BY <1>1, SlotsOnFinite, FS_AddElement
<1>3. \A d \in Conns \ {c} : SlotsOn(d)' = SlotsOn(d)
  BY DEF SlotsOn
<1> QED
  BY <1>2, <1>3, SlotsCounted, SlotsCountedNext

(* A call that has a slot is counted: there is one to give back.           *)
LEMMA SlotThere ==
  ASSUME SlotsAccountedFor, NEW k \in Callers, NEW c \in Conns,
         caller[k].pc \in HasSlot, caller[k].conn = c
  PROVE  /\ conn[c].slots \in Nat /\ conn[c].slots > 0
         /\ Cardinality(SlotsOn(c) \ {k}) = conn[c].slots - 1
<1>1. k \in SlotsOn(c)
  BY DEF SlotsOn
<1>2. /\ Cardinality(SlotsOn(c)) \in Nat
      /\ Cardinality(SlotsOn(c)) = 0 => SlotsOn(c) = {}
  BY SlotsOnFinite, FS_CardinalityType, FS_EmptySet
<1>3. conn[c].slots = Cardinality(SlotsOn(c))
  BY SlotsCounted
<1>4. Cardinality(SlotsOn(c) \ {k}) = Cardinality(SlotsOn(c)) - 1
  BY <1>1, SlotsOnFinite, FS_RemoveElement
<1> QED
  BY <1>1, <1>2, <1>3, <1>4

(* The request of a call is over, and its slot is given back.              *)
LEMMA SlotFreed ==
  ASSUME SlotsAccountedFor, NEW k \in Callers, NEW c \in Conns,
         caller[k].pc \in HasSlot, caller[k].conn = c,
         caller'[k].pc \notin HasSlot,
         \A j \in Callers \ {k} : caller'[j] = caller[j],
         conn'[c].slots = conn[c].slots - 1,
         \A d \in Conns \ {c} : conn'[d].slots = conn[d].slots
  PROVE  SlotsAccountedFor'
<1>1. SlotsOn(c)' = SlotsOn(c) \ {k}
  BY DEF SlotsOn
<1>2. \A d \in Conns \ {c} : SlotsOn(d)' = SlotsOn(d)
  BY DEF SlotsOn
<1> QED
  BY <1>1, <1>2, SlotThere, SlotsCounted, SlotsCountedNext

(* Only the holder of clientConnMutex is between Lock and Unlock.          *)
LEMMA OneHolder ==
  ASSUME IInv, NEW j \in Callers, NEW k \in Callers,
         caller[j].pc \in Holding, caller[k].pc \in Holding
  PROVE  j = k
BY DEF IInv, MutexInv

----------------------------------------------------------------------------
(* The steps of getConn, DialTCP, connect and fastOpen.                    *)

(* The server or the network ends a connection; its slots stay taken until *)
(* the calls have noticed.                                                 *)
LEMMA ConnDiesPreserves ==
  ASSUME IInv, NEW c \in Conns, ConnDies(c)
  PROVE  IInv'
<1> USE DEF ConnDies, IInv, TypeOK, ConnStates
<1>1. TypeOK'
  BY ZenonT(60) DEF PCs, None
<1>2. MutexInv'
  BY NaiveClientAssumption DEF MutexInv, Holding, None
<1>3. DialedInv'
  BY DEF DialedInv, HasSlot, None, Conns
<1>4. PaddingKnown'
  BY DEF PaddingKnown, Conns
<1>5. PaddingAgrees'
  BY DEF PaddingAgrees, ConnOf, DialedInv, HasSlot
<1>6. SlotsAccountedFor'
  BY SlotsKept DEF NoSlotMoves, HasSlot
<1>7. NoConnLeftBehind'
  BY OneHolder DEF NoConnLeftBehind, At, MutexInv, Holding
<1> QED
  BY <1>1, <1>2, <1>3, <1>4, <1>5, <1>6, <1>7

(* A DialTCP call arrives.                                                 *)
LEMMA CallPreserves ==
  ASSUME IInv, NEW k \in Callers, Call(k)
  PROVE  IInv'
<1> USE DEF Call, At, Goto, IInv, TypeOK, ConnStates
<1>1. TypeOK'
  BY SMTT(60) DEF PCs, None
<1>2. MutexInv'
  BY NaiveClientAssumption DEF MutexInv, Holding, None
<1>3. DialedInv'
  BY DEF DialedInv, HasSlot, None, Conns
<1>4. PaddingKnown'
  BY DEF PaddingKnown, Conns
<1>5. PaddingAgrees'
  BY DEF PaddingAgrees, ConnOf, DialedInv, HasSlot
<1>6. SlotsAccountedFor'
  BY SlotsKept DEF NoSlotMoves, HasSlot
<1>7. NoConnLeftBehind'
  BY OneHolder DEF NoConnLeftBehind, At, MutexInv, Holding
<1> QED
  BY <1>1, <1>2, <1>3, <1>4, <1>5, <1>6, <1>7

(* clientConnMutex is taken only when no call holds it.                    *)
LEMMA LockPreserves ==
  ASSUME IInv, NEW k \in Callers, Lock(k)
  PROVE  IInv'
<1> USE DEF Lock, At, Goto, IInv, TypeOK, ConnStates
<1>1. TypeOK'
  BY SMTT(60) DEF PCs, None
<1>2. MutexInv'
  BY NaiveClientAssumption DEF MutexInv, Holding, None
<1>3. DialedInv'
  BY DEF DialedInv, HasSlot, None, Conns
<1>4. PaddingKnown'
  BY DEF PaddingKnown, Conns
<1>5. PaddingAgrees'
  BY DEF PaddingAgrees, ConnOf, DialedInv, HasSlot
<1>6. SlotsAccountedFor'
  BY SlotsKept DEF NoSlotMoves, HasSlot
<1>7. NoConnLeftBehind'
  BY OneHolder DEF NoConnLeftBehind, At, MutexInv, Holding
<1> QED
  BY <1>1, <1>2, <1>3, <1>4, <1>5, <1>6, <1>7

(* getConn reserves a slot of the cached connection, if one is free.       *)
LEMMA ReserveCachedPreserves ==
  ASSUME IInv, NEW k \in Callers, ReserveCached(k)
  PROVE  IInv'
<1> USE DEF ReserveCached, At, CachedCanReserve, CanReserve, Unlock,
            IInv, TypeOK, ConnStates
<1>0. PICK c \in Conns : c = clientConn
  BY DEF None
<1>1. TypeOK'
  <2>1. conn' \in [Conns -> ConnStates]
    <3>1. conn[c].slots + 1 \in 0 .. MaxStreams
      BY <1>0, NaiveClientAssumption
    <3>2. conn' = [conn EXCEPT ![c].slots = conn[c].slots + 1]
      BY <1>0
    <3> QED
      BY <3>1, <3>2
  <2>2. caller' \in [Callers -> [pc: PCs, conn: Conns \cup {None},
                                 padded: BOOLEAN]]
    BY ZenonT(60), <1>0 DEF PCs
  <2> QED
    BY <2>1, <2>2
<1>2. MutexInv'
  BY NaiveClientAssumption DEF MutexInv, Holding, None
<1>3. DialedInv'
  BY DEF DialedInv, HasSlot, None, Conns
<1>4. PaddingKnown'
  BY DEF PaddingKnown, Conns
<1>5. PaddingAgrees'
  BY DEF PaddingAgrees, ConnOf, DialedInv, HasSlot
<1>6. SlotsAccountedFor'
  BY <1>0, SlotTaken DEF HasSlot
<1>7. NoConnLeftBehind'
  BY OneHolder DEF NoConnLeftBehind, At, MutexInv, Holding
<1> QED
  BY <1>1, <1>2, <1>3, <1>4, <1>5, <1>6, <1>7

(* getConn gives up the cached connection; alive, it is one that was       *)
(* replaced.                                                               *)
LEMMA DropCachedPreserves ==
  ASSUME IInv, NEW k \in Callers, DropCached(k)
  PROVE  IInv'
<1> USE DEF DropCached, At, CachedCanReserve, Goto, IInv, TypeOK, ConnStates
<1>1. TypeOK'
  BY SMTT(60) DEF PCs, None
<1>2. MutexInv'
  BY NaiveClientAssumption DEF MutexInv, Holding, None
<1>3. DialedInv'
  BY DEF DialedInv, HasSlot, None, Conns
<1>4. PaddingKnown'
  BY DEF PaddingKnown, Conns
<1>5. PaddingAgrees'
  BY DEF PaddingAgrees, ConnOf, DialedInv, HasSlot
<1>6. SlotsAccountedFor'
  BY SlotsKept DEF NoSlotMoves, HasSlot
<1>7. NoConnLeftBehind'
  BY OneHolder DEF NoConnLeftBehind, At, MutexInv, Holding
<1> QED
  BY <1>1, <1>2, <1>3, <1>4, <1>5, <1>6, <1>7

(* A connection is dialed, to a server that pads or not; no call has had   *)
(* it before.                                                              *)
LEMMA DialTLSPreserves ==
  ASSUME IInv, NEW k \in Callers, DialTLS(k)
  PROVE  IInv'
<1> USE DEF DialTLS, At, IInv, TypeOK, ConnStates
<1>1. TypeOK'
  <2>1. PICK pads \in BOOLEAN :
          conn' = [conn EXCEPT ![dialed + 1].alive = TRUE,
                               ![dialed + 1].serverPads = pads]
    OBVIOUS
  <2>2. dialed + 1 \in Conns /\ dialed + 1 \in 0 .. MaxConns
    BY NaiveClientAssumption DEF Conns
  <2>0. conn \in [Conns -> ConnStates]
    OBVIOUS
  <2>3. conn' \in [Conns -> ConnStates]
    BY ONLY <2>1, <2>2, <2>0, ConnLearns
  <2>4. caller' \in [Callers -> [pc: PCs, conn: Conns \cup {None},
                                 padded: BOOLEAN]]
    BY <2>2, CallerMoves DEF PCs, CallerStates
  <2> QED
    BY <2>2, <2>3, <2>4
<1>2. MutexInv'
  BY NaiveClientAssumption DEF MutexInv, Holding, None
<1>3. DialedInv'
  BY DEF DialedInv, HasSlot, None, Conns
<1>4. PaddingKnown'
  BY DEF PaddingKnown, Conns
<1>5. PaddingAgrees'
  BY DEF PaddingAgrees, ConnOf, DialedInv, HasSlot
<1>6. SlotsAccountedFor'
  BY SlotsKept DEF NoSlotMoves, HasSlot
<1>7. NoConnLeftBehind'
  BY OneHolder DEF NoConnLeftBehind, At, MutexInv, Holding
<1> QED
  BY <1>1, <1>2, <1>3, <1>4, <1>5, <1>6, <1>7

(* Dialing fails: there is no connection.                                  *)
LEMMA DialFailsPreserves ==
  ASSUME IInv, NEW k \in Callers, DialFails(k)
  PROVE  IInv'
<1> USE DEF DialFails, At, Unlock, IInv, TypeOK, ConnStates
<1>1. TypeOK'
  BY ZenonT(60) DEF PCs, None
<1>2. MutexInv'
  BY NaiveClientAssumption DEF MutexInv, Holding, None
<1>3. DialedInv'
  BY DEF DialedInv, HasSlot, None, Conns
<1>4. PaddingKnown'
  BY DEF PaddingKnown, Conns
<1>5. PaddingAgrees'
  BY DEF PaddingAgrees, ConnOf, DialedInv, HasSlot
<1>6. SlotsAccountedFor'
  BY SlotsKept DEF NoSlotMoves, HasSlot
<1>7. NoConnLeftBehind'
  BY OneHolder DEF NoConnLeftBehind, At, MutexInv, Holding
<1> QED
  BY <1>1, <1>2, <1>3, <1>4, <1>5, <1>6, <1>7

(* The new connection gets cached, where there was none, and the call has  *)
(* its first slot.                                                         *)
LEMMA SetUpPreserves ==
  ASSUME IInv, NEW k \in Callers, SetUp(k)
  PROVE  IInv'
<1> USE DEF SetUp, At, CanReserve, Unlock, IInv, TypeOK, ConnStates
<1>0. PICK c \in Conns : c = caller[k].conn /\ c <= dialed
  BY DEF DialedInv
<1>1. TypeOK'
  <2>1. conn' \in [Conns -> ConnStates]
    <3>1. conn[c].slots + 1 \in 0 .. MaxStreams
      BY <1>0, NaiveClientAssumption
    <3>2. conn' = [conn EXCEPT ![c].slots = conn[c].slots + 1]
      BY <1>0
    <3> QED
      BY <3>1, <3>2
  <2>2. caller' \in [Callers -> [pc: PCs, conn: Conns \cup {None},
                                 padded: BOOLEAN]]
    BY <1>0 DEF PCs
  <2> QED
    BY <2>1, <2>2
<1>2. MutexInv'
  BY NaiveClientAssumption DEF MutexInv, Holding, None
<1>3. DialedInv'
  BY DEF DialedInv, HasSlot, None, Conns
<1>4. PaddingKnown'
  BY DEF PaddingKnown, Conns
<1>5. PaddingAgrees'
  BY DEF PaddingAgrees, ConnOf, DialedInv, HasSlot
<1>6. SlotsAccountedFor'
  <2>1. /\ caller'[k].pc \in HasSlot /\ caller'[k].conn = c
        /\ caller[k].pc \notin HasSlot
        /\ \A j \in Callers \ {k} : caller'[j] = caller[j]
    BY <1>0 DEF HasSlot
  <2>2. /\ conn'[c].slots = conn[c].slots + 1
        /\ \A d \in Conns \ {c} : conn'[d].slots = conn[d].slots
    BY <1>0
  <2> QED
    BY <2>1, <2>2, SlotTaken
<1>7. NoConnLeftBehind'
  <2>1. clientConn = None /\ clientConn' = c
    BY <1>0 DEF MutexInv
  <2>2. \A d \in Conns : conn'[d].alive = conn[d].alive
    BY <1>0
  <2>3. \A j \in Callers : caller[j].pc = "setup" => j = k
    BY OneHolder DEF Holding
  <2> QED
    BY <1>0, <2>1, <2>2, <2>3 DEF NoConnLeftBehind, None, Conns
<1> QED
  BY <1>1, <1>2, <1>3, <1>4, <1>5, <1>6, <1>7

(* An error path of getConn closes the connection it has dialed.           *)
LEMMA SetUpFailsPreserves ==
  ASSUME IInv, NEW k \in Callers, SetUpFails(k)
  PROVE  IInv'
<1> USE DEF SetUpFails, At, Unlock, IInv, TypeOK, ConnStates
<1>0. PICK c \in Conns : c = caller[k].conn /\ c <= dialed
  BY DEF DialedInv
<1>1. TypeOK'
  <2>1. conn' \in [Conns -> ConnStates]
    BY <1>0
  <2>2. caller' \in [Callers -> [pc: PCs, conn: Conns \cup {None},
                                 padded: BOOLEAN]]
    BY DEF PCs, None
  <2> QED
    BY <2>1, <2>2
<1>2. MutexInv'
  BY NaiveClientAssumption DEF MutexInv, Holding, None
<1>3. DialedInv'
  BY DEF DialedInv, HasSlot, None, Conns
<1>4. PaddingKnown'
  BY DEF PaddingKnown, Conns
<1>5. PaddingAgrees'
  BY DEF PaddingAgrees, ConnOf, DialedInv, HasSlot
<1>6. SlotsAccountedFor'
  BY SlotsKept DEF NoSlotMoves, HasSlot
<1>7. NoConnLeftBehind'
  BY OneHolder DEF NoConnLeftBehind, At, MutexInv, Holding
<1> QED
  BY <1>1, <1>2, <1>3, <1>4, <1>5, <1>6, <1>7

(* Fast Open takes the padding that is known of the connection.            *)
LEMMA SendRequestPreserves ==
  ASSUME IInv, NEW k \in Callers, SendRequest(k)
  PROVE  IInv'
<1> USE DEF SendRequest, At, ConnOf, IInv, TypeOK, ConnStates
<1>1. TypeOK'
  <2>1. PICK c \in Conns : c = caller[k].conn
    BY DEF DialedInv, HasSlot
  <2> DEFINE pc == IF conn[c].padding THEN "fast" ELSE "connect"
  <2>2. pc \in PCs /\ conn[c].padding \in BOOLEAN
    BY DEF PCs
  <2>3. caller' = [caller EXCEPT ![k].pc = pc, ![k].padded = conn[c].padding]
    BY <2>1
  <2> HIDE DEF pc
  <2>4. caller \in [Callers -> CallerStates]
    BY DEF CallerStates
  <2>5. caller' \in [Callers -> CallerStates]
    BY ONLY <2>2, <2>3, <2>4, CallerMoves
  <2> QED
    BY <2>5 DEF CallerStates
<1>2. MutexInv'
  BY NaiveClientAssumption DEF MutexInv, Holding, None
<1>3. DialedInv'
  BY DEF DialedInv, HasSlot, None, Conns
<1>4. PaddingKnown'
  BY DEF PaddingKnown, Conns
<1>5. PaddingAgrees'
  BY DEF PaddingAgrees, PaddingKnown, DialedInv, HasSlot
<1>6. SlotsAccountedFor'
  BY SlotsKept DEF NoSlotMoves, HasSlot
<1>7. NoConnLeftBehind'
  BY OneHolder DEF NoConnLeftBehind, At, MutexInv, Holding
<1> QED
  BY <1>1, <1>2, <1>3, <1>4, <1>5, <1>6, <1>7

(* The response tells whether the server pads.                             *)
LEMMA RespondPreserves ==
  ASSUME IInv, NEW k \in Callers, Respond(k)
  PROVE  IInv'
<1> USE DEF Respond, At, ConnOf, IInv, TypeOK, ConnStates
<1>0. PICK c \in Conns : c = caller[k].conn /\ c <= dialed
  BY DEF DialedInv, HasSlot
<1>1. TypeOK'
  <2> DEFINE padded == IF caller[k].pc = "connect" THEN conn[c].serverPads
                       ELSE caller[k].padded
  <2>1. padded \in BOOLEAN /\ conn[c].serverPads \in BOOLEAN
    OBVIOUS
  <2>2. conn' = [conn EXCEPT ![c].padding = conn[c].serverPads]
    BY <1>0
  <2>0. conn \in [Conns -> ConnStates]
    OBVIOUS
  <2>3. conn' \in [Conns -> ConnStates]
    BY ONLY <2>1, <2>2, <2>0, ConnLearns
  <2>4. caller' = [caller EXCEPT ![k].pc = "tunnel", ![k].padded = padded]
    BY <1>0
  <2> HIDE DEF padded
  <2>5. caller \in [Callers -> CallerStates] /\ "tunnel" \in PCs
    BY DEF CallerStates, PCs
  <2>6. caller' \in [Callers -> CallerStates]
    BY ONLY <2>1, <2>4, <2>5, CallerMoves
  <2> QED
    BY <2>3, <2>6 DEF CallerStates
<1>2. MutexInv'
  BY NaiveClientAssumption DEF MutexInv, Holding, None
<1>3. DialedInv'
  BY DEF DialedInv, HasSlot, None, Conns
<1>4. PaddingKnown'
  <2>1. conn' = [conn EXCEPT ![c].padding = conn[c].serverPads]
    BY <1>0
  <2> QED
    BY <1>0, <2>1 DEF PaddingKnown, Conns
<1>5. PaddingAgrees'
  BY DEF PaddingAgrees, PaddingKnown, DialedInv, HasSlot
<1>6. SlotsAccountedFor'
  BY SlotsKept DEF NoSlotMoves, HasSlot
<1>7. NoConnLeftBehind'
  BY OneHolder DEF NoConnLeftBehind, At, MutexInv, Holding
<1> QED
  BY <1>1, <1>2, <1>3, <1>4, <1>5, <1>6, <1>7

(* RoundTrip returns an error: the slot is free again.                     *)
LEMMA RequestFailsPreserves ==
  ASSUME IInv, NEW k \in Callers, RequestFails(k)
  PROVE  IInv'
<1> USE DEF RequestFails, At, Goto, FreeSlot, IInv, TypeOK, ConnStates
<1>0. PICK c \in Conns : c = caller[k].conn /\ c <= dialed
  BY DEF DialedInv, HasSlot
<1>1. TypeOK'
  <2>1. conn' \in [Conns -> ConnStates]
    <3>1. conn[c].slots - 1 \in 0 .. MaxStreams
      <4>1. conn[c].slots \in 0 .. MaxStreams
        OBVIOUS
      <4>2. conn[c].slots > 0
        BY <1>0, SlotThere DEF HasSlot
      <4> QED
        BY <4>1, <4>2, NaiveClientAssumption
    <3>2. conn' = [conn EXCEPT ![c].slots = conn[c].slots - 1]
      BY <1>0
    <3> QED
      BY <3>1, <3>2
  <2>2. caller' \in [Callers -> [pc: PCs, conn: Conns \cup {None},
                                 padded: BOOLEAN]]
    BY DEF PCs
  <2> QED
    BY <2>1, <2>2
<1>2. MutexInv'
  BY NaiveClientAssumption DEF MutexInv, Holding, None
<1>3. DialedInv'
  BY DEF DialedInv, HasSlot, None, Conns
<1>4. PaddingKnown'
  BY DEF PaddingKnown, Conns
<1>5. PaddingAgrees'
  BY DEF PaddingAgrees, ConnOf, DialedInv, HasSlot
<1>6. SlotsAccountedFor'
  BY <1>0, SlotFreed DEF HasSlot
<1>7. NoConnLeftBehind'
  BY OneHolder DEF NoConnLeftBehind, At, MutexInv, Holding
<1> QED
  BY <1>1, <1>2, <1>3, <1>4, <1>5, <1>6, <1>7

(* RoundTrip returns because Close has cancelled it.                       *)
LEMMA RequestCancelledPreserves ==
  ASSUME IInv, NEW k \in Callers, RequestCancelled(k)
  PROVE  IInv'
<1> USE DEF RequestCancelled, At, Goto, FreeSlot, IInv, TypeOK, ConnStates
<1>0. PICK c \in Conns : c = caller[k].conn /\ c <= dialed
  BY DEF DialedInv, HasSlot
<1>1. TypeOK'
  <2>1. conn' \in [Conns -> ConnStates]
    <3>1. conn[c].slots - 1 \in 0 .. MaxStreams
      <4>1. conn[c].slots \in 0 .. MaxStreams
        OBVIOUS
      <4>2. conn[c].slots > 0
        BY <1>0, SlotThere DEF HasSlot
      <4> QED
        BY <4>1, <4>2, NaiveClientAssumption
    <3>2. conn' = [conn EXCEPT ![c].slots = conn[c].slots - 1]
      BY <1>0
    <3> QED
      BY <3>1, <3>2
  <2>2. caller' \in [Callers -> [pc: PCs, conn: Conns \cup {None},
                                 padded: BOOLEAN]]
    BY DEF PCs
  <2> QED
    BY <2>1, <2>2
<1>2. MutexInv'
  BY NaiveClientAssumption DEF MutexInv, Holding, None
<1>3. DialedInv'
  BY DEF DialedInv, HasSlot, None, Conns
<1>4. PaddingKnown'
  BY DEF PaddingKnown, Conns
<1>5. PaddingAgrees'
  BY DEF PaddingAgrees, ConnOf, DialedInv, HasSlot
<1>6. SlotsAccountedFor'
  BY <1>0, SlotFreed DEF HasSlot
<1>7. NoConnLeftBehind'
  BY OneHolder DEF NoConnLeftBehind, At, MutexInv, Holding
<1> QED
  BY <1>1, <1>2, <1>3, <1>4, <1>5, <1>6, <1>7

(* The relay closes a tunnel.                                              *)
LEMMA CloseTunnelPreserves ==
  ASSUME IInv, NEW k \in Callers, CloseTunnel(k)
  PROVE  IInv'
<1> USE DEF CloseTunnel, At, Goto, FreeSlot, IInv, TypeOK, ConnStates
<1>0. PICK c \in Conns : c = caller[k].conn /\ c <= dialed
  BY DEF DialedInv, HasSlot
<1>1. TypeOK'
  <2>1. conn' \in [Conns -> ConnStates]
    <3>1. conn[c].slots - 1 \in 0 .. MaxStreams
      <4>1. conn[c].slots \in 0 .. MaxStreams
        OBVIOUS
      <4>2. conn[c].slots > 0
        BY <1>0, SlotThere DEF HasSlot
      <4> QED
        BY <4>1, <4>2, NaiveClientAssumption
    <3>2. conn' = [conn EXCEPT ![c].slots = conn[c].slots - 1]
      BY <1>0
    <3> QED
      BY <3>1, <3>2
  <2>2. caller' \in [Callers -> [pc: PCs, conn: Conns \cup {None},
                                 padded: BOOLEAN]]
    BY DEF PCs
  <2> QED
    BY <2>1, <2>2
<1>2. MutexInv'
  BY NaiveClientAssumption DEF MutexInv, Holding, None
<1>3. DialedInv'
  BY DEF DialedInv, HasSlot, None, Conns
<1>4. PaddingKnown'
  BY DEF PaddingKnown, Conns
<1>5. PaddingAgrees'
  BY DEF PaddingAgrees, ConnOf, DialedInv, HasSlot
<1>6. SlotsAccountedFor'
  BY <1>0, SlotFreed DEF HasSlot
<1>7. NoConnLeftBehind'
  BY OneHolder DEF NoConnLeftBehind, At, MutexInv, Holding
<1> QED
  BY <1>1, <1>2, <1>3, <1>4, <1>5, <1>6, <1>7

(* A tunnel is closed before its response: the request keeps its slot      *)
(* until RoundTrip has returned.                                           *)
LEMMA CloseEarlyPreserves ==
  ASSUME IInv, NEW k \in Callers, CloseEarly(k)
  PROVE  IInv'
<1> USE DEF CloseEarly, At, Goto, IInv, TypeOK, ConnStates
<1>1. TypeOK'
  BY SMTT(60) DEF PCs, None
<1>2. MutexInv'
  BY NaiveClientAssumption DEF MutexInv, Holding, None
<1>3. DialedInv'
  BY DEF DialedInv, HasSlot, None, Conns
<1>4. PaddingKnown'
  BY DEF PaddingKnown, Conns
<1>5. PaddingAgrees'
  BY DEF PaddingAgrees, ConnOf, DialedInv, HasSlot
<1>6. SlotsAccountedFor'
  BY SlotsKept DEF NoSlotMoves, HasSlot
<1>7. NoConnLeftBehind'
  BY OneHolder DEF NoConnLeftBehind, At, MutexInv, Holding
<1> QED
  BY <1>1, <1>2, <1>3, <1>4, <1>5, <1>6, <1>7

(* A tunnel whose request has failed is closed; its slot was given back.   *)
LEMMA CloseBrokenPreserves ==
  ASSUME IInv, NEW k \in Callers, CloseBroken(k)
  PROVE  IInv'
<1> USE DEF CloseBroken, At, Goto, IInv, TypeOK, ConnStates
<1>1. TypeOK'
  BY SMTT(60) DEF PCs, None
<1>2. MutexInv'
  BY NaiveClientAssumption DEF MutexInv, Holding, None
<1>3. DialedInv'
  BY DEF DialedInv, HasSlot, None, Conns
<1>4. PaddingKnown'
  BY DEF PaddingKnown, Conns
<1>5. PaddingAgrees'
  BY DEF PaddingAgrees, ConnOf, DialedInv, HasSlot
<1>6. SlotsAccountedFor'
  BY SlotsKept DEF NoSlotMoves, HasSlot
<1>7. NoConnLeftBehind'
  BY OneHolder DEF NoConnLeftBehind, At, MutexInv, Holding
<1> QED
  BY <1>1, <1>2, <1>3, <1>4, <1>5, <1>6, <1>7

----------------------------------------------------------------------------
(* The theorems.                                                           *)

(* No connection is dialed and no call has come.                           *)
LEMMA InitIInv == Init => IInv
<1> SUFFICES ASSUME Init PROVE IInv
  OBVIOUS
<1> USE DEF Init
<1>1. TypeOK
  BY NaiveClientAssumption DEF TypeOK, Conns, ConnStates, PCs, None
<1>2. MutexInv /\ DialedInv /\ PaddingKnown /\ PaddingAgrees
  BY DEF MutexInv, DialedInv, PaddingKnown, PaddingAgrees, HasSlot, Holding,
         None
<1>3. SlotsAccountedFor
  <2>1. \A c \in Conns : SlotsOn(c) = {}
    BY DEF SlotsOn, HasSlot
  <2> QED
    BY <2>1, SlotsCounted, FS_EmptySet
<1>4. NoConnLeftBehind
  BY DEF NoConnLeftBehind
<1> QED
  BY <1>1, <1>2, <1>3, <1>4 DEF IInv

(* The inductive invariant: slots, padding and mutex need what is known of *)
(* dialed and cached connections at each step of a call.                   *)
LEMMA IInvInvariant == Spec => []IInv
<1>1. IInv /\ [Next]_vars => IInv'
  <2> SUFFICES ASSUME IInv, [Next]_vars PROVE IInv'
    OBVIOUS
  <2>1. CASE UNCHANGED vars
    BY <2>1 DEF vars, IInv, TypeOK, MutexInv, DialedInv, PaddingKnown,
                PaddingAgrees, SlotsAccountedFor, NoConnLeftBehind, At, ConnOf
  <2>2. ASSUME NEW k \in Callers,
               \/ Call(k) \/ Respond(k) \/ RequestFails(k)
               \/ CloseEarly(k) \/ CloseTunnel(k) \/ CloseBroken(k)
        PROVE  IInv'
    BY <2>2, CallPreserves, RespondPreserves, RequestFailsPreserves,
       CloseEarlyPreserves, CloseTunnelPreserves, CloseBrokenPreserves
  <2>3. ASSUME NEW k \in Callers, DialTCP(k)
        PROVE  IInv'
    BY <2>3, LockPreserves, ReserveCachedPreserves, DropCachedPreserves,
       DialTLSPreserves, DialFailsPreserves, SetUpPreserves,
       SetUpFailsPreserves, SendRequestPreserves, RequestFailsPreserves,
       RequestCancelledPreserves
    DEF DialTCP, ConnectionLost
  <2>4. ASSUME NEW c \in Conns, ConnDies(c)
        PROVE  IInv'
    BY <2>4, ConnDiesPreserves
  <2> QED
    BY <2>1, <2>2, <2>3, <2>4 DEF Next
<1> QED
  BY <1>1, InitIInv, PTL DEF Spec

(* np_carrier/client.go keeps its calls and connections in the states it   *)
(* knows, and never takes more slots than the server allows.               *)
THEOREM TypeCorrect == Spec => []TypeOK
<1>1. IInv => TypeOK
  BY DEF IInv
<1> QED
  BY <1>1, IInvInvariant, PTL

(* Client and server agree on padding for every tunnel, also for one that  *)
(* Fast Open has opened before its response.                               *)
THEOREM TunnelsPadAsServer == Spec => []PaddingAgrees
<1>1. IInv => PaddingAgrees
  BY DEF IInv
<1> QED
  BY <1>1, IInvInvariant, PTL

(* getConn's reservations are those of calls that still run, for any       *)
(* number of calls: none is leaked and none is given back twice.           *)
THEOREM SlotsAreThoseOfCalls == Spec => []SlotsAccountedFor
<1>1. IInv => SlotsAccountedFor
  BY DEF IInv
<1> QED
  BY <1>1, IInvInvariant, PTL

(* No error path of getConn leaves a live connection that nobody knows.    *)
THEOREM ConnectionsAreKnown == Spec => []NoConnLeftBehind
<1>1. IInv => NoConnLeftBehind
  BY DEF IInv
<1> QED
  BY <1>1, IInvInvariant, PTL

=============================================================================
