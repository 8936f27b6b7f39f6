--------------------------- MODULE AdmissionProofs ---------------------------
(***************************************************************************)
(* Proofs of which peers a carrier's server lets in.  For every number of  *)
(* sessions, salts and messages and for every clock, a Shadowsocks server  *)
(* accepts no replay (SaltPool); for every set of streams and whatever the *)
(* peer sends on them, a SunnyQUIC server dials for a connection only once *)
(* it is authenticated and past its handshake (SunnyServer).               *)
(***************************************************************************)
EXTENDS SaltPool, SunnyServer, TLAPS

(* A session holds a message once it has been accepted, and an admission   *)
(* time once it is past the salt check.                                    *)
SessionInv ==
  \A s \in Sessions :
    /\ sess[s].pc # "idle" => sess[s].msg \in Messages
    /\ sess[s].pc \in {"idle", "reading", "salt"} => ~ Admitted(s)
    /\ sess[s].pc \in {"fixedHeader", "varHeader", "established"}
         => Admitted(s)
    /\ sess[s].admittedAt <= now

(* The clock is bounded, nothing in the pool lies in the future, and the   *)
(* last cleaning left no entry that was expired at that time.              *)
PoolInv ==
  /\ lastCleaned <= now /\ now <= MaxTime
  /\ \A x \in Salts :
       /\ pool[x] <= now
       /\ pool[x] # NotStored => lastCleaned - pool[x] <= RetainDuration

(* The salt of an admitted session is still stored, with that admission or *)
(* a later one, unless the admission lies more than RetainDuration back.   *)
PoolCoversAdmissions ==
  \A s \in Sessions : Admitted(s) =>
    \/ pool[SaltOf(s)] >= sess[s].admittedAt
    \/ now - sess[s].admittedAt > RetainDuration

(* A session past the header check was admitted no later than the header's *)
(* last valid second, if its timestamp is not negative as an int64.        *)
AdmittedBeforeWindowEnd ==
  \A s \in Sessions :
    /\ sess[s].pc \in {"varHeader", "established"}
    /\ sess[s].msg.timestamp <= MaxInt64
    => UnixTime(sess[s].admittedAt) - sess[s].msg.timestamp <= MaxUnixTimeDiff

IInv ==
  /\ TypeOK
  /\ SessionInv
  /\ PoolInv
  /\ PoolCoversAdmissions
  /\ NoReplayWithinRetain
  /\ StoredSinceAdmission
  /\ AdmittedBeforeWindowEnd

(* Every session is about a message of Messages or NoMessage, so the salt  *)
(* of an accepted session indexes the pool.                                *)
LEMMA SaltIsKnown ==
  ASSUME IInv, NEW s \in Sessions, sess[s].pc # "idle"
  PROVE  /\ sess[s].msg \in Messages
         /\ SaltOf(s) \in Salts
         /\ sess[s].msg.timestamp \in Nat
BY MessageAssumption, ClockAssumption DEF IInv, SessionInv, SaltOf, Timestamps

(* A session that was ever admitted is not idle.                           *)
LEMMA AdmittedNotIdle ==
  ASSUME IInv, NEW s \in Sessions, Admitted(s)
  PROVE  sess[s].pc # "idle" /\ SaltOf(s) \in Salts
         /\ sess[s].admittedAt \in Nat
<1>1. sess[s].pc # "idle"
  BY DEF IInv, SessionInv
<1>2. sess[s].admittedAt \in Nat
  BY DEF IInv, TypeOK, SessionStates, Instants, Admitted, NeverAdmitted
<1> QED
  BY <1>1, <1>2, SaltIsKnown

(* Whole seconds never decrease as ticks increase.                         *)
LEMMA UnixTimeMonotone ==
  ASSUME NEW t \in Nat, NEW u \in Nat, t <= u
  PROVE  UnixTime(t) \in Nat /\ UnixTime(u) \in Nat
         /\ UnixTime(t) <= UnixTime(u)
BY ClockAssumption DEF UnixTime

(* The header check as the arithmetic of unbounded integers: it is that,   *)
(* unless the timestamp is negative as an int64.                           *)
LEMMA UnixTimeBounded ==
  ASSUME IInv, NEW ts \in Nat, ts <= MaxInt64, UnixTimeInRange(ts)
  PROVE  UnixTime(now) - ts <= MaxUnixTimeDiff
<1>1. now \in Nat /\ now <= MaxInt64
  BY ClockAssumption DEF IInv, TypeOK, PoolInv
<1>2. UnixTime(now) \in Nat /\ UnixTime(now) <= now
  BY <1>1, ClockAssumption DEF UnixTime
<1> QED
  BY <1>1, <1>2, ClockAssumption DEF UnixTimeInRange, Int64

(* Initial states satisfy the inductive invariant.                         *)
LEMMA InitIInv == Init => IInv
BY ClockAssumption
DEF Init, IInv, TypeOK, SessionInv, PoolInv, PoolCoversAdmissions,
    NoReplayWithinRetain, StoredSinceAdmission, AdmittedBeforeWindowEnd,
    SessionStates, Instants, PCs, Admitted, NeverAdmitted, NotStored

(* The clock moves: admissions only become older.                          *)
LEMMA TickPreserves == ASSUME IInv, Tick PROVE IInv'
<1> USE DEF Tick
<1>1. TypeOK'
  BY DEF IInv, TypeOK
<1>2. SessionInv'
  BY DEF IInv, TypeOK, SessionInv, SessionStates, Instants, Admitted
<1>3. PoolInv'
  BY ClockAssumption DEF IInv, TypeOK, PoolInv, Instants
<1>4. PoolCoversAdmissions'
  <2> SUFFICES ASSUME NEW s \in Sessions, Admitted(s)'
               PROVE  (\/ pool[SaltOf(s)] >= sess[s].admittedAt
                       \/ now - sess[s].admittedAt > RetainDuration)'
    BY DEF PoolCoversAdmissions
  <2>1. Admitted(s)
    BY DEF Admitted
  <2>2. sess[s].admittedAt \in Nat
    BY <2>1, AdmittedNotIdle
  <2> QED
    BY <2>1, <2>2, ClockAssumption
    DEF IInv, TypeOK, PoolCoversAdmissions, SaltOf
<1>5. NoReplayWithinRetain' /\ StoredSinceAdmission'
      /\ AdmittedBeforeWindowEnd'
  BY DEF IInv, NoReplayWithinRetain, StoredSinceAdmission,
         AdmittedBeforeWindowEnd, Admitted, SaltOf
<1> QED
  BY <1>1, <1>2, <1>3, <1>4, <1>5 DEF IInv

(* A step that leaves the clock and the pool alone and moves one session   *)
(* on, without changing its message or its admission time.                 *)
LEMMA MovePreserves ==
  ASSUME IInv, NEW s \in Sessions, NEW pc \in PCs,
         UNCHANGED <<now, pool, lastCleaned>>,
         sess' \in [Sessions -> SessionStates],
         \A t \in Sessions : /\ sess'[t].msg = sess[t].msg
                             /\ sess'[t].admittedAt = sess[t].admittedAt
                             /\ t # s => sess'[t].pc = sess[t].pc,
         sess'[s].pc = pc,
         sess[s].pc # "idle",
         pc \in {"idle", "reading", "salt"} => ~ Admitted(s),
         pc \in {"fixedHeader", "varHeader", "established"} => Admitted(s),
         pc \in {"varHeader", "established"}
           /\ sess[s].msg.timestamp <= MaxInt64 =>
             UnixTime(sess[s].admittedAt) - sess[s].msg.timestamp
               <= MaxUnixTimeDiff
  PROVE  IInv'
<1>1. TypeOK'
  BY DEF IInv, TypeOK
<1>2. SessionInv'
  BY DEF IInv, SessionInv, Admitted
<1>3. PoolInv' /\ PoolCoversAdmissions' /\ NoReplayWithinRetain'
  BY DEF IInv, PoolInv, PoolCoversAdmissions, NoReplayWithinRetain,
         Admitted, SaltOf
<1>4. StoredSinceAdmission'
  BY DEF IInv, StoredSinceAdmission, SaltOf
<1>5. AdmittedBeforeWindowEnd'
  BY DEF IInv, AdmittedBeforeWindowEnd
<1> QED
  BY <1>1, <1>2, <1>3, <1>4, <1>5 DEF IInv

(* Accepting a connection gives an idle session its message.               *)
LEMMA AcceptPreserves ==
  ASSUME IInv, NEW s \in Sessions, NEW m \in Messages, Accept(s, m)
  PROVE  IInv'
<1> USE DEF Accept
<1>1. TypeOK'
  BY DEF IInv, TypeOK, SessionStates, PCs
<1>2. /\ ~ Admitted(s)
      /\ \A t \in Sessions :
           /\ sess'[t].admittedAt = sess[t].admittedAt
           /\ t # s => sess'[t] = sess[t]
      /\ sess'[s].msg = m /\ sess'[s].pc = "reading"
  BY DEF IInv, TypeOK, SessionInv, SessionStates
<1>3. /\ ~ Admitted(s)'
      /\ \A t \in Sessions : t # s => /\ Admitted(t)' <=> Admitted(t)
                                      /\ SaltOf(t)' = SaltOf(t)
  BY <1>2 DEF Admitted, SaltOf
<1>4. SessionInv'
  <2> SUFFICES ASSUME NEW t \in Sessions
               PROVE  (/\ sess[t].pc # "idle" => sess[t].msg \in Messages
                       /\ sess[t].pc \in {"idle", "reading", "salt"}
                            => ~ Admitted(t)
                       /\ sess[t].pc \in {"fixedHeader", "varHeader",
                                          "established"} => Admitted(t)
                       /\ sess[t].admittedAt <= now)'
    BY DEF SessionInv
  <2>1. CASE t = s
    BY <2>1, <1>2, <1>3 DEF IInv, SessionInv
  <2>2. CASE t # s
    BY <2>2, <1>2, <1>3 DEF IInv, SessionInv
  <2> QED
    BY <2>1, <2>2
<1>5. PoolInv'
  BY DEF IInv, PoolInv
<1>6. PoolCoversAdmissions'
  <2> SUFFICES ASSUME NEW t \in Sessions, Admitted(t)'
               PROVE  (\/ pool[SaltOf(t)] >= sess[t].admittedAt
                       \/ now - sess[t].admittedAt > RetainDuration)'
    BY DEF PoolCoversAdmissions
  <2>1. t # s /\ Admitted(t) /\ sess'[t] = sess[t]
        /\ SaltOf(t)' = SaltOf(t)
    BY <1>2, <1>3
  <2>2. pool' = pool /\ now' = now
    OBVIOUS
  <2> QED
    BY <2>1, <2>2 DEF IInv, PoolCoversAdmissions
<1>7. NoReplayWithinRetain'
  <2> SUFFICES ASSUME NEW t \in Sessions, NEW u \in Sessions, t # u,
                      Admitted(t)', Admitted(u)', SaltOf(t)' = SaltOf(u)',
                      sess'[t].admittedAt <= sess'[u].admittedAt
               PROVE  sess'[u].admittedAt - sess'[t].admittedAt
                        > RetainDuration
    BY DEF NoReplayWithinRetain
  <2>1. t # s /\ u # s
    BY <1>3
  <2>2. /\ Admitted(t) /\ Admitted(u) /\ SaltOf(t) = SaltOf(u)
        /\ sess'[t] = sess[t] /\ sess'[u] = sess[u]
    BY <2>1, <1>2, <1>3
  <2> QED
    BY <2>2 DEF IInv, NoReplayWithinRetain
<1>8. StoredSinceAdmission'
  <2> SUFFICES ASSUME NEW x \in Salts, pool[x] # NotStored
               PROVE  \E t \in Sessions :
                        SaltOf(t)' = x /\ sess'[t].admittedAt = pool[x]
    BY DEF StoredSinceAdmission
  <2>1. PICK t \in Sessions : SaltOf(t) = x /\ sess[t].admittedAt = pool[x]
    BY DEF IInv, StoredSinceAdmission
  <2>2. t # s
    BY <2>1, <1>2 DEF Admitted, NotStored, NeverAdmitted
  <2> QED
    BY <2>1, <2>2, <1>2, <1>3
<1>9. AdmittedBeforeWindowEnd'
  BY <1>2 DEF IInv, AdmittedBeforeWindowEnd
<1> QED
  BY <1>1, <1>4, <1>5, <1>6, <1>7, <1>8, <1>9 DEF IInv

(* The first read call returns everything or fails.                        *)
LEMMA ReadSaltPreserves ==
  ASSUME IInv, NEW s \in Sessions, ReadSaltAndFixedHeader(s)
  PROVE  IInv'
<1> USE DEF ReadSaltAndFixedHeader
<1>1. ~ Admitted(s) /\ sess[s].pc = "reading"
  BY DEF IInv, SessionInv
<1>2. CASE FailWithErr(s)
  <2>1. sess' \in [Sessions -> SessionStates] /\ sess'[s].pc = "closed"
    BY <1>2 DEF FailWithErr, IInv, TypeOK, SessionStates, PCs
  <2> QED
    BY <1>1, <1>2, <2>1, MovePreserves
    DEF FailWithErr, IInv, TypeOK, SessionStates, PCs
<1>3. CASE Proceed(s, "salt")
  <2>1. sess' \in [Sessions -> SessionStates] /\ sess'[s].pc = "salt"
    BY <1>3 DEF Proceed, IInv, TypeOK, SessionStates, PCs
  <2> QED
    BY <1>1, <1>3, <2>1, MovePreserves
    DEF Proceed, IInv, TypeOK, SessionStates, PCs
<1> QED
  BY <1>2, <1>3

(* The header check: it passes only while the header's window is open, so  *)
(* the admission, which came earlier, is before the end of that window.    *)
LEMMA ValidatePreserves ==
  ASSUME IInv, NEW s \in Sessions, ValidateFixedHeader(s)
  PROVE  IInv'
<1> USE DEF ValidateFixedHeader
<1>1. Admitted(s) /\ sess[s].pc = "fixedHeader"
  BY DEF IInv, SessionInv
<1>2. CASE ~ FixedHeaderValid(s)
  <2>1. /\ sess' \in [Sessions -> SessionStates] /\ sess'[s].pc = "closed"
        /\ \A t \in Sessions : /\ sess'[t].msg = sess[t].msg
                               /\ sess'[t].admittedAt = sess[t].admittedAt
                               /\ t # s => sess'[t].pc = sess[t].pc
    BY <1>2 DEF FailWithErr, IInv, TypeOK, SessionStates, PCs
  <2> QED
    BY <1>1, <2>1, MovePreserves DEF PCs
<1>3. CASE FixedHeaderValid(s)
  <2>1. /\ sess' \in [Sessions -> SessionStates]
        /\ sess'[s].pc = "varHeader"
        /\ \A t \in Sessions : /\ sess'[t].msg = sess[t].msg
                               /\ sess'[t].admittedAt = sess[t].admittedAt
                               /\ t # s => sess'[t].pc = sess[t].pc
    BY <1>3 DEF Proceed, IInv, TypeOK, SessionStates, PCs
  <2>2. sess[s].msg.timestamp <= MaxInt64 =>
          UnixTime(now) - sess[s].msg.timestamp <= MaxUnixTimeDiff
    BY <1>1, <1>3, SaltIsKnown, UnixTimeBounded
    DEF FixedHeaderValid
  <2>3. UnixTime(sess[s].admittedAt) <= UnixTime(now)
        /\ UnixTime(sess[s].admittedAt) \in Nat /\ UnixTime(now) \in Nat
    BY <1>1, AdmittedNotIdle, UnixTimeMonotone DEF IInv, TypeOK, SessionInv
  <2>4. sess[s].msg.timestamp <= MaxInt64 =>
          UnixTime(sess[s].admittedAt) - sess[s].msg.timestamp
            <= MaxUnixTimeDiff
    BY <1>1, <2>2, <2>3, SaltIsKnown, ClockAssumption
  <2> QED
    BY <1>1, <2>1, <2>4, MovePreserves DEF PCs
<1> QED
  BY <1>2, <1>3

(* The variable-length header.                                             *)
LEMMA VarHeaderPreserves ==
  ASSUME IInv, NEW s \in Sessions, ReadVarHeader(s)
  PROVE  IInv'
<1> USE DEF ReadVarHeader
<1>1. /\ Admitted(s) /\ sess[s].pc = "varHeader"
      /\ sess[s].msg.timestamp <= MaxInt64 =>
           UnixTime(sess[s].admittedAt) - sess[s].msg.timestamp
             <= MaxUnixTimeDiff
  BY DEF IInv, SessionInv, AdmittedBeforeWindowEnd
<1>2. /\ sess' \in [Sessions -> SessionStates]
      /\ sess'[s].pc \in {"closed", "established"}
      /\ \A t \in Sessions : /\ sess'[t].msg = sess[t].msg
                             /\ sess'[t].admittedAt = sess[t].admittedAt
                             /\ t # s => sess'[t].pc = sess[t].pc
  BY DEF FailWithErr, FailWithErrNil, Proceed, IInv, TypeOK, SessionStates,
         PCs
<1> QED
  BY <1>1, <1>2, MovePreserves DEF PCs

(* What checkAndAdd does to the pool before it looks the salt up: an entry *)
(* is kept or, if it was expired, removed; none is added.                  *)
LEMMA CleanedPoolFacts ==
  ASSUME IInv
  PROVE  /\ CleanedPool \in [Salts -> Instants]
         /\ CleanedTime \in Nat /\ CleanedTime <= now
         /\ \A x \in Salts :
              /\ \/ CleanedPool[x] = pool[x]
                 \/ CleanedPool[x] = NotStored /\ Expired(x)
              /\ CleanedPool[x] # NotStored =>
                   CleanedTime - CleanedPool[x] <= RetainDuration
         /\ now - CleanedTime <= RetainDuration
<1> USE ClockAssumption DEF IInv, TypeOK, Instants, NotStored
<1>1. CASE CleaningDue
  BY <1>1 DEF CleanedPool, CleanedTime, Expired, PoolInv
<1>2. CASE ~ CleaningDue
  BY <1>2 DEF CleanedPool, CleanedTime, CleaningDue, PoolInv
<1> QED
  BY <1>1, <1>2

(* After the cleaning, the salt of an admitted session is still stored     *)
(* unless the admission lies more than RetainDuration back.                *)
LEMMA CleanedPoolCovers ==
  ASSUME IInv, NEW t \in Sessions, Admitted(t)
  PROVE  \/ CleanedPool[SaltOf(t)] >= sess[t].admittedAt
         \/ now - sess[t].admittedAt > RetainDuration
<1>1. /\ SaltOf(t) \in Salts
      /\ sess[t].admittedAt \in Nat
      /\ pool[SaltOf(t)] \in Instants
      /\ now \in Nat
  BY AdmittedNotIdle DEF IInv, TypeOK
<1>2. \/ pool[SaltOf(t)] >= sess[t].admittedAt
      \/ now - sess[t].admittedAt > RetainDuration
  BY DEF IInv, PoolCoversAdmissions
<1>3. CASE CleanedPool[SaltOf(t)] = pool[SaltOf(t)]
  BY <1>2, <1>3
<1>4. CASE Expired(SaltOf(t))
  BY <1>1, <1>2, <1>4, ClockAssumption DEF Expired, Instants
<1> QED
  BY <1>1, <1>3, <1>4, CleanedPoolFacts

(* A rejected replay changes the pool only by the cleaning.                *)
LEMMA RejectPreserves ==
  ASSUME IInv, NEW s \in Sessions, RejectReplay(s)
  PROVE  IInv'
<1> USE DEF RejectReplay, FailWithErrNil
<1>1. TypeOK'
  BY CleanedPoolFacts DEF IInv, TypeOK, SessionStates, PCs
<1>2. \A t \in Sessions :
        /\ sess'[t].msg = sess[t].msg
        /\ sess'[t].admittedAt = sess[t].admittedAt
        /\ t # s => sess'[t].pc = sess[t].pc
        /\ sess'[s].pc = "closed"
        /\ Admitted(t)' <=> Admitted(t)
        /\ SaltOf(t)' = SaltOf(t)
  BY DEF IInv, TypeOK, SessionStates, Admitted, SaltOf
<1>3. SessionInv'
  BY <1>2 DEF IInv, SessionInv
<1>4. PoolInv'
  BY CleanedPoolFacts DEF IInv, TypeOK, PoolInv, NotStored
<1>5. PoolCoversAdmissions'
  BY <1>2, CleanedPoolCovers DEF PoolCoversAdmissions
<1>6. NoReplayWithinRetain' /\ AdmittedBeforeWindowEnd'
  BY <1>2 DEF IInv, NoReplayWithinRetain, AdmittedBeforeWindowEnd
<1>7. StoredSinceAdmission'
  BY <1>2, CleanedPoolFacts DEF IInv, StoredSinceAdmission
<1> QED
  BY <1>1, <1>3, <1>4, <1>5, <1>6, <1>7 DEF IInv

(* An admission: the salt was not stored after the cleaning, so every      *)
(* earlier admission of it lies more than RetainDuration back.             *)
LEMMA AdmitPreserves ==
  ASSUME IInv, NEW s \in Sessions, AdmitSalt(s)
  PROVE  IInv'
<1> USE DEF AdmitSalt
<1>1. /\ SaltOf(s) \in Salts /\ ~ Admitted(s) /\ now \in Nat
      /\ sess[s].msg \in Messages
  BY SaltIsKnown DEF IInv, SessionInv, TypeOK
<1>2. TypeOK'
  BY <1>1, CleanedPoolFacts DEF IInv, TypeOK, SessionStates, PCs, Instants
<1>3. /\ \A t \in Sessions :
           /\ SaltOf(t)' = SaltOf(t)
           /\ t # s => sess'[t] = sess[t] /\ (Admitted(t)' <=> Admitted(t))
      /\ sess'[s].pc = "fixedHeader"
      /\ sess'[s].msg = sess[s].msg
      /\ sess'[s].admittedAt = now
      /\ Admitted(s)'
  BY <1>1 DEF IInv, TypeOK, SessionStates, Admitted, SaltOf, NeverAdmitted
<1>4. /\ pool'[SaltOf(s)] = now
      /\ \A x \in Salts : x # SaltOf(s) => pool'[x] = CleanedPool[x]
  BY <1>1, CleanedPoolFacts
<1>5. SessionInv'
  <2> SUFFICES ASSUME NEW t \in Sessions
               PROVE  (/\ sess[t].pc # "idle" => sess[t].msg \in Messages
                       /\ sess[t].pc \in {"idle", "reading", "salt"}
                            => ~ Admitted(t)
                       /\ sess[t].pc \in {"fixedHeader", "varHeader",
                                          "established"} => Admitted(t)
                       /\ sess[t].admittedAt <= now)'
    BY DEF SessionInv
  <2>1. CASE t = s
    BY <2>1, <1>1, <1>3
  <2>2. CASE t # s
    BY <2>2, <1>3 DEF IInv, SessionInv
  <2> QED
    BY <2>1, <2>2
<1>6. PoolInv'
  <2> SUFFICES ASSUME NEW x \in Salts
               PROVE  /\ pool'[x] <= now
                      /\ pool'[x] # NotStored =>
                           CleanedTime - pool'[x] <= RetainDuration
    BY CleanedPoolFacts DEF IInv, PoolInv
  <2>1. CASE x = SaltOf(s)
    BY <2>1, <1>1, <1>4, CleanedPoolFacts, ClockAssumption
  <2>2. CASE x # SaltOf(s)
    BY <2>2, <1>1, <1>4, CleanedPoolFacts
    DEF IInv, PoolInv, NotStored
  <2> QED
    BY <2>1, <2>2
<1>7. PoolCoversAdmissions'
  <2> SUFFICES ASSUME NEW t \in Sessions, Admitted(t)'
               PROVE  \/ pool'[SaltOf(t)] >= sess'[t].admittedAt
                      \/ now - sess'[t].admittedAt > RetainDuration
    BY <1>3 DEF PoolCoversAdmissions
  <2>1. CASE t = s
    BY <2>1, <1>1, <1>3, <1>4
  <2>2. CASE t # s
    <3>1. Admitted(t) /\ sess'[t] = sess[t] /\ SaltOf(t) \in Salts
          /\ sess[t].admittedAt \in Nat /\ sess[t].admittedAt <= now
      BY <2>2, <1>3, AdmittedNotIdle DEF IInv, SessionInv
    <3>2. CASE SaltOf(t) = SaltOf(s)
      BY <3>1, <3>2, <1>1, <1>4
    <3>3. CASE SaltOf(t) # SaltOf(s)
      BY <3>1, <3>3, <1>4, CleanedPoolCovers
    <3> QED
      BY <3>2, <3>3
  <2> QED
    BY <2>1, <2>2
<1>8. NoReplayWithinRetain'
  <2>1. ASSUME NEW t \in Sessions, t # s, Admitted(t), SaltOf(t) = SaltOf(s)
        PROVE  /\ now - sess[t].admittedAt > RetainDuration
               /\ sess[t].admittedAt \in Nat
    BY <2>1, AdmittedNotIdle, CleanedPoolCovers DEF NotStored
  <2> SUFFICES ASSUME NEW t \in Sessions, NEW u \in Sessions, t # u,
                      Admitted(t)', Admitted(u)', SaltOf(t)' = SaltOf(u)',
                      sess'[t].admittedAt <= sess'[u].admittedAt
               PROVE  sess'[u].admittedAt - sess'[t].admittedAt
                        > RetainDuration
    BY DEF NoReplayWithinRetain
  <2>2. CASE t # s /\ u # s
    <3>1. /\ Admitted(t) /\ Admitted(u) /\ SaltOf(t) = SaltOf(u)
          /\ sess'[t] = sess[t] /\ sess'[u] = sess[u]
      BY <2>2, <1>3
    <3> QED
      BY <3>1 DEF IInv, NoReplayWithinRetain
  <2>3. CASE u = s
    BY <2>1, <2>3, <1>3
  <2>4. CASE t = s
    <3>1. now - sess[u].admittedAt > RetainDuration
          /\ sess[u].admittedAt \in Nat /\ now <= sess[u].admittedAt
      BY <2>1, <2>4, <1>3
    <3> QED
      BY <3>1, <1>1, ClockAssumption
  <2> QED
    BY <2>2, <2>3, <2>4
<1>9. StoredSinceAdmission'
  <2> SUFFICES ASSUME NEW x \in Salts, pool'[x] # NotStored
               PROVE  \E t \in Sessions :
                        SaltOf(t)' = x /\ sess'[t].admittedAt = pool'[x]
    BY DEF StoredSinceAdmission
  <2>1. CASE x = SaltOf(s)
    BY <2>1, <1>3, <1>4
  <2>2. CASE x # SaltOf(s)
    <3>1. pool[x] # NotStored /\ pool'[x] = pool[x]
      BY <2>2, <1>4, CleanedPoolFacts
    <3>2. PICK t \in Sessions :
            SaltOf(t) = x /\ sess[t].admittedAt = pool[x]
      BY <3>1 DEF IInv, StoredSinceAdmission
    <3> QED
      BY <3>1, <3>2, <2>2, <1>3
  <2> QED
    BY <2>1, <2>2
<1>10. AdmittedBeforeWindowEnd'
  BY <1>3 DEF IInv, AdmittedBeforeWindowEnd
<1> QED
  BY <1>2, <1>5, <1>6, <1>7, <1>8, <1>9, <1>10 DEF IInv

(* The inductive invariant is one.                                         *)
THEOREM InductiveInvariant == Spec => []IInv
<1>1. ASSUME IInv, [Next]_vars PROVE IInv'
  <2>1. CASE Tick
    BY <1>1, <2>1, TickPreserves
  <2>2. ASSUME NEW s \in Sessions, SessionStep(s) PROVE IInv'
    BY <1>1, <2>2, AcceptPreserves, ReadSaltPreserves, AdmitPreserves,
       RejectPreserves, ValidatePreserves, VarHeaderPreserves
    DEF SessionStep
  <2>3. CASE UNCHANGED vars
    BY <1>1, <2>3 DEF vars, IInv, TypeOK, SessionInv, PoolInv,
       PoolCoversAdmissions, NoReplayWithinRetain, StoredSinceAdmission,
       AdmittedBeforeWindowEnd, Admitted, SaltOf
  <2> QED
    BY <1>1, <2>1, <2>2, <2>3 DEF Next
<1> QED
  BY <1>1, InitIInv, PTL DEF Spec

(* The state of the pool and of the sessions keeps its type.               *)
THEOREM TypeCorrect == Spec => []TypeOK
BY InductiveInvariant, PTL DEF IInv

(* However sessions interleave and whenever the lazy cleaning runs, one    *)
(* salt passes checkAndAdd twice only more than RetainDuration apart.      *)
THEOREM ReplayProtection == Spec => []NoReplayWithinRetain
BY InductiveInvariant, PTL DEF IInv

(* Only admissions put salts into the pool, and rejected replays never     *)
(* extend the time for which a salt is kept.                               *)
THEOREM StoredSinceAdmissionHolds == Spec => []StoredSinceAdmission
BY InductiveInvariant, PTL DEF IInv

(* Arithmetic of the window's edge: instants more than twice the allowed   *)
(* difference apart lie in seconds at least twice the difference apart.    *)
LEMMA WindowArithmetic ==
  ASSUME NEW U \in Nat \ {0}, NEW W \in Nat,
         NEW a \in Nat, NEW b \in Nat, b - a > 2 * W * U
  PROVE  b \div U - a \div U >= 2 * W
<1> DEFINE p == a \div U
           q == b \div U
<1>1. /\ p \in Nat /\ q \in Nat
      /\ U * p <= a
      /\ b < U * q + U
  OBVIOUS
<1>2. SUFFICES ASSUME q - p + 1 <= 2 * W PROVE FALSE
  BY <1>1
<1>3. U * (q - p + 1) = U * q - U * p + U
  BY <1>1
<1>4. U * (q - p + 1) <= U * (2 * W)
  <2>1. ASSUME NEW m \in Int, NEW n \in Int, m <= n PROVE U * m <= U * n
    BY <2>1
  <2> QED
    BY <2>1, <1>1, <1>2
<1>5. U * (2 * W) = 2 * W * U
  OBVIOUS
<1> QED
  BY <1>1, <1>3, <1>4, <1>5

(* A header that establishes two sessions was first admitted no later than *)
(* in the first second of its validity window.                             *)
THEOREM WindowEdge == Spec => []ReplayOnlyAtWindowEdge
<1>1. ASSUME IInv PROVE ReplayOnlyAtWindowEdge
  <2> SUFFICES ASSUME NEW s \in Sessions, NEW t \in Sessions, s # t,
                      sess[s].pc = "established",
                      sess[t].pc = "established",
                      sess[s].msg = sess[t].msg,
                      sess[s].msg.timestamp <= MaxInt64,
                      sess[s].admittedAt <= sess[t].admittedAt
               PROVE  UnixTime(sess[s].admittedAt)
                        <= sess[s].msg.timestamp - MaxUnixTimeDiff
    BY DEF ReplayOnlyAtWindowEdge
  <2> DEFINE a == sess[s].admittedAt
             b == sess[t].admittedAt
             ts == sess[s].msg.timestamp
  <2>1. Admitted(s) /\ Admitted(t)
    BY <1>1 DEF IInv, SessionInv
  <2>2. a \in Nat /\ b \in Nat /\ ts \in Nat
    BY <1>1, <2>1, AdmittedNotIdle, SaltIsKnown
  <2>3. b - a > RetainDuration
    BY <1>1, <2>1 DEF IInv, NoReplayWithinRetain, SaltOf
  <2>4. b - a > 2 * MaxUnixTimeDiff * TicksPerSecond
    <3>1. 2 * MaxUnixTimeDiff * TicksPerSecond \in Nat
      BY ClockAssumption
    <3> QED
      BY <2>2, <2>3, <3>1, RetainAssumption, ClockAssumption
  <2>5. UnixTime(b) - UnixTime(a) >= 2 * MaxUnixTimeDiff
    BY <2>2, <2>4, WindowArithmetic, ClockAssumption DEF UnixTime
  <2>6. UnixTime(b) - ts <= MaxUnixTimeDiff
    BY <1>1 DEF IInv, AdmittedBeforeWindowEnd
  <2>7. UnixTime(a) \in Nat /\ UnixTime(b) \in Nat
    BY <2>2, UnixTimeMonotone
  <2> QED
    BY <2>2, <2>5, <2>6, <2>7, ClockAssumption
<1> QED
  BY <1>1, InductiveInvariant, PTL

(* After a call of checkAndAdd no entry of the pool is older than twice    *)
(* RetainDuration.                                                         *)
THEOREM BoundedStaleness == Spec => StaleEntriesBounded
<1>1. ASSUME IInv, [Next]_vars
      PROVE  [pool' # pool =>
                \A x \in Salts : pool'[x] # NotStored =>
                  now - pool'[x] <= 2 * RetainDuration]_vars
  <2> SUFFICES ASSUME Next, pool' # pool,
                      NEW x \in Salts, pool'[x] # NotStored
               PROVE  now - pool'[x] <= 2 * RetainDuration
    BY <1>1 DEF vars
  <2>1. PICK s \in Sessions : AdmitSalt(s) \/ RejectReplay(s)
    BY DEF Next, Tick, SessionStep, Accept, ReadSaltAndFixedHeader,
           ValidateFixedHeader, ReadVarHeader
  <2>2. /\ now - CleanedTime <= RetainDuration
        /\ now \in Nat /\ CleanedTime \in Nat
        /\ CleanedPool[x] \in Instants
        /\ CleanedPool[x] # NotStored =>
             CleanedTime - CleanedPool[x] <= RetainDuration
    BY <1>1, CleanedPoolFacts DEF IInv, TypeOK
  <2>3. pool'[x] = CleanedPool[x] \/ pool'[x] = now
    BY <1>1, <2>1, CleanedPoolFacts DEF AdmitSalt, RejectReplay
  <2> QED
    BY <2>2, <2>3, ClockAssumption DEF Instants, NotStored
<1> QED
  BY <1>1, InductiveInvariant, PTL DEF Spec, StaleEntriesBounded

------------------------------------------------------------------------------
(* The SunnyQUIC server.                                                   *)

(* What waitForAuthAndHandshake has waited for, step by step: a stream     *)
(* behind its first select has seen authDone, one behind its second the    *)
(* handshake.  Neither is ever taken back.                                 *)
WaitedFor ==
  \A s \in Streams :
    /\ stream[s].pc \in {"waitHandshake", "address", "dial", "forwarding"}
         => authDone
    /\ stream[s].pc \in {"address", "dial", "forwarding"} => handshake

(* Only connect commands wait, so that an authentication command is never  *)
(* taken for a request.                                                    *)
OnlyConnectsWait ==
  \A s \in Streams :
    /\ stream[s].pc \in {"waitAuth", "waitHandshake", "address", "dial",
                         "forwarding"}
         => stream[s].kind \in {"connect", "badConnect"}
    /\ stream[s].pc \in {"dial", "forwarding"} => stream[s].kind = "connect"

(* authDone was closed by an authentication command with the right hash.   *)
AuthenticatedByHash ==
  authDone =>
    \E a \in Streams : stream[a].kind = "auth" /\ stream[a].pc = "done"

ServerIInv ==
  /\ ServerTypeOK
  /\ WaitedFor
  /\ OnlyConnectsWait
  /\ AuthenticatedByHash

(* The peer's actions, the timer and the accept loop leave every stream    *)
(* that is behind a select where it is, and take back neither authDone nor *)
(* the handshake.                                                          *)
LEMMA ConnectionStepPreserves ==
  ASSUME ServerIInv,
         \/ \E s \in Streams, k \in Kinds : PeerOpens(s, k)
         \/ HandshakeCompletes \/ ConnectionEnds \/ Shutdown
         \/ AuthTimeout \/ TimerNotNeeded \/ AcceptFails
         \/ UNCHANGED serverVars
  PROVE  ServerIInv'
<1> USE DEF ServerIInv, ServerTypeOK, WaitedFor, OnlyConnectsWait,
            AuthenticatedByHash
<1>1. ASSUME NEW s \in Streams, NEW k \in Kinds, PeerOpens(s, k)
      PROVE  ServerIInv'
  BY <1>1, KindsAssumption DEF PeerOpens, At, StreamPCs, StreamKinds
<1>2. CASE HandshakeCompletes
  BY <1>2 DEF HandshakeCompletes
<1>3. CASE ConnectionEnds
  BY <1>3 DEF ConnectionEnds
<1>4. CASE Shutdown
  BY <1>4 DEF Shutdown
<1>5. CASE AuthTimeout
  BY <1>5 DEF AuthTimeout, Close
<1>6. CASE TimerNotNeeded
  BY <1>6 DEF TimerNotNeeded
<1>7. CASE AcceptFails
  BY <1>7 DEF AcceptFails
<1>8. CASE UNCHANGED serverVars
  BY <1>8 DEF serverVars
<1> QED
  BY <1>1, <1>2, <1>3, <1>4, <1>5, <1>6, <1>7, <1>8

(* The goroutine of a stream goes behind a select only when what that      *)
(* select waits for has happened.                                          *)
LEMMA StreamStepPreserves ==
  ASSUME ServerIInv, NEW s \in Streams,
         AcceptStream(s) \/ HandleStream(s) \/ ForwardingEnds(s)
  PROVE  ServerIInv'
<1> USE DEF ServerIInv, ServerTypeOK, WaitedFor, OnlyConnectsWait,
            AuthenticatedByHash, Goto, At, Kind, StreamPCs, StreamKinds
<1>1. CASE AcceptStream(s)
  BY <1>1 DEF AcceptStream
<1>2. CASE ReadCommand(s)
  BY <1>2 DEF ReadCommand
<1>3. CASE AcceptAuth(s)
  BY <1>3 DEF AcceptAuth
<1>4. CASE RejectAuth(s)
  BY <1>4 DEF RejectAuth, Close
<1>5. CASE WaitForAuth(s)
  BY <1>5 DEF WaitForAuth
<1>6. CASE WaitForHandshake(s)
  BY <1>6 DEF WaitForHandshake
<1>7. CASE ReadAddress(s)
  BY <1>7 DEF ReadAddress
<1>8. CASE DialTarget(s)
  BY <1>8 DEF DialTarget
<1>9. CASE ForwardingEnds(s)
  BY <1>9 DEF ForwardingEnds
<1> QED
  BY <1>1, <1>2, <1>3, <1>4, <1>5, <1>6, <1>7, <1>8, <1>9 DEF HandleStream

(* The inductive invariant.                                                *)
LEMMA ServerIInvInvariant == ServerSpec => []ServerIInv
<1>1. ServerInit => ServerIInv
  <2> SUFFICES ASSUME ServerInit PROVE ServerIInv
    OBVIOUS
  <2>1. {ctxDone, authDone, handshake, accepting} \subseteq BOOLEAN
    BY DEF ServerInit
  <2>2. stream \in [Streams -> [pc: StreamPCs, kind: StreamKinds]]
    BY DEF ServerInit, StreamPCs, StreamKinds
  <2>3. WaitedFor /\ OnlyConnectsWait /\ AuthenticatedByHash
    BY DEF ServerInit, WaitedFor, OnlyConnectsWait, AuthenticatedByHash
  <2> QED
    BY <2>1, <2>2, <2>3 DEF ServerInit, ServerIInv, ServerTypeOK
<1>2. ServerIInv /\ [ServerNext]_serverVars => ServerIInv'
  BY ConnectionStepPreserves, StreamStepPreserves DEF ServerNext
<1> QED
  BY <1>1, <1>2, PTL DEF ServerSpec

(* server_quic_conn.go keeps its channels, its context and the steps of    *)
(* its goroutines in the states the code knows, whatever the peer sends.   *)
THEOREM ServerTypeCorrect == ServerSpec => []ServerTypeOK
<1>1. ServerIInv => ServerTypeOK
  BY DEF ServerIInv
<1> QED
  BY <1>1, ServerIInvInvariant, PTL

(* waitForAuthAndHandshake: no target is dialled for a peer that has not   *)
(* authenticated, nor on early data before the handshake is complete.      *)
THEOREM AuthenticationBeforeDial == ServerSpec => []DialOnlyAuthenticated
<1>1. ServerIInv => DialOnlyAuthenticated
  BY DEF ServerIInv, WaitedFor, DialOnlyAuthenticated
<1> QED
  BY <1>1, ServerIInvInvariant, PTL

(* handleAuthCommand is the only way in: when a target is dialled for a    *)
(* stream, a well-formed connect request came on that stream and the right *)
(* hash on another one, whose command was read to its end.                 *)
THEOREM RightHashBeforeDial ==
  ServerSpec => [](\A s \in Streams :
               stream[s].pc \in {"dial", "forwarding"} =>
                 /\ stream[s].kind = "connect"
                 /\ \E a \in Streams \ {s} : /\ stream[a].kind = "auth"
                                             /\ stream[a].pc = "done")
<1>1. ServerIInv => \A s \in Streams :
                stream[s].pc \in {"dial", "forwarding"} =>
                  /\ stream[s].kind = "connect"
                  /\ \E a \in Streams \ {s} : /\ stream[a].kind = "auth"
                                              /\ stream[a].pc = "done"
  BY DEF ServerIInv, WaitedFor, OnlyConnectsWait, AuthenticatedByHash
<1> QED
  BY <1>1, ServerIInvInvariant, PTL

==============================================================================
