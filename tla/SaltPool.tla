------------------------------ MODULE SaltPool ------------------------------
(***************************************************************************)
(* The Shadowsocks 2022 server's replay protection: the sessions of one    *)
(* ss_carrier server (conn.go, readClientFirstPayload) that share one      *)
(* salt pool (salt_pool.go) while time passes.  Every session reads one    *)
(* first message; the network may deliver a message at any time and any    *)
(* number of times, to any session.                                        *)
(*                                                                         *)
(* Time is counted in ticks, TicksPerSecond of them in a second, because   *)
(* the salt pool compares instants while the header check compares whole   *)
(* seconds.                                                                *)
(***************************************************************************)
EXTENDS Integers

CONSTANTS
  Sessions,              \* accepted TCP connections
  Salts,                 \* values of the client salt
  Messages,              \* first messages: [salt, timestamp, defect]
  RetainDuration,        \* in ticks
  MaxUnixTimeDiff,       \* maxAllowedUnixTimeDiffInSecond
  TicksPerSecond,
  MaxInt64,              \* 2^63 - 1 in the code
  MaxTime                \* bound: the clock stops here

(* What keeps readClientFirstPayload from succeeding, apart from the salt  *)
(* and the time, in the order in which it looks at the message.            *)
Defects == {"none", "shortRead", "fixedHeaderTag", "headerType",
            "varHeaderTruncated", "varHeaderTag", "address",
            "noPaddingNoPayload", "paddingOverrun"}

ASSUME ClockAssumption ==
  /\ RetainDuration \in Nat
  /\ MaxUnixTimeDiff \in Nat
  /\ TicksPerSecond \in Nat \ {0}
  /\ MaxInt64 \in Nat
  /\ MaxTime \in 0 .. MaxInt64

(* The timestamp of a header has 64 bits and no sign.                      *)
Timestamps == 0 .. (2 * MaxInt64 + 1)

ASSUME MessageAssumption ==
  Messages \subseteq [salt: Salts, timestamp: Timestamps, defect: Defects]

(* 60 seconds against twice 30 seconds.                                    *)
ASSUME RetainAssumption ==
  RetainDuration >= 2 * MaxUnixTimeDiff * TicksPerSecond

VARIABLES
  now,          \* time.Now(), in ticks
  pool,         \* saltPool.pool: when a salt was added, or NotStored
  lastCleaned,  \* saltPool.lastCleaned
  sess          \* per connection: the progress of readClientFirstPayload

vars == <<now, pool, lastCleaned, sess>>

NotStored == -1
NeverAdmitted == -1

NoMessage == [salt |-> "none", timestamp |-> 0, defect |-> "none"]

(* idle: not accepted yet.  reading, salt, fixedHeader, varHeader: inside  *)
(* readClientFirstPayload, before the statement of that name.              *)
(* established: it returned nil.  closed: it returned an error and serve   *)
(* closed the connection.                                                  *)
PCs == {"idle", "reading", "salt", "fixedHeader", "varHeader",
        "established", "closed"}

Instants == Nat \cup {-1}

(* lingerSet: SetLinger(0) was called, so that closing sends a RST.        *)
SessionStates ==
  [pc: PCs, msg: Messages \cup {NoMessage}, admittedAt: Instants,
   lingerSet: BOOLEAN]

TypeOK ==
  /\ now \in Nat
  /\ pool \in [Salts -> Instants]
  /\ lastCleaned \in Nat
  /\ sess \in [Sessions -> SessionStates]

Init ==
  /\ now = 0
  /\ pool = [x \in Salts |-> NotStored]
  /\ lastCleaned = 0
  /\ sess = [s \in Sessions |->
               [pc |-> "idle", msg |-> NoMessage,
                admittedAt |-> NeverAdmitted, lingerSet |-> FALSE]]

----------------------------------------------------------------------------
(* Session bookkeeping.                                                    *)

SaltOf(s) == sess[s].msg.salt

Defect(s) == sess[s].msg.defect

Proceed(s, pc) == sess' = [sess EXCEPT ![s].pc = pc]

(* A return with the deferred function's err set: the deferred function    *)
(* calls SetLinger(0).                                                     *)
FailWithErr(s) ==
  sess' = [sess EXCEPT ![s].pc = "closed", ![s].lingerSet = TRUE]

(* A "return errors.New(...)" that leaves the variable err nil: the        *)
(* deferred function does nothing.                                         *)
FailWithErrNil(s) == sess' = [sess EXCEPT ![s].pc = "closed"]

----------------------------------------------------------------------------
(* The salt pool.                                                          *)

CleaningDue == now - lastCleaned > RetainDuration

(* Mutated form: an entry is dropped one instant too early.                *)
ExpiredEarly(x) == pool[x] # NotStored /\ now - pool[x] >= RetainDuration

(* Mutated form: the cleaning keeps an entry for two retention periods.    *)
ExpiredLate(x) ==
  pool[x] # NotStored /\ now - pool[x] > 2 * RetainDuration

Expired(x) == pool[x] # NotStored /\ now - pool[x] > RetainDuration

(* The map after the lazy cleaning at the head of checkAndAdd.             *)
CleanedPool ==
  IF CleaningDue
    THEN [x \in Salts |-> IF Expired(x) THEN NotStored ELSE pool[x]]
    ELSE pool

(* Mutated form: the start of the retained window is remembered instead of *)
(* the instant of the cleaning.                                            *)
CleanedTimeWindowStart == now - RetainDuration

CleanedTime == IF CleaningDue THEN now ELSE lastCleaned

(* checkAndAdd, one critical section, returning true.                      *)
AdmitSalt(s) ==
  /\ sess[s].pc = "salt"
  /\ CleanedPool[SaltOf(s)] = NotStored
  /\ pool' = [CleanedPool EXCEPT ![SaltOf(s)] = now]
  /\ lastCleaned' = CleanedTime
  /\ sess' = [sess EXCEPT ![s].pc = "fixedHeader", ![s].admittedAt = now]
  /\ UNCHANGED now

(* Mutated form: a repeated salt has its time refreshed.                   *)
RejectReplayAndRefresh(s) ==
  /\ sess[s].pc = "salt"
  /\ CleanedPool[SaltOf(s)] # NotStored
  /\ pool' = [CleanedPool EXCEPT ![SaltOf(s)] = now]
  /\ lastCleaned' = CleanedTime
  /\ FailWithErrNil(s)
  /\ UNCHANGED now

(* checkAndAdd, one critical section, returning false.                     *)
RejectReplay(s) ==
  /\ sess[s].pc = "salt"
  /\ CleanedPool[SaltOf(s)] # NotStored
  /\ pool' = CleanedPool
  /\ lastCleaned' = CleanedTime
  /\ FailWithErrNil(s)
  /\ UNCHANGED now

----------------------------------------------------------------------------
(* The rest of readClientFirstPayload.                                     *)

UnixTime(t) == t \div TicksPerSecond

(* Mutated form: headers from the future are not bounded.                  *)
UnixTimeNotTooOld(timestamp) ==
  UnixTime(now) - timestamp <= MaxUnixTimeDiff + 1

(* An integer from 0 to 2 * MaxInt64 + 1 as an int64.                      *)
Int64(n) == IF n <= MaxInt64 THEN n ELSE n - 2 * (MaxInt64 + 1)

(* validateUnixTimeInRange: the difference of two whole seconds, which     *)
(* overflows for a timestamp that is negative as an int64 and far enough   *)
(* from the present.                                                       *)
UnixTimeInRange(timestamp) ==
  LET compared == Int64(timestamp)
      diff == IF compared >= UnixTime(now) THEN compared - UnixTime(now)
                                           ELSE UnixTime(now) - compared
  IN  Int64(diff) <= MaxUnixTimeDiff

(* The listener accepts a connection on which m is the first message.      *)
Accept(s, m) ==
  /\ sess[s].pc = "idle"
  /\ sess' = [sess EXCEPT ![s].pc = "reading", ![s].msg = m]
  /\ UNCHANGED <<now, pool, lastCleaned>>

(* ReadOnceExpectFull: one read call must return the salt and the fixed    *)
(* header.                                                                 *)
ReadSaltAndFixedHeader(s) ==
  /\ sess[s].pc = "reading"
  /\ IF Defect(s) = "shortRead" THEN FailWithErr(s) ELSE Proceed(s, "salt")
  /\ UNCHANGED <<now, pool, lastCleaned>>

(* decryptInPlace, then validateFixedHeaderAndReturnLen.                   *)
FixedHeaderValid(s) ==
  /\ Defect(s) \notin {"fixedHeaderTag", "headerType"}
  /\ UnixTimeInRange(sess[s].msg.timestamp)

ValidateFixedHeader(s) ==
  /\ sess[s].pc = "fixedHeader"
  /\ IF FixedHeaderValid(s) THEN Proceed(s, "varHeader") ELSE FailWithErr(s)
  /\ UNCHANGED <<now, pool, lastCleaned>>

(* The variable-length header: read, decrypted, the address parsed, then   *)
(* the two checks on its length.                                           *)
ReadVarHeader(s) ==
  /\ sess[s].pc = "varHeader"
  /\ \/ /\ Defect(s) \in {"varHeaderTruncated", "varHeaderTag", "address"}
        /\ FailWithErr(s)
     \/ /\ Defect(s) \in {"noPaddingNoPayload", "paddingOverrun"}
        /\ FailWithErrNil(s)
     \/ /\ Defect(s) = "none"
        /\ Proceed(s, "established")
  /\ UNCHANGED <<now, pool, lastCleaned>>

Tick ==
  /\ now < MaxTime
  /\ now' = now + 1
  /\ UNCHANGED <<pool, lastCleaned, sess>>

SessionStep(s) ==
  \/ \E m \in Messages : Accept(s, m)
  \/ ReadSaltAndFixedHeader(s)
  \/ AdmitSalt(s)
  \/ RejectReplay(s)
  \/ ValidateFixedHeader(s)
  \/ ReadVarHeader(s)

Next == Tick \/ \E s \in Sessions : SessionStep(s)

Spec == Init /\ [][Next]_vars

----------------------------------------------------------------------------
(* Properties.                                                             *)

Admitted(s) == sess[s].admittedAt # NeverAdmitted

(* Two sessions that present the same salt are both let past checkAndAdd   *)
(* only more than RetainDuration apart, however the sessions interleave    *)
(* and whenever the lazy cleaning happens to run.                          *)
NoReplayWithinRetain ==
  \A s, t \in Sessions :
    /\ s # t
    /\ Admitted(s) /\ Admitted(t)
    /\ SaltOf(s) = SaltOf(t)
    /\ sess[s].admittedAt <= sess[t].admittedAt
    => sess[t].admittedAt - sess[s].admittedAt > RetainDuration

(* The same message establishes two sessions only if its salt was admitted *)
(* for the first time before the second whole second of the header's       *)
(* validity window began: truncation to seconds makes the window one       *)
(* second longer than the retention, and nothing else lets a replay in.    *)
(* That is so for timestamps that are not negative as an int64: for the    *)
(* others the difference overflows.                                        *)
ReplayOnlyAtWindowEdge ==
  \A s, t \in Sessions :
    /\ s # t
    /\ sess[s].pc = "established" /\ sess[t].pc = "established"
    /\ sess[s].msg = sess[t].msg /\ sess[s].msg.timestamp <= MaxInt64
    /\ sess[s].admittedAt <= sess[t].admittedAt
    => UnixTime(sess[s].admittedAt)
         <= sess[s].msg.timestamp - MaxUnixTimeDiff

(* A stored instant is the instant at which a session with that salt was   *)
(* admitted: rejected replays neither add a salt nor extend the time for   *)
(* which it is kept.                                                       *)
StoredSinceAdmission ==
  \A x \in Salts : pool[x] # NotStored =>
    \E s \in Sessions : SaltOf(s) = x /\ sess[s].admittedAt = pool[x]

(* The cleaning is lazy, yet after every call of checkAndAdd that changes  *)
(* the pool no entry is older than twice RetainDuration.                   *)
StaleEntriesBounded ==
  [][pool' # pool =>
       \A x \in Salts : pool'[x] # NotStored =>
                           now - pool'[x] <= 2 * RetainDuration]_vars

(* conn.go:308 "To consistently send RST even when the received buffer is  *)
(* empty, set 'SO_LINGER' to true with a zero timeout, then close the      *)
(* socket": every rejected session was closed with SO_LINGER set.          *)
RstOnEveryRejection ==
  \A s \in Sessions : sess[s].pc = "closed" => sess[s].lingerSet

============================================================================
