---------------------------- MODULE RoutingProofs ----------------------------
(***************************************************************************)
(* Proofs about the routing of calls.  For any number of calls, rules and  *)
(* outbounds, and any releases of the rules, a call is decided by one      *)
(* version of them (Router); for any labels and any number and order of    *)
(* domain rules, the trie that decides a domain matches exactly what its   *)
(* rules cover (DomainMatcher).                                            *)
(***************************************************************************)
EXTENDS Router, DomainMatcher, WellFoundedInduction, TLAPS

Released == 1 .. released

(* The rules file, the one in memory and the copy being loaded are whole   *)
(* releases; what is about to be put in place has passed the checksum.     *)
(* Between the two renames of Windows the old file is beside it.           *)
RulesInv ==
  /\ FileIsARelease /\ rules \in Released
  /\ fileOld \in Released \cup {Missing}
  /\ updater \in {"verify", "create", "copy"} => downloads.sum \in Released
  /\ updater \in {"create", "copy"} => downloads.content = downloads.sum
  /\ updater = "renameOld" => os = "windows"
  /\ updater \in {"renameOld", "rename"} => fileNew \in Released
  /\ updater \in {"rlock", "load"} => file \in Released
  /\ updater \in {"lock", "swap"} => loaded \in Released

(* routingRWMutex: who has it for reading, and that a writer has it alone. *)
RWMutexInv ==
  /\ \A d \in Dialers :
       d \in readers <=> dialer[d].pc \in {"domain", "ip", "unlock"}
  /\ "updater" \in readers <=> updater = "load"
  /\ writer # "none" <=> updater = "swap"
  /\ writer = "holding" => readers = {}

(* The addresses a call may have, and the policies that name a client.     *)
Addresses == Domains \cup IPs
Clients == {"direct", "reject"} \cup Outbounds

(* What a call has found out in each of its two passes over the rules,     *)
(* which cannot have changed between them.                                 *)
PassesInv ==
  \A d \in Dialers :
    LET addr == dialer[d].addr
    IN  /\ dialer[d].pc \notin {"idle", "decided", "failed"} =>
             addr \in Addresses
        /\ dialer[d].pc \in {"idle", "rlock", "domain"} =>
             dialer[d].used = {} /\ dialer[d].policy = "none"
        /\ dialer[d].pc = "domain" => addr \in Domains
        /\ dialer[d].pc = "ip" =>
             /\ addr \in IPs
             /\ addr \notin Domains => dialer[d].used = {}
             /\ addr \in Domains =>
                  /\ dialer[d].used = {rules}
                  /\ FirstMatch(DomainMatches[rules], addr) = "none"
        /\ dialer[d].pc = "unlock" =>
             /\ dialer[d].used = {rules}
             /\ OrFinal(dialer[d].policy) = Decision(rules, addr)
        /\ dialer[d].pc = "client" => dialer[d].policy \in Clients

(* carrierClientsMutex: its holder builds the first client of an outbound. *)
CarriersInv ==
  \A d \in Dialers :
    /\ dialer[d].pc \in {"carrierLock", "carrier"} =>
         dialer[d].policy \in Outbounds
    /\ dialer[d].pc = "carrier" <=> carrierLock = d
    /\ dialer[d].pc = "carrier" => carriers[dialer[d].policy] = 0

IInv ==
  /\ TypeOK
  /\ RulesInv
  /\ RWMutexInv
  /\ PassesInv
  /\ DecidedByOneVersion
  /\ CarriersInv
  /\ OneClientPerOutbound

----------------------------------------------------------------------------
(* Lemmas about the matching of rules.                                     *)

(* Every non-empty set of natural numbers has a least element.             *)
LEMMA LeastElement ==
  ASSUME NEW T \in SUBSET Nat, T # {}
  PROVE  \E x \in T : \A y \in T : x <= y
<1> DEFINE Less == OpToRel(<, Nat)
<1>1. IsWellFoundedOn(Less, Nat)
  BY NatLessThanWellFounded
<1>2. ASSUME NEW x \in Nat, NEW y \in Nat, <<y, x>> \notin Less
      PROVE  x <= y
  <2>1. y < x => <<y, x>> \in Less
    BY DEF OpToRel
  <2> HIDE DEF Less
  <2> QED
    BY <2>1, <1>2
<1> HIDE DEF Less
<1>3. PICK x \in T : \A y \in T : ~ (<<y, x>> \in Less)
  BY <1>1, WFMin
<1> QED
  BY <1>2, <1>3

(* The first rule that matches gives one of the policies of the rules.     *)
LEMMA FirstMatchIsPolicy ==
  ASSUME NEW matches, NEW addr
  PROVE  FirstMatch(matches, addr) \in PolicyNames
<1> DEFINE matching == {i \in Rules : addr \in matches[i]}
<1>1. matching \in SUBSET Nat /\ matching \subseteq Rules
  BY RouterAssumption DEF Rules
<1>2. CASE matching = {}
  BY <1>2 DEF FirstMatch, PolicyNames
<1>3. CASE matching # {}
  <2>1. \E i \in matching : \A j \in matching : i <= j
    BY <1>1, <1>3, LeastElement
  <2> DEFINE first == CHOOSE i \in matching : \A j \in matching : i <= j
  <2>2. first \in Rules
    BY <2>1, <1>1
  <2>3. Policies[first] \in {"direct", "reject", "final"} \cup Outbounds
    BY <2>2, RouterAssumption DEF Rules
  <2> QED
    BY <1>3, <2>3 DEF FirstMatch, PolicyNames
<1> QED
  BY <1>2, <1>3

(* After routing.final has taken the place of no policy and of "final",    *)
(* the policy names a client.                                              *)
LEMMA OrFinalIsClient ==
  ASSUME NEW policy \in PolicyNames
  PROVE  OrFinal(policy) \in Clients /\ OrFinal(policy) \in PolicyNames
BY RouterAssumption DEF OrFinal, PolicyNames, Clients

(* The first pass decides, or the second one, as Decision says.            *)
LEMMA DecisionByPasses ==
  ASSUME NEW v, NEW addr
  PROVE  LET byDomain == FirstMatch(DomainMatches[v], addr)
             byIP == FirstMatch(IPMatches[v], addr)
         IN  /\ addr \in Domains /\ (byDomain # "none" \/ addr \notin IPs) =>
                  Decision(v, addr) = OrFinal(byDomain)
             /\ addr \in IPs /\ (addr \in Domains => byDomain = "none") =>
                  Decision(v, addr) = OrFinal(byIP)
BY DEF Decision, OrFinal

----------------------------------------------------------------------------
(* The calls.                                                              *)

(* router.DialTCP touches nothing of the updater, nor does it change rules *)
(* or files: what holds of them holds after it.                            *)
LEMMA CallsKeepUpdates ==
  ASSUME IInv, UNCHANGED <<updVars, rules>>
  PROVE  RulesInv'
BY DEF IInv, RulesInv, Released, FileIsARelease, updVars, ruleFiles

(* A call that leaves routingRWMutex and the carrier clients alone keeps   *)
(* what they are about.                                                    *)
LEMMA LocksKept ==
  ASSUME IInv, NEW d \in Dialers,
         UNCHANGED <<updVars, lockVars, carrierVars>>,
         \A e \in Dialers \ {d} : dialer'[e] = dialer[e],
         dialer[d].pc \in {"domain", "ip", "unlock"} <=>
           dialer'[d].pc \in {"domain", "ip", "unlock"},
         dialer[d].pc # "carrier" /\ dialer'[d].pc # "carrier",
         dialer'[d].pc = "carrierLock" => dialer'[d].policy \in Outbounds
  PROVE  RWMutexInv' /\ CarriersInv' /\ OneClientPerOutbound'
<1>1. RWMutexInv'
  BY DEF IInv, RWMutexInv, lockVars, updVars
<1>2. CarriersInv' /\ OneClientPerOutbound'
  BY DEF IInv, CarriersInv, OneClientPerOutbound, carrierVars
<1> QED
  BY <1>1, <1>2

(* A call arrives.                                                         *)
LEMMA CallPreserves ==
  ASSUME IInv, NEW d \in Dialers, NEW addr \in Addresses, Call(d, addr)
  PROVE  IInv'
<1> USE DEF Call, At, IInv, TypeOK, updVars, ruleFiles, lockVars,
            carrierVars
<1>1. \A e \in Dialers \ {d} : dialer'[e] = dialer[e]
  OBVIOUS
<1>2. dialer'[d] = [dialer[d] EXCEPT !.addr = addr, !.pc = "rlock"]
  OBVIOUS
<1>3. TypeOK'
  BY <1>2 DEF Addresses, DialerPCs
<1>4. RulesInv'
  BY CallsKeepUpdates
<1>5. RWMutexInv' /\ CarriersInv' /\ OneClientPerOutbound'
  BY <1>1, <1>2, LocksKept
<1>6. PassesInv'
  BY <1>1, <1>2 DEF PassesInv, Addresses
<1>7. DecidedByOneVersion'
  BY <1>1, <1>2 DEF DecidedByOneVersion
<1> QED
  BY <1>3, <1>4, <1>5, <1>6, <1>7

(* A call becomes a reader; there is no writer.                            *)
LEMMA RLockPreserves ==
  ASSUME IInv, NEW d \in Dialers, RLock(d)
  PROVE  IInv'
<1> USE DEF RLock, At, IInv, TypeOK, updVars, ruleFiles, lockVars,
            carrierVars
<1>1. \A e \in Dialers \ {d} : dialer'[e] = dialer[e]
  OBVIOUS
<1>2. dialer'[d] = [dialer[d] EXCEPT
        !.pc = IF dialer[d].addr \in Domains THEN "domain" ELSE "ip"]
  OBVIOUS
<1>3. TypeOK'
  BY <1>2 DEF DialerPCs
<1>4. RulesInv'
  BY CallsKeepUpdates
<1>5. RWMutexInv' /\ CarriersInv' /\ OneClientPerOutbound'
  BY <1>1, <1>2, RouterAssumption
  DEF RWMutexInv, CarriersInv, OneClientPerOutbound
<1>6. PassesInv'
  BY <1>1, <1>2 DEF PassesInv, Addresses
<1>7. DecidedByOneVersion'
  BY <1>1, <1>2 DEF DecidedByOneVersion
<1> QED
  BY <1>3, <1>4, <1>5, <1>6, <1>7

(* The first pass is over; the rules cannot change before the second.      *)
LEMMA MatchDomainRulesPreserves ==
  ASSUME IInv, NEW d \in Dialers, MatchDomainRules(d)
  PROVE  IInv'
<1> USE DEF MatchDomainRules, At, IInv, TypeOK, updVars, ruleFiles, lockVars,
            carrierVars
<1>1. \A e \in Dialers \ {d} : dialer'[e] = dialer[e]
  OBVIOUS
<1> DEFINE policy == FirstMatch(DomainMatches[rules], dialer[d].addr)
           pc == IF policy = "none" /\ dialer[d].addr \in IPs
                   THEN "ip" ELSE "unlock"
<1>2. dialer' = [dialer EXCEPT ![d] =
        [dialer[d] EXCEPT !.policy = policy, !.used = {rules}, !.pc = pc]]
  BY DEF PassesInv
<1>8. policy \in PolicyNames /\ pc \in {"ip", "unlock"}
  BY FirstMatchIsPolicy
<1>3. TypeOK'
  <2> HIDE DEF policy, pc
  <2>1. dialer[d].used \subseteq Versions /\ {rules} \in SUBSET Versions
    OBVIOUS
  <2> QED
    BY <1>2, <1>8, <2>1 DEF DialerPCs
<1>4. RulesInv'
  BY CallsKeepUpdates
<1>5. RWMutexInv' /\ CarriersInv' /\ OneClientPerOutbound'
  BY <1>1, <1>2, <1>8, LocksKept
<1>6. PassesInv'
  <2>1. pc = "ip" => policy = "none" /\ dialer[d].addr \in IPs \cap Domains
    BY DEF PassesInv
  <2>2. pc = "unlock" => OrFinal(policy) = Decision(rules, dialer[d].addr)
    BY DecisionByPasses DEF PassesInv
  <2>3. dialer[d].addr \in Addresses
    BY DEF PassesInv
  <2>4. policy = FirstMatch(DomainMatches[rules], dialer[d].addr)
    OBVIOUS
  <2>5. rules' = rules
    OBVIOUS
  <2> HIDE DEF policy, pc, MatchDomainRules
  <2>6. /\ dialer'[d].pc = pc /\ dialer'[d].policy = policy
        /\ dialer'[d].addr = dialer[d].addr /\ dialer'[d].used = {rules}
    BY <1>2
  <2> QED
    BY <1>1, <1>8, <2>1, <2>2, <2>3, <2>4, <2>5, <2>6 DEF PassesInv
<1>7. DecidedByOneVersion'
  BY <1>1, <1>2, <1>8 DEF DecidedByOneVersion
<1> QED
  BY <1>3, <1>4, <1>5, <1>6, <1>7

(* The second pass is over, on the rules of the first.                     *)
LEMMA MatchIPPreserves ==
  ASSUME IInv, NEW d \in Dialers, MatchIP(d)
  PROVE  IInv'
<1> USE DEF MatchIP, At, IInv, TypeOK, updVars, ruleFiles, lockVars,
            carrierVars
<1>1. \A e \in Dialers \ {d} : dialer'[e] = dialer[e]
  OBVIOUS
<1> DEFINE policy == FirstMatch(IPMatches[rules], dialer[d].addr)
<1>2. dialer' = [dialer EXCEPT ![d] =
        [dialer[d] EXCEPT !.policy = policy, !.used = {rules},
                          !.pc = "unlock"]]
  BY DEF PassesInv
<1>8. policy \in PolicyNames
  BY FirstMatchIsPolicy
<1>3. TypeOK'
  BY <1>2, <1>8 DEF DialerPCs
<1>4. RulesInv'
  BY CallsKeepUpdates
<1>5. RWMutexInv' /\ CarriersInv' /\ OneClientPerOutbound'
  BY <1>1, <1>2, LocksKept
<1>6. PassesInv'
  <2>1. /\ OrFinal(policy) = Decision(rules, dialer[d].addr)
        /\ dialer[d].addr \in Addresses
    BY DecisionByPasses DEF PassesInv
  <2>2. /\ dialer'[d].pc = "unlock" /\ dialer'[d].policy = policy
        /\ dialer'[d].addr = dialer[d].addr /\ dialer'[d].used = {rules}
    BY <1>2
  <2>3. rules' = rules
    OBVIOUS
  <2> HIDE DEF policy, MatchIP
  <2> QED
    BY <1>1, <2>1, <2>2, <2>3 DEF PassesInv
<1>7. DecidedByOneVersion'
  BY <1>1, <1>2 DEF DecidedByOneVersion
<1> QED
  BY <1>3, <1>4, <1>5, <1>6, <1>7

(* The decision is that of the one version that was used.                  *)
LEMMA RUnlockPreserves ==
  ASSUME IInv, NEW d \in Dialers, RUnlock(d)
  PROVE  IInv'
<1> USE DEF RUnlock, At, IInv, TypeOK, updVars, ruleFiles, lockVars,
            carrierVars
<1>1. \A e \in Dialers \ {d} : dialer'[e] = dialer[e]
  OBVIOUS
<1>2. dialer' = [dialer EXCEPT ![d] =
        [dialer[d] EXCEPT !.pc = "client",
                          !.policy = OrFinal(dialer[d].policy)]]
  OBVIOUS
<1>8. OrFinal(dialer[d].policy) \in Clients \cap PolicyNames
  BY OrFinalIsClient
<1>3. TypeOK'
  BY <1>2, <1>8 DEF DialerPCs
<1>4. RulesInv'
  BY CallsKeepUpdates
<1>5. RWMutexInv' /\ CarriersInv' /\ OneClientPerOutbound'
  BY <1>1, <1>2, RouterAssumption
  DEF RWMutexInv, CarriersInv, OneClientPerOutbound
<1>6. PassesInv'
  BY <1>1, <1>2, <1>8 DEF PassesInv
<1>7. DecidedByOneVersion'
  BY <1>1, <1>2 DEF DecidedByOneVersion, PassesInv
<1> QED
  BY <1>3, <1>4, <1>5, <1>6, <1>7

(* A policy that is neither direct nor reject names an outbound.           *)
LEMMA ChooseClientPreserves ==
  ASSUME IInv, NEW d \in Dialers, ChooseClient(d)
  PROVE  IInv'
<1> USE DEF ChooseClient, At, IInv, TypeOK, updVars, ruleFiles, lockVars,
            carrierVars
<1>1. \A e \in Dialers \ {d} : dialer'[e] = dialer[e]
  OBVIOUS
<1> DEFINE pc == IF dialer[d].policy \in {"direct", "reject"}
                   THEN "decided" ELSE "carrierLock"
<1>2. dialer' = [dialer EXCEPT ![d] = [dialer[d] EXCEPT !.pc = pc]]
  OBVIOUS
<1>8. pc \in {"decided", "carrierLock"}
  OBVIOUS
<1>3. TypeOK'
  BY <1>2, <1>8 DEF DialerPCs
<1>4. RulesInv'
  BY CallsKeepUpdates
<1>5. RWMutexInv' /\ CarriersInv' /\ OneClientPerOutbound'
  BY <1>1, <1>2, LocksKept DEF PassesInv, Clients
<1>6. PassesInv'
  BY <1>1, <1>2, <1>8 DEF PassesInv
<1>7. DecidedByOneVersion'
  BY <1>1, <1>2, <1>8 DEF DecidedByOneVersion
<1> QED
  BY <1>3, <1>4, <1>5, <1>6, <1>7

(* A cached client is taken, or the mutex is held to build one.            *)
LEMMA LockCarriersPreserves ==
  ASSUME IInv, NEW d \in Dialers, LockCarriers(d)
  PROVE  IInv'
<1> USE DEF LockCarriers, At, IInv, TypeOK, updVars, ruleFiles, lockVars,
            carrierVars
<1>1. \A e \in Dialers \ {d} : dialer'[e] = dialer[e]
  OBVIOUS
<1> DEFINE pc == IF carriers[dialer[d].policy] > 0 THEN "decided"
                                                   ELSE "carrier"
<1>2. dialer' = [dialer EXCEPT ![d] = [dialer[d] EXCEPT !.pc = pc]]
  OBVIOUS
<1>8. pc \in {"decided", "carrier"}
  OBVIOUS
<1>3. TypeOK'
  BY <1>2, <1>8 DEF DialerPCs
<1>4. RulesInv'
  BY CallsKeepUpdates
<1>5. RWMutexInv' /\ CarriersInv' /\ OneClientPerOutbound'
  BY <1>1, <1>2, RouterAssumption
  DEF RWMutexInv, CarriersInv, OneClientPerOutbound
<1>6. PassesInv'
  BY <1>1, <1>2, <1>8 DEF PassesInv
<1>7. DecidedByOneVersion'
  BY <1>1, <1>2, <1>8 DEF DecidedByOneVersion
<1> QED
  BY <1>3, <1>4, <1>5, <1>6, <1>7

(* The first client of an outbound is built, under the mutex.              *)
LEMMA BuildCarrierPreserves ==
  ASSUME IInv, NEW d \in Dialers, BuildCarrier(d)
  PROVE  IInv'
<1> USE DEF BuildCarrier, At, IInv, TypeOK, updVars, ruleFiles, lockVars,
            carrierVars
<1>1. \A e \in Dialers \ {d} : dialer'[e] = dialer[e]
  OBVIOUS
<1>2. PICK pc \in {"decided", "failed"} :
        dialer' = [dialer EXCEPT ![d] = [dialer[d] EXCEPT !.pc = pc]]
  OBVIOUS
<1>3. TypeOK'
  BY <1>2 DEF DialerPCs
<1>4. RulesInv'
  BY CallsKeepUpdates
<1>5. RWMutexInv' /\ CarriersInv' /\ OneClientPerOutbound'
  <2>1. RWMutexInv'
    BY <1>1, <1>2 DEF RWMutexInv
  <2>2. CarriersInv'
    BY <1>1, <1>2, RouterAssumption DEF CarriersInv
  <2>3. OneClientPerOutbound'
    BY DEF CarriersInv, OneClientPerOutbound
  <2> QED BY <2>1, <2>2, <2>3
<1>6. PassesInv'
  BY <1>1, <1>2 DEF PassesInv
<1>7. DecidedByOneVersion'
  BY <1>1, <1>2 DEF DecidedByOneVersion
<1> QED
  BY <1>3, <1>4, <1>5, <1>6, <1>7

(* The call is over.                                                       *)
LEMMA ReturnPreserves ==
  ASSUME IInv, NEW d \in Dialers, Return(d)
  PROVE  IInv'
<1> USE DEF Return, At, IInv, TypeOK, updVars, ruleFiles, lockVars,
            carrierVars
<1>1. \A e \in Dialers \ {d} : dialer'[e] = dialer[e]
  OBVIOUS
<1>2. dialer' = [dialer EXCEPT ![d] = NewDialer]
  OBVIOUS
<1>3. TypeOK'
  BY <1>2 DEF DialerPCs, NewDialer, PolicyNames
<1>4. RulesInv'
  BY CallsKeepUpdates
<1>5. RWMutexInv' /\ CarriersInv' /\ OneClientPerOutbound'
  BY <1>1, <1>2, LocksKept DEF NewDialer
<1>6. PassesInv'
  BY <1>1, <1>2 DEF PassesInv, NewDialer
<1>7. DecidedByOneVersion'
  BY <1>1, <1>2 DEF DecidedByOneVersion, NewDialer
<1> QED
  BY <1>3, <1>4, <1>5, <1>6, <1>7

----------------------------------------------------------------------------
(* The updater, the releases and the start of the program.                 *)

(* What the updater does to files and locks, calls do not notice as long   *)
(* as the rules in memory stay.                                            *)
LEMMA UpdateKeepsCalls ==
  ASSUME IInv, UNCHANGED <<rules, dialer, carrierVars>>
  PROVE  /\ PassesInv' /\ DecidedByOneVersion'
         /\ CarriersInv' /\ OneClientPerOutbound'
BY DEF IInv, PassesInv, DecidedByOneVersion, CarriersInv,
       OneClientPerOutbound, At, carrierVars

(* What the releases served bound.                                         *)
LEMMA ReleasedFacts ==
  ASSUME IInv
  PROVE  /\ MaxVersion \in Nat /\ released \in Nat /\ released <= MaxVersion
         /\ Released \subseteq Versions /\ released \in Released
         /\ 0 \notin Released /\ -1 \notin Released
         /\ Contents = Versions \cup {0} /\ Missing = -1
BY RouterAssumption
DEF IInv, TypeOK, Released, Versions, Damaged, Contents, Missing

(* The steps of UpdateRuleDBFile, and those of updateRouting that exchange *)
(* no rules.                                                               *)
UpdateStep ==
  \/ UpdateFails \/ NeedUpdate \/ Download \/ DownloadSum \/ Verified
  \/ CreateNew \/ CopyNew \/ RenameOld \/ RenameNew \/ RLockForCopy
  \/ Load \/ LockForSwap

(* Every step of updateFile leaves its state one the code knows.           *)
LEMMA UpdateTypes ==
  ASSUME IInv, UpdateStep
  PROVE  TypeOK'
<1> USE ReleasedFacts
    DEF IInv, TypeOK, ruleFiles, lockVars, carrierVars, UpdaterPCs, Damaged
<1>1. CASE UpdateFails
  BY <1>1 DEF UpdateFails, NoDownloads
<1>2. CASE NeedUpdate
  BY <1>2 DEF NeedUpdate
<1>3. CASE Download
  BY <1>3 DEF Download
<1>4. CASE DownloadSum
  BY <1>4 DEF DownloadSum
<1>5. CASE Verified
  BY <1>5 DEF Verified, VerifySum
<1>6. CASE CreateNew
  BY <1>6 DEF CreateNew
<1>7. CASE CopyNew
  BY <1>7 DEF CopyNew
<1>8. CASE RenameNew
  BY <1>8 DEF RenameNew, NoDownloads
<1>9. CASE RLockForCopy
  BY <1>9 DEF RLockForCopy
<1>10. CASE Load
  BY <1>10 DEF Load, RulesInv
<1>11. CASE LockForSwap
  BY <1>11 DEF LockForSwap
<1>12. CASE RenameOld
  BY <1>12 DEF RenameOld
<1> QED
  BY <1>1, <1>2, <1>3, <1>4, <1>5, <1>6, <1>7, <1>8, <1>9, <1>10, <1>11,
     <1>12
  DEF UpdateStep

(* Only what has passed the checksum is put in place and loaded.           *)
LEMMA UpdateRules ==
  ASSUME IInv, UpdateStep
  PROVE  RulesInv'
<1> USE ReleasedFacts
    DEF IInv, TypeOK, RulesInv, Released, FileIsARelease, ruleFiles
<1>1. CASE UpdateFails
  BY <1>1 DEF UpdateFails, NoDownloads
<1>2. CASE NeedUpdate
  BY <1>2 DEF NeedUpdate
<1>3. CASE Download
  BY <1>3 DEF Download
<1>4. CASE DownloadSum
  BY <1>4 DEF DownloadSum
<1>5. CASE Verified
  BY <1>5 DEF Verified, VerifySum
<1>6. CASE CreateNew
  BY <1>6 DEF CreateNew
<1>7. CASE CopyNew
  BY <1>7 DEF CopyNew
<1>8. CASE RenameNew
  BY <1>8 DEF RenameNew, NoDownloads
<1>9. CASE RLockForCopy
  BY <1>9 DEF RLockForCopy
<1>10. CASE Load
  BY <1>10 DEF Load
<1>11. CASE LockForSwap
  BY <1>11 DEF LockForSwap
<1>12. CASE RenameOld
  BY <1>12 DEF RenameOld
<1> QED
  BY <1>1, <1>2, <1>3, <1>4, <1>5, <1>6, <1>7, <1>8, <1>9, <1>10, <1>11,
     <1>12
  DEF UpdateStep

(* The updater is a reader while it copies the rules, and then a writer.   *)
LEMMA UpdateLocks ==
  ASSUME IInv, UpdateStep
  PROVE  RWMutexInv'
<1> USE RouterAssumption DEF IInv, RWMutexInv, lockVars
<1>1. CASE UpdateFails
  BY <1>1 DEF UpdateFails, NoDownloads
<1>2. CASE NeedUpdate
  BY <1>2 DEF NeedUpdate
<1>3. CASE Download
  BY <1>3 DEF Download
<1>4. CASE DownloadSum
  BY <1>4 DEF DownloadSum
<1>5. CASE Verified
  BY <1>5 DEF Verified, VerifySum
<1>6. CASE CreateNew
  BY <1>6 DEF CreateNew
<1>7. CASE CopyNew
  BY <1>7 DEF CopyNew
<1>8. CASE RenameNew
  BY <1>8 DEF RenameNew, NoDownloads
<1>9. CASE RLockForCopy
  BY <1>9 DEF RLockForCopy
<1>10. CASE Load
  BY <1>10 DEF Load
<1>11. CASE LockForSwap
  BY <1>11 DEF LockForSwap
<1>12. CASE RenameOld
  BY <1>12 DEF RenameOld
<1> QED
  BY <1>1, <1>2, <1>3, <1>4, <1>5, <1>6, <1>7, <1>8, <1>9, <1>10, <1>11,
     <1>12
  DEF UpdateStep

(* The steps of updateFile before the swap preserve the invariant.         *)
LEMMA UpdatePreserves ==
  ASSUME IInv, UpdateStep
  PROVE  IInv'
<1>1. UNCHANGED <<rules, dialer, carrierVars>>
  BY DEF UpdateStep, UpdateFails, NeedUpdate, Download, DownloadSum,
         Verified, CreateNew, CopyNew, RenameOld, RenameNew,
         RLockForCopy, Load, LockForSwap
<1> QED
  BY <1>1, UpdateKeepsCalls, UpdateTypes, UpdateRules, UpdateLocks DEF IInv

(* The rules are exchanged while no call is between its two passes.        *)
LEMMA SwapPreserves ==
  ASSUME IInv, Swap
  PROVE  IInv'
<1> USE DEF Swap, IInv
<1>1. \A d \in Dialers : dialer[d].pc \notin {"domain", "ip", "unlock"}
  BY DEF RWMutexInv
<1>2. TypeOK'
  BY ReleasedFacts
  DEF TypeOK, RulesInv, UpdaterPCs, Damaged, carrierVars, ruleFiles
<1>3. RulesInv'
  BY DEF RulesInv, Released, FileIsARelease, ruleFiles
<1>4. RWMutexInv'
  BY DEF RWMutexInv, TypeOK
<1>5. PassesInv'
  BY <1>1 DEF PassesInv
<1>6. DecidedByOneVersion' /\ CarriersInv' /\ OneClientPerOutbound'
  BY DEF DecidedByOneVersion, At, CarriersInv, OneClientPerOutbound,
         carrierVars
<1> QED
  BY <1>2, <1>3, <1>4, <1>5, <1>6

(* A new release only adds to the versions a file may be.                  *)
LEMMA ReleasePreserves ==
  ASSUME IInv, Release
  PROVE  IInv'
<1> USE DEF Release, IInv
<1>1. TypeOK'
  BY ReleasedFacts DEF TypeOK, Versions, lockVars, carrierVars, ruleFiles
<1>2. RulesInv'
  BY RouterAssumption
  DEF TypeOK, RulesInv, Released, Versions, FileIsARelease, ruleFiles
<1>3. RWMutexInv'
  BY DEF RWMutexInv, lockVars
<1> QED
  BY <1>1, <1>2, <1>3, UpdateKeepsCalls

(* No call, lock, download or client survives a restart; the files do.     *)
LEMMA RestartPreserves ==
  ASSUME IInv, Restart
  PROVE  IInv'
<1> USE DEF Restart, IInv
<1>1. TypeOK'
  BY RouterAssumption
  DEF TypeOK, Contents, NoDownloads, NewDialer, DialerPCs, UpdaterPCs,
      PolicyNames, ruleFiles
<1>2. RulesInv' /\ RWMutexInv'
  <2>1. file \in Released
    BY ReleasedFacts DEF RulesInv, FileIsARelease, Released, Versions
  <2> QED
    BY <2>1, RouterAssumption
    DEF RulesInv, Released, FileIsARelease, RWMutexInv, NewDialer, ruleFiles
<1>3. PassesInv' /\ DecidedByOneVersion' /\ CarriersInv'
  BY RouterAssumption
  DEF PassesInv, DecidedByOneVersion, CarriersInv, NewDialer, At
<1>4. OneClientPerOutbound'
  BY DEF OneClientPerOutbound
<1> QED
  BY <1>1, <1>2, <1>3, <1>4

----------------------------------------------------------------------------
(* The theorems.                                                           *)

(* The program starts with a whole rules file and no call.                 *)
LEMMA InitIInv == Init => IInv
<1> SUFFICES ASSUME Init PROVE IInv
  OBVIOUS
<1> USE RouterAssumption DEF Init, NewDialer
<1>1. TypeOK
  BY DEF TypeOK, Versions, Contents, NoDownloads, DialerPCs, UpdaterPCs,
         PolicyNames
<1>2. RulesInv /\ RWMutexInv
  BY DEF RulesInv, Released, FileIsARelease, RWMutexInv, Missing
<1>3. PassesInv /\ DecidedByOneVersion /\ CarriersInv
  BY DEF PassesInv, DecidedByOneVersion, CarriersInv, At
<1>4. OneClientPerOutbound
  BY DEF OneClientPerOutbound
<1> QED
  BY <1>1, <1>2, <1>3, <1>4 DEF IInv

(* The inductive invariant.                                                *)
LEMMA IInvInvariant == Spec => []IInv
<1>1. ASSUME IInv, NEW d \in Dialers, Dial(d) \/ Return(d)
      PROVE  IInv'
  BY <1>1, RLockPreserves, MatchDomainRulesPreserves, MatchIPPreserves,
     RUnlockPreserves, ChooseClientPreserves, LockCarriersPreserves,
     BuildCarrierPreserves, ReturnPreserves
  DEF Dial
<1>2. ASSUME IInv, NEW d \in Dialers, NEW addr \in Domains \cup IPs,
             Call(d, addr)
      PROVE  IInv'
  BY <1>2, CallPreserves DEF Addresses
<1>3. ASSUME IInv, NeedUpdate \/ Update \/ Release \/ Restart
      PROVE  IInv'
  BY <1>3, UpdatePreserves, SwapPreserves, ReleasePreserves, RestartPreserves
  DEF Update, UpdateStep
<1>4. ASSUME IInv, UNCHANGED vars
      PROVE  IInv'
  <2>1. TypeOK' /\ RulesInv' /\ RWMutexInv'
    BY <1>4
    DEF vars, IInv, TypeOK, RulesInv, Released, FileIsARelease, RWMutexInv
  <2> QED
    BY <1>4, <2>1, UpdateKeepsCalls DEF vars, carrierVars, IInv
<1>5. IInv /\ [Next]_vars => IInv'
  BY <1>1, <1>2, <1>3, <1>4 DEF Next
<1> QED
  BY <1>5, InitIInv, PTL DEF Spec

(* router/client.go, the updater and its files stay in the states the code *)
(* knows, over any number of updates, failures and restarts.               *)
THEOREM TypeCorrect == Spec => []TypeOK
<1>1. IInv => TypeOK
  BY DEF IInv
<1> QED
  BY <1>1, IInvInvariant, PTL

(* DialTCP's two passes over the rules see one version of them, for every  *)
(* set of rules, because it holds routingRWMutex over both.                *)
THEOREM OneVersionDecides == Spec => []DecidedByOneVersion
<1>1. IInv => DecidedByOneVersion
  BY DEF IInv
<1> QED
  BY <1>1, IInvInvariant, PTL

(* updateFile never puts anything but a verified release in place, and no  *)
(* failure of it, or death of the program, leaves anything else there; or  *)
(* it leaves nothing there, on Windows alone and with a whole release      *)
(* beside it.                                                              *)
THEOREM RulesFileIsWhole == Spec => []FileIsARelease
<1>1. IInv => FileIsARelease
  BY DEF IInv, RulesInv
<1> QED
  BY <1>1, IInvInvariant, PTL

(* getCarrierClient builds one client per outbound, however many calls ask *)
(* for it at once.                                                         *)
THEOREM OutboundHasOneClient == Spec => []OneClientPerOutbound
<1>1. IInv => OneClientPerOutbound
  BY DEF IInv
<1> QED
  BY <1>1, IInvInvariant, PTL

(* routingRWMutex: rules are exchanged only while nobody reads them, so    *)
(* that a call between RLock and RUnlock sees no change.                   *)
THEOREM RulesStableWhileRead ==
  Spec => [][\A d \in Dialers :
               /\ dialer[d].pc \in {"domain", "ip", "unlock"}
               /\ dialer'[d].pc \in {"domain", "ip", "unlock"}
             => rules' = rules]_vars
<1> DEFINE Stable == \A d \in Dialers :
               /\ dialer[d].pc \in {"domain", "ip", "unlock"}
               /\ dialer'[d].pc \in {"domain", "ip", "unlock"}
             => rules' = rules
<1>1. ASSUME NEW d \in Dialers, Dial(d) \/ Return(d)
      PROVE  Stable
  BY <1>1
  DEF Dial, Return, RLock, MatchDomainRules, MatchIP, RUnlock, ChooseClient,
      LockCarriers, BuildCarrier
<1>2. ASSUME NEW d \in Dialers, NEW addr \in Domains \cup IPs, Call(d, addr)
      PROVE  Stable
  BY <1>2 DEF Call
<1>3. ASSUME IInv, Swap PROVE Stable
  BY <1>3 DEF Swap, IInv, RWMutexInv
<1>4. ASSUME \/ UpdateFails \/ NeedUpdate \/ Download \/ DownloadSum
             \/ Verified \/ CreateNew \/ CopyNew \/ RenameOld
             \/ RenameNew \/ RLockForCopy \/ Load \/ LockForSwap \/ Release
      PROVE  Stable
  BY <1>4
  DEF UpdateFails, NeedUpdate, Download, DownloadSum, Verified, CreateNew,
      CopyNew, RenameOld, RenameNew, RLockForCopy, Load, LockForSwap, Release
<1>5. ASSUME Restart PROVE Stable
  BY <1>5 DEF Restart, NewDialer
<1>6. IInv /\ [Next]_vars => [Stable]_vars
  BY <1>1, <1>2, <1>3, <1>4, <1>5 DEF Next, Update
<1> QED
  BY <1>6, IInvInvariant, PTL DEF Spec

------------------------------------------------------------------------------
(* The domain matcher.                                                     *)

(* With a node come the nodes above it.                                    *)
PrefixClosed ==
  \A p \in DOMAIN trie : \A n \in 1 .. Len(p) : Node(Prefix(p, n))

(* A node that matches stands for a rule.                                  *)
NodesFromRules ==
  \A p \in DOMAIN trie :
    trie[p] # "none" => [path |-> p, kind |-> trie[p]] \in added

(* A rule is a full node of its own, or a suffix node covers it.           *)
RulesInTrie ==
  \A r \in added :
    \/ \E n \in 1 .. Len(r.path) : IsSuffix(Prefix(r.path, n))
    \/ r.kind = "full" /\ Node(r.path) /\ trie[r.path] = "full"

MatcherIInv == MatcherTypeOK /\ PrefixClosed /\ NodesFromRules /\ RulesInTrie

----------------------------------------------------------------------------
(* Paths.                                                                  *)

(* A domain is a sequence of one to MaxLabels labels.                      *)
LEMMA PathIsSeq ==
  ASSUME NEW p
  PROVE  p \in Paths <=> p \in Seq(Labels) /\ Len(p) \in 1 .. MaxLabels
BY BoundAssumption DEF Paths

(* A prefix of a path is a path, and what it is made of.                   *)
LEMMA PrefixOfPath ==
  ASSUME NEW p \in Paths, NEW n \in 1 .. Len(p)
  PROVE  /\ Prefix(p, n) \in Paths
         /\ Len(Prefix(p, n)) = n
         /\ \A m \in 1 .. n : Prefix(Prefix(p, n), m) = Prefix(p, m)
         /\ Prefix(p, Len(p)) = p
<1>1. p \in Seq(Labels) /\ Len(p) \in 1 .. MaxLabels
  BY PathIsSeq
<1>2. Prefix(p, n) \in Seq(Labels) /\ Len(Prefix(p, n)) = n
  BY <1>1 DEF Prefix
<1>3. Prefix(p, n) \in Paths
  BY <1>1, <1>2, PathIsSeq, BoundAssumption
<1>4. Prefix(p, Len(p)) = p
  BY <1>1 DEF Prefix
<1>5. \A m \in 1 .. n : Prefix(Prefix(p, n), m) = Prefix(p, m)
  BY <1>1, <1>2 DEF Prefix
<1> QED BY <1>2, <1>3, <1>4, <1>5

(* Lowering keeps the number of labels.                                    *)
LEMMA LowerOfPath ==
  ASSUME NEW p \in Paths
  PROVE  ToLower(p) \in Paths /\ Len(ToLower(p)) = Len(p)
<1>1. p \in Seq(Labels) /\ Len(p) \in 1 .. MaxLabels
  BY PathIsSeq
<1>2. ToLower(p) \in [1 .. Len(p) -> Labels]
  BY <1>1, LowerAssumption DEF ToLower
<1>3. ToLower(p) \in Seq(Labels) /\ Len(ToLower(p)) = Len(p)
  BY <1>1, <1>2
<1> QED BY <1>1, <1>3, PathIsSeq

----------------------------------------------------------------------------
(* The inductive step.                                                     *)

(* A rule added to the trie leaves the nodes it met, and their match, as   *)
(* they were, but for its own node; and it is covered afterwards.          *)
LEMMA AddToTrieStep ==
  ASSUME MatcherIInv, NEW path \in Paths, NEW kind \in {"full", "suffix"},
         trie' = AddToTrie(path, kind),
         added' = added \cup {[path |-> path, kind |-> kind]},
         UNCHANGED regexes
  PROVE  MatcherIInv'
<1> DEFINE Way == {Prefix(path, n) : n \in 1 .. Len(path)}
           New == [p \in DOMAIN trie \cup Way |->
                     IF p = path THEN LastMatch(p, kind) ELSE WayMatch(p)]
<1>0. /\ Len(path) \in Nat \ {0} /\ Prefix(path, Len(path)) = path
      /\ Way \subseteq Paths /\ path \in Way
  <2>1. Len(path) \in Nat \ {0}
    BY PathIsSeq, BoundAssumption
  <2>2. Prefix(path, Len(path)) = path
    BY <2>1, PrefixOfPath
  <2> QED BY <2>1, <2>2, PrefixOfPath
<1>1. CASE CoveredAbove(path)
  <2>1. trie' = trie
    BY <1>1 DEF AddToTrie
  <2>2. \E n \in 1 .. Len(path) : IsSuffix(Prefix(path, n))'
    BY <1>0, <1>1, <2>1 DEF CoveredAbove, IsSuffix, Node
  <2>3. MatcherTypeOK'
    BY <2>1 DEF MatcherIInv, MatcherTypeOK
  <2>4. PrefixClosed' /\ NodesFromRules'
    BY <2>1 DEF MatcherIInv, PrefixClosed, NodesFromRules, Node
  <2>5. RulesInTrie'
    BY <2>1, <2>2 DEF MatcherIInv, RulesInTrie, IsSuffix, Node
  <2> QED BY <2>3, <2>4, <2>5 DEF MatcherIInv
<1>2. CASE ~ CoveredAbove(path)
  <2>1. trie' = New
    BY <1>2 DEF AddToTrie
  <2>2. DOMAIN trie' = DOMAIN trie \cup Way
    BY <2>1
  <2>3. \A p \in DOMAIN trie' \ {path} :
          trie'[p] = IF p \in DOMAIN trie THEN trie[p] ELSE "none"
    BY <2>1, <2>2 DEF WayMatch, Node
  <2>4. trie'[path] = IF IsSuffix(path) THEN "suffix" ELSE kind
    BY <1>0, <2>1, <2>2 DEF LastMatch
  <2>5. \A p \in DOMAIN trie : trie[p] = "suffix" => trie'[p] = "suffix"
    BY <2>2, <2>3, <2>4 DEF IsSuffix, Node
  <2>6. MatcherTypeOK'
    <3>1. DOMAIN trie' \subseteq Paths
      BY <1>0, <2>2 DEF MatcherIInv, MatcherTypeOK
    <3>2. \A p \in DOMAIN trie' : trie'[p] \in Matches
      BY <2>2, <2>3, <2>4 DEF MatcherIInv, MatcherTypeOK, Matches
    <3>3. added' \subseteq [path : Paths, kind : {"full", "suffix"}]
      BY DEF MatcherIInv, MatcherTypeOK
    <3> QED BY <3>1, <3>2, <3>3 DEF MatcherIInv, MatcherTypeOK
  <2>7. PrefixClosed'
    <3> SUFFICES ASSUME NEW p \in DOMAIN trie', NEW n \in 1 .. Len(p)
                 PROVE  Prefix(p, n) \in DOMAIN trie'
      BY DEF PrefixClosed, Node
    <3>1. CASE p \in DOMAIN trie
      BY <2>2, <3>1 DEF MatcherIInv, PrefixClosed, Node
    <3>2. CASE p \in Way
      <4>1. PICK k \in 1 .. Len(path) : p = Prefix(path, k)
        BY <3>2
      <4>2. Len(p) = k /\ Prefix(p, n) = Prefix(path, n)
        BY <4>1, PrefixOfPath
      <4>3. n \in 1 .. Len(path)
        BY <1>0, <4>1, <4>2
      <4> QED BY <2>2, <4>2, <4>3
    <3> QED BY <2>2, <3>1, <3>2
  <2>8. NodesFromRules'
    <3> SUFFICES ASSUME NEW p \in DOMAIN trie', trie'[p] # "none"
                 PROVE  [path |-> p, kind |-> trie'[p]] \in added'
      BY DEF NodesFromRules
    <3>1. CASE p = path /\ ~ IsSuffix(path)
      BY <2>4, <3>1
    <3>2. CASE p = path /\ IsSuffix(path)
      BY <2>4, <3>2 DEF MatcherIInv, NodesFromRules, IsSuffix, Node
    <3>3. CASE p # path
      BY <2>3, <3>3 DEF MatcherIInv, NodesFromRules
    <3> QED BY <3>1, <3>2, <3>3
  <2>9. RulesInTrie'
    <3> SUFFICES ASSUME NEW r \in added'
                 PROVE  \/ \E n \in 1 .. Len(r.path) :
                             IsSuffix(Prefix(r.path, n))'
                        \/ /\ r.kind = "full" /\ r.path \in DOMAIN trie'
                           /\ trie'[r.path] = "full"
      BY DEF RulesInTrie, Node
    <3>1. CASE /\ r \in added
               /\ \E n \in 1 .. Len(r.path) : IsSuffix(Prefix(r.path, n))
      BY <2>2, <2>5, <3>1 DEF IsSuffix, Node
    <3>2. CASE trie'[path] = "suffix" /\ r.path = path
      BY <1>0, <2>2, <3>2 DEF IsSuffix, Node
    <3>3. CASE /\ r \in added /\ r.kind = "full" /\ r.path \in DOMAIN trie
               /\ trie[r.path] = "full"
               /\ ~ (trie'[path] = "suffix" /\ r.path = path)
      BY <2>2, <2>3, <2>4, <3>3 DEF IsSuffix, Node
    <3>4. CASE r \notin added /\ trie'[path] # "suffix"
      BY <1>0, <2>2, <2>4, <3>4
    <3>5. r \notin added => r.path = path
      OBVIOUS
    <3> QED BY <3>1, <3>2, <3>3, <3>4, <3>5 DEF MatcherIInv, RulesInTrie, Node
  <2> QED BY <2>6, <2>7, <2>8, <2>9 DEF MatcherIInv
<1> QED BY <1>1, <1>2

(* The invariant holds of every state: no rule loses one added before.     *)
THEOREM MatcherInvariant == MatcherSpec => []MatcherIInv
<1>1. MatcherInit => MatcherIInv
  BY DEF MatcherInit, MatcherIInv, MatcherTypeOK, PrefixClosed,
         NodesFromRules, RulesInTrie
<1>2. MatcherIInv /\ [MatcherNext]_matcherVars => MatcherIInv'
  <2> SUFFICES ASSUME MatcherIInv, [MatcherNext]_matcherVars PROVE MatcherIInv'
    OBVIOUS
  <2>1. ASSUME NEW path \in Paths, NEW kind \in {"full", "suffix"},
               AddDomainRule(path, kind)
        PROVE  MatcherIInv'
    <3>1. ToLower(path) \in Paths
      BY LowerOfPath
    <3> QED BY <2>1, <3>1, AddToTrieStep DEF AddDomainRule
  <2>2. ASSUME NEW l \in Labels, AddRegex(l) PROVE MatcherIInv'
    BY <2>2 DEF AddRegex, MatcherIInv, MatcherTypeOK, PrefixClosed,
                NodesFromRules, RulesInTrie, IsSuffix, Node
  <2>3. CASE UNCHANGED matcherVars
    BY <2>3 DEF matcherVars, MatcherIInv, MatcherTypeOK, PrefixClosed,
                NodesFromRules, RulesInTrie, IsSuffix, Node
  <2> QED BY <2>1, <2>2, <2>3 DEF MatcherNext
<1> QED BY <1>1, <1>2, PTL DEF MatcherSpec

----------------------------------------------------------------------------
(* The trie and the rules.                                                 *)

(* A walk along a lowered path ends with true exactly if a rule covers it. *)
LEMMA WalkIffCovered ==
  ASSUME MatcherIInv, NEW path \in Paths
  PROVE  MatchTrie(path) <=> Covered(path)
<1> DEFINE low == ToLower(path)
<1>0. low \in Paths /\ Len(low) = Len(path) /\ Len(path) \in Nat \ {0}
  BY LowerOfPath, PathIsSeq, BoundAssumption
<1>1. \A n \in 1 .. Len(low) :
        Len(Prefix(low, n)) = n /\ Prefix(low, Len(low)) = low
  BY <1>0, PrefixOfPath
<1>2. ASSUME MatchTrie(path) PROVE Covered(path)
  <2>1. CASE \E n \in 1 .. Len(low) :
               Reaches(low, n) /\ trie[Prefix(low, n)] = "suffix"
    <3>1. PICK n \in 1 .. Len(low) :
            Reaches(low, n) /\ trie[Prefix(low, n)] = "suffix"
      BY <2>1
    <3>2. Prefix(low, n) \in DOMAIN trie
      BY <1>0, <3>1 DEF Reaches, Node
    <3>3. [path |-> Prefix(low, n), kind |-> "suffix"] \in added
      BY <3>1, <3>2 DEF MatcherIInv, NodesFromRules
    <3> QED BY <1>0, <1>1, <3>3 DEF Covered
  <2>2. CASE Reaches(low, Len(low)) /\ trie[low] = "full"
    <3>1. low \in DOMAIN trie
      BY <1>0, <1>1, <2>2 DEF Reaches, Node
    <3>2. [path |-> low, kind |-> "full"] \in added
      BY <2>2, <3>1 DEF MatcherIInv, NodesFromRules
    <3> QED BY <3>2 DEF Covered
  <2> QED BY <1>2, <2>1, <2>2 DEF MatchTrie, Walk
<1>3. ASSUME Covered(path) PROVE MatchTrie(path)
  <2>1. PICK r \in added :
          \/ r.kind = "full" /\ r.path = low
          \/ /\ r.kind = "suffix" /\ Len(r.path) <= Len(path)
             /\ r.path = Prefix(low, Len(r.path))
    BY <1>3 DEF Covered
  <2>2. r.path \in Paths /\ Len(r.path) \in 1 .. Len(low)
    <3>1. r.path \in Paths
      BY DEF MatcherIInv, MatcherTypeOK
    <3> QED BY <1>0, <2>1, <3>1, PathIsSeq, BoundAssumption
  <2>3. CASE \E n \in 1 .. Len(r.path) : IsSuffix(Prefix(r.path, n))
    <3>1. PICK n \in 1 .. Len(r.path) : IsSuffix(Prefix(r.path, n))
      BY <2>3
    <3>2. n \in 1 .. Len(low) /\ Prefix(r.path, n) = Prefix(low, n)
      BY <1>0, <1>1, <2>1, <2>2, PrefixOfPath
    <3>3. Prefix(low, n) \in DOMAIN trie /\ trie[Prefix(low, n)] = "suffix"
      BY <3>1, <3>2 DEF IsSuffix, Node
    <3>4. Reaches(low, n)
      <4>1. Len(Prefix(low, n)) = n
        BY <1>1, <3>2
      <4>2. \A m \in 1 .. n : Prefix(Prefix(low, n), m) = Prefix(low, m)
        BY <1>0, <3>2, PrefixOfPath
      <4> QED BY <3>3, <4>1, <4>2 DEF MatcherIInv, PrefixClosed, Reaches
    <3> QED BY <3>2, <3>3, <3>4 DEF MatchTrie, Walk
  <2>4. CASE r.kind = "full" /\ Node(r.path) /\ trie[r.path] = "full"
    <3>1. r.path = low
      BY <2>1, <2>4
    <3>2. Reaches(low, Len(low))
      BY <2>4, <3>1 DEF MatcherIInv, PrefixClosed, Reaches, Node
    <3> QED BY <2>4, <3>1, <3>2 DEF MatchTrie, Walk
  <2> QED BY <2>3, <2>4 DEF MatcherIInv, RulesInTrie
<1> QED BY <1>2, <1>3

(* domainFullAndSuffixMatcher.match returns true for a domain exactly if   *)
(* one of the rules added covers it, in whatever order the rules came.     *)
THEOREM TrieCorrect == MatcherSpec => []TrieMatchesRules
<1>1. MatcherIInv => TrieMatchesRules
  BY WalkIffCovered DEF TrieMatchesRules
<1> QED BY <1>1, MatcherInvariant, PTL

(* A later rule never takes a domain away from the earlier ones, although  *)
(* addDomainFullOrSuffixRule changes nodes that they share.                *)
THEOREM LaterRulesOnlyAdd == MatcherSpec => RulesOnlyAdd
<1>1. TrieMatchesRules /\ TrieMatchesRules' /\ [MatcherNext]_matcherVars
        => [\A path \in Paths :
              MatchDomain(path) => MatchDomain(path)']_matcherVars
  <2> SUFFICES ASSUME TrieMatchesRules, TrieMatchesRules', MatcherNext,
                      NEW path \in Paths, MatchDomain(path)
               PROVE  MatchDomain(path)'
    OBVIOUS
  <2>1. added \subseteq added' /\ regexes \subseteq regexes'
    BY DEF MatcherNext, AddDomainRule, AddRegex
  <2>2. CASE MatchTrie(path)
    <3>1. Covered(path)
      BY <2>2 DEF TrieMatchesRules
    <3>2. Covered(path)'
      BY <2>1, <3>1 DEF Covered
    <3> QED BY <3>2 DEF TrieMatchesRules, MatchDomain
  <2>3. CASE MatchRegexes(path)
    BY <2>1, <2>3 DEF MatchRegexes, MatchDomain
  <2> QED BY <2>2, <2>3 DEF MatchDomain
<1> QED BY <1>1, TrieCorrect, PTL DEF MatcherSpec, RulesOnlyAdd

(* The trie keeps its shape: no node for the empty path, or too deep.      *)
THEOREM MatcherTypeCorrect == MatcherSpec => []MatcherTypeOK
<1>1. MatcherIInv => MatcherTypeOK
  BY DEF MatcherIInv
<1> QED BY <1>1, MatcherInvariant, PTL

==============================================================================
