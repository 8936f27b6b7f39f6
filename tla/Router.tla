------------------------------- MODULE Router -------------------------------
(***************************************************************************)
(* The router (transport/router/client.go) and the updater of its rules    *)
(* (util/updater, conf.Rules.CopyWithNewRulesData): concurrent DialTCP     *)
(* calls choose a policy while updateRouting downloads a new rules file,   *)
(* puts it in place of the old one and exchanges the rules in memory.  The *)
(* program may die at any step and be started again.  The configuration    *)
(* has a routing section.                                                  *)
(*                                                                         *)
(* The data of a rules file is its version: version v decides an address   *)
(* by DomainMatches[v] and IPMatches[v], per rule what it matches.  An     *)
(* address is an IP address, a domain, or an IP address sent as a domain,  *)
(* whose matching takes two passes over the rules.                         *)
(***************************************************************************)
EXTENDS Integers, Sequences

CONSTANTS
  Systems,            \* the values of runtime.GOOS
  Dialers,            \* concurrent DialTCP calls
  Domains, IPs,       \* addresses; an IP sent as a domain is in both
  Outbounds,
  Policies,           \* per rule: its policy
  DomainMatches,      \* per version and rule: the domains and
  IPMatches,          \* the IP addresses it matches
  Final,              \* routing.final
  MaxVersion,         \* bound: versions of the rules file released
  MaxCrashes          \* bound: times the program dies

Versions == 1 .. MaxVersion
Rules == DOMAIN Policies

ASSUME RouterAssumption ==
  /\ MaxVersion \in Nat \ {0} /\ MaxCrashes \in Nat
  /\ Systems \subseteq {"unix", "windows"}
  /\ Policies \in Seq({"direct", "reject", "final"} \cup Outbounds)
  /\ Final \in {"direct", "reject"} \cup Outbounds
  /\ DomainMatches \in [Versions -> [Rules -> SUBSET Domains]]
  /\ IPMatches \in [Versions -> [Rules -> SUBSET IPs]]
  /\ {"free", "updater"} \cap Dialers = {}

Damaged == 0          \* content that is no version: cut off or altered
Missing == -1         \* there is no such file

Contents == Versions \cup {Damaged}

VARIABLES
  released,   \* the version the release page serves
  os,         \* runtime.GOOS
  file,       \* content of the rules file
  fileNew,    \* content of its ".new" neighbour,
  fileOld,    \* and of the ".old" one
  downloads,  \* the temporary files of updateFile: content and checksum
  rules,      \* version of c.routing.Rules
  loaded,     \* newRules of updateRouting
  readers,    \* routingRWMutex: those who hold it for reading,
  writer,     \* "none", "waiting" or "holding" for writing
  updater,    \* where updateRouting stands
  dialer,     \* per call: where it stands, its address and its decision
  carrierLock,\* carrierClientsMutex: its holder, or "free"
  carriers,   \* per outbound: carrier clients built
  crashes

ruleFiles == <<os, file, fileNew, fileOld>>
updVars == <<released, ruleFiles, downloads, loaded, updater>>
lockVars == <<readers, writer>>
carrierVars == <<carrierLock, carriers>>
vars == <<released, os, file, fileNew, fileOld, downloads, rules, loaded,
          readers, writer, updater, dialer, carrierLock, carriers, crashes>>

DialerPCs == {"idle", "rlock", "domain", "ip", "unlock", "client",
              "carrierLock", "carrier", "decided", "failed"}

UpdaterPCs == {"sleep", "download", "sum", "verify", "create", "copy",
               "renameOld", "rename", "rlock", "load", "lock", "swap"}

PolicyNames == {"none", "direct", "reject", "final"} \cup Outbounds

NewDialer == [pc |-> "idle", addr |-> "none", policy |-> "none", used |-> {}]

TypeOK ==
  /\ released \in Versions
  /\ os \in Systems
  /\ {file, fileNew, fileOld} \subseteq Contents \cup {Missing}
  /\ downloads \in [content: Contents, sum: Contents]
  /\ rules \in Versions /\ loaded \in Contents
  /\ readers \subseteq Dialers \cup {"updater"}
  /\ writer \in {"none", "waiting", "holding"}
  /\ updater \in UpdaterPCs
  /\ dialer \in [Dialers -> [pc: DialerPCs, policy: PolicyNames,
                             addr: Domains \cup IPs \cup {"none"},
                             used: SUBSET Versions]]
  /\ carrierLock \in Dialers \cup {"free"}
  /\ carriers \in [Outbounds -> Nat]
  /\ crashes \in 0 .. MaxCrashes

NoDownloads == [content |-> Damaged, sum |-> Damaged]

(* The program was started with a rules file of version 1.                 *)
Init ==
  /\ released = 1
  /\ os \in Systems
  /\ file = 1 /\ fileNew = Missing /\ fileOld = Missing
  /\ downloads = NoDownloads
  /\ rules = 1 /\ loaded = Damaged
  /\ readers = {} /\ writer = "none"
  /\ updater = "sleep"
  /\ dialer = [d \in Dialers |-> NewDialer]
  /\ carrierLock = "free" /\ carriers = [o \in Outbounds |-> 0]
  /\ crashes = 0

----------------------------------------------------------------------------
(* DialTCP.                                                                *)

At(d, pc) == dialer[d].pc = pc

(* The policy of the first rule that matches addr.                         *)
FirstMatch(matches, addr) ==
  LET matching == {i \in Rules : addr \in matches[i]}
  IN  IF matching = {} THEN "none"
      ELSE Policies[CHOOSE i \in matching : \A j \in matching : i <= j]

Call(d, addr) ==
  /\ At(d, "idle")
  /\ dialer' = [dialer EXCEPT
       ![d].addr = addr, ![d].pc = "rlock"]
  /\ UNCHANGED <<updVars, rules, lockVars, carrierVars, crashes>>

(* RLock waits behind a writer that waits.                                 *)
RLock(d) ==
  /\ At(d, "rlock") /\ writer = "none"
  /\ readers' = readers \cup {d}
  /\ dialer' = [dialer EXCEPT
       ![d].pc = IF dialer[d].addr \in Domains THEN "domain" ELSE "ip"]
  /\ UNCHANGED <<updVars, rules, writer, carrierVars, crashes>>

(* Mutated form: the lock is given up before the second pass.              *)
MatchDomainUnlocking(d) ==
  /\ At(d, "domain")
  /\ LET policy == FirstMatch(DomainMatches[rules], dialer[d].addr)
     IN  dialer' = [dialer EXCEPT
           ![d].policy = policy,
           ![d].used = @ \cup {rules},
           ![d].pc = IF policy = "none" /\ dialer[d].addr \in IPs
                       THEN "ip" ELSE "unlock"]
  /\ readers' = readers \ {d}
  /\ UNCHANGED <<updVars, rules, writer, carrierVars, crashes>>

(* The default case of the switch; an IP address in a domain is matched    *)
(* again as an IP address, over the rules read anew.                       *)
MatchDomainRules(d) ==
  /\ At(d, "domain")
  /\ LET policy == FirstMatch(DomainMatches[rules], dialer[d].addr)
     IN  dialer' = [dialer EXCEPT
           ![d].policy = policy,
           ![d].used = @ \cup {rules},
           ![d].pc = IF policy = "none" /\ dialer[d].addr \in IPs
                       THEN "ip" ELSE "unlock"]
  /\ UNCHANGED <<updVars, rules, lockVars, carrierVars, crashes>>

MatchIP(d) ==
  /\ At(d, "ip")
  /\ dialer' = [dialer EXCEPT
       ![d].policy = FirstMatch(IPMatches[rules], dialer[d].addr),
       ![d].used = @ \cup {rules},
       ![d].pc = "unlock"]
  /\ UNCHANGED <<updVars, rules, lockVars, carrierVars, crashes>>

(* No rule, or one with the policy "final".                                *)
OrFinal(policy) == IF policy \in {"none", "final"} THEN Final ELSE policy

RUnlock(d) ==
  /\ At(d, "unlock")
  /\ readers' = readers \ {d}
  /\ dialer' = [dialer EXCEPT ![d].pc = "client",
                              ![d].policy = OrFinal(@)]
  /\ UNCHANGED <<updVars, rules, writer, carrierVars, crashes>>

(* The switch on the policy; the rules are not used any more.              *)
ChooseClient(d) ==
  /\ At(d, "client")
  /\ dialer' = [dialer EXCEPT
       ![d].used = {},
       ![d].pc = IF dialer[d].policy \in {"direct", "reject"}
                   THEN "decided" ELSE "carrierLock"]
  /\ UNCHANGED <<updVars, rules, lockVars, carrierVars, crashes>>

(* Mutated form: the map is read before the mutex is taken.                *)
LockCarriersNot(d) ==
  /\ At(d, "carrierLock")
  /\ UNCHANGED carrierLock
  /\ dialer' = [dialer EXCEPT
       ![d].pc = IF carriers[dialer[d].policy] > 0 THEN "decided" ELSE "carrier"]
  /\ UNCHANGED <<updVars, rules, lockVars, carriers, crashes>>

(* getCarrierClient: a cached client is returned at once.                  *)
LockCarriers(d) ==
  /\ At(d, "carrierLock") /\ carrierLock = "free"
  /\ LET cached == carriers[dialer[d].policy] > 0
     IN  /\ carrierLock' = IF cached THEN "free" ELSE d
         /\ dialer' = [dialer EXCEPT
              ![d].pc = IF cached THEN "decided" ELSE "carrier"]
  /\ UNCHANGED <<updVars, rules, lockVars, carriers, crashes>>

(* newCarrierClient builds and caches one, or it fails.                    *)
BuildCarrier(d) ==
  /\ At(d, "carrier")
  /\ \/ /\ carriers' = [carriers EXCEPT ![dialer[d].policy] = @ + 1]
        /\ dialer' = [dialer EXCEPT ![d].pc = "decided"]
     \/ dialer' = [dialer EXCEPT ![d].pc = "failed"] /\ UNCHANGED carriers
  /\ carrierLock' = "free"
  /\ UNCHANGED <<updVars, rules, lockVars, crashes>>

(* The connection was made and has ended; the next one may come.           *)
Return(d) ==
  /\ dialer[d].pc \in {"decided", "failed"}
  /\ dialer' = [dialer EXCEPT ![d] = NewDialer]
  /\ UNCHANGED <<updVars, rules, lockVars, carrierVars, crashes>>

----------------------------------------------------------------------------
(* updateRouting and UpdateRuleDBFile.  The downloads dial through this    *)
(* router, so they take and give back routingRWMutex as any other call.    *)

Release ==
  /\ released < MaxVersion
  /\ released' = released + 1
  /\ UNCHANGED <<ruleFiles, downloads, rules, loaded, lockVars, updater,
                 dialer, carrierVars, crashes>>

(* updateFile gives up: its temporary files are removed.                   *)
UpdateFails ==
  /\ updater \in {"download", "sum", "verify", "create", "copy",
                 "renameOld", "rename"}
  /\ updater' = "sleep"
  /\ downloads' = NoDownloads
  /\ UNCHANGED <<released, ruleFiles, rules, loaded, lockVars, dialer,
                 carrierVars, crashes>>

(* StartUpdateCron calls and needUpdateFile finds the file old or missing. *)
NeedUpdate ==
  /\ updater = "sleep"
  /\ updater' = "download"
  /\ UNCHANGED <<released, ruleFiles, downloads, rules, loaded, lockVars,
                 dialer, carrierVars, crashes>>

(* downloadFile, for the rules file and for its checksum.  A transfer may  *)
(* be cut off or altered without an error.                                 *)
Download ==
  /\ updater = "download" /\ writer = "none"
  /\ \E content \in {released, Damaged} :
       downloads' = [downloads EXCEPT !.content = content]
  /\ updater' = "sum"
  /\ UNCHANGED <<released, ruleFiles, rules, loaded, lockVars, dialer,
                 carrierVars, crashes>>

DownloadSum ==
  /\ updater = "sum" /\ writer = "none"
  /\ downloads' = [downloads EXCEPT !.sum = released]
  /\ updater' = "verify"
  /\ UNCHANGED <<released, ruleFiles, rules, loaded, lockVars, dialer,
                 carrierVars, crashes>>

(* Mutated form: the checksum is not compared.                             *)
VerifyNothing == updater = "verify"

(* verifyRulesFileSHA256Sum.                                               *)
VerifySum == updater = "verify" /\ downloads.content = downloads.sum

Verified ==
  /\ VerifySum
  /\ updater' = "create"
  /\ UNCHANGED <<released, ruleFiles, downloads, rules, loaded, lockVars,
                 dialer, carrierVars, crashes>>

(* replaceFile: os.Create, io.Copy, and one os.Rename or, on Windows, two. *)
CreateNew ==
  /\ updater = "create"
  /\ fileNew' = Damaged
  /\ updater' = "copy"
  /\ UNCHANGED <<released, os, file, fileOld, downloads, rules, loaded,
                 lockVars, dialer, carrierVars, crashes>>

CopyNew ==
  /\ updater = "copy"
  /\ fileNew' = downloads.content
  /\ updater' = IF os = "windows" THEN "renameOld" ELSE "rename"
  /\ UNCHANGED <<released, os, file, fileOld, downloads, rules, loaded,
                 lockVars, dialer, carrierVars, crashes>>

(* Mutated form: the rules file is removed to make room for the new one.   *)
RemoveOld ==
  /\ updater = "renameOld"
  /\ file' = Missing
  /\ updater' = "rename"
  /\ UNCHANGED <<released, os, fileNew, fileOld, downloads, rules, loaded,
                 lockVars, dialer, carrierVars, crashes>>

(* The rules file is moved aside; that there is none is no error.          *)
RenameOld ==
  /\ updater = "renameOld"
  /\ fileOld' = IF file = Missing THEN fileOld ELSE file
  /\ file' = Missing
  /\ updater' = "rename"
  /\ UNCHANGED <<released, os, fileNew, downloads, rules, loaded, lockVars,
                 dialer, carrierVars, crashes>>

RenameNew ==
  /\ updater = "rename"
  /\ file' = fileNew
  /\ fileNew' = Missing
  /\ downloads' = NoDownloads
  /\ updater' = "rlock"
  /\ UNCHANGED <<released, os, fileOld, rules, loaded, lockVars, dialer,
                 carrierVars, crashes>>

RLockForCopy ==
  /\ updater = "rlock" /\ writer = "none"
  /\ readers' = readers \cup {"updater"}
  /\ updater' = "load"
  /\ UNCHANGED <<released, ruleFiles, downloads, rules, loaded, writer,
                 dialer, carrierVars, crashes>>

(* CopyWithNewRulesData and RUnlock.  It may fail: a tag of a rule is not  *)
(* in the new file.                                                        *)
Load ==
  /\ updater = "load"
  /\ readers' = readers \ {"updater"}
  /\ \/ loaded' = file /\ updater' = "lock"
     \/ loaded' = Damaged /\ updater' = "sleep"
  /\ UNCHANGED <<released, ruleFiles, downloads, rules, writer, dialer,
                 carrierVars, crashes>>

LockForSwap ==
  /\ updater = "lock"
  /\ writer' = "waiting"
  /\ updater' = "swap"
  /\ UNCHANGED <<released, ruleFiles, downloads, rules, loaded, readers,
                 dialer, carrierVars, crashes>>

(* Mutated form: the rules are exchanged without Unlock.                   *)
SwapKeepingLock ==
  /\ updater = "swap" /\ readers = {}
  /\ writer' = "holding"
  /\ rules' = loaded /\ loaded' = Damaged
  /\ updater' = "sleep"
  /\ UNCHANGED <<released, ruleFiles, downloads, readers, dialer, carrierVars,
                 crashes>>

(* The last reader has left: the rules are exchanged, then Unlock.         *)
Swap ==
  /\ updater = "swap" /\ readers = {}
  /\ \/ /\ writer = "waiting" /\ writer' = "holding"
        /\ UNCHANGED <<rules, loaded, updater>>
     \/ /\ writer = "holding" /\ writer' = "none"
        /\ rules' = loaded /\ loaded' = Damaged
        /\ updater' = "sleep"
  /\ UNCHANGED <<released, ruleFiles, downloads, readers, dialer, carrierVars,
                 crashes>>

(* The program dies and is started again: main parses the config and loads *)
(* the rules file, which must be there and whole, or the start fails.      *)
Restart ==
  /\ crashes < MaxCrashes /\ file \in Versions
  /\ crashes' = crashes + 1
  /\ rules' = file
  /\ downloads' = NoDownloads /\ loaded' = Damaged
  /\ readers' = {} /\ writer' = "none"
  /\ updater' = "sleep"
  /\ dialer' = [d \in Dialers |-> NewDialer]
  /\ carrierLock' = "free" /\ carriers' = [o \in Outbounds |-> 0]
  /\ UNCHANGED <<released, ruleFiles>>

----------------------------------------------------------------------------

Dial(d) ==
  \/ RLock(d)
  \/ MatchDomainRules(d)
  \/ MatchIP(d)
  \/ RUnlock(d)
  \/ ChooseClient(d)
  \/ LockCarriers(d)
  \/ BuildCarrier(d)

Update ==
  \/ UpdateFails
  \/ Download
  \/ DownloadSum
  \/ Verified
  \/ CreateNew
  \/ CopyNew
  \/ RenameOld
  \/ RenameNew
  \/ RLockForCopy
  \/ Load
  \/ LockForSwap
  \/ Swap

Next ==
  \/ \E d \in Dialers, addr \in Domains \cup IPs : Call(d, addr)
  \/ \E d \in Dialers : Dial(d) \/ Return(d)
  \/ NeedUpdate
  \/ Update
  \/ Release
  \/ Restart

(* Goroutines run when they can.  A mutex that is given up again and again *)
(* is handed to those who wait: sync.RWMutex lets waiting readers in when  *)
(* a writer unlocks, sync.Mutex does not starve.                           *)
Fairness ==
  /\ \A d \in Dialers : SF_vars(Dial(d))
  /\ WF_vars(Update)

Spec == Init /\ [][Next]_vars /\ Fairness

----------------------------------------------------------------------------
(* Properties.                                                             *)

(* What version v of the rules says about an address.                      *)
Decision(v, addr) ==
  LET byDomain == IF addr \in Domains THEN FirstMatch(DomainMatches[v], addr)
                                      ELSE "none"
      byIP == IF addr \in IPs THEN FirstMatch(IPMatches[v], addr) ELSE "none"
      policy == IF byDomain # "none" THEN byDomain ELSE byIP
  IN  IF policy \in {"none", "final"} THEN Final ELSE policy

(* DialTCP decides by one version of the rules, even if an update takes    *)
(* place between the two passes over them, and as that version says.       *)
DecidedByOneVersion ==
  \A d \in Dialers :
    At(d, "client") =>
      \E v \in Versions : /\ dialer[d].used = {v}
                          /\ dialer[d].policy = Decision(v, dialer[d].addr)

(* replaceFile: whenever the program dies, the rules file on disk is a     *)
(* whole release with which it can start again, never a partial or an      *)
(* unverified one.  On Windows there may be none, after the first of two   *)
(* renames, and the program cannot start until one is put back: then a     *)
(* whole release lies beside it as ".old".                                 *)
FileIsARelease ==
  /\ file \in (1 .. released) \cup {Missing}
  /\ file = Missing => os = "windows" /\ fileOld \in 1 .. released

(* Concurrent calls never build two carrier clients for one outbound: a    *)
(* second one would open connections of its own.                           *)
OneClientPerOutbound == \A o \in Outbounds : carriers[o] <= 1

(* Every DialTCP call reaches a client or an error: no update, failed or   *)
(* not, leaves routingRWMutex locked.                                      *)
EveryDialDecided ==
  \A d \in Dialers :
    At(d, "rlock") ~> (dialer[d].pc \in {"decided", "failed", "idle"})

============================================================================
