--------------------------- MODULE ProcessProofs ---------------------------
(***************************************************************************)
(* Proofs, for any configurations, releases and number of starts, that the *)
(* update of the binary always leaves a complete one, that the system      *)
(* proxy is unset once, and that a process which ends through its handlers *)
(* does not forget it.                                                     *)
(***************************************************************************)
EXTENDS Process, TLAPS

(* hasUnsetProxy stands for the one time the commands were begun, and that *)
(* is after they were there to be undone.                                  *)
UnsetInv ==
  /\ ~ hasUnset => unsets = 0
  /\ hasUnset => registered /\ proxy # "set"

(* The callback of the main listener sets the proxy before it registers    *)
(* the handler, in a process that is running; when it has begun to unset   *)
(* it, hasUnsetProxy is set.  A process starts with its listeners.         *)
MainListenerInv ==
  /\ Running /\ serving["main"] \in {"listen", "setProxy", "settingProxy"} =>
       ~ registered
  /\ serving["main"] \in {"unset", "unsetFailed"} => hasUnset
  /\ ~ Running => serving["main"] = "listen"

(* An ender that found the handler registered is past the exchange of      *)
(* hasUnsetProxy, its own or that of another goroutine.                    *)
EndersInv ==
  \A e \in Enders :
    /\ ending[e] = "unset" => hasUnset
    /\ ending[e] = "exit" /\ saw[e] => hasUnset

(* What is complete is a release; .new is complete before it is renamed,   *)
(* and only Windows moves the installed binary away.                       *)
FilesInv ==
  /\ \A f \in {exe, exeNew, exeOld} : f.whole => f.release # 0
  /\ update \in {"extract", "create", "copy"} => newest # 0
  /\ update \in {"renameOld", "renameNew"} => exeNew.whole
  /\ update = "renameOld" => config.os = "windows"

IInv ==
  /\ TypeOK
  /\ UnsetInv
  /\ MainListenerInv
  /\ EndersInv
  /\ FilesInv
  /\ SomeWholeBinary
  /\ UnsetOnce
  /\ ProxyNotForgotten

(* What is about the system proxy.                                         *)
ProxyInv ==
  UnsetInv /\ MainListenerInv /\ EndersInv /\ UnsetOnce /\ ProxyNotForgotten

(* The parts of the type invariant.                                        *)
LifeTypes ==
  /\ config \in Configs
  /\ process \in {"running", "ended", "killed", "replaced"}
  /\ starts \in 1 .. MaxStarts /\ parentWaits \in BOOLEAN
  /\ latest \in 1 .. MaxRelease /\ running \in 1 .. MaxRelease

ServerTypes ==
  /\ socket \in [Listeners -> {"none", "open", "closed"}]
  /\ serving \in [Listeners -> ServingSteps]
  /\ result \in {"none", "nil", "err"} /\ returned \in BOOLEAN

ProxyTypes ==
  /\ proxy \in {"unset", "changing", "set"}
  /\ registered \in BOOLEAN /\ hasUnset \in BOOLEAN /\ unsets \in 0 .. 3

EnderTypes ==
  /\ caught \in BOOLEAN /\ saw \in [Enders -> BOOLEAN]
  /\ ending \in [Enders -> {"no", "handlers", "unset", "exit"}]

UpdateTypes ==
  /\ update \in {"idle", "extract", "create", "copy", "renameOld",
                 "renameNew", "restart", "stopped"}
  /\ newest \in 0 .. MaxRelease
  /\ {exe, exeNew, exeOld} \subseteq File

----------------------------------------------------------------------------
(* What leaves an invariant alone.                                         *)

(* TypeOK is the conjunction of its parts.                                 *)
LEMMA TypeParts ==
  TypeOK <=>
    LifeTypes /\ ServerTypes /\ ProxyTypes /\ EnderTypes /\ UpdateTypes
BY DEF TypeOK, LifeTypes, ServerTypes, ProxyTypes, EnderTypes, UpdateTypes

(* And so in the next state.                                               *)
LEMMA TypePartsNext ==
  ASSUME LifeTypes', ServerTypes', ProxyTypes', EnderTypes', UpdateTypes'
  PROVE  TypeOK'
BY DEF TypeOK, LifeTypes, ServerTypes, ProxyTypes, EnderTypes, UpdateTypes

(* The files stay complete while nothing writes them, whatever becomes of  *)
(* the updater unless it goes on to a step that relies on them.            *)
LEMMA FilesKept ==
  ASSUME FilesInv, SomeWholeBinary,
         UNCHANGED <<config, fileVars>>,
         \/ UNCHANGED <<update, newest>>
         \/ update' \in {"idle", "restart", "stopped"}
  PROVE  FilesInv' /\ SomeWholeBinary'
BY DEF FilesInv, SomeWholeBinary, fileVars

(* The proxy does not notice the updater, nor a step of a listener other   *)
(* than those of the main one that set and unset it.                       *)
LEMMA ProxyKept ==
  ASSUME TypeOK, ProxyInv, UNCHANGED <<proxyVars, process>>,
         \A e \in Enders : /\ saw'[e] = saw[e]
                           /\ ending'[e] \in {ending[e], "no", "handlers"},
         \/ serving'["main"] = serving["main"]
         \/ /\ Running
            /\ serving'["main"] \in {"accept", "closed", "failed", "returned"}
  PROVE  ProxyInv'
BY DEF TypeOK, ProxyInv, UnsetInv, MainListenerInv, EndersInv, UnsetOnce,
       ProxyNotForgotten, proxyVars, Running

(* The commands to unset the proxy are begun when they were not before.    *)
LEMMA BeginUnsetTypes ==
  ASSUME UnsetInv, ProxyTypes, BeginUnset
  PROVE  ProxyTypes'
<1>1. unsets' = 1 /\ proxy' = "changing" /\ hasUnset' = TRUE
      /\ registered' = registered
  BY DEF UnsetInv, ProxyTypes, BeginUnset
<1>2. unsets' \in 0 .. 3
  BY <1>1
<1> QED
  BY <1>1, <1>2 DEF ProxyTypes

----------------------------------------------------------------------------
(* The listeners.                                                          *)

(* A listener listens; the main one goes on to set the proxy.              *)
LEMMA ListenPreserves ==
  ASSUME IInv, NEW l \in Listeners, Listen(l)
  PROVE  IInv'
<1> USE DEF Listen, At, IInv, TypeOK, proxyVars, endVars, serverVars, lifeVars,
            updateVars, fileVars
<1>1. TypeOK'
  BY DEF ServingSteps
<1>2. ProxyInv'
  BY DEF ProxyInv, UnsetInv, MainListenerInv, EndersInv, UnsetOnce,
         ProxyNotForgotten, Running, Listeners, Enders
<1>3. FilesInv' /\ SomeWholeBinary'
  BY FilesKept DEF fileVars
<1> QED
  BY <1>1, <1>2, <1>3 DEF ProxyInv

(* A listener cannot listen, and returns.                                  *)
LEMMA ListenFailsPreserves ==
  ASSUME IInv, NEW l \in Listeners, ListenFails(l)
  PROVE  IInv'
<1> USE DEF ListenFails, At, ReturnWith, IInv, TypeOK, proxyVars, endVars,
            serverVars, lifeVars, updateVars, fileVars
<1>1. TypeOK'
  BY DEF ServingSteps
<1>2. ProxyInv'
  BY ProxyKept DEF ProxyInv, Running
<1>3. FilesInv' /\ SomeWholeBinary'
  BY FilesKept DEF fileVars
<1> QED
  BY <1>1, <1>2, <1>3 DEF ProxyInv

(* acceptNetConn returns.                                                  *)
LEMMA AcceptFailsPreserves ==
  ASSUME IInv, NEW l \in Listeners, AcceptFails(l)
  PROVE  IInv'
<1> USE DEF AcceptFails, At, IInv, TypeOK, proxyVars, endVars, serverVars,
            lifeVars, updateVars, fileVars
<1>1. TypeOK'
  BY DEF ServingSteps
<1>2. ProxyInv'
  BY ProxyKept DEF ProxyInv, Running
<1>3. FilesInv' /\ SomeWholeBinary'
  BY FilesKept DEF fileVars
<1> QED
  BY <1>1, <1>2, <1>3 DEF ProxyInv

(* The context closes a socket.                                            *)
LEMMA CloseByContextPreserves ==
  ASSUME IInv, NEW l \in Listeners, CloseByContext(l)
  PROVE  IInv'
<1> USE DEF CloseByContext, ContextDone, IInv, TypeOK, proxyVars, endVars,
            serverVars, lifeVars, updateVars, fileVars
<1>1. TypeOK'
  BY DEF ServingSteps
<1>2. ProxyInv'
  BY ProxyKept DEF ProxyInv, Running
<1>3. FilesInv' /\ SomeWholeBinary'
  BY FilesKept DEF fileVars
<1> QED
  BY <1>1, <1>2, <1>3 DEF ProxyInv

(* The commands to set the proxy begin.                                    *)
LEMMA SetProxyPreserves ==
  ASSUME IInv, SetProxy
  PROVE  IInv'
<1> USE DEF SetProxy, At, IInv, TypeOK, proxyVars, endVars, serverVars,
            lifeVars, updateVars, fileVars
<1>1. TypeOK'
  <2>1. LifeTypes' /\ EnderTypes' /\ UpdateTypes'
    BY DEF LifeTypes, EnderTypes, UpdateTypes
  <2>2. ServerTypes'
    BY DEF ServerTypes, ServingSteps
  <2>3. ProxyTypes'
    BY DEF ProxyTypes, UnsetInv
  <2> QED
    BY <2>1, <2>2, <2>3, TypePartsNext
<1>2. ProxyInv'
  BY DEF ProxyInv, UnsetInv, MainListenerInv, EndersInv, UnsetOnce,
         ProxyNotForgotten, Running, Listeners, Enders
<1>3. FilesInv' /\ SomeWholeBinary'
  BY FilesKept DEF fileVars
<1> QED
  BY <1>1, <1>2, <1>3 DEF ProxyInv

(* The proxy is set, and the handler that unsets it is registered.         *)
LEMMA ProxyIsSetPreserves ==
  ASSUME IInv, ProxyIsSet
  PROVE  IInv'
<1> USE DEF ProxyIsSet, At, IInv, TypeOK, proxyVars, endVars, serverVars,
            lifeVars, updateVars, fileVars
<1>1. TypeOK'
  BY ZenonT(60) DEF ServingSteps
<1>2. ProxyInv'
  BY DEF ProxyInv, UnsetInv, MainListenerInv, EndersInv, UnsetOnce,
         ProxyNotForgotten, Running, Listeners, Enders
<1>3. FilesInv' /\ SomeWholeBinary'
  BY FilesKept DEF fileVars
<1> QED
  BY <1>1, <1>2, <1>3 DEF ProxyInv

(* The proxy was not set, and no handler is registered.                    *)
LEMMA SetProxyFailsPreserves ==
  ASSUME IInv, SetProxyFails
  PROVE  IInv'
<1> USE DEF SetProxyFails, At, IInv, TypeOK, proxyVars, endVars, serverVars,
            lifeVars, updateVars, fileVars
<1>1. TypeOK'
  <2>1. LifeTypes' /\ ProxyTypes' /\ EnderTypes' /\ UpdateTypes'
    BY DEF LifeTypes, ProxyTypes, EnderTypes, UpdateTypes
  <2>2. ServerTypes'
    BY DEF ServerTypes, ServingSteps
  <2> QED
    BY <2>1, <2>2, TypePartsNext
<1>2. ProxyInv'
  BY ProxyKept DEF ProxyInv, Running
<1>3. FilesInv' /\ SomeWholeBinary'
  BY FilesKept DEF fileVars
<1> QED
  BY <1>1, <1>2, <1>3 DEF ProxyInv

(* The finished callback unsets the proxy unless another goroutine does,   *)
(* and the listener returns.                                               *)
LEMMA FinishPreserves ==
  ASSUME IInv, NEW l \in Listeners, Finish(l)
  PROVE  IInv'
<1> USE DEF Finish, At, ReturnWith, BeginUnset, EndUnset, IInv, TypeOK,
            proxyVars, endVars, serverVars, lifeVars, updateVars, fileVars
<1>1. TypeOK'
  <2>1. LifeTypes' /\ EnderTypes' /\ UpdateTypes'
    BY DEF LifeTypes, EnderTypes, UpdateTypes
  <2>2. ServerTypes'
    BY DEF ServerTypes, ServingSteps
  <2>3. ProxyTypes'
    <3>1. CASE BeginUnset
      BY <3>1, BeginUnsetTypes DEF ProxyTypes
    <3>2. CASE UNCHANGED proxyVars
      BY <3>2 DEF ProxyTypes
    <3>3. CASE EndUnset
      BY <3>3 DEF ProxyTypes
    <3> QED
      BY <3>1, <3>2, <3>3
  <2> QED
    BY <2>1, <2>2, <2>3, TypePartsNext
<1>2. ProxyInv'
  BY DEF ProxyInv, UnsetInv, MainListenerInv, EndersInv, UnsetOnce,
         ProxyNotForgotten, Running, Listeners, Enders
<1>3. FilesInv' /\ SomeWholeBinary'
  BY FilesKept DEF fileVars
<1> QED
  BY <1>1, <1>2, <1>3 DEF ProxyInv

(* ListenAndServe returns; an error is fatal.                              *)
LEMMA ServerReturnsPreserves ==
  ASSUME IInv, ServerReturns
  PROVE  IInv'
<1> USE DEF ServerReturns, IInv, TypeOK, proxyVars, endVars, serverVars,
            lifeVars, updateVars, fileVars
<1>1. TypeOK'
  <2>1. LifeTypes' /\ ProxyTypes' /\ UpdateTypes'
    BY DEF LifeTypes, ProxyTypes, UpdateTypes
  <2>2. ServerTypes'
    BY DEF ServerTypes, ServingSteps
  <2>3. EnderTypes'
    BY DEF EnderTypes
  <2> QED
    BY <2>1, <2>2, <2>3, TypePartsNext
<1>2. ProxyInv'
  BY ProxyKept DEF ProxyInv, Running
<1>3. FilesInv' /\ SomeWholeBinary'
  BY FilesKept DEF fileVars
<1> QED
  BY <1>1, <1>2, <1>3 DEF ProxyInv

----------------------------------------------------------------------------
(* The enders.                                                             *)

(* The first signal is caught.                                             *)
LEMMA SignalPreserves ==
  ASSUME IInv, Signal
  PROVE  IInv'
<1> USE DEF Signal, IInv, TypeOK, proxyVars, endVars, serverVars, lifeVars,
            updateVars, fileVars
<1>1. TypeOK'
  <2>1. LifeTypes' /\ ServerTypes' /\ ProxyTypes' /\ UpdateTypes'
    BY DEF LifeTypes, ServerTypes, ProxyTypes, UpdateTypes
  <2>2. EnderTypes'
    BY DEF EnderTypes
  <2> QED
    BY <2>1, <2>2, TypePartsNext
<1>2. ProxyInv'
  BY ProxyKept DEF ProxyInv, Running
<1>3. FilesInv' /\ SomeWholeBinary'
  BY FilesKept DEF fileVars
<1> QED
  BY <1>1, <1>2, <1>3 DEF ProxyInv

(* Another server ends the process.                                        *)
LEMMA OtherFatalPreserves ==
  ASSUME IInv, OtherFatal
  PROVE  IInv'
<1> USE DEF OtherFatal, IInv, TypeOK, proxyVars, endVars, serverVars, lifeVars,
            updateVars, fileVars
<1>1. TypeOK'
  <2>1. LifeTypes' /\ ServerTypes' /\ ProxyTypes' /\ UpdateTypes'
    BY DEF LifeTypes, ServerTypes, ProxyTypes, UpdateTypes
  <2>2. EnderTypes'
    BY DEF EnderTypes
  <2> QED
    BY <2>1, <2>2, TypePartsNext
<1>2. ProxyInv'
  BY ProxyKept DEF ProxyInv, Running
<1>3. FilesInv' /\ SomeWholeBinary'
  BY FilesKept DEF fileVars
<1> QED
  BY <1>1, <1>2, <1>3 DEF ProxyInv

(* atexit runs the handler: it unsets the proxy, unless another goroutine  *)
(* has begun to.                                                           *)
LEMMA RunHandlersPreserves ==
  ASSUME IInv, NEW e \in Enders, RunHandlers(e)
  PROVE  IInv'
<1> USE DEF RunHandlers, BeginUnset, IInv, TypeOK, proxyVars, endVars,
            serverVars, lifeVars, updateVars, fileVars
<1>1. TypeOK'
  <2>1. LifeTypes' /\ ServerTypes' /\ UpdateTypes'
    BY DEF LifeTypes, ServerTypes, UpdateTypes
  <2>2. ProxyTypes'
    <3>1. CASE BeginUnset
      BY <3>1, BeginUnsetTypes DEF ProxyTypes
    <3>2. CASE UNCHANGED proxyVars
      BY <3>2 DEF ProxyTypes
    <3> QED
      BY <3>1, <3>2
  <2>3. EnderTypes'
    BY DEF EnderTypes
  <2> QED
    BY <2>1, <2>2, <2>3, TypePartsNext
<1>2. ProxyInv'
  BY DEF ProxyInv, UnsetInv, MainListenerInv, EndersInv, UnsetOnce,
         ProxyNotForgotten, Running, Listeners, Enders
<1>3. FilesInv' /\ SomeWholeBinary'
  BY FilesKept DEF fileVars
<1> QED
  BY <1>1, <1>2, <1>3 DEF ProxyInv

(* The commands to unset the proxy have ended.                             *)
LEMMA HandlersDonePreserves ==
  ASSUME IInv, NEW e \in Enders, HandlersDone(e)
  PROVE  IInv'
<1> USE DEF HandlersDone, EndUnset, IInv, TypeOK, proxyVars, endVars,
            serverVars, lifeVars, updateVars, fileVars
<1>1. TypeOK'
  BY DEF ServingSteps
<1>2. ProxyInv'
  BY DEF ProxyInv, UnsetInv, MainListenerInv, EndersInv, UnsetOnce,
         ProxyNotForgotten, Running, Listeners, Enders
<1>3. FilesInv' /\ SomeWholeBinary'
  BY FilesKept DEF fileVars
<1> QED
  BY <1>1, <1>2, <1>3 DEF ProxyInv

(* The process ends after its handlers.                                    *)
LEMMA ExitPreserves ==
  ASSUME IInv, NEW e \in Enders, Exit(e)
  PROVE  IInv'
<1> USE DEF Exit, End, Fresh, IInv, TypeOK, proxyVars, endVars, serverVars,
            lifeVars, updateVars, fileVars
<1>1. TypeOK'
  <2>1. ProxyTypes' /\ EnderTypes'
    BY DEF ProxyTypes, EnderTypes
  <2>2. LifeTypes'
    BY DEF LifeTypes
  <2>3. ServerTypes'
    BY DEF ServerTypes, ServingSteps
  <2>4. UpdateTypes'
    BY ProcessAssumption DEF UpdateTypes, File, NoFile
  <2> QED
    BY <2>1, <2>2, <2>3, <2>4, TypePartsNext
<1>2. ProxyInv'
  BY DEF ProxyInv, UnsetInv, MainListenerInv, EndersInv, UnsetOnce,
         ProxyNotForgotten, Running, Listeners, Enders
<1>3. FilesInv' /\ SomeWholeBinary'
  BY FilesKept DEF fileVars
<1> QED
  BY <1>1, <1>2, <1>3 DEF ProxyInv

(* The process is killed, at any step.                                     *)
LEMMA KilledPreserves ==
  ASSUME IInv, Killed
  PROVE  IInv'
<1> USE DEF Killed, End, Fresh, IInv, TypeOK, proxyVars, endVars, serverVars,
            lifeVars, updateVars, fileVars
<1>1. TypeOK'
  <2>1. ProxyTypes' /\ EnderTypes'
    BY DEF ProxyTypes, EnderTypes
  <2>2. LifeTypes'
    BY DEF LifeTypes
  <2>3. ServerTypes'
    BY DEF ServerTypes, ServingSteps
  <2>4. UpdateTypes'
    BY ProcessAssumption DEF UpdateTypes, File, NoFile
  <2> QED
    BY <2>1, <2>2, <2>3, <2>4, TypePartsNext
<1>2. ProxyInv'
  BY DEF ProxyInv, UnsetInv, MainListenerInv, EndersInv, UnsetOnce,
         ProxyNotForgotten, Running, Listeners, Enders
<1>3. FilesInv' /\ SomeWholeBinary'
  BY FilesKept DEF fileVars
<1> QED
  BY <1>1, <1>2, <1>3 DEF ProxyInv

(* The installed binary, which is complete, starts.                        *)
LEMMA StartPreserves ==
  ASSUME IInv, Start
  PROVE  IInv'
<1> USE DEF Start, IInv, TypeOK, proxyVars, endVars, serverVars, lifeVars,
            updateVars, fileVars
<1>1. TypeOK'
  <2>1. ServerTypes' /\ UpdateTypes'
    BY DEF ServerTypes, UpdateTypes
  <2>2. LifeTypes'
    BY ProcessAssumption DEF LifeTypes, File, FilesInv
  <2>3. ProxyTypes'
    <3>1. /\ proxy' = proxy /\ registered' = FALSE
          /\ hasUnset' = FALSE /\ unsets' = 0
      OBVIOUS
    <3>2. unsets' \in 0 .. 3
      BY <3>1
    <3> QED
      BY <3>1, <3>2 DEF ProxyTypes
  <2>4. EnderTypes'
    BY DEF EnderTypes
  <2> QED
    BY <2>1, <2>2, <2>3, <2>4, TypePartsNext
<1>2. ProxyInv'
  BY DEF ProxyInv, UnsetInv, MainListenerInv, EndersInv, UnsetOnce,
         ProxyNotForgotten, Running, Listeners, Enders
<1>3. FilesInv' /\ SomeWholeBinary'
  BY FilesKept DEF fileVars
<1> QED
  BY <1>1, <1>2, <1>3 DEF ProxyInv

----------------------------------------------------------------------------
(* The updater.                                                            *)

(* A release is published.                                                 *)
LEMMA NewReleasePreserves ==
  ASSUME IInv, NewRelease
  PROVE  IInv'
<1> USE DEF NewRelease, IInv, TypeOK, proxyVars, endVars, serverVars, lifeVars,
            updateVars, fileVars
<1>1. TypeOK'
  <2>1. ServerTypes' /\ ProxyTypes' /\ EnderTypes' /\ UpdateTypes'
    BY DEF ServerTypes, ProxyTypes, EnderTypes, UpdateTypes
  <2>2. LifeTypes'
    BY ProcessAssumption DEF LifeTypes
  <2> QED
    BY <2>1, <2>2, TypePartsNext
<1>2. ProxyInv'
  BY ProxyKept DEF ProxyInv, Running
<1>3. FilesInv' /\ SomeWholeBinary'
  BY FilesKept DEF fileVars
<1> QED
  BY <1>1, <1>2, <1>3 DEF ProxyInv

(* A newer release is downloaded.                                          *)
LEMMA StartUpdatePreserves ==
  ASSUME IInv, StartUpdate
  PROVE  IInv'
<1> USE DEF StartUpdate, UpdateStep, IInv, TypeOK, proxyVars, endVars,
            serverVars, lifeVars, updateVars, fileVars
<1>1. TypeOK'
  BY DEF ServingSteps
<1>2. ProxyInv'
  BY ProxyKept DEF ProxyInv, Running
<1>3. FilesInv' /\ SomeWholeBinary'
  BY ProcessAssumption DEF FilesInv, SomeWholeBinary, NoFile, File
<1> QED
  BY <1>1, <1>2, <1>3 DEF ProxyInv

(* The binary is taken from the archive.                                   *)
LEMMA ExtractPreserves ==
  ASSUME IInv, Extract
  PROVE  IInv'
<1> USE DEF Extract, UpdateStep, IInv, TypeOK, proxyVars, endVars, serverVars,
            lifeVars, updateVars, fileVars
<1>1. TypeOK'
  BY DEF ServingSteps
<1>2. ProxyInv'
  BY ProxyKept DEF ProxyInv, Running
<1>3. FilesInv' /\ SomeWholeBinary'
  BY ProcessAssumption DEF FilesInv, SomeWholeBinary, NoFile, File
<1> QED
  BY <1>1, <1>2, <1>3 DEF ProxyInv

(* The file .new is created: the installed binary stays.                   *)
LEMMA CreateNewPreserves ==
  ASSUME IInv, CreateNew
  PROVE  IInv'
<1> USE DEF CreateNew, UpdateStep, IInv, TypeOK, proxyVars, endVars,
            serverVars, lifeVars, updateVars, fileVars
<1>1. TypeOK'
  <2>1. LifeTypes' /\ ServerTypes' /\ ProxyTypes' /\ EnderTypes'
    BY DEF LifeTypes, ServerTypes, ProxyTypes, EnderTypes
  <2>2. UpdateTypes'
    BY ProcessAssumption DEF UpdateTypes, File, NoFile
  <2> QED
    BY <2>1, <2>2, TypePartsNext
<1>2. ProxyInv'
  BY ProxyKept DEF ProxyInv, Running
<1>3. FilesInv' /\ SomeWholeBinary'
  BY ProcessAssumption DEF FilesInv, SomeWholeBinary, NoFile, File
<1> QED
  BY <1>1, <1>2, <1>3 DEF ProxyInv

(* The file .new is complete.                                              *)
LEMMA CopyNewPreserves ==
  ASSUME IInv, CopyNew
  PROVE  IInv'
<1> USE DEF CopyNew, UpdateStep, IInv, TypeOK, proxyVars, endVars, serverVars,
            lifeVars, updateVars, fileVars
<1>1. TypeOK'
  <2>1. LifeTypes' /\ ServerTypes' /\ ProxyTypes' /\ EnderTypes'
    BY DEF LifeTypes, ServerTypes, ProxyTypes, EnderTypes
  <2>2. UpdateTypes'
    BY ProcessAssumption DEF UpdateTypes, File, NoFile
  <2> QED
    BY <2>1, <2>2, TypePartsNext
<1>2. ProxyInv'
  BY ProxyKept DEF ProxyInv, Running
<1>3. FilesInv' /\ SomeWholeBinary'
  BY ProcessAssumption DEF FilesInv, SomeWholeBinary, NoFile, File
<1> QED
  BY <1>1, <1>2, <1>3 DEF ProxyInv

(* Windows: a complete binary is moved away, if there is one.              *)
LEMMA RenameOldPreserves ==
  ASSUME IInv, RenameOld
  PROVE  IInv'
<1> USE DEF RenameOld, UpdateStep, IInv, TypeOK, proxyVars, endVars,
            serverVars, lifeVars, updateVars, fileVars
<1>1. TypeOK'
  <2>1. LifeTypes' /\ ServerTypes' /\ ProxyTypes' /\ EnderTypes'
    BY DEF LifeTypes, ServerTypes, ProxyTypes, EnderTypes
  <2>2. UpdateTypes'
    BY ProcessAssumption DEF UpdateTypes, File, NoFile
  <2> QED
    BY <2>1, <2>2, TypePartsNext
<1>2. ProxyInv'
  BY ProxyKept DEF ProxyInv, Running
<1>3. FilesInv' /\ SomeWholeBinary'
  BY ProcessAssumption DEF FilesInv, SomeWholeBinary, NoFile, File
<1> QED
  BY <1>1, <1>2, <1>3 DEF ProxyInv

(* The complete .new becomes the installed binary.                         *)
LEMMA RenameNewPreserves ==
  ASSUME IInv, RenameNew
  PROVE  IInv'
<1> USE DEF RenameNew, UpdateStep, IInv, TypeOK, proxyVars, endVars,
            serverVars, lifeVars, updateVars, fileVars
<1>1. TypeOK'
  <2>1. LifeTypes' /\ ServerTypes' /\ ProxyTypes' /\ EnderTypes'
    BY DEF LifeTypes, ServerTypes, ProxyTypes, EnderTypes
  <2>2. UpdateTypes'
    BY ProcessAssumption DEF UpdateTypes, File, NoFile
  <2> QED
    BY <2>1, <2>2, TypePartsNext
<1>2. ProxyInv'
  BY ProxyKept DEF ProxyInv, Running
<1>3. FilesInv' /\ SomeWholeBinary'
  BY ProcessAssumption DEF FilesInv, SomeWholeBinary, NoFile, File
<1> QED
  BY <1>1, <1>2, <1>3 DEF ProxyInv

(* A step fails, and the files stay as they are.                           *)
LEMMA UpdateFailsPreserves ==
  ASSUME IInv, UpdateFails
  PROVE  IInv'
<1> USE DEF UpdateFails, UpdateStep, IInv, TypeOK, proxyVars, endVars,
            serverVars, lifeVars, updateVars, fileVars
<1>1. TypeOK'
  BY DEF ServingSteps
<1>2. ProxyInv'
  BY ProxyKept DEF ProxyInv, Running
<1>3. FilesInv' /\ SomeWholeBinary'
  BY FilesKept DEF fileVars
<1> QED
  BY <1>1, <1>2, <1>3 DEF ProxyInv

(* The new binary cannot be started in place of this process.              *)
LEMMA ExecFailsPreserves ==
  ASSUME IInv, ExecFails
  PROVE  IInv'
<1> USE DEF ExecFails, UpdateStep, IInv, TypeOK, proxyVars, endVars,
            serverVars, lifeVars, updateVars, fileVars
<1>1. TypeOK'
  BY DEF ServingSteps
<1>2. ProxyInv'
  BY ProxyKept DEF ProxyInv, Running
<1>3. FilesInv' /\ SomeWholeBinary'
  BY FilesKept DEF fileVars
<1> QED
  BY <1>1, <1>2, <1>3 DEF ProxyInv

(* Windows: the listeners are stopped.                                     *)
LEMMA StopAllPreserves ==
  ASSUME IInv, StopAll
  PROVE  IInv'
<1> USE DEF StopAll, UpdateStep, IInv, TypeOK, proxyVars, endVars, serverVars,
            lifeVars, updateVars, fileVars
<1>1. TypeOK'
  BY DEF ServingSteps
<1>2. ProxyInv'
  BY ProxyKept DEF ProxyInv, Running
<1>3. FilesInv' /\ SomeWholeBinary'
  BY FilesKept DEF fileVars
<1> QED
  BY <1>1, <1>2, <1>3 DEF ProxyInv

(* Windows: the new binary cannot be started.                              *)
LEMMA RunChildFailsPreserves ==
  ASSUME IInv, RunChildFails
  PROVE  IInv'
<1> USE DEF RunChildFails, UpdateStep, IInv, TypeOK, proxyVars, endVars,
            serverVars, lifeVars, updateVars, fileVars
<1>1. TypeOK'
  BY DEF ServingSteps
<1>2. ProxyInv'
  BY ProxyKept DEF ProxyInv, Running
<1>3. FilesInv' /\ SomeWholeBinary'
  BY FilesKept DEF fileVars
<1> QED
  BY <1>1, <1>2, <1>3 DEF ProxyInv

(* The new binary takes the place of this process.                         *)
LEMMA ExecPreserves ==
  ASSUME IInv, Exec
  PROVE  IInv'
<1> USE DEF Exec, End, Fresh, IInv, TypeOK, proxyVars, endVars, serverVars,
            lifeVars, updateVars, fileVars
<1>1. TypeOK'
  <2>1. ProxyTypes' /\ EnderTypes'
    BY DEF ProxyTypes, EnderTypes
  <2>2. LifeTypes'
    BY DEF LifeTypes
  <2>3. ServerTypes'
    BY DEF ServerTypes, ServingSteps
  <2>4. UpdateTypes'
    BY ProcessAssumption DEF UpdateTypes, File, NoFile
  <2> QED
    BY <2>1, <2>2, <2>3, <2>4, TypePartsNext
<1>2. ProxyInv'
  BY DEF ProxyInv, UnsetInv, MainListenerInv, EndersInv, UnsetOnce,
         ProxyNotForgotten, Running, Listeners, Enders
<1>3. FilesInv' /\ SomeWholeBinary'
  BY FilesKept DEF fileVars
<1> QED
  BY <1>1, <1>2, <1>3 DEF ProxyInv

(* Windows: the new binary runs as a child.                                *)
LEMMA RunChildPreserves ==
  ASSUME IInv, RunChild
  PROVE  IInv'
<1> USE DEF RunChild, End, Fresh, IInv, TypeOK, proxyVars, endVars, serverVars,
            lifeVars, updateVars, fileVars
<1>1. TypeOK'
  <2>1. ProxyTypes' /\ EnderTypes'
    BY DEF ProxyTypes, EnderTypes
  <2>2. LifeTypes'
    BY DEF LifeTypes
  <2>3. ServerTypes'
    BY DEF ServerTypes, ServingSteps
  <2>4. UpdateTypes'
    BY ProcessAssumption DEF UpdateTypes, File, NoFile
  <2> QED
    BY <2>1, <2>2, <2>3, <2>4, TypePartsNext
<1>2. ProxyInv'
  BY DEF ProxyInv, UnsetInv, MainListenerInv, EndersInv, UnsetOnce,
         ProxyNotForgotten, Running, Listeners, Enders
<1>3. FilesInv' /\ SomeWholeBinary'
  BY FilesKept DEF fileVars
<1> QED
  BY <1>1, <1>2, <1>3 DEF ProxyInv

----------------------------------------------------------------------------
(* The theorems.                                                           *)

(* The program starts complete, and has set no proxy.                      *)
LEMMA InitIInv == Init => IInv
<1> SUFFICES ASSUME Init PROVE IInv
  OBVIOUS
<1> USE ProcessAssumption DEF Init, Fresh, NoFile, File
<1>1. TypeOK
  <2>1. LifeTypes
    <3>1. 1 \in 1 .. MaxStarts /\ 1 \in 1 .. MaxRelease
      OBVIOUS
    <3> QED
      BY <3>1 DEF LifeTypes
  <2>2. UpdateTypes
    BY DEF UpdateTypes
  <2>3. ServerTypes
    BY DEF ServerTypes, ServingSteps
  <2>4. ProxyTypes
    <3>1. 0 \in 0 .. 3
      OBVIOUS
    <3> QED
      BY <3>1 DEF ProxyTypes
  <2>5. EnderTypes
    BY DEF EnderTypes
  <2> QED
    BY <2>1, <2>2, <2>3, <2>4, <2>5, TypeParts
<1>2. UnsetInv /\ MainListenerInv /\ EndersInv
  BY DEF UnsetInv, MainListenerInv, EndersInv, Running, Listeners
<1>3. FilesInv /\ SomeWholeBinary /\ UnsetOnce /\ ProxyNotForgotten
  BY DEF FilesInv, SomeWholeBinary, UnsetOnce, ProxyNotForgotten
<1> QED
  BY <1>1, <1>2, <1>3 DEF IInv

(* The inductive invariant: what each step of a listener, an ender and the *)
(* updater relies on.                                                      *)
LEMMA IInvInvariant == Spec => []IInv
<1>1. IInv /\ [Next]_vars => IInv'
  <2> SUFFICES ASSUME IInv, [Next]_vars PROVE IInv'
    OBVIOUS
  <2>1. CASE UNCHANGED vars
    BY <2>1 DEF vars, proxyVars, endVars, serverVars, lifeVars, updateVars,
                fileVars, IInv, TypeOK, UnsetInv, MainListenerInv, EndersInv,
                FilesInv, SomeWholeBinary, UnsetOnce, ProxyNotForgotten,
                Running
  <2>2. ASSUME NEW l \in Listeners,
               \/ Listen(l) \/ ListenFails(l) \/ AcceptFails(l)
               \/ CloseByContext(l) \/ Finish(l)
        PROVE  IInv'
    BY <2>2, ListenPreserves, ListenFailsPreserves, AcceptFailsPreserves,
       CloseByContextPreserves, FinishPreserves
  <2>3. CASE SetProxy \/ ProxyIsSet \/ SetProxyFails \/ ServerReturns
    BY <2>3, SetProxyPreserves, ProxyIsSetPreserves, SetProxyFailsPreserves,
       ServerReturnsPreserves
  <2>4. ASSUME NEW e \in Enders, RunHandlers(e) \/ HandlersDone(e) \/ Exit(e)
        PROVE  IInv'
    BY <2>4, RunHandlersPreserves, HandlersDonePreserves, ExitPreserves
  <2>5. CASE Signal \/ OtherFatal \/ Killed \/ Start
    BY <2>5, SignalPreserves, OtherFatalPreserves, KilledPreserves,
       StartPreserves
  <2>6. CASE UpdaterStep
    BY <2>6, StartUpdatePreserves, ExtractPreserves, CreateNewPreserves,
       CopyNewPreserves, RenameOldPreserves, RenameNewPreserves,
       ExecPreserves, StopAllPreserves, RunChildPreserves
    DEF UpdaterStep
  <2>7. CASE NewRelease \/ UpdateFails \/ ExecFails \/ RunChildFails
    BY <2>7, NewReleasePreserves, UpdateFailsPreserves, ExecFailsPreserves,
       RunChildFailsPreserves
  <2> QED
    BY <2>1, <2>2, <2>3, <2>4, <2>5, <2>6, <2>7 DEF Next
<1> QED
  BY <1>1, InitIInv, PTL DEF Spec

(* main.go, the listeners and the updater stay in the states the code      *)
(* knows, over any number of starts.                                       *)
THEOREM TypeCorrect == Spec => []TypeOK
<1>1. IInv => TypeOK
  BY DEF IInv
<1> QED
  BY <1>1, IInvInvariant, PTL

(* replaceFile leaves a complete binary after a failure or a crash at any  *)
(* step, of any update after any other.                                    *)
THEOREM BinaryIsWhole == Spec => []SomeWholeBinary
<1>1. IInv => SomeWholeBinary
  BY DEF IInv
<1> QED
  BY <1>1, IInvInvariant, PTL

(* hasUnsetProxy: the commands to unset the proxy are begun once, whoever  *)
(* ends the process or the listener.                                       *)
THEOREM ProxyIsUnsetOnce == Spec => []UnsetOnce
<1>1. IInv => UnsetOnce
  BY DEF IInv
<1> QED
  BY <1>1, IInvInvariant, PTL

(* A goroutine that ends the process after atexit's handlers leaves no     *)
(* proxy set that the handler was there to unset.                          *)
THEOREM ProxyIsNotForgotten == Spec => []ProxyNotForgotten
<1>1. IInv => ProxyNotForgotten
  BY DEF IInv
<1> QED
  BY <1>1, IInvInvariant, PTL

=============================================================================
