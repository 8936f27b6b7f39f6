------------------------------ MODULE Process ------------------------------
(***************************************************************************)
(* The life of the process (main.go): the HTTP/SOCKS server's one or two   *)
(* listeners (http_socks/server.go, util/netutil/listener.go), the system  *)
(* proxy that is set while it listens (util/proxy), the goroutines that    *)
(* run the termination handlers and end the process (util/osutil, Fatal of *)
(* util/log, signals), and the update of the program's own binary with the *)
(* restart that follows (util/updater).  A crash may come between any two  *)
(* steps; files and the proxy setting survive it.                          *)
(*                                                                         *)
(* atexit is external: it runs the handlers registered when it is called.  *)
(* The download and the check of its sum are modelled in Router.           *)
(***************************************************************************)
EXTENDS Integers

CONSTANTS
  Configs,                      \* the configurations of the process
  MaxRelease,                   \* bound: releases of the program
  MaxStarts                     \* bound: times it is started

AllConfigs ==
  [os: {"unix", "windows"}, dualStack: BOOLEAN, systemProxy: BOOLEAN,
   autoUpdate: BOOLEAN]

(* There is no system proxy on Windows (proxy_fallback.go).                *)
ASSUME ProcessAssumption ==
  /\ Configs \subseteq AllConfigs
  /\ \A c \in Configs : c.systemProxy => c.os = "unix"
  /\ MaxRelease \in Nat \ {0} /\ MaxStarts \in Nat \ {0}

(* "ipv4" is the sibling on 127.0.0.1 of a listener on ::1.                *)
Listeners == {"main", "ipv4"}

(* Who runs the handlers: the goroutine that waits for signals, a Fatal of *)
(* the HTTP/SOCKS server, a Fatal of another server, the updater.          *)
Enders == {"signal", "httpSocks", "other", "updater"}

NoFile == [release |-> 0, whole |-> FALSE]

(* The bytes of a release, all of them or a beginning.                     *)
File == [release: 0 .. MaxRelease, whole: BOOLEAN]

VARIABLES
  config,
  process,    \* "running", or how it ended: "ended", "killed", "replaced"
  starts,     \* how often it was started
  socket,     \* per listener: "none", "open" or "closed"
  serving,    \* per listener: the step of listenTCPAndAccept
  result,     \* of parRunWithFirstErrReturn: "none", "nil" or "err"
  returned,   \* ListenAndServe of the HTTP/SOCKS server has returned
  proxy,      \* of the system: "unset", "changing" or "set"
  registered, \* unsetProxy is a termination handler
  hasUnset,   \* hasUnsetProxy
  unsets,     \* how often the commands to unset the proxy were begun
  caught,     \* signals are delivered to listenEndSignalAndRunHandler
  ending,     \* per ender: its step
  saw,        \* per ender: unsetProxy was registered when it ran handlers
  update,     \* the step of the updater
  newest,     \* the release the updater has downloaded
  latest,     \* the latest release there is
  running,    \* the release of the running program
  exe, exeNew, exeOld, \* the binary, with suffix .new, with suffix .old
  parentWaits \* Windows: the previous process waits and runs from exeOld

serverVars == <<socket, serving, result, returned>>
proxyVars == <<proxy, registered, hasUnset, unsets>>
endVars == <<caught, ending, saw>>
fileVars == <<exe, exeNew, exeOld>>
updateVars == <<update, newest, latest, running, fileVars>>
lifeVars == <<config, process, starts, parentWaits>>
vars == <<lifeVars, serverVars, proxyVars, endVars, updateVars>>

ServingSteps ==
  {"absent", "listen", "setProxy", "settingProxy", "accept", "closed",
   "failed", "unset", "unsetFailed", "returned"}

TypeOK ==
  /\ config \in Configs
  /\ process \in {"running", "ended", "killed", "replaced"}
  /\ starts \in 1 .. MaxStarts
  /\ socket \in [Listeners -> {"none", "open", "closed"}]
  /\ serving \in [Listeners -> ServingSteps]
  /\ result \in {"none", "nil", "err"} /\ returned \in BOOLEAN
  /\ proxy \in {"unset", "changing", "set"}
  /\ registered \in BOOLEAN /\ hasUnset \in BOOLEAN /\ unsets \in 0 .. 3
  /\ caught \in BOOLEAN /\ saw \in [Enders -> BOOLEAN]
  /\ ending \in [Enders -> {"no", "handlers", "unset", "exit"}]
  /\ update \in {"idle", "extract", "create", "copy", "renameOld",
                 "renameNew", "restart", "stopped"}
  /\ newest \in 0 .. MaxRelease /\ latest \in 1 .. MaxRelease
  /\ running \in 1 .. MaxRelease
  /\ {exe, exeNew, exeOld} \subseteq File
  /\ parentWaits \in BOOLEAN

(* The state of a process that starts.                                     *)
Fresh(s, v, r, t) ==
  /\ s = [l \in Listeners |-> "none"]
  /\ v = [l \in Listeners |->
            IF l = "ipv4" /\ ~ config.dualStack THEN "absent" ELSE "listen"]
  /\ r = "none" /\ t = FALSE

Init ==
  /\ config \in Configs
  /\ process = "running" /\ starts = 1 /\ parentWaits = FALSE
  /\ Fresh(socket, serving, result, returned)
  /\ proxy = "unset" /\ registered = FALSE /\ hasUnset = FALSE /\ unsets = 0
  /\ caught = TRUE
  /\ ending = [e \in Enders |-> "no"] /\ saw = [e \in Enders |-> FALSE]
  /\ update = "idle" /\ newest = 0 /\ latest = 1 /\ running = 1
  /\ exe = [release |-> 1, whole |-> TRUE]
  /\ exeNew = NoFile /\ exeOld = NoFile

Running == process = "running"

----------------------------------------------------------------------------
(* The listeners of the HTTP/SOCKS server.                                 *)

At(l, step) == Running /\ serving[l] = step

(* listenTCPAndAccept.                                                     *)
Listen(l) ==
  /\ At(l, "listen")
  /\ socket' = [socket EXCEPT ![l] = "open"]
  /\ serving' = [serving EXCEPT ![l] =
       IF l = "main" /\ config.systemProxy THEN "setProxy" ELSE "accept"]
  /\ UNCHANGED <<result, returned, proxyVars, endVars, updateVars, lifeVars>>

(* The function of a listener returns; the first result counts.            *)
ReturnWith(l, res) ==
  /\ serving' = [serving EXCEPT ![l] = "returned"]
  /\ result' = IF result = "none" THEN res ELSE result
  /\ UNCHANGED <<socket, returned, endVars, updateVars, lifeVars>>

ListenFails(l) ==
  /\ At(l, "listen")
  /\ ReturnWith(l, "err")
  /\ UNCHANGED proxyVars

(* The success callback: commands run, then the handler is registered.     *)
SetProxy ==
  /\ At("main", "setProxy")
  /\ proxy' = "changing"
  /\ serving' = [serving EXCEPT !["main"] = "settingProxy"]
  /\ UNCHANGED <<registered, hasUnset, unsets, socket, result, returned,
                 endVars, updateVars, lifeVars>>

ProxyIsSet ==
  /\ At("main", "settingProxy")
  /\ proxy' = "set" /\ registered' = TRUE
  /\ serving' = [serving EXCEPT !["main"] = "accept"]
  /\ UNCHANGED <<hasUnset, unsets, socket, result, returned, endVars,
                 updateVars, lifeVars>>

(* SetSystemProxy returns no function to unset what it has not set.        *)
SetProxyFails ==
  /\ At("main", "setProxy")
  /\ serving' = [serving EXCEPT !["main"] = "accept"]
  /\ UNCHANGED <<proxyVars, socket, result, returned, endVars, updateVars,
                 lifeVars>>

(* acceptNetConn returns on any error; one of a closed socket is no error. *)
AcceptFails(l) ==
  /\ At(l, "accept")
  /\ serving' = [serving EXCEPT ![l] =
       IF socket[l] = "closed" THEN "closed" ELSE "failed"]
  /\ UNCHANGED <<socket, result, returned, proxyVars, endVars, updateVars,
                 lifeVars>>

(* Mutated form: the sibling is not cancelled when one has returned.       *)
ContextDoneNever(l) == serving[l] = "returned"

(* cancel() after the first result; the listener's own context is done     *)
(* when its function has returned.                                         *)
ContextDone(l) == serving[l] = "returned" \/ result # "none"

CloseByContext(l) ==
  /\ Running /\ socket[l] = "open" /\ ContextDone(l)
  /\ socket' = [socket EXCEPT ![l] = "closed"]
  /\ UNCHANGED <<serving, result, returned, proxyVars, endVars, updateVars,
                 lifeVars>>

(* Mutated form: hasUnsetProxy is read, and written after the commands.    *)
UnsetWithoutSwap ==
  /\ ~ hasUnset
  /\ proxy' = "changing" /\ unsets' = unsets + 1
  /\ UNCHANGED <<registered, hasUnset>>

(* hasUnsetProxy.CompareAndSwap(false, true), and the commands begin.      *)
BeginUnset ==
  /\ ~ hasUnset /\ hasUnset' = TRUE
  /\ proxy' = "changing" /\ unsets' = unsets + 1
  /\ UNCHANGED registered

EndUnset ==
  /\ proxy' = "unset" /\ hasUnset' = TRUE
  /\ UNCHANGED <<registered, unsets>>

(* The finished callback of the main listener unsets the proxy first.      *)
Finish(l) ==
  \/ /\ At(l, "closed") \/ At(l, "failed")
     /\ l = "ipv4" \/ ~ registered \/ hasUnset
     /\ ReturnWith(l, IF serving[l] = "failed" THEN "err" ELSE "nil")
     /\ UNCHANGED proxyVars
  \/ /\ l = "main" /\ (At(l, "closed") \/ At(l, "failed"))
     /\ registered /\ BeginUnset
     /\ serving' = [serving EXCEPT ![l] =
          IF serving[l] = "failed" THEN "unsetFailed" ELSE "unset"]
     /\ UNCHANGED <<socket, result, returned, endVars, updateVars, lifeVars>>
  \/ /\ l = "main" /\ (At(l, "unset") \/ At(l, "unsetFailed"))
     /\ EndUnset
     /\ ReturnWith(l, IF serving[l] = "unsetFailed" THEN "err" ELSE "nil")

(* Both results are in; an error is fatal.                                 *)
ServerReturns ==
  /\ Running /\ ~ returned
  /\ \A l \in Listeners : serving[l] \in {"absent", "returned"}
  /\ returned' = TRUE
  /\ ending' = IF result = "err"
                 THEN [ending EXCEPT !["httpSocks"] = "handlers"] ELSE ending
  /\ UNCHANGED <<socket, serving, result, proxyVars, caught, saw, updateVars,
                 lifeVars>>

----------------------------------------------------------------------------
(* Ending the process.                                                     *)

(* Mutated form: without signal.Stop.                                      *)
SignalStaysCaught ==
  /\ Running /\ caught /\ ending["signal"] = "no"
  /\ ending' = [ending EXCEPT !["signal"] = "handlers"]
  /\ UNCHANGED <<caught, saw, serverVars, proxyVars, updateVars, lifeVars>>

(* The first signal; it is not caught any more.                            *)
Signal ==
  /\ Running /\ caught /\ ending["signal"] = "no"
  /\ caught' = FALSE
  /\ ending' = [ending EXCEPT !["signal"] = "handlers"]
  /\ UNCHANGED <<saw, serverVars, proxyVars, updateVars, lifeVars>>

(* Another server cannot listen or accept: log.Fatal.                      *)
OtherFatal ==
  /\ Running /\ ending["other"] = "no"
  /\ ending' = [ending EXCEPT !["other"] = "handlers"]
  /\ UNCHANGED <<caught, saw, serverVars, proxyVars, updateVars, lifeVars>>

(* Mutated form: os.Exit instead of atexit.Exit.                           *)
RunNoHandlers(e) ==
  /\ Running /\ ending[e] = "handlers"
  /\ saw' = [saw EXCEPT ![e] = registered]
  /\ ending' = [ending EXCEPT ![e] = "exit"]
  /\ UNCHANGED <<caught, serverVars, proxyVars, updateVars, lifeVars>>

(* runHandlers of atexit calls unsetProxy when it is registered.           *)
RunHandlers(e) ==
  /\ Running /\ ending[e] = "handlers"
  /\ saw' = [saw EXCEPT ![e] = registered]
  /\ \/ /\ registered /\ BeginUnset
        /\ ending' = [ending EXCEPT ![e] = "unset"]
     \/ /\ ~ registered \/ hasUnset
        /\ ending' = [ending EXCEPT ![e] = "exit"]
        /\ UNCHANGED proxyVars
  /\ UNCHANGED <<caught, serverVars, updateVars, lifeVars>>

HandlersDone(e) ==
  /\ Running /\ ending[e] = "unset"
  /\ EndUnset
  /\ ending' = [ending EXCEPT ![e] = "exit"]
  /\ UNCHANGED <<caught, saw, serverVars, updateVars, lifeVars>>

(* The system closes its sockets; files and the proxy setting remain.      *)
End(how) ==
  /\ process' = how
  /\ Fresh(socket', serving', result', returned')
  /\ update' = "idle" /\ newest' = 0
  /\ UNCHANGED <<config, starts, parentWaits, proxyVars, endVars, latest,
                 running, fileVars>>

(* os.Exit, or the signal sent again to itself.                            *)
Exit(e) ==
  /\ Running /\ ending[e] = "exit"
  /\ e = "signal" /\ config.os = "unix" => ~ caught
  /\ End("ended")

(* A crash, SIGKILL, or a second signal after the first.                   *)
Killed == Running /\ End("killed")

(* Started by its user, by exec, or by the previous process.               *)
Start ==
  /\ ~ Running /\ starts < MaxStarts /\ exe.whole
  /\ process' = "running" /\ starts' = starts + 1
  /\ parentWaits' = (process = "replaced" /\ config.os = "windows")
  /\ registered' = FALSE /\ hasUnset' = FALSE /\ unsets' = 0
  /\ caught' = TRUE
  /\ ending' = [e \in Enders |-> "no"] /\ saw' = [e \in Enders |-> FALSE]
  /\ running' = exe.release
  /\ UNCHANGED <<config, proxy, latest, update, newest, fileVars, serverVars>>

----------------------------------------------------------------------------
(* The update of the program's own binary.                                 *)

(* External: a release is published (of interest to an updater only).      *)
NewRelease ==
  /\ config.autoUpdate /\ latest < MaxRelease
  /\ latest' = latest + 1
  /\ UNCHANGED <<update, newest, running, fileVars, lifeVars, serverVars,
                 proxyVars, endVars>>

(* A step of the updater from one place in it to another.                  *)
UpdateStep(from, to) ==
  /\ Running /\ update = from /\ update' = to
  /\ UNCHANGED <<latest, running, config, starts, parentWaits, proxyVars>>

(* UpdateHgBinary, with a download whose sum is right.                     *)
StartUpdate ==
  /\ config.autoUpdate /\ latest > running
  /\ UpdateStep("idle", "extract")
  /\ newest' = latest
  /\ UNCHANGED <<fileVars, process, serverVars, endVars>>

Extract ==
  /\ UpdateStep("extract", "create")
  /\ UNCHANGED <<newest, fileVars, process, serverVars, endVars>>

(* Mutated form: the new bytes are written over the file itself.           *)
CreateInPlace ==
  /\ UpdateStep("create", "copy")
  /\ exe' = [release |-> newest, whole |-> FALSE]
  /\ UNCHANGED <<newest, exeNew, exeOld, process, serverVars, endVars>>

(* replaceFile: os.Create of .new.                                         *)
CreateNew ==
  /\ UpdateStep("create", "copy")
  /\ exeNew' = [release |-> newest, whole |-> FALSE]
  /\ UNCHANGED <<newest, exe, exeOld, process, serverVars, endVars>>

CopyNew ==
  /\ UpdateStep("copy", IF config.os = "windows" THEN "renameOld"
                                                 ELSE "renameNew")
  /\ exeNew' = [release |-> newest, whole |-> TRUE]
  /\ UNCHANGED <<newest, exe, exeOld, process, serverVars, endVars>>

(* There may be no file to move away after a move that was not completed.  *)
(* The .old a waiting parent runs from cannot be replaced.                 *)
RenameOld ==
  /\ exe = NoFile \/ ~ parentWaits
  /\ UpdateStep("renameOld", "renameNew")
  /\ exe' = NoFile /\ exeOld' = IF exe = NoFile THEN exeOld ELSE exe
  /\ UNCHANGED <<newest, exeNew, process, serverVars, endVars>>

RenameNew ==
  /\ UpdateStep("renameNew", "restart")
  /\ exe' = exeNew /\ exeNew' = NoFile
  /\ UNCHANGED <<newest, exeOld, process, serverVars, endVars>>

(* Any step may fail, and leaves the files as they are.                    *)
UpdateFails ==
  /\ \E from \in {"extract", "create", "copy", "renameOld", "renameNew"} :
       UpdateStep(from, "idle")
  /\ UNCHANGED <<newest, fileVars, process, serverVars, endVars>>

(* selfRestart elsewhere than on Windows: the handlers are not run.        *)
Exec ==
  /\ Running /\ config.os = "unix" /\ update = "restart" /\ exe.whole
  /\ End("replaced")

(* exec or, on every system, os.Executable fails.                          *)
ExecFails ==
  /\ UpdateStep("restart", "idle")
  /\ UNCHANGED <<newest, fileVars, process, serverVars, endVars>>

(* selfRestart on Windows: StopAllServerListeners closes the ones that are *)
(* listed, from addServerListener to removeServerListener.                 *)
StopAll ==
  /\ config.os = "windows"
  /\ UpdateStep("restart", "stopped")
  /\ socket' = [l \in Listeners |->
       IF serving[l] \in {"setProxy", "settingProxy", "accept"}
         THEN "closed" ELSE socket[l]]
  /\ UNCHANGED <<newest, fileVars, process, serving, result, returned,
                 endVars>>

(* cmd.Run: the new process runs while this one waits for it, or cannot be *)
(* started, and this one ends.                                             *)
RunChild ==
  /\ Running /\ update = "stopped" /\ exe.whole
  /\ End("replaced")

RunChildFails ==
  /\ UpdateStep("stopped", "idle")
  /\ ending' = [ending EXCEPT !["updater"] = "handlers"]
  /\ UNCHANGED <<newest, fileVars, process, serverVars, caught, saw>>

----------------------------------------------------------------------------
UpdaterStep ==
  \/ StartUpdate \/ Extract \/ CreateNew \/ CopyNew \/ RenameOld \/ RenameNew
  \/ Exec \/ StopAll \/ RunChild

Next ==
  \/ \E l \in Listeners : \/ Listen(l) \/ ListenFails(l) \/ AcceptFails(l)
                           \/ CloseByContext(l) \/ Finish(l)
  \/ SetProxy \/ ProxyIsSet \/ SetProxyFails \/ ServerReturns
  \/ Signal \/ OtherFatal
  \/ \E e \in Enders : RunHandlers(e) \/ HandlersDone(e) \/ Exit(e)
  \/ Killed \/ Start
  \/ NewRelease \/ UpdaterStep \/ UpdateFails \/ ExecFails \/ RunChildFails

(* The goroutines run and the commands they run end.  No fairness for      *)
(* failures, signals, crashes, releases, or a user who starts it again.    *)
Fairness ==
  /\ \A l \in Listeners :
       /\ WF_vars(Listen(l)) /\ WF_vars(CloseByContext(l))
       /\ WF_vars(socket[l] = "closed" /\ AcceptFails(l))
       /\ WF_vars(Finish(l))
  /\ WF_vars(SetProxy) /\ WF_vars(ProxyIsSet) /\ WF_vars(ServerReturns)
  /\ \A e \in Enders :
       WF_vars(RunHandlers(e)) /\ WF_vars(HandlersDone(e)) /\ WF_vars(Exit(e))
  /\ WF_vars(UpdaterStep)

Spec == Init /\ [][Next]_vars /\ Fairness

----------------------------------------------------------------------------
(* A crash or a failure at any step of an update, and of the updates after *)
(* it, leaves a complete binary: the installed one, or on Windows, when    *)
(* there is none, the one that was moved away (replaceFile).               *)
SomeWholeBinary ==
  exe.whole \/ (config.os = "windows" /\ exe = NoFile /\ exeOld.whole)

(* "The sibling listener shuts down instead of running unsupervised": when *)
(* one of the two listeners has returned, for whatever reason and wherever *)
(* the other one is, both ports are closed and ListenAndServe returns      *)
(* (parRunWithFirstErrReturn).                                             *)
ListenersStopTogether ==
  (Running /\ \E l \in Listeners : serving[l] = "returned") ~>
    \/ ~ Running
    \/ returned /\ \A l \in Listeners : socket[l] # "open"

(* The termination handler, run by several goroutines, and the callback of *)
(* the listener that finishes unset the proxy once between them: commands  *)
(* of two of them never interleave (hasUnsetProxy).                        *)
UnsetOnce == unsets <= 1

(* A process that ended through its handlers does not leave the system     *)
(* pointed at it, once the handler was there to run; the commands to unset *)
(* the proxy have at least been started, by it or by another goroutine.    *)
ProxyNotForgotten ==
  \A e \in Enders :
    process = "ended" /\ ending[e] = "exit" /\ saw[e] => proxy # "set"

(* A caught signal ends the process, whatever the listeners, the updater   *)
(* and the other goroutines that end it are doing.                         *)
EndsWhenAsked == (Running /\ ending["signal"] # "no") ~> ~ Running
============================================================================
