------------------------ MODULE CertificateRotation ------------------------
(***************************************************************************)
(* webhook.Run with the watcher it really starts: notifyChanges of         *)
(* pkg/webhook/server.go, which looks at the modification times of the TLS *)
(* files every two seconds and should make Run restart its server.         *)
(*                                                                         *)
(* Run's own steps are those of WebhookServer; a value on keyWatch, which  *)
(* WebhookServer leaves open, is here the send of notifyChanges.           *)
(***************************************************************************)
EXTENDS WebhookServer

CONSTANTS
    Path,           \* certFile and keyFile
    MaxWrites       \* bound: rewrites of the files

VARIABLES
    modTime,        \* os.Stat: modification time of each file, 0 if missing
    infos,          \* the outer map of notifyChanges, which getInfos fills
    lastInfos,      \* what getInfos returned when a change was last noticed
    watchPc,        \* where the watcher is
    loaded          \* what each server's key pair was loaded from

watchVars == <<modTime, infos, lastInfos, watchPc, loaded>>
rotationVars == <<vars, watchVars>>

EmptyMap == [p \in {} |-> 0]

(* getInfos makes a map res, stores what Stat says into infos, and returns  *)
(* res.                                                                     *)
GetInfosResult == EmptyMap

RotationInit ==
    /\ Init
    /\ modTime = [p \in Path |-> 1]
    /\ infos = modTime
    /\ lastInfos = GetInfosResult
    /\ watchPc = "select"
    /\ loaded = [s \in Server |-> EmptyMap]

(* gentls, or whoever renews the certificate. *)
WriteFile(p) ==
    /\ modTime[p] < MaxWrites
    /\ modTime' = [modTime EXCEPT ![p] = @ + 1]
    /\ UNCHANGED <<vars, infos, lastInfos, watchPc, loaded>>

(* The time.After arm. *)
NotifyTick ==
    /\ keyWatch = "open"
    /\ watchPc = "select"
    /\ infos' = modTime
    /\ lastInfos' = GetInfosResult
    /\ watchPc' = IF lastInfos = GetInfosResult THEN "select" ELSE "notify"
    /\ UNCHANGED <<vars, modTime, loaded>>

(* The send succeeds if Run is at its select, and is skipped otherwise. *)
NotifySend ==
    /\ watchPc = "notify"
    /\ watchPc' = "select"
    /\ IF runPc = "select" THEN RunRestart ELSE UNCHANGED vars
    /\ UNCHANGED <<modTime, infos, lastInfos, loaded>>

(* The ctx.Done() arm. *)
NotifyStop ==
    /\ watchPc = "select"
    /\ KeyWatchClose
    /\ UNCHANGED watchVars

ServerServe(s) ==
    /\ SrvServe(s)
    /\ loaded' = [loaded EXCEPT ![s] = modTime]
    /\ UNCHANGED <<modTime, infos, lastInfos, watchPc>>

ServerStep(s) ==
    \/ ServerServe(s)
    \/ /\ \/ SrvListen(s) \/ SrvListenFails(s) \/ SrvStop(s) \/ SrvEnd(s)
          \/ ShutdownStep(s)
       /\ UNCHANGED watchVars

Notify == NotifyTick \/ NotifySend \/ NotifyStop

RotationNext ==
    \/ \E p \in Path : WriteFile(p)
    \/ Notify
    \/ \E s \in Server : ServerStep(s)
    \/ (Cancel \/ RunStep) /\ UNCHANGED watchVars

(* The watcher's timer fires, and the goroutines of Run and of its servers  *)
(* run.                                                                     *)
RotationSpec ==
    /\ RotationInit
    /\ [][RotationNext]_rotationVars
    /\ WF_rotationVars(Notify)
    /\ WF_rotationVars(RunStep /\ UNCHANGED watchVars)
    /\ \A s \in Server : WF_rotationVars(ServerServe(s))
    /\ \A s \in Server :
          WF_rotationVars((SrvProgress(s) \/ ShutdownStep(s)) /\ ~SrvServe(s)
                          /\ UNCHANGED watchVars)

-----------------------------------------------------------------------------
\* Properties

(* "TLS input has changed, restarting HTTP server": a file that was         *)
(* rewritten is what the current server serves, sooner or later, unless Run *)
(* stops or the file changes again.                                         *)
RotationTakesEffect ==
    \A p \in Path : \A n \in 1..MaxWrites :
        (runPc = "select" /\ modTime[p] = n)
        ~> \/ runPc # "select"
           \/ modTime[p] # n
           \/ srv[current] = "serving" /\ loaded[current][p] = n
=============================================================================
