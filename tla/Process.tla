------------------------------ MODULE Process ------------------------------
(***************************************************************************)
(* The process of cmd/cel-admission-webhook/main.go: the goroutine that    *)
(* runs the webhook server, the goroutine that runs the CEL plugin, and    *)
(* main, which starts the informers and waits for both.  The two share     *)
(* serverContext, a child of the context that a signal cancels.            *)
(*                                                                         *)
(* webhook.Run is the one of WebhookServer, whose cancelled is now         *)
(* serverContext; the plugin is abstracted to its evaluator's promise: its *)
(* Run ends when, and only when, the context is cancelled.                 *)
(***************************************************************************)
EXTENDS WebhookServer

VARIABLES
    signalled,      \* SIGINT or SIGTERM has arrived
    pluginPc,       \* the plugin's goroutine
    webhookDone,    \* the webhook's goroutine has called waitGroup.Done()
    mainPc,         \* where main is
    waitGroup       \* main's WaitGroup

mainVars == <<signalled, pluginPc, webhookDone, mainPc, waitGroup>>
processVars == <<vars, mainVars>>

(* Both goroutines have been launched. *)
ProcessInit ==
    /\ Init
    /\ signalled = FALSE
    /\ pluginPc = "run"
    /\ webhookDone = FALSE
    /\ mainPc = "start"
    /\ waitGroup = 2

(* serverCancel(), which may be called any number of times. *)
ServerCancel ==
    /\ cancelled' = TRUE
    /\ UNCHANGED <<watchCancelled, keyWatch, runPc, current, serverError, srv,
                   inShutdown, port, shut, wg>>

(* The root context is cancelled, and its child with it. *)
SignalArrives ==
    /\ ~signalled
    /\ mainPc # "exited"
    /\ signalled' = TRUE
    /\ ServerCancel
    /\ UNCHANGED <<pluginPc, webhookDone, mainPc, waitGroup>>

(* evaluator.Run returns after its stop channel is closed. *)
PluginReturn ==
    /\ pluginPc = "run"
    /\ cancelled
    /\ pluginPc' = "returned"
    /\ UNCHANGED <<vars, signalled, webhookDone, mainPc, waitGroup>>

PluginEnd ==
    /\ pluginPc = "returned"
    /\ ServerCancel
    /\ pluginPc' = "done"
    /\ waitGroup' = waitGroup - 1
    /\ UNCHANGED <<signalled, webhookDone, mainPc>>

(* Defect: the webhook's goroutine does not cancel the shared context. *)
WebhookEndAlone ==
    /\ runPc = "returned"
    /\ ~webhookDone
    /\ webhookDone' = TRUE
    /\ waitGroup' = waitGroup - 1
    /\ UNCHANGED <<vars, signalled, pluginPc, mainPc>>

(* The deferred serverCancel() and waitGroup.Done() *)
WebhookEnd ==
    /\ runPc = "returned"
    /\ ~webhookDone
    /\ ServerCancel
    /\ webhookDone' = TRUE
    /\ waitGroup' = waitGroup - 1
    /\ UNCHANGED <<signalled, pluginPc, mainPc>>

(* factory.Start and its like only launch goroutines. *)
MainStart ==
    /\ mainPc = "start"
    /\ mainPc' = "wait"
    /\ UNCHANGED <<vars, signalled, pluginPc, webhookDone, waitGroup>>

(* Defect: main waits for one of the two. *)
MainExitEarly ==
    /\ mainPc = "wait"
    /\ waitGroup <= 1
    /\ mainPc' = "exited"
    /\ UNCHANGED <<vars, signalled, pluginPc, webhookDone, waitGroup>>

(* waitGroup.Wait() *)
MainExit ==
    /\ mainPc = "wait"
    /\ waitGroup = 0
    /\ mainPc' = "exited"
    /\ UNCHANGED <<vars, signalled, pluginPc, webhookDone, waitGroup>>

-----------------------------------------------------------------------------

Goroutine == PluginReturn \/ PluginEnd \/ WebhookEnd \/ MainStart \/ MainExit

(* Cancel is left out: what cancels serverContext is above. *)
WebhookStep ==
    \/ KeyWatchClose
    \/ \E s \in Server : SrvListen(s)
    \/ \E s \in Server : SrvListenFails(s)
    \/ \E s \in Server : SrvServe(s)
    \/ \E s \in Server : SrvStop(s)
    \/ \E s \in Server : SrvEnd(s)
    \/ \E s \in Server : ShutdownStep(s)
    \/ RunStep
    \/ RunRestart

ProcessNext ==
    \/ SignalArrives
    \/ Goroutine
    \/ WebhookStep /\ UNCHANGED mainVars

(* Every goroutine that can run does run; signals, notifications and        *)
(* failures of the listener may or may not happen.                          *)
ProcessSpec ==
    /\ ProcessInit
    /\ [][ProcessNext]_processVars
    /\ WF_processVars(PluginReturn \/ PluginEnd)
    /\ WF_processVars(WebhookEnd)
    /\ WF_processVars(MainStart \/ MainExit)
    /\ WF_processVars(RunStep /\ UNCHANGED mainVars)
    /\ WF_processVars(KeyWatchClose /\ UNCHANGED mainVars)
    /\ \A s \in Server : WF_processVars(SrvProgress(s) /\ UNCHANGED mainVars)
    /\ \A s \in Server : WF_processVars(ShutdownStep(s) /\ UNCHANGED mainVars)

-----------------------------------------------------------------------------
\* Properties

(* Every variable has its type. *)
ProcessTypeOK ==
    /\ TypeOK
    /\ signalled \in BOOLEAN
    /\ pluginPc \in {"run", "returned", "done"}
    /\ webhookDone \in BOOLEAN
    /\ mainPc \in {"start", "wait", "exited"}
    /\ waitGroup \in 0..2

(* Run returns by a failure of its first server only and leaves nothing     *)
(* behind, and main outlives what it started: when it exits, the plugin's   *)
(* goroutine has ended and Run has returned. So the process does not end by *)
(* itself once a server was replaced. Handlers of open connections are not  *)
(* counted: neither Run nor main waits for them.                            *)
CleanExit ==
    /\ CleanReturn
    /\ mainPc = "exited" => pluginPc = "done" /\ runPc = "returned"

(* A server that fails by itself, before any restart or signal, takes the   *)
(* whole process down, plugin included, so that the cluster can restart it: *)
(* its error passes through the error channel, Run's loop, its deferred     *)
(* calls, serverCancel and both WaitGroups.                                 *)
ServerFailureEndsProcess ==
    (runPc = "select" /\ current = 1 /\ srv[1] = "send")
    ~> (mainPc = "exited" \/ signalled \/ current # 1)
=============================================================================
