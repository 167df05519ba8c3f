--------------------------- MODULE WebhookServer ---------------------------
(***************************************************************************)
(* webhook.Run of pkg/webhook/server.go: the loop that owns the HTTPS      *)
(* server, restarts it when it is told that the TLS files have changed,    *)
(* and stops it with the caller's context.                                 *)
(*                                                                         *)
(* Goroutines: Run itself, one per launched server (launchServer), one per *)
(* graceful shutdown, and the watcher behind keyWatch.  Run is modelled    *)
(* here against any watcher that may send at any time and closes its       *)
(* channel when its context ends; CertificateRotation puts notifyChanges   *)
(* in its place, and Process the program around it.  net/http is external: *)
(* what ListenAndServeTLS, Close and Shutdown do to each other follows how *)
(* Run relies on them.                                                     *)
(***************************************************************************)
EXTENDS Naturals, FiniteSets

CONSTANT MaxServers     \* bound: servers launched (restarts + 1)

ASSUME ServerAssumption == MaxServers \in Nat \ {0}

VARIABLES
    cancelled,      \* ctx.Done() is closed
    watchCancelled, \* cancelWatches() was called
    keyWatch,       \* "open" or "closed"
    runPc,          \* where Run is
    current,        \* currentServer / currentErrorChannel: a launch number
    serverError,    \* what Run will return
    srv,            \* state of each launchServer goroutine
    inShutdown,     \* servers on which Close or Shutdown was called
    port,           \* the launch that holds wh.addr, 0 if none does
    shut,           \* state of each graceful shutdown goroutine
    wg              \* the WaitGroup's counter

vars == <<cancelled, watchCancelled, keyWatch, runPc, current, serverError,
          srv, inShutdown, port, shut, wg>>

Server == 1..MaxServers

SrvState == {"none", "listen", "bound", "serving", "send", "sent", "ended"}
ShutState == {"none", "called", "draining", "ended"}

(* launchServer() and the deferred bookkeeping of Run's first lines. *)
Init ==
    /\ cancelled = FALSE
    /\ watchCancelled = FALSE
    /\ keyWatch = "open"
    /\ runPc = "select"
    /\ current = 1
    /\ serverError = "nil"
    /\ srv = [s \in Server |-> IF s = 1 THEN "listen" ELSE "none"]
    /\ inShutdown = {}
    /\ port = 0
    /\ shut = [s \in Server |-> "none"]
    /\ wg = 2

-----------------------------------------------------------------------------
\* The caller and the watcher's channel

Cancel ==
    /\ ~cancelled
    /\ cancelled' = TRUE
    /\ UNCHANGED <<watchCancelled, keyWatch, runPc, current, serverError,
                   srv, inShutdown, port, shut, wg>>

(* watchCtx is a child of ctx. *)
WatchDone == cancelled \/ watchCancelled

KeyWatchClose ==
    /\ WatchDone
    /\ keyWatch = "open"
    /\ keyWatch' = "closed"
    /\ UNCHANGED <<cancelled, watchCancelled, runPc, current, serverError,
                   srv, inShutdown, port, shut, wg>>

-----------------------------------------------------------------------------
\* net/http, as Run uses it (external)

Release(s) == port' = IF port = s THEN 0 ELSE port

(* net.Listen inside ListenAndServeTLS. It fails when the server was told   *)
(* to stop, when an earlier server still listens, or for reasons of the     *)
(* host.                                                                    *)
SrvListen(s) ==
    /\ srv[s] = "listen"
    /\ s \notin inShutdown
    /\ port = 0
    /\ port' = s
    /\ srv' = [srv EXCEPT ![s] = "bound"]
    /\ UNCHANGED <<cancelled, watchCancelled, keyWatch, runPc, current,
                   serverError, inShutdown, shut, wg>>

SrvListenFails(s) ==
    /\ srv[s] = "listen"
    /\ srv' = [srv EXCEPT ![s] = "send"]
    /\ UNCHANGED <<cancelled, watchCancelled, keyWatch, runPc, current,
                   serverError, inShutdown, port, shut, wg>>

(* The key pair is loaded and Serve registers the listener. *)
SrvServe(s) ==
    /\ srv[s] = "bound"
    /\ s \notin inShutdown
    /\ srv' = [srv EXCEPT ![s] = "serving"]
    /\ UNCHANGED <<cancelled, watchCancelled, keyWatch, runPc, current,
                   serverError, inShutdown, port, shut, wg>>

(* The key pair cannot be loaded, the server was stopped meanwhile, or      *)
(* Accept fails: ListenAndServeTLS closes its listener and returns.         *)
SrvStop(s) ==
    /\ srv[s] \in {"bound", "serving"}
    /\ srv' = [srv EXCEPT ![s] = "send"]
    /\ Release(s)
    /\ UNCHANGED <<cancelled, watchCancelled, keyWatch, runPc, current,
                   serverError, inShutdown, shut, wg>>

(* Close and the first half of Shutdown: only a listener that Serve has     *)
(* registered is closed at once.                                            *)
StopServer(s) ==
    /\ inShutdown' = inShutdown \cup {s}
    /\ IF srv[s] = "serving" THEN Release(s) ELSE UNCHANGED port

-----------------------------------------------------------------------------
\* The goroutines launched by Run

(* Defect: a second wg.Done() at the end of the goroutine. *)
SrvEndTwice(s) ==
    /\ srv[s] = "sent"
    /\ srv' = [srv EXCEPT ![s] = "ended"]
    /\ wg' = wg - 2
    /\ UNCHANGED <<cancelled, watchCancelled, keyWatch, runPc, current,
                   serverError, inShutdown, port, shut>>

(* The deferred close(errChan) and wg.Done(), after the send. *)
SrvEnd(s) ==
    /\ srv[s] = "sent"
    /\ srv' = [srv EXCEPT ![s] = "ended"]
    /\ wg' = wg - 1
    /\ UNCHANGED <<cancelled, watchCancelled, keyWatch, runPc, current,
                   serverError, inShutdown, port, shut>>

(* Defect: the goroutine waits without having called Shutdown. *)
ShutdownNotCalled(s) ==
    /\ shut[s] = "called"
    /\ shut' = [shut EXCEPT ![s] = "draining"]
    /\ UNCHANGED <<cancelled, watchCancelled, keyWatch, runPc, current,
                   serverError, srv, inShutdown, port, wg>>

ShutdownCall(s) ==
    /\ shut[s] = "called"
    /\ shut' = [shut EXCEPT ![s] = "draining"]
    /\ StopServer(s)
    /\ UNCHANGED <<cancelled, watchCancelled, keyWatch, runPc, current,
                   serverError, srv, wg>>

(* Connections are idle, or the five seconds or watchCtx are over. *)
ShutdownEnd(s) ==
    /\ shut[s] = "draining"
    /\ shut' = [shut EXCEPT ![s] = "ended"]
    /\ wg' = wg - 1
    /\ UNCHANGED <<cancelled, watchCancelled, keyWatch, runPc, current,
                   serverError, srv, inShutdown, port>>

-----------------------------------------------------------------------------
\* Run: the arms of its select, and its deferred calls

RunCancelled ==
    /\ runPc = "select"
    /\ cancelled
    /\ StopServer(current)
    /\ serverError' = "context"
    /\ runPc' = "leave"
    /\ UNCHANGED <<cancelled, watchCancelled, keyWatch, current, srv, shut, wg>>

(* errChan is unbuffered: the send happens with this receive or not at all. *)
RunServerError ==
    /\ runPc = "select"
    /\ srv[current] = "send"
    /\ srv' = [srv EXCEPT ![current] = "sent"]
    /\ serverError' = "listen"
    /\ runPc' = "leave"
    /\ UNCHANGED <<cancelled, watchCancelled, keyWatch, current, inShutdown,
                   port, shut, wg>>

RunKeyWatchClosed ==
    /\ runPc = "select"
    /\ keyWatch = "closed"
    /\ serverError' = "context"
    /\ runPc' = "leave"
    /\ UNCHANGED <<cancelled, watchCancelled, keyWatch, current, srv,
                   inShutdown, port, shut, wg>>

(* Defect: launchServer without its wg.Add(1). *)
RunRestartUncounted ==
    /\ runPc = "select"
    /\ keyWatch = "open"
    /\ current < MaxServers
    /\ shut' = [shut EXCEPT ![current] = "called"]
    /\ srv' = [srv EXCEPT ![current + 1] = "listen"]
    /\ current' = current + 1
    /\ wg' = wg + 1
    /\ UNCHANGED <<cancelled, watchCancelled, keyWatch, runPc, serverError,
                   inShutdown, port>>

(* A value from keyWatch: shut the current server down in the background    *)
(* and launch the next one.                                                 *)
RunRestart ==
    /\ runPc = "select"
    /\ keyWatch = "open"
    /\ current < MaxServers
    /\ shut' = [shut EXCEPT ![current] = "called"]
    /\ srv' = [srv EXCEPT ![current + 1] = "listen"]
    /\ current' = current + 1
    /\ wg' = wg + 2
    /\ UNCHANGED <<cancelled, watchCancelled, keyWatch, runPc, serverError,
                   inShutdown, port>>

(* Deferred cancelWatches() and wg.Done() *)
RunLeave ==
    /\ runPc = "leave"
    /\ watchCancelled' = TRUE
    /\ wg' = wg - 1
    /\ runPc' = "wait"
    /\ UNCHANGED <<cancelled, keyWatch, current, serverError, srv, inShutdown,
                   port, shut>>

(* Deferred wg.Wait() *)
RunReturn ==
    /\ runPc = "wait"
    /\ wg = 0
    /\ runPc' = "returned"
    /\ UNCHANGED <<cancelled, watchCancelled, keyWatch, current, serverError,
                   srv, inShutdown, port, shut, wg>>

-----------------------------------------------------------------------------

RunStep ==
    \/ RunCancelled \/ RunServerError \/ RunKeyWatchClosed
    \/ RunLeave \/ RunReturn

(* A server told to stop does return from ListenAndServeTLS. *)
SrvProgress(s) ==
    \/ SrvListen(s)
    \/ (s \in inShutdown \/ port # 0) /\ SrvListenFails(s)
    \/ SrvServe(s)
    \/ s \in inShutdown /\ SrvStop(s)
    \/ SrvEnd(s)

ShutdownStep(s) == ShutdownCall(s) \/ ShutdownEnd(s)

Next ==
    \/ Cancel
    \/ KeyWatchClose
    \/ \E s \in Server : SrvListen(s)
    \/ \E s \in Server : SrvListenFails(s)
    \/ \E s \in Server : SrvServe(s)
    \/ \E s \in Server : SrvStop(s)
    \/ \E s \in Server : SrvEnd(s)
    \/ \E s \in Server : ShutdownStep(s)
    \/ RunStep
    \/ RunRestart

Spec == Init /\ [][Next]_vars

(* Goroutines that can run do run. Nothing is assumed of the caller, of     *)
(* notifications, or of failures of the listener.                           *)
Fairness ==
    /\ WF_vars(RunStep)
    /\ WF_vars(KeyWatchClose)
    /\ \A s \in Server : WF_vars(SrvProgress(s))
    /\ \A s \in Server : WF_vars(ShutdownStep(s))

FairSpec == Spec /\ Fairness

-----------------------------------------------------------------------------
\* Properties

(* Every variable has its type. *)
TypeOK ==
    /\ cancelled \in BOOLEAN
    /\ watchCancelled \in BOOLEAN
    /\ keyWatch \in {"open", "closed"}
    /\ runPc \in {"select", "leave", "wait", "returned"}
    /\ current \in Server
    /\ serverError \in {"nil", "context", "listen"}
    /\ srv \in [Server -> SrvState]
    /\ inShutdown \subseteq Server
    /\ port \in Server \cup {0}
    /\ shut \in [Server -> ShutState]
    /\ wg \in Nat

Live(s) == srv[s] \notin {"none", "ended"}

(* The WaitGroup counts exactly the goroutines Run must wait for, so no     *)
(* Done makes it negative and none is forgotten.                            *)
WaitGroupExact ==
    wg = Cardinality({s \in Server : Live(s)})
         + Cardinality({s \in Server : shut[s] \in {"called", "draining"}})
         + (IF runPc \in {"select", "leave"} THEN 1 ELSE 0)

(* Run returns in one case only: the server it launched first has failed by *)
(* itself and Run has received its error. Then no goroutine is left, the    *)
(* address is free again and the watcher was told to stop. After a restart  *)
(* it never returns, as nobody receives from the replaced server's channel. *)
CleanReturn ==
    runPc = "returned" =>
        /\ current = 1 /\ serverError = "listen"
        /\ \A s \in Server : ~Live(s)
        /\ port = 0
        /\ watchCancelled

(* A server that a restart replaces gives the address up, even when it was  *)
(* told to stop before it had started to listen.                            *)
RestartFreesPort ==
    \A s \in Server : shut[s] = "called" ~> port # s

=============================================================================
