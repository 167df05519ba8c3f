---------------------------- MODULE ProcessProofs ----------------------------
(***************************************************************************)
(* Theorems about Process, and so about webhook.Run inside the program of  *)
(* cmd/cel-admission-webhook/main.go, for any bound on the launches: the   *)
(* two WaitGroups count what they should however often the server is       *)
(* restarted, nothing outlives those who wait on them, and the wait ends   *)
(* only where there was no restart.                                        *)
(***************************************************************************)
EXTENDS Process, TLAPS, FiniteSetTheorems

-----------------------------------------------------------------------------
\* Counting

(* The goroutines of launchServer, and those of graceful shutdowns, for     *)
(* which Run has called wg.Add(1) and which have not called wg.Done().      *)
Running == {s \in Server : Live(s)}
Stopping == {s \in Server : shut[s] \in {"called", "draining"}}

(* A goroutine that ends is one less, one that starts is one more. *)
LEMMA CountElement ==
    ASSUME NEW S \in SUBSET Server, NEW s \in Server
    PROVE  /\ Cardinality(S) \in Nat
           /\ s \in S => /\ Cardinality(S) >= 1
                         /\ Cardinality(S \ {s}) = Cardinality(S) - 1
           /\ s \notin S => Cardinality(S \cup {s}) = Cardinality(S) + 1
           /\ Cardinality(S) = 0 => S = {}
<1>1. IsFiniteSet(S)
  <2>1. 1 \in Int /\ MaxServers \in Int
    BY ServerAssumption
  <2>2. IsFiniteSet(Server)
    BY <2>1, FS_Interval, Zenon DEF Server
  <2> QED
    BY <2>2, FS_Subset
<1>2. Cardinality(S) \in Nat
  BY <1>1, FS_CardinalityType
<1>3. s \in S => Cardinality(S \ {s}) = Cardinality(S) - 1
  BY <1>1, FS_RemoveElement
<1>4. s \notin S => Cardinality(S \cup {s}) = Cardinality(S) + 1
  BY <1>1, FS_AddElement
<1>5. Cardinality(S) = 0 <=> S = {}
  BY <1>1, FS_EmptySet
<1>6. s \in S => Cardinality(S) >= 1
  BY <1>2, <1>5
<1> QED
  BY <1>2, <1>3, <1>4, <1>5, <1>6

(* Both sets are finite. *)
LEMMA FiniteCounts ==
    /\ Cardinality(Running) \in Nat
    /\ Cardinality(Stopping) \in Nat
    /\ Cardinality(Running) = 0 => Running = {}
<1>1. Running \in SUBSET Server /\ Stopping \in SUBSET Server
  BY DEF Running, Stopping
<1>2. 1 \in Server
  BY ServerAssumption DEF Server
<1> QED
  BY <1>1, <1>2, CountElement

-----------------------------------------------------------------------------
\* webhook.Run

(* Servers are launched one after the other, and only one that has been     *)
(* replaced is shut down.                                                   *)
LaunchOK ==
    \A s \in Server : /\ s > current => srv[s] = "none"
                      /\ s >= current => shut[s] = "none"

(* The address is held by a server that listens on it. *)
PortOK == port # 0 => srv[port] \in {"bound", "serving"}

(* An error is received from the current server only, and Run then leaves:  *)
(* the goroutine of a replaced server never comes past its send.            *)
SentOK ==
    \A s \in Server :
        /\ s <= current => srv[s] # "none"
        /\ srv[s] \in {"sent", "ended"} =>
              s = current /\ runPc # "select" /\ serverError = "listen"

(* What the deferred calls of Run have done by the time they wait. *)
LeaveOK ==
    /\ runPc # "select" => serverError # "nil"
    /\ runPc \in {"wait", "returned"} => watchCancelled
    /\ runPc = "returned" => wg = 0

(* The inductive invariant of webhook.Run. *)
ServerInv == TypeOK /\ WaitGroupExact /\ LaunchOK /\ PortOK /\ SentOK /\ LeaveOK

(* The first server has been launched. *)
LEMMA InitServer == Init => ServerInv
<1> SUFFICES ASSUME Init PROVE ServerInv
  OBVIOUS
<1>1. 1 \in Server
  BY ServerAssumption DEF Server
<1>2. TypeOK
  BY <1>1 DEF Init, TypeOK, SrvState, ShutState
<1>3. LaunchOK /\ PortOK /\ SentOK /\ LeaveOK
  BY DEF Init, LaunchOK, PortOK, SentOK, LeaveOK, Server
<1>4. Running = {} \cup {1} /\ Stopping = {}
  BY <1>1 DEF Init, Running, Stopping, Live
<1>5. Cardinality({} \cup {1}) = 1 /\ Cardinality({}) = 0
  BY <1>1, CountElement, FS_EmptySet
<1>6. WaitGroupExact
  BY <1>4, <1>5 DEF WaitGroupExact, Running, Stopping, Init
<1> QED
  BY <1>2, <1>3, <1>6 DEF ServerInv

(* Every step that starts and ends no goroutine. *)
LEMMA SameCount ==
    ASSUME WaitGroupExact, Running' = Running, Stopping' = Stopping, wg' = wg,
           (runPc \in {"select", "leave"})' <=> runPc \in {"select", "leave"}
    PROVE  WaitGroupExact'
BY DEF WaitGroupExact, Running, Stopping

(* serverCancel(), and the watcher that closes its channel. *)
LEMMA ContextStep ==
    ASSUME ServerInv, ServerCancel \/ KeyWatchClose
    PROVE  ServerInv'
<1>1. UNCHANGED <<watchCancelled, runPc, current, serverError, srv, inShutdown, port, shut, wg>>
  BY DEF ServerCancel, KeyWatchClose
<1>2. WaitGroupExact'
  BY <1>1, SameCount DEF ServerInv, Running, Stopping, Live
<1>3. TypeOK'
  BY DEF ServerInv, ServerCancel, KeyWatchClose, TypeOK
<1> QED
  BY <1>1, <1>2, <1>3 DEF ServerInv, LaunchOK, PortOK, SentOK, LeaveOK

(* A server's goroutine inside ListenAndServeTLS. *)
LEMMA ServeStep ==
    ASSUME ServerInv, NEW s \in Server,
           SrvListen(s) \/ SrvListenFails(s) \/ SrvServe(s) \/ SrvStop(s)
    PROVE  ServerInv'
<1>1. /\ UNCHANGED <<watchCancelled, runPc, current, serverError, shut, wg>>
      /\ srv[s] \in {"listen", "bound", "serving"}
      /\ srv'[s] \in {"bound", "serving", "send"}
      /\ srv' = [srv EXCEPT ![s] = srv'[s]]
  BY DEF SrvListen, SrvListenFails, SrvServe, SrvStop, ServerInv, TypeOK
<1>2. Running' = Running /\ Stopping' = Stopping
  BY <1>1 DEF Running, Stopping, Live, ServerInv, TypeOK
<1>3. WaitGroupExact'
  BY <1>1, <1>2, SameCount DEF ServerInv
<1>4. TypeOK'
  BY <1>1 DEF ServerInv, TypeOK, SrvListen, SrvListenFails, SrvServe, SrvStop, Release,
         SrvState
<1>5. PortOK'
  BY ServerAssumption DEF ServerInv, TypeOK, PortOK, SrvListen, SrvListenFails, SrvServe,
       SrvStop, Release, Server
<1>6. LaunchOK' /\ SentOK' /\ LeaveOK'
  BY <1>1 DEF ServerInv, TypeOK, LaunchOK, SentOK, LeaveOK
<1> QED
  BY <1>3, <1>4, <1>5, <1>6 DEF ServerInv

(* A server's goroutine ends: wg.Done(). *)
LEMMA EndStep ==
    ASSUME ServerInv, NEW s \in Server, SrvEnd(s)
    PROVE  ServerInv'
<1>1. Running \in SUBSET Server /\ Stopping \in SUBSET Server
  BY DEF Running, Stopping
<1>2. s \in Running /\ Running' = Running \ {s} /\ Stopping' = Stopping
  BY DEF SrvEnd, Running, Stopping, Live, ServerInv, TypeOK
<1>3. /\ Cardinality(Running) >= 1
      /\ Cardinality(Running') = Cardinality(Running) - 1
      /\ Cardinality(Running) \in Nat /\ Cardinality(Stopping) \in Nat
  BY <1>1, <1>2, CountElement
<1>4. wg = Cardinality(Running) + Cardinality(Stopping)
           + (IF runPc \in {"select", "leave"} THEN 1 ELSE 0)
  BY DEF ServerInv, WaitGroupExact, Running, Stopping
<1>5. wg' = wg - 1 /\ UNCHANGED runPc
  BY DEF SrvEnd
<1>6. wg # 0 /\ wg' \in Nat
  BY <1>3, <1>4, <1>5
<1>7. WaitGroupExact'
  <2>1. wg' = Cardinality(Running') + Cardinality(Stopping')
              + (IF runPc' \in {"select", "leave"} THEN 1 ELSE 0)
    BY <1>2, <1>3, <1>4, <1>5
  <2> QED
    BY <2>1 DEF WaitGroupExact, Running, Stopping
<1>8. TypeOK'
  BY <1>6 DEF ServerInv, TypeOK, SrvEnd, SrvState
<1>9. LaunchOK' /\ PortOK' /\ LeaveOK'
  BY <1>6 DEF ServerInv, TypeOK, SrvEnd, LaunchOK, PortOK, LeaveOK, Server
<1>10. SentOK'
  BY DEF ServerInv, TypeOK, SrvEnd, SentOK
<1> QED
  BY <1>7, <1>8, <1>9, <1>10 DEF ServerInv

(* A graceful shutdown begins and ends: wg.Done(). *)
LEMMA ShutdownKeeps ==
    ASSUME ServerInv, NEW s \in Server, ShutdownStep(s)
    PROVE  ServerInv'
<1>1. CASE ShutdownCall(s)
  <2>1. Running' = Running /\ Stopping' = Stopping
    BY <1>1 DEF ShutdownCall, Running, Stopping, Live, ServerInv, TypeOK
  <2>2. WaitGroupExact'
    BY <1>1, <2>1, SameCount DEF ServerInv, ShutdownCall
  <2>3. TypeOK'
    BY <1>1 DEF ServerInv, TypeOK, ShutdownCall, StopServer, Release, ShutState
  <2>4. LaunchOK' /\ PortOK' /\ SentOK' /\ LeaveOK'
    BY <1>1 DEF ServerInv, TypeOK, ShutdownCall, StopServer, Release, LaunchOK, PortOK,
                SentOK, LeaveOK
  <2> QED
    BY <2>2, <2>3, <2>4 DEF ServerInv
<1>2. CASE ShutdownEnd(s)
  <2>1. Running \in SUBSET Server /\ Stopping \in SUBSET Server
    BY DEF Running, Stopping
  <2>2. s \in Stopping /\ Stopping' = Stopping \ {s} /\ Running' = Running
    BY <1>2 DEF ShutdownEnd, Running, Stopping, Live, ServerInv, TypeOK
  <2>3. /\ Cardinality(Stopping) >= 1
        /\ Cardinality(Stopping') = Cardinality(Stopping) - 1
        /\ Cardinality(Running) \in Nat /\ Cardinality(Stopping) \in Nat
    BY <2>1, <2>2, CountElement
  <2>4. wg = Cardinality(Running) + Cardinality(Stopping)
             + (IF runPc \in {"select", "leave"} THEN 1 ELSE 0)
    BY DEF ServerInv, WaitGroupExact, Running, Stopping
  <2>5. wg' = wg - 1 /\ UNCHANGED runPc
    BY <1>2 DEF ShutdownEnd
  <2>6. wg # 0 /\ wg' \in Nat
    BY <2>3, <2>4, <2>5
  <2>7. WaitGroupExact'
    <3>1. wg' = Cardinality(Running') + Cardinality(Stopping')
                + (IF runPc' \in {"select", "leave"} THEN 1 ELSE 0)
      BY <2>2, <2>3, <2>4, <2>5
    <3> QED
      BY <3>1 DEF WaitGroupExact, Running, Stopping
  <2>8. TypeOK'
    BY <1>2, <2>6 DEF ServerInv, TypeOK, ShutdownEnd, ShutState
  <2>9. LaunchOK' /\ PortOK' /\ SentOK' /\ LeaveOK'
    BY <1>2, <2>6 DEF ServerInv, TypeOK, ShutdownEnd, LaunchOK, PortOK, SentOK, LeaveOK
  <2> QED
    BY <2>7, <2>8, <2>9 DEF ServerInv
<1> QED
  BY <1>1, <1>2 DEF ShutdownStep

(* The arms of Run's select that leave the loop, and its deferred calls. *)
LEMMA RunKeeps ==
    ASSUME ServerInv, RunStep
    PROVE  ServerInv'
<1>1. CASE RunCancelled \/ RunServerError \/ RunKeyWatchClosed
  <2>1. /\ runPc = "select" /\ runPc' = "leave" /\ serverError' \in {"context", "listen"}
        /\ UNCHANGED <<watchCancelled, current, shut, wg>>
        /\ srv' = srv \/ (srv[current] = "send" /\ srv' = [srv EXCEPT ![current] = "sent"])
    BY <1>1 DEF RunCancelled, RunServerError, RunKeyWatchClosed
  <2>2. Running' = Running /\ Stopping' = Stopping
    BY <2>1 DEF Running, Stopping, Live, ServerInv, TypeOK
  <2>3. WaitGroupExact'
    BY <2>1, <2>2, SameCount DEF ServerInv
  <2>4. TypeOK'
    BY <1>1, <2>1 DEF ServerInv, TypeOK, RunCancelled, RunServerError, RunKeyWatchClosed,
                StopServer, Release, SrvState
  <2>5. PortOK'
    BY <1>1 DEF ServerInv, TypeOK, PortOK, RunCancelled, RunServerError,
                RunKeyWatchClosed, StopServer, Release
  <2>6. LaunchOK' /\ LeaveOK'
    BY <2>1 DEF ServerInv, TypeOK, LaunchOK, LeaveOK, Server
  <2>7. SentOK'
    BY <1>1, <2>1 DEF ServerInv, TypeOK, SentOK, RunCancelled, RunServerError,
                RunKeyWatchClosed
  <2> QED
    BY <2>3, <2>4, <2>5, <2>6, <2>7 DEF ServerInv
<1>2. CASE RunLeave
  <2>1. /\ runPc = "leave" /\ runPc' = "wait" /\ wg' = wg - 1 /\ watchCancelled'
        /\ UNCHANGED <<current, serverError, srv, port, shut>>
    BY <1>2 DEF RunLeave
  <2>2. Running' = Running /\ Stopping' = Stopping
    BY <2>1 DEF Running, Stopping, Live
  <2>3. Cardinality(Running) \in Nat /\ Cardinality(Stopping) \in Nat
    BY FiniteCounts
  <2>4. wg = Cardinality(Running) + Cardinality(Stopping) + 1
    BY <2>1 DEF ServerInv, WaitGroupExact, Running, Stopping
  <2>5. wg' \in Nat
    BY <2>1, <2>3, <2>4
  <2>6. WaitGroupExact'
    <3>1. wg' = Cardinality(Running') + Cardinality(Stopping') + 0
      BY <2>1, <2>2, <2>3, <2>4
    <3> QED
      BY <2>1, <3>1 DEF WaitGroupExact, Running, Stopping
  <2>7. TypeOK'
    BY <1>2, <2>5 DEF RunLeave, ServerInv, TypeOK
  <2>8. LaunchOK' /\ PortOK' /\ SentOK' /\ LeaveOK'
    BY <2>1 DEF ServerInv, LaunchOK, PortOK, SentOK, LeaveOK
  <2> QED
    BY <2>6, <2>7, <2>8 DEF ServerInv
<1>3. CASE RunReturn
  <2>1. /\ runPc = "wait" /\ runPc' = "returned" /\ wg = 0
        /\ UNCHANGED <<watchCancelled, current, serverError, srv, port, shut, wg>>
    BY <1>3 DEF RunReturn
  <2>2. Running' = Running /\ Stopping' = Stopping
    BY <2>1 DEF Running, Stopping, Live
  <2>3. WaitGroupExact'
    BY <2>1, <2>2, SameCount DEF ServerInv
  <2>4. TypeOK'
    BY <1>3 DEF RunReturn, ServerInv, TypeOK
  <2>5. LaunchOK' /\ PortOK' /\ SentOK' /\ LeaveOK'
    BY <2>1 DEF ServerInv, LaunchOK, PortOK, SentOK, LeaveOK
  <2> QED
    BY <2>3, <2>4, <2>5 DEF ServerInv
<1> QED
  BY <1>1, <1>2, <1>3 DEF RunStep

(* A restart: wg.Add(1) for the shutdown and for the new server. *)
LEMMA RestartKeeps ==
    ASSUME ServerInv, RunRestart
    PROVE  ServerInv'
<1>1. /\ runPc = "select" /\ current \in Server /\ current + 1 \in Server
      /\ shut' = [shut EXCEPT ![current] = "called"]
      /\ srv' = [srv EXCEPT ![current + 1] = "listen"]
      /\ current' = current + 1 /\ wg' = wg + 2
      /\ UNCHANGED <<watchCancelled, runPc, serverError, port>>
  BY ServerAssumption DEF RunRestart, ServerInv, TypeOK, Server
<1>2. srv[current + 1] = "none" /\ shut[current] = "none"
  BY <1>1 DEF ServerInv, LaunchOK, Server
<1>3. Running \in SUBSET Server /\ Stopping \in SUBSET Server
  BY DEF Running, Stopping
<1>4. current + 1 \notin Running /\ Running' = Running \cup {current + 1}
  BY <1>1, <1>2 DEF Running, Live, ServerInv, TypeOK
<1>5. current \notin Stopping /\ Stopping' = Stopping \cup {current}
  BY <1>1, <1>2 DEF Stopping, ServerInv, TypeOK
<1>6. /\ Cardinality(Running) \in Nat /\ Cardinality(Stopping) \in Nat
      /\ Cardinality(Running') = Cardinality(Running) + 1
      /\ Cardinality(Stopping') = Cardinality(Stopping) + 1
  BY <1>1, <1>3, <1>4, <1>5, CountElement
<1>7. wg = Cardinality(Running) + Cardinality(Stopping) + 1
  BY <1>1 DEF ServerInv, WaitGroupExact, Running, Stopping
<1>8. WaitGroupExact'
  <2>1. wg' = Cardinality(Running') + Cardinality(Stopping') + 1
    BY <1>1, <1>6, <1>7
  <2> QED
    BY <1>1, <2>1 DEF WaitGroupExact, Running, Stopping
<1>9. TypeOK'
  BY <1>1 DEF RunRestart, ServerInv, TypeOK, SrvState, ShutState
<1>10. PortOK'
  BY <1>1, <1>2 DEF ServerInv, TypeOK, PortOK
<1>11. LaunchOK' /\ LeaveOK'
  BY <1>1 DEF ServerInv, TypeOK, LaunchOK, LeaveOK, Server
<1>12. SentOK'
  BY <1>1 DEF ServerInv, TypeOK, SentOK, Server
<1> QED
  BY <1>8, <1>9, <1>10, <1>11, <1>12 DEF ServerInv

(* ServerInv is kept by every step of webhook.Run and of its goroutines. *)
LEMMA WebhookKeeps == ServerInv /\ WebhookStep => ServerInv'
BY ContextStep, ServeStep, EndStep, ShutdownKeeps, RunKeeps, RestartKeeps DEF WebhookStep

(* A step that changes nothing in webhook.Run. *)
LEMMA ServerUntouched == ServerInv /\ UNCHANGED vars => ServerInv'
<1> SUFFICES ASSUME ServerInv, UNCHANGED vars PROVE ServerInv'
  OBVIOUS
<1>1. WaitGroupExact'
  BY SameCount DEF vars, ServerInv, Running, Stopping, Live
<1> QED
  BY <1>1 DEF vars, ServerInv, TypeOK, LaunchOK, PortOK, SentOK, LeaveOK

(* When the counter is zero nothing is left that Run has launched. So every *)
(* server that was launched has sent its error, and there can be one only.  *)
LEMMA ServerClean == ServerInv => CleanReturn
<1> SUFFICES ASSUME ServerInv, runPc = "returned"
             PROVE  /\ current = 1 /\ serverError = "listen"
                    /\ \A s \in Server : ~Live(s)
                    /\ port = 0 /\ watchCancelled
  BY DEF CleanReturn
<1>1. wg = 0 /\ watchCancelled
  BY DEF ServerInv, LeaveOK
<1>2. /\ Cardinality(Running) \in Nat /\ Cardinality(Stopping) \in Nat
      /\ Cardinality(Running) = 0 => Running = {}
  BY FiniteCounts
<1>3. wg = Cardinality(Running) + Cardinality(Stopping) + 0
  BY DEF ServerInv, WaitGroupExact, Running, Stopping
<1>4. Running = {}
  BY <1>1, <1>2, <1>3
<1>5. \A s \in Server : ~Live(s)
  BY <1>4 DEF Running
<1>6. port = 0
  BY <1>5 DEF ServerInv, TypeOK, PortOK, Live
<1>7. 1 \in Server /\ 1 <= current /\ current \in Server
  BY ServerAssumption DEF ServerInv, TypeOK, Server
<1>8. srv[1] = "ended"
  BY <1>5, <1>7 DEF ServerInv, SentOK, Live
<1>9. current = 1 /\ serverError = "listen"
  BY <1>7, <1>8 DEF ServerInv, SentOK
<1> QED
  BY <1>1, <1>5, <1>6, <1>9

(* webhook.Run under any caller: however often it restarts, its WaitGroup   *)
(* counts exactly what it must wait for. It returns only if it has never    *)
(* restarted and its server has failed; then nothing it launched is left.   *)
THEOREM RunIsClean == Spec => [](TypeOK /\ WaitGroupExact /\ CleanReturn)
<1>1. Cancel => ServerCancel
  BY DEF Cancel, ServerCancel
<1>2. Next => ServerCancel \/ WebhookStep
  BY <1>1 DEF Next, WebhookStep
<1>3. ServerInv /\ [Next]_vars => ServerInv'
  BY <1>2, ContextStep, WebhookKeeps, ServerUntouched
<1>4. ServerInv => TypeOK /\ WaitGroupExact /\ CleanReturn
  BY ServerClean DEF ServerInv
<1> QED
  BY <1>3, <1>4, InitServer, PTL DEF Spec

-----------------------------------------------------------------------------
\* The process

(* main's WaitGroup counts the two goroutines; the webhook's is done only   *)
(* after Run has returned, and main exits only after both.                  *)
MainOK ==
    /\ signalled \in BOOLEAN
    /\ pluginPc \in {"run", "returned", "done"}
    /\ webhookDone \in BOOLEAN
    /\ mainPc \in {"start", "wait", "exited"}
    /\ waitGroup = IF pluginPc = "done"
                   THEN IF webhookDone THEN 0 ELSE 1
                   ELSE IF webhookDone THEN 1 ELSE 2
    /\ webhookDone => runPc = "returned"
    /\ mainPc = "exited" => waitGroup = 0

(* The inductive invariant of the process. *)
ProcessInv == ServerInv /\ MainOK

(* Both goroutines have been launched. *)
LEMMA InitProcess == ProcessInit => ProcessInv
BY InitServer DEF ProcessInit, ProcessInv, MainOK

(* Every step of the process keeps ProcessInv. *)
LEMMA NextProcess == ProcessInv /\ [ProcessNext]_processVars => ProcessInv'
<1> SUFFICES ASSUME ServerInv, MainOK, [ProcessNext]_processVars
             PROVE  ServerInv' /\ MainOK'
  BY DEF ProcessInv
<1>1. CASE SignalArrives
  BY <1>1, ContextStep DEF SignalArrives, ServerCancel, MainOK
<1>2. CASE Goroutine
  <2>1. ServerCancel \/ UNCHANGED vars
    BY <1>2 DEF Goroutine, PluginReturn, PluginEnd, WebhookEnd, MainStart, MainExit
  <2>2. ServerInv'
    BY <2>1, ContextStep, ServerUntouched
  <2>3. UNCHANGED runPc
    BY <2>1 DEF ServerCancel, vars
  <2>4. MainOK'
    <3>1. CASE PluginReturn \/ PluginEnd
      BY <2>3, <3>1 DEF PluginReturn, PluginEnd, MainOK
    <3>2. CASE WebhookEnd
      BY <2>3, <3>2 DEF WebhookEnd, MainOK
    <3>3. CASE MainStart \/ MainExit
      BY <2>3, <3>3 DEF MainStart, MainExit, MainOK
    <3> QED
      BY <1>2, <3>1, <3>2, <3>3 DEF Goroutine
  <2> QED
    BY <2>2, <2>4
<1>3. CASE WebhookStep /\ UNCHANGED mainVars
  <2>1. ServerInv'
    BY <1>3, WebhookKeeps
  <2>2. runPc = "returned" => runPc' = "returned"
    BY <1>3 DEF WebhookStep, KeyWatchClose, SrvListen, SrvListenFails, SrvServe, SrvStop,
                SrvEnd, ShutdownStep, ShutdownCall, ShutdownEnd, RunStep, RunCancelled,
                RunServerError, RunKeyWatchClosed, RunLeave, RunReturn, RunRestart
  <2>3. MainOK'
    BY <1>3, <2>2 DEF MainOK, mainVars
  <2> QED
    BY <2>1, <2>3
<1>4. CASE UNCHANGED processVars
  <2>1. UNCHANGED vars /\ UNCHANGED mainVars
    BY <1>4 DEF processVars
  <2>2. MainOK'
    BY <2>1 DEF vars, mainVars, MainOK
  <2> QED
    BY <2>1, <2>2, ServerUntouched
<1> QED
  BY <1>1, <1>2, <1>3, <1>4 DEF ProcessNext

(* ProcessInv holds in every reachable state. *)
THEOREM ProcessInvariance == ProcessSpec => []ProcessInv
BY InitProcess, NextProcess, PTL DEF ProcessSpec

(* Type correctness of main.go's process and of webhook.Run inside it. *)
THEOREM ProcessTypeCorrect == ProcessSpec => []ProcessTypeOK
<1>1. ProcessInv => ProcessTypeOK
  BY DEF ProcessInv, ServerInv, MainOK, ProcessTypeOK
<1> QED
  BY <1>1, ProcessInvariance, PTL

(* However servers fail, restart and shut down, wg of server.go counts      *)
(* exactly the goroutines that are left, and Run itself.                    *)
THEOREM WaitGroupCounts == ProcessSpec => []WaitGroupExact
<1>1. ProcessInv => WaitGroupExact
  BY DEF ProcessInv, ServerInv
<1> QED
  BY <1>1, ProcessInvariance, PTL

(* Run and main end only by a failure of the server launched first, after   *)
(* everything they have launched; the address is then free. Once a server   *)
(* was replaced, neither ends.                                              *)
THEOREM Clean == ProcessSpec => []CleanExit
<1>1. ProcessInv => CleanExit
  <2> SUFFICES ASSUME ProcessInv PROVE CleanExit
    OBVIOUS
  <2>1. CleanReturn
    BY ServerClean DEF ProcessInv
  <2>2. mainPc = "exited" => pluginPc = "done" /\ webhookDone /\ runPc = "returned"
    BY DEF ProcessInv, MainOK
  <2> QED
    BY <2>1, <2>2 DEF CleanExit, CleanReturn
<1> QED
  BY <1>1, ProcessInvariance, PTL
=============================================================================
