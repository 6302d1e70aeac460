--------------------------- MODULE SnxServiceProofs ---------------------------
(***************************************************************************)
(* The safety of module SnxService for every number of attempts and every  *)
(* set of profiles.                                                        *)
(*                                                                         *)
(* ControlInv is inductive by itself: whichever task is not cancelled is   *)
(* the current attempt's, because every operation that changes the current *)
(* attempt cancels the old one first.  QuietInv and ReportInv add what     *)
(* holds if secrets come only when asked for.  TunnelInv is inductive given*)
(* ControlInv if all profiles share one interface name: the kernel then    *)
(* admits one TUN device at a time, and the worker that holds it excludes  *)
(* every other worker from the critical section that configure_interface() *)
(* and the publication never asked a lock for.                             *)
(***************************************************************************)
EXTENDS SnxService, TLAPS

Alive == process # "exited"

\* An attempt that has not been made has no task and is nowhere recorded.
FreshInv ==
  \A a \in Attempts : profile[a] = NoProfile =>
    task[a] = "none" /\ a # cancellable /\ a \notin cancelled

\* The current attempt is not cancelled, and self->config is its profile.
CurrentInv ==
  cancellable # NoAttempt =>
    /\ cancellable \notin cancelled
    /\ config = profile[cancellable] /\ config # NoProfile

ControlInv == TypeOK /\ FreshInv /\ CurrentInv /\ OneLiveTask /\ AwaitingIsIdle

\* No task is in charge of a service that has stopped, or is about to: it
\* refused a code only when it had asked for one, and then it was idle.
NoTaskInCharge == \A a \in Attempts : task[a] # "none" => a \in cancelled

QuietInv ==
  Running =>
    /\ asked => awaiting_challenge
    /\ fail_stop => ~ asked /\ nm # "started"
    /\ nm = "stopped" \/ fail_stop => NoTaskInCharge

\* Only a connection that was announced is forwarded and kept alive, and what
\* a thread can report, or has reported, is that connection or a cancelled one.
ReportInv ==
  Running =>
    /\ threads # NoThreads \/ keepalive_source => nm = "started"
    /\ \A a \in Attempts : tunnel = a \/ threads[1] = a =>
         a \in cancelled \/ a = cancellable
    /\ \A a \in posted : a \in cancelled \/ (nm = "started" /\ a = cancellable)

\* The kernel attaches the one name to one device.
OneDevice ==
  \A a, b \in Attempts : tun_open[a] # NoName /\ tun_open[b] # NoName => a = b

\* What a worker holds is open, and not yet in the fields.
HeldInv ==
  Alive => \A a \in Attempts :
    /\ WorkerHoldsSsl(a) /\ task[a] # "publish_fd" => a \in ssl_open
    /\ WorkerHoldsTun(a) => tun_open[a] # NoName
    /\ task[a] \notin {"none", "tunnel_back"} => tun_fd # a
    /\ task[a] \notin {"none", "tunnel_back", "publish_fd"} => tunnel # a
    /\ task[a] = "publish_fd" /\ a \in ssl_open => tunnel = a

\* What is in the fields is open, and complete but between the two steps of
\* the publication.
PublishedInv ==
  Alive =>
    /\ tunnel # NoAttempt =>
         /\ tunnel \in ssl_open
         /\ task[tunnel] = "publish_fd" \/ tun_fd = tunnel
    /\ tun_fd # NoAttempt => tun_open[tun_fd] # NoName
    /\ threads # NoThreads => threads = <<tunnel, tun_fd>> /\ tun_fd # NoAttempt

LeakInv ==
  Alive =>
    /\ \A a \in ssl_open : WorkerHoldsSsl(a) \/ tunnel = a
    /\ \A a \in Attempts :
         tun_open[a] # NoName => WorkerHoldsTun(a) \/ tun_fd = a

Succeeded(a) == task[a] = "tunnel_back" /\ result[a] = "ok"

\* How far the attempt in charge has come.
ProgressInv ==
  Alive => \A a \in Attempts : a \notin cancelled =>
    /\ task[a] \in {"challenge", "challenge_back"} \cup TunnelPC =>
         gateway_ip = profile[a]
    /\ task[a] = "publish_fd" => tunnel = a
    /\ Succeeded(a) => tunnel = a /\ tun_fd = a

BypassInv ==
  Alive => \A a \in Attempts :
    a \notin cancelled /\ profile[a] # NoProfile /\ DefaultRoute[profile[a]] =>
    /\ task[a] \in {"active", "dest"} =>
         bypass_dest[a] = profile[a] /\ profile[a] \in bypass_routes
    /\ task[a] = "dest" => bypass_route_active
    /\ task[a] \in {"routes", "check", "publish", "publish_fd"} \/ Succeeded(a) =>
         /\ bypass_route_active /\ bypass_route_dest = profile[a]
         /\ profile[a] \in bypass_routes

\* An attempt that waits for a code knows its gateway and owns no tunnel.
AwaitingInv ==
  Running /\ awaiting_challenge /\ nm = "starting" =>
    /\ gateway_ip = profile[cancellable]
    /\ tunnel # cancellable /\ tun_fd # cancellable

StartedInv ==
  Running /\ nm = "started" =>
    /\ cancellable # NoAttempt /\ task[cancellable] = "none"
    /\ tunnel = cancellable /\ tun_fd = cancellable
    /\ threads = <<tunnel, tun_fd>>
    /\ gateway_ip = config
    /\ DefaultRoute[config] =>
         /\ config \in bypass_routes
         /\ bypass_route_active /\ bypass_route_dest = config

TunnelInv ==
  /\ OneDevice /\ HeldInv /\ PublishedInv /\ LeakInv
  /\ ProgressInv /\ BypassInv /\ AwaitingInv /\ StartedInv

-----------------------------------------------------------------------------
USE ServiceConstants
USE DEF OptAttempts, OptProfiles, NoThreads, Running, Alive,
        loopVars, nmVars, stateVars, forwardVars, tunnelVars, bypassVars,
        taskVars, kernelVars, authFrame, workerFrame, doneFrame, reportFrame,
        DeleteBypassRoute, StartForwarding

\* Every step keeps the types.
LEMMA StepTypeOK ==
  ASSUME TypeOK, [Next]_vars
  PROVE  TypeOK'
<1>. USE DEF TypeOK, TaskPC, AuthPC, TunnelPC, HoldsTun, Results, Signals,
             Names
<1>1. ASSUME NEW a \in Attempts, NEW p \in Profiles, Connect(a, p)
      PROVE  TypeOK'
  <2>1. bypass_route_active' \in BOOLEAN
    BY <1>1 DEF Connect, ResetPluginState, CancelInflight, TeardownTunnel,
                CloseTun
  <2>. QED
    BY <1>1, <2>1 DEF Connect, ResetPluginState, CancelInflight,
                      TeardownTunnel, CloseTun
<1>2. ASSUME NEW a \in Attempts, NEW p \in Profiles, ConnectRefused(a, p)
      PROVE  TypeOK'
  <2>1. bypass_route_active' \in BOOLEAN
    BY <1>2 DEF ConnectRefused, ResetPluginState, CancelInflight,
                TeardownTunnel, CloseTun
  <2>. QED
    BY <1>2, <2>1 DEF ConnectRefused, ResetPluginState, CancelInflight,
                      TeardownTunnel, CloseTun
<1>3. CASE NewSecrets
  <2>1. fail_stop' \in BOOLEAN
    BY <1>3 DEF NewSecrets, Goto
  <2>2. asked' \in BOOLEAN
    BY <1>3 DEF NewSecrets, Goto
  <2>3. awaiting_challenge' \in BOOLEAN
    BY <1>3 DEF NewSecrets, Goto
  <2>4. keepalive_source' \in BOOLEAN
    BY <1>3 DEF NewSecrets, Goto
  <2>5. unexpected_exit_reported' \in BOOLEAN
    BY <1>3 DEF NewSecrets, Goto
  <2>6. bypass_route_active' \in BOOLEAN
    BY <1>3 DEF NewSecrets, Goto
  <2>. QED
    BY <1>3, <2>1, <2>2, <2>3, <2>4, <2>5, <2>6
       DEF NewSecrets, Goto
<1>4. CASE NewSecretsRefused
  <2>1. fail_stop' \in BOOLEAN
    BY <1>4 DEF NewSecretsRefused
  <2>2. asked' \in BOOLEAN
    BY <1>4 DEF NewSecretsRefused
  <2>3. awaiting_challenge' \in BOOLEAN
    BY <1>4 DEF NewSecretsRefused
  <2>4. keepalive_source' \in BOOLEAN
    BY <1>4 DEF NewSecretsRefused
  <2>5. unexpected_exit_reported' \in BOOLEAN
    BY <1>4 DEF NewSecretsRefused
  <2>6. bypass_route_active' \in BOOLEAN
    BY <1>4 DEF NewSecretsRefused
  <2>. QED
    BY <1>4, <2>1, <2>2, <2>3, <2>4, <2>5, <2>6
       DEF NewSecretsRefused
<1>5. CASE Disconnect
  BY <1>5 DEF Disconnect, CancelInflight, TeardownTunnel, CloseTun
<1>6. CASE FailStop
  <2>1. fail_stop' \in BOOLEAN
    BY <1>6 DEF FailStop
  <2>2. asked' \in BOOLEAN
    BY <1>6 DEF FailStop
  <2>3. awaiting_challenge' \in BOOLEAN
    BY <1>6 DEF FailStop
  <2>4. keepalive_source' \in BOOLEAN
    BY <1>6 DEF FailStop
  <2>5. unexpected_exit_reported' \in BOOLEAN
    BY <1>6 DEF FailStop
  <2>6. bypass_route_active' \in BOOLEAN
    BY <1>6 DEF FailStop
  <2>. QED
    BY <1>6, <2>1, <2>2, <2>3, <2>4, <2>5, <2>6
       DEF FailStop
<1>7. CASE \E a \in Attempts : AuthWorker(a)
  BY <1>7 DEF AuthWorker, Return
<1>8. CASE \E a \in Attempts : AuthCancelled(a)
  BY <1>8 DEF AuthCancelled, AuthReturned, TaskEnds
<1>9. CASE \E a \in Attempts : AuthError(a)
  BY <1>9 DEF AuthError, AuthReturned, TaskEnds, Emit
<1>10. CASE \E a \in Attempts : AuthContinue(a)
  BY <1>10 DEF AuthContinue, AuthReturned, GatewayKnown, TaskEnds, Emit
<1>11. CASE \E a \in Attempts : AuthDenied(a)
  BY <1>11 DEF AuthDenied, AuthReturned, GatewayKnown, TaskEnds, Emit
<1>12. CASE \E a \in Attempts : AuthDone(a)
  BY <1>12 DEF AuthDone, AuthReturned, GatewayKnown, Return
<1>13. CASE \E a \in Attempts : WorkerFails(a)
  BY <1>13 DEF WorkerFails, Abort, CloseTun, Return
<1>14. CASE \E a \in Attempts : OpenTunnel(a)
  BY <1>14 DEF OpenTunnel, Worker, Goto
<1>15. CASE \E a \in Attempts : CreateTun(a)
  BY <1>15 DEF CreateTun, Worker, Goto
<1>16. CASE \E a \in Attempts : ConfigureLink(a)
  BY <1>16 DEF ConfigureLink, Worker, Goto
<1>17. CASE \E a \in Attempts : AddBypassRoute(a)
  BY <1>17 DEF AddBypassRoute, Worker, Goto
<1>18. CASE \E a \in Attempts : SetBypassActive(a)
  BY <1>18 DEF SetBypassActive, Worker, Goto
<1>19. CASE \E a \in Attempts : SetBypassDest(a)
  BY <1>19 DEF SetBypassDest, Worker, Goto
<1>20. CASE \E a \in Attempts : AddRoutes(a)
  BY <1>20 DEF AddRoutes, Worker, Goto
<1>21. CASE \E a \in Attempts : CheckCancelled(a)
  BY <1>21 DEF CheckCancelled, Worker, Abort, CloseTun, Return
<1>22. CASE \E a \in Attempts : CheckPassed(a)
  BY <1>22 DEF CheckPassed, Worker, Goto
<1>23. CASE \E a \in Attempts : PublishTunnel(a)
  BY <1>23 DEF PublishTunnel, Worker, Goto
<1>24. CASE \E a \in Attempts : PublishFd(a)
  BY <1>24 DEF PublishFd, Worker, Return
<1>25. CASE \E a \in Attempts : TunnelCancelled(a)
  BY <1>25 DEF TunnelCancelled, TunnelReturned, TaskEnds
<1>26. CASE \E a \in Attempts : TunnelError(a)
  BY <1>26 DEF TunnelError, TunnelReturned, TaskEnds, Emit
<1>27. CASE \E a \in Attempts : FinishConnect(a)
  BY <1>27 DEF FinishConnect, TunnelReturned, TaskEnds, Emit
<1>28. CASE \E a \in Attempts : FinishConnectFails(a)
  <2>1. fail_stop' \in BOOLEAN
    BY <1>28 DEF FinishConnectFails, TunnelReturned, TeardownTunnel,
           CloseTun, TaskEnds, Emit
  <2>2. asked' \in BOOLEAN
    BY <1>28 DEF FinishConnectFails, TunnelReturned, TeardownTunnel,
           CloseTun, TaskEnds, Emit
  <2>3. awaiting_challenge' \in BOOLEAN
    BY <1>28 DEF FinishConnectFails, TunnelReturned, TeardownTunnel,
           CloseTun, TaskEnds, Emit
  <2>4. keepalive_source' \in BOOLEAN
    BY <1>28 DEF FinishConnectFails, TunnelReturned, TeardownTunnel,
           CloseTun, TaskEnds, Emit
  <2>5. unexpected_exit_reported' \in BOOLEAN
    BY <1>28 DEF FinishConnectFails, TunnelReturned, TeardownTunnel,
           CloseTun, TaskEnds, Emit
  <2>6. bypass_route_active' \in BOOLEAN
    BY <1>28 DEF FinishConnectFails, TunnelReturned, TeardownTunnel,
           CloseTun, TaskEnds, Emit
  <2>. QED
    BY <1>28, <2>1, <2>2, <2>3, <2>4, <2>5, <2>6
       DEF FinishConnectFails, TunnelReturned, TeardownTunnel,
           CloseTun, TaskEnds, Emit
<1>29. CASE \E a \in Attempts : ReportUnexpectedThreadExit(a)
  BY <1>29 DEF ReportUnexpectedThreadExit
<1>30. CASE \E a \in Attempts : OnForwardingThreadFailed(a)
  BY <1>30 DEF OnForwardingThreadFailed, Emit
<1>31. CASE KeepaliveFails
  <2>1. fail_stop' \in BOOLEAN
    BY <1>31 DEF KeepaliveFails, Emit
  <2>2. asked' \in BOOLEAN
    BY <1>31 DEF KeepaliveFails, Emit
  <2>3. awaiting_challenge' \in BOOLEAN
    BY <1>31 DEF KeepaliveFails, Emit
  <2>4. keepalive_source' \in BOOLEAN
    BY <1>31 DEF KeepaliveFails, Emit
  <2>5. unexpected_exit_reported' \in BOOLEAN
    BY <1>31 DEF KeepaliveFails, Emit
  <2>6. bypass_route_active' \in BOOLEAN
    BY <1>31 DEF KeepaliveFails, Emit
  <2>. QED
    BY <1>31, <2>1, <2>2, <2>3, <2>4, <2>5, <2>6
       DEF KeepaliveFails, Emit
<1>32. CASE Terminate
  <2>1. fail_stop' \in BOOLEAN
    BY <1>32 DEF Terminate, CancelInflight, TeardownTunnel, CloseTun
  <2>2. asked' \in BOOLEAN
    BY <1>32 DEF Terminate, CancelInflight, TeardownTunnel, CloseTun
  <2>3. awaiting_challenge' \in BOOLEAN
    BY <1>32 DEF Terminate, CancelInflight, TeardownTunnel, CloseTun
  <2>4. keepalive_source' \in BOOLEAN
    BY <1>32 DEF Terminate, CancelInflight, TeardownTunnel, CloseTun
  <2>5. unexpected_exit_reported' \in BOOLEAN
    BY <1>32 DEF Terminate, CancelInflight, TeardownTunnel, CloseTun
  <2>6. bypass_route_active' \in BOOLEAN
    BY <1>32 DEF Terminate, CancelInflight, TeardownTunnel, CloseTun
  <2>. QED
    BY <1>32, <2>1, <2>2, <2>3, <2>4, <2>5, <2>6
       DEF Terminate, CancelInflight, TeardownTunnel, CloseTun
<1>33. CASE Quit
  BY <1>33 DEF Quit
<1>34. CASE ExitProcess
  <2>1. fail_stop' \in BOOLEAN
    BY <1>34 DEF ExitProcess, Gone, CancelInflight
  <2>2. asked' \in BOOLEAN
    BY <1>34 DEF ExitProcess, Gone, CancelInflight
  <2>3. awaiting_challenge' \in BOOLEAN
    BY <1>34 DEF ExitProcess, Gone, CancelInflight
  <2>4. keepalive_source' \in BOOLEAN
    BY <1>34 DEF ExitProcess, Gone, CancelInflight
  <2>5. unexpected_exit_reported' \in BOOLEAN
    BY <1>34 DEF ExitProcess, Gone, CancelInflight
  <2>6. bypass_route_active' \in BOOLEAN
    BY <1>34 DEF ExitProcess, Gone, CancelInflight
  <2>. QED
    BY <1>34, <2>1, <2>2, <2>3, <2>4, <2>5, <2>6
       DEF ExitProcess, Gone, CancelInflight
<1>35. CASE Crash
  BY <1>35 DEF Crash, Gone
<1>36. CASE UNCHANGED vars
  BY <1>36 DEF vars
<1>. QED
  BY <1>1, <1>2, <1>3, <1>4, <1>5, <1>6, <1>7, <1>8, <1>9, <1>10,
     <1>11, <1>12, <1>13, <1>14, <1>15, <1>16, <1>17, <1>18, <1>19, <1>20,
     <1>21, <1>22, <1>23, <1>24, <1>25, <1>26, <1>27, <1>28, <1>29, <1>30,
     <1>31, <1>32, <1>33, <1>34, <1>35, <1>36
     DEF Next, AuthCallback, TunnelCallback, TunnelWorker

\* Every step keeps ControlInv: what takes the place of the current attempt
\* cancels it, and a callback of a cancelled one does nothing.
LEMMA StepControl ==
  ASSUME ControlInv, [Next]_vars
  PROVE  (FreshInv /\ CurrentInv /\ OneLiveTask /\ AwaitingIsIdle)'
<1>. USE DEF ControlInv, TypeOK, TaskPC, AuthPC, TunnelPC, HoldsTun, FreshInv,
             CurrentInv,
           OneLiveTask, AwaitingIsIdle
<1>1. CASE \E a \in Attempts, p \in Profiles : Connect(a, p)
  BY <1>1 DEF Connect, ResetPluginState, CancelInflight, TeardownTunnel,
              CloseTun
<1>2. CASE \E a \in Attempts, p \in Profiles : ConnectRefused(a, p)
  BY <1>2 DEF ConnectRefused, ResetPluginState, CancelInflight, TeardownTunnel,
              CloseTun
<1>3. CASE NewSecrets
  BY <1>3 DEF NewSecrets, Goto
<1>4. CASE NewSecretsRefused
  BY <1>4 DEF NewSecretsRefused
<1>5. CASE Disconnect
  BY <1>5 DEF Disconnect, CancelInflight, TeardownTunnel, CloseTun
<1>6. CASE FailStop
  BY <1>6 DEF FailStop
<1>7. CASE \E a \in Attempts : AuthWorker(a)
  BY <1>7 DEF AuthWorker, Return
<1>8. CASE \E a \in Attempts : AuthCancelled(a)
  BY <1>8 DEF AuthCancelled, AuthReturned, TaskEnds
<1>9. CASE \E a \in Attempts : AuthError(a)
  BY <1>9 DEF AuthError, AuthReturned, TaskEnds, Emit
<1>10. CASE \E a \in Attempts : AuthContinue(a)
  BY <1>10 DEF AuthContinue, AuthReturned, GatewayKnown, TaskEnds, Emit
<1>11. CASE \E a \in Attempts : AuthDenied(a)
  BY <1>11 DEF AuthDenied, AuthReturned, GatewayKnown, TaskEnds, Emit
<1>12. CASE \E a \in Attempts : AuthDone(a)
  BY <1>12 DEF AuthDone, AuthReturned, GatewayKnown, Return
<1>13. CASE \E a \in Attempts : WorkerFails(a)
  BY <1>13 DEF WorkerFails, Abort, CloseTun, Return
<1>14. CASE \E a \in Attempts : OpenTunnel(a)
  BY <1>14 DEF OpenTunnel, Worker, Goto
<1>15. CASE \E a \in Attempts : CreateTun(a)
  BY <1>15 DEF CreateTun, Worker, Goto
<1>16. CASE \E a \in Attempts : ConfigureLink(a)
  BY <1>16 DEF ConfigureLink, Worker, Goto
<1>17. CASE \E a \in Attempts : AddBypassRoute(a)
  BY <1>17 DEF AddBypassRoute, Worker, Goto
<1>18. CASE \E a \in Attempts : SetBypassActive(a)
  BY <1>18 DEF SetBypassActive, Worker, Goto
<1>19. CASE \E a \in Attempts : SetBypassDest(a)
  BY <1>19 DEF SetBypassDest, Worker, Goto
<1>20. CASE \E a \in Attempts : AddRoutes(a)
  BY <1>20 DEF AddRoutes, Worker, Goto
<1>21. CASE \E a \in Attempts : CheckCancelled(a)
  BY <1>21 DEF CheckCancelled, Worker, Abort, CloseTun, Return
<1>22. CASE \E a \in Attempts : CheckPassed(a)
  BY <1>22 DEF CheckPassed, Worker, Goto
<1>23. CASE \E a \in Attempts : PublishTunnel(a)
  BY <1>23 DEF PublishTunnel, Worker, Goto
<1>24. CASE \E a \in Attempts : PublishFd(a)
  BY <1>24 DEF PublishFd, Worker, Return
<1>25. CASE \E a \in Attempts : TunnelCancelled(a)
  BY <1>25 DEF TunnelCancelled, TunnelReturned, TaskEnds
<1>26. CASE \E a \in Attempts : TunnelError(a)
  BY <1>26 DEF TunnelError, TunnelReturned, TaskEnds, Emit
<1>27. CASE \E a \in Attempts : FinishConnect(a)
  BY <1>27 DEF FinishConnect, TunnelReturned, TaskEnds, Emit
<1>28. CASE \E a \in Attempts : FinishConnectFails(a)
  BY <1>28 DEF FinishConnectFails, TunnelReturned, TeardownTunnel, CloseTun,
               TaskEnds, Emit
<1>29. CASE \E a \in Attempts : ReportUnexpectedThreadExit(a)
  BY <1>29 DEF ReportUnexpectedThreadExit
<1>30. CASE \E a \in Attempts : OnForwardingThreadFailed(a)
  BY <1>30 DEF OnForwardingThreadFailed, Emit
<1>31. CASE KeepaliveFails
  BY <1>31 DEF KeepaliveFails, Emit
<1>32. CASE Terminate
  BY <1>32 DEF Terminate, CancelInflight, TeardownTunnel, CloseTun
<1>33. CASE Quit
  BY <1>33 DEF Quit
<1>34. CASE ExitProcess
  BY <1>34 DEF ExitProcess, Gone, CancelInflight
<1>35. CASE Crash
  BY <1>35 DEF Crash, Gone
<1>36. CASE UNCHANGED vars
  BY <1>36 DEF vars
<1>. QED
  BY <1>1, <1>2, <1>3, <1>4, <1>5, <1>6, <1>7, <1>8, <1>9, <1>10,
     <1>11, <1>12, <1>13, <1>14, <1>15, <1>16, <1>17, <1>18, <1>19, <1>20,
     <1>21, <1>22, <1>23, <1>24, <1>25, <1>26, <1>27, <1>28, <1>29, <1>30,
     <1>31, <1>32, <1>33, <1>34, <1>35, <1>36
     DEF Next, AuthCallback, TunnelCallback, TunnelWorker

\* Every step keeps QuietInv if nobody sends secrets unasked.
LEMMA StepQuiet ==
  ASSUME ~ UnsolicitedSecrets, ControlInv, QuietInv, [Next]_vars
  PROVE  QuietInv'
<1>. USE DEF ControlInv, TypeOK, FreshInv, CurrentInv, OneLiveTask,
             AwaitingIsIdle,
           QuietInv, NoTaskInCharge
<1>1. CASE \E a \in Attempts, p \in Profiles : Connect(a, p)
  BY <1>1 DEF Connect, ResetPluginState, CancelInflight, TeardownTunnel,
              CloseTun
<1>2. CASE \E a \in Attempts, p \in Profiles : ConnectRefused(a, p)
  BY <1>2 DEF ConnectRefused, ResetPluginState, CancelInflight, TeardownTunnel,
              CloseTun
<1>3. CASE NewSecrets
  BY <1>3 DEF NewSecrets, Goto
<1>4. CASE NewSecretsRefused
  BY <1>4 DEF NewSecretsRefused
<1>5. CASE Disconnect
  BY <1>5 DEF Disconnect, CancelInflight, TeardownTunnel, CloseTun
<1>6. CASE FailStop
  BY <1>6 DEF FailStop
<1>7. CASE \E a \in Attempts : AuthWorker(a)
  BY <1>7 DEF AuthWorker, Return
<1>8. CASE \E a \in Attempts : AuthCancelled(a)
  BY <1>8 DEF AuthCancelled, AuthReturned, TaskEnds
<1>9. CASE \E a \in Attempts : AuthError(a)
  BY <1>9 DEF AuthError, AuthReturned, TaskEnds, Emit
<1>10. CASE \E a \in Attempts : AuthContinue(a)
  BY <1>10 DEF AuthContinue, AuthReturned, GatewayKnown, TaskEnds, Emit
<1>11. CASE \E a \in Attempts : AuthDenied(a)
  BY <1>11 DEF AuthDenied, AuthReturned, GatewayKnown, TaskEnds, Emit
<1>12. CASE \E a \in Attempts : AuthDone(a)
  BY <1>12 DEF AuthDone, AuthReturned, GatewayKnown, Return
<1>13. CASE \E a \in Attempts : WorkerFails(a)
  BY <1>13 DEF WorkerFails, Abort, CloseTun, Return
<1>14. CASE \E a \in Attempts : OpenTunnel(a)
  BY <1>14 DEF OpenTunnel, Worker, Goto
<1>15. CASE \E a \in Attempts : CreateTun(a)
  BY <1>15 DEF CreateTun, Worker, Goto
<1>16. CASE \E a \in Attempts : ConfigureLink(a)
  BY <1>16 DEF ConfigureLink, Worker, Goto
<1>17. CASE \E a \in Attempts : AddBypassRoute(a)
  BY <1>17 DEF AddBypassRoute, Worker, Goto
<1>18. CASE \E a \in Attempts : SetBypassActive(a)
  BY <1>18 DEF SetBypassActive, Worker, Goto
<1>19. CASE \E a \in Attempts : SetBypassDest(a)
  BY <1>19 DEF SetBypassDest, Worker, Goto
<1>20. CASE \E a \in Attempts : AddRoutes(a)
  BY <1>20 DEF AddRoutes, Worker, Goto
<1>21. CASE \E a \in Attempts : CheckCancelled(a)
  BY <1>21 DEF CheckCancelled, Worker, Abort, CloseTun, Return
<1>22. CASE \E a \in Attempts : CheckPassed(a)
  BY <1>22 DEF CheckPassed, Worker, Goto
<1>23. CASE \E a \in Attempts : PublishTunnel(a)
  BY <1>23 DEF PublishTunnel, Worker, Goto
<1>24. CASE \E a \in Attempts : PublishFd(a)
  BY <1>24 DEF PublishFd, Worker, Return
<1>25. CASE \E a \in Attempts : TunnelCancelled(a)
  BY <1>25 DEF TunnelCancelled, TunnelReturned, TaskEnds
<1>26. CASE \E a \in Attempts : TunnelError(a)
  BY <1>26 DEF TunnelError, TunnelReturned, TaskEnds, Emit
<1>27. CASE \E a \in Attempts : FinishConnect(a)
  BY <1>27 DEF FinishConnect, TunnelReturned, TaskEnds, Emit
<1>28. CASE \E a \in Attempts : FinishConnectFails(a)
  BY <1>28 DEF FinishConnectFails, TunnelReturned, TeardownTunnel, CloseTun,
               TaskEnds, Emit
<1>29. CASE \E a \in Attempts : ReportUnexpectedThreadExit(a)
  BY <1>29 DEF ReportUnexpectedThreadExit
<1>30. CASE \E a \in Attempts : OnForwardingThreadFailed(a)
  BY <1>30 DEF OnForwardingThreadFailed, Emit
<1>31. CASE KeepaliveFails
  BY <1>31 DEF KeepaliveFails, Emit
<1>32. CASE Terminate
  BY <1>32 DEF Terminate, CancelInflight, TeardownTunnel, CloseTun
<1>33. CASE Quit
  BY <1>33 DEF Quit
<1>34. CASE ExitProcess
  BY <1>34 DEF ExitProcess, Gone, CancelInflight
<1>35. CASE Crash
  BY <1>35 DEF Crash, Gone
<1>36. CASE UNCHANGED vars
  BY <1>36 DEF vars
<1>. QED
  BY <1>1, <1>2, <1>3, <1>4, <1>5, <1>6, <1>7, <1>8, <1>9, <1>10,
     <1>11, <1>12, <1>13, <1>14, <1>15, <1>16, <1>17, <1>18, <1>19, <1>20,
     <1>21, <1>22, <1>23, <1>24, <1>25, <1>26, <1>27, <1>28, <1>29, <1>30,
     <1>31, <1>32, <1>33, <1>34, <1>35, <1>36
     DEF Next, AuthCallback, TunnelCallback, TunnelWorker

\* ... and what the threads report: a teardown leaves none of them, and comes
\* with the cancellation of what they were forwarding.
LEMMA StepReports ==
  ASSUME ~ UnsolicitedSecrets, ControlInv, QuietInv, ReportInv, [Next]_vars
  PROVE  ReportInv'
<1>. USE DEF ControlInv, TypeOK, CurrentInv, OneLiveTask, AwaitingIsIdle,
             QuietInv, NoTaskInCharge, ReportInv
<1>1. CASE \E a \in Attempts, p \in Profiles : Connect(a, p)
  BY <1>1 DEF Connect, ResetPluginState, CancelInflight, TeardownTunnel,
              CloseTun
<1>2. CASE \E a \in Attempts, p \in Profiles : ConnectRefused(a, p)
  BY <1>2 DEF ConnectRefused, ResetPluginState, CancelInflight, TeardownTunnel,
              CloseTun
<1>3. CASE NewSecrets
  BY <1>3 DEF NewSecrets, Goto
<1>4. CASE NewSecretsRefused
  BY <1>4 DEF NewSecretsRefused
<1>5. CASE Disconnect
  <2>1. /\ threads' = NoThreads /\ ~keepalive_source' /\ tunnel' = NoAttempt
        /\ posted' = posted
    BY <1>5 DEF Disconnect, TeardownTunnel
  <2>2. \A a \in Attempts : a = cancellable => a \in cancelled'
    BY <1>5 DEF Disconnect, CancelInflight
  <2>3. cancelled \subseteq cancelled'
    BY <1>5 DEF Disconnect, CancelInflight
  <2>4. Running
    BY <1>5 DEF Disconnect
  <2>5. \A a \in posted : a \in cancelled'
    BY <2>2, <2>3, <2>4
  <2>. QED
    BY <2>1, <2>5
<1>6. CASE FailStop
  BY <1>6 DEF FailStop
<1>7. CASE \E a \in Attempts : AuthWorker(a)
  BY <1>7 DEF AuthWorker, Return
<1>8. CASE \E a \in Attempts : AuthCancelled(a)
  BY <1>8 DEF AuthCancelled, AuthReturned, TaskEnds
<1>9. CASE \E a \in Attempts : AuthError(a)
  BY <1>9 DEF AuthError, AuthReturned, TaskEnds, Emit
<1>10. CASE \E a \in Attempts : AuthContinue(a)
  BY <1>10 DEF AuthContinue, AuthReturned, GatewayKnown, TaskEnds, Emit
<1>11. CASE \E a \in Attempts : AuthDenied(a)
  BY <1>11 DEF AuthDenied, AuthReturned, GatewayKnown, TaskEnds, Emit
<1>12. CASE \E a \in Attempts : AuthDone(a)
  BY <1>12 DEF AuthDone, AuthReturned, GatewayKnown, Return
<1>13. CASE \E a \in Attempts : WorkerFails(a)
  BY <1>13 DEF WorkerFails, Abort, CloseTun, Return
<1>14. CASE \E a \in Attempts : OpenTunnel(a)
  BY <1>14 DEF OpenTunnel, Worker, Goto
<1>15. CASE \E a \in Attempts : CreateTun(a)
  BY <1>15 DEF CreateTun, Worker, Goto
<1>16. CASE \E a \in Attempts : ConfigureLink(a)
  BY <1>16 DEF ConfigureLink, Worker, Goto
<1>17. CASE \E a \in Attempts : AddBypassRoute(a)
  BY <1>17 DEF AddBypassRoute, Worker, Goto
<1>18. CASE \E a \in Attempts : SetBypassActive(a)
  BY <1>18 DEF SetBypassActive, Worker, Goto
<1>19. CASE \E a \in Attempts : SetBypassDest(a)
  BY <1>19 DEF SetBypassDest, Worker, Goto
<1>20. CASE \E a \in Attempts : AddRoutes(a)
  BY <1>20 DEF AddRoutes, Worker, Goto
<1>21. CASE \E a \in Attempts : CheckCancelled(a)
  BY <1>21 DEF CheckCancelled, Worker, Abort, CloseTun, Return
<1>22. CASE \E a \in Attempts : CheckPassed(a)
  BY <1>22 DEF CheckPassed, Worker, Goto
<1>23. CASE \E a \in Attempts : PublishTunnel(a)
  BY <1>23 DEF PublishTunnel, Worker, Goto
<1>24. CASE \E a \in Attempts : PublishFd(a)
  BY <1>24 DEF PublishFd, Worker, Return
<1>25. CASE \E a \in Attempts : TunnelCancelled(a)
  BY <1>25 DEF TunnelCancelled, TunnelReturned, TaskEnds
<1>26. CASE \E a \in Attempts : TunnelError(a)
  BY <1>26 DEF TunnelError, TunnelReturned, TaskEnds, Emit
<1>27. CASE \E a \in Attempts : FinishConnect(a)
  BY <1>27 DEF FinishConnect, TunnelReturned, TaskEnds, Emit
<1>28. CASE \E a \in Attempts : FinishConnectFails(a)
  BY <1>28 DEF FinishConnectFails, TunnelReturned, TeardownTunnel, CloseTun,
               TaskEnds, Emit
<1>29. CASE \E a \in Attempts : ReportUnexpectedThreadExit(a)
  <2>. PICK a \in Attempts : ReportUnexpectedThreadExit(a)
    BY <1>29
  <2>. USE DEF ReportUnexpectedThreadExit
  <2>1. threads # NoThreads
    OBVIOUS
  <2>2. posted' = posted \cup {a}
    OBVIOUS
  <2>3. Running => nm = "started" /\ (a \in cancelled \/ a = cancellable)
    BY <2>1
  <2>. QED
    BY <2>2, <2>3
<1>30. CASE \E a \in Attempts : OnForwardingThreadFailed(a)
  BY <1>30 DEF OnForwardingThreadFailed, Emit
<1>31. CASE KeepaliveFails
  BY <1>31 DEF KeepaliveFails, Emit
<1>32. CASE Terminate
  BY <1>32 DEF Terminate, CancelInflight, TeardownTunnel, CloseTun
<1>33. CASE Quit
  BY <1>33 DEF Quit
<1>34. CASE ExitProcess
  BY <1>34 DEF ExitProcess, Gone, CancelInflight
<1>35. CASE Crash
  BY <1>35 DEF Crash, Gone
<1>36. CASE UNCHANGED vars
  BY <1>36 DEF vars
<1>. QED
  BY <1>1, <1>2, <1>3, <1>4, <1>5, <1>6, <1>7, <1>8, <1>9, <1>10,
     <1>11, <1>12, <1>13, <1>14, <1>15, <1>16, <1>17, <1>18, <1>19, <1>20,
     <1>21, <1>22, <1>23, <1>24, <1>25, <1>26, <1>27, <1>28, <1>29, <1>30,
     <1>31, <1>32, <1>33, <1>34, <1>35, <1>36
     DEF Next, AuthCallback, TunnelCallback, TunnelWorker

\* ... and then no step of a stopped service says anything but a late report.
LEMMA StepSilence ==
  ASSUME ~ UnsolicitedSecrets, ControlInv, QuietInv, ReportInv,
         Running, nm = "stopped", [Next]_vars
  PROVE  /\ nm' # "started"
         /\ emitted' \subseteq emitted \/ nm' = "starting" \/ LateReport
<1>. USE DEF ControlInv, TypeOK, CurrentInv, QuietInv, NoTaskInCharge, ReportInv
<1>1. CASE \E a \in Attempts, p \in Profiles : Connect(a, p)
  BY <1>1 DEF Connect, ResetPluginState, CancelInflight, TeardownTunnel,
              CloseTun
<1>2. CASE \E a \in Attempts, p \in Profiles : ConnectRefused(a, p)
  BY <1>2 DEF ConnectRefused, ResetPluginState, CancelInflight, TeardownTunnel,
              CloseTun
<1>3. CASE NewSecrets
  BY <1>3 DEF NewSecrets, Goto
<1>4. CASE NewSecretsRefused
  BY <1>4 DEF NewSecretsRefused
<1>5. CASE Disconnect
  BY <1>5 DEF Disconnect, CancelInflight, TeardownTunnel, CloseTun
<1>6. CASE FailStop
  BY <1>6 DEF FailStop
<1>7. CASE \E a \in Attempts : AuthWorker(a)
  BY <1>7 DEF AuthWorker, Return
<1>8. CASE \E a \in Attempts : AuthCancelled(a)
  BY <1>8 DEF AuthCancelled, AuthReturned, TaskEnds
<1>9. CASE \E a \in Attempts : AuthError(a)
  BY <1>9 DEF AuthError, AuthReturned, TaskEnds, Emit
<1>10. CASE \E a \in Attempts : AuthContinue(a)
  BY <1>10 DEF AuthContinue, AuthReturned, GatewayKnown, TaskEnds, Emit
<1>11. CASE \E a \in Attempts : AuthDenied(a)
  BY <1>11 DEF AuthDenied, AuthReturned, GatewayKnown, TaskEnds, Emit
<1>12. CASE \E a \in Attempts : AuthDone(a)
  BY <1>12 DEF AuthDone, AuthReturned, GatewayKnown, Return
<1>13. CASE \E a \in Attempts : WorkerFails(a)
  BY <1>13 DEF WorkerFails, Abort, CloseTun, Return
<1>14. CASE \E a \in Attempts : OpenTunnel(a)
  BY <1>14 DEF OpenTunnel, Worker, Goto
<1>15. CASE \E a \in Attempts : CreateTun(a)
  BY <1>15 DEF CreateTun, Worker, Goto
<1>16. CASE \E a \in Attempts : ConfigureLink(a)
  BY <1>16 DEF ConfigureLink, Worker, Goto
<1>17. CASE \E a \in Attempts : AddBypassRoute(a)
  BY <1>17 DEF AddBypassRoute, Worker, Goto
<1>18. CASE \E a \in Attempts : SetBypassActive(a)
  BY <1>18 DEF SetBypassActive, Worker, Goto
<1>19. CASE \E a \in Attempts : SetBypassDest(a)
  BY <1>19 DEF SetBypassDest, Worker, Goto
<1>20. CASE \E a \in Attempts : AddRoutes(a)
  BY <1>20 DEF AddRoutes, Worker, Goto
<1>21. CASE \E a \in Attempts : CheckCancelled(a)
  BY <1>21 DEF CheckCancelled, Worker, Abort, CloseTun, Return
<1>22. CASE \E a \in Attempts : CheckPassed(a)
  BY <1>22 DEF CheckPassed, Worker, Goto
<1>23. CASE \E a \in Attempts : PublishTunnel(a)
  BY <1>23 DEF PublishTunnel, Worker, Goto
<1>24. CASE \E a \in Attempts : PublishFd(a)
  BY <1>24 DEF PublishFd, Worker, Return
<1>25. CASE \E a \in Attempts : TunnelCancelled(a)
  BY <1>25 DEF TunnelCancelled, TunnelReturned, TaskEnds
<1>26. CASE \E a \in Attempts : TunnelError(a)
  BY <1>26 DEF TunnelError, TunnelReturned, TaskEnds, Emit
<1>27. CASE \E a \in Attempts : FinishConnect(a)
  BY <1>27 DEF FinishConnect, TunnelReturned, TaskEnds, Emit
<1>28. CASE \E a \in Attempts : FinishConnectFails(a)
  BY <1>28 DEF FinishConnectFails, TunnelReturned, TeardownTunnel, CloseTun,
               TaskEnds, Emit
<1>29. CASE \E a \in Attempts : ReportUnexpectedThreadExit(a)
  BY <1>29 DEF ReportUnexpectedThreadExit
<1>30. CASE \E a \in Attempts : OnForwardingThreadFailed(a)
  BY <1>30 DEF OnForwardingThreadFailed, Emit, LateReport
<1>31. CASE KeepaliveFails
  BY <1>31 DEF KeepaliveFails, Emit
<1>32. CASE Terminate
  BY <1>32 DEF Terminate, CancelInflight, TeardownTunnel, CloseTun
<1>33. CASE Quit
  BY <1>33 DEF Quit
<1>34. CASE ExitProcess
  BY <1>34 DEF ExitProcess, Gone, CancelInflight
<1>35. CASE Crash
  BY <1>35 DEF Crash, Gone
<1>36. CASE UNCHANGED vars
  BY <1>36 DEF vars
<1>. QED
  BY <1>1, <1>2, <1>3, <1>4, <1>5, <1>6, <1>7, <1>8, <1>9, <1>10,
     <1>11, <1>12, <1>13, <1>14, <1>15, <1>16, <1>17, <1>18, <1>19, <1>20,
     <1>21, <1>22, <1>23, <1>24, <1>25, <1>26, <1>27, <1>28, <1>29, <1>30,
     <1>31, <1>32, <1>33, <1>34, <1>35, <1>36
     DEF Next, AuthCallback, TunnelCallback, TunnelWorker

\* Every step keeps who owns what is open: two workers never hold a device at
\* once, nor one next to a published device.
LEMMA StepDevice ==
  ASSUME OneInterfaceName, ControlInv, TunnelInv, [Next]_vars
  PROVE  (OneDevice /\ HeldInv /\ PublishedInv /\ LeakInv)'
<1>. USE DEF ControlInv, TypeOK, FreshInv, CurrentInv, OneLiveTask,
             AwaitingIsIdle,
           TunnelInv, OneDevice, HeldInv, PublishedInv, AwaitingInv,
           WorkerHoldsSsl, WorkerHoldsTun, HoldsTun,
           ProgressInv, Succeeded, LeakInv, OneInterfaceName, Names
<1>1. CASE \E a \in Attempts, p \in Profiles : Connect(a, p)
  BY <1>1 DEF Connect, ResetPluginState, CancelInflight, TeardownTunnel,
              CloseTun
<1>2. CASE \E a \in Attempts, p \in Profiles : ConnectRefused(a, p)
  BY <1>2 DEF ConnectRefused, ResetPluginState, CancelInflight, TeardownTunnel,
              CloseTun
<1>3. CASE NewSecrets
  BY <1>3 DEF NewSecrets, Goto
<1>4. CASE NewSecretsRefused
  BY <1>4 DEF NewSecretsRefused
<1>5. CASE Disconnect
  BY <1>5 DEF Disconnect, CancelInflight, TeardownTunnel, CloseTun
<1>6. CASE FailStop
  BY <1>6 DEF FailStop
<1>7. CASE \E a \in Attempts : AuthWorker(a)
  BY <1>7 DEF AuthWorker, Return
<1>8. CASE \E a \in Attempts : AuthCancelled(a)
  BY <1>8 DEF AuthCancelled, AuthReturned, TaskEnds
<1>9. CASE \E a \in Attempts : AuthError(a)
  BY <1>9 DEF AuthError, AuthReturned, TaskEnds, Emit
<1>10. CASE \E a \in Attempts : AuthContinue(a)
  BY <1>10 DEF AuthContinue, AuthReturned, GatewayKnown, TaskEnds, Emit
<1>11. CASE \E a \in Attempts : AuthDenied(a)
  BY <1>11 DEF AuthDenied, AuthReturned, GatewayKnown, TaskEnds, Emit
<1>12. CASE \E a \in Attempts : AuthDone(a)
  BY <1>12 DEF AuthDone, AuthReturned, GatewayKnown, Return
<1>13. CASE \E a \in Attempts : WorkerFails(a)
  BY <1>13 DEF WorkerFails, Abort, CloseTun, Return
<1>14. CASE \E a \in Attempts : OpenTunnel(a)
  BY <1>14 DEF OpenTunnel, Worker, Goto
<1>15. CASE \E a \in Attempts : CreateTun(a)
  BY <1>15 DEF CreateTun, Worker, Goto
<1>16. CASE \E a \in Attempts : ConfigureLink(a)
  BY <1>16 DEF ConfigureLink, Worker, Goto
<1>17. CASE \E a \in Attempts : AddBypassRoute(a)
  BY <1>17 DEF AddBypassRoute, Worker, Goto
<1>18. CASE \E a \in Attempts : SetBypassActive(a)
  BY <1>18 DEF SetBypassActive, Worker, Goto
<1>19. CASE \E a \in Attempts : SetBypassDest(a)
  BY <1>19 DEF SetBypassDest, Worker, Goto
<1>20. CASE \E a \in Attempts : AddRoutes(a)
  BY <1>20 DEF AddRoutes, Worker, Goto
<1>21. CASE \E a \in Attempts : CheckCancelled(a)
  BY <1>21 DEF CheckCancelled, Worker, Abort, CloseTun, Return
<1>22. CASE \E a \in Attempts : CheckPassed(a)
  BY <1>22 DEF CheckPassed, Worker, Goto
<1>23. CASE \E a \in Attempts : PublishTunnel(a)
  BY <1>23 DEF PublishTunnel, Worker, Goto
<1>24. CASE \E a \in Attempts : PublishFd(a)
  BY <1>24 DEF PublishFd, Worker, Return
<1>25. CASE \E a \in Attempts : TunnelCancelled(a)
  BY <1>25 DEF TunnelCancelled, TunnelReturned, TaskEnds
<1>26. CASE \E a \in Attempts : TunnelError(a)
  BY <1>26 DEF TunnelError, TunnelReturned, TaskEnds, Emit
<1>27. CASE \E a \in Attempts : FinishConnect(a)
  BY <1>27 DEF FinishConnect, TunnelReturned, TaskEnds, Emit
<1>28. CASE \E a \in Attempts : FinishConnectFails(a)
  BY <1>28 DEF FinishConnectFails, TunnelReturned, TeardownTunnel, CloseTun,
               TaskEnds, Emit
<1>29. CASE \E a \in Attempts : ReportUnexpectedThreadExit(a)
  BY <1>29 DEF ReportUnexpectedThreadExit
<1>30. CASE \E a \in Attempts : OnForwardingThreadFailed(a)
  BY <1>30 DEF OnForwardingThreadFailed, Emit
<1>31. CASE KeepaliveFails
  BY <1>31 DEF KeepaliveFails, Emit
<1>32. CASE Terminate
  BY <1>32 DEF Terminate, CancelInflight, TeardownTunnel, CloseTun
<1>33. CASE Quit
  BY <1>33 DEF Quit
<1>34. CASE ExitProcess
  BY <1>34 DEF ExitProcess, Gone, CancelInflight
<1>35. CASE Crash
  BY <1>35 DEF Crash, Gone
<1>36. CASE UNCHANGED vars
  BY <1>36 DEF vars
<1>. QED
  BY <1>1, <1>2, <1>3, <1>4, <1>5, <1>6, <1>7, <1>8, <1>9, <1>10,
     <1>11, <1>12, <1>13, <1>14, <1>15, <1>16, <1>17, <1>18, <1>19, <1>20,
     <1>21, <1>22, <1>23, <1>24, <1>25, <1>26, <1>27, <1>28, <1>29, <1>30,
     <1>31, <1>32, <1>33, <1>34, <1>35, <1>36
     DEF Next, AuthCallback, TunnelCallback, TunnelWorker

\* Every step keeps what the attempt in charge has achieved, since the worker
\* of a cancelled attempt has no device to publish meanwhile.
LEMMA StepProgress ==
  ASSUME OneInterfaceName, ControlInv, TunnelInv, [Next]_vars
  PROVE  (ProgressInv /\ BypassInv /\ AwaitingInv /\ StartedInv)'
<1>. USE DEF ControlInv, TypeOK, FreshInv, CurrentInv, OneLiveTask,
             AwaitingIsIdle,
           TunnelInv, OneDevice, HeldInv, PublishedInv, AwaitingInv,
           WorkerHoldsSsl, WorkerHoldsTun, HoldsTun,
           ProgressInv, Succeeded, TunnelPC, BypassInv, StartedInv
<1>1. CASE \E a \in Attempts, p \in Profiles : Connect(a, p)
  BY <1>1 DEF Connect, ResetPluginState, CancelInflight, TeardownTunnel,
              CloseTun
<1>2. CASE \E a \in Attempts, p \in Profiles : ConnectRefused(a, p)
  BY <1>2 DEF ConnectRefused, ResetPluginState, CancelInflight, TeardownTunnel,
              CloseTun
<1>3. CASE NewSecrets
  BY <1>3 DEF NewSecrets, Goto
<1>4. CASE NewSecretsRefused
  BY <1>4 DEF NewSecretsRefused
<1>5. CASE Disconnect
  BY <1>5 DEF Disconnect, CancelInflight, TeardownTunnel, CloseTun
<1>6. CASE FailStop
  BY <1>6 DEF FailStop
<1>7. CASE \E a \in Attempts : AuthWorker(a)
  BY <1>7 DEF AuthWorker, Return
<1>8. CASE \E a \in Attempts : AuthCancelled(a)
  BY <1>8 DEF AuthCancelled, AuthReturned, TaskEnds
<1>9. CASE \E a \in Attempts : AuthError(a)
  BY <1>9 DEF AuthError, AuthReturned, TaskEnds, Emit
<1>10. CASE \E a \in Attempts : AuthContinue(a)
  BY <1>10 DEF AuthContinue, AuthReturned, GatewayKnown, TaskEnds, Emit
<1>11. CASE \E a \in Attempts : AuthDenied(a)
  BY <1>11 DEF AuthDenied, AuthReturned, GatewayKnown, TaskEnds, Emit
<1>12. CASE \E a \in Attempts : AuthDone(a)
  BY <1>12 DEF AuthDone, AuthReturned, GatewayKnown, Return
<1>13. CASE \E a \in Attempts : WorkerFails(a)
  BY <1>13 DEF WorkerFails, Abort, CloseTun, Return
<1>14. CASE \E a \in Attempts : OpenTunnel(a)
  BY <1>14 DEF OpenTunnel, Worker, Goto
<1>15. CASE \E a \in Attempts : CreateTun(a)
  BY <1>15 DEF CreateTun, Worker, Goto
<1>16. CASE \E a \in Attempts : ConfigureLink(a)
  BY <1>16 DEF ConfigureLink, Worker, Goto
<1>17. CASE \E a \in Attempts : AddBypassRoute(a)
  BY <1>17 DEF AddBypassRoute, Worker, Goto
<1>18. CASE \E a \in Attempts : SetBypassActive(a)
  BY <1>18 DEF SetBypassActive, Worker, Goto
<1>19. CASE \E a \in Attempts : SetBypassDest(a)
  BY <1>19 DEF SetBypassDest, Worker, Goto
<1>20. CASE \E a \in Attempts : AddRoutes(a)
  BY <1>20 DEF AddRoutes, Worker, Goto
<1>21. CASE \E a \in Attempts : CheckCancelled(a)
  BY <1>21 DEF CheckCancelled, Worker, Abort, CloseTun, Return
<1>22. CASE \E a \in Attempts : CheckPassed(a)
  BY <1>22 DEF CheckPassed, Worker, Goto
<1>23. CASE \E a \in Attempts : PublishTunnel(a)
  BY <1>23 DEF PublishTunnel, Worker, Goto
<1>24. CASE \E a \in Attempts : PublishFd(a)
  BY <1>24 DEF PublishFd, Worker, Return
<1>25. CASE \E a \in Attempts : TunnelCancelled(a)
  BY <1>25 DEF TunnelCancelled, TunnelReturned, TaskEnds
<1>26. CASE \E a \in Attempts : TunnelError(a)
  BY <1>26 DEF TunnelError, TunnelReturned, TaskEnds, Emit
<1>27. CASE \E a \in Attempts : FinishConnect(a)
  BY <1>27 DEF FinishConnect, TunnelReturned, TaskEnds, Emit
<1>28. CASE \E a \in Attempts : FinishConnectFails(a)
  BY <1>28 DEF FinishConnectFails, TunnelReturned, TeardownTunnel, CloseTun,
               TaskEnds, Emit
<1>29. CASE \E a \in Attempts : ReportUnexpectedThreadExit(a)
  BY <1>29 DEF ReportUnexpectedThreadExit
<1>30. CASE \E a \in Attempts : OnForwardingThreadFailed(a)
  BY <1>30 DEF OnForwardingThreadFailed, Emit
<1>31. CASE KeepaliveFails
  BY <1>31 DEF KeepaliveFails, Emit
<1>32. CASE Terminate
  BY <1>32 DEF Terminate, CancelInflight, TeardownTunnel, CloseTun
<1>33. CASE Quit
  BY <1>33 DEF Quit
<1>34. CASE ExitProcess
  BY <1>34 DEF ExitProcess, Gone, CancelInflight
<1>35. CASE Crash
  BY <1>35 DEF Crash, Gone
<1>36. CASE UNCHANGED vars
  BY <1>36 DEF vars
<1>. QED
  BY <1>1, <1>2, <1>3, <1>4, <1>5, <1>6, <1>7, <1>8, <1>9, <1>10,
     <1>11, <1>12, <1>13, <1>14, <1>15, <1>16, <1>17, <1>18, <1>19, <1>20,
     <1>21, <1>22, <1>23, <1>24, <1>25, <1>26, <1>27, <1>28, <1>29, <1>30,
     <1>31, <1>32, <1>33, <1>34, <1>35, <1>36
     DEF Next, AuthCallback, TunnelCallback, TunnelWorker

-----------------------------------------------------------------------------
\* ControlInv is inductive.
THEOREM ControlIsInductive == Spec => []ControlInv
<1>1. Init => ControlInv
  <2>. SUFFICES ASSUME Init
                PROVE  ControlInv
    OBVIOUS
  <2>1. /\ fail_stop \in BOOLEAN /\ asked \in BOOLEAN
        /\ awaiting_challenge \in BOOLEAN /\ bypass_route_active \in BOOLEAN
    BY Zenon DEF Init
  <2>2. TypeOK
    BY <2>1 DEF Init, TypeOK, TaskPC, Results, Signals
  <2>3. FreshInv /\ CurrentInv /\ OneLiveTask /\ AwaitingIsIdle
    BY DEF Init, FreshInv, CurrentInv, OneLiveTask, AwaitingIsIdle
  <2>. QED
    BY <2>2, <2>3 DEF ControlInv
<1>2. ASSUME ControlInv, [Next]_vars
      PROVE  ControlInv'
  BY <1>2, StepTypeOK, StepControl DEF ControlInv
<1>. QED
  BY <1>1, <1>2, PTL DEF Spec

\* The fields of SnxVpnPlugin, the tasks and the kernel keep their types.
THEOREM TypeCorrect == Spec => []TypeOK
<1>1. ControlInv => TypeOK
  BY DEF ControlInv
<1>. QED
  BY <1>1, ControlIsInductive, PTL

\* cancel_inflight_task() leaves at most one task in charge, that of the
\* current cancellable.
THEOREM OneTaskIsInCharge == Spec => []OneLiveTask
<1>1. ControlInv => OneLiveTask
  BY DEF ControlInv
<1>. QED
  BY <1>1, ControlIsInductive, PTL

\* snx_vpn_new_secrets() starts a challenge only for the current attempt's
\* session, and never next to a task in flight.
THEOREM CodesGoToTheirSession == Spec => []AwaitingIsIdle
<1>1. ControlInv => AwaitingIsIdle
  BY DEF ControlInv
<1>. QED
  BY <1>1, ControlIsInductive, PTL

\* If secrets come only when asked for, a service that reported STOPPED leaves
\* that state by Connect() only, and says nothing more but what a forwarding
\* thread had reported before snx_vpn_disconnect() cancelled its connection.
THEOREM StoppedStaysStopped ==
  ASSUME ~ UnsolicitedSecrets
  PROVE  Spec => StoppedOnlyReportsLate
<1>1. Init => QuietInv /\ ReportInv
  BY DEF Init, QuietInv, NoTaskInCharge, ReportInv
<1>2. ASSUME ControlInv, QuietInv, ReportInv, [Next]_vars
      PROVE  QuietInv' /\ ReportInv'
  BY <1>2, StepQuiet, StepReports
<1>3. ASSUME ControlInv, QuietInv, ReportInv, [Next]_vars
      PROVE  [Running /\ nm = "stopped" =>
                /\ nm' # "started"
                /\ emitted' \subseteq emitted \/ nm' = "starting" \/ LateReport]_vars
  BY <1>3, StepSilence
<1>. QED
  BY <1>1, <1>2, <1>3, ControlIsInductive, PTL DEF Spec, StoppedOnlyReportsLate

\* With one interface name, TunnelInv is inductive given ControlInv.
LEMMA TunnelIsInductive ==
  ASSUME OneInterfaceName
  PROVE  Spec => [](ControlInv /\ TunnelInv)
<1>1. Init => TunnelInv
  BY DEF Init, TunnelInv, OneDevice, HeldInv, PublishedInv, LeakInv,
         ProgressInv, BypassInv, AwaitingInv, StartedInv, Succeeded,
         WorkerHoldsSsl, WorkerHoldsTun, HoldsTun, TunnelPC
<1>2. ASSUME ControlInv, TunnelInv, [Next]_vars
      PROVE  TunnelInv'
  BY <1>2, StepDevice, StepProgress DEF TunnelInv
<1>. QED
  BY <1>1, <1>2, ControlIsInductive, PTL DEF Spec

\* A connection that finish_connect() announced runs on its own tunnel, device
\* and configuration.
THEOREM TunnelsAreOwned ==
  ASSUME OneInterfaceName
  PROVE  Spec => []StartedOwnsItsTunnel
<1>1. ControlInv /\ TunnelInv => StartedOwnsItsTunnel
  BY DEF ControlInv, TypeOK, CurrentInv, TunnelInv, PublishedInv, StartedInv,
         StartedOwnsItsTunnel
<1>. QED
  BY <1>1, TunnelIsInductive, PTL

\* A connection that routes everything through the tunnel has its bypass route.
THEOREM BypassRoutesAreThere ==
  ASSUME OneInterfaceName
  PROVE  Spec => []StartedHasBypassRoute
<1>1. TunnelInv => StartedHasBypassRoute
  BY DEF TunnelInv, StartedInv, StartedHasBypassRoute
<1>. QED
  BY <1>1, TunnelIsInductive, PTL

\* teardown_tunnel() never waits for a thread on another tunnel.
THEOREM JoinsAreReached ==
  ASSUME OneInterfaceName
  PROVE  Spec => []TeardownReachesThreads
<1>1. TunnelInv => TeardownReachesThreads
  BY DEF TunnelInv, PublishedInv, TeardownReachesThreads
<1>. QED
  BY <1>1, TunnelIsInductive, PTL

\* Whatever is open has an owner that will close it.
THEOREM EverythingHasAnOwner ==
  ASSUME OneInterfaceName
  PROVE  Spec => []NothingLeaks
<1>1. TunnelInv => NothingLeaks
  BY DEF TunnelInv, LeakInv, NothingLeaks
<1>. QED
  BY <1>1, TunnelIsInductive, PTL

=============================================================================
