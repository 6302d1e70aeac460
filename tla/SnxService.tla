------------------------------ MODULE SnxService ------------------------------
(***************************************************************************)
(* The life of a connection attempt in the SNX service process             *)
(* (src/nm-snx-service.c): the D-Bus operations of the NMVpnServicePlugin  *)
(* base class, the callbacks of the main loop, and the GTask worker        *)
(* threads that authenticate, open the tunnel and configure the interface  *)
(* while the main loop goes on serving requests.                           *)
(*                                                                         *)
(* Main-loop callbacks exclude each other and are single actions.  The     *)
(* workers share the fields of SnxVpnPlugin with them without a lock, so   *)
(* every access of a worker to such a field, and every change it makes in  *)
(* the kernel, is an action of its own.                                    *)
(*                                                                         *)
(* An attempt is one Connect(); it names the cancellable of that Connect() *)
(* and everything made under it: its task, its SSL tunnel, its TUN device. *)
(* A profile stands for its configuration and for the address of its       *)
(* gateway.  What the forwarding threads do is module SnxForwarding.       *)
(***************************************************************************)
EXTENDS Naturals

CONSTANTS
  Attempts,            \* bound: the Connect() calls of one behaviour
  Profiles,            \* the connection profiles
  IfName,              \* if_name of each profile ("snx-tun" unless set)
  DefaultRoute,        \* default_route of each profile
  UnsolicitedSecrets,  \* may a client call NewSecrets() without being asked?
  NoAttempt, NoProfile, NoName

ASSUME ServiceConstants ==
  /\ NoAttempt \notin Attempts /\ NoProfile \notin Profiles
  /\ DOMAIN IfName = Profiles
  /\ DefaultRoute \in [Profiles -> BOOLEAN]
  /\ UnsolicitedSecrets \in BOOLEAN
  /\ \A p \in Profiles : IfName[p] # NoName

Names == {IfName[p] : p \in Profiles}

VARIABLES
  process,             \* "running", "quitting" (the main loop has ended), "exited"
  posted,              \* attempts with a queued on_forwarding_thread_failed()
  (* The base class in libnm, and NetworkManager. *)
  nm,                  \* the service state; INIT counts as "stopped"
  fail_stop,           \* is the idle callback that sets STOPPED pending?
  asked,               \* a SecretsRequired is unanswered
  emitted,             \* signals since the last change to STARTING or STOPPED
  (* SnxVpnPlugin. *)
  cancellable, config, gateway_ip, ccc_session_id, awaiting_challenge,
  tunnel, tun_fd,
  threads,             \* what the forwarding threads captured: <<tunnel, fd>>
  keepalive_source,    \* is there a timer for on_keepalive_tick()?
  unexpected_exit_reported,
  bypass_route_active, bypass_route_dest,
  (* The tasks. *)
  cancelled,           \* attempts whose cancellable was cancelled
  profile,             \* the profile of each attempt made so far
  task, result,        \* per attempt: where its task is, what it returned
  bypass_dest,         \* configure_interface()'s gateway_addr_be
  (* The kernel. *)
  ssl_open,            \* attempts with an open connection to the gateway
  tun_open,            \* per attempt: the name of its open TUN device
  bypass_routes        \* gateways with a bypass route on the physical link

loopVars   == <<process, posted>>
nmVars     == <<nm, fail_stop, asked, emitted>>
stateVars  == <<config, gateway_ip, ccc_session_id, awaiting_challenge>>
forwardVars == <<threads, keepalive_source, unexpected_exit_reported>>
tunnelVars == <<tunnel, tun_fd, forwardVars>>
bypassVars == <<bypass_route_active, bypass_route_dest>>
taskVars   == <<profile, task, result, bypass_dest>>
kernelVars == <<ssl_open, tun_open, bypass_routes>>
vars == <<loopVars, nmVars, cancellable, cancelled, stateVars, tunnelVars,
          bypassVars, taskVars, kernelVars>>

OptAttempts == Attempts \cup {NoAttempt}
OptProfiles == Profiles \cup {NoProfile}
NoThreads   == <<NoAttempt, NoAttempt>>

\* auth_thread_func() and the queued on_auth_done(), for the login and for the
\* challenge; tunnel_thread_func() and the queued on_tunnel_done().
AuthPC   == {"auth", "auth_back", "challenge", "challenge_back"}
HoldsTun == {"link", "bypass", "active", "dest", "routes", "check", "publish",
             "publish_fd"}
TunnelPC == {"ssl", "tun", "tunnel_back"} \cup HoldsTun
TaskPC   == {"none"} \cup AuthPC \cup TunnelPC
Results  == {"none", "error", "continue", "denied", "done", "ok"}
\* "late" is a Failure that is about an attempt no longer current; on D-Bus they
\* are alike.
Signals  == {"failure", "late", "secrets", "config"}

\* The fields of SnxVpnPlugin and the kernel's tables have these shapes.
TypeOK ==
  /\ process \in {"running", "quitting", "exited"}
  /\ posted \subseteq Attempts
  /\ nm \in {"stopped", "starting", "started"}
  /\ fail_stop \in BOOLEAN
  /\ asked \in BOOLEAN
  /\ emitted \subseteq Signals
  /\ cancellable \in OptAttempts
  /\ config \in OptProfiles
  /\ gateway_ip \in OptProfiles
  /\ ccc_session_id \in OptAttempts
  /\ awaiting_challenge \in BOOLEAN
  /\ tunnel \in OptAttempts
  /\ tun_fd \in OptAttempts
  /\ threads \in OptAttempts \X OptAttempts
  /\ keepalive_source \in BOOLEAN
  /\ unexpected_exit_reported \in BOOLEAN
  /\ bypass_route_active \in BOOLEAN
  /\ bypass_route_dest \in OptProfiles
  /\ cancelled \subseteq Attempts
  /\ profile \in [Attempts -> OptProfiles]
  /\ task \in [Attempts -> TaskPC]
  /\ result \in [Attempts -> Results]
  /\ bypass_dest \in [Attempts -> OptProfiles]
  /\ ssl_open \subseteq Attempts
  /\ tun_open \in [Attempts -> Names \cup {NoName}]
  /\ bypass_routes \subseteq Profiles

Init ==
  /\ process = "running" /\ posted = {}
  /\ nm = "stopped" /\ fail_stop = FALSE /\ asked = FALSE /\ emitted = {}
  /\ cancellable = NoAttempt
  /\ config = NoProfile /\ gateway_ip = NoProfile
  /\ ccc_session_id = NoAttempt /\ awaiting_challenge = FALSE
  /\ tunnel = NoAttempt /\ tun_fd = NoAttempt /\ threads = NoThreads
  /\ keepalive_source = FALSE /\ unexpected_exit_reported = FALSE
  /\ bypass_route_active = FALSE /\ bypass_route_dest = NoProfile
  /\ cancelled = {}
  /\ profile = [a \in Attempts |-> NoProfile]
  /\ task = [a \in Attempts |-> "none"]
  /\ result = [a \in Attempts |-> "none"]
  /\ bypass_dest = [a \in Attempts |-> NoProfile]
  /\ ssl_open = {} /\ bypass_routes = {}
  /\ tun_open = [a \in Attempts |-> NoName]

-----------------------------------------------------------------------------
(***************************************************************************)
(* What the callbacks are made of.                                         *)
(***************************************************************************)

Emit(signal) == emitted' = emitted \cup {signal}

\* Mutant of CancelInflight: the cancellable is only dropped.
CancelInflightDropsOnly(c) ==
  /\ UNCHANGED cancelled
  /\ cancellable' = c

\* cancel_inflight_task(), leaving c as the new self->cancellable.
CancelInflight(c) ==
  /\ cancelled' = cancelled \cup ({cancellable} \ {NoAttempt})
  /\ cancellable' = c

CloseTun(a) ==
  tun_open' = [b \in Attempts |-> IF b = a THEN NoName ELSE tun_open[b]]

\* The bypass route that is on record is deleted, or that fails (it may be gone
\* already): a warning, and nobody remembers it.
DeleteBypassRoute ==
  /\ bypass_routes' \in IF bypass_route_active
                        THEN {bypass_routes, bypass_routes \ {bypass_route_dest}}
                        ELSE {bypass_routes}
  /\ bypass_route_active' = FALSE
  /\ UNCHANGED bypass_route_dest

\* Mutant of TeardownTunnel: the threads are neither joined nor forgotten.
TeardownTunnelUnjoined ==
  /\ DeleteBypassRoute
  /\ ssl_open' = ssl_open \ {tunnel}
  /\ CloseTun(tun_fd)
  /\ tunnel' = NoAttempt /\ tun_fd' = NoAttempt
  /\ UNCHANGED forwardVars

\* teardown_tunnel(): the bypass route, the timer, the connection and the
\* device that are published; not a report that a thread has posted.  It joins
\* the threads, which return once the connection they captured is shut down; if
\* that is not the published one the main loop hangs.
TeardownTunnel ==
  /\ threads # NoThreads => threads[1] = tunnel
  /\ DeleteBypassRoute
  /\ keepalive_source' = FALSE
  /\ ssl_open' = ssl_open \ {tunnel}
  /\ CloseTun(tun_fd)
  /\ tunnel' = NoAttempt /\ tun_fd' = NoAttempt /\ threads' = NoThreads
  /\ unexpected_exit_reported' = FALSE

\* reset_plugin_state(), with c as the new cancellable and p as the new config.
ResetPluginState(c, p) ==
  /\ CancelInflight(c)
  /\ TeardownTunnel
  /\ config' = p
  /\ gateway_ip' = NoProfile
  /\ ccc_session_id' = NoAttempt
  /\ awaiting_challenge' = FALSE

TaskEnds(a) ==
  /\ task' = [task EXCEPT ![a] = "none"]
  /\ result' = [result EXCEPT ![a] = "none"]

\* The worker of attempt a moves on, or returns r and queues its callback.
Goto(a, pc) ==
  /\ task' = [task EXCEPT ![a] = pc]
  /\ UNCHANGED result

Return(a, pc, r) ==
  /\ task' = [task EXCEPT ![a] = pc]
  /\ result' = [result EXCEPT ![a] = r]

-----------------------------------------------------------------------------
(***************************************************************************)
(* D-Bus operations.  libnm admits Connect() in STOPPED, NewSecrets() in   *)
(* STARTING and Disconnect() in both STARTING and STARTED; it calls        *)
(* Disconnect() itself when the connect timer runs out or the client goes. *)
(* NetworkManager connects interactively, so a code can be asked for.      *)
(***************************************************************************)

\* snx_vpn_connect(), with a usable configuration.
Connect(a, p) ==
  /\ process = "running" /\ nm = "stopped" /\ profile[a] = NoProfile
  /\ ResetPluginState(a, p)
  /\ profile' = [profile EXCEPT ![a] = p]
  /\ task' = [task EXCEPT ![a] = "auth"]
  /\ nm' = "starting" /\ fail_stop' = FALSE /\ asked' = FALSE /\ emitted' = {}
  /\ UNCHANGED <<loopVars, result, bypass_dest>>

\* snx_vpn_connect(), refused by snx_config_from_connection() or
\* snx_config_validate_for_connect(): libnm stops from an idle callback.
ConnectRefused(a, p) ==
  /\ process = "running" /\ nm = "stopped" /\ profile[a] = NoProfile
  /\ ResetPluginState(a, p)
  /\ profile' = [profile EXCEPT ![a] = p]
  /\ nm' = "starting" /\ fail_stop' = TRUE /\ asked' = FALSE
  /\ emitted' = {"failure"}
  /\ UNCHANGED <<loopVars, task, result, bypass_dest>>

\* Mutant of NewSecrets: awaiting_challenge stays set.
NewSecretsAwaitsOn ==
  /\ process = "running" /\ nm = "starting"
  /\ asked \/ UnsolicitedSecrets
  /\ awaiting_challenge
  /\ asked' = FALSE
  /\ Goto(cancellable, "challenge")
  /\ UNCHANGED <<loopVars, nm, fail_stop, emitted, cancellable, cancelled,
                 stateVars, tunnelVars, bypassVars, profile, bypass_dest,
                 kernelVars>>

\* snx_vpn_new_secrets() with a verification code.
NewSecrets ==
  /\ process = "running" /\ nm = "starting"
  /\ asked \/ UnsolicitedSecrets
  /\ awaiting_challenge
  /\ awaiting_challenge' = FALSE
  /\ asked' = FALSE
  /\ Goto(cancellable, "challenge")
  /\ UNCHANGED <<loopVars, nm, fail_stop, emitted, cancellable, cancelled,
                 config, gateway_ip, ccc_session_id, tunnelVars, bypassVars,
                 profile, bypass_dest, kernelVars>>

\* snx_vpn_new_secrets() without a code, or when none is awaited.
NewSecretsRefused ==
  /\ process = "running" /\ nm = "starting"
  /\ asked \/ UnsolicitedSecrets
  /\ asked' = FALSE
  /\ fail_stop' = TRUE
  /\ UNCHANGED <<loopVars, nm, emitted, cancellable, cancelled, stateVars,
                 tunnelVars, bypassVars, taskVars, kernelVars>>

\* Mutant of Disconnect: the task in flight goes on.
DisconnectWithoutCancel ==
  /\ process = "running" /\ nm \in {"starting", "started"}
  /\ TeardownTunnel
  /\ nm' = "stopped" /\ asked' = FALSE /\ emitted' = {}
  /\ UNCHANGED <<loopVars, fail_stop, cancellable, cancelled, stateVars, taskVars>>

\* snx_vpn_disconnect().
Disconnect ==
  /\ process = "running" /\ nm \in {"starting", "started"}
  /\ CancelInflight(NoAttempt)
  /\ TeardownTunnel
  /\ nm' = "stopped" /\ asked' = FALSE /\ emitted' = {}
  /\ UNCHANGED <<loopVars, fail_stop, stateVars, taskVars>>

\* libnm's idle callback after a refused operation.
FailStop ==
  /\ process = "running" /\ fail_stop
  /\ nm' = "stopped" /\ fail_stop' = FALSE /\ asked' = FALSE /\ emitted' = {}
  /\ UNCHANGED <<loopVars, cancellable, cancelled, stateVars, tunnelVars,
                 bypassVars, taskVars, kernelVars>>

-----------------------------------------------------------------------------
(***************************************************************************)
(* Authentication.  The worker uses only what it was given, and is not     *)
(* told that it was cancelled: GTask drops its result on the main loop.    *)
(***************************************************************************)

AuthWorker(a) ==
  /\ process # "exited"
  /\ \E r \in {"error", "continue", "denied", "done"} :
       \/ task[a] = "auth" /\ Return(a, "auth_back", r)
       \/ task[a] = "challenge" /\ Return(a, "challenge_back", r)
  /\ UNCHANGED <<loopVars, nmVars, cancellable, cancelled, stateVars,
                 tunnelVars, bypassVars, profile, bypass_dest, kernelVars>>

AuthReturned(a) == process = "running" /\ task[a] \in {"auth_back", "challenge_back"}

\* The login, unlike the challenge, also brings the gateway's address.
GatewayKnown(a) ==
  gateway_ip' = IF task[a] = "auth_back" THEN profile[a] ELSE gateway_ip

authFrame == <<loopVars, nm, fail_stop, cancellable, cancelled, config,
               tunnelVars, bypassVars, profile, bypass_dest, kernelVars>>

\* on_auth_done(): G_IO_ERROR_CANCELLED is swallowed.
AuthCancelled(a) ==
  /\ AuthReturned(a) /\ a \in cancelled
  /\ TaskEnds(a)
  /\ UNCHANGED <<authFrame, asked, emitted, gateway_ip, ccc_session_id,
                 awaiting_challenge>>

AuthError(a) ==
  /\ AuthReturned(a) /\ a \notin cancelled /\ result[a] = "error"
  /\ Emit("failure")
  /\ TaskEnds(a)
  /\ UNCHANGED <<authFrame, asked, gateway_ip, ccc_session_id,
                 awaiting_challenge>>

AuthContinue(a) ==
  /\ AuthReturned(a) /\ a \notin cancelled /\ result[a] = "continue"
  /\ GatewayKnown(a)
  /\ ccc_session_id' = a /\ awaiting_challenge' = TRUE
  /\ Emit("secrets") /\ asked' = TRUE
  /\ TaskEnds(a)
  /\ UNCHANGED authFrame

AuthDenied(a) ==
  /\ AuthReturned(a) /\ a \notin cancelled /\ result[a] = "denied"
  /\ GatewayKnown(a)
  /\ Emit("failure")
  /\ TaskEnds(a)
  /\ UNCHANGED <<authFrame, asked, ccc_session_id, awaiting_challenge>>

\* start_tunnel() runs under self->cancellable, which is a's: see OneLiveTask.
AuthDone(a) ==
  /\ AuthReturned(a) /\ a \notin cancelled /\ result[a] = "done"
  /\ GatewayKnown(a)
  /\ Return(a, "ssl", "none")
  /\ UNCHANGED <<authFrame, asked, emitted, ccc_session_id, awaiting_challenge>>

-----------------------------------------------------------------------------
(***************************************************************************)
(* tunnel_thread_func() and configure_interface(), in the worker thread.   *)
(***************************************************************************)

workerFrame == <<loopVars, nmVars, cancellable, cancelled, stateVars,
                 forwardVars, profile>>

Worker(a, pc) == process # "exited" /\ task[a] = pc

\* Mutant of Abort: close(fd) is forgotten.
AbortLeaksTun(a) ==
  /\ Return(a, "tunnel_back", "error")
  /\ ssl_open' = ssl_open \ {a}
  /\ UNCHANGED <<workerFrame, tunnel, tun_fd, bypassVars, bypass_dest, tun_open>>

\* Every error exit closes what the worker had opened; the routes it added to
\* the physical link stay.
Abort(a) ==
  /\ Return(a, "tunnel_back", "error")
  /\ ssl_open' = ssl_open \ {a}
  /\ CloseTun(a)
  /\ UNCHANGED <<workerFrame, tunnel, tun_fd, bypassVars, bypass_dest>>

\* A call fails, a request to the kernel perhaps only after it took effect.
WorkerFails(a) ==
  /\ process # "exited"
  /\ task[a] \in {"ssl", "tun", "link", "bypass", "routes"}
  /\ Abort(a)
  /\ \/ UNCHANGED bypass_routes
     \/ /\ task[a] = "bypass" /\ gateway_ip # NoProfile
        /\ bypass_routes' = bypass_routes \cup {gateway_ip}

\* snx_ssl_tunnel_connect() succeeds.
OpenTunnel(a) ==
  /\ Worker(a, "ssl")
  /\ ssl_open' = ssl_open \cup {a}
  /\ Goto(a, "tun")
  /\ UNCHANGED <<workerFrame, tunnel, tun_fd, bypassVars, bypass_dest, tun_open,
                 bypass_routes>>

\* snx_tun_create(): a device that is attached elsewhere is busy.  The name is
\* read from self->config, by now perhaps that of another attempt: then the
\* read races with the main loop and may yield any name.
CreateTun(a) ==
  /\ Worker(a, "tun")
  /\ \E n \in Names :
       /\ config = profile[a] => n = IfName[config]
       /\ \A b \in Attempts : tun_open[b] # n
       /\ tun_open' = [tun_open EXCEPT ![a] = n]
  /\ Goto(a, "link")
  /\ UNCHANGED <<workerFrame, tunnel, tun_fd, bypassVars, bypass_dest, ssl_open,
                 bypass_routes>>

\* Mutant of ConfigureLink: the default route without the bypass route.
ConfigureLinkWithoutBypass(a) ==
  /\ Worker(a, "link")
  /\ Goto(a, "routes")
  /\ UNCHANGED <<workerFrame, tunnel, tun_fd, bypassVars, bypass_dest,
                 kernelVars>>

\* Link up, address, and the test of self->config.default_route (zero in a
\* cleared config).
ConfigureLink(a) ==
  /\ Worker(a, "link")
  /\ Goto(a, IF config # NoProfile /\ DefaultRoute[config] THEN "bypass"
                                                           ELSE "routes")
  /\ UNCHANGED <<workerFrame, tunnel, tun_fd, bypassVars, bypass_dest,
                 kernelVars>>

\* The host route to self->gateway_ip, which a newer Connect() may have reset.
AddBypassRoute(a) ==
  /\ Worker(a, "bypass") /\ gateway_ip # NoProfile
  /\ bypass_dest' = [bypass_dest EXCEPT ![a] = gateway_ip]
  /\ bypass_routes' = bypass_routes \cup {gateway_ip}
  /\ Goto(a, "active")
  /\ UNCHANGED <<workerFrame, tunnel, tun_fd, bypassVars, ssl_open, tun_open>>

\* It goes on record in two writes that the main loop may see apart.
SetBypassActive(a) ==
  /\ Worker(a, "active")
  /\ bypass_route_active' = TRUE
  /\ Goto(a, "dest")
  /\ UNCHANGED <<workerFrame, tunnel, tun_fd, bypass_route_dest, bypass_dest,
                 kernelVars>>

SetBypassDest(a) ==
  /\ Worker(a, "dest")
  /\ bypass_route_dest' = bypass_dest[a]
  /\ bypass_dest' = [bypass_dest EXCEPT ![a] = NoProfile]
  /\ Goto(a, "routes")
  /\ UNCHANGED <<workerFrame, tunnel, tun_fd, bypass_route_active, kernelVars>>

\* The default route and the route specifications, all on the TUN device.
AddRoutes(a) ==
  /\ Worker(a, "routes")
  /\ Goto(a, "check")
  /\ UNCHANGED <<workerFrame, tunnel, tun_fd, bypassVars, bypass_dest,
                 kernelVars>>

\* g_task_return_error_if_cancelled().
CheckCancelled(a) ==
  /\ Worker(a, "check") /\ a \in cancelled
  /\ Abort(a)
  /\ UNCHANGED bypass_routes

CheckPassed(a) ==
  /\ Worker(a, "check") /\ a \notin cancelled
  /\ Goto(a, "publish")
  /\ UNCHANGED <<workerFrame, tunnel, tun_fd, bypassVars, bypass_dest,
                 kernelVars>>

PublishTunnel(a) ==
  /\ Worker(a, "publish")
  /\ tunnel' = a
  /\ Goto(a, "publish_fd")
  /\ UNCHANGED <<workerFrame, tun_fd, bypassVars, bypass_dest, kernelVars>>

\* tun_fd and tun_name, then g_task_return_pointer().
PublishFd(a) ==
  /\ Worker(a, "publish_fd")
  /\ tun_fd' = a
  /\ Return(a, "tunnel_back", "ok")
  /\ UNCHANGED <<workerFrame, tunnel, bypassVars, bypass_dest, kernelVars>>

-----------------------------------------------------------------------------
(***************************************************************************)
(* on_tunnel_done() and finish_connect(), on the main loop.                *)
(***************************************************************************)

TunnelReturned(a) == process = "running" /\ task[a] = "tunnel_back"

doneFrame == <<loopVars, asked, fail_stop, cancellable, cancelled, stateVars,
               profile, bypass_dest>>

TunnelCancelled(a) ==
  /\ TunnelReturned(a) /\ a \in cancelled
  /\ TaskEnds(a)
  /\ UNCHANGED <<doneFrame, nm, emitted, tunnelVars, bypassVars, kernelVars>>

\* Mutant: nobody is told.
TunnelErrorUntold(a) ==
  /\ TunnelReturned(a) /\ a \notin cancelled /\ result[a] = "error"
  /\ TaskEnds(a)
  /\ UNCHANGED <<doneFrame, nm, emitted, tunnelVars, bypassVars, kernelVars>>

TunnelError(a) ==
  /\ TunnelReturned(a) /\ a \notin cancelled /\ result[a] = "error"
  /\ Emit("failure")
  /\ TaskEnds(a)
  /\ UNCHANGED <<doneFrame, nm, tunnelVars, bypassVars, kernelVars>>

\* start_forwarding(); the profile or the gateway may want no keepalive packets.
StartForwarding ==
  /\ threads' = <<tunnel, tun_fd>>
  /\ keepalive_source' \in BOOLEAN
  /\ UNCHANGED unexpected_exit_reported

\* Mutant of FinishConnect: a cancelled task's result is not dropped.
FinishConnectAnyway(a) ==
  /\ TunnelReturned(a) /\ result[a] = "ok"
  /\ gateway_ip # NoProfile
  /\ nm' = "started" /\ Emit("config")
  /\ StartForwarding
  /\ TaskEnds(a)
  /\ UNCHANGED <<doneFrame, tunnel, tun_fd, bypassVars, kernelVars>>

\* finish_connect() publishes the configuration and starts the threads on
\* whatever tunnel and device are in the fields.
FinishConnect(a) ==
  /\ TunnelReturned(a) /\ a \notin cancelled /\ result[a] = "ok"
  /\ gateway_ip # NoProfile
  /\ nm' = "started" /\ Emit("config")
  /\ StartForwarding
  /\ TaskEnds(a)
  /\ UNCHANGED <<doneFrame, tunnel, tun_fd, bypassVars, kernelVars>>

\* Its error exits: no gateway address, a bad route, a bad Ip4Config.
FinishConnectFails(a) ==
  /\ TunnelReturned(a) /\ a \notin cancelled /\ result[a] = "ok"
  /\ Emit("failure")
  /\ TeardownTunnel
  /\ TaskEnds(a)
  /\ UNCHANGED <<doneFrame, nm>>

-----------------------------------------------------------------------------
(***************************************************************************)
(* What the forwarding threads and the keepalive timer tell the service    *)
(* (how they come to it is module SnxForwarding).                          *)
(***************************************************************************)

reportFrame == <<process, nm, fail_stop, asked, cancellable, cancelled,
                 stateVars, tunnel, tun_fd, threads, bypassVars, taskVars,
                 kernelVars>>

\* report_unexpected_thread_exit(), in a thread on the tunnel of attempt a.
ReportUnexpectedThreadExit(a) ==
  /\ process # "exited" /\ threads[1] = a
  /\ ~unexpected_exit_reported
  /\ unexpected_exit_reported' = TRUE
  /\ posted' = posted \cup {a}
  /\ UNCHANGED <<reportFrame, emitted, keepalive_source>>

\* on_forwarding_thread_failed(), whatever has become of the attempt.
OnForwardingThreadFailed(a) ==
  /\ process = "running" /\ a \in posted
  /\ posted' = posted \ {a}
  /\ Emit(IF a = cancellable THEN "failure" ELSE "late")
  /\ UNCHANGED <<reportFrame, keepalive_source, unexpected_exit_reported>>

\* on_keepalive_tick(), when too many answers are missing or the send fails.
KeepaliveFails ==
  /\ process = "running" /\ keepalive_source
  /\ keepalive_source' = FALSE
  /\ Emit("failure")
  /\ UNCHANGED <<reportFrame, posted, unexpected_exit_reported>>

-----------------------------------------------------------------------------
(***************************************************************************)
(* The end of the process.  Workers run on until it is gone.               *)
(***************************************************************************)

\* on_term_signal(): libnm is not told.
Terminate ==
  /\ process = "running"
  /\ CancelInflight(NoAttempt)
  /\ TeardownTunnel
  /\ process' = "quitting"
  /\ UNCHANGED <<posted, nmVars, stateVars, taskVars>>

\* on_plugin_quit(): libnm has been stopped for a while.
Quit ==
  /\ process = "running" /\ nm = "stopped"
  /\ process' = "quitting"
  /\ UNCHANGED <<posted, nmVars, cancellable, cancelled, stateVars, tunnelVars,
                 bypassVars, taskVars, kernelVars>>

\* The kernel closes what the process had open and its threads are no more;
\* routes on the physical link stay.
Gone ==
  /\ process' = "exited" /\ posted' = {}
  /\ task' = [a \in Attempts |-> "none"]
  /\ result' = [a \in Attempts |-> "none"]
  /\ ssl_open' = {} /\ tun_open' = [a \in Attempts |-> NoName]
  /\ UNCHANGED <<nmVars, profile, bypass_dest>>

\* The end of main().  Every task holds a reference to the plugin: it is
\* finalized, and so reset, only if none is left.
ExitProcess ==
  /\ process = "quitting"
  /\ IF \A a \in Attempts : task[a] = "none"
     THEN /\ DeleteBypassRoute
          /\ keepalive_source' = FALSE /\ unexpected_exit_reported' = FALSE
          /\ tunnel' = NoAttempt /\ tun_fd' = NoAttempt /\ threads' = NoThreads
          /\ CancelInflight(NoAttempt)
          /\ config' = NoProfile /\ gateway_ip' = NoProfile
          /\ ccc_session_id' = NoAttempt /\ awaiting_challenge' = FALSE
     ELSE UNCHANGED <<cancellable, cancelled, stateVars, tunnelVars,
                      bypassVars, bypass_routes>>
  /\ Gone

\* A crash at any point: also what a worker risks that reads a string of
\* self->config or self->gateway_ip while the main loop frees it.
Crash ==
  /\ process # "exited"
  /\ Gone
  /\ UNCHANGED <<cancellable, cancelled, stateVars, tunnelVars, bypassVars,
                 bypass_routes>>

-----------------------------------------------------------------------------
AuthCallback(a) == AuthCancelled(a) \/ AuthError(a) \/ AuthContinue(a)
                     \/ AuthDenied(a) \/ AuthDone(a)

TunnelCallback(a) == TunnelCancelled(a) \/ TunnelError(a) \/ FinishConnect(a)
                       \/ FinishConnectFails(a)

TunnelWorker(a) ==
  \/ WorkerFails(a)    \/ OpenTunnel(a)      \/ CreateTun(a)
  \/ ConfigureLink(a)  \/ AddBypassRoute(a)  \/ SetBypassActive(a)
  \/ SetBypassDest(a)  \/ AddRoutes(a)       \/ CheckCancelled(a)
  \/ CheckPassed(a)    \/ PublishTunnel(a)   \/ PublishFd(a)

Next ==
  \/ \E a \in Attempts, p \in Profiles : Connect(a, p) \/ ConnectRefused(a, p)
  \/ NewSecrets \/ NewSecretsRefused \/ Disconnect \/ FailStop
  \/ \E a \in Attempts : AuthWorker(a) \/ AuthCallback(a)
  \/ \E a \in Attempts : TunnelWorker(a) \/ TunnelCallback(a)
  \/ \E a \in Attempts : ReportUnexpectedThreadExit(a) \/ OnForwardingThreadFailed(a)
  \/ KeepaliveFails
  \/ Terminate \/ Quit \/ ExitProcess \/ Crash

Spec == Init /\ [][Next]_vars

\* A worker's calls return (libcurl and the sockets have time limits) and the
\* main loop dispatches what is queued.  Nothing obliges the client.
Fairness ==
  /\ \A a \in Attempts :
       /\ WF_vars(AuthWorker(a)) /\ WF_vars(AuthCallback(a))
       /\ WF_vars(TunnelWorker(a)) /\ WF_vars(TunnelCallback(a))
  /\ WF_vars(FailStop)

FairSpec == Spec /\ Fairness

-----------------------------------------------------------------------------
(***************************************************************************)
(* Properties of the attempts.                                             *)
(***************************************************************************)

Running == process = "running"
Idle    == \A a \in Attempts : task[a] = "none"

\* One attempt at a time is in charge: a task that was not cancelled is the
\* current attempt's.  It is what makes on_auth_done() right to chain the
\* tunnel under self->cancellable, whatever that is by then.
OneLiveTask ==
  \A a \in Attempts : task[a] # "none" /\ a \notin cancelled => a = cancellable

\* While a verification code is awaited (and NewSecrets() is admitted) nothing
\* is in flight and the saved session is the current attempt's: a code is never
\* sent for another attempt's session, nor next to a login still running.
AwaitingIsIdle ==
  Running /\ awaiting_challenge /\ nm = "starting" =>
    /\ cancellable # NoAttempt
    /\ ccc_session_id = cancellable
    /\ task[cancellable] = "none"

\* The report of a forwarding thread that was queued before its attempt was
\* cancelled: nothing takes it from the queue (on_forwarding_thread_failed()).
LateReport ==
  \E a \in posted \ posted' : a \in cancelled /\ emitted' = emitted \cup {"late"}

\* A service that reported STOPPED leaves that state by Connect() only: no late
\* completion of a cancelled attempt revives "a connection NetworkManager
\* already considers gone" (the comment in snx_vpn_disconnect()).  Until then
\* NetworkManager hears nothing more but the report of a thread that died
\* before the teardown, once; no task and no timer outlives it.
StoppedOnlyReportsLate ==
  [][Running /\ nm = "stopped" =>
       /\ nm' # "started"
       /\ emitted' \subseteq emitted \/ nm' = "starting" \/ LateReport]_vars

-----------------------------------------------------------------------------
(***************************************************************************)
(* Properties of the tunnel, for profiles that share one if_name.          *)
(***************************************************************************)

OneInterfaceName == \A p, q \in Profiles : IfName[p] = IfName[q]

\* Once NetworkManager was told of a connection, the tunnel and the device in
\* the fields are the current attempt's, both are open, the threads forward
\* between exactly these two, and the configuration is that attempt's too.
StartedOwnsItsTunnel ==
  Running /\ nm = "started" =>
    /\ cancellable # NoAttempt
    /\ tunnel = cancellable /\ tun_fd = cancellable
    /\ tunnel \in ssl_open
    /\ tun_open[tun_fd] # NoName
    /\ threads = <<tunnel, tun_fd>>
    /\ config = profile[cancellable] /\ gateway_ip = config

\* A connection with the default route through the tunnel has the bypass route
\* to its own gateway, on record for teardown_tunnel(): else the tunnel's
\* traffic would be routed into the tunnel itself.
StartedHasBypassRoute ==
  Running /\ nm = "started" /\ DefaultRoute[config] =>
    /\ config \in bypass_routes
    /\ bypass_route_active /\ bypass_route_dest = config

\* Closing the published tunnel and device is what ends the forwarding
\* threads: teardown_tunnel() never joins threads that wait on others.
TeardownReachesThreads ==
  Running /\ threads # NoThreads => threads = <<tunnel, tun_fd>>

\* The SSL connection, or the device, that attempt a's worker still holds.
WorkerHoldsSsl(a) == task[a] \in {"tun"} \cup HoldsTun
WorkerHoldsTun(a) == task[a] \in HoldsTun

\* Whatever is open is held by a worker that will close or publish it, or is
\* in the fields, where the next teardown_tunnel() finds it.
NothingLeaks ==
  Running =>
    /\ \A a \in ssl_open : WorkerHoldsSsl(a) \/ tunnel = a
    /\ \A a \in Attempts :
         tun_open[a] # NoName => WorkerHoldsTun(a) \/ tun_fd = a

-----------------------------------------------------------------------------
(***************************************************************************)
(* What the comments promise and the code does not keep.                   *)
(***************************************************************************)

\* "undo everything instead of publishing it, so teardown_tunnel() never gets
\* bypassed by state arriving after it ran": stopped and idle, the service
\* holds no tunnel.
StoppedHoldsNoTunnel ==
  Running /\ nm = "stopped" /\ Idle => tunnel = NoAttempt /\ tun_fd = NoAttempt

-----------------------------------------------------------------------------
(***************************************************************************)
(* Liveness.                                                               *)
(***************************************************************************)

\* The user waits and has not been asked for anything.
Waiting == Running /\ nm = "starting" /\ ~ asked /\ "failure" \notin emitted

\* Every attempt is answered: it starts, stops, fails, or asks for a code.  The
\* late report of an earlier attempt is no answer.
EveryAttemptIsAnswered == Waiting ~> ~ Waiting

=============================================================================
