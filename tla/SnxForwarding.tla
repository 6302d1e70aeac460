---------------------------- MODULE SnxForwarding ----------------------------
(***************************************************************************)
(* The packet-forwarding half of the SNX service process: the uplink and   *)
(* downlink threads, the keepalive timer of the main loop, the report a    *)
(* thread posts when it stops unexpectedly, and teardown_tunnel(), which   *)
(* stops all of them (src/nm-snx-service.c, with the write lock, close and *)
(* free of src/snx-ssl-tunnel.c).                                          *)
(*                                                                         *)
(* Every step that another thread can observe is an action of its own.     *)
(* Packets carry no payload: what matters is whether a read, a write or a  *)
(* receive returns, fails or blocks.  The bypass route that                *)
(* teardown_tunnel() also removes belongs to module SnxService.            *)
(***************************************************************************)
EXTENDS Naturals

CONSTANTS
  MaxTunnels,      \* bound: tunnels started during one behaviour
  MaxMisses,       \* SNX_KEEPALIVE_MAX_MISSES, 3 in the code
  EventfdMayFail,  \* may eventfd() in start_forwarding() fail?
  GatewayMayStall  \* may the gateway stop reading, so that sends block?

ASSUME ForwardingConstants ==
  /\ MaxTunnels \in Nat
  /\ MaxMisses \in Nat \ {0}
  /\ EventfdMayFail \in BOOLEAN
  /\ GatewayMayStall \in BOOLEAN

Tunnels == 1 .. MaxTunnels
Threads == {"uplink", "downlink"}
Causes  == {"thread", "stuck", "send"}

VARIABLES
  (* The main loop and the state it owns. *)
  main,                      \* where the main thread is
  started,                   \* tunnels started so far; the newest is current
  keepalive_source,          \* is the keepalive timer armed?
  failures,                  \* Failure signals emitted: <<cause, tunnel>>
  idle,                      \* posted on_forwarding_thread_failed callbacks
  (* Shared with the threads. *)
  tunnel,                    \* self->tunnel and its socket
  tun_fd,                    \* self->tun_fd
  uplink_wake_fd,            \* self->uplink_wake_fd
  write_lock,                \* owner of tunnel->write_lock
  keepalive_misses,
  tearing_down,
  unexpected_exit_reported,
  (* The threads. *)
  uplink, downlink,
  (* What the gateway and the kernel do. *)
  inbound,                   \* the next packet from the gateway
  outbound,                  \* is a packet waiting on the TUN device?
  stalled,                   \* the gateway no longer reads: sends block
  (* History. *)
  broken,                    \* tunnels whose link or device really failed
  posted                     \* reports posted so far: <<thread, tunnel>>

mainVars    == <<main, started, keepalive_source, failures, idle>>
sharedVars  == <<tunnel, tun_fd, uplink_wake_fd, write_lock, keepalive_misses,
                 tearing_down, unexpected_exit_reported>>
threadVars  == <<uplink, downlink>>
worldVars   == <<inbound, outbound, stalled>>
historyVars == <<broken, posted>>
vars == <<mainVars, sharedVars, threadVars, worldVars, historyVars>>

Packets == {"none", "data", "keepalive", "control"}

MainPC == {"loop", "ka_lock", "ka_send", "td_close", "td_wake", "td_fd",
           "td_join_down", "td_join_up", "td_finish"}

\* "done": the thread function has returned and awaits its join.
UplinkPC   == {"none", "poll", "blocked", "read", "lock", "send",
               "report", "post", "done"}
DownlinkPC == {"none", "receive", "deliver_data", "deliver_keepalive",
               "report", "post", "done"}

\* The bookkeeping of start_forwarding() and teardown_tunnel() keeps exactly
\* these shapes; src/nm-snx-service.c declares the fields.
TypeOK ==
  /\ main \in MainPC
  /\ started \in 0 .. MaxTunnels
  /\ keepalive_source \in BOOLEAN
  /\ failures \subseteq Causes \X Tunnels
  /\ idle \subseteq Threads \X Tunnels
  /\ tunnel \in {"null", "open", "broken", "shut"}
  /\ tun_fd \in {"closed", "open", "failed"}
  /\ uplink_wake_fd \in {"closed", "armed", "signalled"}
  /\ write_lock \in {"free", "uplink", "main"}
  /\ keepalive_misses \in 0 .. MaxMisses
  /\ tearing_down \in BOOLEAN
  /\ unexpected_exit_reported \in BOOLEAN
  /\ uplink \in UplinkPC
  /\ downlink \in DownlinkPC
  /\ inbound \in Packets
  /\ outbound \in BOOLEAN
  /\ stalled \in BOOLEAN
  /\ broken \subseteq Tunnels
  /\ posted \subseteq Threads \X Tunnels

Init ==
  /\ main = "loop"
  /\ started = 0
  /\ keepalive_source = FALSE
  /\ failures = {}
  /\ idle = {}
  /\ tunnel = "null"
  /\ tun_fd = "closed"
  /\ uplink_wake_fd = "closed"
  /\ write_lock = "free"
  /\ keepalive_misses = 0
  /\ tearing_down = FALSE
  /\ unexpected_exit_reported = FALSE
  /\ uplink = "none"
  /\ downlink = "none"
  /\ inbound = "none"
  /\ outbound = FALSE
  /\ stalled = FALSE
  /\ broken = {}
  /\ posted = {}

\* What fails before teardown_tunnel() starts is a failure of the tunnel.
RealFailure == broken' = IF tearing_down THEN broken ELSE broken \cup {started}

-----------------------------------------------------------------------------
(***************************************************************************)
(* The main loop.  Its callbacks exclude each other, so each starts from   *)
(* main = "loop"; the ones that block or that the threads can observe      *)
(* half-way run in several steps.                                          *)
(***************************************************************************)

\* start_forwarding(), on a tunnel and TUN device that were just published.
StartForwarding ==
  /\ main = "loop" /\ tunnel = "null" /\ started < MaxTunnels
  /\ started' = started + 1
  /\ tunnel' = "open" /\ tun_fd' = "open"
  /\ keepalive_misses' = 0
  /\ \/ uplink_wake_fd' = "armed"
     \/ EventfdMayFail /\ uplink_wake_fd' = "closed"
  /\ uplink' = "poll" /\ downlink' = "receive"
  /\ keepalive_source' \in BOOLEAN    \* the gateway may announce no interval
  /\ UNCHANGED worldVars
  /\ UNCHANGED <<main, failures, idle, write_lock, tearing_down,
                 unexpected_exit_reported, historyVars>>

\* on_keepalive_tick(): too many keepalives went unanswered.
KeepaliveGiveUp ==
  /\ main = "loop" /\ keepalive_source
  /\ keepalive_misses >= MaxMisses
  /\ keepalive_source' = FALSE
  /\ failures' = failures \cup {<<"stuck", started>>}
  /\ UNCHANGED <<main, started, idle, sharedVars, threadVars, worldVars,
                 historyVars>>

\* Mutant of KeepaliveAttempt: nothing is counted.
KeepaliveAttemptUncounted ==
  /\ main = "loop" /\ keepalive_source
  /\ keepalive_misses < MaxMisses
  /\ main' = "ka_lock"
  /\ UNCHANGED <<started, keepalive_source, failures, idle, sharedVars,
                 threadVars, worldVars, historyVars>>

\* Otherwise it counts another one and goes for the write lock.
KeepaliveAttempt ==
  /\ main = "loop" /\ keepalive_source
  /\ keepalive_misses < MaxMisses
  /\ keepalive_misses' = keepalive_misses + 1
  /\ main' = "ka_lock"
  /\ UNCHANGED <<started, keepalive_source, failures, idle, tunnel, tun_fd,
                 uplink_wake_fd, write_lock, tearing_down,
                 unexpected_exit_reported, threadVars, worldVars, historyVars>>

KeepaliveLock ==
  /\ main = "ka_lock" /\ write_lock = "free"
  /\ main' = "ka_send" /\ write_lock' = "main"
  /\ UNCHANGED <<started, keepalive_source, failures, idle, tunnel, tun_fd,
                 uplink_wake_fd, keepalive_misses, tearing_down,
                 unexpected_exit_reported, threadVars, worldVars, historyVars>>

\* write_packet() returns: always at once on a dead socket, but on a live one
\* only while the gateway reads.  A write to a socket the gateway has closed
\* may still succeed.
WriteSucceeds == tunnel = "broken" \/ (tunnel = "open" /\ ~stalled)
WriteFails    == tunnel \in {"broken", "shut"}

KeepaliveSent ==
  /\ main = "ka_send" /\ WriteSucceeds
  /\ main' = "loop" /\ write_lock' = "free"
  /\ UNCHANGED <<started, keepalive_source, failures, idle, tunnel, tun_fd,
                 uplink_wake_fd, keepalive_misses, tearing_down,
                 unexpected_exit_reported, threadVars, worldVars, historyVars>>

\* Mutant: a failed send does not end the timer.
KeepaliveSendFailsAndGoesOn ==
  /\ main = "ka_send" /\ WriteFails
  /\ main' = "loop" /\ write_lock' = "free"
  /\ failures' = failures \cup {<<"send", started>>}
  /\ UNCHANGED <<started, keepalive_source, idle, tunnel, tun_fd,
                 uplink_wake_fd, keepalive_misses, tearing_down,
                 unexpected_exit_reported, threadVars, worldVars, historyVars>>

KeepaliveSendFails ==
  /\ main = "ka_send" /\ WriteFails
  /\ main' = "loop" /\ write_lock' = "free"
  /\ keepalive_source' = FALSE
  /\ failures' = failures \cup {<<"send", started>>}
  /\ UNCHANGED <<started, idle, tunnel, tun_fd, uplink_wake_fd,
                 keepalive_misses, tearing_down, unexpected_exit_reported,
                 threadVars, worldVars, historyVars>>

\* Mutant: the idle source stays (G_SOURCE_CONTINUE).
ReportThreadFailureAgain ==
  /\ main = "loop"
  /\ \E r \in idle : failures' = failures \cup {<<"thread", r[2]>>}
  /\ UNCHANGED <<main, started, keepalive_source, idle, sharedVars, threadVars,
                 worldVars, historyVars>>

\* on_forwarding_thread_failed(): nothing removes the idle source, so it also
\* runs after the tunnel it is about was torn down.
ReportThreadFailure ==
  /\ main = "loop"
  /\ \E r \in idle :
       /\ idle' = idle \ {r}
       /\ failures' = failures \cup {<<"thread", r[2]>>}
  /\ UNCHANGED <<main, started, keepalive_source, sharedVars, threadVars,
                 worldVars, historyVars>>

(***************************************************************************)
(* teardown_tunnel(), called by Disconnect(), by the reset of a new        *)
(* Connect(), by SIGTERM and by finalize, on a tunnel or on none.          *)
(***************************************************************************)

\* Mutant of BeginTeardown: the threads are not warned.
BeginTeardownUnannounced ==
  /\ main = "loop"
  /\ keepalive_source' = FALSE
  /\ main' = "td_close"
  /\ UNCHANGED <<started, failures, idle, sharedVars, threadVars, worldVars,
                 historyVars>>

BeginTeardown ==
  /\ main = "loop"
  /\ tearing_down' = TRUE
  /\ keepalive_source' = FALSE
  /\ main' = "td_close"
  /\ UNCHANGED <<started, failures, idle, tunnel, tun_fd, uplink_wake_fd,
                 write_lock, keepalive_misses, unexpected_exit_reported,
                 threadVars, worldVars, historyVars>>

\* snx_ssl_tunnel_close(): shutdown() fails every later read and write.  What
\* the gateway had sent is lost, unless the tunnel's buffer has it already.
TeardownClose ==
  /\ main = "td_close"
  /\ tunnel' = IF tunnel = "null" THEN "null" ELSE "shut"
  /\ inbound' \in {inbound, "none"} /\ stalled' = FALSE
  /\ main' = "td_wake"
  /\ UNCHANGED <<started, keepalive_source, failures, idle, tun_fd,
                 uplink_wake_fd, write_lock, keepalive_misses, tearing_down,
                 unexpected_exit_reported, threadVars, outbound, historyVars>>

\* Mutant: the uplink thread is left to poll() for itself.
TeardownWakesNobody ==
  /\ main = "td_wake"
  /\ main' = "td_fd"
  /\ UNCHANGED <<started, keepalive_source, failures, idle, sharedVars,
                 threadVars, worldVars, historyVars>>

TeardownWake ==
  /\ main = "td_wake"
  /\ uplink_wake_fd' = IF uplink_wake_fd = "armed" THEN "signalled"
                                                   ELSE uplink_wake_fd
  /\ main' = "td_fd"
  /\ UNCHANGED <<started, keepalive_source, failures, idle, tunnel, tun_fd,
                 write_lock, keepalive_misses, tearing_down,
                 unexpected_exit_reported, threadVars, worldVars, historyVars>>

TeardownCloseFd ==
  /\ main = "td_fd"
  /\ tun_fd' = "closed"
  /\ outbound' = FALSE
  /\ main' = "td_join_down"
  /\ UNCHANGED <<started, keepalive_source, failures, idle, tunnel,
                 uplink_wake_fd, write_lock, keepalive_misses, tearing_down,
                 unexpected_exit_reported, threadVars, inbound, stalled,
                 historyVars>>

\* g_thread_join() returns once the thread function has.
JoinDownlink ==
  /\ main = "td_join_down" /\ downlink \in {"none", "done"}
  /\ downlink' = "none"
  /\ main' = "td_join_up"
  /\ UNCHANGED <<started, keepalive_source, failures, idle, sharedVars,
                 uplink, worldVars, historyVars>>

\* Mutant: the thread is not joined.
JoinUplinkForgotten ==
  /\ main = "td_join_up"
  /\ main' = "td_finish"
  /\ UNCHANGED <<started, keepalive_source, failures, idle, sharedVars,
                 threadVars, worldVars, historyVars>>

JoinUplink ==
  /\ main = "td_join_up" /\ uplink \in {"none", "done"}
  /\ uplink' = "none"
  /\ main' = "td_finish"
  /\ UNCHANGED <<started, keepalive_source, failures, idle, sharedVars,
                 downlink, worldVars, historyVars>>

\* Mutant: unexpected_exit_reported is not re-armed.
TeardownFinishKeepsReport ==
  /\ main = "td_finish"
  /\ uplink_wake_fd' = "closed"
  /\ tunnel' = "null"
  /\ tearing_down' = FALSE
  /\ main' = "loop" /\ inbound' = "none"
  /\ UNCHANGED <<started, keepalive_source, failures, idle, tun_fd, write_lock,
                 keepalive_misses, unexpected_exit_reported, threadVars,
                 outbound, stalled, historyVars>>

\* Free the tunnel and re-arm the flags for the next attempt.
TeardownFinish ==
  /\ main = "td_finish"
  /\ uplink_wake_fd' = "closed"
  /\ tunnel' = "null"
  /\ tearing_down' = FALSE
  /\ unexpected_exit_reported' = FALSE
  /\ main' = "loop" /\ inbound' = "none"
  /\ UNCHANGED <<started, keepalive_source, failures, idle, tun_fd,
                 write_lock, keepalive_misses, threadVars, outbound, stalled,
                 historyVars>>

-----------------------------------------------------------------------------
(***************************************************************************)
(* uplink_thread_func(): TUN device to tunnel.                             *)
(***************************************************************************)

uplinkFrame == <<mainVars, downlink, inbound, stalled, historyVars>>

\* poll() finds something at once, or goes to sleep.  The eventfd has
\* precedence; a closed or failed TUN descriptor also counts as ready.
UplinkPoll ==
  /\ uplink = "poll"
  /\ uplink' = IF uplink_wake_fd = "signalled" THEN "report"
               ELSE IF outbound \/ tun_fd # "open" THEN "read"
               ELSE "blocked"
  /\ UNCHANGED <<uplinkFrame, sharedVars, outbound>>

\* poll() itself fails for another reason than EINTR.
UplinkPollFails ==
  /\ uplink = "poll"
  /\ uplink' = "report"
  /\ RealFailure
  /\ UNCHANGED <<mainVars, sharedVars, downlink, worldVars, posted>>

UplinkWake ==
  /\ uplink = "blocked"
  /\ \/ uplink_wake_fd = "signalled" /\ uplink' = "report"
     \/ uplink_wake_fd # "signalled" /\ outbound /\ tun_fd = "open"
          /\ uplink' = "read"
     \/ uplink_wake_fd # "signalled" /\ tun_fd = "failed" /\ uplink' = "read"
  /\ UNCHANGED <<uplinkFrame, sharedVars, outbound>>

\* Without an eventfd a sleeping poll() may, but need not, notice that its
\* descriptor was closed; so this step has no fairness.
UplinkNoticesClose ==
  /\ uplink = "blocked" /\ tun_fd = "closed"
  /\ uplink' = "read"
  /\ UNCHANGED <<uplinkFrame, sharedVars, outbound>>

UplinkRead ==
  /\ uplink = "read"
  /\ \/ tun_fd = "open" /\ outbound /\ outbound' = FALSE /\ uplink' = "lock"
     \/ tun_fd # "open" /\ uplink' = "report" /\ UNCHANGED outbound
  /\ UNCHANGED <<uplinkFrame, sharedVars>>

\* Mutant: data packets are sent without the mutex.
UplinkLockForgotten ==
  /\ uplink = "lock"
  /\ uplink' = "send" /\ write_lock' = "uplink"
  /\ UNCHANGED <<uplinkFrame, outbound, tunnel, tun_fd, uplink_wake_fd,
                 keepalive_misses, tearing_down, unexpected_exit_reported>>

UplinkLock ==
  /\ uplink = "lock" /\ write_lock = "free"
  /\ uplink' = "send" /\ write_lock' = "uplink"
  /\ UNCHANGED <<uplinkFrame, outbound, tunnel, tun_fd, uplink_wake_fd,
                 keepalive_misses, tearing_down, unexpected_exit_reported>>

UplinkSend ==
  /\ uplink = "send"
  /\ \/ WriteSucceeds /\ uplink' = "poll"
     \/ WriteFails /\ uplink' = "report"
  /\ write_lock' = "free"
  /\ UNCHANGED <<uplinkFrame, outbound, tunnel, tun_fd, uplink_wake_fd,
                 keepalive_misses, tearing_down, unexpected_exit_reported>>

(***************************************************************************)
(* downlink_thread_func(): tunnel to TUN device.                           *)
(***************************************************************************)

downlinkFrame == <<mainVars, uplink, outbound, stalled, historyVars>>

\* A dead socket, or the buffer, may still hand out what had arrived; on a live
\* one the receive blocks until a packet is there.
DownlinkReceive ==
  /\ downlink = "receive"
  /\ \/ /\ inbound # "none" /\ tunnel # "null"
        /\ inbound' = "none"
        /\ downlink' = CASE inbound = "data"      -> "deliver_data"
                         [] inbound = "keepalive" -> "deliver_keepalive"
                         [] inbound = "control"   -> "receive"
     \/ /\ tunnel \in {"broken", "shut"}
        /\ downlink' = "report"
        /\ UNCHANGED inbound
  /\ UNCHANGED <<downlinkFrame, sharedVars>>

\* A failed TUN write ends the thread; otherwise data or a keepalive answer
\* shows that the gateway is alive.
DownlinkDeliver ==
  /\ \/ /\ downlink = "deliver_data" /\ tun_fd # "open"
        /\ downlink' = "report"
        /\ UNCHANGED keepalive_misses
     \/ /\ \/ downlink = "deliver_data" /\ tun_fd = "open"
           \/ downlink = "deliver_keepalive"
        /\ downlink' = "receive"
        /\ keepalive_misses' = 0
  /\ UNCHANGED <<downlinkFrame, inbound, tunnel, tun_fd, uplink_wake_fd,
                 write_lock, tearing_down, unexpected_exit_reported>>

\* The kernel refuses one packet (it is no IP packet, say): the thread stops,
\* with the TUN device still up.
DownlinkWriteFails ==
  /\ downlink = "deliver_data" /\ tun_fd = "open"
  /\ downlink' = "report"
  /\ RealFailure
  /\ UNCHANGED <<mainVars, sharedVars, uplink, worldVars, posted>>

(***************************************************************************)
(* report_unexpected_thread_exit(), by either thread as it ends.  The      *)
(* flag is read first; the compare-and-exchange decides who posts.         *)
(***************************************************************************)

reportFrame == <<main, started, keepalive_source, failures, tunnel, tun_fd,
                 uplink_wake_fd, write_lock, keepalive_misses, tearing_down,
                 worldVars, broken>>

AfterFlagCheck == IF tearing_down THEN "done" ELSE "post"

UplinkReport ==
  /\ uplink = "report"
  /\ uplink' = AfterFlagCheck
  /\ UNCHANGED <<reportFrame, idle, unexpected_exit_reported, downlink, posted>>

\* Mutant: the downlink thread returns without a report.
DownlinkReportForgotten ==
  /\ downlink = "report"
  /\ downlink' = "done"
  /\ UNCHANGED <<reportFrame, idle, unexpected_exit_reported, uplink, posted>>

DownlinkReport ==
  /\ downlink = "report"
  /\ downlink' = AfterFlagCheck
  /\ UNCHANGED <<reportFrame, idle, unexpected_exit_reported, uplink, posted>>

\* Mutant: both threads post.
PostReportAlways(thread) ==
  /\ idle' = idle \cup {<<thread, started>>}
  /\ posted' = posted \cup {<<thread, started>>}
  /\ unexpected_exit_reported' = TRUE
  /\ UNCHANGED reportFrame

\* The exchange and, for the winner, g_idle_add().
PostReport(thread) ==
  /\ IF unexpected_exit_reported
     THEN UNCHANGED <<idle, posted>>
     ELSE /\ idle' = idle \cup {<<thread, started>>}
          /\ posted' = posted \cup {<<thread, started>>}
  /\ unexpected_exit_reported' = TRUE
  /\ UNCHANGED reportFrame

UplinkPost   == uplink = "post" /\ uplink' = "done" /\ UNCHANGED downlink
                  /\ PostReport("uplink")
DownlinkPost == downlink = "post" /\ downlink' = "done" /\ UNCHANGED uplink
                  /\ PostReport("downlink")

-----------------------------------------------------------------------------
(***************************************************************************)
(* The gateway, the network between, and the TUN device.                   *)
(***************************************************************************)

worldFrame == <<mainVars, threadVars, uplink_wake_fd, write_lock,
                keepalive_misses, tearing_down, unexpected_exit_reported,
                posted>>

\* The gateway closes or resets the connection, or sends a malformed frame.
LinkBreaks ==
  /\ tunnel = "open"
  /\ tunnel' = "broken" /\ stalled' = FALSE
  /\ RealFailure
  /\ UNCHANGED <<worldFrame, tun_fd, inbound, outbound>>

\* Somebody deletes the interface under the plugin.
DeviceFails ==
  /\ tun_fd = "open"
  /\ tun_fd' = "failed"
  /\ RealFailure
  /\ UNCHANGED <<worldFrame, tunnel, worldVars>>

GatewaySends ==
  /\ tunnel = "open" /\ inbound = "none"
  /\ inbound' \in Packets \ {"none"}
  /\ UNCHANGED <<worldFrame, tunnel, tun_fd, outbound, stalled, broken>>

GatewayStalls ==
  /\ GatewayMayStall /\ tunnel = "open"
  /\ stalled' = ~stalled
  /\ UNCHANGED <<worldFrame, tunnel, tun_fd, inbound, outbound, broken>>

HostSends ==
  /\ tun_fd = "open" /\ ~outbound
  /\ outbound' = TRUE
  /\ UNCHANGED <<worldFrame, tunnel, tun_fd, inbound, stalled, broken>>

-----------------------------------------------------------------------------
KeepaliveTick == KeepaliveGiveUp \/ KeepaliveAttempt
KeepaliveSend == KeepaliveSent \/ KeepaliveSendFails

MainLoop == StartForwarding \/ KeepaliveTick \/ KeepaliveLock \/ KeepaliveSend
              \/ ReportThreadFailure

Teardown == BeginTeardown \/ TeardownClose \/ TeardownWake \/ TeardownCloseFd
              \/ JoinDownlink \/ JoinUplink \/ TeardownFinish

Uplink == UplinkPoll \/ UplinkPollFails \/ UplinkWake \/ UplinkNoticesClose
            \/ UplinkRead \/ UplinkLock \/ UplinkSend \/ UplinkReport
            \/ UplinkPost

Downlink == DownlinkReceive \/ DownlinkDeliver \/ DownlinkWriteFails
              \/ DownlinkReport \/ DownlinkPost

World == LinkBreaks \/ DeviceFails \/ GatewaySends \/ GatewayStalls \/ HostSends

Next == MainLoop \/ Teardown \/ Uplink \/ Downlink \/ World

Spec == Init /\ [][Next]_vars

(***************************************************************************)
(* Fairness.  Runnable threads run, and the main loop dispatches what is   *)
(* ready: the timer again and again, and between two ticks, seconds apart, *)
(* the idle sources and the mutex.  Nothing is assumed of NetworkManager   *)
(* (it need not disconnect), of the gateway, of the host's traffic, or of  *)
(* poll() noticing a closed descriptor.                                    *)
(***************************************************************************)
Fairness ==
  /\ SF_vars(KeepaliveTick) /\ SF_vars(ReportThreadFailure)
  /\ SF_vars(KeepaliveLock) /\ WF_vars(KeepaliveSend)
  /\ WF_vars(TeardownClose) /\ WF_vars(TeardownWake) /\ WF_vars(TeardownCloseFd)
  /\ WF_vars(JoinDownlink) /\ WF_vars(JoinUplink) /\ WF_vars(TeardownFinish)
  /\ WF_vars(UplinkPoll) /\ WF_vars(UplinkWake) /\ WF_vars(UplinkRead)
  /\ SF_vars(UplinkLock) /\ WF_vars(UplinkSend)
  /\ WF_vars(UplinkReport) /\ WF_vars(UplinkPost)
  /\ WF_vars(DownlinkReceive) /\ WF_vars(DownlinkDeliver)
  /\ WF_vars(DownlinkReport) /\ WF_vars(DownlinkPost)

FairSpec == Spec /\ Fairness

-----------------------------------------------------------------------------
(***************************************************************************)
(* Safety.                                                                 *)
(***************************************************************************)

\* A thread posts a report only for a tunnel whose link or device failed
\* before teardown_tunnel() set tearing_down: the shutdown, the eventfd and the
\* closed descriptor of an intentional teardown are never taken for a failure
\* (report_unexpected_thread_exit, teardown_tunnel).
NoFalseReport == \A r \in posted : r[2] \in broken

\* Both threads share one tunnel and tend to die together, yet only one of
\* them posts, in any interleaving with the re-arming of the flags
\* (unexpected_exit_reported).
AtMostOneReport == \A q, r \in posted : q[2] = r[2] => q = r

\* snx_ssl_tunnel_free() runs only when neither thread and no keepalive can
\* still touch the tunnel they captured (g_thread_join before g_clear_pointer).
TunnelOutlivesItsUsers ==
  tunnel = "null" =>
    /\ main \notin {"ka_lock", "ka_send"}
    /\ uplink \in {"none", "done"} /\ downlink \in {"none", "done"}

\* The keepalive timer dereferences self->tunnel without a check, so it is
\* armed only while an unclosed tunnel is there.
KeepaliveHasATunnel == keepalive_source => tunnel \in {"open", "broken"}

\* write_packet() of a data packet and of a keepalive never overlap: the bytes
\* of two SLIM frames would mix (write_lock).
FramesDoNotInterleave == ~(main = "ka_send" /\ uplink = "send")

\* Whatever the threads were doing, teardown_tunnel() leaves the plugin as
\* snx_vpn_plugin_init() made it, so that the next attempt starts clean.
TeardownLeavesNothing ==
  main = "loop" /\ tunnel = "null" =>
    /\ uplink = "none" /\ downlink = "none"
    /\ tun_fd = "closed" /\ uplink_wake_fd = "closed"
    /\ write_lock = "free" /\ ~keepalive_source
    /\ ~tearing_down /\ ~unexpected_exit_reported

\* A tunnel is declared dead by the keepalive timer at most once: the tick that
\* gives up, and the one whose send fails, both end the timer.
OneKeepaliveVerdict ==
  \A t \in Tunnels : ~({<<"stuck", t>>, <<"send", t>>} \subseteq failures)

\* All of this together is the life of a tunnel as the rest of the service
\* knows it: the steps of the threads, of the timer and of teardown_tunnel(), in
\* whatever order they come, are starting, failing, reporting and ending.
\* The tunnel ends when teardown_tunnel() frees it.
Life == INSTANCE TunnelLife WITH
          current  <- IF tunnel = "null" THEN 0 ELSE started,
          ending   <- tearing_down /\ tunnel # "null",
          reported <- {r[2] : r \in posted},
          pending  <- {r[2] : r \in idle}

ImplementsLife == Life!Spec

(***************************************************************************)
(* Liveness, under Fairness.                                               *)
(***************************************************************************)

\* teardown_tunnel() returns, also while the gateway has stopped reading and a
\* send hangs in the uplink thread: shutdown() and the eventfd free both joins.
TeardownTerminates == tearing_down ~> ~tearing_down

\* A dead link is signalled to NetworkManager, unless it is torn down first.
BrokenLinkIsSignalled ==
  \A t \in Tunnels :
    (tunnel = "broken" /\ started = t) ~>
      (tearing_down \/ \E c \in Causes : <<c, t>> \in failures)

\* A gateway that no longer answers but still reads is found out by the
\* keepalive timer (src/nm-snx-service.c:549-555).
SilentReaderIsSignalled ==
  \A t \in Tunnels :
    (keepalive_source /\ started = t /\ [](inbound = "none" /\ ~stalled)) ~>
      (tearing_down \/ \E c \in Causes : <<c, t>> \in failures)

\* "the ongoing read relies on the protocol-level keepalive-miss detection"
\* (snx-ssl-tunnel.c:307): a gateway that no longer answers is found out.
SilentGatewayIsSignalled ==
  \A t \in Tunnels :
    (keepalive_source /\ started = t /\ [](inbound = "none")) ~>
      (tearing_down \/ \E c \in Causes : <<c, t>> \in failures)

=============================================================================
