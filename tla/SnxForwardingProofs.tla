------------------------- MODULE SnxForwardingProofs -------------------------
(***************************************************************************)
(* The safety of module SnxForwarding for every number of tunnels, every   *)
(* limit of missed keepalives, and whatever eventfd() and the gateway do.  *)
(*                                                                         *)
(* IInv is the inductive invariant.  Its parts say who may hold the lock,  *)
(* what teardown_tunnel() has already undone at each of its steps, why a   *)
(* thread that is about to report has a reason to, and that the flag       *)
(* unexpected_exit_reported is as good as the history of posted reports.   *)
(* From it also follows that every step is one of the life of a tunnel as  *)
(* module TunnelLife has it, or none.                                      *)
(***************************************************************************)
EXTENDS SnxForwarding, TLAPS

InTeardown == {"td_close", "td_wake", "td_fd", "td_join_down", "td_join_up",
               "td_finish"}

\* The current tunnel failed for real, or is being torn down.
Excused == tearing_down \/ started \in broken

FlagInv == tearing_down <=> main \in InTeardown

LockInv ==
  /\ write_lock = "main" <=> main = "ka_send"
  /\ write_lock = "uplink" <=> uplink = "send"

KeepaliveInv ==
  /\ keepalive_source => tunnel \in {"open", "broken"} /\ ~tearing_down
  /\ main \in {"ka_lock", "ka_send"} => keepalive_source

\* What is gone at each step of the teardown, and at rest.
TeardownInv ==
  /\ tunnel = "null" =>
       /\ uplink = "none" /\ downlink = "none"
       /\ tun_fd = "closed" /\ uplink_wake_fd = "closed"
       /\ ~unexpected_exit_reported
  /\ tunnel = "shut" => main \in InTeardown \ {"td_close"}
  /\ main \in InTeardown \ {"td_close"} => tunnel \in {"null", "shut"}
  /\ main \in {"td_join_down", "td_join_up", "td_finish"} => tun_fd = "closed"
  /\ main \in {"td_join_up", "td_finish"} => downlink = "none"
  /\ main = "td_finish" => uplink = "none"

\* Nothing ends a thread before the tunnel is broken or torn down.
ReasonInv ==
  /\ tunnel = "broken" => Excused
  /\ tun_fd = "failed" => Excused
  /\ tun_fd = "closed" => tunnel = "null" \/ tearing_down
  /\ uplink_wake_fd = "signalled" => tearing_down
  /\ uplink = "report" => Excused
  /\ downlink = "report" => Excused
  /\ uplink = "post" => started \in broken
  /\ downlink = "post" => started \in broken

\* Reports and verdicts concern tunnels that were started; the flag knows
\* whether the current tunnel, while there is one, was reported.
HistoryInv ==
  /\ tunnel # "null" => started # 0
  /\ \A t \in broken : t <= started
  /\ \A r \in posted : r[2] <= started
  /\ \A f \in failures : f[2] <= started
  /\ idle \subseteq posted
  /\ tunnel # "null" /\ ~unexpected_exit_reported =>
       \A r \in posted : r[2] # started
  /\ keepalive_source =>
       \A f \in failures : f[2] = started => f[1] = "thread"

IInv ==
  /\ TypeOK
  /\ FlagInv
  /\ LockInv
  /\ KeepaliveInv
  /\ TeardownInv
  /\ ReasonInv
  /\ HistoryInv
  /\ NoFalseReport
  /\ AtMostOneReport
  /\ OneKeepaliveVerdict
-----------------------------------------------------------------------------
USE ForwardingConstants
USE DEF Tunnels, Threads, Causes, Packets, MainPC, UplinkPC, DownlinkPC,
        mainVars, sharedVars, threadVars, worldVars, historyVars,
        uplinkFrame, downlinkFrame, reportFrame, worldFrame

\* Every step keeps the types.  A failure names the current tunnel, which
\* exists because the timer is armed.
LEMMA StepTypeOK ==
  ASSUME IInv, [Next]_vars
  PROVE  TypeOK'
<1>. USE DEF IInv, TypeOK, KeepaliveInv, TeardownInv, HistoryInv
<1>1. CASE StartForwarding
  BY <1>1 DEF StartForwarding
<1>2. CASE KeepaliveGiveUp
  <2>1. keepalive_source' \in BOOLEAN
    BY <1>2 DEF KeepaliveGiveUp
  <2>2. failures' \subseteq Causes \X Tunnels
    BY <1>2 DEF KeepaliveGiveUp
  <2>. QED
    BY <1>2, <2>1, <2>2 DEF KeepaliveGiveUp
<1>3. CASE KeepaliveAttempt
  BY <1>3 DEF KeepaliveAttempt
<1>4. CASE KeepaliveLock
  BY <1>4 DEF KeepaliveLock
<1>5. CASE KeepaliveSent
  BY <1>5 DEF KeepaliveSent, WriteSucceeds
<1>6. CASE KeepaliveSendFails
  <2>1. keepalive_source' \in BOOLEAN
    BY <1>6 DEF KeepaliveSendFails, WriteFails
  <2>2. failures' \subseteq Causes \X Tunnels
    BY <1>6 DEF KeepaliveSendFails, WriteFails
  <2>. QED
    BY <1>6, <2>1, <2>2 DEF KeepaliveSendFails, WriteFails
<1>7. CASE ReportThreadFailure
  BY <1>7 DEF ReportThreadFailure
<1>8. CASE BeginTeardown
  <2>1. keepalive_source' \in BOOLEAN
    BY <1>8 DEF BeginTeardown
  <2>. QED
    BY <1>8, <2>1 DEF BeginTeardown
<1>9. CASE TeardownClose
  <2>1. stalled' \in BOOLEAN
    BY <1>9 DEF TeardownClose
  <2>. QED
    BY <1>9, <2>1 DEF TeardownClose
<1>10. CASE TeardownWake
  BY <1>10 DEF TeardownWake
<1>11. CASE TeardownCloseFd
  <2>1. outbound' \in BOOLEAN
    BY <1>11 DEF TeardownCloseFd
  <2>. QED
    BY <1>11, <2>1 DEF TeardownCloseFd
<1>12. CASE JoinDownlink
  BY <1>12 DEF JoinDownlink
<1>13. CASE JoinUplink
  BY <1>13 DEF JoinUplink
<1>14. CASE TeardownFinish
  BY <1>14 DEF TeardownFinish
<1>15. CASE UplinkPoll
  BY <1>15 DEF UplinkPoll
<1>16. CASE UplinkPollFails
  BY <1>16 DEF UplinkPollFails, RealFailure
<1>17. CASE UplinkWake
  BY <1>17 DEF UplinkWake
<1>18. CASE UplinkNoticesClose
  BY <1>18 DEF UplinkNoticesClose
<1>19. CASE UplinkRead
  <2>1. outbound' \in BOOLEAN
    BY <1>19 DEF UplinkRead
  <2>. QED
    BY <1>19, <2>1 DEF UplinkRead
<1>20. CASE UplinkLock
  BY <1>20 DEF UplinkLock
<1>21. CASE UplinkSend
  BY <1>21 DEF UplinkSend, WriteSucceeds, WriteFails
<1>22. CASE UplinkReport
  BY <1>22 DEF UplinkReport, AfterFlagCheck
<1>23. CASE UplinkPost
  BY <1>23 DEF UplinkPost, PostReport
<1>24. CASE DownlinkReceive
  BY <1>24 DEF DownlinkReceive
<1>25. CASE DownlinkDeliver
  BY <1>25 DEF DownlinkDeliver
<1>26. CASE DownlinkWriteFails
  BY <1>26 DEF DownlinkWriteFails, RealFailure
<1>27. CASE DownlinkReport
  BY <1>27 DEF DownlinkReport, AfterFlagCheck
<1>28. CASE DownlinkPost
  BY <1>28 DEF DownlinkPost, PostReport
<1>29. CASE LinkBreaks
  <2>1. stalled' \in BOOLEAN
    BY <1>29 DEF LinkBreaks, RealFailure
  <2>. QED
    BY <1>29, <2>1 DEF LinkBreaks, RealFailure
<1>30. CASE DeviceFails
  BY <1>30 DEF DeviceFails, RealFailure
<1>31. CASE GatewaySends
  BY <1>31 DEF GatewaySends
<1>32. CASE GatewayStalls
  BY <1>32 DEF GatewayStalls
<1>33. CASE HostSends
  BY <1>33 DEF HostSends
<1>34. CASE UNCHANGED vars
  BY <1>34 DEF vars
<1>. QED
  BY <1>1, <1>2, <1>3, <1>4, <1>5, <1>6, <1>7, <1>8, <1>9, <1>10,
     <1>11, <1>12, <1>13, <1>14, <1>15, <1>16, <1>17, <1>18, <1>19, <1>20,
     <1>21, <1>22, <1>23, <1>24, <1>25, <1>26, <1>27, <1>28, <1>29, <1>30,
     <1>31, <1>32, <1>33, <1>34
     DEF Next, MainLoop, KeepaliveTick, KeepaliveSend, Teardown, Uplink, Downlink, World

\* Every step keeps the control parts: who holds the lock, and how far
\* teardown_tunnel() has come.
LEMMA StepControl ==
  ASSUME IInv, [Next]_vars
  PROVE  (FlagInv /\ LockInv /\ KeepaliveInv /\ TeardownInv)'
<1>. USE DEF IInv, TypeOK, FlagInv, LockInv, KeepaliveInv, TeardownInv, InTeardown
<1>1. CASE StartForwarding
  BY <1>1 DEF StartForwarding
<1>2. CASE KeepaliveGiveUp
  BY <1>2 DEF KeepaliveGiveUp
<1>3. CASE KeepaliveAttempt
  BY <1>3 DEF KeepaliveAttempt
<1>4. CASE KeepaliveLock
  BY <1>4 DEF KeepaliveLock
<1>5. CASE KeepaliveSent
  BY <1>5 DEF KeepaliveSent, WriteSucceeds
<1>6. CASE KeepaliveSendFails
  BY <1>6 DEF KeepaliveSendFails, WriteFails
<1>7. CASE ReportThreadFailure
  BY <1>7 DEF ReportThreadFailure
<1>8. CASE BeginTeardown
  BY <1>8 DEF BeginTeardown
<1>9. CASE TeardownClose
  BY <1>9 DEF TeardownClose
<1>10. CASE TeardownWake
  BY <1>10 DEF TeardownWake
<1>11. CASE TeardownCloseFd
  BY <1>11 DEF TeardownCloseFd
<1>12. CASE JoinDownlink
  BY <1>12 DEF JoinDownlink
<1>13. CASE JoinUplink
  BY <1>13 DEF JoinUplink
<1>14. CASE TeardownFinish
  BY <1>14 DEF TeardownFinish
<1>15. CASE UplinkPoll
  BY <1>15 DEF UplinkPoll
<1>16. CASE UplinkPollFails
  BY <1>16 DEF UplinkPollFails, RealFailure
<1>17. CASE UplinkWake
  BY <1>17 DEF UplinkWake
<1>18. CASE UplinkNoticesClose
  BY <1>18 DEF UplinkNoticesClose
<1>19. CASE UplinkRead
  BY <1>19 DEF UplinkRead
<1>20. CASE UplinkLock
  BY <1>20 DEF UplinkLock
<1>21. CASE UplinkSend
  BY <1>21 DEF UplinkSend, WriteSucceeds, WriteFails
<1>22. CASE UplinkReport
  BY <1>22 DEF UplinkReport, AfterFlagCheck
<1>23. CASE UplinkPost
  BY <1>23 DEF UplinkPost, PostReport
<1>24. CASE DownlinkReceive
  BY <1>24 DEF DownlinkReceive
<1>25. CASE DownlinkDeliver
  BY <1>25 DEF DownlinkDeliver
<1>26. CASE DownlinkWriteFails
  BY <1>26 DEF DownlinkWriteFails, RealFailure
<1>27. CASE DownlinkReport
  BY <1>27 DEF DownlinkReport, AfterFlagCheck
<1>28. CASE DownlinkPost
  BY <1>28 DEF DownlinkPost, PostReport
<1>29. CASE LinkBreaks
  BY <1>29 DEF LinkBreaks, RealFailure
<1>30. CASE DeviceFails
  BY <1>30 DEF DeviceFails, RealFailure
<1>31. CASE GatewaySends
  BY <1>31 DEF GatewaySends
<1>32. CASE GatewayStalls
  BY <1>32 DEF GatewayStalls
<1>33. CASE HostSends
  BY <1>33 DEF HostSends
<1>34. CASE UNCHANGED vars
  BY <1>34 DEF vars
<1>. QED
  BY <1>1, <1>2, <1>3, <1>4, <1>5, <1>6, <1>7, <1>8, <1>9, <1>10,
     <1>11, <1>12, <1>13, <1>14, <1>15, <1>16, <1>17, <1>18, <1>19, <1>20,
     <1>21, <1>22, <1>23, <1>24, <1>25, <1>26, <1>27, <1>28, <1>29, <1>30,
     <1>31, <1>32, <1>33, <1>34
     DEF Next, MainLoop, KeepaliveTick, KeepaliveSend, Teardown, Uplink, Downlink, World

\* Every step keeps the reasons: no thread leaves its loop, and none passes
\* the flag check, without one.
LEMMA StepReason ==
  ASSUME IInv, [Next]_vars
  PROVE  ReasonInv'
<1>. USE DEF IInv, TypeOK, FlagInv, TeardownInv, ReasonInv, Excused, InTeardown
<1>1. CASE StartForwarding
  BY <1>1 DEF StartForwarding
<1>2. CASE KeepaliveGiveUp
  BY <1>2 DEF KeepaliveGiveUp
<1>3. CASE KeepaliveAttempt
  BY <1>3 DEF KeepaliveAttempt
<1>4. CASE KeepaliveLock
  BY <1>4 DEF KeepaliveLock
<1>5. CASE KeepaliveSent
  BY <1>5 DEF KeepaliveSent, WriteSucceeds
<1>6. CASE KeepaliveSendFails
  BY <1>6 DEF KeepaliveSendFails, WriteFails
<1>7. CASE ReportThreadFailure
  BY <1>7 DEF ReportThreadFailure
<1>8. CASE BeginTeardown
  BY <1>8 DEF BeginTeardown
<1>9. CASE TeardownClose
  BY <1>9 DEF TeardownClose
<1>10. CASE TeardownWake
  BY <1>10 DEF TeardownWake
<1>11. CASE TeardownCloseFd
  BY <1>11 DEF TeardownCloseFd
<1>12. CASE JoinDownlink
  BY <1>12 DEF JoinDownlink
<1>13. CASE JoinUplink
  BY <1>13 DEF JoinUplink
<1>14. CASE TeardownFinish
  BY <1>14 DEF TeardownFinish
<1>15. CASE UplinkPoll
  BY <1>15 DEF UplinkPoll
<1>16. CASE UplinkPollFails
  BY <1>16 DEF UplinkPollFails, RealFailure
<1>17. CASE UplinkWake
  BY <1>17 DEF UplinkWake
<1>18. CASE UplinkNoticesClose
  BY <1>18 DEF UplinkNoticesClose
<1>19. CASE UplinkRead
  BY <1>19 DEF UplinkRead
<1>20. CASE UplinkLock
  BY <1>20 DEF UplinkLock
<1>21. CASE UplinkSend
  BY <1>21 DEF UplinkSend, WriteSucceeds, WriteFails
<1>22. CASE UplinkReport
  BY <1>22 DEF UplinkReport, AfterFlagCheck
<1>23. CASE UplinkPost
  BY <1>23 DEF UplinkPost, PostReport
<1>24. CASE DownlinkReceive
  BY <1>24 DEF DownlinkReceive
<1>25. CASE DownlinkDeliver
  BY <1>25 DEF DownlinkDeliver
<1>26. CASE DownlinkWriteFails
  BY <1>26 DEF DownlinkWriteFails, RealFailure
<1>27. CASE DownlinkReport
  BY <1>27 DEF DownlinkReport, AfterFlagCheck
<1>28. CASE DownlinkPost
  BY <1>28 DEF DownlinkPost, PostReport
<1>29. CASE LinkBreaks
  BY <1>29 DEF LinkBreaks, RealFailure
<1>30. CASE DeviceFails
  BY <1>30 DEF DeviceFails, RealFailure
<1>31. CASE GatewaySends
  BY <1>31 DEF GatewaySends
<1>32. CASE GatewayStalls
  BY <1>32 DEF GatewayStalls
<1>33. CASE HostSends
  BY <1>33 DEF HostSends
<1>34. CASE UNCHANGED vars
  BY <1>34 DEF vars
<1>. QED
  BY <1>1, <1>2, <1>3, <1>4, <1>5, <1>6, <1>7, <1>8, <1>9, <1>10,
     <1>11, <1>12, <1>13, <1>14, <1>15, <1>16, <1>17, <1>18, <1>19, <1>20,
     <1>21, <1>22, <1>23, <1>24, <1>25, <1>26, <1>27, <1>28, <1>29, <1>30,
     <1>31, <1>32, <1>33, <1>34
     DEF Next, MainLoop, KeepaliveTick, KeepaliveSend, Teardown, Uplink, Downlink, World

\* Every step keeps what posted, idle and failures say of the past.
LEMMA StepHistory ==
  ASSUME IInv, [Next]_vars
  PROVE  (HistoryInv /\ NoFalseReport /\ AtMostOneReport /\ OneKeepaliveVerdict)'
<1>. USE DEF IInv, TypeOK, KeepaliveInv, TeardownInv, ReasonInv, HistoryInv,
           NoFalseReport, AtMostOneReport, OneKeepaliveVerdict, Excused
<1>1. CASE StartForwarding
  BY <1>1 DEF StartForwarding
<1>2. CASE KeepaliveGiveUp
  <2>1. HistoryInv'
    BY <1>2 DEF KeepaliveGiveUp
  <2>2. (NoFalseReport /\ AtMostOneReport)'
    BY <1>2 DEF KeepaliveGiveUp
  <2>3. OneKeepaliveVerdict'
    BY <1>2 DEF KeepaliveGiveUp
  <2>. QED
    BY <1>2, <2>1, <2>2, <2>3 DEF KeepaliveGiveUp
<1>3. CASE KeepaliveAttempt
  BY <1>3 DEF KeepaliveAttempt
<1>4. CASE KeepaliveLock
  BY <1>4 DEF KeepaliveLock
<1>5. CASE KeepaliveSent
  BY <1>5 DEF KeepaliveSent, WriteSucceeds
<1>6. CASE KeepaliveSendFails
  <2>1. HistoryInv'
    BY <1>6 DEF KeepaliveSendFails, WriteFails
  <2>2. (NoFalseReport /\ AtMostOneReport)'
    BY <1>6 DEF KeepaliveSendFails, WriteFails
  <2>3. OneKeepaliveVerdict'
    BY <1>6 DEF KeepaliveSendFails, WriteFails
  <2>. QED
    BY <1>6, <2>1, <2>2, <2>3 DEF KeepaliveSendFails, WriteFails
<1>7. CASE ReportThreadFailure
  BY <1>7 DEF ReportThreadFailure
<1>8. CASE BeginTeardown
  BY <1>8 DEF BeginTeardown
<1>9. CASE TeardownClose
  BY <1>9 DEF TeardownClose
<1>10. CASE TeardownWake
  BY <1>10 DEF TeardownWake
<1>11. CASE TeardownCloseFd
  BY <1>11 DEF TeardownCloseFd
<1>12. CASE JoinDownlink
  BY <1>12 DEF JoinDownlink
<1>13. CASE JoinUplink
  BY <1>13 DEF JoinUplink
<1>14. CASE TeardownFinish
  BY <1>14 DEF TeardownFinish
<1>15. CASE UplinkPoll
  BY <1>15 DEF UplinkPoll
<1>16. CASE UplinkPollFails
  BY <1>16 DEF UplinkPollFails, RealFailure
<1>17. CASE UplinkWake
  BY <1>17 DEF UplinkWake
<1>18. CASE UplinkNoticesClose
  BY <1>18 DEF UplinkNoticesClose
<1>19. CASE UplinkRead
  BY <1>19 DEF UplinkRead
<1>20. CASE UplinkLock
  BY <1>20 DEF UplinkLock
<1>21. CASE UplinkSend
  BY <1>21 DEF UplinkSend, WriteSucceeds, WriteFails
<1>22. CASE UplinkReport
  BY <1>22 DEF UplinkReport, AfterFlagCheck
<1>23. CASE UplinkPost
  BY <1>23 DEF UplinkPost, PostReport
<1>24. CASE DownlinkReceive
  BY <1>24 DEF DownlinkReceive
<1>25. CASE DownlinkDeliver
  BY <1>25 DEF DownlinkDeliver
<1>26. CASE DownlinkWriteFails
  BY <1>26 DEF DownlinkWriteFails, RealFailure
<1>27. CASE DownlinkReport
  BY <1>27 DEF DownlinkReport, AfterFlagCheck
<1>28. CASE DownlinkPost
  BY <1>28 DEF DownlinkPost, PostReport
<1>29. CASE LinkBreaks
  BY <1>29 DEF LinkBreaks, RealFailure
<1>30. CASE DeviceFails
  BY <1>30 DEF DeviceFails, RealFailure
<1>31. CASE GatewaySends
  BY <1>31 DEF GatewaySends
<1>32. CASE GatewayStalls
  BY <1>32 DEF GatewayStalls
<1>33. CASE HostSends
  BY <1>33 DEF HostSends
<1>34. CASE UNCHANGED vars
  BY <1>34 DEF vars
<1>. QED
  BY <1>1, <1>2, <1>3, <1>4, <1>5, <1>6, <1>7, <1>8, <1>9, <1>10,
     <1>11, <1>12, <1>13, <1>14, <1>15, <1>16, <1>17, <1>18, <1>19, <1>20,
     <1>21, <1>22, <1>23, <1>24, <1>25, <1>26, <1>27, <1>28, <1>29, <1>30,
     <1>31, <1>32, <1>33, <1>34
     DEF Next, MainLoop, KeepaliveTick, KeepaliveSend, Teardown, Uplink, Downlink, World

\* IInv is inductive: it holds initially and every step keeps it, so it holds
\* in every reachable state of the forwarding half.
THEOREM Inductive == Spec => []IInv
<1>1. Init => IInv
  <2>. SUFFICES ASSUME Init
                PROVE  IInv
    OBVIOUS
  <2>1. TypeOK
    <3>1. /\ keepalive_source \in BOOLEAN /\ tearing_down \in BOOLEAN
          /\ unexpected_exit_reported \in BOOLEAN
          /\ outbound \in BOOLEAN /\ stalled \in BOOLEAN
      BY Zenon DEF Init
    <3>2. started \in 0 .. MaxTunnels /\ keepalive_misses \in 0 .. MaxMisses
      BY DEF Init
    <3>. QED
      BY <3>1, <3>2, Zenon DEF Init, TypeOK
  <2>2. FlagInv /\ LockInv /\ KeepaliveInv /\ TeardownInv
    BY DEF Init, FlagInv, LockInv, KeepaliveInv, TeardownInv, InTeardown
  <2>3. ReasonInv
    BY DEF Init, ReasonInv
  <2>4. HistoryInv /\ NoFalseReport /\ AtMostOneReport /\ OneKeepaliveVerdict
    BY DEF Init, HistoryInv, NoFalseReport, AtMostOneReport,
           OneKeepaliveVerdict
  <2>. QED
    BY <2>1, <2>2, <2>3, <2>4 DEF IInv
<1>2. ASSUME IInv, [Next]_vars
      PROVE  IInv'
  <2>1. TypeOK'
    BY <1>2, StepTypeOK
  <2>2. (FlagInv /\ LockInv /\ KeepaliveInv /\ TeardownInv)'
    BY <1>2, StepControl
  <2>3. ReasonInv'
    BY <1>2, StepReason
  <2>4. (HistoryInv /\ NoFalseReport /\ AtMostOneReport /\ OneKeepaliveVerdict)'
    BY <1>2, StepHistory
  <2>. QED
    BY <2>1, <2>2, <2>3, <2>4 DEF IInv
<1>. QED
  BY <1>1, <1>2, PTL DEF Spec

\* The types of start_forwarding()'s and teardown_tunnel()'s bookkeeping.
THEOREM TypeCorrect == Spec => []TypeOK
<1>1. IInv => TypeOK
  BY DEF IInv
<1>. QED
  BY <1>1, Inductive, PTL

\* No intentional teardown is ever reported as a failure of the tunnel
\* (tearing_down in report_unexpected_thread_exit()).
THEOREM ReportsAreGenuine == Spec => []NoFalseReport
<1>1. IInv => NoFalseReport
  BY DEF IInv
<1>. QED
  BY <1>1, Inductive, PTL

\* The two threads of one tunnel post one report between them
\* (unexpected_exit_reported in report_unexpected_thread_exit()).
THEOREM ReportsAreUnique == Spec => []AtMostOneReport
<1>1. IInv => AtMostOneReport
  BY DEF IInv
<1>. QED
  BY <1>1, Inductive, PTL

\* on_keepalive_tick() gives at most one verdict on a tunnel.
THEOREM VerdictsAreUnique == Spec => []OneKeepaliveVerdict
<1>1. IInv => OneKeepaliveVerdict
  BY DEF IInv
<1>. QED
  BY <1>1, Inductive, PTL

\* The tunnel is freed after its last use by thread or timer, and the timer
\* never meets a closed or missing one (teardown_tunnel()).
THEOREM NoUseAfterFree == Spec => [](TunnelOutlivesItsUsers /\ KeepaliveHasATunnel)
<1>1. IInv => TunnelOutlivesItsUsers /\ KeepaliveHasATunnel
  BY DEF IInv, KeepaliveInv, TeardownInv, TunnelOutlivesItsUsers,
         KeepaliveHasATunnel
<1>. QED
  BY <1>1, Inductive, PTL

\* tunnel->write_lock keeps the frames of the two writers apart.
THEOREM FramesAreWhole == Spec => []FramesDoNotInterleave
<1>1. IInv => FramesDoNotInterleave
  BY DEF IInv, LockInv, FramesDoNotInterleave
<1>. QED
  BY <1>1, Inductive, PTL

\* teardown_tunnel() restores the initial state of the plugin.
THEOREM TeardownIsComplete == Spec => []TeardownLeavesNothing
<1>1. IInv => TeardownLeavesNothing
  BY DEF IInv, TypeOK, FlagInv, LockInv, KeepaliveInv, TeardownInv, InTeardown,
         TeardownLeavesNothing
<1>. QED
  BY <1>1, Inductive, PTL

-----------------------------------------------------------------------------
(* The life of a tunnel.                                                   *)

USE DEF Life!lifeVars, Life!Verdicts

Current == IF tunnel = "null" THEN 0 ELSE started
Ending == tearing_down /\ tunnel # "null"
Reported == {r[2] : r \in posted}
Pending == {r[2] : r \in idle}

\* The reading of a state as one of TunnelLife.
lifeOf == <<started, Current, Ending, broken, Reported, Pending, failures>>

\* What only moves the packets, the lock or a thread is no step of the life.
LEMMA LifeStutters ==
  ASSUME UNCHANGED <<started, broken, posted, idle, failures>>,
         (tunnel = "null") <=> (tunnel' = "null"),
         tunnel # "null" => UNCHANGED tearing_down
  PROVE  UNCHANGED lifeOf
<1>1. UNCHANGED <<Current, Reported, Pending>>
  BY DEF Current, Reported, Pending
<1>2. UNCHANGED Ending
  BY DEF Ending
<1>. QED
  BY <1>1, <1>2 DEF lifeOf

\* A real failure breaks the tunnel, unless it is one of the ending.
LEMMA FailureIsABreak ==
  ASSUME RealFailure, tunnel # "null", tunnel' # "null", started # 0,
         UNCHANGED <<started, posted, idle, failures, tearing_down>>
  PROVE  Life!Break \/ UNCHANGED lifeOf
<1>1. UNCHANGED <<Current, Ending, Reported, Pending>>
  BY DEF Current, Ending, Reported, Pending
<1>2. CASE tearing_down
  BY <1>1, <1>2 DEF RealFailure, lifeOf
<1>3. CASE ~tearing_down
  <2>1. Current # 0 /\ ~Ending /\ broken' = broken \cup {Current}
    BY <1>3 DEF RealFailure, Current, Ending
  <2>. QED
    BY <1>1, <2>1 DEF Life!Break, Current, Ending, Reported, Pending
<1>. QED
  BY <1>2, <1>3

LEMMA OneMoreSecond ==
  ASSUME NEW S, NEW x
  PROVE  {r[2] : r \in S \cup {x}} = {r[2] : r \in S} \cup {x[2]}
OBVIOUS

\* The thread that wins the exchange reports the tunnel, for the first time.
LEMMA PostIsAReport ==
  ASSUME IInv, NEW thread \in Threads, PostReport(thread),
         started \in broken, tunnel # "null"
  PROVE  Life!Report \/ UNCHANGED lifeOf
<1>1. UNCHANGED <<started, broken, failures, Current, Ending>>
  BY DEF PostReport, Current, Ending
<1>2. CASE unexpected_exit_reported
  BY <1>1, <1>2 DEF PostReport, lifeOf, Reported, Pending
<1>3. CASE ~unexpected_exit_reported
  <2>1. Current = started
    BY DEF Current
  <2>2. started \notin Reported
    BY <1>3 DEF IInv, HistoryInv, Reported
  <2>3. posted' = posted \cup {<<thread, started>>} /\ idle' = idle \cup {<<thread, started>>}
    BY <1>3 DEF PostReport
  <2>4. <<thread, started>>[2] = started
    OBVIOUS
  <2>5. /\ {r[2] : r \in posted \cup {<<thread, started>>}} = Reported \cup {started}
        /\ {r[2] : r \in idle \cup {<<thread, started>>}} = Pending \cup {started}
    BY <2>4, OneMoreSecond DEF Reported, Pending
  <2>6. Reported' = Reported \cup {started} /\ Pending' = Pending \cup {started}
    BY <2>3, <2>5 DEF Reported, Pending
  <2>. QED
    BY <1>1, <2>1, <2>2, <2>6 DEF Life!Report, Current, Ending, Reported, Pending
<1>. QED
  BY <1>2, <1>3

\* The idle callback tells of one tunnel; no other pending report is about it.
LEMMA CallbackTells ==
  ASSUME IInv, ReportThreadFailure
  PROVE  Life!Tell
<1>1. PICK r \in idle : /\ idle' = idle \ {r}
                        /\ failures' = failures \cup {<<"thread", r[2]>>}
  BY DEF ReportThreadFailure
<1>2. \A q \in idle : q[2] = r[2] => q = r
  BY DEF IInv, HistoryInv, AtMostOneReport
<1>3. r[2] \in Pending /\ Pending' = Pending \ {r[2]}
  BY <1>1, <1>2 DEF Pending
<1>4. UNCHANGED <<started, broken, posted, Current, Ending, Reported>>
  BY DEF ReportThreadFailure, Current, Ending, Reported
<1>. QED
  BY <1>1, <1>3, <1>4 DEF Life!Tell, Current, Ending, Reported, Pending

\* A verdict of the timer is about the tunnel that is there, and its only one.
LEMMA VerdictGivesUp ==
  ASSUME IInv, keepalive_source, NEW cause \in {"stuck", "send"},
         failures' = failures \cup {<<cause, started>>},
         UNCHANGED <<started, tunnel, tearing_down, historyVars, idle>>
  PROVE  Life!GiveUp
<1>1. tunnel # "null" /\ started # 0 /\ ~tearing_down
  BY DEF IInv, KeepaliveInv, HistoryInv
<1>2. Current = started /\ ~Ending
  BY <1>1 DEF Current, Ending
<1>3. \A c \in {"stuck", "send"} : <<c, started>> \notin failures
  BY DEF IInv, HistoryInv
<1>4. UNCHANGED <<Current, Ending, Reported, Pending>>
  BY DEF Current, Ending, Reported, Pending
<1>. QED
  BY <1>1, <1>2, <1>3, <1>4 DEF Life!GiveUp, Current, Ending, Reported, Pending

\* Every step of the forwarding half is one of the tunnel's life, or none.
LEMMA LifeStep ==
  ASSUME IInv, [Next]_vars
  PROVE  Life!Next \/ UNCHANGED lifeOf
<1>. USE DEF IInv, TypeOK
<1>1. CASE StartForwarding
  <2>1. Current = 0 /\ ~Ending /\ ~Ending' /\ Current' = started'
    BY <1>1 DEF StartForwarding, FlagInv, InTeardown, Current, Ending
  <2>2. UNCHANGED <<broken, Reported, Pending, failures>>
    BY <1>1 DEF StartForwarding, Reported, Pending
  <2>3. Ending' = Ending
    BY <1>1, <2>1 DEF StartForwarding, Ending
  <2>. QED
    BY <1>1, <2>1, <2>2, <2>3
       DEF StartForwarding, Life!Next, Life!Start, Current, Ending, Reported, Pending
<1>2. CASE KeepaliveGiveUp
  BY <1>2, VerdictGivesUp DEF KeepaliveGiveUp, Life!Next
<1>3. CASE KeepaliveAttempt \/ KeepaliveLock \/ KeepaliveSent
  BY <1>3, LifeStutters DEF KeepaliveAttempt, KeepaliveLock, KeepaliveSent
<1>4. CASE KeepaliveSendFails
  BY <1>4, VerdictGivesUp DEF KeepaliveSendFails, KeepaliveInv, Life!Next
<1>5. CASE ReportThreadFailure
  BY <1>5, CallbackTells DEF Life!Next
<1>6. CASE BeginTeardown
  <2>1. ~tearing_down
    BY <1>6 DEF BeginTeardown, FlagInv, InTeardown
  <2>2. UNCHANGED <<started, broken, failures, Current, Reported, Pending>>
    BY <1>6 DEF BeginTeardown, Current, Reported, Pending
  <2>3. CASE tunnel = "null"
    BY <1>6, <2>3, LifeStutters DEF BeginTeardown
  <2>4. CASE tunnel # "null"
    <3>1. Current # 0 /\ ~Ending /\ Ending'
      BY <1>6, <2>1, <2>4 DEF BeginTeardown, HistoryInv, Current, Ending
    <3>2. Ending' = TRUE
      BY <1>6, <2>4 DEF BeginTeardown, Ending
    <3>. QED
      BY <2>2, <3>1, <3>2 DEF Life!Next, Life!BeginEnding, Current, Ending, Reported, Pending
  <2>. QED
    BY <2>3, <2>4
<1>7. CASE TeardownClose
  BY <1>7, LifeStutters DEF TeardownClose
<1>8. CASE TeardownWake \/ TeardownCloseFd \/ JoinDownlink \/ JoinUplink
  BY <1>8, LifeStutters DEF TeardownWake, TeardownCloseFd, JoinDownlink, JoinUplink
<1>9. CASE TeardownFinish
  <2>1. UNCHANGED <<started, broken, failures, Reported, Pending>>
    BY <1>9 DEF TeardownFinish, Reported, Pending
  <2>2. CASE tunnel = "null"
    BY <1>9, <2>2, LifeStutters DEF TeardownFinish
  <2>3. CASE tunnel # "null"
    <3>1. Ending
      BY <1>9, <2>3 DEF TeardownFinish, FlagInv, InTeardown, Ending
    <3>2. Current' = 0 /\ Ending' = FALSE
      BY <1>9 DEF TeardownFinish, Current, Ending
    <3>. QED
      BY <2>1, <3>1, <3>2 DEF Life!Next, Life!End, Current, Ending, Reported, Pending
  <2>. QED
    BY <2>2, <2>3
<1>10. CASE UplinkPollFails
  BY <1>10, FailureIsABreak DEF UplinkPollFails, TeardownInv, HistoryInv, Life!Next
<1>11. CASE UplinkPoll \/ UplinkWake \/ UplinkNoticesClose \/ UplinkRead \/ UplinkLock \/ UplinkSend
  BY <1>11, LifeStutters
     DEF UplinkPoll, UplinkWake, UplinkNoticesClose, UplinkRead, UplinkLock, UplinkSend
<1>12. CASE UplinkReport \/ DownlinkReport
  BY <1>12, LifeStutters DEF UplinkReport, DownlinkReport
<1>13. CASE UplinkPost
  BY <1>13, PostIsAReport DEF UplinkPost, ReasonInv, TeardownInv, Life!Next
<1>14. CASE DownlinkPost
  BY <1>14, PostIsAReport DEF DownlinkPost, ReasonInv, TeardownInv, Life!Next
<1>15. CASE DownlinkReceive \/ DownlinkDeliver
  BY <1>15, LifeStutters DEF DownlinkReceive, DownlinkDeliver
<1>16. CASE DownlinkWriteFails
  BY <1>16, FailureIsABreak DEF DownlinkWriteFails, TeardownInv, HistoryInv, Life!Next
<1>17. CASE LinkBreaks
  BY <1>17, FailureIsABreak DEF LinkBreaks, HistoryInv, Life!Next
<1>18. CASE DeviceFails
  BY <1>18, FailureIsABreak DEF DeviceFails, TeardownInv, HistoryInv, Life!Next
<1>19. CASE GatewaySends \/ GatewayStalls \/ HostSends
  BY <1>19, LifeStutters DEF GatewaySends, GatewayStalls, HostSends
<1>20. CASE UNCHANGED vars
  BY <1>20, LifeStutters DEF vars
<1>. QED
  BY <1>1, <1>2, <1>3, <1>4, <1>5, <1>6, <1>7, <1>8, <1>9, <1>10, <1>11, <1>12, <1>13, <1>14,
     <1>15, <1>16, <1>17, <1>18, <1>19, <1>20
     DEF Next, MainLoop, KeepaliveTick, KeepaliveSend, Teardown, Uplink, Downlink, World

\* Threads, timer and teardown_tunnel() together live the life of a tunnel that
\* the rest of the service knows: whatever order their steps come in, a tunnel
\* is reported at most once, while it is there and because it failed, and ends once.
THEOREM ForwardingImplementsLife == Spec => ImplementsLife
<1>1. Init => Life!Init
  BY DEF Init, Life!Init
<1>2. ASSUME IInv, [Next]_vars
      PROVE  [Life!Next]_(Life!lifeVars)
  <2>1. Life!Next \/ UNCHANGED lifeOf
    BY <1>2, LifeStep
  <2>. QED
    BY <2>1 DEF lifeOf, Current, Ending, Reported, Pending
<1>. QED
  BY <1>1, <1>2, Inductive, PTL DEF Spec, ImplementsLife, Life!Spec
=============================================================================
