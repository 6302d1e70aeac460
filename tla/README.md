# Verification of networkmanager-snx

TLA+ models of the NetworkManager plugin for Check Point SNX, checked with TLC
on small instances and proved with TLAPS for all of them. Paths are relative to
the root of this verification project: `src/` is the repository.

## The system

NetworkManager starts a service process (`src/src/nm-snx-service.c`) and talks
to it over D-Bus: `Connect`, `NewSecrets`, `Disconnect`. The service logs in at
the gateway over HTTPS (CCC, perhaps with a verification code), opens a TLS
tunnel that carries SLIM frames, makes a TUN device, sets addresses and routes
over netlink, reports the configuration to NetworkManager, and then moves
packets with two threads until something breaks or it is told to stop. GNOME
and Plasma have an editor for the connection and a dialog for its secrets.

| Component | State | Operations | Talks to | What makes it correct |
|---|---|---|---|---|
| Service plugin (`nm-snx-service.c`) | fields of `SnxVpnPlugin`, cancellable, tasks | D-Bus calls, callbacks of the main loop, two kinds of worker thread, signals | libnm, CCC, tunnel, TUN, netlink | one attempt in charge; a late result changes nothing; what is open has an owner; every attempt is answered |
| Forwarding (same file) | two threads, keepalive timer, eventfd, two atomic flags | start, tick, uplink, downlink, report, teardown | tunnel, TUN, main loop | real failures reported once; no use after free; teardown ends |
| SSL tunnel (`snx-ssl-tunnel.c`, `snx-slim.c`) | connection, receive buffer, write lock | connect and hello, send, receive, close, free | gateway | whole frames in order, in both directions |
| TUN, netlink (`snx-tun.c`, `snx-netlink.c`) | the kernel's | create; link, address, routes | kernel | one device per name; routes undone |
| CCC client (`snx-ccc.c`) | none | discover, authenticate, challenge; HTTP, chunks | gateway | answers classified rightly; lengths respected |
| Configuration (`snx-config.c`) | `SnxConfig` | parse, validate, needs-password | service, editors | defaults and errors agree everywhere |
| IPv4 configuration (`snx-ip4-config.c`) | none | ranges to prefixes, routes, domains | service | a range is covered exactly |
| S-expressions (`snx-sexpr.c`, `snx-sexpr-writer.c`) | none | parse, write | CCC, tunnel | what is written is read back |
| Obfuscation (`snx-obfuscate.c`) | none | encode, decode | CCC | decoding inverts encoding |
| Dialogs and editors (`src/gnome`, `src/plasma`) | widgets, a copy of the settings | edit, apply, ask for secrets | NetworkManager, users | what is shown is what is saved |
| Tools (`nm-snx-discover.c`, `nm-snx-tun-test.c`) | none | one-shot diagnostics | CCC, TUN | - |

`src/common` holds built artefacts and a copy of `src/src`; it, the packaging
and the vendored headers have no logic of their own.

**What is hard.** The worker threads share the plugin's fields with the main
loop without a lock; only the cancellable orders them. The forwarding threads
and `teardown_tunnel()` meet in blocking calls, two flags, a mutex and three
descriptors. The user's verification code comes back in another D-Bus call,
and `Disconnect`, SIGTERM, libnm's timer and a new `Connect` may come between any two
steps. `PROJECT.json` lists each hazard at its line with the properties that
would show it.

## Modules

### `SnxForwarding` - threads, keepalive and teardown

One action per step another thread can observe. `main` is where the main loop
is; `uplink` and `downlink` are where the threads are.

| Code | Actions |
|---|---|
| `start_forwarding()` | `StartForwarding` |
| `on_keepalive_tick()`, `snx_ssl_tunnel_send_keepalive()` | `KeepaliveGiveUp`, `KeepaliveAttempt`, `KeepaliveLock`, `KeepaliveSent`, `KeepaliveSendFails` |
| `teardown_tunnel()` | `BeginTeardown`, `TeardownClose`, `TeardownWake`, `TeardownCloseFd`, `JoinDownlink`, `JoinUplink`, `TeardownFinish` |
| `uplink_thread_func()` | `UplinkPoll`, `UplinkPollFails`, `UplinkWake`, `UplinkNoticesClose`, `UplinkRead`, `UplinkLock`, `UplinkSend` |
| `downlink_thread_func()` | `DownlinkReceive`, `DownlinkDeliver`, `DownlinkWriteFails` |
| `report_unexpected_thread_exit()`, `on_forwarding_thread_failed()` | `UplinkReport`, `UplinkPost`, `DownlinkReport`, `DownlinkPost`, `ReportThreadFailure` |
| gateway, kernel (external) | `LinkBreaks`, `DeviceFails`, `GatewaySends`, `GatewayStalls`, `HostSends` |

A packet is `data`, `keepalive` or `control`. `stalled` says that the gateway no
longer reads, so a write on the live socket blocks. `broken` and `posted` are
history: which tunnels failed for real, which reports were posted.

`TunnelLife` is what the rest of the service may take all this for: a tunnel starts,
may fail, and ends when the service ends it; its failure is reported at most once, by its
own threads while it is there, and told once, perhaps when it is gone.
`SnxForwarding` implements it (`ImplementsLife`, checked and proved). The tunnel
ends when `teardown_tunnel()` frees it.

### `SnxService` - attempts, D-Bus operations and workers

One action per main-loop callback; in the workers one per access to a shared
field or change in the kernel. An attempt stands for one `Connect()`: its
cancellable, its task, its tunnel, its TUN device. A profile stands for its
configuration and for its gateway's address. `AuthWorker` returns any of the
outcomes of the CCC client.

| Code | Actions |
|---|---|
| `snx_vpn_connect()`, `snx_vpn_connect_interactive()` | `Connect`, `ConnectRefused` |
| `snx_vpn_new_secrets()` | `NewSecrets`, `NewSecretsRefused` |
| `snx_vpn_disconnect()` | `Disconnect` |
| `auth_thread_func()`, `on_auth_done()` | `AuthWorker`; `AuthCancelled`, `AuthError`, `AuthContinue`, `AuthDenied`, `AuthDone` |
| `tunnel_thread_func()`, `configure_interface()` | `OpenTunnel` ... `PublishFd`, `WorkerFails`, `CheckCancelled` |
| `on_tunnel_done()`, `finish_connect()` | `TunnelCancelled`, `TunnelError`, `FinishConnect`, `FinishConnectFails` |
| `start_forwarding()`, `teardown_tunnel()` | `StartForwarding`, `TeardownTunnel`, `DeleteBypassRoute` |
| `report_unexpected_thread_exit()`, `on_forwarding_thread_failed()` | `ReportUnexpectedThreadExit`, `OnForwardingThreadFailed` |
| `on_keepalive_tick()`, its failures | `KeepaliveFails` |
| `on_term_signal()`, `on_plugin_quit()`, end of `main()` | `Terminate`, `Quit`, `ExitProcess` |
| libnm, kernel (external) | `FailStop`, `Crash`, `Gone` |

`teardown_tunnel()` is one step here (`TeardownTunnel`); that it ends is what
`SnxForwarding` shows, given that the tunnel it closes is the one the threads
captured, which is `TeardownReachesThreads` here. If it were not, the step is
disabled: the main loop hangs. It deletes the bypass route on record, or fails to, and
it removes the keepalive timer; the report of a thread that is already queued
it leaves in the queue (`posted`). When the main loop comes to it, perhaps after a
`Disconnect` or in the next attempt, Failure is emitted: the signal is `late` if its attempt
is no longer the current one. `nm_vpn_service_plugin_failure()` emits the signal and leaves
the state of the service alone. libnm is modelled from what the code relies on:
it admits `Connect` only when stopped, `NewSecrets` only while starting,
and stops from an idle callback after a refused call.

A worker that was cancelled reads `self->config` and `self->gateway_ip` while the main loop may be
re-parsing them. The model gives it the current values, any interface name if
the configuration is no longer its own, and the possibility of a crash.

### `SnxTunnelStream`, `FrameChannel` - the tunnel as a stream of bytes

`FrameChannel` is what the callers of the tunnel rely on: the gateway's frames
come out whole, once and in order, behind an opening reply, and an open tunnel
ends only when a side ended it or a frame was unreadable. `SnxTunnelStream` is how
the code does it, with frames as stretches of a byte stream, reads that
cut it anywhere, and one receive buffer shared by the handshake and the downlink
thread. It implements `FrameChannel` (`ImplementsChannel`, checked and proved).

| Code | Definitions |
|---|---|
| `snx_slim_encode()`, `snx_slim_decode()` | `FrameLen`, `Headers`, `Packets` |
| `read_one_packet()` | `ReadMore`, `ReadFails`, `ReadTimesOut`, `UnknownPacket`, `Deliver` |
| `snx_ssl_tunnel_connect()` | `SayHello`, `SayHelloFails`, `HandshakeSucceeds`, `HandshakeRefused` |
| `snx_ssl_tunnel_receive()`, `snx_ssl_tunnel_close()` | `Receive`, `Close` |
| gateway (external) | `GatewaySends`, `GatewayEnds` |

Where the buffer does not begin at a frame, the decoder may find anything:
losing step is free to go wrong.

### `Sexpr`, `SnxObfuscate`, `SnxMessages`, `SnxExchange` - requests and answers

`Sexpr` has the parser, the accessors and the writer of S-expressions over
sequences of symbols, `SnxObfuscate` the byte-wise scheme for credentials,
`SnxMessages` the builders of requests, the parsers of replies and the replies a
gateway may write. `SnxExchange` sends one request at a time and reads
its answer.

| Code | Definitions |
|---|---|
| `auth_thread_func()`, `on_auth_done()`, challenge, hello: what follows what | `Follows`, `Build`, `Ask`, `Finish` |
| `http_post()` | `Connect`, `ConnectFails`, `Write`, `WriteFails`, `Read`, `ReadFails`, `ReadEnds` |
| `parse_http_response()`, `dechunk()` | `HttpBody`, `Dechunk` |
| `parse_gateway_info()`, `parse_auth_result()`, `snx_ssl_parse_hello_reply()` | `Understand` and its operators in `SnxMessages` |

A secret is obfuscated and written in hexadecimal. The login type, the session id and
the cookie, which is the decoded key, are written as they are, between quotes if they have
to be. Replies escape a quote, a backslash and a line break, and the parser undoes it
(`ParseQuoted`, `Unescaped`); the writer escapes nothing, so that `RequestReadsBack` speaks of values
without quote and backslash. A session id of the run has both.
A field that is not there (`Absent`) is left out of the request.

Each reply is paired with what it says (`says`), so that what the caller gets
can be compared with what the gateway meant. The header lines of an answer are
two symbols; status and framing are fields of the reply.

### `CidrBlocks`, `RangeToCidrs`, `SnxRoutes` - from ranges to routes

`CidrBlocks` has the data: addresses of `Width` bits, blocks, and `Cidrs`, the
blocks a range is cut into, defined by what they are. `RangeToCidrs` is the
double loop of `snx_ip4_range_to_cidrs()`, one action per turn: `Widen` for the
inner loop, `Advance` and `Finish` for the outer one. Its run checks that the
loop ends with `Cidrs`, which `SnxRoutes` uses in its place.

`SnxRoutes` follows one attempt over a routing table that has routes of its own:
one netlink request a step, the exception route for the
gateway looked up in the table as it is then, what is announced at the end, and
what `teardown_tunnel()` takes back. Any request may fail: refused, never sent, or
served with its acknowledgement lost. So may the deletion at teardown.
`unconfirmed` is history: the bypass routes whose addition or deletion was reported
to have failed, which may be in the kernel and are on no record. A route text, or a domain, is a record of
what its readers tell apart in it.

| Code | Definitions |
|---|---|
| `collect_route_specs()`, `append_*_route_specs()` | `AppendRange`, `RangeSpecs`, `PrivateAddresses`, `AppendPrivateSubnets`, `AppendDnsRoutes`, `CollectRouteSpecs` |
| `append_dns_servers()`, `collect_dns_servers()` | `UsedServers`, `AppendNew`, `AppendAllNew`, `AppendIfIn`, `CollectDnsServers` |
| `collect_search_domains()`, `snx_normalize_*_domain()` | `SameDomain`, `IsIgnored`, `AnnouncedDomains`, `CollectSearchDomains`, `NormalizeSearchDomain`, `NormalizeRoutingDomain` |
| `configure_interface()` | `LinkUp`, `AddAddress`, `LookUpGateway`, `AddBypassRoute`, `AddBypassRouteFails`, `AddDefaultRoute`, `KeepDefaultRoute`, `AddRouteFromSpec`, `AddRouteFails`, `NetlinkFails`, `Configured` |
| `snx-netlink.c` and the kernel | `RouteAdded`, `RequestFails`, `KernelAccepts`, `Connected`, `RouteOf` |
| `parse_route_spec()`, `finish_connect()` | `ParsesSpec`, `ParseRouteSpec`, `CanAnnounce`, `FinishConnect`, `FinishConnectFails` |
| `teardown_tunnel()` | `TeardownTunnel`, `Disconnect` |

### `SnxConfig`, `SnxProfile` - items, editors and prompts

`SnxConfig` reads a configuration from the items of a connection: names,
defaults, the order in which NetworkManager walks the items, and the first one
that does not parse. `SnxProfile` is a stored profile that is edited in either
editor, one at a time and in any order, and activated in between.

| Code | Definitions |
|---|---|
| `snx_config_from_connection()`, `snx_config_apply_item()`, `snx_config_validate_for_connect()`, `snx_config_needs_password()` | `FromConnection`, `ApplyItems`, `ValueOf`, `SplitCsv`, `Parses`, `ValidateForConnect`, `NeedsPassword` |
| `nm-snx-editor.c` | `OpenGnome`, `AcceptGnome`, `SnapshotTake`, `SnapshotRestore`, `Join`, `GnomeItems`, `Merged`, `GnomeUpdate`, `Given` |
| `snxwidget.cpp`, `snxadvancedwidget.cpp` | `OpenPlasma`, `AcceptPlasma`, `PlasmaShown`, `AdvancedItems`, `MainItems`, `PlasmaSetting` |
| both | `EditMain`, `EditAdvanced`, `EditSecret`, `ToggleCertificate`, `SelectLogin`, `OpenAdvanced`, `CancelAdvanced`, `QueryClicked`, `QueryFails`, `QueryDone`, `Save`, `Close` |
| `nm-snx-auth-dialog.c`, `snx_vpn_need_secrets()` | `Activate`, `ShouldAsk`, `HasFlag`, `NeedSecrets` |

`held` are the secrets the GNOME editor's connection came with, which are none unless they
were fetched. Saving gives NetworkManager those typed and those held (`Given`); given
none at all it keeps the stored ones (`Stored`, external).
The auth dialog walks the items in the order of a hash table, `ApplyItems` in that of their names:
it matters only after an item that does not parse.

`intended` is the configuration the user means: what was in force when the editor
opened, with what was edited since and not cancelled.

The modules also hold *mutants*: forms of an action with the slip a
programmer might make (a guard or a reset forgotten). None is used by `Next`.
`PROJECT.json` names, for each property, the mutant that breaks it.

`MCService` gives the constants of `SnxService` their values: a profile with
the default route through the tunnel and one without; one interface name for
both or one each. `MCRoutes`, `MCExchange`, `MCProfile` and `MCRangeToCidrs` have
the routing tables, replies, logins, profiles and block sizes of their runs;
`SnxForwarding` and `SnxTunnelStream` take numbers and need none.

## Runs

| Run | Instance | What it shows |
|---|---|---|
| `forwarding` | 2 tunnels, 3 misses, eventfd may fail, gateway may stall | six safety properties, `ImplementsLife`, and no deadlock |
| `forwarding_live` | 1 tunnel, 3 misses, eventfd works, gateway may stall, fair | `TeardownTerminates`, `BrokenLinkIsSignalled`, `SilentReaderIsSignalled` |
| `forwarding_stall` | the same | **violated**: the keepalive blocks the main loop |
| `service_control` | 2 attempts, own names, unsolicited secrets, fair | `OneLiveTask`, `AwaitingIsIdle`, `EveryAttemptIsAnswered` |
| `service_tunnel` | 3 attempts (symmetric), one name | ownership, bypass route, no leak, `StoppedOnlyReportsLate`; threads die, the timer gives up, deletions fail |
| `service_publish` | 2 attempts, one name | **violated**: `StoppedHoldsNoTunnel` |
| `range_to_cidrs` | every range of 5-bit addresses | the loop returns; cover exact, disjoint, aligned, widest |
| `routes` | 3-bit addresses; families of profiles and replies, 4 routing tables | kernel and NetworkManager agree; exactly the intended addresses are tunnelled; whatever request fails, teardown undoes the routes but for a bypass route whose request was reported to have failed; domains are exact |
| `stream` | 3 frames of 2 lengths, header 2, reads of at most 3 bytes, fair | the buffer stays in step, frames arrive, an idle tunnel stays up, `ImplementsChannel` |
| `exchange` | every reply and framing, cut at every symbol | requests read back; only whole answers are answers; a missing close_notify does not matter |
| `profile` | 5 profiles, 4 openings and changes | saving means what was shown and loses nothing; prompts agree with the service's needs |
| `profile_plasma` | the same | **violated**: `EditorsAreInterchangeable` |

**Bounds.** `MaxTunnels` = 2 lets a report, a thread or a flag of one tunnel meet the
next; three misses is the code's limit. Two attempts let a worker of a
cancelled one meet the current one, three let two cancelled workers meet it.
`Attempts` and `MaxTunnels` are the only artificial bounds of these two modules, on how often
something starts; the proofs have none. `RangeToCidrs` is checked for every
range of a short address: both ends of the address space, single addresses and
backward ranges are among them, and its proofs hold for 32 bits. The profiles and
replies of `MCRoutes` come in families (servers, added routes, domains; ranges,
address and mask), which are combined with each other and with a host behind a
router, one that has a route of its own to the gateway, one with the gateway in its
subnet, and one without a network. Three frames let the hello reply and two
later frames share a buffer; a header longer than one byte and a read
longer than the header but shorter than a frame cut frames in every place. The
one login of `MCExchange` has the characters that need quoting and the bytes at
the edges of the obfuscation's table; replies have a key and session ids that need quoting, one with a quote, a backslash
and a line break; chunk sizes are 1 and 9. `MaxSteps` = 4 is enough to open both
editors one after the other with a change in each, or one with three changes around
its advanced dialog; opening a dialog, cancelling, accepting, saving and closing are not counted.

TLC's deadlock check is off where the system ends: the exited process
(`SnxService`), the loop, the attempt, the lost tunnel (`RangeToCidrs`,
`SnxRoutes`, `SnxTunnelStream`), and the activation of a profile, after
which `SnxProfile` has nothing to do. It is on for `SnxForwarding` and `SnxExchange`.

**Fairness.** Threads that can run do. In `SnxForwarding` the main loop
dispatches the timer, the idle source and a free mutex infinitely often if they are
ready infinitely often (strong fairness: ticks are seconds apart, the rest is
not). A `poll()` that sleeps is not assumed to notice a descriptor closed under it,
as the comment on `uplink_wake_fd` warns; that is why `forwarding_live` needs
a working eventfd. In `SnxService` a worker's calls return: the CCC requests
and the handshake have time limits, netlink answers at once. In `SnxTunnelStream`
the reader takes its next step when the socket has something for it (weak
fairness: it is a thread in a loop). Nothing is assumed
of NetworkManager, the user or the gateway.

## What was found

- `forwarding_stall`: a gateway that stops reading blocks the keepalive's write
  in the main loop, or the uplink's under the write lock, before the limit of
  misses is reached. No Failure is ever signalled. (`snx-ssl-tunnel.c:307-310`
  relies on the keepalive for just this.) A `Disconnect` cannot be dispatched
  either while the main loop is in that write.
- `service_publish`: the check at `nm-snx-service.c:776` and the publication at
  788-790 are not atomic against `Disconnect`. The stopped service keeps the
  device until the next `Connect` or its exit. With two interface names the
  same race could overwrite a newer attempt's tunnel; that is why the ownership
  properties are stated for one name, which the code's default gives.
- `profile_plasma`: Plasma's advanced dialog shows an item the profile leaves out as
  false, zero or the least value, not as the service's default, and accepting
  it writes all of them. `src/plasma/README.md:3` calls the editors interchangeable.

What the models contain and no run is about:

- A thread's report that is queued when the tunnel is torn down is still told:
  Failure reaches NetworkManager after `Disconnect`, or in the middle of the next
  attempt. `StoppedOnlyReportsLate` admits it, and nothing else.
- A bypass route whose deletion fails at teardown is off the record and stays; so does
  one the kernel took though its addition was reported to have failed (`unconfirmed`).
- A cancelled worker never removes the bypass route it added (`Abort` of
  `SnxService`); `TeardownUndoesRoutes` speaks of attempts that were not cancelled.
- The exception route for the gateway is made only with `default-route`: a
  gateway whose ranges contain its own address is routed into its own tunnel
  (`KeepDefaultRoute`).
- `ignore-routes`, offered by both editors, is read and never used.
- The range of all addresses is cut into two halves (`Cidrs` excludes prefix
  0), though `snx-ip4-config.h:10-12` promises the minimal set.
- An added route with host bits is normalised by the reader that publishes it
  (`ParseRouteSpec`) but refused by the kernel through the one that installs it
  (`RefusesSpec`), so the connection fails.
- A domain of several dots is taken for a name and becomes `~` (`NamesADomain`).
- A route to the gateway that the host had is replaced by the bypass route and not
  restored; `TeardownUndoesRoutes` names it as an exception.
- Private subnets are inferred from the gateway's domains even if the profile
  ignores all of them (`InfersSubnets`).
- They are inferred whatever ranges the gateway gives: with the range of one /16 of `10.0.0.0/8`
  and a DNS server in it, all of `10.0.0.0/8` goes through the tunnel. The comment at
  `nm-snx-service.c:315-316` speaks of gateways that only provide DNS hosts,
  `docs/DESIGN_NOTES.md:22` of one that omits the matching range.
  `SplitTunnelIsExact` demands such a subnet where no range meets it and leaves it open elsewhere.
- A request whose login type, session id or cookie has a quote or a backslash cannot be
  read back (`SerializeNode`).
- If the GNOME editor was opened without the secrets and one of two is typed, NetworkManager is
  given that one and forgets the other, though the comment at
  `nm-snx-editor.c:194-200` has an empty field leave a secret alone. `SecretsGoOnRequest` speaks
  of secrets that were fetched, and of all when nothing is typed.

## Proofs

`SnxForwardingProofs` proves, for every `MaxTunnels`, every `MaxMisses` and whatever eventfd
and gateway do, the safety properties of `SnxForwarding`, `TypeOK` and
`KeepaliveHasATunnel` (the timer never meets a closed tunnel) among them. None of them is
inductive. `IInv` adds who may hold the write lock, what teardown has undone at
each of its steps, why a thread that is about to report has a reason, and that
`unexpected_exit_reported` agrees with the history of reports. Four lemmas, one
per kind of part, go through the actions; `Inductive` puts them together.
`ForwardingImplementsLife` takes each action to a step of `TunnelLife` or a stutter:
a real failure breaks the tunnel unless it is ending, the winner of the exchange reports one
that broke and was not reported, a verdict is the first on a tunnel that is there. `IInv` is
what makes each of these true.

`SnxServiceProofs` has three layers, for every finite or infinite set of attempts and profiles:

1. `ControlInv` is inductive by itself: types, unused attempts are nowhere
   recorded, the current attempt is not cancelled and owns `config`, and with
   these `OneLiveTask` and `AwaitingIsIdle`.
2. `QuietInv` holds if secrets come only when asked for (`~ UnsolicitedSecrets`),
   and gives `StoppedOnlyReportsLate`: a stopped service has no task
   that is not cancelled. `ReportInv` adds that only an announced connection has threads and a timer,
   and that the reports in the queue are of that connection or of cancelled ones. The hypothesis is needed: a `NewSecrets` without a code, sent while
   a challenge is in flight, stops the service under a live task.
3. `TunnelInv` holds if all profiles have one interface name
   (`OneInterfaceName`). The kernel admits one device of a name, so a
   worker that holds it, or a published one, excludes every other worker from the
   steps after `snx_tun_create()`: the name is the lock the code does not
   have. It gives `StartedOwnsItsTunnel`, `StartedHasBypassRoute`,
   `TeardownReachesThreads` and `NothingLeaks`.

`RangeToCidrsProofs` proves, for addresses of any width, types,
`CoversExactly`, `BlocksAreDisjoint` and `BlocksAreAligned`. `LoopInv` is the
loop invariant: the kept blocks tile `first .. from - 1` and the block at hand
starts at `from`, is aligned and ends within the range. `RangeConstants` gives
the block sizes as a function that doubles from one prefix to the next shorter one, and is
bounded by that of prefix 0; powers of two are what it holds for. `BlocksAreWidest` follows
from it too: the inner loop stopped because the next wider block is not aligned or
reaches beyond the range. That the loop returns is model-checked only.

`InductionLemmas` has what the proofs below need of recursive functions and of
finite sets: a property of a set of naturals with its zero and all successors, a
recursive function by its equations, a set put in order as a sequence. The library's induction
theorems take an operator, which the provers cannot instantiate; these
take a set instead, so that each use names the set of the arguments for which the
claim holds. `CidrBlocksProofs` uses them for `Cidrs`, the declarative form of
the loop: the blocks of any range share no address and cover the range exactly.

`SnxRoutesProofs` proves all five properties of the run `routes`, and the types, for any
width below 256, profiles, replies and routing tables. `RoutesInv` is what is
true between two netlink requests:

- the routes of the link are those of the beginning and the exception for the gateway, which
  is on record (`Beginning`, `Exception`, `OfTheLink`), and of those of the beginning only the
  ones are missing whose place the default, the exception or an installed route has
  taken (`Missing`): what `TeardownUndoesRoutes` needs wherever the attempt fails;
- the kernel has accepted every spec it was given so far and no route of the link keeps the
  place of one (`Taken`), so the tunnel's routes are those of its subnet, of these specs
  and perhaps the default (`OfTheTunnel`, `FullTunnel`): `KernelAgreesWithNM` and `FullTunnelIsExact`;
- what else is on the link is in `unconfirmed`, a host route to the gateway whose request
  failed (`Unconfirmed`), so that teardown leaves nothing else even if its own request fails;
- the servers, the specs and the domains are those the functions collect from the
  profile and the reply (`Given`). That these functions collect what is meant, for
  `SplitTunnelIsExact` and `DomainsAreExact`, are lemmas about folds, proved by
  induction on the length of the sequence.

`SnxProfileProofs` proves all five properties of the run `profile`,
for any words, profiles, edits, menus and offers. The readers of a profile (the
service, the GNOME editor, the auth dialog) all go through `ApplyItems()`
with different beginnings; the first part shows that what they find out about
secrets does not depend on the beginning, and that the secrets, read last, change
nothing but the secrets. From that follow `PromptSettlesTheNeed` and
`StoredPasswordGoesThrough`: the flags are read by the dialog, the need is
decided by the service without them. `ProfileInv` is the invariant: Plasma's copy of the
items, which accepting the advanced dialog overwrites, agrees with the
profile wherever no widget stands for an item, no empty secret is stored or held by the GNOME editor, where it holds any they are the stored ones (`HeldInv`),
and an activation is forgotten when an editor opens. It gives
`UnmanagedItemsSurvive` and `SecretsGoOnRequest`.

`SavedMeansWhatWasShown` rests on three more invariants and a lemma on lists:

- `FormInv`: the items are texts, the widgets of the advanced dialog and the snapshot of
  them hold what can be entered (`Enterable`), whichever were filled from the profile and
  which by the user, so that what is written from them parses.
- `EditInv` relates, key by key, what the widgets mean to `intended`, and the snapshot or
  the copy of the advanced dialog to `before`, so that a cancelled dialog goes back to what
  was meant when it opened. `MainInv` is about the form both editors have, `GnomeInv`
  about the hidden part of the GNOME form and its snapshot, `PlasmaInv` about Plasma's
  copy of the items, whether or not the advanced dialog was accepted. It is needed because
  an edit may be made with the dialog open: what a cancel goes back to is then neither the
  form nor the profile.
- `SavedInv`: after a save the profile is what `intended` says, which saving establishes
  from the other two, and every other step keeps or forgets (`Forgets`).
- `ListsRoundTrip`: the GNOME editor shows a list joined with `, ` and the service
  splits it again. That the parts come out the same, for lists of any length, is proved by
  induction twice: over the words of a part (`ReadPart`: the scanner drops the spaces before
  it and keeps those within it) and over the parts (`RejoinedPart`).

`SnxTunnelStreamProofs` proves, for any header length, read size, payload
lengths and number of frames, `BufferInStep`, `IdleTunnelStaysUp` and that the
stream implements `FrameChannel`. Its invariant adds that frames end in the order
in which they begin, that what was delivered is what was sent, and that the timeout is
gone once the tunnel is up. `DecoderSeesNextFrame` is the heart of it: what the decoder
finds at the front of the buffer is the first frame not delivered, whole. From there every
step of the stream is a step of the channel or a stutter.

`TypeOK` of `SnxForwarding`, `SnxService`, `SnxTunnelStream` and `RangeToCidrs` is proved and
therefore not among the runs' properties.

Most assumptions on constants (`ForwardingConstants`, `ServiceConstants`,
`HeaderLenAssumption` and so on) only say what kind of values they are. Three say more:

- `RoutesConstants`: a prefix fits a byte (`guint8` in `snx-netlink.h:22-38`), the private
  subnets are disjoint blocks (`snx-ip4-config.c:189-214`), the ends of a range are
  addresses, and the routes of the host have no host bits, which the kernel refuses.
- `WidgetConstants`: what users enter is what the widgets take (`Enterable`), a gateway
  offers login types that are not empty, and the items of a profile are texts of `Words`.
- `ProfileConstants`: different numbers have different numerals, a profile's
  secrets are the two the plugin knows, and none that is stored is empty, as
  neither editor stores an empty one (`nm-snx-editor.c:202`, `snxwidget.cpp:353-357`).

**Only model-checked.** Liveness: the prover does not reason about `ENABLED`.
The three properties of `SnxExchange` (`RequestReadsBack`, `AnswerIsWhole`,
`CloseWithoutNotifyIsTheEnd`): a document is a tree, the operators that write and read it
(`Sexpr`, `SnxMessages`) recurse over it, and the prover has no SMT backend in a module that
reaches such operators. `EditorsAreInterchangeable` and the other two statements of the
runs that expect a violation do not hold.

## Abstractions

- **Routes.** The subnet of the tunnel is none of the host's own. A gateway in
  the subnet of its own tunnel is excepted from `KernelAgreesWithNM` and
  `FullTunnelIsExact`. A range whose ends are no addresses is not considered.
- **Texts.** A text is a sequence of symbols, of which those the parser and the
  writer treat apart are single characters; the others may stand for words.
- **HTTP.** Chunk sizes are small numbers. `prompt` and `error_message` are
  obfuscated and decoded like `active_key` and are left out.
- **Profiles.** An item is a word or a list of words; the flags of a secret are a number
  as the editors write it. A bit of the flags is tested as the code does (`HasFlag`).
- **Plasma.** `snxwidget.cpp:208-212` connects a lambda with
  `Qt::UniqueConnection`, which Qt cannot compare. The model takes the
  connection to be made once.
- **Prompts.** The hint that a code is wanted changes only a label and is left
  out. A profile without a user name, or with a password that is not required,
  needs secrets whatever the user answers; `PromptSettlesTheNeed` excludes both.

## Not modelled, and the plan

Left out for good: the layout of netlink messages and of the variants
given to NetworkManager, certificate checks, the layout of widgets, the Plasma widget that asks for a
password (`snxauth.cpp`, which keeps no state), logging, the command-line
tools, packaging and vendored headers.

Every module of the plan is written, and every safety property outside `SnxExchange`
that the passing runs check is proved.
