----------------------------- MODULE SnxRoutes ------------------------------
(***************************************************************************)
(* The network configuration of one connection attempt, from the gateway's *)
(* reply and the profile to the kernel and to NetworkManager:              *)
(* collect_route_specs(), which configure_interface() and finish_connect() *)
(* both call, the two readers of its result, add_route_from_spec() and     *)
(* parse_route_spec(), the routing table between them, and what            *)
(* teardown_tunnel() takes back (src/nm-snx-service.c,                     *)
(* src/snx-ip4-config.c, src/snx-netlink.c).                               *)
(*                                                                         *)
(* A route specification is the text "destination/prefix".  Here it is a   *)
(* record of what the readers tell apart in it: whether the destination is *)
(* an address, whether there is a slash, the number the text behind the    *)
(* slash starts with (0 when it starts with none) and whether it is that   *)
(* number and nothing else.  A search domain is a record of its name, ""   *)
(* for none, whether a tilde precedes it, how many dots follow it and      *)
(* whether it is written in capitals.  Cancelled attempts are the matter   *)
(* of module SnxService.                                                   *)
(***************************************************************************)
EXTENDS CidrBlocks, SequencesExt

CONSTANTS
  Gateway,         \* address of the gateway
  PrivateSubnets,  \* the blocks snx_ip4_private_subnet_route_for_host() knows
  Profiles,        \* bound: the profiles considered
  Replies,         \* bound: the gateway replies considered
  Tables           \* bound: the routing tables to begin with

NoAddress == -1    \* a text that inet_pton() does not accept

Texts == Addresses \cup {NoAddress}

Specs == [dest : Texts, slash : BOOLEAN, num : Nat, exact : BOOLEAN]

Domains == [name : STRING, tilde : BOOLEAN, caps : BOOLEAN, dots : Nat]

\* via: by a router.
Routes == [dest : Addresses, prefix : 0 .. Width, dev : {"link", "tun"}, via : BOOLEAN]

ASSUME RoutesConstants ==
  /\ Width < 256  \* a guint8 holds every prefix
  /\ Gateway \in Addresses
  /\ PrivateSubnets \subseteq Blocks
  /\ \A b, c \in PrivateSubnets : b # c => Covers(b) \cap Covers(c) = {}
  /\ \A profile \in Profiles :
       /\ profile.default_route \in BOOLEAN
       /\ profile.no_routing \in BOOLEAN
       /\ profile.set_routing_domains \in BOOLEAN
       /\ profile.dns_servers \in Seq(Texts)
       /\ profile.ignore_dns_servers \subseteq Texts
       /\ profile.add_routes \in Seq(Specs)
       /\ profile.search_domains \in Seq(Domains)
       /\ profile.ignore_search_domains \subseteq Domains
  /\ \A reply \in Replies :
       /\ reply.ranges \in Seq([from : Addresses, to : Addresses])
       /\ reply.dns_servers \in Seq(Texts)
       /\ reply.search_domains \in Seq(Domains)
       /\ reply.assigned_ip \in Texts
       /\ reply.subnet_mask \in Texts
  /\ \A t \in Tables :
       t \subseteq {r \in Routes : r.dev = "link" /\ r.dest = Network(r.dest, r.prefix)}

VARIABLES
  config,       \* self->config
  hello_reply,
  phase,        \* where the attempt is
  next,         \* i of the loop in configure_interface()
  before,       \* the kernel's main routing table before the attempt
  table,        \* and now
  bypass,       \* the route kept on the link: found, then added, {} for none
  unconfirmed,  \* history: such routes whose addition or deletion was reported
                \* to have failed
  announced,    \* the routes of the Ip4Config given to NetworkManager
  servers,      \* its DNS servers
  domains       \* its domains

given == <<config, hello_reply, before>>
ip4_config == <<announced, servers, domains>>
vars == <<given, phase, next, table, bypass, unconfirmed, ip4_config>>

Init ==
  /\ config \in Profiles
  /\ hello_reply \in Replies
  /\ before \in Tables
  /\ phase = "created"
  /\ next = 1
  /\ table = before
  /\ bypass = {}
  /\ unconfirmed = {}
  /\ announced = {}
  /\ servers = <<>>
  /\ domains = <<>>

-----------------------------------------------------------------------------
(* Collecting the specifications and the DNS servers.                      *)

FormatSpec(block) ==
  [dest |-> block.dest, slash |-> TRUE, num |-> block.prefix, exact |-> TRUE]

AppendNew(seq, e) == IF Contains(seq, e) THEN seq ELSE Append(seq, e)

AppendAllNew(seq, more) ==
  LET upTo[n \in 0 .. Len(more)] ==
        IF n = 0 THEN seq ELSE AppendNew(upTo[n - 1], more[n])
  IN  upTo[Len(more)]

AppendIfIn(set, seq, e) == IF e \in set THEN Append(seq, e) ELSE seq

\* The elements of a sequence that are in the set, in their order.
Among(seq, set) ==
  LET upTo[n \in 0 .. Len(seq)] ==
        IF n = 0 THEN <<>> ELSE AppendIfIn(set, upTo[n - 1], seq[n])
  IN  upTo[Len(seq)]

\* Every server the profile does not ignore, the gateway's before its own.
UsedServers ==
  Among(hello_reply.dns_servers \o config.dns_servers, Texts \ config.ignore_dns_servers)

CollectDnsServers == AppendAllNew(<<>>, UsedServers)

InOrder(cidrs) ==
  LET starts == Among([n \in 1 .. Size[0] |-> n - 1], {b.dest : b \in cidrs})
  IN  [i \in DOMAIN starts |-> FormatSpec(CHOOSE b \in cidrs : b.dest = starts[i])]

\* Mutant of AppendRange: the end of a range is taken to be exclusive.
AppendRangeExclusive(specs, range) == specs \o InOrder(Cidrs(range.from, range.to - 1))

AppendRange(specs, range) == specs \o InOrder(Cidrs(range.from, range.to))

RangeSpecs ==
  LET upTo[n \in 0 .. Len(hello_reply.ranges)] ==
        IF n = 0 THEN <<>> ELSE AppendRange(upTo[n - 1], hello_reply.ranges[n])
  IN  upTo[Len(hello_reply.ranges)]

PrivateAddresses == UNION {Covers(subnet) : subnet \in PrivateSubnets}

PrivateSubnet(server) ==
  CHOOSE subnet \in PrivateSubnets : server \in Covers(subnet)

AppendPrivateSubnets(specs) ==
  LET private == Among(UsedServers, PrivateAddresses)
  IN  AppendAllNew(specs, [i \in DOMAIN private |-> FormatSpec(PrivateSubnet(private[i]))])

AppendDnsRoutes(specs) ==
  LET used == UsedServers
  IN  AppendAllNew(specs, [i \in DOMAIN used |->
                             FormatSpec([dest |-> used[i], prefix |-> Width])])

RoutesFromGateway == ~config.no_routing /\ ~config.default_route

InfersSubnets == config.set_routing_domains /\ hello_reply.search_domains # <<>>

CollectRouteSpecs ==
  (IF RoutesFromGateway
     THEN AppendDnsRoutes(IF InfersSubnets THEN AppendPrivateSubnets(RangeSpecs)
                                           ELSE RangeSpecs)
     ELSE <<>>)
  \o config.add_routes

-----------------------------------------------------------------------------
(* Search domains and the address.                                         *)

\* canonical_domain_for_compare(): "" has no form to compare.
SameDomain(c, d) == c.name # "" /\ c.name = d.name

\* Mutant of IsIgnored: the texts are compared.
IsIgnoredLiterally(domain) == domain \in config.ignore_search_domains

IsIgnored(domain) == \E d \in config.ignore_search_domains : SameDomain(d, domain)

AppendNewDomain(seq, domain) ==
  IF IsIgnored(domain) \/ \E i \in DOMAIN seq : SameDomain(seq[i], domain)
    THEN seq
    ELSE Append(seq, domain)

CollectSearchDomains ==
  LET all == hello_reply.search_domains \o config.search_domains
      upTo[n \in 0 .. Len(all)] ==
        IF n = 0 THEN <<>> ELSE AppendNewDomain(upTo[n - 1], all[n])
  IN  upTo[Len(all)]

\* "", ".", "~" and "~." are no domain.
NamesADomain(domain) == domain.name # "" \/ domain.dots > 1

NormalizeRoutingDomain(domain) == [domain EXCEPT !.tilde = TRUE, !.dots = 0]

NormalizeSearchDomain(domain) ==
  IF config.set_routing_domains THEN NormalizeRoutingDomain(domain)
  ELSE [domain EXCEPT !.dots = 0]

AnnouncedDomains ==
  LET named == Among(CollectSearchDomains, {d \in Domains : NamesADomain(d)})
  IN  [i \in DOMAIN named |-> NormalizeSearchDomain(named[i])]

\* The leading ones of the mask; Width when there is none.
NetmaskToPrefix(mask) ==
  IF mask = NoAddress THEN Width
  ELSE Max({p \in 0 .. Width : mask >= Size[0] - Size[p]})

Prefix == NetmaskToPrefix(hello_reply.subnet_mask)

-----------------------------------------------------------------------------
(* configure_interface(), in the worker thread, one netlink request a step.*)

\* RTM_NEWROUTE with NLM_F_CREATE and NLM_F_REPLACE: the kernel refuses a
\* prefix that is too long and a destination with host bits.
KernelAccepts(dest, prefix) ==
  prefix <= Width /\ dest = Network(dest, prefix)

RouteAdded(route) ==
  {r \in table : ~(r.dest = route.dest /\ r.prefix = route.prefix)} \cup {route}

TunRoute(dest, prefix) == [dest |-> dest, prefix |-> prefix, dev |-> "tun", via |-> FALSE]

\* The route the kernel itself adds for the subnet of an address.
Connected ==
  LET network == Network(hello_reply.assigned_ip, Prefix)
  IN  IF network = 0 \/ Prefix = Width THEN {} ELSE {TunRoute(network, Prefix)}

\* The route a packet takes: the longest matching prefix decides.
Matching(address) == {r \in table : address \in Covers(r)}
RouteOf(address) ==
  CHOOSE r \in Matching(address) : \A s \in Matching(address) : s.prefix <= r.prefix

\* The loss of the TUN device takes its routes along.
WithoutTun(routes) == {r \in routes : r.dev # "tun"}

Goes(from, to) ==
  /\ phase = from
  /\ phase' = to
  /\ UNCHANGED <<given, next, unconfirmed, ip4_config>>

\* A request fails: the kernel refuses it, the socket fails before it was sent
\* or only when its answer is read, with the request served.
\* tunnel_thread_func() closes the device and leaves the bypass route.
RequestFails(at, served) ==
  /\ phase = at
  /\ phase' = "failed"
  /\ table' \in {WithoutTun(table), WithoutTun(served)}
  /\ UNCHANGED <<given, next, ip4_config>>

\* The device, its address, the way to the gateway, the default route.
NetlinkFails ==
  /\ \/ RequestFails("created", table)
     \/ RequestFails("up", table)
     \/ config.default_route /\ RequestFails("link", table)
     \/ RequestFails("default", RouteAdded(TunRoute(0, 0)))
  /\ UNCHANGED <<bypass, unconfirmed>>

\* The bypass route is then not put on record, though the kernel may have it.
AddBypassRouteFails ==
  /\ RequestFails("bypass", UNION {RouteAdded(r) : r \in bypass})
  /\ bypass' = {}
  /\ unconfirmed' = unconfirmed \cup bypass

LinkUp == Goes("created", "up") /\ UNCHANGED <<table, bypass>>

AddAddress ==
  /\ hello_reply.assigned_ip # NoAddress
  /\ table' = table \cup Connected
  /\ Goes("up", "link")
  /\ UNCHANGED bypass

\* Mutant of LookUpGateway: the exception is made for the TUN device.
LookUpGatewayForTun ==
  /\ config.default_route
  /\ Matching(Gateway) # {}
  /\ bypass' = {TunRoute(Gateway, Width)}
  /\ Goes("link", "bypass")
  /\ UNCHANGED table

\* With the default route through the tunnel, the gateway is first given a
\* host route the way it is reached now.
LookUpGateway ==
  /\ config.default_route
  /\ Matching(Gateway) # {}
  /\ bypass' = {[RouteOf(Gateway) EXCEPT !.dest = Gateway, !.prefix = Width]}
  /\ Goes("link", "bypass")
  /\ UNCHANGED table

AddBypassRoute ==
  /\ table' = UNION {RouteAdded(r) : r \in bypass}
  /\ Goes("bypass", "default")
  /\ UNCHANGED bypass

AddDefaultRoute ==
  /\ table' = RouteAdded(TunRoute(0, 0))
  /\ Goes("default", "routes")
  /\ UNCHANGED bypass

KeepDefaultRoute ==
  /\ ~config.default_route
  /\ Goes("link", "routes")
  /\ UNCHANGED <<table, bypass>>

AtSpec == phase = "routes" /\ next \in DOMAIN CollectRouteSpecs

\* add_route_from_spec(): the number is cast to guint8, and what follows it is
\* not looked at.
AddRouteFromSpec ==
  /\ AtSpec
  /\ LET spec   == CollectRouteSpecs[next]
         prefix == spec.num % 256
     IN  /\ spec.slash
         /\ spec.dest # NoAddress
         /\ KernelAccepts(spec.dest, prefix)
         /\ table' = RouteAdded(TunRoute(spec.dest, prefix))
  /\ next' = next + 1
  /\ UNCHANGED <<given, phase, bypass, unconfirmed, ip4_config>>

RefusesSpec(spec) ==
  \/ ~spec.slash
  \/ spec.dest = NoAddress
  \/ ~KernelAccepts(spec.dest, spec.num % 256)

\* Mutant of AddRouteFails: a route the kernel refuses is skipped.
AddRouteFailsAndGoesOn ==
  /\ AtSpec
  /\ RefusesSpec(CollectRouteSpecs[next])
  /\ next' = next + 1
  /\ UNCHANGED <<given, phase, table, bypass, unconfirmed, ip4_config>>

AddRouteFails ==
  /\ AtSpec
  /\ LET spec == CollectRouteSpecs[next]
     IN  RequestFails("routes", IF RefusesSpec(spec) THEN table
                                ELSE RouteAdded(TunRoute(spec.dest, spec.num % 256)))
  /\ UNCHANGED <<bypass, unconfirmed>>

Configured ==
  /\ next > Len(CollectRouteSpecs)
  /\ Goes("routes", "finish")
  /\ UNCHANGED <<table, bypass>>

-----------------------------------------------------------------------------
(* finish_connect(), on the main loop.                                     *)

ParsesSpec(spec) ==
  /\ spec.slash
  /\ spec.exact
  /\ spec.num <= Width
  /\ spec.dest # NoAddress

\* parse_route_spec() clears the host bits.
ParseRouteSpec(spec) ==
  [dest |-> Network(spec.dest, spec.num), prefix |-> spec.num]

\* The prefix is none of a default route, every specification can be read, and
\* every DNS server is an address.
CanAnnounce ==
  /\ Prefix > 0
  /\ \A i \in DOMAIN CollectRouteSpecs : ParsesSpec(CollectRouteSpecs[i])
  /\ ~Contains(CollectDnsServers, NoAddress)

FinishConnect ==
  /\ phase = "finish"
  /\ CanAnnounce
  /\ announced' = {ParseRouteSpec(CollectRouteSpecs[i]) :
                     i \in DOMAIN CollectRouteSpecs}
  /\ servers' = CollectDnsServers
  /\ domains' = AnnouncedDomains
  /\ phase' = "announced"
  /\ UNCHANGED <<given, next, table, bypass, unconfirmed>>

\* Mutant of TeardownTunnel: the bypass route is forgotten.
TeardownTunnelKeepsBypass ==
  /\ phase' = "down"
  /\ table' = WithoutTun(table)
  /\ bypass' = {}
  /\ UNCHANGED <<given, next, unconfirmed, ip4_config>>

\* teardown_tunnel() closes the device and deletes the bypass route it has on
\* record. RTM_DELROUTE names the device and the router too: a route that was
\* replaced meanwhile stays. A deletion that fails is a warning, and off the
\* record all the same.
TeardownTunnel ==
  /\ phase' = "down"
  /\ \/ table' = WithoutTun(table \ bypass) /\ UNCHANGED unconfirmed
     \/ /\ bypass # {}
        /\ table' = WithoutTun(table)
        /\ unconfirmed' = unconfirmed \cup bypass
  /\ bypass' = {}
  /\ UNCHANGED <<given, next, ip4_config>>

FinishConnectFails ==
  /\ phase = "finish"
  /\ ~CanAnnounce
  /\ TeardownTunnel

\* Disconnect(), or the next Connect().
Disconnect == phase \in {"announced", "failed"} /\ TeardownTunnel

Next ==
  \/ LinkUp
  \/ AddAddress
  \/ NetlinkFails
  \/ AddBypassRouteFails
  \/ LookUpGateway
  \/ AddBypassRoute
  \/ AddDefaultRoute
  \/ KeepDefaultRoute
  \/ AddRouteFromSpec
  \/ AddRouteFails
  \/ Configured
  \/ FinishConnect
  \/ FinishConnectFails
  \/ Disconnect

Spec == Init /\ [][Next]_vars

-----------------------------------------------------------------------------
(* Properties.                                                             *)

Tunnelled == {address \in Addresses : Matching(address) # {} /\ RouteOf(address).dev = "tun"}

\* The addresses for which the host had nothing better than a default route;
\* a longer route of its own stays in force.
Elsewhere == {address \in Addresses : \A r \in before : address \in Covers(r) => r.prefix = 0}

SetOf(seq) == {seq[i] : i \in DOMAIN seq}

Added == UNION {Covers(ParseRouteSpec(spec)) : spec \in SetOf(config.add_routes)}

Subnet == UNION {Covers(r) : r \in Connected}

\* What configure_interface() gave the kernel is what finish_connect() tells
\* NetworkManager, but for the default route, which never-default stands for,
\* and the subnet, which its address and prefix stand for: "so both always
\* agree" (src/nm-snx-service.c:317-319), "so the kernel state and
\* NetworkManager state stay aligned" (docs/DESIGN_NOTES.md:10).  A gateway in
\* the subnet of its own tunnel has its exception there.
KernelAgreesWithNM ==
  phase = "announced" /\ ~(config.default_route /\ Gateway \in Subnet) =>
    LET known == announced
                   \cup {[dest |-> r.dest, prefix |-> r.prefix] : r \in Connected}
                   \cup IF config.default_route THEN {[dest |-> 0, prefix |-> 0]} ELSE {}
    IN  {[dest |-> r.dest, prefix |-> r.prefix] : r \in table \ WithoutTun(table)} = known

Ranges == UNION {range.from .. range.to : range \in SetOf(hello_reply.ranges)}

\* The private subnets of the servers; those for which the gateway gives no range.
ServedSubnets ==
  IF InfersSubnets THEN {s \in PrivateSubnets : Covers(s) \cap SetOf(UsedServers) # {}} ELSE {}
OmittedSubnets == {s \in ServedSubnets : Covers(s) \cap Ranges = {}}

\* Without the default route, exactly these go through the tunnel: the ranges
\* of the gateway, its DNS servers and the profile's, when the names are split
\* the private subnets of these for which the gateway gives no range, the subnet
\* of the address, and the added routes; with no_routing, "Ignore routes received
\* from the gateway" (gnome/nm-snx-editor.c:852), only the last two. A private
\* subnet that meets a range is left open, inferred or not: the subnets are for
\* "gateways that only provide DNS hosts" (src/nm-snx-service.c:315-316) and for
\* one that "omits the matching private route range" (docs/DESIGN_NOTES.md:22),
\* but the code does not look at the ranges and adds them all the same.
SplitTunnelIsExact ==
  phase = "announced" /\ ~config.default_route =>
    LET carried  == Tunnelled \cap Elsewhere
        gateways == Ranges \cup SetOf(UsedServers) \cup UNION {Covers(s) : s \in OmittedSubnets}
        meant    == Added \cup Subnet \cup IF config.no_routing THEN {} ELSE gateways
        open     == IF config.no_routing THEN {}
                    ELSE UNION {Covers(s) : s \in ServedSubnets \ OmittedSubnets}
    IN  /\ meant \cap Elsewhere \subseteq carried
        /\ carried \subseteq meant \cup open

\* With the default route, everything but the gateway goes through the tunnel,
\* whatever the profile adds, unless that is a host route to the gateway, or
\* the gateway is in the subnet of the tunnel.
FullTunnelIsExact ==
  phase = "announced" /\ config.default_route =>
    \/ Elsewhere \ {Gateway} \subseteq Tunnelled /\ Gateway \notin Tunnelled
    \/ [dest |-> Gateway, prefix |-> Width] \in announced
    \/ Gateway \in Subnet

\* After teardown, wherever the attempt failed, every route the host did not have
\* before is the host route to the gateway, and its addition or deletion was
\* reported to have failed ("Tracked here so teardown_tunnel() can remove it
\* explicitly", src/nm-snx-service.c:72-77); without such a report there is none.
\* The host misses only such as were replaced: the default route, one to the
\* gateway, one that the connection adds itself.
TeardownUndoesRoutes ==
  phase = "down" =>
    /\ \A r \in table \ before :
         r \in unconfirmed /\ r.dest = Gateway /\ r.prefix = Width /\ r.dev = "link"
    /\ \A r \in before \ table :
         \/ config.default_route /\ r.prefix = 0
         \/ config.default_route /\ r.dest = Gateway /\ r.prefix = Width
         \/ \E spec \in SetOf(CollectRouteSpecs) : spec.dest = r.dest /\ spec.num % 256 = r.prefix

\* NetworkManager gets each domain of the gateway and of the profile once,
\* however it is written, none that the profile ignores, and all of them as
\* routing domains if the names are to be split; otherwise only those that
\* someone wrote so (docs/DESIGN_NOTES.md:21).
DomainsAreExact ==
  phase = "announced" =>
    LET written == SetOf(hello_reply.search_domains) \cup SetOf(config.search_domains)
        named(ds) == {d.name : d \in ds} \ {""}
    IN  /\ named(SetOf(domains)) = named(written) \ named(config.ignore_search_domains)
        /\ \A i, j \in DOMAIN domains :
             domains[i].name = domains[j].name /\ domains[i].name # "" => i = j
        /\ \A i \in DOMAIN domains :
             /\ domains[i].dots = 0
             /\ config.set_routing_domains => domains[i].tilde
             /\ domains[i].tilde =>
                  \/ config.set_routing_domains
                  \/ \E d \in written : d.name = domains[i].name /\ d.tilde

=============================================================================
