------------------------------ MODULE MCRoutes ------------------------------
(***************************************************************************)
(* Eight addresses, 5 the gateway's, and the private subnet 2/2.           *)
(***************************************************************************)
EXTENDS SnxRoutes

MCSize == [p \in 0 .. Width |-> 2 ^ (Width - p)]

MCPrivateSubnets == {[dest |-> 2, prefix |-> 2]}

Text(dest, slash, num, exact) ==
  [dest |-> dest, slash |-> slash, num |-> num, exact |-> exact]

\* "4/1", "5/3" (the gateway), "6/1" (host bits), "0/0", "7" (no slash),
\* "x/2", "2/2 x", "0/x", "3/259" (3 as a guint8) and "3/4" (too long).
AddedSpecs ==
  {Text(4, TRUE, 1, TRUE), Text(5, TRUE, 3, TRUE), Text(6, TRUE, 1, TRUE),
   Text(0, TRUE, 0, TRUE), Text(7, FALSE, 0, FALSE),
   Text(NoAddress, TRUE, 2, TRUE), Text(2, TRUE, 2, FALSE),
   Text(0, TRUE, 0, FALSE), Text(3, TRUE, 259, TRUE), Text(3, TRUE, 4, TRUE)}

Two == <<Text(4, TRUE, 1, TRUE), Text(6, TRUE, 2, TRUE)>>

Domain(name, tilde, caps, dots) ==
  [name |-> name, tilde |-> tilde, caps |-> caps, dots |-> dots]

\* "corp", "~corp", "CORP.", "lab", "~." and ".."
Corp == Domain("corp", FALSE, FALSE, 0)
Routed == Domain("corp", TRUE, FALSE, 0)
Capitals == Domain("corp", FALSE, TRUE, 1)
Lab == Domain("lab", FALSE, FALSE, 0)
Wildcard == Domain("", TRUE, FALSE, 1)
Dots == Domain("", FALSE, FALSE, 2)

ProfilesWith(dns, ignored, added, names, ignoredNames) ==
  [default_route : BOOLEAN, no_routing : BOOLEAN, set_routing_domains : BOOLEAN,
   dns_servers : dns, ignore_dns_servers : ignored, add_routes : added,
   search_domains : names, ignore_search_domains : ignoredNames]

\* One family for the servers, one for the added routes, one for the domains.
MCProfiles ==
  ProfilesWith({<<>>, <<1>>, <<3>>}, {{}, {1, 6}}, {<<>>, Two}, {<<>>}, {{}})
    \cup ProfilesWith({<<>>}, {{}}, {<<spec>> : spec \in AddedSpecs}, {<<>>}, {{}})
    \cup ProfilesWith({<<>>}, {{}}, {<<>>}, {<<Lab, Capitals>>, <<Routed, Dots, Wildcard>>},
                      {{}, {Corp}, {Capitals, Wildcard}})

RangeOf(low, high) == [from |-> low, to |-> high]

RepliesWith(ranges, dns, names, addresses, masks) ==
  [ranges : ranges, dns_servers : dns, search_domains : names,
   assigned_ip : addresses, subnet_mask : masks]

\* One family for ranges and servers, one for the address: the mask 5 has a
\* hole, with 4 the subnet holds the gateway.
MCReplies ==
  RepliesWith({<<>>, <<RangeOf(0, 7)>>, <<RangeOf(1, 6)>>, <<RangeOf(6, 7)>>,
               <<RangeOf(6, 1)>>, <<RangeOf(3, 4), RangeOf(4, 7)>>},
              {<<>>, <<6, 2>>, <<NoAddress>>}, {<<>>, <<Corp>>}, {7}, {NoAddress})
    \cup RepliesWith({<<RangeOf(3, 4)>>}, {<<2>>}, {<<Corp, Routed, Wildcard>>},
                     {7, 2, NoAddress}, {0, 4, 5, 6})

LinkRoute(dest, prefix, via) == [dest |-> dest, prefix |-> prefix, dev |-> "link", via |-> via]

\* A host in the subnet 0/2 with a router, the same with a route of its own to
\* the gateway, one that has the gateway in its subnet, one without a network.
MCTables ==
  LET home == {LinkRoute(0, 0, TRUE), LinkRoute(0, 2, FALSE)}
  IN  {home, home \cup {LinkRoute(5, 3, TRUE)}, {LinkRoute(4, 2, FALSE)}, {}}
=============================================================================
