-------------------------------- MODULE L3 --------------------------------
(***************************************************************************)
(* What proto/l3.rs does to the frames of a capture: move every host to an *)
(* address of the plan (or to a random subnet), give it one MAC, and drop  *)
(* every frame that would still show something real.                       *)
(*                                                                         *)
(* An address is a number; the subnet it is in is its quotient by Size.    *)
(* Of a frame the model keeps the addresses, MACs and flags that the code  *)
(* reads or writes; `leaks` are the addresses its payload spells out.      *)
(***************************************************************************)
EXTENDS Lists

CONSTANTS
    Size,          \* addresses of a subnet
    Special,       \* addresses that are no host: multicast, broadcast, zero
    HostMac(_, _), \* host_mac_salted: the MAC of an address under a salt
    MaxSalt,       \* bound: salts up to which a search for a free MAC has ended
    Tie(_, _),     \* tiebreak: distinct numbers for the zones of one group
    Affinity,      \* l3.zone_affinity
    RemapMac,      \* l3.remap_mac
    KeepArp,       \* l3.replay_capture_arp
    MaxFrame       \* l3.max_frame_bytes

ASSUME SizeAssumption == Size \in Nat /\ Size > 3
ASSUME L3ConfigAssumption ==
    /\ Affinity \in {"off", "vendor", "protocol", "both"}
    /\ {RemapMac, KeepArp} \subseteq BOOLEAN
    /\ Special \subseteq Nat /\ {MaxFrame, MaxSalt} \subseteq Nat

ZeroMac == <<"zero", 0>>
Broadcast == <<"group", 0>>

\* A frame with nothing in it; kind is what parse_layout finds: "ipv4", "arp",
\* "ipv6", "l2", or "runt" when it finds nothing.
Blank ==
    [kind |-> "runt", src |-> 0, dst |-> 0, smac |-> ZeroMac, dmac |-> Broadcast,
     sha |-> ZeroMac, tha |-> ZeroMac, leaks |-> {}, len |-> 1, svc |-> "none",
     whole |-> TRUE, ids |-> <<>>, ts |-> 0]

-----------------------------------------------------------------------------
(* Addresses.                                                              *)

NetOf(a) == a \div Size
OffsetOf(a) == a % Size
IsHost(a) == a \notin Special

HostsIn(net) == {net * Size + o : o \in 1..(Size - 2)}
MinOf(S) == CHOOSE a \in S : \A b \in S : a <= b

Moved(map, a) == IF a \in DOMAIN map THEN map[a] ELSE a
MacFor(macs, a) == IF a \in DOMAIN macs THEN macs[a] ELSE HostMac(a, 0)

\* Only frames parse_layout accepts and that carry IPv4 addresses have hosts.
Addressed(f) == f.kind \in {"ipv4", "arp"}
HostsOf(cap) ==
    {a \in UNION {{f.src, f.dst} : f \in {g \in ToSet(cap) : Addressed(g)}} : IsHost(a)}

-----------------------------------------------------------------------------
(* Rewriting one frame.                                                    *)

RewriteIp(f, map, macs) ==
    LET moved == DOMAIN map
    IN  [f EXCEPT
           !.src = Moved(map, @), !.dst = Moved(map, @),
           !.smac = IF RemapMac /\ f.src \in moved THEN MacFor(macs, map[f.src]) ELSE @,
           !.dmac = IF RemapMac /\ f.dst \in moved /\ @ # Broadcast
                    THEN MacFor(macs, map[f.dst]) ELSE @]

\* The target's MAC is zero in a request; Ethernet's destination follows a real one.
RewriteArp(f, map, macs) ==
    LET src == RemapMac /\ f.src \in DOMAIN map
        dst == RemapMac /\ f.dst \in DOMAIN map /\ f.tha \notin {ZeroMac, Broadcast}
        smac == MacFor(macs, Moved(map, f.src))
        dmac == MacFor(macs, Moved(map, f.dst))
    IN  [f EXCEPT
           !.src = Moved(map, @), !.dst = Moved(map, @),
           !.sha = IF src THEN smac ELSE @, !.smac = IF src THEN smac ELSE @,
           !.tha = IF dst THEN dmac ELSE @, !.dmac = IF dst THEN dmac ELSE @]

ApplyHostMap(cap, map, macs) ==
    [i \in DOMAIN cap |->
        CASE cap[i].kind = "ipv4" -> RewriteIp(cap[i], map, macs)
          [] cap[i].kind = "arp" -> RewriteArp(cap[i], map, macs)
          [] OTHER -> cap[i]]

-----------------------------------------------------------------------------
(* Dropping frames.                                                        *)

\* frame_is_plan_coherent: the source is one of the plan's addresses, and so is
\* the destination unless it is no host.  A cut IPv4 frame never is coherent.
Coherent(f, valid) ==
    /\ Addressed(f)
    /\ IsHost(f.src) /\ f.src \in valid
    /\ IsHost(f.dst) => f.dst \in valid
    /\ f.kind = "ipv4" => f.whole

\* The four bytes of an address are looked for in the whole frame, header too.
Leaks_HeaderOnly(f, originals) == {f.src, f.dst} \cap originals # {}
Leaks(f, originals) ==
    ({f.src, f.dst} \cup f.leaks) \cap originals # {}

Cleaned(cap, map) ==
    LET valid == {map[a] : a \in DOMAIN map}
    IN  Kept(cap, {f \in ToSet(cap) : Coherent(f, valid) /\ ~Leaks(f, DOMAIN map)})

\* drop_oversize_frames.
Fitting(cap, max) == Kept(cap, {f \in ToSet(cap) : f.len <= max})

\* drop_arp_frames, which keeps what it cannot parse.
WithoutArp(cap) == Kept(cap, {f \in ToSet(cap) : f.kind # "arp"})

\* remap_into_session's last two steps.
Thinned(cap) ==
    LET fit == Fitting(cap, MaxFrame) IN IF KeepArp THEN fit ELSE WithoutArp(fit)

-----------------------------------------------------------------------------
(* The random remap: every subnet moves to a fresh one, offsets are kept.  *)

NetsOf(cap) == {NetOf(a) : a \in HostsOf(cap)}

RandomMap(cap, fresh) ==
    [a \in HostsOf(cap) |-> fresh[NetOf(a)] * Size + OffsetOf(a)]

RemapCapture(cap, fresh) ==
    LET map == RandomMap(cap, fresh)
    IN  Cleaned(ApplyHostMap(cap, map, <<>>), map)

-----------------------------------------------------------------------------
(* The remap into the plan.  A zone is a record [net, vendor, protocol,    *)
(* level, reserved]; a group is [net, vendor, protocol, level, hosts].     *)

Score(g, z) ==
    LET vendor == g.vendor = z.vendor /\ g.vendor # "none"
        protocol == g.protocol = z.protocol /\ g.protocol # "none"
        Points(b, n) == IF b THEN n ELSE 0
    IN  CASE Affinity = "off" -> 0
          [] Affinity = "vendor" -> Points(vendor, 3)
          [] Affinity = "protocol" -> Points(protocol, 2)
          [] Affinity = "both" ->
                Points(vendor, 4) + Points(protocol, 2) + Points(g.level = z.level, 1)

ZoneRoom(z) == Size - 2 - Cardinality(z.reserved)

\* Preferred by affinity, then by room, then by the tiebreak.
Better(g, y, z) ==
    \/ Score(g, y) > Score(g, z)
    \/ Score(g, y) = Score(g, z) /\ ZoneRoom(y) > ZoneRoom(z)
    \/ /\ Score(g, y) = Score(g, z) /\ ZoneRoom(y) = ZoneRoom(z)
       /\ Tie(g.net, y.net) < Tie(g.net, z.net)

RankFirst(g, zones) == CHOOSE z \in zones : \A y \in zones \ {z} : Better(g, z, y)

\* A device for a host to ride: the zone's lowest, or else the plan's lowest.
RideTargets(zones, z) ==
    IF z.reserved # {} THEN {MinOf(z.reserved)}
    ELSE LET all == UNION {y.reserved : y \in zones}
         IN  IF all = {} THEN {} ELSE {MinOf(all)}

\* The host's own offset if that is free, or else the zone's lowest free address.
Places(net, taken, host) ==
    LET want == net * Size + OffsetOf(host)
        free == HostsIn(net) \ taken
    IN  IF want \in free THEN {want}
        ELSE IF free = {} THEN {} ELSE {MinOf(free)}

\* The first salt whose MAC nobody has, if collisions were not looked for.
SaltFor_Natural(a, used) == 0
SaltFor(a, used) == MinOf({s \in 0..MaxSalt : HostMac(a, s) \notin used})

\* One host: its asset if it has one, or else a new one, or else a ride.
Assign(acc, host) ==
    LET z == RankFirst(CHOOSE g \in acc.groups : host \in g.hosts, acc.zones)
        places == IF acc.budget > 0 THEN Places(z.net, acc.taken, host) ELSE {}
        rides == RideTargets(acc.zones, z)
    IN  IF host \in DOMAIN acc.registered
        THEN [acc EXCEPT !.map = With(@, host, acc.registered[host])]
        ELSE IF places # {}
        THEN LET ip == MinOf(places)
                 salt == SaltFor(ip, acc.used)
                 mac == HostMac(ip, salt)
             IN  [acc EXCEPT
                    !.map = With(@, host, ip),
                    !.taken = @ \cup {ip},
                    !.used = @ \cup {mac},
                    !.salted = IF salt = 0 THEN @ ELSE With(@, ip, mac),
                    !.new = Append(@, [origin |-> host, ip |-> ip, mac |-> mac]),
                    !.budget = @ - 1]
        ELSE IF rides # {}
        THEN [acc EXCEPT !.map = With(@, host, MinOf(rides))]
        ELSE acc

\* reconcile_capture_into_zones: groups by subnet, hosts in order.
Reconcile(cap, groups, zones, registered, deviceMacs, reservedMacs, budget) ==
    LET order == InOrder(UNION {g.hosts : g \in groups}, <)
        start == [groups |-> groups, zones |-> zones, registered |-> registered,
                  map |-> <<>>, new |-> <<>>, salted |-> <<>>, budget |-> budget,
                  used |-> reservedMacs,
                  taken |-> (UNION {z.reserved : z \in zones})
                              \cup {registered[o] : o \in DOMAIN registered}]
        end == FoldLeft(Assign, start, order)
    IN  [new |-> end.new, map |-> end.map,
         frames |-> Cleaned(ApplyHostMap(cap, end.map, end.salted @@ deviceMacs), end.map)]
=============================================================================
