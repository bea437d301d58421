-------------------------------- MODULE Roles --------------------------------
(***************************************************************************)
(* Who asks for whom on the wire (simulate/roles.rs): the ARP resolutions  *)
(* of a plant, arranged in small cells, and the polls from a zone into the *)
(* one below.                                                              *)
(*                                                                         *)
(* An address is a number, the zone it is in its quotient by Width.  A     *)
(* node is [ip, mac]; a device has in addition a zone, a class, a protocol *)
(* and flags, a capture host has a zone.                                   *)
(***************************************************************************)
EXTENDS Lists

CONSTANTS
    Width,        \* addresses of a zone
    StableMac(_), \* stable_mac under the session's seed
    Index(_, _)   \* det_index: where a zone looks in a list of the given length

ASSUME WidthAssumption == Width \in Nat /\ Width > 3

CELL_SIZE == 6

Least(a, b) == IF a <= b THEN a ELSE b

\* network + 250, or the last usable address of a small zone.
StationAddr(zone) == zone * Width + Least(250, Width - 2)
FirewallAddr(zone) == zone * Width + 1

Station(zone) == [ip |-> StationAddr(zone), mac |-> StableMac(StationAddr(zone))]

ByAddress(nodes) == InOrder(nodes, LAMBDA m, n : m.ip < n.ip)

-----------------------------------------------------------------------------
(* The cells.                                                              *)

\* How many nodes the next cell takes, if a last node alone were no concern ...
Take_Full(left) == Least(CELL_SIZE, left)
\* ... or if the boundary were off by one.
Take_Wide(left) == Least(CELL_SIZE + 1, left)

\* How many of the nodes left over the next cell takes: one less where a full cell
\* would leave a node alone.
Take(left) ==
    IF left > CELL_SIZE /\ left - CELL_SIZE = 1 THEN CELL_SIZE - 1
    ELSE Least(CELL_SIZE, left)

\* cells_no_orphan.
Cells(nodes) ==
    LET n == Len(nodes)
        From[i \in 1..(n + 1)] ==
            IF i > n THEN <<>>
            ELSE LET k == Take(n - i + 1)
                 IN  <<SubSeq(nodes, i, i + k - 1)>> \o From[i + k]
    IN  From[1]

\* The master asks for each member, the first member for the master.
CellEdges(cell) ==
    LET master == cell[1]
        polls == [i \in 1..(Len(cell) - 1) |-> [requester |-> master, owner |-> cell[i + 1]]]
    IN  IF Len(cell) = 1 THEN <<>>
        ELSE Append(polls, [requester |-> cell[2], owner |-> master])

\* The station leads, unless an asset has its address; an asset alone there gets
\* somebody to ask for it.
ZoneNodes(zone, reals) ==
    LET station == Station(zone)
        alt == [ip |-> station.ip - 1, mac |-> StableMac(station.ip - 1)]
        nodes == IF station.ip \in {r.ip : r \in reals} THEN ByAddress(reals)
                 ELSE <<station>> \o ByAddress(reals)
    IN  IF Len(nodes) = 1 THEN <<alt>> \o nodes ELSE nodes

\* arp_edges: zone by zone, the zones of the assets themselves.
ArpEdges(assets) ==
    LET zones == InOrder({a.zone : a \in assets}, <)
        Reals(z) == {[ip |-> a.ip, mac |-> a.mac] : a \in {b \in assets : b.zone = z}}
        OfZone(z) == FlattenSeq([i \in DOMAIN Cells(ZoneNodes(z, Reals(z))) |->
                                    CellEdges(Cells(ZoneNodes(z, Reals(z)))[i])])
    IN  FlattenSeq([i \in DOMAIN zones |-> OfZone(zones[i])])

-----------------------------------------------------------------------------
(* Crossings.                                                              *)

Infra == {"Firewall", "Router"}

\* The forwarder between two zones: the first router there is, or else firewall, or
\* else switch, or else the station.  devices is the ledger's list, in its order.
ConduitMac(devices, north, south) ==
    LET Of(class) == SelectSeq(devices, LAMBDA d : d.class = class /\ d.zone \in {north, south})
        found == SelectSeq(<<"Router", "Firewall", "Switch">>, LAMBDA c : Of(c) # <<>>)
    IN  IF found = <<>> THEN Station(north).mac ELSE Of(found[1])[1].mac

\* north_south_crossings: each zone polls the lowest servers of one zone a level
\* below.  zones are records [net, level].
Crossings(devices, zones, most) ==
    LET Servers(z) == ByAddress({d \in ToSet(devices) : d.zone = z /\ d.cve /\ d.class \notin Infra})
        Below(z) == InOrder({y.net : y \in {x \in zones : x.level = z.level - 1}}, <)
        South(z) == Below(z)[Index(z.net, Len(Below(z))) + 1]
        Of(z) ==
            IF Below(z) = <<>> THEN <<>>
            ELSE LET servers == Servers(South(z))
                 IN  [i \in 1..Least(most, Len(servers)) |->
                        [client |-> [ip |-> StationAddr(z.net),
                                     mac |-> ConduitMac(devices, z.net, South(z))],
                         server |-> servers[i]]]
        order == InOrder(zones, LAMBDA y, z :
                    y.level < z.level \/ (y.level = z.level /\ y.net < z.net))
    IN  FlattenSeq([i \in DOMAIN order |-> Of(order[i])])
=============================================================================
