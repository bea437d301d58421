-------------------------------- MODULE Wire --------------------------------
(***************************************************************************)
(* The announce bursts (simulate/engine.rs red_tick and build_assertions,  *)
(* scenario/engine.rs): who a burst introduces, the conversations it       *)
(* holds, the attack frames behind them; and what a passive sensor that    *)
(* sees the frames one by one can make of them.                            *)
(*                                                                         *)
(* A burst may not be written, or be cut anywhere on its way; the daemon   *)
(* may restart, which forgets all counters but not the plan.               *)
(***************************************************************************)
EXTENDS Roles, Synth

CONSTANTS
    Worlds,        \* records [devices, coming, hosts, phases, sealed] to start with
    BareZones,     \* zones without a device, derived from captures
    Level,         \* Purdue level of each zone
    Batch,         \* FABRICATE_BATCH
    IdentityEvery, BeaconEvery, NsCadence, NsMost, \* cadences and bounds of the bursts
    Cap,           \* max_frames_per_burst
    Campaign,      \* "loop" or "oneshot"
    Ports,         \* ephemeral ports: 16384, or a lesser power of two
    BitXor(_, _),    \* exclusive or of the bits of two numbers
    C2Ip, ExternalIp, \* the actor's addresses, or their stand-ins
    MaxRuns,       \* bound: runs of the daemon's loop
    MaxRestarts    \* bound: restarts of the daemon

ASSUME CadenceAssumption ==
    {Batch, IdentityEvery, BeaconEvery, NsCadence, Cap, Ports} \subseteq Nat \ {0} /\ NsMost \in Nat
ASSUME BoundsAssumption == {MaxRuns, MaxRestarts} \subseteq Nat
ASSUME CampaignAssumption == Campaign \in {"loop", "oneshot"}

\* What an event of a playbook can emit.
EmitKind ==
    {"s7_read", "s7_program_download", "s7_write", "s7_stop", "modbus_write",
     "tristation_status", "tristation_download", "iec104_interrogation", "iec104_command",
     "dnp3_read", "dnp3_operate", "cip_read", "cip_write", "opcua_read",
     "iec101_interrogation", "iec101_command", "c2_beacon", "remote_access", "wiper",
     "moxa_brick"}

InZone(a) == a.ip \in Nat /\ a.zone = a.ip \div Width

\* What a plan can be: nobody shares an address, and a device with a vulnerability has
\* the protocol of a profile.
IsPlant(devices, hosts) ==
    /\ IsSeq(devices) /\ IsSeq(hosts)
    /\ \A d \in ToSet(devices) :
        /\ InZone(d) /\ \A h \in ToSet(hosts) : d.ip # h.ip
        /\ d.cve => d.protocol \in {"enip", "modbus", "s7", "snmp"}
    /\ \A h, g \in ToSet(hosts) : InZone(h) /\ (h.ip = g.ip => h = g)
    /\ \A i, j \in DOMAIN devices : devices[i].ip = devices[j].ip => i = j

IsPlaybook(phases) ==
    /\ IsSeq(phases)
    /\ \A p \in ToSet(phases) :
        /\ p.dwell \in Nat /\ IsSeq(p.events)
        /\ \A ev \in ToSet(p.events) : ev.emit \in EmitKind /\ {ev.len, ev.chunk} \subseteq Nat

ASSUME WorldsAssumption ==
    /\ IsFiniteSet(BareZones)
    /\ \A w \in Worlds :
        /\ w = [devices |-> w.devices, coming |-> w.coming, hosts |-> w.hosts,
                phases |-> w.phases, sealed |-> w.sealed]
        /\ IsSeq(w.devices) /\ IsSeq(w.coming)
        /\ IsPlant(w.devices \o w.coming, w.hosts) /\ IsPlaybook(w.phases)

VARIABLES
    world,    \* what is still to come, and the playbook
    plan,     \* the ledger: [devices, hosts]
    run,      \* the loop's run counter
    nonce,    \* announce_count
    walk,     \* the scenario engine's place in its playbook
    restarts,
    burst,    \* frames of synth-identity.pcap not sent yet
    announced, \* history: the assets that burst introduces
    opened,   \* history: when the daemon opened each conversation of an identity
    clashed,  \* history: conversations an identity opened while an attack was in them
    torn,     \* history: conversations that lost a frame on the way
    sensor    \* what the sensor knows

daemon == <<world, plan, run, nonce, walk, restarts>>
vars == <<daemon, burst, announced, opened, clashed, torn, sensor>>

FirstPort == 49152
None == -1
Ids == 4096

End(d) == [ip |-> d.ip, mac |-> d.mac]
Assets(p) == {[ip |-> p.devices[i].ip, mac |-> p.devices[i].mac, zone |-> p.devices[i].zone] :
                i \in DOMAIN p.devices} \cup p.hosts
Subnets(p) == BareZones \cup {p.devices[i].zone : i \in DOMAIN p.devices}

-----------------------------------------------------------------------------
(* The identity burst.                                                     *)

\* If every burst used the same port for a device.
EphemeralPort_Fixed(n, ip) == FirstPort + ((7453 * ip) % Ports)

\* The multipliers are the code's modulo 16384, of which Ports is a divisor.
EphemeralPort(n, ip) == FirstPort + BitXor((15381 * n) % Ports, (7453 * ip) % Ports)

\* assert_identity: a device answers its station, by the protocol of its profile.
AssertIdentity(d, client, beacons, n) ==
    LET port == EphemeralPort(n, d.ip)
    IN  CASE d.protocol = "enip" -> Datagrams(client, End(d), port, 44818, ListIdentity)
          [] d.protocol = "modbus" -> Session(client, End(d), port, 502, DeviceId)
          [] d.protocol = "s7" -> Session(client, End(d), port, 102, ReadSzl)
          [] d.protocol = "snmp" ->
                (IF beacons /\ d.class \notin Infra THEN <<Lldp(d), Cdp(d)>> ELSE <<>>)
                  \o Datagrams(client, End(d), port, 161, Snmp(Ids + (n % Ids)))

\* A named device asks the last firewall of its zone for its own name.
AskName(devices, d, n) ==
    LET resolvers == SelectSeq(devices, LAMBDA e : e.class = "Firewall" /\ e.zone = d.zone)
    IN  IF ~d.named \/ resolvers = <<>> \/ Last(resolvers).ip = d.ip THEN <<>>
        ELSE Datagrams(End(d), End(Last(resolvers)), EphemeralPort(n, d.ip), 53,
                       Dns(BitXor(n, d.ip) % 65536))

BuildAssertions(p, r, n) ==
    LET edges == ArpEdges(Assets(p))
        known == Kept(p.devices, {d \in ToSet(p.devices) : d.cve})
        beacons == r % BeaconEvery = 0
        crossings == IF r % NsCadence # 0 THEN <<>>
                     ELSE Crossings(p.devices, {[net |-> z, level |-> Level[z]] : z \in Subnets(p)},
                                    NsMost)
    IN  FlattenSeq([i \in DOMAIN edges |-> Resolve(edges[i].requester, edges[i].owner)])
          \o FlattenSeq([i \in DOMAIN known |->
                AssertIdentity(known[i], Station(known[i].zone), beacons, n)])
          \o FlattenSeq([i \in DOMAIN p.devices |-> AskName(p.devices, p.devices[i], n)])
          \o FlattenSeq([i \in DOMAIN crossings |->
                AssertIdentity(crossings[i].server, crossings[i].client, FALSE, n)])

-----------------------------------------------------------------------------
(* The attack frames.  An event is [emit, target, len, chunk], a target    *)
(* [ip, model, class], each none where it is not set.                      *)

\* resolve: by address, or else model, or else class; the first device each.
Targets(devices, t) ==
    LET matches == SelectSeq(devices, LAMBDA d : d.ip = t.ip)
                     \o SelectSeq(devices, LAMBDA d : d.model = t.model)
                     \o SelectSeq(devices, LAMBDA d : d.class = t.class)
    IN  IF matches = <<>> THEN {} ELSE {matches[1]}

\* The first firewall of the zone, or somebody at its address.
Gateway(devices, zone) ==
    LET firewalls == SelectSeq(devices, LAMBDA d : d.class = "Firewall" /\ d.zone = zone)
        ip == FirewallAddr(zone)
    IN  IF firewalls = <<>> THEN [ip |-> ip, mac |-> StableMac(ip)] ELSE End(firewalls[1])

\* What the station says to the device.
Talk(ev) ==
    CASE ev.emit = "s7_read" -> [port |-> 102, script |-> ReadSzl]
      [] ev.emit = "s7_program_download" -> [port |-> 102, script |-> S7Download(ev.len)]
      [] ev.emit = "s7_write" -> [port |-> 102, script |-> WriteDbWord]
      [] ev.emit = "s7_stop" -> [port |-> 102, script |-> PlcStop]
      [] ev.emit = "modbus_write" -> [port |-> 502, script |-> WriteRegister]
      [] ev.emit = "iec104_interrogation" -> [port |-> 2404, script |-> Iec104("interrogate")]
      [] ev.emit = "iec104_command" -> [port |-> 2404, script |-> Iec104("single")]
      [] ev.emit = "dnp3_read" -> [port |-> 20000, script |-> Dnp3Read]
      [] ev.emit = "dnp3_operate" -> [port |-> 20000, script |-> Dnp3Operate]
      [] ev.emit = "cip_read" -> [port |-> 44818, script |-> Cip("get_attribute")]
      [] ev.emit = "cip_write" -> [port |-> 44818, script |-> Cip("set_attribute")]
      [] ev.emit = "opcua_read" -> [port |-> 4840, script |-> OpcUa]
      [] ev.emit = "iec101_interrogation" -> [port |-> 2405, script |-> Iec101("interrogate")]
      [] ev.emit = "iec101_command" -> [port |-> 2405, script |-> Iec101("single")]
      [] ev.emit = "wiper" -> [port |-> 445, script |-> Smb]
      [] ev.emit = "tristation_status" -> [port |-> 1502, script |-> TristationStatus]
      [] ev.emit = "tristation_download" ->
            [port |-> 1502, script |-> TristationDownload(ev.len, ev.chunk)]
      [] ev.emit = "moxa_brick" -> [port |-> 4800, script |-> Moxa(ev.len)]

ByDatagrams == {"tristation_status", "tristation_download", "moxa_brick"}

OnTarget(devices, ev, d, port) ==
    IF ev.emit = "remote_access"
    THEN Session([ip |-> ExternalIp, mac |-> Gateway(devices, d.zone).mac], End(d), port, 5938,
                 RemoteControl)
    ELSE IF ev.emit \in ByDatagrams
    THEN Datagrams(Station(d.zone), End(d), port, Talk(ev).port, Talk(ev).script)
    ELSE Session(Station(d.zone), End(d), port, Talk(ev).port, Talk(ev).script)

\* The lookup of the actor's domain, then the contact from the next port.
Beaconing(devices, host, n) ==
    LET gateway == Gateway(devices, host.zone)
    IN  Datagrams(End(host), gateway, FirstPort + (n % Ports), 53, Dns(n % 65536))
          \o Session(End(host), [ip |-> C2Ip, mac |-> gateway.mac], FirstPort + ((n + 1) % Ports),
                     80, Http)

\* render_event; an event whose target is not in the plan renders nothing.
Render(ev, devices, n) ==
    LET found == Targets(devices, ev.target)
        d == CHOOSE e \in found : TRUE
    IN  IF ev.emit = "c2_beacon"
        THEN IF devices = <<>> THEN <<>>
             ELSE Beaconing(devices, IF found = {} THEN devices[1] ELSE d, n)
        ELSE IF found = {} THEN <<>> ELSE OnTarget(devices, ev, d, FirstPort + (n % Ports))

StartWalk == [phase |-> 1, cursor |-> 1, bursts |-> 0, offset |-> 0, spill |-> None]

\* One turn of phase_frames' loop over the frames of its event, which were rendered with
\* the nonce own, if a finished event left its nonce pinned.
Slice_KeepsNonce(acc, frames, own) ==
    LET walked == acc.walk
        rest == SubSeq(frames, walked.offset + 1, Len(frames))
        take == Least(Cap - Len(acc.frames), Len(rest))
    IN  [acc EXCEPT
           !.frames = @ \o SubSeq(rest, 1, take),
           !.walk = IF take = Len(rest) THEN [walked EXCEPT !.cursor = @ + 1, !.offset = 0]
                    ELSE [walked EXCEPT !.offset = @ + take, !.spill = own]]

\* One turn of the loop: the event at the cursor, or what is left of it.
Slice(acc, frames, own) ==
    LET walked == acc.walk
        rest == SubSeq(frames, walked.offset + 1, Len(frames))
        take == Least(Cap - Len(acc.frames), Len(rest))
    IN  [acc EXCEPT
           !.frames = @ \o SubSeq(rest, 1, take),
           !.walk = IF take = Len(rest)
                    THEN [walked EXCEPT !.cursor = @ + 1, !.offset = 0, !.spill = None]
                    ELSE [walked EXCEPT !.offset = @ + take, !.spill = own]]

\* A new render takes the nonce of its event, the rest of one the nonce it began with.
Nonce(acc) ==
    IF acc.walk.spill = None THEN acc.nonce + acc.walk.cursor - 1 ELSE acc.walk.spill

Turn(acc, ev) ==
    IF Len(acc.frames) < Cap THEN Slice(acc, Render(ev, acc.devices, Nonce(acc)), Nonce(acc))
    ELSE acc

NextPhase(phases, phase) ==
    IF phase < Len(phases) THEN phase + 1 ELSE IF Campaign = "loop" THEN 1 ELSE phase

\* The walk after a burst that began it at w: the phase is over once it has dwelt.
Dwelt(end, w, phases) ==
    IF /\ end.cursor > Len(phases[w.phase].events) /\ end.offset = 0
       /\ w.bursts + 1 >= phases[w.phase].dwell
    THEN [StartWalk EXCEPT !.phase = NextPhase(phases, w.phase)]
    ELSE [end EXCEPT !.bursts = @ + 1]

\* phase_frames: the frames of a burst and the walk after it.
PhaseFrames(w, phases, devices, n) ==
    LET events == phases[w.phase].events
        start == [frames |-> <<>>, walk |-> w, devices |-> devices, nonce |-> n]
        end == FoldLeft(Turn, start, SubSeq(events, w.cursor, Len(events)))
    IN  [frames |-> end.frames, walk |-> Dwelt(end.walk, w, phases)]

-----------------------------------------------------------------------------
(* The sensor.                                                             *)

Silent == [asked |-> <<>>, given |-> NoNumber, chunks |-> 0,
           sent |-> [client |-> 0, server |-> 0]]
Blind == [bound |-> <<>>, asked |-> {}, streams |-> <<>>, talks |-> <<>>]

Peer(side) == IF side = "client" THEN "server" ELSE "client"
ConnsOf(S) == {f.conn : f \in {g \in S : g.kind \in {"tcp", "udp"}}}
Conns(frames) == ConnsOf(ToSet(frames))
TalkOf(conn) == IF conn \in DOMAIN sensor.talks THEN sensor.talks[conn] ELSE Silent
Without(f, S) == [x \in DOMAIN f \ S |-> f[x]]

\* It starts on a new burst, and gives up conversations that lost a frame.
GivesUp(conns) ==
    [bound |-> <<>>, asked |-> {}, streams |-> Without(sensor.streams, conns),
     talks |-> Without(sensor.talks, conns)]

\* What a message leaves behind in its conversation.
Heard(talk, m) ==
    CASE m.kind = "ask" ->
            [talk EXCEPT !.asked = <<m.op, m.no>>,
                         !.chunks = IF m.op = "allocate" THEN 0
                                    ELSE IF m.op = "download" THEN @ + 1 ELSE @]
      [] m.kind = "reply" -> [talk EXCEPT !.asked = <<>>, !.given = m.no]
      [] m.kind = "info" -> [talk EXCEPT !.sent[m.by] = @ + 1]
      [] OTHER -> talk

\* What a segment leaves behind in its stream: the next number of each side, and
\* how far the handshake and the close have come.
Followed(s, f) ==
    LET n == f.seq + f.msg.len + (IF f.flags \cap {"syn", "fin"} # {} THEN 1 ELSE 0)
        opening == s.open < 3
    IN  [s EXCEPT ![f.msg.by] = n % SeqSpan,
                  !.open = IF opening THEN @ + 1 ELSE @,
                  !.fins = IF "fin" \in f.flags THEN @ \cup {f.msg.by} ELSE @]

Syn(f) == f.kind = "tcp" /\ f.flags = {"syn"}
NewStream == [client |-> None, server |-> None, open |-> 0, fins |-> {}]
StreamOf(f) == IF Syn(f) \/ f.conn \notin DOMAIN sensor.streams THEN NewStream
               ELSE sensor.streams[f.conn]
Closes(f) == StreamOf(f).fins = {"client", "server"}

\* It binds an address it heard somebody ask for; it forgets a closed stream.
Sees(f) ==
    IF f.kind \in {"tcp", "udp"} /\ f.conn \in torn THEN sensor
    ELSE CASE f.kind = "who_has" -> [sensor EXCEPT !.asked = @ \cup {<<f.src, f.dst>>}]
           [] f.kind = "is_at" ->
                [sensor EXCEPT !.bound = IF <<f.dst, f.src>> \in sensor.asked
                                         THEN With(@, f.src, f.smac) ELSE @]
           [] f.kind = "udp" ->
                [sensor EXCEPT !.talks = With(@, f.conn, Heard(TalkOf(f.conn), f.msg))]
           [] f.kind = "tcp" /\ Closes(f) ->
                [sensor EXCEPT !.streams = Without(@, {f.conn}), !.talks = Without(@, {f.conn})]
           [] f.kind = "tcp" /\ ~Closes(f) ->
                [sensor EXCEPT
                   !.streams = With(@, f.conn, Followed(StreamOf(f), f)),
                   !.talks = With(@, f.conn,
                                  Heard(IF Syn(f) THEN Silent ELSE TalkOf(f.conn), f.msg))]
           [] OTHER -> sensor

-----------------------------------------------------------------------------
Init ==
    /\ \E w \in Worlds :
        /\ world = [w EXCEPT !.devices = <<>>]
        /\ plan = [devices |-> w.devices, hosts |-> {}]
    /\ run = 0 /\ nonce = 0 /\ walk = StartWalk /\ restarts = 0
    /\ burst = <<>> /\ announced = {} /\ opened = <<>> /\ clashed = {} /\ torn = {}
    /\ sensor = Blind

\* The attack frames of this burst, none without a scenario, and the walk after it.
Attack(devices) ==
    IF world.phases = <<>> THEN [frames |-> <<>>, walk |-> walk]
    ELSE PhaseFrames(walk, world.phases, devices, nonce)

\* The conversations that the event in mid-spill has begun and not ended.
HalfSent(devices) ==
    LET ev == world.phases[walk.phase].events[walk.cursor]
        frames == Render(ev, devices, walk.spill)
    IN  IF walk.offset = 0 THEN {}
        ELSE Conns(SubSeq(frames, 1, walk.offset))
               \cap Conns(SubSeq(frames, walk.offset + 1, Len(frames)))

\* An announcement that is due: the burst is counted, and written, or cannot be.
Announce(p, identities, attack) ==
    LET frames == identities \o attack.frames
    IN  /\ nonce' = nonce + 1
        /\ walk' = attack.walk
        /\ opened' = [c \in Conns(identities) |-> nonce] @@ opened
        /\ clashed' = clashed \cup (Conns(identities) \cap HalfSent(p.devices))
        /\ \/ /\ burst' = Kept(frames, {f \in ToSet(frames) : Sendable(f)})
              /\ announced' = Assets(p)
              /\ torn' = torn \cup ConnsOf({f \in ToSet(frames) : ~Sendable(f)})
           \/ /\ burst' = <<>> /\ announced' = {}
              /\ torn' = torn \cup Conns(frames)
        /\ sensor' = GivesUp(torn')

\* red_tick: devices are fabricated unless the plan is sealed, and announced.
Tick ==
    /\ burst = <<>> /\ run < MaxRuns
    /\ run' = run + 1
    /\ UNCHANGED restarts
    /\ \E k \in IF world.sealed THEN {0} ELSE 0..Least(Batch, Len(world.coming)) :
        /\ plan' = [plan EXCEPT !.devices = @ \o SubSeq(world.coming, 1, k)]
        /\ world' = [world EXCEPT !.coming = SubSeq(@, k + 1, Len(@))]
    /\ \/ /\ run % IdentityEvery # 0 \/ nonce > 0
          /\ UNCHANGED <<nonce, walk, burst, announced, opened, clashed, torn, sensor>>
       \/ /\ run % IdentityEvery = 0
          /\ \E identities \in {BuildAssertions(plan', run, nonce)},
                attack \in {Attack(plan'.devices)} :
                Announce(plan', identities, attack)

\* The loop comes round with a capture it skips, and no red_tick.
Skip ==
    /\ burst = <<>> /\ run < MaxRuns
    /\ run' = run + 1
    /\ UNCHANGED <<world, plan, nonce, walk, restarts, burst, announced, opened, clashed, torn,
                   sensor>>

\* A capture host gets an asset, after a remap, also in a sealed plan.
Register ==
    /\ burst = <<>> /\ world.hosts # <<>>
    /\ plan' = [plan EXCEPT !.hosts = @ \cup {Head(world.hosts)}]
    /\ world' = [world EXCEPT !.hosts = Tail(@)]
    /\ announced' = {}
    /\ UNCHANGED <<run, nonce, walk, restarts, burst, opened, clashed, torn, sensor>>

\* tcpreplay sends the next frame.
Send ==
    /\ burst # <<>>
    /\ sensor' = Sees(Head(burst))
    /\ burst' = Tail(burst)
    /\ UNCHANGED <<daemon, announced, opened, clashed, torn>>

\* tcpreplay fails or is killed.
Cut ==
    /\ burst # <<>>
    /\ burst' = <<>> /\ announced' = {} /\ torn' = torn \cup Conns(burst)
    /\ sensor' = GivesUp(torn')
    /\ UNCHANGED <<daemon, opened, clashed>>

\* The daemon dies and starts again, whatever was on its way.  Its counters and with
\* them its ports start again: the sensor is asked about each life of the daemon alone.
Restart ==
    /\ restarts < MaxRestarts /\ run > 0
    /\ restarts' = restarts + 1
    /\ run' = 0 /\ nonce' = 0 /\ walk' = StartWalk
    /\ burst' = <<>> /\ announced' = {} /\ opened' = <<>>
    /\ clashed' = {} /\ torn' = {}
    /\ sensor' = Blind
    /\ UNCHANGED <<world, plan>>

Next == Tick \/ Skip \/ Register \/ Send \/ Cut \/ Restart

Spec == Init /\ [][Next]_vars
-----------------------------------------------------------------------------
(* Properties.                                                             *)

\* Ranges, and what pins a nonce (scenario/engine.rs:41-49): an event in mid-spill.
TypeOK ==
    /\ run \in 0..MaxRuns /\ nonce \in 0..run /\ restarts \in 0..MaxRestarts
    /\ walk.spill # None <=> walk.offset > 0
    /\ world.phases # <<>> =>
        walk.phase \in DOMAIN world.phases
          /\ walk.cursor \in 1..Len(world.phases[walk.phase].events) + 1
    /\ announced \subseteq Assets(plan)
    /\ \A f \in ToSet(burst) : Sendable(f)
    /\ DOMAIN sensor.streams \subseteq DOMAIN sensor.talks

\* simulate/roles.rs:233-236: after a burst that came through, the sensor has heard
\* every asset, device or capture host, answer for its address, with its own MAC.
EveryAssetBinds ==
    burst = <<>> =>
        \A a \in announced : a.ip \in DOMAIN sensor.bound /\ sensor.bound[a.ip] = a.mac

\* simulate/roles.rs:37-41, 235: nobody asks for more than CELL_SIZE - 1 addresses in
\* a burst, so that nothing looks like a scan.
NoScan ==
    \A r \in {q[1] : q \in sensor.asked} :
        Cardinality({q \in sensor.asked : q[1] = r}) <= CELL_SIZE - 1

\* A step sends a frame of a conversation that has lost nothing so far, and that no
\* identity opened while it was open.
SendsApart ==
    Send /\ Head(burst).kind \in {"tcp", "udp"} /\ Head(burst).conn \notin torn \cup clashed

InStep(f) ==
    f.kind = "tcp" =>
        LET s == StreamOf(f)
            by == f.msg.by
        IN  IF Syn(f) THEN f.conn \notin DOMAIN sensor.streams
            ELSE /\ f.conn \in DOMAIN sensor.streams
                 /\ s[by] \in {None, f.seq} /\ s[Peer(by)] = f.ack
                 /\ s.open < 3 => by = (IF s.open = 1 THEN "server" ELSE "client")
                 /\ f.msg.len > 0 => s.open = 3 /\ s.fins = {}

\* synth/session.rs:3-9, scenario/engine.rs:217-222: every connection is opened,
\* its segments follow each other and acknowledge all that was sent, and it is
\* closed, also where its frames are spread over bursts; only one may be half sent.
\* This is said of connections no identity opens again meanwhile (clashed).
StreamsWhole ==
    [][/\ SendsApart => InStep(Head(burst))
       /\ burst' = <<>> =>
            Cardinality(DOMAIN sensor'.streams \ clashed')
              <= (IF walk'.offset > 0 THEN 1 ELSE 0)]_vars

Fits(f) ==
    LET talk == TalkOf(f.conn)
        m == f.msg
    IN  CASE m.kind = "ask" ->
                /\ talk.asked = <<>>
                /\ m.op = "download" => m.no = talk.chunks
                /\ m.op = "operate" => m.no = talk.given + 1
                /\ m.op \in {"get_attribute", "set_attribute"} => m.no = talk.given
          [] m.kind = "reply" ->
                /\ talk.asked # <<>> /\ m.op = talk.asked[1]
                /\ m.no \in {NoNumber, talk.asked[2]} \/ m.op = "register"
          [] m.kind = "info" -> m.no = talk.sent[m.by] /\ m.nr = talk.sent[Peer(m.by)]
          [] m.kind = "ack" -> m.nr = talk.sent[Peer(m.by)]
          [] OTHER -> TRUE

\* synth/mod.rs:4-6: every answer is to the question before it and carries its number,
\* and the questions of a conversation are numbered as its protocol demands, also
\* where they are spread over bursts; of the same conversations as StreamsWhole.
AnswersMatch == [][SendsApart => Fits(Head(burst))]_vars

\* simulate/engine.rs:997-1000: an identity's conversation is none that the daemon
\* has had before.
FreshConnections ==
    [][restarts' = restarts => \A c \in DOMAIN opened : opened'[c] = opened[c]]_vars
=============================================================================
