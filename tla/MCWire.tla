------------------------------- MODULE MCWire -------------------------------
(* Plants for Wire: a plan that grows to two full cells and a device more, *)
(* and sealed plants under playbooks that use every kind of event.         *)
EXTENDS Wire, Bitwise

\* No port comes round again within the bounds.
ASSUME PortsAssumption == MaxRuns < Ports

At(zone, o) == zone * Width + o

McStableMac(ip) == <<"stable", ip>>
McXor(m, n) == m ^^ n
McIndex(key, n) == key % n
McLevel == [z \in 1..3 |-> z]

Plain(ip) ==
    [ip |-> ip, mac |-> <<"made", ip>>, zone |-> ip \div Width, class |-> "HMI", protocol |-> "none",
     model |-> "none", cve |-> FALSE, named |-> FALSE]
Speaks(ip, class, protocol) ==
    [Plain(ip) EXCEPT !.class = class, !.protocol = protocol, !.cve = TRUE, !.model = protocol]
Firewall(zone) == [Plain(At(zone, 1)) EXCEPT !.class = "Firewall", !.named = TRUE]
Named(d) == [d EXCEPT !.named = TRUE]
Host(ip) == [ip |-> ip, mac |-> <<"host", ip>>, zone |-> ip \div Width]

\* A plan grows in its zone 1 to 12 devices, and to one of zone 2; a host gets the
\* slot of the station of zone 1, one a zone of its own.
Growing ==
    [devices |-> <<>>, sealed |-> FALSE, phases |-> <<>>,
     coming |-> <<Firewall(1), Named(Speaks(At(1, 9), "PLC", "modbus")), Plain(At(1, 2)),
                  Plain(At(1, 3)), Plain(At(1, 4)), Plain(At(1, 5)),
                  Speaks(At(2, 2), "Switch", "snmp"), Plain(At(1, 6)), Plain(At(1, 7)),
                  Plain(At(1, 8)), Plain(At(1, 10)), Plain(At(1, 11)), Plain(At(1, 12))>>,
     hosts |-> <<Host(At(1, 14)), Host(At(3, 14))>>]

Target(ip, model, class) == [ip |-> ip, model |-> model, class |-> class]
Nobody == Target(0, "unset", "unset")
On(emit, target) == [emit |-> emit, target |-> target, len |-> 1, chunk |-> 1]
Plc == Target(0, "unset", "PLC")
Rtu == Target(At(2, 3), "unset", "PLC")

Sealed(phases) ==
    [devices |-> <<Speaks(At(1, 2), "PLC", "s7"), Speaks(At(2, 3), "RTU", "enip"),
                   Speaks(At(2, 1), "Router", "snmp")>>,
     coming |-> <<>>, hosts |-> <<Host(At(1, 4))>>, sealed |-> TRUE, phases |-> phases]

\* A device whose identity uses, a burst later, the port of an event of the first burst.
Meeting ==
    [Sealed(<<[dwell |-> 1, events |-> <<[On("s7_program_download", Plc) EXCEPT !.len = 2],
                                         On("s7_read", Plc)>>]>>)
       EXCEPT !.devices = <<Speaks(At(1, 9), "PLC", "s7")>>]

Phase(dwell, events) == [dwell |-> dwell, events |-> events]
Emits(emits, target) == [i \in DOMAIN emits |-> On(emits[i], target)]

McWorlds ==
    {Growing, Meeting} \cup {Sealed(p) :
        p \in {<<Phase(1, <<On("s7_read", Plc), On("iec104_command", Rtu)>>),
                 Phase(2, <<On("dnp3_operate", Rtu)>>)>>,
               <<Phase(1, <<[On("tristation_download", Plc) EXCEPT !.len = 5, !.chunk = 2],
                            On("cip_write", Rtu), On("modbus_write", Target(0, "enip", "PLC"))>>)>>,
               <<Phase(1, <<[On("s7_program_download", Plc) EXCEPT !.len = 3],
                            On("remote_access", Plc), On("s7_stop", Plc)>>)>>,
               <<Phase(1, Emits(<<"c2_beacon", "cip_read", "s7_write">>, Nobody)),
                 Phase(1, Emits(<<"c2_beacon", "opcua_read", "iec101_command">>, Plc))>>,
               <<Phase(1, Emits(<<"wiper", "dnp3_read", "tristation_status">>, Plc)),
                 Phase(1, <<[On("moxa_brick", Plc) EXCEPT !.len = 3]>>)>>,
               <<Phase(1, Emits(<<"iec104_interrogation", "iec101_interrogation">>, Rtu))>>}}
=============================================================================
