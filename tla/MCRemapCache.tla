---------------------------- MODULE MCRemapCache --------------------------
(* Small captures for RemapCache: subnets of eight addresses, two in the   *)
(* captures, two for the plan and one for random moves.                    *)
EXTENDS RemapCache

At(net, o) == net * Size + o

Mac(a) == <<"m", a>>
\* The first address of a zone gets a MAC that a device of the zone has already.
McHostMac(a, s) == IF a = At(4, 1) /\ s = 0 THEN Mac(At(4, 2)) ELSE <<"m", a + 100 * s>>
McDeviceMac(a, s) == <<"m", a + 100 * s>>
McTie(n, m) == m

Ip(src, dst) ==
    [Blank EXCEPT !.kind = "ipv4", !.src = src, !.dst = dst, !.smac = <<"real", src>>,
                  !.dmac = <<"real", dst>>]
\* An ARP request; a Modbus request; an answer that spells out its receiver.
Plant ==
    <<[Blank EXCEPT !.kind = "arp", !.src = At(1, 2), !.dst = At(1, 3),
                    !.sha = <<"real", At(1, 2)>>, !.smac = <<"real", At(1, 2)>>],
      [Ip(At(1, 2), At(1, 3)) EXCEPT !.svc = "modbus"],
      [Ip(At(1, 3), At(1, 2)) EXCEPT !.leaks = {At(1, 2)}]>>

\* Two hosts, one of them at an offset that is no host's in a zone.
Big == <<Ip(At(2, 4), At(2, 7)), [Ip(At(2, 7), At(2, 4)) EXCEPT !.len = 3],
         [Ip(0, At(2, 4)) EXCEPT !.dmac = Broadcast]>>

McContent == [c \in {"plant", "big"} |-> IF c = "plant" THEN {Plant} ELSE {Big}]
\* Two versions of one length.
McEdited == [c \in {"plant"} |-> {<<Plant[2], Plant[3]>>, <<Plant[2], Ip(At(1, 4), At(1, 2))>>}]

McZoneVendor(n) == IF n = 4 THEN "acme" ELSE "none"
McZoneProtocol(n) == "modbus"
McVendorOf(m) == IF m = <<"real", At(1, 2)>> THEN "acme" ELSE "none"
McBudget == [d \in Dirs |-> IF d = "shm" THEN 4 ELSE 5]
=============================================================================
