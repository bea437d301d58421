-------------------------------- MODULE Synth --------------------------------
(***************************************************************************)
(* The frames the simulator makes itself (synth/): ARP and discovery       *)
(* frames, datagrams, and whole TCP sessions around a script of protocol   *)
(* messages.                                                               *)
(*                                                                         *)
(* Of a message the model keeps who says it, what it is, and the numbers   *)
(* by which a receiver ties it to others: no is its own, nr the one it     *)
(* acknowledges, NoNumber where it carries none.  Addresses are numbers,   *)
(* lengths are in units of which the longest payload has MaxPayload.       *)
(***************************************************************************)
EXTENDS Integers, Sequences, SequencesExt

CONSTANTS
    SeqSpan,    \* where sequence numbers wrap, 2^32 in the code
    MaxPayload  \* what STANDARD_FRAME_BYTES leaves of a frame for its payload

ASSUME SynthAssumption == {SeqSpan, MaxPayload} \subseteq Nat \ {0}

NoNumber == -1

-----------------------------------------------------------------------------
(* Messages.                                                               *)

Ask(op, no) ==
    [by |-> "client", kind |-> "ask", op |-> op, no |-> no, nr |-> NoNumber, len |-> 1]
Reply(op, no) == [Ask(op, no) EXCEPT !.by = "server", !.kind = "reply"]
Pair(op, no) == <<Ask(op, no), Reply(op, no)>>
Carrying(m, len) == [m EXCEPT !.len = len]

-----------------------------------------------------------------------------
(* The scripts, a protocol each.                                           *)

\* The MBAP transaction and the SMB2 message are always number 1.
Modbus(op) == Pair(op, 1)
DeviceId == Modbus("device_id")
WriteRegister == Modbus("write_single")
Smb == Pair("write_share", 1)

\* s7_session: COTP connection, setup, then the function calls, with reference 0.
S7(calls) == Pair("cotp", 1) \o Pair("setup", 0) \o calls
ReadSzl == S7(Pair("szl", 0))
WriteDbWord == S7(Pair("write_var", 0))
PlcStop == S7(Pair("plc_stop", 0))
S7Download(len) ==
    S7(Pair("request_download", 0)
         \o <<Carrying(Ask("download_block", 0), len), Carrying(Reply("download_block", 0), len)>>
         \o Pair("download_ended", 0))

\* An answer that acknowledges N(S) instead of the next number expected.
Iec104_AcksLast(op) ==
    LET Info(by, ns, nr) == [Ask(op, ns) EXCEPT !.by = by, !.kind = "info", !.nr = nr]
    IN  Pair("startdt", NoNumber)
          \o <<Info("client", 0, 0), Info("server", 0, 0), Info("server", 1, 0),
               [Info("client", NoNumber, 1) EXCEPT !.kind = "ack"]>>

\* A command or interrogation is confirmed, terminated, and both acknowledged.
Iec104(op) ==
    LET Info(by, ns, nr) == [Ask(op, ns) EXCEPT !.by = by, !.kind = "info", !.nr = nr]
    IN  Pair("startdt", NoNumber)
          \o <<Info("client", 0, 0), Info("server", 0, 1), Info("server", 1, 1),
               [Info("client", NoNumber, 2) EXCEPT !.kind = "ack"]>>

Iec101(op) == Pair(op, NoNumber)
Dnp3Read == Pair("read", 0)
Dnp3Operate == Pair("select", 0) \o Pair("operate", 1)

\* The client registers without a session, and uses the one it is given.
CipSession == 7
Cip(op) == <<Ask("register", 0), Reply("register", CipSession)>> \o Pair(op, CipSession)

OpcUa == Pair("hello", NoNumber)
Http == Pair("get", NoNumber)
RemoteControl ==
    Pair("init", NoNumber) \o <<[Ask("active", NoNumber) EXCEPT !.kind = "note"]>>

\* A reply to a datagram of TriStation carries no number.
TristationStatus == Pair("status", NoNumber)
TristationDownload(len, chunk) ==
    LET size == IF chunk = 0 THEN 1 ELSE chunk
        chunks == [i \in 1..((len + size - 1) \div size) |->
                     <<Carrying(Ask("download", i - 1),
                                IF i * size <= len THEN size ELSE len - (i - 1) * size),
                       Reply("download", NoNumber)>>]
    IN  Pair("allocate", NoNumber) \o FlattenSeq(chunks) \o Pair("set_state", NoNumber)
Moxa(len) == <<Carrying(Ask("firmware", NoNumber), len), Reply("firmware", NoNumber)>>

ListIdentity == Pair("list_identity", NoNumber)
Snmp(id) == Pair("get", id)
Dns(id) == Pair("name", id)

-----------------------------------------------------------------------------
(* Frames.  An end of a conversation is [ip, mac].                         *)

Datagram(client, server, cport, sport, m) ==
    LET to == IF m.by = "client" THEN server ELSE client
        from == IF m.by = "client" THEN client ELSE server
    IN  [kind |-> "udp", src |-> from.ip, dst |-> to.ip, smac |-> from.mac, dmac |-> to.mac,
         conn |-> <<client.ip, cport, server.ip, sport>>, msg |-> m]

Datagrams(client, server, cport, sport, script) ==
    [i \in DOMAIN script |-> Datagram(client, server, cport, sport, script[i])]

\* Segments that consume no number but for their payload.
Segment_Bare(acc, s) ==
    LET other == IF s.msg.by = "client" THEN "server" ELSE "client"
    IN  [acc EXCEPT
           !.frames = Append(@, [seq |-> acc[s.msg.by], ack |-> acc[other], flags |-> s.flags,
                                 msg |-> s.msg]),
           ![s.msg.by] = (@ + s.msg.len) % SeqSpan]

\* TcpSession::segment: a SYN and a FIN consume one number, too.
Segment(acc, s) ==
    LET other == IF s.msg.by = "client" THEN "server" ELSE "client"
        consumed == s.msg.len + (IF s.flags \cap {"syn", "fin"} # {} THEN 1 ELSE 0)
    IN  [acc EXCEPT
           !.frames = Append(@, [seq |-> acc[s.msg.by], ack |-> acc[other], flags |-> s.flags,
                                 msg |-> s.msg]),
           ![s.msg.by] = (@ + consumed) % SeqSpan]

\* open, the script, close: a session as its segments' flags and messages.
Segments(script) ==
    LET Bare(by, flags) ==
            [flags |-> flags, msg |-> [Ask("none", NoNumber) EXCEPT !.by = by, !.kind = "none",
                                                                    !.len = 0]]
    IN  <<Bare("client", {"syn"}), Bare("server", {"syn", "ack"}), Bare("client", {"ack"})>>
          \o [i \in DOMAIN script |-> [flags |-> {"psh", "ack"}, msg |-> script[i]]]
          \o <<Bare("client", {"fin", "ack"}), Bare("server", {"ack"}),
               Bare("server", {"fin", "ack"}), Bare("client", {"ack"})>>

\* The initial numbers come from the ends alone: 2654435761 is 1 modulo 16 and 40503
\* is 7.
Session(client, server, cport, sport, script) ==
    LET start == [client |-> (client.ip + cport) % SeqSpan,
                  server |-> (7 * server.ip) % SeqSpan, frames |-> <<>>]
        segments == FoldLeft(Segment, start, Segments(script)).frames
        Frame(s, d) ==
            [kind |-> "tcp", src |-> d.src, dst |-> d.dst, smac |-> d.smac, dmac |-> d.dmac,
             conn |-> d.conn, msg |-> d.msg, seq |-> s.seq, ack |-> s.ack, flags |-> s.flags]
    IN  [i \in DOMAIN segments |->
           Frame(segments[i], Datagram(client, server, cport, sport, segments[i].msg))]

\* resolve: a broadcast request and the owner's answer to the requester.
Resolve(requester, owner) ==
    <<[kind |-> "who_has", src |-> requester.ip, dst |-> owner.ip, smac |-> requester.mac],
      [kind |-> "is_at", src |-> owner.ip, dst |-> requester.ip, smac |-> owner.mac]>>

\* What a switch says of itself to no one in particular.
Lldp(d) == [kind |-> "lldp", src |-> d.ip, smac |-> d.mac]
Cdp(d) == [kind |-> "cdp", src |-> d.ip, smac |-> d.mac]

\* drop_oversize_frames, after to_capture.
Sendable(f) == f.kind \in {"tcp", "udp"} => f.msg.len <= MaxPayload
=============================================================================
