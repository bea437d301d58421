---------------------------- MODULE ServiceProofs ----------------------------
(***************************************************************************)
(* The units around the run loop, for any captures, processes, start limit *)
(* and number of events: types, the mirror while a daemon sends, no        *)
(* heartbeat of a daemon that is gone, and nothing left when units rest.   *)
(***************************************************************************)
EXTENDS Service, TLAPS

States == Resting \cup Instant \cup {"waiting", "up", "stopping"}
UnitRecords ==
    [st : States, main : {0, 78}, halt : BOOLEAN, n : 0..Burst, spoilt : SUBSET Parts]
Bridges == {"none", "bare", "joined"}
Mirrors == {"none", "bare", "full"}
Nets == [ports : SUBSET Ports, bridge : Bridges, mirror : Mirrors, skipped : BOOLEAN]
Loops == [pc : {"off", "top", "read", "send", "nap", "end"},
          cap : Captures \cup {"none"}, stop : BOOLEAN]

\* Ranges, and who is in the loop.
LoopTypes ==
    /\ pool \in [Captures -> {"absent", "torn", "whole"}]
    /\ loop \in [Procs -> Loops]
    /\ status \in Procs \cup {"none"}
SystemTypes ==
    /\ unit \in [Units -> UnitRecords]
    /\ net \in Nets
    /\ files \in [good : SUBSET Units, ledger : {"none", "generic", "pack"}]
InLoop == \A u \in Units : ~At(u, "off") <=> St(u) \in {"up", "stopping"}
TypeInv == LoopTypes /\ SystemTypes /\ InLoop

LEMMA TypeInvIsType == TypeInv => TypeOK
<1> SUFFICES ASSUME TypeInv PROVE TypeOK
  OBVIOUS
<1>1. /\ pool \in [Captures -> {"absent", "torn", "whole"}]
      /\ status \in Procs \cup {"none"}
      /\ files \in [good : SUBSET Units, ledger : {"none", "generic", "pack"}]
  BY DEF TypeInv, LoopTypes, SystemTypes
<1>2. /\ net.ports \subseteq Ports /\ net.skipped \in BOOLEAN
      /\ net.bridge \in {"none", "bare", "joined"} /\ net.mirror \in {"none", "bare", "full"}
  BY DEF TypeInv, SystemTypes, Nets, Bridges, Mirrors
<1>3. ASSUME NEW u \in Units
      PROVE  /\ St(u) \in States
             /\ unit[u].n <= Burst
             /\ ~At(u, "off") <=> St(u) \in {"up", "stopping"}
  BY ServiceAssumption DEF TypeInv, SystemTypes, UnitRecords, InLoop, St
<1>4. QED
  BY <1>1, <1>2, <1>3 DEF TypeOK, States

\* A record of a unit with other values.
LEMMA UnitFacts ==
    ASSUME NEW r \in UnitRecords
    PROVE  /\ Started(r) \in UnitRecords
           /\ Started(r).st \in {"pre", "failed"} /\ Started(r).spoilt = r.spoilt
           /\ Over(r) \in UnitRecords
           /\ Over(r).st \in Resting \cup {"waiting"} /\ Over(r).spoilt = Parts
           /\ NewUnit \in UnitRecords /\ NewUnit.st = "inactive" /\ NewUnit.spoilt = Parts
<1>1. NewUnit \in UnitRecords /\ NewUnit.st = "inactive" /\ NewUnit.spoilt = Parts
  <2>1. 0 \in 0..Burst
    BY ServiceAssumption
  <2>2. QED
    BY <2>1, SMT DEF NewUnit, UnitRecords, States, Resting
<1>2. /\ Started(r) \in UnitRecords
      /\ Started(r).st \in {"pre", "failed"} /\ Started(r).spoilt = r.spoilt
  <2> DEFINE pre == [r EXCEPT !.st = "pre"]
  <2>1. pre \in UnitRecords /\ pre.st = "pre" /\ pre.spoilt = r.spoilt /\ pre.n = r.n
    BY DEF UnitRecords, States, Instant, InSetup
  <2>2. CASE r.n < Burst
    <3>1. r.n + 1 \in 0..Burst
      BY <2>2, ServiceAssumption DEF UnitRecords
    <3>2. Started(r) = [pre EXCEPT !.n = r.n + 1]
      BY <2>2, Zenon DEF Started
    <3> HIDE DEF pre
    <3>3. QED
      BY <2>1, <3>1, <3>2 DEF UnitRecords
  <2>3. CASE ~(r.n < Burst)
    BY <2>3 DEF Started, UnitRecords, States, Resting
  <2>4. QED
    BY <2>2, <2>3
<1>3. /\ Over(r) \in UnitRecords
      /\ Over(r).st \in Resting \cup {"waiting"} /\ Over(r).spoilt = Parts
  BY <1>1 DEF Over, UnitRecords, States, Resting
<1>4. QED
  BY <1>1, <1>2, <1>3

-----------------------------------------------------------------------------
(* Types.                                                                  *)

LEMMA TypeInit == Init => TypeInv
<1> SUFFICES ASSUME Init PROVE TypeInv
  OBVIOUS
<1>1. pool \in [Captures -> {"absent", "torn", "whole"}]
  BY DEF Init, RunLoopInit
<1>2. Off \in Loops
  BY Zenon DEF Off, Loops
<1>3. loop \in [Procs -> Loops] /\ status \in Procs \cup {"none"}
  BY <1>2 DEF Init, RunLoopInit, NoStatus
<1>4. NewUnit \in UnitRecords /\ NewUnit.st = "inactive"
  <2>1. 0 \in 0..Burst
    BY ServiceAssumption
  <2>2. QED
    BY <2>1, SMT DEF NewUnit, UnitRecords, States, Resting
<1>5. unit \in [Units -> UnitRecords]
  BY <1>4 DEF Init
<1>6. net \in Nets
  <2>1. net \in [ports : {Ports, {"replay"}}, bridge : {"none"}, mirror : {"none"},
                  skipped : {FALSE}]
    BY DEF Init
  <2>2. /\ net.ports \in SUBSET Ports
        /\ net.bridge \in Bridges /\ net.mirror \in Mirrors /\ net.skipped = FALSE
        /\ net = [ports |-> net.ports, bridge |-> net.bridge, mirror |-> net.mirror,
                  skipped |-> net.skipped]
    BY <2>1 DEF Ports, Bridges, Mirrors
  <2>3. QED
    BY <2>2, Zenon DEF Nets
<1>7. files \in [good : SUBSET Units, ledger : {"none", "generic", "pack"}]
  BY DEF Init
<1>8. InLoop
  BY <1>4, ServiceAssumption DEF Init, RunLoopInit, InLoop, At, St, Off
<1>9. QED
  BY <1>1, <1>3, <1>5, <1>6, <1>7, <1>8 DEF TypeInv, LoopTypes, SystemTypes

\* What the loop of a process does, whatever it does next.
LEMMA LoopSteps ==
    ASSUME TypeInv, NEW p \in Procs, Step(p)
    PROVE  /\ LoopTypes'
           /\ loop[p].pc # "off"
           /\ \A q \in Procs : loop'[q].pc = "off" <=> loop[q].pc = "off"
           /\ status' \in {p, status}
<1>1. /\ loop \in [Procs -> Loops] /\ pool' = pool
      /\ pool \in [Captures -> {"absent", "torn", "whole"}]
      /\ status \in Procs \cup {"none"}
  BY DEF TypeInv, LoopTypes, Step, Pick, Skip, Send, Sent, Wake
<1>2. status' \in {p, status}
  BY DEF Step, Pick, Skip, Send, Sent, Wake, Beat
<1>3. loop[p].pc \in {"top", "read", "send", "nap"}
  BY DEF Step, Pick, Skip, Send, Sent, Wake, At
<1>4. PICK pc \in {"top", "read", "send", "nap", "end"}, c \in Captures \cup {"none"} :
        loop' = [loop EXCEPT ![p].pc = pc, ![p].cap = c]
  BY DEF Step, Pick, Skip, Send, Sent, Wake, Goes, Selectable, Present
<1>5. loop' \in [Procs -> Loops] /\ \A q \in Procs : loop'[q].pc = "off" <=> loop[q].pc = "off"
  BY <1>1, <1>3, <1>4 DEF Loops
<1>6. QED
  BY <1>1, <1>2, <1>3, <1>5 DEF LoopTypes

\* The three ways into and out of the loop.
LEMMA BeginSteps ==
    ASSUME TypeInv, NEW p \in Procs, Begin(p), pool' = pool
    PROVE  /\ LoopTypes' /\ status' \in {p, status} /\ loop'[p].pc = "top"
           /\ \A q \in Procs \ {p} : loop'[q] = loop[q]
<1>1. /\ loop \in [Procs -> Loops]
      /\ pool \in [Captures -> {"absent", "torn", "whole"}]
      /\ status \in Procs \cup {"none"}
  BY DEF TypeInv, LoopTypes
<1>2. [Off EXCEPT !.pc = "top"] \in Loops /\ [Off EXCEPT !.pc = "top"].pc = "top"
  BY Zenon DEF Off, Loops
<1>3. QED
  BY <1>1, <1>2 DEF Begin, Beat, LoopTypes

LEMMA EndSteps ==
    ASSUME TypeInv, NEW p \in Procs, loop' = [loop EXCEPT ![p] = Off], pool' = pool,
           status' \in {p, status}
    PROVE  /\ LoopTypes' /\ loop'[p].pc = "off"
           /\ \A q \in Procs \ {p} : loop'[q] = loop[q]
<1>1. /\ loop \in [Procs -> Loops]
      /\ pool \in [Captures -> {"absent", "torn", "whole"}]
      /\ status \in Procs \cup {"none"}
  BY DEF TypeInv, LoopTypes
<1>2. Off \in Loops /\ Off.pc = "off"
  BY Zenon DEF Off, Loops
<1>3. QED
  BY <1>1, <1>2 DEF LoopTypes

-----------------------------------------------------------------------------
(* The invariant.                                                          *)

\* What a unit with record r has in the network n, if nobody took it away since;
\* before its setup it claims nothing.
WithMirror == {"ready", "up", "stopping"}
WithBridge == WithMirror \cup {"joined", "cleared"}
Unset == Resting \cup {"waiting", "pre"}
BuiltFor(r, n) ==
    /\ r.st \in WithBridge /\ "bridge" \notin r.spoilt => n.bridge = "joined"
    /\ r.st \in WithMirror /\ "mirror" \notin r.spoilt => n.mirror = "full"
    /\ r.st \in Unset => r.spoilt = Parts
Built == \A u \in Units : BuiltFor(unit[u], net)

\* Somebody is still going to take away what is there.
OwesMirror == {"cleared", "ready", "up", "stopping", "post"}
OwesBridge == OwesMirror \cup {"bridged", "joined", "unmirrored"}
Owed ==
    ~net.skipped =>
        /\ net.mirror # "none" => \E u \in Units : St(u) \in OwesMirror
        /\ net.bridge # "none" => \E u \in Units : St(u) \in OwesBridge

Inv == TypeInv /\ NoStaleHeartbeat /\ Built /\ Owed

\* Another unit's step keeps what it does not take.
LEMMA OthersBuilt ==
    ASSUME NEW r \in UnitRecords, NEW s \in UnitRecords, NEW m, NEW n, BuiltFor(r, m),
           s.st = r.st, r.spoilt \subseteq s.spoilt,
           "bridge" \in s.spoilt \/ (m.bridge = "joined" => n.bridge = "joined"),
           "mirror" \in s.spoilt \/ (m.mirror = "full" => n.mirror = "full")
    PROVE  BuiltFor(s, n)
<1>1. s.spoilt \subseteq Parts
  BY DEF UnitRecords
<1>2. QED
  BY <1>1 DEF BuiltFor, Parts

\* A step that changes the record of one unit.
LEMMA OneUnit ==
    ASSUME TypeInv, NEW u \in Units, NEW r \in UnitRecords, unit' = [unit EXCEPT ![u] = r]
    PROVE  /\ unit' \in [Units -> UnitRecords]
           /\ unit'[u] = r
           /\ \A v \in Units \ {u} : unit'[v] = unit[v]
  BY DEF TypeInv, SystemTypes

LEMMA OneState ==
    ASSUME TypeInv, NEW u \in Units, NEW st \in States, Becomes(u, st)
    PROVE  /\ unit' \in [Units -> UnitRecords]
           /\ unit'[u].st = st /\ unit'[u].spoilt = unit[u].spoilt
           /\ \A v \in Units \ {u} : unit'[v] = unit[v]
<1>1. unit \in [Units -> UnitRecords]
  BY DEF TypeInv, SystemTypes
<1> DEFINE r == [unit[u] EXCEPT !.st = st]
<1>2. r \in UnitRecords /\ r.st = st /\ r.spoilt = unit[u].spoilt
  BY <1>1 DEF UnitRecords
<1>3. unit' = [unit EXCEPT ![u] = r]
  BY <1>1 DEF Becomes
<1> HIDE DEF r
<1>4. QED
  BY <1>2, <1>3, OneUnit

\* What such a step has to show, where the loop, the network and the heartbeat stay.
LEMMA QuietStep ==
    ASSUME Inv, NEW u \in Units,
           unit' \in [Units -> UnitRecords],
           \A v \in Units \ {u} : unit'[v] = unit[v],
           UNCHANGED <<pool, loop, net, status>>,
           files' \in [good : SUBSET Units, ledger : {"none", "generic", "pack"}],
           unit'[u].st \in {"up", "stopping"} <=> St(u) \in {"up", "stopping"},
           unit'[u].st \in Resting \cup {"waiting"} => St(u) \in Resting \cup {"waiting"},
           BuiltFor(unit'[u], net),
           St(u) \in OwesMirror => unit'[u].st \in OwesMirror,
           St(u) \in OwesBridge => unit'[u].st \in OwesBridge
    PROVE  Inv'
<1>1. TypeInv'
  BY DEF Inv, TypeInv, LoopTypes, SystemTypes, InLoop, At, St
<1>2. NoStaleHeartbeat'
  BY DEF Inv, NoStaleHeartbeat, St
<1>3. Built'
  BY DEF Inv, Built
<1>4. Owed'
  BY DEF Inv, Owed, St
<1>5. QED
  BY <1>1, <1>2, <1>3, <1>4 DEF Inv

-----------------------------------------------------------------------------
(* One lemma per action of a unit.                                         *)

LEMMA FireKeeps == ASSUME Inv, NEW u \in Units, Fire(u) PROVE Inv'
<1>1. unit[u] \in UnitRecords /\ TypeInv
  BY DEF Inv, TypeInv, SystemTypes
<1>2. unit' = [unit EXCEPT ![u] = Started(unit[u])]
  BY <1>1 DEF Fire, TypeInv, SystemTypes
<1>3. /\ Started(unit[u]) \in UnitRecords
      /\ Started(unit[u]).st \in {"pre", "failed"}
      /\ Started(unit[u]).spoilt = unit[u].spoilt
  BY <1>1, UnitFacts
<1>4. /\ unit' \in [Units -> UnitRecords]
      /\ unit'[u] = Started(unit[u])
      /\ \A v \in Units \ {u} : unit'[v] = unit[v]
  BY <1>1, <1>2, <1>3, OneUnit
<1>5. UNCHANGED <<pool, loop, net, status, files>> /\ St(u) \in Resting \cup {"waiting"}
  BY DEF Fire
<1>6. files' \in [good : SUBSET Units, ledger : {"none", "generic", "pack"}]
  BY <1>1, <1>5 DEF TypeInv, SystemTypes
<1>7. BuiltFor(unit'[u], net)
  <2>1. unit[u].spoilt = Parts
    BY <1>5 DEF Inv, Built, BuiltFor, Unset, St
  <2>2. QED
    BY <1>3, <1>4, <2>1 DEF BuiltFor, WithBridge, WithMirror, Resting
<1>8. QED
  BY <1>3, <1>4, <1>5, <1>6, <1>7, QuietStep DEF St, Resting, OwesMirror, OwesBridge

LEMMA RestartKeeps == ASSUME Inv, NEW u \in Units, Restart(u) PROVE Inv'
<1>1. unit[u] \in UnitRecords /\ TypeInv
  BY DEF Inv, TypeInv, SystemTypes
<1>2. unit' = [unit EXCEPT ![u] = Started(unit[u])]
  BY <1>1 DEF Restart, TypeInv, SystemTypes
<1>3. /\ Started(unit[u]) \in UnitRecords
      /\ Started(unit[u]).st \in {"pre", "failed"}
      /\ Started(unit[u]).spoilt = unit[u].spoilt
  BY <1>1, UnitFacts
<1>4. /\ unit' \in [Units -> UnitRecords]
      /\ unit'[u] = Started(unit[u])
      /\ \A v \in Units \ {u} : unit'[v] = unit[v]
  BY <1>1, <1>2, <1>3, OneUnit
<1>5. UNCHANGED <<pool, loop, net, status, files>> /\ St(u) = "waiting"
  BY DEF Restart
<1>6. files' \in [good : SUBSET Units, ledger : {"none", "generic", "pack"}]
  BY <1>1, <1>5 DEF TypeInv, SystemTypes
<1>7. BuiltFor(unit'[u], net)
  <2>1. unit[u].spoilt = Parts
    BY <1>5 DEF Inv, Built, BuiltFor, Unset, St
  <2>2. QED
    BY <1>3, <1>4, <2>1 DEF BuiltFor, WithBridge, WithMirror, Resting
<1>8. QED
  BY <1>3, <1>4, <1>5, <1>6, <1>7, QuietStep DEF St, Resting, OwesMirror, OwesBridge

\* A unit that is over, or nearly, claims nothing of the network.
LEMMA PostClaims == ASSUME NEW r, NEW n, r.st \in {"post", "unmirrored"} PROVE BuiltFor(r, n)
  BY DEF BuiltFor, WithBridge, WithMirror, Unset, Resting

LEMMA FreshClaims == ASSUME NEW r, NEW n, r.st \in Unset, r.spoilt = Parts PROVE BuiltFor(r, n)
  BY DEF BuiltFor, Parts

LEMMA SetupFailsKeeps == ASSUME Inv, NEW u \in Units, SetupFails(u) PROVE Inv'
<1>1. TypeInv /\ Becomes(u, "post") /\ St(u) \in InSetup
  BY DEF Inv, SetupFails, Aborts, InSetup
<1>2. "post" \in States
  BY DEF States, Instant, InSetup
<1>3. /\ unit' \in [Units -> UnitRecords]
      /\ unit'[u].st = "post" /\ unit'[u].spoilt = unit[u].spoilt
      /\ \A v \in Units \ {u} : unit'[v] = unit[v]
  BY <1>1, <1>2, OneState
<1>4. UNCHANGED <<pool, loop, net, status, files>>
  BY DEF SetupFails
<1>5. files' \in [good : SUBSET Units, ledger : {"none", "generic", "pack"}]
  BY <1>1, <1>4 DEF TypeInv, SystemTypes
<1>6. BuiltFor(unit'[u], net)
  BY <1>3, PostClaims
<1>7. QED
  BY <1>1, <1>3, <1>4, <1>5, <1>6, QuietStep DEF St, InSetup, Resting, OwesMirror, OwesBridge

LEMMA WindowPassesKeeps == ASSUME Inv, NEW u \in Units, WindowPasses(u) PROVE Inv'
<1>1. unit[u] \in UnitRecords /\ TypeInv /\ unit \in [Units -> UnitRecords]
  BY DEF Inv, TypeInv, SystemTypes
<1> DEFINE r == [unit[u] EXCEPT !.n = 0]
<1>2. r \in UnitRecords /\ r.st = unit[u].st /\ r.spoilt = unit[u].spoilt
  BY <1>1, ServiceAssumption DEF UnitRecords
<1>3. unit' = [unit EXCEPT ![u] = r]
  BY <1>1 DEF WindowPasses
<1> HIDE DEF r
<1>4. /\ unit' \in [Units -> UnitRecords] /\ unit'[u] = r
      /\ \A v \in Units \ {u} : unit'[v] = unit[v]
  BY <1>1, <1>2, <1>3, OneUnit
<1>5. UNCHANGED <<pool, loop, net, status, files>> /\ St(u) \in {"up", "failed"}
  BY DEF WindowPasses
<1>6. files' \in [good : SUBSET Units, ledger : {"none", "generic", "pack"}]
  BY <1>1, <1>5 DEF TypeInv, SystemTypes
<1>7. BuiltFor(unit'[u], net)
  BY <1>2, <1>4 DEF Inv, Built, BuiltFor
<1>8. QED
  BY <1>2, <1>4, <1>5, <1>6, <1>7, QuietStep DEF St

HaltsTo(u, x, st) == unit' = [unit EXCEPT ![u].halt = x, ![u].st = st]

LEMMA HaltedTo ==
    ASSUME TypeInv, NEW u \in Units, NEW st \in States, NEW x \in BOOLEAN, HaltsTo(u, x, st)
    PROVE  /\ unit' \in [Units -> UnitRecords]
           /\ unit'[u].st = st /\ unit'[u].spoilt = unit[u].spoilt
           /\ \A v \in Units \ {u} : unit'[v] = unit[v]
<1>1. unit \in [Units -> UnitRecords]
  BY DEF TypeInv, SystemTypes
<1> DEFINE h == [unit[u] EXCEPT !.halt = x]
           g == [unit EXCEPT ![u] = h]
<1>2. h \in UnitRecords /\ h.spoilt = unit[u].spoilt
  BY <1>1 DEF UnitRecords
<1>3. unit' = [g EXCEPT ![u].st = st]
  BY Zenon DEF HaltsTo
<1> HIDE DEF h
<1>4. /\ g \in [Units -> UnitRecords] /\ g[u] = h
      /\ \A v \in Units \ {u} : g[v] = unit[v]
  BY <1>1, <1>2
<1> HIDE DEF g
<1>5. QED
  BY <1>2, <1>3, <1>4 DEF UnitRecords

LEMMA Halted ==
    ASSUME TypeInv, NEW u \in Units, NEW st \in States, Halts(u, st)
    PROVE  /\ unit' \in [Units -> UnitRecords]
           /\ unit'[u].st = st /\ unit'[u].spoilt = unit[u].spoilt
           /\ \A v \in Units \ {u} : unit'[v] = unit[v]
<1>1. TRUE \in BOOLEAN
  OBVIOUS
<1>2. HaltsTo(u, TRUE, st)
  BY Zenon DEF Halts, HaltsTo
<1>3. QED
  BY <1>1, <1>2, HaltedTo, Zenon

LEMMA DownKeeps == ASSUME Inv, NEW u \in Units, Down(u) PROVE Inv'
<1>1. unit[u] \in UnitRecords /\ TypeInv
  BY DEF Inv, TypeInv, SystemTypes
<1>2. UNCHANGED <<pool, status, net, files>> /\ St(u) \notin {"inactive", "stopping"}
  BY DEF Down
<1>3. files' \in [good : SUBSET Units, ledger : {"none", "generic", "pack"}]
  BY <1>1, <1>2 DEF TypeInv, SystemTypes
<1>4. CASE St(u) = "up"
  <2>1. Halts(u, "stopping")
    BY <1>4 DEF Down, InSetup
  <2>2. "stopping" \in States
    BY DEF States
  <2>3. /\ unit' \in [Units -> UnitRecords]
        /\ unit'[u].st = "stopping" /\ unit'[u].spoilt = unit[u].spoilt
        /\ \A v \in Units \ {u} : unit'[v] = unit[v]
    BY <1>1, <2>1, <2>2, Halted
  <2>4. loop' = [loop EXCEPT ![u].stop = TRUE]
    BY <1>4 DEF Down, Sigterm, InSetup
  <2>5. loop \in [Procs -> Loops] /\ u \in Procs
    BY <1>1, ServiceAssumption DEF TypeInv, LoopTypes
  <2>6. loop' \in [Procs -> Loops] /\ \A p \in Procs : loop'[p].pc = loop[p].pc
    BY <2>4, <2>5 DEF Loops
  <2>7. TypeInv'
    BY <1>1, <1>2, <1>3, <1>4, <2>3, <2>6, ServiceAssumption
       DEF TypeInv, LoopTypes, SystemTypes, InLoop, At, St
  <2>8. NoStaleHeartbeat'
    BY <1>2, <2>3 DEF Inv, NoStaleHeartbeat, St, Resting
  <2>9. Built' /\ Owed'
    <3>1. BuiltFor(unit'[u], net)
      BY <1>4, <2>3 DEF Inv, Built, BuiltFor, St, WithBridge, WithMirror, Unset, Resting
    <3>2. QED
      BY <1>2, <1>4, <2>3, <3>1 DEF Inv, Built, Owed, OwesMirror, OwesBridge, St
  <2>10. QED
    BY <2>7, <2>8, <2>9 DEF Inv
<1>5. CASE St(u) \in InSetup
  <2>1. Halts(u, "post") /\ UNCHANGED loop
    BY <1>5 DEF Down, InSetup
  <2>2. "post" \in States
    BY DEF States, Instant, InSetup
  <2>3. /\ unit' \in [Units -> UnitRecords]
        /\ unit'[u].st = "post" /\ unit'[u].spoilt = unit[u].spoilt
        /\ \A v \in Units \ {u} : unit'[v] = unit[v]
    BY <1>1, <2>1, <2>2, Halted
  <2>4. BuiltFor(unit'[u], net)
    BY <2>3, PostClaims
  <2>5. QED
    BY <1>2, <1>3, <1>5, <2>1, <2>3, <2>4, QuietStep
       DEF St, InSetup, Resting, OwesMirror, OwesBridge
<1>6. CASE St(u) \in {"post", "unmirrored"}
  <2>1. Halts(u, St(u)) /\ UNCHANGED loop
    BY <1>6 DEF Down, InSetup
  <2>2. St(u) \in States
    BY <1>6 DEF States, Instant, InSetup
  <2>3. /\ unit' \in [Units -> UnitRecords]
        /\ unit'[u].st = St(u) /\ unit'[u].spoilt = unit[u].spoilt
        /\ \A v \in Units \ {u} : unit'[v] = unit[v]
    BY <1>1, <2>1, <2>2, Halted
  <2>4. TypeInv'
    BY <1>1, <1>2, <1>3, <1>6, <2>1, <2>3 DEF TypeInv, LoopTypes, SystemTypes, InLoop, At, St
  <2>5. NoStaleHeartbeat' /\ Built' /\ Owed'
    <3>1. BuiltFor(unit'[u], net)
      BY <1>6, <2>3, PostClaims
    <3>2. QED
      BY <1>2, <2>3, <3>1 DEF Inv, NoStaleHeartbeat, Built, Owed, St
  <2>6. QED
    BY <2>4, <2>5 DEF Inv
<1>7. CASE St(u) \in {"failed", "waiting"}
  <2>1. unit' = [unit EXCEPT ![u] = NewUnit] /\ UNCHANGED loop
    BY <1>7 DEF Down, InSetup
  <2>2. NewUnit \in UnitRecords /\ NewUnit.st = "inactive" /\ NewUnit.spoilt = Parts
    BY <1>1, UnitFacts
  <2>3. /\ unit' \in [Units -> UnitRecords] /\ unit'[u] = NewUnit
        /\ \A v \in Units \ {u} : unit'[v] = unit[v]
    BY <1>1, <2>1, <2>2, OneUnit
  <2>4. BuiltFor(unit'[u], net)
    BY <2>2, <2>3, FreshClaims DEF Unset, Resting
  <2>5. QED
    BY <1>2, <1>3, <1>7, <2>1, <2>2, <2>3, <2>4, QuietStep
       DEF St, Resting, OwesMirror, OwesBridge
<1>8. QED
  BY <1>1, <1>2, <1>4, <1>5, <1>6, <1>7 DEF St, UnitRecords, States, Resting, Instant, InSetup

\* The network with one flag set.
SetsBridge(x) == net' = [net EXCEPT !.bridge = x]
SetsMirror(x) == net' = [net EXCEPT !.mirror = x]

LEMMA BridgeTo ==
    ASSUME TypeInv, NEW x \in Bridges, SetsBridge(x)
    PROVE  /\ net' \in Nets /\ net'.bridge = x
           /\ net'.mirror = net.mirror /\ net'.skipped = net.skipped
  BY DEF TypeInv, SystemTypes, Nets, SetsBridge

LEMMA MirrorTo ==
    ASSUME TypeInv, NEW x \in Mirrors, SetsMirror(x)
    PROVE  /\ net' \in Nets /\ net'.mirror = x
           /\ net'.bridge = net.bridge /\ net'.skipped = net.skipped
  BY DEF TypeInv, SystemTypes, Nets, SetsMirror

SpoilsTo(u, st, x) == unit' = [unit EXCEPT ![u].st = st, ![u].spoilt = x]

LEMMA SpoiltTo ==
    ASSUME TypeInv, NEW u \in Units, NEW st \in States, NEW x \in SUBSET Parts, SpoilsTo(u, st, x)
    PROVE  /\ unit' \in [Units -> UnitRecords]
           /\ unit'[u].st = st /\ unit'[u].spoilt = x
           /\ \A v \in Units \ {u} : unit'[v] = unit[v]
<1>1. unit \in [Units -> UnitRecords]
  BY DEF TypeInv, SystemTypes
<1> DEFINE h == [unit[u] EXCEPT !.st = st]
           g == [unit EXCEPT ![u] = h]
<1>2. h \in UnitRecords /\ h.st = st
  BY <1>1 DEF UnitRecords
<1>3. unit' = [g EXCEPT ![u].spoilt = x]
  BY Zenon DEF SpoilsTo
<1> HIDE DEF h
<1>4. /\ g \in [Units -> UnitRecords] /\ g[u] = h
      /\ \A v \in Units \ {u} : g[v] = unit[v]
  BY <1>1, <1>2
<1> HIDE DEF g
<1>5. QED
  BY <1>2, <1>3, <1>4 DEF UnitRecords

\* A command of the script that finds what it needs gone.
LEMMA AbortsKeeps ==
    ASSUME Inv, NEW u \in Units, Aborts(u), UNCHANGED net, St(u) \in InSetup,
           UNCHANGED <<pool, loop, status, files>>
    PROVE  Inv'
<1>1. TypeInv /\ Becomes(u, "post")
  BY DEF Inv, Aborts
<1>2. "post" \in States
  BY DEF States, Instant
<1>3. /\ unit' \in [Units -> UnitRecords]
      /\ unit'[u].st = "post" /\ unit'[u].spoilt = unit[u].spoilt
      /\ \A v \in Units \ {u} : unit'[v] = unit[v]
  BY <1>1, <1>2, OneState
<1>4. files' \in [good : SUBSET Units, ledger : {"none", "generic", "pack"}]
  BY <1>1 DEF TypeInv, SystemTypes
<1>5. BuiltFor(unit'[u], net)
  BY <1>3, PostClaims
<1>6. QED
  BY <1>3, <1>4, <1>5, QuietStep DEF St, InSetup, Resting, OwesMirror, OwesBridge

\* A command that does its part, and takes nothing but what others lose.
LEMMA SetupStep ==
    ASSUME Inv, NEW u \in Units, UNCHANGED <<pool, loop, status, files>>, net' \in Nets,
           unit' \in [Units -> UnitRecords],
           St(u) \in InSetup, unit'[u].st \in InSetup \ {"pre"},
           St(u) \in OwesMirror => unit'[u].st \in OwesMirror,
           net'.skipped = net.skipped,
           net'.mirror = net.mirror \/ unit'[u].st \in OwesMirror,
           net'.bridge = net.bridge \/ unit'[u].st \in OwesBridge,
           St(u) \in OwesBridge => unit'[u].st \in OwesBridge,
           BuiltFor(unit'[u], net'),
           \A v \in Units \ {u} :
               /\ unit'[v].st = unit[v].st /\ unit[v].spoilt \subseteq unit'[v].spoilt
               /\ "bridge" \in unit'[v].spoilt \/ (net.bridge = "joined" => net'.bridge = "joined")
               /\ "mirror" \in unit'[v].spoilt \/ (net.mirror = "full" => net'.mirror = "full")
    PROVE  Inv'
<1>1. TypeInv'
  <2>1. files' \in [good : SUBSET Units, ledger : {"none", "generic", "pack"}]
    BY DEF Inv, TypeInv, SystemTypes
  <2>2. QED
    BY <2>1 DEF Inv, TypeInv, LoopTypes, SystemTypes, InLoop, At, St, InSetup
<1>2. NoStaleHeartbeat'
  BY DEF Inv, NoStaleHeartbeat, St, InSetup, Resting
<1>3. Built'
  <2>1. ASSUME NEW v \in Units \ {u} PROVE BuiltFor(unit'[v], net')
    <3>1. unit[v] \in UnitRecords /\ unit'[v] \in UnitRecords /\ BuiltFor(unit[v], net)
      BY DEF Inv, TypeInv, SystemTypes, Built
    <3>2. QED
      BY <3>1, OthersBuilt
  <2>2. QED
    BY <2>1 DEF Built
<1>4. Owed'
  BY DEF Inv, Owed, St
<1>5. QED
  BY <1>1, <1>2, <1>3, <1>4 DEF Inv

LEMMA SetupKeeps == ASSUME Inv, NEW u \in Units, Setup(u) PROVE Inv'
<1>1. TypeInv /\ St(u) = "pre" /\ UNCHANGED <<pool, loop, status, files>> /\ St(u) \in InSetup
  BY DEF Inv, Setup, InSetup
<1>2. files' \in [good : SUBSET Units, ledger : {"none", "generic", "pack"}]
  BY <1>1 DEF TypeInv, SystemTypes
<1>3. CASE Aborts(u) /\ UNCHANGED net
  BY <1>1, <1>3, AbortsKeeps
<1>4. CASE Becomes(u, "ready") /\ UNCHANGED net
  <2>1. "ready" \in States
    BY DEF States, Instant, InSetup
  <2>2. /\ unit' \in [Units -> UnitRecords]
        /\ unit'[u].st = "ready" /\ unit'[u].spoilt = unit[u].spoilt
        /\ \A v \in Units \ {u} : unit'[v] = unit[v]
    BY <1>1, <1>4, <2>1, OneState
  <2>3. unit[u].spoilt = Parts
    BY <1>1 DEF Inv, Built, BuiltFor, Unset, St
  <2>4. BuiltFor(unit'[u], net)
    BY <2>2, <2>3 DEF BuiltFor, Parts
  <2>5. QED
    BY <1>1, <1>2, <1>4, <2>2, <2>4, QuietStep DEF St, Resting, OwesMirror, OwesBridge
<1>5. CASE /\ net' = [net EXCEPT !.bridge = IF @ = "none" THEN "bare" ELSE @]
           /\ unit' = [unit EXCEPT ![u].st = "bridged", ![u].spoilt = {}]
  <2> DEFINE x == IF net.bridge = "none" THEN "bare" ELSE net.bridge
  <2>1. net \in Nets
    BY <1>1 DEF TypeInv, SystemTypes
  <2>2. x \in Bridges /\ (net.bridge = "joined" => x = "joined") /\ SetsBridge(x)
    BY <1>5, <2>1 DEF Nets, Bridges, SetsBridge
  <2> HIDE DEF x
  <2>3. /\ net' \in Nets /\ net'.bridge = x
        /\ net'.mirror = net.mirror /\ net'.skipped = net.skipped
    BY <1>1, <2>2, BridgeTo, Zenon
  <2>4. "bridged" \in States /\ {} \in SUBSET Parts
    BY DEF States, Instant, InSetup
  <2>5. /\ unit' \in [Units -> UnitRecords]
        /\ unit'[u].st = "bridged" /\ unit'[u].spoilt = {}
        /\ \A v \in Units \ {u} : unit'[v] = unit[v]
    <3>1. SpoilsTo(u, "bridged", {})
      BY <1>5, Zenon DEF SpoilsTo
    <3>2. QED
      BY <1>1, <2>4, <3>1, SpoiltTo, Zenon
  <2>6. BuiltFor(unit'[u], net')
    BY <2>5 DEF BuiltFor, WithBridge, WithMirror, Unset, Resting
  <2>7. QED
    BY <1>1, <2>2, <2>3, <2>5, <2>6, SetupStep DEF St, InSetup, OwesMirror, OwesBridge
<1>6. QED
  BY <1>3, <1>4, <1>5, Zenon DEF Setup

LEMMA JoinKeeps == ASSUME Inv, NEW u \in Units, Join(u) PROVE Inv'
<1>1. /\ TypeInv /\ St(u) = "bridged" /\ UNCHANGED <<pool, loop, status, files>>
      /\ St(u) \in InSetup
  BY DEF Inv, Join, InSetup
<1>2. CASE Aborts(u) /\ UNCHANGED net
  BY <1>1, <1>2, AbortsKeeps
<1>3. CASE /\ net' = [net EXCEPT !.bridge = "joined"]
           /\ unit' = [unit EXCEPT ![u].st = "joined", ![u].spoilt = @ \ {"bridge"}]
  <2> DEFINE x == unit[u].spoilt \ {"bridge"}
  <2>1. x \in SUBSET Parts /\ "joined" \in States /\ "joined" \in Bridges
    BY <1>1 DEF TypeInv, SystemTypes, UnitRecords, States, Instant, InSetup, Bridges
  <2>2. SpoilsTo(u, "joined", x)
    BY <1>1, <1>3 DEF SpoilsTo, TypeInv, SystemTypes, UnitRecords
  <2>3. SetsBridge("joined")
    BY <1>3, Zenon DEF SetsBridge
  <2> HIDE DEF x
  <2>4. /\ net' \in Nets /\ net'.bridge = "joined"
        /\ net'.mirror = net.mirror /\ net'.skipped = net.skipped
    BY <1>1, <2>1, <2>3, BridgeTo, Zenon
  <2>5. /\ unit' \in [Units -> UnitRecords]
        /\ unit'[u].st = "joined" /\ unit'[u].spoilt = x
        /\ \A v \in Units \ {u} : unit'[v] = unit[v]
    BY <1>1, <2>1, <2>2, SpoiltTo, Zenon
  <2>6. BuiltFor(unit'[u], net')
    BY <2>4, <2>5 DEF BuiltFor, WithMirror, Unset, Resting
  <2>7. QED
    BY <1>1, <2>4, <2>5, <2>6, SetupStep DEF St, InSetup, OwesMirror, OwesBridge
<1>4. QED
  BY <1>2, <1>3, Zenon DEF Join

LEMMA TakesTo ==
    ASSUME TypeInv, NEW u \in Units, NEW r \in UnitRecords, NEW part \in Parts,
           Takes(u, r, part)
    PROVE  /\ unit' \in [Units -> UnitRecords] /\ unit'[u] = r
           /\ \A v \in Units \ {u} :
                 /\ unit'[v].st = unit[v].st /\ part \in unit'[v].spoilt
                 /\ unit[v].spoilt \subseteq unit'[v].spoilt
<1>1. unit \in [Units -> UnitRecords]
  BY DEF TypeInv, SystemTypes
<1> DEFINE s(v) == [unit[v] EXCEPT !.spoilt = @ \cup {part}]
<1>2. ASSUME NEW v \in Units
      PROVE  /\ s(v) \in UnitRecords /\ s(v).st = unit[v].st
             /\ s(v).spoilt = unit[v].spoilt \cup {part}
  BY <1>1 DEF UnitRecords
<1>3. unit' = [v \in Units |-> IF v = u THEN r ELSE s(v)]
  BY DEF Takes
<1> HIDE DEF s
<1>4. QED
  BY <1>2, <1>3

LEMMA ClearKeeps == ASSUME Inv, NEW u \in Units, Clear(u) PROVE Inv'
<1>1. /\ TypeInv /\ St(u) = "joined" /\ UNCHANGED <<pool, loop, status, files>>
      /\ St(u) \in InSetup
  BY DEF Inv, Clear, InSetup
<1>2. CASE Aborts(u) /\ UNCHANGED net
  BY <1>1, <1>2, AbortsKeeps
<1>3. CASE /\ net' = [net EXCEPT !.mirror = "bare"]
           /\ Takes(u, [unit[u] EXCEPT !.st = "cleared"], "mirror")
  <2> DEFINE r == [unit[u] EXCEPT !.st = "cleared"]
  <2>1. r \in UnitRecords /\ r.st = "cleared" /\ r.spoilt = unit[u].spoilt
    BY <1>1 DEF TypeInv, SystemTypes, UnitRecords, States, Instant, InSetup
  <2>2. SetsMirror("bare") /\ "bare" \in Mirrors /\ "mirror" \in Parts
    BY <1>3, Zenon DEF SetsMirror, Mirrors, Parts
  <2>3. /\ net' \in Nets /\ net'.mirror = "bare"
        /\ net'.bridge = net.bridge /\ net'.skipped = net.skipped
    BY <1>1, <2>2, MirrorTo, Zenon
  <2>4. Takes(u, r, "mirror")
    BY <1>3
  <2> HIDE DEF r
  <2>5. /\ unit' \in [Units -> UnitRecords] /\ unit'[u] = r
        /\ \A v \in Units \ {u} :
              /\ unit'[v].st = unit[v].st /\ "mirror" \in unit'[v].spoilt
              /\ unit[v].spoilt \subseteq unit'[v].spoilt
    BY <1>1, <2>1, <2>2, <2>4, TakesTo
  <2>6. BuiltFor(unit'[u], net')
    <3>1. "bridge" \notin unit[u].spoilt => net.bridge = "joined"
      BY <1>1 DEF Inv, Built, BuiltFor, WithBridge, St
    <3>2. QED
      BY <2>1, <2>3, <2>5, <3>1 DEF BuiltFor, WithMirror, Unset, Resting
  <2>7. QED
    BY <1>1, <2>1, <2>3, <2>5, <2>6, SetupStep DEF St, InSetup, OwesMirror, OwesBridge
<1>4. QED
  BY <1>2, <1>3, Zenon DEF Clear

LEMMA MirrorKeeps == ASSUME Inv, NEW u \in Units, Mirror(u) PROVE Inv'
<1>1. /\ TypeInv /\ St(u) = "cleared" /\ UNCHANGED <<pool, loop, status, files>>
      /\ St(u) \in InSetup
  BY DEF Inv, Mirror, InSetup
<1>2. CASE Aborts(u) /\ UNCHANGED net
  BY <1>1, <1>2, AbortsKeeps
<1>3. CASE /\ net' = [net EXCEPT !.mirror = "full"]
           /\ unit' = [unit EXCEPT ![u].st = "ready", ![u].spoilt = @ \ {"mirror"}]
  <2> DEFINE x == unit[u].spoilt \ {"mirror"}
  <2>1. /\ x \in SUBSET Parts /\ "ready" \in States /\ "full" \in Mirrors
        /\ ("bridge" \notin x => "bridge" \notin unit[u].spoilt)
    BY <1>1 DEF TypeInv, SystemTypes, UnitRecords, States, Instant, InSetup, Mirrors
  <2>2. SpoilsTo(u, "ready", x)
    BY <1>1, <1>3 DEF SpoilsTo, TypeInv, SystemTypes, UnitRecords
  <2>3. SetsMirror("full")
    BY <1>3, Zenon DEF SetsMirror
  <2> HIDE DEF x
  <2>4. /\ net' \in Nets /\ net'.mirror = "full"
        /\ net'.bridge = net.bridge /\ net'.skipped = net.skipped
    BY <1>1, <2>1, <2>3, MirrorTo, Zenon
  <2>5. /\ unit' \in [Units -> UnitRecords]
        /\ unit'[u].st = "ready" /\ unit'[u].spoilt = x
        /\ \A v \in Units \ {u} : unit'[v] = unit[v]
    BY <1>1, <2>1, <2>2, SpoiltTo, Zenon
  <2>6. BuiltFor(unit'[u], net')
    <3>1. "bridge" \notin x => net.bridge = "joined"
      BY <1>1, <2>1 DEF Inv, Built, BuiltFor, WithBridge, St
    <3>2. QED
      BY <2>4, <2>5, <3>1 DEF BuiltFor, Unset, Resting
  <2>7. QED
    BY <1>1, <2>4, <2>5, <2>6, SetupStep DEF St, InSetup, OwesMirror, OwesBridge
<1>4. QED
  BY <1>2, <1>3, Zenon DEF Mirror

\* A step into the loop or out of it.
LEMMA DaemonStep ==
    ASSUME Inv, NEW u \in Units, LoopTypes', UNCHANGED net,
           \A q \in Procs \ {u} : loop'[q] = loop[q],
           status' \in {u, status},
           files' \in [good : SUBSET Units, ledger : {"none", "generic", "pack"}],
           unit' \in [Units -> UnitRecords],
           \A v \in Units \ {u} : unit'[v] = unit[v],
           unit'[u].spoilt = unit[u].spoilt,
           St(u) \in WithMirror, unit'[u].st \in WithMirror \cup {"post"},
           loop'[u].pc # "off" <=> unit'[u].st \in {"up", "stopping"}
    PROVE  Inv'
<1>1. TypeInv'
  BY ServiceAssumption DEF Inv, TypeInv, SystemTypes, InLoop, At, St, WithMirror
<1>2. NoStaleHeartbeat'
  BY DEF Inv, NoStaleHeartbeat, St, WithMirror, Resting
<1>3. Built'
  <2>1. BuiltFor(unit'[u], net)
    BY DEF Inv, Built, BuiltFor, WithBridge, WithMirror, Unset, Resting, St
  <2>2. QED
    BY <2>1 DEF Inv, Built
<1>4. Owed'
  BY DEF Inv, Owed, St, WithMirror, OwesMirror, OwesBridge
<1>5. QED
  BY <1>1, <1>2, <1>3, <1>4 DEF Inv

LEMMA ExitsKeeps == ASSUME Inv, NEW u \in Units, Exits(u) PROVE Inv'
<1>1. /\ TypeInv /\ St(u) \in {"up", "stopping"} /\ u \in Procs
      /\ UNCHANGED <<pool, net, files>> /\ status' \in {u, status}
      /\ loop' = [loop EXCEPT ![u] = Off] /\ Becomes(u, "post")
  BY ServiceAssumption DEF Inv, Exits, End, Beat, Becomes
<1>2. "post" \in States
  BY DEF States, Instant, InSetup
<1>3. /\ unit' \in [Units -> UnitRecords]
      /\ unit'[u].st = "post" /\ unit'[u].spoilt = unit[u].spoilt
      /\ \A v \in Units \ {u} : unit'[v] = unit[v]
  BY <1>1, <1>2, OneState
<1>4. LoopTypes' /\ loop'[u].pc = "off" /\ \A q \in Procs \ {u} : loop'[q] = loop[q]
  BY <1>1, EndSteps
<1>5. files' \in [good : SUBSET Units, ledger : {"none", "generic", "pack"}]
  BY <1>1 DEF TypeInv, SystemTypes
<1>6. QED
  BY <1>1, <1>3, <1>4, <1>5, DaemonStep DEF WithMirror

LEMMA DiesKeeps == ASSUME Inv, NEW u \in Units, Dies(u) PROVE Inv'
<1>1. /\ TypeInv /\ St(u) \in {"up", "stopping"} /\ u \in Procs
      /\ UNCHANGED <<pool, net, files, status>>
      /\ loop' = [loop EXCEPT ![u] = Off] /\ Becomes(u, "post")
  BY ServiceAssumption DEF Inv, Dies, Becomes
<1>2. "post" \in States
  BY DEF States, Instant, InSetup
<1>3. /\ unit' \in [Units -> UnitRecords]
      /\ unit'[u].st = "post" /\ unit'[u].spoilt = unit[u].spoilt
      /\ \A v \in Units \ {u} : unit'[v] = unit[v]
  BY <1>1, <1>2, OneState
<1>4. LoopTypes' /\ loop'[u].pc = "off" /\ \A q \in Procs \ {u} : loop'[q] = loop[q]
  BY <1>1, EndSteps
<1>5. files' \in [good : SUBSET Units, ledger : {"none", "generic", "pack"}]
  BY <1>1 DEF TypeInv, SystemTypes
<1>6. QED
  BY <1>1, <1>3, <1>4, <1>5, DaemonStep DEF WithMirror

LEMMA DaemonKeeps == ASSUME Inv, NEW u \in Units, Daemon(u) PROVE Inv'
<1>1. /\ TypeInv /\ St(u) = "ready" /\ UNCHANGED <<pool, net>> /\ u \in Procs
      /\ unit \in [Units -> UnitRecords]
      /\ files \in [good : SUBSET Units, ledger : {"none", "generic", "pack"}]
  BY ServiceAssumption DEF Inv, TypeInv, SystemTypes, Daemon
<1>2. CASE Loads(u) /\ Fits(u)
  <2>1. /\ Begin(u) /\ Becomes(u, "up")
        /\ files' = files \/ files' = [files EXCEPT !.ledger = "pack"]
    BY <1>2 DEF Daemon
  <2>2. files' \in [good : SUBSET Units, ledger : {"none", "generic", "pack"}]
    BY <1>1, <2>1
  <2>3. "up" \in States
    BY DEF States
  <2>4. /\ unit' \in [Units -> UnitRecords]
        /\ unit'[u].st = "up" /\ unit'[u].spoilt = unit[u].spoilt
        /\ \A v \in Units \ {u} : unit'[v] = unit[v]
    BY <1>1, <2>1, <2>3, OneState
  <2>5. /\ LoopTypes' /\ status' \in {u, status} /\ loop'[u].pc = "top"
        /\ \A q \in Procs \ {u} : loop'[q] = loop[q]
    BY <1>1, <2>1, BeginSteps
  <2>6. QED
    BY <1>1, <2>2, <2>4, <2>5, DaemonStep DEF WithMirror
<1>3. CASE ~(Loads(u) /\ Fits(u))
  <2> DEFINE h == [unit[u] EXCEPT !.st = "post"]
             r == [h EXCEPT !.main = 78]
  <2>1. unit' = [unit EXCEPT ![u].st = "post", ![u].main = 78]
        /\ UNCHANGED <<loop, status, files>>
    BY <1>3, Zenon DEF Daemon
  <2>2. h \in UnitRecords /\ h.st = "post" /\ h.spoilt = unit[u].spoilt
    BY <1>1 DEF UnitRecords, States, Instant, InSetup
  <2> DEFINE g == [unit EXCEPT ![u] = h]
  <2>3. unit' = [g EXCEPT ![u].main = 78]
    BY <2>1, Zenon
  <2> HIDE DEF h
  <2>4. g \in [Units -> UnitRecords] /\ g[u] = h /\ \A v \in Units \ {u} : g[v] = unit[v]
    BY <1>1, <2>2
  <2> HIDE DEF g
  <2>5. /\ unit' \in [Units -> UnitRecords]
        /\ unit'[u].st = "post" /\ unit'[u].spoilt = unit[u].spoilt
        /\ \A v \in Units \ {u} : unit'[v] = unit[v]
    BY <2>2, <2>3, <2>4 DEF UnitRecords
  <2>6. BuiltFor(unit'[u], net)
    BY <2>5, PostClaims
  <2>7. QED
    BY <1>1, <2>1, <2>5, <2>6, QuietStep DEF St, Resting, OwesMirror, OwesBridge
<1>4. QED
  BY <1>2, <1>3

-----------------------------------------------------------------------------
(* The steps that leave the units alone.                                   *)

LEMMA LoopAlone ==
    ASSUME Inv, NEW p \in Procs, LoopTypes', UNCHANGED <<unit, net>>,
           p \in Units => ~At(p, "off"),
           \A q \in Units : loop'[q].pc = "off" <=> loop[q].pc = "off",
           status' \in {p, status},
           files' \in [good : SUBSET Units, ledger : {"none", "generic", "pack"}]
    PROVE  Inv'
<1>1. TypeInv'
  BY DEF Inv, TypeInv, SystemTypes, InLoop, At, St
<1>2. NoStaleHeartbeat'
  BY DEF Inv, TypeInv, InLoop, NoStaleHeartbeat, St, Resting
<1>3. Built' /\ Owed'
  BY DEF Inv, Built, Owed, St
<1>4. QED
  BY <1>1, <1>2, <1>3 DEF Inv

LEMMA WorksKeeps == ASSUME Inv, NEW p \in Procs, Works(p) PROVE Inv'
<1>1. TypeInv /\ Step(p) /\ UNCHANGED <<unit, net>>
  BY DEF Inv, Works
<1>2. /\ LoopTypes' /\ loop[p].pc # "off" /\ status' \in {p, status}
      /\ \A q \in Procs : loop'[q].pc = "off" <=> loop[q].pc = "off"
  BY <1>1, LoopSteps
<1>3. files' \in [good : SUBSET Units, ledger : {"none", "generic", "pack"}]
  <2>1. files \in [good : SUBSET Units, ledger : {"none", "generic", "pack"}]
    BY <1>1 DEF TypeInv, SystemTypes
  <2>2. PICK t \in {"generic", "pack"} : files' = files \/ files' = [files EXCEPT !.ledger = t]
    BY DEF Works, Tag
  <2>3. QED
    BY <2>1, <2>2
<1>4. QED
  BY <1>1, <1>2, <1>3, LoopAlone, ServiceAssumption DEF At

LEMMA HandKeeps == ASSUME Inv, NEW p \in Procs, Hand(p) PROVE Inv'
<1>1. TypeInv /\ Begin(p) /\ UNCHANGED <<pool, unit, net, files>> /\ p \notin Units
  BY DEF Inv, Hand
<1>2. /\ LoopTypes' /\ status' \in {p, status}
      /\ \A q \in Procs \ {p} : loop'[q] = loop[q]
  BY <1>1, BeginSteps
<1>3. files' \in [good : SUBSET Units, ledger : {"none", "generic", "pack"}]
  BY <1>1 DEF TypeInv, SystemTypes
<1>4. QED
  BY <1>1, <1>2, <1>3, LoopAlone, ServiceAssumption

LEMMA HandEndsKeeps == ASSUME Inv, NEW p \in Procs, HandEnds(p) PROVE Inv'
<1>1. /\ TypeInv /\ UNCHANGED <<pool, unit, net, files>> /\ p \notin Units
      /\ loop' = [loop EXCEPT ![p] = Off] /\ status' \in {p, status}
  BY DEF Inv, HandEnds, End, Beat
<1>2. LoopTypes' /\ \A q \in Procs \ {p} : loop'[q] = loop[q]
  BY <1>1, EndSteps
<1>3. files' \in [good : SUBSET Units, ledger : {"none", "generic", "pack"}]
  BY <1>1 DEF TypeInv, SystemTypes
<1>4. QED
  BY <1>1, <1>2, <1>3, LoopAlone, ServiceAssumption

LEMMA EditKeeps == ASSUME Inv, Edit PROVE Inv'
<1>1. files' \in [good : SUBSET Units, ledger : {"none", "generic", "pack"}]
  <2>1. files \in [good : SUBSET Units, ledger : {"none", "generic", "pack"}]
    BY DEF Inv, TypeInv, SystemTypes
  <2>2. PICK g \in {Units, {"generic"}, {}}, l \in {"none", "generic", "pack"} :
          files' = [files EXCEPT !.good = g] \/ files' = [files EXCEPT !.ledger = l]
    BY DEF Edit
  <2>3. g \in SUBSET Units
    BY DEF Units
  <2>4. QED
    BY <2>1, <2>2, <2>3
<1>2. UNCHANGED <<pool, loop, status, unit, net>>
  BY DEF Edit
<1>3. QED
  BY <1>1, <1>2
     DEF Inv, TypeInv, LoopTypes, SystemTypes, InLoop, NoStaleHeartbeat, Built,
         BuiltFor, Owed, St, At

LEMMA ChangeKeeps == ASSUME Inv, Change PROVE Inv'
<1>1. UNCHANGED <<loop, status, unit, net, files>>
  BY DEF Change, Supply
<1>2. pool' \in [Captures -> {"absent", "torn", "whole"}]
  BY DEF Inv, TypeInv, LoopTypes, Change, Supply
<1>3. QED
  BY <1>1, <1>2
     DEF Inv, TypeInv, LoopTypes, SystemTypes, InLoop, NoStaleHeartbeat, Built,
         BuiltFor, Owed, St, At

-----------------------------------------------------------------------------
(* The steps that take the mirror or the bridge away.                      *)

Spoil(r) == [r EXCEPT !.spoilt = Parts]
SetsBoth(x, y) == net' = [net EXCEPT !.bridge = x, !.skipped = y]

LEMMA SpoilFacts ==
    ASSUME NEW r \in UnitRecords
    PROVE  /\ Spoil(r) \in UnitRecords
           /\ Spoil(r).st = r.st /\ Spoil(r).spoilt = Parts
  BY DEF Spoil, UnitRecords

LEMMA BothTo ==
    ASSUME TypeInv, NEW x \in Bridges, NEW y \in BOOLEAN, SetsBoth(x, y)
    PROVE  /\ net' \in Nets /\ net'.bridge = x
           /\ net'.mirror = net.mirror /\ net'.skipped = y
<1>1. net \in Nets
  BY DEF TypeInv, SystemTypes
<1> DEFINE m == [net EXCEPT !.bridge = x]
<1>2. m \in Nets /\ m.bridge = x /\ m.mirror = net.mirror
  BY <1>1 DEF Nets
<1>3. net' = [m EXCEPT !.skipped = y]
  BY Zenon DEF SetsBoth
<1> HIDE DEF m
<1>4. QED
  BY <1>2, <1>3 DEF Nets

LEMMA TeardownKeeps == ASSUME Inv, NEW u \in Units, Teardown(u) PROVE Inv'
<1>1. /\ TypeInv /\ St(u) = "post" /\ UNCHANGED <<pool, loop, files>>
      /\ unit \in [Units -> UnitRecords] /\ net \in Nets
  BY DEF Inv, TypeInv, SystemTypes, Teardown
<1>2. files' \in [good : SUBSET Units, ledger : {"none", "generic", "pack"}]
  BY <1>1 DEF TypeInv, SystemTypes
<1>3. CASE Loads(u) /\ SelfContained
  <2> DEFINE h == [unit[u] EXCEPT !.st = "unmirrored"]
  <2>1. h \in UnitRecords /\ h.st = "unmirrored" /\ h.spoilt = unit[u].spoilt
    BY <1>1 DEF UnitRecords, States, Instant, InSetup
  <2>2. /\ SetsMirror("none") /\ UNCHANGED status /\ Takes(u, h, "mirror")
        /\ "none" \in Mirrors /\ "mirror" \in Parts
    BY <1>3, Zenon DEF Teardown, SetsMirror, Mirrors, Parts
  <2> HIDE DEF h
  <2>3. /\ net' \in Nets /\ net'.mirror = "none"
        /\ net'.bridge = net.bridge /\ net'.skipped = net.skipped
    BY <1>1, <2>2, MirrorTo, Zenon
  <2>4. /\ unit' \in [Units -> UnitRecords] /\ unit'[u].st = "unmirrored"
        /\ \A v \in Units \ {u} :
              /\ unit'[v].st = unit[v].st /\ "mirror" \in unit'[v].spoilt
              /\ unit[v].spoilt \subseteq unit'[v].spoilt
    BY <1>1, <2>1, <2>2, TakesTo
  <2>5. TypeInv'
    BY <1>1, <1>2, <2>2, <2>3, <2>4 DEF TypeInv, LoopTypes, SystemTypes, InLoop, At, St
  <2>6. NoStaleHeartbeat'
    BY <1>1, <2>2, <2>4 DEF Inv, NoStaleHeartbeat, St, Resting
  <2>7. Built'
    <3>1. ASSUME NEW v \in Units \ {u} PROVE BuiltFor(unit'[v], net')
      <4>1. unit[v] \in UnitRecords /\ unit'[v] \in UnitRecords /\ BuiltFor(unit[v], net)
        BY <1>1, <2>4 DEF Inv, Built
      <4>2. QED
        BY <2>3, <2>4, <4>1, OthersBuilt
    <3>2. BuiltFor(unit'[u], net')
      BY <2>4, PostClaims
    <3>3. QED
      BY <3>1, <3>2 DEF Built
  <2>8. Owed'
    BY <2>3, <2>4 DEF Inv, Owed, St, OwesBridge
  <2>9. QED
    BY <2>5, <2>6, <2>7, <2>8 DEF Inv
<1>4. CASE ~(Loads(u) /\ SelfContained)
  <2> DEFINE y == net.skipped \/ net.bridge # "none" \/ net.mirror # "none"
  <2>1. /\ net' = [net EXCEPT !.skipped = y] /\ status' = "none"
        /\ unit' = [unit EXCEPT ![u] = Over(unit[u])]
    BY <1>4, Zenon DEF Teardown, Forgets, NoStatus
  <2>2. y \in BOOLEAN
    BY <1>1, Zenon DEF Nets
  <2>3. y = FALSE => net.skipped = FALSE /\ net.bridge = "none" /\ net.mirror = "none"
    BY <1>1 DEF Nets
  <2> HIDE DEF y
  <2>4. /\ net' \in Nets /\ net'.skipped = y
        /\ net'.bridge = net.bridge /\ net'.mirror = net.mirror
    BY <1>1, <2>1, <2>2 DEF Nets
  <2>5. /\ Over(unit[u]) \in UnitRecords
        /\ Over(unit[u]).st \in Resting \cup {"waiting"} /\ Over(unit[u]).spoilt = Parts
    BY <1>1, UnitFacts
  <2>6. /\ unit' \in [Units -> UnitRecords] /\ unit'[u] = Over(unit[u])
        /\ \A v \in Units \ {u} : unit'[v] = unit[v]
    BY <1>1, <2>1, <2>5, OneUnit
  <2>7. TypeInv'
    BY <1>1, <1>2, <2>1, <2>4, <2>5, <2>6
       DEF TypeInv, LoopTypes, SystemTypes, InLoop, At, St, Resting
  <2>8. NoStaleHeartbeat'
    BY <2>1 DEF NoStaleHeartbeat, Units
  <2>9. Built'
    <3>1. ASSUME NEW v \in Units \ {u} PROVE BuiltFor(unit'[v], net')
      <4>1. unit[v] \in UnitRecords /\ unit'[v] = unit[v] /\ BuiltFor(unit[v], net)
        BY <1>1, <2>6 DEF Inv, Built
      <4>2. QED
        BY <2>4, <4>1, OthersBuilt
    <3>2. BuiltFor(unit'[u], net')
      BY <2>5, <2>6, FreshClaims DEF Unset
    <3>3. QED
      BY <3>1, <3>2 DEF Built
  <2>10. Owed'
    BY <2>2, <2>3, <2>4 DEF Owed
  <2>11. QED
    BY <2>7, <2>8, <2>9, <2>10 DEF Inv
<1>5. QED
  BY <1>3, <1>4

LEMMA UnbridgeKeeps == ASSUME Inv, NEW u \in Units, Unbridge(u) PROVE Inv'
<1>1. /\ TypeInv /\ St(u) = "unmirrored" /\ UNCHANGED <<pool, loop, files>>
      /\ unit \in [Units -> UnitRecords] /\ net \in Nets
  BY DEF Inv, TypeInv, SystemTypes, Unbridge
<1>2. files' \in [good : SUBSET Units, ledger : {"none", "generic", "pack"}]
  BY <1>1 DEF TypeInv, SystemTypes
<1> DEFINE y == net.skipped /\ net.mirror # "none"
<1>3. /\ SetsBoth("none", y) /\ status' = "none" /\ Takes(u, Over(unit[u]), "bridge")
      /\ "none" \in Bridges /\ "bridge" \in Parts
  BY Zenon DEF Unbridge, SetsBoth, Forgets, NoStatus, Bridges, Parts
<1>4. y \in BOOLEAN
  BY <1>1, Zenon DEF Nets
<1>5. y = FALSE /\ net.mirror # "none" => net.skipped = FALSE
  BY <1>1 DEF Nets
<1> HIDE DEF y
<1>6. /\ net' \in Nets /\ net'.bridge = "none"
      /\ net'.mirror = net.mirror /\ net'.skipped = y
  BY <1>1, <1>3, <1>4, BothTo, Zenon
<1>7. /\ Over(unit[u]) \in UnitRecords /\ Over(unit[u]).st \in Resting \cup {"waiting"}
      /\ Over(unit[u]).spoilt = Parts
  BY <1>1, UnitFacts
<1>8. /\ unit' \in [Units -> UnitRecords] /\ unit'[u] = Over(unit[u])
      /\ \A v \in Units \ {u} :
            /\ unit'[v].st = unit[v].st /\ "bridge" \in unit'[v].spoilt
            /\ unit[v].spoilt \subseteq unit'[v].spoilt
  BY <1>1, <1>3, <1>7, TakesTo
<1>9. TypeInv'
  BY <1>1, <1>2, <1>3, <1>6, <1>7, <1>8
     DEF TypeInv, LoopTypes, SystemTypes, InLoop, At, St, Resting
<1>10. NoStaleHeartbeat'
  BY <1>3 DEF NoStaleHeartbeat, Units
<1>11. Built'
  <2>1. ASSUME NEW v \in Units \ {u} PROVE BuiltFor(unit'[v], net')
    <3>1. unit[v] \in UnitRecords /\ unit'[v] \in UnitRecords /\ BuiltFor(unit[v], net)
      BY <1>1, <1>8 DEF Inv, Built
    <3>2. QED
      BY <1>6, <1>8, <3>1, OthersBuilt
  <2>2. BuiltFor(unit'[u], net')
    BY <1>7, <1>8, FreshClaims DEF Unset
  <2>3. QED
    BY <2>1, <2>2 DEF Built
<1>12. Owed'
  <2>1. net.mirror # "none" /\ y = FALSE => \E v \in Units \ {u} : St(v) \in OwesMirror
    BY <1>1, <1>5 DEF Inv, Owed, OwesMirror
  <2>2. net'.skipped \in BOOLEAN
    BY <1>6 DEF Nets
  <2>3. QED
    BY <1>4, <1>6, <1>8, <2>1, <2>2 DEF Owed, St
<1>13. QED
  BY <1>9, <1>10, <1>11, <1>12 DEF Inv

SetsNet(ps, x, y, z) ==
    net' = [net EXCEPT !.ports = ps, !.bridge = x, !.mirror = y, !.skipped = z]
SetsPorts(ps, y, x) == net' = [net EXCEPT !.ports = ps, !.mirror = y, !.bridge = x]

LEMMA NetTo ==
    ASSUME TypeInv, NEW ps \in SUBSET Ports, NEW x \in Bridges, NEW y \in Mirrors,
           NEW z \in BOOLEAN, SetsNet(ps, x, y, z)
    PROVE  net' \in Nets /\ net'.bridge = x /\ net'.mirror = y /\ net'.skipped = z
<1>1. net \in Nets
  BY DEF TypeInv, SystemTypes
<1> DEFINE m == [net EXCEPT !.ports = ps]
           n == [m EXCEPT !.bridge = x]
           o == [n EXCEPT !.mirror = y]
<1>2. m \in Nets
  BY <1>1 DEF Nets
<1>3. n \in Nets /\ n.bridge = x
  <2> HIDE DEF m
  <2>1. QED
    BY <1>2 DEF Nets
<1>4. o \in Nets /\ o.bridge = x /\ o.mirror = y
  <2> HIDE DEF n
  <2>1. QED
    BY <1>3 DEF Nets
<1>5. net' = [o EXCEPT !.skipped = z]
  BY Zenon DEF SetsNet
<1> HIDE DEF m, n, o
<1>6. QED
  BY <1>4, <1>5 DEF Nets

LEMMA PortsTo ==
    ASSUME TypeInv, NEW ps \in SUBSET Ports, NEW y \in Mirrors, NEW x \in Bridges,
           SetsPorts(ps, y, x)
    PROVE  net' \in Nets /\ net'.mirror = y /\ net'.bridge = x /\ net'.skipped = net.skipped
<1>1. net \in Nets
  BY DEF TypeInv, SystemTypes
<1> DEFINE m == [net EXCEPT !.ports = ps]
           n == [m EXCEPT !.mirror = y]
<1>2. m \in Nets /\ m.skipped = net.skipped
  BY <1>1 DEF Nets
<1>3. n \in Nets /\ n.mirror = y /\ n.skipped = net.skipped
  <2> HIDE DEF m
  <2>1. QED
    BY <1>2 DEF Nets
<1>4. net' = [n EXCEPT !.bridge = x]
  BY Zenon DEF SetsPorts
<1> HIDE DEF m, n
<1>5. QED
  BY <1>3, <1>4 DEF Nets

LEMMA ProvisionKeeps == ASSUME Inv, Provision PROVE Inv'
<1>1. /\ net \in Nets /\ net' = [net EXCEPT !.ports = Ports]
      /\ UNCHANGED <<pool, loop, status, unit, files>>
  BY DEF Inv, TypeInv, SystemTypes, Provision
<1>2. /\ net' \in Nets /\ net'.bridge = net.bridge /\ net'.mirror = net.mirror
      /\ net'.skipped = net.skipped
  BY <1>1 DEF Nets
<1>3. QED
  BY <1>1, <1>2
     DEF Inv, TypeInv, LoopTypes, SystemTypes, InLoop, NoStaleHeartbeat, Built,
         BuiltFor, Owed, St, At

LEMMA UndoKeeps == ASSUME Inv, Undo PROVE Inv'
<1>1. /\ TypeInv /\ unit \in [Units -> UnitRecords]
      /\ UNCHANGED <<pool, loop, status, files>>
  BY DEF Inv, TypeInv, SystemTypes, Undo
<1> DEFINE x == IF net.bridge = "none" THEN net.bridge ELSE "bare"
<1>2. /\ SetsPorts({}, "none", x) /\ unit' = [v \in Units |-> Spoil(unit[v])]
      /\ x \in Bridges /\ (net.bridge = "none" => x = "none")
  <2>1. SetsPorts({}, "none", x) /\ unit' = [v \in Units |-> Spoil(unit[v])]
    BY Zenon DEF Undo, SetsPorts, Spoil
  <2>2. QED
    BY <2>1 DEF Bridges
<1> HIDE DEF x
<1>3. /\ net' \in Nets /\ net'.mirror = "none" /\ net'.bridge = x
      /\ net'.skipped = net.skipped
  <2>1. {} \in SUBSET Ports /\ "none" \in Mirrors
    BY DEF Mirrors
  <2>2. QED
    BY <1>1, <1>2, <2>1, PortsTo, Zenon
<1>4. /\ unit' \in [Units -> UnitRecords]
      /\ \A v \in Units : unit'[v].st = unit[v].st /\ unit'[v].spoilt = Parts
  BY <1>1, <1>2, SpoilFacts
<1>5. TypeInv'
  BY <1>1, <1>3, <1>4 DEF TypeInv, LoopTypes, SystemTypes, InLoop, At, St
<1>6. NoStaleHeartbeat' /\ Built' /\ Owed'
  <2>1. Built'
    BY <1>4 DEF Built, BuiltFor, Parts
  <2>2. QED
    BY <1>1, <1>2, <1>3, <1>4, <2>1 DEF Inv, NoStaleHeartbeat, Owed, St
<1>7. QED
  BY <1>5, <1>6 DEF Inv

LEMMA RebootKeeps == ASSUME Inv, Reboot PROVE Inv'
<1>1. /\ TypeInv /\ unit \in [Units -> UnitRecords] /\ net \in Nets
      /\ UNCHANGED <<pool, files>>
      /\ loop' = [p \in Procs |-> Off] /\ status' = "none"
      /\ unit' = [v \in Units |-> IF St(v) = "inactive" THEN NewUnit ELSE Started(NewUnit)]
  BY DEF Inv, TypeInv, SystemTypes, Reboot, NoStatus
<1>2. /\ net' \in Nets /\ net'.bridge = "none" /\ net'.mirror = "none"
  <2> DEFINE ps == IF SelfContained THEN {} ELSE net.ports
  <2>1. SetsNet(ps, "none", "none", FALSE)
    BY Zenon DEF Reboot, SetsNet
  <2>2. ps \in SUBSET Ports
    BY <1>1 DEF Nets
  <2>3. FALSE \in BOOLEAN /\ "none" \in Bridges /\ "none" \in Mirrors
    BY DEF Bridges, Mirrors
  <2> HIDE DEF ps
  <2>4. QED
    BY <1>1, <2>1, <2>2, <2>3, NetTo, Zenon
<1>3. /\ NewUnit \in UnitRecords /\ NewUnit.st = "inactive" /\ NewUnit.spoilt = Parts
      /\ Started(NewUnit) \in UnitRecords /\ Started(NewUnit).st \in {"pre", "failed"}
      /\ Started(NewUnit).spoilt = NewUnit.spoilt
  <2>1. NewUnit \in UnitRecords /\ NewUnit.st = "inactive" /\ NewUnit.spoilt = Parts
    <3>1. PICK v \in Units : TRUE
      BY DEF Units
    <3>2. QED
      BY <1>1, <3>1, UnitFacts
  <2>2. QED
    BY <2>1, UnitFacts
<1>4. /\ unit' \in [Units -> UnitRecords]
      /\ \A v \in Units : /\ unit'[v].st \in {"inactive", "pre", "failed"}
                          /\ unit'[v].spoilt = Parts
  BY <1>1, <1>3
<1>5. loop' \in [Procs -> Loops] /\ \A p \in Procs : loop'[p].pc = "off"
  <2>1. Off \in Loops /\ Off.pc = "off"
    BY Zenon DEF Off, Loops
  <2>2. QED
    BY <1>1, <2>1
<1>6. TypeInv'
  BY <1>1, <1>2, <1>4, <1>5, ServiceAssumption
     DEF TypeInv, LoopTypes, SystemTypes, InLoop, At, St
<1>7. NoStaleHeartbeat' /\ Built' /\ Owed'
  BY <1>1, <1>2, <1>4 DEF NoStaleHeartbeat, Built, BuiltFor, Parts, Owed, Units, St
<1>8. QED
  BY <1>6, <1>7 DEF Inv

-----------------------------------------------------------------------------
(* The theorems.                                                           *)

LEMMA InvInit == Init => Inv
<1> SUFFICES ASSUME Init PROVE Inv
  OBVIOUS
<1>1. TypeInv
  BY TypeInit
<1>2. NoStaleHeartbeat
  BY DEF Init, RunLoopInit, NoStatus, NoStaleHeartbeat, Units
<1>3. net.bridge = "none" /\ net.mirror = "none"
  BY DEF Init
<1>4. \A u \in Units : unit[u].spoilt = Parts
  BY DEF Init, NewUnit
<1>5. Built /\ Owed
  BY <1>3, <1>4 DEF Built, BuiltFor, Parts, Owed
<1>6. QED
  BY <1>1, <1>2, <1>5 DEF Inv

LEMMA InvStep == Inv /\ [Next]_vars => Inv'
<1> SUFFICES ASSUME Inv, [Next]_vars PROVE Inv'
  OBVIOUS
<1>1. ASSUME NEW u \in Units, Fire(u) \/ Down(u) \/ WindowPasses(u) \/ SetupFails(u) \/ Dies(u)
      PROVE  Inv'
  BY <1>1, FireKeeps, DownKeeps, WindowPassesKeeps, SetupFailsKeeps, DiesKeeps
<1>2. ASSUME NEW u \in Units, System(u)
      PROVE  Inv'
  BY <1>2, SetupKeeps, JoinKeeps, ClearKeeps, MirrorKeeps, DaemonKeeps, ExitsKeeps, TeardownKeeps, UnbridgeKeeps,
     RestartKeeps DEF System
<1>3. ASSUME NEW p \in Procs, Hand(p) \/ HandEnds(p) \/ Works(p)
      PROVE  Inv'
  BY <1>3, HandKeeps, HandEndsKeeps, WorksKeeps
<1>4. CASE Provision \/ Undo \/ Edit \/ Change \/ Reboot
  BY <1>4, ProvisionKeeps, UndoKeeps, EditKeeps, ChangeKeeps, RebootKeeps
<1>5. CASE UNCHANGED vars
  BY <1>5
     DEF vars, Inv, TypeInv, LoopTypes, SystemTypes, InLoop, NoStaleHeartbeat, Built,
         BuiltFor, Owed, St, At
<1>6. QED
  BY <1>1, <1>2, <1>3, <1>4, <1>5 DEF Next

LEMMA Invariant == Spec => []Inv
  BY InvInit, InvStep, PTL DEF Spec

\* The ranges, and that the daemons in their loop are those of the units that run.
THEOREM TypeCorrect == Spec => []TypeOK
<1>1. Inv => TypeOK
  BY TypeInvIsType DEF Inv
<1>2. QED
  BY <1>1, Invariant, PTL

\* scripts/net-setup.sh: a daemon that sends has its replay port in the bridge, until
\* somebody takes it out after it joined, and has the mirror, until somebody takes that
\* away after its filters were added.
THEOREM MirrorStays == Spec => []MirrorHolds
<1>1. Inv => MirrorHolds
  <2> SUFFICES ASSUME Inv, NEW u \in Units, At(u, "send")
               PROVE  /\ "bridge" \notin unit[u].spoilt => net.bridge = "joined"
                      /\ "mirror" \notin unit[u].spoilt => net.mirror = "full"
    BY DEF MirrorHolds
  <2>1. ~At(u, "off")
    BY DEF At
  <2>2. St(u) \in {"up", "stopping"}
    BY <2>1 DEF Inv, TypeInv, InLoop
  <2>3. BuiltFor(unit[u], net)
    BY DEF Inv, Built
  <2>4. QED
    BY <2>2, <2>3 DEF BuiltFor, WithBridge, WithMirror, St
<1>2. QED
  BY <1>1, Invariant, PTL

\* systemd/ot-turbolaser.service: no heartbeat is left of a unit at rest.
THEOREM HeartbeatFresh == Spec => []NoStaleHeartbeat
<1>1. Inv => NoStaleHeartbeat
  BY DEF Inv
<1>2. QED
  BY <1>1, Invariant, PTL

\* systemd/ot-turbolaser.service, control.rs: units at rest leave no bridge and no
\* mirror behind, unless a teardown found no ports or no configuration.
THEOREM LeavesNothing == Spec => []NothingLeft
<1>1. Inv => NothingLeft
  BY DEF Inv, TypeInv, SystemTypes, Nets, Owed, NothingLeft, Resting, OwesMirror, OwesBridge
<1>2. QED
  BY <1>1, Invariant, PTL

=============================================================================
