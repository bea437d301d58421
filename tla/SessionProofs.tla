--------------------------- MODULE SessionProofs ---------------------------
(***************************************************************************)
(* The session ledger, for every zone layout, cap, pack and interval: the  *)
(* ledgers stay well formed, an asset that was on the wire keeps its       *)
(* address, a clean daemon's ledger is the file's, a sealed fleet is the   *)
(* committed one, and promotions are a floor apart.                        *)
(***************************************************************************)
EXTENDS Session, FiniteSetTheorems, TLAPS

\* No two assets of a ledger share an address, and no origin has two.
WellAddressed(l) ==
    /\ \A h \in l.hosts : h.ip \notin l.devices
    /\ \A g, h \in l.hosts : g.ip = h.ip \/ g.origin = h.origin => g = h

Valid(l) == l \in Ledgers \cup {NoLedger} /\ WellAddressed(l)

LEMMA TypeIsValid ==
    TypeOK <=> /\ clock \in 0..MaxTime
               /\ Valid(disk) /\ Valid(mem) /\ Valid(cli)
               /\ made \in 0..MaxMade
               /\ dirty \in BOOLEAN
               /\ at \in {"remap", "promote", "replay", "tick", "burst"}
               /\ mode \in Modes \cup {"off"}
BY DEF TypeOK, Valid, WellAddressed

LEMMA NoLedgerFacts ==
    /\ NoLedger.id = 0 /\ ~NoLedger.sealed /\ NoLedger.hosts = {} /\ NoLedger.devices = {}
    /\ NoLedger.lastThreat = Never /\ Valid(NoLedger)
    /\ \A l \in Ledgers : l.id \in 1..MaxMade /\ l # NoLedger
<1>1. /\ NoLedger.id = 0 /\ ~NoLedger.sealed /\ NoLedger.hosts = {} /\ NoLedger.devices = {}
      /\ NoLedger.lastThreat = Never
  BY DEF NoLedger
<1>2. \A l \in Ledgers : l.id \in 1..MaxMade
  BY DEF Ledgers
<1>3. QED
  BY <1>1, <1>2, BoundsAssumption DEF Valid, WellAddressed

LEMMA AddressesFinite == IsFiniteSet(Addresses) /\ Addresses \subseteq Nat
<1>1. IsFiniteSet(UNION Zones)
  BY ZonesAssumption, FS_UNION
<1>2. QED
  BY <1>1, ZonesAssumption DEF Addresses

\* The constructors of a ledger.
LEMMA NewLedgerFacts ==
    ASSUME NEW id \in 1..MaxMade
    PROVE  /\ NewLedger(id).id = id /\ ~NewLedger(id).sealed
           /\ NewLedger(id).hosts = {} /\ NewLedger(id).devices = {}
           /\ NewLedger(id).lastThreat = Never
           /\ "generic" \in Packs => Valid(NewLedger(id)) /\ NewLedger(id) \in Ledgers
<1>1. NoLedger \in [id : {0}, pack : {"none"}, sealed : {FALSE}, devices : {{}},
                   target : {0}, hosts : {{}}, lastThreat : {Never}]
  BY DEF NoLedger
<1>2. NewLedger(id) \in [id : {id}, pack : {"generic"}, sealed : {FALSE}, devices : {{}},
                        target : {0}, hosts : {{}}, lastThreat : {Never}]
  BY <1>1 DEF NewLedger
<1>3. Never \in -1..MaxTime
  BY BoundsAssumption DEF Never
<1>4. ASSUME "generic" \in Packs PROVE NewLedger(id) \in Ledgers
  <2> DEFINE l == NewLedger(id)
  <2>1. l = [id |-> l.id, pack |-> l.pack, sealed |-> l.sealed, devices |-> l.devices,
             target |-> l.target, hosts |-> l.hosts, lastThreat |-> l.lastThreat]
    BY <1>2
  <2>2. l.id \in 1..MaxMade /\ l.pack \in Packs /\ l.target \in Nat
    BY <1>2, <1>4
  <2>3. l.sealed \in BOOLEAN
    BY <1>2
  <2>4. /\ l.devices \in SUBSET Addresses
        /\ l.hosts \in SUBSET [origin : Origins, ip : Addresses]
        /\ l.lastThreat \in -1..MaxTime
    BY <1>2, <1>3
  <2>5. QED
    BY <2>1, <2>2, <2>3, <2>4 DEF Ledgers
<1>5. QED
  BY <1>2, <1>4 DEF Valid, WellAddressed

LEMMA PlanFacts ==
    ASSUME NEW id \in 1..MaxMade, NEW pack \in Packs, NEW l \in Plans(id, pack)
    PROVE  /\ l \in Ledgers /\ Valid(l)
           /\ l.id = id /\ l.sealed /\ l.hosts = {} /\ l.lastThreat = Never
           /\ Cardinality(l.devices) = l.target
<1>1. PICK S \in Placements(NewLedger(id), PlanSize) : l = Plan(id, pack, S)
  BY DEF Plans
<1>2. S \subseteq Addresses
  BY DEF Placements, Free
<1>3. Cardinality(S) \in Nat
  BY <1>2, AddressesFinite, FS_Subset, FS_CardinalityType
<1>4. l = [id |-> id, pack |-> pack, sealed |-> TRUE, devices |-> S,
           target |-> Cardinality(S), hosts |-> {}, lastThreat |-> Never]
  BY <1>1 DEF Plan, NewLedger, NoLedger
<1>5. l \in Ledgers
  BY <1>2, <1>3, <1>4, BoundsAssumption DEF Ledgers, Never
<1>6. QED
  BY <1>4, <1>5 DEF Valid, WellAddressed

\* What the remap does to a ledger: hosts join it at free addresses.
LEMMA ReconciledFacts ==
    ASSUME NEW l \in Ledgers, Valid(l), NEW H \in SUBSET Origins, NEW m \in Reconciled(l, H)
    PROVE  /\ m \in Ledgers /\ Valid(m)
           /\ m.id = l.id /\ m.sealed = l.sealed /\ m.devices = l.devices
           /\ m.target = l.target /\ m.lastThreat = l.lastThreat
           /\ l.hosts \subseteq m.hosts
<1>1. PICK z \in Zones :
        \E f \in Injection(Placed(l, H, z), z \cap Free(l)) : m = Joined(l, f)
  BY DEF Reconciled
<1> DEFINE placed == Placed(l, H, z)
<1>2. placed \subseteq H \ Registered(l)
  BY DEF Placed
<1> HIDE DEF placed
<1>3. PICK f \in Injection(placed, z \cap Free(l)) : m = Joined(l, f)
  BY <1>1 DEF placed
<1>4. /\ f \in [placed -> z \cap Free(l)]
      /\ \A o, p \in placed : f[o] = f[p] => o = p
  BY <1>3 DEF Injection, IsInjective
<1> DEFINE new == {[origin |-> o, ip |-> f[o]] : o \in placed}
<1>5. /\ \A h \in new : h.origin \in placed /\ h.ip = f[h.origin]
      /\ \A g, h \in new : g.origin = h.origin => g = h
  OBVIOUS
<1>6. /\ \A h \in new : /\ h \in [origin : Origins, ip : Addresses]
                        /\ h.ip \notin l.devices
                        /\ \A g \in l.hosts : g.ip # h.ip /\ g.origin # h.origin
  BY <1>2, <1>4, <1>5 DEF Free, UsedIPs, Registered
<1>7. \A g, h \in new : g.ip = h.ip => g = h
  BY <1>4, <1>5
<1>8. l \in [id : 1..MaxMade, pack : Packs, sealed : BOOLEAN, devices : SUBSET Addresses,
             target : Nat, hosts : SUBSET [origin : Origins, ip : Addresses],
             lastThreat : -1..MaxTime]
  BY DEF Ledgers
<1>9. /\ m = [l EXCEPT !.hosts = l.hosts \cup new]
      /\ m.hosts = l.hosts \cup new
      /\ m.id = l.id /\ m.sealed = l.sealed /\ m.devices = l.devices
      /\ m.target = l.target /\ m.lastThreat = l.lastThreat
  <2>1. DOMAIN f = placed
    BY <1>4
  <2>2. QED
    BY <1>3, <1>8, <2>1 DEF Joined
<1>10. m \in Ledgers
  BY <1>6, <1>8, <1>9 DEF Ledgers
<1>11. WellAddressed(l)
  BY DEF Valid
<1>12. WellAddressed(m)
  <2> HIDE DEF new
  <2>1. \A h \in m.hosts : h.ip \notin m.devices
    BY <1>6, <1>9, <1>11 DEF WellAddressed
  <2>2. \A g, h \in m.hosts : g.ip = h.ip \/ g.origin = h.origin => g = h
    BY <1>5, <1>6, <1>7, <1>9, <1>11 DEF WellAddressed
  <2>3. QED
    BY <2>1, <2>2 DEF WellAddressed
<1>13. QED
  BY <1>9, <1>10, <1>12 DEF Valid

\* A promotion moves the ledger's anchor only, a tick its devices.
LEMMA PromotedFacts ==
    ASSUME NEW l \in Ledgers, Valid(l), NEW t \in 0..MaxTime, NEW m,
           m = [l EXCEPT !.lastThreat = t]
    PROVE  /\ m \in Ledgers /\ Valid(m)
           /\ m.id = l.id /\ m.sealed = l.sealed /\ m.devices = l.devices
           /\ m.target = l.target /\ m.hosts = l.hosts /\ m.lastThreat = t
<1>1. m \in Ledgers /\ m.id = l.id /\ m.sealed = l.sealed /\ m.devices = l.devices
      /\ m.target = l.target /\ m.hosts = l.hosts /\ m.lastThreat = t
  BY BoundsAssumption DEF Ledgers
<1>2. QED
  BY <1>1 DEF Valid, WellAddressed

LEMMA GrownFacts ==
    ASSUME NEW l \in Ledgers, Valid(l), NEW S, NEW m,
           S = {} \/ \E n : S \in Placements(l, n),
           m = [l EXCEPT !.devices = @ \cup S]
    PROVE  /\ m \in Ledgers /\ Valid(m)
           /\ m.id = l.id /\ m.sealed = l.sealed /\ m.devices = l.devices \cup S
           /\ m.target = l.target /\ m.hosts = l.hosts /\ m.lastThreat = l.lastThreat
           /\ S = {} => m = l
<1>1. S \subseteq Addresses \ UsedIPs(l)
  BY DEF Placements, Free
<1>2. m \in Ledgers /\ m.id = l.id /\ m.sealed = l.sealed /\ m.devices = l.devices \cup S
      /\ m.target = l.target /\ m.hosts = l.hosts /\ m.lastThreat = l.lastThreat
  BY <1>1 DEF Ledgers
<1>3. WellAddressed(m)
  BY <1>1, <1>2 DEF Valid, WellAddressed, UsedIPs
<1>4. S = {} => m = l
  BY DEF Ledgers
<1>5. QED
  BY <1>2, <1>3, <1>4 DEF Valid
-----------------------------------------------------------------------------
(* What the steps do to the ledgers.                                       *)

\* A save by the daemon, or none; without one nothing has changed.
Saves ==
    \/ disk' = mem' /\ dirty' = FALSE
    \/ disk' = disk /\ dirty' = TRUE
    \/ disk' = disk /\ dirty' = FALSE /\ dirty = FALSE /\ mem' = mem

\* The steps of an iteration that change the daemon's ledger.
Growth == Remap \/ Promote \/ Tick

LEMMA GrowthFacts ==
    ASSUME TypeOK, Growth
    PROVE  /\ mem \in Ledgers /\ mem' \in Ledgers /\ Valid(mem')
           /\ mem'.id = mem.id /\ mem'.sealed = mem.sealed /\ mem'.target = mem.target
           /\ mem.sealed => mem'.devices = mem.devices
           /\ mem.devices \subseteq mem'.devices /\ mem.hosts \subseteq mem'.hosts
           /\ Saves
           /\ at' \in {"remap", "promote", "replay", "tick", "burst"}
           /\ UNCHANGED <<clock, cli, made, mode, wire, lost>>
           /\ \/ /\ mem'.lastThreat = mem.lastThreat
                 /\ UNCHANGED <<nextDue, lastPromo>>
              \/ /\ mem'.lastThreat = clock /\ lastPromo' = clock
                 /\ dirty' \/ disk' = mem'
                 /\ \E i \in Interval : nextDue' = clock + i
<1>1. mem \in Ledgers /\ Valid(mem) /\ dirty \in BOOLEAN
  BY TypeIsValid DEF Growth, Remap, Promote, Tick, Running, Valid
<1>2. CASE Remap
  <2>1. PICK H \in SUBSET Origins : mem' \in Reconciled(mem, H)
    BY <1>2 DEF Remap
  <2>2. Saves
    BY <1>1, <1>2 DEF Remap, Saves, Persist
  <2>3. QED
    BY <1>1, <1>2, <2>1, <2>2, ReconciledFacts DEF Remap, history
<1>3. CASE Promote
  <2>1. mem' = [mem EXCEPT !.lastThreat = clock] /\ clock \in 0..MaxTime
    BY <1>3, TypeIsValid DEF Promote
  <2>2. Saves /\ (dirty' \/ disk' = mem')
    BY <1>3 DEF Promote, Saves, Persist
  <2>3. QED
    BY <1>1, <1>3, <2>1, <2>2, PromotedFacts DEF Promote, Schedule
<1>4. CASE Tick
  <2>1. PICK S \in Fabricated(mem) :
          /\ mem' = [mem EXCEPT !.devices = @ \cup S]
          /\ \/ Persist(mem', S # {})
             \/ ~mem.sealed /\ S = {} /\ mem.devices # {} /\ Persist(mem', TRUE)
    BY <1>4 DEF Tick
  <2>2. S = {} \/ \E n : S \in Placements(mem, n)
    BY <2>1 DEF Fabricated
  <2>3. mem.sealed => S = {}
    BY <2>1 DEF Fabricated
  <2>4. /\ mem' \in Ledgers /\ Valid(mem')
        /\ mem'.id = mem.id /\ mem'.sealed = mem.sealed /\ mem'.devices = mem.devices \cup S
        /\ mem'.target = mem.target /\ mem'.hosts = mem.hosts
        /\ mem'.lastThreat = mem.lastThreat
        /\ S = {} => mem' = mem
    BY <1>1, <2>1, <2>2, GrownFacts
  <2>5. Saves
    BY <1>1, <2>1, <2>4 DEF Saves, Persist
  <2>6. QED
    BY <1>1, <1>4, <2>3, <2>4, <2>5 DEF Tick, history
<1>5. QED
  BY <1>2, <1>3, <1>4 DEF Growth

\* A start takes the file's ledger, or makes one that nobody has.
LEMMA StartFacts ==
    ASSUME TypeOK, Starts
    PROVE  /\ mem = NoLedger /\ mem' \in Ledgers /\ Valid(mem')
           /\ dirty' = FALSE /\ at' = "remap" /\ mode' \in Modes
           /\ UNCHANGED <<clock, cli, wire, lastPromo, lost>>
           /\ \/ /\ disk \in Ledgers /\ mem' = disk
                 /\ UNCHANGED <<disk, made>>
              \/ /\ made < MaxMade /\ made' = made + 1 /\ mem'.id = made'
                 /\ mem'.lastThreat = Never
                 /\ mem'.sealed => Cardinality(mem'.devices) = mem'.target
                 /\ disk' \in {disk, mem'}
           /\ \E i \in Interval :
                nextDue' = (IF mem'.lastThreat = Never THEN clock ELSE mem'.lastThreat) + i
<1>1. Valid(disk) /\ made \in 0..MaxMade
  BY TypeIsValid
<1>2. CASE StartLoaded
  BY <1>1, <1>2 DEF StartLoaded, Started, Schedule, Running, Valid, files, history
<1>3. CASE StartFresh
  <2>1. made + 1 \in 1..MaxMade /\ mem' = NewLedger(made + 1)
    BY <1>1, <1>3, BoundsAssumption DEF StartFresh, Started
  <2>2. /\ mem'.id = made + 1 /\ ~mem'.sealed /\ mem'.lastThreat = Never
        /\ Valid(mem') /\ mem' \in Ledgers
    BY <1>3, <2>1, NewLedgerFacts DEF StartFresh
  <2>3. QED
    BY <1>3, <2>2 DEF StartFresh, Started, Schedule, Running, history
<1>4. CASE StartPinned
  <2>1. made + 1 \in 1..MaxMade
    BY <1>1, <1>4, BoundsAssumption DEF StartPinned
  <2>2. PICK pack \in Packs :
            \E l \in Plans(made + 1, pack) : Started(l) /\ disk' \in {disk, l}
    BY <1>4 DEF StartPinned
  <2>3. PICK l \in Plans(made + 1, pack) : Started(l) /\ disk' \in {disk, l}
    BY <2>2
  <2>4. QED
    BY <1>4, <2>1, <2>3, PlanFacts DEF StartPinned, Started, Schedule, Running, history
<1>5. QED
  BY <1>2, <1>3, <1>4 DEF Starts

\* Steps that leave every ledger, and what was seen of them, alone.
Still ==
    /\ UNCHANGED <<disk, cli, made, mem, dirty>>
    /\ lost' = lost /\ lastPromo' = lastPromo
    /\ wire' \in {wire, wire \cup Assets(mem)} /\ (wire' = wire \/ Running)
    /\ clock' # clock => clock < MaxTime /\ clock' = clock + 1
    /\ at' \in {at, "remap", "promote", "replay", "tick"} /\ mode' = mode
    /\ nextDue' = nextDue \/ \E i \in Interval : nextDue' = clock + i

\* Every step is one of seven.
LEMMA StepCases ==
    ASSUME [Next]_vars
    PROVE  Growth \/ Starts \/ Stop \/ PlanCommit \/ PlanSave \/ Reset \/ Still
<1>1. TimePasses => Still
  BY DEF TimePasses, Still, files, daemon, history
<1>2. NoPromotion => Still
  BY DEF NoPromotion, Still, Schedule, files, history
<1>3. Send => Still
  BY DEF Send, Still, files
<1>4. UNCHANGED vars => Still
  BY DEF vars, Still, files, daemon, history
<1>5. RemapKnown \/ TickOff => Still
  BY DEF RemapKnown, TickOff, Still, files, history
<1>6. QED
  BY <1>1, <1>2, <1>3, <1>4, <1>5 DEF Next, Loop, Commands, Growth
-----------------------------------------------------------------------------
LEMMA TypeInit == Init => TypeOK
<1> SUFFICES ASSUME Init PROVE TypeOK
  OBVIOUS
<1>1. Valid(disk) /\ Valid(mem) /\ Valid(cli)
  BY NoLedgerFacts DEF Init
<1>2. clock \in 0..MaxTime /\ made \in 0..MaxMade
  BY BoundsAssumption, SMT DEF Init
<1>3. /\ dirty \in BOOLEAN /\ at \in {"remap", "promote", "replay", "tick", "burst"}
      /\ mode \in Modes \cup {"off"}
  BY Zenon DEF Init
<1>4. QED
  BY <1>1, <1>2, <1>3, TypeIsValid

LEMMA TypeStep == TypeOK /\ [Next]_vars => TypeOK'
<1> SUFFICES ASSUME TypeOK, [Next]_vars
             PROVE  /\ clock' \in 0..MaxTime
                    /\ Valid(disk') /\ Valid(mem') /\ Valid(cli')
                    /\ made' \in 0..MaxMade
                    /\ dirty' \in BOOLEAN
                    /\ at' \in {"remap", "promote", "replay", "tick", "burst"}
                    /\ mode' \in Modes \cup {"off"}
  BY DEF TypeOK, Valid, WellAddressed
<1>1. /\ clock \in 0..MaxTime
      /\ Valid(disk) /\ Valid(mem) /\ Valid(cli)
      /\ made \in 0..MaxMade /\ dirty \in BOOLEAN
      /\ at \in {"remap", "promote", "replay", "tick", "burst"}
      /\ mode \in Modes \cup {"off"}
  BY TypeIsValid
<1>2. CASE Growth
  <2>1. Valid(mem') /\ Saves /\ UNCHANGED <<clock, cli, made, mode>>
        /\ at' \in {"remap", "promote", "replay", "tick", "burst"}
    BY <1>2, GrowthFacts
  <2>2. QED
    BY <1>1, <2>1 DEF Saves
<1>3. CASE Starts
  BY <1>1, <1>3, StartFacts, BoundsAssumption
<1>4. CASE Stop
  BY <1>1, <1>4, NoLedgerFacts DEF Stop, files
<1>5. CASE PlanCommit
  <2>1. made + 1 \in 1..MaxMade
    BY <1>1, <1>5, BoundsAssumption DEF PlanCommit
  <2>2. Valid(cli')
    BY <1>5, <2>1, PlanFacts DEF PlanCommit
  <2>3. QED
    BY <1>1, <1>5, <2>1, <2>2 DEF PlanCommit, daemon, history
<1>6. CASE PlanSave
  BY <1>1, <1>6, NoLedgerFacts DEF PlanSave, daemon, history
<1>7. CASE Reset
  BY <1>1, <1>7, NoLedgerFacts DEF Reset, daemon, history
<1>8. CASE Still
  BY <1>1, <1>8, BoundsAssumption DEF Still
<1>9. QED
  BY <1>2, <1>3, <1>4, <1>5, <1>6, <1>7, <1>8, StepCases

\* The ledgers are well formed at all times: in memory, in the file and in a plan
\* about to be committed, an address has one asset and an origin one address
\* (ledger/mod.rs:345-361, proto/l3.rs:652-676).
THEOREM TypeCorrect == Spec => []TypeOK
<1>1. QED
  BY TypeInit, TypeStep, PTL DEF Spec
-----------------------------------------------------------------------------
(* Which ledgers there are at a time, and what the clean daemon knows.     *)

\* A plan about to be saved is nobody else's; a daemon that is down has no debt.
Distinct ==
    /\ {disk.id, mem.id, cli.id} \subseteq 0..made
    /\ cli # NoLedger => cli.id # disk.id /\ cli.id # mem.id
    /\ ~Running => ~dirty

LEMMA DistinctInit == Init => Distinct
BY NoLedgerFacts, BoundsAssumption DEF Init, Distinct, Running

LEMMA DistinctStep == TypeOK /\ Distinct /\ [Next]_vars => Distinct'
<1> SUFFICES ASSUME TypeOK, Distinct, [Next]_vars PROVE Distinct'
  OBVIOUS
<1>1. /\ Valid(disk) /\ Valid(mem) /\ Valid(cli) /\ made \in Nat
      /\ disk.id \in 0..made /\ mem.id \in 0..made /\ cli.id \in 0..made
  BY TypeIsValid, BoundsAssumption DEF Distinct
<1>2. CASE Growth
  <2>1. /\ mem'.id = mem.id /\ mem' # NoLedger /\ mem # NoLedger
        /\ Saves /\ UNCHANGED <<cli, made>>
    BY <1>2, GrowthFacts, NoLedgerFacts
  <2>2. disk'.id \in {disk.id, mem.id}
    BY <2>1 DEF Saves
  <2>3. QED
    BY <1>1, <2>1, <2>2 DEF Distinct, Running
<1>3. CASE Starts
  <2>1. mem = NoLedger /\ mem' # NoLedger /\ cli' = cli
    BY <1>3, StartFacts, NoLedgerFacts
  <2>2. CASE mem' = disk /\ UNCHANGED <<disk, made>>
    BY <1>1, <2>1, <2>2 DEF Distinct, Running
  <2>3. CASE made' = made + 1 /\ mem'.id = made' /\ disk' \in {disk, mem'}
    BY <1>1, <2>1, <2>3 DEF Distinct, Running
  <2>4. QED
    BY <1>3, <2>2, <2>3, StartFacts
<1>4. CASE Stop
  BY <1>1, <1>4, NoLedgerFacts DEF Stop, files, Distinct, Running, Valid
<1>5. CASE PlanCommit
  <2>1. cli'.id = made + 1
    <3>1. made + 1 \in 1..MaxMade
      BY <1>1, <1>5, TypeIsValid, BoundsAssumption DEF PlanCommit
    <3>2. QED
      BY <1>5, <3>1, PlanFacts DEF PlanCommit
  <2>2. QED
    BY <1>1, <1>5, <2>1 DEF PlanCommit, daemon, Distinct, Running
<1>6. CASE PlanSave
  BY <1>1, <1>6, NoLedgerFacts DEF PlanSave, daemon, Distinct, Running
<1>7. CASE Reset
  BY <1>1, <1>7, NoLedgerFacts DEF Reset, daemon, Distinct, Running, Valid
<1>8. CASE Still
  BY <1>8 DEF Still, Distinct, Running
<1>9. QED
  BY <1>2, <1>3, <1>4, <1>5, <1>6, <1>7, <1>8, StepCases

LEMMA CleanInit == Init => CleanIsSaved
BY DEF Init, CleanIsSaved, Running

LEMMA CleanStep ==
    TypeOK /\ Distinct /\ CleanIsSaved /\ [Next]_vars => CleanIsSaved'
<1> SUFFICES ASSUME TypeOK, Distinct, CleanIsSaved, [Next]_vars PROVE CleanIsSaved'
  OBVIOUS
<1>1. Valid(disk) /\ Valid(mem) /\ Valid(cli) /\ made \in Nat /\ disk.id \in 0..made
  BY TypeIsValid, BoundsAssumption DEF Distinct
<1>2. CASE Growth
  <2>1. mem # NoLedger /\ Saves
    BY <1>2, GrowthFacts, NoLedgerFacts
  <2>2. QED
    BY <2>1 DEF Saves, CleanIsSaved, Running
<1>3. CASE Starts
  <2>1. CASE mem' = disk /\ disk' = disk
    BY <2>1 DEF CleanIsSaved
  <2>2. CASE made' = made + 1 /\ mem'.id = made' /\ disk' \in {disk, mem'}
    BY <1>1, <2>2 DEF CleanIsSaved
  <2>3. QED
    BY <1>3, <2>1, <2>2, StartFacts
<1>4. CASE Stop
  BY <1>4 DEF Stop, CleanIsSaved, Running
<1>5. CASE PlanCommit
  BY <1>5 DEF PlanCommit, daemon, CleanIsSaved, Running
<1>6. CASE PlanSave
  BY <1>6 DEF PlanSave, daemon, CleanIsSaved, Running, Distinct
<1>7. CASE Reset
  BY <1>1, <1>7, NoLedgerFacts DEF Reset, daemon, CleanIsSaved, Running, Valid
<1>8. CASE Still
  BY <1>8 DEF Still, CleanIsSaved, Running
<1>9. QED
  BY <1>2, <1>3, <1>4, <1>5, <1>6, <1>7, <1>8, StepCases

\* A daemon that thinks its ledger is saved is right, for every order of saves,
\* failures, stops and commands (simulate/engine.rs:507-514).
THEOREM CleanSaved == Spec => []CleanIsSaved
<1>1. QED
  BY TypeInit, TypeStep, DistinctInit, DistinctStep, CleanInit, CleanStep, PTL DEF Spec
-----------------------------------------------------------------------------
(* A sealed fleet.                                                         *)

\* A ledger is sealed only when its devices are the planned ones.
Planned(l) == l.sealed => Cardinality(l.devices) = l.target
AllPlanned == Planned(disk) /\ Planned(mem) /\ Planned(cli)

LEMMA PlannedInit == Init => AllPlanned
BY NoLedgerFacts DEF Init, AllPlanned, Planned

LEMMA PlannedStep == TypeOK /\ AllPlanned /\ [Next]_vars => AllPlanned'
<1> SUFFICES ASSUME TypeOK, AllPlanned, [Next]_vars
             PROVE  Planned(disk') /\ Planned(mem') /\ Planned(cli')
  BY DEF AllPlanned, Planned
<1>1. Planned(disk) /\ Planned(mem) /\ Planned(cli) /\ Planned(NoLedger)
  BY NoLedgerFacts DEF AllPlanned, Planned
<1>2. CASE Growth
  <2>1. Planned(mem') /\ Saves /\ cli' = cli
    BY <1>1, <1>2, GrowthFacts DEF Planned
  <2>2. QED
    BY <1>1, <2>1 DEF Saves
<1>3. CASE Starts
  <2>1. Planned(mem') /\ disk' \in {disk, mem'} /\ cli' = cli
    BY <1>1, <1>3, StartFacts DEF Planned
  <2>2. QED
    BY <1>1, <2>1
<1>4. CASE Stop
  BY <1>1, <1>4 DEF Stop, files
<1>5. CASE PlanCommit
  <2>1. made + 1 \in 1..MaxMade
    BY <1>5, TypeIsValid, BoundsAssumption DEF PlanCommit
  <2>2. Planned(cli')
    BY <1>5, <2>1, PlanFacts DEF PlanCommit, Planned
  <2>3. QED
    BY <1>1, <1>5, <2>2 DEF PlanCommit, daemon
<1>6. CASE PlanSave
  BY <1>1, <1>6 DEF PlanSave, daemon
<1>7. CASE Reset
  BY <1>1, <1>7 DEF Reset, daemon
<1>8. CASE Still
  BY <1>1, <1>8 DEF Still
<1>9. QED
  BY <1>2, <1>3, <1>4, <1>5, <1>6, <1>7, <1>8, StepCases

\* A sealed fleet, in memory or in the file, is the committed one through every
\* iteration, restart and command (ledger/mod.rs:81-84).
THEOREM SealedStays == Spec => []SealedAsPlanned
<1>1. AllPlanned => SealedAsPlanned
  BY DEF AllPlanned, Planned, SealedAsPlanned
<1>2. QED
  BY <1>1, TypeInit, TypeStep, PlannedInit, PlannedStep, PTL DEF Spec
-----------------------------------------------------------------------------
(* Assets and their addresses.                                             *)

\* What the sensor has seen of a ledger that can come back is in it: in the
\* daemon's copy while it runs, or else in the file.
Remembered ==
    \A w \in wire :
        /\ w.ledger \in 1..made
        /\ cli # NoLedger => w.ledger # cli.id
        /\ w.ledger = mem.id /\ mem.id \notin lost => w \in Assets(mem)
        /\ w.ledger = disk.id /\ disk.id # mem.id /\ disk.id \notin lost => w \in Assets(disk)

LEMMA AssetsGrow ==
    ASSUME NEW l, NEW m, m.id = l.id, l.devices \subseteq m.devices, l.hosts \subseteq m.hosts
    PROVE  Assets(l) \subseteq Assets(m)
BY DEF Assets, Device, Host

LEMMA AssetsOfLedger ==
    ASSUME NEW l, NEW w \in Assets(l)
    PROVE  w.ledger = l.id
BY DEF Assets, Device, Host

LEMMA RememberedInit == Init => Remembered
BY DEF Init, Remembered

LEMMA RememberedStep ==
    TypeOK /\ Distinct /\ CleanIsSaved /\ Remembered /\ [Next]_vars => Remembered'
<1> SUFFICES ASSUME TypeOK, Distinct, CleanIsSaved, Remembered, [Next]_vars
             PROVE  Remembered'
  OBVIOUS
<1>1. /\ Valid(disk) /\ Valid(mem) /\ Valid(cli) /\ made \in Nat
      /\ disk.id \in 0..made /\ mem.id \in 0..made /\ cli.id \in 0..made
  BY TypeIsValid, BoundsAssumption DEF Distinct
<1>2. CASE Growth
  <2>1. /\ mem'.id = mem.id /\ Saves /\ UNCHANGED <<cli, made, wire, lost>>
        /\ Assets(mem) \subseteq Assets(mem')
    BY <1>2, GrowthFacts, AssetsGrow
  <2>2. disk' = disk \/ disk'.id = mem'.id
    BY <2>1 DEF Saves
  <2>3. QED
    BY <2>1, <2>2 DEF Remembered
<1>3. CASE Starts
  <2>1. mem = NoLedger /\ mem.id = 0 /\ UNCHANGED <<cli, wire, lost>>
    BY <1>3, StartFacts, NoLedgerFacts
  <2>2. CASE disk \in Ledgers /\ mem' = disk /\ UNCHANGED <<disk, made>>
    <3>1. disk.id # mem.id
      BY <2>1, <2>2, NoLedgerFacts
    <3>2. QED
      BY <2>1, <2>2, <3>1 DEF Remembered
  <2>3. CASE made' = made + 1 /\ mem'.id = made' /\ disk' \in {disk, mem'}
    BY <1>1, <2>1, <2>3 DEF Remembered
  <2>4. QED
    BY <1>3, <2>2, <2>3, StartFacts
<1>4. CASE Stop
  <2>1. /\ mem' = NoLedger /\ mem'.id = 0 /\ UNCHANGED <<disk, cli, made>>
        /\ wire' = {w \in wire : w.ledger = disk.id}
        /\ lost' = {disk.id} \cap IF dirty THEN lost \cup {mem.id} ELSE lost
        /\ Running
    BY <1>4, NoLedgerFacts DEF Stop, files
  <2>2. SUFFICES ASSUME NEW w \in wire, w.ledger = disk.id, disk.id \notin lost'
                 PROVE  w \in Assets(disk)
    BY <2>1 DEF Remembered
  <2>3. CASE disk.id # mem.id
    BY <2>1, <2>2, <2>3 DEF Remembered
  <2>4. CASE disk.id = mem.id
    <3>1. ~dirty /\ mem.id \notin lost
      BY <2>1, <2>2, <2>4
    <3>2. disk = mem
      BY <2>1, <2>4, <3>1 DEF CleanIsSaved
    <3>3. QED
      BY <2>2, <3>1, <3>2 DEF Remembered
  <2>5. QED
    BY <2>3, <2>4
<1>5. CASE PlanCommit
  <2>1. cli'.id = made + 1 /\ made' = made + 1
    <3>1. made + 1 \in 1..MaxMade
      BY <1>1, <1>5, TypeIsValid, BoundsAssumption DEF PlanCommit
    <3>2. QED
      BY <1>5, <3>1, PlanFacts DEF PlanCommit
  <2>2. UNCHANGED <<disk, mem, wire, lost>>
    BY <1>5 DEF PlanCommit, daemon, history
  <2>3. QED
    BY <1>1, <2>1, <2>2 DEF Remembered
<1>6. CASE PlanSave
  BY <1>6 DEF PlanSave, daemon, history, Remembered
<1>7. CASE Reset
  BY <1>7, NoLedgerFacts DEF Reset, daemon, history, Remembered
<1>8. CASE Still
  <2>1. /\ UNCHANGED <<disk, cli, made, mem, lost>>
        /\ \A w \in wire' : w \in wire \/ (w \in Assets(mem) /\ Running)
    BY <1>8 DEF Still
  <2>2. ASSUME NEW w \in Assets(mem), Running
        PROVE  w.ledger = mem.id /\ mem.id \in 1..made /\ (cli # NoLedger => mem.id # cli.id)
    <3>1. mem.id # 0
      BY <1>1, <2>2, NoLedgerFacts DEF Running, Valid
    <3>2. QED
      BY <1>1, <2>2, <3>1, AssetsOfLedger DEF Distinct
  <2>3. QED
    BY <2>1, <2>2 DEF Remembered
<1>9. QED
  BY <1>2, <1>3, <1>4, <1>5, <1>6, <1>7, <1>8, StepCases

\* An asset once on the wire keeps its address as long as its session is used, unless
\* an unsaved change of it was lost (simulate/engine.rs:361, 507-514, 586).
THEOREM AddressKept == Spec => []AssetKeepsAddress
<1>1. Remembered => AssetKeepsAddress
  BY DEF Remembered, AssetKeepsAddress
<1>2. QED
  BY <1>1, TypeInit, TypeStep, DistinctInit, DistinctStep, CleanInit, CleanStep,
     RememberedInit, RememberedStep, PTL DEF Spec
-----------------------------------------------------------------------------
(* Promotions.                                                             *)

\* A ledger that knows of no promotion, or of none before the last.
Knows(l) == l.lastThreat = Never \/ l.lastThreat >= lastPromo

\* The next promotion is far enough off, and will be after any restart.
Anchored ==
    /\ nextDue \in Int /\ lastPromo \in -1..clock
    /\ cli.lastThreat = Never
    /\ lastPromo # Never =>
        /\ Running => nextDue >= lastPromo + Floor
        /\ Knows(mem)
        /\ ~dirty => Knows(disk)

LEMMA AnchoredInit == Init => Anchored
BY NoLedgerFacts DEF Init, Anchored, Never, Running

LEMMA AnchoredStep ==
    TypeOK /\ Distinct /\ Anchored /\ [Next]_vars => Anchored'
<1> SUFFICES ASSUME TypeOK, Distinct, Anchored, [Next]_vars PROVE Anchored'
  OBVIOUS
<1>1. /\ Valid(disk) /\ Valid(mem) /\ Valid(cli) /\ made \in Nat /\ clock \in Nat
      /\ Never = -1 /\ NoLedger.lastThreat = Never
      /\ \A l \in Ledgers \cup {NoLedger} : l.lastThreat \in Int
  BY TypeIsValid, BoundsAssumption, NoLedgerFacts DEF Ledgers, Never
<1>2. /\ disk.lastThreat \in Int /\ mem.lastThreat \in Int
  BY <1>1 DEF Valid
<1>3. \A i \in Interval : i \in Nat /\ i >= Floor /\ Floor \in Nat
  BY ThreatAssumption
<1>4. CASE Growth
  <2>1. /\ mem # NoLedger /\ mem' # NoLedger /\ Saves /\ UNCHANGED <<clock, cli>>
    BY <1>4, GrowthFacts, NoLedgerFacts
  <2>2. CASE mem'.lastThreat = mem.lastThreat /\ UNCHANGED <<nextDue, lastPromo>>
    BY <2>1, <2>2 DEF Saves, Anchored, Knows, Running
  <2>3. CASE /\ mem'.lastThreat = clock /\ lastPromo' = clock
             /\ dirty' \/ disk' = mem'
             /\ \E i \in Interval : nextDue' = clock + i
    <3>1. PICK i \in Interval : nextDue' = clock + i
      BY <2>3
    <3>2. nextDue' \in Int /\ nextDue' >= lastPromo' + Floor
      BY <1>1, <1>3, <2>3, <3>1
    <3>3. ~dirty' => disk'.lastThreat >= lastPromo'
      BY <1>1, <2>3
    <3>4. QED
      BY <1>1, <2>1, <2>3, <3>2, <3>3 DEF Anchored, Knows
  <2>4. QED
    BY <1>4, <2>2, <2>3, GrowthFacts
<1>5. CASE Starts
  <2>1. mem = NoLedger /\ ~dirty /\ dirty' = FALSE /\ UNCHANGED <<clock, cli, lastPromo>>
    BY <1>5, StartFacts DEF Distinct, Running
  <2>2. /\ mem'.lastThreat = disk.lastThreat \/ mem'.lastThreat = Never
        /\ disk' \in {disk, mem'}
    BY <1>5, StartFacts
  <2>3. PICK i \in Interval :
          nextDue' = (IF mem'.lastThreat = Never THEN clock ELSE mem'.lastThreat) + i
    BY <1>5, StartFacts
  <2>4. lastPromo # Never => Knows(disk)
    BY <2>1 DEF Anchored
  <2>5. mem'.lastThreat \in Int
    BY <1>1, <1>2, <2>2
  <2>6. nextDue' \in Int /\ (lastPromo # Never => nextDue' >= lastPromo + Floor)
    BY <1>1, <1>2, <1>3, <2>2, <2>3, <2>4, <2>5 DEF Anchored, Knows
  <2>7. QED
    BY <2>1, <2>2, <2>4, <2>6 DEF Anchored, Knows
<1>6. CASE Stop
  BY <1>1, <1>6 DEF Stop, files, Anchored, Knows, Running
<1>7. CASE PlanCommit
  <2>1. cli'.lastThreat = Never
    <3>1. made + 1 \in 1..MaxMade
      BY <1>7, TypeIsValid, BoundsAssumption DEF PlanCommit
    <3>2. QED
      BY <1>7, <3>1, PlanFacts DEF PlanCommit
  <2>2. QED
    BY <1>7, <2>1 DEF PlanCommit, daemon, history, Anchored, Knows, Running
<1>8. CASE PlanSave
  BY <1>1, <1>8 DEF PlanSave, daemon, history, Anchored, Knows, Running
<1>9. CASE Reset
  BY <1>1, <1>9 DEF Reset, daemon, history, Anchored, Knows, Running
<1>10. CASE Still
  <2>1. /\ UNCHANGED <<disk, cli, mem, dirty, lastPromo>>
        /\ clock' \in Nat /\ clock' >= clock
        /\ nextDue' = nextDue \/ \E i \in Interval : nextDue' = clock + i
    BY <1>1, <1>10 DEF Still
  <2>2. nextDue' \in Int
    BY <1>1, <1>3, <2>1 DEF Anchored
  <2>3. lastPromo # Never /\ Running => nextDue' >= lastPromo + Floor
    BY <1>1, <1>3, <2>1 DEF Anchored
  <2>4. QED
    BY <1>1, <2>1, <2>2, <2>3 DEF Anchored, Knows, Running
<1>11. QED
  BY <1>4, <1>5, <1>6, <1>7, <1>8, <1>9, <1>10, StepCases

\* Two promotions are at least the floor apart, for every interval drawn and across
\* every restart, commit and reset (threat/mod.rs:23-25, 36-73).
THEOREM FloorHolds == Spec => ThreatFloor
<1>1. TypeOK /\ Anchored /\ [Next]_vars
        => [Promote /\ lastPromo # Never => clock >= lastPromo + Floor]_vars
  <2> SUFFICES ASSUME TypeOK, Anchored, Promote, lastPromo # Never
               PROVE  clock >= lastPromo + Floor
    OBVIOUS
  <2>1. clock >= nextDue /\ nextDue >= lastPromo + Floor
    BY DEF Promote, Due, Anchored
  <2>2. clock \in Int /\ nextDue \in Int /\ lastPromo \in Int /\ Floor \in Int
    BY TypeIsValid, ThreatAssumption, BoundsAssumption DEF Anchored
  <2>3. QED
    BY <2>1, <2>2
<1>2. QED
  BY <1>1, TypeInit, TypeStep, DistinctInit, DistinctStep, AnchoredInit, AnchoredStep, PTL
     DEF Spec, ThreatFloor
=============================================================================
