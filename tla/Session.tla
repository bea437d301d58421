------------------------------ MODULE Session ------------------------------
(***************************************************************************)
(* The red-laser session: the ledger file, the copy the daemon works on    *)
(* (simulate/engine.rs, ledger/mod.rs, threat/mod.rs), and the commands    *)
(* that write or remove the file while the daemon may be running (plan     *)
(* --commit and reset, simulate/mod.rs).                                   *)
(*                                                                         *)
(* The daemon changes its copy and saves it; a save may fail, and is tried *)
(* again by the next step that saves.  A stop at any point loses what was  *)
(* not saved.  Of a ledger the model keeps which one it is, what the plan  *)
(* is compared with, and which asset has which address; MACs, names and    *)
(* domains are left out, and so are the drawn seeds and orders, which are  *)
(* choices here.                                                           *)
(***************************************************************************)
EXTENDS Integers, FiniteSets, Functions

CONSTANTS
    Zones,       \* the zones' host addresses: disjoint sets of numbers
    Reserved,    \* their gateway and station slots, which devices are kept off
    Origins,     \* source addresses seen in captures, as numbers from 1
    Modes,       \* the daemons' [synthesis]: "grow", "rename" without device_identity,
                 \* "off" without enabled
    Packs,       \* what a daemon or a plan is for: "generic" or a scenario pack
    Batch,       \* FABRICATE_BATCH
    MaxDevices,  \* effective_device_cap
    AssetCap,    \* effective_asset_cap
    PlanSize,    \* devices of a committed plan
    Interval,    \* what a threat interval is drawn from, at least Floor
    Floor,       \* THREAT_FLOOR_SECS
    MaxTime,     \* bound: the clock
    MaxMade      \* bound: ledgers made

ASSUME ZonesAssumption ==
    /\ \A z \in Zones : z \subseteq Nat /\ IsFiniteSet(z)
    /\ IsFiniteSet(Zones)
    /\ \A y, z \in Zones : y # z => y \cap z = {}
ASSUME OriginsAssumption == Origins \subseteq Nat \ {0} /\ IsFiniteSet(Origins)
ASSUME CapsAssumption == {Batch, MaxDevices, AssetCap, PlanSize} \subseteq Nat \ {0}
ASSUME ModesAssumption == Modes \subseteq {"grow", "rename", "off"}
ASSUME ThreatAssumption ==
    Floor \in Nat /\ Interval \subseteq Nat /\ \A i \in Interval : i >= Floor
ASSUME BoundsAssumption == MaxTime \in Nat /\ MaxMade \in Nat

VARIABLES
    clock,
    disk,     \* the ledger file
    mem,      \* the daemon's ledger
    dirty,    \* it changed since the last save
    nextDue,  \* the threat scheduler's next_due
    at,       \* where the run loop is
    mode,     \* the daemon's [synthesis], which may be another after a restart
    cli,      \* the plan a `plan --commit` is about to save
    made,     \* ledgers made so far
    wire,     \* history: the assets the sensor has seen, of ledgers in use
    lastPromo, \* history: the last promotion, unless an unsaved change was lost since
    lost      \* history: ledgers in use of which an unsaved change was lost

files == <<disk, cli, made>>
daemon == <<mem, dirty, nextDue, at, mode>>
history == <<wire, lastPromo, lost>>
vars == <<clock, files, daemon, history>>

Never == -1

\* Stands for no ledger: no file, no daemon, no command.
NoLedger ==
    [id |-> 0, pack |-> "none", sealed |-> FALSE, devices |-> {}, target |-> 0,
     hosts |-> {}, lastThreat |-> Never]

Running == mem # NoLedger

-----------------------------------------------------------------------------
(* Ledgers.                                                                *)

Addresses == UNION Zones
Least(a, b) == IF a <= b THEN a ELSE b
Room(cap, n) == IF n >= cap THEN 0 ELSE cap - n

UsedIPs(l) == l.devices \cup {h.ip : h \in l.hosts}
\* A free address, if capture hosts did not use theirs up.
Free_DevicesOnly(l) == Addresses \ l.devices

Free(l) == Addresses \ UsedIPs(l)

Registered(l) == {h.origin : h \in l.hosts}
WireAssets(l) == Cardinality(l.devices) + Cardinality(l.hosts)

\* What the sensor sees of a ledger's assets; 0 owns what is fabricated.
Device(l, a) == [ledger |-> l.id, ip |-> a, owner |-> 0]
Host(l, h) == [ledger |-> l.id, ip |-> h.ip, owner |-> h.origin]
Assets(l) ==
    {Device(l, a) : a \in l.devices} \cup {Host(l, h) : h \in l.hosts}

NewLedger(id) ==
    [NoLedger EXCEPT !.id = id, !.pack = "generic"]

\* next_free_in takes the lowest free address of a zone; the zone is drawn.
Fills(S, free) ==
    \A z \in Zones : \A a \in z \cap S : \A b \in z \cap free :
        b < a => b \in S

\* The n free addresses, fewer if the zones have no more, that devices get.
Placements(l, n) ==
    LET free == Free(l) \ Reserved
    IN  {S \in SUBSET free :
            Fills(S, free) /\ Cardinality(S) = Least(n, Cardinality(free))}

Plan(id, pack, S) ==
    [NewLedger(id) EXCEPT !.pack = pack, !.sealed = TRUE, !.devices = S,
                          !.target = Cardinality(S)]
Plans(id, pack) ==
    {Plan(id, pack, S) : S \in Placements(NewLedger(id), PlanSize)}

-----------------------------------------------------------------------------
Init ==
    /\ clock = 0
    /\ disk = NoLedger /\ cli = NoLedger /\ made = 0
    /\ mem = NoLedger /\ dirty = FALSE /\ nextDue = 0 /\ at = "remap" /\ mode = "off"
    /\ wire = {} /\ lastPromo = Never /\ lost = {}

TimePasses ==
    /\ clock < MaxTime
    /\ clock' = clock + 1
    /\ UNCHANGED <<files, daemon, history>>

\* Saving, if the ledger were compared before the step changed it, ...
Persist_Early(l, changed) ==
    IF dirty
    THEN \/ disk' = l /\ dirty' = FALSE
         \/ disk' = disk /\ dirty' = TRUE
    ELSE disk' = disk /\ dirty' = FALSE

\* ... if dirty were cleared although the save failed, ...
Persist_NoRetry(l, changed) ==
    IF dirty \/ changed
    THEN disk' \in {l, disk} /\ dirty' = FALSE
    ELSE UNCHANGED <<disk, dirty>>

\* ... and if only a step that changes the ledger saved it.
Persist_IfChanged(l, changed) ==
    IF changed
    THEN \/ disk' = l /\ dirty' = FALSE
         \/ disk' = disk /\ dirty' = TRUE
    ELSE UNCHANGED <<disk, dirty>>

\* persist_if_dirty for the ledger l.
Persist(l, changed) ==
    IF dirty \/ changed
    THEN \/ disk' = l /\ dirty' = FALSE
         \/ disk' = disk /\ dirty' = TRUE
    ELSE UNCHANGED <<disk, dirty>>

-----------------------------------------------------------------------------
(* The daemon starts and stops.                                            *)

\* Rescheduling from the time that was due, if it was earlier.
Schedule_Drifts(anchor) == \E i \in Interval : nextDue' = Least(anchor, nextDue) + i
Schedule(anchor) == \E i \in Interval : nextDue' = anchor + i

\* The scheduler is anchored on the last promotion the ledger knows.
Started(l) ==
    /\ mem' = l /\ dirty' = FALSE /\ at' = "remap" /\ mode' \in Modes
    /\ Schedule(IF l.lastThreat = Never THEN clock ELSE l.lastThreat)

\* The ledger file can be read and is for this daemon's pack; a daemon for
\* another pack refuses it and exits, with nothing changed.
StartLoaded ==
    /\ ~Running /\ disk # NoLedger
    /\ Started(disk)
    /\ UNCHANGED <<clock, files, history>>

\* There is no file, or it cannot be read or parsed: a fresh plant, in memory.
StartFresh ==
    /\ ~Running /\ made < MaxMade /\ "generic" \in Packs
    /\ made' = made + 1
    /\ Started(NewLedger(made'))
    /\ UNCHANGED <<clock, disk, cli, history>>

\* The same for a scenario: its pinned plant, saved at once, if it can be.
StartPinned ==
    /\ ~Running /\ made < MaxMade
    /\ made' = made + 1
    /\ \E pack \in Packs \ {"generic"} : \E l \in Plans(made', pack) :
        Started(l) /\ disk' \in {disk, l}
    /\ UNCHANGED <<clock, cli, history>>

\* A stop or a crash: what was not saved is gone.
Stop ==
    /\ Running
    /\ mem' = NoLedger /\ dirty' = FALSE /\ nextDue' = 0 /\ at' = "remap" /\ mode' = "off"
    /\ lost' = {disk.id} \cap IF dirty THEN lost \cup {mem.id} ELSE lost
    /\ wire' = {w \in wire : w.ledger = disk.id}
    /\ lastPromo' = IF dirty THEN Never ELSE lastPromo
    /\ UNCHANGED <<clock, files>>

-----------------------------------------------------------------------------
(* One iteration of the run loop: remap, promote, replay, tick, burst.     *)

\* The hosts of H that zone z has room for: unknown ones, lowest first, up to the cap.
Placed(l, H, z) ==
    LET new == H \ Registered(l)
        n == Least(Room(AssetCap, WireAssets(l)), Cardinality(z \cap Free(l)))
    IN  {o \in new : Cardinality({p \in new : p < o}) < n}

Joined(l, f) ==
    [l EXCEPT !.hosts = @ \cup {[origin |-> o, ip |-> f[o]] : o \in DOMAIN f}]

\* The capture hosts H, placed in a zone: known ones keep their asset, new
\* ones are registered, each at a free address.
Reconciled(l, H) ==
    UNION {{Joined(l, f) : f \in Injection(Placed(l, H, z), z \cap Free(l))} :
             z \in {y \in Zones : y \cap l.devices # {}}}

\* remap_into_session finds the result in its cache, or makes a random remap as
\* long as there are no zones: the ledger is left alone, and not saved.
RemapKnown ==
    /\ Running /\ at = "remap"
    /\ at' = "promote"
    /\ UNCHANGED <<clock, files, mem, dirty, nextDue, mode, history>>

\* A capture is remapped into the plan.  Writing the result may fail, and the
\* iteration ends.
Remap ==
    /\ Running /\ at = "remap" /\ mem.devices # {}
    /\ \E H \in SUBSET Origins : mem' \in Reconciled(mem, H)
    /\ Persist(mem', mem' # mem)
    /\ at' \in {"promote", "remap"}
    /\ UNCHANGED <<clock, cli, made, nextDue, mode, history>>

Due == clock >= nextDue

\* maybe_promote, not due, or finding nothing it can promote.
NoPromotion ==
    /\ Running /\ at = "promote"
    /\ at' = "replay"
    /\ IF Due THEN Schedule(clock) ELSE UNCHANGED nextDue
    /\ UNCHANGED <<clock, files, mem, dirty, mode, history>>

Promote ==
    /\ Running /\ at = "promote" /\ Due
    /\ at' = "replay"
    /\ Schedule(clock)
    /\ mem' = [mem EXCEPT !.lastThreat = clock]
    /\ Persist(mem', TRUE)
    /\ lastPromo' = clock
    /\ UNCHANGED <<clock, cli, made, mode, wire, lost>>

\* A capture goes out, or a burst; or there is nothing to send, or it fails.
\* What is sent counts as showing every asset, which asks the most of a session.
Send ==
    /\ Running
    /\ \/ at = "replay" /\ at' = "tick"
       \/ at = "burst" /\ at' = "remap"
    /\ wire' \in {wire, wire \cup Assets(mem)}
    /\ UNCHANGED <<clock, files, mem, dirty, nextDue, mode, lastPromo, lost>>

\* The devices of a tick, if a sealed session were grown too.
Fabricated_Sealed(l) ==
    IF mode # "grow" THEN {{}}
    ELSE Placements(l, Least(Batch, Room(MaxDevices, Cardinality(l.devices))))

\* The devices of a tick.
Fabricated(l) ==
    IF l.sealed \/ mode # "grow" THEN {{}}
    ELSE Placements(l, Least(Batch, Room(MaxDevices, Cardinality(l.devices))))

\* red_tick: fabricate a batch, or re-label the zones on a cadence, then save.
Tick ==
    /\ Running /\ at = "tick" /\ mode # "off"
    /\ at' = "burst"
    /\ \E S \in Fabricated(mem) :
        /\ mem' = [mem EXCEPT !.devices = @ \cup S]
        /\ \/ Persist(mem', S # {})
           \/ ~mem.sealed /\ S = {} /\ mem.devices # {} /\ Persist(mem', TRUE)
    /\ UNCHANGED <<clock, cli, made, nextDue, mode, history>>

\* With [synthesis] off it returns at once: nothing is saved, and there is no burst.
TickOff ==
    /\ Running /\ at = "tick" /\ mode = "off"
    /\ at' = "remap"
    /\ UNCHANGED <<clock, files, mem, dirty, nextDue, mode, history>>

-----------------------------------------------------------------------------
(* The commands.                                                           *)

\* plan --commit has built its plan and found no file, or --force was given.
PlanCommit ==
    /\ cli = NoLedger /\ made < MaxMade
    /\ made' = made + 1
    /\ \E pack \in Packs : cli' \in Plans(made', pack)
    /\ UNCHANGED <<clock, disk, daemon, history>>

\* ... and saves it, or cannot.
PlanSave ==
    /\ cli # NoLedger
    /\ disk' \in {cli, disk}
    /\ cli' = NoLedger
    /\ UNCHANGED <<clock, made, daemon, history>>

Reset ==
    /\ disk' = NoLedger
    /\ UNCHANGED <<clock, cli, made, daemon, history>>

-----------------------------------------------------------------------------
Starts == StartLoaded \/ StartFresh \/ StartPinned
Loop == RemapKnown \/ Remap \/ NoPromotion \/ Promote \/ Send \/ Tick \/ TickOff
Commands == PlanCommit \/ PlanSave \/ Reset

Next == TimePasses \/ Starts \/ Stop \/ Loop \/ Commands

Spec == Init /\ [][Next]_vars

\* The run loop goes on, nothing blocks it for ever, and not every save of a tick
\* fails.  That a capture is remapped anew is not promised: all may be in the cache.
Fairness == WF_vars(Loop) /\ SF_vars(Tick /\ ~dirty')

FairSpec == Spec /\ Fairness
-----------------------------------------------------------------------------
Ledgers ==
    [id : 1..MaxMade, pack : Packs, sealed : BOOLEAN, devices : SUBSET Addresses,
     target : Nat, hosts : SUBSET [origin : Origins, ip : Addresses],
     lastThreat : -1..MaxTime]

\* Ranges, and that every ledger gives an address to one asset and an origin
\* one address (ledger/mod.rs:345-361, proto/l3.rs:652-676).
TypeOK ==
    /\ clock \in 0..MaxTime
    /\ {disk, mem, cli} \subseteq Ledgers \cup {NoLedger}
    /\ made \in 0..MaxMade
    /\ dirty \in BOOLEAN
    /\ at \in {"remap", "promote", "replay", "tick", "burst"} /\ mode \in Modes \cup {"off"}
    /\ \A l \in {disk, mem, cli} :
        /\ \A h \in l.hosts : h.ip \notin l.devices
        /\ \A g, h \in l.hosts : g.ip = h.ip \/ g.origin = h.origin => g = h

\* simulate/engine.rs:507-514, 586, 361 with ledger/mod.rs:232-256: an asset
\* once on the wire keeps its address for as long as its session is used,
\* through any number of restarts and commands, unless a save failed and the
\* daemon stopped before another succeeded.
AssetKeepsAddress ==
    \A w \in wire :
        w.ledger = mem.id /\ mem.id \notin lost => w \in Assets(mem)

\* simulate/engine.rs:507-514, 138-150: a daemon that thinks its ledger is saved
\* is right, unless the file is another session's by now.
CleanIsSaved == Running /\ ~dirty /\ disk.id = mem.id => disk = mem

\* threat/mod.rs:23-25, 36-73: promotions are a day apart, also across
\* restarts, commits and resets, unless an unsaved change was lost in between.
ThreatFloor ==
    [][Promote /\ lastPromo # Never
         => clock >= lastPromo + Floor]_vars

\* ledger/mod.rs:81-84 with control.rs:796: a sealed fleet is the committed one.
SealedAsPlanned ==
    \A l \in {disk, mem} : l.sealed => Cardinality(l.devices) = l.target

\* simulate/engine.rs:507-514, 589: with synthesis on a change that could not be saved
\* is saved later, though no remap and no promotion need come.
SavedEventually == dirty /\ mode # "off" ~> ~dirty

\* simulate/mod.rs:182-183: a committed plan is "the authoritative ledger the
\* daemon replays", so no daemon puts a ledger made before it in its place.
CommitStands ==
    [][Running /\ disk.sealed /\ mem.id < disk.id => disk'.id # mem.id]_vars
=============================================================================
