---------------------------- MODULE RemapCache ----------------------------
(***************************************************************************)
(* remap_into_session (simulate/engine.rs): a capture is remapped into the *)
(* plan, its new hosts become assets of the ledger, and the result is kept *)
(* in a cache, on tmpfs or beside the captures, from where it is sent and  *)
(* served again.                                                           *)
(*                                                                         *)
(* Writing a cache file is not atomic, and may fail or be cut by a stop.   *)
(* A save of the ledger may fail, and then a restart is back at an earlier *)
(* plan.  The captures themselves may be half written, and may be replaced *)
(* between the look at their time and size and the reading of their frames. *)
(***************************************************************************)
EXTENDS CaptureFiles

CONSTANTS
    Captures,       \* names of captures
    Content,        \* the versions there are of each: sequences of frames
    Arriving,       \* captures another process is writing, time and again
    Spilled,        \* those over MAX_SHM_BYTES, cached beside the captures
    Refused,        \* those over a size limit, or skipped by on_oversize
    PlanNets,       \* subnets fabrication may draw for zones
    RandomNets,     \* subnets the random remap may draw
    ZoneVendor(_),  \* vendor of a zone
    ZoneProtocol(_), \* the protocol its devices speak
    DeviceMac(_, _), \* make_mac of an address under a salt
    VendorOf(_),    \* vendor of a MAC, by its OUI
    SwitchVendors, ControllerVendors, \* the lists of infer_level
    AssetCap,       \* effective_asset_cap
    MaxDevices,     \* effective_device_cap
    Batch,          \* devices of one red_tick
    Budget,         \* bytes a cache directory may hold, counted in frames and headers
    MaxCut,         \* bound: files cut short at a time
    MaxEpoch,       \* bound: ledgers made or rolled back
    MaxStamp        \* bound: seconds in which a capture is written

Dirs == {"shm", "spill"}

ASSUME CapturesAssumption ==
    /\ {Spilled, Refused, Arriving} \subseteq SUBSET Captures
    /\ DOMAIN Content = Captures
    /\ \A c \in Captures : Content[c] # {}
    /\ \A c \in Captures : \A v \in Content[c] :
        /\ v \in Seq(ToSet(v))
        /\ \A f \in ToSet(v) : {f.src, f.dst} \subseteq Nat
ASSUME LimitsAssumption ==
    /\ {AssetCap, MaxDevices, Batch} \subseteq Nat \ {0} /\ Budget \in [Dirs -> Nat]
    /\ PlanNets \subseteq Nat

\* A salt changes a MAC's low three bytes: an address has more MACs than there can
\* be assets, so a search for one that nobody has ends.
ASSUME SaltAssumption ==
    \A a \in UNION {HostsIn(n) : n \in PlanNets} :
        /\ Cardinality({HostMac(a, s) : s \in 0..MaxSalt}) > AssetCap + MaxDevices
        /\ Cardinality({DeviceMac(a, s) : s \in 0..MaxSalt}) > AssetCap + MaxDevices

\* tiebreak is one-to-one in the zone.
ASSUME TieAssumption ==
    \A c \in Captures : \A v \in Content[c] : \A g \in NetsOf(v) : \A n, m \in PlanNets :
        Tie(g, n) \in Nat /\ (Tie(g, n) = Tie(g, m) => n = m)

VARIABLES
    stamp,   \* mtime of each capture, in seconds
    recent,  \* the captures last written in the current second
    up,      \* whether the daemon runs
    ledger,  \* the daemon's ledger
    disk,    \* the ledger's file
    look,    \* what the daemon saw of the capture it is about to read
    cache,   \* files of each cache directory, oldest first
    known,   \* remap_cache_bytes: the running estimate, or Unknown
    served,  \* what the run loop is about to send
    epochs   \* history: ledgers made or rolled back so far

written == <<source, stamp, recent>>
plans == <<ledger, disk, epochs>>
vars == <<written, plans, up, look, cache, known, served>>

Unknown == -1
Nothing == [cap |-> "none", of |-> <<>>, frames |-> <<>>]
NotLooked == [cap |-> "none", stamp |-> 0, size |-> 0]

\* Stands for no ledger.  epoch is history: it tells one ledger from another, and
\* from what is left of it when its last changes were not saved.
NoLedger ==
    [epoch |-> 0, seed |-> 0, gen |-> 0, zones |-> {}, devices |-> {}, hosts |-> {}]

-----------------------------------------------------------------------------
(* The ledger.                                                             *)

Assets(l) == l.devices \cup {[ip |-> h.ip, mac |-> h.mac] : h \in l.hosts}
UsedIPs(l) == {a.ip : a \in Assets(l)}
UsedMacs(l) == {a.mac : a \in Assets(l)}
WireAssets(l) == Cardinality(l.devices) + Cardinality(l.hosts)

RegisteredOrigins(l) ==
    [o \in {h.origin : h \in l.hosts} |-> (CHOOSE h \in l.hosts : h.origin = o).ip]

DeviceMacMap(l) ==
    [a \in {d.ip : d \in l.devices} |-> (CHOOSE d \in l.devices : d.ip = a).mac]

\* register_capture_host.
Register(l, a) ==
    IF WireAssets(l) >= AssetCap \/ a.ip \in {h.ip : h \in l.hosts} THEN l
    ELSE [l EXCEPT !.hosts = @ \cup {a}, !.gen = @ + 1]

-----------------------------------------------------------------------------
(* What the capture's hosts look like (zones.rs, engine.rs).               *)

InferLevel(vendor) ==
    IF vendor \in SwitchVendors THEN 2 ELSE IF vendor \in ControllerVendors THEN 1 ELSE 3

\* The MAC of the first frame that shows the host as a sender.
MacsShown(cap, a) ==
    LET by == SelectSeq(cap, LAMBDA f : Addressed(f) /\ f.src = a)
    IN  IF by = <<>> THEN {}
        ELSE {IF by[1].kind = "arp" THEN by[1].sha ELSE by[1].smac}

\* The values with most votes, any of them on a tie: the votes are in a HashMap.
Winners(candidates, Votes(_)) ==
    LET voted == {c \in candidates \ {"none"} : Votes(c) > 0}
    IN  IF voted = {} THEN {"none"}
        ELSE {c \in voted : \A d \in voted : Votes(d) <= Votes(c)}

VendorsOf(cap, net) ==
    LET of == [a \in {b \in HostsOf(cap) : NetOf(b) = net} |->
                  {VendorOf(m) : m \in MacsShown(cap, a)}]
    IN  Winners(UNION {of[a] : a \in DOMAIN of},
                LAMBDA v : Cardinality({a \in DOMAIN of : v \in of[a]}))

ProtocolsOf(cap, net) ==
    LET ip == {i \in DOMAIN cap : cap[i].kind = "ipv4"}
        Ends(i) == {e \in {"src", "dst"} : NetOf(cap[i][e]) = net}
    IN  Winners({cap[i].svc : i \in {j \in ip : Ends(j) # {}}},
                LAMBDA p : Cardinality(UNION {{i} \X Ends(i) : i \in {j \in ip : cap[j].svc = p}}))

\* capture_groups: every way to break ties.
GroupSets(cap) ==
    LET nets == NetsOf(cap)
        Ways(Of(_, _)) ==
            {f \in [nets -> UNION {Of(cap, n) : n \in nets}] : \A n \in nets : f[n] \in Of(cap, n)}
    IN  {{[net |-> n, vendor |-> v[n], protocol |-> p[n], level |-> InferLevel(v[n]),
           hosts |-> {a \in HostsOf(cap) : NetOf(a) = n}] : n \in nets}
         : v \in Ways(VendorsOf), p \in Ways(ProtocolsOf)}

ZoneTargets(l) ==
    {[net |-> n, vendor |-> ZoneVendor(n), level |-> InferLevel(ZoneVendor(n)),
      protocol |-> ZoneProtocol(n),
      reserved |-> {d.ip : d \in {e \in l.devices : NetOf(e.ip) = n}}] : n \in l.zones}

-----------------------------------------------------------------------------
(* The cache.                                                              *)

DirOf(c) == IF c \in Spilled THEN "spill" ELSE "shm"

\* A file's name, if it did not name the capture's time, ...
Name_NoTime(e) == <<e.cap, e.size, e.seed, e.gen>>
\* ... or the session's seed.
Name_NoSeed(e) == <<e.cap, e.stamp, e.size, e.gen>>

Name(e) == <<e.cap, e.stamp, e.size, e.seed, e.gen>>

\* std::fs::metadata: more frames, more bytes.
Stat(c) == [cap |-> c, stamp |-> stamp[c], size |-> Len(source[c])]

\* The file is named for the capture as it was looked at, and made of the frames
\* there are when it is read.  History: those frames (of), whether they were read
\* in a later second than they were written (settled), how they were remapped
\* (made), whether all were written (whole), and for which ledger (epoch).
Entry(c, at, l, frames, made) ==
    [cap |-> c, stamp |-> at.stamp, size |-> at.size, seed |-> l.seed, gen |-> l.gen,
     frames |-> frames, of |-> source[c], settled |-> c \notin recent,
     made |-> made, whole |-> TRUE, epoch |-> l.epoch]

Names(dir) == {Name(e) : e \in ToSet(cache[dir])}
Hits(c) ==
    {e \in ToSet(cache[DirOf(c)]) : Name(e) = Name(Entry(c, Stat(c), ledger, <<>>, "hit"))}

\* A file that is written again is the newest.
Put(files, e) ==
    LET same == {i \in DOMAIN files : Name(files[i]) = Name(e)}
    IN  Append(IF same = {} THEN files ELSE RemoveAt(files, MinOf(same)), e)

\* A file has a header, too.
Weight(e) == Len(e.frames) + 1
Bytes(files) == FoldLeft(LAMBDA n, e : n + Weight(e), 0, files)
From(files, i) == SubSeq(files, i, Len(files))

\* plan_evictions, if it stopped one file early.
Evicted_Short(files, max) ==
    LET fits == {i \in DOMAIN files : Bytes(From(files, i)) <= max}
        from == MinOf(fits \cup {Len(files)})
    IN  From(files, IF from > 1 THEN from - 1 ELSE 1)
\* ... or if it took the newest for the oldest.
Evicted_Newest(files, max) ==
    SubSeq(files, 1, Max({i \in 0..Len(files) : Bytes(SubSeq(files, 1, i)) <= max}))

\* plan_evictions: the oldest go until the rest fits, but never the newest.
Evicted(files, max) ==
    LET fits == {i \in DOMAIN files : Bytes(From(files, i)) <= max}
    IN  From(files, MinOf(fits \cup {Len(files)}))

\* remap_into_session's end: the directory is walked on its first use and when
\* the estimate passes the budget.
Cached(dir, e) ==
    LET files == Put(cache[dir], e)
        projected == IF known[dir] = Unknown THEN Bytes(files)
                     ELSE known[dir] + Weight(e)
        left == IF projected > Budget[dir] THEN Evicted(files, Budget[dir]) ELSE files
    IN  /\ cache' = [cache EXCEPT ![dir] = left]
        /\ known' = [known EXCEPT ![dir] =
                        IF projected > Budget[dir] THEN Bytes(left) ELSE projected]

\* Some frames of the file were written, never all.
CutShort(dir, e) ==
    /\ Cardinality({f \in UNION {ToSet(cache[d]) : d \in Dirs} : ~f.whole}) < MaxCut
    /\ \E k \in 0..Len(e.frames) - 1 :
         cache' = [cache EXCEPT ![dir] =
                      Put(@, [e EXCEPT !.frames = SubSeq(@, 1, k), !.whole = FALSE])]

-----------------------------------------------------------------------------
Init ==
    /\ source \in [Captures -> {<<>>} \cup UNION {Content[c] : c \in Captures}]
    /\ \A c \in Captures : source[c] \in IF c \in Arriving THEN {<<>>} ELSE Content[c]
    /\ stamp = [c \in Captures |-> 0] /\ recent = {}
    /\ up = FALSE /\ ledger = NoLedger /\ disk = NoLedger
    /\ look = NotLooked
    /\ cache = [d \in Dirs |-> <<>>]
    /\ known = [d \in Dirs |-> Unknown]
    /\ served = Nothing
    /\ epochs = 0

\* The engine loads the ledger, or makes one with a seed that is pinned or drawn;
\* tmpfs is purged, the cache beside the captures is not.
Start ==
    /\ ~up /\ up' = TRUE
    /\ \/ disk # NoLedger /\ ledger' = disk /\ UNCHANGED epochs
       \/ /\ disk = NoLedger /\ epochs < MaxEpoch
          /\ epochs' = epochs + 1
          /\ \E seed \in {0, epochs'} :
               ledger' = [NoLedger EXCEPT !.epoch = epochs', !.seed = seed]
    /\ cache' = [cache EXCEPT !["shm"] = <<>>]
    /\ known' = [d \in Dirs |-> Unknown]
    /\ UNCHANGED <<written, disk, look, served>>

\* What was not saved is lost.
Stop ==
    /\ up /\ up' = FALSE
    /\ ledger' = NoLedger
    /\ IF disk \in {ledger, NoLedger} THEN UNCHANGED <<disk, epochs>>
       ELSE /\ epochs < MaxEpoch /\ epochs' = epochs + 1
            /\ disk' = [disk EXCEPT !.epoch = epochs']
    /\ look' = NotLooked /\ served' = Nothing
    /\ known' = [d \in Dirs |-> Unknown]
    /\ UNCHANGED <<written, cache>>

\* `turbolaser reset`, or an operator who removes the ledger.
Reset ==
    /\ ~up /\ disk' = NoLedger
    /\ UNCHANGED <<written, up, ledger, look, cache, known, served, epochs>>

-----------------------------------------------------------------------------
(* One remap.  c is the capture the run loop picked.                       *)

\* A capture over a size limit is skipped unchanged.
Picks(c) == up /\ served = Nothing /\ look = NotLooked /\ c \notin Refused

\* What remapping c can give: by the plan, or at random while it has no zone.
Remaps(c) ==
    LET cap == source[c]
        budget == IF WireAssets(ledger) >= AssetCap THEN 0 ELSE AssetCap - WireAssets(ledger)
    IN  IF ledger.zones = {}
        THEN {[new |-> <<>>, made |-> "random", frames |-> Thinned(RemapCapture(cap, fresh))] :
                fresh \in Injection(NetsOf(cap), RandomNets)}
        ELSE {LET r == Reconcile(cap, groups, ZoneTargets(ledger), RegisteredOrigins(ledger),
                                 DeviceMacMap(ledger), UsedMacs(ledger), budget)
              IN  [new |-> r.new, made |-> "plan", frames |-> Thinned(r.frames)]
              : groups \in GroupSets(cap)}

Hit(c) ==
    /\ Picks(c)
    /\ \E e \in Hits(c) : served' = e
    /\ UNCHANGED <<written, plans, up, look, cache, known>>

\* There is no file for the capture as it is.
Look(c) ==
    /\ Picks(c) /\ Hits(c) = {}
    /\ look' = Stat(c)
    /\ UNCHANGED <<written, plans, up, cache, known, served>>

\* persist_if_dirty: a save may fail, and one that failed before is made up for.
MaySave == disk' \in {disk, ledger'}

\* The capture is read, as it is by now, and remapped; its hosts are registered
\* and the ledger is saved; then the file is written.
Miss ==
    /\ look # NotLooked /\ look' = NotLooked
    /\ LET c == look.cap IN
       \/ /\ source[c] = <<>>        \* it cannot be read
          /\ UNCHANGED <<plans, cache, known, served>>
       \/ /\ source[c] # <<>>
          /\ \E r \in Remaps(c) :
              LET l == FoldLeft(Register, ledger, r.new)
                  e == Entry(c, look, l, r.frames, r.made)
              IN  /\ ledger' = l
                  /\ IF ledger.zones = {} THEN UNCHANGED disk ELSE MaySave
                  /\ \/ Cached(DirOf(c), e) /\ served' = e
                     \/ CutShort(DirOf(c), e) /\ UNCHANGED <<known, served>>
                     \/ UNCHANGED <<cache, known, served>>
          /\ UNCHANGED epochs
    /\ UNCHANGED <<written, up>>

\* The lowest free address that is neither the gateway's nor the station's slot.
DevicePlaces(l, net) ==
    LET free == (HostsIn(net) \ {net * Size + 1, net * Size + Size - 2}) \ UsedIPs(l)
    IN  IF free = {} THEN {} ELSE {MinOf(free)}

\* fabricate: one device more, in a zone that may be new.
Grown(l) ==
    {LET salt == MinOf({s \in 0..MaxSalt : DeviceMac(p[2], s) \notin UsedMacs(l)})
     IN  [l EXCEPT !.zones = @ \cup {p[1]},
                   !.devices = @ \cup {[ip |-> p[2], mac |-> DeviceMac(p[2], salt)]}]
     : p \in UNION {{n} \X DevicePlaces(l, n) : n \in PlanNets}}

OneMore(ledgers, i) == UNION {Grown(l) : l \in ledgers}

\* red_tick after the send: a batch of devices, or none.
Tick ==
    /\ up /\ served # Nothing
    /\ served' = Nothing
    /\ LET room == IF Cardinality(ledger.devices) >= MaxDevices THEN 0
                   ELSE MaxDevices - Cardinality(ledger.devices)
           batch == [i \in 1..(IF room < Batch THEN room ELSE Batch) |-> i]
       IN  ledger' \in {ledger} \cup
               FoldLeft(OneMore, {ledger}, batch)
    /\ MaySave
    /\ UNCHANGED <<written, up, look, cache, known, epochs>>

Loop == (\E c \in Captures : Hit(c) \/ Look(c)) \/ Miss \/ Tick

\* An operator, or a reload on another host, writes the next frame or starts again;
\* the capture's time is that of the last write.
Copy ==
    /\ \E c \in Arriving : \E v \in Content[c] : \E n \in 0..Len(v) :
        /\ n > 0 => n = Len(source[c]) + 1 /\ SubSeq(v, 1, n - 1) = source[c]
        /\ source' = [source EXCEPT ![c] = SubSeq(v, 1, n)]
        /\ IF c \in recent THEN UNCHANGED <<stamp, recent>>
           ELSE /\ stamp[c] < MaxStamp
                /\ stamp' = [stamp EXCEPT ![c] = @ + 1]
                /\ recent' = recent \cup {c}
    /\ UNCHANGED <<plans, up, look, cache, known, served>>

\* A second passes.
Second ==
    /\ recent # {} /\ recent' = {}
    /\ UNCHANGED <<source, stamp, plans, up, look, cache, known, served>>

Next == Start \/ Stop \/ Reset \/ Loop \/ Copy \/ Second

Spec == Init /\ [][Next]_vars
-----------------------------------------------------------------------------
(* Properties.                                                             *)

Sending == served # Nothing

\* A file for an earlier ledger is one of this plan too: only its name, which has
\* the seed, keeps it from being served.  Where the seed is the same, as it is when
\* it is pinned or the plan was rolled back, nothing does.
OfPlan == served.made = "plan" /\ (served.seed = ledger.seed => served.epoch = ledger.epoch)

\* Ranges, and that no two assets of the plan share an address or a MAC
\* (proto/l3.rs:677-689, simulate/devices.rs:42-69).
TypeOK ==
    /\ DOMAIN source = Captures
    /\ up \in BOOLEAN
    /\ known \in [Dirs -> Nat \cup {Unknown}]
    /\ DOMAIN cache = Dirs
    /\ \A d \in Dirs : Cardinality(Names(d)) = Len(cache[d])
    /\ Cardinality(UsedIPs(ledger)) = WireAssets(ledger)
    /\ Cardinality(UsedMacs(ledger)) = WireAssets(ledger)
    /\ WireAssets(ledger) <= AssetCap + MaxDevices

\* proto/l3.rs:395-404, 366-379: whatever is sent shows no address of the
\* capture's own hosts, in a header or in a payload.
NothingReal ==
    Sending =>
        \A f \in ToSet(served.frames) :
            ({f.src, f.dst} \cup f.leaks) \cap HostsOf(served.of) = {}

\* The frames are between assets of the ledger.
Planned(frames) ==
    \A f \in ToSet(frames) :
        f.src \in UsedIPs(ledger) /\ (IsHost(f.dst) => f.dst \in UsedIPs(ledger))

\* simulate/engine.rs:228-236: what was remapped into this plan, now or earlier,
\* shows only assets of the plan as it is when it is sent; what was remapped into
\* one with another seed is not sent.  Not of a plan with the same seed: see HitIsPlanned.
WireIsPlanned == Sending /\ OfPlan => Planned(served.frames)

\* simulate/engine.rs:270-272: "A hit means the same capture, plan, and registry
\* already produced this exact remap."  It need not be the same plan: a save fails,
\* the daemon restarts with the ledger of before, and registers other hosts.
HitIsPlanned ==
    [][\A c \in Captures : Hit(c) /\ served'.made = "plan" => Planned(served'.frames)]_vars

\* simulate/engine.rs:253, 272-279: a file is served only for the capture as it is on
\* disk now, if it was made of frames that were at rest when they were read, though
\* the capture was replaced between the look at it and the reading, or since.
ServedIsCurrent ==
    [][\A c \in Captures : Hit(c) /\ served'.settled => served'.of = source[c]]_vars

Complete(files) == {i \in DOMAIN files : files[i].whole}
CompleteBytes(files) ==
    FoldLeft(LAMBDA n, e : n + (IF e.whole THEN Weight(e) ELSE 0), 0, files)

\* simulate/engine.rs:280-283, 1096-1118: the complete files of a directory fit its
\* budget, or there is only the one just written.
CacheBounded ==
    \A d \in Dirs : CompleteBytes(cache[d]) <= Budget[d] \/ Cardinality(Complete(cache[d])) <= 1

\* simulate/engine.rs:281, 1098: what is being sent is still in the cache.
ServedStays ==
    Sending => served \in ToSet(cache[DirOf(served.cap)])

\* proto/l3.rs:267-275: a host's frames carry the MAC its asset has in the ledger.
WireMacIsAssets ==
    Sending /\ OfPlan =>
        \A f \in ToSet(served.frames) : [ip |-> f.src, mac |-> f.smac] \in Assets(ledger)
=============================================================================
