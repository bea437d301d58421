------------------------------ MODULE PlanProofs -----------------------------
(***************************************************************************)
(* The plan of RemapCache, for any captures, subnets and limits: no two of *)
(* its assets share an address or a MAC, what is sent shows no host of the *)
(* capture and only assets of the plan, and what is served again is made   *)
(* of the capture as it is on disk.                                        *)
(*                                                                         *)
(* Three folds make a plan: of Assign over a capture's hosts, of Register  *)
(* over the assets it makes, and of OneMore over a batch of devices.  Each *)
(* is followed by an invariant of its steps (AccInv, RegisteredAll,        *)
(* GrownAll).                                                              *)
(***************************************************************************)
EXTENDS HostProofs

-----------------------------------------------------------------------------
(* Addresses.                                                              *)

LEMMA NetOfPlace ==
    ASSUME NEW n \in Nat, NEW a \in HostsIn(n)
    PROVE  a \in Nat /\ NetOf(a) = n
<1>1. PICK o \in 1..(Size - 2) : a = n * Size + o
  BY DEF HostsIn
<1>2. Size \in Nat /\ Size > 3 /\ o \in Nat /\ o < Size
  BY SizeAssumption
<1>3. n * Size \in Nat
  BY <1>2
<1>4. a \in Nat
  BY <1>1, <1>2, <1>3
<1>5. (n * Size + o) \div Size = n
  BY <1>2
<1>6. QED
  BY <1>1, <1>4, <1>5 DEF NetOf

LEMMA NetOfType == ASSUME NEW a \in Nat PROVE NetOf(a) \in Nat
  BY SizeAssumption DEF NetOf

\* A set of numbers is as good as its least.
LEMMA LeastIn == ASSUME NEW S \in SUBSET Nat, S # {} PROVE MinOf(S) \in S /\ MinOf(S) \in Nat
  BY MinExists

LEMMA HostsFinite ==
    ASSUME NEW cap, IsSeq(cap)
    PROVE  IsFiniteSet(HostsOf(cap))
<1> DEFINE A == {g \in ToSet(cap) : Addressed(g)}
           Of == [f \in A |-> {f.src, f.dst}]
           S == {Of[f] : f \in A}
<1>1. IsFiniteSet(A)
  BY SeqFinite, FS_Subset
<1>2. IsFiniteSet(S)
  <2>1. DOMAIN Of = A
    OBVIOUS
  <2> HIDE DEF Of, A
  <2>2. QED
    BY <1>1, <2>1, ImageFinite
<1>3. \A f \in A : IsFiniteSet(Of[f])
  <2>1. \A x, y : IsFiniteSet({x, y})
    <3> SUFFICES ASSUME NEW x, NEW y PROVE IsFiniteSet({x, y})
      OBVIOUS
    <3>1. IsFiniteSet({x}) /\ IsFiniteSet({y}) /\ {x, y} = {x} \cup {y}
      BY FS_Singleton
    <3>2. QED
      BY <3>1, FS_Union
  <2>2. QED
    BY <2>1
<1>4. HostsOf(cap) \subseteq UNION S
  BY DEF HostsOf
<1> HIDE DEF S, Of
<1>5. IsFiniteSet(UNION S)
  <2>1. \A T \in S : IsFiniteSet(T)
    BY <1>3 DEF S
  <2>2. QED
    BY <1>2, <2>1, FS_UNION
<1>6. QED
  BY <1>4, <1>5, FS_Subset

\* The subnets of a capture, in any version of it.
AllNets(c) == UNION {NetsOf(v) : v \in Content[c]}

\* The hosts of what is there of a capture are hosts of a version of it.
LEMMA HostsAre ==
    ASSUME SourceInv, forge = Off, NEW c \in Captures
    PROVE  /\ IsSeq(source[c])
           /\ HostsOf(source[c]) \in SUBSET Nat /\ IsFiniteSet(HostsOf(source[c]))
           /\ NetsOf(source[c]) \subseteq AllNets(c)
<1>1. PICK v \in Content[c] : IsSeq(source[c]) /\ Prefix(source[c], v)
  BY DEF SourceInv
<1>2. ToSet(source[c]) \subseteq ToSet(v)
  BY <1>1, ContentIsSeq, PrefixToSet
<1>3. HostsOf(source[c]) \subseteq HostsOf(v)
  BY <1>2 DEF HostsOf
<1>4. HostsOf(v) \subseteq Nat
  <2>1. \A f \in ToSet(v) : {f.src, f.dst} \subseteq Nat
    BY CapturesAssumption
  <2>2. QED
    BY <2>1 DEF HostsOf
<1>5. NetsOf(source[c]) \subseteq NetsOf(v)
  BY <1>3 DEF NetsOf
<1>6. QED
  BY <1>1, <1>3, <1>4, <1>5, HostsFinite DEF AllNets

-----------------------------------------------------------------------------
(* The plan.                                                               *)

IsAsset(a) == a = [ip |-> a.ip, mac |-> a.mac] /\ a.ip \in Nat
IsMapped(h) == h = [origin |-> h.origin, ip |-> h.ip, mac |-> h.mac] /\ h.ip \in Nat

\* No two assets of a plan share an address or a MAC, no two hosts of it an origin,
\* and every zone has a device.
PlanShape(l) ==
    /\ l = [epoch |-> l.epoch, seed |-> l.seed, gen |-> l.gen, zones |-> l.zones,
            devices |-> l.devices, hosts |-> l.hosts]
    /\ IsFiniteSet(l.zones) /\ l.zones \in SUBSET PlanNets
    /\ IsFiniteSet(l.devices) /\ \A d \in l.devices : IsAsset(d) /\ NetOf(d.ip) \in l.zones
    /\ IsFiniteSet(l.hosts) /\ \A h \in l.hosts : IsMapped(h)
    /\ \A n \in l.zones : \E d \in l.devices : NetOf(d.ip) = n
PlanDistinct(l) ==
    /\ \A d, e \in l.devices : d.ip = e.ip \/ d.mac = e.mac => d = e
    /\ \A h, g \in l.hosts : h.ip = g.ip \/ h.mac = g.mac \/ h.origin = g.origin => h = g
    /\ \A d \in l.devices : \A h \in l.hosts : d.ip # h.ip /\ d.mac # h.mac
PlanSize(l) == Cardinality(l.devices) <= MaxDevices /\ Cardinality(l.hosts) <= AssetCap
PlanOK(l) == PlanShape(l) /\ PlanDistinct(l) /\ PlanSize(l)

LEMMA UsedAre ==
    ASSUME NEW l
    PROVE  /\ UsedIPs(l) = {d.ip : d \in l.devices} \cup {h.ip : h \in l.hosts}
           /\ UsedMacs(l) = {d.mac : d \in l.devices} \cup {h.mac : h \in l.hosts}
<1> DEFINE A(h) == [ip |-> h.ip, mac |-> h.mac]
<1>1. Assets(l) = l.devices \cup {A(h) : h \in l.hosts}
  BY DEF Assets
<1>2. \A h : A(h).ip = h.ip /\ A(h).mac = h.mac
  OBVIOUS
<1> HIDE DEF A
<1>3. UsedIPs(l) = {d.ip : d \in l.devices} \cup {h.ip : h \in l.hosts}
  BY <1>1, <1>2 DEF UsedIPs
<1>4. UsedMacs(l) = {d.mac : d \in l.devices} \cup {h.mac : h \in l.hosts}
  BY <1>1, <1>2 DEF UsedMacs
<1>5. QED
  BY <1>3, <1>4

\* Two disjoint sets, each mapped one to one, to values that are disjoint.
LEMMA TwoImages ==
    ASSUME NEW S, IsFiniteSet(S), NEW f, DOMAIN f = S, OneToOne(f),
           NEW T, IsFiniteSet(T), NEW g, DOMAIN g = T, OneToOne(g),
           \A x \in S : \A y \in T : f[x] # g[y]
    PROVE  /\ IsFiniteSet({f[x] : x \in S} \cup {g[y] : y \in T})
           /\ Cardinality({f[x] : x \in S} \cup {g[y] : y \in T})
                = Cardinality(S) + Cardinality(T)
<1> DEFINE F == {f[x] : x \in S}
           G == {g[y] : y \in T}
<1>1. IsFiniteSet(F) /\ Cardinality(F) = Cardinality(S)
  BY ImageCardinality
<1>2. IsFiniteSet(G) /\ Cardinality(G) = Cardinality(T)
  BY ImageCardinality
<1>3. F \cap G = {}
  OBVIOUS
<1> HIDE DEF F, G
<1>4. /\ IsFiniteSet(F \cup G)
      /\ Cardinality(F \cup G) = Cardinality(F) + Cardinality(G) - Cardinality({})
  BY <1>1, <1>2, <1>3, FS_Union
<1>5. Cardinality({}) = 0 /\ Cardinality(S) \in Nat /\ Cardinality(T) \in Nat
  BY FS_EmptySet, FS_CardinalityType
<1>6. QED
  BY <1>1, <1>2, <1>4, <1>5 DEF F, G

LEMMA UsedCount ==
    ASSUME NEW l, PlanOK(l)
    PROVE  /\ IsFiniteSet(UsedIPs(l)) /\ Cardinality(UsedIPs(l)) = WireAssets(l)
           /\ IsFiniteSet(UsedMacs(l)) /\ Cardinality(UsedMacs(l)) = WireAssets(l)
           /\ WireAssets(l) \in Nat /\ WireAssets(l) <= AssetCap + MaxDevices
           /\ Cardinality(l.devices) \in Nat /\ Cardinality(l.hosts) \in Nat
           /\ UsedIPs(l) \in SUBSET Nat
<1> DEFINE di == [d \in l.devices |-> d.ip]
           hi == [h \in l.hosts |-> h.ip]
           dm == [d \in l.devices |-> d.mac]
           hm == [h \in l.hosts |-> h.mac]
<1>1. IsFiniteSet(l.devices) /\ IsFiniteSet(l.hosts)
  BY DEF PlanOK, PlanShape
<1>2. OneToOne(di) /\ OneToOne(hi) /\ OneToOne(dm) /\ OneToOne(hm)
  BY DEF PlanOK, PlanDistinct, OneToOne
<1>3. /\ UsedIPs(l) = {di[d] : d \in l.devices} \cup {hi[h] : h \in l.hosts}
      /\ UsedMacs(l) = {dm[d] : d \in l.devices} \cup {hm[h] : h \in l.hosts}
  <2>1. {d.ip : d \in l.devices} = {di[d] : d \in l.devices}
    OBVIOUS
  <2>2. {h.ip : h \in l.hosts} = {hi[h] : h \in l.hosts}
    OBVIOUS
  <2>3. {d.mac : d \in l.devices} = {dm[d] : d \in l.devices}
    OBVIOUS
  <2>4. {h.mac : h \in l.hosts} = {hm[h] : h \in l.hosts}
    OBVIOUS
  <2> HIDE DEF di, hi, dm, hm
  <2>5. QED
    BY <2>1, <2>2, <2>3, <2>4, UsedAre
<1>4. \A d \in l.devices : \A h \in l.hosts : di[d] # hi[h] /\ dm[d] # hm[h]
  BY DEF PlanOK, PlanDistinct
<1>5. DOMAIN di = l.devices /\ DOMAIN hi = l.hosts /\ DOMAIN dm = l.devices /\ DOMAIN hm = l.hosts
  OBVIOUS
<1>6. \A d \in l.devices : di[d] \in Nat
  BY DEF PlanOK, PlanShape, IsAsset
<1>7. \A h \in l.hosts : hi[h] \in Nat
  BY DEF PlanOK, PlanShape, IsMapped
<1> HIDE DEF di, hi, dm, hm
<1>8. /\ IsFiniteSet(UsedIPs(l)) /\ Cardinality(UsedIPs(l)) = WireAssets(l)
      /\ IsFiniteSet(UsedMacs(l)) /\ Cardinality(UsedMacs(l)) = WireAssets(l)
  <2>1. /\ IsFiniteSet(UsedIPs(l))
        /\ Cardinality(UsedIPs(l)) = Cardinality(l.devices) + Cardinality(l.hosts)
    <3>1. \A d \in l.devices : \A h \in l.hosts : di[d] # hi[h]
      BY <1>4
    <3>2. QED
      BY <1>1, <1>2, <1>3, <1>5, <3>1, TwoImages
  <2>2. /\ IsFiniteSet(UsedMacs(l))
        /\ Cardinality(UsedMacs(l)) = Cardinality(l.devices) + Cardinality(l.hosts)
    <3>1. \A d \in l.devices : \A h \in l.hosts : dm[d] # hm[h]
      BY <1>4
    <3>2. QED
      BY <1>1, <1>2, <1>3, <1>5, <3>1, TwoImages
  <2>3. QED
    BY <2>1, <2>2 DEF WireAssets
<1>9. Cardinality(l.devices) \in Nat /\ Cardinality(l.hosts) \in Nat
  BY <1>1, FS_CardinalityType
<1>10. /\ WireAssets(l) \in Nat /\ WireAssets(l) <= AssetCap + MaxDevices
  BY <1>9, LimitsAssumption DEF WireAssets, PlanOK, PlanSize
<1>11. QED
  BY <1>3, <1>6, <1>7, <1>8, <1>9, <1>10

\* m is l with more assets.
Extends(l, m) ==
    /\ m.epoch = l.epoch /\ m.seed = l.seed
    /\ UsedIPs(l) \subseteq UsedIPs(m)

\* A search for a free MAC finds one.
LEMMA SaltFound ==
    ASSUME NEW U, IsFiniteSet(U), Cardinality(U) <= AssetCap + MaxDevices,
           NEW f, DOMAIN f = 0..MaxSalt,
           Cardinality({f[s] : s \in 0..MaxSalt}) > AssetCap + MaxDevices
    PROVE  \E s \in 0..MaxSalt : f[s] \notin U
<1> DEFINE M == {f[s] : s \in 0..MaxSalt}
<1>1. SUFFICES ASSUME M \in SUBSET U PROVE FALSE
  OBVIOUS
<1>2. Cardinality(M) <= Cardinality(U) /\ IsFiniteSet(M)
  BY <1>1, FS_Subset
<1>3. Cardinality(M) \in Nat /\ Cardinality(U) \in Nat
  BY <1>2, FS_CardinalityType
<1>4. Cardinality(M) > AssetCap + MaxDevices
  OBVIOUS
<1>6. AssetCap \in Nat /\ MaxDevices \in Nat
  BY LimitsAssumption
<1> HIDE DEF M
<1>5. QED
  BY <1>2, <1>3, <1>4, <1>6

-----------------------------------------------------------------------------
(* A plan with one asset more.                                             *)

DeviceAdded(l, m, n, ip, mac) ==
    m = [epoch |-> l.epoch, seed |-> l.seed, gen |-> l.gen, zones |-> l.zones \cup {n},
         devices |-> l.devices \cup {[ip |-> ip, mac |-> mac]}, hosts |-> l.hosts]
HostAdded(l, m, gen, a) ==
    m = [epoch |-> l.epoch, seed |-> l.seed, gen |-> gen, zones |-> l.zones,
         devices |-> l.devices, hosts |-> l.hosts \cup {a}]

LEMMA WithDevice ==
    ASSUME NEW l, PlanOK(l), Cardinality(l.devices) < MaxDevices,
           NEW n \in PlanNets, NEW ip \in Nat, NetOf(ip) = n, ip \notin UsedIPs(l),
           NEW mac, mac \notin UsedMacs(l), NEW m, DeviceAdded(l, m, n, ip, mac)
    PROVE  /\ PlanOK(m) /\ Extends(l, m)
           /\ Cardinality(m.devices) = Cardinality(l.devices) + 1
<1> DEFINE d == [ip |-> ip, mac |-> mac]
<1>1. /\ m.epoch = l.epoch /\ m.seed = l.seed /\ m.zones = l.zones \cup {n}
      /\ m.devices = l.devices \cup {d} /\ m.hosts = l.hosts /\ m.gen = l.gen
  BY DEF DeviceAdded
<1>2. /\ UsedIPs(l) = {e.ip : e \in l.devices} \cup {h.ip : h \in l.hosts}
      /\ UsedMacs(l) = {e.mac : e \in l.devices} \cup {h.mac : h \in l.hosts}
      /\ UsedIPs(m) = {e.ip : e \in m.devices} \cup {h.ip : h \in m.hosts}
  BY UsedAre
<1>3. d.ip = ip /\ d.mac = mac /\ d \notin l.devices
  BY <1>2
<1>4. Cardinality(m.devices) = Cardinality(l.devices) + 1 /\ IsFiniteSet(m.devices)
  BY <1>1, <1>3, FS_AddElement DEF PlanOK, PlanShape
<1>5. PlanShape(m)
  <2>1. m = [epoch |-> m.epoch, seed |-> m.seed, gen |-> m.gen, zones |-> m.zones,
             devices |-> m.devices, hosts |-> m.hosts]
    BY DEF DeviceAdded
  <2>2. IsFiniteSet(m.zones) /\ m.zones \in SUBSET PlanNets
    BY <1>1, FS_AddElement DEF PlanOK, PlanShape
  <2>3. IsAsset(d) /\ NetOf(d.ip) \in m.zones
    BY <1>1, <1>3 DEF IsAsset
  <2> HIDE DEF d
  <2>4. \A e \in m.devices : IsAsset(e) /\ NetOf(e.ip) \in m.zones
    BY <1>1, <2>3 DEF PlanOK, PlanShape
  <2>5. \A k \in m.zones : \E e \in m.devices : NetOf(e.ip) = k
    BY <1>1, <1>3 DEF PlanOK, PlanShape
  <2>6. QED
    BY <1>1, <1>4, <2>1, <2>2, <2>4, <2>5 DEF PlanOK, PlanShape
<1>6. PlanDistinct(m)
  <2>1. \A e \in l.devices : e.ip # d.ip /\ e.mac # d.mac
    BY <1>2, <1>3
  <2>2. \A h \in l.hosts : h.ip # d.ip /\ h.mac # d.mac
    BY <1>2, <1>3
  <2> HIDE DEF d
  <2>3. QED
    BY <1>1, <2>1, <2>2 DEF PlanOK, PlanDistinct
<1>7. PlanSize(m)
  <2>1. MaxDevices \in Nat /\ Cardinality(l.devices) \in Nat
    BY LimitsAssumption, UsedCount
  <2>2. QED
    BY <1>1, <1>4, <2>1 DEF PlanOK, PlanSize
<1>8. Extends(l, m)
  <2> HIDE DEF d
  <2>1. QED
    BY <1>1, <1>2 DEF Extends
<1>9. QED
  BY <1>4, <1>5, <1>6, <1>7, <1>8 DEF PlanOK

LEMMA WithHost ==
    ASSUME NEW l, PlanOK(l), Cardinality(l.hosts) < AssetCap,
           NEW a, IsMapped(a), a.ip \notin UsedIPs(l), a.mac \notin UsedMacs(l),
           \A h \in l.hosts : h.origin # a.origin,
           NEW gen, NEW m, HostAdded(l, m, gen, a)
    PROVE  /\ PlanOK(m) /\ Extends(l, m)
           /\ Cardinality(m.hosts) = Cardinality(l.hosts) + 1
<1>1. /\ m.epoch = l.epoch /\ m.seed = l.seed /\ m.zones = l.zones
      /\ m.devices = l.devices /\ m.hosts = l.hosts \cup {a} /\ m.gen = gen
  BY DEF HostAdded
<1>2. /\ UsedIPs(l) = {e.ip : e \in l.devices} \cup {h.ip : h \in l.hosts}
      /\ UsedMacs(l) = {e.mac : e \in l.devices} \cup {h.mac : h \in l.hosts}
      /\ UsedIPs(m) = {e.ip : e \in m.devices} \cup {h.ip : h \in m.hosts}
  BY UsedAre
<1>3. a \notin l.hosts
  OBVIOUS
<1>4. Cardinality(m.hosts) = Cardinality(l.hosts) + 1 /\ IsFiniteSet(m.hosts)
  BY <1>1, <1>3, FS_AddElement DEF PlanOK, PlanShape
<1>5. PlanShape(m)
  <2>1. m = [epoch |-> m.epoch, seed |-> m.seed, gen |-> m.gen, zones |-> m.zones,
             devices |-> m.devices, hosts |-> m.hosts]
    BY DEF HostAdded
  <2>2. \A h \in m.hosts : IsMapped(h)
    BY <1>1 DEF PlanOK, PlanShape
  <2>3. QED
    BY <1>1, <1>4, <2>1, <2>2 DEF PlanOK, PlanShape
<1>6. PlanDistinct(m)
  <2>1. \A e \in l.devices : e.ip # a.ip /\ e.mac # a.mac
    BY <1>2
  <2>2. \A h \in l.hosts : h.ip # a.ip /\ h.mac # a.mac /\ h.origin # a.origin
    BY <1>2
  <2>3. QED
    BY <1>1, <2>1, <2>2 DEF PlanOK, PlanDistinct
<1>7. PlanSize(m)
  <2>1. AssetCap \in Nat /\ Cardinality(l.hosts) \in Nat
    BY LimitsAssumption, UsedCount
  <2>2. QED
    BY <1>1, <1>4, <2>1 DEF PlanOK, PlanSize
<1>8. Extends(l, m)
  BY <1>1, <1>2 DEF Extends
<1>9. QED
  BY <1>4, <1>5, <1>6, <1>7, <1>8 DEF PlanOK

\* A device's address is in its zone and free, and so is its MAC.
LEMMA GrownPlan ==
    ASSUME NEW l, PlanOK(l), Cardinality(l.devices) < MaxDevices, NEW m \in Grown(l)
    PROVE  /\ PlanOK(m) /\ Extends(l, m)
           /\ Cardinality(m.devices) = Cardinality(l.devices) + 1
<1> DEFINE Salts(ip) == {s \in 0..MaxSalt : DeviceMac(ip, s) \notin UsedMacs(l)}
           Mac(ip) == DeviceMac(ip, MinOf(Salts(ip)))
<1>1. PICK n, ip :
        /\ n \in PlanNets /\ ip \in DevicePlaces(l, n)
        /\ m = [l EXCEPT !.zones = @ \cup {n}, !.devices = @ \cup {[ip |-> ip, mac |-> Mac(ip)]}]
  <2>1. PICK p \in UNION {{k} \X DevicePlaces(l, k) : k \in PlanNets} :
          m = [l EXCEPT !.zones = @ \cup {p[1]},
                        !.devices = @ \cup {[ip |-> p[2], mac |-> Mac(p[2])]}]
    BY Zenon DEF Grown
  <2> HIDE DEF Mac
  <2>2. PICK n \in PlanNets : p[1] = n /\ p[2] \in DevicePlaces(l, n)
    OBVIOUS
  <2>3. QED
    BY <2>1, <2>2
<1>2. ip \in HostsIn(n) /\ ip \notin UsedIPs(l) /\ ip \in Nat /\ NetOf(ip) = n
  <2> DEFINE free == (HostsIn(n) \ {n * Size + 1, n * Size + Size - 2}) \ UsedIPs(l)
  <2>1. n \in Nat
    BY <1>1, LimitsAssumption
  <2>2. free \in SUBSET Nat
    BY <2>1, NetOfPlace
  <2>3. free # {} /\ ip = MinOf(free)
    BY <1>1 DEF DevicePlaces
  <2>4. ip \in free
    <3> HIDE DEF free
    <3>1. QED
      BY <2>2, <2>3, LeastIn
  <2>5. QED
    BY <2>1, <2>4, NetOfPlace
<1>3. Mac(ip) \notin UsedMacs(l)
  <2> DEFINE f == [s \in 0..MaxSalt |-> DeviceMac(ip, s)]
  <2>1. Cardinality({f[s] : s \in 0..MaxSalt}) > AssetCap + MaxDevices
    <3>1. {f[s] : s \in 0..MaxSalt} = {DeviceMac(ip, s) : s \in 0..MaxSalt}
      OBVIOUS
    <3>2. QED
      BY <1>1, <1>2, <3>1, SaltAssumption
  <2>2. PICK s \in 0..MaxSalt : f[s] \notin UsedMacs(l)
    <3>1. DOMAIN f = 0..MaxSalt
      OBVIOUS
    <3> HIDE DEF f
    <3>2. IsFiniteSet(UsedMacs(l)) /\ Cardinality(UsedMacs(l)) <= AssetCap + MaxDevices
      BY UsedCount
    <3>3. QED
      BY <2>1, <3>1, <3>2, SaltFound
  <2>3. Salts(ip) # {} /\ Salts(ip) \in SUBSET Nat
    BY <2>2
  <2>4. MinOf(Salts(ip)) \in Salts(ip)
    <3> HIDE DEF Salts
    <3>1. QED
      BY <2>3, LeastIn
  <2>5. QED
    BY <2>4
<1> HIDE DEF Mac
<1>4. DeviceAdded(l, m, n, ip, Mac(ip))
  <2>1. l = [epoch |-> l.epoch, seed |-> l.seed, gen |-> l.gen, zones |-> l.zones,
             devices |-> l.devices, hosts |-> l.hosts]
    BY DEF PlanOK, PlanShape
  <2>2. QED
    BY <1>1, <2>1 DEF DeviceAdded
<1>5. n \in PlanNets /\ ip \in Nat
  BY <1>1, <1>2
<1>6. QED
  BY <1>2, <1>3, <1>4, <1>5, WithDevice

-----------------------------------------------------------------------------
(* A batch of devices, and the hosts of a capture.                         *)

Adding == INSTANCE ListProofs WITH Op <- OneMore

LEMMA GrownAll ==
    ASSUME NEW l, PlanOK(l), NEW k \in Nat, Cardinality(l.devices) + k <= MaxDevices,
           NEW m \in FoldLeft(OneMore, {l}, [i \in 1..k |-> i])
    PROVE  PlanOK(m) /\ Extends(l, m)
<1> DEFINE s == [i \in 1..k |-> i]
           Grows(x, i) == PlanOK(x) /\ Extends(l, x)
                            /\ Cardinality(x.devices) = Cardinality(l.devices) + i
<1>1. IsSeq(s) /\ Len(s) = k
  <2>1. s = [i \in 1..k |-> s[i]]
    OBVIOUS
  <2> HIDE DEF s
  <2>2. QED
    BY <2>1, FunctionIsSeq
<1>2. PICK v : Adding!Folded(s, {l}, v) /\ Adding!FoldLeft(OneMore, {l}, s) = v[Len(s)]
  <2> HIDE DEF s
  <2>1. QED
    BY <1>1, Adding!FoldSteps DEF IsSeq
<1>3. v[0] = {l} /\ \A i \in 1..k : v[i] = UNION {Grown(x) : x \in v[i - 1]}
  BY <1>1, <1>2 DEF Adding!Folded, OneMore
<1>4. FoldLeft(OneMore, {l}, s) = Adding!FoldLeft(OneMore, {l}, s)
  BY DEF FoldLeft, MapThenFoldSet, Max,
         Adding!FoldLeft, Adding!MapThenFoldSet, Adding!Max
<1>5. m \in v[k]
  BY <1>1, <1>2, <1>4
<1> HIDE DEF s
<1> DEFINE T == {i \in 0..k : \A x \in v[i] : Grows(x, i)}
<1>6. 0 \in T
  <2>1. Grows(l, 0)
    BY UsedCount DEF Extends
  <2> HIDE DEF Grows
  <2>2. QED
    BY <1>3, <2>1
<1>7. ASSUME NEW i \in 0..(k - 1), i \in T PROVE i + 1 \in T
  <2>1. i + 1 \in 1..k /\ i + 1 - 1 = i
    OBVIOUS
  <2>2. ASSUME NEW y \in v[i + 1] PROVE Grows(y, i + 1)
    <3>1. PICK x \in v[i] : y \in Grown(x)
      BY <1>3, <2>1, <2>2
    <3>2. Grows(x, i)
      BY <1>7, <3>1
    <3>3. Cardinality(l.devices) \in Nat /\ MaxDevices \in Nat
      BY UsedCount, LimitsAssumption
    <3>4. Cardinality(x.devices) < MaxDevices
      BY <3>2, <3>3
    <3>5. /\ PlanOK(y) /\ Extends(x, y)
          /\ Cardinality(y.devices) = Cardinality(x.devices) + 1
      BY <3>1, <3>2, <3>4, GrownPlan
    <3>6. Extends(l, y)
      BY <3>2, <3>5 DEF Extends
    <3>7. QED
      BY <3>2, <3>3, <3>5, <3>6
  <2> HIDE DEF Grows
  <2>3. QED
    BY <2>1, <2>2
<1>8. k \in T
  <2> HIDE DEF T
  <2>1. \A i \in 0..k : i \in T
    BY <1>6, <1>7, Upward
  <2>2. QED
    BY <2>1
<1>9. QED
  BY <1>5, <1>8

Registering == INSTANCE ListProofs WITH Op <- Register

\* Assets that a plan has room for, and that differ from its own and each other.
Fresh(l, a) ==
    /\ IsMapped(a) /\ a.ip \notin UsedIPs(l) /\ a.mac \notin UsedMacs(l)
    /\ \A h \in l.hosts : h.origin # a.origin
Unlike(a, b) == a.ip # b.ip /\ a.mac # b.mac /\ a.origin # b.origin
NewOK(l, new) ==
    /\ Len(new) = 0 \/ WireAssets(l) + Len(new) <= AssetCap
    /\ \A i \in 1..Len(new) : Fresh(l, new[i])
    /\ \A i, j \in 1..Len(new) : i # j => Unlike(new[i], new[j])

LEMMA RegisteredAll ==
    ASSUME NEW l, PlanOK(l), NEW new, IsSeq(new), NewOK(l, new),
           NEW m, m = FoldLeft(Register, l, new)
    PROVE  /\ PlanOK(m) /\ Extends(l, m) /\ m.zones = l.zones
           /\ \A i \in 1..Len(new) : new[i].ip \in UsedIPs(m)
<1> DEFINE n == Len(new)
           First(i) == {new[j] : j \in 1..i}
           Has(x, i) == /\ PlanOK(x) /\ Extends(l, x) /\ x.zones = l.zones
                        /\ x.devices = l.devices /\ x.hosts = l.hosts \cup First(i)
                        /\ Cardinality(x.hosts) = Cardinality(l.hosts) + i
<1>1. n \in Nat
  BY SeqFacts
<1>2. PICK v : Registering!Folded(new, l, v) /\ Registering!FoldLeft(Register, l, new) = v[n]
  BY Registering!FoldSteps DEF IsSeq
<1>3. v[0] = l /\ \A i \in 1..n : v[i] = Register(v[i - 1], new[i])
  BY <1>2 DEF Registering!Folded
<1>4. m = v[n]
  <2>1. FoldLeft(Register, l, new) = Registering!FoldLeft(Register, l, new)
    BY DEF FoldLeft, MapThenFoldSet, Max,
           Registering!FoldLeft, Registering!MapThenFoldSet, Registering!Max
  <2>2. QED
    BY <1>2, <2>1
<1>5. /\ \A i \in 1..n : Fresh(l, new[i])
      /\ \A i, j \in 1..n : i # j => Unlike(new[i], new[j])
      /\ n = 0 \/ WireAssets(l) + n <= AssetCap
  BY DEF NewOK
<1> DEFINE T == {i \in 0..n : Has(v[i], i)}
<1> HIDE DEF n
<1>6. 0 \in T
  <2>1. Has(l, 0)
    <3>1. Cardinality(l.hosts) \in Nat
      BY UsedCount
    <3>2. QED
      BY <3>1 DEF Extends
  <2> HIDE DEF Has
  <2>2. QED
    BY <1>1, <1>3, <2>1
<1>7. ASSUME NEW i \in 0..(n - 1), i \in T PROVE i + 1 \in T
  <2> DEFINE x == v[i]
             a == new[i + 1]
  <2>1. i + 1 \in 1..n /\ i + 1 - 1 = i /\ n # 0
    BY <1>1
  <2>2. Has(x, i)
    BY <1>7
  <2>3. v[i + 1] = Register(x, a)
    BY <1>3, <2>1
  <2>4. First(i + 1) = First(i) \cup {a}
    BY <1>1, <2>1
  <2>5. Fresh(l, a) /\ \A b \in First(i) : Unlike(a, b)
    <3>1. \A j \in 1..i : j \in 1..n /\ j # i + 1
      BY <1>1, <2>1
    <3>2. QED
      BY <1>5, <2>1, <3>1
  <2> HIDE DEF x, a, First
  <2>6. Fresh(x, a)
    <3>1. /\ UsedIPs(l) = {d.ip : d \in l.devices} \cup {h.ip : h \in l.hosts}
          /\ UsedMacs(l) = {d.mac : d \in l.devices} \cup {h.mac : h \in l.hosts}
          /\ UsedIPs(x) = {d.ip : d \in x.devices} \cup {h.ip : h \in x.hosts}
          /\ UsedMacs(x) = {d.mac : d \in x.devices} \cup {h.mac : h \in x.hosts}
      BY UsedAre
    <3>2. x.devices = l.devices /\ x.hosts = l.hosts \cup First(i)
      BY <2>2
    <3>3. IsMapped(a) /\ a.ip \notin UsedIPs(l) /\ a.mac \notin UsedMacs(l)
          /\ \A h \in l.hosts : h.origin # a.origin
      BY <2>5 DEF Fresh
    <3>4. \A b \in First(i) : b.ip # a.ip /\ b.mac # a.mac /\ b.origin # a.origin
      BY <2>5 DEF Unlike
    <3>5. a.ip \notin UsedIPs(x)
      BY <3>1, <3>2, <3>3, <3>4
    <3>6. a.mac \notin UsedMacs(x)
      BY <3>1, <3>2, <3>3, <3>4
    <3>7. QED
      BY <3>2, <3>3, <3>4, <3>5, <3>6 DEF Fresh
  <2>7. WireAssets(x) < AssetCap /\ Cardinality(x.hosts) < AssetCap
    <3>1. /\ WireAssets(l) = Cardinality(l.devices) + Cardinality(l.hosts)
          /\ WireAssets(x) = Cardinality(x.devices) + Cardinality(x.hosts)
      BY DEF WireAssets
    <3>2. /\ Cardinality(l.devices) \in Nat /\ Cardinality(l.hosts) \in Nat
          /\ AssetCap \in Nat
      BY UsedCount, LimitsAssumption
    <3>3. /\ Cardinality(x.devices) = Cardinality(l.devices)
          /\ Cardinality(x.hosts) = Cardinality(l.hosts) + i
      BY <2>2
    <3>4. QED
      BY <1>1, <1>5, <2>1, <3>1, <3>2, <3>3
  <2>8. a.ip \notin {h.ip : h \in x.hosts}
    BY <2>6, UsedAre DEF Fresh
  <2>9. HostAdded(x, v[i + 1], x.gen + 1, a)
    <3>1. v[i + 1] = [x EXCEPT !.hosts = @ \cup {a}, !.gen = @ + 1]
      <4>1. ~(WireAssets(x) >= AssetCap)
        <5>1. WireAssets(x) \in Nat /\ AssetCap \in Nat
          BY <2>2, UsedCount, LimitsAssumption
        <5>2. QED
          BY <2>7, <5>1
      <4>2. QED
        BY <2>3, <2>8, <4>1 DEF Register
    <3>2. x = [epoch |-> x.epoch, seed |-> x.seed, gen |-> x.gen, zones |-> x.zones,
               devices |-> x.devices, hosts |-> x.hosts]
      BY <2>2 DEF PlanOK, PlanShape
    <3>3. QED
      BY <3>1, <3>2 DEF HostAdded
  <2>10. /\ PlanOK(v[i + 1]) /\ Extends(x, v[i + 1])
         /\ Cardinality(v[i + 1].hosts) = Cardinality(x.hosts) + 1
    BY <2>2, <2>6, <2>7, <2>9, WithHost DEF Fresh
  <2>11. /\ v[i + 1].zones = x.zones /\ v[i + 1].devices = x.devices
         /\ v[i + 1].hosts = x.hosts \cup {a}
    BY <2>9 DEF HostAdded
  <2>12. Extends(l, v[i + 1])
    BY <2>2, <2>10 DEF Extends
  <2>13. Cardinality(v[i + 1].hosts) = Cardinality(l.hosts) + (i + 1)
    <3>1. Cardinality(l.hosts) \in Nat
      BY UsedCount
    <3>2. QED
      BY <2>2, <2>10, <3>1
  <2>14. Has(v[i + 1], i + 1)
    BY <2>2, <2>4, <2>10, <2>11, <2>12, <2>13
  <2> HIDE DEF Has
  <2>15. QED
    BY <1>1, <2>1, <2>14
<1>8. n \in T
  <2> HIDE DEF T
  <2>1. \A i \in 0..n : i \in T
    BY <1>1, <1>6, <1>7, Upward
  <2>2. QED
    BY <1>1, <2>1
<1>9. Has(m, n)
  BY <1>4, <1>8
<1>10. \A i \in 1..n : new[i].ip \in UsedIPs(m)
  <2>1. \A i \in 1..n : new[i] \in m.hosts
    BY <1>9
  <2>2. QED
    BY <2>1, UsedAre
<1>11. QED
  BY <1>9, <1>10 DEF n

-----------------------------------------------------------------------------
(* The zones.                                                              *)

ZoneAt(l, n) ==
    [net |-> n, vendor |-> ZoneVendor(n), level |-> InferLevel(ZoneVendor(n)),
     protocol |-> ZoneProtocol(n),
     reserved |-> {d.ip : d \in {e \in l.devices : NetOf(e.ip) = n}}]

LEMMA ZoneFacts ==
    ASSUME NEW l, PlanOK(l), NEW z \in ZoneTargets(l)
    PROVE  /\ z.net \in l.zones /\ z.net \in PlanNets /\ z.net \in Nat /\ z = ZoneAt(l, z.net)
           /\ z.reserved \in SUBSET UsedIPs(l) /\ z.reserved \in SUBSET Nat
           /\ z.reserved # {} /\ Cardinality(z.reserved) \in Nat
<1>1. PICK n \in l.zones : z = ZoneAt(l, n)
  BY DEF ZoneTargets, ZoneAt
<1>2. z.net = n /\ z.reserved = {d.ip : d \in {e \in l.devices : NetOf(e.ip) = n}}
  BY <1>1 DEF ZoneAt
<1>3. n \in PlanNets /\ n \in Nat
  BY LimitsAssumption DEF PlanOK, PlanShape
<1>4. z.reserved \in SUBSET UsedIPs(l)
  BY <1>2, UsedAre
<1>5. PICK d \in l.devices : NetOf(d.ip) = n
  BY DEF PlanOK, PlanShape
<1>6. z.reserved # {}
  BY <1>2, <1>5
<1>7. UsedIPs(l) \in SUBSET Nat /\ IsFiniteSet(UsedIPs(l))
  BY UsedCount
<1>8. Cardinality(z.reserved) \in Nat
  BY <1>4, <1>7, FS_Subset, FS_CardinalityType
<1>9. QED
  BY <1>1, <1>2, <1>3, <1>4, <1>6, <1>7, <1>8

LEMMA ZonesFacts ==
    ASSUME NEW l, PlanOK(l)
    PROVE  /\ IsFiniteSet(ZoneTargets(l))
           /\ l.zones # {} => ZoneTargets(l) # {}
           /\ UNION {z.reserved : z \in ZoneTargets(l)} = {d.ip : d \in l.devices}
<1> DEFINE Z == [n \in l.zones |-> ZoneAt(l, n)]
<1>1. ZoneTargets(l) = {Z[n] : n \in l.zones}
  BY DEF ZoneTargets, ZoneAt
<1>2. DOMAIN Z = l.zones /\ IsFiniteSet(l.zones)
  BY DEF PlanOK, PlanShape
<1>3. \A n \in l.zones : Z[n].reserved = {d.ip : d \in {e \in l.devices : NetOf(e.ip) = n}}
  BY DEF ZoneAt
<1> HIDE DEF Z
<1>4. IsFiniteSet(ZoneTargets(l))
  BY <1>1, <1>2, ImageFinite
<1>5. \A d \in l.devices : NetOf(d.ip) \in l.zones
  BY DEF PlanOK, PlanShape
<1>6. ASSUME NEW d \in l.devices PROVE d.ip \in UNION {z.reserved : z \in ZoneTargets(l)}
  <2>1. d.ip \in Z[NetOf(d.ip)].reserved
    BY <1>3, <1>5
  <2>2. Z[NetOf(d.ip)] \in ZoneTargets(l)
    BY <1>1, <1>5
  <2>3. QED
    BY <2>1, <2>2
<1>7. ASSUME NEW z \in ZoneTargets(l) PROVE z.reserved \subseteq {d.ip : d \in l.devices}
  BY <1>1, <1>3
<1>8. QED
  BY <1>1, <1>4, <1>6, <1>7

\* The tiebreak leaves one zone before every other.
LEMMA ZoneRanked ==
    ASSUME NEW c \in Captures, NEW g, g.net \in AllNets(c),
           NEW l, PlanOK(l), l.zones # {}
    PROVE  RankFirst(g, ZoneTargets(l)) \in ZoneTargets(l)
<1> DEFINE S == ZoneTargets(l)
           R == {p \in S \X S : Better(g, p[1], p[2])}
           Tied(z) == Tie(g.net, z.net)
<1>1. \A z \in S : Score(g, z) \in Int
  BY L3ConfigAssumption DEF Score
<1>2. \A z \in S : ZoneRoom(z) \in Int
  BY ZoneFacts, SizeAssumption DEF ZoneRoom
<1>3. \A z \in S : Tied(z) \in Int
  BY ZoneFacts, TieAssumption DEF AllNets
<1>4. \A y, z \in S : Tied(y) = Tied(z) => y = z
  <2> SUFFICES ASSUME NEW y \in S, NEW z \in S, Tied(y) = Tied(z) PROVE y = z
    OBVIOUS
  <2>1. y.net \in PlanNets /\ z.net \in PlanNets /\ y = ZoneAt(l, y.net) /\ z = ZoneAt(l, z.net)
    BY ZoneFacts
  <2>2. y.net = z.net
    BY <2>1, TieAssumption DEF AllNets
  <2>3. QED
    BY <2>1, <2>2
<1>5. \A y, z \in S : <<y, z>> \in R <=> Better(g, y, z)
  OBVIOUS
<1>6. \A y, z \in S : Better(g, y, z) <=>
        \/ Score(g, y) > Score(g, z)
        \/ Score(g, y) = Score(g, z) /\ ZoneRoom(y) > ZoneRoom(z)
        \/ Score(g, y) = Score(g, z) /\ ZoneRoom(y) = ZoneRoom(z) /\ Tied(y) < Tied(z)
  BY DEF Better
<1>7. IsFiniteSet(S) /\ S # {}
  BY ZonesFacts
<1>11. RankFirst(g, S) = CHOOSE z \in S : \A y \in S \ {z} : Better(g, z, y)
  BY DEF RankFirst
<1> HIDE DEF S, R, Tied
<1>8. IsStrictOrder(S, R)
  <2>1. \A x \in S : <<x, x>> \notin R
    BY <1>1, <1>2, <1>3, <1>5, <1>6
  <2>2. \A x, y, z \in S : <<x, y>> \in R /\ <<y, z>> \in R => <<x, z>> \in R
    BY <1>1, <1>2, <1>3, <1>5, <1>6
  <2>3. \A x, y \in S : x # y => <<x, y>> \in R \/ <<y, x>> \in R
    BY <1>1, <1>2, <1>3, <1>4, <1>5, <1>6
  <2>4. QED
    BY <2>1, <2>2, <2>3 DEF IsStrictOrder
<1>9. PICK z \in S : RankOf(S, R, z) = 0
  <2>1. IsRanked(S, R)
    BY <1>7, <1>8, Ranked
  <2>2. Cardinality(S) \in Nat /\ Cardinality(S) # 0
    BY <1>7, FS_EmptySet, FS_CardinalityType
  <2>3. 1 \in 1..Cardinality(S)
    BY <2>2
  <2>4. QED
    BY <2>1, <2>3 DEF IsRanked
<1>10. \A y \in S \ {z} : Better(g, z, y)
  <2>1. {y \in S : <<y, z>> \in R} = {}
    <3>1. IsFiniteSet({y \in S : <<y, z>> \in R})
      BY <1>7, FS_Subset
    <3>2. Cardinality({y \in S : <<y, z>> \in R}) = 0
      BY <1>9 DEF RankOf
    <3>3. QED
      BY <3>1, <3>2, FS_EmptySet
  <2>2. QED
    BY <1>5, <1>8, <2>1 DEF IsStrictOrder
<1>12. QED
  BY <1>9, <1>10, <1>11 DEF S

LEMMA Rides ==
    ASSUME NEW l, PlanOK(l), NEW zones, NEW z \in ZoneTargets(l)
    PROVE  \E ip \in UsedIPs(l) : RideTargets(zones, z) = {ip} /\ MinOf(RideTargets(zones, z)) = ip
<1>1. z.reserved \in SUBSET UsedIPs(l) /\ z.reserved \in SUBSET Nat /\ z.reserved # {}
  BY ZoneFacts
<1>2. MinOf(z.reserved) \in z.reserved
  BY <1>1, LeastIn
<1>3. RideTargets(zones, z) = {MinOf(z.reserved)}
  BY <1>1 DEF RideTargets
<1>4. RideTargets(zones, z) \in SUBSET Nat /\ RideTargets(zones, z) # {}
  BY <1>1, <1>2, <1>3
<1>5. MinOf(RideTargets(zones, z)) = MinOf(z.reserved)
  BY <1>3, <1>4, LeastIn
<1>6. QED
  BY <1>1, <1>2, <1>3, <1>5

LEMMA PlacesAre ==
    ASSUME NEW n \in Nat, NEW taken, NEW host
    PROVE  \A ip \in Places(n, taken, host) :
             /\ ip \in HostsIn(n) /\ ip \notin taken
             /\ MinOf(Places(n, taken, host)) = ip
<1> DEFINE free == HostsIn(n) \ taken
           want == n * Size + OffsetOf(host)
           P == Places(n, taken, host)
<1>1. free \in SUBSET Nat
  BY NetOfPlace
<1>2. P = IF want \in free THEN {want} ELSE IF free = {} THEN {} ELSE {MinOf(free)}
  BY DEF Places
<1>3. free # {} => MinOf(free) \in free
  <2> HIDE DEF free
  <2>1. QED
    BY <1>1, LeastIn
<1> HIDE DEF want, P
<1>4. P = {} \/ \E ip \in free : P = {ip}
  <2> HIDE DEF free
  <2>1. QED
    BY <1>2, <1>3
<1>5. ASSUME NEW ip \in P PROVE ip \in free /\ MinOf(P) = ip
  <2> HIDE DEF free
  <2>1. P = {ip} /\ ip \in free
    BY <1>4, <1>5
  <2>2. P \in SUBSET Nat /\ P # {}
    BY <1>1, <2>1
  <2>3. MinOf(P) \in P
    BY <2>2, LeastIn
  <2>4. QED
    BY <2>1, <2>3
<1>6. QED
  BY <1>5 DEF P

-----------------------------------------------------------------------------
(* The groups.                                                             *)

LEMMA GroupsAre ==
    ASSUME NEW cap, NEW groups \in GroupSets(cap)
    PROVE  /\ \A g \in groups : /\ g.net \in NetsOf(cap)
                                /\ g.hosts = {a \in HostsOf(cap) : NetOf(a) = g.net}
           /\ \A n \in NetsOf(cap) : \E g \in groups : g.net = n
<1> DEFINE G(v, p, n) ==
              [net |-> n, vendor |-> v[n], protocol |-> p[n], level |-> InferLevel(v[n]),
               hosts |-> {a \in HostsOf(cap) : NetOf(a) = n}]
<1>1. PICK v, p : groups = {G(v, p, n) : n \in NetsOf(cap)}
  <2> DEFINE nets == NetsOf(cap)
             V == {f \in [nets -> UNION {VendorsOf(cap, n) : n \in nets}] :
                     \A n \in nets : f[n] \in VendorsOf(cap, n)}
             P == {f \in [nets -> UNION {ProtocolsOf(cap, n) : n \in nets}] :
                     \A n \in nets : f[n] \in ProtocolsOf(cap, n)}
  <2>1. GroupSets(cap) = {{G(v, p, n) : n \in nets} : v \in V, p \in P}
    BY DEF GroupSets
  <2> HIDE DEF V, P, G, nets
  <2>2. \E v \in V, p \in P : groups = {G(v, p, n) : n \in nets}
    BY <2>1
  <2>3. QED
    BY <2>2 DEF nets
<1>2. \A n : G(v, p, n).net = n /\ G(v, p, n).hosts = {a \in HostsOf(cap) : NetOf(a) = n}
  OBVIOUS
<1> HIDE DEF G
<1>3. QED
  BY <1>1, <1>2

LEMMA GroupOf ==
    ASSUME NEW cap, NEW groups \in GroupSets(cap)
    PROVE  /\ UNION {g.hosts : g \in groups} = HostsOf(cap)
           /\ \A a \in HostsOf(cap) :
                (CHOOSE g \in groups : a \in g.hosts).net \in NetsOf(cap)
<1>1. \A g \in groups : /\ g.net \in NetsOf(cap)
                        /\ g.hosts = {a \in HostsOf(cap) : NetOf(a) = g.net}
  BY GroupsAre
<1>2. ASSUME NEW a \in HostsOf(cap) PROVE \E g \in groups : a \in g.hosts
  <2>1. NetOf(a) \in NetsOf(cap)
    BY DEF NetsOf
  <2>2. PICK g \in groups : g.net = NetOf(a)
    BY <2>1, GroupsAre
  <2>3. QED
    BY <1>1, <2>2
<1>3. ASSUME NEW a \in HostsOf(cap)
      PROVE  (CHOOSE g \in groups : a \in g.hosts).net \in NetsOf(cap)
  <2>1. (CHOOSE g \in groups : a \in g.hosts) \in groups
    BY <1>2
  <2>2. QED
    BY <1>1, <2>1
<1>4. QED
  BY <1>1, <1>2, <1>3

LEMMA RegisteredAre ==
    ASSUME NEW l, PlanOK(l)
    PROVE  /\ DOMAIN RegisteredOrigins(l) = {h.origin : h \in l.hosts}
           /\ {RegisteredOrigins(l)[o] : o \in DOMAIN RegisteredOrigins(l)} = {h.ip : h \in l.hosts}
<1> DEFINE R == RegisteredOrigins(l)
           At(o) == CHOOSE h \in l.hosts : h.origin = o
<1>1. DOMAIN R = {h.origin : h \in l.hosts} /\ \A o \in DOMAIN R : R[o] = At(o).ip
  BY DEF RegisteredOrigins
<1>2. ASSUME NEW h \in l.hosts PROVE At(h.origin) = h
  <2>1. At(h.origin) \in l.hosts /\ At(h.origin).origin = h.origin
    OBVIOUS
  <2> HIDE DEF At
  <2>2. QED
    BY <2>1 DEF PlanOK, PlanDistinct
<1> HIDE DEF R, At
<1>3. QED
  BY <1>1, <1>2 DEF R

-----------------------------------------------------------------------------
(* The assignment of one host.                                             *)

AccShape(acc) ==
    acc = [groups |-> acc.groups, zones |-> acc.zones, registered |-> acc.registered,
           map |-> acc.map, new |-> acc.new, salted |-> acc.salted, budget |-> acc.budget,
           used |-> acc.used, taken |-> acc.taken]
SameLimits(a, b) ==
    b.groups = a.groups /\ b.zones = a.zones /\ b.registered = a.registered
SameAssets(a, b) ==
    b.new = a.new /\ b.budget = a.budget /\ b.used = a.used /\ b.taken = a.taken
MapIs(m, map, host, ip) ==
    /\ DOMAIN m = DOMAIN map \cup {host} /\ m[host] = ip
    /\ \A h \in DOMAIN map \ {host} : m[h] = map[h]
MapsTo(a, b, host, ip) == MapIs(b.map, a.map, host, ip)
AddsAsset(a, b, host, ip, mac) ==
    /\ b.new = Append(a.new, [origin |-> host, ip |-> ip, mac |-> mac])
    /\ b.budget = a.budget - 1 /\ b.used = a.used \cup {mac} /\ b.taken = a.taken \cup {ip}

LEMMA MapAdds ==
    ASSUME NEW map, NEW host, NEW ip
    PROVE  MapIs(With(map, host, ip), map, host, ip)
  BY DEF With, MapIs

ZoneOf(a, host) == RankFirst(CHOOSE g \in a.groups : host \in g.hosts, a.zones)

\* A host goes to its asset, or to a new one, or rides on a device of its zone.
LEMMA AssignCases ==
    ASSUME NEW a, AccShape(a), NEW host, NEW n \in Nat, NEW ride,
           ZoneOf(a, host).net = n, RideTargets(a.zones, ZoneOf(a, host)) = {ride},
           MinOf(RideTargets(a.zones, ZoneOf(a, host))) = ride,
           NEW b, b = Assign(a, host)
    PROVE  /\ AccShape(b) /\ SameLimits(a, b)
           /\ \/ /\ host \in DOMAIN a.registered /\ SameAssets(a, b)
                 /\ MapsTo(a, b, host, a.registered[host])
              \/ \E ip \in HostsIn(n) \ a.taken :
                   /\ host \notin DOMAIN a.registered /\ a.budget > 0
                   /\ AddsAsset(a, b, host, ip, HostMac(ip, SaltFor(ip, a.used)))
                   /\ MapsTo(a, b, host, ip)
              \/ SameAssets(a, b) /\ MapsTo(a, b, host, ride)
<1> DEFINE z == ZoneOf(a, host)
           places == IF a.budget > 0 THEN Places(z.net, a.taken, host) ELSE {}
           rides == RideTargets(a.zones, z)
           ip == MinOf(places)
           salt == SaltFor(ip, a.used)
           mac == HostMac(ip, salt)
           asset == [origin |-> host, ip |-> ip, mac |-> mac]
           ToAsset == [a EXCEPT !.map = With(@, host, a.registered[host])]
           ToNew == [a EXCEPT !.map = With(@, host, ip),
                              !.taken = @ \cup {ip},
                              !.used = @ \cup {mac},
                              !.salted = IF salt = 0 THEN @ ELSE With(@, ip, mac),
                              !.new = Append(@, asset),
                              !.budget = @ - 1]
           ToRide == [a EXCEPT !.map = With(@, host, MinOf(rides))]
<1>1. b = IF host \in DOMAIN a.registered THEN ToAsset
          ELSE IF places # {} THEN ToNew ELSE IF rides # {} THEN ToRide ELSE a
  BY Zenon DEF Assign, ZoneOf
<1>2. rides = {ride} /\ MinOf(rides) = ride
  OBVIOUS
<1>3. places # {} => a.budget > 0 /\ ip \in HostsIn(n) /\ ip \notin a.taken
  <2>1. \A p \in Places(n, a.taken, host) :
           p \in HostsIn(n) /\ p \notin a.taken /\ MinOf(Places(n, a.taken, host)) = p
    BY PlacesAre
  <2>2. QED
    BY <2>1
<1> HIDE DEF places, rides
<1>4. CASE host \in DOMAIN a.registered
  <2> DEFINE m == With(a.map, host, a.registered[host])
  <2>1. b = [a EXCEPT !.map = m]
    BY <1>1, <1>4
  <2>2. MapIs(m, a.map, host, a.registered[host])
    BY MapAdds
  <2> HIDE DEF m
  <2>3. b.map = m /\ AccShape(b) /\ SameLimits(a, b) /\ SameAssets(a, b)
    BY <2>1 DEF AccShape, SameLimits, SameAssets
  <2>4. QED
    BY <1>4, <2>2, <2>3 DEF MapsTo
<1>5. CASE host \notin DOMAIN a.registered /\ places # {}
  <2> DEFINE m == With(a.map, host, ip)
             s == IF salt = 0 THEN a.salted ELSE With(a.salted, ip, mac)
  <2>1. b = [a EXCEPT !.map = m, !.taken = @ \cup {ip}, !.used = @ \cup {mac},
                      !.salted = s, !.new = Append(@, asset), !.budget = @ - 1]
    BY <1>1, <1>5
  <2>2. MapIs(m, a.map, host, ip)
    BY MapAdds
  <2>3. mac = HostMac(ip, SaltFor(ip, a.used))
    OBVIOUS
  <2> HIDE DEF m, s, ip, salt, mac
  <2>4. b.map = m /\ AccShape(b) /\ SameLimits(a, b) /\ AddsAsset(a, b, host, ip, mac)
    BY <2>1 DEF AccShape, SameLimits, AddsAsset
  <2>5. MapsTo(a, b, host, ip)
    BY <2>2, <2>4 DEF MapsTo
  <2>6. QED
    BY <1>3, <1>5, <2>3, <2>4, <2>5
<1>6. CASE host \notin DOMAIN a.registered /\ places = {}
  <2> DEFINE m == With(a.map, host, ride)
  <2>1. b = [a EXCEPT !.map = m]
    BY <1>1, <1>2, <1>6
  <2>2. MapIs(m, a.map, host, ride)
    BY MapAdds
  <2> HIDE DEF m
  <2>3. b.map = m /\ AccShape(b) /\ SameLimits(a, b) /\ SameAssets(a, b)
    BY <2>1 DEF AccShape, SameLimits, SameAssets
  <2>4. QED
    BY <2>2, <2>3 DEF MapsTo
<1>7. QED
  BY <1>4, <1>5, <1>6

-----------------------------------------------------------------------------
(* The assignment of all hosts.                                            *)

\* What is the same for every host of a capture: c's, with the plan l.
Remapping(c, cap, groups, l) ==
    /\ PlanOK(l) /\ l.zones # {} /\ groups \in GroupSets(cap)
    /\ c \in Captures /\ NetsOf(cap) \subseteq AllNets(c)

\* acc, when the hosts in done have been assigned and room new assets were allowed.
AccNew(l, room, done, acc) ==
    /\ IsSeq(acc.new) /\ acc.budget \in Nat /\ Len(acc.new) + acc.budget = room
    /\ \A i \in 1..Len(acc.new) : /\ Fresh(l, acc.new[i]) /\ acc.new[i].origin \in done
                                  /\ acc.new[i].ip \in acc.taken /\ acc.new[i].mac \in acc.used
    /\ \A i, j \in 1..Len(acc.new) : i # j => Unlike(acc.new[i], acc.new[j])
AccUsed(l, acc) ==
    /\ UsedIPs(l) \subseteq acc.taken /\ UsedMacs(l) \subseteq acc.used
    /\ IsFiniteSet(acc.used) /\ Cardinality(acc.used) + acc.budget <= AssetCap + MaxDevices
AccMap(l, done, acc) ==
    /\ done \subseteq DOMAIN acc.map
    /\ \A h \in DOMAIN acc.map :
         acc.map[h] \in UsedIPs(l) \cup {acc.new[i].ip : i \in 1..Len(acc.new)}
AccInv(l, groups, room, done, acc) ==
    /\ AccShape(acc) /\ acc.groups = groups /\ acc.zones = ZoneTargets(l)
    /\ acc.registered = RegisteredOrigins(l)
    /\ AccNew(l, room, done, acc) /\ AccUsed(l, acc) /\ AccMap(l, done, acc)

LEMMA AssignKeeps ==
    ASSUME NEW c, NEW cap, NEW groups, NEW l, Remapping(c, cap, groups, l),
           NEW room, NEW done, NEW a, AccInv(l, groups, room, done, a),
           NEW host \in HostsOf(cap), host \notin done
    PROVE  AccInv(l, groups, room, done \cup {host}, Assign(a, host))
<1> DEFINE b == Assign(a, host)
           z == ZoneOf(a, host)
           n == z.net
<1>1. PlanOK(l) /\ l.zones # {} /\ c \in Captures
  BY DEF Remapping
<1>2. /\ AccShape(a) /\ a.groups = groups /\ a.zones = ZoneTargets(l)
      /\ a.registered = RegisteredOrigins(l)
  BY DEF AccInv
<1>3. z \in ZoneTargets(l)
  <2> DEFINE g == CHOOSE g \in groups : host \in g.hosts
  <2>1. g.net \in AllNets(c)
    BY GroupOf DEF Remapping
  <2>2. z = RankFirst(g, ZoneTargets(l))
    BY <1>2, Zenon DEF ZoneOf
  <2> HIDE DEF g, z
  <2>3. QED
    BY <1>1, <2>1, <2>2, ZoneRanked
<1>4. n \in Nat /\ n \in PlanNets
  BY <1>1, <1>3, ZoneFacts
<1>5. PICK ride \in UsedIPs(l) : RideTargets(a.zones, z) = {ride} /\ MinOf(RideTargets(a.zones, z)) = ride
  BY <1>1, <1>3, Rides
<1>6. /\ AccShape(b) /\ SameLimits(a, b)
      /\ \/ /\ host \in DOMAIN a.registered /\ SameAssets(a, b)
            /\ MapsTo(a, b, host, a.registered[host])
         \/ \E ip \in HostsIn(n) \ a.taken :
              /\ host \notin DOMAIN a.registered /\ a.budget > 0
              /\ AddsAsset(a, b, host, ip, HostMac(ip, SaltFor(ip, a.used)))
              /\ MapsTo(a, b, host, ip)
         \/ SameAssets(a, b) /\ MapsTo(a, b, host, ride)
  BY <1>2, <1>4, <1>5, AssignCases
<1>7. /\ AccShape(b) /\ b.groups = groups /\ b.zones = ZoneTargets(l)
      /\ b.registered = RegisteredOrigins(l)
  BY <1>2, <1>6 DEF SameLimits
<1> HIDE DEF b, z, n
\* A host that is given an address of the plan.
<1>8. ASSUME SameAssets(a, b), NEW ip \in UsedIPs(l), MapsTo(a, b, host, ip)
      PROVE  AccInv(l, groups, room, done \cup {host}, b)
  <2>1. b.new = a.new /\ b.budget = a.budget /\ b.used = a.used /\ b.taken = a.taken
    BY <1>8 DEF SameAssets
  <2>2. AccNew(l, room, done \cup {host}, b)
    BY <2>1 DEF AccInv, AccNew
  <2>3. AccUsed(l, b)
    BY <2>1 DEF AccInv, AccUsed
  <2>4. AccMap(l, done \cup {host}, b)
    BY <1>8, <2>1 DEF AccInv, AccMap, MapsTo, MapIs
  <2>5. QED
    BY <1>7, <2>2, <2>3, <2>4 DEF AccInv
<1>9. ASSUME host \in DOMAIN a.registered, SameAssets(a, b),
             MapsTo(a, b, host, a.registered[host])
      PROVE  AccInv(l, groups, room, done \cup {host}, b)
  <2>1. a.registered[host] \in UsedIPs(l)
    <3> DEFINE R == RegisteredOrigins(l)
    <3>1. {R[o] : o \in DOMAIN R} = {h.ip : h \in l.hosts}
      BY <1>1, RegisteredAre
    <3>2. host \in DOMAIN R /\ a.registered[host] = R[host]
      BY <1>2, <1>9
    <3> HIDE DEF R
    <3>3. R[host] \in {h.ip : h \in l.hosts}
      BY <3>1, <3>2
    <3>4. QED
      BY <3>2, <3>3, UsedAre
  <2>2. QED
    BY <1>8, <1>9, <2>1
<1>10. ASSUME NEW ip \in HostsIn(n) \ a.taken, host \notin DOMAIN a.registered, a.budget > 0,
              AddsAsset(a, b, host, ip, HostMac(ip, SaltFor(ip, a.used))), MapsTo(a, b, host, ip)
       PROVE  AccInv(l, groups, room, done \cup {host}, b)
  <2> DEFINE mac == HostMac(ip, SaltFor(ip, a.used))
             x == [origin |-> host, ip |-> ip, mac |-> mac]
  <2>1. /\ IsSeq(a.new) /\ a.budget \in Nat /\ Len(a.new) + a.budget = room
        /\ IsFiniteSet(a.used) /\ Cardinality(a.used) + a.budget <= AssetCap + MaxDevices
        /\ UsedIPs(l) \subseteq a.taken /\ UsedMacs(l) \subseteq a.used
    BY DEF AccInv, AccNew, AccUsed
  <2>2. Cardinality(a.used) \in Nat /\ AssetCap \in Nat /\ MaxDevices \in Nat
    BY <2>1, FS_CardinalityType, LimitsAssumption
  <2>3. mac \notin a.used
    <3> DEFINE f == [s \in 0..MaxSalt |-> HostMac(ip, s)]
               free == {s \in 0..MaxSalt : HostMac(ip, s) \notin a.used}
    <3>1. Cardinality({f[s] : s \in 0..MaxSalt}) > AssetCap + MaxDevices
      <4>1. {f[s] : s \in 0..MaxSalt} = {HostMac(ip, s) : s \in 0..MaxSalt}
        OBVIOUS
      <4>2. ip \in UNION {HostsIn(k) : k \in PlanNets}
        BY <1>4
      <4>3. Cardinality({HostMac(ip, s) : s \in 0..MaxSalt}) > AssetCap + MaxDevices
        BY <4>2, SaltAssumption
      <4>4. QED
        BY <4>1, <4>3
    <3>2. Cardinality(a.used) <= AssetCap + MaxDevices
      BY <2>1, <2>2
    <3>3. \E s \in 0..MaxSalt : f[s] \notin a.used
      <4>1. DOMAIN f = 0..MaxSalt
        OBVIOUS
      <4> HIDE DEF f
      <4>2. QED
        BY <2>1, <3>1, <3>2, <4>1, SaltFound
    <3>4. free # {} /\ free \in SUBSET Nat
      BY <3>3
    <3>5. SaltFor(ip, a.used) = MinOf(free)
      BY DEF SaltFor
    <3>6. SaltFor(ip, a.used) \in free
      <4> HIDE DEF free
      <4>1. QED
        BY <3>4, <3>5, LeastIn
    <3>7. QED
      BY <3>6
  <2>4. Fresh(l, x)
    <3>1. ip \in Nat
      BY <1>4, NetOfPlace
    <3>2. x.ip = ip /\ x.mac = mac /\ x.origin = host
      OBVIOUS
    <3>3. IsMapped(x)
      BY <3>1 DEF IsMapped
    <3>4. \A h \in l.hosts : h.origin # host
      BY ZenonT(20), <1>1, <1>2, <1>10, RegisteredAre
    <3> HIDE DEF mac, x
    <3>5. QED
      BY <1>10, <2>1, <2>3, <3>2, <3>3, <3>4 DEF Fresh
  <2>5. x.ip = ip /\ x.mac = mac /\ x.origin = host
    OBVIOUS
  <2>6. /\ b.new = Append(a.new, x) /\ b.budget = a.budget - 1
        /\ b.used = a.used \cup {mac} /\ b.taken = a.taken \cup {ip}
    BY <1>10 DEF AddsAsset
  <2> HIDE DEF mac, x
  <2>7. /\ IsSeq(b.new) /\ Len(b.new) = Len(a.new) + 1 /\ Len(a.new) \in Nat
        /\ b.new[Len(a.new) + 1] = x
        /\ \A i \in 1..Len(a.new) : b.new[i] = a.new[i]
    BY <2>1, <2>6, AppendIsSeq
  <2> DEFINE k == Len(a.new)
  <2> HIDE DEF k
  <2>8. /\ \A i \in 1..k : /\ Fresh(l, a.new[i]) /\ a.new[i].origin \in done
                           /\ a.new[i].ip \in a.taken /\ a.new[i].mac \in a.used
        /\ \A i, j \in 1..k : i # j => Unlike(a.new[i], a.new[j])
    BY DEF AccInv, AccNew, k
  <2>9. /\ k \in Nat /\ Len(b.new) = k + 1 /\ b.new[k + 1] = x
        /\ \A i \in 1..k : b.new[i] = a.new[i]
    BY <2>7 DEF k
  <2>10. AccNew(l, room, done \cup {host}, b)
    <3>1. IsSeq(b.new) /\ b.budget \in Nat /\ Len(b.new) + b.budget = room
      <4>1. k + a.budget = room
        BY <2>1 DEF k
      <4>2. a.budget \in Nat /\ a.budget > 0 /\ b.budget = a.budget - 1
        BY <1>10, <2>1, <2>6
      <4>3. b.budget \in Nat /\ (k + 1) + b.budget = room
        BY SMTT(20), <2>9, <4>1, <4>2
      <4>4. QED
        BY <2>7, <2>9, <4>3
    <3>2. ASSUME NEW i \in 1..(k + 1)
          PROVE  /\ Fresh(l, b.new[i]) /\ b.new[i].origin \in done \cup {host}
                 /\ b.new[i].ip \in b.taken /\ b.new[i].mac \in b.used
      <4>1. CASE i \in 1..k
        BY <2>6, <2>8, <2>9, <4>1
      <4>2. CASE i = k + 1
        BY <2>4, <2>5, <2>6, <2>9, <4>2
      <4>3. QED
        BY <2>9, <4>1, <4>2
    <3>3. ASSUME NEW i \in 1..k PROVE Unlike(a.new[i], x) /\ Unlike(x, a.new[i])
      <4>1. a.new[i].origin # host /\ a.new[i].ip # ip /\ a.new[i].mac # mac
        BY <1>10, <2>3, <2>8
      <4>2. QED
        BY <2>5, <4>1 DEF Unlike
    <3>4. ASSUME NEW i \in 1..(k + 1), NEW j \in 1..(k + 1), i # j
          PROVE  Unlike(b.new[i], b.new[j])
      <4>1. CASE i \in 1..k /\ j \in 1..k
        BY <2>8, <2>9, <3>4, <4>1
      <4>2. CASE i \in 1..k /\ j = k + 1
        BY <2>9, <3>3, <4>2
      <4>3. CASE i = k + 1 /\ j \in 1..k
        BY <2>9, <3>3, <4>3
      <4>4. QED
        BY <2>9, <3>4, <4>1, <4>2, <4>3
    <3>5. QED
      BY <2>9, <3>1, <3>2, <3>4 DEF AccNew
  <2>11. AccUsed(l, b)
    <3>1. IsFiniteSet(b.used) /\ Cardinality(b.used) = Cardinality(a.used) + 1
      BY <2>1, <2>3, <2>6, FS_AddElement
    <3>2. Cardinality(b.used) + b.budget <= AssetCap + MaxDevices
      BY <2>1, <2>2, <2>6, <3>1
    <3>3. QED
      BY <2>1, <2>6, <3>1, <3>2 DEF AccUsed
  <2>12. AccMap(l, done \cup {host}, b)
    <3>1. /\ DOMAIN b.map = DOMAIN a.map \cup {host} /\ b.map[host] = ip
          /\ \A h \in DOMAIN a.map \ {host} : b.map[h] = a.map[h]
      BY <1>10 DEF MapsTo, MapIs
    <3>2. done \subseteq DOMAIN a.map
      BY DEF AccInv, AccMap
    <3>3. \A h \in DOMAIN a.map : a.map[h] \in UsedIPs(l) \cup {a.new[i].ip : i \in 1..k}
      BY DEF AccInv, AccMap, k
    <3>4. {a.new[i].ip : i \in 1..k} \subseteq {b.new[i].ip : i \in 1..(k + 1)}
      <4>1. \A i \in 1..k : i \in 1..(k + 1) /\ a.new[i].ip = b.new[i].ip
        BY <2>9
      <4>2. QED
        BY <4>1
    <3>5. ip \in {b.new[i].ip : i \in 1..(k + 1)}
      <4>1. k + 1 \in 1..(k + 1) /\ b.new[k + 1].ip = ip
        BY <2>5, <2>9
      <4>2. QED
        BY <4>1
    <3>6. \A h \in DOMAIN b.map : b.map[h] \in UsedIPs(l) \cup {b.new[i].ip : i \in 1..(k + 1)}
      BY <3>1, <3>3, <3>4, <3>5
    <3>7. QED
      BY <2>9, <3>1, <3>2, <3>6 DEF AccMap
  <2>13. QED
    BY <1>7, <2>10, <2>11, <2>12 DEF AccInv
<1>11. ASSUME SameAssets(a, b), MapsTo(a, b, host, ride)
       PROVE  AccInv(l, groups, room, done \cup {host}, b)
  BY <1>5, <1>8, <1>11
<1>12. AccInv(l, groups, room, done \cup {host}, b)
  BY <1>6, <1>9, <1>10, <1>11
<1>13. QED
  BY <1>12 DEF b

RoomFor(l) == IF WireAssets(l) >= AssetCap THEN 0 ELSE AssetCap - WireAssets(l)
StartOf(groups, l, room) ==
    [groups |-> groups, zones |-> ZoneTargets(l), registered |-> RegisteredOrigins(l),
     map |-> <<>>, new |-> <<>>, salted |-> <<>>, budget |-> room, used |-> UsedMacs(l),
     taken |-> (UNION {z.reserved : z \in ZoneTargets(l)})
                 \cup {RegisteredOrigins(l)[o] : o \in DOMAIN RegisteredOrigins(l)}]

LEMMA StartInv ==
    ASSUME NEW groups, NEW l, PlanOK(l)
    PROVE  AccInv(l, groups, RoomFor(l), {}, StartOf(groups, l, RoomFor(l)))
<1> DEFINE s == StartOf(groups, l, RoomFor(l))
           R == RegisteredOrigins(l)
           room == RoomFor(l)
           Of == UNION {z.reserved : z \in ZoneTargets(l)}
           To == {R[o] : o \in DOMAIN R}
<1>1. s.taken = Of \cup To
  BY DEF StartOf
<1>2. UsedIPs(l) \subseteq s.taken
  <2>1. To = {h.ip : h \in l.hosts}
    BY RegisteredAre
  <2>2. Of = {d.ip : d \in l.devices}
    BY ZonesFacts
  <2> HIDE DEF s, R, To, Of
  <2>3. QED
    BY <1>1, <2>1, <2>2, UsedAre
<1>3. /\ IsFiniteSet(UsedMacs(l)) /\ Cardinality(UsedMacs(l)) = WireAssets(l)
      /\ WireAssets(l) \in Nat /\ WireAssets(l) <= AssetCap + MaxDevices
  BY UsedCount
<1>4. AssetCap \in Nat /\ MaxDevices \in Nat
  BY LimitsAssumption
<1>5. room \in Nat /\ WireAssets(l) + room <= AssetCap + MaxDevices
  BY <1>3, <1>4 DEF RoomFor
<1> HIDE DEF room
<1>6. /\ s.groups = groups /\ s.zones = ZoneTargets(l) /\ s.registered = R
      /\ s.map = <<>> /\ s.new = <<>> /\ s.budget = room /\ s.used = UsedMacs(l)
      /\ AccShape(s)
  BY DEF StartOf, AccShape, room
<1> HIDE DEF s
<1>7. AccNew(l, room, {}, s)
  BY <1>5, <1>6, EmptyIsSeq DEF AccNew
<1>8. AccUsed(l, s)
  BY <1>2, <1>3, <1>5, <1>6 DEF AccUsed
<1>9. AccMap(l, {}, s)
  <2>1. DOMAIN s.map = {}
    BY <1>6
  <2>2. QED
    BY <2>1 DEF AccMap
<1>10. QED
  BY <1>6, <1>7, <1>8, <1>9 DEF AccInv, s, room

Assigning == INSTANCE ListProofs WITH Op <- Assign

LEMMA AssignedAll ==
    ASSUME NEW c, NEW cap, NEW groups, NEW l, Remapping(c, cap, groups, l),
           NEW s, Lists(HostsOf(cap), s),
           NEW end, end = FoldLeft(Assign, StartOf(groups, l, RoomFor(l)), s)
    PROVE  AccInv(l, groups, RoomFor(l), HostsOf(cap), end)
<1> DEFINE H == HostsOf(cap)
           n == Len(s)
           room == RoomFor(l)
           start == StartOf(groups, l, room)
           First(i) == {s[j] : j \in 1..i}
<1>2. /\ s \in Seq(H) /\ n \in Nat /\ ToSet(s) = H /\ H = {s[j] : j \in 1..n}
      /\ \A i, j \in 1..n : s[i] = s[j] => i = j
  <2>1. s \in Seq(H) /\ n \in Nat /\ ToSet(s) = H /\ DOMAIN s = 1..n
        /\ \A i, j \in 1..n : s[i] = s[j] => i = j
    BY LenProperties DEF Lists
  <2>2. QED
    BY <2>1 DEF ToSet
<1>3. PICK v : Assigning!Folded(s, start, v) /\ Assigning!FoldLeft(Assign, start, s) = v[n]
  <2> HIDE DEF H, start
  <2>1. QED
    BY <1>2, Assigning!FoldSteps
<1>4. v[0] = start /\ \A i \in 1..n : v[i] = Assign(v[i - 1], s[i])
  BY <1>3 DEF Assigning!Folded
<1>5. end = v[n]
  <2>1. FoldLeft(Assign, start, s) = Assigning!FoldLeft(Assign, start, s)
    BY DEF FoldLeft, MapThenFoldSet, Max,
           Assigning!FoldLeft, Assigning!MapThenFoldSet, Assigning!Max
  <2>2. QED
    BY <1>3, <2>1
<1>6. AccInv(l, groups, room, {}, start)
  BY StartInv DEF Remapping
<1>11. H = HostsOf(cap)
  OBVIOUS
<1> HIDE DEF H, n, start, room
<1> DEFINE T == {i \in 0..n : AccInv(l, groups, room, First(i), v[i])}
<1>7. 0 \in T
  <2>1. First(0) = {}
    OBVIOUS
  <2> HIDE DEF First
  <2>2. AccInv(l, groups, room, First(0), v[0])
    BY <1>4, <1>6, <2>1, Zenon
  <2>3. QED
    BY <1>2, <2>2
<1>8. ASSUME NEW i \in 0..(n - 1), i \in T PROVE i + 1 \in T
  <2>1. i + 1 \in 1..n /\ i + 1 - 1 = i
    BY <1>2
  <2>2. First(i + 1) = First(i) \cup {s[i + 1]}
    BY <1>2, <2>1
  <2>3. s[i + 1] \in HostsOf(cap)
    BY <1>2, <1>11, <2>1
  <2>4. s[i + 1] \notin First(i)
    <3>1. \A j \in 1..i : j \in 1..n /\ j # i + 1
      BY <1>2, <2>1
    <3>2. QED
      BY <1>2, <2>1, <3>1
  <2>5. AccInv(l, groups, room, First(i), v[i])
    BY <1>8
  <2> HIDE DEF First
  <2>6. AccInv(l, groups, room, First(i) \cup {s[i + 1]}, Assign(v[i], s[i + 1]))
    BY <2>3, <2>4, <2>5, AssignKeeps
  <2>7. v[i + 1] = Assign(v[i], s[i + 1])
    BY <1>4, <2>1
  <2>8. AccInv(l, groups, room, First(i + 1), v[i + 1])
    BY <2>2, <2>6, <2>7, Zenon
  <2>9. i + 1 \in 0..n
    BY <1>2, <2>1
  <2>10. QED
    BY <2>8, <2>9
<1>9. n \in T
  <2> HIDE DEF T
  <2>1. \A i \in 0..n : i \in T
    BY <1>2, <1>7, <1>8, Upward
  <2>2. QED
    BY <1>2, <2>1
<1>10. AccInv(l, groups, room, First(n), v[n])
  BY <1>9
<1>12. First(n) = H
  BY <1>2
<1>13. QED
  BY <1>5, <1>10, <1>12 DEF H, room

\* A remap into the plan moves every host of the capture, to addresses of the plan
\* or of the assets it adds.
MovesAll(r, cap, l, map, macs, new) ==
    /\ r = [new |-> new, map |-> map, frames |-> Cleaned(ApplyHostMap(cap, map, macs), map)]
    /\ HostsOf(cap) \subseteq DOMAIN map /\ IsSeq(new) /\ NewOK(l, new)
    /\ \A h \in DOMAIN map : map[h] \in UsedIPs(l) \cup {new[i].ip : i \in 1..Len(new)}

LEMMA ReconcileFacts ==
    ASSUME NEW c, NEW cap, NEW groups, NEW l, Remapping(c, cap, groups, l),
           HostsOf(cap) \in SUBSET Nat, IsFiniteSet(HostsOf(cap))
    PROVE  \E map, macs, new :
             MovesAll(Reconcile(cap, groups, ZoneTargets(l), RegisteredOrigins(l),
                                DeviceMacMap(l), UsedMacs(l), RoomFor(l)),
                      cap, l, map, macs, new)
<1> DEFINE H == HostsOf(cap)
           order == InOrder(UNION {g.hosts : g \in groups}, <)
           end == FoldLeft(Assign, StartOf(groups, l, RoomFor(l)), order)
           shown == end.salted @@ DeviceMacMap(l)
<1>1. Reconcile(cap, groups, ZoneTargets(l), RegisteredOrigins(l), DeviceMacMap(l),
                UsedMacs(l), RoomFor(l))
        = [new |-> end.new, map |-> end.map,
           frames |-> Cleaned(ApplyHostMap(cap, end.map, shown), end.map)]
  BY Zenon DEF Reconcile, StartOf
<1>2. UNION {g.hosts : g \in groups} = H
  BY GroupOf DEF Remapping
<1>7. Lists(H, order)
  <2>1. H \in SUBSET Int /\ IsFiniteSet(H)
    OBVIOUS
  <2> HIDE DEF H
  <2>2. Lists(H, InOrder(H, <))
    BY <2>1, AscendingLists
  <2>3. QED
    BY <1>2, <2>2, Zenon
<1> HIDE DEF order
<1>3. AccInv(l, groups, RoomFor(l), H, end)
  BY <1>7, AssignedAll
<1> HIDE DEF end, shown
<1>4. /\ H \subseteq DOMAIN end.map /\ IsSeq(end.new)
      /\ \A h \in DOMAIN end.map :
           end.map[h] \in UsedIPs(l) \cup {end.new[i].ip : i \in 1..Len(end.new)}
  BY <1>3 DEF AccInv, AccMap, AccNew
<1>5. NewOK(l, end.new)
  <2>1. /\ end.budget \in Nat /\ Len(end.new) + end.budget = RoomFor(l)
        /\ \A i \in 1..Len(end.new) : Fresh(l, end.new[i])
        /\ \A i, j \in 1..Len(end.new) : i # j => Unlike(end.new[i], end.new[j])
    BY <1>3 DEF AccInv, AccNew
  <2>2. Len(end.new) \in Nat
    BY <1>4, SeqFacts
  <2>3. WireAssets(l) \in Nat /\ AssetCap \in Nat
    BY UsedCount, LimitsAssumption DEF Remapping
  <2>4. Len(end.new) = 0 \/ WireAssets(l) + Len(end.new) <= AssetCap
    BY <2>1, <2>2, <2>3 DEF RoomFor
  <2>5. QED
    BY <2>1, <2>4 DEF NewOK
<1>6. MovesAll(Reconcile(cap, groups, ZoneTargets(l), RegisteredOrigins(l), DeviceMacMap(l),
                         UsedMacs(l), RoomFor(l)),
               cap, l, end.map, shown, end.new)
  BY <1>1, <1>4, <1>5 DEF MovesAll
<1>8. QED
  BY <1>6, Zenon

-----------------------------------------------------------------------------
(* What a remap gives.                                                     *)

\* No frame shows one of the hosts; every frame is between assets of the plan.
Hide(frames, hosts) ==
    \A f \in ToSet(frames) : ({f.src, f.dst} \cup f.leaks) \cap hosts = {}
InPlan(frames, l) ==
    \A f \in ToSet(frames) : f.src \in UsedIPs(l) /\ (IsHost(f.dst) => f.dst \in UsedIPs(l))

Clean(frames, map, hosts) ==
    /\ IsSeq(frames) /\ Hide(frames, hosts)
    /\ \A f \in ToSet(frames) : Coherent(f, {map[a] : a \in DOMAIN map})

LEMMA CleanFrames ==
    ASSUME NEW cap, IsSeq(cap), NEW map, NEW macs, NEW hosts, hosts \subseteq DOMAIN map
    PROVE  Clean(Thinned(Cleaned(ApplyHostMap(cap, map, macs), map)), map, hosts)
<1> DEFINE p == ApplyHostMap(cap, map, macs)
           q == Cleaned(p, map)
           V == {map[a] : a \in DOMAIN map}
<1>1. IsSeq(p)
  BY AppliedFacts
<1> HIDE DEF p
<1>2. IsSeq(q) /\ \A f \in ToSet(q) : Coherent(f, V) /\ ~Leaks(f, DOMAIN map)
  BY <1>1, CleanedFacts
<1> HIDE DEF q
<1>3. IsSeq(Thinned(q)) /\ ToSet(Thinned(q)) \subseteq ToSet(q)
  BY <1>2, ThinnedFacts
<1>4. Hide(Thinned(q), hosts)
  BY <1>2, <1>3 DEF Hide, Leaks
<1>5. \A f \in ToSet(Thinned(q)) : Coherent(f, V)
  BY <1>2, <1>3
<1>6. QED
  BY <1>3, <1>4, <1>5 DEF Clean, q, p

\* A remap shows no host of its capture, and what it adds to the plan is all it shows.
RemapOK(cap, l, r, m) ==
    /\ PlanOK(m) /\ Extends(l, m) /\ IsSeq(r.frames) /\ Hide(r.frames, HostsOf(cap))
    /\ r.made = "plan" => InPlan(r.frames, m)

LEMMA RemapsPlan ==
    ASSUME SourceInv, forge = Off, PlanOK(ledger), NEW c \in Captures, NEW r \in Remaps(c)
    PROVE  RemapOK(source[c], ledger, r, FoldLeft(Register, ledger, r.new))
<1> DEFINE cap == source[c]
           m == FoldLeft(Register, ledger, r.new)
<1>1. /\ IsSeq(cap) /\ HostsOf(cap) \in SUBSET Nat /\ IsFiniteSet(HostsOf(cap))
      /\ NetsOf(cap) \subseteq AllNets(c)
  BY HostsAre
<1>2. CASE ledger.zones = {}
  <2>1. PICK fresh : r = [new |-> <<>>, made |-> "random", frames |-> Thinned(RemapCapture(cap, fresh))]
    BY <1>2, Zenon DEF Remaps
  <2>2. r.new = <<>> /\ r.made = "random" /\ r.frames = Thinned(RemapCapture(cap, fresh))
    BY <2>1
  <2>3. IsSeq(<<>>) /\ NewOK(ledger, <<>>)
    <3>1. Len(<<>>) = 0
      BY EmptyIsSeq
    <3>2. QED
      BY <3>1, EmptyIsSeq DEF NewOK
  <2>4. PlanOK(m) /\ Extends(ledger, m)
    <3>1. m = FoldLeft(Register, ledger, <<>>)
      BY <2>2
    <3> HIDE DEF m
    <3>2. QED
      BY <2>3, <3>1, RegisteredAll
  <2>5. IsSeq(r.frames) /\ Hide(r.frames, HostsOf(cap))
    <3> DEFINE map == RandomMap(cap, fresh)
    <3>1. DOMAIN map = HostsOf(cap)
      BY DEF RandomMap
    <3>2. r.frames = Thinned(Cleaned(ApplyHostMap(cap, map, <<>>), map))
      BY <2>2 DEF RemapCapture
    <3> HIDE DEF map
    <3>3. QED
      BY <1>1, <3>1, <3>2, CleanFrames DEF Clean
  <2> HIDE DEF m, cap
  <2>6. QED
    BY <2>2, <2>4, <2>5 DEF RemapOK, m, cap
<1>3. CASE ledger.zones # {}
  <2> DEFINE R(groups) == Reconcile(cap, groups, ZoneTargets(ledger), RegisteredOrigins(ledger),
                                    DeviceMacMap(ledger), UsedMacs(ledger), RoomFor(ledger))
  <2>1. PICK groups \in GroupSets(cap) :
          r = [new |-> R(groups).new, made |-> "plan", frames |-> Thinned(R(groups).frames)]
    BY <1>3, Zenon DEF Remaps, RoomFor
  <2>2. Remapping(c, cap, groups, ledger)
    BY <1>1, <1>3 DEF Remapping
  <2>3. PICK map, macs, new : MovesAll(R(groups), cap, ledger, map, macs, new)
    <3> HIDE DEF cap
    <3>1. QED
      BY <1>1, <2>2, ReconcileFacts
  <2> HIDE DEF R
  <2>4. /\ R(groups).new = new
        /\ R(groups).frames = Cleaned(ApplyHostMap(cap, map, macs), map)
        /\ HostsOf(cap) \subseteq DOMAIN map /\ IsSeq(new) /\ NewOK(ledger, new)
        /\ \A h \in DOMAIN map :
             map[h] \in UsedIPs(ledger) \cup {new[i].ip : i \in 1..Len(new)}
    BY <2>3 DEF MovesAll
  <2>5. r.new = new /\ r.frames = Thinned(Cleaned(ApplyHostMap(cap, map, macs), map))
    BY <2>1, <2>4
  <2>6. /\ PlanOK(m) /\ Extends(ledger, m)
        /\ \A i \in 1..Len(new) : new[i].ip \in UsedIPs(m)
    <3>1. m = FoldLeft(Register, ledger, new)
      BY <2>5
    <3> HIDE DEF m
    <3>2. QED
      BY <2>4, <3>1, RegisteredAll
  <2> HIDE DEF m, cap
  <2>7. /\ IsSeq(r.frames) /\ Hide(r.frames, HostsOf(cap))
        /\ \A f \in ToSet(r.frames) : Coherent(f, {map[a] : a \in DOMAIN map})
    <3>1. Clean(r.frames, map, HostsOf(cap))
      BY <1>1, <2>4, <2>5, CleanFrames
    <3>2. QED
      BY <3>1 DEF Clean
  <2>8. {map[a] : a \in DOMAIN map} \subseteq UsedIPs(m)
    BY <2>4, <2>6 DEF Extends
  <2>9. InPlan(r.frames, m)
    BY <2>7, <2>8 DEF InPlan, Coherent
  <2>10. QED
    BY <2>6, <2>7, <2>9 DEF RemapOK, m, cap
<1>4. QED
  BY <1>2, <1>3

-----------------------------------------------------------------------------
(* What is in the cache.                                                   *)

\* A file is some of another's frames, or all of them.
PartOf(x, e) ==
    /\ x.cap = e.cap /\ x.of = e.of /\ x.seed = e.seed /\ x.gen = e.gen
    /\ x.stamp = e.stamp /\ x.settled = e.settled
    /\ x.made = e.made /\ x.epoch = e.epoch /\ ToSet(x.frames) \subseteq ToSet(e.frames)
\* No two files have a name.
Distinct(files) ==
    \A i, j \in 1..Len(files) : Name(files[i]) = Name(files[j]) => i = j

LEMMA PutDistinct ==
    ASSUME NEW files, IsSeq(files), Distinct(files), NEW e
    PROVE  Distinct(Put(files, e))
<1> DEFINE p == Put(files, e)
           n == Len(files)
<1>1. n \in Nat /\ \A i, j \in 1..n : Name(files[i]) = Name(files[j]) => i = j
  BY SeqFacts DEF Distinct
<1>2. CASE p = Append(files, e) /\ \A i \in 1..n : Name(files[i]) # Name(e)
  <2>1. Len(p) = n + 1 /\ p[n + 1] = e /\ \A i \in 1..n : p[i] = files[i]
    BY <1>2, AppendIsSeq
  <2> HIDE DEF n, p
  <2>2. ASSUME NEW i \in 1..(n + 1), NEW j \in 1..(n + 1), Name(p[i]) = Name(p[j]) PROVE i = j
    <3>1. CASE i \in 1..n /\ j \in 1..n
      BY <1>1, <2>1, <2>2, <3>1
    <3>2. CASE i \in 1..n /\ j = n + 1
      BY <1>2, <2>1, <2>2, <3>2
    <3>3. CASE i = n + 1 /\ j \in 1..n
      BY <1>2, <2>1, <2>2, <3>3
    <3>4. QED
      BY <1>1, <3>1, <3>2, <3>3
  <2>3. QED
    BY <2>1, <2>2 DEF Distinct, p
<1>3. ASSUME NEW k \in 1..n, Replaces(files, e, k, p) PROVE Distinct(p)
  <2>1. /\ Len(p) = n /\ p[n] = e /\ Name(files[k]) = Name(e)
        /\ \A j \in 1..(k - 1) : p[j] = files[j]
        /\ \A j \in k..(n - 1) : p[j] = files[j + 1]
    BY <1>3 DEF Replaces
  <2> HIDE DEF n, p
  <2> DEFINE at == [j \in 1..n |-> IF j = n THEN k ELSE IF j < k THEN j ELSE j + 1]
  <2>2. ASSUME NEW j \in 1..n PROVE at[j] \in 1..n /\ Name(p[j]) = Name(files[at[j]])
    <3>1. CASE j = n
      BY <2>1, <3>1
    <3>2. CASE j # n /\ j < k
      <4>1. j \in 1..(k - 1)
        BY <1>1, <3>2
      <4>2. QED
        BY <2>1, <3>2, <4>1
    <3>3. CASE j # n /\ ~(j < k)
      <4>1. j \in k..(n - 1) /\ j + 1 \in 1..n
        BY <1>1, <3>3
      <4>2. QED
        BY <2>1, <3>3, <4>1
    <3>4. QED
      BY <3>1, <3>2, <3>3
  <2>3. \A i, j \in 1..n : at[i] = at[j] => i = j
    BY <1>1
  <2> HIDE DEF at
  <2>4. \A i, j \in 1..n : Name(p[i]) = Name(p[j]) => i = j
    BY <1>1, <2>2, <2>3
  <2>5. QED
    BY <2>1, <2>4 DEF Distinct
<1> HIDE DEF p
<1>4. QED
  BY <1>2, <1>3, PutShape DEF p

LEMMA EvictedDistinct ==
    ASSUME NEW files, IsSeq(files), Len(files) \in Nat \ {0}, Distinct(files), NEW max
    PROVE  Distinct(Evicted(files, max))
<1> DEFINE n == Len(files)
<1>1. PICK from \in 1..n : Evicted(files, max) = SubSeq(files, from, n)
  <2> DEFINE fits == {i \in DOMAIN files : Bytes(From(files, i)) <= max}
             T == fits \cup {n}
  <2>1. T \in SUBSET Nat /\ T # {} /\ T \subseteq 1..n
    BY SeqFacts
  <2>2. Evicted(files, max) = SubSeq(files, MinOf(T), n)
    BY Zenon DEF Evicted, From
  <2> HIDE DEF T
  <2>3. MinOf(T) \in T
    BY <2>1, LeastIn
  <2>4. QED
    BY <2>1, <2>2, <2>3
<1> DEFINE p == SubSeq(files, from, n)
<1>2. n \in Nat /\ \A i, j \in 1..n : Name(files[i]) = Name(files[j]) => i = j
  BY SeqFacts DEF Distinct
<1>3. Len(p) = n + 1 - from /\ \A j \in 1..(n + 1 - from) : p[j] = files[from - 1 + j]
  <2>1. from \in Nat \ {0} /\ n \in 0..n /\ from <= n + 1
    <3> HIDE DEF n
    <3>1. QED
      BY <1>1, <1>2
  <2>2. QED
    BY <2>1, SubSeqFacts
<1> HIDE DEF p, n
<1>4. \A j \in 1..(n + 1 - from) : from - 1 + j \in 1..n
  BY <1>1, <1>2
<1>5. \A i, j \in 1..(n + 1 - from) : from - 1 + i = from - 1 + j => i = j
  BY <1>1, <1>2
<1>6. \A i, j \in 1..(n + 1 - from) : Name(p[i]) = Name(p[j]) => i = j
  BY <1>2, <1>3, <1>4, <1>5
<1>7. QED
  BY <1>1, <1>3, <1>6 DEF Distinct, p

\* The one directory that is written gets the file, or a part of it.
Adds(e, x) ==
    /\ PartOf(x, e)
    /\ \A d \in Dirs : ToSet(cache'[d]) \subseteq ToSet(cache[d]) \cup {x}
    /\ (\A d \in Dirs : Distinct(cache[d])) => \A d \in Dirs : Distinct(cache'[d])

LEMMA CachedAdds ==
    ASSUME CacheType, NEW dir \in Dirs, NEW e, Cached(dir, e)
    PROVE  Adds(e, e)
<1> DEFINE files == Put(cache[dir], e)
           projected == IF known[dir] = Unknown THEN Bytes(files) ELSE known[dir] + Weight(e)
           left == IF projected > Budget[dir] THEN Evicted(files, Budget[dir]) ELSE files
<1>1. cache' = [cache EXCEPT ![dir] = left]
  BY Zenon DEF Cached
<1>2. /\ IsSeq(files) /\ Len(files) \in Nat \ {0}
      /\ ToSet(files) \subseteq ToSet(cache[dir]) \cup {e}
      /\ Distinct(cache[dir]) => Distinct(files)
  BY PutFacts, PutDistinct DEF CacheType
<1> HIDE DEF files
<1>3. /\ ToSet(Evicted(files, Budget[dir])) \subseteq ToSet(files)
      /\ Distinct(files) => Distinct(Evicted(files, Budget[dir]))
  BY <1>2, EvictedFacts, EvictedDistinct
<1> HIDE DEF projected
<1>4. /\ ToSet(left) \subseteq ToSet(cache[dir]) \cup {e}
      /\ Distinct(cache[dir]) => Distinct(left)
  BY <1>2, <1>3
<1> HIDE DEF left
<1>5. \A d \in Dirs : cache'[d] = IF d = dir THEN left ELSE cache[d]
  BY <1>1 DEF CacheType
<1>6. PartOf(e, e)
  BY DEF PartOf
<1>7. QED
  BY <1>4, <1>5, <1>6 DEF Adds

LEMMA CutShortAdds ==
    ASSUME CacheType, NEW dir \in Dirs, NEW c, NEW at, NEW l, NEW frames, IsSeq(frames), NEW made,
           CutShort(dir, Entry(c, at, l, frames, made))
    PROVE  \E x : Adds(Entry(c, at, l, frames, made), x)
<1> DEFINE e == Entry(c, at, l, frames, made)
<1>1. PICK k \in 0..Len(e.frames) - 1 :
        cache' = [cache EXCEPT ![dir] =
                     Put(cache[dir], [e EXCEPT !.frames = SubSeq(e.frames, 1, k), !.whole = FALSE])]
  BY Zenon DEF CutShort
<1> DEFINE x == [e EXCEPT !.frames = SubSeq(e.frames, 1, k), !.whole = FALSE]
           files == Put(cache[dir], x)
<1>2. /\ e.frames = frames /\ x.frames = SubSeq(frames, 1, k)
      /\ x.cap = e.cap /\ x.of = e.of /\ x.seed = e.seed /\ x.gen = e.gen
      /\ x.stamp = e.stamp /\ x.settled = e.settled
      /\ x.made = e.made /\ x.epoch = e.epoch
  BY DEF Entry
<1>3. Len(frames) \in Nat
  BY SeqFacts
<1> HIDE DEF e
<1>4. ToSet(x.frames) \subseteq ToSet(frames)
  <2>1. 1 \in Nat \ {0} /\ k \in 0..Len(frames) /\ 1 <= k + 1
    BY <1>2, <1>3
  <2>2. SubSeq(frames, 1, k) \in Seq(ToSet(frames))
    BY <2>1, SubSeqFacts
  <2>3. \A S : \A s \in Seq(S) : ToSet(s) \subseteq S
    BY DEF ToSet
  <2>4. QED
    BY <1>2, <2>2, <2>3
<1>5. PartOf(x, e)
  BY <1>2, <1>4 DEF PartOf
<1> HIDE DEF x
<1>6. /\ ToSet(files) \subseteq ToSet(cache[dir]) \cup {x}
      /\ Distinct(cache[dir]) => Distinct(files)
  BY PutFacts, PutDistinct DEF CacheType
<1> HIDE DEF files
<1>7. cache' = [cache EXCEPT ![dir] = files]
  BY <1>1 DEF files, x
<1>8. \A d \in Dirs : cache'[d] = IF d = dir THEN files ELSE cache[d]
  BY <1>7 DEF CacheType
<1>9. Adds(e, x)
  BY <1>5, <1>6, <1>8 DEF Adds
<1>10. QED
  BY <1>9 DEF e

-----------------------------------------------------------------------------
(* The plan, and what was made for it.                                     *)

\* The ledger there is: the daemon's, or what it will load.
Held == IF up THEN ledger ELSE disk

\* A file of the ledger there is shows its plan; one of an earlier ledger, or of what
\* a ledger was before it was rolled back, has another epoch.
EntryOK(e, l, n) ==
    /\ e.epoch \in 1..n /\ Hide(e.frames, HostsOf(e.of))
    /\ e.made = "plan" /\ e.epoch = l.epoch => InPlan(e.frames, l)
LedgerOK(l, n) == PlanOK(l) /\ (l = NoLedger \/ l.epoch \in 1..n)
PlanInv ==
    /\ up \in BOOLEAN /\ epochs \in Nat
    /\ LedgerOK(ledger, epochs) /\ LedgerOK(disk, epochs)
    /\ up => ledger # NoLedger
    /\ \A d \in Dirs : Distinct(cache[d])
    /\ \A d \in Dirs : \A e \in ToSet(cache[d]) : EntryOK(e, Held, epochs)
    /\ served # Nothing => served.seed = ledger.seed

EmptyLedger(k, s) ==
    [epoch |-> k, seed |-> s, gen |-> 0, zones |-> {}, devices |-> {}, hosts |-> {}]

LEMMA EmptyPlan == ASSUME NEW k, NEW s PROVE PlanOK(EmptyLedger(k, s))
<1> DEFINE l == EmptyLedger(k, s)
<1>1. /\ l = [epoch |-> l.epoch, seed |-> l.seed, gen |-> l.gen, zones |-> l.zones,
              devices |-> l.devices, hosts |-> l.hosts]
      /\ l.zones = {} /\ l.devices = {} /\ l.hosts = {}
  BY DEF EmptyLedger
<1> HIDE DEF l
<1>2. IsFiniteSet({}) /\ Cardinality({}) = 0 /\ AssetCap \in Nat /\ MaxDevices \in Nat
  BY FS_EmptySet, LimitsAssumption
<1>3. QED
  BY <1>1, <1>2 DEF PlanOK, PlanShape, PlanDistinct, PlanSize, l

LEMMA NoLedgerOK == ASSUME NEW n PROVE LedgerOK(NoLedger, n)
<1>1. NoLedger = EmptyLedger(0, 0)
  BY DEF NoLedger, EmptyLedger
<1>2. QED
  BY <1>1, EmptyPlan DEF LedgerOK

\* A plan that only grew is that of the files made for it.
LEMMA StillOK ==
    ASSUME NEW e, NEW l, NEW m, NEW n, EntryOK(e, l, n), Extends(l, m)
    PROVE  EntryOK(e, m, n)
  BY DEF EntryOK, Extends, InPlan

LEMMA ExtendedOK ==
    ASSUME NEW l, NEW n \in Nat, LedgerOK(l, n), l # NoLedger, NEW m, PlanOK(m), Extends(l, m)
    PROVE  LedgerOK(m, n) /\ m # NoLedger
<1>1. m.epoch \in 1..n
  BY DEF LedgerOK, Extends
<1>2. m # NoLedger
  BY <1>1 DEF NoLedger
<1>3. QED
  BY <1>1, <1>2 DEF LedgerOK

\* A plan that is rolled back is a plan.
LEMMA RolledBack ==
    ASSUME NEW l, PlanOK(l), NEW k, NEW m, m = [l EXCEPT !.epoch = k]
    PROVE  PlanOK(m) /\ m.epoch = k
<1>1. l = [epoch |-> l.epoch, seed |-> l.seed, gen |-> l.gen, zones |-> l.zones,
           devices |-> l.devices, hosts |-> l.hosts]
  BY DEF PlanOK, PlanShape
<1>2. m = [epoch |-> k, seed |-> l.seed, gen |-> l.gen, zones |-> l.zones,
           devices |-> l.devices, hosts |-> l.hosts]
  BY <1>1
<1>3. m.epoch = k /\ m.seed = l.seed /\ m.gen = l.gen /\ m.zones = l.zones
      /\ m.devices = l.devices /\ m.hosts = l.hosts
  BY <1>2
<1>4. PlanShape(m)
  <2>1. m = [epoch |-> m.epoch, seed |-> m.seed, gen |-> m.gen, zones |-> m.zones,
             devices |-> m.devices, hosts |-> m.hosts]
    BY <1>2, <1>3
  <2>2. QED
    BY <1>3, <2>1 DEF PlanOK, PlanShape
<1>5. PlanDistinct(m) /\ PlanSize(m)
  BY <1>3 DEF PlanOK, PlanDistinct, PlanSize
<1>6. QED
  BY <1>3, <1>4, <1>5 DEF PlanOK

\* A ledger with a new epoch has no files yet.
LEMMA NoneYet ==
    ASSUME NEW e, NEW l, NEW n \in Nat, EntryOK(e, l, n), NEW m,
           \/ m.epoch = n + 1
           \/ m = NoLedger
    PROVE  EntryOK(e, m, n) /\ EntryOK(e, m, n + 1)
<1>1. e.epoch \in 1..n /\ Hide(e.frames, HostsOf(e.of))
  BY DEF EntryOK
<1>2. e.epoch \in 1..(n + 1) /\ e.epoch # n + 1 /\ e.epoch # 0
  BY <1>1
<1>3. NoLedger.epoch = 0
  BY DEF NoLedger
<1>4. e.epoch # m.epoch
  BY <1>2, <1>3
<1>5. QED
  BY <1>1, <1>2, <1>4 DEF EntryOK

LEMMA LaterOK ==
    ASSUME NEW l, NEW n \in Nat, LedgerOK(l, n)
    PROVE  LedgerOK(l, n + 1)
<1>1. \A k \in 1..n : k \in 1..(n + 1)
  OBVIOUS
<1>2. QED
  BY <1>1 DEF LedgerOK

LEMMA PlanInit == EitherInit => PlanInv
<1> SUFFICES ASSUME EitherInit PROVE PlanInv
  OBVIOUS
<1>1. /\ up = FALSE /\ ledger = NoLedger /\ disk = NoLedger /\ cache = [d \in Dirs |-> <<>>]
      /\ served = Nothing /\ epochs = 0
  BY DEF EitherInit, Init
<1>2. \A d \in Dirs : cache[d] = <<>>
  BY <1>1
<1>3. Distinct(<<>>) /\ ToSet(<<>>) = {}
  BY EmptyIsSeq DEF Distinct
<1>4. QED
  BY <1>1, <1>2, <1>3, NoLedgerOK DEF PlanInv

LEMMA StartPlan == ASSUME PlanInv, CacheInv, Start PROVE PlanInv'
<1>1. /\ ~up /\ up' = TRUE /\ served = Nothing /\ UNCHANGED <<served, disk>>
      /\ cache' = [cache EXCEPT !["shm"] = <<>>] /\ CacheType
  BY DEF Start, CacheInv
<1>2. \A d \in Dirs : cache'[d] \in {<<>>, cache[d]}
  BY <1>1 DEF CacheType
<1>3. Distinct(<<>>) /\ ToSet(<<>>) = {}
  BY EmptyIsSeq DEF Distinct
<1>4. \A d \in Dirs : Distinct(cache'[d]) /\ ToSet(cache'[d]) \subseteq ToSet(cache[d])
  BY <1>2, <1>3 DEF PlanInv
<1>5. Held = disk /\ Held' = ledger'
  BY <1>1 DEF Held
<1>6. CASE disk # NoLedger /\ ledger' = disk /\ UNCHANGED epochs
  BY <1>1, <1>4, <1>5, <1>6 DEF PlanInv
<1>7. ASSUME epochs' = epochs + 1, NEW seed,
             ledger' = [NoLedger EXCEPT !.epoch = epochs', !.seed = seed]
      PROVE  PlanInv'
  <2>1. epochs \in Nat /\ epochs' \in Nat /\ epochs' = epochs + 1
    BY <1>7 DEF PlanInv
  <2>2. ledger' = EmptyLedger(epochs', seed)
    BY <1>7 DEF NoLedger, EmptyLedger
  <2>3. PlanOK(ledger') /\ ledger'.epoch = epochs'
    BY <2>2, EmptyPlan DEF EmptyLedger
  <2>4. LedgerOK(ledger', epochs') /\ ledger' # NoLedger
    <3>1. epochs' \in 1..epochs' /\ epochs' # 0
      BY <2>1
    <3>2. QED
      BY <2>3, <3>1 DEF LedgerOK, NoLedger
  <2>5. \A e : EntryOK(e, Held, epochs) => EntryOK(e, ledger', epochs')
    BY <2>1, <2>3, NoneYet
  <2>6. LedgerOK(disk', epochs')
    BY <1>1, <2>1, LaterOK DEF PlanInv
  <2>7. QED
    BY <1>1, <1>4, <1>5, <2>1, <2>4, <2>5, <2>6 DEF PlanInv
<1>8. QED
  BY <1>6, <1>7 DEF Start

LEMMA StopPlan == ASSUME PlanInv, Stop PROVE PlanInv'
<1>1. up /\ up' = FALSE /\ ledger' = NoLedger /\ served' = Nothing /\ UNCHANGED cache
  BY DEF Stop
<1>2. Held = ledger /\ Held' = disk'
  BY <1>1 DEF Held
<1>3. \A d \in Dirs : Distinct(cache'[d]) /\ \A e \in ToSet(cache'[d]) : EntryOK(e, ledger, epochs)
  BY <1>1, <1>2 DEF PlanInv
<1>4. epochs \in Nat /\ LedgerOK(disk, epochs)
  BY DEF PlanInv
<1>5. CASE disk \in {ledger, NoLedger}
  <2>1. UNCHANGED <<disk, epochs>>
    BY <1>5 DEF Stop
  <2>2. \A e : EntryOK(e, ledger, epochs) => EntryOK(e, disk, epochs)
    BY <1>4, <1>5, NoneYet
  <2>3. QED
    BY <1>1, <1>2, <1>3, <1>4, <2>1, <2>2, NoLedgerOK DEF PlanInv
<1>6. CASE disk \notin {ledger, NoLedger}
  <2>1. epochs' = epochs + 1 /\ disk' = [disk EXCEPT !.epoch = epochs']
    BY <1>6 DEF Stop
  <2>2. PlanOK(disk') /\ disk'.epoch = epochs'
    BY <1>4, <2>1, RolledBack DEF LedgerOK
  <2>3. epochs' \in Nat /\ LedgerOK(disk', epochs')
    <3>1. epochs' \in Nat /\ epochs' \in 1..epochs'
      BY <1>4, <2>1
    <3>2. QED
      BY <2>2, <3>1 DEF LedgerOK
  <2>4. \A e : EntryOK(e, ledger, epochs) => EntryOK(e, disk', epochs')
    BY <1>4, <2>1, <2>2, NoneYet
  <2>5. QED
    BY <1>1, <1>2, <1>3, <2>3, <2>4, NoLedgerOK DEF PlanInv
<1>7. QED
  BY <1>5, <1>6

LEMMA ResetPlan == ASSUME PlanInv, CacheInv, Reset PROVE PlanInv'
<1>1. /\ ~up /\ disk' = NoLedger /\ UNCHANGED <<up, ledger, cache, served, epochs>>
      /\ epochs \in Nat
  BY DEF Reset, PlanInv
<1>2. Held = disk /\ Held' = NoLedger
  BY <1>1 DEF Held
<1>3. \A e : EntryOK(e, disk, epochs) => EntryOK(e, NoLedger, epochs)
  BY <1>1, NoneYet
<1>4. QED
  BY <1>1, <1>2, <1>3, NoLedgerOK DEF PlanInv

\* The ledger grows, and is saved or not.
LEMMA GrowsPlan ==
    ASSUME PlanInv, up, UNCHANGED <<up, epochs>>, PlanOK(ledger'), Extends(ledger, ledger'),
           disk' \in {disk, ledger'}
    PROVE  /\ LedgerOK(ledger', epochs) /\ LedgerOK(disk', epochs) /\ ledger' # NoLedger
           /\ Held' = ledger' /\ epochs \in Nat
           /\ \A d \in Dirs : \A e \in ToSet(cache[d]) : EntryOK(e, ledger', epochs)
<1>1. Held = ledger /\ Held' = ledger' /\ epochs \in Nat
  BY DEF Held, PlanInv
<1>2. LedgerOK(ledger', epochs) /\ ledger' # NoLedger
  BY <1>1, ExtendedOK DEF PlanInv
<1>3. \A d \in Dirs : \A e \in ToSet(cache[d]) : EntryOK(e, ledger', epochs)
  BY <1>1, StillOK DEF PlanInv
<1>4. LedgerOK(disk', epochs)
  BY <1>2 DEF PlanInv
<1>5. QED
  BY <1>1, <1>2, <1>3, <1>4

LEMMA MissPlan ==
    ASSUME PlanInv, CacheInv, SourceInv, LookInv, forge = Off, Miss
    PROVE  PlanInv'
<1> DEFINE c == look.cap
<1>1. /\ up /\ served = Nothing /\ UNCHANGED <<source, up>> /\ c \in Captures
      /\ CacheType /\ DirOf(c) \in Dirs
  BY MissFacts, DirOfType DEF CacheInv, written
<1>2. CASE UNCHANGED <<plans, cache, served>>
  BY <1>1, <1>2 DEF plans, PlanInv, Held
<1>3. CASE ~UNCHANGED <<plans, cache, served>>
  <2>1. UNCHANGED epochs
    BY <1>3, MissFacts
  <2>2. PICK r \in Remaps(c) :
          LET e == Entry(c, look, ledger', r.frames, r.made)
          IN  /\ ledger' = FoldLeft(Register, ledger, r.new)
              /\ disk' \in {disk, ledger'}
              /\ \/ Cached(DirOf(c), e) /\ served' = e
                 \/ CutShort(DirOf(c), e) /\ UNCHANGED <<known, served>>
                 \/ UNCHANGED <<cache, known, served>>
    BY <1>3, MissFacts, Zenon
  <2> DEFINE e == Entry(c, look, ledger', r.frames, r.made)
  <2>3. \/ Cached(DirOf(c), e) /\ served' = e
        \/ CutShort(DirOf(c), e) /\ UNCHANGED served
        \/ UNCHANGED <<cache, served>>
    BY <2>2
  <2>4. ledger' = FoldLeft(Register, ledger, r.new) /\ disk' \in {disk, ledger'}
    BY <2>2
  <2>5. RemapOK(source[c], ledger, r, ledger')
    <3>1. RemapOK(source[c], ledger, r, FoldLeft(Register, ledger, r.new))
      BY <1>1, RemapsPlan DEF PlanInv, LedgerOK
    <3>2. QED
      BY <2>4, <3>1
  <2>6. /\ PlanOK(ledger') /\ Extends(ledger, ledger') /\ IsSeq(r.frames)
        /\ Hide(r.frames, HostsOf(source[c])) /\ (r.made = "plan" => InPlan(r.frames, ledger'))
    BY <2>5 DEF RemapOK
  <2>7. /\ LedgerOK(ledger', epochs) /\ LedgerOK(disk', epochs) /\ ledger' # NoLedger
        /\ Held' = ledger' /\ epochs \in Nat
        /\ \A d \in Dirs : \A y \in ToSet(cache[d]) : EntryOK(y, ledger', epochs)
    BY <1>1, <2>1, <2>4, <2>6, GrowsPlan
  <2>8. /\ e.of = source[c] /\ e.seed = ledger'.seed /\ e.epoch = ledger'.epoch
        /\ e.frames = r.frames /\ e.made = r.made
    BY DEF Entry
  <2>9. CutShort(DirOf(c), e) => \E x : Adds(e, x)
    BY <1>1, <2>6, CutShortAdds
  <2> HIDE DEF e, c
  <2>10. ASSUME NEW x, PartOf(x, e) PROVE EntryOK(x, ledger', epochs)
    <3>1. ToSet(x.frames) \subseteq ToSet(r.frames) /\ x.of = source[c] /\ x.made = r.made
          /\ x.epoch = ledger'.epoch
      BY <2>8, <2>10 DEF PartOf
    <3>2. Hide(x.frames, HostsOf(x.of)) /\ (x.made = "plan" => InPlan(x.frames, ledger'))
      BY <2>6, <3>1 DEF Hide, InPlan
    <3>3. ledger'.epoch \in 1..epochs
      BY <2>7 DEF LedgerOK
    <3>4. QED
      BY <3>1, <3>2, <3>3 DEF EntryOK
  <2>11. ASSUME NEW x, Adds(e, x)
         PROVE  \A d \in Dirs : Distinct(cache'[d])
                                  /\ \A y \in ToSet(cache'[d]) : EntryOK(y, ledger', epochs)
    <3>1. EntryOK(x, ledger', epochs)
      BY <2>10, <2>11 DEF Adds
    <3>2. \A d \in Dirs : ToSet(cache'[d]) \subseteq ToSet(cache[d]) \cup {x}
      BY <2>11 DEF Adds
    <3>3. \A d \in Dirs : Distinct(cache'[d])
      BY <2>11 DEF Adds, PlanInv
    <3>4. QED
      BY <2>7, <3>1, <3>2, <3>3
  <2>12. \A d \in Dirs : Distinct(cache'[d])
                           /\ \A y \in ToSet(cache'[d]) : EntryOK(y, ledger', epochs)
    <3>1. CASE Cached(DirOf(c), e)
      BY <1>1, <2>11, <3>1, CachedAdds
    <3>2. CASE CutShort(DirOf(c), e)
      BY <2>11, <2>9, <3>2
    <3>3. CASE UNCHANGED cache
      BY <2>7, <3>3 DEF PlanInv
    <3>4. QED
      BY <2>3, <3>1, <3>2, <3>3
  <2>13. served' # Nothing => served'.seed = ledger'.seed
    BY <1>1, <2>3, <2>8
  <2>14. QED
    BY <1>1, <2>1, <2>7, <2>12, <2>13 DEF PlanInv
<1>4. QED
  BY <1>2, <1>3

LEMMA TickPlan == ASSUME PlanInv, Tick PROVE PlanInv'
<1>1. up /\ served' = Nothing /\ UNCHANGED <<up, cache, epochs>> /\ disk' \in {disk, ledger'}
  BY DEF Tick, MaySave
<1>2. PlanOK(ledger)
  BY DEF PlanInv, LedgerOK
<1> DEFINE room == IF Cardinality(ledger.devices) >= MaxDevices THEN 0
                   ELSE MaxDevices - Cardinality(ledger.devices)
           k == IF room < Batch THEN room ELSE Batch
<1>3. k \in Nat /\ Cardinality(ledger.devices) + k <= MaxDevices
  <2>1. Cardinality(ledger.devices) \in Nat /\ Cardinality(ledger.devices) <= MaxDevices
        /\ MaxDevices \in Nat /\ Batch \in Nat
    BY <1>2, UsedCount, LimitsAssumption DEF PlanOK, PlanSize
  <2>2. QED
    BY <2>1
<1>4. ledger' = ledger \/ ledger' \in FoldLeft(OneMore, {ledger}, [i \in 1..k |-> i])
  BY DEF Tick
<1> HIDE DEF k, room
<1>5. PlanOK(ledger') /\ Extends(ledger, ledger')
  <2>1. Extends(ledger, ledger)
    BY DEF Extends
  <2>2. \A m \in FoldLeft(OneMore, {ledger}, [i \in 1..k |-> i]) : PlanOK(m) /\ Extends(ledger, m)
    BY <1>2, <1>3, GrownAll
  <2>3. QED
    BY <1>2, <1>4, <2>1, <2>2
<1>6. /\ LedgerOK(ledger', epochs) /\ LedgerOK(disk', epochs) /\ ledger' # NoLedger
      /\ Held' = ledger' /\ epochs \in Nat
      /\ \A d \in Dirs : \A e \in ToSet(cache[d]) : EntryOK(e, ledger', epochs)
  BY <1>1, <1>5, GrowsPlan
<1>7. QED
  BY <1>1, <1>6 DEF PlanInv

LEMMA PlanStep ==
    SourceInv /\ LookInv /\ CacheInv /\ PlanInv /\ [Daemon \/ Forge]_hostVars => PlanInv'
<1> SUFFICES ASSUME SourceInv, LookInv, CacheInv, PlanInv, [Daemon \/ Forge]_hostVars
             PROVE  PlanInv'
  OBVIOUS
<1>1. CASE Start
  BY <1>1, StartPlan
<1>2. CASE Stop
  BY <1>2, StopPlan
<1>3. CASE Reset
  BY <1>3, ResetPlan
<1>4. ASSUME NEW c \in Captures, Hit(c) PROVE PlanInv'
  <2>1. served'.seed = ledger.seed /\ UNCHANGED <<plans, up, cache>>
    BY <1>4, HitFacts
  <2>2. QED
    BY <2>1 DEF PlanInv, plans, Held
<1>5. CASE Miss /\ forge = Off
  BY <1>5, MissPlan
<1>6. CASE Tick
  BY <1>6, TickPlan
<1>7. ASSUME UNCHANGED <<plans, up, cache, served>> PROVE PlanInv'
  BY <1>7 DEF PlanInv, plans, Held
<1>8. CASE (\E c \in Captures : Look(c)) \/ Copy \/ Second \/ Forge \/ UNCHANGED hostVars
  BY <1>7, <1>8 DEF Look, Copy, Second, Forge, hostVars, vars
<1>9. QED
  BY <1>1, <1>2, <1>3, <1>4, <1>5, <1>6, <1>8 DEF Daemon, Next, Loop

-----------------------------------------------------------------------------
(* What a file was made of.                                                *)

\* A capture that was at rest when it was read has had a later time since it was
\* written again.  A file that was made of what came after the look has a name that
\* nothing will have again, or was not made of frames at rest.
EntryCurrent(e) ==
    /\ e.cap \in Captures /\ e.stamp \in Nat /\ e.stamp <= stamp[e.cap]
    /\ e.settled /\ e.stamp = stamp[e.cap] => e.cap \notin recent /\ e.of = source[e.cap]
CurrentInv ==
    /\ stamp = [c \in Captures |-> stamp[c]] /\ \A c \in Captures : stamp[c] \in Nat
    /\ look # NotLooked => look.stamp \in Nat /\ look.stamp <= stamp[look.cap]
    /\ forge # Off => ~up /\ \A d \in Dirs : cache[d] = <<>>
    /\ \A d \in Dirs : \A e \in ToSet(cache[d]) : EntryCurrent(e)

LEMMA CurrentInit == EitherInit => CurrentInv
<1> SUFFICES ASSUME EitherInit PROVE CurrentInv
  OBVIOUS
<1>1. /\ stamp = [c \in Captures |-> 0] /\ up = FALSE /\ look = NotLooked
      /\ cache = [d \in Dirs |-> <<>>]
  BY DEF EitherInit, Init
<1>2. \A d \in Dirs : cache[d] = <<>> /\ ToSet(cache[d]) = {}
  BY <1>1, EmptyIsSeq
<1>3. QED
  BY <1>1, <1>2 DEF CurrentInv

LEMMA MissCurrent == ASSUME LookInv, CacheInv, SourceInv, CurrentInv, Miss, forge = Off, UNCHANGED forge
                     PROVE  CurrentInv'
<1> DEFINE c == look.cap
<1>1. /\ up /\ UNCHANGED <<source, stamp, recent, up>> /\ c \in Captures /\ look' = NotLooked
      /\ CacheType /\ DirOf(c) \in Dirs
  BY MissFacts, DirOfType DEF CacheInv, written, Miss
<1>2. /\ stamp' = [a \in Captures |-> stamp'[a]] /\ \A a \in Captures : stamp'[a] \in Nat
      /\ look.stamp \in Nat /\ look.stamp <= stamp[c]
  BY <1>1 DEF CurrentInv, Miss
<1>3. ASSUME NEW e, EntryCurrent(e) PROVE EntryCurrent(e)'
  BY <1>1, <1>3 DEF EntryCurrent
<1>4. CASE UNCHANGED cache
  <2>1. \A d \in Dirs : \A e \in ToSet(cache'[d]) : EntryCurrent(e)'
    BY <1>3, <1>4 DEF CurrentInv
  <2>2. QED
    BY <1>1, <1>2, <2>1 DEF CurrentInv
<1>5. CASE ~UNCHANGED cache
  <2>1. PICK r \in Remaps(c) :
          \/ Cached(DirOf(c), Entry(c, look, ledger', r.frames, r.made))
          \/ CutShort(DirOf(c), Entry(c, look, ledger', r.frames, r.made))
    BY <1>5, MissFacts, Zenon
  <2> DEFINE e == Entry(c, look, ledger', r.frames, r.made)
  <2>2. /\ e.cap = c /\ e.stamp = look.stamp /\ e.of = source[c]
        /\ e.settled = (c \notin recent)
    BY DEF Entry
  <2>3. IsSeq(r.frames)
    BY <1>1, RemapsFramed
  <2>4. \E x : Adds(e, x)
    <3>1. CASE Cached(DirOf(c), e)
      BY <1>1, <3>1, CachedAdds
    <3>2. CASE CutShort(DirOf(c), e)
      BY <1>1, <2>3, <3>2, CutShortAdds
    <3>3. QED
      BY <2>1, <3>1, <3>2
  <2> HIDE DEF e, c
  <2>5. PICK x : Adds(e, x)
    BY <2>4
  <2>6. EntryCurrent(x)
    <3>1. x.cap = c /\ x.stamp = look.stamp /\ x.of = source[c] /\ x.settled = (c \notin recent)
      BY <2>2, <2>5 DEF Adds, PartOf
    <3>2. QED
      BY <1>1, <1>2, <3>1 DEF EntryCurrent
  <2>7. \A d \in Dirs : \A y \in ToSet(cache'[d]) : EntryCurrent(y)
    BY <2>5, <2>6 DEF Adds, CurrentInv
  <2>8. \A d \in Dirs : \A y \in ToSet(cache'[d]) : EntryCurrent(y)'
    BY <1>3, <2>7
  <2>9. QED
    BY <1>1, <1>2, <2>8 DEF CurrentInv
<1>6. QED
  BY <1>4, <1>5

\* A write in a later second gives a capture a later time; one in the same second is
\* of a capture that no file was made of at rest.
LEMMA CopyCurrent == ASSUME SourceInv, LookInv, CurrentInv, Copy, forge = Off, UNCHANGED forge
                     PROVE  CurrentInv'
<1>1. UNCHANGED <<plans, up, look, cache, known, served>>
  BY DEF Copy
<1>2. PICK c \in Arriving :
        /\ \E s : source' = [source EXCEPT ![c] = s]
        /\ \/ c \in recent /\ UNCHANGED <<stamp, recent>>
           \/ c \notin recent /\ stamp' = [stamp EXCEPT ![c] = stamp[c] + 1]
                /\ recent' = recent \cup {c}
  BY Zenon DEF Copy
<1>3. c \in Captures
  BY CapturesAssumption
<1>4. /\ \A a \in Captures : stamp[a] \in Nat
      /\ \A a \in Captures : a # c => source'[a] = source[a] /\ stamp'[a] = stamp[a]
      /\ \A a \in Captures : a # c => (a \in recent' <=> a \in recent)
  <2>1. source = [a \in Captures |-> source[a]] /\ stamp = [a \in Captures |-> stamp[a]]
    BY DEF SourceInv, CurrentInv
  <2>2. QED
    BY <1>2, <2>1 DEF CurrentInv
<1>5. /\ stamp' = [a \in Captures |-> stamp'[a]] /\ \A a \in Captures : stamp'[a] \in Nat
      /\ \A a \in Captures : stamp[a] <= stamp'[a]
      /\ c \notin recent => stamp'[c] = stamp[c] + 1
  <2>1. stamp = [a \in Captures |-> stamp[a]] /\ \A a \in Captures : stamp[a] \in Nat
    BY DEF CurrentInv
  <2>2. QED
    BY <1>2, <1>3, <2>1
<1>6. ASSUME NEW e, EntryCurrent(e) PROVE EntryCurrent(e)'
  <2>1. e.cap \in Captures /\ e.stamp \in Nat /\ e.stamp <= stamp[e.cap]
    BY <1>6 DEF EntryCurrent
  <2>2. e.stamp <= stamp'[e.cap]
    BY <1>4, <1>5, <2>1
  <2>3. CASE e.cap # c
    BY <1>4, <1>6, <2>1, <2>2, <2>3 DEF EntryCurrent
  <2>4. CASE e.cap = c /\ c \in recent
    <3>1. UNCHANGED <<stamp, recent>>
      BY <1>2, <2>4
    <3>2. ~(e.settled /\ e.stamp = stamp'[e.cap])
      BY <1>6, <2>4, <3>1 DEF EntryCurrent
    <3>3. QED
      BY <2>1, <2>2, <3>2 DEF EntryCurrent
  <2>5. CASE e.cap = c /\ c \notin recent
    <3>1. e.stamp # stamp'[e.cap]
      BY <1>4, <1>5, <2>1, <2>5
    <3>2. QED
      BY <2>1, <2>2, <3>1 DEF EntryCurrent
  <2>6. QED
    BY <2>3, <2>4, <2>5
<1>7. look' # NotLooked => look'.stamp \in Nat /\ look'.stamp <= stamp'[look'.cap]
  <2>1. look' = look /\ (look # NotLooked => /\ look.cap \in Captures /\ look.stamp \in Nat
                                             /\ look.stamp <= stamp[look.cap])
    BY <1>1 DEF LookInv, CurrentInv
  <2>2. QED
    BY <1>4, <1>5, <2>1
<1>8. \A d \in Dirs : \A e \in ToSet(cache'[d]) : EntryCurrent(e)'
  BY <1>1, <1>6 DEF CurrentInv
<1>9. QED
  BY <1>5, <1>7, <1>8 DEF CurrentInv

LEMMA CurrentStep ==
    ForgeInv /\ SourceInv /\ LookInv /\ CacheInv /\ CurrentInv /\ [Daemon \/ Forge]_hostVars
        => CurrentInv'
<1> SUFFICES ASSUME ForgeInv, SourceInv, LookInv, CacheInv, CurrentInv,
                    [Daemon \/ Forge]_hostVars
             PROVE  CurrentInv'
  OBVIOUS
<1>1. ASSUME UNCHANGED <<source, stamp, forge>>, recent' \subseteq recent, forge = Off,
             look' # NotLooked => look'.stamp \in Nat /\ look'.stamp <= stamp[look'.cap],
             \A d \in Dirs : ToSet(cache'[d]) \subseteq ToSet(cache[d])
      PROVE  CurrentInv'
  <2>1. \A e : EntryCurrent(e) => EntryCurrent(e)'
    BY <1>1 DEF EntryCurrent
  <2>2. QED
    BY <1>1, <2>1 DEF CurrentInv
<1>2. CASE Daemon /\ UNCHANGED <<look, cache>> /\ (Reset \/ Tick \/ Second \/ \E c \in Captures : Hit(c))
  <2>1. UNCHANGED <<source, stamp, forge>> /\ recent' \subseteq recent /\ forge = Off
    BY <1>2 DEF Daemon, Reset, Tick, Second, Hit, written
  <2>2. QED
    BY <1>1, <1>2, <2>1 DEF CurrentInv
<1>3. CASE Daemon /\ Start
  <2>1. /\ UNCHANGED <<source, stamp, recent, look, forge>> /\ forge = Off
        /\ cache' = [cache EXCEPT !["shm"] = <<>>] /\ CacheType
    BY <1>3 DEF Daemon, Start, written, CacheInv
  <2>2. \A d \in Dirs : cache'[d] \in {<<>>, cache[d]}
    BY <2>1 DEF CacheType
  <2>3. \A d \in Dirs : ToSet(cache'[d]) \subseteq ToSet(cache[d])
    BY <2>2, EmptyIsSeq
  <2>4. QED
    BY <1>1, <2>1, <2>3 DEF CurrentInv
<1>4. CASE Daemon /\ Stop
  <2>1. UNCHANGED <<source, stamp, recent, cache, forge>> /\ forge = Off /\ look' = NotLooked
    BY <1>4 DEF Daemon, Stop, written
  <2>2. QED
    BY <1>1, <2>1
<1>5. ASSUME Daemon, NEW c \in Captures, Look(c) PROVE CurrentInv'
  <2>1. /\ UNCHANGED <<source, stamp, recent, cache, forge>> /\ forge = Off
        /\ look' = [cap |-> c, stamp |-> stamp[c], size |-> Len(source[c])]
    BY <1>5 DEF Daemon, Look, Stat, written
  <2>2. look'.stamp \in Nat /\ look'.stamp <= stamp[look'.cap]
    BY <2>1 DEF CurrentInv
  <2>3. QED
    BY <1>1, <2>1, <2>2
<1>6. CASE Daemon /\ Miss
  BY <1>6, MissCurrent DEF Daemon
<1>7. CASE Daemon /\ Copy
  BY <1>7, CopyCurrent DEF Daemon
<1>8. CASE Forge
  <2>1. forge # Off /\ UNCHANGED <<stamp, up, look, cache>> /\ Forging
    BY <1>8 DEF Forge
  <2>2. forge' # Off
    BY <2>1, ForgingStays DEF Off, Idle
  <2>3. \A d \in Dirs : cache'[d] = <<>> /\ ToSet(cache'[d]) = {}
    BY <2>1, EmptyIsSeq DEF CurrentInv
  <2>4. QED
    BY <2>1, <2>3 DEF CurrentInv
<1>9. CASE UNCHANGED hostVars
  BY <1>9 DEF hostVars, vars, written, CurrentInv, EntryCurrent
<1>10. QED
  <2>1. \A c \in Captures : Hit(c) => UNCHANGED <<look, cache>>
    BY DEF Hit
  <2>2. (Reset \/ Tick \/ Second) => UNCHANGED <<look, cache>>
    BY DEF Reset, Tick, Second
  <2>3. QED
    BY <1>2, <1>3, <1>4, <1>5, <1>6, <1>7, <1>8, <1>9, <2>1, <2>2 DEF Daemon, Next, Loop

HostInv ==
    ForgeInv /\ SourceInv /\ LookInv /\ CacheInv /\ BoundInv /\ PlanInv /\ CurrentInv

LEMMA HostInvHolds == EitherSpec => []HostInv
<1>1. EitherInit => HostInv
  BY ForgeInit, SourceInit, LookInit, CacheInit, BoundInit, PlanInit, CurrentInit DEF HostInv
<1>2. HostInv /\ [Daemon \/ Forge]_hostVars => HostInv'
  BY ForgeStep, SourceStep, LookStep, CacheStep, BoundStep, PlanStep, CurrentStep DEF HostInv
<1>3. QED
  BY <1>1, <1>2, PTL DEF EitherSpec, hostVars

\* proto/l3.rs:395-404, 366-379: whatever is sent shows no address of the capture's
\* own hosts, in a header or in a payload, however it was remapped and whichever
\* process wrote the capture.
THEOREM NothingRealIsSent == EitherSpec => []NothingReal
<1>1. HostInv => NothingReal
  <2> SUFFICES ASSUME HostInv, Sending PROVE Hide(served.frames, HostsOf(served.of))
    BY DEF NothingReal, Hide
  <2>1. served \in ToSet(cache[DirOf(served.cap)]) /\ DirOf(served.cap) \in Dirs
    BY DirOfType DEF HostInv, CacheInv, Sending
  <2>2. QED
    BY <2>1 DEF HostInv, PlanInv, EntryOK
<1>2. QED
  BY <1>1, HostInvHolds, PTL

\* simulate/engine.rs:228-236: what was remapped into this plan shows only assets of
\* the plan as it is when it is sent, though the plan grew since and its saves failed;
\* what was remapped into a plan with another seed is not sent.
THEOREM SentIsPlanned == EitherSpec => []WireIsPlanned
<1>1. HostInv => WireIsPlanned
  <2> SUFFICES ASSUME HostInv, Sending, OfPlan
               PROVE  InPlan(served.frames, ledger)
    BY DEF WireIsPlanned, Planned, InPlan
  <2>1. up /\ served.seed = ledger.seed /\ served.made = "plan"
    BY DEF HostInv, CacheInv, PlanInv, Sending, OfPlan
  <2>2. EntryOK(served, ledger, epochs)
    BY <2>1, DirOfType DEF HostInv, CacheInv, PlanInv, Held, Sending
  <2>3. served.epoch = ledger.epoch
    BY <2>1 DEF OfPlan
  <2>4. QED
    BY <2>1, <2>2, <2>3 DEF EntryOK
<1>2. QED
  BY <1>1, HostInvHolds, PTL

\* simulate/engine.rs:253, 272-279: a file that was made of frames at rest is served
\* only while the capture is what it was made of, whoever replaces the capture, and
\* whenever: between the look at it and the reading, after, or within one second.
THEOREM HitsAreCurrent == EitherSpec => ServedIsCurrent
<1> DEFINE Current == \A c \in Captures : Hit(c) /\ served'.settled => served'.of = source[c]
<1>1. HostInv => Current
  <2> SUFFICES ASSUME HostInv, NEW c \in Captures, Hit(c), served'.settled
               PROVE  served'.of = source[c]
    OBVIOUS
  <2>1. served' \in ToSet(cache[DirOf(c)]) /\ served'.cap = c /\ served'.stamp = stamp[c]
    BY HitFacts
  <2>2. EntryCurrent(served')
    BY <2>1, DirOfType DEF HostInv, CurrentInv
  <2>3. QED
    BY <2>1, <2>2 DEF EntryCurrent
<1>2. HostInv /\ [Daemon \/ Forge]_hostVars => [Current]_vars
  BY <1>1
<1>3. QED
  BY <1>2, HostInvHolds, PTL DEF EitherSpec, ServedIsCurrent, hostVars

LEMMA NamesCount ==
    ASSUME NEW d, IsSeq(cache[d]), Distinct(cache[d])
    PROVE  Cardinality(Names(d)) = Len(cache[d])
<1> DEFINE n == Len(cache[d])
           f == [i \in 1..n |-> Name(cache[d][i])]
<1>1. n \in Nat /\ ToSet(cache[d]) = {cache[d][i] : i \in 1..n}
  BY SeqFacts
<1>2. Names(d) = {f[i] : i \in 1..n}
  BY <1>1 DEF Names
<1>3. DOMAIN f = 1..n /\ OneToOne(f)
  BY DEF OneToOne, Distinct
<1> HIDE DEF f, n
<1>4. IsFiniteSet(1..n) /\ Cardinality(1..n) = n
  BY <1>1, FS_Interval
<1>5. Cardinality({f[i] : i \in 1..n}) = Cardinality(1..n)
  BY <1>3, <1>4, ImageCardinality
<1>6. QED
  BY <1>2, <1>4, <1>5 DEF n

\* proto/l3.rs:677-689, simulate/devices.rs:42-69: no two assets of the plan share an
\* address or a MAC, and the plan keeps to its limits; no two files of a cache
\* directory have a name.
THEOREM PlanTypeCorrect == EitherSpec => []TypeOK
<1>1. HostInv => TypeOK
  <2> SUFFICES ASSUME HostInv PROVE TypeOK
    OBVIOUS
  <2>1. DOMAIN source = Captures
    BY DEF HostInv, SourceInv
  <2>2. up \in BOOLEAN
    BY DEF HostInv, PlanInv
  <2>3. known \in [Dirs -> Nat \cup {Unknown}] /\ DOMAIN cache = Dirs
    BY DEF HostInv, BoundInv, BoundOf
  <2>4. \A d \in Dirs : Cardinality(Names(d)) = Len(cache[d])
    BY NamesCount DEF HostInv, PlanInv, CacheInv, CacheType
  <2>5. PlanOK(ledger)
    BY DEF HostInv, PlanInv, LedgerOK
  <2>6. /\ Cardinality(UsedIPs(ledger)) = WireAssets(ledger)
        /\ Cardinality(UsedMacs(ledger)) = WireAssets(ledger)
        /\ WireAssets(ledger) <= AssetCap + MaxDevices
    BY <2>5, UsedCount
  <2>7. QED
    BY <2>1, <2>2, <2>3, <2>4, <2>6 DEF TypeOK
<1>2. QED
  BY <1>1, HostInvHolds, PTL
=============================================================================
