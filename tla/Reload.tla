------------------------------ MODULE Reload ------------------------------
(***************************************************************************)
(* `turbolaser reload` (reload/mod.rs, pipeline.rs, manifest.rs and        *)
(* proto/mutators): forge variants of a capture, one per round, and list   *)
(* them in index.json.  It may write where the daemon reads captures.      *)
(*                                                                         *)
(* The roster is read once, before the first round, and written once,      *)
(* after the last; neither it nor a variant is written atomically.         *)
(***************************************************************************)
EXTENDS CaptureFiles

CONSTANTS
    Original,     \* the frames of --input, told apart by their ts
    Rounds,       \* the variants a run writes, in order
    Ids,          \* values of an identity field
    MaxDraws,     \* 65: a first draw and 64 more
    Profiles,     \* vendors of the known CIP devices, in their order
    RemapFirst,   \* --remap-l3
    ForgeNets,    \* subnets the random remap may draw
    MaxRoster     \* bound on the entries of index.json

ASSUME ReloadAssumption ==
    /\ Ids \subseteq Nat /\ IsFiniteSet(Ids) /\ MaxDraws \in Nat \ {0}
    /\ RemapFirst \in BOOLEAN /\ Len(Rounds) > 0
    /\ Original \in Seq(ToSet(Original))
    /\ \A f \in ToSet(Original) :
        /\ DOMAIN f = DOMAIN Blank /\ f.ids \in Seq(ToSet(f.ids))
        /\ \A h \in ToSet(f.ids) : DOMAIN h = {"field", "id", "starts"}
        /\ \A g \in ToSet(Original) : f.ts = g.ts => f = g

VARIABLES
    forge,   \* the running reload
    forged,  \* the frames of the round, as far as it has come
    mapper,  \* SeededMapper, and the headers of the frames it has not come to
    index    \* index.json, or Unreadable

Unreadable == <<[file |-> "unreadable", frames |-> 0]>>
Idle == [pc |-> "idle", round |-> 0, roster |-> <<>>]
NoMapper == [todo |-> {}, fwd |-> <<>>, used |-> {}]
StandardFrame == 3

-----------------------------------------------------------------------------
(* The mutators.  f.ids are what a payload packs: records [field, id,      *)
(* starts].  starts is FALSE for what is not what the mutator looks for:   *)
(* the tail of an earlier segment's header, an item that is no CIP         *)
(* identity.  A field is a Domain: DNP3's two addresses are of one.        *)

Mutators == {"modbus", "enip", "s7", "dnp3"}
Matches(f) == f.kind = "ipv4" /\ f.svc \in Mutators

\* The items of a List Identity reply and the parameters of a COTP header have a
\* length and are skipped; where a Modbus or DNP3 header should start, the walk ends.
Walked(f) ==
    IF ~Matches(f) THEN {}
    ELSE {i \in DOMAIN f.ids :
            /\ f.ids[i].starts
            /\ f.svc \in {"modbus", "dnp3"} => \A j \in 1..i : f.ids[j].starts}

Key(h) == <<h.field, h.id>>
Identities(cap) == UNION {{Key(f.ids[i]) : i \in Walked(f)} : f \in ToSet(cap)}

Headers(cap) == UNION {{<<i, j>> : j \in Walked(cap[i])} : i \in DOMAIN cap}
Precedes(p, q) == p[1] < q[1] \/ (p[1] = q[1] /\ p[2] <= q[2])

UsedIn(m, field) == {v \in Ids : <<field, v>> \in m.used}

\* All draws hit used values only if more than half are used: else one time in 2^65.
Draws(used) ==
    {d \in [1..MaxDraws -> Ids] :
        2 * Cardinality(used) <= Cardinality(Ids) => \E i \in 1..MaxDraws : d[i] \notin used}

\* draw_unused: the first unused value, or else the last that was drawn.
Drawn(d, used) == d[MinOf({i \in 1..MaxDraws : d[i] \notin used} \cup {MaxDraws})]

\* map_range, if it did not note that a value is used.
MapRange_Forgets(m, k) ==
    IF k \in DOMAIN m.fwd THEN {m}
    ELSE {[m EXCEPT !.fwd = [l \in DOMAIN @ \cup {k} |-> IF l = k THEN v ELSE @[l]]]
            : v \in {Drawn(d, UsedIn(m, k[1])) : d \in Draws(UsedIn(m, k[1]))}}

\* What the mapper may be after map_range.
MapRange(m, k) ==
    IF k \in DOMAIN m.fwd THEN {m}
    ELSE {[m EXCEPT !.fwd = [l \in DOMAIN @ \cup {k} |-> IF l = k THEN v ELSE @[l]],
                    !.used = @ \cup {<<k[1], v>>}]
            : v \in {Drawn(d, UsedIn(m, k[1])) : d \in Draws(UsedIn(m, k[1]))}}

\* A CIP vendor becomes one of the known devices, which two vendors may share.
Value(field, v) == IF field = "vendor" THEN Profiles[(v % Len(Profiles)) + 1] ELSE v

-----------------------------------------------------------------------------
\* A roster that cannot be read counts as an empty one.
Begin ==
    /\ forge.pc = "idle"
    /\ LET roster == IF index = Unreadable THEN <<>> ELSE index
       IN  /\ Len(roster) + Len(Rounds) <= MaxRoster
           /\ forge' = [pc |-> "clone", round |-> 1, roster |-> roster]
    /\ UNCHANGED <<source, forged, mapper, index>>

Variant == Rounds[forge.round]
Listing == [file |-> Variant, frames |-> Len(forged)]
NextRound(f) ==
    IF f.round = Len(Rounds) THEN [f EXCEPT !.pc = "roster"]
    ELSE [f EXCEPT !.pc = "clone", !.round = @ + 1]

\* What forge_round starts from.
Cloned ==
    IF RemapFirst
    THEN {RemapCapture(Original, fresh) : fresh \in Injection(NetsOf(Original), ForgeNets)}
    ELSE {Original}

Clone ==
    /\ forge.pc = "clone"
    /\ \E cap \in Cloned :
        /\ forged' = cap
        /\ mapper' = [NoMapper EXCEPT !.todo = Headers(cap)]
    /\ forge' = [forge EXCEPT !.pc = "mutate"]
    /\ UNCHANGED <<source, index>>

\* The next identity of the walk is mapped, and written in its place.
Mutate ==
    /\ forge.pc = "mutate"
    /\ \E p \in mapper.todo :
        /\ \A q \in mapper.todo : Precedes(p, q)
        /\ LET h == forged[p[1]].ids[p[2]]
           IN  \E m \in MapRange(mapper, Key(h)) :
                /\ mapper' = [m EXCEPT !.todo = @ \ {p}]
                /\ forged' = [forged EXCEPT ![p[1]].ids[p[2]].id =
                                Value(h.field, m.fwd[Key(h)])]
    /\ UNCHANGED <<source, forge, index>>

Mutated == forge.pc = "mutate" /\ mapper.todo = {}

\* The round's file is created, which empties an earlier variant.
Create ==
    /\ Mutated
    /\ forged' = Fitting(forged, StandardFrame)
    /\ mapper' = NoMapper
    /\ source' = [source EXCEPT ![Variant] = <<>>]
    /\ forge' = [forge EXCEPT !.pc = "write"]
    /\ UNCHANGED index

WriteFrame ==
    /\ forge.pc = "write" /\ Len(source[Variant]) < Len(forged)
    /\ source' = [source EXCEPT ![Variant] = Append(@, forged[Len(@) + 1])]
    /\ UNCHANGED <<forge, forged, mapper, index>>

\* If a file that could not be written were listed as well.
WriteFails_Listed ==
    /\ \/ Mutated
       \/ forge.pc = "write" /\ Len(source[Variant]) < Len(forged)
    /\ forge' = NextRound([forge EXCEPT !.roster = Append(@, Listing)])
    /\ forged' = <<>> /\ mapper' = NoMapper
    /\ UNCHANGED <<source, index>>

\* The file cannot be created, or the disk is full: the round is not listed.
WriteFails ==
    /\ \/ Mutated
       \/ forge.pc = "write" /\ Len(source[Variant]) < Len(forged)
    /\ forge' = NextRound(forge)
    /\ forged' = <<>> /\ mapper' = NoMapper
    /\ UNCHANGED <<source, index>>

\* A file that --validate rejects is listed all the same; the exit code is left out.
Written ==
    /\ forge.pc = "write" /\ source[Variant] = forged
    /\ forge' = NextRound([forge EXCEPT !.roster = Append(@, Listing)])
    /\ forged' = <<>>
    /\ UNCHANGED <<source, mapper, index>>

\* The roster is written, or not, or in part; the exit code does not tell.
Finish ==
    /\ forge.pc = "roster"
    /\ index' \in {forge.roster, index, Unreadable}
    /\ forge' = Idle
    /\ UNCHANGED <<source, forged, mapper>>

\* index.json is being written only at the end.
Crash ==
    /\ forge.pc # "idle"
    /\ index' \in IF forge.pc = "roster" THEN {index, Unreadable} ELSE {index}
    /\ forge' = Idle /\ forged' = <<>> /\ mapper' = NoMapper
    /\ UNCHANGED source

Forging == Begin \/ Clone \/ Mutate \/ Create \/ WriteFrame \/ WriteFails \/ Written \/ Finish \/ Crash

-----------------------------------------------------------------------------
\* draw_unused gives up after MaxDraws, which it does not while half are unused.
Crowded(keys, field) ==
    2 * (Cardinality({k \in keys : k[1] = field}) - 1) > Cardinality(Ids)

\* proto/mapper.rs:3-6, 43-66: in a variant one identity stays one identity, wherever
\* in the capture it is found, and two of a field stay two unless the field has more
\* than half as many as there are values; but two CIP vendors may become one.  This
\* for what a mutator reaches, in frames that were not dropped on the way.
IdentitiesKept ==
    forge.pc = "write" =>
        LET Source(f) == CHOOSE g \in ToSet(Original) : g.ts = f.ts
            pairs == UNION {{<<Source(f).ids[i], f.ids[i]>> : i \in Walked(Source(f))} :
                              f \in ToSet(forged)}
            keys == Identities(Original)
        IN  \A p, q \in pairs : p[1].field = q[1].field =>
                /\ p[1].id = q[1].id => p[2].id = q[2].id
                /\ p[2].id = q[2].id =>
                    p[1].id = q[1].id \/ p[1].field = "vendor" \/ Crowded(keys, p[1].field)

\* reload/mod.rs:75-80, 110-118: what a run is about to add to index.json is on
\* disk with as many frames as the entry says, whatever failed on the way.
ListedIsWhole ==
    forge.pc = "roster" =>
        \A i \in (IF index = Unreadable THEN 1 ELSE Len(index) + 1)..Len(forge.roster) :
            Len(source[forge.roster[i].file]) = forge.roster[i].frames
=============================================================================
