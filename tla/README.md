# A verification of ot-turbolaser

TLA+ modules, TLC configurations and TLAPS proofs for ot-turbolaser, the
appliance that replays ICS/OT captures onto a mirrored wire and, in red-laser
mode, keeps up a fictitious plant of zones and devices a passive sensor
inventories. Everything is written from the Rust sources, unit files and
scripts; paths below are relative to the repository.

## 1. Inventory

| Part | State | Operations | What makes it correct |
|---|---|---|---|
| run loop, `src/run/mod.rs` | iteration counter, last packet count, the shutdown flag | pick, remap, promote, replay, tick, burst, gap | the order of the steps; a stop ends it; a bad capture does not; no original address leaves |
| replay, `src/run/replay.rs` | the tcpreplay child, `killed` | spawn, poll, kill, reap | a recorded success with a count has sent something; every send ends |
| watchdog, `src/run/watchdog.rs` | `active`, `tripped`, `stop` (shared), `last`, `stall` | begin, end, wake, step, stop | only a send that is flat for a whole window is killed |
| session ledger, `src/ledger/mod.rs` | devices, capture hosts, zones, seal, caps, last threat | load, save, reset, add, register | one address per asset, kept for good; a sealed fleet stays as planned |
| red-laser engine, `src/simulate/engine.rs` | the ledger in memory, `dirty`, announce counter, remap cache | red, remap_into_session, red_tick, maybe_promote, evictions | what the sensor saw survives restarts; failed saves are retried; what is served is the plan's and the capture's |
| fabrication, `src/simulate/devices.rs` | none of its own | fabricate, enrich_plant, assign_domains | addresses and MACs unique, caps kept |
| threat promotion, `src/threat/mod.rs` | `next_due` | due, reschedule, promote_host | at most one a day, across restarts |
| L3 remap, `src/proto/l3.rs`, `src/simulate/zones.rs` | none of its own | remap_capture, reconcile_capture_into_zones, filters | no unmapped or public address leaves; hosts keep their asset and its MAC |
| capture files and their cache, `src/pcapio.rs` | files in the capture directory, on tmpfs and beside the captures | read, write, evict, purge | a cached remap is the current capture's, and complete |
| offline reload, `src/reload/`, `src/proto/mutators/`, `src/proto/mapper.rs` | a directory of variants and its `index.json` | forge, validate, index | an identity stays one identity; the index lists what is there |
| scenario timeline, `src/scenario/engine.rs` | phase, cursor, offset, pinned nonce, burst count | phase_frames, advance | every frame in order, once, bounded per burst |
| scenario plant, `src/scenario/plant.rs` | none of its own | build_sealed_session | no two devices on one address |
| roles, `src/simulate/roles.rs` | none | arp_edges, cells_no_orphan, north_south_crossings | every asset answers one resolution, no host sweeps |
| synthesis, `src/synth/` | none; a builder's sequence numbers | one builder per protocol | a stream is whole, an answer is to its question, a connection comes once |
| commands, `src/simulate/mod.rs`, `src/control.rs` | the ledger file, systemd units | plan, reset, fire, down, net-provision, pewpew | the file is never half-written; a mismatch is refused |
| services, `systemd/`, `scripts/` | the units' start counts and exit codes, the bridge, the mirror, the heartbeat file | net-setup, run, net-teardown, restarts | a failing daemon neither loops nor leaves a bridge behind |
| configuration, vendor and vulnerability tables, validation, interface queries | none that changes | pure functions and one-off reads | not concurrent; left out (section 7) |

How they interact. The run loop owns the engine and calls it in turn. It shares
three atomics with the watchdog thread and one with the signal handler, talks to
tcpreplay by a pipe and by signals, to the sensor by the wire, and to the `plan`
and `reset` commands by the ledger file alone, which has no lock. It reads the
capture directory that operators and `turbolaser reload` write into, frame by
frame. systemd starts, stops and restarts it, runs the network scripts around
each start, and may run a second unit over the same bridge, mirror, ledger and
heartbeat file.

The hard behaviours are therefore the interleavings of loop, watchdog, child and
signal; what of the ledger survives when a save fails or the daemon stops between
two steps; commands that write the file under a running daemon; files that are
read while they are written or were cut short earlier; a cache key that does not
name all that the cached remap depends on; the walk through a playbook whose
events do not fit a burst, and what a passive sensor makes of bursts that are
cut or lost; two units that set up and tear down one network. `PROJECT.json`
lists the hazards at their lines, each with the properties that would catch it.

## 2. Modules

| Module | Models | Extends |
|---|---|---|
| `Replay` | run_once, the watchdog, the child and its pipe, the stop signal | |
| `ReplayProofs` | theorems about `Replay` | `Replay` |
| `Playbook` | what a playbook is to the walk | |
| `Script` | what a playbook promises: the abstract specification | `Playbook` |
| `Timeline` | phase_frames, the fate of a burst, restarts; implements `Script` | `Playbook` |
| `MCTimeline` | playbooks for TLC | `Timeline` |
| `TimelineProofs` | theorems about `Timeline` | `Timeline` |
| `Session` | the ledger in memory and on disk, the engine's steps on it, the commands | |
| `MCSession` | zones for TLC | `Session` |
| `SessionProofs` | theorems about `Session` | `Session` |
| `Lists` | the members of a list that are in a set, and a set in order, as recursive functions | |
| `L3` | the remaps, the rewriting of frames and the filters, as operators | `Lists` |
| `CaptureFiles` | the capture directory | `L3` |
| `RemapCache` | remap_into_session, its cache and evictions, the plan that grows around it | `CaptureFiles` |
| `MCRemapCache` | captures and MACs for TLC | `RemapCache` |
| `Reload` | a reload's rounds, mutators and roster | `CaptureFiles` |
| `Host` | a host that runs the daemon or a reload | `RemapCache`, `Reload` |
| `MCReload` | a capture to forge from, for TLC | `MCRemapCache`, `Host` |
| `ListProofs` | facts about numbers, lists, orders and folds for the proofs | `Lists` |
| `HostProofs` | theorems about the captures, variants and cache of `Host` | `Host`, `ListProofs` |
| `PlanProofs` | theorems about the plan of `Host` and what is sent of it | `HostProofs` |
| `RunLoop` | the loop's picks, skips, sends and naps, its heartbeat, `--once` | |
| `Service` | the two units and a run by hand, operators, scripts, restarts, reboots | `RunLoop` |
| `ServiceProofs` | theorems about `Service` | `Service` |
| `Roles` | the ARP cells and the crossings between zones, as operators | `Lists` |
| `Synth` | the frames of every conversation a burst holds, as operators | |
| `Wire` | the announce bursts frame by frame, and a passive sensor | `Roles`, `Synth` |
| `MCWire` | plants and playbooks for TLC | `Wire` |
| `WireProofs` | theorems about `Roles`, and about `Wire`'s bursts and sensor | `Wire`, `ListProofs` |

### Replay

`main` is the run loop's place, `send` tells the capture from the burst that follows it.
`Begin`, `Reap`, `KillChild` and `TryWaitFails` are run_once's calls and returns, `Tick`
and `Gap` what lies between two sends. The watchdog's wake is three steps: it looks at the
flags (`WakeExit`, `WakeIdle`, `WakeActive`), reads the counter (`Sample`,
`SampleUnreadable`) and stores the verdict (`Judge`), so that the other thread can act
between any two. The counter itself is not kept: `last` says whether the watchdog's
reading is still the counter's value. The child sends frames, prints stats lines into a
pipe that is read only after it exits, stalls with the wire, resumes, finishes, fails or
dies. What run_once makes of it is read off what the child left: its exit (`exit`: 0, 0
with a fatal marker, or not 0) and the first count it printed (`report`). A failing child
may leave any of these, also an exit 0 with nothing sent and no count; `Success` is the
code's rule. Relaxed atomics are interleaved, which allows every order the loads and
stores of three independent flags can be observed in here, since each is read afresh at
every use; `begin`'s two stores are one step because a wake between them would need a
sleep of a whole poll to fit there.

### Playbook, Script, Timeline

A phase is its dwell and the running count of frames before each event. `Script`
knows only how many frames of the phase went out and for how many bursts it has
lasted. `Timeline` has the code's variables: `phase_idx` and `event_cursor`
(counted from 1 here), `event_frame_offset`, `spill_nonce`, `bursts_in_phase`,
`announce_count`. One step per turn of phase_frames' while loop: `Drain`
finishes an event, `Spill` fills the burst with part of one, `EndBurst` counts
the burst and may advance. `Fire` and `Lose` are what happens to the burst after
that; `Lose` stands for a pcap that cannot be written, a failed or killed
tcpreplay, and frames dropped as oversized. `Restart` is systemd's.

### Session

`disk` is the file, `mem` the daemon's copy, `cli` the plan a command has built and not
saved yet. A ledger is its number, its pack, its seal, its devices' addresses, its capture
hosts and its last promotion. The daemon's loop is `Remap`, `NoPromotion` or `Promote`,
`Send`, `Tick`, `Send`; each of them saves as the code does, and each save may fail. Where
a host may be put follows `next_free_in` and `place_in_zone`: `Placed`, `Joined` and
`Reconciled` keep the gateway and the station slot off for devices and not for hosts, as
the code does. `mode` is what of [synthesis] is on: with it off a tick returns before it
saves (`TickOff`), and a capture from the cache, or one that cannot be read, changes and
saves nothing (`RemapKnown`). `Stop` is a stop or a crash at any point; `StartLoaded`,
`StartFresh` (also for a file that cannot be read) and `StartPinned` are the ways up.
`PlanCommit`, `PlanSave` and `Reset` run at any time, with or without a daemon. Random
draws (which zone, which interval, which devices) are choices. A save is one step because
the code writes a file of its own and renames it.

### L3, CaptureFiles, RemapCache

`L3` has the pure part of `proto/l3.rs` on frames reduced to what the code reads or
writes: `RemapCapture` is the random remap, `Reconcile` the placement of a capture's hosts
into the zones of the plan, `Cleaned` and `Fitting` the filters that drop what would still
show something real. `RemapCache` is remap_into_session around it, in the steps between
which the capture may change: `Hit` serves a file whose name has the capture's size and
time (in whole seconds), the seed and the registry's generation; `Look` finds none and
remembers time and size; `Miss` reads what is there by then, remaps it, registers the new
hosts, saves the ledger or fails to (`MaySave`), writes the file under the name of what it
looked at (wholly, in part, or not at all) and evicts the oldest when the running estimate
passes the budget. `Stop` leaves what was saved, so that a restart may be back at an older
plan. `Tick` grows the plan after a send, `Copy` is an operator who writes a capture frame
by frame, which takes its time with it, `Second` the clock of the file system, `Start`
purges tmpfs but not the cache beside the captures, `Reset` removes the ledger. Ties in
the votes on a subnet's vendor and protocol are broken by a HashMap's order in the code,
and by every choice here. A host's search for a MAC nobody has counts salts up from zero
in the code and looks among `0..MaxSalt` here, in which `SaltAssumption` says it ends.

### Reload, Host

A reload reads the roster once (`Begin`), forges and writes one variant a round
(`Create`, `WriteFrame`, `Written`, or `WriteFails` at any frame) and writes the
roster once (`Finish`); it may crash anywhere. A round clones the capture, perhaps
remapped (`Clone`), walks it header by header (`Mutate`), and drops what is too long
(`Create`). `MapRange` is the mapper: its two tables, and `draw_unused` as every
sequence of `MaxDraws` values it may draw (65 in the code) of which the first unused one
counts, or the last. While at most half of the values are in use a sequence of used
values alone is left out: it comes once in 2^65. `Host` is the sum
of daemon and reload and not their product: what a reload does to a running
daemon is to write captures frame by frame under it, which is `Copy` already, and
a daemon writes nothing a reload reads.

### RunLoop, Service

A process is at the `top` of the loop, has picked a capture (`read`), sends (`send`),
sleeps (`nap`) or is done (`end`); captures are absent, torn or whole. `Service` puts the
units around it. A unit's state is systemd's view of it: `pre`, `bridged`, `joined` and
`cleared` are places in net-setup, whose commands go to four steps at the points where
another unit's commands make a difference (`Setup` adds the bridge, `Join` puts the replay
port in it, `Clear` gives it a qdisc without filters, `Mirror` adds those), each of which
fails if what its commands need is gone; `ready` is the daemon's own checks, `up` and
`stopping` the loop, `post` and `unmirrored` the two halves of net-teardown, `waiting` the
restart delay. A failing `ExecStartPre` goes to `post` and restarts whatever its exit code
was, the daemon's own exit 78 does not restart, and `Burst` starts in the limit's interval
end in `failed`. `spoilt` is history: what others took from a unit since it had it.
Operators fire, stop, provision and undo, edit configuration and ledger, add and remove
captures, run `--once` by hand and reboot; commands of a script fail and daemons die.
`net-teardown` does nothing when it finds no ports or cannot load its configuration, as
the script has it (`skipped`).

### Roles, Synth, Wire

`Roles` is who asks for whom, `Synth` who says what in which order with which sequence,
transaction and chunk numbers, a frame being a record of its ends, its numbers and the
message it carries. `Wire` builds a burst from them as build_assertions does (ARP edges,
identities, name lookups, crossings), appends the attack frames of the scenario walk over
the rendered events, and sends the result one frame a step. The sensor binds an address
only to an answer it heard the question for, follows streams by their numbers and
conversations by their questions. `clashed` is history: the conversations that an identity
opened while an attack was in the middle of them. A burst can fail to be written, be cut
at any frame, or lose the frames that are too long; the daemon can restart, after which
its counters and ports start again and the sensor is asked about the new life alone.
`Wire` repeats the walk of `Timeline` with real frames: `Timeline` shows that the walk
implements the script for renders of any length, `Wire` that what is sliced that way is
still whole to a listener.

## 3. Runs

| Run | Question | Distinct states |
|---|---|---|
| `replay` | do loop, watchdog, child and signal keep their promises | 247,848 |
| `replay_back_to_back` | is a kill always preceded by a whole flat window (violated) | |
| `timeline` | does the walk implement the script, fill bursts, pin renders, keep going | @timeline |
| `timeline_lost` | does an action fully land before the timeline moves (violated) | |
| `session` | do identities, seal and threat floor survive restarts, failed saves and commands, and is an unsaved change saved in the end | @session |
| `session_commit` | is a committed plan what the daemon goes on with (violated) | |
| `remap` | is what is served nothing real, and the plan's, over failed saves, cut files, a stale cache and restarts; is each variant of a reload consistent, over the mapper's draws and the mutators' walk, and its roster true | @remap |
| `remap_hits` | is a file served only for the capture as it is, though it is replaced at any point | @remap_hits |
| `remap_rollback` | is a hit of the present plan (violated) | |
| `remap_mac` | does a host's traffic carry its asset's MAC (violated) | |
| `wire` | can a passive sensor bind every asset and follow every conversation, and does nobody scan | @wire |
| `service` | does the mirror hold, is nothing left behind, does no unit restart for ever, does a stop end it, does a daemon with a good capture go on, and does `--once` end | @service |

Bounds, and why they are enough.

`Replay.cfg`: a poll of 2 and a window of 3 seconds, so that the window is not a multiple
of the poll; two frames a send, so that a child can stall after the first, and a count may
be of none, some or all; a pipe of one line, so that it fills; one frame of an abandoned
child. Flat seconds and the history clocks saturate at the window, which is all the code
compares them with.

`Timeline.cfg`: a cap of 2 and events of 0, 1, 2 and 5 frames, which renders
events that fit, fill, and need three bursts; dwells below and above what the
events need; nonces wrap at 11, beyond what a phase can reuse; one restart.

`Session.cfg`: one zone of two device addresses and a station slot, one origin,
caps of 2, so that both caps are reached; two ledgers made, so that a commit or a
fresh start meets an earlier one; a clock to 2, which leaves room for two
promotions a floor apart; synthesis that grows the plan, and none. A tick that only
renames zones (`"rename"`) does to this state what one does that finds no room to grow.
The violated run has two zones and two origins. What more of each would add is covered
by `SessionProofs`, which bounds nothing. The
asset history is kept for ledgers that can still be used, and a send counts as
showing every asset: both only ask more of the session.

`RemapCache.cfg`: subnets of eight addresses; two captures, one of them cached beside its
file; two subnets the plan can draw and one for random moves; an asset cap of 3 and two
devices, so that a host can find the plan full or a MAC taken; budgets of 4 and 5 frames
and headers, so that one file fits and two do not; one file cut short at a time; three
ledgers made or rolled back. The captures stay as they are in it: `RemapHits.cfg` has one
that is written again and again instead, in up to three different seconds, by versions of
equal and of different length, with a smaller plan and no cut files. The reload of
`RemapCache.cfg` has two rounds, and a roster of four entries, so that a second run meets
the entries of a first; a capture whose identities are one more in a field than there are
values, or as many, and up to two draws, so that fields are crowded and not; two CIP
profiles, payloads of several headers with a tail that looks like one and an item that is
none, and a frame that is too long. No deadlock check: at the bounds all
stop.

`Wire.cfg`: zones of 16 addresses, three runs of the loop and one restart. One
plan grows to twelve devices of a zone, which with its station is two full cells
and one over, and has one capture host at a station's slot and one alone in a
zone; six sealed plants have playbooks with every kind of event, a cap of nine
frames, so that conversations span bursts, and targets by address, model, class and none.
A seventh has a device whose identity port in the second burst is that of a download
that the first has begun.
Ports and sequence numbers wrap at 16, and `PortsAssumption` of `MCWire` says that no port
comes round again within the bounds: reuse after 16384 bursts is out of view.

`Service.cfg`: both units and one run by hand, start limit 2, three events among all
commands, faults and changes: a daemon that runs, a change under it, the other unit's
start or stop. There are two captures, so that a torn one can stand in the way, both with
a weight: one of weight 0 is never picked, which is `Selectable`'s guard, and none is in
the run.

## 4. Fairness

`Replay`: both threads are scheduled, system calls need not fail for ever; a child
that is neither stalled nor killed goes on; SIGKILL works; the sysfs counter is
not unreadable for ever. Nothing is assumed of the wire, of a stalled child or
of signals. `Timeline`: the run loop comes round and announces fall due; sends may
all be lost. `Session`: the loop goes on, and of the saves of a tick not all
fail (strong fairness of a tick that saves); that a capture is remapped anew is not
assumed. `Service`: each process's steps and
systemd's own jobs go on; among captures with a weight every one is picked in
time (strong fairness of each pick), which is what a weighted random draw gives.
Nothing is assumed of operators, faults and captures, nor of the start limit's
interval, except that its budget is not renewed between starts that fail, so that
`Burst` of those are taken to fit in it. `RemapCache`, `Reload` and
`Wire` are checked for safety only.

## 5. Findings

The five violated runs are disagreements between the code and its own comments:

- `replay_back_to_back`: the watchdog forgets its flat seconds only if it wakes
  between two sends; the burst follows the capture at once.
- `timeline_lost`: a burst that never reached the wire is not sent again.
- `session_commit`: the running daemon's save overwrites a committed plan.
- `remap_rollback`: a save fails, the daemon is restarted with the ledger of before and
  registers another host; the spill file made for the lost plan has the name that the
  next remap of its capture would have, and is sent.
- `remap_mac`: a capture host's MAC is salted when another asset has its natural
  one, but `device_macs` holds fabricated devices only (`src/simulate/engine.rs:447`),
  so every remap after the one that registered the host shows the natural MAC.

Others that the models contain, where the properties say less than a comment does:

- The watchdog leaves on the stop signal, and with it the only thing that ends a stalled
  child (`src/run/watchdog.rs:44`); systemd's own stop timeout (SIGKILL), which is not
  part of the model, is what remains. `StopEnds` excepts a stalled child.
- Of the counts that `--stats=1` prints each second the first is taken for the final one
  (`src/run/replay.rs:32,84-86`). `SuccessIsSent` asks only that something was sent.
- Fabrication does not look at the asset cap (`src/simulate/engine.rs:527`), so the plan of
  an unsealed session may pass it; no property says that it does not.
- With [synthesis] off and every capture in the cache nothing writes a ledger whose save
  failed once (`src/simulate/engine.rs:312-314,521-523`). `SavedEventually` is said with
  [synthesis] on.
- A cache file whose writing failed has its final name and is a hit
  (`src/simulate/engine.rs:312,400`). `NothingReal` covers what is in it.
- Identities and events draw ports from one range between the same two ends, so an
  identity's SYN can fall into an attack session that is half sent
  (`src/scenario/engine.rs:285`). `StreamsWhole` and `AnswersMatch` are not about it.
- Only the first commands of net-setup need the bridge, so the other unit's teardown can
  remove it in between, and setup still exits 0. `MirrorHolds` then excuses the bridge.

## 6. Proofs

All for every value of the constants allowed by the named assumptions, in eight
modules. A proof of an invariant has one step per action and one lemma per
strengthening.

`ReplayProofs` proves type correctness and, from it, `SuccessIsSent`,
`FlatMeansQuiet` and `KillNeedsWindow`. `SuccessIsSent` rests on the first count the
child printed (`CountInv`): if that is of some frames or all, some are out, and it is
of this child, because run_once's end forgets it. The last two are not inductive as they
stand: their invariants relate the watchdog's flat seconds to the history clocks.
For `FlatMeansQuiet`: with an unchanged reading (`last = "same"`) the flat seconds
are never ahead of the quiet time, corrected by the poll in progress. For
`KillNeedsWindow`: in a send that began after an idle wake, a trip, or flat
seconds at the window, mean that the window has passed since `begin()`.

`TimelineProofs` proves type correctness (an event in mid-spill has sent some of
its frames and not all, and only then is a nonce pinned), `BurstFilled`,
`OneRender`, and that `Timeline` implements `Script` under the mapping
`sent <- Sent, age <- bursts`: `Drain` and `Spill` stutter, `EndBurst` is a `Burst`.

`SessionProofs` proves type correctness (in memory, in the file and in a plan
about to be committed, an address has one asset and an origin one address),
`CleanIsSaved`, `SealedAsPlanned`, `AssetKeepsAddress` and `ThreatFloor`. The
strengthenings: `Distinct` (a plan about to be saved is nobody else's ledger, and
a daemon that is down owes no save), `AllPlanned` (a ledger anywhere is sealed
only with its planned devices), `Remembered` (what the sensor saw of a ledger
that can come back is in the daemon's copy, or in the file once that copy is
gone), `Anchored` (a running daemon's next promotion is a floor away, and the
ledger it would restart from knows of the last one). It rests on finite,
disjoint zones (`ZonesAssumption`) and on intervals no shorter than the floor
(`ThreatAssumption`), which is what the clamp in `src/threat/mod.rs` gives.

`ServiceProofs` proves type correctness (a daemon is in its loop exactly while its unit
runs), `MirrorHolds`, `NoStaleHeartbeat` and `NothingLeft`. `Built` says of every unit
from the middle of its setup on that its replay port is in the bridge and, once the
filters are added, that there is a mirror, unless somebody took them from it since; a step
that takes one marks that for every other unit that had it (`OthersBuilt`, `TakesTo`), and
a unit before its setup claims nothing. `Owed` says that while there is a bridge or a
mirror some unit is in a state from which it will still take it away, unless a teardown
was skipped. `NothingLeft` is not inductive without it: nothing else ties a bridge to the
units of which one must be on its way down. `RunLoopAssumption` and `ServiceAssumption`
are all it needs: any number of processes and captures, and any start limit above zero.

`HostProofs` proves four properties of a host that runs the daemon or a reload.
`ListedIsWhole` rests on `RosterInv`: between start and roster, an entry added is a
variant of an earlier round, whose file nothing touches any more, because the rounds'
names are distinct (`HostAssumption`: a variant's name has the number of its round).
`IdentitiesKept` follows the walk header by header. `WorkInv` says that the mapper's two
tables agree (`MapOK`: a value is noted as used exactly if an identity of the field has
it, and two identities share one only in a crowd), that the frames are the capture's,
moved without a change of their headers, and of each header the walk reaches that it is
still to do and the original's, or has the value of the original's identity. A draw
(`DrawnFacts`) gives a new value unless more than half are in use, which `ValuesFew` ties
to the number of identities of the field. That times tell the frames of the capture apart
is part of `ReloadAssumption`. `ServedStays` is about the cache: `Put` appends, and
`Evicted` never takes the last. `CacheBounded` is not inductive: its invariant `BoundInv`
says of each directory that the estimate, where there is one, is no less than what the
complete files weigh, so that whenever they pass the budget the directory is walked, and
that what a walk leaves fits or is one file.

`PlanProofs` proves, of the same specification, `NothingReal`, `WireIsPlanned`,
`ServedIsCurrent` and `RemapCache`'s type correctness. The first two and the last go by
one invariant (`HostInv`): `PlanInv` says that no two assets of the plan share an address
or a MAC, no two hosts an origin, and that every zone has a device (`PlanOK`), that files
of a directory have distinct names, and of every file (`EntryOK`) that it shows no host of
the capture it was made from and, if the plan made it for the present ledger, only assets
of the present plan; the last holds on because a plan only grows, or is rolled back, after
which it counts as another one (`RolledBack`). `WireIsPlanned` says nothing of a file made
for another ledger of the same seed, which `remap_rollback` shows to be sent.
`ServedIsCurrent` has an invariant of its own (`CurrentInv`): of a file made of frames at
rest, either its capture has been written in a later second, and no look will give its
name again, or the capture is what the file was made of. That every zone has a device is
what leaves no host without an asset to ride. A miss is the hard step. It remaps by a fold
over the hosts of a capture, registers what that made by another, and a tick grows the
plan by a third; each has an invariant of its accumulator. `AccInv` of `Assign`: what is
mapped so far goes to an asset of the plan or to one made by this remap, those have
addresses and MACs of their own in zones of the plan, and no more are made than the budget
allows. `RegisteredAll` and `GrownAll`: every asset made is registered, since none meets
the cap or another's address.

How folds are followed. tlapm 1.4.5 can cite no theorem about an operator that is a
parameter, but it can instantiate a module: `ListProofs` has a CONSTANT `Op(_, _)`
and proves of it that `FoldLeft(Op, ..)` has its steps (`FoldSteps`), and a proof
that needs a fold of `Assign` says `INSTANCE ListProofs WITH Op <- Assign`. Induction
over positions is an argument about the set of positions at which the claim holds
(`Upward`, `Downward`). For the same reason `Lists!Kept` stands where SelectSeq
would, whose test is an operator, and `Lists!With` where `:>` and `@@` would, which are
defined by `Assert`.

The assumptions on constants these proofs use, and why the code gives them.
`SaltAssumption`: an address has more MACs, over all salts, than there can be
assets; `host_mac_salted` and `make_mac` draw 24 bits anew for each salt, and the
code's search, which has no bound, would otherwise not end. `TieAssumption`: the
tiebreak of a group tells zones apart; splitmix64 is a bijection and zones have
distinct networks. `CapturesAssumption` and `LimitsAssumption`: types, and limits
above zero (`src/config.rs` checks them). TLC evaluates all of them in the runs.

`WireProofs` begins with operators: in a zone of any size, `ZoneNodes` gives at least
two nodes, `Cells` cuts them into cells of two to `CELL_SIZE`, every node is asked
for by another (`EveryNodeAsked`), and a cell's first node asks all but one of its
edges (`NobodySweeps`). `Cells` is a recursive function; that it is well defined
(`FromExists`) and what it returns (`CellsFrom`) are shown without an induction
theorem, by the last position at which they would fail (`Downward`). No node is in
two cells (`CellsApart`), so that what one address asks for stays below `CELL_SIZE`
(`FewAsked`), and zones share no address, so that it stays there for a whole plant
(`ArpEdgesOK`).

It goes on to what `Wire` sends, and proves `TypeOK`, `EveryAssetBinds` and `NoScan`.
`ArpOK` says of the frames of a burst that every asset's answer follows a question for
it, that answers for an asset's address carry its MAC, and that nobody asks for too
many. The resolutions have it (`ResolvesOK`); nothing else in a burst is an ARP frame
(`Quiet`: `QuietIdentity`, `QuietName`, and, through the fold over the events of a
phase, `PhaseFramesOK`), and dropping what is too long keeps it (`ArpKept`), a
resolution being short. `EveryAssetBinds` speaks only of a burst's end. What holds
on the way is `ArpInv`: each announced asset is bound, or its question was asked and
its answer is still to be sent, or both are to be sent, in this order; and what was
asked and is to be asked together are few. With it go `PlanInv` (the plan's devices
are the first of a plant in which nobody shares an address), `WalkIn` (the cursor is
in its phase, and a nonce is pinned exactly in mid-spill) and `BurstInv`.

`WorldsAssumption` is what `Wire` starts from: addresses are in their zones and
nobody's twice, which is what the ledger keeps (`SessionProofs` proves it of
`Session`), a device with a vulnerability speaks one of the four protocols of
a profile, and a playbook's events are of the kinds that `EmitKind` names, as
playbook.rs parses them. The exclusive or in the ports is the constant `BitXor`, of
which the proofs assume nothing: no module with a theorem can use Bitwise.

Only checked, not proved: everything under fairness (`SendEnds`, `StopEnds`,
`Campaigning`, `SavedEventually`, `GivesUp`, `KeepsSending`, `OnceEnds`), which is
out of the prover's reach with ENABLED; `FreshRender` and `FreshConnections`, which
need the bounds on nonces of their runs, the latter also `BitXor`'s bits; and
`StreamsWhole` and `AnswersMatch`, which are about every frame of every conversation
between its first and its last, over bursts that slice them. No module declares a
recursive operator.

## 7. Not modelled

- Configuration and command line: parsed once. The checked ranges are the assumptions on
  the constants; whether a file loads at all is an operator's choice in `Service`.
- Byte layouts and checksums, of parsing, rewriting and synthesis; IPv6, of which the code
  only drops what it cannot map. `iec104::double_command` and
  `modbus_write::write_multiple_registers`: no event uses them.
- OUI and vulnerability tables, validation tools, interface queries: read-only, offline,
  or both. `net-show`, `zones` and the layout of `pewpew`: they write nothing.
- The profiles, names, domains and the supporting cast of fabricated devices, and the
  parsing and validation of a scenario pack: data the properties do not tell apart. Their
  number, addresses and MACs are modelled.
- The reading of a capture is one step, though the look at its time and size is another;
  `cp -p` and other tools that set a time back, after which a capture may have the time
  and size that it had before with other frames; and all that is written twice in one
  second, for which `ServedIsCurrent` claims nothing.
- In `Session`: the renaming of zones, beyond that it makes a save due, and a capture
  whose new hosts go to several zones (one remap fills one zone at a time).
- In `Wire`: `[synthesis]` and its device identities switched off, after which there is no
  burst or one without identities; a conversation is known by its two ends and ports, not
  by whether it is TCP or UDP.
- An empty list of CIP profiles, with which vendors are left as they are.
- The rewriting of a promoted host's payloads: no state but the ledger's anchor.
- Open vSwitch, and net-setup's refusal of physical ports; the rates, gap distributions,
  weights and the heartbeat's wording.
- The per-variant manifest and the exit code of a reload, and two reloads into one
  directory at once.
- The backstop for captures with public sources: it stands behind a remap that every valid
  configuration switches on.

Hazards with no or partial cover, and why, are noted in `PROJECT.json`: among them a
counter file that stays unreadable, two units that run at once (the teardown of one takes
bridge and mirror from the other, which `MirrorHolds` excuses until its next setup, and
`pewpew` shows one's heartbeat for the other), starts that fail so slowly that fewer than
the limit's five fall into any minute, a start that fails in `ExecStartPre` with exit 78,
which is tried again until the limit though the unit's comment says once, a station that
goes on polling from an address a host was given, and a restarted daemon that opens the
connections of its earlier life again.

## 8. Plan

1. Two reloads at once, and the roster each writes over the other's.
2. The plant of a pack and the bill of materials of fabricated zones, and the
   promotion's rewriting, against reference definitions.
3. Proofs of `StreamsWhole` and `AnswersMatch`: first what a whole script of `Synth`
   does to a listener, then that a spilled event's rest continues it.
