------------------------------ MODULE Service ------------------------------
(***************************************************************************)
(* The two systemd units, ot-turbolaser ("generic") and ot-turbolaser@x    *)
(* ("pack"), around the run loop: `fire` and `down` (control.rs), net-setup *)
(* and net-teardown before and after each start, restarts and start limit. *)
(* Nothing keeps the units apart: they share the bridge, the mirror, the   *)
(* ledger, the heartbeat file and its directory.  systemd and the kernel   *)
(* are external: modelled as the unit files and scripts use them.          *)
(***************************************************************************)
EXTENDS RunLoop

CONSTANTS
    Burst,       \* StartLimitBurst
    MaxEvents    \* bound: operators' commands and changes, and faults

Units == {"generic", "pack"}
Ports == {"replay", "sensor"}

ASSUME ServiceAssumption ==
    /\ Units \subseteq Procs /\ Units \cap Once = {}
    /\ Burst \in Nat \ {0}

VARIABLES
    unit,    \* the units, as systemd sees them
    net,     \* the ports of this host; the bridge, bare or joined by the replay port;
             \* the mirror on that port, bare (a qdisc) or full (with its filters)
    files,   \* whose configuration and pack load, and the ledger's scenario tag
    spent    \* what of the bound is used up

vars == <<pool, loop, status, unit, net, files, spent>>

\* main is the daemon's exit code, where it is 78; n the starts counted in the
\* limit's window, which systemd forgets with a unit that is inactive; spoilt is
\* history: what of bridge and mirror was taken away since this unit's setup had it,
\* both for a unit that has set up nothing.
Parts == {"bridge", "mirror"}
NewUnit == [st |-> "inactive", main |-> 0, halt |-> FALSE, n |-> 0, spoilt |-> Parts]

Init ==
    /\ RunLoopInit
    /\ unit = [u \in Units |-> NewUnit]
    /\ net \in [ports : {Ports, {"replay"}}, bridge : {"none"}, mirror : {"none"},
               skipped : {FALSE}]
    /\ files = [good |-> Units, ledger |-> "none"]
    /\ spent = 0

-----------------------------------------------------------------------------
St(u) == unit[u].st
Becomes(u, st) == unit' = [unit EXCEPT ![u].st = st]
Halts(u, st) == unit' = [unit EXCEPT ![u].halt = TRUE, ![u].st = st]
Resting == {"inactive", "failed"}
InSetup == {"pre", "bridged", "joined", "cleared", "ready"}
Instant == InSetup \cup {"post", "unmirrored"}

\* A part is taken from everybody else, where they have it, while u goes on with r.
Takes(u, r, part) ==
    unit' = [v \in Units |-> IF v = u THEN r ELSE [unit[v] EXCEPT !.spoilt = @ \cup {part}]]

Event == spent < MaxEvents /\ spent' = spent + 1

\* load_with_scenario, and what the engine needs of the pack.
Loads(u) == u \in files.good

\* guard_ledger_scenario.
Tag(p) == IF p = "pack" THEN "pack" ELSE "generic"
Fits(p) == files.ledger \in {"none", Tag(p)}

\* datapath_kind.
SelfContained == net.ports = Ports
Unprovisioned == "replay" \notin net.ports

\* If the limit were never reached.
Started_Unlimited(r) == [r EXCEPT !.st = "pre"]

\* A start job.
Started(r) ==
    IF r.n < Burst THEN [r EXCEPT !.st = "pre", !.n = @ + 1]
    ELSE [r EXCEPT !.st = "failed"]

-----------------------------------------------------------------------------
(* What operators do.                                                      *)

\* `turbolaser fire`: its preflight, then `systemctl enable --now`.  Only the
\* generic unit is kept from another plan's ledger.
Fire(u) ==
    /\ St(u) \in Resting \cup {"waiting"}
    /\ Loads(u) /\ ~Unprovisioned
    /\ u = "generic" => files.ledger # "pack"
    /\ unit' = [unit EXCEPT ![u] = Started(@)]
    /\ Event
    /\ UNCHANGED <<pool, loop, status, net, files>>

\* `turbolaser down`; it ends a daemon by SIGTERM, and a setup at once.
Down(u) ==
    /\ St(u) \notin {"inactive", "stopping"}
    /\ \/ St(u) = "up" /\ Halts(u, "stopping") /\ Sigterm(u)
       \/ St(u) \in InSetup /\ Halts(u, "post") /\ UNCHANGED loop
       \/ St(u) \in {"post", "unmirrored"} /\ Halts(u, St(u)) /\ UNCHANGED loop
       \/ /\ St(u) \in {"failed", "waiting"}
          /\ unit' = [unit EXCEPT ![u] = NewUnit] /\ UNCHANGED loop
    /\ Event
    /\ UNCHANGED <<pool, status, net, files>>

\* `turbolaser net-provision`, and its --undo; both ends of the pair go at once.
Provision ==
    /\ net.ports = {} /\ net' = [net EXCEPT !.ports = Ports]
    /\ Event
    /\ UNCHANGED <<pool, loop, status, unit, files>>

Undo ==
    /\ SelfContained
    /\ net' = [net EXCEPT !.ports = {}, !.mirror = "none",
                          !.bridge = IF @ = "none" THEN @ ELSE "bare"]
    /\ unit' = [u \in Units |-> [unit[u] EXCEPT !.spoilt = Parts]]
    /\ Event
    /\ UNCHANGED <<pool, loop, status, files>>

\* An edit of the configuration or of the pack, `reset`, or `plan --commit`.
Edit ==
    /\ files' \in {[files EXCEPT !.good = g] : g \in {Units, {"generic"}, {}}}
                    \cup {[files EXCEPT !.ledger = l] : l \in {"none", "generic", "pack"}}
    /\ files' # files
    /\ Event
    /\ UNCHANGED <<pool, loop, status, unit, net>>

\* Captures come and go.
Change == Supply /\ Event /\ UNCHANGED <<unit, net, files>>

\* After a reboot there is no bridge and no veth pair, only a port that a hypervisor
\* provides; what is enabled is started.
Reboot ==
    /\ net' = [net EXCEPT !.ports = IF SelfContained THEN {} ELSE @, !.bridge = "none",
                          !.mirror = "none", !.skipped = FALSE]
    /\ loop' = [p \in Procs |-> Off] /\ status' = NoStatus
    /\ unit' = [u \in Units |->
                  IF St(u) = "inactive" THEN NewUnit ELSE Started(NewUnit)]
    /\ Event
    /\ UNCHANGED <<pool, files>>

\* `turbolaser run --once` by hand, and its end.
Hand(p) ==
    /\ p \notin Units
    /\ Loads("generic") /\ Fits(p)
    /\ Begin(p) /\ Event
    /\ UNCHANGED <<pool, unit, net, files>>

HandEnds(p) == p \notin Units /\ End(p) /\ UNCHANGED <<unit, net, files, spent>>

-----------------------------------------------------------------------------
(* What systemd runs for a start.                                          *)

\* A failing ExecStartPre, if ExecStopPost did not follow it.
Aborts_Bare(u) == Becomes(u, "waiting")

\* A failing ExecStartPre, whatever its exit code; ExecStopPost follows.
Aborts(u) == Becomes(u, "post")

\* The pack's test, net-setup's own checks, and the script as far as adding the bridge.
Setup(u) ==
    /\ St(u) = "pre"
    /\ IF ~Loads(u) \/ Unprovisioned THEN Aborts(u) /\ UNCHANGED net
       ELSE IF SelfContained
       THEN /\ net' = [net EXCEPT !.bridge = IF @ = "none" THEN "bare" ELSE @]
            /\ unit' = [unit EXCEPT ![u].st = "bridged", ![u].spoilt = {}]
       ELSE Becomes(u, "ready") /\ UNCHANGED net
    /\ UNCHANGED <<pool, loop, status, files, spent>>

\* The script ends (set -e) with the first command that finds what it needs gone.
\* The bridge comes up and the replay port joins it.
Join(u) ==
    /\ St(u) = "bridged"
    /\ IF net.bridge # "none" /\ SelfContained
       THEN /\ net' = [net EXCEPT !.bridge = "joined"]
            /\ unit' = [unit EXCEPT ![u].st = "joined", ![u].spoilt = @ \ {"bridge"}]
       ELSE Aborts(u) /\ UNCHANGED net
    /\ UNCHANGED <<pool, loop, status, files, spent>>

\* The replay port gets a qdisc, and loses the filters it had.
Clear(u) ==
    /\ St(u) = "joined"
    /\ IF SelfContained
       THEN /\ net' = [net EXCEPT !.mirror = "bare"]
            /\ Takes(u, [unit[u] EXCEPT !.st = "cleared"], "mirror")
       ELSE Aborts(u) /\ UNCHANGED net
    /\ UNCHANGED <<pool, loop, status, files, spent>>

\* If the script went on when a command fails.
Mirror_Careless(u) ==
    /\ St(u) = "cleared"
    /\ net' = [net EXCEPT !.mirror = IF @ = "none" THEN @ ELSE "full"]
    /\ unit' = [unit EXCEPT ![u].st = "ready", ![u].spoilt = @ \ {"mirror"}]
    /\ UNCHANGED <<pool, loop, status, files, spent>>

\* The filters, which need the qdisc; nobody looks at the bridge again.
Mirror(u) ==
    /\ St(u) = "cleared"
    /\ IF net.mirror # "none"
       THEN /\ net' = [net EXCEPT !.mirror = "full"]
            /\ unit' = [unit EXCEPT ![u].st = "ready", ![u].spoilt = @ \ {"mirror"}]
       ELSE Aborts(u) /\ UNCHANGED net
    /\ UNCHANGED <<pool, loop, status, files, spent>>

\* A command of the script fails for another reason.
SetupFails(u) ==
    /\ St(u) \in InSetup \ {"ready"}
    /\ Aborts(u) /\ Event
    /\ UNCHANGED <<pool, loop, status, net, files>>

\* The daemon refuses, with exit code 78, or runs.  A pack's plant is saved at once.
Daemon(u) ==
    /\ St(u) = "ready"
    /\ IF Loads(u) /\ Fits(u)
       THEN /\ Begin(u) /\ Becomes(u, "up")
            /\ files' \in {files} \cup
                 {[files EXCEPT !.ledger = "pack"] : x \in {u} \cap {"pack"}}
       ELSE /\ unit' = [unit EXCEPT ![u].st = "post", ![u].main = 78]
            /\ UNCHANGED <<loop, status, files>>
    /\ UNCHANGED <<pool, net, spent>>

\* The ledger is saved, over whatever the file holds, after a send.
Works(p) ==
    /\ Step(p)
    /\ files' \in {files} \cup {[files EXCEPT !.ledger = Tag(p)] : x \in {p} \cap {q \in Procs : At(q, "send")}}
    /\ UNCHANGED <<unit, net, spent>>

Exits(u) ==
    /\ St(u) \in {"up", "stopping"}
    /\ End(u) /\ unit' = [unit EXCEPT ![u].st = "post"]
    /\ UNCHANGED <<net, files, spent>>

Dies(u) ==
    /\ St(u) \in {"up", "stopping"}
    /\ loop' = [loop EXCEPT ![u] = Off]
    /\ unit' = [unit EXCEPT ![u].st = "post"]
    /\ Event
    /\ UNCHANGED <<pool, status, net, files>>

-----------------------------------------------------------------------------
(* What systemd runs after it.                                             *)

\* If the runtime directory were preserved over restarts.
Forgets_Restart(u) == status' = IF unit[u].halt THEN NoStatus ELSE status

\* The runtime directory of a dead unit goes, and the heartbeat file in it.
Forgets(u) == status' = NoStatus

\* What a dead unit becomes.
Over(r) ==
    IF r.halt THEN NewUnit
    ELSE [r EXCEPT !.st = IF r.main = 78 THEN "failed" ELSE "waiting",
                   !.main = 0, !.spoilt = Parts]

\* net-teardown, unless it finds nothing to do or no configuration.
Teardown(u) ==
    /\ St(u) = "post"
    /\ IF Loads(u) /\ SelfContained
       THEN /\ net' = [net EXCEPT !.mirror = "none"]
            /\ Takes(u, [unit[u] EXCEPT !.st = "unmirrored"], "mirror")
            /\ UNCHANGED status
       ELSE /\ net' = [net EXCEPT !.skipped = @ \/ net.bridge # "none" \/ net.mirror # "none"]
            /\ unit' = [unit EXCEPT ![u] = Over(@)]
            /\ Forgets(u)
    /\ UNCHANGED <<pool, loop, files, spent>>

Unbridge(u) ==
    /\ St(u) = "unmirrored"
    /\ net' = [net EXCEPT !.bridge = "none", !.skipped = @ /\ net.mirror # "none"]
    /\ Takes(u, Over(unit[u]), "bridge")
    /\ Forgets(u)
    /\ UNCHANGED <<pool, loop, files, spent>>

\* RestartSec has passed.
Restart(u) ==
    /\ St(u) = "waiting"
    /\ unit' = [unit EXCEPT ![u] = Started(@)]
    /\ UNCHANGED <<pool, loop, status, net, files, spent>>

\* StartLimitIntervalSec goes by in a long state only: setups, refusals and restart
\* delays are taken to be so short that Burst of them fit in it.
WindowPasses(u) ==
    /\ St(u) \in {"up", "failed"}
    /\ unit' = [unit EXCEPT ![u].n = 0]
    /\ UNCHANGED <<pool, loop, status, net, files, spent>>

System(u) ==
    Setup(u) \/ Join(u) \/ Clear(u) \/ Mirror(u) \/ Daemon(u) \/ Exits(u) \/ Teardown(u) \/ Unbridge(u) \/ Restart(u)

Next ==
    \/ \E u \in Units : Fire(u) \/ Down(u) \/ System(u) \/ WindowPasses(u) \/ SetupFails(u) \/ Dies(u)
    \/ \E p \in Procs : Hand(p) \/ HandEnds(p) \/ Works(p)
    \/ Provision \/ Undo \/ Edit \/ Change \/ Reboot

\* The processes run; a pick that may be any capture is each of them in time.
Fairness ==
    /\ \A p \in Procs : WF_vars(Works(p)) /\ WF_vars(HandEnds(p))
    /\ \A u \in Units :
        /\ WF_vars(System(u))
        /\ \A c \in Captures :
             SF_vars(Works(u) /\ loop'[u].pc = "read" /\ loop'[u].cap = c)

Spec == Init /\ [][Next]_vars
FairSpec == Spec /\ Fairness
-----------------------------------------------------------------------------
(* Properties.                                                             *)

\* Ranges, and that exactly the daemons of running units are in their loop.
TypeOK ==
    /\ pool \in [Captures -> {"absent", "torn", "whole"}]
    /\ status \in Procs \cup {"none"}
    /\ net.ports \subseteq Ports /\ net.skipped \in BOOLEAN
    /\ net.bridge \in {"none", "bare", "joined"} /\ net.mirror \in {"none", "bare", "full"}
    /\ files \in [good : SUBSET Units, ledger : {"none", "generic", "pack"}]
    /\ \A u \in Units :
        /\ St(u) \in Resting \cup Instant \cup {"waiting", "up", "stopping"}
        /\ unit[u].n <= Burst
        /\ ~At(u, "off") <=> St(u) \in {"up", "stopping"}

\* scripts/net-setup.sh:83-130, systemd/ot-turbolaser.service:20: a daemon that
\* sends on a host with both ports has its replay port in the bridge, until somebody
\* takes it out after it joined, and has the mirror, until somebody takes that away
\* after its filters were added.
MirrorHolds ==
    \A u \in Units : At(u, "send") =>
        /\ "bridge" \notin unit[u].spoilt => net.bridge = "joined"
        /\ "mirror" \notin unit[u].spoilt => net.mirror = "full"

\* systemd/ot-turbolaser.service:30-31: no heartbeat is left of a unit that is at
\* rest, so pewpew does not report a daemon that is gone.
NoStaleHeartbeat ==
    \A u \in Units : status = u => St(u) \notin Resting \cup {"waiting"}

\* systemd/ot-turbolaser.service:20-23, control.rs:4-7: however starts failed and
\* daemons ended, units at rest leave no bridge and no mirror behind, unless a
\* teardown found no ports or no configuration.
NothingLeft ==
    (\A u \in Units : St(u) \in Resting) /\ ~net.skipped =>
        net.bridge = "none" /\ net.mirror = "none"

\* systemd/ot-turbolaser.service:6-12: no unit is started again and again for
\* ever; in the end it runs or rests.
GivesUp == \A u \in Units : <>[](St(u) \in Resting \cup {"up"})

\* run/mod.rs:105-108, 275-280, run/signal.rs:1-2: a stop ends the daemon, wherever it is in its loop.
StopEnds == \A u \in Units : St(u) = "stopping" ~> St(u) # "stopping"

Plenty == \E c \in Weighted : pool[c] = "whole"

\* run/mod.rs:110-126, 139-153: as long as there is a good capture the daemon goes on
\* sending, whatever other captures are torn.
KeepsSending ==
    \A u \in Units : <>[](St(u) = "up" /\ Plenty) => []<>At(u, "send")

\* run/mod.rs:261-263: --once ends as long as there are captures and all are good.
OnceEnds ==
    \A p \in Once :
        <>[](Plenty /\ \A c \in Captures : pool[c] # "torn") => []<>At(p, "off")
=============================================================================
