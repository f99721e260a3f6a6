-------------------------- MODULE ApplyTransaction --------------------------
(***************************************************************************)
(* One apply as a transaction over every subsystem of the router:          *)
(* frfw.provision.apply_all and its steps, the undo journal of             *)
(* frfw.transaction, the ruleset backups of frfw.apply, and the boot's     *)
(* fallbacks in frfw.cli (`apply --fail-closed`).                          *)
(*                                                                         *)
(* What a subsystem holds is a set of settings: {} is off or never set,    *)
(* {c} is exactly what config c asks for, and anything else is the result  *)
(* of a step that did part of its work.  The runs of one router are        *)
(* sequential here; that they are is the subject of module ApplyConfirm.   *)
(***************************************************************************)
EXTENDS Integers, Sequences

CONSTANTS
  Configs,           \* the configs an apply may be given
  NoConfig,          \* no config was ever applied in full
  On, Baseline,      \* the other settings: forwarding on, BASELINE_RULESET
  VpnConfigs, Ipv6Configs, DhcpConfigs, DnsConfigs, XdpConfigs,
                     \* the configs with that feature on
  ScheduledConfigs,  \* the configs with scheduled rules
  Hosts,             \* the addresses the helper may ban
  Retention,         \* BACKUP_RETENTION: the ruleset backups kept
  MaxFaults,         \* bound: failing calls in one behaviour
  MaxRuns,           \* bound: runs of the steps in one behaviour
  PendingAtBoot,     \* whether a boot may find an apply still pending ...
  Obsolete,          \* ... and the config before it no longer valid
  Interleaved        \* helper operations that may run during an apply: none
                     \* when the single-threaded helper is the one applying

ASSUME TransactionAssumption ==
  /\ NoConfig \notin Configs /\ On \notin Configs /\ Baseline \notin Configs
  /\ VpnConfigs \subseteq Configs /\ Ipv6Configs \subseteq Configs
  /\ DhcpConfigs \subseteq Configs /\ DnsConfigs \subseteq Configs
  /\ XdpConfigs \subseteq Configs /\ ScheduledConfigs \subseteq Configs
  /\ Retention \in Nat \ {0} /\ MaxFaults \in Nat /\ MaxRuns \in Nat
  /\ PendingAtBoot \in BOOLEAN /\ Obsolete \in BOOLEAN
  /\ Interleaved \subseteq {"ban", "rollback"}

Settings == Configs \cup {On, Baseline}
MaybeConfig == Configs \cup {NoConfig}

(* The steps of _Run._steps, in the order it takes them.                   *)
Firewall   == 1
Forwarding == 2
WireGuard  == 3
Addresses  == 4
Ipv6       == 5
Dhcp       == 6
Dns        == 7
Xdp        == 8
TlsKex     == 9
SshKex     == 10
SshListen  == 11
WebuiListen == 12
Steps == 1..12

KernelSteps == {Firewall, Forwarding, WireGuard, Addresses, Xdp}

VARIABLES
  live,      \* live[s]: the settings subsystem s holds
  jail,      \* the members of the sets every ruleset has (bans, quarantines)
  schedule,  \* the config whose schedule is recorded (SCHEDULE_STATE_PATH)
  record,    \* the config last applied in full (APPLIED_CONFIG_PATH)
  backups,   \* the ruleset backups, oldest first
  pc,        \* where the run is
  at,        \* the step the run takes next
  run,       \* the run's config, the record when it began, and its kind
  snapshot,  \* the members read before the reload (RuntimeSets)
  captured,  \* what _firewall_undo captured: the sets and the schedule
  journal,   \* the undo journal
  notBack,   \* the steps whose undo failed or that have none
  before,    \* history: live when the run began
  up,        \* the boot's fr-firewall.service has finished
  faults, runs

kernel == <<live, jail, schedule, backups>>
local  == <<at, run, snapshot, captured, journal, notBack, before>>
bounds == <<faults, runs>>
vars == <<kernel, record, pc, local, up, bounds>>

Entry == [step : Steps, undo : {"rebuild", "restore", "none"}, to : SUBSET Settings]

TypeOK ==
  /\ live \in [Steps -> SUBSET Settings]
  /\ jail \subseteq Hosts /\ snapshot \subseteq Hosts
  /\ schedule \in MaybeConfig /\ record \in MaybeConfig
  /\ backups \in Seq([rules : SUBSET Settings, jail : SUBSET Hosts])
  /\ pc \in {"idle", "preflight", "read", "steps", "record", "undo", "reload", "failed"}
  /\ at \in Steps
  /\ run \in [config : Configs, boot : Configs, previous : MaybeConfig,
              kind : {"apply", "boot", "last", "resort", "revert", "regardless"}]
  /\ captured \in [jail : SUBSET Hosts, schedule : MaybeConfig]
  /\ journal \in Seq(Entry)
  /\ notBack \subseteq Steps
  /\ before \in [Steps -> SUBSET Settings]
  /\ up \in BOOLEAN
  /\ faults \in Nat /\ runs \in Nat
-----------------------------------------------------------------------------
(* What step s makes of its subsystem for config c.  DHCP alone is left as *)
(* it is by a config without the feature: kea.apply_dhcp_config is a no-op *)
(* when the config has no DHCP zones.                                      *)
Target(s, c) ==
  CASE s = Forwarding -> {On}
    [] s = WireGuard -> {c} \cap VpnConfigs
    [] s = Ipv6 -> {c} \cap Ipv6Configs
    [] s = Dns -> {c} \cap DnsConfigs
    [] s = Xdp -> {c} \cap XdpConfigs
    [] s = Dhcp -> IF c \in DhcpConfigs THEN {c} ELSE live[Dhcp]
    [] s = Addresses -> (live[Addresses] \ {run.previous}) \cup {c}
    [] OTHER -> {c}

(* A mutant of Journalled: IPv6 is journalled only when it becomes on.     *)
JournalledWhenOn(s) ==
  CASE s = Ipv6 -> run.config \in Ipv6Configs
    [] s = Dhcp -> run.config \in DhcpConfigs
    [] s = WebuiListen -> FALSE
    [] OTHER -> TRUE

(* Whether step s is journalled: IPv6 only when it was or becomes on, DHCP *)
(* only with zones, and the webUI's listen addresses never.                *)
Journalled(s) ==
  CASE s = Ipv6 -> \/ run.config \in Ipv6Configs
                   \/ run.previous \in Ipv6Configs
                   \/ live[Ipv6] # {}
    [] s = Dhcp -> run.config \in DhcpConfigs
    [] s = WebuiListen -> FALSE
    [] OTHER -> TRUE

(* A mutant of UndoOf: without a ruleset to go back to, the table is        *)
(* removed.                                                                *)
UndoByRemoval(s) ==
  LET previous == IF run.previous # NoConfig THEN Target(s, run.previous) ELSE {}
  IN  IF s \in {Firewall, WireGuard, Xdp} /\ run.previous # NoConfig
      THEN [step |-> s, undo |-> "rebuild", to |-> previous]
      ELSE [step |-> s, undo |-> "restore", to |-> live[s]]

(* The undo Transaction.begin records for step s: the step itself with the *)
(* config recorded as applied, what was there, or none.                    *)
UndoOf(s) ==
  LET rebuild(to) == [step |-> s, undo |-> "rebuild", to |-> to]
      restore(to) == [step |-> s, undo |-> "restore", to |-> to]
      none        == [step |-> s, undo |-> "none", to |-> {}]
  IN  CASE s = Firewall ->
             IF run.previous # NoConfig THEN rebuild({run.previous})
             ELSE IF live[s] # {} THEN restore(live[s]) ELSE none
        [] s \in {WireGuard, Xdp} ->
             IF run.previous # NoConfig THEN rebuild(Target(s, run.previous))
             ELSE IF live[s] = {} THEN rebuild({}) ELSE none
        [] OTHER -> restore(live[s])

Transactional == run.kind \notin {"resort", "regardless"}

(* Transaction.begin, and nothing in the boot's last resorts.              *)
Begin(s) ==
  journal' = IF Transactional /\ Journalled(s) THEN Append(journal, UndoOf(s)) ELSE journal

(* _Run.run: a failing step is rolled back, but for the last resort.       *)
AfterFailure == IF Transactional THEN "undo" ELSE "failed"

Fault == faults < MaxFaults /\ faults' = faults + 1

(* What a failing step may leave: sysctl and the webUI's record are one    *)
(* write each, every other step makes one call after the other, and may    *)
(* have done any part of its work.                                         *)
PartOf(s, to) ==
  IF s \in {Forwarding, WebuiListen} THEN {live[s]} ELSE SUBSET (live[s] \cup to)

Scheduled(c) == IF c \in ScheduledConfigs THEN c ELSE NoConfig

(* A mutant of BackedUp: a backup is written when no ruleset is loaded too. *)
BackedUpAlways ==
  LET more == Append(backups, [rules |-> live[Firewall], jail |-> jail])
  IN  {IF Len(more) > Retention THEN Tail(more) ELSE more}

(* _backup_current_ruleset and _prune_backups: a new backup, or, within    *)
(* one second of the last, that one overwritten (the name is a timestamp   *)
(* in seconds).                                                            *)
BackedUp ==
  LET now  == [rules |-> live[Firewall], jail |-> jail]
      more == Append(backups, now)
      last == Len(backups)
  IN  IF live[Firewall] = {} THEN {backups}
      ELSE {IF Len(more) > Retention THEN Tail(more) ELSE more}
           \cup {[backups EXCEPT ![last] = now] : i \in {last} \ {0}}
-----------------------------------------------------------------------------
Init ==
  /\ live = [s \in Steps |-> {}]
  /\ jail = {} /\ snapshot = {}
  /\ schedule = NoConfig /\ record = NoConfig
  /\ backups = <<>>
  /\ pc = "idle" /\ at = Firewall
  /\ run \in [config : Configs, boot : Configs, previous : {NoConfig}, kind : {"apply"}]
  /\ run.config = run.boot
  /\ captured = [jail |-> {}, schedule |-> NoConfig]
  /\ journal = <<>> /\ notBack = {}
  /\ before = live
  /\ up = FALSE
  /\ faults = 0 /\ runs = 0

(* A new _Run, of config c: its record is read, its journal is empty.      *)
StartRun(c, kind, boot) ==
  /\ run' = [config |-> c, boot |-> boot, previous |-> record, kind |-> kind]
  /\ pc' = IF kind \in {"resort", "regardless"} THEN "read" ELSE "preflight"
  /\ at' = Firewall
  /\ journal' = <<>> /\ notBack' = {}
  /\ before' = live
  /\ UNCHANGED <<snapshot, captured>>

(* apply_all from the helper, the command line, the waiting unit or the    *)
(* schedule check.                                                         *)
Apply(c) ==
  /\ pc = "idle" /\ up
  /\ runs < MaxRuns /\ runs' = runs + 1
  /\ StartRun(c, "apply", c)
  /\ UNCHANGED <<kernel, record, up, faults>>

(* fr-firewall.service, at boot or restarted by an update: config.yaml.    *)
Boot(c) ==
  /\ pc = "idle"
  /\ runs < MaxRuns /\ runs' = runs + 1
  /\ StartRun(c, "boot", c)
  /\ UNCHANGED <<kernel, record, up, faults>>

(* fr-firewall.service when an apply is still pending: _boot_apply of the  *)
(* config applied before it.                                               *)
BootRevert(c) ==
  /\ pc = "idle" /\ PendingAtBoot /\ record # NoConfig
  /\ runs < MaxRuns /\ runs' = runs + 1
  /\ StartRun(c, "revert", c)
  /\ UNCHANGED <<kernel, record, up, faults>>

(* ... and when that one is no longer valid: revert keeps the apply, loads *)
(* nothing, and the boot ends.                                             *)
BootRevertImpossible ==
  /\ pc = "idle" /\ PendingAtBoot /\ Obsolete /\ record # NoConfig
  /\ runs < MaxRuns /\ runs' = runs + 1
  /\ up' = TRUE
  /\ UNCHANGED <<kernel, record, pc, local, faults>>

(* fr-firewall.service without a usable config.yaml: with none at all the  *)
(* baseline replaces whatever is loaded, an invalid one loads it only when *)
(* nothing is.                                                             *)
BootBaseline ==
  /\ pc = "idle" /\ ~up
  /\ live' = [live EXCEPT ![Firewall] = {Baseline}]
  /\ jail' = {}
  /\ up' = TRUE
  /\ UNCHANGED <<schedule, backups, record, pc, local, bounds>>

(* preflight: everything that can be checked without a change.             *)
Preflight ==
  /\ pc = "preflight"
  /\ \/ pc' = "read" /\ UNCHANGED faults
     \/ pc' = "failed" /\ Fault
  /\ UNCHANGED <<kernel, record, local, up, runs>>

(* A mutant of ReadSets: the reload carries what an earlier run read.       *)
ReadSetsStale ==
  /\ pc = "read"
  /\ pc' = "steps"
  /\ UNCHANGED <<kernel, record, local, up, bounds>>

(* _read_runtime_sets: a read that fails stops the run before any change.  *)
ReadSets ==
  /\ pc = "read"
  /\ \/ pc' = "steps" /\ snapshot' = jail /\ UNCHANGED faults
     \/ pc' = "failed" /\ Fault /\ UNCHANGED snapshot
  /\ UNCHANGED <<kernel, record, at, run, captured, journal, notBack, before, up, runs>>

(* The firewall step: the running ruleset is backed up, then replaced in   *)
(* one nft transaction that carries the members read before; the schedule  *)
(* record is written after it, and writing it may fail.                    *)
FirewallStep ==
  /\ pc = "steps" /\ at = Firewall
  /\ Begin(Firewall)
  /\ captured' = [jail |-> jail, schedule |-> schedule]
  /\ backups' \in BackedUp
  /\ live' = [live EXCEPT ![Firewall] = {run.config}]
  /\ jail' = snapshot
  /\ \/ /\ schedule' = Scheduled(run.config)
        /\ at' = Forwarding
        /\ UNCHANGED <<pc, faults>>
     \/ /\ Fault
        /\ pc' = AfterFailure
        /\ UNCHANGED <<schedule, at>>
  /\ UNCHANGED <<record, run, snapshot, notBack, before, up, runs>>

(* nft refuses the ruleset, before or after the backup was written.        *)
FirewallRejected ==
  /\ pc = "steps" /\ at = Firewall
  /\ Fault
  /\ Begin(Firewall)
  /\ captured' = [jail |-> jail, schedule |-> schedule]
  /\ backups' \in BackedUp \cup {backups}
  /\ pc' = AfterFailure
  /\ UNCHANGED <<live, jail, schedule, record, at, run, snapshot, notBack, before, up, runs>>

(* A mutant of Step: no step is the last one.                              *)
StepForever ==
  /\ pc = "steps" /\ at # Firewall
  /\ Begin(at)
  /\ live' = [live EXCEPT ![at] = Target(at, run.config)]
  /\ at' = at + 1
  /\ UNCHANGED <<jail, schedule, backups, record, pc, run, snapshot, captured, notBack, before, up, bounds>>

(* Every later step: its undo is journalled, then its subsystem changes.   *)
Step ==
  /\ pc = "steps" /\ at # Firewall
  /\ Begin(at)
  /\ live' = [live EXCEPT ![at] = Target(at, run.config)]
  /\ IF at = WebuiListen THEN pc' = "record" /\ UNCHANGED at
                         ELSE at' = at + 1 /\ UNCHANGED pc
  /\ UNCHANGED <<jail, schedule, backups, record, run, snapshot, captured, notBack, before, up, bounds>>

(* A later step fails: before its undo is journalled (what is there can't  *)
(* be read) or after, with any part of its work done.  A step with nothing *)
(* to do for this config can't fail after it.                              *)
StepFails ==
  /\ pc = "steps" /\ at # Firewall
  /\ Fault
  /\ \/ UNCHANGED <<journal, live>>
     \/ /\ Journalled(at)
        /\ Begin(at)
        /\ \E part \in PartOf(at, Target(at, run.config)) : live' = [live EXCEPT ![at] = part]
  /\ pc' = AfterFailure
  /\ UNCHANGED <<jail, schedule, backups, record, at, run, snapshot, captured, notBack, before, up, runs>>

(* Every step succeeded: the record, for a run that was given the config's *)
(* text.  Writing it is outside the journal: when that fails, the system   *)
(* keeps the new config and the record the old one.                        *)
Record ==
  /\ pc = "record"
  /\ pc' = "idle" /\ up' = TRUE
  /\ \/ /\ record' = IF run.kind \in {"apply", "boot", "revert"} THEN run.config ELSE record
        /\ UNCHANGED faults
     \/ run.kind \in {"apply", "boot", "revert"} /\ Fault /\ UNCHANGED record
  /\ UNCHANGED <<kernel, local, runs>>
-----------------------------------------------------------------------------
(* A mutant of Last: the journal is undone in the order it was written.    *)
OldestEntry == journal[1]

(* Transaction.roll_back: the journal, last entry first.                   *)
Last == journal[Len(journal)]
Pop == journal' = SubSeq(journal, 1, Len(journal) - 1)
Undoing(s) == pc = "undo" /\ journal # <<>> /\ Last.step = s

(* A mutant of Undo: an undo that raises ends the rollback.                *)
UndoStops ==
  /\ pc = "undo" /\ journal # <<>> /\ Last.step # Firewall /\ Last.undo # "none"
  /\ \/ live' = [live EXCEPT ![Last.step] = Last.to] /\ Pop /\ UNCHANGED <<notBack, faults>>
     \/ /\ Fault
        /\ journal' = <<>>
        /\ notBack' = notBack \cup {Last.step}
        /\ UNCHANGED live
  /\ UNCHANGED <<jail, schedule, backups, record, pc, at, run, snapshot, captured, before, up, runs>>

(* The undo of a step after the firewall: done, or it raised and is        *)
(* reported, with any part of its work done.                               *)
Undo ==
  /\ pc = "undo" /\ journal # <<>> /\ Last.step # Firewall /\ Last.undo # "none"
  /\ Pop
  /\ \/ live' = [live EXCEPT ![Last.step] = Last.to] /\ UNCHANGED <<notBack, faults>>
     \/ /\ Fault
        /\ notBack' = notBack \cup {Last.step}
        /\ \E part \in PartOf(Last.step, Last.to) : live' = [live EXCEPT ![Last.step] = part]
  /\ UNCHANGED <<jail, schedule, backups, record, pc, at, run, snapshot, captured, before, up, runs>>

(* A mutant of UndoNone: the entry is reported and tried again.            *)
UndoNoneAgain ==
  /\ pc = "undo" /\ journal # <<>> /\ Last.undo = "none"
  /\ notBack' = notBack \cup {Last.step}
  /\ UNCHANGED <<kernel, record, pc, at, run, snapshot, captured, journal, before, up, bounds>>

(* An entry without an undo is reported and skipped.                       *)
UndoNone ==
  /\ pc = "undo" /\ journal # <<>> /\ Last.undo = "none"
  /\ Pop
  /\ notBack' = notBack \cup {Last.step}
  /\ UNCHANGED <<kernel, record, pc, at, run, snapshot, captured, before, up, bounds>>

(* The firewall's undo without a recorded config: load_captured, then the  *)
(* schedule's file.                                                        *)
UndoCaptured ==
  /\ Undoing(Firewall) /\ Last.undo = "restore"
  /\ Pop
  /\ \/ /\ live' = [live EXCEPT ![Firewall] = Last.to]
        /\ jail' = captured.jail
        /\ \/ schedule' = captured.schedule /\ UNCHANGED <<notBack, faults>>
           \/ UNCHANGED schedule /\ notBack' = notBack \cup {Firewall} /\ Fault
     \/ UNCHANGED <<live, jail, schedule>> /\ notBack' = notBack \cup {Firewall} /\ Fault
  /\ UNCHANGED <<backups, record, pc, at, run, snapshot, captured, before, up, runs>>

(* The firewall's undo with one: the live sets are read again ...          *)
UndoReadSets ==
  /\ Undoing(Firewall) /\ Last.undo = "rebuild"
  /\ \/ /\ snapshot' = jail /\ pc' = "reload"
        /\ UNCHANGED <<journal, notBack, faults>>
     \/ /\ Fault /\ Pop /\ notBack' = notBack \cup {Firewall}
        /\ UNCHANGED <<snapshot, pc>>
  /\ UNCHANGED <<kernel, record, at, run, captured, before, up, runs>>

(* ... and the recorded config's ruleset is loaded, like any other.        *)
UndoReload ==
  /\ pc = "reload"
  /\ pc' = "undo"
  /\ Pop
  /\ \/ /\ backups' \in BackedUp
        /\ live' = [live EXCEPT ![Firewall] = {run.previous}]
        /\ jail' = snapshot
        /\ \/ schedule' = Scheduled(run.previous) /\ UNCHANGED <<notBack, faults>>
           \/ UNCHANGED schedule /\ notBack' = notBack \cup {Firewall} /\ Fault
     \/ /\ backups' \in BackedUp \cup {backups}
        /\ UNCHANGED <<live, jail, schedule>>
        /\ notBack' = notBack \cup {Firewall} /\ Fault
  /\ UNCHANGED <<record, at, run, snapshot, captured, before, up, runs>>

(* The journal is undone: ApplyError is raised.                            *)
RolledBack ==
  /\ pc = "undo" /\ journal = <<>>
  /\ pc' = "failed"
  /\ UNCHANGED <<kernel, record, local, up, bounds>>

(* ApplyError outside a boot ends the run.                                 *)
ApplyFails ==
  /\ pc = "failed" /\ run.kind = "apply"
  /\ pc' = "idle"
  /\ UNCHANGED <<kernel, record, local, up, bounds>>

(* _boot_without: the last config applied in full when it is another one,  *)
(* else config.yaml again as far as it goes.  _boot_apply: the same config *)
(* again, as far as it goes.                                               *)
BootWithout ==
  /\ pc = "failed"
  /\ \/ /\ run.kind = "boot" /\ record \notin {NoConfig, run.config}
        /\ StartRun(record, "last", run.boot)
     \/ /\ \/ run.kind = "boot" /\ record \in {NoConfig, run.config}
           \/ run.kind = "last"
        /\ StartRun(run.boot, "resort", run.boot)
     \/ run.kind = "revert" /\ StartRun(run.config, "regardless", run.boot)
  /\ UNCHANGED <<kernel, record, up, bounds>>

(* A mutant of BootGivesUp: the boot ends as the last resort left it.      *)
BootJustEnds ==
  /\ pc = "failed" /\ run.kind = "resort"
  /\ pc' = "idle" /\ up' = TRUE
  /\ UNCHANGED <<kernel, record, local, bounds>>

(* The last resort failed: the baseline, unless a ruleset is loaded.  nft  *)
(* takes the baseline, which is always the same text.                      *)
BootGivesUp ==
  /\ pc = "failed" /\ run.kind = "resort"
  /\ pc' = "idle" /\ up' = TRUE
  /\ IF live[Firewall] = {}
     THEN live' = [live EXCEPT ![Firewall] = {Baseline}] /\ jail' = {}
     ELSE UNCHANGED <<live, jail>>
  /\ UNCHANGED <<schedule, backups, record, local, bounds>>

(* The boot's revert failed as far as it went: revert reports the error    *)
(* and the boot ends, without a look at what is loaded.                    *)
BootRevertFails ==
  /\ pc = "failed" /\ run.kind = "regardless"
  /\ pc' = "idle" /\ up' = TRUE
  /\ UNCHANGED <<kernel, record, local, bounds>>
-----------------------------------------------------------------------------
(* The helper's ban_ip: nft adds to a set only a config's ruleset has.     *)
Ban(h) ==
  /\ pc # "idle" => "ban" \in Interleaved
  /\ live[Firewall] # {} /\ live[Firewall] \subseteq Configs
  /\ h \notin jail
  /\ jail' = jail \cup {h}
  /\ UNCHANGED <<live, schedule, backups, record, pc, local, up, bounds>>

(* rollback_last, which takes no lock: the newest backup is loaded.        *)
RollbackLast ==
  /\ pc = "idle" => up
  /\ pc # "idle" => "rollback" \in Interleaved
  /\ backups # <<>>
  /\ LET latest == backups[Len(backups)]
     IN  /\ live' = [live EXCEPT ![Firewall] = latest.rules]
         /\ jail' = latest.jail
  /\ UNCHANGED <<schedule, backups, record, pc, local, up, bounds>>

(* A reboot or a power cut, at any moment: what the kernel holds is gone,  *)
(* files stay.                                                             *)
Reboot ==
  /\ up \/ pc # "idle"
  /\ live' = [s \in Steps |-> IF s \in KernelSteps THEN {} ELSE live[s]]
  /\ jail' = {}
  /\ pc' = "idle" /\ up' = FALSE
  /\ UNCHANGED <<schedule, backups, record, local, bounds>>

RunSteps ==
  \/ Preflight \/ ReadSets \/ FirewallStep \/ FirewallRejected
  \/ Step \/ StepFails \/ Record
  \/ Undo \/ UndoNone \/ UndoCaptured \/ UndoReadSets \/ UndoReload
  \/ RolledBack \/ ApplyFails \/ BootWithout \/ BootGivesUp \/ BootRevertFails

Next ==
  \/ \E c \in Configs : Apply(c) \/ Boot(c) \/ BootRevert(c)
  \/ RunSteps
  \/ BootBaseline \/ BootRevertImpossible
  \/ \E h \in Hosts : Ban(h)
  \/ RollbackLast
  \/ Reboot

Spec == Init /\ [][Next]_vars

(* Every call of a run returns, so a run under way goes on.                *)
FairSpec == Spec /\ WF_vars(RunSteps)
-----------------------------------------------------------------------------
(* Once the boot has finished, some ruleset is always loaded: through      *)
(* failing steps and undos, rollbacks and every fallback of the boot       *)
(* ("the router is never left unfiltered", _firewall_undo).                *)
BootedIsFiltered == up => live[Firewall] # {}

(* There is no moment in which the kernel routes and no ruleset filters it *)
(* (frfw.forwarding): forwarding is turned on after the firewall step, and *)
(* whatever an undo or a reboot does, it is never on without a ruleset.    *)
ForwardingFiltered == live[Forwarding] # {} => live[Firewall] # {}

(* "The firewall last ... the new one keeps filtering until the previous   *)
(* one is back" (frfw.transaction): while any later step still waits to be *)
(* undone, the ruleset is the one this run loaded.                         *)
FirewallUndoneLast ==
  pc \in {"undo", "reload"} /\ Len(journal) > 1 => live[Firewall] = {run.config}

(* The steps undone by applying the recorded config again; every other one *)
(* puts back what was there.                                               *)
Rebuilt == {Firewall, WireGuard, Xdp}

(* Whether subsystem s, one of them, holds what the recorded config asks.  *)
InSync(held, s) ==
  held[s] = CASE s = Firewall  -> {record}
              [] s = WireGuard -> {record} \cap VpnConfigs
              [] s = Xdp       -> {record} \cap XdpConfigs

(* All or nothing: a transactional run that failed with every step undone  *)
(* leaves each subsystem as it was when the run began, provided what ran   *)
(* then was the recorded config.                                           *)
AllOrNothing ==
  /\ pc = "failed" /\ Transactional /\ notBack = {}
  /\ run.previous # NoConfig => \A s \in Rebuilt : InSync(before, s)
  => live = before

(* A failed undo never stops the others: whatever is not reported as not   *)
(* rolled back is as it was or, where the undo is to apply the recorded    *)
(* config again, as that config wants it.                                  *)
OthersStillUndone ==
  pc = "failed" /\ Transactional =>
    \A s \in Steps \ notBack :
      \/ live[s] = before[s]
      \/ s \in Rebuilt /\ run.previous # NoConfig /\ InSync(live, s)

(* "An unrelated config change never un-bans an attacker, releases a       *)
(* quarantined host ... not even for a moment" (_Run._steps): the reload   *)
(* and its undo carry every member of the live sets over.                  *)
BansSurvive ==
  [][jail \subseteq jail' \/ RollbackLast \/ Reboot \/ BootBaseline]_vars

(* Every run ends, through the whole chain of the boot's fallbacks.        *)
RunEnds == pc # "idle" ~> pc = "idle"
=============================================================================
