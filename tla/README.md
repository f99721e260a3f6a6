# FR_OS: specifications and proofs

FR_OS is a firewall and router. One YAML file, `config.yaml`, is turned into an
nftables ruleset, interface addresses, WireGuard peers, DHCP and DNS services,
an XDP filter and the listening addresses of SSH and the webUI. This directory
holds TLA+ models of the parts whose correctness depends on order, failure and
concurrency, the TLC configurations that check small instances of them, and
TLAPS proofs of the invariants that matter most.

Paths below are relative to `src/src/frfw/` unless they start with another
directory. `PROJECT.json` maps every definition to the lines it models.

## The system

| Part | State | Operations | What makes it hard |
|---|---|---|---|
| apply (`provision`, `transaction`, `apply`) | what every subsystem holds, the undo journal, ruleset backups, `applied-config` | preflight, twelve steps, rollback, record | a step or an undo that fails, a power cut, sets that change while the ruleset is reloaded |
| boot (`cli` with `--fail-closed`, `fr-firewall.service`) | the same | config.yaml, last applied config, last resort, baseline | each fallback may fail; the router must end up filtered |
| confirmation (`apply_confirm`) | the pending record, the rejected config, the lock | begin, confirm, revert, wait, restore | five kinds of process, each interrupted between any two reads and writes |
| helper (`helper/*`) | config.yaml, the sensors' copy | apply, save, move management addresses, confirm, revert, ban | some commands take the lock, some do not |
| schedule check (`schedule_refresh`) | the recorded clock and fingerprint | compare, refresh | compares before the lock, applies after it |
| staged kernel (`kernel_boot`, `grub.cfg`) | GRUB's environment, the slot, the kernel that runs | stage, unstage, boot, confirm | three programs share one file; power cuts, panics, an unwritable partition |
| kernel updates (`kernel_update`) | prepared kernels, a state file | check, prepare, clean up, try | read, change and write of one file by several processes |
| release updates (`update`, `helper/update_server`) | installed releases, the active link, a state file | check, apply, roll back | a crash or a failing restart between two steps |
| sets at run time (`bruteforce`, `ids_quarantine`, `iot_isolation`, `ztna`) | members of nft sets | add, remove, expire | carried over every reload |
| sign-in (`webui/auth*`, `webui/mfa`, `admin_account`, `accounts`) | sessions, counters, tickets, accounts | sign in, second factor, lock out, change password, delete | parallel requests, expiry, a restart that empties memory |
| AI IDS (`ai_ids/*`) | baselines and scores per host | observe, score, quarantine | long sequences, clocks |
| TLS fingerprints (`tlsfp/*`), application identification (`appid/*`), IoT inventory (`iot/*`) | flows, inventories | add segment, expire, merge | reordered and repeated segments, limits |
| ruleset builder, schedules, rules (`nft/*`, `rule_*`, `segments`) | none | pure functions | first match, wrap-around at midnight and at the week's end |
| config (`config/*`, `validate`) | none | load, validate, export | size rather than order |
| XDP, IPv6, DNS lists (`xdp`, `ipv6`, `adblock/*`) | maps, state files | attach, detach, refresh | partial failure |
| reports (`metrics`, `surface`, `integrity`, `security_score`) | none | read | nothing changes state |
| installer and persistence (`persistence`, `src/installer/`) | the persistence partition | set up | a crash between two steps |

The parts meet in three places. Everything that applies goes through
`provision.apply_all`, and all but the boot through the lock of
`apply_confirm`. The helper is the only process the webUI can ask for a
change. An update restarts services, `fr-firewall.service` among them.

## The modules

### ApplyTransaction

One run of `apply_all` on one router, with everything that may fail in it.

* `live[s]` is whose settings subsystem `s` holds: `{}` for nothing, `{c}` for
  exactly config `c`, anything else for a step that did part of its work. The
  contents of a ruleset or a service's file are not modelled; whose they are is
  what all-or-nothing is about.
* `Step`, `FirewallStep` and their failing forms are one iteration of
  `_Run._steps`: `Begin` journals the undo `UndoOf(s)`, then the subsystem
  changes. The firewall step backs the old ruleset up, loads the new one in one
  nft transaction with the members read by `ReadSets`, and writes the schedule's
  record.
* `Undo`, `UndoNone`, `UndoCaptured`, `UndoReadSets` and `UndoReload` are
  `Transaction.roll_back`, one entry at a time from the last.
* `Boot`, `BootRevert`, `BootRevertImpossible`, `BootWithout`, `BootGivesUp`,
  `BootBaseline` and `BootRevertFails` are `_cmd_apply --fail-closed`,
  `_boot_without` and `_boot_apply`. nft is taken to accept the baseline, which
  is always the same text: a boot whose nft fails even then has nothing left to
  try.
* `Ban`, `RollbackLast` and `Reboot` come from outside. A reboot clears what
  the kernel holds and keeps files.

### ApplyConfirm

Everyone who applies, around one lock. `apply_all` is one step here; its inside
is ApplyTransaction.

* Each process has a place `pc[p]` and the values it read, `loc[p]`. A place is
  a point between two reads or writes of `helper/server.py`, `cli.py` or
  `apply_confirm.py`.
* `AskApply`, `LockApply`, `ReadAgain`, `ApplyOk`, `Hold` and `StartWaiting`
  are an apply that ends up pending. The helper reads config.yaml before it
  has the lock, the command line after.
* `AskMove`, `LockMove`, `WriteMove` and `PutBack` move the management
  addresses: on the console before the lock is asked for, in the helper with it
  held.
* `LockRevert`, `RevertOk`, `KeepRejected`, `WriteBack` and `Forget` are
  `apply_confirm.revert`, begun by the admin, the waiting unit or the boot.
* What may fail: `apply_all` with nothing changed (`ApplyFails`) or with only
  its record unwritten (`RecordFails`), the pending record (`ApplyFails` at
  `"hold"`), the waiting unit's start, a revert's `apply_all` with an
  `ApplyError`, after which the revert goes on (`RevertFails`), and any call of
  a revert with another error, which ends it there (`RevertEnds`).
* `stamp` is the config whose fingerprint the schedule's record holds, written
  with every ruleset that is loaded.
* `unconfirmed`, `edited`, `restarted` and `cutOff` are history variables that
  no action's guard reads: the config last held, whether config.yaml was written
  since, whether a boot that fell back on nothing has followed, and whether a
  revert or the countdown was cut off.

### KernelBoot

`kernel_boot.stage`, `unstage` and `confirm_boot` with the state machine of
`grub.cfg`. A kernel is its version, and a slot is intact or not. `tried`
counts trial boots since the last staging and stops at two.
`confirm_boot` reads in `ConfirmImage` and writes in `ConfirmChosen`, with other
programs between them. `Damage` is the disk's doing, not the code's.

## The runs

All bounds are constants named `Max...`.

| Run | Instance | Shows |
|---|---|---|
| `transaction` | two configs that differ in every feature, two faults, two runs | `BootedIsFiltered`, `ForwardingFiltered`, `FirewallUndoneLast`, `AllOrNothing`, `OthersStillUndone`, `BansSurvive` |
| `interleaved` | two faults, one backup kept, with `rollback` between any two steps and boots that find an apply pending, with or without a valid config to go back to | `ForwardingFiltered`, and `RunEnds` |
| `confirm` | two texts, of which one moves the management addresses of the other, and an obsolete previous one; one command line, two applies, one save, one reboot, one failing call | the seven properties of the protocol |
| `killed_processes` | three texts, any process but the boot killed, `fr-firewall` restarted, schedule checks | what the lock protects survives |
| `held_is_resolved` | fair, with a reboot, a failing call and schedule checks | `HeldIsResolved`, `RefreshIsSameConfig` |
| `kernel` | one sound and one broken kernel, four stagings, two faults, fair | `MarkedIsWhole`, `KeptCameUp`, `TriedOnce`, `BadKernelGivesWay` |

Why the bounds are enough. Two configs and two runs give a record that differs
from the config being applied. Two faults give a failing step whose undo fails
too, or a failing boot whose first fallback fails. In ApplyConfirm, two applies
give a held apply and a later one that meets it. One crash gives a revert begun
twice. Four stagings replace a kernel in every state of GRUB's environment.

The other six runs each check one statement of the repository that the code does
not keep; see the next section.

What the less obvious ones say.

* `AllOrNothing` is about runs that began with the recorded config in the three
  subsystems that are undone by applying it again: firewall, WireGuard and XDP.
  `OthersStillUndone` drops that premise and lets other undos fail. Each of the
  other nine steps is then exactly as it was unless it is reported, and those
  three are as they were or as the recorded config wants them.
* `RebootIsNoConfirmation`: wherever an apply nobody confirmed stood when the
  router went down, the booted router does not run its config. It holds without
  a premise on failures, but for a boot that itself had to fall back, since
  `_boot_without` takes the recorded config and a failed revert leaves the
  unconfirmed one recorded.
* `HeldIsResolved` has one way out: a revert that ended in an error other than
  `ApplyError`. The apply then stays pending, and the admin or the next boot
  resolves it. `ConfirmedIsSeen` has the same premise, since a page loaded
  before such a revert still confirms.
* `RefreshIsSameConfig` is stated for the recorded config, and up to an edit of
  config.yaml or a failing call.

Fairness. A run under way goes on, because every call in it returns or times
out (`RunSteps`). In ApplyConfirm a process that has begun goes on, the
waiting unit looks every second, time passes, and systemd starts
`fr-firewall.service` at boot. Nobody is obliged to confirm, save, apply or
crash. In KernelBoot the machine boots when it is off, the boot's check ends
(`TimeoutStartSec`), and a kernel outside `Sound` is reset by `panic=10` or the
hardware watchdog.

ApplyConfirm's runs switch deadlock checking off: an idle router whose bounds
are used up may stop.

## Where the code differs from what it says

With a run of its own:

* `unfiltered_boot` (a bug). `apply_confirm.revert` catches the error of the
  boot's last resort, so `cli.py` never reaches the baseline: a boot that finds
  an apply pending and whose ruleset nft refuses ends unfiltered.
* `bans_during_apply`. A ban added between the read of the sets and the reload
  is lost, with nothing failing (`MaxFaults = 0`).
* `stale_read`. An Apply that read config.yaml before it got the lock brings a
  rejected config back.
* `restart_overlaps`. `fr-firewall` restarted by an update applies without the
  lock.
* `stage_while_checked`. A kernel staged while the boot is being checked is
  marked as the one that came up.
* `fallback_unsaved`. A failed trial GRUB could not record is tried again.

Seen while modelling, reachable in the same models, without a run:

* An undo goes back to the recorded config, which may not be the one that ran
  (`provision.py:492`), and leaves the failed ruleset as the newest backup
  (`provision.py:498`).
* Addresses set by a run that was not recorded stay (`ifaddr.py:78`), and a
  config without DHCP zones leaves Kea running (`kea.py:118`).
* A revert that is killed, or ends in an error other than `ApplyError`, leaves
  the apply pending with no countdown until the next boot, and a page still
  confirms it (`apply_confirm.py:174`; `fr-apply-revert.service` has no
  `Restart=`).
* A boot that finds an apply pending whose previous config an update's schema
  refuses drops the pending record, loads nothing and returns 0, so it ends
  unfiltered like `unfiltered_boot` (`cli.py:557`, `apply_confirm.py:160`).
* A revert that failed leaves the unconfirmed config recorded. A boot that then
  cannot apply config.yaml falls back on it (`cli.py:710`).
* An apply whose record cannot be written runs without being recorded or held
  (`provision.py:174`).
* `management-addresses` that is refused writes back the text it read before
  the lock (`cli.py:670`), and does not refresh the sensors' copy.
* A save while an apply is pending replaces what a revert keeps as rejected
  (`apply_confirm.py:181`).
* The schedule check does not look for a pending apply (`cli.py:1262`), and
  applies an edit saved after it compared (`cli.py:1263`).
* A crash between an apply and its pending record leaves it applied for good
  (`helper/server.py:245`): `unconfirmed` begins with that record.

## The proofs

The theorems hold for every value of the constants that the modules' named
assumptions allow: any configs, hosts, texts, command lines and kernels, and
any bounds.

* `ApplyTransactionProofs`: `TransactionTypes`, `NeverRoutesUnfiltered`, and
  `BootedRouterIsFiltered` for boots that find nothing pending.
  `ForwardingFiltered` is not inductive, since an undo could remove the ruleset
  first. `JournalInv` says the firewall's entry, if any, leads back to a
  ruleset. `FilterInv` says every backup is of a ruleset, and one is loaded
  from the firewall step until all later steps are undone. `BootInv` adds that
  a ruleset, once loaded, is only replaced.
* `ApplyConfirmProofs`: `ConfirmTypes`, `RevertIsNotInterrupted`,
  `NoApplyWhilePending`, and `AppliesAreSerial` when `fr-firewall` is not
  restarted. The invariant is kept by `TypesStep` and `ProtocolStep`. `LockInv` says who is in the middle of an apply or a revert holds
  the lock, but for the boot's own apply. `PlaceInv` says what each process has
  read by then. `BootIsAlone` covers the boot, which has no lock and is alone
  because nothing else runs before it has finished.
* `KernelBootProofs`: `KernelTypes`, `MarkedKernelIsWhole`, `KeptKernelCameUp`
  and `KernelIsTriedOnce`, all when nothing is staged while a boot is checked.
  `StagerInv` says the environment is empty while the slot changes, `BootInv`
  that an unconfirmed boot runs the kernel in the slot under the state GRUB
  wrote, and that what `confirm_boot` read is still so when it writes, `TrialInv` that a kernel marked for a trial has had none.

Only model-checked: the liveness properties (`RunEnds`, `HeldIsResolved`,
`BadKernelGivesWay`), which this prover does not reach, and for now
`FirewallUndoneLast`, `AllOrNothing`, `OthersStillUndone`, `BansSurvive`,
`RevertGoesBack`, `UnconfirmedKept`, `RebootIsNoConfirmation`, `ConfirmedIsSeen`
and `RefreshIsSameConfig`.

## Plan

1. Release and kernel updates: `Update` (a crash between any two steps of
   `apply_update` and `rollback_update`) and `KernelUpdate` composed with
   KernelBoot. Theorem: the version to go back to is always installed.
2. Sign-in: sessions, failure counters, tickets and the second factor against
   password changes, deletions and restarts.
3. Sets at run time and the AI IDS: bans, quarantines, isolation and ZTNA
   sessions with expiry, composed with ApplyTransaction's reload.
4. Pure algorithms against reference definitions: reassembly of a ClientHello,
   rule order and lint, schedules across an offset, the decision a ruleset
   makes for a packet.
5. Persistence setup, audit log rotation, IPv6 state, XDP attachment.
6. An abstract atomic apply, implemented by ApplyTransaction and used by
   ApplyConfirm in place of its one-step apply.
7. Proofs of `FirewallUndoneLast`, `BansSurvive`, `RevertGoesBack` and
   `UnconfirmedKept`, and of the refinement.

Runs are merged as modules are added, so that each asks a question of its own.

## What is not modelled

Rendering and parsing of configuration files, reports, pages and forms, which
change no state. The image build. The contents of rulesets and service files.
Time is a flag wherever only "the deadline has passed" or "the offset changed"
matters.
