----------------------------- MODULE KernelBoot -----------------------------
(***************************************************************************)
(* A kernel staged on the persistence partition, tried once, and kept only *)
(* when the router comes up on it: frfw.kernel_boot (stage, unstage,       *)
(* confirm_boot), GRUB's state machine in grub.cfg, and everything that    *)
(* may end a boot.  A power cut may come between any two writes.           *)
(*                                                                         *)
(* A kernel is its version.  Copying into staged.new is not seen by GRUB,  *)
(* so it has no state here; a slot that is missing, half removed or        *)
(* damaged is one whose files don't match their SHA256SUMS.                *)
(***************************************************************************)
EXTENDS Integers

CONSTANTS
  Versions,      \* the kernels that may be staged
  Sound,         \* those the router comes up on
  Image,         \* the image's own kernel
  NoVersion,
  WhileChecked,  \* whether the admin may stage while the boot is checked
  MaxStages,     \* bound: stage and unstage commands
  MaxFaults      \* bound: boots on which GRUB can't save its environment,
                 \* and damaged slots

ASSUME KernelAssumption ==
  /\ Sound \subseteq Versions
  /\ Image \notin Versions /\ NoVersion \notin Versions
  /\ WhileChecked \in BOOLEAN
  /\ MaxStages \in Nat /\ MaxFaults \in Nat

VARIABLES
  env,      \* grubenv: fr_os_state and fr_os_staged
  slot,     \* staged/: whose kernel it is, and whether the hashes match
  host,     \* the kernel that runs and fr_os.kernel= of this boot
  conf,     \* fr-kernel-confirm.service of this boot
  confEnv,  \* the environment confirm_boot read
  stager,   \* `kernel stage` or `unstage`: its next write, and its version
  tried,    \* history: trial boots of the staged kernel since it was staged
  stages, faults

vars == <<env, slot, host, conf, confEnv, stager, tried, stages, faults>>

States == {"trial", "trying", "good", "booting", "failed"}
Empty == [state |-> "none", staged |-> NoVersion]
Environment == {Empty} \cup [state : States, staged : Versions]
Off == [kernel |-> Image, mode |-> "off"]

TypeOK ==
  /\ env \in Environment /\ confEnv \in Environment
  /\ slot \in [version : Versions \cup {NoVersion}, intact : BOOLEAN]
  /\ host \in [kernel : Versions \cup {Image, NoVersion},
               mode : {"off", "image", "fallback", "trial", "staged"}]
  /\ conf \in {"start", "waiting", "chosen", "done"}
  /\ stager \in [at : {"idle", "drop", "swap", "mark", "remove"},
                 version : Versions \cup {NoVersion}]
  /\ tried \in 0..2
  /\ stages \in Nat /\ faults \in Nat

Fault == faults < MaxFaults /\ faults' = faults + 1
Up == host.mode # "off"

Init ==
  /\ env = Empty /\ confEnv = Empty
  /\ slot = [version |-> NoVersion, intact |-> FALSE]
  /\ host = Off
  /\ conf = "start"
  /\ stager = [at |-> "idle", version |-> NoVersion]
  /\ tried = 0
  /\ stages = 0 /\ faults = 0
-----------------------------------------------------------------------------
(* A mutant of Clear: the version stays in the environment.                *)
ClearState(v, next) ==
  /\ Up /\ stager.at = "idle"
  /\ conf = "done" \/ WhileChecked
  /\ stages < MaxStages /\ stages' = stages + 1
  /\ env' = [env EXCEPT !.state = "none"]
  /\ stager' = [at |-> next, version |-> v]
  /\ UNCHANGED <<slot, host, conf, confEnv, tried, faults>>

(* stage and unstage: nothing is staged while the slot changes.            *)
Clear(v, next) ==
  /\ Up /\ stager.at = "idle"
  /\ conf = "done" \/ WhileChecked
  /\ stages < MaxStages /\ stages' = stages + 1
  /\ env' = Empty
  /\ stager' = [at |-> next, version |-> v]
  /\ UNCHANGED <<slot, host, conf, confEnv, tried, faults>>

Stage(v) == Clear(v, "drop")

(* A mutant of DropSlot: the trial is marked before the slot is replaced.   *)
MarkEarly ==
  /\ stager.at = "drop"
  /\ env' = [state |-> "trial", staged |-> stager.version]
  /\ slot' = [slot EXCEPT !.intact = FALSE]
  /\ stager' = [stager EXCEPT !.at = "swap"]
  /\ UNCHANGED <<host, conf, confEnv, tried, stages, faults>>

(* The old slot is removed, file by file, ...                              *)
DropSlot ==
  /\ stager.at = "drop"
  /\ slot' = [slot EXCEPT !.intact = FALSE]
  /\ stager' = [stager EXCEPT !.at = "swap"]
  /\ UNCHANGED <<env, host, conf, confEnv, tried, stages, faults>>

(* ... the new one renamed over it ...                                     *)
SwapSlot ==
  /\ stager.at = "swap"
  /\ slot' = [version |-> stager.version, intact |-> TRUE]
  /\ stager' = [stager EXCEPT !.at = "mark"]
  /\ UNCHANGED <<env, host, conf, confEnv, tried, stages, faults>>

(* ... and last, it is marked for a trial.                                 *)
MarkTrial ==
  /\ stager.at = "mark"
  /\ env' = [state |-> "trial", staged |-> stager.version]
  /\ stager' = [stager EXCEPT !.at = "idle"]
  /\ tried' = 0
  /\ UNCHANGED <<slot, host, conf, confEnv, stages, faults>>

(* unstage; with nothing staged there is nothing it changes.               *)
Unstage == Clear(NoVersion, "remove")

RemoveSlot ==
  /\ stager.at = "remove"
  /\ slot' = [slot EXCEPT !.intact = FALSE]
  /\ stager' = [stager EXCEPT !.at = "idle"]
  /\ UNCHANGED <<env, host, conf, confEnv, tried, stages, faults>>

(* A failing stick.                                                        *)
Damage ==
  /\ slot.intact
  /\ Fault
  /\ slot' = [slot EXCEPT !.intact = FALSE]
  /\ UNCHANGED <<env, host, conf, confEnv, stager, tried, stages>>
-----------------------------------------------------------------------------
(* GRUB writes the state, and only then boots (grub.cfg).                  *)
BootInto(kernel, mode) ==
  /\ host' = [kernel |-> kernel, mode |-> mode]
  /\ conf' = "start"
  /\ UNCHANGED <<slot, confEnv, stager, stages>>

(* A mutant of GrubSaves: the staged kernel's boot leaves no trace.        *)
GrubForgets(state) == UNCHANGED <<env, faults>>

GrubSaves(state) == env' = [env EXCEPT !.state = state] /\ UNCHANGED faults
GrubCantSave == UNCHANGED env /\ Fault

(* A staged kernel: it boots by default, or the admin picks the image's.   *)
GrubStaged ==
  /\ ~Up
  /\ env.state \in {"trial", "good"} /\ slot.intact
  /\ GrubSaves(IF env.state = "trial" THEN "trying" ELSE "booting")
  /\ \/ /\ BootInto(slot.version, IF env.state = "trial" THEN "trial" ELSE "staged")
        /\ tried' = IF env.state = "trial" /\ tried < 2 THEN tried + 1 ELSE tried
     \/ BootInto(Image, "image") /\ UNCHANGED tried

(* Damaged, or the last boot of it never confirmed: the image's kernel.    *)
GrubFallback ==
  /\ ~Up
  /\ \/ env.state \in {"trial", "good"} /\ ~slot.intact
     \/ env.state \in {"trying", "booting"}
  /\ GrubSaves("failed")
  /\ BootInto(Image, "fallback")
  /\ UNCHANGED tried

(* What can't be recorded is not tried.                                    *)
GrubUnsaved ==
  /\ ~Up
  /\ env.state \in {"trial", "good", "trying", "booting"}
  /\ GrubCantSave
  /\ BootInto(Image, "image")
  /\ UNCHANGED tried

GrubImage ==
  /\ ~Up
  /\ env.state \in {"none", "failed"}
  /\ BootInto(Image, "image")
  /\ UNCHANGED <<env, tried, faults>>

Grub == GrubStaged \/ GrubFallback \/ GrubUnsaved \/ GrubImage
-----------------------------------------------------------------------------
(* confirm_boot on the staged kernel: it waits for the router to be up,    *)
(* with the environment it read, if that boot is the one GRUB recorded.    *)
ConfirmStaged ==
  /\ conf = "start" /\ host.mode \in {"trial", "staged"}
  /\ conf' = IF env.state = IF host.mode = "trial" THEN "trying" ELSE "booting"
             THEN "waiting" ELSE "done"
  /\ confEnv' = env
  /\ UNCHANGED <<env, slot, host, stager, tried, stages, faults>>

(* On the image's kernel: GRUB recorded a boot of the staged one, so the   *)
(* image's was picked from the menu.                                       *)
ConfirmImage ==
  /\ conf = "start" /\ host.mode \in {"image", "fallback"}
  /\ conf' = IF host.mode = "image" /\ env.state \in {"trying", "booting"}
             THEN "chosen" ELSE "done"
  /\ confEnv' = env
  /\ UNCHANGED <<env, slot, host, stager, tried, stages, faults>>

(* ... and the staged one was not tried: it stays what it was.             *)
ConfirmChosen ==
  /\ conf = "chosen"
  /\ conf' = "done"
  /\ env' = [confEnv EXCEPT !.state = IF @ = "trying" THEN "trial" ELSE "good"]
  /\ UNCHANGED <<slot, host, confEnv, stager, tried, stages, faults>>

(* A mutant of ConfirmHealthy: the deadline passes as a success.           *)
ConfirmTimesOut ==
  /\ conf = "waiting"
  /\ conf' = "done"
  /\ env' = [confEnv EXCEPT !.state = "good"]
  /\ UNCHANGED <<slot, host, confEnv, stager, tried, stages, faults>>

(* The router came up: the kernel is kept.                                 *)
ConfirmHealthy ==
  /\ conf = "waiting" /\ host.kernel \in Sound
  /\ conf' = "done"
  /\ env' = [confEnv EXCEPT !.state = "good"]
  /\ UNCHANGED <<slot, host, confEnv, stager, tried, stages, faults>>

(* Everything in memory is gone.                                           *)
Down ==
  /\ host' = Off /\ conf' = "start"
  /\ stager' = [stager EXCEPT !.at = "idle"]
  /\ UNCHANGED <<env, slot, confEnv, tried, stages, faults>>

(* It did not: a trial reboots, a confirmed kernel stays up.               *)
ConfirmUnhealthy ==
  /\ conf = "waiting"
  /\ IF host.mode = "trial" THEN Down
     ELSE conf' = "done" /\ UNCHANGED <<env, slot, host, confEnv, stager, tried, stages, faults>>

(* A kernel that panics (panic=10) or hangs (the hardware watchdog).       *)
Panic == Up /\ host.kernel \notin Sound \cup {Image} /\ Down

(* The admin reboots, or the power is cut.                                 *)
Reset == Up /\ Down

Confirm == ConfirmStaged \/ ConfirmImage \/ ConfirmChosen \/ ConfirmHealthy \/ ConfirmUnhealthy

Next ==
  \/ \E v \in Versions : Stage(v)
  \/ DropSlot \/ SwapSlot \/ MarkTrial \/ Unstage \/ RemoveSlot
  \/ Grub \/ Confirm
  \/ Damage \/ Panic \/ Reset

Spec == Init /\ [][Next]_vars

(* The machine boots when it is off, a broken kernel is reset by panic=10  *)
(* or the watchdog, and the boot's check ends (TimeoutStartSec).           *)
FairSpec == Spec /\ WF_vars(Grub) /\ WF_vars(Panic) /\ WF_vars(Confirm)
-----------------------------------------------------------------------------
(* "Never a half-copied kernel marked for a trial": whenever the power is  *)
(* cut during stage or unstage, what is marked for a trial or was tried is *)
(* the whole kernel of that version, unless the stick failed.              *)
MarkedIsWhole ==
  env.state \in {"trial", "trying"} => slot.version = env.staged /\ (faults = 0 => slot.intact)

(* "Kept only when the router comes up on it": a kernel that boots by      *)
(* default is one the router came up on, in every order of boots, menu     *)
(* choices, resets and stagings.                                           *)
KeptCameUp ==
  env.state \in {"good", "booting"} => env.staged \in Sound /\ slot.version = env.staged

(* "Tried once, not over and over": a kernel has one trial boot each time  *)
(* it is staged, whatever ended it, on a partition GRUB can write.         *)
TriedOnce == faults = 0 => tried <= 1

(* The same on one that may fail at any boot: "tried once, not over and    *)
(* over".                                                                  *)
NeverTriedAgain == tried <= 1

(* A kernel that breaks the router never keeps it down: the image's kernel *)
(* or a sound one runs again.                                              *)
BadKernelGivesWay ==
  host.kernel \notin Sound \cup {Image} ~> host.kernel \in Sound \cup {Image} /\ Up
=============================================================================
