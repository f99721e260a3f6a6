-------------------------- MODULE KernelBootProofs --------------------------
(***************************************************************************)
(* Proofs about KernelBoot, for any set of kernels, any number of stagings *)
(* and any number of faults.                                               *)
(***************************************************************************)
EXTENDS KernelBoot, TLAPS

(* While stage or unstage is at work nothing is staged and the boot is no  *)
(* longer checked; the slot is filled before it is marked.                 *)
StagerInv ==
  /\ stager.at # "idle" => Up /\ env = Empty
  /\ stager.at # "idle" /\ ~WhileChecked => conf = "done"
  /\ stager.at \in {"drop", "swap", "mark"} => stager.version \in Versions
  /\ stager.at = "mark" => slot.version = stager.version /\ (faults = 0 => slot.intact)

(* A boot of the staged kernel that is not confirmed yet runs the kernel   *)
(* in the slot, and the environment says what GRUB wrote for it.  What     *)
(* confirm_boot read is still so when it writes.                           *)
BootInv ==
  /\ conf # "done" /\ host.mode = "trial" =>
       env.state = "trying" /\ host.kernel = slot.version
  /\ conf # "done" /\ host.mode = "staged" =>
       env.state = "booting" /\ host.kernel = slot.version
  /\ conf = "waiting" => confEnv = env /\ host.mode \in {"trial", "staged"}
  /\ conf = "chosen" => /\ confEnv = env /\ host.mode = "image"
                        /\ env.state \in {"trying", "booting"}

KernelInv == TypeOK /\ StagerInv /\ BootInv /\ MarkedIsWhole /\ KeptCameUp

(* GRUB's first boot finds no environment: nothing is staged.              *)
LEMMA KernelInit == Init => KernelInv
  BY KernelAssumption
  DEF Init, KernelInv, TypeOK, StagerInv, BootInv, MarkedIsWhole, KeptCameUp,
      Environment, States, Empty, Off, Up

(* Each write of stage, unstage, GRUB and confirm_boot, and a power cut    *)
(* between any two, keep the invariant, when the admin stages only after   *)
(* the boot has been checked.                                              *)
LEMMA KernelStep ==
  ASSUME ~WhileChecked
  PROVE  KernelInv /\ [Next]_vars => KernelInv'
<1> SUFFICES ASSUME KernelInv, [Next]_vars PROVE KernelInv'
  OBVIOUS
<1> USE KernelAssumption
    DEF KernelInv, TypeOK, StagerInv, BootInv, MarkedIsWhole, KeptCameUp,
        Environment, States, Empty, Off, Up, Fault
<1>1. ASSUME NEW v \in Versions, Stage(v) PROVE KernelInv'
  BY <1>1 DEF Stage, Clear
<1>2. CASE DropSlot
  <2>1. slot' \in [version : Versions \cup {NoVersion}, intact : BOOLEAN]
    BY <1>2 DEF DropSlot
  <2>2. slot'.version = slot.version
    BY <1>2 DEF DropSlot
  <2> QED
    BY <1>2, <2>1, <2>2 DEF DropSlot
<1>3. CASE SwapSlot
  BY <1>3 DEF SwapSlot
<1>4. CASE MarkTrial
  BY <1>4 DEF MarkTrial
<1>5. CASE Unstage
  BY <1>5 DEF Unstage, Clear
<1>6. CASE RemoveSlot
  <2>1. slot' \in [version : Versions \cup {NoVersion}, intact : BOOLEAN]
    BY <1>6 DEF RemoveSlot
  <2>2. slot'.version = slot.version
    BY <1>6 DEF RemoveSlot
  <2> QED
    BY <1>6, <2>1, <2>2 DEF RemoveSlot
<1>7. CASE GrubStaged
  BY <1>7 DEF GrubStaged, GrubSaves, BootInto
<1>8. CASE GrubFallback
  BY <1>8 DEF GrubFallback, GrubSaves, BootInto
<1>9. CASE GrubUnsaved
  BY <1>9 DEF GrubUnsaved, GrubCantSave, BootInto
<1>10. CASE GrubImage
  BY <1>10 DEF GrubImage, BootInto
<1>11. CASE ConfirmStaged
  BY <1>11 DEF ConfirmStaged
<1>12. CASE ConfirmImage
  BY <1>12 DEF ConfirmImage
<1>13. CASE ConfirmHealthy
  BY <1>13 DEF ConfirmHealthy
<1>14. CASE ConfirmUnhealthy
  BY <1>14 DEF ConfirmUnhealthy, Down
<1>15. CASE Damage
  <2>1. slot' \in [version : Versions \cup {NoVersion}, intact : BOOLEAN]
    BY <1>15 DEF Damage
  <2>2. slot'.version = slot.version
    BY <1>15 DEF Damage
  <2> QED
    BY <1>15, <2>1, <2>2 DEF Damage
<1>16. CASE Panic
  BY <1>16 DEF Panic, Down
<1>17. CASE Reset
  BY <1>17 DEF Reset, Down
<1>18. CASE ConfirmChosen
  BY <1>18 DEF ConfirmChosen
<1>19. CASE UNCHANGED vars
  BY <1>19 DEF vars
<1> QED
  BY <1>1, <1>2, <1>3, <1>4, <1>5, <1>6, <1>7, <1>8, <1>9, <1>10, <1>11, <1>12,
     <1>13, <1>14, <1>15, <1>16, <1>17, <1>18, <1>19
  DEF Next, Grub, Confirm

(* stage, unstage, grub.cfg and confirm_boot keep the types of the state.  *)
THEOREM KernelTypes ==
  ASSUME ~WhileChecked
  PROVE  Spec => []TypeOK
<1>1. KernelInv => TypeOK
  BY DEF KernelInv
<1> QED
  BY <1>1, KernelInit, KernelStep, PTL DEF Spec

(* stage's promise: a power cut at any point never leaves a half-copied    *)
(* kernel marked for a trial.                                              *)
THEOREM MarkedKernelIsWhole ==
  ASSUME ~WhileChecked
  PROVE  Spec => []MarkedIsWhole
<1>1. KernelInv => MarkedIsWhole
  BY DEF KernelInv
<1> QED
  BY <1>1, KernelInit, KernelStep, PTL DEF Spec

(* A kernel is kept (confirm_boot's "good", GRUB's "booting") only if the  *)
(* router came up on it, for every set of kernels and every order of       *)
(* boots, menu choices, faults and resets.                                 *)
THEOREM KeptKernelCameUp ==
  ASSUME ~WhileChecked
  PROVE  Spec => []KeptCameUp
<1>1. KernelInv => KeptCameUp
  BY DEF KernelInv
<1> QED
  BY <1>1, KernelInit, KernelStep, PTL DEF Spec
-----------------------------------------------------------------------------
(* What is marked for a trial has had none, also when the image's kernel   *)
(* was picked from the menu instead.                                       *)
TrialInv ==
  faults = 0 =>
    /\ tried \in {0, 1}
    /\ env.state = "trial" => tried = 0
    /\ env.state = "trying" /\ host.mode = "image" => tried = 0

(* Each step keeps it, as long as GRUB can write its environment.          *)
LEMMA TrialStep == KernelInv /\ TrialInv /\ [Next]_vars => TrialInv'
<1> SUFFICES ASSUME KernelInv, TrialInv, [Next]_vars PROVE TrialInv'
  OBVIOUS
<1>0. TypeOK
  BY DEF KernelInv
<1> USE KernelAssumption, <1>0 DEF TrialInv, TypeOK, Environment, States, Empty, Off, Up
<1>1. Fault => faults' # 0
  BY DEF Fault
<1>2. ASSUME NEW v \in Versions, Stage(v) PROVE TrialInv'
  BY <1>2 DEF Stage, Clear
<1>3. CASE DropSlot \/ SwapSlot \/ MarkTrial \/ Unstage \/ RemoveSlot
  BY <1>3 DEF DropSlot, SwapSlot, MarkTrial, Unstage, Clear, RemoveSlot
<1>4. CASE GrubStaged
  BY <1>4 DEF GrubStaged, GrubSaves, BootInto
<1>5. CASE GrubFallback \/ GrubUnsaved \/ GrubImage
  BY <1>1, <1>5 DEF GrubFallback, GrubUnsaved, GrubImage, GrubSaves, GrubCantSave, BootInto
<1>6. CASE ConfirmStaged \/ ConfirmImage \/ ConfirmHealthy
  BY <1>6 DEF ConfirmStaged, ConfirmImage, ConfirmHealthy
<1>7. CASE ConfirmUnhealthy \/ Panic \/ Reset
  BY <1>7 DEF ConfirmUnhealthy, Panic, Reset, Down
<1>8. CASE Damage
  BY <1>1, <1>8 DEF Damage
<1>9. CASE UNCHANGED vars
  BY <1>9 DEF vars
<1>10. CASE ConfirmChosen
  <2>1. confEnv = env /\ host.mode = "image"
    BY <1>10 DEF ConfirmChosen, KernelInv, BootInv
  <2> QED
    BY <1>10, <2>1 DEF ConfirmChosen
<1> QED
  BY <1>2, <1>3, <1>4, <1>5, <1>6, <1>7, <1>8, <1>9, <1>10 DEF Next, Grub, Confirm

(* "Tried once, not over and over": each staging has at most one trial     *)
(* boot, through panics, hangs, power cuts and menu choices, as long as    *)
(* GRUB can write its environment.                                         *)
THEOREM KernelIsTriedOnce ==
  ASSUME ~WhileChecked
  PROVE  Spec => []TriedOnce
<1>1. Init => TrialInv
  BY DEF Init, TrialInv, Empty
<1>2. TrialInv => TriedOnce
  BY DEF TrialInv, TriedOnce
<1> QED
  BY <1>1, <1>2, KernelInit, KernelStep, TrialStep, PTL DEF Spec
=============================================================================
