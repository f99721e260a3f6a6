------------------------- MODULE ApplyConfirmProofs -------------------------
(***************************************************************************)
(* Proofs about ApplyConfirm: for any texts, any number of command lines,  *)
(* with processes killed, services restarted and schedules refreshed, and  *)
(* without a bound on applies, edits, crashes or faults.                   *)
(***************************************************************************)
EXTENDS ApplyConfirm, TLAPS

(* What a process has read by the time it is where it is.                  *)
PlaceInv ==
  \A p \in Procs :
    /\ pc[p] = "putback" => loc[p].undo \in Texts
    /\ pc[p] \in {"hold", "starting"} \cup Reverting => loc[p].previous \in Texts
    /\ pc[p] \in {"move", "ask", "read", "hold", "starting"} => p \in {Helper} \cup Clis
    /\ pc[p] = "applying" => p # Waiter
    /\ p \in {Boot, Timer} => loc[p].confirm = FALSE /\ loc[p].undo = NoText

(* Who is applying, holding or taking back has the lock, but for the       *)
(* boot's own apply.                                                       *)
LockInv ==
  \A p \in Procs :
    /\ pc[p] \in {"read", "hold", "starting"} \cup Reverting => lock = p
    /\ pc[p] = "applying" /\ p # Boot => lock = p
    /\ pc[p] = "move" /\ p = Helper => lock = p /\ pending = NoPending

ConfirmInv ==
  TypeOK /\ PlaceInv /\ LockInv /\ RevertOwnsPending /\ NoNewApplyWhilePending

(* A deadline that passes changes nothing else of a pending record.        *)
LEMMA DuePending ==
  ASSUME NEW d \in Pendings
  PROVE  /\ [d EXCEPT !.due = TRUE] \in Pendings
         /\ [d EXCEPT !.due = TRUE].previous = d.previous
  BY DEF Pendings

(* What begin writes.                                                      *)
LEMMA NewPending ==
  ASSUME NEW n \in Nat, NEW t \in Texts
  PROVE  /\ [id |-> n, previous |-> t, due |-> FALSE] \in Pendings
         /\ [id |-> n, previous |-> t, due |-> FALSE] # NoPending
<1>1. [id |-> n, previous |-> t, due |-> FALSE] \in Pendings
  BY DEF Pendings
<1> QED
  BY <1>1, RecordAssumption

(* A router that has just booted, or still has an apply pending.           *)
LEMMA ConfirmInit == Init => ConfirmInv
<1> SUFFICES ASSUME Init PROVE ConfirmInv
  OBVIOUS
<1> USE ConfirmAssumption, RecordAssumption DEF Init
<1>1. TypeOK
  <2>1. pending \in Pendings \cup {NoPending}
    BY DEF Pendings
  <2>2. pc \in [Procs -> Places]
    BY DEF Places
  <2>3. loc \in [Procs -> Locals]
    BY DEF MaybeText, Locals, Fresh
  <2>4. record \in MaybeText /\ unconfirmed \in MaybeText /\ running \in MaybeText
    BY DEF MaybeText
  <2>9. stamp \in MaybeText /\ restarted \in BOOLEAN /\ cutOff \in BOOLEAN
    BY DEF MaybeText
  <2>5. page \in Pages \cup {NoPage} /\ edited \in BOOLEAN /\ booted \in BOOLEAN
    OBVIOUS
  <2>6. configYaml \in Texts /\ sensor \in Texts /\ rejected \in MaybeText
    BY DEF MaybeText
  <2>7. \A n \in {applies, edits, crashes, faults} : n \in Nat
    OBVIOUS
  <2>8. lock \in Procs \cup {NoProc} /\ ids \in Nat
    OBVIOUS
  <2> HIDE ConfirmAssumption, RecordAssumption DEF Init
  <2> QED
    BY <2>1, <2>2, <2>3, <2>4, <2>5, <2>6, <2>7, <2>8, <2>9 DEF TypeOK
<1>2. PlaceInv /\ LockInv /\ RevertOwnsPending /\ NoNewApplyWhilePending
  BY DEF PlaceInv, LockInv, RevertOwnsPending, NoNewApplyWhilePending, Procs, Reverting, Fresh
<1> QED
  BY <1>1, <1>2 DEF ConfirmInv

(* The values of the files, of each process's reads and of the history     *)
(* stay what they are.                                                     *)
LEMMA TypesStep == TypeOK /\ PlaceInv /\ [Next]_vars => TypeOK'
<1> SUFFICES ASSUME TypeOK, PlaceInv, [Next]_vars PROVE TypeOK'
  OBVIOUS
<1>a. /\ NoText \in MaybeText /\ NoProc \in Procs \cup {NoProc} /\ NoPending \in Pendings \cup {NoPending}
      /\ \A t \in Texts : t \in MaybeText
      /\ {Helper, Waiter, Boot, Timer} \subseteq Procs
  BY DEF MaybeText, Procs
<1>b. \A p \in Procs : /\ loc[p].text \in Texts /\ loc[p].previous \in MaybeText
                       /\ loc[p].undo \in MaybeText
                       /\ loc[p].undo # NoText => loc[p].undo \in Texts
  BY DEF TypeOK, Locals, MaybeText
<1>c. \A l \in Locals, t \in Texts, m \in MaybeText :
        [l EXCEPT !.text = t] \in Locals /\ [l EXCEPT !.previous = m] \in Locals
  BY DEF Locals
<1>e. \A p \in Procs, t \in Texts : [loc EXCEPT ![p].text = t] \in [Procs -> Locals]
  <2>1. loc \in [Procs -> Locals]
    BY DEF TypeOK
  <2> QED
    BY <2>1 DEF Locals
<1>d. \A t \in Texts, m \in MaybeText, n \in MaybeText, c \in BOOLEAN :
        [text |-> t, previous |-> m, undo |-> n, confirm |-> c] \in Locals
  BY DEF Locals
<1> USE <1>a DEF TypeOK, files, system, boots, history, bounds, Go
<1>1. ASSUME NEW t \in Texts, SaveConfig(t) PROVE TypeOK'
  <2>1. loc' \in [Procs -> Locals]
    BY <1>1, <1>c DEF SaveConfig
  <2>2. pc' \in [Procs -> Places]
    BY <1>1 DEF SaveConfig, Places
  <2>3. configYaml' \in Texts /\ edits' \in Nat /\ edited' \in BOOLEAN
    BY <1>1 DEF SaveConfig
  <2>4. UNCHANGED <<sensor, record, rejected, system, pending, lock, page, unconfirmed, boots, ids,
                    applies, crashes, faults>>
    BY <1>1 DEF SaveConfig
  <2> QED
    BY <2>1, <2>2, <2>3, <2>4
<1>2. ASSUME NEW t \in Texts, LockMove(t) PROVE TypeOK'
  <2>1. loc' \in [Procs -> Locals]
    BY <1>2, <1>d DEF LockMove
  <2>2. pc' \in [Procs -> Places]
    BY <1>2 DEF LockMove, Places
  <2>3. applies' \in Nat /\ lock' \in Procs \cup {NoProc}
    BY <1>2 DEF LockMove, Command
  <2>4. UNCHANGED <<files, system, pending, page, history, ids, edits, crashes, faults>>
    BY <1>2 DEF LockMove
  <2> QED
    BY <2>1, <2>2, <2>3, <2>4
<1>3. CASE SaveSensorCopy
  BY <1>3, <1>b DEF SaveSensorCopy, Places
<1>4. ASSUME NEW p \in Procs, NEW c \in BOOLEAN, AskApply(p, c) PROVE TypeOK'
  BY <1>4, <1>d DEF AskApply, Command, Places
<1>5. ASSUME NEW p \in Procs, NEW c \in BOOLEAN, NEW t \in Texts, AskMove(p, t, c) PROVE TypeOK'
  BY <1>5, <1>d DEF AskMove, Command, Places
<1>6. ASSUME NEW p \in Procs, WriteMove(p) PROVE TypeOK'
  BY <1>6, <1>b DEF WriteMove, Places, Applying
<1>7. ASSUME NEW p \in Procs, LockApply(p) PROVE TypeOK'
  BY <1>7, <1>c DEF LockApply, Places, Applying
<1>8. ASSUME NEW p \in Procs, RefuseApply(p) PROVE TypeOK'
  BY <1>8 DEF RefuseApply, Places
<1>9. ASSUME NEW p \in Procs, PutBack(p) PROVE TypeOK'
  BY <1>9 DEF PutBack, PlaceInv, Places
<1>10. ASSUME NEW p \in Procs, ReadAgain(p) PROVE TypeOK'
  BY <1>10, <1>c DEF ReadAgain, Places, Applying
<1>11. ASSUME NEW p \in Procs, StartWaiting(p) PROVE TypeOK'
  BY <1>11 DEF StartWaiting, Places
<1>12. ASSUME NEW p \in Procs, StartWaitingFails(p) PROVE TypeOK'
  BY <1>12 DEF StartWaitingFails, Fault, Places
<1>13. ASSUME NEW p \in Procs, RevertOk(p) PROVE TypeOK'
  BY <1>13, <1>b DEF RevertOk, Loads, Places, Reverting
<1>14. ASSUME NEW p \in Procs, KeepRejected(p) PROVE TypeOK'
  BY <1>14 DEF KeepRejected, Places, Reverting
<1>15. ASSUME NEW p \in Procs, WriteBack(p) PROVE TypeOK'
  BY <1>15 DEF WriteBack, PlaceInv, Places, Reverting
<1>16. ASSUME NEW p \in Procs, Forget(p) PROVE TypeOK'
  BY <1>16 DEF Forget, End, Places
<1>17. ASSUME NEW p \in Procs, LockRevert(p) PROVE TypeOK'
  BY <1>17, <1>d DEF LockRevert, Places, Reverting
<1>18. ASSUME NEW p \in Procs, RevertImpossible(p) PROVE TypeOK'
  BY <1>18 DEF RevertImpossible, End, Places
<1>19. ASSUME NEW p \in Procs, ConfirmCli(p) PROVE TypeOK'
  BY <1>19 DEF ConfirmCli
<1>20. ASSUME NEW p \in Procs, Killed(p) PROVE TypeOK'
  BY <1>20 DEF Killed, Places
<1>21. CASE CheckSchedule
  <2>1. loc' \in [Procs -> Locals]
    BY <1>21, <1>c DEF CheckSchedule
  <2>2. pc' \in [Procs -> Places]
    BY <1>21 DEF CheckSchedule, Places
  <2>3. applies' \in Nat
    BY <1>21 DEF CheckSchedule, Command
  <2>4. UNCHANGED <<files, system, pending, lock, page, history, ids, edits, crashes, faults>>
    BY <1>21 DEF CheckSchedule
  <2> QED
    BY <2>1, <2>2, <2>3, <2>4
<1>22. CASE LockRefresh
  BY <1>22, <1>c DEF LockRefresh, Places, Applying
<1>23. CASE LoadPage
  BY <1>23 DEF LoadPage, Pages, Pendings
<1>24. CASE Confirm
  BY <1>24 DEF Confirm
<1>25. CASE RestoreRejected
  BY <1>25 DEF RestoreRejected, MaybeText
<1>26. CASE Expire
  BY <1>26, DuePending DEF Expire
<1>27. CASE WaiterExits
  BY <1>27 DEF WaiterExits, Places
<1>28. CASE BootStart
  <2>1. loc' \in [Procs -> Locals]
    <3>1. loc' = loc \/ loc' = [loc EXCEPT ![Boot].text = configYaml]
      BY <1>28 DEF BootStart
    <3>2. Boot \in Procs /\ configYaml \in Texts /\ loc \in [Procs -> Locals]
      OBVIOUS
    <3> QED
      BY ONLY <1>e, <3>1, <3>2
  <2>2. pc' \in [Procs -> Places]
    BY <1>28 DEF BootStart, Places, Applying
  <2>3. applies' \in Nat
    BY <1>28 DEF BootStart, Command
  <2>4. UNCHANGED <<files, system, pending, lock, page, history, ids, edits, crashes, faults>>
    BY <1>28 DEF BootStart
  <2> QED
    BY <2>1, <2>2, <2>3, <2>4
<1>29. CASE BootAfterAll
  BY <1>29, <1>c DEF BootAfterAll, Places, Applying
<1>30. ASSUME NEW p \in Procs, ApplyOk(p) PROVE TypeOK'
  <2>1. pc' \in [Procs -> Places] /\ lock' \in Procs \cup {NoProc} /\ booted' \in BOOLEAN
    BY <1>30 DEF ApplyOk, End, Places, Applying
  <2>2. running' \in MaybeText /\ stamp' \in MaybeText /\ record' \in MaybeText /\ sensor' \in Texts
    BY <1>30, <1>b DEF ApplyOk, Loads
  <2>3. unconfirmed' \in MaybeText /\ edited' \in BOOLEAN /\ UNCHANGED boots
    BY <1>30 DEF ApplyOk
  <2>4. UNCHANGED <<configYaml, rejected, pending, loc, page, ids, bounds>>
    BY <1>30 DEF ApplyOk
  <2> QED
    BY <2>1, <2>2, <2>3, <2>4
<1>31. ASSUME NEW p \in Procs, ApplyFails(p) PROVE TypeOK'
  <2>1. pc' \in [Procs -> Places] /\ lock' \in Procs \cup {NoProc}
    BY <1>31 DEF ApplyFails, Raise, Places
  <2>2. configYaml' \in Texts /\ faults' \in Nat
    <3>1. configYaml' = configYaml \/ (loc[p].undo # NoText /\ configYaml' = loc[p].undo)
      BY <1>31 DEF ApplyFails, Raise
    <3>2. faults' \in Nat
      BY <1>31 DEF ApplyFails, Fault
    <3> QED
      BY <1>b, <3>1, <3>2
  <2>3. edited' \in BOOLEAN
    BY <1>31 DEF ApplyFails
  <2>4. UNCHANGED <<sensor, record, rejected, system, pending, loc, page, unconfirmed, boots, ids,
                    applies, edits, crashes>>
    BY <1>31 DEF ApplyFails
  <2> QED
    BY <2>1, <2>2, <2>3, <2>4
<1>32. ASSUME NEW p \in Procs, RecordFails(p) PROVE TypeOK'
  <2>1. pc' \in [Procs -> Places] /\ lock' \in Procs \cup {NoProc}
    BY <1>32 DEF RecordFails, Raise, Places
  <2>2. configYaml' \in Texts /\ faults' \in Nat
    <3>1. configYaml' = configYaml \/ (loc[p].undo # NoText /\ configYaml' = loc[p].undo)
      BY <1>32 DEF RecordFails, Raise
    <3>2. faults' \in Nat
      BY <1>32 DEF RecordFails, Fault
    <3> QED
      BY <1>b, <3>1, <3>2
  <2>3. running' \in MaybeText /\ stamp' \in MaybeText
    BY <1>32, <1>b DEF RecordFails, Loads
  <2>4. unconfirmed' \in MaybeText /\ edited' \in BOOLEAN /\ booted' \in BOOLEAN /\ UNCHANGED boots
    BY <1>32 DEF RecordFails
  <2>5. UNCHANGED <<sensor, record, rejected, pending, loc, page, ids, applies, edits, crashes>>
    BY <1>32 DEF RecordFails
  <2> QED
    BY <2>1, <2>2, <2>3, <2>4, <2>5
<1>33. ASSUME NEW p \in Procs, Hold(p) PROVE TypeOK'
  <2>1. loc[p].previous \in Texts /\ ids + 1 \in Nat
    BY <1>33 DEF Hold, PlaceInv
  <2>2. pending' \in Pendings \cup {NoPending}
    BY <1>33, <2>1, NewPending DEF Hold
  <2>3. pc' \in [Procs -> Places] /\ ids' \in Nat /\ unconfirmed' \in MaybeText
    BY <1>33, <1>b, <2>1 DEF Hold, Places, Applying
  <2>4. restarted' \in BOOLEAN /\ cutOff' \in BOOLEAN
    BY <1>33 DEF Hold
  <2>5. UNCHANGED <<files, system, lock, loc, page, edited, bounds>>
    BY <1>33 DEF Hold
  <2> QED
    BY <2>2, <2>3, <2>4, <2>5
<1>34. ASSUME NEW p \in Procs, RevertFails(p) PROVE TypeOK'
  <2>1. running' \in MaybeText /\ stamp' \in MaybeText
    BY <1>34, <1>b DEF RevertFails, Loads
  <2>2. pc' \in [Procs -> Places] /\ faults' \in Nat
    BY <1>34 DEF RevertFails, End, Fault, Places, Reverting
  <2>4. UNCHANGED <<files, booted, pending, lock, loc, page, history, ids, applies, edits, crashes>>
    BY <1>34 DEF RevertFails
  <2> QED
    BY <2>1, <2>2, <2>4
<1>35. ASSUME NEW p \in Procs, RevertEnds(p) PROVE TypeOK'
  <2>1. running' \in MaybeText /\ stamp' \in MaybeText
    BY <1>35, <1>b DEF RevertEnds, Loads
  <2>2. pc' \in [Procs -> Places] /\ faults' \in Nat
    BY <1>35 DEF RevertEnds, End, Fault, Places, Reverting
  <2>3. lock' \in Procs \cup {NoProc} /\ booted' \in BOOLEAN /\ cutOff' \in BOOLEAN /\ restarted' \in BOOLEAN
    BY <1>35 DEF RevertEnds, End
  <2>4. UNCHANGED <<files, pending, loc, page, unconfirmed, edited, ids, applies, edits, crashes>>
    BY <1>35 DEF RevertEnds
  <2> QED
    BY <2>1, <2>2, <2>3, <2>4
<1>36. CASE BootFails
  <2>1. running' \in MaybeText /\ stamp' \in MaybeText
    BY <1>36, <1>b DEF BootFails, Loads
  <2>2. pc' \in [Procs -> Places] /\ lock' \in Procs \cup {NoProc}
    BY <1>36 DEF BootFails, End, Places
  <2>3. sensor' \in Texts /\ faults' \in Nat
    BY <1>36 DEF BootFails, Fault
  <2>4. booted' \in BOOLEAN /\ restarted' \in BOOLEAN
    BY <1>36 DEF BootFails, End
  <2>5. UNCHANGED <<configYaml, record, rejected, pending, loc, page, unconfirmed, edited, cutOff, ids,
                    applies, edits, crashes>>
    BY <1>36 DEF BootFails
  <2> QED
    BY <2>1, <2>2, <2>3, <2>4, <2>5
<1>37. CASE Reboot
  <2>1. pc' \in [Procs -> Places] /\ running' \in MaybeText /\ lock' \in Procs \cup {NoProc}
    BY <1>37 DEF Reboot, Places
  <2>2. loc' \in [Procs -> Locals]
    BY <1>37, <1>d DEF Reboot, Fresh
  <2>3. booted' \in BOOLEAN /\ restarted' \in BOOLEAN /\ cutOff' \in BOOLEAN
    BY <1>37 DEF Reboot
  <2>4. crashes' \in Nat
    BY <1>37 DEF Reboot
  <2>5. UNCHANGED <<files, stamp, pending, page, unconfirmed, edited, ids, applies, edits, faults>>
    BY <1>37 DEF Reboot
  <2> QED
    BY <2>1, <2>2, <2>3, <2>4, <2>5
<1>38. CASE UNCHANGED vars
  BY <1>38 DEF vars
<1> HIDE DEF TypeOK, files, system, boots, history, bounds, Go
<1> QED
  BY <1>1, <1>2, <1>3, <1>4, <1>5, <1>6, <1>7, <1>8, <1>9, <1>10, <1>11, <1>12,
     <1>13, <1>14, <1>15, <1>16, <1>17, <1>18, <1>19, <1>20, <1>21, <1>22, <1>23, <1>24,
     <1>25, <1>26, <1>27, <1>28, <1>29, <1>30, <1>31, <1>32, <1>33, <1>34, <1>35, <1>36,
     <1>37, <1>38
  DEF Next, Proceed, Revert

(* Where the processes are, who has the lock and whose the pending record  *)
(* is.                                                                     *)
Protocol == PlaceInv /\ LockInv /\ RevertOwnsPending /\ NoNewApplyWhilePending

(* Each read and write of each process, and each crash, keeps the          *)
(* protocol.                                                               *)
LEMMA ProtocolStep == TypeOK /\ Protocol /\ [Next]_vars => Protocol'
<1> SUFFICES ASSUME TypeOK, Protocol, [Next]_vars PROVE Protocol'
  OBVIOUS
<1>a. pc \in [Procs -> Places] /\ loc \in [Procs -> Locals] /\ pending \in Pendings \cup {NoPending}
  BY DEF TypeOK
<1> USE <1>a, ConfirmAssumption
    DEF Protocol, PlaceInv, LockInv, RevertOwnsPending, NoNewApplyWhilePending,
        Procs, Locals, Reverting, Go
<1>1. ASSUME NEW t \in Texts, SaveConfig(t) PROVE Protocol'
  BY <1>1 DEF SaveConfig
<1>2. ASSUME NEW t \in Texts, LockMove(t) PROVE Protocol'
  BY <1>2 DEF LockMove, Free
<1>3. CASE SaveSensorCopy
  BY <1>3 DEF SaveSensorCopy
<1>4. ASSUME NEW p \in Procs, NEW c \in BOOLEAN, AskApply(p, c) PROVE Protocol'
  <2>1. /\ p \in {Helper} \cup Clis /\ pc' = [pc EXCEPT ![p] = "ask"] /\ UNCHANGED <<pending, lock>>
    BY <1>4 DEF AskApply
  <2>2. \A q \in Procs \ {p} : loc'[q] = loc[q]
    BY <1>4 DEF AskApply
  <2> QED
    BY <2>1, <2>2
<1>5. ASSUME NEW p \in Procs, NEW c \in BOOLEAN, NEW t \in Texts, AskMove(p, t, c) PROVE Protocol'
  <2>1. /\ p \in {Helper} \cup Clis /\ pc' = [pc EXCEPT ![p] = "move"] /\ UNCHANGED <<pending, lock>>
        /\ p # Helper
    BY <1>5 DEF AskMove
  <2>2. \A q \in Procs \ {p} : loc'[q] = loc[q]
    BY <1>5 DEF AskMove
  <2> QED
    BY <2>1, <2>2
<1>6. ASSUME NEW p \in Procs, WriteMove(p) PROVE Protocol'
  BY <1>6 DEF WriteMove
<1>7. ASSUME NEW p \in Procs, LockApply(p) PROVE Protocol'
  BY <1>7 DEF LockApply, Free
<1>8. ASSUME NEW p \in Procs, RefuseApply(p) PROVE Protocol'
  BY <1>8 DEF RefuseApply, MaybeText
<1>9. ASSUME NEW p \in Procs, PutBack(p) PROVE Protocol'
  BY <1>9 DEF PutBack
<1>10. ASSUME NEW p \in Procs, ReadAgain(p) PROVE Protocol'
  BY <1>10 DEF ReadAgain
<1>11. ASSUME NEW p \in Procs, StartWaiting(p) PROVE Protocol'
  BY <1>11 DEF StartWaiting
<1>12. ASSUME NEW p \in Procs, StartWaitingFails(p) PROVE Protocol'
  BY <1>12 DEF StartWaitingFails, MaybeText
<1>13. ASSUME NEW p \in Procs, RevertOk(p) PROVE Protocol'
  BY <1>13 DEF RevertOk
<1>14. ASSUME NEW p \in Procs, KeepRejected(p) PROVE Protocol'
  BY <1>14 DEF KeepRejected
<1>15. ASSUME NEW p \in Procs, WriteBack(p) PROVE Protocol'
  BY <1>15 DEF WriteBack
<1>16. ASSUME NEW p \in Procs, Forget(p) PROVE Protocol'
  BY <1>16 DEF Forget, End
<1>17. ASSUME NEW p \in Procs, LockRevert(p) PROVE Protocol'
  BY <1>17 DEF LockRevert, Free, MayRevert
<1>18. ASSUME NEW p \in Procs, RevertImpossible(p) PROVE Protocol'
  BY <1>18 DEF RevertImpossible, Free, MayRevert, End
<1>19. ASSUME NEW p \in Procs, ConfirmCli(p) PROVE Protocol'
  BY <1>19 DEF ConfirmCli, Free
<1>20. ASSUME NEW p \in Procs, Killed(p) PROVE Protocol'
  BY <1>20 DEF Killed
<1>21. CASE CheckSchedule
  BY <1>21 DEF CheckSchedule
<1>22. CASE LockRefresh
  BY <1>22 DEF LockRefresh, Free
<1>23. CASE LoadPage
  BY <1>23 DEF LoadPage
<1>24. CASE Confirm
  BY <1>24 DEF Confirm, Free
<1>25. CASE RestoreRejected
  BY <1>25 DEF RestoreRejected, Free
<1>26. CASE WaiterExits
  BY <1>26 DEF WaiterExits, Free
<1>27. CASE BootStart
  BY <1>27 DEF BootStart
<1>28. CASE BootAfterAll
  BY <1>28 DEF BootAfterAll, Free
<1>29. ASSUME NEW p \in Procs, ApplyOk(p) PROVE Protocol'
  <2>1. UNCHANGED <<pending, loc>> /\ pc[p] = "applying"
    BY <1>29 DEF ApplyOk
  <2>2. CASE NeedsConfirmation(p)
    <3>1. pc' = [pc EXCEPT ![p] = "hold"] /\ lock' = lock
      BY <1>29, <2>2 DEF ApplyOk
    <3>2. loc[p].confirm /\ loc[p].previous \in Texts
      BY <2>2 DEF NeedsConfirmation, MaybeText
    <3>3. p \in {Helper} \cup Clis
      BY <2>1, <3>2
    <3> QED
      BY <2>1, <3>1, <3>2, <3>3
  <2>3. CASE ~NeedsConfirmation(p)
    <3>1. pc' = [pc EXCEPT ![p] = "idle"] /\ lock' = IF lock = p THEN NoProc ELSE lock
      BY <1>29, <2>3 DEF ApplyOk, End
    <3> QED
      BY <2>1, <3>1
  <2> QED
    BY <2>2, <2>3
<1>30. ASSUME NEW p \in Procs, ApplyFails(p) \/ RecordFails(p) PROVE Protocol'
  <2>1. /\ pc' = [pc EXCEPT ![p] = "idle"] \/ (pc' = [pc EXCEPT ![p] = "putback"] /\ loc[p].undo \in Texts)
        /\ lock' = IF lock = p THEN NoProc ELSE lock
    BY <1>30 DEF ApplyFails, RecordFails, Raise, MaybeText
  <2>2. UNCHANGED <<pending, loc>>
    BY <1>30 DEF ApplyFails, RecordFails
  <2>3. CASE pc' = [pc EXCEPT ![p] = "idle"]
    BY <2>1, <2>2, <2>3
  <2>4. CASE pc' = [pc EXCEPT ![p] = "putback"] /\ loc[p].undo \in Texts
    BY <2>1, <2>2, <2>4
  <2> QED
    BY <2>1, <2>3, <2>4
<1>31. ASSUME NEW p \in Procs, Hold(p) PROVE Protocol'
  <2>1. /\ pc[p] = "hold" /\ pc' = [pc EXCEPT ![p] = "starting"]
        /\ UNCHANGED <<lock, loc>> /\ lock = p
    BY <1>31 DEF Hold
  <2> QED
    BY <2>1
<1>32. ASSUME NEW p \in Procs, RevertFails(p) PROVE Protocol'
  <2>1. /\ pc[p] = "reverting" /\ pc' = [pc EXCEPT ![p] = "keep"]
        /\ UNCHANGED <<lock, loc, pending>>
    BY <1>32 DEF RevertFails
  <2> QED
    BY <2>1
<1>33. ASSUME NEW p \in Procs, RevertEnds(p) PROVE Protocol'
  <2>1. /\ pc' = [pc EXCEPT ![p] = "idle"] /\ lock' = IF lock = p THEN NoProc ELSE lock
        /\ UNCHANGED <<pending, loc>>
    BY <1>33 DEF RevertEnds, End
  <2> QED
    BY <2>1
<1>34. CASE BootFails
  <2>1. /\ pc' = [pc EXCEPT ![Boot] = "idle"] /\ lock' = IF lock = Boot THEN NoProc ELSE lock
        /\ UNCHANGED <<pending, loc>>
    BY <1>34 DEF BootFails, End
  <2> QED
    BY <2>1
<1>35. CASE Expire
  <2>1. pending' # NoPending /\ pending'.previous = pending.previous /\ pending # NoPending
    BY <1>35, DuePending, RecordAssumption DEF Expire
  <2>2. UNCHANGED <<lock, pc, loc>>
    BY <1>35 DEF Expire
  <2> QED
    BY <2>1, <2>2
<1>36. CASE Reboot
  <2>1. \A p \in Procs : pc'[p] = "idle" /\ loc'[p].confirm = FALSE /\ loc'[p].undo = NoText
    BY <1>36 DEF Reboot, Fresh
  <2> QED
    BY <2>1
<1>37. CASE UNCHANGED vars
  BY <1>37 DEF vars
<1> HIDE DEF Protocol, PlaceInv, LockInv, RevertOwnsPending, NoNewApplyWhilePending,
             Procs, Locals, Reverting, Go
<1> QED
  BY <1>1, <1>2, <1>3, <1>4, <1>5, <1>6, <1>7, <1>8, <1>9, <1>10, <1>11, <1>12,
     <1>13, <1>14, <1>15, <1>16, <1>17, <1>18, <1>19, <1>20, <1>21, <1>22, <1>23, <1>24,
     <1>25, <1>26, <1>27, <1>28, <1>29, <1>30, <1>31, <1>32, <1>33, <1>34, <1>35, <1>36,
     <1>37
  DEF Next, Proceed, Revert

(* Both together, which is inductive.                                      *)
LEMMA ConfirmStep == ConfirmInv /\ [Next]_vars => ConfirmInv'
<1>1. ConfirmInv => TypeOK /\ PlaceInv /\ Protocol
  BY DEF ConfirmInv, Protocol
<1>2. TypeOK' /\ Protocol' => ConfirmInv'
  BY DEF ConfirmInv, Protocol
<1> QED
  BY <1>1, <1>2, TypesStep, ProtocolStep

(* The pending, confirm and revert protocol keeps the types of its files   *)
(* and processes.                                                          *)
THEOREM ConfirmTypes == Spec => []TypeOK
<1>1. ConfirmInv => TypeOK
  BY DEF ConfirmInv
<1> QED
  BY <1>1, ConfirmInit, ConfirmStep, PTL DEF Spec

(* "A confirmation can't land halfway through a revert": the lock keeps    *)
(* the pending record for the process that takes the apply back, whoever   *)
(* else runs, is killed or is restarted.                                   *)
THEOREM RevertIsNotInterrupted == Spec => []RevertOwnsPending
<1>1. ConfirmInv => RevertOwnsPending
  BY DEF ConfirmInv
<1> QED
  BY <1>1, ConfirmInit, ConfirmStep, PTL DEF Spec

(* "A new apply never starts while one is pending", for the helper and any *)
(* number of command lines.                                                *)
THEOREM NoApplyWhilePending == Spec => []NoNewApplyWhilePending
<1>1. ConfirmInv => NoNewApplyWhilePending
  BY DEF ConfirmInv
<1> QED
  BY <1>1, ConfirmInit, ConfirmStep, PTL DEF Spec
-----------------------------------------------------------------------------
(* The boot's apply takes no lock: it is alone because nothing else runs   *)
(* before fr-firewall.service has finished.                                *)
BootIsAlone ==
  /\ booted => pc[Boot] = "idle"
  /\ ~booted => \A p \in Procs \ {Boot} : pc[p] = "idle"

(* Each step keeps it, unless fr-firewall is restarted on a running router.*)
LEMMA BootAloneStep ==
  ASSUME ~Restarts
  PROVE  ConfirmInv /\ BootIsAlone /\ [Next]_vars => BootIsAlone'
<1> SUFFICES ASSUME ConfirmInv, BootIsAlone, [Next]_vars PROVE BootIsAlone'
  OBVIOUS
<1>a. pc \in [Procs -> Places]
  BY DEF ConfirmInv, TypeOK
<1>b. \A p \in Procs : pc[p] \in {"move", "hold", "starting"} => p \in {Helper} \cup Clis
  BY DEF ConfirmInv, PlaceInv
<1>c. booted \in BOOLEAN
  BY DEF ConfirmInv, TypeOK
<1>d. \A p \in {Boot, Timer} : loc[p].undo = NoText
  BY DEF ConfirmInv, PlaceInv, Procs
<1> USE <1>a, <1>b, <1>c, ConfirmAssumption
    DEF BootIsAlone, Procs, Places, Reverting, Applying, Go, End, system
<1>1. CASE SaveSensorCopy \/ CheckSchedule \/ LockRefresh
           \/ LoadPage \/ Confirm \/ RestoreRejected \/ Expire \/ WaiterExits
  BY <1>1 DEF SaveSensorCopy, CheckSchedule, LockRefresh,
              LoadPage, Confirm, RestoreRejected, Expire, WaiterExits
<1>2. ASSUME NEW t \in Texts, SaveConfig(t) \/ LockMove(t) PROVE BootIsAlone'
  BY <1>2 DEF SaveConfig, LockMove
<1>11. ASSUME NEW p \in Procs, NEW c \in BOOLEAN, AskApply(p, c) PROVE BootIsAlone'
  BY <1>11 DEF AskApply
<1>12. ASSUME NEW p \in Procs, NEW c \in BOOLEAN, NEW t \in Texts, AskMove(p, t, c)
       PROVE  BootIsAlone'
  BY <1>12 DEF AskMove
<1>3. ASSUME NEW p \in Procs,
             LockApply(p) \/ RefuseApply(p) \/ PutBack(p) \/ ReadAgain(p) \/ Hold(p)
             \/ StartWaitingFails(p) \/ RevertOk(p) \/ RevertFails(p)
             \/ KeepRejected(p) \/ WriteBack(p) \/ ConfirmCli(p)
      PROVE  BootIsAlone'
  BY SMTT(30), <1>3 DEF LockApply, RefuseApply, PutBack, ReadAgain, Hold, StartWaitingFails,
              RevertOk, RevertFails, KeepRejected, WriteBack, ConfirmCli
<1>4. ASSUME NEW p \in Procs, ApplyOk(p) PROVE BootIsAlone'
  BY <1>4 DEF ApplyOk
<1>5. ASSUME NEW p \in Procs, StartWaiting(p) PROVE BootIsAlone'
  BY <1>5 DEF StartWaiting
<1>6. ASSUME NEW p \in Procs, Forget(p) \/ Revert(p) PROVE BootIsAlone'
  <2>1. CASE Forget(p)
    BY <2>1 DEF Forget
  <2>2. CASE LockRevert(p)
    BY <2>2 DEF LockRevert, MayRevert
  <2>3. CASE RevertImpossible(p)
    BY <2>3 DEF RevertImpossible, MayRevert
  <2> QED
    BY <1>6, <2>1, <2>2, <2>3 DEF Revert
<1>7. ASSUME NEW p \in Procs, Killed(p) PROVE BootIsAlone'
  BY <1>7 DEF Killed
<1>8. CASE BootStart \/ BootAfterAll \/ BootFails
  BY <1>8 DEF BootStart, BootAfterAll, BootFails
<1>9. CASE Reboot
  BY <1>9 DEF Reboot
<1>10. CASE UNCHANGED vars
  BY <1>10 DEF vars
<1>13. ASSUME NEW p \in Procs, ApplyFails(p) PROVE BootIsAlone'
  <2>1. p # Boot /\ pc[p] # "idle" /\ UNCHANGED booted
    BY <1>13, <1>b DEF ApplyFails
  <2>2. pc' \in {[pc EXCEPT ![p] = "idle"], [pc EXCEPT ![p] = "putback"]}
    BY <1>13 DEF ApplyFails, Raise
  <2> QED
    BY <2>1, <2>2
<1>14. ASSUME NEW p \in Procs, RecordFails(p) PROVE BootIsAlone'
  <2>1. pc[p] # "idle" /\ booted' = (booted \/ p = Boot)
    BY <1>14 DEF RecordFails
  <2>2. \/ pc' = [pc EXCEPT ![p] = "idle"]
        \/ pc' = [pc EXCEPT ![p] = "putback"] /\ p # Boot
    BY <1>14, <1>d DEF RecordFails, Raise
  <2> QED
    BY <2>1, <2>2
<1>15. ASSUME NEW p \in Procs, WriteMove(p) PROVE BootIsAlone'
  BY <1>15 DEF WriteMove
<1>16. ASSUME NEW p \in Procs, RevertEnds(p) PROVE BootIsAlone'
  BY <1>16 DEF RevertEnds
<1> HIDE DEF BootIsAlone
<1> QED
  BY <1>1, <1>2, <1>3, <1>4, <1>5, <1>6, <1>7, <1>8, <1>9, <1>10, <1>11, <1>12,
     <1>13, <1>14, <1>15, <1>16
  DEF Next, Proceed

(* One process at a time changes the router, the boot included, as long as *)
(* fr-firewall is not restarted on a running router.                       *)
THEOREM AppliesAreSerial ==
  ASSUME ~Restarts
  PROVE  Spec => []OneApplyAtATime
<1>1. Init => BootIsAlone
  BY DEF Init, BootIsAlone, Procs
<1>2. ConfirmInv /\ BootIsAlone => OneApplyAtATime
  BY ConfirmAssumption
  DEF ConfirmInv, TypeOK, LockInv, BootIsAlone, OneApplyAtATime, Procs, Reverting
<1> QED
  BY <1>1, <1>2, ConfirmInit, ConfirmStep, BootAloneStep, PTL DEF Spec
=============================================================================
