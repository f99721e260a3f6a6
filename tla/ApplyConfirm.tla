---------------------------- MODULE ApplyConfirm ----------------------------
(***************************************************************************)
(* An apply that is held until it is confirmed, or taken back              *)
(* (frfw.apply_confirm), by everyone who applies: the apply-helper's       *)
(* handlers, firewall-cli, the unit that waits for the deadline            *)
(* (fr-apply-revert.service), the boot (fr-firewall.service) and the       *)
(* hourly schedule check.  Each is a process, and a process is interrupted *)
(* between any two of its reads and writes, but for two files it reads one *)
(* after the other to compare them, and config.yaml going back with the    *)
(* sensors' copy, of which no property speaks.                             *)
(*                                                                         *)
(* A config is its text.  apply_all is one step that succeeds, changes     *)
(* nothing, or ends with its record unwritten: module ApplyTransaction is  *)
(* about its inside.                                                       *)
(***************************************************************************)
EXTENDS Integers

CONSTANTS
  Texts, NoText,     \* the texts config.yaml may hold; none recorded
  Moved,             \* the <<text, record>> that moves_management refuses
  Readdressed,       \* the <<text, new>> that set_management_addresses makes
  Held,              \* the texts with confirm_apply_seconds > 0
  Obsolete,          \* texts applied before an update whose schema refuses them
  Helper, Waiter, Boot, Timer, Clis,   \* the processes
  NoProc, NoPending, NoPage,
  Mortal,            \* the processes that may be killed
  Restarts,          \* whether fr-firewall is restarted on a running router
  Scheduled,         \* whether configs have scheduled rules, and the clock's
                     \* offset may change
  MaxApplies,        \* bound: apply and management commands given
  MaxEdits,          \* bound: configs saved
  MaxCrashes,        \* bound: reboots and killed processes
  MaxFaults          \* bound: calls that fail

Procs == {Helper, Waiter, Boot, Timer} \cup Clis
MaybeText == Texts \cup {NoText}

ASSUME ConfirmAssumption ==
  /\ NoText \notin Texts
  /\ NoProc \notin Procs
  /\ Helper \notin {Waiter, Boot, Timer} \cup Clis
  /\ Waiter \notin {Boot, Timer} \cup Clis
  /\ Boot \notin {Timer} \cup Clis
  /\ Timer \notin Clis
  /\ Moved \subseteq Texts \X Texts /\ Readdressed \subseteq Texts \X Texts
  /\ Held \subseteq Texts /\ Obsolete \cap (Texts \cup {NoText}) = {}
  /\ Mortal \subseteq Procs
  /\ Restarts \in BOOLEAN /\ Scheduled \in BOOLEAN
  /\ \A n \in {MaxApplies, MaxEdits, MaxCrashes, MaxFaults} : n \in Nat

Pendings == [id : Nat, previous : Texts \cup Obsolete, due : BOOLEAN]
Pages == [id : Nat, text : MaybeText]

ASSUME RecordAssumption == NoPending \notin Pendings /\ NoPage \notin Pages

VARIABLES
  configYaml,  \* config.yaml
  sensor,      \* the text the sensors' copy of config.yaml was made from
  record,      \* APPLIED_CONFIG_PATH
  running,     \* the config the router runs; NoText: none, or the baseline
  stamp,       \* SCHEDULE_STATE_PATH: the config whose fingerprint it holds
  pending,     \* APPLY_PENDING_PATH
  rejected,    \* REJECTED_CONFIG_PATH
  lock,        \* who holds APPLY_LOCK_PATH
  pc, loc,     \* each process: where it is, and what it read
  page,        \* the admin's page: the id it confirms, the config it saw
  booted,      \* fr-firewall.service has finished
  unconfirmed, \* history: the config last held, until it is confirmed or kept
               \* for want of a config to go back to, or another one is applied
  edited,      \* history: config.yaml was written since that apply
  restarted,   \* history: the router was booted since it was held, by a boot
               \* that fell back on nothing
  cutOff,      \* history: a revert of it, or its countdown, was cut off
  ids, applies, edits, crashes, faults

files  == <<configYaml, sensor, record, rejected>>
system == <<running, stamp, booted>>
boots  == <<restarted, cutOff>>
history == <<unconfirmed, edited, boots>>
bounds == <<applies, edits, crashes, faults>>
vars == <<files, system, pending, lock, pc, loc, page, history, ids, bounds>>

(* The places where a revert is under way, and those of a new apply.       *)
Reverting == {"reverting", "keep", "writeback", "forget"}
Applying  == {"read", "applying", "hold", "starting"}
Places    == {"idle", "saved", "move", "ask", "putback", "refresh", "waiting", "wantrevert"}
             \cup Reverting \cup Applying
Locals    == [text : Texts, previous : MaybeText, undo : MaybeText, confirm : BOOLEAN]

TypeOK ==
  /\ configYaml \in Texts /\ sensor \in Texts
  /\ record \in MaybeText /\ running \in MaybeText /\ rejected \in MaybeText
  /\ unconfirmed \in MaybeText /\ stamp \in MaybeText
  /\ pending \in Pendings \cup {NoPending}
  /\ lock \in Procs \cup {NoProc}
  /\ pc \in [Procs -> Places] /\ loc \in [Procs -> Locals]
  /\ page \in Pages \cup {NoPage}
  /\ booted \in BOOLEAN /\ edited \in BOOLEAN
  /\ restarted \in BOOLEAN /\ cutOff \in BOOLEAN
  /\ ids \in Nat
  /\ \A n \in {applies, edits, crashes, faults} : n \in Nat
-----------------------------------------------------------------------------
(* moves_management: refused without the admin's own setting.              *)
MovesManagement(t) == record # NoText /\ <<t, record>> \in Moved

Free == lock = NoProc
Go(p, where) == pc' = [pc EXCEPT ![p] = where]

(* A process is done: its lock is released, and a boot has finished.       *)
End(p) ==
  /\ Go(p, "idle")
  /\ lock' = IF lock = p THEN NoProc ELSE lock
  /\ booted' = (booted \/ p = Boot)

(* The ruleset of t is loaded, and the schedule's record written with it.  *)
Loads(t) == running' = t /\ stamp' = IF Scheduled THEN t ELSE NoText

(* What a process has read when it starts: nothing that it will use.       *)
Fresh == [text |-> configYaml, previous |-> NoText, undo |-> NoText, confirm |-> FALSE]

Command == applies < MaxApplies /\ applies' = applies + 1
Fault == faults < MaxFaults /\ faults' = faults + 1

Init ==
  /\ configYaml \in Texts /\ sensor = configYaml
  /\ record \in {configYaml, NoText}
  /\ rejected = NoText /\ page = NoPage /\ lock = NoProc
  /\ pc = [p \in Procs |-> "idle"]
  /\ loc = [p \in Procs |-> Fresh]
  /\ booted \in BOOLEAN /\ edited = FALSE
  /\ restarted = FALSE /\ cutOff = FALSE
  /\ pending \in {NoPending} \cup [id : {0}, previous : Obsolete, due : BOOLEAN]
  /\ unconfirmed = IF pending # NoPending THEN configYaml ELSE NoText
  /\ pending # NoPending => ~booted /\ record # NoText
  /\ running = IF booted THEN record ELSE NoText
  /\ stamp = IF Scheduled THEN record ELSE NoText
  /\ ids = 0
  /\ applies = 0 /\ edits = 0 /\ crashes = 0 /\ faults = 0
-----------------------------------------------------------------------------
(* save_config, which takes no lock: config.yaml ...                       *)
SaveConfig(t) ==
  /\ booted /\ pc[Helper] = "idle"
  /\ edits < MaxEdits /\ edits' = edits + 1
  /\ configYaml' = t
  /\ loc' = [loc EXCEPT ![Helper].text = t]
  /\ Go(Helper, "saved")
  /\ edited' = TRUE /\ UNCHANGED <<unconfirmed, boots>>
  /\ UNCHANGED <<sensor, record, rejected, system, pending, lock, page, ids, applies, crashes, faults>>

(* ... then the sensors' copy, of the text that was saved.                 *)
SaveSensorCopy ==
  /\ pc[Helper] = "saved"
  /\ sensor' = loc[Helper].text
  /\ Go(Helper, "idle")
  /\ UNCHANGED <<configYaml, record, rejected, system, pending, lock, loc, page, history, ids, bounds>>

(* _handle_apply reads config.yaml before it waits for the lock; _cmd_apply*)
(* reads it later.                                                         *)
AskApply(p, confirm) ==
  /\ p \in {Helper} \cup Clis /\ booted /\ pc[p] = "idle"
  /\ Command
  /\ loc' = [loc EXCEPT ![p] = [text |-> configYaml, previous |-> NoText,
                                undo |-> NoText, confirm |-> confirm]]
  /\ Go(p, "ask")
  /\ UNCHANGED <<files, system, pending, lock, page, history, ids, edits, crashes, faults>>

(* _cmd_management_addresses: config.yaml must be the config applied ...    *)
AskMove(p, t, confirm) ==
  /\ p \in Clis /\ booted /\ pc[p] = "idle"
  /\ Command
  /\ record \in {NoText, configYaml}
  /\ <<configYaml, t>> \in Readdressed
  /\ loc' = [loc EXCEPT ![p] = [text |-> t, previous |-> NoText,
                                undo |-> configYaml, confirm |-> confirm]]
  /\ Go(p, "move")
  /\ UNCHANGED <<files, system, pending, lock, page, history, ids, edits, crashes, faults>>

(* ... and gets the new addresses: on the console before the lock is asked *)
(* for, in the helper with it held.                                        *)
WriteMove(p) ==
  /\ pc[p] = "move"
  /\ configYaml' = loc[p].text
  /\ edited' = TRUE /\ UNCHANGED <<unconfirmed, boots>>
  /\ Go(p, IF p = Helper THEN "applying" ELSE "ask")
  /\ UNCHANGED <<sensor, record, rejected, system, pending, lock, loc, page, ids, bounds>>

(* What a new apply is checked against: the helper the text it read, the   *)
(* command line config.yaml as it is now.                                  *)
Asked(p) == IF p = Helper THEN loc[p].text ELSE configYaml

(* A mutant of LockApply: whether one is pending is not looked at.         *)
LockApplyRegardless(p) ==
  /\ pc[p] = "ask" /\ Free
  /\ ~MovesManagement(Asked(p))
  /\ lock' = p
  /\ loc' = [loc EXCEPT ![p].previous = record]
  /\ Go(p, IF p = Helper THEN "applying" ELSE "read")
  /\ UNCHANGED <<files, system, pending, page, history, ids, bounds>>

(* _apply_locked and _cmd_apply, with the lock: nothing may be pending.    *)
LockApply(p) ==
  /\ pc[p] = "ask" /\ Free
  /\ pending = NoPending /\ ~MovesManagement(Asked(p))
  /\ lock' = p
  /\ loc' = [loc EXCEPT ![p].previous = record]
  /\ Go(p, IF p = Helper THEN "applying" ELSE "read")
  /\ UNCHANGED <<files, system, pending, page, history, ids, bounds>>

(* Otherwise it is refused, and the console's new addresses are taken back.*)
RefuseApply(p) ==
  /\ pc[p] = "ask" /\ Free
  /\ pending # NoPending \/ MovesManagement(Asked(p))
  /\ Go(p, IF loc[p].undo = NoText THEN "idle" ELSE "putback")
  /\ UNCHANGED <<files, system, pending, lock, loc, page, history, ids, bounds>>

(* _cmd_management_addresses after a failure, without the lock.            *)
PutBack(p) ==
  /\ pc[p] = "putback"
  /\ configYaml' = loc[p].undo
  /\ edited' = TRUE /\ UNCHANGED <<unconfirmed, boots>>
  /\ Go(p, "idle")
  /\ UNCHANGED <<sensor, record, rejected, system, pending, lock, loc, page, ids, bounds>>

(* _apply_now reads config.yaml again; save_config may have changed it.    *)
ReadAgain(p) ==
  /\ pc[p] = "read"
  /\ loc' = [loc EXCEPT ![p].text = configYaml]
  /\ Go(p, "applying")
  /\ UNCHANGED <<files, system, pending, lock, page, history, ids, bounds>>

(* _handle_set_management_addresses, all of it with the lock held.         *)
LockMove(t) ==
  /\ booted /\ pc[Helper] = "idle" /\ Free
  /\ Command
  /\ pending = NoPending /\ record \in {NoText, configYaml}
  /\ <<configYaml, t>> \in Readdressed
  /\ lock' = Helper
  /\ loc' = [loc EXCEPT ![Helper] = [text |-> t, previous |-> record,
                                     undo |-> configYaml, confirm |-> TRUE]]
  /\ Go(Helper, "move")
  /\ UNCHANGED <<files, system, pending, page, history, ids, edits, crashes, faults>>

(* The schedule check: the clock's offset changed, and config.yaml has the *)
(* fingerprint recorded with the ruleset; looked at before the lock ...    *)
CheckSchedule ==
  /\ Scheduled /\ booted /\ pc[Timer] = "idle"
  /\ Command
  /\ configYaml = stamp
  /\ loc' = [loc EXCEPT ![Timer].text = configYaml]
  /\ Go(Timer, "refresh")
  /\ UNCHANGED <<files, system, pending, lock, page, history, ids, edits, crashes, faults>>

(* A mutant of LockRefresh: the config as it was read for the comparison.   *)
LockRefreshStale ==
  /\ pc[Timer] = "refresh" /\ Free
  /\ lock' = Timer
  /\ Go(Timer, "applying")
  /\ UNCHANGED <<files, system, pending, loc, page, history, ids, bounds>>

(* ... and config.yaml, as it is then, applied with it.                    *)
LockRefresh ==
  /\ pc[Timer] = "refresh" /\ Free
  /\ lock' = Timer
  /\ loc' = [loc EXCEPT ![Timer].text = configYaml]
  /\ Go(Timer, "applying")
  /\ UNCHANGED <<files, system, pending, page, history, ids, bounds>>

(* A mutant of NeedsConfirmation: a first apply is held too.               *)
NeedsConfirmationAlways(p) ==
  /\ loc[p].confirm
  /\ IF p = Helper THEN loc[p].text \in Held \ {loc[p].previous}
                   ELSE configYaml # loc[p].previous

(* needs_confirmation; `--confirm-within` compares what config.yaml holds  *)
(* after the apply, and holds any config.                                  *)
NeedsConfirmation(p) ==
  /\ loc[p].confirm /\ loc[p].previous # NoText
  /\ IF p = Helper THEN loc[p].text \in Held \ {loc[p].previous}
                   ELSE configYaml # loc[p].previous

(* apply_all succeeds and records the text; everyone but the schedule      *)
(* check refreshes the sensors' copy, the helper after the apply is held.  *)
ApplyOk(p) ==
  /\ pc[p] = "applying"
  /\ Loads(loc[p].text) /\ record' = loc[p].text
  /\ IF NeedsConfirmation(p) THEN Go(p, "hold") /\ UNCHANGED <<lock, booted>> ELSE End(p)
  /\ IF p \in {Boot, Timer} THEN UNCHANGED history
     ELSE unconfirmed' = NoText /\ edited' = (configYaml # loc[p].text) /\ UNCHANGED boots
  /\ sensor' = IF p = Timer \/ (p = Helper /\ NeedsConfirmation(p)) THEN sensor ELSE configYaml
  /\ UNCHANGED <<configYaml, rejected, pending, loc, page, ids, bounds>>

(* An error ends an apply.  The helper's new addresses are taken back with *)
(* the lock held, the console's without it.                                *)
Raise(p) ==
  /\ lock' = IF lock = p THEN NoProc ELSE lock
  /\ IF p # Helper /\ loc[p].undo # NoText
     THEN Go(p, "putback") /\ UNCHANGED configYaml
     ELSE /\ Go(p, "idle")
          /\ configYaml' = IF loc[p].undo # NoText THEN loc[p].undo ELSE configYaml

(* apply_all fails and changes nothing, or begin can't write its record:   *)
(* the apply runs, and is not held.                                        *)
ApplyFails(p) ==
  /\ pc[p] = "hold" \/ (pc[p] = "applying" /\ p # Boot)
  /\ Fault
  /\ Raise(p)
  /\ edited' = (edited \/ configYaml' # configYaml)
  /\ UNCHANGED <<sensor, record, rejected, system, pending, loc, page, unconfirmed, boots, ids,
                 applies, edits, crashes>>

(* apply_all did everything but write its record: no ApplyError, so no     *)
(* fallback of the boot either.                                            *)
RecordFails(p) ==
  /\ pc[p] = "applying"
  /\ Fault
  /\ Loads(loc[p].text)
  /\ Raise(p)
  /\ booted' = (booted \/ p = Boot)
  /\ IF p \in {Boot, Timer} THEN UNCHANGED history
     ELSE unconfirmed' = NoText /\ edited' = (configYaml' # loc[p].text) /\ UNCHANGED boots
  /\ UNCHANGED <<sensor, record, rejected, pending, loc, page, ids, applies, edits, crashes>>

(* begin: the pending record is written ...                                *)
Hold(p) ==
  /\ pc[p] = "hold"
  /\ ids' = ids + 1
  /\ pending' = [id |-> ids + 1, previous |-> loc[p].previous, due |-> FALSE]
  /\ Go(p, "starting")
  /\ unconfirmed' = loc[p].text
  /\ restarted' = FALSE /\ cutOff' = FALSE
  /\ UNCHANGED <<files, system, lock, loc, page, edited, bounds>>

(* A mutant of StartWaiting: no unit is started.                           *)
StartNothing(p) ==
  /\ pc[p] = "starting"
  /\ Go(p, "idle")
  /\ lock' = NoProc
  /\ sensor' = IF p = Helper THEN configYaml ELSE sensor
  /\ UNCHANGED <<configYaml, record, rejected, system, pending, loc, page, history, ids, bounds>>

(* ... and the waiting unit restarted, which may still wait for an apply   *)
(* that was confirmed.                                                     *)
StartWaiting(p) ==
  /\ pc[p] = "starting"
  /\ pc' = [pc EXCEPT ![p] = "idle", ![Waiter] = "waiting"]
  /\ lock' = NoProc
  /\ sensor' = IF p = Helper THEN configYaml ELSE sensor
  /\ UNCHANGED <<configYaml, record, rejected, system, pending, loc, page, history, ids, bounds>>

(* The unit can't be started: the apply is not held.  On the console the   *)
(* error ends the command, and new addresses are taken back from           *)
(* config.yaml, though applied.                                            *)
StartWaitingFails(p) ==
  /\ pc[p] = "starting"
  /\ Fault
  /\ pending' = NoPending /\ unconfirmed' = NoText
  /\ lock' = NoProc
  /\ Go(p, IF p # Helper /\ loc[p].undo # NoText THEN "putback" ELSE "idle")
  /\ sensor' = IF p = Helper THEN configYaml ELSE sensor
  /\ UNCHANGED <<configYaml, record, rejected, system, loc, page, edited, boots, ids, applies, edits, crashes>>
-----------------------------------------------------------------------------
(* The dashboard's page, which shows the pending apply.                    *)
LoadPage ==
  /\ booted /\ pending # NoPending
  /\ page' = [id |-> pending.id, text |-> running]
  /\ UNCHANGED <<files, system, pending, lock, pc, loc, history, ids, bounds>>

(* A mutant of Confirm: any page confirms whatever is pending.             *)
ConfirmAny ==
  /\ booted /\ pc[Helper] = "idle" /\ Free
  /\ pending # NoPending /\ page # NoPage
  /\ pending' = NoPending /\ unconfirmed' = NoText
  /\ UNCHANGED <<files, system, lock, pc, loc, page, edited, boots, ids, bounds>>

(* apply_confirm from the page: only the pending apply's own id.           *)
Confirm ==
  /\ booted /\ pc[Helper] = "idle" /\ Free
  /\ pending # NoPending /\ page # NoPage /\ page.id = pending.id
  /\ pending' = NoPending /\ unconfirmed' = NoText
  /\ UNCHANGED <<files, system, lock, pc, loc, page, edited, boots, ids, bounds>>

(* A mutant of ConfirmCli: without the lock.                               *)
ConfirmCliUnlocked(p) ==
  /\ p \in Clis /\ booted /\ pc[p] = "idle"
  /\ pending # NoPending
  /\ pending' = NoPending /\ unconfirmed' = NoText
  /\ UNCHANGED <<files, system, lock, pc, loc, page, edited, boots, ids, bounds>>

(* firewall-cli apply-confirm: whatever is pending.                        *)
ConfirmCli(p) ==
  /\ p \in Clis /\ booted /\ pc[p] = "idle" /\ Free
  /\ pending # NoPending
  /\ pending' = NoPending /\ unconfirmed' = NoText
  /\ UNCHANGED <<files, system, lock, pc, loc, page, edited, boots, ids, bounds>>

(* restore_rejected: back into config.yaml, unless an apply is pending.    *)
RestoreRejected ==
  /\ booted /\ pc[Helper] = "idle" /\ Free
  /\ pending = NoPending /\ rejected # NoText
  /\ configYaml' = rejected /\ sensor' = rejected
  /\ rejected' = NoText
  /\ edited' = TRUE /\ UNCHANGED <<unconfirmed, boots>>
  /\ UNCHANGED <<record, system, pending, lock, pc, loc, page, ids, bounds>>

(* The deadline passes.                                                    *)
Expire ==
  /\ pending # NoPending /\ ~pending.due
  /\ pending' = [pending EXCEPT !.due = TRUE]
  /\ UNCHANGED <<files, system, lock, pc, loc, page, history, ids, bounds>>

(* wait: nothing is pending any more.                                      *)
WaiterExits ==
  /\ pc[Waiter] = "waiting" /\ Free /\ pending = NoPending
  /\ Go(Waiter, "idle")
  /\ UNCHANGED <<files, system, pending, lock, loc, page, history, ids, bounds>>
-----------------------------------------------------------------------------
(* Who may begin a revert: the admin at any time, the waiting unit at the  *)
(* deadline, a boot that found an apply pending.                           *)
MayRevert(p) ==
  \/ p \in {Helper} \cup Clis /\ booted /\ pc[p] = "idle"
  \/ p = Waiter /\ pc[p] = "waiting" /\ pending.due
  \/ p = Boot /\ pc[p] = "wantrevert"

(* A mutant of LockRevert: without waiting for the lock.                   *)
RevertUnlocked(p) ==
  /\ pending # NoPending /\ MayRevert(p)
  /\ pending.previous \in Texts
  /\ lock' = p
  /\ loc' = [loc EXCEPT ![p] = [text |-> pending.previous, previous |-> pending.previous,
                                undo |-> NoText, confirm |-> FALSE]]
  /\ Go(p, "reverting")
  /\ UNCHANGED <<files, system, pending, page, history, ids, bounds>>

(* revert, with the lock: the config to go back to is read ...             *)
LockRevert(p) ==
  /\ Free /\ pending # NoPending /\ MayRevert(p)
  /\ pending.previous \in Texts
  /\ lock' = p
  /\ loc' = [loc EXCEPT ![p] = [text |-> pending.previous, previous |-> pending.previous,
                                undo |-> NoText, confirm |-> FALSE]]
  /\ Go(p, "reverting")
  /\ UNCHANGED <<files, system, pending, page, history, ids, bounds>>

(* ... and when it is no longer a valid config, the apply is kept.         *)
RevertImpossible(p) ==
  /\ Free /\ pending # NoPending /\ MayRevert(p)
  /\ pending.previous \in Obsolete
  /\ pending' = NoPending /\ unconfirmed' = NoText
  /\ End(p)
  /\ UNCHANGED <<files, running, stamp, loc, page, edited, boots, ids, bounds>>

(* A mutant of RevertOk: apply_all without its source_text.                *)
RevertUnrecorded(p) ==
  /\ pc[p] = "reverting"
  /\ Loads(loc[p].previous)
  /\ Go(p, "keep")
  /\ UNCHANGED <<files, booted, pending, lock, loc, page, history, ids, bounds>>

(* apply_all of the config applied before: it runs, and is recorded.       *)
RevertOk(p) ==
  /\ pc[p] = "reverting"
  /\ Loads(loc[p].previous) /\ record' = loc[p].previous
  /\ Go(p, "keep")
  /\ UNCHANGED <<configYaml, sensor, rejected, booted, pending, lock, loc, page, history, ids, bounds>>

(* apply_all raises an ApplyError: the revert goes on.  At boot            *)
(* _boot_apply tries again without a transaction, which may fail too.      *)
RevertFails(p) ==
  /\ pc[p] = "reverting"
  /\ Fault
  /\ \/ p = Boot /\ Loads(loc[p].previous)
     \/ UNCHANGED <<running, stamp>>
  /\ Go(p, "keep")
  /\ UNCHANGED <<files, booted, pending, lock, loc, page, history, ids, applies, edits, crashes>>

(* Any other error, of apply_all or of a write after it, ends the process  *)
(* there, and nothing begins the revert again before the next boot.        *)
RevertEnds(p) ==
  /\ pc[p] \in Reverting
  /\ Fault
  /\ \/ pc[p] = "reverting" /\ Loads(loc[p].previous)
     \/ UNCHANGED <<running, stamp>>
  /\ End(p)
  /\ cutOff' = TRUE /\ restarted' = (restarted /\ p # Boot)
  /\ UNCHANGED <<files, pending, loc, page, unconfirmed, edited, ids, applies, edits, crashes>>

(* A mutant of KeepRejected: config.yaml is kept whatever it holds.         *)
KeepAnything(p) ==
  /\ pc[p] = "keep"
  /\ rejected' = configYaml
  /\ Go(p, "writeback")
  /\ UNCHANGED <<configYaml, sensor, record, system, pending, lock, loc, page, history, ids, bounds>>

(* The unconfirmed config is kept, when config.yaml still holds another.   *)
KeepRejected(p) ==
  /\ pc[p] = "keep"
  /\ rejected' = IF configYaml # loc[p].previous THEN configYaml ELSE rejected
  /\ Go(p, "writeback")
  /\ UNCHANGED <<configYaml, sensor, record, system, pending, lock, loc, page, history, ids, bounds>>

(* config.yaml goes back, with the sensors' copy.                          *)
WriteBack(p) ==
  /\ pc[p] = "writeback"
  /\ configYaml' = loc[p].previous /\ sensor' = loc[p].previous
  /\ Go(p, "forget")
  /\ UNCHANGED <<record, rejected, system, pending, lock, loc, page, history, ids, bounds>>

(* Last, the record of the pending apply: until here a crash is retried.   *)
Forget(p) ==
  /\ pc[p] = "forget"
  /\ pending' = NoPending
  /\ End(p)
  /\ UNCHANGED <<files, running, stamp, loc, page, history, ids, bounds>>
-----------------------------------------------------------------------------
(* A mutant of BootStart: whether an apply is pending is not looked at.    *)
BootStartRegardless ==
  /\ pc[Boot] = "idle"
  /\ IF booted THEN Restarts /\ Command ELSE UNCHANGED applies
  /\ Go(Boot, "applying") /\ loc' = [loc EXCEPT ![Boot].text = configYaml]
  /\ UNCHANGED <<files, system, pending, lock, page, history, ids, edits, crashes, faults>>

(* fr-firewall.service, at boot or restarted: an apply found pending is    *)
(* taken back, otherwise config.yaml is applied, without the lock.         *)
BootStart ==
  /\ pc[Boot] = "idle"
  /\ IF booted THEN Restarts /\ Command ELSE UNCHANGED applies
  /\ IF pending # NoPending
     THEN Go(Boot, "wantrevert") /\ UNCHANGED loc
     ELSE Go(Boot, "applying") /\ loc' = [loc EXCEPT ![Boot].text = configYaml]
  /\ UNCHANGED <<files, system, pending, lock, page, history, ids, edits, crashes, faults>>

(* It was confirmed or taken back before the boot got the lock.            *)
BootAfterAll ==
  /\ pc[Boot] = "wantrevert" /\ Free /\ pending = NoPending
  /\ Go(Boot, "applying")
  /\ loc' = [loc EXCEPT ![Boot].text = configYaml]
  /\ UNCHANGED <<files, system, pending, lock, page, history, ids, bounds>>

(* _boot_without: the last config applied, or config.yaml as far as it     *)
(* goes, or neither.                                                       *)
BootFails ==
  /\ pc[Boot] = "applying"
  /\ Fault
  /\ \/ /\ \E t \in {loc[Boot].text} \cup ({record} \ {NoText}) : Loads(t)
        /\ sensor' = configYaml
     \/ UNCHANGED <<running, stamp, sensor>>
  /\ End(Boot)
  /\ restarted' = FALSE
  /\ UNCHANGED <<configYaml, record, rejected, pending, loc, page, unconfirmed, edited, cutOff, ids,
                 applies, edits, crashes>>

(* A reboot or a power cut at any moment: the files are what is left.      *)
Reboot ==
  /\ crashes < MaxCrashes /\ crashes' = crashes + 1
  /\ running' = NoText /\ booted' = FALSE
  /\ lock' = NoProc
  /\ pc' = [p \in Procs |-> "idle"]
  /\ loc' = [p \in Procs |-> Fresh]
  /\ restarted' = TRUE /\ cutOff' = FALSE
  /\ UNCHANGED <<files, stamp, pending, page, unconfirmed, edited, ids, applies, edits, faults>>

(* A process is killed (a service restarted by an update, a console        *)
(* command interrupted): the kernel releases its lock.                     *)
Killed(p) ==
  /\ p \in Mortal /\ pc[p] # "idle"
  /\ crashes < MaxCrashes /\ crashes' = crashes + 1
  /\ Go(p, "idle")
  /\ lock' = IF lock = p THEN NoProc ELSE lock
  /\ cutOff' = (cutOff \/ pc[p] \in Reverting \cup {"starting", "waiting"})
  /\ UNCHANGED <<files, system, pending, loc, page, unconfirmed, edited, restarted, ids, applies, edits, faults>>

(* What a process does once it has begun.                                  *)
Proceed(p) ==
  \/ WriteMove(p) \/ LockApply(p) \/ RefuseApply(p) \/ PutBack(p) \/ ReadAgain(p)
  \/ ApplyOk(p) \/ ApplyFails(p) \/ RecordFails(p)
  \/ Hold(p) \/ StartWaiting(p) \/ StartWaitingFails(p)
  \/ RevertOk(p) \/ RevertFails(p) \/ RevertEnds(p)
  \/ KeepRejected(p) \/ WriteBack(p) \/ Forget(p)

Revert(p) == LockRevert(p) \/ RevertImpossible(p)
BootGoesOn == (~booted /\ BootStart) \/ BootAfterAll \/ BootFails \/ Revert(Boot)

Next ==
  \/ \E t \in Texts : SaveConfig(t) \/ LockMove(t)
  \/ SaveSensorCopy
  \/ \E p \in Procs, c \in BOOLEAN : AskApply(p, c) \/ \E t \in Texts : AskMove(p, t, c)
  \/ \E p \in Procs : Proceed(p) \/ Revert(p) \/ ConfirmCli(p) \/ Killed(p)
  \/ CheckSchedule \/ LockRefresh
  \/ LoadPage \/ Confirm \/ RestoreRejected
  \/ Expire \/ WaiterExits
  \/ BootStart \/ BootAfterAll \/ BootFails
  \/ Reboot

Spec == Init /\ [][Next]_vars

(* A process that runs goes on, time passes, the waiting unit looks every  *)
(* second, and systemd starts fr-firewall.service at boot.                 *)
FairSpec ==
  /\ Spec
  /\ \A p \in Procs : WF_vars(Proceed(p))
  /\ WF_vars(SaveSensorCopy) /\ WF_vars(LockRefresh)
  /\ WF_vars(Expire) /\ WF_vars(Revert(Waiter)) /\ WF_vars(BootGoesOn)
-----------------------------------------------------------------------------
(* "A confirmation can't land halfway through a revert": while a process   *)
(* is taking an apply back, that apply stays pending, whoever confirms,    *)
(* reverts, reboots or applies meanwhile.                                  *)
RevertOwnsPending ==
  \A p \in Procs : pc[p] \in Reverting =>
    pending # NoPending /\ pending.previous = loc[p].previous

(* "A new apply never starts while one is pending", for the applies of the *)
(* helper and the command line, through every read made before the lock.   *)
NoNewApplyWhilePending ==
  \A p \in {Helper} \cup Clis : pc[p] \in {"read", "applying", "hold"} => pending = NoPending

(* A revert ends with the router, its record and config.yaml back at the   *)
(* config applied before, however often it was interrupted by a crash and  *)
(* begun again.                                                            *)
RevertGoesBack ==
  \A p \in Procs : pc[p] = "forget" /\ faults = 0 =>
    /\ running = pending.previous /\ record = pending.previous
    /\ ~edited => configYaml = pending.previous

(* "The unconfirmed config is kept ... for the admin": once a revert is    *)
(* about to forget the apply, its config is the rejected one, whichever    *)
(* attempt kept it, unless config.yaml was edited meanwhile.               *)
UnconfirmedKept ==
  \A p \in Procs : pc[p] = "forget" /\ ~edited =>
    rejected = unconfirmed

(* "A stale page can't confirm a later apply": what the admin confirms is  *)
(* the config they saw running, unless a revert of it was cut off halfway. *)
ConfirmedIsSeen == [][Confirm /\ ~cutOff => page.text = running]_vars

(* Nobody is left who would take a pending apply back without being asked. *)
Unattended ==
  booted /\ \A p \in Procs : pc[p] \notin {"starting", "waiting", "wantrevert"} \cup Reverting

(* "The router goes back by itself": an apply that is held is confirmed or *)
(* taken back in the end.  One thing alone may leave it to the admin or    *)
(* the next boot: an error other than ApplyError that ends the revert      *)
(* itself (apply_confirm.py catches no other, and fr-apply-revert.service  *)
(* has no Restart=).                                                       *)
HeldIsResolved == pending # NoPending ~> pending = NoPending \/ (cutOff /\ Unattended)

(* "It only re-applies the *same* config that was last applied"            *)
(* (frfw.schedule_refresh): whatever is applied, confirmed or taken back   *)
(* between the comparison and the lock, the refresh applies the config     *)
(* recorded as applied, unless config.yaml was edited since.               *)
RefreshIsSameConfig ==
  ~edited /\ faults = 0 /\ pc[Timer] = "applying" => loc[Timer].text = record

(* "One lock ... serializes all of it" (frfw.apply_confirm): one process   *)
(* at a time changes the router.                                           *)
OneApplyAtATime ==
  \A p, q \in Procs : p # q /\ pc[p] \in {"applying", "reverting"} =>
    pc[q] \notin {"applying", "reverting"}

(* "A reboot is no confirmation" (cli.py), and when going back failed      *)
(* "config.yaml is that config again, so a reboot applies it"              *)
(* (apply_confirm.py): wherever an apply that nobody confirmed stood when  *)
(* the router went down - held, halfway taken back, taken back but for the *)
(* kernel's part - the router doesn't run its config once it has booted.   *)
RebootIsNoConfirmation ==
  restarted /\ booted /\ unconfirmed # NoText /\ ~edited => running # unconfirmed
-----------------------------------------------------------------------------
(* "The next Apply or boot doesn't bring the unconfirmed config back": the *)
(* rejected config runs again only from config.yaml.                       *)
RejectedStaysAway ==
  [][running' # running /\ running' = rejected => configYaml = running']_vars
=============================================================================
