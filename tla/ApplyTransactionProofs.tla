----------------------- MODULE ApplyTransactionProofs -----------------------
(***************************************************************************)
(* Proofs about ApplyTransaction: for any configs and features, any        *)
(* retention, any number of runs and faults, and with the helper's         *)
(* operations interleaved or not.                                          *)
(***************************************************************************)
EXTENDS ApplyTransaction, SequenceTheorems, TLAPS

Filtered == live[Firewall] # {}

(* The journal of a run begins with the firewall; only the firewall's      *)
(* entry may be undone by a reload, and only with a recorded config.       *)
JournalInv ==
  /\ pc \in {"preflight", "read"} => at = Firewall
  /\ pc \in {"preflight", "read"} \/ (pc = "steps" /\ at = Firewall) => journal = <<>>
  /\ \A i \in 1..Len(journal) : journal[i].step = Firewall =>
       /\ journal[i].undo = "restore" => journal[i].to # {}
       /\ journal[i].undo = "rebuild" => run.previous \in Configs
  /\ pc = "reload" => run.previous \in Configs /\ journal # <<>>

(* A backup is of a ruleset; past the firewall step one is loaded, and it  *)
(* stays until every later step is undone.                                 *)
FilterInv ==
  /\ \A i \in 1..Len(backups) : backups[i].rules # {}
  /\ pc = "steps" /\ at # Firewall => Filtered
  /\ pc = "record" => Filtered
  /\ pc \in {"undo", "reload"} /\ (\E i \in 1..Len(journal) : journal[i].step # Firewall)
       => Filtered
  /\ ForwardingFiltered

TransactionInv == TypeOK /\ JournalInv /\ FilterInv
-----------------------------------------------------------------------------
(* What Pop leaves of a journal.                                           *)
LEMMA Popped ==
  ASSUME NEW S, NEW q \in Seq(S), q # <<>>
  PROVE  /\ SubSeq(q, 1, Len(q) - 1) \in Seq(S)
         /\ Len(SubSeq(q, 1, Len(q) - 1)) = Len(q) - 1
         /\ Len(q) \in 1..Len(q) /\ Len(q) - 1 \in Nat
         /\ \A i \in 1..Len(q) - 1 : SubSeq(q, 1, Len(q) - 1)[i] = q[i]
<1>1. Len(q) \in Nat /\ Len(q) # 0
  BY EmptySeq, LenProperties
<1>2. /\ SubSeq(q, 1, Len(q) - 1) \in Seq(S)
      /\ Len(SubSeq(q, 1, Len(q) - 1)) = Len(q) - 1
      /\ \A i \in 1..Len(q) - 1 : SubSeq(q, 1, Len(q) - 1)[i] = q[i]
  <2> DEFINE n == Len(q) - 1
  <2>1. n \in Int /\ 1 \in Int /\ \A i \in 1..n : q[i] \in S
    BY <1>1
  <2>2. /\ SubSeq(q, 1, n) \in Seq(S)
        /\ Len(SubSeq(q, 1, n)) = IF 1 <= n THEN n - 1 + 1 ELSE 0
        /\ \A i \in 1..n - 1 + 1 : SubSeq(q, 1, n)[i] = q[1 + i - 1]
    <3> HIDE DEF n
    <3> QED
      BY <2>1, SubSeqProperties
  <2>3. ASSUME NEW i \in 1..n PROVE SubSeq(q, 1, n)[i] = q[i]
    <3>1. i \in 1..n - 1 + 1 /\ 1 + i - 1 = i
      BY <2>1
    <3> HIDE DEF n
    <3> QED
      BY <2>2, <3>1
  <2>4. Len(SubSeq(q, 1, n)) = n
    <3>1. n \in Nat
      BY <1>1
    <3> HIDE DEF n
    <3>2. (IF 1 <= n THEN n - 1 + 1 ELSE 0) = n
      BY <3>1
    <3> QED
      BY <2>2, <3>2
  <2> QED
    BY <2>2, <2>3, <2>4
<1> QED
  BY <1>1, <1>2

(* What Begin makes of one.                                                *)
LEMMA Appended ==
  ASSUME NEW S, NEW q \in Seq(S), NEW e \in S
  PROVE  /\ Append(q, e) \in Seq(S)
         /\ Len(Append(q, e)) = Len(q) + 1 /\ Len(q) \in Nat
         /\ \A i \in 1..Len(q) : Append(q, e)[i] = q[i]
         /\ Append(q, e)[Len(q) + 1] = e
  OBVIOUS

(* Every step makes settings of a config.                                  *)
LEMMA TargetType ==
  ASSUME TypeOK, NEW s \in Steps, NEW c \in Configs
  PROVE  Target(s, c) \in SUBSET Settings
  BY DEF TypeOK, Target, Settings, Steps, Dhcp, Addresses, Forwarding, WireGuard, Ipv6, Dns, Xdp

(* An undo is an entry; the firewall's restores a ruleset or rebuilds one. *)
LEMMA UndoOfType ==
  ASSUME TypeOK, NEW s \in Steps
  PROVE  /\ UndoOf(s) \in Entry
         /\ UndoOf(s).step = s
         /\ s = Firewall => /\ UndoOf(s).undo = "restore" => UndoOf(s).to # {}
                            /\ UndoOf(s).undo = "rebuild" => run.previous \in Configs
<1>1. live[s] \in SUBSET Settings /\ run.previous \in Configs \cup {NoConfig}
  BY DEF TypeOK, MaybeConfig
<1>2. run.previous # NoConfig => Target(s, run.previous) \in SUBSET Settings
                                 /\ {run.previous} \in SUBSET Settings
  BY <1>1, TargetType DEF Settings
<1> QED
  BY <1>1, <1>2 DEF UndoOf, Entry, Firewall, WireGuard, Xdp

(* A backup more, or the last one overwritten, is still one of a ruleset.  *)
LEMMA BackedUpType ==
  ASSUME TypeOK, \A i \in 1..Len(backups) : backups[i].rules # {}, NEW b \in BackedUp
  PROVE  /\ b \in Seq([rules : SUBSET Settings, jail : SUBSET Hosts])
         /\ \A i \in 1..Len(b) : b[i].rules # {}
<1> DEFINE B == [rules : SUBSET Settings, jail : SUBSET Hosts]
           now == [rules |-> live[Firewall], jail |-> jail]
           more == Append(backups, now)
<1>1. now \in B /\ backups \in Seq(B)
  BY DEF TypeOK, Firewall, Steps
<1>2. CASE live[Firewall] = {}
  BY <1>1, <1>2 DEF BackedUp
<1>3. CASE live[Firewall] # {}
  <2>1. /\ more \in Seq(B) /\ Len(more) = Len(backups) + 1 /\ Len(backups) \in Nat
        /\ \A i \in 1..Len(more) : more[i].rules # {}
    BY <1>1, <1>3
  <2>2. /\ Tail(more) \in Seq(B)
        /\ \A i \in 1..Len(Tail(more)) : Tail(more)[i].rules # {}
    BY <2>1
  <2>3. ASSUME Len(backups) # 0
        PROVE  /\ [backups EXCEPT ![Len(backups)] = now] \in Seq(B)
               /\ \A i \in 1..Len([backups EXCEPT ![Len(backups)] = now]) :
                    [backups EXCEPT ![Len(backups)] = now][i].rules # {}
    BY <1>1, <1>3, <2>3
  <2>4. b \in {more, Tail(more)} \/ (Len(backups) # 0 /\ b = [backups EXCEPT ![Len(backups)] = now])
    BY <1>3 DEF BackedUp
  <2> QED
    BY <2>1, <2>2, <2>3, <2>4
<1> QED
  BY <1>2, <1>3
-----------------------------------------------------------------------------
(* Begin keeps the journal a journal: its last entry is the step's own.    *)
LEMMA Begun ==
  ASSUME TypeOK, JournalInv, NEW s \in Steps, Begin(s)
  PROVE  /\ journal' \in Seq(Entry)
         /\ \A i \in 1..Len(journal') : journal'[i].step = Firewall =>
              /\ journal'[i].undo = "restore" => journal'[i].to # {}
              /\ journal'[i].undo = "rebuild" => run.previous \in Configs
         /\ \A i \in 1..Len(journal') :
              journal'[i].step = s \/ \E j \in 1..Len(journal) : journal'[i].step = journal[j].step
<1>1. CASE journal' = journal
  BY <1>1 DEF TypeOK, JournalInv
<1>2. CASE journal' = Append(journal, UndoOf(s))
  <2>1. /\ journal \in Seq(Entry) /\ UndoOf(s) \in Entry /\ UndoOf(s).step = s
        /\ s = Firewall => /\ UndoOf(s).undo = "restore" => UndoOf(s).to # {}
                           /\ UndoOf(s).undo = "rebuild" => run.previous \in Configs
    BY UndoOfType DEF TypeOK
  <2>2. /\ journal' \in Seq(Entry) /\ Len(journal') = Len(journal) + 1 /\ Len(journal) \in Nat
        /\ \A i \in 1..Len(journal) : journal'[i] = journal[i]
        /\ journal'[Len(journal) + 1] = UndoOf(s)
    BY <1>2, <2>1, Appended
  <2>3. \A i \in 1..Len(journal') : i \in 1..Len(journal) \/ i = Len(journal) + 1
    BY <2>2
  <2> HIDE DEF Entry
  <2> QED
    BY <2>1, <2>2, <2>3 DEF JournalInv
<1> QED
  BY <1>1, <1>2 DEF Begin

(* Pop leaves a journal of the entries before the last.                    *)
LEMMA PopKeeps ==
  ASSUME TypeOK, JournalInv, journal # <<>>, Pop
  PROVE  /\ journal' \in Seq(Entry)
         /\ \A i \in 1..Len(journal') : i \in 1..Len(journal) /\ journal'[i] = journal[i]
         /\ Len(journal) \in 1..Len(journal) /\ Last \in Entry
<1>1. journal \in Seq(Entry)
  BY DEF TypeOK
<1>2. /\ journal' \in Seq(Entry) /\ Len(journal') = Len(journal) - 1
      /\ Len(journal) \in 1..Len(journal)
      /\ \A i \in 1..Len(journal) - 1 : journal'[i] = journal[i]
  BY <1>1, Popped DEF Pop
<1>3. Last \in Entry
  BY <1>1, <1>2 DEF Last
<1>4. 1..Len(journal') \subseteq 1..Len(journal)
  BY <1>1, <1>2
<1> QED
  BY <1>2, <1>3, <1>4

(* A failing step leaves settings.                                         *)
LEMMA PartOfType ==
  ASSUME TypeOK, NEW s \in Steps, NEW to \in SUBSET Settings, NEW part \in PartOf(s, to)
  PROVE  part \in SUBSET Settings /\ (s = Forwarding => part = live[s])
  BY DEF TypeOK, PartOf, Forwarding

(* A router that boots for the first time.                                 *)
LEMMA TransactionInit == Init => TransactionInv
<1> SUFFICES ASSUME Init PROVE TransactionInv
  OBVIOUS
<1>1. TypeOK
  <2>1. live \in [Steps -> SUBSET Settings] /\ before \in [Steps -> SUBSET Settings]
    BY DEF Init
  <2>2. run \in [config : Configs, boot : Configs, previous : MaybeConfig,
                 kind : {"apply", "boot", "last", "resort", "revert", "regardless"}]
    BY DEF Init, MaybeConfig
  <2>3. captured \in [jail : SUBSET Hosts, schedule : MaybeConfig]
    BY DEF Init, MaybeConfig
  <2>4. backups \in Seq([rules : SUBSET Settings, jail : SUBSET Hosts]) /\ journal \in Seq(Entry)
    BY EmptySeq DEF Init
  <2>5. /\ schedule \in MaybeConfig /\ record \in MaybeConfig /\ at \in Steps
        /\ jail \subseteq Hosts /\ snapshot \subseteq Hosts /\ notBack \subseteq Steps
    BY DEF Init, MaybeConfig, Steps, Firewall
  <2>6. /\ pc = "idle" /\ up \in BOOLEAN /\ faults \in Nat /\ runs \in Nat
    BY DEF Init
  <2> QED
    BY <2>1, <2>2, <2>3, <2>4, <2>5, <2>6 DEF TypeOK
<1>2. JournalInv /\ FilterInv
  BY DEF Init, JournalInv, FilterInv, ForwardingFiltered, Steps, Firewall, Forwarding
<1> QED
  BY <1>1, <1>2 DEF TransactionInv

(* The steps that begin a run, or end one.                                 *)
LEMMA StartOrEnd ==
  ASSUME TransactionInv,
         \/ \E c \in Configs : Apply(c) \/ Boot(c) \/ BootRevert(c)
         \/ BootWithout \/ RolledBack \/ ApplyFails \/ BootRevertFails
         \/ Preflight \/ ReadSets \/ Record
         \/ BootBaseline \/ BootGivesUp \/ BootRevertImpossible \/ Reboot
  PROVE  TransactionInv'
<1> USE TransactionAssumption DEF TransactionInv, kernel, local, bounds, Fault
<1>1. ASSUME NEW c \in Configs, NEW b \in Configs,
             NEW k \in {"apply", "boot", "last", "resort", "revert", "regardless"},
             StartRun(c, k, b), UNCHANGED <<kernel, record, up, faults>>, runs' \in Nat
      PROVE  TransactionInv'
  <2>a. run' \in [config : Configs, boot : Configs, previous : MaybeConfig,
                  kind : {"apply", "boot", "last", "resort", "revert", "regardless"}]
    BY <1>1 DEF StartRun, TypeOK
  <2>b. journal' \in Seq(Entry) /\ notBack' \subseteq Steps /\ at' \in Steps
    BY <1>1, EmptySeq DEF StartRun, Steps, Firewall
  <2>c. pc' \in {"read", "preflight"} /\ before' = live /\ UNCHANGED <<snapshot, captured>>
    BY <1>1 DEF StartRun
  <2> HIDE DEF TransactionInv
  <2>1. TypeOK'
    BY <1>1, <2>a, <2>b, <2>c DEF TypeOK, TransactionInv
  <2> USE DEF TransactionInv
  <2>2. JournalInv' /\ FilterInv'
    BY <1>1 DEF StartRun, JournalInv, FilterInv, Filtered, ForwardingFiltered
  <2> QED
    BY <2>1, <2>2
<1>2. ASSUME NEW c \in Configs, Apply(c) \/ Boot(c) \/ BootRevert(c) PROVE TransactionInv'
  BY <1>1, <1>2 DEF Apply, Boot, BootRevert, TypeOK
<1>3. CASE BootWithout
  BY <1>1, <1>3 DEF BootWithout, TypeOK, MaybeConfig
<1>4. CASE RolledBack \/ ApplyFails \/ BootRevertFails \/ Preflight
  <2>a. up' \in BOOLEAN
    BY <1>4 DEF RolledBack, ApplyFails, BootRevertFails, Preflight, TypeOK
  <2>b. faults' \in Nat /\ pc' \in {"idle", "read", "failed"}
    BY <1>4 DEF RolledBack, ApplyFails, BootRevertFails, Preflight, TypeOK
  <2>c. UNCHANGED <<kernel, record, local, runs>>
    BY <1>4 DEF RolledBack, ApplyFails, BootRevertFails, Preflight
  <2>1. TypeOK'
    BY <2>a, <2>b, <2>c DEF TypeOK
  <2>2. JournalInv' /\ FilterInv'
    BY <1>4 DEF RolledBack, ApplyFails, BootRevertFails, Preflight,
                JournalInv, FilterInv, Filtered, ForwardingFiltered
  <2> QED
    BY <2>1, <2>2
<1>5. CASE ReadSets \/ Record
  <2>a. up' \in BOOLEAN
    BY <1>5 DEF ReadSets, Record, TypeOK
  <2>b. /\ faults' \in Nat /\ pc' \in {"idle", "steps", "failed"}
        /\ record' \in MaybeConfig /\ snapshot' \subseteq Hosts
    BY <1>5 DEF ReadSets, Record, TypeOK, MaybeConfig
  <2>c. UNCHANGED <<kernel, at, run, captured, journal, notBack, before, runs>>
    BY <1>5 DEF ReadSets, Record
  <2>1. TypeOK'
    BY <2>a, <2>b, <2>c DEF TypeOK
  <2>2. JournalInv' /\ FilterInv'
    BY <1>5 DEF ReadSets, Record, JournalInv, FilterInv, Filtered, ForwardingFiltered
  <2> QED
    BY <2>1, <2>2
<1>6. CASE BootBaseline \/ BootGivesUp
  <2>a. {Baseline} \in SUBSET Settings
    BY DEF Settings
  <2>1. live' \in [Steps -> SUBSET Settings]
    BY <1>6, <2>a DEF BootBaseline, BootGivesUp, TypeOK
  <2>2. TypeOK'
    BY <1>6, <2>1 DEF BootBaseline, BootGivesUp, TypeOK
  <2>b. Firewall \in Steps
    BY DEF Steps, Firewall
  <2>c. \/ live' = [live EXCEPT ![Firewall] = {Baseline}]
        \/ live' = live /\ live[Firewall] # {}
    BY <1>6 DEF BootBaseline, BootGivesUp
  <2>3. live'[Firewall] # {}
    <3>1. live \in [Steps -> SUBSET Settings]
      BY DEF TypeOK
    <3>2. CASE live' = [live EXCEPT ![Firewall] = {Baseline}]
      BY <2>b, <3>1, <3>2
    <3> QED
      BY <2>c, <3>2
  <2>4. JournalInv' /\ FilterInv'
    BY <1>6, <2>3 DEF BootBaseline, BootGivesUp, JournalInv, FilterInv, Filtered, ForwardingFiltered
  <2> QED
    BY <2>2, <2>4
<1>7. CASE Reboot
  <2>a. live' = [s \in Steps |-> IF s \in KernelSteps THEN {} ELSE live[s]]
    BY <1>7 DEF Reboot
  <2>b. Forwarding \in KernelSteps /\ Forwarding \in Steps
    BY DEF KernelSteps, Steps, Forwarding
  <2>c. \A s \in Steps : live[s] \in SUBSET Settings /\ {} \in SUBSET Settings
    BY DEF TypeOK
  <2>1. live' \in [Steps -> SUBSET Settings] /\ live'[Forwarding] = {}
    BY <2>a, <2>b, <2>c
  <2>2. TypeOK'
    BY <1>7, <2>1 DEF Reboot, TypeOK
  <2>3. JournalInv' /\ FilterInv'
    BY <1>7, <2>1 DEF Reboot, JournalInv, FilterInv, Filtered, ForwardingFiltered
  <2> QED
    BY <2>2, <2>3
<1>8. CASE BootRevertImpossible
  <2>1. /\ UNCHANGED <<kernel, record, pc, local, faults>>
        /\ up' = TRUE /\ runs' = runs + 1
    BY <1>8 DEF BootRevertImpossible
  <2>2. TypeOK'
    BY <2>1 DEF TypeOK
  <2>3. JournalInv' /\ FilterInv'
    BY <2>1 DEF JournalInv, FilterInv, Filtered, ForwardingFiltered
  <2> QED
    BY <2>2, <2>3
<1> QED
  BY <1>2, <1>3, <1>4, <1>5, <1>6, <1>7, <1>8

(* One subsystem changes.                                                  *)
LEMMA OneChanges ==
  ASSUME TypeOK, NEW s \in Steps, NEW v \in SUBSET Settings, live' = [live EXCEPT ![s] = v]
  PROVE  /\ live' \in [Steps -> SUBSET Settings]
         /\ live'[s] = v
         /\ \A r \in Steps \ {s} : live'[r] = live[r]
  BY DEF TypeOK

(* The firewall and forwarding are two of the steps.                       *)
LEMMA StepNumbers ==
  Firewall \in Steps /\ Forwarding \in Steps /\ Firewall # Forwarding
  BY DEF Steps, Firewall, Forwarding

(* The firewall step: done, done without its schedule, or refused.         *)
LEMMA FirewallKeeps ==
  ASSUME TransactionInv, FirewallStep \/ FirewallRejected
  PROVE  TransactionInv' /\ (Filtered => Filtered')
<1> USE StepNumbers DEF TransactionInv
<1>1. /\ pc = "steps" /\ at = Firewall /\ journal = <<>>
      /\ Begin(Firewall)
      /\ UNCHANGED <<record, run, snapshot, notBack, before, up, runs>>
  BY DEF FirewallStep, FirewallRejected, JournalInv
<1>2. /\ journal' \in Seq(Entry)
      /\ \A i \in 1..Len(journal') : journal'[i].step = Firewall =>
           /\ journal'[i].undo = "restore" => journal'[i].to # {}
           /\ journal'[i].undo = "rebuild" => run.previous \in Configs
      /\ \A i \in 1..Len(journal') :
           journal'[i].step = Firewall \/ \E j \in 1..Len(journal) : journal'[i].step = journal[j].step
  BY <1>1, Begun
<1>3. \A i \in 1..Len(journal') : journal'[i].step = Firewall
  BY <1>1, <1>2
<1>4. /\ backups' \in Seq([rules : SUBSET Settings, jail : SUBSET Hosts])
      /\ \A i \in 1..Len(backups') : backups'[i].rules # {}
  BY BackedUpType DEF FirewallStep, FirewallRejected, FilterInv, TypeOK
<1>5. {run.config} \in SUBSET Settings /\ {run.config} # {}
  BY DEF TypeOK, Settings
<1>6. /\ captured' \in [jail : SUBSET Hosts, schedule : MaybeConfig]
      /\ jail' \subseteq Hosts /\ schedule' \in MaybeConfig
  BY TransactionAssumption DEF FirewallStep, FirewallRejected, TypeOK, Scheduled, MaybeConfig
<1>7. faults' \in Nat
  BY DEF FirewallStep, FirewallRejected, Fault, TypeOK
<1>8. pc' \in {"steps", "undo", "failed"} /\ at' \in Steps
  BY <1>1 DEF FirewallStep, FirewallRejected, AfterFailure
<1>9. CASE FirewallStep
  <2>1. live' = [live EXCEPT ![Firewall] = {run.config}]
    BY <1>9 DEF FirewallStep
  <2>2. live' \in [Steps -> SUBSET Settings] /\ live'[Firewall] # {}
    BY <1>5, <2>1, OneChanges
  <2>3. TypeOK'
    BY <1>1, <1>2, <1>4, <1>6, <1>7, <1>8, <2>2 DEF TypeOK
  <2>4. pc' = "steps" => at' = Forwarding
    BY <1>9 DEF FirewallStep, AfterFailure
  <2>5. JournalInv'
    BY <1>1, <1>2, <1>8, <2>4 DEF JournalInv
  <2>6. FilterInv'
    BY <1>4, <1>8, <2>2 DEF FilterInv, Filtered, ForwardingFiltered
  <2> QED
    BY <2>2, <2>3, <2>5, <2>6 DEF Filtered
<1>10. CASE FirewallRejected
  <2>1. UNCHANGED <<live, at>> /\ pc' # "steps"
    BY <1>10 DEF FirewallRejected, AfterFailure
  <2>2. TypeOK'
    BY <1>1, <1>2, <1>4, <1>6, <1>7, <1>8, <2>1 DEF TypeOK
  <2>3. JournalInv'
    BY <1>1, <1>2, <1>8, <2>1 DEF JournalInv
  <2>4. FilterInv'
    BY <1>3, <1>4, <1>8, <2>1 DEF FilterInv, Filtered, ForwardingFiltered
  <2> QED
    BY <2>1, <2>2, <2>3, <2>4 DEF Filtered
<1> QED
  BY <1>9, <1>10

(* A later step, done or failed with part of its work done.                *)
LEMMA StepKeeps ==
  ASSUME TransactionInv, Step \/ StepFails
  PROVE  TransactionInv' /\ (Filtered => Filtered')
<1> USE StepNumbers DEF TransactionInv
<1>1. /\ pc = "steps" /\ at # Firewall /\ at \in Steps /\ Filtered
      /\ UNCHANGED <<jail, schedule, backups, record, run, snapshot, captured, notBack, before, up, runs>>
  BY DEF Step, StepFails, FilterInv, TypeOK, bounds
<1>2. Begin(at) \/ journal' = journal
  BY DEF Step, StepFails
<1>3. /\ journal' \in Seq(Entry)
      /\ \A i \in 1..Len(journal') : journal'[i].step = Firewall =>
           /\ journal'[i].undo = "restore" => journal'[i].to # {}
           /\ journal'[i].undo = "rebuild" => run.previous \in Configs
  BY <1>1, <1>2, Begun DEF JournalInv, TypeOK
<1>4. PICK v \in SUBSET Settings : live' = [live EXCEPT ![at] = v]
  <2>1. Target(at, run.config) \in SUBSET Settings
    BY <1>1, TargetType DEF TypeOK
  <2>2. CASE Step
    BY <2>1, <2>2 DEF Step
  <2>3. CASE live' = live
    <3>1. live[at] \in SUBSET Settings /\ live = [live EXCEPT ![at] = live[at]]
      BY <1>1 DEF TypeOK
    <3> QED
      BY <2>3, <3>1
  <2>4. ASSUME NEW part \in PartOf(at, Target(at, run.config)), live' = [live EXCEPT ![at] = part]
        PROVE  \E v \in SUBSET Settings : live' = [live EXCEPT ![at] = v]
    <3>1. part \in SUBSET Settings
      BY <1>1, <2>1, PartOfType
    <3> QED
      BY <2>4, <3>1
  <2> QED
    BY <2>2, <2>3, <2>4 DEF StepFails
<1>5. live' \in [Steps -> SUBSET Settings] /\ live'[Firewall] # {}
  BY <1>1, <1>4, OneChanges DEF Filtered
<1>6. /\ pc' \in {"steps", "record", "undo", "failed"} /\ at' \in Steps
      /\ pc' = "steps" => at' # Firewall
  <2>1. CASE StepFails
    BY <1>1, <2>1 DEF StepFails, AfterFailure
  <2>2. CASE Step
    <3>1. at # WebuiListen => at + 1 \in Steps /\ at + 1 # Firewall
      BY <1>1 DEF Steps, Firewall, WebuiListen
    <3> QED
      BY <1>1, <2>2, <3>1 DEF Step
  <2> QED
    BY <2>1, <2>2
<1>7. faults' \in Nat
  BY DEF Step, StepFails, Fault, TypeOK, bounds
<1>8. TypeOK'
  BY <1>1, <1>3, <1>5, <1>6, <1>7 DEF TypeOK
<1>9. JournalInv'
  BY <1>1, <1>3, <1>6 DEF JournalInv
<1>10. FilterInv'
  BY <1>1, <1>5, <1>6 DEF FilterInv, Filtered, ForwardingFiltered
<1> QED
  BY <1>5, <1>8, <1>9, <1>10 DEF Filtered

(* The rollback: each entry undone, reported or skipped.                   *)
LEMMA UndoKeeps ==
  ASSUME TransactionInv, Undo \/ UndoNone \/ UndoCaptured \/ UndoReadSets \/ UndoReload
  PROVE  TransactionInv' /\ (Filtered => Filtered')
<1> USE StepNumbers DEF TransactionInv
<1>1. /\ pc \in {"undo", "reload"} /\ journal # <<>> /\ pc' \in {"undo", "reload"}
      /\ UNCHANGED <<record, at, run, captured, before, up, runs>>
  BY DEF Undo, UndoNone, UndoCaptured, UndoReadSets, UndoReload, Undoing, JournalInv, bounds
<1>2. /\ journal' \in Seq(Entry)
      /\ \A i \in 1..Len(journal') : i \in 1..Len(journal) /\ journal'[i] = journal[i]
      /\ Len(journal) \in 1..Len(journal) /\ Last \in Entry
  <2>1. CASE Pop
    BY <1>1, <2>1, PopKeeps
  <2>2. CASE journal' = journal
    <3>1. journal \in Seq(Entry)
      BY DEF TypeOK
    <3>2. Len(journal) \in 1..Len(journal)
      BY <1>1, <3>1, Popped
    <3> QED
      BY <2>2, <3>1, <3>2 DEF Last
  <2> QED
    BY <2>1, <2>2 DEF Undo, UndoNone, UndoCaptured, UndoReadSets, UndoReload
<1>3. Last.step \in Steps /\ Last.to \in SUBSET Settings
  BY <1>2 DEF Entry
<1>4. Last.step = Firewall /\ Last.undo = "restore" => Last.to # {}
  BY <1>2 DEF Last, JournalInv
<1>5. Last.step = Firewall /\ Last.undo = "rebuild" => run.previous \in Configs
  BY <1>2 DEF Last, JournalInv
<1>6. /\ live' \in [Steps -> SUBSET Settings]
      /\ Filtered => Filtered'
      /\ live'[Forwarding] # {} => Filtered'
  <2>1. CASE live' = live
    BY <2>1 DEF TypeOK, Filtered, FilterInv, ForwardingFiltered
  <2>2. ASSUME NEW v \in SUBSET Settings, v # {}, live' = [live EXCEPT ![Firewall] = v]
        PROVE  live' \in [Steps -> SUBSET Settings] /\ Filtered'
    BY <2>2, OneChanges DEF Filtered
  <2>3. ASSUME NEW v \in SUBSET Settings, Undo, live' = [live EXCEPT ![Last.step] = v]
        PROVE  /\ live' \in [Steps -> SUBSET Settings]
               /\ Filtered'
    <3>1. Last.step # Firewall /\ pc = "undo"
      BY <2>3 DEF Undo
    <3>2. Filtered
      BY <1>2, <3>1 DEF FilterInv, Last
    <3> QED
      BY <1>3, <2>3, <3>1, <3>2, OneChanges DEF Filtered
  <2>4. CASE Undo
    <3>1. \/ live' = [live EXCEPT ![Last.step] = Last.to]
          \/ \E part \in PartOf(Last.step, Last.to) :
               live' = [live EXCEPT ![Last.step] = part]
      BY <2>4 DEF Undo
    <3>2. TypeOK
      OBVIOUS
    <3>3. PartOf(Last.step, Last.to) \subseteq SUBSET Settings
      BY ONLY <3>2, <1>3, PartOfType
    <3>4. PICK v \in SUBSET Settings : live' = [live EXCEPT ![Last.step] = v]
      BY ONLY Zenon, <3>1, <3>3, <1>3
    <3> QED
      BY <2>3, <2>4, <3>4
  <2>5. CASE UndoCaptured
    BY <1>3, <1>4, <2>1, <2>2, <2>5 DEF UndoCaptured, Undoing
  <2>6. CASE UndoReload
    <3>1. {run.previous} \in SUBSET Settings /\ {run.previous} # {}
      BY <2>6 DEF UndoReload, JournalInv, Settings
    <3> QED
      BY <2>1, <2>2, <2>6, <3>1 DEF UndoReload
  <2> QED
    BY <2>1, <2>4, <2>5, <2>6 DEF UndoNone, UndoReadSets, kernel
<1>7. /\ backups' \in Seq([rules : SUBSET Settings, jail : SUBSET Hosts])
      /\ \A i \in 1..Len(backups') : backups'[i].rules # {}
  BY BackedUpType
  DEF Undo, UndoNone, UndoCaptured, UndoReadSets, UndoReload, FilterInv, TypeOK, kernel
<1>8. jail' \subseteq Hosts /\ schedule' \in MaybeConfig /\ snapshot' \subseteq Hosts
  BY TransactionAssumption
  DEF Undo, UndoNone, UndoCaptured, UndoReadSets, UndoReload, TypeOK, kernel, Scheduled, MaybeConfig
<1>9. faults' \in Nat
  <2>1. faults \in Nat
    BY DEF TypeOK
  <2>2. Fault => faults' \in Nat
    BY <2>1 DEF Fault
  <2>3. CASE Undo
    BY <2>1, <2>2, <2>3 DEF Undo
  <2>4. CASE UndoNone
    BY <2>1, <2>4 DEF UndoNone, bounds
  <2>5. CASE UndoCaptured
    BY <2>1, <2>2, <2>5 DEF UndoCaptured
  <2>6. CASE UndoReadSets
    BY <2>1, <2>2, <2>6 DEF UndoReadSets
  <2>7. CASE UndoReload
    BY <2>1, <2>2, <2>7 DEF UndoReload
  <2> QED
    BY <2>3, <2>4, <2>5, <2>6, <2>7
<1>10. notBack' \subseteq Steps
  BY <1>3 DEF Undo, UndoNone, UndoCaptured, UndoReadSets, UndoReload, TypeOK
<1>11. TypeOK'
  BY <1>1, <1>2, <1>6, <1>7, <1>8, <1>9, <1>10 DEF TypeOK
<1>12. pc' = "reload" => run.previous \in Configs /\ journal' # <<>>
  BY <1>1, <1>5 DEF Undo, UndoNone, UndoCaptured, UndoReadSets, UndoReload, Undoing
<1>13. JournalInv'
  BY <1>1, <1>2, <1>12 DEF JournalInv
<1>14. FilterInv'
  BY <1>1, <1>2, <1>6, <1>7 DEF FilterInv, ForwardingFiltered, Filtered
<1> QED
  BY <1>6, <1>11, <1>13, <1>14

(* The helper's operations, also in the middle of a run.                   *)
LEMMA HelperKeeps ==
  ASSUME TransactionInv, (\E h \in Hosts : Ban(h)) \/ RollbackLast
  PROVE  TransactionInv' /\ (Filtered => Filtered')
<1> USE StepNumbers DEF TransactionInv
<1>1. UNCHANGED <<schedule, backups, record, pc, local, up, bounds>>
  BY DEF Ban, RollbackLast
<1>2. /\ live' \in [Steps -> SUBSET Settings] /\ jail' \subseteq Hosts
      /\ live' = live \/ live'[Firewall] # {}
  <2>1. ASSUME NEW h \in Hosts, Ban(h) PROVE <1>2
    BY <2>1 DEF Ban, TypeOK
  <2>2. CASE RollbackLast
    <3> DEFINE B == [rules : SUBSET Settings, jail : SUBSET Hosts]
               latest == backups[Len(backups)]
    <3>1. backups \in Seq(B) /\ backups # <<>>
      BY <2>2 DEF RollbackLast, TypeOK
    <3>2. Len(backups) \in 1..Len(backups)
      BY <3>1, Popped
    <3>a. latest.rules # {}
      BY <3>2 DEF FilterInv
    <3>3. latest \in B /\ latest.rules # {}
      <4> HIDE DEF B
      <4> QED
        BY <3>1, <3>2, <3>a, ElementOfSeq
    <3>4. latest.rules \in SUBSET Settings /\ latest.jail \in SUBSET Hosts
      BY <3>3
    <3> HIDE DEF latest
    <3>5. live' = [live EXCEPT ![Firewall] = latest.rules] /\ jail' = latest.jail
      BY <2>2 DEF RollbackLast, latest
    <3> QED
      BY <3>3, <3>4, <3>5, OneChanges
  <2> QED
    BY <2>1, <2>2
<1>3. TypeOK'
  BY <1>1, <1>2 DEF TypeOK, local, bounds
<1>4. JournalInv' /\ FilterInv'
  BY <1>1, <1>2 DEF JournalInv, FilterInv, Filtered, ForwardingFiltered, local
<1> QED
  BY <1>2, <1>3, <1>4 DEF Filtered

(* Every step of the specification keeps the invariant.                    *)
LEMMA TransactionStep == TransactionInv /\ [Next]_vars => TransactionInv'
<1> SUFFICES ASSUME TransactionInv, [Next]_vars PROVE TransactionInv'
  OBVIOUS
<1>1. CASE UNCHANGED vars
  <2>1. TypeOK'
    BY <1>1 DEF vars, kernel, local, bounds, TransactionInv, TypeOK
  <2>2. JournalInv'
    BY <1>1 DEF vars, local, TransactionInv, JournalInv
  <2>3. FilterInv'
    BY <1>1 DEF vars, kernel, local, TransactionInv, FilterInv, Filtered, ForwardingFiltered
  <2> QED
    BY <2>1, <2>2, <2>3 DEF TransactionInv
<1> QED
  BY <1>1, StartOrEnd, FirewallKeeps, StepKeeps, UndoKeeps, HelperKeeps DEF Next, RunSteps

(* An apply, its journal, its rollback and the boot's fallbacks keep the   *)
(* types of the router's state.                                            *)
THEOREM TransactionTypes == Spec => []TypeOK
<1>1. TransactionInv => TypeOK
  BY DEF TransactionInv
<1> QED
  BY <1>1, TransactionInit, TransactionStep, PTL DEF Spec

(* There is no moment in which the kernel routes and no ruleset filters    *)
(* it: through every failing step and undo, the boot's fallbacks, reboots  *)
(* and a rollback_last or a ban in the middle of a run.                    *)
THEOREM NeverRoutesUnfiltered == Spec => []ForwardingFiltered
<1>1. TransactionInv => ForwardingFiltered
  BY DEF TransactionInv, FilterInv
<1> QED
  BY <1>1, TransactionInit, TransactionStep, PTL DEF Spec
-----------------------------------------------------------------------------
(* Without an apply pending at boot, nothing is reverted there.            *)
BootInv ==
  /\ run.kind \notin {"revert", "regardless"}
  /\ BootedIsFiltered

(* A loaded ruleset is only ever replaced by another one, until a reboot.  *)
LEMMA BootStep ==
  ASSUME ~PendingAtBoot
  PROVE  TransactionInv /\ BootInv /\ [Next]_vars => BootInv'
<1> SUFFICES ASSUME TransactionInv, BootInv, [Next]_vars PROVE BootInv'
  OBVIOUS
<1> USE StepNumbers DEF BootInv, BootedIsFiltered
<1>1. CASE \/ FirewallStep \/ FirewallRejected \/ Step \/ StepFails
           \/ Undo \/ UndoNone \/ UndoCaptured \/ UndoReadSets \/ UndoReload
           \/ (\E h \in Hosts : Ban(h)) \/ RollbackLast
  <2>1. CASE FirewallStep \/ FirewallRejected
    <3>1. UNCHANGED <<run, up>>
      BY <2>1 DEF FirewallStep, FirewallRejected
    <3> QED
      BY <2>1, <3>1, FirewallKeeps DEF Filtered
  <2>2. CASE Step \/ StepFails
    <3>1. UNCHANGED <<run, up>>
      BY <2>2 DEF Step, StepFails
    <3> QED
      BY <2>2, <3>1, StepKeeps DEF Filtered
  <2>3. CASE Undo \/ UndoNone \/ UndoCaptured \/ UndoReadSets \/ UndoReload
    <3>1. UNCHANGED <<run, up>>
      BY <2>3 DEF Undo, UndoNone, UndoCaptured, UndoReadSets, UndoReload
    <3> QED
      BY <2>3, <3>1, UndoKeeps DEF Filtered
  <2>4. CASE (\E h \in Hosts : Ban(h)) \/ RollbackLast
    <3>1. UNCHANGED <<run, up>>
      BY <2>4 DEF Ban, RollbackLast, local
    <3> QED
      BY <2>4, <3>1, HelperKeeps DEF Filtered
  <2> QED
    BY <1>1, <2>1, <2>2, <2>3, <2>4
<1>2. CASE \/ \E c \in Configs : Apply(c) \/ Boot(c) \/ BootRevert(c)
           \/ BootWithout
  <2>1. UNCHANGED <<live, up>>
    BY <1>2 DEF Apply, Boot, BootRevert, BootWithout, kernel
  <2>2. ASSUME NEW c \in Configs, Apply(c) PROVE run'.kind = "apply"
    BY <2>2 DEF Apply, StartRun
  <2>3. ASSUME NEW c \in Configs, Boot(c) PROVE run'.kind = "boot"
    BY <2>3 DEF Boot, StartRun
  <2>4. ASSUME NEW c \in Configs PROVE ~BootRevert(c)
    BY DEF BootRevert
  <2>5. CASE BootWithout
    <3>1. run'.kind \in {"last", "resort"}
      <4>1. run.kind # "revert"
        OBVIOUS
      <4>2. \/ StartRun(record, "last", run.boot)
            \/ StartRun(run.boot, "resort", run.boot)
        BY <2>5, <4>1 DEF BootWithout
      <4> HIDE DEF BootInv
      <4> QED
        BY <4>2 DEF StartRun
    <3> QED
      BY <2>1, <3>1
  <2> QED
    BY <1>2, <2>1, <2>2, <2>3, <2>4, <2>5
<1>3. CASE RolledBack \/ ApplyFails \/ BootRevertFails \/ Preflight \/ ReadSets
  <2>1. ~BootRevertFails
    BY DEF BootRevertFails
  <2>2. UNCHANGED <<run, live, up>>
    BY <1>3, <2>1 DEF RolledBack, ApplyFails, Preflight, ReadSets, kernel, local
  <2> QED
    BY <2>2
<1>4. CASE Record
  BY <1>4 DEF Record, kernel, local, TransactionInv, FilterInv, Filtered
<1>5. CASE BootBaseline \/ BootGivesUp
  <2>1. UNCHANGED run
    BY <1>5 DEF BootBaseline, BootGivesUp, local
  <2>2. live \in [Steps -> SUBSET Settings]
    BY DEF TransactionInv, TypeOK
  <2>3. CASE live' = [live EXCEPT ![Firewall] = {Baseline}]
    BY <2>1, <2>2, <2>3
  <2>4. CASE live' = live /\ live[Firewall] # {}
    BY <2>1, <2>4
  <2> QED
    BY <1>5, <2>3, <2>4 DEF BootBaseline, BootGivesUp
<1>6. CASE Reboot
  BY <1>6 DEF Reboot, local
<1>7. CASE UNCHANGED vars
  BY <1>7 DEF vars, kernel, local
<1>8. ~BootRevertImpossible
  BY DEF BootRevertImpossible
<1> QED
  BY <1>1, <1>2, <1>3, <1>4, <1>5, <1>6, <1>7, <1>8 DEF Next, RunSteps

(* Once the boot has finished a ruleset is always loaded, when no apply    *)
(* was pending at boot: through failing steps and undos, rollbacks and     *)
(* every fallback of the boot.                                             *)
THEOREM BootedRouterIsFiltered ==
  ASSUME ~PendingAtBoot
  PROVE  Spec => []BootedIsFiltered
<1>1. Init => BootInv
  BY DEF Init, BootInv, BootedIsFiltered
<1>2. BootInv => BootedIsFiltered
  BY DEF BootInv
<1> QED
  BY <1>1, <1>2, TransactionInit, TransactionStep, BootStep, PTL DEF Spec
=============================================================================
