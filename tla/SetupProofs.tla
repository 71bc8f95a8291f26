---------------------------- MODULE SetupProofs -----------------------------
(***************************************************************************)
(* Theorems about Setup and Settings for any machine, clients and wishes:  *)
(* nothing that another program wrote is lost, and a server serves what it *)
(* was set up with.                                                        *)
(*                                                                         *)
(* A run replaces a file after the file, as it is then, went to a backup   *)
(* that no earlier run and no earlier target of the run has written: the   *)
(* stamp is new to the run and the targets have different files.  What a   *)
(* run remembers to have saved is what it replaced, so a script, which     *)
(* only a run that ended well writes, holds just that.                     *)
(***************************************************************************)
EXTENDS Setup, WellFoundedInduction, TLAPS

WizardFields == {"stamp", "wish", "dry", "force", "build", "todo", "examined", "read", "saved"}

\* Every file has a content, and the keys of backups and of what was met are
\* files and stamps of runs.
FilesInv ==
  /\ DOMAIN disk = Paths /\ DOMAIN theirs = Paths
  /\ runs \in Nat
  /\ \A k \in DOMAIN backups : k = <<k[1], k[2]>> /\ k[2] \in 1 .. runs
  /\ \A k \in DOMAIN met : k = <<k[1], k[2]>> /\ k[2] \in 1 .. runs
  /\ DOMAIN scripts \subseteq 1 .. runs

\* Another program's content is where it put it, or in a backup of that file.
KeptInv ==
  \A p \in Paths :
    theirs[p] \notin {None, disk[p]} =>
      \E n \in 1 .. runs : <<p, n>> \in DOMAIN backups /\ backups[<<p, n>>] = theirs[p]

\* What a run saved is what it replaced.
SavedBy(saved, n) ==
  /\ \A p : p \in DOMAIN saved <=> <<p, n>> \in DOMAIN met
  /\ \A p \in DOMAIN saved : /\ saved[p] = <<p, n>>
                             /\ <<p, n>> \in DOMAIN backups
                             /\ backups[<<p, n>>] = met[<<p, n>>]

\* The files to come have no backup of this run yet; a dry run meets none.
RunInv ==
  wizard # None =>
    /\ WizardFields \subseteq DOMAIN wizard
    /\ wizard.stamp = runs /\ runs \in Nat \ {0}
    /\ wizard.todo \subseteq DOMAIN Targets
    /\ \A i \in wizard.todo : <<PathOf[Targets[i]], runs>> \notin DOMAIN backups
    /\ runs \notin DOMAIN scripts
    /\ ~ wizard.dry => SavedBy(wizard.saved, runs)

ScriptInv == \A n \in DOMAIN scripts : SavedBy(scripts[n], n)

InstallInv == FilesInv /\ KeptInv /\ RunInv /\ ScriptInv
-----------------------------------------------------------------------------
LEMMA TargetTypes ==
  /\ DOMAIN Targets \subseteq Nat
  /\ \A i \in DOMAIN Targets : PathOf[Targets[i]] \in Paths
<1>1. Len(Clients) \in Nat /\ DOMAIN Targets = 1 .. (1 + Len(Clients))
  BY SetupAssumption DEF Targets
<1> QED
  BY <1>1 DEF Paths, Range

LEMMA LeastExists ==
  ASSUME NEW S \in SUBSET Nat, S # {}
  PROVE  Min(S) \in S
<1>1. PICK x \in S : \A y \in S : ~ (<<y, x>> \in OpToRel(<, Nat))
  BY NatLessThanWellFounded, WFMin
<1>2. OpToRel(<, Nat) = {p \in Nat \X Nat : p[1] < p[2]}
  BY Zenon DEF OpToRel
<1>3. \A y \in S : x <= y
  <2>1. ASSUME NEW y \in S PROVE ~ y < x
    <3>1. <<y, x>> \in Nat \X Nat
      OBVIOUS
    <3> QED
      BY <1>1, <1>2, <3>1
  <2> QED
    BY <2>1
<1> DEFINE Least(z) == \A y \in S : z <= y
<1>4. Least(x) /\ Min(S) = CHOOSE z \in S : Least(z)
  BY <1>3 DEF Min
<1> HIDE DEF Least
<1> QED
  BY <1>4

\* The target whose turn it is.
LEMMA NextIs ==
  ASSUME InstallInv, wizard # None, wizard.todo # {}
  PROVE  /\ Min(wizard.todo) \in wizard.todo
         /\ PathOf[Targets[Min(wizard.todo)]] \in Paths
         /\ <<PathOf[Targets[Min(wizard.todo)]], runs>> \notin DOMAIN backups
         /\ \A i \in wizard.todo \ {Min(wizard.todo)} :
              PathOf[Targets[i]] # PathOf[Targets[Min(wizard.todo)]]
<1>1. wizard.todo \subseteq DOMAIN Targets /\ wizard.todo \in SUBSET Nat
  BY TargetTypes DEF InstallInv, RunInv
<1>2. Min(wizard.todo) \in wizard.todo
  BY <1>1, LeastExists
<1> QED
  BY <1>1, <1>2, TargetTypes, SetupAssumption DEF InstallInv, RunInv

\* A server does not touch what the wizard keeps, nor any file.
LEMMA ServerKeepsFiles == ServerNext => UNCHANGED disk
  BY DEF ServerNext, Import, Start, Stop, Query

LEMMA InstallInvInit == SetupInit => InstallInv
<1> SUFFICES ASSUME SetupInit PROVE InstallInv
  OBVIOUS
<1>1. DOMAIN backups = {} /\ DOMAIN scripts = {} /\ DOMAIN met = {}
  BY DEF SetupInit
<1>2. DOMAIN disk = Paths /\ theirs = disk /\ runs = 0 /\ wizard = None
  BY SetupAssumption DEF SetupInit
<1> QED
  BY <1>1, <1>2 DEF InstallInv, FilesInv, KeptInv, RunInv, ScriptInv

LEMMA BeginStep ==
  ASSUME InstallInv, Begin
  PROVE  InstallInv'
<1>1. PICK wish \in Wishes, S \in SUBSET DOMAIN Targets, dry \in BOOLEAN, force \in BOOLEAN, build \in BOOLEAN :
        wizard' = [stamp |-> runs + 1, wish |-> wish, dry |-> dry, force |-> force, build |-> build,
                   todo |-> S, examined |-> FALSE, read |-> None, saved |-> <<>>]
  BY ZenonT(20) DEF Begin
<1>2. runs' = runs + 1 /\ UNCHANGED <<disk, backups, scripts, theirs, met>>
  BY DEF Begin
<1>3. FilesInv'
  BY <1>2 DEF InstallInv, FilesInv
<1>4. KeptInv'
  BY <1>2 DEF InstallInv, FilesInv, KeptInv
<1>8. ScriptInv'
  BY <1>2 DEF InstallInv, ScriptInv, SavedBy
<1>5. \A p : <<p, runs'>> \notin DOMAIN met
  BY <1>2 DEF InstallInv, FilesInv
<1>6. /\ WizardFields \subseteq DOMAIN wizard' /\ wizard'.stamp = runs'
      /\ wizard'.todo = S /\ wizard'.saved = <<>> /\ DOMAIN wizard'.saved = {}
  BY <1>1, <1>2 DEF WizardFields
<1>7. RunInv'
  BY <1>2, <1>5, <1>6 DEF InstallInv, FilesInv, RunInv, SavedBy
<1> QED
  BY <1>3, <1>4, <1>7, <1>8 DEF InstallInv

\* A run that ends leaves what it kept.
LEMMA EndsStep ==
  ASSUME InstallInv, Ends, UNCHANGED <<disk, backups, met>>
  PROVE  InstallInv'
  BY DEF InstallInv, FilesInv, KeptInv, RunInv, ScriptInv, SavedBy, Ends

\* A step that leaves the files, the backups and the scripts.
LEMMA SameFiles ==
  ASSUME InstallInv, UNCHANGED <<disk, backups, met, runs, scripts, theirs>>
  PROVE  /\ FilesInv' /\ KeptInv' /\ ScriptInv'
         /\ \A saved, n : SavedBy(saved, n) => SavedBy(saved, n)'
<1>1. FilesInv'
  BY DEF InstallInv, FilesInv
<1>2. KeptInv'
  BY DEF InstallInv, KeptInv
<1>3. ScriptInv' /\ \A saved, n : SavedBy(saved, n) => SavedBy(saved, n)'
  BY DEF InstallInv, ScriptInv, SavedBy
<1> QED
  BY <1>1, <1>2, <1>3

LEMMA ExamineStep ==
  ASSUME InstallInv, Examine
  PROVE  InstallInv'
<1>1. UNCHANGED <<disk, backups, met>> /\ wizard # None
  BY DEF Examine
<1>2. CASE Ends
  BY <1>1, <1>2, EndsStep
<1>3. CASE \E read : wizard' = [wizard EXCEPT !.examined = TRUE, !.read = read]
                     /\ UNCHANGED <<runs, scripts, theirs, changes>>
  <2>1. /\ WizardFields \subseteq DOMAIN wizard'
        /\ wizard'.stamp = wizard.stamp /\ wizard'.dry = wizard.dry
        /\ wizard'.todo = wizard.todo /\ wizard'.saved = wizard.saved
    BY <1>1, <1>3 DEF InstallInv, RunInv, WizardFields
  <2>2. UNCHANGED <<runs, backups, scripts, met>>
    BY <1>1, <1>3
  <2>3. RunInv'
    BY <1>1, <2>1, <2>2 DEF InstallInv, RunInv, SavedBy
  <2> QED
    BY <1>1, <1>3, <2>3, SameFiles DEF InstallInv
<1> QED
  BY <1>2, <1>3 DEF Examine

LEMMA WithIs ==
  ASSUME NEW f, NEW k, NEW v
  PROVE  /\ DOMAIN With(f, k, v) = DOMAIN f \cup {k} /\ With(f, k, v)[k] = v
         /\ \A x \in DOMAIN f : x # k => With(f, k, v)[x] = f[x]
  BY DEF With

\* One target is done.
LEMMA NextTargetIs ==
  ASSUME InstallInv, wizard # None, NEW t, wizard' = NextTarget(t)
  PROVE  /\ WizardFields \subseteq DOMAIN wizard'
         /\ wizard'.stamp = wizard.stamp /\ wizard'.dry = wizard.dry
         /\ wizard'.todo = wizard.todo \ {Min(wizard.todo)}
         /\ wizard'.saved = IF disk[PathOf[t]] = None THEN wizard.saved
                            ELSE With(wizard.saved, PathOf[t], <<PathOf[t], wizard.stamp>>)
  BY DEF InstallInv, RunInv, WizardFields, NextTarget, BackupTarget

LEMMA ReplaceStep ==
  ASSUME InstallInv, Replace
  PROVE  InstallInv'
<1> DEFINE t == Targets[Min(wizard.todo)]
           p == PathOf[t]
           there == disk[p] # None
           Empty == IF t = Yaml THEN NoInstances ELSE Cut
<1>1. wizard # None /\ wizard.todo # {} /\ UNCHANGED <<runs, scripts, theirs, changes>>
  BY DEF Replace, Ends
<1>2. /\ Min(wizard.todo) \in wizard.todo /\ p \in Paths
      /\ <<p, runs>> \notin DOMAIN backups
      /\ \A i \in wizard.todo \ {Min(wizard.todo)} : PathOf[Targets[i]] # p
  BY <1>1, NextIs
<1>3. /\ wizard.stamp = runs /\ runs \in Nat \ {0} /\ runs \notin DOMAIN scripts
      /\ wizard.todo \subseteq DOMAIN Targets
      /\ \A i \in wizard.todo : <<PathOf[Targets[i]], runs>> \notin DOMAIN backups
      /\ ~ wizard.dry => SavedBy(wizard.saved, runs)
  BY <1>1 DEF InstallInv, RunInv
<1> DEFINE Fresh(copy) == With(backups, <<p, runs>>, copy)
\* Before the write the file has gone to a backup that nothing is lost by.
<1>4. ASSUME NEW copy, backups' \in {backups, Fresh(copy)}
      PROVE  /\ \A k \in DOMAIN backups : k \in DOMAIN backups' /\ backups'[k] = backups[k]
             /\ DOMAIN backups' \subseteq DOMAIN backups \cup {<<p, runs>>}
  BY <1>2, <1>4 DEF With
<1>5. ASSUME NEW copy, backups' \in {backups, Fresh(copy)},
             \/ UNCHANGED disk
             \/ /\ disk' = [disk EXCEPT ![p] = disk'[p]]
                /\ there => backups' = Fresh(disk[p])
      PROVE  KeptInv'
  <2> SUFFICES ASSUME NEW q \in Paths, theirs[q] \notin {None, disk'[q]}
               PROVE  \E n \in 1 .. runs : <<q, n>> \in DOMAIN backups' /\ backups'[<<q, n>>] = theirs[q]
    BY <1>1 DEF KeptInv
  <2>1. CASE theirs[q] # disk[q]
    <3>1. PICK n \in 1 .. runs : <<q, n>> \in DOMAIN backups /\ backups[<<q, n>>] = theirs[q]
      BY <2>1 DEF InstallInv, KeptInv
    <3> QED
      BY <3>1, <1>4, <1>5
  <2>2. CASE theirs[q] = disk[q]
    <3>1. q = p /\ there /\ backups' = Fresh(disk[p])
      BY <1>5, <2>2 DEF InstallInv, FilesInv
    <3>2. <<p, runs>> \in DOMAIN backups' /\ backups'[<<p, runs>>] = disk[p]
      BY <3>1 DEF With
    <3> QED
      <4>1. runs \in 1 .. runs
        BY <1>3
      <4>2. <<q, runs>> \in DOMAIN backups' /\ backups'[<<q, runs>>] = theirs[q]
        BY <2>2, <3>1, <3>2
      <4> QED
        BY <4>1, <4>2
  <2> QED
    BY <2>1, <2>2
\* What the wizard stopped at leaves only a backup more.
<1>6. ASSUME NEW copy, backups' \in {backups, Fresh(copy)}, UNCHANGED met, KeptInv',
             wizard' = None, DOMAIN disk' = DOMAIN disk
      PROVE  InstallInv'
  <2>1. FilesInv'
    BY <1>1, <1>3, <1>4, <1>6 DEF InstallInv, FilesInv
  <2>2. ScriptInv'
    BY <1>1, <1>4, <1>6 DEF InstallInv, ScriptInv, SavedBy
  <2> QED
    BY <1>6, <2>1, <2>2 DEF InstallInv, RunInv
<1>7. CASE wizard.dry
  <2>1. wizard' = NextTarget(t) /\ UNCHANGED <<disk, backups, met>>
    BY <1>7, <1>3 DEF Replace
  <2>2. RunInv'
    BY <1>1, <1>3, <1>7, <2>1, NextTargetIs DEF RunInv
  <2> QED
    BY <1>1, <2>1, <2>2, SameFiles DEF InstallInv
<1>8. CASE ~ wizard.dry
  <2>1. CASE /\ wizard' = NextTarget(t)
             /\ disk' = [disk EXCEPT ![p] = Content(t)]
             /\ backups' = IF there THEN Fresh(disk[p]) ELSE backups
             /\ met' = IF there THEN With(met, <<p, runs>>, disk[p]) ELSE met
    <3>1. backups' \in {backups, Fresh(disk[p])}
      BY <2>1
    <3>2. DOMAIN disk' = DOMAIN disk /\ disk' = [disk EXCEPT ![p] = disk'[p]]
      BY <1>2, <2>1 DEF InstallInv, FilesInv
    <3>3. KeptInv'
      BY <1>5, <2>1, <3>1, <3>2
    <3>4. /\ \A k \in DOMAIN met : k # <<p, runs>> => k \in DOMAIN met' /\ met'[k] = met[k]
          /\ DOMAIN met' = IF there THEN DOMAIN met \cup {<<p, runs>>} ELSE DOMAIN met
          /\ there => met'[<<p, runs>>] = disk[p]
      BY <2>1 DEF With
    <3>5. FilesInv'
      BY <1>1, <1>3, <1>4, <3>1, <3>2, <3>4, SMTT(30) DEF InstallInv, FilesInv
    <3>6. ScriptInv'
      BY <1>1, <1>3, <1>4, <3>1, <3>4, SMTT(30) DEF InstallInv, ScriptInv, SavedBy
    <3>7. SavedBy(wizard.saved, runs)'
      <4>1. SavedBy(wizard.saved, runs)
        BY <1>3, <1>8
      <4>2. CASE ~ there
        BY <1>1, <2>1, <4>1, <4>2, NextTargetIs DEF SavedBy
      <4>3. CASE there
        <5>1. wizard'.saved = With(wizard.saved, p, <<p, runs>>)
          BY <1>1, <1>3, <2>1, <4>3, NextTargetIs
        <5>2. /\ DOMAIN wizard'.saved = DOMAIN wizard.saved \cup {p}
              /\ wizard'.saved[p] = <<p, runs>>
              /\ \A x \in DOMAIN wizard.saved : x # p => wizard'.saved[x] = wizard.saved[x]
          BY <5>1 DEF With
        <5>3. <<p, runs>> \in DOMAIN backups' /\ backups'[<<p, runs>>] = disk[p]
          BY <2>1, <4>3 DEF With
        <5>4. DOMAIN met' = DOMAIN met \cup {<<p, runs>>} /\ met'[<<p, runs>>] = disk[p]
          BY <3>4, <4>3
        <5>5. \A x : x \in DOMAIN wizard'.saved <=> <<x, runs>> \in DOMAIN met'
          BY <4>1, <5>2, <5>4 DEF SavedBy
        <5>6. ASSUME NEW x \in DOMAIN wizard'.saved
              PROVE  /\ wizard'.saved[x] = <<x, runs>>
                     /\ <<x, runs>> \in DOMAIN backups'
                     /\ backups'[<<x, runs>>] = met'[<<x, runs>>]
          <6>1. CASE x = p
            BY <5>2, <5>3, <5>4, <6>1
          <6>2. CASE x # p
            <7>1. x \in DOMAIN wizard.saved /\ wizard'.saved[x] = wizard.saved[x]
              BY <5>2, <6>2
            <7>2. /\ wizard.saved[x] = <<x, runs>> /\ <<x, runs>> \in DOMAIN met
                  /\ <<x, runs>> \in DOMAIN backups
                  /\ backups[<<x, runs>>] = met[<<x, runs>>]
              BY <4>1, <7>1 DEF SavedBy
            <7>3. <<x, runs>> # <<p, runs>>
              BY <6>2
            <7>4. met'[<<x, runs>>] = met[<<x, runs>>]
              BY <3>4, <7>2, <7>3
            <7>5. <<x, runs>> \in DOMAIN backups' /\ backups'[<<x, runs>>] = backups[<<x, runs>>]
              BY <1>4, <3>1, <7>2
            <7> QED
              BY <7>1, <7>2, <7>4, <7>5
          <6> QED
            BY <6>1, <6>2
        <5>7. runs' = runs
          BY <1>1
        <5> QED
          BY <5>5, <5>6, <5>7 DEF SavedBy
      <4> QED
        BY <4>2, <4>3
    <3>8. RunInv'
      <4>1. /\ WizardFields \subseteq DOMAIN wizard' /\ wizard'.stamp = runs
            /\ wizard'.todo = wizard.todo \ {Min(wizard.todo)}
        BY <1>1, <1>3, <2>1, NextTargetIs
      <4>2. \A i \in wizard'.todo : <<PathOf[Targets[i]], runs>> \notin DOMAIN backups'
        BY <1>2, <1>3, <1>4, <3>1, <4>1
      <4> QED
        BY <1>1, <1>3, <3>7, <4>1, <4>2 DEF RunInv
    <3> QED
      BY <3>3, <3>5, <3>6, <3>8 DEF InstallInv
  <2>2. CASE /\ there /\ Ends
             /\ \E copy \in {Empty, disk[p]} : backups' = Fresh(copy)
             /\ UNCHANGED <<disk, met>>
    <3>1. PICK copy : backups' \in {backups, Fresh(copy)}
      BY <2>2
    <3>2. KeptInv'
      BY <1>5, <2>2, <3>1
    <3> QED
      BY <1>6, <2>2, <3>1, <3>2 DEF Ends
  <2>3. CASE /\ Ends
             /\ backups' = IF there THEN Fresh(disk[p]) ELSE backups
             /\ disk' = [disk EXCEPT ![p] = Empty]
             /\ UNCHANGED met
    <3>1. backups' \in {backups, Fresh(disk[p])}
      BY <2>3
    <3>2. DOMAIN disk' = DOMAIN disk /\ disk' = [disk EXCEPT ![p] = disk'[p]]
      BY <1>2, <2>3 DEF InstallInv, FilesInv
    <3>3. KeptInv'
      BY <1>5, <2>3, <3>1, <3>2
    <3> QED
      BY <1>6, <2>3, <3>1, <3>2, <3>3 DEF Ends
  <2> QED
    BY <1>3, <1>8, <2>1, <2>2, <2>3 DEF Replace, BackupTarget
<1> QED
  BY <1>7, <1>8

LEMMA BuildStep ==
  ASSUME InstallInv, Build
  PROVE  InstallInv'
<1>1. UNCHANGED <<disk, backups, met>> /\ wizard # None
  BY DEF Build
<1>2. CASE Ends
  BY <1>1, <1>2, EndsStep
<1>3. CASE wizard' = [wizard EXCEPT !.build = FALSE] /\ UNCHANGED <<runs, scripts, theirs, changes>>
  <2>1. /\ WizardFields \subseteq DOMAIN wizard'
        /\ wizard'.stamp = wizard.stamp /\ wizard'.dry = wizard.dry
        /\ wizard'.todo = wizard.todo /\ wizard'.saved = wizard.saved
    BY <1>1, <1>3 DEF InstallInv, RunInv, WizardFields
  <2>2. RunInv'
    BY <1>1, <1>3, <2>1 DEF InstallInv, RunInv, SavedBy
  <2> QED
    BY <1>1, <1>3, <2>2, SameFiles DEF InstallInv
<1> QED
  BY <1>2, <1>3 DEF Build

LEMMA FinishStep ==
  ASSUME InstallInv, Finish
  PROVE  InstallInv'
<1>1. /\ wizard # None /\ wizard' = None
      /\ UNCHANGED <<disk, runs, backups, theirs, met>>
      /\ scripts' = IF wizard.saved = <<>> \/ wizard.dry THEN scripts
                    ELSE With(scripts, runs, wizard.saved)
  BY DEF Finish, InstallInv, RunInv
<1>2. /\ runs \in Nat \ {0} /\ runs \notin DOMAIN scripts
      /\ ~ wizard.dry => SavedBy(wizard.saved, runs)
  BY <1>1 DEF InstallInv, RunInv
<1>3. \A n \in DOMAIN scripts' :
        \/ n \in DOMAIN scripts /\ scripts'[n] = scripts[n]
        \/ n = runs /\ scripts'[n] = wizard.saved /\ ~ wizard.dry
  BY <1>1 DEF With
<1>f. \A n \in DOMAIN scripts' : SavedBy(scripts'[n], n)
  BY <1>2, <1>3 DEF InstallInv, ScriptInv
<1>4. ScriptInv'
  BY <1>1, <1>f DEF ScriptInv, SavedBy
<1>5. FilesInv' /\ KeptInv'
  BY <1>1, <1>2, <1>3 DEF InstallInv, FilesInv, KeptInv
<1> QED
  BY <1>1, <1>4, <1>5 DEF InstallInv, RunInv

LEMMA RollbackStep ==
  ASSUME InstallInv, Rollback
  PROVE  InstallInv'
<1>1. /\ wizard' = wizard /\ wizard = None /\ theirs' = disk' /\ DOMAIN disk' = Paths
      /\ UNCHANGED <<runs, backups, scripts, met>>
  BY DEF Rollback
<1>2. FilesInv' /\ KeptInv' /\ RunInv'
  BY <1>1 DEF InstallInv, FilesInv, KeptInv, RunInv
<1>3. ScriptInv'
  BY <1>1 DEF InstallInv, ScriptInv, SavedBy
<1> QED
  BY <1>2, <1>3 DEF InstallInv

LEMMA EditStep ==
  ASSUME InstallInv, Edit
  PROVE  InstallInv'
<1>1. PICK p \in Paths : \E c : disk' = [disk EXCEPT ![p] = c] /\ theirs' = [theirs EXCEPT ![p] = c]
  BY DEF Edit
<1>2. UNCHANGED <<wizard, runs, backups, scripts, met>>
  BY DEF Edit
<1>3. FilesInv' /\ KeptInv'
  BY <1>1, <1>2 DEF InstallInv, FilesInv, KeptInv
<1>4. RunInv' /\ ScriptInv'
  BY <1>2 DEF InstallInv, RunInv, ScriptInv, SavedBy
<1> QED
  BY <1>3, <1>4 DEF InstallInv

LEMMA InstallInvSame == InstallInv /\ UNCHANGED <<disk, wizardVars>> => InstallInv'
<1> SUFFICES ASSUME InstallInv, UNCHANGED <<disk, wizardVars>> PROVE InstallInv'
  OBVIOUS
<1>1. UNCHANGED <<disk, wizard, runs, backups, scripts, theirs, met>>
  BY DEF wizardVars
<1>2. RunInv'
  BY <1>1 DEF InstallInv, RunInv, SavedBy
<1> QED
  BY <1>1, <1>2, SameFiles DEF InstallInv

\* No step of a wizard, a server, a script or another program breaks it.
THEOREM InstallInvNext == InstallInv /\ [SetupNext]_setupVars => InstallInv'
<1> SUFFICES ASSUME InstallInv, [SetupNext]_setupVars PROVE InstallInv'
  OBVIOUS
<1>1. CASE UNCHANGED setupVars
  BY <1>1, InstallInvSame DEF setupVars
<1>2. CASE SetupNext
  <2>1. CASE Kill
    BY <2>1, EndsStep DEF Kill
  <2>2. CASE ServerNext /\ UNCHANGED wizardVars
    BY <2>2, ServerKeepsFiles, InstallInvSame
  <2> QED
    BY <1>2, <2>1, <2>2, BeginStep, ExamineStep, ReplaceStep, BuildStep, FinishStep,
       RollbackStep, EditStep DEF SetupNext
<1> QED
  BY <1>1, <1>2

\* The invariant holds in every reachable state.
THEOREM InstallInvariance == SetupSpec => []InstallInv
  BY InstallInvInit, InstallInvNext, PTL DEF SetupSpec

\* Wherever a run ends, what another program last wrote to a file is there or
\* in a backup of it, and the script of a run that ended well holds everything
\* the run replaced, as the run found it.
THEOREM NothingIsLost == SetupSpec => []NothingLost
<1>1. ASSUME InstallInv PROVE NothingLost
  <2>1. ASSUME NEW p \in Paths
        PROVE  theirs[p] \in {None, disk[p]} \cup {backups[k] : k \in {j \in DOMAIN backups : j[1] = p}}
    <3> SUFFICES ASSUME theirs[p] \notin {None, disk[p]}
                 PROVE  \E k \in DOMAIN backups : k[1] = p /\ backups[k] = theirs[p]
      OBVIOUS
    <3>1. PICK n \in 1 .. runs : <<p, n>> \in DOMAIN backups /\ backups[<<p, n>>] = theirs[p]
      BY <1>1 DEF InstallInv, KeptInv
    <3> QED
      BY <3>1
  <2>2. ASSUME NEW n \in DOMAIN scripts
        PROVE  /\ DOMAIN scripts[n] = {k[1] : k \in {j \in DOMAIN met : j[2] = n}}
               /\ \A p \in DOMAIN scripts[n] : backups[scripts[n][p]] = met[<<p, n>>]
    <3>1. SavedBy(scripts[n], n)
      BY <1>1 DEF InstallInv, ScriptInv
    <3>2. ASSUME NEW p \in DOMAIN scripts[n] PROVE \E k \in DOMAIN met : k[2] = n /\ k[1] = p
      <4>1. <<p, n>> \in DOMAIN met
        BY <3>1 DEF SavedBy
      <4> QED
        BY <4>1
    <3>3. ASSUME NEW k \in DOMAIN met, k[2] = n PROVE k[1] \in DOMAIN scripts[n]
      <4>1. k = <<k[1], n>>
        BY <1>1, <3>3 DEF InstallInv, FilesInv
      <4> QED
        BY <3>1, <4>1 DEF SavedBy
    <3> QED
      BY <3>1, <3>2, <3>3 DEF SavedBy
  <2> QED
    BY <2>1, <2>2 DEF NothingLost
<1> QED
  BY <1>1, InstallInvariance, PTL
-----------------------------------------------------------------------------
(***************************************************************************)
(* Settings: what a server is given when it starts stays with it.  A query *)
(* changes what it has cached and its answers only, and once it has cached *)
(* an index it keeps that.                                                 *)
(***************************************************************************)
ServerFields == {"env", "read", "rag", "cached", "up", "path", "file", "sessions", "answers"}

\* The instances of a file, with the users of an environment.
Served(file, env) ==
  [k \in DOMAIN file.instances |->
     [name |-> file.instances[k].name, user |-> UserOf(env, file.instances[k])]]

ServerInv ==
  server # None =>
    /\ ServerFields \subseteq DOMAIN server
    /\ server.up /\ server.env.file # None =>
         server.path = server.env.file /\ server.sessions = Served(server.file, server.env)
    /\ server.env.file # None /\ server.read # NoInstances =>
         \A rag : server.read.rag = rag /\ Complete(rag) => server.rag = rag
    /\ \A a \in server.answers :
         /\ server.rag.provider = Ollama
         /\ server.cached # None /\ server.cached \in {server.rag.model, Blank}
         /\ a = [asked |-> server.rag.model, against |-> server.cached]

LEMMA ImportStep ==
  ASSUME Import
  PROVE  ServerInv'
<1>1. PICK env \in Environments :
        server' = [env |-> env, read |-> ContentOf(ConfigPath(env)), rag |-> RagOf(ConfigPath(env), env),
                   cached |-> IF RagOf(ConfigPath(env), env) = None THEN None ELSE index,
                   up |-> FALSE, path |-> None, file |-> NoInstances, sessions |-> <<>>,
                   answers |-> {}]
  BY DEF Import
<1>2. /\ ServerFields \subseteq DOMAIN server' /\ server'.answers = {} /\ ~ server'.up /\ server'.env = env
      /\ server'.read = ContentOf(ConfigPath(env)) /\ server'.rag = RagOf(ConfigPath(env), env)
  BY <1>1 DEF ServerFields
<1>3. ASSUME NEW rag, server'.read # NoInstances, server'.read.rag = rag, Complete(rag)
      PROVE  server'.rag = rag
  <2>1. /\ ConfigPath(env) # None /\ ConfigPath(env) # Failure
        /\ disk[ConfigPath(env)].rag = rag
    BY <1>2, <1>3 DEF ContentOf
  <2> QED
    BY <1>2, <1>3, <2>1 DEF RagOf, Complete
<1> QED
  BY <1>2, <1>3 DEF ServerInv

LEMMA StartStep ==
  ASSUME ServerInv, Start
  PROVE  ServerInv'
<1> DEFINE env == server.env
           path == ConfigPath(env)
<1>1. server # None /\ ServerFields \subseteq DOMAIN server
  BY DEF Start, ServerInv
<1>2. CASE Sessions(path, env) = Failure
  BY <1>2 DEF Start, ServerInv
<1>3. CASE Sessions(path, env) # Failure
  <2>1. server' = [server EXCEPT !.up = TRUE, !.path = path, !.file = ContentOf(path),
                     !.sessions = Sessions(path, env)]
    BY <1>3 DEF Start
  <2>2. /\ ServerFields \subseteq DOMAIN server'
        /\ server'.env = env /\ server'.read = server.read /\ server'.rag = server.rag
        /\ server'.cached = server.cached /\ server'.answers = server.answers
        /\ server'.path = path /\ server'.file = ContentOf(path)
        /\ server'.sessions = Sessions(path, env)
    BY <1>1, <2>1 DEF ServerFields
  <2>3. ASSUME env.file # None
        PROVE  path = env.file /\ Sessions(path, env) = Served(ContentOf(path), env)
    <3>1. path # Failure
      BY <1>3 DEF Sessions
    <3>2. path = env.file
      BY <2>3, <3>1 DEF ConfigPath
    <3>3. ContentOf(path) = disk[path]
      BY <2>3, <3>1, <3>2 DEF ContentOf
    <3> QED
      BY <1>3, <2>3, <3>1, <3>2, <3>3 DEF Sessions, Served
  <2>4. server.env.file # None /\ server.read # NoInstances =>
          \A rag : server.read.rag = rag /\ Complete(rag) => server.rag = rag
    BY <1>1 DEF ServerInv
  <2>5. \A a \in server.answers :
          /\ server.rag.provider = Ollama
          /\ server.cached # None /\ server.cached \in {server.rag.model, Blank}
          /\ a = [asked |-> server.rag.model, against |-> server.cached]
    BY <1>1 DEF ServerInv
  <2>6. server'.env.file # None =>
          server'.path = server'.env.file /\ server'.sessions = Served(server'.file, server'.env)
    BY <2>2, <2>3
  <2> QED
    BY <2>2, <2>4, <2>5, <2>6 DEF ServerInv
<1> QED
  BY <1>2, <1>3

LEMMA QueryStep ==
  ASSUME ServerInv, Query
  PROVE  ServerInv'
<1>1. PICK embedded \in BOOLEAN :
        server' = [server EXCEPT !.cached = Found,
                     !.answers = IF embedded /\ Answers(server.rag, Found)
                                 THEN @ \cup {[asked |-> server.rag.model, against |-> Found]} ELSE @]
  BY DEF Query
<1>2. server # None /\ ServerFields \subseteq DOMAIN server
  BY DEF Query, ServerInv
<1>3. /\ ServerFields \subseteq DOMAIN server'
      /\ server'.env = server.env /\ server'.path = server.path /\ server'.file = server.file
      /\ server'.sessions = server.sessions /\ server'.rag = server.rag
      /\ server'.read = server.read /\ server'.up = server.up
      /\ server'.cached = Found
      /\ server'.answers = IF embedded /\ Answers(server.rag, Found)
                            THEN server.answers \cup {[asked |-> server.rag.model, against |-> Found]}
                            ELSE server.answers
  BY <1>1, <1>2 DEF ServerFields
<1>4. ASSUME NEW a \in server'.answers
      PROVE  /\ server'.rag.provider = Ollama
             /\ server'.cached # None /\ server'.cached \in {server'.rag.model, Blank}
             /\ a = [asked |-> server'.rag.model, against |-> server'.cached]
  <2>1. CASE a \in server.answers
    <3>1. /\ server.rag.provider = Ollama
          /\ server.cached # None /\ server.cached \in {server.rag.model, Blank}
          /\ a = [asked |-> server.rag.model, against |-> server.cached]
      BY <1>2, <2>1 DEF ServerInv
    <3>2. Found = server.cached
      BY <3>1 DEF Found
    <3> QED
      BY <1>3, <3>1, <3>2
  <2>2. CASE a \notin server.answers
    <3>1. Answers(server.rag, Found) /\ a = [asked |-> server.rag.model, against |-> Found]
      BY <1>3, <1>4, <2>2
    <3> QED
      BY <1>3, <3>1 DEF Answers
  <2> QED
    BY <2>1, <2>2
<1>5. server.env.file # None /\ server.read # NoInstances =>
        \A rag : server.read.rag = rag /\ Complete(rag) => server.rag = rag
  BY <1>2 DEF ServerInv
<1>6. server.up /\ server.env.file # None =>
        server.path = server.env.file /\ server.sessions = Served(server.file, server.env)
  BY <1>2 DEF ServerInv
<1> QED
  BY <1>3, <1>4, <1>5, <1>6 DEF ServerInv

\* What is served of the wizard's file.
LEMMA SettledServes ==
  ASSUME NEW w \in Wishes, NEW env, EnvKey[w.name] \notin DOMAIN env.users
  PROVE  /\ Served(Settled(w), env) = <<[name |-> w.name, user |-> w.user]>>
         /\ Settled(w) # NoInstances /\ Settled(w).rag = w.rag
<1> DEFINE i == [name |-> w.name, user |-> w.user]
           listed == <<i>>
<1>1. Settled(w).instances = listed /\ Settled(w).rag = w.rag
  BY DEF Settled
<1>2. UserOf(env, i) = w.user /\ i.name = w.name
  BY DEF UserOf
<1>3. DOMAIN listed = {1} /\ listed[1] = i /\ listed # <<>>
  OBVIOUS
<1>4. Settled(w) # NoInstances
  BY <1>1, <1>3 DEF NoInstances
<1>5. Served(Settled(w), env) = <<i>>
  BY <1>1, <1>2, <1>3 DEF Served
<1> QED
  BY <1>1, <1>4, <1>5

\* The wizard's file has the instance to begin with.
LEMMA SettledStarts ==
  ASSUME NEW w \in Wishes, NEW env, env.file = PathOf[Yaml],
         w.name # Blank, EnvKey[w.name] \notin DOMAIN env.users, disk[env.file] = Settled(w)
  PROVE  Sessions(ConfigPath(env), env) = <<[name |-> w.name, user |-> w.user]>>
<1>1. env.file \in Paths
  <2>1. 1 \in DOMAIN Targets /\ Targets[1] = Yaml
    BY SetupAssumption DEF Targets
  <2> QED
    BY <2>1, TargetTypes
<1>2. env.file # None /\ env.file # Failure /\ Settled(w) # None /\ w.user # Blank
  BY <1>1, SetupAssumption
<1>3. ConfigPath(env) = env.file
  BY <1>2 DEF ConfigPath
<1> DEFINE i == [name |-> w.name, user |-> w.user]
           listed == <<i>>
<1>4. disk[env.file].instances = listed
  BY DEF Settled
<1>5. UserOf(env, i) = w.user /\ i.name = w.name
  BY DEF UserOf
<1>6. Sessions(env.file, env) =
        IF \E k \in DOMAIN listed : listed[k].name = Blank \/ UserOf(env, listed[k]) = Blank
        THEN Failure
        ELSE [k \in DOMAIN listed |-> [name |-> listed[k].name, user |-> UserOf(env, listed[k])]]
  BY <1>2, <1>4 DEF Sessions
<1>7. DOMAIN listed = {1} /\ listed[1] = i
  OBVIOUS
<1>8. Sessions(env.file, env) = [k \in DOMAIN listed |-> [name |-> listed[k].name, user |-> UserOf(env, listed[k])]]
  <2> HIDE DEF i, listed
  <2> QED
    BY <1>2, <1>5, <1>6, <1>7
<1>9. Sessions(env.file, env) = <<i>>
  BY <1>5, <1>8
<1> QED
  BY <1>3, <1>9

\* A server given a file serves the instances of that file; the wizard's file has
\* the instance to begin with, and a server that found it at both its reads has
\* what was asked for; all it answers from documentation in its life is found by
\* the model configured, in one index, whatever is replaced meanwhile.
THEOREM ServesWhatWasSetUp == SetupSpec => []ServesAsSetUp
<1>1. SetupInit => ServerInv
  BY DEF SetupInit, ServerInv
<1>2. ServerInv /\ [SetupNext]_setupVars => ServerInv'
  <2> SUFFICES ASSUME ServerInv, [SetupNext]_setupVars PROVE ServerInv'
    OBVIOUS
  <2>1. CASE UNCHANGED server
    BY <2>1 DEF ServerInv
  <2>2. CASE ServerNext
    BY <2>2, ImportStep, StartStep, QueryStep DEF ServerNext, Stop, ServerInv
  <2>3. SetupNext => UNCHANGED server \/ ServerNext
    BY DEF SetupNext, Begin, Kill, Examine, Replace, Build, Finish, Rollback, Edit
  <2> QED
    BY <2>1, <2>2, <2>3 DEF setupVars
<1>3. ASSUME ServerInv, server # None PROVE
       /\ server.up /\ server.env.file # None =>
            /\ server.path = server.env.file
            /\ [k \in DOMAIN server.sessions |-> server.sessions[k].name] =
                 [k \in DOMAIN server.file.instances |-> server.file.instances[k].name]
       /\ \A a, b \in server.answers :
            /\ a = b /\ a.asked = server.rag.model /\ a.against \in {server.rag.model, Blank}
            /\ server.rag.provider = Ollama
  BY <1>3 DEF ServerInv, Served
<1>4. ASSUME ServerInv, server # None, NEW w \in Wishes,
             server.env.file = PathOf[Yaml], EnvKey[w.name] \notin DOMAIN server.env.users,
             server.up, server.read = Settled(w), server.file = Settled(w)
      PROVE  /\ server.sessions = <<[name |-> w.name, user |-> w.user]>>
             /\ Complete(w.rag) => server.rag = w.rag
  <2>1. server.env.file # None
    <3>1. 1 \in DOMAIN Targets /\ Targets[1] = Yaml
      BY SetupAssumption DEF Targets
    <3> QED
      BY <1>4, <3>1, TargetTypes, SetupAssumption
  <2> QED
    BY <1>4, <2>1, SettledServes DEF ServerInv
<1>5. ServerInv => ServesAsSetUp
  BY <1>3, <1>4, SettledStarts DEF ServesAsSetUp
<1> QED
  BY <1>1, <1>2, <1>5, PTL DEF SetupSpec
=============================================================================
