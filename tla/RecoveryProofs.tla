--------------------------- MODULE RecoveryProofs ---------------------------
(***************************************************************************)
(* Theorems about Recovery, for every set of commands, every kind of SD    *)
(* card and every bound.  TypeCorrect holds for every configuration.  The  *)
(* restart theorems are about a device whose misc partition is MTD, read   *)
(* and written without error, and commands that fit in the BCB: without    *)
(* any of these TLC finds a counterexample on a small instance.            *)
(***************************************************************************)
EXTENDS Recovery, TLAPS

-----------------------------------------------------------------------------
(* Lemmas about the operators on the bootloader message.                   *)

\* What strlcat leaves of an option list is an option list.
LEMMA StoredType ==
    ASSUME NEW a \in Seq(Options)
    PROVE  Stored(a) \in Seq(Options)
<1>1. CASE Len(a) <= BcbCap
  BY <1>1 DEF Stored
<1>2. CASE ~(Len(a) <= BcbCap)
  <2>1. BcbCap \in Nat /\ BcbCap + 1 \in 1..Len(a)
    BY <1>2, BcbCapAssumption
  <2>2. Cut(a[BcbCap + 1]) \in Options
    BY DEF Cut, Options
  <2>3. SubSeq(a, 1, BcbCap) \in Seq(Options)
    BY <2>1
  <2> QED
    BY <1>2, <2>2, <2>3 DEF Stored
<1> QED
  BY <1>1, <1>2

\* The arguments read out of a message are an option list.
LEMMA BcbArgsType ==
    ASSUME NEW b \in BcbType
    PROVE  BcbArgs(b) \in Seq(Options)
<1>1. b.options \in Seq(Options)
  BY DEF BcbType
<1>2. <<>> \in Seq(Options)
  OBVIOUS
<1> QED
  BY <1>1, <1>2, Zenon DEF BcbArgs

\* What get_args writes back is a message.
LEMMA RearmedType ==
    ASSUME NEW b \in BcbType, NEW a \in Seq(Options)
    PROVE  Rearmed(b, a) \in BcbType
BY StoredType DEF Rearmed, BcbType

\* So are the messages of finish_recovery and of a fresh device.
LEMMA ZeroBcbType == ZeroBcb \in BcbType
BY DEF ZeroBcb, BcbType

LEMMA ErasedType ==
    ASSUME NEW f \in {"", "false", "package"}
    PROVE  Erased(f) \in BcbType
BY ZeroBcbType DEF Erased, BcbType

\* A formatted volume, and one that the main system has gone on using.
LEMMA VolumeIsVolume ==
    ASSUME NEW fs \in {"user", "partial", "fresh"}
    PROVE  Volume(fs) \in VolumeType
BY DEF Volume, VolumeType

LEMMA InUseType ==
    ASSUME NEW u \in VolumeType, NEW a
    PROVE  InUse(u, a) \in VolumeType
BY DEF InUse, VolumeType

\* The job of an option list is one of main()'s.
LEMMA CommandJobType ==
    ASSUME NEW a
    PROVE  CommandJob(a) \in JobNames
BY DEF CommandJob, JobNames, EraseJobs

\* No arguments, no job.
LEMMA NoArgsNoJob == CommandJob(<<>>) = "none"
BY DEF CommandJob, ToSet

\* A package in the BCB is an update.
LEMMA PackageJob ==
    ASSUME NEW p \in Packages
    PROVE  CommandJob(<<p>>) = "update"
<1>1. ToSet(<<p>>) = {p}
  BY DEF ToSet
<1> QED
  BY <1>1, PackagesAssumption DEF CommandJob

\* What an erased block of misc holds is a message without arguments.
LEMMA RuinsType ==
    ASSUME NEW b \in Ruins
    PROVE  /\ b \in BcbType /\ ~b.named /\ b.options = <<>>
           /\ BcbArgs(b) = <<>>
<1>1. <<>> \in Seq(Options)
  OBVIOUS
<1> QED
  BY <1>1 DEF Ruins, BcbType, BcbArgs

\* set_bootloader_message leaves a message on the medium and in the kernel.
LEMMA SetBcbType ==
    ASSUME NEW b \in BcbType, bcb \in BcbType, bcbC \in BcbType, SetBcb(b)
    PROVE  bcb' \in BcbType /\ bcbC' \in BcbType
BY RuinsType DEF SetBcb, bcbVars

\* What get_args returns: the arguments in the BCB or else the command file's,
\* where it can be read.
LEMMA GetArgsTakes ==
    ASSUME GetArgs
    PROVE  \E b \in {bcbC, ZeroBcb}, found \in {FALSE, Mountable} :
             /\ "misc_read" \in Faults \/ b = bcbC
             /\ args' = IF BcbArgs(b) # <<>> THEN BcbArgs(b)
                        ELSE IF found THEN udC.cmd ELSE <<>>
             /\ SetBcb(Rearmed(b, args'))
<1>1. PICK b \in {bcbC} \cup (IF "misc_read" \in Faults THEN {ZeroBcb} ELSE {}),
           found \in {Mountable}
                     \cup (IF "mount" \in Faults /\ ~mnt THEN {FALSE} ELSE {}) :
        /\ args' = IF BcbArgs(b) # <<>> THEN BcbArgs(b)
                   ELSE IF found THEN udC.cmd ELSE <<>>
        /\ SetBcb(Rearmed(b, args'))
  BY Zenon DEF GetArgs
<1>2. b \in {bcbC, ZeroBcb} /\ found \in {FALSE, Mountable}
  OBVIOUS
<1>3. "misc_read" \in Faults \/ b = bcbC
  OBVIOUS
<1> QED
  BY <1>1, <1>2, <1>3, Zenon

\* Settling a request only takes jobs away.
LEMMA SettleType ==
    ASSUME owed \subseteq JobNames, Settle
    PROVE  owed' \subseteq JobNames
BY DEF Settle

-----------------------------------------------------------------------------
(* Type correctness.                                                       *)

LEMMA IdleType ==
    ASSUME SetRun(Idle)
    PROVE  /\ ctx' = "main" /\ args' = <<>> /\ args' \in Seq(Options)
           /\ status' = "success" /\ flag' = "" /\ visible' = TRUE
           /\ mnt' = FALSE /\ rstOpen' = FALSE
<1>1. <<>> \in Seq(Options)
  OBVIOUS
<1> QED
  BY <1>1 DEF SetRun, Idle

\* The places of main(), without the name of the set.
LEMMA PcsAre ==
    Pcs = {"dispatch", "erase", "mkfs", "resize_oem", "update", "mount_pkg",
           "engine", "flash", "installed", "write_result", "sdupdate", "decide",
           "main", "boot", "get_args", "sd_wait", "finish_bcb",
           "finish_unlink", "finish_sync", "menu", "sideload", "reboot"}
BY DEF Pcs, TaskPcs

LEMMA InitType == Init => TypeOK
<1> SUFFICES ASSUME Init PROVE TypeOK
  OBVIOUS
<1>1. StorageType
  BY ZeroBcbType, VolumeIsVolume DEF Init, StorageType
<1>2. RunType
  <2>1. <<>> \in Seq(Options)
    OBVIOUS
  <2>2. pc \in Pcs
    BY PcsAre DEF Init
  <2> QED
    BY <2>1, <2>2 DEF Init, Idle, RunType
<1>3. DeviceType
  <2>1. cuts \in 0..MaxCuts /\ requests \in 0..MaxRequests
    BY BoundsAssumption DEF Init
  <2>2. sd \in SdKinds
    BY DEF Init, SdKinds
  <2> QED
    BY <2>1, <2>2 DEF Init, DeviceType
<1> QED
  BY <1>1, <1>2, <1>3 DEF TypeOK

\* A step that leaves both stores alone leaves them typed.
LEMMA StorageKept ==
    ASSUME StorageType, UNCHANGED <<bcbVars, udVars>>
    PROVE  StorageType'
BY DEF StorageType, bcbVars, udVars

\* What is stored stays typed.
LEMMA StorageStep ==
    ASSUME TypeOK, [Next]_vars
    PROVE  StorageType'
<1>0. /\ bcb \in BcbType /\ bcbC \in BcbType
      /\ ud \in VolumeType /\ udC \in VolumeType
      /\ args \in Seq(Options) /\ flag \in {"", "false", "package"}
  BY DEF TypeOK, StorageType, RunType
<1>1. ASSUME NEW a \in Commands, RequestByFile(a) PROVE StorageType'
  <2>1. [InUse(udC, a) EXCEPT !.cmd = a] \in VolumeType
    BY <1>0, InUseType, CommandsAssumption DEF VolumeType
  <2> QED
    BY <1>0, <1>1, <2>1 DEF RequestByFile, StorageType, bcbVars
<1>2. ASSUME NEW p \in Packages, RequestByMisc(p) PROVE StorageType'
  <2>1. <<p>> \in Seq(Options)
    BY PackagesAssumption DEF Options
  <2>2. UpdateBcb(p) \in BcbType
    BY <2>1 DEF UpdateBcb, BcbType
  <2>3. InUse(udC, <<p>>) \in VolumeType
    BY <1>0, InUseType
  <2>4. bcb' \in BcbType /\ bcbC' \in BcbType
    BY <1>0, <1>2, <2>2, SetBcbType DEF RequestByMisc, bcbVars
  <2> QED
    BY <1>2, <2>3, <2>4 DEF RequestByMisc, StorageType
<1>3. CASE GetArgs
  <2>1. PICK b \in {bcbC, ZeroBcb}, found \in {FALSE, Mountable} :
          /\ args' = IF BcbArgs(b) # <<>> THEN BcbArgs(b)
                     ELSE IF found THEN udC.cmd ELSE <<>>
          /\ SetBcb(Rearmed(b, args'))
    BY <1>3, GetArgsTakes, Zenon
  <2>2. b \in BcbType
    BY <1>0, ZeroBcbType
  <2>3. udC.cmd \in Seq(Options)
    BY <1>0 DEF VolumeType
  <2>4. args' \in Seq(Options)
    <3>1. <<>> \in Seq(Options)
      OBVIOUS
    <3> QED
      BY <2>1, <2>2, <2>3, <3>1, BcbArgsType
  <2>5. bcb' \in BcbType /\ bcbC' \in BcbType
    BY <1>0, <2>1, <2>2, <2>4, RearmedType, SetBcbType
  <2> QED
    BY <1>0, <1>3, <2>5 DEF GetArgs, udVars, StorageType
<1>4. CASE Erase
  BY <1>0, <1>4, VolumeIsVolume DEF Erase, bcbVars, udVars, StorageType
<1>5. CASE Mkfs
  BY <1>0, <1>5, VolumeIsVolume DEF Mkfs, bcbVars, udVars, StorageType
<1>6. CASE OpenResult
  BY <1>0, <1>6 DEF OpenResult, bcbVars, VolumeType, StorageType
<1>7. CASE Installed
  BY <1>0, <1>7 DEF Installed, bcbVars, VolumeType, StorageType
<1>8. CASE WriteResult
  BY <1>0, <1>8 DEF WriteResult, ResultText, bcbVars, VolumeType, StorageType
<1>9. CASE FinishBcb
  BY <1>0, <1>9, ErasedType, SetBcbType DEF FinishBcb, udVars, StorageType
<1>10. CASE FinishUnlink
  <2>1. Unlinked(udC) \in VolumeType
    <3>1. <<>> \in Seq(Options)
      OBVIOUS
    <3> QED
      BY <1>0, <3>1 DEF Unlinked, VolumeType
  <2> QED
    BY <1>0, <1>10, <2>1 DEF FinishUnlink, FileStays, bcbVars, StorageType
<1>11. CASE FinishSync \/ Reboot \/ ProgramBcb \/ WriteBackBcb \/ WriteBackUserdata \/ PowerCut
  BY <1>0, <1>11
  DEF FinishSync, Reboot, ProgramBcb, WriteBackBcb, WriteBackUserdata, PowerCut,
      bcbVars, udVars, StorageType
<1>12. CASE MenuApply
  <2>1. [ZeroBcb EXCEPT !.command = "boot-recovery", !.named = TRUE] \in BcbType
    BY ZeroBcbType DEF BcbType
  <2> QED
    BY <1>0, <1>12, <2>1, SetBcbType DEF MenuApply, bcbVars, udVars, StorageType
<1>13. CASE SdFlash
  <2>1. ImageBcb \in BcbType
    <3>1. <<"wipe_all">> \in Seq(Options)
      BY DEF Options
    <3> QED
      BY <3>1, ZeroBcbType DEF ImageBcb, BcbType
  <2> QED
    BY <1>0, <1>13, <2>1 DEF SdFlash, bcbVars, udVars, StorageType
<1>14. CASE EnterByHand \/ BootLoader \/ Dispatch \/ ResizeOem \/ MountPackage
            \/ Engine \/ Flash \/ SdUpdate \/ Decide \/ SdWait \/ MenuReboot
            \/ MenuWipe \/ Sideload \/ ToggleText \/ UNCHANGED vars
  <2>1. UNCHANGED <<bcbVars, udVars>>
    BY <1>14
    DEF EnterByHand, BootLoader, Dispatch, ResizeOem, MountPackage, Engine, Flash, SdFlash,
        SdUpdate, Decide, SdWait, MenuReboot, MenuWipe, Sideload, ToggleText, vars
  <2> QED
    BY <2>1, StorageKept DEF TypeOK
<1> QED
  BY <1>1, <1>2, <1>3, <1>4, <1>5, <1>6, <1>7, <1>8, <1>9, <1>10, <1>11, <1>12,
     <1>13, <1>14
  DEF Next, MainSystem, Program, Menu

\* A step that leaves the running recovery's variables alone, but for pc.
LEMMA RunKept ==
    ASSUME RunType, UNCHANGED runVars, pc' \in Pcs
    PROVE  RunType'
BY DEF RunType, runVars

\* A fresh run is typed.
LEMMA RunIdle ==
    ASSUME SetRun(Idle), pc' \in Pcs
    PROVE  RunType'
BY IdleType DEF RunType

\* The running recovery stays typed.
LEMMA RunStep ==
    ASSUME TypeOK, [Next]_vars
    PROVE  RunType'
<1>0. /\ pc \in Pcs /\ ctx \in {"main", "menu"} /\ args \in Seq(Options)
      /\ status \in {"success", "error"} /\ flag \in {"", "false", "package"}
      /\ visible \in BOOLEAN /\ mnt \in BOOLEAN /\ rstOpen \in BOOLEAN
      /\ Mountable \in BOOLEAN
  BY DEF TypeOK, RunType, Mountable
<1>1. ASSUME NEW a \in Commands, RequestByFile(a) PROVE RunType'
  BY <1>0, <1>1, PcsAre, RunKept DEF RequestByFile, Asks, TypeOK
<1>2. ASSUME NEW p \in Packages, RequestByMisc(p) PROVE RunType'
  BY <1>0, <1>2, PcsAre, RunKept DEF RequestByMisc, Asks, TypeOK
<1>3. CASE BootLoader
  <2>1. pc' \in Pcs
    BY <1>3, PcsAre DEF BootLoader
  <2>2. CASE SetRun(Idle)
    BY <2>1, <2>2, RunIdle
  <2>3. CASE \E m \in {FALSE, Mountable} : SetRun([Idle EXCEPT !.mnt = m])
    <3>1. <<>> \in Seq(Options)
      OBVIOUS
    <3> QED
      BY <1>0, <2>1, <2>3, <3>1 DEF SetRun, Idle, RunType
  <2> QED
    BY <1>3, <2>2, <2>3 DEF BootLoader
<1>4. CASE GetArgs
  <2>1. args' \in Seq(Options)
    <3>1. \A b \in {bcbC, ZeroBcb} : BcbArgs(b) \in Seq(Options)
      BY BcbArgsType, ZeroBcbType DEF TypeOK, StorageType
    <3>2. udC.cmd \in Seq(Options)
      BY DEF TypeOK, StorageType, VolumeType
    <3>3. <<>> \in Seq(Options)
      OBVIOUS
    <3> QED
      BY <1>4, <3>1, <3>2, <3>3 DEF GetArgs
  <2>2. mnt' \in BOOLEAN
    BY <1>0, <1>4 DEF GetArgs
  <2> QED
    BY <1>0, <1>4, <2>1, <2>2, PcsAre DEF GetArgs, RunType
<1>5. CASE Dispatch
  BY <1>0, <1>5, PcsAre DEF Dispatch, RunType
<1>6. CASE Erase
  BY <1>0, <1>6, PcsAre DEF Erase, AfterErase, StatusAfter, RunType
<1>7. CASE Mkfs
  BY <1>0, <1>7, PcsAre DEF Mkfs, AfterErase, StatusAfter, RunType
<1>8. CASE ResizeOem \/ OpenResult
  BY <1>0, <1>8, PcsAre DEF ResizeOem, OpenResult, RunType
<1>9. CASE MountPackage
  BY <1>0, <1>9, PcsAre DEF MountPackage, OnUserdata, RunType
<1>10. CASE Engine
  BY <1>0, <1>10, PcsAre DEF Engine, RunType
<1>11. CASE Flash \/ SdFlash
  BY <1>0, <1>11, PcsAre DEF Flash, SdFlash, RunType
<1>12. CASE Installed
  BY <1>0, <1>12, PcsAre DEF Installed, RunType
<1>13. CASE WriteResult \/ SdUpdate
  BY <1>0, <1>13, PcsAre DEF WriteResult, SdUpdate, RunType
<1>14. CASE Decide \/ Sideload
  BY <1>0, <1>14, PcsAre DEF Decide, Sideload, RunType
<1>15. CASE FinishBcb \/ FinishUnlink
  BY <1>0, <1>15, PcsAre DEF FinishBcb, FinishUnlink, RunType
<1>16. CASE Reboot \/ PowerCut
  BY <1>16, PcsAre, RunIdle DEF Reboot, PowerCut
<1>17. CASE MenuReboot \/ ToggleText
  BY <1>0, <1>17, PcsAre DEF MenuReboot, ToggleText, RunType
<1>18. CASE EnterByHand \/ SdWait \/ FinishSync \/ MenuWipe
            \/ MenuApply \/ ProgramBcb \/ WriteBackBcb \/ WriteBackUserdata \/ UNCHANGED vars
  <2>1. UNCHANGED runVars
    BY <1>18
    DEF EnterByHand, SdWait, FinishSync, MenuWipe, MenuApply,
        ProgramBcb, WriteBackBcb, WriteBackUserdata, vars
  <2>2. pc' \in Pcs
    BY <1>0, <1>18, PcsAre
    DEF EnterByHand, SdWait, FinishSync, MenuWipe, MenuApply,
        ProgramBcb, WriteBackBcb, WriteBackUserdata, vars
  <2> QED
    BY <2>1, <2>2, RunKept DEF TypeOK
<1> QED
  BY <1>1, <1>2, <1>3, <1>4, <1>5, <1>6, <1>7, <1>8, <1>9, <1>10, <1>11, <1>12,
     <1>13, <1>14, <1>15, <1>16, <1>17, <1>18
  DEF Next, MainSystem, Program, Menu

\* The rest of the device and the ghosts stay typed.
LEMMA DeviceStep ==
    ASSUME TypeOK, [Next]_vars
    PROVE  DeviceType'
<1>0. /\ fw \in {"old", "partial", "new"} /\ reason \in {"none", "recovery"}
      /\ sd \in SdKinds /\ sdbin \in BOOLEAN
      /\ owed \subseteq JobNames /\ told \in BOOLEAN /\ torn \in BOOLEAN
      /\ cuts \in 0..MaxCuts /\ requests \in 0..MaxRequests
  BY DEF TypeOK, DeviceType
<1>1. fw' \in {"old", "partial", "new"}
  BY <1>0
  DEF Next, MainSystem, Program, Menu, RequestByFile, RequestByMisc, Asks, Outdated,
      EnterByHand, BootLoader, GetArgs, Dispatch, Erase, Mkfs, ResizeOem, OpenResult,
      MountPackage, Engine, Flash, SdFlash, Installed, WriteResult, SdUpdate, Decide, SdWait,
      FinishBcb, FinishUnlink, FinishSync, Reboot, MenuReboot, MenuWipe, MenuApply,
      Sideload, ToggleText, ProgramBcb, WriteBackBcb, WriteBackUserdata, PowerCut, vars
<1>2. reason' \in {"none", "recovery"}
  BY <1>0
  DEF Next, MainSystem, Program, Menu, RequestByFile, RequestByMisc,
      EnterByHand, BootLoader, GetArgs, Dispatch, Erase, Mkfs, ResizeOem, OpenResult,
      MountPackage, Engine, Flash, SdFlash, Installed, WriteResult, SdUpdate, Decide, SdWait,
      FinishBcb, FinishUnlink, FinishSync, Reboot, MenuReboot, MenuWipe, MenuApply,
      Sideload, ToggleText, ProgramBcb, WriteBackBcb, WriteBackUserdata, PowerCut, vars
<1>3. sd' \in SdKinds /\ sdbin' \in BOOLEAN
  <2>1. CASE BootLoader
    BY <1>0, <2>1, SdAssumption DEF BootLoader
  <2>2. CASE SdWait \/ PowerCut \/ SdUpdate
    BY <1>0, <2>2 DEF SdWait, PowerCut, SdUpdate, SdKinds
  <2>3. BootLoader \/ SdWait \/ PowerCut \/ SdUpdate \/ UNCHANGED sdVars
    BY DEF Next, MainSystem, Program, Menu, RequestByFile, RequestByMisc, Asks,
        EnterByHand, GetArgs, Dispatch, Erase, Mkfs, ResizeOem, OpenResult,
        MountPackage, Engine, Flash, SdFlash, Installed, WriteResult, Decide,
        FinishBcb, FinishUnlink, FinishSync, Reboot, MenuReboot, MenuWipe, MenuApply,
        Sideload, ToggleText, ProgramBcb, WriteBackBcb, WriteBackUserdata, vars
  <2> QED
    BY <1>0, <2>1, <2>2, <2>3 DEF sdVars
<1>4. owed' \subseteq JobNames
  <2>1. CASE \E a \in Commands : RequestByFile(a)
    BY <1>0, <2>1, CommandJobType DEF RequestByFile, Asks
  <2>2. CASE \E p \in Packages : RequestByMisc(p)
    BY <1>0, <2>2, CommandJobType DEF RequestByMisc, Asks
  <2>3. CASE Settle \/ FileStays \/ owed' = owed \cup {"wipe_all"}
    BY <1>0, <2>3, SettleType, CommandJobType DEF FileStays, JobNames, EraseJobs
  <2>4. \/ \E a \in Commands : RequestByFile(a)
        \/ \E p \in Packages : RequestByMisc(p)
        \/ Settle \/ FileStays \/ owed' = owed \cup {"wipe_all"}
        \/ UNCHANGED owed
    BY DEF Next, MainSystem, Program, Menu,
        EnterByHand, BootLoader, GetArgs, Dispatch, Erase, Mkfs, ResizeOem, OpenResult,
        MountPackage, Engine, Flash, SdFlash, Installed, WriteResult, SdUpdate, Decide, SdWait,
        FinishBcb, FinishUnlink, FinishSync, Reboot, MenuReboot, MenuWipe, MenuApply,
        Sideload, ToggleText, ProgramBcb, WriteBackBcb, WriteBackUserdata, PowerCut, ghosts, vars
  <2> QED
    BY <1>0, <2>1, <2>2, <2>3, <2>4
<1>5. told' \in BOOLEAN /\ torn' \in BOOLEAN
  BY <1>0
  DEF Next, MainSystem, Program, Menu, RequestByFile, RequestByMisc, Asks,
      EnterByHand, BootLoader, GetArgs, Dispatch, Erase, Mkfs, ResizeOem, OpenResult,
      MountPackage, Engine, Flash, SdFlash, Installed, WriteResult, SdUpdate, Decide, SdWait,
      FinishBcb, FinishUnlink, FinishSync, Reboot, MenuReboot, MenuWipe, MenuApply,
      Sideload, ToggleText, ProgramBcb, WriteBackBcb, WriteBackUserdata, PowerCut, ghosts, vars
<1>6. cuts' \in 0..MaxCuts /\ requests' \in 0..MaxRequests
  <2>1. \/ cuts' = cuts
        \/ cuts < MaxCuts /\ cuts' = cuts + 1
    BY DEF Next, MainSystem, Program, Menu, RequestByFile, RequestByMisc, Asks,
        EnterByHand, BootLoader, GetArgs, Dispatch, Erase, Mkfs, ResizeOem, OpenResult,
        MountPackage, Engine, Flash, SdFlash, Installed, WriteResult, SdUpdate, Decide, SdWait,
        FinishBcb, FinishUnlink, FinishSync, Reboot, MenuReboot, MenuWipe, MenuApply,
        Sideload, ToggleText, ProgramBcb, WriteBackBcb, WriteBackUserdata, PowerCut, bounds, vars
  <2>2. \/ requests' = requests
        \/ requests < MaxRequests /\ requests' = requests + 1
    BY DEF Next, MainSystem, Program, Menu, RequestByFile, RequestByMisc, Asks,
        EnterByHand, BootLoader, GetArgs, Dispatch, Erase, Mkfs, ResizeOem, OpenResult,
        MountPackage, Engine, Flash, SdFlash, Installed, WriteResult, SdUpdate, Decide, SdWait,
        FinishBcb, FinishUnlink, FinishSync, Reboot, MenuReboot, MenuWipe, MenuApply,
        Sideload, ToggleText, ProgramBcb, WriteBackBcb, WriteBackUserdata, PowerCut, bounds, vars
  <2> QED
    BY <1>0, <2>1, <2>2, BoundsAssumption
<1> QED
  BY <1>1, <1>2, <1>3, <1>4, <1>5, <1>6 DEF DeviceType

\* Every variable stays within the values the program can give it, whatever
\* the commands, the SD cards, the faults and the number of power cuts.
THEOREM TypeCorrect == Spec => []TypeOK
<1>1. TypeOK /\ [Next]_vars => TypeOK'
  BY StorageStep, RunStep, DeviceStep DEF TypeOK
<1> QED
  BY <1>1, InitType, PTL DEF Spec

-----------------------------------------------------------------------------
(* The BCB between two runs.                                               *)

\* The hypotheses: misc is MTD, it is read and written without error, and the
\* options of every command fit in the BCB.
Reliable ==
    /\ ~WriteBack
    /\ "misc_read" \notin Faults /\ "misc_write" \notin Faults
    /\ \A a \in Commands : Len(a) <= BcbCap

\* The medium holds what was written last, or the block is being rewritten.
Written == bcb = bcbC \/ bcb \in Ruins

\* No stored list of options is ever cut.
OptionsFit ==
    /\ Len(bcbC.options) <= BcbCap
    /\ Len(ud.cmd) <= BcbCap /\ Len(udC.cmd) <= BcbCap

\* The BCB leads back to recovery, with the arguments of this run.
Armed ==
    pc \in TaskPcs /\ ctx = "main" /\ sd = "none" =>
        /\ bcbC.command = "boot-recovery"
        /\ BcbArgs(bcbC) = args
        /\ pc = "flash" => bcbC.need

\* The menu is only reached through prompt_and_wait.
InMenu == pc = "menu" => ctx = "menu"

\* Once finish_recovery has erased the BCB, it holds no arguments: neither in
\* the menu, nor in the main system.
Cleared ==
    /\ bcbC.command = "none" => ~bcbC.named
    /\ pc = "main" => bcbC.command = "none"
    /\ pc \in {"finish_unlink", "finish_sync", "menu", "sideload"} => BcbArgs(bcbC) = <<>>

\* The chip of such a device is not written from an SD card's image.
NoSdUpdate == sd # "update"

RestartInv == TypeOK /\ Written /\ OptionsFit /\ Armed /\ InMenu /\ Cleared /\ NoSdUpdate

\* A list that fits is stored as it is.
LEMMA StoredFits ==
    ASSUME NEW a, Len(a) <= BcbCap
    PROVE  Stored(a) = a
BY DEF Stored

\* On MTD, the block is erased for a message that is written without fail.
LEMMA SetBcbReliable ==
    ASSUME Reliable, NEW b, SetBcb(b)
    PROVE  bcbC' = b
BY DEF SetBcb, Reliable

LEMMA SetBcbErases ==
    ASSUME Reliable, NEW b, SetBcb(b)
    PROVE  bcb' \in Ruins
BY DEF SetBcb, Reliable

\* A cut in a rewrite leaves no arguments, and else the BCB as it was.
LEMMA PowerCutKeeps ==
    ASSUME Reliable, RestartInv, PowerCut
    PROVE  \/ UNCHANGED bcbC
           \/ /\ Rewriting /\ bcbC' \in Ruins /\ ~bcbC'.named
              /\ bcbC'.options = <<>> /\ BcbArgs(bcbC') = <<>>
BY RuinsType DEF Reliable, RestartInv, PowerCut, Written, Rewriting

\* get_args leaves the arguments it returns in the BCB: those it found there,
\* if there were any.
LEMMA GetArgsKeeps ==
    ASSUME Reliable, RestartInv, GetArgs
    PROVE  /\ bcbC'.command = "boot-recovery" /\ bcbC'.named
           /\ BcbArgs(bcbC') = args' /\ Len(bcbC'.options) <= BcbCap
           /\ BcbArgs(bcbC) # <<>> => args' = BcbArgs(bcbC)
<1>1. bcbC \in BcbType
  BY DEF RestartInv, TypeOK, StorageType
<1> DEFINE a == args'
<1>2. /\ a \in {BcbArgs(bcbC), udC.cmd, <<>>}
      /\ BcbArgs(bcbC) # <<>> => a = BcbArgs(bcbC)
      /\ SetBcb(Rearmed(bcbC, a))
  BY GetArgsTakes DEF Reliable
<1>3. Len(a) <= BcbCap
  <2>1. Len(bcbC.options) <= BcbCap /\ Len(udC.cmd) <= BcbCap
    BY DEF RestartInv, OptionsFit
  <2>2. Len(<<>>) <= BcbCap
    BY BcbCapAssumption
  <2>3. Len(BcbArgs(bcbC)) <= BcbCap
    BY <2>1, <2>2 DEF BcbArgs
  <2> QED
    BY <1>2, <2>1, <2>2, <2>3
<1>4. bcbC' = Rearmed(bcbC, a)
  BY <1>2, SetBcbReliable
<1>5. Stored(a) = a
  BY <1>3, StoredFits
<1>6. /\ bcbC'.command = "boot-recovery" /\ bcbC'.named = TRUE
      /\ bcbC'.options = a
  BY <1>1, <1>4, <1>5 DEF Rearmed, BcbType
<1> QED
  BY <1>2, <1>3, <1>4, <1>6 DEF BcbArgs

\* Only four operations change the BCB, and a cut while it is being rewritten.
LEMMA BcbStep ==
    ASSUME Written, NoSdUpdate, [Next]_vars
    PROVE  \/ UNCHANGED bcbC
           \/ \E p \in Packages : RequestByMisc(p)
           \/ GetArgs
           \/ FinishBcb
           \/ MenuApply /\ pc = "menu"
              /\ SetBcb([ZeroBcb EXCEPT !.command = "boot-recovery", !.named = TRUE])
           \/ PowerCut
BY DEF Written, NoSdUpdate, Next, MainSystem, Program, Menu, RequestByFile, EnterByHand,
    BootLoader, Dispatch, Erase, Mkfs, ResizeOem, OpenResult, MountPackage, Engine,
    Flash, SdFlash, Installed, WriteResult, SdUpdate, Decide, SdWait, FinishUnlink,
    FinishSync, Reboot, MenuReboot, MenuWipe, MenuApply, Sideload, ToggleText,
    ProgramBcb, WriteBackBcb, WriteBackUserdata, PowerCut, bcbVars, vars

\* The messages that these leave.
LEMMA BcbWritten ==
    ASSUME Reliable, RestartInv, [Next]_vars
    PROVE  \/ UNCHANGED bcbC
           \/ /\ bcbC'.command = "boot-recovery" /\ bcbC'.named
              /\ \/ GetArgs
                 \/ pc = "main" /\ pc' = "boot" /\ Len(bcbC'.options) <= BcbCap
                 \/ pc = "menu" /\ bcbC'.options = <<>> /\ pc' = "sideload"
           \/ /\ bcbC'.command = "none" /\ ~bcbC'.named
              /\ bcbC'.options = <<>> /\ pc = "finish_bcb" /\ pc' = "finish_unlink"
           \/ /\ PowerCut /\ Rewriting /\ bcbC' \in Ruins /\ ~bcbC'.named
              /\ bcbC'.options = <<>> /\ BcbArgs(bcbC') = <<>>
<1>1. ASSUME NEW p \in Packages, RequestByMisc(p)
      PROVE  /\ bcbC'.command = "boot-recovery" /\ bcbC'.named
             /\ pc = "main" /\ pc' = "boot" /\ Len(bcbC'.options) <= BcbCap
  <2>1. bcbC' = UpdateBcb(p)
    BY <1>1, SetBcbReliable DEF RequestByMisc, Reliable
  <2>2. Len(<<p>>) <= BcbCap
    BY BcbCapAssumption
  <2>3. bcbC'.command = "boot-recovery" /\ bcbC'.named = TRUE /\ bcbC'.options = <<p>>
    BY <2>1, Zenon DEF UpdateBcb
  <2>4. pc = "main" /\ pc' = "boot"
    BY <1>1 DEF RequestByMisc, Asks
  <2> QED
    BY <2>1, <2>2, <2>3, <2>4
<1>2. CASE FinishBcb
  <2>1. bcbC' = Erased(flag)
    BY <1>2, SetBcbReliable DEF FinishBcb
  <2> QED
    BY <1>2, <2>1 DEF FinishBcb, Erased, ZeroBcb
<1>3. ASSUME MenuApply, pc = "menu",
             SetBcb([ZeroBcb EXCEPT !.command = "boot-recovery", !.named = TRUE])
      PROVE  \/ UNCHANGED bcbC
             \/ /\ bcbC'.command = "boot-recovery" /\ bcbC'.named
                /\ bcbC'.options = <<>> /\ pc' = "sideload"
  BY <1>3, SetBcbReliable DEF MenuApply, ZeroBcb, bcbVars
<1>4. CASE GetArgs
  BY <1>4, GetArgsKeeps
<1> QED
  BY <1>1, <1>2, <1>3, <1>4, BcbStep, PowerCutKeeps DEF RestartInv, Reliable

LEMMA WrittenStep ==
    ASSUME Reliable, RestartInv, [Next]_vars
    PROVE  Written'
<1>1. CASE \E b : SetBcb(b)
  BY <1>1, SetBcbErases DEF Written
<1>2. CASE UNCHANGED bcbVars \/ bcb' = bcbC'
  BY <1>2 DEF RestartInv, Written, bcbVars
<1>3. (\E b : SetBcb(b)) \/ UNCHANGED bcbVars \/ bcb' = bcbC'
  BY DEF Reliable, RestartInv, NoSdUpdate, Next, MainSystem, Program, Menu, RequestByFile,
    RequestByMisc, EnterByHand, GetArgs, FinishBcb,
    BootLoader, Dispatch, Erase, Mkfs, ResizeOem, OpenResult, MountPackage, Engine,
    Flash, SdFlash, Installed, WriteResult, SdUpdate, Decide, SdWait, FinishUnlink,
    FinishSync, Reboot, MenuReboot, MenuWipe, MenuApply, Sideload, ToggleText,
    ProgramBcb, WriteBackBcb, WriteBackUserdata, PowerCut, vars
<1> QED
  BY <1>1, <1>2, <1>3

\* A volume's command file comes from the main system, or is empty.
LEMMA OptionsFitStep ==
    ASSUME Reliable, RestartInv, [Next]_vars
    PROVE  OptionsFit'
<1>0. /\ Len(bcbC.options) <= BcbCap
      /\ Len(ud.cmd) <= BcbCap /\ Len(udC.cmd) <= BcbCap
      /\ ud \in VolumeType /\ udC \in VolumeType
  BY DEF RestartInv, OptionsFit, TypeOK, StorageType
<1>1. Len(<<>>) <= BcbCap
  BY BcbCapAssumption
<1>2. Len(bcbC'.options) <= BcbCap
  BY <1>0, <1>1, BcbWritten, GetArgsKeeps
<1>3. Len(ud'.cmd) <= BcbCap /\ Len(udC'.cmd) <= BcbCap
  <2>1. ASSUME NEW a \in Commands, RequestByFile(a)
        PROVE  ud'.cmd = a /\ udC'.cmd = a
    BY <1>0, <2>1, InUseType DEF RequestByFile, VolumeType
  <2>2. ASSUME NEW p \in Packages, RequestByMisc(p)
        PROVE  ud'.cmd = udC.cmd /\ udC'.cmd = udC.cmd
    BY <1>0, <2>2 DEF RequestByMisc, InUse, VolumeType
  <2>3. CASE Erase \/ Mkfs
    <3>1. \A fs : Volume(fs).cmd = <<>>
      BY DEF Volume
    <3>2. /\ ud' \in {ud, udC, Volume("fresh")}
          /\ udC' \in {udC, Volume("partial"), Volume("fresh")}
      BY <2>3 DEF Erase, Mkfs, udVars
    <3> QED
      BY <1>0, <1>1, <3>1, <3>2
  <2>4. CASE OpenResult \/ Installed \/ WriteResult
    BY <1>0, <2>4 DEF OpenResult, Installed, WriteResult, VolumeType
  <2>5. CASE FinishUnlink
    BY <1>0, <1>1, <2>5 DEF FinishUnlink, FileStays, Unlinked, VolumeType
  <2>6. CASE FinishSync \/ Reboot \/ WriteBackUserdata \/ PowerCut
    BY <1>0, <2>6 DEF FinishSync, Reboot, WriteBackUserdata, PowerCut
  <2>7. CASE UNCHANGED udVars
    BY <1>0, <2>7 DEF udVars
  <2>8. \/ \E a \in Commands : RequestByFile(a)
        \/ \E p \in Packages : RequestByMisc(p)
        \/ Erase \/ Mkfs \/ OpenResult \/ Installed \/ WriteResult \/ FinishUnlink
        \/ FinishSync \/ Reboot \/ WriteBackUserdata \/ PowerCut \/ UNCHANGED udVars
    BY DEF Next, MainSystem, Program, Menu, EnterByHand, BootLoader, GetArgs,
        Dispatch, ResizeOem, MountPackage, Engine, Flash, SdFlash, SdUpdate, Decide, SdWait,
        FinishBcb, MenuReboot, MenuWipe, MenuApply, Sideload, ToggleText,
        ProgramBcb, WriteBackBcb, vars
  <2> QED
    BY <1>0, <2>1, <2>2, <2>3, <2>4, <2>5, <2>6, <2>7, <2>8 DEF Reliable
<1> QED
  BY <1>2, <1>3 DEF OptionsFit

\* The task of main() is entered through get_args, unless booted from SD, and
\* works on one list of arguments under one BCB.
LEMMA TaskStep ==
    ASSUME RestartInv, [Next]_vars,
           pc' \in TaskPcs, ctx' = "main", sd' = "none"
    PROVE  \/ GetArgs /\ pc' = "dispatch"
           \/ /\ pc \in TaskPcs /\ ctx = "main" /\ sd = "none"
              /\ UNCHANGED <<bcbC, args>>
              /\ pc' = "flash" => pc = "flash" \/ Engine
<1>1. Written /\ InMenu
  BY DEF RestartInv
<1>2. ~(\E a \in Commands : RequestByFile(a)) /\ ~(\E p \in Packages : RequestByMisc(p))
      /\ ~EnterByHand
  BY DEF RequestByFile, RequestByMisc, EnterByHand, Asks, TaskPcs
<1>3. CASE BootLoader
  BY <1>3 DEF BootLoader, TaskPcs
<1>4. CASE GetArgs
  BY <1>4 DEF GetArgs
<1>5. CASE Dispatch \/ ResizeOem \/ OpenResult \/ MountPackage \/ Engine
           \/ Installed \/ WriteResult \/ SdUpdate \/ Decide
  BY <1>5
  DEF Dispatch, ResizeOem, OpenResult, MountPackage, Engine, Installed, WriteResult,
      SdUpdate, Decide, TaskPcs, bcbVars, sdVars
<1>6. CASE Erase \/ Mkfs
  BY <1>6 DEF Erase, Mkfs, AfterErase, TaskPcs, bcbVars, sdVars
<1>7. CASE Flash
  BY <1>7 DEF Flash, TaskPcs, bcbVars, sdVars
<1>8. ~SdWait /\ ~FinishBcb /\ ~FinishUnlink /\ ~FinishSync /\ ~Reboot /\ ~PowerCut
  BY DEF SdWait, FinishBcb, FinishUnlink, FinishSync, Reboot, PowerCut, TaskPcs
<1>9. ~MenuReboot /\ ~MenuWipe /\ ~MenuApply /\ ~Sideload
  BY <1>1 DEF MenuReboot, MenuWipe, MenuApply, Sideload, InMenu, TaskPcs, runVars
<1>10. CASE ToggleText \/ WriteBackUserdata \/ UNCHANGED vars
  BY <1>10 DEF ToggleText, WriteBackUserdata, vars, bcbVars, runVars, sdVars
<1>11. CASE ProgramBcb \/ WriteBackBcb
  BY <1>11 DEF ProgramBcb, WriteBackBcb, runVars, sdVars
<1>12. ~SdFlash
  BY DEF SdFlash, RestartInv, NoSdUpdate
<1> QED
  BY <1>2, <1>3, <1>4, <1>5, <1>6, <1>7, <1>8, <1>9, <1>10,
     <1>11, <1>12
  DEF Next, MainSystem, Program, Menu

LEMMA ArmedStep ==
    ASSUME Reliable, RestartInv, [Next]_vars
    PROVE  Armed'
<1> SUFFICES ASSUME pc' \in TaskPcs, ctx' = "main", sd' = "none"
             PROVE  /\ bcbC'.command = "boot-recovery"
                    /\ BcbArgs(bcbC') = args'
                    /\ pc' = "flash" => bcbC'.need
  BY DEF Armed
<1>1. CASE GetArgs /\ pc' = "dispatch"
  BY <1>1, GetArgsKeeps
<1>2. CASE /\ pc \in TaskPcs /\ ctx = "main" /\ sd = "none"
           /\ UNCHANGED <<bcbC, args>>
           /\ pc' = "flash" => pc = "flash" \/ Engine
  <2>1. bcbC.command = "boot-recovery" /\ BcbArgs(bcbC) = args /\ (pc = "flash" => bcbC.need)
    BY <1>2 DEF RestartInv, Armed
  <2>2. ASSUME Engine, pc' = "flash" PROVE bcbC.need
    BY <1>2, <2>2 DEF Engine, Reliable
  <2> QED
    BY <1>2, <2>1, <2>2
<1> QED
  BY <1>1, <1>2, TaskStep

LEMMA InMenuStep ==
    ASSUME RestartInv, [Next]_vars
    PROVE  InMenu'
<1> SUFFICES ASSUME pc' = "menu" PROVE ctx' = "menu"
  BY DEF InMenu
<1>1. FinishSync \/ UNCHANGED <<pc, ctx>>
  BY DEF Next, MainSystem, Program, Menu, RequestByFile, RequestByMisc, Asks,
      EnterByHand, BootLoader, GetArgs, Dispatch, Erase, Mkfs, AfterErase, ResizeOem,
      OpenResult, MountPackage, Engine, Flash, SdFlash, Installed, WriteResult, SdUpdate,
      Decide, SdWait, FinishBcb, FinishUnlink, Reboot, MenuReboot, MenuWipe,
      MenuApply, Sideload, ToggleText, ProgramBcb, WriteBackBcb, WriteBackUserdata, PowerCut,
      runVars, vars
<1> QED
  BY <1>1 DEF FinishSync, runVars, RestartInv, InMenu

\* The places after finish_recovery has erased the BCB are reached from there.
LEMMA AfterFinish ==
    ASSUME [Next]_vars, pc' \in {"finish_unlink", "finish_sync", "menu", "sideload"}
    PROVE  \/ pc \in {"finish_unlink", "finish_sync", "menu", "sideload"}
           \/ FinishBcb
BY DEF Next, MainSystem, Program, Menu, RequestByFile, RequestByMisc, Asks,
    EnterByHand, BootLoader, GetArgs, Dispatch, Erase, Mkfs, AfterErase, ResizeOem,
    OpenResult, MountPackage, Engine, Flash, SdFlash, Installed, WriteResult, SdUpdate,
    Decide, SdWait, FinishUnlink, FinishSync, Reboot, MenuReboot, MenuWipe,
    MenuApply, Sideload, ToggleText, ProgramBcb, WriteBackBcb, WriteBackUserdata, PowerCut, vars

\* The main system is booted only without a command in the BCB.
LEMMA IntoMain ==
    ASSUME RestartInv, [Next]_vars, pc' = "main"
    PROVE  UNCHANGED bcbC /\ bcbC.command = "none"
<1>1. BootLoader \/ (pc = "main" /\ UNCHANGED bcbC)
  BY DEF RestartInv, Written, NoSdUpdate, Next, MainSystem, Program, Menu, RequestByFile,
      RequestByMisc, Asks, EnterByHand, GetArgs, Dispatch, Erase, Mkfs, AfterErase,
      ResizeOem, OpenResult, MountPackage, Engine, Flash, SdFlash, Installed, WriteResult,
      SdUpdate, Decide, SdWait, FinishBcb, FinishUnlink, FinishSync, Reboot,
      MenuReboot, MenuWipe, MenuApply, Sideload, ToggleText, ProgramBcb, WriteBackBcb,
      WriteBackUserdata, PowerCut, bcbVars, vars
<1>2. CASE BootLoader
  <2>1. bcbC.command # "boot-recovery" /\ UNCHANGED bcbC
    BY <1>2 DEF BootLoader, bcbVars
  <2> QED
    BY <2>1 DEF RestartInv, Written, TypeOK, StorageType, BcbType
<1> QED
  BY <1>1, <1>2 DEF RestartInv, Cleared

LEMMA ClearedStep ==
    ASSUME Reliable, RestartInv, [Next]_vars
    PROVE  Cleared'
<1>1. bcbC'.command = "none" => ~bcbC'.named
  BY BcbWritten DEF RestartInv, Cleared
<1>2. pc' = "main" => bcbC'.command = "none"
  BY IntoMain
<1>3. ASSUME pc' \in {"finish_unlink", "finish_sync", "menu", "sideload"}
      PROVE  BcbArgs(bcbC') = <<>>
  <2>1. CASE GetArgs
    BY <1>3, <2>1 DEF GetArgs
  <2>2. CASE bcbC'.options = <<>> \/ ~bcbC'.named
    BY <2>2 DEF BcbArgs
  <2>3. CASE UNCHANGED bcbC
    <3>1. CASE pc \in {"finish_unlink", "finish_sync", "menu", "sideload"}
      BY <2>3, <3>1 DEF RestartInv, Cleared
    <3>2. CASE FinishBcb
      BY <3>2, SetBcbReliable DEF FinishBcb, Erased, ZeroBcb, BcbArgs
    <3> QED
      BY <1>3, <3>1, <3>2, AfterFinish
  <2> QED
    BY <1>3, <2>1, <2>2, <2>3, BcbWritten
<1> QED
  BY <1>1, <1>2, <1>3 DEF Cleared

LEMMA NoSdUpdateStep ==
    ASSUME Reliable, NoSdUpdate, [Next]_vars
    PROVE  NoSdUpdate'
<1>1. "update" \notin SdCards
  BY SdUpdateAssumption DEF Reliable
<1>2. CASE BootLoader
  BY <1>1, <1>2 DEF BootLoader, NoSdUpdate
<1>3. CASE SdWait \/ PowerCut \/ SdUpdate
  BY <1>3 DEF SdWait, PowerCut, SdUpdate, NoSdUpdate
<1>4. BootLoader \/ SdWait \/ PowerCut \/ SdUpdate \/ UNCHANGED sdVars
  BY DEF Next, MainSystem, Program, Menu, RequestByFile, RequestByMisc, Asks,
      EnterByHand, GetArgs, Dispatch, Erase, Mkfs, ResizeOem, OpenResult,
      MountPackage, Engine, Flash, SdFlash, Installed, WriteResult, Decide,
      FinishBcb, FinishUnlink, FinishSync, Reboot, MenuReboot, MenuWipe, MenuApply,
      Sideload, ToggleText, ProgramBcb, WriteBackBcb, WriteBackUserdata, vars
<1> QED
  BY <1>2, <1>3, <1>4 DEF sdVars, NoSdUpdate

LEMMA RestartInit ==
    ASSUME Reliable, Init
    PROVE  RestartInv
<1>1. Len(<<>>) <= BcbCap
  BY BcbCapAssumption
<1>2. TypeOK
  BY InitType
<1>3. OptionsFit
  BY <1>1 DEF Init, OptionsFit, ZeroBcb, Volume
<1>4. Written /\ InMenu /\ Cleared /\ NoSdUpdate
  BY DEF Init, Written, InMenu, Cleared, NoSdUpdate, ZeroBcb
<1>5. Armed
  BY DEF Init, Armed, TaskPcs
<1> QED
  BY <1>2, <1>3, <1>4, <1>5 DEF RestartInv

LEMMA RestartStep ==
    ASSUME Reliable, RestartInv, [Next]_vars
    PROVE  RestartInv'
<1>1. TypeOK'
  BY StorageStep, RunStep, DeviceStep DEF TypeOK, RestartInv
<1> QED
  BY <1>1, WrittenStep, OptionsFitStep, ArmedStep, InMenuStep, ClearedStep,
     NoSdUpdateStep
  DEF RestartInv

\* recovery.c: "after this, rebooting will restart the erase".  From the end
\* of get_args to finish_recovery, whatever the order of power cuts, failures
\* and SD cards, the medium leads back to recovery with this run's arguments.
THEOREM Restarts ==
    ASSUME Reliable
    PROVE  Spec => []RestartsSameCommand
<1>1. Init => RestartInv
  BY RestartInit
<1>2. RestartInv /\ [Next]_vars => RestartInv'
  BY RestartStep
<1>3. RestartInv => RestartsSameCommand
  BY DEF Reliable, Rewriting, RestartInv, Armed, RestartsSameCommand
<1> QED
  BY <1>1, <1>2, <1>3, PTL DEF Spec

\* A command in the BCB is only taken out by finish_recovery, or by a power
\* cut while the block is being rewritten: no restart, no menu choice, no new
\* request of the main system and no other cut loses it.
THEOREM NothingElseForgets ==
    ASSUME Reliable
    PROVE  Spec => OnlyFinishForgets
<1>1. Init => RestartInv
  BY RestartInit
<1>2. RestartInv /\ [Next]_vars => RestartInv'
  BY RestartStep
<1> DEFINE Forgets == /\ CommandJob(BcbArgs(Lasting)) # "none"
                      /\ BcbArgs(Lasting') # BcbArgs(Lasting)
           Allowed == \/ pc \in {"finish_bcb", "finish_unlink", "finish_sync"}
                      \/ Rewriting /\ cuts' # cuts
<1>3. ASSUME RestartInv, [Next]_vars, Forgets
      PROVE  Allowed
  <2>0. Lasting = bcbC /\ Lasting' = bcbC'
    BY DEF Lasting, Reliable
  <2>1. CommandJob(BcbArgs(bcbC)) # "none" /\ BcbArgs(bcbC') # BcbArgs(bcbC)
    BY <1>3, <2>0
  <2>2. BcbArgs(bcbC) # <<>>
    BY <2>1 DEF CommandJob, ToSet
  <2>3. pc # "main" /\ pc # "menu"
    BY <1>3, <2>2 DEF RestartInv, Cleared, BcbArgs
  <2>4. ~GetArgs
    BY <1>3, <2>1, <2>2, GetArgsKeeps
  <2>5. PowerCut => cuts' # cuts
    BY <1>3 DEF PowerCut, RestartInv, TypeOK, DeviceType
  <2> QED
    BY <1>3, <2>1, <2>3, <2>4, <2>5, BcbWritten
<1>4. RestartInv /\ [Next]_vars => [Forgets => Allowed]_vars
  BY <1>3
<1> QED
  BY <1>1, <1>2, <1>4, PTL DEF Spec, OnlyFinishForgets

=============================================================================
