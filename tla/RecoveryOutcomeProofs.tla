----------------------- MODULE RecoveryOutcomeProofs -----------------------
(***************************************************************************)
(* Theorems about what becomes of a command: that damage is reported, that *)
(* a success is true, that a command is released when it is done and not   *)
(* before, and that Recovery implements AcceptedCommand.                   *)
(*                                                                         *)
(* They are about a device as in RecoveryProofs (misc is MTD, read and     *)
(* written without error, and the commands fit in the BCB) whose format    *)
(* and mount commands report what they did, and whose updates are asked    *)
(* for through the BCB: an update asked for by the command file carries    *)
(* no partition mask, and is reported as done without a partition written. *)
(***************************************************************************)
EXTENDS RecoveryProofs

Honest ==
    /\ Reliable
    /\ "mkfs" \notin Faults /\ "mount" \notin Faults
    /\ \A a \in Commands : CommandJob(a) # "update"

-----------------------------------------------------------------------------
(* The inductive invariant.                                                *)

\* The job that a restart would go back to, once the BCB is written.
BcbJob == CommandJob(BcbArgs(bcbC))

\* How main() gets to each place: an erase and an update are only entered with
\* a job of theirs, from a run that was not booted from an SD card.
Places ==
    /\ ctx = "menu" => pc \in {"erase", "mkfs", "finish_bcb", "finish_unlink",
                               "finish_sync", "menu", "sideload"}
    /\ pc \in {"main", "boot", "get_args", "dispatch"} => status = "success"
    /\ pc = "get_args" => sd = "none"
    /\ pc = "dispatch" /\ sd # "none" => args = <<>>
    /\ pc # "sdupdate"
    /\ pc = "sideload" => ctx = "menu"
    /\ pc \in {"erase", "mkfs"} /\ ctx = "main" =>
         sd = "none" /\ CommandJob(args) \in EraseJobs /\ status = "success"
    /\ pc = "resize_oem" => sd = "none" /\ CommandJob(args) = "wipe_all"
    /\ pc \in {"update", "mount_pkg", "engine", "flash", "installed"} =>
         /\ sd = "none" /\ CommandJob(args) = "update"
         /\ status = "success" /\ flag = "false"
    /\ pc = "write_result" => sd = "none" /\ CommandJob(args) = "update"
    /\ pc = "decide" /\ status = "success" => sd = "none"

\* The menu has been on the screen before a failed run ends.
Prompted ==
    /\ ctx = "menu" => told
    /\ pc \in {"sd_wait", "finish_bcb"} /\ status = "error" => told

\* What is half done belongs to the command in the BCB, which a restart would
\* begin again, or the user knows of it, or the command was lost on the way.
Owned ==
    /\ ud.fs = "partial" \/ udC.fs = "partial" => told \/ torn \/ BcbJob \in EraseJobs
    /\ fw = "partial" => told \/ torn \/ BcbJob = "update"
    /\ BcbJob = "update" => bcbC.need /\ ud.fs # "partial" /\ udC.fs # "partial"
    /\ BcbJob \in EraseJobs => pc = "mkfs" \/ ud.fs = udC.fs
    /\ ctx = "menu" /\ pc \in {"erase", "mkfs"} => BcbJob = "none"

\* A command file is only there on a volume in use.
Files ==
    /\ pc \in {"main", "boot", "get_args", "dispatch"} => ud = udC
    /\ ud.cmd # <<>> => ud.fs = "user" /\ CommandJob(ud.cmd) # "update"
    /\ udC.cmd # <<>> => udC.fs = "user" /\ CommandJob(udC.cmd) # "update"
    /\ udC.pkg => ud.pkg
    /\ pc = "mkfs" => udC.fs = "partial"

\* The effect of a job, on the medium and as the kernel sees it.
Complete(j) ==
    IF j \in EraseJobs THEN ud.fs = "fresh" /\ udC.fs = "fresh" ELSE fw = "new"

\* A run that has not failed has done its job when it comes to its end.
Worked ==
    /\ pc \in {"resize_oem", "decide", "sd_wait", "finish_bcb"} /\ status = "success" =>
         BcbJob = "none" \/ Complete(BcbJob)
    /\ pc = "installed" => fw = "new"
    /\ pc = "write_result" /\ (status = "success" \/ flag = "package") => fw = "new"

\* A result file that says "success" was written when the firmware was new.
Results ==
    ud.rst = "success" \/ udC.rst = "success" => fw # "old" \/ told

\* A command is written by a request or by get_args, and the program waits for
\* it there.
Rewrites == Rewriting /\ BcbJob # "none" => pc \in {"boot", "dispatch"}

OutcomeInv ==
    /\ RestartInv /\ Places /\ Prompted /\ Owned /\ Files /\ Worked /\ Results
    /\ Rewrites

-----------------------------------------------------------------------------
(* Lemmas about jobs.                                                      *)

\* The three kinds of job are different.
LEMMA JobKinds ==
    "update" \notin EraseJobs /\ "none" \notin EraseJobs /\ "wipe_all" \in EraseJobs
BY DEF EraseJobs

\* From get_args to finish_recovery, main() works on the job in the BCB.
LEMMA WorksOnBcbJob ==
    ASSUME OutcomeInv, pc \in TaskPcs, ctx = "main", sd = "none"
    PROVE  BcbJob = CommandJob(args)
BY DEF OutcomeInv, RestartInv, Armed, BcbJob

\* The job in the BCB comes from a request, is copied there by get_args, and
\* goes away in finish_recovery, or by a cut while the block is rewritten.
LEMMA JobStep ==
    ASSUME Honest, OutcomeInv, [Next]_vars
    PROVE  \/ UNCHANGED bcbC /\ BcbJob' = BcbJob
           \/ /\ \E p \in Packages : RequestByMisc(p)
              /\ BcbJob = "none" /\ BcbJob' = "update" /\ bcbC'.need
           \/ /\ GetArgs /\ bcbC'.need = bcbC.need
              /\ \/ BcbJob' = BcbJob
                 \/ BcbJob = "none" /\ udC.cmd # <<>> /\ BcbJob' = CommandJob(udC.cmd)
           \/ FinishBcb /\ BcbJob' = "none"
           \/ MenuApply /\ BcbJob = "none" /\ BcbJob' = "none"
           \/ PowerCut /\ Rewriting /\ BcbJob' = "none"
<1>0. Reliable /\ RestartInv
  BY DEF Honest, OutcomeInv
<1>1. CASE UNCHANGED bcbC
  BY <1>1 DEF BcbJob
<1>2. ASSUME NEW p \in Packages, RequestByMisc(p)
      PROVE  BcbJob = "none" /\ BcbJob' = "update" /\ bcbC'.need
  <2>1. bcbC' = UpdateBcb(p)
    BY <1>0, <1>2, SetBcbReliable DEF RequestByMisc, Reliable
  <2>2. bcbC'.named = TRUE /\ bcbC'.options = <<p>> /\ bcbC'.need = TRUE
    BY <2>1, Zenon DEF UpdateBcb
  <2>3. BcbArgs(bcbC') = <<p>>
    BY <2>2 DEF BcbArgs
  <2>4. CommandJob(<<p>>) = "update"
    BY PackageJob
  <2>5. BcbArgs(bcbC) = <<>>
    BY <1>0, <1>2 DEF RequestByMisc, Asks, RestartInv, Cleared, BcbArgs
  <2> QED
    BY <2>2, <2>3, <2>4, <2>5, NoArgsNoJob DEF BcbJob
<1>3. CASE GetArgs
  <2>1. /\ args' \in {BcbArgs(bcbC), udC.cmd, <<>>}
        /\ BcbArgs(bcbC) # <<>> => args' = BcbArgs(bcbC)
        /\ SetBcb(Rearmed(bcbC, args'))
    BY <1>0, <1>3, GetArgsTakes DEF Reliable
  <2>2. bcbC' = Rearmed(bcbC, args')
    BY <1>0, <2>1, SetBcbReliable
  <2>3. bcbC'.need = bcbC.need
    BY <1>0, <2>2 DEF Rearmed, RestartInv, TypeOK, StorageType, BcbType
  <2>4. BcbArgs(bcbC') = args'
    BY <1>0, <1>3, GetArgsKeeps
  <2> QED
    BY <1>3, <2>1, <2>3, <2>4, NoArgsNoJob DEF BcbJob
<1>4. CASE FinishBcb
  <2>1. bcbC' = Erased(flag)
    BY <1>0, <1>4, SetBcbReliable DEF FinishBcb
  <2>2. BcbArgs(bcbC') = <<>>
    BY <2>1 DEF Erased, ZeroBcb, BcbArgs
  <2> QED
    BY <1>4, <2>2, NoArgsNoJob DEF BcbJob
<1>5. ASSUME MenuApply, pc = "menu",
             SetBcb([ZeroBcb EXCEPT !.command = "boot-recovery", !.named = TRUE])
      PROVE  BcbJob = "none" /\ BcbJob' = "none"
  <2>1. bcbC' = [ZeroBcb EXCEPT !.command = "boot-recovery", !.named = TRUE]
    BY <1>0, <1>5, SetBcbReliable
  <2>2. BcbArgs(bcbC') = <<>>
    BY <2>1 DEF ZeroBcb, BcbArgs
  <2>3. BcbArgs(bcbC) = <<>>
    BY <1>0, <1>5 DEF RestartInv, Cleared
  <2> QED
    BY <2>2, <2>3, NoArgsNoJob DEF BcbJob
<1>6. Written /\ NoSdUpdate
  BY <1>0 DEF RestartInv
<1>7. CASE PowerCut
  BY <1>0, <1>1, <1>7, PowerCutKeeps, NoArgsNoJob DEF BcbJob
<1> QED
  BY <1>0, <1>1, <1>2, <1>3, <1>4, <1>5, <1>6, <1>7, BcbStep

-----------------------------------------------------------------------------
(* Each part of the invariant is kept by every step.                       *)

\* The variables that Places is about, as values of their types.
LEMMA ControlTypes ==
    ASSUME OutcomeInv
    PROVE  /\ ctx \in {"main", "menu"} /\ status \in {"success", "error"}
           /\ sd \in {"none", "boot"} /\ Places
           /\ (pc = "menu" => ctx = "menu")
BY DEF OutcomeInv, RestartInv, TypeOK, RunType, DeviceType, NoSdUpdate, SdKinds, InMenu

LEMMA PlacesStep ==
    ASSUME Honest, OutcomeInv, [Next]_vars
    PROVE  Places'
<1>0. /\ ctx \in {"main", "menu"} /\ status \in {"success", "error"}
      /\ sd \in {"none", "boot"} /\ Places
      /\ (pc = "menu" => ctx = "menu")
  BY ControlTypes
<1>1. CASE MainSystem
  BY <1>0, <1>1
  DEF MainSystem, RequestByFile, RequestByMisc, Asks, EnterByHand, runVars, sdVars, Places
<1>2. CASE BootLoader
  <2>1. /\ ctx' = "main" /\ args' = <<>> /\ status' = "success"
    BY <1>2 DEF BootLoader, SetRun, Idle
  <2>2. \/ pc' = "main"
        \/ pc' = "get_args" /\ sd' = "none"
        \/ pc' = "dispatch"
    BY <1>2 DEF BootLoader
  <2> QED
    BY <2>1, <2>2 DEF Places
<1>3. CASE GetArgs
  BY <1>0, <1>3 DEF GetArgs, sdVars, Places
<1>4. CASE Dispatch
  <2>1. Job = CommandJob(args)
    BY <1>0 DEF Job
  <2>2. sd = "none" \/ CommandJob(args) = "none"
    BY <1>0, <1>4, NoArgsNoJob DEF Dispatch, Places
  <2>3. Job # "sdupdate"
    BY <2>1, CommandJobType DEF JobNames, EraseJobs
  <2>4. ctx = "main"
    BY <1>0, <1>4 DEF Dispatch, Places
  <2>5. UNCHANGED <<ctx, args, sd>> /\ flag' = "false"
    BY <1>4 DEF Dispatch, sdVars
  <2>6. \/ pc' = "erase" /\ Job \in EraseJobs /\ UNCHANGED status
        \/ pc' = "decide" /\ status' = "error"
        \/ pc' = "update" /\ Job = "update" /\ UNCHANGED status
    BY <1>4, <2>3 DEF Dispatch
  <2>7. status = "success"
    BY <1>0, <1>4 DEF Dispatch, Places
  <2> QED
    BY <2>1, <2>2, <2>4, <2>5, <2>6, <2>7, JobKinds DEF Places
<1>5. CASE Erase \/ Mkfs
  <2>1. CASE ctx = "menu"
    <3>1. \/ pc' = "mkfs" /\ UNCHANGED <<ctx, status>>
          \/ pc' = "finish_bcb" /\ UNCHANGED <<ctx, status>>
          \/ pc' = "sd_wait" /\ ctx' = "main" /\ UNCHANGED status
      BY <1>5, <2>1 DEF Erase, Mkfs, AfterErase
    <3> QED
      BY <2>1, <3>1 DEF Places
  <2>2. CASE ctx = "main"
    <3>1. Job = CommandJob(args)
      BY <1>0 DEF Job
    <3>2. /\ sd = "none" /\ CommandJob(args) \in EraseJobs /\ status = "success"
      BY <1>0, <1>5, <2>2 DEF Erase, Mkfs, Places
    <3>3. /\ UNCHANGED <<ctx, args, sd>>
          /\ \/ pc' = "mkfs" /\ UNCHANGED status
             \/ pc' = "resize_oem" /\ Job = "wipe_all"
             \/ pc' = "decide"
      BY <1>5, <2>2 DEF Erase, Mkfs, AfterErase, sdVars
    <3> QED
      BY <2>2, <3>1, <3>2, <3>3 DEF Places
  <2> QED
    BY <1>0, <2>1, <2>2
<1>6. CASE ResizeOem
  BY <1>0, <1>6 DEF ResizeOem, sdVars, Places
<1>7. CASE OpenResult \/ MountPackage \/ Engine \/ Flash \/ Installed
  BY <1>0, <1>7
  DEF OpenResult, MountPackage, Engine, Flash, Installed, sdVars, Places
<1>8. CASE WriteResult
  BY <1>0, <1>8 DEF WriteResult, sdVars, Places
<1>9. ~SdFlash /\ ~SdUpdate
  BY <1>0 DEF SdFlash, SdUpdate, Places
<1>10. CASE Decide \/ SdWait
  BY <1>0, <1>10 DEF Decide, SdWait, runVars, Places
<1>11. CASE FinishBcb \/ FinishUnlink \/ FinishSync
  BY <1>0, <1>11 DEF FinishBcb, FinishUnlink, FinishSync, runVars, Places
<1>12. CASE Reboot \/ PowerCut
  BY <1>12, IdleType DEF Reboot, PowerCut, Places
<1>13. CASE Sideload \/ Menu
  BY <1>0, <1>13
  DEF Sideload, Menu, MenuReboot, MenuWipe, MenuApply, runVars, Places
<1>14. CASE ToggleText \/ ProgramBcb \/ WriteBackBcb \/ WriteBackUserdata \/ UNCHANGED vars
  <2>1. UNCHANGED <<pc, ctx, args, status, flag, sd>>
    BY <1>14
    DEF ToggleText, ProgramBcb, WriteBackBcb, WriteBackUserdata, vars, runVars, sdVars
  <2> QED
    BY <1>0, <2>1 DEF Places
<1> QED
  BY <1>1, <1>2, <1>3, <1>4, <1>5, <1>6, <1>7, <1>8, <1>9, <1>10, <1>11, <1>12,
     <1>13, <1>14
  DEF Next, Program

LEMMA PromptedStep ==
    ASSUME OutcomeInv, [Next]_vars
    PROVE  Prompted'
<1>0. /\ ctx \in {"main", "menu"} /\ status \in {"success", "error"}
      /\ Places /\ Prompted
      /\ (pc = "menu" => ctx = "menu")
  BY ControlTypes DEF OutcomeInv
<1>1. CASE MainSystem
  BY <1>0, <1>1
  DEF MainSystem, RequestByFile, RequestByMisc, Asks, EnterByHand, runVars, Places,
      Prompted
<1>2. CASE BootLoader \/ Reboot \/ PowerCut
  <2>1. ctx' = "main" /\ pc' \notin {"sd_wait", "finish_bcb"}
    BY <1>2 DEF BootLoader, Reboot, PowerCut, SetRun, Idle
  <2> QED
    BY <2>1 DEF Prompted
<1>3. CASE GetArgs \/ Dispatch \/ ResizeOem \/ OpenResult \/ MountPackage \/ Engine
           \/ Flash \/ SdFlash \/ Installed \/ WriteResult \/ SdUpdate
  <2>1. UNCHANGED <<ctx, told>> /\ pc' \notin {"sd_wait", "finish_bcb"}
    BY <1>3
    DEF GetArgs, Dispatch, ResizeOem, OpenResult, MountPackage, Engine, Flash, SdFlash,
        Installed, WriteResult, SdUpdate, ghosts
  <2> QED
    BY <1>0, <2>1 DEF Prompted
<1>4. CASE Erase \/ Mkfs
  BY <1>0, <1>4 DEF Erase, Mkfs, AfterErase, ghosts, Prompted
<1>5. CASE Decide
  BY <1>0, <1>5 DEF Decide, Prompts, Prompted
<1>6. CASE SdWait
  BY <1>0, <1>6 DEF SdWait, runVars, ghosts, Prompted
<1>7. CASE FinishBcb \/ FinishUnlink \/ FinishSync
  BY <1>0, <1>7 DEF FinishBcb, FinishUnlink, FinishSync, runVars, ghosts, Prompted
<1>8. CASE Sideload
  BY <1>0, <1>8 DEF Sideload, ghosts, Places, Prompted
<1>9. CASE Menu
  BY <1>0, <1>9 DEF Menu, MenuReboot, MenuWipe, MenuApply, runVars, ghosts, Prompted
<1>10. CASE ToggleText \/ ProgramBcb \/ WriteBackBcb \/ WriteBackUserdata \/ UNCHANGED vars
  BY <1>0, <1>10
  DEF ToggleText, ProgramBcb, WriteBackBcb, WriteBackUserdata, vars, runVars, ghosts, Prompted
<1> QED
  BY <1>1, <1>2, <1>3, <1>4, <1>5, <1>6, <1>7, <1>8, <1>9, <1>10 DEF Next, Program

\* The places where the volume and the files on it change.
LEMMA VolumeStep ==
    ASSUME [Next]_vars
    PROVE  \/ \E a \in Commands : RequestByFile(a)
           \/ \E p \in Packages : RequestByMisc(p)
           \/ Erase \/ Mkfs \/ OpenResult \/ Installed \/ WriteResult \/ FinishUnlink
           \/ FinishSync \/ Reboot \/ WriteBackUserdata \/ PowerCut
           \/ UNCHANGED <<ud, udC>>
BY DEF Next, MainSystem, Program, Menu, EnterByHand, BootLoader, GetArgs, Dispatch,
    ResizeOem, MountPackage, Engine, Flash, SdFlash, SdUpdate, Decide, SdWait, FinishBcb,
    MenuReboot, MenuWipe, MenuApply, Sideload, ToggleText, ProgramBcb, WriteBackBcb, vars, udVars

\* A volume in use, and what a request writes on it.
LEMMA InUseIs ==
    ASSUME NEW u \in VolumeType, NEW a
    PROVE  /\ InUse(u, a).fs = "user" /\ InUse(u, a).cmd = u.cmd
           /\ InUse(u, a).rst = "none"
           /\ [InUse(u, a) EXCEPT !.cmd = a].fs = "user"
           /\ [InUse(u, a) EXCEPT !.cmd = a].cmd = a
           /\ [InUse(u, a) EXCEPT !.cmd = a].rst = "none"
BY DEF InUse, VolumeType

\* The firmware is changed by the engine and the child, by a new request and
\* by nothing else.
LEMMA FirmwareStep ==
    ASSUME Honest, OutcomeInv, [Next]_vars
    PROVE  \/ UNCHANGED fw
           \/ \E a \in Commands : RequestByFile(a)
           \/ \E p \in Packages : RequestByMisc(p)
           \/ Engine /\ fw' = "partial"
           \/ Flash /\ fw' = "new"
<1>1. ~SdFlash
  BY ControlTypes DEF SdFlash
<1>2. ~(BootLoader /\ fw' # fw)
  <2>1. "update" \notin SdCards
    BY SdUpdateAssumption DEF Honest, Reliable
  <2> QED
    BY <2>1 DEF BootLoader
<1> QED
  BY <1>1, <1>2
  DEF Next, MainSystem, Program, Menu, EnterByHand, BootLoader, GetArgs, Dispatch, Erase,
      Mkfs, ResizeOem, OpenResult, MountPackage, Engine, Flash, Installed, WriteResult,
      SdUpdate, Decide, SdWait, FinishBcb, FinishUnlink, FinishSync, Reboot, MenuReboot,
      MenuWipe, MenuApply, Sideload, ToggleText, ProgramBcb, WriteBackBcb, WriteBackUserdata,
      PowerCut, vars

\* Only a new request forgets that the prompt was shown, or a command lost.
LEMMA ToldStep ==
    ASSUME TypeOK, [Next]_vars
    PROVE  \/ (told => told') /\ (torn => torn')
           \/ \E a \in Commands : RequestByFile(a)
           \/ \E p \in Packages : RequestByMisc(p)
BY DEF Next, MainSystem, Program, Menu, EnterByHand, BootLoader, GetArgs, Dispatch, Erase,
    Mkfs, ResizeOem, OpenResult, MountPackage, Engine, Flash, SdFlash, Installed,
    WriteResult, SdUpdate, Decide, SdWait, FinishBcb, FinishUnlink, FinishSync, Reboot,
    MenuReboot, MenuWipe, MenuApply, Sideload, ToggleText, ProgramBcb, WriteBackBcb, WriteBackUserdata,
    PowerCut, ghosts, vars

\* A request is made in a main system that has no command in the BCB, on a
\* volume in use.
LEMMA RequestStep ==
    ASSUME OutcomeInv,
           \/ \E a \in Commands : RequestByFile(a)
           \/ \E p \in Packages : RequestByMisc(p)
    PROVE  /\ pc = "main" /\ pc' = "boot" /\ BcbJob = "none"
           /\ udC.fs # "partial" /\ (fw' = "partial" => fw = "partial")
           /\ told' = (told /\ fw = "partial") /\ torn' = (torn /\ fw = "partial")
           /\ ud'.fs = "user" /\ udC'.fs = "user"
           /\ ud'.rst = "none" /\ udC'.rst = "none"
<1>0. udC \in VolumeType
  BY DEF OutcomeInv, RestartInv, TypeOK, StorageType
<1>1. PICK a : Asks(a)
  BY DEF RequestByFile, RequestByMisc
<1>2. BcbArgs(bcbC) = <<>>
  BY <1>1 DEF Asks, OutcomeInv, RestartInv, Cleared, BcbArgs
<1>3. PICK b : udC' = ud' /\ ud' \in {InUse(udC, b), [InUse(udC, b) EXCEPT !.cmd = b]}
  BY DEF RequestByFile, RequestByMisc
<1>4. /\ ud'.fs = "user" /\ udC'.fs = "user"
      /\ ud'.rst = "none" /\ udC'.rst = "none"
  <2>1. CASE ud' = InUse(udC, b)
    BY <1>0, <1>3, <2>1, InUseIs
  <2>2. CASE ud' = [InUse(udC, b) EXCEPT !.cmd = b]
    BY <1>0, <1>3, <2>2, InUseIs
  <2> QED
    BY <1>3, <2>1, <2>2
<1> QED
  BY <1>1, <1>2, <1>4, NoArgsNoJob DEF Asks, Outdated, BcbJob

\* What a step does to the file systems.
LEMMA FsStep ==
    ASSUME Honest, OutcomeInv, [Next]_vars
    PROVE  \/ /\ \/ \E a \in Commands : RequestByFile(a)
                 \/ \E p \in Packages : RequestByMisc(p)
              /\ ud'.fs = "user" /\ udC'.fs = "user"
           \/ Erase /\ pc' = "mkfs" /\ ud'.fs = udC.fs /\ udC'.fs = "partial"
           \/ Mkfs /\ ud'.fs = "fresh" /\ udC'.fs = "fresh"
           \/ UNCHANGED <<ud.fs, udC.fs>>
           \/ ud'.fs = udC.fs /\ udC'.fs = udC.fs
           \/ PowerCut /\ ud'.fs = ud.fs /\ udC'.fs = ud.fs
<1>0. ud \in VolumeType /\ udC \in VolumeType
  BY DEF OutcomeInv, RestartInv, TypeOK, StorageType
<1>1. CASE \/ \E a \in Commands : RequestByFile(a)
           \/ \E p \in Packages : RequestByMisc(p)
  BY <1>1, RequestStep
<1>2. CASE Erase \/ Mkfs
  <2>1. \A fs : Volume(fs).fs = fs
    BY DEF Volume
  <2>2. \/ Erase /\ pc' = "mkfs" /\ ud' = udC /\ udC' = Volume("partial")
        \/ Mkfs /\ ud' = Volume("fresh") /\ udC' = Volume("fresh")
        \/ UNCHANGED <<ud, udC>>
    BY <1>2 DEF Erase, Mkfs, udVars, Honest
  <2> QED
    BY <2>1, <2>2
<1>3. CASE OpenResult \/ Installed \/ WriteResult
  BY <1>0, <1>3 DEF OpenResult, Installed, WriteResult, VolumeType
<1>4. CASE FinishUnlink
  BY <1>0, <1>4 DEF FinishUnlink, FileStays, Unlinked, VolumeType
<1>5. CASE FinishSync \/ Reboot \/ WriteBackUserdata \/ PowerCut
  BY <1>5 DEF FinishSync, Reboot, WriteBackUserdata, PowerCut
<1> QED
  BY <1>1, <1>2, <1>3, <1>4, <1>5, VolumeStep

\* While mke2fs runs there is no file system.
LEMMA MkfsStep ==
    ASSUME Honest, OutcomeInv, [Next]_vars, pc' = "mkfs"
    PROVE  udC'.fs = "partial"
<1>1. Erase \/ pc = "mkfs"
  BY DEF Next, MainSystem, Program, Menu, RequestByFile, RequestByMisc, Asks, EnterByHand,
      BootLoader, GetArgs, Dispatch, Mkfs, AfterErase, ResizeOem, OpenResult, MountPackage,
      Engine, Flash, SdFlash, Installed, WriteResult, SdUpdate, Decide, SdWait, FinishBcb,
      FinishUnlink, FinishSync, Reboot, MenuReboot, MenuWipe, MenuApply, Sideload,
      ToggleText, ProgramBcb, WriteBackBcb, WriteBackUserdata, PowerCut, vars
<1>2. CASE Erase
  <2>1. udC' = Volume("partial")
    BY <1>2 DEF Erase, AfterErase
  <2> QED
    BY <2>1 DEF Volume
<1>3. CASE pc = "mkfs" /\ ~Erase
  BY <1>3, FsStep, RequestStep DEF Mkfs, AfterErase, PowerCut, OutcomeInv, Files
<1> QED
  BY <1>1, <1>2, <1>3

LEMMA FilesStep ==
    ASSUME Honest, OutcomeInv, [Next]_vars
    PROVE  Files'
<1>0. ud \in VolumeType /\ udC \in VolumeType /\ Files
  BY DEF OutcomeInv, RestartInv, TypeOK, StorageType
<1>1. ASSUME NEW a \in Commands, RequestByFile(a) PROVE Files'
  <2>1. ud' = [InUse(udC, a) EXCEPT !.cmd = a] /\ udC' = ud'
    BY <1>1 DEF RequestByFile
  <2> QED
    BY <1>0, <2>1, InUseIs, MkfsStep DEF Honest, Files
<1>2. ASSUME NEW p \in Packages, RequestByMisc(p) PROVE Files'
  <2>1. ud' = InUse(udC, <<p>>) /\ udC' = ud'
    BY <1>2 DEF RequestByMisc
  <2> QED
    BY <1>0, <2>1, InUseIs, MkfsStep DEF Files
<1>3. CASE Erase \/ Mkfs
  <2>1. pc' \notin {"main", "boot", "get_args", "dispatch"}
    BY <1>3 DEF Erase, Mkfs, AfterErase
  <2>2. \A fs : Volume(fs).cmd = <<>> /\ Volume(fs).pkg = FALSE
    BY DEF Volume
  <2>3. \/ ud' = udC /\ udC' = Volume("partial")
        \/ ud' = Volume("fresh") /\ udC' = Volume("fresh")
        \/ UNCHANGED <<ud, udC>>
    BY <1>3 DEF Erase, Mkfs, udVars, Honest
  <2> QED
    BY <1>0, <2>1, <2>2, <2>3, MkfsStep DEF Files
<1>4. CASE OpenResult \/ Installed \/ WriteResult
  <2>1. pc' \notin {"main", "boot", "get_args", "dispatch"}
    BY <1>4 DEF OpenResult, Installed, WriteResult
  <2>2. /\ udC'.cmd = udC.cmd /\ udC'.fs = udC.fs /\ (udC'.pkg => udC.pkg)
        /\ \/ ud' = ud
           \/ ud' = udC /\ udC' = udC
    BY <1>0, <1>4 DEF OpenResult, Installed, WriteResult, VolumeType
  <2> QED
    BY <1>0, <2>1, <2>2, MkfsStep DEF Files
<1>5. CASE FinishUnlink
  <2>1. pc' = "finish_sync" /\ UNCHANGED ud
    BY <1>5 DEF FinishUnlink
  <2>2. udC'.cmd \in {<<>>, udC.cmd} /\ udC'.fs = udC.fs /\ udC'.pkg = udC.pkg
    BY <1>0, <1>5 DEF FinishUnlink, FileStays, Unlinked, VolumeType
  <2> QED
    BY <1>0, <2>1, <2>2, MkfsStep DEF Files
<1>6. CASE FinishSync \/ Reboot \/ WriteBackUserdata
  BY <1>0, <1>6, MkfsStep DEF FinishSync, Reboot, WriteBackUserdata, Files
<1>7. CASE PowerCut
  BY <1>0, <1>7, MkfsStep DEF PowerCut, Files
<1>8. CASE UNCHANGED <<ud, udC>>
  <2>1. CASE pc' \in {"main", "boot", "get_args", "dispatch"}
    <3>1. pc \in {"main", "boot", "get_args", "dispatch"} \/ ud = udC
      BY <1>8, <2>1
      DEF Next, MainSystem, Program, Menu, RequestByFile, RequestByMisc, Asks, EnterByHand,
          BootLoader, GetArgs, Dispatch, Erase, Mkfs, AfterErase, ResizeOem, OpenResult,
          MountPackage, Engine, Flash, SdFlash, Installed, WriteResult, SdUpdate, Decide,
          SdWait, FinishBcb, FinishUnlink, FinishSync, Reboot, MenuReboot, MenuWipe,
          MenuApply, Sideload, ToggleText, ProgramBcb, WriteBackBcb, WriteBackUserdata, PowerCut, vars
    <3> QED
      BY <1>0, <1>8, <3>1, MkfsStep DEF Files
  <2> QED
    BY <1>0, <1>8, <2>1, MkfsStep DEF Files
<1> QED
  BY <1>1, <1>2, <1>3, <1>4, <1>5, <1>6, <1>7, <1>8, VolumeStep

\* An erase works on the command in the BCB, or the menu asked for it.
LEMMA EraseJob ==
    ASSUME OutcomeInv, pc \in {"erase", "mkfs"}
    PROVE  \/ ctx = "menu" /\ told /\ BcbJob = "none"
           \/ ctx = "main" /\ BcbJob \in EraseJobs /\ status = "success"
<1>1. CASE ctx = "menu"
  BY <1>1 DEF OutcomeInv, Prompted, Owned
<1>2. CASE ctx = "main"
  <2>1. sd = "none" /\ CommandJob(args) \in EraseJobs /\ status = "success"
    BY <1>2 DEF OutcomeInv, Places
  <2> QED
    BY <1>2, <2>1, WorksOnBcbJob DEF TaskPcs
<1> QED
  BY <1>1, <1>2, ControlTypes

\* An update works on the command in the BCB.
LEMMA UpdateJob ==
    ASSUME OutcomeInv,
           pc \in {"update", "mount_pkg", "engine", "flash", "installed", "write_result"}
    PROVE  BcbJob = "update" /\ bcbC.need /\ udC.fs # "partial"
<1>1. sd = "none" /\ CommandJob(args) = "update" /\ ctx = "main"
  BY ControlTypes DEF Places
<1>2. BcbJob = "update"
  BY <1>1, WorksOnBcbJob DEF TaskPcs
<1> QED
  BY <1>2 DEF OutcomeInv, Owned

\* At the end of a run nothing is half done, unless the user knows of it.
LEMMA NothingHalfDone ==
    ASSUME OutcomeInv, pc = "finish_bcb", ~told, ~torn
    PROVE  ud.fs # "partial" /\ udC.fs # "partial" /\ fw # "partial"
<1>1. status = "success"
  BY ControlTypes DEF OutcomeInv, Prompted
<1>2. BcbJob = "none" \/ Complete(BcbJob)
  BY <1>1 DEF OutcomeInv, Worked
<1>3. Owned
  BY DEF OutcomeInv
<1>4. CASE BcbJob \in EraseJobs
  BY <1>2, <1>3, <1>4, JobKinds DEF Complete, Owned
<1>5. CASE BcbJob \notin EraseJobs
  BY <1>2, <1>3, <1>5, JobKinds DEF Complete, Owned
<1> QED
  BY <1>4, <1>5

\* A command that is lost while something is half done is known to be torn.
LEMMA CutTears ==
    ASSUME PowerCut, Rewriting, BcbJob # "none",
           ud'.fs = "partial" \/ udC'.fs = "partial" \/ fw' = "partial"
    PROVE  torn'
BY DEF PowerCut, TearsCommand, BcbJob

LEMMA OwnedStep ==
    ASSUME Honest, OutcomeInv, [Next]_vars
    PROVE  Owned'
<1>0. Owned /\ TypeOK
  BY DEF OutcomeInv, RestartInv
<1> DEFINE Request == \/ \E a \in Commands : RequestByFile(a)
                      \/ \E p \in Packages : RequestByMisc(p)
<1>1. (ud'.fs = "partial" \/ udC'.fs = "partial") => told' \/ torn' \/ BcbJob' \in EraseJobs
  <2>1. SUFFICES ASSUME ud'.fs = "partial" \/ udC'.fs = "partial"
                 PROVE  told' \/ torn' \/ BcbJob' \in EraseJobs
    OBVIOUS
  <2>2. ~Request
    BY <2>1, FsStep, RequestStep DEF Erase, Mkfs, PowerCut
  <2>3. told \/ torn \/ BcbJob \in EraseJobs
    <3>1. CASE Erase
      BY <3>1, EraseJob DEF Erase
    <3>2. CASE ~Erase
      BY <1>0, <2>1, <2>2, <3>2, FsStep DEF Owned
    <3> QED
      BY <3>1, <3>2
  <2>4. (told => told') /\ (torn => torn')
    BY <1>0, <2>2, ToldStep
  <2>5. CASE ~told /\ ~torn
    <3>1. ~FinishBcb
      <4>1. ASSUME FinishBcb PROVE FALSE
        <5>1. UNCHANGED <<ud, udC>> /\ pc = "finish_bcb"
          BY <4>1 DEF FinishBcb, udVars
        <5> QED
          BY <2>1, <2>5, <5>1, NothingHalfDone
      <4> QED
        BY <4>1
    <3>2. PowerCut /\ Rewriting => torn'
      BY <2>1, <2>3, <2>5, CutTears, JobKinds
    <3> QED
      BY <2>2, <2>3, <2>5, <3>1, <3>2, JobStep, JobKinds
  <2> QED
    BY <2>4, <2>5
<1>2. fw' = "partial" => told' \/ torn' \/ BcbJob' = "update"
  <2>1. SUFFICES ASSUME fw' = "partial" PROVE told' \/ torn' \/ BcbJob' = "update"
    OBVIOUS
  <2>2. CASE Request
    BY <1>0, <2>1, <2>2, RequestStep DEF Owned
  <2>3. CASE ~Request
    <3>1. (told => told') /\ (torn => torn')
      BY <1>0, <2>3, ToldStep
    <3>2. told \/ torn \/ BcbJob = "update"
      <4>1. CASE Engine
        BY <4>1, UpdateJob DEF Engine
      <4>2. CASE ~Engine
        BY <1>0, <2>1, <2>3, <4>2, FirmwareStep DEF Owned
      <4> QED
        BY <4>1, <4>2
    <3>3. CASE ~told /\ ~torn
      <4>1. ASSUME FinishBcb PROVE FALSE
        BY <2>1, <3>3, <4>1, NothingHalfDone DEF FinishBcb
      <4>2. PowerCut /\ Rewriting => torn'
        BY <2>1, <3>2, <3>3, CutTears
      <4> QED
        BY <2>3, <3>2, <3>3, <4>1, <4>2, JobStep
    <3> QED
      BY <3>1, <3>3
  <2> QED
    BY <2>2, <2>3
<1>3. BcbJob' = "update" => bcbC'.need /\ ud'.fs # "partial" /\ udC'.fs # "partial"
  <2>1. SUFFICES ASSUME BcbJob' = "update"
                 PROVE  bcbC'.need /\ ud'.fs # "partial" /\ udC'.fs # "partial"
    OBVIOUS
  <2>2. CASE Request
    <3>1. ud'.fs = "user" /\ udC'.fs = "user"
      BY <2>2, RequestStep
    <3> QED
      BY <2>1, <2>2, <3>1, JobStep, RequestStep DEF GetArgs
  <2>3. CASE ~Request
    <3>1. BcbJob = "update" /\ bcbC'.need = bcbC.need
      BY <2>1, <2>3, JobStep DEF OutcomeInv, Files
    <3>2. ~Erase
      BY <3>1, EraseJob, JobKinds DEF Erase
    <3> QED
      BY <1>0, <2>3, <3>1, <3>2, FsStep DEF Owned
  <2> QED
    BY <2>2, <2>3
<1>4. BcbJob' \in EraseJobs => pc' = "mkfs" \/ ud'.fs = udC'.fs
  <2>1. SUFFICES ASSUME BcbJob' \in EraseJobs PROVE pc' = "mkfs" \/ ud'.fs = udC'.fs
    OBVIOUS
  <2>2. CASE GetArgs
    BY <2>2 DEF GetArgs, udVars, OutcomeInv, Files
  <2>3. CASE UNCHANGED <<ud.fs, udC.fs>> /\ ~GetArgs /\ ~Request
    <3>1. pc = "mkfs" \/ ud.fs = udC.fs
      BY <1>0, <2>1, <2>3, JobStep, JobKinds DEF Owned
    <3>2. CASE pc = "mkfs"
      <4>1. Mkfs \/ PowerCut \/ pc' = "mkfs"
        BY <3>2
        DEF Next, MainSystem, Program, Menu, RequestByFile, RequestByMisc, Asks, EnterByHand,
            BootLoader, GetArgs, Dispatch, Erase, ResizeOem, OpenResult, MountPackage, Engine,
            Flash, SdFlash, Installed, WriteResult, SdUpdate, Decide, SdWait, FinishBcb,
            FinishUnlink, FinishSync, Reboot, MenuReboot, MenuWipe, MenuApply, Sideload,
            ToggleText, ProgramBcb, WriteBackBcb, WriteBackUserdata, vars
      <4>2. (Mkfs \/ PowerCut) => ud' = udC'
        BY DEF Mkfs, PowerCut, Honest
      <4> QED
        BY <4>1, <4>2
    <3> QED
      BY <2>3, <3>1, <3>2
  <2> QED
    BY <2>2, <2>3, FsStep, RequestStep
<1>5. ctx' = "menu" /\ pc' \in {"erase", "mkfs"} => BcbJob' = "none"
  <2>1. SUFFICES ASSUME ctx' = "menu", pc' \in {"erase", "mkfs"} PROVE BcbJob' = "none"
    OBVIOUS
  <2>2. UNCHANGED bcbC /\ ((ctx = "menu" /\ pc \in {"erase", "mkfs"}) \/ pc = "menu")
    <3>1. Written /\ Places
      BY DEF OutcomeInv, RestartInv
    <3> QED
      BY <2>1, <3>1
      DEF Next, MainSystem, Program, Menu, RequestByFile, RequestByMisc, Asks, EnterByHand,
          BootLoader, GetArgs, Dispatch, Erase, Mkfs, AfterErase, ResizeOem, OpenResult,
          MountPackage, Engine, Flash, SdFlash, Installed, WriteResult, SdUpdate, Decide,
          SdWait, FinishBcb, FinishUnlink, FinishSync, Reboot, MenuReboot, MenuWipe,
          MenuApply, Sideload, ToggleText, ProgramBcb, WriteBackBcb, WriteBackUserdata, PowerCut,
          bcbVars, runVars, vars, Written, Places
  <2>3. pc = "menu" => BcbJob = "none"
    BY NoArgsNoJob DEF OutcomeInv, RestartInv, Cleared, BcbJob
  <2> QED
    BY <1>0, <2>2, <2>3 DEF Owned, BcbJob
<1> QED
  BY <1>1, <1>2, <1>3, <1>4, <1>5 DEF Owned

\* A complete effect stays complete until the next request or erase.
LEMMA CompleteKept ==
    ASSUME Honest, OutcomeInv, [Next]_vars, NEW j, Complete(j),
           pc \in {"resize_oem", "decide", "sd_wait", "finish_bcb"}
    PROVE  Complete(j)'
<1>1. /\ ~(\E a \in Commands : RequestByFile(a)) /\ ~(\E p \in Packages : RequestByMisc(p))
      /\ ~Erase /\ ~Engine
  BY DEF RequestByFile, RequestByMisc, Asks, Erase, Engine
<1>2. ud.fs = "fresh" /\ udC.fs = "fresh" => ud'.fs = "fresh" /\ udC'.fs = "fresh"
  BY <1>1, FsStep
<1>3. fw = "new" => fw' = "new"
  BY <1>1, FirmwareStep
<1> QED
  BY <1>2, <1>3 DEF Complete

\* How a run comes to its end, or to the step before it.
LEMMA EndStep ==
    ASSUME Honest, OutcomeInv, [Next]_vars,
           pc' \in {"resize_oem", "decide", "sd_wait", "finish_bcb"}, status' = "success"
    PROVE  \/ Erase /\ (ctx = "main" => status' = "error")
           \/ Mkfs
           \/ WriteResult /\ UNCHANGED status
           \/ pc \in {"menu", "sideload"}
           \/ /\ pc \in {"resize_oem", "decide", "sd_wait", "finish_bcb"}
              /\ status = "success" /\ ~FinishBcb
<1>1. Places /\ "mkfs" \notin Faults
  BY DEF OutcomeInv, Honest
<1>2. CASE Erase
  BY <1>1, <1>2 DEF Erase, AfterErase, StatusAfter
<1>3. CASE Dispatch
  BY <1>3 DEF Dispatch
<1>4. CASE SdFlash \/ SdUpdate \/ BootLoader \/ FinishBcb
  BY <1>1, <1>4, ControlTypes DEF SdFlash, SdUpdate, BootLoader, FinishBcb, Places
<1> QED
  BY <1>2, <1>3, <1>4
  DEF Next, MainSystem, Program, Menu, RequestByFile, RequestByMisc, Asks, EnterByHand,
      GetArgs, ResizeOem, OpenResult, MountPackage, Engine, Flash, Installed, WriteResult,
      Decide, SdWait, FinishUnlink, FinishSync, Reboot, MenuReboot, MenuWipe, MenuApply,
      Sideload, ToggleText, ProgramBcb, WriteBackBcb, WriteBackUserdata, PowerCut, runVars, vars,
      Prompts, Idle, SetRun

LEMMA WorkedStep ==
    ASSUME Honest, OutcomeInv, [Next]_vars
    PROVE  Worked'
<1>0. Worked /\ Places
  BY DEF OutcomeInv
<1>1. ASSUME pc' \in {"resize_oem", "decide", "sd_wait", "finish_bcb"}, status' = "success"
      PROVE  BcbJob' = "none" \/ (Complete(BcbJob))'
  <2>1. CASE Erase \/ Mkfs
    <3>1. BcbJob' = BcbJob
      BY <2>1, JobStep DEF Erase, Mkfs, bcbVars, BcbJob
    <3>2. CASE ctx = "menu"
      BY <2>1, <3>1, <3>2, EraseJob DEF Erase, Mkfs
    <3>3. CASE ctx = "main"
      <4>1. Mkfs
        BY <1>1, <2>1, <3>3, EndStep DEF Erase, Mkfs, WriteResult
      <4>2. ud'.fs = "fresh" /\ udC'.fs = "fresh"
        BY <4>1 DEF Mkfs, Volume, Honest
      <4>3. BcbJob' \in EraseJobs
        BY <3>1, <3>3, <4>1, EraseJob DEF Mkfs
      <4> QED
        BY <4>2, <4>3 DEF Complete
    <3> QED
      BY <3>2, <3>3, ControlTypes
  <2>2. CASE WriteResult /\ UNCHANGED status
    <3>1. fw' = "new" /\ UNCHANGED bcbC
      BY <1>0, <1>1, <2>2 DEF WriteResult, bcbVars, Worked
    <3>2. BcbJob' = "update"
      BY <2>2, <3>1, UpdateJob DEF WriteResult, BcbJob
    <3> QED
      BY <3>1, <3>2, JobKinds DEF Complete
  <2>3. CASE pc \in {"menu", "sideload"}
    <3>1. BcbJob = "none"
      BY <2>3, NoArgsNoJob DEF OutcomeInv, RestartInv, Cleared, BcbJob
    <3> QED
      BY <2>3, <3>1, JobStep DEF RequestByMisc, Asks, GetArgs
  <2>4. CASE /\ pc \in {"resize_oem", "decide", "sd_wait", "finish_bcb"}
             /\ status = "success" /\ ~FinishBcb
    <3>1. BcbJob = "none" \/ Complete(BcbJob)
      BY <1>0, <2>4 DEF Worked
    <3>2. BcbJob' = BcbJob
      BY <1>1, <2>4, JobStep DEF RequestByMisc, Asks, GetArgs, MenuApply, PowerCut
    <3>3. Complete(BcbJob) => Complete(BcbJob)'
      BY <2>4, <3>2, CompleteKept DEF Complete
    <3> QED
      BY <3>1, <3>2, <3>3
  <2> QED
    BY <1>1, <2>1, <2>2, <2>3, <2>4, EndStep
<1>2. ASSUME pc' = "installed" PROVE fw' = "new"
  <2>1. pc = "installed" \/ Flash \/ Engine
    BY <1>2
    DEF Next, MainSystem, Program, Menu, RequestByFile, RequestByMisc, Asks, EnterByHand,
        BootLoader, GetArgs, Dispatch, Erase, Mkfs, AfterErase, ResizeOem, OpenResult,
        MountPackage, SdFlash, Installed, WriteResult, SdUpdate, Decide, SdWait, FinishBcb,
        FinishUnlink, FinishSync, Reboot, MenuReboot, MenuWipe, MenuApply, Sideload,
        ToggleText, ProgramBcb, WriteBackBcb, WriteBackUserdata, PowerCut, vars
  <2>2. CASE Engine
    <3>1. bcbC.need /\ "misc_read" \notin Faults
      BY <2>2, UpdateJob DEF Engine, Honest, Reliable, OutcomeInv, RestartInv, Written
    <3> QED
      BY <1>2, <2>2, <3>1 DEF Engine
  <2>3. CASE Flash
    BY <1>2, <2>3 DEF Flash
  <2>4. CASE pc = "installed"
    BY <1>0, <2>4, FirmwareStep
    DEF Worked, RequestByFile, RequestByMisc, Asks, Engine
  <2> QED
    BY <2>1, <2>2, <2>3, <2>4
<1>3. ASSUME pc' = "write_result", status' = "success" \/ flag' = "package"
      PROVE  fw' = "new"
  <2>1. \/ pc = "write_result" /\ UNCHANGED <<status, flag>>
        \/ MountPackage \/ Engine \/ Flash \/ Installed
    BY <1>3
    DEF Next, MainSystem, Program, Menu, RequestByFile, RequestByMisc, Asks, EnterByHand,
        BootLoader, GetArgs, Dispatch, Erase, Mkfs, AfterErase, ResizeOem, OpenResult,
        SdFlash, WriteResult, SdUpdate, Decide, SdWait, FinishBcb,
        FinishUnlink, FinishSync, Reboot, MenuReboot, MenuWipe, MenuApply, Sideload,
        ToggleText, ProgramBcb, WriteBackBcb, WriteBackUserdata, PowerCut, vars, runVars
  <2>2. ~MountPackage
    BY <1>3, UpdateJob DEF MountPackage, Mountable, Honest
  <2>3. ~Engine /\ ~Flash
    BY <1>0, <1>3 DEF Engine, Flash, Places
  <2>4. CASE Installed
    BY <1>0, <2>4 DEF Installed, Worked
  <2>5. CASE pc = "write_result" /\ UNCHANGED <<status, flag>>
    BY <1>0, <1>3, <2>5, FirmwareStep
    DEF Worked, RequestByFile, RequestByMisc, Asks, Engine
  <2> QED
    BY <2>1, <2>2, <2>3, <2>4, <2>5
<1> QED
  BY <1>1, <1>2, <1>3 DEF Worked

LEMMA ResultsStep ==
    ASSUME Honest, OutcomeInv, [Next]_vars
    PROVE  Results'
<1>0. /\ ud \in VolumeType /\ udC \in VolumeType /\ TypeOK
      /\ Results /\ Worked
  BY DEF OutcomeInv, RestartInv, TypeOK, StorageType
<1> DEFINE Request == \/ \E a \in Commands : RequestByFile(a)
                      \/ \E p \in Packages : RequestByMisc(p)
<1>1. CASE Request
  BY <1>1, RequestStep DEF Results
<1>2. CASE ~Request
  <2>1. (fw # "old" => fw' # "old") /\ (told => told')
    BY <1>0, <1>2, FirmwareStep, ToldStep
  <2>2. CASE WriteResult /\ flag = "package"
    BY <1>0, <2>2 DEF WriteResult, Worked, Results
  <2>3. CASE ~(WriteResult /\ flag = "package")
    <3>1. /\ ud'.rst \in {"none", "empty", "failed", ud.rst, udC.rst}
          /\ udC'.rst \in {"none", "empty", "failed", ud.rst, udC.rst}
      <4>1. CASE Erase \/ Mkfs
        <5>1. \A fs : Volume(fs).rst = "none"
          BY DEF Volume
        <5>2. /\ ud' \in {ud, udC, Volume("fresh")}
              /\ udC' \in {udC, Volume("partial"), Volume("fresh")}
          BY <4>1 DEF Erase, Mkfs, udVars
        <5> QED
          BY <5>1, <5>2
      <4>2. CASE OpenResult \/ Installed \/ WriteResult
        BY <1>0, <2>3, <4>2 DEF OpenResult, Installed, WriteResult, ResultText, VolumeType
      <4>3. CASE FinishUnlink
        BY <1>0, <4>3 DEF FinishUnlink, FileStays, Unlinked, VolumeType
      <4>4. CASE FinishSync \/ Reboot \/ WriteBackUserdata \/ PowerCut
        BY <4>4 DEF FinishSync, Reboot, WriteBackUserdata, PowerCut
      <4> QED
        BY <1>2, <4>1, <4>2, <4>3, <4>4, VolumeStep
    <3> QED
      BY <1>0, <2>1, <3>1 DEF Results
  <2> QED
    BY <2>2, <2>3
<1> QED
  BY <1>1, <1>2

\* While the block is rewritten the program waits, and the power may fail.
LEMMA WhileRewriting ==
    ASSUME [Next]_vars, Rewriting
    PROVE  \/ PowerCut /\ UNCHANGED bcb /\ bcbC' = bcb
           \/ UNCHANGED <<pc, status, bcbC, fw>> /\ ud' \in {ud, udC}
BY DEF Next, MainSystem, Program, Menu, Rewriting, ProgramBcb, ToggleText, WriteBackBcb,
    WriteBackUserdata, PowerCut, runVars, udVars, bcbVars, vars

\* A rewrite starts in one of the callers of set_bootloader_message.
LEMMA RewriteStarts ==
    ASSUME Honest, OutcomeInv, [Next]_vars, ~Rewriting, Rewriting'
    PROVE  (\E p \in Packages : RequestByMisc(p)) \/ GetArgs \/ BcbJob' = "none"
<1>1. bcb = bcbC /\ bcb' # bcbC'
  BY DEF Rewriting, Honest, Reliable
<1>2. CASE FinishBcb
  <2>1. bcbC' = Erased(flag)
    BY <1>2, SetBcbReliable DEF Honest, FinishBcb
  <2>2. BcbArgs(bcbC') = <<>>
    BY <2>1 DEF Erased, ZeroBcb, BcbArgs
  <2> QED
    BY <2>2, NoArgsNoJob DEF BcbJob
<1>3. CASE MenuApply
  <2>1. bcbC' = [ZeroBcb EXCEPT !.command = "boot-recovery", !.named = TRUE]
    BY <1>1, <1>3, SetBcbReliable DEF Honest, MenuApply, bcbVars
  <2>2. BcbArgs(bcbC') = <<>>
    BY <2>1 DEF ZeroBcb, BcbArgs
  <2> QED
    BY <2>2, NoArgsNoJob DEF BcbJob
<1> QED
  BY <1>1, <1>2, <1>3
  DEF Next, MainSystem, Program, Menu, RequestByFile, EnterByHand, BootLoader, Dispatch,
      Erase, Mkfs, ResizeOem, OpenResult, MountPackage, Engine, Flash, SdFlash, Installed,
      WriteResult, SdUpdate, Decide, SdWait, FinishUnlink, FinishSync, Reboot, MenuReboot,
      MenuWipe, Sideload, ToggleText, ProgramBcb, WriteBackBcb, WriteBackUserdata, PowerCut,
      bcbVars, vars

LEMMA RewritesStep ==
    ASSUME Honest, OutcomeInv, [Next]_vars
    PROVE  Rewrites'
<1> SUFFICES ASSUME Rewriting', BcbJob' # "none" PROVE pc' \in {"boot", "dispatch"}
  BY DEF Rewrites
<1>1. CASE Rewriting
  <2>1. UNCHANGED <<pc, bcbC>>
    BY <1>1, WhileRewriting DEF Rewriting
  <2>2. pc \in {"boot", "dispatch"}
    BY <1>1, <2>1 DEF OutcomeInv, Rewrites, BcbJob
  <2> QED
    BY <2>1, <2>2
<1>2. CASE ~Rewriting
  BY <1>2, RewriteStarts DEF RequestByMisc, Asks, GetArgs
<1> QED
  BY <1>1, <1>2

-----------------------------------------------------------------------------
(* The theorems.                                                           *)

LEMMA OutcomeInit ==
    ASSUME Honest, Init
    PROVE  OutcomeInv
<1>1. RestartInv
  BY RestartInit DEF Honest
<1>2. BcbJob = "none"
  BY NoArgsNoJob DEF Init, ZeroBcb, BcbArgs, BcbJob
<1>3. /\ pc = "main" /\ ctx = "main" /\ status = "success" /\ fw = "old"
      /\ ud = Volume("user") /\ udC = ud
  BY DEF Init, Idle
<1>4. /\ ud.fs = "user" /\ ud.cmd = <<>> /\ ud.rst = "none"
  BY <1>3 DEF Volume
<1>5. Places /\ Prompted /\ Worked
  BY <1>3 DEF Places, Prompted, Worked
<1>6. Owned /\ Files /\ Results /\ Rewrites
  BY <1>2, <1>3, <1>4, JobKinds DEF Owned, Files, Results, Rewrites
<1> QED
  BY <1>1, <1>5, <1>6 DEF OutcomeInv

LEMMA OutcomeStep ==
    ASSUME Honest, OutcomeInv, [Next]_vars
    PROVE  OutcomeInv'
<1>1. RestartInv'
  BY RestartStep DEF Honest, OutcomeInv
<1> QED
  BY <1>1, PlacesStep, PromptedStep, OwnedStep, FilesStep, WorkedStep, ResultsStep,
     RewritesStep
  DEF OutcomeInv

\* No power cut, failure or menu choice leads to a main system that runs on
\* half-formatted data or half-written firmware, without the prompt having
\* been shown since the request, but for a cut that loses the command in the
\* rewrite of the BCB.
THEOREM DamageReported ==
    ASSUME Honest
    PROVE  Spec => []DamageIsReported
<1>1. Init => OutcomeInv
  BY OutcomeInit
<1>2. OutcomeInv /\ [Next]_vars => OutcomeInv'
  BY OutcomeStep
<1>3. ASSUME OutcomeInv PROVE DamageIsReported
  <2>1. pc = "main" => BcbJob = "none"
    BY <1>3, NoArgsNoJob DEF OutcomeInv, RestartInv, Cleared, BcbArgs, BcbJob
  <2> QED
    BY <1>3, <2>1, JobKinds DEF OutcomeInv, Owned, DamageIsReported
<1> QED
  BY <1>1, <1>2, <1>3, PTL DEF Spec

\* A main system that finds "update images success!" runs the new firmware, or
\* its user was shown the prompt, or the command was lost in a rewrite of the
\* BCB: no other power cut separates the result file from the partitions it
\* is about.
THEOREM SuccessTrue ==
    ASSUME Honest
    PROVE  Spec => []SuccessIsTrue
<1>1. Init => OutcomeInv
  BY OutcomeInit
<1>2. OutcomeInv /\ [Next]_vars => OutcomeInv'
  BY OutcomeStep
<1>3. ASSUME OutcomeInv PROVE SuccessIsTrue
  <2>1. pc = "main" => BcbJob = "none"
    BY <1>3, NoArgsNoJob DEF OutcomeInv, RestartInv, Cleared, BcbArgs, BcbJob
  <2>2. fw \in {"old", "partial", "new"}
    BY <1>3 DEF OutcomeInv, RestartInv, TypeOK, DeviceType
  <2> QED
    BY <1>3, <2>1, <2>2 DEF OutcomeInv, Owned, Results, SuccessIsTrue
<1> QED
  BY <1>1, <1>2, <1>3, PTL DEF Spec

\* finish_recovery takes a command out of the BCB only when its effect is
\* complete or its failure is in status, whatever cuts came before.
THEOREM Released ==
    ASSUME Honest
    PROVE  Spec => ReleasedWhenDone
<1>1. Init => OutcomeInv
  BY OutcomeInit
<1>2. OutcomeInv /\ [Next]_vars => OutcomeInv'
  BY OutcomeStep
<1>3. ASSUME OutcomeInv
      PROVE  LET j == CommandJob(BcbArgs(bcbC))
             IN  pc = "finish_bcb" /\ j # "none" /\ bcbC'.command = "none"
                   => Done(j) \/ status = "error"
  <2>1. CommandJob(BcbArgs(bcbC)) = BcbJob
    BY DEF BcbJob
  <2>2. pc = "finish_bcb" /\ status # "error" /\ BcbJob # "none" => Complete(BcbJob)
    BY <1>3, ControlTypes DEF OutcomeInv, Worked
  <2>3. Complete(BcbJob) => Done(BcbJob)
    BY DEF Complete, Done
  <2> QED
    BY <2>1, <2>2, <2>3
<1>4. OutcomeInv =>
        [LET j == CommandJob(BcbArgs(bcbC))
         IN  pc = "finish_bcb" /\ j # "none" /\ bcbC'.command = "none"
               => Done(j) \/ status = "error"]_vars
  BY <1>3
<1> QED
  BY <1>1, <1>2, <1>4, PTL DEF Spec, ReleasedWhenDone

\* The downloaded package is only deleted when its images are on flash, or
\* together with its file system: no restart finds the command without it.
THEOREM PackageOutlives ==
    ASSUME Honest
    PROVE  Spec => PackageOutlivesInstall
<1>1. Init => OutcomeInv
  BY OutcomeInit
<1>2. OutcomeInv /\ [Next]_vars => OutcomeInv'
  BY OutcomeStep
<1>3. ASSUME OutcomeInv, [Next]_vars, udC.pkg, ~udC'.pkg
      PROVE  fw = "new" \/ udC'.fs # "user"
  <2>1. udC \in VolumeType /\ Files /\ Worked
    BY <1>3 DEF OutcomeInv, RestartInv, TypeOK, StorageType
  <2>2. ~(\E a \in Commands : RequestByFile(a)) /\ ~(\E p \in Packages : RequestByMisc(p))
    BY <1>3, <2>1 DEF RequestByFile, RequestByMisc, InUse, VolumeType
  <2>3. CASE Erase \/ Mkfs
    <3>1. \A fs : Volume(fs).fs = fs
      BY DEF Volume
    <3>2. udC' \in {udC, Volume("partial"), Volume("fresh")}
      BY <2>3 DEF Erase, Mkfs, udVars
    <3> QED
      BY <1>3, <3>1, <3>2
  <2>4. CASE Installed
    BY <2>1, <2>4 DEF Installed, Worked
  <2>5. CASE OpenResult \/ WriteResult \/ FinishUnlink
    BY <1>3, <2>1, <2>5
    DEF OpenResult, WriteResult, FinishUnlink, FileStays, Unlinked, VolumeType
  <2>6. CASE FinishSync \/ Reboot \/ WriteBackUserdata \/ PowerCut
    BY <1>3, <2>1, <2>6 DEF FinishSync, Reboot, WriteBackUserdata, PowerCut, Files
  <2> QED
    BY <1>3, <2>2, <2>3, <2>4, <2>5, <2>6, VolumeStep
<1>4. OutcomeInv /\ [Next]_vars =>
        [udC.pkg /\ ~udC'.pkg => fw = "new" \/ udC'.fs # "user"]_vars
  BY <1>3
<1> QED
  BY <1>1, <1>2, <1>4, PTL DEF Spec, PackageOutlivesInstall

-----------------------------------------------------------------------------
(* Recovery implements AcceptedCommand.                                    *)

\* A BCB without a command names no arguments either.
LEMMA AcceptedIs ==
    ASSUME Honest, OutcomeInv
    PROVE  AcceptedJob = BcbJob
BY NoArgsNoJob DEF Honest, Reliable, Lasting, OutcomeInv, RestartInv, Cleared, BcbArgs, AcceptedJob, BcbJob

\* How far the effect of an erase has come is in the file system, and how far
\* that of an update in the firmware.
LEMMA EffectIs ==
    ASSUME TypeOK, TypeOK', NEW j
    PROVE  /\ EffectOf("none") = "none" /\ EffectOf("none")' = "none"
           /\ j \in EraseJobs =>
                /\ ud.fs = "user" => EffectOf(j) = "none"
                /\ ud.fs = "partial" => EffectOf(j) = "partial"
                /\ ud.fs = "fresh" => EffectOf(j) = "done"
                /\ ud'.fs = "user" => EffectOf(j)' = "none"
                /\ ud'.fs = "partial" => EffectOf(j)' = "partial"
                /\ ud'.fs = "fresh" => EffectOf(j)' = "done"
           /\ /\ fw = "old" => EffectOf("update") = "none"
              /\ fw = "partial" => EffectOf("update") = "partial"
              /\ fw = "new" => EffectOf("update") = "done"
              /\ fw' = "old" => EffectOf("update")' = "none"
              /\ fw' = "partial" => EffectOf("update")' = "partial"
              /\ fw' = "new" => EffectOf("update")' = "done"
<1>1. /\ EffectOf("none") = "none" /\ EffectOf("none")' = "none"
  BY DEF EffectOf
<1>2. ASSUME j \in EraseJobs
      PROVE  /\ ud.fs = "user" => EffectOf(j) = "none"
             /\ ud.fs = "partial" => EffectOf(j) = "partial"
             /\ ud.fs = "fresh" => EffectOf(j) = "done"
             /\ ud'.fs = "user" => EffectOf(j)' = "none"
             /\ ud'.fs = "partial" => EffectOf(j)' = "partial"
             /\ ud'.fs = "fresh" => EffectOf(j)' = "done"
  BY <1>2, JobKinds DEF EffectOf
<1>3. /\ fw = "old" => EffectOf("update") = "none"
      /\ fw = "partial" => EffectOf("update") = "partial"
      /\ fw = "new" => EffectOf("update") = "done"
      /\ fw' = "old" => EffectOf("update")' = "none"
      /\ fw' = "partial" => EffectOf("update")' = "partial"
      /\ fw' = "new" => EffectOf("update")' = "done"
  BY JobKinds DEF EffectOf
<1> QED
  BY <1>1, <1>2, <1>3

\* The firmware and the file system are among the cases of EffectOf.
LEMMA EffectTypes ==
    ASSUME TypeOK
    PROVE  ud.fs \in {"user", "partial", "fresh"} /\ fw \in {"old", "partial", "new"}
BY DEF TypeOK, StorageType, VolumeType, DeviceType

\* The effect of the command in the BCB only moves while its attempt has not
\* failed, and never back to where nothing was done.
LEMMA EffectStep ==
    ASSUME Honest, OutcomeInv, OutcomeInv', [Next]_vars,
           BcbJob # "none", BcbJob' = BcbJob
    PROVE  \/ EffectOf(BcbJob)' = EffectOf(BcbJob)
           \/ /\ status = "success" /\ status' = "success"
              /\ EffectOf(BcbJob)' \in {"partial", "done"}
<1>0. TypeOK /\ TypeOK' /\ Owned /\ Files /\ Places
  BY DEF OutcomeInv, RestartInv
<1>1. ~(\E a \in Commands : RequestByFile(a)) /\ ~(\E p \in Packages : RequestByMisc(p))
  BY RequestStep
<1>2. CASE BcbJob = "update"
  <2>1. EffectOf("update")' = EffectOf(BcbJob)'
    BY <1>2
  <2>2. CASE UNCHANGED fw
    BY <1>0, <1>2, <2>1, <2>2, EffectIs, EffectTypes
  <2>3. CASE Engine /\ fw' = "partial"
    <3>1. status = "success" /\ fw # "partial" => status' = "success"
      BY <1>0, <2>3 DEF Engine
    <3>2. status = "success"
      BY <1>0, <2>3 DEF Engine, Places
    <3> QED
      BY <1>0, <1>2, <2>1, <2>3, <3>1, <3>2, EffectIs, EffectTypes
  <2>4. CASE Flash /\ fw' = "new"
    <3>1. status = "success" /\ (fw # "new" => status' = "success")
      BY <1>0, <2>4 DEF Flash, Places
    <3> QED
      BY <1>0, <1>2, <2>1, <2>4, <3>1, EffectIs, EffectTypes
  <2> QED
    BY <1>1, <2>2, <2>3, <2>4, FirmwareStep
<1>3. CASE BcbJob \in EraseJobs
  <2>1. ASSUME ud'.fs = ud.fs PROVE EffectOf(BcbJob)' = EffectOf(BcbJob)
    BY <1>0, <1>3, <2>1, EffectIs, EffectTypes
  <2>2. CASE Erase /\ ud'.fs = udC.fs
    <3>1. pc = "erase"
      BY <2>2 DEF Erase
    <3> QED
      BY <1>0, <1>3, <2>1, <2>2, <3>1 DEF Owned
  <2>3. CASE Mkfs /\ ud'.fs = "fresh"
    <3>1. ctx = "main" /\ status = "success"
      BY <1>3, <2>3, EraseJob, JobKinds DEF Mkfs
    <3>2. status' = "success"
      BY <2>3, <3>1 DEF Mkfs, AfterErase, StatusAfter
    <3> QED
      BY <1>0, <1>3, <2>3, <3>1, <3>2, EffectIs
  <2>4. CASE ud'.fs = udC.fs /\ udC'.fs = udC.fs
    <3>1. CASE pc = "mkfs"
      <4>1. udC.fs = "partial" /\ status = "success"
        BY <1>0, <1>3, <3>1, EraseJob, JobKinds DEF Files
      <4>2. CASE Mkfs
        BY <2>4, <4>1, <4>2, FsStep DEF Mkfs, Honest, Volume
      <4>3. CASE ~Mkfs
        <5>1. status' = "success"
          BY <3>1, <4>1, <4>3
          DEF Next, MainSystem, Program, Menu, RequestByFile, RequestByMisc, Asks,
              EnterByHand, BootLoader, GetArgs, Dispatch, Erase, ResizeOem, OpenResult,
              MountPackage, Engine, Flash, SdFlash, Installed, WriteResult, SdUpdate, Decide,
              SdWait, FinishBcb, FinishUnlink, FinishSync, Reboot, MenuReboot, MenuWipe,
              MenuApply, Sideload, ToggleText, ProgramBcb, WriteBackBcb, WriteBackUserdata, PowerCut,
              SetRun, Idle, runVars, vars
        <5> QED
          BY <1>0, <1>3, <2>4, <4>1, <5>1, EffectIs
      <4> QED
        BY <4>2, <4>3
    <3>2. CASE pc # "mkfs"
      BY <1>0, <1>3, <2>1, <2>4, <3>2 DEF Owned
    <3> QED
      BY <3>1, <3>2
  <2> QED
    BY <1>1, <2>1, <2>2, <2>3, <2>4, FsStep
<1> QED
  BY <1>2, <1>3, CommandJobType DEF BcbJob, JobNames

\* An attempt that has failed stays so until the next boot.
LEMMA FailureStays ==
    ASSUME [Next]_vars, pc # "boot", pc' # "boot", status = "error"
    PROVE  status' = "error"
BY DEF Next, MainSystem, Program, Menu, RequestByFile, RequestByMisc, Asks, EnterByHand,
    BootLoader, GetArgs, Dispatch, Erase, Mkfs, AfterErase, StatusAfter, ResizeOem,
    OpenResult, MountPackage, Engine, Flash, SdFlash, Installed, WriteResult, SdUpdate,
    Decide, SdWait, FinishBcb, FinishUnlink, FinishSync, Reboot, MenuReboot, MenuWipe,
    MenuApply, Sideload, ToggleText, ProgramBcb, WriteBackBcb, WriteBackUserdata, PowerCut,
    runVars, vars

\* A command waits for its run until get_args, and a card is booted past it.
LEMMA WaitingStep ==
    ASSUME Honest, OutcomeInv, [Next]_vars, pc \in {"boot", "get_args"}
    PROVE  /\ UNCHANGED fw /\ ud' = ud
           /\ pc' \in {"main", "boot", "get_args", "dispatch"}
           /\ status = "success" /\ status' = "success"
           /\ GetArgs \/ pc' \in {"main", "boot", "get_args"} \/ BootLoader
<1>1. ud = udC /\ status = "success"
  BY DEF OutcomeInv, Files, Places
<1>2. \/ BootLoader \/ GetArgs \/ ProgramBcb \/ PowerCut
      \/ UNCHANGED <<pc, ud, fw, status>>
  BY <1>1
  DEF Next, MainSystem, Program, Menu, RequestByFile, RequestByMisc, Asks, EnterByHand,
      Dispatch, Erase, Mkfs, ResizeOem, OpenResult, MountPackage, Engine, Flash, SdFlash,
      Installed, WriteResult, SdUpdate, Decide, SdWait, FinishBcb, FinishUnlink, FinishSync,
      Reboot, MenuReboot, MenuWipe, MenuApply, Sideload, ToggleText, WriteBackBcb,
      WriteBackUserdata, runVars, udVars, vars
<1>3. CASE BootLoader
  <2>1. /\ UNCHANGED ud /\ status' = "success"
        /\ pc' \in {"main", "get_args", "dispatch"}
    BY <1>3 DEF BootLoader, SetRun, Idle, udVars
  <2>2. UNCHANGED fw
    BY <1>3, FirmwareStep, RequestStep DEF BootLoader, Engine, Flash
  <2> QED
    BY <1>1, <1>3, <2>1, <2>2
<1>4. CASE GetArgs
  BY <1>1, <1>4 DEF GetArgs, udVars
<1>5. CASE ProgramBcb \/ PowerCut
  BY <1>1, <1>5, IdleType DEF ProgramBcb, PowerCut, runVars, udVars
<1> QED
  BY <1>1, <1>2, <1>3, <1>4, <1>5

\* The command is erased in a rewrite before it is there again.
LEMMA WritesNow ==
    ASSUME Reliable, NEW b, SetBcb(b), CommandJob(BcbArgs(bcbC')) # "none"
    PROVE  Rewriting'
<1>1. BcbArgs(bcb') = <<>>
  BY SetBcbErases, RuinsType
<1> QED
  BY <1>1, NoArgsNoJob DEF Rewriting, Reliable

\* Every step of the program is a step of AcceptedCommand, or none.
LEMMA RefinementStep ==
    ASSUME Honest, OutcomeInv, OutcomeInv', [Next]_vars
    PROVE  [Abstract!Next]_(Abstract!vars)
<1>0. /\ AcceptedJob = BcbJob /\ AcceptedJob' = BcbJob'
      /\ TypeOK /\ TypeOK'
      /\ BcbJob \in JobNames /\ BcbJob' \in JobNames
      /\ status \in {"success", "error"} /\ status' \in {"success", "error"}
  <2>1. AcceptedJob = BcbJob /\ TypeOK /\ TypeOK'
    BY AcceptedIs DEF OutcomeInv, RestartInv
  <2>2. AcceptedJob' = BcbJob'
    BY NoArgsNoJob
    DEF Honest, Reliable, Lasting, OutcomeInv, RestartInv, Cleared, BcbArgs, AcceptedJob,
        BcbJob
  <2>3. BcbJob \in JobNames /\ BcbJob' \in JobNames
    BY CommandJobType DEF BcbJob
  <2> QED
    BY <2>1, <2>2, <2>3 DEF TypeOK, RunType
<1> DEFINE effect == EffectOf(AcceptedJob)
           failed == AcceptedJob # "none" /\ status = "error"
<1>1. CASE BcbJob = "none" /\ BcbJob' = "none"
  <2>1. effect' = "none" /\ effect = "none"
    BY <1>0, <1>1, EffectIs
  <2>2. Stage = "waiting" /\ Stage' = "waiting"
    BY <1>0, <1>1 DEF Stage
  <2>3. UNCHANGED <<AcceptedJob, effect, failed, Stage>>
    BY <1>0, <1>1, <2>1, <2>2
  <2> QED
    BY <2>3 DEF Abstract!vars
<1>2. CASE BcbJob = "none" /\ BcbJob' # "none"
  <2>1. status' = "success" /\ effect' \in {"none", "partial"} /\ Rewriting'
    <3>1. CASE \E p \in Packages : RequestByMisc(p)
      <4>1. PICK p \in Packages : RequestByMisc(p)
        BY <3>1
      <4>2. status' = "success"
        BY <4>1 DEF RequestByMisc, Asks, runVars, OutcomeInv, Places
      <4>3. fw' # "new"
        BY <4>1, PackageJob DEF RequestByMisc, Asks, Outdated
      <4>4. fw' \in {"old", "partial", "new"}
        BY <1>0 DEF TypeOK, DeviceType
      <4>5. BcbJob' = "update"
        BY <1>2, <4>1, JobStep, RequestStep DEF GetArgs
      <4>6. effect' = EffectOf("update")'
        BY <1>0, <4>5
      <4>7. Rewriting'
        BY <1>2, <4>1, WritesNow DEF Honest, Reliable, RequestByMisc, BcbJob
      <4> QED
        BY <1>0, <4>2, <4>3, <4>4, <4>6, <4>7, EffectIs
    <3>2. CASE GetArgs /\ udC.cmd # <<>> /\ BcbJob' = CommandJob(udC.cmd)
      <4>1. status' = "success"
        BY <3>2 DEF GetArgs, OutcomeInv, Places
      <4>2. ud' = udC /\ udC.fs = "user" /\ BcbJob' # "update"
        BY <3>2 DEF GetArgs, udVars, OutcomeInv, Files
      <4>3. BcbJob' \in EraseJobs
        BY <1>0, <1>2, <4>2 DEF JobNames
      <4>4. effect' = "none"
        BY <1>0, <4>2, <4>3, EffectIs
      <4>5. Rewriting'
        BY <1>2, <3>2, GetArgsTakes, WritesNow DEF Honest, BcbJob
      <4> QED
        BY <4>1, <4>4, <4>5
    <3> QED
      BY <1>2, <3>1, <3>2, JobStep
  <2>2. Stage' = "writing"
    BY <1>0, <1>2, <2>1 DEF Stage
  <2>3. Abstract!Accept(BcbJob')
    BY <1>0, <1>2, <2>1, <2>2 DEF Abstract!Accept
  <2> QED
    BY <1>0, <1>2, <2>3 DEF Abstract!Next, JobNames
<1>3. CASE BcbJob # "none" /\ BcbJob' = "none"
  <2>1. effect' = "none" /\ failed' = FALSE /\ Stage' = "waiting"
    BY <1>0, <1>3, EffectIs DEF Stage
  <2>2. CASE Rewriting
    <3>1. Stage = "writing"
      BY <1>0, <1>3, <2>2 DEF Stage
    <3>2. Abstract!Lose
      BY <1>0, <1>3, <2>1, <3>1 DEF Abstract!Lose
    <3> QED
      BY <3>2 DEF Abstract!Next
  <2>3. CASE ~Rewriting
    <3>1. FinishBcb
      BY <1>3, <2>3, JobStep, RequestStep, NoArgsNoJob
    <3>2. effect = "done" \/ failed
      <4>1. CASE status = "error"
        BY <1>0, <1>3, <4>1
      <4>2. CASE status = "success"
        <5>1. Complete(BcbJob)
          BY <1>3, <3>1, <4>2 DEF FinishBcb, OutcomeInv, Worked
        <5>2. CASE BcbJob \in EraseJobs
          BY <1>0, <5>1, <5>2, EffectIs DEF Complete
        <5>3. CASE BcbJob = "update"
          <6>1. fw = "new"
            BY <5>1, <5>3, JobKinds DEF Complete
          <6> QED
            BY <1>0, <5>3, <6>1, EffectIs
        <5> QED
          BY <1>0, <1>3, <5>2, <5>3 DEF JobNames
      <4> QED
        BY <1>0, <4>1, <4>2
    <3>3. Stage = "working"
      BY <1>0, <1>3, <2>3, <3>1 DEF Stage, FinishBcb
    <3>4. Abstract!Release
      BY <1>0, <1>3, <2>1, <3>2, <3>3 DEF Abstract!Release, Abstract!Working
    <3> QED
      BY <3>4 DEF Abstract!Next
  <2> QED
    BY <2>2, <2>3
<1>4. CASE BcbJob # "none" /\ BcbJob' = BcbJob
  <2>1. effect' = EffectOf(BcbJob)' /\ effect = EffectOf(BcbJob)
    BY <1>0, <1>4
  <2> DEFINE Kept == effect' = effect /\ UNCHANGED status
  <2>2. CASE Rewriting
    <3>1. UNCHANGED <<pc, status, fw>> /\ ud' \in {ud, udC} /\ pc \in {"boot", "dispatch"}
      <4>1. pc \in {"boot", "dispatch"}
        BY <1>4, <2>2 DEF OutcomeInv, Rewrites
      <4>2. ~(PowerCut /\ UNCHANGED bcb /\ bcbC' = bcb)
        BY <1>4, <2>2, RuinsType, NoArgsNoJob
        DEF BcbJob, OutcomeInv, RestartInv, Written, Rewriting
      <4> QED
        BY <2>2, <4>1, <4>2, WhileRewriting
    <3>2. ud' = ud
      BY <3>1 DEF OutcomeInv, Files
    <3>3. effect' = effect
      BY <1>0, <1>4, <2>1, <3>1, <3>2, EffectIs, EffectTypes DEF JobNames
    <3>4. Stage = "writing" /\ Stage' \in {"writing", "waiting", "working"}
      BY <1>0, <1>4, <2>2 DEF Stage
    <3> QED
      BY <1>0, <1>4, <3>1, <3>3, <3>4
      DEF Abstract!Next, Abstract!Proceed, Abstract!vars
  <2>3. CASE ~Rewriting /\ pc \in {"boot", "get_args"}
    <3>1. effect' = effect /\ UNCHANGED status
      BY <1>0, <1>4, <2>1, <2>3, WaitingStep, EffectIs, EffectTypes DEF JobNames
    <3>2. Stage = "waiting" /\ Stage' \in {"writing", "waiting", "working"}
      BY <1>0, <1>4, <2>3 DEF Stage
    <3> QED
      BY <1>0, <1>4, <3>1, <3>2
      DEF Abstract!Next, Abstract!Proceed, Abstract!vars
  <2>4. CASE ~Rewriting /\ pc \notin {"boot", "get_args"}
    <3>1. Stage = "working"
      BY <1>0, <1>4, <2>4 DEF Stage
    <3>2. ~Rewriting'
      BY <1>4, <2>4, RewriteStarts, RequestStep DEF GetArgs
    <3>3. CASE pc' \in {"boot", "get_args"}
      <4>1. Stage' = "waiting"
        BY <1>0, <1>4, <3>2, <3>3 DEF Stage
      <4>2. Reboot \/ PowerCut
        <5>1. pc # "main"
          BY <1>4, NoArgsNoJob DEF OutcomeInv, RestartInv, Cleared, BcbArgs, BcbJob
        <5> QED
          BY <2>4, <3>3, <5>1
          DEF Next, MainSystem, Program, Menu, RequestByFile, RequestByMisc, Asks, EnterByHand,
              BootLoader, GetArgs, Dispatch, Erase, Mkfs, AfterErase, ResizeOem, OpenResult,
              MountPackage, Engine, Flash, SdFlash, Installed, WriteResult, SdUpdate, Decide,
              SdWait, FinishBcb, FinishUnlink, FinishSync, MenuReboot, MenuWipe, MenuApply,
              Sideload, ToggleText, ProgramBcb, WriteBackBcb, WriteBackUserdata, vars
      <4>3. UNCHANGED fw /\ (BcbJob \in EraseJobs => ud'.fs = ud.fs)
        BY <1>4, <4>2 DEF Reboot, PowerCut, OutcomeInv, Owned
      <4>4. status' = "success"
        BY <4>2, IdleType DEF Reboot, PowerCut
      <4>5. effect' = effect
        BY <1>0, <1>4, <2>1, <4>3, EffectIs, EffectTypes DEF JobNames
      <4> QED
        BY <1>0, <1>4, <3>1, <4>1, <4>4, <4>5
        DEF Abstract!Next, Abstract!Restart, Abstract!Working
    <3>4. CASE pc' \notin {"boot", "get_args"}
      <4>1. Stage' = "working"
        BY <1>0, <1>4, <3>2, <3>4 DEF Stage
      <4>2. CASE effect' = effect
        <5>1. status = "error" => status' = "error"
          BY <2>4, <3>4, FailureStays
        <5> QED
          BY <1>0, <1>4, <3>1, <4>1, <4>2, <5>1
          DEF Abstract!Next, Abstract!Fail, Abstract!Working, Abstract!vars
      <4>3. CASE /\ status = "success" /\ status' = "success"
                 /\ effect' \in {"partial", "done"}
        BY <1>0, <1>4, <3>1, <4>1, <4>3
        DEF Abstract!Next, Abstract!Begin, Abstract!Finish, Abstract!Working
      <4> QED
        BY <1>4, <2>1, <4>2, <4>3, EffectStep
    <3> QED
      BY <3>3, <3>4
  <2> QED
    BY <2>2, <2>3, <2>4
<1> QED
  BY <1>1, <1>2, <1>3, <1>4, JobStep DEF GetArgs

\* Every behaviour of the program, with any number of power cuts, failures and
\* visits to the menu, is one that the comment at the head of recovery.c
\* promises, but for the cut that hits a rewrite of the BCB: any other command
\* that is accepted stays accepted over every restart, and is only released
\* when its effect is complete or its attempt has failed.
THEOREM Implements ==
    ASSUME Honest
    PROVE  Spec => ImplementsAcceptedCommand
<1>1. Init => OutcomeInv
  BY OutcomeInit
<1>2. OutcomeInv /\ [Next]_vars => OutcomeInv'
  BY OutcomeStep
<1>3. Init => Abstract!Init
  <2>1. SUFFICES ASSUME Init PROVE Abstract!Init
    OBVIOUS
  <2>2. AcceptedJob = "none"
    BY <2>1 DEF Init, ZeroBcb, Lasting, AcceptedJob
  <2>3. EffectOf(AcceptedJob) = "none"
    BY <2>2 DEF EffectOf
  <2>4. Stage = "waiting"
    BY <2>2 DEF Stage
  <2> QED
    BY <2>2, <2>3, <2>4 DEF Abstract!Init
<1>4. OutcomeInv /\ OutcomeInv' /\ [Next]_vars => [Abstract!Next]_(Abstract!vars)
  BY RefinementStep
<1> QED
  BY <1>1, <1>2, <1>3, <1>4, PTL DEF Spec, ImplementsAcceptedCommand, Abstract!Spec

-----------------------------------------------------------------------------
(***************************************************************************)
(* A command is not carried out a second time.                             *)
(*                                                                         *)
(* CarriedOutOnce holds on every device, block or MTD, with every fault    *)
(* and every SD card, of the runs that no power cut has interrupted, when  *)
(* the commands fit in the BCB (one that is cut there is another command). *)
(* A command file that cannot be removed asks for its job again: then it   *)
(* is owed again.  EraseOnlyIfOwed holds over any number of power cuts on  *)
(* an MTD device without SD cards whose format reports its failures: a     *)
(* format that did nothing leaves the command file where a later run finds *)
(* it again.                                                               *)
(***************************************************************************)
\* The options of every command fit in the BCB.
CommandsFit == \A a \in Commands : Len(a) <= BcbCap

-----------------------------------------------------------------------------
(* Lists that fit.                                                         *)

\* No stored list of options is ever cut.
AllFit ==
    /\ Len(bcb.options) <= BcbCap /\ Len(bcbC.options) <= BcbCap
    /\ Len(ud.cmd) <= BcbCap /\ Len(udC.cmd) <= BcbCap

\* What get_args reads is one of the stored lists, or empty, and what it writes
\* back is that, or nothing; on MTD the block is ruined first.
LEMMA GetArgsStep ==
    ASSUME TypeOK, AllFit, GetArgs
    PROVE  \E b \in {bcbC, ZeroBcb} :
             /\ b = bcbC \/ "misc_read" \in Faults
             /\ \/ BcbArgs(b) # <<>> /\ args' = BcbArgs(b)
                \/ BcbArgs(b) = <<>> /\ args' \in {udC.cmd, <<>>}
             /\ Len(args') <= BcbCap
             /\ \/ /\ bcbC'.command = "boot-recovery" /\ bcbC'.named
                   /\ bcbC'.options = args'
                   /\ IF WriteBack THEN bcb' = bcb ELSE bcb' \in Ruins
                \/ "misc_write" \in Faults /\ UNCHANGED <<bcb, bcbC>>
                \/ ~WriteBack /\ bcb' \in Ruins /\ bcbC' = bcb'
<1>1. PICK b \in {bcbC, ZeroBcb}, found \in {FALSE, Mountable} :
        /\ "misc_read" \in Faults \/ b = bcbC
        /\ args' = IF BcbArgs(b) # <<>> THEN BcbArgs(b)
                   ELSE IF found THEN udC.cmd ELSE <<>>
        /\ SetBcb(Rearmed(b, args'))
  BY GetArgsTakes, Zenon
<1>2. b \in BcbType
  BY <1>1, ZeroBcbType DEF TypeOK, StorageType
<1>3. Len(args') <= BcbCap
  <2>1. Len(<<>>) <= BcbCap
    BY BcbCapAssumption
  <2>2. Len(BcbArgs(b)) <= BcbCap
    <3>1. BcbArgs(ZeroBcb) = <<>>
      BY DEF BcbArgs, ZeroBcb
    <3>2. BcbArgs(bcbC) \in {<<>>, bcbC.options}
      BY DEF BcbArgs
    <3> QED
      BY <1>1, <2>1, <3>1, <3>2 DEF AllFit
  <2> QED
    BY <1>1, <2>1, <2>2 DEF AllFit
<1>4. Rearmed(b, args').command = "boot-recovery" /\ Rearmed(b, args').named = TRUE
      /\ Rearmed(b, args').options = args'
  BY <1>2, <1>3, StoredFits DEF Rearmed, BcbType
<1>5. \/ /\ bcbC' = Rearmed(b, args')
         /\ IF WriteBack THEN bcb' = bcb ELSE bcb' \in Ruins
      \/ "misc_write" \in Faults /\ UNCHANGED <<bcb, bcbC>>
      \/ ~WriteBack /\ bcb' \in Ruins /\ bcbC' = bcb'
  BY <1>1 DEF SetBcb, bcbVars
<1> QED
  BY <1>1, <1>3, <1>4, <1>5

\* The other operations that write the BCB.
LEMMA BcbChanges ==
    ASSUME [Next]_vars
    PROVE  \/ UNCHANGED <<bcb, bcbC>>
           \/ \E p \in Packages : RequestByMisc(p)
           \/ GetArgs \/ FinishBcb \/ SdFlash
           \/ MenuApply
              /\ SetBcb([ZeroBcb EXCEPT !.command = "boot-recovery", !.named = TRUE])
           \/ FinishSync \/ Reboot \/ ProgramBcb \/ WriteBackBcb \/ PowerCut
BY DEF Next, MainSystem, Program, Menu, RequestByFile, EnterByHand, BootLoader, Dispatch,
    Erase, Mkfs, ResizeOem, OpenResult, MountPackage, Engine, Flash, Installed, WriteResult,
    SdUpdate, Decide, SdWait, FinishUnlink, MenuReboot, MenuWipe, MenuApply, Sideload,
    ToggleText, WriteBackUserdata, bcbVars, vars

\* What the others leave in the kernel's view.
LEMMA KernelBcb ==
    ASSUME [Next]_vars
    PROVE  \/ UNCHANGED bcbC
           \/ ~WriteBack /\ bcbC' \in Ruins /\ bcb' = bcbC'
           \/ \E p \in Packages :
                /\ RequestByMisc(p) /\ (WriteBack => bcb' = bcbC')
                /\ bcbC'.command = "boot-recovery" /\ bcbC'.named /\ bcbC'.options = <<p>>
           \/ GetArgs
           \/ FinishBcb /\ bcbC'.command = "none" /\ ~bcbC'.named /\ bcbC'.options = <<>>
           \/ SdFlash /\ bcb' = bcbC' /\ bcbC'.command = "boot-recovery" /\ bcbC'.named
              /\ bcbC'.options = <<"wipe_all">> /\ owed' = owed \cup {"wipe_all"}
           \/ MenuApply /\ bcbC'.command = "boot-recovery" /\ bcbC'.options = <<>>
           \/ PowerCut /\ bcbC' = bcb
<1>0. ASSUME NEW b, SetBcb(b)
      PROVE  bcbC' = b \/ UNCHANGED bcbC \/ (~WriteBack /\ bcbC' \in Ruins /\ bcb' = bcbC')
  BY <1>0 DEF SetBcb, bcbVars
<1>1. ASSUME NEW p \in Packages, RequestByMisc(p)
      PROVE  \/ UNCHANGED bcbC
             \/ ~WriteBack /\ bcbC' \in Ruins /\ bcb' = bcbC'
             \/ /\ WriteBack => bcb' = bcbC'
                /\ bcbC'.command = "boot-recovery" /\ bcbC'.named /\ bcbC'.options = <<p>>
  <2>1. \/ UNCHANGED bcbC
        \/ ~WriteBack /\ bcbC' \in Ruins /\ bcb' = bcbC'
        \/ (WriteBack => bcb' = bcbC') /\ bcbC' = UpdateBcb(p)
    BY <1>0, <1>1 DEF RequestByMisc
  <2>2. /\ UpdateBcb(p).command = "boot-recovery" /\ UpdateBcb(p).named = TRUE
        /\ UpdateBcb(p).options = <<p>>
    BY DEF UpdateBcb
  <2> QED
    BY <2>1, <2>2
<1>2. CASE FinishBcb
  <2>1. Erased(flag).command = "none" /\ Erased(flag).named = FALSE
        /\ Erased(flag).options = <<>>
    BY DEF Erased, ZeroBcb
  <2> QED
    BY <1>0, <1>2, <2>1 DEF FinishBcb
<1>3. CASE SdFlash
  <2>1. \/ UNCHANGED bcbC
        \/ bcb' = ImageBcb /\ bcbC' = ImageBcb /\ owed' = owed \cup {"wipe_all"}
    BY <1>3 DEF SdFlash, bcbVars
  <2>2. /\ ImageBcb.command = "boot-recovery" /\ ImageBcb.named = TRUE
        /\ ImageBcb.options = <<"wipe_all">>
    BY DEF ImageBcb, ZeroBcb
  <2> QED
    BY <1>3, <2>1, <2>2
<1>4. ASSUME SetBcb([ZeroBcb EXCEPT !.command = "boot-recovery", !.named = TRUE])
      PROVE  \/ UNCHANGED bcbC
             \/ ~WriteBack /\ bcbC' \in Ruins /\ bcb' = bcbC'
             \/ bcbC'.command = "boot-recovery" /\ bcbC'.options = <<>>
  <2>1. PICK b : b = [ZeroBcb EXCEPT !.command = "boot-recovery", !.named = TRUE]
    OBVIOUS
  <2>2. b.command = "boot-recovery" /\ b.options = <<>>
    BY <2>1 DEF ZeroBcb
  <2> QED
    BY <1>0, <1>4, <2>1, <2>2
<1>5. CASE FinishSync \/ Reboot \/ ProgramBcb \/ WriteBackBcb \/ PowerCut
  BY <1>5 DEF FinishSync, Reboot, ProgramBcb, WriteBackBcb, PowerCut
<1> QED
  BY <1>1, <1>2, <1>3, <1>4, <1>5, BcbChanges

\* What every step leaves on the medium.
LEMMA MediumBcb ==
    ASSUME [Next]_vars
    PROVE  bcb' \in {bcb, bcbC'} \/ (~WriteBack /\ bcb' \in Ruins)
<1>1. ASSUME NEW b, SetBcb(b)
      PROVE  bcb' \in {bcb, bcbC'} \/ (~WriteBack /\ bcb' \in Ruins)
  BY <1>1 DEF SetBcb, bcbVars
<1>2. CASE GetArgs
  BY <1>1, <1>2 DEF GetArgs
<1>3. ASSUME NEW p \in Packages, RequestByMisc(p)
      PROVE  bcb' \in {bcb, bcbC'} \/ (~WriteBack /\ bcb' \in Ruins)
  BY <1>1, <1>3 DEF RequestByMisc
<1>4. CASE FinishBcb \/ SetBcb([ZeroBcb EXCEPT !.command = "boot-recovery", !.named = TRUE])
  BY <1>1, <1>4 DEF FinishBcb
<1>5. CASE SdFlash \/ FinishSync \/ Reboot \/ ProgramBcb \/ WriteBackBcb \/ PowerCut
           \/ UNCHANGED <<bcb, bcbC>>
  BY <1>5 DEF SdFlash, FinishSync, Reboot, ProgramBcb, WriteBackBcb, PowerCut, bcbVars
<1> QED
  BY <1>2, <1>3, <1>4, <1>5, BcbChanges

\* What every step leaves in the command file.
LEMMA CommandFile ==
    ASSUME TypeOK, [Next]_vars
    PROVE  \/ \E a \in Commands : RequestByFile(a) /\ ud'.cmd = a /\ udC'.cmd = a
           \/ \E p \in Packages : RequestByMisc(p) /\ ud'.cmd = udC.cmd /\ udC'.cmd = udC.cmd
           \/ Erase /\ pc' = "mkfs" /\ ud' = udC /\ udC'.cmd = <<>>
           \/ Mkfs /\ ud'.cmd = <<>> /\ udC'.cmd = <<>>
           \/ FinishUnlink /\ ud' = ud /\ udC'.cmd \in {<<>>, udC.cmd}
           \/ PowerCut /\ ud' = ud /\ udC' = ud
           \/ ud'.cmd = ud.cmd /\ udC'.cmd = udC.cmd
           \/ /\ ud'.cmd = udC.cmd /\ udC'.cmd = udC.cmd
<1>0. ud \in VolumeType /\ udC \in VolumeType
  BY DEF TypeOK, StorageType
<1>1. ASSUME NEW a \in Commands, RequestByFile(a)
      PROVE  ud'.cmd = a /\ udC'.cmd = a
  BY <1>0, <1>1, InUseType DEF RequestByFile, VolumeType
<1>2. ASSUME NEW p \in Packages, RequestByMisc(p)
      PROVE  ud'.cmd = udC.cmd /\ udC'.cmd = udC.cmd
  BY <1>0, <1>2 DEF RequestByMisc, InUse, VolumeType
<1>3. CASE Erase \/ Mkfs
  <2>1. \A fs : Volume(fs).cmd = <<>>
    BY DEF Volume
  <2>2. \/ Erase /\ pc' = "mkfs" /\ ud' = udC /\ udC' = Volume("partial")
        \/ Mkfs /\ ud' = Volume("fresh") /\ udC' = Volume("fresh")
        \/ ud' \in {ud, udC} /\ UNCHANGED udC
    BY <1>3 DEF Erase, Mkfs, udVars
  <2> QED
    BY <2>1, <2>2
<1>4. CASE OpenResult \/ Installed \/ WriteResult
  BY <1>0, <1>4 DEF OpenResult, Installed, WriteResult, VolumeType
<1>5. CASE FinishUnlink
  BY <1>0, <1>5 DEF FinishUnlink, FileStays, Unlinked, VolumeType
<1>6. CASE FinishSync \/ Reboot \/ WriteBackUserdata \/ PowerCut
  BY <1>6 DEF FinishSync, Reboot, WriteBackUserdata, PowerCut
<1>7. CASE UNCHANGED udVars
  BY <1>7 DEF udVars
<1>8. \/ \E a \in Commands : RequestByFile(a)
      \/ \E p \in Packages : RequestByMisc(p)
      \/ Erase \/ Mkfs \/ OpenResult \/ Installed \/ WriteResult \/ FinishUnlink
      \/ FinishSync \/ Reboot \/ WriteBackUserdata \/ PowerCut \/ UNCHANGED udVars
  BY DEF Next, MainSystem, Program, Menu, EnterByHand, BootLoader, GetArgs, Dispatch,
      ResizeOem, MountPackage, Engine, Flash, SdFlash, SdUpdate, Decide, SdWait, FinishBcb,
      MenuReboot, MenuWipe, MenuApply, Sideload, ToggleText, ProgramBcb, WriteBackBcb, vars
<1> QED
  BY <1>1, <1>2, <1>3, <1>4, <1>5, <1>6, <1>7, <1>8

LEMMA AllFitStep ==
    ASSUME CommandsFit, TypeOK, AllFit, [Next]_vars
    PROVE  AllFit'
<1>1. Len(<<>>) <= BcbCap /\ \A x : Len(<<x>>) <= BcbCap
  BY BcbCapAssumption
<1>2. Len(bcbC'.options) <= BcbCap
  <2>1. \A b \in Ruins : Len(b.options) <= BcbCap
    BY <1>1, RuinsType
  <2>2. GetArgs => Len(bcbC'.options) <= BcbCap
    BY <2>1, GetArgsStep DEF AllFit
  <2> QED
    BY <1>1, <2>1, <2>2, KernelBcb DEF AllFit
<1>3. Len(bcb'.options) <= BcbCap
  <2>1. \A b \in Ruins : Len(b.options) <= BcbCap
    BY <1>1, RuinsType
  <2> QED
    BY <1>2, <2>1, MediumBcb DEF AllFit
<1>4. Len(ud'.cmd) <= BcbCap /\ Len(udC'.cmd) <= BcbCap
  BY <1>1, CommandFile DEF AllFit, CommandsFit
<1> QED
  BY <1>2, <1>3, <1>4 DEF AllFit

-----------------------------------------------------------------------------
(* CarriedOutOnce.                                                         *)

\* On a block device the command is gone from the kernel's view of the BCB only
\* while finish_recovery goes on to remove the command file, or from both.
Withdrawn ==
    /\ bcb.command = "none" => ~bcb.named
    /\ bcbC.command = "none" => ~bcbC.named
    /\ WriteBack /\ bcbC.command = "none" /\ bcb.command # "none" =>
         pc \in {"finish_unlink", "finish_sync"}

\* A volume that is being formatted has no command file.
NoFileOnPartial ==
    /\ ud.fs = "partial" => ud.cmd = <<>>
    /\ udC.fs = "partial" => udC.cmd = <<>>

\* While the power stays on, whatever would be carried out next is owed.
OwedWithoutCuts ==
    cuts = 0 =>
        /\ BcbArgs(bcbC) # <<>> => CommandJob(BcbArgs(bcbC)) \in owed
        /\ pc # "finish_unlink" /\ udC.cmd # <<>> => CommandJob(udC.cmd) \in owed
        /\ pc \in TaskPcs /\ ctx = "main" /\ args # <<>> => CommandJob(args) \in owed

OnceInv ==
    TypeOK /\ AllFit /\ Withdrawn /\ NoFileOnPartial /\ OwedWithoutCuts
    /\ (pc = "menu" => ctx = "menu")

LEMMA NoFileOnPartialStep ==
    ASSUME TypeOK, NoFileOnPartial, [Next]_vars
    PROVE  NoFileOnPartial'
<1>0. ud \in VolumeType /\ udC \in VolumeType
  BY DEF TypeOK, StorageType
<1>1. ASSUME NEW a \in Commands, RequestByFile(a) PROVE NoFileOnPartial'
  <2>1. ud' = [InUse(udC, a) EXCEPT !.cmd = a] /\ udC' = ud'
    BY <1>1 DEF RequestByFile
  <2>2. ud'.fs = "user" /\ udC'.fs = "user"
    BY <1>0, <2>1 DEF InUse, VolumeType
  <2> QED
    BY <2>2 DEF NoFileOnPartial
<1>2. ASSUME NEW p \in Packages, RequestByMisc(p) PROVE NoFileOnPartial'
  BY <1>0, <1>2 DEF RequestByMisc, InUse, VolumeType, NoFileOnPartial
<1>3. CASE Erase \/ Mkfs
  <2>1. \A fs : Volume(fs).cmd = <<>>
    BY DEF Volume
  <2>2. /\ ud' \in {ud, udC, Volume("fresh")}
        /\ udC' \in {udC, Volume("partial"), Volume("fresh")}
    BY <1>3 DEF Erase, Mkfs, udVars
  <2> QED
    BY <2>1, <2>2 DEF NoFileOnPartial
<1>4. CASE OpenResult \/ Installed \/ WriteResult
  BY <1>0, <1>4 DEF OpenResult, Installed, WriteResult, VolumeType, NoFileOnPartial
<1>5. CASE FinishUnlink
  BY <1>0, <1>5 DEF FinishUnlink, FileStays, Unlinked, VolumeType, NoFileOnPartial
<1>6. CASE FinishSync \/ Reboot \/ WriteBackUserdata \/ PowerCut
  BY <1>6 DEF FinishSync, Reboot, WriteBackUserdata, PowerCut, NoFileOnPartial
<1>7. CASE UNCHANGED udVars
  BY <1>7 DEF udVars, NoFileOnPartial
<1>8. \/ \E a \in Commands : RequestByFile(a)
      \/ \E p \in Packages : RequestByMisc(p)
      \/ Erase \/ Mkfs \/ OpenResult \/ Installed \/ WriteResult \/ FinishUnlink
      \/ FinishSync \/ Reboot \/ WriteBackUserdata \/ PowerCut \/ UNCHANGED udVars
  BY DEF Next, MainSystem, Program, Menu, EnterByHand, BootLoader, GetArgs, Dispatch,
      ResizeOem, MountPackage, Engine, Flash, SdFlash, SdUpdate, Decide, SdWait, FinishBcb,
      MenuReboot, MenuWipe, MenuApply, Sideload, ToggleText, ProgramBcb, WriteBackBcb, vars
<1> QED
  BY <1>1, <1>2, <1>3, <1>4, <1>5, <1>6, <1>7, <1>8

\* The requests that a step adds to what is owed, and the one it takes away.
LEMMA OwedStep ==
    ASSUME [Next]_vars
    PROVE  \/ \E a \in Commands : RequestByFile(a) /\ owed' = owed \cup {CommandJob(a)}
           \/ \E p \in Packages : RequestByMisc(p) /\ owed' = owed \cup {CommandJob(<<p>>)}
           \/ SdFlash /\ owed' = owed \cup {"wipe_all"}
           \/ FinishUnlink /\ owed' = owed \cup {CommandJob(udC.cmd)}
           \/ UNCHANGED owed
           \/ /\ FinishBcb \/ FinishSync \/ WriteBackBcb
              /\ Lasting.command # "none" /\ Lasting'.command = "none"
              /\ owed' = owed \ ({CommandJob(args)} \ Stays)
<1>1. ASSUME Settle
      PROVE  \/ UNCHANGED owed
             \/ /\ Lasting.command # "none" /\ Lasting'.command = "none"
                /\ owed' = owed \ ({CommandJob(args)} \ Stays)
  BY <1>1, Zenon DEF Settle
<1>2. CASE FinishBcb \/ FinishSync \/ WriteBackBcb
  BY <1>1, <1>2 DEF FinishBcb, FinishSync, WriteBackBcb
<1>3. CASE FinishUnlink
  BY <1>3 DEF FinishUnlink, FileStays
<1> QED
  BY <1>2, <1>3, ZenonT(60) DEF Next, MainSystem, Program, Menu, RequestByFile, RequestByMisc,
    Asks, EnterByHand, BootLoader, GetArgs, Dispatch, Erase, Mkfs, ResizeOem, OpenResult,
    MountPackage, Engine, Flash, SdFlash, Installed, WriteResult, SdUpdate, Decide, SdWait,
    Reboot, MenuReboot, MenuWipe, MenuApply, Sideload, ToggleText, ProgramBcb,
    WriteBackUserdata, PowerCut, ghosts, vars

\* main()'s task starts with what get_args returned, or from an SD card and
\* without arguments, and keeps the arguments it started with.
LEMMA TaskArgs ==
    ASSUME [Next]_vars, pc = "menu" => ctx = "menu",
           pc' \in TaskPcs, ctx' = "main", args' # <<>>
    PROVE  \/ GetArgs
           \/ pc \in TaskPcs /\ ctx = "main" /\ UNCHANGED args
<1>1. CASE BootLoader
  BY <1>1 DEF BootLoader, SetRun, Idle, TaskPcs
<1>2. CASE Dispatch \/ ResizeOem \/ OpenResult \/ MountPackage \/ Engine \/ Flash \/ SdFlash
           \/ Installed \/ WriteResult \/ SdUpdate \/ Decide
  BY <1>2
  DEF Dispatch, ResizeOem, OpenResult, MountPackage, Engine, Flash, SdFlash, Installed,
      WriteResult, SdUpdate, Decide, TaskPcs
<1>3. CASE Erase \/ Mkfs
  BY <1>3 DEF Erase, Mkfs, AfterErase, TaskPcs
<1>4. CASE SdWait \/ FinishBcb \/ FinishUnlink \/ FinishSync \/ Reboot \/ PowerCut
           \/ MenuReboot \/ MenuWipe \/ MenuApply \/ Sideload \/ MainSystem
  BY <1>4
  DEF SdWait, FinishBcb, FinishUnlink, FinishSync, Reboot, PowerCut, MenuReboot, MenuWipe,
      MenuApply, Sideload, MainSystem, RequestByFile, RequestByMisc, Asks, EnterByHand,
      TaskPcs, runVars
<1>5. CASE ToggleText \/ ProgramBcb \/ WriteBackBcb \/ WriteBackUserdata \/ UNCHANGED vars
  BY <1>5 DEF ToggleText, ProgramBcb, WriteBackBcb, WriteBackUserdata, runVars, vars
<1> QED
  BY <1>1, <1>2, <1>3, <1>4, <1>5 DEF Next, Program, Menu

\* The menu is only reached through prompt_and_wait.
LEMMA MenuContext ==
    ASSUME pc = "menu" => ctx = "menu", [Next]_vars, pc' = "menu"
    PROVE  ctx' = "menu"
<1>1. FinishSync \/ UNCHANGED <<pc, ctx>>
  BY DEF Next, MainSystem, Program, Menu, RequestByFile, RequestByMisc, Asks,
      EnterByHand, BootLoader, GetArgs, Dispatch, Erase, Mkfs, AfterErase, ResizeOem,
      OpenResult, MountPackage, Engine, Flash, SdFlash, Installed, WriteResult, SdUpdate,
      Decide, SdWait, FinishBcb, FinishUnlink, Reboot, MenuReboot, MenuWipe, MenuApply,
      Sideload, ToggleText, ProgramBcb, WriteBackBcb, WriteBackUserdata, PowerCut, runVars, vars
<1> QED
  BY <1>1 DEF FinishSync, runVars

LEMMA WithdrawnStep ==
    ASSUME OnceInv, [Next]_vars
    PROVE  Withdrawn'
<1>0. /\ Withdrawn /\ TypeOK /\ AllFit
      /\ bcbC.command \in {"none", "boot-recovery"}
  BY DEF OnceInv, TypeOK, StorageType, BcbType
<1>1. bcbC'.command = "none" => ~bcbC'.named
  <2>1. CASE GetArgs
    BY <1>0, <2>1, GetArgsStep, RuinsType DEF Withdrawn
  <2>2. CASE ~GetArgs
    BY <1>0, <2>2, KernelBcb, RuinsType DEF Withdrawn
  <2> QED
    BY <2>1, <2>2
<1>2. bcb'.command = "none" => ~bcb'.named
  BY <1>0, <1>1, MediumBcb, RuinsType DEF Withdrawn
<1>3. WriteBack /\ bcbC'.command = "none" /\ bcb'.command # "none" =>
        pc' \in {"finish_unlink", "finish_sync"}
  <2>1. SUFFICES ASSUME WriteBack, bcbC'.command = "none", bcb'.command # "none"
                 PROVE  pc' \in {"finish_unlink", "finish_sync"}
    OBVIOUS
  <2>2. bcb' = bcb
    BY <2>1, MediumBcb
  <2>3. CASE FinishBcb
    BY <2>3 DEF FinishBcb
  <2>4. CASE ~FinishBcb
    <3>1. bcbC.command = "none"
      <4>1. CASE GetArgs
        BY <1>0, <2>1, <4>1, GetArgsStep
      <4>2. CASE ~GetArgs
        BY <2>1, <2>2, <2>4, <4>2, KernelBcb
      <4> QED
        BY <4>1, <4>2
    <3>2. pc \in {"finish_unlink", "finish_sync"}
      BY <1>0, <2>1, <2>2, <3>1 DEF Withdrawn
    <3>3. ~FinishSync /\ ~PowerCut
      BY <2>1 DEF FinishSync, PowerCut
    <3> QED
      BY <2>4, <3>2, <3>3
      DEF Next, MainSystem, Program, Menu, RequestByFile, RequestByMisc, Asks, EnterByHand,
          BootLoader, GetArgs, Dispatch, Erase, Mkfs, ResizeOem, OpenResult, MountPackage,
          Engine, Flash, SdFlash, Installed, WriteResult, SdUpdate, Decide, SdWait,
          FinishUnlink, Reboot, MenuReboot, MenuWipe, MenuApply, Sideload, ToggleText,
          ProgramBcb, WriteBackBcb, WriteBackUserdata, vars
  <2> QED
    BY <2>3, <2>4
<1> QED
  BY <1>1, <1>2, <1>3 DEF Withdrawn

\* A settled request is out of the kernel's view of the BCB; the command file is
\* yet to be removed, or is gone, or still asks for its job.
LEMMA SettledStep ==
    ASSUME OnceInv, FinishBcb \/ FinishSync \/ WriteBackBcb,
           Lasting.command # "none", Lasting'.command = "none"
    PROVE  /\ BcbArgs(bcbC') = <<>> /\ pc' \notin TaskPcs /\ UNCHANGED udC
           /\ pc' # "finish_unlink" => pc = "finish_sync"
<1>0. Withdrawn
  BY DEF OnceInv
<1>1. CASE FinishBcb
  <2>1. \/ bcbC' = Erased(flag) \/ bcbC' \in Ruins \/ UNCHANGED <<bcb, bcbC>>
    BY <1>1 DEF FinishBcb, SetBcb, bcbVars
  <2>2. ~UNCHANGED <<bcb, bcbC>>
    BY Zenon DEF Lasting
  <2>3. BcbArgs(Erased(flag)) = <<>>
    BY DEF Erased, ZeroBcb, BcbArgs
  <2> QED
    BY <1>1, <2>1, <2>2, <2>3, RuinsType DEF FinishBcb, TaskPcs, udVars
<1>2. CASE FinishSync \/ WriteBackBcb
  <2>1. bcb' = bcbC /\ UNCHANGED <<bcbC, udC>>
    BY <1>2 DEF FinishSync, WriteBackBcb, udVars
  <2>2. WriteBack /\ bcb.command # "none" /\ bcbC.command = "none"
    BY <2>1 DEF Lasting
  <2>3. pc \in {"finish_unlink", "finish_sync"}
    BY <1>0, <2>2 DEF Withdrawn
  <2>4. BcbArgs(bcbC') = <<>>
    BY <1>0, <2>1, <2>2 DEF Withdrawn, BcbArgs
  <2> QED
    BY <1>2, <2>1, <2>3, <2>4 DEF FinishSync, WriteBackBcb, TaskPcs
<1> QED
  BY <1>1, <1>2

LEMMA OwedWithoutCutsStep ==
    ASSUME CommandsFit, OnceInv, [Next]_vars
    PROVE  OwedWithoutCuts'
<1> SUFFICES ASSUME cuts' = 0 PROVE OwedWithoutCuts'
  BY DEF OwedWithoutCuts
<1>0. /\ TypeOK /\ AllFit /\ Withdrawn
      /\ cuts \in Nat /\ (pc = "menu" => ctx = "menu")
  BY BoundsAssumption DEF OnceInv, TypeOK, DeviceType
<1>1. ~PowerCut /\ cuts = 0
  <2>1. ~PowerCut
    BY <1>0 DEF PowerCut
  <2>2. cuts' = cuts \/ PowerCut
    BY DEF Next, MainSystem, Program, Menu, RequestByFile, RequestByMisc, Asks, EnterByHand,
        BootLoader, GetArgs, Dispatch, Erase, Mkfs, ResizeOem, OpenResult, MountPackage,
        Engine, Flash, SdFlash, Installed, WriteResult, SdUpdate, Decide, SdWait, FinishBcb,
        FinishUnlink, FinishSync, Reboot, MenuReboot, MenuWipe, MenuApply, Sideload,
        ToggleText, ProgramBcb, WriteBackBcb, WriteBackUserdata, bounds, vars
  <2> QED
    BY <2>1, <2>2
<1>2. /\ BcbArgs(bcbC) # <<>> => CommandJob(BcbArgs(bcbC)) \in owed
      /\ pc # "finish_unlink" /\ udC.cmd # <<>> => CommandJob(udC.cmd) \in owed
      /\ pc \in TaskPcs /\ ctx = "main" /\ args # <<>> => CommandJob(args) \in owed
  BY <1>1 DEF OnceInv, OwedWithoutCuts
<1> DEFINE Settles == /\ FinishBcb \/ FinishSync \/ WriteBackBcb
                      /\ Lasting.command # "none" /\ Lasting'.command = "none"
<1>3. ~Settles => owed \subseteq owed'
  BY OwedStep
<1>4. BcbArgs(bcbC') # <<>> => CommandJob(BcbArgs(bcbC')) \in owed'
  <2>1. SUFFICES ASSUME BcbArgs(bcbC') # <<>> PROVE CommandJob(BcbArgs(bcbC')) \in owed'
    OBVIOUS
  <2>2. owed \subseteq owed'
    BY <1>3, <2>1, SettledStep
  <2>3. CASE GetArgs
    <3>1. pc = "get_args"
      BY <2>3 DEF GetArgs
    <3>2. \/ bcbC' = bcbC
          \/ BcbArgs(bcbC') \in {BcbArgs(bcbC), udC.cmd, <<>>}
      <4>1. BcbArgs(ZeroBcb) = <<>>
        BY DEF BcbArgs, ZeroBcb
      <4>2. \/ bcbC' = bcbC \/ bcbC' \in Ruins
            \/ bcbC'.named /\ bcbC'.options = args'
        BY <1>0, <2>3, GetArgsStep
      <4>3. args' \in {BcbArgs(bcbC), udC.cmd, <<>>}
        BY <1>0, <2>3, <4>1, GetArgsStep
      <4>4. bcbC'.named /\ bcbC'.options = args' => BcbArgs(bcbC') = args'
        BY DEF BcbArgs
      <4> QED
        BY <4>2, <4>3, <4>4, RuinsType
    <3> QED
      BY <1>2, <2>1, <2>2, <3>1, <3>2
  <2>4. ASSUME NEW p \in Packages, RequestByMisc(p), bcbC'.named, bcbC'.options = <<p>>
        PROVE  CommandJob(BcbArgs(bcbC')) \in owed'
    <3>1. BcbArgs(bcbC') = <<p>>
      BY <2>4 DEF BcbArgs
    <3>2. owed' = owed \cup {CommandJob(<<p>>)}
      BY <2>4 DEF RequestByMisc, Asks
    <3> QED
      BY <3>1, <3>2
  <2>5. ASSUME bcbC'.named, bcbC'.options = <<"wipe_all">>, owed' = owed \cup {"wipe_all"}
        PROVE  CommandJob(BcbArgs(bcbC')) \in owed'
    <3>1. BcbArgs(bcbC') = <<"wipe_all">>
      BY <2>5 DEF BcbArgs
    <3>2. ToSet(<<"wipe_all">>) = {"wipe_all"}
      BY DEF ToSet
    <3>3. CommandJob(<<"wipe_all">>) = "wipe_all"
      BY <3>2 DEF CommandJob
    <3> QED
      BY <2>5, <3>1, <3>3
  <2>6. CASE bcbC'.options = <<>> \/ ~bcbC'.named
    BY <2>1, <2>6 DEF BcbArgs
  <2>7. CASE UNCHANGED bcbC
    BY <1>2, <2>1, <2>2, <2>7
  <2>8. bcbC' \notin Ruins
    BY <2>1, RuinsType
  <2> QED
    BY <1>1, <2>3, <2>4, <2>5, <2>6, <2>7, <2>8, KernelBcb
<1>5. pc' # "finish_unlink" /\ udC'.cmd # <<>> => CommandJob(udC'.cmd) \in owed'
  <2>1. SUFFICES ASSUME pc' # "finish_unlink", udC'.cmd # <<>>
                 PROVE  CommandJob(udC'.cmd) \in owed'
    OBVIOUS
  <2>2. CASE \E a \in Commands : RequestByFile(a) /\ udC'.cmd = a
    <3>1. PICK a \in Commands : RequestByFile(a) /\ udC'.cmd = a
      BY <2>2
    <3>2. owed' = owed \cup {CommandJob(a)}
      BY <3>1 DEF RequestByFile, Asks
    <3> QED
      BY <3>1, <3>2
  <2>3. CASE Settles
    <3>1. UNCHANGED udC /\ pc = "finish_sync"
      BY <2>1, <2>3, SettledStep
    <3>2. CommandJob(udC.cmd) \in owed
      BY <1>2, <2>1, <3>1
    <3>3. Stays = {CommandJob(udC.cmd)}
      BY <2>1, <3>1 DEF Stays
    <3> QED
      BY <3>1, <3>2, <3>3, OwedStep
  <2>4. CASE pc = "finish_unlink" /\ ~Settles
    <3>1. FinishUnlink
      BY <1>1, <2>1, <2>4
      DEF Next, MainSystem, Program, Menu, RequestByFile, RequestByMisc, Asks,
          EnterByHand, BootLoader, GetArgs, Dispatch, Erase, Mkfs, ResizeOem, OpenResult,
          MountPackage, Engine, Flash, SdFlash, Installed, WriteResult, SdUpdate, Decide,
          SdWait, FinishBcb, FinishSync, Reboot, MenuReboot, MenuWipe, MenuApply,
          Sideload, ToggleText, ProgramBcb, WriteBackBcb, WriteBackUserdata, vars
    <3>2. Unlinked(udC).cmd = <<>>
      BY <1>0 DEF Unlinked, TypeOK, StorageType, VolumeType
    <3>3. FileStays
      BY <2>1, <3>1, <3>2 DEF FinishUnlink
    <3> QED
      BY <3>3 DEF FileStays
  <2>5. CASE pc # "finish_unlink" /\ ~Settles /\ udC'.cmd = udC.cmd
    BY <1>2, <1>3, <2>1, <2>5
  <2>6. \/ \E a \in Commands : RequestByFile(a) /\ udC'.cmd = a
        \/ udC'.cmd = udC.cmd
    BY <1>0, <1>1, <2>1, CommandFile
  <2> QED
    BY <2>2, <2>3, <2>4, <2>5, <2>6
<1>6. pc' \in TaskPcs /\ ctx' = "main" /\ args' # <<>> => CommandJob(args') \in owed'
  <2>1. SUFFICES ASSUME pc' \in TaskPcs, ctx' = "main", args' # <<>>
                 PROVE  CommandJob(args') \in owed'
    OBVIOUS
  <2>2. owed \subseteq owed'
    BY <1>3, <2>1, SettledStep
  <2>3. CASE GetArgs
    <3>1. pc = "get_args"
      BY <2>3 DEF GetArgs
    <3>2. args' \in {BcbArgs(bcbC), udC.cmd, <<>>}
      <4>1. BcbArgs(ZeroBcb) = <<>>
        BY DEF BcbArgs, ZeroBcb
      <4> QED
        BY <1>0, <2>3, <4>1, GetArgsStep
    <3> QED
      BY <1>2, <2>1, <2>2, <3>1, <3>2
  <2> QED
    BY <1>0, <1>2, <2>1, <2>2, <2>3, TaskArgs
<1> QED
  BY <1>4, <1>5, <1>6 DEF OwedWithoutCuts

LEMMA OnceInit ==
    ASSUME Init
    PROVE  OnceInv
<1>1. Len(<<>>) <= BcbCap
  BY BcbCapAssumption
<1>2. TypeOK
  BY InitType
<1>3. /\ bcb.options = <<>> /\ bcb.named = FALSE /\ bcb.command = "none" /\ bcbC = bcb
      /\ ud.cmd = <<>> /\ udC = ud /\ pc = "main"
  BY DEF Init, ZeroBcb, Volume
<1>4. AllFit /\ Withdrawn /\ NoFileOnPartial
  BY <1>1, <1>3 DEF AllFit, Withdrawn, NoFileOnPartial
<1>5. OwedWithoutCuts
  BY <1>3 DEF OwedWithoutCuts, BcbArgs, TaskPcs
<1> QED
  BY <1>2, <1>3, <1>4, <1>5 DEF OnceInv

\* No command is carried out a second time while the power stays on: not by
\* the restart after it, not from the menu, not through the command file that
\* finish_recovery removes second, and not when the BCB cannot be read or
\* written, or only reaches its medium later.  Only a file that finish_recovery
\* could not remove, or could not reach, is carried out again.
THEOREM CarriedOut ==
    ASSUME CommandsFit
    PROVE  Spec => []CarriedOutOnce
<1>1. Init => OnceInv
  BY OnceInit
<1>2. ASSUME OnceInv, [Next]_vars PROVE OnceInv'
  <2>1. TypeOK'
    BY <1>2, StorageStep, RunStep, DeviceStep DEF TypeOK, OnceInv
  <2>2. AllFit' /\ NoFileOnPartial'
    BY <1>2, AllFitStep, NoFileOnPartialStep DEF OnceInv
  <2>3. (pc = "menu" => ctx = "menu")'
    BY <1>2, MenuContext DEF OnceInv
  <2> QED
    BY <1>2, <2>1, <2>2, <2>3, WithdrawnStep, OwedWithoutCutsStep DEF OnceInv
<1>3. OnceInv => CarriedOutOnce
  BY DEF OnceInv, OwedWithoutCuts, CarriedOutOnce
<1> QED
  BY <1>1, <1>2, <1>3, PTL DEF Spec

-----------------------------------------------------------------------------
(* EraseOnlyIfOwed.                                                        *)

\* An MTD device, booted without a card, whose format reports its failures.
FormatReports ==
    /\ CommandsFit /\ ~WriteBack /\ SdCards = {"none"}
    /\ "umount" \notin Faults /\ "mkfs" \notin Faults

\* Arguments that make main() erase /userdata.
Erases(a) == CommandJob(a) \in EraseJobs /\ "fs_bad" \notin ToSet(a)

\* The places before an erase is known to be complete.
BeforeErased == {"main", "boot", "get_args", "dispatch", "erase", "mkfs"}

\* The medium has the BCB or what an erasure left of it, and nothing is cached
\* of /userdata when the program is entered.
Plain ==
    /\ bcb = bcbC \/ bcb \in Ruins
    /\ sd = "none"
    /\ bcbC.command = "none" => ~bcbC.named
    /\ pc = "main" => bcbC.command = "none"
    /\ pc \in {"main", "boot", "get_args", "dispatch"} => ud = udC
    /\ pc = "menu" => ctx = "menu"

\* Every erase that a restart or this run would carry out is owed.
Debts ==
    /\ Erases(ud.cmd) => CommandJob(ud.cmd) \in owed
    /\ Erases(udC.cmd) => CommandJob(udC.cmd) \in owed
    /\ Erases(BcbArgs(bcbC)) => CommandJob(BcbArgs(bcbC)) \in owed
    /\ pc \in {"dispatch", "erase", "mkfs"} /\ ctx = "main" /\ Erases(args) =>
         CommandJob(args) \in owed
    /\ pc \in {"erase", "mkfs"} /\ ctx = "main" => Erases(args)

\* The command file holds the erase that is in the BCB or that this run works
\* on, or no longer: once the erase is over, the file is gone with its volume.
Carried ==
    /\ CommandJob(BcbArgs(bcbC)) \in EraseJobs =>
         ud.cmd \in {<<>>, BcbArgs(bcbC)} /\ udC.cmd \in {<<>>, BcbArgs(bcbC)}
    /\ pc \notin {"main", "boot", "get_args"} /\ CommandJob(args) \in EraseJobs =>
         ud.cmd \in {<<>>, args} /\ udC.cmd \in {<<>>, args}
    /\ pc \notin BeforeErased /\ Erases(args) => ~Erases(ud.cmd) /\ ~Erases(udC.cmd)

DebtInv == TypeOK /\ AllFit /\ NoFileOnPartial /\ Plain /\ Debts /\ Carried

LEMMA NothingErases == ~Erases(<<>>)
BY DEF Erases, CommandJob, ToSet, EraseJobs

LEMMA PackageIsUpdate ==
    ASSUME NEW p \in Packages
    PROVE  CommandJob(<<p>>) = "update" /\ CommandJob(<<p>>) \notin EraseJobs
BY PackageJob DEF EraseJobs

LEMMA NoArgsNoErase == CommandJob(<<>>) \notin EraseJobs
BY NoArgsNoJob DEF EraseJobs

\* What a step does to the arguments in the BCB.
LEMMA DebtBcbStep ==
    ASSUME FormatReports, DebtInv, [Next]_vars
    PROVE  /\ bcb' = bcbC' \/ bcb' \in Ruins
           /\ \/ BcbArgs(bcbC') = BcbArgs(bcbC) /\ bcbC' = bcbC
              \/ BcbArgs(bcbC') = <<>> /\ ~bcbC'.named
              \/ (\E p \in Packages : RequestByMisc(p) /\ BcbArgs(bcbC') = <<p>>)
                 /\ bcbC'.command = "boot-recovery"
              \/ GetArgs /\ BcbArgs(bcbC') = args' /\ bcbC'.command = "boot-recovery"
              \/ MenuApply /\ BcbArgs(bcbC') = <<>> /\ bcbC'.command = "boot-recovery"
<1>0. /\ TypeOK /\ AllFit /\ sd = "none" /\ ~WriteBack
      /\ bcb = bcbC \/ bcb \in Ruins
  BY DEF DebtInv, Plain, FormatReports
<1>1. ~SdFlash
  BY <1>0 DEF SdFlash
<1>2. bcb' = bcbC' \/ bcb' \in Ruins
  <2>1. CASE UNCHANGED bcbC
    BY <1>0, <2>1, MediumBcb
  <2>2. ASSUME NEW b, SetBcb(b) PROVE bcb' = bcbC' \/ bcb' \in Ruins
    BY <1>0, <2>2 DEF SetBcb, bcbVars
  <2>3. CASE GetArgs \/ FinishBcb \/ MenuApply \/ \E p \in Packages : RequestByMisc(p)
    BY <1>0, <2>1, <2>2, <2>3 DEF GetArgs, FinishBcb, MenuApply, RequestByMisc, bcbVars
  <2> QED
    BY <1>1, <2>1, <2>3, BcbChanges
    DEF FinishSync, Reboot, ProgramBcb, WriteBackBcb, PowerCut
<1>3. CASE UNCHANGED bcbC
  BY <1>2, <1>3
<1>4. CASE bcbC' \in Ruins
  BY <1>2, <1>4, RuinsType
<1>5. CASE GetArgs
  BY <1>0, <1>3, <1>4, <1>5, GetArgsStep DEF BcbArgs
<1>6. ASSUME NEW p \in Packages, RequestByMisc(p),
             bcbC'.command = "boot-recovery", bcbC'.named, bcbC'.options = <<p>>
      PROVE  BcbArgs(bcbC') = <<p>> /\ bcbC'.command = "boot-recovery"
  BY <1>6 DEF BcbArgs
<1>7. CASE FinishBcb /\ ~bcbC'.named
  BY <1>2, <1>7 DEF BcbArgs
<1>8. CASE MenuApply /\ bcbC'.command = "boot-recovery" /\ bcbC'.options = <<>>
  BY <1>2, <1>8 DEF BcbArgs
<1>9. CASE PowerCut /\ bcbC' = bcb
  BY <1>0, <1>3, <1>4, <1>9
<1> QED
  BY <1>1, <1>2, <1>3, <1>4, <1>5, <1>6, <1>7, <1>8, <1>9, KernelBcb

\* What get_args returns is in the BCB, or in the command file, or nothing.
LEMMA DebtGetArgs ==
    ASSUME DebtInv, GetArgs
    PROVE  /\ pc = "get_args" /\ pc' = "dispatch" /\ ud = udC
           /\ UNCHANGED <<ud, udC, owed, ctx>>
           /\ args' \in {BcbArgs(bcbC), udC.cmd, <<>>}
<1>1. /\ pc = "get_args" /\ pc' = "dispatch" /\ ud = udC
      /\ UNCHANGED <<ud, udC, owed, ctx>>
  BY DEF GetArgs, udVars, ghosts, DebtInv, Plain
<1>2. TypeOK /\ AllFit
  BY DEF DebtInv
<1>3. BcbArgs(ZeroBcb) = <<>>
  BY DEF BcbArgs, ZeroBcb
<1> QED
  BY <1>1, <1>2, <1>3, GetArgsStep

LEMMA PlainStep ==
    ASSUME FormatReports, DebtInv, [Next]_vars
    PROVE  Plain'
<1>0. Plain /\ SdCards = {"none"}
  BY DEF DebtInv, FormatReports
<1>1. bcb' = bcbC' \/ bcb' \in Ruins
  BY DebtBcbStep
<1>2. sd' = "none"
  BY <1>0
  DEF Plain, Next, MainSystem, Program, Menu, RequestByFile, RequestByMisc, Asks, EnterByHand,
      BootLoader, GetArgs, Dispatch, Erase, Mkfs, ResizeOem, OpenResult, MountPackage, Engine,
      Flash, SdFlash, Installed, WriteResult, SdUpdate, Decide, SdWait, FinishBcb,
      FinishUnlink, FinishSync, Reboot, MenuReboot, MenuWipe, MenuApply, Sideload,
      ToggleText, ProgramBcb, WriteBackBcb, WriteBackUserdata, PowerCut, sdVars, vars
<1>3. bcbC'.command = "none" => ~bcbC'.named
  BY <1>0, DebtBcbStep DEF Plain
<1>4. pc' = "main" => bcbC'.command = "none"
  <2>1. SUFFICES ASSUME pc' = "main" PROVE bcbC'.command = "none"
    OBVIOUS
  <2>2. BootLoader \/ pc = "main"
    BY <2>1
    DEF Next, MainSystem, Program, Menu, RequestByFile, RequestByMisc, Asks, EnterByHand,
        GetArgs, Dispatch, Erase, Mkfs, AfterErase, ResizeOem, OpenResult, MountPackage,
        Engine, Flash, SdFlash, Installed, WriteResult, SdUpdate, Decide, SdWait, FinishBcb,
        FinishUnlink, FinishSync, Reboot, MenuReboot, MenuWipe, MenuApply, Sideload,
        ToggleText, ProgramBcb, WriteBackBcb, WriteBackUserdata, PowerCut, vars
  <2>3. CASE BootLoader
    <3>1. bcbC.command # "boot-recovery" /\ UNCHANGED bcbC
      BY <1>0, <2>1, <2>3 DEF BootLoader, bcbVars
    <3>2. bcbC \in BcbType
      BY DEF DebtInv, TypeOK, StorageType
    <3> QED
      BY <1>0, <3>1, <3>2 DEF Plain, BcbType
  <2>4. CASE pc = "main"
    <3>1. UNCHANGED bcbC
      BY <2>1, <2>4
      DEF Next, MainSystem, Program, Menu, RequestByFile, RequestByMisc, Asks, EnterByHand,
          BootLoader, GetArgs, Dispatch, Erase, Mkfs, ResizeOem, OpenResult, MountPackage,
          Engine, Flash, SdFlash, Installed, WriteResult, SdUpdate, Decide, SdWait, FinishBcb,
          FinishUnlink, FinishSync, Reboot, MenuReboot, MenuWipe, MenuApply, Sideload,
          ToggleText, ProgramBcb, WriteBackBcb, WriteBackUserdata, PowerCut, bcbVars, vars
    <3> QED
      BY <1>0, <2>4, <3>1 DEF Plain
  <2> QED
    BY <2>2, <2>3, <2>4
<1>5. pc' \in {"main", "boot", "get_args", "dispatch"} => ud' = udC'
  <2>1. SUFFICES ASSUME pc' \in {"main", "boot", "get_args", "dispatch"} PROVE ud' = udC'
    OBVIOUS
  <2>2. CASE MainSystem
    BY <1>0, <2>2
    DEF MainSystem, RequestByFile, RequestByMisc, Asks, EnterByHand, udVars, Plain
  <2>3. CASE BootLoader \/ GetArgs
    BY <1>0, <2>3 DEF BootLoader, GetArgs, udVars, Plain
  <2>4. CASE Reboot \/ PowerCut \/ WriteBackUserdata
    BY <2>4 DEF Reboot, PowerCut, WriteBackUserdata
  <2>5. CASE ToggleText \/ ProgramBcb \/ WriteBackBcb \/ UNCHANGED vars
    BY <1>0, <2>1, <2>5 DEF ToggleText, ProgramBcb, WriteBackBcb, vars, udVars, Plain
  <2> QED
    BY <2>1, <2>2, <2>3, <2>4, <2>5
    DEF Next, Program, Menu, Dispatch, Erase, Mkfs, AfterErase, ResizeOem, OpenResult,
        MountPackage, Engine, Flash, SdFlash, Installed, WriteResult, SdUpdate, Decide,
        SdWait, FinishBcb, FinishUnlink, FinishSync, MenuReboot, MenuWipe, MenuApply, Sideload
<1>6. pc' = "menu" => ctx' = "menu"
  BY <1>0, MenuContext DEF Plain
<1> QED
  BY <1>1, <1>2, <1>3, <1>4, <1>5, <1>6 DEF Plain

\* finish_recovery settles the erase that this run worked on, which no command
\* file asks for any more.
LEMMA NotSettled ==
    ASSUME DebtInv, FinishBcb, NEW x \in {ud.cmd, udC.cmd}, Erases(x)
    PROVE  CommandJob(x) # CommandJob(args)
<1> SUFFICES ASSUME CommandJob(x) = CommandJob(args) PROVE FALSE
  OBVIOUS
<1>1. CommandJob(args) \in EraseJobs
  BY DEF Erases
<1>2. pc = "finish_bcb" /\ pc \notin BeforeErased
  BY DEF FinishBcb, BeforeErased
<1>3. x = args
  BY <1>1, <1>2, NothingErases DEF DebtInv, Carried
<1> QED
  BY <1>2, <1>3 DEF DebtInv, Carried

\* Only finish_recovery takes away from what is owed.
LEMMA DebtOwed ==
    ASSUME FormatReports, DebtInv, [Next]_vars
    PROVE  \/ owed \subseteq owed'
           \/ FinishBcb /\ owed' = owed \ {CommandJob(args)} /\ BcbArgs(bcbC') = <<>>
<1>1. ~WriteBack
  BY DEF FormatReports
<1>2. ~WriteBackBcb
  BY <1>1 DEF WriteBackBcb
<1>3. FinishSync => Lasting' = Lasting
  BY <1>1 DEF FinishSync, Lasting
<1>4. CASE FinishBcb /\ Lasting.command # "none" /\ Lasting'.command = "none"
           /\ owed' = owed \ ({CommandJob(args)} \ Stays)
  <2>1. Stays = {}
    BY <1>4 DEF FinishBcb, Stays
  <2>2. bcbC'.command = "none" /\ ~UNCHANGED bcbC
    BY <1>1, <1>4 DEF Lasting
  <2>3. BcbArgs(bcbC') = <<>>
    BY <1>4, <2>2, DebtBcbStep DEF RequestByMisc, Asks, FinishBcb, GetArgs, MenuApply
  <2> QED
    BY <1>4, <2>1, <2>3
<1> QED
  BY <1>2, <1>3, <1>4, OwedStep

LEMMA DebtsStep ==
    ASSUME FormatReports, DebtInv, [Next]_vars
    PROVE  Debts'
<1>0. TypeOK /\ Plain /\ Debts
  BY DEF DebtInv
<1>1. ASSUME NEW x \in {ud.cmd, udC.cmd}, Erases(x) PROVE CommandJob(x) \in owed'
  <2>1. CommandJob(x) \in owed
    BY <1>0, <1>1 DEF Debts
  <2> QED
    BY <1>1, <2>1, DebtOwed, NotSettled
<1>2. ASSUME NEW a \in Commands, RequestByFile(a) PROVE CommandJob(a) \in owed'
  BY <1>2 DEF RequestByFile, Asks
<1>3. Erases(ud'.cmd) => CommandJob(ud'.cmd) \in owed'
  BY <1>0, <1>1, <1>2, NothingErases, CommandFile
<1>4. Erases(udC'.cmd) => CommandJob(udC'.cmd) \in owed'
  BY <1>0, <1>1, <1>2, NothingErases, CommandFile
<1>5. Erases(BcbArgs(bcbC')) => CommandJob(BcbArgs(bcbC')) \in owed'
  <2>1. CASE BcbArgs(bcbC') = <<>>
    BY <2>1, NothingErases
  <2>2. CASE GetArgs /\ BcbArgs(bcbC') = args'
    BY <1>0, <2>2, DebtGetArgs, NothingErases DEF Debts
  <2>3. ASSUME NEW p \in Packages, BcbArgs(bcbC') = <<p>> PROVE ~Erases(BcbArgs(bcbC'))
    BY <2>3, PackageIsUpdate DEF Erases
  <2>4. CASE bcbC' = bcbC /\ BcbArgs(bcbC') # <<>>
    BY <1>0, <2>4, DebtOwed DEF Debts
  <2> QED
    BY <2>1, <2>2, <2>3, <2>4, DebtBcbStep
<1>6. ASSUME pc' \in {"dispatch", "erase", "mkfs"}, ctx' = "main", ~GetArgs
      PROVE  \/ pc' = "dispatch" /\ pc = "dispatch" /\ ctx = "main" /\ UNCHANGED args
             \/ Dispatch /\ pc' = "erase"
             \/ pc \in {"erase", "mkfs"} /\ ctx = "main" /\ UNCHANGED args
                /\ pc' # "dispatch"
  <2>1. ~BootLoader
    BY <1>0, <1>6 DEF BootLoader, FormatReports
  <2>2. ctx = "main"
    BY <1>0, <1>6, <2>1
    DEF Plain, Next, MainSystem, Program, Menu, RequestByFile, RequestByMisc, Asks,
        EnterByHand, Dispatch, Erase, Mkfs, AfterErase, ResizeOem, OpenResult, MountPackage,
        Engine, Flash, SdFlash, Installed, WriteResult, SdUpdate, Decide, SdWait, FinishBcb,
        FinishUnlink, FinishSync, Reboot, MenuReboot, MenuWipe, MenuApply, Sideload,
        ToggleText, ProgramBcb, WriteBackBcb, WriteBackUserdata, PowerCut, runVars, vars
  <2> QED
    BY <1>0, <1>6, <2>1, <2>2
    DEF Plain, Next, MainSystem, Program, Menu, RequestByFile, RequestByMisc, Asks,
        EnterByHand, Dispatch, Erase, Mkfs, AfterErase, ResizeOem, OpenResult, MountPackage,
        Engine, Flash, SdFlash, Installed, WriteResult, SdUpdate, Decide, SdWait, FinishBcb,
        FinishUnlink, FinishSync, Reboot, MenuReboot, MenuWipe, MenuApply, Sideload,
        ToggleText, ProgramBcb, WriteBackBcb, WriteBackUserdata, PowerCut, runVars, vars
<1>7. pc' \in {"erase", "mkfs"} /\ ctx' = "main" => Erases(args')
  <2>1. SUFFICES ASSUME pc' \in {"erase", "mkfs"}, ctx' = "main" PROVE Erases(args')
    OBVIOUS
  <2>2. CASE Dispatch /\ pc' = "erase"
    <3>1. Job = CommandJob(args)
      BY <1>0 DEF Plain, Job
    <3> QED
      BY <2>2, <3>1 DEF Dispatch, Erases
  <2>3. CASE pc \in {"erase", "mkfs"} /\ ctx = "main" /\ UNCHANGED args
    BY <1>0, <2>3 DEF Debts
  <2> QED
    BY <1>6, <2>1, <2>2, <2>3 DEF GetArgs
<1>8. pc' \in {"dispatch", "erase", "mkfs"} /\ ctx' = "main" /\ Erases(args') =>
        CommandJob(args') \in owed'
  <2>1. SUFFICES ASSUME pc' \in {"dispatch", "erase", "mkfs"}, ctx' = "main", Erases(args')
                 PROVE  CommandJob(args') \in owed'
    OBVIOUS
  <2>2. CASE GetArgs
    BY <1>0, <2>1, <2>2, DebtGetArgs, NothingErases DEF Debts
  <2>3. CASE ~GetArgs
    <3>1. pc \in {"dispatch", "erase", "mkfs"} /\ ctx = "main" /\ UNCHANGED args
      <4>1. Dispatch => pc = "dispatch" /\ UNCHANGED <<args, ctx>>
        BY DEF Dispatch
      <4> QED
        BY <1>6, <2>1, <2>3, <4>1
    <3>2. CommandJob(args) \in owed
      BY <1>0, <2>1, <3>1 DEF Debts
    <3>3. ~FinishBcb
      BY <3>1 DEF FinishBcb
    <3> QED
      BY <3>1, <3>2, <3>3, DebtOwed
  <2> QED
    BY <2>2, <2>3
<1> QED
  BY <1>3, <1>4, <1>5, <1>7, <1>8 DEF Debts

\* What is in the command file after a step, as far as erasing goes.
LEMMA DebtFile ==
    ASSUME DebtInv, [Next]_vars
    PROVE  \/ \E a \in Commands : RequestByFile(a)
           \/ /\ ud'.cmd \in {ud.cmd, udC.cmd, <<>>}
              /\ udC'.cmd \in {ud.cmd, udC.cmd, <<>>}
BY CommandFile DEF DebtInv

\* A run comes to the end of an erase through mkfs, which leaves no file, and
\* otherwise past it with arguments that ask for none.
LEMMA PastErase ==
    ASSUME FormatReports, DebtInv, [Next]_vars, pc' \notin BeforeErased
    PROVE  \/ pc \notin BeforeErased
           \/ pc = "dispatch" /\ ~Erases(args)
           \/ ud'.cmd = <<>> /\ udC'.cmd = <<>>
<1>0. sd = "none"
  BY DEF DebtInv, Plain
<1>1. CASE Mkfs
  <2>1. ud' = Volume("fresh") /\ udC' = Volume("fresh")
    BY <1>1 DEF Mkfs, FormatReports
  <2> QED
    BY <2>1 DEF Volume
<1>2. CASE Dispatch
  <2>1. Job = CommandJob(args) /\ pc = "dispatch"
    BY <1>0, <1>2 DEF Job, Dispatch
  <2>2. "update" \notin EraseJobs /\ "none" \notin EraseJobs /\ "sdupdate" \notin EraseJobs
    BY DEF EraseJobs
  <2>3. ~Erases(args)
    BY <1>2, <2>1, <2>2 DEF Dispatch, Erases, BeforeErased
  <2> QED
    BY <2>1, <2>3
<1>3. ~Erase
  BY DEF Erase, FormatReports, BeforeErased
<1> QED
  BY <1>1, <1>2, <1>3
  DEF BeforeErased, Next, MainSystem, Program, Menu, RequestByFile, RequestByMisc, Asks,
      EnterByHand, BootLoader, GetArgs, ResizeOem, OpenResult, MountPackage, Engine, Flash,
      SdFlash, Installed, WriteResult, SdUpdate, Decide, SdWait, FinishBcb, FinishUnlink,
      FinishSync, Reboot, MenuReboot, MenuWipe, MenuApply, Sideload, ToggleText,
      ProgramBcb, WriteBackBcb, WriteBackUserdata, PowerCut, vars

\* A run keeps its arguments from get_args to the reboot.
LEMMA ArgsKept ==
    ASSUME DebtInv, [Next]_vars, ~GetArgs,
           pc' \notin {"main", "boot", "get_args"}
    PROVE  args' = <<>> \/ (pc \notin {"main", "boot", "get_args"} /\ UNCHANGED args)
<1>1. CASE BootLoader
  BY <1>1 DEF BootLoader, SetRun, Idle
<1>2. CASE ToggleText \/ ProgramBcb \/ WriteBackBcb \/ WriteBackUserdata \/ UNCHANGED vars
  BY <1>2 DEF ToggleText, ProgramBcb, WriteBackBcb, WriteBackUserdata, runVars, vars
<1> QED
  BY <1>1, <1>2
  DEF Next, MainSystem, Program, Menu, RequestByFile, RequestByMisc, Asks, EnterByHand,
      Dispatch, Erase, Mkfs, ResizeOem, OpenResult, MountPackage, Engine, Flash, SdFlash,
      Installed, WriteResult, SdUpdate, Decide, SdWait, FinishBcb, FinishUnlink, FinishSync,
      Reboot, MenuReboot, MenuWipe, MenuApply, Sideload, PowerCut, runVars

LEMMA CarriedStep ==
    ASSUME FormatReports, DebtInv, [Next]_vars
    PROVE  Carried'
<1>0. TypeOK /\ Plain /\ Carried
  BY DEF DebtInv
<1> DEFINE Request == \E a \in Commands : RequestByFile(a)
<1> HIDE DEF Request
<1>1. CASE Request
  <2>1. pc = "main" /\ pc' = "boot" /\ UNCHANGED bcbC
    BY <1>1 DEF Request, RequestByFile, Asks, bcbVars
  <2>2. BcbArgs(bcbC') = <<>>
    BY <1>0, <2>1 DEF Plain, BcbArgs
  <2> QED
    BY <2>1, <2>2, NoArgsNoErase DEF Carried, BeforeErased
<1>2. CASE GetArgs
  <2>1. UNCHANGED <<ud, udC>> /\ ud = udC /\ pc' = "dispatch"
        /\ args' \in {BcbArgs(bcbC), udC.cmd, <<>>}
    BY <1>2, DebtGetArgs
  <2>2. BcbArgs(bcbC') \in {args', BcbArgs(bcbC), <<>>}
    BY <1>2, DebtBcbStep DEF RequestByMisc, Asks, GetArgs
  <2>3. \A a \in {BcbArgs(bcbC), udC.cmd, <<>>} :
          CommandJob(a) \in EraseJobs =>
            ud'.cmd \in {<<>>, a} /\ udC'.cmd \in {<<>>, a}
    BY <1>0, <2>1, NoArgsNoErase DEF Carried
  <2> QED
    BY <2>1, <2>2, <2>3 DEF Carried, BeforeErased
<1>3. CASE ~Request /\ ~GetArgs
  <2>1. /\ ud'.cmd \in {ud.cmd, udC.cmd, <<>>}
        /\ udC'.cmd \in {ud.cmd, udC.cmd, <<>>}
    BY <1>3, DebtFile DEF Request
  <2>2. CommandJob(BcbArgs(bcbC')) \in EraseJobs =>
          ud'.cmd \in {<<>>, BcbArgs(bcbC')} /\ udC'.cmd \in {<<>>, BcbArgs(bcbC')}
    <3>1. CASE bcbC' = bcbC
      BY <1>0, <2>1, <3>1 DEF Carried
    <3>2. ASSUME NEW p \in Packages, BcbArgs(bcbC') = <<p>>
          PROVE  CommandJob(BcbArgs(bcbC')) \notin EraseJobs
      BY <3>2, PackageIsUpdate
    <3> QED
      BY <1>3, <3>1, <3>2, DebtBcbStep, NoArgsNoErase
  <2>3. pc' \notin {"main", "boot", "get_args"} /\ CommandJob(args') \in EraseJobs =>
          ud'.cmd \in {<<>>, args'} /\ udC'.cmd \in {<<>>, args'}
    BY <1>0, <1>3, <2>1, ArgsKept, NoArgsNoErase DEF Carried
  <2>4. ASSUME pc' \notin BeforeErased, Erases(args')
        PROVE  ~Erases(ud'.cmd) /\ ~Erases(udC'.cmd)
    <3>1. pc' \notin {"main", "boot", "get_args"}
      BY <2>4 DEF BeforeErased
    <3>2. UNCHANGED args
      BY <1>3, <2>4, <3>1, ArgsKept, NothingErases
    <3>3. CASE pc \notin BeforeErased
      BY <1>0, <2>1, <2>4, <3>2, <3>3, NothingErases DEF Carried
    <3> QED
      BY <2>4, <3>2, <3>3, PastErase, NothingErases
  <2> QED
    BY <2>2, <2>3, <2>4 DEF Carried
<1> QED
  BY <1>1, <1>2, <1>3

LEMMA DebtInit ==
    ASSUME Init
    PROVE  DebtInv
<1>1. TypeOK /\ AllFit /\ NoFileOnPartial
  BY OnceInit DEF OnceInv
<1>2. /\ bcb.command = "none" /\ bcb.named = FALSE /\ bcbC = bcb /\ sd = "none"
      /\ ud.cmd = <<>> /\ udC = ud /\ pc = "main"
  BY DEF Init, ZeroBcb, Volume
<1>3. BcbArgs(bcbC) = <<>>
  BY <1>2 DEF BcbArgs
<1>4. Plain
  BY <1>2 DEF Plain
<1>5. Debts /\ Carried
  BY <1>2, <1>3, NothingErases, NoArgsNoErase DEF Debts, Carried, BeforeErased
<1> QED
  BY <1>1, <1>4, <1>5 DEF DebtInv

\* main() only erases /userdata on a request that is still owed, whatever
\* power cuts fell between the writes of the BCB, the format and the removal of
\* the command file, also into the middle of a write of the BCB, and when the BCB
\* cannot be read or written: a command file that a cut left behind is not
\* carried out a second time.
THEOREM ErasesOwed ==
    ASSUME FormatReports
    PROVE  Spec => []EraseOnlyIfOwed
<1>1. Init => DebtInv
  BY DebtInit
<1>2. ASSUME DebtInv, [Next]_vars PROVE DebtInv'
  <2>1. TypeOK'
    BY <1>2, StorageStep, RunStep, DeviceStep DEF TypeOK, DebtInv
  <2>2. AllFit' /\ NoFileOnPartial'
    BY <1>2, AllFitStep, NoFileOnPartialStep DEF DebtInv, FormatReports
  <2> QED
    BY <1>2, <2>1, <2>2, PlainStep, DebtsStep, CarriedStep DEF DebtInv
<1>3. ASSUME DebtInv PROVE EraseOnlyIfOwed
  <2>1. Job = CommandJob(args)
    BY <1>3 DEF DebtInv, Plain, Job
  <2> QED
    BY <1>3, <2>1 DEF DebtInv, Debts, EraseOnlyIfOwed
<1> QED
  BY <1>1, <1>2, <1>3, PTL DEF Spec

=============================================================================
