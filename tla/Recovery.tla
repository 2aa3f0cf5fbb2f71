------------------------------ MODULE Recovery ------------------------------
(***************************************************************************)
(* The boot cycle of the recovery program: the bootloader control block    *)
(* (BCB) kept in the misc partition, the command file kept on /userdata,   *)
(* the main() of recovery.c with get_args, the task it selects, the menu   *)
(* and finish_recovery, and the power cuts that may fall between any two   *)
(* of their durable writes.  The boot loader and the main system are       *)
(* external: they are modelled by what the code expects of them.           *)
(*                                                                         *)
(* A value that lives behind the kernel's page cache has two variables:    *)
(* the medium (bcb, ud) and the kernel's view of it (bcbC, udC).  A power  *)
(* cut falls back to the medium; write-back and sync() copy the view to    *)
(* the medium.  On MTD a write of the BCB first erases the block that it   *)
(* lives in: bcbC is then the message being written, and bcb what the      *)
(* medium holds meanwhile.                                                 *)
(***************************************************************************)
EXTENDS Naturals, Sequences, SequencesExt

CONSTANTS
    Commands,    \* option lists the main system writes to the command file
    Packages,    \* options of --update_package that MiscUpdate stores in the BCB
    BcbCap,      \* how many option lines fit in bootloader_message.recovery
    WriteBack,   \* misc is a block device behind the page cache (not MTD)
    Faults,      \* the operations that may fail
    SdCards,     \* the kinds of SD card a boot may find: a subset of SdKinds
    MaxCuts,     \* bound: power cuts
    MaxRequests  \* bound: requests of the main system

Options == {"wipe_data", "wipe_all", "fs_on", "fs_off", "fs_bad",
            "update_data", "update_ext", "update_cut",
            "send_intent", "show_text", "invalid"}

FaultKinds == {"misc_read", "misc_write", "umount", "mkfs", "mount",
               "unlink", "flash", "resize", "copy"}

\* "none": no card was booted from; "boot": booted from a card without an
\* image to install; "update": booted from a card that carries sdupdate.img.
SdKinds == {"none", "boot", "update"}

ASSUME CommandsAssumption == Commands \subseteq Seq(Options)
ASSUME PackagesAssumption == Packages \subseteq {"update_data", "update_ext"}
ASSUME BcbCapAssumption   == BcbCap \in Nat \ {0}
ASSUME BooleanAssumption  == WriteBack \in BOOLEAN
ASSUME FaultsAssumption   == Faults \subseteq FaultKinds
ASSUME SdAssumption       == SdCards \subseteq SdKinds /\ "none" \in SdCards
\* On MTD an update from SD rewrites the whole chip with flashcp: not modelled.
ASSUME SdUpdateAssumption == "update" \in SdCards => WriteBack
ASSUME BoundsAssumption   == MaxCuts \in Nat /\ MaxRequests \in Nat

VARIABLES
    bcb, bcbC,   \* the BCB: on the medium, and as the kernel sees it
    ud, udC,     \* /userdata: on the medium, and as the kernel sees it
    fw,          \* the firmware partitions, relative to the wanted package
    reason,      \* the boot reason handed to the boot loader by `reboot recovery`
    pc,          \* where the device is
    ctx,         \* who called: main() or the menu
    args,        \* argv[1..] of the running recovery
    status,      \* main()'s status
    flag,        \* the global systemFlag
    visible,     \* ui.c's show_text
    mnt,         \* /userdata is mounted
    rstOpen,     \* fd of update_rst.txt refers to a file on /userdata
    sd,          \* the SD card of this boot
    sdbin,       \* sdupdate.bin exists on the update card
    owed,        \* ghost: the jobs the main system asked for, each of them
                 \*   until a run that works on it has erased the BCB; a
                 \*   command file that stays then asks for its job again
    told,        \* ghost: the user was shown the prompt since that request,
                 \*   or knows of the firmware that an earlier one left broken
    torn,        \* ghost: since that request, with data or firmware half
                 \*   written, a power cut fell into a rewrite of the BCB
    cuts, requests

bcbVars  == <<bcb, bcbC>>
udVars   == <<ud, udC>>
runVars  == <<ctx, args, status, flag, visible, mnt, rstOpen>>
ghosts   == <<owed, told, torn>>
bounds   == <<cuts, requests>>
sdVars   == <<sd, sdbin>>
vars == <<bcbVars, udVars, fw, reason, pc, runVars, sdVars, ghosts, bounds>>

-----------------------------------------------------------------------------
(* The bootloader message, and what get_args reads out of it.              *)

\* The recovery field is cut into lines: whether the first one is "recovery",
\* and the options after it.
ZeroBcb == [command |-> "none", named |-> FALSE, options |-> <<>>,
            need |-> FALSE, flag |-> ""]

\* An option cut in the middle by the end of the 768-byte field: a package
\* path that names no file, or an option getopt_long rejects.
Cut(o) == IF o \in {"update_data", "update_ext", "update_cut"} THEN "update_cut"
                                                               ELSE "invalid"

\* What strlcat leaves of the option lines after "recovery\n".
Stored(a) ==
    IF Len(a) <= BcbCap THEN a
    ELSE Append(SubSeq(a, 1, BcbCap), Cut(a[BcbCap + 1]))

BcbArgs(b) == IF b.named THEN b.options ELSE <<>>

\* A get_args that forgets the arguments, and one that starts from a zeroed
\* structure instead of the one it read.
RearmedNoArgs(b, a) ==
    [b EXCEPT !.command = "boot-recovery", !.named = TRUE, !.options = <<>>]
RearmedFresh(b, a) ==
    [ZeroBcb EXCEPT !.command = "boot-recovery", !.named = TRUE, !.options = Stored(a)]

\* What get_args writes back, keeping the rest of what it read.
Rearmed(b, a) ==
    [b EXCEPT !.command = "boot-recovery", !.named = TRUE, !.options = Stored(a)]

\* A finish_recovery without the memset: it leaves the arguments in place, or
\* the command itself.
ErasedCommandOnly(f) == [bcbC EXCEPT !.command = "none", !.flag = f]
ErasedArgsOnly(f) == [bcbC EXCEPT !.named = FALSE, !.options = <<>>, !.flag = f]

\* What finish_recovery writes: all zero but for systemFlag.
Erased(f) == [ZeroBcb EXCEPT !.flag = f]

\* The misc item of an SD card's image, where it has one: the vendor's image
\* asks for the data of the old firmware to be wiped.
ImageBcb == [ZeroBcb EXCEPT !.command = "boot-recovery", !.named = TRUE,
                            !.options = <<"wipe_all">>]

\* What an erased or half-programmed block of misc holds of the message: no
\* arguments, perhaps the command, and any partition mask (0xFF is all).
Ruins == [command : {"none", "boot-recovery"}, named : {FALSE}, options : {<<>>},
          need : BOOLEAN, flag : {""}]

\* set_bootloader_message; every caller ignores its result.  On MTD it erases
\* the block and then programs it (ProgramBcb); a failure may come before the
\* erasure or after it.
SetBcb(b) ==
    \/ /\ bcbC' = b
       /\ IF WriteBack THEN UNCHANGED bcb ELSE bcb' \in Ruins
    \/ /\ "misc_write" \in Faults
       /\ UNCHANGED bcbVars
    \/ /\ "misc_write" \in Faults /\ ~WriteBack
       /\ bcb' \in Ruins /\ bcbC' = bcb'

\* The block is erased and not yet programmed again; no other step of the
\* program comes in between.
Rewriting == ~WriteBack /\ bcb # bcbC

\* The message on the medium, or the one a rewrite under way will leave there.
Lasting == IF WriteBack THEN bcb ELSE bcbC

-----------------------------------------------------------------------------
(* /userdata: its file system, the command file on it (<<>>: absent), the  *)
(* downloaded package and update_rst.txt.                                  *)

Volume(fs) == [fs |-> fs, cmd |-> <<>>, pkg |-> FALSE, rst |-> "none"]

Mountable == udC.fs # "partial"

EraseJobs == {"secure_fs", "wipe_data", "wipe_all"}

\* The task main() selects from its options: the order of the else-if chain.
CommandJob(a) ==
    IF ToSet(a) \cap {"fs_on", "fs_off", "fs_bad"} # {} THEN "secure_fs"
    ELSE IF ToSet(a) \cap {"update_data", "update_ext", "update_cut"} # {} THEN "update"
    ELSE IF "wipe_data" \in ToSet(a) THEN "wipe_data"
    ELSE IF "wipe_all" \in ToSet(a) THEN "wipe_all"
    ELSE "none"

\* The job that a command file asks for once finish_recovery has not removed it.
Stays == IF pc = "finish_sync" /\ udC.cmd # <<>> THEN {CommandJob(udC.cmd)} ELSE {}

\* The request is settled once the run that worked on it has seen to it that
\* the BCB no longer leads back to recovery.
Settle ==
    owed' = IF Lasting.command # "none" /\ Lasting'.command = "none"
            THEN owed \ ({CommandJob(args)} \ Stays) ELSE owed

\* Booted from an SD card, recovery reads no arguments at all.
Job == IF sd = "update" THEN "sdupdate" ELSE CommandJob(args)

\* The package of the running update lives on /userdata.
OnUserdata == "update_ext" \notin ToSet(args)
Present    == "update_ext" \in ToSet(args) \/ ("update_data" \in ToSet(args) /\ udC.pkg)

-----------------------------------------------------------------------------
(* The main system and the boot loader (external).                         *)

Idle ==
    [ctx |-> "main", args |-> <<>>, status |-> "success", flag |-> "",
     visible |-> TRUE, mnt |-> FALSE, rstOpen |-> FALSE]

SetRun(r) ==
    /\ ctx' = r.ctx /\ args' = r.args /\ status' = r.status /\ flag' = r.flag
    /\ visible' = r.visible /\ mnt' = r.mnt /\ rstOpen' = r.rstOpen

Init ==
    /\ bcb = ZeroBcb /\ bcbC = ZeroBcb
    /\ ud = Volume("user") /\ udC = Volume("user")
    /\ fw = "old" /\ reason = "none" /\ pc = "main"
    /\ ctx = Idle.ctx /\ args = Idle.args /\ status = Idle.status /\ flag = Idle.flag
    /\ visible = Idle.visible /\ mnt = Idle.mnt /\ rstOpen = Idle.rstOpen
    /\ sd = "none" /\ sdbin = FALSE
    /\ owed = {} /\ told = FALSE /\ torn = FALSE /\ cuts = 0 /\ requests = 0

\* The user has gone on using a freshly formatted /userdata; a package is
\* downloaded before an update is asked for.
InUse(u, a) == [u EXCEPT !.fs = "user", !.pkg = @ \/ "update_data" \in ToSet(a),
                         !.rst = "none"]
Outdated(a) == IF CommandJob(a) = "update" /\ fw = "new" THEN "old" ELSE fw

Asks(a) ==
    /\ pc = "main" /\ udC.fs # "partial" /\ requests < MaxRequests
    /\ requests' = requests + 1
    /\ fw' = Outdated(a)
    /\ owed' = owed \cup {CommandJob(a)}
    /\ told' = (told /\ fw = "partial") /\ torn' = (torn /\ fw = "partial")
    /\ pc' = "boot"
    /\ UNCHANGED <<runVars, sdVars, cuts>>

\* The main system writes COMMAND_FILE and runs `reboot recovery`.
RequestByFile(a) ==
    /\ Asks(a)
    /\ ud' = [InUse(udC, a) EXCEPT !.cmd = a] /\ udC' = ud'
    /\ reason' = "recovery"
    /\ UNCHANGED bcbVars

\* updateEngine --misc=update --reboot: MiscUpdate writes the BCB, then
\* sync() and reboot().
UpdateBcb(p) == [command |-> "boot-recovery", named |-> TRUE,
                 options |-> <<p>>, need |-> TRUE, flag |-> ""]

RequestByMisc(p) ==
    /\ Asks(<<p>>)
    /\ ud' = InUse(udC, <<p>>) /\ udC' = ud'
    /\ IF WriteBack
       THEN /\ \/ bcbC' = UpdateBcb(p)
               \/ "misc_write" \in Faults /\ UNCHANGED bcbC
            /\ bcb' = bcbC'
       ELSE SetBcb(UpdateBcb(p))
    /\ reason' = "none"

\* The user enters recovery by a key or by `reboot recovery`, with no command.
EnterByHand ==
    /\ pc = "main" /\ requests < MaxRequests
    /\ requests' = requests + 1
    /\ reason' = "recovery" /\ pc' = "boot"
    /\ UNCHANGED <<bcbVars, udVars, fw, runVars, sdVars, ghosts, cuts>>

\* The boot loader starts recovery when the BCB or the boot reason asks for
\* it, or when an SD card is booted.  /etc/fstab may mount /userdata first.
BootLoader ==
    /\ pc = "boot" /\ reason' = "none"
    /\ \E card \in SdCards :
        /\ sd' = card
        /\ IF card = "none" /\ bcbC.command # "boot-recovery" /\ reason # "recovery"
           THEN pc' = "main" /\ SetRun(Idle) /\ UNCHANGED fw
           ELSE /\ pc' = IF card = "none" THEN "get_args" ELSE "dispatch"
                /\ \E m \in {FALSE, Mountable} :
                     SetRun([Idle EXCEPT !.mnt = m])
                /\ fw' = IF card = "update" /\ ~sdbin /\ fw = "new" THEN "old" ELSE fw
    /\ UNCHANGED <<bcbVars, udVars, sdbin, ghosts, bounds>>

-----------------------------------------------------------------------------
(* main(): arguments and the selection of the task.                        *)

\* get_args: the BCB's arguments, else the command file's; written back so
\* that a reboot comes back here.  A failed read leaves a zeroed structure.
GetArgs ==
    /\ pc = "get_args" /\ pc' = "dispatch"
    /\ \E b \in {bcbC} \cup (IF "misc_read" \in Faults THEN {ZeroBcb} ELSE {}),
         found \in {Mountable} \cup (IF "mount" \in Faults /\ ~mnt THEN {FALSE} ELSE {}) :
        LET fromBcb == BcbArgs(b)
            a == IF fromBcb # <<>> THEN fromBcb
                 ELSE IF found THEN udC.cmd ELSE <<>>
        IN  /\ args' = a
            /\ mnt' = (mnt \/ (fromBcb = <<>> /\ found))
            /\ SetBcb(Rearmed(b, a))
    /\ UNCHANGED <<udVars, fw, reason, ctx, status, flag, visible, rstOpen,
                   sdVars, ghosts, bounds>>

\* The option loop and the heads of the else-if chain.
Dispatch ==
    /\ pc = "dispatch"
    /\ flag' = "false"
    /\ visible' = (visible \/ "show_text" \in ToSet(args) \/ sd = "update")
    /\ \/ Job \in EraseJobs /\ "fs_bad" \notin ToSet(args)
          /\ pc' = "erase" /\ UNCHANGED status
       \/ Job = "secure_fs" /\ "fs_bad" \in ToSet(args)
          /\ pc' = "decide" /\ status' = "error"
       \/ Job = "update" /\ pc' = "update" /\ UNCHANGED status
       \/ Job = "sdupdate" /\ pc' = "sdupdate" /\ UNCHANGED status
       \/ Job = "none" /\ pc' = "decide" /\ status' = "error"
    /\ UNCHANGED <<bcbVars, udVars, fw, reason, ctx, args, mnt, rstOpen,
                   sdVars, ghosts, bounds>>

-----------------------------------------------------------------------------
(* erase_volume("/userdata") and format_volume, for the three commands and *)
(* for the menu.                                                           *)

\* A main() that does not look at erase_volume's result.
StatusKept(ok) == status

StatusAfter(ok) == IF ok THEN status ELSE "error"

AfterErase(ok) ==
    IF ctx = "menu"
    THEN /\ IF visible THEN pc' = "finish_bcb" /\ UNCHANGED ctx
                       ELSE pc' = "sd_wait" /\ ctx' = "main"
         /\ UNCHANGED status
    ELSE /\ pc' = IF Job = "wipe_all" THEN "resize_oem" ELSE "decide"
         /\ status' = StatusAfter(ok)
         /\ UNCHANGED ctx

\* ensure_path_unmounted flushes the file system, then mke2fs starts to
\* overwrite it.  run() returns 0 whatever the child's exit status was, so a
\* mke2fs that fails at once is taken for a success.
Erase ==
    /\ pc = "erase"
    /\ \/ /\ pc' = "mkfs" /\ mnt' = FALSE
          /\ ud' = udC /\ udC' = Volume("partial")
          /\ UNCHANGED <<ctx, status>>
       \/ /\ "umount" \in Faults /\ mnt
          /\ AfterErase(FALSE)
          /\ UNCHANGED <<mnt, udVars>>
       \/ /\ "mkfs" \in Faults
          /\ AfterErase(TRUE)
          /\ mnt' = Mountable /\ ud' = udC /\ UNCHANGED udC
    /\ UNCHANGED <<bcbVars, fw, reason, args, flag, visible, rstOpen,
                   sdVars, ghosts, bounds>>

\* mke2fs ends, having flushed its device, and the volume is mounted again; no
\* one looks at whether it was, and a raw flash volume is not.
Mkfs ==
    /\ pc = "mkfs"
    /\ AfterErase(TRUE)
    /\ \/ /\ udC' = Volume("fresh") /\ ud' = udC'
          /\ mnt' \in BOOLEAN
       \/ "mkfs" \in Faults /\ UNCHANGED <<udVars, mnt>>
    /\ UNCHANGED <<bcbVars, fw, reason, args, flag, visible, rstOpen,
                   sdVars, ghosts, bounds>>

\* --wipe_all goes on to grow /oem, then hides the text.
ResizeOem ==
    /\ pc = "resize_oem" /\ pc' = "decide"
    /\ visible' = FALSE
    /\ \/ UNCHANGED status
       \/ "resize" \in Faults /\ status' = "error"
    /\ UNCHANGED <<bcbVars, udVars, fw, reason, ctx, args, flag, mnt, rstOpen,
                   sdVars, ghosts, bounds>>

-----------------------------------------------------------------------------
(* --update_package and the SD card's image, installed by a child process. *)

\* The result file is opened on whatever /userdata is at that moment; an open
\* file then keeps the volume from being unmounted.
OpenResult ==
    /\ pc = "update" /\ pc' = "mount_pkg"
    /\ rstOpen' = mnt
    /\ udC' = IF mnt THEN [udC EXCEPT !.rst = "empty"] ELSE udC
    /\ UNCHANGED <<bcbVars, ud, fw, reason, ctx, args, status, flag, visible,
                   mnt, sdVars, ghosts, bounds>>

\* Five tries to mount the package's volume.  When all fail the result text
\* says so, and status keeps its initial INSTALL_SUCCESS.
MountPackage ==
    /\ pc = "mount_pkg"
    /\ \/ /\ OnUserdata => Mountable
          /\ mnt' = (mnt \/ OnUserdata)
          /\ pc' = "engine"
       \/ /\ ("mount" \in Faults /\ ~(OnUserdata /\ mnt)) \/ (OnUserdata /\ ~Mountable)
          /\ pc' = "write_result" /\ UNCHANGED mnt
    /\ UNCHANGED <<bcbVars, udVars, fw, reason, ctx, args, status, flag,
                   visible, rstOpen, sdVars, ghosts, bounds>>

\* do_rk_updateEngine reads the BCB again for the partitions to write (an
\* uninitialised structure when the read fails; all of them from SD).  A
\* child that finds no package exits nonzero; with no partition to write it
\* succeeds at once.
Engine ==
    /\ pc = "engine"
    /\ \E need \in (IF sd = "update" THEN {TRUE}
                    ELSE {bcbC.need} \cup (IF "misc_read" \in Faults THEN BOOLEAN ELSE {})) :
        \/ /\ sd # "update" /\ ~Present
           /\ status' = "error" /\ pc' = "write_result" /\ UNCHANGED fw
        \/ /\ sd = "update" \/ Present
           /\ UNCHANGED status
           /\ IF need THEN pc' = "flash" /\ fw' = "partial"
                      ELSE pc' = "installed" /\ UNCHANGED fw
    /\ UNCHANGED <<bcbVars, udVars, reason, ctx, args, flag, visible, mnt,
                   rstOpen, sdVars, ghosts, bounds>>

\* The child writes and checks the partitions, flushing each one.
Flash ==
    /\ pc = "flash" /\ sd # "update"
    /\ \/ fw' = "new" /\ pc' = "installed" /\ UNCHANGED status
       \/ /\ "flash" \in Faults
          /\ status' = "error" /\ pc' = "write_result" /\ UNCHANGED fw
    /\ UNCHANGED <<bcbVars, udVars, reason, ctx, args, flag, visible, mnt, rstOpen,
                   sdVars, ghosts, bounds>>

\* From an SD card every item of the image is written, misc as the last one
\* and over whatever command it held, and nothing is checked.
SdFlash ==
    /\ pc = "flash" /\ sd = "update" /\ pc' = "decide"
    /\ \/ /\ fw' = "new" /\ visible' = FALSE /\ UNCHANGED status
          /\ \/ UNCHANGED <<bcbVars, owed>>
             \/ /\ bcb' = ImageBcb /\ bcbC' = ImageBcb
                /\ owed' = owed \cup {"wipe_all"}
       \/ /\ "flash" \in Faults
          /\ status' = "error" /\ UNCHANGED <<fw, visible, bcbVars, owed>>
    /\ UNCHANGED <<udVars, reason, ctx, args, flag, mnt, rstOpen,
                   sdVars, told, torn, bounds>>

\* A success: the package on /userdata is removed; for one elsewhere,
\* /userdata is unmounted and grown instead.
Installed ==
    /\ pc = "installed" /\ pc' = "write_result"
    /\ flag' = "package"
    /\ IF OnUserdata
       THEN udC' = [udC EXCEPT !.pkg = FALSE] /\ UNCHANGED <<ud, mnt>>
       ELSE /\ UNCHANGED udC
            /\ \/ ~rstOpen /\ mnt' = FALSE /\ ud' = udC
               \/ (rstOpen \/ "umount" \in Faults) /\ UNCHANGED <<mnt, ud>>
    /\ UNCHANGED <<bcbVars, fw, reason, ctx, args, status, visible, rstOpen,
                   sdVars, ghosts, bounds>>

\* A result file that gets the flag itself.
ResultFlag(f) == f

\* systemFlag holds the package's path after a success, else "false".
ResultText(f) == IF f = "package" THEN "success" ELSE "failed"

\* The text is written through the descriptor opened at the start, and the
\* text on the screen is hidden.
WriteResult ==
    /\ pc = "write_result" /\ pc' = "decide"
    /\ udC' = IF rstOpen THEN [udC EXCEPT !.rst = ResultText(flag)] ELSE udC
    /\ rstOpen' = FALSE /\ visible' = FALSE
    /\ UNCHANGED <<bcbVars, ud, fw, reason, ctx, args, status, flag, mnt,
                   sdVars, ghosts, bounds>>

\* The SD branch: sdupdate.bin is created before the child runs, and a file
\* that is already there skips the child.
SdUpdate ==
    /\ pc = "sdupdate"
    /\ \/ /\ sdbin
          /\ pc' = "decide" /\ visible' = FALSE /\ UNCHANGED <<status, sdbin>>
       \/ /\ ~sdbin /\ "copy" \in Faults
          /\ pc' = "decide" /\ status' = "error" /\ UNCHANGED <<visible, sdbin>>
       \/ /\ ~sdbin
          /\ pc' = "engine" /\ sdbin' = TRUE /\ UNCHANGED <<status, visible>>
    /\ UNCHANGED <<bcbVars, udVars, fw, reason, ctx, args, flag, mnt, rstOpen,
                   sd, ghosts, bounds>>

-----------------------------------------------------------------------------
(* prompt_and_wait, finish_recovery and the reboot.                        *)

\* A main() that asks only whether the text is visible.
PromptsOnText(st, text) == text

\* main() goes to the menu after a failure, or when the text is on the screen.
Prompts(st, text) == st = "error" \/ text

\* prompt_and_wait starts with finish_recovery(NULL).
Decide ==
    /\ pc = "decide"
    /\ IF Prompts(status, visible)
       THEN pc' = "finish_bcb" /\ ctx' = "menu" /\ told' = TRUE
       ELSE pc' = "sd_wait" /\ UNCHANGED <<ctx, told>>
    /\ UNCHANGED <<bcbVars, udVars, fw, reason, args, status, flag, visible,
                   mnt, rstOpen, sdVars, owed, torn, bounds>>

\* After an image was installed from the SD card: wait until it is removed.
SdWait ==
    /\ pc = "sd_wait"
    /\ pc' = "finish_bcb"
    /\ sd' = IF sd = "update" /\ status = "success" THEN "boot" ELSE sd
    /\ UNCHANGED <<bcbVars, udVars, fw, reason, runVars, sdbin, ghosts, bounds>>

\* finish_recovery: the logs are written to /userdata, the BCB is erased, the
\* command file is removed, and everything is flushed.
FinishBcb ==
    /\ pc = "finish_bcb" /\ pc' = "finish_unlink"
    /\ \/ mnt' = (mnt \/ Mountable)
       \/ "mount" \in Faults /\ UNCHANGED mnt
    /\ SetBcb(Erased(flag)) /\ Settle
    /\ UNCHANGED <<udVars, fw, reason, ctx, args, status, flag, visible,
                   rstOpen, sdVars, told, torn, bounds>>

\* A finish_recovery that leaves the command file.
FileKept(u) == u

Unlinked(u) == [u EXCEPT !.cmd = <<>>]

\* A file that cannot be reached or removed is only warned about.
FileStays == UNCHANGED udC /\ owed' = owed \cup {CommandJob(udC.cmd)}

FinishUnlink ==
    /\ pc = "finish_unlink" /\ pc' = "finish_sync"
    /\ \/ /\ Mountable /\ mnt' = TRUE
          /\ \/ udC' = Unlinked(udC) /\ UNCHANGED owed
             \/ "unlink" \in Faults /\ FileStays
       \/ /\ ~Mountable \/ ("mount" \in Faults /\ ~mnt)
          /\ FileStays /\ UNCHANGED mnt
    /\ UNCHANGED <<bcbVars, ud, fw, reason, ctx, args, status, flag, visible, rstOpen,
                   sdVars, told, torn, bounds>>

FinishSync ==
    /\ pc = "finish_sync"
    /\ pc' = IF ctx = "menu" THEN "menu" ELSE "reboot"
    /\ bcb' = bcbC /\ ud' = udC /\ UNCHANGED bcbC /\ Settle
    /\ UNCHANGED <<udC, fw, reason, runVars, sdVars, told, torn, bounds>>

Reboot ==
    /\ pc = "reboot" /\ pc' = "boot"
    /\ bcb' = bcbC /\ ud' = udC
    /\ SetRun(Idle)
    /\ UNCHANGED <<bcbC, udC, fw, reason, sdVars, ghosts, bounds>>

\* Leaving prompt_and_wait.
MenuReboot ==
    /\ pc = "menu" /\ visible
    /\ pc' = "sd_wait" /\ ctx' = "main"
    /\ UNCHANGED <<bcbVars, udVars, fw, reason, args, status, flag, visible,
                   mnt, rstOpen, sdVars, ghosts, bounds>>

\* wipe_data(ui_text_visible()): confirmed, or declined and back to the loop.
MenuWipe ==
    /\ pc = "menu" /\ visible
    /\ pc' \in {"erase", "finish_bcb"}
    /\ UNCHANGED <<bcbVars, udVars, fw, reason, runVars, sdVars, ghosts, bounds>>

\* A package chosen on the SD card: the BCB is set to re-enter recovery, with
\* no arguments, while the package is copied.  "../" goes back to the loop.
MenuApply ==
    /\ pc = "menu" /\ visible
    /\ \/ /\ pc' = "sideload"
          /\ SetBcb([ZeroBcb EXCEPT !.command = "boot-recovery", !.named = TRUE])
       \/ pc' = "finish_bcb" /\ UNCHANGED bcbVars
    /\ UNCHANGED <<udVars, fw, reason, runVars, sdVars, ghosts, bounds>>

\* copy_sideloaded_package; the call of install_package is commented out, so
\* after a copy sdcard_directory returns an uninitialised result.
Sideload ==
    /\ pc = "sideload"
    /\ \/ "copy" \in Faults /\ pc' = "finish_bcb" /\ UNCHANGED ctx
       \/ \E result \in {"browse", "success", "error"} :
            IF result = "success" /\ ~visible
            THEN pc' = "sd_wait" /\ ctx' = "main"
            ELSE pc' = "finish_bcb" /\ UNCHANGED ctx
    /\ UNCHANGED <<bcbVars, udVars, fw, reason, args, status, flag, visible,
                   mnt, rstOpen, sdVars, ghosts, bounds>>

\* The input thread: KEY_MENU toggles the text at any time.
ToggleText ==
    /\ pc \notin {"main", "boot"}
    /\ visible' = ~visible
    /\ UNCHANGED <<bcbVars, udVars, fw, reason, pc, ctx, args, status, flag,
                   mnt, rstOpen, sdVars, ghosts, bounds>>

-----------------------------------------------------------------------------
(* The environment: the flash, the page cache and the power.               *)

\* The erased block is programmed and set_bootloader_message returns.
ProgramBcb ==
    /\ Rewriting /\ bcb' = bcbC
    /\ UNCHANGED <<bcbC, udVars, fw, reason, pc, runVars, sdVars, ghosts, bounds>>

WriteBackBcb ==
    /\ WriteBack /\ bcb # bcbC /\ bcb' = bcbC /\ Settle
    /\ UNCHANGED <<bcbC, udVars, fw, reason, pc, runVars, sdVars, told, torn, bounds>>

WriteBackUserdata ==
    /\ ud # udC /\ ud' = udC
    /\ UNCHANGED <<bcbVars, udC, fw, reason, pc, runVars, sdVars, ghosts, bounds>>

\* The cut finds data or firmware half written, and the command that works on
\* it, or is to begin again, off the medium.
TearsCommand ==
    /\ Rewriting /\ CommandJob(BcbArgs(bcbC)) # "none"
    /\ ud.fs = "partial" \/ fw = "partial"

PowerCut ==
    /\ cuts < MaxCuts /\ (pc # "boot" \/ Rewriting)
    /\ cuts' = cuts + 1
    /\ bcbC' = bcb /\ udC' = ud
    /\ pc' = "boot" /\ reason' = "none" /\ SetRun(Idle) /\ sd' = "none"
    /\ torn' = (torn \/ TearsCommand)
    /\ UNCHANGED <<bcb, ud, fw, sdbin, owed, told, requests>>

MainSystem ==
    /\ ~Rewriting
    /\ \/ \E a \in Commands : RequestByFile(a)
       \/ \E p \in Packages : RequestByMisc(p)
       \/ EnterByHand

Menu == ~Rewriting /\ (MenuReboot \/ MenuWipe \/ MenuApply)

\* The main thread; it waits in set_bootloader_message for the flash.
Program ==
    \/ ProgramBcb
    \/ /\ ~Rewriting
       /\ \/ BootLoader \/ GetArgs \/ Dispatch
          \/ Erase \/ Mkfs \/ ResizeOem
          \/ OpenResult \/ MountPackage \/ Engine \/ Flash \/ SdFlash \/ Installed
          \/ WriteResult \/ SdUpdate
          \/ Decide \/ SdWait \/ FinishBcb \/ FinishUnlink \/ FinishSync \/ Reboot
          \/ Sideload

Next ==
    \/ MainSystem \/ Program \/ Menu \/ ToggleText
    \/ WriteBackBcb \/ WriteBackUserdata \/ PowerCut

Spec == Init /\ [][Next]_vars

\* The program keeps running when it can; neither the user nor the main
\* system has to act, and the power may fail at most MaxCuts times.
FairSpec == Spec /\ WF_vars(Program)

-----------------------------------------------------------------------------
(* The abstraction: the command in the BCB, how far it has come, whether   *)
(* this run knows that it failed, and whether the command is waiting for a *)
(* run, being rewritten by it, or worked on.                               *)

AcceptedJob ==
    IF Lasting.command = "none" THEN "none" ELSE CommandJob(BcbArgs(Lasting))

EffectOf(j) ==
    IF j = "none" THEN "none"
    ELSE IF j \in EraseJobs
    THEN CASE ud.fs = "user" -> "none" [] ud.fs = "partial" -> "partial"
           [] ud.fs = "fresh" -> "done"
    ELSE CASE fw = "old" -> "none" [] fw = "partial" -> "partial"
           [] fw = "new" -> "done"

Stage ==
    IF AcceptedJob = "none" THEN "waiting"
    ELSE IF Rewriting THEN "writing"
    ELSE IF pc \in {"boot", "get_args"} THEN "waiting"
    ELSE "working"

Abstract == INSTANCE AcceptedCommand WITH
    Jobs   <- EraseJobs \cup {"update"},
    NoJob  <- "none",
    job    <- AcceptedJob,
    effect <- EffectOf(AcceptedJob),
    failed <- AcceptedJob # "none" /\ status = "error",
    stage  <- Stage

\* Every behaviour of the program is one of the promised behaviours.
ImplementsAcceptedCommand == Abstract!Spec

-----------------------------------------------------------------------------
(* Properties.                                                             *)

BcbType == [command : {"none", "boot-recovery"}, named : BOOLEAN,
            options : Seq(Options), need : BOOLEAN, flag : {"", "false", "package"}]
VolumeType == [fs : {"user", "partial", "fresh"}, cmd : Seq(Options),
               pkg : BOOLEAN, rst : {"none", "empty", "success", "failed"}]

\* The places of main() between get_args and the first finish_recovery.
TaskPcs == {"dispatch", "erase", "mkfs", "resize_oem", "update", "mount_pkg",
            "engine", "flash", "installed", "write_result", "sdupdate", "decide"}
Pcs == TaskPcs \cup {"main", "boot", "get_args", "sd_wait", "finish_bcb",
                     "finish_unlink", "finish_sync", "menu", "sideload", "reboot"}
JobNames == EraseJobs \cup {"update", "none"}

StorageType ==
    /\ bcb \in BcbType /\ bcbC \in BcbType
    /\ ud \in VolumeType /\ udC \in VolumeType
RunType ==
    /\ pc \in Pcs /\ ctx \in {"main", "menu"} /\ args \in Seq(Options)
    /\ status \in {"success", "error"} /\ flag \in {"", "false", "package"}
    /\ visible \in BOOLEAN /\ mnt \in BOOLEAN /\ rstOpen \in BOOLEAN
DeviceType ==
    /\ fw \in {"old", "partial", "new"} /\ reason \in {"none", "recovery"}
    /\ sd \in SdKinds /\ sdbin \in BOOLEAN
    /\ owed \subseteq JobNames /\ told \in BOOLEAN /\ torn \in BOOLEAN
    /\ cuts \in 0..MaxCuts /\ requests \in 0..MaxRequests

\* Every variable stays within the values the program can give it.
TypeOK == StorageType /\ RunType /\ DeviceType

\* recovery.c: "get_args() writes BCB ... after this, rebooting will restart
\* the erase".  From the moment that write is complete until the task is
\* finished, the BCB on the medium leads back to recovery with the very
\* arguments that this run works on.
RestartsSameCommand ==
    pc \in TaskPcs /\ ctx = "main" /\ sd = "none" /\ args # <<>> /\ ~Rewriting =>
        /\ bcb.command = "boot-recovery"
        /\ BcbArgs(bcb) = args
        /\ pc = "flash" => bcb.need

\* The main system is never booted with a half-formatted /userdata or half-
\* written firmware unless the recovery prompt was shown since the request, or
\* a power cut hit the rewrite of the BCB by the get_args of a later run: the
\* command is lost there, on MTD.
DamageIsReported ==
    pc = "main" /\ (udC.fs = "partial" \/ fw = "partial") => told \/ torn

\* A command erases /userdata only while a request to erase is unsettled: a
\* command file left behind by a power cut is not carried out a second time.
EraseOnlyIfOwed ==
    pc \in {"erase", "mkfs"} /\ ctx = "main" => Job \in owed

\* No command at all is carried out a second time, as long as the power stays
\* on between the two writes of finish_recovery, unless its file could not be
\* removed, which finish_recovery only warns about.
CarriedOutOnce ==
    cuts = 0 /\ pc \in TaskPcs /\ ctx = "main" /\ args # <<>>
        => CommandJob(args) \in owed

\* A main system that finds "update images success!" runs the new firmware,
\* whatever power cuts fell between the steps, or the user saw the prompt, or
\* a cut hit the rewrite of the BCB while the firmware was half written.
SuccessIsTrue ==
    pc = "main" /\ udC.rst = "success" => fw = "new" \/ told \/ torn

Done(j) == IF j \in EraseJobs THEN udC.fs = "fresh" ELSE fw = "new"

\* finish_recovery takes a command out of the BCB only when its effect is
\* complete, or its failure is in status and so the prompt is on the screen.
ReleasedWhenDone ==
    [][LET j == CommandJob(BcbArgs(bcbC))
       IN  pc = "finish_bcb" /\ j # "none" /\ bcbC'.command = "none"
             => Done(j) \/ status = "error"]_vars

\* A command in the BCB is taken out by finish_recovery, or by a power cut
\* while the block that holds it is being rewritten, and by nothing else: no
\* restart, no choice in the menu and no cut at any other moment loses it.
OnlyFinishForgets ==
    [][CommandJob(BcbArgs(Lasting)) # "none" /\ BcbArgs(Lasting') # BcbArgs(Lasting)
         => \/ pc \in {"finish_bcb", "finish_unlink", "finish_sync"}
            \/ Rewriting /\ cuts' # cuts]_vars

\* The downloaded package is not deleted before its images are on flash.
PackageOutlivesInstall ==
    [][udC.pkg /\ ~udC'.pkg => fw = "new" \/ udC'.fs # "user"]_vars

\* "Reset to normal system boot so recovery won't cycle indefinitely": a BCB
\* that leads to recovery is erased again, whatever happens on the way.
NoEndlessRecovery == bcb.command = "boot-recovery" ~> bcb.command = "none"
=============================================================================
