# A verification project for the Rockchip recovery program

This directory holds TLA+ modules that model the recovery program of this
repository, TLC configurations that check them on small instances, and proofs
checked by the TLA+ proof system. Line numbers refer to `src/`.

## 1. Inventory

Recovery is the small system a device boots when it must erase `/userdata` or
install new firmware. It is started by the boot loader, talks to the main
system only through flash memory, and may lose power at any moment.

| component | code | state it keeps | operations | hard behaviours |
|---|---|---|---|---|
| recovery core | `recovery.c` | BCB in misc, `COMMAND_FILE`, `update_rst.txt`; `status`, `systemFlag`, argv | `get_args`, the branches of `main`, the menu, `finish_recovery` | power cut between any two durable writes; order of the medium against order of the calls; failures sharing one `status` |
| BCB access | `bootloader.c` | the misc partition (MTD or block) | get, set | page cache without flush; erase and rewrite of ten shared pages |
| child driver | `rkupdate.c` | a pipe, the partition mask | `do_rk_updateEngine` | re-reads the BCB that `get_args` rewrote |
| volumes, format | `roots.c`, `mtdutils/rk29.c` | mount state, file systems | mount, unmount, format, resize | exit status of the tools is dropped |
| SD boot | `sdboot.c` | `sdupdate.bin` on the card | detect, mount | an interrupted run leaves the mark of a finished one |
| update engine | `update_engine/*.cpp` | the table `update_cmd`, A/B data in misc | `MiscUpdate`, `RK_ota_start`, slot functions | A/B slots over failed boots; two processes rewriting misc; silent skips |
| screen and keys | `ui.c`, `default_recovery_ui.c` | key queue, `show_text`, icon and progress, two pages | input thread, progress thread, drawing calls, `ui_wait_key` | three threads and two mutexes; bounded queue; pages drawn in part |
| raw flash | `mtdutils/mtdutils.c`, `flash_image.c` | position, buffer, bad blocks | buffered read, write with bad blocks, erase | retries, bad blocks, end of partition, a cut between two units |
| binary patches | `applypatch/applypatch.c`, `bspatch.c`, `imgpatch.c`, `freecache.c` | `CACHE_TEMP_SOURCE`, `.patch` files, partitions | check, space, patch | restart after a power cut; full volumes; late write-back |
| patch tools | `applypatch/bsdiff.c`, `imgdiff.c` | | diff of two files, run on the build host | what they write the device must be able to apply |
| scripts | `edify/expr.c`, `updater/*` | mounts, files, the pipe to the parent | expressions, 30 functions | failures told apart from `""`; arguments that are not read |
| package install | `install.c`, `verifier.c` | | verify, install | the signed bytes against the bytes that are read |
| zip, hash | `minzip/*` | hash table, directory tree | open, find, add, remove, unpack | table growth, tombstones, partial unpacking |
| table, loader | `update_engine/flash_image.cpp`, `rkimage.cpp`, `rkboot.cpp` | the disk outside of partitions | parameter file to GPT, loader to its copies | a cut between two sectors |
| drawing, input | `minui/*` | frame buffer | device I/O | left out |
| host tools | `tools/`, `edify/main.c`, ... | | run on the build host | left out |

How they interact. The main system asks for a command in one of two ways: it
writes `COMMAND_FILE` on `/userdata` and reboots with the reason "recovery", or
it runs `updateEngine --misc=update`, whose `MiscUpdate` writes the BCB. The boot
loader starts recovery when the BCB or the boot reason says so. `get_args`
merges BCB and command file and writes the result back to the BCB, so that a
reboot returns to the same command. `main` carries the command out; an update is
a child process (`updateEngine`) that reads which partitions to write from
arguments taken out of the BCB. `finish_recovery` erases the BCB, unlinks the
command file and syncs. The input thread changes `show_text`, on which `main`
decides whether to prompt or to reboot. On MTD the BCB, the A/B data and the wipe
command are fields of the same ten pages, which recovery and the engine rewrite
as a whole through `mtdutils`. A package of the older kind is verified, unpacked
with `minzip`, and its script is run by the updater, a child whose functions
patch files and partitions (`applypatch`) or write them raw (`mtdutils`);
`install_package` is not called by `main` of this tree.

What makes it correct. The head of `recovery.c` (81-112): a command that was
accepted is restarted after every power cut until it is finished, and is then
forgotten; a failure is shown to the user. For the writers: what was reported as
written reads back, and what was there before is not lost until its replacement
is. For the screen: it shows the state, and a key acts on the menu it was pressed
in. For the algorithms: the answer on every small input is the one the caller
relies on.

## 2. Modules

### `Recovery`: the boot cycle

State. A value behind the page cache has two variables, the medium (`bcb`, `ud`)
and the kernel's view (`bcbC`, `udC`); a power cut copies the medium over the
view, write-back and `sync()` the other way. On MTD nothing is cached, but a write
of the BCB has two steps, because `write_block` erases the block (`mtdutils.c:436`)
and then programs it: in between `bcbC` is the message being written, `bcb` what is
left of the block (`Ruins`: no arguments, perhaps the command), and only the screen
thread and the power go on (`Rewriting`). `bcb` is `struct bootloader_message`:
`command`, the recovery field as the fact that its first line is "recovery"
(`named`) and the option lines after it, the partition mask as one bit (`need`),
and `systemFlag`. `ud` is `/userdata`: the state of its file system (in use, half
formatted, fresh), the command file, the package and `update_rst.txt`. `pc` is
the place in `main`; `ctx` tells whether `finish_recovery` and `erase_volume`
were called by `main` or by the menu. `args`, `status`, `flag`, `visible`, `mnt`,
`rstOpen` are the program's variables of those names (argv, `status`,
`systemFlag`, `show_text`, the mount state, the descriptor of the result file).
`owed`, `told` and `torn` are ghosts: no action reads them. `torn` notes that a
rewrite of the BCB was cut while data or firmware was half written.

| action | code |
|---|---|
| `GetArgs` | `get_args` 187-246, with the read and write of the BCB that may fail |
| `Dispatch` | the option loop and the heads of the else-if chain, 763-835 |
| `Erase`, `Mkfs` | `erase_volume`, `format_volume`, `rk_make_ext4fs`, split where the power can fall |
| `ResizeOem` | the second half of `--wipe_all`, 977-988 |
| `OpenResult`, `MountPackage`, `Engine`, `Flash`, `Installed`, `WriteResult` | the `update_package` branch, 862-928, and its child |
| `SdUpdate`, `SdFlash`, `SdWait` | the SD branch, 934-971 and 998-1015 |
| `Decide` | 993-996 |
| `FinishBcb`, `FinishUnlink`, `FinishSync` | `finish_recovery` 270-321, split at its durable writes |
| `ProgramBcb` | the end of every write of the BCB on MTD: `write_block`, called by `set_bootloader_message_mtd` |
| `Reboot` | 1017-1024 |
| `MenuReboot`, `MenuWipe`, `MenuApply`, `Sideload` | `prompt_and_wait`, `wipe_data`, `sdcard_directory`, `copy_sideloaded_package` |
| `ToggleText` | `input_callback` of `ui.c`, which runs in its own thread |
| `RequestByFile`, `RequestByMisc`, `EnterByHand`, `BootLoader`, `WriteBackBcb`, `WriteBackUserdata`, `PowerCut` | the environment: external, modelled by what the code expects |

Branches taken: the build with a screen (`ui.c`) and with the update engine
(`USE_UPDATEENGINE`); `/userdata` is ext4. In the `secure_fs` branch
`read_encrypted_fs_info` is never called and the stubs return an error, which
leaves the erase or the error as modelled. An update from SD on MTD writes the
whole chip with `flashcp` and is excluded by `SdUpdateAssumption`.

### `AcceptedCommand`: the promise

Four variables: the accepted command, how far its effect has come, whether the
running attempt has failed, and whether the command is waiting for a run, is being
stored anew by it, or is worked on. `Recovery` implements it with `job` taken from
the BCB on the medium (or the one a rewrite is about to leave there), `effect` from
the file system or the firmware, `failed` from `status`, `stage` from the place in
`main` (`Abstract` at the end of `Recovery.tla`). The one way in which the promise
loses a command is `Lose`, from the stage of storing it anew: that is the price of
the erasure on MTD, and the code pays it in every `get_args`.

### `Slots`: the A/B data

Operators on the A/B data of misc (`AvbABData`): what `setSlotSucceed` and
`setSlotActivity` write (`Succeeded`, `Activated`), for each of the two macros a
build may define, and what the boot loader makes of it (`IsChosen`, `Tried`;
external, after the comments of `bootloader.h`: the bootable slot of the highest
priority, a try used up by every boot of a slot without the mark of success).

### `UpdateEngine`: the program `updateEngine`

It extends `Slots`. State: `part`, the version in each partition (`<<name,
slot>>`, slot 2 for partitions that are not doubled) or `Torn`; `ab`, `bcb`, the
A/B data and the BCB of misc on the medium, `abC`, `bcbC` as the kernel sees
them; `files`, the packages that are on `/userdata`. `pc`, `src` (`_url`),
`todo` (the `need_update` flags), `status` (`m_status`) and `buf` (the `info` of
`setSlotActivity`) belong to one run of the program with the command line `req`;
`nowPc`, `nowBuf` to the start script's `updateEngine --misc=now`. `running` is
the slot in the kernel's command line. `awaited` is a ghost.

| action | code |
|---|---|
| `Start`, `Begin` | option handling and the branches of `main`, 107-179, the checks of `MiscUpdate`, 30-49 |
| `StartChild` | `do_rk_updateEngine`: recovery starts the program with what the BCB says |
| `Download` | `RK_ota_start` 149-164, `download_file` |
| `Analyse` | `RK_ota_set_partition(-1)`, `analyticImage` |
| `Skip`, `WriteBegin`, `WriteEnd`, `Check` | the loop of `RK_ota_start`, 173-210; `block_write`, `comparefile` |
| `Finish`, `AfterCallback` | 216, `handle_upgrade_callback`, and what `main` makes of `m_status` |
| `ActivityRead`, `ActivityWrite` | `setSlotActivity` |
| `MiscBcb` | `MiscUpdate` 59-74 |
| `NowRead`, `NowWrite` | `setSlotSucceed` in the other process |
| `End` | 181-187; in recovery, `finish_recovery` and the reboot |
| `BootSlot`, `BootSingle`, `WriteBack`, `UserReboot`, `PowerCut` | the environment |

A device has A/B slots or a recovery partition (`slotted`), and `--misc=update`
is used on the latter, with `--reboot`: given twice without a reboot in between,
the second one would write recovery's partition while the BCB leads to it. A mask may name both A/B partitions or one. What stands
in the package is `req.items`; its version is the number of the run, so that an
older write is never taken for the one of this run. Partitions are written with
`fsync`, so they have no view of their own; package files are taken as durable
once they are written. Left out: the MTD writers, the removal of the package by
recovery, `--misc=display` and `--misc=wipe_userdata` (a string for the boot
loader which nothing in this tree reads).

### `MtdBlocks`: the block writer, and `MtdPrograms`: who uses it

`MtdBlocks` is `mtdutils.c` for one partition. `flash` is a function from blocks
to sequences of units (`Erased`, `Torn`, `Zero` or data), `bad` and `worn` are the
blocks that `MEMGETBADBLOCK` reports and those that can no longer be programmed.
`call` is the function that was called and `phase` the place in it: the buffered
write fills `buffer`, and `write_block` erases, programs unit by unit, reads back
and compares, tries again once, erases a last time and goes to the next block.
`stored` is the filled part of `ctx->buffer`, `skipped` is `bad_block_offsets`,
`ret` whether a call has failed, and `log`, a ghost, the blocks reported as written.

| action | code |
|---|---|
| `CallWrite`, `Coalesce`, `WriteDirectly`, `WriteReturns` | `mtd_write_data` |
| `CheckBad`, `Erase`, `Program`, `Verify`, `GiveUp`, `Wipe`, `OutOfSpace` | `write_block` |
| `CallErase`, `EraseRest` | `mtd_erase_blocks` |
| `CallClose`, `Pad`, `Close` | `mtd_write_close` |

`MtdPrograms` extends it with the programs of the tree as callers (`prog`):
`flash_image` with its comparison and the header that is written last,
`write_raw_image` of the updater, the partition writer of `applypatch`,
`mtd_write` of the engine, and the rewrite of misc by recovery (`bootloader.c`)
and by the engine (`rkbootloader.cpp`). `ReadMore` is `mtd_read_data`, called with
any lengths. `Reading` says it by index: `GoodFrom(b)` are the blocks `read_block`
comes to from block `b` on, `Nth` the one it returns the k-th time, and `UnitFrom`
the u-th unit; what is left of the last block stays in `rbuf`. Programs run one after the other and may be cut at any unit; those
of misc never share their partition with the others (`Owners`).

### `ApplyPatch`: a script of patches

`sys` holds of every file what stands in the place of the target (`at`), whether
a source of another name is still there (`from`) and how much of `<target>.patch`
is written (`out`); `cache` holds `CACHE_TEMP_SOURCE` and the other files of
`/cache`. `sysC` and `cacheC` are the media behind the page cache; a device
writes back at once or late (`dev.late`), and `fsync` commits the volume it is
on. A file is one of four kinds: patched in place (`file`), with a target of
another name (`rename`), a partition in place, or a file patched into a partition
(`move`). Contents are known by their hash alone, sizes are counted in units.

| action | code |
|---|---|
| `Begin`, `AskAgain` | recovery starts the script that the BCB asks for, again after a cut (`recovery.c:98-101`); after a failure only the user does (104-108) |
| `Check`, `Space` | the script's `applypatch_check`, which takes the copy for the file only when it is given hashes (476-499; `dev.hashes`), and `CacheSizeCheck` |
| `Load` | `applypatch` up to the loop, 569-668: target there, source, or copy |
| `Room` | the head of the loop, 700-760: room on the volume, or the source moves to `/cache` (`MakeFreeSpaceOnCache`) |
| `Truncate`, `Save`, `UnlinkSource` | `SaveFileContents`, split where power can fall |
| `OpenOutput`, `Apply`, `ApplyFails`, `Verify` | the output file, its sink and `fsync`, the second try |
| `Rename`, `WritePartition`, `WritePartitionEnd`, `Drop` | the output takes the target's place, the copy goes |
| `WriteBack`, `PowerCut` | the environment |

### `UiThreads`: screen and keys

Three threads: the one that reads the input devices (`ReadEvent`, `Enqueue`,
`Toggle`: `input_callback`), the one that moves the bar (`Tick`:
`progress_thread`), and the program, which draws (`SetBackground`, `ShowProgress`,
`SetProgress`, `UiPrint`, ...), waits in menus (`StartMenu`, `WaitKey`,
`Highlight`, `Choose`, `EndMenu`) and wipes. A section under `gUpdateMutex` or
`key_queue_mutex` is one step. `pages` are the two pages of the display and
`front` the visible one: `UpdateScreen` draws a page in full, `UpdateProgress`
only the bar of the page that is not visible when both are thought to be the same
(`same`). `round` is a ghost that numbers the menus; every key carries the round
in which it was queued.

### The algorithms

`MCLibrary` checks modules of pure operators: a job is one call on one small
input, and the state is the job and its answer (`LibraryJob`).

| module | code |
|---|---|
| `BinaryDiff` | `bsdiff.c`: search in the index, matching, extension; `bspatch.c`. The index is an argument |
| `Patches` | extends it: the suffix sort of `bsdiff.c`, `imgdiff.c` (chunks of images and of zip files, merging), `imgpatch.c`, and `LoadPartitionContents` |
| `HashTable`, `TableCalls` | `Hash.c`: open addressing, tombstones, growth; `TableCalls` is the table as a state machine whose steps are the calls, with the hash values and the comparison the caller may give |
| `Archive` | `Zip.c`: directory, its order and its table, the place of a name, unpacking; `DirUtil.c`. Taking a tree down and changing its owner are walks through its paths, in every order in which directories may be read |
| `SignedPackage` | `verifier.c`: the footer, what is signed; and the place where `Zip.c` finds the directory of the same bytes |
| `Script` | `expr.c` and every function of `updater/install.c`, `updater.c`, `install.c` of recovery |
| `Layout`, `MCLayout` | `flash_image.cpp`, `rkimage.cpp`, `rkboot.cpp`: parameter file to GPT, copies of the loader, items of an image |

What they leave to the environment is an input of the job: which operation of the
file system or the device fails (`broken`), what deflate makes of a file (a unit
that stands for its level and its data), which signature belongs to which key.

### The others

`MCRecovery`, `MCUpdateEngine`, `MCMtd`, `MCApplyPatch` and `MCUi` give values to
the constants, one configuration per question. `RecoveryProofs`,
`RecoveryOutcomeProofs`, `UpdateEngineProofs`, `MtdProgramsProofs`,
`UiThreadsProofs`, `ApplyPatchProofs`, `MinzipProofs` and `LibraryProofs` hold the
theorems. Recursion in the modules they speak of (`HashTable`, `Archive`,
`SignedPackage`, `Layout`, `BinaryDiff`) is written with recursive functions.

## 3. Runs

| run | checks | shows |
|---|---|---|
| `MCRecovery` | `TypeOK`, `RestartsSameCommand`, `DamageIsReported`, `SuccessIsTrue`, `ReleasedWhenDone`, `OnlyFinishForgets`, `PackageOutlivesInstall`, `ImplementsAcceptedCommand` | the boot cycle refines the promise; with misc on MTD and failures the code looks at, three cuts over three requests never lose a command, its arguments or its partition mask, and nothing broken is booted unreported, but for a cut between the erasure and the programming of the BCB, which all of these properties name |
| `MCRecoveryBlock` | `RestartsSameCommand`, `DamageIsReported` | the same on eMMC, for requests that `MiscUpdate` flushed before the reboot |
| `MCRecoveryOwed` | `EraseOnlyIfOwed`, `CarriedOutOnce` | whatever transfer fails, with the power on no command runs twice unless its file could not be removed; with a cut, also one into a write of the BCB, a command file that the cut left behind never causes a second erase |
| `MCRecoveryLive` | `NoEndlessRecovery` | every BCB that leads to recovery is erased again, on eMMC, with every card and every failure but that of the write of the BCB |
| `MCUpdateEngine` | `TypeOK`, `AlwaysComesBack`, `ComesUp`, `ActivationTakesEffect`, `FinishedIsWritten`, `RecoveryIsKept` | over three command lines, a first release that does not boot, two cuts and all failures: an A/B device keeps a slot that boots and comes up on it; the slot that was prepared is the next to boot; `RK_UPGRADE_FINISHED` means that everything asked for and in the image is where the next boot reads it; recovery's own partition is not touched while the BCB leads to it |
| `MCMtd` | `TypeOK`, `StreamInOrder`, `ReadBack`, `HeaderMeansRest`, `MiscKept`, `EveryProgramEnds` | what `mtdutils` reports as written stands in order in the good blocks and reads back; an image whose header is in place is whole; a rewrite of one field of misc keeps the other; the retries end |
| `MCApplyPatch` | `NothingLost`, `CheckedIsPatched`, `Idempotent`, `RestartFinishes` | at every moment the medium has a whole form of every file; what the checks accepted is never refused; a script that was asked for ends with every file patched, over any cuts and after any earlier failures, unless a step of it fails: it is never stopped for want of a source or of room (with hashes in the checks, prompt write-back and room for two copies) |
| `MCUi` | `ScreenIsCurrent`, `OldKeysDropped`, `KeysAreHeard`, `BarNeverGoesBack` | in every interleaving of the three threads the screen shows the state, no key is lost on a sleeping menu or acts on a later one, and the bar moves forward |
| `MCLibrary` | `PatchRestoresTarget`, `TableIsTheSet`, `ArchiveUnpacks`, `SignedIsRead`, `ScriptAsDocumented`, `InstallSucceeds`, `LayoutSound` | every small input of the algorithms: patches restore their target; the hash table is a set; an archive unpacks in full or says so; the bytes that are signed are those the zip reader sees; scripts keep the laws of the README of edify (with an abort of its own message for `assert`); an installation succeeds exactly when every asserted step is done, but for the last block of a raw image; whatever sectors a cut leaves, one copy of the partition table is whole unless both are torn, and one copy of a loader that fits |

Runs whose names have an underscore each show one disagreement of the code with
a comment in it; the comment and the behaviour are quoted in `PROJECT.json`
under `findings`:

| run | what happens |
|---|---|
| `MCRecovery_PageCache` | on eMMC `get_args` does not flush the BCB before the format |
| `MCUpdateEngine_Race` | `--misc=now` and an update rewrite the A/B data over each other |
| `MCUi_Wipe` | one press of the menu key both selects the item that wipes and hides the text, and without the text there is no question |

### Bounds

- `Recovery`: `MaxCuts` power cuts and `MaxRequests` requests of the main system.
  Two requests are the least with which a leftover of the first can disturb the
  second; two or three cuts let a cut hit the restart of a restart. `BcbCap` is
  the number of option lines that fit in the 768 bytes. `Faults` names the
  operations that may fail; `HonestFaults` are those whose failure the code looks
  at. `MCRecoveryOwed` takes one cut, and all faults but those of the format: what is
  rewritten on MTD after each failure makes it the largest of the runs.
  `MCRecoveryLive` has two commands, the longest way through `main` and the
  shortest, and one cut.
- `UpdateEngine`: `MaxRuns` = 3 lets a second update meet what a failed first one
  left in the other slot, and a third come back to the first slot. `MaxCuts`
  bounds power cuts and failed accesses to the A/B data together, because each
  may cost the running slot one of its `MaxTries` tries: a device whose
  `--misc=now` fails as often as it has tries does run out of slots, so the runs
  take `MaxCuts + 1 < MaxTries` (the code's value of `AVB_AB_MAX_TRIES_REMAINING`
  is 7). `Concurrent = FALSE` says that the start script has ended before somebody
  runs an update; `MCUpdateEngine_Race` shows why that is needed.
- `MtdPrograms`: three blocks of three units, so that an image needs one block or
  two, a bad block may stand before, between or behind them, and the image may
  run out of the partition; any set of blocks bad or worn; two runs, so that one
  program meets what another one left; two mishaps, so that the second try of
  `write_block` can fail too. The ten pages of misc are two units.
- `ApplyPatch`: two files, the least with which the copy of one can be in the way
  of the other, of two units each, so that a copy or an output may be half
  written; volumes with and without room for both forms, `/cache` with room for
  one copy and for two; three mishaps let a cut hit the restart of a restart.
- `UiThreads`: a queue of two keys (the code has 256), so that it is full and
  drops; four events of the devices; two drawing calls; a menu of three items and
  a question of three answers with Yes in the middle.
- `MCLibrary`: files of up to `MaxDiff` units in all for `bsdiff`, with the
  thresholds of the code made small (`SmallSort`, `Gain`, `RawMax`); images with up
  to two streams; archives of two entries; a table that grows up to `MaxTable`
  slots, with hash values that collide; scripts of two steps in every
  combination, with every operation that may fail; disks of some dozen sectors.

### Fairness

`Recovery` (`FairSpec`): weak fairness of `Program`, the steps of the boot loader
and of `main` up to the menu: a single thread that always runs on, and that waits
only for the removal of the card in `SdWait`, which the user is told to do.
Neither the menu (the user), `ToggleText`, the main system, nor write-back is
fair, and power cuts are bounded: nothing is released on a device whose power
fails forever. `UpdateEngine` has the same: the boot loader, the program, and
recovery's start of it run on while there is power (`End` in recovery stands for
the user who leaves the menu after a failure); no command line has to be given.
`MtdPrograms`: the program that was started runs on. `ApplyPatch`: a script that was
asked for runs on, and again after a cut (`recovery.c:98-101`). One that failed is
not started again by itself: recovery erases the BCB, shows the error and reboots
into the main system (104-108), and nothing obliges the user (`AskAgain`) to try
once more. Cuts and failures are bounded. `UiThreads`: the thread of the program and the
input thread run on, the latter once it holds a key; keys need not be pressed and
the bar need not tick. `CHECK_DEADLOCK FALSE` stands in the runs of systems that
may stop: nobody need ask for a command, the script is not started again when it
is done, and a call of an algorithm ends with its answer.

### What else was seen

Seen while the code was read, or following from the models, without a
configuration of its own.

Recovery and update engine:

- On MTD `get_args` erases and rewrites the BCB at every start, also at the restart
  after a cut, while `/userdata` or the firmware is half written. A second cut
  between `MEMERASE` and the write (`mtdutils.c:436-441`) leaves no command: the main
  system boots on the damage, and may find an old `update_rst.txt`
  (`DamageIsReported`, `SuccessIsTrue` and `OnlyFinishForgets` hold but for this cut,
  and fail without the exception). Nothing would have to be written when the BCB
  already holds the arguments.
- `finish_recovery` only warns when `/userdata` cannot be mounted or the command file
  cannot be unlinked (`recovery.c:314`), after it has erased the BCB: the next visit
  to recovery, even by hand, carries the command out again (`CarriedOutOnce` without
  `FileStays`).
- With `"misc_write" \in Faults` a failed erasure of the BCB, whose result
  `finish_recovery` drops, cycles forever (`NoEndlessRecovery`).
- With a small `BcbCap` the options that do not fit in the BCB are cut, so that
  a restart works on others (`RestartsSameCommand`).
- One failed read of misc in `get_args` forgets the command (`OnlyFinishForgets`
  with `"misc_read"`).
- `run()` in `rk29.c` drops the exit status of `mke2fs`, so a failed format is
  released as a success (`ReleasedWhenDone` with `"mkfs"`).
- A package whose volume cannot be mounted writes the result "failed" but leaves
  `status` a success, so nothing is shown (`recovery.c:912`, against 106-107).
- A failed read of misc in `do_rk_updateEngine` leaves the mask uninitialised; with a
  mask of no partitions the child succeeds and the package is removed
  (`rkupdate.c:98`).
- `--update_package` from the command file passes `--partition=0x0` to the child,
  which writes nothing and succeeds (`rkupdate.c:99`).
- The package is removed before the BCB is erased: a cut in between makes the
  restarted run report a failure over a complete firmware (`recovery.c:906`).
- `sdupdate.bin` is created before the child runs: an SD update that was cut is
  later reported complete (`recovery.c:934`).
- A boot from SD skips `get_args` and still calls `finish_recovery`, which erases
  a command that waits in the BCB (`recovery.c:738`).
- A blank line in the command file makes `strtok` return NULL for `strdup`
  (`recovery.c:228`).
- The result file is opened before `/userdata` is mounted; unless something
  mounted it before, the result is hidden under the mount (`recovery.c:868`).
- `tmplog_offset` is reset before a format that may fail, so the log is then
  appended a second time (`recovery.c:332`).
- `get_cfg_Item` of `sdboot.c` never closes the file and copies the value into ten
  bytes whatever its length; `ensure_path_mounted` takes a path that exists for
  mounted.
- `--misc=update` with a remote package and without the recovery bit sends
  recovery to a file that nobody saved (`update_engine/main.cpp:44`, 66); without
  `--savepath` it passes a null pointer to `strcmp`.
- The Makefile defines neither `SUCCESSFUL_BOOT` nor `RETRY_BOOT`: then
  `--misc=now` gives no slot its tries back, and every boot costs one. The result
  of `setSlotActivity` is dropped (`main.cpp:24`).
- `comparefile` compares a digest it never computed when the read fails.

Patches and packages:

- A partition patched in place whose patch is restarted from the copy loses it:
  `SaveFileContents` truncates `CACHE_TEMP_SOURCE` with a `source_file` that was
  not loaded, and fails (`applypatch.c:485-489`, 566-567); `NothingLost` and
  `RestartFinishes` name this case as `spoiled`. The write of an eMMC partition
  is not flushed before the copy is unlinked.
- `applypatch_check` without hashes accepts whatever loads, but never the copy
  (`applypatch.c:476-499`), although its comment (471-475) recommends the form for
  partitions, whose name holds the hashes: a script with such checks is refused after a
  cut that left only the copy, which `applypatch` itself would have taken
  (`RestartFinishes` fails without `dev.hashes`).
- A copy of an earlier run is not unlinked and stays on `/cache`; a complete
  `.patch` that was not renamed is never looked at; a source that is not the
  target is unlinked.
- `imgdiff` does not end on a file that ends within the magic of gzip, nor on a
  magic that is none; `imgpatch` ignores the result of `ApplyBSDiffPatch` for
  chunks that are not images; `LoadPartitionContents` prints an error for a wrong
  number of colons and goes on.
- `mzExtractRecursive` keeps two variables `ok`, the inner of which hides the
  outer (`Zip.c:1124`); an extraction into `/` fails for files at the top;
  `mzReadZipEntry` is true for an entry shorter than it says; one bad key in the
  key file leaves none.
- `apply_patch` and `apply_patch_check` use an argument that is NULL when a value
  fails; the inner loop of `DeleteFn` counts with the variable of the outer; the
  format of an unknown file system aborts without a message; many functions
  report a failure as `""` only, which a script must assert; `run_program`'s status is
  true whatever it is.
- `write_raw_image` only warns when its last call fails, which programs the last
  block of the image (`updater/install.c:723-728`, `mtdutils.c:511-515`), and returns
  the name of the partition: `InstallSucceeds` excepts this one failure by name.
- `file_getprop` hands the NULL of `strtok` on when a file has no line in it, and
  crashes (`updater/install.c:609-612`).
- The README of edify (77-82) gives `ifelse(c, "", abort())` as `assert(c)`: they stop
  for the same `c`, with different messages (`expr.c:133-136`, `151-157`), so
  `ScriptAsDocumented` compares all but the message. `stdout` prints its arguments as
  it evaluates them, so what stands before one that fails is printed.

Screen:

- `drm_flip` returns NULL when a page flip is refused, and `gr_draw` becomes NULL
  (`graphics_drm.c:444-455`).
- `ui_wait_key` moves its queue with an overlapping `memcpy`; a key that was read
  before the queue is cleared and queued after acts in the new menu; of a key that
  is dropped because the queue is full the toggle still acts; scopes may sum to
  more than the whole bar.

Flash:

- A block that is given up is skipped and erased but not marked bad, so a reader
  does not pass over it (`GaveUp` in `ReadBack`).
- `flash_image` writes the header with the rest of the first block: a cut inside
  can leave a valid header without the rest of that block; it fails on images
  shorter than an erase block.
- `mtd_write` of the engine fails when its last chunk is short, and does not close
  then. What follows the ten pages in the block of misc is set to zero.
- recovery finds the BCB at page 8, the engine at byte 16384: the same for pages
  of 2048 bytes only; `MISC_OFFSET_CMDLINE` is 6144 where comments say 4K.
- `mtd_read_partition` frees `ctx` before `ctx->buffer`.

Table, loader and image:

- A line of comment in the parameter file makes its reader loop forever
  (`flash_image.cpp:264`); lines behind the first with `mtdparts` are not read, and
  the buffer has no end; a partition with `-` and without `grow` ends behind the
  disk; the dashes of a UUID count as digits.
- Nothing flushes the primary table before the backup is written
  (`flash_image.cpp:568-586`): a cut may leave any sectors of both, and when both are
  torn there is no table. `LayoutSound` and `OneTableIsWhole` except exactly that; a
  flush between the two writes would remove the exception. On a disk with an odd
  number of sectors the backup is not in the last one.
- The end of a firmware without the mark `HI` is added up in 32 bits, and what is
  behind it is taken into an `int` (`rkimage.cpp:111-122`), which wraps back: an image
  of more than 4 GB without the mark is accepted as if it had one.
- `calcIDBCount` divides by zero (`rkboot.cpp:277`), which ends the program or gives
  0; a loader longer than the distance of its copies overwrites the next one.
- `adjustFileOffset` moves the low word without a carry; in a signed image the
  MD5 is compared with one that was never read.

## 4. Proofs

`RecoveryProofs` proves, for every set of commands, every bound and every
combination of cards and faults that the hypotheses allow:

- `TypeCorrect`: `Spec => []TypeOK`, with no hypothesis beyond the constants'.
- `Restarts`: `Reliable => (Spec => []RestartsSameCommand)`.
- `NothingElseForgets`: `Reliable => (Spec => OnlyFinishForgets)`.

`Reliable` is what the runs and the list in section 3 show to be needed: misc is not behind
the page cache, reads and writes of misc return no error, and the options fit in the
BCB. A write may be cut between the erasure and the programming; `Restarts` speaks of
the moments outside of a rewrite, and `NothingElseForgets` names a cut inside.

`RestartsSameCommand` is not inductive: that the BCB still carries the arguments
at `flash` depends on facts from boot and from the menu. The inductive invariant
`RestartInv` adds: `Written` (on MTD the medium has the kernel's view, or ruins without arguments), `OptionsFit` (what
the BCB or the command file holds can be stored without loss), `Armed` (between
`get_args` and the first erasure the BCB has the command, this run's arguments,
and at `flash` the mask), `InMenu` and `Cleared` (after `finish_bcb` the BCB holds
no option, so what the menu writes loses none), `NoSdUpdate`. It was checked by
TLC before it was proved. Each proof has one step per action; the temporal step
is the last.

`RecoveryOutcomeProofs` proves what becomes of a command. The hypothesis `Honest` is
`Reliable`, and that the format and mount commands report their failures, and that
updates are asked for through the BCB (one asked for by the command file carries no
partition mask and is reported as done without a partition written; section 3).

- `DamageReported`: `Honest => (Spec => []DamageIsReported)`.
- `SuccessTrue`: `Honest => (Spec => []SuccessIsTrue)`.
- `Released`: `Honest => (Spec => ReleasedWhenDone)`.
- `PackageOutlives`: `Honest => (Spec => PackageOutlivesInstall)`.
- `Implements`: `Honest => (Spec => ImplementsAcceptedCommand)`: the refinement of
  `AcceptedCommand`, with the mapping the run uses. Every step is a step of the
  promise or leaves its variables alone.

They share the invariant `OutcomeInv`, which adds to `RestartInv`: how `main` comes
to each place and with which status (`Places`); that the prompt was on the screen
before a failed run ends (`Prompted`); that what is half done belongs to the command
in the BCB, which a restart begins again, or the user knows of it (`Owned`); what
the kernel and the medium hold of the command file and the package (`Files`); that a
run without a failure has done its job when it comes to its end (`Worked`); that a
result file that says success was written with new firmware in place (`Results`); and
where a rewrite of the BCB can be under way (`Rewrites`). `Owned` is what makes `DamageIsReported` inductive: between the first
erasure and the prompt only the BCB knows of the damage, and `torn` says when that
knowledge was cut away with it (`CutTears`). The refinement has to show that a rewrite
comes before the work of a run and never in the middle of it (`RewriteStarts`).

`RecoveryOutcomeProofs` also proves that no command is carried out twice:

- `CarriedOut`: `CommandsFit => (Spec => []CarriedOutOnce)`, on a block device or MTD,
  with every fault and every card. `OnceInv` says, for runs no cut has interrupted,
  from which of the stored commands each place of `main` can have come, and that what
  was carried out is withdrawn from all of them, or owed again when the command
  file stayed.
- `ErasesOwed`: `FormatReports => (Spec => []EraseOnlyIfOwed)`, over any number of cuts,
  also when misc cannot be read or written. `FormatReports`: MTD, no SD card, the
  commands fit, unmount and format report. `DebtInv` says that every stored form of
  an erasure is owed, and that a file system made new has no command file.

`UpdateEngineProofs` proves, for every set of command lines, every build, fault
and bound:

- `TypeCorrect`: `Spec => []TypeOK`. What it rests on is that the boot loader
  takes a try only from a slot that has one, and the ranges of the A/B data.
- `RecoveryKept`: `MiscReboots => (Spec => RecoveryIsKept)`. The hypothesis says
  that `--misc=update` comes with `--reboot`. The invariant `KeptInv` says that no
  BCB names recovery's partition (`NotAsked`), that in the main system a BCB that
  leads to recovery finds the program only waiting to reboot (`OnlyReboots`), and
  that the child of recovery never has that partition in `todo` (`ChildSpares`).
- `FinishedMeansWritten`: `Spec => []FinishedIsWritten`. `FinishedInv` adds the
  invariant of the loop of `RK_ota_start` (`LoopInv`): what was asked for and has
  left `todo` is written, and so is the partition that is being compared.
- `ComesBack`: `SlotsAreKept => (Spec => []AlwaysComesBack)`, and `TakesEffect`:
  `SlotsAreKept => (Spec => ActivationTakesEffect)`. The hypothesis: the build marks
  its boots, `--misc=now` has ended before an update is asked for, and
  `MaxCuts + 2 <= MaxTries`. `SlotsInv` says which of the slots boots, and, for the
  slot the boot loader comes to, that the tries it has left and the cuts that have
  been add up to enough: every try that is lost for good is paid with a cut or a
  failure.

`MtdProgramsProofs` proves, first for the block writer alone, over every partition,
block size, data and number of failures, and every sequence of calls of the
interface:

- `TypeCorrect`: `MtdSpec => []MtdTypeOK`.
- `StreamsInOrder`: `MtdSpec => []StreamInOrder`. The invariant says which block
  `write_block` is at and that the blocks reported before lie in front of it, so
  that neither the erasure nor a power cut reaches them.

and then for the programs, over every partition, set of images and values, number
of runs and number of failures:

- `ProgramTypes`: `Spec => []TypeOK`.
- `CallersComply`: `Spec => MtdSpec`: the programs are callers that the writer's
  interface allows, so its theorems hold of them (`ProgramsInOrder`).
- `ReadsBack`: `Spec => []ReadBack`, with no hypothesis.
- `HeaderIsLast`: `Distinct => (Spec => []HeaderMeansRest)`. `Distinct`: two images
  differ in their headers, and no header is what an erased, torn or padded unit looks
  like. Comparing headers takes that for granted.
- `MiscIsKept`: `OneMiscBlock => (Spec => []MiscKept)`. `OneMiscBlock`: an erase block
  holds the ten pages of misc (it has 64 of them).

The writer and the reader meet in the *stream*: `Place(b)` is the number of good
blocks in front of `b`, `Stream(x)` the unit that the reader finds at index `x`, and
`StreamOfBlock` says that the units of a good block stand at its place.
`ReadingGoesOn` and `ReadingStops` say what `mtd_read_data` returns of it.

- `Streaming` is the invariant of the writer: `Script` is what the program means to
  have at every index; the blocks in `log`, what is buffered, the block in work and
  what the caller still holds are this text, piece after piece (`Logged`, `Waiting`,
  `Moving`), as long as nothing failed and no block was given up. With everything
  handed over and closed, it is in the stream (`Delivered`).
- `Touched` is what a step or a cut may do to the medium: one block changes, and each
  of its units is erased, torn or the one to be written. This needs `Programmed`, the
  contents of a half programmed block.
- `Readable`: after a success the image is in the stream and the reader is where the
  bytes it returned end. `RestWritten`: between the passes of `flash_image` the image
  behind the first block is in place, and the second pass stays in that block
  (`OneBlock`). `Noted`: a block left out is in `lost` once a program is over.
- `HeaderLast` and `FieldsKept` restate the two properties on the stream. The first
  pass writes zeros at index 1 and is not at the first block otherwise, so the header
  can only come from the second. What a rewrite of misc reads is, field by field,
  what was given, or what an earlier rewrite destroyed.

`ApplyPatchProofs` proves, for every script, all sizes of files and volumes, every
set of faults and every number of cuts:

- `TypeCorrect`: `Spec => []TypeOK`.
- `NothingIsLost`: `Spec => []NothingLost`.
- `CheckedCanBePatched`: `Spec => []CheckedIsPatched`.
- `RunsAgain`: `Spec => Idempotent`.

`NothingLost` speaks of the medium at one moment, and the next write back or cut
may combine it with what the kernel holds. The invariant `IInv` says that a file
is whole in all four combinations of the two volumes' states (`Safe`), that the
output and the copy are on the medium before what they replace goes
(`OutputFirst`, `CopyFirst`), that no file loses its source before those in front
of it are patched (`InOrder`), which is why the one copy may be overwritten, and
what each step of `applypatch` has in hand (`Progress`, `Ready`). `Checks` is what
the checks of the script found and what is still true of it when a file's turn
comes. `RunsAgain` needs none of this and holds for late partitions too.

`UiThreadsProofs` proves, for every length of the queue, every menu and every
number of keys and calls:

- `TypeCorrect`: `Spec => []TypeOK`.
- `ScreenShowsState`: `Spec => []ScreenIsCurrent`; the invariant `ScreenInv` says in
  what the two pages may differ when they are thought to be the same.
- `MenusIgnoreOldKeys`: `Spec => []OldKeysDropped`.
- `BarMovesForward`: `Spec => BarNeverGoesBack`.

`MinzipProofs` proves of `TableCalls`, for every set of items, whatever their hash
values, every initial size and every sequence of additions, removals and clearings:

- `TableStaysSound`: `TableSpec => []TableSound`.
- `TableIsSet`: `TableSpec => []TableIsTheSet`: a look-up finds what was added and not
  removed, and nothing else.

`Sound` says that every item stands in the table once and that the probe for it ends
at its slot, that `numEntries` and `numDeadEntries` are what the slots hold, and that
the two together never pass the load factor, so that there is a free slot at which
every other probe ends. What is hard is growth: `resizeHash` puts the items one by
one in a table of twice the size, leaves the tombstones behind, and every item has
to be reached there again.

Of `Archive` it proves, for every archive, every directory that is wanted, every
tree it is unpacked into, all flags and every set of calls that fail:

- `ArchivesUnpack`: `ArchiveSpec => []ArchiveUnpacks`.

Its hypotheses are on the inputs (`ArchiveAssumption`): names of entries are not
empty, differ and have no empty components, and a tree has the directories that lead
to each of its paths. The binary search ends where a name belongs (`Nearing` bounds
what is left), so the entries are in order; therefore the names under one directory
stand together (`PrefixBetween`), which is why the loop may end at the first name
that does not match behind one that did. `Unpacking` says what holds after each
entry: nothing outside of the wanted paths and of the directories that lead there
has changed, what has been passed is in its place and stays there, and as long as
nothing fails the places of the entries to come are as free as they were. Different
names have different paths (`SamePath`), so no entry undoes another. That the table
finds a name follows from `Sound` with the names of the archive, and the one that
is looked for, as keys. A walk has what is under a path right before it, so a
path that is left keeps its directories (`NoneLost`).

`LibraryProofs` proves of the other algorithms, for every input:

- `SignedPartIsRead`: `VerifySpec => []SignedIsRead`: in a package that is accepted the
  end record that `mzOpenZipArchive` finds is the one the signature covers.
- `OneTableIsWhole`: when the table of partitions is written over a disk with two whole
  copies and an even number of sectors, then whatever subset of the sectors has reached
  the medium, one copy is whole, old or new, unless both are torn. Because nothing
  orders the sectors, the argument is about sets: a copy of which all or none was
  written is whole (`CopiesWhole`), and no two writes go to one sector.
- `TablesAgree`: when it is finished, both copies are whole, agree and find each other,
  on a disk of any size, so that the hypothesis holds for the next run; and the backup
  is in the last sector exactly when the number of sectors is even. After a run that was
  cut in the backup, and a second one that was cut in the primary table, no table is
  whole.
- `OneLoaderIsWhole`: while the copies of the loader are written, each flushed before
  the next (`O_SYNC`), the new one is whole in the first place or the old one in the
  second, whatever part of a copy a cut leaves.
- `PatchIsUndone`: `BsPatch(old, BsDiff(I, old, new)) = new` for every pair of files, every
  threshold, and every index `I` of the old file in suffix order. Nothing else is
  asked of the index. Without that order the outer loop of `bsdiff` may not end, and
  there is no patch to speak of.

`PatchIsUndone` goes in four steps. The search narrows to two neighbours between
which the new text belongs (`SearchNarrows`), so it finds a match whenever the next
unit occurs in the old file. The loop that looks for the next place where a match
is better than going on ends there or at the end of the file. The extensions of two
matches, forward and backward, are cut so that they meet (`GiveWay`). Then, over
the outer loop, `Trail` says that the entries written so far, read by `bspatch`, give
the new file up to `lastscan`.

Two ways replace induction over data. The loops are recursive functions over a
number of turns, and a lemma per kind of loop gets its invariant by the least
number at which it would fail (`LeastNumber`); what is true of every prefix of a
sequence is stated of numbers, never of the sequence.

The invariants were checked by TLC, with the constants of the runs, before they
were proved.

Left to TLC:

- liveness: `NoEndlessRecovery`, `ComesUp`, `EveryProgramEnds`, `RestartFinishes`,
  `KeysAreHeard`;
- `PatchRestoresTarget` as a whole: of it `PatchIsUndone` is proved, not the suffix sort
  itself and not the chunks of images and zip files;
- `LayoutSound` as a whole: the parts about the table and the loader are proved, the
  places of the items of an image are not;
- `ScriptAsDocumented`, `InstallSucceeds`: a script is a tree, and its evaluation
  recurses over it.

Every other property of a passing run is the subject of a theorem, under the
hypotheses named above.

## 5. Not modelled, and why

- In `Recovery` the block of the BCB is erased in one step and programmed in another,
  and a failed write leaves the old message, ruins or the new one; the units of the
  block, bad blocks and the other pages are in `MtdPrograms`, on a partition of its
  own. The removal of the package by recovery is in `Recovery` only.
- The SD branch with `flashcp` on MTD and the parser of the configuration on the
  card; the mount table of `roots.c`; log rotation. They run tools or copy text.
- `do_rk_updateEngine`'s pipe: what the child reports on it goes to the screen.
- The lexer and the parser of edify: generated from grammars. A script is its
  tree.
- The contents of images: digests, RSA, deflate and bzip2 are arithmetic, and
  appear as equality of contents.
- `minui` and fonts: device I/O; `mtd_find_write_start` and the dumps of
  `dump_image`: not called.
- `safe_iop`: checked arithmetic, which `Zip.c` calls on the offsets of local
  headers; entries of `Archive` hold their data and have no offsets. Host tools,
  `utils.c` and the encrypted file system's settings: text and files without a
  later reader in this tree.
- The build without a screen (`noui.c`): its menu never selects anything, so after
  a failure the device waits for its power to be cut.
- `--misc=display` and `--misc=wipe_userdata`: the first prints, the second writes a
  string for the boot loader which nothing in this tree reads.

## 6. Plan

Done: the modules of section 2. What would add most next, in this order:

1. `Roots` (mount table, `format_volume`) and the log (`tmplog_offset`, rotation).
2. The composition of `Recovery` with the retries and bad blocks of `MtdPrograms`:
   a message written to the block behind one that was given up.
3. Weaker hypotheses: `DamageReported` on eMMC for requests that were flushed, which
   `MCRecoveryBlock` checks; updates asked for by the command file.
4. The trees of `Script` and the suffix sort of `Patches`, with recursive functions
   instead of operators, so that theorems about them can be stated: `PatchIsUndone`
   then needs no index as a hypothesis.
