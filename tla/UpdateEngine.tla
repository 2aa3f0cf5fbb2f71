---------------------------- MODULE UpdateEngine ----------------------------
(***************************************************************************)
(* The program updateEngine on a block device: writing an image to the     *)
(* partitions (update.cpp), its command line and MiscUpdate (main.cpp),    *)
(* and the slots of an A/B device (Slots).  It runs next to the start      *)
(* script's `updateEngine --misc=now`, over power cuts, failing operations *)
(* and slots that do not boot.  On a device without slots the same program *)
(* is the child that recovery starts (rkupdate.c).                         *)
(*                                                                         *)
(* ab, bcb are the fields of misc on the medium, abC, bcbC as the kernel   *)
(* sees them; partitions are flushed while they are written.               *)
(***************************************************************************)
EXTENDS Slots, Sequences, SequencesExt

CONSTANTS
    Devices,     \* subset of BOOLEAN: whether the device has A/B slots
    Builds,      \* the macros of Slots that a build may define
    Requests,    \* command lines of updateEngine
    Faults,      \* the operations that may fail
    BadReleases, \* versions that are written correctly and do not boot
    Concurrent,  \* updateEngine may be started before --misc=now has ended
    MaxRuns,     \* bound: command lines given
    MaxCuts      \* bound: power cuts, and failures to update the A/B data

\* update_cmd: the partitions in the order of the bits 0x8000, 0x4000, ...
Table == <<"bootloader", "parameter", "uboot", "trust", "boot", "recovery",
           "rootfs", "oem", "misc">>
Names == ToSet(Table)
IsAB  == {"boot", "rootfs"}

FaultKinds == {"download", "image", "write", "check", "slot_read", "slot_write"}

\* save: the argument of --savepath, "default" for DEFAULT_DOWNLOAD_PATH.
RequestType ==
    [mode : {"update", "misc", "other"}, mask : SUBSET Names, items : SUBSET Names,
     url : {"null", "http", "path", "other"}, save : {"null", "default", "path"},
     checked : BOOLEAN, reboot : BOOLEAN]

ASSUME DevicesAssumption  == Devices \subseteq BOOLEAN
ASSUME BuildsAssumption   == Builds \subseteq SUBSET Macros
ASSUME RequestsAssumption == Requests \subseteq RequestType
ASSUME FaultsAssumption   == Faults \subseteq FaultKinds
ASSUME BoundsAssumption   == MaxRuns \in Nat /\ MaxCuts \in Nat
ASSUME ConcurrentAssumption == Concurrent \in BOOLEAN
ASSUME ReleasesAssumption == BadReleases \subseteq 1..MaxRuns

VARIABLES
    slotted,   \* the device has A/B slots
    macros,    \* what the build defines
    device,    \* "boot", "main" or "recovery"
    running,   \* the slot in the kernel's command line
    part,      \* the version in each partition, or Torn
    ab, abC, bcb, bcbC,
    files,     \* the package files on /userdata
    pc, req,   \* updateEngine, and its command line
    src,       \* _url
    todo,      \* the partitions whose need_update is set
    status,    \* m_status
    buf,       \* the A/B data read by setSlotActivity
    nowPc, nowBuf,  \* updateEngine --misc=now
    runs, cuts,
    awaited    \* ghost: the slot that setSlotActivity prepared in this boot

kind     == <<slotted, macros>>
misc     == <<ab, abC, bcb, bcbC>>
engine   == <<pc, req, src, todo, status, buf>>
now      == <<nowPc, nowBuf>>
bounds   == <<runs, cuts>>
vars == <<kind, device, running, part, misc, files, engine, now, bounds, awaited>>

-----------------------------------------------------------------------------
Torn == MaxRuns + 1
Single == 2        \* partitions that are not doubled

\* A failure to read or write the A/B data: as many as there are power cuts.
SlotFails(f) == f \in Faults /\ cuts < MaxCuts /\ cuts' = cuts + 1
Where == Slot \cup {Single}
Places == (Names \X {Single}) \cup (IsAB \X Slot)

ZeroBcb == [armed |-> FALSE, need |-> {}, url |-> "null"]
NoRequest == [mode |-> "update", mask |-> {}, items |-> {}, url |-> "null",
              save |-> "null", checked |-> FALSE, reboot |-> FALSE]

\* An RK_ota_set_partition that writes to the slot that runs.
RunningDest(n) == IF slotted /\ n \in IsAB THEN running ELSE Single

\* dest_path of RK_ota_set_partition: an A/B partition of the other slot.
Dest(n) == IF slotted /\ n \in IsAB THEN 1 - running ELSE Single

\* Both A/B partitions are whole and of one version, and that version boots.
Good(s) == /\ part[<<"boot", s>>] = part[<<"rootfs", s>>]
           /\ part[<<"boot", s>>] \notin {Torn} \cup BadReleases

\* The first of the table whose need_update is set.
IsNext(n) == n \in todo /\ \A i, j \in DOMAIN Table :
                              Table[i] = n /\ Table[j] \in todo => i <= j

\* Not checked after it was written.
Unchecked == {"parameter", "bootloader"}

\* The file that download_file fills.
SaveTo == IF req.save = "null" THEN "default" ELSE req.save

Init ==
    /\ slotted \in Devices /\ macros \in Builds
    /\ device = "boot" /\ running = 0
    /\ part = [p \in Places |-> 0]
    /\ ab = FactoryAB /\ abC = FactoryAB /\ bcb = ZeroBcb /\ bcbC = ZeroBcb
    /\ files \in {{}, {"path", "other"}}
    /\ pc = "idle" /\ req = NoRequest /\ src = "null" /\ todo = {}
    /\ status = "error" /\ buf = FactoryAB
    /\ nowPc = "idle" /\ nowBuf = FactoryAB
    /\ runs = 0 /\ cuts = 0 /\ awaited = Single

-----------------------------------------------------------------------------
(* The boot (external), and the start script's updateEngine --misc=now.    *)

\* With no slot to choose the device stays where it is.
BootSlot(s) ==
    /\ device = "boot" /\ slotted /\ IsChosen(abC, s)
    /\ abC' = Tried(abC, s) /\ ab' = abC'
    /\ running' = s /\ awaited' = Single
    /\ IF Good(s) THEN device' = "main" /\ nowPc' = "read"
                  ELSE device' = "boot" /\ UNCHANGED nowPc
    /\ UNCHANGED <<kind, part, bcb, bcbC, files, engine, nowBuf, bounds>>

\* Without slots the BCB chooses between the main system and recovery.
BootSingle ==
    /\ device = "boot" /\ ~slotted
    /\ device' = IF bcbC.armed THEN "recovery" ELSE "main"
    /\ UNCHANGED <<kind, running, part, misc, files, engine, now, bounds, awaited>>

\* setSlotSucceed reads the A/B data, and writes all of it back.
NowRead ==
    /\ nowPc = "read"
    /\ \/ nowPc' = "write" /\ nowBuf' = abC /\ UNCHANGED cuts
       \/ SlotFails("slot_read") /\ nowPc' = "idle" /\ UNCHANGED nowBuf
    /\ UNCHANGED <<kind, device, running, part, misc, files, engine, runs, awaited>>

NowWrite ==
    /\ nowPc = "write" /\ nowPc' = "idle"
    /\ \/ abC' = Succeeded(nowBuf, running, macros) /\ UNCHANGED cuts
       \/ SlotFails("slot_write") /\ UNCHANGED abC
    /\ UNCHANGED <<kind, device, running, part, ab, bcb, bcbC, files, engine,
                   nowBuf, runs, awaited>>

-----------------------------------------------------------------------------
(* main() and MiscUpdate.                                                  *)

Exit(result) == pc' = "exit" /\ status' = result

\* --update: the version check comes after the partitions were chosen, and
\* ends the program.  --misc=update: the recovery partition is written first.
Begin(r) ==
    /\ req' = r /\ src' = r.url
    /\ CASE r.mode = "other" -> pc' = "slot_read" /\ todo' = {} /\ status' = "error"
         [] r.mode = "update" ->
              /\ todo' = r.mask
              /\ \/ pc' = "download" /\ status' = "error"
                 \/ r.checked /\ Exit("error")
         [] r.mode = "misc" ->
              /\ todo' = r.mask \cap {"recovery"}
              /\ IF r.url = "null" THEN Exit("error")
                 ELSE /\ pc' = IF "recovery" \in r.mask THEN "download" ELSE "bcb"
                      /\ status' = "error"
    /\ UNCHANGED buf

Start(r) ==
    /\ device = "main" /\ pc = "idle" /\ (nowPc = "idle" \/ Concurrent)
    /\ runs < MaxRuns /\ runs' = runs + 1
    /\ slotted <=> r.mode # "misc"
    /\ Begin(r)
    /\ UNCHANGED <<kind, device, running, part, misc, files, now, cuts, awaited>>

\* The child of recovery: all it is told comes from the BCB.  Recovery knows
\* no volume for a remote package, and does not start the child.
StartChild(items) ==
    /\ device = "recovery" /\ pc = "idle"
    /\ IF bcbC.url = "http"
       THEN Exit("error") /\ UNCHANGED <<req, src, todo, buf>>
       ELSE Begin([NoRequest EXCEPT !.mask = bcbC.need, !.items = items,
                                    !.url = bcbC.url])
    /\ UNCHANGED <<kind, device, running, part, misc, files, now, bounds, awaited>>

\* A MiscUpdate that leaves all of the mask to recovery.
AllInRecovery(mask) == mask

InRecovery(mask) == mask \ {"recovery"}

\* MiscUpdate without --savepath compares a null pointer: the program dies.
\* The result of set_bootloader_message is not looked at.
MiscBcb ==
    /\ pc = "bcb"
    /\ IF req.save = "null"
       THEN Exit("error") /\ UNCHANGED bcbC
       ELSE /\ Exit("finished")
            /\ \/ bcbC' = [armed |-> TRUE, need |-> InRecovery(req.mask),
                           url |-> IF req.save = "default" THEN req.url ELSE req.save]
               \/ "slot_write" \in Faults /\ UNCHANGED bcbC
    /\ UNCHANGED <<kind, device, running, part, ab, abC, bcb, files, req, src,
                   todo, buf, now, bounds, awaited>>

\* With --reboot a program that finished ends with sync() and reboot().
\* Recovery erases the BCB and reboots, after a failure when the user says so.
End ==
    /\ pc = "exit" /\ pc' = "idle"
    /\ IF device = "recovery" \/ (req.reboot /\ status = "finished")
       THEN /\ device' = "boot" /\ nowPc' = "idle"
            /\ bcbC' = IF device = "recovery" THEN ZeroBcb ELSE bcbC
            /\ ab' = abC /\ bcb' = bcbC'
       ELSE UNCHANGED <<device, nowPc, ab, bcb, bcbC>>
    /\ UNCHANGED <<kind, running, part, abC, files, req, src, todo, status, buf,
                   nowBuf, bounds, awaited>>

-----------------------------------------------------------------------------
(* RK_ota_start.                                                           *)

\* An error path that forgets to report.
FailedSilently == Exit("finished")

\* MiscUpdate gives up when the recovery partition could not be written.
Failed == Exit("error")

\* The file is truncated first: a transfer that fails leaves no package in it.
Download ==
    /\ pc = "download"
    /\ IF req.url = "http"
       THEN \/ /\ files' = files \cup {SaveTo} /\ src' = SaveTo
               /\ pc' = "image" /\ UNCHANGED status
            \/ /\ "download" \in Faults /\ Failed
               /\ files' = files \ {SaveTo} /\ UNCHANGED src
       ELSE /\ IF req.url = "null" THEN Failed ELSE pc' = "image" /\ UNCHANGED status
            /\ UNCHANGED <<files, src>>
    /\ UNCHANGED <<kind, device, running, part, misc, req, todo, buf, now, bounds,
                   awaited>>

\* RK_ota_set_partition(-1): the partitions that the image has no item for
\* are dropped without a word.
Analyse ==
    /\ pc = "image"
    /\ \/ src \in files /\ pc' = "items" /\ todo' = todo \cap req.items /\ UNCHANGED status
       \/ (src \notin files \/ "image" \in Faults) /\ Failed /\ UNCHANGED todo
    /\ UNCHANGED <<kind, device, running, part, misc, files, req, src, buf, now,
                   bounds, awaited>>

\* misc is only written from an SD card.
Skip ==
    /\ pc = "items" /\ IsNext("misc")
    /\ todo' = todo \ {"misc"}
    /\ UNCHANGED <<kind, device, running, part, misc, files, pc, req, src, status,
                   buf, now, bounds, awaited>>

WriteBegin(n) ==
    /\ pc = "items" /\ IsNext(n) /\ n # "misc"
    /\ \/ pc' = "writing" /\ part' = [part EXCEPT ![<<n, Dest(n)>>] = Torn] /\ UNCHANGED status
       \/ "write" \in Faults /\ Failed /\ UNCHANGED part
    /\ UNCHANGED <<kind, device, running, misc, files, req, src, todo, buf,
                   now, bounds, awaited>>

\* The image of this run has the number of the run as its version.
WriteEnd(n) ==
    /\ pc = "writing" /\ IsNext(n)
    /\ \/ /\ part' = [part EXCEPT ![<<n, Dest(n)>>] = runs]
          /\ pc' = IF n \in Unchecked THEN "items" ELSE "check"
          /\ todo' = IF n \in Unchecked THEN todo \ {n} ELSE todo
          /\ UNCHANGED status
       \/ "write" \in Faults /\ Failed /\ UNCHANGED <<part, todo>>
    /\ UNCHANGED <<kind, device, running, misc, files, req, src, buf, now, bounds,
                   awaited>>

Check(n) ==
    /\ pc = "check" /\ IsNext(n)
    /\ \/ pc' = "items" /\ todo' = todo \ {n} /\ UNCHANGED <<status, part>>
       \/ /\ "check" \in Faults /\ Failed
          /\ part' = [part EXCEPT ![<<n, Dest(n)>>] = Torn] /\ UNCHANGED todo
    /\ UNCHANGED <<kind, device, running, misc, files, req, src, buf, now, bounds,
                   awaited>>

\* The callback of RK_UPGRADE_FINISHED calls setSlotActivity, which reads the
\* A/B data and writes all of it back; its result only counts for --misc=other.
AfterCallback(ok) ==
    IF req.mode = "misc" THEN pc' = "bcb" /\ UNCHANGED status
    ELSE Exit(IF ok \/ req.mode = "update" THEN "finished" ELSE "error")

Finish ==
    /\ pc = "items" /\ todo = {}
    /\ IF slotted THEN pc' = "slot_read" /\ UNCHANGED status ELSE AfterCallback(TRUE)
    /\ UNCHANGED <<kind, device, running, part, misc, files, req, src, todo, buf,
                   now, bounds, awaited>>

ActivityRead ==
    /\ pc = "slot_read"
    /\ \/ pc' = "slot_write" /\ buf' = abC /\ UNCHANGED <<status, cuts>>
       \/ SlotFails("slot_read") /\ AfterCallback(FALSE) /\ UNCHANGED buf
    /\ UNCHANGED <<kind, device, running, part, misc, files, req, src, todo, now,
                   runs, awaited>>

ActivityWrite ==
    /\ pc = "slot_write"
    /\ \/ /\ abC' = Activated(buf, running, macros) /\ AfterCallback(TRUE)
          /\ awaited' = 1 - running /\ UNCHANGED cuts
       \/ SlotFails("slot_write") /\ AfterCallback(FALSE) /\ UNCHANGED <<abC, awaited>>
    /\ UNCHANGED <<kind, device, running, part, ab, bcb, bcbC, files, req, src,
                   todo, buf, now, runs>>

-----------------------------------------------------------------------------
(* The environment.                                                        *)

WriteBack ==
    /\ ab # abC \/ bcb # bcbC
    /\ \/ ab' = abC /\ UNCHANGED bcb
       \/ bcb' = bcbC /\ UNCHANGED ab
    /\ UNCHANGED <<kind, device, running, part, abC, bcbC, files, engine, now,
                   bounds, awaited>>

\* The user reboots an idle device; sync() is part of a reboot.
UserReboot ==
    /\ device = "main" /\ pc = "idle" /\ nowPc = "idle"
    /\ device' = "boot" /\ ab' = abC /\ bcb' = bcbC
    /\ UNCHANGED <<kind, running, part, abC, bcbC, files, engine, now, bounds,
                   awaited>>

\* A download that is cut leaves its file as it was or truncated.
PowerCut ==
    /\ device \in {"main", "recovery"} /\ cuts < MaxCuts /\ cuts' = cuts + 1
    /\ device' = "boot" /\ pc' = "idle" /\ nowPc' = "idle" /\ awaited' = Single
    /\ abC' = ab /\ bcbC' = bcb
    /\ \/ UNCHANGED files
       \/ pc = "download" /\ req.url = "http" /\ files' = files \ {SaveTo}
    /\ UNCHANGED <<kind, running, part, ab, bcb, req, src, todo, status, buf,
                   nowBuf, runs>>

Boot == (\E s \in Slot : BootSlot(s)) \/ BootSingle

Program ==
    \/ NowRead \/ NowWrite
    \/ Download \/ Analyse \/ Skip \/ Finish \/ ActivityRead \/ ActivityWrite
    \/ \E n \in Names : WriteBegin(n) \/ WriteEnd(n) \/ Check(n)
    \/ MiscBcb \/ End

Next ==
    \/ Boot \/ Program
    \/ \E r \in Requests : Start(r) \/ StartChild(r.items)
    \/ WriteBack \/ UserReboot \/ PowerCut

Spec == Init /\ [][Next]_vars

\* The boot loader, the program and recovery go on while there is power; nobody
\* has to ask for anything.
FairSpec ==
    /\ Spec
    /\ WF_vars(Boot) /\ WF_vars(Program) /\ WF_vars(\E r \in Requests : StartChild(r.items))

-----------------------------------------------------------------------------
(* Properties.                                                             *)

BcbType == [armed : BOOLEAN, need : SUBSET Names,
            url : {"null", "http", "path", "other"}]
Pcs == {"idle", "download", "image", "items", "writing", "check", "slot_read",
        "slot_write", "bcb", "exit"}

\* Every variable stays within the values the program can give it.
TypeOK ==
    /\ slotted \in BOOLEAN /\ macros \subseteq Macros
    /\ device \in {"boot", "main", "recovery"}
    /\ running \in Slot /\ part \in [Places -> 0..Torn]
    /\ ab \in AvbABData /\ abC \in AvbABData /\ bcb \in BcbType /\ bcbC \in BcbType
    /\ files \subseteq {"path", "other", "default"}
    /\ pc \in Pcs /\ req \in RequestType /\ todo \subseteq Names
    /\ src \in {"null", "http", "path", "other", "default"}
    /\ status \in {"error", "finished"} /\ buf \in AvbABData
    /\ nowPc \in {"idle", "read", "write"} /\ nowBuf \in AvbABData
    /\ runs \in 0..MaxRuns /\ cuts \in 0..MaxCuts /\ awaited \in Where

\* An A/B device always keeps a slot that boots and that the boot loader comes
\* to: no slot that does not boot stays in front of it by a mark of success.
AlwaysComesBack ==
    slotted => \E s \in Slot :
        /\ Good(s) /\ Bootable(ab.slots[s])
        /\ \/ Good(1 - s) \/ ~ab.slots[1 - s].ok
           \/ ab.slots[1 - s].priority < ab.slots[s].priority

\* Whatever was cut short, whatever failed and whatever release does not boot,
\* the device comes up with the main system.
ComesUp == device = "boot" ~> device = "main"

\* The slot that setSlotActivity prepared is the next one to be booted, unless
\* the power was cut before it reached the medium.
ActivationTakesEffect ==
    [][awaited # Single /\ awaited' = Single /\ cuts' = cuts => running' = awaited]_vars

\* m_status is RK_UPGRADE_FINISHED only when every partition that was asked for
\* and is in the image has been written where the next boot reads it.
FinishedIsWritten ==
    pc = "exit" /\ status = "finished" /\ req.mode = "update" =>
        \A n \in (req.mask \cap req.items) \ {"misc"} : part[<<n, Dest(n)>>] = runs

\* While the BCB leads to recovery, nothing writes recovery's own partition: a
\* power cut would leave the device without a system to return to.  MiscUpdate
\* writes it first; it is used with --reboot.
RecoveryIsKept ==
    [][bcb.armed => part'[<<"recovery", Single>>] = part[<<"recovery", Single>>]]_vars
=============================================================================
