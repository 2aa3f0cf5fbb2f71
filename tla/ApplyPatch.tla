----------------------------- MODULE ApplyPatch -----------------------------
(* A script that patches files one after the other with applypatch: the    *)
(* copy in CACHE_TEMP_SOURCE, the space on /cache and on the target's      *)
(* volume, restarts, and what a power cut leaves of volumes that write     *)
(* back late.                                                              *)
EXTENDS Integers, Sequences, FiniteSets, FiniteSetsExt

CONSTANTS Script,     \* the files, in the order of the script
          Kinds,      \* what a file may be
          SrcSize, TgtSize, \* of each file
          SysSizes, CacheSizes, \* of the two volumes
          Junk, Open, \* other files on /cache, and those that are open
          Hashes,     \* whether the checks of the script name the hashes
          Faults, WriteBacks, MaxMishaps

KindNames == {"file", "rename", "partition", "move"}
FaultKinds == {"save", "open", "apply", "patch", "chmod", "part"}
Files == {Script[i] : i \in 1 .. Len(Script)}

\* No file is patched twice by one script.
ASSUME ScriptAssumption ==
    /\ Script \in Seq(Files) /\ Len(Script) > 0 /\ "none" \notin Files
    /\ \A i, j \in 1 .. Len(Script) : Script[i] = Script[j] => i = j
ASSUME SizesAssumption == SrcSize \in [Files -> Nat \ {0}] /\ TgtSize \in [Files -> Nat]
ASSUME WriteBacksAssumption == WriteBacks \subseteq BOOLEAN
ASSUME HashesAssumption == Hashes \subseteq BOOLEAN
ASSUME KindsAssumption == Kinds \subseteq [Files -> KindNames]
ASSUME BoundsAssumption == Faults \subseteq FaultKinds /\ MaxMishaps \in Nat
ASSUME OpenAssumption == Open \subseteq Junk /\ IsFiniteSet(Junk)

VARIABLES kind,    \* what each file is, for good
          dev,     \* the sizes of the volumes, whether they write back late, and
                   \*   whether apply_patch_check is given the hashes of a file
          sys,     \* what the target's volume and the partitions hold
          cache,   \* what /cache holds
          sysC, cacheC, \* what of that has reached the medium
          pc, k,   \* where the script is, and at which file
          retry, use, made, \* local variables of applypatch
          checked, \* the checks of this run of the script have passed
          result,  \* what became of the last run
          spoiled, \* a copy was overwritten by a file that could not be read (a ghost)
          mishaps

disks == <<sys, cache, sysC, cacheC>>
locals == <<retry, use, made>>
vars == <<kind, dev, disks, pc, k, locals, checked, result, spoiled, mishaps>>
rest == <<kind, dev, checked, spoiled>>

f == Script[k]
\* On a partition: the target is written over, in place or not.
IsPartition(g) == kind[g] \in {"partition", "move"}
InPlace(g) == kind[g] \in {"file", "partition"}

NoCopy == [file |-> "none", len |-> 0]
Copy(g) == [file |-> g, len |-> SrcSize[g]]

\* A program that patches whatever it finds.
IsNeverTarget(g) == FALSE

\* The target has the hash it should have.
IsTarget(g) == sys.at[g] = "tgt"

\* A program that does not look at the copy.
IsNeverCopied(g) == FALSE

\* The copy has the hash of the source.
IsCopied(g) == cache.temp = Copy(g)

\* The source of g: the target's place, or another one.
HasSource(s, g) == IF InPlace(g) THEN s.at[g] = "src" ELSE s.from[g]

Size(g, c) == CASE c = "src" -> SrcSize[g] [] c = "tgt" -> TgtSize[g] [] OTHER -> 0
Held(g) == Size(g, sys.at[g]) + Max({sys.out[g], 0})
             + (IF ~InPlace(g) /\ sys.from[g] THEN SrcSize[g] ELSE 0)

\* FreeSpaceForFile, on the two volumes.
SysFree == dev.sys - MapThenSumSet(Held, {g \in Files : ~IsPartition(g)})
CacheFree == dev.cache - cache.temp.len - Cardinality(cache.junk)

Largest == Max({SrcSize[g] : g \in Files})

Init ==
    /\ kind \in Kinds
    /\ dev \in [sys : SysSizes, cache : CacheSizes, late : WriteBacks, hashes : Hashes]
    /\ sys = [at   |-> [g \in Files |-> IF InPlace(g) THEN "src" ELSE "none"],
              from |-> [g \in Files |-> ~InPlace(g)],
              out  |-> [g \in Files |-> -1]]
    /\ cache = [temp |-> NoCopy, junk |-> Junk]
    /\ sysC = sys /\ cacheC = cache
    /\ pc = "off" /\ k = 1 /\ retry = 0 /\ use = "none" /\ made = FALSE
    /\ checked = FALSE /\ result = "none" /\ spoiled = FALSE /\ mishaps = 0
-----------------------------------------------------------------------------
Goto(l) == pc' = l
\* A function of the script fails, and the script with it.
Stop(why) == pc' = "off" /\ result' = why

Mishap == mishaps < MaxMishaps /\ mishaps' = mishaps + 1
Fails(op) == op \in Faults /\ Mishap

\* A write, and a write with fsync, which commits the volume it is on.
ToSys(s) == sys' = s /\ sysC' = IF dev.late THEN sysC ELSE s
ToCache(c) == cache' = c /\ cacheC' = IF dev.late THEN cacheC ELSE c
Committed(s) ==
    [s EXCEPT !.at = [g \in Files |-> IF IsPartition(g) THEN sysC.at[g] ELSE s.at[g]]]
SyncSys(s) == sys' = s /\ sysC' = IF dev.late THEN Committed(s) ELSE s

\* A copy that is not flushed.
NotSynced == UNCHANGED disks

SyncCache == cacheC' = cache /\ UNCHANGED <<cache, sys, sysC>>

\* MakeFreeSpaceOnCache deletes files that nobody has open, in the order of the
\* directory, until there is room; never CACHE_TEMP_SOURCE.
Deleted(need) ==
    {d \in SUBSET (cache.junk \ Open) :
        /\ CacheFree + Cardinality(d) >= need
        /\ d = {} \/ CacheFree + Cardinality(d) - 1 < need}

\* A clean-up that takes CACHE_TEMP_SOURCE for expendable.
MakeRoomOfAll(need, l) ==
    /\ ToCache([temp |-> NoCopy, junk |-> cache.junk \cap Open]) /\ Goto(l)
    /\ UNCHANGED <<result, sys, sysC>>

MakeRoom(need, l) ==
    /\ \/ \E d \in Deleted(need) :
             ToCache([cache EXCEPT !.junk = @ \ d]) /\ Goto(l) /\ UNCHANGED result
       \/ /\ Deleted(need) = {}
          /\ ToCache([cache EXCEPT !.junk = @ \cap Open]) /\ Stop("cache full")
    /\ UNCHANGED <<sys, sysC>>
-----------------------------------------------------------------------------
(* The script: apply_patch_check on every file, apply_patch_space for the  *)
(* largest, then apply_patch on every file.                                *)

Start ==
    /\ pc = "off"
    /\ Goto("check") /\ k' = 1 /\ checked' = FALSE /\ result' = "none"
    /\ UNCHANGED <<kind, dev, disks, locals, spoiled, mishaps>>

\* The command in the BCB starts the script, again after a cut.  A run that
\* failed is forgotten; the user may ask for another one.
Begin    == result = "none" /\ Start
AskAgain == result \notin {"none", "done"} /\ Start

\* applypatch_check: the file, or else the copy when its hashes are given; a
\* script checks the files it patches in place.
Check ==
    /\ pc = "check"
    /\ IF ~InPlace(f) \/ sys.at[f] \in {"src", "tgt"} \/ (dev.hashes /\ IsCopied(f))
       THEN /\ UNCHANGED result
            /\ IF k < Len(Script)
               THEN k' = k + 1 /\ UNCHANGED <<pc, checked>>
               ELSE k' = 1 /\ Goto("space") /\ checked' = TRUE
       ELSE Stop("no source") /\ UNCHANGED <<k, checked>>
    /\ UNCHANGED <<kind, dev, disks, locals, spoiled, mishaps>>

Space ==
    /\ pc = "space"
    /\ MakeRoom(Largest, "load")
    /\ UNCHANGED <<rest, k, locals, mishaps>>

NextFile ==
    IF k < Len(Script) THEN k' = k + 1 /\ Goto("load") /\ UNCHANGED result
                       ELSE Stop("done") /\ UNCHANGED k
-----------------------------------------------------------------------------
(* applypatch *)

\* The target may be there already; otherwise the source, or else the copy.
Load ==
    /\ pc = "load"
    /\ IF IsTarget(f) THEN NextFile /\ UNCHANGED locals
       ELSE IF HasSource(sys, f) \/ IsCopied(f)
       THEN /\ use' = IF HasSource(sys, f) THEN "source" ELSE "copy"
            /\ retry' = 1 /\ made' = FALSE
            /\ Goto("room") /\ UNCHANGED <<k, result>>
       ELSE Stop("no source") /\ UNCHANGED <<k, locals>>
    /\ UNCHANGED <<rest, disks, mishaps>>

\* More than the two-block minimum, and half as much again as the target.
Enough == SysFree > 1 /\ SysFree > (TgtSize[f] * 3) \div 2

\* The head of the loop: whether the source is moved to /cache first.  What is
\* written to a partition is always backed up.
Room ==
    /\ pc = "room"
    /\ \/ /\ ~IsPartition(f) /\ retry > 0 /\ Enough
          /\ Goto("open") /\ UNCHANGED <<disks, retry, result>>
       \/ /\ ~IsPartition(f) /\ ~(retry > 0 /\ Enough) /\ use = "copy"
          /\ retry' = 0 /\ Goto("open") /\ UNCHANGED <<disks, result>>
       \/ /\ IsPartition(f) \/ (~(retry > 0 /\ Enough) /\ use = "source")
          /\ retry' = 0 /\ MakeRoom(SrcSize[f], "save")
    /\ UNCHANGED <<rest, k, use, made, mishaps>>

\* SaveFileContents opens CACHE_TEMP_SOURCE with O_TRUNC.
Truncate ==
    /\ pc = "save"
    /\ ToCache([cache EXCEPT !.temp = [file |-> f, len |-> 0]])
    /\ spoiled' = (spoiled \/ use = "copy")
    /\ Goto("saving")
    /\ UNCHANGED <<kind, dev, sys, sysC, k, locals, checked, result, mishaps>>

\* The source is written to the copy unit by unit.  source_file holds nothing
\* when the copy is what will be patched.
Save ==
    /\ pc = "saving"
    /\ \/ /\ use = "source" /\ cache.temp.len < SrcSize[f]
          /\ ToCache([cache EXCEPT !.temp.len = @ + 1])
          /\ UNCHANGED <<pc, made, result, sys, sysC, mishaps>>
       \/ /\ use = "source" /\ cache.temp.len = SrcSize[f]
          /\ SyncCache
          /\ made' = TRUE
          /\ Goto(IF IsPartition(f) THEN "open" ELSE "unlink")
          /\ UNCHANGED <<result, mishaps>>
       \/ /\ IF use = "copy" THEN UNCHANGED mishaps ELSE Fails("save")
          /\ Stop("no backup")
          /\ UNCHANGED <<disks, made>>
    /\ UNCHANGED <<rest, k, retry, use>>

\* A source that is somewhere else than the target goes as well.
UnlinkSource ==
    /\ pc = "unlink"
    /\ ToSys(IF InPlace(f) THEN [sys EXCEPT !.at[f] = "none"]
                           ELSE [sys EXCEPT !.from[f] = FALSE])
    /\ Goto("open")
    /\ UNCHANGED <<rest, cache, cacheC, k, locals, result, mishaps>>

\* <target>.patch, or a buffer.
OpenOutput ==
    /\ pc = "open"
    /\ \/ /\ ToSys(IF IsPartition(f) THEN sys ELSE [sys EXCEPT !.out[f] = 0])
          /\ Goto("apply") /\ UNCHANGED <<result, mishaps>>
       \/ Fails("open") /\ Stop("no output") /\ UNCHANGED <<sys, sysC>>
    /\ UNCHANGED <<rest, cache, cacheC, k, locals>>

\* The sink of the patch, and the fsync behind it.
Apply ==
    /\ pc = "apply"
    /\ \/ IsPartition(f) /\ Goto("verify") /\ UNCHANGED <<sys, sysC>>
       \/ /\ ~IsPartition(f) /\ sys.out[f] < TgtSize[f] /\ SysFree > 0
          /\ ToSys([sys EXCEPT !.out[f] = @ + 1])
          /\ UNCHANGED pc
       \/ /\ ~IsPartition(f) /\ sys.out[f] = TgtSize[f]
          /\ SyncSys(sys)
          /\ Goto("verify")
    /\ UNCHANGED <<rest, cache, cacheC, k, locals, result, mishaps>>

\* The patch or its output fails: once more, now with the source on /cache.
ApplyFails ==
    /\ pc = "apply"
    /\ \E why \in {"no room", "apply"} :
        /\ \/ /\ why = "no room" /\ UNCHANGED mishaps
              /\ ~IsPartition(f) /\ sys.out[f] < TgtSize[f] /\ SysFree <= 0
           \/ why = "apply" /\ Fails("apply")
        /\ IF retry = 0
           THEN SyncSys(sys) /\ Stop(why) /\ UNCHANGED retry
           ELSE /\ ToSys([sys EXCEPT !.out[f] = -1])
                /\ retry' = 0 /\ Goto("room") /\ UNCHANGED result
    /\ UNCHANGED <<rest, cache, cacheC, k, use, made>>

Verify ==
    /\ pc = "verify"
    /\ \/ Goto("install") /\ UNCHANGED <<result, mishaps>>
       \/ Fails("patch") /\ Stop("hash")
    /\ UNCHANGED <<rest, disks, k, locals>>

\* The output takes the place of the target: at once, or block by block.
Rename ==
    /\ pc = "install" /\ ~IsPartition(f)
    /\ \/ /\ ToSys([sys EXCEPT !.at[f] = "tgt", !.out[f] = -1])
          /\ Goto("drop") /\ UNCHANGED <<result, mishaps>>
       \/ Fails("chmod") /\ Stop("install") /\ UNCHANGED <<sys, sysC>>
    /\ UNCHANGED <<rest, cache, cacheC, k, locals>>

WritePartition ==
    /\ pc = "install" /\ IsPartition(f)
    /\ ToSys([sys EXCEPT !.at[f] = "torn"])
    /\ Goto("installing")
    /\ UNCHANGED <<rest, cache, cacheC, k, locals, result, mishaps>>

WritePartitionEnd ==
    /\ pc = "installing"
    /\ \/ /\ ToSys([sys EXCEPT !.at[f] = "tgt"])
          /\ Goto("drop") /\ UNCHANGED <<result, mishaps>>
       \/ Fails("part") /\ Stop("install") /\ UNCHANGED <<sys, sysC>>
    /\ UNCHANGED <<rest, cache, cacheC, k, locals>>

\* The copy goes when this call made it.
Drop ==
    /\ pc = "drop"
    /\ IF made THEN ToCache([cache EXCEPT !.temp = NoCopy]) ELSE UNCHANGED <<cache, cacheC>>
    /\ NextFile
    /\ UNCHANGED <<rest, sys, sysC, locals, mishaps>>
-----------------------------------------------------------------------------
\* What is behind the page cache reaches a medium: a volume, or a partition.
WriteBack ==
    /\ dev.late
    /\ \/ sysC' = Committed(sys) /\ UNCHANGED cacheC
       \/ /\ \E g \in Files : IsPartition(g) /\ sysC' = [sysC EXCEPT !.at[g] = sys.at[g]]
          /\ UNCHANGED cacheC
       \/ cacheC' = cache /\ UNCHANGED sysC
    /\ UNCHANGED <<kind, dev, sys, cache, pc, k, locals, checked, result, spoiled, mishaps>>

\* Once the script has ended, the command may have left the BCB or not yet.
PowerCut ==
    /\ Mishap
    /\ sys' = sysC /\ cache' = cacheC
    /\ pc' = "off" /\ checked' = FALSE
    /\ result' \in {"none"} \cup (IF pc = "off" THEN {result} ELSE {})
    /\ UNCHANGED <<kind, dev, sysC, cacheC, k, locals, spoiled>>

Run == \/ Begin \/ Check \/ Space \/ Load \/ Room \/ Truncate \/ Save
       \/ UnlinkSource \/ OpenOutput \/ Apply \/ ApplyFails \/ Verify
       \/ Rename \/ WritePartition \/ WritePartitionEnd \/ Drop

Next == Run \/ AskAgain \/ WriteBack \/ PowerCut

\* A script that was asked for runs on, and again after a cut (recovery.c:98-101);
\* one that failed is not started again by itself (104-108).
Spec == Init /\ [][Next]_vars /\ WF_vars(Run)
-----------------------------------------------------------------------------
Disks ==
    [at : [Files -> {"src", "tgt", "none", "torn"}], from : [Files -> BOOLEAN],
     out : [Files -> Int]]
Caches == [temp : [file : Files \cup {"none"}, len : Int], junk : SUBSET Junk]

TypeOK ==
    /\ kind \in [Files -> KindNames] /\ dev.late \in BOOLEAN
    /\ sys \in Disks /\ sysC \in Disks
    /\ cache \in Caches /\ cacheC \in Caches
    /\ \A g \in Files : {sys.out[g], sysC.out[g]} \subseteq -1 .. TgtSize[g]
    /\ pc \in {"off", "check", "space", "load", "room", "save", "saving", "unlink",
               "open", "apply", "verify", "install", "installing", "drop"}
    /\ k \in 1 .. Len(Script)
    /\ retry \in 0 .. 1 /\ use \in {"none", "source", "copy"} /\ made \in BOOLEAN
    /\ checked \in BOOLEAN /\ spoiled \in BOOLEAN /\ mishaps \in 0 .. MaxMishaps

\* Late writes are taken back in their order as long as they are all on one
\* volume; a partition is a device of its own, and nothing flushes it.
Ordered == ~(dev.late /\ \E g \in Files : IsPartition(g))

\* "Safe (the original file is not touched until we have the desired
\* replacement for it)" (applypatch.c:566): at every moment the medium holds,
\* of every file, the source, a complete copy, the output or the target,
\* whatever is cut or fails and however late /cache and the target's volume are
\* written back.  It does not hold of a partition patched in place once a
\* restart has truncated the copy, nor when a partition is written back late:
\* the copy of one file is then overwritten by that of another.
NothingLost ==
    Ordered => \A g \in Files :
        \/ sysC.at[g] = "tgt" \/ HasSource(sysC, g)
        \/ cacheC.temp = Copy(g) \/ sysC.out[g] = TgtSize[g]
        \/ kind[g] = "partition" /\ spoiled

\* What applypatch_check accepts (applypatch.c:471-507) applypatch can patch:
\* the copy that stood in for a file is still there when its turn comes.
CheckedIsPatched ==
    Ordered /\ checked /\ result = "no source" => spoiled \/ ~InPlace(f)

\* "It's okay to run this program multiple times" (applypatch.c:567): no run
\* touches a target that a run before it has put on the medium.
Idempotent == [][\A g \in Files : sysC.at[g] = "tgt" => sysC'.at[g] = "tgt"]_vars

\* A step that failed by itself, whatever was in place.
Broken == {"no backup", "no output", "apply", "hash", "install"}

\* The copy makes applypatch restartable (applypatch.c:485-489): a script that
\* was asked for ends with every file patched, over any cuts and after any
\* earlier failures, or a step of it fails; it is never stopped for want of a
\* source or of room.  Provided the checks name the hashes, /cache has room for
\* a copy besides the one a restart depends on, and writes reach the medium in
\* their order.
Roomy == dev.hashes /\ ~dev.late /\ dev.cache >= Cardinality(Open) + 2 * Largest
RestartFinishes ==
    Roomy /\ result = "none"
        ~> spoiled \/ result \in Broken \/ \A g \in Files : sysC.at[g] = "tgt"
=============================================================================
