-------------------------- MODULE ApplyPatchProofs --------------------------
(* Proofs about ApplyPatch, for every script, all sizes and every fault.    *)
(* The argument: between the medium and what the kernel sees, and for       *)
(* either of /cache and the target's volume, a file is whole in all four    *)
(* combinations (Whole).  A copy may be overwritten because the files       *)
(* before it in the script are patched and those behind it still have       *)
(* their source (InOrder).                                                  *)
EXTENDS ApplyPatch, TLAPS

Indices == 1 .. Len(Script)

\* The places in applypatch where the target is not yet written over.
Working == {"room", "save", "saving", "unlink", "open", "apply", "verify", "install"}
Patching == Working \cup {"installing", "drop"}
Output == {"open", "apply", "verify", "install"}

Whole(s, c, g) ==
    \/ s.at[g] = "tgt" \/ HasSource(s, g)
    \/ c.temp = Copy(g) \/ s.out[g] = TgtSize[g]
    \/ kind[g] = "partition" /\ spoiled

Safe == \A g \in Files : /\ Whole(sys, cache, g) /\ Whole(sys, cacheC, g)
                         /\ Whole(sysC, cache, g) /\ Whole(sysC, cacheC, g)

\* What has reached the medium is what was there at some moment before.
Prompt == ~dev.late => sysC = sys /\ cacheC = cache
Older == \A g \in Files : /\ HasSource(sys, g) => HasSource(sysC, g)
                          /\ sysC.at[g] = "tgt" => sys.at[g] = "tgt"
                          /\ kind[g] = "move" => sys.from[g] /\ sysC.from[g]
\* The output and the copy are on the medium before what they replace goes.
OutputFirst == \A g \in Files : sys.at[g] = "tgt" =>
                   sysC.at[g] = "tgt" \/ sysC.out[g] = TgtSize[g]
CopyFirst == \A g \in Files : cache.temp = Copy(g) =>
                 cacheC.temp = Copy(g) \/ HasSource(sys, g) \/ sys.at[g] = "tgt"
\* No file loses its source before those in front of it are patched.
InOrder == \A i, j \in Indices : i < j =>
               /\ HasSource(sys, Script[j]) \/ sys.at[Script[i]] = "tgt"
               /\ HasSource(sysC, Script[j]) \/ sysC.at[Script[i]] = "tgt"

\* Where the script is: the files before this one are patched, and this one
\* has what the next step takes away.
Copied == cache.temp = Copy(f) /\ cacheC.temp = Copy(f)
Progress ==
    /\ pc \in {"load"} \cup Patching => \A i \in Indices : i < k => sys.at[Script[i]] = "tgt"
    /\ pc = "space" => k = 1
    /\ pc \in Working => sys.at[f] # "tgt" /\ use \in {"source", "copy"}
    /\ pc = "drop" => sys.at[f] = "tgt"
    /\ pc \in Patching /\ made => cache.temp.file = f
    /\ pc = "saving" => cache.temp.file = f
Ready ==
    /\ pc \in Working /\ use = "source"
       /\ (IsPartition(f) \/ retry = 1 \/ pc \in {"room", "save", "saving", "unlink"})
           => HasSource(sys, f)
    /\ pc \in {"room"} \cup Output => HasSource(sys, f) \/ Copied
    /\ pc \in {"save", "saving"} => IsPartition(f) \/ use = "source"
    /\ pc \in {"save", "saving", "unlink"} => retry = 0
    /\ pc = "unlink" => Copied /\ ~IsPartition(f)
    /\ pc \in Output /\ IsPartition(f) => Copied
    /\ pc = "installing" => Copied /\ IsPartition(f) /\ sys.at[f] = "torn"
    /\ pc \in {"verify", "install"} /\ ~IsPartition(f) =>
          sys.out[f] = TgtSize[f] /\ sysC.out[f] = TgtSize[f]

\* What the checks have found is still there for the files to come.
Accepted(g) == InPlace(g) => sys.at[g] \in {"src", "tgt"} \/ cache.temp = Copy(g)
Checks ==
    /\ pc = "check" => ~checked /\ \A i \in Indices : i < k => Accepted(Script[i])
    /\ pc \in {"space", "load"} /\ checked /\ ~spoiled =>
          \A i \in Indices : k <= i => Accepted(Script[i])
    /\ pc \in Patching /\ checked /\ ~spoiled =>
          \A i \in Indices : k < i => Accepted(Script[i])
    /\ pc # "off" => result = "none"

KeptInv == Safe /\ Prompt /\ Older /\ OutputFirst /\ CopyFirst /\ InOrder /\ Progress /\ Ready
IInv == TypeOK /\ (Ordered => KeptInv /\ Checks /\ CheckedIsPatched)
-----------------------------------------------------------------------------
(* The constants.                                                          *)

LEMMA Current == ASSUME TypeOK PROVE f \in Files /\ k \in Indices /\ k <= k
BY DEF TypeOK, f, Files, Indices

LEMMA EveryFile == \A g \in Files : \E i \in Indices : g = Script[i]
BY DEF Files, Indices

LEMMA NoFileTwice ==
    \A i, j \in Indices : Script[i] \in Files /\ (Script[i] = Script[j] => i = j)
BY ScriptAssumption DEF Files, Indices

LEMMA Sizes == \A g \in Files : SrcSize[g] \in Nat \ {0} /\ TgtSize[g] \in Nat
BY SizesAssumption

\* A copy is the copy of one file, and a copy that was begun is none.
LEMMA Copies ==
    \A g, h \in Files : /\ Copy(g) = Copy(h) => g = h
                        /\ Copy(g) # NoCopy /\ Copy(g) # [file |-> h, len |-> 0]
                        /\ Copy(g).file = g
BY Sizes, ScriptAssumption DEF Copy, NoCopy
-----------------------------------------------------------------------------
(* Types.                                                                  *)

Typed(s) == s \in Disks /\ \A g \in Files : s.out[g] \in -1 .. TgtSize[g]

LEMMA SysTypes ==
    ASSUME TypeOK, NEW s, Typed(s), ToSys(s) \/ SyncSys(s)
    PROVE  Typed(sys') /\ Typed(sysC')
<1>1. Typed(sysC) BY DEF TypeOK, Typed
<1>2. Typed(Committed(s)) BY <1>1 DEF Typed, Committed, Disks
<1> QED BY <1>1, <1>2 DEF ToSys, SyncSys

LEMMA Remaining ==
    ASSUME TypeOK, UNCHANGED <<sys, sysC>>
    PROVE  Typed(sys') /\ Typed(sysC')
BY DEF TypeOK, Typed

LEMMA CacheTypes ==
    ASSUME TypeOK, NEW c \in Caches, ToCache(c)
    PROVE  cache' \in Caches /\ cacheC' \in Caches
BY DEF TypeOK, ToCache

LEMMA MakeRoomTypes ==
    ASSUME TypeOK, NEW need, NEW l, MakeRoom(need, l)
    PROVE  cache' \in Caches /\ cacheC' \in Caches
<1>1. \A d : [cache EXCEPT !.junk = @ \ d] \in Caches
  BY DEF TypeOK, Caches
<1>2. [cache EXCEPT !.junk = @ \cap Open] \in Caches BY DEF TypeOK, Caches
<1> QED BY <1>1, <1>2, CacheTypes DEF MakeRoom

\* The variables of TypeOK besides the disks.
Places == {"off", "check", "space", "load", "room", "save", "saving", "unlink",
           "open", "apply", "verify", "install", "installing", "drop"}
TypedLocals ==
    /\ kind \in [Files -> KindNames] /\ dev.late \in BOOLEAN
    /\ pc \in Places /\ k \in 1 .. Len(Script)
    /\ retry \in 0 .. 1 /\ use \in {"none", "source", "copy"} /\ made \in BOOLEAN
    /\ checked \in BOOLEAN /\ spoiled \in BOOLEAN /\ mishaps \in 0 .. MaxMishaps

LEMMA TypeParts ==
    TypeOK <=> TypedLocals /\ Typed(sys) /\ Typed(sysC) /\ cache \in Caches /\ cacheC \in Caches
BY DEF TypeOK, TypedLocals, Typed, Places

LEMMA InitType == Init => TypeOK
<1> SUFFICES ASSUME Init PROVE TypeOK OBVIOUS
<1>1. Len(Script) \in Nat /\ 1 \in 1 .. Len(Script) BY ScriptAssumption
<1>2. dev.late \in BOOLEAN BY WriteBacksAssumption DEF Init
<1>3. kind \in [Files -> KindNames] BY KindsAssumption DEF Init
<1>4. MaxMishaps \in Nat BY BoundsAssumption
<1>5. /\ pc = "off" /\ k = 1 /\ retry = 0 /\ use = "none" /\ made = FALSE
      /\ checked = FALSE /\ spoiled = FALSE /\ mishaps = 0
  BY DEF Init
<1>6. TypedLocals
  <2>1. k \in 1 .. Len(Script) /\ mishaps \in 0 .. MaxMishaps /\ retry \in 0 .. 1
    BY <1>1, <1>4, <1>5
  <2>2. pc \in Places /\ use \in {"none", "source", "copy"} BY <1>5 DEF Places
  <2>3. made \in BOOLEAN /\ checked \in BOOLEAN /\ spoiled \in BOOLEAN BY <1>5
  <2> QED BY <1>2, <1>3, <2>1, <2>2, <2>3 DEF TypedLocals
<1>7. Typed(sys) BY Sizes DEF Init, Typed, Disks
<1>8. cache \in Caches BY OpenAssumption DEF Init, Caches, NoCopy
<1> QED BY <1>6, <1>7, <1>8, TypeParts DEF Init

LEMMA LocalTypes ==
    ASSUME TypeOK, [Next]_vars PROVE TypedLocals'
<1> USE DEF TypeOK, TypedLocals, Places, Goto, Stop, rest, locals, disks
<1>0. Len(Script) \in Nat /\ (k < Len(Script) => k + 1 \in 1 .. Len(Script))
        /\ 1 \in 1 .. Len(Script)
  BY ScriptAssumption
<1>1. mishaps' = mishaps \/ Mishap => mishaps' \in 0 .. MaxMishaps
  BY BoundsAssumption DEF Mishap
<1>2. CASE Start \/ Check \/ Space \/ Load
  <2>1. CASE Start BY <1>0, <2>1 DEF Start
  <2>2. CASE Check BY <1>0, <2>2 DEF Check
  <2>3. CASE Space BY <2>3 DEF Space, MakeRoom
  <2>4. CASE Load
    <3>1. CASE IsTarget(f) BY <1>0, <2>4, <3>1 DEF Load, NextFile
    <3>2. CASE ~IsTarget(f)
      <4>1. /\ pc' \in {"room", "off"} /\ use' \in {use, "source", "copy"}
            /\ retry' \in {retry, 1} /\ made' \in BOOLEAN
            /\ UNCHANGED <<kind, dev, k, checked, spoiled, mishaps>>
        BY <2>4, <3>2 DEF Load
      <4> QED BY <4>1
    <3> QED BY <3>1, <3>2
  <2> QED BY <1>2, <2>1, <2>2, <2>3, <2>4
<1>3. CASE Room
  <2>1. pc' \in {"open", "save", "off"} /\ retry' \in {retry, 0}
    BY <1>3 DEF Room, MakeRoom
  <2>2. UNCHANGED <<kind, dev, k, use, made, checked, spoiled, mishaps>>
    BY <1>3 DEF Room
  <2> QED BY <2>1, <2>2
<1>4. CASE Truncate \/ UnlinkSource BY <1>4 DEF Truncate, UnlinkSource
<1>5. CASE Save BY <1>1, <1>5 DEF Save, Fails
<1>6. CASE OpenOutput BY <1>1, <1>6 DEF OpenOutput, Fails
<1>7. CASE Apply BY <1>7 DEF Apply
<1>8. CASE ApplyFails
  <2>1. pc' \in {"off", "room"} /\ retry' \in {retry, 0} /\ (mishaps' = mishaps \/ Mishap)
    BY <1>8 DEF ApplyFails, Fails
  <2>2. UNCHANGED <<kind, dev, k, use, made, checked, spoiled>> BY <1>8 DEF ApplyFails
  <2> QED BY <1>1, <2>1, <2>2
<1>9. CASE Verify \/ Rename BY <1>1, <1>9 DEF Verify, Rename, Fails
<1>10. CASE WritePartition \/ WritePartitionEnd
  BY <1>1, <1>10 DEF WritePartition, WritePartitionEnd, Fails
<1>11. CASE Drop BY <1>0, <1>11 DEF Drop, NextFile
<1>12. CASE WriteBack BY <1>12 DEF WriteBack
<1>13. CASE PowerCut BY <1>1, <1>13 DEF PowerCut
<1>14. CASE UNCHANGED vars BY <1>14 DEF vars
<1> QED BY <1>2, <1>3, <1>4, <1>5, <1>6, <1>7, <1>8, <1>9, <1>10, <1>11, <1>12, <1>13,
           <1>14 DEF Next, Run, Begin, AskAgain

\* What the actions write to the target's volume.
LEMMA Written ==
    ASSUME TypeOK
    PROVE  /\ Typed(sys)
           /\ Typed([sys EXCEPT !.at[f] = "none"]) /\ Typed([sys EXCEPT !.from[f] = FALSE])
           /\ Typed([sys EXCEPT !.at[f] = "torn"]) /\ Typed([sys EXCEPT !.at[f] = "tgt"])
           /\ Typed([sys EXCEPT !.out[f] = 0]) /\ Typed([sys EXCEPT !.out[f] = -1])
           /\ Typed([sys EXCEPT !.at[f] = "tgt", !.out[f] = -1])
           /\ (sys.out[f] < TgtSize[f] => Typed([sys EXCEPT !.out[f] = @ + 1]))
<1>1. f \in Files BY Current
<1>2. sys \in Disks /\ \A g \in Files : sys.out[g] \in -1 .. TgtSize[g] BY DEF TypeOK
<1>3. \A v \in {"none", "torn", "tgt"} : Typed([sys EXCEPT !.at[f] = v])
  BY <1>1, <1>2 DEF Typed, Disks
<1>4. Typed([sys EXCEPT !.from[f] = FALSE]) BY <1>1, <1>2 DEF Typed, Disks
<1>5. \A n \in -1 .. TgtSize[f] : Typed([sys EXCEPT !.out[f] = n])
  BY <1>1, <1>2 DEF Typed, Disks
<1>6. Typed([sys EXCEPT !.at[f] = "tgt", !.out[f] = -1])
  <2> DEFINE t == [sys EXCEPT !.at[f] = "tgt"]
  <2>1. -1 \in -1 .. TgtSize[f] BY <1>1, Sizes
  <2>2. t \in Disks /\ \A g \in Files : t.out[g] \in -1 .. TgtSize[g]
    BY <1>3 DEF Typed
  <2>3. [sys EXCEPT !.at[f] = "tgt", !.out[f] = -1] = [t EXCEPT !.out[f] = -1]
    BY <1>2 DEF Disks
  <2> HIDE DEF t
  <2>4. Typed([t EXCEPT !.out[f] = -1]) BY <2>1, <2>2, <1>1 DEF Typed, Disks
  <2> QED BY <2>3, <2>4
<1>7. /\ 0 \in -1 .. TgtSize[f] /\ -1 \in -1 .. TgtSize[f]
      /\ sys.out[f] < TgtSize[f] => sys.out[f] + 1 \in -1 .. TgtSize[f]
  BY <1>1, <1>2, Sizes
<1>8. Typed(sys) BY <1>2 DEF Typed
<1> QED BY <1>3, <1>4, <1>5, <1>6, <1>7, <1>8

LEMMA DiskTypes ==
    ASSUME TypeOK, [Next]_vars
    PROVE  Typed(sys') /\ Typed(sysC') /\ cache' \in Caches /\ cacheC' \in Caches
<1> USE DEF Goto, Stop, rest, locals, disks
<1>0. f \in Files /\ Typed(sys) /\ Typed(sysC) /\ cache \in Caches /\ cacheC \in Caches
  BY Current, TypeParts
<1>1. CASE UNCHANGED disks BY <1>0, <1>1
<1>2. CASE Start \/ Check \/ Load \/ Verify BY <1>1, <1>2 DEF Start, Check, Load, Verify
<1>3. CASE UNCHANGED <<sys, sysC>> /\ \E need, l : MakeRoom(need, l)
  BY <1>3, MakeRoomTypes, Remaining
<1>4. CASE Space BY <1>3, <1>4 DEF Space, MakeRoom
<1>5. CASE Room BY <1>1, <1>3, <1>5 DEF Room, MakeRoom
<1>6. CASE Truncate
  <2>1. [cache EXCEPT !.temp = [file |-> f, len |-> 0]] \in Caches BY <1>0 DEF Caches
  <2> QED BY <1>6, <2>1, CacheTypes, Remaining DEF Truncate
<1>7. CASE Save
  <2>1. [cache EXCEPT !.temp.len = @ + 1] \in Caches BY <1>0 DEF Caches
  <2>2. CASE UNCHANGED <<sys, sysC>> /\ ToCache([cache EXCEPT !.temp.len = @ + 1])
    BY <2>1, <2>2, CacheTypes, Remaining
  <2>3. CASE SyncCache BY <2>3, <1>0 DEF SyncCache
  <2> QED BY <1>1, <1>7, <2>2, <2>3 DEF Save
<1>8. CASE UnlinkSource BY <1>8, <1>0, Written, SysTypes DEF UnlinkSource
<1>9. CASE OpenOutput BY <1>9, <1>0, Written, SysTypes DEF OpenOutput
<1>10. CASE Apply BY <1>10, <1>0, Written, SysTypes DEF Apply
<1>11. CASE ApplyFails BY <1>11, <1>0, Written, SysTypes DEF ApplyFails
<1>12. CASE Rename BY <1>12, <1>0, Written, SysTypes DEF Rename
<1>13. CASE WritePartition BY <1>13, <1>0, Written, SysTypes DEF WritePartition
<1>14. CASE WritePartitionEnd BY <1>14, <1>0, Written, SysTypes DEF WritePartitionEnd
<1>15. CASE Drop
  <2>1. [cache EXCEPT !.temp = NoCopy] \in Caches BY <1>0 DEF Caches, NoCopy
  <2> QED BY <1>15, <1>0, <2>1, CacheTypes, Remaining DEF Drop
<1>16. CASE WriteBack
  <2>1. Typed(Committed(sys)) BY <1>0 DEF Typed, Committed, Disks
  <2>2. \A g \in Files : Typed([sysC EXCEPT !.at[g] = sys.at[g]]) BY <1>0 DEF Typed, Disks
  <2> QED BY <1>0, <1>16, <2>1, <2>2 DEF WriteBack
<1>17. CASE PowerCut BY <1>0, <1>17 DEF PowerCut
<1>18. CASE UNCHANGED vars BY <1>1, <1>18 DEF vars
<1> QED BY <1>2, <1>4, <1>5, <1>6, <1>7, <1>8, <1>9, <1>10, <1>11, <1>12, <1>13, <1>14,
           <1>15, <1>16, <1>17, <1>18 DEF Next, Run, Begin, AskAgain

LEMMA TypeStep == TypeOK /\ [Next]_vars => TypeOK'
<1> SUFFICES ASSUME TypeOK, [Next]_vars PROVE TypeOK' OBVIOUS
<1>1. TypedLocals' BY LocalTypes
<1>2. Typed(sys)' /\ Typed(sysC)' /\ (cache \in Caches)' /\ (cacheC \in Caches)'
  BY DiskTypes DEF Typed
<1> QED BY <1>1, <1>2, TypeParts, PTL

\* Every step keeps the types of the volumes, the copy and the variables of
\* applypatch (src/applypatch/applypatch.c).
THEOREM TypeCorrect == Spec => []TypeOK
<1>1. Init => TypeOK BY InitType
<1>2. TypeOK /\ [Next]_vars => TypeOK' BY TypeStep
<1> QED BY <1>1, <1>2, PTL DEF Spec
-----------------------------------------------------------------------------
(* The disks: what a write, a write back or a cut leaves of them.          *)

DiskInv == Safe /\ Prompt /\ Older /\ OutputFirst /\ CopyFirst /\ InOrder

\* With late writes nothing is a partition, so a volume is committed whole.
LEMMA CommittedWhole ==
    ASSUME TypeOK, Ordered, dev.late, NEW s, Typed(s)
    PROVE  Committed(s) = s
<1>1. \A g \in Files : ~IsPartition(g) BY DEF Ordered
<1>2. [g \in Files |-> IF IsPartition(g) THEN sysC.at[g] ELSE s.at[g]] = s.at
  BY <1>1 DEF Typed, Disks
<1> QED BY <1>2 DEF Committed, Typed, Disks

LEMMA SysMedium ==
    ASSUME TypeOK, Ordered, Prompt, NEW s, Typed(s), ToSys(s) \/ SyncSys(s)
    PROVE  sys' = s /\ (sysC' = s \/ (sysC' = sysC /\ dev.late))
BY CommittedWhole DEF ToSys, SyncSys, TypeOK

\* A write of the file at hand: its own claims are enough.
LEMMA SysStep ==
    ASSUME TypeOK, Ordered, DiskInv, UNCHANGED <<kind, dev, cache, cacheC, spoiled>>,
           NEW s, Typed(s), ToSys(s) \/ SyncSys(s),
           \A g \in Files \ {f} : /\ s.at[g] = sys.at[g] /\ s.from[g] = sys.from[g]
                                  /\ s.out[g] = sys.out[g],
           Whole(s, cache, f) /\ Whole(s, cacheC, f),
           HasSource(s, f) => HasSource(sys, f),
           sys.at[f] = "tgt" => s.at[f] = "tgt",
           kind[f] = "move" => s.from[f],
           s.at[f] = "tgt" => sysC'.at[f] = "tgt" \/ sysC'.out[f] = TgtSize[f],
           cache.temp = Copy(f) =>
              cacheC.temp = Copy(f) \/ HasSource(s, f) \/ s.at[f] = "tgt",
           HasSource(s, f) \/ \A i \in Indices : i < k => sys.at[Script[i]] = "tgt"
    PROVE  DiskInv'
<1>1. sys' = s /\ (sysC' = s \/ (sysC' = sysC /\ dev.late)) BY SysMedium DEF DiskInv
<1>2. f \in Files /\ k \in Indices BY Current
<1>3. \A c, g : Whole(s, c, g)' <=> Whole(s, c', g)
  BY DEF Whole, HasSource, InPlace, Copy
<1>4. Safe'
  <2>1. \A g \in Files : Whole(s, cache, g) /\ Whole(s, cacheC, g)
    BY <1>2 DEF DiskInv, Safe, Whole, HasSource
  <2>2. \A g \in Files : /\ Whole(sys', cache, g) /\ Whole(sys', cacheC, g)
                         /\ Whole(sysC', cache, g) /\ Whole(sysC', cacheC, g)
    BY <1>1, <2>1 DEF DiskInv, Safe
  <2> QED BY <2>2 DEF Safe, Whole, HasSource, InPlace, Copy
<1>5. Prompt' BY <1>1 DEF DiskInv, Prompt
<1>6. Older'
  <2>1. \A g \in Files : /\ HasSource(s, g) => HasSource(sysC', g)
                         /\ sysC'.at[g] = "tgt" => s.at[g] = "tgt"
                         /\ kind[g] = "move" => s.from[g] /\ sysC'.from[g]
    BY <1>1, <1>2 DEF DiskInv, Older, HasSource
  <2> QED BY <1>1, <2>1 DEF Older, HasSource, InPlace
<1>7. OutputFirst' BY <1>1, <1>2 DEF DiskInv, OutputFirst
<1>8. CopyFirst'
  <2>1. \A g \in Files : cache.temp = Copy(g) =>
           cacheC.temp = Copy(g) \/ HasSource(s, g) \/ s.at[g] = "tgt"
    BY <1>2 DEF DiskInv, CopyFirst, HasSource
  <2> QED BY <1>1, <2>1 DEF CopyFirst, HasSource, InPlace, Copy
<1>9. InOrder'
  <2>1. ASSUME NEW i \in Indices, NEW j \in Indices, i < j
        PROVE  HasSource(s, Script[j]) \/ s.at[Script[i]] = "tgt"
    <3>1. Script[i] \in Files /\ Script[j] \in Files BY NoFileTwice
    <3>2. sys.at[Script[i]] = "tgt" => s.at[Script[i]] = "tgt" BY <3>1
    <3>3. HasSource(sys, Script[j]) \/ sys.at[Script[i]] = "tgt" BY <2>1 DEF DiskInv, InOrder
    <3>4. CASE Script[j] = f
      <4>1. j = k BY <1>2, <3>4, NoFileTwice DEF f
      <4> QED BY <2>1, <3>2, <3>4, <4>1
    <3>5. CASE Script[j] # f
      <4>1. HasSource(sys, Script[j]) <=> HasSource(s, Script[j])
        BY <3>1, <3>5 DEF HasSource
      <4> QED BY <3>2, <3>3, <4>1
    <3> QED BY <3>4, <3>5
  <2>2. \A i, j \in Indices : i < j =>
           HasSource(sysC', Script[j]) \/ sysC'.at[Script[i]] = "tgt"
    BY <1>1, <2>1 DEF DiskInv, InOrder
  <2> QED BY <1>1, <2>1, <2>2 DEF InOrder, HasSource, InPlace
<1> QED BY <1>4, <1>5, <1>6, <1>7, <1>8, <1>9 DEF DiskInv

\* What is kept of a file besides the copy.
Bare(s, g) == \/ s.at[g] = "tgt" \/ HasSource(s, g) \/ s.out[g] = TgtSize[g]
              \/ kind[g] = "partition" /\ spoiled'

\* A step of /cache may take the copy of a file that does not need it.
LEMMA CacheStep ==
    ASSUME TypeOK, Ordered, DiskInv, UNCHANGED <<kind, dev, sys, sysC>>,
           spoiled => spoiled',
           ToCache(cache') \/ cacheC' = cache',
           \A g \in Files : \/ cache'.temp = Copy(g) \/ cache.temp # Copy(g)
                            \/ Bare(sys, g) /\ Bare(sysC, g),
           \A g \in Files : cache'.temp = Copy(g) =>
              cacheC'.temp = Copy(g) \/ HasSource(sys, g) \/ sys.at[g] = "tgt"
    PROVE  DiskInv'
<1>1. cacheC' = cache' \/ (cacheC' = cacheC /\ dev.late) BY DEF ToCache, TypeOK
<1>2. Safe'
  <2>1. ASSUME NEW g \in Files, NEW v \in {sys, sysC}
        PROVE  /\ Bare(v, g) \/ cache'.temp = Copy(g)
               /\ Bare(v, g) \/ cacheC'.temp = Copy(g)
    BY <1>1, <2>1 DEF DiskInv, Safe, Whole, Bare
  <2> QED BY <2>1 DEF Safe, Whole, Bare, HasSource, InPlace, Copy
<1>3. Prompt' BY <1>1 DEF DiskInv, Prompt
<1>4. Older' BY DEF DiskInv, Older, HasSource, InPlace
<1>5. OutputFirst' BY DEF DiskInv, OutputFirst
<1>6. CopyFirst' BY DEF CopyFirst, HasSource, InPlace, Copy
<1>7. InOrder' BY DEF DiskInv, InOrder, HasSource, InPlace
<1> QED BY <1>2, <1>3, <1>4, <1>5, <1>6, <1>7 DEF DiskInv

\* Neither the files nor the copy change.
LEMMA DiskKept ==
    ASSUME DiskInv, UNCHANGED <<kind, dev, sys, sysC, spoiled>>,
           UNCHANGED <<cache, cacheC>> \/ (~dev.late /\ cacheC' = cache')
              \/ (dev.late /\ cacheC' = cacheC),
           cache'.temp = cache.temp
    PROVE  DiskInv'
<1>1. cacheC'.temp = cacheC.temp BY DEF DiskInv, Prompt
<1>2. Safe' BY <1>1 DEF DiskInv, Safe, Whole, HasSource, InPlace, Copy
<1>3. Prompt' BY DEF DiskInv, Prompt
<1>4. Older' BY DEF DiskInv, Older, HasSource, InPlace
<1>5. OutputFirst' BY DEF DiskInv, OutputFirst
<1>6. CopyFirst' BY <1>1 DEF DiskInv, CopyFirst, HasSource, InPlace, Copy
<1>7. InOrder' BY DEF DiskInv, InOrder, HasSource, InPlace
<1> QED BY <1>2, <1>3, <1>4, <1>5, <1>6, <1>7 DEF DiskInv

\* While a file is worked on, the others do not need the copy.
LEMMA OthersBare ==
    ASSUME TypeOK, DiskInv, Progress, pc \in Working, NEW g \in Files, g # f
    PROVE  Bare(sys, g) /\ Bare(sysC, g)
<1>1. PICK i \in Indices : g = Script[i] BY EveryFile
<1>2. f \in Files /\ k \in Indices /\ i # k BY Current, <1>1 DEF f
<1>3. sys.at[f] # "tgt" BY DEF Progress
<1>4. CASE i < k
  <2>1. sys.at[g] = "tgt" BY <1>1, <1>4 DEF Progress, Patching
  <2> QED BY <2>1 DEF DiskInv, OutputFirst, Bare
<1>5. CASE k < i
  <2>1. HasSource(sys, g) BY <1>1, <1>2, <1>3, <1>5 DEF DiskInv, InOrder, f
  <2>2. HasSource(sysC, g) BY <2>1 DEF DiskInv, Older
  <2> QED BY <2>1, <2>2 DEF Bare
<1> QED BY <1>2, <1>4, <1>5 DEF Indices

LEMMA TruncateDisk ==
    ASSUME TypeOK, Ordered, KeptInv, Truncate PROVE DiskInv'
<1>1. f \in Files /\ DiskInv /\ pc = "save" BY Current DEF KeptInv, DiskInv, Truncate
<1>2. Bare(sys, f) /\ Bare(sysC, f)
  <2>1. CASE use = "source"
    <3>1. HasSource(sys, f) BY <1>1, <2>1 DEF KeptInv, Ready, Working
    <3>2. HasSource(sysC, f) BY <1>1, <3>1 DEF DiskInv, Older
    <3> QED BY <3>1, <3>2 DEF Bare
  <2>2. CASE use = "copy"
    <3>1. IsPartition(f) /\ spoiled' BY <1>1, <2>2 DEF KeptInv, Ready, Truncate
    <3>2. CASE kind[f] = "partition" BY <3>1, <3>2 DEF Bare
    <3>3. CASE kind[f] = "move"
      <4>1. sys.from[f] /\ sysC.from[f] BY <1>1, <3>3 DEF DiskInv, Older
      <4> QED BY <3>3, <4>1 DEF Bare, HasSource, InPlace
    <3> QED BY <3>1, <3>2, <3>3 DEF IsPartition
  <2> QED BY <1>1, <2>1, <2>2 DEF KeptInv, Progress, Working
<1>3. \A g \in Files : Bare(sys, g) /\ Bare(sysC, g)
  BY <1>1, <1>2, OthersBare DEF KeptInv, Working
<1>4. cache'.temp = [file |-> f, len |-> 0] /\ ToCache(cache')
  BY DEF Truncate, ToCache, TypeOK, Caches
<1>5. \A g \in Files : cache'.temp # Copy(g) BY <1>1, <1>4, Copies
<1>6. UNCHANGED <<kind, dev, sys, sysC>> /\ (spoiled => spoiled') BY DEF Truncate
<1> QED BY <1>1, <1>3, <1>4, <1>5, <1>6, CacheStep

LEMMA SaveDisk ==
    ASSUME TypeOK, Ordered, KeptInv, Save PROVE DiskInv'
<1>1. f \in Files /\ DiskInv /\ pc = "saving" BY Current DEF KeptInv, DiskInv, Save
<1>2. UNCHANGED <<kind, dev, spoiled>> BY DEF Save, rest
<1>3. CASE use = "source" /\ ToCache([cache EXCEPT !.temp.len = @ + 1]) /\ UNCHANGED <<sys, sysC>>
  <2>1. HasSource(sys, f) BY <1>1, <1>3 DEF KeptInv, Ready, Working
  <2>2. HasSource(sysC, f) BY <1>1, <2>1 DEF DiskInv, Older
  <2>3. cache.temp.file = f BY <1>1 DEF KeptInv, Progress
  <2>4. cache'.temp.file = f /\ ToCache(cache')
    BY <1>3, <2>3 DEF ToCache, TypeOK, Caches
  <2>5. \A g \in Files : g # f => cache.temp # Copy(g) /\ cache'.temp # Copy(g)
    BY <2>3, <2>4, Copies
  <2>6. Bare(sys, f) /\ Bare(sysC, f) BY <2>1, <2>2 DEF Bare
  <2> QED BY <1>1, <1>2, <1>3, <2>1, <2>4, <2>5, <2>6, CacheStep
<1>4. CASE SyncCache
  <2>1. cache' = cache /\ cacheC' = cache' /\ UNCHANGED <<sys, sysC>> BY <1>4 DEF SyncCache
  <2> QED BY <1>1, <1>2, <2>1, CacheStep
<1>5. CASE UNCHANGED disks BY <1>1, <1>2, <1>5, DiskKept DEF disks
<1> QED BY <1>3, <1>4, <1>5 DEF Save

\* A file whose target is still to come, and the files before it.
LEMMA AtWork ==
    ASSUME TypeOK, KeptInv, pc \in Working
    PROVE  /\ f \in Files /\ DiskInv /\ sys.at[f] # "tgt"
           /\ \A i \in Indices : i < k => sys.at[Script[i]] = "tgt"
BY Current DEF KeptInv, DiskInv, Progress, Patching

\* Writing the output, or nothing, while there is a source or a copy.
LEMMA OutputDisk ==
    ASSUME TypeOK, Ordered, KeptInv, pc \in {"open", "apply"},
           UNCHANGED <<kind, dev, cache, cacheC, spoiled>>,
           NEW n, n \in -1 .. TgtSize[f], NEW s,
           s = sys \/ s = [sys EXCEPT !.out[f] = n], ToSys(s) \/ SyncSys(s)
    PROVE  DiskInv'
<1>1. /\ f \in Files /\ DiskInv /\ sys.at[f] # "tgt"
      /\ \A i \in Indices : i < k => sys.at[Script[i]] = "tgt"
  BY AtWork DEF Working
<1>2. HasSource(sys, f) \/ Copied BY DEF KeptInv, Ready, Output
<1>3. Typed(s) /\ s.at = sys.at /\ s.from = sys.from
      /\ \A g \in Files \ {f} : s.out[g] = sys.out[g]
  <2>1. sys \in Disks /\ \A g \in Files : sys.out[g] \in -1 .. TgtSize[g] BY DEF TypeOK
  <2>2. TgtSize[f] \in Nat BY <1>1, Sizes
  <2>3. CASE s = sys BY <2>1, <2>3 DEF Typed
  <2>4. CASE s = [sys EXCEPT !.out[f] = n]
    <3>1. s \in Disks BY <2>1, <2>2, <2>4 DEF Disks
    <3>2. /\ s.at = sys.at /\ s.from = sys.from /\ s.out[f] = n
          /\ \A g \in Files \ {f} : s.out[g] = sys.out[g]
      BY <1>1, <2>1, <2>4 DEF Disks
    <3> QED BY <2>1, <3>1, <3>2 DEF Typed
  <2> QED BY <2>3, <2>4
<1>4. HasSource(s, f) <=> HasSource(sys, f) BY <1>3 DEF HasSource
<1>5. Whole(s, cache, f) /\ Whole(s, cacheC, f) BY <1>2, <1>4 DEF Whole, Copied
<1>6. kind[f] = "move" => s.from[f] BY <1>1, <1>3 DEF DiskInv, Older
<1>7. cache.temp = Copy(f) => cacheC.temp = Copy(f) \/ HasSource(s, f)
  BY <1>2, <1>4 DEF Copied
<1> QED BY <1>1, <1>3, <1>4, <1>5, <1>6, <1>7, SysStep

LEMMA UnlinkDisk ==
    ASSUME TypeOK, Ordered, KeptInv, UnlinkSource PROVE DiskInv'
<1>1. /\ f \in Files /\ DiskInv /\ sys.at[f] # "tgt"
      /\ \A i \in Indices : i < k => sys.at[Script[i]] = "tgt"
  BY AtWork DEF Working, UnlinkSource
<1>2. Copied /\ ~IsPartition(f) BY DEF KeptInv, Ready, UnlinkSource
<1> DEFINE s == IF InPlace(f) THEN [sys EXCEPT !.at[f] = "none"]
                              ELSE [sys EXCEPT !.from[f] = FALSE]
<1>3. Typed(s) BY Written
<1>4. /\ \A g \in Files \ {f} : /\ s.at[g] = sys.at[g] /\ s.from[g] = sys.from[g]
                                /\ s.out[g] = sys.out[g]
      /\ s.at[f] # "tgt" /\ ~HasSource(s, f)
  BY <1>1 DEF TypeOK, Disks, HasSource
<1>5. UNCHANGED <<kind, dev, cache, cacheC, spoiled>> /\ ToSys(s) BY DEF UnlinkSource, rest
<1> HIDE DEF s
<1>6. Whole(s, cache, f) /\ Whole(s, cacheC, f) BY <1>2 DEF Whole, Copied
<1>7. kind[f] # "move" BY <1>2 DEF IsPartition
<1> QED BY <1>1, <1>2, <1>3, <1>4, <1>5, <1>6, <1>7, SysStep DEF Copied

LEMMA RenameDisk ==
    ASSUME TypeOK, Ordered, KeptInv, Rename PROVE DiskInv'
<1>1. /\ f \in Files /\ DiskInv /\ sys.at[f] # "tgt"
      /\ \A i \in Indices : i < k => sys.at[Script[i]] = "tgt"
  BY AtWork DEF Working, Rename
<1>2. sysC.out[f] = TgtSize[f] /\ ~IsPartition(f) BY DEF KeptInv, Ready, Rename
<1>3. UNCHANGED <<kind, dev, cache, cacheC, spoiled>> BY DEF Rename, rest
<1> DEFINE s == [sys EXCEPT !.at[f] = "tgt", !.out[f] = -1]
<1>4. CASE ToSys(s)
  <2>1. Typed(s) BY Written
  <2>2. /\ \A g \in Files \ {f} : /\ s.at[g] = sys.at[g] /\ s.from[g] = sys.from[g]
                                  /\ s.out[g] = sys.out[g]
        /\ s.at[f] = "tgt" /\ s.from[f] = sys.from[f]
    BY <1>1 DEF TypeOK, Disks
  <2> HIDE DEF s
  <2>3. HasSource(s, f) => HasSource(sys, f) BY <2>2 DEF HasSource
  <2>4. Whole(s, cache, f) /\ Whole(s, cacheC, f) BY <2>2 DEF Whole
  <2>5. kind[f] # "move" BY <1>2 DEF IsPartition
  <2>6. sysC'.at[f] = "tgt" \/ sysC'.out[f] = TgtSize[f]
    BY <1>1, <1>2, <1>4, <2>1, <2>2, SysMedium DEF DiskInv
  <2> QED BY <1>1, <1>3, <1>4, <2>1, <2>2, <2>3, <2>4, <2>5, <2>6, SysStep
<1>5. CASE UNCHANGED <<sys, sysC>> BY <1>1, <1>3, <1>5, DiskKept
<1> QED BY <1>4, <1>5 DEF Rename

\* Both steps of writing a partition; the copy is on the medium.
LEMMA PartitionDisk ==
    ASSUME TypeOK, Ordered, KeptInv, WritePartition \/ WritePartitionEnd PROVE DiskInv'
<1>1. f \in Files /\ DiskInv BY Current DEF KeptInv, DiskInv
<1>2. IsPartition(f) /\ Copied /\ sys.at[f] # "tgt"
      /\ \A i \in Indices : i < k => sys.at[Script[i]] = "tgt"
  BY DEF KeptInv, Ready, Progress, Output, Working, Patching, WritePartition, WritePartitionEnd
<1>3. UNCHANGED <<kind, dev, cache, cacheC, spoiled>>
  BY DEF WritePartition, WritePartitionEnd, rest
<1>4. CASE UNCHANGED <<sys, sysC>> BY <1>1, <1>3, <1>4, DiskKept
<1>5. ASSUME NEW v \in {"torn", "tgt"}, ToSys([sys EXCEPT !.at[f] = v]) PROVE DiskInv'
  <2> DEFINE s == [sys EXCEPT !.at[f] = v]
  <2>1. Typed(s) BY Written
  <2>2. /\ \A g \in Files \ {f} : /\ s.at[g] = sys.at[g] /\ s.from[g] = sys.from[g]
                                  /\ s.out[g] = sys.out[g]
        /\ s.at[f] = v /\ s.from[f] = sys.from[f]
    BY <1>1 DEF TypeOK, Disks
  <2>3. ToSys(s) BY <1>5
  <2> HIDE DEF s
  <2>4. HasSource(s, f) => HasSource(sys, f) BY <2>2 DEF HasSource
  <2>5. Whole(s, cache, f) /\ Whole(s, cacheC, f) BY <1>2 DEF Whole, Copied
  <2>6. kind[f] = "move" => s.from[f] BY <1>1, <2>2 DEF DiskInv, Older
  <2>7. sysC' = s
    <3>1. ~dev.late BY <1>1, <1>2 DEF Ordered
    <3> QED BY <3>1, <2>3 DEF ToSys
  <2> QED BY <1>1, <1>2, <1>3, <2>1, <2>2, <2>3, <2>4, <2>5, <2>6, <2>7, SysStep DEF Copied
<1> QED BY <1>4, <1>5 DEF WritePartition, WritePartitionEnd

LEMMA DropDisk ==
    ASSUME TypeOK, Ordered, KeptInv, Drop PROVE DiskInv'
<1>1. f \in Files /\ DiskInv /\ sys.at[f] = "tgt" /\ (made => cache.temp.file = f)
  BY Current DEF KeptInv, DiskInv, Progress, Patching, Drop
<1>2. UNCHANGED <<kind, dev, spoiled, sys, sysC>> BY DEF Drop, rest
<1>3. CASE ~made BY <1>1, <1>2, <1>3, DiskKept DEF Drop
<1>4. CASE made
  <2>1. cache'.temp = NoCopy /\ ToCache(cache')
    BY <1>4 DEF Drop, ToCache, TypeOK, Caches
  <2>2. \A g \in Files : cache'.temp # Copy(g) BY <2>1, Copies
  <2>3. \A g \in Files : g # f => cache.temp # Copy(g) BY <1>1, <1>4, Copies
  <2>4. Bare(sys, f) /\ Bare(sysC, f) BY <1>1 DEF DiskInv, OutputFirst, Bare
  <2> QED BY <1>1, <1>2, <2>1, <2>2, <2>3, <2>4, CacheStep
<1> QED BY <1>3, <1>4

LEMMA WriteBackDisk ==
    ASSUME TypeOK, Ordered, DiskInv, WriteBack PROVE DiskInv'
<1>1. UNCHANGED <<kind, dev, sys, cache, spoiled>> /\ dev.late BY DEF WriteBack
<1>2. \A g \in Files : ~IsPartition(g) BY <1>1 DEF Ordered
<1>3. Committed(sys) = sys BY <1>1, TypeParts, CommittedWhole
<1>4. CASE sysC' = sys /\ cacheC' = cacheC
  <2> USE <1>1, <1>4
  <2>1. Safe' BY DEF DiskInv, Safe, Whole, HasSource, InPlace, Copy
  <2>2. Prompt' /\ Older' /\ OutputFirst'
    BY DEF DiskInv, Prompt, Older, OutputFirst, HasSource, InPlace
  <2>3. CopyFirst' BY DEF DiskInv, CopyFirst, HasSource, InPlace, Copy
  <2>4. InOrder' BY DEF DiskInv, InOrder, HasSource, InPlace
  <2> QED BY <2>1, <2>2, <2>3, <2>4 DEF DiskInv
<1>5. CASE sysC' = sysC /\ cacheC' = cache BY <1>1, <1>5, CacheStep
<1> QED BY <1>2, <1>3, <1>4, <1>5 DEF WriteBack

LEMMA PowerCutDisk ==
    ASSUME TypeOK, Ordered, DiskInv, PowerCut PROVE DiskInv'
<1> UNCHANGED <<kind, dev, spoiled, sysC, cacheC>> /\ sys' = sysC /\ cache' = cacheC
  BY DEF PowerCut
<1>1. Safe' BY DEF DiskInv, Safe, Whole, HasSource, InPlace, Copy
<1>2. Prompt' /\ OutputFirst' BY DEF Prompt, OutputFirst
<1>3. Older' BY DEF DiskInv, Older, HasSource, InPlace
<1>4. CopyFirst' BY DEF CopyFirst, HasSource, InPlace, Copy
<1>5. InOrder' BY DEF DiskInv, InOrder, HasSource, InPlace
<1> QED BY <1>1, <1>2, <1>3, <1>4, <1>5 DEF DiskInv

LEMMA DiskStep ==
    ASSUME TypeOK, Ordered, KeptInv, [Next]_vars PROVE DiskInv'
<1> USE DEF rest, locals, disks
<1>0. DiskInv /\ f \in Files BY Current DEF KeptInv, DiskInv
<1>1. CASE UNCHANGED <<kind, dev, disks, spoiled>> BY <1>0, <1>1, DiskKept
<1>2. CASE Start \/ Check \/ Load \/ Verify BY <1>1, <1>2 DEF Start, Check, Load, Verify
<1>3. CASE UNCHANGED <<kind, dev, spoiled>> /\ \E need, l : MakeRoom(need, l)
  <2>1. /\ UNCHANGED <<sys, sysC>> /\ cache'.temp = cache.temp
        /\ cacheC' = IF dev.late THEN cacheC ELSE cache'
    BY <1>3 DEF MakeRoom, ToCache, TypeOK, Caches
  <2> QED BY <1>0, <1>3, <2>1, DiskKept
<1>4. CASE Space BY <1>3, <1>4 DEF Space
<1>5. CASE Room BY <1>1, <1>3, <1>5 DEF Room
<1>6. CASE OpenOutput
  <2>1. CASE UNCHANGED <<sys, sysC>> BY <1>1, <1>6, <2>1 DEF OpenOutput
  <2>2. CASE ~UNCHANGED <<sys, sysC>>
    <3>1. 0 \in -1 .. TgtSize[f] BY <1>0, Sizes
    <3>2. ToSys(sys) \/ ToSys([sys EXCEPT !.out[f] = 0]) BY <1>6, <2>2 DEF OpenOutput
    <3>3. pc = "open" /\ UNCHANGED <<kind, dev, cache, cacheC, spoiled>>
      BY <1>6 DEF OpenOutput
    <3> QED BY <3>1, <3>2, <3>3, OutputDisk
  <2> QED BY <2>1, <2>2
<1>7. CASE Apply
  <2>1. pc = "apply" /\ UNCHANGED <<kind, dev, cache, cacheC, spoiled>> BY <1>7 DEF Apply
  <2>2. CASE UNCHANGED <<sys, sysC>> BY <1>1, <1>7, <2>1, <2>2
  <2>3. CASE sys.out[f] < TgtSize[f] /\ ToSys([sys EXCEPT !.out[f] = @ + 1])
    <3>1. sys.out[f] + 1 \in -1 .. TgtSize[f] BY <1>0, <2>3, Sizes DEF TypeOK
    <3>2. ToSys([sys EXCEPT !.out[f] = sys.out[f] + 1]) BY <2>3, <1>0 DEF TypeOK, Disks
    <3> QED BY <2>1, <3>1, <3>2, OutputDisk
  <2>4. CASE SyncSys(sys)
    <3>1. 0 \in -1 .. TgtSize[f] BY <1>0, Sizes
    <3> QED BY <2>1, <2>4, <3>1, OutputDisk
  <2> QED BY <1>7, <2>2, <2>3, <2>4 DEF Apply
<1>8. CASE ApplyFails
  <2>1. -1 \in -1 .. TgtSize[f] BY <1>0, Sizes
  <2>2. pc = "apply" /\ UNCHANGED <<kind, dev, cache, cacheC, spoiled>> BY <1>8 DEF ApplyFails
  <2>3. SyncSys(sys) \/ ToSys([sys EXCEPT !.out[f] = -1]) BY <1>8 DEF ApplyFails
  <2> QED BY <2>1, <2>2, <2>3, OutputDisk
<1>9. CASE Truncate \/ Save BY <1>9, TruncateDisk, SaveDisk
<1>10. CASE UnlinkSource \/ Rename BY <1>10, UnlinkDisk, RenameDisk
<1>11. CASE WritePartition \/ WritePartitionEnd BY <1>11, PartitionDisk
<1>12. CASE Drop BY <1>12, DropDisk
<1>13. CASE WriteBack \/ PowerCut BY <1>0, <1>13, WriteBackDisk, PowerCutDisk
<1>14. CASE UNCHANGED vars BY <1>1, <1>14 DEF vars
<1> QED BY <1>2, <1>4, <1>5, <1>6, <1>7, <1>8, <1>9, <1>10, <1>11, <1>12, <1>13, <1>14
        DEF Next, Run, Begin, AskAgain
-----------------------------------------------------------------------------
(* Where the script is.                                                    *)

PlaceInv == Progress /\ Ready

LEMMA Idle ==
    ASSUME pc' \in {"off", "check"} PROVE PlaceInv'
BY DEF PlaceInv, Progress, Ready, Patching, Working, Output

\* The claims that name the file at hand, for a step that stays with it.
LEMMA SameFile ==
    ASSUME UNCHANGED <<k, kind>>
    PROVE  /\ f' = f
           /\ Copied' <=> (cache'.temp = Copy(f) /\ cacheC'.temp = Copy(f))
           /\ HasSource(sys, f)' <=> HasSource(sys', f)
           /\ IsPartition(f)' <=> IsPartition(f)
           /\ IsCopied(f)' <=> cache'.temp = Copy(f)
BY DEF f, Copied, HasSource, InPlace, IsPartition, IsCopied, Copy

LEMMA NextPlace ==
    ASSUME TypeOK, Progress, pc \in {"load", "drop"}, sys.at[f] = "tgt", sys' = sys, NextFile
    PROVE  PlaceInv'
<1>1. CASE k < Len(Script)
  <2>1. pc' = "load" /\ k' = k + 1 BY <1>1 DEF NextFile, Goto
  <2>2. \A i \in Indices : i < k + 1 => sys.at[Script[i]] = "tgt"
    <3>1. \A i \in Indices : i < k + 1 => i < k \/ i = k BY DEF TypeOK, Indices
    <3> QED BY <3>1 DEF Progress, Patching, f
  <2> QED BY <2>1, <2>2 DEF PlaceInv, Progress, Ready, Patching, Working, Output
<1>2. CASE ~(k < Len(Script)) BY <1>2, Idle DEF NextFile, Stop
<1> QED BY <1>1, <1>2

LEMMA LoadPlace ==
    ASSUME TypeOK, KeptInv, Load PROVE PlaceInv'
<1> USE DEF Goto, Stop, disks
<1>1. pc = "load" /\ UNCHANGED <<kind, sys, cache, cacheC>> /\ f \in Files
  BY Current DEF Load, rest
<1>2. CASE IsTarget(f) BY <1>1, <1>2, NextPlace DEF Load, IsTarget, KeptInv
<1>3. CASE ~IsTarget(f) /\ (HasSource(sys, f) \/ IsCopied(f))
  <2>1. /\ use' = IF HasSource(sys, f) THEN "source" ELSE "copy"
        /\ made' = FALSE /\ retry' = 1 /\ pc' = "room" /\ UNCHANGED k
    BY <1>3 DEF Load
  <2>2. ~HasSource(sys, f) => Copied
    BY <1>1, <1>3 DEF KeptInv, CopyFirst, Copied, IsTarget, IsCopied
  <2>3. Progress' BY <1>1, <1>3, <2>1, SameFile DEF KeptInv, Progress, Patching, Working, IsTarget
  <2>4. Ready' BY <1>1, <2>1, <2>2, SameFile DEF Ready, Working, Output, Copied
  <2> QED BY <2>3, <2>4 DEF PlaceInv
<1>4. CASE ~IsTarget(f) /\ ~(HasSource(sys, f) \/ IsCopied(f)) BY <1>4, Idle DEF Load
<1> QED BY <1>2, <1>3, <1>4

LEMMA SpacePlace ==
    ASSUME TypeOK, KeptInv, Space PROVE PlaceInv'
<1>1. CASE pc' = "load"
  <2>1. k' = 1 /\ Len(Script) \in Nat BY ScriptAssumption DEF Space, KeptInv, Progress
  <2>2. \A i \in Indices : ~(i < k') BY <2>1 DEF Indices
  <2> QED BY <1>1, <2>2 DEF PlaceInv, Progress, Ready, Patching, Working, Output
<1>2. CASE pc' = "off" BY <1>2, Idle
<1> QED BY <1>1, <1>2 DEF Space, MakeRoom, Goto, Stop

LEMMA RoomPlace ==
    ASSUME TypeOK, KeptInv, Room PROVE PlaceInv'
<1> USE DEF Goto, Stop, disks
<1>1. /\ pc = "room" /\ UNCHANGED <<kind, sys, k, use, made>> /\ retry' \in {retry, 0}
      /\ cache'.temp = cache.temp
  BY DEF Room, rest, MakeRoom, ToCache, TypeOK, Caches
<1>2. cacheC'.temp = cacheC.temp
  <2>1. UNCHANGED disks \/ \E need, l : MakeRoom(need, l) BY DEF Room
  <2>2. cacheC' = cacheC \/ (cacheC' = cache' /\ ~dev.late)
    BY <2>1 DEF MakeRoom, ToCache, TypeOK
  <2> QED BY <1>1, <2>2 DEF KeptInv, Prompt
<1>3. \/ pc' = "off"
      \/ pc' = "open" /\ ~IsPartition(f) /\ (retry' = retry \/ retry' = 0)
      \/ pc' = "save" /\ retry' = 0 /\ (IsPartition(f) \/ use = "source")
  BY DEF Room, MakeRoom
<1>4. CASE pc' # "off"
  <2>1. Progress' BY <1>1, <1>3, <1>4, SameFile DEF KeptInv, Progress, Patching, Working
  <2>2. Ready' BY <1>1, <1>2, <1>3, <1>4, SameFile DEF KeptInv, Ready, Working, Output, Copied
  <2> QED BY <2>1, <2>2 DEF PlaceInv
<1> QED BY <1>4, Idle

LEMMA SavePlace ==
    ASSUME TypeOK, KeptInv, Truncate \/ Save PROVE PlaceInv'
<1> USE DEF Goto, Stop, disks
<1>0. f \in Files /\ UNCHANGED <<kind, sys, k, use, retry>> /\ pc \in {"save", "saving"}
  BY Current DEF Truncate, Save, rest, SyncCache, locals
<1>1. CASE Truncate
  <2>1. pc' = "saving" /\ cache'.temp.file = f BY <1>1 DEF Truncate, ToCache, TypeOK, Caches
  <2>2. Progress' BY <1>0, <2>1, SameFile DEF KeptInv, Progress, Patching, Working
  <2>3. Ready' BY <1>0, <2>1, SameFile DEF KeptInv, Ready, Working, Output
  <2> QED BY <2>2, <2>3 DEF PlaceInv
<1>2. CASE Save /\ pc' = "saving"
  <2>1. cache'.temp.file = f
    BY <1>2 DEF Save, ToCache, SyncCache, TypeOK, Caches, KeptInv, Progress
  <2>2. Progress' BY <1>0, <1>2, <2>1, SameFile DEF KeptInv, Progress, Patching, Working
  <2>3. Ready' BY <1>0, <1>2, SameFile DEF KeptInv, Ready, Working, Output
  <2> QED BY <2>2, <2>3 DEF PlaceInv
<1>3. CASE Save /\ use = "source" /\ cache.temp.len = SrcSize[f] /\ SyncCache
             /\ pc' = IF IsPartition(f) THEN "open" ELSE "unlink"
  <2>1. pc = "saving" BY <1>3 DEF Save
  <2>2. cache.temp = Copy(f)
    BY <1>3, <2>1 DEF TypeOK, Caches, Copy, KeptInv, Progress
  <2>3. cache' = cache /\ cacheC' = cache BY <1>3 DEF SyncCache
  <2>4. Copied' BY <1>0, <2>2, <2>3, SameFile
  <2>5. Progress' BY <1>0, <1>3, <2>1, <2>2, <2>3, SameFile, Copies
                  DEF KeptInv, Progress, Patching, Working
  <2>6. Ready' BY <1>0, <1>3, <2>1, <2>4, SameFile DEF KeptInv, Ready, Working, Output
  <2> QED BY <2>5, <2>6 DEF PlaceInv
<1>4. CASE pc' = "off" BY <1>4, Idle
<1> QED BY <1>0, <1>1, <1>2, <1>3, <1>4 DEF Save

\* A step behind the copy that keeps it, and stays with the file.
LEMMA BehindCopy ==
    ASSUME UNCHANGED <<kind, k, cache, cacheC, use, made>>
    PROVE  /\ f' = f /\ (Copied' <=> Copied) /\ (IsPartition(f)' <=> IsPartition(f))
           /\ (HasSource(sys, f)' <=> HasSource(sys', f))
BY SameFile DEF Copied

LEMMA UnlinkPlace ==
    ASSUME TypeOK, KeptInv, UnlinkSource PROVE PlaceInv'
<1>1. f \in Files /\ UNCHANGED <<kind, k, cache, cacheC, use, made, retry>>
      /\ pc = "unlink" /\ pc' = "open"
  BY Current DEF UnlinkSource, rest, locals, Goto
<1>2. /\ \A g \in Files : g # f => sys'.at[g] = sys.at[g]
      /\ sys'.at[f] # "tgt"
  BY <1>1 DEF UnlinkSource, ToSys, KeptInv, Progress, Working, TypeOK, Disks
<1>3. Copied /\ ~IsPartition(f) /\ sys.at[f] # "tgt" BY <1>1 DEF KeptInv, Ready, Progress, Working
<1>4. \A i \in Indices : i < k => sys'.at[Script[i]] = "tgt"
  BY <1>1, <1>2, <1>3, NoFileTwice DEF KeptInv, Progress, Patching, Working
<1>5. Progress' BY <1>1, <1>2, <1>4, BehindCopy DEF KeptInv, Progress, Patching, Working
<1>6. retry' = 0 BY <1>1 DEF KeptInv, Ready
<1>7. Ready' BY <1>1, <1>3, <1>6, BehindCopy DEF KeptInv, Ready, Working, Output
<1> QED BY <1>5, <1>7 DEF PlaceInv

\* The output grows, or goes; the file stays at hand.
LEMMA OutputPlace ==
    ASSUME TypeOK, KeptInv, UNCHANGED <<kind, k, cache, cacheC, use, made>>,
           pc \in Output, sys'.at = sys.at, sys'.from = sys.from,
           \/ pc' \in Output /\ retry' = retry
           \/ pc' = "room" /\ retry = 1 /\ retry' = 0,
           pc' \in {"verify", "install"} /\ ~IsPartition(f) =>
              sys'.out[f] = TgtSize[f] /\ sysC'.out[f] = TgtSize[f]
    PROVE  PlaceInv'
<1>1. HasSource(sys, f)' <=> HasSource(sys, f) BY BehindCopy DEF HasSource, InPlace
<1>2. Progress' BY BehindCopy DEF KeptInv, Progress, Patching, Working, Output
<1>3. Ready' BY <1>1, BehindCopy DEF KeptInv, Ready, Working, Output
<1> QED BY <1>2, <1>3 DEF PlaceInv

LEMMA ApplyPlace ==
    ASSUME TypeOK, Ordered, KeptInv, OpenOutput \/ Apply \/ ApplyFails \/ Verify PROVE PlaceInv'
<1> USE DEF Goto, Stop, rest, locals, disks
<1>1. f \in Files /\ UNCHANGED <<kind, k, cache, cacheC, use, made>> /\ pc \in Output
  BY Current DEF OpenOutput, Apply, ApplyFails, Verify, Output
<1>2. Prompt /\ Typed(sys) BY TypeParts DEF KeptInv
<1>3. CASE pc' = "off" BY <1>3, Idle
<1>4. CASE OpenOutput /\ pc' # "off"
  <2>1. sys'.at = sys.at /\ sys'.from = sys.from /\ pc' = "apply" /\ retry' = retry
    BY <1>2, <1>4 DEF OpenOutput, ToSys, Typed, Disks
  <2> QED BY <1>1, <2>1, OutputPlace DEF Output
<1>5. CASE Apply
  <2>1. CASE IsPartition(f) /\ UNCHANGED <<sys, sysC, retry>> /\ pc' = "verify"
    BY <1>1, <2>1, OutputPlace DEF Output
  <2>2. CASE ToSys([sys EXCEPT !.out[f] = @ + 1]) /\ UNCHANGED <<pc, retry>> /\ pc = "apply"
    <3>1. sys'.at = sys.at /\ sys'.from = sys.from BY <1>2, <2>2 DEF ToSys, Typed, Disks
    <3> QED BY <1>1, <2>2, <3>1, OutputPlace
  <2>3. CASE sys.out[f] = TgtSize[f] /\ SyncSys(sys) /\ pc' = "verify" /\ UNCHANGED retry
    <3>1. sys' = sys /\ (sysC' = sys \/ (sysC' = sysC /\ dev.late))
      BY <1>2, <2>3, SysMedium
    <3>2. sysC' = sys BY <1>2, <2>3, CommittedWhole DEF SyncSys, TypeOK
    <3> QED BY <1>1, <2>3, <3>1, <3>2, OutputPlace DEF Output
  <2> QED BY <1>5, <2>1, <2>2, <2>3 DEF Apply
<1>6. CASE ApplyFails /\ pc' # "off"
  <2>1. ToSys([sys EXCEPT !.out[f] = -1]) /\ retry # 0 /\ retry' = 0 /\ pc' = "room"
    BY <1>6 DEF ApplyFails
  <2>2. sys'.at = sys.at /\ sys'.from = sys.from BY <1>2, <2>1 DEF ToSys, Typed, Disks
  <2> QED BY <1>1, <2>1, <2>2, OutputPlace DEF TypeOK
<1>7. CASE Verify /\ pc' # "off"
  <2>1. pc = "verify" /\ pc' = "install" /\ UNCHANGED <<sys, sysC, retry>> BY <1>7 DEF Verify
  <2>2. ~IsPartition(f) => sys'.out[f] = TgtSize[f] /\ sysC'.out[f] = TgtSize[f]
    BY <2>1 DEF KeptInv, Ready
  <2> QED BY <1>1, <2>1, <2>2, OutputPlace DEF Output
<1> QED BY <1>3, <1>4, <1>5, <1>6, <1>7 DEF Apply

\* The target is there, or a part of it.
LEMMA InstallPlace ==
    ASSUME TypeOK, KeptInv, Rename \/ WritePartition \/ WritePartitionEnd PROVE PlaceInv'
<1> USE DEF Goto, Stop, rest, locals
<1>1. /\ f \in Files /\ UNCHANGED <<kind, k, cache, cacheC, use, made>>
      /\ pc \in {"install", "installing"} /\ pc' \in {"installing", "drop", "off"}
  BY Current DEF Rename, WritePartition, WritePartitionEnd
<1>2. pc' = "installing" => WritePartition /\ pc = "install"
  BY <1>1 DEF Rename, WritePartition, WritePartitionEnd
<1>3. CASE pc' # "off"
  <2>1. /\ \A g \in Files : g # f => sys'.at[g] = sys.at[g]
        /\ sys'.at[f] = IF pc' = "drop" THEN "tgt" ELSE "torn"
    <3>1. CASE Rename
      <4>1. sys' = [sys EXCEPT !.at[f] = "tgt", !.out[f] = -1] /\ pc' = "drop"
        BY <1>3, <3>1 DEF Rename, ToSys
      <4> QED BY <1>1, <4>1 DEF TypeOK, Disks
    <3>2. CASE WritePartition BY <1>1, <3>2 DEF WritePartition, ToSys, TypeOK, Disks
    <3>3. CASE WritePartitionEnd
      BY <1>1, <1>3, <3>3 DEF WritePartitionEnd, ToSys, TypeOK, Disks
    <3> QED BY <3>1, <3>2, <3>3
  <2>2. sys.at[f] # "tgt" BY <1>1 DEF KeptInv, Progress, Ready, Working
  <2>3. \A i \in Indices : i < k => sys'.at[Script[i]] = "tgt"
    BY <1>1, <2>1, <2>2, NoFileTwice DEF KeptInv, Progress, Patching, Working
  <2>4. Progress' BY <1>1, <1>3, <2>1, <2>3, BehindCopy DEF KeptInv, Progress, Patching, Working
  <2>5. pc' = "installing" => Copied /\ IsPartition(f)
    BY <1>2 DEF KeptInv, Ready, Output, WritePartition
  <2>6. Ready' BY <1>1, <1>3, <2>1, <2>5, BehindCopy DEF Ready, Working, Output
  <2> QED BY <2>4, <2>6 DEF PlaceInv
<1> QED BY <1>3, Idle

LEMMA WriteBackPlace ==
    ASSUME TypeOK, Ordered, KeptInv, WriteBack PROVE PlaceInv'
<1>1. UNCHANGED <<kind, k, sys, cache, pc, use, made, retry>> /\ dev.late
  BY DEF WriteBack, locals
<1>2. \A g \in Files : ~IsPartition(g) BY <1>1 DEF Ordered
<1>3. Committed(sys) = sys BY <1>1, TypeParts, CommittedWhole
<1>4. (sysC' = sysC \/ sysC' = sys) /\ (cacheC' = cacheC \/ cacheC' = cache)
  BY <1>2, <1>3 DEF WriteBack
<1>5. Copied => Copied' BY <1>1, <1>4, SameFile DEF Copied
<1>6. Progress' BY <1>1, SameFile DEF KeptInv, Progress
<1>7. Ready' BY <1>1, <1>4, <1>5, SameFile DEF KeptInv, Ready
<1> QED BY <1>6, <1>7 DEF PlaceInv

LEMMA PlaceStep ==
    ASSUME TypeOK, Ordered, KeptInv, [Next]_vars PROVE PlaceInv'
<1>1. CASE Start \/ PowerCut BY <1>1, Idle DEF Start, PowerCut, Goto
<1>2. CASE Check
  <2>1. CASE pc' \in {"off", "check"} BY <2>1, Idle
  <2>2. CASE pc' = "space" /\ k' = 1
    BY <2>2 DEF PlaceInv, Progress, Ready, Patching, Working, Output
  <2> QED BY <1>2, <2>1, <2>2 DEF Check, Goto, Stop
<1>3. CASE Space \/ Load \/ Room BY <1>3, SpacePlace, LoadPlace, RoomPlace
<1>4. CASE Truncate \/ Save BY <1>4, SavePlace
<1>5. CASE UnlinkSource BY <1>5, UnlinkPlace
<1>6. CASE OpenOutput \/ Apply \/ ApplyFails \/ Verify BY <1>6, ApplyPlace
<1>7. CASE Rename \/ WritePartition \/ WritePartitionEnd BY <1>7, InstallPlace
<1>8. CASE Drop
  <2>1. pc = "drop" /\ sys.at[f] = "tgt" /\ sys' = sys /\ NextFile
    BY <1>8 DEF Drop, KeptInv, Progress
  <2> QED BY <2>1, NextPlace DEF KeptInv
<1>9. CASE WriteBack BY <1>9, WriteBackPlace
<1>10. CASE UNCHANGED vars
  <2> UNCHANGED <<kind, k, sys, sysC, cache, cacheC, pc, use, made, retry>>
    BY <1>10 DEF vars, disks, locals
  <2>1. Progress' BY SameFile DEF KeptInv, Progress
  <2>2. Ready' BY SameFile DEF KeptInv, Ready, Copied
  <2> QED BY <2>1, <2>2 DEF PlaceInv
<1> QED BY <1>1, <1>2, <1>3, <1>4, <1>5, <1>6, <1>7, <1>8, <1>9, <1>10 DEF Next, Run, Begin, AskAgain
-----------------------------------------------------------------------------
(* What the checks accepted.                                               *)

\* A file that still has to be patched has not been touched while the one
\* before it is worked on.
LEMMA Ahead ==
    TypeOK /\ KeptInv /\ pc \in Patching \ {"drop"} =>
        \A i \in Indices : k < i => HasSource(sys, Script[i]) /\ Accepted(Script[i])
<1> SUFFICES ASSUME TypeOK, KeptInv, pc \in Patching \ {"drop"},
                    NEW i \in Indices, k < i
             PROVE  HasSource(sys, Script[i]) /\ Accepted(Script[i])
  OBVIOUS
<1>1. sys.at[f] # "tgt" BY DEF KeptInv, Progress, Ready, Patching
<1>2. k \in Indices BY Current
<1>3. HasSource(sys, Script[i]) BY <1>1, <1>2 DEF KeptInv, InOrder, f
<1> QED BY <1>3 DEF HasSource, Accepted

LEMMA AcceptedSame ==
    ASSUME NEW g, UNCHANGED kind, cache'.temp = cache.temp, sys'.at[g] = sys.at[g], Accepted(g)
    PROVE  Accepted(g)'
BY DEF Accepted, InPlace, Copy

CheckSteps ==
    /\ pc' = "check" => ~checked' /\ \A i \in Indices : i < k' => Accepted(Script[i])'
    /\ pc' \in {"space", "load"} /\ checked' /\ ~spoiled' =>
          \A i \in Indices : k' <= i => Accepted(Script[i])'
    /\ pc' = "drop" /\ checked' /\ ~spoiled' =>
          \A i \in Indices : k' < i => Accepted(Script[i])'

LEMMA ChecksOfCheck ==
    ASSUME TypeOK, KeptInv, Checks, Start \/ Check PROVE CheckSteps
<1> USE DEF Goto, Stop, disks
<1>1. UNCHANGED <<kind, cache, sys>> BY DEF Start, Check
<1>2. CASE Start
  <2>1. pc' = "check" /\ ~checked' /\ k' = 1 BY <1>2 DEF Start
  <2>2. Len(Script) \in Nat BY ScriptAssumption
  <2> QED BY <2>1, <2>2 DEF CheckSteps, Indices
<1>3. CASE Check /\ pc' # "off"
  <2>1. pc = "check" /\ k \in Indices /\ Accepted(f)
    BY <1>3, Current DEF Check, Accepted, IsCopied
  <2>2. \A i \in Indices : i < k => Accepted(Script[i]) BY <2>1 DEF Checks
  <2>3. \A i \in Indices : i <= k => Accepted(Script[i])
    <3>1. \A i \in Indices : i <= k => i < k \/ i = k BY <2>1 DEF Indices
    <3> QED BY <2>1, <2>2, <3>1 DEF f
  <2>4. \A i \in Indices : i <= k => Accepted(Script[i])' BY <1>1, <2>3, AcceptedSame
  <2>5. CASE k < Len(Script)
    <3>1. k' = k + 1 /\ pc' = "check" /\ ~checked' BY <1>3, <2>1, <2>5 DEF Check, Checks
    <3>2. \A i \in Indices : i < k + 1 => i <= k BY <2>1 DEF Indices
    <3> QED BY <2>4, <3>1, <3>2 DEF CheckSteps
  <2>6. CASE ~(k < Len(Script))
    <3>1. \A i \in Indices : i <= k BY <2>1, <2>6, ScriptAssumption DEF Indices
    <3>2. pc' = "space" BY <1>3, <2>6 DEF Check
    <3> QED BY <2>4, <3>1, <3>2 DEF CheckSteps
  <2> QED BY <2>5, <2>6
<1>4. CASE pc' = "off" BY <1>4 DEF CheckSteps
<1> QED BY <1>2, <1>3, <1>4

LEMMA ChecksOfScript ==
    ASSUME TypeOK, KeptInv, Checks, Space \/ Load \/ Drop PROVE CheckSteps
<1> USE DEF Goto, Stop, disks
<1>1. UNCHANGED <<kind, sys, checked, spoiled>> /\ k \in Indices
  BY Current DEF Space, Load, Drop, rest, MakeRoom
<1>2. CASE Space
  <2>1. cache'.temp = cache.temp /\ k' = k /\ pc' \in {"load", "off"} /\ pc = "space"
    BY <1>2 DEF Space, MakeRoom, ToCache, TypeOK, Caches
  <2> QED BY <1>1, <2>1, AcceptedSame DEF CheckSteps, Checks
<1>3. CASE NextFile /\ pc' = "load" /\ (checked /\ ~spoiled =>
                \A i \in Indices : k < i => Accepted(Script[i])')
  <2>1. k' = k + 1 BY <1>3 DEF NextFile
  <2>2. \A i \in Indices : k + 1 <= i => k < i BY <1>1 DEF Indices
  <2> QED BY <1>1, <1>3, <2>1, <2>2 DEF CheckSteps
<1>4. CASE Load /\ pc' = "load"
  <2>1. NextFile /\ UNCHANGED cache /\ pc = "load" BY <1>4 DEF Load
  <2>2. \A i \in Indices : k < i => k <= i BY <1>1 DEF Indices
  <2>3. checked /\ ~spoiled => \A i \in Indices : k < i => Accepted(Script[i])
    BY <2>1, <2>2 DEF Checks
  <2> QED BY <1>1, <1>3, <1>4, <2>1, <2>3, AcceptedSame
<1>5. CASE Drop /\ pc' = "load"
  <2>1. NextFile /\ pc = "drop" BY <1>5 DEF Drop
  <2>2. checked /\ ~spoiled => \A i \in Indices : k < i => Accepted(Script[i])
    BY <2>1 DEF Checks, Patching
  <2>3. ASSUME NEW i \in Indices, k < i, Accepted(Script[i]) PROVE Accepted(Script[i])'
    <3>1. CASE ~made BY <1>1, <1>5, <2>3, <3>1, AcceptedSame DEF Drop
    <3>2. CASE made
      <4>1. cache.temp.file = f BY <2>1, <3>2 DEF KeptInv, Progress, Patching
      <4>2. Script[i] # f /\ Script[i] \in Files BY <1>1, <2>3, NoFileTwice DEF f, Indices
      <4>3. cache.temp # Copy(Script[i]) BY <4>1, <4>2, Copies
      <4> QED BY <1>1, <2>3, <4>3 DEF Accepted, InPlace
    <3> QED BY <3>1, <3>2
  <2> QED BY <1>3, <1>5, <2>1, <2>2, <2>3
<1>6. CASE pc' \in {"off", "room"} BY <1>6 DEF CheckSteps
<1> QED BY <1>2, <1>4, <1>5, <1>6 DEF Load, Drop, NextFile

LEMMA ChecksOfPatch ==
    ASSUME TypeOK, Ordered, KeptInv, Checks, [Next]_vars,
           ~(Start \/ Check \/ Space \/ Load \/ Drop)
    PROVE  CheckSteps
<1> USE DEF Goto, Stop, disks, locals, rest
<1>1. CASE pc' \notin {"check", "space", "load", "drop"} BY <1>1 DEF CheckSteps
<1>2. CASE UNCHANGED <<kind, cache, sys, pc, k, checked, spoiled>>
  BY <1>2, AcceptedSame DEF CheckSteps, Checks, Patching
<1>3. CASE WriteBack \/ UNCHANGED vars BY <1>2, <1>3 DEF WriteBack, vars
<1>4. CASE (Rename \/ WritePartitionEnd) /\ pc' = "drop"
  <2>1. /\ UNCHANGED <<kind, cache, k>> /\ pc \in Patching \ {"drop"} /\ f \in Files
        /\ k \in Indices
    BY <1>4, Current DEF Rename, WritePartitionEnd, Patching, Working
  <2>2. \A g \in Files : g # f => sys'.at[g] = sys.at[g]
    <3>1. CASE Rename
      <4>1. sys' = [sys EXCEPT !.at[f] = "tgt", !.out[f] = -1] BY <1>4, <3>1 DEF Rename, ToSys
      <4> QED BY <4>1 DEF TypeOK, Disks
    <3>2. CASE WritePartitionEnd
      BY <1>4, <3>2 DEF WritePartitionEnd, ToSys, TypeOK, Disks
    <3> QED BY <1>4, <3>1, <3>2
  <2>3. ASSUME NEW i \in Indices, k < i PROVE Accepted(Script[i])'
    <3>1. Script[i] # f /\ Script[i] \in Files BY <2>1, <2>3, NoFileTwice DEF f, Indices
    <3> QED BY <2>1, <2>2, <2>3, <3>1, Ahead, AcceptedSame
  <2> QED BY <1>4, <2>1, <2>3 DEF CheckSteps
<1>5. CASE Rename \/ WritePartitionEnd BY <1>1, <1>4, <1>5 DEF Rename, WritePartitionEnd
<1>6. CASE Room \/ Truncate \/ Save \/ UnlinkSource
  <2>1. pc' \in {"open", "save", "off", "saving", "unlink"}
    BY <1>6 DEF Room, Truncate, Save, UnlinkSource, MakeRoom
  <2> QED BY <1>1, <2>1
<1>7. CASE OpenOutput \/ Apply \/ ApplyFails \/ Verify \/ WritePartition \/ PowerCut
  <2>1. pc' \in {"apply", "off", "verify", "room", "install", "installing"}
    BY <1>7 DEF OpenOutput, Apply, ApplyFails, Verify, WritePartition, PowerCut
  <2> QED BY <1>1, <2>1
<1> QED BY <1>3, <1>5, <1>6, <1>7 DEF Next, Run, Begin, AskAgain

\* A run that goes on has no result yet.
Running == pc # "off" => result = "none"

LEMMA RunningStep ==
    ASSUME Running, [Next]_vars PROVE Running'
<1> USE DEF Running, Goto, Stop
<1>1. CASE Start \/ Check \/ Space \/ Load \/ Room
  BY <1>1 DEF Start, Check, Space, Load, Room, MakeRoom, NextFile
<1>2. CASE Truncate \/ Save \/ UnlinkSource \/ OpenOutput \/ Apply \/ ApplyFails
  BY <1>2 DEF Truncate, Save, UnlinkSource, OpenOutput, Apply, ApplyFails
<1>3. CASE Verify \/ Rename \/ WritePartition \/ WritePartitionEnd \/ Drop
  BY <1>3 DEF Verify, Rename, WritePartition, WritePartitionEnd, Drop, NextFile
<1>4. CASE WriteBack \/ PowerCut \/ UNCHANGED vars BY <1>4 DEF WriteBack, PowerCut, vars
<1> QED BY <1>1, <1>2, <1>3, <1>4 DEF Next, Run, Begin, AskAgain

LEMMA RefusedStep ==
    ASSUME TypeOK, Ordered, KeptInv, Checks, CheckedIsPatched, [Next]_vars,
           checked', result' = "no source"
    PROVE  spoiled' \/ ~InPlace(f)'
<1> USE DEF Goto, Stop, rest, locals
<1>0. Running BY DEF Running, Checks
<1>1. CASE Start \/ Check
  <2>1. pc = "check" /\ UNCHANGED checked BY <1>0, <1>1 DEF Start, Check, Running
  <2> QED BY <2>1 DEF Checks
<1>2. CASE Load
  <2>1. /\ ~IsTarget(f) /\ ~HasSource(sys, f) /\ ~IsCopied(f) /\ pc = "load"
        /\ UNCHANGED <<kind, k, checked, spoiled>>
    BY <1>0, <1>2 DEF Load, Running, NextFile
  <2>2. CASE ~spoiled
    <3>1. Accepted(f) BY <2>1, <2>2, Current DEF Checks, f
    <3>2. ~InPlace(f) BY <2>1, <3>1 DEF Accepted, IsTarget, HasSource, IsCopied
    <3> QED BY <2>1, <3>2 DEF InPlace, f
  <2> QED BY <2>1, <2>2
<1>3. CASE WriteBack \/ UNCHANGED vars
  <2> UNCHANGED <<kind, dev, k, checked, result, spoiled>> BY <1>3 DEF WriteBack, vars
  <2> QED BY DEF CheckedIsPatched, InPlace, f
<1>4. CASE Space \/ Room \/ Truncate \/ Save \/ UnlinkSource
  BY <1>0, <1>4 DEF Space, Room, MakeRoom, Truncate, Save, UnlinkSource, Running
<1>5. CASE OpenOutput \/ Apply \/ ApplyFails \/ Verify
  BY <1>0, <1>5 DEF OpenOutput, Apply, ApplyFails, Verify, Running
<1>6. CASE Rename \/ WritePartition \/ WritePartitionEnd \/ Drop \/ PowerCut
  BY <1>0, <1>6 DEF Rename, WritePartition, WritePartitionEnd, Drop, PowerCut, NextFile, Running
<1> QED BY <1>1, <1>2, <1>3, <1>4, <1>5, <1>6 DEF Next, Run, Begin, AskAgain
-----------------------------------------------------------------------------
(* The invariant, and what follows from it.                                *)

LEMMA InitInv == Init => IInv
<1> SUFFICES ASSUME Init PROVE IInv OBVIOUS
<1>1. TypeOK BY InitType
<1>2. \A g \in Files : HasSource(sys, g) /\ sys.at[g] # "tgt" /\ (kind[g] = "move" => sys.from[g])
  BY DEF Init, HasSource, InPlace
<1>3. sysC = sys /\ cacheC = cache /\ pc = "off" /\ result = "none" BY DEF Init
<1>4. Safe /\ Prompt /\ Older /\ OutputFirst /\ CopyFirst
  BY <1>2, <1>3 DEF Safe, Whole, Prompt, Older, OutputFirst, CopyFirst
<1>5. InOrder BY <1>2, <1>3, NoFileTwice DEF InOrder
<1>6. Progress /\ Ready /\ Checks
  BY <1>3 DEF Progress, Ready, Checks, Patching, Working, Output
<1>7. CheckedIsPatched BY <1>3 DEF CheckedIsPatched
<1> QED BY <1>1, <1>4, <1>5, <1>6, <1>7 DEF IInv, KeptInv

LEMMA StepInv == IInv /\ [Next]_vars => IInv'
<1> SUFFICES ASSUME IInv, [Next]_vars PROVE IInv' OBVIOUS
<1>1. TypeOK /\ TypeOK' BY TypeStep DEF IInv
<1>2. UNCHANGED <<kind, dev>>
  BY DEF Next, Run, Begin, AskAgain, vars, rest, Start, Check, Space, Load, Room, Truncate,
         Save, UnlinkSource, OpenOutput, Apply, ApplyFails, Verify, Rename, WritePartition, WritePartitionEnd,
         Drop, WriteBack, PowerCut
<1>3. Ordered' <=> Ordered BY <1>2 DEF Ordered, IsPartition
<1>4. SUFFICES ASSUME Ordered PROVE (KeptInv /\ Checks /\ CheckedIsPatched)'
  BY <1>1, <1>3 DEF IInv
<1>5. KeptInv /\ Checks /\ CheckedIsPatched BY <1>4 DEF IInv
<1>6. KeptInv' BY <1>1, <1>4, <1>5, DiskStep, PlaceStep DEF KeptInv, DiskInv, PlaceInv
<1>7. CheckSteps BY <1>1, <1>4, <1>5, ChecksOfCheck, ChecksOfScript, ChecksOfPatch
<1>8. (pc \in Patching \ {"drop"})' => \A i \in Indices : k' < i => Accepted(Script[i])'
  <2>1. (TypeOK /\ KeptInv /\ pc \in Patching \ {"drop"} =>
          \A i \in Indices : k < i => HasSource(sys, Script[i]) /\ Accepted(Script[i]))'
    BY Ahead, PTL
  <2> QED BY <1>1, <1>6, <2>1
<1>9. Running' BY <1>5, RunningStep DEF Running, Checks
<1>10. Checks' BY <1>7, <1>8, <1>9 DEF CheckSteps, Checks, Running, Patching
<1>11. CheckedIsPatched' BY <1>1, <1>4, <1>5, RefusedStep DEF CheckedIsPatched
<1> QED BY <1>6, <1>10, <1>11

THEOREM Inductive == Spec => []IInv
<1>1. Init => IInv BY InitInv
<1>2. IInv /\ [Next]_vars => IInv' BY StepInv
<1> QED BY <1>1, <1>2, PTL DEF Spec

\* "The original file is not touched until we have the desired replacement for
\* it" (applypatch.c:566): for every script, all sizes and every sequence of
\* cuts and faults, the medium holds one whole form of every file.
THEOREM NothingIsLost == Spec => []NothingLost
<1>1. IInv => NothingLost
  BY DEF IInv, KeptInv, Safe, Whole, NothingLost
<1> QED BY <1>1, Inductive, PTL

\* What applypatch_check accepts (applypatch.c:471) applypatch does not refuse
\* for want of a source, for every script and every fault.
THEOREM CheckedCanBePatched == Spec => []CheckedIsPatched
<1>1. IInv => CheckedIsPatched BY DEF IInv, CheckedIsPatched
<1> QED BY <1>1, Inductive, PTL
-----------------------------------------------------------------------------
(* A target that is there stays there: for partitions that are written back *)
(* late too, so that none of the invariant above is at hand.                *)

Untouched ==
    /\ \A g \in Files : sysC.at[g] = "tgt" => sys.at[g] = "tgt"
    /\ pc \in Working \cup {"installing"} => sys.at[f] # "tgt"

\* What a step of the script, or a write back, makes of the volume.
SysFollows ==
    /\ \A g \in Files : sys.at[g] = "tgt" => sys'.at[g] = "tgt"
    /\ \A g \in Files : sysC'.at[g] \in {sysC.at[g], sys'.at[g]}

LEMMA WritesFollow ==
    ASSUME TypeOK, NEW s, Typed(s), ToSys(s) \/ SyncSys(s),
           \A g \in Files : sys.at[g] = "tgt" => s.at[g] = "tgt"
    PROVE  SysFollows
<1>1. \A g \in Files : Committed(s).at[g] \in {sysC.at[g], s.at[g]}
  BY DEF Committed, Typed, Disks
<1> QED BY <1>1 DEF SysFollows, ToSys, SyncSys

LEMMA StepFollows ==
    ASSUME TypeOK, Untouched, Run \/ AskAgain \/ WriteBack \/ UNCHANGED vars
    PROVE  SysFollows
<1> USE DEF rest, locals, disks
<1>0. f \in Files /\ Typed(sys) BY Current, TypeParts
<1>1. CASE UNCHANGED <<sys, sysC>> BY <1>1 DEF SysFollows
<1>2. CASE Start \/ Check \/ Space \/ Load \/ Room \/ UNCHANGED vars
  BY <1>1, <1>2 DEF Start, Check, Space, Load, Room, MakeRoom, vars
<1>3. CASE Truncate \/ Save \/ Verify \/ Drop
  BY <1>1, <1>3 DEF Truncate, Save, SyncCache, Verify, Drop
<1>4. \A n : \A g \in Files : [sys EXCEPT !.out[f] = n].at[g] = sys.at[g]
  BY <1>0 DEF Typed, Disks
<1>5. CASE OpenOutput BY <1>0, <1>1, <1>4, <1>5, Written, WritesFollow DEF OpenOutput
<1>6. CASE Apply
  <2>1. CASE ToSys([sys EXCEPT !.out[f] = @ + 1]) /\ sys.out[f] < TgtSize[f]
    <3>1. \A g \in Files : [sys EXCEPT !.out[f] = @ + 1].at[g] = sys.at[g]
      BY <1>0 DEF Typed, Disks
    <3> QED BY <2>1, <3>1, Written, WritesFollow
  <2>2. CASE SyncSys(sys) BY <1>0, <2>2, WritesFollow
  <2> QED BY <1>1, <1>6, <2>1, <2>2 DEF Apply
<1>7. CASE ApplyFails
  <2>1. CASE SyncSys(sys) BY <1>0, <2>1, WritesFollow
  <2>2. CASE ToSys([sys EXCEPT !.out[f] = -1])
    <3> DEFINE s == [sys EXCEPT !.out[f] = -1]
    <3>1. Typed(s) /\ ToSys(s) BY <2>2, Written
    <3>2. s.at = sys.at BY <1>0 DEF Typed, Disks
    <3> HIDE DEF s
    <3> QED BY <3>1, <3>2, WritesFollow
  <2> QED BY <1>7, <2>1, <2>2 DEF ApplyFails
<1>8. CASE UnlinkSource
  <2>1. sys.at[f] # "tgt" BY <1>8 DEF UnlinkSource, Untouched, Working
  <2> DEFINE s == IF InPlace(f) THEN [sys EXCEPT !.at[f] = "none"]
                                ELSE [sys EXCEPT !.from[f] = FALSE]
  <2>2. Typed(s) /\ ToSys(s) BY <1>8, Written DEF UnlinkSource
  <2>3. \A g \in Files : sys.at[g] = "tgt" => s.at[g] = "tgt" BY <1>0, <2>1 DEF Typed, Disks
  <2> HIDE DEF s
  <2> QED BY <2>2, <2>3, WritesFollow
<1>9. CASE Rename
  <2> DEFINE s == [sys EXCEPT !.at[f] = "tgt", !.out[f] = -1]
  <2>1. Typed(s) BY Written
  <2>2. \A g \in Files : sys.at[g] = "tgt" => s.at[g] = "tgt" BY <1>0 DEF Typed, Disks
  <2>3. ToSys(s) \/ UNCHANGED <<sys, sysC>> BY <1>9 DEF Rename
  <2> HIDE DEF s
  <2> QED BY <1>1, <2>1, <2>2, <2>3, WritesFollow
<1>10. CASE WritePartition \/ WritePartitionEnd
  <2>1. sys.at[f] # "tgt"
    BY <1>10 DEF WritePartition, WritePartitionEnd, Untouched, Working
  <2>2. \A v : \A g \in Files : sys.at[g] = "tgt" => [sys EXCEPT !.at[f] = v].at[g] = "tgt"
    BY <1>0, <2>1 DEF Typed, Disks
  <2> QED BY <1>1, <1>10, <2>2, Written, WritesFollow DEF WritePartition, WritePartitionEnd
<1>11. CASE WriteBack
  <2>1. \A g \in Files : Committed(sys).at[g] \in {sysC.at[g], sys.at[g]}
    BY <1>0 DEF Committed, Typed, Disks
  <2>2. \A g, h \in Files : [sysC EXCEPT !.at[g] = sys.at[g]].at[h] \in {sysC.at[h], sys.at[h]}
    BY DEF TypeOK, Disks
  <2> QED BY <1>11, <2>1, <2>2 DEF WriteBack, SysFollows
<1> QED BY <1>2, <1>3, <1>5, <1>6, <1>7, <1>8, <1>9, <1>10, <1>11 DEF Run, Begin, AskAgain

LEMMA TargetsStay ==
    ASSUME TypeOK, Untouched, [Next]_vars
    PROVE  /\ \A g \in Files : sysC.at[g] = "tgt" => sysC'.at[g] = "tgt"
           /\ \A g \in Files : sysC'.at[g] = "tgt" => sys'.at[g] = "tgt"
<1>1. CASE Run \/ AskAgain \/ WriteBack \/ UNCHANGED vars
  BY <1>1, StepFollows DEF SysFollows, Untouched
<1>2. CASE PowerCut BY <1>2 DEF PowerCut
<1> QED BY <1>1, <1>2 DEF Next

LEMMA UntouchedStep == TypeOK /\ Untouched /\ [Next]_vars => Untouched'
<1> SUFFICES ASSUME TypeOK, Untouched, [Next]_vars,
                    pc' \in Working \cup {"installing"}
             PROVE  (sys.at[f] # "tgt")'
  BY TargetsStay DEF Untouched
<1> USE DEF Goto, Stop, rest, locals, disks, Working
<1>0. f \in Files /\ Typed(sys) BY Current, TypeParts
<1>1. ASSUME UNCHANGED <<k, sys>>, pc \in Working \cup {"installing"} \/ ~IsTarget(f)
      PROVE  (sys.at[f] # "tgt")'
  BY <1>1 DEF Untouched, IsTarget, f
<1>2. CASE Start \/ Check \/ Space \/ Drop \/ PowerCut
  BY <1>2 DEF Start, Check, Space, MakeRoom, Drop, NextFile, PowerCut
<1>3. CASE Load BY <1>1, <1>3 DEF Load, NextFile
<1>4. CASE Room \/ Truncate \/ Save \/ Verify
  BY <1>1, <1>4 DEF Room, MakeRoom, Truncate, Save, SyncCache, Verify
<1>5. CASE WriteBack \/ UNCHANGED vars BY <1>1, <1>5 DEF WriteBack, vars
<1>6. ASSUME UNCHANGED k, pc \in Working, NEW s, sys' = s, s.at[f] = sys.at[f]
      PROVE  (sys.at[f] # "tgt")'
  BY <1>6 DEF Untouched, f
<1>7. CASE OpenOutput \/ Apply \/ ApplyFails
  <2>1. \A n : [sys EXCEPT !.out[f] = n].at[f] = sys.at[f] BY <1>0 DEF Typed, Disks
  <2>2. [sys EXCEPT !.out[f] = @ + 1].at[f] = sys.at[f] BY <1>0 DEF Typed, Disks
  <2>3. UNCHANGED k /\ pc \in Working BY <1>7 DEF OpenOutput, Apply, ApplyFails
  <2>4. \/ sys' = sys \/ sys' = [sys EXCEPT !.out[f] = @ + 1]
        \/ \E n : sys' = [sys EXCEPT !.out[f] = n]
    BY <1>7 DEF OpenOutput, Apply, ApplyFails, ToSys, SyncSys
  <2> QED BY <1>6, <2>1, <2>2, <2>3, <2>4
<1>8. CASE UnlinkSource
  <2>1. UNCHANGED k /\ pc = "unlink" BY <1>8 DEF UnlinkSource
  <2>2. sys'.at[f] \in {"none", sys.at[f]}
    BY <1>0, <1>8 DEF UnlinkSource, ToSys, Typed, Disks
  <2> QED BY <2>1, <2>2 DEF Untouched, f
<1>9. CASE WritePartition
  <2>1. UNCHANGED k /\ sys'.at[f] = "torn"
    BY <1>0, <1>9 DEF WritePartition, ToSys, Typed, Disks
  <2> QED BY <2>1 DEF f
<1>10. CASE Rename \/ WritePartitionEnd BY <1>10 DEF Rename, WritePartitionEnd
<1> QED BY <1>2, <1>3, <1>4, <1>5, <1>7, <1>8, <1>9, <1>10 DEF Next, Run, Begin, AskAgain

\* "It's okay to run this program multiple times" (applypatch.c:567): for every
\* script, every fault and every write back, no step takes a target that has
\* reached the medium.
THEOREM RunsAgain == Spec => Idempotent
<1>1. Init => Untouched
  BY DEF Init, Untouched, Working
<1>2. Spec => [](TypeOK /\ Untouched)
  BY <1>1, InitType, TypeStep, UntouchedStep, PTL DEF Spec
<1>3. TypeOK /\ Untouched /\ [Next]_vars =>
         [\A g \in Files : sysC.at[g] = "tgt" => sysC'.at[g] = "tgt"]_vars
  BY TargetsStay
<1> QED BY <1>2, <1>3, PTL DEF Spec, Idempotent
=============================================================================
