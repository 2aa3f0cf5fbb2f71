------------------------- MODULE UpdateEngineProofs -------------------------
(***************************************************************************)
(* Theorems about UpdateEngine, for every set of command lines, releases   *)
(* and faults, every build and every bound.                                *)
(***************************************************************************)
EXTENDS UpdateEngine, TLAPS

-----------------------------------------------------------------------------
(* Lemmas about the A/B data.                                              *)

LEMMA FactoryABType == FactoryAB \in AvbABData
BY MaxPriorityAssumption, MaxTriesAssumption DEF FactoryAB, AvbABData, SlotData, Slot

\* The boot loader only uses up a try that is there.
LEMMA TriedType ==
    ASSUME NEW d \in AvbABData, NEW s \in Slot, IsChosen(d, s)
    PROVE  Tried(d, s) \in AvbABData
<1>1. d.slots \in [Slot -> SlotData] /\ d.slots[s] \in SlotData
  BY DEF AvbABData
<1>2. d.slots[s].ok = TRUE \/ d.slots[s].tries > 0
  BY <1>1 DEF IsChosen, Bootable, SlotData
<1>3. [d.slots[s] EXCEPT !.tries = IF d.slots[s].ok THEN @ ELSE @ - 1] \in SlotData
  BY <1>1, <1>2, MaxTriesAssumption DEF SlotData
<1>4. [d.slots EXCEPT ![s] = [d.slots[s] EXCEPT !.tries = IF d.slots[s].ok THEN @ ELSE @ - 1]]
        \in [Slot -> SlotData]
  BY <1>1, <1>3
<1> QED
  BY <1>4 DEF Tried, AvbABData

\* One field of a slot set to a value of its range.
LEMMA SetPriority ==
    ASSUME NEW d \in SlotData, NEW x \in 0..MaxPriority
    PROVE  [d EXCEPT !.priority = x] \in SlotData
BY DEF SlotData

LEMMA SetTries ==
    ASSUME NEW d \in SlotData, NEW x \in 0..MaxTries
    PROVE  [d EXCEPT !.tries = x] \in SlotData
BY DEF SlotData

LEMMA SetOk ==
    ASSUME NEW d \in SlotData, NEW x \in BOOLEAN
    PROVE  [d EXCEPT !.ok = x] \in SlotData
BY Zenon DEF SlotData

LEMMA Ranges ==
    /\ MaxPriority \in 0..MaxPriority /\ MaxPriority - 1 \in 0..MaxPriority
    /\ MaxTries \in 0..MaxTries /\ 0 \in 0..MaxTries
BY MaxPriorityAssumption, MaxTriesAssumption

\* A slot that has booted keeps within its ranges, for every build.
LEMMA SucceededSlotType ==
    ASSUME NEW d \in SlotData, NEW m
    PROVE  SucceededSlot(d, m) \in SlotData
<1> DEFINE booted == IF "SUCCESSFUL_BOOT" \in m
                     THEN [d EXCEPT !.tries = 0, !.ok = TRUE] ELSE d
<1>1. [d EXCEPT !.tries = 0, !.ok = TRUE] \in SlotData
  <2>1. [d EXCEPT !.tries = 0] \in SlotData
    BY SetTries, Ranges
  <2>2. [[d EXCEPT !.tries = 0] EXCEPT !.ok = TRUE] \in SlotData
    BY <2>1, SetOk, Zenon
  <2> QED
    BY <2>2
<1>2. booted \in SlotData
  BY <1>1
<1>3. [booted EXCEPT !.tries = MaxTries] \in SlotData
  <2> HIDE DEF booted
  <2> QED
    BY <1>2, SetTries, Ranges
<1>4. SucceededSlot(d, m) = IF "RETRY_BOOT" \in m THEN [booted EXCEPT !.tries = MaxTries]
                                                 ELSE booted
  BY Zenon DEF SucceededSlot
<1> HIDE DEF booted
<1> QED
  BY <1>2, <1>3, <1>4

\* setSlotSucceed writes A/B data.
LEMMA SucceededType ==
    ASSUME NEW d \in AvbABData, NEW s \in Slot, NEW m
    PROVE  Succeeded(d, s, m) \in AvbABData
<1>1. d.slots \in [Slot -> SlotData] /\ d.slots[s] \in SlotData
  BY DEF AvbABData
<1>2. SucceededSlot(d.slots[s], m) \in SlotData
  BY <1>1, SucceededSlotType
<1> QED
  BY <1>1, <1>2 DEF Succeeded, AvbABData

\* So do the two slots of an activation.
LEMMA DemotedType ==
    ASSUME NEW d \in SlotData
    PROVE  Demoted(d) \in SlotData
BY SetPriority, Ranges DEF Demoted

LEMMA ActivatedSlotType ==
    ASSUME NEW d \in SlotData, NEW m
    PROVE  ActivatedSlot(d, m) \in SlotData
<1> DEFINE ok == IF "SUCCESSFUL_BOOT" \in m THEN FALSE ELSE d.ok
<1>1. ok \in BOOLEAN
  BY DEF SlotData
<1>2. ActivatedSlot(d, m) = [d EXCEPT !.priority = MaxPriority, !.tries = MaxTries, !.ok = ok]
  BY DEF ActivatedSlot
<1> HIDE DEF ok
<1>3. [d EXCEPT !.priority = MaxPriority, !.tries = MaxTries, !.ok = ok] \in SlotData
  <2>1. [d EXCEPT !.priority = MaxPriority] \in SlotData
    BY SetPriority, Ranges
  <2>2. [[d EXCEPT !.priority = MaxPriority] EXCEPT !.tries = MaxTries] \in SlotData
    BY <2>1, SetTries, Ranges, Zenon
  <2>3. [[[d EXCEPT !.priority = MaxPriority] EXCEPT !.tries = MaxTries] EXCEPT !.ok = ok]
          \in SlotData
    BY <1>1, <2>2, SetOk, Zenon
  <2> QED
    BY <2>3
<1> QED
  BY <1>2, <1>3

\* setSlotActivity writes A/B data.
LEMMA ActivatedType ==
    ASSUME NEW d \in AvbABData, NEW s \in Slot, NEW m
    PROVE  Activated(d, s, m) \in AvbABData
<1>1. d.slots \in [Slot -> SlotData]
  BY DEF AvbABData
<1>2. [x \in Slot |-> IF x = s THEN Demoted(d.slots[x]) ELSE ActivatedSlot(d.slots[x], m)]
        \in [Slot -> SlotData]
  BY <1>1, DemotedType, ActivatedSlotType
<1> QED
  BY <1>2 DEF Activated, AvbABData

-----------------------------------------------------------------------------
(* Types.                                                                  *)

\* Where the program writes there is a partition.
LEMMA DestPlace ==
    ASSUME TypeOK, NEW n \in Names
    PROVE  <<n, Dest(n)>> \in Places /\ Dest(n) \in Where
BY DEF Dest, Places, Where, TypeOK, Slot

LEMMA PartPlaces == <<"recovery", Single>> \in Places
<1>1. Table[6] = "recovery" /\ 6 \in DOMAIN Table
  BY DEF Table
<1> QED
  BY <1>1 DEF Places, Names, ToSet

LEMMA InitType == Init => TypeOK
<1> SUFFICES ASSUME Init PROVE TypeOK
  OBVIOUS
<1>1. FactoryAB \in AvbABData /\ ZeroBcb \in BcbType /\ NoRequest \in RequestType
  BY FactoryABType DEF ZeroBcb, BcbType, NoRequest, RequestType
<1>2. slotted \in BOOLEAN /\ macros \subseteq Macros
  BY DevicesAssumption, BuildsAssumption DEF Init
<1>3. part \in [Places -> 0..Torn]
  BY BoundsAssumption DEF Init, Torn
<1> QED
  BY <1>1, <1>2, <1>3, BoundsAssumption
  DEF Init, TypeOK, Slot, Pcs, Where, Single, Torn

\* A command line that is accepted, and what the BCB makes of one.
LEMMA BeginType ==
    ASSUME TypeOK, NEW r \in RequestType, Begin(r)
    PROVE  /\ req' \in RequestType /\ src' \in {"null", "http", "path", "other"}
           /\ todo' \subseteq Names /\ pc' \in Pcs /\ status' \in {"error", "finished"}
           /\ buf' = buf
<1>1. r.mode \in {"update", "misc", "other"} /\ r.mask \subseteq Names
      /\ r.url \in {"null", "http", "path", "other"}
  BY DEF RequestType
<1>2. CASE r.mode = "other"
  BY <1>1, <1>2 DEF Begin, Pcs
<1>3. CASE r.mode = "update"
  BY <1>1, <1>3 DEF Begin, Pcs, Exit
<1>4. CASE r.mode = "misc"
  BY <1>1, <1>4 DEF Begin, Pcs, Exit
<1> QED
  BY <1>1, <1>2, <1>3, <1>4

LEMMA ChildRequest ==
    ASSUME TypeOK, NEW items \in SUBSET Names
    PROVE  [NoRequest EXCEPT !.mask = bcbC.need, !.items = items, !.url = bcbC.url]
             \in RequestType
BY DEF TypeOK, BcbType, NoRequest, RequestType

\* The constants' part of the types, used by every step.
LEMMA TypeStep == TypeOK /\ [Next]_vars => TypeOK'
<1> SUFFICES ASSUME TypeOK, [Next]_vars PROVE TypeOK'
  OBVIOUS
<1> USE DEF kind, misc, engine, now, bounds
<1>1. ASSUME NEW s \in Slot, BootSlot(s) PROVE TypeOK'
  <2>1. Tried(abC, s) \in AvbABData
    BY <1>1, TriedType DEF TypeOK, BootSlot
  <2> QED
    BY <1>1, <2>1 DEF TypeOK, BootSlot, Where
<1>2. ASSUME BootSingle PROVE TypeOK'
  BY <1>2 DEF TypeOK, BootSingle
<1>3. ASSUME NowRead PROVE TypeOK'
  BY <1>3, BoundsAssumption DEF TypeOK, NowRead, SlotFails
<1>4. ASSUME NowWrite PROVE TypeOK'
  <2>1. Succeeded(nowBuf, running, macros) \in AvbABData
    BY SucceededType DEF TypeOK
  <2> QED
    BY <1>4, <2>1, BoundsAssumption DEF TypeOK, NowWrite, SlotFails
<1>5. ASSUME NEW r \in Requests, Start(r) PROVE TypeOK'
  <2>1. Begin(r) /\ r \in RequestType
    BY <1>5, RequestsAssumption DEF Start
  <2>2. runs' \in 0..MaxRuns
    BY <1>5, BoundsAssumption DEF Start, TypeOK
  <2> QED
    BY <1>5, <2>1, <2>2, BeginType DEF TypeOK, Start
<1>6. ASSUME NEW r \in Requests, StartChild(r.items) PROVE TypeOK'
  <2>1. r.items \in SUBSET Names
    BY RequestsAssumption DEF RequestType
  <2>2. CASE bcbC.url = "http"
    BY <1>6, <2>2 DEF TypeOK, StartChild, Exit, Pcs
  <2>3. CASE bcbC.url # "http"
    <3>1. Begin([NoRequest EXCEPT !.mask = bcbC.need, !.items = r.items, !.url = bcbC.url])
      BY <1>6, <2>3, Zenon DEF StartChild
    <3>2. UNCHANGED <<kind, device, running, part, misc, files, now, bounds, awaited>>
      BY <1>6, Zenon DEF StartChild
    <3> QED
      BY <2>1, <3>1, <3>2, ChildRequest, BeginType DEF TypeOK
  <2> QED
    BY <2>2, <2>3
<1>7. ASSUME Download PROVE TypeOK'
  <2>1. SaveTo \in {"default", "path"}
    BY DEF TypeOK, RequestType, SaveTo
  <2> QED
    BY <1>7, <2>1 DEF TypeOK, Download, Failed, Exit, Pcs
<1>8. ASSUME Analyse PROVE TypeOK'
  BY <1>8 DEF TypeOK, Analyse, Failed, Exit, Pcs
<1>9. ASSUME Skip PROVE TypeOK'
  BY <1>9 DEF TypeOK, Skip
<1>10. Torn \in 0..Torn /\ runs \in 0..Torn
  BY BoundsAssumption DEF Torn, TypeOK
<1>11. ASSUME NEW n \in Names, WriteBegin(n) PROVE TypeOK'
  BY <1>10, <1>11 DEF TypeOK, WriteBegin, Failed, Exit, Pcs
<1>12. ASSUME NEW n \in Names, WriteEnd(n) PROVE TypeOK'
  BY <1>10, <1>12 DEF TypeOK, WriteEnd, Failed, Exit, Pcs
<1>13. ASSUME NEW n \in Names, Check(n) PROVE TypeOK'
  BY <1>10, <1>13 DEF TypeOK, Check, Failed, Exit, Pcs
<1>14. ASSUME Finish PROVE TypeOK'
  BY <1>14 DEF TypeOK, Finish, AfterCallback, Exit, Pcs
<1>15. ASSUME ActivityRead PROVE TypeOK'
  BY <1>15, BoundsAssumption DEF TypeOK, ActivityRead, SlotFails, AfterCallback, Exit, Pcs
<1>16. ASSUME ActivityWrite PROVE TypeOK'
  <2>1. Activated(buf, running, macros) \in AvbABData
    BY ActivatedType DEF TypeOK
  <2>2. 1 - running \in Where
    BY DEF TypeOK, Slot, Where
  <2> QED
    BY <1>16, <2>1, <2>2, BoundsAssumption
    DEF TypeOK, ActivityWrite, SlotFails, AfterCallback, Exit, Pcs
<1>17. ASSUME MiscBcb PROVE TypeOK'
  <2>1. /\ InRecovery(req.mask) \subseteq Names
        /\ (IF req.save = "default" THEN req.url ELSE req.save)
             \in {"null", "http", "path", "other"}
        \/ req.save = "null"
    BY DEF TypeOK, RequestType, InRecovery
  <2>2. bcbC' \in BcbType
    <3>1. CASE UNCHANGED bcbC
      BY <3>1 DEF TypeOK
    <3>2. CASE /\ req.save # "null"
               /\ bcbC' = [armed |-> TRUE, need |-> InRecovery(req.mask),
                           url |-> IF req.save = "default" THEN req.url ELSE req.save]
      BY <2>1, <3>2 DEF BcbType
    <3> QED
      BY <1>17, <3>1, <3>2 DEF MiscBcb
  <2> QED
    BY <1>17, <2>2 DEF TypeOK, MiscBcb, Exit, Pcs
<1>18. ASSUME End PROVE TypeOK'
  <2>1. ZeroBcb \in BcbType
    BY DEF ZeroBcb, BcbType
  <2> QED
    BY <1>18, <2>1 DEF TypeOK, End, Pcs
<1>19. ASSUME WriteBack PROVE TypeOK'
  BY <1>19 DEF TypeOK, WriteBack
<1>20. ASSUME UserReboot PROVE TypeOK'
  BY <1>20 DEF TypeOK, UserReboot
<1>21. ASSUME PowerCut PROVE TypeOK'
  <2>1. files' \subseteq files
    BY <1>21 DEF PowerCut
  <2>2. cuts' \in 0..MaxCuts
    BY <1>21, BoundsAssumption DEF TypeOK, PowerCut
  <2> QED
    BY <1>21, <2>1, <2>2 DEF TypeOK, PowerCut, Pcs, Where
<1>22. ASSUME UNCHANGED vars PROVE TypeOK'
  BY <1>22 DEF TypeOK, vars
<1> QED
  BY <1>1, <1>2, <1>3, <1>4, <1>5, <1>6, <1>7, <1>8, <1>9, <1>11, <1>12, <1>13, <1>14,
     <1>15, <1>16, <1>17, <1>18, <1>19, <1>20, <1>21, <1>22
  DEF Next, Boot, Program

\* The type invariant of updateEngine holds for every instance.
THEOREM TypeCorrect == Spec => []TypeOK
BY InitType, TypeStep, PTL DEF Spec

-----------------------------------------------------------------------------
(* Recovery's own partition.                                               *)

\* The hypothesis: --misc=update is given together with --reboot.
MiscReboots == \A r \in Requests : r.mode = "misc" => r.reboot = TRUE

Leads == bcb.armed = TRUE \/ bcbC.armed = TRUE

\* No BCB asks recovery to write its own partition.
NotAsked == "recovery" \notin bcb.need /\ "recovery" \notin bcbC.need

\* Between two boots no program runs, and the kernel's view is forgotten.
BootIsClean == device = "boot" => pc = "idle" /\ bcb = bcbC

\* Under a BCB that leads to recovery, the main system only waits to reboot.
OnlyReboots ==
    /\ slotted => ~Leads
    /\ device = "main" /\ Leads => pc = "exit" /\ status = "finished" /\ req.reboot = TRUE

\* MiscUpdate runs in the main system of a device without slots.
MiscInMain ==
    /\ pc = "bcb" => req.mode = "misc"
    /\ pc \notin {"idle", "exit"} /\ req.mode = "misc" =>
          device = "main" /\ ~slotted /\ req.reboot = TRUE

\* The child of recovery never gets to recovery's partition.
ChildSpares == device = "recovery" /\ pc \notin {"idle", "exit"} => "recovery" \notin todo

KeptInv == TypeOK /\ NotAsked /\ BootIsClean /\ OnlyReboots /\ MiscInMain /\ ChildSpares

LEMMA KeptInit == Init => KeptInv
BY InitType DEF Init, KeptInv, NotAsked, BootIsClean, OnlyReboots, MiscInMain, ChildSpares,
   Leads, ZeroBcb

LEMMA KeptStep == MiscReboots /\ KeptInv /\ [Next]_vars => KeptInv'
<1> SUFFICES ASSUME MiscReboots, KeptInv, [Next]_vars PROVE KeptInv'
  OBVIOUS
<1>0. TypeOK /\ TypeOK'
  BY TypeStep DEF KeptInv
<1> DEFINE Rest == NotAsked /\ BootIsClean /\ OnlyReboots /\ MiscInMain /\ ChildSpares
<1> SUFFICES Rest'
  BY <1>0 DEF KeptInv
<1>b. bcb \in BcbType /\ bcbC \in BcbType /\ slotted \in BOOLEAN
  BY <1>0 DEF TypeOK
<1> USE DEF KeptInv, NotAsked, BootIsClean, OnlyReboots, MiscInMain, ChildSpares, Leads
<1> USE DEF kind, misc, engine, now, bounds
<1>1. ASSUME NEW s \in Slot, BootSlot(s) PROVE Rest'
  BY <1>1 DEF BootSlot
<1>2. ASSUME BootSingle PROVE Rest'
  BY <1>2, <1>b DEF BootSingle, BcbType
<1>3. ASSUME NowRead \/ NowWrite PROVE Rest'
  BY <1>3 DEF NowRead, NowWrite
<1>5. ASSUME NEW r \in Requests, Start(r) PROVE Rest'
  <2>1. r.mode = "misc" => ~slotted /\ r.reboot = TRUE
    BY <1>5, <1>b DEF Start, MiscReboots
  <2>2. req' = r /\ (pc' = "bcb" => r.mode = "misc")
    <3>1. r.mode \in {"update", "misc", "other"}
      BY RequestsAssumption DEF RequestType
    <3> QED
      BY <1>5, <3>1 DEF Start, Begin, Exit
  <2> QED
    BY <1>5, <2>1, <2>2 DEF Start
<1>6. ASSUME NEW r \in Requests, StartChild(r.items) PROVE Rest'
  <2>1. CASE bcbC.url = "http"
    BY <1>6, <2>1 DEF StartChild, Exit
  <2>2. CASE bcbC.url # "http"
    <3> DEFINE line == [NoRequest EXCEPT !.mask = bcbC.need, !.items = r.items, !.url = bcbC.url]
    <3>1. Begin(line) /\ UNCHANGED <<kind, device, running, part, misc, files, now, bounds, awaited>>
      BY <1>6, <2>2, Zenon DEF StartChild
    <3>2. line.mode = "update" /\ line.mask = bcbC.need
      BY DEF NoRequest
    <3> HIDE DEF line
    <3>3. req' = line /\ todo' = bcbC.need /\ pc' \in {"download", "exit"}
      BY <3>1, <3>2 DEF Begin, Exit
    <3>4. device = "recovery"
      BY <1>6 DEF StartChild
    <3> QED
      BY <3>1, <3>2, <3>3, <3>4
  <2> QED
    BY <2>1, <2>2
<1>7. ASSUME Download PROVE Rest'
  BY <1>7 DEF Download, Failed, Exit
<1>8. ASSUME Analyse PROVE Rest'
  BY <1>8 DEF Analyse, Failed, Exit
<1>9. ASSUME Skip PROVE Rest'
  BY <1>9 DEF Skip
<1>11. ASSUME NEW n \in Names, WriteBegin(n) PROVE Rest'
  BY <1>11 DEF WriteBegin, Failed, Exit
<1>12. ASSUME NEW n \in Names, WriteEnd(n) PROVE Rest'
  BY <1>12 DEF WriteEnd, Failed, Exit
<1>13. ASSUME NEW n \in Names, Check(n) PROVE Rest'
  BY <1>13 DEF Check, Failed, Exit
<1>14. ASSUME Finish PROVE Rest'
  BY <1>14 DEF Finish, AfterCallback, Exit
<1>15. ASSUME ActivityRead PROVE Rest'
  BY <1>15 DEF ActivityRead, AfterCallback, Exit
<1>16. ASSUME ActivityWrite PROVE Rest'
  BY <1>16 DEF ActivityWrite, AfterCallback, Exit
<1>17. ASSUME MiscBcb PROVE Rest'
  BY <1>17 DEF MiscBcb, Exit, InRecovery
<1>18. ASSUME End PROVE Rest'
  BY <1>18, <1>b DEF End, ZeroBcb
<1>19. ASSUME WriteBack PROVE Rest'
  BY <1>19 DEF WriteBack
<1>20. ASSUME UserReboot PROVE Rest'
  BY <1>20 DEF UserReboot
<1>21. ASSUME PowerCut PROVE Rest'
  BY <1>21 DEF PowerCut
<1>22. ASSUME UNCHANGED vars PROVE Rest'
  BY <1>22 DEF vars
<1> HIDE DEF Rest
<1> QED
  BY <1>1, <1>2, <1>3, <1>5, <1>6, <1>7, <1>8, <1>9, <1>11, <1>12, <1>13, <1>14,
     <1>15, <1>16, <1>17, <1>18, <1>19, <1>20, <1>21, <1>22
  DEF Next, Boot, Program

\* The steps that write to a partition, seen from recovery's.
LEMMA RecoveryStep ==
    KeptInv /\ [Next]_vars =>
        (bcb.armed => part'[<<"recovery", Single>>] = part[<<"recovery", Single>>])
<1> SUFFICES ASSUME KeptInv, [Next]_vars, bcb.armed
             PROVE  part'[<<"recovery", Single>>] = part[<<"recovery", Single>>]
  OBVIOUS
<1>1. TypeOK /\ bcb.armed = TRUE
  BY DEF KeptInv, TypeOK, BcbType
<1>2. <<"recovery", Single>> \in DOMAIN part
  BY <1>1, PartPlaces DEF TypeOK
<1>3. CASE UNCHANGED part
  BY <1>3
<1>4. ASSUME NEW n \in Names, WriteBegin(n) \/ WriteEnd(n) \/ Check(n)
      PROVE  part'[<<"recovery", Single>>] = part[<<"recovery", Single>>]
  <2>1. pc \in {"items", "writing", "check"} /\ n \in todo
    BY <1>4 DEF WriteBegin, WriteEnd, Check, IsNext
  <2>2. device = "recovery"
    BY <1>1, <2>1 DEF KeptInv, OnlyReboots, BootIsClean, Leads, TypeOK
  <2>3. n # "recovery"
    BY <2>1, <2>2 DEF KeptInv, ChildSpares
  <2>4. \/ UNCHANGED part
        \/ \E v : part' = [part EXCEPT ![<<n, Dest(n)>>] = v]
    BY <1>4 DEF WriteBegin, WriteEnd, Check
  <2> QED
    BY <1>2, <2>3, <2>4
<1> USE DEF misc, engine, now, bounds
<1>5. \/ UNCHANGED part
      \/ \E n \in Names : WriteBegin(n) \/ WriteEnd(n) \/ Check(n)
  BY DEF Next, Boot, Program, BootSlot, BootSingle, NowRead, NowWrite, Start, StartChild,
         Download, Analyse, Skip, Finish, ActivityRead, ActivityWrite, MiscBcb, End,
         WriteBack, UserReboot, PowerCut, vars
<1> QED
  BY <1>3, <1>4, <1>5

\* While the BCB leads to recovery nothing writes recovery's own partition, for
\* every set of command lines in which --misc=update comes with --reboot.
THEOREM RecoveryKept == MiscReboots => (Spec => RecoveryIsKept)
<1> SUFFICES ASSUME MiscReboots PROVE Spec => RecoveryIsKept
  OBVIOUS
<1>1. KeptInv /\ [Next]_vars => KeptInv'
  BY KeptStep
<1>2. KeptInv /\ [Next]_vars =>
        [bcb.armed => part'[<<"recovery", Single>>] = part[<<"recovery", Single>>]]_vars
  BY RecoveryStep
<1> QED
  BY <1>1, <1>2, KeptInit, PTL DEF Spec, RecoveryIsKept

-----------------------------------------------------------------------------
(* What is reported as finished.                                           *)

Asked == (req.mask \cap req.items) \ {"misc"}

Written(n) == part[<<n, Dest(n)>>] = runs

Working == {"items", "writing", "check", "slot_read", "slot_write"}

\* From the choice of the partitions to the end of the loop, what has left todo
\* has been written.
LoopInv ==
    /\ pc \in {"download", "image"} => todo = req.mask
    /\ pc \in Working => \A n \in Asked : n \in todo \/ Written(n)
    /\ pc = "check" => \A n \in Names : IsNext(n) => Written(n)
    /\ pc \in {"slot_read", "slot_write"} => todo = {}

FinishedInv ==
    /\ TypeOK
    /\ device = "boot" => pc = "idle"
    /\ pc = "bcb" => req.mode = "misc"
    /\ req.mode = "update" => LoopInv
    /\ FinishedIsWritten

\* There is one next partition.
LEMMA NextIsUnique ==
    ASSUME NEW n \in Names, NEW m \in Names, IsNext(n), IsNext(m)
    PROVE  n = m
<1>1. PICK i \in DOMAIN Table : Table[i] = n
  BY DEF Names, ToSet
<1>2. PICK j \in DOMAIN Table : Table[j] = m
  BY DEF Names, ToSet
<1>3. i <= j /\ j <= i
  BY <1>1, <1>2 DEF IsNext
<1>4. i \in 1..9 /\ j \in 1..9
  BY DEF Table
<1> QED
  BY <1>1, <1>2, <1>3, <1>4

LEMMA FinishedInit == Init => FinishedInv
<1> SUFFICES ASSUME Init PROVE FinishedInv
  OBVIOUS
<1>1. pc = "idle" /\ TypeOK
  BY InitType DEF Init
<1> QED
  BY <1>1 DEF FinishedInv, LoopInv, Working, FinishedIsWritten

\* A step that keeps the partitions and their destinations, and does not touch
\* the run of the program.
LEMMA RunKept ==
    ASSUME FinishedInv, UNCHANGED <<slotted, running, part, runs, req, todo, pc, status>>
    PROVE  (req.mode = "update" => LoopInv)' /\ FinishedIsWritten'
<1>1. \A n : Written(n)' = Written(n)
  BY DEF Written, Dest
<1>2. LoopInv' = LoopInv
  BY <1>1 DEF LoopInv, Working, Asked, IsNext, Written, Dest
<1>3. FinishedIsWritten' = FinishedIsWritten
  BY DEF FinishedIsWritten, Dest
<1> QED
  BY <1>2, <1>3 DEF FinishedInv

\* A program that is not running, or has failed, promises nothing.
LEMMA NoPromise ==
    ASSUME pc' = "idle" \/ (pc' = "exit" /\ status' = "error")
    PROVE  LoopInv' /\ FinishedIsWritten'
BY DEF LoopInv, Working, FinishedIsWritten

\* Writing one partition leaves the others as they are.
LEMMA OthersKept ==
    ASSUME TypeOK, NEW n \in Names, NEW v, NEW m \in Names, m # n,
           part' = [part EXCEPT ![<<n, Dest(n)>>] = v],
           UNCHANGED <<slotted, running, runs>>
    PROVE  Written(m)' <=> Written(m)
<1>1. <<m, Dest(m)>> \in DOMAIN part
  BY DestPlace DEF TypeOK
<1>2. Dest(m)' = Dest(m)
  BY DEF Dest
<1>3. part'[<<m, Dest(m)>>] = part[<<m, Dest(m)>>]
  BY <1>1
<1> QED
  BY <1>2, <1>3 DEF Written

LEMMA FinishedStep == FinishedInv /\ [Next]_vars => FinishedInv'
<1> SUFFICES ASSUME FinishedInv, [Next]_vars PROVE FinishedInv'
  OBVIOUS
<1>0. TypeOK /\ TypeOK'
  BY TypeStep DEF FinishedInv
<1> DEFINE Rest ==
      /\ device = "boot" => pc = "idle"
      /\ pc = "bcb" => req.mode = "misc"
      /\ req.mode = "update" => LoopInv
      /\ FinishedIsWritten
<1> SUFFICES Rest'
  BY <1>0 DEF FinishedInv
<1>i. Rest
  BY DEF FinishedInv
<1> USE DEF kind, misc, engine, now, bounds
<1>f. ASSUME UNCHANGED <<device, req>>, pc' = "exit", status' = "error", device # "boot"
      PROVE  Rest'
  BY <1>f, NoPromise
<1>d. pc \notin {"idle"} => device # "boot"
  BY <1>i
<1>1. ASSUME NEW s \in Slot, BootSlot(s) PROVE Rest'
  <2>1. pc' = "idle"
    BY <1>1, <1>i DEF BootSlot
  <2> QED
    BY <2>1, NoPromise
<1>2. ASSUME BootSingle PROVE Rest'
  <2>1. pc' = "idle"
    BY <1>2, <1>i DEF BootSingle
  <2> QED
    BY <2>1, NoPromise
<1>3. ASSUME NowRead \/ NowWrite \/ WriteBack PROVE Rest'
  <2>1. UNCHANGED <<slotted, running, part, runs, req, todo, pc, status, device>>
    BY <1>3 DEF NowRead, NowWrite, WriteBack
  <2> QED
    BY <2>1, <1>i, RunKept
<1>4. ASSUME NEW r \in RequestType, Begin(r), UNCHANGED device, device # "boot"
      PROVE  Rest'
  <2>1. r.mode \in {"update", "misc", "other"} /\ req' = r
    BY <1>4 DEF RequestType, Begin
  <2>2. pc' = "exit" => status' = "error"
    BY <1>4, <2>1 DEF Begin, Exit
  <2>3. pc' = "bcb" => r.mode = "misc"
    BY <1>4, <2>1 DEF Begin, Exit
  <2>4. r.mode = "update" => pc' \in {"download", "exit"} /\ todo' = r.mask
    BY <1>4 DEF Begin, Exit
  <2> QED
    BY <1>4, <2>1, <2>2, <2>3, <2>4 DEF LoopInv, Working, FinishedIsWritten
<1>5. ASSUME NEW r \in Requests, Start(r) PROVE Rest'
  BY <1>4, <1>5, RequestsAssumption DEF Start
<1>6. ASSUME NEW r \in Requests, StartChild(r.items) PROVE Rest'
  <2>1. CASE bcbC.url = "http"
    BY <1>6, <1>f, <2>1 DEF StartChild, Exit
  <2>2. CASE bcbC.url # "http"
    <3>1. /\ Begin([NoRequest EXCEPT !.mask = bcbC.need, !.items = r.items, !.url = bcbC.url])
          /\ UNCHANGED <<kind, device, running, part, misc, files, now, bounds, awaited>>
      BY <1>6, <2>2, Zenon DEF StartChild
    <3>2. r.items \in SUBSET Names
      BY RequestsAssumption DEF RequestType
    <3>3. device # "boot"
      BY <1>6 DEF StartChild
    <3> QED
      BY <1>0, <1>4, <3>1, <3>2, <3>3, ChildRequest
  <2> QED
    BY <2>1, <2>2
<1>7. ASSUME Download PROVE Rest'
  <2>1. CASE pc' = "exit"
    BY <1>7, <1>d, <1>f, <2>1 DEF Download, Failed, Exit
  <2>2. CASE pc' = "image"
    BY <1>7, <1>d, <1>i, <2>2 DEF Download, LoopInv, Working, FinishedIsWritten
  <2> QED
    BY <1>7, <2>1, <2>2 DEF Download, Failed, Exit
<1>8. ASSUME Analyse PROVE Rest'
  <2>1. CASE pc' = "exit"
    BY <1>8, <1>d, <1>f, <2>1 DEF Analyse, Failed, Exit
  <2>2. CASE pc' = "items"
    <3>1. /\ pc = "image" /\ todo' = todo \cap req.items
          /\ UNCHANGED <<device, req, status>>
      BY <1>8, <2>2 DEF Analyse, Failed, Exit
    <3>2. req.mode = "update" => \A n \in Asked' : n \in todo'
      BY <1>i, <3>1 DEF LoopInv, Asked
    <3> QED
      BY <1>d, <2>2, <3>1, <3>2 DEF LoopInv, Working, FinishedIsWritten
  <2> QED
    BY <1>8, <2>1, <2>2 DEF Analyse, Failed, Exit
<1>9. ASSUME Skip PROVE Rest'
  <2>1. /\ pc = "items" /\ pc' = "items" /\ todo' = todo \ {"misc"}
        /\ UNCHANGED <<slotted, running, part, runs, device, req, status>>
    BY <1>9 DEF Skip
  <2>2. \A n : Written(n)' = Written(n)
    BY <2>1 DEF Written, Dest
  <2> QED
    BY <1>d, <1>i, <2>1, <2>2 DEF LoopInv, Working, Asked, FinishedIsWritten
<1>10. ASSUME NEW n \in Names, WriteBegin(n) PROVE Rest'
  <2>1. CASE pc' = "exit"
    BY <1>10, <1>d, <1>f, <2>1 DEF WriteBegin, Failed, Exit
  <2>2. CASE pc' = "writing"
    <3>1. /\ pc = "items" /\ n \in todo /\ part' = [part EXCEPT ![<<n, Dest(n)>>] = Torn]
          /\ UNCHANGED <<slotted, running, runs, device, req, todo, status>>
      BY <1>10, <2>2 DEF WriteBegin, Failed, Exit, IsNext
    <3>2. \A m \in Asked : m \in Names
      BY <1>0 DEF Asked, TypeOK, RequestType
    <3>3. \A m \in Asked : m # n => (Written(m)' <=> Written(m))
      <4> SUFFICES ASSUME NEW m \in Asked, m # n PROVE Written(m)' <=> Written(m)
        OBVIOUS
      <4> QED
        BY <1>0, <3>1, <3>2, OthersKept
    <3> QED
      BY <1>d, <1>i, <2>2, <3>1, <3>3 DEF LoopInv, Working, Asked, FinishedIsWritten
  <2> QED
    BY <1>10, <2>1, <2>2 DEF WriteBegin, Failed, Exit
<1>11. ASSUME NEW n \in Names, WriteEnd(n) PROVE Rest'
  <2>1. CASE pc' = "exit"
    BY <1>11, <1>d, <1>f, <2>1 DEF WriteEnd, Failed, Exit
  <2>2. CASE pc' # "exit"
    <3>1. /\ pc = "writing" /\ IsNext(n) /\ part' = [part EXCEPT ![<<n, Dest(n)>>] = runs]
          /\ UNCHANGED <<slotted, running, runs, device, req, status>>
          /\ \/ pc' = "items" /\ todo' = todo \ {n}
             \/ pc' = "check" /\ todo' = todo
      BY <1>11, <2>2 DEF WriteEnd, Failed, Exit
    <3>2. \A m \in Asked : m \in Names
      BY <1>0 DEF Asked, TypeOK, RequestType
    <3>3. \A m \in Asked : m # n => (Written(m)' <=> Written(m))
      <4> SUFFICES ASSUME NEW m \in Asked, m # n PROVE Written(m)' <=> Written(m)
        OBVIOUS
      <4> QED
        BY <1>0, <3>1, <3>2, OthersKept
    <3>4. Written(n)'
      BY <1>0, <3>1, DestPlace DEF Written, Dest, TypeOK
    <3>5. pc' = "check" => \A m \in Names : IsNext(m)' => m = n
      BY <3>1, NextIsUnique DEF IsNext
    <3> QED
      BY <1>d, <1>i, <2>2, <3>1, <3>3, <3>4, <3>5 DEF LoopInv, Working, Asked, FinishedIsWritten
  <2> QED
    BY <2>1, <2>2
<1>12. ASSUME NEW n \in Names, Check(n) PROVE Rest'
  <2>1. CASE pc' = "exit"
    BY <1>12, <1>d, <1>f, <2>1 DEF Check, Failed, Exit
  <2>2. CASE pc' = "items"
    <3>1. /\ pc = "check" /\ IsNext(n) /\ todo' = todo \ {n}
          /\ UNCHANGED <<slotted, running, part, runs, device, req, status>>
      BY <1>12, <2>2 DEF Check, Failed, Exit
    <3>2. \A m : Written(m)' = Written(m)
      BY <3>1 DEF Written, Dest
    <3> QED
      BY <1>d, <1>i, <2>2, <3>1, <3>2 DEF LoopInv, Working, Asked, FinishedIsWritten
  <2> QED
    BY <1>12, <2>1, <2>2 DEF Check, Failed, Exit
<1>13. ASSUME Finish \/ ActivityRead \/ ActivityWrite PROVE Rest'
  <2>1. /\ pc \in Working /\ (req.mode = "update" => todo = {})
        /\ UNCHANGED <<slotted, running, part, runs, device, req, todo>>
    BY <1>13, <1>i DEF Finish, ActivityRead, ActivityWrite, LoopInv, Working
  <2>2. req.mode = "update" => \A n \in Asked : Written(n)
    BY <1>i, <2>1 DEF LoopInv
  <2>3. \A n : Written(n)' = Written(n)
    BY <2>1 DEF Written, Dest
  <2>4. pc' \in {"slot_read", "slot_write", "exit", "bcb"} /\ (pc' = "bcb" => req.mode = "misc")
    BY <1>13 DEF Finish, ActivityRead, ActivityWrite, AfterCallback, Exit
  <2>5. req.mode = "update" => \A n \in Asked' : Written(n)'
    BY <2>1, <2>2, <2>3 DEF Asked
  <2>6. device # "boot"
    BY <1>d, <2>1 DEF Working
  <2> QED
    BY <2>1, <2>4, <2>5, <2>6 DEF LoopInv, Working, FinishedIsWritten, Asked, Written
<1>14. ASSUME MiscBcb PROVE Rest'
  <2>1. req.mode = "misc" /\ pc' = "exit" /\ UNCHANGED <<device, req>> /\ pc = "bcb"
    BY <1>14, <1>i DEF MiscBcb, Exit
  <2> QED
    BY <1>d, <2>1 DEF FinishedIsWritten
<1>15. ASSUME End \/ UserReboot \/ PowerCut PROVE Rest'
  <2>1. pc' = "idle"
    BY <1>15 DEF End, UserReboot, PowerCut
  <2> QED
    BY <2>1, NoPromise
<1>16. ASSUME UNCHANGED vars PROVE Rest'
  <2>1. UNCHANGED <<slotted, running, part, runs, req, todo, pc, status, device>>
    BY <1>16 DEF vars
  <2> QED
    BY <2>1, <1>i, RunKept
<1> HIDE DEF Rest
<1> QED
  BY <1>1, <1>2, <1>3, <1>5, <1>6, <1>7, <1>8, <1>9, <1>10, <1>11, <1>12, <1>13, <1>14,
     <1>15, <1>16
  DEF Next, Boot, Program

\* updateEngine reports RK_UPGRADE_FINISHED only when every partition that was
\* asked for and is in the image has been written where the next boot reads it,
\* for every set of command lines, every fault and any number of power cuts.
THEOREM FinishedMeansWritten == Spec => []FinishedIsWritten
<1>1. FinishedInv => FinishedIsWritten
  BY DEF FinishedInv
<1> QED
  BY <1>1, FinishedInit, FinishedStep, PTL DEF Spec

-----------------------------------------------------------------------------
(* The slots of an A/B device: what the three writers of the A/B data      *)
(* leave in it.                                                            *)

LEMMA Other ==
    ASSUME NEW x \in Slot
    PROVE  1 - x \in Slot /\ 1 - x # x /\ 1 - (1 - x) = x /\ \A y \in Slot : y = x \/ y = 1 - x
BY DEF Slot

LEMMA SlotFields ==
    ASSUME NEW d \in AvbABData, NEW x \in Slot
    PROVE  /\ d.slots[x].priority \in 0..MaxPriority /\ d.slots[x].tries \in 0..MaxTries
           /\ d.slots[x].ok \in BOOLEAN
BY DEF AvbABData, SlotData

\* The boot loader only changes the tries of the slot it boots.
LEMMA TriedFields ==
    ASSUME NEW d \in AvbABData, NEW s \in Slot, NEW x \in Slot
    PROVE  /\ Tried(d, s).slots[x].priority = d.slots[x].priority
           /\ Tried(d, s).slots[x].ok = d.slots[x].ok
           /\ Tried(d, s).slots[x].tries =
                IF x = s /\ ~d.slots[x].ok THEN d.slots[x].tries - 1 ELSE d.slots[x].tries
<1>1. d.slots \in [Slot -> SlotData] /\ "slots" \in DOMAIN d
  BY DEF AvbABData
<1>2. Tried(d, s).slots =
        [d.slots EXCEPT ![s].tries = IF d.slots[s].ok THEN @ ELSE @ - 1]
  BY <1>1 DEF Tried
<1>3. d.slots[s] \in SlotData /\ d.slots[s].ok \in BOOLEAN
  BY <1>1 DEF SlotData
<1>4. CASE x = s
  <2>1. Tried(d, s).slots[s] =
          [d.slots[s] EXCEPT !.tries = IF d.slots[s].ok THEN @ ELSE @ - 1]
    BY <1>1, <1>2
  <2> QED
    BY <1>3, <1>4, <2>1 DEF SlotData
<1>5. CASE x # s
  BY <1>1, <1>2, <1>5
<1> QED
  BY <1>4, <1>5

\* setSlotSucceed only changes the mark and the tries of the slot that runs.
LEMMA SucceededFields ==
    ASSUME NEW d \in AvbABData, NEW s \in Slot, NEW x \in Slot
    PROVE  /\ Succeeded(d, s, macros).slots[x].priority = d.slots[x].priority
           /\ x # s => Succeeded(d, s, macros).slots[x] = d.slots[x]
           /\ "SUCCESSFUL_BOOT" \in macros => Succeeded(d, s, macros).slots[s].ok = TRUE
           /\ "SUCCESSFUL_BOOT" \notin macros => Succeeded(d, s, macros).slots[s].ok = d.slots[s].ok
           /\ "RETRY_BOOT" \in macros => Succeeded(d, s, macros).slots[s].tries = MaxTries
<1>1. d.slots \in [Slot -> SlotData] /\ "slots" \in DOMAIN d
  BY DEF AvbABData
<1>2. Succeeded(d, s, macros).slots = [d.slots EXCEPT ![s] = SucceededSlot(d.slots[s], macros)]
  BY <1>1 DEF Succeeded
<1>3. d.slots[s] \in SlotData
  BY <1>1
<1>4. /\ SucceededSlot(d.slots[s], macros).priority = d.slots[s].priority
      /\ "SUCCESSFUL_BOOT" \in macros => SucceededSlot(d.slots[s], macros).ok = TRUE
      /\ "SUCCESSFUL_BOOT" \notin macros => SucceededSlot(d.slots[s], macros).ok = d.slots[s].ok
      /\ "RETRY_BOOT" \in macros => SucceededSlot(d.slots[s], macros).tries = MaxTries
  BY <1>3 DEF SucceededSlot, SlotData
<1> QED
  BY <1>1, <1>2, <1>4

\* setSlotActivity puts the other slot in front, with all of its tries.
LEMMA ActivatedFields ==
    ASSUME NEW d \in AvbABData, NEW s \in Slot
    PROVE  /\ Activated(d, s, macros).slots[s].priority = MaxPriority - 1
           /\ Activated(d, s, macros).slots[s].tries = d.slots[s].tries
           /\ Activated(d, s, macros).slots[s].ok = d.slots[s].ok
           /\ Activated(d, s, macros).slots[1 - s].priority = MaxPriority
           /\ Activated(d, s, macros).slots[1 - s].tries = MaxTries
           /\ "SUCCESSFUL_BOOT" \in macros => Activated(d, s, macros).slots[1 - s].ok = FALSE
           /\ "SUCCESSFUL_BOOT" \notin macros =>
                Activated(d, s, macros).slots[1 - s].ok = d.slots[1 - s].ok
<1>1. d.slots \in [Slot -> SlotData] /\ "slots" \in DOMAIN d
  BY DEF AvbABData
<1>2. Activated(d, s, macros).slots =
        [x \in Slot |-> IF x = s THEN Demoted(d.slots[x]) ELSE ActivatedSlot(d.slots[x], macros)]
  BY <1>1 DEF Activated
<1>3. /\ Activated(d, s, macros).slots[s] = Demoted(d.slots[s])
      /\ Activated(d, s, macros).slots[1 - s] = ActivatedSlot(d.slots[1 - s], macros)
  BY <1>2, Other
<1>4. d.slots[s] \in SlotData /\ d.slots[1 - s] \in SlotData
  BY <1>1, Other
<1>5. /\ Demoted(d.slots[s]).priority = MaxPriority - 1
      /\ Demoted(d.slots[s]).tries = d.slots[s].tries
      /\ Demoted(d.slots[s]).ok = d.slots[s].ok
  BY <1>4 DEF Demoted, SlotData
<1>6. /\ ActivatedSlot(d.slots[1 - s], macros).priority = MaxPriority
      /\ ActivatedSlot(d.slots[1 - s], macros).tries = MaxTries
      /\ "SUCCESSFUL_BOOT" \in macros => ActivatedSlot(d.slots[1 - s], macros).ok = FALSE
      /\ "SUCCESSFUL_BOOT" \notin macros =>
           ActivatedSlot(d.slots[1 - s], macros).ok = d.slots[1 - s].ok
  BY <1>4 DEF ActivatedSlot, SlotData
<1> QED
  BY <1>3, <1>5, <1>6

-----------------------------------------------------------------------------
(* What the A/B data say of a slot, and how the three writers keep it.     *)

\* The hypotheses: setSlotSucceed marks the slot or gives it back its tries,
\* --misc=now has ended before anything else is asked for, and there are more
\* tries than power cuts and failures together.
BuildsMark    == \A m \in Builds : m \cap Macros # {}
NowIsFirst    == Concurrent = FALSE
TriesOutlast  == MaxTries >= MaxCuts + 2
SlotsAreKept  == BuildsMark /\ NowIsFirst /\ TriesOutlast

Ahead(d, x) == d.slots[x].priority > d.slots[1 - x].priority

\* One slot is always in front, and only one build ever marks a success.
Ordered(d) == \A x \in Slot :
    d.slots[x].priority > 0 /\ d.slots[x].priority # d.slots[1 - x].priority
Unmarked(d) == "SUCCESSFUL_BOOT" \in macros \/ \A x \in Slot : ~d.slots[x].ok
SoundData(d) == d \in AvbABData /\ Ordered(d) /\ Unmarked(d)

\* At most n tries of the slot have been lost.
HasTries(d, x, n) == d.slots[x].ok \/ d.slots[x].tries + n >= MaxTries
Spare(d, x, n)    == d.slots[x].tries = 0 \/ HasTries(d, x, n)

\* No mark of success keeps the other slot in front of this one.
Reached(d, x) == d.slots[1 - x].ok => Ahead(d, x)

\* The data of a slot r that runs, one try of which its boot may have used.
RunningData(d, r, n) == Reached(d, r) /\ Spare(d, 1 - r, n) /\ HasTries(d, r, n + 1)

\* The data the boot loader finds: a slot that boots, and another that boots too
\* or uses up its own tries first.
BootData(d, n) == \E s \in Slot :
    /\ Good(s) /\ HasTries(d, s, n)
    /\ Good(1 - s) \/ Reached(d, s)
    /\ Spare(d, 1 - s, n) \/ (~Good(1 - s) /\ Ahead(d, 1 - s))

LEMMA HasTriesMonotone ==
    ASSUME NEW d \in AvbABData, NEW x \in Slot, NEW n \in Nat
    PROVE  /\ HasTries(d, x, n) => HasTries(d, x, n + 1)
           /\ Spare(d, x, n) => Spare(d, x, n + 1)
BY SlotFields, MaxTriesAssumption DEF HasTries, Spare

LEMMA RunningMonotone ==
    ASSUME NEW d \in AvbABData, NEW r \in Slot, NEW n \in Nat, RunningData(d, r, n)
    PROVE  RunningData(d, r, n + 1)
BY Other, HasTriesMonotone DEF RunningData

\* A reboot, and a power cut, of a device that runs.
LEMMA RunningBoots ==
    ASSUME NEW d \in AvbABData, NEW r \in Slot, NEW n \in Nat, RunningData(d, r, n), Good(r)
    PROVE  /\ HasTries(d, r, n) => BootData(d, n)
           /\ BootData(d, n + 1)
BY Other, HasTriesMonotone DEF RunningData, BootData

LEMMA SucceededData ==
    ASSUME NEW d, SoundData(d), NEW r \in Slot, NEW n \in Nat, RunningData(d, r, n),
           macros \cap Macros # {}
    PROVE  LET e == Succeeded(d, r, macros)
           IN  SoundData(e) /\ RunningData(e, r, n) /\ HasTries(e, r, n)
<1> DEFINE e == Succeeded(d, r, macros)
<1>1. d \in AvbABData /\ e \in AvbABData
  BY SucceededType DEF SoundData
<1>2. /\ \A x \in Slot : e.slots[x].priority = d.slots[x].priority
      /\ e.slots[1 - r] = d.slots[1 - r]
      /\ "SUCCESSFUL_BOOT" \in macros => e.slots[r].ok = TRUE
      /\ "SUCCESSFUL_BOOT" \notin macros => e.slots[r].ok = d.slots[r].ok
      /\ "RETRY_BOOT" \in macros => e.slots[r].tries = MaxTries
  <2>1. \A x \in Slot : e.slots[x].priority = d.slots[x].priority
    BY <1>1, SucceededFields
  <2>2. 1 - r \in Slot /\ 1 - r # r
    BY Other
  <2> QED
    BY <1>1, <2>1, <2>2, SucceededFields
<1> HIDE DEF e
<1>3. Ordered(e)
  BY <1>2, Other DEF SoundData, Ordered
<1>4. Unmarked(e)
  BY <1>2, Other DEF SoundData, Unmarked
<1>5. HasTries(e, r, n) /\ HasTries(e, r, n + 1)
  BY <1>1, <1>2, MaxTriesAssumption DEF HasTries, Macros
<1>6. Reached(e, r) /\ Spare(e, 1 - r, n)
  BY <1>2, Other DEF RunningData, Reached, Ahead, Spare, HasTries
<1> QED
  BY <1>1, <1>3, <1>4, <1>5, <1>6 DEF e, SoundData, RunningData

LEMMA ActivatedData ==
    ASSUME NEW d, SoundData(d), NEW r \in Slot, NEW n \in Nat, RunningData(d, r, n)
    PROVE  LET e == Activated(d, r, macros)
           IN  /\ SoundData(e) /\ RunningData(e, r, n)
               /\ HasTries(d, r, n) => HasTries(e, r, n)
               /\ Ahead(e, 1 - r) /\ Bootable(e.slots[1 - r])
<1> DEFINE e == Activated(d, r, macros)
<1>1. d \in AvbABData /\ e \in AvbABData
  BY ActivatedType DEF SoundData
<1>2. /\ e.slots[r].priority = MaxPriority - 1 /\ e.slots[r].tries = d.slots[r].tries
      /\ e.slots[r].ok = d.slots[r].ok
      /\ e.slots[1 - r].priority = MaxPriority /\ e.slots[1 - r].tries = MaxTries
      /\ "SUCCESSFUL_BOOT" \in macros => e.slots[1 - r].ok = FALSE
      /\ "SUCCESSFUL_BOOT" \notin macros => e.slots[1 - r].ok = d.slots[1 - r].ok
  BY <1>1, ActivatedFields
<1> HIDE DEF e
<1>3. e.slots[1 - r].ok = FALSE
  BY <1>1, <1>2, Other, SlotFields DEF SoundData, Unmarked
<1>4. Ordered(e)
  BY <1>2, Other, MaxPriorityAssumption DEF Ordered
<1>5. Unmarked(e)
  BY <1>2, <1>3, Other DEF SoundData, Unmarked
<1>6. /\ HasTries(e, r, n + 1) /\ (HasTries(d, r, n) => HasTries(e, r, n))
      /\ Spare(e, 1 - r, n)
  BY <1>2, MaxTriesAssumption DEF RunningData, HasTries, Spare
<1>7. Reached(e, r)
  BY <1>3 DEF Reached
<1>8. Ahead(e, 1 - r) /\ Bootable(e.slots[1 - r])
  BY <1>2, Other, MaxPriorityAssumption, MaxTriesAssumption DEF Ahead, Bootable
<1> QED
  BY <1>1, <1>4, <1>5, <1>6, <1>7, <1>8 DEF e, SoundData, RunningData

\* The boot loader: a slot that boots is left as one that runs, and one that
\* does not has used up one of its own tries.
LEMMA TriedData ==
    ASSUME NEW d, SoundData(d), NEW n \in Nat, n + 2 <= MaxTries, BootData(d, n),
           NEW c \in Slot, IsChosen(d, c)
    PROVE  LET e == Tried(d, c)
           IN  /\ SoundData(e)
               /\ Good(c) => RunningData(e, c, n)
               /\ ~Good(c) => BootData(e, n)
<1> DEFINE e == Tried(d, c)
<1>1. d \in AvbABData /\ e \in AvbABData
  BY TriedType DEF SoundData
<1>2. \A x \in Slot :
        /\ e.slots[x].priority = d.slots[x].priority
        /\ e.slots[x].ok = d.slots[x].ok
        /\ e.slots[x].tries = IF x = c /\ ~d.slots[x].ok THEN d.slots[x].tries - 1
                                                         ELSE d.slots[x].tries
  BY <1>1, TriedFields
<1>3. \A x \in Slot : /\ d.slots[x].priority \in Nat /\ d.slots[x].tries \in Nat
                      /\ d.slots[x].ok \in BOOLEAN
  BY <1>1, SlotFields
<1> HIDE DEF e
<1>4. Ordered(e) /\ Unmarked(e)
  BY <1>2, Other DEF SoundData, Ordered, Unmarked
<1>5. 1 - c \in Slot /\ 1 - c # c /\ 1 - (1 - c) = c
  BY Other
<1>6. Bootable(d.slots[c]) /\ (Bootable(d.slots[1 - c]) => Ahead(d, c))
  <2>1. Bootable(d.slots[1 - c]) => \/ d.slots[c].priority > d.slots[1 - c].priority
                                    \/ d.slots[c].priority = d.slots[1 - c].priority
    BY DEF IsChosen
  <2>2. d.slots[c].priority # d.slots[1 - c].priority
    BY DEF SoundData, Ordered
  <2> QED
    BY <2>1, <2>2 DEF IsChosen, Ahead
<1>7. PICK s \in Slot : /\ Good(s) /\ HasTries(d, s, n)
                        /\ Good(1 - s) \/ Reached(d, s)
                        /\ Spare(d, 1 - s, n) \/ (~Good(1 - s) /\ Ahead(d, 1 - s))
  BY DEF BootData
<1>8. Bootable(d.slots[s])
  <2>1. d.slots[s].priority > 0
    BY <1>7 DEF SoundData, Ordered
  <2>2. d.slots[s].ok \/ d.slots[s].tries > 0
    BY <1>3, <1>7, MaxTriesAssumption DEF HasTries
  <2> QED
    BY <2>1, <2>2 DEF Bootable
<1>9. d.slots[1 - c].ok => Ahead(d, c)
  <2>1. d.slots[1 - c].ok => Bootable(d.slots[1 - c])
    BY <1>5 DEF SoundData, Ordered, Bootable
  <2> QED
    BY <1>6, <2>1
<1>10. ASSUME Good(c) PROVE RunningData(e, c, n)
  <2>1. Reached(e, c)
    BY <1>2, <1>5, <1>9 DEF Reached, Ahead
  <2>2. HasTries(d, c, n)
    <3>1. CASE c = s
      BY <1>7, <3>1
    <3>2. CASE c = 1 - s
      <4>1. Spare(d, c, n)
        BY <1>7, <1>10, <3>2
      <4>2. d.slots[c].tries # 0 \/ d.slots[c].ok
        BY <1>6 DEF Bootable
      <4> QED
        BY <4>1, <4>2 DEF Spare, HasTries
    <3> QED
      BY <3>1, <3>2, Other
  <2>3. HasTries(e, c, n + 1)
    BY <1>2, <1>3, <2>2, MaxTriesAssumption DEF HasTries
  <2>4. Spare(d, 1 - c, n)
    <3>1. CASE c = s
      <4>1. CASE Spare(d, 1 - s, n)
        BY <3>1, <4>1
      <4>2. CASE Ahead(d, 1 - s)
        <5>1. ~Ahead(d, c)
          BY <1>3, <1>5, <3>1, <4>2 DEF Ahead
        <5>2. ~Bootable(d.slots[1 - c])
          BY <1>6, <5>1
        <5>3. d.slots[1 - c].tries = 0
          BY <1>3, <1>5, <5>2 DEF SoundData, Ordered, Bootable
        <5> QED
          BY <5>3 DEF Spare
      <4> QED
        BY <1>7, <4>1, <4>2
    <3>2. CASE c = 1 - s
      BY <1>7, <3>2, Other DEF Spare
    <3> QED
      BY <3>1, <3>2, Other
  <2>5. Spare(e, 1 - c, n)
    BY <1>2, <1>5, <2>4 DEF Spare, HasTries
  <2> QED
    BY <2>1, <2>3, <2>5 DEF RunningData
<1>11. ASSUME ~Good(c) PROVE BootData(e, n)
  <2>1. c = 1 - s /\ 1 - c = s
    BY <1>7, <1>11, Other
  <2>2. Ahead(d, c)
    BY <1>6, <1>8, <2>1
  <2>3. Ahead(e, c)
    BY <1>2, <1>5, <2>2 DEF Ahead
  <2>4. Reached(e, s)
    <3>1. Reached(d, s)
      BY <1>7, <1>11, <2>1
    <3> QED
      BY <1>2, <1>5, <2>1, <3>1 DEF Reached, Ahead
  <2>5. HasTries(e, s, n)
    BY <1>2, <1>5, <1>7, <2>1 DEF HasTries
  <2> QED
    BY <1>7, <1>11, <2>1, <2>3, <2>4, <2>5 DEF BootData
<1> QED
  BY <1>1, <1>4, <1>10, <1>11 DEF e, SoundData

-----------------------------------------------------------------------------
(* An A/B device always comes back, and to the slot it was told to.        *)

\* One of the two programs holds A/B data at a time, and they are not stale.
OneAtATime ==
    /\ device # "recovery"
    /\ device = "boot" => pc = "idle" /\ nowPc = "idle" /\ ab = abC
    /\ pc # "idle" => nowPc = "idle"
    /\ pc = "slot_write" => buf = abC
    /\ nowPc = "write" => nowBuf = abC

\* The slot that runs is never written; both copies of the A/B data lead back
\* to it, and once it is marked no try of it is missing.
RunningFits == device = "main" =>
    /\ Good(running) /\ RunningData(ab, running, cuts) /\ RunningData(abC, running, cuts)
    /\ nowPc = "idle" => HasTries(abC, running, cuts)

BootFits == device = "boot" => BootData(abC, cuts)

\* The slot that was prepared is the one the boot loader will choose.
Prepared == awaited # Single =>
    /\ nowPc = "idle" /\ awaited \in Slot
    /\ Ahead(abC, awaited) /\ Bootable(abC.slots[awaited])
    /\ device = "main" => awaited = 1 - running

SlotParts ==
    /\ OneAtATime /\ SoundData(ab) /\ SoundData(abC) /\ RunningFits /\ BootFits /\ Prepared

SlotsInv == TypeOK /\ macros \in Builds /\ (slotted = TRUE => SlotParts)

LEMMA SlotsInit == TriesOutlast /\ Init => SlotsInv
<1> SUFFICES ASSUME TriesOutlast, Init PROVE SlotsInv
  OBVIOUS
<1>1. TypeOK /\ macros \in Builds
  BY InitType DEF Init
<1>2. \A x \in Slot : /\ FactoryAB.slots[x].priority = MaxPriority - x
                      /\ FactoryAB.slots[x].tries = MaxTries /\ FactoryAB.slots[x].ok = FALSE
  BY DEF FactoryAB
<1>3. SoundData(FactoryAB)
  <2>1. Ordered(FactoryAB)
    <3> SUFFICES ASSUME NEW x \in Slot
                 PROVE  /\ FactoryAB.slots[x].priority > 0
                        /\ FactoryAB.slots[x].priority # FactoryAB.slots[1 - x].priority
      BY DEF Ordered
    <3>1. x \in {0, 1} /\ 1 - x \in {0, 1} /\ x # 1 - x
      BY DEF Slot
    <3> QED
      BY <1>2, <3>1, MaxPriorityAssumption DEF Slot
  <2> QED
    BY <1>2, <2>1, FactoryABType DEF SoundData, Unmarked
<1>4. Good(0)
  <2>1. <<"boot", 0>> \in Places /\ <<"rootfs", 0>> \in Places
    BY DEF Places, IsAB, Slot
  <2>2. part[<<"boot", 0>>] = 0 /\ part[<<"rootfs", 0>>] = 0
    BY <2>1 DEF Init
  <2> QED
    BY <2>2, ReleasesAssumption, BoundsAssumption DEF Good, Torn
<1>5. Good(1)
  <2>1. <<"boot", 1>> \in Places /\ <<"rootfs", 1>> \in Places
    BY DEF Places, IsAB, Slot
  <2>2. part[<<"boot", 1>>] = 0 /\ part[<<"rootfs", 1>>] = 0
    BY <2>1 DEF Init
  <2> QED
    BY <2>2, ReleasesAssumption, BoundsAssumption DEF Good, Torn
<1>6. \A x \in Slot : HasTries(FactoryAB, x, 0)
  BY <1>2, MaxTriesAssumption DEF HasTries
<1>7. BootData(FactoryAB, 0)
  BY <1>4, <1>5, <1>6 DEF BootData, Spare, Slot
<1> QED
  BY <1>1, <1>3, <1>7
  DEF SlotsInv, SlotParts, Init, OneAtATime, RunningFits, BootFits, Prepared

\* Writing a partition of the other slot spares the one that runs.
LEMMA RunningSpared ==
    ASSUME TypeOK, slotted = TRUE, NEW n \in Names, NEW v,
           part' = [part EXCEPT ![<<n, Dest(n)>>] = v]
    PROVE  part'[<<"boot", running>>] = part[<<"boot", running>>]
           /\ part'[<<"rootfs", running>>] = part[<<"rootfs", running>>]
<1>1. running \in Slot /\ part \in [Places -> 0..Torn]
  BY DEF TypeOK
<1>2. <<"boot", running>> \in Places /\ <<"rootfs", running>> \in Places
  BY <1>1 DEF Places, IsAB
<1>3. Dest(n) # running
  BY <1>1 DEF Dest, Slot, Single
<1> QED
  BY <1>1, <1>2, <1>3

\* The steps of updateEngine that leave the A/B data alone.
LEMMA ProgramKeeps ==
    ASSUME SlotsInv, slotted = TRUE, TypeOK', device = "main", nowPc = "idle",
           UNCHANGED <<slotted, macros, device, running, ab, abC, buf, nowPc, nowBuf, cuts,
                       awaited>>,
           pc' # "slot_write", Good(running)'
    PROVE  SlotsInv'
<1>1. SlotParts
  BY DEF SlotsInv
<1>2. SoundData(ab)' /\ SoundData(abC)'
  BY <1>1 DEF SlotParts, SoundData, Unmarked
<1>3. OneAtATime' /\ BootFits' /\ Prepared'
  BY <1>1 DEF SlotParts, OneAtATime, BootFits, Prepared
<1>4. RunningFits'
  BY <1>1 DEF SlotParts, RunningFits
<1> QED
  BY <1>2, <1>3, <1>4 DEF SlotsInv, SlotParts

LEMMA SlotsStep == SlotsAreKept /\ SlotsInv /\ [Next]_vars => SlotsInv'
<1> SUFFICES ASSUME SlotsAreKept, SlotsInv, [Next]_vars PROVE SlotsInv'
  OBVIOUS
<1> USE DEF kind, misc, engine, now, bounds
<1>a. UNCHANGED <<slotted, macros>>
  BY DEF Next, Boot, Program, BootSlot, BootSingle, NowRead, NowWrite, Start, StartChild,
         Download, Analyse, Skip, WriteBegin, WriteEnd, Check, Finish, ActivityRead,
         ActivityWrite, MiscBcb, End, WriteBack, UserReboot, PowerCut, vars
<1>b. TypeOK /\ TypeOK' /\ (macros \in Builds)'
  BY <1>a, TypeStep DEF SlotsInv
<1>c. SUFFICES ASSUME slotted = TRUE PROVE SlotParts'
  BY <1>a, <1>b DEF SlotsInv
<1>d. SlotParts
  BY <1>c DEF SlotsInv
<1>e. /\ cuts \in Nat /\ cuts' \in Nat /\ cuts + 2 <= MaxTries /\ cuts' + 2 <= MaxTries
      /\ running \in Slot
  <2>1. cuts \in 0..MaxCuts /\ cuts' \in 0..MaxCuts /\ running \in Slot
    BY <1>b DEF TypeOK
  <2>2. MaxTries >= MaxCuts + 2
    BY DEF SlotsAreKept, TriesOutlast
  <2>3. MaxCuts \in Nat /\ MaxTries \in Nat
    BY BoundsAssumption, MaxTriesAssumption
  <2>4. \A k \in 0..MaxCuts : k \in Nat /\ k + 2 <= MaxTries
    BY <2>2, <2>3
  <2> QED
    BY <2>1, <2>4
<1>f. ab \in AvbABData /\ abC \in AvbABData
  BY <1>b DEF TypeOK
<1>g. /\ OneAtATime
      /\ SoundData(ab) /\ SoundData(abC)
      /\ RunningFits /\ BootFits /\ Prepared
  BY <1>d DEF SlotParts
\* A step of updateEngine under way.
<1>h. ASSUME device = "main", nowPc = "idle", pc' # "slot_write", Good(running)',
             UNCHANGED <<device, running, ab, abC, buf, nowPc, nowBuf, cuts, awaited>>
      PROVE  SlotParts'
  BY <1>a, <1>b, <1>c, <1>h, ProgramKeeps DEF SlotsInv
<1>i. pc # "idle" => /\ device = "main" /\ nowPc = "idle" /\ Good(running)
                     /\ RunningData(ab, running, cuts) /\ RunningData(abC, running, cuts)
                     /\ HasTries(abC, running, cuts)
  BY <1>b, <1>g DEF OneAtATime, RunningFits, TypeOK
<1>j. Good(running) /\ UNCHANGED <<part, running>> => Good(running)'
  BY DEF Good
<1>1. ASSUME NEW s \in Slot, BootSlot(s) PROVE SlotParts'
  <2> DEFINE e == Tried(abC, s)
  <2>1. /\ device = "boot" /\ IsChosen(abC, s) /\ running' = s /\ awaited' = Single
        /\ pc' = "idle" /\ nowPc' \in {"idle", "read"} /\ UNCHANGED <<part, cuts>>
        /\ abC' = e /\ ab' = e
        /\ (Good(s) => device' = "main" /\ nowPc' = "read")
        /\ (~Good(s) => device' = "boot" /\ nowPc' = "idle")
    BY <1>1, <1>g DEF BootSlot, OneAtATime
  <2>2. BootData(abC, cuts)
    BY <1>g, <2>1 DEF BootFits
  <2>3. /\ SoundData(e) /\ (Good(s) => RunningData(e, s, cuts))
        /\ (~Good(s) => BootData(e, cuts))
    BY <1>e, <1>g, <2>1, <2>2, TriedData
  <2> HIDE DEF e
  <2>4. SoundData(ab)' /\ SoundData(abC)'
    BY <1>a, <2>1, <2>3 DEF SoundData, Unmarked
  <2>5. OneAtATime' /\ Prepared'
    BY <2>1 DEF OneAtATime, Prepared
  <2>6. CASE Good(s)
    <3>1. Good(running)'
      BY <2>1, <2>6 DEF Good
    <3> QED
      BY <2>1, <2>3, <2>4, <2>5, <2>6, <3>1 DEF SlotParts, RunningFits, BootFits
  <2>7. CASE ~Good(s)
    <3>1. BootData(abC, cuts)'
      BY <2>1, <2>3, <2>7 DEF BootData, Good
    <3> QED
      BY <2>1, <2>4, <2>5, <2>7, <3>1 DEF SlotParts, RunningFits, BootFits
  <2> QED
    BY <2>6, <2>7
<1>2. ASSUME BootSingle PROVE SlotParts'
  BY <1>2, <1>c DEF BootSingle
<1>3. ASSUME NEW r \in Requests, StartChild(r.items) PROVE SlotParts'
  BY <1>3, <1>g DEF StartChild, OneAtATime
\* What reads and writes nothing, or fails.
<1>4. ASSUME NowRead PROVE SlotParts'
  <2>1. /\ nowPc = "read" /\ UNCHANGED <<device, running, part, ab, abC, pc, buf, awaited>>
        /\ \/ nowPc' = "write" /\ nowBuf' = abC /\ cuts' = cuts
           \/ nowPc' = "idle" /\ cuts' = cuts + 1
    BY <1>4 DEF NowRead, SlotFails
  <2>2. device = "main" /\ pc = "idle" /\ awaited = Single
    BY <1>b, <1>g, <2>1 DEF OneAtATime, Prepared, TypeOK
  <2>3. SoundData(ab)' /\ SoundData(abC)'
    BY <1>a, <1>g, <2>1 DEF SoundData, Unmarked
  <2>4. OneAtATime' /\ Prepared' /\ BootFits'
    BY <1>g, <2>1, <2>2 DEF OneAtATime, Prepared, BootFits
  <2>5. Good(running)'
    BY <1>g, <2>1, <2>2 DEF RunningFits, Good
  <2>6. /\ RunningData(ab, running, cuts) /\ RunningData(abC, running, cuts)
        /\ HasTries(abC, running, cuts + 1)
    BY <1>g, <2>2 DEF RunningFits, RunningData
  <2>7. RunningData(ab, running, cuts + 1) /\ RunningData(abC, running, cuts + 1)
    BY <1>e, <1>f, <2>6, RunningMonotone
  <2> QED
    BY <2>1, <2>3, <2>4, <2>5, <2>6, <2>7 DEF SlotParts, RunningFits
<1>5. ASSUME NowWrite PROVE SlotParts'
  <2>1. /\ nowPc = "write" /\ nowPc' = "idle" /\ UNCHANGED <<device, running, part, ab, pc, buf, awaited>>
        /\ \/ abC' = Succeeded(nowBuf, running, macros) /\ cuts' = cuts
           \/ abC' = abC /\ cuts' = cuts + 1
    BY <1>5 DEF NowWrite, SlotFails
  <2>2. device = "main" /\ pc = "idle" /\ awaited = Single /\ nowBuf = abC
    BY <1>b, <1>g, <2>1 DEF OneAtATime, Prepared, TypeOK
  <2>3. OneAtATime' /\ Prepared' /\ BootFits' /\ Good(running)'
    BY <1>g, <2>1, <2>2 DEF OneAtATime, Prepared, BootFits, RunningFits, Good
  <2>4. /\ RunningData(ab, running, cuts) /\ RunningData(abC, running, cuts)
        /\ HasTries(abC, running, cuts + 1)
    BY <1>g, <2>2 DEF RunningFits, RunningData
  <2>5. CASE abC' = Succeeded(nowBuf, running, macros) /\ cuts' = cuts
    <3> DEFINE e == Succeeded(abC, running, macros)
    <3>1. macros \cap Macros # {}
      BY DEF SlotsAreKept, BuildsMark, SlotsInv
    <3>2. SoundData(e) /\ RunningData(e, running, cuts) /\ HasTries(e, running, cuts)
      BY <1>e, <1>g, <2>4, <3>1, SucceededData
    <3>3. abC' = e
      BY <2>2, <2>5
    <3> HIDE DEF e
    <3>4. SoundData(ab)' /\ SoundData(abC)'
      BY <1>a, <1>g, <2>1, <3>2, <3>3 DEF SoundData, Unmarked
    <3> QED
      BY <2>1, <2>3, <2>4, <2>5, <3>2, <3>3, <3>4 DEF SlotParts, RunningFits
  <2>6. CASE abC' = abC /\ cuts' = cuts + 1
    <3>1. SoundData(ab)' /\ SoundData(abC)'
      BY <1>a, <1>g, <2>1, <2>6 DEF SoundData, Unmarked
    <3>2. RunningData(ab, running, cuts + 1) /\ RunningData(abC, running, cuts + 1)
      BY <1>e, <1>f, <2>4, RunningMonotone
    <3> QED
      BY <2>1, <2>3, <2>4, <2>6, <3>1, <3>2 DEF SlotParts, RunningFits
  <2> QED
    BY <2>1, <2>5, <2>6
<1>6. ASSUME NEW r \in Requests, Start(r) PROVE SlotParts'
  <2>1. /\ device = "main" /\ nowPc = "idle" /\ Begin(r)
        /\ UNCHANGED <<device, running, part, ab, abC, nowPc, nowBuf, cuts, awaited>>
    BY <1>6 DEF Start, SlotsAreKept, NowIsFirst
  <2>2. pc' # "slot_write" /\ buf' = buf
    <3>1. r.mode \in {"update", "misc", "other"}
      BY RequestsAssumption DEF RequestType
    <3> QED
      BY <2>1, <3>1 DEF Begin, Exit
  <2>3. Good(running)'
    BY <1>g, <2>1, <1>j DEF RunningFits
  <2> QED
    BY <1>h, <2>1, <2>2, <2>3
<1>7. ASSUME Download \/ Analyse \/ Skip \/ Finish \/ MiscBcb PROVE SlotParts'
  <2>1. /\ pc # "idle" /\ pc' # "slot_write"
        /\ UNCHANGED <<device, running, part, ab, abC, buf, nowPc, nowBuf, cuts, awaited>>
    BY <1>7, <1>c DEF Download, Analyse, Skip, Finish, MiscBcb, Failed, Exit
  <2> QED
    BY <1>h, <1>i, <1>j, <2>1
<1>8. ASSUME NEW n \in Names, WriteBegin(n) \/ WriteEnd(n) \/ Check(n) PROVE SlotParts'
  <2>1. /\ pc # "idle" /\ pc' # "slot_write"
        /\ UNCHANGED <<device, running, ab, abC, buf, nowPc, nowBuf, cuts, awaited>>
        /\ \/ UNCHANGED part
           \/ \E v : part' = [part EXCEPT ![<<n, Dest(n)>>] = v]
    BY <1>8 DEF WriteBegin, WriteEnd, Check, Failed, Exit
  <2>2. Good(running)'
    <3>1. CASE UNCHANGED part
      BY <1>i, <1>j, <2>1, <3>1
    <3>2. CASE \E v : part' = [part EXCEPT ![<<n, Dest(n)>>] = v]
      <4>1. /\ part'[<<"boot", running>>] = part[<<"boot", running>>]
            /\ part'[<<"rootfs", running>>] = part[<<"rootfs", running>>]
        BY <1>b, <1>c, <3>2, RunningSpared
      <4> QED
        BY <1>i, <2>1, <4>1 DEF Good
    <3> QED
      BY <2>1, <3>1, <3>2
  <2> QED
    BY <1>h, <1>i, <2>1, <2>2
<1>9. ASSUME ActivityRead PROVE SlotParts'
  <2>1. /\ pc = "slot_read" /\ UNCHANGED <<device, running, part, ab, abC, nowPc, awaited>>
        /\ \/ pc' = "slot_write" /\ buf' = abC /\ cuts' = cuts
           \/ pc' # "slot_write" /\ cuts' = cuts + 1
    BY <1>9 DEF ActivityRead, SlotFails, AfterCallback, Exit
  <2>2. SoundData(ab)' /\ SoundData(abC)'
    BY <1>a, <1>g, <2>1 DEF SoundData, Unmarked
  <2>3. OneAtATime' /\ Prepared' /\ BootFits' /\ Good(running)'
    BY <1>g, <1>i, <1>j, <2>1 DEF OneAtATime, Prepared, BootFits
  <2>4. /\ RunningData(ab, running, cuts + 1) /\ RunningData(abC, running, cuts + 1)
        /\ HasTries(abC, running, cuts + 1)
    BY <1>e, <1>f, <1>i, <2>1, RunningMonotone, HasTriesMonotone
  <2> QED
    BY <1>i, <2>1, <2>2, <2>3, <2>4 DEF SlotParts, RunningFits
<1>10. ASSUME ActivityWrite PROVE SlotParts'
  <2>1. /\ pc = "slot_write" /\ pc' # "slot_write" /\ UNCHANGED <<device, running, part, ab, nowPc, buf>>
        /\ \/ abC' = Activated(buf, running, macros) /\ awaited' = 1 - running /\ cuts' = cuts
           \/ abC' = abC /\ awaited' = awaited /\ cuts' = cuts + 1
    BY <1>10 DEF ActivityWrite, SlotFails, AfterCallback, Exit
  <2>2. buf = abC /\ device = "main" /\ nowPc = "idle"
    BY <1>g, <1>i, <2>1 DEF OneAtATime
  <2>3. OneAtATime' /\ BootFits' /\ Good(running)'
    BY <1>g, <1>i, <1>j, <2>1, <2>2 DEF OneAtATime, BootFits
  <2>4. CASE abC' = Activated(buf, running, macros) /\ awaited' = 1 - running /\ cuts' = cuts
    <3> DEFINE e == Activated(abC, running, macros)
    <3>1. /\ SoundData(e) /\ RunningData(e, running, cuts) /\ HasTries(e, running, cuts)
          /\ Ahead(e, 1 - running) /\ Bootable(e.slots[1 - running])
      BY <1>e, <1>g, <1>i, <2>1, ActivatedData
    <3>2. abC' = e
      BY <2>2, <2>4
    <3> HIDE DEF e
    <3>3. SoundData(ab)' /\ SoundData(abC)'
      BY <1>a, <1>g, <2>1, <3>1, <3>2 DEF SoundData, Unmarked
    <3>4. Prepared'
      BY <1>e, <2>1, <2>2, <2>4, <3>1, <3>2, Other DEF Prepared
    <3> QED
      BY <1>i, <2>1, <2>3, <2>4, <3>1, <3>2, <3>3, <3>4 DEF SlotParts, RunningFits
  <2>5. CASE abC' = abC /\ awaited' = awaited /\ cuts' = cuts + 1
    <3>1. SoundData(ab)' /\ SoundData(abC)' /\ Prepared'
      BY <1>a, <1>g, <2>1, <2>5 DEF SoundData, Unmarked, Prepared
    <3>2. /\ RunningData(ab, running, cuts + 1) /\ RunningData(abC, running, cuts + 1)
          /\ HasTries(abC, running, cuts + 1)
      BY <1>e, <1>f, <1>i, <2>1, RunningMonotone, HasTriesMonotone
    <3> QED
      BY <2>1, <2>3, <2>5, <3>1, <3>2 DEF SlotParts, RunningFits
  <2> QED
    BY <2>1, <2>4, <2>5
\* A reboot, which writes back what the kernel holds.
<1>11. ASSUME device = "main", nowPc = "idle", device' = "boot", pc' = "idle", nowPc' = "idle",
              ab' = abC, UNCHANGED <<running, part, abC, cuts, awaited>>
       PROVE  SlotParts'
  <2>1. SoundData(ab)' /\ SoundData(abC)'
    BY <1>11, <1>a, <1>g DEF SoundData, Unmarked
  <2>2. BootData(abC, cuts)
    BY <1>11, <1>e, <1>f, <1>g, RunningBoots DEF RunningFits
  <2>3. BootData(abC, cuts)'
    BY <1>11, <2>2 DEF BootData, Good
  <2> QED
    BY <1>11, <1>g, <2>1, <2>3 DEF SlotParts, OneAtATime, RunningFits, BootFits, Prepared
<1>12. ASSUME End PROVE SlotParts'
  <2>1. pc = "exit" /\ pc' = "idle" /\ UNCHANGED <<running, part, abC, buf, nowBuf, cuts, awaited>>
    BY <1>12 DEF End
  <2>2. CASE device' = "boot"
    BY <1>11, <1>12, <1>i, <2>1, <2>2 DEF End
  <2>3. CASE device' # "boot"
    BY <1>12, <1>h, <1>i, <1>j, <2>1, <2>3 DEF End
  <2> QED
    BY <2>2, <2>3
<1>13. ASSUME WriteBack PROVE SlotParts'
  <2>1. /\ UNCHANGED <<device, running, part, abC, pc, buf, nowPc, nowBuf, cuts, awaited>>
        /\ ab' = ab \/ ab' = abC
    BY <1>13 DEF WriteBack
  <2>2. SoundData(ab)' /\ SoundData(abC)'
    BY <1>a, <1>g, <2>1 DEF SoundData, Unmarked
  <2>3. OneAtATime' /\ Prepared'
    BY <1>g, <2>1 DEF OneAtATime, Prepared
  <2>4. BootFits'
    BY <1>g, <2>1 DEF BootFits, BootData, Good
  <2>5. RunningFits'
    BY <1>g, <2>1 DEF RunningFits, Good
  <2> QED
    BY <2>2, <2>3, <2>4, <2>5 DEF SlotParts
<1>14. ASSUME UserReboot PROVE SlotParts'
  BY <1>11, <1>14 DEF UserReboot
<1>15. ASSUME PowerCut PROVE SlotParts'
  <2>1. /\ device \in {"main", "recovery"} /\ device' = "boot" /\ pc' = "idle" /\ nowPc' = "idle"
        /\ awaited' = Single /\ abC' = ab /\ cuts' = cuts + 1 /\ UNCHANGED <<running, part, ab>>
    BY <1>15 DEF PowerCut
  <2>2. SoundData(ab)' /\ SoundData(abC)'
    BY <1>a, <1>g, <2>1 DEF SoundData, Unmarked
  <2>3. BootData(ab, cuts + 1)
    BY <1>e, <1>f, <1>g, <2>1, RunningBoots DEF RunningFits, OneAtATime
  <2>4. BootData(abC, cuts)'
    BY <2>1, <2>3 DEF BootData, Good
  <2> QED
    BY <2>1, <2>2, <2>4 DEF SlotParts, OneAtATime, RunningFits, BootFits, Prepared
<1>16. ASSUME UNCHANGED vars PROVE SlotParts'
  <2>1. UNCHANGED <<macros, device, running, part, ab, abC, pc, buf, nowPc, nowBuf, cuts,
                    awaited>>
    BY <1>16 DEF vars
  <2> QED
    BY <1>d, <2>1 DEF SlotParts, OneAtATime, SoundData, Unmarked, RunningFits, BootFits,
                      BootData, Good, Prepared
<1> QED
  BY <1>1, <1>2, <1>3, <1>4, <1>5, <1>6, <1>7, <1>8, <1>9, <1>10, <1>12, <1>13, <1>14,
     <1>15, <1>16
  DEF Next, Boot, Program

\* What the invariant says of the copy on the medium.
LEMMA SlotsComeBack == SlotsAreKept /\ SlotsInv => AlwaysComesBack
<1> SUFFICES ASSUME SlotsAreKept, SlotsInv, slotted = TRUE PROVE AlwaysComesBack
  BY DEF AlwaysComesBack, SlotsInv, TypeOK
<1>1. TypeOK /\ SlotParts
  BY DEF SlotsInv
<1>2. SoundData(ab) /\ ab \in AvbABData /\ cuts \in Nat /\ cuts + 2 <= MaxTries
  BY <1>1, BoundsAssumption, MaxTriesAssumption
  DEF SlotParts, TypeOK, SlotsAreKept, TriesOutlast
<1>3. \E s \in Slot : /\ Good(s) /\ HasTries(ab, s, cuts + 1)
                      /\ Good(1 - s) \/ Reached(ab, s)
  <2>1. CASE device = "main"
    BY <1>1, <2>1 DEF SlotParts, RunningFits, RunningData, TypeOK
  <2>2. CASE device = "boot"
    <3>1. BootData(ab, cuts)
      BY <1>1, <2>2 DEF SlotParts, BootFits, OneAtATime
    <3> QED
      BY <1>2, <3>1, HasTriesMonotone DEF BootData
  <2> QED
    BY <1>1, <2>1, <2>2 DEF SlotParts, OneAtATime, TypeOK
<1>4. PICK s \in Slot : /\ Good(s) /\ HasTries(ab, s, cuts + 1)
                        /\ Good(1 - s) \/ Reached(ab, s)
  BY <1>3
<1>5. Bootable(ab.slots[s])
  <2>1. ab.slots[s].ok \/ ab.slots[s].tries > 0
    BY <1>2, <1>4, SlotFields, MaxTriesAssumption DEF HasTries
  <2> QED
    BY <1>2, <2>1 DEF SoundData, Ordered, Bootable
<1>6. Reached(ab, s) => \/ ~ab.slots[1 - s].ok
                        \/ ab.slots[1 - s].priority < ab.slots[s].priority
  BY <1>2, SlotFields, Other DEF Reached, Ahead
<1> QED
  BY <1>4, <1>5, <1>6 DEF AlwaysComesBack

\* Whatever release does not boot, whatever was cut short or failed, an A/B
\* device keeps a slot that boots and that the boot loader comes to: for every
\* number of power cuts and failures below the number of tries, every set of
\* command lines given after --misc=now and every build that marks its boot.
THEOREM ComesBack == SlotsAreKept => (Spec => []AlwaysComesBack)
<1> SUFFICES ASSUME SlotsAreKept PROVE Spec => []AlwaysComesBack
  OBVIOUS
<1>1. Init => SlotsInv
  BY SlotsInit DEF SlotsAreKept
<1>2. SlotsInv /\ [Next]_vars => SlotsInv'
  BY SlotsStep
<1>3. SlotsInv => AlwaysComesBack
  BY SlotsComeBack
<1> QED
  BY <1>1, <1>2, <1>3, PTL DEF Spec

\* The only step that ends the wait for a slot without a power cut boots it.
LEMMA ActivationStep ==
    ASSUME SlotsInv, Next, slotted = TRUE, awaited # Single, awaited' = Single, cuts' = cuts
    PROVE  running' = awaited
<1> USE DEF kind, misc, engine, now, bounds
<1>1. TypeOK /\ Prepared /\ SoundData(abC)
  BY DEF SlotsInv, SlotParts
<1>2. \A s \in Slot : 1 - s # Single
  BY DEF Slot, Single
<1>0. running \in Slot /\ cuts \in Nat
  BY <1>1, BoundsAssumption DEF TypeOK
<1>3. PICK s \in Slot : BootSlot(s)
  <2>1. awaited' # awaited
    OBVIOUS
  <2>2. (\E s \in Slot : BootSlot(s)) \/ ActivityWrite \/ PowerCut
    BY <2>1 DEF Next, Boot, Program, BootSingle, NowRead, NowWrite, Start, StartChild,
         Download, Analyse, Skip, WriteBegin, WriteEnd, Check, Finish, ActivityRead,
         MiscBcb, End, WriteBack, UserReboot
  <2>3. ~ActivityWrite
    BY <1>0, <1>2, <2>1 DEF ActivityWrite
  <2>4. ~PowerCut
    <3>1. PowerCut => cuts' = cuts + 1
      BY DEF PowerCut
    <3>2. cuts' = cuts /\ cuts + 1 # cuts
      BY <1>0
    <3> QED
      BY <3>1, <3>2
  <2> QED
    BY <2>2, <2>3, <2>4
<1>4. IsChosen(abC, s) /\ running' = s
  BY <1>3 DEF BootSlot
<1>5. CASE s = 1 - awaited
  <2>1. awaited \in Slot /\ 1 - s = awaited
    BY <1>1, <1>5, Other DEF Prepared
  <2>2. Bootable(abC.slots[1 - s]) /\ Ahead(abC, 1 - s)
    BY <1>1, <2>1 DEF Prepared
  <2>3. \/ abC.slots[s].priority > abC.slots[1 - s].priority
        \/ abC.slots[s].priority = abC.slots[1 - s].priority
    BY <1>4, <2>2 DEF IsChosen
  <2>4. abC.slots[1 - s].priority > abC.slots[s].priority
    BY <1>5, <2>1, <2>2 DEF Ahead
  <2>5. abC.slots[1 - s].priority \in Nat /\ abC.slots[s].priority \in Nat
    BY <1>1, <2>1, SlotFields DEF TypeOK
  <2> QED
    BY <2>3, <2>4, <2>5
<1> QED
  BY <1>1, <1>4, <1>5, Other DEF Prepared

\* Without slots nothing is prepared.
Unslotted == slotted = FALSE => awaited = Single /\ pc \notin {"slot_read", "slot_write"}

LEMMA UnslottedStep == TypeOK /\ Unslotted /\ [Next]_vars => Unslotted'
<1> SUFFICES ASSUME TypeOK, Unslotted, [Next]_vars, slotted' = FALSE
             PROVE  awaited' = Single /\ pc' \notin {"slot_read", "slot_write"}
  BY DEF Unslotted
<1> USE DEF kind, misc, engine, now, bounds
<1>1. ~slotted /\ slotted = FALSE
  BY DEF Next, Boot, Program, BootSlot, BootSingle, NowRead, NowWrite, Start, StartChild,
         Download, Analyse, Skip, WriteBegin, WriteEnd, Check, Finish, ActivityRead,
         ActivityWrite, MiscBcb, End, WriteBack, UserReboot, PowerCut, vars
<1>2. awaited = Single /\ pc \notin {"slot_read", "slot_write"}
  BY <1>1 DEF Unslotted
<1>3. awaited' = Single
  BY <1>1, <1>2
  DEF Next, Boot, Program, BootSlot, BootSingle, NowRead, NowWrite, Start, StartChild,
      Download, Analyse, Skip, WriteBegin, WriteEnd, Check, Finish, ActivityRead,
      ActivityWrite, MiscBcb, End, WriteBack, UserReboot, PowerCut, vars
<1>4. ASSUME NEW r \in Requests, Start(r) PROVE pc' \notin {"slot_read", "slot_write"}
  <2>1. r.mode = "misc" /\ Begin(r)
    BY <1>1, <1>4 DEF Start
  <2> QED
    BY <2>1 DEF Begin, Exit
<1>5. ASSUME NEW r \in Requests, StartChild(r.items)
      PROVE  pc' \notin {"slot_read", "slot_write"}
  <2> DEFINE line == [NoRequest EXCEPT !.mask = bcbC.need, !.items = r.items, !.url = bcbC.url]
  <2>1. line.mode = "update"
    BY DEF NoRequest
  <2>2. pc' = "exit" \/ Begin(line)
    BY <1>5, Zenon DEF StartChild, Exit
  <2> HIDE DEF line
  <2> QED
    BY <2>1, <2>2 DEF Begin, Exit
<1>6. ASSUME Boot \/ NowRead \/ NowWrite \/ End \/ WriteBack \/ UserReboot \/ PowerCut
             \/ UNCHANGED vars
      PROVE  pc' \notin {"slot_read", "slot_write"}
  BY <1>2, <1>6 DEF Boot, BootSlot, BootSingle, NowRead, NowWrite, End, WriteBack, UserReboot,
                    PowerCut, vars
<1>7. ASSUME Download \/ Analyse \/ Skip \/ Finish \/ ActivityRead \/ ActivityWrite \/ MiscBcb
             \/ \E n \in Names : WriteBegin(n) \/ WriteEnd(n) \/ Check(n)
      PROVE  pc' \notin {"slot_read", "slot_write"}
  <2>1. CASE ActivityRead \/ ActivityWrite
    BY <1>2, <2>1 DEF ActivityRead, ActivityWrite
  <2>2. CASE Download \/ Analyse \/ Skip \/ Finish \/ MiscBcb
    BY <1>1, <2>2 DEF Download, Analyse, Skip, Finish, MiscBcb, AfterCallback, Failed, Exit
  <2>3. ASSUME NEW n \in Names, WriteBegin(n) \/ WriteEnd(n) \/ Check(n)
        PROVE  pc' \notin {"slot_read", "slot_write"}
    BY <2>3 DEF WriteBegin, WriteEnd, Check, Failed, Exit
  <2> QED
    BY <1>7, <2>1, <2>2, <2>3
<1> QED
  BY <1>3, <1>4, <1>5, <1>6, <1>7 DEF Next, Program

\* The slot that setSlotActivity prepared is the next one to be booted unless
\* the power was cut before, under the same hypotheses; it is the order of
\* --misc=now and the command lines that this needs most.
THEOREM TakesEffect == SlotsAreKept => (Spec => ActivationTakesEffect)
<1> SUFFICES ASSUME SlotsAreKept PROVE Spec => ActivationTakesEffect
  OBVIOUS
<1>1. Init => SlotsInv /\ Unslotted
  BY SlotsInit DEF SlotsAreKept, Init, Unslotted
<1>2. SlotsInv /\ Unslotted /\ [Next]_vars => SlotsInv' /\ Unslotted'
  BY SlotsStep, UnslottedStep DEF SlotsInv
<1>3. SlotsInv /\ Unslotted /\ [Next]_vars =>
        [awaited # Single /\ awaited' = Single /\ cuts' = cuts => running' = awaited]_vars
  <2> SUFFICES ASSUME SlotsInv, Unslotted, Next,
                      awaited # Single, awaited' = Single, cuts' = cuts
               PROVE  running' = awaited
    OBVIOUS
  <2>1. slotted = TRUE
    BY DEF Unslotted, SlotsInv, TypeOK
  <2> QED
    BY <2>1, ActivationStep
<1> QED
  BY <1>1, <1>2, <1>3, PTL DEF Spec, ActivationTakesEffect
=============================================================================
