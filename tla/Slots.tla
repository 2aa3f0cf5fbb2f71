-------------------------------- MODULE Slots --------------------------------
(***************************************************************************)
(* The A/B data in the misc partition (AvbABData of bootloader.h): what    *)
(* setSlotSucceed and setSlotActivity of rkbootloader.cpp write, and what  *)
(* the boot loader does with it, as the comments in bootloader.h describe. *)
(* Magic, version and CRC are constant or recomputed by every write.       *)
(***************************************************************************)
EXTENDS Naturals

CONSTANTS
    MaxPriority,  \* AVB_AB_MAX_PRIORITY
    MaxTries      \* AVB_AB_MAX_TRIES_REMAINING

ASSUME MaxPriorityAssumption == MaxPriority \in Nat \ {0, 1}
ASSUME MaxTriesAssumption    == MaxTries \in Nat \ {0}

\* What a build may define: the argument m of the operators below.
Macros == {"SUCCESSFUL_BOOT", "RETRY_BOOT"}

Slot == {0, 1}

SlotData  == [priority : 0..MaxPriority, tries : 0..MaxTries, ok : BOOLEAN]
AvbABData == [slots : [Slot -> SlotData], last : Slot]

\* What a device leaves the factory with.
FactoryAB ==
    [slots |-> [s \in Slot |-> [priority |-> MaxPriority - s, tries |-> MaxTries,
                                ok |-> FALSE]],
     last |-> 0]

-----------------------------------------------------------------------------
(* setSlotSucceed: the running slot has booted.                            *)

SucceededSlot(d, m) ==
    LET booted == IF "SUCCESSFUL_BOOT" \in m
                  THEN [d EXCEPT !.tries = 0, !.ok = TRUE] ELSE d
    IN  IF "RETRY_BOOT" \in m THEN [booted EXCEPT !.tries = MaxTries] ELSE booted

Succeeded(info, now, m) ==
    [info EXCEPT !.slots[now] = SucceededSlot(@, m), !.last = now]

-----------------------------------------------------------------------------
(* setSlotActivity: the other slot is to be booted next.                   *)

\* The other slot keeps its old mark of success, or rises above the highest
\* priority; the running slot keeps its own.
ActivatedKeepingOk(d, m)   == [d EXCEPT !.priority = MaxPriority, !.tries = MaxTries]
ActivatedAbove(d, m)     == [d EXCEPT !.priority = MaxPriority + 1, !.tries = MaxTries]
DemotedNot(d) == d

ActivatedSlot(d, m) ==
    [d EXCEPT !.priority = MaxPriority, !.tries = MaxTries,
              !.ok = IF "SUCCESSFUL_BOOT" \in m THEN FALSE ELSE @]
Demoted(d) == [d EXCEPT !.priority = MaxPriority - 1]

Activated(info, now, m) ==
    [info EXCEPT !.slots = [s \in Slot |-> IF s = now THEN Demoted(info.slots[s])
                                                     ELSE ActivatedSlot(info.slots[s], m)]]

-----------------------------------------------------------------------------
(* The boot loader (external).                                             *)

Bootable(d) == d.priority > 0 /\ (d.ok \/ d.tries > 0)

\* The bootable slot of the highest priority; slot 0 among equals.
IsChosen(info, s) ==
    /\ Bootable(info.slots[s])
    /\ LET d == info.slots[s]
           other == info.slots[1 - s]
       IN  Bootable(other) => \/ d.priority > other.priority
                              \/ d.priority = other.priority /\ s = 0

\* Booting a slot that is not known to work uses up one of its tries.
Tried(info, s) ==
    [info EXCEPT !.slots[s].tries = IF info.slots[s].ok THEN @ ELSE @ - 1]
=============================================================================
