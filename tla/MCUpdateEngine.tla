--------------------------- MODULE MCUpdateEngine ---------------------------
(* Values for the constants of UpdateEngine: command lines that differ in  *)
(* what main.cpp and update.cpp branch on.                                 *)
EXTENDS UpdateEngine

Line(mode, mask, items, url, save) ==
    [mode |-> mode, mask |-> mask, items |-> items, url |-> url, save |-> save,
     checked |-> FALSE, reboot |-> TRUE]

System == {"boot", "rootfs"}

BothSlots == Line("update", System, System \cup {"parameter"}, "http", "null")
Missing   == [Line("update", System, {"boot"}, "path", "path") EXCEPT !.reboot = FALSE]
InPlace   == [Line("update", {"parameter", "oem", "misc"}, Names, "other", "null")
                EXCEPT !.checked = TRUE]
Other     == Line("other", {}, {}, "null", "null")
SlotLines == {BothSlots, Missing, InPlace, Other}

SaveThenWrite == Line("misc", {"boot", "recovery"}, Names, "http", "path")
WriteLocal    == Line("misc", {"rootfs"}, Names, "path", "path")
NoUrl         == Line("misc", {"boot"}, Names, "null", "path")
NoSavePath    == Line("misc", {"boot", "recovery"}, Names, "other", "null")
DefaultPath   == Line("misc", {"boot"}, Names, "other", "default")
RecoveryLines == {SaveThenWrite, WriteLocal, NoUrl, NoSavePath, DefaultPath}

Lines == SlotLines \cup RecoveryLines

BothDevices == BOOLEAN
ABDevices == {TRUE}

EitherMacro == {{"SUCCESSFUL_BOOT"}, {"RETRY_BOOT"}}

AllFaults == FaultKinds
NoFaults == {}
FirstIsBad == {1}
NoneBad == {}
=============================================================================
