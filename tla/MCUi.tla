-------------------------------- MODULE MCUi --------------------------------
(* Instances of UiThreads.  The queue of 256 keys has two places; the     *)
(* question before a wipe has three answers of eleven, Yes in the middle. *)
EXTENDS UiThreads

KeyDown(c) == [kind |-> "key", code |-> c, value |-> 1]
Buttons == {KeyDown(c) : c \in {"down", "enter", "menu"}}
Trackball == {[kind |-> "roll", code |-> "other", value |-> v] : v \in {-2, 2}}
AllEvents ==
    Buttons \cup Trackball \cup {KeyDown("other")}
        \cup {[kind |-> "key", code |-> "enter", value |-> 0],
              [kind |-> "sync", code |-> "other", value |-> 0]}
=============================================================================
