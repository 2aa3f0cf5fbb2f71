---------------------------- MODULE MCApplyPatch ----------------------------
(* Values for the constants of ApplyPatch: a script of two files, of two   *)
(* units each.                                                             *)
EXTENDS ApplyPatch

TwoFiles == <<"a", "b">>
TwoUnits == [g \in {"a", "b"} |-> 2]

\* The first is a file patched in place, the second of any kind; or the other
\* way round.
AnyKinds == {[a |-> "file", b |-> c] : c \in KindNames}
              \cup {[a |-> c, b |-> "file"] : c \in KindNames}

\* With room for both files and no margin, and with a margin.
TightOrWide == {7, 9}
\* Room for one copy, and for two besides the open file.
OneOrTwoCopies == {3, 5}

SomeJunk == {"log", "old"}
OpenLog == {"log"}
AllFaults == FaultKinds
EarlyOrLate == BOOLEAN
WithOrWithout == BOOLEAN
=============================================================================
