----------------------------- MODULE MCRecovery -----------------------------
(* Values for the constants of Recovery: small sets of commands, each of   *)
(* them a file the main system may write.                                  *)
EXTENDS Recovery

\* One command per branch of main(), and one with options around it.
EraseCommands == {<<"wipe_data">>, <<"wipe_all", "show_text">>, <<"fs_on">>,
                  <<"fs_bad">>, <<"send_intent", "wipe_data">>}
\* An erase, one that fails, one that goes on after it, and an update.
FileCommands == {<<"wipe_data">>, <<"fs_bad">>, <<"wipe_all", "show_text">>, <<"update_data">>}
OnePackage == {"update_ext"}
\* The longest way through main(), and the shortest.
TwoCommands == {<<"wipe_all", "show_text">>, <<"fs_bad">>}
Wipe == {<<"wipe_data">>}
NoCommands == {}

BothPackages == {"update_data", "update_ext"}
NoPackages == {}

NoCard == {"none"}
AllCards == SdKinds

NoFaults == {}
\* Failures the code reports: the child or umount fails, a copy is refused.
HonestFaults == {"flash", "umount", "resize", "copy"}
\* Every failure but those of the format itself.
TransferFaults == FaultKinds \ {"umount", "mkfs"}
\* Every failure but that of writing the BCB.
AllButMiscWrite == FaultKinds \ {"misc_write"}
=============================================================================
