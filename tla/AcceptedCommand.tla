--------------------------- MODULE AcceptedCommand ---------------------------
(***************************************************************************)
(* What the comment at the head of recovery.c promises for every command:  *)
(* once it is accepted (its arguments are in the BCB) it stays accepted    *)
(* over any number of restarts, each of which begins the work again, until *)
(* its effect is complete or has failed.  The promise has one hole, which  *)
(* is a step of its own here (Lose): each restart stores the command anew, *)
(* and on raw flash it is off the medium meanwhile.                        *)
(***************************************************************************)
CONSTANTS Jobs, NoJob

VARIABLES
    job,      \* the accepted command, or NoJob
    effect,   \* how far its effect has come: "none", "partial", "done"
    failed,   \* the running attempt has failed
    stage     \* the command is "waiting" for a run, stored anew by it
              \*   ("writing"), or worked on ("working")

vars == <<job, effect, failed, stage>>

Init == job = NoJob /\ effect = "none" /\ failed = FALSE /\ stage = "waiting"

\* An earlier command may have left its effect half done.
Accept(j) ==
    /\ job = NoJob
    /\ job' = j /\ effect' \in {"none", "partial"} /\ failed' = FALSE
    /\ stage' = "writing"

\* A run stores the command again before it works on it, or works on what
\* is stored; one that was stored for a later run waits for it.
Proceed ==
    /\ job # NoJob
    /\ <<stage, stage'>> \in {<<"waiting", "writing">>, <<"waiting", "working">>,
                              <<"writing", "waiting">>, <<"writing", "working">>}
    /\ UNCHANGED <<job, effect, failed>>

\* The power fails between the erasure of the command and its rewriting.
Lose ==
    /\ job # NoJob /\ stage = "writing"
    /\ job' = NoJob /\ effect' = "none" /\ failed' = FALSE /\ stage' = "waiting"

Working == job # NoJob /\ stage = "working"

\* Any change breaks what was there until the work is finished.
Begin  == Working /\ ~failed /\ effect' = "partial" /\ UNCHANGED <<job, failed, stage>>
Finish == Working /\ ~failed /\ effect' = "done" /\ UNCHANGED <<job, failed, stage>>

Fail == Working /\ failed' = TRUE /\ UNCHANGED <<job, effect, stage>>

\* A restart forgets that the last attempt failed, and nothing else.
Restart == Working /\ failed' = FALSE /\ stage' = "waiting" /\ UNCHANGED <<job, effect>>

Release ==
    /\ Working /\ (effect = "done" \/ failed)
    /\ job' = NoJob /\ effect' = "none" /\ failed' = FALSE /\ stage' = "waiting"

Next ==
    \/ \E j \in Jobs : Accept(j)
    \/ Proceed \/ Lose \/ Begin \/ Finish \/ Fail \/ Restart \/ Release

Spec == Init /\ [][Next]_vars
=============================================================================
