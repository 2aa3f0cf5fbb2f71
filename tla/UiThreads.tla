----------------------------- MODULE UiThreads ------------------------------
(* The screen and the keys of recovery (ui.c): the thread that reads the   *)
(* input devices, the thread that moves the progress bar and the program   *)
(* itself, which draws, runs a child that reports its progress, and waits  *)
(* for keys in the menus.  A section under one of the two mutexes is one   *)
(* step: what it touches is touched under that mutex only, and no thread   *)
(* holds both.                                                             *)
EXTENDS Integers, Sequences

CONSTANTS QueueMax,             \* the length of key_queue
          ItemCount, Wipe,      \* of the main menu: its length, and one item
          ConfirmCount, Yes,    \* of the question before a wipe
          Events,               \* what the devices may report
          Full, Portions,       \* the steps of a scope, and the sizes of scopes
          MaxPresses, MaxCalls

Codes == {"down", "up", "enter", "menu", "other"}
EventKinds == {"key", "roll", "sync"}
Icons == {"none", "installing", "error"}

ASSUME QueueAssumption == QueueMax \in Nat \ {0}
ASSUME ItemsAssumption ==
    /\ ItemCount \in Nat \ {0} /\ Wipe \in 1 .. ItemCount - 1
    /\ ConfirmCount \in Nat \ {0} /\ Yes \in 0 .. ConfirmCount - 1
ASSUME EventsAssumption ==
    \A e \in Events : e.kind \in EventKinds /\ e.code \in Codes /\ e.value \in Int
ASSUME ScopeAssumption == Full \in Nat \ {0} /\ Portions \subseteq Nat

VARIABLES queue,     \* key_queue: each key with the round in which it was queued
          inp,       \* the input thread: what it has read and where it is
          rel,       \* rel_sum
          ui,        \* the variables under gUpdateMutex
          pages, front, same, \* the two pages, the visible one, gPagesIdentical
          pc,        \* where the program is
          menu, selected, key, visible, \* variables of get_menu_selection
          round,     \* how many menus were opened (a ghost)
          presses, calls

screen == <<ui, pages, front, same>>
choice == <<menu, selected, key, visible>>
vars == <<queue, inp, rel, screen, pc, choice, round, presses, calls>>

NoKey == [code |-> "other", round |-> 0]
\* A key in the hands of the input thread.
Held(stage, code) == [at |-> stage, code |-> code]
Idle == Held("poll", "other")

Blank == [icon |-> "blank", bar |-> <<"none", 0>>, text |-> <<>>]

Init ==
    /\ queue = <<>> /\ inp = Idle /\ rel = 0
    /\ ui = [icon |-> "none", bar |-> "none", start |-> 0, size |-> 0, at |-> 0,
             timed |-> FALSE, text |-> TRUE, menu |-> "none", sel |-> 0, line |-> 0]
    /\ pages = [p \in 0 .. 1 |-> Blank] /\ front = 0 /\ same = FALSE
    /\ pc = "work" /\ menu = "main" /\ selected = 0 /\ key = NoKey /\ visible = FALSE
    /\ round = 0 /\ presses = 0 /\ calls = 0
-----------------------------------------------------------------------------
(* Drawing.  The frame of the barber pole is left out.                     *)

Position(u) == u.start * Full + u.at * u.size
Bar(u) == IF u.bar = "normal" THEN <<u.bar, Position(u)>> ELSE <<u.bar, 0>>

\* draw_screen_locked: the icon, the bar, and the overlay with the log and the
\* menu in front of them.
Picture(u) ==
    [icon |-> u.icon, bar |-> Bar(u),
     text |-> IF ~u.text THEN <<>>
              ELSE IF u.menu = "none" THEN <<u.line>> ELSE <<u.line, u.menu, u.sel>>]

\* A drawing that forgets what it does to the other page.
UpdateScreenOnly(u) ==
    /\ ui' = u
    /\ pages' = [pages EXCEPT ![1 - front] = Picture(u)]
    /\ front' = 1 - front
    /\ UNCHANGED same

\* update_screen_locked: everything, on the hidden page, which is then shown.
UpdateScreen(u) ==
    /\ ui' = u
    /\ pages' = [pages EXCEPT ![1 - front] = Picture(u)]
    /\ front' = 1 - front
    /\ same' = FALSE

\* update_progress_locked: only the bar when both pages are the same.
UpdateProgress(u) ==
    /\ ui' = u
    /\ pages' = [pages EXCEPT ![1 - front] =
                    IF u.text \/ ~same THEN Picture(u)
                    ELSE IF u.bar = "none" THEN @ ELSE [@ EXCEPT !.bar = Bar(u)]]
    /\ front' = 1 - front
    /\ same' = IF u.text \/ ~same THEN TRUE ELSE same
-----------------------------------------------------------------------------
(* The input thread.                                                       *)

\* What a motion of the trackball adds up to.
Rolled(v) == IF rel + v > 3 THEN "down" ELSE IF rel + v < -3 THEN "up" ELSE "none"

\* input_callback up to the queue: a device reports a key, a motion, of which
\* four units make a key, or the end of a packet.
ReadEvent ==
    /\ inp.at = "poll" /\ presses < MaxPresses
    /\ presses' = presses + 1
    /\ \E e \in Events :
          \/ /\ e.kind = "sync" /\ UNCHANGED <<inp, rel>>
          \/ /\ e.kind = "roll"
             /\ IF Rolled(e.value) = "none" THEN rel' = rel + e.value /\ UNCHANGED inp
                ELSE rel' = 0 /\ inp' = Held("queue", Rolled(e.value))
          \/ /\ e.kind = "key" /\ rel' = 0
             /\ inp' = IF e.value > 0 THEN Held("queue", e.code) ELSE inp
    /\ UNCHANGED <<queue, screen, pc, choice, round, calls>>

\* A queue that wakes its reader when it was not empty.
EnqueueLate ==
    /\ inp.at = "queue"
    /\ queue' = IF Len(queue) < QueueMax
                THEN Append(queue, [code |-> inp.code, round |-> round]) ELSE queue
    /\ pc' = IF pc = "blocked" /\ Len(queue) \in 1 .. QueueMax - 1 THEN "wait" ELSE pc
    /\ inp' = [inp EXCEPT !.at = "toggle"]
    /\ UNCHANGED <<rel, screen, choice, round, presses, calls>>

\* A key beyond the end of the queue is dropped; it still has its other effect.
Enqueue ==
    /\ inp.at = "queue"
    /\ IF Len(queue) < QueueMax
       THEN /\ queue' = Append(queue, [code |-> inp.code, round |-> round])
            /\ pc' = IF pc = "blocked" THEN "wait" ELSE pc
       ELSE UNCHANGED <<queue, pc>>
    /\ inp' = [inp EXCEPT !.at = "toggle"]
    /\ UNCHANGED <<rel, screen, choice, round, presses, calls>>

\* device_toggle_display: the menu key shows and hides the text.
Toggle ==
    /\ inp.at = "toggle"
    /\ inp' = Idle
    /\ IF inp.code = "menu" THEN UpdateScreen([ui EXCEPT !.text = ~@])
                            ELSE UNCHANGED screen
    /\ UNCHANGED <<queue, rel, pc, choice, round, presses, calls>>
-----------------------------------------------------------------------------
(* The progress thread: the barber pole, and the bar that moves with time. *)

Tick ==
    /\ \/ ui.bar = "indeterminate" /\ ~ui.text /\ UpdateProgress(ui)
       \/ /\ ui.bar = "normal" /\ ui.timed
          /\ \E p \in ui.at + 1 .. Full : UpdateProgress([ui EXCEPT !.at = p])
    /\ UNCHANGED <<queue, inp, rel, pc, choice, round, presses, calls>>
-----------------------------------------------------------------------------
(* The program at work: what it and the child it reads from draw.          *)

Call ==
    /\ pc = "work" /\ calls < MaxCalls
    /\ calls' = calls + 1
    /\ UNCHANGED <<queue, inp, rel, pc, choice, round, presses>>

SetBackground == Call /\ \E i \in Icons : UpdateScreen([ui EXCEPT !.icon = i])

ShowIndeterminate ==
    /\ Call
    /\ IF ui.bar = "indeterminate" THEN UNCHANGED screen
       ELSE UpdateProgress([ui EXCEPT !.bar = "indeterminate"])

\* The child's "progress": a new scope behind the one before.
ShowProgress ==
    /\ Call
    /\ \E size \in Portions, timed \in BOOLEAN :
          UpdateProgress([ui EXCEPT !.bar = "normal", !.start = @ + ui.size,
                                    !.size = size, !.timed = timed, !.at = 0])

\* A bar that follows whatever the child says.
FollowProgress ==
    /\ Call
    /\ \E p \in 0 .. Full :
          IF ui.bar = "normal" /\ p * ui.size # ui.at * ui.size
          THEN UpdateProgress([ui EXCEPT !.at = p])
          ELSE UNCHANGED screen

\* The child's "set_progress": forward only, and only if it can be seen.
SetProgress ==
    /\ Call
    /\ \E p \in 0 .. Full :
          IF ui.bar = "normal" /\ p > ui.at /\ p * ui.size # ui.at * ui.size
          THEN UpdateProgress([ui EXCEPT !.at = p])
          ELSE UNCHANGED screen

Printed(u) == [u EXCEPT !.line = (@ + 1) % 2]
UiPrint == Call /\ UpdateScreen(Printed(ui))
ShowText == Call /\ \E v \in BOOLEAN : UpdateScreen([ui EXCEPT !.text = v])
-----------------------------------------------------------------------------
(* The menus.                                                              *)

Step(from, to) == pc = from /\ pc' = to
Local == UNCHANGED <<queue, inp, rel, presses, calls>>

\* prompt_and_wait, from its beginning or again.
Prompt ==
    /\ pc \in {"work", "again"} /\ pc' = "clear"
    /\ round' = round + 1 /\ menu' = "main"
    /\ UpdateScreen([ui EXCEPT !.bar = "none", !.start = 0, !.size = 0, !.at = 0,
                               !.timed = FALSE])
    /\ Local /\ UNCHANGED <<selected, key, visible>>

\* A menu that is opened over the keys that are there.
KeepKeys ==
    /\ Step("clear", "start")
    /\ selected' = 0
    /\ UNCHANGED <<queue, inp, rel, screen, menu, key, visible, round, presses, calls>>

\* "Throw away keys pressed previously."
ClearKeys ==
    /\ Step("clear", "start")
    /\ queue' = <<>> /\ selected' = 0
    /\ UNCHANGED <<inp, rel, screen, menu, key, visible, round, presses, calls>>

StartMenu ==
    /\ Step("start", "wait")
    /\ UpdateScreen([ui EXCEPT !.menu = menu, !.sel = selected])
    /\ Local /\ UNCHANGED <<choice, round>>

\* ui_wait_key; the memcpy in it moves the keys down one by one, upwards.
WaitKey ==
    /\ pc = "wait"
    /\ IF queue = <<>> THEN pc' = "blocked" /\ UNCHANGED <<queue, key>>
       ELSE pc' = "visible" /\ key' = Head(queue) /\ queue' = Tail(queue)
    /\ UNCHANGED <<inp, rel, screen, menu, selected, visible, round, presses, calls>>

TextVisible ==
    /\ Step("visible", "act")
    /\ visible' = ui.text
    /\ Local /\ UNCHANGED <<screen, menu, selected, key, round>>

MenuLen == IF menu = "main" THEN ItemCount ELSE ConfirmCount

\* ui_menu_select: within the menu, drawn if it has moved.
Select(s) ==
    LET to == IF s < 0 THEN 0 ELSE IF s >= MenuLen THEN MenuLen - 1 ELSE s
    IN  /\ selected' = to
        /\ IF to = ui.sel THEN UNCHANGED screen ELSE UpdateScreen([ui EXCEPT !.sel = to])

\* device_handle_key: nothing while the text is hidden.
Highlight ==
    /\ Step("act", "wait")
    /\ \/ visible /\ key.code = "down" /\ Select(selected + 1)
       \/ visible /\ key.code = "up" /\ Select(selected - 1)
       \/ (~visible \/ key.code = "other") /\ UNCHANGED <<screen, selected>>
    /\ Local /\ UNCHANGED <<menu, key, visible, round>>

EndMenu ==
    /\ Step("act", "chosen")
    /\ visible /\ key.code \in {"enter", "menu"}
    /\ UpdateScreen([ui EXCEPT !.menu = "none"])
    /\ Local /\ UNCHANGED <<choice, round>>

\* What was chosen: the reboot, the wipe, an update from the card (which fails
\* here), the confirmation of the wipe or its refusal.
Choose ==
    /\ pc = "chosen"
    /\ pc' = CASE menu = "main" /\ selected = 0 -> "reboot"
             [] menu = "main" /\ selected = Wipe -> "ask"
             [] menu = "main" -> "again"
             [] menu = "confirm" -> IF selected = Yes THEN "erase" ELSE "leave"
    /\ Local /\ UNCHANGED <<screen, choice, round>>

\* wipe_data(ui_text_visible()): without the text, without the question.
Ask ==
    /\ pc = "ask"
    /\ IF ui.text THEN pc' = "clear" /\ menu' = "confirm" /\ round' = round + 1
                  ELSE pc' = "erase" /\ UNCHANGED <<menu, round>>
    /\ Local /\ UNCHANGED <<screen, selected, key, visible>>

\* erase_volume begins with its background, goes on with the barber pole, and
\* ends with a line of the log.
Erase ==
    /\ Step("erase", "erasing")
    /\ UpdateScreen([ui EXCEPT !.icon = "installing"])
    /\ Local /\ UNCHANGED <<choice, round>>

Erasing ==
    /\ Step("erasing", "erased")
    /\ IF ui.bar = "indeterminate" THEN UNCHANGED screen
       ELSE UpdateProgress([ui EXCEPT !.bar = "indeterminate"])
    /\ Local /\ UNCHANGED <<choice, round>>

Erased ==
    /\ Step("erased", "leave")
    /\ UpdateScreen(Printed(ui))
    /\ Local /\ UNCHANGED <<choice, round>>

\* After a wipe, or its refusal: back to the menu if there is one to be seen.
Leave ==
    /\ pc = "leave"
    /\ pc' = IF ui.text THEN "again" ELSE "reboot"
    /\ Local /\ UNCHANGED <<screen, choice, round>>

\* The device restarts, or the menu waits for a key.
Rest ==
    /\ pc = "reboot" \/ (pc = "blocked" /\ inp = Idle)
    /\ UNCHANGED vars

Main == \/ Prompt \/ ClearKeys \/ StartMenu \/ WaitKey \/ TextVisible \/ Highlight
        \/ EndMenu \/ Choose \/ Ask \/ Erase \/ Erasing \/ Erased \/ Leave
Work == \/ SetBackground \/ ShowIndeterminate \/ ShowProgress \/ SetProgress
        \/ UiPrint \/ ShowText
Input == ReadEvent \/ Enqueue \/ Toggle

Alive == pc # "reboot"
Next == (Alive /\ (Main \/ Work \/ Input \/ Tick)) \/ Rest

\* The kernel runs the three threads; what the user does is not fair.
Spec == /\ Init /\ [][Next]_vars
        /\ WF_vars(Alive /\ Main) /\ WF_vars(Alive /\ (Enqueue \/ Toggle))
-----------------------------------------------------------------------------
Keys == [code : Codes, round : Nat]

TypeOK ==
    /\ queue \in Seq(Keys) /\ Len(queue) <= QueueMax
    /\ inp \in [at : {"poll", "queue", "toggle"}, code : Codes]
    /\ rel \in -3 .. 3
    /\ ui \in [icon : Icons, bar : {"none", "indeterminate", "normal"}, start : Nat,
               size : Nat, at : 0 .. Full, timed : BOOLEAN, text : BOOLEAN,
               menu : {"none", "main", "confirm"}, sel : Nat, line : 0 .. 1]
    /\ front \in 0 .. 1 /\ same \in BOOLEAN
    /\ pc \in {"work", "again", "clear", "start", "wait", "blocked", "visible", "act",
               "chosen", "ask", "erase", "erasing", "erased", "leave", "reboot"}
    /\ menu \in {"main", "confirm"} /\ selected \in Nat
    /\ key \in Keys /\ visible \in BOOLEAN /\ round \in Nat

\* What is on the screen is the state at hand, whichever thread drew last and
\* whichever of the two pages it drew on, although most of the drawing of the
\* progress bar leaves the rest of a page as it is (ui.c:74-75,
\* update_progress_locked).
ScreenIsCurrent == pages[front] \in {Picture(ui), Blank}

\* "Throw away keys pressed previously, so user doesn't accidentally trigger
\* menu items" (recovery.c:455-456): whatever a menu does is done by a key
\* that was queued after this menu was opened, the question before a wipe
\* included.
OldKeysDropped == pc \in {"visible", "act", "chosen"} => key.round = round

\* A menu never sleeps over a key: as long as keys are queued it goes on
\* taking them, until it is left (ui_wait_key and the signal of input_callback).
KeysAreHeard == queue # <<>> /\ round > 0 ~> queue = <<>> \/ pc = "reboot"

\* The bar moves forward only, whether time, the child or a new scope moves it,
\* until it is reset (progress_thread, ui_set_progress, ui_show_progress).
BarNeverGoesBack ==
    [][ui.bar = "normal" /\ ui'.bar = "normal" => Position(ui') >= Position(ui)]_vars

\* The user data is erased from the menu only after the question "Confirm wipe
\* of all user data?  THIS CAN NOT BE UNDONE." (recovery.c:626-627), since a
\* choice is made while the text can be seen.
WipeIsConfirmed == pc = "erase" => menu = "confirm" /\ selected = Yes
=============================================================================
