-------------------------- MODULE UiThreadsProofs ---------------------------
(* Proofs about UiThreads, for every length of the queue, every menu and   *)
(* every number of keys and calls.                                         *)
EXTENDS UiThreads, TLAPS

USE QueueAssumption, ItemsAssumption, EventsAssumption, ScopeAssumption
-----------------------------------------------------------------------------
(* The variables under gUpdateMutex and the pages.                         *)

Uis == [icon : Icons, bar : {"none", "indeterminate", "normal"}, start : Nat,
        size : Nat, at : 0 .. Full, timed : BOOLEAN, text : BOOLEAN,
        menu : {"none", "main", "confirm"}, sel : Nat, line : 0 .. 1]

\* What is drawn apart from the bar.
Frame(u) == [icon |-> u.icon, text |-> Picture(u).text]
Framed(page, u) == \E b : page = [icon |-> u.icon, bar |-> b, text |-> Picture(u).text]

\* When the pages are said to be the same and the text is hidden, both show the
\* state but for the bar; the text is never hidden before the first drawing.
ScreenInv ==
    /\ ui \in Uis
    /\ front \in {0, 1} /\ same \in BOOLEAN
    /\ pages = [p \in 0 .. 1 |-> pages[p]]
    /\ pages[front] = Picture(ui) \/ (pages[front] = Blank /\ ui.text = TRUE)
    /\ same /\ ui.text = FALSE => \A p \in 0 .. 1 : Framed(pages[p], ui)

\* A step that leaves the screen alone, or draws in one of the two ways; the
\* second way is for what changes the bar only, and never removes it.
Draws(u) == UpdateScreen(u) \/ (Frame(u) = Frame(ui) /\ u.bar # "none"
                                  /\ u.text = ui.text /\ UpdateProgress(u))
ScreenStep == UNCHANGED screen \/ \E u \in Uis : Draws(u)

LEMMA FullDrawing ==
    ASSUME ScreenInv, NEW u \in Uis, UpdateScreen(u)
    PROVE  ScreenInv'
  <1> 1 - front \in {0, 1} /\ 0 .. 1 = {0, 1} BY DEF ScreenInv
  <1> QED BY DEF ScreenInv, UpdateScreen

LEMMA BarDrawing ==
    ASSUME ScreenInv, NEW u \in Uis, Frame(u) = Frame(ui), u.bar # "none",
           u.text = ui.text, UpdateProgress(u)
    PROVE  ScreenInv'
  <1> /\ 1 - front \in {0, 1} /\ 0 .. 1 = {0, 1} /\ 1 - front # front
      /\ ui.text \in BOOLEAN
    BY DEF ScreenInv, Uis
  <1> DEFINE old == pages[1 - front]
  <1>1. u.icon = ui.icon /\ Picture(u).text = Picture(ui).text BY DEF Frame
  <1>2. Picture(u) = [icon |-> u.icon, bar |-> Bar(u), text |-> Picture(u).text]
    BY DEF Picture
  <1>3. Picture(ui) = [icon |-> ui.icon, bar |-> Bar(ui), text |-> Picture(ui).text]
    BY DEF Picture
  <1>4. pages' = [pages EXCEPT ![1 - front] =
                    IF u.text \/ ~same THEN Picture(u) ELSE [@ EXCEPT !.bar = Bar(u)]]
    BY DEF UpdateProgress
  <1>5. /\ pages' = [p \in 0 .. 1 |-> pages'[p]]
        /\ pages'[1 - front] = IF u.text \/ ~same THEN Picture(u)
                               ELSE [old EXCEPT !.bar = Bar(u)]
        /\ pages'[front] = pages[front]
    BY <1>4 DEF ScreenInv
  <1>6. pages'[1 - front] = Picture(u)
    <2>1. CASE u.text \/ ~same BY <2>1, <1>5
    <2>2. CASE ~(u.text \/ ~same)
      <3>1. PICK b : old = [icon |-> ui.icon, bar |-> b, text |-> Picture(ui).text]
        <4>1. same /\ ui.text = FALSE BY <2>2
        <4> QED BY <4>1 DEF ScreenInv, Framed
      <3>2. pages'[1 - front] = [old EXCEPT !.bar = Bar(u)] BY <2>2, <1>5
      <3> HIDE DEF old
      <3> QED BY <1>1, <1>2, <3>1, <3>2
    <2> QED BY <2>1, <2>2
  <1>7. Framed(pages'[1 - front], u) BY <1>2, <1>6 DEF Framed
  <1>8. u.text = FALSE => Framed(pages'[front], u)
    <2>1. SUFFICES ASSUME u.text = FALSE PROVE Framed(pages'[front], u) OBVIOUS
    <2>2. pages[front] = Picture(ui) BY <2>1 DEF ScreenInv
    <2> QED BY <2>2, <1>1, <1>3, <1>5 DEF Framed
  <1>9. ui' = u /\ front' = 1 - front /\ same' \in BOOLEAN BY DEF UpdateProgress, ScreenInv
  <1>10. \A p \in 0 .. 1 : p = front \/ p = 1 - front BY DEF ScreenInv
  <1> QED BY <1>5, <1>6, <1>7, <1>8, <1>9, <1>10 DEF ScreenInv

LEMMA ScreenSteps ==
    ASSUME ScreenInv, ScreenStep
    PROVE  ScreenInv'
  <1>1. CASE UNCHANGED screen
    BY <1>1 DEF ScreenInv, screen
  <1>2. CASE \E u \in Uis : Draws(u) BY <1>2, FullDrawing, BarDrawing DEF Draws
  <1> QED BY <1>1, <1>2 DEF ScreenStep
-----------------------------------------------------------------------------
\* How far the bar is grows with the fraction, and a new scope begins where
\* the one before ends.
LEMMA Products ==
    ASSUME NEW a \in Nat, NEW b \in Nat, NEW c \in Nat, a <= b
    PROVE  a * c <= b * c /\ c * a <= c * b
BY Z3

BarStep ==
    ui.bar = "normal" /\ ui'.bar = "normal" => Position(ui') >= Position(ui)

\* A drawing that leaves the four fields behind the position moves no bar.
LEMMA SamePosition ==
    ASSUME ui \in Uis, ui' \in Uis, ui'.start = ui.start, ui'.size = ui.size,
           ui'.at = ui.at
    PROVE  BarStep
<1>1. Position(ui') = Position(ui) BY DEF Position
<1>2. Position(ui) \in Nat
  <2>1. ui.start \in Nat /\ ui.at \in Nat /\ ui.size \in Nat /\ Full \in Nat BY DEF Uis
  <2>2. ui.start * Full \in Nat /\ ui.at * ui.size \in Nat BY <2>1
  <2> QED BY <2>1, <2>2 DEF Position
<1> QED BY <1>1, <1>2 DEF BarStep

LEMMA FurtherPosition ==
    ASSUME ui \in Uis, ui' \in Uis, ui'.start = ui.start, ui'.size = ui.size,
           ui'.at >= ui.at
    PROVE  BarStep
<1>1. ui.at \in Nat /\ ui'.at \in Nat /\ ui.size \in Nat /\ ui.start \in Nat /\ Full \in Nat
  BY DEF Uis
<1>2. ui.at * ui.size <= ui'.at * ui.size BY <1>1, Products
<1>3. ui.start * Full \in Nat /\ ui.at * ui.size \in Nat /\ ui'.at * ui.size \in Nat
  BY <1>1
<1> QED BY <1>1, <1>2, <1>3 DEF BarStep, Position

LEMMA NextScope ==
    ASSUME ui \in Uis, ui' \in Uis, ui'.start = ui.start + ui.size, ui'.at = 0
    PROVE  BarStep
<1>1. /\ ui.at \in Nat /\ ui.at <= Full /\ ui.size \in Nat /\ ui.start \in Nat
      /\ Full \in Nat /\ ui'.size \in Nat
  BY DEF Uis
<1>2. ui.at * ui.size <= Full * ui.size BY <1>1, Products
<1>3. (ui.start + ui.size) * Full = ui.start * Full + Full * ui.size BY <1>1, Z3
<1>4. 0 * ui'.size = 0 BY <1>1
<1>5. ui.start * Full \in Nat /\ ui.at * ui.size \in Nat /\ Full * ui.size \in Nat
  BY <1>1
<1> QED BY <1>1, <1>2, <1>3, <1>4, <1>5 DEF BarStep, Position
-----------------------------------------------------------------------------
(* Every step of the three threads draws as the lemmas above want it, and  *)
(* moves the bar forward only.                                             *)

LocalInv == menu \in {"main", "confirm"} /\ selected \in Nat

\* A step that redraws the whole screen and leaves the bar where it is.
LEMMA Redrawing ==
    ASSUME ScreenInv, NEW u \in Uis, UpdateScreen(u),
           \/ u.bar = "none"
           \/ u.start = ui.start /\ u.size = ui.size /\ u.at = ui.at
    PROVE  ScreenStep /\ BarStep
<1>1. ScreenStep BY DEF ScreenStep, Draws
<1>2. ui \in Uis /\ ui' = u BY DEF ScreenInv, UpdateScreen
<1>3. CASE u.bar = "none"
  <2>1. ui'.bar = "none" BY <1>2, <1>3
  <2>2. ui'.bar # "normal" BY <2>1
  <2> QED BY <2>2, <1>1 DEF BarStep
<1>4. CASE u.start = ui.start /\ u.size = ui.size /\ u.at = ui.at
  <2>1. /\ ui' \in Uis /\ ui'.start = ui.start /\ ui'.size = ui.size /\ ui'.at = ui.at
    BY <1>2, <1>4
  <2>2. BarStep BY <1>2, <2>1, SamePosition
  <2> QED BY <2>2, <1>1
<1> QED BY <1>1, <1>3, <1>4

LEMMA NoDrawing ==
    ASSUME ScreenInv, UNCHANGED screen
    PROVE  ScreenStep /\ BarStep
<1>1. ui \in Uis /\ ui' = ui BY DEF ScreenInv, screen
<1>2. BarStep BY <1>1, SamePosition
<1> QED BY <1>2 DEF ScreenStep

\* The barber pole.
LEMMA Poling ==
    ASSUME ScreenInv,
           \/ UpdateProgress([ui EXCEPT !.bar = "indeterminate"])
           \/ ui.bar = "indeterminate" /\ UpdateProgress(ui)
    PROVE  ScreenStep /\ BarStep
<1>1. PICK u \in Uis : /\ Frame(u) = Frame(ui) /\ u.bar = "indeterminate" /\ u.text = ui.text
                       /\ UpdateProgress(u)
  <2>1. CASE UpdateProgress([ui EXCEPT !.bar = "indeterminate"])
    <3> DEFINE u == [ui EXCEPT !.bar = "indeterminate"]
    <3>1. u \in Uis BY DEF ScreenInv, Uis
    <3>2. /\ u.icon = ui.icon /\ u.text = ui.text /\ u.line = ui.line /\ u.menu = ui.menu
          /\ u.sel = ui.sel /\ u.bar = "indeterminate"
      BY DEF ScreenInv, Uis
    <3> HIDE DEF u
    <3>3. Frame(u) = Frame(ui) BY <3>2 DEF Frame, Picture
    <3>4. UpdateProgress(u) BY <2>1 DEF u
    <3> QED BY <3>1, <3>2, <3>3, <3>4
  <2>2. CASE ui.bar = "indeterminate" /\ UpdateProgress(ui) BY <2>2 DEF ScreenInv
  <2> QED BY <2>1, <2>2
<1>2. ui' = u BY <1>1 DEF UpdateProgress
<1> QED BY <1>1, <1>2 DEF ScreenStep, Draws, BarStep

LEMMA Scoping ==
    ASSUME ScreenInv, NEW u \in Uis, UpdateProgress(u), u.bar = "normal",
           Frame(u) = Frame(ui), u.text = ui.text,
           \/ u.start = ui.start /\ u.size = ui.size /\ u.at >= ui.at
           \/ u.start = ui.start + ui.size /\ u.at = 0
    PROVE  ScreenStep /\ BarStep
<1>1. ui' = u /\ ui \in Uis BY DEF UpdateProgress, ScreenInv
<1>2. BarStep BY <1>1, FurtherPosition, NextScope
<1>3. ScreenStep BY DEF ScreenStep, Draws
<1> QED BY <1>2, <1>3

\* Moving the bar within its scope changes nothing else.
LEMMA MovedBar ==
    ASSUME ui \in Uis, NEW p \in 0 .. Full
    PROVE  /\ [ui EXCEPT !.at = p] \in Uis
           /\ Frame([ui EXCEPT !.at = p]) = Frame(ui)
           /\ [ui EXCEPT !.at = p].text = ui.text
           /\ [ui EXCEPT !.at = p].bar = ui.bar
           /\ [ui EXCEPT !.at = p].start = ui.start
           /\ [ui EXCEPT !.at = p].size = ui.size
           /\ [ui EXCEPT !.at = p].at = p
<1> DEFINE u == [ui EXCEPT !.at = p]
<1>1. u \in Uis BY DEF Uis
<1>2. /\ u.icon = ui.icon /\ u.text = ui.text /\ u.line = ui.line /\ u.menu = ui.menu
      /\ u.sel = ui.sel /\ u.bar = ui.bar /\ u.start = ui.start /\ u.size = ui.size /\ u.at = p
  BY DEF Uis
<1> HIDE DEF u
<1>3. Frame(u) = Frame(ui) BY <1>2 DEF Frame, Picture
<1> QED BY <1>1, <1>2, <1>3 DEF u

\* The same of a new scope.
LEMMA OpenedScope ==
    ASSUME ui \in Uis, NEW n \in Nat, NEW t \in BOOLEAN, NEW u,
           u = [ui EXCEPT !.bar = "normal", !.start = @ + ui.size, !.size = n,
                          !.timed = t, !.at = 0]
    PROVE  /\ u \in Uis /\ Frame(u) = Frame(ui) /\ u.text = ui.text
           /\ u.bar = "normal" /\ u.start = ui.start + ui.size /\ u.at = 0
<1>1. u \in Uis
  <2>1. ui.start + ui.size \in Nat /\ 0 \in 0 .. Full BY DEF Uis
  <2> QED BY <2>1 DEF Uis
<1>2. /\ u.icon = ui.icon /\ u.text = ui.text /\ u.line = ui.line /\ u.menu = ui.menu
      /\ u.sel = ui.sel /\ u.bar = "normal" /\ u.start = ui.start + ui.size /\ u.at = 0
  BY DEF Uis
<1>3. Frame(u) = Frame(ui) BY <1>2 DEF Frame, Picture
<1> QED BY <1>1, <1>2, <1>3

LEMMA EveryStepDraws ==
    ASSUME ScreenInv, LocalInv, [Next]_vars
    PROVE  ScreenStep /\ BarStep
<1> ui \in Uis BY DEF ScreenInv
<1>1. CASE UNCHANGED screen BY <1>1, NoDrawing
<1>2. CASE Toggle
  <2>1. CASE UpdateScreen([ui EXCEPT !.text = ~@])
    <3> DEFINE u == [ui EXCEPT !.text = ~@]
    <3>1. u \in Uis /\ u.start = ui.start /\ u.size = ui.size /\ u.at = ui.at BY DEF Uis
    <3> QED BY <2>1, <3>1, Redrawing
  <2> QED BY <1>2, <2>1, <1>1 DEF Toggle
<1>3. CASE Tick
  <2>1. CASE ui.bar = "indeterminate" /\ UpdateProgress(ui) BY <2>1, Poling
  <2>2. CASE ui.bar = "normal" /\ \E p \in ui.at + 1 .. Full : UpdateProgress([ui EXCEPT !.at = p])
    <3>1. PICK p \in ui.at + 1 .. Full : UpdateProgress([ui EXCEPT !.at = p]) BY <2>2
    <3>2. p \in 0 .. Full /\ p >= ui.at BY DEF Uis
    <3> QED BY <2>2, <3>1, <3>2, MovedBar, Scoping
  <2> QED BY <1>3, <2>1, <2>2 DEF Tick
<1>4. CASE SetBackground
  <2>1. PICK i \in Icons : UpdateScreen([ui EXCEPT !.icon = i]) BY <1>4 DEF SetBackground
  <2> DEFINE u == [ui EXCEPT !.icon = i]
  <2>2. u \in Uis /\ u.start = ui.start /\ u.size = ui.size /\ u.at = ui.at BY DEF Uis
  <2> QED BY <2>1, <2>2, Redrawing
<1>5. CASE ShowIndeterminate BY <1>5, <1>1, Poling DEF ShowIndeterminate
<1>6. CASE ShowProgress
  <2>1. PICK n \in Portions, t \in BOOLEAN :
           UpdateProgress([ui EXCEPT !.bar = "normal", !.start = @ + ui.size,
                                     !.size = n, !.timed = t, !.at = 0])
    BY <1>6 DEF ShowProgress
  <2>2. n \in Nat OBVIOUS
  <2> DEFINE u == [ui EXCEPT !.bar = "normal", !.start = @ + ui.size, !.size = n,
                             !.timed = t, !.at = 0]
  <2>3. /\ u \in Uis /\ Frame(u) = Frame(ui) /\ u.text = ui.text
        /\ u.bar = "normal" /\ u.start = ui.start + ui.size /\ u.at = 0
    BY <2>2, OpenedScope
  <2>4. UpdateProgress(u) BY <2>1
  <2> HIDE DEF u
  <2> QED BY <2>3, <2>4, Scoping
<1>7. CASE SetProgress
  <2>1. PICK p \in 0 .. Full :
           IF ui.bar = "normal" /\ p > ui.at /\ p * ui.size # ui.at * ui.size
           THEN UpdateProgress([ui EXCEPT !.at = p]) ELSE UNCHANGED screen
    BY <1>7 DEF SetProgress
  <2>2. CASE ui.bar = "normal" /\ p > ui.at /\ UpdateProgress([ui EXCEPT !.at = p])
    <3>1. p >= ui.at BY <2>2 DEF Uis
    <3> QED BY <2>2, <3>1, MovedBar, Scoping
  <2> QED BY <2>1, <2>2, <1>1
<1>8. CASE UpdateScreen(Printed(ui))
  <2> DEFINE u == Printed(ui)
  <2>1. u \in Uis /\ u.start = ui.start /\ u.size = ui.size /\ u.at = ui.at
    BY DEF Uis, Printed
  <2> QED BY <1>8, <2>1, Redrawing
<1>9. CASE ShowText
  <2>1. PICK v \in BOOLEAN : UpdateScreen([ui EXCEPT !.text = v]) BY <1>9 DEF ShowText
  <2> DEFINE u == [ui EXCEPT !.text = v]
  <2>2. u \in Uis /\ u.start = ui.start /\ u.size = ui.size /\ u.at = ui.at BY DEF Uis
  <2> QED BY <2>1, <2>2, Redrawing
<1>10. CASE Prompt
  <2> DEFINE u == [ui EXCEPT !.bar = "none", !.start = 0, !.size = 0, !.at = 0,
                             !.timed = FALSE]
  <2>1. u \in Uis /\ u.bar = "none"
    <3>1. 0 \in 0 .. Full /\ 0 \in Nat OBVIOUS
    <3> QED BY <3>1 DEF Uis
  <2>2. UpdateScreen(u) BY <1>10 DEF Prompt
  <2> QED BY <2>1, <2>2, Redrawing
<1>11. CASE StartMenu
  <2> DEFINE u == [ui EXCEPT !.menu = menu, !.sel = selected]
  <2>1. u \in Uis /\ u.start = ui.start /\ u.size = ui.size /\ u.at = ui.at
    BY DEF Uis, LocalInv
  <2>2. UpdateScreen(u) BY <1>11 DEF StartMenu
  <2> QED BY <2>1, <2>2, Redrawing
<1>12. CASE Highlight
  <2>1. \A s \in Int : Select(s) => ScreenStep /\ BarStep
    <3> TAKE s \in Int
    <3> HAVE Select(s)
    <3> DEFINE to == IF s < 0 THEN 0 ELSE IF s >= MenuLen THEN MenuLen - 1 ELSE s
               u == [ui EXCEPT !.sel = to]
    <3>1. to \in Nat BY DEF MenuLen
    <3>2. u \in Uis /\ u.start = ui.start /\ u.size = ui.size /\ u.at = ui.at
      BY <3>1 DEF Uis
    <3>3. UNCHANGED screen \/ UpdateScreen(u) BY DEF Select
    <3> HIDE DEF u
    <3> QED BY <3>2, <3>3, <1>1, Redrawing
  <2>2. selected + 1 \in Int /\ selected - 1 \in Int BY DEF LocalInv
  <2> QED BY <1>12, <2>1, <2>2, <1>1 DEF Highlight
<1>13. CASE EndMenu
  <2> DEFINE u == [ui EXCEPT !.menu = "none"]
  <2>1. u \in Uis /\ u.start = ui.start /\ u.size = ui.size /\ u.at = ui.at BY DEF Uis
  <2>2. UpdateScreen(u) BY <1>13 DEF EndMenu
  <2> QED BY <2>1, <2>2, Redrawing
<1>14. CASE Erase
  <2> DEFINE u == [ui EXCEPT !.icon = "installing"]
  <2>1. u \in Uis /\ u.start = ui.start /\ u.size = ui.size /\ u.at = ui.at
    BY DEF Uis, Icons
  <2>2. UpdateScreen(u) BY <1>14 DEF Erase
  <2> QED BY <2>1, <2>2, Redrawing
<1>15. CASE Erasing BY <1>15, <1>1, Poling DEF Erasing
<1>16. [Next]_vars =>
         \/ UNCHANGED screen \/ Toggle \/ Tick \/ SetBackground \/ ShowIndeterminate
         \/ ShowProgress \/ SetProgress \/ UpdateScreen(Printed(ui)) \/ ShowText \/ Prompt
         \/ StartMenu \/ Highlight \/ EndMenu \/ Erase \/ Erasing
  BY DEF Next, Main, Work, Input, Rest, vars, ReadEvent, Enqueue, ClearKeys, WaitKey,
         TextVisible, Choose, Ask, Erased, Leave, UiPrint
<1> QED BY <1>1, <1>2, <1>3, <1>4, <1>5, <1>6, <1>7, <1>8, <1>9, <1>10, <1>11, <1>12,
           <1>13, <1>14, <1>15, <1>16
-----------------------------------------------------------------------------
(* The keys.                                                               *)

Taken == {"visible", "act", "chosen"}
\* Where a menu is open and its old keys are gone.
Opened == {"start", "wait", "blocked"} \cup Taken
Pcs == Opened \cup {"work", "again", "clear", "ask", "erase", "erasing", "erased",
                    "leave", "reboot"}

KeysInv ==
    /\ queue \in Seq(Keys) /\ Len(queue) <= QueueMax
    /\ inp \in [at : {"poll", "queue", "toggle"}, code : Codes]
    /\ rel \in -3 .. 3 /\ pc \in Pcs
    /\ key \in Keys /\ visible \in BOOLEAN /\ round \in Nat
    /\ pc \in Opened => \A i \in 1 .. Len(queue) : queue[i].round = round
    /\ pc \in Taken => key.round = round

IInv == ScreenInv /\ LocalInv /\ KeysInv

LEMMA InitHolds == Init => IInv
<1> SUFFICES ASSUME Init PROVE IInv OBVIOUS
<1>1. ScreenInv
  <2>1. ui \in Uis /\ ui.text = TRUE BY DEF Init, Uis, Icons
  <2>2. pages = [p \in 0 .. 1 |-> Blank] /\ front = 0 /\ same = FALSE BY DEF Init
  <2>3. pages[front] = Blank /\ pages = [p \in 0 .. 1 |-> pages[p]] BY <2>2
  <2> QED BY <2>1, <2>2, <2>3 DEF ScreenInv
<1>2. LocalInv BY DEF Init, LocalInv
<1>3. KeysInv
  <2>1. NoKey \in Keys /\ Idle \in [at : {"poll", "queue", "toggle"}, code : Codes]
    BY DEF NoKey, Keys, Codes, Idle, Held
  <2>2. queue = <<>> /\ Len(queue) = 0 /\ queue \in Seq(Keys) BY DEF Init
  <2>3. /\ inp = Idle /\ rel = 0 /\ pc = "work" /\ key = NoKey /\ visible = FALSE
        /\ round = 0
    BY DEF Init
  <2>4. pc \in Pcs /\ pc \notin Opened /\ pc \notin Taken BY <2>3 DEF Pcs, Opened, Taken
  <2>5. 0 <= QueueMax /\ rel \in -3 .. 3 BY <2>3
  <2> QED BY <2>1, <2>2, <2>3, <2>4, <2>5 DEF KeysInv
<1> QED BY <1>1, <1>2, <1>3 DEF IInv

LEMMA LocalStep ==
    ASSUME IInv, [Next]_vars
    PROVE  LocalInv'
<1> USE DEF IInv
<1>1. CASE UNCHANGED <<menu, selected>> BY <1>1 DEF LocalInv
<1>2. CASE Prompt BY <1>2 DEF Prompt, LocalInv
<1>3. CASE ClearKeys BY <1>3 DEF ClearKeys, LocalInv
<1>4. CASE Highlight
  <2>1. \A s \in Int : Select(s) => selected' \in Nat
    BY DEF Select, MenuLen
  <2>2. selected + 1 \in Int /\ selected - 1 \in Int BY DEF LocalInv
  <2> QED BY <1>4, <2>1, <2>2 DEF Highlight, LocalInv
<1>5. CASE Ask BY <1>5 DEF Ask, LocalInv
<1> QED BY <1>1, <1>2, <1>3, <1>4, <1>5
  DEF Next, Main, Work, Input, Rest, vars, choice, ReadEvent, Enqueue, Toggle, Tick,
      StartMenu, WaitKey, TextVisible, EndMenu, Choose, Erase, Erasing, Erased, Leave,
      Call, SetBackground, ShowIndeterminate, ShowProgress, SetProgress, UiPrint, ShowText

\* A key that is queued bears the number of the menu that is open.
LEMMA EnqueueKeeps == ASSUME KeysInv, Enqueue PROVE KeysInv'
<1> DEFINE new == [code |-> inp.code, round |-> round]
<1>1. new \in Keys /\ new.round = round BY DEF KeysInv, Keys
<1>2. inp' \in [at : {"poll", "queue", "toggle"}, code : Codes] BY DEF Enqueue, KeysInv
<1>3. rel' \in -3 .. 3 /\ key' \in Keys /\ visible' \in BOOLEAN /\ round' \in Nat
  BY DEF Enqueue, KeysInv, choice
<1>4. key' = key /\ round' = round BY DEF Enqueue, choice
<1>5. /\ pc' \in Pcs /\ (pc' \in Opened => pc \in Opened)
      /\ (pc' \in Taken => pc \in Taken)
  BY DEF Enqueue, KeysInv, Pcs, Opened, Taken
<1>6. CASE queue' = queue BY <1>2, <1>3, <1>4, <1>5, <1>6 DEF KeysInv
<1>7. CASE Len(queue) < QueueMax /\ queue' = Append(queue, new)
  <2> HIDE DEF new
  <2>1. queue' \in Seq(Keys) /\ Len(queue') = Len(queue) + 1 BY <1>1, <1>7 DEF KeysInv
  <2>2. \A i \in 1 .. Len(queue') :
           queue'[i] = IF i = Len(queue) + 1 THEN new ELSE queue[i]
    BY <1>1, <1>7 DEF KeysInv
  <2>3. pc \in Opened => \A i \in 1 .. Len(queue') : queue'[i].round = round
    BY <1>1, <2>1, <2>2 DEF KeysInv
  <2>4. Len(queue') <= QueueMax BY <1>7, <2>1 DEF KeysInv
  <2> QED BY <1>2, <1>3, <1>4, <1>5, <2>1, <2>3, <2>4 DEF KeysInv
<1> QED BY <1>6, <1>7 DEF Enqueue

LEMMA ReadKeeps == ASSUME KeysInv, ReadEvent PROVE KeysInv'
<1>1. PICK e \in Events :
         \/ e.kind = "sync" /\ UNCHANGED <<inp, rel>>
         \/ /\ e.kind = "roll"
            /\ IF Rolled(e.value) = "none" THEN rel' = rel + e.value /\ UNCHANGED inp
               ELSE rel' = 0 /\ inp' = Held("queue", Rolled(e.value))
         \/ /\ e.kind = "key" /\ rel' = 0
            /\ inp' = IF e.value > 0 THEN Held("queue", e.code) ELSE inp
  BY DEF ReadEvent
<1>2. e.code \in Codes /\ e.value \in Int OBVIOUS
<1>3. \A c \in Codes : Held("queue", c) \in [at : {"poll", "queue", "toggle"}, code : Codes]
  BY DEF Held
<1>4. /\ Rolled(e.value) \in {"down", "up", "none"}
      /\ Rolled(e.value) = "none" => rel + e.value \in -3 .. 3
      /\ Rolled(e.value) # "none" => Rolled(e.value) \in Codes
  BY SMTT(30), <1>2 DEF Rolled, KeysInv, Codes
<1>5. inp' \in [at : {"poll", "queue", "toggle"}, code : Codes] /\ rel' \in -3 .. 3
  BY <1>1, <1>2, <1>3, <1>4 DEF KeysInv
<1>6. UNCHANGED <<queue, pc, key, visible, round>> BY DEF ReadEvent, choice
<1> QED BY <1>5, <1>6 DEF KeysInv

LEMMA WaitKeeps == ASSUME KeysInv, WaitKey PROVE KeysInv'
<1>1. pc = "wait" /\ UNCHANGED <<inp, rel, visible, round>> BY DEF WaitKey
<1>2. CASE queue = <<>> /\ pc' = "blocked" /\ UNCHANGED <<queue, key>>
  BY <1>1, <1>2 DEF KeysInv, Pcs, Opened, Taken
<1>3. CASE queue # <<>> /\ pc' = "visible" /\ key' = Head(queue) /\ queue' = Tail(queue)
  <2>1. /\ queue' \in Seq(Keys) /\ Len(queue') = Len(queue) - 1 /\ Len(queue) > 0
        /\ \A i \in 1 .. Len(queue') : queue'[i] = queue[i + 1]
    BY <1>3 DEF KeysInv
  <2>2. key' = queue[1] /\ key' \in Keys BY <1>3, <2>1 DEF KeysInv
  <2>3. pc \in Opened BY <1>1 DEF Opened
  <2>4. \A i \in 1 .. Len(queue) : queue[i].round = round BY <2>3 DEF KeysInv
  <2>5. key'.round = round' BY <1>1, <2>1, <2>2, <2>4 DEF KeysInv
  <2>6. \A i \in 1 .. Len(queue') : queue'[i].round = round' BY <1>1, <2>1, <2>4 DEF KeysInv
  <2>7. Len(queue') <= QueueMax BY <2>1 DEF KeysInv
  <2>8. pc' \in Pcs BY <1>3 DEF Pcs, Opened, Taken
  <2> QED BY <1>1, <2>1, <2>2, <2>5, <2>6, <2>7, <2>8 DEF KeysInv
<1> QED BY <1>2, <1>3 DEF WaitKey

\* All the other steps leave the queue alone or empty it; the number of menus
\* changes only where no menu is open.
LEMMA QuietStep ==
    ASSUME KeysInv, queue' = queue \/ queue' = <<>>,
           inp' \in [at : {"poll", "queue", "toggle"}, code : Codes], rel' = rel,
           pc' \in Pcs, key' = key, visible' \in BOOLEAN, round' \in Nat,
           pc' \in Opened => (queue' = <<>> \/ pc \in Opened) /\ round' = round,
           pc' \in Taken => pc \in Taken
    PROVE  KeysInv'
<1>1. pc' \in Opened => \A i \in 1 .. Len(queue') : queue'[i].round = round'
  BY DEF KeysInv
<1>2. queue' \in Seq(Keys) /\ Len(queue') <= QueueMax
  <2>1. CASE queue' = queue BY <2>1 DEF KeysInv
  <2>2. CASE queue' = <<>>
    <3>1. Len(queue') = 0 /\ queue' \in Seq(Keys) BY <2>2
    <3>2. QueueMax \in Nat OBVIOUS
    <3> QED BY <3>1, <3>2
  <2> QED BY <2>1, <2>2
<1>3. pc' \in Taken => key'.round = round' BY DEF KeysInv, Opened
<1> QED BY <1>1, <1>2, <1>3 DEF KeysInv

LEMMA KeysStep == ASSUME IInv, [Next]_vars PROVE KeysInv'
<1> KeysInv BY DEF IInv
<1> DEFINE InpType == inp' \in [at : {"poll", "queue", "toggle"}, code : Codes]
<1>1. CASE Enqueue BY <1>1, EnqueueKeeps
<1>2. CASE ReadEvent BY <1>2, ReadKeeps
<1>3. CASE WaitKey BY <1>3, WaitKeeps
<1>4. CASE Toggle
  <2>1. InpType BY <1>4 DEF Toggle, Idle, Held, Codes
  <2>2. UNCHANGED <<queue, rel, pc, key, visible, round>> BY <1>4 DEF Toggle, choice
  <2> QED BY <2>1, <2>2 DEF KeysInv
<1>5. CASE UNCHANGED <<queue, inp, rel, pc, key, visible, round>>
  BY <1>5 DEF KeysInv
<1>6. CASE Prompt \/ Ask
  <2>1. UNCHANGED <<queue, inp, rel, key, visible>> BY <1>6 DEF Prompt, Ask, Local
  <2>2. pc' \in Pcs \ Opened /\ round' \in Nat
    BY <1>6 DEF Prompt, Ask, KeysInv, Pcs, Opened, Taken
  <2>3. InpType BY <2>1 DEF KeysInv
  <2>4. visible' \in BOOLEAN BY <2>1 DEF KeysInv
  <2> QED BY <2>1, <2>2, <2>3, <2>4, QuietStep DEF Opened
<1>7. CASE ClearKeys
  <2>1. UNCHANGED <<inp, rel, key, visible, round>> /\ queue' = <<>> BY <1>7 DEF ClearKeys
  <2>2. pc' \in Pcs /\ pc' \notin Taken BY <1>7 DEF ClearKeys, Step, Pcs, Opened, Taken
  <2>3. InpType /\ visible' \in BOOLEAN /\ round' \in Nat BY <2>1 DEF KeysInv
  <2> QED BY <2>1, <2>2, <2>3, QuietStep
<1>8. CASE StartMenu \/ Highlight \/ TextVisible \/ EndMenu
  <2>1. UNCHANGED <<queue, inp, rel, key, round>>
    BY <1>8 DEF StartMenu, Highlight, TextVisible, EndMenu, Local, choice
  <2>2. pc' \in Pcs /\ pc \in Opened /\ (pc' \in Taken => pc \in Taken)
    BY <1>8 DEF StartMenu, Highlight, TextVisible, EndMenu, Step, Pcs, Opened, Taken
  <2>3. ui.text \in BOOLEAN BY DEF IInv, ScreenInv, Uis
  <2>4. visible' \in BOOLEAN
    BY <1>8, <2>3 DEF StartMenu, Highlight, TextVisible, EndMenu, choice, KeysInv
  <2>5. InpType /\ round' \in Nat BY <2>1 DEF KeysInv
  <2> QED BY <2>1, <2>2, <2>4, <2>5, QuietStep
<1>9. CASE Choose \/ Erase \/ Erasing \/ Erased \/ Leave
  <2>1. UNCHANGED <<queue, inp, rel, key, visible, round>>
    BY <1>9 DEF Choose, Erase, Erasing, Erased, Leave, Local, choice
  <2>2. pc' \in Pcs \ Opened
    <3>1. menu \in {"main", "confirm"} BY DEF IInv, LocalInv
    <3> QED BY <1>9, <3>1
      DEF Choose, Erase, Erasing, Erased, Leave, Step, Pcs, Opened, Taken
  <2>3. InpType /\ visible' \in BOOLEAN /\ round' \in Nat BY <2>1 DEF KeysInv
  <2> QED BY <2>1, <2>2, <2>3, QuietStep DEF Opened
<1> QED BY <1>1, <1>2, <1>3, <1>4, <1>5, <1>6, <1>7, <1>8, <1>9
  DEF Next, Main, Work, Input, Rest, vars, choice, Tick, Call, SetBackground,
      ShowIndeterminate, ShowProgress, SetProgress, UiPrint, ShowText

LEMMA Inductive == ASSUME IInv, [Next]_vars PROVE IInv'
<1>1. ScreenInv' BY EveryStepDraws, ScreenSteps DEF IInv
<1> QED BY <1>1, LocalStep, KeysStep DEF IInv

LEMMA Invariance == Spec => []IInv
BY InitHolds, Inductive, PTL DEF Spec
-----------------------------------------------------------------------------
\* The types, and the bound of the queue, hold of every run of the threads
\* (ui.c:61-90).
THEOREM TypeCorrect == Spec => []TypeOK
<1>1. IInv => TypeOK
  BY DEF IInv, ScreenInv, Uis, LocalInv, KeysInv, TypeOK, Pcs, Opened, Taken
<1> QED BY <1>1, Invariance, PTL

\* The visible page shows the state, whichever thread drew on which page
\* (update_progress_locked).
THEOREM ScreenShowsState == Spec => []ScreenIsCurrent
<1>1. IInv => ScreenIsCurrent BY DEF IInv, ScreenInv, ScreenIsCurrent
<1> QED BY <1>1, Invariance, PTL

\* No key queued before a menu was opened does anything in it
\* (get_menu_selection).
THEOREM MenusIgnoreOldKeys == Spec => []OldKeysDropped
<1>1. IInv => OldKeysDropped BY DEF IInv, KeysInv, OldKeysDropped, Taken
<1> QED BY <1>1, Invariance, PTL

\* The bar moves forward only, for scopes of every size and every order of what
\* time and the child do (ui_show_progress, ui_set_progress, progress_thread).
THEOREM BarMovesForward == Spec => BarNeverGoesBack
<1>1. IInv /\ [Next]_vars => [BarStep]_vars
  <2>1. IInv /\ [Next]_vars => BarStep BY EveryStepDraws DEF IInv
  <2> QED BY <2>1
<1>2. Spec => [][BarStep]_vars BY <1>1, Invariance, PTL DEF Spec
<1> QED BY <1>2 DEF BarNeverGoesBack, BarStep
=============================================================================
