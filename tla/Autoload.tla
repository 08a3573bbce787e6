------------------------------ MODULE Autoload ------------------------------
(***************************************************************************)
(* autoload_save.py: the route from a cold title screen into one save,     *)
(* driven through a uinput keyboard and checked on screenshots.            *)
(*                                                                         *)
(* The game takes keys from the queue of the input device when it gets to  *)
(* them: it stalls for seconds, which is what the tool is there to         *)
(* measure.  A key may be lost, a picture may show no menu yet, and a      *)
(* picture may be taken before the game took the key.                      *)
(***************************************************************************)
EXTENDS Integers, Sequences

CONSTANTS
    FirstRow,   \* the row the save list opens on
    SaveUp,     \* SAVE_UP, how far above it the save stands
    Files,      \* files of MGS2_PREWARM_PATHS
    LockPages,  \* MGS2_PREWARM_MLOCK
    Walks,      \* bursts of walking
    Actions,    \* MGS2_ACTION_COUNT
    Faults      \* what happens to keys and pictures: subset of lost, late, slow

RowAssumption == FirstRow \in Nat /\ SaveUp \in Nat
CountAssumption == Files \in Nat /\ Walks \in Nat /\ Actions \in Nat
FaultAssumption == LockPages \in BOOLEAN /\ Faults \subseteq {"lost", "late", "slow"}

VARIABLES
    game,     \* the screen, its cursor row, and the save its box is about
    focused,  \* has the game's window the keyboard focus?
    queue,    \* keys written to the device and not yet taken by the game
    step,     \* the step of the route
    phase,    \* in a step: press, or judge the picture that is taken next
    attempt,  \* 0..2
    ups,      \* presses of "up" that are confirmed
    expected, \* expected_save, NoRow before the list is open
    held,     \* held_mappings
    done,     \* bursts walked or actions made
    probe,    \* the sink probe: is it armed, and the action whose sound it recorded
    records,  \* what the probe showed after each action
    lost,     \* keys lost in this step
    blurred,  \* was a picture ever unclear?
    late      \* was a picture ever taken before the game took a key?

vars == <<game, focused, queue, step, phase, attempt, ups, expected, held, done,
          probe, records, lost, blurred, late>>
screen == <<game, queue>>
route == <<step, phase, attempt, ups, expected, lost, blurred, late>>

NoRow == -1
Screens == {"title", "menu", "list", "box", "scene", "newgame", "elsewhere"}
GateSteps == {"1-main-menu", "2-on-load-game", "3-save-list", "save-up",
              "4-confirm-box", "5-on-yes", "6-loaded"}
Confirm == "z"

-----------------------------------------------------------------------------
(* The game: what a key does on each screen. *)

At(scr, row, save) == [scr |-> scr, row |-> row, save |-> save]

Taken(g, key) ==
    CASE g.scr = "title" /\ key = Confirm -> At("menu", 0, NoRow)
      [] g.scr = "menu" /\ key = "down" -> At("menu", (g.row + 1) % 3, NoRow)
      [] g.scr = "menu" /\ key = "up" -> At("menu", (g.row + 2) % 3, NoRow)
      [] g.scr = "menu" /\ key = Confirm ->
           At(<<"newgame", "list", "elsewhere">>[g.row + 1], IF g.row = 1 THEN FirstRow ELSE 0, NoRow)
      [] g.scr = "list" /\ key = "up" -> At("list", IF g.row = 0 THEN FirstRow ELSE g.row - 1, NoRow)
      [] g.scr = "list" /\ key = Confirm -> At("box", 0, g.row)
      [] g.scr = "box" /\ key = "left" -> At("box", 1, g.save)
      [] g.scr = "box" /\ key = Confirm ->
           IF g.row = 1 THEN At("scene", 0, g.save) ELSE At("list", g.save, NoRow)
      [] OTHER -> g

\* The game takes the next key; an attack in the scene makes the sound the
\* armed probe waits for.
Accept == /\ queue # <<>>
          /\ queue' = Tail(queue)
          /\ game' = Taken(game, Head(queue).key)
          /\ probe' = IF game.scr = "scene" /\ Head(queue).action # 0 /\ probe.armed
                      THEN [armed |-> FALSE, from |-> Head(queue).action] ELSE probe
          /\ UNCHANGED <<focused, held, done, records>> /\ UNCHANGED route

-----------------------------------------------------------------------------
(* What the readers of a picture make of it; Unclear shows none of the menus. *)

Unclear == At("unclear", 0, NoRow)

MenuSelection(pic) == IF pic.scr = "menu" /\ pic.row < 2
                      THEN <<"new-game", "load-game">>[pic.row + 1] ELSE "None"
SaveSelection(pic) == IF pic.scr = "list" THEN pic.row ELSE NoRow
YesNoSelection(pic) == IF pic.scr = "box" THEN <<"no", "yes">>[pic.row + 1] ELSE "None"
Bright(pic) == pic.scr \in {"scene", "newgame"}

Test(ok, again) == IF ok THEN "ok" ELSE IF again THEN "retry" ELSE "ambiguous"

\* Mutant: any row of the list will do for the cursor.
OnRow_AnyRow(pic) == Test(SaveSelection(pic) # NoRow, FALSE)

\* The cursor on the row it was sent to, or still on the one below.
OnRow(pic) == Test(SaveSelection(pic) = expected, SaveSelection(pic) = expected + 1)

InBox(pic) == Test(YesNoSelection(pic) = "no", SaveSelection(pic) = expected)

\* The test of each step: go on, press again, or give up ("ambiguous").
Verdict(pic) ==
    CASE step = "1-main-menu" -> Test(MenuSelection(pic) = "new-game", TRUE)
      [] step = "2-on-load-game" ->
           Test(MenuSelection(pic) = "load-game", MenuSelection(pic) = "new-game")
      [] step = "3-save-list" ->
           Test(SaveSelection(pic) # NoRow, MenuSelection(pic) = "load-game")
      [] step = "save-up" -> OnRow(pic)
      [] step = "4-confirm-box" -> InBox(pic)
      [] step = "5-on-yes" -> Test(YesNoSelection(pic) = "yes", YesNoSelection(pic) = "no")
      [] step = "6-loaded" -> Test(Bright(pic), YesNoSelection(pic) = "yes")

Attempts == IF step = "6-loaded" THEN 2 ELSE 3

KeyOf == CASE step = "2-on-load-game" -> "down" [] step = "save-up" -> "up"
           [] step = "5-on-yes" -> "left" [] OTHER -> Confirm

-----------------------------------------------------------------------------
Init == /\ game = At("title", 0, NoRow) /\ focused \in BOOLEAN /\ queue = <<>>
        /\ step = "0-title" /\ phase = "press" /\ attempt = 0
        /\ ups = 0 /\ expected = NoRow
        /\ held = 0 /\ done = 0
        /\ probe = [armed |-> FALSE, from |-> 0]
        /\ records = [a \in 1..Actions |-> 0]
        /\ lost = 0 /\ blurred = FALSE /\ late = FALSE

\* press(): the key reaches the device, and the game's queue unless it is lost.
Press(key, action) ==
    \/ /\ focused
       /\ queue' = Append(queue, [key |-> key, action |-> action])
       /\ UNCHANGED <<game, lost>>
    \/ /\ ~focused \/ "lost" \in Faults
       /\ lost' = lost + 1
       /\ UNCHANGED screen

\* The wait after a key: the game has taken it, unless it stalls.
Waited == /\ queue = <<>> \/ "late" \in Faults
          /\ late' = (late \/ queue # <<>>)

\* The first event of a fresh device is spent on a key the title ignores.
SpendFirst == /\ step = "0-title" /\ phase = "press"
              /\ Press("up", 0)
              /\ phase' = "shot"
              /\ UNCHANGED <<focused, step, attempt, ups, expected, held, done, probe, records,
                             blurred, late>>

FirstShot == /\ step = "0-title" /\ phase = "shot"
             /\ Waited
             /\ step' = "1-main-menu" /\ phase' = "press" /\ lost' = 0
             /\ UNCHANGED <<game, focused, queue, attempt, ups, expected, held, done, probe,
                            records, blurred>>

RouteStep == /\ step \in GateSteps /\ phase = "press"
             /\ Press(KeyOf, 0)
             /\ phase' = "shot"
             /\ UNCHANGED <<focused, step, attempt, ups, expected, held, done, probe, records,
                            blurred, late>>

\* The cursor has moved n rows and stands on row e: again, or on to the box.
MoveUp(e, n) == IF n = SaveUp
                THEN step' = "4-confirm-box" /\ expected' = e /\ ups' = n
                ELSE /\ step' = IF e = 0 THEN "refused" ELSE "save-up"
                     /\ expected' = e - 1 /\ ups' = n

Follow(pic) ==
    CASE step = "3-save-list" -> MoveUp(SaveSelection(pic), 0)
      [] step = "save-up" -> MoveUp(expected, ups + 1)
      [] OTHER -> /\ step' = CASE step = "1-main-menu" -> "2-on-load-game"
                               [] step = "2-on-load-game" -> "3-save-list"
                               [] step = "4-confirm-box" -> "5-on-yes"
                               [] step = "5-on-yes" -> "prewarm"
                               [] step = "6-loaded" -> "walk"
                  /\ UNCHANGED <<expected, ups>>

GoOn(pic) == /\ Verdict(pic) = "ok"
             /\ Follow(pic)
             /\ attempt' = 0 /\ lost' = 0 /\ done' = 0
             /\ UNCHANGED focused

\* focus_game(): it may find no window.
FocusGame == {focused, TRUE}

\* The last step does not focus before its second attempt.
Retry(pic) == /\ Verdict(pic) = "retry" /\ attempt + 1 < Attempts
              /\ attempt' = attempt + 1
              /\ focused' \in (IF step = "6-loaded" THEN {focused} ELSE FocusGame)
              /\ UNCHANGED <<step, expected, ups, lost, done>>

Refuse(pic) == /\ Verdict(pic) # "ok"
               /\ Verdict(pic) = "ambiguous" \/ attempt + 1 = Attempts
               /\ step' = "refused"
               /\ UNCHANGED <<attempt, expected, ups, focused, lost, done>>

Judge == /\ step \in GateSteps /\ phase = "shot"
         /\ Waited
         /\ \E pic \in {game} \cup (IF "slow" \in Faults THEN {Unclear} ELSE {}) :
              /\ blurred' = (blurred \/ pic # game)
              /\ GoOn(pic) \/ Retry(pic) \/ Refuse(pic)
         /\ phase' = "press"
         /\ held' = IF step' = "refused" THEN 0 ELSE held
         /\ UNCHANGED <<game, queue, probe, records>>

-----------------------------------------------------------------------------
(* prewarm_paths(), one file after the other. *)

\* LockedFileMapping.close() of each.
CloseAll == held' = 0

PrewarmFile == /\ step = "prewarm" /\ done < Files
               /\ done' = done + 1
               /\ held' = IF LockPages THEN held + 1 ELSE held
               /\ UNCHANGED <<game, focused, queue, probe, records>> /\ UNCHANGED route

Abort == /\ step' = "aborted"
         /\ UNCHANGED <<game, focused, queue, phase, attempt, ups, expected, done, probe,
                        records, lost, blurred, late>>

\* A file that cannot be opened, mapped, locked or read whole: what was mapped
\* before it is closed.
PrewarmFails == /\ step = "prewarm" /\ done < Files
                /\ CloseAll
                /\ Abort

\* VmLck did not cover the requested file set.
LocksShort == /\ step = "prewarm" /\ done = Files /\ LockPages /\ Files > 0
              /\ CloseAll
              /\ Abort

PrewarmComplete == /\ step = "prewarm" /\ done = Files
                   /\ step' = "6-loaded"
                   /\ UNCHANGED <<game, focused, queue, phase, attempt, ups, expected, held, done,
                                  probe, records, lost, blurred, late>>

\* An exception that leaves main() ends the process, its mappings with it.
Raised == held' = 0 /\ Abort

\* shot(), image_geometry(), image_metric(): a picture that cannot be taken or
\* measured.  The walk takes one of every fourth burst.
ShotFails == /\ \/ step \in GateSteps \cup {"0-title"} /\ phase = "shot"
                \/ step = "walk" /\ done > 0 /\ done % 4 = 0
                \/ step = "actions" /\ phase = "press" /\ done = Actions
             /\ Raised

-----------------------------------------------------------------------------
(* In the scene. *)

Walk == /\ step = "walk" /\ done < Walks
        /\ Press("down", 0)
        /\ done' = done + 1
        /\ UNCHANGED <<focused, step, phase, attempt, ups, expected, held, probe, records,
                       blurred, late>>

WalkEnds == /\ step = "walk" /\ done = Walks
            /\ step' = "actions" /\ done' = 0
            /\ UNCHANGED <<game, focused, queue, phase, attempt, ups, expected, held, probe, records,
                           lost, blurred, late>>

\* arm_action_sinkprobe(): the count is cleared and the marker set to "armed".
Arm == [armed |-> TRUE, from |-> 0]

Attack == /\ step = "actions" /\ phase = "press" /\ done < Actions
          /\ probe' = Arm
          /\ Press("x", done + 1)
          /\ phase' = "shot"
          /\ UNCHANGED <<focused, step, attempt, ups, expected, held, done, records, blurred, late>>

\* capture_action_sinkprobe(): the record in the game at the moment of the read.
ProbeShows == probe.from

\* The capture after sinkprobe_wait, and the line of actions.jsonl.
Capture == /\ step = "actions" /\ phase = "shot"
           /\ Waited
           /\ records' = [records EXCEPT ![done + 1] = ProbeShows]
           /\ done' = done + 1 /\ phase' = "press"
           /\ UNCHANGED <<game, focused, queue, step, attempt, ups, expected, held, probe, lost,
                          blurred>>

\* game_pid() finds no game, or a module of it carries no recorder: around an
\* action the script arms the probe and reads the probe and the audio rings.
CaptureFails == step = "actions" /\ done < Actions /\ Raised

Unlock == /\ step = "actions" /\ phase = "press" /\ done = Actions
          /\ CloseAll /\ step' = "done"
          /\ UNCHANGED <<game, focused, queue, phase, attempt, ups, expected, done, probe, records,
                         lost, blurred, late>>

-----------------------------------------------------------------------------
Script == \/ SpendFirst \/ FirstShot \/ RouteStep \/ Judge
          \/ PrewarmFile \/ PrewarmFails \/ LocksShort \/ PrewarmComplete
          \/ Walk \/ WalkEnds \/ Attack \/ Capture \/ Unlock
          \/ ShotFails \/ CaptureFails
Next == Accept \/ Script

\* The script runs, and a stalled game comes back.
Fairness == WF_vars(Script) /\ WF_vars(Accept)
Spec == Init /\ [][Next]_vars /\ Fairness

-----------------------------------------------------------------------------
Steps == GateSteps \cup {"0-title", "prewarm", "walk", "actions", "done", "refused", "aborted"}

\* Every variable has the type of what it stands for in autoload_save.py.
TypeOK == /\ game \in [scr : Screens, row : 0..FirstRow + 2, save : NoRow..FirstRow]
          /\ focused \in BOOLEAN
          /\ queue \in Seq([key : {"z", "x", "up", "down", "left"}, action : 0..Actions])
          /\ step \in Steps /\ phase \in {"press", "shot"}
          /\ attempt \in 0..2 /\ ups \in 0..SaveUp /\ expected \in NoRow..FirstRow
          /\ held \in 0..Files /\ done \in Nat
          /\ probe \in [armed : BOOLEAN, from : 0..Actions]
          /\ records \in [1..Actions -> 0..Actions]
          /\ lost \in Nat /\ blurred \in BOOLEAN /\ late \in BOOLEAN

Measuring == step \in {"walk", "actions", "done"}

\* "kept loading a different save and quietly measuring the wrong scene": lost
\* keys and unclear pictures never lead the route into another save.
MeasuresChosenSave ==
    Measuring /\ ~late => game.scr = "scene" /\ game.save = FirstRow - SaveUp

\* With pictures that are clear and taken after the key, the route gives up only
\* where a key was lost twice in one step.
OneLossIsForgiven ==
    step = "refused" /\ ~late /\ ~blurred /\ FirstRow >= SaveUp => lost >= 2

\* What the probe recorded for an action is the sound of that action.
CapturesOwnSound == ~late => \A a \in 1..Actions : records[a] \in {0, a}

\* The route comes to an end, whatever the game does.
RouteOver == step \in {"done", "refused", "aborted"}

\* The pages stay locked while the scene is measured, and a route that is over
\* holds none, whichever way it ended.
LocksCoverMeasurement ==
    /\ step \in {"6-loaded", "walk", "actions"} /\ LockPages => held = Files
    /\ RouteOver => held = 0

=============================================================================
