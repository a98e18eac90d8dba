------------------------------- MODULE Screens -------------------------------
(***************************************************************************)
(* The program around the game: main() with its loop, the screens, the     *)
(* fade between them, and the menus.  A step is one frame.  What a frame   *)
(* of the game itself does is LocalGame's.                                 *)
(*                                                                         *)
(* Times are in parts of a fade, of which FadeDuration make a whole one.   *)
(* Of raylib it is modelled that a press of its exit key, which is Escape  *)
(* unless SetExitKey is called, makes WindowShouldClose true, and that the *)
(* loop looks there before it looks at the keys.                           *)
(***************************************************************************)
EXTENDS Integers

CONSTANTS
  FadeDuration,      \* FADE_DURATION
  FrameTimes         \* how long a frame may take

ScreensAssumption == FadeDuration \in Nat \ {0} /\ FrameTimes \subseteq Nat

VARIABLE app

vars == app

\* The buttons of the menus, by screen, and the keys that matter.
Buttons == [MainMenu |-> {"New Game", "Load Game", "Settings", "Quit"},
            Settings |-> {"Back"}, InGame |-> {}]

Inputs == {"none", "Escape", "close"} \cup UNION {Buttons[s] : s \in DOMAIN Buttons}

-----------------------------------------------------------------------------
(* Transition. *)

Started(fade, direction) ==
  [fade EXCEPT !.direction = direction, !.progress = 0, !.active = TRUE, !.complete = FALSE]

Updated(fade, dt) ==
  IF ~fade.active THEN fade
  ELSE IF fade.progress + dt >= FadeDuration
  THEN [fade EXCEPT !.progress = FadeDuration, !.active = FALSE, !.complete = TRUE]
  ELSE [fade EXCEPT !.progress = @ + dt]

\* How dark the screen is.
Alpha(fade) == IF fade.direction = "FadeOut" THEN fade.progress ELSE FadeDuration - fade.progress

Black(fade) == fade.complete /\ Alpha(fade) >= FadeDuration

-----------------------------------------------------------------------------
\* AppState, and the transition that main() starts.
Init ==
  app = [screen |-> "MainMenu", pending |-> "MainMenu",
         fade |-> [direction |-> "FadeIn", progress |-> 0, active |-> TRUE, complete |-> FALSE],
         gameInitialized |-> FALSE, running |-> TRUE,
         setUps |-> 0,               \* history: how often setupDemoState ran,
         dt |-> 0,                   \* history: how long this frame took,
         played |-> FALSE]           \* history: this frame was one of the game's, with input

HandleTransitionComplete(a) ==
  LET enters == a.pending = "InGame" /\ ~a.gameInitialized
  IN  [a EXCEPT !.screen = a.pending,
                !.fade = Started(@, "FadeIn"),
                !.gameInitialized = @ \/ enters,
                !.setUps = @ + IF enters THEN 1 ELSE 0]

GoTo(a, screen) == [a EXCEPT !.pending = screen, !.fade = Started(@, "FadeOut")]

\* Mutant: the menu can be used while it fades.
UpdateMainMenuAlways(a, in) ==
  CASE in = "New Game" -> GoTo(a, "InGame")
    [] in = "Settings" -> GoTo(a, "Settings")
    [] in = "Quit" -> [a EXCEPT !.running = FALSE]
    [] OTHER -> a

\* There is nothing behind "Load Game" yet.
UpdateMainMenu(a, in) ==
  CASE a.fade.active -> a
    [] ~a.fade.active /\ in = "New Game" -> GoTo(a, "InGame")
    [] ~a.fade.active /\ in = "Settings" -> GoTo(a, "Settings")
    [] ~a.fade.active /\ in = "Quit" -> [a EXCEPT !.running = FALSE]
    [] OTHER -> a

UpdateSettings(a, in) ==
  IF ~a.fade.active /\ in \in {"Back", "Escape"} THEN GoTo(a, "MainMenu") ELSE a

\* A frame of the game, which no input reaches during a fade.
UpdateInGame(a) == [a EXCEPT !.played = ~a.fade.active]

UpdateScreen(a, in) ==
  CASE a.screen = "MainMenu" -> UpdateMainMenu(a, in)
    [] a.screen = "Settings" -> UpdateSettings(a, in)
    [] a.screen = "InGame" -> UpdateInGame(a)

\* The body of the loop.
LoopBody(a, in, dt) ==
  LET faded == [a EXCEPT !.fade = Updated(@, dt), !.dt = dt, !.played = FALSE]
  IN  UpdateScreen(IF Black(faded.fade) THEN HandleTransitionComplete(faded) ELSE faded, in)

\* Input that came with the last frame: the loop ends before it is handled.
WindowShouldClose(in) == in \in {"Escape", "close"}

Frame ==
  \E in \in Inputs, dt \in FrameTimes :
    /\ app.running
    /\ in \in {"none", "Escape", "close"} \cup Buttons[app.screen]
    /\ app' = IF WindowShouldClose(in)
              THEN [app EXCEPT !.running = FALSE]
              ELSE LoopBody(app, in, dt)

Next == Frame

\* As long as the program runs it comes to the next frame.
Spec == Init /\ [][Next]_vars /\ WF_vars(Next)

-----------------------------------------------------------------------------
(* What is checked. *)

TypeOK ==
  /\ app.screen \in DOMAIN Buttons /\ app.pending \in DOMAIN Buttons
  /\ app.fade.direction \in {"FadeIn", "FadeOut"} /\ app.fade.progress \in 0 .. FadeDuration
  /\ ~(app.fade.active /\ app.fade.complete)
  /\ {app.fade.active, app.fade.complete, app.gameInitialized, app.running,
      app.played} \subseteq BOOLEAN
  /\ app.setUps \in 0 .. 1 /\ app.dt \in FrameTimes \cup {0}

\* The game is never played before it is set up, and is set up once.
PlayedWhenSetUp == app.screen = "InGame" \/ app.played => app.setUps = 1 /\ app.gameInitialized

\* The screens are exchanged in the dark, and the light never flickers: from
\* frame to frame it changes by no more than the time that passed.
LightChangesSlowly ==
  [][LET change == Alpha(app'.fade) - Alpha(app.fade)
     IN  /\ change \in -app'.dt .. app'.dt
         /\ app'.screen # app.screen => Alpha(app'.fade) = FadeDuration]_vars

\* Who chooses a new game comes to play it, unless the program is ended.
NewGameStarts ==
  app.pending = "InGame" ~> (app.screen = "InGame" /\ app.played) \/ ~app.running

\* What the player sees and can do while one screen gives way to another.
ScreensAreSound == [](TypeOK /\ PlayedWhenSetUp) /\ LightChangesSlowly

=============================================================================
