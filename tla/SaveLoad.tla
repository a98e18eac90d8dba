------------------------------ MODULE SaveLoad ------------------------------
(***************************************************************************)
(* Save files: game/SaveLoad.cpp, and F5 and F9 in main.cpp.  A game is a  *)
(* value, and its file is its first chunks: the fields of the message in   *)
(* their order, the map first, of which a file may hold all, some, or one  *)
(* in part.  The program may be killed at any time, and the disk be full.  *)
(*                                                                         *)
(* A file is named after the second, in local time, in which the save      *)
(* began, and carries the time at which it was last written to.            *)
(***************************************************************************)
EXTENDS Naturals, Sequences

CONSTANTS
  Games,             \* the games there may be: what the user has on the screen
  Demo,              \* the game a fresh program starts with
  Chunks,            \* of the message: the first is the turn and the map
  LastSecond,        \* bounds of the model: after this second the clock is set
  MaxWrites          \* back to 0; and so many writes to files

SaveLoadAssumption ==
  /\ Demo \in Games
  /\ Chunks \in Nat \ {0, 1}
  /\ LastSecond \in Nat /\ MaxWrites \in Nat

VARIABLES
  files,             \* by name: whose message, how many chunks whole, torn or not
  second,            \* the local time in seconds
  tick,              \* the time of the file system
  saving,            \* the save that is being written, if there is one
  state,             \* the game in memory, or what has been read of one
  kept,              \* history: the last save that was completed
  begun              \* history: what the save that was begun last had to save

vars == <<files, second, tick, saving, state, kept, begun>>

\* A game of which everything is there, and no file or save.
Whole(game) == [of |-> game, chunks |-> Chunks]

None == <<>>

Init ==
  /\ files = [s \in {} |-> None]
  /\ second = 0
  /\ tick = 0
  /\ saving = None
  /\ state = Whole(Demo)
  /\ kept = None
  /\ begun = None

\* The user plays on.
Play ==
  \E game \in Games :
    /\ saving = None
    /\ state' = Whole(game)
    /\ UNCHANGED <<files, second, tick, saving, kept, begun>>

\* Time goes on; and at the end of summer the local time is set back.
Pass ==
  /\ second < LastSecond
  /\ second' = second + 1
  /\ UNCHANGED <<files, tick, saving, state, kept, begun>>

SetBack ==
  /\ second = LastSecond
  /\ second' = 0
  /\ UNCHANGED <<files, tick, saving, state, kept, begun>>

Write(name, chunks, torn) ==
  /\ tick < MaxWrites
  /\ tick' = tick + 1
  /\ files' = [n \in DOMAIN files \cup {name} |->
                 IF n # name THEN files[n]
                 ELSE [of |-> state.of, chunks |-> chunks, torn |-> torn, at |-> tick + 1]]

GenerateSavePath(s) == s

\* saveGame opens the file, and what was in it is gone; or it cannot.
Open ==
  LET name == GenerateSavePath(second)
  IN  /\ saving = None
      /\ \/ /\ Write(name, 0, FALSE)
            /\ saving' = <<[name |-> name, second |-> second]>>
            /\ kept' = [k \in DOMAIN kept |-> [kept[k] EXCEPT !.since = @ \cup {second}]]
            /\ begun' = <<state>>
         \/ UNCHANGED <<files, tick, saving, kept, begun>>
      /\ UNCHANGED <<second, state>>

\* Some of the message reaches the disk while it is written, the rest when
\* the file is closed; what does not fit is lost.
Reaches(n, torn) == Write(saving[1].name, n, torn)

\* write() fails and says so, if what does not fit the buffer does not fit
\* the disk either.
WriteFails ==
  \E n \in 0 .. state.chunks - 1, torn \in BOOLEAN :
    /\ saving # None
    /\ Reaches(n, torn)
    /\ saving' = None
    /\ UNCHANGED <<second, state, kept, begun>>

\* write() has put everything on the disk or into its buffer, and good() has
\* been asked; then the stream is closed, whether that succeeds or not.
WriteAndClose ==
  /\ saving # None
  /\ \/ /\ Reaches(state.chunks, FALSE)
        /\ kept' = IF state = Whole(state.of)
                   THEN <<[game |-> state.of, second |-> saving[1].second, since |-> {}]>>
                   ELSE None
     \/ \E n \in 0 .. state.chunks - 1, torn \in BOOLEAN :
          Reaches(n, torn) /\ kept' = kept
  /\ saving' = None
  /\ UNCHANGED <<second, state, begun>>

\* The program is killed, with a save under way or not, and started again.
Crash ==
  /\ \/ saving = None /\ UNCHANGED <<files, tick>>
     \/ /\ saving # None
        /\ \/ UNCHANGED <<files, tick>>
           \/ \E n \in 0 .. state.chunks - 1, torn \in BOOLEAN : Reaches(n, torn)
  /\ saving' = None
  /\ state' = Whole(Demo)
  /\ UNCHANGED <<second, kept, begun>>

\* Mutant: the oldest file is taken for the latest.
LatestSavePathOldest(fs) == CHOOSE n \in DOMAIN fs : \A m \in DOMAIN fs : fs[n].at <= fs[m].at

LatestSavePath(fs) == CHOOSE n \in DOMAIN fs : \A m \in DOMAIN fs : fs[n].at >= fs[m].at

\* loadGame and deserializeGameState refuse a file that is not there or
\* empty, that ends within a field, or that has no map.
Readable(file) == file.chunks > 0 /\ ~file.torn

\* F9: what is not in the file is not in the game; a refusal changes nothing.
Load ==
  /\ saving = None
  /\ DOMAIN files # {}
  /\ LET file == files[LatestSavePath(files)]
     IN  state' = IF Readable(file) THEN [of |-> file.of, chunks |-> file.chunks] ELSE state
  /\ UNCHANGED <<files, second, tick, saving, kept, begun>>

Next == Play \/ Pass \/ SetBack \/ Open \/ WriteFails \/ WriteAndClose \/ Crash \/ Load

Spec == Init /\ [][Next]_vars

-----------------------------------------------------------------------------
(* What is checked. *)

TypeOK ==
  /\ DOMAIN files \subseteq 0 .. LastSecond
  /\ \A n \in DOMAIN files :
       files[n] \in [of : Games, chunks : 0 .. Chunks, torn : BOOLEAN, at : 1 .. tick]
  /\ second \in 0 .. LastSecond /\ tick \in 0 .. MaxWrites
  /\ state \in [of : Games, chunks : 1 .. Chunks]
  /\ saving \in Seq([name : DOMAIN files, second : 0 .. LastSecond]) /\ Len(saving) <= 1
  /\ kept \in Seq([game : Games, second : 0 .. LastSecond, since : SUBSET (0 .. LastSecond)])
  /\ begun \in Seq([of : Games, chunks : 1 .. Chunks])
  /\ Len(kept) <= 1 /\ Len(begun) <= 1

\* The file of the last save that was completed is still there, whatever later
\* saves did, were they cut off by a crash or a full disk; unless one began in
\* a second of the same name.
LastSaveSurvives ==
  \A k \in DOMAIN kept :
    \/ \E n \in DOMAIN files :
         ~files[n].torn /\ [of |-> files[n].of, chunks |-> files[n].chunks] = Whole(kept[k].game)
    \/ kept[k].second \in kept[k].since

\* A save was begun after the last one that was completed, and cut off.
CutOff == \E k \in DOMAIN kept : kept[k].since # {}

\* F9 gives the game of the save that was begun last, after a crash or in the
\* middle of another game: all of it if that save was completed; if it was cut
\* off, a part, or nothing that is not in memory already, although a completed
\* save may be beside it.
LoadGivesTheLastBegun ==
  [][Load =>
       /\ \A k \in DOMAIN kept : kept[k].since = {} => state' = Whole(kept[k].game)
       /\ state' # state =>
            \E n \in 1 .. begun[1].chunks :
              /\ state' = [of |-> begun[1].of, chunks |-> n]
              /\ CutOff => n < begun[1].chunks]_vars

\* A completed save stays in its file; what F9 reads is the save begun last.
SavesAreKept == [](TypeOK /\ LastSaveSurvives) /\ LoadGivesTheLastBegun

=============================================================================
