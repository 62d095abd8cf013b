------------------------------ MODULE MCInput ------------------------------
(***************************************************************************)
(* What the user types and sees: a behaviour is one of the keyboard driver *)
(* and a process that reads from it, or one of tetris.                     *)
(***************************************************************************)
EXTENDS MCKeyboard, Tetris

VARIABLE part           \* "keyboard" or "tetris"

all_vars == <<part, game_vars, vars>>

\* On a board of four columns two P_O fill two lines at once, and a P_T joins them
\* in one.
MCPieces == {"P_O", "P_T"}
MCKeySets ==
    {{}, {"left"}, {"right"}, {"right", "drop"}, {"down", "rotate"}, {"pause"}, {"quit"}}

InputInit ==
    /\ part \in {"keyboard", "tetris"}
    /\ next_piece \in IF part = "tetris" THEN MCPieces ELSE {"P_O"}
    /\ Init /\ GameInit

Reading(r) == part = "keyboard" /\ ReadKey(r) /\ UNCHANGED <<part, game_vars>>
Rounds == part = "tetris" /\ update /\ UNCHANGED <<part, vars>>

InputNext ==
    \/ part = "keyboard" /\ Next /\ UNCHANGED <<part, game_vars>>
    \/ part = "tetris" /\ GameNext /\ UNCHANGED <<part, vars>>

\* A reader inside read_key is scheduled again and again, and the game loop is not
\* left while the program runs.
InputSpec ==
    /\ InputInit /\ [][InputNext]_all_vars
    /\ \A r \in Readers : WF_all_vars(Reading(r))
    /\ WF_all_vars(Rounds)
-----------------------------------------------------------------------------
\* update of tetris.c keeps pieces landing until the game is over, if it is not
\* paused or left any more.
GameGoesOn == part = "tetris" => KeepsLanding
=============================================================================
