--------------------------- MODULE MCPlaySessions ---------------------------
\* Small instances of PlaySessions for TLC.
EXTENDS PlaySessions, TLC

CONSTANTS s1, s2, s3, b1, b2, command, player

\* Two sessions play on one branch, one on another.
TwoBranches == s1 :> b1 @@ s2 :> b1 @@ s3 :> b2

\* Commands and moves, one at a time.
AllKinds == [w \in Worker |-> Kinds]

\* A move runs beside the commands.
CommandsAndMoves == command :> {"create", "activate"} @@ player :> {"move"}
=============================================================================
