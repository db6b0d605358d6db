---------------------------- MODULE SessionLife ----------------------------
(***************************************************************************)
(* What the gateway promises the server about each GATT session, whatever  *)
(* threads, callbacks and links sit in between: a session goes through its *)
(* states in their order and through each of them once, it may end         *)
(* anywhere, one that is being ended only ends, and an id is free again    *)
(* when its session has ended, and no sooner.                              *)
(*                                                                         *)
(* The promise does not hold for every session.  One that the code loses   *)
(* hold of is "excused", and nothing is promised of it from then on.       *)
(***************************************************************************)
CONSTANT Sids       \* session ids

VARIABLE life       \* where each session is

SetUp == {"connecting", "initializing", "subscribing", "active"}
Phases == SetUp \cup {"none", "ending", "excused"}

\* How a session goes on when nothing goes wrong.
GoesOn == {<<"none", "connecting">>, <<"connecting", "initializing">>,
           <<"initializing", "subscribing">>, <<"subscribing", "active">>}
\* It is ended by the server or by itself, and is gone then.
IsEnded == SetUp \X {"ending"}
IsGone == (SetUp \cup {"ending"}) \X {"none"}

\* Where a session may be after a step that leaves it alone, and after its own.
Rests(phase) == {phase, "excused"}
Moves(phase) ==
    Rests(phase) \cup {next \in Phases : <<phase, next>> \in GoesOn \cup IsEnded \cup IsGone}

LifeInit == life = [s \in Sids |-> "none"]

\* One session moves at a time.
LifeNext ==
    /\ life' \in [Sids -> Phases]
    /\ \E s \in Sids :
          /\ life'[s] \in Moves(life[s])
          /\ \A r \in Sids \ {s} : life'[r] \in Rests(life[r])

LifeSpec == LifeInit /\ [][LifeNext]_life
=============================================================================
