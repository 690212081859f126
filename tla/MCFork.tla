------------------------------- MODULE MCFork -------------------------------
(***************************************************************************)
(* TLC instances of Fork.                                                  *)
(***************************************************************************)
EXTENDS Fork, TLC

CONSTANTS main, other,            \* threads
          plain, extra, odd, tampered,   \* contents; extra does not survive put
          chan_x, chan_y        \* channels

MCTampered == [id \in Ids |-> IF id = 1 THEN {tampered} ELSE {odd}]

MCContents == {plain, odd, tampered}

MCObjects == MCContents \cup {extra}

MCSurvives == [o \in MCObjects |-> IF o = extra THEN plain ELSE o]

\* A recorder bound to the log of the main thread, a recorder of the main
\* thread that the application opened first, or neither.
MCRecorders == {[log |-> main, enabled |-> e, strict |-> s] : e, s \in BOOLEAN}

setup(e, b, r) ==
  [enabled |-> e, bound |-> b, opened |-> [t \in Threads |-> IF t = main THEN r ELSE None]]

MCWrappers ==
  {setup(TRUE, b, None) : b \in {q \in MCRecorders : q.enabled \/ q.strict}}
    \cup {setup(TRUE, None, r) : r \in {None} \cup {q \in MCRecorders : q.strict}}
    \cup {setup(FALSE, None, None)}

MCWriteLists == {<<chan_x>>, <<chan_y>>, <<chan_x, chan_y>>}

MCAppWrites == {<<chan_x, chan_y>>}
=============================================================================
