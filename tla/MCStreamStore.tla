--------------------------- MODULE MCStreamStore ---------------------------
(* An instance of StreamStore for TLC: stored and unstored progress, both  *)
(* ends of a run, a suspension and its resumption.                         *)
EXTENDS StreamStore

SmallPlans == {<<"text", "preview", "done">>, <<"suspend", "resume">>,
               <<"text", "failed">>}
=============================================================================
