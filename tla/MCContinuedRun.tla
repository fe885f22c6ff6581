-------------------------- MODULE MCContinuedRun ---------------------------
EXTENDS ContinuedRun

(* A final text, one call of either kind, two observations in one turn,    *)
(* and a turn that is not serial.                                          *)
MCTurns ==
    {<<>>, <<"observation">>, <<"side_effect">>,
     <<"observation", "observation">>, <<"observation", "side_effect">>}
=============================================================================
