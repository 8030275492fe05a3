---------------------------- MODULE MCHeartbeat ----------------------------
(* Model checking of Heartbeat: a short and a long window, quiet hours *)
(* within the day, past midnight and all day long.                     *)
EXTENDS Heartbeat

MCLimit  == <<2, 3>>
MCLength == <<2, 3>>

MCQuiet == {Malformed, <<1, 2>>, <<2, 1>>, <<1, 1>>}
=============================================================================
