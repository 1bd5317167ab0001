------------------------------ MODULE MCGateway -----------------------------
(* Two entries and the configurations a reload has to tell apart: the same   *)
(* again; one that disables b, gives its output path to a and changes the    *)
(* shared settings (and the way back); one without a channel; and an invalid *)
(* file.                                                                     *)
EXTENDS Gateway

Ch(id, path) == [id |-> id, path |-> path, enabled |-> TRUE]
Config(globals, channels) == [globals |-> globals, channels |-> channels]

Plain     == Config("g", <<Ch("a", "x"), Ch("b", "y")>>)
Taken     == Config("h", <<Ch("a", "y"), [id |-> "b", path |-> "x", enabled |-> FALSE]>>)
Empty     == Config("g", <<>>)
Duplicate == Config("g", <<Ch("a", "x"), Ch("a", "y")>>)

MCConfigs    == {Plain, Taken, Empty, Duplicate}
SingleConfig == {Config("g", <<Ch("a", "x")>>)}
MoveConfigs  == {Config("g", <<Ch("a", "x")>>), Config("g", <<Ch("b", "x")>>)}
=============================================================================
