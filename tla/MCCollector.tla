----------------------------- MODULE MCCollector -----------------------------
(* Model checking of Collector: two channels, small logs. *)
EXTENDS Collector

TwoChannels == <<"Security", "System">>
OneChannel == <<"Security">>
AllParse == {TRUE}
SomeDoNot == BOOLEAN
=============================================================================
