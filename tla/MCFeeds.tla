------------------------------ MODULE MCFeeds -------------------------------
(***************************************************************************)
(* Small instances of Feeds: two ids in two shards, two symbols.           *)
(***************************************************************************)
EXTENDS Feeds

TwoShards == [e \in Entity |-> (e % 2) + 1]

\* Symbols as numbers; every symbol is its own hash
SelfHash == [s \in Symbol |-> s]

\* One message names both symbols
BothSymbols == {<<3, 4>>, <<4>>}

NoBatches == {}

=============================================================================
