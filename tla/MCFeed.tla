--------------------------------- MODULE MCFeed --------------------------------
(***************************************************************************)
(* Small instances of MarketDataFeed for TLC.  A tick is a ping interval   *)
(* of 5 s: book data is stale after one tick, tickers after two, a pong is *)
(* missed after three, and warm-up lasts two.                              *)
(***************************************************************************)
EXTENDS MarketDataFeed

MCMaxAge == [s \in Streams |-> IF s = "book" THEN 1 ELSE 2]

MCFaults == {"reset", "silent", "rest", "reject", "cancel"}
MCCleanFaults == {"closed", "slow"}
MCNoFaults == {}
================================================================================
