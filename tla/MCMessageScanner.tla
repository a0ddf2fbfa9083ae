-------------------------- MODULE MCMessageScanner --------------------------
(* Finite instance of MessageScanner for TLC.                               *)
EXTENDS MessageScanner

Buy == [kind |-> "full", dir |-> "BUY"]
Sell == [kind |-> "full", dir |-> "SELL"]
Entry == [kind |-> "entry", dir |-> "BUY"]
BuyNow == [kind |-> "now", dir |-> "BUY"]
SellNow == [kind |-> "now", dir |-> "SELL"]
Levels == [kind |-> "levels", dir |-> "-"]
CloseNow == [kind |-> "close", dir |-> "-"]

\* Both features on, or both off.
MCSettings == {[ime |-> b, second |-> b] : b \in BOOLEAN}

MCScripts == {
    << <<Entry, Buy>>, <<Levels>> >>,
    << <<BuyNow, SellNow>>, <<Buy>> >>,
    << <<BuyNow, Buy>>, <<CloseNow>> >>,
    << <<Buy, Sell>>, <<CloseNow>> >> }
\* After a mishap one trade or waiting signal is followed further, two as long
\* as the channel has one message.
MishapIsSmall ==
    raced # {} => Len(trades) + Cardinality(waiting) <= IF posted = 1 THEN 2 ELSE 1
=============================================================================
