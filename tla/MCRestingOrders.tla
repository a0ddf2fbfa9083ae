-------------------------- MODULE MCRestingOrders --------------------------
(* Finite instance of RestingOrders for TLC.                                *)
EXTENDS RestingOrders, TLC

\* Every property is about setups that have not been through a named race: the
\* search stops at the first one.
Unraced == raced = {}
=============================================================================
