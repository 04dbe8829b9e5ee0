--------------------------- MODULE MCBrowserSlot ---------------------------
(* A small instance of BrowserSlot for TLC: a Worker and a scan supervisor  *)
(* on one host, a Worker on another.                                        *)
EXTENDS BrowserSlot, TLC

CONSTANTS w1, a1, w2, h1, h2

MCTwoHosts == [s \in {w1, a1, w2} |-> IF s = w2 THEN h2 ELSE h1]
=============================================================================
