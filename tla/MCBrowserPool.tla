--------------------------- MODULE MCBrowserPool ---------------------------
(* Instances of BrowserPool for TLC: three renders over one or two browsers. *)
EXTENDS BrowserPool

CONSTANTS c1, c2, c3
=============================================================================
