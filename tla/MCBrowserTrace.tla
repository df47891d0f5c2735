--------------------------- MODULE MCBrowserTrace ---------------------------
(* Instances of BrowserTrace for TLC. *)
EXTENDS BrowserTrace
=============================================================================
