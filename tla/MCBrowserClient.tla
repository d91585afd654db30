---------------------------- MODULE MCBrowserClient ----------------------------
(* BrowserClient with a catalog of two commands and three sessions.          *)
EXTENDS BrowserClient

CONSTANTS c1, c2    \* commands

===============================================================================
