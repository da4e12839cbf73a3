----------------------------- MODULE MCWebServer -----------------------------
(* The instance of WebServer for TLC.                                        *)
EXTENDS WebServer

=============================================================================
