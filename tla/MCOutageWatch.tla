--------------------------- MODULE MCOutageWatch ----------------------------
(* OutageWatch on small instances.                                          *)
EXTENDS OutageWatch
=============================================================================
