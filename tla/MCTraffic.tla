----------------------------- MODULE MCTraffic ------------------------------
(* Months of three, two and three days, so that a reset on the third falls  *)
(* on the end of the second month.                                          *)
EXTENDS Traffic

MCMonthLengths == <<3, 2, 3>>
=============================================================================
