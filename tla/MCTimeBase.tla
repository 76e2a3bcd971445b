----------------------------- MODULE MCTimeBase -----------------------------
(* A second of three milliseconds.  The frequencies: below, at and above    *)
(* ONE_KHZ, dividing it or a multiple of it (1, 3, 6) and not (2), and the  *)
(* default.  A timer of 7 ms is longer than two torn reads, an addition of  *)
(* 9 ms longer than what addMillis() may lose.                              *)
EXTENDS TimeBase

MCFreqs == {0, 1, 2, 3, 6}
MCAdds == {9}
MCPeriods == {7}
=============================================================================
