---------------------------- MODULE MCSseScanner -----------------------------
(* Every stream of up to six tokens in every division into chunks of one    *)
(* and two: two events that end in LF LF, one of two lines and more, or one  *)
(* in CR LF CR LF and the start of the next.                                 *)
EXTENDS SseScanner
==============================================================================
