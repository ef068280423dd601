---------------------------- MODULE MCStreamPipe ----------------------------
(***************************************************************************)
(* Instances of StreamPipe for TLC.                                        *)
(***************************************************************************)
EXTENDS StreamPipe

CONSTANTS t1, t2

OneTool == {t1}
TwoTools == {t1, t2}
=============================================================================
