------------------------------ MODULE MCSidecar ------------------------------
(* A restart budget of two, one restart by the user and one healthy run:    *)
(* every launch the bounds allow is within LaunchBound, so no behaviour is  *)
(* cut short by it.                                                         *)
EXTENDS Sidecar

MCMaxFailures == 2
=============================================================================
