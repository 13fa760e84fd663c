-------------------------------- MODULE Audio -------------------------------
(***************************************************************************)
(* The two directions of the audio interface in one run.  They share the   *)
(* clear command and nothing else, and clear is an access of the host in   *)
(* either of them, so that each is run by itself, the other at rest.       *)
(***************************************************************************)
EXTENDS AudioIn, AudioOut

VARIABLE side    \* the direction that runs

AudioInit ==
    /\ InInit /\ OutInit
    /\ \/ side = "in"  /\ ~dacLeft
       \/ side = "out" /\ ~adcLeft /\ gap = 0

AudioNext ==
    /\ \/ side = "in"  /\ InNext  /\ UNCHANGED outVars
       \/ side = "out" /\ OutNext /\ UNCHANGED inVars
    /\ UNCHANGED side

AudioSpec == AudioInit /\ [][AudioNext]_<<inVars, outVars, side>>

=============================================================================
