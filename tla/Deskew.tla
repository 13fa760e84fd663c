------------------------------- MODULE Deskew -------------------------------
(***************************************************************************)
(* The arithmetic that rw_mgr_mem_calibrate_vfifo_center() and             *)
(* rw_mgr_mem_calibrate_writes_center() share, in                          *)
(* hps_isw_handoff/soc_system_hps_0/sequencer.c: from the edges of the     *)
(* windows of a group's bits to the delays that line their centres up.     *)
(***************************************************************************)
EXTENDS Integers

(* The division of C by two.                                               *)
Half(n) == IF n >= 0 THEN n \div 2 ELSE -((-n) \div 2)

(* mid_min / 2, after one has been added to a positive mid_min: rounded to *)
(* the right.                                                              *)
HalfUp(n) == Half(IF n > 0 THEN n + 1 ELSE n)

(* A setting that would leave its delay chain stays at the end of it.      *)
Clamp(n, max) == IF n > max THEN max ELSE IF n < 0 THEN 0 ELSE n
=============================================================================
