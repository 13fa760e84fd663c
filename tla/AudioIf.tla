------------------------------ MODULE AudioIf -------------------------------
(***************************************************************************)
(* What the two directions of the audio interface (ip/TERASIC_AUDIO) have  *)
(* in common: the size of a word, and the codec, which is the master of    *)
(* both serial lines.  A channel lasts as many bit clocks as it has bits,  *)
(* one to start with, and some padding.                                    *)
(***************************************************************************)
EXTENDS Naturals, Sequences

CONSTANTS
    Half,      \* DATA_WIDTH / 2, the bits of a channel
    MaxPad     \* bit clocks of a channel after its last bit, at most

ASSUME AudioIfAssumption == Half \in Nat \ {0} /\ MaxPad \in Nat

DATA_WIDTH == 2 * Half

(* The bit counters count down in as many bits as DATA_WIDTH takes, so     *)
(* that DATA_WIDTH itself is zero.                                         *)
Down(index) == (index + DATA_WIDTH - 1) % DATA_WIDTH

=============================================================================
