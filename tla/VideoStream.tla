---------------------------- MODULE VideoStream ----------------------------
(***************************************************************************)
(* What the log generator promises to the video pipeline: a stream of      *)
(* beats, a control packet and a picture in turn, in which no beat is      *)
(* missing, repeated or out of place, however the sink delays it.  The     *)
(* stream starts inside a control packet.                                  *)
(***************************************************************************)
EXTENDS Naturals

CONSTANTS Width, Height

VARIABLES
    at,     \* the place of the beat in the stream
    beat,   \* what the sink sees
    taken   \* turns over when the sink takes a beat

vars == <<at, beat, taken>>

ControlBeats == 3

Places == [part : {"CTRL_SOP", "CTRL_DAT", "DATA_SOP", "DATA_DAT"},
           line : 0 .. Height - 1,
           dot  : 0 .. (IF Width > ControlBeats THEN Width ELSE ControlBeats) - 1]

Start(part) == [part |-> part, line |-> 0, dot |-> 0]

(* Left to right, then top to bottom.                                      *)
Following(p) ==
    CASE p.part = "CTRL_SOP" -> Start("CTRL_DAT")
      [] p.part = "CTRL_DAT" /\ p.dot < ControlBeats - 1 -> [p EXCEPT !.dot = @ + 1]
      [] p.part = "CTRL_DAT" /\ p.dot = ControlBeats - 1 -> Start("DATA_SOP")
      [] p.part = "DATA_SOP" -> Start("DATA_DAT")
      [] p.part = "DATA_DAT" /\ p.dot < Width - 1 -> [p EXCEPT !.dot = @ + 1]
      [] p.part = "DATA_DAT" /\ p.dot = Width - 1 /\ p.line < Height - 1 ->
            [part |-> "DATA_DAT", line |-> p.line + 1, dot |-> 0]
      [] OTHER -> Start("CTRL_SOP")

(* The picture is shown one dot late: its first dot is shown twice, and its*)
(* last one never.                                                         *)
Shown(p) ==
    IF p.dot > 0 THEN <<p.line, p.dot - 1>>
    ELSE IF p.line > 0 THEN <<p.line - 1, Width - 1>>
    ELSE <<0, 0>>

Control(k) == CASE k = 0 -> "width" [] k = 1 -> "widthHeight" [] OTHER -> "height"

(* Each packet has one first and one last beat.                            *)
BeatAt(p) ==
    [sop  |-> p.part \in {"CTRL_SOP", "DATA_SOP"},
     eop  |-> \/ p.part = "CTRL_DAT" /\ p.dot = ControlBeats - 1
              \/ p.part = "DATA_DAT" /\ p.dot = Width - 1 /\ p.line = Height - 1,
     data |-> CASE p.part = "CTRL_SOP" -> <<"control">>
                [] p.part = "CTRL_DAT" -> <<Control(p.dot)>>
                [] p.part = "DATA_SOP" -> <<"picture">>
                [] OTHER -> Shown(p)]

Blank == [sop |-> FALSE, eop |-> FALSE, data |-> <<"blank">>]

Init == at = Start("CTRL_SOP") /\ beat = Blank /\ taken = FALSE

Advance ==
    /\ at' = Following(at)
    /\ beat' = BeatAt(at')
    /\ taken' = ~taken

Spec == Init /\ [][Advance]_vars
=============================================================================
