------------------------------- MODULE WireNumber -------------------------------
(***************************************************************************)
(* How the words of 18 cards are told apart with a 4-bit TDC number.       *)
(*                                                                         *)
(* A card has 24 channels, but a word has 5 bits for the channel: the      *)
(* event builder (filar_side/class_CSM.cpp) writes the channels of cards   *)
(* 16 and 17 as channels 24 to 31 of TDCs 0 to 2 and 4 to 6, and the       *)
(* programs that list data, DataInterpretation of the same file and the one*)
(* of the host (labwindows, DAQControl.c), take that back.                 *)
(***************************************************************************)
EXTENDS Integers

Cards == 0..17
Channels == 0..23

\* A word's TDC number and channel.
WireNumbers == [tdc : 0..15, chan : 0..31]

\* The TDC numbers that stand for card 16 start at 0, those for card 17 at 4.
FirstTDC(mezz) == IF mezz = 16 THEN 0 ELSE 4

\* DataAssembling: the card and the channel as they are put into the word.
Encoded(mezz, chan) ==
    IF mezz < 16
    THEN [tdc |-> mezz, chan |-> chan]
    ELSE [tdc |-> FirstTDC(mezz) + (IF chan < 8 THEN 0 ELSE IF chan < 16 THEN 1 ELSE 2),
          chan |-> 24 + (chan % 8)]

\* DataInterpretation: the card and the channel a word is listed under.
Decoded(w) ==
    IF w.chan >= 24 /\ w.tdc < 3
    THEN [mezz |-> 16, chan |-> w.chan - 24 + 8 * w.tdc]
    ELSE IF w.chan >= 24 /\ w.tdc > 3 /\ w.tdc < 7
         THEN [mezz |-> 17, chan |-> w.chan - 24 + 8 * (w.tdc - 4)]
         ELSE [mezz |-> w.tdc, chan |-> w.chan]
================================================================================
