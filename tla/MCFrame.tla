------------------------------ MODULE MCFrame ------------------------------
(* Instances of Frame for TLC.                                             *)
EXTENDS Frame, TLC

CONSTANT none

MCKeys == {none, <<>>, <<1, 0, 1, 1>>}
MCGarbage == 0 .. 11 \cup {30, 31}

\* Changes with every single word, as crc32 does with every error burst of up
\* to 32 bits.
MCCrc(words) ==
    LET Sum[i \in 0 .. Len(words)] == IF i = 0 THEN 0 ELSE Sum[i - 1] + i * words[i]
    IN  Sum[Len(words)] % 37
=============================================================================
