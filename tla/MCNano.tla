------------------------------- MODULE MCNano -------------------------------
(* Instances of Nano for TLC. *)
EXTENDS Nano

CONSTANTS a, b

MCChars == {a, b}

\* A line too long, a line too many, no newline at the end, an empty file.
MCTexts == {<<>>, <<a, b, a, NL>>, <<a, NL, NL, b, NL, a, b>>, <<NL, b>>}
=============================================================================
