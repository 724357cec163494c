----------------------------- MODULE MCMessages ------------------------------
(* Messages with every text of at most two characters, among them digits,  *)
(* commas, and characters of two and three bytes.                          *)
EXTENDS Messages

MCChars == {"a", "1", ",", " ", "u2", "u3"}
MCTexts == UNION {[1 .. n -> MCChars] : n \in 0 .. 2}
MCIds == {0, 9, 10, 9999, 10000, 120034}
=============================================================================
