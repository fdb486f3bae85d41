------------------------------- MODULE Tokens -------------------------------
(* A text file as the sequence of what operator>> of std::fstream makes of *)
(* it, whatever the white space is.                                        *)
EXTENDS Naturals, SequencesExt

(* What is left of a file when n tokens are read.                          *)
After(file, n) == SubSeq(file, n + 1, Len(file))

(* The tokens of a list of things.                                         *)
Flat(s, TokensOf(_)) == FlattenSeq([i \in DOMAIN s |-> TokensOf(s[i])])
=============================================================================
