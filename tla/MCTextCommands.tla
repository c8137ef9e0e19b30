---------------------------- MODULE MCTextCommands ----------------------------
(* A small instance of TextCommands: a, space, %, +, =, &, 2, <, a single    *)
(* quote, a backslash, a byte above 127.                                     *)
EXTENDS TextCommands

MCBytes == {97, 32, 37, 43, 61, 38, 50, 60, 39, 92, 233}
MCFields == SeqsUpTo({"a", ",", "\""}, 2)
MCPatterns == {{"i"}, {"i", "j"}, {"k"}}
=============================================================================
