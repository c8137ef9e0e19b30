---------------------------- MODULE TemplateParser ----------------------------
(* The translation of an .rvt template into a Tcl script                     *)
(* (parser/rivetParser.c).  Operators only: the parser is a step per         *)
(* character, folded over the template.                                      *)
(*                                                                           *)
(* A character is a one-character string.  The script is a sequence of       *)
(* characters and of the three pieces of Tcl that the parser writes.         *)
EXTENDS Integers, SequencesExt

StartTag == <<"<", "?">>
EndTag   == <<"?", ">">>

PutsOpen == "puts -nonewline \""      \* a string begins
PutsEcho == "puts -nonewline "        \* the code that follows is what is printed
Close    == "\"\n"                    \* the string ends
Special  == {"{", "}", "$", "[", "]", "\"", "\\"}
Escaped(c) == <<"\\", c>>

(* inside the tags; p characters of the tag that may be met; at the place    *)
(* where = asks for the value of the code.                                   *)
Start == [inside |-> FALSE, p |-> 0, checkEcho |-> FALSE, out |-> <<PutsOpen>>]

(* A character that is no part of a tag, with the part of a tag before it.   *)
\* mutant: the part of a tag before it is dropped
Outside_DropPartial(s, c) ==
    [s EXCEPT !.p = 0, !.out = @ \o (IF c \in Special THEN Escaped(c) ELSE <<c>>)]

Outside(s, c) ==
    [s EXCEPT !.p = 0,
              !.out = @ \o SubSeq(StartTag, 1, s.p)
                        \o (IF c \in Special THEN Escaped(c) ELSE <<c>>)]
Inside(s, c) ==
    [s EXCEPT !.p = 0, !.out = @ \o SubSeq(EndTag, 1, s.p) \o <<c>>]

Enter(s) == [inside |-> TRUE, p |-> 0, checkEcho |-> TRUE, out |-> Append(s.out, Close)]
Leave(s) == [inside |-> FALSE, p |-> 0, checkEcho |-> FALSE, out |-> Append(s.out, PutsOpen)]

Step(s, c) ==
    LET tag == IF s.inside THEN EndTag ELSE StartTag
        met == c = tag[s.p + 1]
        t   == [s EXCEPT !.checkEcho = FALSE]
    IN  CASE s.checkEcho /\ c = "=" -> [t EXCEPT !.out = Append(@, PutsEcho)]
          [] ~(s.checkEcho /\ c = "=") /\ met /\ s.p = 0 -> [t EXCEPT !.p = 1]
          [] ~(s.checkEcho /\ c = "=") /\ met /\ s.p = 1 -> IF s.inside THEN Leave(t) ELSE Enter(t)
          [] OTHER -> IF s.inside THEN Inside(t, c) ELSE Outside(t, c)

(* Rivet_GetRivetFileEncoding and parserivetdata around the parser.          *)
Translate(template) ==
    LET s == FoldLeft(Step, Start, template)
    IN  IF s.inside THEN s.out ELSE Append(s.out, Close)
-----------------------------------------------------------------------------
(* What a template means, without reference to the parser: text up to the    *)
(* first <?, code up to the next ?>, and so on.                              *)
TagAt(t, i, tag) == i + 1 <= Len(t) /\ t[i] = tag[1] /\ t[i + 1] = tag[2]
MeaningStep(t, m, i) ==
    CASE m.skip -> [m EXCEPT !.skip = FALSE, !.echo = m.code /\ i < Len(t) /\ t[i + 1] = "="]
      [] ~m.skip /\ m.echo ->
            [m EXCEPT !.echo = FALSE, !.out = Append(@, [kind |-> "echo", char |-> t[i]])]
      [] ~m.skip /\ ~m.echo /\ TagAt(t, i, IF m.code THEN EndTag ELSE StartTag) ->
            [m EXCEPT !.code = ~@, !.skip = TRUE]
      [] OTHER ->
            [m EXCEPT !.out = Append(@, [kind |-> IF m.code THEN "code" ELSE "text", char |-> t[i]])]
MeaningStart == [code |-> FALSE, skip |-> FALSE, echo |-> FALSE, out |-> <<>>]
Meaning(template) ==
    FoldLeft(LAMBDA m, i : MeaningStep(template, m, i), MeaningStart,
             [i \in 1..Len(template) |-> i]).out

(* How Tcl reads a script: characters of strings, with the escapes undone,   *)
(* and characters of code.                                                   *)
ReadingStep(r, c) ==
    CASE c \in {PutsOpen, Close} -> [r EXCEPT !.string = (c = PutsOpen)]
      [] c = PutsEcho -> [r EXCEPT !.out = Append(@, [kind |-> "echo", char |-> "="])]
      [] r.string /\ c = "\\" /\ ~r.escape -> [r EXCEPT !.escape = TRUE]
      [] OTHER -> [r EXCEPT !.escape = FALSE,
                            !.bad = r.bad \/ (r.string /\ ~r.escape /\ c \in Special),
                            !.out = Append(@, [kind |-> IF r.string THEN "text" ELSE "code",
                                               char |-> c])]
ReadingStart == [string |-> FALSE, escape |-> FALSE, bad |-> FALSE, out |-> <<>>]
Reading(script) == FoldLeft(ReadingStep, ReadingStart, script)

(* Templates the parser does not read that way: a tag whose first character  *)
(* follows an equal one, or a part of a tag at the end.                      *)
Odd(template) ==
    \/ \E i \in 1..(Len(template) - 1) : template[i] = template[i + 1] /\ template[i] \in {"<", "?"}
    \/ template # <<>> /\ Last(template) \in {"<", "?"}
=============================================================================
