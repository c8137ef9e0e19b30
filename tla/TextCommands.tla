----------------------------- MODULE TextCommands -----------------------------
(* The commands of librivet that work on lists and strings (rivetList.c,     *)
(* rivetWWW.c), the decoding of a query string (request/apache_request.c)    *)
(* and the template parser: an action calls a command with an argument and   *)
(* keeps what it returns; the properties compare that with what the command  *)
(* means.                                                                    *)
(*                                                                           *)
(* Strings that are decoded are sequences of bytes; an element of a list is  *)
(* a sequence of characters.                                                 *)
EXTENDS TemplateParser

CONSTANTS
    Chars, MaxTemplate,  \* bound: the templates
    Items, MaxList,      \* bound: the lists, and the elements a pattern matches
    Patterns,            \* patterns: the set of elements each of them matches
    Bytes, MaxBytes,     \* bound: the strings
    Fields               \* bound: the fields of a line

ASSUME TextAssumption ==
    /\ MaxTemplate \in Nat /\ MaxList \in Nat /\ MaxBytes \in Nat
    /\ Bytes \subseteq 1..255 /\ Patterns \subseteq SUBSET Items
    /\ Fields \subseteq Seq(STRING)
    /\ Chars \cap {PutsOpen, PutsEcho, Close} = {}

VARIABLE call    \* the last call: command, argument, result

BadString == <<0>>                  \* the errors: no string of Bytes, no field
BadLine == <<(<<"format error">>)>>
Empty == "empty"
-----------------------------------------------------------------------------
(* lremove: the elements no pattern matches; without -all everything behind  *)
(* the first one removed.                                                    *)
\* mutant: an element is kept if one of the patterns does not match
Matches_All(x, patterns) == \A i \in DOMAIN patterns : x \in patterns[i]

Matches(x, patterns) == \E i \in DOMAIN patterns : x \in patterns[i]

LremoveStep(all, patterns, r, x) ==
    IF ~r.done /\ Matches(x, patterns) THEN [r EXCEPT !.done = ~all]
    ELSE [r EXCEPT !.out = Append(@, x)]
Lremove(list, all, patterns) ==
    FoldLeft(LAMBDA r, x : LremoveStep(all, patterns, r, x), [done |-> FALSE, out |-> <<>>], list).out

(* lassign_array: the elements go to the names, a name without an element is *)
(* empty, and the elements left over are the result.                         *)
LassignArray(list, names) ==
    [array |-> [n \in {names[i] : i \in DOMAIN names} |->
                  LET last == CHOOSE i \in DOMAIN names :
                                names[i] = n /\ \A j \in (i + 1)..Len(names) : names[j] # n
                  IN  IF last <= Len(list) THEN list[last] ELSE Empty],
     rest  |-> SubSeq(list, Len(names) + 1, Len(list))]

(* comma_join: every element in quotes, a quote in it twice.                 *)
Quote == "\""
Comma == ","
Doubled(f) == FlattenSeq([i \in DOMAIN f |-> IF f[i] = Quote THEN <<Quote, Quote>> ELSE <<f[i]>>])
CommaJoin(list) ==
    LET quoted(f) == <<Quote>> \o Doubled(f)
        fields == [i \in DOMAIN list |-> quoted(list[i]) \o (IF i < Len(list) THEN <<Quote, Comma>> ELSE <<>>)]
    IN  FlattenSeq(fields) \o <<Quote>>

(* comma_split: a field that begins with a quote ends at the next quote that *)
(* a comma follows, two quotes are passed over; any other ends at a comma.   *)
SplitStart == [fields |-> <<>>, field |-> <<>>, mode |-> "start", skip |-> FALSE]
EndField(s) == [s EXCEPT !.fields = Append(@, s.field), !.field = <<>>, !.mode = "start"]
SplitStep(line, s, i) ==
    LET c == line[i]
        next == IF i < Len(line) THEN line[i + 1] ELSE "end"
        take == [s EXCEPT !.field = Append(@, c), !.skip = FALSE]
    IN  CASE s.skip -> IF s.mode = "quoted" THEN take ELSE [s EXCEPT !.skip = FALSE]
          [] ~s.skip /\ s.mode = "start" /\ c = Quote -> [s EXCEPT !.mode = "quoted"]
          [] ~s.skip /\ s.mode = "quoted" ->
                CASE c = Quote /\ next = Quote -> [take EXCEPT !.skip = TRUE]
                  [] c = Quote /\ next = Comma -> [EndField(s) EXCEPT !.skip = TRUE]
                  [] OTHER -> take
          [] OTHER -> IF c = Comma THEN EndField(s) ELSE [take EXCEPT !.mode = "plain"]
SplitEnd(line) ==
    FoldLeft(LAMBDA t, i : SplitStep(line, t, i), SplitStart, [i \in 1..Len(line) |-> i])
CommaSplit(line) ==
    LET s == SplitEnd(line)
    IN  CASE line = <<>> -> <<>>
          [] line # <<>> /\ s.mode = "quoted" -> BadLine
          [] OTHER -> EndField(s).fields
-----------------------------------------------------------------------------
(* Bytes.                                                                    *)
Digit == 48..57
Upper == 65..90
Lower == 97..122
Alnum == Digit \cup Upper \cup Lower
Space == 32
Plus == 43
Percent == 37
HexDigit(c) == c \in Digit \cup 65..70 \cup 97..102

(* Rivet_HexToDigit, Rivet_DigitToHex.                                       *)
HexToDigit(c) ==
    CASE c \in Digit  -> c - 48
      [] c \in 65..70  -> c - 65 + 10
      [] c \in 97..102 -> c - 97 + 10
      [] OTHER -> -1
DigitToHex(n) == IF n < 10 THEN n + 48 ELSE n - 10 + 97

(* escape_string.                                                            *)
\* mutant: the digits in the wrong order
EscapeByte_Swapped(c) ==
    CASE c \in Alnum -> <<c>>
      [] c = Space   -> <<Plus>>
      [] OTHER       -> <<Percent, DigitToHex(c % 16), DigitToHex(c \div 16)>>

EscapeByte(c) ==
    CASE c \in Alnum -> <<c>>
      [] c = Space   -> <<Plus>>
      [] OTHER       -> <<Percent, DigitToHex(c \div 16), DigitToHex(c % 16)>>
EscapeString(s) == FlattenSeq([i \in DOMAIN s |-> EscapeByte(s[i])])

(* unescape_string: a % without two hex digits is an error.                  *)
DigitAt(s, i) == IF i \in DOMAIN s THEN HexToDigit(s[i]) ELSE -1
UnescapeStep(s, t, i) ==
    CASE t.skip > 0 -> [t EXCEPT !.skip = @ - 1]
      [] t.skip = 0 /\ s[i] = Plus -> [t EXCEPT !.out = Append(@, Space)]
      [] t.skip = 0 /\ s[i] = Percent ->
            IF -1 \in {DigitAt(s, i + 1), DigitAt(s, i + 2)} THEN [t EXCEPT !.bad = TRUE]
            ELSE [out |-> Append(t.out, DigitAt(s, i + 1) * 16 + DigitAt(s, i + 2)), skip |-> 2,
                  bad |-> t.bad]
      [] OTHER -> [t EXCEPT !.out = Append(@, s[i])]
Unescaped(s) ==
    FoldLeft(LAMBDA t, i : UnescapeStep(s, t, i), [out |-> <<>>, skip |-> 0, bad |-> FALSE],
             [i \in 1..Len(s) |-> i])
UnescapeString(s) == IF Unescaped(s).bad THEN BadString ELSE Unescaped(s).out

(* The decoding of a query string: + to space, then ap_unescape_url_u, which *)
(* leaves a % without two hex digits as it is.  The %uXXXX form is left out. *)
X2c(a, b) == HexToDigit(a) * 16 + HexToDigit(b)
UrlStep(s, t, i) ==
    CASE t.skip > 0 -> [t EXCEPT !.skip = @ - 1]
      [] /\ t.skip = 0 /\ s[i] = Percent /\ i + 2 <= Len(s)
         /\ HexDigit(s[i + 1]) /\ HexDigit(s[i + 2]) ->
            [t EXCEPT !.out = Append(@, X2c(s[i + 1], s[i + 2])), !.skip = 2]
      [] OTHER -> [t EXCEPT !.out = Append(@, IF s[i] = Plus THEN Space ELSE s[i])]
UnescapeUrl(s) ==
    FoldLeft(LAMBDA t, i : UrlStep(s, t, i), [out |-> <<>>, skip |-> 0], [i \in 1..Len(s) |-> i]).out

(* split_to_parms: words end at & or ;, any number of them; the key ends at  *)
(* =, any number of them.                                                    *)
Amp == 38
Semi == 59
Equals == 61
WordStep(t, c, first) ==
    CASE c \notin {Amp, Semi} -> [words |-> t.words, word |-> Append(t.word, c), open |-> TRUE]
      [] c \in {Amp, Semi} /\ (t.open \/ first) ->
            [words |-> Append(t.words, t.word), word |-> <<>>, open |-> FALSE]
      [] OTHER -> t
WordsEnd(s) ==
    FoldLeft(LAMBDA t, i : WordStep(t, s[i], i = 1), [words |-> <<>>, word |-> <<>>, open |-> FALSE],
             [i \in 1..Len(s) |-> i])
UrlWords(s) ==
    LET r == WordsEnd(s) IN IF r.open THEN Append(r.words, r.word) ELSE r.words
KeyAndValue(word) ==
    LET E == {i \in DOMAIN word : word[i] = Equals}
        key == SubSeq(word, 1, Min(E) - 1)
        rest == {i \in DOMAIN word : i > Min(E) /\ \E j \in Min(E)..i : word[j] # Equals}
    IN  IF E = {} THEN [key |-> UnescapeUrl(word), val |-> <<>>]
        ELSE [key |-> UnescapeUrl(key),
              val |-> UnescapeUrl(IF rest = {} THEN <<>> ELSE SubSeq(word, Min(rest), Len(word)))]
SplitToParms(s) == [i \in DOMAIN UrlWords(s) |-> KeyAndValue(UrlWords(s)[i])]

(* A query string as a client makes it.                                      *)
Query(parms) ==
    FlattenSeq([i \in DOMAIN parms |->
        (IF i > 1 THEN <<Amp>> ELSE <<>>) \o EscapeString(parms[i].key) \o <<Equals>>
            \o EscapeString(parms[i].val)])

(* escape_sgml_chars and escape_shell_command.  An entity is the byte it     *)
(* stands for, negated.                                                      *)
SgmlSpecial == {34, 38, 39, 60, 62}
EscapeSgmlChars(s) == [i \in DOMAIN s |-> IF s[i] \in SgmlSpecial THEN -s[i] ELSE s[i]]
ShellSpecial == {36, 38, 39, 40, 41, 42, 45, 59, 60, 62, 63, 91, 92, 93, 94, 96, 123, 124, 125, 126}
Backslash == 92
EscapeShellCommand(s) ==
    FlattenSeq([i \in DOMAIN s |-> IF s[i] \in ShellSpecial THEN <<Backslash, s[i]>> ELSE <<s[i]>>])
-----------------------------------------------------------------------------
(* The calls.                                                                *)
NoCall == [cmd |-> "none"]
Called(cmd, arg, result) == call' = [cmd |-> cmd, arg |-> arg, result |-> result]
Ready == call = NoCall

SeqsUpTo(S, n) == UNION {[1..m -> S] : m \in 0..n}
Strings == SeqsUpTo(Bytes, MaxBytes)

CallParse == Ready /\ \E t \in SeqsUpTo(Chars, MaxTemplate) : Called("parse", t, Translate(t))
CallLremove ==
    /\ Ready
    /\ \E list \in SeqsUpTo(Items, MaxList), all \in BOOLEAN, ps \in SeqsUpTo(Patterns, 2) :
        /\ ps # <<>>
        /\ Called("lremove", [list |-> list, all |-> all, patterns |-> ps], Lremove(list, all, ps))
CallLassign ==
    /\ Ready
    /\ \E list, names \in SeqsUpTo(Items, MaxList) :
        names # <<>> /\ Called("lassign", [list |-> list, names |-> names], LassignArray(list, names))
CallJoin ==
    /\ Ready
    /\ \E list \in SeqsUpTo(Fields, MaxList) :
        list # <<>> /\ Called("join", list, CommaJoin(list))
CallSplit ==
    /\ Ready
    /\ \E list \in SeqsUpTo(Fields, MaxList) :
        /\ list # <<>> /\ \A i \in DOMAIN list : Range(list[i]) \cap {Quote, Comma} = {}
        /\ LET line == FlattenSeq([i \in DOMAIN list |->
                          IF i < Len(list) THEN Append(list[i], Comma) ELSE list[i]])
           IN  Called("split", list, CommaSplit(line))
CallEscape == Ready /\ \E s \in Strings : Called("escape", s, EscapeString(s))
CallUnescape == Ready /\ \E s \in Strings : Called("unescape", s, UnescapeString(s))
CallParms ==
    /\ Ready
    /\ \E n \in 0..2 : \E ps \in [1..n -> [key : SeqsUpTo(Bytes, 1), val : SeqsUpTo(Bytes, 1)]] :
        Called("parms", ps, SplitToParms(Query(ps)))
CallQuote ==
    /\ Ready
    /\ \E s \in Strings :
        Called("quote", s, [sgml |-> EscapeSgmlChars(s), shell |-> EscapeShellCommand(s)])
Return == ~Ready /\ call' = NoCall

Init == call = NoCall
Next == CallParse \/ CallLremove \/ CallLassign \/ CallJoin \/ CallSplit \/ CallEscape
            \/ CallUnescape \/ CallParms \/ CallQuote \/ Return
Spec == Init /\ [][Next]_call
-----------------------------------------------------------------------------
(* The script a template is translated to prints its text, runs its code and *)
(* prints the value of what follows <?=, in this order, unless the template  *)
(* is one of the odd ones; and no character of the text of any template is   *)
(* read by Tcl as more than that character.                                  *)
TemplateFaithful ==
    call.cmd = "parse" =>
        /\ ~Reading(call.result).bad
        /\ ~Odd(call.arg) => Reading(call.result).out = Meaning(call.arg)

(* lremove removes what one of the patterns matches, the first such element  *)
(* or all; lassign_array loses no element; comma_split splits plain fields,  *)
(* and the fields that comma_join wrote come back one for one whatever they  *)
(* hold, if the line goes on.  Two things rivetList.c says are not asked     *)
(* for, as the code does otherwise: two quotes in the body of a field are to *)
(* map to one (244, 289), the code passes over them, so that a field may     *)
(* come back as it was or with its quotes doubled; and a quoted field may    *)
(* end the line (317), the code reports a format error there.                *)
ListMeaning ==
    LET a == call.arg IN
    CASE call.cmd = "lremove" ->
            LET hits == {i \in DOMAIN a.list : \E j \in DOMAIN a.patterns : a.list[i] \in a.patterns[j]}
            IN  call.result = IF a.all THEN FlattenSeq([i \in DOMAIN a.list |->
                                                          IF i \in hits THEN <<>> ELSE <<a.list[i]>>])
                              ELSE IF hits = {} THEN a.list ELSE RemoveAt(a.list, Min(hits))
      [] call.cmd = "lassign" ->
            IsInjective(a.names) =>
                LET given == [i \in DOMAIN a.names |-> call.result.array[a.names[i]]] \o call.result.rest
                IN  given = [i \in DOMAIN given |-> IF i <= Len(a.list) THEN a.list[i] ELSE Empty]
                    /\ Len(given) >= Len(a.list)
      [] call.cmd = "join" ->
            LET back == CommaSplit(call.result \o <<Comma, "x">>)
            IN  /\ Len(back) = Len(a) + 1 /\ back[Len(back)] = <<"x">>
                /\ \A i \in DOMAIN a : back[i] \in {a[i], Doubled(a[i])}
      [] call.cmd = "split" -> call.result = IF a = <<(<<>>)>> THEN <<>> ELSE a
      [] OTHER -> TRUE

(* How a shell reads a string: the byte behind a backslash is itself; bad    *)
(* says that one of ShellSpecial was met that means something.               *)
ShellStart == [out |-> <<>>, literal |-> FALSE, bad |-> FALSE]
ShellStep(t, c) ==
    CASE t.literal -> [out |-> Append(t.out, c), literal |-> FALSE, bad |-> t.bad]
      [] ~t.literal /\ c = Backslash -> [out |-> t.out, literal |-> TRUE, bad |-> t.bad]
      [] OTHER -> [out |-> Append(t.out, c), literal |-> FALSE, bad |-> t.bad \/ c \in ShellSpecial]
ShellReading(s) == FoldLeft(ShellStep, ShellStart, s)

(* What escape_string makes is decoded to the same bytes by unescape_string  *)
(* and as part of a query string; the parameters of a query string come out  *)
(* as they went in; no character of markup is left and the entities stand    *)
(* for what was there; a shell reads what escape_shell_command makes as the  *)
(* string it was made of and finds none of the command's special characters  *)
(* with a meaning of its own (a double quote, # and newline are none of      *)
(* them, and stay as they are).                                              *)
EscapesUndone ==
    LET a == call.arg IN
    CASE call.cmd = "escape" ->
            /\ UnescapeString(call.result) = a
            /\ UnescapeUrl(call.result) = a
      [] call.cmd = "unescape" -> call.result # BadString => call.result = UnescapeUrl(a)
      [] call.cmd = "parms" -> call.result = a
      [] call.cmd = "quote" ->
            /\ Range(call.result.sgml) \cap SgmlSpecial = {}
            /\ a = [i \in DOMAIN call.result.sgml |-> IF call.result.sgml[i] < 0 THEN -call.result.sgml[i]
                                                    ELSE call.result.sgml[i]]
            /\ ShellReading(call.result.shell) = [out |-> a, literal |-> FALSE, bad |-> FALSE]
      [] OTHER -> TRUE
=============================================================================
